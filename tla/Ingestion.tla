----------------------------- MODULE Ingestion ------------------------------
(***************************************************************************)
(* POST /v1/transactions of ingestion-api (transactions.py) on replicas    *)
(* that share PostgreSQL and Redis.  One action is one await of            *)
(* ingest_transaction, so that concurrent requests with one key interleave *)
(* between the lookup, the insert and the publication.                     *)
(*                                                                         *)
(* The case, transaction and event identifiers are UUIDv5 of the           *)
(* idempotency key: the key stands for all three.  A payload stands for    *)
(* the fields _payload_conflicts_with_existing compares.                   *)
(***************************************************************************)
EXTENDS Naturals, FiniteSets

CONSTANTS Requests,   (* HTTP requests, the client's retries included       *)
          Keys,       (* values of the Idempotency-Key header               *)
          Payloads,   (* transaction payloads                               *)
          NoPayload,  (* absence of a row, or of a response body            *)
          MaxFaults   (* bound: requests cut short by an error or a crash   *)

ASSUME IngestionAssumption ==
  /\ NoPayload \notin Payloads
  /\ IsFiniteSet(Keys)
  /\ MaxFaults \in Nat

VARIABLES
  pc,          (* the await each request has reached                        *)
  key,         (* its Idempotency-Key                                       *)
  payload,     (* its payload                                               *)
  status,      (* "none", or how the request ended                          *)
  body,        (* the transaction returned with a 201                       *)
  cases,       (* table cases: key -> initial_payload, or NoPayload         *)
  published,   (* case.created entries on the stream, with who added them   *)
  caseEvents,  (* table case_events: keys whose case.created is recorded    *)
  faults       (* history: requests cut short so far                        *)

vars == <<pc, key, payload, status, body, cases, published, caseEvents, faults>>
request == <<key, payload>>
store == <<cases, published, caseEvents>>

Step == {"idle", "guard", "lookup", "insert", "recheck", "publish", "record",
         "reply", "done"}
Status == {"none", "created", "conflict", "refused", "error"}
Entry == [key : Keys, payload : Payloads, by : Requests]

Init ==
  /\ pc = [q \in Requests |-> "idle"]
  /\ key \in [Requests -> Keys]
  /\ payload \in [Requests -> Payloads]
  /\ status = [q \in Requests |-> "none"]
  /\ body = [q \in Requests |-> NoPayload]
  /\ cases = [k \in Keys |-> NoPayload]
  /\ published = {}
  /\ caseEvents = {}
  /\ faults = 0

Goto(q, s) == pc' = [pc EXCEPT ![q] = s]

End(q, s, b) ==
  /\ Goto(q, "done")
  /\ status' = [status EXCEPT ![q] = s]
  /\ body' = [body EXCEPT ![q] = b]

Receive(q) ==
  /\ pc[q] = "idle"
  /\ Goto(q, "guard")
  /\ UNCHANGED <<request, status, body, store, faults>>

\* require_write_access and enforce_write_rate_limit: 401, 403, 429 or go on.
Guard(q) ==
  /\ pc[q] = "guard"
  /\ \/ End(q, "refused", NoPayload)
     \/ Goto(q, "lookup") /\ UNCHANGED <<status, body>>
  /\ UNCHANGED <<request, store, faults>>

\* Mutant: the idempotency key alone decides.
AnswerAnyPayload(q) == End(q, "created", cases[key[q]])

\* What a request answers when its key already has a case.
AnswerExisting(q) ==
  LET existing == cases[key[q]] IN
  IF payload[q] # existing
  THEN End(q, "conflict", NoPayload)
  ELSE End(q, "created", existing)

Lookup(q) ==
  /\ pc[q] = "lookup"
  /\ \/ cases[key[q]] # NoPayload /\ AnswerExisting(q)
     \/ cases[key[q]] = NoPayload /\ Goto(q, "insert") /\ UNCHANGED <<status, body>>
  /\ UNCHANGED <<request, store, faults>>

\* Mutant: the result of insert_case is ignored.
InsertAndPublish(q) ==
  /\ pc[q] = "insert"
  /\ cases' = [cases EXCEPT ![key[q]] = IF @ = NoPayload THEN payload[q] ELSE @]
  /\ Goto(q, "publish")
  /\ UNCHANGED <<request, status, body, published, caseEvents, faults>>

\* Mutant: the test of the result of insert_case is inverted.
InsertInverted(q) ==
  /\ pc[q] = "insert"
  /\ \/ /\ cases[key[q]] = NoPayload
        /\ cases' = [cases EXCEPT ![key[q]] = payload[q]]
        /\ Goto(q, "recheck")
     \/ /\ cases[key[q]] # NoPayload
        /\ Goto(q, "publish")
        /\ UNCHANGED cases
  /\ UNCHANGED <<request, status, body, published, caseEvents, faults>>

\* insert_case: ON CONFLICT DO NOTHING, committed on its own.
InsertCase(q) ==
  /\ pc[q] = "insert"
  /\ \/ /\ cases[key[q]] = NoPayload
        /\ cases' = [cases EXCEPT ![key[q]] = payload[q]]
        /\ Goto(q, "publish")
     \/ /\ cases[key[q]] # NoPayload
        /\ Goto(q, "recheck")
        /\ UNCHANGED cases
  /\ UNCHANGED <<request, status, body, published, caseEvents, faults>>

\* The request that lost the insert reads the winner's row; the last 409 of
\* the handler ("Transaction already exists") stands for no row at all.
Recheck(q) ==
  /\ pc[q] = "recheck"
  /\ AnswerExisting(q)
  /\ UNCHANGED <<request, store, faults>>

\* Mutant: the event is built from the response, which is not there yet.
PublishResponse(q) ==
  /\ pc[q] = "publish"
  /\ published' = published \cup {[key |-> key[q], payload |-> body[q], by |-> q]}
  /\ Goto(q, "record")
  /\ UNCHANGED <<request, status, body, cases, caseEvents, faults>>

PublishCreated(q) ==
  /\ pc[q] = "publish"
  /\ published' = published \cup {[key |-> key[q], payload |-> payload[q], by |-> q]}
  /\ Goto(q, "record")
  /\ UNCHANGED <<request, status, body, cases, caseEvents, faults>>

\* append_case_event: ON CONFLICT (event_id) DO NOTHING.
RecordCreated(q) ==
  /\ pc[q] = "record"
  /\ caseEvents' = caseEvents \cup {key[q]}
  /\ Goto(q, "reply")
  /\ UNCHANGED <<request, status, body, cases, published, faults>>

Reply(q) ==
  /\ pc[q] = "reply"
  /\ End(q, "created", payload[q])
  /\ UNCHANGED <<request, store, faults>>

\* PostgreSQL or Redis raises (500), or the replica dies, before the next
\* await: a call that took effect and lost its reply is the call, then this.
Abort(q) ==
  /\ pc[q] \notin {"idle", "done"}
  /\ faults < MaxFaults
  /\ faults' = faults + 1
  /\ End(q, "error", NoPayload)
  /\ UNCHANGED <<request, store>>

Proceed(q) ==
  \/ Guard(q) \/ Lookup(q) \/ InsertCase(q) \/ Recheck(q)
  \/ PublishCreated(q) \/ RecordCreated(q) \/ Reply(q)

Next == \E q \in Requests : Receive(q) \/ Proceed(q) \/ Abort(q)

Spec == Init /\ [][Next]_vars

\* A request that was received runs on; clients owe nothing.
FairSpec == Spec /\ \A q \in Requests : WF_vars(Proceed(q))

-----------------------------------------------------------------------------
\* The shape of the state.
TypeOK ==
  /\ pc \in [Requests -> Step]
  /\ key \in [Requests -> Keys]
  /\ payload \in [Requests -> Payloads]
  /\ status \in [Requests -> Status]
  /\ body \in [Requests -> Payloads \cup {NoPayload}]
  /\ cases \in [Keys -> Payloads \cup {NoPayload}]
  /\ published \subseteq Entry
  /\ caseEvents \subseteq Keys
  /\ faults \in 0..MaxFaults

IsPublished(k) == \E x \in published : x.key = k

\* PLAN_DOMKNIECIA_PROJEKTU_CODEX.md P0.3: retries and races with one key put
\* one case.created on the stream, and it carries the stored payload.
OneCaseCreated ==
  \A x, y \in published :
    /\ x.key = y.key => x = y
    /\ x.payload = cases[x.key]

\* Every 201 of one key, from whichever branch of the handler, returns the one
\* transaction that is stored; a 409 is answered only to another payload.
AnswersAgree ==
  \A q \in Requests :
    /\ status[q] = "created"  => body[q] = cases[key[q]] /\ body[q] = payload[q]
    /\ status[q] = "conflict" => cases[key[q]] \notin {payload[q], NoPayload}

\* A stored case that no request is about to publish and that is not published.
Stranded(k) ==
  /\ cases[k] # NoPayload
  /\ ~ IsPublished(k)
  /\ \A q \in Requests : ~ (pc[q] = "publish" /\ key[q] = k)

\* Only a fault strands a case, and each fault strands one case at most.
FaultsStrand == Cardinality({k \in Keys : Stranded(k)}) <= faults

\* While nothing failed, an accepted transaction enters the pipeline.
AcceptedFlows ==
  \A q \in Requests :
    status[q] = "created" ~> (IsPublished(key[q]) \/ faults > 0)

\* docs/FAQ_TECHNICAL_INTERVIEW.md:4 (no flow is lost on failure) and
\* docs/STAN_PROJEKTU_I_FLOW_TECHNICZNY.md:13 (crash-safe): an accepted
\* transaction enters the pipeline whatever failed before.
AcceptedFlowsDespiteCrash ==
  \A q \in Requests : status[q] = "created" ~> IsPublished(key[q])
=============================================================================
