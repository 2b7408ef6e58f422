-------------------------- MODULE IngestionProofs ---------------------------
(***************************************************************************)
(* Proofs about Ingestion, for any number of concurrent requests, keys and *)
(* payloads and any number of faults.                                      *)
(***************************************************************************)
EXTENDS Ingestion, FiniteSetTheorems, TLAPS

Publishing(q, k) == pc[q] = "publish" /\ key[q] = k

\* A request past the insert owns the row of its key; while it is about to
\* publish, nothing is published for the key and nobody else is about to.
Ownership ==
  \A q \in Requests :
    /\ pc[q] \in {"publish", "record", "reply"} => cases[key[q]] = payload[q]
    /\ pc[q] = "publish" =>
         /\ ~ IsPublished(key[q])
         /\ \A p \in Requests : Publishing(p, key[q]) => p = q
    /\ pc[q] = "recheck" => cases[key[q]] # NoPayload

IInv == TypeOK /\ OneCaseCreated /\ AnswersAgree /\ Ownership

\* Every published entry belongs to a stored case.
LEMMA PublishedIsStored ==
  ASSUME TypeOK, OneCaseCreated, NEW k \in Keys, IsPublished(k)
  PROVE  cases[k] # NoPayload
BY IngestionAssumption DEF TypeOK, OneCaseCreated, IsPublished, Entry

\* The invariant holds before the first request.
LEMMA InitIInv == Init => IInv
BY IngestionAssumption
DEF Init, IInv, TypeOK, OneCaseCreated, AnswersAgree, Ownership, Step, Status

\* Every await of every request keeps the invariant.
LEMMA StepIInv == IInv /\ [Next]_vars => IInv'
<1> SUFFICES ASSUME IInv, [Next]_vars PROVE IInv'
  OBVIOUS
<1> USE IngestionAssumption
<1>0. TypeOK /\ OneCaseCreated /\ AnswersAgree /\ Ownership
  BY DEF IInv
<1>1. ASSUME NEW q \in Requests, Receive(q) PROVE IInv'
  BY <1>0, <1>1 DEF IInv, TypeOK, OneCaseCreated, AnswersAgree, Ownership, Publishing,
     IsPublished, Receive, Goto, request, store, Step
<1>2. ASSUME NEW q \in Requests, Guard(q) PROVE IInv'
  BY <1>0, <1>2 DEF IInv, TypeOK, OneCaseCreated, AnswersAgree, Ownership, Publishing,
     IsPublished, Guard, End, Goto, request, store, Step, Status
<1>3. ASSUME NEW q \in Requests, Lookup(q) PROVE IInv'
  BY <1>0, <1>3 DEF IInv, TypeOK, OneCaseCreated, AnswersAgree, Ownership, Publishing,
     IsPublished, Lookup, AnswerExisting, End, Goto, request, store, Step, Status
<1>4. ASSUME NEW q \in Requests, InsertCase(q) PROVE IInv'
  BY <1>0, <1>4, PublishedIsStored DEF IInv, TypeOK, OneCaseCreated, AnswersAgree, Ownership, Publishing,
     IsPublished, InsertCase, End, Goto, request, store, Step, Status, Entry
<1>5. ASSUME NEW q \in Requests, Recheck(q) PROVE IInv'
  BY <1>0, <1>5 DEF IInv, TypeOK, OneCaseCreated, AnswersAgree, Ownership, Publishing,
     IsPublished, Recheck, AnswerExisting, End, Goto, request, store, Step, Status
<1>6. ASSUME NEW q \in Requests, PublishCreated(q) PROVE IInv'
  BY <1>0, <1>6 DEF IInv, TypeOK, OneCaseCreated, AnswersAgree, Ownership, Publishing,
     IsPublished, PublishCreated, Goto, request, Step, Entry
<1>7. ASSUME NEW q \in Requests, RecordCreated(q) PROVE IInv'
  BY <1>0, <1>7 DEF IInv, TypeOK, OneCaseCreated, AnswersAgree, Ownership, Publishing,
     IsPublished, RecordCreated, Goto, request, Step
<1>8. ASSUME NEW q \in Requests, Reply(q) PROVE IInv'
  BY <1>0, <1>8 DEF IInv, TypeOK, OneCaseCreated, AnswersAgree, Ownership, Publishing,
     IsPublished, Reply, End, Goto, request, store, Step, Status
<1>9. ASSUME NEW q \in Requests, Abort(q) PROVE IInv'
  BY <1>0, <1>9 DEF IInv, TypeOK, OneCaseCreated, AnswersAgree, Ownership, Publishing,
     IsPublished, Abort, End, Goto, request, store, Step, Status
<1>10. CASE UNCHANGED vars
  BY <1>0, <1>10 DEF IInv, TypeOK, OneCaseCreated, AnswersAgree, Ownership, Publishing,
     IsPublished, vars
<1> QED
  BY <1>1, <1>2, <1>3, <1>4, <1>5, <1>6, <1>7, <1>8, <1>9, <1>10 DEF Next, Proceed

\* The inductive invariant: the types, the two properties and who owns a row.
THEOREM IngestionInvariant == Spec => []IInv
BY InitIInv, StepIInv, PTL DEF Spec

\* One case.created per idempotency key, carrying the stored payload.
THEOREM OneCaseCreatedHolds == Spec => []OneCaseCreated
BY IngestionInvariant, PTL DEF IInv

\* All the 201 answers of a key return the stored transaction.
THEOREM AnswersAgreeHolds == Spec => []AnswersAgree
BY IngestionInvariant, PTL DEF IInv

\* The state of the endpoint keeps its shape.
THEOREM TypeCorrect == Spec => []TypeOK
BY IngestionInvariant, PTL DEF IInv

StrandedKeys == {k \in Keys : Stranded(k)}

\* Only a fault strands a case: a request that stores a row is about to publish
\* it, and once it is no longer about to, the event is on the stream.
LEMMA OnlyFaultsStrand ==
  ASSUME IInv, [Next]_vars
  PROVE  \/ StrandedKeys' \subseteq StrandedKeys /\ faults' = faults
         \/ \E k \in Keys : StrandedKeys' \subseteq StrandedKeys \cup {k} /\ faults' = faults + 1
<1>1. TypeOK /\ AnswersAgree /\ Ownership
  BY DEF IInv
<1>2. CASE UNCHANGED vars
  BY <1>2 DEF vars, StrandedKeys, Stranded, IsPublished
<1>3. ASSUME NEW q \in Requests,
             \/ Receive(q) \/ Guard(q) \/ Lookup(q) \/ Recheck(q)
             \/ RecordCreated(q) \/ Reply(q)
      PROVE  StrandedKeys' \subseteq StrandedKeys /\ faults' = faults
  <2>1. UNCHANGED <<key, cases, published, faults>>
    BY <1>3 DEF Receive, Guard, Lookup, Recheck, RecordCreated, Reply, request, store
  <2>2. \A p \in Requests : pc[p] = "publish" => pc'[p] = "publish"
    BY <1>1, <1>3 DEF Receive, Guard, Lookup, Recheck, RecordCreated, Reply, AnswerExisting,
       End, Goto, TypeOK
  <2>. QED  BY <2>1, <2>2 DEF StrandedKeys, Stranded, IsPublished
<1>4. ASSUME NEW q \in Requests, InsertCase(q)
      PROVE  StrandedKeys' \subseteq StrandedKeys /\ faults' = faults
  <2>1. UNCHANGED <<key, published, faults>>
    BY <1>4 DEF InsertCase, request
  <2>2. \A p \in Requests : pc[p] = "publish" => pc'[p] = "publish"
    BY <1>1, <1>4 DEF InsertCase, Goto, TypeOK
  <2>3. \A k \in Keys : cases'[k] # cases[k] => k = key[q] /\ pc'[q] = "publish"
    BY <1>1, <1>4 DEF InsertCase, Goto, TypeOK
  <2>. QED  BY <2>1, <2>2, <2>3 DEF StrandedKeys, Stranded, IsPublished
<1>5. ASSUME NEW q \in Requests, PublishCreated(q)
      PROVE  StrandedKeys' \subseteq StrandedKeys /\ faults' = faults
  <2>1. UNCHANGED <<key, cases, faults>> /\ published \subseteq published'
    BY <1>5 DEF PublishCreated, request
  <2>2. \A p \in Requests : pc[p] = "publish" => pc'[p] = "publish" \/ p = q
    BY <1>1, <1>5 DEF PublishCreated, Goto, TypeOK
  <2>3. \E x \in published' : x.key = key[q]
    <3>1. PICK x : x = [key |-> key[q], payload |-> payload[q], by |-> q]
      OBVIOUS
    <3>2. x \in published' /\ x.key = key[q]
      BY <1>5, <3>1 DEF PublishCreated
    <3>. QED  BY <3>2
  <2>. QED  BY <2>1, <2>2, <2>3 DEF StrandedKeys, Stranded, IsPublished
<1>6. ASSUME NEW q \in Requests, Abort(q)
      PROVE  key[q] \in Keys /\ StrandedKeys' \subseteq StrandedKeys \cup {key[q]}
             /\ faults' = faults + 1
  <2>1. UNCHANGED <<key, cases, published>> /\ faults' = faults + 1 /\ key[q] \in Keys
    BY <1>1, <1>6 DEF Abort, request, store, TypeOK
  <2>2. \A p \in Requests : pc[p] = "publish" => pc'[p] = "publish" \/ p = q
    BY <1>1, <1>6 DEF Abort, End, Goto, TypeOK
  <2>. QED  BY <2>1, <2>2 DEF StrandedKeys, Stranded, IsPublished
<1>. QED  BY <1>2, <1>3, <1>4, <1>5, <1>6 DEF Next, Proceed

\* Each fault strands one case at most, however requests race for their keys.
THEOREM FaultsStrandHolds == Spec => []FaultsStrand
<1>1. Init => FaultsStrand
  <2>. SUFFICES ASSUME Init  PROVE FaultsStrand
    OBVIOUS
  <2>1. StrandedKeys = {}
    BY DEF Init, StrandedKeys, Stranded
  <2>. QED  BY <2>1, FS_EmptySet DEF FaultsStrand, StrandedKeys, Init
<1>2. FaultsStrand /\ IInv /\ [Next]_vars => FaultsStrand'
  <2>. SUFFICES ASSUME FaultsStrand, IInv, [Next]_vars  PROVE FaultsStrand'
    OBVIOUS
  <2>1. faults \in Nat /\ Cardinality(StrandedKeys) <= faults
    BY IngestionAssumption DEF IInv, TypeOK, FaultsStrand, StrandedKeys
  <2>2. PICK S, T : S = StrandedKeys /\ T = StrandedKeys'
    OBVIOUS
  <2>3. IsFiniteSet(S) /\ Cardinality(S) \in Nat
    BY <2>2, IngestionAssumption, FS_Subset, FS_CardinalityType DEF StrandedKeys
  <2>4. CASE T \subseteq S /\ faults' = faults
    <3>1. Cardinality(T) \in Nat /\ Cardinality(T) <= Cardinality(S)
      BY <2>3, <2>4, FS_Subset, FS_CardinalityType
    <3>. QED  BY <2>1, <2>2, <2>3, <2>4, <3>1 DEF FaultsStrand, StrandedKeys
  <2>5. ASSUME NEW k \in Keys, T \subseteq S \cup {k}, faults' = faults + 1  PROVE FaultsStrand'
    <3>1. IsFiniteSet(S \cup {k}) /\ Cardinality(S \cup {k}) <= Cardinality(S) + 1
            /\ Cardinality(S \cup {k}) \in Nat
      <4>1. IsFiniteSet(S \cup {k})
              /\ Cardinality(S \cup {k}) = IF k \in S THEN Cardinality(S) ELSE Cardinality(S) + 1
        BY <2>3, FS_AddElement
      <4>. QED  BY <2>3, <4>1
    <3>2. Cardinality(T) \in Nat /\ Cardinality(T) <= Cardinality(S \cup {k})
      BY <2>5, <3>1, FS_Subset, FS_CardinalityType
    <3>. QED  BY <2>1, <2>2, <2>3, <2>5, <3>1, <3>2 DEF FaultsStrand, StrandedKeys
  <2>. QED  BY <2>2, <2>4, <2>5, OnlyFaultsStrand
<1>. QED  BY <1>1, <1>2, IngestionInvariant, PTL DEF Spec

\* While nothing failed, an accepted transaction is on the stream, or some
\* request, not necessarily the one that was answered, is about to publish it.
AcceptedUnderWay ==
  faults = 0 =>
    \A q \in Requests : status[q] = "created" =>
      IsPublished(key[q]) \/ \E p \in Requests : Publishing(p, key[q])

\* The 201 of a request that lost the insert relies on the winner to publish:
\* AcceptedFlows without its fairness.
THEOREM AcceptedIsUnderWay == Spec => []AcceptedUnderWay
<1>1. ASSUME IInv, FaultsStrand  PROVE AcceptedUnderWay
  <2>. SUFFICES ASSUME faults = 0, NEW q \in Requests, status[q] = "created"
                PROVE  IsPublished(key[q]) \/ \E p \in Requests : Publishing(p, key[q])
    BY DEF AcceptedUnderWay
  <2>1. PICK S : S = StrandedKeys
    OBVIOUS
  <2>2. IsFiniteSet(S)
    BY <2>1, IngestionAssumption, FS_Subset DEF StrandedKeys
  <2>3. Cardinality(S) <= 0
    BY <1>1, <2>1 DEF FaultsStrand, StrandedKeys
  <2>4. S = {}
    BY <2>2, <2>3, FS_CardinalityType, FS_EmptySet
  <2>5. key[q] \in Keys /\ cases[key[q]] = payload[q] /\ payload[q] \in Payloads
    BY <1>1 DEF IInv, TypeOK, AnswersAgree
  <2>6. ~ Stranded(key[q]) /\ cases[key[q]] # NoPayload
    BY <2>1, <2>4, <2>5, IngestionAssumption DEF StrandedKeys
  <2>. QED  BY <2>6 DEF Stranded, Publishing
<1>. QED  BY <1>1, IngestionInvariant, FaultsStrandHolds, PTL

=============================================================================
