--------------------------- MODULE ServiceProcess ---------------------------
(***************************************************************************)
(* The replicas of one service as processes: lifespan in the main.py of    *)
(* every service, the task it starts for the consumer loop, and the guard  *)
(* of its write endpoints (require_write_access, then                      *)
(* enforce_write_rate_limit).                                              *)
(*                                                                         *)
(* What a process keeps in memory dies with it: the task, and the window   *)
(* of its rate limiter.  What Redis keeps is the stream and its consumer   *)
(* group, and nothing gives Redis a volume.  StreamWorker has the loop in  *)
(* detail over a group that exists; here one iteration is one step, and    *)
(* the hazards are how the loop comes to run, and how it stops for good    *)
(* while /health goes on answering ok.                                     *)
(***************************************************************************)
EXTENDS Integers, Sequences, FiniteSets

CONSTANTS
  Replicas,       (* processes of the service                                *)
  Settings,       (* what the service may be: see Setting                    *)
  Entries,        (* events published to its stream                          *)
  Malformed,      (* those that EventEnvelope does not parse                 *)
  ReadCount,      (* redis_read_count                                        *)
  Clients,        (* method, path and address of a request                   *)
  LimitSetting,   (* write_rate_limit_requests                               *)
  WindowSetting,  (* write_rate_limit_window_seconds                         *)
  MaxClock,       (* bound: seconds                                          *)
  MaxOutages,     (* bound: times Redis or PostgreSQL goes away              *)
  MaxStops        (* bound: times a process ends                             *)

\* worker: it consumes a stream.  writes: it has write endpoints.
AuthMode == {"off", "secret", "jwks", "misconfigured"}
Setting == [worker : BOOLEAN, writes : BOOLEAN, auth : AuthMode, limited : BOOLEAN]

AtLeast(x, bound) == IF x < bound THEN bound ELSE x
Limit == AtLeast(LimitSetting, 1)
Window == AtLeast(WindowSetting, 1)

ASSUME ProcessAssumption ==
  /\ IsFiniteSet(Replicas)
  /\ Settings \subseteq Setting
  /\ Malformed \subseteq Entries
  /\ ReadCount \in Nat \ {0}
  /\ LimitSetting \in Int /\ WindowSetting \in Int
  /\ {MaxClock, MaxOutages, MaxStops} \subseteq Nat

VARIABLES
  service,      (* its settings                                              *)
  backends,     (* Redis and PostgreSQL: "up" or "down"                      *)
  stream, group, lastDelivered, pending,  (* in Redis                        *)
  stage,        (* per replica: "down" or "serving"                          *)
  task,         (* per replica: the consumer loop                            *)
  clock,        (* time.time()                                               *)
  recorded,     (* per replica and client: what the limiter let through      *)
  popped,       (* how many of those its deque no longer holds               *)
  handled, reads, outages, losses, stops, lives, setBack  (* history *)

redis == <<stream, group, lastDelivered, pending>>
process == <<stage, task, lives, stops>>
limiter == <<recorded, popped>>
time == <<clock, setBack>>
trouble == <<backends, outages, losses>>
consumed == <<handled, reads>>
vars == <<service, redis, process, limiter, time, trouble, consumed>>

Init ==
  /\ service \in Settings
  /\ backends = "up"
  /\ stream = <<>> /\ group = FALSE /\ lastDelivered = 0 /\ pending = {}
  /\ stage = [r \in Replicas |-> "down"]
  /\ task = [r \in Replicas |-> "none"]
  /\ clock = 0 /\ setBack = FALSE
  /\ recorded = [r \in Replicas |-> [k \in Clients |-> <<>>]]
  /\ popped = [r \in Replicas |-> [k \in Clients |-> 0]]
  /\ handled = {} /\ reads = [e \in Entries |-> 0]
  /\ outages = 0 /\ losses = 0 /\ stops = 0
  /\ lives = [r \in Replicas |-> 0]

InStream(e) == \E i \in DOMAIN stream : stream[i] = e

-----------------------------------------------------------------------------
(***************************************************************************)
(* A process comes and goes.                                               *)
(***************************************************************************)
\* lifespan up to its yield.  db.connect and broker.connect raise while a
\* backend is down, JwtAuth raises ValueError on its settings: the process
\* exits before its first event loop turn gives the task a chance to run.
Start(r) ==
  /\ stage[r] = "down"
  /\ backends = "up"
  /\ service.auth # "misconfigured"
  /\ stage' = [stage EXCEPT ![r] = "serving"]
  /\ task' = [task EXCEPT ![r] = IF service.worker THEN "starting" ELSE "none"]
  /\ lives' = [lives EXCEPT ![r] = @ + 1]
  /\ UNCHANGED <<service, redis, stops, limiter, time, trouble, consumed>>

\* The deques of a limiter end with their process.
Forget(r) == popped' = [popped EXCEPT ![r] = [k \in Clients |-> Len(recorded[r][k])]]

\* Mutant: lifespan ends without worker.stop.
StopWithoutCancel(r) ==
  /\ stage[r] = "serving"
  /\ stops < MaxStops
  /\ stops' = stops + 1
  /\ stage' = [stage EXCEPT ![r] = "down"]
  /\ Forget(r)
  /\ UNCHANGED <<service, redis, task, lives, recorded, time, trouble, consumed>>

\* A rollout, a scale-down or a crash.  worker.stop cancels the task, which
\* nothing swallows but stop itself.
Stop(r) ==
  /\ stage[r] = "serving"
  /\ stops < MaxStops
  /\ stops' = stops + 1
  /\ stage' = [stage EXCEPT ![r] = "down"]
  /\ task' = [task EXCEPT ![r] = "none"]
  /\ Forget(r)
  /\ UNCHANGED <<service, redis, lives, recorded, time, trouble, consumed>>

-----------------------------------------------------------------------------
(***************************************************************************)
(* The consumer loop.                                                      *)
(***************************************************************************)
\* Mutant: the group starts at "$", the end of the stream.
CreateGroupAtEnd(r) ==
  /\ task[r] = "starting"
  /\ backends = "up"
  /\ task' = [task EXCEPT ![r] = "looping"]
  /\ group' = TRUE
  /\ lastDelivered' = IF group THEN lastDelivered ELSE Len(stream)
  /\ UNCHANGED <<service, stream, pending, stage, lives, stops, limiter, time, trouble, consumed>>

\* Mutant: a group that exists is set to the start again.
CreateGroupAgain(r) ==
  /\ task[r] = "starting"
  /\ backends = "up"
  /\ task' = [task EXCEPT ![r] = "looping"]
  /\ group' = TRUE
  /\ lastDelivered' = 0
  /\ UNCHANGED <<service, stream, pending, stage, lives, stops, limiter, time, trouble, consumed>>

\* Mutant: BUSYGROUP is raised like every other error.
CreateGroupBusy(r) ==
  /\ task[r] = "starting"
  /\ backends = "up"
  /\ task' = [task EXCEPT ![r] = IF group THEN "dead" ELSE "looping"]
  /\ group' = TRUE
  /\ UNCHANGED <<service, stream, lastDelivered, pending, stage, lives, stops, limiter, time,
                 trouble, consumed>>

\* XGROUP CREATE ... 0-0 MKSTREAM; BUSYGROUP means that it is there already.
CreateGroup(r) ==
  /\ task[r] = "starting"
  /\ backends = "up"
  /\ task' = [task EXCEPT ![r] = "looping"]
  /\ group' = TRUE
  /\ lastDelivered' = IF group THEN lastDelivered ELSE 0
  /\ UNCHANGED <<service, stream, pending, stage, lives, stops, limiter, time, trouble, consumed>>

\* Any other error ends the task, silently: it is not awaited before stop.
CreateGroupRaises(r) ==
  /\ task[r] = "starting"
  /\ backends = "down"
  /\ task' = [task EXCEPT ![r] = "dead"]
  /\ UNCHANGED <<service, redis, stage, lives, stops, limiter, time, trouble, consumed>>

\* An iteration runs on; without the backends, or without the group
\* (NOGROUP), it logs the error, sleeps and changes nothing.
Loops(r) == task[r] = "looping" /\ backends = "up" /\ group

\* What one call returns, up to the last entry of the stream.
Last == IF lastDelivered + ReadCount > Len(stream) THEN Len(stream) ELSE lastDelivered + ReadCount
Batch == {stream[i] : i \in (lastDelivered + 1)..Last}
Deliver ==
  /\ lastDelivered < Last
  /\ lastDelivered' = Last
  /\ reads' = [e \in Entries |-> IF e \in Batch THEN reads[e] + 1 ELSE reads[e]]

\* XREADGROUP: _parse_records raises before any record of the batch is
\* processed, and then all of them stay pending.
ReadGroup(r) ==
  /\ Loops(r)
  /\ Deliver
  /\ IF Batch \cap Malformed = {}
     THEN handled' = handled \cup Batch /\ UNCHANGED pending
     ELSE pending' = pending \cup Batch /\ UNCHANGED handled
  /\ UNCHANGED <<service, stream, group, process, limiter, time, trouble>>

\* The process ends while it holds a batch.
StopReading(r) ==
  /\ Loops(r)
  /\ stops < MaxStops
  /\ stops' = stops + 1
  /\ Deliver
  /\ pending' = pending \cup Batch
  /\ stage' = [stage EXCEPT ![r] = "down"]
  /\ task' = [task EXCEPT ![r] = "none"]
  /\ Forget(r)
  /\ UNCHANGED <<service, stream, group, handled, lives, recorded, time, trouble>>

\* XAUTOCLAIM of the entries that are idle now.  With a malformed one among
\* them it raises every time, and they are all idle again together.
Autoclaim(r) ==
  /\ Loops(r)
  /\ \E idle \in SUBSET pending :
       /\ idle # {} /\ Cardinality(idle) <= ReadCount /\ idle \cap Malformed = {}
       /\ handled' = handled \cup idle
       /\ pending' = pending \ idle
  /\ UNCHANGED <<service, stream, group, lastDelivered, reads, process, limiter, time, trouble>>

-----------------------------------------------------------------------------
(***************************************************************************)
(* The guard of the write endpoints.  It has no await that waits, so a     *)
(* replica runs it in one step.                                            *)
(***************************************************************************)
Token == {"missing", "malformed", "rejected", "unscoped", "valid"}
Passed == 200

\* JwtAuth.verify_write_access.  PyJWKClient decodes the token before it looks
\* for the key, and raises what _resolve_signing_key does not catch.
Verify(token, keysReachable) ==
  IF service.auth = "off" THEN Passed
  ELSE IF token = "missing" THEN 401
  ELSE IF service.auth = "jwks" /\ token = "malformed" THEN 500
  ELSE IF service.auth = "jwks" /\ ~ keysReachable THEN 503
  ELSE IF token \in {"malformed", "rejected"} THEN 401
  ELSE IF token = "unscoped" THEN 403
  ELSE Passed

Entitled(token) == Verify(token, TRUE) = Passed

\* Mutant: a stamp at the cutoff is popped too.
PopsAtCutoff(r, k, n) ==
  LET cutoff == clock - Window IN
  /\ n \in popped[r][k]..Len(recorded[r][k])
  /\ \A i \in (popped[r][k] + 1)..n : recorded[r][k][i].at <= cutoff
  /\ n < Len(recorded[r][k]) => recorded[r][k][n + 1].at > cutoff

\* n stamps are popped: from the left, while they are before the cutoff.
Pops(r, k, n) ==
  LET cutoff == clock - Window IN
  /\ n \in popped[r][k]..Len(recorded[r][k])
  /\ \A i \in (popped[r][k] + 1)..n : recorded[r][k][i].at < cutoff
  /\ n < Len(recorded[r][k]) => recorded[r][k][n + 1].at >= cutoff

Record(r, k, token) ==
  recorded' = [recorded EXCEPT
    ![r][k] = Append(@, [at |-> clock, life |-> lives[r], token |-> token])]

\* Mutant: the deque may hold one stamp more.
FullLater(r, k, n) == Len(recorded[r][k]) - n > Limit

\* 429: the deque holds as many stamps as the limit, and none is added.
Full(r, k, n) == Len(recorded[r][k]) - n >= Limit

\* InMemoryRateLimiter.allow.
Allow(r, k, token) ==
  IF ~ service.limited THEN UNCHANGED limiter
  ELSE \E n \in 0..Len(recorded[r][k]) :
    /\ Pops(r, k, n)
    /\ popped' = [popped EXCEPT ![r][k] = n]
    /\ IF Full(r, k, n) THEN UNCHANGED recorded ELSE Record(r, k, token)

\* Mutant: the limiter comes first.
GuardLimitFirst(r, k, token, keysReachable) == Allow(r, k, token)

\* Whatever else is answered changes nothing here.
Guard(r, k, token, keysReachable) ==
  IF Verify(token, keysReachable) = Passed THEN Allow(r, k, token) ELSE UNCHANGED limiter

Request(r) ==
  /\ service.writes
  /\ stage[r] = "serving"
  /\ \E k \in Clients, token \in Token, keysReachable \in BOOLEAN :
       Guard(r, k, token, keysReachable)
  /\ UNCHANGED <<service, redis, process, time, trouble, consumed>>

-----------------------------------------------------------------------------
(***************************************************************************)
(* The surroundings.                                                       *)
(***************************************************************************)
\* Another service publishes; XADD makes the stream if it has to.
Publish ==
  /\ service.worker
  /\ backends = "up"
  /\ \E e \in Entries :
       /\ ~ InStream(e) /\ e \notin handled /\ reads[e] = 0
       /\ stream' = Append(stream, e)
  /\ UNCHANGED <<service, group, lastDelivered, pending, process, limiter, time, trouble,
                 consumed>>

Outage ==
  /\ backends = "up"
  /\ outages < MaxOutages
  /\ backends' = "down"
  /\ outages' = outages + 1
  /\ UNCHANGED <<service, redis, losses, process, limiter, time, consumed>>

\* Redis comes back without its data.
OutageWithLoss ==
  /\ backends = "up"
  /\ outages < MaxOutages
  /\ backends' = "down"
  /\ outages' = outages + 1
  /\ losses' = losses + 1
  /\ stream' = <<>> /\ group' = FALSE /\ lastDelivered' = 0 /\ pending' = {}
  /\ UNCHANGED <<service, process, limiter, time, consumed>>

Recover ==
  /\ backends = "down"
  /\ backends' = "up"
  /\ UNCHANGED <<service, redis, outages, losses, process, limiter, time, consumed>>

Tick ==
  /\ service.limited /\ service.writes
  /\ clock < MaxClock
  /\ clock' = clock + 1
  /\ UNCHANGED <<service, redis, process, limiter, setBack, trouble, consumed>>

\* Somebody or NTP sets the wall clock back.
SetBack ==
  /\ service.limited /\ service.writes
  /\ ~ setBack /\ setBack' = TRUE
  /\ clock' \in 0..(clock - 1)
  /\ UNCHANGED <<service, redis, process, limiter, trouble, consumed>>

Next ==
  \/ \E r \in Replicas :
       \/ Start(r) \/ Stop(r) \/ CreateGroup(r) \/ CreateGroupRaises(r)
       \/ ReadGroup(r) \/ StopReading(r) \/ Autoclaim(r) \/ Request(r)
  \/ Publish \/ Outage \/ OutageWithLoss \/ Recover \/ Tick \/ SetBack

Spec == Init /\ [][Next]_vars

\* Backends and processes come back, and a loop goes on.  An iteration claims
\* what is pending once all of it parses.
Fairness ==
  /\ WF_vars(Recover)
  /\ \A r \in Replicas :
       /\ WF_vars(Start(r))
       /\ WF_vars(CreateGroup(r) \/ CreateGroupRaises(r))
       /\ WF_vars(ReadGroup(r))
  /\ WF_vars(pending \cap Malformed = {} /\ \E r \in Replicas : Autoclaim(r))

FairSpec == Spec /\ Fairness

-----------------------------------------------------------------------------
(***************************************************************************)
(* Properties.                                                             *)
(***************************************************************************)
Stamp == [at : Nat, life : Nat, token : Token]

\* The shape of the state: only a serving replica of a service with a stream
\* has a task, and a deque holds no more than the limit.
TypeOK ==
  /\ service \in Settings /\ backends \in {"up", "down"}
  /\ stream \in Seq(Entries) /\ group \in BOOLEAN
  /\ lastDelivered \in 0..Len(stream) /\ pending \subseteq Entries
  /\ stage \in [Replicas -> {"down", "serving"}]
  /\ task \in [Replicas -> {"none", "starting", "looping", "dead"}]
  /\ \A r \in Replicas : task[r] # "none" <=> (stage[r] = "serving" /\ service.worker)
  /\ clock \in Nat /\ setBack \in BOOLEAN
  /\ recorded \in [Replicas -> [Clients -> Seq(Stamp)]]
  /\ popped \in [Replicas -> [Clients -> Nat]]
  /\ \A r \in Replicas, k \in Clients :
       Len(recorded[r][k]) - Limit <= popped[r][k] /\ popped[r][k] <= Len(recorded[r][k])
  /\ handled \subseteq Entries /\ reads \in [Entries -> Nat]
  /\ {outages, losses, stops} \subseteq Nat
  /\ lives \in [Replicas -> Nat]

\* Whatever goes away and comes back, the group skips nothing: an entry that
\* the stream still has is ahead of it, pending or handled, also an entry that
\* was published while there was no group.
NothingSkipped ==
  \A i \in DOMAIN stream :
    (group /\ i <= lastDelivered) => stream[i] \in pending \cup handled

\* Replicas that start create the group again and again, and never make it
\* hand out an entry twice.
RestartsReplayNothing == \A e \in Entries : reads[e] <= 1

\* The ways to stop consuming for good, none of which /health tells: settings
\* that no process starts with; Redis down between ping and XGROUP CREATE at
\* every replica; Redis back without the group and no process started since;
\* and a malformed entry, for those that XAUTOCLAIM returns together with it.
Excused(e) ==
  \/ service.auth = "misconfigured"
  \/ outages > 0 /\ \A r \in Replicas : task[r] = "dead"
  \/ losses > 0 /\ ~ group
  \/ e \in pending /\ pending \cap Malformed # {}

\* There is no other way: despite outages, crashes, rollouts and loss of data,
\* an entry that stays in the stream is handled.
ConsumptionGoesOn ==
  \A e \in Entries : <>[](InStream(e) => e \in handled \/ Excused(e))

\* In one process, Limit + 1 requests of a client that are let through are
\* more than a window apart, at its edge too, unless the clock was set back.
WindowBound ==
  \A r \in Replicas, k \in Clients :
    LET s == recorded[r][k] IN
    \A i \in DOMAIN s :
      (i + Limit \in DOMAIN s /\ s[i].life = s[i + Limit].life) =>
        setBack \/ s[i + Limit].at - s[i].at > Window

\* 429 is deserved: the client itself sent that process Limit requests that
\* it was entitled to, within the window; what 401 or 403 answered does not
\* count.  After the clock was set back the deque holds on to older stamps.
RefusalDeserved ==
  \A r \in Replicas, k \in Clients :
    LET s == recorded[r][k]
        counted == {i \in DOMAIN s : /\ s[i].life = lives[r] /\ s[i].at >= clock - Window
                                     /\ Entitled(s[i].token)}
    IN (\E n \in 0..Len(s) : Pops(r, k, n) /\ Full(r, k, n))
         => setBack \/ Cardinality(counted) >= Limit

\* Windows are kept per process: what a client gets through the whole service
\* within a window grows with the replicas and with every restart.
FleetBound ==
  \A k \in Clients, t \in 0..clock :
    LET Recent(r) == {i \in DOMAIN recorded[r][k] :
                        recorded[r][k][i].at \in (t - Window)..t}
        all == UNION {{<<r, i>> : i \in Recent(r)} : r \in Replicas}
    IN setBack \/ Cardinality(all) <= Limit * (Cardinality(Replicas) + stops)
=============================================================================
