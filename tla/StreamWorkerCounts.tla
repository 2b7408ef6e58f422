------------------------ MODULE StreamWorkerCounts --------------------------
(***************************************************************************)
(* How often a handler can see one event, and how many dead letters it can *)
(* leave, for any number of replicas, entries and faults: a run of the     *)
(* handler is paid for by a replica that has passed the duplicate check,   *)
(* or by the fault that made it start over.                                *)
(***************************************************************************)
EXTENDS StreamWorkerProofs, FiniteSetTheorems

\* The replicas that are at one of these places of the loop with event e.
At(e, where) == {c \in Consumers : pc[c] \in where /\ Current(c) = e}
Running(e) == At(e, {"handle"})
Failing(e) == At(e, {"fail"})
Ending(e) == At(e, {"fail", "mark"})
Letters(e) == {i \in DOMAIN dlq : dlq[i] = e}
Runs(e) == completed[e] + raised[e]

\* Before its outcome is recorded, each run of e belongs to a replica that is
\* still ending it, or to a fault; afterwards no replica starts another one.
CountInv ==
  \A e \in Event :
    /\ dedup[e] = "none" => Runs(e) <= Cardinality(Ending(e)) + faults
    /\ Runs(e) + Cardinality(Running(e)) <= Cardinality(Consumers) + faults
    /\ Cardinality(Letters(e)) + Cardinality(Failing(e)) <= raised[e]

-----------------------------------------------------------------------------
(***************************************************************************)
(* Counting.                                                               *)
(***************************************************************************)
\* Sets that differ in one element at most.
LEMMA Sizes ==
  ASSUME NEW S, NEW T, IsFiniteSet(S), NEW c, S \ {c} = T \ {c}
  PROVE  /\ IsFiniteSet(T) /\ Cardinality(S) \in Nat /\ Cardinality(T) \in Nat
         /\ (c \in S <=> c \in T) => Cardinality(T) = Cardinality(S)
         /\ c \notin S /\ c \in T => Cardinality(T) = Cardinality(S) + 1
         /\ c \in S /\ c \notin T => Cardinality(T) = Cardinality(S) - 1
<1>1. CASE c \in S <=> c \in T
  <2>1. S = T
    BY <1>1
  <2>. QED  BY <1>1, <2>1, FS_CardinalityType
<1>2. CASE c \notin S /\ c \in T
  <2>1. T = S \cup {c}
    BY <1>2
  <2>2. IsFiniteSet(T) /\ Cardinality(T) = Cardinality(S) + 1 /\ Cardinality(S) \in Nat
    BY <1>2, <2>1, FS_AddElement, FS_CardinalityType
  <2>. QED  BY <1>2, <2>2
<1>3. CASE c \in S /\ c \notin T
  <2>1. T = S \ {c}
    BY <1>3
  <2>2. IsFiniteSet(T) /\ Cardinality(T) = Cardinality(S) - 1
    BY <1>3, <2>1, FS_RemoveElement
  <2>3. Cardinality(S) \in Nat /\ Cardinality(T) \in Nat
    BY <2>2, FS_CardinalityType
  <2>. QED  BY <1>3, <2>2, <2>3
<1>. QED  BY <1>1, <1>2, <1>3

LEMMA Disjoint ==
  ASSUME NEW S, NEW T, S \cap T = {}, S \cup T \subseteq Consumers
  PROVE  Cardinality(S) + Cardinality(T) <= Cardinality(Consumers)
<1>1. IsFiniteSet(Consumers) /\ Cardinality(Consumers) \in Nat
  BY WorkerAssumption, FS_CardinalityType
<1>2. IsFiniteSet(S) /\ IsFiniteSet(T)
  BY <1>1, FS_Subset
<1>3. Cardinality(S) \in Nat /\ Cardinality(T) \in Nat
  BY <1>2, FS_CardinalityType
<1>4. Cardinality(S \cup T) = Cardinality(S) + Cardinality(T)
  BY <1>2, <1>3, FS_Union, FS_EmptySet
<1>5. Cardinality(S \cup T) <= Cardinality(Consumers)
  BY <1>1, FS_Subset
<1>. QED  BY <1>4, <1>5

LEMMA AtFinite ==
  ASSUME NEW e
  PROVE  /\ \A where : IsFiniteSet(At(e, where)) /\ Cardinality(At(e, where)) \in Nat
         /\ Cardinality(Consumers) \in Nat
<1>1. IsFiniteSet(Consumers) /\ Cardinality(Consumers) \in Nat
  BY WorkerAssumption, FS_CardinalityType
<1>. QED  BY <1>1, FS_Subset, FS_CardinalityType DEF At

-----------------------------------------------------------------------------
(***************************************************************************)
(* The steps.                                                              *)
(***************************************************************************)
\* The step leaves this replica where it is, with the event it has in hand.
Same(c) == pc'[c] = pc[c] /\ (Busy(c) => Current(c)' = Current(c))

OthersSame(c) == \A d \in Consumers \ {c} : Same(d)

LEMMA SameStream ==
  ASSUME TypeOK, NEW c \in Consumers, Busy(c), cur'[c] = cur[c],
         Extends(stream', stream)
  PROVE  Current(c)' = Current(c)
  BY CurrentInEvent DEF Current, Extends

LEMMA AtOthers ==
  ASSUME NEW c \in Consumers, OthersSame(c), NEW e,
         NEW where \in SUBSET {"handle", "fail", "mark", "ack"}
  PROVE  At(e, where) \ {c} = At(e, where)' \ {c}
<1>1. ASSUME NEW d \in Consumers \ {c}
      PROVE  (pc[d] \in where /\ Current(d) = e) <=> (pc'[d] \in where /\ Current(d)' = e)
  BY <1>1 DEF OthersSame, Same, Busy
<1>2. \A d : d \in At(e, where) \ {c} <=> d \in At(e, where)' \ {c}
  BY <1>1 DEF At
<1>. QED  BY <1>2

\* The sets above after a step of c, by where c was and where it is.
LEMMA AtSizes ==
  ASSUME NEW c \in Consumers, OthersSame(c), NEW e,
         NEW where \in SUBSET {"handle", "fail", "mark", "ack"}
  PROVE  LET before == pc[c] \in where /\ Current(c) = e
             after == pc'[c] \in where /\ Current(c)' = e IN
         /\ Cardinality(At(e, where)) \in Nat /\ Cardinality(At(e, where)') \in Nat
         /\ (before <=> after) => Cardinality(At(e, where)') = Cardinality(At(e, where))
         /\ ~ before /\ after => Cardinality(At(e, where)') = Cardinality(At(e, where)) + 1
         /\ before /\ ~ after => Cardinality(At(e, where)') = Cardinality(At(e, where)) - 1
<1>1. PICK S, T : S = At(e, where) /\ T = At(e, where)'
  OBVIOUS
<1>2. IsFiniteSet(S) /\ S \ {c} = T \ {c}
  BY <1>1, AtFinite, AtOthers
<1>3. c \in S <=> pc[c] \in where /\ Current(c) = e
  BY <1>1 DEF At
<1>4. c \in T <=> pc'[c] \in where /\ Current(c)' = e
  BY <1>1 DEF At
<1>5. Cardinality(At(e, where)') = Cardinality(T)
  BY <1>1
<1>. QED  BY <1>1, <1>2, <1>3, <1>4, Sizes

\* The same as a sum, for a place of the loop that is given by a condition.
LEMMA AtShift ==
  ASSUME NEW c \in Consumers, OthersSame(c), NEW e,
         NEW where \in SUBSET {"handle", "fail", "mark", "ack"},
         NEW before \in BOOLEAN, before <=> (pc[c] \in where /\ Current(c) = e),
         NEW after \in BOOLEAN, after <=> (pc'[c] \in where /\ Current(c)' = e)
  PROVE  /\ Cardinality(At(e, where)) \in Nat
         /\ Cardinality(At(e, where)') =
              Cardinality(At(e, where)) + (IF after THEN 1 ELSE 0) - (IF before THEN 1 ELSE 0)
<1>1. PICK m, n : m = Cardinality(At(e, where)) /\ n = Cardinality(At(e, where)')
  OBVIOUS
<1>2. Cardinality(At(e, where)') = n
  BY <1>1
<1>3. /\ m \in Nat /\ n \in Nat
      /\ (before <=> after) => n = m
      /\ ~ before /\ after => n = m + 1
      /\ before /\ ~ after => n = m - 1
  BY <1>1, AtSizes
<1>4. n = m + (IF after THEN 1 ELSE 0) - (IF before THEN 1 ELSE 0)
  BY <1>3
<1>. QED  BY <1>1, <1>2, <1>3, <1>4

Counters == <<dedup, dlq, completed, raised, faults>>
Away == Location \ {"handle", "fail", "mark"}

\* What each kind of step does to where its replica is.
LEMMA LoopSteps ==
  ASSUME TypeOK, NEW c \in Consumers
  PROVE  /\ Autoclaim(c) \/ ReadGroup(c) \/ Ack(c) =>
              OthersSame(c) /\ pc[c] \in Away /\ pc'[c] \in Away /\ UNCHANGED Counters
         /\ CheckDedup(c) =>
              /\ OthersSame(c) /\ pc[c] \in Away /\ UNCHANGED Counters
              /\ \/ pc'[c] \in Away
                 \/ pc'[c] = "handle" /\ Current(c)' \in Event /\ dedup[Current(c)'] = "none"
         /\ LoopError(c) \/ Crash(c) =>
              /\ OthersSame(c) /\ pc'[c] \in Away /\ faults' = faults + 1
              /\ UNCHANGED <<dedup, dlq, completed, raised>>
<1>1. ASSUME Autoclaim(c) \/ ReadGroup(c) \/ Ack(c)
      PROVE  OthersSame(c) /\ pc[c] \in Away /\ pc'[c] \in Away /\ UNCHANGED Counters
  <2>1. UNCHANGED <<stream, cur>> /\ UNCHANGED Counters
    BY <1>1 DEF Autoclaim, ReadGroup, Ack, history, Counters
  <2>2. pc[c] \in Away /\ pc'[c] \in Away /\ \A d \in Consumers \ {c} : pc'[d] = pc[d]
    BY <1>1 DEF Autoclaim, ReadGroup, Ack, TypeOK, Location, Away
  <2>. QED  BY <2>1, <2>2 DEF OthersSame, Same, Current
<1>2. ASSUME CheckDedup(c)
      PROVE  /\ OthersSame(c) /\ pc[c] \in Away /\ UNCHANGED Counters
             /\ \/ pc'[c] \in Away
                \/ pc'[c] = "handle" /\ Current(c)' \in Event /\ dedup[Current(c)'] = "none"
  <2>1. UNCHANGED stream /\ UNCHANGED Counters
    BY <1>2 DEF CheckDedup, redis, history, Counters
  <2>2. PICK m \in batch[c] :
           /\ cur' = [cur EXCEPT ![c] = m]
           /\ pc' = [pc EXCEPT ![c] = IF dedup[stream[m]] = "none" THEN "handle" ELSE "ack"]
    BY <1>2 DEF CheckDedup
  <2>3. m \in DOMAIN stream /\ stream[m] \in Event
    <3>1. m \in 1..delivered /\ delivered \in 0..Len(stream) /\ stream \in Seq(Event)
      BY DEF TypeOK
    <3>. QED  BY <3>1
  <2>4. pc[c] \in Away /\ \A d \in Consumers \ {c} : pc'[d] = pc[d] /\ cur'[d] = cur[d]
    BY <1>2, <2>2 DEF CheckDedup, TypeOK, Location, Away
  <2>5. Current(c)' = stream[m]
    BY <2>1, <2>2 DEF TypeOK, Current
  <2>6. pc'[c] = IF dedup[stream[m]] = "none" THEN "handle" ELSE "ack"
    BY <2>2 DEF TypeOK
  <2>. QED  BY <2>1, <2>3, <2>4, <2>5, <2>6 DEF OthersSame, Same, Current, Away, Location
<1>3. ASSUME LoopError(c) \/ Crash(c)
      PROVE  /\ OthersSame(c) /\ pc'[c] \in Away /\ faults' = faults + 1
             /\ UNCHANGED <<dedup, dlq, completed, raised>>
  <2>1. UNCHANGED <<stream, cur>> /\ faults' = faults + 1
          /\ UNCHANGED <<dedup, dlq, completed, raised>>
    BY <1>3 DEF LoopError, Crash, redis
  <2>2. pc'[c] \in Away /\ \A d \in Consumers \ {c} : pc'[d] = pc[d]
    BY <1>3 DEF LoopError, Crash, TypeOK, Location, Away
  <2>. QED  BY <2>1, <2>2 DEF OthersSame, Same, Current
<1>. QED  BY <1>1, <1>2, <1>3

LEMMA RecordSteps ==
  ASSUME TypeOK, NEW c \in Consumers,
         \/ HandlerReturns(c) \/ HandlerRaises(c) \/ PublishRetry(c)
         \/ PublishDeadLetter(c) \/ MarkProcessed(c)
  PROVE  /\ OthersSame(c) /\ Current(c) \in Event /\ Current(c)' = Current(c)
         /\ UNCHANGED faults
         /\ HandlerReturns(c) => pc[c] = "handle" /\ pc'[c] = "mark"
         /\ HandlerRaises(c) => pc[c] = "handle" /\ pc'[c] = "fail"
         /\ PublishRetry(c) \/ PublishDeadLetter(c) => pc[c] = "fail" /\ pc'[c] = "mark"
         /\ MarkProcessed(c) => pc[c] = "mark" /\ pc'[c] = "ack"
<1>1. Busy(c) /\ UNCHANGED <<cur, faults>>
  BY DEF HandlerReturns, HandlerRaises, PublishRetry, PublishDeadLetter, MarkProcessed, Busy, history
<1>2. Current(c) \in Event /\ Extends(stream', stream)
  BY <1>1, CurrentInEvent, StepGrows DEF Next, Step, Grows
<1>3. \A d \in Consumers \ {c} : pc'[d] = pc[d]
  BY DEF HandlerReturns, HandlerRaises, PublishRetry, PublishDeadLetter, MarkProcessed, TypeOK
<1>4. OthersSame(c) /\ Current(c)' = Current(c)
  BY <1>1, <1>2, <1>3, SameStream DEF OthersSame, Same
<1>. QED  BY <1>1, <1>2, <1>4
          DEF HandlerReturns, HandlerRaises, PublishRetry, PublishDeadLetter, MarkProcessed, TypeOK

-----------------------------------------------------------------------------
(***************************************************************************)
(* The invariant.                                                          *)
(***************************************************************************)
Shares(e) ==
  /\ dedup[e] = "none" => Runs(e) <= Cardinality(Ending(e)) + faults
  /\ Runs(e) + Cardinality(Running(e)) <= Cardinality(Consumers) + faults
  /\ Cardinality(Letters(e)) + Cardinality(Failing(e)) <= raised[e]

\* What a step of c does to the three sets of one event.
LEMMA Shifts ==
  ASSUME NEW c \in Consumers, OthersSame(c), NEW e
  PROVE  /\ \A S \in {Running(e), Ending(e), Failing(e)} : Cardinality(S) \in Nat
         /\ Cardinality(Running(e)') =
              Cardinality(Running(e))
                + (IF pc'[c] = "handle" /\ Current(c)' = e THEN 1 ELSE 0)
                - (IF pc[c] = "handle" /\ Current(c) = e THEN 1 ELSE 0)
         /\ Cardinality(Ending(e)') =
              Cardinality(Ending(e))
                + (IF pc'[c] \in {"fail", "mark"} /\ Current(c)' = e THEN 1 ELSE 0)
                - (IF pc[c] \in {"fail", "mark"} /\ Current(c) = e THEN 1 ELSE 0)
         /\ Cardinality(Failing(e)') =
              Cardinality(Failing(e))
                + (IF pc'[c] = "fail" /\ Current(c)' = e THEN 1 ELSE 0)
                - (IF pc[c] = "fail" /\ Current(c) = e THEN 1 ELSE 0)
<1>1. Cardinality(Running(e)) \in Nat /\ Cardinality(Running(e)') =
              Cardinality(Running(e))
                + (IF pc'[c] = "handle" /\ Current(c)' = e THEN 1 ELSE 0)
                - (IF pc[c] = "handle" /\ Current(c) = e THEN 1 ELSE 0)
  <2>. DEFINE where == {"handle"}
  <2>1. where \in SUBSET {"handle", "fail", "mark", "ack"}
    OBVIOUS
  <2>2. /\ pc[c] \in where <=> pc[c] = "handle"
        /\ pc'[c] \in where <=> pc'[c] = "handle"
    OBVIOUS
  <2>3. Running(e) = At(e, where) /\ Running(e)' = At(e, where)'
    BY DEF Running
  <2>4. PICK before \in BOOLEAN, after \in BOOLEAN :
           /\ before <=> (pc[c] = "handle" /\ Current(c) = e)
           /\ after <=> (pc'[c] = "handle" /\ Current(c)' = e)
    OBVIOUS
  <2>. HIDE DEF where
  <2>5. /\ Cardinality(At(e, where)) \in Nat
        /\ Cardinality(At(e, where)') =
             Cardinality(At(e, where)) + (IF after THEN 1 ELSE 0) - (IF before THEN 1 ELSE 0)
    BY <2>1, <2>2, <2>4, AtShift
  <2>. QED  BY <2>3, <2>4, <2>5
<1>2. Cardinality(Ending(e)) \in Nat /\ Cardinality(Ending(e)') =
              Cardinality(Ending(e))
                + (IF pc'[c] \in {"fail", "mark"} /\ Current(c)' = e THEN 1 ELSE 0)
                - (IF pc[c] \in {"fail", "mark"} /\ Current(c) = e THEN 1 ELSE 0)
  <2>. DEFINE where == {"fail", "mark"}
  <2>1. where \in SUBSET {"handle", "fail", "mark", "ack"}
    OBVIOUS
  <2>2. /\ pc[c] \in where <=> pc[c] \in {"fail", "mark"}
        /\ pc'[c] \in where <=> pc'[c] \in {"fail", "mark"}
    OBVIOUS
  <2>3. Ending(e) = At(e, where) /\ Ending(e)' = At(e, where)'
    BY DEF Ending
  <2>4. PICK before \in BOOLEAN, after \in BOOLEAN :
           /\ before <=> (pc[c] \in {"fail", "mark"} /\ Current(c) = e)
           /\ after <=> (pc'[c] \in {"fail", "mark"} /\ Current(c)' = e)
    OBVIOUS
  <2>. HIDE DEF where
  <2>5. /\ Cardinality(At(e, where)) \in Nat
        /\ Cardinality(At(e, where)') =
             Cardinality(At(e, where)) + (IF after THEN 1 ELSE 0) - (IF before THEN 1 ELSE 0)
    BY <2>1, <2>2, <2>4, AtShift
  <2>. QED  BY <2>3, <2>4, <2>5
<1>3. Cardinality(Failing(e)) \in Nat /\ Cardinality(Failing(e)') =
              Cardinality(Failing(e))
                + (IF pc'[c] = "fail" /\ Current(c)' = e THEN 1 ELSE 0)
                - (IF pc[c] = "fail" /\ Current(c) = e THEN 1 ELSE 0)
  <2>. DEFINE where == {"fail"}
  <2>1. where \in SUBSET {"handle", "fail", "mark", "ack"}
    OBVIOUS
  <2>2. /\ pc[c] \in where <=> pc[c] = "fail"
        /\ pc'[c] \in where <=> pc'[c] = "fail"
    OBVIOUS
  <2>3. Failing(e) = At(e, where) /\ Failing(e)' = At(e, where)'
    BY DEF Failing
  <2>4. PICK before \in BOOLEAN, after \in BOOLEAN :
           /\ before <=> (pc[c] = "fail" /\ Current(c) = e)
           /\ after <=> (pc'[c] = "fail" /\ Current(c)' = e)
    OBVIOUS
  <2>. HIDE DEF where
  <2>5. /\ Cardinality(At(e, where)) \in Nat
        /\ Cardinality(At(e, where)') =
             Cardinality(At(e, where)) + (IF after THEN 1 ELSE 0) - (IF before THEN 1 ELSE 0)
    BY <2>1, <2>2, <2>4, AtShift
  <2>. QED  BY <2>3, <2>4, <2>5
<1>. QED  BY <1>1, <1>2, <1>3

LEMMA LettersAdd ==
  ASSUME TypeOK, NEW e, NEW x \in Event, dlq' = Append(dlq, x)
  PROVE  /\ Cardinality(Letters(e)) \in Nat
         /\ Cardinality(Letters(e)') = Cardinality(Letters(e)) + (IF x = e THEN 1 ELSE 0)
<1>1. dlq \in Seq(Event) /\ Len(dlq) \in Nat /\ DOMAIN dlq = 1..Len(dlq)
  BY DEF TypeOK
<1>2. /\ DOMAIN dlq' = DOMAIN dlq \cup {Len(dlq) + 1} /\ Len(dlq) + 1 \notin DOMAIN dlq
      /\ \A i \in DOMAIN dlq : dlq'[i] = dlq[i]
      /\ dlq'[Len(dlq) + 1] = x
  BY <1>1, AppendKeeps
<1>3. IsFiniteSet(DOMAIN dlq)
  BY <1>1, FS_Interval
<1>4. PICK S, T, n : S = Letters(e) /\ T = Letters(e)' /\ n = Len(dlq) + 1
  OBVIOUS
<1>5. IsFiniteSet(S) /\ n \notin S
  BY <1>2, <1>3, <1>4, FS_Subset DEF Letters
<1>6. T = IF x = e THEN S \cup {n} ELSE S
  BY <1>2, <1>4 DEF Letters
<1>7. /\ Cardinality(S) \in Nat
      /\ Cardinality(S \cup {n}) = Cardinality(S) + 1
  BY <1>5, FS_AddElement, FS_CardinalityType
<1>8. Cardinality(T) = Cardinality(S) + (IF x = e THEN 1 ELSE 0)
  BY <1>6, <1>7
<1>. QED  BY <1>4, <1>7, <1>8

LEMMA SharesStep ==
  ASSUME TypeOK, [Next]_vars, NEW e \in Event, Shares(e)
  PROVE  Shares(e)'
<1>. DEFINE R == Cardinality(Running(e))  P == Cardinality(Ending(e))
            F == Cardinality(Failing(e))  L == Cardinality(Letters(e))
            N == Cardinality(Consumers)
<1>1. completed[e] \in Nat /\ raised[e] \in Nat /\ faults \in Nat
  BY WorkerAssumption DEF TypeOK
<1>2. R \in Nat /\ P \in Nat /\ F \in Nat /\ N \in Nat /\ R + P <= N
  <2>1. Running(e) \cap Ending(e) = {} /\ Running(e) \cup Ending(e) \subseteq Consumers
    BY DEF Running, Ending, At
  <2>2. R + P <= N
    BY <2>1, Disjoint
  <2>. QED  BY <2>2, AtFinite DEF Running, Ending, Failing
<1>3. L \in Nat
  <2>1. DOMAIN dlq = 1..Len(dlq) /\ Len(dlq) \in Nat
    BY DEF TypeOK
  <2>2. IsFiniteSet(DOMAIN dlq)
    BY <2>1, FS_Interval
  <2>. QED  BY <2>2, FS_Subset, FS_CardinalityType DEF Letters
<1>4. /\ dedup[e] = "none" => completed[e] + raised[e] <= P + faults
      /\ completed[e] + raised[e] + R <= N + faults
      /\ L + F <= raised[e]
  BY <1>1 DEF Shares, Runs
<1>5. (/\ dedup'[e] = "none" => completed'[e] + raised'[e] <= P' + faults'
       /\ completed'[e] + raised'[e] + R' <= N + faults'
       /\ L' + F' <= raised'[e]) => Shares(e)'
  BY DEF Shares, Runs
<1>6. dlq' = dlq => L' = L
  BY DEF Letters
<1>7. ASSUME \A c \in Consumers : Same(c), UNCHANGED <<dedup, dlq, completed, raised>>,
             faults' \in Nat, faults' >= faults
      PROVE  Shares(e)'
  <2>1. \A c \in Consumers : /\ pc'[c] = pc[c]
                             /\ pc[c] \in {"handle", "fail", "mark"} => Current(c)' = Current(c)
    BY <1>7 DEF Same, Busy
  <2>2. Running(e)' = Running(e) /\ Ending(e)' = Ending(e) /\ Failing(e)' = Failing(e)
    BY <2>1 DEF Running, Ending, Failing, At
  <2>3. R' = R /\ P' = P /\ F' = F
    BY <2>2
  <2>. HIDE DEF R, P, F, L, N
  <2>. QED  BY <1>1, <1>2, <1>3, <1>4, <1>5, <1>6, <1>7, <2>3
<1>8. ASSUME NEW c \in Consumers, OthersSame(c)
      PROVE  /\ R' = R + (IF pc'[c] = "handle" /\ Current(c)' = e THEN 1 ELSE 0)
                       - (IF pc[c] = "handle" /\ Current(c) = e THEN 1 ELSE 0)
             /\ P' = P + (IF pc'[c] \in {"fail", "mark"} /\ Current(c)' = e THEN 1 ELSE 0)
                       - (IF pc[c] \in {"fail", "mark"} /\ Current(c) = e THEN 1 ELSE 0)
             /\ F' = F + (IF pc'[c] = "fail" /\ Current(c)' = e THEN 1 ELSE 0)
                       - (IF pc[c] = "fail" /\ Current(c) = e THEN 1 ELSE 0)
             /\ R' \in Nat /\ P' \in Nat /\ F' \in Nat /\ R' + P' <= N
  <2>1. R' \in Nat /\ P' \in Nat /\ F' \in Nat
    BY <1>8, AtSizes DEF Running, Ending, Failing
  <2>2. PICK S, T : S = Running(e)' /\ T = Ending(e)'
    OBVIOUS
  <2>3. S \cap T = {} /\ S \cup T \subseteq Consumers
    BY <2>2 DEF Running, Ending, At
  <2>4. R' + P' <= N
    BY <2>2, <2>3, Disjoint
  <2>. QED  BY <1>8, <2>1, <2>4, Shifts
<1>. HIDE DEF R, P, F, L, N
<1>9. ASSUME NEW c \in Consumers, OthersSame(c), pc[c] \in Away, pc'[c] \in Away,
             UNCHANGED Counters
      PROVE  Shares(e)'
  <2>1. R' = R /\ P' = P /\ F' = F
    BY <1>2, <1>8, <1>9 DEF Away, Location
  <2>. QED  BY <1>4, <1>5, <1>6, <1>9, <2>1 DEF Counters
<1>10. ASSUME NEW c \in Consumers, CheckDedup(c)  PROVE Shares(e)'
  <2>1. OthersSame(c) /\ pc[c] \in Away /\ UNCHANGED Counters
    BY <1>10, LoopSteps
  <2>2. CASE pc'[c] \in Away
    BY <1>9, <2>1, <2>2
  <2>3. CASE pc'[c] = "handle" /\ dedup[Current(c)'] = "none"
    <3>1. P' = P /\ F' = F /\ R' + P' <= N /\ R' \in Nat
      BY <1>2, <1>8, <2>1, <2>3 DEF Away, Location
    <3>2. Current(c)' # e => R' = R
      BY <1>2, <1>8, <2>1, <2>3 DEF Away, Location
    <3>3. completed' = completed /\ raised' = raised /\ faults' = faults /\ dedup' = dedup /\ L' = L
      BY <1>6, <2>1 DEF Counters
    <3>4. CASE Current(c)' = e
      BY <1>1, <1>2, <1>4, <1>5, <2>3, <3>1, <3>3, <3>4
    <3>5. CASE Current(c)' # e
      BY <1>4, <1>5, <3>1, <3>2, <3>3, <3>5
    <3>. QED  BY <3>4, <3>5
  <2>. QED  BY <1>10, <2>2, <2>3, LoopSteps
<1>11. ASSUME NEW c \in Consumers, LoopError(c) \/ Crash(c)  PROVE Shares(e)'
  <2>1. /\ OthersSame(c) /\ pc'[c] \in Away /\ faults' = faults + 1
        /\ UNCHANGED <<dedup, dlq, completed, raised>>
    BY <1>11, LoopSteps
  <2>2. R' <= R /\ P' >= P - 1 /\ F' <= F /\ R' \in Nat /\ P' \in Nat /\ F' \in Nat
    BY <1>2, <1>8, <2>1 DEF Away, Location
  <2>. QED  BY <1>1, <1>2, <1>3, <1>4, <1>5, <1>6, <2>1, <2>2
<1>12. ASSUME NEW c \in Consumers, HandlerReturns(c)  PROVE Shares(e)'
  <2>1. /\ OthersSame(c) /\ Current(c) \in Event /\ Current(c)' = Current(c)
        /\ faults' = faults /\ pc[c] = "handle" /\ pc'[c] = "mark"
    BY <1>12, RecordSteps
  <2>2. /\ completed' = [completed EXCEPT ![Current(c)] = @ + 1]
        /\ raised' = raised /\ dedup' = dedup /\ dlq' = dlq
    BY <1>12 DEF HandlerReturns, redis
  <2>3. completed'[e] = completed[e] + (IF Current(c) = e THEN 1 ELSE 0)
    BY <1>1, <2>1, <2>2 DEF TypeOK
  <2>4. /\ R' = R - (IF Current(c) = e THEN 1 ELSE 0)
        /\ P' = P + (IF Current(c) = e THEN 1 ELSE 0) /\ F' = F
    BY <1>2, <1>8, <2>1
  <2>. QED  BY <1>1, <1>2, <1>3, <1>4, <1>5, <1>6, <2>1, <2>2, <2>3, <2>4
<1>13. ASSUME NEW c \in Consumers, HandlerRaises(c)  PROVE Shares(e)'
  <2>1. /\ OthersSame(c) /\ Current(c) \in Event /\ Current(c)' = Current(c)
        /\ faults' = faults /\ pc[c] = "handle" /\ pc'[c] = "fail"
    BY <1>13, RecordSteps
  <2>2. /\ raised' = [raised EXCEPT ![Current(c)] = @ + 1]
        /\ completed' = completed /\ dedup' = dedup /\ dlq' = dlq
    BY <1>13 DEF HandlerRaises, redis
  <2>3. raised'[e] = raised[e] + (IF Current(c) = e THEN 1 ELSE 0)
    BY <1>1, <2>1, <2>2 DEF TypeOK
  <2>4. /\ R' = R - (IF Current(c) = e THEN 1 ELSE 0)
        /\ P' = P + (IF Current(c) = e THEN 1 ELSE 0)
        /\ F' = F + (IF Current(c) = e THEN 1 ELSE 0)
    BY <1>2, <1>8, <2>1
  <2>. QED  BY <1>1, <1>2, <1>3, <1>4, <1>5, <1>6, <2>1, <2>2, <2>3, <2>4
<1>14. ASSUME NEW c \in Consumers, PublishRetry(c) \/ PublishDeadLetter(c)  PROVE Shares(e)'
  <2>1. /\ OthersSame(c) /\ Current(c) \in Event /\ Current(c)' = Current(c)
        /\ faults' = faults /\ pc[c] = "fail" /\ pc'[c] = "mark"
    BY <1>14, RecordSteps
  <2>2. UNCHANGED <<dedup, completed, raised>>
    BY <1>14 DEF PublishRetry, PublishDeadLetter, history
  <2>3. R' = R /\ P' = P /\ F' = F - (IF Current(c) = e THEN 1 ELSE 0)
    BY <1>2, <1>8, <2>1
  <2>4. L' = L \/ L' = L + (IF Current(c) = e THEN 1 ELSE 0)
    BY <1>6, <1>14, <2>1, LettersAdd DEF PublishRetry, PublishDeadLetter, L
  <2>. QED  BY <1>1, <1>2, <1>3, <1>4, <1>5, <2>1, <2>2, <2>3, <2>4
<1>15. ASSUME NEW c \in Consumers, MarkProcessed(c)  PROVE Shares(e)'
  <2>1. /\ OthersSame(c) /\ Current(c) \in Event /\ Current(c)' = Current(c)
        /\ faults' = faults /\ pc[c] = "mark" /\ pc'[c] = "ack"
    BY <1>15, RecordSteps
  <2>2. /\ dedup' = [dedup EXCEPT ![Current(c)] = IF @ = "none" THEN result[c] ELSE @]
        /\ completed' = completed /\ raised' = raised /\ dlq' = dlq
    BY <1>15 DEF MarkProcessed, redis, history
  <2>3. Current(c) = e => dedup'[e] # "none"
    BY <2>1, <2>2 DEF TypeOK, Outcome
  <2>4. Current(c) # e => dedup'[e] = dedup[e]
    BY <2>1, <2>2 DEF TypeOK
  <2>5. R' = R /\ F' = F /\ (Current(c) # e => P' = P)
    BY <1>2, <1>8, <2>1
  <2>. QED  BY <1>4, <1>5, <1>6, <2>1, <2>2, <2>3, <2>4, <2>5
<1>16. ASSUME \/ \E r \in Roots : Publish(r)
              \/ \E m \in pel : BecomeIdle(m)
              \/ \E c \in Consumers : ClaimLost(c)
              \/ UNCHANGED vars
       PROVE  Shares(e)'
  <2>1. /\ UNCHANGED <<pc, cur>> /\ UNCHANGED <<dedup, dlq, completed, raised>>
        /\ faults' \in {faults, faults + 1}
    BY <1>16 DEF Publish, BecomeIdle, ClaimLost, vars, local, history, redis
  <2>2. Extends(stream', stream)
    BY StepGrows DEF Grows
  <2>3. \A c \in Consumers : Same(c)
    BY <2>1, <2>2, SameStream DEF Same
  <2>. QED  BY <1>1, <1>7, <2>1, <2>3
<1>17. ASSUME NEW c \in Consumers, Autoclaim(c) \/ ReadGroup(c) \/ Ack(c)  PROVE Shares(e)'
  BY <1>9, <1>17, LoopSteps
<1>. QED  BY <1>10, <1>11, <1>12, <1>13, <1>14, <1>15, <1>16, <1>17 DEF Next, Step

LEMMA AlwaysCounted == Spec => [](TypeOK /\ CountInv)
<1>1. CountInv <=> \A e \in Event : Shares(e)
  BY DEF CountInv, Shares
<1>2. Init => CountInv
  <2>. SUFFICES ASSUME Init, NEW e \in Event  PROVE Shares(e)
    BY <1>1
  <2>1. Letters(e) = {} /\ Running(e) = {} /\ Ending(e) = {} /\ Failing(e) = {}
    BY DEF Init, Letters, Running, Ending, Failing, At
  <2>2. Cardinality({}) = 0 /\ Cardinality(Consumers) \in Nat /\ Runs(e) = 0 /\ faults = 0
          /\ raised[e] = 0
    BY FS_EmptySet, AtFinite DEF Init, Runs
  <2>. QED  BY <2>1, <2>2 DEF Shares
<1>3. TypeOK /\ CountInv /\ [Next]_vars => CountInv'
  BY <1>1, SharesStep DEF CountInv, Shares
<1>. QED  BY <1>2, <1>3, TypeCorrect, PTL DEF Spec

\* The handler of worker.py:119 sees an event once per replica that passed the
\* duplicate check in time and once more per fault, never more often.
THEOREM RedeliveryIsBounded == Spec => []RedeliveryBounded
<1>1. TypeOK /\ CountInv => RedeliveryBounded
  <2>. SUFFICES ASSUME TypeOK, CountInv, NEW e \in Event
                PROVE  completed[e] + raised[e] <= Cardinality(Consumers) + faults
    BY DEF RedeliveryBounded
  <2>1. completed[e] \in Nat /\ raised[e] \in Nat /\ faults \in Nat
    BY WorkerAssumption DEF TypeOK
  <2>2. Cardinality(Running(e)) \in Nat /\ Cardinality(Consumers) \in Nat
    BY AtFinite DEF Running
  <2>. QED  BY <2>1, <2>2 DEF CountInv, Runs
<1>. QED  BY <1>1, AlwaysCounted, PTL

\* An event has at most one dead letter for every run of its handler that
\* raised: an error of the loop around it (worker.py:89) never adds one.
THEOREM DeadLettersAreBounded == Spec => []DeadLettersBounded
<1>1. TypeOK /\ CountInv => DeadLettersBounded
  <2>. SUFFICES ASSUME TypeOK, CountInv, NEW e \in Event
                PROVE  Cardinality(Letters(e)) <= raised[e]
    BY DEF DeadLettersBounded, Letters
  <2>1. Cardinality(Failing(e)) \in Nat /\ raised[e] \in Nat
    BY AtFinite DEF Failing, TypeOK
  <2>2. Cardinality(Letters(e)) \in Nat
    <3>1. DOMAIN dlq = 1..Len(dlq) /\ Len(dlq) \in Nat
      BY DEF TypeOK
    <3>2. IsFiniteSet(DOMAIN dlq)
      BY <3>1, FS_Interval
    <3>. QED  BY <3>2, FS_Subset, FS_CardinalityType DEF Letters
  <2>. QED  BY <2>1, <2>2 DEF CountInv
<1>. QED  BY <1>1, AlwaysCounted, PTL
=============================================================================
