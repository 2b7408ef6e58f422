------------------------ MODULE EventDeliveryProofs ------------------------
(***************************************************************************)
(* What the delivery contract promises, for any roots and retry limit.     *)
(***************************************************************************)
EXTENDS EventDelivery, TLAPS

TypeOK ==
  /\ submitted \subseteq Event
  /\ completed \subseteq Event
  /\ raised \subseteq Event
  /\ dead \subseteq raised
  /\ raised \subseteq submitted
  /\ outcome \in [Event -> Outcome \cup {"none"}]

LEMMA RetryInEvent ==
  ASSUME DeliveryAssumption, NEW e \in Event, e.attempt < MaxRetryAttempts
  PROVE  /\ Retry(e) \in Event
         /\ Retry(e).root = e.root
         /\ Retry(e).attempt = e.attempt + 1
BY DEF DeliveryAssumption, Event, Retry

LEMMA FirstInEvent ==
  ASSUME DeliveryAssumption, NEW r \in Roots
  PROVE  /\ First(r) \in Event
         /\ First(r).root = r
         /\ First(r).attempt = FirstAttempt[r]
BY DEF DeliveryAssumption, Event, First

LEMMA TypePreserved ==
  ASSUME DeliveryAssumption, TypeOK, [Next]_vars
  PROVE  TypeOK'
<1>1. ASSUME NEW r \in Roots, Submit(r) PROVE TypeOK'
  BY <1>1, FirstInEvent DEF TypeOK, Submit
<1>2. ASSUME NEW e \in Event, Run(e) PROVE TypeOK'
  BY <1>2 DEF TypeOK, Run
<1>3. ASSUME NEW e \in Event, Resubmit(e) PROVE TypeOK'
  BY <1>3, RetryInEvent DEF TypeOK, Resubmit
<1>4. ASSUME NEW e \in Event, DeadLetter(e) PROVE TypeOK'
  BY <1>4 DEF TypeOK, DeadLetter
<1>5. ASSUME NEW e \in Event, NEW result \in Outcome, Settle(e, result) PROVE TypeOK'
  BY <1>5 DEF TypeOK, Settle
<1>6. CASE UNCHANGED vars
  BY <1>6 DEF TypeOK, vars
<1> QED BY <1>1, <1>2, <1>3, <1>4, <1>5, <1>6 DEF Next

LEMMA TypeCorrect ==
  ASSUME DeliveryAssumption
  PROVE  Spec => []TypeOK
<1>1. Init => TypeOK
  BY DEF Init, TypeOK, Outcome
<1>2. TypeOK /\ [Next]_vars => TypeOK'
  BY TypePreserved
<1> QED BY <1>1, <1>2, PTL DEF Spec

\* The chain of an event that was submitted.
Explained(e) ==
  \A k \in FirstAttempt[e.root]..(e.attempt - 1) : [root |-> e.root, attempt |-> k] \in raised

Exhausted(e) ==
  \A k \in FirstAttempt[e.root]..MaxRetryAttempts : [root |-> e.root, attempt |-> k] \in raised

LEMMA OneMoreFailure ==
  ASSUME DeliveryAssumption, TypeOK, NEW e \in Event, e \in raised, Explained(e)
  PROVE  /\ e.attempt < MaxRetryAttempts => Explained(Retry(e))
         /\ e.attempt = MaxRetryAttempts => Exhausted(e)
<1>1. e.root \in Roots /\ e.attempt \in 1..MaxRetryAttempts
  BY DEF Event
<1>2. e = [root |-> e.root, attempt |-> e.attempt]
  BY DEF Event
<1>3. FirstAttempt[e.root] \in Nat /\ MaxRetryAttempts \in Nat
  BY <1>1 DEF DeliveryAssumption
<1>4. \A k \in FirstAttempt[e.root]..e.attempt : [root |-> e.root, attempt |-> k] \in raised
  BY <1>1, <1>2, <1>3 DEF Explained
<1>5. ASSUME e.attempt < MaxRetryAttempts PROVE Explained(Retry(e))
  BY <1>1, <1>4, <1>5, RetryInEvent DEF Explained
<1> QED BY <1>4, <1>5 DEF Exhausted

\* Every retry and every dead letter is explained by failures of the handler.
THEOREM ChainExplainedHolds ==
  ASSUME DeliveryAssumption
  PROVE  Spec => []ChainExplained
<1> USE DEF Explained, Exhausted
<1>1. Init => ChainExplained
  BY DEF Init, ChainExplained
<1>2. TypeOK /\ ChainExplained /\ [Next]_vars => ChainExplained'
  <2> SUFFICES ASSUME TypeOK, ChainExplained, [Next]_vars PROVE ChainExplained'
    OBVIOUS
  <2>1. ASSUME NEW r \in Roots, Submit(r) PROVE ChainExplained'
    <3>1. FirstAttempt[First(r).root]..(First(r).attempt - 1) = {}
      BY FirstInEvent DEF DeliveryAssumption
    <3> QED BY <2>1, <3>1 DEF ChainExplained, Submit
  <2>2. ASSUME NEW e \in Event, Run(e) PROVE ChainExplained'
    BY <2>2 DEF ChainExplained, Run
  <2>3. ASSUME NEW e \in Event, Resubmit(e) PROVE ChainExplained'
    <3>1. Explained(Retry(e))
      BY <2>3, OneMoreFailure DEF ChainExplained, Resubmit, TypeOK
    <3> QED BY <2>3, <3>1 DEF ChainExplained, Resubmit
  <2>4. ASSUME NEW e \in Event, DeadLetter(e) PROVE ChainExplained'
    <3>1. Exhausted(e)
      BY <2>4, OneMoreFailure DEF ChainExplained, DeadLetter, TypeOK
    <3> QED BY <2>4, <3>1 DEF ChainExplained, DeadLetter
  <2>5. ASSUME NEW e \in Event, NEW result \in Outcome, Settle(e, result) PROVE ChainExplained'
    BY <2>5 DEF ChainExplained, Settle
  <2>6. CASE UNCHANGED vars
    BY <2>6 DEF ChainExplained, vars
  <2> QED BY <2>1, <2>2, <2>3, <2>4, <2>5, <2>6 DEF Next
<1> QED BY <1>1, <1>2, TypeCorrect, PTL DEF Spec

\* The promise of a recorded outcome is never withdrawn.
THEOREM OutcomeJustifiedHolds ==
  ASSUME DeliveryAssumption
  PROVE  Spec => []OutcomeJustified
<1>1. Init => OutcomeJustified
  BY DEF Init, OutcomeJustified
<1>2. TypeOK /\ OutcomeJustified /\ [Next]_vars => OutcomeJustified'
  <2> SUFFICES ASSUME TypeOK, OutcomeJustified, [Next]_vars,
                      NEW e \in Event, outcome'[e] # "none"
               PROVE  Justified(e, outcome[e])' 
    BY DEF OutcomeJustified, Justified
  <2> QED BY DEF TypeOK, OutcomeJustified, Next, vars, Submit, Run, Resubmit, DeadLetter,
             Settle, Justified
<1> QED BY <1>1, <1>2, TypeCorrect, PTL DEF Spec
=============================================================================
