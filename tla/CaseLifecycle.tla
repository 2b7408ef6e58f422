--------------------------- MODULE CaseLifecycle ---------------------------
(***************************************************************************)
(* What FraudLiveSystem promises about the decisions of a case.  Each time *)
(* the agents come to a result is a branch of the case.  A branch is       *)
(* recommended, and then announced as final or queued for a reviewer,      *)
(* depending on the verdict; a final decision rests on an announced branch *)
(* or on a recorded review.  A disturbance is a handler that raised or a   *)
(* dead letter that was replayed: each may add one branch or one final     *)
(* decision.  Nothing is said of agents, streams, tables, redeliveries or  *)
(* crashes; CasePipeline implements it.                                    *)
(***************************************************************************)
EXTENDS Naturals, FiniteSets

VARIABLES verdict,      (* what the agents recommend                        *)
          recommended,  (* branches with a recorded recommendation          *)
          announced,    (* branches announced as final                      *)
          waiting,      (* branches in the queue of the reviewers           *)
          reviewed,     (* recorded decisions of reviewers                  *)
          final,        (* recorded final decisions                         *)
          disturbances  (* raises and replays so far                        *)

vars == <<verdict, recommended, announced, waiting, reviewed, final, disturbances>>

Init ==
  /\ verdict \in {"ALLOW", "BLOCK", "REVIEW"}
  /\ recommended = {} /\ announced = {} /\ waiting = {}
  /\ reviewed = {} /\ final = {}
  /\ disturbances = 0

\* The first branch is free, every other one costs a disturbance.
Recommend ==
  /\ \E b \in recommended' \ recommended : recommended' = recommended \cup {b}
  /\ Cardinality(recommended') <= 1 + disturbances
  /\ UNCHANGED <<verdict, announced, waiting, reviewed, final, disturbances>>

Announce ==
  /\ verdict # "REVIEW"
  /\ \E b \in recommended \ announced : announced' = announced \cup {b}
  /\ UNCHANGED <<verdict, recommended, waiting, reviewed, final, disturbances>>

Queue ==
  /\ verdict = "REVIEW"
  /\ \E b \in recommended \ waiting : waiting' = waiting \cup {b}
  /\ UNCHANGED <<verdict, recommended, announced, reviewed, final, disturbances>>

Review ==
  /\ \E r \in reviewed' \ reviewed : reviewed' = reviewed \cup {r}
  /\ UNCHANGED <<verdict, recommended, announced, waiting, final, disturbances>>

\* The system decides once unless its verdict is REVIEW, each review adds one
\* final decision at most, and so does each disturbance.
FinalsAllowed ==
  (IF verdict = "REVIEW" THEN 0 ELSE 1) + Cardinality(reviewed) + disturbances

Finalize(branches) ==
  /\ \E f \in branches : final' = final \cup {f}
  /\ Cardinality(final') <= FinalsAllowed
  /\ UNCHANGED <<verdict, recommended, announced, waiting, reviewed, disturbances>>

FinalizeBySystem == Finalize(announced \ final)

FinalizeByReviewer == reviewed # {} /\ Finalize(final' \ final)

Disturb ==
  /\ disturbances' = disturbances + 1
  /\ UNCHANGED <<verdict, recommended, announced, waiting, reviewed, final>>

Next ==
  \/ Recommend \/ Announce \/ Queue \/ Review
  \/ FinalizeBySystem \/ FinalizeByReviewer \/ Disturb

Spec == Init /\ [][Next]_vars
=============================================================================
