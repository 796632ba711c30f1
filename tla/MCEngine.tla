------------------------------ MODULE MCEngine ------------------------------
(***************************************************************************)
(* Small instances of the Engine for TLC.                                  *)
(*                                                                         *)
(* loop:   review --approve--> pay --back--> review                        *)
(*         review --reject---> (rejected)                                  *)
(* short:  review --approve--> (paid), pay --back--> review: loop edited   *)
(* blank:  loop with its entry step unset                                  *)
(***************************************************************************)
EXTENDS Engine, TLC

CONSTANTS review, pay, approve, reject, back, loop, short, blank,
          sReview, sPay, sPaid, sRejected, alice, bot

MCSteps == {review, pay}
MCActions == {approve, reject, back}
MCStatuses == {sReview, sPay, sPaid, sRejected}
MCAssignees == {alice, bot}

MCEntry == [g \in Graphs |-> IF g = blank THEN None ELSE review]

MCStatusOf ==
  [g \in Graphs |-> (review :> sReview) @@ (pay :> sPay)]

MCDefaultAssignee ==
  [g \in Graphs |-> (review :> alice) @@ (pay :> bot)]

MCActionsOf ==
  [g \in Graphs |->
     (review :> (IF g = short THEN {approve} ELSE {approve, reject}))
       @@ (pay :> {back})]

MCTarget ==
  [g \in Graphs |->
     [a \in MCActions |->
        CASE a = approve -> IF g = short THEN sPaid ELSE pay
          [] a = reject -> sRejected
          [] a = back -> review]]

Ids == Permutations(RunId) \cup Permutations(VisitId)
IdsAndCallers == Ids \cup Permutations(Callers)
=============================================================================
