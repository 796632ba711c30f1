---------------------------- MODULE MCDispatcher ----------------------------
(***************************************************************************)
(* Small instances of the Dispatcher for TLC.                              *)
(*                                                                         *)
(* flow:   screen --pass--> rate --accept--> (accepted)                    *)
(* quick:  screen --pass--> (accepted)                                     *)
(* assess: rate --accept--> (accepted)                                     *)
(*                                                                         *)
(* Every step is an agent's by default. A person can decide any of them,   *)
(* or move it to herself or to another agent.                              *)
(***************************************************************************)
EXTENDS Dispatcher, TLC

CONSTANTS screen, rate, pass, accept, flow, quick, assess, sOpen, sAccepted,
          screener, rater, dana

MCSteps == {screen, rate}
MCActions == {pass, accept}
MCStatuses == {sOpen, sAccepted}
MCEntry == [g \in Graphs |-> IF g = assess THEN rate ELSE screen]
MCStatusOf == [g \in Graphs |-> [s \in MCSteps |-> sOpen]]
MCDefaultAssignee == [g \in Graphs |-> (screen :> screener) @@ (rate :> rater)]
MCActionsOf == [g \in Graphs |-> (screen :> {pass}) @@ (rate :> {accept})]
MCTarget ==
  [g \in Graphs |->
     (pass :> IF g = quick THEN sAccepted ELSE rate) @@ (accept :> sAccepted)]

\* The case of the starvation run: work of an agent whose checks fail is older than
\* that of an agent whose checks succeed.
FailingFirst ==
  \A v \in VisitId : hist[v] # None /\ hist[v].assignee \in Checkable =>
    \E w \in VisitId : w < v /\ hist[w] # None /\ hist[w].assignee \notin Checkable

\* Some of the behaviours of FairSpec.
StarvedSpec == Init /\ [][Next /\ FailingFirst']_vars /\ Fairness
=============================================================================
