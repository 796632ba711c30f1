------------------------------ MODULE RunGraph ------------------------------
(***************************************************************************)
(* The static side of a run: the graphs a workflow definition can hold.    *)
(*                                                                         *)
(* A run never reads its definition again once started: Start copies every *)
(* step, action and status of it into flowcore.step and flowcore.action.   *)
(* A copied graph is therefore a constant, named by an element of Graphs,  *)
(* and a run's row carries that name where the database carries the copied *)
(* rows.                                                                   *)
(***************************************************************************)
EXTENDS Naturals, FiniteSets

CONSTANTS
  Graphs,           \* the contents a definition can have, version by version
  Steps,            \* step names
  Actions,          \* action names
  Statuses,         \* workflow statuses
  Assignees,        \* assignee references: opaque, compared for equality only
  Entry,            \* Entry[g]: the entry step of g, None when it has none
  StatusOf,         \* StatusOf[g][s]: the status a run shows while on step s
  DefaultAssignee,  \* DefaultAssignee[g][s]: who a fresh visit of s goes to
  ActionsOf,        \* ActionsOf[g][s]: the actions step s offers
  Target,           \* Target[g][a]: the next step of a, or its final status
  None              \* SQL null, or no row

ASSUME GraphsAssumption ==
  /\ Entry \in [Graphs -> Steps \cup {None}]
  /\ StatusOf \in [Graphs -> [Steps -> Statuses]]
  /\ DefaultAssignee \in [Graphs -> [Steps -> Assignees]]
  /\ ActionsOf \in [Graphs -> [Steps -> SUBSET Actions]]
  /\ Target \in [Graphs -> [Actions -> Steps \cup Statuses]]

\* A next step is never a status: ck_action_terminal_xor keeps the two apart.
ASSUME TargetAssumption == Steps \cap Statuses = {}

\* An action row carries one step_id, so no two steps share an action.
ASSUME ActionsAssumption ==
  \A g \in Graphs : \A s, t \in Steps :
    s # t => ActionsOf[g][s] \cap ActionsOf[g][t] = {}

\* Null is no row and no value.
ASSUME NoneAssumption ==
  None \notin Graphs \cup Steps \cup Actions \cup Statuses \cup Assignees

\* An action either routes to a step or ends the run in a status.
IsTerminal(g, a) == Target[g][a] \notin Steps
=============================================================================
