------------------------------ MODULE RunSpec ------------------------------
(***************************************************************************)
(* What the Engine promises: a run as if every call happened at once.      *)
(* There are no transactions here, no locks, no clock and no failures: a   *)
(* call takes effect in one step or has no effect.                         *)
(***************************************************************************)
EXTENDS RunGraph

CONSTANTS RunId, VisitId, Pairs, People

VARIABLES
  run,   \* run[r]: subject and definition, frozen graph, status, finished?
  hist   \* hist[v]: one entry into a step of a run, and how it was left

rvars == <<run, hist>>

RunRow == [pair: Pairs, graph: Graphs, status: Statuses, done: BOOLEAN]
HistRow == [run: RunId, step: Steps, assignee: Assignees,
            by: People \cup {None}, action: Actions \cup {None}]

Unstarted == {r \in RunId : run[r] = None}
Unentered == {v \in VisitId : hist[v] = None}

Live(p) == {r \in RunId : run[r] # None /\ run[r].pair = p /\ ~run[r].done}
Standing(v) == hist[v] # None /\ hist[v].by = None

Entered(r, g, s) ==
  [run |-> r, step |-> s, assignee |-> DefaultAssignee[g][s],
   by |-> None, action |-> None]

Left(v, who, a) == [hist[v] EXCEPT !.by = who, !.action = a]

\* A run starts on the entry step of some graph, unless the pair has one live.
Begin(p) ==
  /\ Live(p) = {}
  /\ \E r \in Unstarted, v \in Unentered, g \in Graphs :
       /\ Entry[g] # None
       /\ run' = [run EXCEPT ![r] = [pair |-> p, graph |-> g, done |-> FALSE,
                                     status |-> StatusOf[g][Entry[g]]]]
       /\ hist' = [hist EXCEPT ![v] = Entered(r, g, Entry[g])]

\* The decision routes run r on, the fresh visit going to the default assignee of
\* its step ...
Route(v, r, g, who, a) ==
  /\ ~IsTerminal(g, a)
  /\ \E w \in Unentered :
       hist' = [hist EXCEPT ![v] = Left(v, who, a),
                            ![w] = Entered(r, g, Target[g][a])]
  /\ run' = [run EXCEPT ![r].status = StatusOf[g][Target[g][a]]]

\* ... or finishes it.
Finish(v, r, g, who, a) ==
  /\ IsTerminal(g, a)
  /\ hist' = [hist EXCEPT ![v] = Left(v, who, a)]
  /\ run' = [run EXCEPT ![r].status = Target[g][a], ![r].done = TRUE]

\* Someone decides the step a run stands on, by an action which that step has in
\* the run's own graph.
Decide(v) ==
  LET r == hist[v].run
      g == run[r].graph
  IN /\ Standing(v)
     /\ \E who \in People, a \in ActionsOf[g][hist[v].step] :
          Route(v, r, g, who, a) \/ Finish(v, r, g, who, a)

\* Undecided work moves to someone else.
HandOver(v) ==
  /\ Standing(v)
  /\ \E x \in Assignees : hist' = [hist EXCEPT ![v].assignee = x]
  /\ UNCHANGED run

RInit == run = [r \in RunId |-> None] /\ hist = [v \in VisitId |-> None]

RNext ==
  \/ \E p \in Pairs : Begin(p)
  \/ \E v \in VisitId : Decide(v) \/ HandOver(v)

RSpec == RInit /\ [][RNext]_rvars

\* The visits run r stands on.
At(r) == {v \in VisitId : Standing(v) /\ hist[v].run = r}

\* A pair has one live run at most, a live run stands on exactly one visit, of the
\* step that its status is of, and a finished run on none. GetState's answer to a
\* pair, and the visit a dispatch is about, are one or nothing (WorkflowState).
OnePlace ==
  /\ \A p \in Pairs : \A r, q \in Live(p) : r = q
  /\ \A r \in RunId \ Unstarted :
       IF run[r].done THEN At(r) = {}
       ELSE \E v \in VisitId :
              At(r) = {v} /\ run[r].status = StatusOf[run[r].graph][hist[v].step]
=============================================================================
