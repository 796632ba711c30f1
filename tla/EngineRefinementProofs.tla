----------------------- MODULE EngineRefinementProofs -----------------------
(***************************************************************************)
(* The Engine implements RunSpec, for any number of callers, subjects and  *)
(* graphs. Every step of Engine is mapped: the commit of a Start to Begin, *)
(* the commit of a decision to Decide, the update of a Reassign to         *)
(* HandOver, and every other statement to a stutter.                       *)
(*                                                                         *)
(* What has to be known of the commit is in Inv: nobody else has started a *)
(* run of the pair meanwhile (Locks), and the rows it installs are those of*)
(* one call (Writes). Beyond Inv, Undecided says that an open visit names  *)
(* nobody as its decider, which is how RunSpec tells it is open.           *)
(***************************************************************************)
EXTENDS EngineProofs

\* An open visit is nobody's decision.
Undecided == \A v \in VisitId : IsOpen(visit[v]) => visit[v].by = None

\* A row of workflow, and of step_visit, as RunSpec has it.
RunAs(row) ==
  IF row = None THEN None
  ELSE [pair |-> row.pair, graph |-> row.graph, status |-> row.status,
        done |-> row.completed # None]

VisitAs(row) ==
  IF row = None THEN None
  ELSE [run |-> row.run, step |-> row.step, assignee |-> row.assignee, by |-> row.by,
        action |-> IF row.action = None THEN None ELSE row.action[2]]

LEMMA Mapping ==
  /\ AbstractRun = [r \in RunId |-> RunAs(workflow[r])]
  /\ AbstractVisit = [v \in VisitId |-> VisitAs(visit[v])]
  /\ AbstractRun' = [r \in RunId |-> RunAs(workflow'[r])]
  /\ AbstractVisit' = [v \in VisitId |-> VisitAs(visit'[v])]
BY DEF AbstractRun, AbstractVisit, RunAs, VisitAs

\* A row is mapped to a row.
LEMMA MappedRun ==
  ASSUME NEW row \in RunRow
  PROVE  /\ RunAs(row) = [pair |-> row.pair, graph |-> row.graph, status |-> row.status,
                          done |-> row.completed # None]
         /\ RunAs(row) # None
<1>1. row # None
  BY RowAssumption
<1>2. RunAs(row) = [pair |-> row.pair, graph |-> row.graph, status |-> row.status,
                    done |-> row.completed # None]
  BY <1>1 DEF RunAs
<1>3. (row.completed # None) \in BOOLEAN
  OBVIOUS
<1>4. RunAs(row) \in Promise!RunRow
  BY <1>2, <1>3 DEF Promise!RunRow, RunRow
<1> QED BY <1>2, <1>4, PromiseAssumption

LEMMA MappedVisit ==
  ASSUME NEW row \in VisitRow
  PROVE  /\ VisitAs(row) = [run |-> row.run, step |-> row.step, assignee |-> row.assignee,
                            by |-> row.by,
                            action |-> IF row.action = None THEN None ELSE row.action[2]]
         /\ VisitAs(row) # None
<1>1. row # None
  BY RowAssumption
<1> DEFINE a == IF row.action = None THEN None ELSE row.action[2]
<1>2. VisitAs(row) = [run |-> row.run, step |-> row.step, assignee |-> row.assignee,
                      by |-> row.by, action |-> a]
  BY <1>1 DEF VisitAs
<1>3. a \in Actions \cup {None}
  BY DEF VisitRow, ActionId
<1> HIDE DEF a
<1>4. VisitAs(row) \in Promise!HistRow
  BY <1>2, <1>3 DEF Promise!HistRow, VisitRow
<1> QED BY <1>2, <1>4, PromiseAssumption DEF a

\* What is mapped is what is there.
LEMMA MappedThere ==
  ASSUME Inv
  PROVE  /\ \A r \in RunId : /\ (AbstractRun[r] = None) = (workflow[r] = None)
                             /\ workflow[r] # None => workflow[r] \in RunRow
         /\ \A v \in VisitId : /\ (AbstractVisit[v] = None) = (visit[v] = None)
                               /\ visit[v] # None => visit[v] \in VisitRow
<1>1. /\ \A r \in RunId : workflow[r] # None => workflow[r] \in RunRow
      /\ \A v \in VisitId : visit[v] # None => visit[v] \in VisitRow
  BY DEF Inv, CoreType
<1>2. /\ \A r \in RunId : AbstractRun[r] = RunAs(workflow[r])
      /\ \A v \in VisitId : AbstractVisit[v] = VisitAs(visit[v])
  BY Mapping
<1>3. RunAs(None) = None /\ VisitAs(None) = None
  BY DEF RunAs, VisitAs
<1>4. ASSUME NEW r \in RunId
      PROVE  (AbstractRun[r] = None) = (workflow[r] = None)
  <2>1. CASE workflow[r] = None
    BY <1>2, <1>3, <2>1
  <2>2. CASE workflow[r] # None
    BY <1>1, <1>2, <2>2, MappedRun
  <2> QED BY <2>1, <2>2
<1>5. ASSUME NEW v \in VisitId
      PROVE  (AbstractVisit[v] = None) = (visit[v] = None)
  <2>1. CASE visit[v] = None
    BY <1>2, <1>3, <2>1
  <2>2. CASE visit[v] # None
    BY <1>1, <1>2, <2>2, MappedVisit
  <2> QED BY <2>1, <2>2
<1> QED BY <1>1, <1>4, <1>5

\* A change of one row is a change of one mapped row.
LEMMA RunChanged ==
  ASSUME NEW r \in RunId, NEW row, workflow'[r] = row,
         \A q \in RunId : q # r => workflow'[q] = workflow[q]
  PROVE  AbstractRun' = [AbstractRun EXCEPT ![r] = RunAs(row)]
BY Mapping

LEMMA VisitChanged ==
  ASSUME NEW v \in VisitId, NEW row, visit'[v] = row,
         \A w \in VisitId : w # v => visit'[w] = visit[w]
  PROVE  AbstractVisit' = [AbstractVisit EXCEPT ![v] = VisitAs(row)]
BY Mapping

LEMMA TwoVisitsChanged ==
  ASSUME NEW v \in VisitId, NEW f \in VisitId, f # v, NEW row, NEW new,
         visit'[v] = row, visit'[f] = new,
         \A w \in VisitId : w # v /\ w # f => visit'[w] = visit[w]
  PROVE  AbstractVisit' = [AbstractVisit EXCEPT ![v] = VisitAs(row), ![f] = VisitAs(new)]
BY Mapping

-----------------------------------------------------------------------------
(* The commit of a Start.                                                  *)

LEMMA StartBegins ==
  ASSUME Inv, NEW c \in Callers, Commit(c), pc[c] = "commitStart"
  PROVE  \E p \in Pair : Promise!Begin(p)
<1> DEFINE r == tx[c].run
           v == tx[c].fresh
           g == tx[c].graph
           p == arg[c].pair
           row == NewRun(c)
           new == NewVisit(c, g, Entry[g])
<1>1. /\ r \in RunId /\ workflow[r] = None /\ v \in VisitId /\ visit[v] = None
      /\ row \in RunRow /\ new \in VisitRow
      /\ workflow'[r] = row /\ \A q \in RunId : q # r => workflow'[q] = workflow[q]
      /\ visit'[v] = new /\ \A w \in VisitId : w # v => visit'[w] = visit[w]
  BY StartEffect
<1>2. p \in Pair /\ g \in Graphs /\ Entry[g] # None
  BY NoneAssumption DEF Inv, LocalsAt, StartPC
<1>3. OpenRunsIn(workflow, p) = {}
  BY DEF Inv, Locks, Starting
<1>4. AbstractRun[r] = None /\ AbstractVisit[v] = None
  BY <1>1, MappedThere
<1>5. RunAs(row) = [pair |-> p, graph |-> g, done |-> FALSE, status |-> StatusOf[g][Entry[g]]]
  BY <1>1, MappedRun DEF NewRun
<1>6. VisitAs(new) = Promise!Entered(r, g, Entry[g])
  BY <1>1, MappedVisit DEF NewVisit, Promise!Entered
<1>7. Promise!Live(p) = {}
  <2>1. ASSUME NEW q \in RunId, AbstractRun[q] # None,
               AbstractRun[q].pair = p, ~AbstractRun[q].done
        PROVE  FALSE
    <3>1. workflow[q] # None /\ workflow[q] \in RunRow /\ AbstractRun[q] = RunAs(workflow[q])
      BY <2>1, MappedThere, Mapping
    <3>2. workflow[q].pair = p /\ workflow[q].completed = None
      <4> DEFINE done == workflow[q].completed # None
      <4>1. AbstractRun[q] = [pair |-> workflow[q].pair, graph |-> workflow[q].graph,
                              status |-> workflow[q].status, done |-> done]
        BY <3>1, MappedRun
      <4> HIDE DEF done
      <4>2. AbstractRun[q].pair = workflow[q].pair /\ AbstractRun[q].done = done
        BY <4>1
      <4>3. ~done
        BY <2>1, <4>2
      <4> QED BY <2>1, <4>2, <4>3 DEF done
    <3>3. \A o \in RunId : ~(IsOpen(workflow[o]) /\ workflow[o].pair = p)
      BY <1>3 DEF OpenRunsIn
    <3> QED BY <3>1, <3>2, <3>3 DEF IsOpen
  <2> QED BY <2>1 DEF Promise!Live
<1>8. AbstractRun' = [AbstractRun EXCEPT ![r] = RunAs(row)]
  BY <1>1, RunChanged
<1>9. AbstractVisit' = [AbstractVisit EXCEPT ![v] = VisitAs(new)]
  BY <1>1, VisitChanged
<1>10. r \in Promise!Unstarted /\ v \in Promise!Unentered
  BY <1>1, <1>4 DEF Promise!Unstarted, Promise!Unentered
<1> HIDE DEF r, v, g, p, row, new
<1>11. Promise!Begin(p)
  BY <1>2, <1>5, <1>6, <1>7, <1>8, <1>9, <1>10 DEF Promise!Begin
<1> QED BY <1>2, <1>11

-----------------------------------------------------------------------------
(* The commit of a decision.                                               *)

\* What a decision does to its visit, and to what RunSpec knows of it.
LEMMA Decision ==
  ASSUME Inv, Undecided, NEW c \in Callers, pc[c] = "commitStep",
         NEW v, v = arg[c].visit, NEW r, r = tx[c].run, NEW a, a = arg[c].action[2]
  PROVE  /\ v \in VisitId /\ r \in RunId /\ workflow[r] \in RunRow
         /\ AbstractVisit[v].run = r /\ AbstractRun[r].graph = tx[c].graph
         /\ tx[c].graph \in Graphs /\ tx[c].graph = workflow[r].graph
         /\ Promise!Standing(v)
         /\ a \in ActionsOf[tx[c].graph][AbstractVisit[v].step]
         /\ VisitAs(ClosedVisit(c)) = Promise!Left(v, c, a)
<1>1. /\ v \in VisitId /\ visit[v] \in VisitRow /\ IsOpen(visit[v]) /\ visit[v].run = r
      /\ r \in RunId /\ workflow[r] \in RunRow
      /\ ClosedVisit(c) \in VisitRow
  BY DecidedRun DEF Deciding
<1>2. /\ tx[c].graph = workflow[r].graph
      /\ a \in ActionsOf[tx[c].graph][visit[v].step]
      /\ arg[c].action \in ActionId
  BY DEF Inv, LocalsAt, CompletePC
<1>3. AbstractVisit[v] = VisitAs(visit[v]) /\ AbstractRun[r] = RunAs(workflow[r])
  BY <1>1, Mapping
<1>4. /\ AbstractVisit[v] # None /\ AbstractVisit[v].run = r
      /\ AbstractVisit[v].step = visit[v].step /\ AbstractVisit[v].by = visit[v].by
      /\ AbstractRun[r].graph = workflow[r].graph
  BY <1>1, <1>3, MappedVisit, MappedRun
<1>5. Promise!Standing(v)
  BY <1>1, <1>4 DEF Undecided, Promise!Standing
<1>6. /\ ClosedVisit(c).run = visit[v].run /\ ClosedVisit(c).step = visit[v].step
      /\ ClosedVisit(c).assignee = visit[v].assignee /\ ClosedVisit(c).by = c
      /\ ClosedVisit(c).action = arg[c].action
  BY <1>1 DEF ClosedVisit, VisitRow
<1>7. arg[c].action # None
  BY <1>2, RowAssumption
<1>8. VisitAs(ClosedVisit(c)) = Promise!Left(v, c, a)
  <2>1. VisitAs(ClosedVisit(c)) =
          [run |-> visit[v].run, step |-> visit[v].step, assignee |-> visit[v].assignee,
           by |-> c, action |-> a]
    BY <1>1, <1>6, <1>7, MappedVisit
  <2> DEFINE was == IF visit[v].action = None THEN None ELSE visit[v].action[2]
  <2>2. AbstractVisit[v] =
          [run |-> visit[v].run, step |-> visit[v].step, assignee |-> visit[v].assignee,
           by |-> visit[v].by, action |-> was]
    BY <1>1, <1>3, MappedVisit
  <2> HIDE DEF was
  <2>3. Promise!Left(v, c, a) = [AbstractVisit[v] EXCEPT !.by = c, !.action = a]
    BY DEF Promise!Left
  <2>4. [AbstractVisit[v] EXCEPT !.by = c, !.action = a] =
          [run |-> visit[v].run, step |-> visit[v].step, assignee |-> visit[v].assignee,
           by |-> c, action |-> a]
    <3> DEFINE mid == [AbstractVisit[v] EXCEPT !.by = c]
    <3>1. mid = [run |-> visit[v].run, step |-> visit[v].step,
                 assignee |-> visit[v].assignee, by |-> c, action |-> was]
      BY <2>2
    <3>2. [AbstractVisit[v] EXCEPT !.by = c, !.action = a] = [mid EXCEPT !.action = a]
      OBVIOUS
    <3> HIDE DEF mid
    <3>3. [mid EXCEPT !.action = a] =
            [run |-> visit[v].run, step |-> visit[v].step, assignee |-> visit[v].assignee,
             by |-> c, action |-> a]
      BY <3>1
    <3> QED BY ONLY <3>2, <3>3
  <2> QED BY <2>1, <2>3, <2>4
<1>9. tx[c].graph \in Graphs
  BY <1>1, <1>2 DEF RunRow
<1> QED BY <1>1, <1>2, <1>4, <1>5, <1>8, <1>9

LEMMA StepDecides ==
  ASSUME Inv, Undecided, NEW c \in Callers, Commit(c), pc[c] = "commitStep"
  PROVE  \E v \in VisitId : Promise!Decide(v)
<1> DEFINE v == arg[c].visit
           r == tx[c].run
           g == tx[c].graph
           a == arg[c].action[2]
           t == Target[g][a]
           old == ClosedVisit(c)
<1>1. /\ v \in VisitId /\ r \in RunId /\ workflow[r] \in RunRow
      /\ AbstractVisit[v].run = r /\ AbstractRun[r].graph = g
      /\ g \in Graphs /\ g = workflow[r].graph
      /\ Promise!Standing(v)
      /\ a \in ActionsOf[g][AbstractVisit[v].step]
      /\ VisitAs(old) = Promise!Left(v, c, a)
  BY Decision
<1>2. AbstractRun[r] = [pair |-> workflow[r].pair, graph |-> workflow[r].graph,
                        status |-> workflow[r].status, done |-> workflow[r].completed # None]
  BY <1>1, Mapping, MappedRun
<1>3. AbstractRun = [q \in RunId |-> AbstractRun[q]]
  BY Mapping
<1>4. CASE t \notin Steps
  <2> DEFINE row == ClosedRun(c, t)
  <2>1. /\ row \in RunRow
        /\ workflow'[r] = row /\ \A q \in RunId : q # r => workflow'[q] = workflow[q]
        /\ visit'[v] = old /\ \A w \in VisitId : w # v => visit'[w] = visit[w]
    BY <1>4, FinishEffect
  <2>2. tx[c].began # None
    BY EngineAssumption DEF Inv, CoreType, Tx
  <2>3. RunAs(row) = [pair |-> workflow[r].pair, graph |-> workflow[r].graph,
                      status |-> t, done |-> TRUE]
    <3>1. /\ row.pair = workflow[r].pair /\ row.graph = workflow[r].graph
          /\ row.status = t /\ row.completed = tx[c].began
      BY <1>1 DEF ClosedRun, RunRow
    <3> QED BY <2>1, <2>2, <3>1, MappedRun
  <2> HIDE DEF v, r, g, a, t, old, row
  <2>4. AbstractRun' = [AbstractRun EXCEPT ![r] = RunAs(row)]
    BY <1>1, <2>1, RunChanged
  <2>5. AbstractVisit' = [AbstractVisit EXCEPT ![v] = VisitAs(old)]
    BY <1>1, <2>1, VisitChanged
  <2>6. AbstractRun' = [AbstractRun EXCEPT ![r].status = t, ![r].done = TRUE]
    <3>1. RunAs(row) = [[AbstractRun[r] EXCEPT !.status = t] EXCEPT !.done = TRUE]
      <4> DEFINE done == workflow[r].completed # None
      <4>1. AbstractRun[r] = [pair |-> workflow[r].pair, graph |-> workflow[r].graph,
                              status |-> workflow[r].status, done |-> done]
        BY <1>2
      <4> HIDE DEF done
      <4> DEFINE moved == [AbstractRun[r] EXCEPT !.status = t]
      <4>2. moved = [pair |-> workflow[r].pair, graph |-> workflow[r].graph,
                     status |-> t, done |-> done]
        BY <4>1
      <4> DEFINE yes == TRUE
      <4>3. RunAs(row) = [pair |-> workflow[r].pair, graph |-> workflow[r].graph,
                          status |-> t, done |-> yes]
        BY <2>3
      <4> HIDE DEF moved, yes
      <4>4. [moved EXCEPT !.done = yes] = RunAs(row)
        BY <4>2, <4>3
      <4> QED BY <4>4 DEF moved, yes
    <3> DEFINE mid == [AbstractRun EXCEPT ![r].status = t]
    <3>2. /\ mid[r] = [AbstractRun[r] EXCEPT !.status = t] /\ DOMAIN mid = RunId
          /\ \A q \in RunId : q # r => mid[q] = AbstractRun[q]
          /\ mid = [q \in RunId |-> mid[q]]
      BY <1>1, <1>3
    <3> HIDE DEF mid
    <3>3. [mid EXCEPT ![r].done = TRUE] = [mid EXCEPT ![r] = RunAs(row)]
      BY <3>1, <3>2
    <3>4. [mid EXCEPT ![r] = RunAs(row)] = [AbstractRun EXCEPT ![r] = RunAs(row)]
      BY <1>1, <1>3, <3>2
    <3> QED BY <2>4, <3>3, <3>4 DEF mid
  <2>7. Promise!Finish(v, r, g, c, a)
    BY <1>1, <1>4, <2>5, <2>6 DEF Promise!Finish, Promise!IsTerminal, t
  <2> QED BY <1>1, <2>7 DEF Promise!Decide
<1>5. CASE t \in Steps
  <2> DEFINE f == tx[c].fresh
             row == RoutedRun(c, t)
             new == NewVisit(c, g, t)
  <2>1. /\ row \in RunRow /\ new \in VisitRow
        /\ f \in VisitId /\ visit[f] = None /\ f # v
        /\ workflow'[r] = row /\ \A q \in RunId : q # r => workflow'[q] = workflow[q]
        /\ visit'[v] = old /\ visit'[f] = new
        /\ \A w \in VisitId : w # v /\ w # f => visit'[w] = visit[w]
    BY <1>5, RouteEffect
  <2>2. RunAs(row) = [pair |-> workflow[r].pair, graph |-> workflow[r].graph,
                      status |-> StatusOf[g][t], done |-> workflow[r].completed # None]
    <3>1. /\ row.pair = workflow[r].pair /\ row.graph = workflow[r].graph
          /\ row.status = StatusOf[g][t] /\ row.completed = workflow[r].completed
      BY <1>1 DEF RoutedRun, RunRow
    <3> QED BY <2>1, <3>1, MappedRun
  <2>3. VisitAs(new) = Promise!Entered(r, g, t)
    BY <2>1, MappedVisit DEF NewVisit, Promise!Entered
  <2> HIDE DEF v, r, g, a, t, f, old, row, new
  <2>4. AbstractRun' = [AbstractRun EXCEPT ![r] = RunAs(row)]
    BY <1>1, <2>1, RunChanged
  <2>5. AbstractVisit' = [AbstractVisit EXCEPT ![v] = VisitAs(old), ![f] = VisitAs(new)]
    BY <1>1, <2>1, TwoVisitsChanged
  <2>6. f \in Promise!Unentered
    BY <2>1, MappedThere DEF Promise!Unentered
  <2>7. AbstractRun' = [AbstractRun EXCEPT ![r].status = StatusOf[g][t]]
    <3>1. RunAs(row) = [AbstractRun[r] EXCEPT !.status = StatusOf[g][t]]
      BY <1>2, <2>2
    <3> QED BY <1>1, <1>3, <2>4, <3>1
  <2>8. Promise!Route(v, r, g, c, a)
    BY <1>1, <1>5, <2>3, <2>5, <2>6, <2>7 DEF Promise!Route, Promise!IsTerminal, t
  <2> QED BY <1>1, <2>8 DEF Promise!Decide
<1> QED BY <1>4, <1>5

-----------------------------------------------------------------------------
(* The update of a Reassign.                                               *)

LEMMA ReassignHandsOver ==
  ASSUME Inv, Undecided, NEW c \in Callers, ReassignStepVisit(c), ~UNCHANGED visit
  PROVE  \E v \in VisitId : Promise!HandOver(v)
<1> DEFINE v == arg[c].visit
           x == arg[c].assignee
           row == [visit[v] EXCEPT !.assignee = x]
<1>1. /\ v \in VisitId /\ visit[v] \in VisitRow /\ IsOpen(visit[v])
      /\ x \in Assignees /\ row \in VisitRow
      /\ workflow' = workflow
      /\ visit'[v] = row /\ \A w \in VisitId : w # v => visit'[w] = visit[w]
  BY ReassignEffect
<1>2. AbstractVisit[v] = VisitAs(visit[v]) /\ AbstractVisit = [w \in VisitId |-> AbstractVisit[w]]
  BY <1>1, Mapping
<1>3. Promise!Standing(v)
  BY <1>1, <1>2, MappedVisit DEF Undecided, Promise!Standing
<1>4. VisitAs(row) = [AbstractVisit[v] EXCEPT !.assignee = x]
  <2>1. /\ row.run = visit[v].run /\ row.step = visit[v].step /\ row.assignee = x
        /\ row.by = visit[v].by /\ row.action = visit[v].action
    BY <1>1 DEF VisitRow
  <2> HIDE DEF row
  <2> QED BY <1>1, <1>2, <2>1, MappedVisit
<1>5. AbstractVisit' = [AbstractVisit EXCEPT ![v] = VisitAs(row)]
  BY <1>1, VisitChanged
<1>6. AbstractRun' = AbstractRun
  BY <1>1, Mapping
<1> HIDE DEF v, x, row
<1>7. AbstractVisit' = [AbstractVisit EXCEPT ![v].assignee = x]
  BY <1>1, <1>2, <1>4, <1>5
<1>8. Promise!HandOver(v)
  BY <1>1, <1>3, <1>6, <1>7 DEF Promise!HandOver
<1> QED BY <1>1, <1>8

-----------------------------------------------------------------------------
(* The refinement.                                                         *)

LEMMA UndecidedNext == Inv /\ Undecided /\ [Next]_vars => Undecided'
<1> SUFFICES ASSUME Inv, Undecided, [Next]_vars PROVE Undecided'
  OBVIOUS
<1>1. CASE UNCHANGED <<workflow, visit>>
  BY <1>1 DEF Undecided, IsOpen
<1>2. ASSUME NEW c \in Callers, Commit(c), pc[c] = "commitStart"
      PROVE  Undecided'
  <2> DEFINE v == tx[c].fresh
             new == NewVisit(c, tx[c].graph, Entry[tx[c].graph])
  <2>1. visit'[v] = new /\ \A w \in VisitId : w # v => visit'[w] = visit[w]
    BY <1>2, StartEffect
  <2>2. new.by = None
    BY DEF NewVisit
  <2> HIDE DEF v, new
  <2> QED BY <2>1, <2>2 DEF Undecided
<1>3. ASSUME NEW c \in Callers, Commit(c), pc[c] = "commitStep"
      PROVE  Undecided'
  <2> DEFINE t == Target[tx[c].graph][arg[c].action[2]]
  <2>1. ~IsOpen(ClosedVisit(c))
    BY <1>3, DecidedRun DEF Deciding, IsOpen
  <2>2. CASE t \notin Steps
    <3>1. /\ visit'[arg[c].visit] = ClosedVisit(c)
          /\ \A w \in VisitId : w # arg[c].visit => visit'[w] = visit[w]
      BY <1>3, <2>2, FinishEffect
    <3> QED BY <2>1, <3>1 DEF Undecided
  <2>3. CASE t \in Steps
    <3> DEFINE f == tx[c].fresh
               new == NewVisit(c, tx[c].graph, t)
    <3>1. /\ visit'[arg[c].visit] = ClosedVisit(c) /\ visit'[f] = new
          /\ \A w \in VisitId : w # arg[c].visit /\ w # f => visit'[w] = visit[w]
      BY <1>3, <2>3, RouteEffect
    <3>2. new.by = None
      BY DEF NewVisit
    <3> HIDE DEF f, new
    <3> QED BY <2>1, <3>1, <3>2 DEF Undecided
  <2> QED BY <2>2, <2>3
<1>4. ASSUME NEW c \in Callers, ReassignStepVisit(c), ~UNCHANGED visit
      PROVE  Undecided'
  <2> DEFINE v == arg[c].visit
             row == [visit[v] EXCEPT !.assignee = arg[c].assignee]
  <2>1. /\ v \in VisitId /\ visit[v] \in VisitRow /\ IsOpen(visit[v])
        /\ visit'[v] = row /\ \A w \in VisitId : w # v => visit'[w] = visit[w]
    BY <1>4, ReassignEffect
  <2>2. row.by = visit[v].by
    BY <2>1 DEF VisitRow
  <2> HIDE DEF v, row
  <2> QED BY <2>1, <2>2 DEF Undecided
<1>5. QED
  BY <1>1, <1>2, <1>3, <1>4, WhoWrites DEF Commit

LEMMA InitRefines == Init => Promise!RInit
BY DEF Init, Promise!RInit, AbstractRun, AbstractVisit, NoRuns, NoVisits

LEMMA NextRefines ==
  Inv /\ Undecided /\ [Next]_vars => [Promise!RNext]_(Promise!rvars)
<1> SUFFICES ASSUME Inv, Undecided, [Next]_vars
             PROVE  Promise!RNext \/ UNCHANGED <<AbstractRun, AbstractVisit>>
  BY DEF Promise!rvars
<1>1. CASE UNCHANGED <<workflow, visit>>
  BY <1>1 DEF AbstractRun, AbstractVisit
<1>2. ASSUME NEW c \in Callers, Commit(c)
      PROVE  Promise!RNext
  BY <1>2, StartBegins, StepDecides DEF Commit, Promise!RNext
<1>3. ASSUME NEW c \in Callers, ReassignStepVisit(c), ~UNCHANGED visit
      PROVE  Promise!RNext
  BY <1>3, ReassignHandsOver DEF Promise!RNext
<1> QED BY <1>1, <1>2, <1>3, WhoWrites

\* However the statements of concurrent calls interleave, and wherever they fail, what
\* is committed moves as if every call happened at once, at its commit, or not at all.
THEOREM LinearizableHolds == Spec => Linearizable
<1>1. Init => Undecided
  BY DEF Init, Undecided, IsOpen, NoVisits
<1>2. Spec => []Undecided
  BY <1>1, UndecidedNext, Invariance, PTL DEF Spec
<1>3. Spec => Promise!RInit /\ [][Promise!RNext]_(Promise!rvars)
  BY <1>2, InitRefines, NextRefines, Invariance, PTL DEF Spec
<1> QED BY <1>3 DEF Linearizable, Promise!RSpec
=============================================================================
