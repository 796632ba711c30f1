------------------------- MODULE EngineHistoryProofs -------------------------
(***************************************************************************)
(* What the record of a run says, and what callers are told of it, for any *)
(* number of callers, subjects and graphs.                                 *)
(*                                                                         *)
(* Inv says which rows a commit installs; here is added when. Times says   *)
(* that a decision's transaction begins after its visit was entered, and   *)
(* that the visit a run stands on is the latest of that run: without it    *)
(* two visits of a run could have one time, and the order by which the     *)
(* history is read would be no order. From Inv and Times follow that the   *)
(* history is a route and that a commit breaks no constraint; from those   *)
(* and the record being append-only, that what was answered stays true.    *)
(***************************************************************************)
EXTENDS EngineProofs

\* c is deciding a visit it holds the id of.
Naming(c) == pc[c] \in CompletePC /\ arg[c].visit # None

Times ==
  /\ \A v \in KnownVisits : visit[v].entered <= clock
  /\ \A c \in Callers : Naming(c) =>
       visit[arg[c].visit] # None /\ visit[arg[c].visit].entered < tx[c].began
  /\ \A v, w \in KnownVisits : visit[v].run = visit[w].run /\ IsOpen(visit[v]) /\ w # v =>
       visit[w].entered < visit[v].entered

RunIsARoute(r) ==
  /\ \A v, w \in VisitsOf(r) : visit[v].entered = visit[w].entered => v = w
  /\ \E v \in VisitsOf(r) : /\ visit[v].entered = workflow[r].started
                            /\ visit[v].step = Entry[workflow[r].graph]
  /\ \A v \in VisitsOf(r) : /\ visit[v].entered >= workflow[r].started
                            /\ visit[v].completed # None => LeftByItsGraph(r, v)

LEMMA RoutesOfRuns ==
  /\ HistoryIsARoute = \A r \in KnownRuns : RunIsARoute(r)
  /\ HistoryIsARoute' = \A r \in KnownRuns' : RunIsARoute(r)'
BY DEF HistoryIsARoute, RunIsARoute

\* The numbers and rows there are.
LEMMA Known ==
  ASSUME Inv
  PROVE  /\ clock \in Nat
         /\ \A c \in Callers : tx[c].began \in Nat
         /\ \A v \in KnownVisits : /\ v \in VisitId /\ visit[v] \in VisitRow
                                   /\ visit[v].entered \in Nat
                                   /\ visit[v].run \in KnownRuns
         /\ \A r \in KnownRuns : /\ r \in RunId /\ workflow[r] \in RunRow
                                 /\ workflow[r].started \in Nat
BY DEF Inv, CoreType, Tx, KnownVisits, KnownRuns, VisitRow, RunRow, Position

-----------------------------------------------------------------------------
(* What a step that writes the tables does to them, field by field.        *)

LEMMA StartFacts ==
  ASSUME Inv, NEW c \in Callers, Commit(c), pc[c] = "commitStart",
         NEW r, r = tx[c].run, NEW f, f = tx[c].fresh
  PROVE  /\ r \in RunId /\ workflow[r] = None /\ f \in VisitId /\ visit[f] = None
         /\ workflow'[r] # None /\ \A q \in RunId : q # r => workflow'[q] = workflow[q]
         /\ visit'[f] # None /\ \A w \in VisitId : w # f => visit'[w] = visit[w]
         /\ workflow'[r].started = tx[c].began
         /\ visit'[f].run = r /\ visit'[f].step = Entry[workflow'[r].graph]
         /\ visit'[f].entered = tx[c].began /\ visit'[f].completed = None
         /\ \A w \in KnownVisits : visit[w].run # r
<1> DEFINE row == NewRun(c)
           new == NewVisit(c, tx[c].graph, Entry[tx[c].graph])
<1>1. /\ r \in RunId /\ workflow[r] = None /\ f \in VisitId /\ visit[f] = None
      /\ row # None /\ new # None
      /\ workflow'[r] = row /\ \A q \in RunId : q # r => workflow'[q] = workflow[q]
      /\ visit'[f] = new /\ \A w \in VisitId : w # f => visit'[w] = visit[w]
  BY StartEffect
<1>2. row.started = tx[c].began /\ row.graph = tx[c].graph
  BY DEF NewRun
<1>3. /\ new.run = r /\ new.step = Entry[tx[c].graph]
      /\ new.entered = tx[c].began /\ new.completed = None
  BY DEF NewVisit
<1>4. \A w \in KnownVisits : visit[w].run # r
  BY <1>1 DEF Inv, Position, KnownVisits
<1> HIDE DEF row, new
<1> QED BY <1>1, <1>2, <1>3, <1>4

LEMMA DecidedFacts ==
  ASSUME Inv, NEW c \in Callers, pc[c] = "commitStep",
         NEW r, r = tx[c].run, NEW v, v = arg[c].visit, NEW row, row = ClosedVisit(c)
  PROVE  /\ v \in VisitId /\ v \in KnownVisits /\ IsOpen(visit[v]) /\ visit[v].run = r
         /\ r \in RunId /\ r \in KnownRuns /\ workflow[r].completed = None
         /\ row # None /\ row.run = r /\ row.step = visit[v].step
         /\ row.entered = visit[v].entered
         /\ row.completed = tx[c].began /\ row.completed # None
         /\ row.by = c /\ row.action = arg[c].action /\ row.action[1] = r
         /\ row.action[2] \in ActionsOf[workflow[r].graph][visit[v].step]
         /\ tx[c].graph = workflow[r].graph
         /\ Naming(c)
<1>1. /\ v \in VisitId /\ visit[v] \in VisitRow /\ IsOpen(visit[v]) /\ visit[v].run = r
      /\ r \in RunId /\ IsOpen(workflow[r]) /\ row # None /\ row.completed # None
  BY DecidedRun DEF Deciding
<1>2. /\ row.run = visit[v].run /\ row.step = visit[v].step
      /\ row.entered = visit[v].entered
      /\ row.completed = tx[c].began /\ row.by = c /\ row.action = arg[c].action
  BY <1>1 DEF ClosedVisit, VisitRow
<1>3. /\ tx[c].graph = workflow[r].graph /\ arg[c].action[1] = r
      /\ arg[c].action[2] \in ActionsOf[tx[c].graph][visit[v].step]
  BY DEF Inv, LocalsAt
<1>4. v # None /\ pc[c] \in CompletePC
  BY <1>1, EngineAssumption DEF CompletePC
<1> QED BY <1>1, <1>2, <1>3, <1>4 DEF KnownVisits, KnownRuns, IsOpen, Naming

LEMMA FinishFacts ==
  ASSUME Inv, NEW c \in Callers, Commit(c), pc[c] = "commitStep",
         NEW r, r = tx[c].run, NEW v, v = arg[c].visit,
         NEW t, t = Target[tx[c].graph][arg[c].action[2]], t \notin Steps
  PROVE  /\ workflow'[r] # None /\ \A q \in RunId : q # r => workflow'[q] = workflow[q]
         /\ workflow'[r].graph = workflow[r].graph
         /\ workflow'[r].started = workflow[r].started
         /\ workflow'[r].completed = tx[c].began /\ workflow'[r].status = t
         /\ visit'[v] = ClosedVisit(c) /\ \A w \in VisitId : w # v => visit'[w] = visit[w]
<1> DEFINE row == ClosedRun(c, t)
<1>1. /\ row # None
      /\ workflow'[r] = row /\ \A q \in RunId : q # r => workflow'[q] = workflow[q]
      /\ visit'[v] = ClosedVisit(c) /\ \A w \in VisitId : w # v => visit'[w] = visit[w]
  BY FinishEffect
<1>2. workflow[r] \in RunRow
  BY DecidedRun DEF Deciding
<1>3. /\ row.graph = workflow[r].graph /\ row.started = workflow[r].started
      /\ row.completed = tx[c].began /\ row.status = t
  BY <1>2 DEF ClosedRun, RunRow
<1> HIDE DEF row
<1> QED BY <1>1, <1>3

LEMMA RouteFacts ==
  ASSUME Inv, NEW c \in Callers, Commit(c), pc[c] = "commitStep",
         NEW r, r = tx[c].run, NEW v, v = arg[c].visit, NEW f, f = tx[c].fresh,
         NEW t, t = Target[tx[c].graph][arg[c].action[2]], t \in Steps
  PROVE  /\ workflow'[r] # None /\ \A q \in RunId : q # r => workflow'[q] = workflow[q]
         /\ workflow'[r].graph = workflow[r].graph
         /\ workflow'[r].started = workflow[r].started
         /\ workflow'[r].completed = workflow[r].completed
         /\ f \in VisitId /\ visit[f] = None /\ f # v
         /\ visit'[v] = ClosedVisit(c) /\ visit'[f] # None
         /\ \A w \in VisitId : w # v /\ w # f => visit'[w] = visit[w]
         /\ visit'[f].run = r /\ visit'[f].step = t
         /\ visit'[f].entered = tx[c].began /\ visit'[f].completed = None
<1> DEFINE row == RoutedRun(c, t)
           new == NewVisit(c, tx[c].graph, t)
<1>1. /\ row # None /\ new # None /\ f \in VisitId /\ visit[f] = None /\ f # v
      /\ workflow'[r] = row /\ \A q \in RunId : q # r => workflow'[q] = workflow[q]
      /\ visit'[v] = ClosedVisit(c) /\ visit'[f] = new
      /\ \A w \in VisitId : w # v /\ w # f => visit'[w] = visit[w]
  BY RouteEffect
<1>2. workflow[r] \in RunRow
  BY DecidedRun DEF Deciding
<1>3. /\ row.graph = workflow[r].graph /\ row.started = workflow[r].started
      /\ row.completed = workflow[r].completed
  BY <1>2 DEF RoutedRun, RunRow
<1>4. /\ new.run = r /\ new.step = t /\ new.entered = tx[c].began /\ new.completed = None
  BY DEF NewVisit
<1> HIDE DEF row, new
<1> QED BY <1>1, <1>3, <1>4

LEMMA ReassignFacts ==
  ASSUME Inv, NEW c \in Callers, ReassignStepVisit(c), ~UNCHANGED visit,
         NEW v, v = arg[c].visit
  PROVE  /\ v \in VisitId /\ IsOpen(visit[v]) /\ workflow' = workflow
         /\ visit'[v] # None /\ \A w \in VisitId : w # v => visit'[w] = visit[w]
         /\ visit'[v].run = visit[v].run /\ visit'[v].step = visit[v].step
         /\ visit'[v].entered = visit[v].entered /\ visit'[v].completed = visit[v].completed
         /\ visit'[v].action = visit[v].action
<1> DEFINE row == [visit[v] EXCEPT !.assignee = arg[c].assignee]
<1>1. /\ v \in VisitId /\ visit[v] \in VisitRow /\ IsOpen(visit[v])
      /\ row # None /\ workflow' = workflow
      /\ visit'[v] = row /\ \A w \in VisitId : w # v => visit'[w] = visit[w]
  BY ReassignEffect
<1>2. /\ row.run = visit[v].run /\ row.step = visit[v].step /\ row.entered = visit[v].entered
      /\ row.completed = visit[v].completed /\ row.action = visit[v].action
  BY <1>1 DEF VisitRow
<1> HIDE DEF row
<1> QED BY <1>1, <1>2

-----------------------------------------------------------------------------
(* The times of a call are set when it is made, and forgotten when it      *)
(* ends.                                                                   *)

\* c's decision goes on, if it does, with what it was called with.
CallKept(c) ==
  pc'[c] \in CompletePC =>
    /\ pc[c] \in CompletePC /\ arg'[c] = arg[c]
    /\ tx'[c].began = tx[c].began

LEMMA MadeCall ==
  ASSUME Inv, NEW c \in Callers, MakeCall(c)
  PROVE  /\ \A d \in Callers : d # c => CallKept(d)
         /\ clock' \in {clock, clock + 1}
         /\ \/ CallKept(c)
            \/ /\ clock' = clock + 1 /\ tx'[c].began = clock'
               /\ arg'[c].visit \in KnownVisits \cup {None}
<1>1. ASSUME NEW l, NEW a, NEW locals, Call(c, l, a, locals)
      PROVE  /\ \A d \in Callers : d # c => CallKept(d)
             /\ pc'[c] = l /\ arg'[c] = a /\ tx'[c] = locals
  BY <1>1 DEF Call, Goto, CallKept, Inv, CoreType
<1>2. ASSUME NEW p \in Pair, StartCall(c, p) \/ GetStateCall(c, p)
      PROVE  /\ \A d \in Callers : d # c => CallKept(d)
             /\ clock' \in {clock, clock + 1} /\ CallKept(c)
  <2>1. PICK l \in {"readDefinition", "getWorkflowIDBySubject"} :
          \E a, locals : Call(c, l, a, locals)
    BY <1>2 DEF StartCall, GetStateCall, TimedCall
  <2>2. clock' \in {clock, clock + 1}
    BY <1>2 DEF StartCall, GetStateCall, TimedCall
  <2>3. pc'[c] = l /\ \A d \in Callers : d # c => CallKept(d)
    BY <1>1, <2>1
  <2> QED BY <2>2, <2>3 DEF CallKept, CompletePC
<1>3. ASSUME NEW v \in KnownVisits \cup {None}, NEW x, ReassignCall(c, v, x)
      PROVE  /\ \A d \in Callers : d # c => CallKept(d)
             /\ clock' \in {clock, clock + 1} /\ CallKept(c)
  <2>1. pc'[c] = "reassignStepVisit" /\ \A d \in Callers : d # c => CallKept(d)
    BY <1>1, <1>3 DEF ReassignCall
  <2>2. clock' = clock
    BY <1>3 DEF ReassignCall
  <2> QED BY <2>1, <2>2 DEF CallKept, CompletePC
<1>4. ASSUME NEW v \in KnownVisits \cup {None}, NEW a, CompleteCall(c, v, a)
      PROVE  /\ \A d \in Callers : d # c => CallKept(d)
             /\ clock' = clock + 1 /\ tx'[c].began = clock'
             /\ arg'[c].visit \in KnownVisits \cup {None}
  <2>1. PICK w \in FreshVisits :
          TimedCall(c, "completeStepVisit", [NoArg EXCEPT !.visit = v, !.action = a],
                    [NoTx EXCEPT !.fresh = w])
    BY <1>4 DEF CompleteCall
  <2> DEFINE locals == [[NoTx EXCEPT !.fresh = w] EXCEPT !.began = clock + 1]
             given == [NoArg EXCEPT !.visit = v, !.action = a]
  <2>2. clock' = clock + 1 /\ Call(c, "completeStepVisit", given, locals)
    BY <2>1 DEF TimedCall
  <2>3. locals.began = clock + 1 /\ given.visit = v
    BY DEF NoTx, NoArg
  <2> HIDE DEF locals, given
  <2>4. /\ \A d \in Callers : d # c => CallKept(d)
        /\ arg'[c] = given /\ tx'[c] = locals
    BY <1>1, <2>2
  <2> QED BY <2>2, <2>3, <2>4
<1> QED BY <1>2, <1>3, <1>4 DEF MakeCall

LEMMA MovedOn ==
  ASSUME Inv, NEW c \in Callers, Statement(c) \/ Fail(c)
  PROVE  clock' = clock /\ \A d \in Callers : CallKept(d)
<1>1. ASSUME NEW o, Refuse(c, o) \/ End(c)
      PROVE  clock' = clock /\ \A d \in Callers : CallKept(d)
  <2>1. /\ pc' = [pc EXCEPT ![c] = "idle"] /\ clock' = clock
        /\ arg' = [arg EXCEPT ![c] = NoArg] /\ tx' = [tx EXCEPT ![c] = NoTx]
    BY <1>1 DEF Refuse, Return, End, Goto
  <2> QED BY <2>1 DEF CallKept, CompletePC, Inv, CoreType
<1>2. ASSUME NEW l, Goto(c, l), UNCHANGED <<clock, arg>>,
             \A d \in Callers : tx'[d].began = tx[d].began,
             l \in CompletePC => pc[c] \in CompletePC
      PROVE  clock' = clock /\ \A d \in Callers : CallKept(d)
  BY <1>2 DEF Goto, CallKept, Inv, CoreType
<1>3. /\ \A g : tx' = [tx EXCEPT ![c].graph = g] => \A d \in Callers : tx'[d].began = tx[d].began
      /\ \A r : tx' = [tx EXCEPT ![c].run = r] => \A d \in Callers : tx'[d].began = tx[d].began
      /\ tx' = tx => \A d \in Callers : tx'[d].began = tx[d].began
  <2>1. tx \in [Callers -> Tx]
    BY DEF Inv, CoreType
  <2>2. ASSUME NEW g, tx' = [tx EXCEPT ![c].graph = g], NEW d \in Callers
        PROVE  tx'[d].began = tx[d].began
    BY <2>1, <2>2 DEF Tx
  <2>3. ASSUME NEW r, tx' = [tx EXCEPT ![c].run = r], NEW d \in Callers
        PROVE  tx'[d].began = tx[d].began
    BY <2>1, <2>3 DEF Tx
  <2> QED BY <2>2, <2>3
<1>4. CASE ReadDefinition(c)
  BY <1>1, <1>2, <1>3, <1>4 DEF ReadDefinition, CompletePC
<1>5. CASE InsertWorkflow(c) \/ WriteSnapshot(c)
  BY <1>1, <1>2, <1>3, <1>5 DEF InsertWorkflow, WriteSnapshot, CompletePC
<1>6. CASE CompleteStepVisit(c)
  BY <1>1, <1>2, <1>3, <1>6 DEF CompleteStepVisit, CompletePC
<1>7. CASE GetActionForStep(c)
  BY <1>1, <1>2, <1>3, <1>7 DEF GetActionForStep, CompletePC
<1>8. CASE Advance(c) \/ UpdateWorkflowStatus(c)
  BY <1>2, <1>3, <1>8 DEF Advance, UpdateWorkflowStatus, CompletePC
<1>9. CASE ReassignStepVisit(c)
  BY <1>1, <1>2, <1>3, <1>9 DEF ReassignStepVisit, CompletePC
<1>10. CASE GetWorkflowIDBySubject(c)
  BY <1>1, <1>2, <1>3, <1>10 DEF GetWorkflowIDBySubject, CompletePC
<1>11. CASE Commit(c) \/ GetWorkflowState(c) \/ ReadState(c) \/ Fail(c)
  BY <1>1, <1>11 DEF Commit, GetWorkflowState, ReadState, Fail, Return
<1> QED BY <1>4, <1>5, <1>6, <1>7, <1>8, <1>9, <1>10, <1>11 DEF Statement

\* What a call knows of its visit and of the time.
LEMMA CallTimes ==
  ASSUME Inv, Times, [Next]_vars
  PROVE  /\ clock <= clock' /\ clock' \in Nat
         /\ \A c \in Callers : Naming(c)' =>
              /\ arg'[c].visit \in KnownVisits
              /\ visit[arg'[c].visit].entered < tx'[c].began
<1>1. clock \in Nat /\ \A v \in KnownVisits : visit[v].entered \in Nat /\ visit[v].entered <= clock
  BY Known DEF Times
<1>2. ASSUME NEW c \in Callers, CallKept(c), Naming(c)'
      PROVE  /\ arg'[c].visit \in KnownVisits
             /\ visit[arg'[c].visit].entered < tx'[c].began
  <2>1. Naming(c) /\ arg'[c] = arg[c] /\ tx'[c].began = tx[c].began
    BY <1>2 DEF CallKept, Naming
  <2>2. arg[c].visit \in VisitId
    BY <2>1 DEF Naming, Inv, CoreType, Arg
  <2> QED BY <2>1, <2>2 DEF Times, KnownVisits
<1>3. ASSUME NEW c \in Callers, MakeCall(c)
      PROVE  /\ clock <= clock' /\ clock' \in Nat
             /\ \A d \in Callers : Naming(d)' =>
                  /\ arg'[d].visit \in KnownVisits
                  /\ visit[arg'[d].visit].entered < tx'[d].began
  <2>1. /\ \A d \in Callers : d # c => CallKept(d)
        /\ clock' \in {clock, clock + 1}
        /\ \/ CallKept(c)
           \/ /\ clock' = clock + 1 /\ tx'[c].began = clock'
              /\ arg'[c].visit \in KnownVisits \cup {None}
    BY <1>3, MadeCall
  <2>2. clock <= clock' /\ clock' \in Nat
    BY <1>1, <2>1
  <2>3. ASSUME NEW d \in Callers, Naming(d)'
        PROVE  /\ arg'[d].visit \in KnownVisits
               /\ visit[arg'[d].visit].entered < tx'[d].began
    <3>1. CASE CallKept(d)
      BY <1>2, <2>3, <3>1
    <3>2. CASE ~CallKept(d)
      <4>1. d = c
        BY <2>1, <3>2
      <4>2. arg'[d].visit \in KnownVisits /\ tx'[d].began = clock + 1
        BY <2>1, <2>3, <3>2, <4>1 DEF Naming
      <4> QED BY <1>1, <4>2
    <3> QED BY <3>1, <3>2
  <2> QED BY <2>2, <2>3
<1>4. ASSUME NEW c \in Callers, Statement(c) \/ Fail(c)
      PROVE  clock' = clock /\ \A d \in Callers : CallKept(d)
  BY <1>4, MovedOn
<1>5. CASE UNCHANGED vars \/ \E d \in Definitions, g \in Graphs \cup {None} : EditDefinition(d, g)
  <2>1. clock' = clock /\ pc' = pc /\ arg' = arg /\ tx' = tx
    BY <1>5 DEF vars, EditDefinition
  <2>2. \A d \in Callers : CallKept(d)
    BY <2>1 DEF CallKept
  <2> QED BY <1>1, <1>2, <2>1, <2>2
<1>6. CASE \E c \in Callers : MakeCall(c) \/ Statement(c) \/ Fail(c)
  BY <1>1, <1>2, <1>3, <1>4, <1>6
<1> QED BY <1>5, <1>6 DEF Next

LEMMA TimesIf ==
  ASSUME Inv, Times, [Next]_vars,
         \A v \in KnownVisits : visit'[v] # None /\ visit'[v].entered = visit[v].entered,
         \A v \in VisitId : visit[v] = None /\ visit'[v] # None =>
           visit'[v].entered \in Nat /\ visit'[v].entered <= clock,
         (\A v, w \in KnownVisits :
            visit[v].run = visit[w].run /\ IsOpen(visit[v]) /\ w # v =>
              visit[w].entered < visit[v].entered)'
  PROVE  Times'
<1>1. /\ clock \in Nat /\ clock <= clock' /\ clock' \in Nat
      /\ \A c \in Callers : Naming(c)' =>
           /\ arg'[c].visit \in KnownVisits
           /\ visit[arg'[c].visit].entered < tx'[c].began
  BY CallTimes, Known
<1>2. \A v \in KnownVisits : visit[v].entered \in Nat /\ visit[v].entered <= clock
  BY Known DEF Times
<1>3. \A v \in KnownVisits' : visit'[v].entered <= clock'
  BY <1>1, <1>2 DEF KnownVisits
<1>4. \A c \in Callers : Naming(c)' =>
        visit'[arg'[c].visit] # None /\ visit'[arg'[c].visit].entered < tx'[c].began
  BY <1>1
<1> QED BY <1>3, <1>4 DEF Times

LEMMA TimesNext == Inv /\ Times /\ [Next]_vars => Times'
<1> SUFFICES ASSUME Inv, Times, [Next]_vars PROVE Times'
  OBVIOUS
<1>1. \A v, w \in KnownVisits :
        visit[v].run = visit[w].run /\ IsOpen(visit[v]) /\ w # v =>
          visit[w].entered < visit[v].entered
  BY DEF Times
<1>2. \A v \in KnownVisits : v \in VisitId /\ visit[v] # None /\ visit[v].entered \in Nat
  BY Known DEF KnownVisits
<1>3. clock \in Nat /\ \A c \in Callers : tx[c].began \in Nat /\ tx[c].began <= clock
  BY Known DEF Inv, OpenRuns
<1>4. CASE UNCHANGED <<workflow, visit>>
  <2>1. KnownVisits' = KnownVisits /\ visit' = visit
    BY <1>4 DEF KnownVisits
  <2>2. (\A v, w \in KnownVisits :
           visit[v].run = visit[w].run /\ IsOpen(visit[v]) /\ w # v =>
             visit[w].entered < visit[v].entered)'
    BY <1>1, <2>1 DEF IsOpen
  <2> QED BY <1>2, <2>1, <2>2, TimesIf
<1>5. ASSUME NEW c \in Callers, Commit(c), pc[c] = "commitStart"
      PROVE  Times'
  <2> DEFINE r == tx[c].run
             f == tx[c].fresh
  <2>1. /\ f \in VisitId /\ visit[f] = None
        /\ visit'[f] # None /\ \A w \in VisitId : w # f => visit'[w] = visit[w]
        /\ visit'[f].run = r /\ visit'[f].entered = tx[c].began
        /\ \A w \in KnownVisits : visit[w].run # r
    BY <1>5, StartFacts
  <2> HIDE DEF r, f
  <2>2. (\A v, w \in KnownVisits :
           visit[v].run = visit[w].run /\ IsOpen(visit[v]) /\ w # v =>
             visit[w].entered < visit[v].entered)'
    BY <1>1, <2>1 DEF IsOpen, KnownVisits
  <2> QED BY <1>2, <1>3, <2>1, <2>2, TimesIf
<1>6. ASSUME NEW c \in Callers, Commit(c), pc[c] = "commitStep"
      PROVE  Times'
  <2> DEFINE r == tx[c].run
             v == arg[c].visit
             f == tx[c].fresh
             row == ClosedVisit(c)
             t == Target[tx[c].graph][arg[c].action[2]]
  <2>1. /\ v \in VisitId /\ v \in KnownVisits /\ IsOpen(visit[v]) /\ visit[v].run = r
        /\ row # None /\ row.run = r /\ row.entered = visit[v].entered
        /\ row.completed # None /\ Naming(c)
    BY <1>6, DecidedFacts
  <2>2. visit[v].entered < tx[c].began /\ tx[c].began \in Nat /\ tx[c].began <= clock
    BY <1>3, <2>1 DEF Times
  <2>3. CASE t \notin Steps
    <3>1. visit'[v] = row /\ \A w \in VisitId : w # v => visit'[w] = visit[w]
      BY <1>6, <2>3, FinishFacts
    <3> HIDE DEF r, v, f, row, t
    <3>2. (\A x, w \in KnownVisits :
             visit[x].run = visit[w].run /\ IsOpen(visit[x]) /\ w # x =>
               visit[w].entered < visit[x].entered)'
      BY <1>1, <1>2, <2>1, <3>1 DEF IsOpen, KnownVisits
    <3> QED BY <1>2, <2>1, <3>1, <3>2, TimesIf
  <2>4. CASE t \in Steps
    <3>1. /\ f \in VisitId /\ visit[f] = None /\ f # v
          /\ visit'[v] = row /\ visit'[f] # None
          /\ \A w \in VisitId : w # v /\ w # f => visit'[w] = visit[w]
          /\ visit'[f].run = r /\ visit'[f].entered = tx[c].began
          /\ visit'[f].completed = None
      BY <1>6, <2>4, RouteFacts
    <3> HIDE DEF r, v, f, row, t
    <3>2. ASSUME NEW x \in KnownVisits', NEW w \in KnownVisits',
                 visit'[x].run = visit'[w].run, IsOpen(visit'[x]), w # x
          PROVE  visit'[w].entered < visit'[x].entered
      <4>1. x # v /\ x \in VisitId /\ w \in VisitId
        BY <2>1, <3>1, <3>2 DEF IsOpen, KnownVisits
      <4>2. CASE x = f
        <5>1. w \in KnownVisits /\ visit[w].run = r /\ visit'[w].entered = visit[w].entered
          BY <2>1, <3>1, <3>2, <4>1, <4>2 DEF KnownVisits
        <5>2. visit[w].entered <= visit[v].entered
          BY <1>1, <1>2, <2>1, <5>1
        <5> QED BY <1>2, <2>1, <2>2, <3>1, <4>2, <5>1, <5>2
      <4>3. CASE x # f
        <5>1. x \in KnownVisits /\ visit'[x] = visit[x]
          BY <3>1, <3>2, <4>1, <4>3 DEF KnownVisits
        <5>2. visit[x].run # r
          <6>1. visit[x].run = r => visit[x].entered < visit[v].entered /\ visit[v].entered < visit[x].entered
            BY <1>1, <2>1, <3>2, <4>1, <5>1
          <6> QED BY <1>2, <2>1, <5>1, <6>1
        <5>3. w # f /\ w # v
          BY <2>1, <3>1, <3>2, <5>1, <5>2
        <5>4. w \in KnownVisits /\ visit'[w] = visit[w]
          BY <3>1, <3>2, <4>1, <5>3 DEF KnownVisits
        <5> QED BY <1>1, <3>2, <5>1, <5>4
      <4> QED BY <4>2, <4>3
    <3>3. (\A x, w \in KnownVisits :
             visit[x].run = visit[w].run /\ IsOpen(visit[x]) /\ w # x =>
               visit[w].entered < visit[x].entered)'
      BY <3>2 DEF IsOpen
    <3>4. \A x \in KnownVisits : visit'[x] # None /\ visit'[x].entered = visit[x].entered
      BY <1>2, <2>1, <3>1
    <3>5. \A x \in VisitId : visit[x] = None /\ visit'[x] # None =>
            visit'[x].entered \in Nat /\ visit'[x].entered <= clock
      BY <2>1, <2>2, <3>1 DEF KnownVisits
    <3> QED BY <3>3, <3>4, <3>5, TimesIf
  <2> QED BY <2>3, <2>4
<1>7. ASSUME NEW c \in Callers, ReassignStepVisit(c), ~UNCHANGED visit
      PROVE  Times'
  <2> DEFINE v == arg[c].visit
  <2>1. /\ v \in VisitId /\ IsOpen(visit[v])
        /\ visit'[v] # None /\ \A w \in VisitId : w # v => visit'[w] = visit[w]
        /\ visit'[v].run = visit[v].run /\ visit'[v].entered = visit[v].entered
        /\ visit'[v].completed = visit[v].completed
    BY <1>7, ReassignFacts
  <2> HIDE DEF v
  <2>2. \A x \in VisitId : /\ (visit'[x] = None) = (visit[x] = None)
                           /\ visit'[x].run = visit[x].run
                           /\ visit'[x].entered = visit[x].entered
                           /\ visit'[x].completed = visit[x].completed
    BY <2>1 DEF IsOpen
  <2>3. (\A x, w \in KnownVisits :
           visit[x].run = visit[w].run /\ IsOpen(visit[x]) /\ w # x =>
             visit[w].entered < visit[x].entered)'
    BY <1>1, <2>2 DEF IsOpen, KnownVisits
  <2> QED BY <1>2, <2>2, <2>3, TimesIf
<1> QED BY <1>4, <1>5, <1>6, <1>7, WhoWrites DEF Commit

-----------------------------------------------------------------------------
(* The history is a route.                                                 *)

\* A run that no row of was changed in what the route is made of.
LEMMA SameRoute ==
  ASSUME NEW r \in RunId, RunIsARoute(r), workflow'[r] = workflow[r],
         \A v \in VisitId :
           (visit'[v] # None /\ visit'[v].run = r) = (visit[v] # None /\ visit[v].run = r),
         \A v \in VisitsOf(r) :
           /\ visit'[v].step = visit[v].step /\ visit'[v].entered = visit[v].entered
           /\ visit'[v].completed = visit[v].completed /\ visit'[v].action = visit[v].action
  PROVE  RunIsARoute(r)'
<1>1. VisitsOf(r)' = VisitsOf(r)
  BY DEF VisitsOf, KnownVisits
<1>2. ASSUME NEW v \in VisitsOf(r), LeftByItsGraph(r, v)
      PROVE  LeftByItsGraph(r, v)'
  BY <1>1, <1>2 DEF LeftByItsGraph
<1> QED BY <1>1, <1>2 DEF RunIsARoute

\* In a run that is open every decision has led on.
LEMMA OpenRoute ==
  ASSUME NEW r \in RunId, RunIsARoute(r), workflow[r].completed = None,
         NEW v \in VisitsOf(r), visit[v].completed # None
  PROVE  /\ visit[v].action[1] = r
         /\ visit[v].action[2] \in ActionsOf[workflow[r].graph][visit[v].step]
         /\ visit[v].completed >= visit[v].entered
         /\ ~IsTerminal(workflow[r].graph, visit[v].action[2])
         /\ \E w \in VisitsOf(r) :
              /\ visit[w].entered = visit[v].completed
              /\ visit[w].step = Target[workflow[r].graph][visit[v].action[2]]
              /\ \A u \in VisitsOf(r) :
                   \/ visit[u].entered <= visit[v].entered
                   \/ visit[u].entered >= visit[w].entered
<1>1. LeftByItsGraph(r, v)
  BY DEF RunIsARoute
<1>2. ~IsTerminal(workflow[r].graph, visit[v].action[2])
  BY <1>1 DEF LeftByItsGraph
<1> QED BY <1>1, <1>2 DEF LeftByItsGraph

\* ... and goes on having led on, as the run's visits get later ones.
LEMMA LeftKept ==
  ASSUME NEW r \in RunId, RunIsARoute(r), workflow[r].completed = None,
         workflow'[r].graph = workflow[r].graph,
         NEW u \in VisitsOf(r), visit[u].completed # None, visit'[u] = visit[u],
         \A w \in VisitsOf(r) : /\ w \in VisitsOf(r)'
                                /\ visit'[w].entered = visit[w].entered
                                /\ visit'[w].step = visit[w].step,
         \A w \in VisitsOf(r)' : w \in VisitsOf(r) \/
           \A x \in VisitsOf(r) : visit'[w].entered >= visit[x].entered
  PROVE  LeftByItsGraph(r, u)'
<1> DEFINE g == workflow[r].graph
           a == visit[u].action[2]
<1>1. /\ visit[u].action[1] = r /\ a \in ActionsOf[g][visit[u].step]
      /\ visit[u].completed >= visit[u].entered /\ ~IsTerminal(g, a)
  BY OpenRoute
<1>2. PICK w \in VisitsOf(r) :
        /\ visit[w].entered = visit[u].completed
        /\ visit[w].step = Target[g][a]
        /\ \A x \in VisitsOf(r) : \/ visit[x].entered <= visit[u].entered
                                  \/ visit[x].entered >= visit[w].entered
  BY OpenRoute
<1>3. /\ w \in VisitsOf(r)' /\ visit'[w].entered = visit'[u].completed
      /\ visit'[w].step = Target[g][a]
  BY <1>2
<1>4. \A x \in VisitsOf(r)' : \/ visit'[x].entered <= visit'[u].entered
                              \/ visit'[x].entered >= visit'[w].entered
  BY <1>2
<1> HIDE DEF g, a
<1>5. workflow'[r].graph = g /\ visit'[u].action[2] = a
  BY DEF g, a
<1> QED BY <1>1, <1>3, <1>4, <1>5 DEF LeftByItsGraph

\* The visits of a run whose last one is decided.
LEMMA DecidedRoute ==
  ASSUME Inv, Times, NEW c \in Callers, pc[c] = "commitStep",
         NEW r, r = tx[c].run, NEW v, v = arg[c].visit
  PROVE  /\ v \in VisitsOf(r)
         /\ visit[v].entered < tx[c].began /\ visit[v].entered \in Nat /\ tx[c].began \in Nat
         /\ \A w \in VisitsOf(r) : /\ w \in VisitId /\ w \in KnownVisits
                                   /\ visit[w].entered \in Nat
                                   /\ visit[w].entered <= visit[v].entered
                                   /\ w # v => visit[w].completed # None
<1>1. /\ v \in VisitId /\ v \in KnownVisits /\ IsOpen(visit[v]) /\ visit[v].run = r
      /\ Naming(c)
  BY DecidedFacts
<1>2. \A w \in VisitsOf(r) : w \in KnownVisits /\ visit[w].run = r
  BY DEF VisitsOf
<1>3. tx[c].began \in Nat /\ \A w \in KnownVisits : w \in VisitId /\ visit[w].entered \in Nat
  BY Known
<1>4. visit[v].entered < tx[c].began
  BY <1>1 DEF Times
<1>5. ASSUME NEW w \in VisitsOf(r), w # v
      PROVE  visit[w].entered < visit[v].entered /\ visit[w].completed # None
  <2>1. visit[w].entered < visit[v].entered
    BY <1>1, <1>2, <1>5 DEF Times
  <2>2. w \in VisitId /\ visit[w] # None /\ visit[w].run = r
    BY <1>2, <1>3 DEF KnownVisits
  <2>3. visit[w].completed # None
    BY <1>1, <1>5, <2>2 DEF Inv, Position, IsOpen
  <2> QED BY <2>1, <2>3
<1>6. v \in VisitsOf(r)
  BY <1>1 DEF VisitsOf
<1> QED BY <1>1, <1>2, <1>3, <1>4, <1>5, <1>6

LEMMA StartRoute ==
  ASSUME Inv, NEW c \in Callers, Commit(c), pc[c] = "commitStart", NEW r, r = tx[c].run
  PROVE  RunIsARoute(r)'
<1> DEFINE f == tx[c].fresh
<1>1. /\ f \in VisitId /\ visit'[f] # None /\ visit'[f].run = r
      /\ \A w \in VisitId : w # f => visit'[w] = visit[w]
      /\ workflow'[r].started = tx[c].began
      /\ visit'[f].step = Entry[workflow'[r].graph]
      /\ visit'[f].entered = tx[c].began /\ visit'[f].completed = None
      /\ \A w \in KnownVisits : visit[w].run # r
  BY StartFacts
<1>2. tx[c].began \in Nat
  BY Known
<1> HIDE DEF f
<1>3. VisitsOf(r)' = {f}
  BY <1>1 DEF VisitsOf, KnownVisits
<1> QED BY <1>1, <1>2, <1>3 DEF RunIsARoute

LEMMA FinishRoute ==
  ASSUME Inv, Times, NEW c \in Callers, Commit(c), pc[c] = "commitStep",
         NEW r, r = tx[c].run, RunIsARoute(r), NEW v, v = arg[c].visit,
         NEW t, t = Target[tx[c].graph][arg[c].action[2]], t \notin Steps
  PROVE  RunIsARoute(r)'
<1>0. PICK a, g, row :
        a = arg[c].action[2] /\ g = workflow[r].graph /\ row = ClosedVisit(c)
  OBVIOUS
<1>1. /\ v \in VisitId /\ visit[v].run = r /\ r \in RunId /\ workflow[r].completed = None
      /\ row # None /\ row.run = r /\ row.step = visit[v].step
      /\ row.entered = visit[v].entered /\ row.completed = tx[c].began
      /\ row.action[1] = r /\ row.action[2] = a /\ a \in ActionsOf[g][visit[v].step]
      /\ tx[c].graph = g /\ t = Target[g][a]
  <2>1. /\ v \in VisitId /\ v \in KnownVisits /\ IsOpen(visit[v]) /\ visit[v].run = r
        /\ r \in RunId /\ r \in KnownRuns /\ workflow[r].completed = None
        /\ row # None /\ row.run = r /\ row.step = visit[v].step
        /\ row.entered = visit[v].entered
        /\ row.completed = tx[c].began /\ row.completed # None
        /\ row.by = c /\ row.action = arg[c].action /\ row.action[1] = r
        /\ row.action[2] \in ActionsOf[workflow[r].graph][visit[v].step]
        /\ tx[c].graph = workflow[r].graph
        /\ Naming(c)
    BY <1>0, DecidedFacts
  <2> QED BY <1>0, <2>1
<1>2. /\ workflow'[r].graph = g /\ workflow'[r].started = workflow[r].started
      /\ workflow'[r].completed = tx[c].began /\ workflow'[r].status = t
      /\ visit'[v] = row /\ \A w \in VisitId : w # v => visit'[w] = visit[w]
  BY <1>0, FinishFacts
<1>3. /\ v \in VisitsOf(r)
      /\ visit[v].entered < tx[c].began /\ visit[v].entered \in Nat /\ tx[c].began \in Nat
      /\ \A w \in VisitsOf(r) : /\ w \in VisitId /\ w \in KnownVisits
                                /\ visit[w].entered \in Nat
                                /\ visit[w].entered <= visit[v].entered
                                /\ w # v => visit[w].completed # None
  BY DecidedRoute
<1>4. VisitsOf(r)' = VisitsOf(r)
  BY <1>1, <1>2, <1>3 DEF VisitsOf, KnownVisits
<1>5. \A w \in VisitsOf(r) : /\ visit'[w].entered = visit[w].entered
                             /\ visit'[w].step = visit[w].step
  BY <1>1, <1>2, <1>3
<1>6. LeftByItsGraph(r, v)'
  <2>1. /\ workflow'[r].graph = g /\ visit'[v].action[2] = a /\ visit'[v].action[1] = r
        /\ a \in ActionsOf[g][visit'[v].step]
        /\ visit'[v].completed >= visit'[v].entered
    BY <1>1, <1>2, <1>3
  <2>2. IsTerminal(g, a)
    BY <1>1 DEF IsTerminal
  <2>3. /\ workflow'[r].completed = visit'[v].completed /\ workflow'[r].status = Target[g][a]
        /\ \A w \in VisitsOf(r)' : visit'[w].entered <= visit'[v].entered
    BY <1>1, <1>2, <1>3, <1>4, <1>5
  <2> QED BY <2>1, <2>2, <2>3 DEF LeftByItsGraph
<1>7. ASSUME NEW u \in VisitsOf(r), u # v
      PROVE  LeftByItsGraph(r, u)'
  <2>1. visit[u].completed # None /\ visit'[u] = visit[u]
    BY <1>2, <1>3, <1>7
  <2>2. /\ workflow'[r].graph = workflow[r].graph
        /\ \A w \in VisitsOf(r)' : w \in VisitsOf(r)
        /\ \A w \in VisitsOf(r) : /\ w \in VisitsOf(r)'
                                   /\ visit'[w].entered = visit[w].entered
                                   /\ visit'[w].step = visit[w].step
    BY <1>0, <1>2, <1>4, <1>5
  <2> QED BY <1>1, <2>1, <2>2, LeftKept
<1>8. (\A x, w \in VisitsOf(r) : visit[x].entered = visit[w].entered => x = w)'
  <2>1. \A x, w \in VisitsOf(r) : visit[x].entered = visit[w].entered => x = w
    BY DEF RunIsARoute
  <2> QED BY <1>4, <1>5, <2>1
<1>9. (\E x \in VisitsOf(r) : /\ visit[x].entered = workflow[r].started
                              /\ visit[x].step = Entry[workflow[r].graph])'
  <2>1. PICK x \in VisitsOf(r) : /\ visit[x].entered = workflow[r].started
                                /\ visit[x].step = Entry[workflow[r].graph]
    BY DEF RunIsARoute
  <2>2. visit'[x].entered = workflow'[r].started /\ visit'[x].step = Entry[workflow'[r].graph]
    BY <1>0, <1>2, <1>5, <2>1
  <2> QED BY <1>4, <2>1, <2>2
<1>10. ASSUME NEW x \in VisitsOf(r)'
       PROVE  /\ visit'[x].entered >= workflow'[r].started
              /\ visit'[x].completed # None => LeftByItsGraph(r, x)'
  <2>1. visit[x].entered >= workflow[r].started
    BY <1>4, <1>10 DEF RunIsARoute
  <2> QED BY <1>2, <1>4, <1>5, <1>6, <1>7, <2>1
<1> QED BY <1>8, <1>9, <1>10 DEF RunIsARoute

LEMMA RouteRoute ==
  ASSUME Inv, Times, NEW c \in Callers, Commit(c), pc[c] = "commitStep",
         NEW r, r = tx[c].run, RunIsARoute(r), NEW v, v = arg[c].visit,
         NEW f, f = tx[c].fresh,
         NEW t, t = Target[tx[c].graph][arg[c].action[2]], t \in Steps
  PROVE  RunIsARoute(r)'
<1>0. PICK a, g, row :
        a = arg[c].action[2] /\ g = workflow[r].graph /\ row = ClosedVisit(c)
  OBVIOUS
<1>1. /\ v \in VisitId /\ visit[v].run = r /\ r \in RunId /\ workflow[r].completed = None
      /\ r \in KnownRuns
      /\ row # None /\ row.run = r /\ row.step = visit[v].step
      /\ row.entered = visit[v].entered /\ row.completed = tx[c].began
      /\ row.action[1] = r /\ row.action[2] = a /\ a \in ActionsOf[g][visit[v].step]
      /\ tx[c].graph = g /\ t = Target[g][a]
  <2>1. /\ v \in VisitId /\ v \in KnownVisits /\ IsOpen(visit[v]) /\ visit[v].run = r
        /\ r \in RunId /\ r \in KnownRuns /\ workflow[r].completed = None
        /\ row # None /\ row.run = r /\ row.step = visit[v].step
        /\ row.entered = visit[v].entered
        /\ row.completed = tx[c].began /\ row.completed # None
        /\ row.by = c /\ row.action = arg[c].action /\ row.action[1] = r
        /\ row.action[2] \in ActionsOf[workflow[r].graph][visit[v].step]
        /\ tx[c].graph = workflow[r].graph
        /\ Naming(c)
    BY <1>0, DecidedFacts
  <2> QED BY <1>0, <2>1
<1>2. /\ workflow'[r].graph = g /\ workflow'[r].started = workflow[r].started
      /\ f \in VisitId /\ visit[f] = None /\ f # v /\ visit'[f] # None
      /\ visit'[v] = row /\ \A w \in VisitId : w # v /\ w # f => visit'[w] = visit[w]
      /\ visit'[f].run = r /\ visit'[f].step = t
      /\ visit'[f].entered = tx[c].began /\ visit'[f].completed = None
  BY <1>0, RouteFacts
<1>3. /\ v \in VisitsOf(r)
      /\ visit[v].entered < tx[c].began /\ visit[v].entered \in Nat /\ tx[c].began \in Nat
      /\ \A w \in VisitsOf(r) : /\ w \in VisitId /\ w \in KnownVisits
                                /\ visit[w].entered \in Nat
                                /\ visit[w].entered <= visit[v].entered
                                /\ w # v => visit[w].completed # None
  BY DecidedRoute
<1>4. workflow[r].started \in Nat
  BY <1>1, Known
<1>5. f \notin VisitsOf(r) /\ VisitsOf(r)' = VisitsOf(r) \cup {f}
  BY <1>1, <1>2, <1>3 DEF VisitsOf, KnownVisits
<1>6. \A w \in VisitsOf(r) : /\ visit'[w].entered = visit[w].entered
                             /\ visit'[w].step = visit[w].step
                             /\ visit[w].entered < tx[c].began
  BY <1>1, <1>2, <1>3, <1>5
<1>7. LeftByItsGraph(r, v)'
  <2>1. /\ workflow'[r].graph = g /\ visit'[v].action[2] = a /\ visit'[v].action[1] = r
        /\ a \in ActionsOf[g][visit'[v].step]
        /\ visit'[v].completed >= visit'[v].entered
    BY <1>1, <1>2, <1>3
  <2>2. ~IsTerminal(g, a)
    BY <1>1 DEF IsTerminal
  <2>3. /\ f \in VisitsOf(r)' /\ visit'[f].entered = visit'[v].completed
        /\ visit'[f].step = Target[g][a]
    BY <1>1, <1>2, <1>5
  <2>4. \A u \in VisitsOf(r)' : \/ visit'[u].entered <= visit'[v].entered
                                \/ visit'[u].entered >= visit'[f].entered
    BY <1>2, <1>3, <1>5, <1>6
  <2> QED BY <2>1, <2>2, <2>3, <2>4 DEF LeftByItsGraph
<1>8. ASSUME NEW u \in VisitsOf(r), u # v
      PROVE  LeftByItsGraph(r, u)'
  <2>1. visit[u].completed # None /\ visit'[u] = visit[u]
    BY <1>2, <1>3, <1>5, <1>8
  <2>2. \A w \in VisitsOf(r)' : w \in VisitsOf(r) \/
          \A x \in VisitsOf(r) : visit'[w].entered >= visit[x].entered
    BY <1>2, <1>3, <1>5, <1>6
  <2>3. /\ workflow'[r].graph = workflow[r].graph
        /\ \A w \in VisitsOf(r) : /\ w \in VisitsOf(r)'
                                   /\ visit'[w].entered = visit[w].entered
                                   /\ visit'[w].step = visit[w].step
    BY <1>0, <1>2, <1>5, <1>6
  <2> QED BY <1>1, <2>1, <2>2, <2>3, LeftKept
<1>9. (\A x, w \in VisitsOf(r) : visit[x].entered = visit[w].entered => x = w)'
  <2>1. \A x, w \in VisitsOf(r) : visit[x].entered = visit[w].entered => x = w
    BY DEF RunIsARoute
  <2>2. \A w \in VisitsOf(r) : visit'[w].entered # visit'[f].entered
    BY <1>2, <1>3, <1>6
  <2> QED BY <1>5, <1>6, <2>1, <2>2
<1>10. (\E x \in VisitsOf(r) : /\ visit[x].entered = workflow[r].started
                               /\ visit[x].step = Entry[workflow[r].graph])'
  <2>1. PICK x \in VisitsOf(r) : /\ visit[x].entered = workflow[r].started
                                /\ visit[x].step = Entry[workflow[r].graph]
    BY DEF RunIsARoute
  <2>2. x \in VisitsOf(r)'
    BY <1>5, <2>1
  <2>3. visit'[x].entered = workflow'[r].started /\ visit'[x].step = Entry[workflow'[r].graph]
    BY <1>0, <1>2, <1>6, <2>1
  <2> QED BY <2>2, <2>3
<1>11. \A x \in VisitsOf(r) : visit[x].entered >= workflow[r].started
  BY DEF RunIsARoute
<1>12. ASSUME NEW x \in VisitsOf(r)'
       PROVE  /\ visit'[x].entered >= workflow'[r].started
              /\ visit'[x].completed # None => LeftByItsGraph(r, x)'
  <2>1. CASE x = f
    <3>1. tx[c].began >= workflow[r].started
      BY <1>3, <1>4, <1>11
    <3> QED BY <1>2, <2>1, <3>1
  <2>2. CASE x = v
    BY <1>2, <1>3, <1>6, <1>7, <1>11, <2>2
  <2>3. CASE x \in VisitsOf(r) /\ x # v
    BY <1>2, <1>6, <1>8, <1>11, <2>3
  <2> QED BY <1>3, <1>5, <1>12, <2>1, <2>2, <2>3
<1> QED BY <1>9, <1>10, <1>12 DEF RunIsARoute

LEMMA RouteNext == Inv /\ Times /\ HistoryIsARoute /\ [Next]_vars => HistoryIsARoute'
<1> SUFFICES ASSUME Inv, Times, HistoryIsARoute, [Next]_vars,
                    NEW r \in KnownRuns'
             PROVE  RunIsARoute(r)'
  BY RoutesOfRuns
<1>1. r \in RunId /\ (r \in KnownRuns => RunIsARoute(r))
  BY RoutesOfRuns DEF KnownRuns
<1>2. CASE UNCHANGED <<workflow, visit>>
  <2>1. r \in KnownRuns
    BY <1>2 DEF KnownRuns
  <2> QED BY <1>1, <1>2, <2>1, SameRoute
<1>3. ASSUME NEW c \in Callers, Commit(c), pc[c] = "commitStart"
      PROVE  RunIsARoute(r)'
  <2>1. CASE r = tx[c].run
    BY <1>3, <2>1, StartRoute
  <2>2. CASE r # tx[c].run
    <3> DEFINE f == tx[c].fresh
    <3>1. /\ f \in VisitId /\ visit[f] = None /\ visit'[f].run # r
          /\ \A w \in VisitId : w # f => visit'[w] = visit[w]
          /\ workflow'[r] = workflow[r]
      BY <1>1, <1>3, <2>2, StartFacts
    <3> HIDE DEF f
    <3>2. r \in KnownRuns
      BY <3>1 DEF KnownRuns
    <3>3. \A v \in VisitsOf(r) : v \in VisitId /\ visit[v] # None
      BY DEF VisitsOf, KnownVisits
    <3> QED BY <1>1, <3>1, <3>2, <3>3, SameRoute
  <2> QED BY <2>1, <2>2
<1>4. ASSUME NEW c \in Callers, Commit(c), pc[c] = "commitStep"
      PROVE  RunIsARoute(r)'
  <2> DEFINE v == arg[c].visit
             f == tx[c].fresh
  <2>1. /\ v \in VisitId /\ visit[v].run = tx[c].run /\ tx[c].run \in KnownRuns
        /\ ClosedVisit(c).run = tx[c].run
    BY <1>4, DecidedFacts
  <2>2. CASE r = tx[c].run
    BY <1>1, <1>4, <2>1, <2>2, FinishRoute, RouteRoute
  <2>3. CASE r # tx[c].run
    <3>1. /\ workflow'[r] = workflow[r] /\ visit'[v].run = tx[c].run
          /\ \A w \in VisitId : w # v /\ visit[w] # None => visit'[w] = visit[w]
          /\ \A w \in VisitId : visit[w] = None /\ visit'[w] # None => visit'[w].run # r
      <4>1. CASE Target[tx[c].graph][arg[c].action[2]] \notin Steps
        BY <1>1, <1>4, <2>1, <2>3, <4>1, FinishFacts
      <4>2. CASE Target[tx[c].graph][arg[c].action[2]] \in Steps
        <5>1. /\ visit'[v] = ClosedVisit(c) /\ visit'[f].run = tx[c].run
              /\ visit[f] = None
              /\ \A q \in RunId : q # tx[c].run => workflow'[q] = workflow[q]
              /\ \A w \in VisitId : w # v /\ w # f => visit'[w] = visit[w]
          BY <1>4, <4>2, RouteFacts
        <5> HIDE DEF v, f
        <5> QED BY <1>1, <2>1, <2>3, <5>1
      <4> QED BY <4>1, <4>2
    <3> HIDE DEF v, f
    <3>2. r \in KnownRuns
      BY <3>1 DEF KnownRuns
    <3>3. \A w \in VisitsOf(r) : w \in VisitId /\ visit[w] # None /\ w # v
      BY <2>1, <2>3 DEF VisitsOf, KnownVisits
    <3>4. ASSUME NEW w \in VisitId
          PROVE  (visit'[w] # None /\ visit'[w].run = r) = (visit[w] # None /\ visit[w].run = r)
      BY <2>1, <2>3, <3>1
    <3> QED BY <1>1, <3>1, <3>2, <3>3, <3>4, SameRoute
  <2> QED BY <2>2, <2>3
<1>5. ASSUME NEW c \in Callers, ReassignStepVisit(c), ~UNCHANGED visit
      PROVE  RunIsARoute(r)'
  <2> DEFINE v == arg[c].visit
  <2>1. /\ v \in VisitId /\ IsOpen(visit[v]) /\ workflow' = workflow
        /\ visit'[v] # None /\ \A w \in VisitId : w # v => visit'[w] = visit[w]
        /\ visit'[v].run = visit[v].run /\ visit'[v].step = visit[v].step
        /\ visit'[v].entered = visit[v].entered /\ visit'[v].completed = visit[v].completed
        /\ visit'[v].action = visit[v].action
    BY <1>5, ReassignFacts
  <2> HIDE DEF v
  <2>2. r \in KnownRuns
    BY <2>1 DEF KnownRuns
  <2>3. \A w \in VisitsOf(r) : w \in VisitId
    BY DEF VisitsOf, KnownVisits
  <2>4. ASSUME NEW w \in VisitId
        PROVE  (visit'[w] # None /\ visit'[w].run = r) = (visit[w] # None /\ visit[w].run = r)
    BY <2>1 DEF IsOpen
  <2> QED BY <1>1, <2>1, <2>2, <2>3, <2>4, SameRoute
<1> QED BY <1>2, <1>3, <1>4, <1>5, WhoWrites DEF Commit

LEMMA TimesAlways == Spec => []Times
<1>1. Init => Times
  BY DEF Init, Times, Naming, KnownVisits, NoVisits, CompletePC
<1> QED BY <1>1, TimesNext, Invariance, PTL DEF Spec

\* The visits of every run are a walk through the graph it froze when it started.
THEOREM HistoryIsARouteHolds == Spec => []HistoryIsARoute
<1>1. Init => HistoryIsARoute
  BY DEF Init, HistoryIsARoute, KnownRuns, NoRuns
<1> QED BY <1>1, RouteNext, TimesAlways, Invariance, PTL DEF Spec

-----------------------------------------------------------------------------
(* What a commit installs passes the constraints.                          *)

\* A transaction has written only the row of its run, ...
LEMMA OwnRun ==
  ASSUME Inv, NEW c \in Callers, NEW r \in RunId, wrun[c][r] # None
  PROVE  r = tx[c].run /\ (Starting(c) \/ pc[c] = "commitStep")
<1>1. Writes(c)
  BY DEF Inv
<1>2. CASE Starting(c)
  BY <1>1, <1>2 DEF Writes, NoRuns
<1>3. CASE pc[c] = "commitStep"
  <2>1. \E row : wrun[c] = [NoRuns EXCEPT ![tx[c].run] = row]
    BY <1>1, <1>3 DEF Writes
  <2> QED BY <1>3, <2>1 DEF NoRuns
<1>4. CASE ~Starting(c) /\ pc[c] # "commitStep"
  <2>1. wrun[c] = NoRuns
    BY <1>1, <1>4 DEF Writes, Deciding
  <2> QED BY <2>1 DEF NoRuns
<1> QED BY <1>2, <1>3, <1>4

\* ... of the visit it decides and of the visit it made up.
LEMMA OwnVisits ==
  ASSUME Inv, NEW c \in Callers, NEW v \in VisitId, wvis[c][v] # None
  PROVE  \/ /\ Deciding(c) /\ v = arg[c].visit /\ wvis[c][v] = ClosedVisit(c)
         \/ /\ v = tx[c].fresh /\ visit[v] = None /\ wvis[c][v].completed = None
            /\ pc[c] \in {"commitStart", "updateWorkflowStatus", "commitStep"}
<1>1. Writes(c) /\ (tx[c].fresh # None => visit[tx[c].fresh] = None) /\ v # None
  BY EngineAssumption DEF Inv, LocalsAt
<1>2. CASE pc[c] = "commitStart"
  <2> DEFINE new == NewVisit(c, tx[c].graph, Entry[tx[c].graph])
  <2>1. wvis[c] = [NoVisits EXCEPT ![tx[c].fresh] = new]
    BY <1>1, <1>2 DEF Writes
  <2>2. new.completed = None
    BY DEF NewVisit
  <2> HIDE DEF new
  <2>3. v = tx[c].fresh /\ wvis[c][v] = new
    BY <2>1 DEF NoVisits
  <2> QED BY <1>1, <1>2, <2>2, <2>3
<1>3. CASE pc[c] \in {"getActionForStep", "advance"}
  <2>1. wvis[c] = [NoVisits EXCEPT ![arg[c].visit] = ClosedVisit(c)]
    BY <1>1, <1>3 DEF Writes
  <2>2. v = arg[c].visit /\ wvis[c][v] = ClosedVisit(c)
    BY <2>1 DEF NoVisits
  <2> QED BY <1>3, <2>2 DEF Deciding
<1>4. CASE pc[c] \in {"updateWorkflowStatus", "commitStep"}
  <2> DEFINE t == Target[tx[c].graph][arg[c].action[2]]
             new == NewVisit(c, tx[c].graph, t)
  <2>1. \/ wvis[c] = [NoVisits EXCEPT ![arg[c].visit] = ClosedVisit(c)]
        \/ wvis[c] = [NoVisits EXCEPT ![arg[c].visit] = ClosedVisit(c),
                                      ![tx[c].fresh] = new]
    BY <1>1, <1>4 DEF Writes
  <2>2. new.completed = None
    BY DEF NewVisit
  <2> HIDE DEF t, new
  <2>3. \/ v = arg[c].visit /\ wvis[c][v] = ClosedVisit(c)
        \/ v = tx[c].fresh /\ wvis[c][v] = new
    BY <2>1 DEF NoVisits
  <2> QED BY <1>1, <1>4, <2>2, <2>3 DEF Deciding
<1>5. CASE pc[c] = "writeSnapshot" \/ (~Starting(c) /\ ~Deciding(c))
  <2>1. wvis[c] = NoVisits
    BY <1>1, <1>5 DEF Writes
  <2> QED BY <2>1 DEF NoVisits
<1> QED BY <1>2, <1>3, <1>4, <1>5 DEF Starting, Deciding

\* No two transactions have written the same row.
LEMMA Apart ==
  ASSUME Inv, NEW c \in Callers, NEW d \in Callers \ {c}
  PROVE  /\ \A r \in RunId : wrun[c][r] # None => wrun[d][r] = None
         /\ \A v \in VisitId : wvis[c][v] # None => wvis[d][v] = None
<1>1. Deciding(c) /\ Deciding(d) => arg[c].visit # arg[d].visit
  BY DEF Inv, Locks
<1>2. /\ tx[c].fresh # None => tx[d].fresh # tx[c].fresh
      /\ pc[c] \in StartPC => tx[d].run # tx[c].run
      /\ pc[d] \in StartPC => tx[c].run # tx[d].run
  BY DEF Inv, Fresh
<1>3. ASSUME NEW r \in RunId, wrun[c][r] # None, wrun[d][r] # None
      PROVE  FALSE
  <2>1. /\ r = tx[c].run /\ (Starting(c) \/ pc[c] = "commitStep")
        /\ r = tx[d].run /\ (Starting(d) \/ pc[d] = "commitStep")
    BY <1>3, OwnRun
  <2>2. pc[c] = "commitStep" /\ pc[d] = "commitStep"
    BY <1>2, <2>1 DEF Starting, StartPC
  <2>3. /\ arg[c].visit \in VisitId /\ IsOpen(visit[arg[c].visit])
        /\ arg[d].visit \in VisitId /\ IsOpen(visit[arg[d].visit])
        /\ visit[arg[c].visit].run = visit[arg[d].visit].run
    BY <2>1, <2>2, DecidedRun DEF Deciding
  <2>4. arg[c].visit = arg[d].visit
    BY <2>3 DEF Inv, Position
  <2> QED BY <1>1, <2>2, <2>4 DEF Deciding
<1>4. ASSUME NEW v \in VisitId, wvis[c][v] # None, wvis[d][v] # None
      PROVE  FALSE
  <2>1. /\ Deciding(c) => visit[arg[c].visit] # None
        /\ Deciding(d) => visit[arg[d].visit] # None
    BY DecidedRun DEF IsOpen
  <2>2. /\ (Deciding(c) /\ v = arg[c].visit) \/ (v = tx[c].fresh /\ visit[v] = None)
        /\ (Deciding(d) /\ v = arg[d].visit) \/ (v = tx[d].fresh /\ visit[v] = None)
    BY <1>4, OwnVisits
  <2>3. v # None
    BY EngineAssumption
  <2> QED BY <1>1, <1>2, <2>1, <2>2, <2>3
<1> QED BY <1>3, <1>4

\* The run c commits has one open visit at most.
LEMMA OneOpenVisit ==
  ASSUME Inv, NEW c \in Callers, pc[c] \in {"commitStart", "commitStep"},
         NEW v \in OpenVisitsIn(TxVisit(c), tx[c].run),
         NEW w \in OpenVisitsIn(TxVisit(c), tx[c].run)
  PROVE  v = w
<1>1. ASSUME NEW x \in OpenVisitsIn(TxVisit(c), tx[c].run)
      PROVE  x = tx[c].fresh
  <2>1. /\ x \in VisitId /\ IsOpen(TxVisit(c)[x]) /\ TxVisit(c)[x].run = tx[c].run
        /\ TxVisit(c)[x] = IF wvis[c][x] = None THEN visit[x] ELSE wvis[c][x]
    BY DEF OpenVisitsIn, TxVisit, Overlay, Inv, CoreType
  <2>2. CASE wvis[c][x] = None
    <3>1. IsOpen(visit[x]) /\ visit[x].run = tx[c].run
      BY <2>1, <2>2
    <3>2. CASE pc[c] = "commitStart"
      <4>1. tx[c].run \in RunId /\ workflow[tx[c].run] = None
        BY <3>2 DEF Inv, LocalsAt, StartPC
      <4> QED BY <2>1, <3>1, <4>1 DEF Inv, Position, IsOpen
    <3>3. CASE pc[c] = "commitStep"
      <4>1. /\ Deciding(c) /\ arg[c].visit \in VisitId /\ IsOpen(visit[arg[c].visit])
            /\ visit[arg[c].visit].run = tx[c].run
        BY <3>3, DecidedRun DEF Deciding
      <4>2. x = arg[c].visit
        BY <2>1, <3>1, <4>1 DEF Inv, Position
      <4> QED BY <2>2, <4>1, <4>2, HeldRows
    <3> QED BY <3>2, <3>3
  <2>3. CASE wvis[c][x] # None
    <3>1. wvis[c][x].completed = None
      BY <2>1, <2>3 DEF IsOpen
    <3>2. Deciding(c) => ClosedVisit(c).completed # None
      BY DecidedRun
    <3> QED BY <2>1, <2>3, <3>1, <3>2, OwnVisits
  <2> QED BY <2>2, <2>3
<1> QED BY <1>1

\* A call has one lock to wait for at most, and takes it first: no transaction that
\* holds a row waits for another's, so no set of callers can wait in a circle.
THEOREM NoHoldAndWaitHolds == Spec => []NoHoldAndWait
<1>1. ASSUME Inv, NEW c \in Callers, Holds(c), Waits(c) PROVE FALSE
  <2>1. Starting(c) \/ Deciding(c)
    BY <1>1 DEF Inv, Writes, Holds
  <2>2. pc[c] \in {"advance", "updateWorkflowStatus"} /\ RunLocked(c, tx[c].run)
    BY <1>1, <2>1 DEF Waits, Starting, Deciding
  <2>3. PICK d \in Callers \ {c} : wrun[d][tx[c].run] # None
    BY <2>2 DEF RunLocked
  <2>4. /\ tx[c].run \in RunId /\ IsOpen(workflow[tx[c].run])
        /\ arg[c].visit \in VisitId /\ IsOpen(visit[arg[c].visit])
        /\ visit[arg[c].visit].run = tx[c].run
    BY <1>1, <2>2, DecidedRun DEF Deciding
  <2>5. tx[d].run = tx[c].run /\ (Starting(d) \/ pc[d] = "commitStep")
    BY <1>1, <2>3, <2>4, OwnRun
  <2>6. CASE Starting(d)
    <3>1. workflow[tx[d].run] = None
      BY <1>1, <2>6 DEF Inv, LocalsAt, Starting, StartPC
    <3> QED BY <2>4, <2>5, <3>1 DEF IsOpen
  <2>7. CASE pc[d] = "commitStep"
    <3>1. /\ arg[d].visit \in VisitId /\ IsOpen(visit[arg[d].visit])
          /\ visit[arg[d].visit].run = tx[c].run
      BY <1>1, <2>5, <2>7, DecidedRun DEF Deciding
    <3>2. arg[d].visit = arg[c].visit
      BY <1>1, <2>4, <3>1 DEF Inv, Position
    <3> QED BY <1>1, <2>2, <2>7, <3>2 DEF Inv, Locks, Deciding
  <2> QED BY <2>5, <2>6, <2>7
<1>2. Inv => NoHoldAndWait
  BY <1>1 DEF NoHoldAndWait
<1> QED BY <1>2, Invariance, PTL

\* A commit is never refused by a constraint the model leaves to the database.
THEOREM ConstraintsNeverRefuseHolds == Spec => []ConstraintsNeverRefuse
<1>1. ASSUME Inv, Times PROVE ConstraintsNeverRefuse
  <2>1. ASSUME NEW c \in Callers, pc[c] \in {"commitStart", "commitStep"},
               NEW v \in VisitId, wvis[c][v] # None, wvis[c][v].completed # None
        PROVE  /\ wvis[c][v].action[1] = wvis[c][v].run
               /\ wvis[c][v].action[2]
                    \in ActionsOf[workflow[wvis[c][v].run].graph][wvis[c][v].step]
               /\ wvis[c][v].completed >= wvis[c][v].entered
    <3>1. Deciding(c) /\ v = arg[c].visit /\ wvis[c][v] = ClosedVisit(c)
      BY <1>1, <2>1, OwnVisits
    <3>2. pc[c] = "commitStep"
      BY <2>1, <3>1 DEF Deciding
    <3> DEFINE row == ClosedVisit(c)
    <3>3. /\ row.run = tx[c].run /\ row.step = visit[v].step
          /\ row.entered = visit[v].entered /\ row.completed = tx[c].began
          /\ row.action[1] = tx[c].run
          /\ row.action[2] \in ActionsOf[workflow[tx[c].run].graph][visit[v].step]
          /\ v \in KnownVisits /\ Naming(c)
      BY <1>1, <3>1, <3>2, DecidedFacts
    <3>4. /\ visit[v].entered < tx[c].began
          /\ visit[v].entered \in Nat /\ tx[c].began \in Nat
      BY <1>1, <3>1, <3>3, Known DEF Times
    <3> HIDE DEF row
    <3>5. wvis[c][v] = row
      BY <3>1 DEF row
    <3> QED BY <3>3, <3>4, <3>5
  <2> QED BY <1>1, <2>1, Apart, OneOpenVisit DEF ConstraintsNeverRefuse
<1> QED BY <1>1, TimesAlways, Invariance, PTL
=============================================================================
