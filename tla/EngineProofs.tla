---------------------------- MODULE EngineProofs ----------------------------
(***************************************************************************)
(* Proofs about the Engine, for every number of callers, runs and visits   *)
(* and for every set of graphs.                                            *)
(*                                                                         *)
(* Inv is inductive. Its heart is Writes: what an open transaction has     *)
(* written is a function of its call and of committed rows, and Locks and  *)
(* Fresh: no two transactions write the same row. Together they make every *)
(* commit a step of one run that nobody else is touching.                  *)
(***************************************************************************)
EXTENDS Engine, TLAPS, WellFoundedInduction, NaturalsInduction

\* c's Start has inserted its workflow row, and has not committed it.
Starting(c) == pc[c] \in {"writeSnapshot", "commitStart"}

\* c's CompleteStep has closed its visit, and has not committed that.
Deciding(c) ==
  pc[c] \in {"getActionForStep", "advance", "updateWorkflowStatus", "commitStep"}

\* The row CompleteStep leaves of the visit it closes.
ClosedVisit(c) ==
  [visit[arg[c].visit] EXCEPT !.completed = tx[c].began,
                              !.by = c, !.action = arg[c].action]

\* The types of what a step can depend on: all but the answers.
CoreType ==
  /\ definition \in [Definitions -> Graphs \cup {None}]
  /\ workflow \in [RunId -> RunRow \cup {None}]
  /\ visit \in [VisitId -> VisitRow \cup {None}]
  /\ clock \in Nat
  /\ pc \in [Callers -> PC]
  /\ arg \in [Callers -> Arg]
  /\ tx \in [Callers -> Tx]
  /\ wrun \in [Callers -> [RunId -> RunRow \cup {None}]]
  /\ wvis \in [Callers -> [VisitId -> VisitRow \cup {None}]]

\* The parameters and locals a call has at each of its statements.
LocalsAt(c) ==
  /\ pc[c] \in StartPC =>
       /\ arg[c].pair \in Pair
       /\ tx[c].run \in RunId /\ workflow[tx[c].run] = None
       /\ tx[c].fresh \in VisitId
  /\ pc[c] \in {"insertWorkflow", "writeSnapshot", "commitStart"} =>
       tx[c].graph \in Graphs /\ Entry[tx[c].graph] \in Steps
  /\ pc[c] \in CompletePC =>
       arg[c].action \in ActionId /\ tx[c].fresh \in VisitId
  /\ Deciding(c) =>
       /\ arg[c].visit \in VisitId /\ IsOpen(visit[arg[c].visit])
       /\ tx[c].run = visit[arg[c].visit].run
  /\ pc[c] \in {"advance", "updateWorkflowStatus", "commitStep"} =>
       /\ tx[c].graph = workflow[tx[c].run].graph
       /\ arg[c].action[1] = tx[c].run
       /\ arg[c].action[2] \in ActionsOf[tx[c].graph][visit[arg[c].visit].step]
  /\ pc[c] \in {"getWorkflowState", "readState"} =>
       tx[c].run \in RunId /\ workflow[tx[c].run] # None
  /\ tx[c].fresh # None => tx[c].fresh \in VisitId /\ visit[tx[c].fresh] = None
  /\ pc[c] = "getWorkflowIDBySubject" => arg[c].pair \in Pair
  /\ pc[c] = "reassignStepVisit" => arg[c].assignee \in Assignees

\* What an open transaction has written, exactly.
Writes(c) ==
  /\ ~Starting(c) /\ ~Deciding(c) => wrun[c] = NoRuns /\ wvis[c] = NoVisits
  /\ Starting(c) => wrun[c] = [NoRuns EXCEPT ![tx[c].run] = NewRun(c)]
  /\ pc[c] = "writeSnapshot" => wvis[c] = NoVisits
  /\ pc[c] = "commitStart" =>
       wvis[c] = [NoVisits EXCEPT ![tx[c].fresh] =
                    NewVisit(c, tx[c].graph, Entry[tx[c].graph])]
  /\ pc[c] \in {"getActionForStep", "advance"} =>
       /\ wrun[c] = NoRuns
       /\ wvis[c] = [NoVisits EXCEPT ![arg[c].visit] = ClosedVisit(c)]
  /\ pc[c] = "updateWorkflowStatus" =>
       LET t == Target[tx[c].graph][arg[c].action[2]] IN
       /\ t \in Steps
       /\ wrun[c] = NoRuns
       /\ wvis[c] = [NoVisits EXCEPT ![arg[c].visit] = ClosedVisit(c),
                                     ![tx[c].fresh] = NewVisit(c, tx[c].graph, t)]
  /\ pc[c] = "commitStep" =>
       LET t == Target[tx[c].graph][arg[c].action[2]] IN
       \/ /\ t \notin Steps
          /\ wrun[c] = [NoRuns EXCEPT ![tx[c].run] = ClosedRun(c, t)]
          /\ wvis[c] = [NoVisits EXCEPT ![arg[c].visit] = ClosedVisit(c)]
       \/ /\ t \in Steps
          /\ wrun[c] = [NoRuns EXCEPT ![tx[c].run] = RoutedRun(c, t)]
          /\ wvis[c] = [NoVisits EXCEPT ![arg[c].visit] = ClosedVisit(c),
                                        ![tx[c].fresh] = NewVisit(c, tx[c].graph, t)]

\* The ids a call made up are nobody else's.
Fresh ==
  \A c, d \in Callers : c # d =>
    /\ pc[c] \in StartPC => tx[d].run # tx[c].run
    /\ tx[c].fresh # None => tx[d].fresh # tx[c].fresh

\* The row lock on a visit and the index entry of a pair have one holder, and a
\* pair whose entry is held by a Start has no open run.
Locks ==
  /\ \A c, d \in Callers : c # d =>
       /\ Deciding(c) /\ Deciding(d) => arg[c].visit # arg[d].visit
       /\ Starting(c) /\ Starting(d) => arg[c].pair # arg[d].pair
  /\ \A c \in Callers : Starting(c) => OpenRunsIn(workflow, arg[c].pair) = {}

\* Every visit is of a run; an open visit is of an open run, the only one of it
\* and on the step whose status the run shows; an open run has one.
Position ==
  /\ \A v \in VisitId : visit[v] # None => workflow[visit[v].run] # None
  /\ \A v \in VisitId : IsOpen(visit[v]) =>
       /\ IsOpen(workflow[visit[v].run])
       /\ workflow[visit[v].run].status
            = StatusOf[workflow[visit[v].run].graph][visit[v].step]
  /\ \A v, w \in VisitId :
       IsOpen(visit[v]) /\ IsOpen(visit[w]) /\ visit[v].run = visit[w].run => v = w
  /\ \A r \in RunId : IsOpen(workflow[r]) =>
       \E v \in VisitId : IsOpen(visit[v]) /\ visit[v].run = r

\* Two open runs are of different pairs; a run starts no later than now.
OpenRuns ==
  /\ \A r, q \in RunId :
       /\ IsOpen(workflow[r])
       /\ IsOpen(workflow[q])
       /\ workflow[r].pair = workflow[q].pair
       => r = q
  /\ clock <= MaxClock
  /\ \A c \in Callers : tx[c].began <= clock
  /\ \A r \in RunId : workflow[r] # None => workflow[r].started <= clock

Inv ==
  /\ CoreType
  /\ \A c \in Callers : LocalsAt(c)
  /\ \A c \in Callers : Writes(c)
  /\ Fresh
  /\ Locks
  /\ Position
  /\ OpenRuns

-----------------------------------------------------------------------------
(* What a step of one caller leaves of another.                            *)

\* The step gave d nothing and took nothing from it.
Untouched(d) ==
  /\ pc'[d] = pc[d] /\ arg'[d] = arg[d] /\ tx'[d] = tx[d]
  /\ wrun'[d] = wrun[d] /\ wvis'[d] = wvis[d]

\* The rows d's call depends on are as they were.
RowsKept(d) ==
  /\ \A r \in RunId : workflow[r] # None => workflow'[r] # None
  /\ pc[d] \in StartPC => workflow'[tx[d].run] = None
  /\ Deciding(d) => /\ visit'[arg[d].visit] = visit[arg[d].visit]
                    /\ workflow'[tx[d].run] = workflow[tx[d].run]
  /\ tx[d].fresh # None => visit'[tx[d].fresh] = None

\* A caller whose locals did not change, nor the rows it depends on, is where it
\* was.
LEMMA OtherLocals ==
  ASSUME NEW d \in Callers, Untouched(d), RowsKept(d), LocalsAt(d), Writes(d)
  PROVE  LocalsAt(d)' /\ Writes(d)'
<1>1. /\ pc'[d] = pc[d] /\ arg'[d] = arg[d] /\ tx'[d] = tx[d]
      /\ wrun'[d] = wrun[d] /\ wvis'[d] = wvis[d]
  BY DEF Untouched
<1>2. LocalsAt(d)'
  BY <1>1, Zenon DEF LocalsAt, RowsKept, Deciding, IsOpen, StartPC, CompletePC
<1>3. Writes(d)'
  <2>1. CASE ~Starting(d) /\ ~Deciding(d)
    BY <1>1, <2>1, Zenon DEF Writes, Starting, Deciding, NoRuns, NoVisits
  <2>2. CASE Starting(d)
    BY <1>1, <2>2, Zenon
       DEF Writes, Starting, Deciding, NewRun, NewVisit, NoRuns, NoVisits
  <2>3. CASE pc[d] \in {"getActionForStep", "advance"}
    BY <1>1, <2>3, Zenon
       DEF Writes, RowsKept, Starting, Deciding, ClosedVisit, NoRuns, NoVisits
  <2>4. CASE pc[d] = "updateWorkflowStatus"
    BY <1>1, <2>4, Zenon
       DEF Writes, RowsKept, Starting, Deciding, ClosedVisit, NewVisit,
           NoRuns, NoVisits
  <2>5. CASE pc[d] = "commitStep"
    BY <1>1, <2>5, Zenon
       DEF Writes, RowsKept, Starting, Deciding, ClosedVisit, NewVisit,
           ClosedRun, RoutedRun, NoRuns, NoVisits
  <2>6. QED
    BY <2>1, <2>2, <2>3, <2>4, <2>5 DEF Deciding
<1>4. QED
  BY <1>2, <1>3

\* A step that leaves the rows alone and touches one caller only preserves Inv if
\* that caller ends up where it should.
LEMMA LocalInv ==
  ASSUME Inv, NEW c \in Callers,
         UNCHANGED <<workflow, visit>>,
         \A d \in Callers : d # c => Untouched(d),
         CoreType', LocalsAt(c)', Writes(c)', Fresh', Locks',
         clock <= clock', clock' <= MaxClock, tx'[c].began <= clock'
  PROVE  Inv'
<1> USE DEF Inv
<1>1. ASSUME NEW d \in Callers
      PROVE  LocalsAt(d)' /\ Writes(d)'
  <2>1. CASE d = c
    BY <2>1
  <2>2. CASE d # c
    <3>1. Untouched(d)
      BY <2>2
    <3>2. RowsKept(d)
      BY DEF RowsKept, LocalsAt
    <3>3. QED
      BY <3>1, <3>2, OtherLocals
  <2>3. QED
    BY <2>1, <2>2
<1>2. Position'
  BY DEF Position, IsOpen
<1>3. OpenRuns'
  <2>1. \A d \in Callers : d # c => tx'[d] = tx[d]
    BY DEF Untouched
  <2>2. \A d \in Callers : tx[d].began \in Nat /\ tx'[d].began \in Nat
    BY DEF CoreType, Tx
  <2>3. clock \in Nat /\ clock' \in Nat
    BY DEF CoreType
  <2>4. \A d \in Callers : tx'[d].began <= clock'
    BY <2>1, <2>2, <2>3 DEF OpenRuns
  <2>5. \A r \in RunId : workflow[r] # None => workflow[r].started \in Nat
    BY DEF CoreType, RunRow
  <2>6. \A r \in RunId : workflow'[r] # None => workflow'[r].started <= clock'
    BY <2>3, <2>5 DEF OpenRuns
  <2>7. QED
    BY <2>4, <2>6 DEF OpenRuns, IsOpen
<1>4. QED
  BY <1>1, <1>2, <1>3

\* The end of a call without a change to the tables preserves Inv: rollback.
LEMMA EndInv ==
  ASSUME Inv, NEW c \in Callers, End(c), UNCHANGED tables
  PROVE  Inv'
<1> USE DEF Inv
<1>1. /\ pc' = [pc EXCEPT ![c] = "idle"] /\ arg' = [arg EXCEPT ![c] = NoArg]
      /\ tx' = [tx EXCEPT ![c] = NoTx]
      /\ wrun' = [wrun EXCEPT ![c] = NoRuns] /\ wvis' = [wvis EXCEPT ![c] = NoVisits]
      /\ clock' = clock
      /\ definition' = definition /\ workflow' = workflow /\ visit' = visit
  BY DEF End, Goto, tables
<1>2. CoreType'
  BY <1>1 DEF CoreType, PC, Arg, NoArg, Tx, NoTx, NoRuns, NoVisits
<1>3. \A d \in Callers : d # c => Untouched(d)
  BY <1>1 DEF CoreType, Untouched
<1>4. /\ pc'[c] = "idle" /\ arg'[c] = NoArg /\ tx'[c] = NoTx
      /\ wrun'[c] = NoRuns /\ wvis'[c] = NoVisits
  BY <1>1 DEF CoreType
<1>5. LocalsAt(c)' /\ Writes(c)'
  <2>1. LocalsAt(c)'
    BY <1>4 DEF LocalsAt, StartPC, CompletePC, Deciding, NoTx
  <2>2. Writes(c)'
    BY <1>4 DEF Writes, Starting, Deciding, NoRuns, NoVisits
  <2>3. QED
    BY <2>1, <2>2
<1>6. Fresh'
  <2>1. \A d \in Callers : pc[d] \in StartPC => tx[d].run # None
    BY EngineAssumption DEF LocalsAt
  <2>2. QED
    BY <1>3, <1>4, <2>1 DEF Fresh, Untouched, NoTx, StartPC
<1>7. Locks'
  BY <1>1, <1>3, <1>4 DEF Locks, Untouched, Starting, Deciding, OpenRunsIn, IsOpen
<1>8. clock <= clock' /\ clock' <= MaxClock /\ tx'[c].began <= clock'
  BY <1>1, <1>4, EngineAssumption DEF CoreType, OpenRuns, NoTx
<1>9. QED
  BY <1>1, <1>2, <1>3, <1>5, <1>6, <1>7, <1>8, LocalInv

-----------------------------------------------------------------------------
(* Calls.                                                                  *)

\* A call that makes up no id and takes no timestamp.
LEMMA UntimedCallInv ==
  ASSUME Inv, NEW c \in Callers, NEW a \in Arg,
         NEW l \in {"reassignStepVisit", "getWorkflowIDBySubject"},
         l = "getWorkflowIDBySubject" => a.pair \in Pair,
         l = "reassignStepVisit" => a.assignee \in Assignees,
         Call(c, l, a, NoTx), UNCHANGED clock
  PROVE  Inv'
<1> USE DEF Inv
<1>1. /\ pc[c] = "idle"
      /\ pc' = [pc EXCEPT ![c] = l] /\ arg' = [arg EXCEPT ![c] = a]
      /\ tx' = [tx EXCEPT ![c] = NoTx]
      /\ wrun' = wrun /\ wvis' = wvis /\ clock' = clock
      /\ definition' = definition /\ workflow' = workflow /\ visit' = visit
  BY DEF Call, Goto, tables
<1>2. CoreType'
  BY <1>1, EngineAssumption DEF CoreType, PC, ReassignPC, GetPC, Tx, NoTx
<1>3. \A d \in Callers : d # c => Untouched(d)
  BY <1>1 DEF CoreType, Untouched
<1>4. pc'[c] = l /\ arg'[c] = a /\ tx'[c] = NoTx
  BY <1>1 DEF CoreType
<1>5. LocalsAt(c)'
  BY <1>4 DEF LocalsAt, StartPC, CompletePC, Deciding, NoTx
<1>6. Writes(c)'
  <2>1. wrun[c] = NoRuns /\ wvis[c] = NoVisits
    BY <1>1 DEF Writes, Starting, Deciding
  <2>2. QED
    BY <1>1, <1>4, <2>1 DEF Writes, Starting, Deciding, NoRuns, NoVisits
<1>7. Fresh'
  <2>1. \A d \in Callers : pc[d] \in StartPC => tx[d].run # None
    BY EngineAssumption DEF LocalsAt
  <2>2. QED
    BY <1>3, <1>4, <2>1 DEF Fresh, Untouched, NoTx, StartPC
<1>8. Locks'
  BY <1>1, <1>3, <1>4 DEF Locks, Untouched, Starting, Deciding, OpenRunsIn, IsOpen
<1>9. clock <= clock' /\ clock' <= MaxClock /\ tx'[c].began <= clock'
  BY <1>1, <1>4, EngineAssumption DEF CoreType, OpenRuns, NoTx
<1>10. QED
  BY <1>1, <1>2, <1>3, <1>5, <1>6, <1>7, <1>8, <1>9, LocalInv

\* A call that makes up its ids and begins a transaction.
LEMMA TimedCallInv ==
  ASSUME Inv, NEW c \in Callers, NEW a \in Arg, NEW locals \in Tx,
         NEW l \in {"readDefinition", "completeStepVisit"},
         locals.fresh \in FreshVisits,
         l = "readDefinition" => a.pair \in Pair /\ locals.run \in FreshRuns,
         l = "completeStepVisit" => a.action \in ActionId /\ locals.run = None,
         TimedCall(c, l, a, locals)
  PROVE  Inv'
<1> USE DEF Inv
<1> DEFINE new == [locals EXCEPT !.began = clock + 1]
<1>1. /\ clock < MaxClock /\ clock' = clock + 1
      /\ pc[c] = "idle"
      /\ pc' = [pc EXCEPT ![c] = l] /\ arg' = [arg EXCEPT ![c] = a]
      /\ tx' = [tx EXCEPT ![c] = new]
      /\ wrun' = wrun /\ wvis' = wvis
      /\ definition' = definition /\ workflow' = workflow /\ visit' = visit
  BY DEF TimedCall, Call, Goto, tables
<1>2. clock \in Nat /\ clock + 1 \in Nat /\ new \in Tx
  <2>1. clock \in Nat /\ clock + 1 \in Nat
    BY DEF CoreType
  <2>2. QED
    BY <2>1 DEF Tx
<1>3. new.run = locals.run /\ new.fresh = locals.fresh /\ new.began = clock + 1
  BY DEF Tx
<1> HIDE DEF new
<1>4. CoreType'
  BY <1>1, <1>2 DEF CoreType, PC, StartPC, CompletePC
<1>5. \A d \in Callers : d # c => Untouched(d)
  BY <1>1 DEF CoreType, Untouched
<1>6. pc'[c] = l /\ arg'[c] = a /\ tx'[c] = new
  BY <1>1 DEF CoreType
<1>7. LocalsAt(c)'
  <2>1. new.fresh \in VisitId /\ visit'[new.fresh] = None
    BY <1>1, <1>3 DEF FreshVisits
  <2>2. l = "readDefinition" => new.run \in RunId /\ workflow'[new.run] = None
    BY <1>1, <1>3 DEF FreshRuns
  <2>3. QED
    BY <1>6, <2>1, <2>2 DEF LocalsAt, StartPC, CompletePC, Deciding
<1>8. Writes(c)'
  <2>1. wrun[c] = NoRuns /\ wvis[c] = NoVisits
    BY <1>1 DEF Writes, Starting, Deciding
  <2>2. QED
    BY <1>1, <1>6, <2>1 DEF Writes, Starting, Deciding, NoRuns, NoVisits
<1>9. Fresh'
  <2>1. \A d \in Callers : pc[d] \in StartPC => tx[d].run # None
    BY EngineAssumption DEF LocalsAt
  <2>2. \A d \in Callers : tx[d].fresh # locals.fresh
    BY DEF FreshVisits
  <2>3. l = "readDefinition" => \A d \in Callers : tx[d].run # locals.run
    BY DEF FreshRuns
  <2>4. QED
    BY <1>3, <1>5, <1>6, <2>1, <2>2, <2>3 DEF Fresh, Untouched, StartPC
<1>10. Locks'
  BY <1>1, <1>5, <1>6 DEF Locks, Untouched, Starting, Deciding, OpenRunsIn, IsOpen
<1>11. clock <= clock' /\ clock' <= MaxClock /\ tx'[c].began <= clock'
  BY <1>1, <1>2, <1>3, <1>6, EngineAssumption
<1>12. QED
  BY <1>1, <1>4, <1>5, <1>7, <1>8, <1>9, <1>10, <1>11, LocalInv

LEMMA StartCallInv ==
  ASSUME Inv, NEW c \in Callers, NEW p \in Pair, StartCall(c, p)
  PROVE  Inv'
<1>1. PICK r \in FreshRuns, v \in FreshVisits :
        TimedCall(c, "readDefinition", [NoArg EXCEPT !.pair = p],
                  [NoTx EXCEPT !.run = r, !.fresh = v])
  BY DEF StartCall
<1>2. [NoArg EXCEPT !.pair = p] \in Arg /\ [NoArg EXCEPT !.pair = p].pair = p
  BY DEF Arg, NoArg
<1>3. /\ [NoTx EXCEPT !.run = r, !.fresh = v] \in Tx
      /\ [NoTx EXCEPT !.run = r, !.fresh = v].run = r
      /\ [NoTx EXCEPT !.run = r, !.fresh = v].fresh = v
  BY DEF Tx, NoTx, FreshRuns, FreshVisits
<1>4. QED
  BY <1>1, <1>2, <1>3, TimedCallInv

LEMMA CompleteCallInv ==
  ASSUME Inv, NEW c \in Callers, NEW v \in KnownVisits \cup {None},
         NEW a \in KnownActions, CompleteCall(c, v, a)
  PROVE  Inv'
<1>1. PICK w \in FreshVisits :
        TimedCall(c, "completeStepVisit", [NoArg EXCEPT !.visit = v, !.action = a],
                  [NoTx EXCEPT !.fresh = w])
  BY DEF CompleteCall
<1>2. a \in ActionId
  BY DEF KnownActions, KnownRuns, ActionId
<1>3. /\ [NoArg EXCEPT !.visit = v, !.action = a] \in Arg
      /\ [NoArg EXCEPT !.visit = v, !.action = a].action = a
  BY <1>2 DEF Arg, NoArg, KnownVisits
<1>4. /\ [NoTx EXCEPT !.fresh = w] \in Tx
      /\ [NoTx EXCEPT !.fresh = w].run = None
      /\ [NoTx EXCEPT !.fresh = w].fresh = w
  BY DEF Tx, NoTx, FreshVisits
<1>5. QED
  BY <1>1, <1>2, <1>3, <1>4, TimedCallInv

LEMMA ReassignCallInv ==
  ASSUME Inv, NEW c \in Callers, NEW v \in KnownVisits \cup {None},
         NEW x \in Assignees, ReassignCall(c, v, x)
  PROVE  Inv'
<1>1. /\ [NoArg EXCEPT !.visit = v, !.assignee = x] \in Arg
      /\ [NoArg EXCEPT !.visit = v, !.assignee = x].assignee = x
  BY DEF Arg, NoArg, KnownVisits
<1>2. QED
  BY <1>1, UntimedCallInv DEF ReassignCall

LEMMA GetStateCallInv ==
  ASSUME Inv, NEW c \in Callers, NEW p \in Pair, GetStateCall(c, p)
  PROVE  Inv'
<1>1. [NoArg EXCEPT !.pair = p] \in Arg /\ [NoArg EXCEPT !.pair = p].pair = p
  BY DEF Arg, NoArg
<1>2. QED
  BY <1>1, UntimedCallInv DEF GetStateCall

-----------------------------------------------------------------------------
(* The rows a statement writes.                                            *)

\* The rows of a Start have their types.
LEMMA StartRows ==
  ASSUME Inv, NEW c \in Callers,
         pc[c] \in {"insertWorkflow", "writeSnapshot", "commitStart"}
  PROVE  /\ NewRun(c) \in RunRow /\ NewRun(c) # None
         /\ NewRun(c).pair = arg[c].pair
         /\ NewVisit(c, tx[c].graph, Entry[tx[c].graph]) \in VisitRow
         /\ NewVisit(c, tx[c].graph, Entry[tx[c].graph]) # None
<1> USE DEF Inv
<1>1. /\ arg[c].pair \in Pair /\ tx[c].run \in RunId
      /\ tx[c].graph \in Graphs /\ Entry[tx[c].graph] \in Steps
  BY DEF LocalsAt, StartPC
<1>2. tx[c].began \in Nat
  BY DEF CoreType, Tx
<1>3. NewRun(c) \in RunRow /\ NewRun(c).pair = arg[c].pair
  BY <1>1, <1>2, GraphsAssumption DEF NewRun, RunRow
<1>4. NewVisit(c, tx[c].graph, Entry[tx[c].graph]) \in VisitRow
  BY <1>1, <1>2, GraphsAssumption DEF NewVisit, VisitRow
<1>5. QED
  BY <1>3, <1>4, RowAssumption

\* Who decides a visit stands on an open run.
LEMMA DecidedRun ==
  ASSUME Inv, NEW c \in Callers, Deciding(c)
  PROVE  /\ arg[c].visit \in VisitId
         /\ visit[arg[c].visit] \in VisitRow
         /\ IsOpen(visit[arg[c].visit])
         /\ tx[c].run \in RunId
         /\ visit[arg[c].visit].run = tx[c].run
         /\ workflow[tx[c].run] \in RunRow
         /\ IsOpen(workflow[tx[c].run])
         /\ ClosedVisit(c) \in VisitRow
         /\ ClosedVisit(c) # None
         /\ ClosedVisit(c).completed # None
         /\ ClosedVisit(c).run = tx[c].run
<1> USE DEF Inv
<1>1. /\ arg[c].visit \in VisitId /\ IsOpen(visit[arg[c].visit])
      /\ visit[arg[c].visit].run = tx[c].run
  BY DEF LocalsAt
<1>2. visit[arg[c].visit] \in VisitRow
  BY <1>1 DEF CoreType, IsOpen
<1>3. tx[c].run \in RunId /\ IsOpen(workflow[tx[c].run])
  BY <1>1, <1>2 DEF VisitRow, Position
<1>4. workflow[tx[c].run] \in RunRow
  BY <1>3 DEF CoreType, IsOpen
<1>5. arg[c].action \in ActionId /\ tx[c].began \in Nat
  BY DEF CoreType, Tx, LocalsAt, Deciding, CompletePC
<1>6. /\ ClosedVisit(c) \in VisitRow
      /\ ClosedVisit(c).completed = tx[c].began
      /\ ClosedVisit(c).run = tx[c].run
  BY <1>1, <1>2, <1>5 DEF ClosedVisit, VisitRow
<1>7. QED
  BY <1>1, <1>2, <1>3, <1>4, <1>5, <1>6, RowAssumption, EngineAssumption

\* The rows advance writes have their types.
LEMMA AdvanceRows ==
  ASSUME Inv, NEW c \in Callers,
         pc[c] \in {"advance", "updateWorkflowStatus", "commitStep"},
         NEW t, t = Target[tx[c].graph][arg[c].action[2]]
  PROVE  /\ t \notin Steps => ClosedRun(c, t) \in RunRow /\ ClosedRun(c, t) # None
         /\ t \in Steps =>
              /\ RoutedRun(c, t) \in RunRow /\ RoutedRun(c, t) # None
              /\ NewVisit(c, tx[c].graph, t) \in VisitRow
              /\ NewVisit(c, tx[c].graph, t) # None
<1> USE DEF Inv
<1>1. Deciding(c)
  BY DEF Deciding
<1>2. tx[c].run \in RunId /\ workflow[tx[c].run] \in RunRow
  BY <1>1, DecidedRun
<1>3. tx[c].graph = workflow[tx[c].run].graph /\ arg[c].action \in ActionId
  BY DEF LocalsAt, CompletePC
<1>4. tx[c].graph \in Graphs /\ arg[c].action[2] \in Actions
  BY <1>2, <1>3 DEF RunRow, ActionId
<1>5. tx[c].began \in Nat
  BY DEF CoreType, Tx
<1>6. t \in Steps \cup Statuses
  BY <1>4, GraphsAssumption
<1>7. t \notin Steps => ClosedRun(c, t) \in RunRow
  BY <1>2, <1>5, <1>6 DEF ClosedRun, RunRow
<1>8. ASSUME t \in Steps
      PROVE  RoutedRun(c, t) \in RunRow /\ NewVisit(c, tx[c].graph, t) \in VisitRow
  <2>1. StatusOf[tx[c].graph][t] \in Statuses /\ DefaultAssignee[tx[c].graph][t] \in Assignees
    BY <1>4, <1>8, GraphsAssumption
  <2>2. RoutedRun(c, t) \in RunRow
    BY <1>2, <2>1 DEF RoutedRun, RunRow
  <2>3. NewVisit(c, tx[c].graph, t) \in VisitRow
    BY <1>2, <1>5, <1>8, <2>1 DEF NewVisit, VisitRow
  <2>4. QED
    BY <2>2, <2>3
<1>9. QED
  BY <1>7, <1>8, RowAssumption

\* The lock a transaction holds shows in what it has written.
LEMMA HeldRows ==
  ASSUME Inv, NEW d \in Callers
  PROVE  /\ Starting(d) => /\ tx[d].run \in RunId
                           /\ wrun[d][tx[d].run] # None
                           /\ wrun[d][tx[d].run].pair = arg[d].pair
         /\ Deciding(d) => wvis[d][arg[d].visit] # None
<1> USE DEF Inv
<1>1. ASSUME Starting(d)
      PROVE  /\ tx[d].run \in RunId
             /\ wrun[d][tx[d].run] # None /\ wrun[d][tx[d].run].pair = arg[d].pair
  <2>1. tx[d].run \in RunId
    BY <1>1 DEF Starting, LocalsAt, StartPC
  <2>2. wrun[d] = [NoRuns EXCEPT ![tx[d].run] = NewRun(d)]
    BY <1>1 DEF Writes
  <2>3. wrun[d][tx[d].run] = NewRun(d)
    BY <2>1, <2>2 DEF NoRuns
  <2>4. QED
    BY <1>1, <2>1, <2>3, StartRows DEF Starting
<1>2. ASSUME Deciding(d)
      PROVE  wvis[d][arg[d].visit] # None
  <2>1. arg[d].visit \in VisitId /\ visit[arg[d].visit] # None /\ ClosedVisit(d) # None
    BY <1>2, DecidedRun DEF IsOpen
  <2>2. tx[d].fresh # arg[d].visit
    BY <1>2, <2>1, EngineAssumption DEF LocalsAt, Deciding, CompletePC
  <2>3. wvis[d][arg[d].visit] = ClosedVisit(d)
    <3>1. CASE pc[d] \in {"getActionForStep", "advance"}
      BY <2>1, <3>1 DEF Writes, NoVisits
    <3>2. CASE pc[d] = "updateWorkflowStatus"
      BY <2>1, <2>2, <3>2 DEF Writes, NoVisits
    <3>3. CASE pc[d] = "commitStep"
      BY <2>1, <2>2, <3>3 DEF Writes, NoVisits
    <3>4. QED
      BY <1>2, <3>1, <3>2, <3>3 DEF Deciding
  <2>4. QED
    BY <2>1, <2>3
<1>3. QED
  BY <1>1, <1>2

-----------------------------------------------------------------------------
(* Statements that write nothing to the tables.                            *)

\* A caller that moves from one statement of its call to another keeps its ids,
\* so they stay nobody else's.
LEMMA FreshKept ==
  ASSUME Inv, NEW c \in Callers,
         \A d \in Callers : d # c => Untouched(d),
         tx'[c].fresh = tx[c].fresh,
         \/ pc[c] \in StartPC /\ tx'[c].run = tx[c].run
         \/ /\ pc'[c] \notin StartPC
            /\ tx'[c].run = None \/ (tx'[c].run \in RunId /\ workflow[tx'[c].run] # None)
  PROVE  Fresh'
<1> USE DEF Inv
<1>1. \A d \in Callers : pc[d] \in StartPC =>
        tx[d].run # None /\ workflow[tx[d].run] = None
  BY EngineAssumption DEF LocalsAt
<1>2. ASSUME NEW d \in Callers, NEW e \in Callers, d # e
      PROVE  /\ pc'[d] \in StartPC => tx'[e].run # tx'[d].run
             /\ tx'[d].fresh # None => tx'[e].fresh # tx'[d].fresh
  <2>1. CASE d = c
    BY <1>1, <1>2, <2>1 DEF Fresh, Untouched
  <2>2. CASE e = c
    BY <1>1, <1>2, <2>2 DEF Fresh, Untouched
  <2>3. CASE d # c /\ e # c
    BY <1>2, <2>3 DEF Fresh, Untouched
  <2>4. QED
    BY <2>1, <2>2, <2>3
<1>3. QED
  BY <1>2 DEF Fresh, StartPC

LEMMA ReadDefinitionInv ==
  ASSUME Inv, NEW c \in Callers, ReadDefinition(c)
  PROVE  Inv'
<1> USE DEF Inv
<1> DEFINE g == definition[arg[c].pair[2]]
<1>1. CASE \E o \in {"not_found", "no_entry"} : Refuse(c, o)
  BY <1>1, EndInv DEF Refuse, Return
<1>2. CASE /\ g # None /\ Entry[g] # None
           /\ tx' = [tx EXCEPT ![c].graph = g]
           /\ Goto(c, "insertWorkflow")
           /\ UNCHANGED <<tables, clock, arg, wrun, wvis, snap, reply, seen>>
  <2>1. pc[c] = "readDefinition"
    BY DEF ReadDefinition
  <2>2. arg[c].pair \in Pair /\ tx[c] \in Tx
    BY <2>1 DEF LocalsAt, StartPC, CoreType
  <2>3. g \in Graphs /\ Entry[g] \in Steps
    BY <1>2, <2>2, GraphsAssumption DEF CoreType, Pair
  <2> HIDE DEF g
  <2>4. /\ pc' = [pc EXCEPT ![c] = "insertWorkflow"]
        /\ tx' = [tx EXCEPT ![c].graph = g]
        /\ UNCHANGED <<definition, workflow, visit, clock, arg, wrun, wvis>>
    BY <1>2 DEF Goto, tables
  <2>5. /\ pc'[c] = "insertWorkflow" /\ arg'[c] = arg[c]
        /\ tx'[c] \in Tx /\ tx'[c].graph = g /\ tx'[c].run = tx[c].run
        /\ tx'[c].fresh = tx[c].fresh /\ tx'[c].began = tx[c].began
    BY <2>2, <2>3, <2>4 DEF CoreType, Tx
  <2>6. \A d \in Callers : d # c => Untouched(d)
    BY <2>4 DEF CoreType, Untouched
  <2>7. CoreType'
    BY <2>4, <2>5 DEF CoreType, PC, StartPC
  <2>8. LocalsAt(c)'
    BY <2>1, <2>3, <2>4, <2>5 DEF LocalsAt, StartPC, CompletePC, Deciding
  <2>9. Writes(c)'
    BY <2>1, <2>4, <2>5 DEF Writes, Starting, Deciding, NoRuns, NoVisits
  <2>10. Fresh'
    BY <2>1, <2>5, <2>6, FreshKept DEF StartPC
  <2>11. Locks'
    BY <2>4, <2>5, <2>6 DEF Locks, Untouched, Starting, Deciding, OpenRunsIn, IsOpen
  <2>12. clock <= clock' /\ clock' <= MaxClock /\ tx'[c].began <= clock'
    BY <2>4, <2>5, EngineAssumption DEF CoreType, OpenRuns
  <2>13. QED
    BY <2>4, <2>6, <2>7, <2>8, <2>9, <2>10, <2>11, <2>12, LocalInv
<1>3. QED
  BY <1>1, <1>2 DEF ReadDefinition

LEMMA InsertWorkflowInv ==
  ASSUME Inv, NEW c \in Callers, InsertWorkflow(c)
  PROVE  Inv'
<1> USE DEF Inv
<1>1. CASE Refuse(c, "active_exists")
  BY <1>1, EndInv DEF Refuse, Return
<1>2. CASE /\ ~PairTaken(c, arg[c].pair)
           /\ wrun' = [wrun EXCEPT ![c][tx[c].run] = NewRun(c)]
           /\ Goto(c, "writeSnapshot")
           /\ UNCHANGED <<tables, clock, arg, tx, wvis, snap, reply, seen>>
  <2>1. pc[c] = "insertWorkflow" /\ ~PairHeld(c, arg[c].pair)
    BY DEF InsertWorkflow
  <2>2. /\ pc' = [pc EXCEPT ![c] = "writeSnapshot"]
        /\ wrun' = [wrun EXCEPT ![c][tx[c].run] = NewRun(c)]
        /\ UNCHANGED <<definition, workflow, visit, clock, arg, tx, wvis>>
    BY <1>2 DEF Goto, tables
  <2>3. tx[c].run \in RunId /\ NewRun(c) \in RunRow
    BY <2>1, StartRows DEF LocalsAt, StartPC
  <2>4. wrun[c] = NoRuns /\ wvis[c] = NoVisits
    BY <2>1 DEF Writes, Starting, Deciding
  <2>5. /\ pc'[c] = "writeSnapshot"
        /\ wrun'[c] = [NoRuns EXCEPT ![tx[c].run] = NewRun(c)]
    BY <2>2, <2>4 DEF CoreType
  <2>6. \A d \in Callers : d # c => Untouched(d)
    BY <2>2 DEF CoreType, Untouched
  <2>7. CoreType'
    BY <2>2, <2>3 DEF CoreType, PC, StartPC
  <2>8. LocalsAt(c)'
    BY <2>1, <2>2, <2>5 DEF LocalsAt, StartPC, CompletePC, Deciding
  <2>9. Writes(c)'
    <3>1. NewRun(c)' = NewRun(c)
      BY <2>2 DEF NewRun
    <3>2. QED
      BY <2>2, <2>4, <2>5, <3>1 DEF Writes, Starting, Deciding, NoRuns, NoVisits
  <2>10. Fresh'
    BY <2>1, <2>2, <2>6, FreshKept DEF StartPC
  <2>11. Locks'
    <3>1. \A d \in Callers : d # c /\ Starting(d) => arg[d].pair # arg[c].pair
      BY <2>1, HeldRows DEF PairHeld
    <3>2. OpenRunsIn(workflow, arg[c].pair) = {}
      BY <1>2 DEF PairTaken
    <3>3. QED
      BY <2>2, <2>5, <2>6, <3>1, <3>2
         DEF Locks, Untouched, Starting, Deciding, OpenRunsIn, IsOpen
  <2>12. clock <= clock' /\ clock' <= MaxClock /\ tx'[c].began <= clock'
    BY <2>2, EngineAssumption DEF CoreType, OpenRuns
  <2>13. QED
    BY <2>2, <2>6, <2>7, <2>8, <2>9, <2>10, <2>11, <2>12, LocalInv
<1>3. QED
  BY <1>1, <1>2 DEF InsertWorkflow

LEMMA WriteSnapshotInv ==
  ASSUME Inv, NEW c \in Callers, WriteSnapshot(c)
  PROVE  Inv'
<1> USE DEF Inv
<1> DEFINE row == NewVisit(c, tx[c].graph, Entry[tx[c].graph])
<1>1. /\ pc[c] = "writeSnapshot"
      /\ pc' = [pc EXCEPT ![c] = "commitStart"]
      /\ wvis' = [wvis EXCEPT ![c][tx[c].fresh] = row]
      /\ UNCHANGED <<definition, workflow, visit, clock, arg, tx, wrun>>
  BY DEF WriteSnapshot, Goto, tables
<1>2. tx[c].fresh \in VisitId /\ row \in VisitRow
  BY <1>1, StartRows DEF LocalsAt, StartPC
<1>3. /\ wrun[c] = [NoRuns EXCEPT ![tx[c].run] = NewRun(c)]
      /\ wvis[c] = NoVisits
  BY <1>1 DEF Writes, Starting
<1> HIDE DEF row
<1>4. /\ pc'[c] = "commitStart"
      /\ wvis'[c] = [NoVisits EXCEPT ![tx[c].fresh] = row]
  BY <1>1, <1>3 DEF CoreType
<1>5. \A d \in Callers : d # c => Untouched(d)
  BY <1>1 DEF CoreType, Untouched
<1>6. CoreType'
  BY <1>1, <1>2 DEF CoreType, PC, StartPC
<1>7. LocalsAt(c)'
  BY <1>1, <1>4 DEF LocalsAt, StartPC, CompletePC, Deciding
<1>8. Writes(c)'
  <2>1. NewRun(c)' = NewRun(c)
    BY <1>1 DEF NewRun
  <2>2. NewVisit(c, tx[c].graph, Entry[tx[c].graph])' = row
    BY <1>1 DEF NewVisit, row
  <2>3. QED
    BY <1>1, <1>3, <1>4, <2>1, <2>2 DEF Writes, Starting, Deciding, NoRuns, NoVisits
<1>9. Fresh'
  BY <1>1, <1>5, FreshKept DEF StartPC
<1>10. Locks'
  BY <1>1, <1>4, <1>5 DEF Locks, Untouched, Starting, Deciding, OpenRunsIn, IsOpen
<1>11. clock <= clock' /\ clock' <= MaxClock /\ tx'[c].began <= clock'
  BY <1>1, EngineAssumption DEF CoreType, OpenRuns
<1>12. QED
  BY <1>1, <1>5, <1>6, <1>7, <1>8, <1>9, <1>10, <1>11, LocalInv

LEMMA CompleteStepVisitInv ==
  ASSUME Inv, NEW c \in Callers, CompleteStepVisit(c)
  PROVE  Inv'
<1> USE DEF Inv
<1> DEFINE v == arg[c].visit
<1>1. CASE Refuse(c, ClosedOrMissing(v))
  BY <1>1, EndInv DEF Refuse, Return
<1>2. CASE /\ Matches(v)
           /\ wvis' = [wvis EXCEPT ![c][v] =
                         [visit[v] EXCEPT !.completed = tx[c].began,
                                          !.by = c, !.action = arg[c].action]]
           /\ tx' = [tx EXCEPT ![c].run = visit[v].run]
           /\ Goto(c, "getActionForStep")
           /\ UNCHANGED <<tables, clock, arg, wrun, snap, reply, seen>>
  <2>1. pc[c] = "completeStepVisit" /\ ~VisitLocked(c, v)
    BY DEF CompleteStepVisit
  <2>2. /\ pc' = [pc EXCEPT ![c] = "getActionForStep"]
        /\ wvis' = [wvis EXCEPT ![c][v] = ClosedVisit(c)]
        /\ tx' = [tx EXCEPT ![c].run = visit[v].run]
        /\ UNCHANGED <<definition, workflow, visit, clock, arg, wrun>>
    BY <1>2 DEF Goto, tables, ClosedVisit
  <2>3. v \in VisitId /\ IsOpen(visit[v]) /\ visit[v] \in VisitRow
    BY <1>2 DEF Matches, IsOpen, CoreType, Arg
  <2>4. visit[v].run \in RunId /\ workflow[visit[v].run] # None
    BY <2>3 DEF VisitRow, Position, IsOpen
  <2>5. arg[c].action \in ActionId /\ tx[c].fresh \in VisitId /\ tx[c].began \in Nat
    BY <2>1 DEF LocalsAt, CompletePC, CoreType, Tx
  <2>6. ClosedVisit(c) \in VisitRow
    BY <2>3, <2>5 DEF ClosedVisit, VisitRow
  <2>7. wrun[c] = NoRuns /\ wvis[c] = NoVisits
    BY <2>1 DEF Writes, Starting, Deciding
  <2>8. tx[c] \in Tx
    BY DEF CoreType
  <2>9. /\ pc'[c] = "getActionForStep" /\ arg'[c] = arg[c]
        /\ tx'[c] \in Tx /\ tx'[c].run = visit[v].run
        /\ tx'[c].fresh = tx[c].fresh /\ tx'[c].began = tx[c].began
        /\ wrun'[c] = NoRuns
        /\ wvis'[c] = [NoVisits EXCEPT ![v] = ClosedVisit(c)]
    BY <2>2, <2>4, <2>7, <2>8 DEF CoreType, Tx
  <2>10. \A d \in Callers : d # c => Untouched(d)
    BY <2>2 DEF CoreType, Untouched
  <2>11. CoreType'
    BY <2>2, <2>6, <2>9 DEF CoreType, PC, CompletePC
  <2>12. LocalsAt(c)'
    BY <2>1, <2>2, <2>3, <2>5, <2>9 DEF LocalsAt, StartPC, CompletePC, Deciding, IsOpen
  <2>13. Writes(c)'
    <3>1. ClosedVisit(c)' = ClosedVisit(c)
      BY <2>2, <2>9 DEF ClosedVisit
    <3>2. QED
      BY <2>2, <2>9, <3>1 DEF Writes, Starting, Deciding, NoRuns, NoVisits
  <2>14. Fresh'
    BY <2>4, <2>9, <2>10, FreshKept DEF StartPC
  <2>15. Locks'
    <3>1. \A d \in Callers : d # c /\ Deciding(d) => arg[d].visit # v
      BY <2>1, <2>3, HeldRows, EngineAssumption DEF VisitLocked
    <3>2. QED
      BY <2>2, <2>9, <2>10, <3>1
         DEF Locks, Untouched, Starting, Deciding, OpenRunsIn, IsOpen
  <2>16. clock <= clock' /\ clock' <= MaxClock /\ tx'[c].began <= clock'
    BY <2>2, <2>9, EngineAssumption DEF CoreType, OpenRuns
  <2>17. QED
    BY <2>2, <2>10, <2>11, <2>12, <2>13, <2>14, <2>15, <2>16, LocalInv
<1>3. QED
  BY <1>1, <1>2 DEF CompleteStepVisit

LEMMA GetActionForStepInv ==
  ASSUME Inv, NEW c \in Callers, GetActionForStep(c)
  PROVE  Inv'
<1> USE DEF Inv
<1> DEFINE v == arg[c].visit
           g == workflow[tx[c].run].graph
<1>1. CASE Refuse(c, "not_available")
  BY <1>1, EndInv DEF Refuse, Return
<1>2. CASE /\ ActionOfStep(c)
           /\ tx' = [tx EXCEPT ![c].graph = FrozenGraph(c)]
           /\ Goto(c, "advance")
           /\ UNCHANGED <<tables, clock, arg, wrun, wvis, snap, reply, seen>>
  <2>1. pc[c] = "getActionForStep" /\ Deciding(c)
    BY DEF GetActionForStep, Deciding
  <2>2. /\ pc' = [pc EXCEPT ![c] = "advance"]
        /\ tx' = [tx EXCEPT ![c].graph = g]
        /\ UNCHANGED <<definition, workflow, visit, clock, arg, wrun, wvis>>
    BY <1>2 DEF Goto, tables, FrozenGraph
  <2>3. /\ v \in VisitId /\ visit[v] \in VisitRow
        /\ tx[c].run = visit[v].run /\ g \in Graphs
    BY <2>1, DecidedRun DEF RunRow
  <2>4. wrun[c] = NoRuns /\ wvis[c] = [NoVisits EXCEPT ![v] = ClosedVisit(c)]
    BY <2>1 DEF Writes
  <2>5. wvis[c][v] = ClosedVisit(c)
    BY <2>3, <2>4 DEF NoVisits
  <2>6. /\ ClosedVisit(c).run = visit[v].run
        /\ ClosedVisit(c).step = visit[v].step
        /\ ClosedVisit(c).action = arg[c].action
    BY <2>3 DEF ClosedVisit, VisitRow
  <2>7. /\ arg[c].action[1] = tx[c].run
        /\ arg[c].action[2] \in ActionsOf[g][visit[v].step]
    BY <1>2, <2>3, <2>5, <2>6 DEF ActionOfStep
  <2> HIDE DEF g
  <2>8. tx[c] \in Tx
    BY DEF CoreType
  <2>9. /\ pc'[c] = "advance" /\ arg'[c] = arg[c]
        /\ tx'[c] \in Tx /\ tx'[c].graph = g /\ tx'[c].run = tx[c].run
        /\ tx'[c].fresh = tx[c].fresh /\ tx'[c].began = tx[c].began
    BY <2>2, <2>3, <2>8 DEF CoreType, Tx
  <2>10. \A d \in Callers : d # c => Untouched(d)
    BY <2>2 DEF CoreType, Untouched
  <2>11. CoreType'
    BY <2>2, <2>9 DEF CoreType, PC, CompletePC
  <2>12. LocalsAt(c)'
    <3>1. g' = workflow'[tx'[c].run].graph /\ g' = g
      BY <2>2, <2>9 DEF g
    <3>2. QED
      BY <2>1, <2>2, <2>7, <2>9, <3>1 DEF LocalsAt, StartPC, CompletePC, Deciding, IsOpen
  <2>13. Writes(c)'
    <3>1. ClosedVisit(c)' = ClosedVisit(c)
      BY <2>2, <2>9 DEF ClosedVisit
    <3>2. QED
      BY <2>2, <2>4, <2>9, <3>1 DEF Writes, Starting, Deciding, NoRuns, NoVisits
  <2>14. Fresh'
    BY <2>1, <2>9, <2>10, FreshKept, DecidedRun DEF StartPC, IsOpen
  <2>15. Locks'
    BY <2>1, <2>2, <2>9, <2>10
       DEF Locks, Untouched, Starting, Deciding, OpenRunsIn, IsOpen
  <2>16. clock <= clock' /\ clock' <= MaxClock /\ tx'[c].began <= clock'
    BY <2>2, <2>9, EngineAssumption DEF CoreType, OpenRuns
  <2>17. QED
    BY <2>2, <2>10, <2>11, <2>12, <2>13, <2>14, <2>15, <2>16, LocalInv
<1>3. QED
  BY <1>1, <1>2 DEF GetActionForStep

\* A decision that goes on to its next statement, having written rows of their
\* types.
LEMMA DecisionMovesOn ==
  ASSUME Inv, NEW c \in Callers,
         pc[c] \in {"advance", "updateWorkflowStatus"},
         NEW l \in {"updateWorkflowStatus", "commitStep"},
         pc' = [pc EXCEPT ![c] = l],
         UNCHANGED <<definition, workflow, visit, clock, arg, tx>>,
         \/ wrun' = wrun
         \/ \E row \in RunRow : wrun' = [wrun EXCEPT ![c][tx[c].run] = row],
         \/ wvis' = wvis
         \/ \E row \in VisitRow : wvis' = [wvis EXCEPT ![c][tx[c].fresh] = row],
         Writes(c)'
  PROVE  Inv'
<1> USE DEF Inv
<1>1. Deciding(c)
  BY DEF Deciding
<1>2. tx[c].fresh \in VisitId /\ tx[c].run \in RunId
  BY <1>1, DecidedRun DEF Deciding, LocalsAt, CompletePC
<1>3. \A d \in Callers : d # c => Untouched(d)
  BY DEF CoreType, Untouched
<1>4. pc'[c] = l
  BY DEF CoreType
<1>5. CoreType'
  <2>1. wrun' \in [Callers -> [RunId -> RunRow \cup {None}]]
    <3>1. ASSUME NEW row \in RunRow, wrun' = [wrun EXCEPT ![c][tx[c].run] = row]
          PROVE  wrun' \in [Callers -> [RunId -> RunRow \cup {None}]]
      BY <1>2, <3>1 DEF CoreType
    <3>2. CASE wrun' = wrun
      BY <3>2 DEF CoreType
    <3>3. QED
      BY <3>1, <3>2
  <2>2. wvis' \in [Callers -> [VisitId -> VisitRow \cup {None}]]
    <3>1. ASSUME NEW row \in VisitRow, wvis' = [wvis EXCEPT ![c][tx[c].fresh] = row]
          PROVE  wvis' \in [Callers -> [VisitId -> VisitRow \cup {None}]]
      BY <1>2, <3>1 DEF CoreType
    <3>2. CASE wvis' = wvis
      BY <3>2 DEF CoreType
    <3>3. QED
      BY <3>1, <3>2
  <2>3. l \in PC
    BY DEF PC, CompletePC
  <2>4. QED
    BY <2>1, <2>2, <2>3 DEF CoreType
<1>6. LocalsAt(c)'
  BY <1>1, <1>4 DEF LocalsAt, StartPC, CompletePC, Deciding, IsOpen
<1>7. Fresh'
  BY <1>1, <1>3, <1>4, FreshKept, DecidedRun DEF StartPC, IsOpen
<1>8. Locks'
  BY <1>1, <1>3, <1>4
     DEF Locks, Untouched, Starting, Deciding, OpenRunsIn, IsOpen
<1>9. clock <= clock' /\ clock' <= MaxClock /\ tx'[c].began <= clock'
  BY EngineAssumption DEF CoreType, OpenRuns
<1>10. QED
  BY <1>3, <1>5, <1>6, <1>7, <1>8, <1>9, LocalInv

LEMMA AdvanceInv ==
  ASSUME Inv, NEW c \in Callers, Advance(c)
  PROVE  Inv'
<1> USE DEF Inv
<1> DEFINE t == Target[tx[c].graph][arg[c].action[2]]
           end == ClosedRun(c, t)
           new == NewVisit(c, tx[c].graph, t)
<1>1. /\ pc[c] = "advance" /\ Deciding(c)
      /\ UNCHANGED <<definition, workflow, visit, clock, arg, tx>>
  BY DEF Advance, tables, Deciding
<1>2. \/ /\ t \notin Steps
         /\ pc' = [pc EXCEPT ![c] = "commitStep"]
         /\ wrun' = [wrun EXCEPT ![c][tx[c].run] = end]
         /\ wvis' = wvis
      \/ /\ t \in Steps
         /\ pc' = [pc EXCEPT ![c] = "updateWorkflowStatus"]
         /\ wvis' = [wvis EXCEPT ![c][tx[c].fresh] = new]
         /\ wrun' = wrun
  BY DEF Advance, Destination, Goto
<1>3. /\ wrun[c] = NoRuns
      /\ wvis[c] = [NoVisits EXCEPT ![arg[c].visit] = ClosedVisit(c)]
  BY <1>1 DEF Writes
<1>4. /\ t \notin Steps => end \in RunRow
      /\ t \in Steps => new \in VisitRow
  BY <1>1, AdvanceRows
<1>5. ClosedVisit(c)' = ClosedVisit(c)
  BY <1>1 DEF ClosedVisit
<1>6. t' = t /\ end' = end /\ new' = new
  BY <1>1 DEF ClosedRun, NewVisit
<1>7. CASE t \notin Steps
  <2> HIDE DEF end
  <2>1. /\ pc'[c] = "commitStep"
        /\ wrun'[c] = [NoRuns EXCEPT ![tx[c].run] = end]
        /\ wvis'[c] = [NoVisits EXCEPT ![arg[c].visit] = ClosedVisit(c)]
    BY <1>2, <1>3, <1>7 DEF CoreType
  <2>2. Writes(c)'
    BY <1>1, <1>5, <1>6, <1>7, <2>1
       DEF Writes, Starting, Deciding, NoRuns, NoVisits, end
  <2>3. QED
    BY <1>1, <1>2, <1>4, <1>7, <2>2, DecisionMovesOn
<1>8. CASE t \in Steps
  <2> HIDE DEF new
  <2>1. /\ pc'[c] = "updateWorkflowStatus" /\ wrun'[c] = NoRuns
        /\ wvis'[c] = [wvis[c] EXCEPT ![tx[c].fresh] = new]
    BY <1>2, <1>3, <1>8 DEF CoreType
  <2>2. wvis'[c] = [NoVisits EXCEPT ![arg[c].visit] = ClosedVisit(c),
                                    ![tx[c].fresh] = new]
    BY <1>3, <2>1
  <2>3. Writes(c)'
    BY <1>1, <1>5, <1>6, <1>8, <2>1, <2>2
       DEF Writes, Starting, Deciding, NoRuns, NoVisits, new
  <2>4. QED
    BY <1>1, <1>2, <1>4, <1>8, <2>3, DecisionMovesOn
<1>9. QED
  BY <1>7, <1>8

LEMMA UpdateWorkflowStatusInv ==
  ASSUME Inv, NEW c \in Callers, UpdateWorkflowStatus(c)
  PROVE  Inv'
<1> USE DEF Inv
<1> DEFINE t == Target[tx[c].graph][arg[c].action[2]]
           row == RoutedRun(c, t)
           new == NewVisit(c, tx[c].graph, t)
<1>1. /\ pc[c] = "updateWorkflowStatus" /\ Deciding(c)
      /\ pc' = [pc EXCEPT ![c] = "commitStep"]
      /\ wrun' = [wrun EXCEPT ![c][tx[c].run] = row]
      /\ UNCHANGED <<definition, workflow, visit, clock, arg, tx, wvis>>
  BY DEF UpdateWorkflowStatus, Destination, Goto, tables, Deciding
<1>2. /\ t \in Steps /\ wrun[c] = NoRuns
      /\ wvis[c] = [NoVisits EXCEPT ![arg[c].visit] = ClosedVisit(c),
                                    ![tx[c].fresh] = new]
  BY <1>1 DEF Writes
<1>3. row \in RunRow
  BY <1>1, <1>2, AdvanceRows
<1>4. ClosedVisit(c)' = ClosedVisit(c)
  BY <1>1 DEF ClosedVisit
<1>5. t' = t /\ row' = row /\ new' = new
  BY <1>1 DEF RoutedRun, NewVisit
<1> HIDE DEF row, new
<1>6. /\ pc'[c] = "commitStep" /\ wvis'[c] = wvis[c]
      /\ wrun'[c] = [NoRuns EXCEPT ![tx[c].run] = row]
  BY <1>1, <1>2 DEF CoreType
<1>7. Writes(c)'
  BY <1>1, <1>2, <1>4, <1>5, <1>6
     DEF Writes, Starting, Deciding, NoRuns, NoVisits, row, new
<1>8. QED
  BY <1>1, <1>3, <1>7, DecisionMovesOn

\* A pair that has a run has a most recent one.
LEMMA MostRecent ==
  ASSUME Inv, NEW p, RunsOf(workflow, p) # {}
  PROVE  /\ MostRecentRun(workflow, p) \in RunsOf(workflow, p)
         /\ \A q \in RunsOf(workflow, p) :
              workflow[q].started <= workflow[MostRecentRun(workflow, p)].started
<1> USE DEF Inv
<1> DEFINE runs == RunsOf(workflow, p)
           ages == {clock - workflow[r].started : r \in runs}
           Earlier == OpToRel(<, Nat)
<1>1. ASSUME NEW r \in runs
      PROVE  /\ workflow[r].started \in Nat /\ clock \in Nat
             /\ workflow[r].started <= clock
  BY <1>1 DEF RunsOf, CoreType, RunRow, OpenRuns
<1>2. ages \subseteq Nat /\ ages # {}
  BY <1>1
<1>3. \E x \in ages : \A y \in ages : ~(<<y, x>> \in Earlier)
  <2>1. IsWellFoundedOn(Earlier, Nat)
    BY NatLessThanWellFounded
  <2> HIDE DEF Earlier, ages
  <2>2. QED
    BY <1>2, <2>1, WFMin
<1>4. PICK x \in ages : \A y \in ages : ~(<<y, x>> \in Earlier)
  BY <1>3
<1>5. PICK r \in runs : x = clock - workflow[r].started
  BY <1>4
<1>6. \A q \in runs : workflow[q].started <= workflow[r].started
  <2>1. TAKE q \in runs
  <2>2. ~(clock - workflow[q].started < clock - workflow[r].started)
    BY <1>2, <1>4, <1>5 DEF OpToRel
  <2>3. QED
    BY <1>1, <2>2
<1>7. QED
  BY <1>5, <1>6 DEF MostRecentRun

LEMMA GetWorkflowIDBySubjectInv ==
  ASSUME Inv, NEW c \in Callers, GetWorkflowIDBySubject(c)
  PROVE  Inv'
<1> USE DEF Inv
<1> DEFINE p == arg[c].pair
           r == MostRecentRun(workflow, p)
<1>1. CASE Refuse(c, "not_found")
  BY <1>1, EndInv DEF Refuse, Return
<1>2. CASE /\ RunsOf(workflow, p) # {}
           /\ snap' = [snap EXCEPT ![c] = [workflow |-> workflow, visit |-> visit]]
           /\ tx' = [tx EXCEPT ![c].run = r]
           /\ Goto(c, "readState")
           /\ UNCHANGED <<tables, clock, arg, wrun, wvis, reply, seen>>
  <2>1. pc[c] = "getWorkflowIDBySubject"
    BY DEF GetWorkflowIDBySubject
  <2>2. r \in RunId /\ workflow[r] # None
    BY <1>2, MostRecent DEF RunsOf
  <2> HIDE DEF r
  <2>3. /\ pc' = [pc EXCEPT ![c] = "readState"]
        /\ tx' = [tx EXCEPT ![c].run = r]
        /\ UNCHANGED <<definition, workflow, visit, clock, arg, wrun, wvis>>
    BY <1>2 DEF Goto, tables
  <2>4. tx[c] \in Tx
    BY DEF CoreType
  <2>5. /\ pc'[c] = "readState" /\ arg'[c] = arg[c]
        /\ tx'[c] \in Tx /\ tx'[c].run = r
        /\ tx'[c].fresh = tx[c].fresh /\ tx'[c].began = tx[c].began
    BY <2>2, <2>3, <2>4 DEF CoreType, Tx
  <2>6. \A d \in Callers : d # c => Untouched(d)
    BY <2>3 DEF CoreType, Untouched
  <2>7. CoreType'
    BY <2>3, <2>5 DEF CoreType, PC, GetPC
  <2>8. LocalsAt(c)'
    BY <2>1, <2>2, <2>3, <2>5 DEF LocalsAt, StartPC, CompletePC, Deciding
  <2>9. Writes(c)'
    BY <2>1, <2>3, <2>5 DEF Writes, Starting, Deciding, NoRuns, NoVisits
  <2>10. Fresh'
    BY <2>2, <2>5, <2>6, FreshKept DEF StartPC
  <2>11. Locks'
    BY <2>3, <2>5, <2>6 DEF Locks, Untouched, Starting, Deciding, OpenRunsIn, IsOpen
  <2>12. clock <= clock' /\ clock' <= MaxClock /\ tx'[c].began <= clock'
    BY <2>3, <2>5, EngineAssumption DEF CoreType, OpenRuns
  <2>13. QED
    BY <2>3, <2>6, <2>7, <2>8, <2>9, <2>10, <2>11, <2>12, LocalInv
<1>3. QED
  BY <1>1, <1>2 DEF GetWorkflowIDBySubject

-----------------------------------------------------------------------------
(* Statements that write the tables.                                       *)

LEMMA ReassignStepVisitInv ==
  ASSUME Inv, NEW c \in Callers, ReassignStepVisit(c)
  PROVE  Inv'
<1> USE DEF Inv
<1> DEFINE v == arg[c].visit
           row == [visit[v] EXCEPT !.assignee = arg[c].assignee]
<1>1. CASE Refuse(c, ClosedOrMissing(v))
  BY <1>1, EndInv DEF Refuse, Return
<1>2. CASE /\ Matches(v)
           /\ visit' = [visit EXCEPT ![v].assignee = arg[c].assignee]
           /\ tx' = [tx EXCEPT ![c].run = visit[v].run]
           /\ Goto(c, "getWorkflowState")
           /\ UNCHANGED <<definition, workflow, clock, arg, wrun, wvis, snap, reply, seen>>
  <2>1. pc[c] = "reassignStepVisit" /\ ~VisitLocked(c, v)
    BY DEF ReassignStepVisit
  <2>2. /\ pc' = [pc EXCEPT ![c] = "getWorkflowState"]
        /\ visit' = [visit EXCEPT ![v] = row]
        /\ tx' = [tx EXCEPT ![c].run = visit[v].run]
        /\ UNCHANGED <<definition, workflow, clock, arg, wrun, wvis>>
    BY <1>2 DEF Goto
  <2>3. v \in VisitId /\ IsOpen(visit[v]) /\ visit[v] \in VisitRow
    BY <1>2 DEF Matches, IsOpen, CoreType, Arg
  <2>4. visit[v].run \in RunId /\ workflow[visit[v].run] # None
    BY <2>3 DEF VisitRow, Position, IsOpen
  <2>5. arg[c].assignee \in Assignees
    BY <2>1 DEF LocalsAt
  <2>6. /\ row \in VisitRow /\ row # None
        /\ row.run = visit[v].run /\ row.step = visit[v].step
        /\ row.completed = visit[v].completed
    BY <2>3, <2>5, RowAssumption DEF VisitRow
  <2> HIDE DEF row
  <2>7. /\ \A w \in VisitId : w # v => visit'[w] = visit[w]
        /\ visit'[v] = row
    BY <2>2, <2>3 DEF CoreType
  <2>8. tx[c] \in Tx
    BY DEF CoreType
  <2>9. /\ pc'[c] = "getWorkflowState" /\ arg'[c] = arg[c]
        /\ tx'[c] \in Tx /\ tx'[c].run = visit[v].run
        /\ tx'[c].fresh = tx[c].fresh /\ tx'[c].began = tx[c].began
    BY <2>2, <2>4, <2>8 DEF CoreType, Tx
  <2>10. \A d \in Callers : d # c => Untouched(d)
    BY <2>2 DEF CoreType, Untouched
  <2>11. CoreType'
    <3>1. visit' \in [VisitId -> VisitRow \cup {None}]
      BY <2>2, <2>3, <2>6 DEF CoreType
    <3>2. QED
      BY <2>2, <2>9, <3>1 DEF CoreType, PC, ReassignPC
  <2>12. ASSUME NEW d \in Callers
         PROVE  LocalsAt(d)' /\ Writes(d)'
    <3>1. tx[d].fresh # None => tx[d].fresh \in VisitId /\ tx[d].fresh # v
      BY <2>3 DEF LocalsAt, IsOpen
    <3>2. CASE d = c
      <4>1. LocalsAt(c)'
        <5>1. /\ pc'[c] \notin StartPC /\ pc'[c] \notin CompletePC /\ ~Deciding(c)'
              /\ pc'[c] = "getWorkflowState"
          BY <2>9 DEF StartPC, CompletePC, Deciding
        <5>2. tx'[c].run \in RunId /\ workflow'[tx'[c].run] # None
          BY <2>2, <2>4, <2>9
        <5>3. tx'[c].fresh # None => tx'[c].fresh \in VisitId /\ visit'[tx'[c].fresh] = None
          <6>1. tx[c].fresh # None => visit[tx[c].fresh] = None
            BY DEF LocalsAt
          <6> QED BY <2>7, <2>9, <3>1, <3>2, <6>1
        <5> QED BY <5>1, <5>2, <5>3 DEF LocalsAt, StartPC
      <4>2. Writes(c)'
        BY <2>1, <2>2, <2>9 DEF Writes, Starting, Deciding, NoRuns, NoVisits
      <4>3. QED
        BY <3>2, <4>1, <4>2
    <3>3. CASE d # c
      <4>1. Deciding(d) => arg[d].visit # v
        BY <2>1, <2>3, <3>3, HeldRows, EngineAssumption DEF VisitLocked
      <4>2. Deciding(d) => arg[d].visit \in VisitId
        BY DEF LocalsAt
      <4>3. RowsKept(d)
        BY <2>2, <2>7, <3>1, <4>1, <4>2 DEF RowsKept, LocalsAt
      <4>4. QED
        BY <2>10, <3>3, <4>3, OtherLocals
    <3>4. QED
      BY <3>2, <3>3
  <2>13. Fresh'
    BY <2>4, <2>9, <2>10, FreshKept DEF StartPC
  <2>14. Locks'
    BY <2>2, <2>9, <2>10 DEF Locks, Untouched, Starting, Deciding, OpenRunsIn, IsOpen
  <2>15. Position'
    <3>1. \A w \in VisitId : /\ (visit'[w] = None) = (visit[w] = None)
                             /\ IsOpen(visit'[w]) = IsOpen(visit[w])
                             /\ visit'[w].run = visit[w].run
                             /\ visit'[w].step = visit[w].step
      BY <2>3, <2>6, <2>7 DEF IsOpen
    <3>2. QED
      BY <2>2, <3>1 DEF Position, IsOpen
  <2>16. OpenRuns'
    BY <2>2, <2>9, <2>10 DEF OpenRuns, IsOpen, Untouched
  <2>17. QED
    BY <2>11, <2>12, <2>13, <2>14, <2>15, <2>16
<1>3. QED
  BY <1>1, <1>2 DEF ReassignStepVisit

\* A commit preserves Inv if it keeps the rows other calls depend on and leaves the
\* runs and visits consistent.
LEMMA CommitInvIf ==
  ASSUME Inv, NEW c \in Callers, Commit(c),
         \A d \in Callers : d # c => RowsKept(d),
         \A d \in Callers : d # c /\ Starting(d) =>
           OpenRunsIn(workflow', arg[d].pair) = {},
         Position',
         \A r, q \in RunId :
           /\ IsOpen(workflow'[r])
           /\ IsOpen(workflow'[q])
           /\ workflow'[r].pair = workflow'[q].pair
           => r = q,
         \A r \in RunId : workflow'[r] # None => workflow'[r].started <= clock
  PROVE  Inv'
<1> USE DEF Inv
<1>1. /\ pc' = [pc EXCEPT ![c] = "idle"] /\ arg' = [arg EXCEPT ![c] = NoArg]
      /\ tx' = [tx EXCEPT ![c] = NoTx]
      /\ wrun' = [wrun EXCEPT ![c] = NoRuns] /\ wvis' = [wvis EXCEPT ![c] = NoVisits]
      /\ clock' = clock /\ definition' = definition
      /\ workflow' = Overlay(workflow, wrun[c])
      /\ visit' = Overlay(visit, wvis[c])
  BY DEF Commit, Return, End, Goto, TxWorkflow, TxVisit
<1>2. CoreType'
  <2>1. /\ workflow' \in [RunId -> RunRow \cup {None}]
        /\ visit' \in [VisitId -> VisitRow \cup {None}]
    BY <1>1 DEF CoreType, Overlay
  <2>2. QED
    BY <1>1, <2>1 DEF CoreType, PC, Arg, NoArg, Tx, NoTx, NoRuns, NoVisits
<1>3. \A d \in Callers : d # c => Untouched(d)
  BY <1>1 DEF CoreType, Untouched
<1>4. /\ pc'[c] = "idle" /\ arg'[c] = NoArg /\ tx'[c] = NoTx
      /\ wrun'[c] = NoRuns /\ wvis'[c] = NoVisits
  BY <1>1 DEF CoreType
<1>5. ASSUME NEW d \in Callers
      PROVE  LocalsAt(d)' /\ Writes(d)'
  <2>1. CASE d = c
    <3>1. LocalsAt(c)'
      BY <1>4 DEF LocalsAt, StartPC, CompletePC, Deciding, NoTx
    <3>2. Writes(c)'
      BY <1>4 DEF Writes, Starting, Deciding, NoRuns, NoVisits
    <3>3. QED
      BY <2>1, <3>1, <3>2
  <2>2. CASE d # c
    BY <1>3, <2>2, OtherLocals
  <2>3. QED
    BY <2>1, <2>2
<1>6. Fresh'
  <2>1. \A d \in Callers : pc[d] \in StartPC => tx[d].run # None
    BY EngineAssumption DEF LocalsAt
  <2>2. QED
    BY <1>3, <1>4, <2>1 DEF Fresh, Untouched, NoTx, StartPC
<1>7. Locks'
  BY <1>3, <1>4 DEF Locks, Untouched, Starting, Deciding
<1>8. OpenRuns'
  <2>1. clock \in Nat
    BY DEF CoreType
  <2>2. \A d \in Callers : tx'[d].began <= clock'
    BY <1>1, <1>3, <1>4, <2>1 DEF OpenRuns, Untouched, NoTx
  <2>3. QED
    BY <1>1, <2>2 DEF OpenRuns, IsOpen
<1>9. QED
  BY <1>2, <1>5, <1>6, <1>7, <1>8

\* What the commit of a Start does to the tables.
LEMMA StartEffect ==
  ASSUME Inv, NEW c \in Callers, Commit(c), pc[c] = "commitStart",
         NEW r, r = tx[c].run, NEW v, v = tx[c].fresh, NEW row, row = NewRun(c),
         NEW new, new = NewVisit(c, tx[c].graph, Entry[tx[c].graph])
  PROVE  /\ r \in RunId /\ workflow[r] = None /\ v \in VisitId /\ visit[v] = None
         /\ row \in RunRow /\ row # None /\ new \in VisitRow /\ new # None
         /\ workflow'[r] = row /\ \A q \in RunId : q # r => workflow'[q] = workflow[q]
         /\ visit'[v] = new /\ \A w \in VisitId : w # v => visit'[w] = visit[w]
<1> USE DEF Inv
<1>1. /\ r \in RunId /\ workflow[r] = None /\ v \in VisitId /\ visit[v] = None
  BY EngineAssumption DEF LocalsAt, StartPC
<1>2. row \in RunRow /\ row # None /\ new \in VisitRow /\ new # None
  BY StartRows
<1>3. /\ wrun[c] = [NoRuns EXCEPT ![r] = row]
      /\ wvis[c] = [NoVisits EXCEPT ![v] = new]
  BY DEF Writes, Starting
<1>4. workflow' = Overlay(workflow, wrun[c]) /\ visit' = Overlay(visit, wvis[c])
  BY DEF Commit, TxWorkflow, TxVisit
<1>5. /\ workflow \in [RunId -> RunRow \cup {None}]
      /\ visit \in [VisitId -> VisitRow \cup {None}]
  BY DEF CoreType
<1>6. workflow' = [workflow EXCEPT ![r] = row]
  BY <1>1, <1>2, <1>3, <1>4, <1>5 DEF Overlay, NoRuns
<1>7. visit' = [visit EXCEPT ![v] = new]
  BY <1>1, <1>2, <1>3, <1>4, <1>5 DEF Overlay, NoVisits
<1>8. QED
  BY <1>1, <1>2, <1>5, <1>6, <1>7

\* A committed Start: one run more, on its entry step.
LEMMA CommitStartInv ==
  ASSUME Inv, NEW c \in Callers, Commit(c), pc[c] = "commitStart"
  PROVE  Inv'
<1> USE DEF Inv
<1> DEFINE r == tx[c].run
           v == tx[c].fresh
           row == NewRun(c)
           new == NewVisit(c, tx[c].graph, Entry[tx[c].graph])
<1>1. tx[c].graph \in Graphs /\ Entry[tx[c].graph] \in Steps
  BY DEF LocalsAt
<1>2. /\ row.pair = arg[c].pair /\ IsOpen(row) /\ row.started = tx[c].began
      /\ row.graph = tx[c].graph
      /\ row.status = StatusOf[tx[c].graph][Entry[tx[c].graph]]
      /\ IsOpen(new) /\ new.run = r /\ new.step = Entry[tx[c].graph]
  BY StartRows DEF IsOpen, NewRun, NewVisit
<1>3. /\ r \in RunId /\ workflow[r] = None /\ v \in VisitId /\ visit[v] = None
      /\ row # None /\ new # None
      /\ workflow'[r] = row /\ \A q \in RunId : q # r => workflow'[q] = workflow[q]
      /\ visit'[v] = new /\ \A w \in VisitId : w # v => visit'[w] = visit[w]
  BY StartEffect
<1> HIDE DEF r, v, row, new
<1>4. ASSUME NEW w \in VisitId, visit[w] # None
      PROVE  w # v /\ visit[w].run \in RunId /\ visit[w].run # r
  BY <1>3, <1>4 DEF CoreType, VisitRow, Position
<1>5. ASSUME NEW d \in Callers, d # c
      PROVE  RowsKept(d)
  <2>1. /\ pc[d] \in StartPC => tx[d].run \in RunId /\ tx[d].run # r
        /\ tx[d].fresh # None => tx[d].fresh \in VisitId /\ tx[d].fresh # v
    BY <1>3, <1>5, EngineAssumption DEF Fresh, LocalsAt, StartPC, r, v
  <2>2. Deciding(d) => /\ arg[d].visit \in VisitId /\ arg[d].visit # v
                       /\ tx[d].run \in RunId /\ tx[d].run # r
    BY <1>4, DecidedRun DEF IsOpen
  <2>3. QED
    BY <1>2, <1>3, <2>1, <2>2 DEF RowsKept, LocalsAt
<1>6. ASSUME NEW d \in Callers, d # c, Starting(d)
      PROVE  OpenRunsIn(workflow', arg[d].pair) = {}
  <2>1. arg[d].pair # row.pair /\ OpenRunsIn(workflow, arg[d].pair) = {}
    BY <1>2, <1>3, <1>6 DEF Locks, Starting
  <2>2. QED
    BY <1>3, <2>1 DEF OpenRunsIn
<1>7. Position'
  <2>1. \A w \in VisitId : visit'[w] # None => workflow'[visit'[w].run] # None
    BY <1>2, <1>3, <1>4 DEF Position
  <2>2. ASSUME NEW w \in VisitId, IsOpen(visit'[w])
        PROVE  /\ IsOpen(workflow'[visit'[w].run])
               /\ workflow'[visit'[w].run].status
                    = StatusOf[workflow'[visit'[w].run].graph][visit'[w].step]
    <3>1. CASE w = v
      BY <1>2, <1>3, <3>1
    <3>2. CASE w # v
      BY <1>3, <1>4, <2>2, <3>2 DEF Position, IsOpen
    <3>3. QED
      BY <3>1, <3>2
  <2>3. \A w, u \in VisitId :
          IsOpen(visit'[w]) /\ IsOpen(visit'[u]) /\ visit'[w].run = visit'[u].run => w = u
    BY <1>2, <1>3, <1>4 DEF Position, IsOpen
  <2>4. \A q \in RunId : IsOpen(workflow'[q]) =>
          \E w \in VisitId : IsOpen(visit'[w]) /\ visit'[w].run = q
    BY <1>2, <1>3, <1>4 DEF Position, IsOpen
  <2>5. QED
    BY <2>1, <2>2, <2>3, <2>4 DEF Position, IsOpen
<1>8. \A q, s \in RunId :
         /\ IsOpen(workflow'[q])
         /\ IsOpen(workflow'[s])
         /\ workflow'[q].pair = workflow'[s].pair
         => q = s
  <2>1. \A q \in RunId : IsOpen(workflow[q]) => workflow[q].pair # row.pair
    BY <1>2, <1>3 DEF Locks, Starting, OpenRunsIn
  <2>2. QED
    BY <1>3, <2>1 DEF OpenRuns
<1>9. \A q \in RunId : workflow'[q] # None => workflow'[q].started <= clock
  BY <1>2, <1>3 DEF OpenRuns
<1>10. QED
  BY <1>5, <1>6, <1>7, <1>8, <1>9, CommitInvIf

\* Nobody else depends on the run a decision moves, nor on the visit it closes.
LEMMA DecidedAlone ==
  ASSUME Inv, NEW c \in Callers, Deciding(c), NEW d \in Callers, d # c,
         workflow'[tx[c].run] # None,
         \A q \in RunId : q # tx[c].run => workflow'[q] = workflow[q],
         \A w \in VisitId : w # arg[c].visit /\ w # tx[c].fresh => visit'[w] = visit[w]
  PROVE  RowsKept(d)
<1> USE DEF Inv
<1>1. pc[d] \in StartPC => tx[d].run \in RunId /\ tx[d].run # tx[c].run
  BY DecidedRun DEF LocalsAt, IsOpen
<1>2. Deciding(d) => /\ arg[d].visit \in VisitId
                     /\ arg[d].visit # arg[c].visit /\ arg[d].visit # tx[c].fresh
                     /\ tx[d].run \in RunId /\ tx[d].run # tx[c].run
  <2>1. tx[c].fresh \in VisitId /\ visit[tx[c].fresh] = None
    BY EngineAssumption DEF LocalsAt, Deciding, CompletePC
  <2>2. Deciding(d) => arg[d].visit # arg[c].visit
    BY DEF Locks
  <2>3. QED
    BY <2>1, <2>2, DecidedRun DEF Position, IsOpen
<1>3. tx[d].fresh # None =>
        tx[d].fresh \in VisitId /\ tx[d].fresh # tx[c].fresh /\ tx[d].fresh # arg[c].visit
  BY DecidedRun DEF Fresh, LocalsAt, IsOpen
<1>4. QED
  BY <1>1, <1>2, <1>3 DEF RowsKept, LocalsAt

\* What the commit of a decision that finishes its run does to the tables.
LEMMA FinishEffect ==
  ASSUME Inv, NEW c \in Callers, Commit(c), pc[c] = "commitStep",
         NEW t, t = Target[tx[c].graph][arg[c].action[2]], t \notin Steps,
         NEW r, r = tx[c].run, NEW v, v = arg[c].visit,
         NEW row, row = ClosedRun(c, t), NEW old, old = ClosedVisit(c)
  PROVE  /\ row \in RunRow /\ row # None
         /\ workflow'[r] = row /\ \A q \in RunId : q # r => workflow'[q] = workflow[q]
         /\ visit'[v] = old /\ \A w \in VisitId : w # v => visit'[w] = visit[w]
<1> USE DEF Inv
<1>1. v \in VisitId /\ r \in RunId /\ old \in VisitRow /\ old # None
  BY DecidedRun DEF Deciding
<1>2. row \in RunRow /\ row # None
  BY AdvanceRows
<1>3. /\ wrun[c] = [NoRuns EXCEPT ![r] = row]
      /\ wvis[c] = [NoVisits EXCEPT ![v] = old]
  BY DEF Writes
<1>4. workflow' = Overlay(workflow, wrun[c]) /\ visit' = Overlay(visit, wvis[c])
  BY DEF Commit, TxWorkflow, TxVisit
<1>5. /\ workflow \in [RunId -> RunRow \cup {None}]
      /\ visit \in [VisitId -> VisitRow \cup {None}]
  BY DEF CoreType
<1>6. workflow' = [workflow EXCEPT ![r] = row]
  BY <1>1, <1>2, <1>3, <1>4, <1>5 DEF Overlay, NoRuns
<1>7. visit' = [visit EXCEPT ![v] = old]
  BY <1>1, <1>3, <1>4, <1>5 DEF Overlay, NoVisits
<1>8. QED
  BY <1>1, <1>2, <1>5, <1>6, <1>7

\* A committed decision that finishes its run.
LEMMA CommitFinishInv ==
  ASSUME Inv, NEW c \in Callers, Commit(c), pc[c] = "commitStep",
         Target[tx[c].graph][arg[c].action[2]] \notin Steps
  PROVE  Inv'
<1> USE DEF Inv
<1> DEFINE t == Target[tx[c].graph][arg[c].action[2]]
           r == tx[c].run
           v == arg[c].visit
           row == ClosedRun(c, t)
           old == ClosedVisit(c)
<1>1. Deciding(c)
  BY DEF Deciding
<1>2. /\ v \in VisitId /\ visit[v] \in VisitRow /\ IsOpen(visit[v]) /\ visit[v].run = r
      /\ r \in RunId /\ workflow[r] \in RunRow /\ IsOpen(workflow[r])
      /\ old \in VisitRow /\ old # None /\ ~IsOpen(old) /\ old.run = r
  BY <1>1, DecidedRun DEF IsOpen
<1>3. ~IsOpen(row) /\ row.started = workflow[r].started
  <2>1. tx[c].began \in Nat
    BY DEF CoreType, Tx
  <2>2. row.completed = tx[c].began /\ row.started = workflow[r].started
    BY <1>2 DEF ClosedRun, RunRow
  <2>3. QED
    BY <2>1, <2>2, EngineAssumption DEF IsOpen
<1>4. /\ row # None
      /\ workflow'[r] = row /\ \A q \in RunId : q # r => workflow'[q] = workflow[q]
      /\ visit'[v] = old /\ \A w \in VisitId : w # v => visit'[w] = visit[w]
  BY FinishEffect
<1> HIDE DEF r, v, row, old, t
<1>5. ASSUME NEW w \in VisitId, visit[w] # None
      PROVE  visit[w].run \in RunId /\ workflow[visit[w].run] # None
  BY <1>5 DEF CoreType, VisitRow, Position
<1>6. ASSUME NEW w \in VisitId, IsOpen(visit'[w])
      PROVE  w # v /\ visit'[w] = visit[w] /\ visit[w].run # r
  BY <1>2, <1>4, <1>6 DEF Position
<1>7. \A d \in Callers : d # c => RowsKept(d)
  BY <1>1, <1>4, DecidedAlone DEF r, v
<1>8. \A d \in Callers : d # c /\ Starting(d) => OpenRunsIn(workflow', arg[d].pair) = {}
  BY <1>3, <1>4 DEF Locks, OpenRunsIn
<1>9. Position'
  <2>1. \A w \in VisitId : visit'[w] # None => workflow'[visit'[w].run] # None
    BY <1>2, <1>4, <1>5
  <2>2. \A w \in VisitId : IsOpen(visit'[w]) =>
          /\ IsOpen(workflow'[visit'[w].run])
          /\ workflow'[visit'[w].run].status
               = StatusOf[workflow'[visit'[w].run].graph][visit'[w].step]
    BY <1>4, <1>5, <1>6 DEF Position, IsOpen
  <2>3. \A w, u \in VisitId :
          IsOpen(visit'[w]) /\ IsOpen(visit'[u]) /\ visit'[w].run = visit'[u].run => w = u
    BY <1>6 DEF Position
  <2>4. ASSUME NEW q \in RunId, IsOpen(workflow'[q])
        PROVE  \E w \in VisitId : IsOpen(visit'[w]) /\ visit'[w].run = q
    <3>1. q # r /\ IsOpen(workflow[q])
      BY <1>3, <1>4, <2>4
    <3>2. PICK w \in VisitId : IsOpen(visit[w]) /\ visit[w].run = q
      BY <3>1 DEF Position
    <3>3. QED
      BY <1>2, <1>4, <3>1, <3>2
  <2>5. QED
    BY <2>1, <2>2, <2>3, <2>4 DEF Position, IsOpen
<1>10. \A q, s \in RunId :
         /\ IsOpen(workflow'[q])
         /\ IsOpen(workflow'[s])
         /\ workflow'[q].pair = workflow'[s].pair
         => q = s
  BY <1>3, <1>4 DEF OpenRuns
<1>11. \A q \in RunId : workflow'[q] # None => workflow'[q].started <= clock
  BY <1>2, <1>3, <1>4 DEF OpenRuns, IsOpen
<1>12. QED
  BY <1>7, <1>8, <1>9, <1>10, <1>11, CommitInvIf

\* What the commit of a decision that routes its run does to the tables.
LEMMA RouteEffect ==
  ASSUME Inv, NEW c \in Callers, Commit(c), pc[c] = "commitStep",
         NEW t, t = Target[tx[c].graph][arg[c].action[2]], t \in Steps,
         NEW r, r = tx[c].run, NEW v, v = arg[c].visit, NEW f, f = tx[c].fresh,
         NEW row, row = RoutedRun(c, t), NEW old, old = ClosedVisit(c),
         NEW new, new = NewVisit(c, tx[c].graph, t)
  PROVE  /\ row \in RunRow /\ row # None /\ new \in VisitRow /\ new # None
         /\ f \in VisitId /\ visit[f] = None /\ f # v
         /\ workflow'[r] = row /\ \A q \in RunId : q # r => workflow'[q] = workflow[q]
         /\ visit'[v] = old /\ visit'[f] = new
         /\ \A w \in VisitId : w # v /\ w # f => visit'[w] = visit[w]
<1> USE DEF Inv
<1>1. /\ v \in VisitId /\ visit[v] # None /\ r \in RunId
      /\ old \in VisitRow /\ old # None
  BY DecidedRun DEF Deciding, IsOpen
<1>2. row \in RunRow /\ row # None /\ new \in VisitRow /\ new # None
  BY AdvanceRows
<1>3. f \in VisitId /\ visit[f] = None /\ f # v
  <2>1. f \in VisitId
    BY DEF LocalsAt, CompletePC
  <2>2. visit[f] = None
    BY <2>1, EngineAssumption DEF LocalsAt
  <2> QED BY <1>1, <2>1, <2>2
<1>4. /\ wrun[c] = [NoRuns EXCEPT ![r] = row]
      /\ wvis[c] = [NoVisits EXCEPT ![v] = old, ![f] = new]
  BY DEF Writes
<1>5. workflow' = Overlay(workflow, wrun[c]) /\ visit' = Overlay(visit, wvis[c])
  BY DEF Commit, TxWorkflow, TxVisit
<1>6. /\ workflow \in [RunId -> RunRow \cup {None}]
      /\ visit \in [VisitId -> VisitRow \cup {None}]
  BY DEF CoreType
<1>7. workflow' = [workflow EXCEPT ![r] = row]
  BY <1>1, <1>2, <1>4, <1>5, <1>6 DEF Overlay, NoRuns
<1>8. /\ wvis[c][v] = old /\ wvis[c][f] = new
      /\ \A w \in VisitId : w # v /\ w # f => wvis[c][w] = None
  BY <1>1, <1>3, <1>4 DEF NoVisits
<1>9. \A w \in VisitId :
        visit'[w] = IF wvis[c][w] = None THEN visit[w] ELSE wvis[c][w]
  BY <1>5, <1>6 DEF Overlay
<1>10. /\ workflow'[r] = row /\ \A q \in RunId : q # r => workflow'[q] = workflow[q]
       /\ visit'[v] = old /\ visit'[f] = new
       /\ \A w \in VisitId : w # v /\ w # f => visit'[w] = visit[w]
  BY <1>1, <1>2, <1>3, <1>6, <1>7, <1>8, <1>9
<1>11. QED
  BY <1>1, <1>2, <1>3, <1>10

\* A committed decision that routes its run to the next step.
LEMMA CommitRouteInv ==
  ASSUME Inv, NEW c \in Callers, Commit(c), pc[c] = "commitStep",
         Target[tx[c].graph][arg[c].action[2]] \in Steps
  PROVE  Inv'
<1> USE DEF Inv
<1> DEFINE t == Target[tx[c].graph][arg[c].action[2]]
           r == tx[c].run
           v == arg[c].visit
           f == tx[c].fresh
           row == RoutedRun(c, t)
           old == ClosedVisit(c)
           new == NewVisit(c, tx[c].graph, t)
<1>1. Deciding(c)
  BY DEF Deciding
<1>2. /\ v \in VisitId /\ visit[v] \in VisitRow /\ IsOpen(visit[v]) /\ visit[v].run = r
      /\ r \in RunId /\ workflow[r] \in RunRow /\ IsOpen(workflow[r])
      /\ old \in VisitRow /\ old # None /\ ~IsOpen(old) /\ old.run = r
  BY <1>1, DecidedRun DEF IsOpen
<1>3. /\ row # None /\ new # None /\ f \in VisitId /\ visit[f] = None /\ f # v
      /\ workflow'[r] = row /\ \A q \in RunId : q # r => workflow'[q] = workflow[q]
      /\ visit'[v] = old /\ visit'[f] = new
      /\ \A w \in VisitId : w # v /\ w # f => visit'[w] = visit[w]
  BY RouteEffect
<1>4. /\ IsOpen(row) /\ row.started = workflow[r].started
      /\ row.pair = workflow[r].pair /\ row.graph = workflow[r].graph
      /\ row.status = StatusOf[row.graph][t]
      /\ IsOpen(new) /\ new.run = r /\ new.step = t
  <2>1. tx[c].graph = workflow[r].graph
    BY DEF LocalsAt
  <2>2. /\ row.completed = workflow[r].completed /\ row.started = workflow[r].started
        /\ row.pair = workflow[r].pair /\ row.graph = workflow[r].graph
        /\ row.status = StatusOf[tx[c].graph][t]
    BY <1>2 DEF RoutedRun, RunRow
  <2>3. new.completed = None /\ new.run = r /\ new.step = t
    BY DEF NewVisit
  <2>4. QED
    BY <1>2, <1>3, <2>1, <2>2, <2>3 DEF IsOpen
<1> HIDE DEF r, v, f, row, old, new, t
<1>5. ASSUME NEW w \in VisitId, visit[w] # None
      PROVE  w # f /\ visit[w].run \in RunId /\ workflow[visit[w].run] # None
  BY <1>3, <1>5 DEF CoreType, VisitRow, Position
<1>6. ASSUME NEW w \in VisitId, IsOpen(visit'[w]), w # f
       PROVE  w # v /\ visit'[w] = visit[w] /\ visit[w].run # r
  BY <1>2, <1>3, <1>6 DEF Position
<1>7. \A d \in Callers : d # c => RowsKept(d)
  BY <1>1, <1>3, DecidedAlone DEF r, v, f
<1>8. \A d \in Callers : d # c /\ Starting(d) => OpenRunsIn(workflow', arg[d].pair) = {}
  BY <1>2, <1>3, <1>4 DEF Locks, OpenRunsIn
<1>9. Position'
  <2>1. \A w \in VisitId : visit'[w] # None => workflow'[visit'[w].run] # None
    BY <1>2, <1>3, <1>4, <1>5
  <2>2. ASSUME NEW w \in VisitId, IsOpen(visit'[w])
        PROVE  /\ IsOpen(workflow'[visit'[w].run])
               /\ workflow'[visit'[w].run].status
                    = StatusOf[workflow'[visit'[w].run].graph][visit'[w].step]
    <3>1. CASE w = f
      BY <1>3, <1>4, <3>1
    <3>2. CASE w # f
      BY <1>3, <1>5, <1>6, <2>2, <3>2 DEF Position, IsOpen
    <3>3. QED
      BY <3>1, <3>2
  <2>3. ASSUME NEW w \in VisitId, NEW u \in VisitId,
               IsOpen(visit'[w]), IsOpen(visit'[u]), visit'[w].run = visit'[u].run
        PROVE  w = u
    BY <1>3, <1>4, <1>6, <2>3 DEF Position
  <2>4. ASSUME NEW q \in RunId, IsOpen(workflow'[q])
        PROVE  \E w \in VisitId : IsOpen(visit'[w]) /\ visit'[w].run = q
    <3>1. CASE q = r
      BY <1>3, <1>4, <3>1
    <3>2. CASE q # r
      <4>1. PICK w \in VisitId : IsOpen(visit[w]) /\ visit[w].run = q
        BY <1>3, <2>4, <3>2 DEF Position
      <4>2. QED
        BY <1>2, <1>3, <1>5, <3>2, <4>1 DEF IsOpen
    <3>3. QED
      BY <3>1, <3>2
  <2>5. QED
    BY <2>1, <2>2, <2>3, <2>4 DEF Position, IsOpen
<1>10. \A q, s \in RunId :
         /\ IsOpen(workflow'[q])
         /\ IsOpen(workflow'[s])
         /\ workflow'[q].pair = workflow'[s].pair
         => q = s
  BY <1>2, <1>3, <1>4 DEF OpenRuns
<1>11. \A q \in RunId : workflow'[q] # None => workflow'[q].started <= clock
  BY <1>2, <1>3, <1>4 DEF OpenRuns, IsOpen
<1>12. QED
  BY <1>7, <1>8, <1>9, <1>10, <1>11, CommitInvIf

-----------------------------------------------------------------------------
(* The inductive invariant.                                                *)

\* The Catalog's edits reach no run.
LEMMA EditDefinitionInv ==
  ASSUME Inv, NEW d \in Definitions, NEW g \in Graphs \cup {None}, EditDefinition(d, g)
  PROVE  Inv'
<1> USE DEF Inv
<1>1. /\ definition' = [definition EXCEPT ![d] = g]
      /\ UNCHANGED <<workflow, visit, clock, pc, arg, tx, wrun, wvis>>
  BY DEF EditDefinition
<1>2. CoreType'
  BY <1>1 DEF CoreType
<1>3. ASSUME NEW c \in Callers
      PROVE  LocalsAt(c)' /\ Writes(c)'
  <2>1. Untouched(c) /\ RowsKept(c)
    BY <1>1 DEF Untouched, RowsKept, LocalsAt
  <2>2. QED
    BY <2>1, OtherLocals
<1>4. Fresh' /\ Locks' /\ Position' /\ OpenRuns'
  BY <1>1 DEF Fresh, Locks, Position, OpenRuns, Starting, Deciding, OpenRunsIn, IsOpen
<1>5. QED
  BY <1>2, <1>3, <1>4

LEMMA StutterInv ==
  ASSUME Inv, UNCHANGED vars
  PROVE  Inv'
<1> USE DEF Inv
<1>1. UNCHANGED <<definition, workflow, visit, clock, pc, arg, tx, wrun, wvis>>
  BY DEF vars
<1>2. CoreType'
  BY <1>1 DEF CoreType
<1>3. ASSUME NEW c \in Callers
      PROVE  LocalsAt(c)' /\ Writes(c)'
  <2>1. Untouched(c) /\ RowsKept(c)
    BY <1>1 DEF Untouched, RowsKept, LocalsAt
  <2>2. QED
    BY <2>1, OtherLocals
<1>4. Fresh' /\ Locks' /\ Position' /\ OpenRuns'
  BY <1>1 DEF Fresh, Locks, Position, OpenRuns, Starting, Deciding, OpenRunsIn, IsOpen
<1>5. QED
  BY <1>2, <1>3, <1>4

LEMMA CommitInv ==
  ASSUME Inv, NEW c \in Callers, Commit(c)
  PROVE  Inv'
<1>1. CASE pc[c] = "commitStart"
  BY <1>1, CommitStartInv
<1>2. CASE pc[c] = "commitStep"
  BY <1>2, CommitFinishInv, CommitRouteInv
<1>3. QED
  BY <1>1, <1>2 DEF Commit

LEMMA InitInv == Init => Inv
<1> SUFFICES ASSUME Init PROVE Inv
  OBVIOUS
<1> USE DEF Init
<1>1. CoreType
  BY DEF CoreType, PC, Arg, NoArg, Tx, NoTx, NoRuns, NoVisits
<1>2. ASSUME NEW c \in Callers
      PROVE  LocalsAt(c) /\ Writes(c)
  <2>1. pc[c] = "idle" /\ tx[c] = NoTx /\ wrun[c] = NoRuns /\ wvis[c] = NoVisits
    BY <1>2
  <2>2. LocalsAt(c)
    BY <2>1 DEF LocalsAt, StartPC, CompletePC, Deciding, NoTx
  <2>3. Writes(c)
    BY <2>1 DEF Writes, Starting, Deciding
  <2>4. QED
    BY <2>2, <2>3
<1>3. Fresh /\ Locks
  BY DEF Fresh, Locks, Starting, Deciding, StartPC, NoTx
<1>4. Position /\ OpenRuns
  BY EngineAssumption DEF Position, OpenRuns, IsOpen, NoRuns, NoVisits, NoTx
<1>5. QED
  BY <1>1, <1>2, <1>3, <1>4 DEF Inv

LEMMA NextInv == Inv /\ [Next]_vars => Inv'
<1> SUFFICES ASSUME Inv, [Next]_vars PROVE Inv'
  OBVIOUS
<1>1. ASSUME NEW c \in Callers, MakeCall(c)
      PROVE  Inv'
  BY <1>1, StartCallInv, GetStateCallInv, CompleteCallInv, ReassignCallInv DEF MakeCall
<1>2. ASSUME NEW c \in Callers, Statement(c)
      PROVE  Inv'
  <2>1. CASE ReadDefinition(c) \/ InsertWorkflow(c) \/ WriteSnapshot(c)
    BY <2>1, ReadDefinitionInv, InsertWorkflowInv, WriteSnapshotInv
  <2>2. CASE CompleteStepVisit(c) \/ GetActionForStep(c)
    BY <2>2, CompleteStepVisitInv, GetActionForStepInv
  <2>3. CASE Advance(c) \/ UpdateWorkflowStatus(c)
    BY <2>3, AdvanceInv, UpdateWorkflowStatusInv
  <2>4. CASE Commit(c)
    BY <2>4, CommitInv
  <2>5. CASE ReassignStepVisit(c) \/ GetWorkflowIDBySubject(c)
    BY <2>5, ReassignStepVisitInv, GetWorkflowIDBySubjectInv
  <2>6. CASE GetWorkflowState(c) \/ ReadState(c)
    BY <2>6, EndInv DEF GetWorkflowState, ReadState, Return
  <2>7. QED
    BY <1>2, <2>1, <2>2, <2>3, <2>4, <2>5, <2>6 DEF Statement
<1>3. ASSUME NEW c \in Callers, Fail(c)
      PROVE  Inv'
  BY <1>3, EndInv DEF Fail
<1>4. ASSUME NEW d \in Definitions, NEW g \in Graphs \cup {None}, EditDefinition(d, g)
      PROVE  Inv'
  BY <1>4, EditDefinitionInv
<1>5. CASE UNCHANGED vars
  BY <1>5, StutterInv
<1>6. QED
  BY <1>1, <1>2, <1>3, <1>4, <1>5 DEF Next

\* Whatever the callers do, in whatever order their statements reach the database,
\* the tables and the open transactions are as Inv says.
THEOREM Invariance == Spec => []Inv
<1>1. Init => Inv
  BY InitInv
<1>2. Inv /\ [Next]_vars => Inv'
  BY NextInv
<1>3. QED
  BY <1>1, <1>2, PTL DEF Spec

-----------------------------------------------------------------------------
(* What it means for the tables.                                           *)

\* However many Starts race, a subject has one open run through a definition.
THEOREM OneActiveRunHolds == Spec => []OneActiveRun
<1>1. Inv => OneActiveRun
  BY DEF Inv, OpenRuns, OneActiveRun, KnownRuns
<1>2. QED
  BY <1>1, Invariance, PTL

\* However many decisions race, an open run is on one step, and a finished one on
\* none.
THEOREM OneCurrentStepHolds == Spec => []OneCurrentStep
<1>1. ASSUME Inv
      PROVE  OneCurrentStep
  <2>1. ASSUME NEW r \in KnownRuns
        PROVE  IF IsOpen(workflow[r])
               THEN \E v \in VisitId : OpenVisitsIn(visit, r) = {v}
               ELSE OpenVisitsIn(visit, r) = {}
    <3>1. r \in RunId
      BY DEF KnownRuns
    <3>2. CASE IsOpen(workflow[r])
      <4>1. PICK v \in VisitId : IsOpen(visit[v]) /\ visit[v].run = r
        BY <1>1, <3>1, <3>2 DEF Inv, Position
      <4>2. OpenVisitsIn(visit, r) = {v}
        BY <1>1, <4>1 DEF Inv, Position, OpenVisitsIn
      <4>3. QED
        BY <3>2, <4>2
    <3>3. CASE ~IsOpen(workflow[r])
      BY <1>1, <3>3 DEF Inv, Position, OpenVisitsIn
    <3>4. QED
      BY <3>2, <3>3
  <2>2. \A v \in KnownVisits : workflow[visit[v].run] # None
    BY <1>1 DEF Inv, Position, KnownVisits
  <2>3. QED
    BY <2>1, <2>2 DEF OneCurrentStep
<1>2. QED
  BY <1>1, Invariance, PTL

\* The status column and the position never drift apart.
THEOREM StatusIsPositionalHolds == Spec => []StatusIsPositional
<1>1. Inv => StatusIsPositional
  BY DEF Inv, Position, StatusIsPositional, OpenVisitsIn
<1>2. QED
  BY <1>1, Invariance, PTL

\* A decision closes one visit, keeps the graph of one run, and may add a visit.
LEMMA DecisionEffect ==
  ASSUME Inv, NEW c \in Callers, Commit(c), pc[c] = "commitStep"
  PROVE  /\ \A q \in RunId : q # tx[c].run => workflow'[q] = workflow[q]
         /\ workflow'[tx[c].run] # None
         /\ workflow'[tx[c].run].graph = workflow[tx[c].run].graph
         /\ \A w \in VisitId : visit[w] # None /\ w # arg[c].visit => visit'[w] = visit[w]
         /\ visit'[arg[c].visit] = ClosedVisit(c)
<1> DEFINE t == Target[tx[c].graph][arg[c].action[2]]
           r == tx[c].run
           v == arg[c].visit
           old == ClosedVisit(c)
<1>1. workflow[r] \in RunRow
  BY DecidedRun DEF Deciding
<1>2. CASE t \notin Steps
  <2> DEFINE row == ClosedRun(c, t)
  <2>1. /\ row # None
        /\ workflow'[r] = row /\ \A q \in RunId : q # r => workflow'[q] = workflow[q]
        /\ visit'[v] = old /\ \A w \in VisitId : w # v => visit'[w] = visit[w]
    BY <1>2, FinishEffect
  <2>2. row.graph = workflow[r].graph
    BY <1>1 DEF ClosedRun, RunRow
  <2> QED BY <2>1, <2>2
<1>3. CASE t \in Steps
  <2> DEFINE f == tx[c].fresh
             row == RoutedRun(c, t)
             new == NewVisit(c, tx[c].graph, t)
  <2>1. /\ row # None /\ new # None /\ f \in VisitId /\ visit[f] = None /\ f # v
        /\ workflow'[r] = row /\ \A q \in RunId : q # r => workflow'[q] = workflow[q]
        /\ visit'[v] = old /\ visit'[f] = new
        /\ \A w \in VisitId : w # v /\ w # f => visit'[w] = visit[w]
    BY <1>3, RouteEffect
  <2>2. row.graph = workflow[r].graph
    BY <1>1 DEF RoutedRun, RunRow
  <2> QED BY <2>1, <2>2
<1> QED BY <1>2, <1>3

\* The steps that change a run or a visit: a commit, and a reassignment.
LEMMA WhoWrites ==
  ASSUME [Next]_vars
  PROVE  \/ UNCHANGED <<workflow, visit>>
         \/ \E c \in Callers : Commit(c)
         \/ \E c \in Callers : ReassignStepVisit(c) /\ ~UNCHANGED visit
<1>1. ASSUME NEW c \in Callers, MakeCall(c) \/ Statement(c) \/ Fail(c)
      PROVE  \/ UNCHANGED <<workflow, visit>>
             \/ Commit(c)
             \/ ReassignStepVisit(c) /\ UNCHANGED workflow
  <2>1. CASE MakeCall(c)
    <3>1. ASSUME NEW p, StartCall(c, p) PROVE UNCHANGED <<workflow, visit>>
      BY <3>1 DEF StartCall, TimedCall, Call, tables
    <3>2. ASSUME NEW p, GetStateCall(c, p) PROVE UNCHANGED <<workflow, visit>>
      BY <3>2 DEF GetStateCall, Call, tables
    <3>3. ASSUME NEW v, NEW a, CompleteCall(c, v, a) PROVE UNCHANGED <<workflow, visit>>
      BY <3>3 DEF CompleteCall, TimedCall, Call, tables
    <3>4. ASSUME NEW v, NEW x, ReassignCall(c, v, x) PROVE UNCHANGED <<workflow, visit>>
      BY <3>4 DEF ReassignCall, Call, tables
    <3> QED BY <2>1, <3>1, <3>2, <3>3, <3>4 DEF MakeCall
  <2>2. CASE Fail(c)
    BY <2>2 DEF Fail, tables
  <2>3. CASE ReadDefinition(c) \/ InsertWorkflow(c) \/ WriteSnapshot(c)
    BY <2>3 DEF ReadDefinition, InsertWorkflow, WriteSnapshot, Refuse, tables
  <2>4. CASE \/ CompleteStepVisit(c) \/ GetActionForStep(c)
             \/ Advance(c) \/ UpdateWorkflowStatus(c)
    BY <2>4 DEF CompleteStepVisit, GetActionForStep, Advance, UpdateWorkflowStatus,
       Refuse, tables
  <2>5. CASE GetWorkflowState(c) \/ GetWorkflowIDBySubject(c) \/ ReadState(c)
    BY <2>5 DEF GetWorkflowState, GetWorkflowIDBySubject, ReadState, Refuse, tables
  <2>6. CASE ReassignStepVisit(c)
    BY <2>6 DEF ReassignStepVisit, Refuse, tables
  <2>7. QED
    BY <1>1, <2>1, <2>2, <2>3, <2>4, <2>5, <2>6 DEF Statement
<1>2. CASE \E d \in Definitions, g \in Graphs \cup {None} : EditDefinition(d, g)
  BY <1>2 DEF EditDefinition
<1>3. CASE UNCHANGED vars
  BY <1>3 DEF vars
<1>4. QED
  BY <1>1, <1>2, <1>3 DEF Next

\* A reassignment changes the assignee of one open visit.
LEMMA ReassignEffect ==
  ASSUME Inv, NEW c \in Callers, ReassignStepVisit(c), ~UNCHANGED visit,
         NEW v, v = arg[c].visit,
         NEW row, row = [visit[v] EXCEPT !.assignee = arg[c].assignee]
  PROVE  /\ v \in VisitId /\ visit[v] \in VisitRow /\ IsOpen(visit[v])
         /\ arg[c].assignee \in Assignees
         /\ row \in VisitRow /\ row # None
         /\ workflow' = workflow
         /\ visit'[v] = row /\ \A w \in VisitId : w # v => visit'[w] = visit[w]
<1>1. Matches(v) /\ visit' = [visit EXCEPT ![v] = row] /\ workflow' = workflow
  BY DEF ReassignStepVisit, Refuse, tables
<1>2. v \in VisitId /\ IsOpen(visit[v]) /\ visit[v] \in VisitRow
  BY <1>1 DEF Matches, IsOpen, Inv, CoreType, Arg
<1>3. arg[c].assignee \in Assignees
  BY DEF ReassignStepVisit, Inv, LocalsAt
<1>4. row \in VisitRow /\ row # None
  BY <1>2, <1>3, RowAssumption DEF VisitRow
<1>5. visit'[v] = row /\ \A w \in VisitId : w # v => visit'[w] = visit[w]
  BY <1>1, <1>2 DEF Inv, CoreType
<1>6. QED
  BY <1>1, <1>2, <1>3, <1>4, <1>5

\* A step leaves what is closed as it is, and every row its place in the record.
LEMMA NothingRewrittenStep == Inv /\ [Next]_vars => NothingRewritten
<1> SUFFICES ASSUME Inv, [Next]_vars PROVE NothingRewritten
  OBVIOUS
<1>1. CASE UNCHANGED <<workflow, visit>>
  BY <1>1 DEF NothingRewritten, KnownVisits, KnownRuns
<1>2. ASSUME NEW c \in Callers, Commit(c), pc[c] = "commitStart"
      PROVE  NothingRewritten
  <2>1. /\ \A q \in RunId : workflow[q] # None => workflow'[q] = workflow[q]
        /\ \A w \in VisitId : visit[w] # None => visit'[w] = visit[w]
    BY <1>2, StartEffect
  <2>2. QED
    BY <2>1 DEF NothingRewritten, KnownVisits, KnownRuns
<1>3. ASSUME NEW c \in Callers, Commit(c), pc[c] = "commitStep"
      PROVE  NothingRewritten
  <2> DEFINE t == Target[tx[c].graph][arg[c].action[2]]
             r == tx[c].run
             v == arg[c].visit
  <2>1. /\ v \in VisitId /\ visit[v] \in VisitRow /\ IsOpen(visit[v])
        /\ r \in RunId /\ workflow[r] \in RunRow /\ IsOpen(workflow[r])
        /\ ClosedVisit(c) # None
    BY <1>3, DecidedRun DEF Deciding
  <2>2. ClosedVisit(c).run = visit[v].run /\ ClosedVisit(c).step = visit[v].step
    BY <2>1 DEF ClosedVisit, VisitRow
  <2>4. /\ \A q \in RunId : q # r => workflow'[q] = workflow[q]
        /\ workflow'[r] # None /\ workflow'[r].graph = workflow[r].graph
        /\ \A w \in VisitId : visit[w] # None /\ w # v => visit'[w] = visit[w]
        /\ visit'[v] = ClosedVisit(c)
    BY <1>3, DecisionEffect
  <2>5. QED
    BY <2>1, <2>2, <2>4 DEF NothingRewritten, KnownVisits, KnownRuns
<1>4. ASSUME NEW c \in Callers, ReassignStepVisit(c), ~UNCHANGED visit
      PROVE  NothingRewritten
  <2> DEFINE v == arg[c].visit
             row == [visit[v] EXCEPT !.assignee = arg[c].assignee]
  <2>1. /\ v \in VisitId /\ visit[v] \in VisitRow /\ IsOpen(visit[v])
        /\ row # None /\ workflow' = workflow
        /\ visit'[v] = row /\ \A w \in VisitId : w # v => visit'[w] = visit[w]
    BY <1>4, ReassignEffect
  <2>2. row.run = visit[v].run /\ row.step = visit[v].step
    BY <2>1 DEF VisitRow
  <2> HIDE DEF row, v
  <2>3. QED
    BY <2>1, <2>2 DEF NothingRewritten, KnownVisits, KnownRuns
<1>5. QED
  BY <1>1, <1>2, <1>3, <1>4, WhoWrites DEF Commit

\* A closed visit and a finished run are never changed again, and no row is lost.
THEOREM HistoryIsAppendOnlyHolds == Spec => HistoryIsAppendOnly
<1>1. Inv /\ [Next]_vars => [NothingRewritten]_<<workflow, visit>>
  BY NothingRewrittenStep
<1>2. QED
  BY <1>1, Invariance, PTL DEF Spec, HistoryIsAppendOnly

-----------------------------------------------------------------------------
(* Type correctness: the answers are made from rows that are there.        *)

\* The answers have their types, and a snapshot holds the run it is to be read for.
Answers ==
  /\ snap \in [Callers -> Rows \cup {None}]
  /\ \A c \in Callers : pc[c] = "readState" =>
       snap[c] \in Rows /\ snap[c].workflow[tx[c].run] # None
  /\ reply \in [Callers -> Reply]
  /\ seen \in [Callers -> State \cup {None}]

\* readState makes a WorkflowState of any run that is there.
LEMMA StateTyped ==
  ASSUME NEW runs \in [RunId -> RunRow \cup {None}],
         NEW visits \in [VisitId -> VisitRow \cup {None}],
         NEW r \in RunId, runs[r] # None
  PROVE  WorkflowStateIn(runs, visits, r) \in State /\ StateIn(runs, visits, r) \in State
<1> DEFINE open == OpenVisitsIn(visits, r)
           current == IF open = {} THEN None ELSE CHOOSE v \in open : TRUE
           step == IF current = None THEN None ELSE visits[current].step
           state == WorkflowStateIn(runs, visits, r)
<1>1. runs[r] \in RunRow
  OBVIOUS
<1>2. current = None \/ (current \in VisitId /\ visits[current] \in VisitRow)
  <2>1. \A v \in open : v \in VisitId /\ visits[v] \in VisitRow
    BY DEF OpenVisitsIn, IsOpen
  <2>2. open # {} => (CHOOSE v \in open : TRUE) \in open
    OBVIOUS
  <2>3. QED
    BY <2>1, <2>2
<1> HIDE DEF open
<1>3. step \in Steps \cup {None}
  BY <1>2 DEF VisitRow
<1>4. state = [run |-> r, status |-> runs[r].status,
               completed |-> runs[r].completed # None,
               visit |-> current, step |-> step, actions |-> {}]
  BY DEF WorkflowStateIn, open
<1> HIDE DEF current, step, state
<1>5. runs[r].status \in Statuses /\ runs[r].graph \in Graphs
  BY <1>1 DEF RunRow
<1>6. state \in State
  BY <1>2, <1>3, <1>4, <1>5 DEF State
<1>7. state.step = None \/
        [state EXCEPT !.actions = ActionsOf[runs[r].graph][state.step]] \in State
  <2>1. state.step # None => state.step \in Steps
    BY <1>6 DEF State
  <2>2. state.step # None => ActionsOf[runs[r].graph][state.step] \in SUBSET Actions
    BY <1>5, <2>1, GraphsAssumption
  <2>3. QED
    BY <1>6, <2>2 DEF State
<1>8. QED
  BY <1>6, <1>7 DEF StateIn, state

\* The end of a call that answers keeps the answers typed.
LEMMA ReturnAnswers ==
  ASSUME Inv, Answers, NEW c \in Callers, pc[c] # "idle",
         NEW o \in {"ok", "not_found", "no_entry", "active_exists", "not_open",
                    "not_available"},
         NEW state \in State \cup {None}, Return(c, o, state), UNCHANGED seen
  PROVE  Answers'
<1> DEFINE new == [op |-> OpOf(pc[c]), outcome |-> o, arg |-> arg[c], state |-> state]
<1>1. /\ pc' = [pc EXCEPT ![c] = "idle"] /\ tx' = [tx EXCEPT ![c] = NoTx]
      /\ snap' = [snap EXCEPT ![c] = None]
      /\ reply' = [reply EXCEPT ![c] = new]
      /\ seen' = seen
  BY DEF Return, End, Goto
<1>2. pc[c] \in PC /\ arg[c] \in Arg
  BY DEF Inv, CoreType
<1>3. OpOf(pc[c]) \in {"start", "complete", "reassign", "get"}
  BY <1>2 DEF OpOf, PC, StartPC, CompletePC, ReassignPC, GetPC
<1>4. new \in Reply
  BY <1>2, <1>3 DEF Reply
<1> HIDE DEF new
<1>5. snap' \in [Callers -> Rows \cup {None}] /\ reply' \in [Callers -> Reply]
  BY <1>1, <1>4 DEF Answers
<1>6. \A d \in Callers : pc'[d] = "readState" =>
        pc[d] = "readState" /\ snap'[d] = snap[d] /\ tx'[d] = tx[d]
  BY <1>1 DEF Inv, CoreType, Answers
<1>7. QED
  BY <1>1, <1>5, <1>6 DEF Answers

\* A step that leaves the answers alone, or forgets one, keeps them typed.
LEMMA AnswersKept ==
  ASSUME Inv, Answers, NEW c \in Callers,
         NEW l \in PC \ {"readState"}, Goto(c, l),
         \A d \in Callers : d # c => tx'[d] = tx[d],
         snap' = snap \/ snap' = [snap EXCEPT ![c] = None],
         reply' = reply \/ reply' = [reply EXCEPT ![c] = NoReply],
         UNCHANGED seen
  PROVE  Answers'
<1>1. NoReply \in Reply
  BY DEF NoReply, Reply, NoArg, Arg
<1>2. reply' \in [Callers -> Reply]
  BY <1>1 DEF Answers
<1>3. snap' \in [Callers -> Rows \cup {None}]
  BY DEF Answers
<1>4. \A d \in Callers : pc'[d] = "readState" =>
        pc[d] = "readState" /\ snap'[d] = snap[d] /\ tx'[d] = tx[d]
  BY DEF Inv, CoreType, Answers, Goto
<1>5. QED
  BY <1>2, <1>3, <1>4 DEF Answers

LEMMA CallAnswers ==
  ASSUME Inv, Answers, NEW c \in Callers, MakeCall(c)
  PROVE  Answers'
<1>1. \E l \in {"readDefinition", "completeStepVisit", "reassignStepVisit",
                "getWorkflowIDBySubject"} : \E a, locals : Call(c, l, a, locals)
  BY DEF MakeCall, StartCall, CompleteCall, ReassignCall, GetStateCall, TimedCall
<1>0. PICK l \in {"readDefinition", "completeStepVisit", "reassignStepVisit",
                  "getWorkflowIDBySubject"} : \E a, locals : Call(c, l, a, locals)
  BY <1>1
<1>2. PICK a, locals : Call(c, l, a, locals)
  BY <1>0
<1>3. \A d \in Callers : d # c => tx'[d] = tx[d]
  BY <1>2 DEF Call, Inv, CoreType
<1>4. l \in PC \ {"readState"}
  BY DEF PC, StartPC, CompletePC, ReassignPC, GetPC
<1>5. QED
  BY <1>2, <1>3, <1>4, AnswersKept DEF Call

LEMMA StatementAnswers ==
  ASSUME Inv, Answers, NEW c \in Callers, Statement(c)
  PROVE  Answers'
<1> DEFINE outcomes == {"ok", "not_found", "no_entry", "active_exists", "not_open",
                        "not_available"}
<1>1. ASSUME NEW o \in outcomes, Refuse(c, o), pc[c] # "idle"
      PROVE  Answers'
  BY <1>1, ReturnAnswers DEF Refuse
<1>2. ASSUME NEW l \in {"insertWorkflow", "writeSnapshot", "commitStart",
                        "getActionForStep", "advance", "updateWorkflowStatus",
                        "commitStep", "getWorkflowState"},
             Goto(c, l), UNCHANGED <<snap, reply, seen>>,
             \A d \in Callers : d # c => tx'[d] = tx[d]
      PROVE  Answers'
  <2>1. l \in PC \ {"readState"}
    BY <1>2 DEF PC, StartPC, CompletePC, ReassignPC, GetPC
  <2>2. QED
    BY <1>2, <2>1, AnswersKept
<1>3. CASE ReadDefinition(c)
  <2>1. pc[c] = "readDefinition"
    BY <1>3 DEF ReadDefinition
  <2>2. CASE \E o \in {"not_found", "no_entry"} : Refuse(c, o)
    BY <1>1, <2>1, <2>2
  <2>3. CASE /\ Goto(c, "insertWorkflow") /\ UNCHANGED <<snap, reply, seen>>
             /\ \E g : tx' = [tx EXCEPT ![c].graph = g]
    <3>1. \A d \in Callers : d # c => tx'[d] = tx[d]
      BY <2>3 DEF Inv, CoreType
    <3>2. QED
      BY <1>2, <2>3, <3>1
  <2>4. QED
    BY <1>3, <2>2, <2>3 DEF ReadDefinition
<1>4. CASE \/ InsertWorkflow(c) \/ WriteSnapshot(c)
           \/ Advance(c) \/ UpdateWorkflowStatus(c)
  BY <1>1, <1>2, <1>4 DEF InsertWorkflow, WriteSnapshot, Advance, UpdateWorkflowStatus
<1>5. CASE CompleteStepVisit(c) \/ ReassignStepVisit(c)
  <2>1. pc[c] # "idle" /\ ClosedOrMissing(arg[c].visit) \in outcomes
    BY <1>5 DEF CompleteStepVisit, ReassignStepVisit, ClosedOrMissing
  <2>2. CASE Refuse(c, ClosedOrMissing(arg[c].visit))
    BY <1>1, <2>1, <2>2
  <2>3. CASE /\ Goto(c, "getActionForStep") \/ Goto(c, "getWorkflowState")
             /\ UNCHANGED <<snap, reply, seen>>
             /\ tx' = [tx EXCEPT ![c].run = visit[arg[c].visit].run]
    <3>1. \A d \in Callers : d # c => tx'[d] = tx[d]
      BY <2>3 DEF Inv, CoreType
    <3>2. QED
      BY <1>2, <2>3, <3>1
  <2>4. QED
    BY <1>5, <2>2, <2>3 DEF CompleteStepVisit, ReassignStepVisit
<1>6. CASE GetActionForStep(c)
  <2>1. pc[c] = "getActionForStep"
    BY <1>6 DEF GetActionForStep
  <2>2. CASE Refuse(c, "not_available")
    BY <1>1, <2>1, <2>2
  <2>3. CASE /\ Goto(c, "advance") /\ UNCHANGED <<snap, reply, seen>>
             /\ tx' = [tx EXCEPT ![c].graph = FrozenGraph(c)]
    <3>1. \A d \in Callers : d # c => tx'[d] = tx[d]
      BY <2>3 DEF Inv, CoreType
    <3>2. QED
      BY <1>2, <2>3, <3>1
  <2>4. QED
    BY <1>6, <2>2, <2>3 DEF GetActionForStep
<1>7. CASE Commit(c)
  <2>1. pc[c] # "idle"
    BY <1>7 DEF Commit
  <2>2. CASE Return(c, "ok", StateIn(TxWorkflow(c), TxVisit(c), tx[c].run))
    <3>1. /\ TxWorkflow(c) \in [RunId -> RunRow \cup {None}]
          /\ TxVisit(c) \in [VisitId -> VisitRow \cup {None}]
      BY DEF Inv, CoreType, TxWorkflow, TxVisit, Overlay
    <3>2. tx[c].run \in RunId /\ workflow'[tx[c].run] # None
      <4>1. CASE pc[c] = "commitStart"
        BY <1>7, <4>1, StartEffect
      <4>2. CASE pc[c] = "commitStep" /\ Target[tx[c].graph][arg[c].action[2]] \notin Steps
        BY <1>7, <4>2, FinishEffect, DecidedRun DEF Deciding
      <4>3. CASE pc[c] = "commitStep" /\ Target[tx[c].graph][arg[c].action[2]] \in Steps
        BY <1>7, <4>3, RouteEffect, DecidedRun DEF Deciding
      <4>4. QED
        BY <1>7, <4>1, <4>2, <4>3 DEF Commit
    <3>3. TxWorkflow(c)[tx[c].run] # None
      BY <1>7, <3>2 DEF Commit
    <3>4. StateIn(TxWorkflow(c), TxVisit(c), tx[c].run) \in State
      BY <3>1, <3>2, <3>3, StateTyped
    <3>5. UNCHANGED seen
      BY <1>7 DEF Commit
    <3>6. QED
      BY <2>1, <2>2, <3>4, <3>5, ReturnAnswers
  <2>3. CASE End(c) /\ UNCHANGED reply
    <3>1. /\ Goto(c, "idle") /\ snap' = [snap EXCEPT ![c] = None] /\ UNCHANGED seen
          /\ \A d \in Callers : d # c => tx'[d] = tx[d]
      BY <1>7, <2>3 DEF End, Commit, Inv, CoreType
    <3>2. QED
      BY <2>3, <3>1, AnswersKept DEF PC
  <2>4. QED
    BY <1>7, <2>2, <2>3 DEF Commit
<1>8. CASE GetWorkflowState(c)
  <2>1. pc[c] = "getWorkflowState"
    BY <1>8 DEF GetWorkflowState
  <2>2. tx[c].run \in RunId /\ workflow[tx[c].run] # None
    BY <2>1 DEF Inv, LocalsAt
  <2>3. WorkflowStateIn(workflow, visit, tx[c].run) \in State
    BY <2>2, StateTyped DEF Inv, CoreType
  <2>4. QED
    BY <1>8, <2>1, <2>3, ReturnAnswers DEF GetWorkflowState
<1>9. CASE GetWorkflowIDBySubject(c)
  <2> DEFINE r == MostRecentRun(workflow, arg[c].pair)
             rows == [workflow |-> workflow, visit |-> visit]
  <2>1. pc[c] = "getWorkflowIDBySubject"
    BY <1>9 DEF GetWorkflowIDBySubject
  <2>2. CASE Refuse(c, "not_found")
    BY <1>1, <2>1, <2>2
  <2>3. CASE /\ RunsOf(workflow, arg[c].pair) # {}
             /\ snap' = [snap EXCEPT ![c] = rows]
             /\ tx' = [tx EXCEPT ![c].run = r]
             /\ Goto(c, "readState")
             /\ UNCHANGED <<tables, clock, arg, wrun, wvis, reply, seen>>
    <3>1. r \in RunId /\ workflow[r] # None
      BY <2>3, MostRecent DEF RunsOf
    <3>2. rows \in Rows /\ rows.workflow = workflow
      BY DEF Inv, CoreType, Rows
    <3> HIDE DEF r, rows
    <3>3. snap' \in [Callers -> Rows \cup {None}] /\ snap'[c] = rows
      BY <2>3, <3>2 DEF Answers
    <3>4. tx[c] \in Tx
      BY DEF Inv, CoreType
    <3>5. tx'[c].run = r
      BY <2>3, <3>4 DEF Inv, CoreType, Tx
    <3>6. \A d \in Callers : d # c =>
            pc'[d] = pc[d] /\ snap'[d] = snap[d] /\ tx'[d] = tx[d]
      BY <2>3 DEF Inv, CoreType, Answers, Goto
    <3>7. QED
      BY <2>3, <3>1, <3>2, <3>3, <3>5, <3>6 DEF Answers
  <2>4. QED
    BY <1>9, <2>2, <2>3 DEF GetWorkflowIDBySubject
<1>10. CASE ReadState(c)
  <2>1. pc[c] = "readState" /\ End(c) /\ reply' = reply
    BY <1>10 DEF ReadState
  <2>2. tx[c].run \in RunId /\ snap[c] \in Rows /\ snap[c].workflow[tx[c].run] # None
    BY <2>1 DEF Inv, LocalsAt, Answers
  <2>3. StateIn(snap[c].workflow, snap[c].visit, tx[c].run) \in State
    BY <2>2, StateTyped DEF Rows
  <2>4. seen' \in [Callers -> State \cup {None}]
    BY <1>10, <2>3 DEF ReadState, Answers
  <2>5. snap' \in [Callers -> Rows \cup {None}]
    BY <2>1 DEF End, Answers
  <2>6. \A d \in Callers : pc'[d] = "readState" =>
          pc[d] = "readState" /\ snap'[d] = snap[d] /\ tx'[d] = tx[d]
    BY <2>1 DEF End, Goto, Inv, CoreType, Answers
  <2>7. QED
    BY <2>1, <2>4, <2>5, <2>6 DEF Answers
<1>11. QED
  BY <1>3, <1>4, <1>5, <1>6, <1>7, <1>8, <1>9, <1>10 DEF Statement

LEMMA AnswersAlways == Spec => []Answers
<1>1. Init => Answers
  BY DEF Init, Answers, Reply, NoReply, NoArg, Arg
<1>2. ASSUME Inv, Answers, [Next]_vars
      PROVE  Answers'
  <2>1. ASSUME NEW c \in Callers, MakeCall(c) \/ Statement(c) \/ Fail(c)
        PROVE  Answers'
    <3>1. CASE Fail(c)
      <4>1. /\ Goto(c, "idle") /\ snap' = [snap EXCEPT ![c] = None]
            /\ UNCHANGED <<reply, seen>>
            /\ \A d \in Callers : d # c => tx'[d] = tx[d]
        BY <1>2, <3>1 DEF Fail, End, Inv, CoreType
      <4>2. QED
        BY <1>2, <4>1, AnswersKept DEF PC
    <3>2. QED
      BY <1>2, <2>1, <3>1, CallAnswers, StatementAnswers
  <2>2. CASE UNCHANGED <<pc, tx, snap, reply, seen>>
    BY <1>2, <2>2 DEF Answers
  <2>3. QED
    BY <1>2, <2>1, <2>2 DEF Next, EditDefinition, vars
<1>3. QED
  BY <1>1, <1>2, Invariance, PTL DEF Spec

\* Every variable keeps its type: no answer is made from a row that is not there.
THEOREM TypeCorrectness == Spec => []TypeOK
<1>1. Inv /\ Answers => TypeOK
  BY DEF Inv, CoreType, Answers, TypeOK
<1>2. QED
  BY <1>1, AnswersAlways, Invariance, PTL
=============================================================================
