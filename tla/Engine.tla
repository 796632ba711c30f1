------------------------------- MODULE Engine -------------------------------
(***************************************************************************)
(* The Engine (src/engine.go and the store files it calls) over a shared   *)
(* PostgreSQL database.                                                    *)
(*                                                                         *)
(* Every caller is a process of its own that runs one call at a time, one  *)
(* SQL statement per action.  The committed rows are `workflow` and        *)
(* `visit`; what an open transaction has written and not committed is      *)
(* `wrun` and `wvis`, visible to that transaction only.  A row a           *)
(* transaction has written is locked until it commits or rolls back, and   *)
(* so is the key its new row holds in the unique index ux_workflow_active. *)
(* now() is the time the transaction began.                                *)
(***************************************************************************)
EXTENDS RunGraph

CONSTANTS
  Callers,      \* processes that call the Engine, in any number of programs
  Starters,     \* the callers that start runs
  Deciders,     \* ... that complete steps
  Reassigners,  \* ... that reassign steps
  Readers,      \* ... that ask where a run stands
  Subjects,     \* opaque subject references
  Definitions,  \* workflow definition ids
  RunId,        \* ids of workflow rows
  VisitId,      \* ids of step_visit rows
  MaxClock      \* bound: transactions that take a timestamp

ASSUME EngineAssumption ==
  /\ Starters \cup Deciders \cup Reassigners \cup Readers \subseteq Callers
  /\ None \notin Callers \cup RunId \cup VisitId \cup Nat
  /\ MaxClock \in Nat

VARIABLES
  definition,   \* definition[d]: the graph d holds, None once d is deleted
  workflow,     \* flowcore.workflow, with the graph copied for each run
  visit,        \* flowcore.step_visit
  clock,        \* the database's clock
  pc,           \* pc[c]: the statement c's call is at
  arg,          \* arg[c]: the call's parameters
  tx,           \* tx[c]: the transaction's timestamp and the call's locals
  wrun,         \* wrun[c]: the workflow rows c's transaction has written
  wvis,         \* wvis[c]: the step_visit rows c's transaction has written
  snap,         \* snap[c]: the snapshot GetState reads from
  reply,        \* reply[c]: what c learned from its last call, until its next
  seen          \* seen[c]: the last answer c had from GetState

vars ==
  <<definition, workflow, visit, clock, pc, arg, tx, wrun, wvis, snap, reply, seen>>
tables == <<definition, workflow, visit>>

-----------------------------------------------------------------------------
(* Rows and call records.                                                  *)

Pair == Subjects \X Definitions
ActionId == RunId \X Actions       \* the id of the copy of an action in a run

RunRow == [pair: Pair, graph: Graphs, status: Statuses,
           started: Nat, completed: Nat \cup {None}]

VisitRow == [run: RunId, step: Steps, assignee: Assignees, entered: Nat,
             completed: Nat \cup {None}, by: Callers \cup {None},
             action: ActionId \cup {None}]

Arg == [pair: Pair \cup {None}, visit: VisitId \cup {None},
        action: ActionId \cup {None}, assignee: Assignees \cup {None}]

Tx == [began: Nat, graph: Graphs \cup {None}, run: RunId \cup {None},
       fresh: VisitId \cup {None}]

\* What a repeatable-read transaction reads from.
Rows == [workflow: [RunId -> RunRow \cup {None}], visit: [VisitId -> VisitRow \cup {None}]]

\* The WorkflowState a call returns. No current step: visit and step are None.
State == [run: RunId, status: Statuses, completed: BOOLEAN,
          visit: VisitId \cup {None}, step: Steps \cup {None},
          actions: SUBSET Actions]

\* Null is not a row, nor an answer, nor the id of an action.
ASSUME RowAssumption == None \notin RunRow \cup VisitRow \cup State \cup ActionId

NoArg == [pair |-> None, visit |-> None, action |-> None, assignee |-> None]
NoTx == [began |-> 0, graph |-> None, run |-> None, fresh |-> None]
NoRuns == [r \in RunId |-> None]
NoVisits == [v \in VisitId |-> None]

Reply == [op: {"none", "start", "complete", "reassign", "get"},
          outcome: {"none", "ok", "not_found", "no_entry",
                    "active_exists", "not_open", "not_available"},
          arg: Arg, state: State \cup {None}]

NoReply == [op |-> "none", outcome |-> "none", arg |-> NoArg, state |-> None]

StartPC == {"readDefinition", "insertWorkflow", "writeSnapshot", "commitStart"}
CompletePC == {"completeStepVisit", "getActionForStep", "advance", "updateWorkflowStatus",
               "commitStep"}
ReassignPC == {"reassignStepVisit", "getWorkflowState"}
GetPC == {"getWorkflowIDBySubject", "readState"}
PC == {"idle"} \cup StartPC \cup CompletePC \cup ReassignPC \cup GetPC

OpOf(l) == CASE l \in StartPC -> "start"
             [] l \in CompletePC -> "complete"
             [] l \in ReassignPC -> "reassign"
             [] l \in GetPC -> "get"

-----------------------------------------------------------------------------
(* What a statement sees.                                                  *)

\* The rows of a table with a transaction's own writes over them.
Overlay(table, writes) ==
  [k \in DOMAIN table |-> IF writes[k] = None THEN table[k] ELSE writes[k]]

TxWorkflow(c) == Overlay(workflow, wrun[c])
TxVisit(c) == Overlay(visit, wvis[c])

\* Some other transaction has written this row and is still open.
RunLocked(c, r) == \E d \in Callers \ {c} : wrun[d][r] # None
\* Mutant: the gate reads the visit and then writes it, taking no row lock.
VisitLockedNever(c, v) == FALSE

VisitLocked(c, v) ==
  v # None /\ \E d \in Callers \ {c} : wvis[d][v] # None

IsOpen(row) == row # None /\ row.completed = None

OpenVisitsIn(visits, r) ==
  {v \in VisitId : IsOpen(visits[v]) /\ visits[v].run = r}

OpenRunsIn(runs, p) == {r \in RunId : IsOpen(runs[r]) /\ runs[r].pair = p}

RunsOf(runs, p) == {r \in RunId : runs[r] # None /\ runs[r].pair = p}

\* order by started_at desc limit 1. The clock gives every run its own
\* started_at here, so the id tie-break never decides.
MostRecentRun(runs, p) ==
  CHOOSE r \in RunsOf(runs, p) :
    \A q \in RunsOf(runs, p) : runs[q].started <= runs[r].started

\* getWorkflowState: the run, left-joined to its open visit. Actions are left
\* empty, for the caller to load.
WorkflowStateIn(runs, visits, r) ==
  LET open == OpenVisitsIn(visits, r)
      current == IF open = {} THEN None ELSE CHOOSE v \in open : TRUE
  IN [run |-> r,
      status |-> runs[r].status,
      completed |-> runs[r].completed # None,
      visit |-> current,
      step |-> IF current = None THEN None ELSE visits[current].step,
      actions |-> {}]

\* readState: the same, with the current step's actions (listActionsByStep).
StateIn(runs, visits, r) ==
  LET state == WorkflowStateIn(runs, visits, r)
  IN IF state.step = None THEN state
     ELSE [state EXCEPT !.actions = ActionsOf[runs[r].graph][state.step]]

-----------------------------------------------------------------------------
(* A call's control.                                                       *)

Goto(c, l) == pc' = [pc EXCEPT ![c] = l]

\* Mutant: a handler that returns without the deferred Rollback.
EndWithoutRollback(c) ==
  /\ Goto(c, "idle")
  /\ arg' = [arg EXCEPT ![c] = NoArg]
  /\ tx' = [tx EXCEPT ![c] = NoTx]
  /\ snap' = [snap EXCEPT ![c] = None]
  /\ UNCHANGED <<clock, wrun, wvis>>

\* The call ends: its transaction is over, its locks are gone, its writes are
\* in the tables if Commit put them there and nowhere otherwise.
End(c) ==
  /\ Goto(c, "idle")
  /\ arg' = [arg EXCEPT ![c] = NoArg]
  /\ tx' = [tx EXCEPT ![c] = NoTx]
  /\ wrun' = [wrun EXCEPT ![c] = NoRuns]
  /\ wvis' = [wvis EXCEPT ![c] = NoVisits]
  /\ snap' = [snap EXCEPT ![c] = None]
  /\ UNCHANGED clock

Return(c, outcome, state) ==
  /\ End(c)
  /\ reply' = [reply EXCEPT ![c] =
                 [op |-> OpOf(pc[c]), outcome |-> outcome,
                  arg |-> arg[c], state |-> state]]

\* An error return of a handler: the deferred Rollback runs.
Refuse(c, outcome) == Return(c, outcome, None) /\ UNCHANGED <<tables, seen>>

\* A call is made: its parameters are set and, if it opens a transaction that
\* writes timestamps, the transaction takes the clock's next tick as now().
Call(c, l, a, locals) ==
  /\ pc[c] = "idle"
  /\ Goto(c, l)
  /\ arg' = [arg EXCEPT ![c] = a]
  /\ tx' = [tx EXCEPT ![c] = locals]
  /\ reply' = [reply EXCEPT ![c] = NoReply]
  /\ UNCHANGED <<tables, wrun, wvis, snap, seen>>

TimedCall(c, l, a, locals) ==
  /\ clock < MaxClock
  /\ clock' = clock + 1
  /\ Call(c, l, a, [locals EXCEPT !.began = clock + 1])

\* Ids are generated by the call that inserts the row and are globally unique.
FreshRuns == {r \in RunId : workflow[r] = None /\ \A c \in Callers : tx[c].run # r}
FreshVisits == {v \in VisitId : visit[v] = None /\ \A c \in Callers : tx[c].fresh # v}

\* Ids a caller can hold are those a committed call has returned.
KnownRuns == {r \in RunId : workflow[r] # None}
KnownVisits == {v \in VisitId : visit[v] # None}
KnownActions ==
  {a \in KnownRuns \X Actions :
     \E s \in Steps : a[2] \in ActionsOf[workflow[a[1]].graph][s]}

-----------------------------------------------------------------------------
(* Start.                                                                  *)

\* The ids of the workflow row and of the first visit are the call's own.
StartCall(c, p) ==
  /\ c \in Starters
  /\ \E r \in FreshRuns, v \in FreshVisits :
       TimedCall(c, "readDefinition", [NoArg EXCEPT !.pair = p],
                 [NoTx EXCEPT !.run = r, !.fresh = v])

\* The definition is read under repeatable read: all four queries of it see
\* one version, the one current at the first.
ReadDefinition(c) ==
  LET g == definition[arg[c].pair[2]] IN
  /\ pc[c] = "readDefinition"
  /\ \/ /\ g = None
        /\ Refuse(c, "not_found")
     \/ /\ g # None
        /\ Entry[g] = None
        /\ Refuse(c, "no_entry")
     \/ /\ g # None
        /\ Entry[g] # None
        /\ tx' = [tx EXCEPT ![c].graph = g]
        /\ Goto(c, "insertWorkflow")
        /\ UNCHANGED <<tables, clock, arg, wrun, wvis, snap, reply, seen>>

\* The row buildSnapshot makes: the graph frozen, the entry step's status.
NewRun(c) ==
  [pair |-> arg[c].pair, graph |-> tx[c].graph,
   status |-> StatusOf[tx[c].graph][Entry[tx[c].graph]],
   started |-> tx[c].began, completed |-> None]

\* Mutant: the visit is inserted without the step's default assignee.
NewVisitUnassigned(c, g, s) ==
  [run |-> tx[c].run, step |-> s, assignee |-> None,
   entered |-> tx[c].began, completed |-> None, by |-> None, action |-> None]

\* A visit of step s of graph g, as insertStepVisit writes it.
NewVisit(c, g, s) ==
  [run |-> tx[c].run, step |-> s, assignee |-> DefaultAssignee[g][s],
   entered |-> tx[c].began, completed |-> None, by |-> None, action |-> None]

\* Mutant: the pair is checked by a query, and no index makes the insert wait.
PairHeldNever(c, p) == FALSE

\* The unique index's entry for the pair is being inserted, or its row is
\* being changed, by a transaction that is still open: the insert waits for it.
PairHeld(c, p) ==
  \E d \in Callers \ {c}, r \in RunId : wrun[d][r] # None /\ wrun[d][r].pair = p

\* The unique check is against the rows committed by now, not against the
\* transaction's own snapshot.
PairTaken(c, p) == OpenRunsIn(workflow, p) # {}

InsertWorkflow(c) ==
  LET p == arg[c].pair IN
  /\ pc[c] = "insertWorkflow"
  /\ ~PairHeld(c, p)
  /\ \/ /\ PairTaken(c, p)
        /\ Refuse(c, "active_exists")
     \/ /\ ~PairTaken(c, p)
        /\ wrun' = [wrun EXCEPT ![c][tx[c].run] = NewRun(c)]
        /\ Goto(c, "writeSnapshot")
        /\ UNCHANGED <<tables, clock, arg, tx, wvis, snap, reply, seen>>

\* The frozen steps and actions, then the visit that opens the run.
WriteSnapshot(c) ==
  /\ pc[c] = "writeSnapshot"
  /\ wvis' = [wvis EXCEPT ![c][tx[c].fresh] =
                NewVisit(c, tx[c].graph, Entry[tx[c].graph])]
  /\ Goto(c, "commitStart")
  /\ UNCHANGED <<tables, clock, arg, tx, wrun, snap, reply, seen>>

\* The state is read before the commit, inside the transaction: its own writes
\* over rows nobody else may change, so the same state the commit publishes. If
\* the connection drops as the commit is acknowledged, the rows are committed and
\* the call still returns an error.
Commit(c) ==
  /\ pc[c] \in {"commitStart", "commitStep"}
  /\ workflow' = TxWorkflow(c)
  /\ visit' = TxVisit(c)
  /\ UNCHANGED <<definition, seen>>
  /\ \/ Return(c, "ok", StateIn(TxWorkflow(c), TxVisit(c), tx[c].run))
     \/ End(c) /\ UNCHANGED reply

-----------------------------------------------------------------------------
(* CompleteStep.                                                           *)

\* The visit is one the caller has been shown, or an id that names none; the
\* action is any it has been shown, of this step or of another.
CompleteCall(c, v, a) ==
  /\ c \in Deciders
  /\ \E w \in FreshVisits :
       TimedCall(c, "completeStepVisit",
                 [NoArg EXCEPT !.visit = v, !.action = a],
                 [NoTx EXCEPT !.fresh = w])

\* Mutant: the update's predicate is the id alone.
MatchesClosed(v) == v # None /\ visit[v] # None

\* where id = $1 and completed_at is null
Matches(v) == v # None /\ IsOpen(visit[v])

\* closedOrMissingVisit: what a statement that matched no row means.
ClosedOrMissing(v) ==
  IF v = None THEN "not_found"
  ELSE IF visit[v] = None THEN "not_found" ELSE "not_open"

\* The gate. A transaction that has closed the visit and is still open holds the
\* row: the update waits, then evaluates its predicate on the row as it is.
CompleteStepVisit(c) ==
  LET v == arg[c].visit IN
  /\ pc[c] = "completeStepVisit"
  /\ ~VisitLocked(c, v)
  /\ \/ /\ ~Matches(v)
        /\ Refuse(c, ClosedOrMissing(v))
     \/ /\ Matches(v)
        /\ wvis' = [wvis EXCEPT ![c][v] =
                      [visit[v] EXCEPT !.completed = tx[c].began,
                                       !.by = c, !.action = arg[c].action]]
        /\ tx' = [tx EXCEPT ![c].run = visit[v].run]
        /\ Goto(c, "getActionForStep")
        /\ UNCHANGED <<tables, clock, arg, wrun, snap, reply, seen>>

\* Mutant: the action is looked up by its id alone.
ActionOfRun(c) == wvis[c][arg[c].visit].action[1] = wvis[c][arg[c].visit].run

\* Mutant: the action is looked up in the definition as it is now.
ActionOfDefinition(c) ==
  LET row == wvis[c][arg[c].visit]
      now == definition[workflow[row.run].pair[2]]
  IN /\ row.action[1] = row.run
     /\ now # None
     /\ row.action[2] \in ActionsOf[now][row.step]

\* where id = $1 and step_id = $2, with the step of the visit just closed.
ActionOfStep(c) ==
  LET row == wvis[c][arg[c].visit] IN
  /\ row.action[1] = row.run
  /\ row.action[2] \in ActionsOf[workflow[row.run].graph][row.step]

\* Mutant: the route is taken from the definition as it is now.
GraphByDefinition(c) ==
  LET now == definition[workflow[tx[c].run].pair[2]]
  IN IF now = None THEN workflow[tx[c].run].graph ELSE now

\* The action row and the step it leads to are the run's own frozen copies.
FrozenGraph(c) == workflow[tx[c].run].graph

GetActionForStep(c) ==
  /\ pc[c] = "getActionForStep"
  /\ \/ /\ ~ActionOfStep(c)
        /\ Refuse(c, "not_available")
     \/ /\ ActionOfStep(c)
        /\ tx' = [tx EXCEPT ![c].graph = FrozenGraph(c)]
        /\ Goto(c, "advance")
        /\ UNCHANGED <<tables, clock, arg, wrun, wvis, snap, reply, seen>>

\* Mutant: the final status is stamped and the run left open.
ClosedRunStatusOnly(c, t) == [workflow[tx[c].run] EXCEPT !.status = t]

\* completeWorkflow: the terminal action's status, and the run is closed.
ClosedRun(c, t) ==
  [workflow[tx[c].run] EXCEPT !.status = t, !.completed = tx[c].began]

\* Mutant: the next visit is opened and the status left as it was.
RoutedRunStale(c, s) == workflow[tx[c].run]

\* The status of the step just entered.
RoutedRun(c, s) ==
  [workflow[tx[c].run] EXCEPT !.status = StatusOf[tx[c].graph][s]]

\* Where the action leads: a step, or the status the run ends in.
Destination(c) == Target[tx[c].graph][arg[c].action[2]]

\* The run ends, or the next visit is opened before its status is stamped.
Advance(c) ==
  LET t == Destination(c) IN
  /\ pc[c] = "advance"
  /\ \/ /\ t \notin Steps
        /\ ~RunLocked(c, tx[c].run)
        /\ wrun' = [wrun EXCEPT ![c][tx[c].run] = ClosedRun(c, t)]
        /\ Goto(c, "commitStep")
        /\ UNCHANGED wvis
     \/ /\ t \in Steps
        /\ wvis' = [wvis EXCEPT ![c][tx[c].fresh] = NewVisit(c, tx[c].graph, t)]
        /\ Goto(c, "updateWorkflowStatus")
        /\ UNCHANGED wrun
  /\ UNCHANGED <<tables, clock, arg, tx, snap, reply, seen>>

UpdateWorkflowStatus(c) ==
  /\ pc[c] = "updateWorkflowStatus"
  /\ ~RunLocked(c, tx[c].run)
  /\ wrun' = [wrun EXCEPT ![c][tx[c].run] = RoutedRun(c, Destination(c))]
  /\ Goto(c, "commitStep")
  /\ UNCHANGED <<tables, clock, arg, tx, wvis, snap, reply, seen>>

-----------------------------------------------------------------------------
(* Reassign: one conditional update, committed at once, and a read.        *)

ReassignCall(c, v, x) ==
  /\ c \in Reassigners
  /\ Call(c, "reassignStepVisit", [NoArg EXCEPT !.visit = v, !.assignee = x], NoTx)
  /\ UNCHANGED clock

ReassignStepVisit(c) ==
  LET v == arg[c].visit IN
  /\ pc[c] = "reassignStepVisit"
  /\ ~VisitLocked(c, v)
  /\ \/ /\ ~Matches(v)
        /\ Refuse(c, ClosedOrMissing(v))
     \/ /\ Matches(v)
        /\ visit' = [visit EXCEPT ![v].assignee = arg[c].assignee]
        /\ tx' = [tx EXCEPT ![c].run = visit[v].run]
        /\ Goto(c, "getWorkflowState")
        /\ UNCHANGED <<definition, workflow, clock, arg, wrun, wvis, snap, reply, seen>>

\* A statement of its own, after the update: it reads what is committed by now,
\* and it does not load the step's actions.
GetWorkflowState(c) ==
  /\ pc[c] = "getWorkflowState"
  /\ Return(c, "ok", WorkflowStateIn(workflow, visit, tx[c].run))
  /\ UNCHANGED <<tables, seen>>

-----------------------------------------------------------------------------
(* GetState, under repeatable read.                                        *)

GetStateCall(c, p) ==
  /\ c \in Readers
  /\ Call(c, "getWorkflowIDBySubject", [NoArg EXCEPT !.pair = p], NoTx)
  /\ UNCHANGED clock

\* The first query of the transaction fixes its snapshot.
GetWorkflowIDBySubject(c) ==
  LET p == arg[c].pair IN
  /\ pc[c] = "getWorkflowIDBySubject"
  /\ \/ /\ RunsOf(workflow, p) = {}
        /\ Refuse(c, "not_found")
     \/ /\ RunsOf(workflow, p) # {}
        /\ snap' = [snap EXCEPT ![c] = [workflow |-> workflow, visit |-> visit]]
        /\ tx' = [tx EXCEPT ![c].run = MostRecentRun(workflow, p)]
        /\ Goto(c, "readState")
        /\ UNCHANGED <<tables, clock, arg, wrun, wvis, reply, seen>>

ReadState(c) ==
  /\ pc[c] = "readState"
  /\ End(c)
  /\ seen' = [seen EXCEPT ![c] =
                StateIn(snap[c].workflow, snap[c].visit, tx[c].run)]
  /\ UNCHANGED <<tables, reply>>

-----------------------------------------------------------------------------
(* The environment.                                                        *)

\* A call ends early: its context is cancelled, its connection drops, its
\* process crashes, or a statement fails. The transaction rolls back, and the
\* caller learns nothing, not even whether the call took effect.
Fail(c) == pc[c] # "idle" /\ End(c) /\ UNCHANGED <<tables, reply, seen>>

\* The Catalog commits a change to a definition, or deletes it for good.
EditDefinition(d, g) ==
  /\ definition[d] # None
  /\ definition' = [definition EXCEPT ![d] = g]
  /\ UNCHANGED <<workflow, visit, clock, pc, arg, tx, wrun, wvis, snap, reply, seen>>

-----------------------------------------------------------------------------
Init ==
  /\ definition \in [Definitions -> Graphs]
  /\ workflow = NoRuns
  /\ visit = NoVisits
  /\ clock = 0
  /\ pc = [c \in Callers |-> "idle"]
  /\ arg = [c \in Callers |-> NoArg]
  /\ tx = [c \in Callers |-> NoTx]
  /\ wrun = [c \in Callers |-> NoRuns]
  /\ wvis = [c \in Callers |-> NoVisits]
  /\ snap = [c \in Callers |-> None]
  /\ reply = [c \in Callers |-> NoReply]
  /\ seen = [c \in Callers |-> None]

MakeCall(c) ==
  \/ \E p \in Pair : StartCall(c, p) \/ GetStateCall(c, p)
  \/ \E v \in KnownVisits \cup {None} :
       \/ \E a \in KnownActions : CompleteCall(c, v, a)
       \/ \E x \in Assignees : ReassignCall(c, v, x)

\* The statements of a call under way.
Statement(c) ==
  \/ ReadDefinition(c) \/ InsertWorkflow(c) \/ WriteSnapshot(c)
  \/ CompleteStepVisit(c) \/ GetActionForStep(c) \/ Advance(c)
  \/ UpdateWorkflowStatus(c) \/ Commit(c)
  \/ ReassignStepVisit(c) \/ GetWorkflowState(c)
  \/ GetWorkflowIDBySubject(c) \/ ReadState(c)

Next ==
  \/ \E c \in Callers : MakeCall(c) \/ Statement(c) \/ Fail(c)
  \/ \E d \in Definitions, g \in Graphs \cup {None} : EditDefinition(d, g)

Spec == Init /\ [][Next]_vars

\* A caller keeps running its call, and a statement that waits for a lock gets it
\* if the lock is free again and again (PostgreSQL queues the waiters of a row).
\* Nothing makes a caller call, or a call fail.
Fairness == \A c \in Callers : SF_vars(Statement(c))

FairSpec == Spec /\ Fairness

(***************************************************************************)
(* Properties.                                                             *)
(***************************************************************************)

\* Every variable has its type.
TypeOK ==
  /\ definition \in [Definitions -> Graphs \cup {None}]
  /\ workflow \in [RunId -> RunRow \cup {None}]
  /\ visit \in [VisitId -> VisitRow \cup {None}]
  /\ clock \in Nat
  /\ pc \in [Callers -> PC]
  /\ arg \in [Callers -> Arg]
  /\ tx \in [Callers -> Tx]
  /\ wrun \in [Callers -> [RunId -> RunRow \cup {None}]]
  /\ wvis \in [Callers -> [VisitId -> VisitRow \cup {None}]]
  /\ snap \in [Callers -> Rows \cup {None}]
  /\ reply \in [Callers -> Reply]
  /\ seen \in [Callers -> State \cup {None}]

\* At most one run of a subject through a definition is open, however many
\* callers start one at once (ux_workflow_active, insertWorkflow).
OneActiveRun ==
  \A r, q \in KnownRuns :
    /\ workflow[r].pair = workflow[q].pair
    /\ IsOpen(workflow[r])
    /\ IsOpen(workflow[q])
    => r = q

\* An open run stands on exactly one open visit, of its own, and a finished run
\* on none: nobody ever reads a run that is nowhere or in two places (advance,
\* completeStepVisit, ux_step_visit_open).
OneCurrentStep ==
  /\ \A r \in KnownRuns :
       IF IsOpen(workflow[r]) THEN \E v \in VisitId : OpenVisitsIn(visit, r) = {v}
                              ELSE OpenVisitsIn(visit, r) = {}
  /\ \A v \in KnownVisits : workflow[visit[v].run] # None

\* The status stored on an open run is the one its frozen graph gives the step it
\* stands on: the redundant status columns never drift from the position, which no
\* constraint of the schema checks (updateWorkflowStatus, buildSnapshot).
StatusIsPositional ==
  \A r \in KnownRuns : \A v \in OpenVisitsIn(visit, r) :
    workflow[r].status = StatusOf[workflow[r].graph][visit[v].step]

VisitsOf(r) == {v \in KnownVisits : visit[v].run = r}

\* Visit v of run r was left by an action of its step in the run's graph; if that is
\* a final one, v is the last visit and the run is what the action made of it,
\* otherwise the next visit is at the action's target and began as v ended.
LeftByItsGraph(r, v) ==
  LET g == workflow[r].graph
      a == visit[v].action[2]
  IN /\ visit[v].action[1] = r
     /\ a \in ActionsOf[g][visit[v].step]
     /\ visit[v].completed >= visit[v].entered
     /\ IF IsTerminal(g, a)
        THEN /\ workflow[r].completed = visit[v].completed
             /\ workflow[r].status = Target[g][a]
             /\ \A w \in VisitsOf(r) : visit[w].entered <= visit[v].entered
        ELSE \E w \in VisitsOf(r) :
               /\ visit[w].entered = visit[v].completed
               /\ visit[w].step = Target[g][a]
               /\ \A u \in VisitsOf(r) :
                    \/ visit[u].entered <= visit[v].entered
                    \/ visit[u].entered >= visit[w].entered

\* The visits of a run, oldest first as GetHistory orders them, are a walk through
\* its frozen graph: it starts at the entry step when the run started, every
\* decision is an action of the step it was taken on, the next visit is at that
\* action's target and begins when the previous one ended, and a final action is
\* the last of its run and gives it its status.
HistoryIsARoute ==
  \A r \in KnownRuns :
    /\ \A v, w \in VisitsOf(r) : visit[v].entered = visit[w].entered => v = w
    /\ \E v \in VisitsOf(r) : /\ visit[v].entered = workflow[r].started
                              /\ visit[v].step = Entry[workflow[r].graph]
    /\ \A v \in VisitsOf(r) : /\ visit[v].entered >= workflow[r].started
                              /\ visit[v].completed # None => LeftByItsGraph(r, v)

\* No two open transactions have written the same row, and what a transaction is
\* about to commit passes every constraint the model does not re-check: one open
\* visit per run (ux_step_visit_open, "which no code path should do"), the chosen
\* action belongs to the step (fk_step_visit_selected_action), completion not
\* before entry (ck_step_visit_temporal).
ConstraintsNeverRefuse ==
  \A c \in Callers :
    /\ \A d \in Callers \ {c} :
         /\ \A r \in RunId : wrun[c][r] # None => wrun[d][r] = None
         /\ \A v \in VisitId : wvis[c][v] # None => wvis[d][v] = None
    /\ pc[c] \in {"commitStart", "commitStep"} =>
         /\ \A v, w \in OpenVisitsIn(TxVisit(c), tx[c].run) : v = w
         /\ \A v \in VisitId : wvis[c][v] # None /\ wvis[c][v].completed # None =>
              /\ wvis[c][v].action[1] = wvis[c][v].run
              /\ wvis[c][v].action[2]
                   \in ActionsOf[workflow[wvis[c][v].run].graph][wvis[c][v].step]
              /\ wvis[c][v].completed >= wvis[c][v].entered

\* c's open transaction has written a row, and locks it until it ends.
Holds(c) == wrun[c] # NoRuns \/ wvis[c] # NoVisits

\* c's next statement waits for the lock of another transaction.
Waits(c) ==
  \/ pc[c] = "insertWorkflow" /\ PairHeld(c, arg[c].pair)
  \/ pc[c] \in {"completeStepVisit", "reassignStepVisit"} /\ VisitLocked(c, arg[c].visit)
  \/ pc[c] = "advance" /\ Destination(c) \notin Steps /\ RunLocked(c, tx[c].run)
  \/ pc[c] = "updateWorkflowStatus" /\ RunLocked(c, tx[c].run)

\* No transaction waits while it holds a lock, so that no circle of them can form:
\* a Start waits before its first write, a decision at the gate, and the run row
\* that a decision writes last is never taken, because its visit is the only open
\* one of the run and the Start that made both has committed (insertWorkflow,
\* completeStepVisit, advance, updateWorkflowStatus).
NoHoldAndWait == \A c \in Callers : ~(Holds(c) /\ Waits(c))

\* What a caller was told stays true. A decision that was acknowledged is on
\* record as that caller's, whoever else raced it, and was never overwritten; a
\* caller told its view is stale holds a visit that is closed, and one told the
\* action is not available chose an action of another step.
RepliesAreTrue ==
  \A c \in Callers :
    LET a == reply[c].arg IN
    /\ reply[c].op = "complete" /\ reply[c].outcome = "ok" =>
         /\ visit[a.visit].completed # None
         /\ visit[a.visit].by = c
         /\ visit[a.visit].action = a.action
    /\ reply[c].outcome = "not_open" => visit[a.visit].completed # None
    /\ reply[c].outcome = "not_available" =>
         \/ a.action[1] # visit[a.visit].run
         \/ a.action[2] \notin
              ActionsOf[workflow[visit[a.visit].run].graph][visit[a.visit].step]

\* What a step leaves of the rows there are.
NothingRewritten ==
  /\ \A v \in KnownVisits :
       /\ visit'[v] # None
       /\ ~IsOpen(visit[v]) => visit'[v] = visit[v]
       /\ visit'[v].run = visit[v].run /\ visit'[v].step = visit[v].step
  /\ \A r \in KnownRuns :
       /\ workflow'[r] # None
       /\ ~IsOpen(workflow[r]) => workflow'[r] = workflow[r]
       /\ workflow'[r].graph = workflow[r].graph

\* The record is append-only: a closed visit and a finished run are never changed
\* again, no row disappears, and a run keeps the graph it was started with
\* whatever happens to its definition.
HistoryIsAppendOnly == [][NothingRewritten]_<<workflow, visit>>

\* An offer is kept. A caller that decides the visit GetState showed it, by an
\* action GetState showed it, is accepted or told the visit is closed by now; it is
\* never told that the action is not one of the step's, however the definition was
\* edited since the run started.
OfferedActionsAreAccepted ==
  \A c \in Callers : seen[c] # None /\ reply[c].op = "complete" =>
    LET a == reply[c].arg IN
    /\ a.visit # None
    /\ a.visit = seen[c].visit
    /\ a.action \in {seen[c].run} \X seen[c].actions
    => reply[c].outcome \in {"ok", "not_open"}

\* Every call returns: no set of callers waits on one another's row and index
\* locks for ever.
EveryCallReturns == \A c \in Callers : pc[c] # "idle" ~> pc[c] = "idle"

\* The run table and the visit table without the clock.
AbstractRun ==
  [r \in RunId |->
     IF workflow[r] = None THEN None
     ELSE [pair |-> workflow[r].pair, graph |-> workflow[r].graph,
           status |-> workflow[r].status, done |-> workflow[r].completed # None]]

AbstractVisit ==
  [v \in VisitId |->
     IF visit[v] = None THEN None
     ELSE [run |-> visit[v].run, step |-> visit[v].step,
           assignee |-> visit[v].assignee, by |-> visit[v].by,
           action |-> IF visit[v].action = None THEN None ELSE visit[v].action[2]]]

Promise == INSTANCE RunSpec WITH
  run <- AbstractRun, hist <- AbstractVisit, Pairs <- Pair, People <- Callers

\* Null is not a row there either.
ASSUME PromiseAssumption == None \notin Promise!RunRow \cup Promise!HistRow

\* The Engine implements RunSpec: whatever the interleaving of statements, what is
\* committed moves as if every call happened at once, at its commit.
Linearizable == Promise!RSpec

-----------------------------------------------------------------------------
(* A property a comment states and the code does not have.                 *)

\* "no run can start while another is open, so an open run is necessarily the most
\* recent" (store_workflow.go): GetState answers with the open run if there is one.
GetStateAnswersLiveRun ==
  \A c \in Callers : pc[c] = "readState" =>
    LET p == arg[c].pair IN
    OpenRunsIn(snap[c].workflow, p) # {} => tx[c].run \in OpenRunsIn(snap[c].workflow, p)
=============================================================================
