# FlowCore in TLA+

FlowCore is a Go library that runs workflows over PostgreSQL. A *definition* is a graph of
statuses, steps and actions, which the **Catalog** edits; a *run* takes a subject through a copy
of that graph made when it starts, and the **Engine** moves it, one decision at a time. The
repository also holds a client, an insurer's *console*, in which people and machine agents
decide steps: a **Dispatcher** gives agents their work, and **sessions** keep visitors apart.

There is no lock, no queue and no state in the library's own process: every guarantee rests on
the order of SQL statements, on isolation levels, and on constraints and partial unique indexes.
That is what these modules model, statement by statement where what other callers do in between
can matter; where an action stands for several statements, the component's section says which.

The client is unfinished. Its server routes the session, the sign-in and the queue
(`client/internal/api/server.go:42-48`): no handler yet calls `Start`, `CompleteStep`, `Reassign`,
an edit of a definition or `Dispatch`, and only the worker decides steps. The modules have these
calls as `app` offers them, and as its comments say requests will make them.

## The parts of the system

| part | state | operations | what makes it correct |
|---|---|---|---|
| Engine (`engine.go`, `store_*.go`) | `workflow`, `step`, `action`, `step_visit` rows | `Start`, `CompleteStep`, `Reassign`, `GetState`, `GetHistory`, `ListAssignedSteps` | one open run per subject and definition; one current step per run; the history is a walk through the frozen graph; answers stay true |
| Catalog (`catalog.go`, `store_*_definition.go`) | the four definition tables | `Create`, `Get`, `Update*`, `Add*`, `Delete*` | every stored definition is whole; every refusal says what is the case |
| Error mapping (`errmap.go`) | none | from a constraint to an error, by intent | the caller is told the truth |
| Dispatcher (`client/internal/app/dispatcher.go`) | a channel, a set of queued visits, one worker, a ticker | `Dispatch`, `enqueue`, `sweepOnce`, `run` | a visit is worked on once at a time; the machine never signs for a person; agent work is not left lying |
| Sessions (`client/internal/{api,app,store}`) | `console.session`, `workflow_registry`, `submission` | `TouchSession`, `SeedSession`, the janitor, `mustOwn`/`mustContain` | a session is seeded once and wholly; an edit stays in its session; a sweep removes what has expired and nothing else |
| Migrations and start-up (`migrate.go`, `client/main.go`, `client/internal/store`) | the two schemas and their version tables, `console.staff` | `Migrate` of the library and of the console, `SeedStaff`, serving | a migration runs once, whoever starts at once or is killed; nothing is served on half a schema |
| Queue, worklist, identities, texts, web pages | none of their own | reads and rendering | not modelled |

They meet in the database and in a few calls. `Start` reads, in one snapshot, what the Catalog
writes; after that a run and its definition share nothing. The Dispatcher calls
`ListAssignedSteps`, `GetState` and `CompleteStep`, minutes apart, while people call
`CompleteStep` and `Reassign`. Seeding calls `Catalog.Create`, the janitor
`Catalog.DeleteWorkflowDefinition`, and the registry row that ties the two is written and
removed by other statements.

What is hard: two callers between the same two statements; a connection lost after some of them,
or after the commit but before its acknowledgement; an edit in the middle of a read; lock waits;
a list read before and used after someone else's change; two tabs that each write back what the
other has changed; a full channel; a restart; several processes that migrate one database.

## The modules

| module | models | lines it follows |
|---|---|---|
| `RunGraph` | the graphs runs are started with, as constants | `definition_types.go` |
| `Engine` | the Engine over PostgreSQL, by statements and transactions | `engine.go`, `store_workflow.go`, `store_step_visit.go`, `store_action.go`, migrations 00003-00004 |
| `RunSpec` | what the Engine promises: every call at once or not at all | the same, without statements, locks, clock or failures |
| `EngineProofs` | `Engine`: its inductive invariant, types, open runs, positions, the append-only record | |
| `EngineRefinementProofs` | `Engine` implements `RunSpec` | |
| `EngineHistoryProofs` | `Engine`: histories are routes, and commits break no constraint | |
| `EngineReplyProofs` | `Engine`: answers stay true, offers are kept | |
| `Dispatcher` | web requests, the sweeper and the worker, over `RunSpec` | `dispatcher.go`, `runtime.go`, `checker_*.go` |
| `DispatcherProofs` | theorems about `Dispatcher` | |
| `Catalog` | the definition tables, their constraints, the error mapper, and what `Start` freezes | `catalog.go`, `store_*_definition.go`, `errmap.go`, `buildSnapshot` in `engine.go`, migration 00001 |
| `ConsoleEdits` | the console's two read-then-write edits of a definition, over `Catalog` | the client's `catalog.go` |
| `CatalogProofs` | theorems about `Catalog` and `ConsoleEdits` | |
| `Sessions` | touching, seeding, editing and sweeping, by statements | `server.go`, `store.go`, `seed.go`, `app.go`, the client's `catalog.go` |
| `SessionsProofs` | theorems about `Sessions` | |
| `Boot` | several instances that migrate, seed the staff and serve | `migrate.go`, `client/main.go`, `client/internal/store/migrate.go`, `staff.go` |
| `BootProofs` | theorems about `Boot` | |
| `MCEngine`, `MCDispatcher`, `MCCatalog`, `MCConsoleEdits`, `MCSessions`, `MCBoot` | small instances for TLC | |

`Dispatcher` EXTENDS `RunSpec`: its runs move only by the operators of `RunSpec`, that is, it uses
the Engine by its promise, and the run `engine_refines` shows that the Engine keeps it. What the
promise says of the runs is therefore a matter of `Engine` and `RunSpec`, not of `Dispatcher`.
`ConsoleEdits` EXTENDS `Catalog` and adds to its callers.

### Engine

`workflow` and `visit` are the committed rows. Each caller runs one call at a time; `pc[c]` names
the statement it is at, `tx[c]` its locals and the time its transaction began, `wrun[c]` and
`wvis[c]` what the transaction has written. A statement reads the committed rows with the
caller's own writes over them. A row somebody else has written and not committed makes an
update of it wait; an insert waits on the pair's entry of `ux_workflow_active` in the same way.
At a commit the writes are installed; `Fail` ends a call at any statement, a commit whose
acknowledgement is lost included. `Start` and `GetState` read from a snapshot, `CompleteStep` is
read committed. The frozen copy of a graph is kept as the graph's name in the run's row, and the
id of an action's copy is the pair of run and action. A decision goes on after the gate by
`GetActionForStep`, `Advance` and `UpdateWorkflowStatus`: the next visit is inserted before the
run's status is stamped, and a transaction can fail or be waited for between the two.

These actions stand for several statements: `ReadDefinition` for its four queries, which read one
snapshot; `WriteSnapshot` for the inserts of steps, actions and the first visit, all of a run
nobody else can see; `Commit` and `ReadState` for the reads that make the answer, of the
transaction's own rows or its snapshot; the refusals of `CompleteStepVisit` and
`ReassignStepVisit` for the update and the read that finds out why it matched nothing, between
which a closed visit stays closed and an unknown id unknown; `Advance` for the read of a frozen
step and the insert. Because the definition is read at once here, an edit that falls between two
of the four queries is not a behaviour of `Engine`; it is one of `Catalog`, where `Get` reads table
by table, and `GetIsWhole` and `SnapshotIsClosed` are about it.

`EditDefinition` stands for the Catalog:
between any two statements a definition can hold another graph, one without an entry step, or be
gone.

### Dispatcher

`work` is the channel, `queued` the map under the mutex, `item` what the worker holds, `pc[p]`
where each goroutine is. `Mark` is the part of `enqueue` under the mutex, `Send` the select that
drops what does not fit, `Forget` the removal of the mark. `ReadState`, `Check`, `Complete` and
`Abandon` are the worker's `run`, with a restart or a person's decision possible between any two.
A checker's answer is one of the step's actions, or a failure. `Restart` loses everything in
memory. `Expire` takes the submission a run is about away with its session (the run stays: nothing
ties it to the session), which makes `SubjectText` fail; `ComeBack` writes it anew, as the seeding
of a returned visitor does. `Submit` stands for a web request that starts a run and hands the
Dispatcher its state;
no handler does that yet, the only present caller of `Dispatch` is the worker itself. Nor does one
call `App.CompleteStep` or `App.Reassign`, which `PersonDecides` and `PersonReassigns` are.
`GetState` answers here with the live run of a pair, which the run `engine_live_run` shows is not
always so: answered with the finished run, the worker would take its item as already handled
(`dispatcher.go:199`), and so would every later one of that run. That is not modelled.

### Catalog

`db` holds the four tables. Every method but `Create`, `AddAction` and `Get` is one statement and
so one action; `Create` is one transaction that nobody sees before its commit, and one action
too. `Statement` is how any of them ends: the first constraint that is violated, in the order
PostgreSQL checks them (check constraints, unique indexes, immediate foreign keys, deferred
foreign keys at the commit), refuses it with the error the mapper makes of that constraint.
The cascades of a delete are part of it. `AddAction` reads its step and inserts later; `Get`
takes a snapshot and reads table by table. The ids that `Create` is given may be rows' already.
`BuildSnapshot` is what `Start` makes of the tree it reads: new step ids first, then the actions,
each with its target looked up in a Go map, which answers a missing key with a zero value.

### ConsoleEdits

`SetEntryStep` and `RenameDefinition` each read the definition with `Get`, carry over the field
they are not about (`ToUpdate`), and write both with `UpdateWorkflowDefinition`. `asked[p]` is the
request, `params[p]` the row it is about to write. The other edits go on meanwhile.

### Sessions

A session row is no row, `fresh` (`created_at = last_seen_at`) or `touched`. A request goes from
`Touch` and `ReadCreated`, the two statements of `TouchSession`, through the writes of
`SeedSession`, to what it does in its session: leave, `CreateDefinition`, or an edit, which
checks ownership and then writes by the part's id. A part of a definition is named by the
definition it is in. The janitor's sweep is `Expire`, which deletes the rows, `ReadRegistry`
session by session, and `DeleteDefinition` one by one.

`SeedSession` makes eleven calls that write: `Create`, the registration, the submission, the claim's
detail and three documents, then `Create`, the registration, the submission and the application's
detail. The model makes them eight: `SeedDetails` is the detail and the documents together. A
seeding that ends between those leaves, as one that ends before them, a draft that is not `full`.

### Boot

An instance goes from `Boot` through the library's migration (`Lock`, `ReadLibrary`,
`ApplyLibrary`, `Unlock`), the console's (`ReadConsole`, `ApplyConsole`), `SeedStaff` and `Serve`
to serving. `Fault` is a statement that fails or a kill, at any of them; `main` ends the process at
every error, and the database releases its lock. `schema` says what DDL has run and `history` what
the version tables record; goose commits the two together. DDL that has already run fails, except
migration 00005, which can run twice.

## What is checked

Every run finishes in about two minutes at most.

| run | expect | what it shows |
|---|---|---|
| `engine_races` | pass | two callers start and decide the runs of one subject, over a graph with a loop: `OneActiveRun`, `OneCurrentStep`, `StatusIsPositional`, `HistoryIsARoute`, `ConstraintsNeverRefuse`, `NoHoldAndWait`, `RepliesAreTrue`, `HistoryIsAppendOnly` |
| `engine_refines` | pass | starts, decisions, reassignments and reads against edits of the definition: the committed rows move as in `RunSpec` (`Linearizable`), and `OfferedActionsAreAccepted` |
| `engine_returns` | pass | `EveryCallReturns` under fairness: no deadlock among row and index locks, and none who waits for ever |
| `engine_live_run` | violation | `GetState` answers with a finished run while another is live |
| `dispatcher` | pass | `OneTicketPerVisit`, `MachineSignsAsAgent`, `AgentWorkIsAttended` |
| `dispatcher_starved` | violation | an older step of an agent whose checks fail keeps the younger step of one whose checks succeed out of the queue for ever |
| `catalog` | pass | `DefinitionsAreWhole`, `GetIsWhole`, `SnapshotIsClosed`, `ErrorsAreTrue` |
| `catalog_rename` | violation | a rename that has read the definition before an entry step is set puts the old one back |
| `boot` | pass | `LibraryStartsTogether`, `HistoryIsExact`, `ServesComplete`, `EveryInstanceServes` |
| `sessions` | pass | `SeedersDoNotCollide`, `EditsStayInSession` |
| `sessions_sweep` | violation | the janitor deletes no definition of the sessions it expires |
| `sessions_unseeded` | violation | two requests at once leave a session that is never seeded |

Each passing module also has its `TypeOK`.

### Bounds, and why they are enough

* Engine: two callers, one subject and definition, two runs, up to four visits. A conflict is
  always between two transactions, about one pair or one visit; a third party adds only a longer
  line of waiters. Two runs give a finished and a live one, four visits a walk around the loop
  and a second run. `MaxClock` bounds how many transactions take a timestamp. Run and visit ids
  are interchangeable, hence the symmetry sets; they are not used under fairness.
* Dispatcher: one run of two agent steps in a channel of one place, with one web request beside
  the sweeper and the worker. The channel is full as soon as one item waits. `MaxUpsets` bounds
  restarts, reassignments, expiries and returns together, without which people could move a step
  back and forth for ever and nothing would have to be attended. Three let a submission go, come
  back and a restart fall between. Two runs of two steps give millions of states and no new
  kind of conflict. The starvation run has two runs of one step each, the older of them the
  failing agent's by its default assignee (`FailingFirst`, two graphs), and no upsets: nothing but
  sweeps and failed checks happens. Its specification is `FairSpec` with the runs started in that
  order, so what it finds is a behaviour of `FairSpec`. The channel's one place stands for the
  sixty-four of the code: it takes as many older failing steps as there are places.
* Catalog: two definitions with statuses, steps and actions to refer to by mistake, three edits
  (`MaxEdits`) after or including a `Create` of a whole tree. A refusal is not an edit and is not
  bounded. Three edits are enough to move the entry, remove a step and read in between. Of the ten
  trees seven each break one rule of `Create`. `NotRefused` cuts what follows a refusal: such a
  call leaves the tables as they are, so whatever can follow it can follow its absence.
* ConsoleEdits: one definition of two steps, two tabs.
* Boot: three instances, the repository's five migrations and five staff members, two faults. Two
  instances hold and wait; the third finds what the second left when it was killed. The database
  is empty or holds any number of the migrations of an earlier release.
* Sessions: two session ids, two requests at a time, three in all, four definitions: one visitor
  with two tabs, two visitors, and a visitor who comes back after a sweep. The model may stop
  when the visits are used up, so deadlock is not checked in these runs.

### Fairness

* Engine: strong fairness of every statement. A statement that waits on a lock is enabled again
  each time the holder commits, and PostgreSQL's lock queues are first come, first served, so a
  waiter that is let through infinitely often does go on. Callers need not call.
* Dispatcher: weak fairness of the goroutines' steps, which the Go scheduler gives them; the
  ticker is always on. Strong fairness of the worker's three outside calls, for each visit:
  `GetState`, the checker and `CompleteStep` may fail any number of times, but not for ever; for
  an agent the checker does not know there is no such promise, and `Check` is not enabled.
* Boot: weak fairness of every instance's next step. A process that has ended is started again, as
  a supervisor does; `main` does not retry by itself. The loser of the console's unlocked migration
  ends, and its next boot finds the migration applied.
* Catalog and Sessions have no liveness properties.

### What the code does otherwise than it says

* `getWorkflowIDBySubject` orders by `started_at`, the time the transaction *began*; the comment
  there concludes that an open run is the most recent. A `Start` that began before another run
  of the pair and inserted after that run finished is live and not the most recent.
* `RenameDefinition` is said to keep the entry step (`client/internal/app/catalog.go:233`). It
  writes back the one it has read; a `SetEntryStep` of another tab in between is lost.
* The janitor's comment says the registry is read before the session rows go; `ExpiredSessions`
  deletes them first. So no definition is ever deleted, except those of a visitor who has come
  back under the old cookie between the two statements, which are in use. The comment above
  `sweep` also says a definition's runs go with it: `flowcore.workflow` has no foreign key to
  definitions, they stay.
* A session two requests touch at once, or whose seeding fails half-way, is never seeded.
* A failed agent is said not to strand a run. When the agents' oldest open steps fail and fill
  the channel at every tick, the other agents' younger steps are never taken.

Not the subject of a run, but met on the way:

* `CreateDefinition` (`client/internal/app/catalog.go:89`) is said to record the definition
  against the session, and does not. `Sessions` has it as the code has it.
* `UnmappedConstraintError` is said to have no live trigger (`docs/system-design.md:473`,
  `docs/decisions.md:488`); `Create` with an id that is taken violates a primary key the mapper
  does not list. `TreeErrorIsTrue` has it as the error of exactly that case.
* `Reassign` is said to return the shape `CompleteStep` and `GetState` return (`engine.go:195-197`);
  line 223 does not load the actions. `GetWorkflowState` has it so.
* The seeded workflows give steps to agents that neither checker knows
  (`client/internal/app/workflows.go:44,63,80,133`; `checker_canned.go:37-77`,
  `checker_claude.go:36-42`), against `checker_canned.go:10-11` and `app.go:48-50`. In `Dispatcher`
  such an agent is one outside `Checkable`.
* `errmap.go:28-30` says the entry step's foreign key cannot be violated by a write;
  `UpdateWorkflowDefinition` does, and its own comment says so.
* `docs/system-design.md:496-498` says the loser of two completions gets a unique violation;
  `errmap.go:85-88`, like the model, has it wait for the row and find the visit closed.

## What is proved

For every set of callers, graphs, runs, definitions, instances and requests and every value of
the bounds. Nothing is assumed of the number of anything. The named assumptions of the constants
are all that is used: that `None` is no id, no name, no person and no row (`NoneAssumption`,
`RowAssumption`, `PromiseAssumption`, `RowsAssumption`, parts of the others), that steps are not
statuses (`TargetAssumption`), that no two steps share an action (`ActionsAssumption`, the
`step_id` of an action row), that the actions of a tree stand inside its steps
(`TreesAssumption`), that ids of runs and visits are ordered (`IdAssumption`), and that no stored
name is the empty string (`ZeroAssumption`, the length checks). Every run evaluates those of the
modules it extends.

* **Engine** (`EngineProofs`). `OneCurrentStep` and the rest are not inductive: a commit installs
  whatever the transaction has written. So `Inv` says what that is. `Writes` gives the rows each
  open transaction has written as a function of its call and of committed rows; `LocalsAt` what
  its locals are at each statement; `Fresh` that the ids it made up are nobody else's; `Locks`
  that the row lock of a visit and the index entry of a pair have one holder, and that a pair
  whose entry is held by a `Start` has no open run. From these, a commit is a step of one run
  that nobody else is touching, and `Position` (one open visit per open run, of the right
  status) and `OpenRuns` are preserved. Theorems: `Invariance`, `TypeCorrectness`,
  `OneActiveRunHolds`, `OneCurrentStepHolds`, `StatusIsPositionalHolds`,
  `HistoryIsAppendOnlyHolds`.
* **Engine implements RunSpec** (`EngineRefinementProofs`). Each step is mapped: the commit of a
  `Start` to `Begin`, the commit of a decision to `Decide`, the update of a `Reassign` to
  `HandOver`, everything else to a stutter. `Writes` says that a commit installs the rows of one
  call, `Locks` that nobody has started a run of the pair meanwhile. `Undecided` is added: an open
  visit names nobody as its decider, which is how `RunSpec` tells that it is open. Theorem:
  `LinearizableHolds`.
* **Histories** (`EngineHistoryProofs`). `Inv` says which rows a commit installs; `Times` adds
  when: a decision's transaction begins after its visit was entered, and the visit a run stands on
  is later than the run's other visits. Without it two visits of a run could have one time, and
  `GetHistory` would order them by chance. `HistoryIsARoute` is then inductive with the two: a
  decision makes the latest visit one that `LeftByItsGraph`, and adds its successor. Of
  the locks, `NoHoldAndWait` says that no transaction waits while it holds one, so that no circle
  of waiters can form. A decision, which writes three rows, waits at the first of them only: the
  gate makes it the only one that would write the other two, and the run row was committed before
  its visit could be seen. Theorems: `HistoryIsARouteHolds`, `ConstraintsNeverRefuseHolds`,
  `NoHoldAndWaitHolds`.
* **Answers** (`EngineReplyProofs`). An answer is made from the rows of the moment or of a
  snapshot and outlives them because the record is append-only. `ReplyTrue` says more than
  `RepliesAreTrue` of each reply (the visit it is about is there; `CompleteStep` has four
  outcomes); `Past` says of a snapshot that what it has is still there, `Offered` of a state a
  caller was shown that its actions are those of the visit's step. An offered action can then not
  be refused as unavailable. `OneDecider` is about all answers ever given: once a caller has been
  told that it decided a visit, no other is; the decision is on record, and the record is
  append-only. Theorems: `RepliesAreTrueHolds`, `OneDecider`, `OfferedActionsAreAcceptedHolds`.
* **Dispatcher** (`DispatcherProofs`). `OneTicketPerVisit` ranges over the channel, the worker and
  every goroutine between mutex and channel at once; `Inv` adds `Control` (the worker has an item
  exactly when it is not receiving), `Existing` (whatever is on its way is a row of the history)
  and `Asked` (what it is about to record is a checkable agent's answer by an action of that row's
  step). `SendPlace` and the lemmas on `Append` and `Tail` carry the channel. Theorems:
  `Invariance`, `TypeCorrectness`, `OneTicketPerVisitHolds`, `MachineSignsAsAgentHolds`.
* **RunSpec** (also `DispatcherProofs`, which the same graphs serve). `OnePlace` is proved of the
  promise alone; `Position`, with the types of the rows and that a visit's run is there, is the
  inductive form. It says what a user of the promise may rely on: one live run of a pair, one visit
  of a live run on the step of its status, none of a finished one. Theorem: `PromiseKeepsOnePlace`.
* **Catalog** (`CatalogProofs`). `Whole` is about the rows of the four tables, so it is first
  shown of two states of the tables: what putting or removing one row keeps, given the
  constraints of that row, what the two cascades keep, and what a whole tree of new rows keeps
  (`DefinitionPut` to `TreePut`). Each call is then one of these changes or none. `Core` adds that
  stored ids have been given out; `AddersOk` what an `AddAction` between its statements has read;
  `ReadersOk` that the answer of a `Get` is part of a snapshot of tables that were whole, from
  which `GetIsWhole` and the closedness of `buildSnapshot` follow. For `ErrorsAreTrue` the first
  violated constraint of each statement is followed through the mapper; that a definition can
  always be deleted needs `Whole` of what is left. Theorems: `Invariance`, `TypeCorrectness`,
  `DefinitionsAreWholeHolds`, `GetIsWholeHolds`, `SnapshotIsClosedHolds`, `ErrorsAreTrueHolds`.
* **ConsoleEdits** (also `CatalogProofs`). `ConsoleImplementsCatalog`: what the tabs do is a
  behaviour of the Catalog, with `ConsoleInv` saying what a tab is about to write. So everything
  above holds of the console, as `ConsoleKeepsDefinitionsWhole` and `ConsoleKeepsSnapshotsClosed`
  say for two: a stale write loses an entry step or a name and breaks nothing.
* **Sessions** (`SessionsProofs`). Why `created_at = last_seen_at` is read as true by one request
  at most: a session is fresh only until its second touch, so while it is fresh one request works
  in it (`FirstComer`); it has no rows from an earlier life, because a sweep takes a session with
  its rows and never one that is in use (`Alive`, `Unborn`, `Clean`); and the application example
  stays unwritten while the claim is being written (`AppLater`). For the edits, `Ledger`: no
  definition is registered for two sessions, the one about to be registered is nobody's, and what
  a request is about to write stays registered for its session. Theorems: `Invariance`,
  `TypeCorrectness`, `SeedersDoNotCollideHolds`, `EditsStayInSessionHolds`. The assumption that a
  session in use does not expire is the guard of `Expire`; without it both properties fail.
* **Boot** (`BootProofs`). `LibraryOk`: only the holder of the session lock is in a migration of
  the library, so what it has found missing stays missing until it applies it. The console's
  migration has no lock: `ConsoleOk` says that what was found missing covers what is missing, and
  may be more, which is when the second instance ends. `PassedOk`: rows are never taken from a
  table, so what a process has passed stays passed. `HistoryOk`: each version table is 1, 2, ... as
  far as the DDL has run, and none is ever made inside the schema the library creates. Theorems: `Invariance`,
  `TypeCorrectness`, `LibraryStartsTogetherHolds`, `HistoryIsExactHolds`, `ServesCompleteHolds`.

Every safety property of the passing runs is proved. Only model-checked: the liveness properties
`EveryCallReturns`, `AgentWorkIsAttended` and `EveryInstanceServes`, since neither fairness nor
`ENABLED` is within the prover's reach; and the counterexamples of the violation runs.

## What is not modelled

Lengths and wording (name and identifier limits, remarks, prompts, messages); assignees of
definitions, which are copied and never interpreted; reads that feed pages (`GetHistory`,
`ListAssignedSteps` outside the sweep, the queue, subject texts, the roster); `MarkSubmitted` and
`ActiveWorkflow`, which nothing calls yet; the web application.

Of the migrations, the DDL itself: `Boot` has which have run and in which order, and the constraints they
create are in `Catalog`, `Engine` and `Sessions`. goose and PostgreSQL are modelled from what the
code relies on (session locks, version tables, snapshots, row locks, unique indexes).
The shutdown of the server, which nothing waits for (`client/main.go:97-106`), is one way for a process to
end. Several clients whose dispatchers share one database are not modelled: the marks of a
dispatcher are its own, and what two of them do to one visit is two `CompleteStep` calls, which
`Engine` has.

A process that holds a transaction open for ever, a serialization failure and a PostgreSQL
deadlock error are not among the failures, beyond that any statement may fail.

## Plan

Done: `Engine` with `RunSpec`, `Dispatcher`, `Catalog` with `ConsoleEdits`, `Sessions` and `Boot`,
their runs, and the proofs above. Left, in this order:

1. Submissions: `MarkSubmitted` against a run's `Start`, once a handler calls them.
2. Two dispatchers over one database, when the console is deployed so.
3. The remaining edits of the console over `Catalog` with the ownership checks of `Sessions`, in one
   composition.
