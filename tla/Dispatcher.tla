----------------------------- MODULE Dispatcher -----------------------------
(***************************************************************************)
(* The reference client's agent dispatcher                                 *)
(* (src/client/internal/app/dispatcher.go) over the runs it attends.       *)
(*                                                                         *)
(* Web requests, one worker and one sweeper share an in-memory channel     *)
(* `work` and the map `queued`, whose mutex guards single accesses only.   *)
(* A restart loses all of it; the runs are rows and stay. The Engine is    *)
(* taken at its promise, RunSpec: a call happens at once or not at all.    *)
(***************************************************************************)
EXTENDS RunSpec, Sequences

CONSTANTS
  Requests,         \* goroutines that serve web requests
  Worker, Sweeper,  \* the goroutines Start launches
  Agents,           \* the references IsAgent accepts
  AgentReferences,  \* the references the sweep asks the worklist for
  Checkable,        \* the agents the checker has a script or instructions for
  QueueCapacity,    \* what the channel holds
  MaxUpsets         \* bound: restarts, reassignments, and sessions that expire or come back

Processes == Requests \cup {Worker, Sweeper}

ASSUME DispatcherAssumption ==
  /\ Agents \subseteq Assignees
  /\ Agents \subseteq People
  /\ AgentReferences \subseteq Agents
  /\ Checkable \subseteq Agents
  /\ QueueCapacity \in Nat /\ MaxUpsets \in Nat
  /\ Worker # Sweeper /\ {Worker, Sweeper} \cap Requests = {}
  /\ None \notin VisitId \cup Processes \cup People \cup RunRow \cup HistRow

\* Ids are uuid v7: they sort by the time they were made.
ASSUME IdAssumption == VisitId \subseteq Nat /\ RunId \subseteq Nat

VARIABLES
  work,      \* the channel: visits, oldest first
  queued,    \* the visits the map says are on their way to the worker or with it
  pc,        \* pc[p]: where goroutine p is
  holding,   \* holding[p]: the visit p is enqueueing
  item,      \* the visit the worker received
  asked,     \* the assignee the worker read, to whom it puts the question
  choice,    \* the action the checker chose
  assigned,  \* the worklist the sweeper read, less what it has enqueued
  upsets,    \* restarts, reassignments, expiries and returns so far
  gone       \* the pairs whose submission went with its session

memory == <<work, queued, pc, holding, item, asked, choice, assigned>>
runs == <<run, hist>>
vars == <<runs, memory, upsets, gone>>

\* Where p is when the client starts, and what it goes on with when its dispatch
\* is over.
Start(p) == IF p = Worker THEN "receive" ELSE "idle"
Rest(p) == IF p = Worker THEN "done" ELSE IF p = Sweeper THEN "next" ELSE "idle"

Goto(p, l) == pc' = [pc EXCEPT ![p] = l]

Current(r) == {v \in VisitId : Standing(v) /\ hist[v].run = r}

-----------------------------------------------------------------------------
(* Dispatch and enqueue, in any goroutine.                                 *)

\* Dispatch, on the state an Engine call returned: the current step of run r goes
\* to the queue if an agent owns it.
Dispatch(p, r) ==
  LET current == {v \in VisitId : Standing(v)' /\ hist'[v].run = r} IN
  \/ \E v \in current :
       /\ hist'[v].assignee \in Agents
       /\ holding' = [holding EXCEPT ![p] = v]
       /\ Goto(p, "mark")
  \/ /\ \A v \in current : hist'[v].assignee \notin Agents
     /\ Goto(p, Rest(p))
     /\ UNCHANGED holding

Release(p) == Goto(p, Rest(p)) /\ holding' = [holding EXCEPT ![p] = None]

\* The guard, under the mutex: a visit already on its way is left alone.
Mark(p) ==
  /\ pc[p] = "mark"
  /\ \/ /\ holding[p] \in queued
        /\ Release(p)
        /\ UNCHANGED queued
     \/ /\ holding[p] \notin queued
        /\ queued' = queued \cup {holding[p]}
        /\ Goto(p, "send")
        /\ UNCHANGED holding
  /\ UNCHANGED <<runs, work, item, asked, choice, assigned, upsets, gone>>

\* Mutant: the send does not look at how full the channel is.
SendUnbounded(p) ==
  /\ pc[p] = "send"
  /\ work' = Append(work, holding[p])
  /\ Release(p)
  /\ UNCHANGED <<runs, queued, item, asked, choice, assigned, upsets, gone>>

\* The non-blocking send, after the mutex is released.
Send(p) ==
  /\ pc[p] = "send"
  /\ \/ /\ Len(work) < QueueCapacity
        /\ work' = Append(work, holding[p])
        /\ Release(p)
     \/ /\ Len(work) >= QueueCapacity
        /\ Goto(p, "forget")
        /\ UNCHANGED <<work, holding>>
  /\ UNCHANGED <<runs, queued, item, asked, choice, assigned, upsets, gone>>

\* Mutant: a full queue drops the item and leaves the mark.
ForgetNothing(p) ==
  /\ pc[p] = "forget"
  /\ Release(p)
  /\ UNCHANGED <<runs, work, queued, item, asked, choice, assigned, upsets, gone>>

\* The queue was full: the item is dropped and its mark removed.
Forget(p) ==
  /\ pc[p] = "forget"
  /\ queued' = queued \ {holding[p]}
  /\ Release(p)
  /\ UNCHANGED <<runs, work, item, asked, choice, assigned, upsets, gone>>

-----------------------------------------------------------------------------
(* The worker: consume and run.                                            *)

\* Mutant: the mark is removed as the item leaves the channel.
ReceiveForgetting ==
  /\ pc[Worker] = "receive"
  /\ work # <<>>
  /\ item' = Head(work)
  /\ work' = Tail(work)
  /\ queued' = queued \ {Head(work)}
  /\ Goto(Worker, "getState")
  /\ UNCHANGED <<runs, holding, asked, choice, assigned, upsets, gone>>

\* consume: the worker takes the oldest item. Its mark stays while it is run.
Receive ==
  /\ pc[Worker] = "receive"
  /\ work # <<>>
  /\ item' = Head(work)
  /\ work' = Tail(work)
  /\ Goto(Worker, "getState")
  /\ UNCHANGED <<runs, queued, holding, asked, choice, assigned, upsets, gone>>

\* GetState, by subject and definition: the pair's live run, if there is one.
ReadState ==
  /\ pc[Worker] = "getState"
  /\ \/ /\ \E r \in Live(run[hist[item].run].pair) : item \in Current(r)
        /\ asked' = hist[item].assignee
        /\ Goto(Worker, "check")
     \/ /\ \A r \in Live(run[hist[item].run].pair) : item \notin Current(r)
        /\ Goto(Worker, "done")
        /\ UNCHANGED asked
  /\ UNCHANGED <<runs, work, queued, holding, item, choice, assigned, upsets, gone>>

\* Mutant: a checker that answers for whoever the step is assigned to.
CheckAnyone ==
  /\ pc[Worker] = "check"
  /\ choice' \in ActionsOf[run[hist[item].run].graph][hist[item].step]
  /\ Goto(Worker, "complete")
  /\ UNCHANGED <<runs, work, queued, holding, item, asked, assigned, upsets, gone>>

\* SubjectText finds the submission, and the checker is put the question as it stood
\* when the state was read: by the assignee, with the actions of the step.
Check ==
  /\ pc[Worker] = "check"
  /\ asked \in Checkable
  /\ run[hist[item].run].pair \notin gone
  /\ choice' \in ActionsOf[run[hist[item].run].graph][hist[item].step]
  /\ Goto(Worker, "complete")
  /\ UNCHANGED <<runs, work, queued, holding, item, asked, assigned, upsets, gone>>

\* Runs start and visits open in the order of their ids.
IdsGrow ==
  /\ \A v, w \in VisitId : hist'[v] = None /\ hist'[w] # None => w < v
  /\ \A r, q \in RunId : run'[r] = None /\ run'[q] # None => q < r

\* An Engine call that decides visit v: CompleteStep does not ask whether the
\* completer is the assignee.
Decided(v, who, a) ==
  LET r == hist[v].run
      g == run[r].graph
  IN /\ Standing(v)
     /\ Route(v, r, g, who, a) \/ Finish(v, r, g, who, a)
     /\ IdsGrow

\* CompleteStep. The visit may have been decided since the state was read, by a
\* person; the call is refused then. The answer may be lost.
Complete ==
  /\ pc[Worker] = "complete"
  /\ Decided(item, asked, choice)
  /\ \/ Dispatch(Worker, hist[item].run)
     \/ Goto(Worker, "done") /\ UNCHANGED holding
  /\ asked' = None /\ choice' = None
  /\ UNCHANGED <<work, queued, item, assigned, upsets, gone>>

\* GetState, SubjectText, Check or CompleteStep returns an error.
Abandon ==
  /\ pc[Worker] \in {"getState", "check", "complete"}
  /\ Goto(Worker, "done")
  /\ asked' = None /\ choice' = None
  /\ UNCHANGED <<runs, work, queued, holding, item, assigned, upsets, gone>>

\* run is over: the visit is forgotten and the worker receives again.
Done ==
  /\ pc[Worker] = "done"
  /\ queued' = queued \ {item}
  /\ item' = None
  /\ Goto(Worker, "receive")
  /\ UNCHANGED <<runs, work, holding, asked, choice, assigned, upsets, gone>>

-----------------------------------------------------------------------------
(* The sweeper.                                                            *)

\* A tick: ListAssignedSteps with the agents' references, read at once.
Sweep ==
  /\ pc[Sweeper] = "idle"
  /\ assigned' = {v \in VisitId : Standing(v) /\ hist[v].assignee \in AgentReferences}
  /\ Goto(Sweeper, "next")
  /\ UNCHANGED <<runs, work, queued, holding, item, asked, choice, upsets, gone>>

\* One by one, the oldest first, whatever has become of them since.
NextAssigned ==
  /\ pc[Sweeper] = "next"
  /\ \/ /\ assigned = {}
        /\ Goto(Sweeper, "idle")
        /\ UNCHANGED <<holding, assigned>>
     \/ \E v \in assigned :
          /\ \A w \in assigned : v <= w
          /\ assigned' = assigned \ {v}
          /\ holding' = [holding EXCEPT ![Sweeper] = v]
          /\ Goto(Sweeper, "mark")
  /\ UNCHANGED <<runs, work, queued, item, asked, choice, upsets, gone>>

-----------------------------------------------------------------------------
(* The people, and the process.                                            *)

\* A request starts a run, or a person decides a step, their own or an agent's.
\* The request dispatches with the state the call returned.
Submit(p) ==
  /\ pc[p] = "idle"
  /\ \E pair \in Pairs \ gone : Begin(pair) /\ IdsGrow
  /\ \E r \in Unstarted \ Unstarted' : Dispatch(p, r)
  /\ UNCHANGED <<work, queued, item, asked, choice, assigned, upsets, gone>>

PersonDecides(p) ==
  /\ pc[p] = "idle"
  /\ \E v \in VisitId \ Unentered, who \in People \ Agents :
       /\ \E a \in ActionsOf[run[hist[v].run].graph][hist[v].step] : Decided(v, who, a)
       /\ Dispatch(p, hist[v].run)
  /\ UNCHANGED <<work, queued, item, asked, choice, assigned, upsets, gone>>

\* Reassign: nothing is dispatched.
PersonReassigns(v) ==
  /\ upsets < MaxUpsets
  /\ upsets' = upsets + 1
  /\ HandOver(v)
  /\ UNCHANGED <<memory, gone>>

\* The janitor deletes an idle session, with its submissions; a visitor who comes
\* back with the cookie is seeded anew, under the same references. The runs stay:
\* no row of flowcore refers to the console's.
Expire(pair) ==
  /\ upsets < MaxUpsets
  /\ upsets' = upsets + 1
  /\ gone' = gone \cup {pair}
  /\ UNCHANGED <<runs, memory>>

ComeBack(pair) ==
  /\ pair \in gone /\ upsets < MaxUpsets
  /\ upsets' = upsets + 1
  /\ gone' = gone \ {pair}
  /\ UNCHANGED <<runs, memory>>

\* The client stops, anywhere, and starts again: its memory is gone.
Restart ==
  /\ upsets < MaxUpsets
  /\ upsets' = upsets + 1
  /\ work' = <<>> /\ queued' = {} /\ assigned' = {}
  /\ pc' = [p \in Processes |-> Start(p)]
  /\ holding' = [p \in Processes |-> None]
  /\ item' = None /\ asked' = None /\ choice' = None
  /\ UNCHANGED <<runs, gone>>

-----------------------------------------------------------------------------
Init ==
  /\ RInit
  /\ work = <<>> /\ queued = {} /\ assigned = {}
  /\ pc = [p \in Processes |-> Start(p)]
  /\ holding = [p \in Processes |-> None]
  /\ item = None /\ asked = None /\ choice = None
  /\ upsets = 0 /\ gone = {}

Enqueue(p) == Mark(p) \/ Send(p) \/ Forget(p)

\* What the worker does about an item, from the read to the answer.
Run == ReadState \/ Check \/ Complete \/ Abandon

Next ==
  \/ \E p \in Processes : Enqueue(p)
  \/ Receive \/ Run \/ Done
  \/ Sweep \/ NextAssigned
  \/ \E p \in Requests : Submit(p) \/ PersonDecides(p)
  \/ \E v \in VisitId : PersonReassigns(v)
  \/ \E pair \in Pairs : Expire(pair) \/ ComeBack(pair)
  \/ Restart

Spec == Init /\ [][Next]_vars

\* Goroutines keep running and the ticker keeps ticking. What the worker asks for
\* about a visit again and again succeeds one day: the database is not down for
\* good, and the checker, if it knows the agent at all, does not fail for good.
Fairness ==
  /\ \A p \in Processes : WF_vars(Enqueue(p))
  /\ WF_vars(Receive) /\ WF_vars(Run) /\ WF_vars(Done)
  /\ WF_vars(Sweep) /\ WF_vars(NextAssigned)
  /\ \A v \in VisitId :
       /\ SF_vars(item = v /\ ReadState)
       /\ SF_vars(item = v /\ Check)
       /\ SF_vars(item = v /\ Complete)

FairSpec == Spec /\ Fairness

(***************************************************************************)
(* Properties.                                                             *)
(***************************************************************************)

\* Every variable has its type, and the channel never holds more than it was made
\* for.
TypeOK ==
  /\ run \in [RunId -> RunRow \cup {None}]
  /\ hist \in [VisitId -> HistRow \cup {None}]
  /\ work \in Seq(VisitId) /\ Len(work) <= QueueCapacity
  /\ queued \subseteq VisitId /\ assigned \subseteq VisitId
  /\ pc \in [Processes -> {"idle", "mark", "send", "forget", "receive", "getState",
                            "check", "complete", "done", "next"}]
  /\ holding \in [Processes -> VisitId \cup {None}]
  /\ item \in VisitId \cup {None}
  /\ asked \in Assignees \cup {None}
  /\ choice \in Actions \cup {None}
  /\ upsets \in 0 .. MaxUpsets /\ gone \subseteq Pairs

\* The goroutines that have marked a visit and neither sent nor forgotten it.
Sending == {p \in Processes : pc[p] \in {"send", "forget"}}

\* "queued guards against dispatching the same visit twice": a visit is at most once
\* in the channel, with the worker or on its way in, and the map holds exactly the
\* visits that are. A mark too few runs an agent twice; a mark too many strands the
\* visit, because every later sweep would skip it.
OneTicketPerVisit ==
  /\ \A i, j \in 1 .. Len(work) : work[i] = work[j] => i = j
  /\ \A i \in 1 .. Len(work) : work[i] # item
  /\ \A p \in Sending :
       /\ holding[p] # item
       /\ \A i \in 1 .. Len(work) : work[i] # holding[p]
       /\ \A q \in Sending : holding[q] = holding[p] => p = q
  /\ queued = {work[i] : i \in 1 .. Len(work)}
              \cup ({item} \ {None}) \cup {holding[p] : p \in Sending}

\* A ticket can outlive the assignment it was made for, but the worker signs a
\* decision only as an agent the checker speaks for, on the visit it was given, by
\* an action of that visit's own step: never in the name of the person the work has
\* moved to (run).
MachineSignsAsAgent ==
  [][\A v \in VisitId :
       pc[Worker] = "complete" /\ pc'[Worker] # "complete"
         /\ Standing(v) /\ ~Standing(v)' =>
       /\ v = item
       /\ hist'[v].by \in Checkable
       /\ hist'[v].action \in ActionsOf[run[hist[v].run].graph][hist[v].step]]_vars

\* Work v waits on an agent that the checker speaks for, about a submission that is
\* still there.
Waiting(v) ==
  /\ Standing(v) /\ hist[v].assignee \in AgentReferences \cap Checkable
  /\ run[hist[v].run].pair \notin gone

\* "A failed agent does not strand a run", nor does a full queue or a restart: work
\* waiting on an agent is decided, by the agent or by a person, or moved away.
AgentWorkIsAttended == \A v \in VisitId : Waiting(v) ~> ~Waiting(v)
=============================================================================
