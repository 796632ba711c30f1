-------------------------- MODULE EngineReplyProofs --------------------------
(***************************************************************************)
(* What callers are told stays true, for any number of callers, subjects   *)
(* and graphs.                                                             *)
(*                                                                         *)
(* An answer is made from the rows of the moment, or from those of a       *)
(* snapshot. It outlives them because the record is append-only: of a row  *)
(* an answer speaks of, the parts it speaks of do not change. ReplyTrue    *)
(* says more of a reply than RepliesAreTrue: that the visit it is about is *)
(* there, and that CompleteStep has no other outcomes than its four.       *)
(***************************************************************************)
EXTENDS EngineHistoryProofs

\* rep, said to c, is so.
ReplyTrue(c, rep) ==
  LET v == rep.arg.visit IN
  /\ rep.op = "complete" =>
       /\ rep.outcome \in {"ok", "not_open", "not_available", "not_found"}
       /\ rep.outcome = "not_found" => v = None
  /\ rep.op = "complete" /\ rep.outcome = "ok" =>
       /\ v \in KnownVisits /\ visit[v].completed # None
       /\ visit[v].by = c /\ visit[v].action = rep.arg.action
  /\ rep.outcome = "not_open" => v \in KnownVisits /\ visit[v].completed # None
  /\ rep.outcome = "not_available" =>
       /\ v \in KnownVisits
       /\ \/ rep.arg.action[1] # visit[v].run
          \/ rep.arg.action[2] \notin
               ActionsOf[workflow[visit[v].run].graph][visit[v].step]

\* The actions of s are those of the visit it shows.
Offered(s) ==
  s.visit # None =>
    /\ s.visit \in KnownVisits /\ visit[s.visit].run = s.run
    /\ s.actions = ActionsOf[workflow[s.run].graph][visit[s.visit].step]

\* The tables have been rows.
Past(rows) ==
  /\ \A v \in VisitId : rows.visit[v] # None =>
       /\ visit[v] # None
       /\ visit[v].run = rows.visit[v].run /\ visit[v].step = rows.visit[v].step
  /\ \A r \in RunId : rows.workflow[r] # None =>
       workflow[r] # None /\ workflow[r].graph = rows.workflow[r].graph

Told == \A c \in Callers : \A rep \in {reply[c]} : ReplyTrue(c, rep)

Shown ==
  \A c \in Callers :
    /\ pc[c] = "readState" => \A rows \in {snap[c]} : Past(rows)
    /\ seen[c] # None => \A s \in {seen[c]} : Offered(s)

-----------------------------------------------------------------------------
(* What was so stays so.                                                   *)

LEMMA RowsStay ==
  ASSUME Inv, [Next]_vars
  PROVE  /\ \A v \in KnownVisits :
              /\ v \in KnownVisits' /\ visit'[v].run = visit[v].run
              /\ visit'[v].step = visit[v].step
              /\ visit[v].completed # None => visit'[v] = visit[v]
              /\ visit[v].run \in KnownRuns
         /\ \A r \in KnownRuns : r \in KnownRuns' /\ workflow'[r].graph = workflow[r].graph
<1>1. NothingRewritten
  BY NothingRewrittenStep
<1>2. \A v \in KnownVisits : v \in VisitId /\ visit[v].run \in KnownRuns
  BY Known
<1>3. \A r \in KnownRuns : r \in RunId
  BY Known
<1> QED BY <1>1, <1>2, <1>3 DEF NothingRewritten, KnownVisits, KnownRuns, IsOpen

LEMMA ReplyStays ==
  ASSUME Inv, [Next]_vars, NEW c, NEW rep, ReplyTrue(c, rep)
  PROVE  ReplyTrue(c, rep)'
<1> DEFINE v == rep.arg.visit
<1>1. v \in KnownVisits =>
        /\ v \in KnownVisits' /\ visit'[v].run = visit[v].run
        /\ visit'[v].step = visit[v].step
        /\ visit[v].completed # None => visit'[v] = visit[v]
        /\ workflow'[visit[v].run].graph = workflow[visit[v].run].graph
  BY RowsStay
<1> QED BY <1>1 DEF ReplyTrue

LEMMA OfferStays ==
  ASSUME Inv, [Next]_vars, NEW s, Offered(s)
  PROVE  Offered(s)'
<1>1. s.visit \in KnownVisits =>
        /\ s.visit \in KnownVisits' /\ visit'[s.visit].run = visit[s.visit].run
        /\ visit'[s.visit].step = visit[s.visit].step
        /\ workflow'[visit[s.visit].run].graph = workflow[visit[s.visit].run].graph
  BY RowsStay
<1> QED BY <1>1 DEF Offered

LEMMA PastStays ==
  ASSUME Inv, [Next]_vars, NEW rows, Past(rows)
  PROVE  Past(rows)'
<1>1. \A v \in VisitId : visit[v] # None =>
        /\ visit'[v] # None
        /\ visit'[v].run = visit[v].run /\ visit'[v].step = visit[v].step
  BY RowsStay DEF KnownVisits
<1>2. \A r \in RunId : workflow[r] # None =>
        workflow'[r] # None /\ workflow'[r].graph = workflow[r].graph
  BY RowsStay DEF KnownRuns
<1> QED BY <1>1, <1>2 DEF Past

-----------------------------------------------------------------------------
(* What a statement answers is so.                                         *)

\* Which operation a statement is of.
LEMMA Operations ==
  ASSUME NEW l \in PC \ {"idle"}
  PROVE  (OpOf(l) = "complete") = (l \in CompletePC)
<1>1. CASE l \in StartPC
  BY <1>1 DEF OpOf, StartPC, CompletePC, ReassignPC, GetPC
<1>2. CASE l \in CompletePC
  BY <1>2 DEF OpOf, StartPC, CompletePC, ReassignPC, GetPC
<1>3. CASE l \in ReassignPC
  BY <1>3 DEF OpOf, StartPC, CompletePC, ReassignPC, GetPC
<1>4. CASE l \in GetPC
  BY <1>4 DEF OpOf, StartPC, CompletePC, ReassignPC, GetPC
<1> QED BY <1>1, <1>2, <1>3, <1>4 DEF PC

\* CompleteStep and Reassign are refused for a visit that is not there or not open.
LEMMA RefusedTrue ==
  ASSUME Inv, Times, NEW c \in Callers, UNCHANGED <<workflow, visit>>,
         pc[c] \in {"completeStepVisit", "reassignStepVisit"}, ~Matches(arg[c].visit),
         NEW rep, rep = [op |-> OpOf(pc[c]), outcome |-> ClosedOrMissing(arg[c].visit),
                         arg |-> arg[c], state |-> None]
  PROVE  ReplyTrue(c, rep)'
<1> DEFINE v == arg[c].visit
<1>1. /\ rep.arg.visit = v /\ rep.outcome = ClosedOrMissing(v)
      /\ rep.op = "complete" => pc[c] = "completeStepVisit"
  BY DEF OpOf, StartPC, CompletePC, ReassignPC
<1>2. v \in VisitId \cup {None}
  BY DEF Inv, CoreType, Arg
<1>3. pc[c] = "completeStepVisit" /\ v # None => visit[v] # None
  BY DEF Times, Naming, CompletePC
<1>4. /\ rep.outcome \in {"not_found", "not_open"}
      /\ rep.outcome = "not_open" => v # None /\ visit[v] # None /\ visit[v].completed # None
      /\ rep.outcome = "not_found" => v = None \/ visit[v] = None
  BY <1>1 DEF ClosedOrMissing, Matches, IsOpen
<1> HIDE DEF v
<1>5. /\ rep.op = "complete" /\ rep.outcome = "not_found" => v = None
      /\ rep.outcome = "not_open" => v \in KnownVisits' /\ visit'[v].completed # None
  BY <1>1, <1>2, <1>3, <1>4 DEF KnownVisits
<1> QED BY <1>1, <1>4, <1>5 DEF ReplyTrue

\* An action is refused for not being one of the step's.
LEMMA NotAvailableTrue ==
  ASSUME Inv, NEW c \in Callers, UNCHANGED <<workflow, visit>>,
         pc[c] = "getActionForStep", ~ActionOfStep(c),
         NEW rep, rep = [op |-> OpOf(pc[c]), outcome |-> "not_available",
                         arg |-> arg[c], state |-> None]
  PROVE  ReplyTrue(c, rep)'
<1> DEFINE v == arg[c].visit
           row == ClosedVisit(c)
<1>1. /\ v \in VisitId /\ visit[v] \in VisitRow /\ IsOpen(visit[v])
      /\ visit[v].run = tx[c].run /\ row # None /\ Deciding(c)
  BY DecidedRun DEF Deciding
<1>2. wvis[c][v] = row
  BY <1>1, HeldRows, OwnVisits DEF IsOpen
<1>3. row.run = visit[v].run /\ row.step = visit[v].step /\ row.action = arg[c].action
  BY <1>1 DEF ClosedVisit, VisitRow
<1>4. \/ arg[c].action[1] # visit[v].run
      \/ arg[c].action[2] \notin ActionsOf[workflow[visit[v].run].graph][visit[v].step]
  BY <1>2, <1>3 DEF ActionOfStep
<1>5. v \in KnownVisits'
  BY <1>1 DEF KnownVisits, IsOpen
<1>6. rep.arg = arg[c] /\ rep.outcome = "not_available"
  OBVIOUS
<1> HIDE DEF v, row
<1> QED BY <1>4, <1>5, <1>6 DEF ReplyTrue, v

\* An acknowledged decision is on record.
LEMMA AcknowledgedTrue ==
  ASSUME Inv, NEW c \in Callers, Commit(c), NEW state,
         NEW rep, rep = [op |-> OpOf(pc[c]), outcome |-> "ok", arg |-> arg[c],
                         state |-> state]
  PROVE  ReplyTrue(c, rep)'
<1>1. rep.arg = arg[c] /\ rep.outcome = "ok" /\ (rep.op = "complete" => pc[c] = "commitStep")
  <2>1. pc[c] \in {"commitStart", "commitStep"}
    BY DEF Commit
  <2>2. OpOf(pc[c]) = "complete" => pc[c] = "commitStep"
    BY <2>1, Operations DEF PC, StartPC, CompletePC
  <2> QED BY <2>2
<1>2. CASE pc[c] = "commitStep"
  <2> DEFINE v == arg[c].visit
             row == ClosedVisit(c)
  <2>1. /\ v \in VisitId /\ row # None /\ row.completed # None /\ row.by = c
        /\ row.action = arg[c].action
    BY <1>2, DecidedFacts
  <2>2. visit'[v] = row
    BY <1>2, DecisionEffect
  <2> HIDE DEF row
  <2> QED BY <1>1, <2>1, <2>2 DEF ReplyTrue, KnownVisits
<1> QED BY <1>1, <1>2 DEF ReplyTrue

\* No promise is made by an outcome that is not about a visit.
LEMMA OtherTrue ==
  ASSUME NEW c, NEW rep, rep.op # "complete",
         rep.outcome \notin {"not_open", "not_available"}
  PROVE  ReplyTrue(c, rep)'
BY DEF ReplyTrue

\* A reply is made by a statement, and made true.
LEMMA RepliesMade ==
  ASSUME Inv, Times, TypeOK, NEW c \in Callers, Statement(c)
  PROVE  /\ \A d \in Callers : d # c => reply'[d] = reply[d]
         /\ reply'[c] = reply[c] \/ \A rep : rep = reply'[c] => ReplyTrue(c, rep)'
<1> DEFINE Goal == /\ \A d \in Callers : d # c => reply'[d] = reply[d]
                   /\ \/ reply'[c] = reply[c]
                      \/ \A rep : rep = reply'[c] => ReplyTrue(c, rep)'
<1> SUFFICES Goal
  OBVIOUS
<1>1. ASSUME NEW o, NEW state, Return(c, o, state),
             \A rep : rep = [op |-> OpOf(pc[c]), outcome |-> o, arg |-> arg[c],
                             state |-> state] => ReplyTrue(c, rep)'
      PROVE  Goal
  <2> DEFINE made == [op |-> OpOf(pc[c]), outcome |-> o, arg |-> arg[c], state |-> state]
  <2>1. reply' = [reply EXCEPT ![c] = made] /\ reply \in [Callers -> Reply]
    BY <1>1 DEF Return, TypeOK
  <2> HIDE DEF made
  <2>2. reply'[c] = made /\ \A d \in Callers : d # c => reply'[d] = reply[d]
    BY <2>1
  <2> QED BY <1>1, <2>2 DEF made
<1>2. ASSUME reply' = reply PROVE Goal
  BY <1>2
<1>3. ASSUME NEW o, NEW state, Return(c, o, state), OpOf(pc[c]) # "complete",
             o \notin {"not_open", "not_available"}
      PROVE  Goal
  <2>1. ASSUME NEW rep, rep = [op |-> OpOf(pc[c]), outcome |-> o, arg |-> arg[c],
                               state |-> state]
        PROVE  ReplyTrue(c, rep)'
    <3>1. rep.op = OpOf(pc[c]) /\ rep.outcome = o
      BY <2>1
    <3> QED BY <1>3, <3>1, OtherTrue
  <2> QED BY <1>1, <1>3, <2>1
<1> HIDE DEF Goal
<1>4. CASE ReadDefinition(c)
  <2>1. OpOf(pc[c]) # "complete"
    BY <1>4, Operations DEF ReadDefinition, PC, StartPC, CompletePC
  <2> QED BY <1>2, <1>3, <1>4, <2>1 DEF ReadDefinition, Refuse
<1>5. CASE InsertWorkflow(c)
  <2>1. OpOf(pc[c]) # "complete"
    BY <1>5, Operations DEF InsertWorkflow, PC, StartPC, CompletePC
  <2> QED BY <1>2, <1>3, <1>5, <2>1 DEF InsertWorkflow, Refuse
<1>6. CASE \/ WriteSnapshot(c) \/ Advance(c)
           \/ UpdateWorkflowStatus(c) \/ ReadState(c)
  BY <1>2, <1>6 DEF WriteSnapshot, Advance, UpdateWorkflowStatus, ReadState
<1>7. CASE CompleteStepVisit(c) \/ ReassignStepVisit(c)
  <2>1. CASE reply' = reply
    BY <1>2, <2>1
  <2>2. CASE reply' # reply
    <3>1. /\ pc[c] \in {"completeStepVisit", "reassignStepVisit"}
          /\ ~Matches(arg[c].visit)
          /\ Return(c, ClosedOrMissing(arg[c].visit), None)
          /\ UNCHANGED <<workflow, visit>>
      BY <1>7, <2>2 DEF CompleteStepVisit, ReassignStepVisit, Refuse, tables
    <3>2. \A rep : rep = [op |-> OpOf(pc[c]), outcome |-> ClosedOrMissing(arg[c].visit),
                          arg |-> arg[c], state |-> None] => ReplyTrue(c, rep)'
      BY <3>1, RefusedTrue
    <3> QED BY <1>1, <3>1, <3>2
  <2> QED BY <2>1, <2>2
<1>8. CASE GetActionForStep(c)
  <2>1. CASE reply' = reply
    BY <1>2, <2>1
  <2>2. CASE reply' # reply
    <3>1. /\ pc[c] = "getActionForStep" /\ ~ActionOfStep(c)
          /\ Return(c, "not_available", None) /\ UNCHANGED <<workflow, visit>>
      BY <1>8, <2>2 DEF GetActionForStep, Refuse, tables
    <3>2. \A rep : rep = [op |-> OpOf(pc[c]), outcome |-> "not_available",
                          arg |-> arg[c], state |-> None] => ReplyTrue(c, rep)'
      BY <3>1, NotAvailableTrue
    <3> QED BY <1>1, <3>1, <3>2
  <2> QED BY <2>1, <2>2
<1>9. CASE Commit(c)
  <2>1. CASE reply' = reply
    BY <1>2, <2>1
  <2>2. CASE reply' # reply
    <3>1. Return(c, "ok", StateIn(TxWorkflow(c), TxVisit(c), tx[c].run))
      BY <1>9, <2>2 DEF Commit
    <3> DEFINE state == StateIn(TxWorkflow(c), TxVisit(c), tx[c].run)
    <3>2. Return(c, "ok", state)
      BY <3>1
    <3> HIDE DEF state
    <3>3. \A rep : rep = [op |-> OpOf(pc[c]), outcome |-> "ok", arg |-> arg[c],
                          state |-> state] => ReplyTrue(c, rep)'
      BY <1>9, AcknowledgedTrue
    <3> QED BY <1>1, <3>2, <3>3
  <2> QED BY <2>1, <2>2
<1>10. CASE GetWorkflowState(c)
  <2>1. OpOf(pc[c]) # "complete"
    BY <1>10, Operations DEF GetWorkflowState, PC, ReassignPC, CompletePC
  <2> QED BY <1>3, <1>10, <2>1 DEF GetWorkflowState
<1>11. CASE GetWorkflowIDBySubject(c)
  <2>1. OpOf(pc[c]) # "complete"
    BY <1>11, Operations DEF GetWorkflowIDBySubject, PC, GetPC, CompletePC
  <2> QED BY <1>2, <1>3, <1>11, <2>1 DEF GetWorkflowIDBySubject, Refuse
<1> QED BY <1>4, <1>5, <1>6, <1>7, <1>8, <1>9, <1>10, <1>11 DEF Statement

LEMMA ToldNext ==
  ASSUME Inv, Times, TypeOK, Told, [Next]_vars
  PROVE  Told'
<1> SUFFICES ASSUME NEW d \in Callers, NEW rep, rep = reply'[d]
             PROVE  ReplyTrue(d, rep)'
  BY DEF Told
<1>1. CASE rep = reply[d]
  <2>1. ReplyTrue(d, rep)
    BY <1>1 DEF Told
  <2> QED BY <2>1, ReplyStays
<1>2. ASSUME NEW c \in Callers, Statement(c), rep # reply[d]
      PROVE  ReplyTrue(d, rep)'
  BY <1>2, RepliesMade
<1>3. ASSUME NEW c \in Callers, MakeCall(c), rep # reply[d]
      PROVE  ReplyTrue(d, rep)'
  <2>1. reply' = [reply EXCEPT ![c] = NoReply] /\ reply \in [Callers -> Reply]
    BY <1>3 DEF MakeCall, StartCall, GetStateCall, CompleteCall, ReassignCall, TimedCall,
       Call, TypeOK
  <2>2. rep = NoReply
    BY <1>3, <2>1
  <2>3. rep.op = "none" /\ rep.outcome = "none"
    BY <2>2 DEF NoReply
  <2> QED BY <2>3, OtherTrue
<1>4. ASSUME NEW c \in Callers, Fail(c)
      PROVE  reply' = reply
  BY <1>4 DEF Fail
<1>5. CASE UNCHANGED vars \/ \E e \in Definitions, g \in Graphs \cup {None} : EditDefinition(e, g)
  <2>1. reply' = reply
    BY <1>5 DEF vars, EditDefinition
  <2> QED BY <1>1, <2>1
<1> QED BY <1>1, <1>2, <1>3, <1>4, <1>5 DEF Next

LEMMA ToldAlways == Spec => []Told
<1>1. Init => Told
  <2> SUFFICES ASSUME Init, NEW c \in Callers, NEW rep, rep = reply[c]
               PROVE  ReplyTrue(c, rep)
    BY DEF Told
  <2>1. rep = NoReply
    BY DEF Init
  <2>2. rep.op = "none" /\ rep.outcome = "none"
    BY <2>1 DEF NoReply
  <2> QED BY <2>2 DEF ReplyTrue
<1> QED BY <1>1, ToldNext, TimesAlways, TypeCorrectness, Invariance, PTL DEF Spec

\* What a caller was told of a visit it decided is on record and stays so.
THEOREM RepliesAreTrueHolds == Spec => []RepliesAreTrue
<1>1. Told => RepliesAreTrue
  BY DEF Told, ReplyTrue, RepliesAreTrue
<1> QED BY <1>1, ToldAlways, PTL

-----------------------------------------------------------------------------
(* A visit is decided for one caller.                                      *)

\* The last thing c was told is that it has decided visit v.
ToldDecided(c, v) ==
  reply[c].op = "complete" /\ reply[c].outcome = "ok" /\ reply[c].arg.visit = v

\* Visit v is closed, and by c.
DecidedBy(v, c) == visit[v] # None /\ ~IsOpen(visit[v]) /\ visit[v].by = c

LEMMA ToldIsSo ==
  ASSUME Told, NEW c \in Callers, NEW v \in VisitId, ToldDecided(c, v)
  PROVE  DecidedBy(v, c)
<1>1. PICK rep \in {reply[c]} : rep = reply[c]
  OBVIOUS
<1>2. ReplyTrue(c, rep)
  BY DEF Told
<1>3. rep.op = "complete" /\ rep.outcome = "ok" /\ rep.arg.visit = v
  BY <1>1 DEF ToldDecided
<1> QED BY <1>2, <1>3 DEF ReplyTrue, DecidedBy, IsOpen, KnownVisits

\* A visit that c has closed stays closed by c.
LEMMA DecidedByStays ==
  ASSUME NEW c \in Callers, NEW v \in VisitId, DecidedBy(v, c),
         [NothingRewritten]_<<workflow, visit>>
  PROVE  DecidedBy(v, c)'
<1>1. CASE NothingRewritten
  <2>1. v \in KnownVisits
    BY DEF DecidedBy, KnownVisits
  <2>2. visit'[v] = visit[v]
    BY <1>1, <2>1 DEF NothingRewritten, DecidedBy
  <2> QED BY <2>2 DEF DecidedBy, IsOpen
<1>2. CASE UNCHANGED <<workflow, visit>>
  BY <1>2 DEF DecidedBy, IsOpen
<1> QED BY <1>1, <1>2

\* Of all the callers that ever decide a visit, at whatever time and however often
\* they try, one only is told that it did: once one has been, no other ever is
\* (CompleteStep, completeStepVisit).
THEOREM OneDecider ==
  ASSUME NEW c \in Callers, NEW d \in Callers, NEW v \in VisitId, c # d
  PROVE  Spec => [](ToldDecided(c, v) => []~ToldDecided(d, v))
<1>1. Told => (ToldDecided(c, v) => DecidedBy(v, c))
  BY ToldIsSo
<1>2. Told => (ToldDecided(d, v) => DecidedBy(v, d))
  BY ToldIsSo
<1>3. DecidedBy(v, c) /\ [NothingRewritten]_<<workflow, visit>> => DecidedBy(v, c)'
  BY DecidedByStays
<1>4. ~(DecidedBy(v, c) /\ DecidedBy(v, d))
  BY DEF DecidedBy
<1> QED
  BY <1>1, <1>2, <1>3, <1>4, ToldAlways, HistoryIsAppendOnlyHolds, PTL
     DEF HistoryIsAppendOnly

-----------------------------------------------------------------------------
(* What a caller was shown can be decided.                                 *)

\* A state is read of a run with the actions of the visit it shows.
LEMMA StateOffers ==
  ASSUME NEW runs \in [RunId -> RunRow \cup {None}],
         NEW visits \in [VisitId -> VisitRow \cup {None}],
         NEW r \in RunId, NEW s, s = StateIn(runs, visits, r), s.visit # None
  PROVE  /\ s.visit \in VisitId /\ visits[s.visit] # None
         /\ visits[s.visit].run = r /\ s.run = r
         /\ s.actions = ActionsOf[runs[r].graph][visits[s.visit].step]
<1> DEFINE open == OpenVisitsIn(visits, r)
           current == IF open = {} THEN None ELSE CHOOSE v \in open : TRUE
           step == IF current = None THEN None ELSE visits[current].step
           state == WorkflowStateIn(runs, visits, r)
<1>1. \A v \in open : v \in VisitId /\ visits[v] \in VisitRow /\ visits[v] # None
                      /\ visits[v].run = r
  BY DEF OpenVisitsIn, IsOpen
<1>2. current # None => current \in open
  <2>1. open # {} => (CHOOSE v \in open : TRUE) \in open
    OBVIOUS
  <2> HIDE DEF open
  <2> QED BY <2>1
<1> HIDE DEF open
<1>3. state = [run |-> r, status |-> runs[r].status,
               completed |-> runs[r].completed # None,
               visit |-> current, step |-> step, actions |-> {}]
  BY DEF WorkflowStateIn, open
<1> HIDE DEF current
<1>4. current # None => step \in Steps /\ step # None /\ step = visits[current].step
  BY <1>1, <1>2, NoneAssumption DEF VisitRow
<1> HIDE DEF step
<1>5. state.visit = current /\ state.run = r /\ state.step = step
  BY <1>3
<1>6. s = IF state.step = None THEN state
          ELSE [state EXCEPT !.actions = ActionsOf[runs[r].graph][state.step]]
  BY DEF StateIn
<1>7. DOMAIN state = {"run", "status", "completed", "visit", "step", "actions"}
  BY <1>3
<1> HIDE DEF state
<1>8. s.visit = current /\ s.run = r
  BY <1>5, <1>6, <1>7
<1>9. s.actions = ActionsOf[runs[r].graph][step]
  BY <1>4, <1>5, <1>6, <1>7, <1>8
<1> QED BY <1>1, <1>2, <1>4, <1>8, <1>9

\* What a read returns was so when its snapshot was taken, and is so now.
LEMMA ReadOffers ==
  ASSUME Inv, TypeOK, NEW c \in Callers, pc[c] = "readState",
         NEW rows, rows = snap[c], rows \in Rows, Past(rows),
         rows.workflow[tx[c].run] # None,
         NEW s, s = StateIn(rows.workflow, rows.visit, tx[c].run)
  PROVE  Offered(s)
<1> SUFFICES ASSUME s.visit # None PROVE Offered(s)
  BY DEF Offered
<1>1. tx[c].run \in RunId
  BY DEF Inv, LocalsAt
<1>2. /\ s.visit \in VisitId /\ rows.visit[s.visit] # None
      /\ rows.visit[s.visit].run = tx[c].run /\ s.run = tx[c].run
      /\ s.actions = ActionsOf[rows.workflow[tx[c].run].graph][rows.visit[s.visit].step]
  <2>1. PICK runs, visits, r :
             runs = rows.workflow /\ visits = rows.visit /\ r = tx[c].run
    OBVIOUS
  <2>2. /\ runs \in [RunId -> RunRow \cup {None}]
        /\ visits \in [VisitId -> VisitRow \cup {None}]
    BY <2>1 DEF Rows
  <2>3. r \in RunId /\ s = StateIn(runs, visits, r)
    BY <1>1, <2>1
  <2>4. /\ s.visit \in VisitId /\ visits[s.visit] # None
        /\ visits[s.visit].run = r /\ s.run = r
        /\ s.actions = ActionsOf[runs[r].graph][visits[s.visit].step]
    BY <2>2, <2>3, StateOffers
  <2> QED BY <2>1, <2>4
<1>3. /\ visit[s.visit] # None /\ visit[s.visit].run = tx[c].run
      /\ visit[s.visit].step = rows.visit[s.visit].step
      /\ workflow[tx[c].run].graph = rows.workflow[tx[c].run].graph
  BY <1>1, <1>2 DEF Past
<1> QED BY <1>2, <1>3 DEF Offered, KnownVisits

\* A snapshot is of the rows of the moment; what a caller has seen is of its snapshot.
LEMMA WhatIsShown ==
  ASSUME TypeOK, NEW c \in Callers, MakeCall(c) \/ Statement(c) \/ Fail(c),
         NEW d \in Callers
  PROVE  /\ pc'[d] = "readState" =>
              \/ pc[d] = "readState" /\ snap'[d] = snap[d]
              \/ /\ snap'[d] = [workflow |-> workflow, visit |-> visit]
                 /\ UNCHANGED <<workflow, visit>>
         /\ \/ seen'[d] = seen[d]
            \/ /\ pc[d] = "readState" /\ UNCHANGED <<workflow, visit>>
               /\ seen'[d] = StateIn(snap[d].workflow, snap[d].visit, tx[d].run)
<1> DEFINE Goal ==
      /\ pc'[d] = "readState" =>
           \/ pc[d] = "readState" /\ snap'[d] = snap[d]
           \/ /\ snap'[d] = [workflow |-> workflow, visit |-> visit]
              /\ UNCHANGED <<workflow, visit>>
      /\ \/ seen'[d] = seen[d]
         \/ /\ pc[d] = "readState" /\ UNCHANGED <<workflow, visit>>
            /\ seen'[d] = StateIn(snap[d].workflow, snap[d].visit, tx[d].run)
<1> SUFFICES Goal
  OBVIOUS
<1>1. ASSUME NEW l, l # "readState", Goto(c, l), UNCHANGED seen,
             snap' = snap \/ snap' = [snap EXCEPT ![c] = None]
      PROVE  Goal
  <2>1. pc'[d] = "readState" => pc[d] = "readState" /\ snap'[d] = snap[d]
    BY <1>1 DEF Goto, TypeOK
  <2> QED BY <1>1, <2>1
<1>2. ASSUME NEW o, Refuse(c, o) PROVE Goal
  <2>1. Goto(c, "idle") /\ UNCHANGED seen /\ snap' = [snap EXCEPT ![c] = None]
    BY <1>2 DEF Refuse, Return, End
  <2> QED BY <1>1, <2>1
<1>3. CASE GetWorkflowIDBySubject(c)
  <2>1. CASE Refuse(c, "not_found")
    BY <1>2, <2>1
  <2>2. CASE /\ snap' = [snap EXCEPT ![c] = [workflow |-> workflow, visit |-> visit]]
             /\ Goto(c, "readState") /\ UNCHANGED tables /\ UNCHANGED seen
    <3>1. d # c => pc'[d] = pc[d] /\ snap'[d] = snap[d]
      BY <2>2 DEF Goto, TypeOK
    <3>2. d = c => snap'[d] = [workflow |-> workflow, visit |-> visit]
      BY <2>2 DEF TypeOK
    <3>3. UNCHANGED <<workflow, visit>> /\ seen'[d] = seen[d]
      BY <2>2 DEF tables
    <3> QED BY <3>1, <3>2, <3>3
  <2> QED BY <1>3, <2>1, <2>2 DEF GetWorkflowIDBySubject
<1>4. CASE ReadState(c)
  <2> DEFINE s == StateIn(snap[c].workflow, snap[c].visit, tx[c].run)
  <2>1. /\ pc[c] = "readState" /\ pc' = [pc EXCEPT ![c] = "idle"]
        /\ snap' = [snap EXCEPT ![c] = None]
        /\ seen' = [seen EXCEPT ![c] = s] /\ UNCHANGED <<workflow, visit>>
    BY <1>4 DEF ReadState, End, Goto, tables
  <2> HIDE DEF s
  <2>2. /\ d = c => pc'[d] = "idle" /\ seen'[d] = s
        /\ d # c => pc'[d] = pc[d] /\ snap'[d] = snap[d] /\ seen'[d] = seen[d]
    BY <2>1 DEF TypeOK
  <2> QED BY <2>1, <2>2 DEF s
<1> HIDE DEF Goal
<1>5. CASE MakeCall(c)
  <2>1. \E l \in {"readDefinition", "completeStepVisit", "reassignStepVisit",
                  "getWorkflowIDBySubject"} : \E a, locals : Call(c, l, a, locals)
    BY <1>5 DEF MakeCall, StartCall, CompleteCall, ReassignCall, GetStateCall, TimedCall
  <2>2. PICK l \in {"readDefinition", "completeStepVisit", "reassignStepVisit",
                    "getWorkflowIDBySubject"} : \E a, locals : Call(c, l, a, locals)
    BY <2>1
  <2>3. Goto(c, l) /\ UNCHANGED seen /\ snap' = snap
    BY <2>2 DEF Call
  <2> QED BY <1>1, <2>3
<1>6. CASE ReadDefinition(c) \/ InsertWorkflow(c) \/ WriteSnapshot(c)
  BY <1>1, <1>2, <1>6 DEF ReadDefinition, InsertWorkflow, WriteSnapshot
<1>7. CASE CompleteStepVisit(c) \/ ReassignStepVisit(c)
  BY <1>1, <1>2, <1>7 DEF CompleteStepVisit, ReassignStepVisit
<1>8. CASE GetActionForStep(c) \/ Advance(c) \/ UpdateWorkflowStatus(c)
  BY <1>1, <1>2, <1>8 DEF GetActionForStep, Advance, UpdateWorkflowStatus
<1>9. CASE Commit(c) \/ GetWorkflowState(c) \/ Fail(c)
  <2>1. Goto(c, "idle") /\ UNCHANGED seen /\ snap' = [snap EXCEPT ![c] = None]
    BY <1>9 DEF Commit, GetWorkflowState, Fail, Return, End
  <2> QED BY <1>1, <2>1
<1> QED BY <1>3, <1>4, <1>5, <1>6, <1>7, <1>8, <1>9 DEF Statement

LEMMA ShownNext ==
  ASSUME Inv, TypeOK, Answers, Shown, [Next]_vars
  PROVE  Shown'
<1> SUFFICES ASSUME NEW d \in Callers
             PROVE  /\ pc'[d] = "readState" => \A rows : rows = snap'[d] => Past(rows)'
                    /\ seen'[d] # None => \A s : s = seen'[d] => Offered(s)'
  BY DEF Shown
<1>1. ASSUME pc[d] = "readState", NEW rows, rows = snap[d]
      PROVE  Past(rows) /\ rows \in Rows /\ rows.workflow[tx[d].run] # None
  BY <1>1 DEF Shown, Answers
<1>2. CASE UNCHANGED <<pc, snap, seen>>
  <2>1. pc'[d] = "readState" => \A rows : rows = snap'[d] => Past(rows)'
    BY <1>1, <1>2, PastStays
  <2>2. ASSUME NEW s, s = seen'[d], seen'[d] # None PROVE Offered(s)'
    <3>1. Offered(s)
      BY <1>2, <2>2 DEF Shown
    <3> QED BY <3>1, OfferStays
  <2> QED BY <2>1, <2>2
<1>3. ASSUME NEW c \in Callers, MakeCall(c) \/ Statement(c) \/ Fail(c)
      PROVE  /\ pc'[d] = "readState" => \A rows : rows = snap'[d] => Past(rows)'
             /\ seen'[d] # None => \A s : s = seen'[d] => Offered(s)'
  <2>1. ASSUME pc'[d] = "readState", NEW rows, rows = snap'[d]
        PROVE  Past(rows)'
    <3>1. CASE pc[d] = "readState" /\ snap'[d] = snap[d]
      BY <1>1, <2>1, <3>1, PastStays
    <3>2. CASE /\ snap'[d] = [workflow |-> workflow, visit |-> visit]
               /\ UNCHANGED <<workflow, visit>>
      <4>1. rows.workflow = workflow' /\ rows.visit = visit'
        BY <2>1, <3>2
      <4> QED BY <4>1 DEF Past
    <3> QED BY <1>3, <2>1, <3>1, <3>2, WhatIsShown
  <2>2. ASSUME seen'[d] # None, NEW s, s = seen'[d]
        PROVE  Offered(s)'
    <3>1. CASE seen'[d] = seen[d]
      <4>1. Offered(s)
        BY <2>2, <3>1 DEF Shown
      <4> QED BY <4>1, OfferStays
    <3>2. CASE /\ pc[d] = "readState" /\ UNCHANGED <<workflow, visit>>
               /\ seen'[d] = StateIn(snap[d].workflow, snap[d].visit, tx[d].run)
      <4>1. \A rows : rows = snap[d] =>
              Past(rows) /\ rows \in Rows /\ rows.workflow[tx[d].run] # None
        BY <1>1, <3>2
      <4>2. Offered(s)
        BY <2>2, <3>2, <4>1, ReadOffers
      <4> QED BY <4>2, OfferStays
    <3> QED BY <1>3, <3>1, <3>2, WhatIsShown
  <2> QED BY <2>1, <2>2
<1> QED BY <1>2, <1>3 DEF Next, EditDefinition, vars

LEMMA ShownAlways == Spec => []Shown
<1>1. Init => Shown
  BY DEF Init, Shown
<1> QED BY <1>1, ShownNext, AnswersAlways, TypeCorrectness, Invariance, PTL DEF Spec

\* A caller that decides the visit it was shown, by an action it was shown, is
\* accepted or told that the visit is closed by now.
THEOREM OfferedActionsAreAcceptedHolds == Spec => []OfferedActionsAreAccepted
<1>1. ASSUME Told, Shown PROVE OfferedActionsAreAccepted
  <2> SUFFICES ASSUME NEW c \in Callers, NEW s, s = seen[c], NEW rep, rep = reply[c],
                      s # None, rep.op = "complete", rep.arg.visit # None,
                      rep.arg.visit = s.visit,
                      rep.arg.action \in {s.run} \X s.actions
               PROVE  rep.outcome \in {"ok", "not_open"}
    BY DEF OfferedActionsAreAccepted
  <2>1. ReplyTrue(c, rep) /\ Offered(s)
    BY <1>1 DEF Told, Shown
  <2>2. /\ visit[s.visit].run = s.run
        /\ s.actions = ActionsOf[workflow[s.run].graph][visit[s.visit].step]
    BY <2>1 DEF Offered
  <2>3. rep.arg.action[1] = s.run /\ rep.arg.action[2] \in s.actions
    OBVIOUS
  <2>4. rep.outcome # "not_available"
    BY <2>1, <2>2, <2>3 DEF ReplyTrue
  <2>5. /\ rep.outcome \in {"ok", "not_open", "not_available", "not_found"}
        /\ rep.outcome # "not_found"
    BY <2>1 DEF ReplyTrue
  <2> QED BY <2>4, <2>5
<1> QED BY <1>1, ToldAlways, ShownAlways, PTL
=============================================================================
