-------------------------- MODULE DispatcherProofs --------------------------
(***************************************************************************)
(* The dispatcher's bookkeeping, for any number of requests, runs, visits  *)
(* and agents and any queue capacity.                                      *)
(*                                                                         *)
(* TypeOK and OneTicketPerVisit are not inductive alone. Control ties the  *)
(* worker's place to its item, Existing says that every visit on its way   *)
(* is a row, and Asked what the worker holds when it is about to decide.   *)
(***************************************************************************)
EXTENDS Dispatcher, TLAPS

Places == {"idle", "mark", "send", "forget", "receive", "getState", "check",
           "complete", "done", "next"}

Control == item = None <=> pc[Worker] = "receive"

RowsExist == \A v \in VisitId : hist[v] # None => run[hist[v].run] # None

Existing ==
  /\ item # None => hist[item] # None
  /\ \A v \in queued \cup assigned : hist[v] # None
  /\ \A p \in Processes : pc[p] \in {"mark", "send", "forget"} =>
       holding[p] \in VisitId /\ hist[holding[p]] # None

Asked ==
  /\ pc[Worker] = "check" => asked \in Assignees
  /\ pc[Worker] = "complete" =>
       /\ asked \in Checkable
       /\ choice \in ActionsOf[run[hist[item].run].graph][hist[item].step]

Inv == TypeOK /\ RowsExist /\ Control /\ Existing /\ Asked /\ OneTicketPerVisit

RowsTyped ==
  /\ run \in [RunId -> RunRow \cup {None}]
  /\ hist \in [VisitId -> HistRow \cup {None}]

\* What a call of the Engine leaves of the rows there are.
Kept ==
  /\ \A v \in VisitId : hist[v] # None =>
       hist'[v] # None /\ hist'[v].run = hist[v].run /\ hist'[v].step = hist[v].step
  /\ \A r \in RunId : run[r] # None => run'[r] # None /\ run'[r].graph = run[r].graph

-----------------------------------------------------------------------------
(* The rows.                                                               *)

LEMMA BeginRows ==
  ASSUME RowsTyped, RowsExist, NEW pair \in Pairs, Begin(pair)
  PROVE  RowsTyped' /\ RowsExist' /\ Kept
<1> USE DispatcherAssumption, GraphsAssumption, NoneAssumption
<1>1. PICK r \in Unstarted, v \in Unentered, g \in Graphs :
        /\ Entry[g] # None
        /\ run' = [run EXCEPT ![r] = [pair |-> pair, graph |-> g, done |-> FALSE,
                                      status |-> StatusOf[g][Entry[g]]]]
        /\ hist' = [hist EXCEPT ![v] = Entered(r, g, Entry[g])]
  BY DEF Begin
<1>2. r \in RunId /\ run[r] = None /\ v \in VisitId /\ hist[v] = None /\ Entry[g] \in Steps
  BY <1>1 DEF Unstarted, Unentered
<1>3. [pair |-> pair, graph |-> g, done |-> FALSE, status |-> StatusOf[g][Entry[g]]] \in RunRow
  BY <1>2 DEF RunRow
<1>4. Entered(r, g, Entry[g]) \in HistRow
  BY <1>2 DEF Entered, HistRow
<1>5. RowsTyped'
  BY <1>1, <1>2, <1>3, <1>4 DEF RowsTyped
<1>6. Kept
  BY <1>1, <1>2 DEF Kept, RowsTyped
<1>7. RowsExist'
  <2> SUFFICES ASSUME NEW w \in VisitId, hist'[w] # None PROVE run'[hist'[w].run] # None
    BY DEF RowsExist
  <2>1. CASE w = v
    BY <2>1, <1>1, <1>2, <1>3 DEF RowsTyped, Entered
  <2>2. CASE w # v
    <3>1. hist'[w] = hist[w] /\ hist[w].run \in RunId /\ run[hist[w].run] # None
      BY <2>2, <1>1, <1>2 DEF RowsTyped, RowsExist, HistRow
    <3> QED BY <3>1, <1>6 DEF Kept
  <2> QED BY <2>1, <2>2
<1> QED BY <1>5, <1>6, <1>7

LEMMA RoutedRows ==
  ASSUME RowsTyped, RowsExist, NEW v \in VisitId, NEW who \in People, NEW a \in Actions,
         Standing(v),
         \/ Route(v, hist[v].run, run[hist[v].run].graph, who, a)
         \/ Finish(v, hist[v].run, run[hist[v].run].graph, who, a)
  PROVE  RowsTyped' /\ RowsExist' /\ Kept
<1> DEFINE r == hist[v].run
           g == run[r].graph
<1>0. None \notin RunRow \cup HistRow
  BY DispatcherAssumption
<1>1. hist[v] \in HistRow /\ r \in RunId /\ run[r] \in RunRow /\ g \in Graphs
  BY DEF Standing, RowsTyped, RowsExist, HistRow, RunRow
<1>2. Left(v, who, a) \in HistRow
      /\ Left(v, who, a).run = r /\ Left(v, who, a).step = hist[v].step
  BY <1>1 DEF Left, HistRow
<1>3. Target[g][a] \in Steps \cup Statuses
  BY <1>1, GraphsAssumption
<1>4. CASE Finish(v, r, g, who, a)
  <2> DEFINE ended == [run[r] EXCEPT !.status = Target[g][a], !.done = TRUE]
  <2>1. /\ hist' = [hist EXCEPT ![v] = Left(v, who, a)]
        /\ run' = [run EXCEPT ![r] = ended]
        /\ Target[g][a] \in Statuses
    BY <1>4, <1>3 DEF Finish, IsTerminal
  <2>6. ended \in RunRow /\ ended.graph = run[r].graph
    <3> HIDE DEF r, g
    <3> QED BY <1>1, <2>1 DEF RunRow
  <2>7. /\ hist'[v] = Left(v, who, a) /\ hist[v] # None
        /\ \A w \in VisitId \ {v} : hist'[w] = hist[w]
    BY <2>1, <1>0, <1>1 DEF RowsTyped
  <2> HIDE DEF r, ended
  <2>8. run'[r] = ended /\ run[r] # None /\ \A q \in RunId \ {r} : run'[q] = run[q]
    BY <2>1, <1>0, <1>1 DEF RowsTyped
  <2>2. RowsTyped'
    BY <2>1, <2>6, <1>1, <1>2 DEF RowsTyped
  <2>3. Kept
    <3>1. None \notin RunRow /\ None \notin HistRow
      BY <1>0
    <3>2. hist'[v].run = hist[v].run /\ hist'[v].step = hist[v].step /\ hist'[v] # None
      BY <1>2, <2>7, <3>1 DEF r
    <3> QED BY <2>6, <2>7, <2>8, <3>1, <3>2 DEF Kept
  <2>4. \A w \in VisitId : hist'[w] # None => hist[w] # None /\ hist'[w].run = hist[w].run
    <3>1. hist'[v].run = hist[v].run
      BY <1>2, <2>7 DEF r
    <3> QED BY <2>7, <3>1
  <2>5. RowsExist'
    BY <2>3, <2>4 DEF RowsExist, Kept, RowsTyped, HistRow
  <2> QED BY <2>2, <2>3, <2>5
<1>5. CASE Route(v, r, g, who, a)
  <2>1. PICK w \in Unentered :
          hist' = [hist EXCEPT ![v] = Left(v, who, a), ![w] = Entered(r, g, Target[g][a])]
    BY <1>5 DEF Route
  <2>2. /\ run' = [run EXCEPT ![r].status = StatusOf[g][Target[g][a]]]
        /\ Target[g][a] \in Steps
    BY <1>5, <1>3 DEF Route, IsTerminal
  <2>3. w \in VisitId /\ hist[w] = None /\ w # v
    BY <1>0, <1>1 DEF Unentered
  <2>13. DefaultAssignee[g][Target[g][a]] \in Assignees
    BY <1>1, <2>2, GraphsAssumption
  <2>4. Entered(r, g, Target[g][a]) \in HistRow /\ Entered(r, g, Target[g][a]).run = r
    <3> HIDE DEF r, g
    <3> QED BY <1>1, <2>2, <2>13 DEF Entered, HistRow
  <2> DEFINE moved == [run[r] EXCEPT !.status = StatusOf[g][Target[g][a]]]
  <2>12. StatusOf[g][Target[g][a]] \in Statuses
    BY <1>1, <2>2, GraphsAssumption
  <2>9. moved \in RunRow /\ moved.graph = g
    <3> HIDE DEF r, g
    <3>1. moved = [run[r] EXCEPT !.status = StatusOf[g][Target[g][a]]]
      BY DEF moved
    <3>2. run[r].graph = g
      BY DEF g
    <3> QED BY <3>1, <3>2, <1>1, <2>12 DEF RunRow
  <2>10. run' = [run EXCEPT ![r] = moved]
    BY <2>2
  <2>11. /\ hist'[v] = Left(v, who, a) /\ hist'[w] = Entered(r, g, Target[g][a])
         /\ \A u \in VisitId \ {v, w} : hist'[u] = hist[u]
         /\ hist' \in [VisitId -> HistRow \cup {None}]
    BY <2>1, <2>3, <2>4, <1>2 DEF RowsTyped
  <2> HIDE DEF moved
  <2>5. RowsTyped'
    BY <2>9, <2>10, <2>11, <1>1 DEF RowsTyped
  <2>6. Kept
    <3>1. ASSUME NEW u \in VisitId, hist[u] # None
          PROVE  hist'[u] # None /\ hist'[u].run = hist[u].run /\ hist'[u].step = hist[u].step
      <4>1. CASE u = v
        <5>1. hist'[v] # None
          BY <1>0, <2>11, <1>2
        <5> QED BY <5>1, <4>1, <2>11, <1>2
      <4>2. CASE u # v
        BY <4>2, <3>1, <2>3, <2>11
      <4> QED BY <4>1, <4>2
    <3>2. ASSUME NEW q \in RunId, run[q] # None
          PROVE  run'[q] # None /\ run'[q].graph = run[q].graph
      <4>1. moved # None
        BY <1>0, <2>9
      <4> QED BY <4>1, <3>2, <2>9, <2>10, <1>1 DEF RowsTyped
    <3> QED BY <3>1, <3>2 DEF Kept
  <2>7. \A u \in VisitId : hist'[u] # None =>
          \/ hist[u] # None /\ hist'[u].run = hist[u].run
          \/ hist'[u].run = r
    <3> SUFFICES ASSUME NEW u \in VisitId, hist'[u] # None
                 PROVE  (hist[u] # None /\ hist'[u].run = hist[u].run) \/ hist'[u].run = r
      OBVIOUS
    <3>1. CASE u = v
      BY <3>1, <2>11, <1>2
    <3>2. CASE u = w
      BY <3>2, <2>11, <2>4
    <3>3. CASE u \notin {v, w}
      BY <3>3, <2>11
    <3> QED BY <3>1, <3>2, <3>3
  <2>8. RowsExist'
    BY <1>0, <2>6, <2>7, <1>1 DEF RowsExist, Kept, RowsTyped, HistRow
  <2> QED BY <2>5, <2>6, <2>8
<1> QED BY <1>4, <1>5

LEMMA DecidedRows ==
  ASSUME RowsTyped, RowsExist, NEW v \in VisitId, NEW who \in People, NEW a \in Actions,
         Decided(v, who, a)
  PROVE  RowsTyped' /\ RowsExist' /\ Kept
BY RoutedRows DEF Decided

LEMMA HandOverRows ==
  ASSUME RowsTyped, RowsExist, NEW v \in VisitId, HandOver(v)
  PROVE  RowsTyped' /\ RowsExist' /\ Kept
<1> USE DispatcherAssumption
<1>1. PICK x \in Assignees : hist' = [hist EXCEPT ![v].assignee = x]
  BY DEF HandOver
<1>2. hist[v] \in HistRow /\ run' = run
  BY DEF HandOver, Standing, RowsTyped
<1>3. hist'[v] \in HistRow /\ hist'[v].run = hist[v].run /\ hist'[v].step = hist[v].step
  BY <1>1, <1>2 DEF RowsTyped, HistRow
<1>4. RowsTyped'
  BY <1>1, <1>2, <1>3 DEF RowsTyped
<1>5. Kept
  BY <1>1, <1>2, <1>3 DEF Kept, RowsTyped
<1>6. RowsExist'
  BY <1>1, <1>2, <1>3 DEF RowsExist, RowsTyped
<1> QED BY <1>4, <1>5, <1>6

-----------------------------------------------------------------------------
(* What the steps have in common.                                          *)

LEMMA SameRows ==
  ASSUME RowsTyped, RowsExist, UNCHANGED runs
  PROVE  RowsTyped' /\ RowsExist' /\ Kept
<1>1. run' = run /\ hist' = hist
  BY DEF runs
<1> QED BY <1>1 DEF RowsTyped, RowsExist, Kept

LEMMA SameTickets ==
  ASSUME OneTicketPerVisit, UNCHANGED <<work, queued, item>>, Sending' = Sending,
         \A q \in Sending : holding'[q] = holding[q]
  PROVE  OneTicketPerVisit'
<1>1. {holding'[q] : q \in Sending'} = {holding[q] : q \in Sending}
  OBVIOUS
<1>2. /\ \A i, j \in 1 .. Len(work') : work'[i] = work'[j] => i = j
      /\ \A i \in 1 .. Len(work') : work'[i] # item'
  BY DEF OneTicketPerVisit
<1>3. \A p \in Sending' :
        /\ holding'[p] # item'
        /\ \A i \in 1 .. Len(work') : work'[i] # holding'[p]
        /\ \A q \in Sending' : holding'[q] = holding'[p] => p = q
  BY DEF OneTicketPerVisit
<1>4. queued' = {work'[i] : i \in 1 .. Len(work')}
                  \cup ({item'} \ {None}) \cup {holding'[p] : p \in Sending'}
  BY <1>1 DEF OneTicketPerVisit
<1> QED BY <1>2, <1>3, <1>4 DEF OneTicketPerVisit

\* The question the worker is about to answer is not touched by what others do.
LEMMA SameQuestion ==
  ASSUME Inv, Kept, UNCHANGED <<item, asked, choice>>,
         pc'[Worker] = pc[Worker] \/ pc'[Worker] \notin {"check", "complete"}
  PROVE  Asked'
<1>1. CASE pc'[Worker] \notin {"check", "complete"}
  BY <1>1 DEF Asked
<1>2. CASE pc'[Worker] = pc[Worker]
  <2>1. pc[Worker] = "complete" => item \in VisitId /\ hist[item] # None
    BY DEF Inv, Control, TypeOK, Existing
  <2>2. pc[Worker] = "complete" =>
          hist[item].run \in RunId /\ run[hist[item].run] # None
    BY <2>1 DEF Inv, TypeOK, RowsExist, HistRow
  <2>3. pc[Worker] = "complete" =>
          run'[hist'[item'].run].graph = run[hist[item].run].graph
            /\ hist'[item'].step = hist[item].step
    BY <2>1, <2>2 DEF Kept
  <2>4. pc'[Worker] = "check" => asked' \in Assignees
    BY <1>2 DEF Inv, Asked
  <2>5. pc'[Worker] = "complete" =>
          /\ asked' \in Checkable
          /\ choice' \in ActionsOf[run'[hist'[item'].run].graph][hist'[item'].step]
    BY <1>2, <2>3 DEF Inv, Asked
  <2> QED BY <2>4, <2>5 DEF Asked
<1> QED BY <1>1, <1>2

LEMMA Goroutines ==
  /\ Worker \in Processes /\ Sweeper \in Processes /\ Worker # Sweeper
  /\ \A p \in Requests : p \in Processes /\ p # Worker /\ p # Sweeper
  /\ Rest(Worker) = "done" /\ Rest(Sweeper) = "next"
  /\ \A p \in Processes : p # Worker => Rest(p) \in {"idle", "next"}
BY DispatcherAssumption DEF Processes, Rest

\* A dispatch disturbs neither the queue nor another goroutine.
LEMMA DispatchFrame ==
  ASSUME Inv, RowsTyped', NEW p \in Processes, NEW r, Dispatch(p, r),
         pc[p] \notin {"send", "forget"}
  PROVE  /\ pc' = [pc EXCEPT ![p] = pc'[p]]
         /\ pc'[p] \in {"mark", Rest(p)}
         /\ holding' \in [Processes -> VisitId \cup {None}]
         /\ \A q \in Processes \ {p} : holding'[q] = holding[q]
         /\ pc'[p] = "mark" => holding'[p] \in VisitId /\ hist'[holding'[p]] # None
         /\ Sending' = Sending
         /\ \A q \in Sending : holding'[q] = holding[q]
<1>0. pc \in [Processes -> Places] /\ holding \in [Processes -> VisitId \cup {None}]
  BY DEF Inv, TypeOK, Places
<1>1. CASE \E v \in VisitId : /\ Standing(v)' /\ holding' = [holding EXCEPT ![p] = v]
                              /\ Goto(p, "mark")
  BY <1>0, <1>1 DEF Goto, Sending, Standing
<1>2. CASE Goto(p, Rest(p)) /\ UNCHANGED holding
  <2>1. Rest(p) \in {"done", "next", "idle"}
    BY DEF Rest
  <2> QED BY <1>0, <1>2, <2>1 DEF Goto, Sending
<1> QED BY <1>1, <1>2 DEF Dispatch

-----------------------------------------------------------------------------
(* The steps, one by one.                                                  *)

LEMMA InitInv == Init => Inv
<1> SUFFICES ASSUME Init PROVE Inv
  OBVIOUS
<1> USE DispatcherAssumption, NoneAssumption
<1>1. /\ \A r \in RunId : run[r] = None
      /\ \A v \in VisitId : hist[v] = None
      /\ run \in [RunId -> RunRow \cup {None}] /\ hist \in [VisitId -> HistRow \cup {None}]
  BY DEF Init, RInit
<1>2. /\ work \in Seq(VisitId) /\ Len(work) = 0
      /\ queued = {} /\ assigned = {} /\ item = None /\ asked = None /\ choice = None
      /\ upsets = 0 /\ gone = {}
  BY DEF Init
<1>3. /\ pc \in [Processes -> Places] /\ pc[Worker] = "receive"
      /\ \A p \in Processes : pc[p] \in {"idle", "receive"}
      /\ holding \in [Processes -> VisitId \cup {None}]
  BY Goroutines DEF Init, Start, Places
<1>4. TypeOK
  BY <1>1, <1>2, <1>3 DEF TypeOK, Places
<1>5. Sending = {}
  BY <1>3 DEF Sending
<1>6. OneTicketPerVisit
  BY <1>2, <1>5 DEF OneTicketPerVisit
<1>7. RowsExist /\ Control /\ Existing /\ Asked
  BY <1>1, <1>2, <1>3 DEF RowsExist, Control, Existing, Asked
<1> QED BY <1>4, <1>6, <1>7 DEF Inv

LEMMA MarkInv ==
  ASSUME Inv, NEW p \in Processes, Mark(p)
  PROVE  Inv'
<1> USE Goroutines
<1>1. RowsTyped' /\ RowsExist' /\ Kept /\ UNCHANGED <<run, hist>>
  BY SameRows DEF Inv, TypeOK, RowsTyped, Mark, runs
<1>2. /\ pc \in [Processes -> Places] /\ pc[p] = "mark"
      /\ holding \in [Processes -> VisitId \cup {None}]
      /\ holding[p] \in VisitId /\ hist[holding[p]] # None
      /\ UNCHANGED <<work, item, asked, choice, assigned, upsets, gone>>
  BY DEF Mark, Inv, TypeOK, Existing, Places
<1>3. Rest(p) \in {"done", "next", "idle"} /\ (p = Worker => Rest(p) = "done")
  BY DEF Rest
<1>4. CASE holding[p] \in queued /\ Release(p) /\ UNCHANGED queued
  <2>1. /\ pc' = [pc EXCEPT ![p] = Rest(p)] /\ holding' = [holding EXCEPT ![p] = None]
        /\ pc' \in [Processes -> Places]
    BY <1>2, <1>3, <1>4 DEF Release, Goto, Places
  <2>2. Sending' = Sending /\ \A q \in Sending : holding'[q] = holding[q]
    BY <2>1, <1>2, <1>3 DEF Sending
  <2>3. OneTicketPerVisit'
    BY <1>2, <1>4, <2>2, SameTickets DEF Inv
  <2>4. TypeOK'
    BY <1>1, <1>2, <1>4, <2>1 DEF Inv, TypeOK, Places, RowsTyped
  <2>5. Control' /\ Existing'
    BY <1>1, <1>2, <1>3, <1>4, <2>1 DEF Inv, Control, Existing
  <2>6. Asked'
    BY <1>1, <1>2, <1>3, <2>1, SameQuestion
  <2> QED BY <1>1, <2>3, <2>4, <2>5, <2>6 DEF Inv
<1>5. CASE /\ holding[p] \notin queued /\ queued' = queued \cup {holding[p]}
           /\ Goto(p, "send") /\ UNCHANGED holding
  <2>1. /\ pc' = [pc EXCEPT ![p] = "send"] /\ pc' \in [Processes -> Places]
    BY <1>2, <1>5 DEF Goto, Places
  <2>2. Sending' = Sending \cup {p} /\ p \notin Sending
    BY <2>1, <1>2 DEF Sending
  <2>3. /\ holding[p] # item
        /\ \A i \in 1 .. Len(work) : work[i] # holding[p]
        /\ \A q \in Sending : holding[q] # holding[p]
    <3>1. holding[p] # None
      BY <1>2, DispatcherAssumption
    <3> QED BY <3>1, <1>5 DEF Inv, OneTicketPerVisit
  <2>4. OneTicketPerVisit'
    <3>1. /\ \A i, j \in 1 .. Len(work') : work'[i] = work'[j] => i = j
          /\ \A i \in 1 .. Len(work') : work'[i] # item'
      BY <1>2 DEF Inv, OneTicketPerVisit
    <3>2. \A q \in Sending' :
            /\ holding'[q] # item'
            /\ \A i \in 1 .. Len(work') : work'[i] # holding'[q]
            /\ \A s \in Sending' : holding'[s] = holding'[q] => q = s
      BY <1>2, <1>5, <2>2, <2>3 DEF Inv, OneTicketPerVisit
    <3>3. {holding'[q] : q \in Sending'} = {holding[q] : q \in Sending} \cup {holding[p]}
      BY <1>5, <2>2
    <3>4. queued' = {work'[i] : i \in 1 .. Len(work')}
                      \cup ({item'} \ {None}) \cup {holding'[q] : q \in Sending'}
      <4>1. queued = {work[i] : i \in 1 .. Len(work)}
                       \cup ({item} \ {None}) \cup {holding[q] : q \in Sending}
        BY DEF Inv, OneTicketPerVisit
      <4>2. queued' = queued \cup {holding[p]} /\ work' = work /\ item' = item
        BY <1>2, <1>5
      <4> QED BY <4>1, <4>2, <3>3, Zenon
    <3> QED BY <3>1, <3>2, <3>4 DEF OneTicketPerVisit
  <2>5. TypeOK'
    <3>1. upsets' \in 0 .. MaxUpsets /\ gone' \subseteq Pairs
      BY <1>2 DEF Inv, TypeOK
    <3>2. /\ work' \in Seq(VisitId) /\ Len(work') <= QueueCapacity
          /\ assigned' \subseteq VisitId /\ item' \in VisitId \cup {None}
          /\ asked' \in Assignees \cup {None} /\ choice' \in Actions \cup {None}
      BY <1>2 DEF Inv, TypeOK
    <3>3. queued' \subseteq VisitId
      BY <1>2, <1>5 DEF Inv, TypeOK
    <3> QED BY <3>1, <3>2, <3>3, <1>1, <1>2, <1>5, <2>1 DEF TypeOK, Places, RowsTyped
  <2>6. Control'
    BY <1>2, <2>1 DEF Inv, Control
  <2>8. Existing'
    <3>1. \A v \in queued' \cup assigned' : hist'[v] # None
      BY <1>1, <1>2, <1>5 DEF Inv, Existing
    <3>2. \A q \in Processes : pc'[q] \in {"mark", "send", "forget"} =>
            holding'[q] \in VisitId /\ hist'[holding'[q]] # None
      BY <1>1, <1>2, <1>5, <2>1 DEF Inv, Existing
    <3> QED BY <1>1, <1>2, <3>1, <3>2 DEF Inv, Existing
  <2>7. Asked'
    BY <1>1, <1>2, <2>1, SameQuestion
  <2> QED BY <1>1, <2>4, <2>5, <2>6, <2>7, <2>8 DEF Inv
<1> QED BY <1>4, <1>5 DEF Mark

LEMMA SendInv ==
  ASSUME Inv, NEW p \in Processes, Send(p)
  PROVE  Inv'
<1> USE Goroutines
<1>1. RowsTyped' /\ RowsExist' /\ Kept /\ UNCHANGED <<run, hist>>
  BY SameRows DEF Inv, TypeOK, RowsTyped, Send, runs
<1>2. /\ pc \in [Processes -> Places] /\ pc[p] = "send" /\ p \in Sending
      /\ holding \in [Processes -> VisitId \cup {None}]
      /\ holding[p] \in VisitId /\ hist[holding[p]] # None
      /\ work \in Seq(VisitId)
      /\ UNCHANGED <<queued, item, asked, choice, assigned, upsets, gone>>
  BY DEF Send, Inv, TypeOK, Existing, Places, Sending
<1>3. Rest(p) \in {"done", "next", "idle"} /\ (p = Worker => Rest(p) = "done")
  BY DEF Rest
<1>4. CASE Len(work) < QueueCapacity /\ work' = Append(work, holding[p]) /\ Release(p)
  <2>1. /\ pc' = [pc EXCEPT ![p] = Rest(p)] /\ holding' = [holding EXCEPT ![p] = None]
        /\ pc' \in [Processes -> Places]
    BY <1>2, <1>3, <1>4 DEF Release, Goto, Places
  <2>2. Sending' = Sending \ {p} /\ \A q \in Sending' : holding'[q] = holding[q]
    BY <2>1, <1>2, <1>3 DEF Sending
  <2>3. /\ work' \in Seq(VisitId) /\ Len(work') = Len(work) + 1
        /\ \A i \in 1 .. Len(work) : work'[i] = work[i]
        /\ work'[Len(work) + 1] = holding[p]
        /\ Len(work) \in Nat
    BY <1>2, <1>4
  <2>4. OneTicketPerVisit'
    <3>1. /\ holding[p] # item
          /\ \A i \in 1 .. Len(work) : work[i] # holding[p]
          /\ \A q \in Sending : holding[q] = holding[p] => p = q
      BY <1>2 DEF Inv, OneTicketPerVisit
    <3>2. \A i \in 1 .. Len(work') : i \in 1 .. Len(work) \/ i = Len(work) + 1
      BY <2>3
    <3>3. \A i, j \in 1 .. Len(work') : work'[i] = work'[j] => i = j
      BY <3>1, <3>2, <2>3 DEF Inv, OneTicketPerVisit
    <3>4. \A i \in 1 .. Len(work') : work'[i] # item'
      BY <3>1, <3>2, <2>3, <1>2 DEF Inv, OneTicketPerVisit
    <3>5. \A q \in Sending' :
            /\ holding'[q] # item'
            /\ \A i \in 1 .. Len(work') : work'[i] # holding'[q]
            /\ \A s \in Sending' : holding'[s] = holding'[q] => q = s
      BY <3>1, <3>2, <2>2, <2>3, <1>2 DEF Inv, OneTicketPerVisit
    <3>6. {work'[i] : i \in 1 .. Len(work')} =
            {work[i] : i \in 1 .. Len(work)} \cup {holding[p]}
      BY <3>2, <2>3
    <3>7. {holding[q] : q \in Sending} = {holding'[q] : q \in Sending'} \cup {holding[p]}
      BY <2>2, <1>2
    <3>8. queued' = {work'[i] : i \in 1 .. Len(work')}
                      \cup ({item'} \ {None}) \cup {holding'[q] : q \in Sending'}
      BY <3>6, <3>7, <1>2 DEF Inv, OneTicketPerVisit
    <3> QED BY <3>3, <3>4, <3>5, <3>8 DEF OneTicketPerVisit
  <2>5. TypeOK'
    BY <1>1, <1>2, <1>4, <2>1, <2>3, DispatcherAssumption
    DEF Inv, TypeOK, Places, RowsTyped
  <2>6. Control'
    BY <1>2, <1>3, <2>1 DEF Inv, Control
  <2>7. Existing'
    BY <1>1, <1>2, <1>3, <2>1 DEF Inv, Existing
  <2>8. Asked'
    BY <1>1, <1>2, <1>3, <2>1, SameQuestion
  <2> QED BY <1>1, <2>4, <2>5, <2>6, <2>7, <2>8 DEF Inv
<1>5. CASE Goto(p, "forget") /\ UNCHANGED <<work, holding>>
  <2>1. /\ pc' = [pc EXCEPT ![p] = "forget"] /\ pc' \in [Processes -> Places]
    BY <1>2, <1>5 DEF Goto, Places
  <2>2. Sending' = Sending
    BY <2>1, <1>2 DEF Sending
  <2>3. OneTicketPerVisit'
    BY <1>2, <1>5, <2>2, SameTickets DEF Inv
  <2>4. TypeOK'
    BY <1>1, <1>2, <1>5, <2>1 DEF Inv, TypeOK, Places, RowsTyped
  <2>5. Control'
    BY <1>2, <2>1 DEF Inv, Control
  <2>6. Existing'
    BY <1>1, <1>2, <1>5, <2>1 DEF Inv, Existing
  <2>7. Asked'
    BY <1>1, <1>2, <2>1, SameQuestion
  <2> QED BY <1>1, <2>3, <2>4, <2>5, <2>6, <2>7 DEF Inv
<1> QED BY <1>4, <1>5 DEF Send

LEMMA ForgetInv ==
  ASSUME Inv, NEW p \in Processes, Forget(p)
  PROVE  Inv'
<1> USE Goroutines
<1>1. RowsTyped' /\ RowsExist' /\ Kept /\ UNCHANGED <<run, hist>>
  BY SameRows DEF Inv, TypeOK, RowsTyped, Forget, runs
<1>2. /\ pc \in [Processes -> Places] /\ pc[p] = "forget" /\ p \in Sending
      /\ holding \in [Processes -> VisitId \cup {None}]
      /\ queued' = queued \ {holding[p]}
      /\ UNCHANGED <<work, item, asked, choice, assigned, upsets, gone>>
  BY DEF Forget, Inv, TypeOK, Existing, Places, Sending
<1>3. Rest(p) \in {"done", "next", "idle"} /\ (p = Worker => Rest(p) = "done")
  BY DEF Rest
<1>4. /\ pc' = [pc EXCEPT ![p] = Rest(p)] /\ holding' = [holding EXCEPT ![p] = None]
      /\ pc' \in [Processes -> Places]
  BY <1>2, <1>3 DEF Forget, Release, Goto, Places
<1>5. Sending' = Sending \ {p} /\ \A q \in Sending' : holding'[q] = holding[q]
  BY <1>4, <1>2, <1>3 DEF Sending
<1>6. OneTicketPerVisit'
  <2>1. /\ holding[p] # item
        /\ \A i \in 1 .. Len(work) : work[i] # holding[p]
        /\ \A q \in Sending : holding[q] = holding[p] => p = q
    BY <1>2 DEF Inv, OneTicketPerVisit
  <2>2. /\ \A i, j \in 1 .. Len(work') : work'[i] = work'[j] => i = j
        /\ \A i \in 1 .. Len(work') : work'[i] # item'
    BY <1>2 DEF Inv, OneTicketPerVisit
  <2>3. \A q \in Sending' :
          /\ holding'[q] # item'
          /\ \A i \in 1 .. Len(work') : work'[i] # holding'[q]
          /\ \A s \in Sending' : holding'[s] = holding'[q] => q = s
    BY <1>2, <1>5 DEF Inv, OneTicketPerVisit
  <2>4. {holding'[q] : q \in Sending'} = {holding[q] : q \in Sending} \ {holding[p]}
    BY <2>1, <1>2, <1>5
  <2>5. queued' = {work'[i] : i \in 1 .. Len(work')}
                    \cup ({item'} \ {None}) \cup {holding'[q] : q \in Sending'}
    BY <2>1, <2>4, <1>2 DEF Inv, OneTicketPerVisit
  <2> QED BY <2>2, <2>3, <2>5 DEF OneTicketPerVisit
<1>7. TypeOK'
  BY <1>1, <1>2, <1>4 DEF Inv, TypeOK, Places, RowsTyped
<1>8. Control'
  BY <1>2, <1>3, <1>4 DEF Inv, Control
<1>9. Existing'
  BY <1>1, <1>2, <1>3, <1>4 DEF Inv, Existing
<1>10. Asked'
  BY <1>1, <1>2, <1>3, <1>4, SameQuestion
<1> QED BY <1>1, <1>6, <1>7, <1>8, <1>9, <1>10 DEF Inv

LEMMA ReceiveInv ==
  ASSUME Inv, Receive
  PROVE  Inv'
<1> USE Goroutines
<1>1. RowsTyped' /\ RowsExist' /\ Kept /\ UNCHANGED <<run, hist>>
  BY SameRows DEF Inv, TypeOK, RowsTyped, Receive, runs
<1>2. /\ pc \in [Processes -> Places] /\ pc[Worker] = "receive" /\ item = None
      /\ pc' = [pc EXCEPT ![Worker] = "getState"] /\ pc' \in [Processes -> Places]
      /\ work \in Seq(VisitId) /\ work # <<>> /\ work' = Tail(work) /\ item' = Head(work)
      /\ UNCHANGED <<queued, holding, asked, choice, assigned, upsets, gone>>
  BY DEF Receive, Goto, Inv, TypeOK, Control, Places
<1>3. /\ work' \in Seq(VisitId) /\ Len(work) \in Nat \ {0} /\ Len(work') = Len(work) - 1
      /\ item' = work[1]
      /\ \A i \in 1 .. Len(work') : i + 1 \in 1 .. Len(work) /\ work'[i] = work[i + 1]
      /\ \A i \in 1 .. Len(work) : i # 1 => i - 1 \in 1 .. Len(work') /\ work[i] = work'[i - 1]
  BY <1>2
<1>4. 1 \in 1 .. Len(work) /\ item' \in VisitId /\ item' # None /\ item' \in queued
      /\ \A i \in 1 .. Len(work) : work[i] \in queued
  <2>1. 1 \in 1 .. Len(work)
    BY <1>3
  <2> QED BY <2>1, <1>2, <1>3, DispatcherAssumption DEF Inv, OneTicketPerVisit
<1>5. Sending' = Sending
  BY <1>2 DEF Sending
<1>6. OneTicketPerVisit'
  <2>1. \A i, j \in 1 .. Len(work') : work'[i] = work'[j] => i = j
    <3> SUFFICES ASSUME NEW i \in 1 .. Len(work'), NEW j \in 1 .. Len(work'),
                        work'[i] = work'[j]
                 PROVE  i = j
      OBVIOUS
    <3>1. work[i + 1] = work[j + 1] /\ i + 1 \in 1 .. Len(work) /\ j + 1 \in 1 .. Len(work)
      BY <1>3
    <3>2. i + 1 = j + 1
      BY <3>1 DEF Inv, OneTicketPerVisit
    <3> QED BY <3>2
  <2>2. \A i \in 1 .. Len(work') : work'[i] # item'
    <3> SUFFICES ASSUME NEW i \in 1 .. Len(work'), work[i + 1] = work[1] PROVE FALSE
      BY <1>3
    <3>1. i + 1 = 1
      BY <1>3, <1>4 DEF Inv, OneTicketPerVisit
    <3> QED BY <3>1
  <2>3. \A q \in Sending' :
          /\ holding'[q] # item'
          /\ \A i \in 1 .. Len(work') : work'[i] # holding'[q]
          /\ \A s \in Sending' : holding'[s] = holding'[q] => q = s
    BY <1>2, <1>3, <1>4, <1>5 DEF Inv, OneTicketPerVisit
  <2>4. {work[i] : i \in 1 .. Len(work)} = {work'[i] : i \in 1 .. Len(work')} \cup {item'}
    <3>1. \A i \in 1 .. Len(work) :
            work[i] = item' \/ \E j \in 1 .. Len(work') : work[i] = work'[j]
      <4> SUFFICES ASSUME NEW i \in 1 .. Len(work), i # 1
                   PROVE  \E j \in 1 .. Len(work') : work[i] = work'[j]
        BY <1>3
      <4>1. i - 1 \in 1 .. Len(work') /\ work[i] = work'[i - 1]
        BY <1>3
      <4> QED BY <4>1
    <3>2. \A j \in 1 .. Len(work') : \E i \in 1 .. Len(work) : work'[j] = work[i]
      BY <1>3
    <3>3. \E i \in 1 .. Len(work) : item' = work[i]
      BY <1>3, <1>4
    <3>4. {work[i] : i \in 1 .. Len(work)} \subseteq {work'[i] : i \in 1 .. Len(work')} \cup {item'}
      BY <3>1
    <3>5. {work'[i] : i \in 1 .. Len(work')} \cup {item'} \subseteq {work[i] : i \in 1 .. Len(work)}
      BY <3>2, <3>3
    <3> QED BY <3>4, <3>5
  <2>5. queued' = {work'[i] : i \in 1 .. Len(work')}
                    \cup ({item'} \ {None}) \cup {holding'[q] : q \in Sending'}
    <3>1. queued = {work[i] : i \in 1 .. Len(work)}
                     \cup ({item} \ {None}) \cup {holding[q] : q \in Sending}
      BY DEF Inv, OneTicketPerVisit
    <3>2. {item} \ {None} = {} /\ {item'} \ {None} = {item'}
      BY <1>2, <1>4
    <3>3. queued' = queued /\ holding' = holding
      BY <1>2
    <3> QED BY <2>4, <1>5, <3>1, <3>2, <3>3
  <2> QED BY <2>1, <2>2, <2>3, <2>5 DEF OneTicketPerVisit
<1>7. TypeOK'
  <2>1. Len(work') <= QueueCapacity
    BY <1>3, DispatcherAssumption DEF Inv, TypeOK
  <2>2. /\ upsets' \in 0 .. MaxUpsets /\ gone' \subseteq Pairs
        /\ queued' \subseteq VisitId /\ assigned' \subseteq VisitId
        /\ holding' \in [Processes -> VisitId \cup {None}]
        /\ asked' \in Assignees \cup {None} /\ choice' \in Actions \cup {None}
    <3>1. assigned' = assigned
      BY DEF Receive
    <3> QED BY <1>2, <3>1 DEF Inv, TypeOK
  <2> QED BY <2>1, <2>2, <1>1, <1>2, <1>3, <1>4 DEF TypeOK, Places, RowsTyped
<1>8. Control'
  BY <1>2, <1>4 DEF Control
<1>9. Existing'
  BY <1>1, <1>2, <1>4 DEF Inv, Existing
<1>10. Asked'
  BY <1>2 DEF Asked
<1> QED BY <1>1, <1>6, <1>7, <1>8, <1>9, <1>10 DEF Inv

\* The worker's steps about an item that leave the rows and the queue alone.
LEMMA WorkerStep ==
  ASSUME Inv, UNCHANGED <<runs, work, queued, holding, item, assigned, upsets, gone>>,
         pc[Worker] \in {"getState", "check", "complete"},
         NEW l \in {"check", "complete", "done"}, Goto(Worker, l),
         asked' \in Assignees \cup {None}, choice' \in Actions \cup {None}
  PROVE  /\ RowsTyped' /\ RowsExist' /\ TypeOK' /\ Control' /\ Existing'
         /\ OneTicketPerVisit' /\ pc'[Worker] = l
<1> USE Goroutines
<1>1. RowsTyped' /\ RowsExist' /\ Kept /\ UNCHANGED <<run, hist>>
  BY SameRows DEF Inv, TypeOK, RowsTyped, runs
<1>2. /\ pc \in [Processes -> Places] /\ pc' = [pc EXCEPT ![Worker] = l]
      /\ pc' \in [Processes -> Places]
  BY DEF Goto, Inv, TypeOK, Places
<1>3. OneTicketPerVisit'
  <2>1. Sending' = Sending
    BY <1>2 DEF Sending
  <2> QED BY <2>1, SameTickets DEF Inv
<1>4. TypeOK'
  BY <1>1, <1>2 DEF Inv, TypeOK, Places, RowsTyped
<1>5. Control' /\ pc'[Worker] = l
  BY <1>2 DEF Inv, Control
<1>6. Existing'
  BY <1>1, <1>2 DEF Inv, Existing
<1> QED BY <1>1, <1>3, <1>4, <1>5, <1>6

LEMMA ReadStateInv ==
  ASSUME Inv, ReadState
  PROVE  Inv'
<1>1. item \in VisitId /\ hist[item] \in HistRow
  BY DEF Inv, TypeOK, Control, Existing, ReadState
<1>2. asked' \in Assignees \cup {None} /\ choice' \in Actions \cup {None}
  BY <1>1 DEF ReadState, Inv, TypeOK, HistRow
<1>3. CASE asked' = hist[item].assignee /\ Goto(Worker, "check")
  <2>1. Asked'
    BY <1>1, <1>3, Goroutines DEF Asked, Goto, Inv, TypeOK, HistRow
  <2> QED BY <1>2, <1>3, <2>1, WorkerStep DEF ReadState, Inv
<1>4. CASE Goto(Worker, "done")
  <2>1. Asked'
    BY <1>4, Goroutines DEF Asked, Goto, Inv, TypeOK
  <2> QED BY <1>2, <1>4, <2>1, WorkerStep DEF ReadState, Inv
<1> QED BY <1>3, <1>4 DEF ReadState

LEMMA CheckInv ==
  ASSUME Inv, Check
  PROVE  Inv'
<1>1. item \in VisitId /\ hist[item] \in HistRow /\ run[hist[item].run] \in RunRow
  BY DEF Inv, TypeOK, Control, Existing, RowsExist, Check, HistRow
<1>2. asked' \in Assignees \cup {None} /\ choice' \in Actions \cup {None}
  BY <1>1, GraphsAssumption DEF Check, Inv, TypeOK, HistRow, RunRow
<1>3. Asked'
  BY Goroutines DEF Check, Asked, Goto, Inv, TypeOK, runs
<1> QED BY <1>2, <1>3, WorkerStep DEF Check, Inv

LEMMA AbandonInv ==
  ASSUME Inv, Abandon
  PROVE  Inv'
<1>1. Asked'
  BY Goroutines DEF Abandon, Asked, Goto, Inv, TypeOK
<1> QED BY <1>1, WorkerStep DEF Abandon, Inv

LEMMA DoneInv ==
  ASSUME Inv, Done
  PROVE  Inv'
<1> USE Goroutines
<1>1. RowsTyped' /\ RowsExist' /\ Kept /\ UNCHANGED <<run, hist>>
  BY SameRows DEF Inv, TypeOK, RowsTyped, Done, runs
<1>2. /\ pc \in [Processes -> Places] /\ pc[Worker] = "done" /\ item # None
      /\ pc' = [pc EXCEPT ![Worker] = "receive"] /\ pc' \in [Processes -> Places]
      /\ queued' = queued \ {item} /\ item' = None
      /\ UNCHANGED <<work, holding, asked, choice, assigned, upsets, gone>>
  BY DEF Done, Goto, Inv, TypeOK, Control, Places
<1>3. Sending' = Sending
  BY <1>2 DEF Sending
<1>4. /\ \A i \in 1 .. Len(work) : work[i] # None
      /\ \A q \in Sending : holding[q] # None
  BY DispatcherAssumption DEF Inv, TypeOK, Existing, Sending
<1>5. OneTicketPerVisit'
  <2>1. /\ \A i, j \in 1 .. Len(work') : work'[i] = work'[j] => i = j
        /\ \A i \in 1 .. Len(work') : work'[i] # item'
    BY <1>2, <1>4 DEF Inv, OneTicketPerVisit
  <2>2. \A q \in Sending' :
          /\ holding'[q] # item'
          /\ \A i \in 1 .. Len(work') : work'[i] # holding'[q]
          /\ \A s \in Sending' : holding'[s] = holding'[q] => q = s
    BY <1>2, <1>3, <1>4 DEF Inv, OneTicketPerVisit
  <2>3. queued' = {work'[i] : i \in 1 .. Len(work')}
                    \cup ({item'} \ {None}) \cup {holding'[q] : q \in Sending'}
    BY <1>2, <1>3 DEF Inv, OneTicketPerVisit
  <2> QED BY <2>1, <2>2, <2>3 DEF OneTicketPerVisit
<1>6. TypeOK'
  BY <1>1, <1>2 DEF Inv, TypeOK, Places, RowsTyped
<1>7. Control' /\ Asked'
  BY <1>2 DEF Control, Asked
<1>8. Existing'
  BY <1>1, <1>2 DEF Inv, Existing
<1> QED BY <1>1, <1>5, <1>6, <1>7, <1>8 DEF Inv

LEMMA SweepInv ==
  ASSUME Inv, Sweep
  PROVE  Inv'
<1> USE Goroutines
<1>1. RowsTyped' /\ RowsExist' /\ Kept /\ UNCHANGED <<run, hist>>
  BY SameRows DEF Inv, TypeOK, RowsTyped, Sweep, runs
<1>2. /\ pc \in [Processes -> Places] /\ pc[Sweeper] = "idle"
      /\ pc' = [pc EXCEPT ![Sweeper] = "next"] /\ pc' \in [Processes -> Places]
      /\ UNCHANGED <<work, queued, holding, item, asked, choice, upsets, gone>>
  BY DEF Sweep, Goto, Inv, TypeOK, Places
<1>3. assigned' \subseteq VisitId /\ \A v \in assigned' : hist[v] # None
  BY DEF Sweep, Standing
<1>4. OneTicketPerVisit'
  <2>1. Sending' = Sending
    BY <1>2 DEF Sending
  <2> QED BY <2>1, <1>2, SameTickets DEF Inv
<1>5. TypeOK'
  BY <1>1, <1>2, <1>3 DEF Inv, TypeOK, Places, RowsTyped
<1>6. Control'
  BY <1>2 DEF Inv, Control
<1>7. Existing'
  BY <1>1, <1>2, <1>3 DEF Inv, Existing
<1>8. Asked'
  BY <1>1, <1>2, SameQuestion
<1> QED BY <1>1, <1>4, <1>5, <1>6, <1>7, <1>8 DEF Inv

LEMMA NextAssignedInv ==
  ASSUME Inv, NextAssigned
  PROVE  Inv'
<1> USE Goroutines
<1>1. RowsTyped' /\ RowsExist' /\ Kept /\ UNCHANGED <<run, hist>>
  BY SameRows DEF Inv, TypeOK, RowsTyped, NextAssigned, runs
<1>2. /\ pc \in [Processes -> Places] /\ pc[Sweeper] = "next"
      /\ holding \in [Processes -> VisitId \cup {None}]
      /\ UNCHANGED <<work, queued, item, asked, choice, upsets, gone>>
  BY DEF NextAssigned, Inv, TypeOK, Places
<1>3. \E l \in {"idle", "mark"} :
        pc' = [pc EXCEPT ![Sweeper] = l] /\ pc' \in [Processes -> Places]
  BY <1>2 DEF NextAssigned, Goto, Places
<1>4. /\ assigned' \subseteq assigned
      /\ \A q \in Processes \ {Sweeper} : holding'[q] = holding[q]
      /\ holding' \in [Processes -> VisitId \cup {None}]
      /\ pc'[Sweeper] = "mark" => holding'[Sweeper] \in assigned
  BY <1>2, <1>3 DEF NextAssigned, Goto, Inv, TypeOK
<1>5. OneTicketPerVisit'
  <2>1. Sending' = Sending /\ \A q \in Sending : holding'[q] = holding[q]
    BY <1>2, <1>3, <1>4 DEF Sending
  <2> QED BY <2>1, <1>2, SameTickets DEF Inv
<1>6. TypeOK'
  BY <1>1, <1>2, <1>3, <1>4 DEF Inv, TypeOK, Places, RowsTyped
<1>7. Control'
  BY <1>2, <1>3 DEF Inv, Control
<1>8. Existing'
  <2>1. \A v \in assigned : v \in VisitId /\ hist[v] # None
    BY DEF Inv, TypeOK, Existing
  <2>2. \A q \in Processes : pc'[q] \in {"mark", "send", "forget"} =>
          holding'[q] \in VisitId /\ hist'[holding'[q]] # None
    BY <2>1, <1>1, <1>2, <1>3, <1>4 DEF Inv, Existing
  <2> QED BY <2>1, <2>2, <1>1, <1>2, <1>4 DEF Inv, Existing
<1>9. Asked'
  BY <1>1, <1>2, <1>3, SameQuestion
<1> QED BY <1>1, <1>5, <1>6, <1>7, <1>8, <1>9 DEF Inv

LEMMA RestartInv ==
  ASSUME Inv, Restart
  PROVE  Inv'
<1> USE DispatcherAssumption, NoneAssumption
<1>1. RowsTyped' /\ RowsExist' /\ Kept /\ UNCHANGED <<run, hist>>
  BY SameRows DEF Inv, TypeOK, RowsTyped, Restart, runs
<1>2. /\ work' \in Seq(VisitId) /\ Len(work') = 0
      /\ queued' = {} /\ assigned' = {} /\ item' = None /\ asked' = None /\ choice' = None
      /\ upsets' \in 0 .. MaxUpsets /\ gone' \subseteq Pairs
  BY DEF Restart, Inv, TypeOK
<1>3. /\ pc' \in [Processes -> Places] /\ pc'[Worker] = "receive"
      /\ \A p \in Processes : pc'[p] \in {"idle", "receive"}
      /\ holding' \in [Processes -> VisitId \cup {None}]
  BY Goroutines DEF Restart, Start, Places
<1>4. TypeOK'
  BY <1>1, <1>2, <1>3 DEF TypeOK, Places, RowsTyped
<1>5. Sending' = {}
  BY <1>3 DEF Sending
<1>6. OneTicketPerVisit'
  BY <1>2, <1>5 DEF OneTicketPerVisit
<1>7. Control' /\ Existing' /\ Asked'
  BY <1>2, <1>3 DEF Control, Existing, Asked
<1> QED BY <1>1, <1>4, <1>6, <1>7 DEF Inv

\* The runs and the sessions change, the dispatcher's memory does not.
LEMMA OutsideInv ==
  ASSUME Inv, RowsTyped', RowsExist', Kept, UNCHANGED memory,
         upsets' \in 0 .. MaxUpsets, gone' \subseteq Pairs
  PROVE  Inv'
<1> USE Goroutines
<1>1. UNCHANGED <<work, queued, pc, holding, item, asked, choice, assigned>>
  BY DEF memory
<1>2. OneTicketPerVisit'
  <2>1. Sending' = Sending
    BY <1>1 DEF Sending
  <2> QED BY <2>1, <1>1, SameTickets DEF Inv
<1>3. TypeOK'
  BY <1>1 DEF Inv, TypeOK, RowsTyped
<1>4. Control'
  BY <1>1 DEF Inv, Control
<1>5. Existing'
  BY <1>1 DEF Inv, TypeOK, Existing, Kept
<1>6. Asked'
  BY <1>1, SameQuestion
<1> QED BY <1>2, <1>3, <1>4, <1>5, <1>6 DEF Inv

LEMMA PersonReassignsInv ==
  ASSUME Inv, NEW v \in VisitId, PersonReassigns(v)
  PROVE  Inv'
<1>1. RowsTyped' /\ RowsExist' /\ Kept
  BY HandOverRows DEF Inv, TypeOK, RowsTyped, PersonReassigns
<1>2. UNCHANGED memory /\ upsets' \in 0 .. MaxUpsets /\ gone' \subseteq Pairs
  BY DispatcherAssumption DEF PersonReassigns, Inv, TypeOK
<1> QED BY <1>1, <1>2, OutsideInv

\* The janitor and the returning visitor.
LEMMA SessionsInv ==
  ASSUME Inv, NEW pair \in Pairs, Expire(pair) \/ ComeBack(pair)
  PROVE  Inv'
<1>1. UNCHANGED <<run, hist>> /\ UNCHANGED memory
  BY DEF Expire, ComeBack, runs
<1>2. RowsTyped' /\ RowsExist' /\ Kept
  <2>1. RowsTyped /\ RowsExist
    BY DEF Inv, TypeOK, RowsTyped
  <2> QED BY <1>1, <2>1, SameRows DEF runs
<1>3. upsets' \in 0 .. MaxUpsets
  BY DispatcherAssumption DEF Expire, ComeBack, Inv, TypeOK
<1>4. gone' \subseteq Pairs
  <2>1. gone \subseteq Pairs
    BY DEF Inv, TypeOK
  <2>2. gone' = gone \cup {pair} \/ gone' = gone \ {pair}
    BY DEF Expire, ComeBack
  <2> QED BY <2>1, <2>2
<1> QED BY <1>1, <1>2, <1>3, <1>4, OutsideInv

-----------------------------------------------------------------------------
(* The steps that call the Engine and dispatch with its answer.            *)

LEMMA CallInv ==
  ASSUME Inv, RowsTyped', RowsExist', Kept, NEW p \in Processes, NEW r, Dispatch(p, r),
         pc[p] \in {"idle", "complete"},
         UNCHANGED <<work, queued, item, assigned, upsets, gone>>,
         \/ p # Worker /\ UNCHANGED <<asked, choice>>
         \/ p = Worker /\ asked' = None /\ choice' = None
  PROVE  Inv'
<1> USE Goroutines
<1>1. /\ pc \in [Processes -> Places] /\ pc' = [pc EXCEPT ![p] = pc'[p]]
      /\ pc'[p] \in {"mark", Rest(p)}
      /\ holding' \in [Processes -> VisitId \cup {None}]
      /\ \A q \in Processes \ {p} : holding'[q] = holding[q]
      /\ pc'[p] = "mark" => holding'[p] \in VisitId /\ hist'[holding'[p]] # None
      /\ Sending' = Sending
      /\ \A q \in Sending : holding'[q] = holding[q]
  BY DispatchFrame DEF Inv, TypeOK, Places
<1>2. Rest(p) \in {"done", "next", "idle"}
  BY DEF Rest
<1>3. pc' \in [Processes -> Places] /\ pc'[p] \in {"mark", "done", "next", "idle"}
  <2>1. pc'[p] \in Places
    BY <1>1, <1>2 DEF Places
  <2> QED BY <2>1, <1>1, <1>2
<1>4. OneTicketPerVisit'
  BY <1>1, SameTickets DEF Inv
<1>5. TypeOK'
  BY <1>1, <1>3 DEF Inv, TypeOK, Places, RowsTyped
<1>6. Control'
  BY <1>1, <1>3 DEF Inv, Control
<1>7. Existing'
  <2>1. item' # None => hist'[item'] # None
    BY DEF Inv, TypeOK, Existing, Kept
  <2>2. \A v \in queued' \cup assigned' : hist'[v] # None
    BY DEF Inv, TypeOK, Existing, Kept
  <2>3. \A q \in Processes : pc'[q] \in {"mark", "send", "forget"} =>
          holding'[q] \in VisitId /\ hist'[holding'[q]] # None
    <3> SUFFICES ASSUME NEW q \in Processes, pc'[q] \in {"mark", "send", "forget"}
                 PROVE  holding'[q] \in VisitId /\ hist'[holding'[q]] # None
      OBVIOUS
    <3>1. CASE q = p
      BY <3>1, <1>1, <1>3
    <3>2. CASE q # p
      BY <3>2, <1>1 DEF Inv, Existing, Kept
    <3> QED BY <3>1, <3>2
  <2> QED BY <2>1, <2>2, <2>3 DEF Existing
<1>8. Asked'
  <2>1. CASE p # Worker /\ UNCHANGED <<asked, choice>>
    BY <2>1, <1>1, SameQuestion
  <2>2. CASE p = Worker
    BY <2>2, <1>3 DEF Asked
  <2> QED BY <2>1, <2>2
<1> QED BY <1>4, <1>5, <1>6, <1>7, <1>8 DEF Inv, TypeOK, RowsTyped

LEMMA SubmitInv ==
  ASSUME Inv, NEW p \in Requests, Submit(p)
  PROVE  Inv'
<1>1. PICK pair \in Pairs : Begin(pair)
  BY DEF Submit
<1>2. RowsTyped' /\ RowsExist' /\ Kept
  BY <1>1, BeginRows DEF Inv, TypeOK, RowsTyped
<1>3. PICK r \in Unstarted \ Unstarted' : Dispatch(p, r)
  BY DEF Submit
<1> QED BY <1>2, <1>3, CallInv, Goroutines DEF Submit

LEMMA PersonDecidesInv ==
  ASSUME Inv, NEW p \in Requests, PersonDecides(p)
  PROVE  Inv'
<1>1. PICK v \in VisitId \ Unentered, who \in People \ Agents :
        /\ \E a \in ActionsOf[run[hist[v].run].graph][hist[v].step] : Decided(v, who, a)
        /\ Dispatch(p, hist[v].run)
  BY DEF PersonDecides
<1>2. PICK a \in ActionsOf[run[hist[v].run].graph][hist[v].step] : Decided(v, who, a)
  BY <1>1
<1>3. hist[v] \in HistRow /\ run[hist[v].run] \in RunRow
  BY <1>2 DEF Inv, TypeOK, RowsExist, HistRow, Decided, Standing
<1>4. a \in Actions
  BY <1>2, <1>3, GraphsAssumption DEF HistRow, RunRow
<1>5. RowsTyped' /\ RowsExist' /\ Kept
  BY <1>2, <1>4, DecidedRows DEF Inv, TypeOK, RowsTyped
<1> QED BY <1>1, <1>5, CallInv, Goroutines DEF PersonDecides

LEMMA CompleteRows ==
  ASSUME Inv, Complete
  PROVE  /\ item \in VisitId /\ asked \in Checkable /\ choice \in Actions
         /\ choice \in ActionsOf[run[hist[item].run].graph][hist[item].step]
         /\ RowsTyped' /\ RowsExist' /\ Kept
<1>1. /\ item \in VisitId /\ hist[item] # None /\ asked \in Checkable
      /\ choice \in ActionsOf[run[hist[item].run].graph][hist[item].step]
  BY DEF Complete, Inv, TypeOK, Control, Existing, Asked
<1>2. hist[item] \in HistRow /\ run[hist[item].run] \in RunRow
  BY <1>1 DEF Inv, TypeOK, RowsExist, HistRow
<1>3. choice \in Actions /\ asked \in People
  BY <1>1, <1>2, GraphsAssumption, DispatcherAssumption DEF HistRow, RunRow
<1>4. RowsTyped' /\ RowsExist' /\ Kept
  BY <1>1, <1>3, DecidedRows DEF Inv, TypeOK, RowsTyped, Complete
<1> QED BY <1>1, <1>3, <1>4

LEMMA CompleteInv ==
  ASSUME Inv, Complete
  PROVE  Inv'
<1> USE Goroutines
<1>1. RowsTyped' /\ RowsExist' /\ Kept
  BY CompleteRows
<1>2. CASE Dispatch(Worker, hist[item].run)
  BY <1>1, <1>2, CallInv DEF Complete
<1>3. CASE Goto(Worker, "done") /\ UNCHANGED holding
  <2>1. /\ pc \in [Processes -> Places] /\ pc[Worker] = "complete"
        /\ pc' = [pc EXCEPT ![Worker] = "done"] /\ pc' \in [Processes -> Places]
        /\ UNCHANGED <<work, queued, holding, item, assigned, upsets, gone>>
        /\ asked' = None /\ choice' = None
    BY <1>3 DEF Complete, Goto, Inv, TypeOK, Places
  <2>2. OneTicketPerVisit'
    <3>1. Sending' = Sending
      BY <2>1 DEF Sending
    <3> QED BY <3>1, <2>1, SameTickets DEF Inv
  <2>3. TypeOK'
    BY <1>1, <2>1 DEF Inv, TypeOK, Places, RowsTyped
  <2>4. Control' /\ Asked'
    BY <2>1 DEF Inv, Control, Asked
  <2>5. Existing'
    BY <1>1, <2>1 DEF Inv, TypeOK, Existing, Kept
  <2> QED BY <1>1, <2>2, <2>3, <2>4, <2>5 DEF Inv
<1> QED BY <1>2, <1>3 DEF Complete

-----------------------------------------------------------------------------
(* The theorems.                                                           *)

LEMMA StutterInv ==
  ASSUME Inv, UNCHANGED vars
  PROVE  Inv'
<1>1. UNCHANGED <<run, hist, work, queued, pc, holding, item, asked, choice, assigned, upsets, gone>>
  BY DEF vars, runs, memory
<1>2. Sending' = Sending /\ OneTicketPerVisit'
  BY <1>1, SameTickets DEF Sending, Inv
<1> QED BY <1>1, <1>2 DEF Inv, TypeOK, RowsExist, Control, Existing, Asked

LEMMA NextInv == Inv /\ [Next]_vars => Inv'
<1> SUFFICES ASSUME Inv, [Next]_vars PROVE Inv'
  OBVIOUS
<1>1. ASSUME NEW p \in Processes, Enqueue(p) PROVE Inv'
  BY <1>1, MarkInv, SendInv, ForgetInv DEF Enqueue
<1>2. ASSUME Receive \/ Run \/ Done PROVE Inv'
  BY <1>2, ReceiveInv, ReadStateInv, CheckInv, CompleteInv, AbandonInv, DoneInv DEF Run
<1>3. ASSUME Sweep \/ NextAssigned PROVE Inv'
  BY <1>3, SweepInv, NextAssignedInv
<1>4. ASSUME NEW p \in Requests, Submit(p) \/ PersonDecides(p) PROVE Inv'
  BY <1>4, SubmitInv, PersonDecidesInv
<1>5. ASSUME NEW v \in VisitId, PersonReassigns(v) PROVE Inv'
  BY <1>5, PersonReassignsInv
<1>6. CASE Restart
  BY <1>6, RestartInv
<1>7. CASE UNCHANGED vars
  BY <1>7, StutterInv
<1>8. ASSUME NEW pair \in Pairs, Expire(pair) \/ ComeBack(pair) PROVE Inv'
  BY <1>8, SessionsInv
<1> QED BY <1>1, <1>2, <1>3, <1>4, <1>5, <1>6, <1>7, <1>8 DEF Next

\* The strengthening is an invariant of the dispatcher: the worker has an item
\* exactly when it is not receiving, whatever is on its way to it is a row of the
\* runs' history, and what it is about to answer was put to it by that row's step.
THEOREM Invariance == Spec => []Inv
<1>1. Init => Inv
  BY InitInv
<1>2. Inv /\ [Next]_vars => Inv'
  BY NextInv
<1> QED BY <1>1, <1>2, PTL DEF Spec

\* Every variable of the dispatcher keeps its type, and the channel its capacity.
THEOREM TypeCorrectness == Spec => []TypeOK
<1>1. Inv => TypeOK
  BY DEF Inv
<1> QED BY <1>1, Invariance, PTL

\* "queued guards against dispatching the same visit twice": however the enqueues of
\* the requests, the sweeper and the worker interleave between the mutex and the
\* channel, a visit has at most one ticket and the map holds exactly the tickets.
THEOREM OneTicketPerVisitHolds == Spec => []OneTicketPerVisit
<1>1. Inv => OneTicketPerVisit
  BY DEF Inv
<1> QED BY <1>1, Invariance, PTL

\* While the worker is about to complete, the steps of the others leave it there.
LEMMA OnlyComplete ==
  ASSUME Inv, [Next]_vars, pc[Worker] = "complete", pc'[Worker] # "complete", hist' # hist
  PROVE  Complete
<1> USE Goroutines
<1>0. pc \in [Processes -> Places]
  BY DEF Inv, TypeOK, Places
<1>1. ASSUME NEW p \in Processes, Enqueue(p) PROVE FALSE
  BY <1>1 DEF Enqueue, Mark, Send, Forget, runs
<1>2. ASSUME Receive \/ Done \/ Sweep \/ NextAssigned PROVE FALSE
  BY <1>2 DEF Receive, Done, Sweep, NextAssigned, runs
<1>3. ASSUME Run PROVE Complete
  BY <1>3 DEF Run, ReadState, Check, Abandon, runs
<1>4. ASSUME NEW p \in Requests, Submit(p) \/ PersonDecides(p) PROVE FALSE
  <2>1. PICK r : Dispatch(p, r)
    BY <1>4 DEF Submit, PersonDecides
  <2>2. \E l \in {"mark", Rest(p)} : pc' = [pc EXCEPT ![p] = l]
    BY <2>1 DEF Dispatch, Goto
  <2> QED BY <2>2, <1>0
<1>5. ASSUME NEW v \in VisitId, PersonReassigns(v) PROVE FALSE
  BY <1>5 DEF PersonReassigns, memory
<1>6. CASE Restart
  BY <1>6 DEF Restart, runs
<1>7. CASE UNCHANGED vars
  BY <1>7 DEF vars, runs
<1>8. ASSUME NEW pair \in Pairs, Expire(pair) \/ ComeBack(pair) PROVE FALSE
  BY <1>8 DEF Expire, ComeBack, runs
<1> QED BY <1>1, <1>2, <1>3, <1>4, <1>5, <1>6, <1>7, <1>8 DEF Next

\* What a decision changes of the visits that stood.
LEMMA DecidedVisit ==
  ASSUME RowsTyped, NEW v \in VisitId, NEW who, NEW a, Decided(v, who, a),
         NEW w \in VisitId, Standing(w), ~Standing(w)'
  PROVE  w = v /\ hist'[w].by = who /\ hist'[w].action = a
<1>1. hist[v] \in HistRow /\ hist[w] \in HistRow /\ hist[w] # None
  BY DEF Decided, Standing, RowsTyped
<1>2. Left(v, who, a).by = who /\ Left(v, who, a).action = a
  BY <1>1 DEF Left, HistRow
<1>3. \/ hist' = [hist EXCEPT ![v] = Left(v, who, a)]
      \/ \E u \in Unentered : \E e : hist' = [hist EXCEPT ![v] = Left(v, who, a), ![u] = e]
  BY DEF Decided, Route, Finish
<1>4. CASE hist' = [hist EXCEPT ![v] = Left(v, who, a)]
  BY <1>1, <1>2, <1>4 DEF RowsTyped, Standing
<1>5. CASE \E u \in Unentered : \E e :
             hist' = [hist EXCEPT ![v] = Left(v, who, a), ![u] = e]
  <2>0. PICK u \in Unentered : \E e :
          hist' = [hist EXCEPT ![v] = Left(v, who, a), ![u] = e]
    BY <1>5
  <2>1. PICK e : hist' = [hist EXCEPT ![v] = Left(v, who, a), ![u] = e]
    BY <2>0
  <2>2. u \in VisitId /\ u # w /\ u # v
    BY <1>1 DEF Unentered, Decided, Standing
  <2> QED BY <1>1, <1>2, <2>1, <2>2 DEF RowsTyped, Standing
<1> QED BY <1>3, <1>4, <1>5

\* The worker never signs for anyone but an agent the checker speaks for, and never
\* anything but an answer to its own visit's question, even when the visit has been
\* handed to somebody else while the checker was thinking.
THEOREM MachineSignsAsAgentHolds == Spec => MachineSignsAsAgent
<1>1. ASSUME Inv, [Next]_vars, NEW v \in VisitId,
             pc[Worker] = "complete", pc'[Worker] # "complete",
             Standing(v), ~Standing(v)'
      PROVE  /\ v = item
             /\ hist'[v].by \in Checkable
             /\ hist'[v].action \in ActionsOf[run[hist[v].run].graph][hist[v].step]
  <2>1. Complete
    BY <1>1, OnlyComplete DEF Standing
  <2>2. /\ item \in VisitId /\ asked \in Checkable
        /\ choice \in ActionsOf[run[hist[item].run].graph][hist[item].step]
    BY <1>1, <2>1, CompleteRows
  <2>3. RowsTyped /\ Decided(item, asked, choice)
    BY <1>1, <2>1 DEF Inv, TypeOK, RowsTyped, Complete
  <2>4. v = item /\ hist'[v].by = asked /\ hist'[v].action = choice
    BY <1>1, <2>2, <2>3, DecidedVisit
  <2> QED BY <2>2, <2>4
<1>2. Inv /\ [Next]_vars =>
        [\A v \in VisitId :
           pc[Worker] = "complete" /\ pc'[Worker] # "complete"
             /\ Standing(v) /\ ~Standing(v)' =>
           /\ v = item
           /\ hist'[v].by \in Checkable
           /\ hist'[v].action \in ActionsOf[run[hist[v].run].graph][hist[v].step]]_vars
  BY <1>1
<1> QED BY <1>2, Invariance, PTL DEF Spec, MachineSignsAsAgent

-----------------------------------------------------------------------------
(* Where a run stands.                                                     *)

\* OnePlace, as a relation between rows.
Position ==
  /\ \A v, w \in VisitId :
       Standing(v) /\ Standing(w) /\ hist[v].run = hist[w].run => v = w
  /\ \A v \in VisitId : Standing(v) =>
       LET row == run[hist[v].run] IN
       ~row.done /\ row.status = StatusOf[row.graph][hist[v].step]
  /\ \A r \in RunId : run[r] # None /\ ~run[r].done =>
       \E v \in VisitId : Standing(v) /\ hist[v].run = r
  /\ \A r, q \in RunId :
       run[r] # None /\ ~run[r].done /\ run[q] # None /\ ~run[q].done
         /\ run[r].pair = run[q].pair => r = q

LEMMA BeginPosition ==
  ASSUME RowsTyped, RowsExist, Position, NEW p \in Pairs, Begin(p)
  PROVE  Position'
<1>1. PICK r \in Unstarted, v \in Unentered, g \in Graphs :
        /\ Entry[g] # None
        /\ run' = [run EXCEPT ![r] = [pair |-> p, graph |-> g, done |-> FALSE,
                                      status |-> StatusOf[g][Entry[g]]]]
        /\ hist' = [hist EXCEPT ![v] = Entered(r, g, Entry[g])]
  BY DEF Begin
<1>2. r \in RunId /\ run[r] = None /\ v \in VisitId /\ hist[v] = None /\ Entry[g] \in Steps
  BY <1>1, GraphsAssumption DEF Unstarted, Unentered
<1>3. /\ run'[r] = [pair |-> p, graph |-> g, done |-> FALSE,
                    status |-> StatusOf[g][Entry[g]]]
      /\ \A q \in RunId \ {r} : run'[q] = run[q]
      /\ hist'[v] = Entered(r, g, Entry[g])
      /\ \A w \in VisitId \ {v} : hist'[w] = hist[w]
  BY <1>1, <1>2 DEF RowsTyped
<1>4. /\ run'[r].pair = p /\ run'[r].graph = g /\ ~run'[r].done
      /\ run'[r].status = StatusOf[g][Entry[g]]
      /\ hist'[v].run = r /\ hist'[v].step = Entry[g] /\ hist'[v].by = None
  BY <1>3 DEF Entered
<1>5. hist'[v] # None
  <2>1. Entered(r, g, Entry[g]) \in HistRow
    BY <1>2, GraphsAssumption DEF Entered, HistRow
  <2> QED BY <1>3, <2>1, DispatcherAssumption
<1>6. \A w \in VisitId : hist[w] # None => hist[w].run \in RunId \ {r}
  <2> SUFFICES ASSUME NEW w \in VisitId, hist[w] # None PROVE hist[w].run \in RunId \ {r}
    OBVIOUS
  <2>1. hist[w] \in HistRow
    BY DEF RowsTyped
  <2> QED BY <1>2, <2>1 DEF RowsExist, HistRow
<1>7. \A q \in RunId : run[q] # None /\ ~run[q].done => run[q].pair # p
  BY DEF Begin, Live
<1>8. \A w \in VisitId : Standing(w)' <=> w = v \/ Standing(w)
  BY <1>2, <1>3, <1>4, <1>5 DEF Standing
<1>9. \A w \in VisitId : Standing(w) => w # v /\ hist'[w] = hist[w] /\ hist[w].run \in RunId \ {r}
  BY <1>2, <1>3, <1>6 DEF Standing
<1>10. (\A x, w \in VisitId :
          Standing(x) /\ Standing(w) /\ hist[x].run = hist[w].run => x = w)'
  BY <1>4, <1>8, <1>9 DEF Position
<1>11. (\A w \in VisitId : Standing(w) =>
          ~run[hist[w].run].done
            /\ run[hist[w].run].status = StatusOf[run[hist[w].run].graph][hist[w].step])'
  <2> SUFFICES ASSUME NEW w \in VisitId, Standing(w)'
               PROVE  ~run'[hist'[w].run].done /\ run'[hist'[w].run].status
                        = StatusOf[run'[hist'[w].run].graph][hist'[w].step]
    OBVIOUS
  <2>1. CASE w = v
    BY <1>4, <2>1
  <2>2. CASE w # v
    <3>1. Standing(w) /\ hist'[w] = hist[w] /\ run'[hist[w].run] = run[hist[w].run]
      BY <1>3, <1>8, <1>9, <2>2
    <3> QED BY <3>1 DEF Position
  <2> QED BY <2>1, <2>2
<1>12. (\A q \in RunId : run[q] # None /\ ~run[q].done =>
          \E w \in VisitId : Standing(w) /\ hist[w].run = q)'
  <2> SUFFICES ASSUME NEW q \in RunId, run'[q] # None, ~run'[q].done
               PROVE  \E w \in VisitId : Standing(w)' /\ hist'[w].run = q
    OBVIOUS
  <2>1. CASE q = r
    BY <1>2, <1>4, <1>8, <2>1
  <2>2. CASE q # r
    <3>1. PICK w \in VisitId : Standing(w) /\ hist[w].run = q
      BY <1>3, <2>2 DEF Position
    <3> QED BY <1>8, <1>9, <3>1
  <2> QED BY <2>1, <2>2
<1>13. (\A q, s \in RunId :
          run[q] # None /\ ~run[q].done /\ run[s] # None /\ ~run[s].done
            /\ run[q].pair = run[s].pair => q = s)'
  BY <1>3, <1>4, <1>7 DEF Position
<1> QED BY <1>10, <1>11, <1>12, <1>13 DEF Position

\* A step that keeps the pair and the graph of a run and may end it, if in its place
\* stands another visit, of the step of the new status, or none when it has ended.
LEMMA MovedPosition ==
  ASSUME RowsTyped, RowsExist, Position, NEW v \in VisitId, Standing(v), ~Standing(v)',
         NEW r \in RunId, r = hist[v].run,
         run'[r] # None, run'[r].pair = run[r].pair,
         \A q \in RunId \ {r} : run'[q] = run[q],
         NEW entered \in SUBSET VisitId,
         \A w \in VisitId \ {v} : w \notin entered => hist'[w] = hist[w],
         \A w \in entered : /\ hist[w] = None /\ Standing(w)' /\ hist'[w].run = r
                            /\ run'[r].status = StatusOf[run'[r].graph][hist'[w].step],
         \A w, x \in entered : w = x,
         IF run'[r].done THEN entered = {} ELSE entered # {}
  PROVE  Position'
<1>1. /\ run[r] # None /\ ~run[r].done
      /\ \A w \in VisitId : Standing(w) => hist[w].run \in RunId
      /\ \A w \in VisitId : Standing(w) /\ w # v => hist[w].run # r
  <2>1. ASSUME NEW w \in VisitId, Standing(w) PROVE hist[w].run \in RunId
    BY <2>1 DEF Standing, RowsTyped, HistRow
  <2> QED BY <2>1 DEF Position, Standing, RowsExist
<1>2. \A w \in VisitId : Standing(w)' <=> w \in entered \/ (Standing(w) /\ w # v)
  BY DEF Standing
<1>3. \A w \in VisitId : Standing(w) /\ w # v =>
        w \notin entered /\ hist'[w] = hist[w] /\ hist[w].run \in RunId \ {r}
  BY <1>1 DEF Standing
<1>4. (\A x, w \in VisitId :
         Standing(x) /\ Standing(w) /\ hist[x].run = hist[w].run => x = w)'
  BY <1>2, <1>3 DEF Position
<1>5. (\A w \in VisitId : Standing(w) =>
         ~run[hist[w].run].done
           /\ run[hist[w].run].status = StatusOf[run[hist[w].run].graph][hist[w].step])'
  <2> SUFFICES ASSUME NEW w \in VisitId, Standing(w)'
               PROVE  ~run'[hist'[w].run].done /\ run'[hist'[w].run].status
                        = StatusOf[run'[hist'[w].run].graph][hist'[w].step]
    OBVIOUS
  <2>1. CASE w \in entered
    BY <2>1
  <2>2. CASE w \notin entered
    <3>1. Standing(w) /\ hist'[w] = hist[w] /\ run'[hist[w].run] = run[hist[w].run]
      BY <1>2, <1>3, <2>2
    <3> QED BY <3>1 DEF Position
  <2> QED BY <2>1, <2>2
<1>6. (\A q \in RunId : run[q] # None /\ ~run[q].done =>
         \E w \in VisitId : Standing(w) /\ hist[w].run = q)'
  <2> SUFFICES ASSUME NEW q \in RunId, run'[q] # None, ~run'[q].done
               PROVE  \E w \in VisitId : Standing(w)' /\ hist'[w].run = q
    OBVIOUS
  <2>1. CASE q = r
    BY <2>1
  <2>2. CASE q # r
    <3>1. PICK w \in VisitId : Standing(w) /\ hist[w].run = q
      BY <2>2 DEF Position
    <3> QED BY <1>2, <1>3, <2>2, <3>1
  <2> QED BY <2>1, <2>2
<1>7. (\A q, s \in RunId :
         run[q] # None /\ ~run[q].done /\ run[s] # None /\ ~run[s].done
           /\ run[q].pair = run[s].pair => q = s)'
  BY <1>1 DEF Position
<1> QED BY <1>4, <1>5, <1>6, <1>7 DEF Position

LEMMA DecidePosition ==
  ASSUME RowsTyped, RowsExist, Position, NEW v \in VisitId, Decide(v)
  PROVE  Position'
<1>1. PICK r, g : r = hist[v].run /\ g = run[r].graph
  OBVIOUS
<1>2. Standing(v) /\ hist[v] \in HistRow /\ r \in RunId /\ run[r] \in RunRow /\ g \in Graphs
  BY <1>1 DEF Decide, Standing, RowsTyped, RowsExist, HistRow, RunRow
<1>3. PICK who \in People, a \in ActionsOf[g][hist[v].step] :
        Route(v, r, g, who, a) \/ Finish(v, r, g, who, a)
  BY <1>1 DEF Decide
<1>4. a \in Actions /\ Target[g][a] \in Steps \cup Statuses
  BY <1>2, <1>3, GraphsAssumption DEF HistRow
<1>5. Left(v, who, a) \in HistRow /\ Left(v, who, a).by = who
  BY <1>2, <1>4 DEF Left, HistRow
<1>6. who # None /\ Left(v, who, a) # None
  BY <1>5, DispatcherAssumption
<1>7. CASE Finish(v, r, g, who, a)
  <2> DEFINE row == [run[r] EXCEPT !.status = Target[g][a], !.done = TRUE]
  <2>1. hist' = [hist EXCEPT ![v] = Left(v, who, a)] /\ run' = [run EXCEPT ![r] = row]
        /\ Target[g][a] \in Statuses
    BY <1>4, <1>7 DEF Finish, IsTerminal
  <2>2. row \in RunRow /\ row.done /\ row.pair = run[r].pair
    BY <1>2, <2>1 DEF RunRow
  <2> HIDE DEF row
  <2>3. /\ hist'[v] = Left(v, who, a) /\ \A w \in VisitId \ {v} : hist'[w] = hist[w]
        /\ run'[r] = row /\ \A q \in RunId \ {r} : run'[q] = run[q]
    BY <1>2, <2>1 DEF RowsTyped
  <2>4. ~Standing(v)' /\ run'[r] # None
    BY <1>5, <1>6, <2>2, <2>3, DispatcherAssumption DEF Standing
  <2>5. PICK entered \in SUBSET VisitId : entered = {}
    OBVIOUS
  <2>6. /\ \A u \in VisitId \ {v} : u \notin entered => hist'[u] = hist[u]
        /\ \A u \in entered : /\ hist[u] = None /\ Standing(u)' /\ hist'[u].run = r
                              /\ run'[r].status = StatusOf[run'[r].graph][hist'[u].step]
        /\ \A u, x \in entered : u = x
    BY <2>3, <2>5
  <2>7. /\ \A q \in RunId \ {r} : run'[q] = run[q]
        /\ run'[r].pair = run[r].pair
        /\ IF run'[r].done THEN entered = {} ELSE entered # {}
    BY <2>2, <2>3, <2>5
  <2> QED BY <1>1, <1>2, <2>4, <2>6, <2>7, MovedPosition
<1>8. CASE Route(v, r, g, who, a)
  <2>1. PICK w \in Unentered :
          hist' = [hist EXCEPT ![v] = Left(v, who, a), ![w] = Entered(r, g, Target[g][a])]
    BY <1>8 DEF Route
  <2> DEFINE row == [run[r] EXCEPT !.status = StatusOf[g][Target[g][a]]]
             new == Entered(r, g, Target[g][a])
  <2>2. run' = [run EXCEPT ![r] = row] /\ Target[g][a] \in Steps
    BY <1>4, <1>8 DEF Route, IsTerminal
  <2>3. StatusOf[g][Target[g][a]] \in Statuses /\ DefaultAssignee[g][Target[g][a]] \in Assignees
    BY <1>2, <2>2, GraphsAssumption
  <2>4. /\ row \in RunRow /\ row.done = run[r].done /\ row.pair = run[r].pair
        /\ row.graph = run[r].graph /\ row.status = StatusOf[g][Target[g][a]]
    BY <1>2, <2>3 DEF RunRow
  <2>5. /\ new \in HistRow /\ new.run = r /\ new.step = Target[g][a] /\ new.by = None
    BY <1>2, <2>2, <2>3 DEF Entered, HistRow
  <2>6. w \in VisitId /\ hist[w] = None /\ w # v
    BY <1>2, DispatcherAssumption DEF Unentered
  <2> HIDE DEF row, new
  <2>7. hist' = [hist EXCEPT ![v] = Left(v, who, a), ![w] = new]
    BY <2>1 DEF new
  <2>8. /\ hist'[v] = Left(v, who, a) /\ hist'[w] = new
        /\ \A u \in VisitId \ {v, w} : hist'[u] = hist[u]
        /\ run'[r] = row /\ \A q \in RunId \ {r} : run'[q] = run[q]
    BY <1>2, <2>2, <2>6, <2>7 DEF RowsTyped
  <2>9. ~Standing(v)' /\ Standing(w)' /\ run'[r] # None
    BY <1>5, <1>6, <2>4, <2>5, <2>8, DispatcherAssumption DEF Standing
  <2>10. /\ hist'[w].run = r /\ ~run'[r].done /\ run'[r].pair = run[r].pair
         /\ run'[r].status = StatusOf[run'[r].graph][hist'[w].step]
    BY <1>1, <1>2, <2>4, <2>5, <2>8 DEF Position
  <2>11. PICK entered \in SUBSET VisitId : entered = {w}
    BY <2>6
  <2>12. /\ \A u \in VisitId \ {v} : u \notin entered => hist'[u] = hist[u]
         /\ \A u \in entered : /\ hist[u] = None /\ Standing(u)' /\ hist'[u].run = r
                               /\ run'[r].status = StatusOf[run'[r].graph][hist'[u].step]
         /\ \A u, x \in entered : u = x
         /\ IF run'[r].done THEN entered = {} ELSE entered # {}
    BY <2>6, <2>8, <2>9, <2>10, <2>11
  <2> QED BY <1>1, <1>2, <2>8, <2>9, <2>10, <2>12, MovedPosition
<1> QED BY <1>3, <1>7, <1>8

LEMMA SamePosition ==
  ASSUME Position, run' = run,
         \A w \in VisitId : /\ Standing(w)' <=> Standing(w)
                            /\ Standing(w) => /\ hist'[w].run = hist[w].run
                                              /\ hist'[w].step = hist[w].step
  PROVE  Position'
<1>1. (\A x, w \in VisitId :
         Standing(x) /\ Standing(w) /\ hist[x].run = hist[w].run => x = w)'
  BY DEF Position
<1>2. (\A w \in VisitId : Standing(w) =>
         ~run[hist[w].run].done
           /\ run[hist[w].run].status = StatusOf[run[hist[w].run].graph][hist[w].step])'
  BY DEF Position
<1>3. (\A q \in RunId : run[q] # None /\ ~run[q].done =>
         \E w \in VisitId : Standing(w) /\ hist[w].run = q)'
  BY DEF Position
<1> QED BY <1>1, <1>2, <1>3 DEF Position

LEMMA HandOverPosition ==
  ASSUME RowsTyped, Position, NEW v \in VisitId, HandOver(v)
  PROVE  Position'
<1>1. PICK x \in Assignees : hist' = [hist EXCEPT ![v] = [hist[v] EXCEPT !.assignee = x]]
  BY DEF HandOver
<1>2. hist[v] \in HistRow /\ hist[v].by = None /\ run' = run
  BY DEF HandOver, Standing, RowsTyped
<1> DEFINE row == [hist[v] EXCEPT !.assignee = x]
<1>3. row \in HistRow /\ row.run = hist[v].run /\ row.step = hist[v].step /\ row.by = None
  BY <1>2 DEF HistRow
<1> HIDE DEF row
<1>4. hist'[v] = row /\ row # None /\ \A w \in VisitId \ {v} : hist'[w] = hist[w]
  BY <1>1, <1>3, DispatcherAssumption DEF RowsTyped, row
<1>5. Standing(v)
  BY DEF HandOver
<1>6. \A w \in VisitId : /\ Standing(w)' <=> Standing(w)
                         /\ hist'[w].run = hist[w].run /\ hist'[w].step = hist[w].step
  BY <1>3, <1>4, <1>5 DEF Standing
<1> QED BY <1>2, <1>6, SamePosition

LEMMA DecideRows ==
  ASSUME RowsTyped, RowsExist, NEW v \in VisitId, Decide(v)
  PROVE  RowsTyped' /\ RowsExist' /\ Kept
<1>1. PICK who \in People, a \in ActionsOf[run[hist[v].run].graph][hist[v].step] :
        \/ Route(v, hist[v].run, run[hist[v].run].graph, who, a)
        \/ Finish(v, hist[v].run, run[hist[v].run].graph, who, a)
  BY DEF Decide
<1>2. Standing(v) /\ hist[v] \in HistRow /\ run[hist[v].run] \in RunRow
  BY DEF Decide, Standing, RowsTyped, RowsExist, HistRow
<1>3. a \in Actions
  BY <1>1, <1>2, GraphsAssumption DEF HistRow, RunRow
<1> QED BY <1>1, <1>2, <1>3, RoutedRows

\* What makes OnePlace inductive: the types of the rows, and that a visit's run is there.
Promised == RowsTyped /\ RowsExist /\ Position

LEMMA PromisedNext ==
  ASSUME Promised, [RNext]_rvars
  PROVE  Promised'
<1> USE DEF Promised
<1>1. ASSUME NEW p \in Pairs, Begin(p) PROVE Promised'
  BY <1>1, BeginRows, BeginPosition
<1>2. ASSUME NEW v \in VisitId, Decide(v) PROVE Promised'
  BY <1>2, DecideRows, DecidePosition
<1>3. ASSUME NEW v \in VisitId, HandOver(v) PROVE Promised'
  BY <1>3, HandOverRows, HandOverPosition
<1>4. CASE UNCHANGED rvars
  <2>1. run' = run /\ hist' = hist
    BY <1>4 DEF rvars
  <2>2. Position'
    BY <2>1, SamePosition DEF Standing
  <2> QED BY <2>1, <2>2 DEF RowsTyped, RowsExist
<1> QED BY <1>1, <1>2, <1>3, <1>4 DEF RNext

\* Of the Engine's promise alone: a pair has one live run, which stands on one visit,
\* of its status, and a finished run on none, for any number of runs.
THEOREM PromiseKeepsOnePlace == RSpec => []OnePlace
<1>1. RInit => Promised
  BY DEF RInit, Promised, Position, Standing, RowsTyped, RowsExist
<1>2. ASSUME Promised PROVE OnePlace
  <2> USE <1>2 DEF Promised
  <2>1. ASSUME NEW p \in Pairs, NEW r \in Live(p), NEW q \in Live(p) PROVE r = q
    BY DEF Live, Position
  <2>2. ASSUME NEW r \in RunId \ Unstarted, run[r].done PROVE At(r) = {}
    BY <2>2 DEF At, Position
  <2>3. ASSUME NEW r \in RunId \ Unstarted, ~run[r].done
        PROVE  \E v \in VisitId :
                 At(r) = {v} /\ run[r].status = StatusOf[run[r].graph][hist[v].step]
    <3>1. PICK v \in VisitId : Standing(v) /\ hist[v].run = r
      BY <2>3 DEF Position, Unstarted
    <3>2. At(r) = {v}
      BY <3>1 DEF At, Position
    <3>3. run[r].status = StatusOf[run[r].graph][hist[v].step]
      BY <3>1 DEF Position
    <3> QED BY <3>2, <3>3
  <2> QED BY <2>1, <2>2, <2>3 DEF OnePlace
<1>3. Promised => OnePlace
  BY <1>2
<1> QED BY <1>1, <1>3, PromisedNext, PTL DEF RSpec
=============================================================================
