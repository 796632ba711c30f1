----------------------------- MODULE BootProofs -----------------------------
(***************************************************************************)
(* Proofs about Boot, for any number of instances, migrations and staff    *)
(* members and any number of faults: the types, that the advisory lock     *)
(* lets the library's migrations run once, that the version tables say     *)
(* what has run, and that what is served is complete.                      *)
(*                                                                         *)
(* The argument: the session that holds the lock is the one that is in a   *)
(* library migration, so what it has found missing stays missing until it  *)
(* applies it (LibraryOk). The console's migration has no such lock: what  *)
(* an instance has found missing there covers what is missing, and may be  *)
(* more (ConsoleOk); Apply is what tells the two apart. Rows are never     *)
(* taken from a table, so what a process has passed stays passed           *)
(* (PassedOk).                                                             *)
(***************************************************************************)
EXTENDS Boot, TLAPS

Migrating == {"readLibrary", "applyLibrary", "unlockLibrary"}
PastLibrary == {"unlockLibrary", "readConsole", "applyConsole", "seedStaff", "serve", "serving"}
PastConsole == {"seedStaff", "serve", "serving"}

\* One version table and its schema: the first n migrations, in order.
Exact(s, rows) == rows = [k \in 1..Len(rows) |-> k] /\ s = 1..Len(rows)

HistoryOk ==
  /\ history["flowcore.flowcore_goose"] = <<>>
  /\ Exact(schema["flowcore"], history["public.flowcore_goose"])
  /\ Exact(schema["console"], history["public.console_goose"])

LibraryOk ==
  \A i \in Instances :
    /\ pc[i] \in Migrating => holder = i
    /\ pc[i] = "applyLibrary" => todo[i] = (1..Migrations) \ schema["flowcore"]

ConsoleOk ==
  \A i \in Instances : pc[i] = "applyConsole" =>
    /\ todo[i] \subseteq {1}
    /\ 1 \in todo[i] \/ 1 \in schema["console"]

PassedOk ==
  \A i \in Instances :
    /\ pc[i] \in PastLibrary => schema["flowcore"] = 1..Migrations
    /\ pc[i] \in PastConsole => schema["console"] = {1}
    /\ pc[i] = "seedStaff" =>
         \E k \in 0..Cast : todo[i] = (1..Cast) \ (1..k) /\ 1..k \subseteq staff
    /\ pc[i] \in {"serve", "serving"} => staff = 1..Cast

Inv == TypeOK /\ HistoryOk /\ LibraryOk /\ ConsoleOk /\ PassedOk /\ LibraryStartsTogether

-----------------------------------------------------------------------------
(* The version tables.                                                     *)

LEMMA RowsOfExact ==
  ASSUME NEW rows \in Seq(Nat), NEW s, Exact(s, rows)
  PROVE  Range(rows) = s
<1>1. DOMAIN rows = 1..Len(rows)
  OBVIOUS
<1>2. \A k \in 1..Len(rows) : rows[k] = k
  BY DEF Exact
<1> QED BY <1>1, <1>2 DEF Exact, Range

\* What is least of the missing is the next one.
LEMMA NextIsLeast ==
  ASSUME NEW n \in Nat, NEW m \in Nat, n < m,
         NEW set, set = (1..m) \ (1..n)
  PROVE  Least(set) = n + 1
<1>1. n + 1 \in set /\ \A w \in set : n + 1 <= w
  OBVIOUS
<1>2. \A v \in set : (\A w \in set : v <= w) => v = n + 1
  BY <1>1
<1> QED BY <1>1, <1>2 DEF Least

LEMMA AppendExact ==
  ASSUME NEW rows \in Seq(Nat), NEW s, Exact(s, rows)
  PROVE  Exact(s \cup {Len(rows) + 1}, Append(rows, Len(rows) + 1))
<1> DEFINE more == Append(rows, Len(rows) + 1)
<1>1. more \in Seq(Nat) /\ Len(more) = Len(rows) + 1 /\ DOMAIN more = 1..Len(rows) + 1
  OBVIOUS
<1>2. \A k \in 1..Len(rows) : rows[k] = k
  BY DEF Exact
<1>3. \A k \in 1..Len(rows) + 1 : more[k] = k
  BY <1>2
<1>4. more = [k \in 1..Len(more) |-> more[k]]
  BY <1>1
<1>5. 1..Len(more) = 1..Len(rows) \cup {Len(rows) + 1}
  BY <1>1
<1> HIDE DEF more
<1>6. more = [k \in 1..Len(more) |-> k]
  BY <1>1, <1>3, <1>4
<1>7. s = 1..Len(rows)
  BY DEF Exact
<1>8. Exact(s \cup {Len(rows) + 1}, more)
  BY <1>5, <1>6, <1>7 DEF Exact
<1> QED BY <1>8 DEF more

LEMMA MissingIs ==
  ASSUME TypeOK, HistoryOk
  PROVE  /\ Missing("flowcore") = (1..Migrations) \ schema["flowcore"]
         /\ Missing("console") = {1} \ schema["console"]
<1>1. /\ history["public.flowcore_goose"] \in Seq(Nat)
      /\ history["public.console_goose"] \in Seq(Nat)
  BY BootAssumption DEF TypeOK, Tables
<1>2. /\ Range(history["public.flowcore_goose"]) = schema["flowcore"]
      /\ Range(history["public.console_goose"]) = schema["console"]
  BY <1>1, RowsOfExact DEF HistoryOk
<1> QED BY <1>2 DEF Missing, Versions, TableOf, LibraryTable

-----------------------------------------------------------------------------
(* The invariant, action by action.                                        *)

LEMMA InitInv == Init => Inv
<1> SUFFICES ASSUME Init PROVE Inv
  OBVIOUS
<1>1. PICK n \in 0..Migrations, m \in {0, 1} :
        /\ schema = [flowcore |-> 1..n, console |-> 1..m]
        /\ history = [t \in Tables |->
             CASE t = "public.flowcore_goose" -> [k \in 1..n |-> k]
               [] t = "public.console_goose" -> [k \in 1..m |-> k]
               [] OTHER -> <<>>]
  BY DEF Init
<1>2. n \in Nat /\ 1..n \subseteq 1..Migrations /\ m \in Nat /\ 1..m \subseteq {1}
      /\ {1} \subseteq 1..Migrations
  BY BootAssumption
<1>3. /\ history["flowcore.flowcore_goose"] = <<>>
      /\ history["public.flowcore_goose"] = [k \in 1..n |-> k]
      /\ history["public.console_goose"] = [k \in 1..m |-> k]
      /\ DOMAIN history = Tables
  BY <1>1 DEF Tables
<1>4. /\ [k \in 1..n |-> k] \in Seq(1..Migrations) /\ Len([k \in 1..n |-> k]) = n
      /\ [k \in 1..m |-> k] \in Seq(1..Migrations) /\ Len([k \in 1..m |-> k]) = m
      /\ <<>> \in Seq(1..Migrations)
  BY <1>2
<1>5. history \in [Tables -> Seq(1..Migrations)]
  BY <1>1, <1>4
<1>6. HistoryOk
  BY <1>1, <1>3, <1>4 DEF HistoryOk, Exact
<1>7. schema \in [flowcore: SUBSET Versions("flowcore"), console: SUBSET Versions("console")]
  BY <1>1, <1>2 DEF Versions
<1>8. TypeOK
  <2>1. /\ pc \in [Instances -> Stages]
        /\ todo \in [Instances -> SUBSET (1..Migrations \cup 1..Cast)]
    BY DEF Init, Stages
  <2>2. ended \in [Instances -> {"never", "fault", "flowcore", "console", "staff"}]
    BY DEF Init
  <2>3. holder \in Instances \cup {None} /\ staff \subseteq 1..Cast /\ faults \in 0..MaxFaults
    BY BootAssumption DEF Init
  <2> QED BY <1>5, <1>7, <2>1, <2>2, <2>3 DEF TypeOK
<1> QED
  BY <1>6, <1>8 DEF Init, Inv, LibraryOk, ConsoleOk, PassedOk, LibraryStartsTogether,
     Migrating, PastLibrary, PastConsole

\* A step of i that leaves the tables and the staff alone keeps what is said of them.
LEMMA TablesKept ==
  ASSUME HistoryOk, UNCHANGED <<schema, history>>
  PROVE  HistoryOk'
BY DEF HistoryOk

LEMMA BootStep ==
  ASSUME Inv, NEW i \in Instances, Boot(i)
  PROVE  Inv'
<1>1. TypeOK'
  BY DEF Inv, TypeOK, Boot, Go, Stages
<1>2. HistoryOk'
  BY TablesKept DEF Inv, Boot
<1> QED
  BY <1>1, <1>2 DEF Inv, TypeOK, Boot, Go, LibraryOk, ConsoleOk, PassedOk,
     LibraryStartsTogether, Migrating, PastLibrary, PastConsole

LEMMA ExitStep ==
  ASSUME Inv, NEW i \in Instances, NEW why \in {"fault", "console"}, Exit(i, why),
         UNCHANGED <<schema, history, staff>>, faults' \in 0..MaxFaults
  PROVE  Inv'
<1>1. TypeOK'
  BY DEF Inv, TypeOK, Exit, Stages
<1>2. HistoryOk'
  BY TablesKept DEF Inv
<1>3. \A j \in Instances \ {i} : pc'[j] = pc[j] /\ todo'[j] = todo[j] /\ ended'[j] = ended[j]
  BY DEF Inv, TypeOK, Exit
<1>4. pc'[i] = "down" /\ ended'[i] = why
  BY DEF Inv, TypeOK, Exit
<1>5. \A j \in Instances \ {i} : holder = j => holder' = j
  BY DEF Exit
<1>6. LibraryOk'
  BY <1>3, <1>4, <1>5 DEF Inv, LibraryOk, Migrating
<1>7. ConsoleOk'
  BY <1>3, <1>4 DEF Inv, ConsoleOk
<1>8. PassedOk'
  BY <1>3, <1>4 DEF Inv, PassedOk, PastLibrary, PastConsole
<1>9. LibraryStartsTogether'
  BY <1>3, <1>4 DEF Inv, LibraryStartsTogether
<1> QED BY <1>1, <1>2, <1>6, <1>7, <1>8, <1>9 DEF Inv

LEMMA FaultStep ==
  ASSUME Inv, NEW i \in Instances, Fault(i)
  PROVE  Inv'
<1>1. faults' \in 0..MaxFaults
  BY BootAssumption DEF Inv, TypeOK, Fault
<1> QED BY <1>1, ExitStep DEF Fault

LEMMA LockStep ==
  ASSUME Inv, NEW i \in Instances, Lock(i)
  PROVE  Inv'
<1>1. TypeOK'
  BY DEF Inv, TypeOK, Lock, Go, Stages
<1>2. HistoryOk'
  BY TablesKept DEF Inv, Lock
<1>3. \A j \in Instances : pc[j] \notin Migrating
  BY BootAssumption DEF Inv, LibraryOk, Lock
<1> QED
  BY <1>1, <1>2, <1>3 DEF Inv, TypeOK, Lock, Go, LibraryOk, ConsoleOk, PassedOk,
     LibraryStartsTogether, Migrating, PastLibrary, PastConsole

LEMMA ReadLibraryStep ==
  ASSUME Inv, NEW i \in Instances, ReadLibrary(i)
  PROVE  Inv'
<1>1. Missing("flowcore") = (1..Migrations) \ schema["flowcore"]
  BY MissingIs DEF Inv
<1>2. TypeOK'
  BY <1>1 DEF Inv, TypeOK, ReadLibrary, Read, Go, Stages
<1>3. HistoryOk'
  BY TablesKept DEF Inv, ReadLibrary, Read
<1> QED
  BY <1>1, <1>2, <1>3 DEF Inv, TypeOK, ReadLibrary, Read, Go, LibraryOk, ConsoleOk, PassedOk,
     LibraryStartsTogether, Migrating, PastLibrary, PastConsole

LEMMA ReadConsoleStep ==
  ASSUME Inv, NEW i \in Instances, ReadConsole(i)
  PROVE  Inv'
<1>1. Missing("console") = {1} \ schema["console"]
  BY MissingIs DEF Inv
<1>2. {1} \subseteq 1..Migrations
  BY BootAssumption
<1>3. TypeOK'
  BY <1>1, <1>2 DEF Inv, TypeOK, ReadConsole, Read, Go, Stages
<1>4. HistoryOk'
  BY TablesKept DEF Inv, ReadConsole, Read
<1> QED
  BY <1>1, <1>3, <1>4 DEF Inv, TypeOK, ReadConsole, Read, Go, LibraryOk, ConsoleOk, PassedOk,
     LibraryStartsTogether, Migrating, PastLibrary, PastConsole

\* The holder of the lock finds what it read still missing: no migration of the library
\* ends it.
LEMMA ApplyLibraryStep ==
  ASSUME Inv, NEW i \in Instances, ApplyLibrary(i)
  PROVE  Inv'
<1> DEFINE rows == history["public.flowcore_goose"]
           v == Least(todo[i])
<1>1. /\ pc[i] = "applyLibrary" /\ UNCHANGED <<staff, faults>>
      /\ \/ todo[i] = {} /\ Go(i, "unlockLibrary") /\ todo' = [todo EXCEPT ![i] = {}]
            /\ UNCHANGED <<holder, schema, history>>
         \/ /\ todo[i] # {}
            /\ IF v \in schema["flowcore"] /\ v \notin Repeatable
               THEN Exit(i, "flowcore") /\ UNCHANGED <<schema, history>>
               ELSE /\ schema' = [schema EXCEPT !["flowcore"] = @ \cup {v}]
                    /\ history' = [history EXCEPT !["public.flowcore_goose"] = Append(@, v)]
                    /\ todo' = [todo EXCEPT ![i] = @ \ {v}]
                    /\ UNCHANGED <<pc, ended, holder>>
  BY DEF ApplyLibrary, Apply, TableOf, LibraryTable
<1>2. todo[i] = (1..Migrations) \ schema["flowcore"]
  BY <1>1 DEF Inv, LibraryOk
<1>3. rows \in Seq(Nat) /\ Exact(schema["flowcore"], rows) /\ Len(rows) \in Nat
  BY BootAssumption DEF Inv, TypeOK, Tables, HistoryOk
<1>4. \A j \in Instances \ {i} : pc[j] \notin Migrating
  BY <1>1 DEF Inv, LibraryOk, Migrating
<1>5. CASE todo[i] = {}
  <2>1. Go(i, "unlockLibrary") /\ todo' = [todo EXCEPT ![i] = {}]
        /\ UNCHANGED <<holder, schema, history>>
    BY <1>1, <1>5
  <2>2. schema["flowcore"] = 1..Migrations
    BY <1>2, <1>5 DEF Inv, TypeOK, Versions
  <2>3. TypeOK'
    BY <1>1, <2>1 DEF Inv, TypeOK, Go, Stages
  <2>4. HistoryOk'
    BY <2>1, TablesKept DEF Inv
  <2> HIDE DEF rows, v
  <2> QED
    BY <1>1, <2>1, <2>2, <2>3, <2>4 DEF Inv, TypeOK, Go, LibraryOk, ConsoleOk, PassedOk,
       LibraryStartsTogether, Migrating, PastLibrary, PastConsole
<1>6. CASE todo[i] # {}
  <2>1. Len(rows) < Migrations /\ todo[i] = (1..Migrations) \ (1..Len(rows))
    BY <1>2, <1>3, <1>6, BootAssumption DEF Exact
  <2>2. v = Len(rows) + 1
    BY <2>1, <1>3, NextIsLeast, BootAssumption
  <2>3. v \notin schema["flowcore"] /\ v \in 1..Migrations
    BY <2>1, <2>2, <1>3, BootAssumption DEF Exact
  <2> HIDE DEF v
  <2>4. /\ schema' = [schema EXCEPT !["flowcore"] = @ \cup {v}]
        /\ history' = [history EXCEPT !["public.flowcore_goose"] = Append(@, v)]
        /\ todo' = [todo EXCEPT ![i] = @ \ {v}]
        /\ UNCHANGED <<pc, ended, holder, staff, faults>>
    BY <1>1, <1>6, <2>3
  <2>5. /\ schema'["flowcore"] = schema["flowcore"] \cup {v}
        /\ schema'["console"] = schema["console"]
        /\ schema' \in [flowcore: SUBSET Versions("flowcore"), console: SUBSET Versions("console")]
    BY <2>3, <2>4 DEF Inv, TypeOK, Versions
  <2>6. /\ history'["public.flowcore_goose"] = Append(rows, v)
        /\ history'["public.console_goose"] = history["public.console_goose"]
        /\ history'["flowcore.flowcore_goose"] = history["flowcore.flowcore_goose"]
        /\ history' \in [Tables -> Seq(1..Migrations)]
    BY <2>3, <2>4 DEF Inv, TypeOK, Tables
  <2>7. Exact(schema'["flowcore"], history'["public.flowcore_goose"])
    BY <1>3, <2>2, <2>5, <2>6, AppendExact
  <2>8. HistoryOk'
    BY <2>5, <2>6, <2>7 DEF Inv, HistoryOk
  <2>9. TypeOK'
    BY <2>4, <2>5, <2>6 DEF Inv, TypeOK
  <2>10. todo'[i] = (1..Migrations) \ schema'["flowcore"]
         /\ \A j \in Instances \ {i} : todo'[j] = todo[j]
    BY <1>2, <2>4, <2>5 DEF Inv, TypeOK
  <2>11. LibraryOk'
    BY <1>4, <2>4, <2>10 DEF Inv, LibraryOk, Migrating
  <2>12. ConsoleOk'
    BY <1>1, <2>4, <2>5, <2>10 DEF Inv, ConsoleOk
  <2>13. schema["flowcore"] # 1..Migrations
    BY <2>3
  <2>14. PassedOk'
    BY <2>13, <1>1, <2>4, <2>5, <2>10 DEF Inv, PassedOk, PastLibrary, PastConsole
  <2> QED BY <2>4, <2>8, <2>9, <2>11, <2>12, <2>14 DEF Inv, LibraryStartsTogether
<1> QED BY <1>5, <1>6

LEMMA UnlockStep ==
  ASSUME Inv, NEW i \in Instances, Unlock(i)
  PROVE  Inv'
<1>1. TypeOK'
  BY DEF Inv, TypeOK, Unlock, Go, Stages
<1>2. HistoryOk'
  BY TablesKept DEF Inv, Unlock
<1>3. \A j \in Instances \ {i} : pc[j] \notin Migrating
  BY DEF Inv, LibraryOk, Unlock, Migrating
<1> QED
  BY <1>1, <1>2, <1>3 DEF Inv, TypeOK, Unlock, Go, LibraryOk, ConsoleOk, PassedOk,
     LibraryStartsTogether, Migrating, PastLibrary, PastConsole

\* Of two consoles that have found the same migration missing the second is ended; its
\* boot is not past anything it has not done.
LEMMA ApplyConsoleStep ==
  ASSUME Inv, NEW i \in Instances, ApplyConsole(i)
  PROVE  Inv'
<1> DEFINE rows == history["public.console_goose"]
           v == Least(todo[i])
<1>1. /\ pc[i] = "applyConsole" /\ UNCHANGED <<staff, faults>>
      /\ \/ todo[i] = {} /\ Go(i, "seedStaff") /\ todo' = [todo EXCEPT ![i] = 1..Cast]
            /\ UNCHANGED <<holder, schema, history>>
         \/ /\ todo[i] # {}
            /\ IF v \in schema["console"]
               THEN Exit(i, "console") /\ UNCHANGED <<schema, history>>
               ELSE /\ schema' = [schema EXCEPT !["console"] = @ \cup {v}]
                    /\ history' = [history EXCEPT !["public.console_goose"] = Append(@, v)]
                    /\ todo' = [todo EXCEPT ![i] = @ \ {v}]
                    /\ UNCHANGED <<pc, ended, holder>>
  BY DEF ApplyConsole, Apply, TableOf
<1>2. todo[i] \subseteq {1} /\ (1 \in todo[i] \/ 1 \in schema["console"])
  BY <1>1 DEF Inv, ConsoleOk
<1>3. rows \in Seq(Nat) /\ Exact(schema["console"], rows) /\ Len(rows) \in Nat
  BY BootAssumption DEF Inv, TypeOK, Tables, HistoryOk
<1>4. schema["flowcore"] \subseteq 1..Migrations /\ schema["console"] \subseteq {1}
  BY DEF Inv, TypeOK, Versions
<1>5. CASE todo[i] = {}
  <2>1. Go(i, "seedStaff") /\ todo' = [todo EXCEPT ![i] = 1..Cast]
        /\ UNCHANGED <<holder, schema, history>>
    BY <1>1, <1>5
  <2>2. schema["console"] = {1}
    BY <1>2, <1>4, <1>5
  <2>3. TypeOK'
    BY <1>1, <2>1 DEF Inv, TypeOK, Go, Stages
  <2>4. HistoryOk'
    BY <2>1, TablesKept DEF Inv
  <2> HIDE DEF rows, v
  <2>5. 0 \in 0..Cast /\ 1..Cast = (1..Cast) \ (1..0) /\ 1..0 \subseteq staff
    BY BootAssumption
  <2>6. /\ pc'[i] = "seedStaff" /\ todo'[i] = 1..Cast
        /\ \A j \in Instances \ {i} : pc'[j] = pc[j] /\ todo'[j] = todo[j]
    BY <2>1 DEF Inv, TypeOK, Go
  <2>7. \E k \in 0..Cast : todo'[i] = (1..Cast) \ (1..k) /\ 1..k \subseteq staff'
    BY <1>1, <2>5, <2>6
  <2>8. PassedOk'
    BY <1>1, <2>1, <2>2, <2>6, <2>7 DEF Inv, PassedOk, PastLibrary, PastConsole
  <2> QED
    BY <1>1, <2>1, <2>3, <2>4, <2>6, <2>8 DEF Inv, Go, LibraryOk, ConsoleOk,
       LibraryStartsTogether, Migrating
<1>6. CASE todo[i] # {}
  <2>1. todo[i] = {1}
    BY <1>2, <1>6
  <2>2. v = 1
    BY <2>1 DEF Least
  <2> HIDE DEF v
  <2>3. CASE 1 \in schema["console"]
    <3>1. Exit(i, "console") /\ UNCHANGED <<schema, history, staff, faults>>
      BY <1>1, <1>6, <2>2, <2>3
    <3>2. faults' \in 0..MaxFaults
      BY <3>1 DEF Inv, TypeOK
    <3> QED BY <3>1, <3>2, ExitStep
  <2>4. CASE 1 \notin schema["console"]
    <3>1. /\ schema' = [schema EXCEPT !["console"] = @ \cup {1}]
          /\ history' = [history EXCEPT !["public.console_goose"] = Append(@, 1)]
          /\ todo' = [todo EXCEPT ![i] = @ \ {1}]
          /\ UNCHANGED <<pc, ended, holder, staff, faults>>
      BY <1>1, <1>6, <2>2, <2>4
    <3>2. Len(rows) = 0
      BY <1>3, <2>4 DEF Exact
    <3>3. /\ schema'["console"] = schema["console"] \cup {1}
          /\ schema'["flowcore"] = schema["flowcore"]
          /\ schema' \in [flowcore: SUBSET Versions("flowcore"), console: SUBSET Versions("console")]
      BY <3>1 DEF Inv, TypeOK, Versions
    <3>4. 1 \in 1..Migrations
      BY BootAssumption
    <3>5. /\ history'["public.console_goose"] = Append(rows, 1)
          /\ history'["public.flowcore_goose"] = history["public.flowcore_goose"]
          /\ history'["flowcore.flowcore_goose"] = history["flowcore.flowcore_goose"]
          /\ history' \in [Tables -> Seq(1..Migrations)]
      BY <3>1, <3>4 DEF Inv, TypeOK, Tables
    <3> HIDE DEF rows
    <3>6. Exact(schema'["console"], history'["public.console_goose"])
      <4>1. Exact(schema["console"] \cup {Len(rows) + 1}, Append(rows, Len(rows) + 1))
        BY <1>3, AppendExact
      <4>2. Len(rows) + 1 = 1
        BY <3>2
      <4> QED BY <4>1, <4>2, <3>3, <3>5
    <3>7. HistoryOk'
      BY <3>3, <3>5, <3>6 DEF Inv, HistoryOk
    <3>8. TypeOK'
      BY <3>1, <3>3, <3>5 DEF Inv, TypeOK
    <3>9. todo'[i] = {} /\ \A j \in Instances \ {i} : todo'[j] = todo[j]
      BY <2>1, <3>1 DEF Inv, TypeOK
    <3>10. LibraryOk'
      BY <1>1, <3>1, <3>3, <3>9 DEF Inv, LibraryOk
    <3>11. ConsoleOk'
      BY <3>1, <3>3, <3>9 DEF Inv, ConsoleOk
    <3>12. PassedOk'
      BY <1>1, <2>4, <3>1, <3>3, <3>9 DEF Inv, PassedOk, PastLibrary, PastConsole
    <3> QED BY <3>1, <3>7, <3>8, <3>10, <3>11, <3>12 DEF Inv, LibraryStartsTogether
  <2> QED BY <2>3, <2>4
<1> QED BY <1>5, <1>6

LEMMA SeedStaffStep ==
  ASSUME Inv, NEW i \in Instances, SeedStaff(i)
  PROVE  Inv'
<1>1. pc[i] = "seedStaff" /\ UNCHANGED <<schema, history, faults>>
  BY DEF SeedStaff
<1>2. HistoryOk'
  BY <1>1, TablesKept DEF Inv
<1>3. PICK k \in 0..Cast : todo[i] = (1..Cast) \ (1..k) /\ 1..k \subseteq staff
  BY <1>1 DEF Inv, PassedOk
<1>4. CASE todo[i] = {}
  <2>1. Go(i, "serve") /\ UNCHANGED <<staff, todo, holder>>
    BY <1>4 DEF SeedStaff
  <2>2. staff = 1..Cast
    BY <1>3, <1>4 DEF Inv, TypeOK
  <2>3. TypeOK'
    BY <1>1, <2>1 DEF Inv, TypeOK, Go, Stages
  <2> QED
    BY <1>1, <1>2, <2>1, <2>2, <2>3 DEF Inv, TypeOK, Go, LibraryOk, ConsoleOk, PassedOk,
       LibraryStartsTogether, Migrating, PastLibrary, PastConsole
<1>5. CASE todo[i] # {}
  <2> DEFINE v == Least(todo[i])
  <2>1. /\ staff' = staff \cup {v} /\ todo' = [todo EXCEPT ![i] = @ \ {v}]
        /\ UNCHANGED <<pc, ended, holder>>
    BY <1>5 DEF SeedStaff, UpsertMember
  <2>2. k < Cast /\ k \in Nat /\ Cast \in Nat
    BY <1>3, <1>5, BootAssumption
  <2>3. v = k + 1
    BY <1>3, <2>2, NextIsLeast
  <2> HIDE DEF v
  <2>4. /\ v \in 1..Cast /\ k + 1 \in 0..Cast
        /\ todo[i] \ {v} = (1..Cast) \ (1..k + 1) /\ 1..k + 1 = 1..k \cup {v}
    BY <1>3, <2>2, <2>3
  <2>5. TypeOK'
    BY <1>1, <2>1, <2>4 DEF Inv, TypeOK
  <2>6. todo'[i] = todo[i] \ {v} /\ \A j \in Instances \ {i} : todo'[j] = todo[j]
    BY <2>1 DEF Inv, TypeOK
  <2>7. LibraryOk'
    BY <1>1, <2>1, <2>6 DEF Inv, LibraryOk
  <2>8. ConsoleOk'
    BY <1>1, <2>1, <2>6 DEF Inv, ConsoleOk
  <2>9. staff \subseteq staff' /\ staff' \subseteq 1..Cast
    BY <2>1, <2>4 DEF Inv, TypeOK
  <2>10. todo'[i] = (1..Cast) \ (1..k + 1) /\ 1..k + 1 \subseteq staff'
    BY <1>3, <2>1, <2>4, <2>6
  <2>11. ASSUME NEW j \in Instances \ {i}, pc'[j] = "seedStaff"
         PROVE  \E m \in 0..Cast : todo'[j] = (1..Cast) \ (1..m) /\ 1..m \subseteq staff'
    <3>1. PICK m \in 0..Cast : todo[j] = (1..Cast) \ (1..m) /\ 1..m \subseteq staff
      BY <2>1, <2>11 DEF Inv, PassedOk
    <3> QED BY <3>1, <2>6, <2>9
  <2>12. PassedOk'
    BY <1>1, <2>1, <2>4, <2>9, <2>10, <2>11 DEF Inv, PassedOk
  <2> QED BY <1>2, <2>1, <2>5, <2>7, <2>8, <2>12 DEF Inv, LibraryStartsTogether
<1> QED BY <1>4, <1>5

LEMMA ServeStep ==
  ASSUME Inv, NEW i \in Instances, Serve(i)
  PROVE  Inv'
<1>1. TypeOK'
  BY DEF Inv, TypeOK, Serve, Go, Stages
<1>2. HistoryOk'
  BY TablesKept DEF Inv, Serve
<1> QED
  BY <1>1, <1>2 DEF Inv, TypeOK, Serve, Go, LibraryOk, ConsoleOk, PassedOk,
     LibraryStartsTogether, Migrating, PastLibrary, PastConsole

LEMMA StepInv ==
  ASSUME Inv, [Next]_vars
  PROVE  Inv'
<1>1. CASE UNCHANGED vars
  BY <1>1 DEF vars, Inv, TypeOK, HistoryOk, LibraryOk, ConsoleOk, PassedOk, LibraryStartsTogether
<1>2. ASSUME NEW i \in Instances, Advance(i) PROVE Inv'
  BY <1>2, BootStep, LockStep, ReadLibraryStep, ApplyLibraryStep, UnlockStep, ReadConsoleStep,
     ApplyConsoleStep, SeedStaffStep, ServeStep DEF Advance
<1>3. ASSUME NEW i \in Instances, Fault(i) PROVE Inv'
  BY <1>3, FaultStep
<1> QED BY <1>1, <1>2, <1>3 DEF Next

\* Whatever is started, killed and started again, in any order.
THEOREM Invariance == Spec => []Inv
<1>1. Init => Inv
  BY InitInv
<1>2. Inv /\ [Next]_vars => Inv'
  BY StepInv
<1> QED BY <1>1, <1>2, PTL DEF Spec

-----------------------------------------------------------------------------

\* The variables of the boots keep their types (main.go, migrate.go).
THEOREM TypeCorrectness == Spec => []TypeOK
<1>1. Inv => TypeOK
  BY DEF Inv
<1> QED BY <1>1, Invariance, PTL

\* "One wins and migrates, the rest wait and then find nothing to do" (migrate.go): no
\* instance is ever ended by a migration of the library that has run.
THEOREM LibraryStartsTogetherHolds == Spec => []LibraryStartsTogether
<1>1. Inv => LibraryStartsTogether
  BY DEF Inv
<1> QED BY <1>1, Invariance, PTL

\* Both version tables say what has run, once and in order, and the library's is in one
\* place (migrationTableName, goose.NewProvider).
THEOREM HistoryIsExactHolds == Spec => []HistoryIsExact
<1>1. Inv => HistoryIsExact
  <2> SUFFICES ASSUME Inv PROVE HistoryIsExact
    OBVIOUS
  <2>1. /\ history["public.flowcore_goose"] \in Seq(Nat)
        /\ history["public.console_goose"] \in Seq(Nat)
    BY BootAssumption DEF Inv, TypeOK, Tables
  <2>2. /\ Range(history["public.flowcore_goose"]) = schema["flowcore"]
        /\ Range(history["public.console_goose"]) = schema["console"]
    BY <2>1, RowsOfExact DEF Inv, HistoryOk
  <2> QED BY <2>2 DEF Inv, HistoryOk, HistoryIsExact, Exact
<1> QED BY <1>1, Invariance, PTL

\* An instance that serves does so on complete schemas, with the whole cast (main.go).
THEOREM ServesCompleteHolds == Spec => []ServesComplete
<1>1. Inv => ServesComplete
  BY DEF Inv, PassedOk, PastLibrary, PastConsole, ServesComplete, Versions
<1> QED BY <1>1, Invariance, PTL

=============================================================================
