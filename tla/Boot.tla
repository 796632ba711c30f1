-------------------------------- MODULE Boot --------------------------------
(***************************************************************************)
(* Starting the client (src/client/main.go): several instances over one    *)
(* database apply the library's schema (src/migrate.go), then the          *)
(* console's (src/client/internal/store/migrate.go), seed the staff and    *)
(* serve. Any step ends the process when it fails; the process can be      *)
(* started again.                                                          *)
(*                                                                         *)
(* goose, which both migrations call, is modelled from how they use it: it *)
(* makes sure of its version table, reads which migrations are in it, and  *)
(* applies the others in order, each with its row in the table in one      *)
(* transaction. Only the library gives it a session lock to hold.          *)
(***************************************************************************)
EXTENDS Naturals, Sequences, SequencesExt

CONSTANTS
  Instances,   \* processes of the client
  Migrations,  \* the library's migrations are 1..Migrations; the console has one
  Repeatable,  \* those of the library whose DDL can run twice
  Cast,        \* the staff members are 1..Cast
  MaxFaults,   \* bound: processes that are killed, or statements that are lost
  None

ASSUME BootAssumption ==
  /\ Migrations \in Nat \ {0} /\ Cast \in Nat /\ MaxFaults \in Nat
  /\ Repeatable \subseteq 1..Migrations
  /\ None \notin Instances

VARIABLES
  pc,       \* pc[i]: what instance i does next
  todo,     \* todo[i]: the migrations i has found missing, or the staff left to seed
  holder,   \* the session that has the library's advisory lock
  schema,   \* schema[s]: the migrations of s whose DDL has run
  history,  \* history[t]: the rows of version table t, in the order they came
  staff,    \* the rows of console.staff
  ended,    \* ended[i]: why i's last process ended
  faults

vars == <<pc, todo, holder, schema, history, staff, ended, faults>>

Stages == {"down", "lockLibrary", "readLibrary", "applyLibrary", "unlockLibrary",
           "readConsole", "applyConsole", "seedStaff", "serve", "serving"}

\* The library's table where goose would look for it in a later run of a role named
\* flowcore, were it not qualified; and the two in use.
Tables == {"flowcore.flowcore_goose", "public.flowcore_goose", "public.console_goose"}

Versions(s) == IF s = "flowcore" THEN 1..Migrations ELSE {1}

\* Mutant: a name that is not qualified is looked up in the role's own schema, once
\* there is one.
LibraryTableInPath(done) ==
  IF done = {} THEN "public.flowcore_goose" ELSE "flowcore.flowcore_goose"

\* migrationTableName, whatever schema has been created by now.
LibraryTable(done) == "public.flowcore_goose"

TableOf(s) == IF s = "flowcore" THEN LibraryTable(schema[s]) ELSE "public.console_goose"

-----------------------------------------------------------------------------
(* The process.                                                            *)

\* The process ends; the database releases what its sessions hold.
Exit(i, why) ==
  /\ pc' = [pc EXCEPT ![i] = "down"]
  /\ ended' = [ended EXCEPT ![i] = why]
  /\ todo' = [todo EXCEPT ![i] = {}]
  /\ holder' = IF holder = i THEN None ELSE holder

Go(i, stage) == pc' = [pc EXCEPT ![i] = stage] /\ UNCHANGED ended

Boot(i) ==
  /\ pc[i] = "down"
  /\ Go(i, "lockLibrary")
  /\ UNCHANGED <<todo, holder, schema, history, staff, faults>>

\* Mutant: what fails is logged, and the process goes on.
FaultLogged(i) ==
  /\ pc[i] = "seedStaff" /\ faults < MaxFaults
  /\ faults' = faults + 1
  /\ Go(i, "serve")
  /\ UNCHANGED <<todo, holder, schema, history, staff>>

\* A statement fails or the process is killed, wherever it is.
Fault(i) ==
  /\ pc[i] # "down" /\ faults < MaxFaults
  /\ faults' = faults + 1
  /\ Exit(i, "fault")
  /\ UNCHANGED <<schema, history, staff>>

-----------------------------------------------------------------------------
(* Migrations.                                                             *)

\* Mutant: nobody waits.
LockNow(i) ==
  /\ pc[i] = "lockLibrary"
  /\ holder' = i
  /\ Go(i, "readLibrary")
  /\ UNCHANGED <<todo, schema, history, staff, faults>>

\* One instance wins, the rest wait.
Lock(i) ==
  /\ pc[i] = "lockLibrary" /\ holder = None
  /\ holder' = i
  /\ Go(i, "readLibrary")
  /\ UNCHANGED <<todo, schema, history, staff, faults>>

\* Mutant: the row goose starts its table with is taken for a migration.
MissingFromZero(s) == ({0} \cup Versions(s)) \ Range(history[TableOf(s)])

\* What goose finds not applied.
Missing(s) == Versions(s) \ Range(history[TableOf(s)])

Read(i, s, stage, next) ==
  /\ pc[i] = stage
  /\ todo' = [todo EXCEPT ![i] = Missing(s)]
  /\ Go(i, next)
  /\ UNCHANGED <<holder, schema, history, staff, faults>>

Least(set) == CHOOSE v \in set : \A w \in set : v <= w

\* The next migration, in a transaction with its row: DDL that has run fails.
\* When none is left, the process goes on to `next`, to do `work` there.
Apply(i, s, stage, next, work) ==
  /\ pc[i] = stage
  /\ \/ /\ todo[i] = {}
        /\ Go(i, next)
        /\ todo' = [todo EXCEPT ![i] = work]
        /\ UNCHANGED <<holder, schema, history>>
     \/ /\ todo[i] # {}
        /\ LET v == Least(todo[i]) IN
           IF v \in schema[s] /\ (s = "console" \/ v \notin Repeatable)
           THEN Exit(i, s) /\ UNCHANGED <<schema, history>>
           ELSE /\ schema' = [schema EXCEPT ![s] = @ \cup {v}]
                /\ history' = [history EXCEPT ![TableOf(s)] = Append(@, v)]
                /\ todo' = [todo EXCEPT ![i] = @ \ {v}]
                /\ UNCHANGED <<pc, ended, holder>>
  /\ UNCHANGED <<staff, faults>>

\* Migrate of the library ...
ReadLibrary(i) == Read(i, "flowcore", "readLibrary", "applyLibrary")
ApplyLibrary(i) == Apply(i, "flowcore", "applyLibrary", "unlockLibrary", {})
Unlock(i) ==
  /\ pc[i] = "unlockLibrary"
  /\ holder' = None
  /\ Go(i, "readConsole")
  /\ UNCHANGED <<todo, schema, history, staff, faults>>

\* ... and of the console, which takes no lock.
ReadConsole(i) == Read(i, "console", "readConsole", "applyConsole")
ApplyConsole(i) == Apply(i, "console", "applyConsole", "seedStaff", 1..Cast)

-----------------------------------------------------------------------------
(* The staff, and serving.                                                 *)

\* Mutant: an insert without on conflict.
InsertMember(i, member) ==
  /\ staff' = staff \cup {member}
  /\ IF member \in staff THEN Exit(i, "staff")
     ELSE todo' = [todo EXCEPT ![i] = @ \ {member}] /\ UNCHANGED <<pc, ended, holder>>

\* A member who is there already is written again.
UpsertMember(i, member) ==
  /\ staff' = staff \cup {member}
  /\ todo' = [todo EXCEPT ![i] = @ \ {member}]
  /\ UNCHANGED <<pc, ended, holder>>

SeedStaff(i) ==
  /\ pc[i] = "seedStaff"
  /\ IF todo[i] = {}
     THEN Go(i, "serve") /\ UNCHANGED <<staff, todo, holder>>
     ELSE UpsertMember(i, Least(todo[i]))
  /\ UNCHANGED <<schema, history, faults>>

\* The janitor and the dispatcher are started, then the server listens.
Serve(i) ==
  /\ pc[i] = "serve"
  /\ Go(i, "serving")
  /\ UNCHANGED <<todo, holder, schema, history, staff, faults>>

-----------------------------------------------------------------------------
\* The database may be new, or have the schema of an earlier release.
Init ==
  /\ \E n \in 0..Migrations, m \in {0, 1} :
       /\ schema = [flowcore |-> 1..n, console |-> 1..m]
       /\ history = [t \in Tables |->
            CASE t = "public.flowcore_goose" -> [k \in 1..n |-> k]
              [] t = "public.console_goose" -> [k \in 1..m |-> k]
              [] OTHER -> <<>>]
  /\ staff = {}
  /\ pc = [i \in Instances |-> "down"]
  /\ todo = [i \in Instances |-> {}]
  /\ holder = None
  /\ ended = [i \in Instances |-> "never"]
  /\ faults = 0

Advance(i) ==
  \/ Boot(i) \/ Lock(i) \/ ReadLibrary(i) \/ ApplyLibrary(i) \/ Unlock(i)
  \/ ReadConsole(i) \/ ApplyConsole(i) \/ SeedStaff(i) \/ Serve(i)

Next == \E i \in Instances : Advance(i) \/ Fault(i)

Spec == Init /\ [][Next]_vars

\* Every instance goes on while it can, and is started again after it has ended.
FairSpec == Spec /\ \A i \in Instances : WF_vars(Advance(i))

(***************************************************************************)
(* Properties.                                                             *)
(***************************************************************************)

\* The variables have the values their declarations name.
TypeOK ==
  /\ pc \in [Instances -> Stages]
  /\ todo \in [Instances -> SUBSET (1..Migrations \cup 1..Cast)]
  /\ holder \in Instances \cup {None}
  /\ schema \in [flowcore: SUBSET Versions("flowcore"), console: SUBSET Versions("console")]
  /\ history \in [Tables -> Seq(1..Migrations)]
  /\ staff \subseteq 1..Cast
  /\ ended \in [Instances -> {"never", "fault", "flowcore", "console", "staff"}]
  /\ faults \in 0..MaxFaults

\* "One wins and migrates, the rest wait and then find nothing to do" (migrate.go):
\* no instance is ever ended by a library migration that another one has run,
\* wherever processes are killed while they hold the lock.
LibraryStartsTogether == \A i \in Instances : ended[i] # "flowcore"

\* A version table says what has run: every migration once, in order, none without
\* its DDL, across crashes, restarts and the schema that appears meanwhile; and the
\* library's is in one place.
HistoryIsExact ==
  /\ history["flowcore.flowcore_goose"] = <<>>
  /\ \A s \in {"flowcore", "console"} :
       LET rows == history[IF s = "flowcore" THEN "public.flowcore_goose"
                           ELSE "public.console_goose"]
       IN rows = [k \in 1..Len(rows) |-> k] /\ schema[s] = Range(rows)

\* Requests are served on complete schemas with the whole cast, by an instance that
\* may have found any part of them done by others.
ServesComplete ==
  \A i \in Instances : pc[i] = "serving" =>
    /\ \A s \in {"flowcore", "console"} : schema[s] = Versions(s)
    /\ staff = 1..Cast

\* Wherever a boot was cut short, by a fault or by another console's migration, the
\* boots after it get through: in the end every instance serves.
EveryInstanceServes == \A i \in Instances : <>[](pc[i] = "serving")

=============================================================================
