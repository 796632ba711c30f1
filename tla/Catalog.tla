------------------------------ MODULE Catalog ------------------------------
(***************************************************************************)
(* The Catalog (src/catalog.go, store_*_definition.go, errmap.go): the     *)
(* editing of workflow definitions by concurrent callers.                  *)
(*                                                                         *)
(* Every write but Create is one SQL statement in a transaction of its own,*)
(* and what Create writes is seen by nobody before its commit: each takes  *)
(* effect in one step. The constraints of migration 00001 look at the row  *)
(* that is written, or at those that refer to the row that is removed,     *)
(* never at the whole database. AddAction reads before it writes, and Get  *)
(* reads table by table: other calls come in between.                      *)
(***************************************************************************)
EXTENDS Naturals, Sequences

CONSTANTS
  DefId, StatusId, StepId, ActionId,
  Names,    \* names in lower case, which is what the name indexes compare
  Routes,   \* the routings callers ask for: [next, terminal] records
  Trees,    \* what callers pass to Create: definitions with all their parts
  Adders,   \* callers that are in AddAction
  Readers,  \* callers that are in Get
  MaxEdits, \* bound: writes that change something
  None

ASSUME CatalogAssumption ==
  /\ MaxEdits \in Nat
  /\ Adders \cap Readers = {}
  /\ Routes \subseteq [next: StepId \cup {None}, terminal: StatusId \cup {None}]
  /\ None \notin DefId \cup StatusId \cup StepId \cup ActionId \cup Names

StatusPart == [id: StatusId, name: Names]
StepPart == [id: StepId, name: Names, status: StatusId]
ActionPart == [id: ActionId, name: Names, step: StepId,
               next: StepId \cup {None}, terminal: StatusId \cup {None}]

TreeSteps(tree) == {tree.steps[i] : i \in DOMAIN tree.steps}

\* Actions stand inside their steps.
ASSUME TreesAssumption ==
  \A tree \in Trees :
    /\ tree \in [def: DefId, name: Names, entry: StepId \cup {None},
                statuses: SUBSET StatusPart, steps: Seq(StepPart),
                actions: SUBSET ActionPart]
    /\ \A a \in tree.actions : \E t \in TreeSteps(tree) : t.id = a.step

\* Null is not a row, nor a request.
ASSUME RowsAssumption ==
  None \notin [name: Names, entry: StepId] \cup [def: DefId, name: Names]
    \cup [def: DefId, name: Names, status: StatusId]
    \cup [def: DefId, name: Names, step: StepId,
          next: StepId \cup {None}, terminal: StatusId \cup {None}]
    \cup [step: StepId, def: DefId]
    \cup [def: DefId, name: Names \cup {None}, entry: StepId \cup {None}]

VARIABLES
  db,       \* the committed tables, each a function from ids to rows
  used,     \* the ids that have been given out: a uuid is not given out twice
  edits,    \* the writes that have changed something
  adding,   \* adding[p]: the step p's AddAction has read, with its definition
  reading,  \* reading[p]: the snapshot p's Get reads from, and its answer
  reply     \* how the last write ended

vars == <<db, used, edits, adding, reading, reply>>

DefinitionRow == [name: Names, entry: StepId]
StatusRow == [def: DefId, name: Names]
StepRow == [def: DefId, name: Names, status: StatusId]
ActionRow == [def: DefId, name: Names, step: StepId,
              next: StepId \cup {None}, terminal: StatusId \cup {None}]

-----------------------------------------------------------------------------
(* The tables.                                                             *)

\* Row id of a table, in definition d: what the composite foreign keys ask for.
In(table, id, d) == table[id] # None /\ table[id].def = d

\* The name indexes: per definition, and per step for actions.
NameTaken(table, id, row) ==
  \E x \in DOMAIN table \ {id} :
    In(table, x, row.def) /\ table[x].name = row.name

ActionNameTaken(table, id, row) ==
  \E a \in ActionId \ {id} :
    table[a] # None /\ table[a].step = row.step /\ table[a].name = row.name

ExactlyOneTarget(row) == (row.next = None) # (row.terminal = None)

\* Mutant: the foreign key of the next step looks at the id alone.
RoutesAnywhere(b, row) ==
  /\ row.next # None => b.step[row.next] # None
  /\ row.terminal # None => In(b.status, row.terminal, row.def)

\* The routing of an action stays in its definition; a null is not checked.
RoutesTo(b, row) ==
  /\ row.next # None => In(b.step, row.next, row.def)
  /\ row.terminal # None => In(b.status, row.terminal, row.def)

\* The rows that stand in the way of removing a status, or a step.
StatusReferenced(b, s) ==
  \/ \E t \in StepId : b.step[t] # None /\ b.step[t].status = s
  \/ \E a \in ActionId : b.action[a] # None /\ b.action[a].terminal = s

StepReferenced(b, t) ==
  \/ \E a \in ActionId : b.action[a] # None /\ b.action[a].next = t
  \/ \E d \in DefId : b.definition[d] # None /\ b.definition[d].entry = t

Without(table, gone) == [id \in DOMAIN table |-> IF id \in gone THEN None ELSE table[id]]

-----------------------------------------------------------------------------
(* The error mapper: from the constraint that refuses a statement to the   *)
(* error the caller gets.                                                  *)

ReferenceFKs == {"fkStepStatus", "fkActionTarget", "fkInitialStep"}
ParentFKs == {"fkStatusWorkflow", "fkStepWorkflow", "fkActionStep"}

MapCommon(c) ==
  IF c = "ixName" THEN "DuplicateName"
  ELSE IF c = "ckActionTerminalXOR" THEN "InvalidAction" ELSE "Unmapped"

MapWrite(c) == IF c \in ReferenceFKs THEN "CrossDefinition" ELSE MapCommon(c)

\* Mutant: inserts go through the mapper of updates.
MapInsertAsWrite(c) == MapWrite(c)

MapInsert(c) == IF c \in ParentFKs THEN "NotFound" ELSE MapWrite(c)
MapDelete(c) == IF c \in ReferenceFKs THEN "Referenced" ELSE MapCommon(c)

ErrorOf(kind, c) ==
  CASE kind = "insert" -> MapInsert(c)
    [] kind = "update" -> MapWrite(c)
    [] kind = "delete" -> MapDelete(c)

\* A call ends in success, or in an error about row `id` of a table.
Success == [error |-> "Ok", table |-> None, id |-> None, row |-> None]
Reply(error, table, id, row) ==
  reply' = [error |-> error, table |-> table, id |-> id, row |-> row]

\* A statement that leads to b: the first constraint in `checks` that is violated
\* refuses it, checks before unique indexes before immediate before deferred
\* foreign keys.
Statement(b, checks, kind, table, id, row) ==
  LET violated == {i \in DOMAIN checks : checks[i][2]} IN
  \/ /\ violated = {}
     /\ db' = b
     /\ reply' = Success
  \/ \E i \in violated :
       /\ \A j \in violated : i <= j
       /\ db' = db
       /\ Reply(ErrorOf(kind, checks[i][1]), table, id, row)

Missing(table, id) ==
  /\ db[table][id] = None
  /\ Reply("NotFound", table, id, None)
  /\ UNCHANGED <<db, used, edits>>

\* A statement that changes something is an edit, and gives out the ids it stores.
Count(ids) ==
  \/ db' = db /\ UNCHANGED <<used, edits>>
  \/ /\ db' # db /\ edits < MaxEdits
     /\ edits' = edits + 1
     /\ used' = used \cup ids

-----------------------------------------------------------------------------
(* Create.                                                                 *)

TreeIds(tree) ==
  {tree.def} \cup {s.id : s \in tree.statuses} \cup {t.id : t \in TreeSteps(tree)}
    \cup {a.id : a \in tree.actions}

\* An id of the tree is a row's already, or two of its parts have one id.
KeyTaken(tree) ==
  \/ db.definition[tree.def] # None
  \/ \E s \in tree.statuses :
       db.status[s.id] # None \/ \E r \in tree.statuses \ {s} : r.id = s.id
  \/ \E i \in DOMAIN tree.steps :
       \/ db.step[tree.steps[i].id] # None
       \/ \E j \in DOMAIN tree.steps \ {i} : tree.steps[i].id = tree.steps[j].id
  \/ \E a \in tree.actions :
       db.action[a.id] # None \/ \E c \in tree.actions \ {a} : c.id = a.id

\* Mutant: the entry step is what the caller says.
EntryGiven(tree) == tree.entry

\* fillIDs, and the entry step, which is the first step unless the caller says.
EntryOf(tree) == IF tree.entry = None THEN tree.steps[1].id ELSE tree.entry

\* The table with the new rows, pairs of an id and a row, in it.
Filled(table, new) ==
  [id \in DOMAIN table |->
     IF \E p \in new : p[1] = id THEN (CHOOSE p \in new : p[1] = id)[2] ELSE table[id]]

Created(tree) ==
  [definition |-> [db.definition EXCEPT ![tree.def] =
                    [name |-> tree.name, entry |-> EntryOf(tree)]],
   status |-> Filled(db.status,
     {<<r.id, [def |-> tree.def, name |-> r.name]>> : r \in tree.statuses}),
   step |-> Filled(db.step,
     {<<r.id, [def |-> tree.def, name |-> r.name, status |-> r.status]>> : r \in TreeSteps(tree)}),
   action |-> Filled(db.action,
     {<<r.id, [def |-> tree.def, name |-> r.name, step |-> r.step,
               next |-> r.next, terminal |-> r.terminal]>> : r \in tree.actions})]

\* Two parts of one definition, or two actions of one step, have one name.
SameName(parts) == \E x, y \in parts : x # y /\ x.name = y.name
NamedTwice(tree) ==
  \/ SameName(tree.statuses) \/ SameName(TreeSteps(tree))
  \/ \E t \in TreeSteps(tree) : SameName({a \in tree.actions : a.step = t.id})

\* What is refused while the rows go in. A name index has only the tree's own rows
\* to compare, the definition being new.
RefusedRows(tree) ==
  {c \in {"primaryKey", "ixName", "ckActionTerminalXOR"} :
     CASE c = "primaryKey" -> KeyTaken(tree)
       [] c = "ixName" -> NamedTwice(tree)
       [] OTHER -> \E a \in tree.actions : ~ExactlyOneTarget(a)}

\* What is refused at the commit: a reference that leads out of the tree.
Dangling(tree, b) ==
  \/ \E t \in TreeSteps(tree) : ~In(b.status, t.status, tree.def)
  \/ \E a \in tree.actions : ~RoutesTo(b, b.action[a.id])

\* Ids a caller supplies are kept, new or not. The pre-flight checks, then row by
\* row, the definition's own first, then the deferred keys at the commit.
Create(tree) ==
  LET Refuse(e) == Reply(e, "tree", tree.def, tree) /\ UNCHANGED <<db, used, edits>>
      b == Created(tree)
      refused == IF db.definition[tree.def] # None THEN {"primaryKey"} ELSE RefusedRows(tree)
  IN /\ \/ tree.steps = <<>> /\ Refuse("NoSteps")
        \/ /\ tree.steps # <<>>
           /\ tree.entry \notin {None} \cup {t.id : t \in TreeSteps(tree)}
           /\ Refuse("InitialStepNotInTree")
        \/ /\ tree.steps # <<>>
           /\ tree.entry \in {None} \cup {t.id : t \in TreeSteps(tree)}
           /\ \/ \E c \in refused : Refuse(MapInsert(c))
              \/ refused = {} /\ Dangling(tree, b) /\ Refuse(MapWrite("fkActionTarget"))
              \/ /\ refused = {} /\ ~Dangling(tree, b)
                 /\ db' = b
                 /\ Count(TreeIds(tree))
                 /\ reply' = Success
     /\ UNCHANGED <<adding, reading>>

-----------------------------------------------------------------------------
(* Definitions and statuses.                                               *)

\* Name and entry step at once; the step has to be one of the definition's own.
UpdateWorkflowDefinition(d, n, t) ==
  LET row == [name |-> n, entry |-> t] IN
  /\ \/ Missing("definition", d)
     \/ /\ db.definition[d] # None
        /\ Statement([db EXCEPT !.definition[d] = row],
             << <<"fkInitialStep", ~In(db.step, t, d)>> >>,
             "update", "definition", d, row)
        /\ Count({})
  /\ UNCHANGED <<adding, reading>>

\* The cascades take the statuses, steps and actions; the deferred keys find
\* nothing left that refers to them.
DeleteWorkflowDefinition(d) ==
  LET b == [definition |-> [db.definition EXCEPT ![d] = None],
            status |-> Without(db.status, {s \in StatusId : In(db.status, s, d)}),
            step |-> Without(db.step, {t \in StepId : In(db.step, t, d)}),
            action |-> Without(db.action, {a \in ActionId : In(db.action, a, d)})]
  IN /\ \/ Missing("definition", d)
        \/ /\ db.definition[d] # None
           /\ Statement(b,
                << <<"fkStepStatus", \E s \in StatusId :
                                       In(db.status, s, d) /\ StatusReferenced(b, s)>>,
                   <<"fkActionTarget", \E t \in StepId :
                                         In(db.step, t, d) /\ StepReferenced(b, t)>> >>,
                "delete", "definition", d, None)
           /\ Count({})
     /\ UNCHANGED <<adding, reading>>

AddStatus(d, s, n) ==
  LET row == [def |-> d, name |-> n] IN
  /\ s \notin used
  /\ Statement([db EXCEPT !.status[s] = row],
       << <<"ixName", NameTaken(db.status, s, row)>>,
          <<"fkStatusWorkflow", db.definition[d] = None>> >>,
       "insert", "status", s, row)
  /\ Count({s})
  /\ UNCHANGED <<adding, reading>>

UpdateStatus(s) ==
  /\ \/ Missing("status", s)
     \/ /\ db.status[s] # None
        /\ \E n \in Names :
           LET row == [db.status[s] EXCEPT !.name = n] IN
           Statement([db EXCEPT !.status[s] = row],
             << <<"ixName", NameTaken(db.status, s, row)>> >>,
             "update", "status", s, row)
        /\ Count({})
  /\ UNCHANGED <<adding, reading>>

DeleteStatus(s) ==
  /\ \/ Missing("status", s)
     \/ /\ db.status[s] # None
        /\ Statement([db EXCEPT !.status[s] = None],
             << <<"fkStepStatus", StatusReferenced(db, s)>> >>,
             "delete", "status", s, None)
        /\ Count({})
  /\ UNCHANGED <<adding, reading>>

-----------------------------------------------------------------------------
(* Steps.                                                                  *)

AddStep(d, t, n, s) ==
  LET row == [def |-> d, name |-> n, status |-> s] IN
  /\ t \notin used
  /\ Statement([db EXCEPT !.step[t] = row],
       << <<"ixName", NameTaken(db.step, t, row)>>,
          <<"fkStepWorkflow", db.definition[d] = None>>,
          <<"fkStepStatus", ~In(db.status, s, d)>> >>,
       "insert", "step", t, row)
  /\ Count({t})
  /\ UNCHANGED <<adding, reading>>

UpdateStep(t) ==
  /\ \/ Missing("step", t)
     \/ /\ db.step[t] # None
        /\ \E n \in Names, s \in StatusId :
           LET row == [db.step[t] EXCEPT !.name = n, !.status = s] IN
           Statement([db EXCEPT !.step[t] = row],
             << <<"ixName", NameTaken(db.step, t, row)>>,
                <<"fkStepStatus", ~In(db.status, s, row.def)>> >>,
             "update", "step", t, row)
        /\ Count({})
  /\ UNCHANGED <<adding, reading>>

\* The cascade takes the step's own actions, a loop onto itself among them.
DeleteStep(t) ==
  LET b == [db EXCEPT !.step[t] = None,
                      !.action = Without(db.action, {a \in ActionId :
                                   db.action[a] # None /\ db.action[a].step = t})]
  IN /\ \/ Missing("step", t)
        \/ /\ db.step[t] # None
           /\ Statement(b, << <<"fkActionTarget", StepReferenced(b, t)>> >>,
                "delete", "step", t, None)
           /\ Count({})
     /\ UNCHANGED <<adding, reading>>

-----------------------------------------------------------------------------
(* Actions.                                                                *)

\* AddAction reads its step, for the definition the step belongs to ...
ReadParent(p, t) ==
  /\ adding[p] = None
  /\ \/ Missing("step", t) /\ UNCHANGED adding
     \/ /\ db.step[t] # None
        /\ adding' = [adding EXCEPT ![p] = [step |-> t, def |-> db.step[t].def]]
        /\ UNCHANGED <<db, used, edits, reply>>
  /\ UNCHANGED reading

\* ... and inserts: the parent key answers for a step that is gone by now.
InsertAction(p, a, n, r) ==
  /\ adding[p] # None
  /\ a \notin used
  /\ LET row == [def |-> adding[p].def, name |-> n, step |-> adding[p].step,
                 next |-> r.next, terminal |-> r.terminal] IN
     Statement([db EXCEPT !.action[a] = row],
       << <<"ckActionTerminalXOR", ~ExactlyOneTarget(row)>>,
          <<"ixName", ActionNameTaken(db.action, a, row)>>,
          <<"fkActionStep", ~In(db.step, row.step, row.def)>>,
          <<"fkActionTarget", ~RoutesTo(db, row)>> >>,
       "insert", "action", a, row)
  /\ Count({a})
  /\ adding' = [adding EXCEPT ![p] = None]
  /\ UNCHANGED reading

UpdateAction(a) ==
  /\ \/ Missing("action", a)
     \/ /\ db.action[a] # None
        /\ \E n \in Names, r \in Routes :
           LET row == [db.action[a] EXCEPT !.name = n, !.next = r.next, !.terminal = r.terminal] IN
           Statement([db EXCEPT !.action[a] = row],
             << <<"ckActionTerminalXOR", ~ExactlyOneTarget(row)>>,
                <<"ixName", ActionNameTaken(db.action, a, row)>>,
                <<"fkActionTarget", ~RoutesTo(db, row)>> >>,
             "update", "action", a, row)
        /\ Count({})
  /\ UNCHANGED <<adding, reading>>

DeleteAction(a) ==
  /\ \/ Missing("action", a)
     \/ /\ db.action[a] # None
        /\ Statement([db EXCEPT !.action[a] = None], <<>>, "delete", "action", a, None)
        /\ Count({})
  /\ UNCHANGED <<adding, reading>>

-----------------------------------------------------------------------------
(* Get: a repeatable-read transaction of four queries.                     *)

\* The parts of definition d in a table, pairs of an id and a row.
PartsOf(table, d) == {<<id, table[id]>> : id \in {x \in DOMAIN table : In(table, x, d)}}

\* What the tables of b say of definition d.
TreeOf(b, d) ==
  [definition |-> b.definition[d], status |-> PartsOf(b.status, d),
   step |-> PartsOf(b.step, d), action |-> PartsOf(b.action, d)]

\* Mutant: under read committed each query sees what is committed by then.
SeenCommitted(p) == TreeOf(db, reading[p].def)

\* What p's queries see: the snapshot its first query took.
Seen(p) == reading[p].snapshot

ReadDefinitionRow(p, d) ==
  /\ reading[p] = None
  /\ db.definition[d] # None
  /\ reading' = [reading EXCEPT ![p] =
       [def |-> d, snapshot |-> TreeOf(db, d),
        answer |-> [definition |-> db.definition[d],
                    status |-> None, step |-> None, action |-> None]]]
  /\ UNCHANGED <<db, used, edits, adding, reply>>

\* Statuses, then steps, then actions.
ReadTable(p) ==
  /\ reading[p] # None
  /\ \E table \in {"status", "step", "action"} :
       /\ reading[p].answer[table] = None
       /\ table = "step" => reading[p].answer["status"] # None
       /\ table = "action" => reading[p].answer["step"] # None
       /\ reading' = [reading EXCEPT ![p].answer[table] = Seen(p)[table]]
  /\ UNCHANGED <<db, used, edits, adding, reply>>

Answered(p) == reading[p] # None /\ reading[p].answer["action"] # None

Return(p) ==
  /\ Answered(p)
  /\ reading' = [reading EXCEPT ![p] = None]
  /\ UNCHANGED <<db, used, edits, adding, reply>>

\* The connection is lost, or the context cancelled: the transaction is undone.
Fail(p) ==
  \/ /\ p \in Adders /\ adding[p] # None
     /\ adding' = [adding EXCEPT ![p] = None]
     /\ UNCHANGED <<db, used, edits, reading, reply>>
  \/ /\ p \in Readers /\ reading[p] # None
     /\ reading' = [reading EXCEPT ![p] = None]
     /\ UNCHANGED <<db, used, edits, adding, reply>>

-----------------------------------------------------------------------------
(* What Start makes of a definition, which it reads with the same queries  *)
(* and the same isolation: the rows of a run, frozen.                      *)

\* What a Go map answers for a key it has not.
Zero == <<"zero">>
ASSUME ZeroAssumption == Zero \notin Names \* no stored name is empty: ck_*_name_len
Lookup(map, key) == IF key \in DOMAIN map THEN map[key] ELSE Zero

\* Mutant: an action keeps the id its target has in the definition.
NextIdKept(stepIds, next) == next

\* Where an action leads among the run's own steps; null stays null.
NextId(stepIds, next) == IF next = None THEN None ELSE Lookup(stepIds, next)

\* buildSnapshot. Every step has its new id before any action is built; an action of
\* a step that was not read is not seen.
BuildSnapshot(tree) ==
  LET stepIds == [t \in {x[1] : x \in tree.step} |-> <<"row", t>>]
      names == [s \in {x[1] : x \in tree.status} |->
                  (CHOOSE x \in tree.status : x[1] = s)[2].name]
      Row(x) == [id |-> stepIds[x[1]], step |-> x[1], status |-> x[2].status,
                 statusName |-> Lookup(names, x[2].status)]
      ActionRowOf(x) ==
        [action |-> x[1], step |-> stepIds[x[2].step], next |-> NextId(stepIds, x[2].next),
         terminal |-> x[2].terminal,
         terminalName |-> IF x[2].terminal = None THEN None
                          ELSE Lookup(names, x[2].terminal)]
      rows == {Row(x) : x \in tree.step}
      entry == IF tree.definition.entry \in DOMAIN stepIds
               THEN CHOOSE row \in rows : row.step = tree.definition.entry
               ELSE [id |-> Zero, step |-> Zero, status |-> Zero, statusName |-> Zero]
  IN [step |-> rows,
      action |-> {ActionRowOf(x) : x \in {y \in tree.action : y[2].step \in DOMAIN stepIds}},
      workflow |-> [status |-> entry.status, statusName |-> entry.statusName],
      firstVisit |-> entry.id]

-----------------------------------------------------------------------------
Init ==
  /\ db = [definition |-> [d \in DefId |-> None], status |-> [s \in StatusId |-> None],
           step |-> [t \in StepId |-> None], action |-> [a \in ActionId |-> None]]
  /\ used = {} /\ edits = 0
  /\ adding = [p \in Adders |-> None]
  /\ reading = [p \in Readers |-> None]
  /\ reply = Success

\* Everything but a replacement of a definition's own row, and Get.
EditParts ==
  \/ \E tree \in Trees : Create(tree)
  \/ \E d \in DefId : DeleteWorkflowDefinition(d)
  \/ \E d \in DefId, s \in StatusId, n \in Names : AddStatus(d, s, n)
  \/ \E s \in StatusId : UpdateStatus(s) \/ DeleteStatus(s)
  \/ \E d \in DefId, t \in StepId, n \in Names, s \in StatusId : AddStep(d, t, n, s)
  \/ \E t \in StepId : UpdateStep(t) \/ DeleteStep(t)
  \/ \E p \in Adders, t \in StepId : ReadParent(p, t)
  \/ \E p \in Adders, a \in ActionId, n \in Names, r \in Routes :
       InsertAction(p, a, n, r)
  \/ \E a \in ActionId : UpdateAction(a) \/ DeleteAction(a)
  \/ \E p \in Adders : Fail(p)

Next ==
  \/ EditParts
  \/ \E d \in DefId, n \in Names, t \in StepId : UpdateWorkflowDefinition(d, n, t)
  \/ \E p \in Readers, d \in DefId : ReadDefinitionRow(p, d)
  \/ \E p \in Readers : ReadTable(p) \/ Return(p) \/ Fail(p)

Spec == Init /\ [][Next]_vars

(***************************************************************************)
(* Properties.                                                             *)
(***************************************************************************)

\* Every table holds rows of its type; a definition's row has an entry step.
TypeOK ==
  /\ db.definition \in [DefId -> DefinitionRow \cup {None}]
  /\ db.status \in [StatusId -> StatusRow \cup {None}]
  /\ db.step \in [StepId -> StepRow \cup {None}]
  /\ db.action \in [ActionId -> ActionRow \cup {None}]
  /\ used \subseteq DefId \cup StatusId \cup StepId \cup ActionId /\ edits \in 0..MaxEdits
  /\ \A p \in Adders : adding[p] \in [step: StepId, def: DefId] \cup {None}

\* Every row of tables b is part of a definition that exists, begins, routes and ends
\* inside it, and has exactly one way to go on; no two siblings share a name.
Whole(b) ==
  /\ \A d \in DefId : b.definition[d] # None => In(b.step, b.definition[d].entry, d)
  /\ \A s \in StatusId : LET row == b.status[s] IN row # None =>
       b.definition[row.def] # None /\ ~NameTaken(b.status, s, row)
  /\ \A t \in StepId : LET row == b.step[t] IN row # None =>
       /\ b.definition[row.def] # None /\ ~NameTaken(b.step, t, row)
       /\ In(b.status, row.status, row.def)
  /\ \A a \in ActionId : LET row == b.action[a] IN row # None =>
       /\ In(b.step, row.step, row.def) /\ ~ActionNameTaken(b.action, a, row)
       /\ ExactlyOneTarget(row)
       /\ row.next # None => In(b.step, row.next, row.def)
       /\ row.terminal # None => In(b.status, row.terminal, row.def)

\* What a stored definition promises to Start, which copies it: no order of edits,
\* cascades and deletions by concurrent callers leaves a definition in pieces.
DefinitionsAreWhole == Whole(db)

\* What Create refuses a tree for is wrong with that tree. Only a primary key has no
\* error of its own.
TreeErrorIsTrue(e, tree) ==
  LET status == {s.id : s \in tree.statuses}
      step == {t.id : t \in TreeSteps(tree)}
  IN CASE e = "NoSteps" -> step = {}
       [] e = "InitialStepNotInTree" -> tree.entry # None /\ tree.entry \notin step
       [] e = "Unmapped" -> KeyTaken(tree)
       [] e = "DuplicateName" -> NamedTwice(tree)
       [] e = "InvalidAction" -> \E a \in tree.actions : ~ExactlyOneTarget(a)
       [] e = "CrossDefinition" ->
            \/ \E t \in TreeSteps(tree) : t.status \notin status
            \/ \E a \in tree.actions :
                 a.next \notin step \cup {None} \/ a.terminal \notin status \cup {None}
       [] OTHER -> FALSE

\* An error says what is the case: what is not found is not there, what is still
\* referenced has a referrer that the call would have left behind, a duplicate has a
\* sibling, a cross-definition reference does not resolve within the definition. A
\* parent deleted while AddAction was under way reads as not found (catalog.go).
ErrorIsTrue(e, table, id, row) == e # "Ok" =>
  IF table = "tree" THEN TreeErrorIsTrue(e, row) ELSE
  CASE e = "NotFound" ->
         IF row = None THEN db[table][id] = None
         ELSE IF table = "action" THEN ~In(db.step, row.step, row.def)
         ELSE db.definition[row.def] = None
    [] e = "Referenced" ->
         \/ table = "status" /\ StatusReferenced(db, id)
         \/ table = "step" /\ StepReferenced(db, id)
    [] e = "DuplicateName" ->
         \/ table \in {"status", "step"} /\ NameTaken(db[table], id, row)
         \/ table = "action" /\ ActionNameTaken(db.action, id, row)
    [] e = "CrossDefinition" ->
         CASE table = "definition" -> row # None /\ ~In(db.step, row.entry, id)
           [] table = "step" -> ~In(db.status, row.status, row.def)
           [] OTHER -> /\ row.next # None => ~In(db.step, row.next, row.def)
                       /\ row.terminal # None => ~In(db.status, row.terminal, row.def)
    [] e = "InvalidAction" -> ~ExactlyOneTarget(row)
    [] OTHER -> FALSE

ErrorsAreTrue ==
  [][reply' # reply => ErrorIsTrue(reply'.error, reply'.table, reply'.id, reply'.row)]_vars

\* Get answers with a definition that was whole at some time, whatever is edited,
\* removed or added between its four queries.
GetIsWhole ==
  \A p \in Readers : Answered(p) =>
    LET answer == reading[p].answer
        status == {x[1] : x \in answer["status"]}
        step == {x[1] : x \in answer["step"]}
    IN /\ answer["definition"].entry \in step
       /\ \A x \in answer["step"] : x[2].status \in status
       /\ \A x \in answer["action"] :
            /\ x[2].step \in step
            /\ x[2].next \in step \cup {None}
            /\ x[2].terminal \in status \cup {None}

\* What Start freezes of a tree is closed: it begins on a step of its own, in that
\* step's status, every status has its name, every action of the tree is there and
\* either leads to a step of the same run or ends it.
Closed(tree) ==
  LET frozen == BuildSnapshot(tree)
      step == {row.id : row \in frozen.step}
  IN /\ \E row \in frozen.step :
          /\ frozen.firstVisit = row.id
          /\ frozen.workflow = [status |-> row.status, statusName |-> row.statusName]
     /\ \A row \in frozen.step : row.statusName # Zero
     /\ {row.action : row \in frozen.action} = {x[1] : x \in tree.action}
     /\ \A row \in frozen.action :
          /\ row.step \in step
          /\ \/ row.next \in step /\ row.terminal = None /\ row.terminalName = None
             \/ row.next = None /\ row.terminal # None /\ row.terminalName \in Names

\* "Neither lookup can miss" (buildSnapshot), whatever Start reads while the
\* definition is edited.
SnapshotIsClosed == \A p \in Readers : Answered(p) => Closed(reading[p].answer)

=============================================================================
