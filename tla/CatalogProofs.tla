---------------------------- MODULE CatalogProofs ----------------------------
(***************************************************************************)
(* The Catalog's promise, for any definitions, callers and trees: whatever *)
(* calls are made in whatever order, what is stored is whole, and so is    *)
(* what Get reads and what Start copies, and an error is true of the call. *)
(*                                                                         *)
(* Whole is kept by one row put or removed at a time, so the first part is *)
(* about two states of the tables, b and c, whatever call leads from one   *)
(* to the other; then each call is shown to be such a change.              *)
(***************************************************************************)
EXTENDS ConsoleEdits, TLAPS

Tables == [definition: [DefId -> DefinitionRow \cup {None}],
           status: [StatusId -> StatusRow \cup {None}],
           step: [StepId -> StepRow \cup {None}],
           action: [ActionId -> ActionRow \cup {None}]]

\* A row's id has been given out.
Known(b, ids) ==
  /\ \A s \in StatusId : b.status[s] # None => s \in ids
  /\ \A t \in StepId : b.step[t] # None => t \in ids
  /\ \A a \in ActionId : b.action[a] # None => a \in ids

LEMMA NoneIsNoRow == None \notin DefinitionRow \cup StatusRow \cup StepRow \cup ActionRow
BY RowsAssumption DEF DefinitionRow, StatusRow, StepRow, ActionRow

LEMMA NoneIsNoId ==
  None \notin DefId /\ None \notin StatusId /\ None \notin StepId /\ None \notin ActionId
BY CatalogAssumption

-----------------------------------------------------------------------------
(* One table changes in one row.                                           *)

LEMMA DefinitionChange ==
  ASSUME NEW b \in Tables, NEW d \in DefId, NEW row \in DefinitionRow \cup {None}
  PROVE  LET c == [b EXCEPT !.definition[d] = row] IN
         /\ c \in Tables /\ c.definition = [b.definition EXCEPT ![d] = row]
         /\ c.status = b.status /\ c.step = b.step /\ c.action = b.action
BY DEF Tables

LEMMA StatusChange ==
  ASSUME NEW b \in Tables, NEW s \in StatusId, NEW row \in StatusRow \cup {None}
  PROVE  LET c == [b EXCEPT !.status[s] = row] IN
         /\ c \in Tables /\ c.status = [b.status EXCEPT ![s] = row]
         /\ c.definition = b.definition /\ c.step = b.step /\ c.action = b.action
BY DEF Tables

LEMMA StepChange ==
  ASSUME NEW b \in Tables, NEW t \in StepId, NEW row \in StepRow \cup {None}
  PROVE  LET c == [b EXCEPT !.step[t] = row] IN
         /\ c \in Tables /\ c.step = [b.step EXCEPT ![t] = row]
         /\ c.definition = b.definition /\ c.status = b.status /\ c.action = b.action
BY DEF Tables

LEMMA ActionChange ==
  ASSUME NEW b \in Tables, NEW a \in ActionId, NEW row \in ActionRow \cup {None}
  PROVE  LET c == [b EXCEPT !.action[a] = row] IN
         /\ c \in Tables /\ c.action = [b.action EXCEPT ![a] = row]
         /\ c.definition = b.definition /\ c.status = b.status /\ c.step = b.step
BY DEF Tables

-----------------------------------------------------------------------------
(* What keeps the tables whole.                                            *)

LEMMA DefinitionPut ==
  ASSUME NEW b \in Tables, NEW c \in Tables, Whole(b),
         NEW d \in DefId, NEW row \in DefinitionRow, In(b.step, row.entry, d),
         c.definition = [b.definition EXCEPT ![d] = row],
         c.status = b.status, c.step = b.step, c.action = b.action
  PROVE  Whole(c)
<1>1. \A x \in DefId : b.definition[x] # None => c.definition[x] # None
  BY NoneIsNoRow DEF Tables
<1>2. \A x \in DefId : c.definition[x] # None => In(c.step, c.definition[x].entry, x)
  BY DEF Whole, Tables
<1>3. \A s \in StatusId : b.status[s] # None => b.status[s].def \in DefId
  BY DEF Tables, StatusRow
<1>4. \A t \in StepId : b.step[t] # None => b.step[t].def \in DefId
  BY DEF Tables, StepRow
<1> QED
  BY <1>1, <1>2, <1>3, <1>4 DEF Whole

LEMMA StatusPut ==
  ASSUME NEW b \in Tables, NEW c \in Tables, Whole(b),
         NEW s \in StatusId, NEW row \in StatusRow,
         b.status[s] # None => b.status[s].def = row.def,
         b.definition[row.def] # None, ~NameTaken(b.status, s, row),
         c.status = [b.status EXCEPT ![s] = row],
         c.definition = b.definition, c.step = b.step, c.action = b.action
  PROVE  Whole(c)
<1>1. c.status[s] = row /\ \A x \in StatusId \ {s} : c.status[x] = b.status[x]
  BY DEF Tables
<1>2. \A x \in StatusId, d \in DefId : In(b.status, x, d) => In(c.status, x, d)
  BY <1>1, NoneIsNoRow DEF In
<1>3. DOMAIN b.status = StatusId /\ DOMAIN c.status = StatusId
  BY DEF Tables
<1>4. ASSUME NEW x \in StatusId, c.status[x] # None
      PROVE  c.definition[c.status[x].def] # None /\ ~NameTaken(c.status, x, c.status[x])
  <2>1. CASE x = s
    BY <2>1, <1>1, <1>3 DEF NameTaken, In
  <2>2. CASE x # s
    <3>1. ~NameTaken(b.status, x, b.status[x]) /\ b.definition[b.status[x].def] # None
      BY <1>1, <1>4, <2>2 DEF Whole
    <3>2. ~(row.def = b.status[x].def /\ row.name = b.status[x].name)
      BY <1>1, <1>3, <1>4, <2>2 DEF NameTaken, In
    <3> QED
      BY <1>1, <1>3, <2>2, <3>1, <3>2 DEF NameTaken, In
  <2> QED BY <2>1, <2>2
<1>5. \A t \in StepId : b.step[t] # None => b.step[t].status \in StatusId /\ b.step[t].def \in DefId
  BY DEF Tables, StepRow
<1>6. \A a \in ActionId : b.action[a] # None =>
        b.action[a].terminal \in StatusId \cup {None} /\ b.action[a].def \in DefId
  BY DEF Tables, ActionRow
<1> QED
  BY <1>2, <1>4, <1>5, <1>6 DEF Whole

LEMMA StepPut ==
  ASSUME NEW b \in Tables, NEW c \in Tables, Whole(b),
         NEW t \in StepId, NEW row \in StepRow,
         b.step[t] # None => b.step[t].def = row.def,
         b.definition[row.def] # None, ~NameTaken(b.step, t, row),
         In(b.status, row.status, row.def),
         c.step = [b.step EXCEPT ![t] = row],
         c.definition = b.definition, c.status = b.status, c.action = b.action
  PROVE  Whole(c)
<1>1. c.step[t] = row /\ \A x \in StepId \ {t} : c.step[x] = b.step[x]
  BY DEF Tables
<1>2. \A x \in StepId, d \in DefId : In(b.step, x, d) => In(c.step, x, d)
  BY <1>1, NoneIsNoRow DEF In
<1>3. DOMAIN b.step = StepId /\ DOMAIN c.step = StepId
  BY DEF Tables
<1>4. ASSUME NEW x \in StepId, c.step[x] # None
      PROVE  /\ c.definition[c.step[x].def] # None /\ ~NameTaken(c.step, x, c.step[x])
             /\ In(c.status, c.step[x].status, c.step[x].def)
  <2>1. CASE x = t
    BY <2>1, <1>1, <1>3 DEF NameTaken, In
  <2>2. CASE x # t
    <3>1. /\ ~NameTaken(b.step, x, b.step[x]) /\ b.definition[b.step[x].def] # None
          /\ In(b.status, b.step[x].status, b.step[x].def)
      BY <1>1, <1>4, <2>2 DEF Whole
    <3>2. ~(row.def = b.step[x].def /\ row.name = b.step[x].name)
      BY <1>1, <1>3, <1>4, <2>2 DEF NameTaken, In
    <3> QED
      BY <1>1, <1>3, <2>2, <3>1, <3>2 DEF NameTaken, In
  <2> QED BY <2>1, <2>2
<1>5. \A d \in DefId : b.definition[d] # None => b.definition[d].entry \in StepId
  BY DEF Tables, DefinitionRow
<1>6. \A a \in ActionId : b.action[a] # None =>
        /\ b.action[a].step \in StepId /\ b.action[a].next \in StepId \cup {None}
        /\ b.action[a].def \in DefId
  BY DEF Tables, ActionRow
<1> QED
  BY <1>2, <1>4, <1>5, <1>6 DEF Whole

LEMMA ActionPut ==
  ASSUME NEW b \in Tables, NEW c \in Tables, Whole(b),
         NEW a \in ActionId, NEW row \in ActionRow,
         In(b.step, row.step, row.def), ~ActionNameTaken(b.action, a, row),
         ExactlyOneTarget(row), RoutesTo(b, row),
         c.action = [b.action EXCEPT ![a] = row],
         c.definition = b.definition, c.status = b.status, c.step = b.step
  PROVE  Whole(c)
<1>1. c.action[a] = row /\ \A x \in ActionId \ {a} : c.action[x] = b.action[x]
  BY DEF Tables
<1>2. ASSUME NEW x \in ActionId, c.action[x] # None
      PROVE  LET r == c.action[x] IN
             /\ In(c.step, r.step, r.def) /\ ~ActionNameTaken(c.action, x, r)
             /\ ExactlyOneTarget(r)
             /\ r.next # None => In(c.step, r.next, r.def)
             /\ r.terminal # None => In(c.status, r.terminal, r.def)
  <2>1. CASE x = a
    BY <2>1, <1>1 DEF ActionNameTaken, RoutesTo
  <2>2. CASE x # a
    <3>1. /\ c.action[x] = b.action[x]
          /\ ~ActionNameTaken(b.action, x, b.action[x])
      BY <1>1, <1>2, <2>2 DEF Whole
    <3>2. ~(row.step = b.action[x].step /\ row.name = b.action[x].name)
      BY <1>2, <2>2, <3>1 DEF ActionNameTaken
    <3>3. ~ActionNameTaken(c.action, x, c.action[x])
      BY <1>1, <3>1, <3>2 DEF ActionNameTaken
    <3> QED
      BY <1>2, <3>1, <3>3 DEF Whole
  <2> QED BY <2>1, <2>2
<1> QED
  BY <1>2 DEF Whole

LEMMA ActionGone ==
  ASSUME NEW b \in Tables, NEW c \in Tables, Whole(b), NEW gone \in SUBSET ActionId,
         c.action = Without(b.action, gone),
         c.definition = b.definition, c.status = b.status, c.step = b.step
  PROVE  Whole(c)
<1>1. \A x \in ActionId : c.action[x] = IF x \in gone THEN None ELSE b.action[x]
  BY DEF Tables, Without
<1>2. ASSUME NEW x \in ActionId, c.action[x] # None
      PROVE  ~ActionNameTaken(c.action, x, c.action[x])
  <2>1. c.action[x] = b.action[x] /\ ~ActionNameTaken(b.action, x, b.action[x])
    BY <1>1, <1>2 DEF Whole
  <2> QED
    BY <1>1, <2>1 DEF ActionNameTaken
<1> QED
  BY <1>1, <1>2 DEF Whole

LEMMA StatusGone ==
  ASSUME NEW b \in Tables, NEW c \in Tables, Whole(b), NEW s \in StatusId,
         ~StatusReferenced(b, s),
         c.status = [b.status EXCEPT ![s] = None],
         c.definition = b.definition, c.step = b.step, c.action = b.action
  PROVE  Whole(c)
<1>1. \A x \in StatusId : c.status[x] = IF x = s THEN None ELSE b.status[x]
  BY DEF Tables
<1>2. DOMAIN b.status = StatusId /\ DOMAIN c.status = StatusId
  BY DEF Tables
<1>3. \A x \in StatusId \ {s}, d \in DefId : In(b.status, x, d) => In(c.status, x, d)
  BY <1>1 DEF In
<1>4. ASSUME NEW x \in StatusId, c.status[x] # None
      PROVE  ~NameTaken(c.status, x, c.status[x])
  <2>1. x # s /\ c.status[x] = b.status[x] /\ ~NameTaken(b.status, x, b.status[x])
    BY <1>1, <1>4 DEF Whole
  <2> QED
    BY <1>1, <1>2, <2>1 DEF NameTaken, In
<1>5. \A t \in StepId : b.step[t] # None =>
        b.step[t].status \in StatusId \ {s} /\ b.step[t].def \in DefId
  BY DEF Tables, StepRow, StatusReferenced
<1>6. \A a \in ActionId : b.action[a] # None =>
        b.action[a].terminal \in (StatusId \ {s}) \cup {None} /\ b.action[a].def \in DefId
  BY DEF Tables, ActionRow, StatusReferenced
<1> QED
  BY <1>1, <1>3, <1>4, <1>5, <1>6 DEF Whole

LEMMA StepGone ==
  ASSUME NEW b \in Tables, NEW c \in Tables, Whole(b), NEW t \in StepId,
         ~StepReferenced(c, t),
         c.step = [b.step EXCEPT ![t] = None],
         c.action = Without(b.action, {a \in ActionId :
                      b.action[a] # None /\ b.action[a].step = t}),
         c.definition = b.definition, c.status = b.status
  PROVE  Whole(c)
<1>1. \A x \in StepId : c.step[x] = IF x = t THEN None ELSE b.step[x]
  BY DEF Tables
<1>2. DOMAIN b.step = StepId /\ DOMAIN c.step = StepId
  BY DEF Tables
<1>3. \A x \in StepId \ {t}, d \in DefId : In(b.step, x, d) => In(c.step, x, d)
  BY <1>1 DEF In
<1>4. ASSUME NEW x \in StepId, c.step[x] # None
      PROVE  ~NameTaken(c.step, x, c.step[x])
  <2>1. x # t /\ c.step[x] = b.step[x] /\ ~NameTaken(b.step, x, b.step[x])
    BY <1>1, <1>4 DEF Whole
  <2> QED
    BY <1>1, <1>2, <2>1 DEF NameTaken, In
<1>5. \A a \in ActionId : c.action[a] # None =>
        /\ c.action[a] = b.action[a] /\ b.action[a].def \in DefId
        /\ b.action[a].step \in StepId \ {t}
        /\ b.action[a].next \in (StepId \ {t}) \cup {None}
  <2> TAKE a \in ActionId
  <2> HAVE c.action[a] # None
  <2>1. c.action[a] = b.action[a] /\ b.action[a].step # t
    BY DEF Without, Tables
  <2>2. b.action[a] \in ActionRow
    BY <2>1 DEF Tables
  <2>3. b.action[a].next # t
    BY <2>1 DEF StepReferenced
  <2> QED BY <2>1, <2>2, <2>3 DEF ActionRow
<1>6. \A d \in DefId : b.definition[d] # None => b.definition[d].entry \in StepId \ {t}
  BY DEF Tables, DefinitionRow, StepReferenced
<1>7. ASSUME NEW x \in ActionId, c.action[x] # None
      PROVE  ~ActionNameTaken(c.action, x, c.action[x])
  <2>1. c.action[x] = b.action[x] /\ ~ActionNameTaken(b.action, x, b.action[x])
    BY <1>5, <1>7 DEF Whole
  <2>2. \A y \in ActionId : c.action[y] # None => c.action[y] = b.action[y]
    BY <1>5
  <2> QED
    BY <2>1, <2>2 DEF ActionNameTaken
<1>8. ASSUME NEW d \in DefId, c.definition[d] # None PROVE In(c.step, c.definition[d].entry, d)
  BY <1>3, <1>6, <1>8 DEF Whole
<1>9. ASSUME NEW x \in StepId, c.step[x] # None
      PROVE  c.definition[c.step[x].def] # None /\ In(c.status, c.step[x].status, c.step[x].def)
  BY <1>1, <1>9 DEF Whole
<1>10. ASSUME NEW x \in ActionId, c.action[x] # None
       PROVE  LET r == c.action[x] IN
              /\ In(c.step, r.step, r.def) /\ ExactlyOneTarget(r)
              /\ r.next # None => In(c.step, r.next, r.def)
              /\ r.terminal # None => In(c.status, r.terminal, r.def)
  <2>1. LET r == b.action[x] IN
        /\ In(b.step, r.step, r.def) /\ ExactlyOneTarget(r)
        /\ r.next # None => In(b.step, r.next, r.def)
        /\ r.terminal # None => In(b.status, r.terminal, r.def)
    BY <1>5, <1>10 DEF Whole
  <2> QED BY <2>1, <1>3, <1>5, <1>10
<1>11. \A s \in StatusId : c.status[s] # None =>
         c.definition[c.status[s].def] # None /\ ~NameTaken(c.status, s, c.status[s])
  BY DEF Whole
<1> QED
  BY <1>4, <1>7, <1>8, <1>9, <1>10, <1>11 DEF Whole

LEMMA DefinitionGone ==
  ASSUME NEW b \in Tables, NEW c \in Tables, Whole(b), NEW d \in DefId,
         c.definition = [b.definition EXCEPT ![d] = None],
         c.status = Without(b.status, {s \in StatusId : In(b.status, s, d)}),
         c.step = Without(b.step, {t \in StepId : In(b.step, t, d)}),
         c.action = Without(b.action, {a \in ActionId : In(b.action, a, d)})
  PROVE  Whole(c)
<1> DEFINE Left(r) == r # None /\ r.def # d
<1>1. \A x \in DefId : c.definition[x] = IF x = d THEN None ELSE b.definition[x]
  BY DEF Tables
<1>2. \A s \in StatusId : /\ c.status[s] # None <=> Left(b.status[s])
                          /\ c.status[s] # None => c.status[s] = b.status[s]
  BY DEF Tables, Without, In
<1>3. \A t \in StepId : /\ c.step[t] # None <=> Left(b.step[t])
                        /\ c.step[t] # None => c.step[t] = b.step[t]
  BY DEF Tables, Without, In
<1>4. \A a \in ActionId : /\ c.action[a] # None <=> Left(b.action[a])
                          /\ c.action[a] # None => c.action[a] = b.action[a]
  BY DEF Tables, Without, In
<1>5. /\ DOMAIN b.status = StatusId /\ DOMAIN c.status = StatusId
      /\ DOMAIN b.step = StepId /\ DOMAIN c.step = StepId
  BY DEF Tables
<1>6. \A x \in StatusId, e \in DefId \ {d} : In(b.status, x, e) => In(c.status, x, e)
  BY <1>2 DEF In
<1>7. \A x \in StepId, e \in DefId \ {d} : In(b.step, x, e) => In(c.step, x, e)
  BY <1>3 DEF In
<1>8. ASSUME NEW e \in DefId, c.definition[e] # None PROVE In(c.step, c.definition[e].entry, e)
  <2>1. e # d /\ c.definition[e] = b.definition[e] /\ c.definition[e].entry \in StepId
    BY <1>1, <1>8 DEF Tables, DefinitionRow
  <2>2. In(b.step, b.definition[e].entry, e)
    BY <2>1, <1>8 DEF Whole
  <2> QED BY <2>1, <2>2, <1>7
<1>9. ASSUME NEW s \in StatusId, c.status[s] # None
      PROVE  c.definition[c.status[s].def] # None /\ ~NameTaken(c.status, s, c.status[s])
  <2>1. /\ c.status[s] = b.status[s] /\ b.status[s].def \in DefId \ {d}
        /\ b.definition[b.status[s].def] # None /\ ~NameTaken(b.status, s, b.status[s])
    BY <1>2, <1>9 DEF Whole, Tables, StatusRow
  <2> QED BY <2>1, <1>1, <1>2, <1>5 DEF NameTaken, In
<1>10. ASSUME NEW t \in StepId, c.step[t] # None
       PROVE  /\ c.definition[c.step[t].def] # None /\ ~NameTaken(c.step, t, c.step[t])
              /\ In(c.status, c.step[t].status, c.step[t].def)
  <2>1. /\ c.step[t] = b.step[t] /\ b.step[t].def \in DefId \ {d}
        /\ b.step[t].status \in StatusId
    BY <1>3, <1>10 DEF Tables, StepRow
  <2>2. /\ b.definition[b.step[t].def] # None /\ ~NameTaken(b.step, t, b.step[t])
        /\ In(b.status, b.step[t].status, b.step[t].def)
    BY <2>1, <1>10 DEF Whole
  <2>3. ~NameTaken(c.step, t, c.step[t])
    BY <2>1, <2>2, <1>3, <1>5 DEF NameTaken, In
  <2> QED BY <2>1, <2>2, <2>3, <1>1, <1>6
<1>11. ASSUME NEW a \in ActionId, c.action[a] # None
       PROVE  LET r == c.action[a] IN
              /\ In(c.step, r.step, r.def) /\ ~ActionNameTaken(c.action, a, r)
              /\ ExactlyOneTarget(r)
              /\ r.next # None => In(c.step, r.next, r.def)
              /\ r.terminal # None => In(c.status, r.terminal, r.def)
  <2>1. c.action[a] = b.action[a] /\ b.action[a].def # d /\ b.action[a] \in ActionRow
    BY <1>4, <1>11 DEF Tables
  <2>2. LET r == b.action[a] IN
        /\ In(b.step, r.step, r.def) /\ ~ActionNameTaken(b.action, a, r)
        /\ ExactlyOneTarget(r)
        /\ r.next # None => In(b.step, r.next, r.def)
        /\ r.terminal # None => In(b.status, r.terminal, r.def)
    BY <2>1, <1>11 DEF Whole
  <2>3. ~ActionNameTaken(c.action, a, c.action[a])
    BY <2>1, <2>2, <1>4 DEF ActionNameTaken
  <2> QED BY <2>1, <2>2, <2>3, <1>6, <1>7 DEF ActionRow
<1> QED
  BY <1>8, <1>9, <1>10, <1>11 DEF Whole

-----------------------------------------------------------------------------
(* Create puts the rows of a tree all at once.                             *)

LEMMA TreeTyped ==
  ASSUME NEW tree \in Trees
  PROVE  /\ tree.def \in DefId /\ tree.name \in Names /\ tree.entry \in StepId \cup {None}
         /\ \A r \in tree.statuses : r \in StatusPart
         /\ \A r \in TreeSteps(tree) : r \in StepPart
         /\ \A r \in tree.actions : /\ r \in ActionPart
                                    /\ \E t \in TreeSteps(tree) : t.id = r.step
<1>1. tree \in [def: DefId, name: Names, entry: StepId \cup {None},
                statuses: SUBSET StatusPart, steps: Seq(StepPart),
                actions: SUBSET ActionPart]
  BY TreesAssumption
<1>2. \A i \in DOMAIN tree.steps : tree.steps[i] \in StepPart
  BY <1>1
<1> QED BY <1>1, <1>2, TreesAssumption DEF TreeSteps

\* Rows with ids of their own.
NewRows(K, R, new) == new \in SUBSET (K \X R) /\ \A p, q \in new : p[1] = q[1] => p = q

\* They come into a table, and the rest of the table is as it was.
HasRows(K, R, table, new, filled) ==
  /\ filled \in [K -> R \cup {None}]
  /\ \A p \in new : filled[p[1]] = p[2]
  /\ \A k \in K : (\A p \in new : p[1] # k) => filled[k] = table[k]

LEMMA FilledWith ==
  ASSUME NEW K, NEW R, NEW table \in [K -> R \cup {None}], NEW new, NewRows(K, R, new)
  PROVE  HasRows(K, R, table, new, Filled(table, new))
<1> USE DEF NewRows
<1>1. ASSUME NEW p \in new
      PROVE  (CHOOSE q \in new : q[1] = p[1])[2] = p[2]
  <2>1. (CHOOSE q \in new : q[1] = p[1]) \in new /\ (CHOOSE q \in new : q[1] = p[1])[1] = p[1]
    OBVIOUS
  <2> QED BY <2>1
<1>2. \A p \in new : p[1] \in K /\ p[2] \in R
  OBVIOUS
<1>3. ASSUME NEW p \in new PROVE Filled(table, new)[p[1]] = p[2]
  BY <1>1, <1>2, <1>3 DEF Filled
<1>4. \A k \in K : (\A p \in new : p[1] # k) => Filled(table, new)[k] = table[k]
  BY DEF Filled
<1>5. ASSUME NEW k \in K PROVE Filled(table, new)[k] \in R \cup {None}
  BY <1>2, <1>3, <1>4
<1>6. DOMAIN Filled(table, new) = K
  BY DEF Filled
<1>7. Filled(table, new) = [k \in K |-> Filled(table, new)[k]]
  BY DEF Filled
<1> QED BY <1>3, <1>4, <1>5, <1>7 DEF HasRows

\* What Create adds to the tables b: the tree's rows, under ids that had none.
Adds(b, c, tree) ==
  /\ c.definition = [b.definition EXCEPT ![tree.def] =
                      [name |-> tree.name, entry |-> EntryOf(tree)]]
  /\ \A r \in tree.statuses :
       b.status[r.id] = None /\ c.status[r.id] = [def |-> tree.def, name |-> r.name]
  /\ \A r \in TreeSteps(tree) :
       /\ b.step[r.id] = None
       /\ c.step[r.id] = [def |-> tree.def, name |-> r.name, status |-> r.status]
  /\ \A r \in tree.actions :
       /\ b.action[r.id] = None
       /\ c.action[r.id] = [def |-> tree.def, name |-> r.name, step |-> r.step,
                            next |-> r.next, terminal |-> r.terminal]
  /\ \A s \in StatusId : (\A r \in tree.statuses : r.id # s) => c.status[s] = b.status[s]
  /\ \A t \in StepId : (\A r \in TreeSteps(tree) : r.id # t) => c.step[t] = b.step[t]
  /\ \A a \in ActionId : (\A r \in tree.actions : r.id # a) => c.action[a] = b.action[a]

LEMMA CreatedAdds ==
  ASSUME NEW tree \in Trees, db \in Tables, ~KeyTaken(tree), EntryOf(tree) \in StepId
  PROVE  Created(tree) \in Tables /\ Adds(db, Created(tree), tree)
<1> DEFINE S == {<<r.id, [def |-> tree.def, name |-> r.name]>> : r \in tree.statuses}
           T == {<<r.id, [def |-> tree.def, name |-> r.name, status |-> r.status]>> :
                   r \in TreeSteps(tree)}
           A == {<<r.id, [def |-> tree.def, name |-> r.name, step |-> r.step,
                          next |-> r.next, terminal |-> r.terminal]>> : r \in tree.actions}
<1>1. S \in SUBSET (StatusId \X StatusRow)
  BY TreeTyped DEF StatusPart, StatusRow
<1>2. T \in SUBSET (StepId \X StepRow)
  BY TreeTyped DEF StepPart, StepRow
<1>3. A \in SUBSET (ActionId \X ActionRow)
  BY TreeTyped DEF ActionPart, ActionRow
<1>4. \A p, q \in S : p[1] = q[1] => p = q
  <2>1. \A r, x \in tree.statuses : r.id = x.id => r = x
    BY DEF KeyTaken
  <2> QED BY <2>1
<1>5. \A p, q \in T : p[1] = q[1] => p = q
  <2>1. \A r, x \in TreeSteps(tree) : r.id = x.id => r = x
    BY DEF KeyTaken, TreeSteps
  <2> QED BY <2>1
<1>6. \A p, q \in A : p[1] = q[1] => p = q
  <2>1. \A r, x \in tree.actions : r.id = x.id => r = x
    BY DEF KeyTaken
  <2> QED BY <2>1
<1>7. Created(tree) =
        [definition |-> [db.definition EXCEPT ![tree.def] =
                          [name |-> tree.name, entry |-> EntryOf(tree)]],
         status |-> Filled(db.status, S), step |-> Filled(db.step, T),
         action |-> Filled(db.action, A)]
  BY DEF Created
<1>8. /\ db.status \in [StatusId -> StatusRow \cup {None}]
      /\ db.step \in [StepId -> StepRow \cup {None}]
      /\ db.action \in [ActionId -> ActionRow \cup {None}]
      /\ db.definition \in [DefId -> DefinitionRow \cup {None}]
  BY DEF Tables
<1>9. /\ \A r \in tree.statuses : <<r.id, [def |-> tree.def, name |-> r.name]>> \in S
      /\ \A s \in StatusId : (\A r \in tree.statuses : r.id # s) => \A p \in S : p[1] # s
  OBVIOUS
<1>10. /\ \A r \in TreeSteps(tree) :
            <<r.id, [def |-> tree.def, name |-> r.name, status |-> r.status]>> \in T
       /\ \A t \in StepId : (\A r \in TreeSteps(tree) : r.id # t) => \A p \in T : p[1] # t
  OBVIOUS
<1>11. /\ \A r \in tree.actions :
            <<r.id, [def |-> tree.def, name |-> r.name, step |-> r.step,
                     next |-> r.next, terminal |-> r.terminal]>> \in A
       /\ \A a \in ActionId : (\A r \in tree.actions : r.id # a) => \A p \in A : p[1] # a
  OBVIOUS
<1> HIDE DEF S, T, A
<1>12. /\ Filled(db.status, S) \in [StatusId -> StatusRow \cup {None}]
       /\ \A r \in tree.statuses :
            Filled(db.status, S)[r.id] = [def |-> tree.def, name |-> r.name]
       /\ \A s \in StatusId : (\A r \in tree.statuses : r.id # s) =>
            Filled(db.status, S)[s] = db.status[s]
  <2>1. HasRows(StatusId, StatusRow, db.status, S, Filled(db.status, S))
    <3>1. NewRows(StatusId, StatusRow, S)
      BY <1>1, <1>4 DEF NewRows
    <3> QED BY <3>1, <1>8, FilledWith
  <2>2. ASSUME NEW r \in tree.statuses PROVE Filled(db.status, S)[r.id] = [def |-> tree.def, name |-> r.name]
    <3> DEFINE p == <<r.id, [def |-> tree.def, name |-> r.name]>>
    <3>1. p \in S /\ p[1] = r.id /\ p[2] = [def |-> tree.def, name |-> r.name]
      BY <1>9
    <3>2. Filled(db.status, S)[p[1]] = p[2]
      BY <2>1, <3>1 DEF HasRows
    <3> QED BY <3>1, <3>2
  <2> QED BY <2>1, <2>2, <1>9 DEF HasRows
<1>13. /\ Filled(db.step, T) \in [StepId -> StepRow \cup {None}]
       /\ \A r \in TreeSteps(tree) :
            Filled(db.step, T)[r.id] = [def |-> tree.def, name |-> r.name, status |-> r.status]
       /\ \A t \in StepId : (\A r \in TreeSteps(tree) : r.id # t) =>
            Filled(db.step, T)[t] = db.step[t]
  <2>1. HasRows(StepId, StepRow, db.step, T, Filled(db.step, T))
    <3>1. NewRows(StepId, StepRow, T)
      BY <1>2, <1>5 DEF NewRows
    <3> QED BY <3>1, <1>8, FilledWith
  <2>2. ASSUME NEW r \in TreeSteps(tree) PROVE Filled(db.step, T)[r.id] = [def |-> tree.def, name |-> r.name, status |-> r.status]
    <3> DEFINE p == <<r.id, [def |-> tree.def, name |-> r.name, status |-> r.status]>>
    <3>1. p \in T /\ p[1] = r.id /\ p[2] = [def |-> tree.def, name |-> r.name, status |-> r.status]
      BY <1>10
    <3>2. Filled(db.step, T)[p[1]] = p[2]
      BY <2>1, <3>1 DEF HasRows
    <3> QED BY <3>1, <3>2
  <2> QED BY <2>1, <2>2, <1>10 DEF HasRows
<1>14. /\ Filled(db.action, A) \in [ActionId -> ActionRow \cup {None}]
       /\ \A r \in tree.actions : Filled(db.action, A)[r.id] =
            [def |-> tree.def, name |-> r.name, step |-> r.step,
             next |-> r.next, terminal |-> r.terminal]
       /\ \A a \in ActionId : (\A r \in tree.actions : r.id # a) =>
            Filled(db.action, A)[a] = db.action[a]
  <2>1. HasRows(ActionId, ActionRow, db.action, A, Filled(db.action, A))
    <3>1. NewRows(ActionId, ActionRow, A)
      BY <1>3, <1>6 DEF NewRows
    <3> QED BY <3>1, <1>8, FilledWith
  <2>2. ASSUME NEW r \in tree.actions PROVE Filled(db.action, A)[r.id] = [def |-> tree.def, name |-> r.name, step |-> r.step,
                     next |-> r.next, terminal |-> r.terminal]
    <3> DEFINE p == <<r.id, [def |-> tree.def, name |-> r.name, step |-> r.step,
                     next |-> r.next, terminal |-> r.terminal]>>
    <3>1. p \in A /\ p[1] = r.id /\ p[2] = [def |-> tree.def, name |-> r.name, step |-> r.step,
                     next |-> r.next, terminal |-> r.terminal]
      BY <1>11
    <3>2. Filled(db.action, A)[p[1]] = p[2]
      BY <2>1, <3>1 DEF HasRows
    <3> QED BY <3>1, <3>2
  <2> QED BY <2>1, <2>2, <1>11 DEF HasRows
<1>15. [db.definition EXCEPT ![tree.def] = [name |-> tree.name, entry |-> EntryOf(tree)]]
         \in [DefId -> DefinitionRow \cup {None}]
  BY <1>8, TreeTyped DEF DefinitionRow
<1>16. Created(tree) \in Tables
  BY <1>7, <1>12, <1>13, <1>14, <1>15 DEF Tables
<1>17. /\ \A r \in tree.statuses : db.status[r.id] = None
       /\ \A r \in TreeSteps(tree) : db.step[r.id] = None
       /\ \A r \in tree.actions : db.action[r.id] = None
  BY DEF KeyTaken, TreeSteps
<1> QED BY <1>7, <1>12, <1>13, <1>14, <1>16, <1>17 DEF Adds

LEMMA TreePut ==
  ASSUME NEW b \in Tables, NEW c \in Tables, Whole(b), NEW tree \in Trees,
         b.definition[tree.def] = None, Adds(b, c, tree),
         \E t \in TreeSteps(tree) : t.id = EntryOf(tree),
         ~NamedTwice(tree), \A a \in tree.actions : ExactlyOneTarget(a),
         ~Dangling(tree, c)
  PROVE  Whole(c)
<1> DEFINE d == tree.def
<1>1. d \in DefId /\ [name |-> tree.name, entry |-> EntryOf(tree)] \in DefinitionRow
  BY TreeTyped DEF StepPart, DefinitionRow
<1>2. c.definition[d] # None
  BY <1>1, NoneIsNoRow DEF Adds, Tables
<1>3. \A e \in DefId \ {d} : c.definition[e] = b.definition[e]
  BY <1>1 DEF Adds, Tables
<1>21. \A r \in tree.statuses :
         b.status[r.id] = None /\ c.status[r.id] = [def |-> d, name |-> r.name]
  BY DEF Adds
<1>22. \A r \in TreeSteps(tree) :
         /\ b.step[r.id] = None
         /\ c.step[r.id] = [def |-> d, name |-> r.name, status |-> r.status]
  BY DEF Adds
<1>23. \A r \in tree.actions :
         /\ b.action[r.id] = None
         /\ c.action[r.id] = [def |-> d, name |-> r.name, step |-> r.step,
                              next |-> r.next, terminal |-> r.terminal]
  BY DEF Adds
<1>24. \A s \in StatusId : (\A r \in tree.statuses : r.id # s) => c.status[s] = b.status[s]
  BY DEF Adds
<1>25. \A t \in StepId : (\A r \in TreeSteps(tree) : r.id # t) => c.step[t] = b.step[t]
  BY DEF Adds
<1>26. \A a \in ActionId : (\A r \in tree.actions : r.id # a) => c.action[a] = b.action[a]
  BY DEF Adds
<1>27. /\ \A s \in StatusId : b.status[s] # None => b.definition[b.status[s].def] # None
       /\ \A t \in StepId : b.step[t] # None => b.definition[b.step[t].def] # None
  BY DEF Whole
<1>4. \A s \in StatusId : b.status[s] # None => c.status[s] = b.status[s] /\ b.status[s].def # d
  <2> SUFFICES ASSUME NEW s \in StatusId, b.status[s] # None
               PROVE  c.status[s] = b.status[s] /\ b.status[s].def # d
    OBVIOUS
  <2>1. ASSUME NEW r \in tree.statuses PROVE r.id # s
    <3>1. b.status[r.id] = None
      BY <1>21
    <3> QED BY <3>1
  <2> QED BY <2>1, <1>24, <1>27
<1>5. \A t \in StepId : b.step[t] # None => c.step[t] = b.step[t] /\ b.step[t].def # d
  <2> SUFFICES ASSUME NEW t \in StepId, b.step[t] # None
               PROVE  c.step[t] = b.step[t] /\ b.step[t].def # d
    OBVIOUS
  <2>1. ASSUME NEW r \in TreeSteps(tree) PROVE r.id # t
    BY <1>22
  <2> QED BY <2>1, <1>25, <1>27
<1>6. \A a \in ActionId : b.action[a] # None => c.action[a] = b.action[a]
  <2> SUFFICES ASSUME NEW a \in ActionId, b.action[a] # None
               PROVE  c.action[a] = b.action[a]
    OBVIOUS
  <2>1. ASSUME NEW r \in tree.actions PROVE r.id # a
    <3>1. b.action[r.id] = None
      BY <1>23
    <3> QED BY <3>1
  <2> QED BY <2>1, <1>26
<1>7. ASSUME NEW s \in StatusId, c.status[s] # None
      PROVE  \/ b.status[s] # None
             \/ \E r \in tree.statuses :
                  r.id = s /\ c.status[s] = [def |-> d, name |-> r.name]
  <2> SUFFICES ASSUME \A r \in tree.statuses : r.id # s PROVE b.status[s] # None
    BY <1>21
  <2> QED BY <1>7, <1>24
<1>8. ASSUME NEW t \in StepId, c.step[t] # None
      PROVE  \/ b.step[t] # None
             \/ \E r \in TreeSteps(tree) :
                  r.id = t /\ c.step[t] = [def |-> d, name |-> r.name, status |-> r.status]
  <2> SUFFICES ASSUME \A r \in TreeSteps(tree) : r.id # t PROVE b.step[t] # None
    BY <1>22
  <2> QED BY <1>8, <1>25
<1>9. ASSUME NEW a \in ActionId, c.action[a] # None
      PROVE  \/ b.action[a] # None
             \/ \E r \in tree.actions :
                  r.id = a /\ c.action[a] = [def |-> d, name |-> r.name, step |-> r.step,
                                             next |-> r.next, terminal |-> r.terminal]
  <2> SUFFICES ASSUME \A r \in tree.actions : r.id # a PROVE b.action[a] # None
    BY <1>23
  <2> QED BY <1>9, <1>26
<1>10. /\ \A s \in StatusId, e \in DefId : In(b.status, s, e) => In(c.status, s, e)
       /\ \A t \in StepId, e \in DefId : In(b.step, t, e) => In(c.step, t, e)
  BY <1>4, <1>5 DEF In
<1>11. /\ DOMAIN b.status = StatusId /\ DOMAIN c.status = StatusId
       /\ DOMAIN b.step = StepId /\ DOMAIN c.step = StepId
  BY DEF Tables
<1>12. \A t \in TreeSteps(tree) : t.id \in StepId /\ In(c.step, t.id, d)
  <2> SUFFICES ASSUME NEW t \in TreeSteps(tree) PROVE t.id \in StepId /\ In(c.step, t.id, d)
    OBVIOUS
  <2>1. t.id \in StepId /\ [def |-> d, name |-> t.name, status |-> t.status] \in StepRow
    BY TreeTyped DEF StepPart, StepRow
  <2>2. c.step[t.id] = [def |-> d, name |-> t.name, status |-> t.status]
    BY <1>22
  <2> QED BY <2>1, <2>2, NoneIsNoRow DEF In
<1>13. ASSUME NEW e \in DefId, c.definition[e] # None PROVE In(c.step, c.definition[e].entry, e)
  <2>1. CASE e = d
    <3>1. c.definition[d].entry = EntryOf(tree)
      BY <1>1 DEF Adds, Tables
    <3> QED BY <2>1, <3>1, <1>12
  <2>2. CASE e # d
    <3>1. c.definition[e] = b.definition[e] /\ b.definition[e].entry \in StepId
      BY <2>2, <1>3, <1>13 DEF Tables, DefinitionRow
    <3>2. In(b.step, b.definition[e].entry, e)
      BY <3>1, <1>13 DEF Whole
    <3> QED BY <3>1, <3>2, <1>10
  <2> QED BY <2>1, <2>2
<1>14. ASSUME NEW s \in StatusId, c.status[s] # None
       PROVE  c.definition[c.status[s].def] # None /\ ~NameTaken(c.status, s, c.status[s])
  <2>1. CASE b.status[s] # None
    <3>1. /\ c.status[s] = b.status[s] /\ b.status[s].def \in DefId \ {d}
          /\ b.definition[b.status[s].def] # None /\ ~NameTaken(b.status, s, b.status[s])
      BY <2>1, <1>4 DEF Whole, Tables, StatusRow
    <3>2. ASSUME NEW x \in StatusId, In(c.status, x, b.status[s].def)
         PROVE  c.status[x] = b.status[x]
      <4>1. c.status[x] # None /\ c.status[x].def # d
        BY <3>1, <3>2 DEF In
      <4>2. ASSUME b.status[x] = None PROVE FALSE
        <5>1. PICK r \in tree.statuses : c.status[x] = [def |-> d, name |-> r.name]
          BY <4>1, <4>2, <1>7
        <5> QED BY <4>1, <5>1
      <4> QED BY <4>2, <1>4
    <3> QED BY <3>1, <3>2, <1>3, <1>11 DEF NameTaken, In
  <2>2. CASE b.status[s] = None
    <3>1. PICK r \in tree.statuses : r.id = s /\ c.status[s] = [def |-> d, name |-> r.name]
      BY <2>2, <1>7, <1>14
    <3>2. ASSUME NEW x \in StatusId \ {s}, In(c.status, x, d)
          PROVE  c.status[x].name # r.name
      <4>1. PICK q \in tree.statuses : q.id = x /\ c.status[x] = [def |-> d, name |-> q.name]
        BY <3>2, <1>4, <1>7 DEF In
      <4> QED BY <3>1, <4>1 DEF NamedTwice, SameName
    <3> QED BY <3>1, <3>2, <1>2, <1>11 DEF NameTaken
  <2> QED BY <2>1, <2>2
<1>15. ASSUME NEW t \in StepId, c.step[t] # None
       PROVE  /\ c.definition[c.step[t].def] # None /\ ~NameTaken(c.step, t, c.step[t])
              /\ In(c.status, c.step[t].status, c.step[t].def)
  <2>1. CASE b.step[t] # None
    <3>1. /\ c.step[t] = b.step[t] /\ b.step[t].def \in DefId \ {d}
          /\ b.step[t].status \in StatusId
      BY <2>1, <1>5 DEF Tables, StepRow
    <3>2. /\ b.definition[b.step[t].def] # None /\ ~NameTaken(b.step, t, b.step[t])
          /\ In(b.status, b.step[t].status, b.step[t].def)
      BY <2>1 DEF Whole
    <3>3. ASSUME NEW x \in StepId, In(c.step, x, b.step[t].def)
         PROVE  c.step[x] = b.step[x]
      <4>1. c.step[x] # None /\ c.step[x].def # d
        BY <3>1, <3>3 DEF In
      <4>2. ASSUME b.step[x] = None PROVE FALSE
        <5>1. PICK r \in TreeSteps(tree) : c.step[x] = [def |-> d, name |-> r.name, status |-> r.status]
          BY <4>1, <4>2, <1>8
        <5> QED BY <4>1, <5>1
      <4> QED BY <4>2, <1>5
    <3> QED BY <3>1, <3>2, <3>3, <1>3, <1>10, <1>11 DEF NameTaken, In
  <2>2. CASE b.step[t] = None
    <3>1. PICK r \in TreeSteps(tree) :
            r.id = t /\ c.step[t] = [def |-> d, name |-> r.name, status |-> r.status]
      BY <2>2, <1>8, <1>15
    <3>2. ASSUME NEW x \in StepId \ {t}, In(c.step, x, d)
          PROVE  c.step[x].name # r.name
      <4>1. PICK q \in TreeSteps(tree) :
              q.id = x /\ c.step[x] = [def |-> d, name |-> q.name, status |-> q.status]
        BY <3>2, <1>5, <1>8 DEF In
      <4> QED BY <3>1, <4>1 DEF NamedTwice, SameName
    <3>3. In(c.status, r.status, d)
      BY DEF Dangling
    <3> QED BY <3>1, <3>2, <3>3, <1>2, <1>11 DEF NameTaken
  <2> QED BY <2>1, <2>2
<1>16. ASSUME NEW a \in ActionId, c.action[a] # None
       PROVE  LET r == c.action[a] IN
              /\ In(c.step, r.step, r.def) /\ ~ActionNameTaken(c.action, a, r)
              /\ ExactlyOneTarget(r)
              /\ r.next # None => In(c.step, r.next, r.def)
              /\ r.terminal # None => In(c.status, r.terminal, r.def)
  <2>1. \A x \in ActionId : b.action[x] # None => b.step[b.action[x].step] # None
    BY DEF Whole, In
  <2>2. CASE b.action[a] # None
    <3>1. c.action[a] = b.action[a] /\ b.action[a] \in ActionRow
      BY <2>2, <1>6 DEF Tables
    <3>2. LET r == b.action[a] IN
          /\ In(b.step, r.step, r.def) /\ ~ActionNameTaken(b.action, a, r)
          /\ ExactlyOneTarget(r)
          /\ r.next # None => In(b.step, r.next, r.def)
          /\ r.terminal # None => In(b.status, r.terminal, r.def)
      BY <2>2 DEF Whole
    <3>3. ASSUME NEW x \in ActionId, c.action[x] # None, c.action[x].step = b.action[a].step
          PROVE  c.action[x] = b.action[x]
      <4>1. CASE b.action[x] # None
        BY <4>1, <1>6
      <4>2. CASE b.action[x] = None
        <5>1. PICK r \in tree.actions :
                c.action[x] = [def |-> d, name |-> r.name, step |-> r.step,
                               next |-> r.next, terminal |-> r.terminal]
          BY <4>2, <3>3, <1>9
        <5>2. PICK t \in TreeSteps(tree) : t.id = r.step
          BY TreeTyped
        <5>3. b.step[r.step] = None
          BY <5>2, <1>22
        <5> QED BY <5>1, <5>3, <3>3, <2>1, <2>2
      <4> QED BY <4>1, <4>2
    <3>4. ~ActionNameTaken(c.action, a, b.action[a])
      BY <3>2, <3>3 DEF ActionNameTaken
    <3> QED BY <3>1, <3>2, <3>4, <1>10 DEF ActionRow
  <2>3. CASE b.action[a] = None
    <3>1. PICK r \in tree.actions :
            r.id = a /\ c.action[a] = [def |-> d, name |-> r.name, step |-> r.step,
                                       next |-> r.next, terminal |-> r.terminal]
      BY <2>3, <1>9, <1>16
    <3>2. PICK t \in TreeSteps(tree) : t.id = r.step
      BY TreeTyped
    <3>3. In(c.step, r.step, d)
      BY <3>2, <1>12
    <3>4. ASSUME NEW x \in ActionId \ {a}, c.action[x] # None, c.action[x].step = r.step
          PROVE  c.action[x].name # r.name
      <4>1. b.step[r.step] = None
        BY <3>2, <1>22
      <4>2. b.action[x] = None
        BY <4>1, <3>4, <2>1, <1>6
      <4>3. PICK q \in tree.actions :
              q.id = x /\ c.action[x] = [def |-> d, name |-> q.name, step |-> q.step,
                                         next |-> q.next, terminal |-> q.terminal]
        BY <4>2, <3>4, <1>9
      <4>4. q \in {z \in tree.actions : z.step = t.id} /\ r \in {z \in tree.actions : z.step = t.id}
        BY <4>3, <3>4, <3>2
      <4>5. ~SameName({z \in tree.actions : z.step = t.id})
        BY DEF NamedTwice
      <4> QED BY <3>1, <4>3, <4>4, <4>5 DEF SameName
    <3>5. ~ActionNameTaken(c.action, a, c.action[a])
      BY <3>1, <3>4 DEF ActionNameTaken
    <3>6. RoutesTo(c, c.action[a])
      BY <3>1 DEF Dangling
    <3>7. ExactlyOneTarget(c.action[a])
      BY <3>1 DEF ExactlyOneTarget
    <3> QED BY <3>1, <3>3, <3>5, <3>6, <3>7 DEF RoutesTo
  <2> QED BY <2>2, <2>3
<1> QED
  BY <1>13, <1>14, <1>15, <1>16 DEF Whole

-----------------------------------------------------------------------------
(* The calls. Each leaves the tables as they were, or changes them in one  *)
(* of the ways above.                                                      *)

Ids == DefId \cup StatusId \cup StepId \cup ActionId

Core ==
  /\ db \in Tables /\ Whole(db) /\ Known(db, used)
  /\ used \subseteq Ids /\ edits \in 0..MaxEdits

LEMMA StatementOutcome ==
  ASSUME NEW b, NEW checks, NEW kind, NEW table, NEW id, NEW row,
         Statement(b, checks, kind, table, id, row)
  PROVE  \/ db' = b /\ \A i \in DOMAIN checks : ~checks[i][2]
         \/ db' = db
BY DEF Statement

LEMMA Unchanged ==
  ASSUME Core, UNCHANGED <<db, used, edits>>
  PROVE  Core'
BY DEF Core

LEMMA MissingCore ==
  ASSUME Core, NEW table, NEW id, Missing(table, id)
  PROVE  Core'
BY Unchanged DEF Missing

LEMMA Counted ==
  ASSUME Core, NEW ids \in SUBSET Ids, Count(ids),
         \/ db' = db
         \/ db' \in Tables /\ Whole(db') /\ Known(db', used \cup ids)
  PROVE  Core'
<1>1. CASE db' = db /\ UNCHANGED <<used, edits>>
  BY <1>1, Unchanged
<1>2. CASE db' # db /\ edits < MaxEdits /\ edits' = edits + 1 /\ used' = used \cup ids
  <2>1. edits' \in 0..MaxEdits
    BY <1>2, CatalogAssumption DEF Core
  <2> QED BY <1>2, <2>1 DEF Core
<1> QED BY <1>1, <1>2 DEF Count

LEMMA UpdateWorkflowDefinitionCore ==
  ASSUME Core, NEW d \in DefId, NEW n \in Names, NEW t \in StepId,
         UpdateWorkflowDefinition(d, n, t)
  PROVE  Core'
<1> DEFINE row == [name |-> n, entry |-> t]
           b == [db EXCEPT !.definition[d] = row]
           checks == << <<"fkInitialStep", ~In(db.step, t, d)>> >>
<1>1. CASE Missing("definition", d)
  BY <1>1, MissingCore
<1>2. CASE /\ Statement(b, checks, "update", "definition", d, row)
           /\ Count({})
  <2>1. DOMAIN checks = {1} /\ checks[1][2] = ~In(db.step, t, d)
    OBVIOUS
  <2>2. row \in DefinitionRow
    BY DEF DefinitionRow
  <2>3. /\ b \in Tables /\ b.definition = [db.definition EXCEPT ![d] = row]
        /\ b.status = db.status /\ b.step = db.step /\ b.action = db.action
    BY <2>2, DefinitionChange DEF Core
  <2> HIDE DEF checks, b
  <2>4. (db' = b /\ In(db.step, t, d)) \/ db' = db
    BY <1>2, <2>1, StatementOutcome
  <2>5. CASE db' = b /\ In(db.step, t, d)
    <3>1. Whole(b)
      BY <2>2, <2>3, <2>5, DefinitionPut DEF Core
    <3>2. Known(b, used \cup {})
      BY <2>3 DEF Core, Known
    <3> QED BY <1>2, <2>3, <2>5, <3>1, <3>2, Counted
  <2> QED BY <1>2, <2>4, <2>5, Counted
<1> QED BY <1>1, <1>2 DEF UpdateWorkflowDefinition

LEMMA DeleteWorkflowDefinitionCore ==
  ASSUME Core, NEW d \in DefId, DeleteWorkflowDefinition(d)
  PROVE  Core'
<1> DEFINE b == [definition |-> [db.definition EXCEPT ![d] = None],
                 status |-> Without(db.status, {s \in StatusId : In(db.status, s, d)}),
                 step |-> Without(db.step, {t \in StepId : In(db.step, t, d)}),
                 action |-> Without(db.action, {a \in ActionId : In(db.action, a, d)})]
           checks == << <<"fkStepStatus", \E s \in StatusId :
                            In(db.status, s, d) /\ StatusReferenced(b, s)>>,
                        <<"fkActionTarget", \E t \in StepId :
                            In(db.step, t, d) /\ StepReferenced(b, t)>> >>
<1>1. CASE Missing("definition", d)
  BY <1>1, MissingCore
<1>2. CASE /\ Statement(b, checks, "delete", "definition", d, None)
           /\ Count({})
  <2>1. /\ db.definition \in [DefId -> DefinitionRow \cup {None}]
        /\ db.status \in [StatusId -> StatusRow \cup {None}]
        /\ db.step \in [StepId -> StepRow \cup {None}]
        /\ db.action \in [ActionId -> ActionRow \cup {None}]
    BY DEF Core, Tables
  <2>2. /\ b.definition \in [DefId -> DefinitionRow \cup {None}]
        /\ b.status \in [StatusId -> StatusRow \cup {None}]
        /\ b.step \in [StepId -> StepRow \cup {None}]
        /\ b.action \in [ActionId -> ActionRow \cup {None}]
    BY <2>1 DEF Without
  <2>3. b \in Tables
    BY <2>2 DEF Tables
  <2>4. /\ \A s \in StatusId : b.status[s] # None => db.status[s] # None
        /\ \A t \in StepId : b.step[t] # None => db.step[t] # None
        /\ \A a \in ActionId : b.action[a] # None => db.action[a] # None
    BY <2>1 DEF Without
  <2>5. Whole(b)
    BY <2>3, DefinitionGone DEF Core
  <2> HIDE DEF b, checks
  <2>6. db' = b \/ db' = db
    BY <1>2, StatementOutcome
  <2>7. Known(b, used \cup {})
    BY <2>4 DEF Core, Known
  <2> QED BY <1>2, <2>3, <2>5, <2>6, <2>7, Counted
<1> QED BY <1>1, <1>2 DEF DeleteWorkflowDefinition

LEMMA AddStatusCore ==
  ASSUME Core, NEW d \in DefId, NEW s \in StatusId, NEW n \in Names, AddStatus(d, s, n)
  PROVE  Core'
<1> DEFINE row == [def |-> d, name |-> n]
           b == [db EXCEPT !.status[s] = row]
           checks == << <<"ixName", NameTaken(db.status, s, row)>>,
                        <<"fkStatusWorkflow", db.definition[d] = None>> >>
<1>1. Statement(b, checks, "insert", "status", s, row) /\ Count({s}) /\ s \notin used
  BY DEF AddStatus
<1>2. /\ DOMAIN checks = {1, 2} /\ checks[1][2] = NameTaken(db.status, s, row)
      /\ checks[2][2] = (db.definition[d] = None)
  OBVIOUS
<1>3. row \in StatusRow
  BY DEF StatusRow
<1>4. /\ b \in Tables /\ b.status = [db.status EXCEPT ![s] = row]
      /\ b.definition = db.definition /\ b.step = db.step /\ b.action = db.action
  BY <1>3, StatusChange DEF Core
<1> HIDE DEF checks, b
<1>5. \/ db' = b /\ ~NameTaken(db.status, s, row) /\ db.definition[d] # None
      \/ db' = db
  BY <1>1, <1>2, StatementOutcome
<1>6. db.status[s] = None
  BY <1>1 DEF Core, Known
<1>7. CASE db' = b /\ ~NameTaken(db.status, s, row) /\ db.definition[d] # None
  <2>1. Whole(b)
    BY <1>3, <1>4, <1>6, <1>7, StatusPut DEF Core
  <2>2. Known(b, used \cup {s})
    BY <1>4 DEF Core, Known, Tables
  <2>3. {s} \in SUBSET Ids
    BY DEF Ids
  <2> QED BY <1>1, <1>4, <1>7, <2>1, <2>2, <2>3, Counted
<1>8. CASE db' = db
  BY <1>1, <1>8, Counted DEF Ids
<1> QED BY <1>5, <1>7, <1>8

LEMMA UpdateStatusCore ==
  ASSUME Core, NEW s \in StatusId, UpdateStatus(s)
  PROVE  Core'
<1>1. CASE Missing("status", s)
  BY <1>1, MissingCore
<1>2. CASE ~Missing("status", s)
  <2>1. PICK n \in Names :
          Statement([db EXCEPT !.status[s] = [db.status[s] EXCEPT !.name = n]],
            << <<"ixName", NameTaken(db.status, s, [db.status[s] EXCEPT !.name = n])>> >>,
            "update", "status", s, [db.status[s] EXCEPT !.name = n])
    BY <1>2 DEF UpdateStatus
  <2>2. db.status[s] # None /\ Count({})
    BY <1>2 DEF UpdateStatus
  <2> DEFINE row == [db.status[s] EXCEPT !.name = n]
             b == [db EXCEPT !.status[s] = row]
             checks == << <<"ixName", NameTaken(db.status, s, row)>> >>
  <2>3. DOMAIN checks = {1} /\ checks[1][2] = NameTaken(db.status, s, row)
    OBVIOUS
  <2>4. row \in StatusRow /\ row.def = db.status[s].def
    BY <2>2 DEF Core, Tables, StatusRow
  <2>5. /\ b \in Tables /\ b.status = [db.status EXCEPT ![s] = row]
        /\ b.definition = db.definition /\ b.step = db.step /\ b.action = db.action
    BY <2>4, StatusChange DEF Core
  <2> HIDE DEF checks, b, row
  <2>6. (db' = b /\ ~NameTaken(db.status, s, row)) \/ db' = db
    <3>1. Statement(b, checks, "update", "status", s, row)
      BY <2>1 DEF b, checks, row
    <3> QED BY <3>1, <2>3, StatementOutcome
  <2>7. db.definition[row.def] # None
    BY <2>2, <2>4 DEF Core, Whole
  <2>8. CASE db' = b /\ ~NameTaken(db.status, s, row)
    <3>1. Whole(b)
      BY <2>4, <2>5, <2>7, <2>8, StatusPut DEF Core
    <3>2. Known(b, used \cup {})
      BY <2>2, <2>5 DEF Core, Known, Tables
    <3> QED BY <2>2, <2>5, <2>8, <3>1, <3>2, Counted
  <2> QED BY <2>2, <2>6, <2>8, Counted
<1> QED BY <1>1, <1>2

LEMMA DeleteStatusCore ==
  ASSUME Core, NEW s \in StatusId, DeleteStatus(s)
  PROVE  Core'
<1> DEFINE b == [db EXCEPT !.status[s] = None]
           checks == << <<"fkStepStatus", StatusReferenced(db, s)>> >>
<1>1. CASE Missing("status", s)
  BY <1>1, MissingCore
<1>2. CASE Statement(b, checks, "delete", "status", s, None) /\ Count({})
  <2>1. DOMAIN checks = {1} /\ checks[1][2] = StatusReferenced(db, s)
    OBVIOUS
  <2>2. /\ b \in Tables /\ b.status = [db.status EXCEPT ![s] = None]
        /\ b.definition = db.definition /\ b.step = db.step /\ b.action = db.action
    BY StatusChange DEF Core
  <2> HIDE DEF checks, b
  <2>3. (db' = b /\ ~StatusReferenced(db, s)) \/ db' = db
    BY <1>2, <2>1, StatementOutcome
  <2>4. CASE db' = b /\ ~StatusReferenced(db, s)
    <3>1. Whole(b)
      BY <2>2, <2>4, StatusGone DEF Core
    <3>2. Known(b, used \cup {})
      BY <2>2 DEF Core, Known, Tables
    <3> QED BY <1>2, <2>2, <2>4, <3>1, <3>2, Counted
  <2> QED BY <1>2, <2>3, <2>4, Counted
<1> QED BY <1>1, <1>2 DEF DeleteStatus

LEMMA AddStepCore ==
  ASSUME Core, NEW d \in DefId, NEW t \in StepId, NEW n \in Names, NEW s \in StatusId,
         AddStep(d, t, n, s)
  PROVE  Core'
<1> DEFINE row == [def |-> d, name |-> n, status |-> s]
           b == [db EXCEPT !.step[t] = row]
           checks == << <<"ixName", NameTaken(db.step, t, row)>>,
                        <<"fkStepWorkflow", db.definition[d] = None>>,
                        <<"fkStepStatus", ~In(db.status, s, d)>> >>
           allowed == /\ ~NameTaken(db.step, t, row) /\ db.definition[d] # None
                      /\ In(db.status, s, d)
<1>1. Statement(b, checks, "insert", "step", t, row) /\ Count({t}) /\ t \notin used
  BY DEF AddStep
<1>2. /\ DOMAIN checks = {1, 2, 3} /\ checks[1][2] = NameTaken(db.step, t, row)
      /\ checks[2][2] = (db.definition[d] = None) /\ checks[3][2] = ~In(db.status, s, d)
  OBVIOUS
<1>3. row \in StepRow
  BY DEF StepRow
<1>4. /\ b \in Tables /\ b.step = [db.step EXCEPT ![t] = row]
      /\ b.definition = db.definition /\ b.status = db.status /\ b.action = db.action
  BY <1>3, StepChange DEF Core
<1> HIDE DEF checks, b
<1>5. (db' = b /\ allowed) \/ db' = db
  BY <1>1, <1>2, StatementOutcome
<1>6. db.step[t] = None
  BY <1>1 DEF Core, Known
<1>7. CASE db' = b /\ allowed
  <2>1. Whole(b)
    BY <1>3, <1>4, <1>6, <1>7, StepPut DEF Core
  <2>2. Known(b, used \cup {t})
    BY <1>4 DEF Core, Known, Tables
  <2>3. {t} \in SUBSET Ids
    BY DEF Ids
  <2> QED BY <1>1, <1>4, <1>7, <2>1, <2>2, <2>3, Counted
<1>8. CASE db' = db
  BY <1>1, <1>8, Counted DEF Ids
<1> QED BY <1>5, <1>7, <1>8

LEMMA UpdateStepCore ==
  ASSUME Core, NEW t \in StepId, UpdateStep(t)
  PROVE  Core'
<1>1. CASE Missing("step", t)
  BY <1>1, MissingCore
<1>2. CASE ~Missing("step", t)
  <2>1. PICK n \in Names, s \in StatusId :
          LET row == [db.step[t] EXCEPT !.name = n, !.status = s] IN
          Statement([db EXCEPT !.step[t] = row],
            << <<"ixName", NameTaken(db.step, t, row)>>,
               <<"fkStepStatus", ~In(db.status, s, row.def)>> >>,
            "update", "step", t, row)
    BY <1>2 DEF UpdateStep
  <2>2. db.step[t] # None /\ Count({})
    BY <1>2 DEF UpdateStep
  <2> DEFINE row == [db.step[t] EXCEPT !.name = n, !.status = s]
             b == [db EXCEPT !.step[t] = row]
             checks == << <<"ixName", NameTaken(db.step, t, row)>>,
                          <<"fkStepStatus", ~In(db.status, s, row.def)>> >>
             allowed == ~NameTaken(db.step, t, row) /\ In(db.status, s, row.def)
  <2>3. /\ DOMAIN checks = {1, 2} /\ checks[1][2] = NameTaken(db.step, t, row)
        /\ checks[2][2] = ~In(db.status, s, row.def)
    OBVIOUS
  <2>4. row \in StepRow /\ row.def = db.step[t].def /\ row.status = s
    BY <2>2 DEF Core, Tables, StepRow
  <2>5. /\ b \in Tables /\ b.step = [db.step EXCEPT ![t] = row]
        /\ b.definition = db.definition /\ b.status = db.status /\ b.action = db.action
    BY <2>4, StepChange DEF Core
  <2>6. Statement(b, checks, "update", "step", t, row)
    BY <2>1
  <2> HIDE DEF checks, b, row
  <2>7. (db' = b /\ allowed) \/ db' = db
    BY <2>3, <2>6, StatementOutcome
  <2>8. db.definition[row.def] # None
    BY <2>2, <2>4 DEF Core, Whole
  <2>9. CASE db' = b /\ allowed
    <3>1. Whole(b)
      BY <2>4, <2>5, <2>8, <2>9, StepPut DEF Core
    <3>2. Known(b, used \cup {})
      BY <2>2, <2>5 DEF Core, Known, Tables
    <3> QED BY <2>2, <2>5, <2>9, <3>1, <3>2, Counted
  <2> QED BY <2>2, <2>7, <2>9, Counted
<1> QED BY <1>1, <1>2

LEMMA DeleteStepCore ==
  ASSUME Core, NEW t \in StepId, DeleteStep(t)
  PROVE  Core'
<1> DEFINE own == {a \in ActionId : db.action[a] # None /\ db.action[a].step = t}
           b == [db EXCEPT !.step[t] = None, !.action = Without(db.action, own)]
           checks == << <<"fkActionTarget", StepReferenced(b, t)>> >>
<1>1. CASE Missing("step", t)
  BY <1>1, MissingCore
<1>2. CASE Statement(b, checks, "delete", "step", t, None) /\ Count({})
  <2>1. DOMAIN checks = {1} /\ checks[1][2] = StepReferenced(b, t)
    OBVIOUS
  <2>2. /\ db.action \in [ActionId -> ActionRow \cup {None}]
        /\ db.step \in [StepId -> StepRow \cup {None}]
    BY DEF Core, Tables
  <2>3. /\ b.step = [db.step EXCEPT ![t] = None] /\ b.action = Without(db.action, own)
        /\ b.definition = db.definition /\ b.status = db.status
        /\ b = [definition |-> b.definition, status |-> b.status, step |-> b.step,
                action |-> b.action]
    <3> DEFINE kept == Without(db.action, own)
    <3>1. b = [db EXCEPT !.step = [db.step EXCEPT ![t] = None], !.action = kept]
      OBVIOUS
    <3> HIDE DEF kept, b
    <3>2. b = [definition |-> db.definition, status |-> db.status,
               step |-> [db.step EXCEPT ![t] = None], action |-> kept]
      BY <3>1 DEF Core, Tables
    <3> QED BY <3>2 DEF kept
  <2>4. /\ b.action \in [ActionId -> ActionRow \cup {None}]
        /\ b.step \in [StepId -> StepRow \cup {None}]
        /\ \A a \in ActionId : b.action[a] # None => db.action[a] # None
    BY <2>2, <2>3 DEF Without
  <2>5. b \in Tables
    BY <2>3, <2>4 DEF Core, Tables
  <2> HIDE DEF checks, b
  <2>6. (db' = b /\ ~StepReferenced(b, t)) \/ db' = db
    BY <1>2, <2>1, StatementOutcome
  <2>7. CASE db' = b /\ ~StepReferenced(b, t)
    <3>1. Whole(b)
      BY <2>3, <2>5, <2>7, StepGone DEF Core
    <3>2. Known(b, used \cup {})
      BY <2>2, <2>3, <2>4 DEF Core, Known
    <3> QED BY <1>2, <2>5, <2>7, <3>1, <3>2, Counted
  <2> QED BY <1>2, <2>6, <2>7, Counted
<1> QED BY <1>1, <1>2 DEF DeleteStep

LEMMA InsertActionCore ==
  ASSUME Core, NEW p \in Adders, adding[p] \in [step: StepId, def: DefId] \cup {None},
         NEW a \in ActionId, NEW n \in Names, NEW r \in Routes, InsertAction(p, a, n, r)
  PROVE  Core'
<1> DEFINE row == [def |-> adding[p].def, name |-> n, step |-> adding[p].step,
                   next |-> r.next, terminal |-> r.terminal]
           b == [db EXCEPT !.action[a] = row]
           checks == << <<"ckActionTerminalXOR", ~ExactlyOneTarget(row)>>,
                        <<"ixName", ActionNameTaken(db.action, a, row)>>,
                        <<"fkActionStep", ~In(db.step, row.step, row.def)>>,
                        <<"fkActionTarget", ~RoutesTo(db, row)>> >>
           allowed == /\ ExactlyOneTarget(row) /\ ~ActionNameTaken(db.action, a, row)
                      /\ In(db.step, row.step, row.def) /\ RoutesTo(db, row)
<1>1. Statement(b, checks, "insert", "action", a, row) /\ Count({a}) /\ a \notin used
  BY DEF InsertAction
<1>2. /\ DOMAIN checks = {1, 2, 3, 4} /\ checks[1][2] = ~ExactlyOneTarget(row)
      /\ checks[2][2] = ActionNameTaken(db.action, a, row)
      /\ checks[3][2] = ~In(db.step, row.step, row.def) /\ checks[4][2] = ~RoutesTo(db, row)
  OBVIOUS
<1>3. row \in ActionRow
  <2>1. adding[p] \in [step: StepId, def: DefId]
    BY DEF InsertAction
  <2> QED BY <2>1, CatalogAssumption DEF ActionRow
<1>4. /\ b \in Tables /\ b.action = [db.action EXCEPT ![a] = row]
      /\ b.definition = db.definition /\ b.status = db.status /\ b.step = db.step
  BY <1>3, ActionChange DEF Core
<1> HIDE DEF checks, b, row
<1>5. (db' = b /\ allowed) \/ db' = db
  BY <1>1, <1>2, StatementOutcome
<1>6. CASE db' = b /\ allowed
  <2>1. Whole(b)
    BY <1>3, <1>4, <1>6, ActionPut DEF Core
  <2>2. Known(b, used \cup {a})
    BY <1>4 DEF Core, Known, Tables
  <2>3. {a} \in SUBSET Ids
    BY DEF Ids
  <2> QED BY <1>1, <1>4, <1>6, <2>1, <2>2, <2>3, Counted
<1>7. CASE db' = db
  BY <1>1, <1>7, Counted DEF Ids
<1> QED BY <1>5, <1>6, <1>7

LEMMA UpdateActionCore ==
  ASSUME Core, NEW a \in ActionId, UpdateAction(a)
  PROVE  Core'
<1>1. CASE Missing("action", a)
  BY <1>1, MissingCore
<1>2. CASE ~Missing("action", a)
  <2>1. PICK n \in Names, r \in Routes :
          LET row == [db.action[a] EXCEPT !.name = n, !.next = r.next,
                                          !.terminal = r.terminal] IN
          Statement([db EXCEPT !.action[a] = row],
            << <<"ckActionTerminalXOR", ~ExactlyOneTarget(row)>>,
               <<"ixName", ActionNameTaken(db.action, a, row)>>,
               <<"fkActionTarget", ~RoutesTo(db, row)>> >>,
            "update", "action", a, row)
    BY <1>2 DEF UpdateAction
  <2>2. db.action[a] # None /\ Count({})
    BY <1>2 DEF UpdateAction
  <2> DEFINE row == [db.action[a] EXCEPT !.name = n, !.next = r.next, !.terminal = r.terminal]
             b == [db EXCEPT !.action[a] = row]
             checks == << <<"ckActionTerminalXOR", ~ExactlyOneTarget(row)>>,
                          <<"ixName", ActionNameTaken(db.action, a, row)>>,
                          <<"fkActionTarget", ~RoutesTo(db, row)>> >>
             allowed == /\ ExactlyOneTarget(row) /\ ~ActionNameTaken(db.action, a, row)
                        /\ RoutesTo(db, row)
  <2>3. /\ DOMAIN checks = {1, 2, 3} /\ checks[1][2] = ~ExactlyOneTarget(row)
        /\ checks[2][2] = ActionNameTaken(db.action, a, row)
        /\ checks[3][2] = ~RoutesTo(db, row)
    OBVIOUS
  <2>4. row \in ActionRow /\ row.def = db.action[a].def /\ row.step = db.action[a].step
    BY <2>2, CatalogAssumption DEF Core, Tables, ActionRow
  <2>5. /\ b \in Tables /\ b.action = [db.action EXCEPT ![a] = row]
        /\ b.definition = db.definition /\ b.status = db.status /\ b.step = db.step
    BY <2>4, ActionChange DEF Core
  <2>6. Statement(b, checks, "update", "action", a, row)
    BY <2>1
  <2> HIDE DEF checks, b, row
  <2>7. (db' = b /\ allowed) \/ db' = db
    BY <2>3, <2>6, StatementOutcome
  <2>8. In(db.step, row.step, row.def)
    BY <2>2, <2>4 DEF Core, Whole
  <2>9. CASE db' = b /\ allowed
    <3>1. Whole(b)
      BY <2>4, <2>5, <2>8, <2>9, ActionPut DEF Core
    <3>2. Known(b, used \cup {})
      BY <2>2, <2>5 DEF Core, Known, Tables
    <3> QED BY <2>2, <2>5, <2>9, <3>1, <3>2, Counted
  <2> QED BY <2>2, <2>7, <2>9, Counted
<1> QED BY <1>1, <1>2

LEMMA DeleteActionCore ==
  ASSUME Core, NEW a \in ActionId, DeleteAction(a)
  PROVE  Core'
<1> DEFINE b == [db EXCEPT !.action[a] = None]
<1>1. CASE Missing("action", a)
  BY <1>1, MissingCore
<1>2. CASE Statement(b, <<>>, "delete", "action", a, None) /\ Count({})
  <2>1. /\ b \in Tables /\ b.action = [db.action EXCEPT ![a] = None]
        /\ b.definition = db.definition /\ b.status = db.status /\ b.step = db.step
    BY ActionChange DEF Core
  <2> HIDE DEF b
  <2>2. db' = b \/ db' = db
    BY <1>2, StatementOutcome
  <2>3. b.action = Without(db.action, {a})
    BY <2>1 DEF Core, Tables, Without
  <2>4. Whole(b)
    BY <2>1, <2>3, ActionGone DEF Core
  <2>5. Known(b, used \cup {})
    BY <2>1 DEF Core, Known, Tables
  <2> QED BY <1>2, <2>1, <2>2, <2>4, <2>5, Counted
<1> QED BY <1>1, <1>2 DEF DeleteAction

LEMMA CreateCore ==
  ASSUME Core, NEW tree \in Trees, Create(tree)
  PROVE  Core'
<1> DEFINE b == Created(tree)
           refused == IF db.definition[tree.def] # None THEN {"primaryKey"}
                      ELSE RefusedRows(tree)
<1>1. CASE UNCHANGED <<db, used, edits>>
  BY <1>1, Unchanged
<1>2. CASE /\ tree.steps # <<>>
           /\ tree.entry \in {None} \cup {t.id : t \in TreeSteps(tree)}
           /\ refused = {} /\ ~Dangling(tree, b)
           /\ db' = b /\ Count(TreeIds(tree))
  <2>1. db.definition[tree.def] = None /\ RefusedRows(tree) = {}
    BY <1>2
  <2>2. /\ ~KeyTaken(tree) /\ ~NamedTwice(tree)
        /\ \A a \in tree.actions : ExactlyOneTarget(a)
    BY <2>1 DEF RefusedRows
  <2>3. \E t \in TreeSteps(tree) : t.id = EntryOf(tree)
    <3>1. tree.steps \in Seq(StepPart)
      BY TreesAssumption
    <3>2. tree.steps[1] \in TreeSteps(tree)
      BY <1>2, <3>1 DEF TreeSteps
    <3> QED BY <1>2, <3>2 DEF EntryOf
  <2>4. EntryOf(tree) \in StepId
    BY <2>3, TreeTyped DEF StepPart
  <2>5. b \in Tables /\ Adds(db, b, tree)
    BY <2>2, <2>4, CreatedAdds DEF Core
  <2> HIDE DEF b
  <2>6. Whole(b)
    BY <1>2, <2>1, <2>2, <2>3, <2>5, TreePut DEF Core
  <2>7. /\ \A r \in tree.statuses : r.id \in TreeIds(tree)
        /\ \A r \in TreeSteps(tree) : r.id \in TreeIds(tree)
        /\ \A r \in tree.actions : r.id \in TreeIds(tree)
    BY DEF TreeIds
  <2>8. Known(b, used \cup TreeIds(tree))
    <3>1. ASSUME NEW s \in StatusId, b.status[s] # None PROVE s \in used \cup TreeIds(tree)
      <4>1. (\A r \in tree.statuses : r.id # s) => b.status[s] = db.status[s]
        BY <2>5 DEF Adds
      <4> QED BY <3>1, <4>1, <2>7 DEF Core, Known
    <3>2. ASSUME NEW t \in StepId, b.step[t] # None PROVE t \in used \cup TreeIds(tree)
      <4>1. (\A r \in TreeSteps(tree) : r.id # t) => b.step[t] = db.step[t]
        BY <2>5 DEF Adds
      <4> QED BY <3>2, <4>1, <2>7 DEF Core, Known
    <3>3. ASSUME NEW a \in ActionId, b.action[a] # None PROVE a \in used \cup TreeIds(tree)
      <4>1. (\A r \in tree.actions : r.id # a) => b.action[a] = db.action[a]
        BY <2>5 DEF Adds
      <4> QED BY <3>3, <4>1, <2>7 DEF Core, Known
    <3> QED BY <3>1, <3>2, <3>3 DEF Known
  <2>9. TreeIds(tree) \in SUBSET Ids
    <3>1. /\ tree.def \in Ids
          /\ \A r \in tree.statuses : r.id \in Ids
          /\ \A r \in TreeSteps(tree) : r.id \in Ids
          /\ \A r \in tree.actions : r.id \in Ids
      BY TreeTyped DEF Ids, StatusPart, StepPart, ActionPart
    <3> QED BY <3>1 DEF TreeIds
  <2> QED BY <1>2, <2>5, <2>6, <2>8, <2>9, Counted
<1> QED BY <1>1, <1>2 DEF Create

-----------------------------------------------------------------------------
(* The callers between their statements.                                   *)

\* What has been read of a tree so far, in the order of the queries.
Answers(tree) ==
  {answer \in [definition: {tree.definition}, status: {None, tree.status},
               step: {None, tree.step}, action: {None, tree.action}] :
     /\ answer.step # None => answer.status # None
     /\ answer.action # None => answer.step # None}

\* A Get under way reads a definition as it stood when the tables were whole.
ReadOk(r) ==
  r # None => \E d \in DefId, b \in Tables : \E answer \in Answers(TreeOf(b, d)) :
    /\ Whole(b) /\ b.definition[d] # None
    /\ r = [def |-> d, snapshot |-> TreeOf(b, d), answer |-> answer]

AddersOk ==
  /\ DOMAIN adding = Adders
  /\ \A p \in Adders : adding[p] \in [step: StepId, def: DefId] \cup {None}

ReadersOk == DOMAIN reading = Readers /\ \A p \in Readers : ReadOk(reading[p])

Inv == Core /\ AddersOk /\ ReadersOk

LEMMA EditPartsCore ==
  ASSUME Core, AddersOk, EditParts
  PROVE  Core'
<1>1. ASSUME NEW tree \in Trees, Create(tree) PROVE Core'
  BY <1>1, CreateCore
<1>2. ASSUME NEW d \in DefId, DeleteWorkflowDefinition(d) PROVE Core'
  BY <1>2, DeleteWorkflowDefinitionCore
<1>3. ASSUME NEW d \in DefId, NEW s \in StatusId, NEW n \in Names, AddStatus(d, s, n)
      PROVE  Core'
  BY <1>3, AddStatusCore
<1>4. ASSUME NEW s \in StatusId, UpdateStatus(s) \/ DeleteStatus(s) PROVE Core'
  BY <1>4, UpdateStatusCore, DeleteStatusCore
<1>5. ASSUME NEW d \in DefId, NEW t \in StepId, NEW n \in Names, NEW s \in StatusId,
             AddStep(d, t, n, s)
      PROVE  Core'
  BY <1>5, AddStepCore
<1>6. ASSUME NEW t \in StepId, UpdateStep(t) \/ DeleteStep(t) PROVE Core'
  BY <1>6, UpdateStepCore, DeleteStepCore
<1>7. ASSUME NEW p \in Adders, NEW t \in StepId, ReadParent(p, t) PROVE Core'
  BY <1>7, Unchanged, MissingCore DEF ReadParent
<1>8. ASSUME NEW p \in Adders, NEW a \in ActionId, NEW n \in Names, NEW r \in Routes,
             InsertAction(p, a, n, r)
      PROVE  Core'
  BY <1>8, InsertActionCore DEF AddersOk
<1>9. ASSUME NEW a \in ActionId, UpdateAction(a) \/ DeleteAction(a) PROVE Core'
  BY <1>9, UpdateActionCore, DeleteActionCore
<1>10. ASSUME NEW p \in Adders, Fail(p) PROVE Core'
  BY <1>10, Unchanged DEF Fail
<1> QED
  BY <1>1, <1>2, <1>3, <1>4, <1>5, <1>6, <1>7, <1>8, <1>9, <1>10 DEF EditParts

LEMMA AddersStep ==
  ASSUME Core, AddersOk, Next
  PROVE  AddersOk'
<1>1. CASE UNCHANGED adding
  BY <1>1 DEF AddersOk
<1>2. ASSUME NEW p \in Adders, NEW t \in StepId, ReadParent(p, t), adding' # adding
      PROVE  AddersOk'
  <2>1. /\ db.step[t] # None
        /\ adding' = [adding EXCEPT ![p] = [step |-> t, def |-> db.step[t].def]]
    BY <1>2 DEF ReadParent
  <2>2. db.step[t].def \in DefId
    BY <2>1 DEF Core, Tables, StepRow
  <2> QED BY <2>1, <2>2 DEF AddersOk
<1>3. ASSUME NEW p \in Adders, adding' = [adding EXCEPT ![p] = None] PROVE AddersOk'
  BY <1>3 DEF AddersOk
<1>4. ASSUME EditParts PROVE AddersOk'
  <2>1. ASSUME NEW tree \in Trees, Create(tree) PROVE UNCHANGED adding
    BY <2>1 DEF Create
  <2>2. ASSUME NEW d \in DefId, DeleteWorkflowDefinition(d) PROVE UNCHANGED adding
    BY <2>2 DEF DeleteWorkflowDefinition
  <2>3. ASSUME NEW d \in DefId, NEW s \in StatusId, NEW n \in Names, AddStatus(d, s, n)
        PROVE  UNCHANGED adding
    BY <2>3 DEF AddStatus
  <2>4. ASSUME NEW s \in StatusId, UpdateStatus(s) \/ DeleteStatus(s) PROVE UNCHANGED adding
    BY <2>4 DEF UpdateStatus, DeleteStatus
  <2>5. ASSUME NEW d \in DefId, NEW t \in StepId, NEW n \in Names, NEW s \in StatusId,
               AddStep(d, t, n, s)
        PROVE  UNCHANGED adding
    BY <2>5 DEF AddStep
  <2>6. ASSUME NEW t \in StepId, UpdateStep(t) \/ DeleteStep(t) PROVE UNCHANGED adding
    BY <2>6 DEF UpdateStep, DeleteStep
  <2>7. ASSUME NEW p \in Adders, NEW a \in ActionId, NEW n \in Names, NEW r \in Routes,
               InsertAction(p, a, n, r)
        PROVE  AddersOk'
    BY <2>7, <1>3 DEF InsertAction
  <2>8. ASSUME NEW a \in ActionId, UpdateAction(a) \/ DeleteAction(a) PROVE UNCHANGED adding
    BY <2>8 DEF UpdateAction, DeleteAction
  <2>9. ASSUME NEW p \in Adders, Fail(p) PROVE AddersOk'
    BY <2>9, <1>1, <1>3 DEF Fail
  <2> QED
    BY <1>1, <1>2, <1>4, <2>1, <2>2, <2>3, <2>4, <2>5, <2>6, <2>7, <2>8, <2>9 DEF EditParts
<1>5. ASSUME NEW d \in DefId, NEW n \in Names, NEW t \in StepId,
             UpdateWorkflowDefinition(d, n, t)
      PROVE  UNCHANGED adding
  BY <1>5 DEF UpdateWorkflowDefinition
<1>6. ASSUME NEW p \in Readers, NEW d \in DefId, ReadDefinitionRow(p, d)
      PROVE  UNCHANGED adding
  BY <1>6 DEF ReadDefinitionRow
<1>7. ASSUME NEW p \in Readers, ReadTable(p) \/ Return(p) PROVE UNCHANGED adding
  BY <1>7 DEF ReadTable, Return
<1>8. ASSUME NEW p \in Readers, Fail(p) PROVE AddersOk'
  BY <1>8, <1>1, <1>3 DEF Fail
<1> QED
  BY <1>1, <1>4, <1>5, <1>6, <1>7, <1>8 DEF Next

LEMMA TreeAsRecord ==
  ASSUME NEW b \in Tables, NEW d \in DefId
  PROVE  /\ TreeOf(b, d).definition = b.definition[d]
         /\ TreeOf(b, d).status = PartsOf(b.status, d)
         /\ TreeOf(b, d).step = PartsOf(b.step, d)
         /\ TreeOf(b, d).action = PartsOf(b.action, d)
BY DEF TreeOf

LEMMA ReadDefinitionRowOk ==
  ASSUME Core, ReadersOk, NEW p \in Readers, NEW d \in DefId, ReadDefinitionRow(p, d)
  PROVE  ReadersOk'
<1> DEFINE answer == [definition |-> db.definition[d], status |-> None, step |-> None,
                      action |-> None]
           r == [def |-> d, snapshot |-> TreeOf(db, d), answer |-> answer]
<1>1. db.definition[d] # None /\ reading' = [reading EXCEPT ![p] = r]
  BY DEF ReadDefinitionRow
<1>2. db \in Tables /\ Whole(db)
  BY DEF Core
<1>3. answer \in Answers(TreeOf(db, d))
  BY <1>2, TreeAsRecord DEF Answers
<1> HIDE DEF answer
<1>4. ReadOk(r)
  BY <1>1, <1>2, <1>3 DEF ReadOk
<1> QED BY <1>1, <1>4 DEF ReadersOk

LEMMA ReadTableOk ==
  ASSUME ReadersOk, NEW p \in Readers, ReadTable(p)
  PROVE  ReadersOk'
<1>1. reading[p] # None
  BY DEF ReadTable
<1>0. PICK d \in DefId, b \in Tables : \E answer \in Answers(TreeOf(b, d)) :
        /\ Whole(b) /\ b.definition[d] # None
        /\ reading[p] = [def |-> d, snapshot |-> TreeOf(b, d), answer |-> answer]
  BY <1>1 DEF ReadersOk, ReadOk
<1>2. PICK answer \in Answers(TreeOf(b, d)) :
        /\ Whole(b) /\ b.definition[d] # None
        /\ reading[p] = [def |-> d, snapshot |-> TreeOf(b, d), answer |-> answer]
  BY <1>0
<1> DEFINE tree == TreeOf(b, d)
<1>3. reading[p].answer = answer /\ Seen(p) = tree
  BY <1>2 DEF Seen
<1>4. PICK table \in {"status", "step", "action"} :
        /\ reading[p].answer[table] = None
        /\ table = "step" => reading[p].answer["status"] # None
        /\ table = "action" => reading[p].answer["step"] # None
        /\ reading' = [reading EXCEPT ![p].answer[table] = Seen(p)[table]]
  BY DEF ReadTable
<1> DEFINE next == [answer EXCEPT ![table] = tree[table]]
<1> HIDE DEF tree
<1>5. reading' = [reading EXCEPT ![p] = [reading[p] EXCEPT !.answer = next]]
  BY <1>3, <1>4
<1>6. [reading[p] EXCEPT !.answer = next] = [def |-> d, snapshot |-> tree, answer |-> next]
  <2> HIDE DEF next
  <2> QED BY <1>2 DEF tree
<1>7. next \in Answers(tree)
  <2>1. answer \in Answers(tree)
    BY <1>2 DEF tree
  <2>2. CASE table = "status"
    BY <2>1, <2>2, <1>3, <1>4 DEF Answers
  <2>3. CASE table = "step"
    BY <2>1, <2>3, <1>3, <1>4 DEF Answers
  <2>4. CASE table = "action"
    BY <2>1, <2>4, <1>3, <1>4 DEF Answers
  <2> QED BY <1>4, <2>2, <2>3, <2>4
<1> HIDE DEF next
<1>8. ReadOk([def |-> d, snapshot |-> tree, answer |-> next])
  BY <1>2, <1>7 DEF ReadOk, tree
<1> QED BY <1>5, <1>6, <1>8 DEF ReadersOk

LEMMA ReadersStep ==
  ASSUME Core, ReadersOk, Next
  PROVE  ReadersOk'
<1>1. CASE UNCHANGED reading
  BY <1>1 DEF ReadersOk
<1>2. ASSUME NEW p \in Readers, reading' = [reading EXCEPT ![p] = None] PROVE ReadersOk'
  BY <1>2 DEF ReadersOk, ReadOk
<1>3. ASSUME NEW p, Fail(p) PROVE ReadersOk'
  BY <1>1, <1>2, <1>3 DEF Fail
<1>4. ASSUME EditParts PROVE ReadersOk'
  <2>1. ASSUME NEW tree \in Trees, Create(tree) PROVE UNCHANGED reading
    BY <2>1 DEF Create
  <2>2. ASSUME NEW d \in DefId, DeleteWorkflowDefinition(d) PROVE UNCHANGED reading
    BY <2>2 DEF DeleteWorkflowDefinition
  <2>3. ASSUME NEW d \in DefId, NEW s \in StatusId, NEW n \in Names, AddStatus(d, s, n)
        PROVE  UNCHANGED reading
    BY <2>3 DEF AddStatus
  <2>4. ASSUME NEW s \in StatusId, UpdateStatus(s) \/ DeleteStatus(s) PROVE UNCHANGED reading
    BY <2>4 DEF UpdateStatus, DeleteStatus
  <2>5. ASSUME NEW d \in DefId, NEW t \in StepId, NEW n \in Names, NEW s \in StatusId,
               AddStep(d, t, n, s)
        PROVE  UNCHANGED reading
    BY <2>5 DEF AddStep
  <2>6. ASSUME NEW t \in StepId, UpdateStep(t) \/ DeleteStep(t) PROVE UNCHANGED reading
    BY <2>6 DEF UpdateStep, DeleteStep
  <2>7. ASSUME NEW p \in Adders, NEW t \in StepId, ReadParent(p, t) PROVE UNCHANGED reading
    BY <2>7 DEF ReadParent
  <2>8. ASSUME NEW p \in Adders, NEW a \in ActionId, NEW n \in Names, NEW r \in Routes,
               InsertAction(p, a, n, r)
        PROVE  UNCHANGED reading
    BY <2>8 DEF InsertAction
  <2>9. ASSUME NEW a \in ActionId, UpdateAction(a) \/ DeleteAction(a) PROVE UNCHANGED reading
    BY <2>9 DEF UpdateAction, DeleteAction
  <2> QED
    BY <1>1, <1>3, <1>4, <2>1, <2>2, <2>3, <2>4, <2>5, <2>6, <2>7, <2>8, <2>9 DEF EditParts
<1>5. ASSUME NEW d \in DefId, NEW n \in Names, NEW t \in StepId,
             UpdateWorkflowDefinition(d, n, t)
      PROVE  UNCHANGED reading
  BY <1>5 DEF UpdateWorkflowDefinition
<1>6. ASSUME NEW p \in Readers, NEW d \in DefId, ReadDefinitionRow(p, d) PROVE ReadersOk'
  BY <1>6, ReadDefinitionRowOk
<1>7. ASSUME NEW p \in Readers, ReadTable(p) PROVE ReadersOk'
  BY <1>7, ReadTableOk
<1>8. ASSUME NEW p \in Readers, Return(p) PROVE ReadersOk'
  BY <1>8, <1>2 DEF Return
<1> QED
  BY <1>1, <1>3, <1>4, <1>5, <1>6, <1>7, <1>8 DEF Next

-----------------------------------------------------------------------------
(* The theorems.                                                           *)

LEMMA InitInv == Init => Inv
<1> SUFFICES ASSUME Init PROVE Inv
  OBVIOUS
<1>1. db \in Tables
  BY DEF Init, Tables
<1>2. Whole(db) /\ Known(db, used)
  BY DEF Init, Whole, Known
<1>3. used \subseteq Ids /\ edits \in 0..MaxEdits
  BY CatalogAssumption DEF Init
<1>4. AddersOk /\ ReadersOk
  BY DEF Init, AddersOk, ReadersOk, ReadOk
<1> QED BY <1>1, <1>2, <1>3, <1>4 DEF Inv, Core

LEMMA NextInv == Inv /\ [Next]_vars => Inv'
<1> SUFFICES ASSUME Inv, [Next]_vars PROVE Inv'
  OBVIOUS
<1>1. CASE UNCHANGED vars
  BY <1>1, Unchanged DEF Inv, vars, AddersOk, ReadersOk
<1>2. CASE Next
  <2>1. Core'
    <3>1. ASSUME NEW d \in DefId, NEW n \in Names, NEW t \in StepId,
                 UpdateWorkflowDefinition(d, n, t)
          PROVE  Core'
      BY <3>1, UpdateWorkflowDefinitionCore DEF Inv
    <3>2. ASSUME NEW p \in Readers, NEW d \in DefId, ReadDefinitionRow(p, d) PROVE Core'
      BY <3>2, Unchanged DEF Inv, ReadDefinitionRow
    <3>3. ASSUME NEW p \in Readers, ReadTable(p) \/ Return(p) \/ Fail(p) PROVE Core'
      BY <3>3, Unchanged DEF Inv, ReadTable, Return, Fail
    <3> QED BY <1>2, <3>1, <3>2, <3>3, EditPartsCore DEF Inv, Next
  <2>2. AddersOk' /\ ReadersOk'
    BY <1>2, AddersStep, ReadersStep DEF Inv
  <2> QED BY <2>1, <2>2 DEF Inv
<1> QED BY <1>1, <1>2

\* The inductive invariant: typed, whole tables of known ids, and reads of tables that
\* were whole.
THEOREM Invariance == Spec => []Inv
BY InitInv, NextInv, PTL DEF Spec

LEMMA InvImpliesTypeOK == Inv => TypeOK
BY DEF Inv, Core, AddersOk, Tables, TypeOK, Ids

\* The tables hold rows of their types, whatever callers ask for.
THEOREM TypeCorrectness == Spec => []TypeOK
BY Invariance, InvImpliesTypeOK, PTL

LEMMA InvImpliesWhole == Inv => DefinitionsAreWhole
BY DEF Inv, Core, DefinitionsAreWhole

\* No order of edits leaves a definition in pieces (catalog.go, migration 00001).
THEOREM DefinitionsAreWholeHolds == Spec => []DefinitionsAreWhole
BY Invariance, InvImpliesWhole, PTL

\* What p's Get answers with is a tree of tables that were whole.
LEMMA AnswerOfWhole ==
  ASSUME Inv, NEW p \in Readers, Answered(p)
  PROVE  \E d \in DefId, b \in Tables :
           Whole(b) /\ b.definition[d] # None /\ reading[p].answer = TreeOf(b, d)
<1>1. PICK d \in DefId, b \in Tables : \E answer \in Answers(TreeOf(b, d)) :
        /\ Whole(b) /\ b.definition[d] # None
        /\ reading[p] = [def |-> d, snapshot |-> TreeOf(b, d), answer |-> answer]
  BY DEF Inv, ReadersOk, ReadOk, Answered
<1>2. PICK answer \in Answers(TreeOf(b, d)) :
        reading[p] = [def |-> d, snapshot |-> TreeOf(b, d), answer |-> answer]
  BY <1>1
<1>3. reading[p].answer = answer /\ answer.action # None
  BY <1>2 DEF Answered
<1>4. /\ answer = [definition |-> answer.definition, status |-> answer.status,
                   step |-> answer.step, action |-> answer.action]
      /\ answer.definition = TreeOf(b, d).definition
      /\ answer.status = TreeOf(b, d).status
      /\ answer.step = TreeOf(b, d).step /\ answer.action = TreeOf(b, d).action
  BY <1>2, <1>3 DEF Answers
<1>5. TreeOf(b, d) = [definition |-> TreeOf(b, d).definition, status |-> TreeOf(b, d).status,
                      step |-> TreeOf(b, d).step, action |-> TreeOf(b, d).action]
  BY DEF TreeOf
<1> QED BY <1>1, <1>3, <1>4, <1>5

LEMMA IdsOfParts ==
  ASSUME NEW table, NEW d
  PROVE  /\ \A x \in PartsOf(table, d) :
              x[1] \in DOMAIN table /\ x[2] = table[x[1]] /\ In(table, x[1], d)
         /\ {x[1] : x \in PartsOf(table, d)} = {k \in DOMAIN table : In(table, k, d)}
<1>1. ASSUME NEW x \in PartsOf(table, d)
      PROVE  x[1] \in DOMAIN table /\ x[2] = table[x[1]] /\ In(table, x[1], d)
  BY DEF PartsOf
<1>2. ASSUME NEW k \in DOMAIN table, In(table, k, d) PROVE k \in {x[1] : x \in PartsOf(table, d)}
  <2>1. <<k, table[k]>> \in PartsOf(table, d)
    BY <1>2 DEF PartsOf
  <2>2. <<k, table[k]>>[1] = k
    OBVIOUS
  <2> QED BY <2>1, <2>2
<1>3. ASSUME NEW k \in {x[1] : x \in PartsOf(table, d)} PROVE k \in DOMAIN table /\ In(table, k, d)
  BY <1>1
<1> QED BY <1>1, <1>2, <1>3

\* The parts of a definition in the tables.
LEMMA PartsOfTables ==
  ASSUME NEW b \in Tables, NEW d \in DefId
  PROVE  /\ \A x \in PartsOf(b.status, d) :
              x[1] \in StatusId /\ x[2] = b.status[x[1]] /\ In(b.status, x[1], d)
         /\ \A x \in PartsOf(b.step, d) :
              x[1] \in StepId /\ x[2] = b.step[x[1]] /\ In(b.step, x[1], d)
         /\ \A x \in PartsOf(b.action, d) :
              x[1] \in ActionId /\ x[2] = b.action[x[1]] /\ In(b.action, x[1], d)
         /\ {x[1] : x \in PartsOf(b.status, d)} = {s \in StatusId : In(b.status, s, d)}
         /\ {x[1] : x \in PartsOf(b.step, d)} = {t \in StepId : In(b.step, t, d)}
<1>1. DOMAIN b.status = StatusId /\ DOMAIN b.step = StepId /\ DOMAIN b.action = ActionId
  BY DEF Tables
<1> QED BY <1>1, IdsOfParts

LEMMA InvImpliesGetIsWhole == Inv => GetIsWhole
<1> SUFFICES ASSUME Inv, NEW p \in Readers, Answered(p)
             PROVE  LET answer == reading[p].answer
                        status == {x[1] : x \in answer["status"]}
                        step == {x[1] : x \in answer["step"]}
                    IN /\ answer["definition"].entry \in step
                       /\ \A x \in answer["step"] : x[2].status \in status
                       /\ \A x \in answer["action"] :
                            /\ x[2].step \in step
                            /\ x[2].next \in step \cup {None}
                            /\ x[2].terminal \in status \cup {None}
  BY DEF GetIsWhole
<1>1. PICK d \in DefId, b \in Tables :
        Whole(b) /\ b.definition[d] # None /\ reading[p].answer = TreeOf(b, d)
  BY AnswerOfWhole
<1> DEFINE status == {x[1] : x \in PartsOf(b.status, d)}
           step == {x[1] : x \in PartsOf(b.step, d)}
<1>2. /\ status = {s \in StatusId : In(b.status, s, d)}
      /\ step = {t \in StepId : In(b.step, t, d)}
  BY <1>1, PartsOfTables
<1> HIDE DEF status, step
<1>3. b.definition[d].entry \in step
  <2>1. b.definition[d].entry \in StepId
    BY <1>1 DEF Tables, DefinitionRow
  <2> QED BY <1>1, <1>2, <2>1 DEF Whole
<1>4. ASSUME NEW x \in PartsOf(b.step, d) PROVE x[2].status \in status
  <2>1. x[1] \in StepId /\ x[2] = b.step[x[1]] /\ In(b.step, x[1], d)
    BY <1>1, PartsOfTables
  <2>2. b.step[x[1]].status \in StatusId
    BY <2>1 DEF Tables, StepRow, In
  <2> QED BY <1>1, <1>2, <2>1, <2>2 DEF Whole, In
<1>5. ASSUME NEW x \in PartsOf(b.action, d)
      PROVE  /\ x[2].step \in step
             /\ x[2].next \in step \cup {None}
             /\ x[2].terminal \in status \cup {None}
  <2>1. x[1] \in ActionId /\ x[2] = b.action[x[1]] /\ In(b.action, x[1], d)
    BY <1>1, PartsOfTables
  <2>2. b.action[x[1]] \in ActionRow /\ b.action[x[1]].def = d
    BY <2>1 DEF Tables, In
  <2>3. LET row == b.action[x[1]] IN
        /\ In(b.step, row.step, row.def)
        /\ row.next # None => In(b.step, row.next, row.def)
        /\ row.terminal # None => In(b.status, row.terminal, row.def)
    BY <1>1, <2>1 DEF Whole, In
  <2> QED BY <1>2, <2>1, <2>2, <2>3 DEF ActionRow
<1> QED BY <1>1, <1>3, <1>4, <1>5, TreeAsRecord DEF status, step

\* Get answers with a definition that was whole at some time (catalog.go, Get).
THEOREM GetIsWholeHolds == Spec => []GetIsWhole
BY Invariance, InvImpliesGetIsWhole, PTL

\* The names of a definition's statuses, as buildSnapshot maps them.
LEMMA NamesOfParts ==
  ASSUME NEW b \in Tables, NEW d \in DefId, NEW s \in StatusId, In(b.status, s, d),
         NEW parts, parts = PartsOf(b.status, d)
  PROVE  (CHOOSE x \in parts : x[1] = s)[2].name \in Names
<1> DEFINE chosen == CHOOSE x \in parts : x[1] = s
<1>1. \E x \in parts : x[1] = s
  <2>1. s \in {x[1] : x \in PartsOf(b.status, d)}
    BY PartsOfTables
  <2> QED BY <2>1
<1>2. chosen \in parts /\ chosen[1] = s
  BY <1>1
<1> HIDE DEF chosen
<1>3. chosen[2] = b.status[s]
  BY <1>2, PartsOfTables
<1>4. b.status[s].name \in Names
  BY DEF Tables, StatusRow, In
<1> QED BY <1>3, <1>4 DEF chosen

LEMMA SnapshotOfWhole ==
  ASSUME NEW b \in Tables, Whole(b), NEW d \in DefId, b.definition[d] # None
  PROVE  Closed(TreeOf(b, d))
<1> DEFINE tree == TreeOf(b, d)
           frozen == BuildSnapshot(tree)
           stepIds == [t \in {x[1] : x \in tree.step} |-> <<"row", t>>]
           names == [s \in {x[1] : x \in tree.status} |->
                       (CHOOSE x \in tree.status : x[1] = s)[2].name]
           Row(x) == [id |-> stepIds[x[1]], step |-> x[1], status |-> x[2].status,
                      statusName |-> Lookup(names, x[2].status)]
           ActionRowOf(x) ==
             [action |-> x[1], step |-> stepIds[x[2].step], next |-> NextId(stepIds, x[2].next),
              terminal |-> x[2].terminal,
              terminalName |-> IF x[2].terminal = None THEN None
                               ELSE Lookup(names, x[2].terminal)]
           rows == {Row(x) : x \in tree.step}
           entry == IF tree.definition.entry \in DOMAIN stepIds
                    THEN CHOOSE row \in rows : row.step = tree.definition.entry
                    ELSE [id |-> Zero, step |-> Zero, status |-> Zero, statusName |-> Zero]
           S == {t \in StepId : In(b.step, t, d)}
           actions == {ActionRowOf(x) : x \in {y \in tree.action : y[2].step \in DOMAIN stepIds}}
<1>1. /\ frozen.step = rows /\ frozen.action = actions
      /\ frozen.workflow = [status |-> entry.status, statusName |-> entry.statusName]
      /\ frozen.firstVisit = entry.id
  BY DEF BuildSnapshot
<1>2. /\ tree.definition = b.definition[d] /\ tree.status = PartsOf(b.status, d)
      /\ tree.step = PartsOf(b.step, d) /\ tree.action = PartsOf(b.action, d)
  BY TreeAsRecord
<1> HIDE DEF tree, frozen
<1>3. DOMAIN stepIds = S /\ \A t \in S : stepIds[t] = <<"row", t>>
  BY <1>2, PartsOfTables
<1>4. ASSUME NEW s \in StatusId, In(b.status, s, d)
      PROVE  Lookup(names, s) \in Names
  <2>1. s \in DOMAIN names
    BY <1>2, <1>4, PartsOfTables
  <2>2. names[s] \in Names
    <3>1. names[s] = (CHOOSE x \in tree.status : x[1] = s)[2].name
      BY <2>1
    <3> QED BY <1>2, <1>4, <3>1, NamesOfParts
  <2> HIDE DEF names
  <2> QED BY <2>1, <2>2 DEF Lookup
<1> HIDE DEF stepIds, names
<1>5. ASSUME NEW x \in tree.step
      PROVE  /\ x[1] \in S /\ x[2] = b.step[x[1]]
             /\ x[2].status \in StatusId /\ In(b.status, x[2].status, d)
  <2>1. x[1] \in StepId /\ x[2] = b.step[x[1]] /\ In(b.step, x[1], d)
    BY <1>2, PartsOfTables
  <2>2. b.step[x[1]] \in StepRow /\ b.step[x[1]].def = d
    BY <2>1 DEF Tables, In
  <2>3. In(b.status, b.step[x[1]].status, b.step[x[1]].def)
    BY <2>1 DEF Whole, In
  <2> QED BY <2>1, <2>2, <2>3 DEF StepRow
<1>6. \A t \in S : \E row \in rows : row.step = t /\ row.id = stepIds[t]
  <2> SUFFICES ASSUME NEW t \in S PROVE \E row \in rows : row.step = t /\ row.id = stepIds[t]
    OBVIOUS
  <2>1. t \in {x[1] : x \in tree.step}
    BY <1>2, PartsOfTables
  <2>2. PICK x \in tree.step : x[1] = t
    BY <2>1
  <2>3. Row(x) \in rows /\ Row(x).step = t /\ Row(x).id = stepIds[t]
    BY <2>2
  <2> QED BY <2>3
<1>7. entry \in rows
  <2>1. b.definition[d].entry \in S
    <3>1. b.definition[d].entry \in StepId
      BY DEF Tables, DefinitionRow
    <3> QED BY <3>1 DEF Whole
  <2>2. tree.definition.entry \in DOMAIN stepIds
    BY <1>2, <1>3, <2>1
  <2>3. \E row \in rows : row.step = tree.definition.entry
    BY <1>3, <1>6, <2>2
  <2> HIDE DEF rows
  <2> QED BY <2>2, <2>3
<1>8. \A row \in rows : row.statusName # Zero
  <2> SUFFICES ASSUME NEW x \in tree.step PROVE Row(x).statusName # Zero
    OBVIOUS
  <2> QED BY <1>4, <1>5, ZeroAssumption
<1>9. \A t \in S : stepIds[t] \in {row.id : row \in rows}
  BY <1>6
<1>10. ASSUME NEW x \in tree.action
       PROVE  /\ x[2].step \in S /\ x[2].next \in S \cup {None}
              /\ x[2].terminal # None => x[2].terminal \in StatusId /\ In(b.status, x[2].terminal, d)
              /\ ExactlyOneTarget(x[2])
  <2>1. x[1] \in ActionId /\ x[2] = b.action[x[1]] /\ In(b.action, x[1], d)
    BY <1>2, PartsOfTables
  <2>2. b.action[x[1]] \in ActionRow /\ b.action[x[1]].def = d
    BY <2>1 DEF Tables, In
  <2>3. LET row == b.action[x[1]] IN
        /\ In(b.step, row.step, row.def) /\ ExactlyOneTarget(row)
        /\ row.next # None => In(b.step, row.next, row.def)
        /\ row.terminal # None => In(b.status, row.terminal, row.def)
    BY <2>1 DEF Whole, In
  <2> QED BY <2>1, <2>2, <2>3 DEF ActionRow
<1>11. actions = {ActionRowOf(x) : x \in tree.action}
  <2>1. {y \in tree.action : y[2].step \in DOMAIN stepIds} = tree.action
    BY <1>3, <1>10
  <2> QED BY <2>1
<1>12. {row.action : row \in actions} = {x[1] : x \in tree.action}
  <2>1. \A x \in tree.action : ActionRowOf(x).action = x[1]
    OBVIOUS
  <2> HIDE DEF ActionRowOf, actions
  <2>2. \A k \in {row.action : row \in actions} : k \in {x[1] : x \in tree.action}
    BY <1>11, <2>1
  <2>3. ASSUME NEW x \in tree.action PROVE x[1] \in {row.action : row \in actions}
    BY <1>11, <2>1
  <2> QED BY <2>2, <2>3
<1>13. ASSUME NEW x \in tree.action
       PROVE  LET row == ActionRowOf(x) IN
              /\ row.step \in {r.id : r \in rows}
              /\ \/ row.next \in {r.id : r \in rows} /\ row.terminal = None /\ row.terminalName = None
                 \/ /\ row.next = None /\ row.terminal # None
                    /\ row.terminalName \in Names
  <2> HIDE DEF rows
  <2>1. stepIds[x[2].step] \in {r.id : r \in rows}
    BY <1>9, <1>10
  <2>2. CASE x[2].next = None
    BY <2>1, <2>2, <1>4, <1>10 DEF ExactlyOneTarget, NextId
  <2>3. CASE x[2].next # None
    <3>1. NextId(stepIds, x[2].next) = stepIds[x[2].next] /\ x[2].next \in S
      BY <2>3, <1>3, <1>10 DEF NextId, Lookup
    <3>2. x[2].terminal = None
      BY <2>3, <1>10 DEF ExactlyOneTarget
    <3> QED BY <2>1, <3>1, <3>2, <1>9
  <2> QED BY <2>2, <2>3
<1> HIDE DEF rows, entry, actions, ActionRowOf
<1>14. \A row \in actions :
         /\ row.step \in {r.id : r \in rows}
         /\ \/ row.next \in {r.id : r \in rows} /\ row.terminal = None /\ row.terminalName = None
            \/ row.next = None /\ row.terminal # None /\ row.terminalName \in Names
  BY <1>11, <1>13
<1>15. /\ frozen.firstVisit = entry.id
       /\ frozen.workflow = [status |-> entry.status, statusName |-> entry.statusName]
  BY <1>1
<1> QED BY <1>1, <1>7, <1>8, <1>12, <1>14, <1>15 DEF frozen, tree, Closed

LEMMA InvImpliesSnapshotIsClosed == Inv => SnapshotIsClosed
<1> SUFFICES ASSUME Inv, NEW p \in Readers, Answered(p) PROVE Closed(reading[p].answer)
  BY DEF SnapshotIsClosed
<1>1. PICK d \in DefId, b \in Tables :
        Whole(b) /\ b.definition[d] # None /\ reading[p].answer = TreeOf(b, d)
  BY AnswerOfWhole
<1> QED BY <1>1, SnapshotOfWhole

\* Neither lookup of buildSnapshot can miss (engine.go).
THEOREM SnapshotIsClosedHolds == Spec => []SnapshotIsClosed
BY Invariance, InvImpliesSnapshotIsClosed, PTL

-----------------------------------------------------------------------------
(* What callers are told.                                                  *)

\* What r says is so, of the tables it is said of.
IsSo(r) == ErrorIsTrue(r.error, r.table, r.id, r.row)

LEMMA SuccessIsSo == ASSUME NEW r, r = Success PROVE IsSo(r)
BY DEF IsSo, Success, ErrorIsTrue

\* A statement is refused for the first constraint that it violates.
LEMMA Refusal ==
  ASSUME NEW b, NEW checks, NEW kind, NEW table, NEW id, NEW row,
         Statement(b, checks, kind, table, id, row), NEW r, r = reply', r # Success
  PROVE  \E i \in DOMAIN checks :
           /\ checks[i][2] /\ \A j \in DOMAIN checks : checks[j][2] => i <= j
           /\ r.error = ErrorOf(kind, checks[i][1])
           /\ r.table = table /\ r.id = id /\ r.row = row
BY DEF Statement, Reply

\* The errors the constraints are mapped to, by intent.
LEMMA Intents ==
  /\ ErrorOf("insert", "ixName") = "DuplicateName"
  /\ ErrorOf("update", "ixName") = "DuplicateName"
  /\ ErrorOf("insert", "ckActionTerminalXOR") = "InvalidAction"
  /\ ErrorOf("update", "ckActionTerminalXOR") = "InvalidAction"
  /\ ErrorOf("insert", "fkStatusWorkflow") = "NotFound"
  /\ ErrorOf("insert", "fkStepWorkflow") = "NotFound"
  /\ ErrorOf("insert", "fkActionStep") = "NotFound"
  /\ ErrorOf("insert", "fkStepStatus") = "CrossDefinition"
  /\ ErrorOf("insert", "fkActionTarget") = "CrossDefinition"
  /\ ErrorOf("update", "fkInitialStep") = "CrossDefinition"
  /\ ErrorOf("update", "fkStepStatus") = "CrossDefinition"
  /\ ErrorOf("update", "fkActionTarget") = "CrossDefinition"
  /\ ErrorOf("delete", "fkStepStatus") = "Referenced"
  /\ ErrorOf("delete", "fkActionTarget") = "Referenced"
BY DEF ErrorOf, MapInsert, MapWrite, MapCommon, MapDelete, ReferenceFKs, ParentFKs

LEMMA MissingIsSo ==
  ASSUME NEW table \in {"definition", "status", "step", "action"}, NEW id,
         Missing(table, id), NEW r, r = reply'
  PROVE  IsSo(r)
BY DEF Missing, Reply, IsSo, ErrorIsTrue

LEMMA UpdateWorkflowDefinitionIsSo ==
  ASSUME NEW d \in DefId, NEW n \in Names, NEW t \in StepId,
         UpdateWorkflowDefinition(d, n, t), NEW r, r = reply'
  PROVE  IsSo(r)
<1> DEFINE row == [name |-> n, entry |-> t]
           b == [db EXCEPT !.definition[d] = row]
           checks == << <<"fkInitialStep", ~In(db.step, t, d)>> >>
<1>1. CASE Missing("definition", d)
  BY <1>1, MissingIsSo
<1>2. CASE Statement(b, checks, "update", "definition", d, row) /\ r # Success
  <2>1. /\ DOMAIN checks = {1} /\ checks[1][1] = "fkInitialStep"
        /\ (checks[1][2] <=> ~In(db.step, t, d))
    <3>1. /\ DOMAIN checks = {1} /\ checks[1][1] = "fkInitialStep"
          /\ checks[1][2] = ~In(db.step, t, d)
      OBVIOUS
    <3> HIDE DEF checks, b, row
    <3> QED BY <3>1
  <2>2. row # None /\ row.entry = t
    BY NoneIsNoRow DEF DefinitionRow
  <2> HIDE DEF checks, b, row
  <2>3. PICK i \in DOMAIN checks :
          /\ checks[i][2] /\ r.error = ErrorOf("update", checks[i][1])
          /\ r.table = "definition" /\ r.id = d /\ r.row = row
    BY <1>2, Refusal
  <2>4. ~In(db.step, t, d) /\ r.error = "CrossDefinition"
    BY <2>1, <2>3, Intents
  <2> QED BY <2>2, <2>3, <2>4 DEF IsSo, ErrorIsTrue
<1> QED BY <1>1, <1>2, SuccessIsSo DEF UpdateWorkflowDefinition

\* Deleting a definition is never refused: its parts refer to one another only.
LEMMA DeleteWorkflowDefinitionIsSo ==
  ASSUME Core, NEW d \in DefId, DeleteWorkflowDefinition(d), NEW r, r = reply'
  PROVE  IsSo(r)
<1> DEFINE b == [definition |-> [db.definition EXCEPT ![d] = None],
                 status |-> Without(db.status, {s \in StatusId : In(db.status, s, d)}),
                 step |-> Without(db.step, {t \in StepId : In(db.step, t, d)}),
                 action |-> Without(db.action, {a \in ActionId : In(db.action, a, d)})]
           checks == << <<"fkStepStatus", \E s \in StatusId :
                            In(db.status, s, d) /\ StatusReferenced(b, s)>>,
                        <<"fkActionTarget", \E t \in StepId :
                            In(db.step, t, d) /\ StepReferenced(b, t)>> >>
<1>1. CASE Missing("definition", d)
  BY <1>1, MissingIsSo
<1>2. CASE Statement(b, checks, "delete", "definition", d, None)
  <2>1. /\ db.definition \in [DefId -> DefinitionRow \cup {None}]
        /\ db.status \in [StatusId -> StatusRow \cup {None}]
        /\ db.step \in [StepId -> StepRow \cup {None}]
        /\ db.action \in [ActionId -> ActionRow \cup {None}]
    BY DEF Core, Tables
  <2>2. /\ b.definition \in [DefId -> DefinitionRow \cup {None}]
        /\ b.status \in [StatusId -> StatusRow \cup {None}]
        /\ b.step \in [StepId -> StepRow \cup {None}]
        /\ b.action \in [ActionId -> ActionRow \cup {None}]
    BY <2>1 DEF Without
  <2>3. b \in Tables
    BY <2>2 DEF Tables
  <2>4. /\ \A s \in StatusId : In(db.status, s, d) => b.status[s] = None
        /\ \A t \in StepId : In(db.step, t, d) => b.step[t] = None
    BY <2>1 DEF Without
  <2>5. Whole(b)
    BY <2>3, DefinitionGone DEF Core
  <2>6. /\ DOMAIN checks = {1, 2}
        /\ checks[1][2] = \E s \in StatusId : In(db.status, s, d) /\ StatusReferenced(b, s)
        /\ checks[2][2] = \E t \in StepId : In(db.step, t, d) /\ StepReferenced(b, t)
    OBVIOUS
  <2> HIDE DEF b, checks
  <2>7. ASSUME NEW s \in StatusId, In(db.status, s, d) PROVE ~StatusReferenced(b, s)
    BY <2>4, <2>5, <2>7, NoneIsNoId DEF Whole, In, StatusReferenced
  <2>8. ASSUME NEW t \in StepId, In(db.step, t, d) PROVE ~StepReferenced(b, t)
    BY <2>4, <2>5, <2>8, NoneIsNoId DEF Whole, In, StepReferenced
  <2>9. ~checks[1][2] /\ ~checks[2][2]
    BY <2>6, <2>7, <2>8
  <2>10. ASSUME r # Success PROVE FALSE
    <3>1. \E i \in DOMAIN checks : checks[i][2]
      BY <1>2, <2>10, Refusal
    <3> QED BY <2>6, <2>9, <3>1
  <2> QED BY <2>10, SuccessIsSo
<1> QED BY <1>1, <1>2 DEF DeleteWorkflowDefinition

LEMMA AddStatusIsSo ==
  ASSUME NEW d \in DefId, NEW s \in StatusId, NEW n \in Names, AddStatus(d, s, n),
         NEW r, r = reply'
  PROVE  IsSo(r)
<1> DEFINE row == [def |-> d, name |-> n]
           b == [db EXCEPT !.status[s] = row]
           checks == << <<"ixName", NameTaken(db.status, s, row)>>,
                        <<"fkStatusWorkflow", db.definition[d] = None>> >>
<1>1. Statement(b, checks, "insert", "status", s, row)
  BY DEF AddStatus
<1>2. /\ DOMAIN checks = {1, 2}
      /\ checks[1][1] = "ixName" /\ (checks[1][2] <=> NameTaken(db.status, s, row))
      /\ checks[2][1] = "fkStatusWorkflow" /\ (checks[2][2] <=> db.definition[d] = None)
  <2>1. /\ DOMAIN checks = {1, 2}
        /\ checks[1][1] = "ixName" /\ checks[1][2] = NameTaken(db.status, s, row)
        /\ checks[2][1] = "fkStatusWorkflow" /\ checks[2][2] = (db.definition[d] = None)
    OBVIOUS
  <2> HIDE DEF checks, b, row
  <2> QED BY <2>1
<1>3. row # None /\ row.def = d
  BY NoneIsNoRow DEF StatusRow
<1> HIDE DEF checks, b, row
<1> SUFFICES ASSUME r # Success PROVE IsSo(r)
  BY SuccessIsSo
<1>4. PICK i \in DOMAIN checks :
        /\ checks[i][2] /\ r.error = ErrorOf("insert", checks[i][1])
        /\ r.table = "status" /\ r.id = s /\ r.row = row
  BY <1>1, Refusal
<1>5. CASE i = 1
  <2>1. NameTaken(db.status, s, row) /\ r.error = "DuplicateName"
    BY <1>2, <1>4, <1>5, Intents
  <2> QED BY <1>4, <2>1 DEF IsSo, ErrorIsTrue
<1>6. CASE i = 2
  <2>1. db.definition[d] = None /\ r.error = "NotFound"
    BY <1>2, <1>4, <1>6, Intents
  <2> QED BY <1>3, <1>4, <2>1 DEF IsSo, ErrorIsTrue
<1> QED BY <1>2, <1>4, <1>5, <1>6

LEMMA UpdateStatusIsSo ==
  ASSUME NEW s \in StatusId, UpdateStatus(s), NEW r, r = reply'
  PROVE  IsSo(r)
<1> SUFFICES ASSUME r # Success, db.status[s] # None PROVE IsSo(r)
  BY SuccessIsSo, MissingIsSo DEF UpdateStatus
<1>1. PICK n \in Names :
        Statement([db EXCEPT !.status[s] = [db.status[s] EXCEPT !.name = n]],
          << <<"ixName", NameTaken(db.status, s, [db.status[s] EXCEPT !.name = n])>> >>,
          "update", "status", s, [db.status[s] EXCEPT !.name = n])
  BY DEF UpdateStatus, Missing
<1> DEFINE row == [db.status[s] EXCEPT !.name = n]
           b == [db EXCEPT !.status[s] = row]
           checks == << <<"ixName", NameTaken(db.status, s, row)>> >>
<1>2. /\ DOMAIN checks = {1} /\ checks[1][1] = "ixName"
      /\ (checks[1][2] <=> NameTaken(db.status, s, row))
  <2>1. /\ DOMAIN checks = {1} /\ checks[1][1] = "ixName"
        /\ checks[1][2] = NameTaken(db.status, s, row)
    OBVIOUS
  <2> HIDE DEF checks, b, row
  <2> QED BY <2>1
<1>3. Statement(b, checks, "update", "status", s, row)
  BY <1>1
<1> HIDE DEF checks, b, row
<1>4. PICK i \in DOMAIN checks :
        /\ checks[i][2] /\ r.error = ErrorOf("update", checks[i][1])
        /\ r.table = "status" /\ r.id = s /\ r.row = row
  BY <1>3, Refusal
<1>5. NameTaken(db.status, s, row) /\ r.error = "DuplicateName"
  BY <1>2, <1>4, Intents
<1> QED BY <1>4, <1>5 DEF IsSo, ErrorIsTrue

LEMMA DeleteStatusIsSo ==
  ASSUME NEW s \in StatusId, DeleteStatus(s), NEW r, r = reply'
  PROVE  IsSo(r)
<1> DEFINE b == [db EXCEPT !.status[s] = None]
           checks == << <<"fkStepStatus", StatusReferenced(db, s)>> >>
<1> SUFFICES ASSUME r # Success, Statement(b, checks, "delete", "status", s, None)
             PROVE  IsSo(r)
  BY SuccessIsSo, MissingIsSo DEF DeleteStatus
<1>1. /\ DOMAIN checks = {1} /\ checks[1][1] = "fkStepStatus"
      /\ (checks[1][2] <=> StatusReferenced(db, s))
  <2>1. /\ DOMAIN checks = {1} /\ checks[1][1] = "fkStepStatus"
        /\ checks[1][2] = StatusReferenced(db, s)
    OBVIOUS
  <2> HIDE DEF checks, b
  <2> QED BY <2>1
<1> HIDE DEF checks, b
<1>2. PICK i \in DOMAIN checks :
        /\ checks[i][2] /\ r.error = ErrorOf("delete", checks[i][1])
        /\ r.table = "status" /\ r.id = s
  BY Refusal
<1>3. StatusReferenced(db, s) /\ r.error = "Referenced"
  BY <1>1, <1>2, Intents
<1> QED BY <1>2, <1>3 DEF IsSo, ErrorIsTrue

LEMMA AddStepIsSo ==
  ASSUME NEW d \in DefId, NEW t \in StepId, NEW n \in Names, NEW s \in StatusId,
         AddStep(d, t, n, s), NEW r, r = reply'
  PROVE  IsSo(r)
<1> DEFINE row == [def |-> d, name |-> n, status |-> s]
           b == [db EXCEPT !.step[t] = row]
           checks == << <<"ixName", NameTaken(db.step, t, row)>>,
                        <<"fkStepWorkflow", db.definition[d] = None>>,
                        <<"fkStepStatus", ~In(db.status, s, d)>> >>
<1> SUFFICES ASSUME r # Success PROVE IsSo(r)
  BY SuccessIsSo
<1>1. Statement(b, checks, "insert", "step", t, row)
  BY DEF AddStep
<1>2. /\ DOMAIN checks = {1, 2, 3}
      /\ checks[1][1] = "ixName" /\ (checks[1][2] <=> NameTaken(db.step, t, row))
      /\ checks[2][1] = "fkStepWorkflow" /\ (checks[2][2] <=> db.definition[d] = None)
      /\ checks[3][1] = "fkStepStatus" /\ (checks[3][2] <=> ~In(db.status, s, d))
  <2>1. /\ DOMAIN checks = {1, 2, 3}
        /\ checks[1][1] = "ixName" /\ checks[1][2] = NameTaken(db.step, t, row)
        /\ checks[2][1] = "fkStepWorkflow" /\ checks[2][2] = (db.definition[d] = None)
        /\ checks[3][1] = "fkStepStatus" /\ checks[3][2] = ~In(db.status, s, d)
    OBVIOUS
  <2> HIDE DEF checks, b, row
  <2> QED BY <2>1
<1>3. row # None /\ row.def = d /\ row.status = s
  BY NoneIsNoRow DEF StepRow
<1> HIDE DEF checks, b, row
<1>4. PICK i \in DOMAIN checks :
        /\ checks[i][2] /\ r.error = ErrorOf("insert", checks[i][1])
        /\ r.table = "step" /\ r.id = t /\ r.row = row
  BY <1>1, Refusal
<1>5. CASE i = 1
  <2>1. NameTaken(db.step, t, row) /\ r.error = "DuplicateName"
    BY <1>2, <1>4, <1>5, Intents
  <2> QED BY <1>4, <2>1 DEF IsSo, ErrorIsTrue
<1>6. CASE i = 2
  <2>1. db.definition[d] = None /\ r.error = "NotFound"
    BY <1>2, <1>4, <1>6, Intents
  <2> QED BY <1>3, <1>4, <2>1 DEF IsSo, ErrorIsTrue
<1>7. CASE i = 3
  <2>1. ~In(db.status, s, d) /\ r.error = "CrossDefinition"
    BY <1>2, <1>4, <1>7, Intents
  <2> QED BY <1>3, <1>4, <2>1 DEF IsSo, ErrorIsTrue
<1> QED BY <1>2, <1>4, <1>5, <1>6, <1>7

LEMMA UpdateStepIsSo ==
  ASSUME Core, NEW t \in StepId, UpdateStep(t), NEW r, r = reply'
  PROVE  IsSo(r)
<1> SUFFICES ASSUME r # Success, db.step[t] # None PROVE IsSo(r)
  BY SuccessIsSo, MissingIsSo DEF UpdateStep
<1>1. PICK n \in Names, s \in StatusId :
        LET row == [db.step[t] EXCEPT !.name = n, !.status = s] IN
        Statement([db EXCEPT !.step[t] = row],
          << <<"ixName", NameTaken(db.step, t, row)>>,
             <<"fkStepStatus", ~In(db.status, s, row.def)>> >>,
          "update", "step", t, row)
  BY DEF UpdateStep, Missing
<1> DEFINE row == [db.step[t] EXCEPT !.name = n, !.status = s]
           b == [db EXCEPT !.step[t] = row]
           checks == << <<"ixName", NameTaken(db.step, t, row)>>,
                        <<"fkStepStatus", ~In(db.status, s, row.def)>> >>
<1>2. /\ DOMAIN checks = {1, 2}
      /\ checks[1][1] = "ixName" /\ (checks[1][2] <=> NameTaken(db.step, t, row))
      /\ checks[2][1] = "fkStepStatus" /\ (checks[2][2] <=> ~In(db.status, s, row.def))
  <2>1. /\ DOMAIN checks = {1, 2}
        /\ checks[1][1] = "ixName" /\ checks[1][2] = NameTaken(db.step, t, row)
        /\ checks[2][1] = "fkStepStatus" /\ checks[2][2] = ~In(db.status, s, row.def)
    OBVIOUS
  <2> HIDE DEF checks, b, row
  <2> QED BY <2>1
<1>3. row.status = s
  BY DEF Core, Tables, StepRow
<1>4. Statement(b, checks, "update", "step", t, row)
  BY <1>1
<1> HIDE DEF checks, b, row
<1>5. PICK i \in DOMAIN checks :
        /\ checks[i][2] /\ r.error = ErrorOf("update", checks[i][1])
        /\ r.table = "step" /\ r.id = t /\ r.row = row
  BY <1>4, Refusal
<1>6. CASE i = 1
  <2>1. NameTaken(db.step, t, row) /\ r.error = "DuplicateName"
    BY <1>2, <1>5, <1>6, Intents
  <2> QED BY <1>5, <2>1 DEF IsSo, ErrorIsTrue
<1>7. CASE i = 2
  <2>1. ~In(db.status, s, row.def) /\ r.error = "CrossDefinition"
    BY <1>2, <1>5, <1>7, Intents
  <2> QED BY <1>3, <1>5, <2>1 DEF IsSo, ErrorIsTrue
<1> QED BY <1>2, <1>5, <1>6, <1>7

\* The referrer that is left after the cascade was there before.
LEMMA DeleteStepIsSo ==
  ASSUME Core, NEW t \in StepId, DeleteStep(t), NEW r, r = reply'
  PROVE  IsSo(r)
<1> DEFINE gone == {a \in ActionId : db.action[a] # None /\ db.action[a].step = t}
           b == [db EXCEPT !.step[t] = None, !.action = Without(db.action, gone)]
           checks == << <<"fkActionTarget", StepReferenced(b, t)>> >>
<1> SUFFICES ASSUME r # Success, Statement(b, checks, "delete", "step", t, None)
             PROVE  IsSo(r)
  BY SuccessIsSo, MissingIsSo DEF DeleteStep
<1>1. /\ DOMAIN checks = {1} /\ checks[1][1] = "fkActionTarget"
      /\ (checks[1][2] <=> StepReferenced(b, t))
  <2>1. /\ DOMAIN checks = {1} /\ checks[1][1] = "fkActionTarget"
        /\ checks[1][2] = StepReferenced(b, t)
    OBVIOUS
  <2> HIDE DEF checks, b
  <2> QED BY <2>1
<1>2. b.definition = db.definition /\ b.action = Without(db.action, gone)
  BY DEF Core, Tables
<1> HIDE DEF checks, b, gone
<1>3. PICK i \in DOMAIN checks :
        /\ checks[i][2] /\ r.error = ErrorOf("delete", checks[i][1])
        /\ r.table = "step" /\ r.id = t
  BY Refusal
<1>4. StepReferenced(b, t) /\ r.error = "Referenced"
  BY <1>1, <1>3, Intents
<1>5. \A a \in ActionId : b.action[a] # None => b.action[a] = db.action[a]
  BY <1>2 DEF Core, Tables, Without
<1>6. StepReferenced(db, t)
  BY <1>2, <1>4, <1>5 DEF StepReferenced
<1> QED BY <1>3, <1>4, <1>6 DEF IsSo, ErrorIsTrue

LEMMA InsertActionIsSo ==
  ASSUME NEW p \in Adders, adding[p] \in [step: StepId, def: DefId] \cup {None},
         NEW a \in ActionId, NEW n \in Names, NEW q \in Routes, InsertAction(p, a, n, q),
         NEW r, r = reply'
  PROVE  IsSo(r)
<1> DEFINE row == [def |-> adding[p].def, name |-> n, step |-> adding[p].step,
                   next |-> q.next, terminal |-> q.terminal]
           b == [db EXCEPT !.action[a] = row]
           checks == << <<"ckActionTerminalXOR", ~ExactlyOneTarget(row)>>,
                        <<"ixName", ActionNameTaken(db.action, a, row)>>,
                        <<"fkActionStep", ~In(db.step, row.step, row.def)>>,
                        <<"fkActionTarget", ~RoutesTo(db, row)>> >>
<1> SUFFICES ASSUME r # Success PROVE IsSo(r)
  BY SuccessIsSo
<1>1. Statement(b, checks, "insert", "action", a, row)
  BY DEF InsertAction
<1>2. /\ DOMAIN checks = {1, 2, 3, 4}
      /\ checks[1][1] = "ckActionTerminalXOR" /\ (checks[1][2] <=> ~ExactlyOneTarget(row))
      /\ checks[2][1] = "ixName" /\ (checks[2][2] <=> ActionNameTaken(db.action, a, row))
      /\ checks[3][1] = "fkActionStep" /\ (checks[3][2] <=> ~In(db.step, row.step, row.def))
      /\ checks[4][1] = "fkActionTarget" /\ (checks[4][2] <=> ~RoutesTo(db, row))
  <2>1. /\ DOMAIN checks = {1, 2, 3, 4}
        /\ checks[1][1] = "ckActionTerminalXOR" /\ checks[1][2] = ~ExactlyOneTarget(row)
        /\ checks[2][1] = "ixName" /\ checks[2][2] = ActionNameTaken(db.action, a, row)
        /\ checks[3][1] = "fkActionStep" /\ checks[3][2] = ~In(db.step, row.step, row.def)
        /\ checks[4][1] = "fkActionTarget" /\ checks[4][2] = ~RoutesTo(db, row)
    OBVIOUS
  <2> HIDE DEF checks, b, row
  <2> QED BY <2>1
<1>3. row # None
  <2>1. adding[p] \in [step: StepId, def: DefId]
    BY DEF InsertAction
  <2>2. row \in ActionRow
    BY <2>1, CatalogAssumption DEF ActionRow
  <2> HIDE DEF row
  <2> QED BY <2>2, NoneIsNoRow
<1> HIDE DEF checks, b, row
<1>4. PICK i \in DOMAIN checks :
        /\ checks[i][2] /\ \A j \in DOMAIN checks : checks[j][2] => i <= j
        /\ r.error = ErrorOf("insert", checks[i][1])
        /\ r.table = "action" /\ r.id = a /\ r.row = row
  BY <1>1, Refusal
<1>5. CASE i = 1
  <2>1. ~ExactlyOneTarget(row) /\ r.error = "InvalidAction"
    BY <1>2, <1>4, <1>5, Intents
  <2> QED BY <1>4, <2>1 DEF IsSo, ErrorIsTrue
<1>6. CASE i = 2
  <2>1. ActionNameTaken(db.action, a, row) /\ r.error = "DuplicateName"
    BY <1>2, <1>4, <1>6, Intents
  <2> QED BY <1>4, <2>1 DEF IsSo, ErrorIsTrue
<1>7. CASE i = 3
  <2>1. ~In(db.step, row.step, row.def) /\ r.error = "NotFound"
    BY <1>2, <1>4, <1>7, Intents
  <2> QED BY <1>3, <1>4, <2>1 DEF IsSo, ErrorIsTrue
<1>8. CASE i = 4
  <2>1. ~RoutesTo(db, row) /\ r.error = "CrossDefinition"
    BY <1>2, <1>4, <1>8, Intents
  <2>2. ExactlyOneTarget(row)
    <3>1. 1 \in DOMAIN checks /\ \A j \in DOMAIN checks : checks[j][2] => 4 <= j
      BY <1>2, <1>4, <1>8
    <3>2. ~checks[1][2]
      BY <3>1
    <3> QED BY <1>2, <3>2
  <2> QED BY <1>4, <2>1, <2>2 DEF IsSo, ErrorIsTrue, RoutesTo, ExactlyOneTarget
<1> QED BY <1>2, <1>4, <1>5, <1>6, <1>7, <1>8

LEMMA UpdateActionIsSo ==
  ASSUME NEW a \in ActionId, UpdateAction(a), NEW r, r = reply'
  PROVE  IsSo(r)
<1> SUFFICES ASSUME r # Success, db.action[a] # None PROVE IsSo(r)
  BY SuccessIsSo, MissingIsSo DEF UpdateAction
<1>1. PICK n \in Names, q \in Routes :
        LET row == [db.action[a] EXCEPT !.name = n, !.next = q.next, !.terminal = q.terminal] IN
        Statement([db EXCEPT !.action[a] = row],
          << <<"ckActionTerminalXOR", ~ExactlyOneTarget(row)>>,
             <<"ixName", ActionNameTaken(db.action, a, row)>>,
             <<"fkActionTarget", ~RoutesTo(db, row)>> >>,
          "update", "action", a, row)
  BY DEF UpdateAction, Missing
<1> DEFINE row == [db.action[a] EXCEPT !.name = n, !.next = q.next, !.terminal = q.terminal]
           b == [db EXCEPT !.action[a] = row]
           checks == << <<"ckActionTerminalXOR", ~ExactlyOneTarget(row)>>,
                        <<"ixName", ActionNameTaken(db.action, a, row)>>,
                        <<"fkActionTarget", ~RoutesTo(db, row)>> >>
<1>2. /\ DOMAIN checks = {1, 2, 3}
      /\ checks[1][1] = "ckActionTerminalXOR" /\ (checks[1][2] <=> ~ExactlyOneTarget(row))
      /\ checks[2][1] = "ixName" /\ (checks[2][2] <=> ActionNameTaken(db.action, a, row))
      /\ checks[3][1] = "fkActionTarget" /\ (checks[3][2] <=> ~RoutesTo(db, row))
  <2>1. /\ DOMAIN checks = {1, 2, 3}
        /\ checks[1][1] = "ckActionTerminalXOR" /\ checks[1][2] = ~ExactlyOneTarget(row)
        /\ checks[2][1] = "ixName" /\ checks[2][2] = ActionNameTaken(db.action, a, row)
        /\ checks[3][1] = "fkActionTarget" /\ checks[3][2] = ~RoutesTo(db, row)
    OBVIOUS
  <2> HIDE DEF checks, b, row
  <2> QED BY <2>1
<1>3. Statement(b, checks, "update", "action", a, row)
  BY <1>1
<1> HIDE DEF checks, b, row
<1>4. PICK i \in DOMAIN checks :
        /\ checks[i][2] /\ \A j \in DOMAIN checks : checks[j][2] => i <= j
        /\ r.error = ErrorOf("update", checks[i][1])
        /\ r.table = "action" /\ r.id = a /\ r.row = row
  BY <1>3, Refusal
<1>5. CASE i = 1
  <2>1. ~ExactlyOneTarget(row) /\ r.error = "InvalidAction"
    BY <1>2, <1>4, <1>5, Intents
  <2> QED BY <1>4, <2>1 DEF IsSo, ErrorIsTrue
<1>6. CASE i = 2
  <2>1. ActionNameTaken(db.action, a, row) /\ r.error = "DuplicateName"
    BY <1>2, <1>4, <1>6, Intents
  <2> QED BY <1>4, <2>1 DEF IsSo, ErrorIsTrue
<1>7. CASE i = 3
  <2>1. ~RoutesTo(db, row) /\ r.error = "CrossDefinition"
    BY <1>2, <1>4, <1>7, Intents
  <2>2. ExactlyOneTarget(row)
    <3>1. 1 \in DOMAIN checks /\ \A j \in DOMAIN checks : checks[j][2] => 3 <= j
      BY <1>2, <1>4, <1>7
    <3>2. ~checks[1][2]
      BY <3>1
    <3> QED BY <1>2, <3>2
  <2> QED BY <1>4, <2>1, <2>2 DEF IsSo, ErrorIsTrue, RoutesTo, ExactlyOneTarget
<1> QED BY <1>2, <1>4, <1>5, <1>6, <1>7

\* Removing an action violates nothing.
LEMMA DeleteActionIsSo ==
  ASSUME NEW a \in ActionId, DeleteAction(a), NEW r, r = reply'
  PROVE  IsSo(r)
<1>1. CASE Missing("action", a)
  BY <1>1, MissingIsSo
<1>2. CASE Statement([db EXCEPT !.action[a] = None], <<>>, "delete", "action", a, None)
  BY <1>2, SuccessIsSo DEF Statement
<1> QED BY <1>1, <1>2 DEF DeleteAction

\* A refused tree has the fault it is refused for, in itself or in its ids.
LEMMA CreateIsSo ==
  ASSUME Core, NEW tree \in Trees, Create(tree), NEW r, r = reply'
  PROVE  IsSo(r)
<1> DEFINE b == Created(tree)
           refused == IF db.definition[tree.def] # None THEN {"primaryKey"}
                      ELSE RefusedRows(tree)
           entered == /\ tree.steps # <<>>
                      /\ tree.entry \in {None} \cup {t.id : t \in TreeSteps(tree)}
           Refused(e) == r = [error |-> e, table |-> "tree", id |-> tree.def, row |-> tree]
<1>1. ASSUME NEW e, Refused(e), TreeErrorIsTrue(e, tree) PROVE IsSo(r)
  BY <1>1 DEF IsSo, ErrorIsTrue
<1>2. CASE tree.steps = <<>> /\ Refused("NoSteps")
  <2>1. {t.id : t \in TreeSteps(tree)} = {}
    BY <1>2 DEF TreeSteps
  <2>2. TreeErrorIsTrue("NoSteps", tree)
    BY <2>1 DEF TreeErrorIsTrue
  <2> QED BY <1>1, <1>2, <2>2
<1>3. CASE /\ tree.entry \notin {None} \cup {t.id : t \in TreeSteps(tree)}
           /\ Refused("InitialStepNotInTree")
  <2>1. TreeErrorIsTrue("InitialStepNotInTree", tree)
    BY <1>3 DEF TreeErrorIsTrue
  <2> QED BY <1>1, <1>3, <2>1
<1>4. ASSUME NEW c \in refused, Refused(MapInsert(c)) PROVE IsSo(r)
  <2>1. c \in {"primaryKey", "ixName", "ckActionTerminalXOR"}
    BY DEF RefusedRows
  <2>2. CASE c = "primaryKey"
    <3>1. KeyTaken(tree)
      BY <2>2 DEF RefusedRows, KeyTaken
    <3>2. MapInsert(c) = "Unmapped"
      BY <2>2 DEF MapInsert, MapWrite, MapCommon, ParentFKs, ReferenceFKs
    <3> QED BY <1>1, <1>4, <3>1, <3>2 DEF TreeErrorIsTrue
  <2>3. CASE c = "ixName"
    <3>1. NamedTwice(tree)
      BY <2>3 DEF RefusedRows
    <3>2. MapInsert(c) = "DuplicateName"
      BY <2>3 DEF MapInsert, MapWrite, MapCommon, ParentFKs, ReferenceFKs
    <3> QED BY <1>1, <1>4, <3>1, <3>2 DEF TreeErrorIsTrue
  <2>4. CASE c = "ckActionTerminalXOR"
    <3>1. \E a \in tree.actions : ~ExactlyOneTarget(a)
      BY <2>4 DEF RefusedRows
    <3>2. MapInsert(c) = "InvalidAction"
      BY <2>4 DEF MapInsert, MapWrite, MapCommon, ParentFKs, ReferenceFKs
    <3> QED BY <1>1, <1>4, <3>1, <3>2 DEF TreeErrorIsTrue
  <2> QED BY <2>1, <2>2, <2>3, <2>4
<1>5. CASE entered /\ refused = {} /\ Dangling(tree, b) /\ Refused(MapWrite("fkActionTarget"))
  <2>1. db.definition[tree.def] = None /\ RefusedRows(tree) = {}
    BY <1>5
  <2>2. ~KeyTaken(tree)
    BY <2>1 DEF RefusedRows
  <2>3. EntryOf(tree) \in StepId
    <3>1. tree.steps \in Seq(StepPart)
      BY TreesAssumption
    <3>2. tree.steps[1] \in TreeSteps(tree)
      BY <1>5, <3>1 DEF TreeSteps
    <3> QED BY <1>5, <3>2, TreeTyped DEF EntryOf, StepPart
  <2>4. Adds(db, b, tree)
    BY <2>2, <2>3, CreatedAdds DEF Core
  <2>5. MapWrite("fkActionTarget") = "CrossDefinition"
    BY DEF MapWrite, ReferenceFKs
  <2>6. Dangling(tree, b)
    BY <1>5
  <2> DEFINE status == {s.id : s \in tree.statuses}
             step == {t.id : t \in TreeSteps(tree)}
  <2> HIDE DEF b
  <2>7. \A s \in tree.statuses : In(b.status, s.id, tree.def)
    <3> SUFFICES ASSUME NEW s \in tree.statuses PROVE In(b.status, s.id, tree.def)
      OBVIOUS
    <3>1. b.status[s.id] = [def |-> tree.def, name |-> s.name]
      BY <2>4 DEF Adds
    <3>2. [def |-> tree.def, name |-> s.name] \in StatusRow
      BY TreeTyped DEF StatusPart, StatusRow
    <3> QED BY <3>1, <3>2, NoneIsNoRow DEF In
  <2>8. \A t \in TreeSteps(tree) : In(b.step, t.id, tree.def)
    <3> SUFFICES ASSUME NEW t \in TreeSteps(tree) PROVE In(b.step, t.id, tree.def)
      OBVIOUS
    <3>1. b.step[t.id] = [def |-> tree.def, name |-> t.name, status |-> t.status]
      BY <2>4 DEF Adds
    <3>2. [def |-> tree.def, name |-> t.name, status |-> t.status] \in StepRow
      BY TreeTyped DEF StepPart, StepRow
    <3> QED BY <3>1, <3>2, NoneIsNoRow DEF In
  <2>9. \A a \in tree.actions :
          /\ b.action[a.id].def = tree.def /\ b.action[a.id].next = a.next
          /\ b.action[a.id].terminal = a.terminal
    <3> SUFFICES ASSUME NEW a \in tree.actions
                 PROVE  /\ b.action[a.id].def = tree.def /\ b.action[a.id].next = a.next
                        /\ b.action[a.id].terminal = a.terminal
      OBVIOUS
    <3>1. b.action[a.id] = [def |-> tree.def, name |-> a.name, step |-> a.step,
                            next |-> a.next, terminal |-> a.terminal]
      BY <2>4 DEF Adds
    <3> QED BY <3>1
  <2>10. \/ \E t \in TreeSteps(tree) : t.status \notin status
         \/ \E a \in tree.actions :
              a.next \notin step \cup {None} \/ a.terminal \notin status \cup {None}
    <3>1. CASE \E t \in TreeSteps(tree) : ~In(b.status, t.status, tree.def)
      BY <2>7, <3>1
    <3>2. ASSUME NEW a \in tree.actions, ~RoutesTo(b, b.action[a.id])
          PROVE  a.next \notin step \cup {None} \/ a.terminal \notin status \cup {None}
      BY <2>7, <2>8, <2>9, <3>2 DEF RoutesTo
    <3> QED BY <2>6, <3>1, <3>2 DEF Dangling
  <2>11. TreeErrorIsTrue("CrossDefinition", tree)
    BY <2>10 DEF TreeErrorIsTrue
  <2> QED BY <1>1, <1>5, <2>5, <2>11
<1>6. CASE r = Success
  BY <1>6, SuccessIsSo
<1> QED BY <1>2, <1>3, <1>4, <1>5, <1>6 DEF Create, Reply

\* A caller is told the truth about the call that was refused (errmap.go): the error
\* names a fault of the call in the tables as they stood when it was refused.
THEOREM ErrorsAreTrueHolds == Spec => ErrorsAreTrue
<1>1. ASSUME Inv, Next, reply' # reply, NEW r, r = reply' PROVE IsSo(r)
  <2> USE <1>1
  <2>1. Core /\ \A p \in Adders : adding[p] \in [step: StepId, def: DefId] \cup {None}
    BY DEF Inv, AddersOk
  <2>2. CASE EditParts
    <3>1. ASSUME NEW d \in DefId, DeleteWorkflowDefinition(d) PROVE IsSo(r)
      BY <2>1, <3>1, DeleteWorkflowDefinitionIsSo
    <3>2. ASSUME NEW tree \in Trees, Create(tree) PROVE IsSo(r)
      BY <2>1, <3>2, CreateIsSo
    <3>3. ASSUME NEW d \in DefId, NEW s \in StatusId, NEW n \in Names, AddStatus(d, s, n)
          PROVE  IsSo(r)
      BY <3>3, AddStatusIsSo
    <3>4. ASSUME NEW s \in StatusId, UpdateStatus(s) \/ DeleteStatus(s) PROVE IsSo(r)
      BY <3>4, UpdateStatusIsSo, DeleteStatusIsSo
    <3>5. ASSUME NEW d \in DefId, NEW t \in StepId, NEW n \in Names, NEW s \in StatusId,
                 AddStep(d, t, n, s)
          PROVE  IsSo(r)
      BY <3>5, AddStepIsSo
    <3>6. ASSUME NEW t \in StepId, UpdateStep(t) \/ DeleteStep(t) PROVE IsSo(r)
      BY <2>1, <3>6, UpdateStepIsSo, DeleteStepIsSo
    <3>7. ASSUME NEW p \in Adders, NEW t \in StepId, ReadParent(p, t) PROVE IsSo(r)
      BY <3>7, MissingIsSo DEF ReadParent
    <3>8. ASSUME NEW p \in Adders, NEW a \in ActionId, NEW n \in Names, NEW q \in Routes,
                 InsertAction(p, a, n, q)
          PROVE  IsSo(r)
      BY <2>1, <3>8, InsertActionIsSo
    <3>9. ASSUME NEW a \in ActionId, UpdateAction(a) \/ DeleteAction(a) PROVE IsSo(r)
      BY <3>9, UpdateActionIsSo, DeleteActionIsSo
    <3> QED BY <2>2, <3>1, <3>2, <3>3, <3>4, <3>5, <3>6, <3>7, <3>8, <3>9 DEF EditParts, Fail
  <2>3. ASSUME NEW d \in DefId, NEW n \in Names, NEW t \in StepId,
               UpdateWorkflowDefinition(d, n, t)
        PROVE  IsSo(r)
    BY <2>3, UpdateWorkflowDefinitionIsSo
  <2> QED BY <2>2, <2>3 DEF Next, ReadDefinitionRow, ReadTable, Return, Fail
<1>2. Inv /\ [Next]_vars =>
        [reply' # reply =>
           ErrorIsTrue(reply'.error, reply'.table, reply'.id, reply'.row)]_vars
  BY <1>1 DEF IsSo, vars
<1> QED BY <1>2, Invariance, PTL DEF Spec, ErrorsAreTrue

-----------------------------------------------------------------------------
(* The console (ConsoleEdits): whatever its tabs do is a use of the        *)
(* Catalog. The prover has to know what a tab is about to write.           *)

Calls == [def: DefId, name: Names \cup {None}, entry: StepId \cup {None}]

ConsoleInv ==
  /\ Inv
  /\ DOMAIN asked = Readers /\ DOMAIN params = Readers
  /\ \A p \in Readers : reading[p] # None => asked[p] \in Calls
  /\ \A p \in Readers : params[p] # None =>
       asked[p] \in Calls /\ params[p] \in DefinitionRow /\ reading[p] = None

LEMMA CallsAreNotNone == None \notin Calls
BY RowsAssumption DEF Calls

LEMMA EditsLeaveReaders ==
  ASSUME EditParts, Core, ReadersOk
  PROVE  DOMAIN reading' = Readers /\ \A p \in Readers : reading'[p] \in {reading[p], None}
<1>1. CASE UNCHANGED reading
  BY <1>1 DEF ReadersOk
<1>2. ASSUME NEW p, Fail(p)
      PROVE  DOMAIN reading' = Readers /\ \A q \in Readers : reading'[q] \in {reading[q], None}
  BY <1>2 DEF Fail, ReadersOk
<1>3. UNCHANGED reading \/ \E p \in Adders : Fail(p)
  <2>1. ASSUME NEW tree \in Trees, Create(tree) PROVE UNCHANGED reading
    BY <2>1 DEF Create
  <2>2. ASSUME NEW d \in DefId, DeleteWorkflowDefinition(d) PROVE UNCHANGED reading
    BY <2>2 DEF DeleteWorkflowDefinition
  <2>3. ASSUME NEW d \in DefId, NEW s \in StatusId, NEW n \in Names, AddStatus(d, s, n)
        PROVE  UNCHANGED reading
    BY <2>3 DEF AddStatus
  <2>4. ASSUME NEW s \in StatusId, UpdateStatus(s) \/ DeleteStatus(s) PROVE UNCHANGED reading
    BY <2>4 DEF UpdateStatus, DeleteStatus
  <2>5. ASSUME NEW d \in DefId, NEW t \in StepId, NEW n \in Names, NEW s \in StatusId,
               AddStep(d, t, n, s)
        PROVE  UNCHANGED reading
    BY <2>5 DEF AddStep
  <2>6. ASSUME NEW t \in StepId, UpdateStep(t) \/ DeleteStep(t) PROVE UNCHANGED reading
    BY <2>6 DEF UpdateStep, DeleteStep
  <2>7. ASSUME NEW p \in Adders, NEW t \in StepId, ReadParent(p, t) PROVE UNCHANGED reading
    BY <2>7 DEF ReadParent
  <2>8. ASSUME NEW p \in Adders, NEW a \in ActionId, NEW n \in Names, NEW r \in Routes,
               InsertAction(p, a, n, r)
        PROVE  UNCHANGED reading
    BY <2>8 DEF InsertAction
  <2>9. ASSUME NEW a \in ActionId, UpdateAction(a) \/ DeleteAction(a) PROVE UNCHANGED reading
    BY <2>9 DEF UpdateAction, DeleteAction
  <2> QED
    BY <2>1, <2>2, <2>3, <2>4, <2>5, <2>6, <2>7, <2>8, <2>9 DEF EditParts
<1> QED BY <1>1, <1>2, <1>3

LEMMA AskStep ==
  ASSUME ConsoleInv, NEW p \in Readers, NEW d \in DefId,
         NEW n \in Names \cup {None}, NEW t \in StepId \cup {None}, Ask(p, d, n, t)
  PROVE  Next /\ ConsoleInv'
<1>1. ReadDefinitionRow(p, d)
  BY DEF Ask
<1>2. Next
  BY <1>1 DEF Next
<1>3. Inv'
  BY <1>2, NextInv DEF ConsoleInv
<1>4. params[p] = None
  BY CallsAreNotNone DEF Ask, ConsoleInv
<1>5. [def |-> d, name |-> n, entry |-> t] \in Calls
  BY DEF Calls
<1>6. \A q \in Readers \ {p} : reading'[q] = reading[q]
  BY DEF Ask, ReadDefinitionRow, ConsoleInv, Inv, ReadersOk
<1>7. /\ asked' = [asked EXCEPT ![p] = [def |-> d, name |-> n, entry |-> t]]
      /\ params' = params
  BY DEF Ask
<1> QED BY <1>2, <1>3, <1>4, <1>5, <1>6, <1>7 DEF ConsoleInv

LEMMA ReadsStep ==
  ASSUME ConsoleInv, NEW p \in Readers, Reads(p)
  PROVE  Next /\ ConsoleInv'
<1>1. ReadTable(p) /\ asked' = asked /\ params' = params
  BY DEF Reads
<1>2. Next
  BY <1>1 DEF Next
<1>3. Inv'
  BY <1>2, NextInv DEF ConsoleInv
<1>4. reading[p] # None /\ \A q \in Readers \ {p} : reading'[q] = reading[q]
  BY <1>1 DEF ReadTable, ConsoleInv, Inv, ReadersOk
<1> QED BY <1>1, <1>2, <1>3, <1>4 DEF ConsoleInv

LEMMA PrepareStep ==
  ASSUME ConsoleInv, NEW p \in Readers, Prepare(p)
  PROVE  Next /\ ConsoleInv'
<1> DEFINE read == reading[p].answer["definition"]
           call == asked[p]
           row == [name |-> IF call.name = None THEN read.name ELSE call.name,
                   entry |-> IF call.entry = None THEN read.entry ELSE call.entry]
<1>1. Answered(p) /\ Return(p)
  BY DEF Prepare, Return
<1>2. Next
  BY <1>1 DEF Next
<1>3. Inv'
  BY <1>2, NextInv DEF ConsoleInv
<1>4. call \in Calls /\ params[p] = None
  BY <1>1 DEF ConsoleInv, Answered
<1>5. reading' = [reading EXCEPT ![p] = None] /\ DOMAIN reading = Readers
  BY <1>1 DEF Return, ConsoleInv, Inv, ReadersOk
<1>6. read \in DefinitionRow
  <2>1. PICK d \in DefId, b \in Tables :
          b.definition[d] # None /\ reading[p].answer = TreeOf(b, d)
    BY <1>1, AnswerOfWhole DEF ConsoleInv
  <2> QED BY <2>1, TreeAsRecord DEF Tables
<1>7. row \in DefinitionRow
  <2> HIDE DEF read
  <2> QED BY <1>4, <1>6 DEF Calls, DefinitionRow
<1>8. \/ asked' = [asked EXCEPT ![p] = None] /\ params' = params
      \/ params' = [params EXCEPT ![p] = row] /\ asked' = asked
  BY DEF Prepare
<1> HIDE DEF row, read
<1> QED BY <1>2, <1>3, <1>4, <1>5, <1>7, <1>8 DEF ConsoleInv

LEMMA WriteStep ==
  ASSUME ConsoleInv, NEW p \in Readers, Write(p)
  PROVE  Next /\ ConsoleInv'
<1>1. /\ asked[p].def \in DefId /\ params[p].name \in Names /\ params[p].entry \in StepId
      /\ UpdateWorkflowDefinition(asked[p].def, params[p].name, params[p].entry)
      /\ reading[p] = None
  BY DEF Write, ConsoleInv, Calls, DefinitionRow
<1>2. Next
  BY <1>1 DEF Next
<1>3. Inv'
  BY <1>2, NextInv DEF ConsoleInv
<1>4. reading' = reading
  BY <1>1 DEF UpdateWorkflowDefinition
<1>5. asked' = [asked EXCEPT ![p] = None] /\ params' = [params EXCEPT ![p] = None]
  BY DEF Write
<1> QED BY <1>1, <1>2, <1>3, <1>4, <1>5 DEF ConsoleInv

LEMMA GiveUpStep ==
  ASSUME ConsoleInv, NEW p \in Readers, GiveUp(p)
  PROVE  [Next]_vars /\ ConsoleInv'
<1>1. asked' = [asked EXCEPT ![p] = None] /\ params' = [params EXCEPT ![p] = None]
  BY DEF GiveUp
<1>2. DOMAIN reading = Readers
  BY DEF ConsoleInv, Inv, ReadersOk
<1>3. CASE Fail(p)
  <2>1. Next
    BY <1>3 DEF Next
  <2>2. Inv'
    BY <2>1, NextInv DEF ConsoleInv
  <2>3. reading' = [reading EXCEPT ![p] = None]
    BY <1>3, CatalogAssumption DEF Fail
  <2> QED BY <1>1, <1>2, <2>1, <2>2, <2>3 DEF ConsoleInv
<1>4. CASE params[p] # None /\ UNCHANGED vars
  <2>1. Inv'
    BY <1>4, NextInv DEF ConsoleInv
  <2>2. reading' = reading /\ reading[p] = None
    BY <1>4 DEF vars, ConsoleInv
  <2> QED BY <1>1, <1>4, <2>1, <2>2 DEF ConsoleInv
<1> QED BY <1>3, <1>4 DEF GiveUp

LEMMA ConsoleInitInv == ConsoleInit => Init /\ ConsoleInv
<1> SUFFICES ASSUME ConsoleInit PROVE Init /\ ConsoleInv
  OBVIOUS
<1>1. Init /\ Inv
  BY InitInv DEF ConsoleInit
<1>2. \A p \in Readers : reading[p] = None /\ params[p] = None
  BY DEF ConsoleInit, Init
<1> QED BY <1>1, <1>2 DEF ConsoleInit, ConsoleInv

LEMMA ConsoleNextInv == ConsoleInv /\ [ConsoleNext]_cvars => [Next]_vars /\ ConsoleInv'
<1> SUFFICES ASSUME ConsoleInv, [ConsoleNext]_cvars PROVE [Next]_vars /\ ConsoleInv'
  OBVIOUS
<1>1. CASE EditParts /\ UNCHANGED <<asked, params>>
  <2>1. Next
    BY <1>1 DEF Next
  <2>2. Inv'
    BY <2>1, NextInv DEF ConsoleInv
  <2>3. DOMAIN reading' = Readers /\ \A p \in Readers : reading'[p] \in {reading[p], None}
    BY <1>1, EditsLeaveReaders DEF ConsoleInv, Inv
  <2> QED BY <1>1, <2>1, <2>2, <2>3 DEF ConsoleInv
<1>2. ASSUME NEW p \in Readers, NEW d \in DefId, NEW t \in StepId, SetEntryStep(p, d, t)
      PROVE  [Next]_vars /\ ConsoleInv'
  BY <1>2, AskStep DEF SetEntryStep
<1>3. ASSUME NEW p \in Readers, NEW d \in DefId, NEW n \in Names, RenameDefinition(p, d, n)
      PROVE  [Next]_vars /\ ConsoleInv'
  BY <1>3, AskStep DEF RenameDefinition
<1>4. ASSUME NEW p \in Readers, Reads(p) PROVE [Next]_vars /\ ConsoleInv'
  BY <1>4, ReadsStep
<1>5. ASSUME NEW p \in Readers, Prepare(p) PROVE [Next]_vars /\ ConsoleInv'
  BY <1>5, PrepareStep
<1>6. ASSUME NEW p \in Readers, Write(p) PROVE [Next]_vars /\ ConsoleInv'
  BY <1>6, WriteStep
<1>7. ASSUME NEW p \in Readers, GiveUp(p) PROVE [Next]_vars /\ ConsoleInv'
  BY <1>7, GiveUpStep
<1>8. CASE UNCHANGED cvars
  <2>1. UNCHANGED vars /\ UNCHANGED <<asked, params>>
    BY <1>8 DEF cvars
  <2>2. Inv' /\ reading' = reading
    BY <2>1, NextInv DEF ConsoleInv, vars
  <2> QED BY <2>1, <2>2 DEF ConsoleInv
<1> QED
  BY <1>1, <1>2, <1>3, <1>4, <1>5, <1>6, <1>7, <1>8 DEF ConsoleNext

\* Every behaviour of the console's tabs is one of the Catalog, which is why its
\* promises hold whatever they overwrite.
THEOREM ConsoleImplementsCatalog == ConsoleSpec => Spec
BY ConsoleInitInv, ConsoleNextInv, PTL DEF ConsoleSpec, Spec

\* A tab that writes back a stale entry step may undo another's edit; it never makes a
\* definition begin outside itself (catalog.go of the client).
THEOREM ConsoleKeepsDefinitionsWhole == ConsoleSpec => []DefinitionsAreWhole
BY ConsoleImplementsCatalog, DefinitionsAreWholeHolds, PTL

\* ... nor a run that is started meanwhile lead out of its own copy of the graph
\* (buildSnapshot, beside the edits of catalog.go of the client).
THEOREM ConsoleKeepsSnapshotsClosed == ConsoleSpec => []SnapshotIsClosed
BY ConsoleImplementsCatalog, SnapshotIsClosedHolds, PTL

=============================================================================
