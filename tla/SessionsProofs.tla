--------------------------- MODULE SessionsProofs ---------------------------
(***************************************************************************)
(* Who seeds a session and where an edit lands, for any number of sessions *)
(* and of requests at a time.                                              *)
(*                                                                         *)
(* The argument: a session is fresh from the statement that creates it to  *)
(* the next touch, so that while it is fresh one request at most works in  *)
(* it (FirstComer); a session without a row has no other rows either       *)
(* (Unborn), because a sweep leaves alone the sessions that requests work  *)
(* in (Alive). So a request that finds its session fresh finds it empty    *)
(* (Clean), nobody else will seed it, and the example that is not yet      *)
(* there stays away until this request writes it (AppLater). Every         *)
(* definition is registered under one session (Ledger).                    *)
(***************************************************************************)
EXTENDS Sessions, TLAPS

Empty(s) ==
  /\ \A x \in registry : x.session # s
  /\ \A x \in drafts : x.session # s

Alive == \A r \in Req : req[r] # None => session[req[r].session] # None

Unborn == \A s \in Sid : session[s] = None => Empty(s)

FirstComer ==
  \A r, q \in Req :
    /\ req[r] # None /\ req[q] # None
    /\ req[r].session = req[q].session
    /\ session[req[r].session] = "fresh"
    => r = q

Clean ==
  \A r \in Req : At(r, "touched") =>
    /\ req[r].type = "claim"
    /\ session[req[r].session] = "fresh" => Empty(req[r].session)

AppLater ==
  \A r \in Req : Seeding(r) /\ req[r].type = "claim" =>
    /\ \A x \in registry : ~(x.session = req[r].session /\ x.type = "application")
    /\ \A x \in drafts : ~(x.session = req[r].session /\ x.type = "application")

Registrations ==
  /\ \A x \in registry : x.def \in 1..given
  /\ \A x, y \in registry : x.def = y.def => x.session = y.session

Pending ==
  \A r \in Req : At(r, "register") =>
    /\ \A x \in registry : x.def # req[r].def
    /\ \A q \in Req : At(q, "register") /\ r # q => req[q].def # req[r].def

Writing == \A r \in Req : At(r, "write") => req[r].def \in Registered(req[r].session)

Ledger == Registrations /\ Pending /\ Writing

Rules == Alive /\ Unborn /\ FirstComer /\ Clean /\ AppLater /\ SeedersDoNotCollide /\ Ledger

Inv == TypeOK /\ Rules

Points == {"touched", "create", "register", "draft", "details", "served", "write"}

-----------------------------------------------------------------------------
(* What a step of one request leaves of the requests.                      *)

\* Request r is somewhere else, in the same session and on the same type.
Moved(r, at) ==
  /\ \A q \in Req : q # r => req'[q] = req[q]
  /\ req'[r].session = req[r].session
  /\ req'[r].type = req[r].type
  /\ req'[r].at = at

LEMMA GoesMoves ==
  ASSUME TypeOK, NEW r \in Req, req[r] # None, NEW at \in Points, Goes(r, at)
  PROVE  Moved(r, at) /\ req'[r].def = req[r].def /\ req' \in [Req -> Request \cup {None}]
<1>1. req[r] \in Request
  BY DEF TypeOK
<1>2. [req[r] EXCEPT !.at = at] \in Request
  BY <1>1 DEF Request, Points
<1>3. req' = [req EXCEPT ![r] = [req[r] EXCEPT !.at = at]]
  BY DEF Goes
<1> QED BY <1>1, <1>2, <1>3 DEF Moved, TypeOK, Request

LEMMA EndsLeaves ==
  ASSUME TypeOK, NEW r \in Req, Ends(r)
  PROVE  /\ req' \in [Req -> Request \cup {None}]
         /\ req'[r] = None
         /\ \A q \in Req : q # r => req'[q] = req[q]
BY DEF TypeOK, Ends

\* A request that ends takes its own claims with it and touches nobody else's; a
\* definition may be given out on the way.
LEMMA EndsKeepsRules ==
  ASSUME Inv, NEW r \in Req, Ends(r), UNCHANGED rows, given' \in Nat, given <= given'
  PROVE  Rules'
<1>0. /\ \A q \in Req : req'[q] # None => req'[q] = req[q] /\ q # r
      /\ UNCHANGED <<session, registry, drafts>>
  BY EndsLeaves DEF Inv, rows
<1>1. Alive'
  BY <1>0 DEF Inv, Rules, Alive
<1>2. Unborn'
  BY <1>0 DEF Inv, Rules, Unborn, Empty
<1>3. FirstComer'
  BY <1>0 DEF Inv, Rules, FirstComer
<1>4. Clean'
  BY <1>0 DEF Inv, Rules, Clean, At, Empty
<1>5. AppLater'
  BY <1>0 DEF Inv, Rules, AppLater, Seeding
<1>6. SeedersDoNotCollide'
  BY <1>0 DEF Inv, Rules, SeedersDoNotCollide, Seeding
<1>7. Registrations'
  BY <1>0 DEF Inv, Rules, TypeOK, Ledger, Registrations
<1>8. Pending'
  BY <1>0 DEF Inv, Rules, Ledger, Pending, At
<1>9. Writing'
  BY <1>0 DEF Inv, Rules, Ledger, Writing, At, Registered
<1> QED BY <1>1, <1>2, <1>3, <1>4, <1>5, <1>6, <1>7, <1>8, <1>9 DEF Rules, Ledger

\* Whatever a request does in a session that has a row, the sessions stay as they are:
\* what is left to show is about the request itself.
LEMMA MovedKeepsSessions ==
  ASSUME Inv, NEW r \in Req, req[r] # None, NEW at \in Points \ {"touched"}, Moved(r, at),
         session' = session,
         \A x \in registry' : x \in registry \/ x.session = req[r].session,
         \A x \in drafts' : x \in drafts \/ x.session = req[r].session
  PROVE  Alive' /\ Unborn' /\ FirstComer' /\ Clean'
<1>0. req[r].session \in Sid
  BY DEF Inv, TypeOK, Request
<1>1. Alive'
  BY DEF Moved, Inv, Rules, Alive
<1>2. Unborn'
  BY <1>0 DEF Inv, Rules, Alive, Unborn, Empty
<1>3. FirstComer'
  BY DEF Moved, Inv, Rules, FirstComer
<1>4. Clean'
  <2> SUFFICES ASSUME NEW q \in Req, At(q, "touched")'
               PROVE  (/\ req[q].type = "claim"
                       /\ session[req[q].session] = "fresh" => Empty(req[q].session))'
    BY DEF Clean
  <2>1. q # r /\ req'[q] = req[q] /\ At(q, "touched")
    BY DEF Moved, At
  <2>2. session[req[q].session] = "fresh" => req[q].session # req[r].session
    BY <2>1 DEF Inv, Rules, FirstComer, At
  <2> QED BY <2>1, <2>2 DEF Inv, Rules, Clean, Empty
<1> QED BY <1>1, <1>2, <1>3, <1>4

-----------------------------------------------------------------------------
(* The steps of a request.                                                 *)

LEMMA InitInv == Init => Inv
<1> SUFFICES ASSUME Init PROVE Inv
  OBVIOUS
<1> USE SessionsAssumption DEF Init
<1>1. TypeOK
  BY DEF TypeOK
<1>2. Alive /\ Unborn /\ FirstComer /\ Clean /\ AppLater
  BY DEF Alive, Unborn, Empty, FirstComer, Clean, At, AppLater, Seeding
<1>3. SeedersDoNotCollide /\ Ledger
  BY DEF SeedersDoNotCollide, Seeding, Ledger, Registrations, Pending, Writing, At
<1> QED BY <1>1, <1>2, <1>3 DEF Inv, Rules

LEMMA TouchInv ==
  ASSUME Inv, NEW r \in Req, NEW s \in Sid, Touch(r, s)
  PROVE  Inv'
<1> USE SessionsAssumption
<1> DEFINE row == [session |-> s, at |-> "touched", type |-> "claim", def |-> None]
<1>1. row \in Request
  BY DEF Request, Types
<1>2. /\ req'[r] = row /\ req[r] = None
      /\ \A q \in Req : q # r => req'[q] = req[q]
      /\ req' \in [Req -> Request \cup {None}]
  BY <1>1 DEF Touch, Inv, TypeOK
<1>3. /\ session'[s] = IF session[s] = None THEN "fresh" ELSE "touched"
      /\ \A u \in Sid : u # s => session'[u] = session[u]
      /\ session' \in [Sid -> {None, "fresh", "touched"}]
  BY DEF Touch, Inv, TypeOK
<1>4. UNCHANGED <<registry, drafts, given, defs, janitor, owed>>
  BY DEF Touch, sweeping
<1>5. \A q \in Req : req[q] # None => req[q].session \in Sid
  BY DEF Inv, TypeOK, Request
<1>6. TypeOK'
  BY <1>2, <1>3, <1>4 DEF TypeOK, Touch, Inv
<1>7. Alive'
  BY <1>2, <1>3, <1>5 DEF Alive, Inv, Rules
<1>8. Unborn'
  BY <1>3, <1>4 DEF Unborn, Empty, Inv, Rules
<1>9. FirstComer'
  BY <1>2, <1>3, <1>5 DEF FirstComer, Alive, Inv, Rules
<1>10. Clean'
  BY <1>2, <1>3, <1>4, <1>5 DEF Clean, At, Unborn, Empty, Alive, Inv, Rules
<1>11. AppLater'
  BY <1>2, <1>4 DEF AppLater, Seeding, Inv, Rules
<1>12. SeedersDoNotCollide'
  BY <1>2, <1>4 DEF SeedersDoNotCollide, Seeding, Inv, Rules
<1>13. Ledger'
  <2>1. Registrations'
    BY <1>4 DEF Registrations, Ledger, Inv, Rules
  <2>2. Pending'
    BY <1>2, <1>4 DEF Pending, At, Ledger, Inv, Rules
  <2>3. Writing'
    BY <1>2, <1>4 DEF Writing, At, Registered, Ledger, Inv, Rules
  <2> QED BY <2>1, <2>2, <2>3 DEF Ledger
<1> QED BY <1>6, <1>7, <1>8, <1>9, <1>10, <1>11, <1>12, <1>13 DEF Inv, Rules

LEMMA ReadCreatedInv ==
  ASSUME Inv, NEW r \in Req, ReadCreated(r)
  PROVE  Inv'
<1> DEFINE at == IF WasCreated(req[r].session) THEN "create" ELSE "served"
           s == req[r].session
<1>1. At(r, "touched") /\ Goes(r, at) /\ at \in Points \ {"touched"}
  BY DEF ReadCreated, Points
<1>2. Moved(r, at) /\ req' \in [Req -> Request \cup {None}]
  BY <1>1, GoesMoves DEF Inv, At
<1>3. UNCHANGED <<session, registry, drafts, defs, given, visits, janitor, owed>>
  BY DEF ReadCreated, rows, sweeping
<1>4. TypeOK'
  BY <1>2, <1>3 DEF TypeOK, Inv, Moved
<1>5. Alive' /\ Unborn' /\ FirstComer' /\ Clean'
  BY <1>1, <1>2, <1>3, MovedKeepsSessions DEF At
<1>6. req[r].type = "claim" /\ (at = "create" => session[s] = "fresh" /\ Empty(s))
  BY <1>1 DEF Inv, Rules, Clean, WasCreated
<1>7. AppLater'
  BY <1>2, <1>3, <1>6 DEF AppLater, Seeding, Moved, Inv, Rules, Empty
<1>8. SeedersDoNotCollide'
  <2>1. \A q \in Req : Seeding(q)' => (q # r /\ Seeding(q) /\ req'[q] = req[q]) \/ (q = r /\ at = "create")
    BY <1>2 DEF Seeding, Moved
  <2>2. at = "create" => \A q \in Req : q # r /\ req[q] # None => req[q].session # s
    BY <1>1, <1>6 DEF Inv, Rules, FirstComer, At
  <2>3. req'[r].session = s /\ req'[r].type = "claim" /\ req'[r].at = at
    BY <1>2, <1>6 DEF Moved
  <2> SUFFICES ASSUME NEW q \in Req, Seeding(q)'
               PROVE  /\ \A p \in Req \ {q} : Seeding(p)' => req'[p].session # req'[q].session
                      /\ req'[q].at \in {"create", "register"} =>
                           \A x \in registry' : ~(x.session = req'[q].session /\ x.type = req'[q].type)
                      /\ req'[q].at # "details" =>
                           \A x \in drafts' : ~(x.session = req'[q].session /\ x.type = req'[q].type)
    BY DEF SeedersDoNotCollide
  <2>4. CASE q = r
    BY <2>1, <2>2, <2>3, <2>4, <1>3, <1>6 DEF Empty, Seeding
  <2>5. CASE q # r
    BY <2>1, <2>2, <2>3, <2>5, <1>3 DEF Seeding, SeedersDoNotCollide, Inv, Rules
  <2> QED BY <2>4, <2>5
<1>9. Ledger'
  <2>1. Registrations'
    BY <1>3 DEF Registrations, Ledger, Inv, Rules
  <2>2. Pending'
    BY <1>2, <1>3 DEF Pending, At, Moved, Ledger, Inv, Rules
  <2>3. Writing'
    BY <1>2, <1>3 DEF Writing, At, Moved, Registered, Ledger, Inv, Rules
  <2> QED BY <2>1, <2>2, <2>3 DEF Ledger
<1> QED BY <1>4, <1>5, <1>7, <1>8, <1>9 DEF Inv, Rules

\* The next id is of no definition that is registered or about to be.
LEMMA SeedDefinitionInv ==
  ASSUME Inv, NEW r \in Req, SeedDefinition(r)
  PROVE  Inv'
<1> USE SessionsAssumption
<1> DEFINE row == [req[r] EXCEPT !.at = "register", !.def = given + 1]
<1>1. /\ At(r, "create") /\ given \in Nat /\ given < MaxDefs /\ given' = given + 1
      /\ req[r] \in Request /\ given + 1 \in Def
  BY DEF SeedDefinition, Inv, TypeOK, At, Def
<1>2. row \in Request /\ row.at = "register" /\ row.def = given + 1
      /\ row.session = req[r].session /\ row.type = req[r].type
  BY <1>1 DEF Request
<1>3. req' = [req EXCEPT ![r] = row]
  BY DEF SeedDefinition
<1>4. Moved(r, "register") /\ req'[r].def = given + 1 /\ req' \in [Req -> Request \cup {None}]
  BY <1>1, <1>2, <1>3 DEF Moved, Inv, TypeOK
<1>5. UNCHANGED <<session, registry, drafts, visits, janitor, owed>>
  BY DEF SeedDefinition, rows, sweeping
<1>6. TypeOK'
  <2>1. 1..given \subseteq 1..given' /\ given' \in 0..MaxDefs /\ defs' \subseteq 1..given'
    BY <1>1 DEF SeedDefinition, Inv, TypeOK
  <2>2. \A q \in Req : req'[q] # None /\ req'[q].at \in {"register", "draft", "details", "write"}
                         => req'[q].def \in 1..given'
    BY <1>1, <1>4, <2>1 DEF Moved, Inv, TypeOK
  <2> QED BY <1>4, <1>5, <2>1, <2>2 DEF TypeOK, Inv
<1>7. Alive' /\ Unborn' /\ FirstComer' /\ Clean'
  BY <1>1, <1>4, <1>5, MovedKeepsSessions DEF At, Points
<1>8. AppLater'
  BY <1>1, <1>4, <1>5 DEF AppLater, Seeding, At, Moved, Inv, Rules
<1>9. SeedersDoNotCollide'
  BY <1>1, <1>4, <1>5 DEF SeedersDoNotCollide, Seeding, At, Moved, Inv, Rules
<1>10. Ledger'
  <2>1. Registrations'
    BY <1>1, <1>5 DEF Registrations, Ledger, Inv, Rules
  <2>2. Pending'
    <3>1. \A x \in registry : x.def # given + 1
      BY <1>1 DEF Registrations, Ledger, Inv, Rules
    <3>2. \A q \in Req : At(q, "register") => req[q].def # given + 1
      BY <1>1 DEF At, Inv, TypeOK
    <3> QED BY <1>4, <1>5, <3>1, <3>2 DEF Pending, At, Moved, Ledger, Inv, Rules
  <2>3. Writing'
    BY <1>4, <1>5 DEF Writing, At, Moved, Registered, Ledger, Inv, Rules
  <2> QED BY <2>1, <2>2, <2>3 DEF Ledger
<1> QED BY <1>6, <1>7, <1>8, <1>9, <1>10 DEF Inv, Rules

LEMMA EndsInv ==
  ASSUME Inv, NEW r \in Req, Ends(r), UNCHANGED <<rows, visits, sweeping>>,
         given' \in 0..MaxDefs, given <= given', defs' \subseteq 1..given'
  PROVE  Inv'
<1> USE SessionsAssumption
<1>1. given \in Nat /\ given' \in Nat /\ 1..given \subseteq 1..given'
  BY DEF Inv, TypeOK
<1>2. Rules'
  BY <1>1, EndsKeepsRules
<1>3. UNCHANGED <<session, registry, drafts, visits, janitor, owed>>
  BY DEF rows, sweeping
<1>4. \A q \in Req : req'[q] # None /\ req'[q].at \in {"register", "draft", "details", "write"}
                       => req'[q].def \in 1..given'
  BY <1>1, EndsLeaves DEF Inv, TypeOK
<1>5. TypeOK'
  BY <1>1, <1>3, <1>4, EndsLeaves DEF TypeOK, Inv
<1> QED BY <1>2, <1>5 DEF Inv

LEMMA SeedRegistrationInv ==
  ASSUME Inv, NEW r \in Req, SeedRegistration(r)
  PROVE  Inv'
<1> DEFINE s == req[r].session
           t == req[r].type
           row == [session |-> s, type |-> t, def |-> req[r].def]
<1>1. At(r, "register") /\ req[r] \in Request /\ req[r].def \in 1..given /\ given \in 0..MaxDefs
  BY DEF SeedRegistration, At, Inv, TypeOK
<1>2. UNCHANGED <<session, drafts, defs, given, visits, janitor, owed>>
  BY DEF SeedRegistration, sweeping
<1>3. CASE Ends(r) /\ registry' = registry
  BY <1>1, <1>2, <1>3, EndsInv DEF rows, sweeping, Inv, TypeOK
<1>4. CASE registry' = registry \cup {row} /\ Goes(r, "draft")
  <2> USE <1>4
  <2>1. Moved(r, "draft") /\ req'[r].def = req[r].def /\ req' \in [Req -> Request \cup {None}]
    BY <1>1, GoesMoves DEF Inv, At, Points
  <2>2. row \in [session: Sid, type: Types, def: Def]
    BY <1>1, SessionsAssumption DEF Request, Def
  <2>3. TypeOK'
    BY <1>1, <1>2, <2>1, <2>2 DEF TypeOK, Inv, Moved
  <2>4. Alive' /\ Unborn' /\ FirstComer' /\ Clean'
    BY <1>1, <1>2, <2>1, MovedKeepsSessions DEF At, Points
  <2>5. \A q \in Req : q # r /\ Seeding(q) => req[q].session # s
    BY <1>1 DEF Inv, Rules, SeedersDoNotCollide, Seeding, At
  <2>6. \A q \in Req : Seeding(q)' => Seeding(q)
    BY <1>1, <2>1 DEF Seeding, At, Moved
  <2>7. AppLater'
    BY <1>1, <1>2, <2>1, <2>5, <2>6 DEF AppLater, Seeding, Moved, Inv, Rules
  <2>8. SeedersDoNotCollide'
    BY <1>1, <1>2, <2>1, <2>5, <2>6 DEF SeedersDoNotCollide, Seeding, Moved, At, Inv, Rules
  <2>9. Ledger'
    <3>1. Registrations'
      BY <1>1, <1>2 DEF Registrations, Pending, Ledger, Inv, Rules
    <3>2. Pending'
      BY <1>1, <1>2, <2>1 DEF Pending, At, Moved, Ledger, Inv, Rules
    <3>3. Writing'
      <4> SUFFICES ASSUME NEW q \in Req, At(q, "write")'
                   PROVE  \E x \in registry' : x.session = req'[q].session /\ x.def = req'[q].def
        BY DEF Writing, Registered
      <4>1. req'[q] = req[q] /\ At(q, "write")
        BY <2>1 DEF At, Moved
      <4> QED BY <4>1 DEF Writing, Registered, Ledger, Inv, Rules
    <3> QED BY <3>1, <3>2, <3>3 DEF Ledger
  <2> QED BY <2>3, <2>4, <2>7, <2>8, <2>9 DEF Inv, Rules
<1> QED BY <1>3, <1>4 DEF SeedRegistration

\* The rows of drafts do not matter to the registry.
LEMMA DraftsInv ==
  ASSUME Inv, NEW r \in Req, At(r, "draft") \/ At(r, "details"),
         NEW at \in {"details", "served"}, Moved(r, at),
         req' \in [Req -> Request \cup {None}], req'[r].def = req[r].def,
         at = "details" => At(r, "draft"),
         UNCHANGED <<session, registry, defs, given, visits, sweeping>>,
         drafts' \subseteq [session: Sid, type: Types, full: BOOLEAN],
         \A x \in drafts' : \/ x \in drafts
                            \/ x.session = req[r].session /\ x.type = req[r].type
  PROVE  Inv'
<1>1. UNCHANGED <<session, registry, defs, given, visits, janitor, owed>> /\ req[r] # None
  BY DEF sweeping, At
<1>2. TypeOK'
  BY <1>1 DEF TypeOK, Inv, Moved, At
<1>3. Alive' /\ Unborn' /\ FirstComer' /\ Clean'
  BY <1>1, MovedKeepsSessions DEF Points
<1>4. \A q \in Req : q # r /\ Seeding(q) => req[q].session # req[r].session
  BY DEF Inv, Rules, SeedersDoNotCollide, Seeding, At
<1>5. \A q \in Req : Seeding(q)' => Seeding(q)
  BY DEF Seeding, At, Moved
<1>6. AppLater'
  BY <1>1, <1>4, <1>5 DEF AppLater, Seeding, Moved, Inv, Rules
<1>7. SeedersDoNotCollide'
  BY <1>1, <1>4, <1>5 DEF SeedersDoNotCollide, Seeding, Moved, At, Inv, Rules
<1>8. Ledger'
  <2>1. Registrations'
    BY <1>1 DEF Registrations, Ledger, Inv, Rules
  <2>2. Pending'
    BY <1>1 DEF Pending, At, Moved, Ledger, Inv, Rules
  <2>3. Writing'
    BY <1>1 DEF Writing, At, Moved, Registered, Ledger, Inv, Rules
  <2> QED BY <2>1, <2>2, <2>3 DEF Ledger
<1> QED BY <1>2, <1>3, <1>6, <1>7, <1>8 DEF Inv, Rules

LEMMA SeedDraftInv ==
  ASSUME Inv, NEW r \in Req, SeedDraft(r)
  PROVE  Inv'
<1> DEFINE row == [session |-> req[r].session, type |-> req[r].type, full |-> FALSE]
<1>1. At(r, "draft") /\ req[r] # None /\ req[r] \in Request
  BY DEF SeedDraft, At, Inv, TypeOK
<1>2. CASE Ends(r) /\ drafts' = drafts
  BY <1>2, EndsInv DEF SeedDraft, rows, Inv, TypeOK
<1>3. CASE drafts' = drafts \cup {row} /\ Goes(r, "details")
  <2>1. Moved(r, "details") /\ req'[r].def = req[r].def /\ req' \in [Req -> Request \cup {None}]
    BY <1>1, <1>3, GoesMoves DEF Inv, Points
  <2>2. row \in [session: Sid, type: Types, full: BOOLEAN]
    BY <1>1 DEF Request
  <2>3. drafts' \subseteq [session: Sid, type: Types, full: BOOLEAN]
    BY <1>3, <2>2 DEF Inv, TypeOK
  <2>4. \A x \in drafts' : x \in drafts \/ (x.session = req[r].session /\ x.type = req[r].type)
    BY <1>3
  <2>5. UNCHANGED <<session, registry, defs, given, visits, sweeping>>
    BY DEF SeedDraft
  <2> QED BY <1>1, <2>1, <2>3, <2>4, <2>5, DraftsInv
<1> QED BY <1>2, <1>3 DEF SeedDraft

\* The claim done, the request goes on with the application, of which there is nothing.
LEMMA SeedDetailsInv ==
  ASSUME Inv, NEW r \in Req, SeedDetails(r)
  PROVE  Inv'
<1> DEFINE s == req[r].session
           x == [session |-> s, type |-> req[r].type, full |-> FALSE]
           y == [session |-> s, type |-> req[r].type, full |-> TRUE]
<1>1. /\ At(r, "details") /\ req[r] # None /\ req[r] \in Request
      /\ req[r].def \in 1..given
  BY DEF SeedDetails, At, Inv, TypeOK
<1>2. drafts' = (drafts \ {x}) \cup {y}
  BY DEF SeedDetails
<1>3. y \in [session: Sid, type: Types, full: BOOLEAN]
  BY <1>1 DEF Request
<1>4. drafts' \subseteq [session: Sid, type: Types, full: BOOLEAN]
  BY <1>2, <1>3 DEF Inv, TypeOK
<1>5. \A z \in drafts' : z \in drafts \/ (z.session = s /\ z.type = req[r].type)
  BY <1>2
<1>6. UNCHANGED <<session, registry, defs, given, visits, sweeping>>
  BY DEF SeedDetails
<1>7. CASE req[r].type # "claim"
  <2>1. Goes(r, "served")
    BY <1>7 DEF SeedDetails
  <2>2. Moved(r, "served") /\ req'[r].def = req[r].def /\ req' \in [Req -> Request \cup {None}]
    BY <1>1, <2>1, GoesMoves DEF Inv, Points
  <2> QED BY <1>1, <1>4, <1>5, <1>6, <2>2, DraftsInv
<1>8. CASE req[r].type = "claim"
  <2> DEFINE row == [req[r] EXCEPT !.at = "create", !.type = "application"]
  <2>1. /\ row \in Request /\ row.session = s /\ row.type = "application"
        /\ row.at = "create" /\ row.def = req[r].def
    BY <1>1 DEF Request, Types
  <2>2. req' = [req EXCEPT ![r] = row]
    BY <1>8 DEF SeedDetails
  <2>3. /\ req' \in [Req -> Request \cup {None}]
        /\ req'[r].session = s /\ req'[r].type = "application"
        /\ req'[r].at = "create" /\ req'[r].def = req[r].def
        /\ \A q \in Req : q # r => req'[q] = req[q]
    BY <2>1, <2>2 DEF Inv, TypeOK
  <2>4. UNCHANGED <<session, registry, defs, given, visits, janitor, owed>>
    BY <1>6 DEF sweeping
  <2>5. TypeOK'
    BY <1>4, <2>3, <2>4 DEF TypeOK, Inv
  <2>6. \A q \in Req : q # r /\ Seeding(q) => req[q].session # s
    BY <1>1 DEF Inv, Rules, SeedersDoNotCollide, Seeding, At
  <2>7. Alive'
    BY <1>1, <2>3, <2>4 DEF Alive, Inv, Rules
  <2>8. Unborn'
    <3>1. session[s] # None
      BY <1>1 DEF Alive, Inv, Rules
    <3> QED BY <1>5, <2>4, <3>1 DEF Unborn, Empty, Inv, Rules
  <2>9. FirstComer'
    BY <1>1, <2>3, <2>4 DEF FirstComer, Inv, Rules
  <2>10. Clean'
    <3> SUFFICES ASSUME NEW q \in Req, At(q, "touched")'
                 PROVE  (/\ req[q].type = "claim"
                         /\ session[req[q].session] = "fresh" => Empty(req[q].session))'
      BY DEF Clean
    <3>1. q # r /\ req'[q] = req[q] /\ At(q, "touched")
      BY <2>3 DEF At
    <3>2. session[req[q].session] = "fresh" => req[q].session # s
      BY <1>1, <3>1 DEF Inv, Rules, FirstComer, At
    <3> QED BY <1>5, <2>4, <3>1, <3>2 DEF Inv, Rules, Clean, Empty
  <2>11. AppLater'
    BY <1>1, <1>5, <2>3, <2>4, <2>6 DEF AppLater, Seeding, Inv, Rules
  <2>12. SeedersDoNotCollide'
    <3>1. Seeding(r)
      BY <1>1 DEF Seeding, At
    <3>2. /\ \A z \in registry : ~(z.session = s /\ z.type = "application")
          /\ \A z \in drafts : ~(z.session = s /\ z.type = "application")
      BY <1>8, <3>1 DEF AppLater, Inv, Rules
    <3>3. \A z \in drafts' : ~(z.session = s /\ z.type = "application")
      BY <1>5, <1>8, <3>2
    <3> SUFFICES ASSUME NEW q \in Req, Seeding(q)'
                 PROVE  /\ \A p \in Req \ {q} : Seeding(p)' => req'[p].session # req'[q].session
                        /\ req'[q].at \in {"create", "register"} =>
                             \A z \in registry' : ~(z.session = req'[q].session /\ z.type = req'[q].type)
                        /\ req'[q].at # "details" =>
                             \A z \in drafts' : ~(z.session = req'[q].session /\ z.type = req'[q].type)
      BY DEF SeedersDoNotCollide
    <3>4. CASE q = r
      BY <3>2, <3>3, <3>4, <2>3, <2>4, <2>6 DEF Seeding
    <3>5. CASE q # r
      BY <3>5, <1>5, <2>3, <2>4, <2>6 DEF Seeding, SeedersDoNotCollide, Inv, Rules
    <3> QED BY <3>4, <3>5
  <2>13. Ledger'
    <3>1. Registrations'
      BY <2>4 DEF Registrations, Ledger, Inv, Rules
    <3>2. Pending'
      BY <2>3, <2>4 DEF Pending, At, Ledger, Inv, Rules
    <3>3. Writing'
      BY <2>3, <2>4 DEF Writing, At, Registered, Ledger, Inv, Rules
    <3> QED BY <3>1, <3>2, <3>3 DEF Ledger
  <2> QED BY <2>5, <2>7, <2>8, <2>9, <2>10, <2>11, <2>12, <2>13 DEF Inv, Rules
<1> QED BY <1>7, <1>8

LEMMA CheckOwnerInv ==
  ASSUME Inv, NEW r \in Req, NEW d \in Def, NEW home \in Def, CheckOwner(r, d, home)
  PROVE  Inv'
<1>1. /\ At(r, "served") /\ req[r] # None /\ req[r] \in Request
      /\ UNCHANGED <<rows, defs, given, visits, sweeping>>
  BY DEF CheckOwner, At, Inv, TypeOK
<1>2. CASE Ends(r)
  BY <1>1, <1>2, EndsInv DEF Inv, TypeOK
<1>3. CASE /\ d \in Registered(req[r].session) /\ d \in defs /\ Contains(d, home)
           /\ req' = [req EXCEPT ![r].at = "write", ![r].def = home]
  <2> DEFINE row == [req[r] EXCEPT !.at = "write", !.def = home]
  <2>1. /\ row \in Request /\ row.session = req[r].session /\ row.type = req[r].type
        /\ row.at = "write" /\ row.def = home
    BY <1>1 DEF Request
  <2>2. req' = [req EXCEPT ![r] = row]
    BY <1>3
  <2>3. Moved(r, "write") /\ req'[r].def = home /\ req' \in [Req -> Request \cup {None}]
    BY <2>1, <2>2 DEF Moved, Inv, TypeOK
  <2>4. home = d /\ home \in 1..given /\ home \in Registered(req[r].session)
    BY <1>3 DEF Contains, Inv, TypeOK
  <2>5. UNCHANGED <<session, registry, drafts, defs, given, visits, janitor, owed>>
    BY <1>1 DEF rows, sweeping
  <2>6. TypeOK'
    BY <2>3, <2>4, <2>5 DEF TypeOK, Inv, Moved
  <2>7. Alive' /\ Unborn' /\ FirstComer' /\ Clean'
    BY <1>1, <2>3, <2>5, MovedKeepsSessions DEF Points
  <2>8. \A q \in Req : Seeding(q)' => q # r /\ Seeding(q) /\ req'[q] = req[q]
    BY <2>3 DEF Seeding, Moved
  <2>9. AppLater' /\ SeedersDoNotCollide'
    BY <2>5, <2>8 DEF AppLater, SeedersDoNotCollide, Inv, Rules
  <2>10. Registrations'
    BY <2>5 DEF Registrations, Ledger, Inv, Rules
  <2>11. Pending'
    BY <2>3, <2>5 DEF Pending, At, Moved, Ledger, Inv, Rules
  <2>12. Writing'
    BY <2>3, <2>4, <2>5 DEF Writing, At, Moved, Registered, Ledger, Inv, Rules
  <2> QED BY <2>6, <2>7, <2>9, <2>10, <2>11, <2>12 DEF Inv, Rules, Ledger
<1> QED BY <1>2, <1>3 DEF CheckOwner

-----------------------------------------------------------------------------
(* The janitor.                                                            *)

\* The sweep takes sessions nobody works in, with all their rows.
LEMMA ExpireInv ==
  ASSUME Inv, NEW S \in SUBSET Sid, Expire(S)
  PROVE  Inv'
<1> USE SessionsAssumption
<1>1. \A q \in Req : req[q] # None => req[q].session \in Sid \ S
  BY DEF Expire, Busy, Inv, TypeOK, Request
<1>2. /\ session' \in [Sid -> {None, "fresh", "touched"}]
      /\ \A s \in Sid : session'[s] = IF s \in S THEN None ELSE session[s]
  BY DEF Expire, Inv, TypeOK
<1>3. /\ registry' = {x \in registry : x.session \notin S}
      /\ drafts' = {x \in drafts : x.session \notin S}
      /\ UNCHANGED <<defs, given, visits, req>>
  BY DEF Expire
<1>4. TypeOK'
  <2>1. owed' \subseteq 1..given
    BY DEF Expire, Inv, Rules, Ledger, Registrations
  <2>2. janitor' \in [left: SUBSET Sid, doomed: SUBSET (1..given)]
    BY DEF Expire
  <2> QED BY <1>2, <1>3, <2>1, <2>2 DEF TypeOK, Inv
<1>5. Alive'
  BY <1>1, <1>2, <1>3 DEF Alive, Inv, Rules
<1>6. Unborn'
  BY <1>2, <1>3 DEF Unborn, Empty, Inv, Rules
<1>7. FirstComer'
  BY <1>1, <1>2, <1>3 DEF FirstComer, Inv, Rules
<1>8. Clean'
  BY <1>1, <1>2, <1>3 DEF Clean, At, Empty, Inv, Rules
<1>9. AppLater'
  BY <1>3 DEF AppLater, Seeding, Inv, Rules
<1>10. SeedersDoNotCollide'
  BY <1>3 DEF SeedersDoNotCollide, Seeding, Inv, Rules
<1>11. Registrations'
  BY <1>3 DEF Registrations, Ledger, Inv, Rules
<1>12. Pending'
  BY <1>3 DEF Pending, At, Ledger, Inv, Rules
<1>13. Writing'
  <2> SUFFICES ASSUME NEW q \in Req, At(q, "write")
               PROVE  \E x \in registry' : x.session = req[q].session /\ x.def = req[q].def
    BY <1>3 DEF Writing, Registered, At
  <2>1. PICK x \in registry : x.session = req[q].session /\ x.def = req[q].def
    BY DEF Writing, Registered, Ledger, Inv, Rules
  <2>2. x.session \notin S
    BY <1>1, <2>1 DEF At
  <2> QED BY <1>3, <2>1, <2>2
<1> QED BY <1>4, <1>5, <1>6, <1>7, <1>8, <1>9, <1>10, <1>11, <1>12, <1>13
    DEF Inv, Rules, Ledger

\* The rest of the sweep is about definitions that no request's place depends on.
LEMMA RulesKept ==
  ASSUME Inv, UNCHANGED <<rows, given, req>>
  PROVE  Rules'
<1> USE DEF rows, Inv, Rules
<1>1. Alive' /\ Unborn' /\ FirstComer' /\ Clean'
  BY DEF Alive, Unborn, FirstComer, Clean, Empty, At
<1>2. AppLater' /\ SeedersDoNotCollide'
  BY DEF AppLater, SeedersDoNotCollide, Seeding
<1>3. Ledger'
  BY DEF Ledger, Registrations, Pending, Writing, Registered, At
<1> QED BY <1>1, <1>2, <1>3

LEMMA SweepInv ==
  ASSUME Inv,
         \/ \E s \in Sid : ReadRegistry(s)
         \/ \E d \in Def : DeleteDefinition(d)
         \/ EndSweep \/ FailSweep
         \/ UNCHANGED vars
  PROVE  Inv'
<1> DEFINE Sweep == [left: SUBSET Sid, doomed: SUBSET (1..given)]
<1>1. UNCHANGED <<rows, given, visits, req, owed>>
  BY DEF ReadRegistry, DeleteDefinition, EndSweep, FailSweep, vars, rows, sweeping
<1>2. Rules'
  BY <1>1, RulesKept
<1>3. defs' \subseteq defs
  BY DEF ReadRegistry, DeleteDefinition, EndSweep, FailSweep, vars
<1>4. janitor' \in Sweep \cup {None}
  <2>1. ASSUME NEW s \in Sid, ReadRegistry(s) PROVE janitor' \in Sweep
    <3>1. Registered(s) \subseteq 1..given
      BY DEF Registered, Inv, Rules, Ledger, Registrations
    <3>2. janitor \in Sweep
      BY <2>1 DEF ReadRegistry, Inv, TypeOK
    <3> QED BY <2>1, <3>1, <3>2 DEF ReadRegistry
  <2>2. ASSUME NEW d, janitor # None, janitor' = [janitor EXCEPT !.doomed = @ \ {d}]
        PROVE  janitor' \in Sweep
    <3>1. janitor \in Sweep
      BY <2>2 DEF Inv, TypeOK
    <3> QED BY <2>2, <3>1
  <2> QED BY <2>1, <2>2
      DEF DeleteDefinition, EndSweep, FailSweep, vars, Inv, TypeOK
<1>5. TypeOK'
  BY <1>1, <1>3, <1>4 DEF TypeOK, Inv, rows
<1> QED BY <1>2, <1>5 DEF Inv

-----------------------------------------------------------------------------
LEMMA RequestEndsInv ==
  ASSUME Inv, NEW r \in Req, CreateDefinition(r) \/ Write(r) \/ Leave(r) \/ Fail(r)
  PROVE  Inv'
<1>1. Ends(r) /\ UNCHANGED <<rows, visits, sweeping>>
  BY DEF CreateDefinition, Write, Leave, Fail
<1>2. given \in 0..MaxDefs /\ defs \subseteq 1..given /\ MaxDefs \in Nat
  BY SessionsAssumption DEF Inv, TypeOK
<1>3. \/ given' = given /\ defs' = defs
      \/ given < MaxDefs /\ given' = given + 1 /\ defs' = defs \cup {given + 1}
  BY DEF CreateDefinition, Write, Leave, Fail
<1>4. given' \in 0..MaxDefs /\ given <= given' /\ defs' \subseteq 1..given'
  <2>1. CASE given' = given /\ defs' = defs
    BY <1>2, <2>1
  <2>2. CASE given < MaxDefs /\ given' = given + 1 /\ defs' = defs \cup {given + 1}
    <3>1. given' \in 0..MaxDefs /\ given <= given'
      BY <1>2, <2>2
    <3>2. 1..given \subseteq 1..given' /\ given + 1 \in 1..given'
      BY <1>2, <2>2
    <3> QED BY <1>2, <2>2, <3>1, <3>2
  <2> QED BY <1>3, <2>1, <2>2
<1> QED BY <1>1, <1>4, EndsInv

LEMMA NextInv == Inv /\ [Next]_vars => Inv'
<1> SUFFICES ASSUME Inv, [Next]_vars PROVE Inv'
  OBVIOUS
<1>1. ASSUME NEW r \in Req, NEW s \in Sid, Touch(r, s) PROVE Inv'
  BY <1>1, TouchInv
<1>2. ASSUME NEW r \in Req,
             \/ ReadCreated(r) \/ SeedDefinition(r) \/ SeedRegistration(r)
             \/ SeedDraft(r) \/ SeedDetails(r)
             \/ CreateDefinition(r) \/ Write(r) \/ Leave(r) \/ Fail(r)
      PROVE  Inv'
  BY <1>2, ReadCreatedInv, SeedDefinitionInv, SeedRegistrationInv, SeedDraftInv,
     SeedDetailsInv, RequestEndsInv
<1>3. ASSUME NEW r \in Req, NEW d \in Def, NEW home \in Def, CheckOwner(r, d, home)
      PROVE  Inv'
  BY <1>3, CheckOwnerInv
<1>4. ASSUME NEW S \in SUBSET Sid, Expire(S) PROVE Inv'
  BY <1>4, ExpireInv
<1> QED BY <1>1, <1>2, <1>3, <1>4, SweepInv DEF Next

-----------------------------------------------------------------------------
\* Requests, seeding and the sweep keep every rule above in every reachable state.
THEOREM Invariance == Spec => []Inv
<1> QED BY InitInv, NextInv, PTL DEF Spec

\* Every variable of the sessions keeps its type.
THEOREM TypeCorrectness == Spec => []TypeOK
<1>1. Inv => TypeOK
  BY DEF Inv
<1> QED BY <1>1, Invariance, PTL

\* A session is seeded by one request at most, and what it writes is never refused by
\* a unique index, however many requests a visitor sends at once and whenever the
\* session expires.
THEOREM SeedersDoNotCollideHolds == Spec => []SeedersDoNotCollide
<1>1. Inv => SeedersDoNotCollide
  BY DEF Inv, Rules
<1> QED BY <1>1, Invariance, PTL

\* An edit lands in a definition that is registered for the session of the request
\* that makes it, and for no other session.
THEOREM EditsStayInSessionHolds == Spec => EditsStayInSession
<1>1. ASSUME Inv, [Next]_vars, edited' # edited
      PROVE  /\ edited'.def \in Registered(edited'.session)
             /\ \A s \in Sid \ {edited'.session} : edited'.def \notin Registered(s)
  <2>1. PICK r \in Req : Write(r)
    BY <1>1 DEF Next, vars, Touch, ReadCreated, SeedDefinition, SeedRegistration, SeedDraft,
       SeedDetails, CreateDefinition, Leave, Fail, CheckOwner, Expire, ReadRegistry,
       DeleteDefinition, EndSweep, FailSweep
  <2>2. edited'.session = req[r].session /\ edited'.def = req[r].def /\ At(r, "write")
    BY <1>1, <2>1 DEF Write
  <2>3. edited'.def \in Registered(edited'.session)
    BY <1>1, <2>2 DEF Inv, Rules, Ledger, Writing
  <2>4. \A s \in Sid \ {edited'.session} : edited'.def \notin Registered(s)
    BY <1>1, <2>3 DEF Registered, Inv, Rules, Ledger, Registrations
  <2> QED BY <2>3, <2>4
<1> QED BY <1>1, Invariance, PTL DEF Spec, EditsStayInSession
=============================================================================
