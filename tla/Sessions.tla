------------------------------ MODULE Sessions ------------------------------
(***************************************************************************)
(* The console's sessions (src/client/internal: server.go, store.go,       *)
(* seed.go, catalog.go, app.go): a request touches the session its cookie  *)
(* names, seeds it when it was created, and edits the definitions the      *)
(* session owns, while the janitor expires sessions.                       *)
(*                                                                         *)
(* Every statement commits on its own; one action is one statement.        *)
(* Two assumptions on time: two touches of a session have different        *)
(* timestamps, and no request lasts as long as the time to live, so that a *)
(* session does not expire under a request.                                *)
(***************************************************************************)
EXTENDS Naturals

CONSTANTS
  Sid,        \* session ids, as cookies carry them
  Req,        \* requests that are under way at a time
  MaxDefs,    \* bound: definitions that are created
  MaxVisits,  \* bound: requests that arrive
  MayFail,    \* may a statement fail, or a visitor go away?
  None

ASSUME SessionsAssumption ==
  /\ MaxDefs \in Nat /\ MaxVisits \in Nat /\ MayFail \in BOOLEAN
  /\ None \notin Sid \cup {"fresh", "touched"}

VARIABLES
  session,  \* session[s]: no row, "fresh" (created_at = last_seen_at), or "touched"
  registry, \* rows of workflow_registry: which definition serves which type for whom
  drafts,   \* seeded submissions; one is full once its details and documents are in
  defs,     \* the workflow definitions of the library
  given,    \* the definition ids given out
  visits,   \* the requests that have arrived
  req,      \* req[r]: the session r acts for, where it is, and what it works on
  janitor,  \* the sweep: sessions whose registry is still to be read, definitions to delete
  owed,     \* history: what was registered to the sessions the current sweep expired
  edited    \* history: the last edit, by which session and in which definition

vars == <<session, registry, drafts, defs, given, visits, req, janitor, owed, edited>>
rows == <<session, registry, drafts>>
sweeping == <<janitor, owed>>

Types == {"claim", "application"}
Def == 1..MaxDefs

\* Request r goes on at another point, or ends.
Goes(r, at) == req' = [req EXCEPT ![r].at = at]
Ends(r) == req' = [req EXCEPT ![r] = None]
At(r, at) == req[r] # None /\ req[r].at = at

Busy(s) == \E r \in Req : req[r] # None /\ req[r].session = s
Registered(s) == {x.def : x \in {y \in registry : y.session = s}}

-----------------------------------------------------------------------------
(* withSession.                                                            *)

\* The first statement of TouchSession: a new row, or a later last_seen_at.
Touch(r, s) ==
  /\ req[r] = None
  /\ visits < MaxVisits
  /\ session' = [session EXCEPT ![s] = IF @ = None THEN "fresh" ELSE "touched"]
  /\ req' = [req EXCEPT ![r] = [session |-> s, at |-> "touched", type |-> "claim", def |-> None]]
  /\ visits' = visits + 1
  /\ UNCHANGED <<registry, drafts, defs, given, sweeping, edited>>

\* Mutant: whoever finds a row takes the session for created.
WasCreatedAlways(s) == session[s] # None

\* The second statement: created_at = last_seen_at.
WasCreated(s) == session[s] = "fresh"

ReadCreated(r) ==
  /\ At(r, "touched")
  /\ Goes(r, IF WasCreated(req[r].session) THEN "create" ELSE "served")
  /\ UNCHANGED <<rows, defs, given, visits, sweeping, edited>>

-----------------------------------------------------------------------------
(* SeedSession: the claim example, then the application example.           *)

\* Mutant: the id of the new definition is not kept.
SeedDefinitionForgetting(r) ==
  /\ At(r, "create")
  /\ given < MaxDefs
  /\ given' = given + 1
  /\ defs' = defs \cup {given + 1}
  /\ Goes(r, "register")
  /\ UNCHANGED <<rows, visits, sweeping, edited>>

SeedDefinition(r) ==
  /\ At(r, "create")
  /\ given < MaxDefs
  /\ given' = given + 1
  /\ defs' = defs \cup {given + 1}
  /\ req' = [req EXCEPT ![r].at = "register", ![r].def = given + 1]
  /\ UNCHANGED <<rows, visits, sweeping, edited>>

\* One active workflow per session and type; an error ends the request.
SeedRegistration(r) ==
  LET s == req[r].session
      t == req[r].type IN
  /\ At(r, "register")
  /\ \/ /\ \E x \in registry : x.session = s /\ x.type = t
        /\ Ends(r) /\ UNCHANGED registry
     \/ /\ \A x \in registry : ~(x.session = s /\ x.type = t)
        /\ registry' = registry \cup {[session |-> s, type |-> t, def |-> req[r].def]}
        /\ Goes(r, "draft")
  /\ UNCHANGED <<session, drafts, defs, given, visits, sweeping, edited>>

\* A reference is used once per session: each example has its own.
SeedDraft(r) ==
  LET s == req[r].session
      t == req[r].type IN
  /\ At(r, "draft")
  /\ \/ /\ \E x \in drafts : x.session = s /\ x.type = t
        /\ Ends(r) /\ UNCHANGED drafts
     \/ /\ \A x \in drafts : ~(x.session = s /\ x.type = t)
        /\ drafts' = drafts \cup {[session |-> s, type |-> t, full |-> FALSE]}
        /\ Goes(r, "details")
  /\ UNCHANGED <<session, registry, defs, given, visits, sweeping, edited>>

\* The detail row and, for the claim, the documents.
SeedDetails(r) ==
  LET Draft(full) == [session |-> req[r].session, type |-> req[r].type, full |-> full] IN
  /\ At(r, "details")
  /\ drafts' = (drafts \ {Draft(FALSE)}) \cup {Draft(TRUE)}
  /\ IF req[r].type = "claim"
     THEN req' = [req EXCEPT ![r].at = "create", ![r].type = "application"]
     ELSE Goes(r, "served")
  /\ UNCHANGED <<session, registry, defs, given, visits, sweeping, edited>>

-----------------------------------------------------------------------------
(* What a request does in its session.                                     *)

\* CreateDefinition leaves the registry alone.
CreateDefinition(r) ==
  /\ At(r, "served")
  /\ given < MaxDefs
  /\ given' = given + 1
  /\ defs' = defs \cup {given + 1}
  /\ Ends(r)
  /\ UNCHANGED <<rows, visits, sweeping, edited>>

\* Mutant: the part is not looked for in the definition.
ContainsAnything(d, home) == TRUE

\* Is a part of definition `home` found among the parts of definition d?
Contains(d, home) == d = home

\* mustOwn and mustContain: the request names a definition, and a part of one.
CheckOwner(r, d, home) ==
  /\ At(r, "served")
  /\ \/ /\ d \in Registered(req[r].session) /\ d \in defs /\ Contains(d, home)
        /\ req' = [req EXCEPT ![r].at = "write", ![r].def = home]
     \/ /\ ~(d \in Registered(req[r].session) /\ d \in defs /\ Contains(d, home))
        /\ Ends(r)
  /\ UNCHANGED <<rows, defs, given, visits, sweeping, edited>>

\* The catalog's call: whoever asks, and NotFound when the definition is gone.
Write(r) ==
  /\ At(r, "write")
  /\ edited' = IF req[r].def \in defs
               THEN [session |-> req[r].session, def |-> req[r].def] ELSE edited
  /\ Ends(r)
  /\ UNCHANGED <<rows, defs, given, visits, sweeping>>

\* A request that only reads.
Leave(r) ==
  /\ At(r, "served")
  /\ Ends(r)
  /\ UNCHANGED <<rows, defs, given, visits, sweeping, edited>>

\* A statement fails, or the visitor goes away and the context is cancelled.
Fail(r) ==
  /\ MayFail
  /\ req[r] # None /\ req[r].at # "served"
  /\ Ends(r)
  /\ UNCHANGED <<rows, defs, given, visits, sweeping, edited>>

-----------------------------------------------------------------------------
(* The janitor.                                                            *)

\* ExpiredSessions deletes the rows, and the cascades what hangs on them.
Expire(S) ==
  /\ janitor = None
  /\ S # {} /\ \A s \in S : session[s] # None /\ ~Busy(s)
  /\ session' = [s \in Sid |-> IF s \in S THEN None ELSE session[s]]
  /\ registry' = {x \in registry : x.session \notin S}
  /\ drafts' = {x \in drafts : x.session \notin S}
  /\ owed' = {x.def : x \in {y \in registry : y.session \in S}}
  /\ janitor' = [left |-> S, doomed |-> {}]
  /\ UNCHANGED <<defs, given, visits, req, edited>>

\* Then the registry is read, session by session ...
ReadRegistry(s) ==
  /\ janitor # None /\ s \in janitor.left
  /\ janitor' = [left |-> janitor.left \ {s}, doomed |-> janitor.doomed \cup Registered(s)]
  /\ UNCHANGED <<rows, defs, given, visits, req, owed, edited>>

\* ... and every definition found is deleted.
DeleteDefinition(d) ==
  /\ janitor # None /\ janitor.left = {} /\ d \in janitor.doomed
  /\ janitor' = [janitor EXCEPT !.doomed = @ \ {d}]
  /\ defs' = defs \ {d}
  /\ UNCHANGED <<rows, given, visits, req, owed, edited>>

EndSweep ==
  /\ janitor # None /\ janitor.left = {} /\ janitor.doomed = {}
  /\ janitor' = None
  /\ UNCHANGED <<rows, defs, given, visits, req, owed, edited>>

\* A registry that cannot be read ends the sweep, a definition that cannot be
\* deleted is passed over.
FailSweep ==
  /\ MayFail
  /\ janitor # None
  /\ \/ janitor.left # {} /\ janitor' = None
     \/ /\ janitor.left = {}
        /\ \E d \in janitor.doomed : janitor' = [janitor EXCEPT !.doomed = @ \ {d}]
  /\ UNCHANGED <<rows, defs, given, visits, req, owed, edited>>

-----------------------------------------------------------------------------
Init ==
  /\ session = [s \in Sid |-> None]
  /\ registry = {} /\ drafts = {}
  /\ defs = {} /\ given = 0 /\ visits = 0
  /\ req = [r \in Req |-> None]
  /\ janitor = None /\ owed = {}
  /\ edited = [session |-> None, def |-> None]

Next ==
  \/ \E r \in Req :
       \/ \E s \in Sid : Touch(r, s)
       \/ ReadCreated(r) \/ SeedDefinition(r) \/ SeedRegistration(r)
       \/ SeedDraft(r) \/ SeedDetails(r)
       \/ CreateDefinition(r) \/ Write(r) \/ Leave(r) \/ Fail(r)
       \/ \E d, home \in Def : CheckOwner(r, d, home)
  \/ \E S \in SUBSET Sid : Expire(S)
  \/ \E s \in Sid : ReadRegistry(s)
  \/ \E d \in Def : DeleteDefinition(d)
  \/ EndSweep \/ FailSweep

Spec == Init /\ [][Next]_vars

(***************************************************************************)
(* Properties.                                                             *)
(***************************************************************************)

Request ==
  [session: Sid, type: Types, def: Def \cup {None},
   at: {"touched", "create", "register", "draft", "details", "served", "write"}]

\* A request works on a definition from the moment it has created or asked for one;
\* definitions are those given out; a doomed definition was given out too.
TypeOK ==
  /\ session \in [Sid -> {None, "fresh", "touched"}]
  /\ registry \subseteq [session: Sid, type: Types, def: Def]
  /\ drafts \subseteq [session: Sid, type: Types, full: BOOLEAN]
  /\ given \in 0..MaxDefs /\ defs \subseteq 1..given /\ visits \in 0..MaxVisits
  /\ req \in [Req -> Request \cup {None}]
  /\ \A r \in Req :
       req[r] # None /\ req[r].at \in {"register", "draft", "details", "write"} => req[r].def \in 1..given
  /\ janitor \in [left: SUBSET Sid, doomed: SUBSET (1..given)] \cup {None}
  /\ owed \subseteq 1..given

Seeding(r) == req[r] # None /\ req[r].at \in {"create", "register", "draft", "details"}

\* Requests of one visitor arrive together, and a visitor whose session has expired
\* comes back with the old cookie: still a session is seeded by one request at most,
\* and none of the unique indexes on its rows ever refuses what it writes.
SeedersDoNotCollide ==
  \A r \in Req : Seeding(r) =>
    LET s == req[r].session
        t == req[r].type IN
    /\ \A q \in Req \ {r} : Seeding(q) => req[q].session # s
    /\ req[r].at \in {"create", "register"} => \A x \in registry : ~(x.session = s /\ x.type = t)
    /\ req[r].at # "details" => \A x \in drafts : ~(x.session = s /\ x.type = t)

\* Whichever definition and part a request names, an edit lands in a definition of
\* its own session, which is registered for no other.
EditsStayInSession ==
  [][edited' # edited =>
       /\ edited'.def \in Registered(edited'.session)
       /\ \A s \in Sid \ {edited'.session} : edited'.def \notin Registered(s)]_vars

-----------------------------------------------------------------------------
(* Properties the comments state and the code does not have.               *)

\* store.go: the bool reports whether the session was created, which is what
\* triggers seeding. So a session nobody is working on has both examples.
SessionsAreSeeded ==
  \A s \in Sid : session[s] # None /\ ~Busy(s) =>
    \A t \in Types :
      /\ \E x \in registry : x.session = s /\ x.type = t
      /\ [session |-> s, type |-> t, full |-> TRUE] \in drafts

\* app.go: a sweep deletes the definitions of expired sessions. A sweep that comes to
\* its end has deleted those and no others.
SweepsAreExact ==
  [][/\ janitor # None /\ janitor' = None => owed \cap defs' = {}
     /\ defs \ defs' \subseteq owed]_vars
=============================================================================
