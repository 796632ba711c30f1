---------------------------- MODULE ConsoleEdits ----------------------------
(***************************************************************************)
(* The console's edits of a definition's own row                           *)
(* (src/client/internal/app/catalog.go): SetEntryStep and RenameDefinition *)
(* over the Catalog. Each reads the definition with Get and then replaces  *)
(* name and entry step together, one of them by what it has read.          *)
(*                                                                         *)
(* They are the console's only calls of UpdateWorkflowDefinition; the rest *)
(* of the Catalog is edited meanwhile. That a session may edit only its    *)
(* own definitions is in Sessions; the calls here are of tabs of one       *)
(* session.                                                                *)
(***************************************************************************)
EXTENDS Catalog

VARIABLES
  asked,  \* asked[p]: what p's call is to change, None when p has no call
  params  \* params[p]: the row p's call is about to write, None before it has read

cvars == <<vars, asked, params>>

Ask(p, d, n, t) ==
  /\ asked[p] = None
  /\ ReadDefinitionRow(p, d)
  /\ asked' = [asked EXCEPT ![p] = [def |-> d, name |-> n, entry |-> t]]
  /\ UNCHANGED params

SetEntryStep(p, d, t) == Ask(p, d, None, t)
RenameDefinition(p, d, n) == Ask(p, d, n, None)

Reads(p) == ReadTable(p) /\ UNCHANGED <<asked, params>>

\* SetEntryStep goes on only with a step it has seen; ToUpdate carries forward the
\* field the call is not about.
Prepare(p) ==
  LET read == reading[p].answer
      call == asked[p]
  IN /\ Return(p)
     /\ \/ /\ call.entry # None /\ call.entry \notin {x[1] : x \in read["step"]}
           /\ asked' = [asked EXCEPT ![p] = None]
           /\ UNCHANGED params
        \/ /\ call.entry # None => call.entry \in {x[1] : x \in read["step"]}
           /\ params' = [params EXCEPT ![p] =
                [name |-> IF call.name = None THEN read["definition"].name ELSE call.name,
                 entry |-> IF call.entry = None THEN read["definition"].entry ELSE call.entry]]
           /\ UNCHANGED asked

Write(p) ==
  /\ params[p] # None
  /\ UpdateWorkflowDefinition(asked[p].def, params[p].name, params[p].entry)
  /\ asked' = [asked EXCEPT ![p] = None]
  /\ params' = [params EXCEPT ![p] = None]

\* The request is given up before it writes.
GiveUp(p) ==
  /\ asked[p] # None
  /\ \/ Fail(p)
     \/ params[p] # None /\ UNCHANGED vars
  /\ asked' = [asked EXCEPT ![p] = None]
  /\ params' = [params EXCEPT ![p] = None]

ConsoleInit ==
  /\ Init
  /\ asked = [p \in Readers |-> None]
  /\ params = [p \in Readers |-> None]

ConsoleNext ==
  \/ EditParts /\ UNCHANGED <<asked, params>>
  \/ \E p \in Readers, d \in DefId, t \in StepId : SetEntryStep(p, d, t)
  \/ \E p \in Readers, d \in DefId, n \in Names : RenameDefinition(p, d, n)
  \/ \E p \in Readers : Reads(p) \/ Prepare(p) \/ Write(p) \/ GiveUp(p)

ConsoleSpec == ConsoleInit /\ [][ConsoleNext]_cvars

-----------------------------------------------------------------------------
\* "RenameDefinition changes the workflow's own name, keeping its entry step"
\* (client/internal/app/catalog.go): whatever entry step the definition has when the
\* name is written, it has afterwards.
RenameKeepsEntryStep ==
  [][\A p \in Readers :
       /\ params[p] # None /\ params'[p] = None
       /\ asked[p].name # None /\ db.definition[asked[p].def] # None
       => db'.definition[asked[p].def].entry = db.definition[asked[p].def].entry]_cvars

=============================================================================
