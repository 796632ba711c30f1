--------------------------- MODULE MCConsoleEdits ---------------------------
(***************************************************************************)
(* Two tabs that edit one definition of two steps.                         *)
(***************************************************************************)
EXTENDS ConsoleEdits, MCCatalog

CONSTANTS tab1, tab2

TwoSteps == {Pair}
Loop == {Route(t1, None)}
=============================================================================
