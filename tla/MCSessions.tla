----------------------------- MODULE MCSessions -----------------------------
(***************************************************************************)
(* Small instances of the Sessions for TLC. The spare session is a second  *)
(* visitor's; a cookie outlives its session, so that a session id comes    *)
(* back after it was swept.                                                *)
(***************************************************************************)
EXTENDS Sessions, TLC

CONSTANTS mine, spare, tab1, tab2
=============================================================================
