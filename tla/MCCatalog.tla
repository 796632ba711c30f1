------------------------------ MODULE MCCatalog ------------------------------
(***************************************************************************)
(* Small instances of the Catalog for TLC: two definitions, so that there  *)
(* is another one to refer to by mistake.                                  *)
(***************************************************************************)
EXTENDS Catalog, TLC

CONSTANTS d1, d2, s1, s2, t1, t2, a1, a2, open, shut, adder, reader

Tree(d, statuses, steps, actions, entry) ==
  [def |-> d, name |-> open, statuses |-> statuses, steps |-> steps, actions |-> actions, entry |-> entry]

Status(s, n) == [id |-> s, name |-> n]
Step(t, n, s) == [id |-> t, name |-> n, status |-> s]
Action(a, t, next, terminal) ==
  [id |-> a, name |-> open, step |-> t, next |-> next, terminal |-> terminal]

Route(next, terminal) == [next |-> next, terminal |-> terminal]
MCRoutes == {Route(t1, None), Route(t2, None), Route(None, s1), Route(None, s2), Route(None, None)}

\* Two steps, the second the entry and the first a loop; and a definition of one step.
Pair == Tree(d1, {Status(s1, open), Status(s2, shut)}, <<Step(t1, open, s1), Step(t2, shut, s2)>>,
             {Action(a1, t1, t1, None)}, t2)
Small == Tree(d1, {Status(s1, open)}, <<Step(t1, open, s1)>>, {}, None)
Single == Tree(d2, {Status(s2, open)}, <<Step(t2, open, s2)>>, {}, t2)

\* Trees with one defect each.
Empty == Tree(d2, {Status(s2, open)}, <<>>, {}, None)
EntryElsewhere == Tree(d2, {Status(s2, open)}, <<Step(t2, open, s2)>>, {}, t1)
StatusElsewhere == Tree(d2, {}, <<Step(t2, open, s1)>>, {}, None)
RouteElsewhere ==
  Tree(d2, {Status(s2, open)}, <<Step(t2, open, s2)>>, {Action(a2, t2, t1, None)}, None)
NoTarget == Tree(d2, {Status(s2, open)}, <<Step(t2, open, s2)>>,
                 {Action(a2, t2, None, None)}, None)
TwoNames == Tree(d2, {Status(s1, open), Status(s2, open)}, <<Step(t2, open, s2)>>, {}, None)

SameId == Tree(d2, {Status(s2, open)}, <<Step(t2, open, s2), Step(t2, shut, s2)>>, {}, None)

MCTrees == {Pair, Small, Single, Empty, EntryElsewhere, StatusElsewhere, RouteElsewhere,
            NoTarget, TwoNames, SameId}

\* A refused call leaves everything but the reply as it was (an AddAction, as it is
\* after Fail): what can follow it can follow its absence.
NotRefused == reply = Success
=============================================================================
