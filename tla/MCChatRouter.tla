---------------------------- MODULE MCChatRouter ----------------------------
(***************************************************************************)
(* Instances of ChatRouter.                                                *)
(***************************************************************************)
EXTENDS ChatRouter

CONSTANTS p1, p2

Pair == {p1, p2}

\* An unconstrained binding, then a free-only one.
AnyThenFree == << [provider |-> p1, freeOnly |-> FALSE],
                  [provider |-> p2, freeOnly |-> TRUE] >>

\* Two bindings with no constraint.
AnyTwo == << [provider |-> p1, freeOnly |-> FALSE],
             [provider |-> p2, freeOnly |-> FALSE] >>

\* The first provider is switched on and off, the model of the second repriced.
SwitchAndReprice == {<<"enable", p1>>, <<"reprice", p2>>}
=============================================================================
