------------------------- MODULE MCCodexConcurrency -------------------------
(* Small instances of CodexConcurrency: four turns of a heavy user, two of    *)
(* another user and one without a user.                                       *)
EXTENDS CodexConcurrency

CONSTANTS a1, a2, a3, a4, b1, b2, n1, alice, bob
MCUserOf == [t \in Turn |-> CASE t \in {a1, a2, a3, a4} -> alice
                              [] t \in {b1, b2}         -> bob
                              [] OTHER                  -> Nobody]
=============================================================================
