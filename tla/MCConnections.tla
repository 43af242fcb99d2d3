--------------------------- MODULE MCConnections ---------------------------
(* An instance of Connections for TLC. *)
EXTENDS Connections, TLC

CONSTANTS c1, c2, c3, c4, c5, c6, k1, k2, k3, k4, notion, u1, u2

Asked(kind, key, user, account) ==
    [kind |-> kind, key |-> key, slot |-> notion, user |-> user, account |-> account]

\* A double submission, the same key for another account, a rival member,
\* and two members who disconnect.
AllAsks ==
        c1 :> Asked("connect", k1, u1, 1) @@ c2 :> Asked("connect", k1, u1, 1)
     @@ c3 :> Asked("connect", k1, u1, 2) @@ c4 :> Asked("connect", k2, u2, 1)
     @@ c5 :> Asked("disconnect", k3, u1, 0) @@ c6 :> Asked("disconnect", k4, u2, 0)

Asks == [c \in Calls |-> AllAsks[c]]

Twins == Permutations({c1, c2})
=============================================================================
