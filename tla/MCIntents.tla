----------------------------- MODULE MCIntents -----------------------------
(* Two sessions race for one conversation, another conversation declares    *)
(* too; the CMO refines, and again, and a person adopts or abandons.        *)
EXTENDS Intents, TLC

CONSTANTS v1, v2, s1, s2, s3, f1, x, y, declare, other, propose, refine, retry, later, adopt, edit, abandon

MCOf == [s \in Sessions |-> IF s = s3 THEN v2 ELSE v1]

By(session, kind, n, text) ==
    [by |-> "cmo", kind |-> kind, session |-> session, turn |-> n, content |-> text]
On(f, kind) == [by |-> "human", kind |-> kind, form |-> f, content |-> x]

AllAsks ==
    (declare :> By(s1, "declare", 1, x)) @@ (other :> By(s3, "declare", 1, x))
    @@ (propose :> By(s2, "propose", 1, y))
    @@ (refine :> By(s1, "refine", 1, y)) @@ (retry :> By(s1, "refine", 1, y))
    @@ (later :> By(s1, "refine", 2, y))
    @@ (adopt :> On(f1, "adopt")) @@ (edit :> On(f1, "refine")) @@ (abandon :> On(f1, "abandon"))

MCAsk == [c \in Calls |-> AllAsks[c]]

\* The two refinements ask for the same.
Symmetry == Permutations({refine, retry})
=============================================================================
