--------------------------- MODULE MCWorkRequests ---------------------------
(* An instance of WorkRequests for TLC. *)
EXTENDS WorkRequests, TLC

CONSTANTS r1, r2, r3, r4, o1, l1, a1, f1, f2, i1, i2, k1, k2, k3, k4, k5, k6, k7, content, plan

Asked(kind, key, intent, revision_, subject, task_) ==
    [kind |-> kind, key |-> key, intent |-> intent, revision |-> revision_,
     subject |-> subject, task |-> task_]

\* A tool call that is retried, also when its target has become another
\* Intent, and one of a later turn; the first task's session produces its
\* report and hands work on; its questions are answered; and the Intent is
\* refined and abandoned from one revision.
AllAsks ==
        r1 :> Asked("request", k1, i1, 0, content, r1)
     @@ r2 :> Asked("request", k1, i1, 0, content, r1)
     @@ r3 :> Asked("request", k1, i2, 0, content, r1)
     @@ r4 :> Asked("request", k2, i1, 0, content, r1)
     @@ o1 :> Asked("output", k3, i1, 0, content, r1)
     @@ l1 :> Asked("lateral", k4, i1, 0, plan, r1)
     @@ a1 :> Asked("answer", k5, i1, 0, content, r1)
     @@ f1 :> Asked("refine", k6, i1, 1, content, r1)
     @@ f2 :> Asked("abandon", k7, i1, 1, content, r1)

Asks == [c \in Calls |-> AllAsks[c]]
=============================================================================
