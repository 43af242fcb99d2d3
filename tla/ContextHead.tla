---------------------------- MODULE ContextHead ----------------------------
(***************************************************************************)
(* What the Brand Context of a brand promises (ADR-007, ADR-014): nothing, *)
(* then a chain of versions.  The import writes the first one; each later  *)
(* one is written by a task, at most once, from the very version it        *)
(* replaces.  There is one current version, the last.                      *)
(***************************************************************************)
EXTENDS Naturals, Sequences

CONSTANTS Writers, \* tasks that may replace the head
          System   \* the actor of the import

VARIABLES chain,   \* versions [by, from], in the order they were committed
          current  \* versions a reader may be given as the Brand Context

vars == <<chain, current>>

Init == chain = <<>> /\ current = {}

Append1(by) ==
    /\ chain' = Append(chain, [by |-> by, from |-> Len(chain)])
    /\ current' = {Len(chain) + 1}

Bootstrap == chain = <<>> /\ Append1(System)

Replace(w) ==
    /\ chain # <<>>
    /\ \A v \in 1..Len(chain) : chain[v].by # w
    /\ Append1(w)

Next == Bootstrap \/ \E w \in Writers : Replace(w)

Spec == Init /\ [][Next]_vars
-----------------------------------------------------------------------------
(* What follows.                                                           *)

\* Every version was made from the one before it, the first by the import and
\* each other by a task of its own; and the last one is current.
ChainIsWhole ==
    /\ \A v \in 1..Len(chain) :
         /\ chain[v].from = v - 1 /\ (chain[v].by = System <=> v = 1)
         /\ \A u \in 1..Len(chain) : chain[u].by = chain[v].by => u = v
    /\ current = IF chain = <<>> THEN {} ELSE {Len(chain)}

\* A version stays what it was.
HistoryIsKept ==
    [][/\ Len(chain) <= Len(chain')
       /\ \A v \in 1..Len(chain) : chain'[v] = chain[v]]_vars
=============================================================================
