-------------------------- MODULE MCSessionCharges --------------------------
(* Instances of SessionCharges for TLC. *)
EXTENDS SessionCharges, TLC

CONSTANTS started, childStarted, childStep, first, again, other, waiting,
          completed, cancelled, rival, \* event ids
          R, R2, C,                    \* two root sessions and a child
          A, B,                        \* coordinates
          m1, m2                       \* models

Blank(kind, session) ==
    [kind |-> kind, root |-> IF session = R2 THEN R2 ELSE R, session |-> session,
     coordinate |-> None, priced |-> FALSE, model |-> None]

Announcement(session, model) == [Blank("session.started", session) EXCEPT !.model = model]

Attempt(session, coordinate) ==
    [Blank("step.completed", session) EXCEPT !.coordinate = coordinate, !.priced = TRUE]

\* first and again are two attempts of one step, childStep is a step of the child.
EventTable ==
    started      :> Announcement(R, m1) @@
    childStarted :> Announcement(C, m2) @@
    childStep    :> Attempt(C, A) @@
    first        :> Attempt(R, A) @@
    again        :> Attempt(R, A) @@
    other        :> Attempt(R, B) @@
    waiting      :> Blank("session.waiting", R) @@
    completed    :> Blank("session.completed", R) @@
    cancelled    :> Blank("turn.cancelled", R) @@
    rival        :> Blank("session.completed", R2)

EventsHere == [m \in Metas |-> EventTable[m]]

OneGeneration == [r \in Roots |-> 1]

\* The second root session carries the second claim of the task.
TwoGenerations == [r \in Roots |-> IF r = R2 THEN 2 ELSE 1]

Interchangeable == Permutations(Ingestions)
=============================================================================
