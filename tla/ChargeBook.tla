----------------------------- MODULE ChargeBook -----------------------------
(***************************************************************************)
(* What the ingestion of session events promises (ADR-016), with locks,    *)
(* waits, deadlocks and the order of its inserts hidden.  An event is      *)
(* taken in by one invocation in at most three moments: it draws its       *)
(* number, a boundary looks at what its root session has reported, and     *)
(* then all happens at once or not at all: the event is kept, everything   *)
(* that was due in what the boundary saw and has not been paid is paid,    *)
(* and the task is settled, all of it for an owner that is, at that very   *)
(* moment, bound to the session of the event.                              *)
(***************************************************************************)
EXTENDS Naturals

CONSTANTS Ingestions, Metas, EventOf, Roots, GenerationOf, OwnerIsTask, Numbers, None

VARIABLES stored, ledger,                \* the events and charges that are kept
          status, startedAt, sessionId,  \* the owner
          event,  \* what an invocation takes in
          number, \* the number it drew, 0 for an event that was kept before
          ready,  \* the invocations that have looked, or need not look
          view    \* what it saw

book == <<stored, ledger>>
owner == <<status, startedAt, sessionId>>
vars == <<book, owner, event, number, ready, view>>

Init ==
    /\ stored = [m \in Metas |-> 0] /\ ledger = [m \in Metas |-> None]
    /\ status = "running" /\ sessionId = None
    /\ startedAt = IF OwnerIsTask THEN 1 ELSE None
    /\ event = [w \in Ingestions |-> None]
    /\ number = [w \in Ingestions |-> 0]
    /\ ready = {}
    /\ view = [w \in Ingestions |-> {}]

Boundary(m) ==
    /\ EventOf[m].session = EventOf[m].root
    /\ EventOf[m].kind \in {"session.waiting", "session.completed", "session.failed",
                            "turn.cancelled", "turn.failed"}

\* The session of a task is over.
Ends(m) == OwnerIsTask /\ Boundary(m) /\ EventOf[m].kind # "session.waiting"

MayEnd(kind) ==
    CASE kind = "session.completed" -> {"succeeded", "failed"}
      [] kind = "turn.cancelled" -> {"cancelled"} [] OTHER -> {"failed"}

BoundTo(m) ==
    /\ OwnerIsTask => startedAt = GenerationOf[EventOf[m].root]
    /\ sessionId = None \/ sessionId = EventOf[m].root

\* What there is to see of a root session: models announced, steps completed.
Reported(r) ==
    {m \in Metas : /\ stored[m] # 0 /\ EventOf[m].root = r
                   /\ EventOf[m].kind \in {"session.started", "step.completed"}}

Latest(m, A) == m \in A /\ \A n \in A : stored[n] <= stored[m]

\* The attempts of the step of m, and the models its session announced, in S.
Attempts(m, S) ==
    {n \in S : /\ EventOf[n].kind = "step.completed" /\ EventOf[n].coordinate # None
               /\ EventOf[n].coordinate = EventOf[m].coordinate
               /\ EventOf[n].session = EventOf[m].session}
Announced(m, S) ==
    {n \in S : /\ EventOf[n].kind = "session.started" /\ EventOf[n].model # None
               /\ EventOf[n].session = EventOf[m].session}

Due(S) == {m \in S : Latest(m, Attempts(m, S)) /\ EventOf[m].priced /\ Announced(m, S) # {}}
-----------------------------------------------------------------------------
Bind(r) ==
    /\ sessionId = None /\ status = "running" /\ (OwnerIsTask => startedAt = GenerationOf[r])
    /\ sessionId' = r
    /\ UNCHANGED <<book, status, startedAt, event, number, ready, view>>

Unbound == OwnerIsTask /\ status = "running" /\ sessionId = None

Reclaim ==
    /\ Unbound /\ startedAt' = startedAt + 1
    /\ UNCHANGED <<book, status, sessionId, event, number, ready, view>>

FailUnbound ==
    /\ Unbound /\ status' = "failed"
    /\ UNCHANGED <<book, startedAt, sessionId, event, number, ready, view>>

\* An event has one writer, and a number above those of all that are kept.
Draw(w, m) ==
    /\ event[w] = None
    /\ event' = [event EXCEPT ![w] = m]
    /\ \A v \in Ingestions : event[v] = m => number[v] = 0
    /\ \/ stored[m] # 0 /\ UNCHANGED number
       \/ /\ stored[m] = 0
          /\ \E q \in Numbers : /\ \A n \in Metas : stored[n] < q
                                /\ \A v \in Ingestions : number[v] < q
                                /\ number' = [number EXCEPT ![w] = q]
    /\ ready' = IF Boundary(m) THEN ready ELSE ready \cup {w}
    /\ UNCHANGED <<book, owner, view>>

Look(w) ==
    /\ event[w] # None /\ w \notin ready
    /\ ready' = ready \cup {w}
    /\ view' = [view EXCEPT ![w] = Reported(EventOf[event[w]].root)]
    /\ UNCHANGED <<book, owner, event, number>>

Leave(w) ==
    /\ event[w] # None
    /\ event' = [event EXCEPT ![w] = None] /\ number' = [number EXCEPT ![w] = 0]
    /\ ready' = ready \ {w} /\ view' = [view EXCEPT ![w] = {}]

\* What is due in S and not paid is paid, for the model announced last.
Pay(S) ==
    \A e \in Metas :
        IF e \in Due(S) /\ ledger[e] = None
        THEN \E n \in S : Latest(n, Announced(e, S)) /\ ledger'[e] = EventOf[n].model
        ELSE ledger'[e] = ledger[e]

Settle(m) ==
    /\ sessionId' = EventOf[m].root
    /\ status' \in IF status = "running" THEN MayEnd(EventOf[m].kind) ELSE {status}

Close(w) ==
    LET m == event[w] IN
    /\ Leave(w) /\ w \in ready /\ BoundTo(m)
    /\ stored' = IF number[w] = 0 THEN stored ELSE [stored EXCEPT ![m] = number[w]]
    /\ Pay(view[w])
    /\ IF Ends(m) THEN Settle(m) ELSE UNCHANGED <<status, sessionId>>
    /\ UNCHANGED startedAt

Drop(w) == Leave(w) /\ UNCHANGED <<book, owner>>

Next ==
    \/ \E r \in Roots : Bind(r)
    \/ Reclaim \/ FailUnbound
    \/ \E w \in Ingestions : Look(w)
    \/ \E w \in Ingestions :
         event'[w] # event[w] /\ (Drop(w) \/ Close(w) \/ \E m \in Metas : Draw(w, m))

Spec == Init /\ [][Next]_vars
-----------------------------------------------------------------------------
(* What follows.                                                           *)

\* An event is taken in under a number by one invocation, nobody else has the
\* number, and without one an event is kept already.
OneWriter ==
    /\ \A m, n \in Metas : stored[m] # 0 /\ stored[n] = stored[m] => n = m
    /\ \A w \in Ingestions :
         /\ number[w] # 0 =>
              /\ event[w] # None /\ stored[event[w]] = 0
              /\ \A m \in Metas : stored[m] # number[w]
              /\ \A v \in Ingestions :
                   number[v] = number[w] \/ event[v] = event[w] => v = w
         /\ event[w] # None /\ number[w] = 0 => stored[event[w]] # 0

\* Only a boundary looks, at what its root has reported; and nothing is paid
\* but a priced step that was reported, for a model its session announced,
\* once a boundary of its root is kept.
ChargesHaveBoundaries ==
    /\ \A w \in Ingestions :
         /\ event[w] # None /\ w \notin ready => Boundary(event[w])
         /\ view[w] # {} => /\ event[w] # None /\ Boundary(event[w])
                            /\ view[w] \subseteq Reported(EventOf[event[w]].root)
    /\ \A e \in Metas : ledger[e] # None =>
         /\ e \in Reported(EventOf[e].root)
         /\ EventOf[e].kind = "step.completed" /\ EventOf[e].priced
         /\ \E n \in Announced(e, Reported(EventOf[e].root)) : ledger[e] = EventOf[n].model
         /\ \E b \in Metas : stored[b] # 0 /\ Boundary(b) /\ EventOf[b].root = EventOf[e].root

\* A task has ended with its session, as an event that is kept said, unless
\* its delivery had failed before.
EndsHaveEvents ==
    \/ status = "running"
    \/ status = "failed" /\ sessionId = None
    \/ \E m \in Metas :
         /\ stored[m] # 0 /\ Ends(m) /\ EventOf[m].root = sessionId
         /\ status \in MayEnd(EventOf[m].kind) \cup {"failed"}

\* What is written stays: numbers, charges, the session, the end.
BookIsKept ==
    [][/\ \A m \in Metas : /\ stored[m] # 0 => stored'[m] = stored[m]
                           /\ ledger[m] # None => ledger'[m] = ledger[m]
       /\ status # "running" => status' = status
       /\ sessionId # None => sessionId' = sessionId /\ startedAt' = startedAt]_vars
=============================================================================
