----------------------------- MODULE KeyedSlots -----------------------------
(***************************************************************************)
(* What the connections of a brand promise: every slot has at most one     *)
(* active connection, and a request key stands for one operation.  Each    *)
(* operation happens at once or not at all, by a member who may mutate the *)
(* brand at that moment; whoever asks again with its key and its semantics *)
(* is given its receipt, and is never refused what was already done.       *)
(***************************************************************************)
CONSTANTS Calls, Keys, Slots, Users, Ask, None

VARIABLES role,   \* member.role, or "gone"
          holder, \* the call whose connection is active in a slot
          done,   \* the call that performed a key's operation
          told    \* what a call was told

vars == <<role, holder, done, told>>

Roles == {"mutator", "viewer", "gone"}

Init ==
    /\ role \in [Users -> Roles]
    /\ holder = [s \in Slots |-> None]
    /\ done = [k \in Keys |-> None]
    /\ told = [c \in Calls |-> None]

Answer(c, what) == told[c] = None /\ told' = [told EXCEPT ![c] = what]

ChangeRole == role' \in [Users -> Roles] /\ UNCHANGED <<holder, done, told>>

Perform(c) ==
    /\ done[Ask[c].key] = None /\ role[Ask[c].user] = "mutator"
    /\ \/ /\ Ask[c].kind = "connect" /\ holder[Ask[c].slot] = None
          /\ holder' = [holder EXCEPT ![Ask[c].slot] = c]
       \/ /\ Ask[c].kind = "disconnect" /\ holder[Ask[c].slot] # None
          /\ holder' = [holder EXCEPT ![Ask[c].slot] = None]
    /\ done' = [done EXCEPT ![Ask[c].key] = c]
    /\ UNCHANGED <<role, told>>

\* The receipt, or a conflict when the key was used for something else.
Receipt(c) ==
    /\ done[Ask[c].key] # None
    /\ Answer(c, IF Ask[done[Ask[c].key]] = Ask[c] THEN done[Ask[c].key] ELSE "different")
    /\ UNCHANGED <<role, holder, done>>

Refuse(c) ==
    /\ \/ Answer(c, "active") /\ done[Ask[c].key] = None
       \/ Answer(c, "absent") /\ done[Ask[c].key] = None
       \/ Answer(c, "denied") /\ role[Ask[c].user] = "viewer" /\ done[Ask[c].key] = None
       \/ Answer(c, "denied") /\ role[Ask[c].user] = "gone"
       \/ Answer(c, "error")
    /\ UNCHANGED <<role, holder, done>>

Next == ChangeRole \/ \E c \in Calls : Perform(c) \/ Receipt(c) \/ Refuse(c)

Spec == Init /\ [][Next]_vars
-----------------------------------------------------------------------------
(* What follows.                                                           *)

\* Who is told of an operation asked for just that, and it is the only one
\* its key stands for; an active connection was made by such an operation,
\* in its slot.
KeysAreKept ==
    /\ \A c \in Calls : told[c] \in Calls =>
         done[Ask[c].key] = told[c] /\ Ask[told[c]] = Ask[c]
    /\ \A s \in Slots : holder[s] # None =>
         /\ holder[s] \in Calls /\ done[Ask[holder[s]].key] = holder[s]
         /\ Ask[holder[s]].kind = "connect" /\ Ask[holder[s]].slot = s

\* A connection is never exchanged for another: the slot is emptied first.  And
\* a key stands for its operation forever.
NothingIsExchanged ==
    [][/\ \A s \in Slots : holder[s] # None => holder'[s] \in {None, holder[s]}
       /\ \A k \in Keys : done[k] # None => done'[k] = done[k]]_vars
=============================================================================
