---------------------------- MODULE OneShotTask ----------------------------
(***************************************************************************)
(* What the agent lane promises (ADR-018), with claims, generations, lost  *)
(* sends, requeues and event delivery hidden: a task is executed by at     *)
(* most one session, which executes no other task; only that session       *)
(* delivers its output and stages its completion; the task ends at most    *)
(* once, and its success is the staged completion.  A task that ended      *)
(* without a session may still learn which one executed it.                *)
(***************************************************************************)
CONSTANTS Tasks, Sessions, Outputs, None

VARIABLES
    state,    \* open or done
    owner,    \* the session with authority over the task
    output,   \* the one Object the task produced
    staged,   \* the completion filled by the owner
    verdict   \* how the task ended

vars == <<state, owner, output, staged, verdict>>

Failure == {"SESSION_FAILED", "TURN_FAILED", "TURN_CANCELLED", "MISSING_TASK_COMPLETION"}

Init ==
    /\ state = [t \in Tasks |-> "open"]
    /\ owner = [t \in Tasks |-> None]
    /\ output = [t \in Tasks |-> None]
    /\ staged = [t \in Tasks |-> None]
    /\ verdict = [t \in Tasks |-> None]

MayOwn(t, s) ==
    /\ owner[t] \in {None, s}
    /\ \A u \in Tasks \ {t} : owner[u] # s

Grant(t, s) ==
    /\ owner[t] = None /\ MayOwn(t, s)
    /\ owner' = [owner EXCEPT ![t] = s]
    /\ UNCHANGED <<state, output, staged, verdict>>

Deliver(t, o) ==
    /\ state[t] = "open" /\ owner[t] # None
    /\ output[t] = None /\ staged[t] = None
    /\ \A u \in Tasks : output[u] # o
    /\ output' = [output EXCEPT ![t] = o]
    /\ UNCHANGED <<state, owner, staged, verdict>>

Stage(t, completion) ==
    /\ state[t] = "open" /\ owner[t] # None /\ staged[t] = None
    /\ (completion = "completed") <=> (output[t] # None)
    /\ staged' = [staged EXCEPT ![t] = completion]
    /\ UNCHANGED <<state, owner, output, verdict>>

End(t, code) ==
    /\ state[t] = "open"
    /\ state' = [state EXCEPT ![t] = "done"]
    /\ verdict' = [verdict EXCEPT ![t] = code]
    /\ UNCHANGED output

Succeed(t, s) ==
    /\ MayOwn(t, s) /\ staged[t] # None
    /\ End(t, staged[t])
    /\ owner' = [owner EXCEPT ![t] = s]
    /\ UNCHANGED staged

Fail(t, s, code) ==
    /\ MayOwn(t, s)
    /\ End(t, code)
    /\ owner' = [owner EXCEPT ![t] = s]
    /\ staged' = [staged EXCEPT ![t] = None]

\* Delivery is given up only while no session has authority.
GiveUpDelivery(t) ==
    /\ owner[t] = None
    /\ End(t, "DELIVERY_FAILED")
    /\ UNCHANGED <<owner, staged>>

Next == \E t \in Tasks :
    \/ \E s \in Sessions : Grant(t, s) \/ Succeed(t, s)
    \/ \E s \in Sessions, code \in Failure : Fail(t, s, code)
    \/ \E o \in Outputs : Deliver(t, o)
    \/ \E completion \in {"completed", "partial"} : Stage(t, completion)
    \/ GiveUpDelivery(t)

Spec == Init /\ [][Next]_vars
=============================================================================
