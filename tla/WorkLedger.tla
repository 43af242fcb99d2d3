----------------------------- MODULE WorkLedger -----------------------------
(***************************************************************************)
(* What requesting work promises: a subject has one active task; a task    *)
(* carries the Intent as it was, and active, when the work was asked for,  *)
(* and work that a session hands on carries its source's; a key stands for *)
(* one operation; and who is told of a task that is already active is told *)
(* the truth.  Every operation happens at once, or not at all.             *)
(***************************************************************************)
EXTENDS Naturals

CONSTANTS Calls, Keys, Intents, Ask, None

VARIABLES open,     \* the active Intents
          revision, \* Intent.revision
          task,     \* the status of the task a call created
          snapshot, \* its intent snapshot
          result,   \* its output: the call that produced it
          done,     \* the call that performed a key's operation
          told      \* what a call was told

tasks == <<task, snapshot, result>>
vars  == <<open, revision, task, snapshot, result, done, told>>

ActiveOf(s) == {t \in Calls : task[t] \in {"queued", "running"} /\ Ask[t].subject = s}

Init ==
    /\ open = Intents
    /\ revision = [i \in Intents |-> 1]
    /\ task = [c \in Calls |-> "none"]
    /\ snapshot = [c \in Calls |-> None]
    /\ result = [c \in Calls |-> None]
    /\ done = [k \in Keys |-> None]
    /\ told = [c \in Calls |-> None]

\* c is the operation of its key.
First(c) == done[Ask[c].key] = None /\ done' = [done EXCEPT ![Ask[c].key] = c]

Create(c, work) ==
    /\ First(c) /\ ActiveOf(Ask[c].subject) = {}
    /\ task' = [task EXCEPT ![c] = "queued"]
    /\ snapshot' = [snapshot EXCEPT ![c] = work]
    /\ UNCHANGED <<open, revision, result, told>>

Request(c) ==
    /\ Ask[c].kind = "request" /\ Ask[c].intent \in open
    /\ Create(c, [intent |-> Ask[c].intent, revision |-> revision[Ask[c].intent]])

HandOn(c) ==
    /\ Ask[c].kind = "lateral" /\ task[Ask[c].task] = "running" /\ result[Ask[c].task] # None
    /\ Create(c, snapshot[Ask[c].task])

Produce(c) ==
    /\ Ask[c].kind = "output" /\ task[Ask[c].task] = "running" /\ result[Ask[c].task] = None
    /\ First(c)
    /\ result' = [result EXCEPT ![Ask[c].task] = c]
    /\ UNCHANGED <<open, revision, task, snapshot, told>>

Resolve(c) ==
    /\ Ask[c].kind = "answer" /\ task[Ask[c].task] = "asking"
    /\ First(c)
    /\ UNCHANGED <<open, revision, tasks, told>>

Advance(c) ==
    /\ Ask[c].kind \in {"refine", "abandon"}
    /\ Ask[c].intent \in open /\ revision[Ask[c].intent] = Ask[c].revision
    /\ First(c)
    /\ revision' = [revision EXCEPT ![Ask[c].intent] = @ + 1]
    /\ open' = IF Ask[c].kind = "abandon" THEN open \ {Ask[c].intent} ELSE open
    /\ UNCHANGED <<tasks, told>>

\* The lanes bind a session to a task and settle it: with open questions, or
\* not; or no session is ever bound to it.
Start(t) ==
    /\ task[t] = "queued" /\ task' = [task EXCEPT ![t] = "running"]
    /\ UNCHANGED <<open, revision, snapshot, result, done, told>>

Settle(t) ==
    /\ \/ task[t] = "running" /\ \E end \in {"asking", "ended"} : task' = [task EXCEPT ![t] = end]
       \/ task[t] = "queued" /\ task' = [task EXCEPT ![t] = "ended"]
    /\ UNCHANGED <<open, revision, snapshot, result, done, told>>

Answer(c, what) ==
    /\ told[c] = None /\ told' = [told EXCEPT ![c] = what]
    /\ UNCHANGED <<open, revision, tasks, done>>

Receipt(c) ==
    /\ done[Ask[c].key] # None
    /\ Answer(c, IF Ask[done[Ask[c].key]] = Ask[c] THEN done[Ask[c].key] ELSE "different")

\* already_active.
Observe(c) == \E t \in ActiveOf(Ask[c].subject) : Answer(c, t)

Refuse(c) ==
    \/ Answer(c, "inactive") /\ Ask[c].intent \notin open
    \/ Answer(c, "stale") /\ revision[Ask[c].intent] # Ask[c].revision
    \/ /\ Answer(c, "not_running")
       /\ task[Ask[c].task] # "running" \/ result[Ask[c].task] # None
    \/ Answer(c, "unsettled") /\ task[Ask[c].task] # "asking"
    \/ Answer(c, "no_report") /\ result[Ask[c].task] = None
    \/ Answer(c, "conflict") /\ Ask[c].kind \in {"request", "answer"}
    \/ Answer(c, "error")

Next ==
    \E c \in Calls : \/ Request(c) \/ HandOn(c) \/ Produce(c) \/ Resolve(c) \/ Advance(c)
                     \/ Start(c) \/ Settle(c)
                     \/ Receipt(c) \/ Observe(c) \/ Refuse(c)

Spec == Init /\ [][Next]_vars
-----------------------------------------------------------------------------
(* What follows.                                                           *)

\* The request from which a task's work comes.
Origin(t) == IF Ask[t].kind = "lateral" THEN Ask[t].task ELSE t

\* A subject has one active task.
OneActive ==
    \A c, d \in Calls : c \in ActiveOf(Ask[d].subject) /\ d \in ActiveOf(Ask[d].subject) => c = d

\* A task goes back to one request, whose Intent it carries, in no later form
\* than the Intent has now; what was handed on was handed on with an output.
GoesBack(t) ==
    /\ done[Ask[t].key] = t
    /\ Ask[Origin(t)].kind = "request" /\ task[Origin(t)] # "none"
    /\ snapshot[t] # None /\ snapshot[t] = snapshot[Origin(t)]
    /\ snapshot[t].intent = Ask[Origin(t)].intent
    /\ snapshot[t].revision \leq revision[Ask[Origin(t)].intent]
    /\ t # Origin(t) => result[Origin(t)] # None

\* The output of a task is its session's.
Produced(t) ==
    /\ task[t] \notin {"none", "queued"}
    /\ result[t] \in Calls /\ done[Ask[result[t]].key] = result[t]
    /\ Ask[result[t]].kind = "output" /\ Ask[result[t]].task = t

\* Who is told of work is told of what its key stands for, or of a task of
\* its subject.
ToldOf(c) ==
    \/ done[Ask[c].key] = told[c] /\ Ask[told[c]] = Ask[c]
    \/ task[told[c]] # "none" /\ Ask[told[c]].subject = Ask[c].subject

WorkIsAsked ==
    /\ OneActive
    /\ \A c \in Calls : /\ task[c] # "none" => GoesBack(c)
                        /\ result[c] # None => Produced(c)
                        /\ told[c] \in Calls => ToldOf(c)

\* What a key stands for, what a task was asked to do and what it produced do
\* not change; work goes on only forwards; and an Intent that is given up
\* stays as it is, and no work is requested for it any more.
WorkIsKept ==
    [][/\ \A k \in Keys : done[k] # None => done'[k] = done[k]
       /\ \A t \in Calls : /\ task[t] # "none" => snapshot'[t] = snapshot[t] /\ task'[t] # "none"
                           /\ task[t] \in {"asking", "ended"} => task'[t] = task[t]
                           /\ result[t] # None => result'[t] = result[t]
       /\ \A i \in Intents : i \notin open => i \notin open' /\ revision'[i] = revision[i]
       /\ \A t \in Calls : task[t] = "none" /\ task'[t] # "none" /\ Ask[t].kind = "request" =>
            Ask[t].intent \in open]_vars
=============================================================================
