---------------------------- MODULE WorkRequests ----------------------------
(***************************************************************************)
(* How tasks of one brand come to be, statement by statement: specialist   *)
(* work requested in a CMO turn, lateral work a session hands on, what a   *)
(* session produces meanwhile, the answers to its questions, and the       *)
(* Intent changed under all of them.                                       *)
(*                                                                         *)
(* Transactions are READ COMMITTED.  They hold an Intent or a task FOR     *)
(* UPDATE or FOR SHARE until they end; an insert of a task or an Action    *)
(* locks its Intent FOR KEY SHARE, which waits for FOR UPDATE.  A cycle of *)
(* waits is ended by PostgreSQL, which lets one of its calls fail.         *)
(*                                                                         *)
(* Sessions, lanes and settlements are AgentTask's: here a session is bound*)
(* to a task, and the task ends, in one step each, when its row is free; a *)
(* task claimed and not yet bound is told from a queued one by nobody.     *)
(***************************************************************************)
EXTENDS Naturals, FiniteSets

CONSTANTS
    Calls,   \* invocations of the operations; a task is named by its creator
    Keys,    \* operation keys
    Intents,
    Ask,     \* what a call asks: its kind, key, intent, revision, subject, task
    MaxCalls, \* bound of the model: calls that are made
    None

Kinds == {"request", "lateral", "output", "answer", "refine", "abandon"}
Changes == {"refine", "abandon"}

\* A key is of one kind and, but for requests, of one task or Intent; only
\* the channel plan of one source's report is handed on to its subject.
ASSUME AskAssumption ==
    /\ \A c \in Calls : /\ Ask[c].kind \in Kinds /\ Ask[c].key \in Keys
                        /\ Ask[c].intent \in Intents /\ Ask[c].task \in Calls
                        /\ Ask[c].revision \in Nat
    /\ \A c, d \in Calls : Ask[c].key = Ask[d].key =>
         Ask[c].kind = Ask[d].kind /\ Ask[c].task = Ask[d].task
    /\ \A c, d \in Calls :
         /\ Ask[c].kind = "lateral" => Ask[Ask[c].task].kind = "request"
         /\ Ask[c].kind = "lateral" /\ Ask[c].subject = Ask[d].subject =>
              Ask[d].kind # "request" /\ (Ask[d].kind = "lateral" => Ask[c].task = Ask[d].task)
    /\ None \notin Calls \cup [intent : Intents, revision : Nat]
    /\ {"inactive", "stale", "not_running", "unsettled", "no_report", "conflict", "different",
        "error"} \cap (Calls \cup {None}) = {}

VARIABLES
    open,     \* intents.status is active
    revision, \* intents.revision
    task,     \* tasks.status of the row a call inserted; running: its session is bound;
              \* asking: it ended with open questions
    snapshot, \* tasks.intent_snapshot
    result,   \* tasks.result_action_id: the call whose Action it is
    receipt,  \* the call whose Action carries a key
    pc,       \* the next statement of a call
    saw,      \* the task a call looks at
    told      \* what a call was answered

table == <<open, revision, task, snapshot, result, receipt>>
vars  == <<open, revision, task, snapshot, result, receipt, pc, saw, told>>

Keyed == {"intent", "change", "observe", "lock", "observed", "insert", "inserted",
          "again", "relock", "action"}
Statements == {"start", "source", "committed", "done"} \cup Keyed
InFlight(c) == pc[c] \in {"source"} \cup Keyed

Init ==
    /\ open = Intents
    /\ revision = [i \in Intents |-> 1]
    /\ task = [c \in Calls |-> "none"]
    /\ snapshot = [c \in Calls |-> None]
    /\ result = [c \in Calls |-> None]
    /\ receipt = [k \in Keys |-> None]
    /\ pc = [c \in Calls |-> "start"]
    /\ saw = [c \in Calls |-> None]
    /\ told = [c \in Calls |-> None]

\* tasks_active_identity_unique: the active tasks of c's kind and subject.
Active(c) == {t \in Calls : task[t] \in {"queued", "running"} /\ Ask[t].subject = Ask[c].subject}

Goto(c, statement) == pc' = [pc EXCEPT ![c] = statement]

\* The transaction goes on with another statement.
Proceed(c, statement) == Goto(c, statement) /\ UNCHANGED <<table, saw, told>>

\* It ends without writing.
Return(c, answer) ==
    /\ Goto(c, "done")
    /\ told' = [told EXCEPT ![c] = answer]
    /\ saw' = [saw EXCEPT ![c] = None]
    /\ UNCHANGED table
-----------------------------------------------------------------------------
(* Locks.                                                                  *)

KeyFree(c) == \A d \in Calls : Ask[d].key = Ask[c].key => pc[d] \notin Keyed

\* The Intent a statement of c locks, or whose key it references.
IntentOf(c) == IF Ask[c].kind \in {"request"} \cup Changes THEN Ask[c].intent
               ELSE snapshot[Ask[c].task].intent

\* d holds the Intent FOR UPDATE.
HoldsIntent(d, i) ==
    /\ Ask[d].kind \in {"request"} \cup Changes /\ Ask[d].intent = i
    /\ pc[d] \in Keyed \ {"intent"}

IntentFree(c) == \A d \in Calls : ~HoldsIntent(d, IntentOf(c))

\* Mutants of Updates: a lateral call does not lock its source; an answer
\* locks its task FOR UPDATE.
UpdatesOfOutputs(d, t) == Ask[d].kind = "output" /\ Ask[d].task = t /\ pc[d] \in Keyed
UpdatesOfAnswers(d, t) ==
    Ask[d].kind \in {"lateral", "output", "answer"} /\ Ask[d].task = t /\ pc[d] \in Keyed

\* d holds the row of task t FOR UPDATE: a session's call, its own task.
Updates(d, t) ==
    Ask[d].kind \in {"lateral", "output"} /\ Ask[d].task = t /\ pc[d] \in Keyed

\* d holds it FOR SHARE.
Shares(d, t) ==
    \/ Ask[d].kind = "answer" /\ Ask[d].task = t /\ pc[d] \in Keyed
    \/ pc[d] = "observed" /\ saw[d] = t

ShareFree(t)  == \A d \in Calls : ~Updates(d, t)
UpdateFree(t) == \A d \in Calls : ~Updates(d, t) /\ ~Shares(d, t)

\* Mutant of EntryFree: the insert does not wait.
EntryIgnored(c) == TRUE

\* No open transaction has written the identity's entry of the index.
EntryFree(c) ==
    \A d \in Calls : pc[d] = "inserted" => Ask[d].subject # Ask[c].subject
-----------------------------------------------------------------------------
(* requestSpecialistWork, refineIntent, abandonIntent: the key, its        *)
(* receipt, the Intent.                                                    *)

\* acquireActionReceiptLock, readActionReceipt.  The turn, the membership
\* and the right to mutate are those of Conversations and Connections.
ReadReceipt(c) ==
    /\ pc[c] = "start" /\ Cardinality({d \in Calls : pc[d] # "start"}) < MaxCalls
    /\ Ask[c].kind \in {"request"} \cup Changes /\ KeyFree(c)
    /\ LET r == receipt[Ask[c].key] IN
         \/ r # None /\ Return(c, IF Ask[r] = Ask[c] THEN r ELSE "different")
         \/ r = None /\ Proceed(c, "intent")

\* The Intent FOR UPDATE, as it is when the lock is granted.
LockIntent(c) ==
    /\ pc[c] = "intent" /\ IntentFree(c)
    /\ \/ Ask[c].intent \notin open /\ Return(c, "inactive")
       \/ /\ Ask[c].intent \in open /\ Ask[c].kind = "request"
          /\ Proceed(c, "observe")
       \/ /\ Ask[c].intent \in open /\ Ask[c].kind \in Changes
          /\ IF revision[Ask[c].intent] = Ask[c].revision THEN Proceed(c, "change")
             ELSE Return(c, "stale")

\* The row and the Action of a refined or abandoned Intent.
ChangeIntent(c) ==
    /\ pc[c] = "change"
    /\ revision' = [revision EXCEPT ![Ask[c].intent] = @ + 1]
    /\ open' = IF Ask[c].kind = "abandon" THEN open \ {Ask[c].intent} ELSE open
    /\ receipt' = [receipt EXCEPT ![Ask[c].key] = c]
    /\ Goto(c, "committed") /\ UNCHANGED <<task, snapshot, result, saw, told>>
-----------------------------------------------------------------------------
(* observeActiveSpecialistTask and the insert.                             *)

\* What follows when there is no task to observe: a request that lost the
\* insert has nobody to point at.
Unobserved(c) ==
    \/ pc[c] \in {"observe", "lock"} /\ Ask[c].kind = "request" /\ Proceed(c, "insert")
    \/ pc[c] \in {"observe", "lock"} /\ Ask[c].kind = "lateral" /\ Proceed(c, "action")
    \/ pc[c] \in {"again", "relock"} /\ Return(c, "conflict")

\* The statement's snapshot of the active task.
Observe(c) ==
    /\ pc[c] \in {"observe", "again"}
    /\ \/ Active(c) = {} /\ Unobserved(c)
       \/ \E t \in Active(c) :
            /\ saw' = [saw EXCEPT ![c] = t]
            /\ Goto(c, IF pc[c] = "observe" THEN "lock" ELSE "relock")
            /\ UNCHANGED <<table, told>>

\* Its row FOR SHARE, looked at again once it is granted.
LockObserved(c) ==
    /\ pc[c] \in {"lock", "relock"} /\ ShareFree(saw[c])
    /\ \/ saw[c] \in Active(c) /\ Proceed(c, "observed")
       \/ saw[c] \notin Active(c) /\ Unobserved(c)

\* already_active.
AnswerObserved(c) ==
    /\ pc[c] = "observed"
    /\ Return(c, saw[c])

\* ON CONFLICT DO NOTHING waits for the transaction it conflicts with.
Insert(c) ==
    /\ pc[c] = "insert" /\ EntryFree(c)
    /\ Proceed(c, IF Active(c) = {} THEN "inserted" ELSE "again")

\* The request's Action, and COMMIT.
CommitRequest(c) ==
    /\ pc[c] = "inserted"
    /\ task' = [task EXCEPT ![c] = "queued"]
    /\ snapshot' = [snapshot EXCEPT ![c] =
         [intent |-> Ask[c].intent, revision |-> revision[Ask[c].intent]]]
    /\ receipt' = [receipt EXCEPT ![Ask[c].key] = c]
    /\ Goto(c, "committed") /\ UNCHANGED <<open, revision, result, saw, told>>
-----------------------------------------------------------------------------
(* requestLateralWork, produceSpecialistObject, resolveTaskQuestions: the  *)
(* task first, then the key.                                               *)

\* The call of a session bound to the task, or an answer to its questions:
\* it hashes the completion before it takes a lock, maybe before there is one.
Enter(c) ==
    /\ pc[c] = "start" /\ Cardinality({d \in Calls : pc[d] # "start"}) < MaxCalls
    /\ Ask[c].kind \in {"lateral", "output", "answer"}
    /\ task[Ask[c].task] \notin {"none", "queued"}
    /\ saw' = [saw EXCEPT ![c] =
         IF Ask[c].kind = "answer" /\ task[Ask[c].task] = "running" THEN Ask[c].task ELSE None]
    /\ Goto(c, "source") /\ UNCHANGED <<table, told>>

\* lockRunningSourceTask refuses a settled source before it looks for the
\* receipt of the key.
LockSource(c) ==
    /\ pc[c] = "source" /\ Ask[c].kind = "lateral" /\ UpdateFree(Ask[c].task)
    /\ LET r == receipt[Ask[c].key]
           t == Ask[c].task IN
         IF task[t] # "running" THEN Return(c, "not_running")
         ELSE IF r # None THEN Return(c, IF Ask[r] = Ask[c] THEN r ELSE "different")
         ELSE IF result[t] = None THEN Return(c, "no_report")
         ELSE Proceed(c, "observe")

\* An output that was produced is given its receipt, also afterwards.
LockProducing(c) ==
    /\ pc[c] = "source" /\ Ask[c].kind = "output" /\ UpdateFree(Ask[c].task)
    /\ LET r == receipt[Ask[c].key]
           t == Ask[c].task IN
         IF r # None THEN Return(c, IF Ask[r] = Ask[c] THEN r ELSE "different")
         ELSE IF task[t] # "running" \/ result[t] # None THEN Return(c, "not_running")
         ELSE Proceed(c, "action")

\* The answer takes the key of its task's questions before the row.
LockQuestions(c) ==
    /\ pc[c] = "source" /\ Ask[c].kind = "answer" /\ KeyFree(c)
    /\ LET r == receipt[Ask[c].key]
           t == Ask[c].task IN
         \/ r # None /\ Return(c, IF Ask[r] = Ask[c] THEN r ELSE "different")
         \/ /\ r = None /\ ShareFree(t)
            /\ \/ task[t] # "asking" /\ Return(c, "unsettled")
               \/ task[t] = "asking" /\ Proceed(c, "action")
               \/ task[t] = "asking" /\ saw[c] = t /\ Return(c, "conflict")

\* The task and the request's Action; the source's snapshot goes on unchanged.
HandOn(c) ==
    /\ Ask[c].kind = "lateral"
    /\ task' = [task EXCEPT ![c] = "queued"]
    /\ snapshot' = [snapshot EXCEPT ![c] = snapshot[Ask[c].task]]
    /\ UNCHANGED result

\* The object, its Action, and the task bound to it.
Produce(c) ==
    /\ Ask[c].kind = "output"
    /\ result' = [result EXCEPT ![Ask[c].task] = c]
    /\ UNCHANGED <<task, snapshot>>

Resolve(c) ==
    /\ Ask[c].kind = "answer"
    /\ UNCHANGED <<task, snapshot, result>>

\* The rows that reference the task's Intent, and COMMIT.
CommitAction(c) ==
    /\ pc[c] = "action" /\ IntentFree(c)
    /\ HandOn(c) \/ Produce(c) \/ Resolve(c)
    /\ receipt' = [receipt EXCEPT ![Ask[c].key] = c]
    /\ Goto(c, "committed") /\ UNCHANGED <<open, revision, saw, told>>
-----------------------------------------------------------------------------
AnswerReceipt(c) ==
    /\ pc[c] = "committed"
    /\ Return(c, c)

\* The transaction fails, or is chosen to end a deadlock; or its answer is lost.
Fail(c) ==
    /\ InFlight(c) \/ pc[c] = "committed"
    /\ Return(c, "error")

\* A session is bound to the claimed task; the settlement leaves questions
\* open, or not.
BindTaskSession(t) ==
    /\ task[t] = "queued" /\ UpdateFree(t)
    /\ task' = [task EXCEPT ![t] = "running"]
    /\ UNCHANGED <<open, revision, snapshot, result, receipt, pc, saw, told>>

Settle(t) ==
    /\ task[t] = "running" /\ UpdateFree(t)
    /\ \E end \in {"asking", "ended"} : task' = [task EXCEPT ![t] = end]
    /\ UNCHANGED <<open, revision, snapshot, result, receipt, pc, saw, told>>

\* No session is bound to it: the delivery fails, and the task with it.
FailDelivery(t) ==
    /\ task[t] = "queued" /\ UpdateFree(t)
    /\ task' = [task EXCEPT ![t] = "ended"]
    /\ UNCHANGED <<open, revision, snapshot, result, receipt, pc, saw, told>>

Statement(c) ==
    \/ ReadReceipt(c) \/ LockIntent(c) \/ ChangeIntent(c)
    \/ Observe(c) \/ LockObserved(c) \/ AnswerObserved(c) \/ Insert(c) \/ CommitRequest(c)
    \/ Enter(c) \/ LockSource(c) \/ LockProducing(c) \/ LockQuestions(c) \/ CommitAction(c)
    \/ AnswerReceipt(c) \/ Fail(c)

Next == \E c \in Calls : Statement(c) \/ BindTaskSession(c) \/ Settle(c) \/ FailDelivery(c)

Spec == Init /\ [][Next]_vars
-----------------------------------------------------------------------------
(* Properties.                                                             *)

Answers == {"inactive", "stale", "not_running", "unsettled", "no_report", "conflict",
            "different", "error"}

TypeOK ==
    /\ open \subseteq Intents
    /\ revision \in [Intents -> Nat]
    /\ task \in [Calls -> {"none", "queued", "running", "asking", "ended"}]
    /\ snapshot \in [Calls -> [intent : Intents, revision : Nat] \cup {None}]
    /\ result \in [Calls -> Calls \cup {None}]
    /\ receipt \in [Keys -> Calls \cup {None}]
    /\ pc \in [Calls -> Statements]
    /\ saw \in [Calls -> Calls \cup {None}]
    /\ told \in [Calls -> Calls \cup {None} \cup Answers]

\* An operation key is held by one call, and stands for nothing yet.
OneOperation ==
    /\ \A c \in Calls : pc[c] \in Keyed =>
         /\ receipt[Ask[c].key] = None
         /\ \A d \in Calls \ {c} : Ask[d].key = Ask[c].key => pc[d] \notin Keyed
    /\ \A k \in Keys : receipt[k] # None =>
         Ask[receipt[k]].key = k /\ pc[receipt[k]] \in {"committed", "done"}
    /\ \A c \in Calls : /\ pc[c] = "committed" => receipt[Ask[c].key] = c
                        /\ told[c] = None <=> pc[c] # "done"

\* A call that holds its Intent holds it alone, active, and as expected.
IntentIsHeld ==
    \A c \in Calls :
        /\ HoldsIntent(c, Ask[c].intent) =>
             /\ Ask[c].intent \in open
             /\ \A d \in Calls \ {c} : ~HoldsIntent(d, Ask[c].intent)
        /\ pc[c] = "change" => revision[Ask[c].intent] = Ask[c].revision

\* A session's call holds its task alone, and running, until it is done;
\* an answer holds it settled.
SourceIsHeld ==
    \A c \in Calls :
        /\ pc[c] = "source" => task[Ask[c].task] \notin {"none", "queued"}
        /\ Updates(c, Ask[c].task) =>
             /\ task[Ask[c].task] = "running"
             /\ Ask[c].kind = "output" <=> result[Ask[c].task] = None
             /\ \A d \in Calls \ {c} : ~Updates(d, Ask[c].task) /\ ~Shares(d, Ask[c].task)
        /\ Ask[c].kind = "answer" /\ pc[c] \in Keyed => task[Ask[c].task] = "asking"

\* What a call looks at is of its subject, and active once it is locked.
LooksAtItsSubject ==
    \A c \in Calls :
        /\ pc[c] \in {"lock", "relock"} => saw[c] \in Calls /\ Ask[saw[c]].subject = Ask[c].subject
        /\ pc[c] = "observed" => saw[c] \in Active(c)

\* An identity has one active task, none under a pending insert, and one
\* pending insert; a session that holds its source is alone with its subject.
OneTask ==
    \A c \in Calls :
        /\ task[c] \in {"queued", "running"} => Active(c) = {c}
        /\ pc[c] = "inserted" =>
             /\ Active(c) = {}
             /\ \A d \in Calls \ {c} : pc[d] = "inserted" => Ask[d].subject # Ask[c].subject
        /\ Ask[c].kind = "lateral" /\ pc[c] = "lock" => Active(c) \subseteq {saw[c]}
        /\ Ask[c].kind = "lateral" /\ pc[c] = "action" => Active(c) = {}

\* A task carries its Intent as it was at some moment.
Accepted ==
    \A c \in Calls : task[c] # "none" =>
        /\ snapshot[c] # None /\ snapshot[c].revision \leq revision[snapshot[c].intent]
        /\ receipt[Ask[c].key] = c /\ Ask[c].kind \in {"request", "lateral"}

\* Statements are those of the call's kind.
OfItsKind ==
    \A c \in Calls :
        /\ pc[c] \in {"intent", "insert", "inserted", "again", "relock"} =>
             Ask[c].kind \in {"request"} \cup Changes
        /\ pc[c] \in {"insert", "inserted", "again", "relock"} => Ask[c].kind = "request"
        /\ pc[c] \in {"observe", "lock", "observed"} => Ask[c].kind \in {"request", "lateral"}
        /\ pc[c] = "change" => Ask[c].kind \in Changes
        /\ pc[c] \in {"source", "action"} => Ask[c].kind \in {"lateral", "output", "answer"}

\* The statement of c waits for d to end.
WaitsFor(c, d) ==
    \/ pc[c] = "source" /\ (Updates(d, Ask[c].task) \/ (Ask[c].kind # "answer" /\ Shares(d, Ask[c].task)))
    \/ pc[c] \in {"lock", "relock"} /\ Updates(d, saw[c])
    \/ pc[c] \in {"intent", "action"} /\ HoldsIntent(d, IntentOf(c))
    \/ pc[c] = "insert" /\ pc[d] = "inserted" /\ Ask[d].subject = Ask[c].subject

Waiting == {c \in Calls : \E d \in Calls : WaitsFor(c, d)}

\* Calls that wait for each other.
Deadlock(D) ==
    /\ D # {}
    /\ \A c \in D : (\E d \in D : WaitsFor(c, d)) /\ (\E d \in D : WaitsFor(d, c))

\* Requests and sessions may wait for each other, and then PostgreSQL lets
\* one of them fail: there is a request among them that holds its Intent
\* and looks at a task.  A member's change of an Intent, and the answer to
\* a task's questions, are never part of it.
DeadlocksAreKnown ==
    \A D \in SUBSET Waiting : Deadlock(D) =>
        /\ \E c \in D : Ask[c].kind = "request" /\ pc[c] \in {"lock", "relock"}
        /\ \A c \in D : Ask[c].kind \in {"request", "lateral", "output"}

\* The inductive invariant.
IInv == TypeOK /\ OneOperation /\ IntentIsHeld /\ SourceIsHeld /\ LooksAtItsSubject
        /\ OneTask /\ Accepted /\ OfItsKind

\* See WorkLedger.
Promise == INSTANCE WorkLedger WITH done <- receipt

\* The statements, their locks and their indexes implement operations that
\* happen at once: a request never starts work for an Intent that is not
\* active as the task says, a session hands on work only while it runs, and
\* who is told that a task is active is told of one that is.
ImplementsWorkLedger == Promise!Spec

\* See TaskLife.
LifeOf == [t \in Calls |-> CASE task[t] = "none" -> "none" [] task[t] = "queued" -> "waiting"
                             [] task[t] = "running" -> "bound" [] OTHER -> "ended"]

Life == INSTANCE TaskLife WITH
    Tasks <- Calls, Outputs <- Calls, Nothing <- None, state <- LifeOf, output <- result

\* The tasks that are requested and handed on live as the lane's do.
ImplementsTaskLife == Life!Spec

\* See IntentLife.
StateOf == [i \in Intents |-> IF i \in open THEN "active" ELSE "abandoned"]

Row == INSTANCE IntentLife WITH state <- StateOf

\* The Intents under the requests are refined and abandoned as Intents are.
ImplementsIntentLife == Row!Spec
=============================================================================
