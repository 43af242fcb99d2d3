----------------------------- MODULE AgentTask -----------------------------
(***************************************************************************)
(* The one-shot lane of agent tasks (ADR-018): the rows of `tasks` with    *)
(* executionMode = agent and activation = automatic, the specialist drains *)
(* that claim, send and bind them, the Eve sessions that execute them, and *)
(* the session-event projection that settles them.                         *)
(*                                                                         *)
(* Each transaction of packages/brain is one action: every one of them     *)
(* locks the task row, FOR UPDATE or FOR SHARE, before it reads it.  What  *)
(* happens between two transactions of a drain or of a session is not      *)
(* atomic, and any number of drains run at once.  A call that throws or    *)
(* returns an earlier receipt changes no row; it has no action unless its  *)
(* caller changes state.                                                   *)
(***************************************************************************)
EXTENDS Integers, FiniteSets

CONSTANTS
    Tasks,       \* task rows, numbered in (createdAt, id) order
    Brands,
    BrandOf,     \* the brand of each task
    DueAt,       \* tasks.due_at
    Drains,      \* concurrent invocations of a specialist's dispatch route
    Sessions,    \* root sessions Eve can open
    Outputs,     \* identities of a task-produced Object and of its Action
    Window,      \* AGENT_DELIVERY_RECOVERY_WINDOW_MS
    ClaimLag,    \* greatest age of a drain's `now` when its claim commits
    Budget,      \* DEFAULT_DRAIN_BUDGET
    MaxTime,     \* bound of the model: last clock value
    MaxCrashes,  \* bound of the model: drains lost between two transactions
    None         \* SQL null

ASSUME ConstantsAssumption ==
    /\ Tasks \subseteq Nat
    /\ BrandOf \in [Tasks -> Brands]
    /\ DueAt \in [Tasks -> Nat]
    /\ Window \in Nat /\ ClaimLag \in Nat /\ ClaimLag < Window
    /\ Budget \in Nat \ {0} /\ MaxTime \in Nat /\ MaxCrashes \in Nat

\* A claim as the drain and the session's auth carry it: the task and the
\* generation, the startedAt of the claim.
Claim == [task : Tasks, gen : Nat]
Producer == [task : Tasks, session : Sessions]

Terminal == {"succeeded", "failed", "cancelled"}
Status == {"queued", "running"} \cup Terminal
OutcomeCode == {"completed", "partial", "DELIVERY_FAILED", "SESSION_FAILED",
                "TURN_FAILED", "TURN_CANCELLED", "MISSING_TASK_COMPLETION"}

ASSUME NoneAssumption ==
    /\ None \notin Nat /\ None \notin Sessions /\ None \notin Outputs
    /\ None \notin OutcomeCode /\ None \notin Claim /\ None \notin Producer

VARIABLES
    clock,          \* database and host time
    funded,         \* brands whose credit_ledger sums to more than zero
    ready,          \* brands with an active Brand Context
    status, startedAt, sessionId, completion, resultActionId, outcomeCode,
    producer,       \* who committed each Object, with its Action
    pc, now, held, handle, left,    \* a drain's local state
    phase, origin,  \* a session's life and the claim its auth carries
    crashes

row   == <<status, startedAt, sessionId, completion, resultActionId, outcomeCode>>
drain == <<pc, now, held, handle, left>>
eve   == <<phase, origin>>
env   == <<clock, funded, ready, crashes>>
vars  == <<env, row, producer, drain, eve>>

\* Mutant of GenerationMatches: any claimed row matches any claim.
AnyGenerationMatches(claim) == startedAt[claim.task] # None

\* taskExecutionGenerationMatches: only a row that has a generation matches.
GenerationMatches(claim) ==
    startedAt[claim.task] # None /\ startedAt[claim.task] = claim.gen
-----------------------------------------------------------------------------
Init ==
    /\ clock = 0
    /\ funded \in SUBSET Brands
    /\ ready \in SUBSET Brands
    /\ crashes = 0
    /\ status = [t \in Tasks |-> "queued"]
    /\ startedAt = [t \in Tasks |-> None]
    /\ sessionId = [t \in Tasks |-> None]
    /\ completion = [t \in Tasks |-> None]
    /\ resultActionId = [t \in Tasks |-> None]
    /\ outcomeCode = [t \in Tasks |-> None]
    /\ producer = [o \in Outputs |-> None]
    /\ pc = [d \in Drains |-> "idle"]
    /\ now = [d \in Drains |-> 0]
    /\ held = [d \in Drains |-> None]
    /\ handle = [d \in Drains |-> None]
    /\ left = [d \in Drains |-> 0]
    /\ phase = [s \in Sessions |-> "unborn"]
    /\ origin = [s \in Sessions |-> None]
-----------------------------------------------------------------------------
(* The environment: time, the credit balance, the Brand Context import.    *)

Tick ==
    /\ clock < MaxTime
    /\ clock' = clock + 1
    /\ UNCHANGED <<funded, ready, crashes, row, producer, drain, eve>>

CreditMoves(b) ==
    /\ funded' = IF b \in funded THEN funded \ {b} ELSE funded \cup {b}
    /\ UNCHANGED <<clock, ready, crashes, row, producer, drain, eve>>

ContextImported(b) ==
    /\ b \notin ready
    /\ ready' = ready \cup {b}
    /\ UNCHANGED <<clock, funded, crashes, row, producer, drain, eve>>
-----------------------------------------------------------------------------
(* drainSpecialistTasks: claim, send, bind, in a loop of `budget` claims.  *)

\* The dispatch route accepted a poke: the loop reads `now` and goes on to
\* the claim transaction.
StartDrain(d) ==
    /\ pc[d] = "idle"
    /\ pc' = [pc EXCEPT ![d] = "claim"]
    /\ now' = [now EXCEPT ![d] = clock]
    /\ left' = [left EXCEPT ![d] = Budget]
    /\ held' = [held EXCEPT ![d] = None]
    /\ handle' = [handle EXCEPT ![d] = None]
    /\ UNCHANGED <<env, row, producer, eve>>

EndDrain(d) ==
    /\ pc' = [pc EXCEPT ![d] = "idle"]
    /\ held' = [held EXCEPT ![d] = None]
    /\ handle' = [handle EXCEPT ![d] = None]
    /\ UNCHANGED <<now, left>>

\* Mutants of Stale: the window is forgotten; the null test is inverted.
StaleAtOnce(t, at) ==
    status[t] = "running" /\ sessionId[t] = None /\ startedAt[t] <= at
StaleWhenBound(t, at) ==
    status[t] = "running" /\ sessionId[t] # None /\ startedAt[t] + Window <= at

\* The recovery UPDATE: a delivery that bound no session within the window.
Stale(t, at) ==
    /\ status[t] = "running"
    /\ sessionId[t] = None
    /\ startedAt[t] + Window <= at

\* The rows the claim's SELECT sees after the recovery UPDATE.
Claimable(t, at) ==
    /\ status[t] = "queued" \/ Stale(t, at)
    /\ sessionId[t] = None
    /\ DueAt[t] <= at
    /\ BrandOf[t] \in funded

\* Rows a concurrent transaction may hold, which SKIP LOCKED passes over.
MayBeLocked(d, t) ==
    /\ status[t] = "queued"
    /\ \/ \E e \in Drains \ {d} : pc[e] = "claim"
       \/ \E e \in Drains \ {d} : pc[e] \in {"bind", "fail"} /\ held[e].task = t
       \/ \E s \in Sessions : origin[s] # None /\ origin[s].task = t

\* The committed recovery, with the claimed row (or None) set to running.
RecoverAndClaim(at, claimed) ==
    /\ status' = [t \in Tasks |-> IF t = claimed THEN "running"
                                  ELSE IF Stale(t, at) THEN "queued" ELSE status[t]]
    /\ startedAt' = [t \in Tasks |-> IF t = claimed THEN at
                                     ELSE IF Stale(t, at) THEN None ELSE startedAt[t]]
    /\ completion' = [t \in Tasks |-> IF Stale(t, at) THEN None ELSE completion[t]]
    /\ UNCHANGED <<sessionId, resultActionId, outcomeCode>>

\* claimNextDueWorkerTask, skipping the locked rows in `skipped`.  With no
\* row left the recovery commits and the loop ends.  When the claim context
\* of the head cannot be loaded the transaction rolls back, recovery
\* included, and the drain rejects.
ClaimNext(d, skipped) ==
    LET due == {t \in Tasks \ skipped : Claimable(t, now[d])} IN
    /\ pc[d] = "claim"
    /\ clock <= now[d] + ClaimLag
    /\ \/ /\ due = {}
          /\ RecoverAndClaim(now[d], None)
          /\ EndDrain(d)
       \/ \E t \in due :
          /\ \A u \in due : t <= u
          /\ BrandOf[t] \notin ready
          /\ UNCHANGED row
          /\ EndDrain(d)
       \/ \E t \in due :
          /\ \A u \in due : t <= u
          /\ BrandOf[t] \in ready
          /\ RecoverAndClaim(now[d], t)
          /\ held' = [held EXCEPT ![d] = [task |-> t, gen |-> now[d]]]
          /\ left' = [left EXCEPT ![d] = left[d] - 1]
          /\ pc' = [pc EXCEPT ![d] = "send"]
          /\ UNCHANGED <<now, handle>>
    /\ UNCHANGED <<env, producer, eve>>

ClaimNextDueWorkerTask(d) ==
    \E skipped \in SUBSET {t \in Tasks : MayBeLocked(d, t)} : ClaimNext(d, skipped)

OpenSession(s, claim) ==
    /\ phase[s] = "unborn"
    /\ phase' = [phase EXCEPT ![s] = "live"]
    /\ origin' = [origin EXCEPT ![s] = claim]

SendAccepted(d, s) ==
    /\ pc[d] = "send"
    /\ OpenSession(s, held[d])
    /\ handle' = [handle EXCEPT ![d] = s]
    /\ pc' = [pc EXCEPT ![d] = "bind"]
    /\ UNCHANGED <<env, row, producer, now, held, left>>

\* send() threw and no session exists.
SendRejected(d) ==
    /\ pc[d] = "send"
    /\ pc' = [pc EXCEPT ![d] = "fail"]
    /\ UNCHANGED <<env, row, producer, now, held, handle, left, eve>>

\* send() threw although Eve accepted the message: the answer was lost.
SendAmbiguous(d, s) ==
    /\ pc[d] = "send"
    /\ OpenSession(s, held[d])
    /\ pc' = [pc EXCEPT ![d] = "fail"]
    /\ UNCHANGED <<env, row, producer, now, held, handle, left>>

\* Mutant of UnboundRunning: the null test on session_id is dropped.
RunningOnly(claim) == GenerationMatches(claim) /\ status[claim.task] = "running"

\* What both the delivery failure and the binding require of the row.
UnboundRunning(claim) ==
    /\ GenerationMatches(claim)
    /\ status[claim.task] = "running"
    /\ sessionId[claim.task] = None

\* failRegisteredAgentDelivery, after which the drain rethrows.
FailRegisteredAgentDelivery(d) ==
    LET t == held[d].task IN
    /\ pc[d] = "fail"
    /\ IF UnboundRunning(held[d])
       THEN /\ status' = [status EXCEPT ![t] = "failed"]
            /\ completion' = [completion EXCEPT ![t] = None]
            /\ outcomeCode' = [outcomeCode EXCEPT ![t] = "DELIVERY_FAILED"]
            /\ UNCHANGED <<startedAt, sessionId, resultActionId>>
       ELSE UNCHANGED row
    /\ EndDrain(d)
    /\ UNCHANGED <<env, producer, eve>>

\* bindTaskSession: a row bound to this very session already is a success
\* without a write; every other row that is not unbound running throws.
IsBound(claim, s) == GenerationMatches(claim) /\ sessionId[claim.task] = s

BindTaskSession(claim, s) ==
    /\ UnboundRunning(claim)
    /\ sessionId' = [sessionId EXCEPT ![claim.task] = s]
    /\ UNCHANGED <<status, startedAt, completion, resultActionId, outcomeCode>>

\* Mutant of BudgetLeft: off by one.
BudgetLeftOrSpent(d) == left[d] >= 0

BudgetLeft(d) == left[d] > 0

\* The drain binds the session of its send and takes the next turn of the
\* loop; a throw ends it.
BindDelivery(d) ==
    /\ pc[d] = "bind"
    /\ \/ BindTaskSession(held[d], handle[d])
       \/ ~UnboundRunning(held[d]) /\ UNCHANGED row
    /\ IF (UnboundRunning(held[d]) \/ IsBound(held[d], handle[d])) /\ BudgetLeft(d)
       THEN /\ pc' = [pc EXCEPT ![d] = "claim"]
            /\ now' = [now EXCEPT ![d] = clock]
            /\ held' = [held EXCEPT ![d] = None]
            /\ handle' = [handle EXCEPT ![d] = None]
            /\ UNCHANGED left
       ELSE EndDrain(d)
    /\ UNCHANGED <<env, producer, eve>>

\* The function instance is lost between two of its transactions.  A crash so
\* late that the clock's bound would hide its recovery is left out.
Crash(d) ==
    /\ pc[d] # "idle"
    /\ crashes < MaxCrashes
    /\ clock + Window <= MaxTime
    /\ crashes' = crashes + 1
    /\ EndDrain(d)
    /\ UNCHANGED <<clock, funded, ready, row, producer, eve>>

\* The platform ends an invocation that outlived its time limit before the
\* claim transaction committed.
LifetimeEnds(d) ==
    /\ pc[d] = "claim"
    /\ clock > now[d] + ClaimLag
    /\ EndDrain(d)
    /\ UNCHANGED <<env, row, producer, eve>>
-----------------------------------------------------------------------------
(* The session: the audit hook, the task tools, the end of the run.        *)

\* The audit hook binds on the root's session.started.  Eve absorbs what a
\* hook throws, so this step may never happen, and may happen late.
HookSessionStarted(s) ==
    /\ phase[s] # "unborn"
    /\ BindTaskSession(origin[s], s)
    /\ UNCHANGED <<env, producer, drain, eve>>

\* Tools run while the turn runs; a call already under way may commit after
\* the turn failed or was cancelled.
ToolsRun(s) == phase[s] \in {"live", "failed", "cancelled"}

\* Mutant of AcceptsOutput: a second output Action replaces the first.
AcceptsAnyOutput(t) == status[t] = "running" /\ completion[t] = None

AcceptsOutput(t) ==
    /\ status[t] = "running"
    /\ completion[t] = None
    /\ resultActionId[t] = None

\* produceSpecialistObject and its product-marketer counterpart.
ProduceObject(s, o) ==
    LET t == origin[s].task IN
    /\ ToolsRun(s)
    /\ GenerationMatches(origin[s]) /\ sessionId[t] = s
    /\ AcceptsOutput(t)
    /\ producer[o] = None
    /\ producer' = [producer EXCEPT ![o] = [task |-> t, session |-> s]]
    /\ resultActionId' = [resultActionId EXCEPT ![t] = o]
    /\ UNCHANGED <<env, status, startedAt, sessionId, completion, outcomeCode, drain, eve>>

\* Mutant of ValidCompletion: partial and blocked are not looked at.
ValidWhenCompleted(t, verdict, named) ==
    verdict = "completed" => producer[named] # None /\ resultActionId[t] = named

\* validateCompletionOutput: `named` is the Object a completed task delivers.
ValidCompletion(t, verdict, named) ==
    IF verdict = "completed"
    THEN /\ producer[named] # None /\ producer[named].task = t
         /\ resultActionId[t] = named
    ELSE resultActionId[t] = None

\* finishTask; "partial" stands for partial and blocked, which validate alike.
FinishTask(s, verdict, named) ==
    LET t == origin[s].task IN
    /\ ToolsRun(s)
    /\ GenerationMatches(origin[s]) /\ sessionId[t] = s
    /\ completion[t] = None
    /\ status[t] = "running"
    /\ ValidCompletion(t, verdict, named)
    /\ completion' = [completion EXCEPT ![t] = verdict]
    /\ UNCHANGED <<env, status, startedAt, sessionId, resultActionId, outcomeCode,
                   producer, drain, eve>>

EndSession(s, how) ==
    /\ phase[s] = "live"
    /\ phase' = [phase EXCEPT ![s] = how]
    /\ UNCHANGED <<env, row, producer, drain, origin>>
-----------------------------------------------------------------------------
(* ingestSessionEvent on a terminal event of the root session.  The stream *)
(* may lose the event, repeat it, or deliver it before any binding.        *)

TerminalEvents(how) ==
    CASE how = "completed" -> {"session.completed"}
      [] how = "failed"    -> {"turn.failed", "session.failed"}
      [] how = "cancelled" -> {"turn.cancelled"}
      [] OTHER             -> {}

ValidOwnerBinding(s) ==
    /\ GenerationMatches(origin[s])
    /\ sessionId[origin[s].task] \in {None, s}

Settle(t, s, to, code, staged) ==
    /\ status' = [status EXCEPT ![t] = to]
    /\ outcomeCode' = [outcomeCode EXCEPT ![t] = code]
    /\ completion' = [completion EXCEPT ![t] = staged]
    /\ sessionId' = [sessionId EXCEPT ![t] = s]

SettleTaskFromRootCompletion(t, s) ==
    IF completion[t] # None
    THEN Settle(t, s, "succeeded", completion[t], completion[t])
    ELSE Settle(t, s, "failed", "MISSING_TASK_COMPLETION", None)

\* Mutant of SettleTaskFromRootAbort: the staged completion survives.
AbortKeepingCompletion(t, s, event) ==
    CASE event = "turn.cancelled" -> Settle(t, s, "cancelled", "TURN_CANCELLED", completion[t])
      [] OTHER -> Settle(t, s, "failed", "SESSION_FAILED", completion[t])

SettleTaskFromRootAbort(t, s, event) ==
    CASE event = "turn.cancelled" -> Settle(t, s, "cancelled", "TURN_CANCELLED", None)
      [] event = "turn.failed"    -> Settle(t, s, "failed", "TURN_FAILED", None)
      [] event = "session.failed" -> Settle(t, s, "failed", "SESSION_FAILED", None)

\* The settlements are guarded by status = running: the first writer wins.
Settleable(t) == status[t] = "running"

\* attachTerminalTaskSession: a task already terminal only gains the session.
AttachTerminalTaskSession(t, s) ==
    /\ sessionId[t] = None
    /\ sessionId' = [sessionId EXCEPT ![t] = s]
    /\ UNCHANGED <<status, outcomeCode, completion>>

IngestTerminal(s, event) ==
    LET t == origin[s].task IN
    /\ event \in TerminalEvents(phase[s])
    /\ ValidOwnerBinding(s)
    /\ \/ status[t] \in Terminal /\ AttachTerminalTaskSession(t, s)
       \/ /\ Settleable(t) /\ event = "session.completed"
          /\ SettleTaskFromRootCompletion(t, s)
       \/ /\ Settleable(t) /\ event # "session.completed"
          /\ SettleTaskFromRootAbort(t, s, event)
    /\ UNCHANGED <<env, startedAt, resultActionId, producer, drain, eve>>
-----------------------------------------------------------------------------
DrainStep(d) ==
    \/ ClaimNextDueWorkerTask(d)
    \/ \E s \in Sessions : SendAccepted(d, s)
    \/ SendRejected(d)
    \/ \E s \in Sessions : SendAmbiguous(d, s)
    \/ FailRegisteredAgentDelivery(d)
    \/ BindDelivery(d)
    \/ LifetimeEnds(d)

SessionStep(s) ==
    \/ HookSessionStarted(s)
    \/ \E o \in Outputs : ProduceObject(s, o)
    \/ \E o \in Outputs : FinishTask(s, "completed", o)
    \/ FinishTask(s, "partial", None)
    \/ \E how \in {"completed", "failed", "cancelled"} : EndSession(s, how)
    \/ \E event \in {"session.completed", "session.failed", "turn.failed", "turn.cancelled"} :
          IngestTerminal(s, event)

Environment == Tick \/ \E b \in Brands : CreditMoves(b) \/ ContextImported(b)

Next ==
    \/ Environment
    \/ \E d \in Drains : StartDrain(d) \/ DrainStep(d) \/ Crash(d)
    \/ \E s \in Sessions : SessionStep(s)

Spec == Init /\ [][Next]_vars

\* The cron pokes every root each minute; an invocation that is not lost goes
\* on; a row lock lasts one transaction, so a drain that keeps claiming finds
\* the head of the queue unlocked.  Nothing is assumed of sessions and hooks.
Fairness ==
    /\ WF_vars(Tick)
    /\ \A d \in Drains : /\ WF_vars(StartDrain(d))
                         /\ WF_vars(DrainStep(d))
                         /\ SF_vars(ClaimNext(d, {}))

FairSpec == Spec /\ Fairness
-----------------------------------------------------------------------------
\* Every row, session and drain stays within its column types, and a drain
\* never takes more claims than its budget.
TypeOK ==
    /\ clock \in Nat /\ crashes \in Nat
    /\ funded \subseteq Brands /\ ready \subseteq Brands
    /\ status \in [Tasks -> Status]
    /\ startedAt \in [Tasks -> Nat \cup {None}]
    /\ sessionId \in [Tasks -> Sessions \cup {None}]
    /\ completion \in [Tasks -> {"completed", "partial", None}]
    /\ resultActionId \in [Tasks -> Outputs \cup {None}]
    /\ outcomeCode \in [Tasks -> OutcomeCode \cup {None}]
    /\ producer \in [Outputs -> Producer \cup {None}]
    /\ pc \in [Drains -> {"idle", "claim", "send", "bind", "fail"}]
    /\ now \in [Drains -> Nat]
    /\ held \in [Drains -> Claim \cup {None}]
    /\ handle \in [Drains -> Sessions \cup {None}]
    /\ left \in [Drains -> 0..Budget]
    /\ phase \in [Sessions -> {"unborn", "live", "completed", "failed", "cancelled"}]
    /\ origin \in [Sessions -> Claim \cup {None}]

\* The session bound to a task carries that task and the row's generation:
\* no late session of an earlier delivery, and no other task's session, ever
\* holds write authority (ADR-018 D3).
AuthorityOfGeneration ==
    \A t \in Tasks : sessionId[t] # None =>
        origin[sessionId[t]] = [task |-> t, gen |-> startedAt[t]]

\* No two sessions carry the same claim, whatever is requeued, reclaimed or
\* sent late: one generation is delivered at most once.
OneSessionPerGeneration ==
    \A s1, s2 \in Sessions :
        s1 # s2 /\ origin[s1] # None => origin[s1] # origin[s2]

\* Every committed Object was committed by the session that ended up with the
\* authority of its task, and is that task's only one.
OutputsOfAuthority ==
    \A o \in Outputs : producer[o] # None =>
        /\ sessionId[producer[o].task] = producer[o].session
        /\ resultActionId[producer[o].task] = o

\* A staged or retained completion agrees with what was committed: completed
\* delivers the Object of the result Action, partial leaves no Object.
CompletionMatchesOutputs ==
    \A t \in Tasks : completion[t] # None =>
        (completion[t] = "completed") <=>
            (\E o \in Outputs : producer[o] # None /\ producer[o].task = t)

\* An outcome is whole: success has a session and the staged completion as
\* its outcome; every other end leaves no completion behind.
SettlementIsWhole ==
    \A t \in Tasks :
        /\ status[t] = "succeeded" =>
              sessionId[t] # None /\ completion[t] # None /\ outcomeCode[t] = completion[t]
        /\ status[t] \in {"failed", "cancelled"} =>
              completion[t] = None /\ outcomeCode[t] \notin {None, "completed", "partial"}

\* A claim still carried is no newer than the row's generation, and a row is
\* back in the queue only Window after it.
Bounded(claim) ==
    IF startedAt[claim.task] # None THEN claim.gen <= startedAt[claim.task]
                                    ELSE claim.gen + Window <= clock

RowShape ==
    \A t \in Tasks :
        /\ status[t] = "queued" <=> startedAt[t] = None
        /\ startedAt[t] # None => startedAt[t] <= clock
        /\ status[t] = "queued" => sessionId[t] = None
        /\ sessionId[t] = None => completion[t] = None /\ resultActionId[t] = None
        /\ outcomeCode[t] # None <=> status[t] \in Terminal
        /\ completion[t] # None =>
              (completion[t] = "completed" <=> resultActionId[t] # None)
        /\ resultActionId[t] # None =>
              producer[resultActionId[t]] # None /\ producer[resultActionId[t]].task = t

DrainShape ==
    \A d \in Drains :
        /\ now[d] <= clock
        /\ held[d] # None <=> pc[d] \in {"send", "bind", "fail"}
        /\ pc[d] = "claim" => left[d] > 0
        /\ pc[d] = "bind" => handle[d] # None /\ origin[handle[d]] = held[d]

SessionShape == \A s \in Sessions : phase[s] = "unborn" <=> origin[s] = None

\* Why no generation comes twice.
GenerationsBounded ==
    /\ \A s \in Sessions : origin[s] # None => Bounded(origin[s])
    /\ \A d \in Drains : held[d] # None => Bounded(held[d])

\* Two drains never hold the same claim, and a claim not sent yet has no
\* session.
ClaimsExclusive ==
    \A d \in Drains : held[d] # None =>
        /\ \A e \in Drains \ {d} : held[e] # held[d]
        /\ pc[d] = "send" => \A s \in Sessions : origin[s] # held[d]

\* The inductive invariant: the safety invariants with what makes them
\* inductive.  It is the reachable shape of rows, drains and sessions.
IInv ==
    /\ TypeOK /\ RowShape /\ DrainShape /\ SessionShape
    /\ GenerationsBounded /\ ClaimsExclusive
    /\ AuthorityOfGeneration /\ OneSessionPerGeneration
    /\ OutputsOfAuthority /\ SettlementIsWhole

\* Once a task has a session it keeps it, with its generation, and never goes
\* back to the queue: it is not delivered again, whatever events are lost.
AuthorityIsPermanent ==
    [][\A t \in Tasks : sessionId[t] # None =>
         /\ sessionId'[t] = sessionId[t] /\ startedAt'[t] = startedAt[t]
         /\ status'[t] # "queued"]_vars

\* A terminal row keeps its outcome: late, repeated or conflicting terminal
\* events, delivery failures and tool calls change nothing but a missing
\* session id.
OutcomeIsFinal ==
    [][\A t \in Tasks : status[t] \in Terminal =>
         /\ status'[t] = status[t] /\ outcomeCode'[t] = outcomeCode[t]
         /\ completion'[t] = completion[t] /\ resultActionId'[t] = resultActionId[t]]_vars

\* A claim takes a generation later than any that a drain or a session still
\* carries for the task, although each drain stamps it with a time it read
\* before its transaction.
GenerationsIncrease ==
    [][\A t \in Tasks : startedAt'[t] \notin {None, startedAt[t]} =>
         /\ \A s \in Sessions : origin[s] # None /\ origin[s].task = t =>
                 origin[s].gen < startedAt'[t]
         /\ \A d \in Drains : held[d] # None /\ held[d].task = t =>
                 held[d].gen < startedAt'[t]]_vars

\* A task that is due and whose brand stays funded is delivered to a session
\* or ends, although invocations crash and deliveries are lost, as long as
\* every brand served by the root has its Brand Context.
EventuallyDelivered ==
    \A t \in Tasks :
        <>[](funded = Brands /\ ready = Brands) =>
            <>(sessionId[t] # None \/ status[t] \in Terminal)

\* The lane implements its abstract promise: see OneShotTask.
Progress == [t \in Tasks |-> IF status[t] \in Terminal THEN "done" ELSE "open"]

OneShot == INSTANCE OneShotTask WITH
    state   <- Progress,
    owner   <- sessionId,
    output  <- resultActionId,
    staged  <- completion,
    verdict <- outcomeCode

\* Every behaviour of claims, sends, hooks, tools and events is one of a task
\* executed at most once, by one session, and ended at most once.
ImplementsOneShot == OneShot!Spec

\* See TaskLife: a claim that is given up leaves the task waiting.
LifeOf == [t \in Tasks |-> IF status[t] \in Terminal THEN "ended"
                           ELSE IF sessionId[t] # None THEN "bound" ELSE "waiting"]

Life == INSTANCE TaskLife WITH Nothing <- None, state <- LifeOf, output <- resultActionId

\* The lane gives the other components the tasks they take for granted.
ImplementsTaskLife == Life!Spec
=============================================================================
