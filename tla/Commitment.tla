----------------------------- MODULE Commitment -----------------------------
(***************************************************************************)
(* The lane of human commitments (ADR-019): rows of `tasks` with           *)
(* executionMode = direct and activation = human.  Members prepare,        *)
(* approve, dismiss, reopen and cancel them; the responsible root's drain  *)
(* claims an approved row, calls the provider once and records what the    *)
(* provider answered.                                                      *)
(*                                                                         *)
(* Each transaction of packages/brain is one action: it locks the row (and *)
(* takes its advisory locks) before it reads.  The exception is reopenTask,*)
(* whose Action is stamped by the database with the time the transaction   *)
(* began, before it waited for any lock: it is two actions.  A call that   *)
(* fails a check, or replays an earlier receipt, changes nothing and has   *)
(* no action.  The revision of a commitment is 1 for its whole life: no    *)
(* operation of this commit edits one.                                     *)
(*                                                                         *)
(* The time is that of the database.  All other stamps are of new Date()   *)
(* on the host that serves the call, up to Skew away from it.              *)
(***************************************************************************)
EXTENDS Integers

CONSTANTS
    Tasks,         \* commitments, numbered in id order: a task is its prepare request
    Payloads,      \* (brand, kind, payload hash) tuples of the dismissal memory
    PayloadOf,     \* the tuple of each task
    Keys,          \* conflict keys of serialized kinds
    KeyOf,         \* deriveConflictKey: None but for the fixture kind
    Brands,
    BrandOf,
    ExecuteBefore, \* tasks.execute_before: None but for a kind with a deadline
    Drains,        \* concurrent invocations of the root's dispatch route
    Members,       \* concurrent reopen requests
    StaleAfter,    \* HUMAN_COMMITMENT_STALE_AFTER_MS
    Lifetime,      \* longest life of an invocation
    Skew,          \* how far the clock of a host may be from the database's
    Budget,        \* DEFAULT_DIRECT_DRAIN_BUDGET
    MaxTime,       \* bound of the model: last clock value
    MaxCrashes,    \* bound of the model: drains lost before their lifetime ends
    None           \* SQL null

ASSUME ConstantsAssumption ==
    /\ Tasks \subseteq Nat
    /\ PayloadOf \in [Tasks -> Payloads]
    /\ KeyOf \in [Tasks -> Keys \cup {None}]
    /\ BrandOf \in [Tasks -> Brands]
    /\ ExecuteBefore \in [Tasks -> Nat \cup {None}]
    /\ StaleAfter \in Nat /\ Lifetime \in Nat /\ Skew \in Nat
    /\ Lifetime + 2 * Skew < StaleAfter
    /\ Budget \in Nat \ {0} /\ MaxTime \in Nat /\ MaxCrashes \in Nat

Claim == [task : Tasks, gen : Nat]
Fact == [fact : {"dismissal", "reopen"}, at : Nat, committed : Nat]
Reopening == [task : Tasks, at : Nat]

Withdrawn == {"dismissed", "cancelled", "expired"}
Outcomes == {"succeeded", "failed", "outcome_unknown"}
Terminal == Withdrawn \cup Outcomes
Status == {"absent", "awaiting_approval", "queued", "running"} \cup Terminal
Answers == {"accepted", "invalid_receipt", "rejected", "unknown"}

ASSUME NoneAssumption ==
    /\ None \notin Nat /\ None \notin Claim /\ None \notin Reopening /\ None \notin Fact
    /\ None \notin Keys /\ None \notin Answers

VARIABLES
    clock, connected, crashes,     \* database time, brands whose provider slot is active
    status, approvedAt, startedAt, \* the task row
    newest,     \* of the Dismissal and Reopen Actions of a tuple, the first by created_at
    last,       \* history: the one that was committed last
    reopening,  \* a reopen transaction that began: its task and its time
    command,    \* what became of the provider command of a task
    calls,      \* provider commands sent for a task
    pc, born, now, batch, excluded, held, answer, left   \* a drain's local state

env    == <<clock, connected, crashes>>
row    == <<status, approvedAt, startedAt>>
memory == <<newest, last, reopening>>
effect == <<command, calls>>
drain  == <<pc, born, now, batch, excluded, held, answer, left>>
vars   == <<env, row, memory, effect, drain>>

Init ==
    /\ clock = 0
    /\ connected \in SUBSET Brands
    /\ crashes = 0
    /\ status = [t \in Tasks |-> IF KeyOf[t] = None THEN "absent" ELSE "awaiting_approval"]
    /\ approvedAt = [t \in Tasks |-> None]
    /\ startedAt = [t \in Tasks |-> None]
    /\ newest = [p \in Payloads |-> None]
    /\ last = [p \in Payloads |-> None]
    /\ reopening = [m \in Members |-> None]
    /\ command = [t \in Tasks |-> "none"]
    /\ calls = [t \in Tasks |-> 0]
    /\ pc = [d \in Drains |-> "idle"]
    /\ born = [d \in Drains |-> 0]
    /\ now = [d \in Drains |-> 0]
    /\ batch = [d \in Drains |-> {}]
    /\ excluded = [d \in Drains |-> {}]
    /\ held = [d \in Drains |-> None]
    /\ answer = [d \in Drains |-> None]
    /\ left = [d \in Drains |-> 0]
-----------------------------------------------------------------------------
(* The environment: time, the provider connection, the provider.           *)

Tick ==
    /\ clock < MaxTime
    /\ clock' = clock + 1
    /\ UNCHANGED <<connected, crashes, row, memory, effect, drain>>

\* What new Date() may return on a host.
HostTimes == ((clock - Skew)..(clock + Skew)) \cap Nat

ConnectionMoves(b) ==
    /\ connected' = IF b \in connected THEN connected \ {b} ELSE connected \cup {b}
    /\ UNCHANGED <<clock, crashes, row, memory, effect, drain>>

\* The provider decides on a command in flight, whoever still listens.
ProviderDecides(t, how) ==
    /\ command[t] = "inflight"
    /\ command' = [command EXCEPT ![t] = how]
    /\ UNCHANGED <<env, row, memory, calls, drain>>
-----------------------------------------------------------------------------
(* The members: prepare, approve, dismiss, reopen, cancel.                 *)

\* Mutant of Newer: the ids alone order the facts.
ById(f, e) == IF f = None THEN {e} ELSE {f, e}

\* What is newest after e is inserted beside f: ORDER BY created_at DESC, and
\* of two facts of one instant either, since their ids are random.
Newer(f, e) == IF f = None THEN {e} ELSE {x \in {f, e} : f.at <= x.at /\ e.at <= x.at}

InsertFact(p, e) ==
    /\ \E n \in Newer(newest[p], e) : newest' = [newest EXCEPT ![p] = n]
    /\ last' = [last EXCEPT ![p] = e]

\* readLatestCommitmentDismissalFact.  No other fact is ever read.
LatestFact(p) == IF newest[p] = None THEN "none" ELSE newest[p].fact

\* prepareCommitment; a task already inserted replays its receipt.
PrepareCommitment(t) ==
    /\ status[t] = "absent"
    /\ LatestFact(PayloadOf[t]) # "dismissal"
    /\ status' = [status EXCEPT ![t] = "awaiting_approval"]
    /\ UNCHANGED <<env, approvedAt, startedAt, memory, effect, drain>>

\* Mutant of Blocking: a queued owner is overlooked.
RunningOwner(t, u) == KeyOf[t] # None /\ KeyOf[u] = KeyOf[t] /\ BrandOf[u] = BrandOf[t]
                      /\ status[u] = "running"

\* findBlockingCommitment: u already owns the target of t.
Blocking(t, u) ==
    /\ KeyOf[t] # None
    /\ KeyOf[u] = KeyOf[t] /\ BrandOf[u] = BrandOf[t]
    /\ status[u] \in {"queued", "running"}

\* approveTask: a busy target leaves the row as it is.
ApproveTask(t) ==
    /\ status[t] = "awaiting_approval"
    /\ \A u \in Tasks : ~Blocking(t, u)
    /\ status' = [status EXCEPT ![t] = "queued"]
    /\ \E at \in HostTimes : approvedAt' = [approvedAt EXCEPT ![t] = at]
    /\ UNCHANGED <<env, startedAt, memory, effect, drain>>

\* dismissTask: the Action carries the host's time, read under the tuple's lock.
DismissTask(t) ==
    /\ status[t] = "awaiting_approval"
    /\ status' = [status EXCEPT ![t] = "dismissed"]
    /\ \E at \in HostTimes :
         InsertFact(PayloadOf[t], [fact |-> "dismissal", at |-> at, committed |-> clock])
    /\ UNCHANGED <<env, approvedAt, startedAt, reopening, effect, drain>>

\* reopenTask begins: created_at defaults to now(), the transaction's start.
BeginReopen(m, t) ==
    /\ reopening[m] = None
    /\ status[t] # "absent"
    /\ reopening' = [reopening EXCEPT ![m] = [task |-> t, at |-> clock]]
    /\ UNCHANGED <<env, row, newest, last, effect, drain>>

\* reopenTask has the row and the tuple's lock: it appends its Action or throws.
ReopenTask(m) ==
    LET t == reopening[m].task
        p == PayloadOf[t] IN
    /\ reopening[m] # None
    /\ IF status[t] = "dismissed" /\ LatestFact(p) = "dismissal"
       THEN InsertFact(p, [fact |-> "reopen", at |-> reopening[m].at, committed |-> clock])
       ELSE UNCHANGED <<newest, last>>
    /\ reopening' = [reopening EXCEPT ![m] = None]
    /\ UNCHANGED <<env, row, effect, drain>>

\* Mutant of Cancellable: a running commitment can still be cancelled.
CancellableLate(t) == status[t] \in {"awaiting_approval", "queued", "running"}

Cancellable(t) == status[t] \in {"awaiting_approval", "queued"}

CancelTask(t) ==
    /\ Cancellable(t)
    /\ status' = [status EXCEPT ![t] = "cancelled"]
    /\ UNCHANGED <<env, approvedAt, startedAt, memory, effect, drain>>
-----------------------------------------------------------------------------
(* drainDirectHumanCommitments: classify stale rows, then claim, call the  *)
(* provider and settle, one commitment at a time.                          *)

\* The platform still runs the invocation.
Alive(d) == clock <= born[d] + Lifetime

StartDrain(d) ==
    /\ pc[d] = "idle"
    /\ pc' = [pc EXCEPT ![d] = "select"]
    /\ born' = [born EXCEPT ![d] = clock]
    /\ \E at \in HostTimes : now' = [now EXCEPT ![d] = at]
    /\ left' = [left EXCEPT ![d] = Budget]
    /\ UNCHANGED <<env, row, memory, effect, batch, excluded, held, answer>>

\* The invocation is over, and its local variables with it.
EndDrain(d) ==
    /\ pc' = [pc EXCEPT ![d] = "idle"]
    /\ born' = [born EXCEPT ![d] = 0]
    /\ now' = [now EXCEPT ![d] = 0]
    /\ batch' = [batch EXCEPT ![d] = {}]
    /\ excluded' = [excluded EXCEPT ![d] = {}]
    /\ held' = [held EXCEPT ![d] = None]
    /\ answer' = [answer EXCEPT ![d] = None]
    /\ left' = [left EXCEPT ![d] = 0]

\* The next turn of the loop reads the clock before its transaction.
TakeTurn(d) ==
    /\ pc' = [pc EXCEPT ![d] = "claim"]
    /\ \E at \in HostTimes : now' = [now EXCEPT ![d] = at]

\* Mutants of Stale: the window is forgotten; no row is ever old enough.
StaleAtOnce(t, at) == status[t] = "running" /\ startedAt[t] <= at
NeverStale(t, at) == status[t] = "running" /\ startedAt[t] > at

Stale(t, at) == status[t] = "running" /\ startedAt[t] + StaleAfter <= at

\* settleStaleHumanCommitments reads the stale rows without a lock ...
SelectStale(d) ==
    /\ pc[d] = "select" /\ Alive(d)
    /\ pc' = [pc EXCEPT ![d] = "classify"]
    /\ batch' = [batch EXCEPT ![d] = {t \in Tasks : Stale(t, now[d])}]
    /\ UNCHANGED <<env, row, memory, effect, born, now, excluded, held, answer, left>>

StillRunning(t) == status[t] = "running"

\* ... and closes each in a transaction of its own, if it still runs.
SettleStale(d, t) ==
    /\ pc[d] = "classify" /\ Alive(d)
    /\ t \in batch[d]
    /\ batch' = [batch EXCEPT ![d] = @ \ {t}]
    /\ status' = IF StillRunning(t) THEN [status EXCEPT ![t] = "outcome_unknown"] ELSE status
    /\ UNCHANGED <<env, approvedAt, startedAt, memory, effect,
                   pc, born, now, excluded, held, answer, left>>

Classified(d) ==
    /\ pc[d] = "classify" /\ Alive(d)
    /\ batch[d] = {}
    /\ TakeTurn(d)
    /\ UNCHANGED <<env, row, memory, effect, born, batch, excluded, held, answer, left>>

\* ORDER BY execute_before ASC NULLS LAST, approved_at, id.
Precedes(t, u) ==
    \/ ExecuteBefore[t] # None /\ ExecuteBefore[u] = None
    \/ ExecuteBefore[t] # None /\ ExecuteBefore[u] # None /\ ExecuteBefore[t] < ExecuteBefore[u]
    \/ ExecuteBefore[t] = ExecuteBefore[u] /\ approvedAt[t] < approvedAt[u]
    \/ ExecuteBefore[t] = ExecuteBefore[u] /\ approvedAt[t] = approvedAt[u] /\ t < u

\* Mutant of Queued: a running row may be taken over.
QueuedOrRunning(t) == status[t] \in {"queued", "running"} /\ KeyOf[t] = None

\* The rows of the root's registered kinds: the fixture kind is not one.
Queued(t) == status[t] = "queued" /\ KeyOf[t] = None

ExpireQueued(d, t) ==
    /\ status' = [status EXCEPT ![t] = "expired"]
    /\ TakeTurn(d)
    /\ UNCHANGED <<approvedAt, startedAt, born, batch, excluded, held, answer, left>>

ExcludeForCapability(d, t) ==
    /\ excluded' = [excluded EXCEPT ![d] = @ \cup {t}]
    /\ TakeTurn(d)
    /\ UNCHANGED <<row, born, batch, held, answer, left>>

\* casHumanClaim.  A claim so late that the clock's bound would hide its
\* classification is left out.
CasHumanClaim(d, t) ==
    /\ now[d] + StaleAfter + Skew <= MaxTime
    /\ status' = [status EXCEPT ![t] = "running"]
    /\ startedAt' = [startedAt EXCEPT ![t] = now[d]]
    /\ held' = [held EXCEPT ![d] = [task |-> t, gen |-> now[d]]]
    /\ left' = [left EXCEPT ![d] = @ - 1]
    /\ pc' = [pc EXCEPT ![d] = "execute"]
    /\ UNCHANGED <<approvedAt, born, now, batch, excluded, answer>>

Due(t, at) == ExecuteBefore[t] # None /\ ExecuteBefore[t] <= at

\* claimNextDueHumanCommitment.  Any row may be locked by a member's request
\* or another drain: SKIP LOCKED passes over the rows in `skipped`.
ClaimNextDueHumanCommitment(d, skipped) ==
    LET queue == {t \in Tasks \ (skipped \cup excluded[d]) : Queued(t)} IN
    /\ pc[d] = "claim" /\ Alive(d)
    /\ \/ queue = {} /\ EndDrain(d) /\ UNCHANGED row
       \/ \E t \in queue :
          /\ \A u \in queue \ {t} : Precedes(t, u)
          /\ \/ Due(t, now[d]) /\ ExpireQueued(d, t)
             \/ ~Due(t, now[d]) /\ BrandOf[t] \notin connected /\ ExcludeForCapability(d, t)
             \/ ~Due(t, now[d]) /\ BrandOf[t] \in connected /\ CasHumanClaim(d, t)
    /\ UNCHANGED <<env, memory, effect>>

\* executeNotionPageCreate resolved the connection and sends its command.
SendCommand(d) ==
    LET t == held[d].task IN
    /\ pc[d] = "execute" /\ Alive(d)
    /\ BrandOf[t] \in connected
    /\ calls' = [calls EXCEPT ![t] = @ + 1]
    /\ command' = [command EXCEPT ![t] = "inflight"]
    /\ pc' = [pc EXCEPT ![d] = "await"]
    /\ UNCHANGED <<env, row, memory, born, now, batch, excluded, held, answer, left>>

Answered(d, a) ==
    /\ answer' = [answer EXCEPT ![d] = a]
    /\ pc' = [pc EXCEPT ![d] = "settle"]
    /\ UNCHANGED <<env, row, memory, effect, born, now, batch, excluded, held, left>>

\* The connection is gone, or the handler threw before the call.
NothingSent(d) ==
    /\ pc[d] = "execute" /\ Alive(d)
    /\ Answered(d, "unknown")

\* A 2xx means applied and a 4xx refused.  Timeouts, 5xx, transport errors,
\* malformed receipts and throws are unknown, whatever the provider did.
ProviderAnswers(d, a) ==
    LET t == held[d].task IN
    /\ pc[d] = "await" /\ Alive(d)
    /\ a \in {"accepted", "invalid_receipt"} => command[t] = "applied"
    /\ a = "rejected" => command[t] = "refused"
    /\ Answered(d, a)

\* Mutant of StatusOf: what is not accepted has failed.
AcceptedOrFailed(a) == IF a = "accepted" THEN "succeeded" ELSE "failed"

\* appendResultAndCas: the classification that status and Action share.
StatusOf(a) ==
    CASE a = "accepted" -> "succeeded"
      [] a = "rejected" -> "failed"
      [] OTHER          -> "outcome_unknown"

GenerationMatches(claim) ==
    status[claim.task] = "running" /\ startedAt[claim.task] = claim.gen

BudgetLeft(d) == left[d] > 0

\* settleHumanCommitmentResult; when the row is no longer the claimed one it
\* throws, which loses the answer and ends the drain.
SettleHumanCommitmentResult(d) ==
    LET t == held[d].task IN
    /\ pc[d] = "settle" /\ Alive(d)
    /\ status' = IF GenerationMatches(held[d])
                 THEN [status EXCEPT ![t] = StatusOf(answer[d])] ELSE status
    /\ IF GenerationMatches(held[d]) /\ BudgetLeft(d)
       THEN /\ TakeTurn(d)
            /\ held' = [held EXCEPT ![d] = None]
            /\ answer' = [answer EXCEPT ![d] = None]
            /\ UNCHANGED <<born, batch, excluded, left>>
       ELSE EndDrain(d)
    /\ UNCHANGED <<env, approvedAt, startedAt, memory, effect>>

\* The instance is lost, or the platform ends it at its time limit.
Crash(d) ==
    /\ pc[d] # "idle"
    /\ IF Alive(d) THEN crashes < MaxCrashes /\ crashes' = crashes + 1
                   ELSE UNCHANGED crashes
    /\ EndDrain(d)
    /\ UNCHANGED <<clock, connected, row, memory, effect>>
-----------------------------------------------------------------------------
DrainStep(d) ==
    \/ SelectStale(d)
    \/ \E t \in Tasks : SettleStale(d, t)
    \/ Classified(d)
    \/ \E skipped \in SUBSET Tasks : ClaimNextDueHumanCommitment(d, skipped)
    \/ SendCommand(d)
    \/ NothingSent(d)
    \/ \E a \in Answers : ProviderAnswers(d, a)
    \/ SettleHumanCommitmentResult(d)

MemberStep ==
    \/ \E t \in Tasks : PrepareCommitment(t) \/ ApproveTask(t) \/ DismissTask(t) \/ CancelTask(t)
    \/ \E m \in Members : ReopenTask(m) \/ \E t \in Tasks : BeginReopen(m, t)

Environment ==
    \/ Tick
    \/ \E b \in Brands : ConnectionMoves(b)
    \/ \E t \in Tasks, how \in {"applied", "refused"} : ProviderDecides(t, how)

Next ==
    \/ Environment
    \/ MemberStep
    \/ \E d \in Drains : StartDrain(d) \/ DrainStep(d) \/ Crash(d)

Spec == Init /\ [][Next]_vars

\* The cron pokes the root each minute; an invocation goes on or is ended.
\* Nothing is assumed of members, of the connection or of the provider.
Fairness ==
    /\ WF_vars(Tick)
    /\ \A d \in Drains : WF_vars(StartDrain(d)) /\ WF_vars(DrainStep(d))
                         /\ WF_vars(~Alive(d) /\ Crash(d))

FairSpec == Spec /\ Fairness
-----------------------------------------------------------------------------
\* Rows, facts and drains keep their types and a drain its budget.
TypeOK ==
    /\ clock \in Nat /\ crashes \in Nat
    /\ connected \subseteq Brands
    /\ status \in [Tasks -> Status]
    /\ approvedAt \in [Tasks -> Nat \cup {None}]
    /\ startedAt \in [Tasks -> Nat \cup {None}]
    /\ newest \in [Payloads -> Fact \cup {None}]
    /\ last \in [Payloads -> Fact \cup {None}]
    /\ reopening \in [Members -> Reopening \cup {None}]
    /\ command \in [Tasks -> {"none", "inflight", "applied", "refused"}]
    /\ calls \in [Tasks -> Nat]
    /\ pc \in [Drains -> {"idle", "select", "classify", "claim", "execute", "await", "settle"}]
    /\ born \in [Drains -> Nat]
    /\ now \in [Drains -> Nat]
    /\ batch \in [Drains -> SUBSET Tasks]
    /\ excluded \in [Drains -> SUBSET Tasks]
    /\ held \in [Drains -> Claim \cup {None}]
    /\ answer \in [Drains -> Answers \cup {None}]
    /\ left \in [Drains -> 0..Budget]

\* While an invocation may still run, the commitment it claimed is still
\* running in its generation: the stale classifier of another invocation
\* never takes it away, so no answer of the provider is ever thrown away.
AnswerFindsItsTask ==
    \A d \in Drains : held[d] # None /\ Alive(d) => GenerationMatches(held[d])

\* The provider is called at most once for a commitment, whatever crashes,
\* overlaps and classifications happen.
OneProviderCall == \A t \in Tasks : calls[t] <= 1

\* A command goes to the provider only for a commitment a human approved and
\* that no human withdrew: cancellation and execution exclude each other.
OnlyGrantedIsExecuted ==
    \A t \in Tasks : calls[t] > 0 =>
        approvedAt[t] # None /\ status[t] \in {"running"} \cup Outcomes

\* Two approved commitments never share a target.
OneOwnerPerTarget ==
    \A t, u \in Tasks :
        /\ t # u /\ KeyOf[t] # None /\ KeyOf[t] = KeyOf[u] /\ BrandOf[t] = BrandOf[u]
        /\ status[t] \in {"queued", "running"}
        => status[u] \notin {"queued", "running"}

\* A recorded outcome claims no more than what the provider did: succeeded is
\* an applied effect, failed a refused one.
OutcomeIsEvidence ==
    \A t \in Tasks : /\ status[t] = "succeeded" => command[t] = "applied"
                     /\ status[t] = "failed" => command[t] = "refused"

\* What a commitment's row tells of its life.
RowShape ==
    \A t \in Tasks :
        /\ startedAt[t] # None <=> status[t] \in {"running"} \cup Outcomes
        /\ startedAt[t] # None => approvedAt[t] # None /\ startedAt[t] <= clock + Skew
        /\ status[t] = "queued" => approvedAt[t] # None
        /\ command[t] = "none" <=> calls[t] = 0
        /\ calls[t] > 0 => startedAt[t] # None

\* What a drain read of the time, and its claim with it, is as true as the
\* clock of its host.
DrainTimes ==
    \A d \in Drains :
        /\ born[d] <= clock /\ born[d] <= now[d] + Skew /\ now[d] <= clock + Skew
        /\ held[d] # None => born[d] <= held[d].gen + Skew

\* What a drain holds was claimed by it alone.
DrainShape ==
    \A d \in Drains :
        /\ held[d] # None <=> pc[d] \in {"execute", "await", "settle"}
        /\ pc[d] = "settle" <=> answer[d] # None
        /\ pc[d] \in {"select", "classify", "claim"} => left[d] > 0
        /\ held[d] # None =>
              /\ startedAt[held[d].task] = held[d].gen
              /\ pc[d] = "execute" => calls[held[d].task] = 0
              /\ \A e \in Drains \ {d} : held[e] # None => held[e].task # held[d].task

\* A row selected as stale stays old enough.
BatchIsStale ==
    \A d \in Drains : \A t \in batch[d] :
        startedAt[t] # None /\ startedAt[t] + StaleAfter <= clock + Skew

\* An answer is what the provider did.
AnswerIsEvidence ==
    \A d \in Drains :
        /\ answer[d] \in {"accepted", "invalid_receipt"} => command[held[d].task] = "applied"
        /\ answer[d] = "rejected" => command[held[d].task] = "refused"

\* The inductive invariant of the lane.
IInv ==
    /\ TypeOK /\ RowShape /\ DrainTimes /\ DrainShape /\ BatchIsStale /\ AnswerIsEvidence
    /\ AnswerFindsItsTask /\ OneProviderCall /\ OnlyGrantedIsExecuted
    /\ OneOwnerPerTarget /\ OutcomeIsEvidence

\* A terminal commitment never changes again and keeps its claim; a running
\* one never goes back to a state from which it could be executed again.
NeverExecutedAgain ==
    [][\A t \in Tasks :
         /\ status[t] \in Terminal => status'[t] = status[t]
         /\ startedAt[t] # None => startedAt'[t] = startedAt[t] /\ status'[t] # "queued"]_vars

\* The fact that was committed last decides whether the exact payload may be
\* prepared again, but for facts that are Skew apart or less: a dismissal
\* against a reopen whose transaction began within Skew of it or later, a
\* reopen that began before, or within Skew after, a dismissal committed.
LastFactDecides ==
    \A p \in Payloads : last[p] # None /\ LatestFact(p) # last[p].fact =>
        IF last[p].fact = "dismissal"
        THEN last[p].committed <= newest[p].at + Skew
        ELSE last[p].at <= newest[p].committed + Skew

\* A committed reopen lifts the block (ADR-019 D3, ADR-008), facts of one
\* instant apart.  Not so: its Action is stamped with its transaction's start,
\* before the lock.
ReopenUnblocks ==
    \A p \in Payloads : last[p] # None /\ last[p].fact = "reopen" =>
        newest[p].fact = "reopen" \/ newest[p].at = last[p].at

\* A committed dismissal blocks the payload until a later reopen (ADR-019),
\* facts of one instant apart.  Not so: the two are stamped by two clocks.
DismissalBlocks ==
    \A p \in Payloads : last[p] # None /\ last[p].fact = "dismissal" =>
        newest[p].fact = "dismissal" \/ newest[p].at = last[p].at

\* A claimed commitment gets an outcome, although invocations are lost.
RunningSettles ==
    \A t \in Tasks : status[t] = "running" ~> status[t] \in Outcomes

\* The stage of a commitment in its abstract promise: see ApprovedEffect.
StageOf(s) ==
    CASE s \in {"absent", "awaiting_approval"} -> "open"
      [] s = "queued"       -> "granted"
      [] s = "running"      -> "executing"
      [] s \in Withdrawn    -> "withdrawn"
      [] OTHER              -> s

Stage == [t \in Tasks |-> StageOf(status[t])]

Effect == INSTANCE ApprovedEffect WITH stage <- Stage

\* Every behaviour of members and drains is one of an effect that is granted
\* once, sent at most once and honestly concluded.
ImplementsEffect == Effect!Spec
=============================================================================
