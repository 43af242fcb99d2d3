# Branderize CMO in TLA+

Branderize CMO is a work graph for brands: people and AI agents create tasks, a
specialist agent or a human-approved external effect executes each of them, and
the work graph in Postgres keeps who did what.  This directory holds TLA+ models
of its core, the TLC runs that check them on small instances and TLAPS proofs of
their main properties for all sizes.

The definitions are translated from the source under `src/`; `PROJECT.json` maps
each of them to its lines.  The decision records (`adrs/`) say what the code is
meant to promise and are quoted as such only.

- [The system](#the-system): components, state, operations, interactions, hazards
- [The modules](#the-modules): what is modelled and how it maps to the code
- [The runs](#the-runs): what TLC checks, with which bounds, the findings, and where the
  code and its records differ
- [The proofs](#the-proofs): what holds for every value of the constants
- [Not modelled](#not-modelled) and [the plan](#the-plan)

## The system

Everything durable is a row of Postgres (`packages/db/src/schema/domain.ts`), and
every change is a short transaction of `packages/brain`, which serialises by
`SELECT ... FOR UPDATE` of the row it changes and by advisory locks.  Nothing
else is shared.  Functions on Vercel (300 s each) run the transactions: request
handlers of the app for members, a *dispatch route* per agent root that a cron
pokes each minute, and Eve, the agent runtime, which runs a model session and
calls the root's tools and hooks.

```
 members ──actions──▶ apps/app ──┐                        ┌── cron: one poke per root per minute
                                 ▼                        ▼
                        packages/brain ◀──claim/bind── dispatch route (drain loop)
                        (transactions)                    │ send            │ provider call
                                 ▲                        ▼                 ▼
                                 └──tools, audit hook── Eve session     Notion, ...
```

| Component | State | Operations | What makes it hard | What makes it correct |
| --- | --- | --- | --- | --- |
| Agent lane: `task-claim-lease`, `task-finish`, `specialist-object`, `session-events`, `specialist-runtime/drain` | `tasks` rows (status, startedAt = the generation, sessionId, completion, resultActionId, outcomeCode), `objects`, `actions`; a drain's locals; an Eve session's auth | claim with recovery, send, bind (drain and hook), fail delivery, produce, finish, settle from a terminal event | several drains at once, a clock read before the transaction, a send that fails after it was accepted, a lost invocation, tool calls after the turn failed, terminal events lost, repeated, or first | one session has the write authority of a task; its generation is fenced; outputs, completion and outcome agree; each outcome is final |
| Human lane: `task-prepare-commitment`, `task-approval`, `task-dismissal`, `task-cancellation`, `task-claim-human`, `task-result`, `specialist-runtime/direct-drain` | `tasks` rows with `activation = human`; Dismissal and Reopen `actions`; the provider's own state | prepare, approve, dismiss, reopen, cancel; claim, expire, exclude, call, settle, classify as stale | two invocations, a lost one, an answer after the row was classified, members racing the drain, two clocks ordering one log | one call per commitment, only for a granted one; an outcome says no more than the provider did; a dismissal blocks exact recreation until a reopen (it does not always) |
| Charges: `session-events/charges`, `ingest` | `session_events`, `credit_ledger`, the owner's row | ingest an event, project charges at a boundary, settle | an event twice, ingestions that overlap and deadlock, a step completed again after a boundary | a boundary charges the last attempt it read, once, in full; events belong to the bound root; a terminal settles |
| Task creation: `task-request`, `lateral-request`, `specialist-object`, `task-question-resolution` | new `tasks`, their Intent snapshots, `actions` | request in a CMO turn, hand on from a session, produce, answer questions | a rival request, a source that settles, an Intent that changes, locks taken in different orders | one active task per subject; it carries an Intent that was active; work is handed on only by a task that runs |
| Intents: `intents`, `cmo-intent-target`, the CMO's tools, the forms of the app | `intents` (status, revision, criteria and constraints), `actions` | declare, propose, refine, adopt, abandon; look for the Intent a turn means | several reads before a transaction, a page that is old, a retry after everything has changed | the history of an Intent is a line; a retry gets its receipt |
| Conversations: `conversations`, `cmo-access`, the CMO route, its audit hook | `cmo_conversations.session_id`; the sessions of the runtime | authorize, create, bind (proxy and hook), message | two POSTs at once, a lost response, a session nobody is bound to | one session per conversation, and only that one acts |
| Brand Context: `context-bootstrap`, `product-marketer-context`, `context-import` | `brands.onboarding_status` and `updated_at`, the Objects of the singleton | claim, take over, commit, recover; save; read | a slow import taken over, clocks that differ, a head that is replaced while it is read | one import; each later version replaces the one it was made from; readers find one (not always) |
| Connections: `connections` and the receipts of `receipts` | `brand_connections`, `actions` by operation key | connect, disconnect, under a key and a member's role | a double submission, two members and one slot, a role withdrawn | one active connection per slot, one operation per key, refusals that are true |
| Policy: `packages/policy` | none | decide an operation of an Actor | the table itself, restrictions, snapshots | nothing unauthorized is allowed; a decision only narrows |
| Onboarding: `onboarding`, `onboarding-organization` | `organization`, `brands` | create an organization and its brand | a library's inserts between two of its own, one pool | a retry finishes what the first attempt began |
| Dispatch: cron route, `dispatch-poke`, `dispatch-handler`, registry | none | poke | | |
| Read models, remote assets, pages, auth, environment | none of their own | reads, network I/O | | |

`PROJECT.json` lists, under `hazards`, each place where this code can go wrong
in a way a test would hardly reach, with the properties that cover it or the
reason why none does.

## The modules

| Component | Model | What it promises | For TLC | Theorems |
| --- | --- | --- | --- | --- |
| agent lane | `AgentTask` | `OneShotTask`: one session, one output, one end | `MCAgentTask` | `AgentTaskProofs` |
| human-approved commitments | `Commitment` | `ApprovedEffect`: granted, sent at most once, honestly concluded | `MCCommitment` | `CommitmentProofs` |
| session events and charges | `SessionCharges` | `ChargeBook`: an event is taken in at once, with what it pays and ends | `MCSessionCharges` | `SessionChargesProofs` |
| task creation | `WorkRequests` | `WorkLedger`: atomic operations on tasks and Intents | `MCWorkRequests` | `WorkRequestsProofs` |
| Intents, over conversations | `Intents`, which extends `Conversations` | `IntentLine`: a line of operations per Intent | `MCIntents` | `IntentsProofs` |
| Brand Context | `BrandContext` | `ContextHead`: a chain of versions | `MCBrandContext` | `BrandContextProofs` |
| connections and receipts | `Connections` | `KeyedSlots`: atomic operations, one per key | `MCConnections` | `ConnectionsProofs` |
| policy | `Policy` | | `MCPolicy` | `PolicyProofs` |

A component's promise is an abstract specification with few variables and one
action per thing that happens; the component implements it under a refinement
mapping, which a run checks and a theorem proves.  The end of `ContextHead`,
`KeyedSlots`, `WorkLedger`, `IntentLine` and `ChargeBook` says what follows from the
promise, and the theorems carry it back to the component.

Two more abstract specifications are shared: `TaskLife` is all that the components
may take for granted of a task, `IntentLife` of an Intent.  `AgentTask`, the lane
itself, implements `TaskLife`, and so do `WorkRequests` and `BrandContext`, which
have tasks of their own with no more of the lane than they need; `Intents` and
`WorkRequests` implement `IntentLife`.  So what one module assumes of a row that
another module writes is what that module is shown to keep.

How much of a transaction is one action depends on what its locks leave open.
Where it locks the one row it is about before it reads it, and every rival does
the same, it is one action: the two lanes, the Intents, the import.  Where it
shares a row, waits for a unique index, or takes several locks, it is taken apart
statement by statement: `SessionCharges`, `Connections`, `WorkRequests`, and the
lock of the head in `BrandContext`.  What lies between two transactions of one
invocation is never atomic: a drain has a program counter and locals, and can be
lost at each value of it.  Definitions named *mutant of* in the modules are
plausible bugs used to see that each property can fail; nothing else refers to
them.

The modules meet in rows.  `WorkRequests` has the tasks that `AgentTask` starts
from, and of the lanes only the bound session, a failed delivery and the settlement; `BrandContext` has the
same of the product marketer's tasks, and what they save; `Intents` has how a CMO
call finds its Intent, `WorkRequests` what a request does with it.  The policy
is left out of all of them: `GatesDecideWithoutRestrictions`, a theorem of
`PolicyProofs`, says that an evaluation without restrictions is decided by the
gates alone, the role and the authorization that those modules have, and every
caller in the repository passes no restrictions and no preauthorizations.

### AgentTask

State: per task the columns of the row, with `startedAt` as the *generation* of
the claim; `producer`, who committed an Object; per drain `pc`, the `now` it read
before its transaction, the claim it `held`, the session `handle` and the claims
`left`; per session its `phase` and the claim its auth carries (`origin`).

- `StartDrain`, `ClaimNextDueWorkerTask`, `SendAccepted`/`SendRejected`/`SendAmbiguous`,
  `BindDelivery`, `FailRegisteredAgentDelivery` are `drainSpecialistTasks`; a
  claim includes the recovery UPDATE in the same transaction, and rolls it back
  when the claim context does not load.
- `BindTaskSession` is shared by the drain and by the audit hook
  (`HookSessionStarted`), which may never run: Eve absorbs what a hook throws.
- `ProduceObject` and `FinishTask` are the tools of the session.  They may commit
  after the turn failed or was cancelled.
- `IngestTerminal` settles the task from the session's terminal event, which is
  lost, repeated or early as the stream likes: nothing forces or limits it.
- A row is locked by a concurrent transaction at most while that transaction
  runs: `MayBeLocked` says for which rows `SKIP LOCKED` may pass one over.

Outputs and completions are identities, not contents; `partial` stands for
`partial` and `blocked`, which validate alike.

### Commitment

State: per task the row; per exact payload tuple the `newest` of its dismissal and
reopen facts, the only one that is ever read; open reopen transactions;
the provider's own state of each command (`command`) and the number of commands
sent (`calls`), which no code can read; per drain its `pc` and locals.  `last`, the
fact of a tuple that was committed last, is a history variable.

Time: `clock` is the database's.  What the code takes from `new Date()` (the stamp
of a dismissal, `approved_at`, a drain's `now`) is one of `HostTimes`, up to `Skew`
before or after it, drawn anew at each call, since any host may serve it.  The stamp
of a reopen is Postgres's own.

- Members: `PrepareCommitment`, `ApproveTask`, `DismissTask`, `CancelTask`, and
  `BeginReopen`/`ReopenTask`.  A reopen is two actions because its fact is
  stamped with the time its transaction began (`created_at` defaults to `now()`),
  before it waited for the tuple's lock.
- `Newer` is `ORDER BY created_at DESC, id DESC`: ids are random, so of two facts
  with one stamp either may be the first.
- Drains: `SelectStale` (without a lock), `SettleStale` (one row, one
  transaction), `ClaimNextDueHumanCommitment` with its ends `ExpireQueued`,
  `ExcludeForCapability` and `CasHumanClaim`, then `SendCommand`/`NothingSent`,
  `ProviderAnswers`, `SettleHumanCommitmentResult`.
- `Alive` is the 300 s limit of an invocation; `Crash` loses it earlier.

Three features have no producer at this commit and are kept as the code has
them: `execute_before` is a constant of a row (no operation writes it); a
conflict key exists only for the serialized fixture kind, which no root drains
and which tests insert awaiting approval; the revision of a commitment is 1.

### SessionCharges

State: `stored` is `session_events` (the ingestion sequence of each event id),
`ledger` the `model_charge` rows of `credit_ledger` (the model a step was charged
under), `status`, `startedAt` and `sessionId` the row of the task or conversation
that owns the sessions; per ingestion the statement it is `at` and what it holds
uncommitted: the event's sequence, the charges inserted, the change of the task.
`readFor` is a history variable: the rows the projection of a charge had read.

- An ingestion runs `Validate` (FOR SHARE of the owner), `InsertEvent`,
  `ProjectRootCharges` (one SELECT, READ COMMITTED), `InsertCharge` row by row,
  `SettleTask` (FOR UPDATE) and `Commit`.  It may be lost at any point, and any
  event may be ingested again at any time.
- Locks are not variables: an uncommitted row is its own lock.  `Waits` says who
  waits for whom (a row with the same primary or unique key, the shared row),
  `AbortDeadlock` is PostgreSQL's answer to a cycle.
- `Bind`, `Recover` and `FailDelivery` are the other writers of the owner's row;
  they take it FOR UPDATE, hence only while no ingestion holds it.
- `ChargeBook` has of all this the events, the charges and the owner's row; an
  invocation draws a number, looks, and then closes or drops: locks, waits and the
  order of the inserts are hidden.
- `Winners`, `ModelIn` and `Candidates` are `planWinningModelCharges` as
  definitions on a set of rows; `Before` is its last sort.

An event's content is fixed by its id, as `requireExactReplay` enforces; a
replay with other content is refused and changes nothing.  `priced` stands for
the reasons to skip a winner (no cost, zero cost, below the precision of the
ledger, no tokens).  Sequence values that nobody can see, those a rollback
wastes, are reused: only their order can be told.  What a completed session
earns, success or failure, is in `AgentTask`; here it is either.

### WorkRequests

State: the Intents that are `open`, their `revision`; per call the `task` it
created, its `snapshot` and `result`; the `receipt` of each key; per call the next
statement, the task it looks at, what it was told.  A task is named by the call
that created it.

- `ReadReceipt`, `LockIntent`, `Observe`, `LockObserved`, `Insert` and
  `CommitRequest` are `requestSpecialistWork` with
  `observeActiveSpecialistTask`; `ChangeIntent` the refinement or the
  abandonment of an Intent under it.
- A task runs from the moment its session is bound: `BindTaskSession`; before it the
  lane may claim it again and again.  `FailDelivery` ends one that was never
  delivered, `Settle` one that ran.
- `Enter`, `LockSource`, `LockProducing`, `LockQuestions` and `CommitAction` are
  `requestLateralWork`, `produceSpecialistObject` and `resolveTaskQuestions`.
- A lock is what the holder's statement says, as in `SessionCharges`; a row that
  references an Intent locks it FOR KEY SHARE, which waits for FOR UPDATE.

The kinds of task that are handed on (channel plans, from a source report) are
none that a CMO requests, and their subject is the source; `AskAssumption` says
so, and `OneTask` needs it.

A request holds its Intent and looks at the active task of its subject; a session
holds that task and inserts an Action that references the Intent.  They may wait
for each other, PostgreSQL ends one of them, and its caller may retry.
`DeadlocksAreKnown` says that every deadlock is of this kind.

### Conversations and Intents

`Conversations` has the sessions that POSTs create, named by their POST: the
proxy looks whether the conversation is free, creates, binds; the session's own
hook resolves its access and binds too.  `Intents` extends it with `status`,
`revision` and `content` of the Intents, the forms that pages render, and calls.

- A call of the CMO runs in a turn of its session: `ResolveTrustedCmoTurnAccess`,
  then for a refinement, read by read, `ReadReplay`, `ReadTurn`, `ReadActive`,
  `ReadConversation`, `ReadBrand`.  A form has its target from the page
  (`OpenForm`, `SubmitForm`).
- `DeclareIntent`, `ProposeIntent`, `RefineIntent`, `AdoptIntent`,
  `AbandonIntent` are the transactions: the member, the turn, the receipt, the
  Intent, the change.

`IntentLine` keeps of it one line of operations per Intent, each made by a call at
the revision it was about, and what the call was told; turns, forms, reads and
receipts are hidden.

`Key` and `SameRequest` are what `stableCmoRequestId`, a form's `requestId` and the
request hash tell apart.  No caller outside the tests proposes an Intent for the
CMO or declares one for a person, and nothing in the code settles one; ADR-012
lets a draft be refined, the code only an active Intent.

### BrandContext

State: the brand row (`onboardingStatus`, `updatedAt`), per import invocation its
step and the stamp of its claim, the versions of the `head` and which is `active`,
the session that holds it locked, and of the product marketer's tasks the claim,
the session, the output, the end.

- `ClaimContextBootstrap`, `CommitContextBootstrap`,
  `RecoverContextBootstrapClaim` are one action each; the provider and the assets
  are `ImportThrows`.  Every machine has its clock (`Skew`), and the schema stamps
  `updated_at` at each update of the row (`$onUpdate`), so the recovery does too.
- `SaveBrandContext` locks and checks, `CommitSave` makes the version visible.  A
  read that meets the lock (`ReadHead`, `ReadReleased`) looks at the row again and
  may find nothing, since the version that replaced it is younger than the
  statement: the call fails (a finding, below), and is made again.
- `EndTask` is the settlement; like every other writer of a task's row it waits for
  the save that holds the row (`RowFree`).

### Connections

State: the members' `role`, per call the `connection` row it inserted, the
`receipt` of each key, the next statement, the row it waits for or holds.
`witnessed` is a history variable: what the slot of a call has been while it runs.
Each action is a statement of `connectBrandConnection` or
`disconnectBrandConnection`, with `receipts.ts` and `requireCurrentBrandMember`.

`isUniqueViolation` looks for the code of the error; the query builder wraps what
the driver throws, so the code may be missed and the error passed on.  `Insert`
allows both answers.

### Policy

`EvaluatePolicy` and its parts are operators on the input as the schema has it:
authorization, structure of the work, capability, matrix, restrictions, approval.
The steps are what happens to an input in its life: `Restrict` adds a restriction
of the brand, `Accept` replaces the Intent by the snapshot of the task.  A human
approval answers `requires-human-approval` and with it the verification a
restriction may have asked for, which ranks below it.

## The runs

`tlc -config X.cfg MCM` in this directory.

| Run | Question | Bounds | Distinct states |
| --- | --- | --- | --- |
| `agent_task` | who may write, what is committed, how a task ends; does the lane implement `OneShotTask` | 1 task, 2 drains, 2 sessions, 2 Objects, window 2, claim lag 1, clock to 4, 1 crash | 491,694 |
| `agent_task_delivery` | is every due, funded task delivered or ended | 2 tasks, 2 drains with a budget of 1, 1 crash, fairness | 252,136 |
| `commitment_execution` | who may call the provider, how often, what an outcome is worth, is a lost execution classified; does the lane implement `ApprovedEffect` | 1 task with a deadline, 2 drains with a budget of 2, hosts 1 off, stale after 3, clock to 4, fairness | 613,934 |
| `commitment_members` | how far does the fact committed last decide whether a payload may be prepared; does the conflict key serialise | 2 tasks on one target and of one payload tuple, 1 of another kind, 1 reopening member, hosts 1 off, clock to 3 | 2,151,964 |
| `commitment_reopen` | does a reopen unblock | 2 tasks of one tuple, exact clocks | violated, see below |
| `session_charges` | which attempts of a step are charged, is a boundary paid in full, do the inserts of two boundaries deadlock | 2 ingestions of a conversation, 5 events (two steps, one attempted twice), losses | 2,301,238 |
| `session_settles` | the inductive invariant, the model of a charge, does a terminal settle in spite of deadlocks; do the statements implement `ChargeBook` | 2 ingestions, 2 claims of a task with a root session each, a child with a model and a priced step, 3 terminal events, fairness | 335,799 |
| `work_requests` | the inductive invariant, who may wait for whom, do the statements implement `WorkLedger` | any 4 of 9 calls: 4 requests, 2 of them with one key, lateral work, an output, an answer, a refinement, an abandonment; 2 Intents | 295,249 |
| `intents` | the inductive invariant: who may write, is the history of an Intent a line; are retries answered; do calls implement `IntentLine` | any 4 of 9 calls, 2 conversations, 2 POSTs, 2 turns, 1 form | 657,939 |
| `brand_context` | the inductive invariant, the fence of a claim; does it implement `ContextHead`, and `TaskLife` | 2 invocations, stale after 3, clocks 1 apart, clock to 4, 2 tasks with 2 claims each, 2 sessions, 1 read | 985,636 |
| `connections` | the inductive invariant, is a refusal true; do the statements implement `KeyedSlots` | any 4 of 6 calls with 4 keys on one slot by two members, whose roles change | 435,109 |
| `policy` | is anything allowed that is not authorized, does a decision only narrow | every Actor, authorization, capability and effect; every structure with up to 2 grants; up to 2 restrictions | 1,417,962 |

The bounds.  `MaxTime` ends the clock, `MaxCrashes` the invocations lost at will.
They are guards of `Tick` and `Crash`; a crash of an agent drain and a claim of a
commitment so late that the end of the clock would hide what must follow are left
out too.  They suffice for the cases that matter: two generations of one task with
the first session still alive, a recovery between a send and its bind, two
overlapping human invocations, a classification after the window, an answer after
it, both kinds of fact in both orders, of stamps and of commits.  Two tasks are the
least with a queue, and they only meet in the
claim, the conflict key and the tuple; two of one tuple are dismissed, reopened and
dismissed again.  `StaleAfter` of the commitments is the least that its assumption
allows, so that a claim, its classification and a late answer fit into the clock; an
invocation lives for one instant of it (`Lifetime = 0`) and is lost with the next,
wherever it is, so that `MaxCrashes` need not add to it: what tells a window from a
lifetime is `StaleAfter - 2 * Skew - Lifetime`, which is 1.
`MaxSequence` ends the insertion of events: `Room` keeps a value for each
ingestion under way, so that it never stops one half-way, and replays need none.
Two ingestions meet in every kind of wait, and the theorems cover any number of
them.
`MaxCalls` ends the calls that are made, a guard of the first statement of each:
a deadlock of work requests needs two, a rival with a retry three, and one more
changes the Intent or settles the task under them.  `MaxPosts`, `MaxTurns` and
`MaxClaims` are guards of a POST, a message and a claim: two POSTs race, a call is
retried in a later turn, a task is claimed again while its first session lives.
`MaxTime` of the import lets a claim go stale once with clocks a tick off in either
direction; the fence for any number of takeovers is the theorem.
`MaxRestrictions` is a guard of `Restrict`: two restrictions can rank in both
orders.
Drains and sessions are interchangeable where a run has no liveness property, and
the claims they carry differ; tasks are numbered, since the queue orders them.
So are, in the other modules, calls that ask for the same, ingestions, and
invocations, tasks and sessions of an import.

`ClaimLag < Window` and `Lifetime + 2 * Skew < StaleAfter` are assumptions of the
modules, not bounds: a Vercel function ends after 300 s (ADR-009:57, ADR-019:107), the
recovery window of the agent lane is five minutes and the claim is an early
transaction of it, and the stale window of the human lane is ten minutes, which
leaves two and a half minutes for the error of a clock.  The drains of `AgentTask`
read one clock: that of the fastest host, on which a host that is behind is one
that read it earlier, so that `ClaimLag` covers the spread of the clocks too.
`2 * Skew < StaleAfter` of the import is the same assumption without a lifetime.

The six runs without deadlock checking are of systems that really stop: every
call has been answered, the import is done and every task has ended, an input has
met all that can happen to it, or nothing is left to ingest (or to number).

### Fairness

`agent_task_delivery` and `commitment_execution` assume that time passes, that the
cron starts a drain again and again (one poke per root per minute), and that an
invocation which is neither lost nor over goes on.  The agent lane has strong
fairness of the claim that finds no row locked: a row lock lasts for one short
transaction.  Nothing is assumed of members, sessions, hooks, events, the
connection or the provider.

`session_settles` assumes that a transaction which is not waiting goes on, that
PostgreSQL breaks a deadlock, and nothing on which transaction it aborts.  The
property has two premises, both in its statement or its instance: Eve delivers
an event finitely often (else a stream of replays could keep the row shared for
good), and the events are terminal ones.  With `session.waiting` among the
events of a task the property fails: the ingestion of `turn.cancelled` holds a
charge and waits for the task's row, which that of `session.waiting` shares while
it waits for the charge, and the abort may hit the only one that settles.  The
hook absorbs the error and the task stays running, which ADR-016:98 leaves to a
manual repair.  `MayLose` is off there, since a lost event is lost.

`EventuallyDelivered` is stated for brands that stay funded and have their Brand
Context.  Without the second, one task whose claim context does not load blocks
the queue of its worker for every brand: the claim throws, and the recovery that
precedes it in the transaction rolls back with it.

### Findings

**One log, two clocks.**  ADR-019:166 and ADR-008 say that a dismissal blocks the
exact payload until a reopen, and that a recorded reopen lifts the block.  The code
asks for the first fact by `created_at` (`task-dismissal.ts:215`).  A dismissal is
stamped with `new Date()` of the application host, under the lock of the tuple
(`:332`); a reopen is left to the default of the column, the start of its
transaction in Postgres (`:257`).  Each direction fails for a reason of its own.

- `ReopenUnblocks`, the violation run `commitment_reopen`, on one exact clock: a
  reopen of the first task begins while the task still awaits approval, the task is
  dismissed a tick later, the reopen gets the lock and commits.  It is stored as the
  older fact: it reports success, and prepare calls stay refused.
- `DismissalBlocks`, with hosts 1 off (`Skew = 1` in the same instance): the first
  task is dismissed and reopened, the payload is prepared again and dismissed again by
  a host whose clock is behind.  The second dismissal is stored as older than the
  reopen: it reports success, and the payload can be prepared at once.

Both properties leave facts of one stamp alone: equal stamps are ordered by a random
id, and either answer may come out.  What does hold is `LastFactDecides`: the fact
committed last decides, but for a dismissal that commits no later than `Skew` after
the reopen's transaction began, and a reopen whose transaction began no later than
`Skew` after the dismissal's commit.  It is checked in `commitment_members` and
proved (`LastFactsDecide`); with either bound one tick tighter TLC finds it violated.

**A read that finds nothing.**  `ReadsFindTheContext` says that a read of a brand
with a Brand Context finds it, as `docs/ARCHITECTURE.md:153` has it.  TLC finds it
violated in the instance of `brand_context`: a read FOR SHARE meets a save that holds
the head and waits.
When the save commits, the row it waited for is superseded and drops out, and the
version that replaced it is younger than the statement.  The caller is told "Task has
no Brand Context".  In a claim this rolls the claim back and throws, in the tool
`get_brand_context` it fails the call; made again, either succeeds.

### Where the code and the records differ

Met while modelling, and modelled as the code has it.

- ADR-012 lets one reply of a human refine an Intent once: a second call of the
  turn with other content is to fail its hash check.  `stableCmoRequestId`
  (`apps/agent-cmo/agent/lib/runtime-access.ts:128`) hashes the content into the
  key, so the second call is another operation and refines again.  When a turn says
  X, Y and X, the last call gets the receipt of the first, and the Intent says Y.
- ADR-012 makes lateral work new work, which needs an active Intent and takes its
  latest snapshot.  `lateral-request.ts` copies the snapshot of the source, whose
  Intent may have been refined or abandoned since: `HandOn` in `WorkLedger`.
- A `request_specialist_work` call that is made again looks for its Intent again.
  When another one has become the only candidate, it gets `operation_conflict`, or
  is told that the target is ambiguous, and not its receipt.  A refinement looks
  for its receipt first.
- A lateral call that is made again after its source settled gets
  `task_not_running`, an output made again gets its receipt.
- A refinement that is made again while the first is under way may get
  `operation_conflict`.  `RetriesAreAnswered` is about calls made after the commit.

## The proofs

`tlapm` checks every leaf of the eight `...Proofs` modules with Z3, Zenon and LS4.
The theorems hold for every set of tasks, brands, drains, sessions, members,
ingestions, events, calls, keys and Intents, and every window, from the
assumptions of the modules: the inequalities above and the types of the constants
(`ConstantsAssumption`, `AskAssumption`, ...), and that SQL null is no value of a
column (`NoneAssumption`).  The bounds of the runs are constants too: the theorems
hold for each of their values.

**AgentTask.**  The safety invariants are not inductive by themselves.  `IInv`
adds what a row, a drain and a session look like, and the two facts that carry
the fence: `GenerationsBounded` (a claim still carried by a drain or a session is
no newer than the row's generation, and a row is back in the queue only a
`Window` after it) and `ClaimsExclusive` (a claim not sent yet has no session,
and no other drain).  A claim commits at most `ClaimLag < Window` after the clock
it read, so it is strictly newer than all of them (`ClaimFresh`); hence
`OneSessionPerGeneration`, and from it `AuthorityOfGeneration`.  Proved:
`TypeOK`, `AuthorityOfGeneration`, `OneSessionPerGeneration`,
`OutputsOfAuthority`, `CompletionMatchesOutputs`, `SettlementIsWhole`; the action
properties `AuthorityIsPermanent`, `OutcomeIsFinal`, `GenerationsIncrease`; and
that the lane implements `OneShotTask` and, by `StepLives`, `TaskLife`.

**Commitment.**  `IInv` adds the shape of rows and drains and three facts.
`DrainTimes`: what a drain read of the time, and its claim with it, is at most `Skew`
off.  `BatchIsStale`: a row selected as stale stays old enough, since a row is claimed
once in its life.  `AnswerFindsItsTask`: while an invocation may run, what it
holds is still running.  A holder of a stale row was born before the claim, hence
more than `StaleAfter - 2 * Skew > Lifetime` ago, so it is over (`StaleIsAbandoned`).
Proved: `TypeOK`, `AnswerFindsItsTask`, `OneProviderCall`,
`OnlyGrantedIsExecuted`, `OneOwnerPerTarget`, `OutcomeIsEvidence`; the action
property `NeverExecutedAgain`; `LastFactDecides`, with an invariant of its own,
`MemoryOrdered` (a fact is stamped as its clock allows, and the newest is no older than
the last); and that the lane implements `ApprovedEffect`.

**SessionCharges.**  `IInv` says what an ingestion keeps between its statements
(`TransactionShape`: the binding it checked still holds, since nobody updates a
shared row), that uncommitted rows have one writer, that what it reads is
committed and what it read is charged, about to be, or charged by another
(`ReadsAreCommitted`), that charges are inserted in the order of the sequence
(`ChargedInOrder`), and that the event of an ingestion decides what it does to the
task (`EventDecides`).  `ChargesWon` ties each ledger row to the read it came from,
which `SecondChargeUnseen` and `ModelOfItsSession` follow from.
Proved: `TypeOK`, `SecondChargeUnseen`, `BoundaryPaysInFull`,
`ModelOfItsSession`, `OnlySettlementDeadlocks` and the action property
`BoundOwnerRefusesOthers`.  The absence of deadlocks between inserts holds for
any number of ingestions: along a cycle the charge waited for has an ever higher
sequence, and a bounded set of numbers has a greatest member (`Greatest`, from
the well-foundedness of the naturals).

The refinement of `ChargeBook` rests on three facts.  The binding an ingestion
checked holds when it commits; the candidates of the plan are what is due in the
rows it saw, since each step has a latest attempt and each session that announced a
model a last announcement (`LatestExists`, by `Greatest`); and it commits when
nothing of them is left, with the settlement as its row stood under the lock.  From
the promise follow `OneWriter`, `ChargesHaveBoundaries` (no charge outlives an
ingestion that is rolled back: a boundary of its root is kept), `EndsHaveEvents` and
`BookIsKept`; each is inductive over the steps of `ChargeBook`, so that none of their
proofs meets a lock.  All of it holds for tasks and for conversations.

**WorkRequests.**  `IInv` says what each lock holds still: a key stands for nothing
while a call holds it (`OneOperation`), an Intent is active and of the expected
revision (`IntentIsHeld`), a source runs (`SourceIsHeld`), and the index has one
entry per subject, none under a pending insert (`OneTask`).  Each statement then
maps to a step of `WorkLedger`, most of them to none.  `DeadlocksAreKnown` follows
from `IInv` by the order of the locks: key, Intent or task, observed task, index.
In a cycle somebody waits for an Intent or a task, and the only lock that is taken
against that order is the look of a request at a task.  `WorkIsAsked` (a task goes back to
one request, is alone with its subject, hands on only with an output) and `WorkIsKept`
(what is written stays, work only goes forward) follow from the steps of `WorkLedger`,
and so do `TaskLife` and `IntentLife`.

**Intents.**  `IInv` has five parts: `Binding` (a conversation is bound once, to a
session of its own), `Authority` (who was admitted, and all that the CMO
committed, belongs to the bound session, which therefore never changes), `History`
(each revision is made from the one before by one call), `Flow` and `Repeating` (a
call that repeats another finds what the other found, since its receipt exists from
then on).  `RetriesAreAnswered` follows.  A sixth, `Seen`, is for the refinement of
`IntentLine`: what a form or a call has seen of an Intent is, or was, so.  The line of an
Intent is its committed calls by the revision they were about, which `History` makes a
sequence (`Lined`).  From the promise: an Intent shows the status and the content that
the last operations of its line leave (`IntentsShowTheirLine`), and who is told "ok" is
in the line, right after the revision it was about (`TellsWhatIsDone`).

**BrandContext.**  `ClaimsOrdered` carries the fence: the claim of everybody but the
last claimant is older than the row's, because a takeover happens `StaleAfter`
later by a clock that is at most `2 * Skew` off; so `updated_at` tells the
claimants apart, and equality of stamps is enough.  `ReadyIsWhole`, `SaveHolds` and
`VersionsHaveWriters` carry the refinement of `ContextHead`; from the promise follow
`ChainIsWhole` (each version was made from the one before by a task of its own, and the
last one is current) and `HistoryIsKept`.  Its tasks keep `TaskLife`.

**Connections.**  `Core` says who holds which lock and what it has seen; `Witnessed`
ties what a waiting call saw to what the slot has been, from which
`RefusalsAreTrue` follows.  `SomeoneMoves`, no deadlock among any number of calls,
is part of `IInv`: a call that holds the slot's row or its index entry waits for
nobody (`CallsNeverDeadlock`).  `KeyedSlots` gives two more: what a key stands for is
never changed and a connection is the work of the key it was asked with, and a slot
passes from one connection to another only through being empty
(`ConnectionsKeepTheirKeys`, `ConnectionsAreNotExchanged`).

**Policy.**  The decision is a function of the input, so the theorems are about the
operators: the most restrictive verdict exists and is monotone in the list, of any
length, and a snapshot selects again what it was made from.  Hence a list that
contains another decides no less strictly (`RestrictionsNarrow`), order and repetition
decide nothing (`OrderDecidesNothing`), a structure is valid or not and nothing else
(`StructureOnlyGates`), and an evaluation for an approval asks for no other
(`ApprovalDecides`).

In the two lanes and the charges, the refinements and the last action properties go
through one lemma, `StepEffect`: each step reduced to what rows can tell.  In the
modules of statements, `OwnStep` shows once what a step of one call leaves to all
the others, and a lemma per statement the rest.

The promises of the abstract specifications, `IntentLife`, and `TaskLife` but for
`BrandContext` are properties of no listed run; they were
checked with TLC on the instances of the runs before they were proved.

Model-checked only: the three liveness properties, whose proofs need ENABLED and
fairness, which the provers at hand do not reach; and `ReopenUnblocks`,
`DismissalBlocks` and `ReadsFindTheContext`, which are false.

## Not modelled

- Onboarding.  One transaction inserts the brand, its Intent, its receipt and its
  grant.  Before it, the authentication library creates the organization with
  inserts of its own, outside of this repository: what is left of a failure
  between them, and the two connections of one pool, are listed as hazards.
- Of the conversations, the insertion of the row, the cursor
  of the stream (kept as the greatest), the source task of a turn, and the recovery
  of a transcript, which reads a snapshot of the runtime.
- Dispatch.  A poke is the start of a drain, at any time, in `AgentTask` and
  `Commitment`.  The list of schedule templates is empty at this commit and nothing
  materialises an occurrence.
- Membership checks in all modules but `Connections`, and receipts in the two lanes
  (a refused or replayed call changes nothing).
- In `WorkRequests` and `BrandContext`, the check that an output is saved before the
  task's `completion` is staged (`specialist-object.ts:171`,
  `product-marketer-context.ts:198`), which `AgentTask` has: without it they allow
  more, and what they promise holds all the same.
- Payload contents and hashes (a hash is the identity of its payload), Artifacts,
  the `grant` and `action_charge` entries of the ledger, credentials and their
  delivery, the provider's HTTP exchange below "applied, refused or unknown".
- Read models, network adapters, authentication, pages, scripts and build files hold
  no state of the work graph.  They are most of the repository's lines.

## The plan

1. Onboarding, with the two inserts of the library as external actions and the pool
   as a counter; what a retry can still finish.
2. The recovery of a CMO conversation: the checkpoint of the cursor against the
   messages of a live stream, in `Conversations`.
3. The two lanes of one dispatch: what a throw in the human lane does to the agent
   lane that follows it.
4. Compositions: `SessionCharges` with `AgentTask` on the terminal event, where they
   share only the meaning of the row; `Commitment` with `Connections` on the
   connection an execution resolves; `WorkRequests` with `AgentTask` on the locks of
   the claim.
