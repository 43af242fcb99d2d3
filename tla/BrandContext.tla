---------------------------- MODULE BrandContext ----------------------------
(***************************************************************************)
(* The Brand Context of one brand: the application imports it once from    *)
(* the website, product-marketer tasks then replace it, and every other    *)
(* specialist reads it.                                                    *)
(*                                                                         *)
(* An import invocation claims the brand, works outside any transaction    *)
(* and commits or gives its claim back.  It may outlive its claim: after   *)
(* StaleAfter another invocation takes over, and brands.updated_at is what *)
(* tells the two apart.  Claim and commit hold the receipt lock of the one *)
(* operation key and the brand row, the recovery is one UPDATE: each is    *)
(* one action.  Every invocation stamps with the clock of its own machine, *)
(* up to Skew away from the time.                                          *)
(*                                                                         *)
(* A save locks the head, and other transactions meet that lock: it is two *)
(* actions, and so is a read FOR SHARE that has to wait for it.            *)
(***************************************************************************)
EXTENDS Integers, Sequences

CONSTANTS
    Imports,     \* concurrent invocations of importCanonicalBrandContext
    Tasks,       \* product-marketer tasks
    Sessions,    \* agent sessions started for them
    Readers,     \* concurrent reads of the head by other tasks
    StaleAfter,  \* CONTEXT_BOOTSTRAP_CLAIM_STALE_AFTER_MS
    Skew,        \* how far a machine's clock may be from the time
    MaxTime,     \* bound of the model: last value of the time
    MaxClaims,   \* bound of the model: claims of a task
    System,      \* system:context-dev
    None         \* SQL null

ASSUME ConstantsAssumption ==
    /\ StaleAfter \in Nat /\ Skew \in Nat /\ 2 * Skew < StaleAfter
    /\ MaxTime \in Nat /\ MaxClaims \in Nat
    /\ System \notin Tasks /\ None \notin Imports \cup Sessions

VARIABLES
    time,
    onboardingStatus, updatedAt, \* the brand row
    bootstrapped,  \* the Action context_bootstrapped exists: the receipt
    step, claimedAt, \* an import invocation: its step and the claim it holds
    claimant,      \* history: the invocation that claimed last
    head,          \* objects with the singleton key: versions in insertion order
    active,        \* those with status active
    saving,        \* the session whose save holds the head locked, or None
    generation, owner, result, ended, \* a task: claims so far, session, output, end
    origin,        \* a session: the claim it was started with
    sawHead, answer \* a read: the head it waits for, what it was given

brand   == <<onboardingStatus, updatedAt, bootstrapped>>
import  == <<step, claimedAt, claimant>>
objects == <<head, active>>
task    == <<generation, owner, result, ended>>
read    == <<sawHead, answer>>
vars    == <<time, brand, import, objects, saving, task, origin, read>>

Versions == 1..Len(head)

Init ==
    /\ time = 0
    /\ onboardingStatus = "incomplete" /\ updatedAt = 0 /\ bootstrapped = FALSE
    /\ step = [i \in Imports |-> "idle"]
    /\ claimedAt = [i \in Imports |-> 0]
    /\ claimant = None
    /\ head = <<>> /\ active = {}
    /\ saving = None
    /\ generation = [t \in Tasks |-> 0]
    /\ owner = [t \in Tasks |-> None]
    /\ result = [t \in Tasks |-> 0]
    /\ ended = [t \in Tasks |-> FALSE]
    /\ origin = [s \in Sessions |-> None]
    /\ sawHead = [r \in Readers |-> 0]
    /\ answer = [r \in Readers |-> 0]

Tick ==
    /\ time < MaxTime
    /\ time' = time + 1
    /\ UNCHANGED <<brand, import, objects, saving, task, origin, read>>

\* What new Date() may return.
Clock == ((time - Skew)..(time + Skew)) \cap Nat
-----------------------------------------------------------------------------
(* The import: importCanonicalBrandContext and its three transactions.     *)

\* Mutant of StillFresh: the claim of a live invocation is taken over at once.
NeverFresh(c) == FALSE

\* An import claimed at updatedAt is still respected at c.
StillFresh(c) == onboardingStatus = "importing" /\ c - updatedAt < StaleAfter

\* claimContextBootstrap, but for a replay, which returns the receipt.
ClaimContextBootstrap(i) ==
    /\ step[i] = "idle"
    /\ ~bootstrapped
    /\ onboardingStatus # "ready"
    /\ active = {}
    /\ \E c \in Clock :
         /\ ~StillFresh(c)
         /\ onboardingStatus' = "importing"
         /\ updatedAt' = c
         /\ step' = [step EXCEPT ![i] = "claimed"]
         /\ claimedAt' = [claimedAt EXCEPT ![i] = c]
         /\ claimant' = i
    /\ UNCHANGED <<time, bootstrapped, objects, saving, task, origin, read>>

\* The provider, an asset or the input's schema fails the import.
ImportThrows(i) ==
    /\ step[i] = "claimed"
    /\ step' = [step EXCEPT ![i] = "failed"]
    /\ UNCHANGED <<time, brand, claimedAt, claimant, objects, saving, task, origin, read>>

\* Mutant of Authoritative: the status alone is compared.
AnyImporting(i) == onboardingStatus = "importing"

\* The claim of i is the one the brand row carries.
Authoritative(i) == onboardingStatus = "importing" /\ updatedAt = claimedAt[i]

\* commitContextBootstrap.  Its caller may be told of a failure although
\* the transaction committed.
CommitContextBootstrap(i) ==
    /\ step[i] = "claimed"
    /\ ~bootstrapped /\ Authoritative(i) /\ active = {}
    /\ bootstrapped' = TRUE
    /\ head' = Append(head, [by |-> System, from |-> 0])
    /\ active' = {Len(head) + 1}
    /\ onboardingStatus' = "ready"
    /\ \E c \in Clock : updatedAt' = c
    /\ \E told \in {"idle", "failed"} : step' = [step EXCEPT ![i] = told]
    /\ UNCHANGED <<time, claimedAt, claimant, saving, task, origin, read>>

\* The commit is refused, unless it replays the receipt.
CommitRefused(i) ==
    /\ step[i] = "claimed"
    /\ \/ bootstrapped /\ step' = [step EXCEPT ![i] = "idle"]
       \/ /\ ~bootstrapped /\ ~(Authoritative(i) /\ active = {})
          /\ step' = [step EXCEPT ![i] = "failed"]
    /\ UNCHANGED <<time, brand, claimedAt, claimant, objects, saving, task, origin, read>>

\* recoverContextBootstrapClaim.  The schema's $onUpdate stamps updated_at.
RecoverContextBootstrapClaim(i) ==
    /\ step[i] = "failed"
    /\ IF Authoritative(i)
       THEN /\ onboardingStatus' = "incomplete"
            /\ \E c \in Clock : updatedAt' = c
       ELSE UNCHANGED <<onboardingStatus, updatedAt>>
    /\ step' = [step EXCEPT ![i] = "idle"]
    /\ UNCHANGED <<time, bootstrapped, claimedAt, claimant, objects, saving, task, origin, read>>

\* The invocation is lost, or its recovery fails.
ImportLost(i) ==
    /\ step[i] \in {"claimed", "failed"}
    /\ step' = [step EXCEPT ![i] = "idle"]
    /\ UNCHANGED <<time, brand, claimedAt, claimant, objects, saving, task, origin, read>>

ImportStep(i) ==
    \/ ClaimContextBootstrap(i) \/ ImportThrows(i) \/ CommitContextBootstrap(i)
    \/ CommitRefused(i) \/ RecoverContextBootstrapClaim(i) \/ ImportLost(i)
-----------------------------------------------------------------------------
(* The product marketer.  AgentTask models the lane of its tasks in full;  *)
(* here a task is claimed, perhaps again while no session is bound, bound  *)
(* to one session of its last claim, and ends.                             *)

\* Mutant of RowFree: a settlement does not wait for the row of its task.
RowAlwaysFree(t) == TRUE

\* No transaction holds the row of task t.
RowFree(t) == IF saving = None THEN TRUE ELSE origin[saving].task # t

\* A claim loads the active head FOR SHARE in its transaction, and a session
\* is started with it, or never.  A claim that finds no head rolls back.
ClaimTask(t) ==
    /\ owner[t] = None /\ ~ended[t]
    /\ generation[t] < MaxClaims
    /\ saving = None
    /\ \E v \in active :
         \/ UNCHANGED origin
         \/ \E s \in Sessions :
              /\ origin[s] = None
              /\ origin' = [origin EXCEPT ![s] =
                              [task |-> t, gen |-> generation[t] + 1, head |-> v]]
    /\ generation' = [generation EXCEPT ![t] = @ + 1]
    /\ UNCHANGED <<time, brand, import, objects, saving, owner, result, ended, read>>

BindTaskSession(s) ==
    /\ origin[s] # None
    /\ LET t == origin[s].task IN
         /\ owner[t] = None /\ ~ended[t] /\ generation[t] = origin[s].gen
         /\ owner' = [owner EXCEPT ![t] = s]
    /\ UNCHANGED <<time, brand, import, objects, saving, generation, result, ended, origin, read>>

\* The session settles the task, or the task is cancelled or fails.
EndTask(t) ==
    /\ generation[t] > 0 /\ ~ended[t] /\ RowFree(t)
    /\ ended' = [ended EXCEPT ![t] = TRUE]
    /\ UNCHANGED <<time, brand, import, objects, saving, generation, owner, result, origin, read>>

\* Mutant of ExpectedHead: whatever head is there is superseded.
AnyHead(s) == active # {}

\* The head is the one the session's task was claimed with.
ExpectedHead(s) == active = {origin[s].head}

\* produceProductMarketerContext up to its commit: the task row and the
\* head are locked, the head marked superseded, the new version inserted.
SaveBrandContext(s) ==
    /\ origin[s] # None /\ saving = None
    /\ LET t == origin[s].task IN
         /\ owner[t] = s /\ generation[t] = origin[s].gen
         /\ ~ended[t] /\ result[t] = 0
    /\ ExpectedHead(s)
    /\ saving' = s
    /\ UNCHANGED <<time, brand, import, objects, task, origin, read>>

CommitSave(s) ==
    /\ saving = s
    /\ head' = Append(head, [by |-> origin[s].task, from |-> origin[s].head])
    /\ active' = {Len(head) + 1}
    /\ result' = [result EXCEPT ![origin[s].task] = Len(head) + 1]
    /\ saving' = None
    /\ UNCHANGED <<time, brand, import, generation, owner, ended, origin, read>>

RollbackSave(s) ==
    /\ saving = s
    /\ saving' = None
    /\ UNCHANGED <<time, brand, import, objects, task, origin, read>>

SessionStep(s) ==
    BindTaskSession(s) \/ SaveBrandContext(s) \/ CommitSave(s) \/ RollbackSave(s)
-----------------------------------------------------------------------------
(* loadActiveBrandContext, in a claim or for the tool get_brand_context.   *)

\* A read that meets the lock of a save waits with the version it saw.
ReadHead(r) ==
    /\ sawHead[r] = 0
    /\ \E v \in active :
         IF saving = None
         THEN answer' = [answer EXCEPT ![r] = v] /\ UNCHANGED sawHead
         ELSE sawHead' = [sawHead EXCEPT ![r] = v] /\ answer' = [answer EXCEPT ![r] = 0]
    /\ UNCHANGED <<time, brand, import, objects, saving, task, origin>>

\* The row a reader waited for is looked at again when it is released.
StillActive(v) == v \in active

\* Once released, the version is given if it is still active.  Otherwise
\* nothing is, and the call fails: the version that replaced it is younger
\* than the statement.
ReadReleased(r) ==
    /\ sawHead[r] # 0 /\ saving = None
    /\ answer' = [answer EXCEPT ![r] = IF StillActive(sawHead[r]) THEN sawHead[r] ELSE 0]
    /\ sawHead' = [sawHead EXCEPT ![r] = 0]
    /\ UNCHANGED <<time, brand, import, objects, saving, task, origin>>

Next ==
    \/ Tick
    \/ \E i \in Imports : ImportStep(i)
    \/ \E t \in Tasks : ClaimTask(t) \/ EndTask(t)
    \/ \E s \in Sessions : SessionStep(s)
    \/ \E r \in Readers : ReadHead(r) \/ ReadReleased(r)

Spec == Init /\ [][Next]_vars
-----------------------------------------------------------------------------
(* Properties.                                                             *)

Live(i) == step[i] \in {"claimed", "failed"}
Origin == [task : Tasks, gen : Nat, head : Nat]

TypeOK ==
    /\ time \in Nat /\ updatedAt \in Nat /\ bootstrapped \in BOOLEAN
    /\ onboardingStatus \in {"incomplete", "importing", "ready"}
    /\ step \in [Imports -> {"idle", "claimed", "failed"}]
    /\ claimedAt \in [Imports -> Nat]
    /\ claimant \in Imports \cup {None}
    /\ head \in Seq([by : Tasks \cup {System}, from : Nat])
    /\ active \in SUBSET Nat
    /\ saving \in Sessions \cup {None}
    /\ generation \in [Tasks -> Nat]
    /\ owner \in [Tasks -> Sessions \cup {None}]
    /\ result \in [Tasks -> Nat]
    /\ ended \in [Tasks -> BOOLEAN]
    /\ origin \in [Sessions -> Origin \cup {None}]
    /\ sawHead \in [Readers -> Nat] /\ answer \in [Readers -> Nat]

\* The claim of every invocation but the last claimant is StaleAfter old
\* by the clock of whoever took over, and older than the brand row's.
ClaimsOrdered ==
    /\ \A i \in Imports : Live(i) =>
         /\ claimedAt[i] <= time + Skew
         /\ i # claimant => claimedAt[i] + StaleAfter <= time + Skew
         /\ i = claimant => onboardingStatus # "incomplete"
    /\ onboardingStatus = "importing" =>
         /\ claimant # None
         /\ \A i \in Imports : Live(i) =>
              IF i = claimant THEN claimedAt[i] = updatedAt ELSE claimedAt[i] < updatedAt

\* The brand is ready when its receipt exists, when it has a Brand Context.
ReadyIsWhole ==
    /\ (onboardingStatus = "ready") <=> bootstrapped
    /\ (head # <<>>) <=> bootstrapped
    /\ active = IF head = <<>> THEN {} ELSE {Len(head)}

\* What a save relies on between its lock and its commit.
SaveHolds ==
    saving # None =>
        /\ origin[saving] # None
        /\ owner[origin[saving].task] = saving
        /\ ~ended[origin[saving].task] /\ result[origin[saving].task] = 0
        /\ active = {origin[saving].head}

\* A version is written by the import, the first, or by the task whose
\* output it is, the others.
VersionsHaveWriters ==
    \A v \in Versions :
        IF v = 1 THEN head[v].by = System
        ELSE head[v].by \in Tasks /\ result[head[v].by] = v

\* The inductive invariant.
IInv == TypeOK /\ ClaimsOrdered /\ ReadyIsWhole /\ SaveHolds /\ VersionsHaveWriters

\* Only the invocation that claimed last commits a Brand Context or gives
\* the brand back: one whose claim was taken over while it fetched does
\* neither, whatever the clocks said.
ClaimIsFenced ==
    [][onboardingStatus = "importing" /\ onboardingStatus' # "importing" =>
         claimant # None /\ Live(claimant) /\ step'[claimant] # step[claimant]]_vars

\* A read of a brand that has a Brand Context finds it (ARCHITECTURE.md: one
\* active Object, an unambiguous result).  Not so: a read that waited for a
\* save finds neither the version it saw nor the one that replaced it.
ReadsFindTheContext ==
    [][\A r \in Readers :
         sawHead[r] # 0 /\ sawHead'[r] = 0 /\ active # {} => answer'[r] # 0]_vars

\* See ContextHead.
Chain == INSTANCE ContextHead WITH Writers <- Tasks, chain <- head, current <- active

\* The claims, takeovers, saves and their locks implement a chain of
\* versions: one import, then replacements of the version they were
\* computed from, one per task.
ImplementsContextHead == Chain!Spec

\* See TaskLife.
LifeOf == [t \in Tasks |-> IF ended[t] THEN "ended" ELSE IF owner[t] # None THEN "bound" ELSE "waiting"]

Life == INSTANCE TaskLife WITH
    Outputs <- Nat \ {0}, Nothing <- 0, state <- LifeOf, output <- result

\* The product marketer's tasks live as the lane's do.
ImplementsTaskLife == Life!Spec
=============================================================================
