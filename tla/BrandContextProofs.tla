------------------------- MODULE BrandContextProofs -------------------------
(***************************************************************************)
(* Proofs about BrandContext for every set of invocations, tasks, sessions *)
(* and readers, every stale window wider than two clock errors.            *)
(***************************************************************************)
EXTENDS BrandContext, TLAPS

USE DEF ConstantsAssumption, brand, import, objects, task, read, Versions


-----------------------------------------------------------------------------
(* Time and the import.                                                    *)

LEMMA TickStep ==
  ASSUME IInv, Tick
  PROVE  IInv'
<1> USE DEF IInv, Tick
<1>1. time \in Nat /\ time' = time + 1
  BY DEF TypeOK
<1>2. TypeOK'
  BY <1>1 DEF TypeOK
<1>3. ClaimsOrdered'
  <2>1. \A i \in Imports : claimedAt[i] \in Nat
    BY DEF TypeOK
  <2> QED BY <1>1, <2>1, ConstantsAssumption DEF ClaimsOrdered, Live
<1>4. ReadyIsWhole' /\ SaveHolds' /\ VersionsHaveWriters'
  BY DEF ReadyIsWhole, SaveHolds, VersionsHaveWriters
<1> QED BY <1>2, <1>3, <1>4

\* A claim is stamped later than every claim of another invocation, which
\* is StaleAfter old by now.
LEMMA ClaimStep ==
  ASSUME IInv, NEW i \in Imports, ClaimContextBootstrap(i)
  PROVE  IInv'
<1> USE DEF IInv, ClaimContextBootstrap
<1>1. PICK c \in Clock :
        /\ ~StillFresh(c) /\ onboardingStatus' = "importing" /\ updatedAt' = c
        /\ step' = [step EXCEPT ![i] = "claimed"]
        /\ claimedAt' = [claimedAt EXCEPT ![i] = c] /\ claimant' = i
  OBVIOUS
<1>2. c \in Nat /\ time - Skew <= c /\ c <= time + Skew /\ time \in Nat /\ updatedAt \in Nat
  BY ConstantsAssumption DEF Clock, TypeOK
<1>3. TypeOK'
  BY <1>1, <1>2 DEF TypeOK
<1>4. ASSUME NEW j \in Imports, Live(j), j # i
      PROVE  claimedAt[j] + StaleAfter <= time + Skew
  <2>1. CASE j # claimant
    BY <1>4, <2>1 DEF ClaimsOrdered
  <2>2. CASE j = claimant
    <3>1. onboardingStatus = "importing"
      BY <1>4, <2>2 DEF ClaimsOrdered, TypeOK
    <3>2. claimedAt[j] = updatedAt
      BY <1>4, <2>2, <3>1 DEF ClaimsOrdered
    <3>3. c - updatedAt >= StaleAfter
      BY <1>1, <1>2, <3>1, ConstantsAssumption DEF StillFresh
    <3> QED BY <1>2, <3>2, <3>3, ConstantsAssumption
  <2> QED BY <2>1, <2>2
<1>5. ClaimsOrdered'
  <2>1. ASSUME NEW j \in Imports, Live(j)', j # i
        PROVE  /\ claimedAt'[j] = claimedAt[j] /\ claimedAt[j] \in Nat
               /\ claimedAt[j] + StaleAfter <= time + Skew /\ claimedAt[j] < c
    <3>1. claimedAt'[j] = claimedAt[j] /\ claimedAt[j] \in Nat /\ Live(j)
      BY <1>1, <2>1 DEF TypeOK, Live
    <3>2. claimedAt[j] + StaleAfter <= time + Skew
      BY <1>4, <2>1, <3>1
    <3> QED BY <1>2, <3>1, <3>2, ConstantsAssumption
  <2>2. claimedAt'[i] = c /\ step'[i] = "claimed"
    BY <1>1 DEF TypeOK
  <2>3. \A j \in Imports : Live(j)' => claimedAt'[j] <= time' + Skew
    BY <1>2, <2>1, <2>2, ConstantsAssumption
  <2>4. \A j \in Imports : Live(j)' /\ j # claimant' => claimedAt'[j] + StaleAfter <= time' + Skew
    BY <1>1, <2>1
  <2>5. \A j \in Imports : Live(j)' =>
          IF j = claimant' THEN claimedAt'[j] = updatedAt' ELSE claimedAt'[j] < updatedAt'
    BY <1>1, <2>1, <2>2
  <2> QED BY <1>1, <2>3, <2>4, <2>5, ConstantsAssumption DEF ClaimsOrdered
<1>6. ReadyIsWhole'
  BY <1>1 DEF ReadyIsWhole
<1>7. SaveHolds' /\ VersionsHaveWriters'
  BY DEF SaveHolds, VersionsHaveWriters
<1> QED BY <1>3, <1>5, <1>6, <1>7

\* An invocation that moves on without touching the brand row.
LEMMA QuietStep ==
  ASSUME IInv, NEW i \in Imports, Live(i), NEW next \in {"idle", "failed"},
         step' = [step EXCEPT ![i] = next],
         UNCHANGED <<time, brand, claimedAt, claimant, objects, saving, task, origin, read>>
  PROVE  IInv'
<1> USE DEF IInv
<1>1. TypeOK'
  BY DEF TypeOK
<1>2. \A j \in Imports : Live(j)' => Live(j)
  BY DEF Live, TypeOK
<1>3. ClaimsOrdered'
  BY <1>2 DEF ClaimsOrdered
<1>4. ReadyIsWhole' /\ SaveHolds' /\ VersionsHaveWriters'
  BY DEF ReadyIsWhole, SaveHolds, VersionsHaveWriters
<1> QED BY <1>1, <1>3, <1>4

\* Whoever carries the brand row's stamp claimed last.
LEMMA AuthorityIsClaimant ==
  ASSUME IInv, NEW i \in Imports, Live(i), Authoritative(i)
  PROVE  i = claimant /\ ~bootstrapped /\ head = <<>> /\ active = {} /\ saving = None
<1>1. i = claimant
  BY DEF IInv, TypeOK, ClaimsOrdered, Authoritative
<1>2. ~bootstrapped /\ head = <<>> /\ active = {}
  BY DEF IInv, ReadyIsWhole, Authoritative
<1>3. saving = None
  BY <1>2 DEF IInv, SaveHolds
<1> QED BY <1>1, <1>2, <1>3

LEMMA CommitStep ==
  ASSUME IInv, NEW i \in Imports, CommitContextBootstrap(i)
  PROVE  IInv'
<1> USE DEF IInv, CommitContextBootstrap
<1>1. PICK c \in Clock, told \in {"idle", "failed"} :
        updatedAt' = c /\ step' = [step EXCEPT ![i] = told]
  OBVIOUS
<1>2. Live(i) /\ Authoritative(i)
  BY DEF Live
<1>3. i = claimant /\ head = <<>> /\ saving = None
  BY <1>2, AuthorityIsClaimant
<1>4. head' = <<[by |-> System, from |-> 0]>> /\ active' = {1} /\ c \in Nat
  BY <1>3 DEF Clock
<1>5. TypeOK'
  BY <1>1, <1>4 DEF TypeOK
<1>6. ClaimsOrdered'
  <2>1. \A j \in Imports : Live(j)' => Live(j)
    BY <1>1 DEF Live, TypeOK
  <2> QED BY <2>1 DEF ClaimsOrdered
<1>7. ReadyIsWhole' /\ SaveHolds' /\ VersionsHaveWriters'
  BY <1>3, <1>4 DEF ReadyIsWhole, SaveHolds, VersionsHaveWriters
<1> QED BY <1>5, <1>6, <1>7

LEMMA RecoverStep ==
  ASSUME IInv, NEW i \in Imports, RecoverContextBootstrapClaim(i)
  PROVE  IInv'
<1> USE DEF RecoverContextBootstrapClaim
<1>1. Live(i)
  BY DEF Live
<1>2. CASE ~Authoritative(i)
  BY <1>1, <1>2, QuietStep
<1>3. CASE Authoritative(i)
  <2>1. PICK c \in Clock : updatedAt' = c
    BY <1>3
  <2>2. c \in Nat /\ onboardingStatus' = "incomplete"
    BY <1>3 DEF Clock
  <2>3. i = claimant /\ ~bootstrapped
    BY <1>1, <1>3, AuthorityIsClaimant
  <2>4. TypeOK'
    BY <2>1, <2>2 DEF IInv, TypeOK
  <2>5. ClaimsOrdered'
    <3>1. \A j \in Imports : Live(j)' => Live(j) /\ j # claimant
      BY <2>3 DEF Live, IInv, TypeOK
    <3> QED BY <2>2, <3>1 DEF IInv, ClaimsOrdered
  <2>6. ReadyIsWhole' /\ SaveHolds' /\ VersionsHaveWriters'
    BY <2>2, <2>3 DEF IInv, ReadyIsWhole, SaveHolds, VersionsHaveWriters
  <2> QED BY <2>4, <2>5, <2>6 DEF IInv
<1> QED BY <1>2, <1>3

LEMMA ImportSteps ==
  ASSUME IInv, NEW i \in Imports, ImportStep(i)
  PROVE  IInv'
<1>1. CASE ClaimContextBootstrap(i)
  BY <1>1, ClaimStep
<1>2. CASE ImportThrows(i) \/ CommitRefused(i) \/ ImportLost(i)
  <2>1. PICK next \in {"idle", "failed"} : step' = [step EXCEPT ![i] = next]
    BY <1>2 DEF ImportThrows, CommitRefused, ImportLost
  <2> QED BY <1>2, <2>1, QuietStep DEF ImportThrows, CommitRefused, ImportLost, Live
<1>3. CASE CommitContextBootstrap(i)
  BY <1>3, CommitStep
<1>4. CASE RecoverContextBootstrapClaim(i)
  BY <1>4, RecoverStep
<1> QED BY <1>1, <1>2, <1>3, <1>4 DEF ImportStep
-----------------------------------------------------------------------------
(* The tasks, the saves and the reads.                                     *)

\* The claims and the brand are out of the reach of tasks and sessions.
LEMMA ClaimsUntouched ==
  ASSUME IInv, UNCHANGED <<time, brand, import>>
  PROVE  ClaimsOrdered'
BY DEF IInv, ClaimsOrdered, Live

LEMMA TaskStep ==
  ASSUME IInv, NEW t \in Tasks, ClaimTask(t) \/ EndTask(t)
  PROVE  IInv'
<1>1. ClaimsOrdered' /\ ReadyIsWhole'
  BY ClaimsUntouched DEF ClaimTask, EndTask, IInv, ReadyIsWhole
<1>2. CASE ClaimTask(t)
  <2>1. TypeOK'
    <3>1. PICK v \in active :
            \/ UNCHANGED origin
            \/ \E s \in Sessions : origin' = [origin EXCEPT ![s] =
                 [task |-> t, gen |-> generation[t] + 1, head |-> v]]
      BY <1>2 DEF ClaimTask
    <3>2. v \in Nat /\ generation[t] \in Nat
      BY DEF IInv, TypeOK
    <3>3. [task |-> t, gen |-> generation[t] + 1, head |-> v] \in Origin
      BY <3>2 DEF Origin
    <3>4. origin' \in [Sessions -> Origin \cup {None}]
      BY <3>1, <3>3 DEF IInv, TypeOK
    <3> QED BY <1>2, <3>4 DEF ClaimTask, IInv, TypeOK
  <2>2. SaveHolds' /\ VersionsHaveWriters'
    BY <1>2 DEF ClaimTask, IInv, SaveHolds, VersionsHaveWriters
  <2> QED BY <1>1, <2>1, <2>2 DEF IInv
<1>3. CASE EndTask(t)
  <2>1. TypeOK' /\ VersionsHaveWriters'
    BY <1>3 DEF EndTask, IInv, TypeOK, VersionsHaveWriters
  <2>2. SaveHolds'
    <3>1. saving # None => origin[saving].task # t
      BY <1>3 DEF EndTask, RowFree
    <3> QED BY <1>3, <3>1 DEF EndTask, IInv, TypeOK, SaveHolds
  <2> QED BY <1>1, <2>1, <2>2 DEF IInv
<1> QED BY <1>2, <1>3

LEMMA BindStep ==
  ASSUME IInv, NEW s \in Sessions, BindTaskSession(s)
  PROVE  IInv'
<1> USE DEF BindTaskSession
<1>1. ClaimsOrdered' /\ ReadyIsWhole'
  BY ClaimsUntouched DEF IInv, ReadyIsWhole
<1>2. PICK t \in Tasks : owner[t] = None /\ owner' = [owner EXCEPT ![t] = s]
  BY DEF IInv, TypeOK, Origin
<1>3. TypeOK' /\ VersionsHaveWriters'
  <2>1. owner' \in [Tasks -> Sessions \cup {None}]
    BY <1>2 DEF IInv, TypeOK
  <2>2. UNCHANGED <<time, brand, import, objects, saving, generation, result, ended, origin, read>>
    OBVIOUS
  <2> QED BY <2>1, <2>2 DEF IInv, TypeOK, VersionsHaveWriters
<1>4. SaveHolds'
  BY <1>2 DEF IInv, TypeOK, SaveHolds
<1> QED BY <1>1, <1>3, <1>4 DEF IInv

LEMMA LockStep ==
  ASSUME IInv, NEW s \in Sessions, SaveBrandContext(s) \/ RollbackSave(s)
  PROVE  IInv'
<1> USE DEF SaveBrandContext, RollbackSave, ExpectedHead
<1>1. ClaimsOrdered' /\ ReadyIsWhole'
  BY ClaimsUntouched DEF IInv, ReadyIsWhole
<1>2. TypeOK' /\ VersionsHaveWriters'
  BY DEF IInv, TypeOK, VersionsHaveWriters
<1>3. SaveHolds'
  BY DEF IInv, SaveHolds
<1> QED BY <1>1, <1>2, <1>3 DEF IInv

\* What the commit of a save finds: the head its session read is the last
\* version, and its task has written none.
LEMMA SaveFinds ==
  ASSUME IInv, NEW s \in Sessions, saving = s
  PROVE  /\ origin[s] \in Origin /\ origin[s].task \in Tasks
         /\ head # <<>> /\ Len(head) \in Nat /\ origin[s].head = Len(head)
         /\ bootstrapped /\ result[origin[s].task] = 0
         /\ \A v \in Versions : head[v].by # origin[s].task
<1>1. s # None /\ origin[s] \in Origin
  BY ConstantsAssumption DEF IInv, TypeOK, SaveHolds
<1>2. origin[s].task \in Tasks /\ result[origin[s].task] = 0 /\ active = {origin[s].head}
  BY <1>1 DEF IInv, SaveHolds, Origin
<1>3. head # <<>> /\ active = {Len(head)} /\ bootstrapped
  BY <1>2 DEF IInv, ReadyIsWhole
<1>4. Len(head) \in Nat
  BY DEF IInv, TypeOK
<1>5. \A v \in Versions : head[v].by # origin[s].task
  <2> SUFFICES ASSUME NEW v \in Versions, head[v].by = origin[s].task
               PROVE  FALSE
    OBVIOUS
  <2>1. v # 1
    BY <1>2, ConstantsAssumption DEF IInv, VersionsHaveWriters
  <2>2. result[head[v].by] = v /\ v # 0
    BY <1>4, <2>1 DEF IInv, VersionsHaveWriters
  <2> QED BY <1>2, <2>2
<1> QED BY <1>1, <1>2, <1>3, <1>4, <1>5

LEMMA CommitSaveStep ==
  ASSUME IInv, NEW s \in Sessions, CommitSave(s)
  PROVE  IInv'
<1> USE DEF CommitSave
<1> DEFINE t == origin[s].task
<1>1. /\ origin[s] \in Origin /\ t \in Tasks /\ head # <<>> /\ Len(head) \in Nat
      /\ origin[s].head = Len(head) /\ bootstrapped /\ result[t] = 0
      /\ \A v \in Versions : head[v].by # t
  BY SaveFinds
<1>2. [by |-> t, from |-> origin[s].head] \in [by : Tasks \cup {System}, from : Nat]
  BY <1>1
<1>3. /\ head' \in Seq([by : Tasks \cup {System}, from : Nat])
      /\ Len(head') = Len(head) + 1 /\ head'[Len(head) + 1].by = t
      /\ \A v \in Versions : head'[v] = head[v]
  BY <1>1, <1>2 DEF IInv, TypeOK
<1>4. result' = [result EXCEPT ![t] = Len(head) + 1] /\ result \in [Tasks -> Nat]
  BY DEF IInv, TypeOK
<1> HIDE DEF t
<1>5. TypeOK'
  BY <1>1, <1>3, <1>4 DEF IInv, TypeOK
<1>6. ClaimsOrdered'
  BY ClaimsUntouched
<1>7. ReadyIsWhole'
  BY <1>1, <1>3 DEF IInv, ReadyIsWhole
<1>8. SaveHolds'
  BY DEF SaveHolds
<1>9. VersionsHaveWriters'
  <2> SUFFICES ASSUME NEW v \in 1..Len(head')
               PROVE  IF v = 1 THEN head'[v].by = System
                      ELSE head'[v].by \in Tasks /\ result'[head'[v].by] = v
    BY DEF VersionsHaveWriters
  <2>1. CASE v = Len(head) + 1
    <3>1. v # 1
      BY <1>1, <2>1 DEF IInv, TypeOK
    <3> QED BY <1>1, <1>3, <1>4, <2>1, <3>1
  <2>2. CASE v # Len(head) + 1
    <3>1. v \in Versions /\ head'[v] = head[v] /\ head[v].by # t
      BY <1>1, <1>3, <2>2
    <3>2. IF v = 1 THEN head[v].by = System ELSE head[v].by \in Tasks /\ result[head[v].by] = v
      BY <3>1 DEF IInv, VersionsHaveWriters
    <3> QED BY <1>4, <3>1, <3>2
  <2> QED BY <2>1, <2>2
<1> QED BY <1>5, <1>6, <1>7, <1>8, <1>9 DEF IInv

LEMMA ReadStep ==
  ASSUME IInv, NEW r \in Readers, ReadHead(r) \/ ReadReleased(r)
  PROVE  IInv'
<1> USE DEF ReadHead, ReadReleased
<1>1. ClaimsOrdered' /\ ReadyIsWhole'
  BY ClaimsUntouched DEF IInv, ReadyIsWhole
<1>2. SaveHolds' /\ VersionsHaveWriters'
  BY DEF IInv, SaveHolds, VersionsHaveWriters
<1>3. TypeOK'
  <2>1. \A v \in active : v \in Nat
    BY DEF IInv, TypeOK
  <2>2. PICK w \in Nat, a \in Nat : /\ sawHead' = sawHead \/ sawHead' = [sawHead EXCEPT ![r] = w]
                                    /\ answer' = [answer EXCEPT ![r] = a]
    BY <2>1 DEF IInv, TypeOK
  <2>3. sawHead' \in [Readers -> Nat] /\ answer' \in [Readers -> Nat]
    BY <2>2 DEF IInv, TypeOK
  <2> QED BY <2>3 DEF IInv, TypeOK
<1> QED BY <1>1, <1>2, <1>3 DEF IInv

LEMMA NextStep ==
  ASSUME IInv, [Next]_vars
  PROVE  IInv'
<1>1. CASE Tick
  BY <1>1, TickStep
<1>2. CASE \E i \in Imports : ImportStep(i)
  BY <1>2, ImportSteps
<1>3. CASE \E t \in Tasks : ClaimTask(t) \/ EndTask(t)
  BY <1>3, TaskStep
<1>4. CASE \E s \in Sessions : SessionStep(s)
  BY <1>4, BindStep, LockStep, CommitSaveStep DEF SessionStep
<1>5. CASE \E r \in Readers : ReadHead(r) \/ ReadReleased(r)
  BY <1>5, ReadStep
<1>6. CASE UNCHANGED vars
  <2> USE <1>6 DEF vars, IInv
  <2>1. TypeOK' /\ ReadyIsWhole' /\ SaveHolds' /\ VersionsHaveWriters'
    BY DEF TypeOK, ReadyIsWhole, SaveHolds, VersionsHaveWriters
  <2> QED BY <2>1, ClaimsUntouched
<1> QED BY <1>1, <1>2, <1>3, <1>4, <1>5, <1>6 DEF Next

LEMMA InitHolds ==
  ASSUME Init
  PROVE  IInv
<1> USE DEF Init
<1>1. TypeOK
  <2>1. bootstrapped \in BOOLEAN /\ ended \in [Tasks -> BOOLEAN]
    BY Zenon
  <2>2. head \in Seq([by : Tasks \cup {System}, from : Nat])
    OBVIOUS
  <2> QED BY <2>1, <2>2 DEF TypeOK
<1>2. ClaimsOrdered
  BY DEF ClaimsOrdered, Live
<1>3. ReadyIsWhole /\ SaveHolds /\ VersionsHaveWriters
  BY DEF ReadyIsWhole, SaveHolds, VersionsHaveWriters
<1> QED BY <1>1, <1>2, <1>3 DEF IInv
-----------------------------------------------------------------------------
(* The theorems.                                                           *)

\* Whatever clocks, takeovers and overlaps there are, claims stay ordered
\* by their stamps, the brand is ready exactly when it has its receipt and
\* its Brand Context, and versions keep their writers.
THEOREM InductiveInvariant == Spec => []IInv
<1>1. Init => IInv
  BY InitHolds
<1>2. IInv /\ [Next]_vars => IInv'
  BY NextStep
<1> QED BY <1>1, <1>2, PTL DEF Spec

\* An invocation whose claim was taken over neither commits the Brand
\* Context nor gives the brand back.
THEOREM Fenced == Spec => ClaimIsFenced
<1> DEFINE Fence == onboardingStatus = "importing" /\ onboardingStatus' # "importing" =>
                        claimant # None /\ Live(claimant) /\ step'[claimant] # step[claimant]
<1>1. ASSUME IInv, [Next]_vars, onboardingStatus = "importing", onboardingStatus' # "importing"
      PROVE  claimant # None /\ Live(claimant) /\ step'[claimant] # step[claimant]
  <2>1. PICK i \in Imports : CommitContextBootstrap(i) \/ RecoverContextBootstrapClaim(i)
    BY <1>1 DEF Next, vars, Tick, ImportStep, ClaimContextBootstrap, ImportThrows, CommitRefused,
       ImportLost, ClaimTask, EndTask, SessionStep, BindTaskSession, SaveBrandContext, CommitSave,
       RollbackSave, ReadHead, ReadReleased
  <2>2. Live(i) /\ Authoritative(i) /\ step'[i] # step[i]
    BY <1>1, <2>1 DEF CommitContextBootstrap, RecoverContextBootstrapClaim, Live, IInv, TypeOK
  <2>3. i = claimant
    BY <1>1, <2>2, AuthorityIsClaimant
  <2> QED BY <2>2, <2>3, ConstantsAssumption
<1>2. IInv /\ [Next]_vars => [Fence]_vars
  BY <1>1
<1>3. Spec => [][Fence]_vars
  BY <1>2, InductiveInvariant, PTL DEF Spec
<1> QED BY <1>3 DEF ClaimIsFenced

LEMMA StepChains ==
  ASSUME IInv, [Next]_vars
  PROVE  [Chain!Next]_(Chain!vars)
<1>1. CASE \E i \in Imports : CommitContextBootstrap(i)
  <2>1. PICK i \in Imports : CommitContextBootstrap(i)
    BY <1>1
  <2>2. head = <<>>
    BY <2>1, AuthorityIsClaimant DEF CommitContextBootstrap, Live
  <2> QED BY <2>1, <2>2 DEF CommitContextBootstrap, Chain!Next, Chain!Bootstrap, Chain!Append1
<1>2. CASE \E s \in Sessions : CommitSave(s)
  <2>1. PICK s \in Sessions : CommitSave(s)
    BY <1>2
  <2>2. saving = s
    BY <2>1 DEF CommitSave
  <2>3. Chain!Replace(origin[s].task) /\ origin[s].task \in Tasks
    BY <2>1, <2>2, SaveFinds DEF CommitSave, Chain!Replace, Chain!Append1
  <2> QED BY <2>3 DEF Chain!Next
<1>3. CASE UNCHANGED <<head, active>>
  BY <1>3 DEF Chain!vars
<1> QED BY <1>1, <1>2, <1>3 DEF Next, vars, Tick, ImportStep, ClaimContextBootstrap,
        ImportThrows, CommitRefused, RecoverContextBootstrapClaim, ImportLost, ClaimTask, EndTask,
        SessionStep, BindTaskSession, SaveBrandContext, RollbackSave, ReadHead, ReadReleased

\* The import, the saves and their locks implement a chain of versions, one
\* import followed by replacements of the version each was computed from.
THEOREM RefinesContextHead == Spec => ImplementsContextHead
<1>1. Init => Chain!Init
  BY DEF Init, Chain!Init
<1>2. IInv /\ [Next]_vars => [Chain!Next]_(Chain!vars)
  BY StepChains
<1> QED BY <1>1, <1>2, InductiveInvariant, PTL DEF Spec, ImplementsContextHead, Chain!Spec
-----------------------------------------------------------------------------
(* What follows from the chain.                                            *)

LEMMA ChainStep ==
  ASSUME TypeOK, Chain!ChainIsWhole, [Chain!Next]_(Chain!vars)
  PROVE  /\ Chain!ChainIsWhole'
         /\ Len(head) <= Len(head') /\ \A v \in Versions : head'[v] = head[v]
<1>1. CASE UNCHANGED Chain!vars
  BY <1>1 DEF Chain!vars, Chain!ChainIsWhole, Versions
<1>2. ASSUME NEW by \in Tasks \cup {System}, Chain!Append1(by),
             by = System <=> head = <<>>, \A v \in Versions : head[v].by # by
      PROVE  /\ Chain!ChainIsWhole'
             /\ Len(head) <= Len(head') /\ \A v \in Versions : head'[v] = head[v]
  <2>1. /\ head \in Seq([by : Tasks \cup {System}, from : Nat]) /\ Len(head) \in Nat
        /\ head' = Append(head, [by |-> by, from |-> Len(head)]) /\ active' = {Len(head) + 1}
    BY <1>2 DEF TypeOK, Chain!Append1
  <2>2. /\ Len(head') = Len(head) + 1 /\ head'[Len(head) + 1] = [by |-> by, from |-> Len(head)]
        /\ \A v \in Versions : head'[v] = head[v]
    BY <2>1 DEF Versions
  <2>3. head = <<>> <=> Len(head) = 0
    BY <2>1
  <2>4. ASSUME NEW v \in 1..Len(head')
        PROVE  /\ head'[v].from = v - 1 /\ (head'[v].by = System <=> v = 1)
               /\ \A u \in 1..Len(head') : head'[u].by = head'[v].by => u = v
    <3>1. CASE v \in Versions
      <4>1. head'[v] = head[v] /\ head[v].by # by
        BY <1>2, <2>2, <3>1
      <4>2. head[v].from = v - 1 /\ (head[v].by = System <=> v = 1)
        BY <3>1 DEF Chain!ChainIsWhole, Versions
      <4>3. ASSUME NEW u \in 1..Len(head'), head'[u].by = head'[v].by
            PROVE  u = v
        <5>1. u \in Versions \/ u = Len(head) + 1
          BY <2>1, <2>2 DEF Versions
        <5>2. CASE u \in Versions
          BY <2>2, <3>1, <4>1, <4>3, <5>2 DEF Chain!ChainIsWhole, Versions
        <5>3. CASE u = Len(head) + 1
          BY <2>2, <4>1, <4>3, <5>3
        <5> QED BY <5>1, <5>2, <5>3
      <4> QED BY <4>1, <4>2, <4>3
    <3>2. CASE v = Len(head) + 1
      <4>1. head'[v] = [by |-> by, from |-> Len(head)] /\ (by = System <=> v = 1)
        BY <1>2, <2>1, <2>2, <2>3, <3>2
      <4>2. ASSUME NEW u \in 1..Len(head'), head'[u].by = head'[v].by
            PROVE  u = v
        <5>1. u \in Versions \/ u = v
          BY <2>1, <2>2, <3>2 DEF Versions
        <5> QED BY <1>2, <2>2, <4>1, <4>2, <5>1
      <4> QED BY <2>1, <3>2, <4>1, <4>2
    <3> QED BY <2>1, <2>2, <3>1, <3>2 DEF Versions
  <2>5. active' = IF head' = <<>> THEN {} ELSE {Len(head')}
    BY <2>1, <2>2
  <2> QED BY <2>1, <2>2, <2>4, <2>5 DEF Chain!ChainIsWhole
<1>3. CASE Chain!Bootstrap
  BY <1>2, <1>3 DEF Chain!Bootstrap, Versions
<1>4. ASSUME NEW w \in Tasks, Chain!Replace(w)
      PROVE  /\ Chain!ChainIsWhole'
             /\ Len(head) <= Len(head') /\ \A v \in Versions : head'[v] = head[v]
  BY <1>2, <1>4, ConstantsAssumption DEF Chain!Replace, Versions
<1> QED BY <1>1, <1>3, <1>4 DEF Chain!Next

\* However imports are taken over, saves overlap and sessions are lost, the
\* Brand Context is one chain: every version made from the one before it, by
\* the import or by a task that made no other.
THEOREM ContextIsAChain == Spec => []Chain!ChainIsWhole
<1>1. Init => Chain!ChainIsWhole
  BY DEF Init, Chain!ChainIsWhole
<1>2. IInv /\ Chain!ChainIsWhole /\ [Next]_vars => Chain!ChainIsWhole'
  BY StepChains, ChainStep DEF IInv
<1> QED BY <1>1, <1>2, InductiveInvariant, PTL DEF Spec

\* No version of the Brand Context is changed or taken back once it is committed.
THEOREM ContextHistoryKept == Spec => Chain!HistoryIsKept
<1>1. IInv /\ Chain!ChainIsWhole /\ [Next]_vars =>
        [/\ Len(head) <= Len(head')
         /\ \A v \in 1..Len(head) : head'[v] = head[v]]_(Chain!vars)
  BY StepChains, ChainStep DEF IInv, Versions
<1> QED BY <1>1, ContextIsAChain, InductiveInvariant, PTL DEF Spec, Chain!HistoryIsKept
-----------------------------------------------------------------------------
(* The product marketer's tasks live as the agent lane's do.               *)

LEMMA StepLives ==
  ASSUME IInv, [Next]_vars
  PROVE  [Life!Next]_(Life!vars)
<1> USE DEF Life!Move
<1>1. /\ owner \in [Tasks -> Sessions \cup {None}] /\ ended \in [Tasks -> BOOLEAN]
      /\ result \in [Tasks -> Nat] /\ None \notin Sessions /\ Len(head) \in Nat
      /\ origin \in [Sessions -> Origin \cup {None}]
  BY ConstantsAssumption DEF IInv, TypeOK
<1>2. CASE UNCHANGED <<owner, ended, result>>
  BY <1>2 DEF LifeOf, Life!vars
<1>3. ASSUME NEW t \in Tasks, EndTask(t)
      PROVE  Life!End(t)
  <2>1. LifeOf[t] \in {"waiting", "bound"} /\ LifeOf' = [LifeOf EXCEPT ![t] = "ended"]
    BY <1>1, <1>3 DEF EndTask, LifeOf
  <2> QED BY <1>3, <2>1 DEF EndTask, Life!End
<1>4. ASSUME NEW s \in Sessions, BindTaskSession(s)
      PROVE  Life!Next
  <2>1. PICK t \in Tasks : /\ owner[t] = None /\ ~ended[t] /\ owner' = [owner EXCEPT ![t] = s]
                           /\ UNCHANGED <<ended, result>>
    BY <1>1, <1>4 DEF BindTaskSession, Origin
  <2>2. LifeOf[t] = "waiting" /\ LifeOf' = [LifeOf EXCEPT ![t] = "bound"]
    BY <1>1, <2>1 DEF LifeOf
  <2> QED BY <2>1, <2>2 DEF Life!Bind, Life!Next
<1>5. ASSUME NEW s \in Sessions, CommitSave(s)
      PROVE  Life!Next
  <2>1. PICK t \in Tasks : /\ owner[t] = s /\ ~ended[t] /\ result[t] = 0
                           /\ result' = [result EXCEPT ![t] = Len(head) + 1]
                           /\ UNCHANGED <<owner, ended>>
    BY <1>1, <1>5 DEF CommitSave, IInv, SaveHolds, Origin
  <2>2. LifeOf[t] = "bound" /\ UNCHANGED LifeOf
    BY <1>1, <2>1 DEF LifeOf
  <2>3. result'[t] = Len(head) + 1
    BY <1>1, <2>1
  <2>4. Life!Produce(t)
    BY <1>1, <2>1, <2>2, <2>3 DEF Life!Produce
  <2> QED BY <2>4 DEF Life!Next
<1> QED BY <1>2, <1>3, <1>4, <1>5 DEF Next, vars, Tick, ImportStep, ClaimContextBootstrap, ImportThrows,
        CommitContextBootstrap, CommitRefused, RecoverContextBootstrapClaim, ImportLost, ClaimTask,
        SessionStep, SaveBrandContext, RollbackSave, ReadHead, ReadReleased, Life!Next, task, import, brand, objects

\* A product-marketer task that is claimed, saved for and ended lives as the
\* lane's tasks do: it saves at most once, while its session is bound.
THEOREM ContextKeepsTaskLife == Spec => ImplementsTaskLife
<1>1. Init => Life!Init
  BY DEF Init, Life!Init, LifeOf
<1>2. IInv /\ [Next]_vars => [Life!Next]_(Life!vars)
  BY StepLives
<1> QED BY <1>1, <1>2, InductiveInvariant, PTL DEF Spec, ImplementsTaskLife, Life!Spec
=============================================================================
