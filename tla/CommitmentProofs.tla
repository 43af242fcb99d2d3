-------------------------- MODULE CommitmentProofs --------------------------
(***************************************************************************)
(* Proofs about Commitment for every set of tasks, tuples, keys, drains    *)
(* and members, every budget, and every lifetime that fits into the stale  *)
(* window with the errors of two clocks.                                   *)
(***************************************************************************)
EXTENDS Commitment, TLAPS

USE DEF ConstantsAssumption, NoneAssumption, Claim, Reopening, env, row, memory, effect, drain

-----------------------------------------------------------------------------
(* What the invariant says of a claim that a drain holds.                  *)

LEMMA HeldClaims ==
  ASSUME IInv, NEW d \in Drains, held[d] # None
  PROVE  /\ held[d] \in Claim /\ held[d].task \in Tasks /\ held[d].gen \in Nat
         /\ startedAt[held[d].task] = held[d].gen /\ startedAt[held[d].task] # None
         /\ born[d] \in Nat /\ born[d] <= held[d].gen + Skew
<1>1. held[d] \in Claim /\ born[d] \in Nat
  BY DEF IInv, TypeOK
<1>2. held[d].task \in Tasks /\ held[d].gen \in Nat
  BY <1>1
<1>3. startedAt[held[d].task] = held[d].gen /\ born[d] <= held[d].gen + Skew
  BY DEF IInv, DrainTimes, DrainShape
<1> QED BY <1>1, <1>2, <1>3, NoneAssumption

\* An invocation that still runs holds a running, granted commitment.
LEMMA AliveHolds ==
  ASSUME IInv, NEW d \in Drains, held[d] # None, Alive(d)
  PROVE  /\ GenerationMatches(held[d]) /\ status[held[d].task] = "running"
         /\ approvedAt[held[d].task] # None
<1>1. GenerationMatches(held[d])
  BY DEF IInv, AnswerFindsItsTask
<1>2. approvedAt[held[d].task] # None
  BY HeldClaims DEF IInv, RowShape
<1> QED BY <1>1, <1>2 DEF GenerationMatches

\* A row that a classifier selected as stale is held by no live invocation:
\* its claim is older than the lifetime of whoever holds it.
LEMMA StaleIsAbandoned ==
  ASSUME IInv, NEW d \in Drains, NEW t \in batch[d], NEW e \in Drains,
         held[e] # None, held[e].task = t
  PROVE  ~Alive(e)
<1>1. t \in Tasks /\ startedAt[t] \in Nat \cup {None} /\ clock \in Nat
  BY DEF IInv, TypeOK
<1>2. startedAt[t] \in Nat /\ startedAt[t] + StaleAfter <= clock + Skew
  BY <1>1 DEF IInv, BatchIsStale
<1>3. held[e].gen = startedAt[t] /\ born[e] \in Nat /\ born[e] <= held[e].gen + Skew
  BY HeldClaims
<1> QED BY <1>1, <1>2, <1>3, ConstantsAssumption DEF Alive
-----------------------------------------------------------------------------
(* Time, the connection and the provider.                                  *)

LEMMA TickStep ==
  ASSUME IInv, Tick
  PROVE  IInv'
<1> USE DEF Tick
<1>1. clock \in Nat /\ clock' \in Nat /\ clock < clock'
  BY DEF IInv, TypeOK
<1>2. TypeOK'
  BY <1>1 DEF IInv, TypeOK
<1>3. RowShape'
  <2>1. \A t \in Tasks : startedAt[t] # None => startedAt[t] <= clock' + Skew
    <3>1. \A t \in Tasks : startedAt[t] # None => startedAt[t] \in Nat /\ startedAt[t] <= clock + Skew
      BY DEF IInv, TypeOK, RowShape
    <3> QED BY <1>1, <3>1, ConstantsAssumption
  <2> QED BY <2>1 DEF IInv, RowShape
<1>4. DrainTimes' /\ DrainShape'
  <2>1. DrainTimes'
    BY <1>1, ConstantsAssumption DEF IInv, TypeOK, DrainTimes
  <2> QED BY <2>1 DEF IInv, DrainShape
<1>5. BatchIsStale'
  <2> SUFFICES ASSUME NEW d \in Drains, NEW t \in batch[d]
               PROVE  startedAt[t] # None /\ startedAt[t] + StaleAfter <= clock' + Skew
    BY DEF BatchIsStale
  <2>1. startedAt[t] \in Nat \cup {None} /\ StaleAfter \in Nat /\ Skew \in Nat
    BY ConstantsAssumption DEF IInv, TypeOK
  <2> QED BY <1>1, <2>1 DEF IInv, BatchIsStale
<1>6. AnswerFindsItsTask'
  <2>1. \A d \in Drains : Alive(d)' => Alive(d)
    BY <1>1, ConstantsAssumption DEF IInv, TypeOK, Alive
  <2> QED BY <2>1 DEF IInv, AnswerFindsItsTask, GenerationMatches
<1>7. AnswerIsEvidence' /\ OneProviderCall' /\ OnlyGrantedIsExecuted' /\ OneOwnerPerTarget'
      /\ OutcomeIsEvidence'
  BY DEF IInv, AnswerIsEvidence, OneProviderCall, OnlyGrantedIsExecuted,
     OneOwnerPerTarget, OutcomeIsEvidence
<1> QED BY <1>2, <1>3, <1>4, <1>5, <1>6, <1>7 DEF IInv

\* A change of connections, of the dismissal memory or of open reopenings.
LEMMA RowsUntouched ==
  ASSUME IInv, TypeOK', UNCHANGED <<clock, row, effect, drain>>
  PROVE  IInv'
<1>1. RowShape' /\ DrainTimes' /\ DrainShape' /\ BatchIsStale' /\ AnswerIsEvidence'
  BY DEF IInv, RowShape, DrainTimes, DrainShape, BatchIsStale, AnswerIsEvidence
<1>2. AnswerFindsItsTask'
  BY DEF IInv, AnswerFindsItsTask, GenerationMatches, Alive
<1>3. OneProviderCall' /\ OnlyGrantedIsExecuted' /\ OneOwnerPerTarget' /\ OutcomeIsEvidence'
  BY DEF IInv, OneProviderCall, OnlyGrantedIsExecuted, OneOwnerPerTarget, OutcomeIsEvidence
<1> QED BY <1>1, <1>2, <1>3 DEF IInv

LEMMA ConnectionStep ==
  ASSUME IInv, NEW b \in Brands, ConnectionMoves(b)
  PROVE  IInv'
<1>1. TypeOK'
  BY DEF IInv, TypeOK, ConnectionMoves
<1> QED BY <1>1, RowsUntouched DEF ConnectionMoves

LEMMA ProviderStep ==
  ASSUME IInv, NEW t \in Tasks, NEW how \in {"applied", "refused"}, ProviderDecides(t, how)
  PROVE  IInv'
<1> USE DEF ProviderDecides
<1>1. TypeOK'
  BY DEF IInv, TypeOK
<1>2. RowShape'
  BY DEF IInv, TypeOK, RowShape
<1>3. AnswerIsEvidence'
  <2> SUFFICES ASSUME NEW d \in Drains, answer[d] # None
               PROVE  /\ answer[d] \in {"accepted", "invalid_receipt"}
                            => command'[held[d].task] = "applied"
                      /\ answer[d] = "rejected" => command'[held[d].task] = "refused"
    BY NoneAssumption DEF AnswerIsEvidence, Answers
  <2>1. held[d] # None
    BY DEF IInv, DrainShape
  <2>2. held[d].task \in Tasks
    BY <2>1, HeldClaims
  <2> QED BY <2>2 DEF IInv, TypeOK, AnswerIsEvidence
<1>4. OutcomeIsEvidence'
  BY DEF IInv, TypeOK, OutcomeIsEvidence
<1>5. DrainTimes' /\ DrainShape' /\ BatchIsStale' /\ OneProviderCall' /\ OnlyGrantedIsExecuted'
      /\ OneOwnerPerTarget'
  BY DEF IInv, DrainTimes, DrainShape, BatchIsStale, OneProviderCall, OnlyGrantedIsExecuted,
     OneOwnerPerTarget
<1>6. AnswerFindsItsTask'
  BY DEF IInv, AnswerFindsItsTask, GenerationMatches, Alive
<1> QED BY <1>1, <1>2, <1>3, <1>4, <1>5, <1>6 DEF IInv
-----------------------------------------------------------------------------
(* The members, and the expiry of a queued row.                            *)

\* A row without a claim moves to another state without one.
LEMMA WaitingRowMoves ==
  ASSUME IInv, NEW t \in Tasks, status[t] \in {"absent", "awaiting_approval", "queued"},
         NEW to \in {"awaiting_approval", "queued"} \cup Withdrawn,
         status' = [status EXCEPT ![t] = to],
         to = "queued" => /\ approvedAt'[t] # None
                          /\ \A u \in Tasks : ~Blocking(t, u),
         approvedAt' \in [Tasks -> Nat \cup {None}],
         \A u \in Tasks : approvedAt[u] # None => approvedAt'[u] # None,
         UNCHANGED <<clock, startedAt, effect>>
  PROVE  /\ status' \in [Tasks -> Status]
         /\ RowShape' /\ OneProviderCall' /\ OnlyGrantedIsExecuted'
         /\ OneOwnerPerTarget' /\ OutcomeIsEvidence'
         /\ \A u \in Tasks : status[u] = "running" => status'[u] = "running"
<1> USE DEF Withdrawn
<1>1. status \in [Tasks -> Status] /\ status' \in [Tasks -> Status]
  BY DEF IInv, TypeOK, Status, Terminal
<1>2. startedAt[t] = None /\ calls[t] = 0
  BY DEF IInv, TypeOK, RowShape, Outcomes
<1>3. RowShape'
  BY <1>1, <1>2 DEF IInv, TypeOK, RowShape, Outcomes
<1>4. OneProviderCall' /\ OnlyGrantedIsExecuted'
  BY <1>1, <1>2 DEF IInv, TypeOK, OneProviderCall, OnlyGrantedIsExecuted, Outcomes
<1>5. OneOwnerPerTarget'
  BY <1>1 DEF IInv, OneOwnerPerTarget, Blocking
<1>6. OutcomeIsEvidence'
  BY <1>1 DEF IInv, OutcomeIsEvidence
<1>7. \A u \in Tasks : status[u] = "running" => status'[u] = "running"
  BY <1>1
<1> QED BY <1>1, <1>3, <1>4, <1>5, <1>6, <1>7

\* What a host may stamp, and what a stamp makes of the memory.
LEMMA HostStamps ==
  ASSUME IInv, NEW at \in HostTimes
  PROVE  at \in Nat /\ at # None /\ at <= clock + Skew /\ clock <= at + Skew
<1>1. clock \in Nat /\ Skew \in Nat
  BY ConstantsAssumption DEF IInv, TypeOK
<1> QED BY <1>1, NoneAssumption DEF HostTimes

\* The newest fact after an insertion is the one inserted, or the one there
\* was; neither is newer than it.
LEMMA FactInserted ==
  ASSUME IInv, NEW p \in Payloads, NEW e \in Fact, InsertFact(p, e)
  PROVE  /\ newest' \in [Payloads -> Fact \cup {None}] /\ last' \in [Payloads -> Fact \cup {None}]
         /\ last'[p] = e /\ newest'[p] \in {e, newest[p]} \ {None} /\ e.at <= newest'[p].at
         /\ \A q \in Payloads \ {p} : newest'[q] = newest[q] /\ last'[q] = last[q]
<1>1. newest \in [Payloads -> Fact \cup {None}] /\ last \in [Payloads -> Fact \cup {None}]
  BY DEF IInv, TypeOK
<1>2. PICK n \in Newer(newest[p], e) : newest' = [newest EXCEPT ![p] = n]
  BY DEF InsertFact
<1>3. n \in {e, newest[p]} /\ n \in Fact /\ e.at <= n.at
  BY <1>1, <1>2 DEF Newer, Fact
<1>4. n # None
  BY <1>3, NoneAssumption
<1> QED BY <1>1, <1>2, <1>3, <1>4 DEF InsertFact

LEMMA MembersRowStep ==
  ASSUME IInv, NEW t \in Tasks,
         PrepareCommitment(t) \/ ApproveTask(t) \/ DismissTask(t) \/ CancelTask(t)
  PROVE  IInv'
<1>1. \E to \in {"awaiting_approval", "queued"} \cup Withdrawn :
         /\ status[t] \in {"absent", "awaiting_approval", "queued"}
         /\ status' = [status EXCEPT ![t] = to]
         /\ to = "queued" => /\ approvedAt'[t] # None
                             /\ \A u \in Tasks : ~Blocking(t, u)
  <2>1. approvedAt \in [Tasks -> Nat \cup {None}] /\ \A at \in HostTimes : at # None
    BY HostStamps DEF IInv, TypeOK
  <2> QED BY <2>1 DEF PrepareCommitment, ApproveTask, DismissTask, CancelTask, Cancellable, Withdrawn
<1>2. /\ approvedAt' \in [Tasks -> Nat \cup {None}]
      /\ \A u \in Tasks : approvedAt[u] # None => approvedAt'[u] # None
      /\ UNCHANGED <<env, startedAt, reopening, effect, drain>>
  <2>1. UNCHANGED <<env, startedAt, reopening, effect, drain>>
    BY DEF PrepareCommitment, ApproveTask, DismissTask, CancelTask
  <2>2. approvedAt \in [Tasks -> Nat \cup {None}] /\ \A at \in HostTimes : at \in Nat /\ at # None
    BY HostStamps DEF IInv, TypeOK
  <2>3. approvedAt' = approvedAt \/ \E at \in HostTimes : approvedAt' = [approvedAt EXCEPT ![t] = at]
    BY DEF PrepareCommitment, ApproveTask, DismissTask, CancelTask
  <2> QED BY <2>1, <2>2, <2>3
<1>3. newest' \in [Payloads -> Fact \cup {None}] /\ last' \in [Payloads -> Fact \cup {None}]
  <2>1. CASE DismissTask(t)
    <3>1. PICK at \in HostTimes :
             InsertFact(PayloadOf[t], [fact |-> "dismissal", at |-> at, committed |-> clock])
      BY <2>1 DEF DismissTask
    <3>2. [fact |-> "dismissal", at |-> at, committed |-> clock] \in Fact
      BY HostStamps DEF Fact, IInv, TypeOK
    <3>3. PayloadOf[t] \in Payloads
      BY ConstantsAssumption
    <3> QED BY <3>1, <3>2, <3>3, FactInserted
  <2>2. CASE ~DismissTask(t)
    BY <2>2 DEF IInv, TypeOK, PrepareCommitment, ApproveTask, CancelTask
  <2> QED BY <2>1, <2>2
<1>4. /\ status' \in [Tasks -> Status]
      /\ RowShape' /\ OneProviderCall' /\ OnlyGrantedIsExecuted'
      /\ OneOwnerPerTarget' /\ OutcomeIsEvidence'
      /\ \A u \in Tasks : status[u] = "running" => status'[u] = "running"
  BY <1>1, <1>2, WaitingRowMoves
<1>5. TypeOK'
  BY <1>2, <1>3, <1>4 DEF IInv, TypeOK
<1>6. AnswerFindsItsTask'
  BY <1>2, <1>4, HeldClaims DEF IInv, AnswerFindsItsTask, GenerationMatches, Alive
<1>7. DrainTimes' /\ DrainShape' /\ BatchIsStale' /\ AnswerIsEvidence'
  BY <1>2 DEF IInv, DrainTimes, DrainShape, BatchIsStale, AnswerIsEvidence
<1> QED BY <1>4, <1>5, <1>6, <1>7 DEF IInv

LEMMA BeginReopenStep ==
  ASSUME IInv, NEW m \in Members, NEW t \in Tasks, BeginReopen(m, t)
  PROVE  IInv'
<1>1. [task |-> t, at |-> clock] \in Reopening
  BY DEF IInv, TypeOK
<1>2. TypeOK'
  BY <1>1 DEF IInv, TypeOK, BeginReopen
<1> QED BY <1>2, RowsUntouched DEF BeginReopen

LEMMA ReopenStep ==
  ASSUME IInv, NEW m \in Members, ReopenTask(m)
  PROVE  IInv'
<1>1. reopening[m] \in Reopening
  BY DEF IInv, TypeOK, ReopenTask
<1>2. reopening[m].task \in Tasks /\ reopening[m].at \in Nat
  BY <1>1
<1>3. PayloadOf[reopening[m].task] \in Payloads
  BY <1>2, ConstantsAssumption
<1>4. newest' \in [Payloads -> Fact \cup {None}] /\ last' \in [Payloads -> Fact \cup {None}]
  <2>1. CASE UNCHANGED <<newest, last>>
    BY <2>1 DEF IInv, TypeOK
  <2>2. CASE ~UNCHANGED <<newest, last>>
    <3> DEFINE e == [fact |-> "reopen", at |-> reopening[m].at, committed |-> clock]
    <3>1. InsertFact(PayloadOf[reopening[m].task], e)
      BY <2>2 DEF ReopenTask
    <3>2. e \in Fact
      BY <1>2 DEF Fact, IInv, TypeOK
    <3> QED BY <1>3, <3>1, <3>2, FactInserted
  <2> QED BY <2>1, <2>2
<1>5. TypeOK'
  BY <1>4 DEF IInv, TypeOK, ReopenTask
<1> QED BY <1>5, RowsUntouched DEF ReopenTask
-----------------------------------------------------------------------------
(* The drains.                                                             *)

\* The types of a drain's local state.
DrainTypes ==
    /\ pc \in [Drains -> {"idle", "select", "classify", "claim", "execute", "await", "settle"}]
    /\ born \in [Drains -> Nat] /\ now \in [Drains -> Nat]
    /\ batch \in [Drains -> SUBSET Tasks] /\ excluded \in [Drains -> SUBSET Tasks]
    /\ held \in [Drains -> Claim \cup {None}] /\ answer \in [Drains -> Answers \cup {None}]
    /\ left \in [Drains -> 0..Budget]

\* A drain that ends leaves nothing behind that another could miss.
LEMMA DrainEnds ==
  ASSUME IInv, NEW d \in Drains, EndDrain(d), UNCHANGED <<clock, startedAt, effect>>
  PROVE  /\ DrainTypes' /\ DrainTimes' /\ DrainShape' /\ BatchIsStale' /\ AnswerIsEvidence'
         /\ held'[d] = None /\ \A e \in Drains \ {d} : held'[e] = held[e] /\ born'[e] = born[e]
<1> USE DEF EndDrain
<1>1. DrainTypes'
  <2>1. 0 \in 0..Budget
    BY ConstantsAssumption
  <2> QED BY <2>1 DEF IInv, TypeOK, DrainTypes
<1>2. DrainTimes' /\ DrainShape'
  <2>1. DrainTimes'
    <3>1. held'[d] = None /\ born'[d] = 0 /\ now'[d] = 0 /\ clock \in Nat /\ Skew \in Nat
      BY ConstantsAssumption DEF IInv, TypeOK
    <3>2. \A e \in Drains \ {d} : UNCHANGED <<held[e], born[e], now[e]>>
      BY DEF IInv, TypeOK
    <3> QED BY <3>1, <3>2 DEF IInv, DrainTimes
  <2> QED BY <2>1, NoneAssumption DEF IInv, TypeOK, DrainShape
<1>3. BatchIsStale'
  BY DEF IInv, TypeOK, BatchIsStale
<1>4. AnswerIsEvidence'
  BY NoneAssumption DEF IInv, TypeOK, AnswerIsEvidence, Answers
<1>5. held'[d] = None /\ \A e \in Drains \ {d} : held'[e] = held[e] /\ born'[e] = born[e]
  BY DEF IInv, TypeOK
<1> QED BY <1>1, <1>2, <1>3, <1>4, <1>5

LEMMA CrashStep ==
  ASSUME IInv, NEW d \in Drains, Crash(d)
  PROVE  IInv'
<1>1. EndDrain(d) /\ UNCHANGED <<clock, connected, row, memory, effect>> /\ crashes' \in Nat
  BY DEF Crash, IInv, TypeOK
<1>2. /\ DrainTypes' /\ DrainTimes' /\ DrainShape' /\ BatchIsStale' /\ AnswerIsEvidence'
      /\ held'[d] = None /\ \A e \in Drains \ {d} : held'[e] = held[e] /\ born'[e] = born[e]
  BY <1>1, DrainEnds
<1>3. TypeOK'
  BY <1>1, <1>2 DEF IInv, TypeOK, DrainTypes
<1>4. AnswerFindsItsTask'
  BY <1>1, <1>2 DEF IInv, AnswerFindsItsTask, GenerationMatches, Alive
<1>5. RowShape' /\ OneProviderCall' /\ OnlyGrantedIsExecuted' /\ OneOwnerPerTarget'
      /\ OutcomeIsEvidence'
  BY <1>1 DEF IInv, RowShape, OneProviderCall, OnlyGrantedIsExecuted, OneOwnerPerTarget,
     OutcomeIsEvidence
<1> QED BY <1>2, <1>3, <1>4, <1>5 DEF IInv

\* A step of a drain that touches no row, sends nothing and keeps its claim.
LEMMA RowsKept ==
  ASSUME IInv, TypeOK', DrainTimes', DrainShape', BatchIsStale', AnswerIsEvidence',
         NEW d \in Drains, held[d] = None, UNCHANGED <<clock, row, effect, held>>,
         \A e \in Drains \ {d} : born'[e] = born[e]
  PROVE  IInv'
<1>1. AnswerFindsItsTask'
  BY DEF IInv, AnswerFindsItsTask, GenerationMatches, Alive
<1>2. RowShape' /\ OneProviderCall' /\ OnlyGrantedIsExecuted' /\ OneOwnerPerTarget'
      /\ OutcomeIsEvidence'
  BY DEF IInv, RowShape, OneProviderCall, OnlyGrantedIsExecuted, OneOwnerPerTarget,
     OutcomeIsEvidence
<1> QED BY <1>1, <1>2 DEF IInv

LEMMA StartDrainStep ==
  ASSUME IInv, NEW d \in Drains, StartDrain(d)
  PROVE  IInv'
<1> USE DEF StartDrain
<1>0. PICK at \in HostTimes : now' = [now EXCEPT ![d] = at]
  OBVIOUS
<1>1. TypeOK'
  <2>1. Budget \in 0..Budget
    BY ConstantsAssumption
  <2> QED BY <1>0, <2>1, HostStamps DEF IInv, TypeOK
<1>2. held[d] = None
  BY DEF IInv, DrainShape
<1>3. DrainTimes' /\ DrainShape'
  <2>1. held' = held /\ born'[d] = clock /\ now'[d] = at /\ clock \in Nat
    BY <1>0 DEF IInv, TypeOK
  <2>2. \A e \in Drains \ {d} : UNCHANGED <<born[e], now[e]>>
    BY <1>0 DEF IInv, TypeOK
  <2>3. DrainTimes'
    BY <1>2, <2>1, <2>2, HostStamps DEF IInv, DrainTimes
  <2> QED BY <1>2, <2>3, ConstantsAssumption, NoneAssumption DEF IInv, TypeOK, DrainShape
<1>4. BatchIsStale' /\ AnswerIsEvidence' /\ \A e \in Drains \ {d} : born'[e] = born[e]
  BY DEF IInv, TypeOK, BatchIsStale, AnswerIsEvidence
<1> QED BY <1>1, <1>2, <1>3, <1>4, RowsKept

LEMMA SelectStaleStep ==
  ASSUME IInv, NEW d \in Drains, SelectStale(d)
  PROVE  IInv'
<1> USE DEF SelectStale
<1>1. TypeOK'
  BY DEF IInv, TypeOK
<1>2. held[d] = None
  BY DEF IInv, DrainShape
<1>3. DrainTimes' /\ DrainShape'
  BY <1>2, NoneAssumption DEF IInv, TypeOK, DrainTimes, DrainShape
<1>4. BatchIsStale'
  <2>1. \A t \in Tasks : Stale(t, now[d]) =>
            startedAt[t] # None /\ startedAt[t] + StaleAfter <= clock + Skew
    <3> SUFFICES ASSUME NEW t \in Tasks, Stale(t, now[d])
                 PROVE  startedAt[t] # None /\ startedAt[t] + StaleAfter <= clock + Skew
      OBVIOUS
    <3>1. startedAt[t] \in Nat
      BY DEF IInv, TypeOK, RowShape, Stale
    <3>2. startedAt[t] + StaleAfter <= now[d] /\ now[d] <= clock + Skew
      BY DEF Stale, IInv, DrainTimes
    <3>3. StaleAfter \in Nat /\ Skew \in Nat /\ now[d] \in Nat /\ clock \in Nat
      BY ConstantsAssumption DEF IInv, TypeOK
    <3> QED BY <3>1, <3>2, <3>3, NoneAssumption
  <2> QED BY <2>1 DEF IInv, TypeOK, BatchIsStale
<1>5. AnswerIsEvidence'
  BY DEF IInv, AnswerIsEvidence
<1> QED BY <1>1, <1>2, <1>3, <1>4, <1>5, RowsKept

LEMMA SettleStaleStep ==
  ASSUME IInv, NEW d \in Drains, NEW t \in Tasks, SettleStale(d, t)
  PROVE  IInv'
<1> USE DEF SettleStale, StillRunning
<1>1. TypeOK'
  BY DEF IInv, TypeOK, Status, Terminal, Outcomes
<1>2. RowShape'
  BY DEF IInv, TypeOK, RowShape, Outcomes
<1>3. BatchIsStale'
  BY DEF IInv, TypeOK, BatchIsStale
<1>4. AnswerFindsItsTask'
  <2> SUFFICES ASSUME NEW e \in Drains, held[e] # None, Alive(e)
               PROVE  status'[held[e].task] = "running" /\ startedAt[held[e].task] = held[e].gen
    BY DEF AnswerFindsItsTask, GenerationMatches, Alive
  <2>1. held[e].task # t
    BY StaleIsAbandoned
  <2>2. held[e].task \in Tasks
    BY HeldClaims
  <2>3. status[held[e].task] = "running" /\ startedAt[held[e].task] = held[e].gen
    BY AliveHolds DEF GenerationMatches
  <2> QED BY <2>1, <2>2, <2>3 DEF IInv, TypeOK
<1>5. OnlyGrantedIsExecuted'
  BY DEF IInv, TypeOK, OnlyGrantedIsExecuted, Outcomes
<1>6. OneOwnerPerTarget' /\ OutcomeIsEvidence'
  BY DEF IInv, TypeOK, OneOwnerPerTarget, OutcomeIsEvidence
<1>7. DrainTimes' /\ DrainShape' /\ AnswerIsEvidence' /\ OneProviderCall'
  BY DEF IInv, DrainTimes, DrainShape, AnswerIsEvidence, OneProviderCall
<1> QED BY <1>1, <1>2, <1>3, <1>4, <1>5, <1>6, <1>7 DEF IInv

\* The loop goes on with a new reading of the clock.
LEMMA TurnTaken ==
  ASSUME IInv, NEW d \in Drains, NEW at \in HostTimes, now' = [now EXCEPT ![d] = at],
         UNCHANGED <<clock, born>>, held' \in {held, [held EXCEPT ![d] = None]}
  PROVE  now' \in [Drains -> Nat] /\ DrainTimes'
<1>1. at \in Nat /\ at <= clock + Skew /\ clock <= at + Skew /\ clock \in Nat /\ Skew \in Nat
  BY HostStamps, ConstantsAssumption DEF IInv, TypeOK
<1>2. now' \in [Drains -> Nat] /\ now'[d] = at /\ \A e \in Drains \ {d} : now'[e] = now[e]
  BY <1>1 DEF IInv, TypeOK
<1>3. born[d] \in Nat /\ born[d] <= clock
  BY DEF IInv, TypeOK, DrainTimes
<1>4. \A e \in Drains : held'[e] # None => held'[e] = held[e]
  BY DEF IInv, TypeOK
<1> QED BY <1>1, <1>2, <1>3, <1>4 DEF IInv, DrainTimes

LEMMA ClassifiedStep ==
  ASSUME IInv, NEW d \in Drains, Classified(d)
  PROVE  IInv'
<1> USE DEF Classified, TakeTurn
<1>0. PICK at \in HostTimes : now' = [now EXCEPT ![d] = at]
  OBVIOUS
<1>1. TypeOK'
  BY <1>0, TurnTaken DEF IInv, TypeOK
<1>2. held[d] = None
  BY DEF IInv, DrainShape
<1>3. DrainTimes' /\ DrainShape'
  <2>1. DrainTimes'
    BY <1>0, TurnTaken
  <2>2. DrainShape'
    BY <1>2, NoneAssumption DEF IInv, TypeOK, DrainShape
  <2> QED BY <2>1, <2>2
<1>4. BatchIsStale' /\ AnswerIsEvidence'
  BY DEF IInv, BatchIsStale, AnswerIsEvidence
<1> QED BY <1>1, <1>2, <1>3, <1>4, RowsKept

\* The three ways a claim transaction ends with a row, and the empty queue.
LEMMA ExpireStep ==
  ASSUME IInv, NEW d \in Drains, NEW t \in Tasks, pc[d] = "claim", Queued(t),
         ExpireQueued(d, t), UNCHANGED <<env, memory, effect>>
  PROVE  IInv'
<1> USE DEF ExpireQueued, TakeTurn
<1>0. PICK at \in HostTimes : now' = [now EXCEPT ![d] = at]
  OBVIOUS
<1>1. held[d] = None /\ status[t] = "queued"
  BY DEF IInv, DrainShape, Queued
<1>2. approvedAt \in [Tasks -> Nat \cup {None}]
  BY DEF IInv, TypeOK
<1>3. /\ status' \in [Tasks -> Status]
      /\ RowShape' /\ OneProviderCall' /\ OnlyGrantedIsExecuted'
      /\ OneOwnerPerTarget' /\ OutcomeIsEvidence'
      /\ \A u \in Tasks : status[u] = "running" => status'[u] = "running"
  BY <1>1, <1>2, WaitingRowMoves DEF Withdrawn
<1>4. TypeOK'
  BY <1>0, <1>3, TurnTaken DEF IInv, TypeOK
<1>5. DrainTimes' /\ DrainShape'
  <2>1. DrainTimes'
    BY <1>0, TurnTaken
  <2>2. DrainShape'
    BY <1>1, NoneAssumption DEF IInv, TypeOK, DrainShape
  <2> QED BY <2>1, <2>2
<1>6. AnswerFindsItsTask'
  BY <1>3, HeldClaims DEF IInv, AnswerFindsItsTask, GenerationMatches, Alive
<1>7. BatchIsStale' /\ AnswerIsEvidence'
  BY DEF IInv, BatchIsStale, AnswerIsEvidence
<1> QED BY <1>3, <1>4, <1>5, <1>6, <1>7 DEF IInv

LEMMA ExcludeStep ==
  ASSUME IInv, NEW d \in Drains, NEW t \in Tasks, pc[d] = "claim",
         ExcludeForCapability(d, t), UNCHANGED <<env, memory, effect>>
  PROVE  IInv'
<1> USE DEF ExcludeForCapability, TakeTurn
<1>0. PICK at \in HostTimes : now' = [now EXCEPT ![d] = at]
  OBVIOUS
<1>1. TypeOK'
  BY <1>0, TurnTaken DEF IInv, TypeOK
<1>2. held[d] = None
  BY DEF IInv, DrainShape
<1>3. DrainTimes' /\ DrainShape'
  <2>1. DrainTimes'
    BY <1>0, TurnTaken
  <2>2. DrainShape'
    BY <1>2, NoneAssumption DEF IInv, TypeOK, DrainShape
  <2> QED BY <2>1, <2>2
<1>4. BatchIsStale' /\ AnswerIsEvidence'
  BY DEF IInv, BatchIsStale, AnswerIsEvidence
<1> QED BY <1>1, <1>2, <1>3, <1>4, RowsKept

LEMMA CasHumanClaimStep ==
  ASSUME IInv, NEW d \in Drains, NEW t \in Tasks, pc[d] = "claim", Queued(t),
         CasHumanClaim(d, t), UNCHANGED <<env, memory, effect>>
  PROVE  IInv'
<1> USE DEF CasHumanClaim
<1>1. /\ held[d] = None /\ answer[d] = None /\ left[d] > 0 /\ left[d] \in 0..Budget
      /\ now[d] \in Nat /\ born[d] \in Nat /\ clock \in Nat
      /\ born[d] <= now[d] + Skew /\ now[d] <= clock + Skew /\ Skew \in Nat
  BY ConstantsAssumption DEF IInv, TypeOK, DrainTimes, DrainShape
<1>2. /\ status[t] = "queued" /\ KeyOf[t] = None
      /\ startedAt[t] = None /\ approvedAt[t] # None /\ calls[t] = 0
  <2>1. status[t] = "queued" /\ KeyOf[t] = None
    BY DEF Queued
  <2>2. startedAt[t] = None /\ approvedAt[t] # None
    BY <2>1 DEF IInv, RowShape, Outcomes
  <2>3. calls[t] = 0
    BY <2>2 DEF IInv, TypeOK, RowShape
  <2> QED BY <2>1, <2>2, <2>3
<1>3. PICK claim \in Claim : claim = [task |-> t, gen |-> now[d]] /\ claim # None
  <2>1. [task |-> t, gen |-> now[d]] \in Claim
    BY <1>1
  <2> QED BY <2>1, NoneAssumption
<1>4. claim.task = t /\ claim.gen = now[d]
  BY <1>3
<1>5. held' = [held EXCEPT ![d] = claim]
  BY <1>3
<1>6. now[d] # None
  BY <1>1, NoneAssumption
<1>7. \A e \in Drains : held[e] # None => held[e].task # t /\ held[e].task \in Tasks
  BY <1>2, HeldClaims
<1>8. TypeOK'
  <2>1. left[d] - 1 \in 0..Budget
    BY <1>1, ConstantsAssumption
  <2>2. held' \in [Drains -> Claim \cup {None}]
    BY <1>5 DEF IInv, TypeOK
  <2>3. left' \in [Drains -> 0..Budget]
    BY <2>1 DEF IInv, TypeOK
  <2>4. status' \in [Tasks -> Status] /\ startedAt' \in [Tasks -> Nat \cup {None}]
    BY <1>1 DEF IInv, TypeOK, Status
  <2> QED BY <2>2, <2>3, <2>4 DEF IInv, TypeOK
<1>9. RowShape'
  BY <1>1, <1>2, <1>6 DEF IInv, TypeOK, RowShape, Outcomes
<1>10. DrainTimes' /\ DrainShape'
  <2>1. held'[d] = claim /\ \A e \in Drains \ {d} : held'[e] = held[e]
    BY <1>5 DEF IInv, TypeOK
  <2>2. startedAt'[t] = now[d] /\ \A u \in Tasks \ {t} : startedAt'[u] = startedAt[u]
    BY DEF IInv, TypeOK
  <2>3. pc'[d] = "execute" /\ \A e \in Drains \ {d} : pc'[e] = pc[e] /\ left'[e] = left[e]
    BY DEF IInv, TypeOK
  <2>4. DrainTimes'
    BY <1>1, <1>4, <2>1 DEF IInv, DrainTimes
  <2>5. DrainShape'
    BY <1>1, <1>2, <1>3, <1>4, <1>7, <2>1, <2>2, <2>3 DEF IInv, DrainShape
  <2> QED BY <2>4, <2>5
<1>11. BatchIsStale'
  <2>1. \A e \in Drains : t \notin batch[e]
    BY <1>2 DEF IInv, BatchIsStale
  <2> QED BY <2>1 DEF IInv, TypeOK, BatchIsStale
<1>12. AnswerIsEvidence'
  BY <1>1, <1>5, NoneAssumption DEF IInv, TypeOK, AnswerIsEvidence, Answers
<1>13. AnswerFindsItsTask'
  BY <1>2, <1>4, <1>5, <1>7 DEF IInv, TypeOK, AnswerFindsItsTask, GenerationMatches, Alive
<1>14. OnlyGrantedIsExecuted'
  BY <1>2 DEF IInv, TypeOK, OnlyGrantedIsExecuted
<1>15. OneProviderCall' /\ OneOwnerPerTarget' /\ OutcomeIsEvidence'
  BY <1>2 DEF IInv, TypeOK, OneProviderCall, OneOwnerPerTarget, OutcomeIsEvidence
<1> QED BY <1>8, <1>9, <1>10, <1>11, <1>12, <1>13, <1>14, <1>15 DEF IInv

LEMMA ClaimStep ==
  ASSUME IInv, NEW d \in Drains, NEW skipped \in SUBSET Tasks,
         ClaimNextDueHumanCommitment(d, skipped)
  PROVE  IInv'
<1>1. pc[d] = "claim" /\ UNCHANGED <<env, memory, effect>>
  BY DEF ClaimNextDueHumanCommitment
<1>2. CASE EndDrain(d) /\ UNCHANGED row
  <2>1. /\ DrainTypes' /\ DrainTimes' /\ DrainShape' /\ BatchIsStale' /\ AnswerIsEvidence'
        /\ held'[d] = None /\ \A e \in Drains \ {d} : held'[e] = held[e] /\ born'[e] = born[e]
    BY <1>1, <1>2, DrainEnds
  <2>2. TypeOK'
    BY <1>1, <1>2, <2>1 DEF IInv, TypeOK, DrainTypes
  <2>3. held[d] = None
    BY <1>1 DEF IInv, DrainShape
  <2>4. held' = held
    BY <1>2, <2>3 DEF EndDrain, IInv, TypeOK
  <2> QED BY <1>1, <1>2, <2>1, <2>2, <2>3, <2>4, RowsKept
<1>3. ASSUME NEW t \in Tasks, Queued(t),
             ExpireQueued(d, t) \/ ExcludeForCapability(d, t) \/ CasHumanClaim(d, t)
      PROVE  IInv'
  BY <1>1, <1>3, ExpireStep, ExcludeStep, CasHumanClaimStep
<1> QED BY <1>2, <1>3 DEF ClaimNextDueHumanCommitment
-----------------------------------------------------------------------------
(* The provider call and its settlement.                                   *)

LEMMA SendStep ==
  ASSUME IInv, NEW d \in Drains, SendCommand(d)
  PROVE  IInv'
<1> USE DEF SendCommand
<1> DEFINE t == held[d].task
<1>1. held[d] # None /\ pc[d] = "execute" /\ answer[d] = None
  BY DEF IInv, DrainShape
<1>2. /\ t \in Tasks /\ status[t] = "running" /\ startedAt[t] # None /\ approvedAt[t] # None
      /\ calls[t] = 0
  BY <1>1, HeldClaims, AliveHolds DEF IInv, DrainShape
<1>3. \A e \in Drains \ {d} : held[e] # None => held[e].task # t
  BY <1>1 DEF IInv, DrainShape
<1> HIDE DEF t
<1>4. calls' = [calls EXCEPT ![t] = calls[t] + 1] /\ command' = [command EXCEPT ![t] = "inflight"]
  BY DEF t
<1>5. TypeOK'
  <2>1. calls[t] + 1 \in Nat
    BY <1>2
  <2>2. calls' \in [Tasks -> Nat]
    BY <1>4, <2>1 DEF IInv, TypeOK
  <2> QED BY <1>4, <2>2 DEF IInv, TypeOK
<1>6. RowShape'
  BY <1>2, <1>4 DEF IInv, TypeOK, RowShape
<1>7. DrainTimes' /\ DrainShape'
  <2>1. \A e \in Drains \ {d} : held[e] # None => calls'[held[e].task] = calls[held[e].task]
    BY <1>3, <1>4, HeldClaims DEF IInv, TypeOK
  <2> QED BY <1>1, <2>1 DEF IInv, TypeOK, DrainTimes, DrainShape
<1>8. AnswerIsEvidence'
  <2>1. \A e \in Drains : answer[e] # None => held[e] # None /\ e # d
    BY <1>1 DEF IInv, DrainShape
  <2>2. \A e \in Drains : answer[e] # None => command'[held[e].task] = command[held[e].task]
    BY <1>3, <1>4, <2>1, HeldClaims DEF IInv, TypeOK
  <2> QED BY <2>2, NoneAssumption DEF IInv, AnswerIsEvidence, Answers
<1>9. AnswerFindsItsTask'
  BY DEF IInv, AnswerFindsItsTask, GenerationMatches, Alive
<1>10. OneProviderCall' /\ OnlyGrantedIsExecuted' /\ OutcomeIsEvidence'
  <2>1. calls'[t] = 1 /\ \A u \in Tasks \ {t} : calls'[u] = calls[u] /\ command'[u] = command[u]
    BY <1>2, <1>4 DEF IInv, TypeOK
  <2> QED BY <1>2, <2>1 DEF IInv, OneProviderCall, OnlyGrantedIsExecuted, OutcomeIsEvidence
<1>11. BatchIsStale' /\ OneOwnerPerTarget'
  BY DEF IInv, BatchIsStale, OneOwnerPerTarget
<1> QED BY <1>5, <1>6, <1>7, <1>8, <1>9, <1>10, <1>11 DEF IInv

LEMMA AnswerStep ==
  ASSUME IInv, NEW d \in Drains, NEW a \in Answers,
         pc[d] \in {"execute", "await"}, Answered(d, a),
         a \in {"accepted", "invalid_receipt"} => command[held[d].task] = "applied",
         a = "rejected" => command[held[d].task] = "refused"
  PROVE  IInv'
<1> USE DEF Answered
<1>1. TypeOK'
  BY DEF IInv, TypeOK
<1>2. a # None
  BY NoneAssumption
<1>3. DrainTimes' /\ DrainShape'
  BY <1>2 DEF IInv, TypeOK, DrainTimes, DrainShape
<1>4. AnswerIsEvidence'
  BY DEF IInv, TypeOK, AnswerIsEvidence
<1>5. AnswerFindsItsTask'
  BY DEF IInv, AnswerFindsItsTask, GenerationMatches, Alive
<1>6. RowShape' /\ BatchIsStale' /\ OneProviderCall' /\ OnlyGrantedIsExecuted'
      /\ OneOwnerPerTarget' /\ OutcomeIsEvidence'
  BY DEF IInv, RowShape, BatchIsStale, OneProviderCall, OnlyGrantedIsExecuted,
     OneOwnerPerTarget, OutcomeIsEvidence
<1> QED BY <1>1, <1>3, <1>4, <1>5, <1>6 DEF IInv

\* What a settlement does to the row: it concludes the claimed generation with
\* a status the answer supports, or finds it gone and leaves it.
LEMMA SettlementOfRow ==
  ASSUME IInv, NEW d \in Drains, SettleHumanCommitmentResult(d)
  PROVE  /\ status[held[d].task] = "running"
         /\ \E to \in Outcomes :
              /\ status' = [status EXCEPT ![held[d].task] = to]
              /\ to = "succeeded" => command[held[d].task] = "applied"
              /\ to = "failed" => command[held[d].task] = "refused"
<1>1. held[d] # None /\ answer[d] \in Answers /\ Alive(d)
  BY DEF SettleHumanCommitmentResult, IInv, TypeOK, DrainShape
<1>2. GenerationMatches(held[d]) /\ status[held[d].task] = "running"
  BY <1>1, AliveHolds
<1>3. StatusOf(answer[d]) \in Outcomes
  BY <1>1 DEF StatusOf, Answers, Outcomes
<1>4. /\ StatusOf(answer[d]) = "succeeded" => answer[d] = "accepted"
      /\ StatusOf(answer[d]) = "failed" => answer[d] = "rejected"
  BY <1>1 DEF StatusOf, Answers
<1>5. status' = [status EXCEPT ![held[d].task] = StatusOf(answer[d])]
  BY <1>2 DEF SettleHumanCommitmentResult
<1> QED BY <1>2, <1>3, <1>4, <1>5 DEF IInv, AnswerIsEvidence

\* The drain after a settlement holds nothing.
LEMMA SettlementOfDrain ==
  ASSUME IInv, NEW d \in Drains, SettleHumanCommitmentResult(d)
  PROVE  /\ DrainTypes' /\ DrainTimes' /\ DrainShape' /\ BatchIsStale' /\ AnswerIsEvidence'
         /\ held'[d] = None /\ \A e \in Drains \ {d} : held'[e] = held[e] /\ born'[e] = born[e]
<1>1. UNCHANGED <<env, approvedAt, startedAt, memory, effect>>
  BY DEF SettleHumanCommitmentResult
<1>2. CASE EndDrain(d)
  BY <1>1, <1>2, DrainEnds
<1>3. CASE ~EndDrain(d)
  <2>1. /\ TakeTurn(d) /\ left[d] > 0
        /\ held' = [held EXCEPT ![d] = None] /\ answer' = [answer EXCEPT ![d] = None]
        /\ UNCHANGED <<born, batch, excluded, left>>
    BY <1>3 DEF SettleHumanCommitmentResult, BudgetLeft
  <2> USE DEF TakeTurn
  <2>0. PICK at \in HostTimes : now' = [now EXCEPT ![d] = at]
    BY <2>1
  <2>2. DrainTypes'
    BY <1>1, <2>0, <2>1, TurnTaken DEF IInv, TypeOK, DrainTypes
  <2>3. DrainTimes'
    <3>1. UNCHANGED <<clock, born>> /\ held' \in {held, [held EXCEPT ![d] = None]}
      BY <1>1, <2>1 DEF env
    <3> QED BY <2>0, <3>1, TurnTaken
  <2>7. DrainShape'
    <3>1. /\ held'[d] = None /\ answer'[d] = None /\ pc'[d] = "claim" /\ left'[d] > 0
          /\ \A e \in Drains \ {d} : /\ held'[e] = held[e] /\ answer'[e] = answer[e]
                                     /\ pc'[e] = pc[e] /\ left'[e] = left[e]
          /\ startedAt' = startedAt /\ calls' = calls
      BY <1>1, <2>1 DEF IInv, TypeOK, DrainTypes, effect
    <3> QED BY <3>1 DEF IInv, DrainShape
  <2>4. BatchIsStale'
    BY <1>1, <2>1 DEF IInv, BatchIsStale
  <2>5. AnswerIsEvidence'
    BY <1>1, <2>1, NoneAssumption DEF IInv, TypeOK, AnswerIsEvidence, Answers
  <2>6. held'[d] = None /\ \A e \in Drains \ {d} : held'[e] = held[e] /\ born'[e] = born[e]
    BY <2>1 DEF IInv, TypeOK
  <2> QED BY <2>2, <2>3, <2>4, <2>5, <2>6, <2>7
<1> QED BY <1>2, <1>3

LEMMA SettleStep ==
  ASSUME IInv, NEW d \in Drains, SettleHumanCommitmentResult(d)
  PROVE  IInv'
<1>1. UNCHANGED <<env, approvedAt, startedAt, memory, effect>>
  BY DEF SettleHumanCommitmentResult
<1>2. held[d] # None
  BY DEF SettleHumanCommitmentResult, IInv, DrainShape
<1>3. PICK t \in Tasks, to \in Outcomes :
         /\ t = held[d].task /\ status[t] = "running"
         /\ status' = [status EXCEPT ![t] = to]
         /\ to = "succeeded" => command[t] = "applied"
         /\ to = "failed" => command[t] = "refused"
  BY <1>2, HeldClaims, SettlementOfRow
<1>4. /\ DrainTypes' /\ DrainTimes' /\ DrainShape' /\ BatchIsStale' /\ AnswerIsEvidence'
      /\ held'[d] = None /\ \A e \in Drains \ {d} : held'[e] = held[e] /\ born'[e] = born[e]
  BY SettlementOfDrain
<1>5. \A e \in Drains \ {d} : held[e] # None => held[e].task \in Tasks /\ held[e].task # t
  BY <1>2, <1>3, HeldClaims DEF IInv, DrainShape
<1>6. TypeOK'
  <2>1. status' \in [Tasks -> Status]
    BY <1>3 DEF IInv, TypeOK, Status, Terminal
  <2> QED BY <1>1, <1>4, <2>1 DEF IInv, TypeOK, DrainTypes
<1>7. RowShape'
  BY <1>1, <1>3 DEF IInv, TypeOK, RowShape, Outcomes
<1>8. AnswerFindsItsTask'
  BY <1>1, <1>3, <1>4, <1>5 DEF IInv, TypeOK, AnswerFindsItsTask, GenerationMatches, Alive
<1>9. OnlyGrantedIsExecuted'
  BY <1>1, <1>3 DEF IInv, TypeOK, OnlyGrantedIsExecuted, Outcomes
<1>10. OneProviderCall' /\ OneOwnerPerTarget' /\ OutcomeIsEvidence'
  BY <1>1, <1>3 DEF IInv, TypeOK, OneProviderCall, OneOwnerPerTarget, OutcomeIsEvidence, Outcomes
<1> QED BY <1>4, <1>6, <1>7, <1>8, <1>9, <1>10 DEF IInv
-----------------------------------------------------------------------------
(* The specification.                                                      *)

LEMMA DrainStepKeeps ==
  ASSUME IInv, NEW d \in Drains, DrainStep(d)
  PROVE  IInv'
<1>1. CASE SendCommand(d)
  BY <1>1, SendStep
<1>2. CASE NothingSent(d)
  <2>1. "unknown" \in Answers
    BY DEF Answers
  <2> QED BY <1>2, <2>1, AnswerStep DEF NothingSent
<1>3. CASE \E a \in Answers : ProviderAnswers(d, a)
  BY <1>3, AnswerStep DEF ProviderAnswers
<1> QED BY <1>1, <1>2, <1>3, SelectStaleStep, SettleStaleStep, ClassifiedStep, ClaimStep,
           SettleStep DEF DrainStep

LEMMA NextStep ==
  ASSUME IInv, [Next]_vars
  PROVE  IInv'
<1>1. CASE UNCHANGED vars
  <2>1. TypeOK'
    BY <1>1 DEF vars, IInv, TypeOK
  <2> QED BY <1>1, <2>1, RowsUntouched DEF vars
<1>2. CASE Environment
  BY <1>2, TickStep, ConnectionStep, ProviderStep DEF Environment
<1>3. CASE MemberStep
  BY <1>3, MembersRowStep, BeginReopenStep, ReopenStep DEF MemberStep
<1>4. ASSUME NEW d \in Drains, StartDrain(d) \/ DrainStep(d) \/ Crash(d)
      PROVE  IInv'
  BY <1>4, StartDrainStep, DrainStepKeeps, CrashStep
<1> QED BY <1>1, <1>2, <1>3, <1>4 DEF Next

LEMMA InitIInv == Init => IInv
<1> SUFFICES ASSUME Init PROVE IInv
  OBVIOUS
<1>1. TypeOK
  <2>1. 0 \in 0..Budget
    BY ConstantsAssumption
  <2> QED BY <2>1 DEF Init, TypeOK, Status
<1>2. RowShape /\ OneOwnerPerTarget /\ DrainTimes
  <2>1. DrainTimes
    BY ConstantsAssumption DEF Init, DrainTimes
  <2> QED BY <2>1, NoneAssumption DEF Init, RowShape, OneOwnerPerTarget, Outcomes
<1>3. DrainShape /\ BatchIsStale /\ AnswerIsEvidence /\ AnswerFindsItsTask
  BY NoneAssumption DEF Init, DrainShape, BatchIsStale, AnswerIsEvidence, AnswerFindsItsTask, Answers
<1>4. OneProviderCall /\ OnlyGrantedIsExecuted /\ OutcomeIsEvidence
  BY DEF Init, OneProviderCall, OnlyGrantedIsExecuted, OutcomeIsEvidence
<1> QED BY <1>1, <1>2, <1>3, <1>4 DEF IInv

\* The inductive invariant holds in every reachable state.
THEOREM InductiveInvariant == Spec => []IInv
<1>1. Init => IInv
  BY InitIInv
<1>2. IInv /\ [Next]_vars => IInv'
  BY NextStep
<1> QED BY <1>1, <1>2, PTL DEF Spec

\* Rows, facts and drains keep their types; no drain exceeds its budget.
THEOREM TypeCorrect == Spec => []TypeOK
  BY InductiveInvariant, PTL DEF IInv

\* No classification, by any number of overlapping invocations, takes a
\* commitment from an invocation that may still answer for it.
THEOREM AnswersFindTheirTask == Spec => []AnswerFindsItsTask
  BY InductiveInvariant, PTL DEF IInv

\* The provider is called at most once for a commitment.
THEOREM CalledOnce == Spec => []OneProviderCall
  BY InductiveInvariant, PTL DEF IInv

\* Nothing is sent for a commitment no human granted, or one withdrawn.
THEOREM GrantedOnly == Spec => []OnlyGrantedIsExecuted
  BY InductiveInvariant, PTL DEF IInv

\* At most one approved commitment owns a target.
THEOREM TargetOwnedOnce == Spec => []OneOwnerPerTarget
  BY InductiveInvariant, PTL DEF IInv

\* A recorded outcome never claims more than what the provider did.
THEOREM OutcomesAreEvidence == Spec => []OutcomeIsEvidence
  BY InductiveInvariant, PTL DEF IInv
-----------------------------------------------------------------------------
(* What a step may do to the rows and to the provider.                     *)

\* A row moves from `from` to `to`.
RowMoves(t, from, to) == status[t] \in from /\ status' = [status EXCEPT ![t] = to]

\* Every step of the lane, as far as rows and commands can tell.
RowEffect ==
    \/ UNCHANGED <<status, startedAt, command, calls>>
    \/ \E t \in Tasks :
       /\ UNCHANGED <<startedAt, command, calls>>
       /\ \/ RowMoves(t, {"absent"}, "awaiting_approval")
          \/ RowMoves(t, {"awaiting_approval"}, "queued")
          \/ \E to \in Withdrawn : RowMoves(t, {"awaiting_approval", "queued"}, to)
          \/ \E to \in Outcomes :
                /\ RowMoves(t, {"running"}, to)
                /\ to = "succeeded" => command[t] = "applied"
                /\ to = "failed" => command[t] = "refused"
    \/ \E t \in Tasks, at \in Nat :
       /\ RowMoves(t, {"queued"}, "running")
       /\ startedAt[t] = None /\ startedAt' = [startedAt EXCEPT ![t] = at]
       /\ UNCHANGED <<command, calls>>
    \/ \E t \in Tasks :
       /\ status[t] = "running" /\ calls[t] = 0
       /\ calls' = [calls EXCEPT ![t] = 1]
       /\ command' = [command EXCEPT ![t] = "inflight"]
       /\ UNCHANGED <<status, startedAt>>
    \/ \E t \in Tasks, how \in {"applied", "refused"} :
       /\ command[t] = "inflight"
       /\ command' = [command EXCEPT ![t] = how]
       /\ UNCHANGED <<status, startedAt, calls>>

LEMMA MembersEffect ==
  ASSUME IInv, MemberStep
  PROVE  RowEffect
<1>1. ASSUME NEW t \in Tasks,
             PrepareCommitment(t) \/ ApproveTask(t) \/ DismissTask(t) \/ CancelTask(t)
      PROVE  RowEffect
  BY <1>1 DEF PrepareCommitment, ApproveTask, DismissTask, CancelTask, Cancellable,
     RowEffect, RowMoves, Withdrawn
<1>2. ASSUME NEW m \in Members, ReopenTask(m) \/ \E t \in Tasks : BeginReopen(m, t)
      PROVE  RowEffect
  BY <1>2 DEF ReopenTask, BeginReopen, RowEffect
<1> QED BY <1>1, <1>2 DEF MemberStep

LEMMA ClaimEffect ==
  ASSUME IInv, NEW d \in Drains, NEW skipped \in SUBSET Tasks,
         ClaimNextDueHumanCommitment(d, skipped)
  PROVE  RowEffect
<1>1. UNCHANGED <<command, calls>> /\ now[d] \in Nat
  BY DEF ClaimNextDueHumanCommitment, IInv, TypeOK
<1>2. CASE UNCHANGED row
  BY <1>1, <1>2 DEF RowEffect
<1>3. ASSUME NEW t \in Tasks, Queued(t), ExpireQueued(d, t)
      PROVE  RowEffect
  BY <1>1, <1>3 DEF Queued, ExpireQueued, RowEffect, RowMoves, Withdrawn
<1>4. ASSUME NEW t \in Tasks, Queued(t), CasHumanClaim(d, t)
      PROVE  RowEffect
  <2>1. status[t] = "queued" /\ startedAt[t] = None
    BY <1>4 DEF Queued, IInv, RowShape, Outcomes
  <2> QED BY <1>1, <1>4, <2>1 DEF CasHumanClaim, RowEffect, RowMoves
<1> QED BY <1>2, <1>3, <1>4 DEF ClaimNextDueHumanCommitment, ExcludeForCapability

LEMMA DrainEffect ==
  ASSUME IInv, NEW d \in Drains, DrainStep(d)
  PROVE  RowEffect
<1>1. ASSUME NEW t \in Tasks, SettleStale(d, t)
      PROVE  RowEffect
  <2>1. CASE StillRunning(t)
    BY <1>1, <2>1 DEF SettleStale, StillRunning, RowEffect, RowMoves, Outcomes
  <2>2. CASE ~StillRunning(t)
    BY <1>1, <2>2 DEF SettleStale, RowEffect
  <2> QED BY <2>1, <2>2
<1>2. CASE SendCommand(d)
  <2>1. held[d] # None /\ pc[d] = "execute" /\ Alive(d)
    BY <1>2 DEF SendCommand, IInv, DrainShape
  <2>2. PICK t \in Tasks : t = held[d].task /\ status[t] = "running" /\ calls[t] = 0
    BY <2>1, HeldClaims, AliveHolds DEF IInv, DrainShape
  <2>3. /\ calls' = [calls EXCEPT ![t] = 1] /\ command' = [command EXCEPT ![t] = "inflight"]
        /\ UNCHANGED <<status, startedAt>>
    BY <1>2, <2>2 DEF SendCommand
  <2> QED BY <2>2, <2>3 DEF RowEffect
<1>3. CASE SettleHumanCommitmentResult(d)
  <2>1. held[d] # None
    BY <1>3 DEF SettleHumanCommitmentResult, IInv, DrainShape
  <2>2. PICK t \in Tasks : t = held[d].task
    BY <2>1, HeldClaims
  <2>3. UNCHANGED <<startedAt, command, calls>>
    BY <1>3 DEF SettleHumanCommitmentResult
  <2> QED BY <1>3, <2>2, <2>3, SettlementOfRow DEF RowEffect, RowMoves
<1>4. CASE SelectStale(d) \/ Classified(d) \/ NothingSent(d) \/ \E a \in Answers : ProviderAnswers(d, a)
  BY <1>4 DEF SelectStale, Classified, NothingSent, ProviderAnswers, Answered, RowEffect
<1> QED BY <1>1, <1>2, <1>3, <1>4, ClaimEffect DEF DrainStep

LEMMA StepEffect ==
  ASSUME IInv, [Next]_vars
  PROVE  RowEffect
<1>1. CASE UNCHANGED vars
  BY <1>1 DEF vars, RowEffect
<1>2. CASE Environment
  BY <1>2 DEF Environment, Tick, ConnectionMoves, ProviderDecides, RowEffect
<1>3. ASSUME NEW d \in Drains, StartDrain(d) \/ Crash(d)
      PROVE  RowEffect
  BY <1>3 DEF StartDrain, Crash, RowEffect
<1> QED BY <1>1, <1>2, <1>3, MembersEffect, DrainEffect DEF Next

\* A terminal commitment never changes again and keeps its claim; a claimed one
\* is never queued again, whatever is lost, late or classified.
THEOREM ExecutionIsFinal == Spec => NeverExecutedAgain
<1> DEFINE Final == \A t \in Tasks :
              /\ status[t] \in Terminal => status'[t] = status[t]
              /\ startedAt[t] # None => startedAt'[t] = startedAt[t] /\ status'[t] # "queued"
<1>1. ASSUME IInv, [Next]_vars
      PROVE  Final
  <2>1. RowEffect
    BY <1>1, StepEffect
  <2>2. \A t \in Tasks : startedAt[t] # None <=> status[t] \in {"running"} \cup Outcomes
    BY <1>1 DEF IInv, RowShape
  <2>3. status \in [Tasks -> Status] /\ startedAt \in [Tasks -> Nat \cup {None}]
    BY <1>1 DEF IInv, TypeOK
  <2> QED BY <2>1, <2>2, <2>3 DEF RowEffect, RowMoves, Terminal, Withdrawn, Outcomes
<1>2. IInv /\ [Next]_vars => [Final]_vars
  BY <1>1
<1>3. Spec => [][Final]_vars
  BY <1>2, InductiveInvariant, PTL DEF Spec
<1> QED BY <1>3 DEF NeverExecutedAgain
-----------------------------------------------------------------------------
(* The lane implements ApprovedEffect.                                     *)

\* The stage of each status.
LEMMA Stages ==
  /\ StageOf("absent") = "open" /\ StageOf("awaiting_approval") = "open"
  /\ StageOf("queued") = "granted" /\ StageOf("running") = "executing"
  /\ \A s \in Withdrawn : StageOf(s) = "withdrawn"
  /\ \A s \in Outcomes : StageOf(s) = s
BY DEF StageOf, Withdrawn, Outcomes

\* A row that moves, moves its stage.
LEMMA StageMoves ==
  ASSUME IInv, NEW t \in Tasks, NEW to, status' = [status EXCEPT ![t] = to]
  PROVE  Stage' = [Stage EXCEPT ![t] = StageOf(to)]
<1>1. status \in [Tasks -> Status]
  BY DEF IInv, TypeOK
<1> QED BY <1>1 DEF Stage

LEMMA StepImplements ==
  ASSUME IInv, [Next]_vars
  PROVE  [Effect!Next]_(Effect!vars)
<1> USE DEF RowMoves, Effect!Move
<1>1. RowEffect
  BY StepEffect
<1>2. CASE UNCHANGED <<status, startedAt, command, calls>>
  BY <1>2 DEF Effect!vars, Stage
<1>3. ASSUME NEW t \in Tasks, UNCHANGED <<command, calls>>,
             RowMoves(t, {"absent"}, "awaiting_approval")
      PROVE  UNCHANGED Effect!vars
  <2>1. Stage' = [Stage EXCEPT ![t] = StageOf("awaiting_approval")]
    BY <1>3, StageMoves
  <2>2. StageOf("awaiting_approval") = "open" /\ Stage[t] = "open"
    BY <1>3, Stages DEF Stage
  <2> QED BY <1>3, <2>1, <2>2 DEF Effect!vars, Stage
<1>4. ASSUME NEW t \in Tasks, UNCHANGED <<command, calls>>,
             RowMoves(t, {"awaiting_approval"}, "queued")
      PROVE  Effect!Grant(t)
  <2>1. Stage' = [Stage EXCEPT ![t] = StageOf("queued")]
    BY <1>4, StageMoves
  <2>2. StageOf("queued") = "granted" /\ Stage[t] = "open"
    BY <1>4, Stages DEF Stage
  <2> QED BY <1>4, <2>1, <2>2 DEF Effect!Grant
<1>5. ASSUME NEW t \in Tasks, NEW to \in Withdrawn, UNCHANGED <<command, calls>>,
             RowMoves(t, {"awaiting_approval", "queued"}, to)
      PROVE  Effect!Withdraw(t)
  <2>1. Stage' = [Stage EXCEPT ![t] = StageOf(to)]
    BY <1>5, StageMoves
  <2>2. StageOf(to) = "withdrawn" /\ Stage[t] \in {"open", "granted"}
    BY <1>5, Stages DEF Stage
  <2> QED BY <1>5, <2>1, <2>2 DEF Effect!Withdraw
<1>6. ASSUME NEW t \in Tasks, NEW to \in Outcomes, UNCHANGED <<command, calls>>,
             RowMoves(t, {"running"}, to),
             to = "succeeded" => command[t] = "applied",
             to = "failed" => command[t] = "refused"
      PROVE  Effect!Conclude(t, to)
  <2>1. Stage' = [Stage EXCEPT ![t] = StageOf(to)]
    BY <1>6, StageMoves
  <2>2. StageOf(to) = to /\ Stage[t] = "executing"
    BY <1>6, Stages DEF Stage
  <2> QED BY <1>6, <2>1, <2>2 DEF Effect!Conclude
<1>7. ASSUME NEW t \in Tasks, UNCHANGED <<command, calls>>, RowMoves(t, {"queued"}, "running")
      PROVE  Effect!Execute(t)
  <2>1. Stage' = [Stage EXCEPT ![t] = StageOf("running")]
    BY <1>7, StageMoves
  <2>2. StageOf("running") = "executing" /\ Stage[t] = "granted"
    BY <1>7, Stages DEF Stage
  <2> QED BY <1>7, <2>1, <2>2 DEF Effect!Execute
<1>8. ASSUME NEW t \in Tasks, status[t] = "running", calls[t] = 0,
             calls' = [calls EXCEPT ![t] = 1],
             command' = [command EXCEPT ![t] = "inflight"], UNCHANGED status
      PROVE  Effect!Send(t)
  BY <1>8, Stages DEF Effect!Send, Stage
<1>9. ASSUME NEW t \in Tasks, NEW how \in {"applied", "refused"}, command[t] = "inflight",
             command' = [command EXCEPT ![t] = how], UNCHANGED <<status, calls>>
      PROVE  Effect!Provide(t, how)
  BY <1>9 DEF Effect!Provide, Stage
<1> QED BY <1>1, <1>2, <1>3, <1>4, <1>5, <1>6, <1>7, <1>8, <1>9
        DEF RowEffect, Effect!Next, Outcomes

\* Every behaviour of members, drains and the provider is one of an effect
\* granted once, sent at most once and honestly concluded.  The rows of the
\* fixture kind are awaiting approval at the start, the others absent.
THEOREM LaneImplementsEffect == Spec => ImplementsEffect
<1>1. Init => Effect!Init
  BY Stages DEF Init, Effect!Init, Stage
<1>2. IInv /\ [Next]_vars => [Effect!Next]_(Effect!vars)
  BY StepImplements
<1> QED BY <1>1, <1>2, InductiveInvariant, PTL DEF Spec, ImplementsEffect, Effect!Spec
-----------------------------------------------------------------------------
(* The dismissal memory.                                                   *)

\* A stamp is as far from the commit as its clock and its transaction allow.
Stamped(f) ==
    IF f.fact = "dismissal" THEN f.committed <= f.at + Skew /\ f.at <= f.committed + Skew
    ELSE f.at <= f.committed

\* Facts and open reopenings are stamped so, and the newest fact of a tuple
\* is as new as the one committed last.
MemoryOrdered ==
    /\ \A m \in Members : reopening[m] # None => reopening[m].at <= clock
    /\ \A p \in Payloads :
         /\ newest[p] = None <=> last[p] = None
         /\ last[p] # None => Stamped(newest[p]) /\ Stamped(last[p]) /\ last[p].at <= newest[p].at

\* An inserted fact that is stamped as its kind is keeps the memory in order.
LEMMA InsertKeepsOrder ==
  ASSUME IInv, MemoryOrdered, NEW p \in Payloads, NEW e \in Fact, InsertFact(p, e), Stamped(e),
         clock' = clock, \A m \in Members : reopening'[m] \in {None, reopening[m]}
  PROVE  MemoryOrdered'
<1>1. /\ last'[p] = e /\ newest'[p] \in {e, newest[p]} \ {None} /\ e.at <= newest'[p].at
      /\ \A q \in Payloads \ {p} : newest'[q] = newest[q] /\ last'[q] = last[q]
  BY FactInserted
<1>2. e # None
  BY NoneAssumption
<1>3. Stamped(newest'[p])
  BY <1>1 DEF MemoryOrdered
<1> QED BY <1>1, <1>2, <1>3 DEF MemoryOrdered, Stamped

LEMMA MemoryStep ==
  ASSUME IInv, MemoryOrdered, [Next]_vars
  PROVE  MemoryOrdered'
<1>1. clock \in Nat /\ reopening \in [Members -> Reopening \cup {None}]
  BY DEF IInv, TypeOK
<1>2. ASSUME UNCHANGED memory, clock' \in Nat, clock <= clock'
      PROVE  MemoryOrdered'
  <2>1. \A m \in Members : reopening[m] # None => reopening[m].at <= clock'
    BY <1>1, <1>2 DEF MemoryOrdered
  <2> QED BY <1>2, <2>1 DEF MemoryOrdered, Stamped
<1>3. ASSUME NEW t \in Tasks, DismissTask(t)
      PROVE  MemoryOrdered'
  <2>1. PICK at \in HostTimes :
           InsertFact(PayloadOf[t], [fact |-> "dismissal", at |-> at, committed |-> clock])
    BY <1>3 DEF DismissTask
  <2>2. at \in Nat /\ at <= clock + Skew /\ clock <= at + Skew
    BY HostStamps
  <2>3. PICK e \in Fact : e = [fact |-> "dismissal", at |-> at, committed |-> clock]
    BY <1>1, <2>2 DEF Fact
  <2>4. Stamped(e)
    BY <2>2, <2>3 DEF Stamped
  <2>5. PayloadOf[t] \in Payloads /\ UNCHANGED <<clock, reopening>>
    BY <1>3, ConstantsAssumption DEF DismissTask
  <2> QED BY <2>1, <2>3, <2>4, <2>5, InsertKeepsOrder
<1>4. ASSUME NEW m \in Members, ReopenTask(m)
      PROVE  MemoryOrdered'
  <2>1. reopening[m] # None /\ reopening[m].task \in Tasks /\ reopening[m].at \in Nat
    BY <1>1, <1>4 DEF ReopenTask
  <2>2. PICK e \in Fact : e = [fact |-> "reopen", at |-> reopening[m].at, committed |-> clock]
    BY <1>1, <2>1 DEF Fact
  <2>3. Stamped(e)
    BY <2>1, <2>2 DEF Stamped, MemoryOrdered
  <2>4. clock' = clock /\ \A n \in Members : reopening'[n] \in {None, reopening[n]}
    BY <1>1, <1>4 DEF ReopenTask
  <2>5. CASE UNCHANGED <<newest, last>>
    BY <2>4, <2>5 DEF MemoryOrdered, Stamped
  <2>6. CASE ~UNCHANGED <<newest, last>>
    <3>1. InsertFact(PayloadOf[reopening[m].task], e)
      BY <1>4, <2>2, <2>6 DEF ReopenTask
    <3>2. PayloadOf[reopening[m].task] \in Payloads
      BY <2>1, ConstantsAssumption
    <3> QED BY <2>3, <2>4, <3>1, <3>2, InsertKeepsOrder
  <2> QED BY <2>5, <2>6
<1>5. ASSUME NEW m \in Members, NEW t \in Tasks, BeginReopen(m, t)
      PROVE  MemoryOrdered'
  <2>1. UNCHANGED <<clock, newest, last>> /\ \A n \in Members :
            reopening'[n] = reopening[n] \/ reopening'[n].at = clock
    BY <1>1, <1>5 DEF BeginReopen
  <2>2. \A n \in Members : reopening'[n] # None => reopening'[n].at <= clock
    BY <1>1, <2>1 DEF MemoryOrdered
  <2> QED BY <2>1, <2>2 DEF MemoryOrdered, Stamped
<1>6. CASE UNCHANGED vars
  BY <1>1, <1>2, <1>6 DEF vars
<1>7. CASE Environment
  BY <1>1, <1>2, <1>7 DEF Environment, Tick, ConnectionMoves, ProviderDecides
<1>8. CASE MemberStep
  BY <1>1, <1>2, <1>3, <1>4, <1>5, <1>8 DEF MemberStep, PrepareCommitment, ApproveTask, CancelTask
<1>9. ASSUME NEW d \in Drains, StartDrain(d) \/ DrainStep(d) \/ Crash(d)
      PROVE  MemoryOrdered'
  <2>1. UNCHANGED <<clock, memory>>
    BY <1>9 DEF StartDrain, Crash, DrainStep, SelectStale, SettleStale, Classified,
       ClaimNextDueHumanCommitment, SendCommand, NothingSent, ProviderAnswers, Answered,
       SettleHumanCommitmentResult
  <2> QED BY <1>1, <1>2, <2>1
<1> QED BY <1>6, <1>7, <1>8, <1>9 DEF Next

\* What a prepare call reads is the fact that was committed last, whenever the
\* two clocks and the start of a reopen leave no doubt about the order.
THEOREM LastFactsDecide == Spec => []LastFactDecides
<1>1. Init => MemoryOrdered
  BY DEF Init, MemoryOrdered
<1>2. IInv /\ MemoryOrdered /\ [Next]_vars => MemoryOrdered'
  BY MemoryStep
<1>3. ASSUME IInv, MemoryOrdered
      PROVE  LastFactDecides
  <2> SUFFICES ASSUME NEW p \in Payloads, last[p] # None, LatestFact(p) # last[p].fact
               PROVE  IF last[p].fact = "dismissal"
                      THEN last[p].committed <= newest[p].at + Skew
                      ELSE last[p].at <= newest[p].committed + Skew
    BY DEF LastFactDecides
  <2>1. newest[p] # None /\ Stamped(newest[p]) /\ Stamped(last[p]) /\ last[p].at <= newest[p].at
    BY <1>3 DEF MemoryOrdered
  <2>2. newest[p] \in Fact /\ last[p] \in Fact
    BY <1>3, <2>1 DEF IInv, TypeOK
  <2>3. newest[p].fact # last[p].fact
    BY <2>1 DEF LatestFact
  <2> QED BY <2>1, <2>2, <2>3, ConstantsAssumption DEF Stamped, Fact
<1> QED BY <1>1, <1>2, <1>3, InductiveInvariant, PTL DEF Spec
=============================================================================
