-------------------------- MODULE AgentTaskProofs --------------------------
(***************************************************************************)
(* Proofs about AgentTask for every set of tasks, drains and sessions, and *)
(* every window and claim lag with ClaimLag < Window.                      *)
(***************************************************************************)
EXTENDS AgentTask, TLAPS

USE DEF ConstantsAssumption, NoneAssumption, Claim, Producer, env, row, drain, eve

-----------------------------------------------------------------------------
(* What the invariant says of one row, one session, one drain.             *)

\* A bound task is bound to a session that carries its generation.
LEMMA BoundTask ==
  ASSUME IInv, NEW t \in Tasks, sessionId[t] # None
  PROVE  /\ sessionId[t] \in Sessions /\ startedAt[t] \in Nat
         /\ origin[sessionId[t]] = [task |-> t, gen |-> startedAt[t]]
         /\ origin[sessionId[t]] # None
<1>1. sessionId[t] \in Sessions /\ startedAt[t] \in Nat
  BY DEF IInv, TypeOK, RowShape
<1>2. origin[sessionId[t]] = [task |-> t, gen |-> startedAt[t]]
  BY DEF IInv, AuthorityOfGeneration
<1>3. [task |-> t, gen |-> startedAt[t]] \in Claim
  BY <1>1
<1> QED BY <1>1, <1>2, <1>3, NoneAssumption

\* The claims sessions and drains carry are claims, and bounded.
LEMMA CarriedClaims ==
  ASSUME IInv
  PROVE  /\ \A s \in Sessions : origin[s] # None =>
              /\ origin[s] \in Claim /\ origin[s].task \in Tasks /\ origin[s].gen \in Nat
              /\ Bounded(origin[s])
         /\ \A d \in Drains : held[d] # None =>
              /\ held[d] \in Claim /\ held[d].task \in Tasks /\ held[d].gen \in Nat
              /\ Bounded(held[d])
<1>1. \A s \in Sessions : origin[s] # None => origin[s] \in Claim
  BY DEF IInv, TypeOK
<1>2. \A d \in Drains : held[d] # None => held[d] \in Claim
  BY DEF IInv, TypeOK
<1>3. \A c \in Claim : c.task \in Tasks /\ c.gen \in Nat
  OBVIOUS
<1> QED BY <1>1, <1>2, <1>3 DEF IInv, GenerationsBounded
-----------------------------------------------------------------------------
(* The claim transaction and the generations.                              *)

\* A task that can be claimed now has no carried claim as new as `now`.
LEMMA ClaimFresh ==
  ASSUME IInv, NEW d \in Drains, clock <= now[d] + ClaimLag,
         NEW c \in Claim, Bounded(c), Claimable(c.task, now[d])
  PROVE  c.gen < now[d]
<1>1. /\ now[d] \in Nat /\ clock \in Nat /\ c.gen \in Nat /\ c.task \in Tasks
      /\ Window \in Nat /\ ClaimLag \in Nat /\ ClaimLag < Window
  BY ConstantsAssumption DEF IInv, TypeOK
<1>2. CASE startedAt[c.task] = None
  BY <1>1, <1>2 DEF Bounded
<1>3. CASE startedAt[c.task] # None
  <2>1. status[c.task] # "queued" /\ startedAt[c.task] \in Nat
    BY <1>1, <1>3 DEF IInv, TypeOK, RowShape
  <2>2. startedAt[c.task] + Window <= now[d]
    BY <2>1 DEF Claimable, Stale
  <2> QED BY <1>1, <1>3, <2>1, <2>2 DEF Bounded
<1> QED BY <1>2, <1>3

\* Recovery and claim keep a carried claim bounded.
LEMMA RecoveryKeepsBound ==
  ASSUME IInv, NEW at \in Nat, at <= clock, clock' = clock, NEW claimed,
         RecoverAndClaim(at, claimed),
         NEW c \in Claim, Bounded(c), c.task = claimed => c.gen <= at
  PROVE  Bounded(c)'
<1>1. clock \in Nat /\ c.gen \in Nat /\ c.task \in Tasks /\ Window \in Nat
  BY ConstantsAssumption DEF IInv, TypeOK
<1>2. CASE c.task = claimed
  BY <1>1, <1>2, NoneAssumption DEF RecoverAndClaim, Bounded
<1>3. CASE c.task # claimed /\ Stale(c.task, at)
  <2>1. startedAt[c.task] \in Nat /\ startedAt[c.task] + Window <= at
    BY <1>1, <1>3 DEF IInv, TypeOK, RowShape, Stale
  <2>2. startedAt'[c.task] = None
    BY <1>1, <1>3 DEF RecoverAndClaim
  <2> QED BY <1>1, <2>1, <2>2, NoneAssumption DEF Bounded
<1>4. CASE c.task # claimed /\ ~Stale(c.task, at)
  BY <1>1, <1>4 DEF RecoverAndClaim, Bounded
<1> QED BY <1>2, <1>3, <1>4
-----------------------------------------------------------------------------
(* Each action preserves the invariant.                                    *)

\* Whatever ends a drain without touching a row.
LEMMA DrainEnds ==
  ASSUME IInv, NEW d \in Drains, EndDrain(d), crashes' \in Nat,
         UNCHANGED <<clock, funded, ready, row, producer, eve>>
  PROVE  IInv'
<1> USE DEF EndDrain
<1>1. TypeOK'
  BY DEF IInv, TypeOK
<1>2. DrainShape'
  BY NoneAssumption DEF IInv, TypeOK, DrainShape
<1>3. GenerationsBounded'
  BY DEF IInv, TypeOK, GenerationsBounded, Bounded
<1>4. ClaimsExclusive'
  BY DEF IInv, TypeOK, ClaimsExclusive
<1>5. RowShape' /\ SessionShape' /\ AuthorityOfGeneration' /\ OneSessionPerGeneration'
      /\ OutputsOfAuthority' /\ SettlementIsWhole'
  BY DEF IInv, RowShape, SessionShape, AuthorityOfGeneration, OneSessionPerGeneration,
     OutputsOfAuthority, SettlementIsWhole
<1> QED BY <1>1, <1>2, <1>3, <1>4, <1>5 DEF IInv

LEMMA TickStep ==
  ASSUME IInv, Tick
  PROVE  IInv'
<1> USE DEF Tick
<1>1. TypeOK'
  BY DEF IInv, TypeOK
<1>2. RowShape'
  BY DEF IInv, TypeOK, RowShape
<1>3. DrainShape'
  BY DEF IInv, TypeOK, DrainShape
<1>4. GenerationsBounded'
  <2>1. \A c \in Claim : Bounded(c) => Bounded(c)'
    BY ConstantsAssumption DEF IInv, TypeOK, Bounded
  <2> QED BY <2>1, CarriedClaims DEF GenerationsBounded
<1>5. SessionShape' /\ ClaimsExclusive' /\ AuthorityOfGeneration' /\ OneSessionPerGeneration'
      /\ OutputsOfAuthority' /\ SettlementIsWhole'
  BY DEF IInv, SessionShape, ClaimsExclusive, AuthorityOfGeneration,
     OneSessionPerGeneration, OutputsOfAuthority, SettlementIsWhole
<1> QED BY <1>1, <1>2, <1>3, <1>4, <1>5 DEF IInv

LEMMA BrandsStep ==
  ASSUME IInv, NEW b \in Brands, CreditMoves(b) \/ ContextImported(b)
  PROVE  IInv'
<1> USE DEF CreditMoves, ContextImported
<1>1. TypeOK'
  BY DEF IInv, TypeOK, DrainShape, SessionShape, Terminal, Status, OutcomeCode
<1>2. RowShape' /\ DrainShape' /\ SessionShape' /\ GenerationsBounded' /\ ClaimsExclusive' /\ AuthorityOfGeneration' /\ OneSessionPerGeneration' /\ OutputsOfAuthority' /\ SettlementIsWhole'
  BY DEF IInv, TypeOK, RowShape, DrainShape, SessionShape, GenerationsBounded,
     ClaimsExclusive, AuthorityOfGeneration, OneSessionPerGeneration,
     OutputsOfAuthority, SettlementIsWhole, Bounded
<1> QED BY <1>1, <1>2 DEF IInv

LEMMA StartDrainStep ==
  ASSUME IInv, NEW d \in Drains, StartDrain(d)
  PROVE  IInv'
<1> USE DEF StartDrain
<1>1. TypeOK'
  <2>1. Budget \in 0..Budget
    BY ConstantsAssumption
  <2> QED BY <2>1 DEF IInv, TypeOK
<1>2. DrainShape'
  BY ConstantsAssumption, NoneAssumption DEF IInv, TypeOK, DrainShape, SessionShape
<1>3. GenerationsBounded'
  BY ConstantsAssumption, NoneAssumption DEF IInv, TypeOK, RowShape, DrainShape,
     GenerationsBounded, Bounded
<1>4. ClaimsExclusive'
  BY ConstantsAssumption, NoneAssumption DEF IInv, TypeOK, DrainShape,
     GenerationsBounded, Bounded, ClaimsExclusive
<1>5. RowShape' /\ SessionShape' /\ AuthorityOfGeneration' /\ OneSessionPerGeneration' /\ OutputsOfAuthority' /\ SettlementIsWhole'
  BY DEF IInv, TypeOK, RowShape, SessionShape, AuthorityOfGeneration,
     OneSessionPerGeneration, OutputsOfAuthority, SettlementIsWhole
<1> QED BY <1>1, <1>2, <1>3, <1>4, <1>5 DEF IInv

\* The drain's side of a claim that found `claimed`.
TakesClaim(d, claimed) ==
    /\ held' = [held EXCEPT ![d] = [task |-> claimed, gen |-> now[d]]]
    /\ left' = [left EXCEPT ![d] = left[d] - 1]
    /\ pc' = [pc EXCEPT ![d] = "send"]
    /\ UNCHANGED <<now, handle>>

\* The rows after a recovery that claimed `claimed`, or None.
LEMMA RecoveryKeepsRows ==
  ASSUME IInv, NEW at \in Nat, at <= clock, NEW claimed, RecoverAndClaim(at, claimed),
         claimed \in Tasks => Claimable(claimed, at),
         UNCHANGED <<env, producer, eve>>
  PROVE  /\ status' \in [Tasks -> Status] /\ startedAt' \in [Tasks -> Nat \cup {None}]
         /\ completion' = completion
         /\ RowShape' /\ AuthorityOfGeneration' /\ OutputsOfAuthority' /\ SettlementIsWhole'
<1>1. \A t \in Tasks : Stale(t, at) => completion[t] = None /\ sessionId[t] = None
  BY DEF IInv, RowShape, Stale
<1>2. completion' = completion
  BY <1>1 DEF IInv, TypeOK, RecoverAndClaim
<1>3. status' \in [Tasks -> Status] /\ startedAt' \in [Tasks -> Nat \cup {None}]
  BY DEF IInv, TypeOK, RecoverAndClaim, Status
<1>4. \A t \in Tasks : \/ status'[t] = status[t] /\ startedAt'[t] = startedAt[t]
                       \/ /\ status[t] \in {"queued", "running"} /\ sessionId[t] = None
                          /\ \/ status'[t] = "queued" /\ startedAt'[t] = None
                             \/ status'[t] = "running" /\ startedAt'[t] = at
  BY DEF IInv, TypeOK, RecoverAndClaim, Claimable, Stale
<1>5. RowShape'
  BY <1>2, <1>4, NoneAssumption DEF IInv, RowShape, Terminal, RecoverAndClaim
<1>6. AuthorityOfGeneration'
  BY <1>4 DEF IInv, AuthorityOfGeneration, RecoverAndClaim
<1>7. OutputsOfAuthority'
  BY DEF IInv, OutputsOfAuthority, RecoverAndClaim
<1>8. SettlementIsWhole'
  BY <1>2, <1>4 DEF IInv, SettlementIsWhole, RecoverAndClaim
<1> QED BY <1>2, <1>3, <1>5, <1>6, <1>7, <1>8

LEMMA ClaimStep ==
  ASSUME IInv, NEW d \in Drains, NEW skipped, ClaimNext(d, skipped)
  PROVE  IInv'
<1>1. /\ pc[d] = "claim" /\ now[d] \in Nat /\ now[d] <= clock /\ clock <= now[d] + ClaimLag
      /\ left[d] \in 0..Budget /\ left[d] > 0 /\ held[d] = None
      /\ UNCHANGED <<env, producer, eve>>
  BY DEF ClaimNext, IInv, TypeOK, DrainShape
<1>2. CASE UNCHANGED row /\ EndDrain(d)
  BY <1>1, <1>2, DrainEnds DEF IInv, TypeOK
<1>3. ASSUME RecoverAndClaim(now[d], None), EndDrain(d)
      PROVE  IInv'
  <2>1. None \notin Tasks
    BY ConstantsAssumption, NoneAssumption
  <2>2. /\ status' \in [Tasks -> Status] /\ startedAt' \in [Tasks -> Nat \cup {None}]
        /\ completion' = completion
        /\ RowShape' /\ AuthorityOfGeneration' /\ OutputsOfAuthority' /\ SettlementIsWhole'
    BY <1>1, <1>3, <2>1, RecoveryKeepsRows
  <2>3. \A c \in Claim : Bounded(c) => Bounded(c)'
    BY <1>1, <1>3, <2>1, RecoveryKeepsBound
  <2>4. TypeOK'
    BY <1>1, <1>3, <2>2 DEF IInv, TypeOK, RecoverAndClaim, EndDrain
  <2>5. DrainShape'
    BY <1>1, <1>3, NoneAssumption DEF IInv, TypeOK, DrainShape, EndDrain
  <2>6. GenerationsBounded'
    BY <1>1, <1>3, <2>3, CarriedClaims DEF GenerationsBounded, EndDrain, IInv, TypeOK
  <2>7. ClaimsExclusive'
    BY <1>1, <1>3 DEF IInv, TypeOK, ClaimsExclusive, EndDrain
  <2>8. SessionShape' /\ OneSessionPerGeneration'
    BY <1>1 DEF IInv, SessionShape, OneSessionPerGeneration
  <2> QED BY <2>2, <2>4, <2>5, <2>6, <2>7, <2>8 DEF IInv
<1>4. ASSUME NEW t \in Tasks, Claimable(t, now[d]), RecoverAndClaim(now[d], t), TakesClaim(d, t)
      PROVE  IInv'
  <2>1. PICK claim \in Claim : claim = [task |-> t, gen |-> now[d]] /\ claim # None
    <3>1. [task |-> t, gen |-> now[d]] \in Claim
      BY <1>1
    <3> QED BY <3>1, NoneAssumption
  <2>2. held' = [held EXCEPT ![d] = claim]
    BY <1>4, <2>1 DEF TakesClaim
  <2>3. /\ status' \in [Tasks -> Status] /\ startedAt' \in [Tasks -> Nat \cup {None}]
        /\ completion' = completion
        /\ RowShape' /\ AuthorityOfGeneration' /\ OutputsOfAuthority' /\ SettlementIsWhole'
    BY <1>1, <1>4, RecoveryKeepsRows
  <2>4. \A c \in Claim : Bounded(c) /\ c.task = t => c.gen < now[d]
    BY <1>1, <1>4, ClaimFresh
  <2>5. \A c \in Claim : Bounded(c) => Bounded(c)'
    <3> SUFFICES ASSUME NEW c \in Claim, Bounded(c) PROVE Bounded(c)'
      OBVIOUS
    <3>1. c.task = t => c.gen <= now[d]
      BY <1>1, <2>4
    <3> QED BY <1>1, <1>4, <3>1, RecoveryKeepsBound
  <2>6. Bounded(claim)'
    BY <1>1, <1>4, <2>1, NoneAssumption DEF Bounded, RecoverAndClaim
  <2>7. TypeOK'
    <3>1. left[d] - 1 \in 0..Budget
      BY <1>1, ConstantsAssumption
    <3>2. left' \in [Drains -> 0..Budget] /\ held' \in [Drains -> Claim \cup {None}]
      BY <1>4, <2>2, <3>1 DEF IInv, TypeOK, TakesClaim
    <3> QED BY <1>1, <1>4, <2>3, <3>2 DEF IInv, TypeOK, RecoverAndClaim, TakesClaim
  <2>8. DrainShape'
    BY <1>1, <1>4, <2>1, <2>2 DEF IInv, TypeOK, DrainShape, TakesClaim
  <2>9. GenerationsBounded'
    BY <1>1, <2>2, <2>5, <2>6, CarriedClaims DEF GenerationsBounded, IInv, TypeOK
  <2>10. ClaimsExclusive'
    <3>1. \A s \in Sessions : origin[s] # claim
      BY <1>1, <2>1, <2>4, CarriedClaims
    <3>2. \A e \in Drains : held[e] # claim
      BY <1>1, <2>1, <2>4, CarriedClaims
    <3> QED BY <1>1, <1>4, <2>2, <3>1, <3>2 DEF IInv, TypeOK, ClaimsExclusive, TakesClaim
  <2>11. SessionShape' /\ OneSessionPerGeneration'
    BY <1>1 DEF IInv, SessionShape, OneSessionPerGeneration
  <2> QED BY <2>3, <2>7, <2>8, <2>9, <2>10, <2>11 DEF IInv
<1> QED BY <1>2, <1>3, <1>4 DEF ClaimNext, TakesClaim

LEMMA SendAcceptedStep ==
  ASSUME IInv, NEW d \in Drains, NEW s \in Sessions, SendAccepted(d, s)
  PROVE  IInv'
<1> USE DEF SendAccepted, OpenSession
<1>1. TypeOK'
  BY DEF IInv, TypeOK, DrainShape, SessionShape, Terminal, Status, OutcomeCode
<1>2. DrainShape'
  <2>1. \A e \in Drains : pc[e] = "bind" => handle[e] \in Sessions /\ handle[e] # s
    BY DEF IInv, TypeOK, DrainShape, SessionShape
  <2>2. held[d] # None /\ s # None
    BY NoneAssumption DEF IInv, DrainShape
  <2> QED BY <2>1, <2>2 DEF IInv, TypeOK, DrainShape
<1>3. SessionShape'
  BY DEF IInv, TypeOK, DrainShape, SessionShape
<1>4. GenerationsBounded'
  BY ConstantsAssumption, NoneAssumption DEF IInv, TypeOK, RowShape, DrainShape,
     GenerationsBounded, Bounded
<1>5. ClaimsExclusive'
  BY ConstantsAssumption, NoneAssumption DEF IInv, TypeOK, DrainShape,
     GenerationsBounded, Bounded, ClaimsExclusive
<1>6. AuthorityOfGeneration'
  <2>1. origin[s] = None
    BY DEF IInv, SessionShape
  <2>2. \A t \in Tasks : sessionId[t] # None => sessionId[t] \in Sessions /\ sessionId[t] # s
    BY <2>1, BoundTask
  <2> QED BY <2>2 DEF IInv, TypeOK, AuthorityOfGeneration
<1>7. OneSessionPerGeneration'
  BY NoneAssumption DEF IInv, TypeOK, DrainShape, ClaimsExclusive, OneSessionPerGeneration
<1>8. RowShape' /\ OutputsOfAuthority' /\ SettlementIsWhole'
  BY DEF IInv, TypeOK, RowShape, OutputsOfAuthority, SettlementIsWhole
<1> QED BY <1>1, <1>2, <1>3, <1>4, <1>5, <1>6, <1>7, <1>8 DEF IInv

LEMMA SendRejectedStep ==
  ASSUME IInv, NEW d \in Drains, SendRejected(d)
  PROVE  IInv'
<1> USE DEF SendRejected
<1>1. TypeOK'
  BY DEF IInv, TypeOK, DrainShape, SessionShape, Terminal, Status, OutcomeCode
<1>2. DrainShape'
  BY NoneAssumption DEF IInv, TypeOK, DrainShape, SessionShape
<1>3. ClaimsExclusive'
  BY ConstantsAssumption, NoneAssumption DEF IInv, TypeOK, DrainShape,
     GenerationsBounded, Bounded, ClaimsExclusive
<1>4. RowShape' /\ SessionShape' /\ GenerationsBounded' /\ AuthorityOfGeneration' /\ OneSessionPerGeneration' /\ OutputsOfAuthority' /\ SettlementIsWhole'
  BY DEF IInv, TypeOK, RowShape, SessionShape, GenerationsBounded,
     AuthorityOfGeneration, OneSessionPerGeneration, OutputsOfAuthority,
     SettlementIsWhole, Bounded
<1> QED BY <1>1, <1>2, <1>3, <1>4 DEF IInv

LEMMA SendAmbiguousStep ==
  ASSUME IInv, NEW d \in Drains, NEW s \in Sessions, SendAmbiguous(d, s)
  PROVE  IInv'
<1> USE DEF SendAmbiguous, OpenSession
<1>1. TypeOK'
  BY DEF IInv, TypeOK, DrainShape, SessionShape, Terminal, Status, OutcomeCode
<1>2. DrainShape'
  BY NoneAssumption DEF IInv, TypeOK, DrainShape, SessionShape
<1>3. SessionShape'
  BY DEF IInv, TypeOK, DrainShape, SessionShape
<1>4. GenerationsBounded'
  BY ConstantsAssumption, NoneAssumption DEF IInv, TypeOK, RowShape, DrainShape,
     GenerationsBounded, Bounded
<1>5. ClaimsExclusive'
  BY ConstantsAssumption, NoneAssumption DEF IInv, TypeOK, DrainShape,
     GenerationsBounded, Bounded, ClaimsExclusive
<1>6. AuthorityOfGeneration'
  <2>1. origin[s] = None
    BY DEF IInv, SessionShape
  <2>2. \A t \in Tasks : sessionId[t] # None => sessionId[t] \in Sessions /\ sessionId[t] # s
    BY <2>1, BoundTask
  <2> QED BY <2>2 DEF IInv, TypeOK, AuthorityOfGeneration
<1>7. OneSessionPerGeneration'
  BY NoneAssumption DEF IInv, TypeOK, DrainShape, ClaimsExclusive, OneSessionPerGeneration
<1>8. RowShape' /\ OutputsOfAuthority' /\ SettlementIsWhole'
  BY DEF IInv, TypeOK, RowShape, OutputsOfAuthority, SettlementIsWhole
<1> QED BY <1>1, <1>2, <1>3, <1>4, <1>5, <1>6, <1>7, <1>8 DEF IInv

LEMMA FailDeliveryStep ==
  ASSUME IInv, NEW d \in Drains, FailRegisteredAgentDelivery(d)
  PROVE  IInv'
<1> USE DEF FailRegisteredAgentDelivery, UnboundRunning, GenerationMatches, EndDrain
<1>1. TypeOK'
  BY DEF IInv, TypeOK, DrainShape, SessionShape, Terminal, Status, OutcomeCode
<1>2. RowShape'
  BY NoneAssumption DEF IInv, TypeOK, RowShape, DrainShape, SessionShape, Terminal,
     Status, OutcomeCode
<1>3. DrainShape'
  BY NoneAssumption DEF IInv, TypeOK, DrainShape, SessionShape
<1>4. GenerationsBounded'
  BY ConstantsAssumption, NoneAssumption DEF IInv, TypeOK, RowShape, DrainShape,
     GenerationsBounded, Bounded
<1>5. ClaimsExclusive'
  BY ConstantsAssumption, NoneAssumption DEF IInv, TypeOK, DrainShape,
     GenerationsBounded, Bounded, ClaimsExclusive
<1>6. SettlementIsWhole'
  BY NoneAssumption DEF IInv, TypeOK, RowShape, SettlementIsWhole, Terminal, Status,
     OutcomeCode
<1>7. SessionShape' /\ AuthorityOfGeneration' /\ OneSessionPerGeneration' /\ OutputsOfAuthority'
  BY DEF IInv, TypeOK, SessionShape, AuthorityOfGeneration, OneSessionPerGeneration,
     OutputsOfAuthority
<1> QED BY <1>1, <1>2, <1>3, <1>4, <1>5, <1>6, <1>7 DEF IInv

LEMMA BindDeliveryStep ==
  ASSUME IInv, NEW d \in Drains, BindDelivery(d)
  PROVE  IInv'
<1> USE DEF BindDelivery, BindTaskSession, BudgetLeft, IsBound, UnboundRunning,
    GenerationMatches, EndDrain
<1>1. TypeOK'
  <2>1. sessionId' \in [Tasks -> Sessions \cup {None}]
    <3>1. handle[d] \in Sessions
      BY DEF IInv, TypeOK, DrainShape
    <3> QED BY <3>1 DEF IInv, TypeOK
  <2> QED BY <2>1 DEF IInv, TypeOK
<1>2. RowShape'
  BY NoneAssumption DEF IInv, TypeOK, RowShape, DrainShape, SessionShape, Terminal,
     Status, OutcomeCode
<1>3. DrainShape'
  BY NoneAssumption DEF IInv, TypeOK, DrainShape, SessionShape
<1>4. GenerationsBounded'
  BY ConstantsAssumption, NoneAssumption DEF IInv, TypeOK, RowShape, DrainShape,
     GenerationsBounded, Bounded
<1>5. ClaimsExclusive'
  BY ConstantsAssumption, NoneAssumption DEF IInv, TypeOK, DrainShape,
     GenerationsBounded, Bounded, ClaimsExclusive
<1>6. AuthorityOfGeneration'
  BY NoneAssumption DEF IInv, TypeOK, RowShape, SessionShape, DrainShape,
     AuthorityOfGeneration
<1>7. OutputsOfAuthority'
  BY NoneAssumption DEF IInv, TypeOK, RowShape, OutputsOfAuthority
<1>8. SettlementIsWhole'
  BY NoneAssumption DEF IInv, TypeOK, RowShape, SettlementIsWhole, Terminal, Status,
     OutcomeCode
<1>9. SessionShape' /\ OneSessionPerGeneration'
  BY DEF IInv, TypeOK, SessionShape, OneSessionPerGeneration
<1> QED BY <1>1, <1>2, <1>3, <1>4, <1>5, <1>6, <1>7, <1>8, <1>9 DEF IInv

LEMMA DrainLostStep ==
  ASSUME IInv, NEW d \in Drains, Crash(d) \/ LifetimeEnds(d)
  PROVE  IInv'
  BY DrainEnds DEF Crash, LifetimeEnds, IInv, TypeOK

LEMMA HookStep ==
  ASSUME IInv, NEW s \in Sessions, HookSessionStarted(s)
  PROVE  IInv'
<1> USE DEF HookSessionStarted, BindTaskSession, UnboundRunning, GenerationMatches
<1>1. TypeOK'
  BY DEF IInv, TypeOK, DrainShape, SessionShape, Terminal, Status, OutcomeCode
<1>2. RowShape'
  BY NoneAssumption DEF IInv, TypeOK, RowShape, DrainShape, SessionShape, Terminal,
     Status, OutcomeCode
<1>3. AuthorityOfGeneration'
  BY NoneAssumption DEF IInv, TypeOK, RowShape, SessionShape, DrainShape,
     AuthorityOfGeneration
<1>4. OutputsOfAuthority'
  BY NoneAssumption DEF IInv, TypeOK, RowShape, OutputsOfAuthority
<1>5. SettlementIsWhole'
  BY NoneAssumption DEF IInv, TypeOK, RowShape, SettlementIsWhole, Terminal, Status,
     OutcomeCode
<1>6. DrainShape' /\ SessionShape' /\ GenerationsBounded' /\ ClaimsExclusive' /\ OneSessionPerGeneration'
  BY DEF IInv, TypeOK, DrainShape, SessionShape, GenerationsBounded, ClaimsExclusive,
     OneSessionPerGeneration, Bounded
<1> QED BY <1>1, <1>2, <1>3, <1>4, <1>5, <1>6 DEF IInv

LEMMA ProduceStep ==
  ASSUME IInv, NEW s \in Sessions, NEW o \in Outputs, ProduceObject(s, o)
  PROVE  IInv'
<1> USE DEF ProduceObject, ToolsRun, AcceptsOutput, GenerationMatches
<1>1. TypeOK'
  BY DEF IInv, TypeOK, DrainShape, SessionShape, Terminal, Status, OutcomeCode
<1>2. RowShape'
  BY NoneAssumption DEF IInv, TypeOK, RowShape, DrainShape, SessionShape, Terminal,
     Status, OutcomeCode
<1>3. OutputsOfAuthority'
  <2> DEFINE t == origin[s].task
  <2>1. t \in Tasks /\ origin[s] # None
    BY CarriedClaims DEF IInv, SessionShape
  <2>2. \A p \in Outputs : producer[p] # None => producer[p] \in Producer /\ producer[p].task # t
    BY <2>1, NoneAssumption DEF IInv, TypeOK, OutputsOfAuthority
  <2> QED BY <2>1, <2>2 DEF IInv, TypeOK, OutputsOfAuthority
<1>4. DrainShape' /\ SessionShape' /\ GenerationsBounded' /\ ClaimsExclusive' /\ AuthorityOfGeneration' /\ OneSessionPerGeneration' /\ SettlementIsWhole'
  BY DEF IInv, TypeOK, DrainShape, SessionShape, GenerationsBounded, ClaimsExclusive,
     AuthorityOfGeneration, OneSessionPerGeneration, SettlementIsWhole, Bounded
<1> QED BY <1>1, <1>2, <1>3, <1>4 DEF IInv

LEMMA FinishStep ==
  ASSUME IInv, NEW s \in Sessions, NEW v \in {"completed", "partial"}, NEW o,
         v = "completed" => o \in Outputs, FinishTask(s, v, o)
  PROVE  IInv'
<1> USE DEF FinishTask, ToolsRun, ValidCompletion, GenerationMatches
<1>1. TypeOK'
  BY DEF IInv, TypeOK, DrainShape, SessionShape, Terminal, Status, OutcomeCode
<1>2. RowShape'
  <2>1. origin[s].task \in Tasks
    BY CarriedClaims DEF IInv, SessionShape
  <2> QED BY <2>1, NoneAssumption DEF IInv, TypeOK, RowShape
<1>3. SettlementIsWhole'
  BY NoneAssumption DEF IInv, TypeOK, RowShape, SettlementIsWhole, Terminal, Status,
     OutcomeCode
<1>4. DrainShape' /\ SessionShape' /\ GenerationsBounded' /\ ClaimsExclusive' /\ AuthorityOfGeneration' /\ OneSessionPerGeneration' /\ OutputsOfAuthority'
  BY DEF IInv, TypeOK, DrainShape, SessionShape, GenerationsBounded, ClaimsExclusive,
     AuthorityOfGeneration, OneSessionPerGeneration, OutputsOfAuthority, Bounded
<1> QED BY <1>1, <1>2, <1>3, <1>4 DEF IInv

LEMMA EndSessionStep ==
  ASSUME IInv, NEW s \in Sessions, NEW how \in {"completed", "failed", "cancelled"}, EndSession(s, how)
  PROVE  IInv'
<1> USE DEF EndSession
<1>1. TypeOK'
  BY DEF IInv, TypeOK, DrainShape, SessionShape, Terminal, Status, OutcomeCode
<1>2. SessionShape'
  BY DEF IInv, TypeOK, DrainShape, SessionShape
<1>3. RowShape' /\ DrainShape' /\ GenerationsBounded' /\ ClaimsExclusive' /\ AuthorityOfGeneration' /\ OneSessionPerGeneration' /\ OutputsOfAuthority' /\ SettlementIsWhole'
  BY DEF IInv, TypeOK, RowShape, DrainShape, GenerationsBounded, ClaimsExclusive,
     AuthorityOfGeneration, OneSessionPerGeneration, OutputsOfAuthority,
     SettlementIsWhole, Bounded
<1> QED BY <1>1, <1>2, <1>3 DEF IInv

\* What an ingested terminal event does to the row of its session's task.
LEMMA IngestEffect ==
  ASSUME IInv, NEW s \in Sessions, NEW event, IngestTerminal(s, event)
  PROVE  \E t \in Tasks, to \in Terminal, code \in OutcomeCode,
            staged \in {"completed", "partial", None} :
           /\ origin[s] = [task |-> t, gen |-> startedAt[t]]
           /\ startedAt[t] # None /\ sessionId[t] \in {None, s}
           /\ sessionId' = [sessionId EXCEPT ![t] = s]
           /\ \/ status[t] \in Terminal /\ UNCHANGED <<status, outcomeCode, completion>>
              \/ /\ status[t] = "running"
                 /\ status' = [status EXCEPT ![t] = to]
                 /\ outcomeCode' = [outcomeCode EXCEPT ![t] = code]
                 /\ completion' = [completion EXCEPT ![t] = staged]
                 /\ \/ to = "succeeded" /\ staged = completion[t] /\ staged # None /\ code = staged
                    \/ to # "succeeded" /\ staged = None /\ code \notin {"completed", "partial", "DELIVERY_FAILED"}
<1> DEFINE t == origin[s].task
<1>1. origin[s] # None
  BY DEF IngestTerminal, TerminalEvents, IInv, SessionShape
<1>2. origin[s] \in Claim /\ t \in Tasks
  BY <1>1, CarriedClaims
<1>3. /\ startedAt[t] # None /\ startedAt[t] = origin[s].gen /\ sessionId[t] \in {None, s}
  BY DEF IngestTerminal, ValidOwnerBinding, GenerationMatches
<1>4. origin[s] = [task |-> t, gen |-> startedAt[t]]
  BY <1>2, <1>3
<1> HIDE DEF t
<1>5. CASE status[t] \in Terminal /\ AttachTerminalTaskSession(t, s)
  BY <1>2, <1>3, <1>4, <1>5 DEF AttachTerminalTaskSession, Terminal, OutcomeCode
<1>6. CASE status[t] = "running" /\ SettleTaskFromRootCompletion(t, s)
  <2>1. completion[t] \in {"completed", "partial", None}
    BY <1>2 DEF IInv, TypeOK
  <2> QED BY <1>2, <1>3, <1>4, <1>6, <2>1
          DEF SettleTaskFromRootCompletion, Settle, Terminal, OutcomeCode
<1>7. CASE status[t] = "running" /\ event # "session.completed" /\ SettleTaskFromRootAbort(t, s, event)
  <2>1. event \in {"turn.cancelled", "turn.failed", "session.failed"}
    BY <1>7 DEF IngestTerminal, TerminalEvents
  <2> QED BY <1>2, <1>3, <1>4, <1>7, <2>1
          DEF SettleTaskFromRootAbort, Settle, Terminal, OutcomeCode
<1> QED BY <1>5, <1>6, <1>7 DEF IngestTerminal, Settleable, t

LEMMA IngestStep ==
  ASSUME IInv, NEW s \in Sessions, NEW event, IngestTerminal(s, event)
  PROVE  IInv'
<1>1. UNCHANGED <<env, startedAt, resultActionId, producer, drain, eve>>
  BY DEF IngestTerminal
<1>2. PICK t \in Tasks, to \in Terminal, code \in OutcomeCode, staged \in {"completed", "partial", None} :
           /\ origin[s] = [task |-> t, gen |-> startedAt[t]]
           /\ startedAt[t] # None /\ sessionId[t] \in {None, s}
           /\ sessionId' = [sessionId EXCEPT ![t] = s]
           /\ \/ status[t] \in Terminal /\ UNCHANGED <<status, outcomeCode, completion>>
              \/ /\ status[t] = "running"
                 /\ status' = [status EXCEPT ![t] = to]
                 /\ outcomeCode' = [outcomeCode EXCEPT ![t] = code]
                 /\ completion' = [completion EXCEPT ![t] = staged]
                 /\ \/ to = "succeeded" /\ staged = completion[t] /\ staged # None /\ code = staged
                    \/ to # "succeeded" /\ staged = None /\ code \notin {"completed", "partial", "DELIVERY_FAILED"}
  BY IngestEffect
<1>3. TypeOK'
  <2>1. sessionId' \in [Tasks -> Sessions \cup {None}]
    BY <1>2 DEF IInv, TypeOK
  <2>2. status' \in [Tasks -> Status]
    BY <1>2 DEF IInv, TypeOK, Status
  <2>3. outcomeCode' \in [Tasks -> OutcomeCode \cup {None}]
    BY <1>2 DEF IInv, TypeOK
  <2>4. completion' \in [Tasks -> {"completed", "partial", None}]
    BY <1>2 DEF IInv, TypeOK
  <2> QED BY <1>1, <2>1, <2>2, <2>3, <2>4 DEF IInv, TypeOK
<1>4. RowShape'
  BY <1>1, <1>2, NoneAssumption DEF IInv, TypeOK, RowShape, Terminal
<1>5. AuthorityOfGeneration'
  BY <1>1, <1>2 DEF IInv, TypeOK, AuthorityOfGeneration
<1>6. OutputsOfAuthority'
  BY <1>1, <1>2, NoneAssumption DEF IInv, TypeOK, OutputsOfAuthority
<1>7. SettlementIsWhole'
  BY <1>1, <1>2, NoneAssumption DEF IInv, TypeOK, RowShape, SettlementIsWhole, Terminal
<1>8. DrainShape' /\ SessionShape' /\ GenerationsBounded' /\ ClaimsExclusive'
      /\ OneSessionPerGeneration'
  BY <1>1 DEF IInv, DrainShape, SessionShape, GenerationsBounded, ClaimsExclusive,
     OneSessionPerGeneration, Bounded
<1> QED BY <1>3, <1>4, <1>5, <1>6, <1>7, <1>8 DEF IInv

LEMMA NextStep ==
  ASSUME IInv, [Next]_vars
  PROVE  IInv'
<1>1. CASE UNCHANGED vars
  BY <1>1 DEF vars, IInv, TypeOK, RowShape, DrainShape, SessionShape, GenerationsBounded,
     Bounded, ClaimsExclusive, AuthorityOfGeneration, OneSessionPerGeneration,
     OutputsOfAuthority, SettlementIsWhole
<1>2. CASE Environment
  BY <1>2, TickStep, BrandsStep DEF Environment
<1>3. ASSUME NEW d \in Drains, StartDrain(d) \/ DrainStep(d) \/ Crash(d)
      PROVE  IInv'
  BY <1>3, StartDrainStep, ClaimStep, SendAcceptedStep, SendRejectedStep, SendAmbiguousStep,
     FailDeliveryStep, BindDeliveryStep, DrainLostStep DEF DrainStep, ClaimNextDueWorkerTask
<1>4. ASSUME NEW s \in Sessions, SessionStep(s)
      PROVE  IInv'
  BY <1>4, HookStep, ProduceStep, FinishStep, EndSessionStep, IngestStep DEF SessionStep
<1> QED BY <1>1, <1>2, <1>3, <1>4 DEF Next

LEMMA InitIInv == Init => IInv
<1> SUFFICES ASSUME Init PROVE IInv
  OBVIOUS
<1>1. TypeOK
  BY ConstantsAssumption DEF Init, TypeOK, Status
<1>2. RowShape /\ DrainShape /\ SessionShape /\ SettlementIsWhole
  BY NoneAssumption DEF Init, RowShape, DrainShape, SessionShape, SettlementIsWhole, Terminal
<1>3. GenerationsBounded /\ ClaimsExclusive /\ AuthorityOfGeneration
      /\ OneSessionPerGeneration /\ OutputsOfAuthority
  BY DEF Init, GenerationsBounded, ClaimsExclusive, AuthorityOfGeneration,
     OneSessionPerGeneration, OutputsOfAuthority
<1> QED BY <1>1, <1>2, <1>3 DEF IInv

\* The inductive invariant holds in every reachable state.
THEOREM InductiveInvariant == Spec => []IInv
<1>1. Init => IInv
  BY InitIInv
<1>2. IInv /\ [Next]_vars => IInv'
  BY NextStep
<1> QED BY <1>1, <1>2, PTL DEF Spec
-----------------------------------------------------------------------------
\* Rows, drains and sessions keep their types; a drain never exceeds its budget.
THEOREM TypeCorrect == Spec => []TypeOK
  BY InductiveInvariant, PTL DEF IInv

\* Write authority belongs to the session of the row's own generation, for any
\* number of drains, sessions and late deliveries.
THEOREM AuthorityFenced == Spec => []AuthorityOfGeneration
  BY InductiveInvariant, PTL DEF IInv

\* One generation is delivered to at most one session.
THEOREM DeliveredOnce == Spec => []OneSessionPerGeneration
  BY InductiveInvariant, PTL DEF IInv

\* Every Object is the one output of its task, committed by its authority.
THEOREM OutputsAuthorized == Spec => []OutputsOfAuthority
  BY InductiveInvariant, PTL DEF IInv

\* A completion agrees with what was committed.
THEOREM CompletionsMatch == Spec => []CompletionMatchesOutputs
<1>1. ASSUME IInv
      PROVE  CompletionMatchesOutputs
  <2> SUFFICES ASSUME NEW t \in Tasks, completion[t] # None
               PROVE  (completion[t] = "completed") <=>
                        (\E o \in Outputs : producer[o] # None /\ producer[o].task = t)
    BY DEF CompletionMatchesOutputs
  <2>1. completion[t] = "completed" <=> resultActionId[t] # None
    BY <1>1 DEF IInv, RowShape
  <2>2. resultActionId[t] # None =>
          /\ resultActionId[t] \in Outputs /\ producer[resultActionId[t]] # None
          /\ producer[resultActionId[t]].task = t
    BY <1>1 DEF IInv, TypeOK, RowShape
  <2>3. \A o \in Outputs : producer[o] # None /\ producer[o].task = t => resultActionId[t] = o
    BY <1>1 DEF IInv, OutputsOfAuthority
  <2>4. \A o \in Outputs : o # None
    BY NoneAssumption
  <2> QED BY <2>1, <2>2, <2>3, <2>4
<1> QED BY <1>1, InductiveInvariant, PTL

\* Every outcome is whole.
THEOREM SettledWhole == Spec => []SettlementIsWhole
  BY InductiveInvariant, PTL DEF IInv
-----------------------------------------------------------------------------
(* What a step may do to the rows.                                         *)

\* Session s carries the claim of the current generation of task t.
Carries(s, t) == startedAt[t] # None /\ origin[s] = [task |-> t, gen |-> startedAt[t]]

\* Every step of the lane, as far as the rows of the tasks can tell.
RowEffect ==
    \* a recovery or a claim, or nothing
    \/ /\ UNCHANGED <<sessionId, completion, resultActionId, outcomeCode>>
       /\ \A t \in Tasks : \/ status'[t] = status[t] /\ startedAt'[t] = startedAt[t]
                          \/ /\ status[t] \in {"queued", "running"} /\ sessionId[t] = None
                             /\ status'[t] \in {"queued", "running"}
    \* a delivery is given up
    \/ \E t \in Tasks :
       /\ status[t] = "running" /\ sessionId[t] = None
       /\ status' = [status EXCEPT ![t] = "failed"]
       /\ completion' = [completion EXCEPT ![t] = None]
       /\ outcomeCode' = [outcomeCode EXCEPT ![t] = "DELIVERY_FAILED"]
       /\ UNCHANGED <<startedAt, sessionId, resultActionId>>
    \* a session is bound
    \/ \E t \in Tasks, s \in Sessions :
       /\ status[t] = "running" /\ sessionId[t] = None /\ Carries(s, t)
       /\ sessionId' = [sessionId EXCEPT ![t] = s]
       /\ UNCHANGED <<status, startedAt, completion, resultActionId, outcomeCode>>
    \* the session commits its Object
    \/ \E t \in Tasks, o \in Outputs :
       /\ status[t] = "running" /\ sessionId[t] # None
       /\ completion[t] = None /\ resultActionId[t] = None /\ producer[o] = None
       /\ resultActionId' = [resultActionId EXCEPT ![t] = o]
       /\ UNCHANGED <<status, startedAt, sessionId, completion, outcomeCode>>
    \* the session stages its completion
    \/ \E t \in Tasks, verdict \in {"completed", "partial"} :
       /\ status[t] = "running" /\ sessionId[t] # None /\ completion[t] = None
       /\ verdict = "completed" <=> resultActionId[t] # None
       /\ completion' = [completion EXCEPT ![t] = verdict]
       /\ UNCHANGED <<status, startedAt, sessionId, resultActionId, outcomeCode>>
    \* a terminal event is ingested
    \/ \E t \in Tasks, s \in Sessions, to \in Terminal, code \in OutcomeCode,
          staged \in {"completed", "partial", None} :
       /\ Carries(s, t) /\ sessionId[t] \in {None, s}
       /\ sessionId' = [sessionId EXCEPT ![t] = s]
       /\ UNCHANGED <<startedAt, resultActionId>>
       /\ \/ status[t] \in Terminal /\ UNCHANGED <<status, outcomeCode, completion>>
          \/ /\ status[t] = "running"
             /\ status' = [status EXCEPT ![t] = to]
             /\ outcomeCode' = [outcomeCode EXCEPT ![t] = code]
             /\ completion' = [completion EXCEPT ![t] = staged]
             /\ \/ to = "succeeded" /\ staged = completion[t] /\ staged # None /\ code = staged
                \/ to # "succeeded" /\ staged = None /\ code \notin {"completed", "partial", "DELIVERY_FAILED"}

LEMMA RowsKept ==
  ASSUME UNCHANGED row
  PROVE  RowEffect
BY DEF RowEffect

LEMMA ClaimEffect ==
  ASSUME IInv, NEW d \in Drains, NEW skipped, ClaimNext(d, skipped)
  PROVE  RowEffect
<1>1. ASSUME NEW claimed, RecoverAndClaim(now[d], claimed),
             claimed \in Tasks => Claimable(claimed, now[d])
      PROVE  RowEffect
  <2>1. completion \in [Tasks -> {"completed", "partial", None}]
    BY DEF IInv, TypeOK
  <2>2. \A t \in Tasks : Stale(t, now[d]) => completion[t] = None
    BY DEF IInv, RowShape, Stale
  <2>3. completion' = completion
    BY <1>1, <2>1, <2>2 DEF RecoverAndClaim
  <2>4. \A t \in Tasks : \/ status'[t] = status[t] /\ startedAt'[t] = startedAt[t]
                         \/ /\ status[t] \in {"queued", "running"} /\ sessionId[t] = None
                            /\ status'[t] \in {"queued", "running"}
    BY <1>1 DEF RecoverAndClaim, Claimable, Stale
  <2> QED BY <1>1, <2>3, <2>4 DEF RecoverAndClaim, RowEffect
<1>2. None \notin Tasks
  BY ConstantsAssumption, NoneAssumption
<1> QED BY <1>1, <1>2, RowsKept DEF ClaimNext

LEMMA BindEffect ==
  ASSUME IInv, NEW s \in Sessions, origin[s] # None, BindTaskSession(origin[s], s)
  PROVE  RowEffect
<1>1. PICK t \in Tasks : t = origin[s].task
  BY CarriedClaims
<1>2. status[t] = "running" /\ sessionId[t] = None /\ startedAt[t] # None /\ startedAt[t] = origin[s].gen
  BY <1>1 DEF BindTaskSession, UnboundRunning, GenerationMatches
<1>3. origin[s] = [task |-> t, gen |-> startedAt[t]]
  BY <1>1, <1>2, CarriedClaims
<1> QED BY <1>1, <1>2, <1>3 DEF BindTaskSession, Carries, RowEffect

LEMMA FailEffect ==
  ASSUME IInv, NEW d \in Drains, FailRegisteredAgentDelivery(d)
  PROVE  RowEffect
<1>1. PICK t \in Tasks : t = held[d].task
  BY CarriedClaims DEF FailRegisteredAgentDelivery, IInv, DrainShape
<1>2. CASE UnboundRunning(held[d])
  BY <1>1, <1>2 DEF FailRegisteredAgentDelivery, UnboundRunning, RowEffect
<1>3. CASE ~UnboundRunning(held[d])
  BY <1>3, RowsKept DEF FailRegisteredAgentDelivery
<1> QED BY <1>2, <1>3

LEMMA ToolsEffect ==
  ASSUME IInv, NEW s \in Sessions,
         \/ \E o \in Outputs : ProduceObject(s, o) \/ FinishTask(s, "completed", o)
         \/ FinishTask(s, "partial", None)
  PROVE  RowEffect
<1>1. s # None /\ \A o \in Outputs : o # None
  BY NoneAssumption
<1>2. PICK t \in Tasks : t = origin[s].task
  BY CarriedClaims DEF ProduceObject, FinishTask, ToolsRun, IInv, SessionShape
<1>3. ASSUME NEW o \in Outputs, ProduceObject(s, o)
      PROVE  RowEffect
  <2>1. /\ status[t] = "running" /\ sessionId[t] # None
        /\ completion[t] = None /\ resultActionId[t] = None /\ producer[o] = None
        /\ resultActionId' = [resultActionId EXCEPT ![t] = o]
        /\ UNCHANGED <<status, startedAt, sessionId, completion, outcomeCode>>
    BY <1>1, <1>2, <1>3 DEF ProduceObject, AcceptsOutput
  <2> QED BY <2>1 DEF RowEffect
<1>4. ASSUME NEW verdict \in {"completed", "partial"}, NEW named, FinishTask(s, verdict, named),
             verdict = "completed" => named \in Outputs
      PROVE  RowEffect
  <2>1. /\ status[t] = "running" /\ sessionId[t] # None /\ completion[t] = None
        /\ verdict = "completed" <=> resultActionId[t] # None
        /\ completion' = [completion EXCEPT ![t] = verdict]
        /\ UNCHANGED <<status, startedAt, sessionId, resultActionId, outcomeCode>>
    BY <1>1, <1>2, <1>4 DEF FinishTask, ValidCompletion
  <2> QED BY <2>1 DEF RowEffect
<1> QED BY <1>3, <1>4

LEMMA StepEffect ==
  ASSUME IInv, [Next]_vars
  PROVE  RowEffect
<1>1. CASE UNCHANGED vars
  BY <1>1, RowsKept DEF vars
<1>2. CASE Environment
  BY <1>2, RowsKept DEF Environment, Tick, CreditMoves, ContextImported
<1>3. ASSUME NEW d \in Drains, StartDrain(d) \/ DrainStep(d) \/ Crash(d)
      PROVE  RowEffect
  <2>1. CASE BindDelivery(d)
    <3>1. handle[d] \in Sessions /\ origin[handle[d]] = held[d] /\ held[d] # None
      BY <2>1 DEF BindDelivery, IInv, TypeOK, DrainShape
    <3> QED BY <2>1, <3>1, BindEffect, RowsKept DEF BindDelivery
  <2>2. CASE ClaimNextDueWorkerTask(d)
    BY <2>2, ClaimEffect DEF ClaimNextDueWorkerTask
  <2>3. CASE FailRegisteredAgentDelivery(d)
    BY <2>3, FailEffect
  <2> QED BY <1>3, <2>1, <2>2, <2>3, RowsKept
          DEF DrainStep, StartDrain, Crash, LifetimeEnds, SendAccepted, SendRejected, SendAmbiguous
<1>4. ASSUME NEW s \in Sessions, SessionStep(s)
      PROVE  RowEffect
  <2>1. CASE HookSessionStarted(s)
    <3>1. origin[s] # None
      BY <2>1 DEF HookSessionStarted, IInv, SessionShape
    <3> QED BY <2>1, <3>1, BindEffect DEF HookSessionStarted
  <2>2. ASSUME NEW event, IngestTerminal(s, event)
        PROVE  RowEffect
    <3>1. UNCHANGED <<startedAt, resultActionId>>
      BY <2>2 DEF IngestTerminal
    <3> QED BY <2>2, <3>1, IngestEffect DEF Carries, RowEffect
  <2>3. ASSUME NEW how, EndSession(s, how)
        PROVE  RowEffect
    BY <2>3, RowsKept DEF EndSession
  <2> QED BY <1>4, <2>1, <2>2, <2>3, ToolsEffect DEF SessionStep
<1> QED BY <1>1, <1>2, <1>3, <1>4 DEF Next
-----------------------------------------------------------------------------
(* Action properties.                                                      *)

\* A task that has a session keeps it, with its generation, and is never
\* delivered again, whatever crashes and events are lost.
THEOREM AuthorityKept == Spec => AuthorityIsPermanent
<1> DEFINE Kept == \A t \in Tasks : sessionId[t] # None =>
              /\ sessionId'[t] = sessionId[t] /\ startedAt'[t] = startedAt[t]
              /\ status'[t] # "queued"
<1>1. ASSUME IInv, [Next]_vars
      PROVE  Kept
  <2> SUFFICES ASSUME NEW t \in Tasks, sessionId[t] # None
               PROVE  /\ sessionId'[t] = sessionId[t] /\ startedAt'[t] = startedAt[t]
                      /\ status'[t] # "queued"
    OBVIOUS
  <2>1. RowEffect
    BY <1>1, StepEffect
  <2>2. status[t] # "queued" /\ sessionId \in [Tasks -> Sessions \cup {None}]
        /\ status \in [Tasks -> Status]
    BY <1>1 DEF IInv, TypeOK, RowShape
  <2> QED BY <2>1, <2>2 DEF RowEffect, Terminal
<1>2. IInv /\ [Next]_vars => [Kept]_vars
  BY <1>1
<1>3. Spec => [][Kept]_vars
  BY <1>2, InductiveInvariant, PTL DEF Spec
<1> QED BY <1>3 DEF AuthorityIsPermanent

\* A terminal row keeps its outcome, whatever comes late, twice or in conflict.
THEOREM OutcomeKept == Spec => OutcomeIsFinal
<1> DEFINE Kept == \A t \in Tasks : status[t] \in Terminal =>
              /\ status'[t] = status[t] /\ outcomeCode'[t] = outcomeCode[t]
              /\ completion'[t] = completion[t] /\ resultActionId'[t] = resultActionId[t]
<1>1. ASSUME IInv, [Next]_vars
      PROVE  Kept
  <2> SUFFICES ASSUME NEW t \in Tasks, status[t] \in Terminal
               PROVE  /\ status'[t] = status[t] /\ outcomeCode'[t] = outcomeCode[t]
                      /\ completion'[t] = completion[t] /\ resultActionId'[t] = resultActionId[t]
    OBVIOUS
  <2>1. RowEffect
    BY <1>1, StepEffect
  <2>2. status[t] \notin {"queued", "running"} /\ status \in [Tasks -> Status]
        /\ completion \in [Tasks -> {"completed", "partial", None}]
        /\ resultActionId \in [Tasks -> Outputs \cup {None}]
        /\ outcomeCode \in [Tasks -> OutcomeCode \cup {None}]
    BY <1>1 DEF IInv, TypeOK, Terminal
  <2> QED BY <2>1, <2>2 DEF RowEffect
<1>2. IInv /\ [Next]_vars => [Kept]_vars
  BY <1>1
<1>3. Spec => [][Kept]_vars
  BY <1>2, InductiveInvariant, PTL DEF Spec
<1> QED BY <1>3 DEF OutcomeIsFinal

\* A claim is newer than every claim still carried for its task, although its
\* time was read before the transaction.
THEOREM ClaimsAdvance == Spec => GenerationsIncrease
<1> DEFINE Advance == \A t \in Tasks : startedAt'[t] \notin {None, startedAt[t]} =>
              /\ \A s \in Sessions : origin[s] # None /\ origin[s].task = t =>
                      origin[s].gen < startedAt'[t]
              /\ \A d \in Drains : held[d] # None /\ held[d].task = t =>
                      held[d].gen < startedAt'[t]
<1>1. ASSUME IInv, NEW d \in Drains, NEW skipped, ClaimNext(d, skipped)
      PROVE  Advance
  <2> SUFFICES ASSUME NEW t \in Tasks, startedAt'[t] \notin {None, startedAt[t]}
               PROVE  \A c \in Claim : c.task = t /\ Bounded(c) => c.gen < startedAt'[t]
    BY <1>1, CarriedClaims
  <2>1. Claimable(t, now[d]) /\ startedAt'[t] = now[d]
    <3>1. None \notin Tasks
      BY ConstantsAssumption, NoneAssumption
    <3>2. CASE UNCHANGED row
      BY <3>2
    <3>3. CASE RecoverAndClaim(now[d], None)
      BY <3>1, <3>3 DEF RecoverAndClaim
    <3>4. ASSUME NEW u \in Tasks, Claimable(u, now[d]), RecoverAndClaim(now[d], u)
          PROVE  Claimable(t, now[d]) /\ startedAt'[t] = now[d]
      BY <3>4 DEF RecoverAndClaim
    <3> QED BY <1>1, <3>2, <3>3, <3>4 DEF ClaimNext
  <2>2. clock <= now[d] + ClaimLag
    BY <1>1 DEF ClaimNext
  <2> QED BY <1>1, <2>1, <2>2, ClaimFresh
<1>2. ASSUME IInv, [Next]_vars, ~\E d \in Drains : ClaimNextDueWorkerTask(d)
      PROVE  UNCHANGED startedAt
  BY <1>2 DEF Next, vars, Environment, Tick, CreditMoves, ContextImported, StartDrain, Crash,
     DrainStep, SendAccepted, SendRejected, SendAmbiguous, FailRegisteredAgentDelivery,
     BindDelivery, BindTaskSession, LifetimeEnds, SessionStep, HookSessionStarted,
     ProduceObject, FinishTask, EndSession, IngestTerminal
<1>3. ASSUME IInv, [Next]_vars
      PROVE  [Advance]_vars
  BY <1>1, <1>2, <1>3 DEF ClaimNextDueWorkerTask
<1>4. IInv /\ [Next]_vars => [Advance]_vars
  BY <1>3
<1>5. Spec => [][Advance]_vars
  BY <1>4, InductiveInvariant, PTL DEF Spec
<1> QED BY <1>5 DEF GenerationsIncrease
-----------------------------------------------------------------------------
(* The lane implements OneShotTask.                                        *)

\* A session that carries a task's current claim may own that task.
LEMMA CarrierMayOwn ==
  ASSUME IInv, NEW t \in Tasks, NEW s \in Sessions, Carries(s, t), sessionId[t] \in {None, s}
  PROVE  OneShot!MayOwn(t, s)
<1>1. \A u \in Tasks \ {t} : sessionId[u] # s
  <2> SUFFICES ASSUME NEW u \in Tasks, sessionId[u] = s PROVE u = t
    OBVIOUS
  <2>1. origin[s] = [task |-> u, gen |-> startedAt[u]]
    BY BoundTask, NoneAssumption
  <2>2. origin[s].task = u /\ origin[s].task = t
    BY <2>1 DEF Carries
  <2> QED BY <2>2
<1> QED BY <1>1 DEF OneShot!MayOwn

\* Progress follows the status of the row that moves.
LEMMA ProgressMoves ==
  ASSUME IInv, NEW t \in Tasks, status[t] = "running", NEW to \in Terminal,
         status' = [status EXCEPT ![t] = to]
  PROVE  Progress[t] = "open" /\ Progress' = [Progress EXCEPT ![t] = "done"]
<1>1. status \in [Tasks -> Status] /\ status[t] \notin Terminal
  BY DEF IInv, TypeOK, Terminal
<1> QED BY <1>1 DEF Progress

LEMMA StepImplements ==
  ASSUME IInv, [Next]_vars
  PROVE  [OneShot!Next]_(OneShot!vars)
<1> USE DEF OneShot!End
<1>1. RowEffect
  BY StepEffect
<1>2. ASSUME UNCHANGED <<sessionId, completion, resultActionId, outcomeCode>>,
             \A t \in Tasks : \/ status'[t] = status[t] /\ startedAt'[t] = startedAt[t]
                           \/ /\ status[t] \in {"queued", "running"} /\ sessionId[t] = None
                              /\ status'[t] \in {"queued", "running"}
      PROVE  UNCHANGED OneShot!vars
  <2>1. Progress' = Progress
    BY <1>2 DEF Progress, Terminal
  <2> QED BY <1>2, <2>1 DEF OneShot!vars
<1>3. ASSUME NEW t \in Tasks, status[t] = "running", sessionId[t] = None,
             status' = [status EXCEPT ![t] = "failed"],
             completion' = [completion EXCEPT ![t] = None],
             outcomeCode' = [outcomeCode EXCEPT ![t] = "DELIVERY_FAILED"],
             UNCHANGED <<startedAt, sessionId, resultActionId>>
      PROVE  OneShot!GiveUpDelivery(t)
  <2>1. Progress[t] = "open" /\ Progress' = [Progress EXCEPT ![t] = "done"]
    BY <1>3, ProgressMoves DEF Terminal
  <2>2. completion' = completion
    BY <1>3 DEF IInv, TypeOK, RowShape
  <2> QED BY <1>3, <2>1, <2>2 DEF OneShot!GiveUpDelivery
<1>4. ASSUME NEW t \in Tasks, NEW s \in Sessions,
             status[t] = "running", sessionId[t] = None, Carries(s, t),
             sessionId' = [sessionId EXCEPT ![t] = s],
             UNCHANGED <<status, startedAt, completion, resultActionId, outcomeCode>>
      PROVE  OneShot!Grant(t, s)
  BY <1>4, CarrierMayOwn DEF OneShot!Grant, Progress
<1>5. ASSUME NEW t \in Tasks, NEW o \in Outputs, status[t] = "running", sessionId[t] # None,
             completion[t] = None, resultActionId[t] = None, producer[o] = None,
             resultActionId' = [resultActionId EXCEPT ![t] = o],
             UNCHANGED <<status, startedAt, sessionId, completion, outcomeCode>>
      PROVE  OneShot!Deliver(t, o)
  <2>1. \A u \in Tasks : resultActionId[u] # o
    BY <1>5, NoneAssumption DEF IInv, RowShape
  <2>2. Progress[t] = "open" /\ Progress' = Progress
    BY <1>5 DEF Progress, Terminal
  <2> QED BY <1>5, <2>1, <2>2 DEF OneShot!Deliver
<1>6. ASSUME NEW t \in Tasks, NEW verdict \in {"completed", "partial"},
             status[t] = "running", sessionId[t] # None, completion[t] = None,
             verdict = "completed" <=> resultActionId[t] # None,
             completion' = [completion EXCEPT ![t] = verdict],
             UNCHANGED <<status, startedAt, sessionId, resultActionId, outcomeCode>>
      PROVE  OneShot!Stage(t, verdict)
  <2>1. Progress[t] = "open" /\ Progress' = Progress
    BY <1>6 DEF Progress, Terminal
  <2> QED BY <1>6, <2>1 DEF OneShot!Stage
<1>7. ASSUME NEW t \in Tasks, NEW s \in Sessions, NEW to \in Terminal, NEW code \in OutcomeCode,
             NEW staged \in {"completed", "partial", None},
             Carries(s, t), sessionId[t] \in {None, s},
             sessionId' = [sessionId EXCEPT ![t] = s],
             UNCHANGED <<startedAt, resultActionId>>,
             status[t] = "running", status' = [status EXCEPT ![t] = to],
             outcomeCode' = [outcomeCode EXCEPT ![t] = code],
             completion' = [completion EXCEPT ![t] = staged],
             \/ to = "succeeded" /\ staged = completion[t] /\ staged # None /\ code = staged
             \/ to # "succeeded" /\ staged = None /\ code \notin {"completed", "partial", "DELIVERY_FAILED"}
      PROVE  OneShot!Succeed(t, s) \/ \E failure \in OneShot!Failure : OneShot!Fail(t, s, failure)
  <2>1. Progress[t] = "open" /\ Progress' = [Progress EXCEPT ![t] = "done"]
    BY <1>7, ProgressMoves
  <2>2. OneShot!MayOwn(t, s)
    BY <1>7, CarrierMayOwn
  <2>3. CASE staged # None
    <3>1. staged = completion[t] /\ code = staged /\ completion' = completion
      BY <1>7, <2>3 DEF IInv, TypeOK
    <3> QED BY <1>7, <2>1, <2>2, <2>3, <3>1 DEF OneShot!Succeed
  <2>4. CASE staged = None
    <3>1. code \in OneShot!Failure
      BY <1>7, <2>4 DEF OutcomeCode, OneShot!Failure
    <3> QED BY <1>7, <2>1, <2>2, <2>4, <3>1 DEF OneShot!Fail
  <2> QED BY <2>3, <2>4
<1>8. ASSUME NEW t \in Tasks, NEW s \in Sessions, Carries(s, t), sessionId[t] \in {None, s},
             sessionId' = [sessionId EXCEPT ![t] = s],
             UNCHANGED <<startedAt, resultActionId, status, outcomeCode, completion>>
      PROVE  OneShot!Grant(t, s) \/ UNCHANGED OneShot!vars
  <2>1. Progress' = Progress
    BY <1>8 DEF Progress
  <2>2. CASE sessionId[t] = None
    BY <1>8, <2>1, <2>2, CarrierMayOwn DEF OneShot!Grant
  <2>3. CASE sessionId[t] = s
    BY <1>8, <2>1, <2>3 DEF OneShot!vars, IInv, TypeOK
  <2> QED BY <1>8, <2>2, <2>3
<1> QED BY <1>1, <1>2, <1>3, <1>4, <1>5, <1>6, <1>7, <1>8 DEF RowEffect, OneShot!Next

\* Every behaviour of claims, sends, hooks, tools and events is one of a task
\* executed at most once, by one session, and ended at most once.
THEOREM LaneImplementsOneShot == Spec => ImplementsOneShot
<1>1. Init => OneShot!Init
  BY DEF Init, OneShot!Init, Progress, Terminal
<1>2. IInv /\ [Next]_vars => [OneShot!Next]_(OneShot!vars)
  BY StepImplements
<1> QED BY <1>1, <1>2, InductiveInvariant, PTL DEF Spec, ImplementsOneShot, OneShot!Spec
-----------------------------------------------------------------------------
(* The lane keeps what the other components take for granted.              *)

LEMMA LifeMoves ==
  ASSUME IInv, NEW t \in Tasks, NEW to,
         \A u \in Tasks \ {t} : status'[u] = status[u] /\ sessionId'[u] = sessionId[u],
         to = IF status'[t] \in Terminal THEN "ended" ELSE IF sessionId'[t] # None THEN "bound" ELSE "waiting"
  PROVE  LifeOf' = [LifeOf EXCEPT ![t] = to]
BY DEF LifeOf

LEMMA StepLives ==
  ASSUME IInv, [Next]_vars
  PROVE  [Life!Next]_(Life!vars)
<1> DEFINE Claimed == /\ UNCHANGED <<sessionId, resultActionId>>
                      /\ \A t \in Tasks : \/ status'[t] = status[t]
                                          \/ /\ status[t] \in {"queued", "running"}
                                             /\ status'[t] \in {"queued", "running"}
           GivenUp(t) == /\ status[t] = "running" /\ status' = [status EXCEPT ![t] = "failed"]
                         /\ UNCHANGED <<sessionId, resultActionId>>
           Bound(t, s) == /\ status[t] = "running" /\ sessionId[t] = None
                          /\ sessionId' = [sessionId EXCEPT ![t] = s]
                          /\ UNCHANGED <<status, resultActionId>>
           Output(t, o) == /\ status[t] = "running" /\ sessionId[t] # None /\ resultActionId[t] = None
                           /\ resultActionId' = [resultActionId EXCEPT ![t] = o]
                           /\ UNCHANGED <<status, sessionId>>
           Over(t, s, to) == /\ sessionId[t] \in {None, s} /\ sessionId' = [sessionId EXCEPT ![t] = s]
                             /\ UNCHANGED resultActionId
                             /\ \/ status[t] \in Terminal /\ UNCHANGED status
                                \/ status[t] = "running" /\ status' = [status EXCEPT ![t] = to]
<1>1. \/ Claimed \/ \E t \in Tasks : GivenUp(t)
      \/ \E t \in Tasks, s \in Sessions : Bound(t, s)
      \/ \E t \in Tasks, o \in Outputs : Output(t, o)
      \/ \E t \in Tasks, s \in Sessions, to \in Terminal : Over(t, s, to)
  BY StepEffect DEF RowEffect
<1>2. /\ status \in [Tasks -> Status] /\ sessionId \in [Tasks -> Sessions \cup {None}]
      /\ resultActionId \in [Tasks -> Outputs \cup {None}]
  BY DEF IInv, TypeOK
<1>3. CASE Claimed
  BY <1>3 DEF Life!vars, LifeOf, Terminal
<1>4. ASSUME NEW t \in Tasks, NEW to \in Terminal, status[t] = "running",
             status' = [status EXCEPT ![t] = to], UNCHANGED resultActionId,
             \A u \in Tasks \ {t} : sessionId'[u] = sessionId[u]
      PROVE  Life!End(t)
  <2>1. LifeOf[t] \in {"waiting", "bound"}
    BY <1>4 DEF LifeOf, Terminal
  <2>2. LifeOf' = [LifeOf EXCEPT ![t] = "ended"]
    BY <1>2, <1>4, LifeMoves
  <2> QED BY <1>4, <2>1, <2>2 DEF Life!End, Life!Move
<1>5. ASSUME NEW t \in Tasks, GivenUp(t)
      PROVE  Life!Next
  BY <1>4, <1>5 DEF Life!Next, Terminal
<1>6. ASSUME NEW t \in Tasks, NEW s \in Sessions, Bound(t, s)
      PROVE  Life!Next
  <2>1. LifeOf[t] = "waiting" /\ s # None
    BY <1>6, NoneAssumption DEF LifeOf, Terminal
  <2>2. LifeOf' = [LifeOf EXCEPT ![t] = "bound"]
    BY <1>2, <1>6, <2>1, LifeMoves DEF Terminal
  <2> QED BY <1>6, <2>1, <2>2 DEF Life!Bind, Life!Move, Life!Next
<1>7. ASSUME NEW t \in Tasks, NEW o \in Outputs, Output(t, o)
      PROVE  Life!Next
  <2>1. LifeOf[t] = "bound" /\ UNCHANGED LifeOf
    BY <1>7 DEF LifeOf, Terminal
  <2> QED BY <1>2, <1>7, <2>1 DEF Life!Produce, Life!Next
<1>8. ASSUME NEW t \in Tasks, NEW s \in Sessions, NEW to \in Terminal, Over(t, s, to)
      PROVE  [Life!Next]_(Life!vars)
  <2>1. \A u \in Tasks \ {t} : sessionId'[u] = sessionId[u]
    BY <1>2, <1>8
  <2>2. CASE status[t] \in Terminal /\ UNCHANGED status
    BY <1>2, <1>8, <2>1, <2>2 DEF Life!vars, LifeOf
  <2>3. CASE status[t] = "running" /\ status' = [status EXCEPT ![t] = to]
    BY <1>4, <1>8, <2>1, <2>3 DEF Life!Next
  <2> QED BY <1>8, <2>2, <2>3
<1> HIDE DEF Claimed, GivenUp, Bound, Output, Over
<1> QED BY <1>1, <1>3, <1>5, <1>6, <1>7, <1>8

\* Whatever claims, requeues, sends and events there are, a task of the lane
\* lives as those do that WorkRequests hands on and BrandContext saves for.
THEOREM LaneKeepsTaskLife == Spec => ImplementsTaskLife
<1>1. Init => Life!Init
  BY DEF Init, Life!Init, LifeOf, Terminal
<1>2. IInv /\ [Next]_vars => [Life!Next]_(Life!vars)
  BY StepLives
<1> QED BY <1>1, <1>2, InductiveInvariant, PTL DEF Spec, ImplementsTaskLife, Life!Spec
=============================================================================
