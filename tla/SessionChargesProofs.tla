------------------------ MODULE SessionChargesProofs ------------------------
(***************************************************************************)
(* Proofs about SessionCharges for every set of events, sessions,          *)
(* ingestions and coordinates.                                             *)
(***************************************************************************)
EXTENDS SessionCharges, WellFoundedInduction, TLAPS

USE DEF Event, Generations, Sequences, owner, tx

-----------------------------------------------------------------------------
(* The projection.                                                         *)

\* What a read yields does not change with rows it did not read.
LEMMA ModelsAgree ==
  \A f, g, S, s : (\A m \in S : f[m] = g[m]) => ModelIn(f, S, s) = ModelIn(g, S, s)
<1> SUFFICES ASSUME NEW f, NEW g, NEW S, NEW s, \A m \in S : f[m] = g[m]
             PROVE  ModelIn(f, S, s) = ModelIn(g, S, s)
  OBVIOUS
<1>1. ASSUME NEW x
      PROVE  LastAnnounced(f, Of(S, s), x) <=> LastAnnounced(g, Of(S, s), x)
  BY DEF LastAnnounced, Of
<1> QED BY <1>1 DEF ModelIn

LEMMA CandidatesAgree ==
  \A f, g, S : (\A m \in S : f[m] = g[m]) => Candidates(f, S) = Candidates(g, S)
<1> SUFFICES ASSUME NEW f, NEW g, NEW S, \A m \in S : f[m] = g[m]
             PROVE  Candidates(f, S) = Candidates(g, S)
  OBVIOUS
<1>1. \A s : ModelIn(f, S, s) = ModelIn(g, S, s)
  BY ModelsAgree
<1>2. Winners(f, S) = Winners(g, S)
  BY DEF Winners
<1> QED BY <1>1, <1>2 DEF Candidates

LEMMA CandidatesAre ==
  ASSUME NEW f, NEW S, NEW m \in Candidates(f, S)
  PROVE  /\ m \in S /\ IsStep(m)
         /\ \A n \in S : IsStep(n) /\ SameStep(m, n) => f[n] <= f[m]
         /\ ModelIn(f, S, EventOf[m].session) # None
  BY DEF Candidates, Winners

LEMMA NothingToCharge ==
  ASSUME NEW f
  PROVE  Candidates(f, {}) = {}
  BY CandidatesAre

LEMMA ModelInType ==
  ASSUME NEW f, NEW S, NEW s
  PROVE  ModelIn(f, S, s) \in Models \cup {None}
  BY DEF ModelIn

\* A model is taken from an announcement of the session.
LEMMA ModelIsAnnounced ==
  ASSUME NEW f, NEW S, NEW s, ModelIn(f, S, s) # None
  PROVE  \E n \in S : /\ EventOf[n].kind = "session.started" /\ EventOf[n].session = s
                      /\ EventOf[n].model = ModelIn(f, S, s)
<1>1. \E x \in Models : LastAnnounced(f, Of(S, s), x)
  BY DEF ModelIn
<1>2. LastAnnounced(f, Of(S, s), ModelIn(f, S, s))
  BY <1>1 DEF ModelIn
<1> QED BY <1>2 DEF LastAnnounced, Of
-----------------------------------------------------------------------------
(* The owner's row.                                                        *)

LEMMA OwnerStep ==
  ASSUME IInv, (\E r \in Roots : Bind(r)) \/ Recover \/ FailDelivery
  PROVE  IInv'
<1> USE DEF IInv
<1>1. UNCHANGED <<stored, ledger, tx, readFor>> /\ \A w \in Ingestions : ~Active(w)
  BY DEF Bind, Recover, FailDelivery, Unlocked
<1>2. sessionId' \in Roots \cup {None} /\ startedAt' \in IF OwnerIsTask THEN Generations ELSE {None}
  <2>1. CASE \E r \in Roots : Bind(r)
    BY <2>1 DEF Bind, TypeOK
  <2>2. CASE Recover
    <3>1. startedAt \in Generations
      BY <2>2 DEF Recover, TypeOK
    <3> QED BY <2>2, <3>1, ConstantsAssumption DEF Recover, TypeOK
  <2>3. CASE FailDelivery
    BY <2>3 DEF FailDelivery, TypeOK
  <2> QED BY <2>1, <2>2, <2>3
<1>3. TypeOK'
  <2>1. status' \in Status
    BY DEF Bind, Recover, FailDelivery, TypeOK, Status, Terminal
  <2> QED BY <1>1, <1>2, <2>1 DEF TypeOK
<1>4. TransactionShape'
  BY <1>1 DEF TransactionShape, ShapeOf, Active
<1>5. EventWrittenOnce' /\ UpdateIsAlone' /\ ChargeWrittenOnce' /\ ChargedInOrder' /\ SequenceIsUnique'
  BY <1>1 DEF EventWrittenOnce, UpdateIsAlone, ChargeWrittenOnce, ChargedInOrder, SequenceIsUnique,
     Active
<1>6. ReadsAreCommitted' /\ ChargesWon'
  BY <1>1 DEF ReadsAreCommitted, ChargesWon
<1>7. EventDecides'
  BY <1>1 DEF EventDecides, DecidedBy, TransactionShape, ShapeOf, Active
<1> QED BY <1>3, <1>4, <1>5, <1>6, <1>7
-----------------------------------------------------------------------------
(* A statement of one transaction.                                         *)

LEMMA ValidateStep ==
  ASSUME IInv, NEW w \in Ingestions, NEW m \in Metas, Validate(w, m)
  PROVE  IInv'
<1> USE DEF IInv, Validate, Active
<1>1. TypeOK'
  BY DEF TypeOK
<1>2. own[w] = 0 /\ seen[w] = {} /\ todo[w] = {} /\ rows[w] = {}
  BY DEF TransactionShape, ShapeOf
<1>3. at'[w] = "bound" /\ meta'[w] = m /\ (ValidOwnerBinding(m))'
  BY DEF TypeOK, ValidOwnerBinding
<1>4. \A v \in Ingestions \ {w} : at'[v] = at[v] /\ meta'[v] = meta[v]
  BY DEF TypeOK
<1>5. TransactionShape'
  <2> SUFFICES ASSUME NEW v \in Ingestions PROVE ShapeOf(v)'
    BY DEF TransactionShape
  <2>1. CASE v = w
    BY <2>1, <1>2, <1>3 DEF ShapeOf
  <2>2. CASE v # w
    BY <2>2, <1>4 DEF TransactionShape, ShapeOf, ValidOwnerBinding
  <2> QED BY <2>1, <2>2
<1>6. EventWrittenOnce'
  BY <1>2, <1>4 DEF EventWrittenOnce
<1>7. UpdateIsAlone'
  BY DEF UpdateIsAlone
<1>8. ReadsAreCommitted' /\ ChargeWrittenOnce' /\ ChargedInOrder' /\ ChargesWon' /\ SequenceIsUnique'
  BY DEF ReadsAreCommitted, ChargeWrittenOnce, ChargedInOrder, ChargesWon, SequenceIsUnique
<1>9. EventDecides'
  <2>1. status' = status /\ update' = update /\ seen' = seen /\ \A v \in Ingestions : update[v] = None
    OBVIOUS
  <2> QED BY <1>3, <1>4, <2>1 DEF EventDecides, DecidedBy
<1> QED BY <1>1, <1>5, <1>6, <1>7, <1>8, <1>9

LEMMA InsertEventStep ==
  ASSUME IInv, NEW w \in Ingestions, InsertEvent(w)
  PROVE  IInv'
<1> USE DEF IInv, InsertEvent, Active
<1>1. /\ meta[w] \in Metas /\ ValidOwnerBinding(meta[w])
      /\ own[w] = 0 /\ seen[w] = {} /\ todo[w] = {} /\ rows[w] = {} /\ update[w] = None
  BY DEF TransactionShape, ShapeOf
<1>2. at'[w] \in {"recorded", "done"} /\ \A v \in Ingestions \ {w} : at'[v] = at[v] /\ own'[v] = own[v]
  BY DEF TypeOK
<1>3. /\ own' \in [Ingestions -> Sequences \cup {0}]
      /\ own'[w] # 0 => /\ stored[meta[w]] = 0
                        /\ \A m \in Metas : stored[m] # own'[w]
                        /\ \A v \in Ingestions : own[v] # own'[w]
  <2>1. CASE stored[meta[w]] # 0 /\ UNCHANGED own
    BY <2>1, <1>1 DEF TypeOK
  <2>2. ASSUME stored[meta[w]] = 0, NEW q \in Sequences, IsNextSequence(q), own' = [own EXCEPT ![w] = q]
        PROVE  <1>3!1 /\ <1>3!2
    <3>1. own'[w] = q /\ own' \in [Ingestions -> Sequences \cup {0}]
      BY <2>2 DEF TypeOK
    <3>2. \A m \in Metas : stored[m] \in Nat /\ stored[m] < q
      BY <2>2, ConstantsAssumption DEF IsNextSequence, TypeOK
    <3>3. \A v \in Ingestions : own[v] \in Nat /\ own[v] < q
      BY <2>2, ConstantsAssumption DEF IsNextSequence, TypeOK
    <3> QED BY <2>2, <3>1, <3>2, <3>3
  <2> QED BY <2>1, <2>2
<1>4. TypeOK'
  BY <1>2, <1>3 DEF TypeOK
<1>5. TransactionShape'
  <2> SUFFICES ASSUME NEW v \in Ingestions PROVE ShapeOf(v)'
    BY DEF TransactionShape
  <2>1. CASE v = w
    BY <2>1, <1>1, <1>2 DEF ShapeOf, ValidOwnerBinding
  <2>2. CASE v # w
    BY <2>2, <1>2 DEF TransactionShape, ShapeOf, ValidOwnerBinding
  <2> QED BY <2>1, <2>2
<1>6. EventWrittenOnce'
  BY <1>1, <1>2, <1>3 DEF EventWrittenOnce, EventInsertedBy
<1>7. UpdateIsAlone'
  BY <1>1, <1>2 DEF UpdateIsAlone
<1>8. SequenceIsUnique'
  BY <1>2, <1>3 DEF SequenceIsUnique
<1>9. ReadsAreCommitted' /\ ChargeWrittenOnce' /\ ChargedInOrder' /\ ChargesWon'
  BY DEF ReadsAreCommitted, ChargeWrittenOnce, ChargedInOrder, ChargesWon
<1>10. EventDecides'
  <2>1. at'[w] = IF IsRootChargeBoundary(meta[w]) THEN "recorded" ELSE "done"
    BY DEF TypeOK
  <2> QED BY <1>1, <1>2, <2>1 DEF EventDecides, DecidedBy
<1> QED BY <1>4, <1>5, <1>6, <1>7, <1>8, <1>9, <1>10

LEMMA ProjectStep ==
  ASSUME IInv, NEW w \in Ingestions, ProjectRootCharges(w)
  PROVE  IInv'
<1> USE DEF IInv, Active
<1> DEFINE tree == {m \in Metas : /\ stored[m] # 0 /\ IsProjected(m)
                                  /\ EventOf[m].root = EventOf[meta[w]].root}
<1>1. /\ at[w] = "recorded" /\ at' = [at EXCEPT ![w] = "charging"]
      /\ seen' = [seen EXCEPT ![w] = tree] /\ todo' = [todo EXCEPT ![w] = Candidates(stored, tree)]
      /\ UNCHANGED <<stored, ledger, owner, meta, own, rows, update, readFor>>
  BY DEF ProjectRootCharges
<1>2. rows[w] = {} /\ meta[w] \in Metas /\ ValidOwnerBinding(meta[w]) /\ update[w] = None
  BY <1>1 DEF TransactionShape, ShapeOf
<1>3. /\ tree \subseteq Metas /\ Candidates(stored, tree) \subseteq tree
      /\ \A m \in tree : stored[m] # 0
  BY CandidatesAre
<1> HIDE DEF tree
<1>4. at'[w] = "charging" /\ seen'[w] = tree /\ todo'[w] = Candidates(stored, tree)
  BY <1>1 DEF TypeOK
<1>5. \A v \in Ingestions \ {w} : at'[v] = at[v] /\ seen'[v] = seen[v] /\ todo'[v] = todo[v]
  BY <1>1 DEF TypeOK
<1>6. TypeOK'
  BY <1>1, <1>3 DEF TypeOK
<1>7. TransactionShape'
  <2> SUFFICES ASSUME NEW v \in Ingestions PROVE ShapeOf(v)'
    BY DEF TransactionShape
  <2>1. CASE v = w
    BY <2>1, <1>1, <1>2, <1>4 DEF ShapeOf, ValidOwnerBinding
  <2>2. CASE v # w
    BY <2>2, <1>1, <1>5 DEF TransactionShape, ShapeOf, ValidOwnerBinding
  <2> QED BY <2>1, <2>2
<1>8. ReadsAreCommitted'
  <2> SUFFICES ASSUME NEW v \in Ingestions
               PROVE  /\ \A m \in seen'[v] : stored[m] # 0
                      /\ todo'[v] \cup rows[v] \subseteq Candidates(stored, seen'[v])
                      /\ \A m \in Candidates(stored, seen'[v]) :
                             m \in todo'[v] \/ m \in rows[v] \/ ledger[m] # None
    BY <1>1 DEF ReadsAreCommitted
  <2>1. CASE v = w
    BY <2>1, <1>2, <1>3, <1>4
  <2>2. CASE v # w
    BY <2>2, <1>5 DEF ReadsAreCommitted
  <2> QED BY <2>1, <2>2
<1>9. ChargedInOrder'
  BY <1>1, <1>2, <1>5 DEF ChargedInOrder
<1>10. UpdateIsAlone'
  BY <1>1, <1>2, <1>5 DEF UpdateIsAlone
<1>11. EventWrittenOnce' /\ ChargeWrittenOnce' /\ ChargesWon' /\ SequenceIsUnique'
  BY <1>1 DEF EventWrittenOnce, ChargeWrittenOnce, ChargesWon, SequenceIsUnique
<1>12. EventDecides'
  BY <1>1, <1>2, <1>4, <1>5 DEF EventDecides, DecidedBy
<1> QED BY <1>6, <1>7, <1>8, <1>9, <1>10, <1>11, <1>12

LEMMA InsertChargeStep ==
  ASSUME IInv, NEW w \in Ingestions, InsertCharge(w)
  PROVE  IInv'
<1> USE DEF IInv, Active
<1>1. PICK e \in todo[w] :
        /\ \A f \in todo[w] : Before(stored, seen[w], e, f)
        /\ todo' = [todo EXCEPT ![w] = todo[w] \ {e}]
        /\ \/ ledger[e] # None /\ UNCHANGED rows
           \/ /\ ledger[e] = None /\ \A v \in Ingestions : e \notin rows[v]
              /\ rows' = [rows EXCEPT ![w] = rows[w] \cup {e}]
  BY DEF InsertCharge, Charged
<1>2. at[w] = "charging" /\ UNCHANGED <<stored, ledger, owner, at, meta, own, seen, update, readFor>>
  BY DEF InsertCharge
<1>3. /\ e \in Metas /\ todo'[w] = todo[w] \ {e}
      /\ \A v \in Ingestions \ {w} : todo'[v] = todo[v] /\ rows'[v] = rows[v]
      /\ rows'[w] \subseteq rows[w] \cup {e} /\ rows[w] \subseteq rows'[w]
      /\ rows' \in [Ingestions -> SUBSET Metas]
  BY <1>1 DEF TypeOK
<1>4. /\ e \in Candidates(stored, seen[w])
      /\ e \in rows'[w] \/ ledger[e] # None
      /\ e \in rows'[w] => ledger[e] = None /\ \A v \in Ingestions \ {w} : e \notin rows[v]
  BY <1>1 DEF ReadsAreCommitted, ChargeWrittenOnce, TypeOK
<1>5. TypeOK'
  BY <1>1, <1>2, <1>3 DEF TypeOK
<1>6. TransactionShape'
  <2> SUFFICES ASSUME NEW v \in Ingestions PROVE ShapeOf(v)'
    BY DEF TransactionShape
  <2>1. CASE v = w
    BY <2>1, <1>2, <1>3 DEF TransactionShape, ShapeOf, ValidOwnerBinding
  <2>2. CASE v # w
    BY <2>2, <1>2, <1>3 DEF TransactionShape, ShapeOf, ValidOwnerBinding
  <2> QED BY <2>1, <2>2
<1>7. ReadsAreCommitted'
  BY <1>2, <1>3, <1>4 DEF ReadsAreCommitted
<1>8. ChargeWrittenOnce'
  BY <1>2, <1>3, <1>4 DEF ChargeWrittenOnce
<1>9. ChargedInOrder'
  <2>1. ASSUME NEW n \in todo[w], n # e
        PROVE  stored[e] < stored[n]
    <3>1. stored[e] # 0 /\ n \in Metas /\ stored[e] \in Nat /\ stored[n] \in Nat
      BY <1>4, <1>3, CandidatesAre, ConstantsAssumption DEF ReadsAreCommitted, TypeOK
    <3>2. stored[e] <= stored[n]
      BY <1>1 DEF Before
    <3> QED BY <2>1, <3>1, <3>2, <1>3 DEF SequenceIsUnique
  <2> QED BY <1>2, <1>3, <2>1 DEF ChargedInOrder
<1>10. EventWrittenOnce' /\ UpdateIsAlone' /\ ChargesWon' /\ SequenceIsUnique'
  BY <1>2 DEF EventWrittenOnce, UpdateIsAlone, ChargesWon, SequenceIsUnique
<1>11. EventDecides'
  BY <1>2 DEF EventDecides, DecidedBy
<1> QED BY <1>5, <1>6, <1>7, <1>8, <1>9, <1>10, <1>11

LEMMA VerdictsAreStatuses ==
  ASSUME NEW kind
  PROVE  Verdicts(kind) \subseteq Status
  BY DEF Verdicts, Status, Terminal

LEMMA SettleTaskStep ==
  ASSUME IInv, NEW w \in Ingestions, SettleTask(w)
  PROVE  IInv'
<1> USE DEF IInv, Active
<1>1. PICK s \in Status :
        update' = [update EXCEPT ![w] = [status |-> s, sessionId |-> EventOf[meta[w]].root]]
  BY VerdictsAreStatuses DEF SettleTask, TypeOK
<1>2. /\ at[w] = "charging" /\ todo[w] = {} /\ \A v \in Ingestions \ {w} : at[v] = "idle"
      /\ at' = [at EXCEPT ![w] = "done"]
      /\ UNCHANGED <<stored, ledger, owner, meta, own, seen, todo, rows, readFor>>
  BY DEF SettleTask, WantsTask
<1>3. /\ meta[w] \in Metas /\ EventOf[meta[w]].root \in Roots
  BY <1>2, ConstantsAssumption DEF TransactionShape, ShapeOf
<1>4. /\ at'[w] = "done" /\ update'[w] \in OwnerUpdate
      /\ update'[w].sessionId = EventOf[meta[w]].root
      /\ \A v \in Ingestions \ {w} : at'[v] = at[v] /\ update'[v] = update[v]
  BY <1>1, <1>2, <1>3 DEF TypeOK, OwnerUpdate
<1>5. TypeOK'
  BY <1>1, <1>2, <1>4 DEF TypeOK
<1>6. TransactionShape'
  <2> SUFFICES ASSUME NEW v \in Ingestions PROVE ShapeOf(v)'
    BY DEF TransactionShape
  <2>1. CASE v = w
    BY <2>1, <1>2, <1>4 DEF TransactionShape, ShapeOf, ValidOwnerBinding
  <2>2. CASE v # w
    BY <2>2, <1>2, <1>4 DEF TransactionShape, ShapeOf, ValidOwnerBinding
  <2> QED BY <2>1, <2>2
<1>7. UpdateIsAlone'
  <2>1. \A v \in Ingestions \ {w} : update'[v] = None
    BY <1>2, <1>4 DEF TransactionShape, ShapeOf
  <2> QED BY <1>2, <1>4, <2>1 DEF UpdateIsAlone
<1>8. ReadsAreCommitted' /\ EventWrittenOnce' /\ ChargeWrittenOnce' /\ ChargedInOrder'
      /\ ChargesWon' /\ SequenceIsUnique'
  BY <1>2 DEF ReadsAreCommitted, EventWrittenOnce, ChargeWrittenOnce, ChargedInOrder, ChargesWon,
     SequenceIsUnique
<1>9. EventDecides'
  <2>1. OwnerIsTask /\ IsRootTerminal(meta[w])
    BY DEF SettleTask, WantsTask
  <2>2. /\ update'[w].status \in
             IF status = "running" THEN Verdicts(EventOf[meta[w]].kind) ELSE {status}
    BY <1>4 DEF SettleTask, TypeOK
  <2>3. ASSUME NEW v \in Ingestions
        PROVE  DecidedBy(v)'
    <3>1. CASE v = w
      <4>1. meta' = meta /\ status' = status
        BY <1>2
      <4>2. update'[w] # None
        BY <1>4, NoneUpdateAssumption
      <4> QED BY <1>4, <2>1, <2>2, <3>1, <4>1, <4>2 DEF DecidedBy, IsRootTerminal, IsRootChargeBoundary
    <3>2. CASE v # w
      BY <1>2, <1>4, <3>2 DEF EventDecides, DecidedBy
    <3> QED BY <3>1, <3>2
  <2> QED BY <2>3 DEF EventDecides
<1> QED BY <1>5, <1>6, <1>7, <1>8, <1>9

\* A transaction that ends lets go of all it held, and of nothing else.
LEMMA ReleaseFacts ==
  ASSUME TypeOK, NEW w \in Ingestions, Release(w)
  PROVE  /\ at'[w] = "idle" /\ own'[w] = 0 /\ seen'[w] = {} /\ todo'[w] = {} /\ rows'[w] = {}
         /\ update'[w] = None
         /\ \A v \in Ingestions \ {w} :
              /\ at'[v] = at[v] /\ meta'[v] = meta[v] /\ own'[v] = own[v] /\ seen'[v] = seen[v]
              /\ todo'[v] = todo[v] /\ rows'[v] = rows[v] /\ update'[v] = update[v]
         /\ at' \in [Ingestions -> {"idle", "bound", "recorded", "charging", "done"}]
         /\ meta' \in [Ingestions -> Metas \cup {None}]
         /\ own' \in [Ingestions -> Sequences \cup {0}]
         /\ seen' \in [Ingestions -> SUBSET Metas]
         /\ todo' \in [Ingestions -> SUBSET Metas]
         /\ rows' \in [Ingestions -> SUBSET Metas]
         /\ update' \in [Ingestions -> OwnerUpdate \cup {None}]
  BY DEF TypeOK, Release

LEMMA RollbackStep ==
  ASSUME IInv, NEW w \in Ingestions, Rollback(w)
  PROVE  IInv'
<1> USE DEF IInv, Active
<1>1. UNCHANGED <<stored, ledger, owner, readFor>> /\ Release(w) /\ TypeOK
  BY DEF Rollback
<1>2. TypeOK'
  BY <1>1, ReleaseFacts DEF TypeOK
<1>3. TransactionShape'
  <2> SUFFICES ASSUME NEW v \in Ingestions PROVE ShapeOf(v)'
    BY DEF TransactionShape
  <2>1. CASE v = w
    BY <2>1, <1>1, ReleaseFacts DEF ShapeOf
  <2>2. CASE v # w
    BY <2>2, <1>1, ReleaseFacts DEF TransactionShape, ShapeOf, ValidOwnerBinding
  <2> QED BY <2>1, <2>2
<1>4. EventWrittenOnce' /\ UpdateIsAlone' /\ SequenceIsUnique'
  BY <1>1, ReleaseFacts DEF EventWrittenOnce, UpdateIsAlone, SequenceIsUnique
<1>5. ReadsAreCommitted'
  <2> SUFFICES ASSUME NEW v \in Ingestions
               PROVE  /\ \A m \in seen'[v] : stored[m] # 0
                      /\ todo'[v] \cup rows'[v] \subseteq Candidates(stored, seen'[v])
                      /\ \A m \in Candidates(stored, seen'[v]) :
                             m \in todo'[v] \/ m \in rows'[v] \/ ledger[m] # None
    BY <1>1 DEF ReadsAreCommitted
  <2>1. CASE v = w
    BY <2>1, <1>1, ReleaseFacts, NothingToCharge
  <2>2. CASE v # w
    BY <2>2, <1>1, ReleaseFacts DEF ReadsAreCommitted
  <2> QED BY <2>1, <2>2
<1>6. ChargeWrittenOnce' /\ ChargedInOrder' /\ ChargesWon'
  BY <1>1, ReleaseFacts DEF ChargeWrittenOnce, ChargedInOrder, ChargesWon
<1>7. EventDecides'
  BY <1>1, ReleaseFacts DEF EventDecides, DecidedBy
<1> QED BY <1>2, <1>3, <1>4, <1>5, <1>6, <1>7

LEMMA CommitStep ==
  ASSUME IInv, NEW w \in Ingestions, Commit(w)
  PROVE  IInv'
<1> USE DEF IInv
<1>1. /\ stored' = IF own[w] = 0 THEN stored ELSE [stored EXCEPT ![meta[w]] = own[w]]
      /\ ledger' = [e \in Metas |-> IF e \in rows[w]
                                    THEN ModelIn(stored, seen[w], EventOf[e].session) ELSE ledger[e]]
      /\ status' = IF update[w] = None THEN status ELSE update[w].status
      /\ sessionId' = IF update[w] = None THEN sessionId ELSE update[w].sessionId
      /\ readFor' = [e \in Metas |-> IF e \in rows[w] THEN seen[w] ELSE readFor[e]]
      /\ startedAt' = startedAt /\ Release(w) /\ TypeOK
  BY DEF Commit
<1>2. at[w] # "idle" /\ meta[w] \in Metas
  BY DEF Commit, TransactionShape, ShapeOf, Active
<1>3. /\ stored' \in [Metas -> Sequences \cup {0}]
      /\ own[w] # 0 => stored[meta[w]] = 0 /\ stored'[meta[w]] = own[w]
      /\ \A m \in Metas : own[w] = 0 \/ m # meta[w] => stored'[m] = stored[m]
  BY <1>1, <1>2 DEF TypeOK, EventWrittenOnce
<1>4. \A m \in Metas : stored[m] # 0 => stored'[m] = stored[m] /\ stored'[m] # 0
  BY <1>3
<1>5. \A v \in Ingestions : seen[v] \subseteq Metas /\ \A m \in seen[v] : stored'[m] = stored[m]
  BY <1>4 DEF ReadsAreCommitted, TypeOK
<1>6. \A v \in Ingestions : Candidates(stored', seen[v]) = Candidates(stored, seen[v])
  BY <1>5, CandidatesAgree
<1>7. \A m \in rows[w] : /\ m \in Metas /\ m \in Candidates(stored, seen[w])
                         /\ ledger'[m] = ModelIn(stored, seen[w], EventOf[m].session)
                         /\ ledger'[m] # None /\ readFor'[m] = seen[w]
  <2>1. \A m \in rows[w] : m \in Metas /\ m \in Candidates(stored, seen[w])
    BY DEF ReadsAreCommitted, TypeOK
  <2>2. \A m \in rows[w] : ModelIn(stored, seen[w], EventOf[m].session) # None
    BY <2>1, CandidatesAre
  <2> QED BY <1>1, <2>1, <2>2
<1>8. \A m \in Metas \ rows[w] : ledger'[m] = ledger[m] /\ readFor'[m] = readFor[m]
  BY <1>1
<1>9. \A v \in Ingestions \ {w} : Active(v) => update[w] = None
  BY DEF UpdateIsAlone
<1>10. TypeOK'
  <2>1. ledger' \in [Metas -> Models \cup {None}] /\ readFor' \in [Metas -> SUBSET Metas]
    BY <1>1, ModelInType DEF TypeOK
  <2>2. status' \in Status /\ sessionId' \in Roots \cup {None}
    BY <1>1 DEF TypeOK, OwnerUpdate
  <2> QED BY <1>1, <1>3, <2>1, <2>2, ReleaseFacts DEF TypeOK
<1>11. TransactionShape'
  <2> SUFFICES ASSUME NEW v \in Ingestions PROVE ShapeOf(v)'
    BY DEF TransactionShape
  <2>1. CASE v = w
    BY <2>1, <1>1, ReleaseFacts DEF ShapeOf, Active
  <2>2. CASE v # w
    BY <2>2, <1>1, <1>9, ReleaseFacts DEF TransactionShape, ShapeOf, ValidOwnerBinding, Active
  <2> QED BY <2>1, <2>2
<1>12. EventWrittenOnce'
  <2> SUFFICES ASSUME NEW v \in Ingestions, v # w, own[v] # 0
               PROVE  /\ stored'[meta[v]] = 0
                      /\ \A u \in Ingestions \ {w} : own[u] # 0 /\ meta[u] = meta[v] => u = v
    BY <1>1, ReleaseFacts DEF EventWrittenOnce
  <2>1. meta[v] \in Metas
    BY DEF TransactionShape, ShapeOf, Active
  <2> QED BY <1>3, <2>1 DEF EventWrittenOnce
<1>13. UpdateIsAlone'
  BY <1>1, <1>2, ReleaseFacts DEF UpdateIsAlone, Active
<1>14. ReadsAreCommitted'
  <2> SUFFICES ASSUME NEW v \in Ingestions
               PROVE  /\ \A m \in seen'[v] : stored'[m] # 0
                      /\ todo'[v] \cup rows'[v] \subseteq Candidates(stored', seen'[v])
                      /\ \A m \in Candidates(stored', seen'[v]) :
                             m \in todo'[v] \/ m \in rows'[v] \/ ledger'[m] # None
    BY DEF ReadsAreCommitted
  <2>1. CASE v = w
    BY <2>1, <1>1, ReleaseFacts, NothingToCharge
  <2>2. CASE v # w
    <3>1. /\ \A m \in seen[v] : stored'[m] # 0
          /\ todo[v] \cup rows[v] \subseteq Candidates(stored, seen[v])
      BY <1>4, <1>5 DEF ReadsAreCommitted
    <3>2. \A m \in Candidates(stored, seen[v]) :
            m \in Metas /\ (m \in todo[v] \/ m \in rows[v] \/ ledger[m] # None)
      BY <1>5, CandidatesAre DEF ReadsAreCommitted
    <3>3. \A m \in Candidates(stored, seen[v]) : m \in todo[v] \/ m \in rows[v] \/ ledger'[m] # None
      BY <3>2, <1>7, <1>8
    <3>4. seen'[v] = seen[v] /\ todo'[v] = todo[v] /\ rows'[v] = rows[v]
      BY <2>2, <1>1, ReleaseFacts
    <3> QED BY <3>1, <3>3, <3>4, <1>6
  <2> QED BY <2>1, <2>2
<1>15. ChargeWrittenOnce'
  <2> SUFFICES ASSUME NEW v \in Ingestions, v # w, NEW m \in rows[v]
               PROVE  ledger'[m] = None /\ \A u \in Ingestions \ {w} : m \in rows[u] => u = v
    BY <1>1, ReleaseFacts DEF ChargeWrittenOnce
  <2>1. m \in Metas /\ m \notin rows[w]
    BY DEF ChargeWrittenOnce, TypeOK
  <2> QED BY <2>1, <1>8 DEF ChargeWrittenOnce
<1>16. ChargedInOrder'
  <2> SUFFICES ASSUME NEW v \in Ingestions, v # w, NEW m \in rows[v], NEW n \in todo[v]
               PROVE  stored'[m] < stored'[n]
    BY <1>1, ReleaseFacts DEF ChargedInOrder
  <2>1. m \in seen[v] /\ n \in seen[v]
    BY CandidatesAre DEF ReadsAreCommitted
  <2> QED BY <2>1, <1>5 DEF ChargedInOrder
<1>17. ChargesWon'
  <2> SUFFICES ASSUME NEW m \in Metas, ledger'[m] # None
               PROVE  /\ \A n \in readFor'[m] : stored'[n] # 0
                      /\ m \in Candidates(stored', readFor'[m])
                      /\ ledger'[m] = ModelIn(stored', readFor'[m], EventOf[m].session)
    BY DEF ChargesWon
  <2>1. CASE m \in rows[w]
    <3>1. \A n \in seen[w] : stored'[n] # 0
      BY <1>4, <1>5 DEF ReadsAreCommitted
    <3>2. ModelIn(stored', seen[w], EventOf[m].session) = ModelIn(stored, seen[w], EventOf[m].session)
      BY <1>5, ModelsAgree
    <3> QED BY <2>1, <3>1, <3>2, <1>6, <1>7
  <2>2. CASE m \notin rows[w]
    <3>1. /\ readFor[m] \subseteq Metas /\ \A n \in readFor[m] : stored[n] # 0
          /\ m \in Candidates(stored, readFor[m])
          /\ ledger[m] = ModelIn(stored, readFor[m], EventOf[m].session)
      BY <2>2, <1>8 DEF ChargesWon, TypeOK
    <3>2. \A n \in readFor[m] : stored'[n] = stored[n] /\ stored'[n] # 0
      BY <3>1, <1>4
    <3>3. Candidates(stored', readFor[m]) = Candidates(stored, readFor[m])
      BY <3>2, CandidatesAgree
    <3>4. ModelIn(stored', readFor[m], EventOf[m].session)
            = ModelIn(stored, readFor[m], EventOf[m].session)
      BY <3>2, ModelsAgree
    <3> QED BY <2>2, <3>1, <3>2, <3>3, <3>4, <1>8
  <2> QED BY <2>1, <2>2
<1>18. SequenceIsUnique'
  <2>1. ASSUME NEW m \in Metas, NEW n \in Metas, stored'[m] # 0, stored'[m] = stored'[n]
        PROVE  m = n
    BY <2>1, <1>3 DEF SequenceIsUnique
  <2>2. ASSUME NEW v \in Ingestions, v # w, own[v] # 0
        PROVE  /\ \A m \in Metas : stored'[m] # own[v]
               /\ \A u \in Ingestions \ {w} : own[u] = own[v] => u = v
    BY <2>2, <1>3 DEF SequenceIsUnique
  <2> QED BY <1>1, <2>1, <2>2, ReleaseFacts DEF SequenceIsUnique
<1>19. EventDecides'
  <2> SUFFICES ASSUME NEW v \in Ingestions PROVE DecidedBy(v)'
    BY DEF EventDecides
  <2>1. CASE v = w
    BY <2>1, <1>1, ReleaseFacts DEF DecidedBy
  <2>2. CASE v # w
    <3>1. update'[v] = None
      BY <1>1, <1>2, <2>2, ReleaseFacts DEF UpdateIsAlone, Active, TransactionShape, ShapeOf
    <3>2. at'[v] = at[v] /\ meta'[v] = meta[v] /\ seen'[v] = seen[v] /\ update'[v] = update[v]
      BY <1>1, <2>2, ReleaseFacts
    <3> QED BY <3>1, <3>2 DEF EventDecides, DecidedBy
  <2> QED BY <2>1, <2>2
<1> QED BY <1>10, <1>11, <1>12, <1>13, <1>14, <1>15, <1>16, <1>17, <1>18, <1>19
-----------------------------------------------------------------------------
(* The inductive invariant.                                                *)

LEMMA Initially ==
  ASSUME Init
  PROVE  IInv
<1> USE DEF Init
<1>1. TypeOK
  BY ConstantsAssumption DEF TypeOK, Status
<1>2. TransactionShape /\ EventWrittenOnce /\ UpdateIsAlone
  BY DEF TransactionShape, ShapeOf, Active, EventWrittenOnce, UpdateIsAlone
<1>3. ReadsAreCommitted /\ ChargeWrittenOnce /\ ChargedInOrder /\ ChargesWon /\ SequenceIsUnique
  BY NothingToCharge DEF ReadsAreCommitted, ChargeWrittenOnce, ChargedInOrder, ChargesWon,
     SequenceIsUnique
<1>4. EventDecides
  BY DEF EventDecides, DecidedBy
<1> QED BY <1>1, <1>2, <1>3, <1>4 DEF IInv

LEMMA Stuttering ==
  ASSUME IInv, UNCHANGED vars
  PROVE  IInv'
<1> USE DEF IInv, vars
<1>1. TypeOK' /\ TransactionShape' /\ EventWrittenOnce' /\ UpdateIsAlone' /\ SequenceIsUnique'
  BY DEF TypeOK, TransactionShape, ShapeOf, Active, ValidOwnerBinding, EventWrittenOnce,
     UpdateIsAlone, SequenceIsUnique
<1>2. ReadsAreCommitted' /\ ChargeWrittenOnce' /\ ChargedInOrder' /\ ChargesWon'
  BY DEF ReadsAreCommitted, ChargeWrittenOnce, ChargedInOrder, ChargesWon
<1>3. EventDecides'
  BY DEF EventDecides, DecidedBy
<1> QED BY <1>1, <1>2, <1>3

\* The invariant holds whatever the ingestions interleave, lose or repeat.
THEOREM InductiveInvariant == Spec => []IInv
<1>1. Init => IInv
  BY Initially
<1>2. IInv /\ [Next]_vars => IInv'
  <2> SUFFICES ASSUME IInv, [Next]_vars PROVE IInv'
    OBVIOUS
  <2>1. CASE (\E r \in Roots : Bind(r)) \/ Recover \/ FailDelivery
    BY <2>1, OwnerStep
  <2>2. CASE \E w \in Ingestions, m \in Metas : Validate(w, m)
    BY <2>2, ValidateStep
  <2>3. CASE \E w \in Ingestions : Statement(w)
    BY <2>3, InsertEventStep, ProjectStep, InsertChargeStep, SettleTaskStep, CommitStep DEF Statement
  <2>4. CASE \E w \in Ingestions : Lose(w) \/ AbortDeadlock(w)
    BY <2>4, RollbackStep DEF Lose, AbortDeadlock
  <2>5. CASE UNCHANGED vars
    BY <2>5, Stuttering
  <2> QED BY <2>1, <2>2, <2>3, <2>4, <2>5 DEF Next
<1> QED BY <1>1, <1>2, PTL DEF Spec

\* Every variable keeps its type.
THEOREM TypeCorrect == Spec => []TypeOK
<1>1. IInv => TypeOK
  BY DEF IInv
<1> QED BY <1>1, InductiveInvariant, PTL

-----------------------------------------------------------------------------
(* What follows from the invariant.                                        *)

\* One boundary never charges two attempts of a step that it has read.
THEOREM ChargedTwiceUnseen == Spec => []SecondChargeUnseen
<1>1. IInv => SecondChargeUnseen
  <2> SUFFICES ASSUME IInv, NEW m \in Metas, NEW n \in Metas, ledger[m] # None, ledger[n] # None,
                      SameStep(m, n), stored[m] < stored[n]
               PROVE  m \in readFor[m] /\ n \notin readFor[m]
    BY DEF SecondChargeUnseen
  <2>1. m \in Candidates(stored, readFor[m]) /\ n \in Candidates(stored, readFor[n])
    BY DEF IInv, ChargesWon
  <2>2. m \in readFor[m] /\ IsStep(n)
        /\ \A o \in readFor[m] : IsStep(o) /\ SameStep(m, o) => stored[o] <= stored[m]
    BY <2>1, CandidatesAre
  <2>3. stored[m] \in Nat /\ stored[n] \in Nat
    BY ConstantsAssumption DEF IInv, TypeOK
  <2> QED BY <2>2, <2>3
<1> QED BY <1>1, InductiveInvariant, PTL

\* A boundary never commits with a charge missing.
THEOREM PaidInFull == Spec => []BoundaryPaysInFull
<1>1. IInv => BoundaryPaysInFull
  BY DEF IInv, ReadsAreCommitted, BoundaryPaysInFull
<1> QED BY <1>1, InductiveInvariant, PTL

\* The model of a charge was announced by the session of the step.
THEOREM ModelOfSession == Spec => []ModelOfItsSession
<1>1. IInv => ModelOfItsSession
  <2> SUFFICES ASSUME IInv, NEW m \in Metas, ledger[m] # None
               PROVE  \E n \in Metas : /\ stored[n] # 0 /\ EventOf[n].kind = "session.started"
                                       /\ EventOf[n].session = EventOf[m].session
                                       /\ EventOf[n].model = ledger[m]
    BY DEF ModelOfItsSession
  <2>1. /\ ledger[m] = ModelIn(stored, readFor[m], EventOf[m].session)
        /\ readFor[m] \subseteq Metas /\ \A n \in readFor[m] : stored[n] # 0
    BY DEF IInv, ChargesWon, TypeOK
  <2> QED BY <2>1, ModelIsAnnounced
<1> QED BY <1>1, InductiveInvariant, PTL

\* The owner's lock keeps the binding that an ingestion has checked.
THEOREM BindingKept == Spec => BoundOwnerRefusesOthers
<1>1. ASSUME IInv, [Next]_vars, NEW m \in Metas, stored[m] = 0, stored'[m] # 0
      PROVE  /\ sessionId \in {None, EventOf[m].root}
             /\ OwnerIsTask => startedAt = GenerationOf[EventOf[m].root]
  <2>1. PICK w \in Ingestions : Commit(w)
    BY <1>1 DEF Next, vars, Bind, Recover, FailDelivery, Validate, Statement, InsertEvent, ProjectRootCharges,
       InsertCharge, SettleTask, Lose, AbortDeadlock, Rollback
  <2>2. Active(w) /\ meta[w] \in Metas /\ ValidOwnerBinding(meta[w])
    BY <2>1, <1>1 DEF Commit, IInv, TransactionShape, ShapeOf, Active
  <2>3. m = meta[w]
    BY <1>1, <2>1, <2>2 DEF Commit, IInv, TypeOK
  <2> QED BY <2>2, <2>3 DEF ValidOwnerBinding
<1>2. IInv /\ [Next]_vars =>
        [\A m \in Metas : stored[m] = 0 /\ stored'[m] # 0 =>
            /\ sessionId \in {None, EventOf[m].root}
            /\ OwnerIsTask => startedAt = GenerationOf[EventOf[m].root]]_vars
  BY <1>1
<1> QED BY <1>2, InductiveInvariant, PTL DEF Spec, BoundOwnerRefusesOthers
-----------------------------------------------------------------------------
(* Deadlock.                                                               *)

LEMMA Least ==
  ASSUME NEW T \in SUBSET Nat, T # {}
  PROVE  \E x \in T : \A y \in T : ~(y < x)
<1> DEFINE R == OpToRel(<, Nat)
<1>1. IsWellFoundedOn(R, Nat)
  BY NatLessThanWellFounded
<1>2. \A x, y \in Nat : y < x => <<y, x>> \in R
  BY DEF OpToRel
<1> HIDE DEF R
<1>3. \E x \in T : \A y \in T : ~(<<y, x>> \in R)
  BY <1>1, WFMin
<1> QED BY <1>2, <1>3

\* A bounded set of numbers has a greatest member.
LEMMA Greatest ==
  ASSUME NEW B \in Nat, NEW N \in SUBSET (1..B), N # {}
  PROVE  \E x \in N : \A y \in N : ~(x < y)
<1> DEFINE T == {B - x : x \in N}
<1>1. \A x \in N : x \in Nat /\ B - x \in Nat
  OBVIOUS
<1>2. T \in SUBSET Nat /\ T # {}
  BY <1>1
<1>3. PICK z \in T : \A y \in T : ~(y < z)
  BY <1>2, Least
<1>4. PICK x \in N : z = B - x
  BY <1>3
<1>5. ASSUME NEW y \in N
      PROVE  ~(x < y)
  <2>1. ~(B - y < B - x)
    BY <1>3, <1>4
  <2> QED BY <1>1, <2>1
<1> QED BY <1>5

\* Event e is the charge that v holds and w waits for.
WaitsForCharge(w, v, e) ==
    /\ at[w] = "charging" /\ e \in todo[w] /\ e \in rows[v]
    /\ \A f \in todo[w] : Before(stored, seen[w], e, f)

LEMMA HolderWaitsForCharge ==
  ASSUME IInv, NEW v \in Ingestions, NEW u \in Ingestions, Waits(v, u), ~WantsTask(v),
         at[v] # "bound"
  PROVE  \E f \in Metas : WaitsForCharge(v, u, f)
  BY DEF IInv, TypeOK, Waits, WaitsForCharge

\* The charge that the holder waits for is later than the one it holds.
LEMMA WaitsClimb ==
  ASSUME IInv, NEW w \in Ingestions, NEW v \in Ingestions, NEW u \in Ingestions,
         NEW e, NEW f, WaitsForCharge(w, v, e), WaitsForCharge(v, u, f)
  PROVE  stored[e] < stored[f]
  BY DEF IInv, ChargedInOrder, WaitsForCharge

\* Ingestions that settle nothing never deadlock: along a cycle the charges
\* waited for would be ever later ones.
THEOREM InsertsNeverDeadlock == Spec => []OnlySettlementDeadlocks
<1>1. IInv => OnlySettlementDeadlocks
  <2> SUFFICES ASSUME IInv, NEW D \in SUBSET Ingestions, Stuck(D),
                      \A w \in D : ~WantsTask(w)
               PROVE  FALSE
    BY DEF OnlySettlementDeadlocks
  <2> DEFINE Charge(e) == \E w, v \in D : WaitsForCharge(w, v, e)
             N == {stored[e] : e \in {f \in Metas : Charge(f)}}
  <2>1. ASSUME NEW v \in D, at[v] # "bound"
        PROVE  \E u \in D, f \in Metas : WaitsForCharge(v, u, f)
    BY <2>1, HolderWaitsForCharge DEF Stuck
  <2>2. ASSUME NEW w \in D
        PROVE  \E v \in D : at[v] # "bound"
    <3>1. PICK v \in D : Waits(w, v)
      BY <2>2 DEF Stuck
    <3>2. CASE at[w] # "bound"
      BY <3>2
    <3>3. CASE at[w] = "bound"
      BY <3>1, <3>3 DEF Waits, EventInsertedBy, WantsTask, IInv, TransactionShape, ShapeOf
    <3> QED BY <3>2, <3>3
  <2>3. ASSUME NEW e \in Metas, Charge(e)
        PROVE  \E f \in Metas : Charge(f) /\ stored[e] < stored[f]
    <3>1. PICK w \in D, v \in D : WaitsForCharge(w, v, e)
      BY <2>3
    <3>2. at[v] # "bound"
      BY <3>1 DEF WaitsForCharge, IInv, TransactionShape, ShapeOf
    <3>3. PICK u \in D, f \in Metas : WaitsForCharge(v, u, f)
      BY <2>1, <3>2
    <3> QED BY <3>1, <3>3, WaitsClimb
  <2>4. \A e \in Metas : Charge(e) => stored[e] \in 1..MaxSequence
    <3> SUFFICES ASSUME NEW e \in Metas, Charge(e)
                 PROVE  stored[e] \in 1..MaxSequence
      OBVIOUS
    <3>1. PICK w \in D : e \in todo[w]
      BY DEF WaitsForCharge
    <3>2. stored[e] # 0
      BY <3>1, CandidatesAre DEF IInv, ReadsAreCommitted
    <3> QED BY <3>2 DEF IInv, TypeOK
  <2>5. \E e \in Metas : Charge(e)
    BY <2>1, <2>2 DEF Stuck
  <2> HIDE DEF Charge
  <2>6. N \in SUBSET (1..MaxSequence) /\ N # {}
    BY <2>4, <2>5
  <2>7. PICK x \in N : \A y \in N : ~(x < y)
    BY <2>6, Greatest, ConstantsAssumption
  <2> QED BY <2>3, <2>7
<1> QED BY <1>1, InductiveInvariant, PTL
-----------------------------------------------------------------------------
(* What ChargeBook says, in the words of this module.                      *)

LEMMA SameBoundary ==
  ASSUME NEW m
  PROVE  /\ Book!Boundary(m) <=> IsRootChargeBoundary(m)
         /\ Book!Ends(m) <=> OwnerIsTask /\ IsRootTerminal(m)
         /\ Book!BoundTo(m) <=> ValidOwnerBinding(m)
BY DEF Book!Boundary, Book!Ends, Book!BoundTo, IsRootChargeBoundary, IsRootTerminal, IsRoot,
       ValidOwnerBinding

LEMMA SameVerdicts ==
  ASSUME NEW kind
  PROVE  Book!MayEnd(kind) = Verdicts(kind)
BY DEF Book!MayEnd, Verdicts

\* Of stored events there is a latest.
LEMMA LatestExists ==
  ASSUME TypeOK, NEW A \in SUBSET Metas, A # {}, \A m \in A : stored[m] # 0
  PROVE  \E m \in A : Book!Latest(m, A)
<1> DEFINE N == {stored[m] : m \in A}
<1>1. N \in SUBSET (1..MaxSequence) /\ N # {}
  BY DEF TypeOK
<1>2. PICK x \in N : \A y \in N : ~(x < y)
  BY <1>1, Greatest, ConstantsAssumption
<1>3. PICK m \in A : stored[m] = x
  BY <1>2
<1>4. \A n \in A : stored[n] \in N /\ stored[n] \in Nat /\ stored[m] \in Nat
  BY <1>1
<1>5. ASSUME NEW n \in A
      PROVE  stored[n] <= stored[m]
  <2>1. stored[n] \in N
    BY <1>4
  <2>2. ~(stored[m] < stored[n])
    BY <1>2, <1>3, <2>1
  <2>3. stored[n] \in Nat /\ stored[m] \in Nat
    BY <1>4
  <2> HIDE DEF N
  <2> QED BY <2>2, <2>3
<1> QED BY <1>3, <1>5 DEF Book!Latest

LEMMA SameModel ==
  ASSUME TypeOK, NEW S \in SUBSET Metas, \A m \in S : stored[m] # 0, NEW e
  PROVE  /\ Book!Announced(e, S) # {} <=> ModelIn(stored, S, EventOf[e].session) # None
         /\ Book!Announced(e, S) # {} =>
              \E n \in S : /\ Book!Latest(n, Book!Announced(e, S))
                           /\ ModelIn(stored, S, EventOf[e].session) = EventOf[n].model
<1> DEFINE s == EventOf[e].session
<1>1. \A m \in Metas : EventOf[m].model \in Models \cup {None}
  BY ConstantsAssumption
<1>2. None \notin Models
  BY NoneAssumption
<1>3. ASSUME NEW x \in Models
      PROVE  LastAnnounced(stored, Of(S, s), x) <=>
               \E n \in S : Book!Latest(n, Book!Announced(e, S)) /\ EventOf[n].model = x
  BY <1>2, <1>3 DEF LastAnnounced, Of, Book!Latest, Book!Announced
<1>4. CASE Book!Announced(e, S) = {}
  <2>1. ~\E x \in Models : LastAnnounced(stored, Of(S, s), x)
    BY <1>3, <1>4 DEF Book!Latest
  <2> QED BY <1>4, <2>1 DEF ModelIn
<1>5. CASE Book!Announced(e, S) # {}
  <2>1. Book!Announced(e, S) \subseteq S
    BY DEF Book!Announced
  <2>2. PICK n \in Book!Announced(e, S) : Book!Latest(n, Book!Announced(e, S))
    BY <1>5, <2>1, LatestExists
  <2>3. EventOf[n].model \in Models
    BY <1>1, <2>1, <2>2 DEF Book!Announced
  <2>4. \E x \in Models : LastAnnounced(stored, Of(S, s), x)
    BY <1>3, <2>1, <2>2, <2>3
  <2>5. /\ ModelIn(stored, S, s) \in Models
        /\ LastAnnounced(stored, Of(S, s), ModelIn(stored, S, s))
    BY <2>4 DEF ModelIn
  <2> QED BY <1>2, <1>3, <1>5, <2>5
<1> QED BY <1>4, <1>5

LEMMA SameDue ==
  ASSUME TypeOK, NEW S \in SUBSET Metas, \A m \in S : stored[m] # 0
  PROVE  Book!Due(S) = Candidates(stored, S)
<1> SUFFICES ASSUME NEW m \in S
             PROVE  m \in Book!Due(S) <=> m \in Candidates(stored, S)
  BY CandidatesAre DEF Book!Due
<1>1. Book!Latest(m, Book!Attempts(m, S)) <=> m \in Winners(stored, S)
  BY DEF Book!Latest, Book!Attempts, Winners, IsStep, SameStep
<1> QED BY <1>1, SameModel DEF Book!Due, Candidates

-----------------------------------------------------------------------------
(* The steps of ChargeBook.                                                *)

\* A step that nobody outside sees.
LEMMA QuietBook ==
  ASSUME UNCHANGED <<stored, ledger, owner, Taken, Looked, own, seen>>
  PROVE  UNCHANGED Book!vars
BY DEF Book!vars, Book!book, Book!owner

LEMMA OwnerBook ==
  ASSUME IInv, (\E r \in Roots : Bind(r)) \/ Recover \/ FailDelivery
  PROVE  Book!Next
<1>1. UNCHANGED <<stored, ledger, Taken, Looked, own, seen>>
  BY DEF Bind, Recover, FailDelivery, Taken, Looked
<1>2. ASSUME NEW r \in Roots, Bind(r)
      PROVE  Book!Bind(r)
  BY <1>1, <1>2 DEF Bind, Book!Bind, Book!book
<1>3. Recover => Book!Reclaim
  BY <1>1 DEF Recover, Book!Reclaim, Book!Unbound, Book!book
<1>4. FailDelivery => Book!FailUnbound
  BY <1>1 DEF FailDelivery, Book!FailUnbound, Book!Unbound, Book!book
<1> QED BY <1>2, <1>3, <1>4 DEF Book!Next

\* What an ingestion has taken in.
LEMMA TakenIs ==
  ASSUME IInv, NEW v \in Ingestions
  PROVE  /\ Taken[v] \in Metas \cup {None}
         /\ at[v] \in {"idle", "bound"} => Taken[v] = None /\ own[v] = 0 /\ seen[v] = {}
         /\ at[v] \notin {"idle", "bound"} => Taken[v] = meta[v] /\ meta[v] \in Metas /\ Taken[v] # None
BY NoneAssumption DEF Taken, IInv, TransactionShape, ShapeOf, Active

LEMMA DrawBook ==
  ASSUME IInv, NEW w \in Ingestions, InsertEvent(w)
  PROVE  Book!Next
<1> DEFINE m == meta[w]
<1> USE DEF InsertEvent
<1>1. m \in Metas /\ m # None /\ Taken[w] = None
  BY TakenIs, NoneAssumption DEF IInv, TransactionShape, ShapeOf, Active
<1>2. at \in [Ingestions -> {"idle", "bound", "recorded", "charging", "done"}]
  BY DEF IInv, TypeOK
<1>3. Taken' = [Taken EXCEPT ![w] = m]
  BY <1>2 DEF Taken
<1>4. Looked' = IF IsRootChargeBoundary(m) THEN Looked ELSE Looked \cup {w}
  BY <1>2 DEF Looked
<1>5. \A v \in Ingestions : Taken[v] = m => own[v] = 0
  BY <1>1, TakenIs DEF EventInsertedBy
<1>6. Taken'[w] # Taken[w]
  BY <1>1, <1>3 DEF Taken
<1>7. Book!Draw(w, m)
  BY <1>1, <1>3, <1>4, <1>5, SameBoundary
     DEF Book!Draw, IsNextSequence, Book!book, Book!owner
<1> QED BY <1>1, <1>6, <1>7 DEF Book!Next

LEMMA LookBook ==
  ASSUME IInv, NEW w \in Ingestions, ProjectRootCharges(w)
  PROVE  Book!Next
<1> USE DEF ProjectRootCharges
<1>1. /\ at \in [Ingestions -> {"idle", "bound", "recorded", "charging", "done"}]
      /\ at[w] = "recorded"
  BY DEF IInv, TypeOK
<1>2. Taken[w] = meta[w] /\ Taken[w] # None
  BY <1>1, TakenIs
<1>3. Taken' = Taken /\ w \notin Looked /\ Looked' = Looked \cup {w}
  BY <1>1 DEF Taken, Looked
<1>4. seen' = [seen EXCEPT ![w] = Book!Reported(EventOf[meta[w]].root)]
  BY DEF Book!Reported, IsProjected
<1>5. Book!Look(w)
  BY <1>2, <1>3, <1>4 DEF Book!Look, Book!book, Book!owner
<1> QED BY <1>5 DEF Book!Next

\* A transaction that ends leaves.
LEMMA LeaveBook ==
  ASSUME IInv, NEW w \in Ingestions, Release(w), at[w] \notin {"idle", "bound"}
  PROVE  Book!Leave(w) /\ Taken'[w] # Taken[w]
<1>1. TypeOK
  BY DEF IInv
<1>2. /\ at' = [at EXCEPT ![w] = "idle"] /\ meta' = [meta EXCEPT ![w] = None]
      /\ own' = [own EXCEPT ![w] = 0] /\ seen' = [seen EXCEPT ![w] = {}]
  BY DEF Release
<1>3. Taken[w] # None
  BY TakenIs
<1>4. Taken' = [Taken EXCEPT ![w] = None] /\ Taken'[w] = None
  BY <1>1, <1>2 DEF Taken, TypeOK
<1>5. Looked' = Looked \ {w}
  BY <1>1, <1>2 DEF Looked, TypeOK
<1> QED BY <1>2, <1>3, <1>4, <1>5 DEF Book!Leave

LEMMA DropBook ==
  ASSUME IInv, NEW w \in Ingestions, Rollback(w)
  PROVE  [Book!Next]_(Book!vars)
<1>1. UNCHANGED <<stored, ledger, owner>> /\ Release(w) /\ at[w] # "idle" /\ TypeOK
  BY DEF Rollback, Active, IInv
<1>2. CASE at[w] = "bound"
  <2>1. own[w] = 0 /\ seen[w] = {}
    BY <1>2, TakenIs
  <2>2. own' = own /\ seen' = seen
    BY <1>1, <2>1 DEF Release, TypeOK
  <2>3. Taken' = Taken /\ Looked' = Looked
    BY <1>1, <1>2 DEF Release, TypeOK, Taken, Looked
  <2> QED BY <1>1, <2>2, <2>3, QuietBook
<1>3. CASE at[w] # "bound"
  <2>1. Book!Leave(w) /\ Taken'[w] # Taken[w]
    BY <1>1, <1>3, LeaveBook
  <2>2. Book!Drop(w)
    BY <1>1, <2>1 DEF Book!Drop, Book!book, Book!owner
  <2> QED BY <2>1, <2>2 DEF Book!Next
<1> QED BY <1>2, <1>3

\* All that was due in what w saw is in the ledger when it commits.
LEMMA PayBook ==
  ASSUME IInv, NEW w \in Ingestions, Commit(w)
  PROVE  Book!Pay(seen[w])
<1>1. /\ seen[w] \in SUBSET Metas /\ \A m \in seen[w] : stored[m] # 0
      /\ rows[w] \subseteq Candidates(stored, seen[w]) /\ TypeOK
      /\ \A m \in Candidates(stored, seen[w]) : m \in todo[w] \/ m \in rows[w] \/ ledger[m] # None
      /\ \A m \in rows[w] : ledger[m] = None
  BY DEF IInv, TypeOK, ReadsAreCommitted, ChargeWrittenOnce
<1>2. todo[w] = {}
  BY DEF Commit, IInv, TransactionShape, ShapeOf
<1>3. ledger' = [e \in Metas |-> IF e \in rows[w] THEN ModelIn(stored, seen[w], EventOf[e].session)
                                 ELSE ledger[e]]
  BY DEF Commit
<1>4. ASSUME NEW e \in Metas
      PROVE  e \in rows[w] <=> e \in Book!Due(seen[w]) /\ ledger[e] = None
  BY <1>1, <1>2, SameDue
<1>5. ASSUME NEW e \in rows[w]
      PROVE  \E n \in seen[w] : /\ Book!Latest(n, Book!Announced(e, seen[w]))
                                /\ ModelIn(stored, seen[w], EventOf[e].session) = EventOf[n].model
  <2>1. ModelIn(stored, seen[w], EventOf[e].session) # None
    BY <1>1, <1>5, CandidatesAre
  <2> QED BY <1>1, <2>1, SameModel
<1> QED BY <1>3, <1>4, <1>5 DEF Book!Pay

\* A terminal settles when its event is kept, and nothing else does.
LEMMA EndBook ==
  ASSUME IInv, NEW w \in Ingestions, Commit(w)
  PROVE  IF Book!Ends(meta[w]) THEN Book!Settle(meta[w]) ELSE UNCHANGED <<status, sessionId>>
<1>1. /\ status' = IF update[w] = None THEN status ELSE update[w].status
      /\ sessionId' = IF update[w] = None THEN sessionId ELSE update[w].sessionId
  BY DEF Commit
<1>2. CASE update[w] # None
  <2>1. OwnerIsTask /\ IsRootTerminal(meta[w])
    BY <1>2 DEF IInv, EventDecides, DecidedBy
  <2>2. update[w].status \in IF status = "running" THEN Verdicts(EventOf[meta[w]].kind) ELSE {status}
    BY <1>2 DEF IInv, EventDecides, DecidedBy
  <2>3. update[w].sessionId = EventOf[meta[w]].root
    BY <1>2 DEF IInv, UpdateIsAlone
  <2> QED BY <1>1, <1>2, <2>1, <2>2, <2>3, SameBoundary, SameVerdicts DEF Book!Settle
<1>3. CASE update[w] = None
  <2>1. CASE at[w] = "done"
    <3>1. ~IsRootChargeBoundary(meta[w])
      BY <1>3, <2>1 DEF IInv, EventDecides, DecidedBy
    <3>2. ~IsRootTerminal(meta[w])
      BY <3>1 DEF IsRootChargeBoundary, IsRootTerminal
    <3> QED BY <1>1, <1>3, <3>2, SameBoundary
  <2>2. CASE at[w] = "charging" /\ todo[w] = {} /\ ~WantsTask(w)
    BY <1>1, <1>3, <2>2, SameBoundary DEF WantsTask
  <2> QED BY <2>1, <2>2 DEF Commit
<1> QED BY <1>2, <1>3

LEMMA CloseBook ==
  ASSUME IInv, NEW w \in Ingestions, Commit(w)
  PROVE  Book!Next
<1>1. at[w] \in {"charging", "done"} /\ Release(w) /\ startedAt' = startedAt
  BY DEF Commit
<1>2. Taken[w] = meta[w] /\ meta[w] \in Metas /\ w \in Looked
  BY <1>1, TakenIs DEF Looked
<1>3. Book!Leave(w) /\ Taken'[w] # Taken[w]
  BY <1>1, LeaveBook
<1>4. Book!BoundTo(meta[w])
  BY <1>1, SameBoundary DEF IInv, TransactionShape, ShapeOf, Active
<1>5. stored' = IF own[w] = 0 THEN stored ELSE [stored EXCEPT ![meta[w]] = own[w]]
  BY DEF Commit
<1>6. Book!Close(w)
  BY <1>1, <1>2, <1>3, <1>4, <1>5, PayBook, EndBook DEF Book!Close
<1> QED BY <1>3, <1>6 DEF Book!Next

LEMMA BookStep ==
  ASSUME IInv, [Next]_vars
  PROVE  [Book!Next]_(Book!vars)
<1>1. CASE (\E r \in Roots : Bind(r)) \/ Recover \/ FailDelivery
  BY <1>1, OwnerBook
<1>2. ASSUME NEW w \in Ingestions, NEW m \in Metas, Validate(w, m)
      PROVE  UNCHANGED Book!vars
  <2>1. UNCHANGED <<stored, ledger, owner, own, seen>>
    BY <1>2 DEF Validate
  <2>2. Taken' = Taken /\ Looked' = Looked
    BY <1>2 DEF Validate, Taken, Looked, IInv, TypeOK
  <2> QED BY <2>1, <2>2, QuietBook
<1>3. ASSUME NEW w \in Ingestions, InsertCharge(w) \/ SettleTask(w)
      PROVE  UNCHANGED Book!vars
  <2>1. UNCHANGED <<stored, ledger, owner, meta, own, seen>>
    BY <1>3 DEF InsertCharge, SettleTask
  <2>2. at' = at \/ (at[w] = "charging" /\ at' = [at EXCEPT ![w] = "done"])
    BY <1>3 DEF InsertCharge, SettleTask, WantsTask
  <2>3. Taken' = Taken /\ Looked' = Looked
    BY <2>1, <2>2 DEF Taken, Looked, IInv, TypeOK
  <2> QED BY <2>1, <2>3, QuietBook
<1>4. ASSUME NEW w \in Ingestions, Statement(w)
      PROVE  [Book!Next]_(Book!vars)
  BY <1>3, <1>4, DrawBook, LookBook, CloseBook DEF Statement
<1>5. ASSUME NEW w \in Ingestions, Lose(w) \/ AbortDeadlock(w)
      PROVE  [Book!Next]_(Book!vars)
  BY <1>5, DropBook DEF Lose, AbortDeadlock
<1>6. CASE UNCHANGED vars
  BY <1>6, QuietBook DEF vars, Taken, Looked
<1> QED BY <1>1, <1>2, <1>4, <1>5, <1>6 DEF Next

\* Whatever the statements of ingestions interleave, wait for and abort, an
\* event is taken in at once, with the charges of what it saw and the end of
\* its task, for the owner that is bound to it.
THEOREM RefinesChargeBook == Spec => ImplementsChargeBook
<1>1. Init => Book!Init
  BY DEF Init, Book!Init, Taken, Looked
<1> QED BY <1>1, BookStep, InductiveInvariant, PTL DEF Spec, ImplementsChargeBook, Book!Spec
-----------------------------------------------------------------------------
(* What follows from ChargeBook.                                           *)

LEMMA BookTypes ==
  ASSUME IInv
  PROVE  /\ stored \in [Metas -> Nat] /\ own \in [Ingestions -> Nat]
         /\ Taken \in [Ingestions -> Metas \cup {None}]
         /\ seen \in [Ingestions -> SUBSET Metas]
         /\ None \notin Metas /\ None \notin Roots
<1>1. stored \in [Metas -> Sequences \cup {0}] /\ own \in [Ingestions -> Sequences \cup {0}]
      /\ seen \in [Ingestions -> SUBSET Metas]
  BY DEF IInv, TypeOK
<1>2. Sequences \cup {0} \subseteq Nat
  BY ConstantsAssumption
<1>3. Taken \in [Ingestions -> Metas \cup {None}]
  BY TakenIs DEF Taken
<1> QED BY <1>1, <1>2, <1>3, NoneAssumption

LEMMA DrawKeepsWriter ==
  ASSUME IInv, IInv', Book!OneWriter, NEW w \in Ingestions, NEW m \in Metas, Book!Draw(w, m)
  PROVE  Book!OneWriter'
<1> USE DEF Book!Draw, Book!book, Book!OneWriter
<1>1. Taken[w] = None /\ own[w] = 0 /\ stored' = stored /\ Taken' = [Taken EXCEPT ![w] = m]
  BY BookTypes
<1>2. \A v \in Ingestions : v # w => Taken'[v] = Taken[v] /\ own'[v] = own[v]
  BY <1>1, BookTypes
<1>3. Taken'[w] = m /\ m # None
  BY <1>1, BookTypes
<1>4. CASE stored[m] # 0 /\ own' = own
  BY <1>1, <1>2, <1>3, <1>4
<1>5. ASSUME NEW q \in Sequences, stored[m] = 0, own' = [own EXCEPT ![w] = q],
             \A n \in Metas : stored[n] < q, \A v \in Ingestions : own[v] < q
      PROVE  Book!OneWriter'
  <2>1. q # 0 /\ own'[w] = q
    BY <1>5, BookTypes, ConstantsAssumption
  <2>2. \A n \in Metas : stored[n] # q
    BY <1>5, BookTypes, ConstantsAssumption
  <2>3. \A v \in Ingestions : own[v] # q
    BY <1>5, BookTypes, ConstantsAssumption
  <2>4. \A v \in Ingestions : Taken[v] # m
    BY <1>3, <1>5
  <2> QED BY <1>1, <1>2, <1>3, <1>5, <2>1, <2>2, <2>3, <2>4
<1> QED BY <1>4, <1>5

LEMMA CloseKeepsWriter ==
  ASSUME IInv, IInv', Book!OneWriter, NEW w \in Ingestions, Book!Close(w)
  PROVE  Book!OneWriter'
<1> DEFINE m == Taken[w]
<1> USE DEF Book!Close, Book!Leave, Book!OneWriter
<1>1. m \in Metas /\ Taken' = [Taken EXCEPT ![w] = None] /\ own' = [own EXCEPT ![w] = 0]
  BY BookTypes
<1>2. \A v \in Ingestions : v # w => Taken'[v] = Taken[v] /\ own'[v] = own[v]
  BY <1>1, BookTypes
<1>3. Taken'[w] = None /\ own'[w] = 0
  BY <1>1, BookTypes
<1>4. CASE own[w] = 0
  BY <1>1, <1>2, <1>3, <1>4
<1>5. CASE own[w] # 0
  <2>1. stored' = [stored EXCEPT ![m] = own[w]]
    BY <1>5
  <2>2. \A n \in Metas : stored'[n] = IF n = m THEN own[w] ELSE stored[n]
    BY <1>1, <2>1, BookTypes
  <2>3. \A v \in Ingestions : v # w => Taken[v] # m /\ (own[v] # 0 => own[v] # own[w])
    BY <1>5
  <2> QED BY <1>1, <1>2, <1>3, <1>5, <2>2, <2>3
<1> QED BY <1>4, <1>5

LEMMA KeepsWriter ==
  ASSUME IInv, IInv', Book!OneWriter, [Book!Next]_(Book!vars)
  PROVE  Book!OneWriter'
<1>1. CASE UNCHANGED <<stored, own, Taken>>
  BY <1>1 DEF Book!OneWriter
<1>2. ASSUME NEW w \in Ingestions, Book!Drop(w)
      PROVE  Book!OneWriter'
  <2>1. /\ stored' = stored /\ Taken'[w] = None /\ own'[w] = 0
        /\ \A v \in Ingestions : v # w => Taken'[v] = Taken[v] /\ own'[v] = own[v]
    BY <1>2, BookTypes DEF Book!Drop, Book!Leave, Book!book
  <2> QED BY <2>1 DEF Book!OneWriter
<1>3. [Book!Next]_(Book!vars) => \/ UNCHANGED <<stored, own, Taken>>
                                 \/ \E w \in Ingestions : Book!Drop(w) \/ Book!Close(w)
                                 \/ \E w \in Ingestions, m \in Metas : Book!Draw(w, m)
  BY DEF Book!Next, Book!vars, Book!book, Book!Bind, Book!Reclaim, Book!FailUnbound, Book!Look
<1> QED BY <1>1, <1>2, <1>3, DrawKeepsWriter, CloseKeepsWriter

\* However ingestions of one event overlap, one of them writes it.
THEOREM EventsHaveOneWriter == Spec => []Book!OneWriter
<1>1. Init => Book!OneWriter
  BY DEF Init, Book!OneWriter, Taken
<1>2. IInv /\ IInv' /\ Book!OneWriter /\ [Next]_vars => Book!OneWriter'
  BY BookStep, KeepsWriter
<1> QED BY <1>1, <1>2, InductiveInvariant, PTL DEF Spec

\* What is reported stays reported.
LEMMA ReportsGrow ==
  ASSUME NEW r, \A m \in Metas : stored[m] # 0 => stored'[m] # 0
  PROVE  /\ Book!Reported(r) \subseteq Book!Reported(r)'
         /\ \A e \in Metas : Book!Announced(e, Book!Reported(r)) \subseteq
                             Book!Announced(e, Book!Reported(r)')
BY DEF Book!Reported, Book!Announced

LEMMA BoundaryKept ==
  \A m : Book!Boundary(m)' <=> Book!Boundary(m)
BY DEF Book!Boundary

\* What an ingestion keeps of it, and what is written.
LEMMA BookWrites ==
  ASSUME IInv, IInv', Book!OneWriter, [Book!Next]_(Book!vars)
  PROVE  \A m \in Metas : /\ stored[m] # 0 => stored'[m] = stored[m]
                          /\ ledger[m] # None => ledger'[m] = ledger[m]
<1>1. CASE UNCHANGED <<stored, ledger>>
  BY <1>1
<1>2. ASSUME NEW w \in Ingestions, Book!Close(w)
      PROVE  \A m \in Metas : /\ stored[m] # 0 => stored'[m] = stored[m]
                              /\ ledger[m] # None => ledger'[m] = ledger[m]
  <2>1. own[w] # 0 => stored[Taken[w]] = 0
    BY DEF Book!OneWriter
  <2>2. \A m \in Metas : stored[m] # 0 => stored'[m] = stored[m]
    BY <1>2, <2>1, BookTypes DEF Book!Close
  <2>3. \A m \in Metas : ledger[m] # None => ledger'[m] = ledger[m]
    BY <1>2 DEF Book!Close, Book!Pay
  <2> QED BY <2>2, <2>3
<1>3. [Book!Next]_(Book!vars) => \/ UNCHANGED <<stored, ledger>>
                                 \/ \E w \in Ingestions : Book!Close(w)
  BY DEF Book!Next, Book!vars, Book!book, Book!Bind, Book!Reclaim, Book!FailUnbound, Book!Look,
         Book!Drop, Book!Draw
<1> QED BY <1>1, <1>2, <1>3

LEMMA KeepsViews ==
  ASSUME IInv, IInv', Book!OneWriter, Book!ChargesHaveBoundaries, [Book!Next]_(Book!vars),
         NEW v \in Ingestions
  PROVE  /\ Taken'[v] # None /\ v \notin Looked' => Book!Boundary(Taken'[v])
         /\ seen'[v] # {} => /\ Taken'[v] # None /\ Book!Boundary(Taken'[v])
                             /\ \A r : r = EventOf[Taken'[v]].root => seen'[v] \subseteq Book!Reported(r)'
<1> DEFINE Viewed(E, L, S) ==
             /\ E # None /\ v \notin L => Book!Boundary(E)
             /\ S # {} => /\ E # None /\ Book!Boundary(E)
                          /\ \A r : r = EventOf[E].root => S \subseteq Book!Reported(r)'
<1>1. \A r : Book!Reported(r) \subseteq Book!Reported(r)'
  BY BookWrites, ReportsGrow
<1>2. Viewed(Taken[v], Looked, seen[v])
  BY <1>1 DEF Book!ChargesHaveBoundaries
<1>3. CASE Taken'[v] = Taken[v] /\ seen'[v] = seen[v] /\ (v \in Looked' <=> v \in Looked)
  BY <1>2, <1>3
<1>4. CASE Book!Leave(v)
  <2>1. Taken'[v] = None /\ seen'[v] = {}
    BY <1>4, BookTypes DEF Book!Leave
  <2> QED BY <2>1
<1>5. CASE Book!Look(v)
  <2>1. Taken'[v] = Taken[v] /\ Taken[v] # None /\ Book!Boundary(Taken[v]) /\ v \in Looked'
    BY <1>2, <1>5 DEF Book!Look
  <2>2. seen'[v] = Book!Reported(EventOf[Taken[v]].root)
    BY <1>5, BookTypes DEF Book!Look
  <2> QED BY <1>1, <2>1, <2>2
<1>6. ASSUME NEW m \in Metas, Book!Draw(v, m)
      PROVE  Viewed(Taken'[v], Looked', seen'[v])
  <2>1. /\ Taken'[v] = m /\ seen'[v] = seen[v] /\ Taken[v] = None
        /\ v \notin Looked' => Book!Boundary(m)
    BY <1>6, BookTypes DEF Book!Draw
  <2>2. seen[v] = {}
    BY <1>2, <1>6 DEF Book!Draw
  <2> QED BY <1>6, <2>1, <2>2, BookTypes DEF Book!Draw
<1>7. ASSUME NEW w \in Ingestions, w # v,
             Book!Leave(w) \/ Book!Look(w) \/ \E m \in Metas : Book!Draw(w, m)
      PROVE  Taken'[v] = Taken[v] /\ seen'[v] = seen[v] /\ (v \in Looked' <=> v \in Looked)
  BY <1>7, BookTypes DEF Book!Leave, Book!Look, Book!Draw
<1>8. \/ UNCHANGED <<Taken, Looked, seen>>
      \/ \E w \in Ingestions : Book!Leave(w) \/ Book!Look(w) \/ \E m \in Metas : Book!Draw(w, m)
  BY DEF Book!Next, Book!vars, Book!Bind, Book!Reclaim, Book!FailUnbound, Book!Drop, Book!Close
<1> QED BY <1>3, <1>4, <1>5, <1>6, <1>7, <1>8

\* What is paid was due in what a boundary saw, and the boundary is kept.
LEMMA KeepsCharges ==
  ASSUME IInv, IInv', Book!OneWriter, Book!ChargesHaveBoundaries, [Book!Next]_(Book!vars),
         NEW e \in Metas, ledger'[e] # None
  PROVE  /\ e \in Book!Reported(EventOf[e].root)'
         /\ EventOf[e].kind = "step.completed" /\ EventOf[e].priced
         /\ \E n \in Book!Announced(e, Book!Reported(EventOf[e].root)') : ledger'[e] = EventOf[n].model
         /\ \E b \in Metas : stored'[b] # 0 /\ Book!Boundary(b) /\ EventOf[b].root = EventOf[e].root
<1> DEFINE r == EventOf[e].root
<1>1. \A m \in Metas : stored[m] # 0 => stored'[m] # 0
  BY BookWrites
<1>2. /\ Book!Reported(r) \subseteq Book!Reported(r)'
      /\ Book!Announced(e, Book!Reported(r)) \subseteq Book!Announced(e, Book!Reported(r)')
  BY <1>1, ReportsGrow
<1>3. CASE ledger'[e] = ledger[e]
  BY <1>1, <1>2, <1>3 DEF Book!ChargesHaveBoundaries
<1>4. ASSUME NEW w \in Ingestions, Book!Close(w), ledger'[e] # ledger[e]
      PROVE  /\ e \in Book!Reported(EventOf[e].root)'
             /\ EventOf[e].kind = "step.completed" /\ EventOf[e].priced
             /\ \E n \in Book!Announced(e, Book!Reported(EventOf[e].root)') : ledger'[e] = EventOf[n].model
             /\ \E b \in Metas : stored'[b] # 0 /\ Book!Boundary(b) /\ EventOf[b].root = EventOf[e].root
  <2> DEFINE b == Taken[w]
  <2>1. /\ e \in Book!Due(seen[w])
        /\ \E n \in seen[w] : Book!Latest(n, Book!Announced(e, seen[w])) /\ ledger'[e] = EventOf[n].model
    BY <1>4 DEF Book!Close, Book!Pay
  <2>2. /\ e \in seen[w] /\ EventOf[e].kind = "step.completed" /\ EventOf[e].priced
    BY <2>1 DEF Book!Due, Book!Latest, Book!Attempts
  <2>3. b \in Metas /\ Book!Boundary(b) /\ seen[w] \subseteq Book!Reported(EventOf[b].root)
    BY <2>2, BookTypes DEF Book!ChargesHaveBoundaries
  <2>4. EventOf[b].root = r
    BY <2>2, <2>3 DEF Book!Reported
  <2>5. e \in Book!Reported(r) /\ seen[w] \subseteq Book!Reported(r)
    BY <2>2, <2>3, <2>4
  <2>6. PICK n \in seen[w] : n \in Book!Announced(e, seen[w]) /\ ledger'[e] = EventOf[n].model
    BY <2>1 DEF Book!Latest
  <2>7. n \in Book!Announced(e, Book!Reported(r))
    BY <2>5, <2>6 DEF Book!Announced
  <2>8. stored'[b] # 0
    BY <1>4, <2>3, BookTypes DEF Book!Close, Book!Leave, Book!OneWriter
  <2> QED BY <1>2, <2>2, <2>3, <2>4, <2>5, <2>6, <2>7, <2>8
<1>5. ledger' = ledger \/ \E w \in Ingestions : Book!Close(w)
  BY DEF Book!Next, Book!vars, Book!book, Book!Bind, Book!Reclaim, Book!FailUnbound, Book!Look,
         Book!Drop, Book!Draw
<1> QED BY <1>3, <1>4, <1>5

\* Nothing is charged but what a boundary saw, and that boundary is kept: none
\* was charged by an ingestion that was rolled back.
THEOREM ChargesAreFounded == Spec => []Book!ChargesHaveBoundaries
<1>1. Init => Book!ChargesHaveBoundaries
  BY DEF Init, Book!ChargesHaveBoundaries, Taken
<1>2. ASSUME IInv, IInv', Book!OneWriter, Book!ChargesHaveBoundaries, [Next]_vars
      PROVE  Book!ChargesHaveBoundaries'
  <2>1. [Book!Next]_(Book!vars)
    BY <1>2, BookStep
  <2>2. \A v \in Ingestions :
          /\ Taken'[v] # None /\ v \notin Looked' => Book!Boundary(Taken'[v])
          /\ seen'[v] # {} => /\ Taken'[v] # None /\ Book!Boundary(Taken'[v])
                              /\ \A r : r = EventOf[Taken'[v]].root => seen'[v] \subseteq Book!Reported(r)'
    BY <1>2, <2>1, KeepsViews
  <2>3. \A e \in Metas : ledger'[e] # None =>
         /\ e \in Book!Reported(EventOf[e].root)'
         /\ EventOf[e].kind = "step.completed" /\ EventOf[e].priced
         /\ \E n \in Book!Announced(e, Book!Reported(EventOf[e].root)') : ledger'[e] = EventOf[n].model
         /\ \E b \in Metas : stored'[b] # 0 /\ Book!Boundary(b) /\ EventOf[b].root = EventOf[e].root
    BY <1>2, <2>1, KeepsCharges
  <2> QED BY <2>2, <2>3 DEF Book!ChargesHaveBoundaries, Book!Boundary, Book!Reported, Book!Announced
<1>3. IInv /\ IInv' /\ Book!OneWriter /\ Book!ChargesHaveBoundaries /\ [Next]_vars
        => Book!ChargesHaveBoundaries'
  BY <1>2
<1> QED BY <1>1, <1>3, EventsHaveOneWriter, InductiveInvariant, PTL DEF Spec

\* The owner's row.
LEMMA OwnerKept ==
  ASSUME IInv, [Book!Next]_(Book!vars)
  PROVE  /\ status # "running" => status' = status
         /\ sessionId # None => sessionId' = sessionId /\ startedAt' = startedAt
BY BookTypes
   DEF Book!Next, Book!vars, Book!book, Book!owner, Book!Bind, Book!Reclaim, Book!FailUnbound,
       Book!Unbound, Book!Look, Book!Drop, Book!Draw, Book!Close, Book!BoundTo, Book!Settle

\* No ingestion rewrites an event, a charge, the session or the end of a task.
THEOREM NothingIsRewritten == Spec => Book!BookIsKept
<1>1. ASSUME IInv, IInv', Book!OneWriter, [Next]_vars
      PROVE  [/\ \A m \in Metas : /\ stored[m] # 0 => stored'[m] = stored[m]
                                  /\ ledger[m] # None => ledger'[m] = ledger[m]
              /\ status # "running" => status' = status
              /\ sessionId # None => sessionId' = sessionId /\ startedAt' = startedAt]_(Book!vars)
  BY <1>1, BookStep, BookWrites, OwnerKept
<1>2. IInv /\ IInv' /\ Book!OneWriter /\ [Next]_vars =>
        [/\ \A m \in Metas : /\ stored[m] # 0 => stored'[m] = stored[m]
                             /\ ledger[m] # None => ledger'[m] = ledger[m]
         /\ status # "running" => status' = status
         /\ sessionId # None => sessionId' = sessionId /\ startedAt' = startedAt]_(Book!vars)
  BY <1>1
<1> QED BY <1>2, EventsHaveOneWriter, InductiveInvariant, PTL DEF Spec, Book!BookIsKept

LEMMA KeepsEnds ==
  ASSUME IInv, IInv', Book!OneWriter, Book!EndsHaveEvents, [Book!Next]_(Book!vars)
  PROVE  Book!EndsHaveEvents'
<1>1. \A m \in Metas : stored[m] # 0 => stored'[m] # 0
  BY BookWrites
<1>2. \A m : /\ Book!Ends(m)' <=> Book!Ends(m)
             /\ Book!MayEnd(EventOf[m].kind)' = Book!MayEnd(EventOf[m].kind)
  BY DEF Book!Ends, Book!Boundary, Book!MayEnd
<1>3. CASE UNCHANGED <<status, sessionId>>
  BY <1>1, <1>2, <1>3 DEF Book!EndsHaveEvents
<1>4. CASE \E r \in Roots : Book!Bind(r)
  BY <1>4 DEF Book!EndsHaveEvents, Book!Bind
<1>5. CASE Book!FailUnbound
  BY <1>5 DEF Book!EndsHaveEvents, Book!FailUnbound, Book!Unbound
<1>6. ASSUME NEW w \in Ingestions, Book!Close(w), Book!Ends(Taken[w]), Book!Settle(Taken[w])
      PROVE  Book!EndsHaveEvents'
  <2> DEFINE m == Taken[w]
  <2>1. m \in Metas /\ stored'[m] # 0 /\ sessionId' = EventOf[m].root
    BY <1>6, BookTypes DEF Book!Close, Book!Leave, Book!OneWriter, Book!Settle
  <2>2. CASE status = "running"
    BY <1>2, <1>6, <2>1, <2>2 DEF Book!EndsHaveEvents, Book!Settle
  <2>3. CASE status = "failed"
    BY <1>2, <1>6, <2>1, <2>3 DEF Book!EndsHaveEvents, Book!Settle
  <2>4. CASE status \notin {"running", "failed"}
    <3>1. PICK n \in Metas : /\ stored[n] # 0 /\ Book!Ends(n) /\ EventOf[n].root = sessionId
                             /\ status \in Book!MayEnd(EventOf[n].kind)
      BY <2>4 DEF Book!EndsHaveEvents
    <3>2. sessionId \in Roots /\ sessionId # None
      BY <3>1, BookTypes, ConstantsAssumption
    <3>3. UNCHANGED <<status, sessionId>>
      BY <1>6, <2>1, <2>4, <3>2 DEF Book!Close, Book!BoundTo, Book!Settle
    <3> QED BY <1>3, <3>3
  <2> QED BY <2>2, <2>3, <2>4
<1>7. \/ UNCHANGED <<status, sessionId>>
      \/ Book!FailUnbound
      \/ \E r \in Roots : Book!Bind(r)
      \/ \E w \in Ingestions : Book!Close(w) /\ Book!Ends(Taken[w]) /\ Book!Settle(Taken[w])
  BY DEF Book!Next, Book!vars, Book!book, Book!owner, Book!Reclaim, Book!Look, Book!Drop,
         Book!Draw, Book!Close
<1> QED BY <1>3, <1>4, <1>5, <1>6, <1>7

\* A task that ended with its session ended as a kept event of it says.
THEOREM EndsAreFounded == Spec => []Book!EndsHaveEvents
<1>1. Init => Book!EndsHaveEvents
  BY DEF Init, Book!EndsHaveEvents
<1>2. IInv /\ IInv' /\ Book!OneWriter /\ Book!EndsHaveEvents /\ [Next]_vars => Book!EndsHaveEvents'
  BY BookStep, KeepsEnds
<1> QED BY <1>1, <1>2, EventsHaveOneWriter, InductiveInvariant, PTL DEF Spec
=============================================================================
