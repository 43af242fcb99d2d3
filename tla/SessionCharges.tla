--------------------------- MODULE SessionCharges ---------------------------
(***************************************************************************)
(* Ingestion of Eve's session events and the model charges it projects     *)
(* (packages/brain/src/session-events/{ingest,contracts,charges}.ts).      *)
(*                                                                         *)
(* An ingestion is one PostgreSQL transaction at READ COMMITTED.  The      *)
(* statements it runs are steps of their own, because other ingestions of  *)
(* the same owner run beside it: the owner's row is taken FOR SHARE, the   *)
(* event inserted, the events of the root session read, the charges        *)
(* inserted one row after the other, and the task taken FOR UPDATE.  The   *)
(* uncommitted rows of a transaction are its locks.                        *)
(*                                                                         *)
(* The content of an event is fixed by its Eve id (EventOf), so that a     *)
(* replay is exact; what settles the task in detail is in AgentTask.       *)
(***************************************************************************)
EXTENDS Naturals, FiniteSets

CONSTANTS
    Ingestions,     \* audit hook invocations that may overlap
    Metas,          \* event ids of Eve
    EventOf,        \* what each id stands for
    Roots,          \* root sessions
    Sessions,       \* root and child sessions
    GenerationOf,   \* the task generation (started_at) a root session carries
    Coordinates,    \* (turnId, sequence, stepIndex) of a completed step
    Models,
    OwnerIsTask,    \* a task owns the sessions, else a conversation
    MaxSequence,    \* bound of the ingestion sequence
    MaxGeneration,  \* bound of the claims of the task
    MayLose,        \* invocations may be lost
    None

Kinds == {"session.started", "step.completed", "session.waiting", "session.completed",
          "session.failed", "turn.cancelled", "turn.failed"}

Event == [kind : Kinds, root : Roots, session : Sessions, coordinate : Coordinates \cup {None},
          priced : BOOLEAN, model : Models \cup {None}]

Generations == 1..MaxGeneration
Sequences == 1..MaxSequence

ASSUME ConstantsAssumption ==
    /\ EventOf \in [Metas -> Event]
    /\ Roots \subseteq Sessions
    /\ GenerationOf \in [Roots -> Generations]
    /\ MaxSequence \in Nat /\ MaxGeneration \in Nat \ {0}
    /\ OwnerIsTask \in BOOLEAN /\ MayLose \in BOOLEAN

ASSUME NoneAssumption ==
    None \notin Metas \cup Roots \cup Coordinates \cup Models \cup Generations

Terminal == {"succeeded", "failed", "cancelled"}
Status == {"queued", "running"} \cup Terminal
OwnerUpdate == [status : Status, sessionId : Roots]

ASSUME NoneUpdateAssumption == None \notin OwnerUpdate

VARIABLES
    stored,         \* session_events: the ingestion sequence of an id, 0 without a row
    ledger,         \* credit_ledger: the model of the charge for an event, or None
    status, startedAt, sessionId,   \* the owner's row
    at,             \* the last statement an ingestion completed
    meta,           \* the event it ingests
    own,            \* the sequence of the row it inserted, 0 for a replay
    seen,           \* the events it read for the projection
    todo, rows,     \* the charges it still has to insert and those it inserted
    update,         \* its change of the owner's row
    readFor         \* history: the events read by the projection that charged one

owner == <<status, startedAt, sessionId>>
tx == <<at, meta, own, seen, todo, rows, update>>
vars == <<stored, ledger, owner, tx, readFor>>

TypeOK ==
    /\ stored \in [Metas -> Sequences \cup {0}]
    /\ ledger \in [Metas -> Models \cup {None}]
    /\ status \in Status
    /\ startedAt \in IF OwnerIsTask THEN Generations ELSE {None}
    /\ sessionId \in Roots \cup {None}
    /\ at \in [Ingestions -> {"idle", "bound", "recorded", "charging", "done"}]
    /\ meta \in [Ingestions -> Metas \cup {None}]
    /\ own \in [Ingestions -> Sequences \cup {0}]
    /\ seen \in [Ingestions -> SUBSET Metas]
    /\ todo \in [Ingestions -> SUBSET Metas]
    /\ rows \in [Ingestions -> SUBSET Metas]
    /\ update \in [Ingestions -> OwnerUpdate \cup {None}]
    /\ readFor \in [Metas -> SUBSET Metas]

\* The first claim of the task has been made; a conversation has no claims.
Init ==
    /\ stored = [m \in Metas |-> 0]
    /\ ledger = [m \in Metas |-> None]
    /\ status = "running"
    /\ startedAt = IF OwnerIsTask THEN 1 ELSE None
    /\ sessionId = None
    /\ at = [w \in Ingestions |-> "idle"]
    /\ meta = [w \in Ingestions |-> None]
    /\ own = [w \in Ingestions |-> 0]
    /\ seen = [w \in Ingestions |-> {}]
    /\ todo = [w \in Ingestions |-> {}]
    /\ rows = [w \in Ingestions |-> {}]
    /\ update = [w \in Ingestions |-> None]
    /\ readFor = [m \in Metas |-> {}]
-----------------------------------------------------------------------------
(* The owner of the sessions.                                              *)

Active(w) == at[w] # "idle"

\* Mutant of Unlocked: the binding is checked without FOR SHARE.
UnlockedAlways == TRUE

\* No ingestion holds the owner's row, so that another transaction may
\* update it.
Unlocked == \A w \in Ingestions : ~Active(w)

\* bindTaskSession or bindCmoSession.
Bind(r) ==
    /\ Unlocked
    /\ sessionId = None /\ status = "running"
    /\ OwnerIsTask => startedAt = GenerationOf[r]
    /\ sessionId' = r
    /\ UNCHANGED <<stored, ledger, status, startedAt, tx, readFor>>

\* A delivery that no session was bound to is recovered, and claimed again.
Recover ==
    /\ Unlocked
    /\ OwnerIsTask /\ status = "running" /\ sessionId = None
    /\ startedAt < MaxGeneration
    /\ startedAt' = startedAt + 1
    /\ UNCHANGED <<stored, ledger, status, sessionId, tx, readFor>>

\* failRegisteredAgentDelivery, for a delivery without a session.  The terminal
\* event of one that had started all the same attaches it (SettleTask).
FailDelivery ==
    /\ Unlocked
    /\ OwnerIsTask /\ status = "running" /\ sessionId = None
    /\ status' = "failed"
    /\ UNCHANGED <<stored, ledger, startedAt, sessionId, tx, readFor>>

ValidOwnerBinding(m) ==
    /\ OwnerIsTask => startedAt = GenerationOf[EventOf[m].root]
    /\ sessionId \in {None, EventOf[m].root}
-----------------------------------------------------------------------------
(* Which charges the events of a root session stand for.                   *)

IsRoot(m) == EventOf[m].session = EventOf[m].root

\* Mutant of IsRootTerminal: a cancelled turn is left out.
IsRootTerminalButCancelled(m) ==
    IsRoot(m) /\ EventOf[m].kind \in {"session.completed", "session.failed", "turn.failed"}

IsRootTerminal(m) ==
    /\ IsRoot(m)
    /\ EventOf[m].kind \in {"session.completed", "session.failed", "turn.cancelled", "turn.failed"}

IsRootChargeBoundary(m) ==
    /\ IsRoot(m)
    /\ EventOf[m].kind \in {"session.completed", "session.failed", "session.waiting",
                            "turn.cancelled", "turn.failed"}

\* The rows the projection tells apart; it passes over the other kinds, the
\* boundary it runs for among them.
IsProjected(m) == EventOf[m].kind \in {"session.started", "step.completed"}

IsStep(m) == EventOf[m].kind = "step.completed" /\ EventOf[m].coordinate # None

\* Two attempts of one step: chargeCoordinate is the same.
SameStep(m, n) ==
    /\ EventOf[m].session = EventOf[n].session
    /\ EventOf[m].coordinate = EventOf[n].coordinate

\* In what follows seq is the ingestion sequence and S the rows that were read.

\* Mutant of Winners: every attempt wins.
EveryAttempt(seq, S) == {m \in S : IsStep(m)}

\* The last attempt of each step.
Winners(seq, S) ==
    {m \in S : /\ IsStep(m)
               /\ \A n \in S : IsStep(n) /\ SameStep(m, n) => seq[n] <= seq[m]}

\* Model x is what the last announcement in A says.
LastAnnounced(seq, A, x) ==
    \E m \in A : /\ EventOf[m].kind = "session.started" /\ EventOf[m].model = x
                 /\ \A n \in A : EventOf[n].kind = "session.started" /\ EventOf[n].model # None
                                  => seq[n] <= seq[m]

Of(S, s) == {m \in S : EventOf[m].session = s}

\* Mutant of ModelIn: a default stands for a model not announced yet.
ModelOrDefault(seq, S, s) ==
    IF \E x \in Models : LastAnnounced(seq, Of(S, s), x)
    THEN CHOOSE x \in Models : LastAnnounced(seq, Of(S, s), x) ELSE CHOOSE x \in Models : TRUE

\* The model that session s last announced, or None.
ModelIn(seq, S, s) ==
    IF \E x \in Models : LastAnnounced(seq, Of(S, s), x)
    THEN CHOOSE x \in Models : LastAnnounced(seq, Of(S, s), x) ELSE None

\* planWinningModelCharges: the candidates.  A winner is skipped, the earlier
\* attempts with it, when Eve reports no cost, a zero cost, one below the
\* precision of the ledger, or no tokens.
Candidates(seq, S) ==
    {m \in Winners(seq, S) :
        EventOf[m].priced /\ ModelIn(seq, S, EventOf[m].session) # None}

FirstAttempt(seq, S, m) ==
    CHOOSE n \in S : /\ IsStep(n) /\ SameStep(m, n)
                     /\ \A o \in S : IsStep(o) /\ SameStep(m, o) => seq[n] <= seq[o]

\* Mutant of Before: the order of the Map of winners, without the last sort.
BeforeInMap(seq, S, m, n) == seq[FirstAttempt(seq, S, m)] <= seq[FirstAttempt(seq, S, n)]

\* The order in which the candidates are inserted.
Before(seq, S, m, n) == seq[m] <= seq[n]
-----------------------------------------------------------------------------
(* ingestSessionEvent.                                                     *)

\* Bound: the sequence has room for every ingestion that may be under way.
\* The replay of a stored event needs none.
Room ==
    /\ \A m \in Metas : stored[m] + Cardinality(Ingestions) <= MaxSequence
    /\ \A v \in Ingestions : own[v] + Cardinality(Ingestions) <= MaxSequence

\* validateOwnerBinding waits for an update of the row, then holds it FOR
\* SHARE until the transaction ends.  A refused event changes nothing.
Validate(w, m) ==
    /\ at[w] = "idle"
    /\ stored[m] # 0 \/ Room
    /\ \A v \in Ingestions : update[v] = None
    /\ ValidOwnerBinding(m)
    /\ at' = [at EXCEPT ![w] = "bound"]
    /\ meta' = [meta EXCEPT ![w] = m]
    /\ UNCHANGED <<stored, ledger, owner, own, seen, todo, rows, update, readFor>>

\* The next value of the sequence: above every value in use.  The values a
\* rollback or a conflict wastes are reused when none above them is in use:
\* only the order of the values can be seen.
IsNextSequence(q) ==
    LET Unused(p) == /\ \A m \in Metas : stored[m] < p
                     /\ \A v \in Ingestions : own[v] < p
    IN  Unused(q) /\ \A p \in Sequences : Unused(p) => q <= p

\* An uncommitted row with the same primary key makes the insert wait.
EventInsertedBy(v, m) == own[v] # 0 /\ meta[v] = m

InsertEvent(w) ==
    /\ at[w] = "bound"
    /\ \A v \in Ingestions : ~EventInsertedBy(v, meta[w])
    /\ \/ /\ stored[meta[w]] = 0
          /\ \E q \in Sequences : IsNextSequence(q) /\ own' = [own EXCEPT ![w] = q]
       \/ /\ stored[meta[w]] # 0
          /\ UNCHANGED own
    /\ at' = [at EXCEPT ![w] = IF IsRootChargeBoundary(meta[w]) THEN "recorded" ELSE "done"]
    /\ UNCHANGED <<stored, ledger, owner, meta, seen, todo, rows, update, readFor>>

\* projectRootCharges reads what is committed when its SELECT starts.
ProjectRootCharges(w) ==
    LET tree == {m \in Metas : /\ stored[m] # 0 /\ IsProjected(m)
                               /\ EventOf[m].root = EventOf[meta[w]].root} IN
    /\ at[w] = "recorded"
    /\ seen' = [seen EXCEPT ![w] = tree]
    /\ todo' = [todo EXCEPT ![w] = Candidates(stored, tree)]
    /\ at' = [at EXCEPT ![w] = "charging"]
    /\ UNCHANGED <<stored, ledger, owner, meta, own, rows, update, readFor>>

\* Mutant of Charged: the uncommitted charge of another transaction counts.
ChargedOrTaken(e) == ledger[e] # None \/ \E v \in Ingestions : e \in rows[v]

Charged(e) == ledger[e] # None

\* The next row of the ledger insert: an event with a committed charge is
\* passed over, the uncommitted charge of another transaction is waited for.
InsertCharge(w) ==
    /\ at[w] = "charging"
    /\ \E e \in todo[w] :
         /\ \A f \in todo[w] : Before(stored, seen[w], e, f)
         /\ todo' = [todo EXCEPT ![w] = todo[w] \ {e}]
         /\ \/ Charged(e) /\ UNCHANGED rows
            \/ /\ ledger[e] = None /\ \A v \in Ingestions : e \notin rows[v]
               /\ rows' = [rows EXCEPT ![w] = rows[w] \cup {e}]
    /\ UNCHANGED <<stored, ledger, owner, at, meta, own, seen, update, readFor>>

\* The charges are in and the task has yet to be settled.
WantsTask(w) ==
    /\ at[w] = "charging" /\ todo[w] = {}
    /\ OwnerIsTask /\ IsRootTerminal(meta[w])

Verdicts(kind) ==
    CASE kind = "session.completed" -> {"succeeded", "failed"}
      [] kind = "turn.cancelled"    -> {"cancelled"}
      [] OTHER                      -> {"failed"}

\* settleTaskFromRootCompletion or settleTaskFromRootAbort takes the row FOR
\* UPDATE, which waits for every other holder, and keeps it to the end.  The
\* row is still the one that was validated.
SettleTask(w) ==
    /\ WantsTask(w)
    /\ \A v \in Ingestions \ {w} : ~Active(v)
    /\ \E s \in IF status = "running" THEN Verdicts(EventOf[meta[w]].kind) ELSE {status} :
         update' = [update EXCEPT ![w] = [status |-> s, sessionId |-> EventOf[meta[w]].root]]
    /\ at' = [at EXCEPT ![w] = "done"]
    /\ UNCHANGED <<stored, ledger, owner, meta, own, seen, todo, rows, readFor>>

\* The transaction of w is over, committed or rolled back.
Release(w) ==
    /\ at' = [at EXCEPT ![w] = "idle"]
    /\ meta' = [meta EXCEPT ![w] = None]
    /\ own' = [own EXCEPT ![w] = 0]
    /\ seen' = [seen EXCEPT ![w] = {}]
    /\ todo' = [todo EXCEPT ![w] = {}]
    /\ rows' = [rows EXCEPT ![w] = {}]
    /\ update' = [update EXCEPT ![w] = None]

Commit(w) ==
    /\ at[w] = "done" \/ (at[w] = "charging" /\ todo[w] = {} /\ ~WantsTask(w))
    /\ stored' = IF own[w] = 0 THEN stored ELSE [stored EXCEPT ![meta[w]] = own[w]]
    /\ ledger' = [e \in Metas |-> IF e \in rows[w] THEN ModelIn(stored, seen[w], EventOf[e].session)
                                  ELSE ledger[e]]
    /\ status' = IF update[w] = None THEN status ELSE update[w].status
    /\ sessionId' = IF update[w] = None THEN sessionId ELSE update[w].sessionId
    /\ readFor' = [e \in Metas |-> IF e \in rows[w] THEN seen[w] ELSE readFor[e]]
    /\ Release(w)
    /\ UNCHANGED startedAt

Rollback(w) ==
    /\ Active(w)
    /\ Release(w)
    /\ UNCHANGED <<stored, ledger, owner, readFor>>

\* The function or its connection is lost.
Lose(w) == MayLose /\ Rollback(w)

Waits(w, v) ==
    /\ w # v
    /\ \/ at[w] = "bound" /\ EventInsertedBy(v, meta[w])
       \/ at[w] = "charging" /\ \E e \in todo[w] : /\ \A f \in todo[w] : Before(stored, seen[w], e, f)
                                                   /\ e \in rows[v]
       \/ WantsTask(w) /\ Active(v)

\* Every one of D waits for another of D.
Stuck(D) == D # {} /\ \A w \in D : \E v \in D : Waits(w, v)

\* PostgreSQL aborts one transaction of a cycle; the hook absorbs the error.
AbortDeadlock(w) ==
    /\ \E D \in SUBSET Ingestions :
         w \in D /\ Stuck(D) /\ \A C \in SUBSET D : Stuck(C) => C = D
    /\ Rollback(w)

Statement(w) ==
    InsertEvent(w) \/ ProjectRootCharges(w) \/ InsertCharge(w) \/ SettleTask(w) \/ Commit(w)

Next ==
    \/ \E r \in Roots : Bind(r)
    \/ Recover
    \/ FailDelivery
    \/ \E w \in Ingestions, m \in Metas : Validate(w, m)
    \/ \E w \in Ingestions : Statement(w) \/ Lose(w) \/ AbortDeadlock(w)

Spec == Init /\ [][Next]_vars

\* A transaction runs on, and the database resolves its deadlocks.
FairSpec ==
    /\ Spec
    /\ \A w \in Ingestions : WF_vars(Statement(w))
    /\ WF_vars(\E w \in Ingestions : AbortDeadlock(w))
-----------------------------------------------------------------------------
(* The inductive invariant.                                                *)

\* What an ingestion keeps from statement to statement.
ShapeOf(w) ==
    /\ Active(w) => meta[w] \in Metas /\ ValidOwnerBinding(meta[w])
    /\ at[w] \in {"idle", "bound"} => own[w] = 0
    /\ at[w] \in {"idle", "bound", "recorded"} => seen[w] = {} /\ todo[w] = {} /\ rows[w] = {}
    /\ at[w] # "done" => update[w] = None
    /\ at[w] = "done" => todo[w] = {}

TransactionShape == \A w \in Ingestions : ShapeOf(w)

\* An uncommitted event has no row and no second writer.
EventWrittenOnce ==
    \A w \in Ingestions : own[w] # 0 =>
        /\ stored[meta[w]] = 0
        /\ \A v \in Ingestions : own[v] # 0 /\ meta[v] = meta[w] => v = w

\* A change of the task is made by the only holder of its row.
UpdateIsAlone ==
    \A w \in Ingestions : update[w] # None =>
        /\ \A v \in Ingestions \ {w} : ~Active(v)
        /\ update[w].sessionId = EventOf[meta[w]].root

\* Committed rows alone are read, and what is read is charged in full.
ReadsAreCommitted ==
    \A w \in Ingestions :
        /\ \A m \in seen[w] : stored[m] # 0
        /\ todo[w] \cup rows[w] \subseteq Candidates(stored, seen[w])
        /\ \A m \in Candidates(stored, seen[w]) : m \in todo[w] \/ m \in rows[w] \/ ledger[m] # None

\* An uncommitted charge has one writer and no committed row.
ChargeWrittenOnce ==
    \A w \in Ingestions : \A m \in rows[w] :
        ledger[m] = None /\ \A v \in Ingestions : m \in rows[v] => v = w

\* The charges a transaction inserted precede those it still has to insert.
ChargedInOrder ==
    \A w \in Ingestions : \A m \in rows[w], n \in todo[w] : stored[m] < stored[n]

\* A charge is a candidate of the projection that made it.
ChargesWon ==
    \A m \in Metas : ledger[m] # None =>
        /\ \A n \in readFor[m] : stored[n] # 0
        /\ m \in Candidates(stored, readFor[m])
        /\ ledger[m] = ModelIn(stored, readFor[m], EventOf[m].session)

\* Sequence values are unique.
SequenceIsUnique ==
    /\ \A m, n \in Metas : stored[m] # 0 /\ stored[m] = stored[n] => m = n
    /\ \A w \in Ingestions : own[w] # 0 =>
           /\ \A m \in Metas : stored[m] # own[w]
           /\ \A v \in Ingestions : own[v] = own[w] => v = w

\* What a transaction has read and changed is what its event calls for, and
\* the row it settles is as it was.
DecidedBy(w) ==
    /\ at[w] \in {"recorded", "charging"} => IsRootChargeBoundary(meta[w])
    /\ at[w] = "done" => IF IsRootChargeBoundary(meta[w]) THEN update[w] # None ELSE seen[w] = {}
    /\ update[w] # None =>
         /\ OwnerIsTask /\ IsRootTerminal(meta[w])
         /\ update[w].status \in
              IF status = "running" THEN Verdicts(EventOf[meta[w]].kind) ELSE {status}

EventDecides == \A w \in Ingestions : DecidedBy(w)

IInv ==
    /\ TypeOK
    /\ TransactionShape
    /\ EventWrittenOnce
    /\ UpdateIsAlone
    /\ ReadsAreCommitted
    /\ ChargeWrittenOnce
    /\ ChargedInOrder
    /\ ChargesWon
    /\ SequenceIsUnique
    /\ EventDecides
-----------------------------------------------------------------------------
(* Properties.                                                             *)

\* A step is charged twice only when the projection that charged the earlier
\* attempt had not read the later one: one boundary never charges two
\* attempts, nor a superseded one that it could see (charges.ts:239).
SecondChargeUnseen ==
    \A m, n \in Metas :
        /\ ledger[m] # None /\ ledger[n] # None
        /\ SameStep(m, n) /\ stored[m] < stored[n]
        => m \in readFor[m] /\ n \notin readFor[m]

\* A boundary that is ready to commit leaves nothing uncharged of what it
\* read, also when another boundary was inserting the same charge and may
\* have been rolled back (charges.ts:326).
BoundaryPaysInFull ==
    \A w \in Ingestions : at[w] = "charging" /\ todo[w] = {} =>
        \A m \in Candidates(stored, seen[w]) : m \in rows[w] \/ ledger[m] # None

\* A step is charged under a model that its own session announced, never
\* under the one of its parent (charges.ts:248).
ModelOfItsSession ==
    \A m \in Metas : ledger[m] # None =>
        \E n \in Metas : /\ stored[n] # 0 /\ EventOf[n].kind = "session.started"
                         /\ EventOf[n].session = EventOf[m].session
                         /\ EventOf[n].model = ledger[m]

\* Ingestions block each other for good only when one of them asks for the
\* task FOR UPDATE: the inserts alone never do, because charges are inserted
\* in the order of the sequence (charges.ts:251).  So the ingestions of a
\* conversation, which settle nothing, never deadlock.
OnlySettlementDeadlocks ==
    \A D \in SUBSET Ingestions : Stuck(D) => \E w \in D : WantsTask(w)

\* Once a root is bound no event of another root, nor of an earlier
\* generation, becomes a row, whenever its binding was checked
\* (contracts.ts:172).
BoundOwnerRefusesOthers ==
    [][\A m \in Metas :
         stored[m] = 0 /\ stored'[m] # 0 =>
             /\ sessionId \in {None, EventOf[m].root}
             /\ OwnerIsTask => startedAt = GenerationOf[EventOf[m].root]]_vars

\* What the rows and the transactions say: see ChargeBook.
Taken == [w \in Ingestions |-> IF at[w] \in {"idle", "bound"} THEN None ELSE meta[w]]
Looked == {w \in Ingestions : at[w] \in {"charging", "done"}}

Book == INSTANCE ChargeBook WITH
    Numbers <- Sequences, event <- Taken, number <- own, ready <- Looked, view <- seen

\* Whatever the statements of ingestions interleave, wait for and abort, an
\* event is taken in at once, with the charges of what it saw and the end of
\* its task, for the owner that is bound to it (ingest.ts:97).
ImplementsChargeBook == Book!Spec

\* When a terminal event is being ingested and invocations are not lost, the
\* task settles, whichever ingestion a deadlock aborts.  Eve delivers an event
\* finitely often.
TerminalSettles ==
    <>[][\A w \in Ingestions, m \in Metas : ~Validate(w, m)]_vars =>
        \A w \in Ingestions :
            (/\ at[w] # "idle" /\ EventOf[meta[w]].session = EventOf[meta[w]].root
             /\ EventOf[meta[w]].kind \in {"session.completed", "turn.cancelled"})
            ~> status # "running"
=============================================================================
