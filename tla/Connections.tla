---------------------------- MODULE Connections ----------------------------
(***************************************************************************)
(* The provider connections of one brand, recorded and withdrawn by its    *)
(* members, statement by statement of their READ COMMITTED transactions.   *)
(*                                                                         *)
(* A call reads its member's role FOR SHARE, takes the advisory lock of    *)
(* its operation key, looks for the Action of that key, locks the active   *)
(* row of the slot, writes, and commits.  A statement waits for the rows,  *)
(* index entries and locks of other open transactions; a row it waited for *)
(* is looked at again, and rows younger than the statement are not seen.   *)
(*                                                                         *)
(* Every write path of the brand reads its receipts this way, so this is   *)
(* also the model of receipts.ts for one brand.                            *)
(***************************************************************************)
EXTENDS Naturals, FiniteSets

CONSTANTS
    Calls, \* invocations of the two server actions
    Keys,  \* operation keys: prefix and requestId
    Slots, \* PROVIDER_SLOTS
    Users,
    Ask,   \* what a call asks: its key, and what its semantic hash covers
    MaxCalls, \* bound of the model: calls that are made
    None

Kinds == {"connect", "disconnect"}

ASSUME AskAssumption ==
    /\ \A c \in Calls : /\ Ask[c].key \in Keys /\ Ask[c].slot \in Slots
                        /\ Ask[c].user \in Users /\ Ask[c].kind \in Kinds
    /\ \A c, d \in Calls : Ask[c].key = Ask[d].key => Ask[c].kind = Ask[d].kind
    /\ None \notin Calls
    /\ {"different", "active", "absent", "denied", "error"} \cap (Calls \cup {None}) = {}

VARIABLES
    role,       \* member.role, or "gone"
    connection, \* the brand_connections row a call inserted: its status
    receipt,    \* the call whose Action carries a key
    pc,         \* the next statement of a call
    saw,        \* the row a call waits for
    locked,     \* the row a call holds FOR UPDATE
    told,       \* what a call was answered
    witnessed   \* history: what a call's slot has been while it runs

table == <<role, connection, receipt>>
vars  == <<role, connection, receipt, pc, saw, locked, told, witnessed>>

\* Statements of a call that holds the lock of its key.
Keyed == {"receipt", "slot", "waits", "insert", "update", "commit"}
Statements == {"start", "member", "committed", "done"} \cup Keyed
InFlight(c) == pc[c] \in {"member"} \cup Keyed

Init ==
    /\ role \in [Users -> {"mutator", "viewer"}]
    /\ connection = [c \in Calls |-> "none"]
    /\ receipt = [k \in Keys |-> None]
    /\ pc = [c \in Calls |-> "start"]
    /\ saw = [c \in Calls |-> None]
    /\ locked = [c \in Calls |-> None]
    /\ told = [c \in Calls |-> None]
    /\ witnessed = [c \in Calls |-> {}]

\* The active rows of a slot, and of c's slot.
ActiveIn(s) == {r \in Calls : connection[r] = "active" /\ Ask[r].slot = s}
Active(c) == ActiveIn(Ask[c].slot)

State(c) == IF Active(c) = {} THEN "free" ELSE "held"

Goto(c, statement) == pc' = [pc EXCEPT ![c] = statement]

\* The transaction of c ends without writing.
Return(c, answer) ==
    /\ Goto(c, "done")
    /\ told' = [told EXCEPT ![c] = answer]
    /\ locked' = [locked EXCEPT ![c] = None]
    /\ saw' = [saw EXCEPT ![c] = None]
    /\ witnessed' = [witnessed EXCEPT ![c] = {}]
    /\ UNCHANGED table

\* The transaction goes on with another statement.
Proceed(c, statement) ==
    /\ Goto(c, statement)
    /\ UNCHANGED <<table, saw, locked, told, witnessed>>
-----------------------------------------------------------------------------
\* requireCurrentBrandMember: the member row stays locked FOR SHARE.
RequireMember(c) ==
    /\ pc[c] = "start"
    /\ Cardinality({d \in Calls : pc[d] # "start"}) < MaxCalls
    /\ \/ role[Ask[c].user] = "gone" /\ Return(c, "denied")
       \/ /\ role[Ask[c].user] # "gone"
          /\ Goto(c, "member")
          /\ witnessed' = [witnessed EXCEPT ![c] = {State(c)}]
          /\ UNCHANGED <<table, saw, locked, told>>

\* A role is changed, or a member removed, by a transaction of its own,
\* which waits for the readers of the row.
ChangeRole(u) ==
    /\ \A c \in Calls : InFlight(c) => Ask[c].user # u
    /\ \E r \in {"mutator", "viewer", "gone"} : role' = [role EXCEPT ![u] = r]
    /\ UNCHANGED <<connection, receipt, pc, saw, locked, told, witnessed>>

\* Mutant of KeyFree: the receipt is looked for without the lock.
KeyIgnored(c) == TRUE

KeyFree(c) == \A d \in Calls : Ask[d].key = Ask[c].key => pc[d] \notin Keyed

\* acquireActionReceiptLock.
AcquireActionReceiptLock(c) ==
    /\ pc[c] = "member" /\ KeyFree(c)
    /\ Proceed(c, "receipt")

\* readActionReceipt, then requireMutationRole and the policy, which
\* restricts graph-internal effects of a current member no further.
ReadActionReceipt(c) ==
    /\ pc[c] = "receipt"
    /\ LET r == receipt[Ask[c].key] IN
         \/ r # None /\ Return(c, IF Ask[r] = Ask[c] THEN r ELSE "different")
         \/ r = None /\ role[Ask[c].user] = "viewer" /\ Return(c, "denied")
         \/ r = None /\ role[Ask[c].user] # "viewer" /\ Proceed(c, "slot")

RowFree(r) == \A d \in Calls : locked[d] # r

\* What the caller makes of the row it has locked, or of none.
Found(c, r) ==
    \/ Ask[c].kind = "connect" /\ r # None /\ Return(c, "active")
    \/ Ask[c].kind = "disconnect" /\ r = None /\ Return(c, "absent")
    \/ Ask[c].kind = "connect" /\ r = None /\ Proceed(c, "insert")
    \/ /\ Ask[c].kind = "disconnect" /\ r # None
       /\ locked' = [locked EXCEPT ![c] = r]
       /\ Goto(c, "update") /\ UNCHANGED <<table, saw, told, witnessed>>

\* Mutant of Candidates: FOR UPDATE SKIP LOCKED.
UnlockedCandidates(c) == {r \in Active(c) : RowFree(r)}

\* The rows the statement's snapshot shows.
Candidates(c) == Active(c)

\* lockActiveBrandConnection: one row, FOR UPDATE.
LockActiveBrandConnection(c) ==
    /\ pc[c] = "slot"
    /\ \/ Candidates(c) = {} /\ Found(c, None)
       \/ \E r \in Candidates(c) :
            \/ RowFree(r) /\ Found(c, r)
            \/ /\ ~RowFree(r)
               /\ saw' = [saw EXCEPT ![c] = r]
               /\ Goto(c, "waits") /\ UNCHANGED <<table, locked, told, witnessed>>

\* The row it waited for was withdrawn or is as it was.
LockReleased(c) ==
    /\ pc[c] = "waits" /\ RowFree(saw[c])
    /\ Found(c, IF connection[saw[c]] = "active" THEN saw[c] ELSE None)

\* Mutant of EntryFree: the insert does not wait for the open transactions.
EntryIgnored(c) == TRUE

\* No open transaction has written the slot's entry of the unique index.
EntryFree(c) ==
    \A d \in Calls : pc[d] = "commit" => Ask[d].slot # Ask[c].slot

\* The insert into brand_connections.  isUniqueViolation reads error.code:
\* a violation it does not recognise is passed on.
Insert(c) ==
    /\ pc[c] = "insert" /\ EntryFree(c)
    /\ \/ Active(c) = {} /\ Proceed(c, "commit")
       \/ Active(c) # {} /\ \E answer \in {"active", "error"} : Return(c, answer)

\* The update to inactive, of a row that is locked and active.
Update(c) ==
    /\ pc[c] = "update"
    /\ Proceed(c, "commit")

\* insertConnectionAction, whose key is unique in the brand, and COMMIT.
Commit(c) ==
    /\ pc[c] = "commit"
    /\ receipt[Ask[c].key] = None
    /\ receipt' = [receipt EXCEPT ![Ask[c].key] = c]
    /\ connection' = IF Ask[c].kind = "connect" THEN [connection EXCEPT ![c] = "active"]
                     ELSE [connection EXCEPT ![locked[c]] = "inactive"]
    /\ witnessed' = [d \in Calls |->
         IF InFlight(d) /\ Ask[d].slot = Ask[c].slot
         THEN witnessed[d] \cup {IF Ask[c].kind = "connect" THEN "held" ELSE "free"}
         ELSE witnessed[d]]
    /\ locked' = [locked EXCEPT ![c] = None]
    /\ Goto(c, "committed")
    /\ UNCHANGED <<role, saw, told>>

AnswerReceipt(c) ==
    /\ pc[c] = "committed"
    /\ Return(c, c)

\* The call fails: its transaction rolls back, or its answer is lost.
Fail(c) ==
    /\ InFlight(c) \/ pc[c] = "committed"
    /\ Return(c, "error")

Statement(c) ==
    \/ AcquireActionReceiptLock(c) \/ ReadActionReceipt(c)
    \/ LockActiveBrandConnection(c) \/ LockReleased(c)
    \/ Insert(c) \/ Update(c) \/ Commit(c) \/ AnswerReceipt(c)

Next ==
    \/ \E u \in Users : ChangeRole(u)
    \/ \E c \in Calls : RequireMember(c) \/ Statement(c) \/ Fail(c)

Spec == Init /\ [][Next]_vars
-----------------------------------------------------------------------------
(* Properties.                                                             *)

Answers == {"different", "active", "absent", "denied", "error"}

TypeOK ==
    /\ role \in [Users -> {"mutator", "viewer", "gone"}]
    /\ connection \in [Calls -> {"none", "active", "inactive"}]
    /\ receipt \in [Keys -> Calls \cup {None}]
    /\ pc \in [Calls -> Statements]
    /\ saw \in [Calls -> Calls \cup {None}]
    /\ locked \in [Calls -> Calls \cup {None}]
    /\ told \in [Calls -> Calls \cup {None} \cup Answers]
    /\ witnessed \in [Calls -> SUBSET {"free", "held"}]

\* A slot has one active connection, inserted by a call that committed.
OneActive ==
    \A r \in Calls :
        /\ connection[r] # "none" => pc[r] \in {"committed", "done"}
        /\ connection[r] = "active" => Active(r) = {r}

\* A call that may write has the right to, and is the first of its key.
Entitled ==
    \A c \in Calls :
        /\ pc[c] \in Keyed =>
             \A d \in Calls \ {c} : Ask[d].key = Ask[c].key => pc[d] \notin Keyed
        /\ pc[c] \in Keyed \ {"receipt"} =>
             role[Ask[c].user] = "mutator" /\ receipt[Ask[c].key] = None
        /\ InFlight(c) => role[Ask[c].user] # "gone"
        /\ told[c] = None <=> pc[c] # "done"

\* The row a disconnect holds is the active one, and nobody else holds it;
\* nothing is active under a pending insert, and it is alone.
WritesAreSafe ==
    \A c \in Calls :
        /\ locked[c] # None <=> pc[c] = "update" \/ (pc[c] = "commit" /\ Ask[c].kind = "disconnect")
        /\ locked[c] # None => /\ Active(c) = {locked[c]} /\ Ask[c].kind = "disconnect"
                               /\ \A d \in Calls \ {c} : locked[d] # locked[c]
        /\ pc[c] = "insert" => Ask[c].kind = "connect"
        /\ pc[c] = "commit" /\ Ask[c].kind = "connect" =>
             /\ Active(c) = {}
             /\ \A d \in Calls \ {c} : Ask[d].slot = Ask[c].slot => pc[d] # "commit"

\* A key's Action is the one of a call with that key, which committed.
ReceiptsAreOwn ==
    /\ \A k \in Keys : receipt[k] # None =>
         Ask[receipt[k]].key = k /\ pc[receipt[k]] \in {"committed", "done"}
    /\ \A c \in Calls : pc[c] = "committed" => receipt[Ask[c].key] = c

\* What a waiting call has witnessed of its slot.
Witnessed ==
    \A c \in Calls :
        /\ InFlight(c) => State(c) \in witnessed[c]
        /\ pc[c] = "waits" => /\ saw[c] \in Calls /\ Ask[saw[c]].slot = Ask[c].slot
                              /\ connection[saw[c]] # "active" => "free" \in witnessed[c]

\* The statement of c waits for another transaction.
Waits(c) ==
    \/ pc[c] = "member" /\ ~KeyFree(c)
    \/ pc[c] = "waits" /\ ~RowFree(saw[c])
    \/ pc[c] = "insert" /\ ~EntryFree(c)

\* Calls never all wait for each other.
SomeoneMoves == (\E c \in Calls : InFlight(c)) => \E c \in Calls : InFlight(c) /\ ~Waits(c)

\* The inductive invariant, and what follows from it.
Core == TypeOK /\ OneActive /\ Entitled /\ WritesAreSafe /\ ReceiptsAreOwn /\ Witnessed
IInv == Core /\ SomeoneMoves

\* A call is refused for what its slot really was at some moment of the
\* call: also one that waited for a disconnect and looked at the row again.
RefusalsAreTrue ==
    [][\A c \in Calls : told'[c] # told[c] =>
         /\ told'[c] = "active" => "held" \in witnessed[c]
         /\ told'[c] = "absent" => "free" \in witnessed[c]]_vars

Holder == [s \in Slots |-> IF ActiveIn(s) = {} THEN None ELSE CHOOSE r \in ActiveIn(s) : TRUE]

\* See KeyedSlots.
Promise == INSTANCE KeyedSlots WITH holder <- Holder, done <- receipt

\* The locks, snapshots and indexes implement one operation per key on a
\* slot with one active connection: a double submission is answered with
\* its receipt, never refused for what it did itself.
ImplementsKeyedSlots == Promise!Spec
=============================================================================
