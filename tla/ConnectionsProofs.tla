------------------------- MODULE ConnectionsProofs -------------------------
(***************************************************************************)
(* Proofs about Connections for every set of calls, keys, slots and users. *)
(***************************************************************************)
EXTENDS Connections, TLAPS

USE DEF table, Keyed, Statements, ActiveIn

Past == {"committed", "done"}

\* A statement of c changes nothing of another call.
Others(c) ==
    \A d \in Calls \ {c} : /\ pc'[d] = pc[d] /\ saw'[d] = saw[d] /\ locked'[d] = locked[d]
                           /\ told'[d] = told[d] /\ witnessed'[d] = witnessed[d]

\* What a statement of c may leave in c's own variables.
Fits(c) ==
    /\ pc'[c] # "committed" /\ (pc[c] \in Past => pc'[c] = "done")
    /\ pc'[c] \in Keyed => \A d \in Calls \ {c} : Ask[d].key = Ask[c].key => pc[d] \notin Keyed
    /\ pc'[c] \in Keyed \ {"receipt"} =>
         role[Ask[c].user] = "mutator" /\ receipt[Ask[c].key] = None
    /\ pc'[c] \in {"member"} \cup Keyed => role[Ask[c].user] # "gone"
    /\ told'[c] = None <=> pc'[c] # "done"
    /\ locked'[c] # None <=> pc'[c] = "update" \/ (pc'[c] = "commit" /\ Ask[c].kind = "disconnect")
    /\ locked'[c] # None => /\ Active(c) = {locked'[c]} /\ Ask[c].kind = "disconnect"
                            /\ \A d \in Calls \ {c} : locked[d] # locked'[c]
    /\ pc'[c] = "insert" => Ask[c].kind = "connect"
    /\ pc'[c] = "commit" /\ Ask[c].kind = "connect" =>
         /\ Active(c) = {}
         /\ \A d \in Calls \ {c} : Ask[d].slot = Ask[c].slot => pc[d] # "commit"
    /\ pc'[c] \in {"member"} \cup Keyed => State(c) \in witnessed'[c]
    /\ pc'[c] = "waits" => /\ saw'[c] \in Calls /\ Ask[saw'[c]].slot = Ask[c].slot
                           /\ connection[saw'[c]] # "active" => "free" \in witnessed'[c]

-----------------------------------------------------------------------------
(* Steps that leave the tables alone.                                      *)

LEMMA Kinded ==
  ASSUME NEW c \in Calls
  PROVE  /\ Ask[c].key \in Keys /\ Ask[c].slot \in Slots /\ Ask[c].user \in Users
         /\ (Ask[c].kind = "connect" \/ Ask[c].kind = "disconnect") /\ c # None
BY AskAssumption DEF Kinds

LEMMA OwnStep ==
  ASSUME Core, NEW c \in Calls, UNCHANGED table, TypeOK', Others(c), Fits(c)
  PROVE  Core'
<1> USE DEF Others
<1>1. \A d \in Calls : Active(d)' = Active(d)
  BY DEF Active
<1>2. OneActive'
  <2>1. ASSUME NEW r \in Calls, connection[r] # "none"
        PROVE  pc'[r] \in {"committed", "done"}
    BY <2>1 DEF Core, OneActive, Fits, Past
  <2> QED BY <1>1, <2>1 DEF Core, OneActive
<1>3. Entitled'
  <2> SUFFICES ASSUME NEW e \in Calls
               PROVE  /\ pc'[e] \in Keyed =>
                           \A d \in Calls \ {e} : Ask[d].key = Ask[e].key => pc'[d] \notin Keyed
                      /\ pc'[e] \in Keyed \ {"receipt"} =>
                           role'[Ask[e].user] = "mutator" /\ receipt'[Ask[e].key] = None
                      /\ InFlight(e)' => role'[Ask[e].user] # "gone"
                      /\ told'[e] = None <=> pc'[e] # "done"
    BY DEF Entitled
  <2>1. CASE e = c
    BY <2>1 DEF Fits, InFlight
  <2>2. CASE e # c
    <3>1. pc'[e] = pc[e] /\ told'[e] = told[e]
      BY <2>2
    <3>2. ASSUME pc[e] \in Keyed, NEW d \in Calls \ {e}, Ask[d].key = Ask[e].key
          PROVE  pc'[d] \notin Keyed
      BY <2>2, <3>2 DEF Core, Entitled, Fits
    <3> QED BY <3>1, <3>2 DEF Core, Entitled, InFlight
  <2> QED BY <2>1, <2>2
<1>4. WritesAreSafe'
  <2> SUFFICES ASSUME NEW e \in Calls
               PROVE  /\ locked'[e] # None <=> pc'[e] = "update" \/ (pc'[e] = "commit" /\ Ask[e].kind = "disconnect")
                      /\ locked'[e] # None => /\ Active(e) = {locked'[e]} /\ Ask[e].kind = "disconnect"
                                              /\ \A d \in Calls \ {e} : locked'[d] # locked'[e]
                      /\ pc'[e] = "insert" => Ask[e].kind = "connect"
                      /\ pc'[e] = "commit" /\ Ask[e].kind = "connect" =>
                           /\ Active(e) = {}
                           /\ \A d \in Calls \ {e} : Ask[d].slot = Ask[e].slot => pc'[d] # "commit"
    BY <1>1 DEF WritesAreSafe
  <2>1. CASE e = c
    BY <2>1 DEF Fits
  <2>2. CASE e # c
    <3>1. pc'[e] = pc[e] /\ locked'[e] = locked[e]
      BY <2>2
    <3>2. ASSUME locked[e] # None, NEW d \in Calls \ {e}
          PROVE  locked'[d] # locked[e]
      BY <2>2, <3>2 DEF Core, WritesAreSafe, Fits
    <3>3. ASSUME pc[e] = "commit", Ask[e].kind = "connect", NEW d \in Calls \ {e}, Ask[d].slot = Ask[e].slot
          PROVE  pc'[d] # "commit"
      <4>1. Active(d) = Active(e) /\ Active(e) = {}
        BY <3>3 DEF Core, WritesAreSafe, Active
      <4>2. CASE d # c
        BY <3>3, <4>2 DEF Core, WritesAreSafe
      <4>3. CASE d = c
        BY <2>2, <3>3, <4>1, <4>3, Kinded DEF Fits
      <4> QED BY <4>2, <4>3
    <3> QED BY <3>1, <3>2, <3>3 DEF Core, WritesAreSafe
  <2> QED BY <2>1, <2>2
<1>5. ReceiptsAreOwn'
  <2>1. ASSUME NEW r \in Calls, pc[r] \in Past
        PROVE  pc'[r] \in Past
    BY <2>1 DEF Fits, Past
  <2>2. \A d \in Calls : pc'[d] = "committed" => pc[d] = "committed"
    BY DEF Fits
  <2> QED BY <2>1, <2>2 DEF Core, TypeOK, ReceiptsAreOwn, Past
<1>6. Witnessed'
  <2> SUFFICES ASSUME NEW e \in Calls
               PROVE  /\ pc'[e] \in {"member"} \cup Keyed => State(e) \in witnessed'[e]
                      /\ pc'[e] = "waits" =>
                           /\ saw'[e] \in Calls /\ Ask[saw'[e]].slot = Ask[e].slot
                           /\ connection[saw'[e]] # "active" => "free" \in witnessed'[e]
    BY <1>1 DEF Witnessed, InFlight, State
  <2>1. CASE e = c
    BY <2>1 DEF Fits
  <2>2. CASE e # c
    BY <2>2 DEF Core, Witnessed, InFlight
  <2> QED BY <2>1, <2>2
<1> QED BY <1>2, <1>3, <1>4, <1>5, <1>6 DEF Core

\* A transaction that ends without writing.
LEMMA ReturnStep ==
  ASSUME Core, NEW c \in Calls, NEW a \in Calls \cup Answers, Return(c, a)
  PROVE  Core'
<1> USE DEF Return, Goto
<1>1. a # None
  BY AskAssumption DEF Answers
<1>2. TypeOK'
  BY DEF Core, TypeOK
<1>3. Others(c)
  BY DEF Core, TypeOK, Others
<1>4. pc'[c] = "done" /\ told'[c] = a /\ locked'[c] = None
  BY DEF Core, TypeOK
<1>5. Fits(c)
  BY <1>1, <1>4 DEF Fits
<1> QED BY <1>2, <1>3, <1>5, OwnStep

\* What an open transaction knows of itself.
LEMMA Knows ==
  ASSUME Core, NEW c \in Calls
  PROVE  /\ pc[c] \in Statements /\ (pc[c] # "done" => told[c] = None)
         /\ (pc[c] \notin {"update", "commit"} => locked[c] = None)
         /\ (pc[c] \in Keyed => \A d \in Calls \ {c} : Ask[d].key = Ask[c].key => pc[d] \notin Keyed)
         /\ (pc[c] \in Keyed \ {"receipt"} => role[Ask[c].user] = "mutator" /\ receipt[Ask[c].key] = None)
         /\ (InFlight(c) => role[Ask[c].user] # "gone")
         /\ (InFlight(c) => State(c) \in witnessed[c])
         /\ (pc[c] = "waits" => saw[c] \in Calls /\ Ask[saw[c]].slot = Ask[c].slot)
         /\ (pc[c] = "insert" => Ask[c].kind = "connect")
         /\ (pc[c] = "committed" => receipt[Ask[c].key] = c)
BY DEF Core, TypeOK, Entitled, WritesAreSafe, Witnessed, ReceiptsAreOwn

\* A transaction that goes on, from a statement that writes nothing.
LEMMA ProceedStep ==
  ASSUME Core, NEW c \in Calls, NEW p \in Statements, Proceed(c, p)
  PROVE  /\ TypeOK' /\ Others(c) /\ UNCHANGED table /\ pc'[c] = p
         /\ saw'[c] = saw[c] /\ locked'[c] = locked[c] /\ told'[c] = told[c]
         /\ witnessed'[c] = witnessed[c]
<1> USE DEF Proceed, Goto
<1>1. TypeOK'
  BY DEF Core, TypeOK
<1>2. Others(c) /\ pc'[c] = p
  BY DEF Core, TypeOK, Others
<1> QED BY <1>1, <1>2

LEMMA RequireMemberStep ==
  ASSUME Core, NEW c \in Calls, RequireMember(c)
  PROVE  Core'
<1>1. CASE Return(c, "denied")
  BY <1>1, ReturnStep DEF Answers
<1>2. CASE role[Ask[c].user] # "gone"
           /\ Goto(c, "member") /\ UNCHANGED <<table, saw, locked, told>>
           /\ witnessed' = [witnessed EXCEPT ![c] = {State(c)}]
  <2> USE <1>2 DEF Goto
  <2>1. State(c) \in {"free", "held"}
    BY DEF State
  <2>2. TypeOK'
    BY <2>1 DEF Core, TypeOK
  <2>3. Others(c) /\ pc'[c] = "member" /\ witnessed'[c] = {State(c)}
    BY DEF Core, TypeOK, Others
  <2>4. Fits(c)
    BY <2>3, Knows DEF RequireMember, Fits, Past
  <2> QED BY <2>2, <2>3, <2>4, OwnStep
<1> QED BY <1>1, <1>2 DEF RequireMember

LEMMA ChangeRoleStep ==
  ASSUME Core, NEW u \in Users, ChangeRole(u)
  PROVE  Core'
<1> USE DEF ChangeRole
<1>1. \A c \in Calls : InFlight(c) => role'[Ask[c].user] = role[Ask[c].user]
  BY Kinded DEF Core, TypeOK, InFlight
<1>2. TypeOK' /\ OneActive' /\ WritesAreSafe' /\ ReceiptsAreOwn' /\ Witnessed'
  BY DEF State, Core, TypeOK, OneActive, WritesAreSafe, ReceiptsAreOwn, Witnessed, Active, InFlight
<1>3. Entitled'
  BY <1>1 DEF Core, Entitled, InFlight
<1> QED BY <1>2, <1>3 DEF Core

LEMMA ReceiptSteps ==
  ASSUME Core, NEW c \in Calls, AcquireActionReceiptLock(c) \/ ReadActionReceipt(c)
  PROVE  Core'
<1>1. CASE AcquireActionReceiptLock(c)
  <2>1. pc[c] = "member" /\ Proceed(c, "receipt")
    BY <1>1 DEF AcquireActionReceiptLock
  <2>2. Fits(c)
    BY <1>1, <2>1, Knows, ProceedStep DEF AcquireActionReceiptLock, KeyFree, Fits, Past, InFlight
  <2> QED BY <2>1, <2>2, ProceedStep, OwnStep
<1>2. CASE ReadActionReceipt(c)
  <2> DEFINE r == receipt[Ask[c].key]
  <2>1. r \in Calls \cup {None}
    BY Kinded DEF Core, TypeOK
  <2>2. CASE r # None
    <3>1. PICK a \in Calls \cup Answers : Return(c, a)
      BY <1>2, <2>1, <2>2 DEF ReadActionReceipt, Answers
    <3> QED BY <3>1, ReturnStep
  <2>3. CASE Return(c, "denied")
    BY <2>3, ReturnStep DEF Answers
  <2>4. CASE r = None /\ role[Ask[c].user] # "viewer" /\ Proceed(c, "slot")
    <3>1. pc[c] = "receipt" /\ InFlight(c)
      BY <1>2 DEF ReadActionReceipt, InFlight
    <3>2. role[Ask[c].user] = "mutator"
      BY <2>4, <3>1, Knows, Kinded DEF Core, TypeOK
    <3>3. Fits(c)
      BY <2>4, <3>1, <3>2, Knows, ProceedStep DEF Fits, Past
    <3> QED BY <2>4, <3>3, ProceedStep, OwnStep
  <2> QED BY <1>2, <2>2, <2>3, <2>4 DEF ReadActionReceipt
<1> QED BY <1>1, <1>2
-----------------------------------------------------------------------------
(* The slot.                                                               *)

LEMMA FoundStep ==
  ASSUME Core, NEW c \in Calls, NEW r \in Calls \cup {None},
         pc[c] \in {"slot", "waits"}, r # None => Active(c) = {r} /\ RowFree(r), Found(c, r)
  PROVE  Core'
<1>1. CASE \E a \in Answers : Return(c, a)
  BY <1>1, ReturnStep
<1>2. CASE Ask[c].kind = "connect" /\ Proceed(c, "insert")
  <2>1. Fits(c)
    BY <1>2, Knows, ProceedStep DEF Fits, Past, InFlight
  <2> QED BY <1>2, <2>1, ProceedStep, OwnStep
<1>3. CASE /\ Ask[c].kind = "disconnect" /\ r # None
           /\ locked' = [locked EXCEPT ![c] = r]
           /\ Goto(c, "update") /\ UNCHANGED <<table, saw, told, witnessed>>
  <2> USE <1>3 DEF Goto
  <2>1. TypeOK'
    BY DEF Core, TypeOK
  <2>2. Others(c) /\ pc'[c] = "update" /\ locked'[c] = r
    BY DEF Core, TypeOK, Others
  <2>3. \A d \in Calls \ {c} : locked[d] # r
    BY DEF RowFree
  <2>4. Fits(c)
    BY <2>2, <2>3, Knows DEF Fits, Past, InFlight
  <2> QED BY <2>1, <2>2, <2>4, OwnStep
<1> QED BY <1>1, <1>2, <1>3 DEF Found, Answers

\* The active row of a slot is the only one.
LEMMA OnlyRow ==
  ASSUME Core, NEW c \in Calls, NEW r \in Active(c)
  PROVE  Active(c) = {r} /\ r \in Calls /\ Ask[r].slot = Ask[c].slot /\ connection[r] = "active"
<1>1. r \in Calls /\ Ask[r].slot = Ask[c].slot /\ connection[r] = "active"
  BY DEF Active
<1>2. Active(r) = Active(c)
  BY <1>1 DEF Active
<1> QED BY <1>1, <1>2 DEF Core, OneActive

LEMMA SlotSteps ==
  ASSUME Core, NEW c \in Calls, LockActiveBrandConnection(c) \/ LockReleased(c)
  PROVE  Core'
<1>1. CASE LockActiveBrandConnection(c)
  <2> USE <1>1 DEF LockActiveBrandConnection, Candidates
  <2>1. CASE Found(c, None)
    BY <2>1, FoundStep
  <2>2. CASE \E r \in Active(c) : RowFree(r) /\ Found(c, r)
    BY <2>2, FoundStep, OnlyRow
  <2>3. CASE \E r \in Active(c) : saw' = [saw EXCEPT ![c] = r] /\ Goto(c, "waits")
                                  /\ UNCHANGED <<table, locked, told, witnessed>>
    <3>1. PICK r \in Active(c) : saw' = [saw EXCEPT ![c] = r]
      BY <2>3
    <3> USE <2>3, <3>1 DEF Goto
    <3>2. r \in Calls /\ Ask[r].slot = Ask[c].slot /\ connection[r] = "active"
      BY OnlyRow
    <3>3. TypeOK'
      BY <3>2 DEF Core, TypeOK
    <3>4. Others(c) /\ pc'[c] = "waits" /\ saw'[c] = r
      BY DEF Core, TypeOK, Others
    <3>5. Fits(c)
      BY <3>2, <3>4, Knows DEF Fits, Past, InFlight
    <3> QED BY <3>3, <3>4, <3>5, OwnStep
  <2> QED BY <2>1, <2>2, <2>3
<1>2. CASE LockReleased(c)
  <2> DEFINE r == IF connection[saw[c]] = "active" THEN saw[c] ELSE None
  <2>1. saw[c] \in Calls /\ Ask[saw[c]].slot = Ask[c].slot
    BY <1>2, Knows DEF LockReleased
  <2>2. r # None => r \in Active(c) /\ RowFree(r)
    BY <1>2, <2>1 DEF LockReleased, Active
  <2>3. r \in Calls \cup {None} /\ Found(c, r) /\ pc[c] = "waits"
    BY <1>2, <2>1 DEF LockReleased
  <2> HIDE DEF r
  <2> QED BY <2>2, <2>3, FoundStep, OnlyRow
<1> QED BY <1>1, <1>2

LEMMA WriteSteps ==
  ASSUME Core, NEW c \in Calls, Insert(c) \/ Update(c)
  PROVE  Core'
<1>1. CASE \E a \in Answers : Return(c, a)
  BY <1>1, ReturnStep
<1>2. CASE pc[c] = "insert" /\ EntryFree(c) /\ Active(c) = {} /\ Proceed(c, "commit")
  <2>1. \A d \in Calls \ {c} : Ask[d].slot = Ask[c].slot => pc[d] # "commit"
    BY <1>2 DEF EntryFree
  <2>2. Ask[c].kind = "connect"
    BY <1>2, Knows
  <2>3. Fits(c)
    BY <1>2, <2>1, <2>2, Knows, ProceedStep DEF Fits, Past, InFlight
  <2> QED BY <1>2, <2>3, ProceedStep, OwnStep
<1>3. CASE pc[c] = "update" /\ Proceed(c, "commit")
  <2>1. locked[c] # None /\ Active(c) = {locked[c]} /\ Ask[c].kind = "disconnect"
        /\ \A d \in Calls \ {c} : locked[d] # locked[c]
    BY <1>3 DEF Core, WritesAreSafe
  <2>2. Fits(c)
    BY <1>3, <2>1, Knows, ProceedStep DEF Fits, Past, InFlight
  <2> QED BY <1>3, <2>2, ProceedStep, OwnStep
<1> QED BY <1>1, <1>2, <1>3 DEF Insert, Update, Answers

\* What a commit finds of its own slot and of the others.
LEMMA CommitFinds ==
  ASSUME Core, NEW c \in Calls, pc[c] = "commit"
  PROVE  /\ connection[c] = "none"
         /\ Ask[c].kind = "connect" => Active(c) = {} /\ locked[c] = None
         /\ Ask[c].kind = "disconnect" => /\ locked[c] \in Calls /\ Active(c) = {locked[c]}
         /\ \A d \in Calls \ {c} : /\ Ask[d].key = Ask[c].key => pc[d] \notin Keyed
                                   /\ locked[d] # None => Ask[d].slot # Ask[c].slot
                                   /\ pc[d] = "commit" => Ask[d].slot # Ask[c].slot
<1>1. connection[c] = "none"
  BY DEF Core, TypeOK, OneActive
<1>2. Ask[c].kind = "connect" => Active(c) = {} /\ locked[c] = None
  BY DEF Core, WritesAreSafe
<1>3. Ask[c].kind = "disconnect" => /\ locked[c] \in Calls /\ Active(c) = {locked[c]}
  BY DEF Core, TypeOK, WritesAreSafe
<1>4. ASSUME NEW d \in Calls \ {c}, locked[d] # None
      PROVE  Ask[d].slot # Ask[c].slot
  <2> SUFFICES ASSUME Ask[d].slot = Ask[c].slot
               PROVE  FALSE
    OBVIOUS
  <2>1. Active(d) = Active(c) /\ Active(d) = {locked[d]} /\ locked[c] # locked[d]
    BY <1>4 DEF Active, Core, WritesAreSafe
  <2> QED BY <1>2, <1>3, <2>1, Kinded
<1>5. ASSUME NEW d \in Calls \ {c}, pc[d] = "commit"
      PROVE  Ask[d].slot # Ask[c].slot
  <2>1. CASE Ask[d].kind = "disconnect"
    BY <1>4, <1>5, <2>1 DEF Core, WritesAreSafe
  <2>2. CASE Ask[d].kind = "connect"
    BY <1>5, <2>2 DEF Core, WritesAreSafe
  <2> QED BY <2>1, <2>2, Kinded
<1>6. \A d \in Calls \ {c} : Ask[d].key = Ask[c].key => pc[d] \notin Keyed
  BY DEF Core, Entitled
<1> QED BY <1>1, <1>2, <1>3, <1>4, <1>5, <1>6

\* What a commit makes of the slots.
LEMMA CommitWrites ==
  ASSUME Core, NEW c \in Calls, Commit(c)
  PROVE  /\ \A d \in Calls : Ask[d].slot # Ask[c].slot => Active(d)' = Active(d)
         /\ \A d \in Calls : Ask[d].slot = Ask[c].slot =>
              Active(d)' = IF Ask[c].kind = "connect" THEN {c} ELSE {}
         /\ \A r \in Calls : connection'[r] # "none" => connection[r] # "none" \/ r = c
         /\ \A r \in Calls : connection'[r] # "active" =>
              connection[r] # "active" \/ (Ask[c].kind = "disconnect" /\ Ask[r].slot = Ask[c].slot)
<1> USE DEF Commit
<1>1. connection \in [Calls -> {"none", "active", "inactive"}]
  BY DEF Core, TypeOK
<1>2. CASE Ask[c].kind = "connect"
  BY <1>1, <1>2, CommitFinds DEF Active
<1>3. CASE Ask[c].kind = "disconnect"
  <2>1. locked[c] \in Calls /\ Active(c) = {locked[c]} /\ connection' = [connection EXCEPT ![locked[c]] = "inactive"]
    BY <1>3, CommitFinds
  <2>2. Ask[locked[c]].slot = Ask[c].slot /\ connection[locked[c]] = "active"
    BY <2>1 DEF Active
  <2>3. \A r \in Calls : connection'[r] = IF r = locked[c] THEN "inactive" ELSE connection[r]
    BY <1>1, <2>1
  <2>4. \A r \in Calls \ {locked[c]} : ~(connection[r] = "active" /\ Ask[r].slot = Ask[c].slot)
    BY <2>1 DEF Active
  <2> HIDE DEF Commit
  <2> QED BY <1>3, <2>2, <2>3, <2>4 DEF Active
<1> QED BY <1>2, <1>3, Kinded

LEMMA CommitStep ==
  ASSUME Core, NEW c \in Calls, Commit(c)
  PROVE  Core'
<1>1. pc[c] = "commit" /\ pc' = [pc EXCEPT ![c] = "committed"] /\ locked' = [locked EXCEPT ![c] = None]
      /\ receipt' = [receipt EXCEPT ![Ask[c].key] = c] /\ receipt[Ask[c].key] = None
      /\ UNCHANGED <<role, saw, told>>
  BY DEF Commit, Goto
<1>2. witnessed' = [d \in Calls |->
         IF InFlight(d) /\ Ask[d].slot = Ask[c].slot
         THEN witnessed[d] \cup {IF Ask[c].kind = "connect" THEN "held" ELSE "free"}
         ELSE witnessed[d]]
  BY DEF Commit
<1>3. TypeOK'
  <2>1. connection' \in [Calls -> {"none", "active", "inactive"}]
    BY <1>1, CommitFinds DEF Commit, Core, TypeOK
  <2>2. witnessed' \in [Calls -> SUBSET {"free", "held"}]
    BY <1>2 DEF Core, TypeOK
  <2> QED BY <1>1, <2>1, <2>2 DEF Core, TypeOK
<1>4. /\ pc'[c] = "committed" /\ locked'[c] = None /\ receipt'[Ask[c].key] = c
      /\ \A d \in Calls \ {c} : pc'[d] = pc[d] /\ locked'[d] = locked[d]
      /\ \A k \in Keys \ {Ask[c].key} : receipt'[k] = receipt[k]
  BY <1>1, Kinded DEF Core, TypeOK
<1>5. OneActive'
  <2> SUFFICES ASSUME NEW r \in Calls
               PROVE  /\ connection'[r] # "none" => pc'[r] \in {"committed", "done"}
                      /\ connection'[r] = "active" => Active(r)' = {r}
    BY DEF OneActive
  <2>1. connection'[r] # "none" => pc'[r] \in {"committed", "done"}
    BY <1>4, CommitWrites DEF Core, OneActive
  <2>2. ASSUME connection'[r] = "active"
        PROVE  Active(r)' = {r}
    <3>1. r \in Active(r)'
      BY <2>2 DEF Active
    <3>2. CASE Ask[r].slot = Ask[c].slot
      BY <3>1, <3>2, CommitWrites
    <3>3. CASE Ask[r].slot # Ask[c].slot
      <4>1. Active(r)' = Active(r) /\ r \in Active(r)
        BY <3>1, <3>3, CommitWrites
      <4> QED BY <4>1, OnlyRow
    <3> QED BY <3>2, <3>3
  <2> QED BY <2>1, <2>2
<1>6. Entitled'
  <2>1. \A d \in Calls \ {c} : pc[d] \in Keyed => receipt'[Ask[d].key] = receipt[Ask[d].key]
    BY <1>1, <1>4, CommitFinds, Kinded
  <2> QED BY <1>1, <1>4, <2>1 DEF Core, Entitled, InFlight
<1>7. WritesAreSafe'
  <2> SUFFICES ASSUME NEW e \in Calls
               PROVE  /\ locked'[e] # None <=> pc'[e] = "update" \/ (pc'[e] = "commit" /\ Ask[e].kind = "disconnect")
                      /\ locked'[e] # None => /\ Active(e)' = {locked'[e]} /\ Ask[e].kind = "disconnect"
                                              /\ \A d \in Calls \ {e} : locked'[d] # locked'[e]
                      /\ pc'[e] = "insert" => Ask[e].kind = "connect"
                      /\ pc'[e] = "commit" /\ Ask[e].kind = "connect" =>
                           /\ Active(e)' = {}
                           /\ \A d \in Calls \ {e} : Ask[d].slot = Ask[e].slot => pc'[d] # "commit"
    BY DEF WritesAreSafe
  <2>1. CASE e = c
    BY <1>4, <2>1
  <2>2. CASE e # c
    <3>1. locked[e] # None \/ pc[e] = "commit" => Active(e)' = Active(e)
      BY <1>1, <2>2, CommitFinds, CommitWrites
    <3>2. ASSUME locked[e] # None, NEW d \in Calls \ {e}
          PROVE  locked'[d] # locked[e]
      BY <1>4, <3>2 DEF Core, WritesAreSafe
    <3> QED BY <1>4, <2>2, <3>1, <3>2 DEF Core, WritesAreSafe
  <2> QED BY <2>1, <2>2
<1>8. ReceiptsAreOwn'
  <2>1. \A k \in Keys : receipt'[k] # None =>
          Ask[receipt'[k]].key = k /\ pc'[receipt'[k]] \in {"committed", "done"}
    BY <1>4 DEF Core, TypeOK, ReceiptsAreOwn
  <2>2. ASSUME NEW d \in Calls, pc'[d] = "committed"
        PROVE  receipt'[Ask[d].key] = d
    <3>1. CASE d = c
      BY <1>4, <3>1
    <3>2. CASE d # c
      <4>1. receipt[Ask[d].key] = d
        BY <1>4, <2>2, <3>2 DEF Core, ReceiptsAreOwn
      <4> QED BY <1>1, <1>4, <4>1, Kinded
    <3> QED BY <3>1, <3>2
  <2> QED BY <2>1, <2>2 DEF ReceiptsAreOwn
<1>9. Witnessed'
  <2> SUFFICES ASSUME NEW e \in Calls, e # c
               PROVE  /\ InFlight(e) => State(e)' \in witnessed'[e]
                      /\ pc[e] = "waits" => /\ saw[e] \in Calls /\ Ask[saw[e]].slot = Ask[e].slot
                                            /\ connection'[saw[e]] # "active" => "free" \in witnessed'[e]
    BY <1>1, <1>4 DEF Witnessed, InFlight
  <2>1. CASE Ask[e].slot # Ask[c].slot
    <3>1. witnessed'[e] = witnessed[e] /\ State(e)' = State(e)
      BY <1>2, <2>1, CommitWrites DEF State
    <3>2. pc[e] = "waits" => saw[e] \in Calls /\ Ask[saw[e]].slot = Ask[e].slot
                             /\ (connection'[saw[e]] # "active" => connection[saw[e]] # "active")
      BY <2>1, Knows, CommitWrites
    <3> QED BY <3>1, <3>2 DEF Core, Witnessed
  <2>2. CASE Ask[e].slot = Ask[c].slot
    <3>1. InFlight(e) => witnessed'[e] = witnessed[e] \cup {IF Ask[c].kind = "connect" THEN "held" ELSE "free"}
      BY <1>2, <2>2
    <3>2. State(e)' = IF Ask[c].kind = "connect" THEN "held" ELSE "free"
      BY <2>2, CommitWrites DEF State
    <3>3. pc[e] = "waits" /\ Ask[c].kind = "connect" => saw[e] \in Calls
             /\ (connection'[saw[e]] # "active" => connection[saw[e]] # "active")
      BY Knows, CommitWrites
    <3>4. pc[e] = "waits" => InFlight(e)
      BY DEF InFlight
    <3> QED BY <3>1, <3>2, <3>3, <3>4, Kinded DEF Core, Witnessed
  <2> QED BY <2>1, <2>2
<1> QED BY <1>3, <1>5, <1>6, <1>7, <1>8, <1>9 DEF Core

LEMMA NextStep ==
  ASSUME Core, [Next]_vars
  PROVE  Core'
<1>1. ASSUME NEW c \in Calls, AnswerReceipt(c) \/ Fail(c)
      PROVE  Core'
  BY <1>1, ReturnStep DEF AnswerReceipt, Fail, Answers
<1>2. ASSUME NEW c \in Calls, RequireMember(c) \/ Statement(c) \/ Fail(c)
      PROVE  Core'
  BY <1>1, <1>2, RequireMemberStep, ReceiptSteps, SlotSteps, WriteSteps, CommitStep DEF Statement
<1>3. CASE UNCHANGED vars
  BY <1>3 DEF vars, Core, TypeOK, OneActive, Entitled, WritesAreSafe, ReceiptsAreOwn, Witnessed,
     Active, InFlight, State
<1> QED BY <1>2, <1>3, ChangeRoleStep DEF Next

LEMMA InitHolds ==
  ASSUME Init
  PROVE  Core
<1> USE DEF Init
<1>1. TypeOK
  BY DEF TypeOK
<1>2. OneActive /\ Entitled /\ WritesAreSafe /\ ReceiptsAreOwn /\ Witnessed
  BY Kinded DEF OneActive, Entitled, WritesAreSafe, ReceiptsAreOwn, Witnessed, InFlight, Active, State
<1> QED BY <1>1, <1>2 DEF Core

\* A call waits for the key or the entry of a call further on, or for the
\* row of one that only has to write and commit.
LEMMA Moving ==
  ASSUME Core
  PROVE  SomeoneMoves
<1> SUFFICES ASSUME NEW c \in Calls, InFlight(c)
             PROVE  \E d \in Calls : InFlight(d) /\ ~Waits(d)
  BY DEF SomeoneMoves
<1>1. CASE \E d \in Calls : pc[d] \in {"receipt", "slot", "update", "commit"}
  BY <1>1 DEF Waits, InFlight
<1>2. CASE \A d \in Calls : pc[d] \notin {"receipt", "slot", "update", "commit"}
  <2>1. \A d \in Calls : locked[d] = None
    BY <1>2 DEF Core, WritesAreSafe
  <2>2. \A d \in Calls : pc[d] \in {"waits", "insert"} => ~Waits(d) /\ InFlight(d)
    BY <1>2, <2>1, Knows, Kinded DEF Waits, RowFree, EntryFree, InFlight
  <2>3. CASE \E d \in Calls : pc[d] \in {"waits", "insert"}
    BY <2>2, <2>3
  <2>4. CASE \A d \in Calls : pc[d] \notin Keyed
    BY <2>4 DEF Waits, KeyFree, InFlight
  <2> QED BY <1>2, <2>3, <2>4
<1> QED BY <1>1, <1>2
-----------------------------------------------------------------------------
(* The theorems.                                                           *)

\* Slots have one active connection, keys one Action, writers their rights
\* and their locks, and calls never all wait for each other.
THEOREM InductiveInvariant == Spec => []IInv
<1>1. Init => Core
  BY InitHolds
<1>2. Core /\ [Next]_vars => Core'
  BY NextStep
<1>3. Core => IInv
  BY Moving DEF IInv
<1> QED BY <1>1, <1>2, <1>3, PTL DEF Spec

\* However many calls are under way, and whatever they ask for, one of them
\* does not wait for another.
THEOREM CallsNeverDeadlock == Spec => []SomeoneMoves
<1>1. IInv => SomeoneMoves
  BY DEF IInv
<1> QED BY <1>1, InductiveInvariant, PTL

\* What a call that has found a row, or none, may be told.
LEMMA FoundTells ==
  ASSUME Core, NEW c \in Calls, InFlight(c), NEW r \in Calls \cup {None}, Found(c, r),
         r # None => "held" \in witnessed[c], r = None => "free" \in witnessed[c]
  PROVE  \/ told' = told
         \/ told' = [told EXCEPT ![c] = "active"] /\ "held" \in witnessed[c]
         \/ told' = [told EXCEPT ![c] = "absent"] /\ "free" \in witnessed[c]
BY DEF Found, Return, Proceed

\* What a call may be told of its slot, it has witnessed.
LEMMA SlotTells ==
  ASSUME Core, NEW c \in Calls, LockActiveBrandConnection(c) \/ LockReleased(c) \/ Insert(c)
  PROVE  \/ told' = told
         \/ told' = [told EXCEPT ![c] = "error"]
         \/ told' = [told EXCEPT ![c] = "active"] /\ "held" \in witnessed[c]
         \/ told' = [told EXCEPT ![c] = "absent"] /\ "free" \in witnessed[c]
<1>1. pc[c] \in {"slot", "waits", "insert"} /\ InFlight(c) /\ State(c) \in witnessed[c]
  BY Knows DEF LockActiveBrandConnection, LockReleased, Insert, InFlight
<1>2. CASE LockActiveBrandConnection(c)
  <2>1. CASE Active(c) = {} /\ Found(c, None)
    BY <1>1, <2>1, FoundTells DEF State
  <2>2. CASE \E r \in Active(c) : Found(c, r)
    <3>1. PICK r \in Active(c) : Found(c, r)
      BY <2>2
    <3>2. r \in Calls /\ "held" \in witnessed[c] /\ r # None
      BY <1>1, Kinded DEF State, Active
    <3> QED BY <1>1, <3>1, <3>2, FoundTells
  <2>3. CASE told' = told
    BY <2>3
  <2> QED BY <1>2, <2>1, <2>2, <2>3 DEF LockActiveBrandConnection, Candidates
<1>3. CASE LockReleased(c)
  <2> DEFINE r == IF connection[saw[c]] = "active" THEN saw[c] ELSE None
  <2>1. /\ saw[c] \in Calls /\ Ask[saw[c]].slot = Ask[c].slot
        /\ connection[saw[c]] # "active" => "free" \in witnessed[c]
    BY <1>3 DEF LockReleased, Core, Witnessed
  <2>2. connection[saw[c]] = "active" => saw[c] \in Active(c)
    BY <2>1 DEF Active
  <2>3. r # None => "held" \in witnessed[c]
    BY <1>1, <2>2 DEF State
  <2>4. r = None => "free" \in witnessed[c]
    BY <2>1, Kinded
  <2>5. r \in Calls \cup {None} /\ Found(c, r)
    BY <1>3, <2>1 DEF LockReleased
  <2> HIDE DEF r
  <2> QED BY <1>1, <2>3, <2>4, <2>5, FoundTells
<1>4. CASE Insert(c)
  BY <1>1, <1>4 DEF Insert, Return, Proceed, State
<1> QED BY <1>2, <1>3, <1>4

\* A refusal that names the slot is true of some moment of the call.
THEOREM RefusalsTrue == Spec => RefusalsAreTrue
<1> DEFINE True(c) == /\ told'[c] = "active" => "held" \in witnessed[c]
                      /\ told'[c] = "absent" => "free" \in witnessed[c]
           AllTrue == \A c \in Calls : told'[c] # told[c] => True(c)
<1>1. ASSUME Core, [Next]_vars
      PROVE  AllTrue
  <2> SUFFICES ASSUME NEW c \in Calls, told'[c] # told[c]
               PROVE  True(c)
    OBVIOUS
  <2>1. told \in [Calls -> Calls \cup {None} \cup Answers]
    BY <1>1 DEF Core, TypeOK
  <2>2. PICK d \in Calls : RequireMember(d) \/ Statement(d) \/ Fail(d)
    BY <1>1 DEF Next, vars, ChangeRole
  <2>3. CASE LockActiveBrandConnection(d) \/ LockReleased(d) \/ Insert(d)
    BY <1>1, <2>1, <2>3, SlotTells
  <2>4. CASE \E a \in Calls \cup {"different", "denied", "error"} : told' = [told EXCEPT ![d] = a]
    BY <2>1, <2>4, AskAssumption
  <2>5. CASE told' = told
    BY <2>5
  <2>6. CASE ReadActionReceipt(d)
    <3>1. receipt[Ask[d].key] \in Calls \cup {None}
      BY <1>1, Kinded DEF Core, TypeOK
    <3> QED BY <2>4, <2>5, <2>6, <3>1 DEF ReadActionReceipt, Return, Proceed
  <2> QED BY <2>2, <2>3, <2>4, <2>5, <2>6 DEF Statement, RequireMember, AcquireActionReceiptLock,
             Update, Commit, AnswerReceipt, Fail, Return, Proceed
<1>2. Core /\ [Next]_vars => [AllTrue]_vars
  BY <1>1
<1>3. IInv => Core
  BY DEF IInv
<1>4. Spec => [][AllTrue]_vars
  BY <1>2, <1>3, InductiveInvariant, PTL DEF Spec
<1> QED BY <1>4 DEF RefusalsAreTrue
-----------------------------------------------------------------------------
(* The connections implement KeyedSlots.                                   *)

LEMMA HolderOf ==
  ASSUME Core, NEW c \in Calls
  PROVE  /\ Holder \in [Slots -> Calls \cup {None}]
         /\ Active(c) = {} <=> Holder[Ask[c].slot] = None
BY Kinded DEF Holder, Active

\* An end without writing is an answer of the promise.
LEMMA AnswerStep ==
  ASSUME Core, NEW c \in Calls, pc[c] # "done", NEW a, Return(c, a)
  PROVE  UNCHANGED <<role, Holder, receipt>> /\ told[c] = None /\ Promise!Answer(c, a)
BY Knows DEF Return, Holder, Promise!Answer

LEMMA HolderChanges ==
  ASSUME NEW s \in Slots, NEW v, Holder'[s] = v, \A t \in Slots \ {s} : ActiveIn(t)' = ActiveIn(t)
  PROVE  Holder' = [Holder EXCEPT ![s] = v]
<1> DEFINE H(a) == IF a = {} THEN None ELSE CHOOSE r \in a : TRUE
<1>1. /\ \A t \in Slots : Holder[t] = H(ActiveIn(t)) /\ Holder'[t] = H(ActiveIn(t)')
      /\ Holder = [t \in Slots |-> H(ActiveIn(t))]
      /\ Holder' = [t \in Slots |-> H(ActiveIn(t)')]
  BY DEF Holder
<1> HIDE DEF H, ActiveIn
<1>2. \A t \in Slots \ {s} : Holder'[t] = Holder[t]
  <2> TAKE t \in Slots \ {s}
  <2>1. ActiveIn(t)' = ActiveIn(t)
    OBVIOUS
  <2> QED BY <1>1, <2>1
<1>3. /\ Holder = [t \in Slots |-> Holder[t]]
      /\ Holder' = [t \in Slots |-> Holder'[t]]
  BY DEF Holder
<1> HIDE DEF Holder
<1> QED BY <1>2, <1>3

LEMMA HolderKept ==
  ASSUME UNCHANGED connection
  PROVE  UNCHANGED Holder
BY DEF Holder

LEMMA CommitPerforms ==
  ASSUME Core, NEW c \in Calls, Commit(c)
  PROVE  Promise!Perform(c)
<1>1. pc[c] = "commit" /\ role[Ask[c].user] = "mutator" /\ receipt[Ask[c].key] = None
  BY Knows DEF Commit
<1>2. receipt' = [receipt EXCEPT ![Ask[c].key] = c] /\ UNCHANGED <<role, told>>
  BY DEF Commit
<1>3. connection \in [Calls -> {"none", "active", "inactive"}]
  BY DEF Core, TypeOK
<1>4. Active(c)' = IF Ask[c].kind = "connect" THEN {c} ELSE {}
  BY CommitWrites
<1>5. Holder'[Ask[c].slot] = IF Ask[c].kind = "connect" THEN c ELSE None
  <2> HIDE DEF ActiveIn
  <2>1. Active(c)' = ActiveIn(Ask[c].slot)' /\ Ask[c].slot \in Slots
    BY Kinded DEF Active
  <2> QED BY <1>4, <2>1 DEF Holder
<1>6. \A t \in Slots \ {Ask[c].slot} : ActiveIn(t)' = ActiveIn(t)
  <2>1. CASE Ask[c].kind = "connect"
    BY <1>3, <2>1 DEF Commit
  <2>2. CASE Ask[c].kind = "disconnect"
    BY <1>1, <1>3, <2>2, CommitFinds DEF Commit, Active
  <2> QED BY <2>1, <2>2, Kinded
<1>7. Holder' = [Holder EXCEPT ![Ask[c].slot] = IF Ask[c].kind = "connect" THEN c ELSE None]
  BY <1>5, <1>6, HolderChanges, Kinded
<1>8. IF Ask[c].kind = "connect" THEN Holder[Ask[c].slot] = None ELSE Holder[Ask[c].slot] # None
  BY <1>1, CommitFinds, HolderOf, Kinded
<1> QED BY <1>1, <1>2, <1>7, <1>8, Kinded DEF Promise!Perform

\* Every statement is a step of the promise, or none.
LEMMA StatementStep ==
  ASSUME Core, NEW c \in Calls, RequireMember(c) \/ Statement(c) \/ Fail(c)
  PROVE  \/ UNCHANGED <<role, Holder, receipt, told>>
         \/ Promise!Perform(c) \/ Promise!Receipt(c) \/ Promise!Refuse(c)
<1> DEFINE Still == UNCHANGED <<role, Holder, receipt, told>>
<1>1. \A p \in Statements : Proceed(c, p) => Still
  BY HolderKept DEF Proceed
<1>2. ASSUME pc[c] # "done", receipt[Ask[c].key] = None, NEW a \in {"active", "absent"}, Return(c, a)
      PROVE  Promise!Refuse(c)
  BY <1>2, AnswerStep DEF Promise!Refuse
<1>3. CASE RequireMember(c)
  <2>1. CASE role[Ask[c].user] = "gone" /\ Return(c, "denied")
    BY <1>3, <2>1, AnswerStep DEF RequireMember, Promise!Refuse
  <2>2. CASE Still
    BY <2>2
  <2> QED BY <1>3, <2>1, <2>2, HolderKept DEF RequireMember
<1>4. CASE ReadActionReceipt(c)
  <2> DEFINE r == receipt[Ask[c].key]
  <2>1. CASE r # None /\ Return(c, IF Ask[r] = Ask[c] THEN r ELSE "different")
    BY <1>4, <2>1, AnswerStep DEF ReadActionReceipt, Promise!Receipt
  <2>2. CASE r = None /\ role[Ask[c].user] = "viewer" /\ Return(c, "denied")
    BY <1>4, <2>2, AnswerStep DEF ReadActionReceipt, Promise!Refuse
  <2> QED BY <1>1, <1>4, <2>1, <2>2 DEF ReadActionReceipt
<1>5. CASE LockActiveBrandConnection(c) \/ LockReleased(c)
  <2>1. pc[c] # "done" /\ receipt[Ask[c].key] = None
    BY <1>5, Knows DEF LockActiveBrandConnection, LockReleased
  <2>2. ASSUME NEW r, Found(c, r)
        PROVE  Still \/ Promise!Refuse(c)
    BY <1>1, <1>2, <2>1, <2>2, HolderKept DEF Found
  <2> QED BY <1>5, <2>2, HolderKept DEF LockActiveBrandConnection, LockReleased
<1>6. CASE Insert(c)
  <2>1. pc[c] # "done" /\ receipt[Ask[c].key] = None
    BY <1>6, Knows DEF Insert
  <2>2. CASE Return(c, "error")
    BY <2>1, <2>2, AnswerStep DEF Promise!Refuse
  <2> QED BY <1>1, <1>2, <1>6, <2>1, <2>2 DEF Insert
<1>7. CASE AcquireActionReceiptLock(c) \/ Update(c)
  BY <1>1, <1>7 DEF AcquireActionReceiptLock, Update
<1>8. CASE Commit(c)
  BY <1>8, CommitPerforms
<1>9. CASE AnswerReceipt(c)
  <2>1. receipt[Ask[c].key] = c /\ c # None
    BY <1>9, Knows, Kinded DEF AnswerReceipt
  <2> QED BY <1>9, <2>1, AnswerStep DEF AnswerReceipt, Promise!Receipt
<1>10. CASE Fail(c)
  BY <1>10, AnswerStep DEF Fail, InFlight, Promise!Refuse
<1> QED BY <1>3, <1>4, <1>5, <1>6, <1>7, <1>8, <1>9, <1>10 DEF Statement

LEMMA StepKeeps ==
  ASSUME IInv, [Next]_vars
  PROVE  [Promise!Next]_(Promise!vars)
<1>1. CASE \E u \in Users : ChangeRole(u)
  <2>1. TypeOK' /\ UNCHANGED <<Holder, receipt, told>>
    BY <1>1, ChangeRoleStep, HolderKept DEF ChangeRole, Core, IInv
  <2> QED BY <2>1 DEF TypeOK, Promise!Next, Promise!ChangeRole, Promise!Roles
<1>2. CASE UNCHANGED vars
  BY <1>2, HolderKept DEF vars, Promise!vars
<1>3. CASE \E c \in Calls : RequireMember(c) \/ Statement(c) \/ Fail(c)
  BY <1>3, StatementStep DEF Promise!Next, Promise!vars, IInv
<1> QED BY <1>1, <1>2, <1>3 DEF Next

\* Locks, snapshots and indexes implement one operation per key on slots
\* with one active connection, and nobody is refused his own success.
THEOREM RefinesKeyedSlots == Spec => ImplementsKeyedSlots
<1>1. Init => Promise!Init
  BY Kinded DEF Init, Holder, Promise!Init, Promise!Roles
<1>2. IInv /\ [Next]_vars => [Promise!Next]_(Promise!vars)
  BY StepKeeps
<1> QED BY <1>1, <1>2, InductiveInvariant, PTL DEF Spec, ImplementsKeyedSlots, Promise!Spec
-----------------------------------------------------------------------------
(* What follows from the promise.                                          *)

\* A step of the promise keeps the keys and exchanges nothing.
LEMMA PromiseStep ==
  ASSUME TypeOK, Promise!KeysAreKept, [Promise!Next]_(Promise!vars)
  PROVE  /\ Promise!KeysAreKept'
         /\ \A s \in Slots : Holder[s] # None => Holder'[s] \in {None, Holder[s]}
         /\ \A k \in Keys : receipt[k] # None => receipt'[k] = receipt[k]
<1>1. /\ told \in [Calls -> Calls \cup {None} \cup Answers] /\ receipt \in [Keys -> Calls \cup {None}]
      /\ Holder = [s \in Slots |-> Holder[s]]
  BY DEF TypeOK, Holder
<1>2. \A c \in Calls : Ask[c].key \in Keys /\ Ask[c].slot \in Slots
  BY AskAssumption
<1>3. \A what \in {"different", "active", "absent", "denied", "error", None} : what \notin Calls
  BY AskAssumption
<1>4. CASE Promise!ChangeRole \/ UNCHANGED Promise!vars
  BY <1>4 DEF Promise!ChangeRole, Promise!vars, Promise!KeysAreKept
<1>5. ASSUME NEW c \in Calls, Promise!Perform(c)
      PROVE  /\ Promise!KeysAreKept'
             /\ \A s \in Slots : Holder[s] # None => Holder'[s] \in {None, Holder[s]}
             /\ \A k \in Keys : receipt[k] # None => receipt'[k] = receipt[k]
  <2>1. /\ receipt[Ask[c].key] = None /\ receipt' = [receipt EXCEPT ![Ask[c].key] = c]
        /\ told' = told
    BY <1>5 DEF Promise!Perform
  <2>2. \A k \in Keys : receipt[k] # None => receipt'[k] = receipt[k]
    BY <1>1, <2>1
  <2>3. \A d \in Calls : told[d] \in Calls => receipt[Ask[d].key] # None
    BY <1>3 DEF Promise!KeysAreKept
  <2>4. \A d \in Calls : told'[d] \in Calls =>
          receipt'[Ask[d].key] = told'[d] /\ Ask[told'[d]] = Ask[d]
    BY <1>2, <2>1, <2>2, <2>3 DEF Promise!KeysAreKept
  <2>5. receipt'[Ask[c].key] = c
    BY <1>1, <1>2, <2>1
  <2>6. CASE /\ Ask[c].kind = "connect" /\ Holder[Ask[c].slot] = None
             /\ Holder' = [Holder EXCEPT ![Ask[c].slot] = c]
    <3>1. \A s \in Slots : Holder'[s] = IF s = Ask[c].slot THEN c ELSE Holder[s]
      BY <1>1, <2>6
    <3>2. \A s \in Slots : Holder[s] # None => Holder'[s] = Holder[s]
      BY <2>6, <3>1
    <3>3. \A s \in Slots : Holder'[s] # None =>
            /\ Holder'[s] \in Calls /\ receipt'[Ask[Holder'[s]].key] = Holder'[s]
            /\ Ask[Holder'[s]].kind = "connect" /\ Ask[Holder'[s]].slot = s
      BY <1>2, <1>3, <2>2, <2>5, <2>6, <3>1 DEF Promise!KeysAreKept
    <3> QED BY <2>2, <2>4, <3>2, <3>3 DEF Promise!KeysAreKept
  <2>7. CASE Holder' = [Holder EXCEPT ![Ask[c].slot] = None]
    <3>1. \A s \in Slots : Holder'[s] \in {None, Holder[s]}
      BY <1>1, <2>7
    <3>2. \A s \in Slots : Holder'[s] # None =>
            /\ Holder'[s] \in Calls /\ receipt'[Ask[Holder'[s]].key] = Holder'[s]
            /\ Ask[Holder'[s]].kind = "connect" /\ Ask[Holder'[s]].slot = s
      BY <1>2, <1>3, <2>2, <3>1 DEF Promise!KeysAreKept
    <3> QED BY <2>2, <2>4, <3>1, <3>2 DEF Promise!KeysAreKept
  <2> QED BY <1>5, <2>6, <2>7 DEF Promise!Perform
<1>6. ASSUME NEW c \in Calls, Promise!Receipt(c) \/ Promise!Refuse(c)
      PROVE  Promise!KeysAreKept' /\ UNCHANGED <<Holder, receipt>>
  <2>1. PICK what : /\ told' = [told EXCEPT ![c] = what]
                    /\ what \in Calls => receipt[Ask[c].key] = what /\ Ask[what] = Ask[c]
    <3>1. CASE Promise!Receipt(c)
      BY <1>3, <3>1 DEF Promise!Receipt, Promise!Answer
    <3>2. CASE Promise!Refuse(c)
      BY <1>3, <3>2 DEF Promise!Refuse, Promise!Answer
    <3> QED BY <1>6, <3>1, <3>2
  <2>2. UNCHANGED <<Holder, receipt>>
    BY <1>6 DEF Promise!Receipt, Promise!Refuse
  <2>3. \A d \in Calls : told'[d] = IF d = c THEN what ELSE told[d]
    BY <1>1, <2>1
  <2> QED BY <2>1, <2>2, <2>3 DEF Promise!KeysAreKept
<1> QED BY <1>4, <1>5, <1>6 DEF Promise!Next

\* Whatever calls race, are repeated or fail: who is told of a connection, or
\* of the end of one, is told of the only one made under its key, by a call
\* that asked for the same.
THEOREM ConnectionsKeepTheirKeys == Spec => []Promise!KeysAreKept
<1>1. Init => Promise!KeysAreKept
  BY Kinded, AskAssumption DEF Init, Holder, Promise!KeysAreKept
<1>2. IInv /\ Promise!KeysAreKept /\ [Next]_vars => Promise!KeysAreKept'
  BY StepKeeps, PromiseStep DEF IInv, Core
<1> QED BY <1>1, <1>2, InductiveInvariant, PTL DEF Spec

\* An active connection is not exchanged for another, and an operation is
\* never done again under its key.
THEOREM ConnectionsAreNotExchanged == Spec => Promise!NothingIsExchanged
<1> DEFINE Kept == /\ \A s \in Slots : Holder[s] # None => Holder'[s] \in {None, Holder[s]}
                   /\ \A k \in Keys : receipt[k] # None => receipt'[k] = receipt[k]
<1>1. IInv /\ Promise!KeysAreKept /\ [Next]_vars => [Kept]_(Promise!vars)
  BY StepKeeps, PromiseStep DEF IInv, Core
<1>2. Spec => [][Kept]_(Promise!vars)
  BY <1>1, ConnectionsKeepTheirKeys, InductiveInvariant, PTL DEF Spec
<1> QED BY <1>2 DEF Promise!NothingIsExchanged
=============================================================================
