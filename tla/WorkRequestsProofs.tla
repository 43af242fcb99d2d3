------------------------- MODULE WorkRequestsProofs -------------------------
(***************************************************************************)
(* Proofs about WorkRequests for every set of calls, keys and Intents.     *)
(***************************************************************************)
EXTENDS WorkRequests, TLAPS

USE DEF table, Keyed, Statements, Changes

Past == {"committed", "done"}

\* A statement of c changes nothing of another call.
Others(c) ==
    \A d \in Calls \ {c} : pc'[d] = pc[d] /\ saw'[d] = saw[d] /\ told'[d] = told[d]

\* Calls of a session that hold their task.
Sessions == {"lateral", "output"}

\* What a statement of c may leave in c's own variables.
Fits(c) ==
    /\ pc'[c] # "committed" /\ (pc[c] \in Past => pc'[c] = "done")
    /\ pc'[c] \in Keyed =>
         /\ receipt[Ask[c].key] = None
         /\ \A d \in Calls \ {c} : Ask[d].key = Ask[c].key => pc[d] \notin Keyed
    /\ told'[c] = None <=> pc'[c] # "done"
    /\ Ask[c].kind \in {"request"} \cup Changes /\ pc'[c] \in Keyed \ {"intent"} =>
         /\ Ask[c].intent \in open
         /\ \A d \in Calls \ {c} : ~HoldsIntent(d, Ask[c].intent)
    /\ pc'[c] = "change" => revision[Ask[c].intent] = Ask[c].revision
    /\ pc'[c] = "source" => task[Ask[c].task] \notin {"none", "queued"}
    /\ Ask[c].kind \in Sessions /\ pc'[c] \in Keyed =>
         /\ task[Ask[c].task] = "running"
         /\ Ask[c].kind = "output" <=> result[Ask[c].task] = None
         /\ \A d \in Calls \ {c} : ~Updates(d, Ask[c].task) /\ ~Shares(d, Ask[c].task)
    /\ Ask[c].kind = "answer" /\ pc'[c] \in Keyed => task[Ask[c].task] = "asking"
    /\ pc'[c] \in {"lock", "relock"} => saw'[c] \in Calls /\ Ask[saw'[c]].subject = Ask[c].subject
    /\ pc'[c] = "observed" =>
         saw'[c] \in Active(c) /\ \A d \in Calls \ {c} : ~Updates(d, saw'[c])
    /\ pc'[c] = "inserted" =>
         /\ Active(c) = {}
         /\ \A d \in Calls \ {c} : pc[d] = "inserted" => Ask[d].subject # Ask[c].subject
    /\ Ask[c].kind = "lateral" /\ pc'[c] = "lock" => Active(c) \subseteq {saw'[c]}
    /\ Ask[c].kind = "lateral" /\ pc'[c] = "action" => Active(c) = {}

\* The statements c may go on with, for its kind.
Kindly(c, p) ==
    /\ p \in {"intent", "insert", "inserted", "again", "relock"} => Ask[c].kind \in {"request"} \cup Changes
    /\ p \in {"insert", "inserted", "again", "relock"} => Ask[c].kind = "request"
    /\ p \in {"observe", "lock", "observed"} => Ask[c].kind \in {"request", "lateral"}
    /\ p = "change" => Ask[c].kind \in Changes
    /\ p \in {"source", "action"} => Ask[c].kind \in {"lateral", "output", "answer"}

LEMMA Asked ==
  ASSUME NEW c \in Calls
  PROVE  /\ Ask[c].kind \in Kinds /\ Ask[c].key \in Keys /\ Ask[c].intent \in Intents
         /\ Ask[c].task \in Calls /\ c # None
BY AskAssumption
-----------------------------------------------------------------------------
(* Steps that leave the tables alone.                                      *)

LEMMA OwnStep ==
  ASSUME IInv, NEW c \in Calls, UNCHANGED table, TypeOK', Others(c), Fits(c), Kindly(c, pc'[c])
  PROVE  IInv'
<1> USE DEF Others
<1>1. \A d \in Calls : Active(d)' = Active(d)
  BY DEF Active
<1>2. OneOperation'
  <2>1. ASSUME NEW e \in Calls, pc'[e] \in Keyed
        PROVE  /\ receipt'[Ask[e].key] = None
               /\ \A d \in Calls \ {e} : Ask[d].key = Ask[e].key => pc'[d] \notin Keyed
    <3>1. CASE e = c
      BY <2>1, <3>1 DEF Fits
    <3>2. CASE e # c
      <4>1. pc[e] \in Keyed
        BY <2>1, <3>2
      <4>2. receipt'[Ask[e].key] = None
        BY <4>1 DEF IInv, OneOperation
      <4>3. ASSUME NEW d \in Calls \ {e}, Ask[d].key = Ask[e].key
            PROVE  pc'[d] \notin Keyed
        BY <3>2, <4>1, <4>3 DEF IInv, OneOperation, Fits
      <4> QED BY <4>2, <4>3
    <3> QED BY <3>1, <3>2
  <2>2. ASSUME NEW r \in Calls, pc[r] \in Past
        PROVE  pc'[r] \in Past
    BY <2>2 DEF Fits, Past
  <2>3. \A k \in Keys : receipt'[k] # None => Ask[receipt'[k]].key = k /\ pc'[receipt'[k]] \in Past
    BY <2>2 DEF IInv, OneOperation, TypeOK, Past
  <2>4. \A d \in Calls : /\ pc'[d] = "committed" => receipt'[Ask[d].key] = d
                         /\ told'[d] = None <=> pc'[d] # "done"
    BY DEF Fits, IInv, OneOperation
  <2> QED BY <2>1, <2>3, <2>4 DEF OneOperation, Past
<1>3. IntentIsHeld'
  <2> SUFFICES ASSUME NEW e \in Calls
               PROVE  /\ HoldsIntent(e, Ask[e].intent)' =>
                           /\ Ask[e].intent \in open
                           /\ \A d \in Calls \ {e} : ~HoldsIntent(d, Ask[e].intent)'
                      /\ pc'[e] = "change" => revision[Ask[e].intent] = Ask[e].revision
    BY DEF IntentIsHeld
  <2>1. CASE e = c
    BY <2>1 DEF Fits, HoldsIntent
  <2>2. CASE e # c
    <3>1. HoldsIntent(e, Ask[e].intent)' => HoldsIntent(e, Ask[e].intent)
      BY <2>2 DEF HoldsIntent
    <3>2. ASSUME HoldsIntent(e, Ask[e].intent), NEW d \in Calls \ {e}
          PROVE  ~HoldsIntent(d, Ask[e].intent)'
      <4>1. CASE d = c
        BY <2>2, <3>2, <4>1 DEF Fits, HoldsIntent
      <4>2. CASE d # c
        BY <3>2, <4>2 DEF IInv, IntentIsHeld, HoldsIntent
      <4> QED BY <4>1, <4>2
    <3> QED BY <2>2, <3>1, <3>2 DEF IInv, IntentIsHeld
  <2> QED BY <2>1, <2>2
<1>4. SourceIsHeld'
  <2> SUFFICES ASSUME NEW e \in Calls
               PROVE  /\ pc'[e] = "source" => task[Ask[e].task] \notin {"none", "queued"}
                      /\ Updates(e, Ask[e].task)' =>
                           /\ task[Ask[e].task] = "running"
                           /\ Ask[e].kind = "output" <=> result[Ask[e].task] = None
                           /\ \A d \in Calls \ {e} : ~Updates(d, Ask[e].task)' /\ ~Shares(d, Ask[e].task)'
                      /\ Ask[e].kind = "answer" /\ pc'[e] \in Keyed => task[Ask[e].task] = "asking"
    BY DEF SourceIsHeld
  <2>1. CASE e = c
    BY <2>1 DEF Fits, Updates, Shares, Sessions
  <2>2. CASE e # c
    <3>1. Updates(e, Ask[e].task)' => Updates(e, Ask[e].task)
      BY <2>2 DEF Updates
    <3>2. ASSUME Updates(e, Ask[e].task), NEW d \in Calls \ {e}
          PROVE  ~Updates(d, Ask[e].task)' /\ ~Shares(d, Ask[e].task)'
      <4>1. task[Ask[e].task] = "running"
        BY <3>2 DEF IInv, SourceIsHeld
      <4>2. CASE d = c
        BY <2>2, <3>2, <4>1, <4>2 DEF Fits, Updates, Shares, Sessions
      <4>3. CASE d # c
        BY <3>2, <4>3 DEF IInv, SourceIsHeld, Updates, Shares
      <4> QED BY <4>2, <4>3
    <3> QED BY <2>2, <3>1, <3>2 DEF IInv, SourceIsHeld
  <2> QED BY <2>1, <2>2
<1>5. LooksAtItsSubject'
  BY <1>1 DEF IInv, LooksAtItsSubject, Fits
<1>6. OneTask'
  <2> SUFFICES ASSUME NEW e \in Calls
               PROVE  /\ task[e] \in {"queued", "running"} => Active(e) = {e}
                      /\ pc'[e] = "inserted" =>
                           /\ Active(e) = {}
                           /\ \A d \in Calls \ {e} : pc'[d] = "inserted" => Ask[d].subject # Ask[e].subject
                      /\ Ask[e].kind = "lateral" /\ pc'[e] = "lock" => Active(e) \subseteq {saw'[e]}
                      /\ Ask[e].kind = "lateral" /\ pc'[e] = "action" => Active(e) = {}
    BY <1>1 DEF OneTask
  <2>1. CASE e = c
    BY <2>1 DEF Fits, IInv, OneTask
  <2>2. CASE e # c
    BY <2>2 DEF Fits, IInv, OneTask
  <2> QED BY <2>1, <2>2
<1>7. Accepted'
  BY DEF IInv, Accepted
<1>8. OfItsKind'
  BY DEF IInv, OfItsKind, Kindly
<1> QED BY <1>2, <1>3, <1>4, <1>5, <1>6, <1>7, <1>8 DEF IInv

\* A transaction that ends without writing.
LEMMA ReturnStep ==
  ASSUME IInv, NEW c \in Calls, NEW a \in Calls \cup Answers, Return(c, a)
  PROVE  IInv'
<1> USE DEF Return, Goto
<1>1. a # None
  BY AskAssumption DEF Answers
<1>2. TypeOK'
  BY DEF IInv, TypeOK
<1>3. Others(c) /\ pc'[c] = "done" /\ told'[c] = a
  BY DEF IInv, TypeOK, Others
<1>4. Fits(c) /\ Kindly(c, pc'[c])
  BY <1>1, <1>3 DEF Fits, Kindly
<1> QED BY <1>2, <1>3, <1>4, OwnStep

\* A transaction that goes on.
LEMMA ProceedStep ==
  ASSUME IInv, NEW c \in Calls, NEW p \in Statements, Proceed(c, p)
  PROVE  /\ TypeOK' /\ Others(c) /\ UNCHANGED table
         /\ pc'[c] = p /\ saw'[c] = saw[c] /\ told'[c] = told[c]
<1> USE DEF Proceed, Goto
<1>1. TypeOK'
  BY DEF IInv, TypeOK
<1>2. Others(c) /\ pc'[c] = p
  BY DEF IInv, TypeOK, Others
<1> QED BY <1>1, <1>2

\* What the invariant says of one call.
LEMMA Knows ==
  ASSUME IInv, NEW c \in Calls
  PROVE  /\ pc[c] \in Statements /\ (pc[c] # "done" => told[c] = None)
         /\ pc[c] \in Keyed => /\ receipt[Ask[c].key] = None
                               /\ \A d \in Calls \ {c} : Ask[d].key = Ask[c].key => pc[d] \notin Keyed
         /\ Ask[c].kind \in {"request"} \cup Changes /\ pc[c] \in Keyed \ {"intent"} =>
              /\ Ask[c].intent \in open
              /\ \A d \in Calls \ {c} : ~HoldsIntent(d, Ask[c].intent)
         /\ pc[c] = "change" => revision[Ask[c].intent] = Ask[c].revision
         /\ pc[c] = "source" => task[Ask[c].task] \notin {"none", "queued"}
         /\ Ask[c].kind \in Sessions /\ pc[c] \in Keyed =>
              /\ task[Ask[c].task] = "running"
              /\ Ask[c].kind = "output" <=> result[Ask[c].task] = None
              /\ \A d \in Calls \ {c} : ~Updates(d, Ask[c].task) /\ ~Shares(d, Ask[c].task)
         /\ Ask[c].kind = "answer" /\ pc[c] \in Keyed => task[Ask[c].task] = "asking"
         /\ pc[c] \in {"lock", "relock"} => saw[c] \in Calls /\ Ask[saw[c]].subject = Ask[c].subject
         /\ pc[c] = "observed" => saw[c] \in Active(c)
         /\ pc[c] = "inserted" =>
              /\ Active(c) = {}
              /\ \A d \in Calls \ {c} : pc[d] = "inserted" => Ask[d].subject # Ask[c].subject
         /\ Ask[c].kind = "lateral" /\ pc[c] = "lock" => Active(c) \subseteq {saw[c]}
         /\ Ask[c].kind = "lateral" /\ pc[c] = "action" => Active(c) = {}
         /\ pc[c] = "committed" => receipt[Ask[c].key] = c
         /\ task[c] # "none" => pc[c] \in Past
         /\ Kindly(c, pc[c])
<1>1. pc[c] \in Statements
  BY DEF IInv, TypeOK
<1>2. Kindly(c, pc[c])
  BY DEF IInv, OfItsKind, Kindly
<1>3. task[c] # "none" => pc[c] \in Past
  BY Asked DEF IInv, Accepted, OneOperation, Past
<1>4. /\ pc[c] # "done" => told[c] = None
      /\ pc[c] \in Keyed => /\ receipt[Ask[c].key] = None
                            /\ \A d \in Calls \ {c} : Ask[d].key = Ask[c].key => pc[d] \notin Keyed
      /\ pc[c] = "committed" => receipt[Ask[c].key] = c
  BY DEF IInv, OneOperation
<1>5. /\ Ask[c].kind \in {"request"} \cup Changes /\ pc[c] \in Keyed \ {"intent"} =>
           /\ Ask[c].intent \in open
           /\ \A d \in Calls \ {c} : ~HoldsIntent(d, Ask[c].intent)
      /\ pc[c] = "change" => revision[Ask[c].intent] = Ask[c].revision
  BY DEF IInv, IntentIsHeld, HoldsIntent
<1>6. /\ pc[c] = "source" => task[Ask[c].task] \notin {"none", "queued"}
      /\ Ask[c].kind \in Sessions /\ pc[c] \in Keyed =>
              /\ task[Ask[c].task] = "running"
              /\ Ask[c].kind = "output" <=> result[Ask[c].task] = None
              /\ \A d \in Calls \ {c} : ~Updates(d, Ask[c].task) /\ ~Shares(d, Ask[c].task)
      /\ Ask[c].kind = "answer" /\ pc[c] \in Keyed => task[Ask[c].task] = "asking"
  <2>1. Ask[c].kind \in Sessions /\ pc[c] \in Keyed => Updates(c, Ask[c].task)
    BY DEF Updates, Sessions
  <2> QED BY <2>1 DEF IInv, SourceIsHeld
<1>7. /\ pc[c] \in {"lock", "relock"} => saw[c] \in Calls /\ Ask[saw[c]].subject = Ask[c].subject
      /\ pc[c] = "observed" => saw[c] \in Active(c)
  BY DEF IInv, LooksAtItsSubject
<1>8. /\ pc[c] = "inserted" =>
           /\ Active(c) = {}
           /\ \A d \in Calls \ {c} : pc[d] = "inserted" => Ask[d].subject # Ask[c].subject
      /\ Ask[c].kind = "lateral" /\ pc[c] = "lock" => Active(c) \subseteq {saw[c]}
      /\ Ask[c].kind = "lateral" /\ pc[c] = "action" => Active(c) = {}
  BY DEF IInv, OneTask
<1> QED BY <1>1, <1>2, <1>3, <1>4, <1>5, <1>6, <1>7, <1>8

\* A key's receipt, told to c.
LEMMA ReceiptStep ==
  ASSUME IInv, NEW c \in Calls, receipt[Ask[c].key] # None,
         Return(c, IF Ask[receipt[Ask[c].key]] = Ask[c] THEN receipt[Ask[c].key] ELSE "different")
  PROVE  IInv'
<1>1. receipt[Ask[c].key] \in Calls
  BY Asked DEF IInv, TypeOK
<1>2. PICK a \in Calls \cup Answers : Return(c, a)
  BY <1>1 DEF Answers
<1> QED BY <1>2, ReturnStep

LEMMA IntentSteps ==
  ASSUME IInv, NEW c \in Calls, ReadReceipt(c) \/ LockIntent(c)
  PROVE  IInv'
<1>1. CASE ReadReceipt(c)
  <2>1. CASE receipt[Ask[c].key] # None
    BY <1>1, <2>1, ReceiptStep DEF ReadReceipt
  <2>2. CASE receipt[Ask[c].key] = None /\ Proceed(c, "intent")
    <3>1. Fits(c) /\ Kindly(c, pc'[c])
      BY <1>1, <2>2, Knows, ProceedStep DEF ReadReceipt, KeyFree, Fits, Kindly, Past, Sessions
    <3> QED BY <2>2, <3>1, ProceedStep, OwnStep
  <2> QED BY <1>1, <2>1, <2>2 DEF ReadReceipt
<1>2. CASE LockIntent(c)
  <2> USE <1>2
  <2>1. CASE Return(c, "inactive") \/ Return(c, "stale")
    BY <2>1, ReturnStep DEF Answers
  <2>2. Ask[c].kind \in {"request"} \cup Changes => \A d \in Calls : ~HoldsIntent(d, Ask[c].intent)
    BY DEF LockIntent, IntentFree, IntentOf
  <2>3. ASSUME NEW p \in {"observe", "change"}, Proceed(c, p), Ask[c].intent \in open,
               p = "observe" => Ask[c].kind = "request",
               p = "change" => Ask[c].kind \in Changes /\ revision[Ask[c].intent] = Ask[c].revision
        PROVE  IInv'
    <3>1. Fits(c) /\ Kindly(c, pc'[c])
      BY <2>2, <2>3, Knows, ProceedStep DEF LockIntent, Fits, Kindly, Past, Sessions
    <3> QED BY <2>3, <3>1, ProceedStep, OwnStep
  <2> QED BY <2>1, <2>3 DEF LockIntent
<1> QED BY <1>1, <1>2
-----------------------------------------------------------------------------
(* Looking for the active task.                                            *)

\* Whoever looks for a task holds its Intent, or its source.
LEMMA Unfound ==
  ASSUME IInv, NEW c \in Calls, pc[c] \in {"observe", "lock", "again", "relock"},
         Active(c) = {} \/ Ask[c].kind # "lateral", Unobserved(c)
  PROVE  IInv'
<1>1. CASE Return(c, "conflict")
  BY <1>1, ReturnStep DEF Answers
<1>2. ASSUME NEW p \in {"insert", "action"}, Proceed(c, p),
             p = "insert" => Ask[c].kind = "request", p = "action" => Ask[c].kind = "lateral"
      PROVE  IInv'
  <2>1. Fits(c) /\ Kindly(c, pc'[c])
    BY <1>2, Knows, ProceedStep DEF Fits, Kindly, Past, Sessions
  <2> QED BY <1>2, <2>1, ProceedStep, OwnStep
<1> QED BY <1>1, <1>2 DEF Unobserved

\* The active task of a subject is the only one.
LEMMA OnlyTask ==
  ASSUME IInv, NEW c \in Calls, NEW t \in Active(c)
  PROVE  Active(c) = {t} /\ t \in Calls /\ Ask[t].subject = Ask[c].subject
<1>1. t \in Calls /\ Ask[t].subject = Ask[c].subject /\ task[t] \in {"queued", "running"}
  BY DEF Active
<1>2. Active(t) = Active(c)
  BY <1>1 DEF Active
<1> QED BY <1>1, <1>2 DEF IInv, OneTask

LEMMA ObserveStep ==
  ASSUME IInv, NEW c \in Calls, Observe(c)
  PROVE  IInv'
<1> USE DEF Observe
<1>1. CASE Active(c) = {} /\ Unobserved(c)
  BY <1>1, Unfound
<1>2. CASE \E t \in Active(c) : /\ saw' = [saw EXCEPT ![c] = t]
                               /\ Goto(c, IF pc[c] = "observe" THEN "lock" ELSE "relock")
                               /\ UNCHANGED <<table, told>>
  <2>1. PICK t \in Active(c) : saw' = [saw EXCEPT ![c] = t]
    BY <1>2
  <2> USE <1>2, <2>1 DEF Goto
  <2>2. t \in Calls /\ Ask[t].subject = Ask[c].subject /\ Active(c) = {t}
    BY OnlyTask
  <2>3. TypeOK'
    BY <2>2 DEF IInv, TypeOK
  <2>4. Others(c) /\ pc'[c] = (IF pc[c] = "observe" THEN "lock" ELSE "relock") /\ saw'[c] = t
    BY DEF IInv, TypeOK, Others
  <2>5. Fits(c) /\ Kindly(c, pc'[c])
    BY <2>2, <2>4, Knows DEF Fits, Kindly, Past, Sessions
  <2> QED BY <2>3, <2>4, <2>5, OwnStep
<1> QED BY <1>1, <1>2

LEMMA LockObservedStep ==
  ASSUME IInv, NEW c \in Calls, LockObserved(c)
  PROVE  IInv'
<1> USE DEF LockObserved
<1>1. CASE saw[c] \in Active(c) /\ Proceed(c, "observed")
  <2>1. \A d \in Calls : ~Updates(d, saw[c])
    BY DEF ShareFree
  <2>2. Fits(c) /\ Kindly(c, pc'[c])
    BY <1>1, <2>1, Knows, ProceedStep DEF Fits, Kindly, Past, Sessions
  <2> QED BY <1>1, <2>2, ProceedStep, OwnStep
<1>2. CASE saw[c] \notin Active(c) /\ Unobserved(c)
  <2>1. Ask[c].kind = "lateral" => Active(c) = {}
    BY <1>2, Knows DEF Kindly
  <2> QED BY <1>2, <2>1, Unfound
<1> QED BY <1>1, <1>2

LEMMA InsertStep ==
  ASSUME IInv, NEW c \in Calls, Insert(c)
  PROVE  IInv'
<1> DEFINE p == IF Active(c) = {} THEN "inserted" ELSE "again"
<1>1. pc[c] = "insert" /\ Proceed(c, p) /\ p \in Statements
  BY DEF Insert
<1>2. \A d \in Calls : pc[d] = "inserted" => Ask[d].subject # Ask[c].subject
  BY DEF Insert, EntryFree
<1>3. Fits(c) /\ Kindly(c, pc'[c])
  BY <1>1, <1>2, Knows, ProceedStep DEF Fits, Kindly, Past, Sessions
<1> QED BY <1>1, <1>3, ProceedStep, OwnStep
-----------------------------------------------------------------------------
(* Sessions and answers.                                                   *)

LEMMA EnterStep ==
  ASSUME IInv, NEW c \in Calls, Enter(c)
  PROVE  IInv'
<1> USE DEF Enter, Goto
<1> DEFINE t == IF Ask[c].kind = "answer" /\ task[Ask[c].task] = "running" THEN Ask[c].task ELSE None
<1>1. saw' = [saw EXCEPT ![c] = t] /\ t \in Calls \cup {None}
  BY Asked
<1> HIDE DEF t
<1>2. TypeOK'
  BY <1>1 DEF IInv, TypeOK
<1>3. Others(c) /\ pc'[c] = "source"
  BY <1>1 DEF IInv, TypeOK, Others
<1>4. Fits(c) /\ Kindly(c, pc'[c])
  BY <1>3, Knows DEF Fits, Kindly, Past, Sessions
<1> QED BY <1>2, <1>3, <1>4, OwnStep

\* A key of a session's call is one of its task: whoever finds the row
\* free finds the key free.
LEMMA RowIsKey ==
  ASSUME IInv, NEW c \in Calls, Ask[c].kind \in Sessions, UpdateFree(Ask[c].task)
  PROVE  \A d \in Calls : Ask[d].key = Ask[c].key => pc[d] \notin Keyed
<1> SUFFICES ASSUME NEW d \in Calls, Ask[d].key = Ask[c].key, pc[d] \in Keyed
             PROVE  FALSE
  OBVIOUS
<1>1. Ask[d].kind = Ask[c].kind /\ Ask[d].task = Ask[c].task
  BY AskAssumption
<1>2. Updates(d, Ask[c].task)
  BY <1>1 DEF Updates, Sessions
<1> QED BY <1>2 DEF UpdateFree

LEMMA LockSourceStep ==
  ASSUME IInv, NEW c \in Calls, LockSource(c)
  PROVE  IInv'
<1> USE DEF LockSource
<1>1. CASE Return(c, "not_running") \/ Return(c, "no_report")
  BY <1>1, ReturnStep DEF Answers
<1>2. CASE receipt[Ask[c].key] # None /\
           Return(c, IF Ask[receipt[Ask[c].key]] = Ask[c] THEN receipt[Ask[c].key] ELSE "different")
  BY <1>2, ReceiptStep
<1>3. CASE /\ task[Ask[c].task] = "running" /\ receipt[Ask[c].key] = None
           /\ result[Ask[c].task] # None /\ Proceed(c, "observe")
  <2>1. \A d \in Calls : ~Updates(d, Ask[c].task) /\ ~Shares(d, Ask[c].task)
    BY DEF UpdateFree
  <2>2. Fits(c) /\ Kindly(c, pc'[c])
    BY <1>3, <2>1, RowIsKey, Knows, ProceedStep DEF Fits, Kindly, Past, Sessions
  <2> QED BY <1>3, <2>2, ProceedStep, OwnStep
<1> QED BY <1>1, <1>2, <1>3

LEMMA LockProducingStep ==
  ASSUME IInv, NEW c \in Calls, LockProducing(c)
  PROVE  IInv'
<1> USE DEF LockProducing
<1>1. CASE Return(c, "not_running")
  BY <1>1, ReturnStep DEF Answers
<1>2. CASE receipt[Ask[c].key] # None /\
           Return(c, IF Ask[receipt[Ask[c].key]] = Ask[c] THEN receipt[Ask[c].key] ELSE "different")
  BY <1>2, ReceiptStep
<1>3. CASE /\ task[Ask[c].task] = "running" /\ receipt[Ask[c].key] = None
           /\ result[Ask[c].task] = None /\ Proceed(c, "action")
  <2>1. \A d \in Calls : ~Updates(d, Ask[c].task) /\ ~Shares(d, Ask[c].task)
    BY DEF UpdateFree
  <2>2. Fits(c) /\ Kindly(c, pc'[c])
    BY <1>3, <2>1, RowIsKey, Knows, ProceedStep DEF Fits, Kindly, Past, Sessions
  <2> QED BY <1>3, <2>2, ProceedStep, OwnStep
<1> QED BY <1>1, <1>2, <1>3

LEMMA LockQuestionsStep ==
  ASSUME IInv, NEW c \in Calls, LockQuestions(c)
  PROVE  IInv'
<1> USE DEF LockQuestions
<1>1. CASE Return(c, "unsettled") \/ Return(c, "conflict")
  BY <1>1, ReturnStep DEF Answers
<1>2. CASE receipt[Ask[c].key] # None /\
           Return(c, IF Ask[receipt[Ask[c].key]] = Ask[c] THEN receipt[Ask[c].key] ELSE "different")
  BY <1>2, ReceiptStep
<1>3. CASE receipt[Ask[c].key] = None /\ task[Ask[c].task] = "asking" /\ Proceed(c, "action")
  <2>1. Fits(c) /\ Kindly(c, pc'[c])
    BY <1>3, Knows, ProceedStep DEF KeyFree, Fits, Kindly, Past, Sessions
  <2> QED BY <1>3, <2>1, ProceedStep, OwnStep
<1> QED BY <1>1, <1>2, <1>3
-----------------------------------------------------------------------------
(* Steps that commit.                                                      *)

\* What every commit does to keys and statements.
LEMMA CommitKeys ==
  ASSUME IInv, NEW c \in Calls, pc[c] \in Keyed, Goto(c, "committed"), UNCHANGED <<saw, told>>,
         receipt' = [receipt EXCEPT ![Ask[c].key] = c]
  PROVE  /\ OneOperation' /\ OfItsKind' /\ Others(c) /\ pc'[c] = "committed"
         /\ receipt' \in [Keys -> Calls \cup {None}] /\ receipt'[Ask[c].key] = c
         /\ pc' \in [Calls -> Statements]
         /\ \A k \in Keys : receipt[k] # None => receipt'[k] = receipt[k]
<1> USE DEF Goto
<1>1. /\ Others(c) /\ pc'[c] = "committed" /\ pc' \in [Calls -> Statements]
      /\ receipt' \in [Keys -> Calls \cup {None}] /\ receipt'[Ask[c].key] = c
      /\ \A k \in Keys : k # Ask[c].key => receipt'[k] = receipt[k]
  BY Asked DEF IInv, TypeOK, Others
<1>2. receipt[Ask[c].key] = None
  BY Knows
<1>3. ASSUME NEW e \in Calls, pc'[e] \in Keyed
      PROVE  /\ receipt'[Ask[e].key] = None
             /\ \A d \in Calls \ {e} : Ask[d].key = Ask[e].key => pc'[d] \notin Keyed
  <2>1. e # c /\ pc[e] \in Keyed
    BY <1>1, <1>3 DEF Others
  <2>2. Ask[e].key # Ask[c].key
    BY <2>1, Knows
  <2> QED BY <1>1, <2>1, <2>2, Asked DEF IInv, OneOperation, Others
<1>4. \A k \in Keys : receipt'[k] # None => Ask[receipt'[k]].key = k /\ pc'[receipt'[k]] \in Past
  <2> TAKE k \in Keys
  <2>1. CASE k = Ask[c].key
    BY <1>1, <2>1 DEF Past
  <2>2. CASE k # Ask[c].key
    <3>1. receipt[k] # None => receipt[k] \in Calls /\ Ask[receipt[k]].key = k /\ pc[receipt[k]] \in Past
      BY DEF IInv, TypeOK, OneOperation, Past
    <3> QED BY <1>1, <2>2, <3>1 DEF Others, Past
  <2> QED BY <2>1, <2>2
<1>5. \A d \in Calls : /\ pc'[d] = "committed" => receipt'[Ask[d].key] = d
                       /\ told'[d] = None <=> pc'[d] # "done"
  <2> TAKE d \in Calls
  <2>1. CASE d = c
    BY <1>1, <2>1, Knows
  <2>2. CASE d # c
    <3>1. pc'[d] = pc[d] /\ told'[d] = told[d]
      BY <1>1, <2>2 DEF Others
    <3>2. pc[d] = "committed" => receipt'[Ask[d].key] = d
      BY <1>1, <1>2, Knows, Asked
    <3> QED BY <3>1, <3>2 DEF IInv, OneOperation
  <2> QED BY <2>1, <2>2
<1>6. OneOperation'
  BY <1>3, <1>4, <1>5 DEF OneOperation, Past
<1>7. OfItsKind'
  BY <1>1 DEF IInv, OfItsKind, Others
<1> QED BY <1>1, <1>2, <1>6, <1>7

LEMMA ChangeIntentStep ==
  ASSUME IInv, NEW c \in Calls, ChangeIntent(c)
  PROVE  IInv'
<1> USE DEF ChangeIntent
<1> DEFINE i == Ask[c].intent
<1>1. /\ OneOperation' /\ OfItsKind' /\ Others(c) /\ pc'[c] = "committed"
      /\ receipt' \in [Keys -> Calls \cup {None}] /\ pc' \in [Calls -> Statements]
      /\ \A k \in Keys : receipt[k] # None => receipt'[k] = receipt[k]
  BY CommitKeys
<1>2. /\ i \in Intents /\ revision \in [Intents -> Nat] /\ revision'[i] = revision[i] + 1
      /\ \A j \in Intents \ {i} : revision'[j] = revision[j]
      /\ \A j \in open : j # i => j \in open'
  BY Asked DEF IInv, TypeOK
<1>3. TypeOK'
  BY <1>1, <1>2 DEF IInv, TypeOK
<1>4. \A d \in Calls \ {c} : ~HoldsIntent(d, i)
  BY Knows DEF Kindly
<1>5. IntentIsHeld'
  <2> SUFFICES ASSUME NEW e \in Calls
               PROVE  /\ HoldsIntent(e, Ask[e].intent)' =>
                           /\ Ask[e].intent \in open'
                           /\ \A d \in Calls \ {e} : ~HoldsIntent(d, Ask[e].intent)'
                      /\ pc'[e] = "change" => revision'[Ask[e].intent] = Ask[e].revision
    BY DEF IntentIsHeld
  <2>1. HoldsIntent(e, Ask[e].intent)' => e # c /\ HoldsIntent(e, Ask[e].intent) /\ Ask[e].intent # i
    BY <1>1, <1>4 DEF HoldsIntent, Others
  <2>2. pc'[e] = "change" => HoldsIntent(e, Ask[e].intent)'
    BY <1>1 DEF HoldsIntent, OfItsKind
  <2>3. \A d \in Calls : HoldsIntent(d, Ask[e].intent)' => HoldsIntent(d, Ask[e].intent)
    BY <1>1 DEF HoldsIntent, Others
  <2> QED BY <1>1, <1>2, <2>1, <2>2, <2>3, Asked DEF IInv, IntentIsHeld, Others
<1>6. \A d \in Calls : Active(d)' = Active(d)
  BY DEF Active
<1>7. SourceIsHeld' /\ LooksAtItsSubject' /\ OneTask'
  BY <1>1, <1>6 DEF IInv, SourceIsHeld, LooksAtItsSubject, OneTask, Updates, Shares, Others
<1>8. Accepted'
  <2> SUFFICES ASSUME NEW e \in Calls, task[e] # "none"
               PROVE  /\ snapshot[e] # None /\ snapshot[e].revision \leq revision'[snapshot[e].intent]
                      /\ receipt'[Ask[e].key] = e /\ Ask[e].kind \in {"request", "lateral"}
    BY DEF Accepted
  <2>1. /\ snapshot[e] # None /\ snapshot[e].revision \leq revision[snapshot[e].intent]
        /\ receipt[Ask[e].key] = e /\ Ask[e].kind \in {"request", "lateral"}
    BY DEF IInv, Accepted
  <2>2. snapshot[e].intent \in Intents /\ snapshot[e].revision \in Nat
    BY <2>1 DEF IInv, TypeOK
  <2> QED BY <1>1, <1>2, <2>1, <2>2, Asked
<1> QED BY <1>1, <1>3, <1>5, <1>7, <1>8 DEF IInv

\* A created task is alone with its subject, and nobody's source yet.
LEMMA CreateStep ==
  ASSUME IInv, NEW c \in Calls, NEW w \in [intent : Intents, revision : Nat],
         pc[c] \in Keyed, Goto(c, "committed"), UNCHANGED <<open, revision, result, saw, told>>,
         receipt' = [receipt EXCEPT ![Ask[c].key] = c],
         task' = [task EXCEPT ![c] = "queued"], snapshot' = [snapshot EXCEPT ![c] = w],
         w.revision \leq revision[w.intent], Ask[c].kind \in {"request", "lateral"},
         Active(c) = {},
         \A d \in Calls \ {c} : Ask[d].subject = Ask[c].subject =>
           /\ pc[d] # "inserted"
           /\ Ask[d].kind = "lateral" => pc[d] \notin {"lock", "action"}
  PROVE  IInv'
<1>1. /\ OneOperation' /\ OfItsKind' /\ Others(c) /\ pc'[c] = "committed"
      /\ receipt' \in [Keys -> Calls \cup {None}] /\ pc' \in [Calls -> Statements]
      /\ receipt'[Ask[c].key] = c
      /\ \A k \in Keys : receipt[k] # None => receipt'[k] = receipt[k]
  BY CommitKeys
<1>2. TypeOK'
  BY <1>1 DEF IInv, TypeOK
<1>3. /\ task[c] = "none" /\ task'[c] = "queued" /\ snapshot'[c] = w
      /\ \A d \in Calls \ {c} : task'[d] = task[d] /\ snapshot'[d] = snapshot[d]
  BY Knows DEF IInv, TypeOK, Past
<1>4. \A d \in Calls : Active(d)' = IF Ask[d].subject = Ask[c].subject THEN Active(d) \cup {c} ELSE Active(d)
  BY <1>3 DEF Active
<1>5. \A d \in Calls : Ask[d].subject = Ask[c].subject => Active(d) = {}
  BY DEF Active
<1>6. IntentIsHeld'
  BY <1>1 DEF IInv, IntentIsHeld, HoldsIntent, Others
<1>7. SourceIsHeld'
  <2> SUFFICES ASSUME NEW e \in Calls
               PROVE  /\ pc'[e] = "source" => task'[Ask[e].task] \notin {"none", "queued"}
                      /\ Updates(e, Ask[e].task)' =>
                           /\ task'[Ask[e].task] = "running"
                           /\ Ask[e].kind = "output" <=> result[Ask[e].task] = None
                           /\ \A d \in Calls \ {e} : ~Updates(d, Ask[e].task)' /\ ~Shares(d, Ask[e].task)'
                      /\ Ask[e].kind = "answer" /\ pc'[e] \in Keyed => task'[Ask[e].task] = "asking"
    BY DEF SourceIsHeld
  <2>1. CASE e = c
    BY <1>1, <2>1 DEF Updates
  <2>2. CASE e # c
    <3>1. pc'[e] = pc[e] /\ (Updates(e, Ask[e].task)' => Updates(e, Ask[e].task))
      BY <1>1, <2>2 DEF Updates, Others
    <3>2. \A d \in Calls : /\ Updates(d, Ask[e].task)' => Updates(d, Ask[e].task)
                           /\ Shares(d, Ask[e].task)' => Shares(d, Ask[e].task)
      BY <1>1 DEF Updates, Shares, Others
    <3>3. task[Ask[e].task] # "none" => task'[Ask[e].task] = task[Ask[e].task]
      BY <1>3, Asked
    <3> QED BY <3>1, <3>2, <3>3 DEF IInv, SourceIsHeld
  <2> QED BY <2>1, <2>2
<1>8. LooksAtItsSubject'
  BY <1>1, <1>4 DEF IInv, LooksAtItsSubject, Others
<1>9. OneTask'
  <2> SUFFICES ASSUME NEW e \in Calls
               PROVE  /\ task'[e] \in {"queued", "running"} => Active(e)' = {e}
                      /\ pc'[e] = "inserted" =>
                           /\ Active(e)' = {}
                           /\ \A d \in Calls \ {e} : pc'[d] = "inserted" => Ask[d].subject # Ask[e].subject
                      /\ Ask[e].kind = "lateral" /\ pc'[e] = "lock" => Active(e)' \subseteq {saw'[e]}
                      /\ Ask[e].kind = "lateral" /\ pc'[e] = "action" => Active(e)' = {}
    BY DEF OneTask
  <2>1. CASE e = c
    BY <1>1, <1>3, <1>4, <2>1
  <2>2. CASE e # c
    <3>1. pc'[e] = pc[e] /\ task'[e] = task[e] /\ saw'[e] = saw[e]
      BY <1>1, <1>3, <2>2 DEF Others
    <3>2. pc'[e] = "inserted" =>
            \A d \in Calls \ {e} : pc'[d] = "inserted" => Ask[d].subject # Ask[e].subject
      BY <1>1, <2>2 DEF IInv, OneTask, Others
    <3>3. CASE Ask[e].subject = Ask[c].subject
      <4>1. task[e] \notin {"queued", "running"}
        BY <1>5, <3>3 DEF Active
      <4> QED BY <2>2, <3>1, <3>3, <4>1
    <3>4. CASE Ask[e].subject # Ask[c].subject
      BY <1>4, <3>1, <3>2, <3>4 DEF IInv, OneTask
    <3> QED BY <3>3, <3>4
  <2> QED BY <2>1, <2>2
<1>10. Accepted'
  <2> SUFFICES ASSUME NEW e \in Calls, task'[e] # "none"
               PROVE  /\ snapshot'[e] # None /\ snapshot'[e].revision \leq revision[snapshot'[e].intent]
                      /\ receipt'[Ask[e].key] = e /\ Ask[e].kind \in {"request", "lateral"}
    BY DEF Accepted
  <2>1. CASE e = c
    <3>1. w # None
      BY AskAssumption
    <3> QED BY <1>1, <1>3, <2>1, <3>1
  <2>2. CASE e # c
    BY <1>1, <1>3, <2>2, Asked DEF IInv, Accepted
  <2> QED BY <2>1, <2>2
<1> QED BY <1>1, <1>2, <1>6, <1>7, <1>8, <1>9, <1>10 DEF IInv

LEMMA CommitRequestStep ==
  ASSUME IInv, NEW c \in Calls, CommitRequest(c)
  PROVE  IInv'
<1> USE DEF CommitRequest
<1> DEFINE w == [intent |-> Ask[c].intent, revision |-> revision[Ask[c].intent]]
<1>1. Ask[c].kind = "request" /\ pc[c] = "inserted"
  BY Knows DEF Kindly
<1>2. w \in [intent : Intents, revision : Nat] /\ w.revision \leq revision[w.intent]
  BY Asked DEF IInv, TypeOK
<1>3. \A d \in Calls \ {c} : Ask[d].subject = Ask[c].subject => pc[d] # "inserted" /\ Ask[d].kind # "lateral"
  BY <1>1, Knows, AskAssumption
<1>4. Active(c) = {}
  BY <1>1, Knows
<1> QED BY <1>1, <1>2, <1>3, <1>4, CreateStep

LEMMA CommitActionStep ==
  ASSUME IInv, NEW c \in Calls, CommitAction(c)
  PROVE  IInv'
<1> USE DEF CommitAction, HandOn, Produce, Resolve
<1> DEFINE t == Ask[c].task
<1>1. /\ OneOperation' /\ OfItsKind' /\ Others(c) /\ pc'[c] = "committed"
      /\ receipt' \in [Keys -> Calls \cup {None}] /\ pc' \in [Calls -> Statements]
      /\ \A k \in Keys : receipt[k] # None => receipt'[k] = receipt[k]
  BY CommitKeys
<1>2. t \in Calls /\ pc[c] = "action"
  BY Asked
<1>3. CASE Ask[c].kind = "lateral"
  <2> DEFINE w == snapshot[t]
  <2>1. task[t] = "running" /\ Active(c) = {}
        /\ \A d \in Calls \ {c} : ~Updates(d, t)
    BY <1>2, <1>3, Knows DEF Sessions
  <2>2. w # None /\ w.revision \leq revision[w.intent]
    BY <1>2, <2>1 DEF IInv, Accepted
  <2>3. w \in [intent : Intents, revision : Nat]
    BY <1>2, <2>2 DEF IInv, TypeOK
  <2>4. \A d \in Calls \ {c} : Ask[d].subject = Ask[c].subject =>
          /\ pc[d] # "inserted"
          /\ Ask[d].kind = "lateral" => pc[d] \notin {"lock", "action"}
    <3> TAKE d \in Calls \ {c}
    <3> HAVE Ask[d].subject = Ask[c].subject
    <3>1. Ask[d].kind # "request" /\ (Ask[d].kind = "lateral" => Ask[d].task = t)
      BY <1>3, AskAssumption
    <3>2. pc[d] # "inserted"
      BY <3>1, Knows DEF Kindly
    <3>3. Ask[d].kind = "lateral" => pc[d] \notin Keyed
      BY <2>1, <3>1 DEF Updates
    <3> QED BY <3>2, <3>3
  <2>5. task' = [task EXCEPT ![c] = "queued"] /\ snapshot' = [snapshot EXCEPT ![c] = w]
        /\ UNCHANGED <<open, revision, result, saw, told>>
    BY <1>3
  <2> HIDE DEF w
  <2> QED BY <1>2, <1>3, <2>1, <2>2, <2>3, <2>4, <2>5, CreateStep
<1>4. CASE Ask[c].kind # "lateral"
  <2>1. UNCHANGED <<open, revision, task, snapshot, saw, told>>
    BY <1>4
  <2>2. \A d \in Calls : Active(d)' = Active(d)
    BY <2>1 DEF Active
  <2>3. TypeOK'
    BY <1>1, <1>2, <2>1 DEF IInv, TypeOK
  <2>4. IntentIsHeld' /\ LooksAtItsSubject' /\ OneTask' /\ Accepted'
    BY <1>1, <2>1, <2>2, Asked DEF IInv, IntentIsHeld, HoldsIntent, LooksAtItsSubject, OneTask, Accepted, Others
  <2>5. SourceIsHeld'
    <3> SUFFICES ASSUME NEW e \in Calls
                 PROVE  /\ pc'[e] = "source" => task[Ask[e].task] \notin {"none", "queued"}
                        /\ Updates(e, Ask[e].task)' =>
                             /\ task[Ask[e].task] = "running"
                             /\ Ask[e].kind = "output" <=> result'[Ask[e].task] = None
                             /\ \A d \in Calls \ {e} : ~Updates(d, Ask[e].task)' /\ ~Shares(d, Ask[e].task)'
                        /\ Ask[e].kind = "answer" /\ pc'[e] \in Keyed => task[Ask[e].task] = "asking"
      BY <2>1 DEF SourceIsHeld
    <3>1. CASE e = c
      BY <1>1, <3>1 DEF Updates
    <3>2. CASE e # c
      <4>1. pc'[e] = pc[e] /\ (Updates(e, Ask[e].task)' => Updates(e, Ask[e].task))
        BY <1>1, <3>2 DEF Updates, Others
      <4>2. \A d \in Calls : /\ Updates(d, Ask[e].task)' => Updates(d, Ask[e].task)
                             /\ Shares(d, Ask[e].task)' => Shares(d, Ask[e].task)
        BY <1>1, <2>1 DEF Updates, Shares, Others
      <4>3. Updates(e, Ask[e].task) => result'[Ask[e].task] = result[Ask[e].task]
        <5>1. CASE Ask[c].kind = "output"
          <6>1. Updates(c, t)
            BY <1>2, <5>1 DEF Updates
          <6>2. Updates(e, Ask[e].task) => Ask[e].task # t
            BY <1>2, <3>2, <6>1, Knows, <5>1 DEF Sessions
          <6> QED BY <1>2, <5>1, <6>2, Asked DEF IInv, TypeOK
        <5>2. CASE Ask[c].kind = "answer"
          BY <5>2
        <5> QED BY <1>2, <1>4, <5>1, <5>2, Knows DEF Kindly
      <4> QED BY <4>1, <4>2, <4>3 DEF IInv, SourceIsHeld
    <3> QED BY <3>1, <3>2
  <2> QED BY <1>1, <2>3, <2>4, <2>5 DEF IInv
<1> QED BY <1>3, <1>4

\* The lanes take tasks whose rows are free.
LEMMA LaneStep ==
  ASSUME IInv, NEW t \in Calls, UpdateFree(t), NEW after \in {"running", "asking", "ended"},
         IF after = "running" THEN task[t] = "queued" ELSE task[t] \in {"queued", "running"},
         task' = [task EXCEPT ![t] = after],
         UNCHANGED <<open, revision, snapshot, result, receipt, pc, saw, told>>
  PROVE  IInv'
<1>1. task[t] \in {"queued", "running"} /\ task'[t] = after /\ \A d \in Calls \ {t} : task'[d] = task[d]
  BY DEF IInv, TypeOK
<1>2. TypeOK'
  BY DEF IInv, TypeOK
<1>3. OneOperation' /\ IntentIsHeld' /\ OfItsKind' /\ Accepted'
  BY <1>1 DEF IInv, OneOperation, IntentIsHeld, HoldsIntent, OfItsKind, Accepted
<1>4. \A d \in Calls : Active(d)' = IF after = "running" THEN Active(d) ELSE Active(d) \ {t}
  BY <1>1 DEF Active
<1>5. \A d \in Calls : ~Updates(d, t) /\ ~Shares(d, t)
  BY DEF UpdateFree
<1>6. SourceIsHeld'
  <2> SUFFICES ASSUME NEW e \in Calls
               PROVE  /\ pc[e] = "source" => task'[Ask[e].task] \notin {"none", "queued"}
                      /\ Updates(e, Ask[e].task) => task'[Ask[e].task] = "running"
                      /\ Ask[e].kind = "answer" /\ pc[e] \in Keyed => task'[Ask[e].task] = "asking"
    BY DEF IInv, SourceIsHeld, Updates, Shares
  <2>1. CASE Ask[e].task = t
    BY <1>1, <1>5, <2>1, Knows DEF Shares, Updates
  <2>2. CASE Ask[e].task # t
    BY <1>1, <2>2, Asked DEF IInv, SourceIsHeld
  <2> QED BY <2>1, <2>2
<1>7. LooksAtItsSubject'
  <2>1. \A e \in Calls : pc[e] = "observed" => saw[e] # t
    BY <1>5 DEF Shares
  <2> QED BY <1>4, <2>1 DEF IInv, LooksAtItsSubject
<1>8. OneTask'
  <2> SUFFICES ASSUME NEW e \in Calls
               PROVE  /\ task'[e] \in {"queued", "running"} => Active(e)' = {e}
                      /\ pc[e] = "inserted" => Active(e)' = {}
                      /\ Ask[e].kind = "lateral" /\ pc[e] = "lock" => Active(e)' \subseteq {saw[e]}
                      /\ Ask[e].kind = "lateral" /\ pc[e] = "action" => Active(e)' = {}
    BY DEF IInv, OneTask
  <2>1. task'[e] \in {"queued", "running"} => Active(e) = {e} /\ (after # "running" => e # t)
    BY <1>1 DEF IInv, OneTask
  <2> QED BY <1>4, <2>1 DEF IInv, OneTask
<1> QED BY <1>2, <1>3, <1>6, <1>7, <1>8 DEF IInv

LEMMA NextStep ==
  ASSUME IInv, [Next]_vars
  PROVE  IInv'
<1>1. ASSUME NEW c \in Calls, AnswerReceipt(c) \/ Fail(c)
      PROVE  IInv'
  BY <1>1, ReturnStep DEF AnswerReceipt, Fail, Answers
<1>2. ASSUME NEW c \in Calls, AnswerObserved(c)
      PROVE  IInv'
  <2>1. saw[c] \in Calls
    BY <1>2, Knows DEF AnswerObserved, Active
  <2> QED BY <1>2, <2>1, ReturnStep DEF AnswerObserved
<1>3. ASSUME NEW c \in Calls, Statement(c)
      PROVE  IInv'
  BY <1>1, <1>2, <1>3, IntentSteps, ObserveStep, LockObservedStep, InsertStep, EnterStep, LockSourceStep,
     LockProducingStep, LockQuestionsStep, ChangeIntentStep, CommitRequestStep, CommitActionStep DEF Statement
<1>4. ASSUME NEW t \in Calls, BindTaskSession(t) \/ Settle(t) \/ FailDelivery(t)
      PROVE  IInv'
  <2>1. CASE BindTaskSession(t)
    BY <2>1, LaneStep DEF BindTaskSession
  <2>2. CASE Settle(t)
    <3>1. PICK end \in {"asking", "ended"} : task' = [task EXCEPT ![t] = end]
      BY <2>2 DEF Settle
    <3> QED BY <2>2, <3>1, LaneStep DEF Settle
  <2>3. CASE FailDelivery(t)
    BY <2>3, LaneStep DEF FailDelivery
  <2> QED BY <1>4, <2>1, <2>2, <2>3
<1>5. CASE UNCHANGED vars
  BY <1>5 DEF vars, IInv, TypeOK, OneOperation, IntentIsHeld, HoldsIntent, SourceIsHeld, Updates, Shares,
     LooksAtItsSubject, OneTask, Accepted, OfItsKind, Active
<1> QED BY <1>3, <1>4, <1>5 DEF Next

LEMMA InitHolds ==
  ASSUME Init
  PROVE  IInv
<1> USE DEF Init
<1>1. TypeOK
  BY DEF TypeOK
<1>2. OneOperation /\ IntentIsHeld /\ SourceIsHeld /\ LooksAtItsSubject /\ OneTask /\ Accepted /\ OfItsKind
  BY Asked DEF OneOperation, IntentIsHeld, HoldsIntent, SourceIsHeld, Updates, LooksAtItsSubject, OneTask,
     Accepted, OfItsKind
<1> QED BY <1>1, <1>2 DEF IInv
-----------------------------------------------------------------------------
(* The theorems.                                                           *)

\* One operation per key, one active task per identity, Intents and sources
\* held while work is created from them, and what tasks carry was so.
THEOREM InductiveInvariant == Spec => []IInv
<1>1. Init => IInv
  BY InitHolds
<1>2. IInv /\ [Next]_vars => IInv'
  BY NextStep
<1> QED BY <1>1, <1>2, PTL DEF Spec, IInv

\* In a set of calls that wait for each other, nobody is past its waits.
LEMMA Waiters ==
  ASSUME IInv, NEW c \in Calls, NEW d \in Calls, WaitsFor(c, d)
  PROVE  /\ pc[c] \in {"source", "lock", "relock", "intent", "action", "insert"}
         /\ pc[d] \in Keyed
BY DEF WaitsFor, Updates, Shares, HoldsIntent

\* A cycle of waits goes through a request that looks at a task, and
\* through requests and sessions only.
LEMMA Deadlocks ==
  ASSUME IInv
  PROVE  DeadlocksAreKnown
<1> SUFFICES ASSUME NEW D \in SUBSET Waiting, Deadlock(D)
             PROVE  /\ \E c \in D : Ask[c].kind = "request" /\ pc[c] \in {"lock", "relock"}
                    /\ \A c \in D : Ask[c].kind \in {"request", "lateral", "output"}
  BY DEF DeadlocksAreKnown
<1>1. /\ D \subseteq Calls /\ D # {}
      /\ \A c \in D : (\E d \in D : WaitsFor(c, d)) /\ (\E d \in D : WaitsFor(d, c))
  BY DEF Deadlock, Waiting
<1>2. \A c \in D : pc[c] \in {"lock", "relock", "intent", "action", "insert"} /\ pc[c] \in Keyed
  BY <1>1, Waiters
<1>3. \A c \in D : pc[c] # "insert"
  BY <1>1, <1>2 DEF WaitsFor, Updates, Shares, HoldsIntent
<1>4. \A c \in D : Kindly(c, pc[c])
  BY <1>1, Knows
<1>5. \E c \in D : Ask[c].kind = "request" /\ pc[c] \in {"lock", "relock"}
  <2> SUFFICES ASSUME \A c \in D : Ask[c].kind = "request" => pc[c] \notin {"lock", "relock"}
               PROVE  FALSE
    OBVIOUS
  <2>1. \A d \in D : Ask[d].kind \in {"request"} \cup Changes => pc[d] = "intent"
    BY <1>2, <1>3, <1>4 DEF Kindly
  <2>2. \A c \in D : pc[c] = "lock" /\ Ask[c].kind = "lateral"
    <3> SUFFICES ASSUME NEW c \in D
                 PROVE  pc[c] = "lock" /\ Ask[c].kind = "lateral"
      OBVIOUS
    <3>1. pc[c] \notin {"intent", "action"}
      BY <1>1, <2>1 DEF WaitsFor, HoldsIntent
    <3> QED BY <1>2, <1>3, <1>4, <3>1 DEF Kindly
  <2>3. PICK c \in D, d \in D : WaitsFor(c, d)
    BY <1>1
  <2>4. Updates(d, saw[c])
    BY <2>2, <2>3 DEF WaitsFor
  <2>5. /\ Ask[c].kind = "lateral" /\ Ask[d].kind = "lateral" /\ Ask[d].task = saw[c]
        /\ saw[c] \in Calls /\ Ask[saw[c]].subject = Ask[c].subject
    BY <1>1, <2>2, <2>4, Knows DEF Updates
  <2>6. c \in Calls /\ d \in Calls
    BY <1>1
  <2>7. Ask[Ask[d].task].kind = "request"
    BY <2>5, <2>6, AskAssumption
  <2>8. Ask[saw[c]].kind # "request"
    BY <2>5, <2>6, AskAssumption
  <2> QED BY <2>5, <2>7, <2>8
<1>6. ASSUME NEW c \in D
      PROVE  Ask[c].kind \in {"request", "lateral", "output"}
  <2>1. PICK d \in D : WaitsFor(d, c)
    BY <1>1
  <2>2. Ask[c].kind \notin Changes
    BY <1>2, <1>3, <1>4, <2>1 DEF Kindly, WaitsFor, Updates, Shares, HoldsIntent
  <2>3. Ask[c].kind # "answer"
    BY <1>2, <1>3, <1>4, <2>1 DEF Kindly, WaitsFor, Updates, Shares, HoldsIntent
  <2> QED BY <1>1, <2>2, <2>3, Asked DEF Kinds
<1> QED BY <1>5, <1>6

\* Members' changes of an Intent and answers to questions are never part of
\* a deadlock, and every deadlock has a specialist request in it.
THEOREM DeadlocksKnown == Spec => []DeadlocksAreKnown
<1>1. IInv => DeadlocksAreKnown
  BY Deadlocks DEF IInv
<1> QED BY <1>1, InductiveInvariant, PTL
-----------------------------------------------------------------------------
(* The statements implement WorkLedger.                                    *)

\* An end without writing is an answer of the promise.
LEMMA AnswerStep ==
  ASSUME IInv, NEW c \in Calls, pc[c] # "done", NEW a, Return(c, a)
  PROVE  Promise!Answer(c, a)
BY Knows DEF Return, Promise!Answer, Promise!tasks

LEMMA ReceiptAnswer ==
  ASSUME IInv, NEW c \in Calls, pc[c] # "done", receipt[Ask[c].key] # None,
         Return(c, IF Ask[receipt[Ask[c].key]] = Ask[c] THEN receipt[Ask[c].key] ELSE "different")
  PROVE  Promise!Receipt(c)
BY AnswerStep DEF Promise!Receipt

LEMMA ActiveIs ==
  ASSUME NEW c \in Calls
  PROVE  Promise!ActiveOf(Ask[c].subject) = Active(c)
BY DEF Promise!ActiveOf, Active

LEMMA StatementStep ==
  ASSUME IInv, NEW c \in Calls, Statement(c)
  PROVE  [Promise!Next]_(Promise!vars)
<1> USE DEF Promise!vars, Promise!tasks
<1>1. \A p \in Statements : Proceed(c, p) => UNCHANGED Promise!vars
  BY DEF Proceed
<1>2. pc[c] # "done"
  BY DEF Statement, ReadReceipt, LockIntent, ChangeIntent, Observe, LockObserved, AnswerObserved, Insert,
     CommitRequest, Enter, LockSource, LockProducing, LockQuestions, CommitAction, HandOn, Produce, Resolve, AnswerReceipt, Fail, InFlight
<1>3. ASSUME Promise!Receipt(c) \/ Promise!Refuse(c) \/ Promise!Observe(c)
      PROVE  [Promise!Next]_(Promise!vars)
  BY <1>3 DEF Promise!Next
<1>4. CASE ReadReceipt(c)
  BY <1>1, <1>2, <1>3, <1>4, ReceiptAnswer DEF ReadReceipt
<1>5. CASE LockIntent(c)
  BY <1>1, <1>2, <1>3, <1>5, AnswerStep DEF LockIntent, Promise!Refuse
<1>6. CASE ChangeIntent(c)
  <2>1. /\ Ask[c].kind \in Changes /\ pc[c] = "change" /\ receipt[Ask[c].key] = None
        /\ Ask[c].intent \in open /\ revision[Ask[c].intent] = Ask[c].revision
    BY <1>6, Knows DEF ChangeIntent, Kindly
  <2> QED BY <1>6, <2>1 DEF ChangeIntent, Promise!Next, Promise!Advance, Promise!First
<1>7. ASSUME pc[c] \in {"observe", "lock", "again", "relock"}, Unobserved(c)
      PROVE  [Promise!Next]_(Promise!vars)
  <2>1. CASE Return(c, "conflict") /\ pc[c] \in {"again", "relock"}
    BY <1>2, <1>3, <2>1, AnswerStep, Knows DEF Kindly, Promise!Refuse
  <2> QED BY <1>1, <1>7, <2>1 DEF Unobserved
<1>8. CASE Observe(c) \/ LockObserved(c)
  BY <1>1, <1>7, <1>8 DEF Observe, LockObserved
<1>9. CASE AnswerObserved(c)
  <2>1. saw[c] \in Active(c)
    BY <1>9, Knows DEF AnswerObserved
  <2> QED BY <1>2, <1>3, <1>9, <2>1, AnswerStep, ActiveIs DEF AnswerObserved, Promise!Observe
<1>10. CASE Insert(c) \/ Enter(c)
  BY <1>1, <1>10 DEF Insert, Enter
<1>11. CASE CommitRequest(c)
  <2>1. /\ Ask[c].kind = "request" /\ receipt[Ask[c].key] = None /\ Active(c) = {}
        /\ Ask[c].intent \in open
    BY <1>11, Knows DEF CommitRequest, Kindly
  <2> QED BY <1>11, <2>1, ActiveIs DEF CommitRequest, Promise!Next, Promise!Request, Promise!Create, Promise!First
<1>12. CASE LockSource(c)
  BY <1>1, <1>2, <1>3, <1>12, AnswerStep, ReceiptAnswer DEF LockSource, Promise!Refuse
<1>13. CASE LockProducing(c)
  BY <1>1, <1>2, <1>3, <1>13, AnswerStep, ReceiptAnswer DEF LockProducing, Promise!Refuse
<1>14. CASE LockQuestions(c)
  BY <1>1, <1>2, <1>3, <1>14, AnswerStep, ReceiptAnswer DEF LockQuestions, Promise!Refuse
<1>15. CASE CommitAction(c)
  <2>1. pc[c] = "action" /\ receipt[Ask[c].key] = None
    BY <1>15, Knows DEF CommitAction, HandOn, Produce, Resolve
  <2>2. CASE Ask[c].kind = "lateral"
    <3>1. task[Ask[c].task] = "running" /\ Active(c) = {} /\ result[Ask[c].task] # None
      BY <2>1, <2>2, Knows DEF Sessions
    <3> QED BY <1>15, <2>1, <2>2, <3>1, ActiveIs DEF CommitAction, HandOn, Produce, Resolve, Promise!Next, Promise!HandOn, Promise!Create, Promise!First
  <2>3. CASE Ask[c].kind = "output"
    <3>1. task[Ask[c].task] = "running" /\ result[Ask[c].task] = None
      BY <2>1, <2>3, Knows DEF Sessions
    <3> QED BY <1>15, <2>1, <2>3, <3>1 DEF CommitAction, HandOn, Produce, Resolve, Promise!Next, Promise!Produce, Promise!First
  <2>4. CASE Ask[c].kind = "answer"
    <3>1. task[Ask[c].task] = "asking"
      BY <2>1, <2>4, Knows
    <3> QED BY <1>15, <2>1, <2>4, <3>1 DEF CommitAction, HandOn, Produce, Resolve, Promise!Next, Promise!Resolve, Promise!First
  <2> QED BY <1>15, <2>2, <2>3, <2>4 DEF CommitAction, HandOn, Produce, Resolve
<1>16. CASE AnswerReceipt(c)
  <2>1. receipt[Ask[c].key] = c /\ c # None
    BY <1>16, Knows, Asked DEF AnswerReceipt
  <2> QED BY <1>2, <1>3, <1>16, <2>1, AnswerStep DEF AnswerReceipt, Promise!Receipt
<1>17. CASE Fail(c)
  BY <1>2, <1>3, <1>17, AnswerStep DEF Fail, Promise!Refuse
<1> QED BY <1>4, <1>5, <1>6, <1>8, <1>9, <1>10, <1>11, <1>12, <1>13, <1>14, <1>15, <1>16, <1>17 DEF Statement

LEMMA StepKeeps ==
  ASSUME IInv, [Next]_vars
  PROVE  [Promise!Next]_(Promise!vars)
<1>1. ASSUME NEW t \in Calls, BindTaskSession(t) \/ Settle(t) \/ FailDelivery(t)
      PROVE  Promise!Next
  BY <1>1 DEF BindTaskSession, Settle, FailDelivery, Promise!Next, Promise!Start, Promise!Settle
<1>2. CASE UNCHANGED vars
  BY <1>2 DEF vars, Promise!vars, Promise!tasks
<1> QED BY <1>1, <1>2, StatementStep DEF Next

\* Work is created, handed on, produced and observed as if at once.
THEOREM RefinesWorkLedger == Spec => ImplementsWorkLedger
<1>1. Init => Promise!Init
  BY DEF Init, Promise!Init
<1>2. IInv /\ [Next]_vars => [Promise!Next]_(Promise!vars)
  BY StepKeeps
<1> QED BY <1>1, <1>2, InductiveInvariant, PTL DEF Spec, IInv, ImplementsWorkLedger, Promise!Spec
-----------------------------------------------------------------------------
(* What follows from the promise.                                          *)

\* What an operation of the promise leaves as it was.
Kept ==
    /\ \A k \in Keys : receipt[k] # None => receipt'[k] = receipt[k]
    /\ \A t \in Calls : /\ task[t] # "none" => snapshot'[t] = snapshot[t] /\ task'[t] # "none"
                        /\ task[t] \in {"asking", "ended"} => task'[t] = task[t]
                        /\ result[t] # None => result'[t] = result[t]
    /\ \A i \in Intents : i \notin open => i \notin open' /\ revision'[i] = revision[i]
    /\ \A t \in Calls : task[t] = "none" /\ task'[t] # "none" /\ Ask[t].kind = "request" =>
         Ask[t].intent \in open

\* The operation that creates the task of c.
LEMMA PromiseCreates ==
  ASSUME TypeOK, Promise!WorkIsAsked, NEW c \in Calls, NEW work, Promise!Create(c, work),
         Ask[c].kind \in {"request", "lateral"},
         Ask[c].kind = "request" =>
           Ask[c].intent \in open /\ work = [intent |-> Ask[c].intent, revision |-> revision[Ask[c].intent]],
         Ask[c].kind = "lateral" =>
           task[Ask[c].task] = "running" /\ result[Ask[c].task] # None /\ work = snapshot[Ask[c].task],
         UNCHANGED <<open, revision, result, told>>
  PROVE  Promise!WorkIsAsked' /\ Kept
<1>1. /\ receipt[Ask[c].key] = None /\ receipt' = [receipt EXCEPT ![Ask[c].key] = c]
      /\ Promise!ActiveOf(Ask[c].subject) = {}
      /\ task' = [task EXCEPT ![c] = "queued"] /\ snapshot' = [snapshot EXCEPT ![c] = work]
  BY DEF Promise!Create, Promise!First
<1>2. task[c] = "none"
  BY Asked, <1>1 DEF Promise!WorkIsAsked, Promise!GoesBack
<1>3. /\ task'[c] = "queued" /\ snapshot'[c] = work /\ receipt'[Ask[c].key] = c
      /\ \A d \in Calls \ {c} : task'[d] = task[d] /\ snapshot'[d] = snapshot[d]
  BY <1>1, Asked DEF TypeOK
<1>4. \A k \in Keys : receipt[k] # None => receipt'[k] = receipt[k]
  BY <1>1, Asked DEF TypeOK
<1>5. Kept
  BY <1>2, <1>3, <1>4 DEF Kept
<1>6. Promise!OneActive'
  BY <1>1, <1>3 DEF Promise!ActiveOf, Promise!OneActive, Promise!WorkIsAsked
<1>7. ASSUME NEW t \in Calls, task'[t] # "none"
      PROVE  Promise!GoesBack(t)'
  <2>1. CASE t = c /\ Ask[c].kind = "request"
    <3>1. /\ Promise!Origin(c) = c /\ revision[Ask[c].intent] \in Nat
          /\ work \in [intent : Intents, revision : Nat] /\ work # None
      BY <2>1, Asked, AskAssumption DEF Promise!Origin, TypeOK
    <3> QED BY <1>3, <2>1, <3>1 DEF Promise!GoesBack
  <2>2. CASE t = c /\ Ask[c].kind = "lateral"
    <3>1. /\ Promise!Origin(c) = Ask[c].task /\ Ask[c].task \in Calls \ {c}
          /\ Promise!Origin(Ask[c].task) = Ask[c].task /\ Ask[Ask[c].task].kind = "request"
      BY <2>2, AskAssumption DEF Promise!Origin
    <3>2. task[Ask[c].task] # "none" /\ Promise!GoesBack(Ask[c].task)
      BY <2>2, <3>1 DEF Promise!WorkIsAsked
    <3> QED BY <1>3, <2>2, <3>1, <3>2 DEF Promise!GoesBack
  <2>3. CASE t # c
    <3>1. task[t] # "none" /\ Promise!GoesBack(t)
      BY <1>3, <1>7, <2>3 DEF Promise!WorkIsAsked
    <3>2. Promise!Origin(t) \in Calls \ {c}
      BY <1>2, <3>1, Asked DEF Promise!GoesBack, Promise!Origin
    <3>3. Ask[t].key \in Keys /\ t # None
      BY Asked
    <3> QED BY <1>3, <1>4, <2>3, <3>1, <3>2, <3>3 DEF Promise!GoesBack
  <2> QED BY <2>1, <2>2, <2>3
<1>8. ASSUME NEW t \in Calls, result[t] # None
      PROVE  Promise!Produced(t)'
  BY <1>2, <1>3, <1>4, <1>8, Asked DEF Promise!WorkIsAsked, Promise!Produced
<1>9. ASSUME NEW d \in Calls, told[d] \in Calls
      PROVE  Promise!ToldOf(d)'
  BY <1>3, <1>4, <1>9, Asked DEF Promise!WorkIsAsked, Promise!ToldOf
<1> QED BY <1>5, <1>6, <1>7, <1>8, <1>9 DEF Promise!WorkIsAsked

\* Every other operation, by what it leaves alone.
LEMMA PromiseGoesOn ==
  ASSUME TypeOK, Promise!WorkIsAsked, Kept, UNCHANGED snapshot,
         \A t \in Calls : task[t] = "none" => task'[t] = "none",
         \A t \in Calls : task'[t] \in {"queued", "running"} => task[t] \in {"queued", "running"},
         \A t \in Calls : task[t] \notin {"none", "queued"} => task'[t] \notin {"none", "queued"},
         \A i \in Intents : revision[i] \leq revision'[i] /\ revision'[i] \in Nat,
         \A t \in Calls : result'[t] # None => result'[t] = result[t] \/ Promise!Produced(t)',
         \A d \in Calls : told'[d] \in Calls => told'[d] = told[d] \/ Promise!ToldOf(d)'
  PROVE  Promise!WorkIsAsked'
<1>1. Promise!OneActive'
  BY DEF Promise!ActiveOf, Promise!OneActive, Promise!WorkIsAsked
<1>2. ASSUME NEW t \in Calls, task'[t] # "none"
      PROVE  Promise!GoesBack(t)'
  <2>1. task[t] # "none" /\ Promise!Origin(t) \in Calls
    BY <1>2, Asked DEF Promise!Origin
  <2>2. Promise!GoesBack(t)
    BY <2>1 DEF Promise!WorkIsAsked
  <2>3. Ask[Promise!Origin(t)].intent \in Intents /\ Ask[t].key \in Keys /\ t # None
    BY <2>1, Asked
  <2>4. snapshot[t].revision \in Nat /\ revision[Ask[Promise!Origin(t)].intent] \in Nat
    BY <2>2, <2>3 DEF TypeOK, Promise!GoesBack
  <2>5. snapshot[t].revision \leq revision'[Ask[Promise!Origin(t)].intent]
    <3>1. /\ snapshot[t].revision \leq revision[Ask[Promise!Origin(t)].intent]
          /\ revision[Ask[Promise!Origin(t)].intent] \leq revision'[Ask[Promise!Origin(t)].intent]
          /\ revision'[Ask[Promise!Origin(t)].intent] \in Nat
      BY <2>2, <2>3 DEF Promise!GoesBack
    <3> QED BY <2>4, <3>1
  <2>6. /\ receipt'[Ask[t].key] = t /\ task'[Promise!Origin(t)] # "none"
        /\ t # Promise!Origin(t) => result'[Promise!Origin(t)] # None
    BY <2>1, <2>2, <2>3 DEF Kept, Promise!GoesBack
  <2> QED BY <2>2, <2>5, <2>6 DEF Promise!GoesBack
<1>3. ASSUME NEW t \in Calls, result'[t] # None
      PROVE  Promise!Produced(t)'
  BY <1>3, Asked DEF Promise!WorkIsAsked, Promise!Produced, Kept
<1>4. ASSUME NEW d \in Calls, told'[d] \in Calls
      PROVE  Promise!ToldOf(d)'
  BY <1>4, Asked DEF Promise!WorkIsAsked, Promise!ToldOf, Kept
<1> QED BY <1>1, <1>2, <1>3, <1>4 DEF Promise!WorkIsAsked

LEMMA PromiseStep ==
  ASSUME TypeOK, Promise!WorkIsAsked, [Promise!Next]_(Promise!vars)
  PROVE  Promise!WorkIsAsked' /\ Kept
<1> USE DEF Promise!tasks
<1>1. CASE UNCHANGED Promise!vars
  BY <1>1, PromiseGoesOn DEF Promise!vars, Kept, TypeOK
<1>2. ASSUME NEW c \in Calls, Promise!Request(c) \/ Promise!HandOn(c)
      PROVE  Promise!WorkIsAsked' /\ Kept
  <2>1. CASE Promise!Request(c)
    BY <2>1, PromiseCreates DEF Promise!Request, Promise!Create
  <2>2. CASE Promise!HandOn(c)
    BY <2>2, PromiseCreates DEF Promise!HandOn, Promise!Create
  <2> QED BY <1>2, <2>1, <2>2
<1>3. \A i \in Intents : revision[i] \in Nat
  BY DEF TypeOK
<1>4. ASSUME NEW c \in Calls, Promise!First(c)
      PROVE  /\ receipt'[Ask[c].key] = c
             /\ \A k \in Keys : receipt[k] # None => receipt'[k] = receipt[k]
  BY <1>4, Asked DEF Promise!First, TypeOK
<1>5. ASSUME NEW c \in Calls, Promise!Produce(c)
      PROVE  Promise!WorkIsAsked' /\ Kept
  <2>1. /\ Ask[c].kind = "output" /\ task[Ask[c].task] = "running" /\ result[Ask[c].task] = None
        /\ receipt'[Ask[c].key] = c /\ result' = [result EXCEPT ![Ask[c].task] = c]
        /\ UNCHANGED <<open, revision, task, snapshot, told>>
    BY <1>4, <1>5 DEF Promise!Produce
  <2>2. \A t \in Calls : result'[t] = IF t = Ask[c].task THEN c ELSE result[t]
    BY <2>1 DEF TypeOK
  <2>3. Kept
    BY <1>4, <1>5, <2>1, <2>2 DEF Promise!Produce, Kept
  <2>4. \A t \in Calls : result'[t] # None => result'[t] = result[t] \/ Promise!Produced(t)'
    BY <2>1, <2>2 DEF Promise!Produced
  <2> QED BY <1>3, <2>1, <2>3, <2>4, PromiseGoesOn
<1>6. ASSUME NEW c \in Calls, Promise!Resolve(c)
      PROVE  Promise!WorkIsAsked' /\ Kept
  <2>1. Kept
    BY <1>4, <1>6 DEF Promise!Resolve, Kept
  <2> QED BY <1>3, <1>6, <2>1, PromiseGoesOn DEF Promise!Resolve
<1>7. ASSUME NEW c \in Calls, Promise!Advance(c)
      PROVE  Promise!WorkIsAsked' /\ Kept
  <2>1. /\ Ask[c].intent \in open /\ revision' = [revision EXCEPT ![Ask[c].intent] = @ + 1]
        /\ open' \subseteq open /\ UNCHANGED <<task, snapshot, result, told>>
    BY <1>7 DEF Promise!Advance
  <2>2. \A i \in Intents : revision'[i] = IF i = Ask[c].intent THEN revision[i] + 1 ELSE revision[i]
    BY <2>1 DEF TypeOK
  <2>3. \A i \in Intents : revision[i] \leq revision'[i] /\ revision'[i] \in Nat
    BY <1>3, <2>2
  <2>4. Kept
    BY <1>4, <1>7, <2>1, <2>2 DEF Promise!Advance, Kept
  <2> QED BY <2>1, <2>3, <2>4, PromiseGoesOn
<1>8. ASSUME NEW t \in Calls, Promise!Start(t) \/ Promise!Settle(t)
      PROVE  Promise!WorkIsAsked' /\ Kept
  <2>1. PICK after \in {"running", "asking", "ended"} :
          /\ task' = [task EXCEPT ![t] = after] /\ task[t] \in {"queued", "running"}
          /\ UNCHANGED <<open, revision, snapshot, result, receipt, told>>
    BY <1>8 DEF Promise!Start, Promise!Settle
  <2>2. \A d \in Calls : task'[d] = IF d = t THEN after ELSE task[d]
    BY <2>1 DEF TypeOK
  <2>3. Kept
    BY <2>1, <2>2 DEF Kept
  <2> QED BY <1>3, <2>1, <2>2, <2>3, PromiseGoesOn
<1>9. ASSUME NEW c \in Calls, NEW what, Promise!Answer(c, what),
             what \in Calls => \/ receipt[Ask[c].key] = what /\ Ask[what] = Ask[c]
                               \/ task[what] # "none" /\ Ask[what].subject = Ask[c].subject
      PROVE  Promise!WorkIsAsked' /\ Kept
  <2>1. told' = [told EXCEPT ![c] = what] /\ UNCHANGED <<open, revision, task, snapshot, result, receipt>>
    BY <1>9 DEF Promise!Answer
  <2>2. \A d \in Calls : told'[d] = IF d = c THEN what ELSE told[d]
    BY <2>1 DEF TypeOK
  <2>3. Kept
    BY <2>1 DEF Kept
  <2>4. \A d \in Calls : told'[d] \in Calls => told'[d] = told[d] \/ Promise!ToldOf(d)'
    BY <1>9, <2>1, <2>2 DEF Promise!ToldOf
  <2> QED BY <1>3, <2>1, <2>3, <2>4, PromiseGoesOn
<1>10. ASSUME NEW c \in Calls, Promise!Receipt(c) \/ Promise!Observe(c) \/ Promise!Refuse(c)
       PROVE  Promise!WorkIsAsked' /\ Kept
  <2>1. Answers \cap Calls = {}
    BY AskAssumption DEF Answers
  <2>2. CASE Promise!Receipt(c)
    <3>1. /\ receipt[Ask[c].key] # None
          /\ Promise!Answer(c, IF Ask[receipt[Ask[c].key]] = Ask[c] THEN receipt[Ask[c].key] ELSE "different")
      BY <2>2 DEF Promise!Receipt
    <3> QED BY <1>9, <2>1, <3>1 DEF Answers
  <2>3. CASE Promise!Observe(c)
    <3>1. PICK t \in Promise!ActiveOf(Ask[c].subject) : Promise!Answer(c, t)
      BY <2>3 DEF Promise!Observe
    <3> QED BY <1>9, <3>1 DEF Promise!ActiveOf
  <2>4. CASE Promise!Refuse(c)
    <3>1. PICK a \in Answers : Promise!Answer(c, a)
      BY <2>4 DEF Promise!Refuse, Answers
    <3> QED BY <1>9, <2>1, <3>1
  <2> QED BY <1>10, <2>2, <2>3, <2>4
<1> QED BY <1>1, <1>2, <1>5, <1>6, <1>7, <1>8, <1>10 DEF Promise!Next

\* However calls race, are repeated or fail, every task of a brand goes back to
\* one request, carries that request's Intent in a form it had, and is the only
\* active one of its subject; and who is told of work is told of what there is.
THEOREM WorkAlwaysAsked == Spec => []Promise!WorkIsAsked
<1>1. Init => Promise!WorkIsAsked
  BY Asked, AskAssumption DEF Init, Promise!WorkIsAsked, Promise!OneActive, Promise!ActiveOf
<1>2. IInv /\ Promise!WorkIsAsked /\ [Next]_vars => Promise!WorkIsAsked'
  BY StepKeeps, PromiseStep DEF IInv
<1> QED BY <1>1, <1>2, InductiveInvariant, PTL DEF Spec

\* What was asked, produced or recorded is never taken back or rewritten, and
\* no request starts work for an Intent that was given up.
THEOREM WorkAlwaysKept == Spec => Promise!WorkIsKept
<1>1. IInv /\ Promise!WorkIsAsked /\ [Next]_vars => [Kept]_(Promise!vars)
  BY StepKeeps, PromiseStep DEF IInv
<1>2. Spec => [][Kept]_(Promise!vars)
  BY <1>1, WorkAlwaysAsked, InductiveInvariant, PTL DEF Spec
<1> QED BY <1>2 DEF Promise!WorkIsKept, Kept
-----------------------------------------------------------------------------
(* Tasks live as the agent lane's do.                                      *)

LEMMA PromiseLives ==
  ASSUME TypeOK, Promise!WorkIsAsked, [Promise!Next]_(Promise!vars)
  PROVE  [Life!Next]_(Life!vars)
<1> USE DEF Life!Move
<1>1. task \in [Calls -> {"none", "queued", "running", "asking", "ended"}] /\ result \in [Calls -> Calls \cup {None}]
  BY DEF TypeOK
<1>2. ASSUME UNCHANGED <<task, result>>
      PROVE  UNCHANGED Life!vars
  BY <1>2 DEF LifeOf, Life!vars
<1>3. ASSUME NEW c \in Calls, Promise!Request(c) \/ Promise!HandOn(c)
      PROVE  Life!Create(c)
  <2>1. task' = [task EXCEPT ![c] = "queued"] /\ UNCHANGED result /\ receipt[Ask[c].key] = None
    BY <1>3 DEF Promise!Request, Promise!HandOn, Promise!Create, Promise!First
  <2>2. task[c] = "none"
    BY <2>1, Asked DEF Promise!WorkIsAsked, Promise!GoesBack
  <2>3. LifeOf[c] = "none" /\ LifeOf' = [LifeOf EXCEPT ![c] = "waiting"]
    BY <1>1, <2>1, <2>2 DEF LifeOf
  <2> QED BY <2>1, <2>3 DEF Life!Create
<1>4. ASSUME NEW t \in Calls, Promise!Start(t)
      PROVE  Life!Bind(t)
  <2>1. LifeOf[t] = "waiting" /\ LifeOf' = [LifeOf EXCEPT ![t] = "bound"]
    BY <1>1, <1>4 DEF Promise!Start, LifeOf
  <2> QED BY <1>4, <2>1 DEF Promise!Start, Life!Bind
<1>5. ASSUME NEW t \in Calls, Promise!Settle(t)
      PROVE  Life!End(t)
  <2>1. PICK end \in {"asking", "ended"} : task' = [task EXCEPT ![t] = end] /\ task[t] \in {"queued", "running"}
    BY <1>5 DEF Promise!Settle
  <2>2. LifeOf[t] \in {"waiting", "bound"} /\ LifeOf' = [LifeOf EXCEPT ![t] = "ended"]
    BY <1>1, <2>1 DEF LifeOf
  <2> QED BY <1>5, <2>2 DEF Promise!Settle, Life!End
<1>6. ASSUME NEW c \in Calls, Promise!Produce(c)
      PROVE  Life!Produce(Ask[c].task) /\ Ask[c].task \in Calls
  <2>1. LifeOf[Ask[c].task] = "bound" /\ UNCHANGED LifeOf
    BY <1>6, Asked DEF Promise!Produce, Promise!tasks, LifeOf
  <2> QED BY <1>1, <1>6, <2>1, Asked DEF Promise!Produce, Life!Produce
<1>7. ASSUME NEW c \in Calls, Promise!Resolve(c) \/ Promise!Advance(c) \/ Promise!Receipt(c)
                                \/ Promise!Observe(c) \/ Promise!Refuse(c)
      PROVE  UNCHANGED <<task, result>>
  BY <1>7 DEF Promise!Resolve, Promise!Advance, Promise!Receipt, Promise!Observe, Promise!Refuse,
     Promise!Answer, Promise!tasks
<1>8. CASE UNCHANGED Promise!vars
  BY <1>2, <1>8 DEF Promise!vars, Promise!tasks
<1> QED BY <1>2, <1>3, <1>4, <1>5, <1>6, <1>7, <1>8 DEF Promise!Next, Life!Next

\* The tasks that are requested and handed on, which meet their sessions and
\* settlements as steps of their own, live as the agent lane's tasks do.
THEOREM WorkKeepsTaskLife == Spec => ImplementsTaskLife
<1>1. Init => Life!Init
  BY DEF Init, Life!Init, LifeOf
<1>2. IInv /\ Promise!WorkIsAsked /\ [Next]_vars => [Life!Next]_(Life!vars)
  BY StepKeeps, PromiseLives DEF IInv
<1> QED BY <1>1, <1>2, InductiveInvariant, WorkAlwaysAsked, PTL DEF Spec, ImplementsTaskLife, Life!Spec
-----------------------------------------------------------------------------
(* Intents are worked on as the Intents of the brand are.                  *)

LEMMA PromiseRows ==
  ASSUME TypeOK, [Promise!Next]_(Promise!vars)
  PROVE  [Row!Next]_(Row!vars)
<1>1. ASSUME NEW c \in Calls, Promise!Advance(c)
      PROVE  Row!Next
  <2> DEFINE i == Ask[c].intent
  <2>1. i \in Intents /\ i \in open /\ revision' = [revision EXCEPT ![i] = @ + 1]
    BY <1>1, Asked DEF Promise!Advance
  <2>2. CASE Ask[c].kind = "refine"
    <3>1. StateOf[i] = "active" /\ StateOf' = [StateOf EXCEPT ![i] = "active"]
      BY <1>1, <2>1, <2>2 DEF Promise!Advance, StateOf
    <3> QED BY <2>1, <3>1 DEF Row!Next, Row!Refine, Row!Operate
  <2>3. CASE Ask[c].kind = "abandon"
    <3>1. StateOf[i] = "active" /\ StateOf' = [StateOf EXCEPT ![i] = "abandoned"]
      BY <1>1, <2>1, <2>3 DEF Promise!Advance, StateOf
    <3> QED BY <2>1, <3>1 DEF Row!Next, Row!Abandon, Row!Operate
  <2> QED BY <1>1, <2>2, <2>3 DEF Promise!Advance
<1>2. CASE UNCHANGED <<open, revision>>
  BY <1>2 DEF Row!vars, StateOf
<1> QED BY <1>1, <1>2 DEF Promise!Next, Promise!vars, Promise!Request, Promise!HandOn, Promise!Create,
        Promise!Produce, Promise!Resolve, Promise!Start, Promise!Settle, Promise!Receipt, Promise!Observe,
        Promise!Refuse, Promise!Answer

\* The Intent a request is checked against is refined and abandoned, between
\* the locks and statements of requests, as the Intents of the brand are.
THEOREM WorkKeepsIntentLife == Spec => ImplementsIntentLife
<1>1. Init => Row!Init
  BY DEF Init, Row!Init, StateOf
<1>2. IInv /\ [Next]_vars => [Row!Next]_(Row!vars)
  BY StepKeeps, PromiseRows DEF IInv
<1> QED BY <1>1, <1>2, InductiveInvariant, PTL DEF Spec, ImplementsIntentLife, Row!Spec
=============================================================================
