------------------------------- MODULE Intents -------------------------------
(***************************************************************************)
(* The Intents of a brand: declared, proposed and refined by the CMO in    *)
(* the turns of its conversations, refined, adopted and abandoned by       *)
(* people on forms that show a revision.                                   *)
(*                                                                         *)
(* A refinement by the CMO names no Intent.  Its call looks for one, read  *)
(* by read: the one it refined before, if it is a retry, else the turn's,  *)
(* else the conversation's, else the brand's, and takes its revision.  The *)
(* transaction that follows refuses a revision that has passed.            *)
(*                                                                         *)
(* A transaction locks the Intent, and is one step; the reads before it    *)
(* are steps of their own.  A call that fails takes no further step; it is *)
(* made again whatever its caller has heard.                               *)
(* Left out: statements, members and roles, and requests of work, which    *)
(* look for an Intent the same way and leave it as it is.                  *)
(***************************************************************************)
EXTENDS Conversations

CONSTANTS
    Calls,
    Ask,     \* what each call asks for
    Forms,   \* forms that a page renders, with their requestId
    Contents, \* acceptance criteria and constraints
    MaxCalls  \* bound of the model: calls that are made

Kinds == {"declare", "propose", "refine", "adopt", "abandon"}

CmoAsks == [by : {"cmo"}, kind : {"declare", "propose", "refine"},
            session : Sessions, turn : Nat \ {0}, content : Contents]
HumanAsks == [by : {"human"}, kind : {"refine", "adopt", "abandon"},
              form : Forms, content : Contents]

ASSUME AskAssumption == Ask \in [Calls -> CmoAsks \cup HumanAsks]

Cmo == {c \in Calls : Ask[c].by = "cmo"}
Human == {c \in Calls : Ask[c].by = "human"}

\* An Intent is named by the call that creates it.
Creators == {c \in Calls : Ask[c].kind \in {"declare", "propose"}}

Replies == {"access_denied", "ambiguous", "no_active_intent", "replayed", "operation_conflict",
            "intent_not_active", "intent_not_draft", "invalid_operation", "stale_intent", "ok"}

ASSUME NothingAssumption == None \notin Calls \cup Replies
ASSUME CallsAssumption == MaxCalls \in Nat

Target == [intent : Creators, revision : Nat]
NoTarget == [intent |-> None, revision |-> 0]

VARIABLES
    status,    \* intents.status; "none" if there is no row
    revision,  \* intents.revision
    content,   \* intents.acceptance_criteria, constraints
    form,      \* the Intent and revision that a form shows
    pc,        \* the next step of a call
    target,    \* the Intent and expectedRevision of a call
    answer,    \* what it is told
    committed, \* actions: the calls that wrote one, with their targets
    repeats    \* calls that began when their like had been committed

intentRows == <<status, revision, content, committed>>
vars == <<conversations, intentRows, form, pc, target, answer, repeats>>

Init ==
    /\ ConversationsInit
    /\ status = [i \in Creators |-> "none"]
    /\ revision = [i \in Creators |-> 0]
    /\ content = [i \in Creators |-> Ask[i].content]
    /\ form = [f \in Forms |-> NoTarget]
    /\ pc = [c \in Calls |-> "new"]
    /\ target = [c \in Calls |-> IF c \in Creators THEN [intent |-> c, revision |-> 0] ELSE NoTarget]
    /\ answer = [c \in Calls |-> None]
    /\ committed = {} /\ repeats = {}

\* The operation key.  The CMO's names the session, the turn and the content
\* (stableCmoRequestId), a form's is the form's requestId.
Key == [c \in Calls |->
          IF c \in Cmo THEN <<Ask[c].kind, Ask[c].session, Ask[c].turn, Ask[c].content>>
          ELSE <<Ask[c].kind, Ask[c].form>>]

\* What c and d ask for is the same, up to the Intent that a call finds.
SameAsk(c, d) == Ask[c].kind = "adopt" \/ Ask[c].content = Ask[d].content

\* The request hash tells apart what the key does not.
SameRequest(c, d) == SameAsk(c, d) /\ (c \in Creators \/ target[c] = target[d])

Earlier(c) == {d \in committed : (c \in Cmo <=> d \in Cmo) /\ Key[d] = Key[c]}

Finish(c, a) ==
    /\ pc' = [pc EXCEPT ![c] = "done"]
    /\ answer' = [answer EXCEPT ![c] = a]

Continue(c, next) ==
    /\ pc' = [pc EXCEPT ![c] = next]
    /\ UNCHANGED answer

\* c goes on with i as it is now.
Choose(c, i) ==
    /\ target' = [target EXCEPT ![c] = [intent |-> i, revision |-> revision[i]]]
    /\ Continue(c, "commit")

Begin(c) ==
    /\ Cardinality({d \in Calls : pc[d] # "new"}) < MaxCalls
    /\ repeats' = IF \E d \in Earlier(c) : SameAsk(c, d)
                  THEN repeats \cup {c} ELSE repeats
-----------------------------------------------------------------------------
(* A call of the CMO.                                                      *)

Bound(c) == bound[Of[Ask[c].session]] = Ask[c].session

\* A tool call of the running turn; only the bound session may go on.
ResolveTrustedCmoTurnAccess(c) ==
    /\ pc[c] = "new" /\ c \in Cmo /\ turn[Ask[c].session] = Ask[c].turn
    /\ Begin(c)
    /\ \/ Bound(c) /\ Continue(c, IF Ask[c].kind = "refine" THEN "replay" ELSE "commit")
       \/ ~Bound(c) /\ Finish(c, "access_denied")
    /\ UNCHANGED <<conversations, intentRows, form, target>>

\* Mutant of ReadReplay: a retry looks for an Intent again.
ReadNoReplay(c) ==
    /\ pc[c] = "replay"
    /\ Continue(c, "turn") /\ UNCHANGED <<conversations, intentRows, form, target, repeats>>

\* A refinement that was committed before is repeated as it was.
ReadReplay(c) ==
    /\ pc[c] = "replay"
    /\ \/ \E d \in Earlier(c) :
            /\ target' = [target EXCEPT ![c] = target[d]]
            /\ Continue(c, "commit")
       \/ Earlier(c) = {} /\ Continue(c, "turn") /\ UNCHANGED target
    /\ UNCHANGED <<conversations, intentRows, form, repeats>>

\* What the turn, and the conversation, of c has declared or refined.
SpokenOf(c) == {d \in committed \cap Cmo : Ask[d].kind \in {"declare", "refine"}
                                        /\ Of[Ask[d].session] = Of[Ask[c].session]}
TurnIntents(c) ==
    {target[d].intent : d \in {d \in SpokenOf(c) : /\ Ask[d].session = Ask[c].session
                                                  /\ Ask[d].turn = Ask[c].turn}}

Active(S) == {i \in S : status[i] = "active"}

ReadTurn(c) ==
    /\ pc[c] = "turn"
    /\ \/ \E i \in TurnIntents(c) :
            /\ TurnIntents(c) = {i}
            /\ target' = [target EXCEPT ![c].intent = i]
            /\ Continue(c, "active")
       \/ TurnIntents(c) = {} /\ Continue(c, "conversation") /\ UNCHANGED target
       \/ Cardinality(TurnIntents(c)) > 1 /\ Finish(c, "ambiguous") /\ UNCHANGED target
    /\ UNCHANGED <<conversations, intentRows, form, repeats>>

\* loadActiveIntentById, of the turn's Intent.
ReadActive(c) ==
    /\ pc[c] = "active"
    /\ IF status[target[c].intent] = "active" THEN Choose(c, target[c].intent)
       ELSE Finish(c, "no_active_intent") /\ UNCHANGED target
    /\ UNCHANGED <<conversations, intentRows, form, repeats>>

\* The only one of S, or the next to look at, or none.
Only(c, S, Else) ==
    \/ \E i \in S : S = {i} /\ Choose(c, i)
    \/ S = {} /\ Else /\ UNCHANGED target
    \/ Cardinality(S) > 1 /\ Finish(c, "ambiguous") /\ UNCHANGED target

ReadConversation(c) ==
    /\ pc[c] = "conversation"
    /\ Only(c, Active({target[d].intent : d \in SpokenOf(c)}), Continue(c, "brand"))
    /\ UNCHANGED <<conversations, intentRows, form, repeats>>

ReadBrand(c) ==
    /\ pc[c] = "brand"
    /\ Only(c, Active(Creators), Finish(c, "no_active_intent"))
    /\ UNCHANGED <<conversations, intentRows, form, repeats>>
-----------------------------------------------------------------------------
(* A form.                                                                 *)

\* A page shows an Intent.
OpenForm(f, i) ==
    /\ form[f] = NoTarget /\ status[i] # "none"
    /\ form' = [form EXCEPT ![f] = [intent |-> i, revision |-> revision[i]]]
    /\ UNCHANGED <<conversations, intentRows, pc, target, answer, repeats>>

SubmitForm(c) ==
    /\ pc[c] = "new" /\ c \in Human /\ form[Ask[c].form] # NoTarget
    /\ target' = [target EXCEPT ![c] = form[Ask[c].form]]
    /\ Begin(c) /\ Continue(c, "commit")
    /\ UNCHANGED <<conversations, intentRows, form>>
-----------------------------------------------------------------------------
(* The transaction.                                                        *)

\* The statuses that an operation may find, and the one it leaves.
From(kind) ==
    CASE kind = "refine" -> {"active"} [] kind = "adopt" -> {"draft"}
      [] kind = "abandon" -> {"draft", "active"} [] OTHER -> {"none"}
To(kind) ==
    CASE kind = "propose" -> "draft" [] kind = "abandon" -> "abandoned" [] OTHER -> "active"

Writes(kind) == kind \in {"declare", "propose", "refine"}

Refusal(kind) ==
    CASE kind = "refine" -> "intent_not_active" [] kind = "adopt" -> "intent_not_draft"
      [] OTHER -> "invalid_operation"

\* Mutant of Current: no revision is expected.
AnyRevision(c) == status[target[c].intent] \in From(Ask[c].kind)

\* The Intent is what c expects.
Current(c) ==
    /\ status[target[c].intent] \in From(Ask[c].kind)
    /\ revision[target[c].intent] = target[c].revision

Write(c) ==
    LET i == target[c].intent IN
    /\ Current(c)
    /\ status' = [status EXCEPT ![i] = To(Ask[c].kind)]
    /\ revision' = [revision EXCEPT ![i] = @ + 1]
    /\ content' = [content EXCEPT ![i] = IF Writes(Ask[c].kind) THEN Ask[c].content ELSE @]
    /\ committed' = committed \cup {c}

\* Mutant of Reply: the Intent is looked at before the receipt.
ReplyIntentFirst(c) ==
    IF ~Current(c) THEN "stale_intent" ELSE IF Earlier(c) # {} THEN "replayed" ELSE "ok"

\* What c is told without a change.
Reply(c) ==
    IF c \in Cmo /\ ~Bound(c) THEN "access_denied"
    ELSE IF \E d \in Earlier(c) : SameRequest(c, d) THEN "replayed"
    ELSE IF Earlier(c) # {} THEN "operation_conflict"
    ELSE IF status[target[c].intent] \notin From(Ask[c].kind) THEN Refusal(Ask[c].kind)
    ELSE IF ~Current(c) THEN "stale_intent" ELSE "ok"

\* The member, the CMO's turn, the receipt, the Intent; then the change.
Mutate(c) ==
    /\ pc[c] = "commit"
    /\ IF Reply(c) = "ok" THEN Write(c) ELSE UNCHANGED intentRows
    /\ Finish(c, Reply(c))
    /\ UNCHANGED <<conversations, form, target, repeats>>

DeclareIntent(c) == Ask[c].kind = "declare" /\ Mutate(c)
ProposeIntent(c) == Ask[c].kind = "propose" /\ Mutate(c)
RefineIntent(c) == Ask[c].kind = "refine" /\ Mutate(c)
AdoptIntent(c) == Ask[c].kind = "adopt" /\ Mutate(c)
AbandonIntent(c) == Ask[c].kind = "abandon" /\ Mutate(c)

CallNext(c) ==
    \/ ResolveTrustedCmoTurnAccess(c) \/ ReadReplay(c) \/ ReadTurn(c) \/ ReadActive(c)
    \/ ReadConversation(c) \/ ReadBrand(c)
    \/ SubmitForm(c)
    \/ DeclareIntent(c) \/ ProposeIntent(c) \/ RefineIntent(c)
    \/ AdoptIntent(c) \/ AbandonIntent(c)

Next ==
    \/ ConversationsNext /\ UNCHANGED <<intentRows, form, pc, target, answer, repeats>>
    \/ \E f \in Forms, i \in Creators : OpenForm(f, i)
    \/ \E c \in Calls : CallNext(c)

Spec == Init /\ [][Next]_vars
-----------------------------------------------------------------------------
(* Properties.                                                             *)

Steps == {"new", "replay", "turn", "active", "conversation", "brand", "commit", "done"}

TypeOK ==
    /\ ConversationsTypeOK
    /\ status \in [Creators -> {"none", "draft", "active", "abandoned"}]
    /\ revision \in [Creators -> Nat]
    /\ content \in [Creators -> Contents]
    /\ form \in [Forms -> Target \cup {NoTarget}]
    /\ pc \in [Calls -> Steps]
    /\ target \in [Calls -> Target \cup {NoTarget}]
    /\ answer \in [Calls -> Replies \cup {None}]
    /\ committed \subseteq Calls /\ repeats \subseteq Calls

\* The CMO's calls that were admitted, and all that it ever committed, are
\* calls of the session that the conversation is bound to.
Authority ==
    \A c \in Cmo : pc[c] \in Steps \ {"new", "done"} \/ c \in committed => Bound(c)

\* The history of an Intent is a line: every revision was made from the one
\* before by one call, no operation was done twice, the Intent is as its
\* last call left it, and says what the last to write said.
History ==
    /\ \A c \in committed : /\ pc[c] = "done" /\ target[c] # NoTarget
                            /\ target[c].revision < revision[target[c].intent]
                            /\ c \in Creators => target[c] = [intent |-> c, revision |-> 0]
    /\ \A c \in committed : Earlier(c) = {c}
    /\ \A c, d \in committed : target[c] = target[d] => c = d
    /\ \A i \in Creators :
         /\ status[i] = "none" <=> revision[i] = 0
         /\ \A n \in 0 .. revision[i] - 1 :
              \E c \in committed : target[c] = [intent |-> i, revision |-> n]
         /\ revision[i] > 0 =>
              /\ \E c \in committed : /\ target[c] = [intent |-> i, revision |-> revision[i] - 1]
                                      /\ status[i] = To(Ask[c].kind)
              /\ \E c \in committed :
                   /\ target[c].intent = i /\ Writes(Ask[c].kind) /\ content[i] = Ask[c].content
                   /\ \A d \in committed : target[d].intent = i /\ Writes(Ask[d].kind) =>
                        target[d].revision \leq target[c].revision

\* What the steps between rely on.
Flow ==
    /\ \A f \in Forms : form[f] # NoTarget => status[form[f].intent] # "none"
    /\ \A c \in Calls :
         /\ pc[c] \in {"replay", "turn", "active", "conversation", "brand"} =>
              c \in Cmo /\ Ask[c].kind = "refine"
         /\ pc[c] \in {"active", "commit"} /\ c \notin Creators =>
              target[c] # NoTarget /\ status[target[c].intent] # "none"
         /\ c \in Creators => target[c] = [intent |-> c, revision |-> 0]
         /\ c \in Human /\ pc[c] # "new" =>
              form[Ask[c].form] # NoTarget /\ target[c] = form[Ask[c].form]
         /\ answer[c] = None <=> pc[c] # "done"

\* A call that repeats another asks, when it gets to it, for the same.
Repeating ==
    \A c \in repeats :
        /\ pc[c] \in {"replay", "commit", "done"} /\ c \notin committed
        /\ \E d \in Earlier(c) : SameAsk(c, d) /\ (pc[c] = "commit" => SameRequest(c, d))

\* What a form or a call has seen of an Intent is, or was, so.
Seen ==
    /\ \A f \in Forms : form[f] # NoTarget => form[f].revision \leq revision[form[f].intent]
    /\ \A c \in Calls \ Creators :
         /\ pc[c] \in {"new", "replay", "turn", "conversation", "brand"} => target[c] = NoTarget
         /\ pc[c] = "active" => target[c].intent \in TurnIntents(c)
         /\ target[c] # NoTarget => target[c].revision \leq revision[target[c].intent]

Core == TypeOK /\ Binding /\ Authority /\ History /\ Flow /\ Repeating
IInv == Core /\ Seen

\* A call that repeats a committed one is told the same again, whatever has
\* become of the Intent, the turn and the conversation in between.
RetriesAreAnswered ==
    \A c \in repeats : pc[c] = "done" => answer[c] = "replayed"

\* What the rows and the receipts say of an Intent: see IntentLine.
Line ==
    [i \in Creators |->
       [n \in 1 .. revision[i] |->
          CHOOSE c \in committed : target[c] = [intent |-> i, revision |-> n - 1]]]

Shown ==
    [i \in Creators |-> [status |-> status[i], revision |-> revision[i], content |-> content[i]]]

Lines == INSTANCE IntentLine WITH
    line <- Line, shown <- Shown, voice <- bound, basis <- target, told <- answer

\* Whatever the turns, the forms, the reads and the retries of them do, the
\* Intents are lines of operations, and what a call is told is true.
ImplementsIntentLine == Lines!Spec

\* See IntentLife: what WorkRequests takes for granted of an Intent.
Row == INSTANCE IntentLife WITH Intents <- Creators, state <- status

ImplementsIntentLife == Row!Spec
=============================================================================
