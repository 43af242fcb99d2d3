----------------------------- MODULE IntentLine -----------------------------
(***************************************************************************)
(* What the Intents of a brand promise (ADR-012), with the turns, the      *)
(* reads and the retries hidden: an Intent is a line of operations, each   *)
(* done at once, by one call, on the Intent as the operation before it     *)
(* left it.  A conversation speaks through one session, for good.  An      *)
(* operation is done once, whoever repeats it is told so, and what a call  *)
(* is refused for is so at that moment.                                    *)
(***************************************************************************)
EXTENDS Naturals, Sequences

CONSTANTS Calls, Ask, Sessions, ConversationIds, Of, None

VARIABLES line,  \* the calls that an Intent is made of, in order
          shown, \* the Intent that everybody reads
          voice, \* the session that a conversation speaks through
          basis, \* the Intent and revision that a call is about
          told   \* what a call was told

vars == <<told, voice, basis, shown, line>>

Intents == {c \in Calls : Ask[c].kind \in {"declare", "propose"}}

Nothing == [intent |-> None, revision |-> 0]

Init ==
    /\ line = [i \in Intents |-> <<>>]
    /\ shown = [i \in Intents |-> [status |-> "none", revision |-> 0, content |-> Ask[i].content]]
    /\ voice = [v \in ConversationIds |-> None]
    /\ basis = [c \in Calls |-> IF c \in Intents THEN [intent |-> c, revision |-> 0] ELSE Nothing]
    /\ told = [c \in Calls |-> None]

MayFind(kind) ==
    CASE kind = "refine" -> {"active"} [] kind = "adopt" -> {"draft"}
      [] kind = "abandon" -> {"draft", "active"} [] OTHER -> {"none"}

Leaves(kind) ==
    CASE kind = "propose" -> "draft" [] kind = "abandon" -> "abandoned" [] OTHER -> "active"

Rewrites(kind) == kind \in {"declare", "propose", "refine"}

Spoken == {c \in Calls : Ask[c].by = "cmo"}

MaySpeak(c) == c \in Spoken => voice[Of[Ask[c].session]] = Ask[c].session

Done == {c \in Calls : \E i \in Intents : \E n \in 1..Len(line[i]) : line[i][n] = c}

\* A reply of the CMO in one turn, or a form.
SameOperation(c, d) ==
    /\ Ask[c].by = Ask[d].by /\ Ask[c].kind = Ask[d].kind
    /\ IF c \in Spoken
       THEN /\ Ask[c].session = Ask[d].session /\ Ask[c].turn = Ask[d].turn
            /\ Ask[c].content = Ask[d].content
       ELSE Ask[c].form = Ask[d].form

Before(c) == {d \in Done : SameOperation(c, d)}

Repeats(c, d) ==
    /\ Ask[c].kind = "adopt" \/ Ask[c].content = Ask[d].content
    /\ c \in Intents \/ basis[c] = basis[d]

\* What the CMO has declared or refined in the turn of c.
OfTurn(c) ==
    {basis[d].intent : d \in {d \in Done \cap Spoken :
         /\ Ask[d].kind \in {"declare", "refine"}
         /\ Ask[d].session = Ask[c].session /\ Ask[d].turn = Ask[c].turn}}

Active == {i \in Intents : shown[i].status = "active"}
-----------------------------------------------------------------------------
Bind(s) ==
    /\ voice[Of[s]] = None
    /\ voice' = [voice EXCEPT ![Of[s]] = s]
    /\ UNCHANGED <<told, basis, shown, line>>

\* c comes to be about an Intent as it is, or was.
Look(c) ==
    /\ told[c] = None /\ c \notin Intents /\ basis'[c] # basis[c]
    /\ \E i \in Intents : \E n \in 0..Len(line[i]) :
         basis' = [basis EXCEPT ![c] = [intent |-> i, revision |-> n]]
    /\ UNCHANGED <<told, voice, shown, line>>

Operate(c) ==
    LET i == basis[c].intent IN
    /\ told[c] = None /\ told' = [told EXCEPT ![c] = "ok"]
    /\ MaySpeak(c) /\ Before(c) = {}
    /\ i \in Intents /\ basis[c].revision = Len(line[i])
    /\ shown[i].status \in MayFind(Ask[c].kind)
    /\ line' = [line EXCEPT ![i] = Append(@, c)]
    /\ shown' = [shown EXCEPT ![i] =
          [status |-> Leaves(Ask[c].kind), revision |-> Len(line[i]) + 1,
           content |-> IF Rewrites(Ask[c].kind) THEN Ask[c].content ELSE shown[i].content]]
    /\ UNCHANGED <<voice, basis>>

Tell(c, what) ==
    /\ told[c] = None /\ told' = [told EXCEPT ![c] = what]
    /\ UNCHANGED <<voice, basis, shown, line>>

Receipt(c) ==
    /\ MaySpeak(c)
    /\ \/ Tell(c, "replayed") /\ \E d \in Before(c) : Repeats(c, d)
       \/ Tell(c, "operation_conflict") /\ \E d \in Before(c) : ~Repeats(c, d)

\* A refused operation was not done, and could not be.
Refuse(c) ==
    \/ Tell(c, "access_denied") /\ ~MaySpeak(c)
    \/ /\ \E what \in {"intent_not_active", "intent_not_draft", "invalid_operation"} : Tell(c, what)
       /\ Before(c) = {} /\ shown[basis[c].intent].status \notin MayFind(Ask[c].kind)
    \/ /\ Tell(c, "stale_intent")
       /\ Before(c) = {} /\ basis[c].revision < Len(line[basis[c].intent])
    \/ /\ Tell(c, "ambiguous") /\ c \in Spoken
       /\ \E S \in {OfTurn(c), Active} : \E i, j \in S : i # j
    \/ /\ Tell(c, "no_active_intent") /\ c \in Spoken
       /\ Active = {} \/ \E i \in OfTurn(c) : i \notin Active

Next ==
    \/ \E s \in Sessions : Bind(s)
    \/ \E c \in Calls : Look(c) \/ Operate(c)
    \/ \E c \in Calls : told'[c] # told[c] /\ (Receipt(c) \/ Refuse(c))

Spec == Init /\ [][Next]_vars
-----------------------------------------------------------------------------
(* What follows.                                                           *)

\* An Intent shows what its line says: the last operation's status, and the
\* content of the last that gave it one; a call is in one line, once.
LineIsShown ==
    /\ \A i \in Intents : line[i] # <<>> =>
         /\ shown[i].revision = Len(line[i])
         /\ shown[i].status = Leaves(Ask[line[i][Len(line[i])]].kind)
         /\ \E n \in 1..Len(line[i]) :
              /\ Rewrites(Ask[line[i][n]].kind) /\ shown[i].content = Ask[line[i][n]].content
              /\ \A m \in n + 1..Len(line[i]) : ~Rewrites(Ask[line[i][m]].kind)
    /\ \A i, j \in Intents : \A m \in 1..Len(line[i]), n \in 1..Len(line[j]) :
         SameOperation(line[i][m], line[j][n]) => i = j /\ m = n

\* Who was told "ok" is in the line of the Intent it was about, right after
\* the revision it was about; nobody else is.
ToldIsDone ==
    \A c \in Calls : told[c] = "ok" <=>
        \E i \in Intents : \E n \in 1..Len(line[i]) :
            line[i][n] = c /\ basis[c] = [intent |-> i, revision |-> n - 1]
=============================================================================
