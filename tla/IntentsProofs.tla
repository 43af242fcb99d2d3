---------------------------- MODULE IntentsProofs ----------------------------
(***************************************************************************)
(* Proofs about Intents, and the conversations under them, for every set   *)
(* of sessions, calls and forms.                                           *)
(***************************************************************************)
EXTENDS Intents, SequenceTheorems, FiniteSetTheorems, TLAPS

USE DEF conversations, intentRows

-----------------------------------------------------------------------------
(* What calls are.                                                         *)

LEMMA Asked ==
  ASSUME NEW c \in Calls
  PROVE  /\ c # None /\ Ask[c].kind \in Kinds /\ Ask[c].content \in Contents
         /\ (c \in Cmo \/ c \in Human) /\ ~(c \in Cmo /\ c \in Human)
         /\ c \in Cmo => /\ Ask[c].session \in Sessions /\ Ask[c].session # None
                         /\ Of[Ask[c].session] \in ConversationIds
         /\ c \in Human => Ask[c].form \in Forms /\ c \notin Creators
<1>1. Ask[c] \in CmoAsks \/ Ask[c] \in HumanAsks
  BY AskAssumption
<1>2. c # None
  BY NothingAssumption
<1>3. CASE Ask[c] \in CmoAsks
  <2>1. /\ Ask[c].by = "cmo" /\ Ask[c].kind \in Kinds /\ Ask[c].content \in Contents
        /\ Ask[c].session \in Sessions
    BY <1>3 DEF CmoAsks, Kinds
  <2> QED BY <1>2, <2>1, OfAssumption, NoneAssumption DEF Cmo, Human
<1>4. CASE Ask[c] \in HumanAsks
  <2>1. /\ Ask[c].by = "human" /\ Ask[c].kind \in {"refine", "adopt", "abandon"}
        /\ Ask[c].content \in Contents /\ Ask[c].form \in Forms
    BY <1>4 DEF HumanAsks
  <2> QED BY <1>2, <2>1 DEF Cmo, Human, Kinds, Creators
<1> QED BY <1>1, <1>3, <1>4

LEMMA Created ==
  /\ Creators \subseteq Cmo /\ Creators \subseteq Calls /\ None \notin Creators
  /\ NoTarget \notin Target
<1>1. Creators \subseteq Calls /\ \A c \in Creators : c \in Calls
  BY DEF Creators
<1>2. \A c \in Creators : c \in Cmo /\ c # None
  BY <1>1, Asked
<1> QED BY <1>1, <1>2 DEF Target, NoTarget

LEMMA Alike ==
  ASSUME NEW c \in Calls, NEW d \in Calls, Key[c] = Key[d], c \in Cmo <=> d \in Cmo
  PROVE  /\ Ask[c].kind = Ask[d].kind
         /\ c \in Cmo => /\ Ask[c].session = Ask[d].session /\ Ask[c].turn = Ask[d].turn
                         /\ Ask[c].content = Ask[d].content
         /\ c \in Human => Ask[c].form = Ask[d].form
         /\ c \in Creators <=> d \in Creators
<1>1. CASE c \in Cmo
  <2>1. <<Ask[c].kind, Ask[c].session, Ask[c].turn, Ask[c].content>> =
        <<Ask[d].kind, Ask[d].session, Ask[d].turn, Ask[d].content>>
    BY <1>1 DEF Key
  <2> QED BY <1>1, <2>1, Asked DEF Creators
<1>2. CASE c \notin Cmo
  <2>1. <<Ask[c].kind, Ask[c].form>> = <<Ask[d].kind, Ask[d].form>>
    BY <1>2 DEF Key
  <2> QED BY <1>2, <2>1 DEF Creators
<1> QED BY <1>1, <1>2

\* What the invariant says about one call.
LEMMA Knows ==
  ASSUME Core, NEW c \in Calls
  PROVE  /\ pc[c] \in Steps /\ target[c] \in Target \cup {NoTarget}
         /\ c \in committed => /\ pc[c] = "done" /\ target[c] \in Target
                               /\ target[c].revision < revision[target[c].intent]
                               /\ status[target[c].intent] # "none"
                               /\ c \in Cmo => Bound(c)
         /\ target[c] \in Target => /\ target[c].intent \in Creators
                                    /\ target[c].revision \in Nat
         /\ c \in Creators => target[c] = [intent |-> c, revision |-> 0]
<1>1. pc[c] \in Steps /\ target[c] \in Target \cup {NoTarget}
  BY DEF Core, TypeOK
<1>2. target[c] \in Target => target[c].intent \in Creators /\ target[c].revision \in Nat
  BY DEF Target
<1>3. c \in Creators => target[c] = [intent |-> c, revision |-> 0]
  BY DEF Core, Flow
<1>4. ASSUME c \in committed
      PROVE  /\ pc[c] = "done" /\ target[c] \in Target
             /\ target[c].revision < revision[target[c].intent]
             /\ status[target[c].intent] # "none"
             /\ c \in Cmo => Bound(c)
  <2>1. pc[c] = "done" /\ target[c] \in Target
        /\ target[c].revision < revision[target[c].intent]
    BY <1>1, <1>4 DEF Core, History
  <2>2. revision[target[c].intent] # 0
    BY <1>2, <2>1 DEF Core, TypeOK
  <2>3. status[target[c].intent] # "none"
    BY <1>2, <2>1, <2>2 DEF Core, History
  <2>4. c \in Cmo => Bound(c)
    BY <1>4 DEF Core, Authority
  <2> QED BY <2>1, <2>3, <2>4
<1> QED BY <1>1, <1>2, <1>3, <1>4

-----------------------------------------------------------------------------
(* Conversations.                                                          *)

\* What a step of the conversations does to what is bound.
LEMMA BindingHolds ==
  ASSUME ConversationsTypeOK, Binding, ConversationsNext
  PROVE  /\ ConversationsTypeOK' /\ Binding'
         /\ \A v \in ConversationIds : bound[v] # None => bound'[v] = bound[v]
<1> PICK s \in Sessions :
      \/ AuthorizeCmoSessionCreation(s) \/ CreateSession(s) \/ BindFromProxy(s)
      \/ ResolveInitialCmoSessionAccess(s) \/ BindFromHook(s)
      \/ Message(s)
  BY DEF ConversationsNext
<1>0. Of[s] \in ConversationIds /\ s # None
  BY OfAssumption, NoneAssumption
<1>1. CASE AuthorizeCmoSessionCreation(s)
  BY <1>0, <1>1 DEF AuthorizeCmoSessionCreation, ConversationsTypeOK, Binding
<1>2. CASE CreateSession(s)
  BY <1>0, <1>2 DEF CreateSession, ConversationsTypeOK, Binding
<1>3. CASE BindFromProxy(s)
  BY <1>0, <1>3, NoneAssumption, OfAssumption
     DEF BindFromProxy, BindCmoSession, Binds, ConversationsTypeOK, Binding
<1>4. CASE ResolveInitialCmoSessionAccess(s)
  BY <1>0, <1>4 DEF ResolveInitialCmoSessionAccess, ConversationsTypeOK, Binding
<1>5. CASE BindFromHook(s)
  BY <1>0, <1>5, NoneAssumption, OfAssumption
     DEF BindFromHook, BindCmoSession, Binds, ConversationsTypeOK, Binding
<1>6. CASE Message(s)
  BY <1>0, <1>6 DEF Message, ConversationsTypeOK, Binding
<1> QED BY <1>1, <1>2, <1>3, <1>4, <1>5, <1>6

LEMMA ConversationStep ==
  ASSUME Core, ConversationsNext, UNCHANGED <<intentRows, form, pc, target, answer, repeats>>
  PROVE  Core' /\ (RetriesAreAnswered => RetriesAreAnswered')
<1>1. /\ ConversationsTypeOK' /\ Binding'
      /\ \A v \in ConversationIds : bound[v] # None => bound'[v] = bound[v]
  BY BindingHolds DEF Core, TypeOK
<1>2. \A c \in Cmo : Bound(c) => Bound(c)'
  <2> SUFFICES ASSUME NEW c \in Cmo, Bound(c)
               PROVE  Bound(c)'
    OBVIOUS
  <2>1. c \in Calls
    BY DEF Cmo
  <2> QED BY <1>1, <2>1, Asked DEF Bound
<1>3. Authority'
  BY <1>2 DEF Core, Authority
<1>4. TypeOK'
  BY <1>1 DEF Core, TypeOK
<1>5. History' /\ Flow' /\ Repeating'
  BY DEF Core, History, Flow, Repeating, Earlier, SameRequest
<1>6. RetriesAreAnswered => RetriesAreAnswered'
  BY DEF RetriesAreAnswered
<1> QED BY <1>1, <1>3, <1>4, <1>5, <1>6 DEF Core

-----------------------------------------------------------------------------
(* Steps of a call that leave the Intents alone.                           *)

\* The step is c's alone.
Others(c) ==
    /\ \A d \in Calls \ {c} : /\ pc'[d] = pc[d] /\ target'[d] = target[d]
                              /\ answer'[d] = answer[d]
    /\ repeats' \ {c} = repeats \ {c}

\* What a step of c may leave in c's own variables.
Fits(c) ==
    /\ c \in Cmo /\ pc'[c] \in Steps \ {"new", "done"} => Bound(c)
    /\ pc'[c] \in {"replay", "turn", "active", "conversation", "brand"} =>
         c \in Cmo /\ Ask[c].kind = "refine"
    /\ pc'[c] \in {"active", "commit"} /\ c \notin Creators =>
         target'[c] # NoTarget /\ status[target'[c].intent] # "none"
    /\ c \in Creators => target'[c] = [intent |-> c, revision |-> 0]
    /\ c \in Human /\ pc'[c] # "new" =>
         form[Ask[c].form] # NoTarget /\ target'[c] = form[Ask[c].form]
    /\ answer'[c] = None <=> pc'[c] # "done"
    /\ c \in repeats' =>
         /\ pc'[c] \in {"replay", "commit", "done"}
         /\ \E d \in Earlier(c) : /\ SameAsk(c, d)
                                  /\ pc'[c] = "commit" /\ c \notin Creators => target'[c] = target[d]

LEMMA OwnStep ==
  ASSUME Core, NEW c \in Calls, c \notin committed, UNCHANGED <<conversations, intentRows, form>>,
         TypeOK', Others(c), Fits(c)
  PROVE  Core'
<1> USE DEF Others
<1>1. Binding'
  BY DEF Core, Binding
<1>2. committed \subseteq Calls \ {c}
  BY DEF Core, TypeOK
<1>3. Authority'
  <2> SUFFICES ASSUME NEW d \in Cmo, pc'[d] \in Steps \ {"new", "done"} \/ d \in committed
               PROVE  Bound(d)
    BY DEF Authority, Bound
  <2>1. d \in Calls
    BY DEF Cmo
  <2> QED BY <1>2, <2>1 DEF Core, Authority, Fits
<1>4. \A d \in committed : pc'[d] = pc[d] /\ target'[d] = target[d]
  BY <1>2
<1>5. History'
  BY <1>4 DEF Core, History, Earlier
<1>6. Flow'
  <2>1. \A d \in Calls \ {c} :
         /\ pc'[d] \in {"replay", "turn", "active", "conversation", "brand"} =>
              d \in Cmo /\ Ask[d].kind = "refine"
         /\ pc'[d] \in {"active", "commit"} /\ d \notin Creators =>
              target'[d] # NoTarget /\ status[target'[d].intent] # "none"
         /\ d \in Creators => target'[d] = [intent |-> d, revision |-> 0]
         /\ d \in Human /\ pc'[d] # "new" =>
              form[Ask[d].form] # NoTarget /\ target'[d] = form[Ask[d].form]
         /\ answer'[d] = None <=> pc'[d] # "done"
    <3> TAKE d \in Calls \ {c}
    <3>1. pc'[d] = pc[d] /\ target'[d] = target[d] /\ answer'[d] = answer[d]
      OBVIOUS
    <3>2. /\ pc[d] \in {"replay", "turn", "active", "conversation", "brand"} =>
               d \in Cmo /\ Ask[d].kind = "refine"
          /\ pc[d] \in {"active", "commit"} /\ d \notin Creators =>
               target[d] # NoTarget /\ status[target[d].intent] # "none"
          /\ d \in Creators => target[d] = [intent |-> d, revision |-> 0]
          /\ d \in Human /\ pc[d] # "new" =>
               form[Ask[d].form] # NoTarget /\ target[d] = form[Ask[d].form]
          /\ answer[d] = None <=> pc[d] # "done"
      BY DEF Core, Flow
    <3> QED BY <3>1, <3>2
  <2>2. \A f \in Forms : form[f] # NoTarget => status[form[f].intent] # "none"
    BY DEF Core, Flow
  <2> QED BY <2>1, <2>2 DEF Flow, Fits
<1>7. Repeating'
  <2> SUFFICES ASSUME NEW d \in repeats'
               PROVE  /\ pc'[d] \in {"replay", "commit", "done"} /\ d \notin committed
                      /\ \E e \in Earlier(d) :
                           SameAsk(d, e) /\ (pc'[d] = "commit" => SameRequest(d, e)')
    BY DEF Repeating, Earlier, SameAsk
  <2>1. CASE d = c
    <3>1. PICK e \in Earlier(c) :
            /\ SameAsk(c, e)
            /\ pc'[c] = "commit" /\ c \notin Creators => target'[c] = target[e]
      BY <2>1 DEF Fits
    <3>2. target'[e] = target[e]
      BY <1>4 DEF Earlier
    <3> QED BY <2>1, <3>1, <3>2 DEF Fits, SameRequest, SameAsk
  <2>2. CASE d # c
    <3>1. d \in repeats /\ d \in Calls
      BY <2>2 DEF Core, TypeOK
    <3>2. PICK e \in Earlier(d) : SameAsk(d, e) /\ (pc[d] = "commit" => SameRequest(d, e))
      BY <3>1 DEF Core, Repeating
    <3>3. target'[e] = target[e] /\ target'[d] = target[d] /\ pc'[d] = pc[d]
      BY <1>4, <2>2, <3>1 DEF Earlier
    <3>4. pc[d] \in {"replay", "commit", "done"} /\ d \notin committed
      BY <3>1 DEF Core, Repeating
    <3> QED BY <3>2, <3>3, <3>4 DEF SameRequest, SameAsk
  <2> QED BY <2>1, <2>2
<1> QED BY <1>1, <1>3, <1>5, <1>6, <1>7 DEF Core

\* Such a step answers a repeating call only at its end.
LEMMA OwnAnswer ==
  ASSUME RetriesAreAnswered, NEW c \in Calls, Others(c),
         c \in repeats' /\ pc'[c] = "done" => answer'[c] = "replayed", Core, TypeOK'
  PROVE  RetriesAreAnswered'
<1> SUFFICES ASSUME NEW d \in repeats', pc'[d] = "done"
             PROVE  answer'[d] = "replayed"
  BY DEF RetriesAreAnswered
<1>1. CASE d # c
  <2>1. d \in repeats /\ d \in Calls
    BY <1>1 DEF Others, Core, TypeOK
  <2> QED BY <1>1, <2>1 DEF Others, RetriesAreAnswered
<1> QED BY <1>1

-----------------------------------------------------------------------------
(* The steps of a call before its transaction.                             *)

LEMMA Fresh ==
  ASSUME Core, NEW c \in Calls, pc[c] # "done"
  PROVE  c \notin committed
BY Knows

\* Only a call that begins, replays, commits or is done may be a repeat.
LEMMA NoRepeat ==
  ASSUME Core, NEW c \in Calls, pc[c] \in {"new", "turn", "active", "conversation", "brand"}
  PROVE  c \notin repeats
BY DEF Core, Repeating

\* The earlier call that is like c was admitted, so c is.
LEMMA LikeBound ==
  ASSUME Core, NEW c \in Calls, NEW d \in Earlier(c)
  PROVE  /\ d \in Calls /\ d \in committed /\ (c \in Cmo => Bound(c)) /\ SameAsk(d, d)
         /\ Key[d] = Key[c] /\ (c \in Cmo <=> d \in Cmo)
         /\ target[d] \in Target /\ status[target[d].intent] # "none"
<1>1. d \in committed /\ Key[d] = Key[c] /\ (c \in Cmo <=> d \in Cmo)
  BY DEF Earlier
<1>2. d \in Calls
  BY <1>1 DEF Core, TypeOK
<1>3. target[d] \in Target /\ status[target[d].intent] # "none" /\ (d \in Cmo => Bound(d))
  BY <1>1, <1>2, Knows
<1>4. c \in Cmo => Ask[c].session = Ask[d].session
  BY <1>1, <1>2, Alike
<1>5. c \in Cmo => Bound(c)
  BY <1>1, <1>3, <1>4 DEF Bound
<1> QED BY <1>1, <1>2, <1>3, <1>5 DEF SameAsk

LEMMA BeginStep ==
  ASSUME Core, NEW c \in Calls, pc[c] = "new", Begin(c)
  PROVE  /\ repeats' \subseteq Calls /\ repeats' \ {c} = repeats \ {c}
         /\ c \in repeats' => \E d \in Earlier(c) : SameAsk(c, d)
BY NoRepeat DEF Begin, Core, TypeOK

LEMMA ResolveStep ==
  ASSUME Core, NEW c \in Calls, ResolveTrustedCmoTurnAccess(c)
  PROVE  Core' /\ (RetriesAreAnswered => RetriesAreAnswered')
<1> USE DEF ResolveTrustedCmoTurnAccess, Finish, Continue
<1>1. c \notin committed /\ c \in Cmo /\ c \notin Human
  BY Fresh, Asked
<1>2. /\ repeats' \subseteq Calls /\ repeats' \ {c} = repeats \ {c}
      /\ c \in repeats' => \E d \in Earlier(c) : SameAsk(c, d)
  BY BeginStep
<1>3. TypeOK'
  BY <1>2 DEF Core, TypeOK, ConversationsTypeOK, Steps, Replies
<1>4. Others(c)
  BY <1>2 DEF Core, TypeOK, Others
<1>5. Ask[c].kind = "refine" \/ c \in Creators
  BY <1>1, AskAssumption DEF CmoAsks, HumanAsks, Creators, Cmo
<1>6. Ask[c].kind = "refine" => c \notin Creators
  BY DEF Creators
<1>7. c \in repeats' => Bound(c)
  BY <1>1, <1>2, LikeBound
<1>8. /\ pc'[c] = IF ~Bound(c) THEN "done" ELSE IF Ask[c].kind = "refine" THEN "replay"
                  ELSE "commit"
      /\ answer'[c] = IF ~Bound(c) THEN "access_denied" ELSE answer[c]
  BY DEF Core, TypeOK
<1>9. answer[c] = None /\ "access_denied" # None
  BY NothingAssumption DEF Core, Flow, Replies
<1>10. c \in Creators => target[c] = [intent |-> c, revision |-> 0]
  BY Knows
<1>11. Fits(c)
  BY <1>1, <1>2, <1>5, <1>6, <1>7, <1>8, <1>9, <1>10 DEF Fits, Steps
<1>12. Core'
  BY <1>1, <1>3, <1>4, <1>11, OwnStep
<1>13. c \in repeats' /\ pc'[c] = "done" => answer'[c] = "replayed"
  BY <1>7, <1>8
<1> QED BY <1>3, <1>4, <1>12, <1>13, OwnAnswer

LEMMA SubmitStep ==
  ASSUME Core, NEW c \in Calls, SubmitForm(c)
  PROVE  Core' /\ (RetriesAreAnswered => RetriesAreAnswered')
<1> USE DEF SubmitForm, Finish, Continue
<1>1. c \notin committed /\ c \in Human /\ c \notin Cmo /\ c \notin Creators /\ Ask[c].form \in Forms
  BY Fresh, Asked
<1>2. /\ repeats' \subseteq Calls /\ repeats' \ {c} = repeats \ {c}
      /\ c \in repeats' => \E d \in Earlier(c) : SameAsk(c, d)
  BY BeginStep
<1>3. form[Ask[c].form] \in Target \cup {NoTarget} /\ status[form[Ask[c].form].intent] # "none"
  BY <1>1 DEF Core, TypeOK, Flow
<1>4. TypeOK'
  BY <1>2, <1>3 DEF Core, TypeOK, ConversationsTypeOK, Steps
<1>5. Others(c)
  BY <1>2 DEF Core, TypeOK, Others
<1>6. pc'[c] = "commit" /\ target'[c] = form[Ask[c].form] /\ answer'[c] = answer[c]
  BY DEF Core, TypeOK
<1>7. answer[c] = None
  BY DEF Core, Flow
<1>8. \A d \in Earlier(c) : target[d] = form[Ask[c].form]
  <2> TAKE d \in Earlier(c)
  <2>1. /\ d \in Calls /\ d \in committed /\ Key[d] = Key[c] /\ d \notin Cmo
    BY <1>1, LikeBound
  <2>2. d \in Human /\ Ask[d].form = Ask[c].form /\ pc[d] = "done"
    BY <1>1, <2>1, Alike, Asked, Knows
  <2> QED BY <2>1, <2>2 DEF Core, Flow
<1>9. Fits(c)
  BY <1>1, <1>2, <1>3, <1>6, <1>7, <1>8 DEF Fits
<1>10. Core'
  BY <1>1, <1>4, <1>5, <1>9, OwnStep
<1>11. c \in repeats' /\ pc'[c] = "done" => answer'[c] = "replayed"
  BY <1>6
<1> QED BY <1>4, <1>5, <1>10, <1>11, OwnAnswer

LEMMA ReplayStep ==
  ASSUME Core, NEW c \in Calls, ReadReplay(c)
  PROVE  Core' /\ (RetriesAreAnswered => RetriesAreAnswered')
<1> USE DEF ReadReplay, Finish, Continue
<1>1. /\ c \notin committed /\ c \in Cmo /\ c \notin Human /\ Ask[c].kind = "refine"
      /\ c \notin Creators /\ Bound(c) /\ answer[c] = None
  BY Fresh, Asked DEF Core, Flow, Authority, Steps, Creators
<1>2. CASE Earlier(c) # {}
  <2>1. PICK d \in Earlier(c) : target' = [target EXCEPT ![c] = target[d]] /\ Continue(c, "commit")
    BY <1>2
  <2>2. /\ d \in Calls /\ Key[d] = Key[c] /\ d \in Cmo
        /\ target[d] \in Target /\ status[target[d].intent] # "none"
    BY <1>1, LikeBound
  <2>3. SameAsk(c, d)
    BY <1>1, <2>2, Alike DEF SameAsk
  <2>4. TypeOK'
    BY <2>1, <2>2 DEF Core, TypeOK, ConversationsTypeOK, Steps
  <2>5. Others(c)
    BY <2>1 DEF Core, TypeOK, Others
  <2>6. pc'[c] = "commit" /\ target'[c] = target[d] /\ answer'[c] = answer[c] /\ target[d] # NoTarget
    BY <2>1, <2>2, Created DEF Core, TypeOK
  <2>7. Fits(c)
    BY <1>1, <2>2, <2>3, <2>6 DEF Fits
  <2>8. Core'
    BY <1>1, <2>4, <2>5, <2>7, OwnStep
  <2> QED BY <2>4, <2>5, <2>6, <2>8, OwnAnswer
<1>3. CASE Earlier(c) = {}
  <2>1. Continue(c, "turn") /\ UNCHANGED target
    BY <1>3
  <2>2. c \notin repeats
    BY <1>3 DEF Core, Repeating
  <2>3. TypeOK'
    BY <2>1 DEF Core, TypeOK, ConversationsTypeOK, Steps
  <2>4. Others(c)
    BY <2>1 DEF Core, TypeOK, Others
  <2>5. pc'[c] = "turn" /\ answer'[c] = answer[c]
    BY <2>1 DEF Core, TypeOK
  <2>6. Fits(c)
    BY <1>1, <2>2, <2>5 DEF Fits
  <2>7. Core'
    BY <1>1, <2>3, <2>4, <2>6, OwnStep
  <2> QED BY <2>2, <2>3, <2>4, <2>7, OwnAnswer
<1> QED BY <1>2, <1>3

\* Looking for an Intent: c goes on to look, takes a target, or ends.
LEMMA LookStep ==
  ASSUME Core, NEW c \in Calls, pc[c] \in {"turn", "active", "conversation", "brand"},
         UNCHANGED <<conversations, intentRows, form, repeats>>,
         \/ \E a \in Replies : Finish(c, a) /\ UNCHANGED target
         \/ \E next \in {"conversation", "brand"} : Continue(c, next) /\ UNCHANGED target
         \/ \E i \in Creators, n \in Nat, next \in {"active", "commit"} :
              /\ status[i] # "none" /\ Continue(c, next)
              /\ target' = [target EXCEPT ![c] = [intent |-> i, revision |-> n]]
  PROVE  Core' /\ (RetriesAreAnswered => RetriesAreAnswered')
<1> USE DEF Finish, Continue
<1>1. /\ c \notin committed /\ c \in Cmo /\ c \notin Human /\ Ask[c].kind = "refine"
      /\ c \notin Creators /\ Bound(c) /\ answer[c] = None /\ c \notin repeats
  BY Fresh, NoRepeat, Asked DEF Core, Flow, Authority, Steps, Creators
<1>2. CASE \E a \in Replies : Finish(c, a) /\ UNCHANGED target
  <2>1. TypeOK' /\ Others(c) /\ pc'[c] = "done" /\ answer'[c] # None
    BY <1>2, NothingAssumption DEF Core, TypeOK, ConversationsTypeOK, Steps, Others
  <2>2. Fits(c)
    BY <1>1, <2>1 DEF Fits
  <2>3. Core'
    BY <1>1, <2>1, <2>2, OwnStep
  <2> QED BY <1>1, <2>1, <2>3, OwnAnswer
<1>3. CASE \E next \in {"conversation", "brand"} : Continue(c, next) /\ UNCHANGED target
  <2>1. TypeOK' /\ Others(c) /\ pc'[c] \in {"conversation", "brand"} /\ answer'[c] = None
    BY <1>1, <1>3 DEF Core, TypeOK, ConversationsTypeOK, Steps, Others
  <2>2. Fits(c)
    BY <1>1, <2>1 DEF Fits
  <2>3. Core'
    BY <1>1, <2>1, <2>2, OwnStep
  <2> QED BY <1>1, <2>1, <2>3, OwnAnswer
<1>4. CASE \E i \in Creators, n \in Nat, next \in {"active", "commit"} :
              /\ status[i] # "none" /\ Continue(c, next)
              /\ target' = [target EXCEPT ![c] = [intent |-> i, revision |-> n]]
  <2>1. PICK i \in Creators, n \in Nat, next \in {"active", "commit"} :
              /\ status[i] # "none" /\ Continue(c, next)
              /\ target' = [target EXCEPT ![c] = [intent |-> i, revision |-> n]]
    BY <1>4
  <2>2. [intent |-> i, revision |-> n] \in Target
    BY DEF Target
  <2>3. TypeOK' /\ Others(c)
    BY <2>1, <2>2 DEF Core, TypeOK, ConversationsTypeOK, Steps, Others
  <2>4. /\ pc'[c] \in {"active", "commit"} /\ answer'[c] = None
        /\ target'[c] \in Target /\ target'[c].intent = i
    BY <1>1, <2>1, <2>2 DEF Core, TypeOK
  <2>5. Fits(c)
    BY <1>1, <2>1, <2>4, Created DEF Fits
  <2>6. Core'
    BY <1>1, <2>3, <2>5, OwnStep
  <2> QED BY <1>1, <2>3, <2>4, <2>6, OwnAnswer
<1> QED BY <1>2, <1>3, <1>4

\* The Intents that were spoken of are Intents.
LEMMA Spoken ==
  ASSUME Core, NEW c, NEW d \in SpokenOf(c)
  PROVE  target[d].intent \in Creators /\ status[target[d].intent] # "none"
<1>1. d \in committed /\ d \in Calls
  BY DEF SpokenOf, Core, TypeOK
<1> QED BY <1>1, Knows

LEMMA TurnStep ==
  ASSUME Core, NEW c \in Calls, ReadTurn(c)
  PROVE  Core' /\ (RetriesAreAnswered => RetriesAreAnswered')
<1>1. CASE \E i \in TurnIntents(c) : /\ target' = [target EXCEPT ![c].intent = i]
                                     /\ Continue(c, "active")
  <2>1. PICK i \in TurnIntents(c) : /\ target' = [target EXCEPT ![c].intent = i]
                                    /\ Continue(c, "active")
    BY <1>1
  <2>2. i \in Creators /\ status[i] # "none"
    BY Spoken DEF TurnIntents
  <2>3. target[c] \in Target \cup {NoTarget} /\ target \in [Calls -> Target \cup {NoTarget}]
    BY Knows DEF Core, TypeOK
  <2>4. [target[c] EXCEPT !.intent = i] = [intent |-> i, revision |-> target[c].revision]
    BY <2>3 DEF Target, NoTarget
  <2>5. target[c].revision \in Nat
    BY <2>3 DEF Target, NoTarget
  <2>6. target' = [target EXCEPT ![c] = [intent |-> i, revision |-> target[c].revision]]
    BY <2>1, <2>4
  <2> QED BY <2>1, <2>2, <2>5, <2>6, LookStep DEF ReadTurn
<1>2. CASE Continue(c, "conversation") /\ UNCHANGED target
  BY <1>2, LookStep DEF ReadTurn
<1>3. CASE Finish(c, "ambiguous") /\ UNCHANGED target
  BY <1>3, LookStep DEF ReadTurn, Replies
<1> QED BY <1>1, <1>2, <1>3 DEF ReadTurn

LEMMA ChooseStep ==
  ASSUME Core, NEW c \in Calls, pc[c] \in {"turn", "active", "conversation", "brand"},
         UNCHANGED <<conversations, intentRows, form, repeats>>,
         NEW i \in Creators, status[i] = "active", Choose(c, i)
  PROVE  Core' /\ (RetriesAreAnswered => RetriesAreAnswered')
<1>1. revision[i] \in Nat
  BY DEF Core, TypeOK
<1> QED BY <1>1, LookStep DEF Choose

LEMMA ActiveStep ==
  ASSUME Core, NEW c \in Calls, ReadActive(c)
  PROVE  Core' /\ (RetriesAreAnswered => RetriesAreAnswered')
<1>1. target[c].intent \in Creators
  <2>1. c \notin Creators
    BY DEF Core, Flow, Creators, ReadActive
  <2>2. target[c] # NoTarget
    BY <2>1 DEF Core, Flow, ReadActive
  <2> QED BY <2>2, Knows
<1>2. CASE status[target[c].intent] = "active"
  BY <1>1, <1>2, ChooseStep DEF ReadActive
<1>3. CASE status[target[c].intent] # "active"
  BY <1>3, LookStep DEF ReadActive, Replies
<1> QED BY <1>2, <1>3

LEMMA ReadConversationStep ==
  ASSUME Core, NEW c \in Calls, ReadConversation(c)
  PROVE  Core' /\ (RetriesAreAnswered => RetriesAreAnswered')
<1> DEFINE S == Active({target[d].intent : d \in SpokenOf(c)})
<1>1. CASE \E i \in S : Choose(c, i)
  <2>1. PICK i \in S : Choose(c, i)
    BY <1>1
  <2>2. i \in Creators /\ status[i] = "active"
    BY Spoken DEF Active
  <2> QED BY <2>1, <2>2, ChooseStep DEF ReadConversation
<1>2. CASE Continue(c, "brand") /\ UNCHANGED target
  BY <1>2, LookStep DEF ReadConversation
<1>3. CASE Finish(c, "ambiguous") /\ UNCHANGED target
  BY <1>3, LookStep DEF ReadConversation, Replies
<1> QED BY <1>1, <1>2, <1>3 DEF ReadConversation, Only

LEMMA ReadBrandStep ==
  ASSUME Core, NEW c \in Calls, ReadBrand(c)
  PROVE  Core' /\ (RetriesAreAnswered => RetriesAreAnswered')
<1>1. CASE \E i \in Active(Creators) : Choose(c, i)
  <2>1. PICK i \in Active(Creators) : Choose(c, i)
    BY <1>1
  <2>2. i \in Creators /\ status[i] = "active"
    BY DEF Active
  <2> QED BY <2>1, <2>2, ChooseStep DEF ReadBrand
<1>2. CASE Finish(c, "no_active_intent") /\ UNCHANGED target
  BY <1>2, LookStep DEF ReadBrand, Replies
<1>3. CASE Finish(c, "ambiguous") /\ UNCHANGED target
  BY <1>3, LookStep DEF ReadBrand, Replies
<1> QED BY <1>1, <1>2, <1>3 DEF ReadBrand, Only

-----------------------------------------------------------------------------
(* Forms.                                                                  *)

LEMMA OpenStep ==
  ASSUME Core, NEW f \in Forms, NEW i \in Creators, OpenForm(f, i)
  PROVE  Core' /\ (RetriesAreAnswered => RetriesAreAnswered')
<1> USE DEF OpenForm
<1>1. [intent |-> i, revision |-> revision[i]] \in Target /\ form \in [Forms -> Target \cup {NoTarget}]
  BY DEF Target, Core, TypeOK
<1>2. TypeOK'
  BY <1>1 DEF Core, TypeOK, ConversationsTypeOK
<1>3. Flow'
  <2>1. \A g \in Forms : form[g] # NoTarget => form'[g] = form[g]
    BY <1>1
  <2>2. ASSUME NEW g \in Forms, form'[g] # NoTarget
        PROVE  status[form'[g].intent] # "none"
    <3>1. CASE g = f
      BY <1>1, <3>1
    <3>2. CASE g # f
      BY <1>1, <2>2, <3>2 DEF Core, Flow
    <3> QED BY <3>1, <3>2
  <2>3. \A c \in Calls : c \in Human => Ask[c].form \in Forms
    BY Asked
  <2>4. \A c \in Calls : c \in Human /\ pc[c] # "new" =>
          form'[Ask[c].form] # NoTarget /\ target[c] = form'[Ask[c].form]
    BY <2>1, <2>3 DEF Core, Flow
  <2> QED BY <2>2, <2>4 DEF Core, Flow
<1>4. Binding' /\ Authority' /\ History' /\ Repeating'
  BY DEF Core, Binding, Authority, Bound, History, Repeating, Earlier, SameRequest
<1> QED BY <1>2, <1>3, <1>4 DEF Core, RetriesAreAnswered

-----------------------------------------------------------------------------
(* The transaction.                                                        *)

\* What is known when c commits.
LEMMA Commits ==
  ASSUME Core, NEW c \in Calls, pc[c] = "commit"
  PROVE  /\ c \notin committed /\ target[c] \in Target /\ target[c].intent \in Creators
         /\ target[c].revision \in Nat /\ answer[c] = None /\ (c \in Cmo => Bound(c))
<1>1. c \notin committed /\ answer[c] = None
  BY Fresh DEF Core, Flow
<1>2. target[c] \in Target
  <2>1. CASE c \in Creators
    <3>1. target[c] = [intent |-> c, revision |-> 0]
      BY <2>1, Knows
    <3> QED BY <2>1, <3>1 DEF Target
  <2>2. CASE c \notin Creators
    BY <2>2 DEF Core, Flow, TypeOK
  <2> QED BY <2>1, <2>2
<1>3. c \in Cmo => Bound(c)
  BY DEF Core, Authority, Steps
<1> QED BY <1>1, <1>2, <1>3, Knows

\* A reply that changes nothing.
LEMMA ReplyStep ==
  ASSUME Core, NEW c \in Calls, Mutate(c), Reply(c) # "ok"
  PROVE  Core' /\ (RetriesAreAnswered => RetriesAreAnswered')
<1>1. c \notin committed /\ answer[c] = None /\ pc[c] = "commit" /\ (c \in Cmo => Bound(c))
  BY Commits DEF Mutate
<1>2. Reply(c) \in Replies /\ Reply(c) # None
  <2>1. Refusal(Ask[c].kind) \in Replies
    BY DEF Refusal, Replies
  <2>2. Reply(c) \in Replies
    BY <2>1 DEF Reply, Replies
  <2> QED BY <2>2, NothingAssumption
<1>3. /\ UNCHANGED <<conversations, intentRows, form, target, repeats>>
      /\ pc' = [pc EXCEPT ![c] = "done"] /\ answer' = [answer EXCEPT ![c] = Reply(c)]
  BY DEF Mutate, Finish
<1> HIDE DEF Reply
<1>4. TypeOK' /\ Others(c) /\ pc'[c] = "done" /\ answer'[c] = Reply(c)
  BY <1>2, <1>3 DEF Core, TypeOK, ConversationsTypeOK, Steps, Others
<1>5. c \in repeats => \E d \in Earlier(c) : SameAsk(c, d) /\ SameRequest(c, d)
  BY <1>1 DEF Core, Repeating
<1>6. Fits(c)
  <2>1. c \in Creators => target[c] = [intent |-> c, revision |-> 0]
    BY Knows
  <2>2. c \in Human => form[Ask[c].form] # NoTarget /\ target[c] = form[Ask[c].form]
    BY <1>1 DEF Core, Flow
  <2> QED BY <1>2, <1>3, <1>4, <1>5, <2>1, <2>2 DEF Fits
<1>7. Core'
  BY <1>1, <1>3, <1>4, <1>6, OwnStep
<1>8. c \in repeats => Reply(c) = "replayed"
  BY <1>1, <1>5 DEF Reply
<1> QED BY <1>3, <1>4, <1>7, <1>8, OwnAnswer

\* What it takes to be told "ok".
LEMMA Accepted ==
  ASSUME Core, NEW c \in Calls, Mutate(c), Reply(c) = "ok"
  PROVE  /\ Earlier(c) = {} /\ Write(c) /\ Current(c)
         /\ pc' = [pc EXCEPT ![c] = "done"] /\ answer' = [answer EXCEPT ![c] = "ok"]
         /\ UNCHANGED <<conversations, form, target, repeats>>
<1>1. Earlier(c) = {}
  BY DEF Reply
<1>2. Write(c)
  BY DEF Mutate
<1> QED BY <1>1, <1>2 DEF Mutate, Finish, Write

LEMMA Statuses ==
  ASSUME NEW kind \in Kinds
  PROVE  /\ To(kind) \in {"draft", "active", "abandoned"}
         /\ "none" \in From(kind) <=> kind \in {"declare", "propose"}
BY DEF From, To, Kinds

LEMMA WriteHistory ==
  ASSUME Core, NEW c \in Calls, pc[c] = "commit", Write(c), Earlier(c) = {},
         pc' = [pc EXCEPT ![c] = "done"], UNCHANGED target
  PROVE  History'
<1> DEFINE i == target[c].intent
<1>1. /\ c \notin committed /\ target[c] \in Target /\ i \in Creators /\ target[c].revision \in Nat
      /\ target[c] # NoTarget
  BY Commits, Created
<1>2. /\ status[i] \in From(Ask[c].kind) /\ revision[i] = target[c].revision
      /\ status' = [status EXCEPT ![i] = To(Ask[c].kind)]
      /\ revision' = [revision EXCEPT ![i] = @ + 1]
      /\ content' = [content EXCEPT ![i] = IF Writes(Ask[c].kind) THEN Ask[c].content ELSE @]
      /\ committed' = committed \cup {c}
  BY DEF Write, Current
<1>3. target[c] = [intent |-> i, revision |-> revision[i]]
  BY <1>1, <1>2 DEF Target
<1> HIDE DEF i
<1>4. /\ status \in [Creators -> {"none", "draft", "active", "abandoned"}]
      /\ revision \in [Creators -> Nat] /\ content \in [Creators -> Contents]
      /\ pc \in [Calls -> Steps] /\ committed \subseteq Calls
  BY DEF Core, TypeOK
<1>5. /\ revision'[i] = revision[i] + 1 /\ status'[i] = To(Ask[c].kind) /\ status'[i] # "none"
      /\ \A j \in Creators \ {i} : /\ revision'[j] = revision[j] /\ status'[j] = status[j]
                                    /\ content'[j] = content[j]
      /\ content'[i] = IF Writes(Ask[c].kind) THEN Ask[c].content ELSE content[i]
  BY <1>1, <1>2, <1>4, Asked, Statuses
<1>6. \A d \in committed : /\ d \in Calls /\ pc[d] = "done" /\ target[d] \in Target
                           /\ target[d].revision < revision[target[d].intent]
                           /\ target[d].intent \in Creators /\ target[d].revision \in Nat
                           /\ target[d] # NoTarget
  BY <1>4, Knows, Created
<1>7. \A d \in committed' : /\ pc'[d] = "done" /\ target[d] # NoTarget
                            /\ target[d].revision < revision'[target[d].intent]
                            /\ d \in Creators => target[d] = [intent |-> d, revision |-> 0]
  <2> TAKE d \in committed'
  <2>1. CASE d = c
    BY <1>1, <1>3, <1>4, <1>5, <2>1, Knows
  <2>2. CASE d # c
    <3>1. d \in committed
      BY <1>2, <2>2
    <3>2. revision[target[d].intent] \leq revision'[target[d].intent]
      BY <1>4, <1>5, <1>6, <3>1
    <3>3. revision[target[d].intent] \in Nat /\ revision'[target[d].intent] \in Nat
      BY <1>1, <1>4, <1>5, <1>6, <3>1
    <3> QED BY <1>4, <1>6, <2>2, <3>1, <3>2, <3>3, Knows
  <2> QED BY <2>1, <2>2
<1>8. \A d, e \in committed' : target[d] = target[e] => d = e
  <2>1. \A d \in committed : target[d] # target[c]
    BY <1>2, <1>1, <1>3, <1>4, <1>6
  <2>2. \A d, e \in committed : target[d] = target[e] => d = e
    BY DEF Core, History
  <2> QED BY <1>2, <2>1, <2>2
<1>9. \A d \in committed' : Earlier(d)' = {d}
  <2> TAKE d \in committed'
  <2>1. Earlier(d)' = {e \in committed \cup {c} : (d \in Cmo <=> e \in Cmo) /\ Key[e] = Key[d]}
    BY <1>2 DEF Earlier
  <2>2. CASE d = c
    BY <2>1, <2>2 DEF Earlier
  <2>3. CASE d # c
    <3>1. d \in committed /\ Earlier(d) = {d}
      BY <1>2, <2>3 DEF Core, History
    <3>2. ~((d \in Cmo <=> c \in Cmo) /\ Key[c] = Key[d])
      BY <3>1 DEF Earlier
    <3> QED BY <2>1, <3>1, <3>2 DEF Earlier
  <2> QED BY <2>2, <2>3
<1>10. ASSUME NEW j \in Creators
       PROVE  /\ status'[j] = "none" <=> revision'[j] = 0
              /\ \A n \in 0 .. revision'[j] - 1 :
                   \E d \in committed' : target[d] = [intent |-> j, revision |-> n]
              /\ revision'[j] > 0 =>
                   \E d \in committed' : /\ target[d] = [intent |-> j, revision |-> revision'[j] - 1]
                                         /\ status'[j] = To(Ask[d].kind)
  <2>1. /\ status[j] = "none" <=> revision[j] = 0
        /\ \A n \in 0 .. revision[j] - 1 :
             \E d \in committed : target[d] = [intent |-> j, revision |-> n]
        /\ revision[j] > 0 =>
             \E d \in committed : /\ target[d] = [intent |-> j, revision |-> revision[j] - 1]
                                  /\ status[j] = To(Ask[d].kind)
    BY DEF Core, History
  <2>2. CASE j # i
    BY <1>2, <1>5, <2>1, <2>2
  <2>3. CASE j = i
    <3>1. revision[i] \in Nat /\ revision'[i] - 1 = revision[i] /\ revision'[i] # 0
      BY <1>1, <1>4, <1>5
    <3>2. \A n \in 0 .. revision'[i] - 1 : n = revision[i] \/ n \in 0 .. revision[i] - 1
      BY <3>1
    <3>3. c \in committed'
      BY <1>2
    <3>4. target[c] = [intent |-> j, revision |-> revision'[j] - 1] /\ status'[j] = To(Ask[c].kind)
      BY <1>3, <1>5, <2>3, <3>1
    <3>5. status'[j] # "none" /\ revision'[j] # 0
      BY <1>5, <2>3, <3>1
    <3>6. ASSUME NEW n \in 0 .. revision'[j] - 1
          PROVE  \E d \in committed' : target[d] = [intent |-> j, revision |-> n]
      <4>1. CASE n = revision[i]
        BY <1>3, <2>3, <3>3, <4>1
      <4>2. CASE n \in 0 .. revision[i] - 1
        BY <1>2, <2>1, <2>3, <4>2
      <4> QED BY <2>3, <3>2, <4>1, <4>2
    <3> QED BY <3>3, <3>4, <3>5, <3>6
  <2> QED BY <2>2, <2>3
<1>11. ASSUME NEW j \in Creators, revision'[j] > 0
       PROVE  \E d \in committed' :
                /\ target[d].intent = j /\ Writes(Ask[d].kind) /\ content'[j] = Ask[d].content
                /\ \A e \in committed' : target[e].intent = j /\ Writes(Ask[e].kind) =>
                     target[e].revision \leq target[d].revision
  <2> DEFINE Last(d) == /\ target[d].intent = j /\ Writes(Ask[d].kind) /\ content[j] = Ask[d].content
                        /\ \A e \in committed : target[e].intent = j /\ Writes(Ask[e].kind) =>
                             target[e].revision \leq target[d].revision
  <2>1. revision[j] > 0 => \E d \in committed : Last(d)
    BY DEF Core, History
  <2>2. CASE j # i
    <3>1. target[c].intent # j /\ revision[j] > 0
      BY <1>5, <2>2, <1>11 DEF i
    <3>2. PICK d \in committed : Last(d)
      BY <2>1, <3>1
    <3> QED BY <1>2, <1>5, <2>2, <3>1, <3>2
  <2>3. CASE j = i /\ Writes(Ask[c].kind)
    <3>1. \A e \in committed : target[e].intent = i => target[e].revision \leq target[c].revision
      BY <1>1, <1>2, <1>6
    <3>2. target[c].revision \leq target[c].revision
      BY <1>1
    <3>3. c \in committed' /\ target[c].intent = i /\ content'[i] = Ask[c].content
      BY <1>2, <1>5, <2>3 DEF i
    <3> QED BY <1>2, <2>3, <3>1, <3>2, <3>3
  <2>4. CASE j = i /\ ~Writes(Ask[c].kind)
    <3>1. "none" \notin From(Ask[c].kind)
      BY <2>4, Asked, Statuses DEF Writes
    <3>2. revision[i] > 0
      <4>1. status[i] # "none"
        BY <1>2, <3>1
      <4>2. status[i] = "none" <=> revision[i] = 0
        BY <1>1 DEF Core, History
      <4> QED BY <1>1, <1>4, <4>1, <4>2
    <3>3. PICK d \in committed : Last(d)
      BY <2>1, <2>4, <3>2
    <3> QED BY <1>2, <1>5, <2>4, <3>3
  <2> QED BY <2>2, <2>3, <2>4
<1> QED BY <1>7, <1>8, <1>9, <1>10, <1>11 DEF History

LEMMA WriteStep ==
  ASSUME Core, NEW c \in Calls, Mutate(c), Reply(c) = "ok"
  PROVE  Core' /\ (RetriesAreAnswered => RetriesAreAnswered')
<1>1. /\ Earlier(c) = {} /\ Write(c) /\ pc[c] = "commit"
      /\ pc' = [pc EXCEPT ![c] = "done"] /\ answer' = [answer EXCEPT ![c] = "ok"]
      /\ UNCHANGED <<conversations, form, target, repeats>>
  BY Accepted DEF Mutate
<1>2. /\ c \notin committed /\ target[c] \in Target /\ target[c].intent \in Creators
      /\ (c \in Cmo => Bound(c)) /\ c \notin repeats
  BY <1>1, Commits DEF Core, Repeating
<1>3. /\ status' = [status EXCEPT ![target[c].intent] = To(Ask[c].kind)]
      /\ revision' = [revision EXCEPT ![target[c].intent] = @ + 1]
      /\ content' = [content EXCEPT ![target[c].intent] =
                       IF Writes(Ask[c].kind) THEN Ask[c].content ELSE @]
      /\ committed' = committed \cup {c}
  BY <1>1 DEF Write
<1>4. To(Ask[c].kind) \in {"draft", "active", "abandoned"} /\ Ask[c].content \in Contents
  BY Asked, Statuses
<1>5. TypeOK'
  <2>1. /\ status' \in [Creators -> {"none", "draft", "active", "abandoned"}]
        /\ revision' \in [Creators -> Nat] /\ content' \in [Creators -> Contents]
        /\ committed' \subseteq Calls
    BY <1>2, <1>3, <1>4 DEF Core, TypeOK
  <2>2. pc' \in [Calls -> Steps] /\ answer' \in [Calls -> Replies \cup {None}]
    BY <1>1 DEF Core, TypeOK, Steps, Replies
  <2> QED BY <1>1, <2>1, <2>2 DEF Core, TypeOK, ConversationsTypeOK
<1>6. Binding'
  BY <1>1 DEF Core, Binding
<1>7. /\ pc'[c] = "done" /\ answer'[c] = "ok"
      /\ \A d \in Calls \ {c} : pc'[d] = pc[d] /\ answer'[d] = answer[d]
  BY <1>1 DEF Core, TypeOK
<1>8. Authority'
  <2> SUFFICES ASSUME NEW d \in Cmo, pc'[d] \in Steps \ {"new", "done"} \/ d \in committed'
               PROVE  Bound(d)
    BY <1>1 DEF Authority, Bound
  <2>1. d \in Calls
    BY DEF Cmo
  <2> QED BY <1>2, <1>3, <1>7, <2>1 DEF Core, Authority
<1>9. History'
  BY <1>1, WriteHistory
<1>10. \A j \in Creators : status[j] # "none" => status'[j] # "none"
  BY <1>2, <1>3, <1>4 DEF Core, TypeOK
<1>11. Flow'
  <2>1. ASSUME NEW f \in Forms, form[f] # NoTarget
        PROVE  status'[form[f].intent] # "none"
    <3>1. form[f] \in Target
      BY <2>1 DEF Core, TypeOK
    <3>2. form[f].intent \in Creators
      BY <3>1 DEF Target
    <3> QED BY <1>10, <2>1, <3>2 DEF Core, Flow
  <2>2. ASSUME NEW d \in Calls
        PROVE
         /\ pc'[d] \in {"replay", "turn", "active", "conversation", "brand"} =>
              d \in Cmo /\ Ask[d].kind = "refine"
         /\ pc'[d] \in {"active", "commit"} /\ d \notin Creators =>
              target[d] # NoTarget /\ status'[target[d].intent] # "none"
         /\ d \in Creators => target[d] = [intent |-> d, revision |-> 0]
         /\ d \in Human /\ pc'[d] # "new" =>
              form[Ask[d].form] # NoTarget /\ target[d] = form[Ask[d].form]
         /\ answer'[d] = None <=> pc'[d] # "done"
    <3>1. /\ pc[d] \in {"replay", "turn", "active", "conversation", "brand"} =>
               d \in Cmo /\ Ask[d].kind = "refine"
          /\ pc[d] \in {"active", "commit"} /\ d \notin Creators =>
               target[d] # NoTarget /\ status[target[d].intent] # "none"
          /\ d \in Creators => target[d] = [intent |-> d, revision |-> 0]
          /\ d \in Human /\ pc[d] # "new" =>
               form[Ask[d].form] # NoTarget /\ target[d] = form[Ask[d].form]
          /\ answer[d] = None <=> pc[d] # "done"
      BY DEF Core, Flow
    <3>2. target[d] # NoTarget => target[d].intent \in Creators
      BY Knows
    <3>3. "ok" # None
      BY NothingAssumption DEF Replies
    <3>4. CASE d = c
      BY <1>1, <1>7, <3>1, <3>3, <3>4
    <3>5. CASE d # c
      BY <1>7, <1>10, <3>1, <3>2, <3>5
    <3> QED BY <3>4, <3>5
  <2> QED BY <1>1, <2>1, <2>2 DEF Flow
<1>12. Repeating'
  <2> SUFFICES ASSUME NEW d \in repeats
               PROVE  /\ pc'[d] \in {"replay", "commit", "done"} /\ d \notin committed'
                      /\ \E e \in Earlier(d)' :
                           SameAsk(d, e) /\ (pc'[d] = "commit" => SameRequest(d, e))
    BY <1>1 DEF Repeating, SameAsk, SameRequest
  <2>1. d \in Calls /\ d # c
    BY <1>2 DEF Core, TypeOK
  <2>2. /\ pc[d] \in {"replay", "commit", "done"} /\ d \notin committed
        /\ \E e \in Earlier(d) : SameAsk(d, e) /\ (pc[d] = "commit" => SameRequest(d, e))
    BY DEF Core, Repeating
  <2>3. Earlier(d) \subseteq Earlier(d)'
    BY <1>3 DEF Earlier
  <2> QED BY <1>3, <1>7, <2>1, <2>2, <2>3
<1>13. RetriesAreAnswered => RetriesAreAnswered'
  <2> SUFFICES ASSUME RetriesAreAnswered, NEW d \in repeats, pc'[d] = "done"
               PROVE  answer'[d] = "replayed"
    BY <1>1 DEF RetriesAreAnswered
  <2>1. d \in Calls /\ d # c
    BY <1>2 DEF Core, TypeOK
  <2> QED BY <1>7, <2>1 DEF RetriesAreAnswered
<1> QED BY <1>5, <1>6, <1>8, <1>9, <1>11, <1>12, <1>13 DEF Core

-----------------------------------------------------------------------------
(* The results.                                                            *)

LEMMA Start == Init => Core /\ RetriesAreAnswered
<1> SUFFICES ASSUME Init
             PROVE  Core /\ RetriesAreAnswered
  OBVIOUS
<1> USE DEF Init
<1>1. TypeOK
  <2>1. ConversationsTypeOK
    BY DEF ConversationsInit, ConversationsTypeOK
  <2>2. \A c \in Creators : c \in Calls /\ Ask[c].content \in Contents
    BY Created, Asked
  <2>3. target \in [Calls -> Target \cup {NoTarget}]
    BY Created DEF Target
  <2> QED BY <2>1, <2>2, <2>3 DEF TypeOK, Steps
<1>2. Binding
  BY DEF ConversationsInit, Binding
<1>3. Authority
  BY DEF Authority, Cmo
<1>4. History
  <2>1. ASSUME NEW i \in Creators
        PROVE  status[i] = "none" /\ revision[i] = 0 /\ 0 .. revision[i] - 1 = {}
    OBVIOUS
  <2> QED BY <2>1 DEF History
<1>5. Repeating /\ RetriesAreAnswered
  BY DEF Repeating, RetriesAreAnswered
<1>6. Flow
  BY Created DEF Flow
<1> QED BY <1>1, <1>2, <1>3, <1>4, <1>5, <1>6 DEF Core

LEMMA Step ==
  ASSUME Core, RetriesAreAnswered, [Next]_vars
  PROVE  Core' /\ RetriesAreAnswered'
<1>1. CASE ConversationsNext /\ UNCHANGED <<intentRows, form, pc, target, answer, repeats>>
  BY <1>1, ConversationStep
<1>2. CASE \E f \in Forms, i \in Creators : OpenForm(f, i)
  BY <1>2, OpenStep
<1>3. CASE \E c \in Calls : CallNext(c)
  <2> PICK c \in Calls : CallNext(c)
    BY <1>3
  <2>1. CASE ResolveTrustedCmoTurnAccess(c) \/ SubmitForm(c)
    BY <2>1, ResolveStep, SubmitStep
  <2>2. CASE ReadReplay(c) \/ ReadTurn(c) \/ ReadActive(c)
    BY <2>2, ReplayStep, TurnStep, ActiveStep
  <2>3. CASE ReadConversation(c) \/ ReadBrand(c)
    BY <2>3, ReadConversationStep, ReadBrandStep
  <2>4. CASE Mutate(c)
    BY <2>4, ReplyStep, WriteStep
  <2> QED BY <2>1, <2>2, <2>3, <2>4
         DEF CallNext, DeclareIntent, ProposeIntent, RefineIntent, AdoptIntent, AbandonIntent
<1>4. CASE UNCHANGED vars
  <2> USE <1>4 DEF vars
  <2>1. TypeOK' /\ Binding' /\ Authority'
    BY DEF Core, TypeOK, ConversationsTypeOK, Binding, Authority, Bound
  <2>2. History' /\ Flow' /\ Repeating' /\ RetriesAreAnswered'
    BY DEF Core, History, Flow, Repeating, Earlier, SameRequest, RetriesAreAnswered
  <2> QED BY <2>1, <2>2 DEF Core
<1> QED BY <1>1, <1>2, <1>3, <1>4 DEF Next

-----------------------------------------------------------------------------
(* What has been seen of an Intent.                                        *)

\* What a step of c may leave in c's own target.
Sees(c) ==
    c \notin Creators =>
         /\ pc'[c] \in {"new", "replay", "turn", "conversation", "brand"} => target'[c] = NoTarget
         /\ pc'[c] = "active" => target'[c].intent \in TurnIntents(c)
         /\ target'[c] # NoTarget => target'[c].revision \leq revision[target'[c].intent]

LEMMA SeenOwn ==
  ASSUME Core, Seen, NEW c \in Calls, c \notin committed, UNCHANGED <<intentRows, form>>,
         \A d \in Calls \ {c} : pc'[d] = pc[d] /\ target'[d] = target[d], Sees(c)
  PROVE  Seen'
<1>1. committed \subseteq Calls \ {c}
  BY DEF Core, TypeOK
<1>2. \A d \in Calls : TurnIntents(d)' = TurnIntents(d)
  <2> TAKE d \in Calls
  <2>1. \A e \in committed : target'[e] = target[e]
    BY <1>1
  <2> QED BY <2>1 DEF TurnIntents, SpokenOf
<1>3. ASSUME NEW d \in Calls \ Creators
      PROVE  /\ pc'[d] \in {"new", "replay", "turn", "conversation", "brand"} => target'[d] = NoTarget
             /\ pc'[d] = "active" => target'[d].intent \in TurnIntents(d)'
             /\ target'[d] # NoTarget => target'[d].revision \leq revision'[target'[d].intent]
  <2>1. CASE d = c
    BY <1>2, <1>3, <2>1 DEF Sees
  <2>2. CASE d # c
    BY <1>2, <1>3, <2>2 DEF Seen
  <2> QED BY <2>1, <2>2
<1> QED BY <1>3 DEF Seen

\* An early call has no target; a late one keeps what it has.
LEMMA SeenTarget ==
  ASSUME Core, Seen, NEW c \in Calls, NEW i \in Creators
  PROVE  /\ revision[i] \in Nat /\ revision[i] \leq revision[i] /\ 0 \leq revision[i]
         /\ NoTarget.intent = None /\ NoTarget.revision = 0
BY DEF Core, TypeOK, NoTarget

LEMMA SeenRead ==
  ASSUME Core, Seen, NEW c \in Calls,
         \/ ResolveTrustedCmoTurnAccess(c) \/ ReadReplay(c) \/ ReadTurn(c) \/ ReadActive(c)
         \/ ReadConversation(c) \/ ReadBrand(c) \/ SubmitForm(c)
  PROVE  Seen'
<1> USE DEF Finish, Continue
<1>0. pc \in [Calls -> Steps] /\ target \in [Calls -> Target \cup {NoTarget}]
  BY DEF Core, TypeOK
<1>1. c \notin committed
  BY Fresh DEF ResolveTrustedCmoTurnAccess, ReadReplay, ReadTurn, ReadActive, ReadConversation,
               ReadBrand, SubmitForm
<1>2. c \notin Creators =>
         /\ pc[c] \in {"new", "replay", "turn", "conversation", "brand"} => target[c] = NoTarget
         /\ pc[c] = "active" => target[c].intent \in TurnIntents(c)
         /\ target[c] # NoTarget => target[c].revision \leq revision[target[c].intent]
  BY DEF Seen
<1>3. ASSUME UNCHANGED <<intentRows, form, target>>, NEW p, pc' = [pc EXCEPT ![c] = p],
             p \notin {"new", "replay", "turn", "active", "conversation", "brand"} \/
             (target[c] = NoTarget /\ p # "active")
      PROVE  Seen'
  <2>1. Sees(c)
    BY <1>0, <1>2, <1>3 DEF Sees
  <2> QED BY <1>0, <1>1, <1>3, <2>1, SeenOwn
<1>4. ASSUME NEW i \in Creators, UNCHANGED <<intentRows, form>>, Choose(c, i)
      PROVE  Seen'
  <2>1. pc'[c] = "commit" /\ target'[c] = [intent |-> i, revision |-> revision[i]]
    BY <1>0, <1>4 DEF Choose
  <2>2. Sees(c)
    BY <2>1, SeenTarget DEF Sees
  <2> QED BY <1>0, <1>1, <1>4, <2>2, SeenOwn DEF Choose
<1>5. \A S \in SUBSET Creators : Active(S) \subseteq Creators
  BY DEF Active
<1>6. CASE ResolveTrustedCmoTurnAccess(c)
  <2>1. c \notin Creators => target[c] = NoTarget
    BY <1>2, <1>6 DEF ResolveTrustedCmoTurnAccess
  <2>2. PICK p \in {"replay", "commit", "done"} : pc' = [pc EXCEPT ![c] = p]
    BY <1>6 DEF ResolveTrustedCmoTurnAccess
  <2>3. Sees(c) /\ UNCHANGED <<intentRows, form, target>>
    BY <1>0, <1>2, <1>6, <2>1, <2>2 DEF Sees, ResolveTrustedCmoTurnAccess
  <2> QED BY <1>0, <1>1, <2>2, <2>3, SeenOwn
<1>7. CASE ReadReplay(c)
  <2>1. c \notin Creators /\ target[c] = NoTarget
    BY <1>2, <1>7 DEF Core, Flow, Creators, ReadReplay
  <2>2. CASE \E d \in Earlier(c) : target' = [target EXCEPT ![c] = target[d]] /\ Continue(c, "commit")
    <3>1. PICK d \in Earlier(c) : target' = [target EXCEPT ![c] = target[d]] /\ Continue(c, "commit")
      BY <2>2
    <3>2. d \in Calls /\ d \in committed
      BY LikeBound
    <3>3. target[d].revision \leq revision[target[d].intent]
      <4>1. target[d].revision < revision[target[d].intent] /\ target[d].revision \in Nat
            /\ target[d].intent \in Creators
        BY <3>2, Knows
      <4> QED BY <4>1, SeenTarget
    <3>4. Sees(c)
      BY <1>0, <3>1, <3>3 DEF Sees
    <3> QED BY <1>0, <1>1, <1>7, <3>1, <3>4, SeenOwn DEF ReadReplay
  <2>3. CASE Continue(c, "turn") /\ UNCHANGED target
    BY <1>3, <1>7, <2>1, <2>3 DEF ReadReplay
  <2> QED BY <1>7, <2>2, <2>3 DEF ReadReplay
<1>8. CASE ReadTurn(c)
  <2>1. c \notin Creators /\ target[c] = NoTarget
    BY <1>2, <1>8 DEF Core, Flow, Creators, ReadTurn
  <2>2. CASE \E i \in TurnIntents(c) : target' = [target EXCEPT ![c].intent = i] /\ Continue(c, "active")
    <3>1. PICK i \in TurnIntents(c) : target' = [target EXCEPT ![c].intent = i] /\ Continue(c, "active")
      BY <2>2
    <3>2. i \in Creators
      BY Spoken DEF TurnIntents
    <3>3. pc'[c] = "active" /\ target'[c] = [NoTarget EXCEPT !.intent = i]
      BY <1>0, <2>1, <3>1
    <3>4. target'[c].intent = i /\ target'[c].revision = 0
      BY <3>3 DEF NoTarget
    <3>5. Sees(c)
      BY <3>1, <3>2, <3>3, <3>4, SeenTarget DEF Sees
    <3> QED BY <1>0, <1>1, <1>8, <3>1, <3>5, SeenOwn DEF ReadTurn
  <2>3. CASE \/ Continue(c, "conversation") /\ UNCHANGED target
             \/ Finish(c, "ambiguous") /\ UNCHANGED target
    BY <1>3, <1>8, <2>1, <2>3 DEF ReadTurn
  <2> QED BY <1>8, <2>2, <2>3 DEF ReadTurn
<1>9. CASE ReadActive(c)
  <2>1. target[c].intent \in TurnIntents(c)
    BY <1>2, <1>9 DEF Core, Flow, Creators, ReadActive
  <2>2. target[c].intent \in Creators
    BY <2>1, Spoken DEF TurnIntents
  <2> QED BY <1>3, <1>4, <1>9, <2>2 DEF ReadActive
<1>10. CASE ReadConversation(c) \/ ReadBrand(c)
  <2>1. c \notin Creators /\ target[c] = NoTarget
    BY <1>2, <1>10 DEF Core, Flow, Creators, ReadConversation, ReadBrand
  <2>2. {target[d].intent : d \in SpokenOf(c)} \subseteq Creators
    BY Spoken
  <2>3. CASE \E i \in Creators : Choose(c, i)
    BY <1>4, <1>10, <2>3 DEF ReadConversation, ReadBrand
  <2>4. CASE \/ Continue(c, "brand") /\ UNCHANGED target
             \/ Finish(c, "no_active_intent") /\ UNCHANGED target
             \/ Finish(c, "ambiguous") /\ UNCHANGED target
    BY <1>3, <1>10, <2>1, <2>4 DEF ReadConversation, ReadBrand
  <2> QED BY <1>5, <1>10, <2>2, <2>3, <2>4 DEF ReadConversation, ReadBrand, Only
<1>11. CASE SubmitForm(c)
  <2>1. Ask[c].form \in Forms /\ pc'[c] = "commit" /\ target'[c] = form[Ask[c].form]
    BY <1>0, <1>11, Asked DEF SubmitForm
  <2>2. Sees(c)
    BY <2>1 DEF Sees, Seen
  <2> QED BY <1>0, <1>1, <1>11, <2>2, SeenOwn DEF SubmitForm
<1> QED BY <1>6, <1>7, <1>8, <1>9, <1>10, <1>11

LEMMA SeenMutate ==
  ASSUME Core, Seen, NEW c \in Calls, Mutate(c)
  PROVE  Seen'
<1>1. /\ pc[c] = "commit" /\ c \notin committed /\ target[c] \in Target
      /\ target[c].intent \in Creators
  BY Commits DEF Mutate
<1>2. /\ pc' = [pc EXCEPT ![c] = "done"] /\ UNCHANGED <<form, target>>
      /\ UNCHANGED intentRows \/ Write(c)
  BY DEF Mutate, Finish
<1>3. pc \in [Calls -> Steps] /\ revision \in [Creators -> Nat]
  BY DEF Core, TypeOK
<1>4. committed \subseteq committed' /\ \A i \in Creators : revision[i] \leq revision'[i] /\ revision'[i] \in Nat
  BY <1>1, <1>2, <1>3 DEF Write
<1>5. \A d \in Calls : TurnIntents(d) \subseteq TurnIntents(d)'
  BY <1>2, <1>4 DEF TurnIntents, SpokenOf
<1>6. \A r \in Target \cup {NoTarget} : r # NoTarget => r.intent \in Creators /\ r.revision \in Nat
  BY DEF Target
<1>7. form \in [Forms -> Target \cup {NoTarget}] /\ target \in [Calls -> Target \cup {NoTarget}]
  BY DEF Core, TypeOK
<1>8. \A f \in Forms : form[f] # NoTarget => form[f].revision \leq revision'[form[f].intent]
  <2> SUFFICES ASSUME NEW f \in Forms, form[f] # NoTarget
               PROVE  form[f].revision \leq revision'[form[f].intent]
    OBVIOUS
  <2>1. form[f].intent \in Creators /\ form[f].revision \in Nat
    BY <1>6, <1>7
  <2>2. form[f].revision \leq revision[form[f].intent]
    BY DEF Seen
  <2> QED BY <1>3, <1>4, <2>1, <2>2
<1>9. \A d \in Calls \ Creators :
         /\ pc'[d] \in {"new", "replay", "turn", "conversation", "brand"} => target[d] = NoTarget
         /\ pc'[d] = "active" => target[d].intent \in TurnIntents(d)'
         /\ target[d] # NoTarget => target[d].revision \leq revision'[target[d].intent]
  <2> TAKE d \in Calls \ Creators
  <2>1. pc'[d] = pc[d] \/ pc'[d] = "done"
    BY <1>2, <1>3
  <2>2. /\ pc[d] \in {"new", "replay", "turn", "conversation", "brand"} => target[d] = NoTarget
        /\ pc[d] = "active" => target[d].intent \in TurnIntents(d)
        /\ target[d] # NoTarget => target[d].revision \leq revision[target[d].intent]
    BY DEF Seen
  <2>3. target[d] # NoTarget => target[d].intent \in Creators /\ target[d].revision \in Nat
    BY <1>6, <1>7
  <2> QED BY <1>3, <1>4, <1>5, <2>1, <2>2, <2>3
<1> QED BY <1>2, <1>8, <1>9 DEF Seen

LEMMA SeenStep ==
  ASSUME Core, Seen, [Next]_vars
  PROVE  Seen'
<1>1. CASE ConversationsNext /\ UNCHANGED <<intentRows, form, pc, target, answer, repeats>>
  BY <1>1 DEF Seen, TurnIntents, SpokenOf
<1>2. CASE \E f \in Forms, i \in Creators : OpenForm(f, i)
  <2>1. PICK f \in Forms, i \in Creators : OpenForm(f, i)
    BY <1>2
  <2>2. form \in [Forms -> Target \cup {NoTarget}] /\ revision[i] \leq revision[i]
    BY SeenTarget DEF Core, TypeOK
  <2>3. \A g \in Forms : form'[g] # NoTarget => form'[g].revision \leq revision[form'[g].intent]
    BY <2>1, <2>2 DEF OpenForm, Seen
  <2> QED BY <2>1, <2>3 DEF OpenForm, Seen, TurnIntents, SpokenOf
<1>3. CASE \E c \in Calls : CallNext(c)
  BY <1>3, SeenRead, SeenMutate
     DEF CallNext, DeclareIntent, ProposeIntent, RefineIntent, AdoptIntent, AbandonIntent
<1>4. CASE UNCHANGED vars
  BY <1>4 DEF vars, Seen, TurnIntents, SpokenOf
<1> QED BY <1>1, <1>2, <1>3, <1>4 DEF Next

-----------------------------------------------------------------------------
(* The results.                                                            *)

\* Types, the binding of conversations, the authority of the CMO's calls,
\* the history of every Intent, and what has been seen of it.
THEOREM InductiveInvariant == Spec => []IInv
<1>1. Init => Seen
  BY Start DEF Init, Seen, Core, Flow
<1>2. Init => IInv /\ RetriesAreAnswered
  BY <1>1, Start DEF IInv
<1>3. IInv /\ RetriesAreAnswered /\ [Next]_vars => IInv' /\ RetriesAreAnswered'
  BY Step, SeenStep DEF IInv
<1> QED BY <1>2, <1>3, PTL DEF Spec

\* A repeated call is told the same again, whatever happened in between.
THEOREM RetriesAnswered == Spec => []RetriesAreAnswered
BY Start, Step, PTL DEF Spec

-----------------------------------------------------------------------------
(* The words of IntentLine, as the rows and the receipts say them.         *)

\* The line of an Intent is its committed calls, in the order of revisions.
Lined ==
    /\ \A i \in Creators : /\ Line[i] \in Seq(Calls) /\ Len(Line[i]) = revision[i]
                            /\ DOMAIN Line[i] = 1 .. revision[i]
    /\ \A i \in Creators : \A n \in 1 .. revision[i] :
         Line[i][n] \in committed /\ target[Line[i][n]] = [intent |-> i, revision |-> n - 1]
    /\ \A c \in committed :
         LET i == target[c].intent  n == target[c].revision + 1 IN
         i \in Creators /\ n \in 1 .. revision[i] /\ Line[i][n] = c
    /\ Line = [i \in Creators |-> Line[i]]

LEMMA LineIs == Core => Lined
<1> SUFFICES ASSUME Core
             PROVE  Lined
  OBVIOUS
<1>0. revision \in [Creators -> Nat] /\ committed \subseteq Calls
  BY DEF Core, TypeOK
<1>1. ASSUME NEW i \in Creators, NEW n \in 1 .. revision[i]
      PROVE  Line[i][n] \in committed /\ target[Line[i][n]] = [intent |-> i, revision |-> n - 1]
  <2>1. n - 1 \in 0 .. revision[i] - 1
    BY <1>0
  <2>2. \E c \in committed : target[c] = [intent |-> i, revision |-> n - 1]
    <3>1. \A m \in 0 .. revision[i] - 1 :
            \E c \in committed : target[c] = [intent |-> i, revision |-> m]
      BY DEF Core, History
    <3> QED BY <2>1, <3>1
  <2>3. Line[i][n] = CHOOSE c \in committed : target[c] = [intent |-> i, revision |-> n - 1]
    BY DEF Line
  <2> HIDE DEF Line
  <2> QED BY <2>2, <2>3
<1>2. ASSUME NEW i \in Creators
      PROVE  /\ Line[i] \in Seq(Calls) /\ Len(Line[i]) = revision[i]
             /\ DOMAIN Line[i] = 1 .. revision[i]
  <2>1. Line[i] = [n \in 1 .. revision[i] |-> Line[i][n]]
    BY DEF Line
  <2>2. \A n \in 1 .. revision[i] : Line[i][n] \in Calls
    BY <1>0, <1>1
  <2>3. Line[i] \in [1 .. revision[i] -> Calls]
    BY <2>1, <2>2
  <2>4. revision[i] \in Nat
    BY <1>0
  <2> QED BY <2>3, <2>4
<1>3. ASSUME NEW c \in committed
      PROVE  LET i == target[c].intent  n == target[c].revision + 1 IN
             i \in Creators /\ n \in 1 .. revision[i] /\ Line[i][n] = c
  <2> DEFINE i == target[c].intent
             n == target[c].revision + 1
  <2>1. /\ target[c] \in Target /\ target[c].revision < revision[i]
        /\ i \in Creators /\ target[c].revision \in Nat
    BY <1>0, Knows
  <2>2. n \in 1 .. revision[i] /\ n - 1 = target[c].revision
    BY <1>0, <2>1
  <2>3. target[c] = [intent |-> i, revision |-> n - 1]
    BY <2>1, <2>2 DEF Target
  <2>4. Line[i][n] \in committed /\ target[Line[i][n]] = target[c]
    BY <1>1, <2>1, <2>2, <2>3
  <2>5. Line[i][n] = c
    BY <2>4 DEF Core, History
  <2> QED BY <2>1, <2>2, <2>5
<1>4. Line = [i \in Creators |-> Line[i]]
  BY DEF Line
<1> QED BY <1>1, <1>2, <1>3, <1>4 DEF Lined

LEMMA SameIntents == Lines!Intents = Creators
BY DEF Lines!Intents, Creators

LEMMA DoneIs == Core => Lines!Done = committed
<1> SUFFICES ASSUME Core
             PROVE  Lines!Done = committed
  OBVIOUS
<1>1. Lined /\ committed \subseteq Calls
  BY LineIs DEF Core, TypeOK
<1>2. \A i \in Creators : 1 .. Len(Line[i]) = 1 .. revision[i]
  BY <1>1 DEF Lined
<1>3. Lines!Done = {c \in Calls : \E i \in Creators : \E n \in 1 .. revision[i] : Line[i][n] = c}
  BY <1>2, SameIntents DEF Lines!Done
<1>4. ASSUME NEW c \in Calls
      PROVE  c \in committed <=> \E i \in Creators : \E n \in 1 .. revision[i] : Line[i][n] = c
  BY <1>1 DEF Lined
<1> QED BY <1>1, <1>3, <1>4

LEMMA SameSpoken == Lines!Spoken = Cmo
BY DEF Lines!Spoken, Cmo

LEMMA SameOperations ==
  ASSUME NEW c \in Calls, NEW d \in Calls
  PROVE  Lines!SameOperation(c, d) <=> (c \in Cmo <=> d \in Cmo) /\ Key[d] = Key[c]
<1>1. (Ask[c].by = Ask[d].by) <=> (c \in Cmo <=> d \in Cmo)
  BY Asked DEF Cmo, Human
<1>2. c \in Cmo /\ d \in Cmo =>
        (Key[d] = Key[c] <=> /\ Ask[c].kind = Ask[d].kind /\ Ask[c].session = Ask[d].session
                             /\ Ask[c].turn = Ask[d].turn /\ Ask[c].content = Ask[d].content)
  BY DEF Key
<1>3. c \notin Cmo /\ d \notin Cmo =>
        (Key[d] = Key[c] <=> Ask[c].kind = Ask[d].kind /\ Ask[c].form = Ask[d].form)
  BY DEF Key
<1> QED BY <1>1, <1>2, <1>3, SameSpoken DEF Lines!SameOperation

LEMMA SameBefore ==
  ASSUME Core, NEW c \in Calls
  PROVE  Lines!Before(c) = Earlier(c)
<1>1. \A d \in committed : d \in Calls
  BY DEF Core, TypeOK
<1> QED BY <1>1, DoneIs, SameOperations DEF Lines!Before, Earlier

LEMMA SameRepeats ==
  ASSUME NEW c \in Calls, NEW d \in Calls
  PROVE  Lines!Repeats(c, d) <=> SameRequest(c, d)
BY SameIntents DEF Lines!Repeats, SameRequest, SameAsk

LEMMA SameSpeech ==
  ASSUME NEW c
  PROVE  Lines!MaySpeak(c) <=> (c \in Cmo => Bound(c))
BY SameSpoken DEF Lines!MaySpeak, Bound

LEMMA SameTurn ==
  ASSUME Core, NEW c \in Cmo
  PROVE  Lines!OfTurn(c) = TurnIntents(c)
BY DoneIs, SameSpoken DEF Lines!OfTurn, TurnIntents, SpokenOf

LEMMA SameActive == Lines!Active = Active(Creators)
BY SameIntents DEF Lines!Active, Active, Shown

LEMMA SameKinds ==
  ASSUME NEW kind
  PROVE  /\ Lines!MayFind(kind) = From(kind) /\ Lines!Leaves(kind) = To(kind)
         /\ Lines!Rewrites(kind) <=> Writes(kind)
BY DEF Lines!MayFind, From, Lines!Leaves, To, Lines!Rewrites, Writes

LEMMA SameStatus ==
  ASSUME NEW i \in Creators
  PROVE  Shown[i].status = status[i] /\ Shown[i].content = content[i]
BY DEF Shown

\* Targets of calls that committed nothing are in no line.
LEMMA SameLines ==
  ASSUME Core, Core', UNCHANGED intentRows, \A c \in committed : target'[c] = target[c]
  PROVE  Line' = Line /\ Shown' = Shown
<1>1. Lined /\ Lined'
  BY LineIs, PTL
<1>2. ASSUME NEW i \in Creators
      PROVE  Line'[i] = Line[i]
  <2>1. ASSUME NEW n \in 1 .. revision[i]
        PROVE  Line'[i][n] = Line[i][n]
    <3>1. /\ Line[i][n] \in committed /\ Line'[i][n] \in committed
          /\ target'[Line'[i][n]] = [intent |-> i, revision |-> n - 1]
          /\ target[Line[i][n]] = [intent |-> i, revision |-> n - 1]
      BY <1>1 DEF Lined
    <3>2. target[Line'[i][n]] = target[Line[i][n]]
      BY <3>1
    <3> QED BY <3>1, <3>2 DEF Core, History
  <2>2. /\ Line[i] \in Seq(Calls) /\ Line'[i] \in Seq(Calls)
        /\ Len(Line[i]) = revision[i] /\ Len(Line'[i]) = revision[i]
    BY <1>1 DEF Lined
  <2> QED BY <2>1, <2>2, SeqEqual
<1>3. Line = [i \in Creators |-> Line[i]] /\ Line' = [i \in Creators |-> Line'[i]]
  BY <1>1 DEF Lined
<1> QED BY <1>2, <1>3 DEF Shown

-----------------------------------------------------------------------------
(* The steps of IntentLine.                                                *)

LEMMA ConversationLine ==
  ASSUME Core, Core', ConversationsNext,
         UNCHANGED <<intentRows, form, pc, target, answer, repeats>>
  PROVE  [Lines!Next]_(Lines!vars)
<1>1. Line' = Line /\ Shown' = Shown
  BY SameLines
<1>2. \/ bound' = bound
      \/ \E s \in Sessions : /\ bound[Of[s]] = None
                             /\ bound' = [bound EXCEPT ![Of[s]] = s]
  <2>1. PICK s \in Sessions :
          \/ AuthorizeCmoSessionCreation(s) \/ CreateSession(s) \/ BindFromProxy(s)
          \/ ResolveInitialCmoSessionAccess(s) \/ BindFromHook(s)
          \/ Message(s)
    BY DEF ConversationsNext
  <2>2. CASE BindFromProxy(s) \/ BindFromHook(s)
    <3>1. bound \in [ConversationIds -> Sessions \cup {None}]
      BY DEF Core, TypeOK, ConversationsTypeOK
    <3> QED BY <2>2, <3>1 DEF BindFromProxy, BindFromHook, BindCmoSession, Binds
  <2>3. CASE \/ AuthorizeCmoSessionCreation(s) \/ CreateSession(s)
             \/ ResolveInitialCmoSessionAccess(s) \/ Message(s)
    BY <2>3 DEF AuthorizeCmoSessionCreation, CreateSession, ResolveInitialCmoSessionAccess, Message
  <2> QED BY <2>1, <2>2, <2>3
<1>3. CASE bound' = bound
  BY <1>1, <1>3 DEF Lines!vars
<1>4. ASSUME NEW s \in Sessions, bound[Of[s]] = None, bound' = [bound EXCEPT ![Of[s]] = s]
      PROVE  Lines!Bind(s)
  BY <1>1, <1>4 DEF Lines!Bind
<1> QED BY <1>2, <1>3, <1>4 DEF Lines!Next

\* A call is told something, and nothing else changes.
LEMMA TellLine ==
  ASSUME Core, Core', NEW c \in Calls, pc[c] # "done", NEW a \in Replies, Finish(c, a),
         UNCHANGED <<conversations, intentRows, target>>
  PROVE  Lines!Tell(c, a) /\ answer'[c] # answer[c]
<1>1. Line' = Line /\ Shown' = Shown
  BY SameLines
<1>2. answer[c] = None /\ answer \in [Calls -> Replies \cup {None}]
  BY DEF Core, Flow, TypeOK
<1>3. answer'[c] = a /\ a # None
  BY <1>2, NothingAssumption DEF Finish
<1> QED BY <1>1, <1>2, <1>3 DEF Lines!Tell, Finish

LEMMA LookLine ==
  ASSUME Core, Core', NEW c \in Calls, c \notin Creators, pc[c] # "done",
         UNCHANGED <<conversations, intentRows, answer>>,
         NEW i \in Creators, NEW n \in Nat, n \leq revision[i],
         target' = [target EXCEPT ![c] = [intent |-> i, revision |-> n]]
  PROVE  [Lines!Next]_(Lines!vars)
<1>1. c \notin committed /\ answer[c] = None
  BY Fresh DEF Core, Flow
<1>2. Line' = Line /\ Shown' = Shown
  BY <1>1, SameLines
<1>3. Len(Line[i]) = revision[i] /\ n \in 0 .. revision[i]
  BY LineIs DEF Lined, Core, TypeOK
<1>4. CASE target'[c] # target[c]
  <2>1. Lines!Look(c)
    BY <1>1, <1>2, <1>3, <1>4, SameIntents DEF Lines!Look
  <2> QED BY <2>1 DEF Lines!Next
<1>5. CASE target'[c] = target[c]
  <2>1. target' = target
    BY <1>5 DEF Core, TypeOK
  <2> QED BY <1>2, <2>1 DEF Lines!vars, conversations
<1> QED BY <1>4, <1>5

\* A step that nobody outside sees.
LEMMA QuietLine ==
  ASSUME Core, Core', UNCHANGED <<bound, intentRows, target, answer>>
  PROVE  UNCHANGED Lines!vars
BY SameLines DEF Lines!vars

\* More than one.
LEMMA SeveralAre ==
  ASSUME NEW S, Cardinality(S) > 1
  PROVE  \E i, j \in S : i # j
<1> SUFFICES ASSUME \A i, j \in S : i = j
             PROVE  FALSE
  OBVIOUS
<1>1. CASE S = {}
  BY <1>1, FS_EmptySet
<1>2. CASE S # {}
  <2>1. PICK i \in S : TRUE
    BY <1>2
  <2>2. S = {i}
    OBVIOUS
  <2> QED BY <2>2, FS_Singleton
<1> QED BY <1>1, <1>2

LEMMA ChooseLine ==
  ASSUME Core, Core', NEW c \in Calls, c \notin Creators, pc[c] # "done",
         UNCHANGED <<conversations, intentRows>>, NEW i \in Creators, Choose(c, i)
  PROVE  [Lines!Next]_(Lines!vars)
<1>1. revision[i] \in Nat /\ revision[i] \leq revision[i]
  BY DEF Core, TypeOK
<1> QED BY <1>1, LookLine DEF Choose, Continue

LEMMA ReadLine ==
  ASSUME IInv, Core', NEW c \in Calls,
         \/ ResolveTrustedCmoTurnAccess(c) \/ ReadReplay(c) \/ ReadTurn(c) \/ ReadActive(c)
         \/ ReadConversation(c) \/ ReadBrand(c) \/ SubmitForm(c)
  PROVE  [Lines!Next]_(Lines!vars)
<1> USE DEF IInv
<1>1. pc[c] # "done" /\ UNCHANGED <<conversations, intentRows, form>>
  BY DEF ResolveTrustedCmoTurnAccess, ReadReplay, ReadTurn, ReadActive, ReadConversation,
         ReadBrand, SubmitForm
<1>2. ASSUME answer'[c] # answer[c], Lines!Refuse(c)
      PROVE  [Lines!Next]_(Lines!vars)
  BY <1>2 DEF Lines!Next
<1>3. ASSUME UNCHANGED <<target, answer>>
      PROVE  [Lines!Next]_(Lines!vars)
  BY <1>1, <1>3, QuietLine
<1>4. target \in [Calls -> Target \cup {NoTarget}]
  BY DEF Core, TypeOK
<1>5. CASE ResolveTrustedCmoTurnAccess(c)
  <2>1. CASE Finish(c, "access_denied") /\ ~Bound(c)
    <3>1. Lines!Tell(c, "access_denied") /\ answer'[c] # answer[c] /\ ~Lines!MaySpeak(c)
      BY <1>1, <1>5, <2>1, TellLine, SameSpeech DEF ResolveTrustedCmoTurnAccess, Replies
    <3> QED BY <1>2, <3>1 DEF Lines!Refuse
  <2>2. CASE \E next \in {"replay", "commit"} : Continue(c, next)
    BY <1>3, <1>5, <2>2 DEF ResolveTrustedCmoTurnAccess, Continue
  <2> QED BY <1>5, <2>1, <2>2 DEF ResolveTrustedCmoTurnAccess
<1>6. CASE ReadReplay(c)
  <2>1. c \notin Creators
    BY <1>6 DEF Core, Flow, Creators, ReadReplay
  <2>2. CASE \E d \in Earlier(c) : target' = [target EXCEPT ![c] = target[d]] /\ Continue(c, "commit")
    <3>1. PICK d \in Earlier(c) : target' = [target EXCEPT ![c] = target[d]] /\ Continue(c, "commit")
      BY <2>2
    <3>2. d \in Calls /\ d \in committed
      BY LikeBound
    <3>3. /\ target[d] \in Target /\ target[d].intent \in Creators
          /\ target[d].revision \in Nat /\ target[d].revision < revision[target[d].intent]
      BY <3>2, Knows
    <3>4. target[d] = [intent |-> target[d].intent, revision |-> target[d].revision]
      BY <3>3 DEF Target
    <3>5. target[d].revision \leq revision[target[d].intent]
      BY <3>3, SeenTarget
    <3> QED BY <1>1, <2>1, <3>1, <3>3, <3>4, <3>5, LookLine DEF Continue
  <2> QED BY <1>3, <1>6, <2>2 DEF ReadReplay, Continue
<1>7. CASE ReadTurn(c)
  <2>1. c \notin Creators /\ c \in Cmo
    BY <1>7 DEF Core, Flow, Creators, ReadTurn
  <2>2. CASE \E i \in TurnIntents(c) : target' = [target EXCEPT ![c].intent = i] /\ Continue(c, "active")
    <3>1. PICK i \in TurnIntents(c) : target' = [target EXCEPT ![c].intent = i] /\ Continue(c, "active")
      BY <2>2
    <3>2. i \in Creators
      BY Spoken DEF TurnIntents
    <3>3. target[c] = NoTarget
      BY <1>7, <2>1 DEF Seen, ReadTurn
    <3>4. [NoTarget EXCEPT !.intent = i] = [intent |-> i, revision |-> 0]
      BY DEF NoTarget
    <3>5. target' = [target EXCEPT ![c] = [intent |-> i, revision |-> 0]]
      BY <3>1, <3>3, <3>4
    <3> QED BY <1>1, <2>1, <3>1, <3>2, <3>5, SeenTarget, LookLine DEF Continue
  <2>3. CASE Cardinality(TurnIntents(c)) > 1 /\ Finish(c, "ambiguous") /\ UNCHANGED target
    <3>1. Lines!Tell(c, "ambiguous") /\ answer'[c] # answer[c]
      BY <1>1, <2>3, TellLine DEF Replies
    <3>2. \E i, j \in Lines!OfTurn(c) : i # j
      BY <2>1, <2>3, SeveralAre, SameTurn
    <3> QED BY <1>2, <2>1, <3>1, <3>2, SameSpoken DEF Lines!Refuse
  <2> QED BY <1>3, <1>7, <2>2, <2>3 DEF ReadTurn, Continue
<1>8. CASE ReadActive(c)
  <2>1. c \notin Creators /\ c \in Cmo /\ target[c].intent \in TurnIntents(c)
    BY <1>8 DEF Core, Flow, Seen, Creators, ReadActive
  <2>2. target[c].intent \in Creators
    BY <2>1, Spoken DEF TurnIntents
  <2>3. CASE Choose(c, target[c].intent)
    BY <1>1, <2>1, <2>2, <2>3, ChooseLine
  <2>4. CASE status[target[c].intent] # "active" /\ Finish(c, "no_active_intent") /\ UNCHANGED target
    <3>1. Lines!Tell(c, "no_active_intent") /\ answer'[c] # answer[c]
      BY <1>1, <2>4, TellLine DEF Replies
    <3>2. target[c].intent \in Lines!OfTurn(c) /\ target[c].intent \notin Lines!Active
      BY <2>1, <2>4, SameTurn, SameActive DEF Active
    <3> QED BY <1>2, <2>1, <3>1, <3>2, SameSpoken DEF Lines!Refuse
  <2> QED BY <1>8, <2>3, <2>4 DEF ReadActive
<1>9. CASE ReadConversation(c) \/ ReadBrand(c)
  <2>1. c \notin Creators /\ c \in Cmo
    BY <1>9 DEF Core, Flow, Creators, ReadConversation, ReadBrand
  <2>2. {target[d].intent : d \in SpokenOf(c)} \subseteq Creators
    BY Spoken
  <2>3. \A S \in SUBSET Creators : Active(S) \subseteq Creators /\ Active(S) \subseteq Active(Creators)
    BY DEF Active
  <2>4. CASE \E i \in Creators : Choose(c, i)
    BY <1>1, <2>1, <2>4, ChooseLine
  <2>5. CASE /\ \E S \in SUBSET Creators : Cardinality(Active(S)) > 1
             /\ Finish(c, "ambiguous") /\ UNCHANGED target
    <3>1. Lines!Tell(c, "ambiguous") /\ answer'[c] # answer[c]
      BY <1>1, <2>5, TellLine DEF Replies
    <3>2. PICK S \in SUBSET Creators : Cardinality(Active(S)) > 1
      BY <2>5
    <3>3. \E i, j \in Active(S) : i # j
      BY <3>2, SeveralAre
    <3>4. \E i, j \in Lines!Active : i # j
      BY <2>3, <3>3, SameActive
    <3> QED BY <1>2, <2>1, <3>1, <3>4, SameSpoken DEF Lines!Refuse
  <2>6. CASE Active(Creators) = {} /\ Finish(c, "no_active_intent") /\ UNCHANGED target
    <3>1. Lines!Tell(c, "no_active_intent") /\ answer'[c] # answer[c]
      BY <1>1, <2>6, TellLine DEF Replies
    <3> QED BY <1>2, <2>1, <2>6, <3>1, SameSpoken, SameActive DEF Lines!Refuse
  <2>7. CASE Continue(c, "brand") /\ UNCHANGED target
    BY <1>3, <2>7 DEF Continue
  <2>8. ASSUME NEW S \in SUBSET Creators, NEW Else, Only(c, Active(S), Else)
        PROVE  \/ \E i \in Creators : Choose(c, i)
               \/ Cardinality(Active(S)) > 1 /\ Finish(c, "ambiguous") /\ UNCHANGED target
               \/ Active(S) = {} /\ Else /\ UNCHANGED target
    BY <2>3, <2>8 DEF Only
  <2>9. CASE ReadConversation(c)
    BY <2>2, <2>4, <2>5, <2>7, <2>8, <2>9 DEF ReadConversation
  <2>10. CASE ReadBrand(c)
    BY <2>4, <2>5, <2>6, <2>8, <2>10 DEF ReadBrand
  <2> QED BY <1>9, <2>9, <2>10
<1>10. CASE SubmitForm(c)
  <2> DEFINE r == form[Ask[c].form]
  <2>1. c \notin Creators /\ Ask[c].form \in Forms
    BY <1>10, Asked DEF SubmitForm
  <2>2. r \in Target /\ r.revision \leq revision[r.intent]
    BY <1>10, <2>1 DEF SubmitForm, Core, TypeOK, Seen
  <2>3. r.intent \in Creators /\ r.revision \in Nat /\ r = [intent |-> r.intent, revision |-> r.revision]
    BY <2>2 DEF Target
  <2> QED BY <1>1, <1>10, <2>1, <2>2, <2>3, LookLine DEF SubmitForm, Continue
<1> QED BY <1>5, <1>6, <1>7, <1>8, <1>9, <1>10

LEMMA OperateLine ==
  ASSUME IInv, Core', NEW c \in Calls, Mutate(c), Reply(c) = "ok"
  PROVE  Lines!Operate(c)
<1> DEFINE i == target[c].intent
<1> USE DEF IInv
<1>1. /\ c \notin committed /\ target[c] \in Target /\ i \in Creators /\ answer[c] = None
      /\ (c \in Cmo => Bound(c))
  BY Commits DEF Mutate
<1>2. /\ Earlier(c) = {} /\ Write(c) /\ answer' = [answer EXCEPT ![c] = "ok"]
      /\ UNCHANGED <<conversations, form, target, repeats>>
  BY Accepted
<1>3. /\ status[i] \in From(Ask[c].kind) /\ revision[i] = target[c].revision
      /\ status' = [status EXCEPT ![i] = To(Ask[c].kind)]
      /\ revision' = [revision EXCEPT ![i] = @ + 1]
      /\ content' = [content EXCEPT ![i] = IF Writes(Ask[c].kind) THEN Ask[c].content ELSE @]
      /\ committed' = committed \cup {c}
  BY <1>2 DEF Write, Current
<1>4. Lined /\ Lined'
  BY LineIs, PTL
<1>5. /\ status \in [Creators -> {"none", "draft", "active", "abandoned"}]
      /\ revision \in [Creators -> Nat] /\ content \in [Creators -> Contents]
  BY DEF Core, TypeOK
<1>6. Len(Line[i]) = revision[i]
  BY <1>1, <1>4 DEF Lined
<1>7. \A d, e \in committed' : target[d] = target[e] => d = e
  BY <1>2 DEF Core, History
<1>8. Line' = [Line EXCEPT ![i] = Append(@, c)]
  <2>1. ASSUME NEW j \in Creators, NEW n \in 1 .. revision[j]
        PROVE  Line'[j][n] = Line[j][n]
    <3>1. n \in 1 .. revision'[j]
      BY <1>1, <1>3, <1>5
    <3>2. /\ Line[j][n] \in committed /\ Line'[j][n] \in committed'
          /\ target[Line'[j][n]] = [intent |-> j, revision |-> n - 1]
          /\ target[Line[j][n]] = [intent |-> j, revision |-> n - 1]
      BY <1>2, <1>4, <3>1 DEF Lined
    <3> QED BY <1>3, <1>7, <3>2
  <2>2. ASSUME NEW j \in Creators
        PROVE  /\ Line[j] \in Seq(Calls) /\ Line'[j] \in Seq(Calls)
               /\ Len(Line[j]) = revision[j] /\ Len(Line'[j]) = revision'[j]
    BY <1>4 DEF Lined
  <2>3. ASSUME NEW j \in Creators, j # i
        PROVE  Line'[j] = Line[j]
    <3>1. revision'[j] = revision[j]
      BY <1>3, <1>5, <2>3
    <3> QED BY <2>1, <2>2, <3>1, SeqEqual
  <2>4. Line'[i] = Append(Line[i], c)
    <3>1. revision'[i] = revision[i] + 1 /\ revision[i] \in Nat
      BY <1>1, <1>3, <1>5
    <3>2. Line'[i][revision[i] + 1] = c
      <4>1. c \in committed'
        BY <1>3
      <4>2. Line'[i][target[c].revision + 1] = c
        BY <1>2, <1>4, <4>1 DEF Lined
      <4> QED BY <1>3, <4>2
    <3>3. /\ Append(Line[i], c) \in Seq(Calls) /\ Len(Append(Line[i], c)) = revision[i] + 1
          /\ \A n \in 1 .. revision[i] : Append(Line[i], c)[n] = Line[i][n]
          /\ Append(Line[i], c)[revision[i] + 1] = c
      BY <1>1, <2>2, AppendProperties
    <3>4. \A n \in 1 .. revision[i] + 1 : Line'[i][n] = Append(Line[i], c)[n]
      <4> TAKE n \in 1 .. revision[i] + 1
      <4>1. n = revision[i] + 1 \/ n \in 1 .. revision[i]
        BY <3>1
      <4> QED BY <1>1, <2>1, <3>2, <3>3, <4>1
    <3>5. Line'[i] \in Seq(Calls) /\ Len(Line'[i]) = revision[i] + 1
      BY <1>1, <2>2, <3>1
    <3> QED BY <3>3, <3>4, <3>5, SeqEqual
  <2>5. Line = [j \in Creators |-> Line[j]] /\ Line' = [j \in Creators |-> Line'[j]]
    BY <1>4 DEF Lined
  <2> QED BY <1>1, <2>3, <2>4, <2>5
<1>9. Shown' = [Shown EXCEPT ![i] =
          [status |-> To(Ask[c].kind), revision |-> revision[i] + 1,
           content |-> IF Writes(Ask[c].kind) THEN Ask[c].content ELSE Shown[i].content]]
  BY <1>1, <1>3, <1>5 DEF Shown
<1> HIDE DEF i
<1>10. Lines!Before(c) = {} /\ Lines!MaySpeak(c) /\ Lines!Intents = Creators
  BY <1>1, <1>2, SameBefore, SameSpeech, SameIntents
<1>11. Shown[i].status \in Lines!MayFind(Ask[c].kind)
  BY <1>1, <1>3, SameKinds, SameStatus
<1>12. Shown' = [Shown EXCEPT ![i] =
          [status |-> Lines!Leaves(Ask[c].kind), revision |-> Len(Line[i]) + 1,
           content |-> IF Lines!Rewrites(Ask[c].kind) THEN Ask[c].content ELSE Shown[i].content]]
  BY <1>6, <1>9, SameKinds
<1> QED BY <1>1, <1>2, <1>3, <1>6, <1>8, <1>10, <1>11, <1>12 DEF Lines!Operate, i

LEMMA ReplyLine ==
  ASSUME IInv, Core', NEW c \in Calls, Mutate(c), Reply(c) # "ok"
  PROVE  answer'[c] # answer[c] /\ (Lines!Receipt(c) \/ Lines!Refuse(c))
<1> USE DEF IInv
<1>1. /\ target[c] \in Target /\ target[c].intent \in Creators /\ pc[c] = "commit"
      /\ target[c].revision \in Nat /\ (c \in Cmo => Bound(c))
  BY Commits DEF Mutate
<1>2. Lines!Tell(c, Reply(c)) /\ answer'[c] # answer[c]
  <2>1. Reply(c) \in Replies
    BY DEF Reply, Refusal, Replies
  <2> QED BY <1>1, <2>1, TellLine DEF Mutate
<1>3. Lines!MaySpeak(c) /\ Lines!Before(c) = Earlier(c)
  BY <1>1, SameSpeech, SameBefore
<1>4. \A d \in Earlier(c) : d \in Calls /\ (Lines!Repeats(c, d) <=> SameRequest(c, d))
  BY LikeBound, SameRepeats
<1>5. CASE \E d \in Earlier(c) : SameRequest(c, d)
  <2>1. Reply(c) = "replayed"
    BY <1>1, <1>5 DEF Reply
  <2> QED BY <1>2, <1>3, <1>4, <1>5, <2>1 DEF Lines!Receipt
<1>6. CASE Earlier(c) # {} /\ ~\E d \in Earlier(c) : SameRequest(c, d)
  <2>1. Reply(c) = "operation_conflict"
    BY <1>1, <1>6 DEF Reply
  <2> QED BY <1>2, <1>3, <1>4, <1>6, <2>1 DEF Lines!Receipt
<1>7. CASE Earlier(c) = {} /\ status[target[c].intent] \notin From(Ask[c].kind)
  <2>1. Reply(c) \in {"intent_not_active", "intent_not_draft", "invalid_operation"}
    BY <1>1, <1>7 DEF Reply, Refusal
  <2>2. Shown[target[c].intent].status \notin Lines!MayFind(Ask[c].kind)
    BY <1>1, <1>7, SameStatus, SameKinds
  <2> QED BY <1>2, <1>3, <1>7, <2>1, <2>2 DEF Lines!Refuse
<1>8. CASE Earlier(c) = {} /\ status[target[c].intent] \in From(Ask[c].kind)
  <2>1. ~Current(c) /\ Reply(c) = "stale_intent"
    BY <1>1, <1>8 DEF Reply
  <2>2. revision[target[c].intent] # target[c].revision
    BY <1>8, <2>1 DEF Current
  <2>3. revision[target[c].intent] \in Nat
    BY <1>1 DEF Core, TypeOK
  <2>4. target[c].revision \leq revision[target[c].intent]
    <3>1. CASE c \in Creators
      <4>1. target[c] = [intent |-> c, revision |-> 0]
        BY <3>1, Knows
      <4>2. target[c].revision = 0
        BY <4>1
      <4> QED BY <2>3, <4>2
    <3>2. CASE c \notin Creators
      BY <1>1, <3>2, Created DEF Seen
    <3> QED BY <3>1, <3>2
  <2>5. target[c].revision < Len(Line[target[c].intent])
    <3>1. Len(Line[target[c].intent]) = revision[target[c].intent]
      BY <1>1, LineIs DEF Lined
    <3> QED BY <1>1, <2>2, <2>3, <2>4, <3>1
  <2> QED BY <1>2, <1>3, <1>8, <2>1, <2>5 DEF Lines!Refuse
<1> QED BY <1>5, <1>6, <1>7, <1>8

\* Whatever the turns, the forms, the reads and their retries do, an Intent
\* is a line of operations, each done at once and by one call, and what a
\* call is told of it is true.
THEOREM RefinesIntentLine == Spec => ImplementsIntentLine
<1>1. Init => Lines!Init
  <2> SUFFICES ASSUME Init
               PROVE  Lines!Init
    OBVIOUS
  <2>1. Core
    BY Start
  <2>2. Line = [i \in Creators |-> <<>>]
    <3>1. Lined
      BY <2>1, LineIs
    <3>2. \A i \in Creators : Line[i] = <<>>
      BY <3>1, EmptySeq DEF Lined, Init
    <3> QED BY <3>1, <3>2 DEF Lined
  <2>3. Shown = [i \in Creators |-> [status |-> "none", revision |-> 0, content |-> Ask[i].content]]
    BY DEF Shown, Init
  <2> QED BY <2>2, <2>3, SameIntents DEF Init, ConversationsInit, Lines!Init, Lines!Nothing, NoTarget
<1>2. ASSUME IInv, IInv', [Next]_vars
      PROVE  [Lines!Next]_(Lines!vars)
  <2> USE DEF IInv
  <2>1. CASE ConversationsNext /\ UNCHANGED <<intentRows, form, pc, target, answer, repeats>>
    BY <1>2, <2>1, ConversationLine
  <2>2. CASE \E f \in Forms, i \in Creators : OpenForm(f, i)
    BY <1>2, <2>2, QuietLine DEF OpenForm
  <2>3. ASSUME NEW c \in Calls, Mutate(c)
        PROVE  Lines!Next
    BY <1>2, <2>3, OperateLine, ReplyLine DEF Lines!Next
  <2>4. CASE \E c \in Calls : CallNext(c)
    BY <1>2, <2>3, <2>4, ReadLine
       DEF CallNext, DeclareIntent, ProposeIntent, RefineIntent, AdoptIntent, AbandonIntent
  <2>5. CASE UNCHANGED vars
    BY <1>2, <2>5, QuietLine DEF vars
  <2> QED BY <1>2, <2>1, <2>2, <2>4, <2>5 DEF Next
<1>3. IInv /\ IInv' /\ [Next]_vars => [Lines!Next]_(Lines!vars)
  BY <1>2
<1> QED BY <1>1, <1>3, InductiveInvariant, PTL DEF Spec, ImplementsIntentLine, Lines!Spec

-----------------------------------------------------------------------------
(* What the line of an Intent says.                                        *)

\* An Intent shows what the last operation of its line left, and the content
\* of the last that wrote one; no operation is in a line twice, or in two.
THEOREM IntentsShowTheirLine == Spec => []Lines!LineIsShown
<1>1. ASSUME IInv, NEW i \in Creators, Line[i] # <<>>
      PROVE  /\ Shown[i].revision = Len(Line[i])
             /\ Shown[i].status = To(Ask[Line[i][Len(Line[i])]].kind)
             /\ \E n \in 1 .. Len(Line[i]) :
                  /\ Writes(Ask[Line[i][n]].kind) /\ Shown[i].content = Ask[Line[i][n]].content
                  /\ \A m \in n + 1 .. Len(Line[i]) : ~Writes(Ask[Line[i][m]].kind)
  <2>1. Core /\ Lined /\ revision \in [Creators -> Nat] /\ committed \subseteq Calls
    BY <1>1, LineIs DEF IInv, Core, TypeOK
  <2>2. Len(Line[i]) = revision[i] /\ revision[i] \in Nat /\ Line[i] \in Seq(Calls)
    BY <2>1 DEF Lined
  <2>3. revision[i] > 0
    BY <1>1, <2>2, EmptySeq
  <2>4. Shown[i].revision = revision[i] /\ Shown[i].status = status[i] /\ Shown[i].content = content[i]
    BY DEF Shown
  <2>5. \A n \in 1 .. revision[i] :
          Line[i][n] \in committed /\ target[Line[i][n]] = [intent |-> i, revision |-> n - 1]
    BY <2>1 DEF Lined
  <2>6. status[i] = To(Ask[Line[i][revision[i]]].kind)
    <3>1. PICK c \in committed : /\ target[c] = [intent |-> i, revision |-> revision[i] - 1]
                                 /\ status[i] = To(Ask[c].kind)
      BY <2>1, <2>3 DEF Core, History
    <3>2. Line[i][revision[i]] \in committed /\ target[Line[i][revision[i]]] = target[c]
      BY <2>2, <2>3, <2>5, <3>1
    <3>3. Line[i][revision[i]] = c
      BY <2>1, <3>2 DEF Core, History
    <3> QED BY <3>1, <3>3
  <2>7. \E n \in 1 .. revision[i] :
          /\ Writes(Ask[Line[i][n]].kind) /\ content[i] = Ask[Line[i][n]].content
          /\ \A m \in n + 1 .. revision[i] : ~Writes(Ask[Line[i][m]].kind)
    <3>1. PICK c \in committed :
            /\ target[c].intent = i /\ Writes(Ask[c].kind) /\ content[i] = Ask[c].content
            /\ \A d \in committed : target[d].intent = i /\ Writes(Ask[d].kind) =>
                 target[d].revision \leq target[c].revision
      BY <2>1, <2>3 DEF Core, History
    <3>2. target[c].revision \in Nat
      BY <2>1, Knows
    <3>3. target[c].revision + 1 \in 1 .. revision[i] /\ Line[i][target[c].revision + 1] = c
      BY <2>1, <3>1 DEF Lined
    <3>4. ASSUME NEW m \in target[c].revision + 2 .. revision[i], Writes(Ask[Line[i][m]].kind)
          PROVE  FALSE
      <4>1. m \in 1 .. revision[i] /\ m \in Int /\ m - 1 > target[c].revision
        BY <2>2, <3>2
      <4>2. /\ Line[i][m] \in committed /\ target[Line[i][m]].intent = i
            /\ target[Line[i][m]].revision = m - 1
        <5>1. Line[i][m] \in committed /\ target[Line[i][m]] = [intent |-> i, revision |-> m - 1]
          BY <2>5, <4>1
        <5> QED BY <5>1
      <4>3. m - 1 \leq target[c].revision
        BY <3>1, <3>4, <4>2
      <4> QED BY <2>2, <3>2, <4>1, <4>3
    <3>5. (target[c].revision + 1) + 1 = target[c].revision + 2
      BY <3>2
    <3> QED BY <3>1, <3>3, <3>4, <3>5
  <2> QED BY <2>2, <2>4, <2>6, <2>7
<1>2. ASSUME IInv, NEW i \in Creators, NEW j \in Creators, NEW m \in 1 .. Len(Line[i]), NEW n \in 1 .. Len(Line[j]),
             Lines!SameOperation(Line[i][m], Line[j][n])
      PROVE  i = j /\ m = n
  <2>1. Core /\ Lined /\ committed \subseteq Calls
    BY <1>2, LineIs DEF IInv, Core, TypeOK
  <2>2. m \in 1 .. revision[i] /\ n \in 1 .. revision[j] /\ m \in Int /\ n \in Int
    BY <2>1 DEF Lined
  <2>3. /\ Line[i][m] \in committed /\ target[Line[i][m]] = [intent |-> i, revision |-> m - 1]
        /\ Line[j][n] \in committed /\ target[Line[j][n]] = [intent |-> j, revision |-> n - 1]
    BY <2>1, <2>2 DEF Lined
  <2>4. Line[j][n] \in Earlier(Line[i][m])
    BY <1>2, <2>1, <2>3, SameOperations DEF Earlier
  <2>5. Line[j][n] = Line[i][m]
    BY <2>1, <2>3, <2>4 DEF Core, History
  <2>6. m - 1 = n - 1 /\ i = j
    BY <2>3, <2>5
  <2> QED BY <2>2, <2>6
<1>3. IInv => Lines!LineIsShown
  BY <1>1, <1>2, SameIntents, SameKinds DEF Lines!LineIsShown
<1> QED BY <1>3, InductiveInvariant, PTL

\* Who was told "ok" committed.
Told == \A c \in Calls : answer[c] = "ok" <=> c \in committed

LEMMA ToldStep ==
  ASSUME Core, Told, [Next]_vars
  PROVE  Told'
<1>0. answer \in [Calls -> Replies \cup {None}] /\ committed \subseteq Calls
  BY DEF Core, TypeOK
<1>1. ASSUME UNCHANGED <<committed, answer>>
      PROVE  Told'
  BY <1>1 DEF Told
<1>2. ASSUME UNCHANGED committed, NEW c \in Calls, c \notin committed, NEW a, a # "ok",
             answer' = [answer EXCEPT ![c] = a]
      PROVE  Told'
  BY <1>0, <1>2 DEF Told
<1>3. ASSUME NEW c \in Calls, CallNext(c)
      PROVE  Told'
  <2>1. c \notin committed
    BY <1>3, Fresh DEF CallNext, ResolveTrustedCmoTurnAccess, ReadReplay, ReadTurn, ReadActive,
       ReadConversation, ReadBrand, SubmitForm, DeclareIntent, ProposeIntent, RefineIntent,
       AdoptIntent, AbandonIntent, Mutate
  <2>2. CASE ResolveTrustedCmoTurnAccess(c) \/ ReadReplay(c) \/ ReadTurn(c) \/ ReadActive(c)
    BY <1>1, <1>2, <2>1, <2>2
       DEF ResolveTrustedCmoTurnAccess, ReadReplay, ReadTurn, ReadActive, Choose, Continue, Finish
  <2>3. CASE ReadConversation(c) \/ ReadBrand(c) \/ SubmitForm(c)
    BY <1>1, <1>2, <2>1, <2>3
       DEF ReadConversation, ReadBrand, SubmitForm, Only, Choose, Continue, Finish
  <2>4. CASE Mutate(c) /\ Reply(c) # "ok"
    <3>1. UNCHANGED committed /\ answer' = [answer EXCEPT ![c] = Reply(c)]
      BY <2>4 DEF Mutate, Finish
    <3> QED BY <1>2, <2>1, <2>4, <3>1
  <2>5. CASE Mutate(c) /\ Reply(c) = "ok"
    <3>1. committed' = committed \cup {c} /\ answer' = [answer EXCEPT ![c] = "ok"]
      BY <2>5, Accepted DEF Write
    <3> QED BY <1>0, <3>1 DEF Told
  <2> QED BY <1>3, <2>2, <2>3, <2>4, <2>5
     DEF CallNext, DeclareIntent, ProposeIntent, RefineIntent, AdoptIntent, AbandonIntent
<1>4. CASE ConversationsNext /\ UNCHANGED <<intentRows, form, pc, target, answer, repeats>>
  BY <1>1, <1>4
<1>5. CASE \E f \in Forms, i \in Creators : OpenForm(f, i)
  BY <1>1, <1>5 DEF OpenForm
<1>6. CASE UNCHANGED vars
  BY <1>1, <1>6 DEF vars
<1> QED BY <1>3, <1>4, <1>5, <1>6 DEF Next

\* Who was told "ok" changed the Intent it was about, at the revision it was
\* about; nobody else did.
THEOREM TellsWhatIsDone == Spec => []Lines!ToldIsDone
<1>1. Init => Told
  BY NothingAssumption DEF Init, Told, Replies
<1>2. IInv /\ Told /\ [Next]_vars => Told'
  BY ToldStep DEF IInv
<1>3. ASSUME IInv, Told, NEW c \in Calls
      PROVE  answer[c] = "ok" <=>
               \E i \in Creators : \E n \in 1 .. Len(Line[i]) :
                 Line[i][n] = c /\ target[c] = [intent |-> i, revision |-> n - 1]
  <2>1. Core /\ Lined
    BY <1>3, LineIs DEF IInv
  <2>2. \A i \in Creators : Len(Line[i]) = revision[i]
    BY <2>1 DEF Lined
  <2>3. ASSUME c \in committed
        PROVE  \E i \in Creators : \E n \in 1 .. revision[i] :
                 Line[i][n] = c /\ target[c] = [intent |-> i, revision |-> n - 1]
    <3> DEFINE i == target[c].intent
               n == target[c].revision + 1
    <3>1. i \in Creators /\ n \in 1 .. revision[i] /\ Line[i][n] = c
      BY <2>1, <2>3 DEF Lined
    <3>2. target[Line[i][n]] = [intent |-> i, revision |-> n - 1]
      BY <2>1, <3>1 DEF Lined
    <3> QED BY <3>1, <3>2
  <2>4. \A i \in Creators : \A n \in 1 .. revision[i] : Line[i][n] \in committed
    BY <2>1 DEF Lined
  <2> QED BY <1>3, <2>2, <2>3, <2>4 DEF Told
<1>4. IInv /\ Told => Lines!ToldIsDone
  BY <1>3, SameIntents DEF Lines!ToldIsDone
<1> QED BY <1>1, <1>2, <1>4, InductiveInvariant, PTL DEF Spec
-----------------------------------------------------------------------------
(* What the other components take for granted of an Intent.                *)

LEMMA RowStep ==
  ASSUME IInv, [Next]_vars
  PROVE  [Row!Next]_(Row!vars)
<1> USE DEF IInv
<1>1. ASSUME NEW c \in Calls, Mutate(c)
      PROVE  [Row!Next]_(Row!vars)
  <2>1. CASE Reply(c) # "ok"
    BY <1>1, <2>1 DEF Mutate, intentRows, Row!vars
  <2>2. CASE Reply(c) = "ok"
    <3> DEFINE i == target[c].intent
    <3>1. i \in Creators
      BY <1>1, Commits DEF Mutate
    <3>2. /\ status[i] \in From(Ask[c].kind)
          /\ status' = [status EXCEPT ![i] = To(Ask[c].kind)]
          /\ revision' = [revision EXCEPT ![i] = @ + 1]
      BY <1>1, <2>2, Accepted DEF Write, Current
    <3>3. Ask[c].kind \in Kinds
      BY Asked
    <3> HIDE DEF i
    <3>4. Row!Operate(i, From(Ask[c].kind), To(Ask[c].kind))
      BY <3>2 DEF Row!Operate
    <3>5. Row!Declare(i) \/ Row!Propose(i) \/ Row!Refine(i) \/ Row!Adopt(i) \/ Row!Abandon(i)
      BY <3>3, <3>4 DEF From, To, Kinds, Row!Declare, Row!Propose, Row!Refine, Row!Adopt, Row!Abandon
    <3> QED BY <3>1, <3>5 DEF Row!Next
  <2> QED BY <2>1, <2>2
<1>2. ASSUME UNCHANGED intentRows
      PROVE  UNCHANGED Row!vars
  BY <1>2 DEF intentRows, Row!vars
<1>3. ASSUME NEW c \in Calls, CallNext(c)
      PROVE  UNCHANGED intentRows \/ Mutate(c)
  BY <1>3 DEF CallNext, ResolveTrustedCmoTurnAccess, ReadReplay, ReadTurn, ReadActive, ReadConversation,
     ReadBrand, SubmitForm, DeclareIntent, ProposeIntent, RefineIntent, AdoptIntent, AbandonIntent
<1> QED BY <1>1, <1>2, <1>3 DEF Next, OpenForm, vars

\* The Intents that people and the CMO work on live as those do under which
\* WorkRequests requests work.
THEOREM IntentsKeepIntentLife == Spec => ImplementsIntentLife
<1>1. Init => Row!Init
  BY DEF Init, Row!Init
<1>2. IInv /\ [Next]_vars => [Row!Next]_(Row!vars)
  BY RowStep
<1> QED BY <1>1, <1>2, InductiveInvariant, PTL DEF Spec, ImplementsIntentLife, Row!Spec
=============================================================================
