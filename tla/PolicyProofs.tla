---------------------------- MODULE PolicyProofs ----------------------------
(***************************************************************************)
(* Proofs about Policy for every set of keys, Decisions and inputs, and    *)
(* for lists of grants and restrictions of any length.                     *)
(***************************************************************************)
EXTENDS Policy, TLAPS

Verdicts == {"allowed"} \cup Restricts

-----------------------------------------------------------------------------
(* Restrictions.                                                           *)

\* ApplyRestrictions picks a verdict that is there, and none is stricter.
LEMMA MostRestrictive ==
  ASSUME NEW base \in {"allowed", "requires-human-approval"},
         NEW rs \in Seq([decisionId : Id, verdict : Restricts])
  PROVE  LET v == ApplyRestrictions(base, rs) IN
           /\ v \in {base} \cup {rs[n].verdict : n \in DOMAIN rs}
           /\ v \in Verdicts
           /\ Rank(base) \leq Rank(v)
           /\ \A n \in DOMAIN rs : Rank(rs[n].verdict) \leq Rank(v)
<1> DEFINE all == {base} \cup {rs[n].verdict : n \in DOMAIN rs}
           Top(v) == /\ Rank(base) \leq Rank(v)
                     /\ \A n \in DOMAIN rs : Rank(rs[n].verdict) \leq Rank(v)
<1>0. \A n \in DOMAIN rs : rs[n] \in [decisionId : Id, verdict : Restricts]
  <2> DEFINE R == [decisionId : Id, verdict : Restricts]
  <2>1. rs \in Seq(R)
    OBVIOUS
  <2> HIDE DEF R
  <2>2. \A n \in DOMAIN rs : rs[n] \in R
    BY <2>1
  <2> QED BY <2>2 DEF R
<1>1. \A n \in DOMAIN rs : rs[n].verdict \in Restricts
  BY <1>0
<1>2. all \subseteq Verdicts
  BY <1>1 DEF Verdicts, Restricts
<1>3. \E v \in all : Top(v)
  <2>1. CASE \E n \in DOMAIN rs : rs[n].verdict = "denied"
    <3>1. "denied" \in all
      BY <2>1
    <3>2. Top("denied")
      BY <1>1 DEF Rank, Restricts
    <3> QED BY <3>1, <3>2
  <2>2. CASE /\ \A n \in DOMAIN rs : rs[n].verdict # "denied"
             /\ \/ base = "requires-human-approval"
                \/ \E n \in DOMAIN rs : rs[n].verdict = "requires-human-approval"
    <3>1. "requires-human-approval" \in all
      BY <2>2
    <3>2. Top("requires-human-approval")
      BY <1>1, <2>2 DEF Rank, Restricts
    <3> QED BY <3>1, <3>2
  <2>3. CASE /\ \A n \in DOMAIN rs : rs[n].verdict = "requires-verification"
             /\ base = "allowed"
             /\ DOMAIN rs # {}
    <3>1. "requires-verification" \in all
      BY <2>3
    <3>2. Top("requires-verification")
      BY <2>3 DEF Rank
    <3> QED BY <3>1, <3>2
  <2>4. CASE DOMAIN rs = {}
    <3>1. base \in all /\ Top(base)
      BY <2>4 DEF Rank
    <3> QED BY <3>1
  <2> QED BY <1>1, <2>1, <2>2, <2>3, <2>4 DEF Restricts
<1>4. ApplyRestrictions(base, rs) = CHOOSE v \in all : Top(v)
  BY DEF ApplyRestrictions
<1> HIDE DEF all, Top
<1>5. ApplyRestrictions(base, rs) \in all /\ Top(ApplyRestrictions(base, rs))
  BY <1>3, <1>4
<1> QED BY <1>2, <1>5 DEF all, Top

\* One more restriction makes no verdict freer.
LEMMA OneMoreRestriction ==
  ASSUME NEW base \in {"allowed", "requires-human-approval"},
         NEW rs \in Seq([decisionId : Id, verdict : Restricts]),
         NEW r \in [decisionId : Id, verdict : Restricts]
  PROVE  Rank(ApplyRestrictions(base, rs)) \leq Rank(ApplyRestrictions(base, Append(rs, r)))
<1> DEFINE v == ApplyRestrictions(base, rs)
           w == ApplyRestrictions(base, Append(rs, r))
<1>1. Append(rs, r) \in Seq([decisionId : Id, verdict : Restricts])
  OBVIOUS
<1>2. v \in {base} \cup {rs[n].verdict : n \in DOMAIN rs}
  BY MostRestrictive
<1>3. /\ Rank(base) \leq Rank(w)
      /\ \A n \in DOMAIN Append(rs, r) : Rank(Append(rs, r)[n].verdict) \leq Rank(w)
  BY <1>1, MostRestrictive
<1>4. \A n \in DOMAIN rs : n \in DOMAIN Append(rs, r) /\ Append(rs, r)[n] = rs[n]
  OBVIOUS
<1> HIDE DEF v, w
<1>5. \A n \in DOMAIN rs : Rank(rs[n].verdict) \leq Rank(w)
  BY <1>3, <1>4
<1>6. Rank(v) \leq Rank(w)
  BY <1>2, <1>3, <1>5
<1> QED BY <1>6 DEF v, w

LEMMA FewerAreValid ==
  ASSUME NEW rs \in Seq([decisionId : Id, verdict : Restricts]),
         NEW r \in [decisionId : Id, verdict : Restricts],
         ValidRestrictions(Append(rs, r))
  PROVE  ValidRestrictions(rs)
<1>1. \A n \in DOMAIN rs : n \in DOMAIN Append(rs, r) /\ Append(rs, r)[n] = rs[n]
  OBVIOUS
<1> QED BY <1>1 DEF ValidRestrictions, NoDuplicates

-----------------------------------------------------------------------------
(* The base verdict and the final one.                                     *)

LEMMA Inputs1 ==
  ASSUME NEW i \in EvaluatePolicyInput
  PROVE  /\ i.actor \in ActorIdentity /\ i.authorization \in AuthorizationContext
         /\ i.origin \in PolicyOrigin /\ i.effect \in EffectSignature
         /\ i.capability \in CapabilityContext
         /\ i.currentBrandRestrictions \in Seq([decisionId : Id, verdict : Restricts])
BY DEF EvaluatePolicyInput

LEMMA Effects ==
  ASSUME NEW e \in EffectSignature
  PROVE  \/ e.phase \in {"graph-internal", "external-preparation"}
         \/ e.phase = "external-commitment" /\ e.class \in CommitmentEffectClass
BY DEF EffectSignature

LEMMA Levels ==
  ASSUME NEW origin \in PolicyOrigin
  PROVE  DeriveStructureLevel(origin).level \in {"null", "low", "medium", "high"}
BY DEF DeriveStructureLevel, DeriveLevel, Structure

LEMMA Base ==
  ASSUME NEW e \in EffectSignature, NEW level \in {"null", "low", "medium", "high"}
  PROVE  BaseVerdict(e, level) =
           IF e.phase = "external-commitment" THEN "requires-human-approval" ELSE "allowed"
<1> DEFINE l == IF level = "null" THEN "low" ELSE level
           k == EffectClassOf(e)
<1>1. l \in {"low", "medium", "high"}
  OBVIOUS
<1>2. k \in PolicyEffectClass
  BY Effects DEF EffectClassOf, PolicyEffectClass
<1>3. k \in {"graph-internal", "external-preparation"} <=> e.phase # "external-commitment"
  BY Effects DEF EffectClassOf, CommitmentEffectClass
<1>4. BaseVerdict(e, level) = Matrix[k][l]
  BY DEF BaseVerdict
<1> HIDE DEF k, l
<1>5. Matrix[k][l] = IF k \in {"graph-internal", "external-preparation"} THEN "allowed"
                     ELSE "requires-human-approval"
  BY <1>1, <1>2 DEF Matrix
<1> QED BY <1>3, <1>4, <1>5

\* The verdict before an approval, and the gates before it.
Restricted(i) ==
    ApplyRestrictions(BaseVerdict(i.effect, DeriveStructureLevel(i.origin).level),
                      i.currentBrandRestrictions)

Gates(i) ==
    /\ DeriveStructureLevel(i.origin).valid
    /\ AuthorizeActor(i.actor, i.authorization, i.effect)
    /\ Capable(i.actor, i.capability)
    /\ ValidRestrictions(i.currentBrandRestrictions)

LEMMA VerdictOf ==
  ASSUME NEW i
  PROVE  /\ EvaluatePolicy(i).verdict =
              IF ~Gates(i) THEN "denied"
              ELSE IF Approves(i.authorization, Restricted(i))
              THEN IF CanApproveCommitment(CurrentMemberRole(i.authorization), i.effect)
                   THEN "allowed" ELSE "denied"
              ELSE Restricted(i)
         /\ EvaluatePolicy(i).structureLevel = DeriveStructureLevel(i.origin).level
         /\ EvaluatePolicy(i).selectedPreauthorizations = DeriveStructureLevel(i.origin).selected
BY DEF EvaluatePolicy, Gates, Restricted

\* An external effect is never freer than an approval.
LEMMA Floor ==
  ASSUME NEW i \in EvaluatePolicyInput
  PROVE  /\ Restricted(i) \in Verdicts
         /\ i.effect.phase = "external-commitment" =>
              Restricted(i) \in {"requires-human-approval", "denied"}
         /\ i.effect.phase # "external-commitment" /\ i.currentBrandRestrictions = <<>> =>
              Restricted(i) = "allowed"
<1> DEFINE base == BaseVerdict(i.effect, DeriveStructureLevel(i.origin).level)
<1>1. base = IF i.effect.phase = "external-commitment" THEN "requires-human-approval"
             ELSE "allowed"
  BY Inputs1, Levels, Base
<1>2. Restricted(i) = ApplyRestrictions(base, i.currentBrandRestrictions)
  BY DEF Restricted
<1> HIDE DEF base
<1>3. base \in {"allowed", "requires-human-approval"}
  BY <1>1
<1> DEFINE rs == i.currentBrandRestrictions
<1>4. rs \in Seq([decisionId : Id, verdict : Restricts])
  BY Inputs1
<1> HIDE DEF rs
<1>5. /\ Restricted(i) \in {base} \cup {rs[n].verdict : n \in DOMAIN rs}
      /\ Restricted(i) \in Verdicts /\ Rank(base) \leq Rank(Restricted(i))
  BY <1>2, <1>3, <1>4, MostRestrictive DEF rs
<1>6. i.effect.phase = "external-commitment" =>
        Restricted(i) \in {"requires-human-approval", "denied"}
  BY <1>1, <1>5 DEF Rank, Verdicts, Restricts
<1>7. rs = <<>> => Restricted(i) = base
  BY <1>5
<1> QED BY <1>1, <1>5, <1>6, <1>7 DEF rs

\* What is allowed is authorized.
LEMMA AllowedAuthorized ==
  ASSUME NEW i \in EvaluatePolicyInput, EvaluatePolicy(i).verdict = "allowed"
  PROVE  Authorized(i)
<1>1. Gates(i)
  BY VerdictOf
<1>2. \/ /\ Approves(i.authorization, Restricted(i))
         /\ CanApproveCommitment(CurrentMemberRole(i.authorization), i.effect)
      \/ Restricted(i) = "allowed"
  BY <1>1, VerdictOf
<1>3. i.effect.phase = "external-commitment" =>
        /\ i.authorization.kind = "member" /\ i.authorization.mode = "commitment-approval"
        /\ CanApproveCommitment(CurrentMemberRole(i.authorization), i.effect)
  BY <1>2, Floor DEF Approves
<1>4. /\ i.actor.actorKey # Blank
      /\ i.actor.kind = "agent" => i.capability.kind = "granted"
      /\ i.capability.kind # "missing"
  BY <1>1 DEF Gates, AuthorizeActor, Capable
<1>5. CASE i.authorization.kind = "autonomous"
  BY <1>1, <1>3, <1>4, <1>5 DEF Gates, AuthorizeActor, AuthorizeAutonomousActor, Authorized
<1>6. CASE i.authorization.kind = "system-operation"
  <2>1. /\ i.actor.kind = "system" /\ i.actor.actorKey = i.authorization.systemActorKey
        /\ i.effect.phase = "graph-internal"
    BY <1>1, <1>6 DEF Gates, AuthorizeActor, AuthorizeSystemActor
  <2>2. i.actor = [kind |-> "system", actorKey |-> i.authorization.systemActorKey]
    BY <2>1, Inputs1 DEF ActorIdentity
  <2> QED BY <1>4, <1>6, <2>1, <2>2 DEF Authorized
<1>7. CASE i.authorization.kind = "member"
  <2>1. AuthorizeMemberActor(i.actor, i.authorization, i.effect)
    BY <1>1, <1>7 DEF Gates, AuthorizeActor
  <2>2. i.authorization.membership \in {"owner", "admin", "member"}
    BY <1>7, <2>1, Inputs1 DEF AuthorizationContext, AuthorizeMemberActor
  <2>3. \/ i.actor.kind = "agent" /\ i.authorization.mode = "cmo-transduction"
        \/ i.actor.kind = "human" /\ i.actor.actorKey = i.authorization.humanActorKey
    BY <2>1 DEF AuthorizeMemberActor
  <2>4. i.actor.kind = "agent" \/ i.actor =
          [kind |-> "human", actorKey |-> i.authorization.humanActorKey]
    BY <2>3, Inputs1 DEF ActorIdentity
  <2>5. ASSUME i.effect.phase = "external-commitment"
        PROVE  /\ i.actor.kind = "human" /\ i.authorization.mode = "commitment-approval"
               /\ i.effect.class = "financial" => i.authorization.membership # "member"
    BY <1>3, <1>7, <2>2, <2>3, <2>5 DEF CanApproveCommitment, CurrentMemberRole
  <2> QED BY <1>4, <1>7, <2>2, <2>4, <2>5 DEF Authorized
<1> QED BY <1>1, <1>5, <1>6, <1>7 DEF Gates, AuthorizeActor

-----------------------------------------------------------------------------
(* Restrict.                                                               *)

LEMMA RestrictNarrows ==
  ASSUME TypeOK, NEW id \in Id, NEW verdict \in Restricts, Restrict(id, verdict)
  PROVE  TypeOK' /\ Narrows
<1> DEFINE r == [decisionId |-> id, verdict |-> verdict]
           rs == input.currentBrandRestrictions
<1>1. r \in [decisionId : Id, verdict : Restricts]
  OBVIOUS
<1>2. /\ input \in EvaluatePolicyInput
      /\ rs \in Seq([decisionId : Id, verdict : Restricts])
  BY Inputs1 DEF TypeOK
<1>3. /\ input' = [input EXCEPT !.currentBrandRestrictions = Append(rs, r)]
      /\ decision' = EvaluatePolicy(input') /\ decision = EvaluatePolicy(input)
  BY DEF Restrict, TypeOK
<1>4. Append(rs, r) \in Seq([decisionId : Id, verdict : Restricts])
  BY <1>1, <1>2
<1>5. Append(rs, r) # rs
  BY <1>2
<1> HIDE DEF r, rs
<1>6. /\ input' \in EvaluatePolicyInput
      /\ input'.actor = input.actor /\ input'.authorization = input.authorization
      /\ input'.origin = input.origin /\ input'.effect = input.effect
      /\ input'.capability = input.capability
      /\ input'.currentBrandRestrictions = Append(rs, r)
  BY <1>2, <1>3, <1>4 DEF EvaluatePolicyInput
<1> DEFINE base == BaseVerdict(input.effect, DeriveStructureLevel(input.origin).level)
<1>7. /\ Restricted(input) = ApplyRestrictions(base, rs)
      /\ Restricted(input') = ApplyRestrictions(base, Append(rs, r))
  BY <1>6 DEF Restricted, rs
<1>8. base \in {"allowed", "requires-human-approval"}
  BY <1>2, Inputs1, Levels, Base
<1> HIDE DEF base
<1>9. Rank(Restricted(input)) \leq Rank(Restricted(input'))
  BY <1>1, <1>2, <1>7, <1>8, OneMoreRestriction
<1>10. Gates(input') => Gates(input)
  BY <1>1, <1>2, <1>6, FewerAreValid DEF Gates, rs
<1>11. Rank(decision.verdict) \leq Rank(decision'.verdict)
  <2> DEFINE can == CanApproveCommitment(CurrentMemberRole(input.authorization), input.effect)
  <2>1. decision.verdict = IF ~Gates(input) THEN "denied"
                           ELSE IF Approves(input.authorization, Restricted(input))
                           THEN IF can THEN "allowed" ELSE "denied"
                           ELSE Restricted(input)
    BY <1>3, VerdictOf
  <2>2. decision'.verdict = IF ~Gates(input') THEN "denied"
                            ELSE IF Approves(input.authorization, Restricted(input'))
                            THEN IF can THEN "allowed" ELSE "denied"
                            ELSE Restricted(input')
    BY <1>3, <1>6, VerdictOf
  <2>3. Restricted(input) \in Verdicts /\ Restricted(input') \in Verdicts
    BY <1>2, <1>6, Floor
  <2>4. can => /\ Restricted(input) \in {"requires-human-approval", "denied"}
               /\ Restricted(input') \in {"requires-human-approval", "denied"}
    BY <1>2, <1>6, Floor DEF CanApproveCommitment
  <2> HIDE DEF can
  <2>5. CASE ~Gates(input')
    BY <2>1, <2>2, <2>3, <2>5 DEF Rank, Verdicts, Restricts
  <2>6. CASE Gates(input') /\ Approves(input.authorization, Restricted(input))
    BY <1>9, <1>10, <2>1, <2>2, <2>3, <2>6 DEF Rank, Verdicts, Restricts, Approves
  <2>7. CASE Gates(input') /\ ~Approves(input.authorization, Restricted(input))
    BY <1>9, <1>10, <2>1, <2>2, <2>3, <2>4, <2>7 DEF Rank, Verdicts, Restricts, Approves
  <2> QED BY <2>5, <2>6, <2>7
<1>12. /\ decision'.structureLevel = decision.structureLevel
       /\ decision'.selectedPreauthorizations = decision.selectedPreauthorizations
  BY <1>3, <1>6, VerdictOf
<1>13. input'.currentBrandRestrictions # input.currentBrandRestrictions
  BY <1>5, <1>6 DEF rs
<1> QED BY <1>3, <1>6, <1>11, <1>12, <1>13 DEF TypeOK, Narrows

-----------------------------------------------------------------------------
(* Accept.                                                                 *)

\* The selected grants are told apart by their ids alone.
LEMMA SelectedGrants ==
  ASSUME NEW intent \in CurrentIntentStructure, NEW p \in Selected(intent)
  PROVE  /\ p \in SelectedPreauthorization
         /\ p.decisionId # Blank
         /\ p.authorizedIntentRevision = intent.revision
<1>1. PICK n \in DOMAIN intent.preauthorizations :
        /\ Applies(intent.preauthorizations[n], intent)
        /\ p = [decisionId |-> intent.preauthorizations[n].decisionId,
                authorizedIntentRevision |-> intent.revision]
  BY DEF Selected
<1>2. intent.preauthorizations \in Seq(CurrentPreauthorization) /\ intent.revision \in Nat
  BY DEF CurrentIntentStructure
<1>3. intent.preauthorizations[n] \in CurrentPreauthorization
  BY <1>2
<1> QED BY <1>1, <1>2, <1>3 DEF CurrentPreauthorization, SelectedPreauthorization, Applies

LEMMA AcceptKeepsStructure ==
  ASSUME NEW intent \in CurrentIntentStructure, ValidIntent(intent),
         NEW s \in Seq(SelectedPreauthorization), Lists(s, Selected(intent))
  PROVE  /\ ValidSnapshot(SnapshotOf(intent, s))
         /\ SnapshotSelected(SnapshotOf(intent, s)) = Selected(intent)
         /\ DeriveLevel(SnapshotOf(intent, s), Selected(intent)) =
              DeriveLevel(intent, Selected(intent))
<1> DEFINE t == SnapshotOf(intent, s)
<1>1. /\ t.brandId = intent.brandId /\ t.intentId = intent.intentId
      /\ t.intentRevision = intent.revision /\ t.preauthorizations = s
      /\ t.acceptanceCriteria = intent.acceptanceCriteria
      /\ t.constraints = intent.constraints
  BY DEF SnapshotOf
<1> HIDE DEF t
<1>2. SnapshotSelected(t) = Selected(intent)
  BY <1>1 DEF SnapshotSelected, Lists
<1>3. \A p \in Selected(intent) : /\ p \in SelectedPreauthorization
                                  /\ p.decisionId # Blank
                                  /\ p.authorizedIntentRevision = intent.revision
  BY SelectedGrants
<1>4. NoDuplicates(s)
  <2> SUFFICES ASSUME NEW m \in DOMAIN s, NEW n \in DOMAIN s,
                      s[m].decisionId = s[n].decisionId
               PROVE  m = n
    BY DEF NoDuplicates
  <2>1. s[m] \in Selected(intent) /\ s[n] \in Selected(intent)
    BY DEF Lists
  <2>2. s[m] = s[n]
    BY <1>3, <2>1 DEF SelectedPreauthorization
  <2> QED BY <2>2 DEF Lists
<1>5. ValidFields(t)
  BY <1>1 DEF ValidIntent, ValidFields
<1>6. DeriveLevel(t, Selected(intent)) = DeriveLevel(intent, Selected(intent))
  BY <1>1 DEF DeriveLevel
<1>7. ValidSnapshot(t)
  BY <1>1, <1>2, <1>3, <1>4, <1>5 DEF ValidSnapshot, ValidIntent
<1> QED BY <1>2, <1>6, <1>7 DEF t

LEMMA AcceptNarrows ==
  ASSUME TypeOK, Accept
  PROVE  TypeOK' /\ Narrows
<1>1. PICK s \in Listings(decision.selectedPreauthorizations) :
        input' = [input EXCEPT !.origin =
           [kind |-> "accepted-intent-work", snapshot |-> SnapshotOf(input.origin.intent, s)]]
  BY DEF Accept
<1> DEFINE intent == input.origin.intent
           snapshot == SnapshotOf(intent, s)
           accepted == [kind |-> "accepted-intent-work", snapshot |-> snapshot]
<1>2. /\ input \in EvaluatePolicyInput /\ decision = EvaluatePolicy(input)
      /\ input.origin.kind = "new-intent-work" /\ decision.verdict = "allowed"
      /\ decision' = EvaluatePolicy(input')
  BY DEF TypeOK, Accept
<1>3. intent \in CurrentIntentStructure
  BY <1>2, Inputs1 DEF PolicyOrigin
<1>4. Gates(input)
  BY <1>2, VerdictOf
<1>5. ValidIntent(intent)
  BY <1>2, <1>4 DEF Gates, DeriveStructureLevel, Structure
<1>6. DeriveStructureLevel(input.origin) =
        Structure(TRUE, DeriveLevel(intent, Selected(intent)), Selected(intent))
  BY <1>2, <1>5 DEF DeriveStructureLevel
<1>7. decision.selectedPreauthorizations = Selected(intent)
  <2>1. EvaluatePolicy(input).selectedPreauthorizations = DeriveStructureLevel(input.origin).selected
    BY VerdictOf
  <2> QED BY <1>2, <1>6, <2>1 DEF Structure
<1>8. s \in Seq(SelectedPreauthorization) /\ Lists(s, Selected(intent))
  <2>1. Selected(intent) \subseteq SelectedPreauthorization
    BY <1>3, SelectedGrants
  <2>2. PICK n \in 0 .. Len(intent.preauthorizations) : s \in [1 .. n -> Selected(intent)]
    BY <1>7 DEF Listings
  <2>3. intent.preauthorizations \in Seq(CurrentPreauthorization)
    BY <1>3 DEF CurrentIntentStructure
  <2>4. n \in Nat
    BY <2>2, <2>3
  <2>5. Lists(s, Selected(intent))
    BY <1>7 DEF Listings
  <2> QED BY <2>1, <2>2, <2>4, <2>5
<1> HIDE DEF intent
<1>9. /\ ValidSnapshot(snapshot) /\ SnapshotSelected(snapshot) = Selected(intent)
      /\ DeriveLevel(snapshot, Selected(intent)) = DeriveLevel(intent, Selected(intent))
  BY <1>3, <1>5, <1>8, AcceptKeepsStructure
<1>10. snapshot \in IntentStructureSnapshot
  BY <1>3, <1>8 DEF SnapshotOf, IntentStructureSnapshot, CurrentIntentStructure
<1> HIDE DEF snapshot
<1>11. DeriveStructureLevel(accepted) = DeriveStructureLevel(input.origin)
  BY <1>6, <1>9 DEF DeriveStructureLevel
<1>12. accepted \in PolicyOrigin
  BY <1>10 DEF PolicyOrigin
<1>13. input' = [input EXCEPT !.origin = accepted]
  BY <1>1 DEF intent, snapshot
<1> HIDE DEF accepted
<1>14. /\ input' \in EvaluatePolicyInput
       /\ input'.actor = input.actor /\ input'.authorization = input.authorization
       /\ input'.origin = accepted /\ input'.effect = input.effect
       /\ input'.capability = input.capability
       /\ input'.currentBrandRestrictions = input.currentBrandRestrictions
  BY <1>2, <1>12, <1>13 DEF EvaluatePolicyInput
<1>15. EvaluatePolicy(input') = EvaluatePolicy(input)
  BY <1>11, <1>14 DEF EvaluatePolicy
<1>16. decision.verdict \in Verdicts
  BY <1>2 DEF Verdicts
<1> QED BY <1>2, <1>14, <1>15, <1>16 DEF TypeOK, Narrows, Rank, Verdicts, Restricts

-----------------------------------------------------------------------------
(* The results.                                                            *)

LEMMA Typed == Spec => []TypeOK
<1>1. Init => TypeOK
  BY InputsAssumption DEF Init, TypeOK
<1>2. TypeOK /\ [Next]_vars => TypeOK'
  <2> SUFFICES ASSUME TypeOK, [Next]_vars
               PROVE  TypeOK'
    OBVIOUS
  <2>1. CASE \E id \in Id, verdict \in Restricts : Restrict(id, verdict)
    BY <2>1, RestrictNarrows
  <2>2. CASE Accept
    BY <2>2, AcceptNarrows
  <2>3. CASE UNCHANGED vars
    BY <2>3 DEF vars, TypeOK, EvaluatePolicy
  <2> QED BY <2>1, <2>2, <2>3 DEF Next
<1> QED BY <1>1, <1>2, PTL DEF Spec

\* evaluatePolicy allows nothing that its Actor, authorization, capability
\* and effect do not authorize, whatever else the input says.
THEOREM OnlyAuthorized == Spec => []AllowedIsAuthorized
<1>1. TypeOK => AllowedIsAuthorized
  BY AllowedAuthorized DEF TypeOK, AllowedIsAuthorized
<1> QED BY <1>1, Typed, PTL

\* A restriction never widens a decision, and the snapshot a task carries is
\* decided as the Intent was when the work was accepted.
THEOREM Narrowing == Spec => DecisionsOnlyNarrow
<1>1. TypeOK /\ [Next]_vars => [Narrows]_vars
  <2> SUFFICES ASSUME TypeOK, Next
               PROVE  Narrows
    OBVIOUS
  <2>1. CASE \E id \in Id, verdict \in Restricts : Restrict(id, verdict)
    BY <2>1, RestrictNarrows
  <2>2. CASE Accept
    BY <2>2, AcceptNarrows
  <2> QED BY <2>1, <2>2 DEF Next
<1>2. Spec => [][Narrows]_vars
  BY <1>1, Typed, PTL DEF Spec
<1> QED BY <1>2 DEF DecisionsOnlyNarrow

\* Every caller passes no restriction; within the graph, and in preparation,
\* evaluatePolicy then decides by its gates alone, never by its matrix.  So
\* the other modules model a call by the gates it depends on.
THEOREM GatesDecideWithoutRestrictions ==
  ASSUME NEW i \in EvaluatePolicyInput,
         i.effect.phase # "external-commitment", i.currentBrandRestrictions = <<>>
  PROVE  EvaluatePolicy(i).verdict = IF Gates(i) THEN "allowed" ELSE "denied"
BY VerdictOf, Floor DEF Approves

-----------------------------------------------------------------------------
(* What a decision depends on.                                             *)

RestrictionsOf(i) == {i.currentBrandRestrictions[n] : n \in DOMAIN i.currentBrandRestrictions}

LEMMA RestrictionIs ==
  ASSUME NEW i \in EvaluatePolicyInput, NEW n \in DOMAIN i.currentBrandRestrictions
  PROVE  i.currentBrandRestrictions[n] \in [decisionId : Id, verdict : Restricts]
<1> DEFINE R == [decisionId : Id, verdict : Restricts]
<1>1. i.currentBrandRestrictions \in Seq(R)
  BY Inputs1
<1> HIDE DEF R
<1>2. i.currentBrandRestrictions[n] \in R
  BY <1>1
<1> QED BY <1>2 DEF R

\* The two inputs are the same but for the restrictions of the brand.
SameButRestrictions(i, j) ==
    /\ i.actor = j.actor /\ i.authorization = j.authorization /\ i.origin = j.origin
    /\ i.effect = j.effect /\ i.capability = j.capability

LEMMA MoreRestricted ==
  ASSUME NEW i \in EvaluatePolicyInput, NEW j \in EvaluatePolicyInput,
         SameButRestrictions(i, j), RestrictionsOf(i) \subseteq RestrictionsOf(j)
  PROVE  Rank(Restricted(i)) \leq Rank(Restricted(j))
<1> DEFINE base == BaseVerdict(i.effect, DeriveStructureLevel(i.origin).level)
           rs == i.currentBrandRestrictions
           ss == j.currentBrandRestrictions
<1>1. /\ rs \in Seq([decisionId : Id, verdict : Restricts])
      /\ ss \in Seq([decisionId : Id, verdict : Restricts])
      /\ base \in {"allowed", "requires-human-approval"}
  BY Inputs1, Levels, Base
<1>2. Restricted(i) = ApplyRestrictions(base, rs) /\ Restricted(j) = ApplyRestrictions(base, ss)
  BY DEF Restricted, SameButRestrictions
<1>3. \A n \in DOMAIN rs : \E m \in DOMAIN ss : ss[m] = rs[n]
  BY DEF RestrictionsOf
<1> HIDE DEF base, rs, ss
<1>4. Restricted(i) = base \/ \E n \in DOMAIN rs : Restricted(i) = rs[n].verdict
  BY <1>1, <1>2, MostRestrictive
<1>5. /\ Rank(base) \leq Rank(Restricted(j))
      /\ \A m \in DOMAIN ss : Rank(ss[m].verdict) \leq Rank(Restricted(j))
  BY <1>1, <1>2, MostRestrictive
<1> QED BY <1>3, <1>4, <1>5

\* The more a brand restricts, the stricter evaluatePolicy decides, however
\* the restrictions are listed: a reordered list, a longer one, another one
\* that contains it.
THEOREM RestrictionsNarrow ==
  ASSUME NEW i \in EvaluatePolicyInput, NEW j \in EvaluatePolicyInput,
         SameButRestrictions(i, j), ValidRestrictions(i.currentBrandRestrictions),
         RestrictionsOf(i) \subseteq RestrictionsOf(j)
  PROVE  Rank(EvaluatePolicy(i).verdict) \leq Rank(EvaluatePolicy(j).verdict)
<1>1. Rank(Restricted(i)) \leq Rank(Restricted(j))
  BY MoreRestricted
<1>2. Gates(j) => Gates(i)
  BY DEF Gates, SameButRestrictions
<1> DEFINE can == CanApproveCommitment(CurrentMemberRole(i.authorization), i.effect)
<1>3. EvaluatePolicy(i).verdict = IF ~Gates(i) THEN "denied"
                                  ELSE IF Approves(i.authorization, Restricted(i))
                                  THEN IF can THEN "allowed" ELSE "denied"
                                  ELSE Restricted(i)
  BY VerdictOf
<1>4. EvaluatePolicy(j).verdict = IF ~Gates(j) THEN "denied"
                                  ELSE IF Approves(i.authorization, Restricted(j))
                                  THEN IF can THEN "allowed" ELSE "denied"
                                  ELSE Restricted(j)
  BY VerdictOf DEF SameButRestrictions
<1>5. Restricted(i) \in Verdicts /\ Restricted(j) \in Verdicts
  BY Floor
<1>6. can => /\ Restricted(i) \in {"requires-human-approval", "denied"}
             /\ Restricted(j) \in {"requires-human-approval", "denied"}
  BY Floor DEF CanApproveCommitment, SameButRestrictions
<1> HIDE DEF can
<1>7. CASE ~Gates(j)
  BY <1>3, <1>4, <1>5, <1>7 DEF Rank, Verdicts, Restricts
<1>8. CASE Gates(j) /\ Approves(i.authorization, Restricted(i))
  BY <1>1, <1>2, <1>3, <1>4, <1>5, <1>8 DEF Rank, Verdicts, Restricts, Approves
<1>9. CASE Gates(j) /\ ~Approves(i.authorization, Restricted(i))
  BY <1>1, <1>2, <1>3, <1>4, <1>5, <1>6, <1>9 DEF Rank, Verdicts, Restricts, Approves
<1> QED BY <1>7, <1>8, <1>9

\* The order in which a brand's Decisions are read decides nothing.
THEOREM OrderDecidesNothing ==
  ASSUME NEW i \in EvaluatePolicyInput, NEW j \in EvaluatePolicyInput,
         SameButRestrictions(i, j), RestrictionsOf(i) = RestrictionsOf(j),
         ValidRestrictions(i.currentBrandRestrictions),
         ValidRestrictions(j.currentBrandRestrictions)
  PROVE  EvaluatePolicy(i).verdict = EvaluatePolicy(j).verdict
<1>1. /\ Rank(EvaluatePolicy(i).verdict) \leq Rank(EvaluatePolicy(j).verdict)
      /\ Rank(EvaluatePolicy(j).verdict) \leq Rank(EvaluatePolicy(i).verdict)
  BY RestrictionsNarrow DEF SameButRestrictions
<1>2. EvaluatePolicy(i).verdict \in Verdicts /\ EvaluatePolicy(j).verdict \in Verdicts
  <2>1. \A k \in EvaluatePolicyInput : EvaluatePolicy(k).verdict \in Verdicts
    BY VerdictOf, Floor DEF Verdicts, Restricts
  <2> QED BY <2>1
<1> QED BY <1>1, <1>2 DEF Rank, Verdicts, Restricts

\* The matrix of this phase does not tell its levels apart: criteria,
\* constraints and preauthorizations make the structure valid or not, and
\* what they are decides nothing else.
THEOREM StructureOnlyGates ==
  ASSUME NEW i \in EvaluatePolicyInput, NEW origin \in PolicyOrigin,
         DeriveStructureLevel(i.origin).valid, DeriveStructureLevel(origin).valid
  PROVE  EvaluatePolicy([i EXCEPT !.origin = origin]).verdict = EvaluatePolicy(i).verdict
<1> DEFINE j == [i EXCEPT !.origin = origin]
<1>1. /\ j \in EvaluatePolicyInput /\ j.origin = origin
      /\ j.actor = i.actor /\ j.authorization = i.authorization /\ j.effect = i.effect
      /\ j.capability = i.capability /\ j.currentBrandRestrictions = i.currentBrandRestrictions
  BY DEF EvaluatePolicyInput
<1> HIDE DEF j
<1>2. Restricted(j) = Restricted(i)
  BY <1>1, Inputs1, Levels, Base DEF Restricted
<1>3. Gates(j) <=> Gates(i)
  BY <1>1 DEF Gates
<1>4. EvaluatePolicy(j).verdict = EvaluatePolicy(i).verdict
  BY <1>1, <1>2, <1>3, VerdictOf
<1> QED BY <1>4 DEF j

\* A human approval is the last word: evaluated for the approval of a
\* commitment, no operation asks for another approval, or a verification.
THEOREM ApprovalDecides ==
  ASSUME NEW i \in EvaluatePolicyInput,
         i.authorization.kind = "member", i.authorization.mode = "commitment-approval"
  PROVE  EvaluatePolicy(i).verdict \in {"allowed", "denied"}
<1>1. CASE ~Gates(i)
  BY <1>1, VerdictOf
<1>2. CASE Gates(i)
  <2>1. i.effect.phase = "external-commitment"
    BY <1>2 DEF Gates, AuthorizeActor, AuthorizeMemberActor
  <2>2. Restricted(i) \in {"requires-human-approval", "denied"}
    BY <2>1, Floor
  <2>3. Restricted(i) = "requires-human-approval" => Approves(i.authorization, Restricted(i))
    BY DEF Approves
  <2> QED BY <1>2, <2>2, <2>3, VerdictOf
<1> QED BY <1>1, <1>2

=============================================================================
