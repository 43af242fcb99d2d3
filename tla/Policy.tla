------------------------------- MODULE Policy -------------------------------
(***************************************************************************)
(* evaluatePolicy: what an Actor may do, on whose authority, for which     *)
(* work, with which effect, under which restrictions of the brand.         *)
(*                                                                         *)
(* An evaluation is followed through what can happen to the same work: the *)
(* brand adds a restriction, and work requested for an Intent goes on as   *)
(* accepted work, with the snapshot that its task carries.                 *)
(*                                                                         *)
(* Left out: the reason of a decision, the role and the Decisions it cites.*)
(* A list of criteria or constraints is null, empty, or some; a revision   *)
(* that is no positive integer is 0.                                       *)
(***************************************************************************)
EXTENDS Naturals, Sequences

CONSTANTS
    Keys,       \* keys of Actors and capabilities, ids of brands and Intents
    Decisions,  \* ids of the brand's Decisions
    Blank,      \* a key or id that is empty, or only spaces
    Inputs,     \* the inputs that are looked at first
    MaxRestrictions \* bound of the model: restrictions of one evaluation

Restricts == {"requires-verification", "requires-human-approval", "denied"}
SystemOperations == {"context-dev-bootstrap", "schedule-occurrence-evaluation"}
CommitmentEffectClass ==
    {"reversible-external", "communication", "irreversible-external", "financial"}
PolicyEffectClass == {"graph-internal", "external-preparation"} \cup CommitmentEffectClass

Key == Keys \cup {Blank}
Id  == Decisions \cup {Blank}
List == {"null", "empty", "some"}

ActorIdentity == [kind : {"human", "agent", "system"}, actorKey : Key]

AuthorizationContext ==
    [kind : {"autonomous"}]
    \cup [kind : {"member"}, humanActorKey : Key,
          mode : {"direct-mutation", "cmo-transduction", "commitment-approval"},
          membership : {"owner", "admin", "member", "viewer", "absent"}]
    \cup [kind : {"system-operation"}, operation : SystemOperations, systemActorKey : Key]

CapabilityContext ==
    [kind : {"not-required"}] \cup [kind : {"granted", "missing"}, capabilityKey : Key]

EffectSignature ==
    [phase : {"graph-internal", "external-preparation"}]
    \cup [phase : {"external-commitment"}, class : CommitmentEffectClass]

CurrentPreauthorization ==
    [decisionId : Id, headStatus : {"current", "superseded"}, authorized : BOOLEAN,
     brandId : Key, intentId : Key, authorizedIntentRevision : Nat, appliesToEffect : BOOLEAN]

CurrentIntentStructure ==
    [brandId : Key, intentId : Key, status : {"draft", "active", "settled", "abandoned"},
     revision : Nat, acceptanceCriteria : List, constraints : List,
     preauthorizations : Seq(CurrentPreauthorization)]

SelectedPreauthorization == [decisionId : Id, authorizedIntentRevision : Nat]

IntentStructureSnapshot ==
    [brandId : Key, intentId : Key, intentRevision : Nat,
     acceptanceCriteria : List, constraints : List,
     preauthorizations : Seq(SelectedPreauthorization)]

PolicyOrigin ==
    [kind : {"new-intent-work"}, intent : CurrentIntentStructure]
    \cup [kind : {"accepted-intent-work"}, snapshot : IntentStructureSnapshot]
    \cup [kind : {"brand-administration", "plan-route", "origin-free"}]

EvaluatePolicyInput ==
    [actor : ActorIdentity, authorization : AuthorizationContext, origin : PolicyOrigin,
     effect : EffectSignature, capability : CapabilityContext,
     currentBrandRestrictions : Seq([decisionId : Id, verdict : Restricts])]

ASSUME InputsAssumption == Inputs \subseteq EvaluatePolicyInput

VARIABLES
    input,    \* the input that is evaluated
    decision  \* PolicyDecision

vars == <<input, decision>>
-----------------------------------------------------------------------------
(* The structure of the work.                                              *)

ValidFields(w) ==
    /\ w.acceptanceCriteria # "empty" /\ w.constraints # "empty"
    /\ w.acceptanceCriteria = "null" => w.constraints = "null"

NoDuplicates(entries) ==
    \A m, n \in DOMAIN entries : entries[m].decisionId = entries[n].decisionId => m = n

\* Mutant of Applies: a grant without an id is selected.
AppliesUnnamed(p, intent) ==
    /\ p.headStatus = "current" /\ p.authorized /\ p.appliesToEffect
    /\ p.brandId = intent.brandId /\ p.intentId = intent.intentId
    /\ p.authorizedIntentRevision = intent.revision

\* A grant that is current, positive, and for this Intent as it is.
Applies(p, intent) ==
    /\ p.headStatus = "current" /\ p.authorized /\ p.appliesToEffect
    /\ p.brandId = intent.brandId /\ p.intentId = intent.intentId
    /\ p.authorizedIntentRevision = intent.revision
    /\ p.decisionId # Blank

\* selectedPreauthorizations; sorted by their ids, they are a set.
Selected(intent) ==
    {[decisionId |-> p.decisionId, authorizedIntentRevision |-> intent.revision] :
       p \in {intent.preauthorizations[n] : n \in
                {n \in DOMAIN intent.preauthorizations : Applies(intent.preauthorizations[n], intent)}}}

ValidIntent(intent) ==
    /\ intent.brandId # Blank /\ intent.intentId # Blank
    /\ intent.revision > 0 /\ intent.status = "active"
    /\ ValidFields(intent) /\ NoDuplicates(intent.preauthorizations)

SnapshotSelected(snapshot) ==
    {snapshot.preauthorizations[n] : n \in DOMAIN snapshot.preauthorizations}

ValidSnapshot(snapshot) ==
    /\ snapshot.brandId # Blank /\ snapshot.intentId # Blank
    /\ snapshot.intentRevision > 0
    /\ ValidFields(snapshot) /\ NoDuplicates(snapshot.preauthorizations)
    /\ \A p \in SnapshotSelected(snapshot) :
         p.decisionId # Blank /\ p.authorizedIntentRevision = snapshot.intentRevision

DeriveLevel(w, selected) ==
    IF w.acceptanceCriteria = "null" THEN "low"
    ELSE IF w.constraints # "null" /\ selected # {} THEN "high" ELSE "medium"

Structure(valid, level, selected) == [valid |-> valid, level |-> level, selected |-> selected]

DeriveStructureLevel(origin) ==
    CASE origin.kind = "new-intent-work" ->
           IF ValidIntent(origin.intent)
           THEN Structure(TRUE, DeriveLevel(origin.intent, Selected(origin.intent)),
                          Selected(origin.intent))
           ELSE Structure(FALSE, "null", {})
      [] origin.kind = "accepted-intent-work" ->
           IF ValidSnapshot(origin.snapshot)
           THEN Structure(TRUE, DeriveLevel(origin.snapshot, SnapshotSelected(origin.snapshot)),
                          SnapshotSelected(origin.snapshot))
           ELSE Structure(FALSE, "null", {})
      [] OTHER -> Structure(TRUE, "null", {})
-----------------------------------------------------------------------------
(* The Actor, its authorization, its capability.                           *)

AuthorizeAutonomousActor(actor) == actor.kind = "agent"

AuthorizeSystemActor(actor, authorization, effect) ==
    /\ authorization.operation \in SystemOperations
    /\ actor.kind = "system" /\ actor.actorKey = authorization.systemActorKey
    /\ effect.phase = "graph-internal"

\* Mutant of AuthorizeMemberActor: an agent may approve for its human.
AuthorizeAnyApproval(actor, authorization, effect) ==
    /\ authorization.membership \notin {"absent", "viewer"}
    /\ authorization.humanActorKey # Blank
    /\ \/ /\ authorization.mode = "direct-mutation"
          /\ actor.kind = "human" /\ actor.actorKey = authorization.humanActorKey
       \/ authorization.mode = "commitment-approval" /\ effect.phase = "external-commitment"
       \/ authorization.mode = "cmo-transduction" /\ actor.kind = "agent"

AuthorizeMemberActor(actor, authorization, effect) ==
    /\ authorization.membership \notin {"absent", "viewer"}
    /\ authorization.humanActorKey # Blank
    /\ \/ /\ authorization.mode \in {"direct-mutation", "commitment-approval"}
          /\ actor.kind = "human" /\ actor.actorKey = authorization.humanActorKey
       \/ authorization.mode = "cmo-transduction" /\ actor.kind = "agent"
    /\ authorization.mode = "commitment-approval" => effect.phase = "external-commitment"

AuthorizeActor(actor, authorization, effect) ==
    /\ actor.actorKey # Blank
    /\ \/ authorization.kind = "autonomous" /\ AuthorizeAutonomousActor(actor)
       \/ authorization.kind = "system-operation" /\ AuthorizeSystemActor(actor, authorization, effect)
       \/ authorization.kind = "member" /\ AuthorizeMemberActor(actor, authorization, effect)

\* No capabilityDenial.
Capable(actor, capability) ==
    \/ capability.kind = "granted" /\ capability.capabilityKey # Blank
    \/ capability.kind = "not-required" /\ actor.kind # "agent"

CurrentMemberRole(authorization) ==
    IF authorization.kind = "member" /\ authorization.membership # "absent"
    THEN authorization.membership ELSE "null"

CanApproveCommitment(role, effect) ==
    /\ effect.phase = "external-commitment"
    /\ role \in {"owner", "admin"} \/ (role = "member" /\ effect.class # "financial")
-----------------------------------------------------------------------------
(* The verdict.                                                            *)

EffectClassOf(effect) ==
    IF effect.phase = "external-commitment" THEN effect.class ELSE effect.phase

\* PHASE_0_POLICY_MATRIX, whose levels agree.
Matrix ==
    [class \in PolicyEffectClass |-> [level \in {"low", "medium", "high"} |->
       IF class \in {"graph-internal", "external-preparation"} THEN "allowed"
       ELSE "requires-human-approval"]]

\* Work without structure is not freer than work with the least.
BaseVerdict(effect, level) ==
    Matrix[EffectClassOf(effect)][IF level = "null" THEN "low" ELSE level]

Rank(verdict) ==
    CASE verdict = "allowed" -> 0
      [] verdict = "requires-verification" -> 1
      [] verdict = "requires-human-approval" -> 2
      [] OTHER -> 3

ValidRestrictions(restrictions) ==
    /\ NoDuplicates(restrictions)
    /\ \A n \in DOMAIN restrictions : restrictions[n].decisionId # Blank

\* The most restrictive of the verdicts.
ApplyRestrictions(base, restrictions) ==
    CHOOSE v \in {base} \cup {restrictions[n].verdict : n \in DOMAIN restrictions} :
        /\ Rank(base) \leq Rank(v)
        /\ \A n \in DOMAIN restrictions : Rank(restrictions[n].verdict) \leq Rank(v)

Approves(authorization, verdict) ==
    /\ verdict = "requires-human-approval"
    /\ authorization.kind = "member" /\ authorization.mode = "commitment-approval"

EvaluatePolicy(i) ==
    LET structure == DeriveStructureLevel(i.origin)
        restricted == ApplyRestrictions(BaseVerdict(i.effect, structure.level),
                                        i.currentBrandRestrictions)
        role == CurrentMemberRole(i.authorization)
        verdict ==
            IF \/ ~structure.valid
               \/ ~AuthorizeActor(i.actor, i.authorization, i.effect)
               \/ ~Capable(i.actor, i.capability)
               \/ ~ValidRestrictions(i.currentBrandRestrictions)
            THEN "denied"
            ELSE IF Approves(i.authorization, restricted)
            THEN IF CanApproveCommitment(role, i.effect) THEN "allowed" ELSE "denied"
            ELSE restricted
    IN [verdict |-> verdict, structureLevel |-> structure.level,
        selectedPreauthorizations |-> structure.selected]
-----------------------------------------------------------------------------
Init ==
    /\ input \in Inputs
    /\ decision = EvaluatePolicy(input)

\* A Decision of the brand restricts the operation from now on.
Restrict(decisionId, verdict) ==
    /\ Len(input.currentBrandRestrictions) < MaxRestrictions
    /\ input' = [input EXCEPT !.currentBrandRestrictions =
                   Append(@, [decisionId |-> decisionId, verdict |-> verdict])]
    /\ decision' = EvaluatePolicy(input')

\* The snapshot that requestSpecialistWork gives the task it creates: the
\* selected grants, in the order of their ids.
SnapshotOf(intent, preauthorizations) ==
    [brandId |-> intent.brandId, intentId |-> intent.intentId,
     intentRevision |-> intent.revision, acceptanceCriteria |-> intent.acceptanceCriteria,
     constraints |-> intent.constraints, preauthorizations |-> preauthorizations]

\* s lists the set S, without repetition.
Lists(s, S) ==
    /\ {s[n] : n \in DOMAIN s} = S
    /\ \A m, n \in DOMAIN s : s[m] = s[n] => m = n

\* The listings that are looked at; the code's is sorted.
Listings(S) == {s \in UNION {[1 .. n -> S] : n \in 0 .. Len(input.origin.intent.preauthorizations)} :
                  Lists(s, S)}

\* New work is allowed, and accepted.
Accept ==
    /\ input.origin.kind = "new-intent-work" /\ decision.verdict = "allowed"
    /\ \E s \in Listings(decision.selectedPreauthorizations) :
         input' = [input EXCEPT !.origin =
           [kind |-> "accepted-intent-work", snapshot |-> SnapshotOf(input.origin.intent, s)]]
    /\ decision' = EvaluatePolicy(input')

Next ==
    \/ \E decisionId \in Id, verdict \in Restricts : Restrict(decisionId, verdict)
    \/ Accept

Spec == Init /\ [][Next]_vars
-----------------------------------------------------------------------------
(* Properties.                                                             *)

\* Who may: an agent in its own right with a capability, the registered
\* system Actor within the graph, and for a member who is not a viewer the
\* member himself or an agent with a capability.  Nobody but the member
\* himself commits the brand to an external effect, a financial one only an
\* owner or an admin.
Authorized(i) ==
    /\ i.actor.actorKey # Blank
    /\ i.actor.kind = "agent" => i.capability.kind = "granted"
    /\ i.capability.kind # "missing"
    /\ CASE i.authorization.kind = "autonomous" ->
              i.actor.kind = "agent" /\ i.effect.phase # "external-commitment"
         [] i.authorization.kind = "system-operation" ->
              /\ i.actor = [kind |-> "system", actorKey |-> i.authorization.systemActorKey]
              /\ i.effect.phase = "graph-internal"
         [] OTHER ->
              /\ i.authorization.membership \in {"owner", "admin", "member"}
              /\ i.actor.kind = "agent" \/ i.actor =
                   [kind |-> "human", actorKey |-> i.authorization.humanActorKey]
              /\ i.effect.phase = "external-commitment" =>
                   /\ i.actor.kind = "human" /\ i.authorization.mode = "commitment-approval"
                   /\ i.effect.class = "financial" => i.authorization.membership # "member"

TypeOK ==
    /\ input \in EvaluatePolicyInput
    /\ decision = EvaluatePolicy(input)

\* Nothing is allowed that is not authorized, whatever the structure of the
\* work, its grants and the restrictions of the brand.
AllowedIsAuthorized == TypeOK /\ (decision.verdict = "allowed" => Authorized(input))

\* What a step may do to a decision: a restriction never widens it, and
\* work that was accepted is decided as it was, with the same structure and
\* the same grants.
Narrows ==
    /\ Rank(decision.verdict) \leq Rank(decision'.verdict)
    /\ decision'.structureLevel = decision.structureLevel
    /\ decision'.selectedPreauthorizations = decision.selectedPreauthorizations
    /\ input'.currentBrandRestrictions = input.currentBrandRestrictions =>
         decision'.verdict = decision.verdict

\* Restrictions only narrow, and accepted work keeps what it was accepted with.
DecisionsOnlyNarrow == [][Narrows]_vars
=============================================================================
