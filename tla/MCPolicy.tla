------------------------------ MODULE MCPolicy ------------------------------
(* Policy on every kind of Actor, authorization, capability and effect, and *)
(* on every kind of Intent, each with up to two restrictions.               *)
EXTENDS Policy

CONSTANTS
    key,   \* the key of the Actor, the human, the brand, the Intent
    rival, \* another one
    d1, d2

NoWork == [kind |-> "origin-free"]

\* Every authority, for work without structure.
AnyAuthority ==
    [actor : [kind : {"human", "agent", "system"}, actorKey : {key, Blank}],
     authorization : AuthorizationContext,
     origin : {NoWork}, effect : EffectSignature,
     capability : CapabilityContext \ [kind : {"granted", "missing"}, capabilityKey : {rival}],
     currentBrandRestrictions : {<<>>}]

Grant == [decisionId |-> d1, headStatus |-> "current", authorized |-> TRUE, brandId |-> key,
          intentId |-> key, authorizedIntentRevision |-> 1, appliesToEffect |-> TRUE]

\* A grant that applies, another one, and grants that do not apply.
Grants == {Grant, [Grant EXCEPT !.decisionId = d2], [Grant EXCEPT !.decisionId = Blank],
           [Grant EXCEPT !.authorizedIntentRevision = 2], [Grant EXCEPT !.headStatus = "superseded"],
           [Grant EXCEPT !.intentId = rival]}

AnyIntent ==
    [brandId : {key}, intentId : {key, Blank}, status : {"draft", "active"},
     revision : {0, 1}, acceptanceCriteria : List, constraints : List,
     preauthorizations : {<<>>} \cup {<<g>> : g \in Grants} \cup {<<g, h>> : g, h \in Grants}]

\* Every structure, for the CMO, a session, and the approval of a commitment.
AnyStructure ==
    {[actor |-> a.actor, authorization |-> a.authorization, effect |-> a.effect,
      origin |-> [kind |-> "new-intent-work", intent |-> intent],
      capability |-> [kind |-> "granted", capabilityKey |-> key],
      currentBrandRestrictions |-> <<>>] :
       intent \in AnyIntent,
       a \in {[actor |-> [kind |-> "agent", actorKey |-> key],
               authorization |-> [kind |-> "member", humanActorKey |-> rival,
                                  mode |-> "cmo-transduction", membership |-> "member"],
               effect |-> [phase |-> "graph-internal"]],
              [actor |-> [kind |-> "human", actorKey |-> key],
               authorization |-> [kind |-> "member", humanActorKey |-> key,
                                  mode |-> "commitment-approval", membership |-> "member"],
               effect |-> [phase |-> "external-commitment", class |-> "communication"]]}}

AllInputs == AnyAuthority \cup AnyStructure
=============================================================================
