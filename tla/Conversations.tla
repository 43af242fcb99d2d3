---------------------------- MODULE Conversations ----------------------------
(***************************************************************************)
(* Conversations of a user with the CMO, and the root session that each is *)
(* bound to.                                                               *)
(*                                                                         *)
(* A session is named by the POST that creates it.  The proxy authorizes   *)
(* the POST, lets the runtime create the session, and binds the            *)
(* conversation to it; the session's own hook binds it too, when the       *)
(* session starts.  Two POSTs may race, and a response may be lost, so a   *)
(* session may exist that its conversation is not bound to.                *)
(*                                                                         *)
(* Each transaction is one step: it locks the conversation, or reads it    *)
(* and nothing else.  Nothing has to happen: a proxy, a hook or a call     *)
(* that fails, or is never heard of again, takes no further step.          *)
(* Left out: members and their roles, the source task of a turn, the       *)
(* cursor of the stream, which only grows, and reads and cancels.          *)
(***************************************************************************)
EXTENDS Naturals, FiniteSets

CONSTANTS
    ConversationIds, \* conversations that exist
    Sessions,   \* POSTs that create a session, and their sessions
    Of,         \* the conversation of each
    None,
    MaxPosts,   \* bounds of the model: POSTs in all, and
    MaxTurns    \* turns of a session

ASSUME OfAssumption == Of \in [Sessions -> ConversationIds]
ASSUME NoneAssumption == None \notin Sessions
ASSUME BoundsAssumption == MaxPosts \in Nat /\ MaxTurns \in Nat

VARIABLES
    bound,        \* cmo_conversations.session_id
    post,         \* where the proxy is with a POST
    hook,         \* where the hook of the session is with session.started
    turn          \* the last turn of the session; 0 if there is no session

conversations == <<bound, post, hook, turn>>

ConversationsInit ==
    /\ bound = [v \in ConversationIds |-> None]
    /\ post = [s \in Sessions |-> "new"]
    /\ hook = [s \in Sessions |-> "none"]
    /\ turn = [s \in Sessions |-> 0]
-----------------------------------------------------------------------------
(* Creating a session.                                                     *)

\* The proxy looks whether the conversation has a session.
AuthorizeCmoSessionCreation(s) ==
    /\ post[s] = "new"
    /\ Cardinality({r \in Sessions : post[r] # "new"}) < MaxPosts
    /\ post' = [post EXCEPT ![s] = IF bound[Of[s]] = None THEN "authorized" ELSE "refused"]
    /\ UNCHANGED <<bound, hook, turn>>

\* The runtime creates the session and starts its first turn.
CreateSession(s) ==
    /\ post[s] = "authorized"
    /\ post' = [post EXCEPT ![s] = "created"]
    /\ hook' = [hook EXCEPT ![s] = "started"]
    /\ turn' = [turn EXCEPT ![s] = 1]
    /\ UNCHANGED bound

\* bindCmoSession binds once, and again only to the same session.
Binds(s) == bound[Of[s]] \in {None, s}

BindCmoSession(s) ==
    bound' = IF Binds(s) THEN [bound EXCEPT ![Of[s]] = s] ELSE bound

BindFromProxy(s) ==
    /\ post[s] = "created"
    /\ BindCmoSession(s)
    /\ post' = [post EXCEPT ![s] = IF Binds(s) THEN "answered" ELSE "conflict"]
    /\ UNCHANGED <<hook, turn>>

\* The hook first resolves its access, outside of the transaction that binds.
ResolveInitialCmoSessionAccess(s) ==
    /\ hook[s] = "started"
    /\ hook' = [hook EXCEPT ![s] = IF bound[Of[s]] \in {None, s} THEN "resolved" ELSE "refused"]
    /\ UNCHANGED <<bound, post, turn>>

BindFromHook(s) ==
    /\ hook[s] = "resolved"
    /\ BindCmoSession(s)
    /\ hook' = [hook EXCEPT ![s] = IF Binds(s) THEN "bound" ELSE "refused"]
    /\ UNCHANGED <<post, turn>>
-----------------------------------------------------------------------------
(* Using it.                                                               *)

\* authorizeCmoSession admits a message only to the bound session.
Message(s) ==
    /\ bound[Of[s]] = s /\ turn[s] < MaxTurns
    /\ turn' = [turn EXCEPT ![s] = @ + 1]
    /\ UNCHANGED <<bound, post, hook>>

ConversationsNext ==
    \E s \in Sessions :
       \/ AuthorizeCmoSessionCreation(s) \/ CreateSession(s) \/ BindFromProxy(s)
       \/ ResolveInitialCmoSessionAccess(s) \/ BindFromHook(s)
       \/ Message(s)
-----------------------------------------------------------------------------
ConversationsTypeOK ==
    /\ bound \in [ConversationIds -> Sessions \cup {None}]
    /\ post \in [Sessions -> {"new", "authorized", "refused", "created", "answered",
                              "conflict"}]
    /\ hook \in [Sessions -> {"none", "started", "resolved", "bound", "refused"}]
    /\ turn \in [Sessions -> Nat]

\* A conversation is bound to a session of its own that exists; who was
\* answered, or goes on with a further turn, is the bound session.
Binding ==
    /\ \A v \in ConversationIds : bound[v] # None =>
         Of[bound[v]] = v /\ turn[bound[v]] > 0
    /\ \A s \in Sessions :
         /\ turn[s] > 0 <=> hook[s] # "none"
         /\ post[s] \in {"created", "answered", "conflict"} => turn[s] > 0
         /\ turn[s] > 1 \/ post[s] = "answered" \/ hook[s] = "bound" => bound[Of[s]] = s
=============================================================================
