---------------------------- MODULE AgentGateway ----------------------------
(***************************************************************************)
(* The external agent gateway (agent_gateway_api.py): an agent that is a   *)
(* member of a channel runs instances there, each with a lease and a       *)
(* fencing token; a message posted to the channel becomes one durable       *)
(* delivery per instance (identity_api.py), which a call of the instance    *)
(* claims for five minutes and acknowledges with the token of its claim.    *)
(*                                                                         *)
(* Every statement commits by itself.  An instance may be created while a  *)
(* message is being posted and while the agent is removed from the channel; *)
(* calls of one instance overlap, and any of them may never be answered.    *)
(***************************************************************************)
EXTENDS Naturals

CONSTANTS
    Instances,      \* instances the agent may create in the channel
    Posts,          \* messages of the channel
    MaxClaims,      \* CX_AGENT_DELIVERIES.MAX_ATTEMPTS
    MaxJoins        \* bound: times the agent is added to the channel

ASSUME GatewayAssumption == MaxClaims \in Nat /\ MaxJoins \in Nat \ {0}

VARIABLES
    membership,     \* the agent is a member of the channel
    joins,      \* bound of the model: times it was added
    removal,    \* remove_channel_member has revoked the membership only
    principal,  \* the agent is ACTIVE
    instance,   \* per instance: row and the create_instance call
    post,       \* per message: the post_channel_message call
    delivery,   \* per message and instance: the row
    lapsed      \* history: instances whose lease was over for a time

gatewayVars == <<membership, joins, removal, principal, instance, post, delivery, lapsed>>

NewInstance == [status |-> "none", lease |-> TRUE, fence |-> 1, call |-> "none", backlog |-> {}]
Unsent == [phase |-> "none", targets |-> {}]
NoDelivery == [status |-> "none", claim |-> 0, fence |-> 0, visible |-> TRUE, tries |-> 0]

GatewayTypeOK ==
    /\ membership \in BOOLEAN /\ removal \in BOOLEAN /\ principal \in BOOLEAN
    /\ joins \in 1..MaxJoins /\ lapsed \subseteq Instances
    /\ instance \in [Instances -> [status : {"none", "ACTIVE", "REVOKED"}, lease : BOOLEAN,
                                   fence : 1..2, backlog : SUBSET Posts,
                                   call : {"none", "checked", "created", "backlog", "done"}]]
    /\ post \in [Posts -> [phase : {"none", "stored", "fanout", "done"},
                           targets : SUBSET Instances]]
    /\ delivery \in [Posts \X Instances ->
         [status : {"none", "PENDING", "CLAIMED", "ACKED", "DEAD_LETTER"}, claim : 0..MaxClaims,
          fence : 0..2, visible : BOOLEAN, tries : 0..MaxClaims]]

GatewayInit ==
    /\ membership = TRUE /\ joins = 1 /\ removal = FALSE /\ principal = TRUE
    /\ instance = [i \in Instances |-> NewInstance]
    /\ post = [m \in Posts |-> Unsent]
    /\ delivery = [d \in Posts \X Instances |-> NoDelivery]
    /\ lapsed = {}

Stored(m) == post[m].phase # "none"
Live(i) == instance[i].status = "ACTIVE" /\ instance[i].lease /\ principal
(* The idempotency key is unique: a second row is refused, and ignored. *)
EnqueueDelivery(m, i) ==
    delivery' = [delivery EXCEPT ![<<m, i>>] =
                   IF @ = NoDelivery THEN [@ EXCEPT !.status = "PENDING"] ELSE @]

-----------------------------------------------------------------------------
(* create_instance: check, insert, backlog *)

CheckMembership(i) ==
    /\ instance[i].call = "none" /\ membership /\ principal
    /\ instance' = [instance EXCEPT ![i].call = "checked"]
    /\ UNCHANGED <<membership, joins, removal, principal, post, delivery, lapsed>>

InsertInstance(i) ==
    /\ instance[i].call = "checked"
    /\ instance' = [instance EXCEPT ![i].status = "ACTIVE", ![i].call = "created"]
    /\ UNCHANGED <<membership, joins, removal, principal, post, delivery, lapsed>>

AnyBacklog == {m \in Posts : Stored(m)}
(* The messages of a channel the agent is still a member of. *)
BacklogOf == IF membership THEN {m \in Posts : Stored(m)} ELSE {}
ReadBacklog(i) ==
    /\ instance[i].call = "created"
    /\ instance' = [instance EXCEPT ![i].call = "backlog", ![i].backlog = BacklogOf]
    /\ UNCHANGED <<membership, joins, removal, principal, post, delivery, lapsed>>

EnqueueBacklog(i) ==
    /\ instance[i].call = "backlog"
    /\ IF instance[i].backlog = {}
       THEN instance' = [instance EXCEPT ![i].call = "done"] /\ UNCHANGED delivery
       ELSE \E m \in instance[i].backlog :
              /\ EnqueueDelivery(m, i)
              /\ instance' = [instance EXCEPT ![i].backlog = @ \ {m}]
    /\ UNCHANGED <<membership, joins, removal, principal, post, lapsed>>

-----------------------------------------------------------------------------
(* post_channel_message: store, then fan out to the instances there are *)

StoreMessage(m) ==
    /\ post[m].phase = "none"
    /\ post' = [post EXCEPT ![m].phase = "stored"]
    /\ UNCHANGED <<membership, joins, removal, principal, instance, delivery, lapsed>>

Targets == IF membership THEN {i \in Instances : Live(i)} ELSE {}
ListInstances(m) ==
    /\ post[m].phase = "stored"
    /\ post' = [post EXCEPT ![m] = [phase |-> "fanout", targets |-> Targets]]
    /\ UNCHANGED <<membership, joins, removal, principal, instance, delivery, lapsed>>

FanOut(m) ==
    /\ post[m].phase = "fanout"
    /\ IF post[m].targets = {}
       THEN post' = [post EXCEPT ![m].phase = "done"] /\ UNCHANGED delivery
       ELSE \E i \in post[m].targets :
              /\ EnqueueDelivery(m, i)
              /\ post' = [post EXCEPT ![m].targets = @ \ {i}]
    /\ UNCHANGED <<membership, joins, removal, principal, instance, lapsed>>

-----------------------------------------------------------------------------
(* claim_events and acknowledge_event *)

Claimable(d, i) ==
    /\ Live(i)
    /\ delivery[d].fence \in {0, instance[i].fence}
    /\ delivery[d].tries < MaxClaims
    /\ \/ delivery[d].status = "PENDING"
       \/ delivery[d].status = "CLAIMED" /\ ~delivery[d].visible

(* A claim token is new with every claim: the number of the attempt. *)
ClaimDelivery(m, i) ==
    LET d == <<m, i>> IN
    /\ Claimable(d, i)
    /\ delivery' = [delivery EXCEPT ![d] =
         [status |-> "CLAIMED", claim |-> @.tries + 1, fence |-> instance[i].fence,
          visible |-> TRUE, tries |-> @.tries + 1]]
    /\ UNCHANGED <<membership, joins, removal, principal, instance, post, lapsed>>

(* What a failed claim, or one that is taken back, leaves of its row. *)
PendingAgain(tries) ==
    [status |-> "PENDING", claim |-> 0, fence |-> 0, visible |-> TRUE, tries |-> tries]

Held(d, token) == delivery[d].status = "CLAIMED" /\ delivery[d].claim = token

AcknowledgeDelivery(m, i, token) ==
    LET d == <<m, i>> IN
    /\ Held(d, token)
    /\ instance[i].status = "ACTIVE" /\ instance[i].lease /\ instance[i].fence = delivery[d].fence
    /\ \E success \in BOOLEAN :
         delivery' = [delivery EXCEPT ![d] =
           IF success THEN [@ EXCEPT !.status = "ACKED"]
           ELSE IF @.tries >= MaxClaims THEN [@ EXCEPT !.status = "DEAD_LETTER"]
           ELSE PendingAgain(delivery[d].tries)]
    /\ UNCHANGED <<membership, joins, removal, principal, instance, post, lapsed>>

VisibilityEnds(m, i) ==
    /\ delivery[<<m, i>>].status = "CLAIMED" /\ delivery[<<m, i>>].visible
    /\ delivery' = [delivery EXCEPT ![<<m, i>>].visible = FALSE]
    /\ UNCHANGED <<membership, joins, removal, principal, instance, post, lapsed>>

-----------------------------------------------------------------------------
(* Leases, removal, reclaim and offboarding *)

LeaseEnds(i) ==
    /\ instance[i].status = "ACTIVE" /\ instance[i].lease
    /\ instance' = [instance EXCEPT ![i].lease = FALSE]
    /\ lapsed' = lapsed \cup {i}
    /\ UNCHANGED <<membership, joins, removal, principal, post, delivery>>

(* A heartbeat renews the lease of an ACTIVE instance, also one that is over.*)
Heartbeat(i) ==
    /\ instance[i].status = "ACTIVE" /\ principal
    /\ instance' = [instance EXCEPT ![i].lease = TRUE]
    /\ UNCHANGED <<membership, joins, removal, principal, post, delivery, lapsed>>

Revoked(selected) ==
    [i \in Instances |-> IF i \in selected /\ instance[i].status = "ACTIVE"
                         THEN [instance[i] EXCEPT !.status = "REVOKED", !.fence = 2]
                         ELSE instance[i]]

RevokeInstance(i) ==
    /\ instance[i].status = "ACTIVE"
    /\ instance' = Revoked({i})
    /\ UNCHANGED <<membership, joins, removal, principal, post, delivery, lapsed>>

AddMember ==
    /\ ~membership /\ ~removal /\ joins < MaxJoins
    /\ membership' = TRUE /\ joins' = joins + 1
    /\ UNCHANGED <<removal, principal, instance, post, delivery, lapsed>>

RemoveMember ==
    /\ membership /\ ~removal
    /\ membership' = FALSE /\ removal' = TRUE
    /\ UNCHANGED <<joins, principal, instance, post, delivery, lapsed>>

RevokeRemoved ==
    /\ removal
    /\ removal' = FALSE /\ instance' = Revoked(Instances)
    /\ UNCHANGED <<membership, joins, principal, post, delivery, lapsed>>

(* The web node restarts: the instances it leased are revoked, then claims  *)
(* of revoked instances are returned.                                       *)
ReclaimNode ==
    /\ \E i \in Instances : instance[i].status = "ACTIVE"
    /\ instance' = Revoked(Instances)
    /\ UNCHANGED <<membership, joins, removal, principal, post, delivery, lapsed>>

Returned(d) == IF delivery[d].status = "CLAIMED"
               THEN PendingAgain(delivery[d].tries)
               ELSE delivery[d]
ReturnClaims ==
    /\ \E d \in Posts \X Instances : delivery[d].status = "CLAIMED" /\ instance[d[2]].status = "REVOKED"
    /\ delivery' = [d \in Posts \X Instances |->
                      IF instance[d[2]].status = "REVOKED" THEN Returned(d) ELSE delivery[d]]
    /\ UNCHANGED <<membership, joins, removal, principal, instance, post, lapsed>>

(* offboard_agent, transfers and status changes: one transaction. *)
Offboard ==
    /\ principal
    /\ principal' = FALSE /\ instance' = Revoked(Instances)
    /\ delivery' = [d \in Posts \X Instances |-> Returned(d)]
    /\ UNCHANGED <<membership, joins, removal, post, lapsed>>

GatewayNext ==
    \/ \E i \in Instances :
         \/ CheckMembership(i) \/ InsertInstance(i) \/ ReadBacklog(i) \/ EnqueueBacklog(i)
         \/ LeaseEnds(i) \/ Heartbeat(i) \/ RevokeInstance(i)
         \/ \E m \in Posts :
              \/ ClaimDelivery(m, i) \/ VisibilityEnds(m, i)
              \/ \E token \in 1..delivery[<<m, i>>].tries : AcknowledgeDelivery(m, i, token)
    \/ \E m \in Posts : StoreMessage(m) \/ ListInstances(m) \/ FanOut(m)
    \/ AddMember \/ RemoveMember \/ RevokeRemoved \/ ReclaimNode \/ ReturnClaims \/ Offboard

GatewaySpec == GatewayInit /\ [][GatewayNext]_gatewayVars

-----------------------------------------------------------------------------
(* Properties *)

(* A message posted while an instance is being created is not lost between  *)
(* the two: whichever of the fan-out and the backlog came second saw the    *)
(* other's row, so once both calls are over the instance has its delivery,  *)
(* unless the agent was away from the channel, or its lease was over.        *)
NothingFallsBetween ==
    \A m \in Posts, i \in Instances :
        /\ post[m].phase = "done" /\ instance[i].call = "done" /\ instance[i].status = "ACTIVE"
        /\ joins = 1 /\ membership /\ principal /\ i \notin lapsed
        => delivery[<<m, i>>].status # "none"

(* Once an agent has been removed from the channel no instance of it takes  *)
(* a message there, also one whose creation had passed the membership check *)
(* before: deliveries are only made for members, and the instances that had *)
(* some were revoked.                                                       *)
RemovedMemberTakesNothing ==
    [][\A d \in Posts \X Instances :
         delivery'[d].tries > delivery[d].tries => membership \/ removal]_gatewayVars

(* Both: nobody misses a message, and nobody gets one that is not his.      *)
GatewayHolds == []NothingFallsBetween /\ RemovedMemberTakesNothing
=============================================================================
