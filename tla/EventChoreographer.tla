-------------------------- MODULE EventChoreographer --------------------------
(***************************************************************************)
(* agents/dw-orchestration/src/event-choreographer.ts on the message bus:  *)
(* route reads the subscribers of an event once, records them, and awaits  *)
(* one publish per agent, while agents subscribe, handlers come and go and *)
(* other events are routed.  One event type; an event stands for its route.*)
(***************************************************************************)
EXTENDS MessageBus

Agents == Topics  \* the topic agent:a stands for the agent a

VARIABLES subscriptions,  \* the agents subscribed to the event type, in order
          routeHistory,   \* targetAgents of the record of each routed event
          route           \* the calls: how many targets are published to, and how they stand

cvars == <<subscriptions, routeHistory, route>>

RouteStates == {"new", "awaiting", "resolved", "rejected"}

-----------------------------------------------------------------------------
RoutingInit == /\ Init
               /\ subscriptions = <<>>
               /\ routeHistory = [e \in Events |-> <<>>]
               /\ route = [e \in Events |-> [at |-> "new", sent |-> 0]]

SubscribeAgent(a) ==
  /\ subscriptions' = IF Contains(subscriptions, a) THEN subscriptions ELSE Append(subscriptions, a)
  /\ UNCHANGED <<routeHistory, route, vars>>

(* Mutant: the loop runs over the live Set of subscribers.                  *)
LiveTargets(e) == subscriptions

(* The agents the loop runs over: those of the record.                      *)
Targets(e) == routeHistory'[e]

(* The publish to the next target, or the return after the last one.        *)
Advance(e, act) ==
  LET n == route[e].sent + 1 IN
  \/ /\ n > Len(Targets(e))
     /\ route' = [route EXCEPT ![e].at = "resolved"]
     /\ UNCHANGED vars
  \/ /\ n <= Len(Targets(e))
     /\ LET a == Targets(e)[n]
            threw == Walk(subscribers[a], act).threw
        IN /\ Publish(a, e, act)
           /\ route' = [route EXCEPT ![e] = [at |-> IF threw THEN "rejected" ELSE "awaiting", sent |-> n]]

(* route(event), up to its first await.                                     *)
Route(e, act) ==
  /\ route[e].at = "new"
  /\ routeHistory' = [routeHistory EXCEPT ![e] = subscriptions]
  /\ Advance(e, act)
  /\ UNCHANGED subscriptions

(* An awaited publish has resolved.                                         *)
RouteOn(e, act) ==
  /\ route[e].at = "awaiting"
  /\ UNCHANGED routeHistory
  /\ Advance(e, act)
  /\ UNCHANGED subscriptions

RoutingNext ==
  \/ \E a \in Agents : SubscribeAgent(a)
  \/ \E e \in Events, act \in [Handlers -> Acts \ {"reply"}] : Route(e, act) \/ RouteOn(e, act)
  \/ \E a \in Agents, h \in Handlers : (Subscribe(a, h) \/ Unsubscribe(a, h)) /\ UNCHANGED cvars
  \/ Clear /\ UNCHANGED cvars

RoutingSpec == RoutingInit /\ [][RoutingNext]_<<vars, cvars>>

-----------------------------------------------------------------------------
RoutingTypeOK == /\ TypeOK
                 /\ subscriptions \in Seq(Agents)
                 /\ routeHistory \in [Events -> Seq(Agents)]
                 /\ \A e \in Events : route[e] \in [at : RouteStates, sent : Nat]
                 /\ \A e \in Events : route[e].sent <= Len(routeHistory[e])

(* The record of a route is true: an event is published to nobody who is    *)
(* not in its record, and to everybody in it when the route resolves, also  *)
(* when agents subscribe or other events are routed at its awaits; a route  *)
(* that a throwing handler rejected reached a prefix of its targets.        *)
RecordIsTrue ==
  \A e \in Events :
    {a \in Agents : <<a, e>> \in got} =
      {routeHistory[e][i] : i \in {k \in DOMAIN routeHistory[e] : route[e].at = "resolved" \/ k <= route[e].sent}}
=============================================================================
