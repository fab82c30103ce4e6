---------------------------- MODULE KafkaConsumer ----------------------------
(***************************************************************************)
(* core/context-layer/src/kafka-bus.ts, the consuming half: processEvent   *)
(* with its set of idempotency keys, which is cut back when it is full,    *)
(* and its loop that awaits one handler after the other.  The broker is    *)
(* not in the repository: it delivers an event again until the promise of  *)
(* processEvent resolves, which commits its offset, and at times once more.*)
(* An event stands for its idempotency key.                                *)
(***************************************************************************)
EXTENDS Naturals, FiniteSets, SequencesExt

CONSTANTS Events,      \* the events, one per idempotency key
          Calls,       \* identities for concurrent processEvent calls
          Handlers,    \* the number of handlers subscribed to the topic
          MaxIds,      \* MAX_PROCESSED_IDS
          KeepIds,     \* how many keys the clean-up leaves
          MayThrow,    \* whether a handler may throw
          Idle         \* the state of a call identity that is not in use

Call == [event : Events, next : 1..Handlers]

(* What the constants must satisfy.                                         *)
ConsumerAssumption ==
  /\ Handlers \in Nat \ {0}
  /\ MaxIds \in Nat
  /\ KeepIds \in 1..MaxIds
  /\ MayThrow \in BOOLEAN
  /\ Idle \notin Call

VARIABLES processedIds,  \* the keys in the Set, in insertion order
          call,          \* the processEvent calls awaiting a handler
          runs,          \* runs[e][h]: how often handler h finished event e
          order,         \* the events let through, in that order
          committed      \* the events whose offset is committed

vars == <<processedIds, call, runs, order, committed>>

-----------------------------------------------------------------------------
Init == /\ processedIds = <<>>
        /\ call = [c \in Calls |-> Idle]
        /\ runs = [e \in Events |-> [h \in 1..Handlers |-> 0]]
        /\ order = <<>>
        /\ committed = {}

(* Mutant: the clean-up keeps the oldest keys.                              *)
CleanedOldest(ids) == IF Len(ids) > MaxIds THEN SubSeq(ids, 1, KeepIds) ELSE ids

(* The Set is cut back to its newest keys when it has grown too large.      *)
Cleaned(ids) ==
  IF Len(ids) > MaxIds THEN SubSeq(ids, Len(ids) - KeepIds + 1, Len(ids)) ELSE ids

(* The newest events that went through: those a clean-up never forgets.     *)
Newest == LET n == Len(order) IN
          {order[i] : i \in {j \in 1..n : j > n - KeepIds}}

(* The broker delivers e: for the first time, or again while it is recent.  *)
Delivers(e) == e \notin ToSet(order) \/ e \in Newest

(* processEvent(e): a known key resolves at once; otherwise the key is      *)
(* recorded before the first handler is called.                             *)
ProcessEvent(c, e) ==
  /\ call[c] = Idle
  /\ \/ /\ e \in ToSet(processedIds)
        /\ committed' = committed \cup {e}
        /\ UNCHANGED <<processedIds, call, order>>
     \/ /\ e \notin ToSet(processedIds)
        /\ processedIds' = Cleaned(Append(processedIds, e))
        /\ call' = [call EXCEPT ![c] = [event |-> e, next |-> 1]]
        /\ order' = Append(order, e)
        /\ UNCHANGED committed
  /\ UNCHANGED runs

(* The handler returns: the next one is called, or the event is committed.  *)
HandlerReturns(c) ==
  /\ call[c] # Idle
  /\ runs' = [runs EXCEPT ![call[c].event][call[c].next] = @ + 1]
  /\ \/ /\ call[c].next < Handlers
        /\ call' = [call EXCEPT ![c].next = @ + 1]
        /\ UNCHANGED committed
     \/ /\ call[c].next = Handlers
        /\ call' = [call EXCEPT ![c] = Idle]
        /\ committed' = committed \cup {call[c].event}
  /\ UNCHANGED <<processedIds, order>>

(* The handler throws: so does processEvent, and nothing is committed.      *)
HandlerThrows(c) ==
  /\ MayThrow
  /\ call[c] # Idle
  /\ call' = [call EXCEPT ![c] = Idle]
  /\ UNCHANGED <<processedIds, runs, order, committed>>

Next == \E c \in Calls : \/ \E e \in Events : Delivers(e) /\ ProcessEvent(c, e)
                         \/ HandlerReturns(c)
                         \/ HandlerThrows(c)

Spec == Init /\ [][Next]_vars

-----------------------------------------------------------------------------
TypeOK == /\ processedIds \in Seq(Events)
          /\ Len(processedIds) <= MaxIds
          /\ call \in [Calls -> Call \cup {Idle}]
          /\ runs \in [Events -> [1..Handlers -> Nat]]
          /\ order \in Seq(Events)
          /\ committed \subseteq Events

(* No handler finishes an event twice, or before those in front of it have, *)
(* although the broker delivers again what is recent, concurrently with the *)
(* first delivery or after clean-ups.                                       *)
HandledAtMostOnce ==
  \A e \in Events, g, h \in 1..Handlers :
    runs[e][h] <= 1 /\ (g < h => runs[e][g] >= runs[e][h])

(* "Consumer offsets committed after successful processing": a committed    *)
(* event went through every handler, or is on its way.                      *)
CommittedIsHandled ==
  \A e \in committed :
     \/ \A h \in 1..Handlers : runs[e][h] > 0
     \/ \E c \in Calls : call[c] # Idle /\ call[c].event = e
=============================================================================
