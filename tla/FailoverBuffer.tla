---------------------------- MODULE FailoverBuffer ----------------------------
(***************************************************************************)
(* The failover that core/context-layer's kafka-bus.ts (publishing) and    *)
(* redis-store.ts share: an operation is sent, kept in a buffer while the  *)
(* connection is in an outage, or refused; an outage that lasts too long   *)
(* degrades the client; a reconnect replays the buffer in order.  The      *)
(* clients differ in which operations they send and keep in which state.   *)
(* An outage is "buffering" in one and "suspended" in the other.           *)
(***************************************************************************)
EXTENDS Naturals, SequencesExt

CONSTANTS Operations,    \* the operations the client has: {"publish"}, or {"set", "checkpoint"}
          MaxOps,        \* bound on the operations accepted
          BufferTimeout  \* bufferTimeoutMs, failoverBufferMs

(* What the constants must satisfy.                                         *)
FailoverAssumption == /\ Operations \subseteq {"publish", "set", "checkpoint"}
                      /\ MaxOps \in Nat
                      /\ BufferTimeout \in Nat

VARIABLES state,     \* connected, outage, degraded or disconnected
          buffer,    \* the operations kept, in order
          age,       \* the time since the outage was noticed
          accepted,  \* the number of operations a caller was told are done
          sent       \* the operations handed to the server, in order

failoverVars == <<state, buffer, age, accepted, sent>>

States == {"disconnected", "connected", "outage", "degraded"}
Ops == 1..MaxOps

-----------------------------------------------------------------------------
FailoverInit == /\ state = "disconnected"
                /\ buffer = <<>>
                /\ age = 0
                /\ accepted = 0
                /\ sent = <<>>

(* publish: sent only when connected, kept in an outage, refused otherwise. *)
Publish == IF state = "connected" THEN "send" ELSE IF state = "outage" THEN "keep" ELSE "refuse"

(* set and delete: kept in an outage, refused when degraded, sent otherwise.*)
SetOrDelete == IF state = "outage" THEN "keep" ELSE IF state = "degraded" THEN "refuse" ELSE "send"

(* saveCheckpoint: kept whenever the store is not connected.                *)
SaveCheckpoint == IF state = "connected" THEN "send" ELSE "keep"

Fate(kind) == CASE kind = "publish" -> Publish
                [] kind = "set" -> SetOrDelete
                [] kind = "checkpoint" -> SaveCheckpoint

(* A caller's operation; a refused one throws and changes nothing.          *)
Write(kind) ==
  LET op == accepted + 1 IN
  /\ accepted < MaxOps
  /\ Fate(kind) # "refuse"
  /\ accepted' = op
  /\ \/ /\ Fate(kind) = "send" /\ sent' = Append(sent, op) /\ UNCHANGED buffer
     \/ /\ Fate(kind) = "keep" /\ buffer' = Append(buffer, op) /\ UNCHANGED sent
  /\ UNCHANGED <<state, age>>

Connect == state' = "connected" /\ UNCHANGED <<buffer, age, accepted, sent>>

Disconnect == state' = "disconnected" /\ UNCHANGED <<buffer, age, accepted, sent>>

(* handleDisconnect has no guard: a second one starts the clock again and   *)
(* brings a degraded client back to buffering.                              *)
HandleDisconnect == /\ state' = "outage"
                    /\ age' = 0
                    /\ UNCHANGED <<buffer, accepted, sent>>

Tick == /\ state = "outage" /\ age < BufferTimeout
        /\ age' = age + 1
        /\ UNCHANGED <<state, buffer, accepted, sent>>

(* checkBufferTimeout, checkFailoverTimeout.                                *)
CheckTimeout == /\ state = "outage" /\ age >= BufferTimeout
                /\ state' = "degraded"
                /\ UNCHANGED <<buffer, age, accepted, sent>>

(* Mutant: the buffer is emptied by the next outage, not after the replay.  *)
HandleReconnectKeep == /\ state' = "connected"
                       /\ age' = 0
                       /\ sent' = sent \o buffer
                       /\ UNCHANGED <<buffer, accepted>>

(* The replay awaits nothing in between: it is one step.                    *)
HandleReconnect == /\ state' = "connected"
                   /\ age' = 0
                   /\ sent' = sent \o buffer
                   /\ buffer' = <<>>
                   /\ UNCHANGED accepted

FailoverNext == \/ \E kind \in Operations : Write(kind)
                \/ Connect \/ Disconnect
                \/ HandleDisconnect \/ Tick \/ CheckTimeout \/ HandleReconnect

FailoverSpec == FailoverInit /\ [][FailoverNext]_failoverVars

-----------------------------------------------------------------------------
FailoverTypeOK == /\ state \in States
                  /\ buffer \in Seq(Ops) /\ sent \in Seq(Ops)
                  /\ age \in 0..BufferTimeout
                  /\ accepted \in 0..MaxOps

(* Whatever order connects, disconnects, time-outs and reconnects come in,  *)
(* every operation a caller was told is done was handed to the server once  *)
(* or is still in the buffer, and the buffer keeps the callers' order.      *)
AcceptedOnce ==
  /\ \A op \in 1..accepted : Contains(sent, op) # Contains(buffer, op)
  /\ IsInjective(sent)
  /\ \A i, j \in DOMAIN buffer : i < j => buffer[i] < buffer[j]
=============================================================================
