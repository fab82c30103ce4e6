---------------------------- MODULE EventBusProofs ----------------------------
(***************************************************************************)
(* Proofs about the event bus of the context layer.  The consumer, for any *)
(* events, overlapping calls, handlers and any size the set of keys is cut *)
(* back to; and the failover that the bus and the context store share, for *)
(* any client, any number of operations and any timeout.                   *)
(***************************************************************************)
EXTENDS KafkaConsumer, FailoverBuffer, TLAPS

(* The keys remembered are the newest events let through: all of them, or   *)
(* no fewer than a clean-up leaves.                                         *)
IsTail(ids, all) ==
  /\ Len(ids) <= Len(all)
  /\ Len(ids) = Len(all) \/ Len(ids) >= KeepIds
  /\ \A i \in 1..Len(ids) : ids[i] = all[Len(all) - Len(ids) + i]

(* No handler saw an event that was never let through.                      *)
Untouched ==
  \A e \in Events : e \notin ToSet(order) =>
     /\ \A h \in 1..Handlers : runs[e][h] = 0
     /\ \A c \in Calls : call[c] # Idle => call[c].event # e

(* An event is in the hands of one call at a time.                          *)
Alone == \A c, d \in Calls :
           call[c] # Idle /\ call[d] # Idle /\ call[c].event = call[d].event => c = d

(* The handlers before the one a call awaits finished its event once, those *)
(* after it never.                                                          *)
InTurn == \A c \in Calls : call[c] # Idle =>
            \A h \in 1..Handlers : runs[call[c].event][h] = IF h < call[c].next THEN 1 ELSE 0

ConsumerIInv == /\ TypeOK
        /\ IsTail(processedIds, order)
        /\ Untouched /\ Alone /\ InTurn
        /\ HandledAtMostOnce

-----------------------------------------------------------------------------
(* The newest events are among the keys remembered.                         *)
LEMMA NewestKnown ==
  ASSUME ConsumerAssumption, TypeOK, IsTail(processedIds, order)
  PROVE  Newest \subseteq ToSet(processedIds)
<1> DEFINE n == Len(order)
           m == Len(processedIds)
<1>1. n \in Nat /\ m \in Nat /\ KeepIds \in Nat
  BY DEF ConsumerAssumption, TypeOK
<1> SUFFICES ASSUME NEW j \in 1..n, j > n - KeepIds PROVE order[j] \in ToSet(processedIds)
  BY DEF Newest
<1>2. j - (n - m) \in 1..m
  BY <1>1 DEF IsTail
<1>3. processedIds[j - (n - m)] = order[j]
  BY <1>1, <1>2 DEF IsTail
<1> QED
  BY <1>2, <1>3 DEF ToSet, TypeOK

(* One more event, and one more key.                                        *)
LEMMA TailAppended ==
  ASSUME NEW ids \in Seq(Events), NEW all \in Seq(Events), IsTail(ids, all), NEW e \in Events,
         KeepIds \in Nat
  PROVE  IsTail(Append(ids, e), Append(all, e))
<1> DEFINE p == Append(ids, e)
           q == Append(all, e)
<1>1. /\ Len(ids) \in Nat /\ Len(all) \in Nat
      /\ Len(p) = Len(ids) + 1 /\ Len(q) = Len(all) + 1
  OBVIOUS
<1>2. \A i \in 1..Len(ids) : p[i] = q[Len(all) - Len(ids) + i]
  BY <1>1 DEF IsTail
<1>3. p[Len(ids) + 1] = q[Len(all) + 1]
  BY <1>1
<1> HIDE DEF p, q
<1>4. \A i \in 1..Len(p) : p[i] = q[Len(q) - Len(p) + i]
  BY <1>1, <1>2, <1>3
<1>5. IsTail(p, q)
  BY <1>1, <1>4 DEF IsTail
<1> QED
  BY <1>5 DEF p, q

(* A clean-up leaves a tail, and no more than the limit.                    *)
LEMMA TailCleaned ==
  ASSUME ConsumerAssumption, NEW ids \in Seq(Events), NEW all \in Seq(Events), IsTail(ids, all)
  PROVE  /\ Cleaned(ids) \in Seq(Events)
         /\ Len(Cleaned(ids)) <= MaxIds
         /\ IsTail(Cleaned(ids), all)
<1>1. /\ MaxIds \in Nat /\ KeepIds \in Nat /\ 1 <= KeepIds /\ KeepIds <= MaxIds
      /\ Len(ids) \in Nat /\ Len(all) \in Nat
  BY DEF ConsumerAssumption
<1>2. CASE Len(ids) <= MaxIds
  BY <1>1, <1>2 DEF Cleaned
<1>3. CASE Len(ids) > MaxIds
  <2> DEFINE a == Len(ids) - KeepIds + 1
             cut == SubSeq(ids, a, Len(ids))
  <2>1. Cleaned(ids) = cut
    BY <1>1, <1>3 DEF Cleaned
  <2>2. a \in 1..Len(ids) /\ a \in Nat
    BY <1>1, <1>3
  <2>3. cut \in Seq(Events) /\ Len(cut) = KeepIds
    BY <1>1, <2>2
  <2>4. \A i \in 1..KeepIds : cut[i] = ids[a + i - 1]
    BY <1>1, <2>2
  <2>5. \A i \in 1..KeepIds : a + i - 1 \in 1..Len(ids)
    BY <1>1, <2>2
  <2>6. \A i \in 1..KeepIds : cut[i] = all[Len(all) - KeepIds + i]
    BY <1>1, <2>4, <2>5 DEF IsTail
  <2> HIDE DEF cut, a
  <2>7. IsTail(cut, all)
    BY <1>1, <1>3, <2>3, <2>6 DEF IsTail
  <2> QED
    BY <1>1, <2>1, <2>3, <2>7
<1> QED
  BY <1>1, <1>2, <1>3

-----------------------------------------------------------------------------
(* Before the first delivery.                                               *)
LEMMA ConsumerInitInv == ASSUME ConsumerAssumption, Init PROVE ConsumerIInv
<1>1. TypeOK
  BY DEF ConsumerAssumption, Init, TypeOK
<1>2. IsTail(processedIds, order)
  BY DEF Init, IsTail
<1>3. Untouched /\ Alone /\ InTurn
  BY DEF Init, Untouched, Alone, InTurn
<1>4. HandledAtMostOnce
  BY DEF Init, HandledAtMostOnce
<1> QED
  BY <1>1, <1>2, <1>3, <1>4 DEF ConsumerIInv

(* An event that is let through was never let through before.               *)
LEMMA ProcessInv ==
  ASSUME ConsumerAssumption, ConsumerIInv, NEW c \in Calls, NEW e \in Events, Delivers(e), ProcessEvent(c, e)
  PROVE  ConsumerIInv'
<1>1. CASE e \in ToSet(processedIds)
  BY <1>1 DEF ProcessEvent, ConsumerIInv, TypeOK, Untouched, Alone, InTurn, HandledAtMostOnce
<1>2. CASE e \notin ToSet(processedIds)
  <2>1. e \notin ToSet(order)
    BY <1>2, NewestKnown DEF Delivers, ConsumerIInv
  <2>2. /\ call' = [call EXCEPT ![c] = [event |-> e, next |-> 1]]
        /\ processedIds' = Cleaned(Append(processedIds, e))
        /\ order' = Append(order, e)
        /\ runs' = runs /\ committed' = committed
    BY <1>2 DEF ProcessEvent
  <2>3. processedIds \in Seq(Events) /\ order \in Seq(Events) /\ KeepIds \in Nat /\ Handlers \in Nat \ {0}
    BY DEF ConsumerIInv, TypeOK, ConsumerAssumption
  <2>4. IsTail(Append(processedIds, e), Append(order, e))
    BY <2>3, TailAppended DEF ConsumerIInv
  <2>5. /\ processedIds' \in Seq(Events) /\ Len(processedIds') <= MaxIds
        /\ IsTail(processedIds', order') /\ order' \in Seq(Events)
    <3>1. Append(processedIds, e) \in Seq(Events) /\ Append(order, e) \in Seq(Events)
      BY <2>3
    <3> QED
      BY <2>2, <2>4, <3>1, TailCleaned
  <2>6. [event |-> e, next |-> 1] \in Call /\ Idle \notin Call
    BY <2>3 DEF Call, ConsumerAssumption
  <2>7. /\ call' \in [Calls -> Call \cup {Idle}]
        /\ call'[c] = [event |-> e, next |-> 1] /\ call'[c] # Idle
        /\ \A d \in Calls \ {c} : call'[d] = call[d]
    BY <2>2, <2>6 DEF ConsumerIInv, TypeOK
  <2>8. TypeOK'
    BY <2>2, <2>5, <2>7 DEF ConsumerIInv, TypeOK
  <2>9. ToSet(order') = ToSet(order) \cup {e}
    BY <2>2, <2>3 DEF ToSet
  <2>10. Untouched'
    BY <2>2, <2>7, <2>9 DEF ConsumerIInv, Untouched
  <2>11. Alone'
    BY <2>1, <2>7 DEF ConsumerIInv, Untouched, Alone
  <2>12. InTurn'
    BY <2>1, <2>2, <2>3, <2>7 DEF ConsumerIInv, Untouched, InTurn
  <2>13. HandledAtMostOnce'
    BY <2>2 DEF ConsumerIInv, HandledAtMostOnce
  <2> QED
    BY <2>5, <2>8, <2>10, <2>11, <2>12, <2>13 DEF ConsumerIInv
<1> QED
  BY <1>1, <1>2

(* A handler returns: it finished an event of a call that is alone with it. *)
LEMMA ReturnInv ==
  ASSUME ConsumerAssumption, ConsumerIInv, NEW c \in Calls, HandlerReturns(c)
  PROVE  ConsumerIInv'
<1> DEFINE e == call[c].event
           h == call[c].next
<1>1. /\ call[c] \in Call /\ call[c] # Idle /\ Idle \notin Call
      /\ e \in Events /\ h \in 1..Handlers /\ Handlers \in Nat \ {0}
  BY DEF HandlerReturns, ConsumerIInv, TypeOK, ConsumerAssumption, Call
<1>2. runs \in [Events -> [1..Handlers -> Nat]] /\ call \in [Calls -> Call \cup {Idle}]
  BY DEF ConsumerIInv, TypeOK
<1>3. \A k \in 1..Handlers : runs[e][k] = IF k < h THEN 1 ELSE 0
  BY <1>1 DEF ConsumerIInv, InTurn
<1>4. /\ runs' \in [Events -> [1..Handlers -> Nat]]
      /\ \A f \in Events \ {e} : runs'[f] = runs[f]
      /\ \A k \in 1..Handlers : runs'[e][k] = IF k <= h THEN 1 ELSE 0
  <2>1. runs' = [runs EXCEPT ![e][h] = @ + 1]
    BY DEF HandlerReturns
  <2>2. runs' \in [Events -> [1..Handlers -> Nat]] /\ \A f \in Events \ {e} : runs'[f] = runs[f]
    BY <1>1, <1>2, <2>1
  <2>3. \A k \in 1..Handlers : runs'[e][k] = IF k = h THEN runs[e][k] + 1 ELSE runs[e][k]
    BY <1>1, <1>2, <2>1
  <2> HIDE DEF e, h
  <2>4. ASSUME NEW k \in 1..Handlers PROVE runs'[e][k] = IF k <= h THEN 1 ELSE 0
    <3>1. h \in Int /\ k \in Int
      BY <1>1
    <3>2. CASE k = h
      BY <1>3, <2>3, <3>1, <3>2
    <3>3. CASE k # h
      BY <1>3, <2>3, <3>1, <3>3
    <3> QED
      BY <3>2, <3>3
  <2> QED
    BY <2>2, <2>4
<1>5. /\ call' \in [Calls -> Call \cup {Idle}]
      /\ \A d \in Calls \ {c} : call'[d] = call[d]
      /\ \/ h = Handlers /\ call'[c] = Idle
         \/ /\ h < Handlers /\ call'[c] # Idle
            /\ call'[c].event = e /\ call'[c].next = h + 1
  <2>1. CASE h < Handlers /\ call' = [call EXCEPT ![c].next = @ + 1]
    <3>1. call[c] = [event |-> e, next |-> h]
      BY <1>1 DEF Call
    <3>2. [call[c] EXCEPT !.next = @ + 1] = [event |-> e, next |-> h + 1]
      BY <3>1
    <3>3. [event |-> e, next |-> h + 1] \in Call
      BY <1>1, <2>1 DEF Call
    <3>4. call' = [call EXCEPT ![c] = [event |-> e, next |-> h + 1]]
      BY <2>1, <3>2
    <3>5. call'[c] = [event |-> e, next |-> h + 1] /\ \A d \in Calls \ {c} : call'[d] = call[d]
      BY <1>2, <3>4
    <3>6. call' \in [Calls -> Call \cup {Idle}]
      BY <1>2, <3>3, <3>4
    <3>7. call'[c] # Idle
      BY <1>1, <3>3, <3>5
    <3> HIDE DEF e, h
    <3>8. call'[c].event = e /\ call'[c].next = h + 1
      BY <3>5
    <3> QED
      BY <2>1, <3>5, <3>6, <3>7, <3>8
  <2>2. CASE h = Handlers /\ call' = [call EXCEPT ![c] = Idle]
    BY <1>2, <2>2
  <2> QED
    BY <2>1, <2>2 DEF HandlerReturns
<1>6. /\ UNCHANGED <<processedIds, order>> /\ committed' \subseteq Events
  BY <1>1 DEF HandlerReturns, ConsumerIInv, TypeOK
<1> HIDE DEF e, h
<1>7. \A d \in Calls \ {c} : call[d] # Idle => call[d].event # e
  BY <1>1 DEF ConsumerIInv, Alone, e
<1>8. TypeOK'
  BY <1>4, <1>5, <1>6 DEF ConsumerIInv, TypeOK
<1>9. Untouched'
  <2>1. e \in ToSet(order)
    BY <1>1 DEF ConsumerIInv, Untouched, e
  <2>2. ASSUME NEW f \in Events, f \notin ToSet(order)
        PROVE  (\A k \in 1..Handlers : runs'[f][k] = 0) /\ \A d \in Calls : call'[d] # Idle => call'[d].event # f
    BY <1>4, <1>5, <2>1, <2>2 DEF ConsumerIInv, Untouched
  <2> QED
    BY <1>6, <2>2 DEF Untouched
<1>10. Alone'
  BY <1>5, <1>7 DEF ConsumerIInv, Alone
<1>11. InTurn'
  <2> SUFFICES ASSUME NEW d \in Calls, call'[d] # Idle, NEW k \in 1..Handlers
               PROVE  runs'[call'[d].event][k] = IF k < call'[d].next THEN 1 ELSE 0
    BY DEF InTurn
  <2>1. CASE d = c
    BY <1>1, <1>4, <1>5, <2>1
  <2>2. CASE d # c
    <3>1. call'[d] = call[d] /\ call[d] # Idle /\ call[d].event \in Events \ {e}
      BY <1>2, <1>5, <1>7, <2>2 DEF Call
    <3> QED
      BY <1>4, <3>1 DEF ConsumerIInv, InTurn
  <2> QED
    BY <2>1, <2>2
<1>12. HandledAtMostOnce'
  <2> SUFFICES ASSUME NEW f \in Events, NEW g \in 1..Handlers, NEW k \in 1..Handlers
               PROVE  runs'[f][k] <= 1 /\ (g < k => runs'[f][g] >= runs'[f][k])
    BY DEF HandledAtMostOnce
  <2>1. CASE f = e
    BY <1>1, <1>4, <2>1
  <2>2. CASE f # e
    BY <1>4, <2>2 DEF ConsumerIInv, HandledAtMostOnce
  <2> QED
    BY <2>1, <2>2
<1> QED
  BY <1>6, <1>8, <1>9, <1>10, <1>11, <1>12 DEF ConsumerIInv

(* A handler throws: its call is over.                                      *)
LEMMA ThrowInv == ASSUME ConsumerIInv, NEW c \in Calls, HandlerThrows(c) PROVE ConsumerIInv'
<1>1. /\ call' \in [Calls -> Call \cup {Idle}] /\ call'[c] = Idle
      /\ \A d \in Calls \ {c} : call'[d] = call[d]
  BY DEF HandlerThrows, ConsumerIInv, TypeOK
<1>2. UNCHANGED <<processedIds, runs, order, committed>>
  BY DEF HandlerThrows
<1>3. TypeOK'
  BY <1>1, <1>2 DEF ConsumerIInv, TypeOK
<1>4. Untouched' /\ Alone' /\ InTurn' /\ HandledAtMostOnce'
  BY <1>1, <1>2 DEF ConsumerIInv, Untouched, Alone, InTurn, HandledAtMostOnce
<1> QED
  BY <1>2, <1>3, <1>4 DEF ConsumerIInv

(* Every step keeps it.                                                     *)
LEMMA ConsumerNextInv == ASSUME ConsumerAssumption, ConsumerIInv, [Next]_vars PROVE ConsumerIInv'
<1>1. CASE UNCHANGED vars
  BY <1>1 DEF vars, ConsumerIInv, TypeOK, Untouched, Alone, InTurn, HandledAtMostOnce
<1> QED
  BY <1>1, ProcessInv, ReturnInv, ThrowInv DEF Next

-----------------------------------------------------------------------------
(* The variables have their types, and processedIds stays within            *)
(* MAX_PROCESSED_IDS (processEvent in kafka-bus.ts).                        *)
THEOREM ConsumerTypes == ASSUME ConsumerAssumption PROVE Spec => []TypeOK
<1>1. Init => ConsumerIInv
  BY ConsumerInitInv
<1>2. ConsumerIInv /\ [Next]_vars => ConsumerIInv'
  BY ConsumerNextInv
<1>3. ConsumerIInv => TypeOK
  BY DEF ConsumerIInv
<1> QED
  BY <1>1, <1>2, <1>3, PTL DEF Spec

(* As long as the broker delivers again only what a clean-up leaves the key *)
(* of, no handler of processEvent finishes an event twice, or out of turn,  *)
(* whichever handlers throw and however the calls overlap (kafka-bus.ts).   *)
THEOREM HandledOnce == ASSUME ConsumerAssumption PROVE Spec => []HandledAtMostOnce
<1>1. Init => ConsumerIInv
  BY ConsumerInitInv
<1>2. ConsumerIInv /\ [Next]_vars => ConsumerIInv'
  BY ConsumerNextInv
<1>3. ConsumerIInv => HandledAtMostOnce
  BY DEF ConsumerIInv
<1> QED
  BY <1>1, <1>2, <1>3, PTL DEF Spec

-----------------------------------------------------------------------------
Within(s) == \A i \in 1..Len(s) : s[i] \in 1..accepted

Ascending(s) == \A i, j \in 1..Len(s) : i < j => s[i] < s[j]

(* Only accepted operations were sent or are kept.                          *)
FailoverIInv == FailoverTypeOK /\ Within(sent) /\ Within(buffer) /\ AcceptedOnce

-----------------------------------------------------------------------------
(* What a sequence contains after one more element, and after another       *)
(* sequence.                                                                *)
LEMMA AppendContains ==
  ASSUME NEW s \in Seq(Ops), NEW op \in Ops, NEW x
  PROVE  Contains(Append(s, op), x) <=> Contains(s, x) \/ x = op
<1>1. Len(s) \in Nat /\ Len(Append(s, op)) = Len(s) + 1
  OBVIOUS
<1>2. (\A i \in 1..Len(s) : Append(s, op)[i] = s[i]) /\ Append(s, op)[Len(s) + 1] = op
  OBVIOUS
<1> QED
  BY <1>1, <1>2 DEF Contains

(* The elements of a sequence after one more.                               *)
LEMMA AppendElements ==
  ASSUME NEW s \in Seq(Ops), NEW op \in Ops, NEW S, op \in S, \A i \in 1..Len(s) : s[i] \in S
  PROVE  \A i \in 1..Len(Append(s, op)) : Append(s, op)[i] \in S
<1> DEFINE u == Append(s, op)
<1>1. Len(s) \in Nat /\ Len(u) = Len(s) + 1
  OBVIOUS
<1>2. (\A i \in 1..Len(s) : u[i] = s[i]) /\ u[Len(s) + 1] = op
  OBVIOUS
<1>3. \A i \in 1..Len(u) : i \in 1..Len(s) \/ i = Len(s) + 1
  BY <1>1
<1> HIDE DEF u
<1>4. \A i \in 1..Len(u) : u[i] \in S
  BY <1>2, <1>3
<1> QED
  BY <1>4 DEF u

(* A concatenation contains what either part does.                          *)
LEMMA ConcatContains ==
  ASSUME NEW s \in Seq(Ops), NEW t \in Seq(Ops), NEW x
  PROVE  Contains(s \o t, x) <=> Contains(s, x) \/ Contains(t, x)
<1> DEFINE u == s \o t
<1>1. Len(s) \in Nat /\ Len(t) \in Nat /\ Len(u) = Len(s) + Len(t)
  OBVIOUS
<1>2. /\ \A i \in 1..Len(s) : u[i] = s[i]
      /\ \A i \in 1..Len(t) : u[Len(s) + i] = t[i]
  OBVIOUS
<1>3. \A i \in 1..Len(u) : i \in 1..Len(s) \/ (i - Len(s) \in 1..Len(t) /\ u[i] = t[i - Len(s)])
  BY <1>1, <1>2
<1> HIDE DEF u
<1>4. \A i \in 1..Len(s) : i \in 1..Len(u)
  BY <1>1
<1>5. \A i \in 1..Len(t) : Len(s) + i \in 1..Len(u)
  BY <1>1
<1>6. Contains(u, x) <=> Contains(s, x) \/ Contains(t, x)
  BY <1>2, <1>3, <1>4, <1>5 DEF Contains
<1> QED
  BY <1>6 DEF u

(* Either the one or the other: one of two truth values.                    *)
LEMMA EitherOr ==
  ASSUME NEW s, NEW t, NEW x
  PROVE  Contains(s, x) # Contains(t, x) <=> (Contains(s, x) <=> ~Contains(t, x))
BY DEF Contains

(* A sequence stays injective with a new element, and with an ascending one *)
(* it has no element of.                                                    *)
LEMMA InjectiveAppended ==
  ASSUME NEW S, NEW s \in Seq(S), NEW op \in S, IsInjective(s), ~Contains(s, op)
  PROVE  IsInjective(Append(s, op))
<1> DEFINE u == Append(s, op)
<1>1. Len(s) \in Nat /\ Len(u) = Len(s) + 1 /\ DOMAIN u = 1..Len(u) /\ DOMAIN s = 1..Len(s)
  OBVIOUS
<1>2. (\A i \in 1..Len(s) : u[i] = s[i]) /\ u[Len(s) + 1] = op
  OBVIOUS
<1>3. \A i \in 1..Len(u) : i \in 1..Len(s) \/ i = Len(s) + 1
  BY <1>1
<1> SUFFICES ASSUME NEW a \in 1..Len(u), NEW b \in 1..Len(u), u[a] = u[b] PROVE a = b
  BY <1>1 DEF IsInjective
<1> HIDE DEF u
<1> QED
  BY <1>1, <1>2, <1>3 DEF IsInjective, Contains

(* Two injective sequences without a common element.                        *)
LEMMA InjectiveJoined ==
  ASSUME NEW s \in Seq(Ops), NEW t \in Seq(Ops), IsInjective(s), Ascending(t), MaxOps \in Nat,
         \A i \in 1..Len(t) : ~Contains(s, t[i])
  PROVE  IsInjective(s \o t)
<1> DEFINE u == s \o t
<1>1. /\ Len(s) \in Nat /\ Len(t) \in Nat /\ Len(u) = Len(s) + Len(t)
      /\ DOMAIN u = 1..Len(u) /\ DOMAIN s = 1..Len(s)
  OBVIOUS
<1>2. \A i \in 1..Len(s) : u[i] = s[i]
  OBVIOUS
<1>3. \A i \in 1..Len(u) : i \in 1..Len(s) \/ (i - Len(s) \in 1..Len(t) /\ u[i] = t[i - Len(s)])
  BY <1>1
<1>4. \A i, j \in 1..Len(t) : t[i] = t[j] => i = j
  <2> SUFFICES ASSUME NEW i \in 1..Len(t), NEW j \in 1..Len(t), i # j PROVE t[i] # t[j]
    OBVIOUS
  <2>1. t[i] \in Int /\ t[j] \in Int
    BY DEF Ops
  <2> QED
    BY <1>1, <2>1 DEF Ascending
<1> HIDE DEF u
<1> SUFFICES ASSUME NEW a \in 1..Len(u), NEW b \in 1..Len(u), u[a] = u[b] PROVE a = b
  BY <1>1 DEF IsInjective, u
<1>5. CASE a \in 1..Len(s) /\ b \in 1..Len(s)
  BY <1>1, <1>2, <1>5 DEF IsInjective
<1>6. CASE a \in 1..Len(s) /\ b \notin 1..Len(s)
  BY <1>2, <1>3, <1>6 DEF Contains
<1>7. CASE a \notin 1..Len(s) /\ b \in 1..Len(s)
  BY <1>2, <1>3, <1>7 DEF Contains
<1>8. CASE a \notin 1..Len(s) /\ b \notin 1..Len(s)
  <2>1. a - Len(s) = b - Len(s)
    BY <1>3, <1>4, <1>8
  <2> QED
    BY <1>1, <2>1
<1> QED
  BY <1>5, <1>6, <1>7, <1>8

-----------------------------------------------------------------------------
(* A new client.                                                            *)
LEMMA FailoverInitInv == ASSUME FailoverAssumption, FailoverInit PROVE FailoverIInv
<1>1. FailoverTypeOK
  BY DEF FailoverAssumption, FailoverInit, FailoverTypeOK, States
<1>2. Within(sent) /\ Within(buffer)
  BY DEF FailoverInit, Within
<1>3. AcceptedOnce
  BY DEF FailoverInit, AcceptedOnce, IsInjective
<1> QED
  BY <1>1, <1>2, <1>3 DEF FailoverIInv

(* An operation that is accepted goes to the server or into the buffer.     *)
LEMMA WriteInv ==
  ASSUME FailoverAssumption, FailoverIInv, NEW kind \in Operations, Write(kind)
  PROVE  FailoverIInv'
<1> DEFINE op == accepted + 1
<1>1. /\ accepted \in Nat /\ op \in Ops /\ accepted' = op /\ MaxOps \in Nat
      /\ sent \in Seq(Ops) /\ buffer \in Seq(Ops)
      /\ UNCHANGED <<state, age>>
  BY DEF FailoverAssumption, FailoverIInv, FailoverTypeOK, Write, Ops
<1>2. ~Contains(sent, op) /\ ~Contains(buffer, op)
  BY <1>1 DEF FailoverIInv, Within, Contains
<1>3. \A i \in 1..Len(buffer) : buffer[i] < op
  BY <1>1 DEF FailoverIInv, Within
<1>4. \A x \in 1..accepted' : x \in 1..accepted \/ x = op
  BY <1>1
<1>5. 1..accepted \subseteq 1..accepted'
  BY <1>1
<1>6. op \in 1..accepted' /\ op \in Ops
  BY <1>1
<1> HIDE DEF op
<1>7. CASE sent' = Append(sent, op) /\ buffer' = buffer
  <2>1. FailoverTypeOK'
    BY <1>1, <1>7 DEF FailoverIInv, FailoverTypeOK, Ops
  <2>2. Within(sent)' /\ Within(buffer)'
    BY <1>1, <1>5, <1>7, <1>6, AppendElements DEF FailoverIInv, Within
  <2>3. \A x \in 1..accepted' : Contains(sent', x) # Contains(buffer', x)
    <3> SUFFICES ASSUME NEW x \in 1..accepted' PROVE Contains(sent', x) <=> ~Contains(buffer', x)
      BY EitherOr
    <3>1. Contains(sent', x) <=> Contains(sent, x) \/ x = op
      BY <1>1, <1>7, AppendContains DEF op
    <3>2. x # op => (Contains(sent, x) <=> ~Contains(buffer, x))
      BY <1>4, EitherOr DEF FailoverIInv, AcceptedOnce
    <3> QED
      BY <1>2, <1>7, <3>1, <3>2
  <2>4. IsInjective(sent')
    <3>1. IsInjective(sent) /\ op \in Ops
      BY <1>1 DEF FailoverIInv, AcceptedOnce, op
    <3> QED
      BY <1>1, <1>2, <1>7, <3>1, InjectiveAppended
  <2> QED
    BY <1>7, <2>1, <2>2, <2>3, <2>4 DEF FailoverIInv, AcceptedOnce
<1>8. CASE buffer' = Append(buffer, op) /\ sent' = sent
  <2>1. FailoverTypeOK'
    BY <1>1, <1>8 DEF FailoverIInv, FailoverTypeOK, Ops
  <2>2. Within(sent)' /\ Within(buffer)'
    BY <1>1, <1>5, <1>8, <1>6, AppendElements DEF FailoverIInv, Within
  <2>3. \A x \in 1..accepted' : Contains(sent', x) # Contains(buffer', x)
    <3> SUFFICES ASSUME NEW x \in 1..accepted' PROVE Contains(sent', x) <=> ~Contains(buffer', x)
      BY EitherOr
    <3>1. Contains(buffer', x) <=> Contains(buffer, x) \/ x = op
      BY <1>1, <1>8, AppendContains DEF op
    <3>2. x # op => (Contains(sent, x) <=> ~Contains(buffer, x))
      BY <1>4, EitherOr DEF FailoverIInv, AcceptedOnce
    <3> QED
      BY <1>2, <1>8, <3>1, <3>2
  <2>4. \A i, j \in DOMAIN buffer' : i < j => buffer'[i] < buffer'[j]
    BY <1>1, <1>3, <1>8 DEF FailoverIInv, AcceptedOnce
  <2> QED
    BY <1>8, <2>1, <2>2, <2>3, <2>4 DEF FailoverIInv, AcceptedOnce
<1> QED
  BY <1>7, <1>8 DEF Write, op

(* The replay hands the whole buffer to the server.                         *)
LEMMA ReconnectInv == ASSUME FailoverAssumption, FailoverIInv, HandleReconnect PROVE FailoverIInv'
<1>1. /\ sent \in Seq(Ops) /\ buffer \in Seq(Ops) /\ MaxOps \in Nat
      /\ sent' = sent \o buffer /\ buffer' = <<>> /\ accepted' = accepted
  BY DEF FailoverAssumption, FailoverIInv, FailoverTypeOK, HandleReconnect
<1>2. FailoverTypeOK'
  BY <1>1 DEF FailoverAssumption, FailoverIInv, FailoverTypeOK, HandleReconnect, States
<1>3. Within(sent)' /\ Within(buffer)'
  BY <1>1 DEF FailoverIInv, Within
<1>4. \A x \in 1..accepted' : Contains(sent', x) # Contains(buffer', x)
  <2> SUFFICES ASSUME NEW x \in 1..accepted' PROVE Contains(sent', x) <=> ~Contains(buffer', x)
    BY EitherOr
  <2>1. ~Contains(buffer', x)
    BY <1>1 DEF Contains
  <2>2. Contains(sent', x) <=> Contains(sent, x) \/ Contains(buffer, x)
    BY <1>1, ConcatContains
  <2>3. Contains(sent, x) <=> ~Contains(buffer, x)
    BY <1>1, EitherOr DEF FailoverIInv, AcceptedOnce
  <2> QED
    BY <1>1, <2>1, <2>2, <2>3
<1>5. IsInjective(sent')
  <2>1. Ascending(buffer)
    BY <1>1 DEF FailoverIInv, AcceptedOnce, Ascending
  <2>2. \A i \in 1..Len(buffer) : ~Contains(sent, buffer[i])
    <3> SUFFICES ASSUME NEW i \in 1..Len(buffer) PROVE ~Contains(sent, buffer[i])
      OBVIOUS
    <3>1. Contains(buffer, buffer[i])
      BY DEF Contains
    <3> QED
      BY <3>1 DEF FailoverIInv, Within, AcceptedOnce
  <2> QED
    BY <1>1, <2>1, <2>2, InjectiveJoined DEF FailoverIInv, AcceptedOnce
<1>6. \A i, j \in DOMAIN buffer' : i < j => buffer'[i] < buffer'[j]
  BY <1>1
<1> QED
  BY <1>2, <1>3, <1>4, <1>5, <1>6 DEF FailoverIInv, AcceptedOnce

(* Every step keeps it.                                                     *)
LEMMA FailoverNextInv == ASSUME FailoverAssumption, FailoverIInv, [FailoverNext]_failoverVars PROVE FailoverIInv'
<1>1. ASSUME UNCHANGED <<buffer, accepted, sent>>, state' \in States, age' \in 0..BufferTimeout
      PROVE  FailoverIInv'
  BY <1>1 DEF FailoverIInv, FailoverTypeOK, Within, AcceptedOnce
<1>2. CASE Connect \/ Disconnect \/ UNCHANGED failoverVars
  BY <1>1, <1>2 DEF Connect, Disconnect, failoverVars, FailoverIInv, FailoverTypeOK, States
<1>3. CASE HandleDisconnect \/ Tick \/ CheckTimeout
  BY <1>1, <1>3 DEF HandleDisconnect, Tick, CheckTimeout, FailoverAssumption, FailoverIInv, FailoverTypeOK, States
<1> QED
  BY <1>2, <1>3, WriteInv, ReconnectInv DEF FailoverNext

-----------------------------------------------------------------------------
(* The variables have their types.                                          *)
THEOREM FailoverTypes == ASSUME FailoverAssumption PROVE FailoverSpec => []FailoverTypeOK
<1>1. FailoverInit => FailoverIInv
  BY FailoverInitInv
<1>2. FailoverIInv /\ [FailoverNext]_failoverVars => FailoverIInv'
  BY FailoverNextInv
<1>3. FailoverIInv => FailoverTypeOK
  BY DEF FailoverIInv
<1> QED
  BY <1>1, <1>2, <1>3, PTL DEF FailoverSpec

(* What publish, set, delete or saveCheckpoint accepted is sent once or     *)
(* still kept, in the callers' order, however often the connection flaps,   *)
(* degrades and is replayed (kafka-bus.ts, redis-store.ts).                 *)
THEOREM AcceptedIsSentOnce == ASSUME FailoverAssumption PROVE FailoverSpec => []AcceptedOnce
<1>1. FailoverInit => FailoverIInv
  BY FailoverInitInv
<1>2. FailoverIInv /\ [FailoverNext]_failoverVars => FailoverIInv'
  BY FailoverNextInv
<1>3. FailoverIInv => AcceptedOnce
  BY DEF FailoverIInv
<1> QED
  BY <1>1, <1>2, <1>3, PTL DEF FailoverSpec
=============================================================================
