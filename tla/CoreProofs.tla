------------------------------ MODULE CoreProofs ------------------------------
(***************************************************************************)
(* Proofs about the parts of MCCore that are not extended by it: requests  *)
(* on the message bus, routed events, the governance policies and the      *)
(* registry's directory, each for any values of its constants; and, with   *)
(* what GuardsProofs shows, the invariants of the run that they are part of. *)
(***************************************************************************)
EXTENDS GuardsProofs, EventBusProofs

RP == INSTANCE AgentRegistryProofs
        WITH Agents <- Members, Ops <- {Op}, MaxRows <- 5, ListedOnly <- TRUE
PP == INSTANCE EventBusProofs WITH Operations <- {"publish"}

-----------------------------------------------------------------------------
(* Requests on the message bus.                                             *)

(* A request was heard of exactly if it resolved.                           *)
BusIInv == /\ request \in [Requests -> Bus!States]
           /\ replyHandlers \subseteq Requests /\ heard \subseteq Requests
           /\ Bus!AnsweredInTime

(* Nobody has asked yet.                                                    *)
LEMMA BusInitInv == Bus!Init => BusIInv
  BY DEF Bus!Init, BusIInv, Bus!States, Bus!AnsweredInTime

(* Calling request() answers it at once, leaves it waiting or fails it.     *)
LEMMA RequestInv ==
  ASSUME BusIInv, NEW r \in Requests, NEW act, Bus!Request(r, act)
  PROVE  BusIInv'
<1>1. request[r] = "new" /\ r \notin heard
  BY DEF Bus!Request, BusIInv, Bus!AnsweredInTime
<1>2. \/ /\ request' = [request EXCEPT ![r] = "direct"]
         /\ UNCHANGED <<heard, replyHandlers>>
      \/ /\ replyHandlers' = replyHandlers \cup {r}
         /\ \/ /\ heard' = heard \cup {r}
               /\ request' = [request EXCEPT ![r] = "answered"]
            \/ /\ heard' = heard
               /\ \E s \in {"failed", "published"} : request' = [request EXCEPT ![r] = s]
  BY DEF Bus!Request
<1> QED
  BY <1>1, <1>2 DEF BusIInv, Bus!States, Bus!Pending, Bus!AnsweredInTime

(* A reply settles the request it is for, and that only while it waits.     *)
LEMMA ReplyInv ==
  ASSUME BusIInv, NEW r \in Requests, Bus!Reply(r) \/ Bus!DirectReply(r) \/ Bus!Timeout(r)
  PROVE  BusIInv'
<1>1. ASSUME Bus!Reply(r) PROVE BusIInv'
  BY <1>1 DEF Bus!Reply, Bus!Answers, BusIInv, Bus!States, Bus!Pending, Bus!AnsweredInTime
<1>2. ASSUME Bus!DirectReply(r) PROVE BusIInv'
  BY <1>2 DEF Bus!DirectReply, BusIInv, Bus!States, Bus!Pending, Bus!AnsweredInTime
<1>3. ASSUME Bus!Timeout(r) PROVE BusIInv'
  BY <1>3 DEF Bus!Timeout, BusIInv, Bus!States, Bus!Pending, Bus!AnsweredInTime
<1> QED
  BY <1>1, <1>2, <1>3

(* Every step of the bus keeps it.                                          *)
LEMMA BusNextInv == ASSUME BusIInv, Bus!Next PROVE BusIInv'
<1>1. ASSUME UNCHANGED <<request, heard>>, replyHandlers' \subseteq replyHandlers
      PROVE  BusIInv'
  BY <1>1 DEF BusIInv, Bus!AnsweredInTime
<1>2. ASSUME NEW t \in Bus!Channels, NEW h \in BusHandlers, Bus!Subscribe(t, h) \/ Bus!Unsubscribe(t, h)
      PROVE  BusIInv'
  BY <1>1, <1>2 DEF Bus!Subscribe, Bus!Unsubscribe
<1>3. ASSUME NEW t \in BusTopics, NEW e \in BusEvents, NEW act, Bus!Publish(t, e, act)
      PROVE  BusIInv'
  BY <1>1, <1>3 DEF Bus!Publish
<1>4. ASSUME Bus!OnRequest \/ Bus!Clear PROVE BusIInv'
  BY <1>1, <1>4 DEF Bus!OnRequest, Bus!Clear
<1> QED
  BY <1>2, <1>3, <1>4, RequestInv, ReplyInv DEF Bus!Next

Walking == [called : SUBSET BusHandlers, left : Seq(BusHandlers), threw : BOOLEAN]

(* A handler that is removed leaves an array of handlers.                   *)
LEMMA RemoveFirstType ==
  ASSUME NEW S, NEW s \in Seq(S), NEW e
  PROVE  Bus!RemoveFirst(s, e) \in Seq(S)
<1> DEFINE I == {i \in 1..Len(s) : s[i] = e}
<1>1. CASE \E i \in 1..Len(s) : s[i] = e
  <2>1. I \in SUBSET Nat /\ I # {}
    BY <1>1
  <2>2. PICK m \in I : \A k \in I : m <= k
    BY <2>1, LeastNumber
  <2>3. Bus!Min(I) \in I
    BY <2>2 DEF Bus!Min
  <2>4. Bus!SelectInSeq(s, LAMBDA v : v = e) = Bus!Min(I)
    BY <2>1 DEF Bus!SelectInSeq
  <2>5. Bus!RemoveFirst(s, e) = SubSeq(s, 1, Bus!Min(I) - 1) \o SubSeq(s, Bus!Min(I) + 1, Len(s))
    BY <1>1, <2>4 DEF Bus!RemoveFirst, Bus!RemoveAt
  <2>6. PICK i \in 1..Len(s) : i = Bus!Min(I)
    BY <2>3
  <2>7. SubSeq(s, 1, i - 1) \in Seq(S) /\ SubSeq(s, i + 1, Len(s)) \in Seq(S)
    OBVIOUS
  <2> QED
    BY <2>5, <2>6, <2>7
<1>2. CASE ~ \E i \in 1..Len(s) : s[i] = e
  BY <1>2 DEF Bus!RemoveFirst
<1> QED
  BY <1>1, <1>2

LEMMA RoundType ==
  ASSUME NEW act, NEW w \in Walking, NEW n \in Nat \ {0} PROVE Bus!Round(w, n, act) \in Walking
<1>1. CASE w.threw \/ n > Len(w.left)
  BY <1>1 DEF Bus!Round
<1>2. CASE ~ (w.threw \/ n > Len(w.left))
  <2> DEFINE h == w.left[n]
  <2>1. h \in BusHandlers
    BY <1>2 DEF Walking
  <2>2. Bus!RemoveFirst(w.left, h) \in Seq(BusHandlers)
    BY RemoveFirstType DEF Walking
  <2>3. Bus!Round(w, n, act) = [called |-> w.called \cup {h}, threw |-> act[h] = "throw",
             left |-> IF act[h] = "leave" THEN Bus!RemoveFirst(w.left, h) ELSE w.left]
    BY <1>2 DEF Bus!Round
  <2> QED
    BY <2>1, <2>2, <2>3 DEF Walking
<1> QED
  BY <1>1, <1>2

LEMMA WalkType ==
  ASSUME NEW hs \in Seq(BusHandlers), NEW act PROVE Bus!Walk(hs, act) \in Walking
<1> DEFINE s0 == [called |-> {}, left |-> hs, threw |-> FALSE]
           step == [p \in Walking \X Nat |-> IF p[2] = 0 THEN p[1] ELSE Bus!Round(p[1], p[2], act)]
<1>1. s0 \in Walking
  BY DEF Walking
<1>2. step \in [Walking \X Nat -> Walking]
  BY RoundType
<1>w. PICK w : w = CHOOSE f : f = [n \in Nat |-> IF n = 0 THEN s0 ELSE Bus!Round(f[n - 1], n, act)]
  OBVIOUS
<1>3. Bus!Walk(hs, act) = w[Len(hs)]
  BY <1>w, Zenon DEF Bus!Walk
<1>4. \E v : v = [n \in Nat |-> IF n = 0 THEN s0 ELSE Bus!Round(v[n - 1], n, act)]
  <2>1. Steps(step, Walking)
    BY <1>2 DEF Steps
  <2> HIDE DEF s0, step
  <2>r. PICK v : Runs(v, Walking, s0, step)
    BY <1>1, <2>1, Recursion
  <2>2. \A n \in Nat \ {0} : n - 1 \in Nat /\ step[<<v[n - 1], n>>] = Bus!Round(v[n - 1], n, act)
    BY <2>r DEF step, Runs
  <2>3. \A n \in Nat : v[n] = IF n = 0 THEN s0 ELSE Bus!Round(v[n - 1], n, act)
    BY <2>r, <2>2 DEF Runs
  <2>4. v = [n \in Nat |-> v[n]]
    BY <2>r DEF Runs
  <2> QED
    BY <2>3, <2>4
<1>5. w = [n \in Nat |-> IF n = 0 THEN s0 ELSE Bus!Round(w[n - 1], n, act)]
  BY <1>w, <1>4, Zenon
<1> HIDE DEF s0
<1>6. w[0] = s0 /\ \A n \in Nat \ {0} : w[n] = Bus!Round(w[n - 1], n, act)
  BY <1>5
<1>7. \A n \in Nat : w[n] \in Walking
  BY <1>1, <1>6, RoundType, Persists
<1> QED
  BY <1>3, <1>7

(* A topic keeps a sequence of events within its limit.                     *)
LEMMA KeptType ==
  ASSUME NEW S, NEW log \in Seq(S), NEW e \in S, Len(log) <= MaxEvents, MaxEvents \in Nat \ {0}
  PROVE  Bus!Kept(log, e) \in Seq(S) /\ Len(Bus!Kept(log, e)) <= MaxEvents
<1>1. CASE Len(log) = MaxEvents
  <2>1. log # <<>>
    BY <1>1
  <2>2. PICK t : t = Tail(log)
    OBVIOUS
  <2>3. t \in Seq(S) /\ Len(t) = Len(log) - 1
    BY <2>1, <2>2
  <2>4. Append(t, e) \in Seq(S) /\ Len(Append(t, e)) = Len(t) + 1
    BY <2>3
  <2>5. Bus!Kept(log, e) = Append(t, e)
    BY <1>1, <2>2 DEF Bus!Kept
  <2> QED
    BY <1>1, <2>3, <2>4, <2>5
<1>2. CASE Len(log) # MaxEvents
  <2>1. Append(log, e) \in Seq(S) /\ Len(Append(log, e)) = Len(log) + 1
    OBVIOUS
  <2> QED
    BY <1>2, <2>1 DEF Bus!Kept
<1> QED
  BY <1>1, <1>2

(* The topics' logs and the handlers' arrays have their types and bounds,   *)
(* for the channels and events of the bus alone or of the choreographer.    *)
Logs(channels, published) ==
  /\ topics \in [channels -> Seq(published)]
  /\ \A t \in channels : Len(topics[t]) <= MaxEvents
  /\ subscribers \in [channels -> Seq(BusHandlers)]
  /\ got \subseteq channels \X published

(* Empty logs and arrays: at the start, and after clear().                  *)
LEMMA EmptyTyped ==
  ASSUME NEW channels, NEW S, NEW f, f = [t \in channels |-> <<>>]
  PROVE  f \in [channels -> Seq(S)] /\ \A t \in channels : Len(f[t]) = 0
<1>1. <<>> \in Seq(S) /\ Len(<<>>) = 0
  OBVIOUS
<1> QED
  BY <1>1

(* A publish leaves logs and arrays of handlers.                            *)
LEMMA DeliverLogs ==
  ASSUME NEW channels, NEW published, MaxEvents \in Nat \ {0}, Logs(channels, published),
         NEW t \in channels, NEW e \in published, NEW act, Bus!Deliver(t, e, Bus!Walk(subscribers[t], act))
  PROVE  Logs(channels, published)'
<1>1. /\ topics[t] \in Seq(published) /\ Len(topics[t]) <= MaxEvents
      /\ subscribers[t] \in Seq(BusHandlers)
  BY DEF Logs
<1>2. PICK log : log = Bus!Kept(topics[t], e)
  OBVIOUS
<1>3. log \in Seq(published) /\ Len(log) <= MaxEvents
  BY <1>1, <1>2, KeptType
<1>4. PICK left : left = Bus!Walk(subscribers[t], act).left
  OBVIOUS
<1>5. left \in Seq(BusHandlers)
  BY <1>1, <1>4, WalkType DEF Walking
<1>6. topics' = [topics EXCEPT ![t] = log] /\ subscribers' = [subscribers EXCEPT ![t] = left]
      /\ got' = got \cup {<<t, e>>}
  BY <1>2, <1>4 DEF Bus!Deliver
<1>7. topics' \in [channels -> Seq(published)] /\ \A u \in channels : Len(topics'[u]) <= MaxEvents
  BY <1>3, <1>6 DEF Logs
<1>8. subscribers' \in [channels -> Seq(BusHandlers)]
  BY <1>5, <1>6 DEF Logs
<1>9. got' \subseteq channels \X published
  BY <1>6 DEF Logs
<1> QED
  BY <1>7, <1>8, <1>9 DEF Logs

(* So do a handler that comes and one that goes.                            *)
LEMMA HandlersLogs ==
  ASSUME NEW channels, NEW published, Logs(channels, published), NEW t \in channels, NEW h \in BusHandlers,
         Bus!Subscribe(t, h) \/ Bus!Unsubscribe(t, h)
  PROVE  Logs(channels, published)'
<1>1. subscribers[t] \in Seq(BusHandlers) /\ subscribers \in [channels -> Seq(BusHandlers)]
  BY DEF Logs
<1>2. Append(subscribers[t], h) \in Seq(BusHandlers) /\ Bus!RemoveFirst(subscribers[t], h) \in Seq(BusHandlers)
  BY <1>1, RemoveFirstType
<1>3. subscribers' \in [channels -> Seq(BusHandlers)]
  BY <1>1, <1>2 DEF Bus!Subscribe, Bus!Unsubscribe
<1> QED
  BY <1>3 DEF Logs, Bus!Subscribe, Bus!Unsubscribe

BusTypes == BusIInv /\ Logs(Bus!Channels, BusEvents \cup Requests) /\ direct \in BOOLEAN

LEMMA BusTypesInit == ASSUME Bus!BusAssumption, Bus!Init PROVE BusTypes
<1>1. MaxEvents \in Nat
  BY DEF Bus!BusAssumption
<1>2. topics = [t \in Bus!Channels |-> <<>>] /\ subscribers = [t \in Bus!Channels |-> <<>>] /\ got = {}
  BY DEF Bus!Init
<1>3. Logs(Bus!Channels, BusEvents \cup Requests)
  BY <1>1, <1>2, EmptyTyped DEF Logs
<1> QED
  BY <1>3, BusInitInv DEF Bus!Init, BusTypes

LEMMA BusTypesNext == ASSUME Bus!BusAssumption, BusTypes, Bus!Next PROVE BusTypes'
<1> DEFINE Typed == Logs(Bus!Channels, BusEvents \cup Requests)
<1>0. MaxEvents \in Nat \ {0} /\ Typed /\ direct \in BOOLEAN
  BY DEF BusTypes, Bus!BusAssumption
<1>1. ASSUME UNCHANGED <<topics, subscribers, got>> PROVE Typed'
  BY <1>0, <1>1 DEF Logs
<1>2. ASSUME NEW t \in Bus!Channels, NEW h \in BusHandlers, Bus!Subscribe(t, h) \/ Bus!Unsubscribe(t, h)
      PROVE  Typed' /\ direct' \in BOOLEAN
  <2>1. Typed'
    BY <1>0, <1>2, HandlersLogs
  <2> QED
    BY <1>0, <1>2, <2>1 DEF Bus!Subscribe, Bus!Unsubscribe
<1>3. ASSUME NEW t \in BusTopics, NEW e \in BusEvents, NEW act, Bus!Publish(t, e, act)
      PROVE  Typed' /\ direct' \in BOOLEAN
  <2>1. Typed'
    BY <1>0, <1>3, DeliverLogs DEF Bus!Publish, Bus!Channels
  <2> QED
    BY <1>0, <1>3, <2>1 DEF Bus!Publish
<1>4. ASSUME NEW r \in Requests, NEW act, Bus!Request(r, act)
      PROVE  Typed' /\ direct' \in BOOLEAN
  <2>1. direct' \in BOOLEAN
    BY <1>0, <1>4 DEF Bus!Request
  <2>2. \/ UNCHANGED <<topics, subscribers, got>>
        \/ Bus!Deliver(Ask, r, Bus!Walk(subscribers[Ask], act))
    BY <1>4 DEF Bus!Request
  <2>3. CASE Bus!Deliver(Ask, r, Bus!Walk(subscribers[Ask], act))
    BY <1>0, <2>1, <2>3, DeliverLogs DEF Bus!Channels
  <2> QED
    BY <1>1, <2>1, <2>2, <2>3
<1>5. ASSUME NEW r \in Requests, Bus!Reply(r) \/ Bus!DirectReply(r) \/ Bus!Timeout(r)
      PROVE  Typed' /\ direct' \in BOOLEAN
  BY <1>0, <1>1, <1>5 DEF Bus!Reply, Bus!DirectReply, Bus!Timeout
<1>6. ASSUME Bus!OnRequest PROVE Typed' /\ direct' \in BOOLEAN
  BY <1>1, <1>6 DEF Bus!OnRequest
<1>7. ASSUME Bus!Clear PROVE Typed' /\ direct' \in BOOLEAN
  <2>1. /\ topics' = [t \in Bus!Channels |-> <<>>] /\ subscribers' = [t \in Bus!Channels |-> <<>>]
        /\ direct' = FALSE /\ got' \subseteq Bus!Channels \X (BusEvents \cup Requests)
    BY <1>0, <1>7 DEF Bus!Clear, Logs
  <2>2. Typed'
    BY <1>0, <2>1, EmptyTyped DEF Logs
  <2> QED
    BY <2>1, <2>2
<1>8. Typed' /\ direct' \in BOOLEAN
  BY <1>2, <1>3, <1>4, <1>5, <1>6, <1>7 DEF Bus!Next
<1>9. BusIInv'
  BY BusNextInv DEF BusTypes
<1> QED
  BY <1>8, <1>9 DEF BusTypes

-----------------------------------------------------------------------------
(* Routed events.                                                           *)

\* The agents an event was published to.
Reached(e) == {a \in Members : <<a, e>> \in got}

\* The first n elements of a sequence.
Firsts(s, n) == {s[i] : i \in {k \in DOMAIN s : k <= n}}

(* An event has reached as many of its targets as its route has counted.    *)
RoutingIInv ==
  /\ subscriptions \in Seq(Members) /\ routeHistory \in [Routed -> Seq(Members)]
  /\ route \in [Routed -> [at : Routing!RouteStates, sent : Nat]]
  /\ \A e \in Routed : /\ route[e].at = "new" => route[e].sent = 0
                       /\ route[e].at = "resolved" => route[e].sent >= Len(routeHistory[e])
                       /\ route[e].sent <= Len(routeHistory[e])
                       /\ Reached(e) = Firsts(routeHistory[e], route[e].sent)

(* Before the first publish no subscriber of the record is reached.         *)
LEMMA FirstsNone == \A s \in Seq(Members) : Firsts(s, 0) = {}
<1> SUFFICES ASSUME NEW s \in Seq(Members) PROVE Firsts(s, 0) = {}
  OBVIOUS
<1>1. DOMAIN s = 1..Len(s) /\ Len(s) \in Nat
  OBVIOUS
<1> QED
  BY <1>1 DEF Firsts

(* After one more publish one more subscriber of the record is.             *)
LEMMA FirstsMore ==
  ASSUME NEW s \in Seq(Members), NEW n \in Nat, n + 1 <= Len(s)
  PROVE  Firsts(s, n + 1) = Firsts(s, n) \cup {s[n + 1]}
<1>1. DOMAIN s = 1..Len(s) /\ Len(s) \in Nat
  OBVIOUS
<1>2. {k \in DOMAIN s : k <= n + 1} = {k \in DOMAIN s : k <= n} \cup {n + 1}
  BY <1>1
<1> QED
  BY <1>2 DEF Firsts

(* A route that went through its record reached all the record names.       *)
LEMMA RoutingSuffices == RoutingIInv => Routing!RecordIsTrue
<1> SUFFICES ASSUME RoutingIInv, NEW e \in Routed
             PROVE  Reached(e) = {routeHistory[e][i] : i \in {k \in DOMAIN routeHistory[e] :
                                    route[e].at = "resolved" \/ k <= route[e].sent}}
  BY DEF Routing!RecordIsTrue, Routing!Agents, Reached
<1>1. routeHistory[e] \in Seq(Members) /\ route[e].sent \in Nat
  BY DEF RoutingIInv
<1>2. DOMAIN routeHistory[e] = 1..Len(routeHistory[e]) /\ Len(routeHistory[e]) \in Nat
  BY <1>1
<1>3. {k \in DOMAIN routeHistory[e] : route[e].at = "resolved" \/ k <= route[e].sent}
        = {k \in DOMAIN routeHistory[e] : k <= route[e].sent}
  <2>1. ASSUME route[e].at = "resolved", NEW k \in DOMAIN routeHistory[e]
        PROVE  k <= route[e].sent
    BY <1>1, <1>2, <2>1 DEF RoutingIInv
  <2> QED
    BY <2>1
<1> QED
  BY <1>3 DEF RoutingIInv, Firsts

(* No event was routed yet.                                                 *)
LEMMA RoutingInitInv == Routing!RoutingInit => RoutingIInv
<1> SUFFICES ASSUME Routing!RoutingInit PROVE RoutingIInv
  OBVIOUS
<1>1. /\ subscriptions = <<>> /\ got = {}
      /\ routeHistory = [e \in Routed |-> <<>>]
      /\ route = [e \in Routed |-> [at |-> "new", sent |-> 0]]
  BY DEF Routing!RoutingInit, Routing!Init
<1>2. ASSUME NEW e \in Routed
      PROVE  Reached(e) = {} /\ Firsts(routeHistory[e], route[e].sent) = {}
             /\ route[e].sent = 0 /\ route[e].at = "new" /\ route[e].sent <= Len(routeHistory[e])
  BY <1>1 DEF Reached, Firsts
<1>3. route \in [Routed -> [at : Routing!RouteStates, sent : Nat]]
  BY <1>1 DEF Routing!RouteStates
<1>4. routeHistory \in [Routed -> Seq(Members)] /\ subscriptions \in Seq(Members)
  BY <1>1
<1> QED
  BY <1>2, <1>3, <1>4 DEF RoutingIInv

(* The next publish of a route, or its return, with the record it has then. *)
LEMMA AdvanceInv ==
  ASSUME RoutingIInv, NEW e \in Routed, NEW act,
         routeHistory' \in [Routed -> Seq(Members)], subscriptions' = subscriptions,
         \A f \in Routed \ {e} : routeHistory'[f] = routeHistory[f],
         Reached(e) = Firsts(routeHistory'[e], route[e].sent), route[e].sent <= Len(routeHistory'[e]),
         Routing!Advance(e, act)
  PROVE  RoutingIInv'
<1> DEFINE targets == routeHistory'[e]
           n == route[e].sent + 1
<1>1. /\ targets \in Seq(Members) /\ n \in Nat /\ route[e].sent \in Nat
      /\ Len(targets) \in Nat
  BY DEF RoutingIInv
<1>2. ASSUME NEW f \in Routed \ {e}, NEW a, got' = got \cup {<<a, e>>} \/ got' = got
      PROVE  Reached(f)' = Reached(f)
  BY <1>2 DEF Reached
<1>3. ASSUME n > Len(targets), route' = [route EXCEPT ![e].at = "resolved"], got' = got
      PROVE  RoutingIInv'
  <2>1. /\ route' \in [Routed -> [at : Routing!RouteStates, sent : Nat]]
        /\ route'[e].at = "resolved" /\ route'[e].sent = route[e].sent
        /\ \A f \in Routed \ {e} : route'[f] = route[f]
    BY <1>3 DEF RoutingIInv, Routing!RouteStates
  <2>2. Reached(e)' = Reached(e) /\ \A f \in Routed \ {e} : Reached(f)' = Reached(f)
    BY <1>3 DEF Reached
  <2>3. ASSUME NEW f \in Routed
        PROVE  /\ route'[f].at = "new" => route'[f].sent = 0
               /\ route'[f].at = "resolved" => route'[f].sent >= Len(routeHistory'[f])
               /\ route'[f].sent <= Len(routeHistory'[f])
               /\ Reached(f)' = Firsts(routeHistory'[f], route'[f].sent)
    <3>1. f = e \/ f \in Routed \ {e}
      OBVIOUS
    <3> QED
      BY <1>1, <1>3, <2>1, <2>2, <3>1 DEF RoutingIInv
  <2> QED
    BY <2>1, <2>3 DEF RoutingIInv
<1>4. ASSUME n <= Len(targets), got' = got \cup {<<targets[n], e>>}, NEW s \in {"rejected", "awaiting"},
             route' = [route EXCEPT ![e] = [at |-> s, sent |-> n]]
      PROVE  RoutingIInv'
  <2>1. /\ route' \in [Routed -> [at : Routing!RouteStates, sent : Nat]]
        /\ route'[e].at = s /\ route'[e].sent = n
        /\ \A f \in Routed \ {e} : route'[f] = route[f]
    BY <1>1, <1>4 DEF RoutingIInv, Routing!RouteStates
  <2>2. targets[n] \in Members
    BY <1>1, <1>4
  <2>3. Reached(e)' = Reached(e) \cup {targets[n]} /\ \A f \in Routed \ {e} : Reached(f)' = Reached(f)
    BY <1>4, <2>2 DEF Reached
  <2>4. Reached(e)' = Firsts(targets, n)
    BY <1>1, <1>4, <2>3, FirstsMore
  <2>5. ASSUME NEW f \in Routed
        PROVE  /\ route'[f].at = "new" => route'[f].sent = 0
               /\ route'[f].at = "resolved" => route'[f].sent >= Len(routeHistory'[f])
               /\ route'[f].sent <= Len(routeHistory'[f])
               /\ Reached(f)' = Firsts(routeHistory'[f], route'[f].sent)
    <3>1. f = e \/ f \in Routed \ {e}
      OBVIOUS
    <3> QED
      BY <1>1, <1>4, <2>1, <2>3, <2>4, <3>1 DEF RoutingIInv
  <2> QED
    BY <2>1, <2>5 DEF RoutingIInv
<1>5. \/ n > Len(targets) /\ route' = [route EXCEPT ![e].at = "resolved"] /\ got' = got
      \/ /\ n <= Len(targets) /\ got' = got \cup {<<targets[n], e>>}
         /\ \E s \in {"rejected", "awaiting"} : route' = [route EXCEPT ![e] = [at |-> s, sent |-> n]]
  BY DEF Routing!Advance, Routing!Targets, Routing!Publish, Routing!Deliver, Routing!vars
<1> QED
  BY <1>3, <1>4, <1>5

(* Every step of the choreographer keeps it.                                *)
LEMMA RoutingNextInv == ASSUME RoutingIInv, Routing!RoutingNext PROVE RoutingIInv'
<1>1. ASSUME UNCHANGED <<routeHistory, route, got>>, subscriptions' \in Seq(Members)
      PROVE  RoutingIInv'
  BY <1>1 DEF RoutingIInv, Reached
<1>2. ASSUME NEW a \in Members, Routing!SubscribeAgent(a) PROVE RoutingIInv'
  <2>1. subscriptions' \in Seq(Members)
    BY <1>2 DEF Routing!SubscribeAgent, RoutingIInv
  <2> QED
    BY <1>1, <1>2, <2>1 DEF Routing!SubscribeAgent, Routing!vars
<1>3. ASSUME NEW e \in Routed, NEW act, Routing!Route(e, act) PROVE RoutingIInv'
  <2>1. /\ route[e].at = "new" /\ subscriptions' = subscriptions /\ Routing!Advance(e, act)
        /\ routeHistory' = [routeHistory EXCEPT ![e] = subscriptions]
    BY <1>3 DEF Routing!Route
  <2>2. /\ routeHistory' \in [Routed -> Seq(Members)]
        /\ \A f \in Routed \ {e} : routeHistory'[f] = routeHistory[f]
        /\ routeHistory'[e] \in Seq(Members) /\ Len(routeHistory'[e]) >= 0
    BY <2>1 DEF RoutingIInv
  <2>3. route[e].sent = 0 /\ Reached(e) = Firsts(routeHistory[e], 0) /\ routeHistory[e] \in Seq(Members)
    BY <2>1 DEF RoutingIInv
  <2>4. Reached(e) = Firsts(routeHistory'[e], route[e].sent) /\ route[e].sent <= Len(routeHistory'[e])
    BY <2>2, <2>3, FirstsNone
  <2> QED
    BY <2>1, <2>2, <2>4, AdvanceInv
<1>4. ASSUME NEW e \in Routed, NEW act, Routing!RouteOn(e, act) PROVE RoutingIInv'
  <2>1. subscriptions' = subscriptions /\ Routing!Advance(e, act) /\ routeHistory' = routeHistory
    BY <1>4 DEF Routing!RouteOn
  <2>2. Reached(e) = Firsts(routeHistory'[e], route[e].sent) /\ route[e].sent <= Len(routeHistory'[e])
    BY <2>1 DEF RoutingIInv
  <2>3. routeHistory' \in [Routed -> Seq(Members)]
    BY <2>1 DEF RoutingIInv
  <2> QED
    BY <2>1, <2>2, <2>3, AdvanceInv
<1>5. ASSUME NEW a \in Members, NEW h \in BusHandlers,
             (Routing!Subscribe(a, h) \/ Routing!Unsubscribe(a, h)) /\ UNCHANGED Routing!cvars
      PROVE  RoutingIInv'
  BY <1>1, <1>5 DEF Routing!Subscribe, Routing!Unsubscribe, Routing!cvars, RoutingIInv
<1>6. ASSUME Routing!Clear /\ UNCHANGED Routing!cvars PROVE RoutingIInv'
  BY <1>1, <1>6 DEF Routing!Clear, Routing!cvars, RoutingIInv
<1> QED
  BY <1>2, <1>3, <1>4, <1>5, <1>6 DEF Routing!RoutingNext, Routing!Agents

(* The choreographer's own records have their types, the logs of the bus    *)
(* under it too.                                                            *)
RoutingTypes ==
  /\ RoutingIInv /\ Logs(Routing!Channels, Routed \cup Requests)
  /\ request \in [Requests -> Bus!States] /\ direct \in BOOLEAN
  /\ replyHandlers \subseteq Requests /\ heard \subseteq Requests

LEMMA RoutingTypesSuffice == ASSUME RoutingTypes PROVE Routing!RoutingTypeOK
<1>1. Routing!TypeOK
  BY DEF RoutingTypes, Logs, Routing!TypeOK, Routing!States, Bus!States, Routing!Pending, Bus!Pending
<1>2. /\ subscriptions \in Seq(Routing!Agents) /\ routeHistory \in [Routed -> Seq(Routing!Agents)]
      /\ \A e \in Routed : route[e] \in [at : Routing!RouteStates, sent : Nat]
      /\ \A e \in Routed : route[e].sent <= Len(routeHistory[e])
  BY DEF RoutingTypes, RoutingIInv, Routing!Agents
<1> QED
  BY <1>1, <1>2 DEF Routing!RoutingTypeOK

LEMMA RoutingTypesInit == ASSUME Routing!BusAssumption, Routing!RoutingInit PROVE RoutingTypes
<1>1. /\ topics = [t \in Routing!Channels |-> <<>>] /\ subscribers = [t \in Routing!Channels |-> <<>>]
      /\ replyHandlers = {} /\ heard = {} /\ got = {} /\ direct = FALSE
      /\ request = [r \in Requests |-> "new"] /\ MaxEvents \in Nat
  BY DEF Routing!RoutingInit, Routing!Init, Routing!BusAssumption
<1>2. Logs(Routing!Channels, Routed \cup Requests)
  BY <1>1, EmptyTyped DEF Logs
<1>3. request \in [Requests -> Bus!States]
  BY <1>1 DEF Bus!States
<1> QED
  BY <1>1, <1>2, <1>3, RoutingInitInv DEF RoutingTypes

LEMMA RoutingTypesNext == ASSUME Routing!BusAssumption, RoutingTypes, Routing!RoutingNext PROVE RoutingTypes'
<1> DEFINE Typed == Logs(Routing!Channels, Routed \cup Requests)
           Others == <<replyHandlers, direct, request, heard>>
<1>0. MaxEvents \in Nat \ {0} /\ Typed
  BY DEF RoutingTypes, Routing!BusAssumption
<1>1. ASSUME UNCHANGED <<topics, subscribers, got>> PROVE Typed'
  BY <1>0, <1>1 DEF Logs
<1>2. ASSUME NEW a \in Members, Routing!SubscribeAgent(a) PROVE Typed' /\ UNCHANGED Others
  BY <1>1, <1>2 DEF Routing!SubscribeAgent, Routing!vars
<1>3. ASSUME NEW e \in Routed, NEW act, routeHistory' \in [Routed -> Seq(Members)], Routing!Advance(e, act)
      PROVE  Typed' /\ UNCHANGED Others
  <2>1. routeHistory'[e] \in Seq(Members) /\ route[e].sent \in Nat
    BY <1>3 DEF RoutingTypes, RoutingIInv
  <2>2. CASE UNCHANGED Routing!vars
    BY <1>1, <2>2 DEF Routing!vars
  <2>3. CASE ~ UNCHANGED Routing!vars
    <3> DEFINE n == route[e].sent + 1
    <3>1. n <= Len(routeHistory'[e]) /\ Routing!Publish(routeHistory'[e][n], e, act)
      BY <1>3, <2>3 DEF Routing!Advance, Routing!Targets
    <3>2. PICK a \in Members : a = routeHistory'[e][n]
      BY <2>1, <3>1
    <3>3. Routing!Publish(a, e, act)
      BY <3>1, <3>2
    <3>4. Bus!Deliver(a, e, Bus!Walk(subscribers[a], act)) /\ UNCHANGED Others
      BY <3>3, ZenonT(60)
         DEF Routing!Publish, Routing!Deliver, Bus!Deliver, Routing!Walk, Bus!Walk, Routing!Round, Bus!Round,
             Routing!Kept, Bus!Kept, Routing!RemoveFirst, Bus!RemoveFirst, Routing!RemoveAt, Bus!RemoveAt,
             Routing!SelectInSeq, Bus!SelectInSeq, Routing!Min, Bus!Min
    <3>5. a \in Routing!Channels /\ e \in Routed \cup Requests
      BY DEF Routing!Channels
    <3> QED
      BY <1>0, <3>4, <3>5, DeliverLogs
  <2> QED
    BY <2>2, <2>3
<1>4. ASSUME NEW e \in Routed, NEW act, Routing!Route(e, act) \/ Routing!RouteOn(e, act)
      PROVE  Typed' /\ UNCHANGED Others
  <2>1. Routing!Advance(e, act) /\ routeHistory' \in [Routed -> Seq(Members)]
    BY <1>4 DEF Routing!Route, Routing!RouteOn, RoutingTypes, RoutingIInv
  <2> QED
    BY <1>3, <2>1
<1>5. ASSUME NEW a \in Members, NEW h \in BusHandlers, Routing!Subscribe(a, h) \/ Routing!Unsubscribe(a, h)
      PROVE  Typed' /\ UNCHANGED Others
  <2>1. Bus!Subscribe(a, h) \/ Bus!Unsubscribe(a, h)
    BY <1>5, ZenonT(60)
       DEF Routing!Subscribe, Bus!Subscribe, Routing!Unsubscribe, Bus!Unsubscribe, Routing!RemoveFirst, Bus!RemoveFirst,
           Routing!RemoveAt, Bus!RemoveAt, Routing!SelectInSeq, Bus!SelectInSeq, Routing!Min, Bus!Min
  <2>2. Typed'
    BY <1>0, <2>1, HandlersLogs DEF Routing!Channels
  <2> QED
    BY <2>1, <2>2 DEF Bus!Subscribe, Bus!Unsubscribe
<1>6. ASSUME Routing!Clear PROVE Typed' /\ replyHandlers' = {} /\ direct' = FALSE /\ UNCHANGED <<request, heard>>
  <2>1. /\ topics' = [t \in Routing!Channels |-> <<>>] /\ subscribers' = [t \in Routing!Channels |-> <<>>]
        /\ replyHandlers' = {} /\ direct' = FALSE /\ UNCHANGED <<request, heard, got>>
    BY <1>6 DEF Routing!Clear
  <2>2. got' \subseteq Routing!Channels \X (Routed \cup Requests)
    BY <1>0, <2>1 DEF Logs
  <2>3. Typed'
    BY <1>0, <2>1, <2>2, EmptyTyped DEF Logs
  <2> QED
    BY <2>1, <2>3
<1>7. Typed' /\ \/ UNCHANGED Others
                \/ replyHandlers' = {} /\ direct' = FALSE /\ UNCHANGED <<request, heard>>
  BY <1>2, <1>4, <1>5, <1>6 DEF Routing!RoutingNext, Routing!Agents
<1>8. RoutingIInv'
  BY RoutingNextInv DEF RoutingTypes
<1> QED
  BY <1>7, <1>8 DEF RoutingTypes

-----------------------------------------------------------------------------
(* What the policies decide.                                                *)

\* i comes before all others of a set in the walk.
IsFirst(table, S, i) == i \in S /\ \A j \in S : Policy!Earlier(table, i, j)

(* Rows with natural numbers as priorities.                                 *)
Ranked(table) == table \in Seq(Policies) /\ \A i \in DOMAIN table : table[i].priority \in Nat

(* The rows of the table are policies, whose priorities are numbers.        *)
LEMMA RowsAreRanked ==
  ASSUME Policy!PolicyAssumption, NEW table \in Seq(Policies)
  PROVE  /\ Ranked(table) /\ DOMAIN table = 1..Len(table) /\ Len(table) \in Nat
         /\ \A i \in DOMAIN table : table[i] \in Policies /\ table[i].priority \in Nat
<1>1. DOMAIN table = 1..Len(table) /\ Len(table) \in Nat /\ \A i \in DOMAIN table : table[i] \in Policies
  OBVIOUS
<1> QED
  BY <1>1 DEF Ranked, Policy!PolicyAssumption

(* The walk is a total order of the rows.                                   *)
LEMMA WalkIsTotal ==
  ASSUME NEW table, Ranked(table), NEW i \in DOMAIN table, NEW j \in DOMAIN table
  PROVE  /\ Policy!Earlier(table, i, j) \/ Policy!Earlier(table, j, i)
         /\ Policy!Earlier(table, i, j) /\ Policy!Earlier(table, j, i) => i = j
         /\ \A k \in DOMAIN table : Policy!Earlier(table, i, j) /\ Policy!Earlier(table, j, k)
                                    => Policy!Earlier(table, i, k)
<1>1. DOMAIN table \subseteq Nat
  BY DEF Ranked
<1> QED
  BY <1>1 DEF Ranked, Policy!Earlier

(* A set of rows that is not empty has a first one: if sets of rows had none, *)
(* take one with the least bound on its rows; it is the bound's row, or the *)
(* first of the others.                                                     *)
LEMMA FirstExists ==
  ASSUME NEW table, Ranked(table), NEW S \in SUBSET DOMAIN table, S # {}
  PROVE  \E i \in S : IsFirst(table, S, i)
<1> DEFINE Bad(n) ==
             \E U \in SUBSET DOMAIN table :
                U # {} /\ (\A k \in U : k <= n) /\ ~\E i \in U : IsFirst(table, U, i)
           B == {n \in Nat : Bad(n)}
<1>1. DOMAIN table = 1..Len(table) /\ Len(table) \in Nat
  BY DEF Ranked
<1>2. SUFFICES ASSUME B # {} PROVE FALSE
  BY <1>1
<1>3. PICK n \in B : \A k \in B : ~ (k < n)
  <2>1. PICK n \in B : \A k \in B : ~ (<<k, n>> \in OpToRel(<, Nat))
    BY <1>2, NatLessThanWellFounded, WFMin
  <2> QED
    BY <2>1 DEF OpToRel
<1>4. PICK U \in SUBSET DOMAIN table : U # {} /\ (\A k \in U : k <= n) /\ ~\E i \in U : IsFirst(table, U, i)
  OBVIOUS
<1>5. n \in Nat /\ n # 0
  BY <1>1, <1>4
<1>6. n \in U
  <2>1. SUFFICES ASSUME n \notin U PROVE FALSE
    OBVIOUS
  <2>2. \A k \in U : k <= n - 1
    BY <1>1, <1>4, <1>5, <2>1
  <2>3. n - 1 \in B
    BY <1>4, <1>5, <2>2
  <2> QED
    BY <1>3, <1>5, <2>3
<1>7. U \ {n} # {}
  <2>1. SUFFICES ASSUME U = {n} PROVE FALSE
    BY <1>6
  <2>2. Policy!Earlier(table, n, n)
    BY <1>6, WalkIsTotal
  <2>3. IsFirst(table, U, n)
    BY <2>1, <2>2 DEF IsFirst
  <2> QED
    BY <1>4, <2>1, <2>3
<1>8. PICK i \in U \ {n} : IsFirst(table, U \ {n}, i)
  <2>1. SUFFICES ASSUME ~\E i \in U \ {n} : IsFirst(table, U \ {n}, i) PROVE FALSE
    OBVIOUS
  <2>2. \A k \in U \ {n} : k <= n - 1
    BY <1>1, <1>4, <1>5
  <2>3. n - 1 \in B
    BY <1>5, <1>7, <2>1, <2>2
  <2> QED
    BY <1>3, <1>5, <2>3
<1>9. CASE Policy!Earlier(table, n, i)
  <2>1. \A j \in U : Policy!Earlier(table, n, j)
    <3>1. Policy!Earlier(table, n, n)
      BY <1>6, WalkIsTotal
    <3>2. \A j \in U \ {n} : Policy!Earlier(table, n, j)
      BY <1>6, <1>8, <1>9, WalkIsTotal DEF IsFirst
    <3> QED
      BY <3>1, <3>2
  <2> QED
    BY <1>4, <1>6, <2>1 DEF IsFirst
<1>10. CASE Policy!Earlier(table, i, n)
  <2>1. \A j \in U : Policy!Earlier(table, i, j)
    BY <1>8, <1>10 DEF IsFirst
  <2> QED
    BY <1>4, <1>8, <2>1 DEF IsFirst
<1> QED
  BY <1>6, <1>8, <1>9, <1>10, WalkIsTotal

(* Of a set of rows only one is the first.                                  *)
LEMMA FirstIsUnique ==
  ASSUME NEW table, Ranked(table), NEW S \in SUBSET DOMAIN table, NEW i, NEW j,
         IsFirst(table, S, i), IsFirst(table, S, j)
  PROVE  i = j
  BY WalkIsTotal DEF IsFirst

(* The policies of the walk for a request that are not passed.              *)
Walked(table, r) == {i \in Policy!Applicable(table, r) : ~Policy!Skipped(table[i], r)}

(* Evaluate takes the first one, unless a deny stands at the top.           *)
LEMMA EvaluatedFirst ==
  ASSUME NEW table, Ranked(table), NEW r
  PROVE  Policy!Evaluate(table, r) = "allow" <=>
           /\ ~\E i \in Policy!Top(table, r) : table[i].action = "deny"
           /\ \E i \in Walked(table, r) : IsFirst(table, Walked(table, r), i) /\ table[i].action = "allow"
<1> DEFINE W == Walked(table, r)
           c == CHOOSE i \in W : \A j \in W : Policy!Earlier(table, i, j)
<1>1. Policy!Evaluate(table, r) = IF W = {} \/ \E i \in Policy!Top(table, r) : table[i].action = "deny"
                                 THEN "deny" ELSE table[c].action
  BY DEF Policy!Evaluate, Walked
<1>2. W \subseteq DOMAIN table
  BY DEF Walked, Policy!Applicable
<1>3. ASSUME W # {} PROVE IsFirst(table, W, c)
  <2>1. \E i \in W : \A j \in W : Policy!Earlier(table, i, j)
    BY <1>2, <1>3, FirstExists DEF IsFirst
  <2> HIDE DEF W
  <2> QED
    BY <2>1 DEF IsFirst
<1>4. \A i : IsFirst(table, W, i) => i = c
  <2> SUFFICES ASSUME NEW i, IsFirst(table, W, i) PROVE i = c
    OBVIOUS
  <2>1. W # {}
    BY DEF IsFirst
  <2> HIDE DEF W, c
  <2> QED
    BY <1>2, <1>3, <2>1, FirstIsUnique
<1>5. IsFirst(table, W, c) => c \in W
  BY DEF IsFirst
<1> HIDE DEF W, c
<1> QED
  BY <1>1, <1>3, <1>4, <1>5 DEF W

(* What is allowed is earned by the first policy of the walk.               *)
LEMMA AllowedEarned ==
  ASSUME Policy!PolicyAssumption, policies \in Seq(Policies)
  PROVE  Policy!AllowedIsEarned
<1>1. /\ Ranked(policies) /\ DOMAIN policies \subseteq Nat
      /\ \A i \in DOMAIN policies : policies[i].priority \in Nat
  BY RowsAreRanked DEF Ranked
<1> SUFFICES ASSUME NEW r, Policy!Evaluate(policies, r) = "allow"
             PROVE  \E i \in Policy!Applicable(policies, r) :
                      /\ policies[i].action = "allow" /\ policies[i].needs \subseteq r.context
                      /\ \A j \in Policy!Applicable(policies, r) : policies[j].action = "deny" =>
                           \/ policies[j].priority < policies[i].priority
                           \/ /\ policies[j].priority = policies[i].priority
                              /\ j > i /\ j \notin Policy!Top(policies, r)
  BY DEF Policy!AllowedIsEarned
<1>2. PICK i \in Walked(policies, r) :
           IsFirst(policies, Walked(policies, r), i) /\ policies[i].action = "allow"
  BY <1>1, EvaluatedFirst
<1>3. i \in Policy!Applicable(policies, r) /\ policies[i].needs \subseteq r.context
  BY <1>2 DEF Walked, Policy!Skipped
<1>4. ASSUME NEW j \in Policy!Applicable(policies, r), policies[j].action = "deny"
      PROVE  \/ policies[j].priority < policies[i].priority
             \/ policies[j].priority = policies[i].priority /\ j > i /\ j \notin Policy!Top(policies, r)
  <2>1. j \in Walked(policies, r)
    BY <1>4 DEF Walked, Policy!Skipped
  <2>2. Policy!Earlier(policies, i, j)
    BY <1>2, <2>1 DEF IsFirst
  <2>3. j \notin Policy!Top(policies, r)
    BY <1>1, <1>4, EvaluatedFirst
  <2>4. i # j /\ i \in DOMAIN policies /\ j \in DOMAIN policies
    BY <1>2, <1>3, <1>4 DEF Policy!Applicable
  <2> QED
    BY <1>1, <2>2, <2>3, <2>4 DEF Policy!Earlier
<1> QED
  BY <1>2, <1>3, <1>4

(* One more policy in the table.                                            *)
LEMMA OneMoreRow ==
  ASSUME Policy!PolicyAssumption, NEW table \in Seq(Policies), NEW p \in Policies, NEW r
  PROVE  LET more == Append(table, p)
             n == Len(table) + 1
         IN /\ Ranked(more) /\ DOMAIN more = DOMAIN table \cup {n} /\ n \notin DOMAIN table
            /\ n \in Nat /\ more[n] = p /\ \A i \in DOMAIN table : more[i] = table[i] /\ i < n
            /\ \A i, j \in DOMAIN table : Policy!Earlier(more, i, j) <=> Policy!Earlier(table, i, j)
            /\ Policy!Applicable(more, r) = Policy!Applicable(table, r) \cup {i \in {n} : r.kind \in p.applies}
            /\ Walked(more, r) = Walked(table, r)
                                   \cup {i \in {n} : r.kind \in p.applies /\ ~Policy!Skipped(p, r)}
<1> DEFINE more == Append(table, p)
           n == Len(table) + 1
<1>1. /\ more \in Seq(Policies) /\ DOMAIN table = 1..Len(table) /\ Len(table) \in Nat
      /\ DOMAIN more = 1..n /\ more[n] = p /\ \A i \in 1..Len(table) : more[i] = table[i]
  OBVIOUS
<1>2. Ranked(more)
  BY <1>1, RowsAreRanked
<1> HIDE DEF more
<1>3. /\ DOMAIN more = DOMAIN table \cup {n} /\ n \notin DOMAIN table /\ n \in Nat
      /\ \A i \in DOMAIN table : more[i] = table[i] /\ i < n
  BY <1>1
<1>4. \A i, j \in DOMAIN table : Policy!Earlier(more, i, j) <=> Policy!Earlier(table, i, j)
  BY <1>3 DEF Policy!Earlier
<1> HIDE DEF n
<1>5. Policy!Applicable(more, r) = Policy!Applicable(table, r) \cup {i \in {n} : r.kind \in p.applies}
  BY <1>1, <1>3 DEF Policy!Applicable, n
<1>6. \A i \in Policy!Applicable(table, r) : i \in DOMAIN table /\ i # n /\ more[i] = table[i]
  BY <1>3 DEF Policy!Applicable
<1>7. more[n] = p
  BY <1>1 DEF n
<1>8. Walked(more, r) = Walked(table, r) \cup {i \in {n} : r.kind \in p.applies /\ ~Policy!Skipped(p, r)}
  BY <1>5, <1>6, <1>7 DEF Walked
<1> QED
  BY <1>2, <1>3, <1>4, <1>5, <1>7, <1>8 DEF more, n

(* An allow that is added closes nothing.                                   *)
LEMMA AllowOpensOnly ==
  ASSUME Policy!PolicyAssumption, NEW table \in Seq(Policies), NEW p \in Policies, NEW r,
         p.action = "allow", Policy!Evaluate(table, r) = "allow"
  PROVE  Policy!Evaluate(Append(table, p), r) = "allow"
<1> DEFINE more == Append(table, p)
           n == Len(table) + 1
           W == Walked(table, r)
<1>1. Ranked(table) /\ W \subseteq DOMAIN table
  BY RowsAreRanked DEF Walked, Policy!Applicable
<1>2. /\ Ranked(more) /\ DOMAIN more = DOMAIN table \cup {n} /\ n \notin DOMAIN table
      /\ more[n] = p /\ \A i \in DOMAIN table : more[i] = table[i]
      /\ \A i, j \in DOMAIN table : Policy!Earlier(more, i, j) <=> Policy!Earlier(table, i, j)
      /\ Policy!Applicable(table, r) \subseteq Policy!Applicable(more, r)
      /\ Policy!Applicable(more, r) \subseteq Policy!Applicable(table, r) \cup {n}
      /\ W \subseteq Walked(more, r) /\ Walked(more, r) \subseteq W \cup {n}
  BY OneMoreRow
<1>3. PICK i \in W : IsFirst(table, W, i) /\ table[i].action = "allow"
  BY <1>1, EvaluatedFirst
<1> HIDE DEF more, n, W
<1>4. Walked(more, r) \subseteq DOMAIN more /\ Walked(more, r) # {}
  BY <1>1, <1>2, <1>3
<1>5. PICK j \in Walked(more, r) : IsFirst(more, Walked(more, r), j)
  BY <1>2, <1>4, FirstExists
<1>6. more[j].action = "allow"
  <2>1. ASSUME j # n PROVE j = i
    <3>1. j \in W /\ i \in Walked(more, r)
      BY <1>2, <1>3, <1>5, <2>1
    <3>2. Policy!Earlier(table, i, j) /\ Policy!Earlier(table, j, i)
      BY <1>1, <1>2, <1>3, <1>5, <3>1 DEF IsFirst
    <3> QED
      BY <1>1, <1>3, <3>1, <3>2, WalkIsTotal
  <2> QED
    BY <1>1, <1>2, <1>3, <2>1
<1>7. ~\E k \in Policy!Top(more, r) : more[k].action = "deny"
  <2> SUFFICES ASSUME NEW k \in Policy!Top(more, r), more[k].action = "deny" PROVE FALSE
    OBVIOUS
  <2>1. k \in Policy!Applicable(table, r) /\ k \in DOMAIN table
    BY <1>2 DEF Policy!Top, Policy!Applicable
  <2>2. \A l \in Policy!Applicable(table, r) : table[l].priority <= table[k].priority
    BY <1>2, <2>1 DEF Policy!Top, Policy!Applicable
  <2>3. k \in Policy!Top(table, r) /\ table[k].action = "deny"
    BY <1>2, <2>1, <2>2 DEF Policy!Top
  <2> QED
    BY <1>1, <2>3, EvaluatedFirst
<1> QED
  BY <1>2, <1>5, <1>6, <1>7, EvaluatedFirst DEF more

(* A deny or a review that is added opens nothing.                          *)
LEMMA DenyClosesOnlyMore ==
  ASSUME Policy!PolicyAssumption, NEW table \in Seq(Policies), NEW p \in Policies, NEW r,
         p.action # "allow", Policy!Evaluate(Append(table, p), r) = "allow"
  PROVE  Policy!Evaluate(table, r) = "allow"
<1> DEFINE more == Append(table, p)
           n == Len(table) + 1
           W == Walked(table, r)
<1>1. Ranked(table) /\ W \subseteq DOMAIN table /\ \A i \in DOMAIN table : table[i].priority \in Nat
  BY RowsAreRanked DEF Walked, Policy!Applicable
<1>2. /\ Ranked(more) /\ DOMAIN more = DOMAIN table \cup {n} /\ n \notin DOMAIN table
      /\ more[n] = p /\ \A i \in DOMAIN table : more[i] = table[i]
      /\ \A i, j \in DOMAIN table : Policy!Earlier(more, i, j) <=> Policy!Earlier(table, i, j)
      /\ Policy!Applicable(more, r) = Policy!Applicable(table, r) \cup {i \in {n} : r.kind \in p.applies}
      /\ Walked(more, r) = W \cup {i \in {n} : r.kind \in p.applies /\ ~Policy!Skipped(p, r)}
      /\ p.priority \in Nat
  BY OneMoreRow DEF Policy!PolicyAssumption
<1>3. PICK i \in Walked(more, r) : IsFirst(more, Walked(more, r), i) /\ more[i].action = "allow"
  BY <1>2, EvaluatedFirst DEF more
<1>0. ~\E k \in Policy!Top(more, r) : more[k].action = "deny"
  BY <1>2, EvaluatedFirst DEF more
<1> HIDE DEF more, n, W
<1>4. i \in W /\ table[i].action = "allow" /\ i \in DOMAIN table
  BY <1>1, <1>2, <1>3
<1>5. IsFirst(table, W, i)
  <2>1. \A j \in W : Policy!Earlier(more, i, j)
    BY <1>2, <1>3 DEF IsFirst
  <2> QED
    BY <1>1, <1>2, <1>4, <2>1 DEF IsFirst
<1>6. ~\E k \in Policy!Top(table, r) : table[k].action = "deny"
  <2> SUFFICES ASSUME NEW k \in Policy!Top(table, r), table[k].action = "deny" PROVE FALSE
    OBVIOUS
  <2>1. k \in Policy!Applicable(table, r) /\ k \in DOMAIN table
    BY DEF Policy!Top, Policy!Applicable
  <2>2. k \notin Policy!Top(more, r)
    BY <1>0, <1>2, <2>1
  <2>3. \A l \in Policy!Applicable(table, r) : l \in DOMAIN table /\ table[l].priority <= table[k].priority
    BY DEF Policy!Top, Policy!Applicable
  <2>4. r.kind \in p.applies /\ ~(p.priority <= table[k].priority)
    BY <1>2, <2>1, <2>2, <2>3 DEF Policy!Top
  <2>5. n \in Walked(more, r)
    BY <1>2, <2>4 DEF Policy!Skipped
  <2>6. more[i].priority >= more[n].priority
    BY <1>1, <1>2, <1>3, <1>4, <2>5 DEF IsFirst, Policy!Earlier
  <2>7. table[i].priority <= table[k].priority
    BY <1>4, <2>3 DEF W, Walked
  <2> QED
    BY <1>1, <1>2, <1>4, <2>1, <2>4, <2>6, <2>7
<1> QED
  BY <1>1, <1>4, <1>5, <1>6, EvaluatedFirst DEF W

(* A policy that is added works in its own direction.                       *)
LEMMA OneMorePolicy ==
  ASSUME Policy!PolicyAssumption, policies \in Seq(Policies)
  PROVE  Policy!DenyClosesOnly
<1> SUFFICES ASSUME NEW p \in Policies, NEW r \in Policy!AccessRequests
             PROVE  IF p.action = "allow"
                    THEN Policy!Evaluate(policies, r) = "allow" => Policy!Evaluate(Append(policies, p), r) = "allow"
                    ELSE Policy!Evaluate(Append(policies, p), r) = "allow" => Policy!Evaluate(policies, r) = "allow"
  BY DEF Policy!DenyClosesOnly
<1> QED
  BY AllowOpensOnly, DenyClosesOnlyMore

-----------------------------------------------------------------------------
(* The table that a removal writes again.                                   *)

(* Of a finite set of numbers there is a first, a second, and so on: the    *)
(* least number up to which there are k.                                    *)
LEMMA NthExists ==
  ASSUME NEW n \in Nat, NEW S \in SUBSET (1..n), NEW k \in 1..Cardinality(S)
  PROVE  \E i \in S : Cardinality({j \in S : j <= i}) = k
<1> DEFINE upTo(i) == {j \in S : j <= i}
           U == {i \in Nat : k <= Cardinality(upTo(i))}
<1>1. IsFiniteSet(S) /\ Cardinality(S) \in Nat /\ k \in Nat /\ k >= 1
  <2>1. IsFiniteSet(1..n)
    BY FS_Interval
  <2>2. IsFiniteSet(S)
    BY <2>1, FS_Subset
  <2>3. Cardinality(S) \in Nat
    BY <2>2, FS_CardinalityType
  <2> QED
    BY <2>2, <2>3
<1>2. \A i : IsFiniteSet(upTo(i)) /\ Cardinality(upTo(i)) \in Nat
  <2> SUFFICES ASSUME NEW i PROVE IsFiniteSet(upTo(i)) /\ Cardinality(upTo(i)) \in Nat
    OBVIOUS
  <2>1. upTo(i) \subseteq S
    OBVIOUS
  <2> QED
    BY <1>1, <2>1, FS_Subset, FS_CardinalityType
<1>3. n \in U
  <2>1. \A j \in S : j <= n
    OBVIOUS
  <2>2. upTo(n) = S
    BY <2>1
  <2> HIDE DEF upTo
  <2> QED
    BY <1>1, <2>2
<1>4. PICK i \in U : \A l \in U : ~ (l < i)
  <2> HIDE DEF U
  <2>1. U \subseteq Nat
    BY DEF U
  <2>2. PICK i \in U : \A l \in U : ~ (<<l, i>> \in OpToRel(<, Nat))
    BY <1>3, <2>1, NatLessThanWellFounded, WFMin
  <2> QED
    BY <2>1, <2>2 DEF OpToRel
<1>5. i \in Nat /\ k <= Cardinality(upTo(i)) /\ \A l \in Nat : l < i => ~ (k <= Cardinality(upTo(l)))
  BY <1>4
<1>6. \A j \in S : j \in Nat /\ j >= 1
  OBVIOUS
<1>7. i # 0
  <2>1. SUFFICES ASSUME i = 0 PROVE FALSE
    OBVIOUS
  <2>2. \A j \in S : ~ (j <= i)
    BY <1>6, <2>1
  <2>3. upTo(i) = {}
    BY <2>2
  <2> HIDE DEF upTo
  <2>4. Cardinality(upTo(i)) = 0
    BY <2>3, FS_EmptySet
  <2> QED
    BY <1>1, <1>5, <2>4
<1>8. i - 1 \in Nat /\ i - 1 < i
  BY <1>5, <1>7
<1>9. \A j \in S : j <= i <=> j <= i - 1 \/ j = i
  BY <1>5, <1>6
<1>10. upTo(i) = upTo(i - 1) \cup {j \in S : j = i}
  BY <1>9
<1>11. i \notin upTo(i - 1)
  BY <1>5
<1> HIDE DEF upTo, U
<1>12. Cardinality(upTo(i - 1)) < k
  BY <1>1, <1>2, <1>5, <1>8
<1>13. i \in S
  <2>1. SUFFICES ASSUME i \notin S PROVE FALSE
    OBVIOUS
  <2>2. upTo(i) = upTo(i - 1)
    BY <1>10, <2>1
  <2> QED
    BY <1>1, <1>2, <1>5, <1>12, <2>2
<1>14. upTo(i) = upTo(i - 1) \cup {i}
  BY <1>10, <1>13
<1>15. Cardinality(upTo(i)) = Cardinality(upTo(i - 1)) + 1
  BY <1>2, <1>11, <1>14, FS_AddElement
<1>16. Cardinality(upTo(i)) = k
  BY <1>1, <1>2, <1>5, <1>12, <1>15
<1> QED
  BY <1>13, <1>16 DEF upTo

(* The policy store's Cardinality is that of FiniteSets.                    *)
LEMMA SameCardinality == \A S : Policy!Cardinality(S) = Cardinality(S)
  BY ZenonT(60) DEF Policy!Cardinality, Cardinality

(* The rows of another id are rows of the table.                            *)
LEMMA WithoutType ==
  ASSUME NEW table \in Seq(Policies), NEW id
  PROVE  Policy!Without(table, id) \in Seq(Policies)
<1> DEFINE kept == {i \in DOMAIN table : table[i].id # id}
           Nth(k) == CHOOSE i \in kept : Policy!Cardinality({j \in kept : j <= i}) = k
<1>1. DOMAIN table = 1..Len(table) /\ Len(table) \in Nat /\ \A i \in DOMAIN table : table[i] \in Policies
  OBVIOUS
<1>2. kept \in SUBSET (1..Len(table))
  BY <1>1
<1>3. Policy!Cardinality(kept) \in Nat
  <2>1. IsFiniteSet(1..Len(table))
    BY <1>1, FS_Interval
  <2>2. Cardinality(kept) \in Nat
    BY <1>2, <2>1, FS_Subset, FS_CardinalityType
  <2> HIDE DEF kept
  <2> QED
    BY <2>2, SameCardinality
<1> HIDE DEF kept
<1>4. ASSUME NEW k \in 1..Policy!Cardinality(kept) PROVE table[Nth(k)] \in Policies
  <2>1. k \in 1..Cardinality(kept)
    BY SameCardinality
  <2>2. PICK i \in kept : Cardinality({j \in kept : j <= i}) = k
    BY <1>1, <1>2, <2>1, NthExists
  <2>3. \E l \in kept : Policy!Cardinality({j \in kept : j <= l}) = k
    BY <2>2, SameCardinality
  <2>4. Nth(k) \in kept
    BY <2>3
  <2> QED
    BY <1>1, <1>2, <2>4
<1> HIDE DEF Nth
<1>5. [k \in 1..Policy!Cardinality(kept) |-> table[Nth(k)]] \in Seq(Policies)
  BY <1>3, <1>4
<1>6. Policy!Without(table, id) = [k \in 1..Policy!Cardinality(kept) |-> table[Nth(k)]]
  BY DEF Policy!Without, Nth, kept
<1> QED
  BY <1>5, <1>6

(* Where a removal that nothing disturbed stands: it has read the table and *)
(* will write the other rows, or what it wrote and what is left are they.   *)
InHand(c) ==
  \/ /\ removal[c].at = "read"
     /\ removal[c].rest = policies /\ standing = Policy!Without(policies, removal[c].id)
  \/ /\ removal[c].at = "insert"
     /\ policies \o removal[c].rest = standing

Removal == [at : {"idle", "read", "insert", "done"}, id : {""} \cup {p.id : p \in Policies},
            rest : Seq(Policies)]

PolicyIInv ==
  /\ policies \in Seq(Policies) /\ standing \in Seq(Policies) /\ disturbed \in BOOLEAN
  /\ removal \in [Removals -> Removal]
  /\ \A c \in Removals : removal[c].at = "insert" => removal[c].rest # <<>>
  /\ Policy!TableIsStanding
  /\ ~disturbed => \A c \in Policy!Running : InHand(c) /\ Policy!Running = {c}

(* The tenant's first table, before any removal.                            *)
LEMMA PolicyInitInv == Policy!Init => PolicyIInv
<1> SUFFICES ASSUME Policy!Init PROVE PolicyIInv
  OBVIOUS
<1>1. [at |-> "idle", id |-> "", rest |-> <<>>] \in Removal
  BY DEF Removal
<1>2. removal \in [Removals -> Removal] /\ \A c \in Removals : removal[c].at = "idle"
  BY <1>1 DEF Policy!Init
<1>3. policies = <<>> /\ standing = <<>> /\ disturbed = FALSE
  BY Zenon DEF Policy!Init
<1>4. policies \in Seq(Policies) /\ standing \in Seq(Policies) /\ disturbed \in BOOLEAN
  <2>1. <<>> \in Seq(Policies)
    OBVIOUS
  <2> QED
    BY <1>3, <2>1, Zenon
<1>5. Policy!Running = {}
  BY <1>2 DEF Policy!Running
<1>6. \A c \in Removals : removal[c].at # "insert"
  BY <1>2
<1> QED
  BY <1>2, <1>3, <1>4, <1>5, <1>6, Zenon DEF PolicyIInv, Policy!TableIsStanding

(* Where the removals stand after one of them went on.                      *)
LEMMA RemovalTurn ==
  ASSUME PolicyIInv, NEW c \in Removals, NEW new \in Removal, removal' = [removal EXCEPT ![c] = new]
  PROVE  /\ removal' \in [Removals -> Removal] /\ removal'[c] = new
         /\ \A d \in Removals \ {c} : removal'[d] = removal[d]
         /\ new.at \in {"read", "insert"} => Policy!Running' = Policy!Running \cup {c}
         /\ new.at \notin {"read", "insert"} => Policy!Running' = Policy!Running \ {c}
<1>1. /\ removal' \in [Removals -> Removal] /\ removal'[c] = new
      /\ \A d \in Removals \ {c} : removal'[d] = removal[d]
  BY DEF PolicyIInv
<1> QED
  BY <1>1 DEF Policy!Running

(* One more policy, which disturbs the removals under way.                  *)
LEMMA AddPolicyInv == ASSUME PolicyIInv, NEW p \in Policies, Policy!AddPolicy(p) PROVE PolicyIInv'
<1>1. /\ policies' = Append(policies, p) /\ standing' = Append(standing, p) /\ removal' = removal
      /\ disturbed' = (disturbed \/ Policy!Running # {})
  BY DEF Policy!AddPolicy
<1>2. policies' \in Seq(Policies) /\ standing' \in Seq(Policies) /\ Policy!Running' = Policy!Running
  BY <1>1 DEF PolicyIInv, Policy!Running
<1>3. ASSUME ~disturbed' PROVE policies' = standing' /\ Policy!Running' = {}
  BY <1>1, <1>2, <1>3 DEF PolicyIInv, Policy!TableIsStanding
<1> QED
  BY <1>1, <1>2, <1>3 DEF PolicyIInv, Policy!TableIsStanding

(* A removal reads the table, and what it will insert is the rest.          *)
LEMMA ReadInv ==
  ASSUME PolicyIInv, NEW c \in Removals, NEW p \in Policies, Policy!Read(c, p.id)
  PROVE  PolicyIInv'
<1> DEFINE new == [at |-> "read", id |-> p.id, rest |-> policies]
<1>1. /\ removal' = [removal EXCEPT ![c] = new] /\ removal[c].at = "idle"
      /\ standing' = Policy!Without(standing, p.id) /\ policies' = policies
      /\ disturbed' = (disturbed \/ Policy!Running # {})
  BY DEF Policy!Read
<1>2. new \in Removal /\ new.at = "read" /\ new.id = p.id /\ new.rest = policies
  BY DEF PolicyIInv, Removal
<1> HIDE DEF new
<1>3. /\ removal' \in [Removals -> Removal] /\ removal'[c] = new
      /\ \A d \in Removals \ {c} : removal'[d] = removal[d]
      /\ Policy!Running' = Policy!Running \cup {c}
  BY <1>1, <1>2, RemovalTurn
<1>6. \A d \in Removals : removal'[d].at = "insert" => removal'[d].rest # <<>>
  BY <1>2, <1>3 DEF PolicyIInv
<1>4. standing' \in Seq(Policies) /\ policies' \in Seq(Policies) /\ disturbed' \in BOOLEAN
  BY <1>1, WithoutType DEF PolicyIInv
<1>5. ASSUME ~disturbed' PROVE Policy!Running' = {c} /\ InHand(c)'
  <2>1. Policy!Running = {} /\ policies = standing
    BY <1>1, <1>5 DEF PolicyIInv, Policy!TableIsStanding
  <2> QED
    BY <1>1, <1>2, <1>3, <2>1 DEF InHand
<1> QED
  BY <1>3, <1>4, <1>5, <1>6 DEF PolicyIInv, Policy!TableIsStanding

(* A removal goes on with the rows that are left.                           *)
LEMMA RestTurn ==
  ASSUME PolicyIInv, NEW c \in Policy!Running, NEW table \in Seq(Policies), Policy!Rest(c, table)
  PROVE  /\ removal' \in [Removals -> Removal]
         /\ removal'[c].at = IF table = <<>> THEN "done" ELSE "insert"
         /\ removal'[c].rest = table
         /\ \A d \in Removals : removal'[d].at = "insert" => removal'[d].rest # <<>>
         /\ Policy!Running' = IF table = <<>> THEN Policy!Running \ {c} ELSE Policy!Running
<1> DEFINE new == [removal[c] EXCEPT !.at = IF table = <<>> THEN "done" ELSE "insert", !.rest = table]
<1>1. c \in Removals /\ removal[c] \in Removal /\ removal' = [removal EXCEPT ![c] = new]
  BY DEF Policy!Running, Policy!Rest, PolicyIInv
<1>2. new \in Removal /\ new.at = (IF table = <<>> THEN "done" ELSE "insert") /\ new.rest = table
  BY <1>1 DEF Removal
<1> HIDE DEF new
<1>3. /\ removal' \in [Removals -> Removal] /\ removal'[c] = new
      /\ \A d \in Removals \ {c} : removal'[d] = removal[d]
      /\ new.at \in {"read", "insert"} => Policy!Running' = Policy!Running \cup {c}
      /\ new.at \notin {"read", "insert"} => Policy!Running' = Policy!Running \ {c}
  BY <1>1, <1>2, RemovalTurn
<1>4. table = <<>> => Policy!Running' = Policy!Running \ {c}
  BY <1>2, <1>3
<1>5. table # <<>> => Policy!Running' = Policy!Running
  BY <1>2, <1>3
<1>6. \A d \in Removals : removal'[d].at = "insert" => removal'[d].rest # <<>>
  BY <1>2, <1>3 DEF PolicyIInv
<1> QED
  BY <1>2, <1>3, <1>4, <1>5, <1>6

(* A removal empties the table: all the rest is in its hands.               *)
LEMMA ClearInv == ASSUME PolicyIInv, NEW c \in Removals, Policy!Clear(c) PROVE PolicyIInv'
<1> DEFINE table == Policy!Without(removal[c].rest, removal[c].id)
<1>1. /\ removal[c].at = "read" /\ policies' = <<>> /\ Policy!Rest(c, table)
      /\ standing' = standing /\ disturbed' = disturbed
  BY DEF Policy!Clear
<1>2. c \in Policy!Running /\ removal[c].rest \in Seq(Policies)
  BY <1>1 DEF Policy!Running, PolicyIInv, Removal
<1>3. table \in Seq(Policies)
  BY <1>2, WithoutType
<1>4. ~disturbed => Policy!Running = {c} /\ standing = table
  BY <1>1, <1>2 DEF PolicyIInv, InHand
<1> HIDE DEF table
<1>5. /\ removal' \in [Removals -> Removal]
      /\ removal'[c].at = IF table = <<>> THEN "done" ELSE "insert"
      /\ removal'[c].rest = table
      /\ \A d \in Removals : removal'[d].at = "insert" => removal'[d].rest # <<>>
      /\ Policy!Running' = IF table = <<>> THEN Policy!Running \ {c} ELSE Policy!Running
  BY <1>1, <1>2, <1>3, RestTurn
<1>6. ASSUME ~disturbed
      PROVE  IF table = <<>> THEN Policy!Running' = {} /\ policies' = standing'
             ELSE Policy!Running' = {c} /\ InHand(c)'
  <2>1. <<>> \o table = table
    BY <1>3
  <2> QED
    BY <1>1, <1>4, <1>5, <1>6, <2>1 DEF InHand
<1>7. policies' \in Seq(Policies) /\ standing' \in Seq(Policies) /\ disturbed' \in BOOLEAN
  BY <1>1 DEF PolicyIInv
<1>8. ~disturbed => \/ Policy!Running' = {} /\ policies' = standing'
                    \/ Policy!Running' = {c} /\ InHand(c)'
  BY <1>6
<1> QED
  BY <1>1, <1>5, <1>7, <1>8 DEF PolicyIInv, Policy!TableIsStanding

(* Moving the head of one sequence to the end of another leaves what they   *)
(* are together.                                                            *)
LEMMA MoveHead ==
  ASSUME NEW S, NEW s \in Seq(S), NEW t \in Seq(S), s # <<>>
  PROVE  Append(t, Head(s)) \o Tail(s) = t \o s
<1>1. Head(s) \in S /\ Tail(s) \in Seq(S) /\ Len(Tail(s)) = Len(s) - 1 /\ Len(s) \in Nat /\ Len(t) \in Nat
  OBVIOUS
<1> DEFINE u == Append(t, Head(s))
<1>2. u \in Seq(S) /\ Len(u) = Len(t) + 1 /\ u[Len(t) + 1] = Head(s) /\ \A i \in 1..Len(t) : u[i] = t[i]
  BY <1>1
<1> HIDE DEF u
<1>3. Len(u \o Tail(s)) = Len(s) + Len(t) /\ Len(t \o s) = Len(s) + Len(t)
  BY <1>1, <1>2
<1>4. ASSUME NEW i \in 1..(Len(s) + Len(t)) PROVE (u \o Tail(s))[i] = (t \o s)[i]
  <2>1. i \in Nat
    OBVIOUS
  <2>2. i <= Len(t) => (u \o Tail(s))[i] = (t \o s)[i]
    BY <1>1, <1>2, <2>1
  <2>3. i = Len(t) + 1 => (u \o Tail(s))[i] = (t \o s)[i]
    BY <1>1, <1>2, <2>1
  <2>4. ASSUME i > Len(t) + 1 PROVE (u \o Tail(s))[i] = (t \o s)[i]
    <3>1. i - Len(u) \in 1..Len(Tail(s)) /\ i - Len(t) \in 1..Len(s)
      BY <1>1, <1>2, <2>1, <2>4
    <3>2. (u \o Tail(s))[i] = Tail(s)[i - Len(u)]
      BY <1>1, <1>2, <2>1, <3>1
    <3>3. (t \o s)[i] = s[i - Len(t)]
      BY <1>1, <2>1, <3>1
    <3>4. Tail(s)[i - Len(u)] = s[i - Len(t)]
      BY <1>1, <1>2, <2>1, <3>1
    <3> QED
      BY <3>2, <3>3, <3>4
  <2>5. i <= Len(t) \/ i = Len(t) + 1 \/ i > Len(t) + 1
    BY <1>1, <2>1
  <2> QED
    BY <2>2, <2>3, <2>4, <2>5, Zenon
<1>5. u \o Tail(s) \in Seq(S) /\ t \o s \in Seq(S)
  BY <1>1, <1>2
<1> QED
  BY <1>3, <1>4, <1>5, SeqEqual DEF u

(* A removal inserts the next row of the rest, or returns.                  *)
LEMMA InsertInv == ASSUME PolicyIInv, NEW c \in Removals, Policy!Insert(c) PROVE PolicyIInv'
<1> DEFINE s == removal[c].rest
           table == Tail(s)
<1>1. /\ removal[c].at = "insert" /\ policies' = Append(policies, Head(s)) /\ Policy!Rest(c, table)
      /\ standing' = standing /\ disturbed' = disturbed
  BY DEF Policy!Insert
<1>2. c \in Policy!Running /\ s \in Seq(Policies) /\ policies \in Seq(Policies)
  BY <1>1 DEF Policy!Running, PolicyIInv, Removal
<1>3. ~disturbed => Policy!Running = {c} /\ policies \o s = standing
  BY <1>1, <1>2 DEF PolicyIInv, InHand
<1>4. s # <<>>
  BY <1>1 DEF PolicyIInv
<1> HIDE DEF s
<1>5. table \in Seq(Policies) /\ Head(s) \in Policies
  BY <1>2, <1>4
<1>6. policies' \in Seq(Policies) /\ policies' \o table = policies \o s
  <2>1. policies' \in Seq(Policies)
    BY <1>1, <1>2, <1>5
  <2> QED
    BY <1>1, <1>2, <1>4, <2>1, MoveHead DEF table
<1> HIDE DEF table
<1>7. /\ removal' \in [Removals -> Removal]
      /\ removal'[c].at = IF table = <<>> THEN "done" ELSE "insert"
      /\ removal'[c].rest = table
      /\ \A d \in Removals : removal'[d].at = "insert" => removal'[d].rest # <<>>
      /\ Policy!Running' = IF table = <<>> THEN Policy!Running \ {c} ELSE Policy!Running
  BY <1>1, <1>2, <1>5, RestTurn
<1>8. ASSUME ~disturbed
      PROVE  \/ Policy!Running' = {} /\ policies' = standing'
             \/ Policy!Running' = {c} /\ InHand(c)'
  <2>1. policies' \o <<>> = policies'
    BY <1>6
  <2> QED
    BY <1>1, <1>3, <1>6, <1>7, <1>8, <2>1 DEF InHand
<1>9. standing' \in Seq(Policies) /\ disturbed' \in BOOLEAN
  BY <1>1 DEF PolicyIInv
<1> QED
  BY <1>1, <1>6, <1>7, <1>8, <1>9 DEF PolicyIInv, Policy!TableIsStanding

(* Every step of the policy store keeps it.                                 *)
LEMMA PolicyNextInv == ASSUME PolicyIInv, Policy!Next PROVE PolicyIInv'
  BY AddPolicyInv, ReadInv, ClearInv, InsertInv DEF Policy!Next

(* What is standing is what the calls say, and access is earned.            *)
LEMMA PolicySuffices ==
  ASSUME Policy!PolicyAssumption, PolicyIInv
  PROVE  Policy!TableIsStanding /\ Policy!AllowedIsEarned /\ Policy!DenyClosesOnly
  BY AllowedEarned, OneMorePolicy DEF PolicyIInv

-----------------------------------------------------------------------------
(* The table of policies grows only by addPolicy.                           *)
Counted == adds \in 0..MaxAdds /\ Len(standing) <= adds

(* A table without the rows of an id is no longer than it was.              *)
LEMMA WithoutShorter ==
  ASSUME NEW table \in Seq(Policies), NEW id
  PROVE  Len(Policy!Without(table, id)) <= Len(table)
<1> DEFINE kept == {i \in DOMAIN table : table[i].id # id}
           Nth(k) == CHOOSE i \in kept : Policy!Cardinality({j \in kept : j <= i}) = k
<1>1. Len(table) \in Nat /\ IsFiniteSet(1..Len(table)) /\ Cardinality(1..Len(table)) = Len(table)
  <2>1. Len(table) \in Nat
    OBVIOUS
  <2>2. IsFiniteSet(1..Len(table)) /\ Cardinality(1..Len(table)) = IF 1 > Len(table) THEN 0 ELSE Len(table) - 1 + 1
    BY <2>1, FS_Interval
  <2> QED
    BY <2>1, <2>2
<1>2. kept \subseteq 1..Len(table)
  OBVIOUS
<1> HIDE DEF kept
<1>3. Cardinality(kept) \in Nat /\ Cardinality(kept) <= Len(table)
  BY <1>1, <1>2, FS_Subset, FS_CardinalityType
<1>4. Policy!Cardinality(kept) = Cardinality(kept)
  BY SameCardinality
<1>5. Policy!Without(table, id) = [k \in 1..Policy!Cardinality(kept) |-> table[Nth(k)]]
  BY DEF Policy!Without, Nth, kept
<1>6. Policy!Without(table, id) \in Seq(Policies)
  BY WithoutType
<1> HIDE DEF Nth
<1>7. Len(Policy!Without(table, id)) = Cardinality(kept)
  BY <1>3, <1>4, <1>5, <1>6
<1> QED
  BY <1>3, <1>7

LEMMA CountedNext == ASSUME Policy!PolicyAssumption, PolicyIInv, Counted, Policy!Next PROVE Counted'
<1>1. MaxAdds \in Nat /\ adds \in 0..MaxAdds /\ Len(standing) <= adds /\ standing \in Seq(Policies)
  BY DEF Policy!PolicyAssumption, PolicyIInv, Counted
<1>2. ASSUME NEW p \in Policies, Policy!AddPolicy(p) PROVE Counted'
  <2>1. adds < MaxAdds /\ adds' = adds + 1 /\ standing' = Append(standing, p)
    BY <1>2 DEF Policy!AddPolicy
  <2>2. Len(standing') = Len(standing) + 1 /\ Len(standing) \in Nat
    BY <1>1, <2>1
  <2> QED
    BY <1>1, <2>1, <2>2 DEF Counted
<1>3. ASSUME NEW c \in Removals, NEW p \in Policies, Policy!Read(c, p.id) PROVE Counted'
  <2>1. adds' = adds /\ standing' = Policy!Without(standing, p.id)
    BY <1>3 DEF Policy!Read
  <2>2. Len(standing') <= Len(standing) /\ Len(standing) \in Nat /\ standing' \in Seq(Policies)
    BY <1>1, <2>1, WithoutShorter, WithoutType
  <2>3. Len(standing') \in Nat
    BY <2>2
  <2> QED
    BY <1>1, <2>1, <2>2, <2>3 DEF Counted
<1>4. ASSUME NEW c \in Removals, Policy!Clear(c) \/ Policy!Insert(c) PROVE Counted'
  BY <1>4 DEF Policy!Clear, Policy!Insert, Counted
<1> QED
  BY <1>2, <1>3, <1>4 DEF Policy!Next

LEMMA PolicyTypes == ASSUME PolicyIInv, Counted PROVE Policy!TypeOK
<1>1. \A s \in Seq(Policies) : Policy!Range(s) \subseteq Policies
  BY DEF Policy!Range
<1>2. \A c \in Removals : /\ removal[c].at \in {"idle", "read", "insert", "done"}
                          /\ removal[c].rest \in Seq(Policies)
  BY DEF PolicyIInv, Removal
<1> QED
  BY <1>1, <1>2 DEF PolicyIInv, Counted, Policy!TypeOK

-----------------------------------------------------------------------------
(* The waits of the deadlock detector.                                      *)
LEMMA WaitsNext ==
  ASSUME waitGraph \in Seq(Detector!Wait), Detector!Next PROVE waitGraph' \in Seq(Detector!Wait)
<1>1. ASSUME NEW w \in Detector!Wait, Detector!AddWait(w) PROVE waitGraph' \in Seq(Detector!Wait)
  BY <1>1 DEF Detector!AddWait
<1>2. ASSUME NEW a, NEW r, Detector!RemoveWait(a, r) PROVE waitGraph' \in Seq(Detector!Wait)
  <2> DEFINE kept == {i \in DOMAIN waitGraph : ~(waitGraph[i].waiter = a /\ waitGraph[i].resource = r)}
             Nth(k) == CHOOSE i \in kept : Detector!Cardinality({j \in kept : j <= i}) = k
  <2>1. DOMAIN waitGraph = 1..Len(waitGraph) /\ Len(waitGraph) \in Nat
        /\ \A i \in DOMAIN waitGraph : waitGraph[i] \in Detector!Wait
    OBVIOUS
  <2>2. kept \in SUBSET (1..Len(waitGraph))
    BY <2>1
  <2>3. waitGraph' = [k \in 1..Detector!Cardinality(kept) |-> waitGraph[Nth(k)]]
    BY <1>2 DEF Detector!RemoveWait
  <2>4. \A S : Detector!Cardinality(S) = Cardinality(S)
    BY ZenonT(60) DEF Detector!Cardinality, Cardinality
  <2> HIDE DEF kept
  <2>5. Cardinality(kept) \in Nat
    <3>1. IsFiniteSet(1..Len(waitGraph))
      BY <2>1, FS_Interval
    <3> QED
      BY <2>2, <3>1, FS_Subset, FS_CardinalityType
  <2>6. ASSUME NEW k \in 1..Cardinality(kept) PROVE waitGraph[Nth(k)] \in Detector!Wait
    <3>1. PICK i \in kept : Cardinality({j \in kept : j <= i}) = k
      BY <2>1, <2>2, NthExists
    <3>2. \E l \in kept : Detector!Cardinality({j \in kept : j <= l}) = k
      BY <2>4, <3>1
    <3>3. Nth(k) \in kept
      BY <3>2
    <3> QED
      BY <2>1, <2>2, <3>3
  <2> HIDE DEF Nth
  <2> QED
    BY <2>3, <2>4, <2>5, <2>6
<1> QED
  BY <1>1, <1>2 DEF Detector!Next

-----------------------------------------------------------------------------
(* The log of accesses is never longer than it may be.                      *)
Capped == Len(accessLog) <= MaxLog

LEMMA CappedNext == ASSUME Swarm!SwarmAssumption, LogIInv, Capped, Swarm!LogNext PROVE Capped'
<1>1. accessLog \in Seq(Swarm!Accesses) /\ MaxLog \in Nat /\ KeepLog \in Nat /\ KeepLog <= MaxLog
  BY DEF LogIInv, Swarm!SwarmAssumption
<1>2. ASSUME NEW e, accessLog' = Swarm!Cut(Append(accessLog, e)) PROVE Capped'
  <2> DEFINE log == Append(accessLog, e)
  <2>1. log \in Seq(Swarm!Accesses \cup {e}) /\ Len(log) \in Nat
    <3>1. accessLog \in Seq(Swarm!Accesses \cup {e})
      BY <1>1
    <3> QED
      BY <3>1
  <2> HIDE DEF log
  <2>2. CASE Len(log) > MaxLog
    <3>1. PICK f : f = Len(log) - KeepLog + 1
      OBVIOUS
    <3>2. f \in 1..(Len(log) + 1) /\ Len(log) - f + 1 = KeepLog
      BY <1>1, <2>1, <2>2, <3>1
    <3>3. accessLog' = SubSeq(log, f, Len(log))
      BY <1>2, <2>2, <3>1 DEF Swarm!Cut, log
    <3>4. Len(accessLog') = IF f <= Len(log) THEN Len(log) - f + 1 ELSE 0
      BY <2>1, <3>2, <3>3, SubSeqProperties
    <3> QED
      BY <1>1, <3>2, <3>4 DEF Capped
  <2>3. CASE ~ (Len(log) > MaxLog)
    <3>1. accessLog' = log
      BY <1>2, <2>3 DEF Swarm!Cut, log
    <3> QED
      BY <1>1, <2>1, <2>3, <3>1 DEF Capped
  <2> QED
    BY <2>2, <2>3
<1>3. CASE Swarm!Discover
  BY <1>3 DEF Swarm!Discover, Capped
<1> QED
  BY <1>2, <1>3 DEF Swarm!LogNext, Swarm!RecordAccess

LEMMA SwarmTypes == ASSUME QueueIInv, LogIInv, Capped PROVE Swarm!TypeOK
<1> DEFINE Dependency == [sourceAgent : Members, targetAgent : Members, resource : {Resource}]
<1>1. \A a \in Swarm!Accesses : a.agent \in Members /\ a.resource \in {Resource}
  BY DEF Swarm!Accesses
<1>2. Swarm!Range(history) \subseteq Swarm!Accesses
  BY DEF LogIInv, Swarm!Range
<1>3. Swarm!Pairs(history) \subseteq Dependency
  BY <1>1, <1>2 DEF Swarm!Pairs
<1>4. dependencies \subseteq Dependency
  BY <1>3 DEF LogIInv, Found
<1> QED
  BY <1>4 DEF QueueIInv, LogIInv, Capped, Swarm!TypeOK

-----------------------------------------------------------------------------
(* The context items on offer.                                              *)
LEMMA OffersNext == ASSUME Context!TypeOK, Context!Next PROVE Context!TypeOK'
<1>1. PICK i \in ContextSet : i \notin Context!Range(available) /\ available' = Append(available, i)
  BY DEF Context!Next, Context!Offer
<1>2. available \in Seq(ContextSet) /\ IsInjective(available)
  BY DEF Context!TypeOK, Context!IsInjective, IsInjective
<1>3. ~ Contains(available, i)
  BY <1>1, <1>2 DEF Context!Range, Contains
<1>4. Append(available, i) \in Seq(ContextSet) /\ IsInjective(Append(available, i))
  BY <1>2, <1>3, InjectiveAppended
<1> QED
  BY <1>1, <1>4 DEF Context!TypeOK, Context!IsInjective, IsInjective

-----------------------------------------------------------------------------
(* The run's parts.                                                         *)

coreVars == <<part, messaging, guards, agentic>>

(* The clients of the event bus keep their invariants in every part, the    *)
(* others in their own.                                                     *)
CoreIInv ==
  /\ part \in Parts
  /\ ConsumerIInv /\ FailoverIInv
  /\ part = "bus" => BusTypes
  /\ part = "routing" => RoutingTypes
  /\ part = "policy" => PolicyIInv /\ Counted
  /\ part = "breaker" => BreakerIInv
  /\ part = "lifecycle" => LifecycleIInv
  /\ part = "guards" => GuardIInv
  /\ part = "registry" => RP!TypeOK
  /\ part = "deadlock" => waitGraph \in Seq(Detector!Wait)
  /\ part \in {"tasks", "accesses"} => QueueIInv /\ LogIInv /\ Capped
  /\ part = "context" => Context!TypeOK

(* Every part's invariant holds at the start.                               *)
LEMMA CoreInitInv == ASSUME CoreInit PROVE CoreIInv
<1>1. ConsumerIInv /\ FailoverIInv
  BY Assumptions, ConsumerInitInv, FailoverInitInv DEF CoreInit
<1>2. /\ part = "bus" => BusTypes
      /\ part = "routing" => RoutingTypes
  BY Assumptions, BusTypesInit, RoutingTypesInit DEF CoreInit
<1>3. PolicyIInv /\ Counted
  <2>1. MaxAdds \in Nat /\ standing = <<>> /\ adds = 0
    BY Assumptions DEF Policy!PolicyAssumption, CoreInit, Policy!Init
  <2>2. Counted
    BY <2>1 DEF Counted
  <2> QED
    BY <2>2, PolicyInitInv DEF CoreInit
<1>4. BreakerIInv /\ LifecycleIInv /\ GuardIInv
  BY Assumptions, BreakerInit, LifecycleInit, GuardInit DEF CoreInit
<1>5. RP!TypeOK /\ waitGraph \in Seq(Detector!Wait)
  BY DEF CoreInit, Registry!Init, RP!TypeOK, Detector!Init
<1>6. QueueIInv /\ LogIInv /\ Capped
  <2>1. MaxLog \in Nat /\ accessLog = <<>>
    BY Assumptions DEF Swarm!SwarmAssumption, CoreInit, Swarm!Init
  <2>2. Capped
    BY <2>1 DEF Capped
  <2> QED
    BY <2>2, Assumptions, QueueInit, LogInit DEF CoreInit
<1>7. Context!TypeOK
  BY DEF CoreInit, Context!Init, Context!TypeOK, Context!IsInjective
<1> QED
  BY <1>1, <1>2, <1>3, <1>4, <1>5, <1>6, <1>7 DEF CoreInit, CoreIInv

(* A step is of one client, or leaves both alone.                           *)
LEMMA ClientsInv == ASSUME CoreIInv, [CoreNext]_coreVars PROVE ConsumerIInv' /\ FailoverIInv'
<1>1. ConsumerIInv /\ FailoverIInv
  BY DEF CoreIInv
<1>2. [Next]_vars /\ (FailoverNext \/ Producer!FailoverNext \/ UNCHANGED failoverVars)
  BY DEF CoreNext, coreVars, messaging
<1>3. ConsumerIInv'
  BY <1>1, <1>2, Assumptions, ConsumerNextInv
<1>4. ASSUME [FailoverNext]_failoverVars PROVE FailoverIInv'
  BY <1>1, <1>4, Assumptions, FailoverNextInv
<1>5. ASSUME Producer!FailoverNext PROVE FailoverIInv'
  <2>1. PP!FailoverNext
    BY <1>5, ZenonT(60)
       DEF Producer!FailoverNext, PP!FailoverNext, Producer!Write, PP!Write, Producer!Fate, PP!Fate,
           Producer!Publish, PP!Publish, Producer!SetOrDelete, PP!SetOrDelete, Producer!SaveCheckpoint, PP!SaveCheckpoint,
           Producer!Connect, PP!Connect, Producer!Disconnect, PP!Disconnect,
           Producer!HandleDisconnect, PP!HandleDisconnect, Producer!Tick, PP!Tick,
           Producer!CheckTimeout, PP!CheckTimeout, Producer!HandleReconnect, PP!HandleReconnect
  <2>2. PP!FailoverAssumption
    BY Assumptions DEF Producer!FailoverAssumption, PP!FailoverAssumption
  <2>3. PP!FailoverIInv <=> FailoverIInv
    BY ZenonT(60)
       DEF FailoverIInv, PP!FailoverIInv, FailoverTypeOK, PP!FailoverTypeOK, States, PP!States, Ops, PP!Ops,
           Within, PP!Within, AcceptedOnce, PP!AcceptedOnce, Contains, PP!Contains, IsInjective, PP!IsInjective
  <2>4. PP!FailoverIInv' <=> FailoverIInv'
    BY ZenonT(60)
       DEF FailoverIInv, PP!FailoverIInv, FailoverTypeOK, PP!FailoverTypeOK, States, PP!States, Ops, PP!Ops,
           Within, PP!Within, AcceptedOnce, PP!AcceptedOnce, Contains, PP!Contains, IsInjective, PP!IsInjective
  <2>5. PP!FailoverIInv'
    BY <1>1, <2>1, <2>2, <2>3, PP!FailoverNextInv
  <2> QED
    BY <2>4, <2>5
<1> QED
  BY <1>2, <1>3, <1>4, <1>5

(* The parts that carry messages and the policies keep theirs.              *)
LEMMA MessagingInv ==
  ASSUME CoreIInv, [CoreNext]_coreVars
  PROVE  /\ part = "bus" => BusTypes'
         /\ part = "routing" => RoutingTypes'
         /\ part = "policy" => PolicyIInv' /\ Counted'
<1>1. ASSUME part = "bus" PROVE BusTypes'
  <2>1. BusTypes /\ (Bus!Next \/ UNCHANGED messageVars)
    BY <1>1 DEF CoreIInv, CoreNext, coreVars, messaging
  <2>2. ASSUME UNCHANGED messageVars PROVE BusTypes'
    BY <2>1, <2>2 DEF BusTypes, BusIInv, Logs, messageVars, Bus!AnsweredInTime
  <2> QED
    BY <2>1, <2>2, Assumptions, BusTypesNext
<1>2. ASSUME part = "routing" PROVE RoutingTypes'
  <2>1. RoutingTypes /\ (Routing!RoutingNext \/ UNCHANGED <<messageVars, routeVars>>)
    BY <1>2 DEF CoreIInv, CoreNext, coreVars, messaging
  <2>2. ASSUME UNCHANGED <<messageVars, routeVars>> PROVE RoutingTypes'
    BY <2>1, <2>2 DEF RoutingTypes, RoutingIInv, Logs, Reached, messageVars, routeVars
  <2> QED
    BY <2>1, <2>2, Assumptions, RoutingTypesNext
<1>3. ASSUME part = "policy" PROVE PolicyIInv' /\ Counted'
  <2>1. PolicyIInv /\ Counted /\ (Policy!Next \/ UNCHANGED policyVars)
    BY <1>3 DEF CoreIInv, CoreNext, coreVars, guards
  <2>2. ASSUME UNCHANGED policyVars PROVE PolicyIInv' /\ Counted'
    BY <2>1, <2>2 DEF PolicyIInv, Counted, InHand, policyVars, Policy!TableIsStanding, Policy!Running
  <2> QED
    BY <2>1, <2>2, Assumptions, PolicyNextInv, CountedNext
<1> QED
  BY <1>1, <1>2, <1>3

(* The parts that guard what goes ahead keep theirs.                        *)
LEMMA GuardingInv ==
  ASSUME CoreIInv, [CoreNext]_coreVars
  PROVE  /\ part = "breaker" => BreakerIInv'
         /\ part = "lifecycle" => LifecycleIInv'
         /\ part = "guards" => GuardIInv'
<1>1. ASSUME part = "breaker" PROVE BreakerIInv'
  <2>1. BreakerIInv /\ (Breaker!Next \/ UNCHANGED breakerVars)
    BY <1>1 DEF CoreIInv, CoreNext, coreVars, guards
  <2>2. ASSUME UNCHANGED breakerVars PROVE BreakerIInv'
    BY <2>1, <2>2 DEF BreakerIInv, breakerVars, Breaker!TypeOK
  <2> QED
    BY <2>1, <2>2, Assumptions, BreakerNext
<1>2. ASSUME part = "lifecycle" PROVE LifecycleIInv'
  <2>1. LifecycleIInv /\ (Lifecycle!Next \/ UNCHANGED lifecycleVars)
    BY <1>2 DEF CoreIInv, CoreNext, coreVars, guards
  <2>2. [Lifecycle!Next]_Lifecycle!vars
    BY <2>1 DEF lifecycleVars, Lifecycle!vars
  <2> QED
    BY <2>1, <2>2, Assumptions, LifecycleNext
<1>3. ASSUME part = "guards" PROVE GuardIInv'
  <2>1. GuardIInv /\ (Guards!Next \/ UNCHANGED guardVars)
    BY <1>3 DEF CoreIInv, CoreNext, coreVars, agentic
  <2>2. ASSUME UNCHANGED guardVars PROVE GuardIInv'
    BY <2>1, <2>2 DEF GuardIInv, guardVars, Guards!TypeOK
  <2> QED
    BY <2>1, <2>2, Assumptions, GuardNext
<1> QED
  BY <1>1, <1>2, <1>3

(* In the part of the registry its steps are the registry's.                *)
LEMMA RegistrySteps == ASSUME [CoreNext]_coreVars PROVE [RP!Next]_RP!vars
<1>1. Registry!Next => RP!Next
  BY ZenonT(60)
     DEF RP!Next, Registry!Next, RP!Register, Registry!Register,
         RP!Deregister, Registry!Deregister, RP!SetTenantConfig, Registry!SetTenantConfig,
         RP!Insert, Registry!Insert, RP!Suspend, Registry!Suspend, RP!GetByName, Registry!GetByName,
         RP!Listed, Registry!Listed, RP!LastRow, Registry!LastRow, RP!Newest, Registry!Newest, RP!Max, Registry!Max
<1>2. CoreNext => Registry!Next \/ UNCHANGED registryVars
  BY DEF CoreNext, guards
<1> QED
  BY <1>1, <1>2 DEF coreVars, guards, registryVars, RP!vars

(* The registry, the waits and the context items keep their types.          *)
LEMMA TypedInv ==
  ASSUME CoreIInv, [CoreNext]_coreVars
  PROVE  /\ part = "registry" => RP!TypeOK'
         /\ part = "deadlock" => waitGraph' \in Seq(Detector!Wait)
         /\ part = "context" => Context!TypeOK'
<1>1. ASSUME part = "registry" PROVE RP!TypeOK'
  BY <1>1, RegistrySteps, RP!NextTypes DEF CoreIInv
<1>2. ASSUME part = "deadlock" PROVE waitGraph' \in Seq(Detector!Wait)
  <2>1. waitGraph \in Seq(Detector!Wait) /\ (Detector!Next \/ UNCHANGED waitGraph)
    BY <1>2 DEF CoreIInv, CoreNext, coreVars, guards
  <2> QED
    BY <2>1, WaitsNext
<1>3. ASSUME part = "context" PROVE Context!TypeOK'
  <2>1. Context!TypeOK /\ (Context!Next \/ UNCHANGED available)
    BY <1>3 DEF CoreIInv, CoreNext, coreVars, agentic
  <2>2. ASSUME UNCHANGED available PROVE Context!TypeOK'
    BY <2>1, <2>2 DEF Context!TypeOK, Context!IsInjective
  <2> QED
    BY <2>1, <2>2, OffersNext
<1> QED
  BY <1>1, <1>2, <1>3

(* The queue and the log of core/orchestrator keep theirs.                  *)
LEMMA SwarmInv ==
  ASSUME CoreIInv, [CoreNext]_coreVars, part \in {"tasks", "accesses"}
  PROVE  QueueIInv' /\ LogIInv' /\ Capped'
<1>1. QueueIInv /\ LogIInv /\ Capped
  BY DEF CoreIInv
<1>2. Swarm!QueueNext \/ Swarm!LogNext \/ UNCHANGED swarmVars
  BY DEF CoreNext, coreVars, agentic
<1>3. ASSUME UNCHANGED Swarm!queueVars PROVE QueueIInv'
  BY <1>1, <1>3 DEF QueueIInv, Swarm!queueVars
<1>4. ASSUME UNCHANGED Swarm!logVars PROVE LogIInv' /\ Capped'
  BY <1>1, <1>4 DEF LogIInv, Capped, Swarm!logVars
<1>5. CASE Swarm!QueueNext
  <2>1. UNCHANGED Swarm!logVars
    BY <1>5 DEF Swarm!QueueNext, Swarm!Enqueue, Swarm!Dequeue, Swarm!Complete
  <2> QED
    BY <1>1, <1>4, <1>5, <2>1, Assumptions, QueueNextInv
<1>6. CASE Swarm!LogNext
  <2>1. UNCHANGED Swarm!queueVars
    BY <1>6 DEF Swarm!LogNext, Swarm!RecordAccess, Swarm!Discover
  <2> QED
    BY <1>1, <1>3, <1>6, <2>1, Assumptions, LogNextInv, CappedNext
<1>7. CASE UNCHANGED swarmVars
  BY <1>3, <1>4, <1>7 DEF swarmVars, Swarm!queueVars, Swarm!logVars
<1> QED
  BY <1>2, <1>5, <1>6, <1>7

(* The part that a behaviour took at its start is the one that moves.       *)
LEMMA CoreInductive ==
  /\ CoreInit => CoreIInv
  /\ CoreIInv /\ [CoreNext]_coreVars => CoreIInv'
<1>1. CoreInit => CoreIInv
  BY CoreInitInv
<1> SUFFICES ASSUME CoreIInv, [CoreNext]_coreVars PROVE CoreIInv'
  BY <1>1
<1>2. part' = part
  BY DEF CoreNext, coreVars
<1> QED
  BY <1>2, ClientsInv, MessagingInv, GuardingInv, TypedInv, SwarmInv DEF CoreIInv

(* The variables of every part have their types, and what is kept stays     *)
(* within its bounds: the keys of processed events (kafka-bus.ts), the      *)
(* events of a topic (message-bus.ts), the log of accesses                  *)
(* (dependency-discoverer.ts) and the retries of a failing task             *)
(* (state-machine.ts), for any values of those bounds.                      *)
THEOREM CoreTypes == CoreSpec => []CoreTypeOK
<1>1. CoreIInv => CoreTypeOK
  <2> SUFFICES ASSUME CoreIInv PROVE CoreTypeOK
    OBVIOUS
  <2>1. TypeOK /\ FailoverTypeOK
    BY DEF CoreIInv, ConsumerIInv, FailoverIInv
  <2>2. /\ part = "bus" => Bus!TypeOK
        /\ part = "routing" => Routing!RoutingTypeOK
    BY RoutingTypesSuffice
       DEF CoreIInv, BusTypes, BusIInv, Logs, Bus!TypeOK
  <2>3. /\ part = "policy" => Policy!TypeOK
        /\ part = "registry" => Registry!TypeOK
    BY PolicyTypes
       DEF CoreIInv, RP!TypeOK, Registry!TypeOK, RP!Row, Registry!Row, RP!Switches, Registry!Switches,
           RP!Kinds, Registry!Kinds
  <2>4. /\ part = "breaker" => Breaker!TypeOK
        /\ part = "lifecycle" => Lifecycle!TypeOK
        /\ part = "guards" => Guards!TypeOK
    BY DEF CoreIInv, BreakerIInv, LifecycleIInv, GuardIInv
  <2>5. /\ part = "deadlock" => Detector!TypeOK
        /\ part \in {"tasks", "accesses"} => Swarm!TypeOK
        /\ part = "context" => Context!TypeOK
    BY SwarmTypes DEF CoreIInv, Detector!TypeOK
  <2>6. part \in Parts
    BY DEF CoreIInv
  <2>7. CASE part \in {"consumer", "producer", "store"}
    BY <2>1, <2>7 DEF CoreTypeOK
  <2>8. CASE part \in {"bus", "routing"}
    BY <2>2, <2>8 DEF CoreTypeOK
  <2>9. CASE part \in {"policy", "registry"}
    BY <2>3, <2>9 DEF CoreTypeOK
  <2>10. CASE part \in {"breaker", "lifecycle", "guards"}
    BY <2>4, <2>10 DEF CoreTypeOK
  <2>11. CASE part \in {"deadlock", "tasks", "accesses", "context"}
    BY <2>5, <2>11 DEF CoreTypeOK
  <2> QED
    BY <2>6, <2>7, <2>8, <2>9, <2>10, <2>11 DEF Parts
<1> QED
  BY <1>1, CoreInductive, PTL DEF CoreSpec, coreVars

(* message-bus.ts, event-choreographer.ts and dependency-discoverer.ts: a   *)
(* request resolves if and only if a reply came in time, an event reached   *)
(* those its record names, and the dependencies found are those of the      *)
(* accesses, wherever the log was cut.                                      *)
THEOREM RecordsTrue == CoreSpec => []RecordIsTrue
<1>1. CoreIInv => RecordIsTrue
  BY RoutingSuffices, LogSuffices DEF CoreIInv, RecordIsTrue, BusTypes, BusIInv, RoutingTypes
<1> QED
  BY <1>1, CoreInductive, PTL DEF CoreSpec, coreVars

(* circuit-breaker.ts and the guards of core/conflict-resolution turn away  *)
(* exactly what the outcomes and actions so far say they must, for any      *)
(* thresholds, windows and calls.                                           *)
THEOREM RejectionsExact == CoreSpec => []RejectsExactly
<1>1. CoreIInv => RejectsExactly
  BY Assumptions, BreakerSuffices, GuardSuffices DEF CoreIInv, RejectsExactly
<1> QED
  BY <1>1, CoreInductive, PTL DEF CoreSpec, coreVars

(* state-machine.ts, confidence-cascade.ts and task-scheduler.ts of         *)
(* core/orchestrator: no execution passes the confidence gate from below,   *)
(* no hour sees twice the hourly limit, and tasks start in turn and within  *)
(* the concurrency limit.                                                   *)
THEOREM GatesHold == CoreSpec => []GateHolds
<1>1. CoreIInv => GateHolds
  BY Assumptions, GuardSuffices, QueueSuffices DEF CoreIInv, GateHolds, LifecycleIInv
<1> QED
  BY <1>1, CoreInductive, PTL DEF CoreSpec, coreVars

(* policy-store.ts: the table is what the calls leave one after the other,  *)
(* access is allowed only where a policy earns it, and a policy that is     *)
(* added works in its own direction: for any policies, requests and removals. *)
THEOREM AccessEarned == CoreSpec => []AccessIsEarned
<1>1. CoreIInv => AccessIsEarned
  BY Assumptions, PolicySuffices DEF CoreIInv, AccessIsEarned
<1> QED
  BY <1>1, CoreInductive, PTL DEF CoreSpec, coreVars

(* agent-registry.ts: in the run's part of it one caller, who toggles what  *)
(* is listed, sees the directory, whatever the agents and tenants.          *)
THEOREM RunImplementsDirectory == CoreSpec => ImplementsDirectory
<1>1. RP!RegistryAssumption
  BY Assumptions DEF Registry!RegistryAssumption, RP!RegistryAssumption,
       Registry!Row, RP!Row, Registry!Switches, RP!Switches
<1>2. RP!Disciplined
  BY DEF RP!Disciplined
<1>3. RP!Spec => RP!ImplementsDirectory
  BY <1>1, <1>2, RP!RegistryImplements
<1>4. CoreInit => RP!Init
  BY ZenonT(60) DEF CoreInit, Registry!Init, RP!Init
<1>5. [CoreNext]_coreVars => [RP!Next]_RP!vars
  BY RegistrySteps
<1>6. Registry!Shown = RP!Shown /\ Registry!Shown' = RP!Shown'
  BY ZenonT(60)
     DEF RP!Shown, Registry!Shown, RP!Listed, Registry!Listed, RP!LastRow, Registry!LastRow,
         RP!Newest, Registry!Newest, RP!Max, Registry!Max
<1>7. /\ RP!Directory!Init <=> Registry!Directory!Init
      /\ [RP!Directory!Next]_RP!Shown <=> [Registry!Directory!Next]_Registry!Shown
  BY <1>6, ZenonT(60)
     DEF RP!Directory!Init, Registry!Directory!Init, RP!Directory!Next, Registry!Directory!Next,
         RP!Directory!Register, Registry!Directory!Register, RP!Directory!Fresh, Registry!Directory!Fresh,
         RP!Directory!Deregister, Registry!Directory!Deregister, RP!Directory!Toggle, Registry!Directory!Toggle
<1> QED
  BY <1>3, <1>4, <1>5, <1>7, PTL
     DEF CoreSpec, coreVars, RP!Spec, RP!ImplementsDirectory, ImplementsDirectory, Registry!ImplementsDirectory,
         RP!Directory!Spec, Registry!Directory!Spec
=============================================================================
