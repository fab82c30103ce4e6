------------------------------ MODULE MessageBus ------------------------------
(***************************************************************************)
(* core/infrastructure-stubs/src/message-bus.ts.  publish calls the        *)
(* handlers of a topic one after the other, synchronously and over the     *)
(* live array: a handler that throws ends the loop, one that unsubscribes  *)
(* itself shifts the array under it.  A request without a direct handler   *)
(* is published and waits for a reply that carries its correlation id.     *)
(***************************************************************************)
EXTENDS Naturals, SequencesExt

CONSTANTS Topics, Handlers, Events,
          MaxEvents,   \* maxEventsPerTopic
          Requests,    \* identities for request() calls, and their correlation ids
          Ask,         \* the topic the requests are published on
          MaxHandlers  \* bound on the length of a handler array

(* What the constants must satisfy.                                         *)
BusAssumption == /\ MaxEvents \in Nat \ {0}
                 /\ MaxHandlers \in Nat
                 /\ Ask \notin Topics
                 /\ Requests \cap Events = {}

VARIABLES topics,         \* topics[t]: the events kept of topic t
          subscribers,    \* subscribers[t]: the live array of handlers
          replyHandlers,  \* the requests whose reply handler is subscribed
          direct,         \* whether an onRequest handler is registered
          request,        \* the state of each request() call
          got,            \* the topic and event of every publish
          heard           \* the requests a reply reached while they waited

vars == <<topics, subscribers, replyHandlers, direct, request, got, heard>>

Channels == Topics \cup {Ask}
Pending == {"published", "direct"}
States == Pending \cup {"new", "answered", "failed", "timedOut"}
Acts == {"return", "throw", "leave", "reply"}

-----------------------------------------------------------------------------
Init == /\ topics = [t \in Channels |-> <<>>]
        /\ subscribers = [t \in Channels |-> <<>>]
        /\ replyHandlers = {}
        /\ direct = FALSE
        /\ request = [r \in Requests |-> "new"]
        /\ got = {}
        /\ heard = {}

(* The log of a topic after push and shift.                                 *)
Kept(log, e) ==
  IF Len(log) = MaxEvents THEN Append(Tail(log), e) ELSE Append(log, e)

(* Round n of the for-of loop of publish over the live array: the handlers  *)
(* called so far, the array as they left it, and whether one threw.         *)
Round(w, n, act) ==
  IF w.threw \/ n > Len(w.left) THEN w
  ELSE LET h == w.left[n] IN
       [called |-> w.called \cup {h}, threw |-> act[h] = "throw",
        left |-> IF act[h] = "leave" THEN RemoveFirst(w.left, h) ELSE w.left]

(* The loop over hs: no more rounds than there were handlers at its start.  *)
Walk(hs, act) ==
  LET rounds[n \in Nat] == IF n = 0 THEN [called |-> {}, left |-> hs, threw |-> FALSE]
                           ELSE Round(rounds[n - 1], n, act)
  IN rounds[Len(hs)]

(* publish(t, e), the handlers behaving as act says.                        *)
Deliver(t, e, w) ==
  /\ topics' = [topics EXCEPT ![t] = Kept(@, e)]
  /\ subscribers' = [subscribers EXCEPT ![t] = w.left]
  /\ got' = got \cup {<<t, e>>}

Publish(t, e, act) == /\ Deliver(t, e, Walk(subscribers[t], act))
                      /\ UNCHANGED <<replyHandlers, direct, request, heard>>

Subscribe(t, h) ==
  /\ Len(subscribers[t]) < MaxHandlers
  /\ subscribers' = [subscribers EXCEPT ![t] = Append(@, h)]
  /\ UNCHANGED <<topics, replyHandlers, direct, request, got, heard>>

Unsubscribe(t, h) ==
  /\ subscribers' = [subscribers EXCEPT ![t] = RemoveFirst(@, h)]
  /\ UNCHANGED <<topics, replyHandlers, direct, request, got, heard>>

(* request(): an onRequest handler is called directly; otherwise the reply  *)
(* handler is registered and the request published.  A handler may reply    *)
(* before publish returns; if one throws, the request rejects unless it is  *)
(* settled by then.                                                         *)
Request(r, act) ==
  /\ request[r] = "new"
  /\ \/ /\ direct
        /\ request' = [request EXCEPT ![r] = "direct"]
        /\ UNCHANGED <<topics, subscribers, replyHandlers, got, heard>>
     \/ /\ ~direct
        /\ replyHandlers' = replyHandlers \cup {r}
        /\ LET w == Walk(subscribers[Ask], act)
               replied == \E h \in w.called : act[h] = "reply"
           IN /\ Deliver(Ask, r, w)
              /\ heard' = IF replied THEN heard \cup {r} ELSE heard
              /\ request' = [request EXCEPT ![r] = IF replied THEN "answered"
                                                   ELSE IF w.threw THEN "failed" ELSE "published"]
  /\ UNCHANGED direct

(* Mutant: a reply settles whoever waits on the reply topic.                *)
AnswersAny(r, s) == IF request[s] = "published" THEN "answered" ELSE request[s]

(* What the reply handler of s makes of a reply to r.                       *)
Answers(r, s) == IF s = r /\ request[s] = "published" THEN "answered" ELSE request[s]

(* A responder publishes its reply to r: every reply handler still          *)
(* subscribed sees it, none ever unsubscribes.                              *)
Reply(r) ==
  /\ request[r] # "new"
  /\ request' = [s \in Requests |-> IF s \in replyHandlers THEN Answers(r, s) ELSE request[s]]
  /\ heard' = IF r \in replyHandlers /\ request[r] = "published" THEN heard \cup {r} ELSE heard
  /\ UNCHANGED <<topics, subscribers, replyHandlers, direct, got>>

(* The direct handler's promise settles first.                              *)
DirectReply(r) ==
  /\ request[r] = "direct"
  /\ \/ request' = [request EXCEPT ![r] = "answered"] /\ heard' = heard \cup {r}
     \/ request' = [request EXCEPT ![r] = "failed"] /\ UNCHANGED heard
  /\ UNCHANGED <<topics, subscribers, replyHandlers, direct, got>>

(* The timer fires first.                                                   *)
Timeout(r) ==
  /\ request[r] \in Pending
  /\ request' = [request EXCEPT ![r] = "timedOut"]
  /\ UNCHANGED <<topics, subscribers, replyHandlers, direct, got, heard>>

OnRequest == /\ direct' = TRUE
             /\ UNCHANGED <<topics, subscribers, replyHandlers, request, got, heard>>

(* clear(): a request under way loses its reply handler and will time out.  *)
Clear == /\ topics' = [t \in Channels |-> <<>>]
         /\ subscribers' = [t \in Channels |-> <<>>]
         /\ replyHandlers' = {}
         /\ direct' = FALSE
         /\ UNCHANGED <<request, got, heard>>

Next == \/ \E t \in Channels, h \in Handlers : Subscribe(t, h) \/ Unsubscribe(t, h)
        \/ \E t \in Topics, e \in Events, act \in [Handlers -> Acts \ {"reply"}] : Publish(t, e, act)
        \/ \E r \in Requests, act \in [Handlers -> Acts] : Request(r, act)
        \/ \E r \in Requests : Reply(r) \/ DirectReply(r) \/ Timeout(r)
        \/ OnRequest
        \/ Clear

Spec == Init /\ [][Next]_vars

-----------------------------------------------------------------------------
TypeOK == /\ topics \in [Channels -> Seq(Events \cup Requests)]
          /\ \A t \in Channels : Len(topics[t]) <= MaxEvents
          /\ subscribers \in [Channels -> Seq(Handlers)]
          /\ replyHandlers \subseteq Requests /\ heard \subseteq Requests
          /\ direct \in BOOLEAN
          /\ request \in [Requests -> States]
          /\ got \subseteq Channels \X (Events \cup Requests)

(* A request resolves if and only if a reply to itself reached it before    *)
(* its timer and before a throwing handler rejected it: replies to others,  *)
(* late replies and repeated ones change nothing.                           *)
AnsweredInTime == \A r \in Requests : request[r] = "answered" <=> r \in heard
=============================================================================
