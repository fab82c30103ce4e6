----------------------------- MODULE AgentsProofs -----------------------------
(* Proofs about parts of MCAgents: the records of promotions, those of        *)
(* remediations, the alerts, the usage ledger, the catalog's graph and the    *)
(* calls that write lineage to it, pipelines, the schema watch and drift,     *)
(* each for any values of its constants.                                      *)
EXTENDS MCAgents, FiniteSetTheorems, SequenceTheorems, WellFoundedInduction, TLAPS

-------------------------------------------------------------------------------
(* Promotions.                                                                *)

(* The audit log has an entry of a promotion's success, and of its rollback.  *)
LogsPromotion(log, c) == Medallion!Entry("promote", c, "success") \in log
LogsRollback(log, c) == Medallion!Entry("rollback", c, "none") \in log

(* Nothing stood in the way of a promotion.                                   *)
Unhindered(r) == r \in Promotions /\ r.failing \subseteq {"alert"} /\ Medallion!Allowed(r)

(* The lineage edge of a promotion.                                           *)
EdgeOf(r, c) == [from |-> r.from, source |-> r.source, to |-> r.to, target |-> r.target, of |-> c]

(* How the records of one promotion relate at every moment of it.             *)
Recorded(c) ==
  /\ at[c] \in {"new", "adapter"} => /\ ~LogsPromotion(audit, c) /\ ~LogsRollback(audit, c)
                                     /\ c \notin platform
  /\ at[c] = "adapter" => Unhindered(request[c])
  /\ at[c] = "done" => (c \in platform <=> LogsPromotion(audit, c) /\ ~LogsRollback(audit, c))
  /\ at[c] = "rollback" => c \notin platform
  /\ c \in platform => c \in completed /\ Unhindered(request[c]) /\ EdgeOf(request[c], c) \in edges

PromotionIInv ==
  /\ at \in [Calls -> {"new", "adapter", "done", "rollback"}]
  /\ request \in [Calls -> Promotions \cup {Absent}]
  /\ registered \subseteq Medallion!Layers \X Tables
  /\ \A c \in Calls : Recorded(c)

(* Nothing was promoted yet.                                                *)
LEMMA PromotionInit == Medallion!Init => PromotionIInv
  BY DEF Medallion!Init, PromotionIInv, Recorded, LogsPromotion, LogsRollback

(* Entries of the audit log are equal only if all they say is.                *)
LEMMA EntriesDiffer ==
  \A a, b, c, d, s, t : Medallion!Entry(a, c, s) = Medallion!Entry(b, d, t) <=> a = b /\ c = d /\ s = t
  BY DEF Medallion!Entry

(* The other promotions are recorded as before when one goes on, if nothing   *)
(* is lost that they need.                                                    *)
LEMMA OthersRecorded ==
  ASSUME NEW c \in Calls, NEW d \in Calls \ {c}, Recorded(d),
         at'[d] = at[d], request'[d] = request[d],
         d \in platform' <=> d \in platform, d \in completed <=> d \in completed',
         edges \subseteq edges', registered \subseteq registered',
         LogsPromotion(audit', d) <=> LogsPromotion(audit, d),
         LogsRollback(audit', d) <=> LogsRollback(audit, d)
  PROVE  Recorded(d)'
<1>1. Unhindered(request[d]) => Unhindered(request[d])'
  BY DEF Unhindered, Medallion!Allowed, Medallion!ValidPromotionOrder
<1> QED
  BY <1>1 DEF Recorded, LogsPromotion, LogsRollback, EdgeOf

(* A request that passes the gates meets no failing one but an alert.         *)
LEMMA GatesPassed ==
  ASSUME Medallion!PromotionAssumption, NEW r \in Promotions, Medallion!Verdict(r) = "success"
  PROVE  r.failing \subseteq {"alert"}
<1>1. r.failing \subseteq {"block", "quarantine", "alert"}
  BY DEF Medallion!PromotionAssumption
<1>2. "block" \notin r.failing /\ "quarantine" \notin r.failing
  BY DEF Medallion!Verdict
<1> QED
  BY <1>1, <1>2

(* A call of promote passes its gates or is refused by one.                 *)
LEMMA PromoteRecords ==
  ASSUME Medallion!PromotionAssumption, PromotionIInv, NEW c \in Calls, NEW r \in Promotions,
         Medallion!Promote(c, r)
  PROVE  PromotionIInv'
<1>1. /\ at[c] = "new" /\ UNCHANGED <<registered, platform, edges, completed>>
      /\ request' = [request EXCEPT ![c] = r]
      /\ \/ at' = [at EXCEPT ![c] = "done"] /\ audit' = audit
         \/ /\ at' = [at EXCEPT ![c] = "done"]
            /\ \E a \in Medallion!Actions, s \in {"failed", "quarantined"} :
                 audit' = audit \cup {Medallion!Entry(a, c, s)}
         \/ /\ at' = [at EXCEPT ![c] = "adapter"] /\ audit' = audit
            /\ Medallion!Allowed(r) /\ Medallion!Verdict(r) = "success"
  BY DEF Medallion!Promote, Medallion!Actions, Medallion!Verdict
<1>2. \A d \in Calls : /\ LogsPromotion(audit', d) <=> LogsPromotion(audit, d)
                       /\ LogsRollback(audit', d) <=> LogsRollback(audit, d)
  BY <1>1, EntriesDiffer DEF LogsPromotion, LogsRollback
<1>3. /\ at' \in [Calls -> {"new", "adapter", "done", "rollback"}]
      /\ request' \in [Calls -> Promotions \cup {Absent}] /\ request'[c] = r
      /\ \A d \in Calls \ {c} : at'[d] = at[d] /\ request'[d] = request[d]
      /\ at'[c] \in {"done", "adapter"}
      /\ at'[c] = "adapter" => Medallion!Allowed(r) /\ Medallion!Verdict(r) = "success"
  BY <1>1 DEF PromotionIInv
<1>4. at'[c] = "adapter" => Unhindered(r)'
  BY <1>1, <1>3, GatesPassed DEF Unhindered, Medallion!Allowed, Medallion!ValidPromotionOrder
<1>5. ~LogsPromotion(audit, c) /\ ~LogsRollback(audit, c) /\ c \notin platform
  BY <1>1 DEF PromotionIInv, Recorded
<1>6. Recorded(c)'
  BY <1>1, <1>2, <1>3, <1>4, <1>5 DEF Recorded, LogsPromotion, LogsRollback
<1>7. \A d \in Calls \ {c} : Recorded(d)'
  BY <1>1, <1>2, <1>3, OthersRecorded DEF PromotionIInv
<1> QED
  BY <1>1, <1>3, <1>6, <1>7 DEF PromotionIInv

(* The adapter has promoted: edge, entry and mapping follow.                *)
LEMMA PromotedRecords ==
  ASSUME PromotionIInv, NEW c \in Calls, Medallion!Promoted(c)
  PROVE  PromotionIInv'
<1>1. /\ at[c] = "adapter" /\ at' = [at EXCEPT ![c] = "done"] /\ UNCHANGED <<registered, request>>
      /\ platform' = platform \cup {c} /\ completed' = completed \cup {c}
      /\ edges' = edges \cup {EdgeOf(request[c], c)}
      /\ audit' = audit \cup {Medallion!Entry("promote", c, "success")}
  BY DEF Medallion!Promoted, EdgeOf
<1>2. /\ LogsPromotion(audit', c)
      /\ \A d \in Calls : LogsRollback(audit', d) <=> LogsRollback(audit, d)
      /\ \A d \in Calls \ {c} : LogsPromotion(audit', d) <=> LogsPromotion(audit, d)
  BY <1>1, EntriesDiffer DEF LogsPromotion, LogsRollback
<1>3. /\ at' \in [Calls -> {"new", "adapter", "done", "rollback"}] /\ at'[c] = "done"
      /\ \A d \in Calls \ {c} : at'[d] = at[d]
  BY <1>1 DEF PromotionIInv
<1>4. Unhindered(request[c]) /\ ~LogsRollback(audit, c)
  BY <1>1 DEF PromotionIInv, Recorded
<1>5. Unhindered(request[c])'
  BY <1>1, <1>4 DEF Unhindered, Medallion!Allowed, Medallion!ValidPromotionOrder
<1>6. Recorded(c)'
  BY <1>1, <1>2, <1>3, <1>4, <1>5 DEF Recorded, LogsPromotion, LogsRollback, EdgeOf
<1>7. \A d \in Calls \ {c} : Recorded(d)'
  BY <1>1, <1>2, <1>3, OthersRecorded DEF PromotionIInv
<1> QED
  BY <1>1, <1>3, <1>6, <1>7 DEF PromotionIInv

(* What an adapter that throws, a rollback and its entry leave.               *)
LEMMA RollbackRecords ==
  ASSUME PromotionIInv, NEW c \in Calls,
         Medallion!AdapterThrows(c) \/ Medallion!Rollback(c) \/ Medallion!RolledBack(c)
  PROVE  PromotionIInv'
<1>1. \A d \in Calls \ {c} : at'[d] = at[d] /\ request'[d] = request[d]
  BY DEF PromotionIInv, Medallion!AdapterThrows, Medallion!Rollback, Medallion!RolledBack
<1>2. /\ request' = request /\ registered' = registered /\ edges' = edges
      /\ at' \in [Calls -> {"new", "adapter", "done", "rollback"}]
  BY DEF PromotionIInv, Medallion!AdapterThrows, Medallion!Rollback, Medallion!RolledBack
<1>3. /\ platform' \subseteq platform /\ platform \subseteq platform' \cup {c}
      /\ completed' \subseteq completed /\ completed \subseteq completed' \cup {c}
      /\ audit' \in {audit, audit \cup {Medallion!Entry("rollback", c, "none")}}
  BY DEF Medallion!AdapterThrows, Medallion!Rollback, Medallion!RolledBack
<1>4. \A d \in Calls : LogsPromotion(audit', d) <=> LogsPromotion(audit, d)
  BY <1>3, EntriesDiffer DEF LogsPromotion
<1>5. \A d \in Calls \ {c} : LogsRollback(audit', d) <=> LogsRollback(audit, d)
  BY <1>3, EntriesDiffer DEF LogsRollback
<1>6. \A d \in Calls \ {c} : Recorded(d)'
  BY <1>1, <1>2, <1>3, <1>4, <1>5, OthersRecorded DEF PromotionIInv
<1>7. Recorded(c) /\ at \in [Calls -> {"new", "adapter", "done", "rollback"}]
  BY DEF PromotionIInv
<1>8. ASSUME Medallion!AdapterThrows(c) PROVE Recorded(c)'
  BY <1>7, <1>8 DEF Medallion!AdapterThrows, Recorded
<1>9. ASSUME Medallion!Rollback(c) PROVE Recorded(c)'
  BY <1>7, <1>9 DEF Medallion!Rollback, Recorded
<1>10. ASSUME Medallion!RolledBack(c) PROVE Recorded(c)'
  <2>1. at[c] = "rollback" /\ at'[c] = "done" /\ c \notin platform /\ platform' = platform
    BY <1>7, <1>10 DEF Medallion!RolledBack, Recorded
  <2>2. LogsRollback(audit', c)
    BY <1>10 DEF Medallion!RolledBack, LogsRollback
  <2> QED
    BY <2>1, <2>2 DEF Recorded, LogsPromotion, LogsRollback
<1>11. Recorded(c)'
  BY <1>8, <1>9, <1>10
<1> QED
  BY <1>2, <1>6, <1>11 DEF PromotionIInv

(* Every step of a promotion keeps it.                                      *)
LEMMA PromotionNext ==
  ASSUME Medallion!PromotionAssumption, PromotionIInv, Medallion!Next
  PROVE  PromotionIInv'
<1>1. ASSUME NEW layer \in Medallion!Layers, NEW t \in Tables, Medallion!Register(layer, t)
      PROVE  PromotionIInv'
  <2>1. /\ registered' = registered \cup {<<layer, t>>}
        /\ UNCHANGED <<at, request, platform, edges, audit, completed>>
    BY <1>1 DEF Medallion!Register
  <2>2. \A r : Unhindered(r) => Unhindered(r)'
    BY <2>1 DEF Unhindered, Medallion!Allowed, Medallion!ValidPromotionOrder
  <2>3. \A c \in Calls : Recorded(c)'
    BY <2>1, <2>2 DEF PromotionIInv, Recorded, LogsPromotion, LogsRollback, EdgeOf
  <2> QED
    BY <2>1, <2>3 DEF PromotionIInv
<1> QED
  BY <1>1, PromoteRecords, PromotedRecords, RollbackRecords DEF Medallion!Next

(* The edge of a promotion to gold makes its source part of the trace.        *)
LEMMA PromotionSuffices == PromotionIInv => Medallion!RecordsAgree
<1> SUFFICES ASSUME PromotionIInv, NEW c \in Calls
             PROVE  /\ at[c] # "rollback" =>
                          (c \in platform <=> LogsPromotion(audit, c) /\ ~LogsRollback(audit, c))
                    /\ c \in platform =>
                         /\ c \in completed
                         /\ request[c].failing \subseteq {"alert"} /\ Medallion!WouldPromote(request[c])
                         /\ request[c].to = 2 =>
                              <<request[c].from, request[c].source>> \in
                                Medallion!Trace(request[c].target) \cap registered
  BY DEF Medallion!RecordsAgree, LogsPromotion, LogsRollback
<1>1. Recorded(c) /\ at[c] \in {"new", "adapter", "done", "rollback"}
  BY DEF PromotionIInv
<1>2. at[c] # "rollback" => (c \in platform <=> LogsPromotion(audit, c) /\ ~LogsRollback(audit, c))
  BY <1>1 DEF Recorded
<1>3. ASSUME c \in platform
      PROVE  c \in completed /\ Unhindered(request[c]) /\ EdgeOf(request[c], c) \in edges
  BY <1>1, <1>3 DEF Recorded
<1>4. c \in platform => Medallion!WouldPromote(request[c])
  BY <1>3 DEF Unhindered, Medallion!WouldPromote
<1>5. ASSUME c \in platform, request[c].to = 2
      PROVE  <<request[c].from, request[c].source>> \in Medallion!Trace(request[c].target) \cap registered
  <2> DEFINE e == EdgeOf(request[c], c)
  <2>1. /\ e \in edges /\ e.to = 2 /\ e.target = request[c].target
        /\ e.from = request[c].from /\ e.source = request[c].source
    BY <1>3, <1>5 DEF EdgeOf
  <2> HIDE DEF e
  <2>2. <<e.from, e.source>> \in Medallion!Step({<<2, request[c].target>>})
    BY <2>1 DEF Medallion!Step
  <2>3. <<e.from, e.source>> \in Medallion!Trace(request[c].target)
    BY <2>2 DEF Medallion!Trace, Medallion!Step
  <2> QED
    BY <1>3, <1>5, <2>1, <2>3 DEF Unhindered, Medallion!Allowed
<1> QED
  BY <1>2, <1>3, <1>4, <1>5 DEF Unhindered

-------------------------------------------------------------------------------
(* Alerts.                                                                    *)

(* The moments at which an anomaly of the key came.                           *)
Came(k) == {t \in Alerts!Times : seen[k][t] > 0}

(* Of a set of moments, those that no other one precedes within the window.   *)
Starts(S) == {t \in S : \A u \in S : u < t => t - u >= Window}

(* What an entry, or its absence, says of the anomalies that came.            *)
Remembered(k) ==
  /\ \A t \in Came(k) : t <= time
  /\ raised[k] = Starts(Came(k))
  /\ recentAlerts[k] = Absent => \A t \in Came(k) : time - t >= Window
  /\ recentAlerts[k] # Absent =>
       /\ recentAlerts[k].lastSeen \in Came(k) /\ \A t \in Came(k) : t <= recentAlerts[k].lastSeen
       /\ recentAlerts[k].firstSeen \in raised[k] /\ \A t \in raised[k] : t <= recentAlerts[k].firstSeen

AlertIInv ==
  /\ time \in Alerts!Times
  /\ recentAlerts \in [AlertKeys -> Alerts!Entries \cup {Absent}]
  /\ seen \in [AlertKeys -> [Alerts!Times -> Nat]] /\ raised \in [AlertKeys -> SUBSET Alerts!Times]
  /\ \A k \in AlertKeys : Remembered(k)

(* Detection times are numbers.                                             *)
LEMMA TimesAreNatural ==
  ASSUME Alerts!DeduplicationAssumption
  PROVE  /\ Alerts!Times \subseteq Nat /\ Window \in Nat /\ Window > 0 /\ 0 \in Alerts!Times
         /\ MaxTime \in Nat /\ \A t \in Nat : t <= MaxTime => t \in Alerts!Times
  BY DEF Alerts!DeduplicationAssumption, Alerts!Times

(* One more moment, no earlier than the others, starts nothing if one of      *)
(* them is within the window,                                                 *)
LEMMA RepeatStartsNothing ==
  ASSUME Window \in Nat, NEW S \in SUBSET Nat, NEW n \in Nat, \A t \in S : t <= n,
         NEW u \in S, n - u < Window
  PROVE  Starts(S \cup {n}) = Starts(S)
<1>1. CASE n \in S
  <2>1. S \cup {n} = S
    BY <1>1
  <2> QED
    BY <2>1
<1>2. CASE n \notin S
  <2>1. u < n
    BY <1>2
  <2>2. n \notin Starts(S \cup {n})
    BY <2>1 DEF Starts
  <2>3. \A t \in S : ~(n < t)
    OBVIOUS
  <2> QED
    BY <1>2, <2>2, <2>3 DEF Starts
<1> QED
  BY <1>1, <1>2

(* and starts something if none is.                                           *)
LEMMA FarOneStarts ==
  ASSUME Window \in Nat, Window > 0, NEW S \in SUBSET Nat, NEW n \in Nat, \A t \in S : n - t >= Window
  PROVE  Starts(S \cup {n}) = Starts(S) \cup {n} /\ \A t \in S : t < n
<1>1. \A t \in S : t < n /\ ~(n < t) /\ ~(n < n)
  OBVIOUS
<1>2. n \in Starts(S \cup {n})
  BY <1>1 DEF Starts
<1> QED
  BY <1>1, <1>2 DEF Starts

(* No alert was raised yet.                                                 *)
LEMMA AlertInit == ASSUME Alerts!DeduplicationAssumption, Alerts!Init PROVE AlertIInv
<1>1. /\ time = 0 /\ recentAlerts = [k \in AlertKeys |-> Absent]
      /\ seen = [k \in AlertKeys |-> [t \in Alerts!Times |-> 0]] /\ raised = [k \in AlertKeys |-> {}]
  BY DEF Alerts!Init
<1>2. \A k \in AlertKeys : Came(k) = {}
  BY <1>1 DEF Came
<1>3. \A k \in AlertKeys : Remembered(k)
  BY <1>1, <1>2 DEF Remembered, Starts
<1> QED
  BY <1>1, <1>3, TimesAreNatural DEF AlertIInv

(* A moment that is classified is remembered as the classifier says.        *)
LEMMA ClassifyRemembers ==
  ASSUME Alerts!DeduplicationAssumption, AlertIInv, NEW k \in AlertKeys, Alerts!Classify(k)
  PROVE  AlertIInv'
<1> DEFINE e == recentAlerts[k]
           S == Came(k)
<1>0. /\ Alerts!Times \subseteq Nat /\ Window \in Nat /\ Window > 0
      /\ time \in Alerts!Times /\ S \in SUBSET Nat /\ S \subseteq Alerts!Times
  BY TimesAreNatural DEF AlertIInv, Came
<1>1. time' = time /\ seen' = [seen EXCEPT ![k][time] = @ + 1]
  BY DEF Alerts!Classify
<1>2. /\ seen' \in [AlertKeys -> [Alerts!Times -> Nat]] /\ \A j \in AlertKeys \ {k} : seen'[j] = seen[j]
      /\ seen'[k][time] > 0 /\ \A t \in Alerts!Times \ {time} : seen'[k][t] = seen[k][t]
  BY <1>0, <1>1 DEF AlertIInv
<1>3. Came(k)' = S \cup {time} /\ \A j \in AlertKeys \ {k} : Came(j)' = Came(j)
  BY <1>0, <1>1, <1>2 DEF Came
<1>4. Remembered(k) /\ e \in Alerts!Entries \cup {Absent} /\ raised[k] \subseteq Alerts!Times
  BY DEF AlertIInv
<1>5. ASSUME recentAlerts' \in [AlertKeys -> Alerts!Entries \cup {Absent}],
             \A j \in AlertKeys \ {k} : recentAlerts'[j] = recentAlerts[j] /\ raised'[j] = raised[j],
             raised' \in [AlertKeys -> SUBSET Alerts!Times], Remembered(k)'
      PROVE  AlertIInv'
  <2>1. ASSUME NEW j \in AlertKeys \ {k} PROVE Remembered(j)'
    BY <1>1, <1>3, <1>5, <2>1 DEF AlertIInv, Remembered
  <2> QED
    BY <1>0, <1>1, <1>2, <1>5, <2>1 DEF AlertIInv
<1>6. ASSUME Alerts!Repeats(k) PROVE AlertIInv'
  <2> DEFINE f == [e EXCEPT !.count = @ + 1, !.lastSeen = time]
  <2>1. e # Absent /\ e \in Alerts!Entries /\ time - e.lastSeen < Window
    BY <1>4, <1>6 DEF Alerts!Repeats
  <2>2. f \in Alerts!Entries /\ f.lastSeen = time /\ f.firstSeen = e.firstSeen
    <3> HIDE DEF e
    <3>1. e.count \in Nat /\ e.firstSeen \in Alerts!Times /\ e.count + 1 \in Nat \ {0}
      BY <2>1 DEF Alerts!Entries
    <3> QED
      BY <1>0, <2>1, <3>1 DEF Alerts!Entries
  <2>3. raised' = raised /\ recentAlerts' = [recentAlerts EXCEPT ![k] = f]
    BY <1>6 DEF Alerts!Classify, AlertIInv
  <2>4. f # Absent
    BY <2>2 DEF Alerts!DeduplicationAssumption
  <2> HIDE DEF f
  <2>5. /\ recentAlerts' \in [AlertKeys -> Alerts!Entries \cup {Absent}] /\ recentAlerts'[k] = f
        /\ \A j \in AlertKeys \ {k} : recentAlerts'[j] = recentAlerts[j]
    BY <2>2, <2>3 DEF AlertIInv
  <2>6. e.lastSeen \in S /\ (\A t \in S : t <= time) /\ raised[k] = Starts(S)
    BY <1>4, <2>1 DEF Remembered
  <2>7. Starts(S \cup {time}) = Starts(S)
    <3> HIDE DEF S
    <3> QED
      BY <1>0, <2>1, <2>6, RepeatStartsNothing
  <2>8. e.firstSeen \in raised[k] /\ \A t \in raised[k] : t <= e.firstSeen
    BY <1>4, <2>1 DEF Remembered
  <2>9. Remembered(k)'
    BY <1>0, <1>1, <1>3, <2>2, <2>3, <2>4, <2>5, <2>6, <2>7, <2>8 DEF Remembered
  <2> QED
    BY <1>5, <2>3, <2>5, <2>9 DEF AlertIInv
<1>7. ASSUME ~Alerts!Repeats(k) PROVE AlertIInv'
  <2> DEFINE f == [count |-> 1, firstSeen |-> time, lastSeen |-> time]
  <2>1. f \in Alerts!Entries /\ f.lastSeen = time /\ f.firstSeen = time
    BY <1>0 DEF Alerts!Entries
  <2>2. f # Absent
    BY <2>1 DEF Alerts!DeduplicationAssumption
  <2>3. raised' = [raised EXCEPT ![k] = @ \cup {time}] /\ recentAlerts' = [recentAlerts EXCEPT ![k] = f]
    BY <1>7 DEF Alerts!Classify
  <2> HIDE DEF f
  <2>4. /\ recentAlerts' \in [AlertKeys -> Alerts!Entries \cup {Absent}] /\ recentAlerts'[k] = f
        /\ raised' \in [AlertKeys -> SUBSET Alerts!Times] /\ raised'[k] = raised[k] \cup {time}
        /\ \A j \in AlertKeys \ {k} : recentAlerts'[j] = recentAlerts[j] /\ raised'[j] = raised[j]
    BY <1>0, <2>1, <2>3 DEF AlertIInv
  <2>5. \A t \in S : time - t >= Window
    <3>1. ASSUME e # Absent PROVE \A t \in S : time - t >= Window
      <4>1. e.lastSeen \in S /\ \A t \in S : t <= e.lastSeen
        BY <1>4, <3>1 DEF Remembered
      <4>2. ~(time - e.lastSeen < Window)
        BY <1>7, <3>1 DEF Alerts!Repeats
      <4> HIDE DEF S, e
      <4>3. ASSUME NEW t \in S PROVE time - t >= Window
        <5>1. t \in Nat /\ t <= e.lastSeen /\ time \in Nat /\ e.lastSeen \in Nat
          BY <1>0, <4>1
        <5> QED
          BY <1>0, <4>2, <5>1
      <4> QED
        BY <4>3
    <3> QED
      BY <1>4, <3>1 DEF Remembered
  <2>6. Starts(S \cup {time}) = Starts(S) \cup {time} /\ \A t \in S : t < time
    <3> HIDE DEF S
    <3> QED
      BY <1>0, <2>5, FarOneStarts
  <2>7. raised[k] = Starts(S) /\ Starts(S) \subseteq S
    BY <1>4 DEF Remembered, Starts
  <2>8. Remembered(k)'
    <3> HIDE DEF S
    <3>1. /\ time' \in Nat /\ (\A t \in S \cup {time} : t <= time) /\ time \in raised'[k]
          /\ \A t \in raised'[k] : t <= time
      BY <1>0, <1>1, <2>4, <2>6, <2>7
    <3>2. raised'[k] = Starts(Came(k)') /\ recentAlerts'[k] # Absent
      BY <1>3, <2>2, <2>4, <2>6, <2>7
    <3>3. recentAlerts'[k].lastSeen = time /\ recentAlerts'[k].firstSeen = time /\ time \in Came(k)'
      BY <1>3, <2>1, <2>4
    <3> QED
      BY <1>1, <1>3, <3>1, <3>2, <3>3 DEF Remembered, Starts
  <2> QED
    BY <1>5, <2>4, <2>8
<1> QED
  BY <1>6, <1>7

(* Every step of the classifier keeps it.                                   *)
LEMMA AlertNext ==
  ASSUME Alerts!DeduplicationAssumption, AlertIInv, Alerts!Next PROVE AlertIInv'
<1>0. Alerts!Times \subseteq Nat /\ Window \in Nat /\ MaxTime \in Nat
      /\ \A t \in Nat : t <= MaxTime => t \in Alerts!Times
  BY TimesAreNatural
<1>1. ASSUME UNCHANGED <<time, seen, raised>>, NEW E \in SUBSET AlertKeys,
             \A k \in E : recentAlerts[k] # Absent /\ time - recentAlerts[k].lastSeen > Window,
             recentAlerts' = [k \in AlertKeys |-> IF k \in E THEN Absent ELSE recentAlerts[k]]
      PROVE  AlertIInv'
  <2>1. ASSUME NEW k \in AlertKeys PROVE Remembered(k)'
    <3>1. Came(k)' = Came(k) /\ Came(k) \subseteq Nat /\ time \in Nat
      BY <1>0, <1>1 DEF Came, AlertIInv
    <3>2. k \in E => \A t \in Came(k) : time - t >= Window
      BY <1>0, <1>1, <3>1 DEF AlertIInv, Remembered
    <3>3. recentAlerts'[k] = IF k \in E THEN Absent ELSE recentAlerts[k]
      BY <1>1
    <3> QED
      BY <1>1, <3>1, <3>2, <3>3 DEF AlertIInv, Remembered
  <2> QED
    BY <1>1, <2>1 DEF AlertIInv
<1>2. ASSUME Alerts!Cleanup PROVE AlertIInv'
  <2> DEFINE E == {k \in AlertKeys : Alerts!Expired(k)}
  <2>1. recentAlerts' = [k \in AlertKeys |-> IF k \in E THEN Absent ELSE recentAlerts[k]]
    BY <1>2 DEF Alerts!Cleanup
  <2>2. \A k \in E : recentAlerts[k] # Absent /\ time - recentAlerts[k].lastSeen > Window
    BY DEF Alerts!Expired
  <2> HIDE DEF E
  <2>3. E \subseteq AlertKeys
    BY DEF E
  <2> QED
    BY <1>1, <1>2, <2>1, <2>2, <2>3 DEF Alerts!Cleanup
<1>3. ASSUME Alerts!Tick PROVE AlertIInv'
  <2>1. time \in Nat /\ time' = time + 1 /\ time' \in Alerts!Times
        /\ UNCHANGED <<recentAlerts, seen, raised>>
    BY <1>0, <1>3 DEF Alerts!Tick, AlertIInv
  <2>2. ASSUME NEW k \in AlertKeys PROVE Remembered(k)'
    <3>1. Came(k)' = Came(k) /\ Came(k) \subseteq Nat
      BY <1>0, <2>1 DEF Came
    <3> QED
      BY <1>0, <2>1, <3>1 DEF AlertIInv, Remembered
  <2> QED
    BY <2>1, <2>2 DEF AlertIInv
<1> QED
  BY <1>2, <1>3, ClassifyRemembers DEF Alerts!Next

(* What is remembered tells what was new.                                   *)
LEMMA AlertSuffices ==
  ASSUME Alerts!DeduplicationAssumption, AlertIInv PROVE Alerts!RaisedExactly
<1> SUFFICES ASSUME NEW k \in AlertKeys
             PROVE  /\ raised[k] = {t \in Alerts!Times : seen[k][t] > 0 /\
                                      \A u \in 0 .. t - 1 : seen[k][u] > 0 => t - u >= Window}
                    /\ recentAlerts[k] # Absent => recentAlerts[k].firstSeen = Alerts!Max(raised[k])
  BY DEF Alerts!RaisedExactly
<1>1. Remembered(k) /\ Alerts!Times \subseteq Nat /\ raised[k] \subseteq Alerts!Times
  BY TimesAreNatural DEF AlertIInv
<1>2. ASSUME NEW t \in Alerts!Times
      PROVE  (\A u \in Came(k) : u < t => t - u >= Window) <=>
             \A u \in 0 .. t - 1 : seen[k][u] > 0 => t - u >= Window
  <2>1. \A u : u \in Came(k) /\ u < t <=> u \in 0 .. t - 1 /\ seen[k][u] > 0
    BY <1>1 DEF Came, Alerts!Times, Alerts!DeduplicationAssumption
  <2> QED
    BY <2>1
<1>3. raised[k] = Starts(Came(k))
  BY <1>1 DEF Remembered
<1>4. raised[k] = {t \in Alerts!Times : seen[k][t] > 0 /\
                     \A u \in 0 .. t - 1 : seen[k][u] > 0 => t - u >= Window}
  BY <1>2, <1>3 DEF Starts, Came
<1>5. ASSUME recentAlerts[k] # Absent PROVE recentAlerts[k].firstSeen = Alerts!Max(raised[k])
  <2> DEFINE m == recentAlerts[k].firstSeen
  <2>1. m \in raised[k] /\ \A t \in raised[k] : t <= m
    BY <1>1, <1>5 DEF Remembered
  <2> HIDE DEF m
  <2>2. raised[k] \subseteq Nat
    BY <1>1
  <2>3. m \in raised[k] /\ \A t \in raised[k] : m >= t
    BY <2>1, <2>2
  <2>4. \A x \in raised[k] : (\A t \in raised[k] : x >= t) => x = m
    BY <2>1, <2>2
  <2>5. Alerts!Max(raised[k]) = m
    BY <2>3, <2>4 DEF Alerts!Max
  <2> QED
    BY <2>5 DEF m
<1> QED
  BY <1>4, <1>5

-------------------------------------------------------------------------------
(* Remediations.                                                              *)

Remediates(c) == "incident_remediated" \in told[c]
Escalates(c) == "incident_escalated" \in told[c]

(* Where a call stands, what it told, and what it had to pass to get there.   *)
InFlow(c) ==
  /\ ~(Remediates(c) /\ Escalates(c))
  /\ stage[c] \in {"new", "playbook", "escalate", "remediated", "failed"} => ~Remediates(c) /\ ~Escalates(c)
  /\ stage[c] \in {"get", "set", "log"} => Remediates(c)
  /\ stage[c] = "metric" => Remediates(c) \/ Escalates(c)
  /\ stage[c] \in {"playbook", "remediated", "failed"} \/ Remediates(c) =>
       Incident!AutoRemediate(asked[c]) /\ ~(tier = "community" /\ ~asked[c].dryRun)
  /\ c \in executed =>
       /\ stage[c] \notin {"new", "playbook"}
       /\ stage[c] = "done" => Remediates(c) \/ Escalates(c)
       /\ tier # "community" /\ ~asked[c].dryRun /\ Incident!AutoRemediate(asked[c])

(* The calls whose remediation the counter may have: they announced it and    *)
(* are past the write, or threw.                                              *)
Counted == {c \in Calls : Remediates(c) /\ stage[c] \notin {"get", "set"}}

Stages == Incident!Waiting \cup {"new", "done", "thrown"}

IncidentTypeInv ==
  /\ asked \in [Calls -> Remediations] /\ stage \in [Calls -> Stages]
  /\ count \in Nat /\ read \in [Calls -> Nat]
  /\ told \in [Calls -> SUBSET Incident!Events]
  /\ executed \subseteq Calls
  /\ row \in [Incident!Incidents -> {"none", "open", "resolved"}]

CounterInv ==
  /\ count <= Cardinality(Counted)
  /\ \A c \in Calls : stage[c] = "set" => read[c] <= Cardinality(Counted)
  /\ \A c \in Calls : Remediates(c) /\ stage[c] \in {"log", "metric", "done"} => count > 0

ResolvedInv ==
  \A i \in Incident!Incidents : row[i] = "resolved" => \E c \in Calls : Remediates(c) /\ asked[c].incident = i

IncidentIInv ==
  /\ IncidentTypeInv
  /\ \A c \in Calls : InFlow(c)
  /\ CounterInv
  /\ ResolvedInv

(* FiniteSets is the same in Remediation as here.                             *)
LEMMA SameFiniteSets ==
  /\ \A S : Incident!Cardinality(S) = Cardinality(S)
  /\ \A S : Incident!IsFiniteSet(S) <=> IsFiniteSet(S)
  BY ZenonT(60) DEF Incident!Cardinality, Cardinality, Incident!IsFiniteSet, IsFiniteSet

(* There are finitely many remediation calls.                               *)
LEMMA CallsAreFinite == ASSUME Incident!RemediationAssumption PROVE IsFiniteSet(Calls)
  BY SameFiniteSets DEF Incident!RemediationAssumption

(* A smaller set of calls has no more elements.                               *)
LEMMA FewerCalls ==
  ASSUME IsFiniteSet(Calls), NEW S \in SUBSET Calls, NEW U \in SUBSET Calls, S \subseteq U
  PROVE  Cardinality(S) \in Nat /\ Cardinality(U) \in Nat /\ Cardinality(S) <= Cardinality(U)
<1>1. IsFiniteSet(U)
  BY FS_Subset
<1> QED
  BY <1>1, FS_Subset, FS_CardinalityType

(* No incident was remediated yet.                                          *)
LEMMA IncidentInit == ASSUME Incident!RemediationAssumption, Incident!Init PROVE IncidentIInv
<1>1. /\ asked \in [Calls -> Remediations] /\ stage = [c \in Calls |-> "new"]
      /\ count = 0 /\ read = [c \in Calls |-> 0] /\ told = [c \in Calls |-> {}] /\ executed = {}
      /\ row = [i \in Incident!Incidents |-> IF i \in Registered THEN "open" ELSE "none"]
  BY DEF Incident!Init
<1>2. \A c \in Calls : ~Remediates(c) /\ ~Escalates(c)
  BY <1>1 DEF Remediates, Escalates
<1>3. \A c \in Calls : InFlow(c)
  BY <1>1, <1>2 DEF InFlow
<1>4. Cardinality(Counted) \in Nat
  <2>1. Counted \in SUBSET Calls
    BY DEF Counted
  <2> QED
    BY <2>1, CallsAreFinite, FewerCalls
<1>5. CounterInv
  BY <1>1, <1>2, <1>4 DEF CounterInv
<1>6. ResolvedInv
  BY <1>1 DEF ResolvedInv
<1>7. IncidentTypeInv
  BY <1>1 DEF IncidentTypeInv, Stages
<1> QED
  BY <1>3, <1>5, <1>6, <1>7 DEF IncidentIInv

(* A call goes on to a stage, and may tell of an event as it does.            *)
Turn(c, to, events) ==
  /\ stage' = [stage EXCEPT ![c] = to] /\ told' = [told EXCEPT ![c] = @ \cup events]
  /\ tier' = tier /\ asked' = asked

(* Only that call is elsewhere then, and the others stand as they did.        *)
LEMMA TurnOf ==
  ASSUME IncidentIInv, NEW c \in Calls, NEW to \in Stages, NEW events \in SUBSET Incident!Events,
         Turn(c, to, events)
  PROVE  /\ stage' \in [Calls -> Stages] /\ told' \in [Calls -> SUBSET Incident!Events]
         /\ stage'[c] = to
         /\ Remediates(c)' <=> Remediates(c) \/ "incident_remediated" \in events
         /\ Escalates(c)' <=> Escalates(c) \/ "incident_escalated" \in events
         /\ \A d \in Calls \ {c} :
           stage'[d] = stage[d] /\ (Remediates(d)' <=> Remediates(d)) /\ (Escalates(d)' <=> Escalates(d))
<1>1. stage \in [Calls -> Stages] /\ told \in [Calls -> SUBSET Incident!Events]
  BY DEF IncidentIInv, IncidentTypeInv
<1>2. stage' \in [Calls -> Stages] /\ stage'[c] = to /\ \A d \in Calls \ {c} : stage'[d] = stage[d]
  BY <1>1 DEF Turn
<1>3. told' = [told EXCEPT ![c] = @ \cup events] /\ told[c] \subseteq Incident!Events
  BY <1>1 DEF Turn
<1>4. /\ told' \in [Calls -> SUBSET Incident!Events] /\ told'[c] = told[c] \cup events
      /\ \A d \in Calls \ {c} : told'[d] = told[d]
  BY <1>1, <1>3
<1> QED
  BY <1>2, <1>4 DEF Remediates, Escalates

(* The others stand as they did in the flow.                                  *)
LEMMA OthersInFlow ==
  ASSUME IncidentIInv, NEW c \in Calls, NEW to \in Stages, NEW events \in SUBSET Incident!Events,
         Turn(c, to, events), executed' \subseteq executed \cup {c}, InFlow(c)'
  PROVE  \A d \in Calls : InFlow(d)'
<1>1. tier' = tier /\ asked' = asked
  BY DEF Turn
<1>2. \A d \in Calls \ {c} :
           stage'[d] = stage[d] /\ (Remediates(d)' <=> Remediates(d)) /\ (Escalates(d)' <=> Escalates(d))
  BY TurnOf
<1>3. ASSUME NEW d \in Calls \ {c} PROVE InFlow(d)'
  BY <1>1, <1>2, <1>3 DEF InFlow, IncidentIInv, Incident!AutoRemediate, Incident!Applicable
<1> QED
  BY <1>3

(* A turn that leaves the counter, and what was read of it, alone.            *)
LEMMA CounterAlone ==
  ASSUME Incident!RemediationAssumption, IncidentIInv, NEW c \in Calls, NEW to \in Stages \ {"set"},
         NEW events \in SUBSET Incident!Events, Turn(c, to, events), UNCHANGED <<count, read>>,
         c \in Counted => to \notin {"get", "set"},
         Remediates(c)' /\ to \in {"log", "metric", "done"} =>
            Remediates(c) /\ stage[c] \in {"log", "metric"}
  PROVE  CounterInv'
<1>1. /\ stage'[c] = to
      /\ Remediates(c) => Remediates(c)'
      /\ \A d \in Calls \ {c} : stage'[d] = stage[d] /\ (Remediates(d)' <=> Remediates(d))
  BY TurnOf
<1>2. Counted \subseteq Counted' /\ Counted \in SUBSET Calls /\ Counted' \in SUBSET Calls
  BY <1>1 DEF Counted
<1>3. Cardinality(Counted) \in Nat /\ Cardinality(Counted') \in Nat /\ Cardinality(Counted) <= Cardinality(Counted')
  BY <1>2, CallsAreFinite, FewerCalls
<1>4. CounterInv /\ count \in Nat /\ \A d \in Calls : read[d] \in Nat
  BY DEF IncidentIInv, IncidentTypeInv
<1>5. \A d \in Calls : stage'[d] = "set" => stage[d] = "set"
  BY <1>1
<1>6. ASSUME NEW d \in Calls, Remediates(d)', stage'[d] \in {"log", "metric", "done"} PROVE count > 0
  BY <1>1, <1>4, <1>6 DEF CounterInv
<1> QED
  BY <1>3, <1>4, <1>5, <1>6 DEF CounterInv

(* What was resolved stays earned.                                            *)
LEMMA StillResolved ==
  ASSUME IncidentIInv, NEW c \in Calls, NEW to \in Stages, NEW events \in SUBSET Incident!Events,
         Turn(c, to, events), row' = row
  PROVE  ResolvedInv'
<1>1. asked' = asked
  BY DEF Turn
<1>2. \A d \in Calls : Remediates(d) => Remediates(d)'
  BY TurnOf
<1> QED
  BY <1>1, <1>2 DEF IncidentIInv, ResolvedInv, Incident!Incidents

(* A turn that leaves the counter and the rows alone keeps the invariant if   *)
(* the call is where the flow allows.                                         *)
LEMMA TurnInv ==
  ASSUME Incident!RemediationAssumption, IncidentIInv, NEW c \in Calls, NEW to \in Stages \ {"set"},
         NEW events \in SUBSET Incident!Events, Turn(c, to, events), UNCHANGED <<count, read, row>>,
         c \in Counted => to \notin {"get", "set"},
         Remediates(c)' /\ to \in {"log", "metric", "done"} =>
            Remediates(c) /\ stage[c] \in {"log", "metric"},
         executed' \subseteq executed \cup {c}, InFlow(c)'
  PROVE  IncidentIInv'
<1>1. to \in Stages
  OBVIOUS
<1>2. \A d \in Calls : InFlow(d)'
  BY <1>1, OthersInFlow
<1>3. CounterInv'
  BY CounterAlone
<1>4. ResolvedInv'
  BY <1>1, StillResolved
<1>5. stage' \in [Calls -> Stages] /\ told' \in [Calls -> SUBSET Incident!Events]
  BY <1>1, TurnOf
<1>6. asked' = asked
  BY DEF Turn
<1>7. IncidentTypeInv'
  BY <1>5, <1>6 DEF IncidentIInv, IncidentTypeInv, Incident!Incidents
<1> QED
  BY <1>2, <1>3, <1>4, <1>7 DEF IncidentIInv

(* A turn without an event.                                                   *)
LEMMA Silent ==
  ASSUME IncidentIInv, NEW c \in Calls, NEW to, Incident!To(c, to), UNCHANGED <<tier, asked, told>>
  PROVE  Turn(c, to, {})
<1>1. told \in [Calls -> SUBSET Incident!Events]
  BY DEF IncidentIInv, IncidentTypeInv
<1>2. told = [told EXCEPT ![c] = @ \cup {}]
  BY <1>1
<1> QED
  BY <1>2 DEF Turn, Incident!To

(* A call is made, and passes the first gates or returns.                   *)
LEMMA AskInv ==
  ASSUME Incident!RemediationAssumption, IncidentIInv, NEW c \in Calls, Incident!Ask(c)
  PROVE  IncidentIInv'
<1> DEFINE to == IF tier = "community" /\ ~asked[c].dryRun THEN "done"
                 ELSE IF Incident!AutoRemediate(asked[c]) THEN "playbook" ELSE "escalate"
<1>1. /\ stage[c] = "new" /\ Incident!To(c, to)
      /\ UNCHANGED <<tier, asked, count, read, told, executed, row>>
  BY DEF Incident!Ask
<1>2. to \in Stages \ {"set"} /\ to \in {"done", "playbook", "escalate"}
  BY DEF Stages, Incident!Waiting
<1>3. to = "playbook" => Incident!AutoRemediate(asked[c]) /\ ~(tier = "community" /\ ~asked[c].dryRun)
  OBVIOUS
<1> HIDE DEF to
<1>4. Turn(c, to, {})
  BY <1>1, Silent
<1>5. ~Remediates(c) /\ ~Escalates(c) /\ c \notin executed
  BY <1>1 DEF IncidentIInv, InFlow
<1>6. stage'[c] = to /\ ~Remediates(c)' /\ ~Escalates(c)' /\ to \in Stages
  BY <1>2, <1>4, <1>5, TurnOf
<1>7. Incident!AutoRemediate(asked[c]) => Incident!AutoRemediate(asked[c])'
  BY <1>1 DEF Incident!AutoRemediate, Incident!Applicable
<1>8. InFlow(c)'
  BY <1>1, <1>2, <1>3, <1>5, <1>6, <1>7 DEF InFlow
<1>9. c \notin Counted
  BY <1>5 DEF Counted
<1> QED
  BY <1>1, <1>2, <1>4, <1>6, <1>8, <1>9, TurnInv

(* The engine ran a playbook, or a dry run did not.                         *)
LEMMA PlaybookInv ==
  ASSUME Incident!RemediationAssumption, IncidentIInv, NEW c \in Calls, Incident!Playbook(c)
  PROVE  IncidentIInv'
<1>1. /\ stage[c] = "playbook" /\ UNCHANGED <<tier, asked, count, read, told, row>>
      /\ \E to \in {"remediated", "failed"} : Incident!To(c, to)
      /\ executed' \subseteq executed \cup {d \in {c} : Incident!Acts(c)}
  BY DEF Incident!Playbook
<1>2. PICK to \in {"remediated", "failed"} : Incident!To(c, to)
  BY <1>1
<1>3. /\ to \in Stages \ {"set"} /\ to \in Stages
      /\ to \notin {"get", "set", "log", "metric", "done", "new", "playbook"}
  BY DEF Stages, Incident!Waiting
<1>4. Turn(c, to, {})
  BY <1>1, <1>2, Silent
<1>5. /\ ~Remediates(c) /\ ~Escalates(c) /\ c \notin executed
      /\ Incident!AutoRemediate(asked[c]) /\ ~(tier = "community" /\ ~asked[c].dryRun)
  BY <1>1 DEF IncidentIInv, InFlow
<1>6. stage'[c] = to /\ ~Remediates(c)' /\ ~Escalates(c)'
  BY <1>3, <1>4, <1>5, TurnOf
<1>7. Incident!AutoRemediate(asked[c])'
  BY <1>1, <1>5 DEF Incident!AutoRemediate, Incident!Applicable
<1>8. c \in executed' => ~asked[c].dryRun
  BY <1>1, <1>5 DEF Incident!Acts
<1>9. InFlow(c)'
  BY <1>1, <1>3, <1>5, <1>6, <1>7, <1>8 DEF InFlow
<1>10. c \notin Counted /\ executed' \subseteq executed \cup {c}
  BY <1>1, <1>5 DEF Counted
<1> QED
  BY <1>1, <1>3, <1>4, <1>6, <1>9, <1>10, TurnInv

(* The events the code publishes, from where and on the way to where.         *)
Published(c) ==
  \/ Incident!Publish(c, "escalate", "incident_escalated", "done")
  \/ Incident!Publish(c, "failed", "incident_escalated", "metric")
  \/ Incident!Publish(c, "remediated", "incident_remediated", "get")
  \/ Incident!Publish(c, "metric", "incident.remediated", "done")

(* An event goes out on the bus.                                            *)
LEMMA PublishInv ==
  ASSUME Incident!RemediationAssumption, IncidentIInv, NEW c \in Calls, Published(c)
  PROVE  IncidentIInv'
<1>1. PICK from \in {"escalate", "failed", "remediated", "metric"}, event \in Incident!Events,
          to \in {"done", "metric", "get"} :
        /\ Incident!Publish(c, from, event, to)
        /\ \/ from = "escalate" /\ event = "incident_escalated" /\ to = "done"
           \/ from = "failed" /\ event = "incident_escalated" /\ to = "metric"
           \/ from = "remediated" /\ event = "incident_remediated" /\ to = "get"
           \/ from = "metric" /\ event = "incident.remediated" /\ to = "done"
  BY DEF Published, Incident!Events
<1>2. /\ stage[c] = from /\ UNCHANGED <<tier, asked, count, read, executed, row>>
      /\ Turn(c, to, {event})
  BY <1>1 DEF Incident!Publish, Incident!To, Turn
<1>3. to \in Stages \ {"set"} /\ to \in Stages /\ {event} \in SUBSET Incident!Events
  BY DEF Stages, Incident!Waiting
<1>4. /\ stage'[c] = to
      /\ Remediates(c)' <=> Remediates(c) \/ event = "incident_remediated"
      /\ Escalates(c)' <=> Escalates(c) \/ event = "incident_escalated"
  BY <1>2, <1>3, TurnOf
<1>5. InFlow(c)
  BY DEF IncidentIInv
<1>6. Incident!AutoRemediate(asked[c]) <=> Incident!AutoRemediate(asked[c])'
  BY <1>2 DEF Incident!AutoRemediate, Incident!Applicable
<1>7. InFlow(c)'
  <2>1. ASSUME from = "escalate", event = "incident_escalated", to = "done" PROVE InFlow(c)'
    BY <1>2, <1>4, <1>5, <1>6, <2>1 DEF InFlow
  <2>2. ASSUME from = "failed", event = "incident_escalated", to = "metric" PROVE InFlow(c)'
    BY <1>2, <1>4, <1>5, <1>6, <2>2 DEF InFlow
  <2>3. ASSUME from = "remediated", event = "incident_remediated", to = "get" PROVE InFlow(c)'
    BY <1>2, <1>4, <1>5, <1>6, <2>3 DEF InFlow
  <2>4. ASSUME from = "metric", event = "incident.remediated", to = "done" PROVE InFlow(c)'
    BY <1>2, <1>4, <1>5, <1>6, <2>4 DEF InFlow
  <2> QED
    BY <1>1, <2>1, <2>2, <2>3, <2>4
<1>8. c \in Counted => to \notin {"get", "set"}
  BY <1>1, <1>2, <1>5 DEF Counted, InFlow
<1>9. Remediates(c)' /\ to \in {"log", "metric", "done"} =>
            Remediates(c) /\ stage[c] \in {"log", "metric"}
  BY <1>1, <1>2, <1>4, <1>5 DEF InFlow
<1> QED
  BY <1>2, <1>3, <1>7, <1>8, <1>9, TurnInv

(* An await throws, and the call is over.                                   *)
LEMMA ThrowInv ==
  ASSUME Incident!RemediationAssumption, IncidentIInv, NEW c \in Calls, Incident!Throw(c)
  PROVE  IncidentIInv'
<1>1. /\ stage[c] \in Incident!Waiting /\ Incident!To(c, "thrown")
      /\ UNCHANGED <<tier, asked, count, read, told, executed, row>>
  BY DEF Incident!Throw
<1>2. Turn(c, "thrown", {}) /\ "thrown" \in Stages \ {"set"} /\ "thrown" \in Stages
  BY <1>1, Silent DEF Stages
<1>3. stage'[c] = "thrown" /\ (Remediates(c)' <=> Remediates(c)) /\ (Escalates(c)' <=> Escalates(c))
  BY <1>2, TurnOf
<1>4. InFlow(c) /\ (Incident!AutoRemediate(asked[c]) <=> Incident!AutoRemediate(asked[c])')
  BY <1>1 DEF IncidentIInv, Incident!AutoRemediate, Incident!Applicable
<1>5. InFlow(c)'
  BY <1>1, <1>3, <1>4 DEF InFlow
<1> QED
  BY <1>1, <1>2, <1>3, <1>5, TurnInv

(* A call goes from get over set to log without an event.                     *)
LEMMA StaysInFlow ==
  ASSUME IncidentIInv, NEW c \in Calls, stage[c] \in {"get", "set", "log"}, NEW to \in {"set", "log", "metric"},
         Turn(c, to, {}), executed' = executed
  PROVE  /\ Remediates(c) /\ stage' \in [Calls -> Stages] /\ stage'[c] = to
         /\ told' \in [Calls -> SUBSET Incident!Events]
         /\ \A d \in Calls : Remediates(d)' <=> Remediates(d)
         /\ \A d \in Calls \ {c} : stage'[d] = stage[d]
         /\ \A d \in Calls : InFlow(d)'
<1>1. to \in Stages /\ {} \in SUBSET Incident!Events /\ asked' = asked /\ tier' = tier
  BY DEF Stages, Incident!Waiting, Turn
<1>2. /\ stage' \in [Calls -> Stages] /\ stage'[c] = to /\ told' \in [Calls -> SUBSET Incident!Events]
      /\ (Remediates(c)' <=> Remediates(c)) /\ (Escalates(c)' <=> Escalates(c))
      /\ \A d \in Calls \ {c} : stage'[d] = stage[d] /\ (Remediates(d)' <=> Remediates(d))
  BY <1>1, TurnOf
<1>3. InFlow(c) /\ (Incident!AutoRemediate(asked[c]) <=> Incident!AutoRemediate(asked[c])')
  BY <1>1 DEF IncidentIInv, Incident!AutoRemediate, Incident!Applicable
<1>4. InFlow(c)' /\ Remediates(c)
  BY <1>1, <1>2, <1>3 DEF InFlow
<1>5. \A d \in Calls : InFlow(d)'
  BY <1>1, <1>4, OthersInFlow
<1> QED
  BY <1>2, <1>4, <1>5

(* The count that is read has no increment too many.                          *)
LEMMA GetCountInv ==
  ASSUME Incident!RemediationAssumption, IncidentIInv, NEW c \in Calls, Incident!GetCount(c)
  PROVE  IncidentIInv'
<1>1. /\ stage[c] = "get" /\ Incident!To(c, "set") /\ read' = [read EXCEPT ![c] = count]
      /\ UNCHANGED <<tier, asked, count, told, executed, row>>
  BY DEF Incident!GetCount
<1>2. Turn(c, "set", {})
  BY <1>1, Silent
<1>3. /\ Remediates(c) /\ stage' \in [Calls -> Stages] /\ stage'[c] = "set"
      /\ told' \in [Calls -> SUBSET Incident!Events]
      /\ \A d \in Calls : Remediates(d)' <=> Remediates(d)
      /\ \A d \in Calls \ {c} : stage'[d] = stage[d]
      /\ \A d \in Calls : InFlow(d)'
  BY <1>1, <1>2, StaysInFlow
<1>4. Counted' = Counted
  BY <1>1, <1>3 DEF Counted
<1>5. /\ read' \in [Calls -> Nat] /\ read'[c] = count
      /\ \A d \in Calls \ {c} : read'[d] = read[d]
  BY <1>1 DEF IncidentIInv, IncidentTypeInv
<1>6. CounterInv'
  <2>1. Cardinality(Counted') = Cardinality(Counted)
    BY <1>4
  <2>2. CounterInv
    BY DEF IncidentIInv
  <2>3. \A d \in Calls : stage'[d] = "set" => read'[d] <= Cardinality(Counted)
    BY <1>1, <1>3, <1>5, <2>2 DEF CounterInv
  <2>4. \A d \in Calls : Remediates(d)' /\ stage'[d] \in {"log", "metric", "done"} => count > 0
    BY <1>3, <2>2 DEF CounterInv
  <2> QED
    BY <1>1, <2>1, <2>2, <2>3, <2>4 DEF CounterInv
<1>7. ResolvedInv'
  BY <1>1, <1>3 DEF IncidentIInv, ResolvedInv, Incident!Incidents
<1>8. IncidentTypeInv'
  BY <1>1, <1>3, <1>5 DEF IncidentIInv, IncidentTypeInv, Incident!Incidents
<1> QED
  BY <1>3, <1>6, <1>7, <1>8 DEF IncidentIInv

(* What was read, and one for the call that writes, is no more than the calls *)
(* that count then.                                                           *)
LEMMA SetCountInv ==
  ASSUME Incident!RemediationAssumption, IncidentIInv, NEW c \in Calls, Incident!SetCount(c)
  PROVE  IncidentIInv'
<1>1. /\ stage[c] = "set" /\ Incident!To(c, "log") /\ count' = read[c] + 1
      /\ UNCHANGED <<tier, asked, read, told, executed, row>>
  BY DEF Incident!SetCount
<1>2. Turn(c, "log", {})
  BY <1>1, Silent
<1>3. /\ Remediates(c) /\ stage' \in [Calls -> Stages] /\ stage'[c] = "log"
      /\ told' \in [Calls -> SUBSET Incident!Events]
      /\ \A d \in Calls : Remediates(d)' <=> Remediates(d)
      /\ \A d \in Calls \ {c} : stage'[d] = stage[d]
      /\ \A d \in Calls : InFlow(d)'
  BY <1>1, <1>2, StaysInFlow
<1>4. Counted' = Counted \cup {c} /\ c \notin Counted /\ Counted \in SUBSET Calls
  BY <1>1, <1>3 DEF Counted
<1>5. Cardinality(Counted) \in Nat /\ Cardinality(Counted') = Cardinality(Counted) + 1
  <2>1. IsFiniteSet(Counted)
    BY <1>4, CallsAreFinite, FS_Subset
  <2> QED
    BY <1>4, <2>1, FS_AddElement, FS_CardinalityType
<1>6. CounterInv /\ \A d \in Calls : read[d] \in Nat
  BY DEF IncidentIInv, IncidentTypeInv
<1>7. CounterInv'
  <2>1. count' \in Nat /\ count' > 0 /\ count' <= Cardinality(Counted')
    BY <1>1, <1>5, <1>6 DEF CounterInv
  <2>2. \A d \in Calls : stage'[d] = "set" => read'[d] <= Cardinality(Counted')
    <3>1. \A d \in Calls : stage'[d] = "set" => stage[d] = "set"
      BY <1>3
    <3> QED
      BY <1>1, <1>5, <1>6, <3>1 DEF CounterInv
  <2> QED
    BY <2>1, <2>2 DEF CounterInv
<1>8. ResolvedInv'
  BY <1>1, <1>3 DEF IncidentIInv, ResolvedInv, Incident!Incidents
<1>9. IncidentTypeInv'
  BY <1>1, <1>3, <1>6 DEF IncidentIInv, IncidentTypeInv, Incident!Incidents
<1> QED
  BY <1>3, <1>7, <1>8, <1>9 DEF IncidentIInv

(* A row is resolved by a call that announced the remediation.                *)
LEMMA ResolveInv ==
  ASSUME Incident!RemediationAssumption, IncidentIInv, NEW c \in Calls, Incident!Resolve(c)
  PROVE  IncidentIInv'
<1>1. /\ stage[c] = "log" /\ Incident!To(c, "metric")
      /\ UNCHANGED <<tier, asked, count, read, told, executed>>
      /\ \/ row' = [row EXCEPT ![asked[c].incident] = IF @ = "none" THEN @ ELSE "resolved"]
         \/ row' = row
  BY DEF Incident!Resolve
<1>2. Turn(c, "metric", {})
  BY <1>1, Silent
<1>3. /\ Remediates(c) /\ stage' \in [Calls -> Stages] /\ stage'[c] = "metric"
      /\ told' \in [Calls -> SUBSET Incident!Events]
      /\ \A d \in Calls : Remediates(d)' <=> Remediates(d)
      /\ \A d \in Calls \ {c} : stage'[d] = stage[d]
      /\ \A d \in Calls : InFlow(d)'
  BY <1>1, <1>2, StaysInFlow
<1>4. CounterInv'
  <2>1. "metric" \in Stages \ {"set"} /\ {} \in SUBSET Incident!Events
    BY DEF Stages, Incident!Waiting
  <2> QED
    BY <1>1, <1>2, <1>3, <2>1, CounterAlone
<1>5. /\ row' \in [Incident!Incidents -> {"none", "open", "resolved"}]
      /\ \A i \in Incident!Incidents : row'[i] = "resolved" => row[i] = "resolved" \/ i = asked[c].incident
  <2>1. row \in [Incident!Incidents -> {"none", "open", "resolved"}]
    BY DEF IncidentIInv, IncidentTypeInv
  <2> QED
    BY <1>1, <2>1
<1>6. ResolvedInv'
  BY <1>1, <1>3, <1>5 DEF IncidentIInv, ResolvedInv, Incident!Incidents
<1>7. IncidentTypeInv'
  BY <1>1, <1>3, <1>5 DEF IncidentIInv, IncidentTypeInv, Incident!Incidents
<1> QED
  BY <1>3, <1>4, <1>6, <1>7 DEF IncidentIInv

(* Every step of the remediations keeps it.                                 *)
LEMMA IncidentNext ==
  ASSUME Incident!RemediationAssumption, IncidentIInv, Incident!Next PROVE IncidentIInv'
<1>1. PICK c \in Calls :
        \/ Incident!Ask(c) \/ Incident!Playbook(c) \/ Incident!GetCount(c) \/ Incident!SetCount(c)
        \/ Incident!Resolve(c) \/ Incident!Throw(c) \/ Published(c)
  BY DEF Incident!Next, Published
<1> QED
  BY <1>1, AskInv, PlaybookInv, GetCountInv, SetCountInv, ResolveInv, ThrowInv, PublishInv

-------------------------------------------------------------------------------
(* What a remediation that went ahead had to meet.                            *)

(* Of some of two numbers there is a least one.                               *)
LEMMA LeastOfTwo ==
  ASSUME NEW m \in Nat, NEW n \in Nat, NEW S \in SUBSET {m, n}, NEW x \in S
  PROVE  Incident!Min(S) \in {m, n} /\ Incident!Min(S) <= x
<1>1. \E y \in S : \A z \in S : y <= z
  <2>1. CASE m <= n
    BY <2>1
  <2>2. CASE n <= m
    BY <2>2
  <2> QED
    BY <2>1, <2>2
<1> QED
  BY <1>1 DEF Incident!Min

(* Every type of incident has a playbook, and playbooks need 85 or 90.        *)
LEMMA PlaybooksNeed ==
  /\ \A p \in DOMAIN Incident!BuiltIn : Incident!BuiltIn[p].min \in {85, 90}
  /\ \A type \in Incident!IncidentTypes :
       \E p \in DOMAIN Incident!BuiltIn : type \in Incident!BuiltIn[p].types
  BY DEF Incident!BuiltIn, Incident!IncidentTypes

(* What goes through the automatic gate met some playbook's threshold.      *)
LEMMA AutoDeserves ==
  ASSUME Incident!RemediationAssumption, NEW r \in Remediations, Incident!AutoRemediate(r)
  PROVE  Incident!Deserves(r)
<1> DEFINE fit == {q \in DOMAIN Incident!BuiltIn : r.type \in Incident!BuiltIn[q].types}
           needs == {Incident!BuiltIn[p].min : p \in fit}
<1>1. needs \subseteq {85, 90} /\ r.confidence \in Nat /\ r.type \in Incident!IncidentTypes
  BY PlaybooksNeed DEF Incident!RemediationAssumption
<1>2. \E p \in fit : r.confidence >= Incident!BuiltIn[p].min
  <2>1. ASSUME Incident!Applicable(r.type, r.confidence) # {}
        PROVE  \E p \in fit : r.confidence >= Incident!BuiltIn[p].min
    BY <2>1 DEF Incident!Applicable
  <2>2. ASSUME r.confidence >= 95 PROVE \E p \in fit : r.confidence >= Incident!BuiltIn[p].min
    <3>1. PICK p \in DOMAIN Incident!BuiltIn : r.type \in Incident!BuiltIn[p].types
      BY <1>1, PlaybooksNeed
    <3>2. Incident!BuiltIn[p].min \in {85, 90}
      BY PlaybooksNeed
    <3>3. r.confidence >= Incident!BuiltIn[p].min
      BY <1>1, <2>2, <3>2
    <3> QED
      BY <3>1, <3>3
  <2> QED
    BY <2>1, <2>2 DEF Incident!AutoRemediate
<1>3. PICK x \in needs : r.confidence >= x
  BY <1>2
<1> HIDE DEF needs
<1>4. Incident!Min(needs) \in {85, 90} /\ Incident!Min(needs) <= x /\ x \in {85, 90}
  BY <1>1, LeastOfTwo
<1>5. r.confidence >= Incident!Min(needs)
  BY <1>1, <1>3, <1>4
<1> QED
  BY <1>5 DEF Incident!Deserves, needs

(* What is counted, announced and resolved was earned.                      *)
LEMMA IncidentSuffices ==
  ASSUME Incident!RemediationAssumption, IncidentIInv PROVE Incident!RecordsAreEarned
<1>1. Incident!Remediated = {c \in Calls : Remediates(c)}
  BY DEF Incident!Remediated, Remediates
<1>2. count <= Incident!Cardinality(Incident!Remediated)
  <2>1. Counted \subseteq Incident!Remediated /\ Counted \in SUBSET Calls /\ Incident!Remediated \in SUBSET Calls
    BY <1>1 DEF Counted
  <2>2. /\ Cardinality(Counted) \in Nat /\ Cardinality(Incident!Remediated) \in Nat
        /\ Cardinality(Counted) <= Cardinality(Incident!Remediated)
    BY <2>1, CallsAreFinite, FewerCalls
  <2>3. count \in Nat /\ count <= Cardinality(Counted)
    BY DEF IncidentIInv, IncidentTypeInv, CounterInv
  <2>4. count <= Cardinality(Incident!Remediated)
    BY <2>2, <2>3
  <2> QED
    BY <2>4, SameFiniteSets
<1>3. (\E c \in Incident!Remediated : stage[c] \in {"log", "metric", "done"}) => count > 0
  BY <1>1 DEF IncidentIInv, CounterInv
<1>4. ASSUME NEW c \in Calls, Remediates(c)
      PROVE  Incident!Deserves(asked[c]) /\ "incident_escalated" \notin told[c]
  <2>1. InFlow(c) /\ asked[c] \in Remediations
    BY DEF IncidentIInv, IncidentTypeInv
  <2>2. Incident!AutoRemediate(asked[c]) /\ ~Escalates(c)
    BY <1>4, <2>1 DEF InFlow
  <2> QED
    BY <2>1, <2>2, AutoDeserves DEF Escalates
<1>5. \A i \in Incident!Incidents : row[i] = "resolved" =>
        \E c \in Incident!Remediated : /\ asked[c].incident = i /\ Incident!Deserves(asked[c])
                                      /\ "incident_escalated" \notin told[c]
  BY <1>1, <1>4 DEF IncidentIInv, ResolvedInv
<1>6. ASSUME NEW c \in executed
      PROVE  /\ tier # "community" /\ ~asked[c].dryRun /\ Incident!Deserves(asked[c])
             /\ stage[c] = "done" => told[c] \cap {"incident_escalated", "incident_remediated"} # {}
  <2>1. c \in Calls /\ InFlow(c) /\ asked[c] \in Remediations
    BY DEF IncidentIInv, IncidentTypeInv
  <2>2. tier # "community" /\ ~asked[c].dryRun /\ Incident!AutoRemediate(asked[c])
    BY <1>6, <2>1 DEF InFlow
  <2>3. stage[c] = "done" => Remediates(c) \/ Escalates(c)
    BY <1>6, <2>1 DEF InFlow
  <2> QED
    BY <2>1, <2>2, <2>3, AutoDeserves DEF Remediates, Escalates
<1> QED
  BY <1>2, <1>3, <1>5, <1>6 DEF Incident!RecordsAreEarned

(* Of some numbers one is the least.                                          *)
LEMMA LeastNumber ==
  ASSUME NEW S \in SUBSET Nat, S # {}
  PROVE  \E m \in S : \A k \in S : m <= k
<1>1. PICK m \in S : \A k \in S : ~ (<<k, m>> \in OpToRel(<, Nat))
  BY NatLessThanWellFounded, WFMin
<1>2. \A k \in S : ~ (k < m)
  BY <1>1 DEF OpToRel
<1> QED
  BY <1>2

-------------------------------------------------------------------------------
(* The usage ledger.                                                          *)

(* The instance of the ledger counts as the run does.                         *)
LEMMA LedgerSets ==
  /\ \A S : Ledger!Cardinality(S) = Cardinality(S)
  /\ \A S : Ledger!IsFiniteSet(S) <=> IsFiniteSet(S)
  BY ZenonT(60) DEF Ledger!Cardinality, Cardinality, Ledger!IsFiniteSet, IsFiniteSet

Event == [id : Nat, agent : People, time : Nat, previous : SUBSET Nat, hash : SUBSET Nat]

(* The ids are those of the events, each its own; a hash has its event's id   *)
(* and smaller ones; and as long as nothing but one ingester wrote, it has    *)
(* all of them.                                                               *)
LedgerIInv ==
  /\ ingested \subseteq Event /\ rows \subseteq ingested
  /\ IsFiniteSet(ingested) /\ Cardinality(ingested) <= MaxEvents
  /\ \A r, q \in ingested : r.id = q.id => r = q
  /\ {r.id : r \in ingested} = 1..Cardinality(ingested)
  /\ \A r \in ingested : r.hash = r.previous \cup {r.id} /\ r.previous \subseteq 1..(r.id - 1)
  /\ lastHash \subseteq 1..Cardinality(ingested)
  /\ chained => /\ lastHash = 1..Cardinality(ingested)
                /\ \A r \in ingested : r.previous = 1..(r.id - 1)

(* Nothing is ingested yet.                                                   *)
LEMMA LedgerInit == ASSUME Ledger!LedgerAssumption, Ledger!Init PROVE LedgerIInv
<1>1. ingested = {} /\ Cardinality(ingested) = 0 /\ IsFiniteSet(ingested) /\ 1..0 = {}
  BY FS_EmptySet DEF Ledger!Init
<1> QED
  BY <1>1 DEF Ledger!Init, Ledger!Genesis, LedgerIInv, Ledger!LedgerAssumption

(* One more event, chained to previous.                                       *)
LEMMA InsertedInv ==
  ASSUME Ledger!LedgerAssumption, LedgerIInv, NEW a \in People, NEW t \in EventTimes,
         NEW previous \in SUBSET (1..Cardinality(ingested)),
         Ledger!Insert(Ledger!Row(a, t, previous)),
         lastHash' \subseteq 1..(Cardinality(ingested) + 1),
         chained' => /\ chained /\ previous = lastHash /\ lastHash' = lastHash \cup {Cardinality(ingested) + 1}
  PROVE  LedgerIInv'
<1>0. PICK n : n = Cardinality(ingested)
  OBVIOUS
<1>1. n \in Nat /\ MaxEvents \in Nat /\ t \in Nat
  BY <1>0, FS_CardinalityType DEF LedgerIInv, Ledger!LedgerAssumption
<1>2. PICK new : /\ new = [id |-> n + 1, agent |-> a, time |-> t, previous |-> previous, hash |-> previous \cup {n + 1}]
                 /\ n < MaxEvents /\ rows' = rows \cup {new} /\ ingested' = ingested \cup {new}
  BY <1>0, LedgerSets DEF Ledger!Insert, Ledger!Row
<1>3. /\ new.id = n + 1 /\ new.previous = previous /\ new.hash = previous \cup {n + 1}
      /\ previous \subseteq 1..n
  BY <1>0, <1>2
<1>4. new \in Event
  <2>1. previous \in SUBSET Nat /\ previous \cup {n + 1} \in SUBSET Nat /\ n + 1 \in Nat
    BY <1>1, <1>3
  <2> QED
    BY <1>1, <1>2, <2>1 DEF Event
<1>5. \A r \in ingested : r.id \in 1..n
  BY <1>0 DEF LedgerIInv
<1>6. new \notin ingested
  BY <1>1, <1>3, <1>5
<1>7. IsFiniteSet(ingested') /\ Cardinality(ingested') = n + 1
  BY <1>0, <1>2, <1>6, FS_AddElement DEF LedgerIInv
<1>8. \A r, q \in ingested' : r.id = q.id => r = q
  <2>1. \A r \in ingested : r.id # new.id
    BY <1>1, <1>3, <1>5
  <2> QED
    BY <1>2, <2>1 DEF LedgerIInv
<1>9. {r.id : r \in ingested'} = 1..(n + 1)
  <2>1. {r.id : r \in ingested'} = {r.id : r \in ingested} \cup {new.id}
    BY <1>2, Zenon
  <2>2. {r.id : r \in ingested} = 1..n
    BY <1>0 DEF LedgerIInv
  <2>3. 1..(n + 1) = (1..n) \cup {n + 1}
    BY <1>1
  <2> QED
    BY <1>3, <2>1, <2>2, <2>3
<1>10. \A r \in ingested' : r.hash = r.previous \cup {r.id} /\ r.previous \subseteq 1..(r.id - 1)
  <2>1. new.hash = new.previous \cup {new.id} /\ new.previous \subseteq 1..(new.id - 1)
    BY <1>1, <1>3
  <2> QED
    BY <1>2, <2>1 DEF LedgerIInv
<1>11. ASSUME chained' PROVE lastHash' = 1..(n + 1) /\ \A r \in ingested' : r.previous = 1..(r.id - 1)
  <2>1. lastHash = 1..n /\ lastHash' = lastHash \cup {n + 1} /\ previous = 1..n
    BY <1>0, <1>11 DEF LedgerIInv
  <2>2. new.previous = 1..(new.id - 1)
    BY <1>1, <1>3, <2>1
  <2>3. \A r \in ingested : r.previous = 1..(r.id - 1)
    BY <1>11 DEF LedgerIInv
  <2>4. 1..(n + 1) = (1..n) \cup {n + 1}
    BY <1>1
  <2> QED
    BY <1>2, <2>1, <2>2, <2>3, <2>4
<1>12. ingested' \subseteq Event /\ rows' \subseteq ingested'
  BY <1>2, <1>4 DEF LedgerIInv
<1>13. lastHash' \subseteq 1..Cardinality(ingested')
  BY <1>0, <1>7
<1>14. Cardinality(ingested') <= MaxEvents /\ {r.id : r \in ingested'} = 1..Cardinality(ingested')
  <2>1. Cardinality(ingested') <= MaxEvents
    BY <1>1, <1>2, <1>7
  <2> QED
    BY <2>1, <1>7, <1>9, Zenon
<1>15. chained' => lastHash' = 1..Cardinality(ingested') /\ \A r \in ingested' : r.previous = 1..(r.id - 1)
  BY <1>7, <1>11
<1> QED
  BY <1>7, <1>8, <1>10, <1>12, <1>13, <1>14, <1>15 DEF LedgerIInv

(* Every step of the ledger keeps it.                                         *)
LEMMA LedgerNext == ASSUME Ledger!LedgerAssumption, LedgerIInv, Ledger!Next PROVE LedgerIInv'
<1>0. PICK n \in Nat : n = Cardinality(ingested)
  BY FS_CardinalityType DEF LedgerIInv
<1>5. \A s : s \subseteq 1..n => s \subseteq 1..(n + 1) /\ s \cup {n + 1} \subseteq 1..(n + 1)
  <2>1. 1..(n + 1) = (1..n) \cup {n + 1}
    BY <1>0
  <2> QED
    BY <2>1
<1>1. ASSUME NEW a \in People, NEW t \in EventTimes, Ledger!Ingest(a, t) PROVE LedgerIInv'
  <2>1. /\ Ledger!Insert(Ledger!Row(a, t, lastHash)) /\ lastHash' = lastHash \cup {n + 1} /\ chained' = chained
    BY <1>0, <1>1, LedgerSets DEF Ledger!Ingest, Ledger!Row
  <2>2. lastHash \subseteq 1..n
    BY <1>0 DEF LedgerIInv
  <2>3. lastHash' \subseteq 1..(n + 1)
    BY <1>5, <2>1, <2>2
  <2> QED
    BY <1>0, <2>1, <2>2, <2>3, InsertedInv
<1>2. ASSUME NEW a \in People, NEW t \in EventTimes, Ledger!IngestSpan(a, t) PROVE LedgerIInv'
  <2>1. Ledger!Insert(Ledger!Row(a, t, {})) /\ lastHash' = lastHash /\ chained' = FALSE
    BY <1>2 DEF Ledger!IngestSpan, Ledger!Genesis
  <2>2. lastHash \subseteq 1..n
    BY <1>0 DEF LedgerIInv
  <2>3. lastHash' \subseteq 1..(n + 1)
    BY <1>5, <2>1, <2>2
  <2> QED
    BY <1>0, <2>1, <2>3, InsertedInv
<1>3. ASSUME Ledger!Restart PROVE LedgerIInv'
  BY <1>3 DEF Ledger!Restart, Ledger!Genesis, LedgerIInv
<1>4. ASSUME NEW new \in rows, Ledger!Lose(new) PROVE LedgerIInv'
  BY <1>4 DEF Ledger!Lose, LedgerIInv
<1> QED
  BY <1>1, <1>2, <1>3, <1>4 DEF Ledger!Next

(* Of some events there is one before all others.                             *)
LEMMA FirstEvent ==
  ASSUME NEW S \in SUBSET Event, S # {}, \A r, q \in S : r.id = q.id => r = q
  PROVE  \E m \in S : \A r \in S : r = m \/ Ledger!Before(m, r)
<1>1. PICK t \in {r.time : r \in S} : \A u \in {r.time : r \in S} : t <= u
  <2>1. {r.time : r \in S} \in SUBSET Nat /\ {r.time : r \in S} # {}
    BY DEF Event
  <2> QED
    BY <2>1, LeastNumber
<1> DEFINE T == {r \in S : r.time = t}
<1>2. PICK i \in {r.id : r \in T} : \A j \in {r.id : r \in T} : i <= j
  <2>1. {r.id : r \in T} \in SUBSET Nat /\ {r.id : r \in T} # {}
    BY <1>1 DEF Event
  <2> QED
    BY <2>1, LeastNumber
<1>3. PICK m \in T : m.id = i
  BY <1>2
<1>4. ASSUME NEW r \in S, r # m PROVE Ledger!Before(m, r)
  <2>1. r.time \in Nat /\ r.id \in Nat /\ m.time \in Nat /\ m.id \in Nat
    BY <1>3 DEF Event
  <2>2. m.time <= r.time /\ r.id # m.id
    BY <1>1, <1>3, <1>4
  <2>3. r.time = m.time => m.id <= r.id
    BY <1>2, <1>3
  <2> QED
    BY <2>1, <2>2, <2>3 DEF Ledger!Before
<1> QED
  BY <1>3, <1>4

(* What is before is so in one order.                                         *)
LEMMA BeforeIsOrder ==
  ASSUME NEW r \in Event, NEW q \in Event, r.id # q.id
  PROVE  /\ ~ (Ledger!Before(r, q) /\ Ledger!Before(q, r)) /\ (Ledger!Before(r, q) \/ Ledger!Before(q, r))
         /\ \A p \in Event : Ledger!Before(r, q) /\ Ledger!Before(q, p) => Ledger!Before(r, p)
  BY DEF Ledger!Before, Event

(* An event that is not the first follows another one.                        *)
LEMMA Predecessor ==
  ASSUME NEW S \in SUBSET Event, \A r, q \in S : r.id = q.id => r = q,
         NEW m \in S, NEW r \in S, Ledger!Before(r, m),
         NEW n \in Nat, \A q \in S : q.id <= n
  PROVE  \E p \in S : <<p, m>> \in Ledger!Links(S)
<1> DEFINE B == {q \in S : Ledger!Before(q, m)}
           age(q) == m.time - q.time
<1>1. \A q \in B : q.time \in Nat /\ q.id \in Nat /\ m.time \in Nat /\ m.id \in Nat /\ age(q) \in Nat
  BY DEF Ledger!Before, Event
<1>2. PICK d \in {age(q) : q \in B} : \A e \in {age(q) : q \in B} : d <= e
  <2>1. {age(q) : q \in B} \in SUBSET Nat /\ {age(q) : q \in B} # {}
    BY <1>1
  <2> QED
    BY <2>1, LeastNumber
<1> DEFINE T == {q \in B : age(q) = d}
<1>3. PICK i \in {n - q.id : q \in T} : \A j \in {n - q.id : q \in T} : i <= j
  <2>1. {n - q.id : q \in T} \in SUBSET Nat /\ {n - q.id : q \in T} # {}
    BY <1>1, <1>2
  <2> QED
    BY <2>1, LeastNumber
<1>4. PICK p \in T : n - p.id = i
  BY <1>3
<1>5. ASSUME NEW q \in S, Ledger!Before(p, q), Ledger!Before(q, m) PROVE FALSE
  <2>1. q \in B
    BY <1>5
  <2>2. age(p) <= age(q)
    BY <1>2, <1>4, <2>1
  <2>3. q.time = p.time /\ p.id < q.id
    BY <1>1, <1>4, <1>5, <2>1, <2>2 DEF Ledger!Before
  <2>4. q \in T
    BY <1>4, <2>1, <2>3
  <2>5. n - p.id <= n - q.id
    BY <1>3, <1>4, <2>4
  <2> QED
    BY <1>1, <1>4, <2>1, <2>3, <2>5
<1> QED
  BY <1>4, <1>5 DEF Ledger!Links

(* A chain that is called valid has no gap: an id that one of its hashes has  *)
(* is the id of one of its events, or smaller than all of them.               *)
LEMMA ValidHasNoGap ==
  ASSUME LedgerIInv, NEW a \in People, Ledger!Valid(a),
         NEW r \in ingested, NEW q \in Ledger!Of(rows, a), r.id \in q.previous,
         NEW p \in Ledger!Of(rows, a), p.id < r.id
  PROVE  r \in rows
<1> DEFINE S == Ledger!Of(rows, a)
<1>1. SUFFICES ASSUME r \notin rows PROVE FALSE
  OBVIOUS
<1>2. /\ S \subseteq Event /\ S \subseteq rows /\ rows \subseteq ingested
      /\ \A x, y \in ingested : x.id = y.id => x = y
  BY DEF LedgerIInv, Ledger!Of
<1>3. PICK n \in Nat : \A x \in ingested : x.id \in 1..n
  <2>1. Cardinality(ingested) \in Nat
    BY FS_CardinalityType DEF LedgerIInv
  <2> QED
    BY <2>1 DEF LedgerIInv
<1>4. \A x \in ingested : x.hash = x.previous \cup {x.id} /\ x.previous \subseteq 1..(x.id - 1)
  BY DEF LedgerIInv
<1>5. \A x, y \in S : <<x, y>> \in Ledger!Links(S) => y.previous = x.hash
  BY DEF Ledger!Valid, Ledger!Linked
<1>6. \A x, y \in S : Ledger!Before(x, y) => \E z \in S : <<z, y>> \in Ledger!Links(S)
  BY <1>2, <1>3, Predecessor
<1>7. \A x, y \in S : <<x, y>> \in Ledger!Links(S) => Ledger!Before(x, y) /\ ~\E z \in S : Ledger!Before(x, z) /\ Ledger!Before(z, y)
  BY DEF Ledger!Links
<1> HIDE DEF S
<1>8. PICK m \in {x \in S : r.id \in x.previous} : \A x \in {y \in S : r.id \in y.previous} : x = m \/ Ledger!Before(m, x)
  <2>1. q \in {x \in S : r.id \in x.previous} /\ {x \in S : r.id \in x.previous} \in SUBSET Event
    BY <1>2 DEF S
  <2> QED
    BY <1>2, <2>1, FirstEvent
\* The first event whose hash has the id is the first of all.
<1>9. \A x \in S : x = m \/ Ledger!Before(m, x)
  <2> SUFFICES ASSUME NEW x \in S, x # m, ~ Ledger!Before(m, x) PROVE FALSE
    OBVIOUS
  <2>1. Ledger!Before(x, m)
    BY <1>2, <1>8, BeforeIsOrder
  <2>2. PICK y \in S : <<y, m>> \in Ledger!Links(S)
    BY <1>6, <1>8, <2>1
  <2>3. m.previous = y.previous \cup {y.id} /\ Ledger!Before(y, m)
    BY <1>2, <1>4, <1>5, <1>7, <1>8, <2>2
  <2>4. r.id # y.id
    BY <1>1, <1>2
  <2>5. r.id \in y.previous
    BY <1>8, <2>3, <2>4
  <2>6. y = m \/ Ledger!Before(m, y)
    BY <1>8, <2>5
  <2> QED
    BY <1>2, <1>8, <2>3, <2>6, BeforeIsOrder DEF Ledger!Before, Event
\* So all that follow have its id.
<1>10. \A x \in S : x = m \/ m.id \in x.previous
  <2> DEFINE C == {x \in S : x # m /\ m.id \notin x.previous}
  <2> SUFFICES ASSUME C # {} PROVE FALSE
    OBVIOUS
  <2>1. PICK x \in C : \A y \in C : y = x \/ Ledger!Before(x, y)
    <3>1. C \in SUBSET Event /\ \A y, z \in C : y.id = z.id => y = z
      BY <1>2
    <3> QED
      BY <3>1, FirstEvent
  <2>2. x \in S /\ x # m /\ m.id \notin x.previous
    BY <2>1
  <2>3. PICK y \in S : <<y, x>> \in Ledger!Links(S)
    BY <1>6, <1>8, <1>9, <2>2
  <2>4. x.previous = y.previous \cup {y.id} /\ Ledger!Before(y, x)
    BY <1>2, <1>4, <1>5, <1>7, <2>2, <2>3
  <2>5. y \in C
    BY <2>2, <2>4
  <2> QED
    BY <1>2, <2>1, <2>4, <2>5, BeforeIsOrder DEF Ledger!Before, Event
<1>11. p = m \/ m.id < p.id
  <2>1. p \in S /\ p \in ingested /\ p.id \in Nat /\ m.id \in Nat
    BY <1>2, <1>8 DEF S, Event
  <2> QED
    BY <1>4, <1>10, <2>1
<1>12. r.id < m.id
  BY <1>2, <1>4, <1>8 DEF Event
<1> QED
  BY <1>2, <1>3, <1>8, <1>11, <1>12 DEF Event, S

(* One ingester's events, in order and complete, are called valid.            *)
LEMMA CompleteIsValid ==
  ASSUME LedgerIInv, NEW a \in People, chained, \A r \in ingested : r.agent = a, Ledger!InOrder(rows),
         \A r \in ingested, q, p \in Ledger!Of(rows, a) : r.id \in q.previous /\ p.id < r.id => r \in rows
  PROVE  Ledger!Valid(a)
<1> DEFINE S == Ledger!Of(rows, a)
<1>1. SUFFICES ASSUME NEW p \in S, NEW q \in S, Ledger!Before(p, q),
                      ~\E r \in S : Ledger!Before(p, r) /\ Ledger!Before(r, q)
               PROVE  q.previous = p.hash
  BY DEF Ledger!Valid, Ledger!Links, Ledger!Linked
<1>2. /\ rows \subseteq ingested /\ \A x \in rows : x \in S
      /\ \A x \in ingested : x.id \in Nat /\ x.time \in Nat
      /\ \A x \in ingested : x.previous = 1..(x.id - 1) /\ x.hash = x.previous \cup {x.id}
      /\ \A x, y \in ingested : x.id = y.id => x = y
  BY DEF LedgerIInv, Ledger!Of, Event
<1>3. p \in rows /\ q \in rows
  BY DEF Ledger!Of
<1>4. \A x, y \in rows : x.id < y.id => Ledger!Before(x, y)
  BY <1>2 DEF Ledger!InOrder, Ledger!Before
<1>5. p.id < q.id
  BY <1>1, <1>2, <1>3 DEF Ledger!InOrder, Ledger!Before
<1>6. q.id = p.id + 1
  <2> SUFFICES ASSUME p.id + 1 < q.id PROVE FALSE
    BY <1>2, <1>3, <1>5
  <2>1. p.id \in 1..Cardinality(ingested) /\ q.id \in 1..Cardinality(ingested) /\ Cardinality(ingested) \in Nat
    BY <1>2, <1>3, FS_CardinalityType DEF LedgerIInv
  <2>2. p.id + 1 \in 1..Cardinality(ingested)
    BY <2>1
  <2>3. PICK r \in ingested : r.id = p.id + 1
    BY <2>2 DEF LedgerIInv
  <2>4. r.id \in q.previous /\ p.id < r.id /\ r.id < q.id
    BY <1>2, <1>3, <2>1, <2>3
  <2>5. r \in rows
    BY <2>4
  <2> QED
    BY <1>1, <1>2, <1>3, <1>4, <2>4, <2>5
<1>7. 1..p.id = (1..(p.id - 1)) \cup {p.id}
  <2>1. p.id \in 1..Cardinality(ingested)
    BY <1>2, <1>3 DEF LedgerIInv
  <2> QED
    BY <1>2, <1>3, <2>1
<1>8. q.previous = 1..p.id /\ p.previous = 1..(p.id - 1)
  <2>1. q.previous = 1..(q.id - 1) /\ p.previous = 1..(p.id - 1)
    BY <1>2, <1>3
  <2>2. q.id - 1 = p.id
    BY <1>2, <1>3, <1>6
  <2> QED
    BY <2>1, <2>2, Zenon
<1>9. p.hash = p.previous \cup {p.id}
  BY <1>2, <1>3
<1> QED
  BY <1>7, <1>8, <1>9

(* The activity log finds no broken link in a chain that is called valid.     *)
LEMMA LogAgrees ==
  ASSUME Ledger!LedgerAssumption, LedgerIInv, NEW a \in People, Ledger!Valid(a),
         NEW cutoff \in EventTimes, NEW limit \in Limits
  PROVE  Ledger!ChainIntegrity({a}, cutoff, limit)
<1> DEFINE since == {r \in rows : r.time >= cutoff /\ r.agent \in {a}}
           later(r) == {q \in since : Ledger!Before(r, q)}
           E == Ledger!Of(Ledger!Entries({a}, cutoff, limit), a)
<1>1. E = {r \in since : Cardinality(later(r)) < limit}
  BY LedgerSets DEF Ledger!Of, Ledger!Entries
<1>2. SUFFICES ASSUME NEW p \in E, NEW q \in E, Ledger!Before(p, q),
                      ~\E r \in E : Ledger!Before(p, r) /\ Ledger!Before(r, q)
               PROVE  q.previous = p.hash
  BY DEF Ledger!ChainIntegrity, Ledger!Links, Ledger!Linked
<1>3. /\ rows \subseteq Event /\ IsFiniteSet(rows)
      /\ \A x, y \in rows : x.id = y.id => x = y
  BY FS_Subset DEF LedgerIInv
<1>4. cutoff \in Nat /\ limit \in Nat
  BY DEF Ledger!LedgerAssumption
<1>5. p \in since /\ q \in since /\ Cardinality(later(p)) < limit
  BY <1>1
<1>6. p \in Ledger!Of(rows, a) /\ q \in Ledger!Of(rows, a)
  BY <1>5 DEF Ledger!Of
<1>7. ASSUME NEW r \in Ledger!Of(rows, a), Ledger!Before(p, r), Ledger!Before(r, q) PROVE FALSE
  <2>1. r \in rows /\ r.agent = a
    BY <1>7 DEF Ledger!Of
  <2>2. r.time >= cutoff
    BY <1>3, <1>4, <1>5, <1>7, <2>1 DEF Ledger!Before, Event
  <2>3. r \in since
    BY <2>1, <2>2
  <2>4. later(r) \subseteq later(p)
    <3> SUFFICES ASSUME NEW x \in since, Ledger!Before(r, x) PROVE Ledger!Before(p, x)
      OBVIOUS
    <3> QED
      BY <1>3, <1>5, <1>7, <2>1 DEF Ledger!Before, Event
  <2>5. Cardinality(later(r)) <= Cardinality(later(p)) /\ Cardinality(later(r)) \in Nat /\ Cardinality(later(p)) \in Nat
    <3>1. IsFiniteSet(later(p)) /\ IsFiniteSet(later(r))
      BY <1>3, FS_Subset
    <3> QED
      BY <3>1, <2>4, FS_Subset, FS_CardinalityType
  <2>6. r \in E
    <3>1. Cardinality(later(r)) < limit
      BY <1>4, <1>5, <2>5
    <3> HIDE DEF later
    <3> QED
      BY <1>1, <2>3, <3>1
  <2> QED
    BY <1>2, <1>7, <2>6
<1>8. <<p, q>> \in Ledger!Links(Ledger!Of(rows, a))
  BY <1>2, <1>6, <1>7 DEF Ledger!Links
<1> QED
  BY <1>8 DEF Ledger!Valid, Ledger!Linked

(* So the verification is worth what it should be.                            *)
LEMMA LedgerSuffices == ASSUME Ledger!LedgerAssumption, LedgerIInv PROVE Ledger!GapsAreFound
<1> SUFFICES ASSUME NEW a \in People
             PROVE  LET mine == Ledger!Of(rows, a)
                        gone == {r \in ingested \ rows : /\ \E q \in mine : r.id \in q.previous
                                                         /\ \E p \in mine : p.id < r.id}
                    IN  /\ Ledger!Valid(a) => gone = {}
                        /\ (chained /\ (\A r \in ingested : r.agent = a) /\ Ledger!InOrder(rows) /\ gone = {}) => Ledger!Valid(a)
                        /\ Ledger!Valid(a) => \A cutoff \in EventTimes, limit \in Limits : Ledger!ChainIntegrity({a}, cutoff, limit)
  BY DEF Ledger!GapsAreFound
<1> DEFINE mine == Ledger!Of(rows, a)
           gone == {r \in ingested \ rows : /\ \E q \in mine : r.id \in q.previous
                                            /\ \E p \in mine : p.id < r.id}
<1>1. Ledger!Valid(a) => gone = {}
  BY ValidHasNoGap
<1>2. ASSUME chained, \A r \in ingested : r.agent = a, Ledger!InOrder(rows), gone = {} PROVE Ledger!Valid(a)
  <2>1. \A r \in ingested, q, p \in mine : r.id \in q.previous /\ p.id < r.id => r \in rows
    BY <1>2
  <2> QED
    BY <1>2, <2>1, CompleteIsValid
<1>3. Ledger!Valid(a) => \A cutoff \in EventTimes, limit \in Limits : Ledger!ChainIntegrity({a}, cutoff, limit)
  BY LogAgrees
<1> QED
  BY <1>1, <1>2, <1>3

-------------------------------------------------------------------------------
(* Recursion over the numbers, for what the definitions below compute.        *)

(* The first n terms of a recursion: from s0 on, by step.                   *)
Terms(g, n, S, s0, step) ==
  g \in [0..n -> S] /\ g[0] = s0 /\ \A k \in 1..n : g[k] = step[<<g[k - 1], k>>]

(* They are determined, whatever their number.                              *)
LEMMA TermsAgree ==
  ASSUME NEW S, NEW s0, NEW step, NEW m \in Nat, NEW n \in Nat,
         NEW g, NEW h, Terms(g, m, S, s0, step), Terms(h, n, S, s0, step), m <= n,
         NEW j \in 0..m
  PROVE  g[j] = h[j]
<1> DEFINE Bad == {k \in 0..m : g[k] # h[k]}
<1>1. SUFFICES ASSUME Bad # {} PROVE FALSE
  OBVIOUS
<1>2. Bad \subseteq Nat
  OBVIOUS
<1>3. PICK k \in Bad : \A l \in Bad : k <= l
  BY <1>1, <1>2, LeastNumber
<1>4. k # 0
  BY <1>3 DEF Terms
<1>5. k - 1 \in 0..m /\ k - 1 \notin Bad /\ k \in 1..m /\ k \in 1..n
  BY <1>3, <1>4
<1> QED
  BY <1>3, <1>5 DEF Terms

(* There are n terms for every n.                                           *)
LEMMA TermsExist ==
  ASSUME NEW S, NEW s0 \in S, NEW step \in [S \X Nat -> S], NEW n \in Nat
  PROVE  \E g : Terms(g, n, S, s0, step)
<1> DEFINE Bad == {k \in Nat : ~ \E g : Terms(g, k, S, s0, step)}
<1>1. SUFFICES ASSUME Bad # {} PROVE FALSE
  OBVIOUS
<1>2. PICK m \in Bad : \A l \in Bad : m <= l
  BY <1>1, LeastNumber
<1>3. m # 0
  <2>1. Terms([k \in 0..0 |-> s0], 0, S, s0, step)
    BY DEF Terms
  <2> QED
    BY <1>2, <2>1
<1>4. m - 1 \in Nat /\ m - 1 \notin Bad
  BY <1>2, <1>3
<1>5. PICK g : Terms(g, m - 1, S, s0, step)
  BY <1>4
<1> DEFINE h == [k \in 0..m |-> IF k = m THEN step[<<g[m - 1], m>>] ELSE g[k]]
<1>6. g[m - 1] \in S /\ step[<<g[m - 1], m>>] \in S
  BY <1>4, <1>5, <1>2 DEF Terms
<1>7. Terms(h, m, S, s0, step)
  <2>1. h \in [0..m -> S] /\ h[0] = s0
    <3>1. ASSUME NEW k \in 0..m PROVE h[k] \in S
      <4>1. k # m => k \in 0..(m - 1)
        BY <1>2
      <4> QED
        BY <4>1, <1>5, <1>6 DEF Terms
    <3>2. 0 \in 0..m /\ h[0] = s0
      BY <1>2, <1>3, <1>5 DEF Terms
    <3> QED
      BY <3>1, <3>2
  <2>2. ASSUME NEW k \in 1..m PROVE h[k] = step[<<h[k - 1], k>>]
    <3>1. k - 1 \in 0..(m - 1) /\ k - 1 # m /\ k \in Nat
      BY <1>2
    <3>2. h[k - 1] = g[k - 1]
      BY <3>1
    <3>3. CASE k = m
      <4>1. h[k] = step[<<g[m - 1], m>>]
        BY <3>3
      <4> QED
        BY <3>2, <3>3, <4>1
    <3>4. CASE k # m
      <4>1. h[k] = g[k] /\ k \in 1..(m - 1)
        BY <1>2, <3>4
      <4>2. g[k] = step[<<g[k - 1], k>>]
        BY <1>5, <4>1 DEF Terms
      <4> QED
        BY <3>2, <4>1, <4>2
    <3> QED
      BY <3>3, <3>4
  <2> QED
    BY <2>1, <2>2 DEF Terms
<1> QED
  BY <1>2, <1>7

Steps(step, S) == step \in [S \X Nat -> S]
Runs(v, S, s0, step) ==
  v \in [Nat -> S] /\ v[0] = s0 /\ \A n \in Nat \ {0} : v[n] = step[<<v[n - 1], n>>]

(* A recursion over the natural numbers has a solution.                     *)
LEMMA Recursion ==
  ASSUME NEW S, NEW s0 \in S, NEW step, Steps(step, S)
  PROVE  \E v : Runs(v, S, s0, step)
<1> DEFINE First(n) == CHOOSE g : Terms(g, n, S, s0, step)
           v == [n \in Nat |-> First(n)[n]]
<1>1. \A n \in Nat : Terms(First(n), n, S, s0, step)
  BY TermsExist DEF Steps
<1> HIDE DEF First
<1>2. v[0] = s0
  BY <1>1 DEF Terms
<1>3. ASSUME NEW n \in Nat \ {0} PROVE v[n] = step[<<v[n - 1], n>>]
  <2>1. n - 1 \in Nat /\ n - 1 \in 0..(n - 1) /\ n - 1 <= n
    OBVIOUS
  <2>2. First(n)[n] = step[<<First(n)[n - 1], n>>]
    BY <1>1 DEF Terms
  <2>3. First(n - 1)[n - 1] = First(n)[n - 1]
    BY <1>1, <2>1, TermsAgree
  <2> QED
    BY <2>1, <2>2, <2>3
<1>4. v \in [Nat -> S]
  BY <1>1 DEF Terms
<1> QED
  BY <1>2, <1>3, <1>4 DEF Runs

(* What holds at 0 and passes from n - 1 to n holds for every n.            *)
LEMMA Persists ==
  ASSUME NEW S, NEW f, f[0] \in S, \A n \in Nat \ {0} : f[n - 1] \in S => f[n] \in S
  PROVE  \A n \in Nat : f[n] \in S
<1> DEFINE Bad == {n \in Nat : f[n] \notin S}
<1>1. SUFFICES ASSUME Bad # {} PROVE FALSE
  OBVIOUS
<1>2. PICK m \in Bad : \A l \in Bad : m <= l
  BY <1>1, LeastNumber
<1>3. m # 0
  BY <1>2
<1>4. m - 1 \in Nat /\ m - 1 \notin Bad
  BY <1>2, <1>3
<1> QED
  BY <1>2, <1>3, <1>4

-------------------------------------------------------------------------------
(* The catalog's graph.                                                       *)

(* FiniteSets is the same in CatalogGraph as here.                            *)
LEMMA GraphSets ==
  /\ \A S : Graph!Cardinality(S) = Cardinality(S)
  /\ \A S : Graph!IsFiniteSet(S) <=> IsFiniteSet(S)
  BY ZenonT(60) DEF Graph!Cardinality, Cardinality, Graph!IsFiniteSet, IsFiniteSet

(* Ordered puts the elements of a finite set in some order, each once.       *)
Lists(s, S) ==
  /\ s \in Seq(S) /\ \A i, j \in 1..Len(s) : i # j => s[i] # s[j]
  /\ \A x \in S : \E i \in 1..Len(s) : s[i] = x

(* A finite set is put in some order.                                         *)
LEMMA InSomeOrder ==
  ASSUME NEW S, IsFiniteSet(S)
  PROVE  Lists(Graph!Ordered(S), S)
<1> PICK s : s = Graph!Ordered(S)
  OBVIOUS
<1>1. PICK f \in Bijection(1..Cardinality(S), S) : TRUE
  BY FS_CardinalityType DEF ExistsBijection
<1>2. f \in [1..Cardinality(S) -> S] /\ Graph!IsInjective(f)
  BY <1>1 DEF Bijection, Injection, IsInjective, Graph!IsInjective
<1>3. s \in [1..Cardinality(S) -> S] /\ Graph!IsInjective(s)
  <2>1. s = CHOOSE g \in [1..Cardinality(S) -> S] : Graph!IsInjective(g)
    BY GraphSets DEF Graph!Ordered
  <2> QED
    BY <1>2, <2>1
<1>4. Cardinality(S) \in Nat
  BY FS_CardinalityType
<1>5. s \in Seq(S) /\ Len(s) = Cardinality(S)
  BY <1>3, <1>4
<1>6. \A i, j \in 1..Len(s) : i # j => s[i] # s[j]
  BY <1>3, <1>5 DEF Graph!IsInjective
<1>7. s \in Surjection(1..Cardinality(S), S)
  <2>1. s \in Injection(1..Cardinality(S), S)
    BY <1>3 DEF Injection, IsInjective, Graph!IsInjective
  <2>2. Cardinality(1..Cardinality(S)) = Cardinality(S)
    BY <1>4, FS_Interval
  <2> QED
    BY <2>1, <2>2, FS_Injection
<1>8. \A x \in S : \E i \in 1..Len(s) : s[i] = x
  BY <1>5, <1>7 DEF Surjection
<1> QED
  BY <1>5, <1>6, <1>8 DEF Lists

(* What is a step from S, and within n steps of a, over assets that are there. *)
Around(S, next, there) == {b \in there : \E s \in S : b \in next[s]}
Balls(N, next, there, a) ==
  /\ N \in [Nat -> SUBSET Assets] /\ N[0] = {a}
  /\ \A n \in Nat \ {0} : N[n] = N[n - 1] \cup Around(N[n - 1], next, there)

Links(next, there) == next \in [Assets -> SUBSET Assets] /\ there \subseteq Assets

(* The balls around an asset exist.                                           *)
LEMMA BallsExist ==
  ASSUME NEW next, NEW there, Links(next, there), NEW a \in Assets
  PROVE  \E N : Balls(N, next, there, a)
<1> DEFINE step == [p \in (SUBSET Assets) \X Nat |-> p[1] \cup Around(p[1], next, there)]
<1>1. {a} \in SUBSET Assets /\ step \in [(SUBSET Assets) \X Nat -> SUBSET Assets]
  BY DEF Links, Around
<1>2. \A S \in SUBSET Assets, n \in Nat : step[<<S, n>>] = S \cup Around(S, next, there)
  OBVIOUS
<1> HIDE DEF step
<1>3. PICK N : Runs(N, SUBSET Assets, {a}, step)
  BY <1>1, Recursion DEF Steps
<1>4. \A n \in Nat \ {0} : N[n] = N[n - 1] \cup Around(N[n - 1], next, there)
  <2> TAKE n \in Nat \ {0}
  <2>1. n - 1 \in Nat /\ N[n - 1] \in SUBSET Assets
    BY <1>3 DEF Runs
  <2> QED
    BY <1>2, <1>3, <2>1 DEF Runs
<1> QED
  BY <1>3, <1>4 DEF Runs, Balls

(* The next ball.                                                             *)
LEMMA BallStep ==
  ASSUME NEW next, NEW there, NEW a, NEW N, Balls(N, next, there, a), NEW n \in Nat
  PROVE  N[n] \subseteq Assets /\ N[n + 1] = N[n] \cup Around(N[n], next, there)
<1>1. n + 1 \in Nat \ {0} /\ (n + 1) - 1 = n
  OBVIOUS
<1>2. N[n + 1] = N[(n + 1) - 1] \cup Around(N[(n + 1) - 1], next, there)
  BY <1>1 DEF Balls
<1> QED
  BY <1>1, <1>2 DEF Balls

(* More steps reach no less.                                                  *)
LEMMA BallsGrow ==
  ASSUME NEW next, NEW there, NEW a, NEW N, Balls(N, next, there, a), NEW m \in Nat, NEW n \in Nat, m <= n
  PROVE  N[m] \subseteq N[n]
<1> DEFINE Bad == {k \in Nat : m <= k /\ ~ (N[m] \subseteq N[k])}
<1>1. SUFFICES ASSUME Bad # {} PROVE FALSE
  OBVIOUS
<1>2. PICK k \in Bad : \A l \in Bad : k <= l
  BY <1>1, LeastNumber
<1>3. k # m /\ k - 1 \in Nat /\ m <= k - 1 /\ k \in Nat \ {0}
  BY <1>2
<1>4. N[m] \subseteq N[k - 1]
  BY <1>2, <1>3
<1> QED
  BY <1>2, <1>3, <1>4 DEF Balls

(* The first step of a way, instead of the last.                              *)
LEMMA FirstStep ==
  ASSUME NEW next, NEW there, Links(next, there), NEW N, \A a \in Assets : Balls(N[a], next, there, a),
         NEW n \in Nat, NEW a \in Assets, NEW z \in Assets
  PROVE  z \in N[a][n + 1] <=> z \in N[a][n] \/ \E y \in next[a] \cap there : z \in N[y][n]
<1> DEFINE Ok(k) == \A x, b \in Assets : b \in N[x][k + 1] <=> b \in N[x][k] \/ \E y \in next[x] \cap there :
        b \in N[y][k]
           Bad == {k \in Nat : ~ Ok(k)}
<1>1. SUFFICES ASSUME Bad # {} PROVE FALSE
  OBVIOUS
<1>2. PICK k \in Bad : \A l \in Bad : k <= l
  BY <1>1, LeastNumber
<1>3. \A x \in Assets : /\ N[x][0] = {x} /\ N[x][k + 1] = N[x][k] \cup {b \in there : \E s \in N[x][k] : b \in next[s]}
                        /\ N[x][k] \subseteq Assets
  <2> TAKE x \in Assets
  <2>1. Balls(N[x], next, there, x)
    OBVIOUS
  <2>2. N[x][k] \subseteq Assets /\ N[x][k + 1] = N[x][k] \cup Around(N[x][k], next, there)
    BY <1>2, <2>1, BallStep
  <2> QED
    BY <2>1, <2>2 DEF Balls, Around
<1>4. k # 0
  BY <1>2, <1>3 DEF Links
<1>5. k - 1 \in Nat /\ (k - 1) + 1 = k /\ k \in Nat \ {0}
  BY <1>2, <1>4
<1>6. Ok(k - 1)
  BY <1>2, <1>5
<1>7. \A x \in Assets : N[x][k] = N[x][k - 1] \cup {b \in there : \E s \in N[x][k - 1] : b \in next[s]}
  <2> TAKE x \in Assets
  <2>1. Balls(N[x], next, there, x)
    OBVIOUS
  <2> QED
    BY <1>5, <2>1 DEF Balls, Around
<1>8. \A x, b \in Assets : b \in N[x][k] <=> b \in N[x][k - 1] \/ \E y \in next[x] \cap there : b \in N[y][k - 1]
  BY <1>5, <1>6
<1>9. Ok(k)
  <2> SUFFICES ASSUME NEW x \in Assets, NEW b \in Assets
               PROVE  b \in N[x][k + 1] <=> b \in N[x][k] \/ \E y \in next[x] \cap there : b \in N[y][k]
    OBVIOUS
  <2>1. ASSUME b \in there, NEW s \in N[x][k], b \in next[s], b \notin N[x][k]
        PROVE  \E y \in next[x] \cap there : b \in N[y][k]
    <3>1. s \in Assets /\ s \notin N[x][k - 1]
      BY <1>3, <1>7, <2>1
    <3>2. PICK y \in next[x] \cap there : s \in N[y][k - 1]
      BY <1>8, <2>1, <3>1
    <3> QED
      BY <1>7, <2>1, <3>2 DEF Links
  <2>2. ASSUME NEW y \in next[x] \cap there, b \in N[y][k] PROVE b \in N[x][k + 1]
    <3>1. y \in Assets
      BY DEF Links
    <3>2. CASE b \in N[y][k - 1]
      BY <1>3, <1>8, <3>1, <3>2
    <3>3. CASE b \in there /\ \E s \in N[y][k - 1] : b \in next[s]
      <4>1. PICK s \in N[y][k - 1] : b \in next[s]
        BY <3>3
      <4>2. s \in Assets
        BY <1>5, <3>1, BallStep
      <4>3. s \in N[x][k]
        BY <1>8, <4>1, <4>2
      <4> QED
        BY <1>3, <3>3, <4>1, <4>3
    <3> QED
      BY <1>7, <2>2, <3>1, <3>2, <3>3
  <2> QED
    BY <1>3, <2>1, <2>2
<1> QED
  BY <1>2, <1>9

(* A way between assets that are there leads back along the converse.         *)
LEMMA WayBack ==
  ASSUME NEW next, NEW back, NEW there, Links(next, there), Links(back, there),
         \A x, y \in Assets : y \in next[x] <=> x \in back[y],
         NEW N, NEW M, \A a \in Assets : Balls(N[a], next, there, a) /\ Balls(M[a], back, there, a),
         NEW n \in Nat, NEW x \in there, NEW y \in there
  PROVE  y \in N[x][n] <=> x \in M[y][n]
<1> DEFINE Ok(k) == \A a, b \in there : b \in N[a][k] <=> a \in M[b][k]
           Bad == {k \in Nat : ~ Ok(k)}
<1>1. SUFFICES ASSUME Bad # {} PROVE FALSE
  OBVIOUS
<1>2. PICK k \in Bad : \A l \in Bad : k <= l
  BY <1>1, LeastNumber
<1>3. k # 0
  BY <1>2 DEF Balls, Links
<1>4. k - 1 \in Nat /\ (k - 1) + 1 = k /\ k \in Nat \ {0}
  BY <1>2, <1>3
<1>5. Ok(k - 1)
  BY <1>2, <1>4
<1>6. \A a, b \in Assets : b \in N[a][k] <=> b \in N[a][k - 1] \/ \E w \in next[a] \cap there : b \in N[w][k - 1]
  <2>1. \A a, b \in Assets : b \in N[a][(k - 1) + 1] <=> b \in N[a][k - 1] \/ \E w \in next[a] \cap there :
            b \in N[w][k - 1]
    BY <1>4, FirstStep
  <2> QED
    BY <1>4, <2>1
<1>7. \A b \in Assets : M[b][k] = M[b][k - 1] \cup {a \in there : \E s \in M[b][k - 1] : a \in back[s]}
  <2> TAKE b \in Assets
  <2>1. Balls(M[b], back, there, b)
    OBVIOUS
  <2> QED
    BY <1>4, <2>1 DEF Balls, Around
<1>8. \A b \in there : M[b][k - 1] \subseteq there
  <2> DEFINE In == {l \in Nat : ~ \A b \in there : M[b][l] \subseteq there}
  <2>1. ASSUME In # {} PROVE FALSE
    <3>1. PICK l \in In : \A j \in In : l <= j
      BY <2>1, LeastNumber
    <3>2. l # 0
      BY <3>1 DEF Balls, Links
    <3>3. l - 1 \in Nat /\ l - 1 \notin In /\ l \in Nat \ {0}
      BY <3>1, <3>2
    <3>4. \A b \in there : M[b][l] = M[b][l - 1] \cup Around(M[b][l - 1], back, there)
      BY <3>3 DEF Balls, Links
    <3>5. \A b \in there : M[b][l - 1] \subseteq there
      BY <3>3
    <3>6. \A b \in there : M[b][l] \subseteq there
      BY <3>4, <3>5 DEF Around
    <3> QED
      BY <3>1, <3>6
  <2> QED
    BY <1>4, <2>1
<1>9. ASSUME NEW a \in there, NEW b \in there PROVE b \in N[a][k] <=> a \in M[b][k]
  <2>1. a \in Assets /\ b \in Assets
    BY DEF Links
  <2>2. (\E w \in next[a] \cap there : b \in N[w][k - 1]) <=> (\E w \in M[b][k - 1] : a \in back[w])
    <3>1. \A w \in there : w \in Assets /\ (b \in N[w][k - 1] <=> w \in M[b][k - 1]) /\ (w \in next[a] <=> a \in back[w])
      BY <1>5, <2>1 DEF Links
    <3> QED
      BY <1>8, <3>1
  <2> QED
    BY <1>5, <1>6, <1>7, <2>1, <2>2
<1> QED
  BY <1>2, <1>9

-------------------------------------------------------------------------------
(* The walk.                                                                  *)

(* The queue when its head is taken off and s is put behind it.               *)
Moved(Q, q, s) == /\ Len(Q) = Len(q) - 1 + Len(s)
                  /\ \A i \in 1..(Len(q) - 1) : Q[i] = q[i + 1]
                  /\ \A i \in 1..Len(s) : Q[Len(q) - 1 + i] = s[i]

(* The queue of a walk moves up by one, and what is new goes behind.          *)
LEMMA QueueMoves ==
  ASSUME NEW S, NEW q \in Seq(S), q # <<>>, NEW s \in Seq(S)
  PROVE  Tail(q) \o s \in Seq(S) /\ Len(q) \in Nat \ {0} /\ Moved(Tail(q) \o s, q, s)
<1>1. Tail(q) \in Seq(S) /\ Len(Tail(q)) = Len(q) - 1 /\ \A i \in 1..(Len(q) - 1) : Tail(q)[i] = q[i + 1]
  OBVIOUS
<1> PICK t \in Seq(S) : t = Tail(q)
  BY <1>1
<1>2. t \o s \in Seq(S) /\ Len(t \o s) = Len(t) + Len(s) /\ \A i \in 1..Len(t) : (t \o s)[i] = t[i]
  OBVIOUS
<1>3. \A i \in 1..Len(s) : (t \o s)[Len(t) + i] = s[i]
  OBVIOUS
<1>4. Moved(t \o s, q, s)
  BY <1>1, <1>2, <1>3 DEF Moved
<1> QED
  BY <1>1, <1>2, <1>4

(* What a turn does.                                                          *)
NewIds(w, next, max) == IF w.queue[1].depth >= max THEN {} ELSE next[w.queue[1].id] \ w.visited
Placed(S, d) == {[id |-> n, depth |-> d] : n \in S}
NewPlaces(w, next, there, max) == Placed(NewIds(w, next, max) \cap there, w.queue[1].depth + 1)
After(w, new, found, s) ==
  [visited |-> w.visited \cup new, queue |-> Tail(w.queue) \o s, results |-> w.results \cup found]

(* One turn of the walk, spelled out.                                         *)
LEMMA WalkTurnOf ==
  ASSUME NEW next, NEW there, Links(next, there), NEW max, NEW w \in Graph!Walks, w.queue # <<>>,
         IsFiniteSet(Assets)
  PROVE  LET new == NewIds(w, next, max)
             found == NewPlaces(w, next, there, max)
         IN  /\ w.queue[1] \in Graph!Place /\ new \subseteq Assets /\ found \subseteq Graph!Place
             /\ Lists(Graph!Ordered(found), found)
             /\ Graph!Turn(w, next, there, max) = After(w, new, found, Graph!Ordered(found))
<1> DEFINE new == NewIds(w, next, max)
           found == NewPlaces(w, next, there, max)
<1>1. w.queue \in Seq(Graph!Place) /\ w.queue[1] \in Graph!Place /\ Head(w.queue) = w.queue[1]
  BY DEF Graph!Walks
<1>2. w.queue[1].id \in Assets /\ w.queue[1].depth \in Nat
  BY <1>1 DEF Graph!Place
<1>3. new \subseteq Assets
  BY <1>2 DEF NewIds, Links
<1>4. found \subseteq Graph!Place
  BY <1>2, <1>3 DEF NewPlaces, Placed, Graph!Place
<1>5. IsFiniteSet(found)
  <2>1. IsFiniteSet(new \cap there)
    BY <1>3, FS_Subset
  <2> DEFINE f == [n \in new \cap there |-> [id |-> n, depth |-> w.queue[1].depth + 1]]
  <2>2. f \in Surjection(new \cap there, found)
    BY DEF NewPlaces, Placed, Surjection
  <2> HIDE DEF f
  <2> QED
    BY <2>1, <2>2, FS_Surjection
<1>6. Lists(Graph!Ordered(found), found)
  BY <1>5, InSomeOrder
<1>7. Graph!Turn(w, next, there, max) = After(w, new, found, Graph!Ordered(found))
  BY <1>1 DEF Graph!Turn, NewIds, NewPlaces, Placed, After
<1> QED
  BY <1>1, <1>3, <1>4, <1>6, <1>7

(* A turn makes a walk of a walk.                                             *)
LEMMA TurnType ==
  ASSUME NEW next, NEW there, Links(next, there), NEW max, NEW w \in Graph!Walks, IsFiniteSet(Assets)
  PROVE  Graph!Turn(w, next, there, max) \in Graph!Walks
<1>1. CASE w.queue = <<>>
  BY <1>1 DEF Graph!Turn
<1>2. CASE w.queue # <<>>
  <2> PICK new : new = NewIds(w, next, max)
    OBVIOUS
  <2> PICK found : found = NewPlaces(w, next, there, max)
    OBVIOUS
  <2>1. new \subseteq Assets /\ found \subseteq Graph!Place
    BY <1>2, WalkTurnOf
  <2> PICK s : s = Graph!Ordered(found)
    OBVIOUS
  <2>a. Graph!Turn(w, next, there, max) = After(w, new, found, Graph!Ordered(found))
    BY <1>2, WalkTurnOf
  <2>b. Lists(Graph!Ordered(found), found)
    BY <1>2, WalkTurnOf
  <2>2. Lists(s, found) /\ Graph!Turn(w, next, there, max) = After(w, new, found, s)
    BY <2>a, <2>b
  <2>3. s \in Seq(Graph!Place)
    BY <2>1, <2>2, SeqMonotonic DEF Lists
  <2>4. w.visited \subseteq Assets /\ w.queue \in Seq(Graph!Place) /\ w.results \subseteq Graph!Place
    BY DEF Graph!Walks
  <2>5. Tail(w.queue) \o s \in Seq(Graph!Place)
    BY <1>2, <2>3, <2>4, QueueMoves
  <2>6. PICK q : q = Tail(w.queue) \o s
    OBVIOUS
  <2>7. Graph!Turn(w, next, there, max) = [visited |-> w.visited \cup new, queue |-> q, results |-> w.results \cup found]
    BY <2>2, <2>6 DEF After
  <2>8. q \in Seq(Graph!Place) /\ w.visited \cup new \in SUBSET Assets /\ w.results \cup found \in SUBSET Graph!Place
    BY <2>1, <2>4, <2>5, <2>6
  <2>9. [visited |-> w.visited \cup new, queue |-> q, results |-> w.results \cup found] \in Graph!Walks
    BY <2>8 DEF Graph!Walks
  <2> QED
    BY <2>7, <2>9
<1> QED
  BY <1>1, <1>2

(* A search is a run of turns.                                                *)
StartOf(a) == [visited |-> {a}, queue |-> <<[id |-> a, depth |-> 0]>>, results |-> {}]
Turns(w, next, there, a, max) ==
  /\ w \in [Nat -> Graph!Walks] /\ w[0] = StartOf(a)
  /\ \A n \in Nat \ {0} : w[n] = Graph!Turn(w[n - 1], next, there, max)

(* A search is as many turns as there are assets.                             *)
LEMMA SearchTurns ==
  ASSUME NEW next, NEW there, Links(next, there), NEW a \in Assets, NEW max, IsFiniteSet(Assets)
  PROVE  \E w : Turns(w, next, there, a, max) /\ Graph!Search(next, there, a, max) = w[Cardinality(Assets)]
<1> DEFINE turn == [w \in Graph!Walks |-> Graph!Turn(w, next, there, max)]
           step == [p \in Graph!Walks \X Nat |-> turn[p[1]]]
<1>1. StartOf(a) \in Graph!Walks
  <2>1. [id |-> a, depth |-> 0] \in Graph!Place
    BY DEF Graph!Place
  <2> QED
    BY <2>1 DEF StartOf, Graph!Walks
<1>2. \A w \in Graph!Walks : turn[w] = Graph!Turn(w, next, there, max) /\ turn[w] \in Graph!Walks
  BY TurnType
<1>w. PICK w : w = CHOOSE f : f = [n \in Nat |-> IF n = 0 THEN StartOf(a) ELSE turn[f[n - 1]]]
  OBVIOUS
<1>3. Graph!Search(next, there, a, max) = w[Cardinality(Assets)]
  BY <1>w, GraphSets, Zenon DEF Graph!Search, StartOf
<1> HIDE DEF turn
<1>4. \E v : v \in [Nat -> Graph!Walks] /\ v = [n \in Nat |-> IF n = 0 THEN StartOf(a) ELSE turn[v[n - 1]]]
  <2>1. Steps(step, Graph!Walks)
    BY <1>2 DEF Steps
  <2>2. \A v \in Graph!Walks, n \in Nat : step[<<v, n>>] = turn[v]
    OBVIOUS
  <2> HIDE DEF step
  <2>r. PICK v : Runs(v, Graph!Walks, StartOf(a), step)
    BY <1>1, <2>1, Recursion
  <2>3. \A n \in Nat : v[n] = IF n = 0 THEN StartOf(a) ELSE turn[v[n - 1]]
    <3> TAKE n \in Nat
    <3>1. CASE n = 0
      BY <2>r, <3>1 DEF Runs
    <3>2. CASE n # 0
      <4>1. n - 1 \in Nat /\ v[n - 1] \in Graph!Walks /\ v[n] = step[<<v[n - 1], n>>]
        BY <2>r, <3>2 DEF Runs
      <4> QED
        BY <2>2, <3>2, <4>1
    <3> QED
      BY <3>1, <3>2
  <2>4. v = [n \in Nat |-> v[n]]
    BY <2>r DEF Runs
  <2>5. v \in [Nat -> Graph!Walks]
    BY <2>r DEF Runs
  <2> QED
    BY <2>3, <2>4, <2>5
<1>5. w = [n \in Nat |-> IF n = 0 THEN StartOf(a) ELSE turn[w[n - 1]]]
  BY <1>w, <1>4, Zenon
<1>6. w[0] = StartOf(a) /\ \A n \in Nat \ {0} : w[n] = turn[w[n - 1]]
  BY <1>5
<1>7. \A n \in Nat : w[n] \in Graph!Walks
  BY <1>1, <1>2, <1>6, Persists
<1>8. \A n \in Nat \ {0} : w[n] = Graph!Turn(w[n - 1], next, there, max)
  <2> TAKE n \in Nat \ {0}
  <2>1. n - 1 \in Nat
    OBVIOUS
  <2> QED
    BY <1>2, <1>6, <1>7, <2>1
<1>9. w \in [Nat -> Graph!Walks]
  <2>1. w = [n \in Nat |-> w[n]]
    BY <1>5
  <2> QED
    BY <1>7, <2>1
<1> QED
  BY <1>3, <1>6, <1>8, <1>9 DEF Turns

(* What is found so far, what waits in the queue, and what does not any more. *)
StartPlace(a) == [id |-> a, depth |-> 0]
SeenOf(w, a) == w.results \cup {StartPlace(a)}
Queued(w) == {w.queue[i].id : i \in 1..Len(w.queue)}
DoneIds(w, a) == {r.id : r \in SeenOf(w, a)} \ Queued(w)

(* What is found is at its distance, the queue is in the order of the         *)
(* distances, and the neighbours of what was taken from it are seen.          *)
WalkInv(w, N, next, there, a, max) ==
  /\ w \in Graph!Walks /\ a \in w.visited
  /\ \A r \in w.results : /\ r.id \in w.visited /\ r.id \in there /\ r.depth \in 1..max
                          /\ r.id \in N[r.depth] /\ r.id \notin N[r.depth - 1]
  /\ \A b \in w.visited \cap there : \E r \in SeenOf(w, a) : r.id = b
  /\ \A i \in 1..Len(w.queue) : w.queue[i] \in SeenOf(w, a)
  /\ \A i, j \in 1..Len(w.queue) :
       i < j => /\ w.queue[i].id # w.queue[j].id /\ w.queue[i].depth <= w.queue[j].depth
                /\ w.queue[j].depth <= w.queue[i].depth + 1
  /\ \A r \in SeenOf(w, a) : r.depth < max /\ r.id \notin Queued(w) => next[r.id] \subseteq w.visited

(* What a walk has seen is seen at its distance.                              *)
LEMMA Shortest ==
  ASSUME NEW next, NEW there, NEW a \in Assets, NEW max \in Nat, NEW N, Balls(N, next, there, a),
         NEW w, WalkInv(w, N, next, there, a, max), NEW r \in SeenOf(w, a)
  PROVE  /\ r \in Graph!Place /\ r.depth \in Nat /\ r.depth <= max /\ r.id \in w.visited /\ r.id \in Assets
         /\ r.id \in N[r.depth] /\ \A m \in Nat : r.id \in N[m] => r.depth <= m
<1>1. CASE r = StartPlace(a)
  BY <1>1 DEF StartPlace, Balls, WalkInv, Graph!Place
<1>2. CASE r \in w.results
  <2>1. /\ r.depth \in 1..max /\ r.id \in N[r.depth] /\ r.id \notin N[r.depth - 1] /\ r.id \in w.visited
        /\ r \in Graph!Place
    BY <1>2 DEF WalkInv, Graph!Walks
  <2>2. ASSUME NEW m \in Nat, r.id \in N[m], ~ (r.depth <= m) PROVE FALSE
    <3>1. r.depth - 1 \in Nat /\ m <= r.depth - 1
      BY <2>1, <2>2
    <3>2. N[m] \subseteq N[r.depth - 1]
      BY <3>1, BallsGrow
    <3> QED
      BY <2>1, <2>2, <3>2
  <2> QED
    BY <2>1, <2>2 DEF Graph!Place
<1> QED
  BY <1>1, <1>2 DEF SeenOf

(* A walk has seen every asset once.                                          *)
LEMMA FoundOnce ==
  ASSUME NEW next, NEW there, NEW a \in Assets, NEW max \in Nat, NEW N, Balls(N, next, there, a),
         NEW w, WalkInv(w, N, next, there, a, max), NEW r \in SeenOf(w, a), NEW q \in SeenOf(w, a), r.id = q.id
  PROVE  r = q
<1>1. r \in Graph!Place /\ q \in Graph!Place
  BY Shortest
<1>2. r.depth \in Nat /\ q.depth \in Nat /\ r.depth <= q.depth /\ q.depth <= r.depth
  BY Shortest
<1>3. r.depth = q.depth
  BY <1>2
<1> QED
  BY <1>1, <1>3 DEF Graph!Place

(* If nothing nearer than m waits, all that is within m steps is found.       *)
NoneBefore(w, m) == \A i \in 1..Len(w.queue) : w.queue[i].depth >= m
SeenTo(S, w, a, m) == \A b \in S : \E r \in SeenOf(w, a) : r.id = b /\ r.depth <= m

(* The places in the queue are of two distances at most, the nearer first.    *)
LEMMA Levels ==
  ASSUME NEW next, NEW there, NEW a \in Assets, NEW max \in Nat, NEW N, Balls(N, next, there, a),
         NEW w, WalkInv(w, N, next, there, a, max), NEW m \in Nat, m <= max,
         NoneBefore(w, m)
  PROVE  SeenTo(N[m], w, a, m)
<1> DEFINE Ok(k) == \A b \in N[k] : \E r \in SeenOf(w, a) : r.id = b /\ r.depth <= k
           Bad == {k \in Nat : k <= m /\ ~ Ok(k)}
<1>1. SUFFICES ASSUME Bad # {} PROVE FALSE
  BY DEF SeenTo
<1>2. PICK k \in Bad : \A l \in Bad : k <= l
  BY <1>1, LeastNumber
<1>3. k # 0
  <2>1. N[0] = {a} /\ StartPlace(a) \in SeenOf(w, a) /\ StartPlace(a).id = a /\ StartPlace(a).depth = 0
    BY DEF Balls, SeenOf, StartPlace
  <2> QED
    BY <1>2, <2>1
<1>4. k - 1 \in Nat /\ k \in Nat /\ k <= m /\ N[k] = N[k - 1] \cup Around(N[k - 1], next, there)
  BY <1>2, <1>3 DEF Balls
<1>5. Ok(k - 1)
  BY <1>2, <1>4
<1> HIDE DEF Bad
<1>6. ASSUME NEW b \in N[k] PROVE \E r \in SeenOf(w, a) : r.id = b /\ r.depth <= k
  <2>1. CASE b \in N[k - 1]
    <3>1. PICK r \in SeenOf(w, a) : r.id = b /\ r.depth <= k - 1
      BY <1>5, <2>1
    <3>2. r.depth \in Nat
      BY Shortest
    <3> QED
      BY <1>4, <3>1, <3>2
  <2>2. CASE b \in Around(N[k - 1], next, there)
    <3>1. PICK s \in N[k - 1] : b \in next[s] /\ b \in there
      BY <2>2 DEF Around
    <3>2. PICK r \in SeenOf(w, a) : r.id = s /\ r.depth <= k - 1
      BY <1>5, <3>1
    <3>3. r.depth \in Nat
      BY Shortest
    <3>4. r.id \notin Queued(w)
      <4> SUFFICES ASSUME NEW i \in 1..Len(w.queue), r.id = w.queue[i].id PROVE FALSE
        BY DEF Queued
      <4>1. w.queue[i] \in SeenOf(w, a) /\ w.queue[i].depth >= m
        BY DEF WalkInv, NoneBefore
      <4>2. r = w.queue[i]
        BY <4>1, FoundOnce
      <4> QED
        BY <1>4, <3>2, <3>3, <4>1, <4>2
    <3>5. r.depth < max
      BY <1>4, <3>2, <3>3
    <3>6. b \in w.visited \cap there
      BY <3>1, <3>2, <3>4, <3>5 DEF WalkInv
    <3>7. PICK q \in SeenOf(w, a) : q.id = b
      BY <3>6 DEF WalkInv
    <3>8. q.depth <= k
      BY <1>4, <3>7, Shortest
    <3> QED
      BY <3>7, <3>8
  <2> QED
    BY <1>4, <2>1, <2>2
<1> QED
  BY <1>2, <1>6 DEF Bad

(* A turn keeps it, and takes another asset from the queue.                   *)
LEMMA TurnKeeps ==
  ASSUME NEW next, NEW there, Links(next, there), NEW a \in Assets, NEW max \in Nat, IsFiniteSet(Assets),
         NEW N, Balls(N, next, there, a), NEW w, WalkInv(w, N, next, there, a, max), w.queue # <<>>,
         NEW w1, w1 = Graph!Turn(w, next, there, max)
  PROVE  /\ WalkInv(w1, N, next, there, a, max)
         /\ \E x : x \notin DoneIds(w, a) /\ DoneIds(w1, a) = DoneIds(w, a) \cup {x}
<1>n. PICK new : new = NewIds(w, next, max)
  OBVIOUS
<1>f. PICK found : found = NewPlaces(w, next, there, max)
  OBVIOUS
<1>s. PICK s : s = Graph!Ordered(found)
  OBVIOUS
<1>c. PICK c : c = w.queue[1]
  OBVIOUS
<1>0. w \in Graph!Walks
  BY DEF WalkInv
<1>1. c \in Graph!Place /\ new \subseteq Assets /\ found \subseteq Graph!Place /\ Lists(s, found)
  BY <1>0, <1>n, <1>f, <1>s, <1>c, WalkTurnOf
<1>2. w1 = After(w, new, found, s)
  <2>1. Graph!Turn(w, next, there, max) = After(w, new, found, Graph!Ordered(found))
    BY <1>0, <1>n, <1>f, WalkTurnOf
  <2> QED
    BY <1>s, <2>1
<1>q. PICK Q : Q = Tail(w.queue) \o s
  OBVIOUS
<1>3. w1.visited = w.visited \cup new /\ w1.queue = Q /\ w1.results = w.results \cup found
  BY <1>2, <1>q DEF After
<1>l. PICK L : L = Len(w.queue) - 1
  OBVIOUS
<1>4. /\ w.queue \in Seq(Graph!Place) /\ s \in Seq(Graph!Place) /\ L \in Nat /\ Len(w.queue) = L + 1
      /\ Q \in Seq(Graph!Place) /\ Len(s) \in Nat /\ Len(Q) = L + Len(s)
      /\ \A i \in 1..L : Q[i] = w.queue[i + 1]
      /\ \A i \in 1..Len(s) : Q[L + i] = s[i]
  <2>1. w.queue \in Seq(Graph!Place) /\ s \in Seq(Graph!Place)
    BY <1>0, <1>1, SeqMonotonic DEF Graph!Walks, Lists
  <2>2. Len(s) \in Nat
    BY <2>1
  <2>3. Q \in Seq(Graph!Place) /\ Len(w.queue) \in Nat \ {0} /\ Moved(Q, w.queue, s)
    BY <1>q, <2>1, QueueMoves
  <2>4. L \in Nat /\ Len(w.queue) = L + 1
    BY <1>l, <2>3
  <2>5. Len(Q) = L + Len(s) /\ (\A i \in 1..L : Q[i] = w.queue[i + 1]) /\ (\A i \in 1..Len(s) : Q[L + i] = s[i])
    BY <1>l, <2>3 DEF Moved
  <2> QED
    BY <2>1, <2>2, <2>3, <2>4, <2>5
<1>5. \A i \in 1..Len(Q) : i \in 1..L \/ \E j \in 1..Len(s) : i = L + j
  <2> TAKE i \in 1..Len(Q)
  <2>1. ~ (i \in 1..L) => i - L \in 1..Len(s) /\ i = L + (i - L)
    BY <1>4
  <2> QED
    BY <2>1
<1>6. /\ c \in SeenOf(w, a) /\ c.depth \in Nat /\ c.id \in N[c.depth] /\ c.id \in w.visited /\ c.id \in Assets
      /\ c.depth <= max
  <2>1. c \in SeenOf(w, a)
    BY <1>c, <1>4 DEF WalkInv
  <2> QED
    BY <2>1, Shortest
<1>7. \A i \in 1..Len(w.queue) : w.queue[i].depth \in Nat /\ c.depth <= w.queue[i].depth
          /\ w.queue[i].depth <= c.depth + 1
  <2> TAKE i \in 1..Len(w.queue)
  <2>1. w.queue[i] \in SeenOf(w, a)
    BY DEF WalkInv
  <2>2. w.queue[i].depth \in Nat
    BY <2>1, Shortest
  <2>3. i # 1 => 1 \in 1..Len(w.queue) /\ 1 < i
    BY <1>4
  <2>4. i # 1 => w.queue[1].depth <= w.queue[i].depth /\ w.queue[i].depth <= w.queue[1].depth + 1
    BY <2>3 DEF WalkInv
  <2> QED
    BY <1>c, <1>6, <2>2, <2>4
\* All that is as near as the head is seen.
<1>8. N[c.depth] \subseteq w.visited
  <2>1. \A i \in 1..Len(w.queue) : w.queue[i].depth >= c.depth
    BY <1>6, <1>7
  <2> PICK m \in Nat : m = c.depth
    BY <1>6
  <2>2. m <= max /\ NoneBefore(w, m)
    BY <1>6, <2>1 DEF NoneBefore
  <2>3. SeenTo(N[m], w, a, m)
    BY <2>2, Levels
  <2>4. \A r \in SeenOf(w, a) : r.id \in w.visited
    BY Shortest
  <2> QED
    BY <2>3, <2>4 DEF SeenTo
<1>9. \A n \in new : n \notin w.visited /\ n \in next[c.id] /\ c.depth < max
  BY <1>n, <1>c, <1>6 DEF NewIds
<1>10. c.depth < max => next[c.id] \subseteq w.visited \cup new
  BY <1>n, <1>c, <1>6 DEF NewIds
<1>11. \A r \in found : r.id \in new /\ r.id \in there /\ r.depth = c.depth + 1
  <2>1. found = Placed(new \cap there, c.depth + 1)
    BY <1>n, <1>f, <1>c DEF NewPlaces
  <2> QED
    BY <2>1 DEF Placed
<1>12. \A n \in new \cap there : \E r \in found : r.id = n
  <2>1. found = Placed(new \cap there, c.depth + 1)
    BY <1>n, <1>f, <1>c DEF NewPlaces
  <2> TAKE n \in new \cap there
  <2>2. [id |-> n, depth |-> c.depth + 1] \in found
    BY <2>1 DEF Placed
  <2> QED
    BY <2>2
<1>13. \A i \in 1..Len(s) : s[i] \in found
  BY <1>1 DEF Lists
<1>14. SeenOf(w1, a) = SeenOf(w, a) \cup found
  BY <1>3 DEF SeenOf
\* The ids of the new queue.
<1>15. Queued(w1) = {w.queue[i].id : i \in 2..(L + 1)} \cup {r.id : r \in found}
  <2>1. ASSUME NEW i \in 1..Len(Q) PROVE Q[i].id \in {w.queue[j].id : j \in 2..(L + 1)} \cup {r.id : r \in found}
    <3>1. CASE i \in 1..L
      <4>1. i + 1 \in 2..(L + 1) /\ Q[i] = w.queue[i + 1]
        BY <1>4, <3>1
      <4> QED
        BY <4>1
    <3>2. CASE \E j \in 1..Len(s) : i = L + j
      BY <1>4, <1>13, <3>2
    <3> QED
      BY <1>5, <3>1, <3>2
  <2>2. ASSUME NEW i \in 2..(L + 1) PROVE \E j \in 1..Len(Q) : Q[j].id = w.queue[i].id
    <3>1. i - 1 \in 1..L /\ i - 1 \in 1..Len(Q) /\ (i - 1) + 1 = i
      BY <1>4
    <3> QED
      BY <1>4, <3>1
  <2>3. ASSUME NEW r \in found PROVE \E j \in 1..Len(Q) : Q[j].id = r.id
    <3>1. PICK i \in 1..Len(s) : s[i] = r
      BY <1>1 DEF Lists
    <3>2. L + i \in 1..Len(Q) /\ Q[L + i] = r
      BY <1>4, <3>1
    <3> QED
      BY <3>2
  <2> QED
    BY <1>3, <2>1, <2>2, <2>3 DEF Queued
<1>16. Queued(w) = {w.queue[i].id : i \in 2..(L + 1)} \cup {c.id}
  <2>1. 1..Len(w.queue) = (2..(L + 1)) \cup {1}
    BY <1>4
  <2> QED
    BY <1>c, <2>1 DEF Queued
<1>17. c.id \notin {w.queue[i].id : i \in 2..(L + 1)}
  <2> SUFFICES ASSUME NEW i \in 2..(L + 1) PROVE c.id # w.queue[i].id
    OBVIOUS
  <2>1. 1 \in 1..Len(w.queue) /\ i \in 1..Len(w.queue) /\ 1 < i
    BY <1>4
  <2> QED
    BY <1>c, <2>1 DEF WalkInv
<1>18. WalkInv(w1, N, next, there, a, max)
  <2>1. w1 \in Graph!Walks /\ a \in w1.visited
    BY <1>0, <1>3, TurnType DEF WalkInv
  <2>2. ASSUME NEW r \in w1.results
        PROVE  /\ r.id \in w1.visited /\ r.id \in there /\ r.depth \in 1..max
               /\ r.id \in N[r.depth] /\ r.id \notin N[r.depth - 1]
    <3>1. CASE r \in w.results
      BY <1>3, <3>1 DEF WalkInv
    <3>2. CASE r \in found
      <4>1. r.id \in new /\ r.id \in there /\ r.depth = c.depth + 1 /\ c.depth < max /\ r.id \in next[c.id]
            /\ r.id \notin w.visited
        BY <1>9, <1>11, <3>2
      <4>2. r.depth \in 1..max /\ r.depth - 1 = c.depth
        BY <1>6, <4>1
      <4>3. N[r.depth] = N[c.depth] \cup Around(N[c.depth], next, there)
        BY <1>6, <4>1, BallStep
      <4>4. r.id \in N[r.depth]
        BY <1>6, <4>1, <4>3 DEF Around
      <4>5. r.id \notin N[r.depth - 1]
        BY <1>8, <4>1, <4>2
      <4> QED
        BY <1>3, <4>1, <4>2, <4>4, <4>5
    <3> QED
      BY <1>3, <3>1, <3>2
  <2>3. \A b \in w1.visited \cap there : \E r \in SeenOf(w1, a) : r.id = b
    BY <1>3, <1>12, <1>14 DEF WalkInv
  <2>4. ASSUME NEW i \in 1..Len(Q) PROVE Q[i] \in SeenOf(w1, a)
    <3>1. CASE i \in 1..L
      <4>1. Q[i] = w.queue[i + 1] /\ i + 1 \in 1..Len(w.queue)
        BY <1>4, <3>1
      <4> QED
        BY <1>14, <4>1 DEF WalkInv
    <3>2. CASE \E j \in 1..Len(s) : i = L + j
      BY <1>4, <1>13, <1>14, <3>2
    <3> QED
      BY <1>5, <3>1, <3>2
  <2>5. ASSUME NEW i \in 1..Len(Q), NEW j \in 1..Len(Q), i < j
        PROVE  Q[i].id # Q[j].id /\ Q[i].depth <= Q[j].depth /\ Q[j].depth <= Q[i].depth + 1
    <3>1. CASE j \in 1..L
      <4>1. i \in 1..L
        BY <1>4, <2>5, <3>1
      <4>2. /\ i + 1 \in 1..Len(w.queue) /\ Q[i] = w.queue[i + 1]
            /\ j + 1 \in 1..Len(w.queue) /\ Q[j] = w.queue[j + 1]
        BY <1>4, <3>1, <4>1
      <4>3. i + 1 < j + 1
        BY <2>5
      <4> QED
        BY <4>2, <4>3 DEF WalkInv
    <3>2. ASSUME NEW m \in 1..Len(s), j = L + m
          PROVE  Q[i].id # Q[j].id /\ Q[i].depth <= Q[j].depth /\ Q[j].depth <= Q[i].depth + 1
      <4>1. Q[j] = s[m] /\ s[m] \in found
        BY <1>4, <1>13, <3>2
      <4>2. Q[j].id \in new /\ Q[j].depth = c.depth + 1
        BY <1>11, <4>1
      <4>3. CASE i \in 1..L
        <5>1. Q[i] = w.queue[i + 1] /\ i + 1 \in 1..Len(w.queue)
          BY <1>4, <4>3
        <5>2. Q[i] \in SeenOf(w, a)
          BY <5>1 DEF WalkInv
        <5>3. Q[i].id \in w.visited
          BY <5>2, Shortest
        <5>4. Q[i].id # Q[j].id
          BY <1>9, <4>2, <5>3
        <5>5. Q[i].depth \in Nat /\ c.depth <= Q[i].depth /\ Q[i].depth <= c.depth + 1
          BY <1>7, <5>1
        <5> QED
          BY <1>6, <4>2, <5>4, <5>5
      <4>4. ASSUME NEW l \in 1..Len(s), i = L + l PROVE Q[i].id # Q[j].id /\ Q[i].depth = Q[j].depth
        <5>1. Q[i] = s[l] /\ s[l] \in found /\ l # m
          BY <1>4, <1>13, <2>5, <3>2, <4>4
        <5>2. Q[i] # Q[j] /\ Q[i].depth = Q[j].depth /\ Q[i] \in Graph!Place /\ Q[j] \in Graph!Place
          BY <1>1, <1>11, <4>1, <5>1 DEF Lists
        <5> QED
          BY <5>2 DEF Graph!Place
      <4> QED
        BY <1>5, <1>6, <4>2, <4>3, <4>4
    <3> QED
      BY <1>5, <3>1, <3>2
  <2>6. ASSUME NEW r \in SeenOf(w1, a), r.depth < max, r.id \notin Queued(w1) PROVE next[r.id] \subseteq w1.visited
    <3>1. r \notin found /\ r \in SeenOf(w, a)
      BY <1>14, <1>15, <2>6
    <3>2. CASE r.id \notin Queued(w)
      BY <1>3, <2>6, <3>1, <3>2 DEF WalkInv
    <3>3. CASE r.id = c.id
      <4>1. r = c
        BY <1>6, <3>1, <3>3, FoundOnce
      <4> QED
        BY <1>3, <1>10, <2>6, <4>1
    <3> QED
      BY <1>15, <1>16, <2>6, <3>2, <3>3
  <2> QED
    BY <1>3, <2>1, <2>2, <2>3, <2>4, <2>5, <2>6 DEF WalkInv
<1>19. c.id \notin DoneIds(w, a) /\ DoneIds(w1, a) = DoneIds(w, a) \cup {c.id}
  <2>1. c.id \notin DoneIds(w, a)
    BY <1>16 DEF DoneIds
  <2>2. \A r \in SeenOf(w, a) : r.id \in w.visited
    BY Shortest
  <2>3. {r.id : r \in SeenOf(w1, a)} = {r.id : r \in SeenOf(w, a)} \cup {r.id : r \in found}
    BY <1>14
  <2>4. \A r \in found : r.id \notin w.visited
    BY <1>9, <1>11
  <2> DEFINE Seen == {r.id : r \in SeenOf(w, a)}
             More == {r.id : r \in found}
             Rest == {w.queue[i].id : i \in 2..(L + 1)}
  <2>6. DoneIds(w, a) = Seen \ (Rest \cup {c.id}) /\ DoneIds(w1, a) = (Seen \cup More) \ (Rest \cup More)
    BY <1>15, <1>16, <2>3 DEF DoneIds
  <2>7. Seen \cap More = {} /\ c.id \in Seen /\ c.id \notin Rest
    BY <1>6, <1>17, <2>2, <2>4
  <2> HIDE DEF Seen, More, Rest
  <2> QED
    BY <2>1, <2>6, <2>7
<1> QED
  BY <1>18, <1>19

(* What a walk finds: the assets at each distance up to max.                  *)
Rings(N, max) == UNION {{[id |-> b, depth |-> n] : b \in N[n] \ N[n - 1]} : n \in 1..max}

(* The walk holds to this at its start.                                       *)
LEMMA WalkStarts ==
  ASSUME NEW next, NEW there, NEW a \in Assets, NEW max, NEW N
  PROVE  WalkInv(StartOf(a), N, next, there, a, max) /\ DoneIds(StartOf(a), a) = {}
<1> PICK w : w = StartOf(a)
  OBVIOUS
<1>1. StartPlace(a) \in Graph!Place /\ StartPlace(a).id = a
  BY DEF StartPlace, Graph!Place
<1>2. w.visited = {a} /\ w.queue = <<StartPlace(a)>> /\ w.results = {}
  BY DEF StartOf, StartPlace
<1>3. Len(w.queue) = 1 /\ w.queue[1] = StartPlace(a)
  BY <1>2
<1>4. SeenOf(w, a) = {StartPlace(a)} /\ Queued(w) = {a}
  BY <1>1, <1>2, <1>3 DEF SeenOf, Queued
<1>5. w \in Graph!Walks
  <2>1. w = [visited |-> {a}, queue |-> <<StartPlace(a)>>, results |-> {}]
    BY DEF StartOf, StartPlace
  <2>2. <<StartPlace(a)>> \in Seq(Graph!Place)
    BY <1>1
  <2> QED
    BY <2>1, <2>2 DEF Graph!Walks
<1>6. DoneIds(w, a) = {}
  BY <1>1, <1>4 DEF DoneIds
<1>7. WalkInv(w, N, next, there, a, max)
  BY <1>1, <1>2, <1>3, <1>4, <1>5 DEF WalkInv
<1> QED
  BY <1>6, <1>7

(* After n turns the queue is empty, or n assets have been taken from it.     *)
Ahead(w, a, n) == w.queue = <<>> \/ (IsFiniteSet(DoneIds(w, a)) /\ Cardinality(DoneIds(w, a)) = n)

(* It holds to it ever after, with one asset done more after every turn.      *)
LEMMA WalkHolds ==
  ASSUME NEW next, NEW there, Links(next, there), NEW a \in Assets, NEW max \in Nat, IsFiniteSet(Assets),
         NEW N, Balls(N, next, there, a), NEW w, Turns(w, next, there, a, max), NEW n \in Nat
  PROVE  WalkInv(w[n], N, next, there, a, max) /\ Ahead(w[n], a, n)
<1> DEFINE Ok(k) == WalkInv(w[k], N, next, there, a, max) /\ Ahead(w[k], a, k)
           Bad == {k \in Nat : ~ Ok(k)}
<1>1. SUFFICES ASSUME Bad # {} PROVE FALSE
  OBVIOUS
<1>2. PICK k \in Bad : \A l \in Bad : k <= l
  BY <1>1, LeastNumber
<1>3. k # 0
  <2>1. w[0] = StartOf(a)
    BY DEF Turns
  <2>2. Ok(0)
    BY <2>1, WalkStarts, FS_EmptySet DEF Ahead
  <2> QED
    BY <1>2, <2>2
<1>4. k - 1 \in Nat /\ k \in Nat \ {0} /\ (k - 1) + 1 = k
  BY <1>2, <1>3
<1>5. Ok(k - 1)
  BY <1>2, <1>4
<1>6. w[k] = Graph!Turn(w[k - 1], next, there, max)
  BY <1>4 DEF Turns
<1> HIDE DEF Bad
<1>7. CASE w[k - 1].queue = <<>>
  <2>1. w[k] = w[k - 1]
    BY <1>6, <1>7 DEF Graph!Turn
  <2> QED
    BY <1>2, <1>5, <1>7, <2>1 DEF Bad, Ahead
<1>8. CASE w[k - 1].queue # <<>>
  <2>1. WalkInv(w[k], N, next, there, a, max) /\ \E x : x \notin DoneIds(w[k - 1], a)
            /\ DoneIds(w[k], a) = DoneIds(w[k - 1], a) \cup {x}
    BY <1>5, <1>6, <1>8, TurnKeeps
  <2>2. IsFiniteSet(DoneIds(w[k - 1], a)) /\ Cardinality(DoneIds(w[k - 1], a)) = k - 1
    BY <1>5, <1>8 DEF Ahead
  <2>3. PICK x : x \notin DoneIds(w[k - 1], a) /\ DoneIds(w[k], a) = DoneIds(w[k - 1], a) \cup {x}
    BY <2>1
  <2>4. IsFiniteSet(DoneIds(w[k], a)) /\ Cardinality(DoneIds(w[k], a)) = (k - 1) + 1
    BY <2>2, <2>3, FS_AddElement
  <2> QED
    BY <1>2, <1>4, <2>1, <2>4 DEF Bad, Ahead
<1> QED
  BY <1>7, <1>8

(* A search ends, and finds every asset at its distance.                      *)
LEMMA SearchFinds ==
  ASSUME NEW next, NEW there, Links(next, there), NEW a \in Assets, NEW max \in Nat, IsFiniteSet(Assets),
         NEW N, Balls(N, next, there, a)
  PROVE  /\ Graph!Search(next, there, a, max).queue = <<>>
         /\ Graph!Search(next, there, a, max).results = Rings(N, max)
<1>1. PICK turns : Turns(turns, next, there, a, max) /\ Graph!Search(next, there, a, max) = turns[Cardinality(Assets)]
  BY SearchTurns
<1>2. Cardinality(Assets) \in Nat
  BY FS_CardinalityType
<1>w. PICK w : w = turns[Cardinality(Assets)]
  OBVIOUS
<1>3. WalkInv(w, N, next, there, a, max) /\ Ahead(w, a, Cardinality(Assets))
  BY <1>1, <1>2, <1>w, WalkHolds
<1>s. \A r \in SeenOf(w, a) : r.id \in Assets /\ r \in Graph!Place /\ r.depth \in Nat
  BY <1>3, Shortest
<1>4. w.queue = <<>>
  <2> SUFFICES ASSUME w.queue # <<>> PROVE FALSE
    OBVIOUS
  <2>1. w.queue \in Seq(Graph!Place)
    BY <1>3 DEF WalkInv, Graph!Walks
  <2>2. 1 \in 1..Len(w.queue)
    BY <2>1
  <2>3. w.queue[1].id \in Queued(w) /\ w.queue[1] \in SeenOf(w, a)
    BY <1>3, <2>2 DEF Queued, WalkInv
  <2> PICK x : x = w.queue[1].id
    OBVIOUS
  <2>4. x \in Assets /\ x \notin DoneIds(w, a)
    BY <1>s, <2>3 DEF DoneIds
  <2>5. DoneIds(w, a) \cup {x} \subseteq Assets
    BY <1>s, <2>4 DEF DoneIds
  <2>6. IsFiniteSet(DoneIds(w, a)) /\ Cardinality(DoneIds(w, a)) = Cardinality(Assets)
    BY <1>3 DEF Ahead
  <2>7. Cardinality(DoneIds(w, a) \cup {x}) = Cardinality(Assets) + 1
    BY <2>4, <2>6, FS_AddElement
  <2>8. Cardinality(DoneIds(w, a) \cup {x}) <= Cardinality(Assets)
    BY <2>5, FS_Subset
  <2> QED
    BY <1>2, <2>7, <2>8
<1>5. w.results \subseteq Rings(N, max)
  <2> SUFFICES ASSUME NEW r \in w.results PROVE r \in Rings(N, max)
    OBVIOUS
  <2>1. r \in SeenOf(w, a)
    BY DEF SeenOf
  <2>2. r.depth \in 1..max /\ r.id \in N[r.depth] \ N[r.depth - 1] /\ r = [id |-> r.id, depth |-> r.depth]
    BY <1>3, <1>s, <2>1 DEF WalkInv, Graph!Place
  <2> QED
    BY <2>2 DEF Rings
<1>6. Rings(N, max) \subseteq w.results
  <2> SUFFICES ASSUME NEW n \in 1..max, NEW b \in N[n] \ N[n - 1] PROVE [id |-> b, depth |-> n] \in w.results
    BY DEF Rings
  <2>1. n \in Nat /\ n - 1 \in Nat /\ n <= max /\ 0 <= n - 1
    OBVIOUS
  <2>2. SeenTo(N[n], w, a, n)
    <3>1. NoneBefore(w, n)
      BY <1>4 DEF NoneBefore
    <3> QED
      BY <1>3, <2>1, <3>1, Levels
  <2>3. PICK r \in SeenOf(w, a) : r.id = b /\ r.depth <= n
    BY <2>2 DEF SeenTo
  <2>4. r \in Graph!Place /\ r.depth \in Nat /\ r.id \in N[r.depth]
    BY <1>3, Shortest
  <2>5. r.depth = n
    <3> SUFFICES ASSUME r.depth # n PROVE FALSE
      OBVIOUS
    <3>1. r.depth <= n - 1
      BY <2>1, <2>3, <2>4
    <3>2. N[r.depth] \subseteq N[n - 1]
      BY <2>1, <2>4, <3>1, BallsGrow
    <3> QED
      BY <2>3, <2>4, <3>2
  <2>6. r # StartPlace(a)
    BY <2>1, <2>5 DEF StartPlace
  <2>7. r \in w.results
    BY <2>6 DEF SeenOf
  <2> QED
    BY <2>3, <2>4, <2>5, <2>7 DEF Graph!Place
<1> QED
  BY <1>1, <1>w, <1>4, <1>5, <1>6

(* The nodes and the edges have their types, and the copies of an edge that   *)
(* its source and its target keep are there together.                         *)
GraphIInv ==
  /\ nodes \in [Assets -> Kinds \cup {Absent}]
  /\ outEdges \in [Assets -> SUBSET Graph!Edge] /\ inEdges \in [Assets -> SUBSET Graph!Edge]
  /\ \A a \in Assets : (\A e \in outEdges[a] : e.source = a) /\ (\A e \in inEdges[a] : e.target = a)
  /\ \A e \in Graph!Edge : e \in outEdges[e.source] <=> e \in inEdges[e.target]

(* The graph is so at the start,                                              *)
LEMMA GraphInit == ASSUME Graph!Init PROVE GraphIInv
  BY DEF Graph!Init, GraphIInv, Graph!Edge

(* The ends of an edge.                                                       *)
LEMMA EdgeEnds == ASSUME NEW e \in Graph!Edge PROVE e.source \in Assets /\ e.target \in Assets
  BY DEF Graph!Edge

(* and stays so.                                                              *)
LEMMA GraphNext == ASSUME GraphIInv, Graph!Next PROVE GraphIInv'
<1>0. /\ nodes \in [Assets -> Kinds \cup {Absent}]
      /\ outEdges \in [Assets -> SUBSET Graph!Edge] /\ inEdges \in [Assets -> SUBSET Graph!Edge]
  BY DEF GraphIInv
<1>a. \A b \in Assets : (\A f \in outEdges[b] : f.source = b) /\ (\A f \in inEdges[b] : f.target = b)
  BY DEF GraphIInv
<1>b. \A f \in Graph!Edge : f \in outEdges[f.source] <=> f \in inEdges[f.target]
  BY DEF GraphIInv
<1>c. Graph!Edge' = Graph!Edge
  BY DEF Graph!Edge
<1>1. ASSUME NEW a \in Assets, NEW kind \in Kinds, Graph!AddNode(a, kind) PROVE GraphIInv'
  BY <1>0, <1>1 DEF Graph!AddNode, GraphIInv, Graph!Edge
<1>2. ASSUME NEW e \in Graph!Edge, Graph!AddEdge(e) PROVE GraphIInv'
  <2>1. e.source \in Assets /\ e.target \in Assets
    BY EdgeEnds
  <2>2. /\ outEdges' = [outEdges EXCEPT ![e.source] = @ \cup {e}] /\ inEdges' = [inEdges EXCEPT ![e.target] = @ \cup {e}]
        /\ nodes' = nodes
    BY <1>2 DEF Graph!AddEdge
  <2>3. outEdges' \in [Assets -> SUBSET Graph!Edge] /\ inEdges' \in [Assets -> SUBSET Graph!Edge]
    BY <1>0, <2>1, <2>2
  <2>4. \A b \in Assets : /\ outEdges'[b] = IF b = e.source THEN outEdges[b] \cup {e} ELSE outEdges[b]
                          /\ inEdges'[b] = IF b = e.target THEN inEdges[b] \cup {e} ELSE inEdges[b]
    BY <1>0, <2>1, <2>2
  <2>5. ASSUME NEW b \in Assets PROVE (\A f \in outEdges'[b] : f.source = b) /\ (\A f \in inEdges'[b] : f.target = b)
    <3>1. \A f \in outEdges'[b] : f \in outEdges[b] \/ (f = e /\ b = e.source)
      BY <2>4
    <3>2. \A f \in inEdges'[b] : f \in inEdges[b] \/ (f = e /\ b = e.target)
      BY <2>4
    <3> QED
      BY <1>a, <3>1, <3>2
  <2>6. ASSUME NEW f \in Graph!Edge PROVE f \in outEdges'[f.source] <=> f \in inEdges'[f.target]
    <3>1. f.source \in Assets /\ f.target \in Assets
      BY EdgeEnds
    <3>2. f \in outEdges'[f.source] <=> f \in outEdges[f.source] \/ f = e
      BY <2>4, <3>1
    <3>3. f \in inEdges'[f.target] <=> f \in inEdges[f.target] \/ f = e
      BY <2>4, <3>1
    <3> QED
      BY <1>b, <3>2, <3>3
  <2>7. nodes' \in [Assets -> Kinds \cup {Absent}]
    BY <1>0, <2>2
  <2> QED
    BY <1>c, <2>3, <2>5, <2>6, <2>7 DEF GraphIInv
<1>3. ASSUME NEW a \in Assets, Graph!RemoveNode(a) PROVE GraphIInv'
  <2>2. /\ nodes' = [nodes EXCEPT ![a] = Absent]
        /\ outEdges' = [b \in Assets |-> IF b = a THEN {} ELSE {f \in outEdges[b] : f.target # a}]
        /\ inEdges' = [b \in Assets |-> IF b = a THEN {} ELSE {f \in inEdges[b] : f.source # a}]
    BY <1>3 DEF Graph!RemoveNode
  <2>3. outEdges' \in [Assets -> SUBSET Graph!Edge] /\ inEdges' \in [Assets -> SUBSET Graph!Edge]
    BY <1>0, <2>2
  <2>4. \A b \in Assets : /\ outEdges'[b] = IF b = a THEN {} ELSE {f \in outEdges[b] : f.target # a}
                          /\ inEdges'[b] = IF b = a THEN {} ELSE {f \in inEdges[b] : f.source # a}
    BY <2>2
  <2>5. ASSUME NEW b \in Assets, NEW f
        PROVE  /\ f \in outEdges'[b] <=> b # a /\ f \in outEdges[b] /\ f.target # a
               /\ f \in inEdges'[b] <=> b # a /\ f \in inEdges[b] /\ f.source # a
    <3>1. CASE b = a
      BY <2>4, <3>1
    <3>2. CASE b # a
      <4>1. outEdges'[b] = {g \in outEdges[b] : g.target # a} /\ inEdges'[b] = {g \in inEdges[b] : g.source # a}
        BY <2>4, <3>2
      <4> QED
        BY <3>2, <4>1
    <3> QED
      BY <3>1, <3>2
  <2>6. ASSUME NEW f \in Graph!Edge PROVE f \in outEdges'[f.source] <=> f \in inEdges'[f.target]
    <3>1. f.source \in Assets /\ f.target \in Assets
      BY EdgeEnds
    <3>2. f \in outEdges'[f.source] <=> f \in outEdges[f.source] /\ f.source # a /\ f.target # a
      BY <2>5, <3>1
    <3>3. f \in inEdges'[f.target] <=> f \in inEdges[f.target] /\ f.source # a /\ f.target # a
      BY <2>5, <3>1
    <3> QED
      BY <1>b, <3>2, <3>3
  <2>7. nodes' \in [Assets -> Kinds \cup {Absent}]
    BY <1>0, <2>2
  <2>8. \A b \in Assets : (\A f \in outEdges'[b] : f.source = b) /\ (\A f \in inEdges'[b] : f.target = b)
    BY <1>a, <2>5
  <2> QED
    BY <1>c, <2>3, <2>8, <2>6, <2>7 DEF GraphIInv
<1> QED
  BY <1>1, <1>2, <1>3 DEF Graph!Next

(* The neighbours in one direction, and back.                                 *)
LEMMA Neighbours ==
  ASSUME GraphIInv
  PROVE  /\ Links(Graph!Adjacent("downstream"), Graph!Present) /\ Links(Graph!Adjacent("upstream"), Graph!Present)
         /\ \A x, y \in Assets : /\ y \in Graph!Adjacent("downstream")[x] <=> \E e \in inEdges[y] : e.source = x
                                     /\ e.columns = Graph!Table
                                 /\ y \in Graph!Adjacent("downstream")[x] <=> x \in Graph!Adjacent("upstream")[y]
<1>1. \A x \in Assets : /\ outEdges[x] \subseteq Graph!Edge /\ inEdges[x] \subseteq Graph!Edge
                        /\ Graph!Adjacent("downstream")[x] = {e.target : e \in {f \in outEdges[x] :
                            f.columns = Graph!Table}}
                        /\ Graph!Adjacent("upstream")[x] = {e.source : e \in {f \in inEdges[x] : f.columns = Graph!Table}}
  BY DEF GraphIInv, Graph!Adjacent, Graph!End, Graph!EdgesOf
<1>2. \A x \in Assets : Graph!Adjacent("downstream")[x] \subseteq Assets /\ Graph!Adjacent("upstream")[x] \subseteq Assets
  <2> SUFFICES ASSUME NEW x \in Assets
               PROVE  Graph!Adjacent("downstream")[x] \subseteq Assets /\ Graph!Adjacent("upstream")[x] \subseteq Assets
    OBVIOUS
  <2>1. \A e \in outEdges[x] \cup inEdges[x] : e.source \in Assets /\ e.target \in Assets
    BY <1>1, EdgeEnds
  <2> QED
    BY <1>1, <2>1
<1>3. Links(Graph!Adjacent("downstream"), Graph!Present) /\ Links(Graph!Adjacent("upstream"), Graph!Present)
  <2>1. \A dir \in {"downstream", "upstream"} : Graph!Adjacent(dir) = [a \in Assets |-> Graph!Adjacent(dir)[a]]
    BY DEF Graph!Adjacent
  <2> QED
    BY <1>2, <2>1 DEF Links, Graph!Present
<1>4. ASSUME NEW x \in Assets, NEW y \in Assets
      PROVE  y \in Graph!Adjacent("downstream")[x] <=> \E e \in inEdges[y] : e.source = x /\ e.columns = Graph!Table
  <2>1. ASSUME NEW e \in outEdges[x], e.columns = Graph!Table, e.target = y PROVE e \in inEdges[y] /\ e.source = x
    BY <1>1, <2>1 DEF GraphIInv
  <2>2. ASSUME NEW e \in inEdges[y], e.columns = Graph!Table, e.source = x PROVE e \in outEdges[x] /\ e.target = y
    BY <1>1, <2>2 DEF GraphIInv
  <2> QED
    BY <1>1, <2>1, <2>2
<1>5. ASSUME NEW x \in Assets, NEW y \in Assets
      PROVE  x \in Graph!Adjacent("upstream")[y] <=> \E e \in inEdges[y] : e.source = x /\ e.columns = Graph!Table
  BY <1>1
<1> QED
  BY <1>3, <1>4, <1>5

(* The distances the property counts are those of the balls.                  *)
Round(S) == {b \in Assets : /\ nodes[b] # Absent
                            /\ \E s \in S, e \in inEdges[b] : e.source = s /\ e.columns = Graph!Table}
NearOf(a) == CHOOSE f : f = [n \in Nat |-> IF n = 0 THEN {a} ELSE f[n - 1] \cup Round(f[n - 1])]

(* The property counts the distances of the balls.                            *)
LEMMA NearIsBalls ==
  ASSUME GraphIInv, NEW a \in Assets
  PROVE  Balls(NearOf(a), Graph!Adjacent("downstream"), Graph!Present, a)
<1> DEFINE next == Graph!Adjacent("downstream")
<1>1. \A S \in SUBSET Assets : Round(S) = Around(S, next, Graph!Present) /\ Round(S) \subseteq Assets
  BY Neighbours DEF Around, Graph!Present, Round
<1>2. PICK N : Balls(N, next, Graph!Present, a)
  BY Neighbours, BallsExist
<1> HIDE DEF next
<1>3. N = [n \in Nat |-> IF n = 0 THEN {a} ELSE N[n - 1] \cup Round(N[n - 1])]
  <2>1. ASSUME NEW n \in Nat PROVE N[n] = IF n = 0 THEN {a} ELSE N[n - 1] \cup Round(N[n - 1])
    <3>1. CASE n = 0
      BY <1>2, <3>1 DEF Balls
    <3>2. CASE n # 0
      <4>1. N[n - 1] \in SUBSET Assets /\ N[n] = N[n - 1] \cup Around(N[n - 1], next, Graph!Present)
        BY <1>2, <3>2 DEF Balls
      <4> QED
        BY <1>1, <3>2, <4>1
    <3> QED
      BY <3>1, <3>2
  <2>2. N = [n \in Nat |-> N[n]]
    BY <1>2 DEF Balls
  <2> QED
    BY <2>1, <2>2
<1>m. PICK M : M = CHOOSE f : f = [n \in Nat |-> IF n = 0 THEN {a} ELSE f[n - 1] \cup Round(f[n - 1])]
  OBVIOUS
<1>4. M = [n \in Nat |-> IF n = 0 THEN {a} ELSE M[n - 1] \cup Round(M[n - 1])]
  BY <1>3, <1>m, Zenon
<1>5. M[0] = {a} /\ (\A n \in Nat \ {0} : M[n] = M[n - 1] \cup Round(M[n - 1])) /\ M = [n \in Nat |-> M[n]]
  BY <1>4
<1>6. \A n \in Nat : M[n] \in SUBSET Assets
  <2>1. \A n \in Nat \ {0} : M[n - 1] \in SUBSET Assets => M[n] \in SUBSET Assets
    <3> SUFFICES ASSUME NEW n \in Nat \ {0}, M[n - 1] \in SUBSET Assets PROVE M[n] \in SUBSET Assets
      OBVIOUS
    <3>1. M[n] = M[n - 1] \cup Round(M[n - 1])
      BY <1>5
    <3> QED
      BY <1>1, <3>1
  <2>2. M[0] \in SUBSET Assets
    BY <1>5
  <2> QED
    BY <2>1, <2>2, Persists
<1>7. \A n \in Nat \ {0} : M[n] = M[n - 1] \cup Around(M[n - 1], next, Graph!Present)
  <2> TAKE n \in Nat \ {0}
  <2>1. M[n - 1] \in SUBSET Assets /\ M[n] = M[n - 1] \cup Round(M[n - 1])
    BY <1>5, <1>6
  <2> QED
    BY <1>1, <2>1
<1>8. M \in [Nat -> SUBSET Assets]
  BY <1>5, <1>6
<1>9. Balls(M, next, Graph!Present, a)
  BY <1>5, <1>7, <1>8 DEF Balls
<1> QED
  BY <1>m, <1>9 DEF NearOf, next

(* What the catalog's walk finds, downstream and upstream.                    *)
LEMMA BfsFinds ==
  ASSUME Graph!GraphAssumption, GraphIInv, NEW dir \in {"downstream", "upstream"}, NEW a \in Assets, NEW max \in Nat,
         NEW N, Balls(N, Graph!Adjacent(dir), Graph!Present, a)
  PROVE  /\ Graph!Search(Graph!Adjacent(dir), Graph!Present, a, max).queue = <<>>
         /\ Graph!Bfs(a, max, dir) = Rings(N, max)
<1>1. Links(Graph!Adjacent(dir), Graph!Present)
  BY Neighbours
<1>2. IsFiniteSet(Assets)
  BY GraphSets DEF Graph!GraphAssumption
<1> QED
  BY <1>1, <1>2, SearchFinds DEF Graph!Bfs

WalksOf(a, N, max) ==
  /\ Graph!Search(Graph!Adjacent("downstream"), Graph!Present, a, max).queue = <<>>
  /\ Graph!Bfs(a, max, "downstream") = UNION {{[id |-> b, depth |-> n] : b \in N[n] \ N[n - 1]} : n \in 1..max}
  /\ nodes[a] # Absent => \A r \in Graph!Bfs(a, max, "downstream") :
      [id |-> a, depth |-> r.depth] \in Graph!Bfs(r.id, max, "upstream")

(* A walk finds what is near, downstream, and is found by it, upstream.       *)
LEMMA WalksCorrect ==
  ASSUME Graph!GraphAssumption, GraphIInv, NEW a \in Assets, NEW max \in Nat
  PROVE  WalksOf(a, NearOf(a), max)
<1> DEFINE down == Graph!Adjacent("downstream")
           up == Graph!Adjacent("upstream")
<1>1. Links(down, Graph!Present) /\ Links(up, Graph!Present) /\ \A x, y \in Assets : y \in down[x] <=> x \in up[y]
  BY Neighbours
<1> DEFINE N == [x \in Assets |-> NearOf(x)]
<1>2. \A x \in Assets : Balls(N[x], down, Graph!Present, x)
  BY NearIsBalls
<1>3. \A x \in Assets : \E L : Balls(L, up, Graph!Present, x)
  BY <1>1, BallsExist
<1> DEFINE M == [x \in Assets |-> CHOOSE L : Balls(L, up, Graph!Present, x)]
<1>4. \A x \in Assets : Balls(M[x], up, Graph!Present, x)
  BY <1>3
<1>5. N[a] = NearOf(a)
  OBVIOUS
<1>6. Graph!Search(down, Graph!Present, a, max).queue = <<>> /\ Graph!Bfs(a, max, "downstream") = Rings(N[a], max)
  BY <1>2, BfsFinds
<1>7. ASSUME NEW x \in Assets PROVE Graph!Bfs(x, max, "upstream") = Rings(M[x], max)
  BY <1>4, BfsFinds
<1>8. \A n \in Nat, x, y \in Graph!Present : y \in N[x][n] <=> x \in M[y][n]
  <2> HIDE DEF N, M, down, up
  <2> QED
    BY <1>1, <1>2, <1>4, WayBack
<1> HIDE DEF N, M, down, up
<1>9. ASSUME a \in Graph!Present, NEW r \in Rings(N[a], max)
      PROVE  r.id \in Assets /\ [id |-> a, depth |-> r.depth] \in Rings(M[r.id], max)
  <2>1. PICK n \in 1..max : r \in {[id |-> b, depth |-> n] : b \in N[a][n] \ N[a][n - 1]}
    BY <1>9 DEF Rings
  <2>2. r.id \in N[a][n] \ N[a][n - 1] /\ r.depth = n
    BY <2>1
  <2>3. n \in Nat /\ n - 1 \in Nat /\ n \in Nat \ {0}
    OBVIOUS
  <2>4. r.id \in Graph!Present
    <3>1. N[a][n] = N[a][n - 1] \cup Around(N[a][n - 1], down, Graph!Present)
      BY <1>2, <2>3 DEF Balls
    <3> QED
      BY <2>2, <3>1 DEF Around
  <2>5. a \in M[r.id][n] \ M[r.id][n - 1]
    BY <1>8, <1>9, <2>2, <2>3, <2>4
  <2>6. [id |-> a, depth |-> n] \in Rings(M[r.id], max)
    BY <2>5 DEF Rings
  <2> QED
    BY <2>2, <2>4, <2>6 DEF Graph!Present
<1>10. nodes[a] # Absent <=> a \in Graph!Present
  BY DEF Graph!Present
<1>11. ASSUME nodes[a] # Absent, NEW r \in Graph!Bfs(a, max, "downstream")
       PROVE  [id |-> a, depth |-> r.depth] \in Graph!Bfs(r.id, max, "upstream")
  BY <1>6, <1>7, <1>9, <1>10, <1>11
<1> QED
  BY <1>5, <1>6, <1>11 DEF WalksOf, Rings, down

(* So all walks are the shortest.                                             *)
LEMMA GraphWalks == ASSUME Graph!GraphAssumption, GraphIInv PROVE Graph!WalksAreShortest
<1>1. Cardinality(Assets) \in Nat
  BY FS_CardinalityType, GraphSets DEF Graph!GraphAssumption
<1>2. \A a \in Assets : \A max \in 0..Graph!Cardinality(Assets) : WalksOf(a, NearOf(a), max)
  BY <1>1, GraphSets, WalksCorrect
<1> QED
  BY <1>2, Zenon DEF Graph!WalksAreShortest, WalksOf, NearOf, Round

(* What is found within max steps.                                            *)
LEMMA FoundIsBall ==
  ASSUME NEW N, NEW next, NEW there, NEW a \in Assets, Balls(N, next, there, a), NEW max \in Nat
  PROVE  {r.id : r \in Rings(N, max)} = N[max] \ {a} /\ N[max] \subseteq Assets
<1>1. ASSUME NEW r \in Rings(N, max) PROVE r.id \in N[max] \ {a}
  <2>1. PICK n \in 1..max : r \in {[id |-> b, depth |-> n] : b \in N[n] \ N[n - 1]}
    BY DEF Rings
  <2>2. r.id \in N[n] /\ r.id \notin N[n - 1] /\ n \in Nat /\ n - 1 \in Nat /\ 0 <= n - 1 /\ n <= max
    BY <2>1
  <2>3. N[n] \subseteq N[max]
    BY <2>2, BallsGrow
  <2>4. N[0] \subseteq N[n - 1]
    BY <2>2, BallsGrow
  <2> QED
    BY <2>2, <2>3, <2>4 DEF Balls
<1>2. ASSUME NEW b \in N[max] \ {a} PROVE \E r \in Rings(N, max) : r.id = b
  <2> DEFINE In == {n \in Nat : b \in N[n]}
  <2>1. In \in SUBSET Nat /\ max \in In
    BY <1>2
  <2>2. PICK n \in In : \A k \in In : n <= k
    BY <2>1, LeastNumber
  <2>3. n # 0
    BY <2>2 DEF Balls
  <2>4. n \in 1..max /\ n - 1 \in Nat /\ n - 1 \notin In
    BY <2>1, <2>2, <2>3
  <2>5. b \in N[n] \ N[n - 1]
    BY <2>2, <2>4
  <2>6. [id |-> b, depth |-> n] \in Rings(N, max)
    BY <2>4, <2>5 DEF Rings
  <2> QED
    BY <2>6
<1>3. N[max] \subseteq Assets
  BY DEF Balls
<1> QED
  BY <1>1, <1>2, <1>3

(* What is found are assets.                                                  *)
LEMMA FoundAre ==
  ASSUME Graph!GraphAssumption, GraphIInv, NEW dir \in {"downstream", "upstream"}, NEW a \in Assets, NEW max \in Nat
  PROVE  Graph!Found(a, max, dir) \subseteq Assets
<1>1. PICK N : Balls(N, Graph!Adjacent(dir), Graph!Present, a)
  BY Neighbours, BallsExist
<1>2. Graph!Bfs(a, max, dir) = Rings(N, max)
  BY <1>1, BfsFinds
<1> QED
  BY <1>1, <1>2, FoundIsBall DEF Graph!Found

-------------------------------------------------------------------------------
(* The trace across platforms.                                                *)
Known == Assets \cup Foreign
Traces == [seen : SUBSET Known, upstream : SUBSET Known, downstream : SUBSET Known]
TraceInv(t) == /\ t \in Traces /\ t.seen \cap Foreign \subseteq t.upstream \cup t.downstream
               /\ t.upstream \cup t.downstream \subseteq t.seen
               /\ t.upstream \cap t.downstream \cap Foreign = {}
Answer == (SUBSET Foreign) \cup {Absent}

(* One answer leaves a trace in order, and it is in the trace.                *)
LEMMA MergeKeeps ==
  ASSUME NEW t, TraceInv(t), NEW dir \in {"upstream", "downstream"}, NEW x \in Answer
  PROVE  /\ TraceInv(Graph!Merge(t, dir, x)) /\ t.seen \subseteq Graph!Merge(t, dir, x).seen
         /\ x # Absent => x \subseteq Graph!Merge(t, dir, x).seen
<1>1. CASE x = Absent
  BY <1>1 DEF Graph!Merge
<1>2. CASE x # Absent
  <2>1. x \subseteq Foreign /\ x \subseteq Known
    BY <1>2 DEF Answer, Known
  <2>2. t = [seen |-> t.seen, upstream |-> t.upstream, downstream |-> t.downstream]
        /\ t.seen \subseteq Known /\ t.upstream \subseteq Known /\ t.downstream \subseteq Known
    BY DEF TraceInv, Traces
  <2>3. CASE dir = "upstream"
    <3> PICK u : u = Graph!Merge(t, dir, x)
      OBVIOUS
    <3>1. u = [seen |-> t.seen \cup x, upstream |-> t.upstream \cup (x \ t.seen), downstream |-> t.downstream]
      BY <1>2, <2>2, <2>3 DEF Graph!Merge
    <3>2. u.seen = t.seen \cup x /\ u.upstream = t.upstream \cup (x \ t.seen) /\ u.downstream = t.downstream
      BY <3>1
    <3>3. u \in Traces
      BY <2>1, <2>2, <3>1 DEF Traces
    <3>4. TraceInv(u)
      BY <2>1, <3>2, <3>3 DEF TraceInv
    <3> QED
      BY <3>2, <3>4
  <2>4. CASE dir = "downstream"
    <3> PICK u : u = Graph!Merge(t, dir, x)
      OBVIOUS
    <3>1. u = [seen |-> t.seen \cup x, upstream |-> t.upstream, downstream |-> t.downstream \cup (x \ t.seen)]
      BY <1>2, <2>2, <2>4 DEF Graph!Merge
    <3>2. u.seen = t.seen \cup x /\ u.upstream = t.upstream /\ u.downstream = t.downstream \cup (x \ t.seen)
      BY <3>1
    <3>3. u \in Traces
      BY <2>1, <2>2, <3>1 DEF Traces
    <3>4. TraceInv(u)
      BY <2>1, <3>2, <3>3 DEF TraceInv
    <3> QED
      BY <3>2, <3>4
  <2> QED
    BY <2>3, <2>4
<1> QED
  BY <1>1, <1>2

(* So do both answers of a platform.                                          *)
LEMMA AskKeeps ==
  ASSUME NEW t, TraceInv(t), NEW answer \in [{"upstream", "downstream"} -> Answer]
  PROVE  /\ TraceInv(Graph!Ask(t, answer)) /\ t.seen \subseteq Graph!Ask(t, answer).seen
         /\ \A dir \in {"upstream", "downstream"} : answer[dir] # Absent
             => answer[dir] \subseteq Graph!Ask(t, answer).seen
<1>1. answer["upstream"] \in Answer /\ answer["downstream"] \in Answer
  OBVIOUS
<1> PICK u : u = Graph!Merge(t, "upstream", answer["upstream"])
  OBVIOUS
<1>2. TraceInv(u) /\ t.seen \subseteq u.seen /\ (answer["upstream"] # Absent => answer["upstream"] \subseteq u.seen)
  BY <1>1, MergeKeeps
<1> PICK v : v = Graph!Merge(u, "downstream", answer["downstream"])
  OBVIOUS
<1>3. TraceInv(v) /\ u.seen \subseteq v.seen /\ (answer["downstream"] # Absent => answer["downstream"] \subseteq v.seen)
  BY <1>1, <1>2, MergeKeeps
<1>4. Graph!Ask(t, answer) = v
  BY DEF Graph!Ask
<1> QED
  BY <1>2, <1>3, <1>4

(* The platforms of the list s, asked one after the other.                    *)
Answers == [Providers -> [{"upstream", "downstream"} -> Answer]]
Asked(f, t, s, answers) ==
  /\ f = [n \in 0..Len(s) |-> f[n]] /\ f[0] = t
  /\ \A n \in 1..Len(s) : f[n] = Graph!Ask(f[n - 1], answers[s[n]])

(* A trace asks one platform after another.                                   *)
LEMMA TraceAsks ==
  ASSUME NEW t, TraceInv(t), NEW s \in Seq(Providers), NEW answers \in Answers
  PROVE  \E f : Asked(f, t, s, answers) /\ Graph!Trace(t, s, answers) = f[Len(s)]
<1> DEFINE L == Len(s)
           T == {u \in Traces : TraceInv(u)}
           step == [p \in T \X Nat |-> IF p[2] \in 1..L THEN Graph!Ask(p[1], answers[s[p[2]]]) ELSE p[1]]
<1>1. L \in Nat /\ t \in T
  BY DEF TraceInv
<1>2. \A u \in T, n \in 1..L : Graph!Ask(u, answers[s[n]]) \in T
  <2> SUFFICES ASSUME NEW u \in T, NEW n \in 1..L PROVE Graph!Ask(u, answers[s[n]]) \in T
    OBVIOUS
  <2>1. answers[s[n]] \in [{"upstream", "downstream"} -> Answer]
    BY DEF Answers
  <2>2. TraceInv(Graph!Ask(u, answers[s[n]]))
    BY <2>1, AskKeeps
  <2> QED
    BY <2>2 DEF TraceInv
<1>3. step \in [T \X Nat -> T]
  <2> HIDE DEF T
  <2> QED
    BY <1>2
<1>4. \A u \in T, n \in 1..L : step[<<u, n>>] = Graph!Ask(u, answers[s[n]])
  <2> HIDE DEF T
  <2> QED
    BY <1>1
<1> HIDE DEF T, step, L
<1>5. PICK g : Terms(g, L, T, t, step)
  BY <1>1, <1>3, TermsExist
<1>6. g = [n \in 0..L |-> IF n = 0 THEN t ELSE Graph!Ask(g[n - 1], answers[s[n]])]
  <2>1. ASSUME NEW n \in 0..L PROVE g[n] = IF n = 0 THEN t ELSE Graph!Ask(g[n - 1], answers[s[n]])
    <3>1. CASE n = 0
      BY <1>5, <3>1 DEF Terms
    <3>2. CASE n # 0
      <4>1. n \in 1..L /\ n - 1 \in 0..L
        BY <1>1, <3>2
      <4>2. g[n - 1] \in T /\ g[n] = step[<<g[n - 1], n>>]
        BY <1>5, <4>1 DEF Terms
      <4> QED
        BY <1>4, <3>2, <4>1, <4>2
    <3> QED
      BY <3>1, <3>2
  <2>2. g = [n \in 0..L |-> g[n]]
    BY <1>5 DEF Terms
  <2> QED
    BY <2>1, <2>2
<1>f. PICK f : f = CHOOSE h : h = [n \in 0..L |-> IF n = 0 THEN t ELSE Graph!Ask(h[n - 1], answers[s[n]])]
  OBVIOUS
<1>7. f = [n \in 0..L |-> IF n = 0 THEN t ELSE Graph!Ask(f[n - 1], answers[s[n]])]
  BY <1>6, <1>f, Zenon
<1>8. Graph!Trace(t, s, answers) = f[Len(s)]
  BY <1>f, Zenon DEF Graph!Trace, L
<1>9. Asked(f, t, s, answers)
  <2>1. f[0] = t
    BY <1>1, <1>7
  <2>2. \A n \in 1..L : f[n] = Graph!Ask(f[n - 1], answers[s[n]])
    BY <1>1, <1>7
  <2>3. f = [n \in 0..L |-> f[n]]
    BY <1>7
  <2> QED
    BY <2>1, <2>2, <2>3 DEF Asked, L
<1> QED
  BY <1>8, <1>9

(* Whatever was answered so far is seen.                                      *)
Told(u, s, answers, n) ==
  \A i \in 1..n, dir \in {"upstream", "downstream"} :
    answers[s[i]][dir] # Absent => answers[s[i]][dir] \subseteq u.seen

(* All that they told is in the trace.                                        *)
LEMMA AskedKeeps ==
  ASSUME NEW t, TraceInv(t), NEW s \in Seq(Providers), NEW answers \in Answers, NEW f, Asked(f, t, s, answers)
  PROVE  TraceInv(f[Len(s)]) /\ Told(f[Len(s)], s, answers, Len(s))
<1> DEFINE Ok(k) == TraceInv(f[k]) /\ Told(f[k], s, answers, k)
           Bad == {k \in Nat : k <= Len(s) /\ ~ Ok(k)}
<1>0. Len(s) \in Nat
  OBVIOUS
<1>1. SUFFICES ASSUME Bad # {} PROVE FALSE
  BY <1>0
<1>2. PICK k \in Bad : \A l \in Bad : k <= l
  BY <1>1, LeastNumber
<1>3. k # 0
  <2>1. Ok(0)
    BY DEF Asked, Told
  <2> QED
    BY <1>2, <2>1
<1>4. k - 1 \in Nat /\ k \in 1..Len(s) /\ k \in Nat
  BY <1>0, <1>2, <1>3
<1>5. Ok(k - 1)
  BY <1>2, <1>4
<1>6. answers[s[k]] \in [{"upstream", "downstream"} -> Answer] /\ f[k] = Graph!Ask(f[k - 1], answers[s[k]])
  <2>1. s[k] \in Providers
    BY <1>4
  <2> QED
    BY <1>4, <2>1 DEF Answers, Asked
<1>7. /\ TraceInv(f[k]) /\ f[k - 1].seen \subseteq f[k].seen
      /\ \A dir \in {"upstream", "downstream"} : answers[s[k]][dir] # Absent => answers[s[k]][dir] \subseteq f[k].seen
  BY <1>5, <1>6, AskKeeps
<1>8. Told(f[k], s, answers, k)
  <2> SUFFICES ASSUME NEW i \in 1..k, NEW dir \in {"upstream", "downstream"}, answers[s[i]][dir] # Absent
               PROVE  answers[s[i]][dir] \subseteq f[k].seen
    BY DEF Told
  <2>1. CASE i = k
    BY <1>7, <2>1
  <2>2. CASE i # k
    <3>1. i \in 1..(k - 1)
      BY <1>4, <2>2
    <3> QED
      BY <1>5, <1>7, <3>1 DEF Told
  <2> QED
    BY <2>1, <2>2
<1> QED
  BY <1>2, <1>7, <1>8

(* The trace starts from what the local graph knows.                          *)
LEMMA LocalInv ==
  ASSUME Graph!GraphAssumption, GraphIInv, NEW a \in Assets PROVE TraceInv(Graph!Local(a))
<1>1. PICK up : up = IF nodes[a] = Absent THEN {} ELSE Graph!Found(a, 5, "upstream")
  OBVIOUS
<1>2. PICK down : down = IF nodes[a] = Absent THEN {} ELSE Graph!Found(a, 5, "downstream")
  OBVIOUS
<1>3. PICK self : self = IF nodes[a] = Absent THEN {} ELSE {a}
  OBVIOUS
<1>4. up \subseteq Assets /\ down \subseteq Assets /\ self \subseteq Assets
  BY <1>1, <1>2, <1>3, FoundAre
<1>5. Graph!Local(a) = [seen |-> up \cup down \cup self, upstream |-> up, downstream |-> down]
  BY <1>1, <1>2, <1>3 DEF Graph!Local
<1>6. Foreign \cap Assets = {}
  BY DEF Graph!GraphAssumption
<1> PICK t : t = Graph!Local(a)
  OBVIOUS
<1>7. t.seen = up \cup down \cup self /\ t.upstream = up /\ t.downstream = down
  BY <1>5
<1>8. t \in Traces
  BY <1>4, <1>5 DEF Traces, Known
<1> QED
  BY <1>4, <1>6, <1>7, <1>8 DEF TraceInv

Named(answers) ==
  LET those == {q \in Providers \X Graph!Directions : answers[q[1]][q[2]] # Absent}
  IN UNION {answers[q[1]][q[2]] : q \in those}
TellsAll(t, named) == named \subseteq t.upstream \cup t.downstream /\ named \cap t.upstream \cap t.downstream = {}

(* So a trace is complete.                                                    *)
LEMMA GraphTraces == ASSUME Graph!GraphAssumption, GraphIInv PROVE Graph!TraceIsComplete
<1> DEFINE order == Graph!Ordered(Providers)
<1>1. order \in Seq(Providers) /\ \A p \in Providers : \E i \in 1..Len(order) : order[i] = p
  <2>1. IsFiniteSet(Providers)
    BY GraphSets DEF Graph!GraphAssumption
  <2> QED
    BY <2>1, InSomeOrder DEF Lists
<1>2. Answers = [Providers -> [Graph!Directions -> (SUBSET Foreign) \cup {Absent}]]
  <2>1. {"upstream", "downstream"} = Graph!Directions
    BY DEF Graph!Directions
  <2> QED
    BY <2>1, Zenon DEF Answers, Answer
<1> HIDE DEF order
<1>3. ASSUME NEW a \in Assets, NEW answers \in Answers, NEW t, t = Graph!Trace(Graph!Local(a), order, answers)
      PROVE  TellsAll(t, Named(answers))
  <2> PICK named : named = UNION {answers[q[1]][q[2]] : q \in {r \in Providers \X Graph!Directions :
          answers[r[1]][r[2]] # Absent}}
    OBVIOUS
  <2>1. TraceInv(Graph!Local(a))
    BY LocalInv
  <2>2. PICK f : Asked(f, Graph!Local(a), order, answers) /\ t = f[Len(order)]
    BY <1>1, <1>3, <2>1, TraceAsks
  <2>3. TraceInv(t) /\ Told(t, order, answers, Len(order))
    BY <1>1, <2>1, <2>2, AskedKeeps
  <2>4. ASSUME NEW p \in Providers, NEW dir \in Graph!Directions, answers[p][dir] # Absent
        PROVE  answers[p][dir] \subseteq t.seen /\ answers[p][dir] \subseteq Foreign
    <3>1. PICK i \in 1..Len(order) : order[i] = p
      BY <1>1
    <3>2. answers[p][dir] \in Answer
      BY DEF Answers, Graph!Directions
    <3> QED
      BY <2>3, <2>4, <3>1, <3>2 DEF Told, Graph!Directions, Answer
  <2>5. named \subseteq t.seen /\ named \subseteq Foreign
    <3> SUFFICES ASSUME NEW x \in named PROVE x \in t.seen /\ x \in Foreign
      OBVIOUS
    <3>1. PICK q \in Providers \X Graph!Directions : answers[q[1]][q[2]] # Absent /\ x \in answers[q[1]][q[2]]
      OBVIOUS
    <3>2. q[1] \in Providers /\ q[2] \in Graph!Directions
      OBVIOUS
    <3> QED
      BY <2>4, <3>1, <3>2
  <2>6. t.seen \cap Foreign \subseteq t.upstream \cup t.downstream /\ t.upstream \cap t.downstream \cap Foreign = {}
    BY <2>3 DEF TraceInv
  <2>7. TellsAll(t, named)
    BY <2>5, <2>6 DEF TellsAll
  <2> QED
    BY <2>7 DEF Named
<1>4. \A a \in Assets, answers \in Answers : TellsAll(Graph!Trace(Graph!Local(a), order, answers), Named(answers))
  BY <1>3
<1> QED
  BY <1>2, <1>4, Zenon DEF Graph!TraceIsComplete, TellsAll, Named, order

(* More links reach no less.                                                  *)
LEMMA MoreLinks ==
  ASSUME NEW next, NEW more, NEW there, \A x \in Assets : next[x] \subseteq more[x], NEW a \in Assets,
         NEW N, Balls(N, next, there, a), NEW M, Balls(M, more, there, a), NEW n \in Nat
  PROVE  N[n] \subseteq M[n]
<1> DEFINE Bad == {k \in Nat : ~ (N[k] \subseteq M[k])}
<1>1. SUFFICES ASSUME Bad # {} PROVE FALSE
  OBVIOUS
<1>2. PICK k \in Bad : \A l \in Bad : k <= l
  BY <1>1, LeastNumber
<1>3. k # 0
  BY <1>2 DEF Balls
<1>4. k - 1 \in Nat /\ k \in Nat \ {0}
  BY <1>2, <1>3
<1>5. N[k - 1] \subseteq M[k - 1] /\ N[k - 1] \subseteq Assets
  BY <1>2, <1>4 DEF Balls
<1>6. N[k] = N[k - 1] \cup Around(N[k - 1], next, there) /\ M[k] = M[k - 1] \cup Around(M[k - 1], more, there)
  BY <1>4 DEF Balls
<1>7. Around(N[k - 1], next, there) \subseteq Around(M[k - 1], more, there)
  BY <1>5 DEF Around
<1> QED
  BY <1>2, <1>5, <1>6, <1>7

(* A further edge.                                                            *)
LEMMA AddsLinks ==
  ASSUME GraphIInv, GraphIInv', NEW e \in Graph!Edge, Graph!AddEdge(e), NEW dir \in {"downstream", "upstream"}
  PROVE  /\ nodes' = nodes /\ Graph!Present' = Graph!Present
         /\ \A x \in Assets : /\ inEdges'[x] \subseteq inEdges[x] \cup {e} /\ inEdges[x] \subseteq inEdges'[x]
                              /\ Graph!Adjacent(dir)[x] \subseteq Graph!Adjacent(dir)'[x]
         /\ Links(Graph!Adjacent(dir)', Graph!Present)
<1>1. /\ outEdges' = [outEdges EXCEPT ![e.source] = @ \cup {e}] /\ inEdges' = [inEdges EXCEPT ![e.target] = @ \cup {e}]
      /\ nodes' = nodes
  BY DEF Graph!AddEdge
<1>2. outEdges \in [Assets -> SUBSET Graph!Edge] /\ inEdges \in [Assets -> SUBSET Graph!Edge]
  BY DEF GraphIInv
<1>3. \A x \in Assets : /\ inEdges'[x] \subseteq inEdges[x] \cup {e} /\ inEdges[x] \subseteq inEdges'[x]
                        /\ outEdges'[x] \subseteq outEdges[x] \cup {e} /\ outEdges[x] \subseteq outEdges'[x]
  BY <1>1, <1>2
<1>4. \A x \in Assets : /\ Graph!Adjacent(dir)[x] = {Graph!End(f, dir) : f \in {g \in Graph!EdgesOf(x, dir) :
                            g.columns = Graph!Table}}
                        /\ Graph!Adjacent(dir)'[x] = {Graph!End(f, dir) : f \in {g \in Graph!EdgesOf(x, dir)' :
                            g.columns = Graph!Table}}
  BY DEF Graph!Adjacent, Graph!Table
<1>5. \A x \in Assets : Graph!EdgesOf(x, dir) \subseteq Graph!EdgesOf(x, dir)'
          /\ Graph!EdgesOf(x, dir)' \subseteq Graph!Edge
  <2>1. \A x \in Assets : inEdges'[x] \subseteq Graph!Edge /\ outEdges'[x] \subseteq Graph!Edge
    BY <1>2, <1>3
  <2> QED
    BY <1>3, <2>1 DEF Graph!EdgesOf
<1>6. ASSUME NEW x \in Assets
      PROVE  Graph!Adjacent(dir)[x] \subseteq Graph!Adjacent(dir)'[x] /\ Graph!Adjacent(dir)'[x] \subseteq Assets
  <2>1. \A f \in Graph!Edge : Graph!End(f, dir) \in Assets
    BY EdgeEnds DEF Graph!End
  <2> QED
    BY <1>4, <1>5, <2>1
<1>7. Graph!Adjacent(dir)' = [x \in Assets |-> Graph!Adjacent(dir)'[x]]
  BY DEF Graph!Adjacent
<1>8. Graph!Present' = Graph!Present /\ Graph!Present \subseteq Assets
  BY <1>1 DEF Graph!Present
<1>9. Links(Graph!Adjacent(dir)', Graph!Present)
  <2>1. Graph!Adjacent(dir)' \in [Assets -> SUBSET Assets]
    BY <1>6, <1>7
  <2> QED
    BY <1>8, <2>1 DEF Links
<1> QED
  BY <1>1, <1>3, <1>6, <1>8, <1>9

(* With a further edge no less is found.                                      *)
LEMMA FoundGrows ==
  ASSUME Graph!GraphAssumption, GraphIInv, GraphIInv', NEW e \in Graph!Edge, Graph!AddEdge(e),
         NEW dir \in {"downstream", "upstream"}, NEW a \in Assets, NEW max \in Nat
  PROVE  Graph!Found(a, max, dir) \subseteq Graph!Found(a, max, dir)' /\ Graph!Found(a, max, dir)' \subseteq Assets
<1> DEFINE next == Graph!Adjacent(dir)
           more == Graph!Adjacent(dir)'
           there == Graph!Present
<1>1. Links(next, there) /\ Links(more, there) /\ Graph!Present' = there /\ \A x \in Assets : next[x] \subseteq more[x]
  BY Neighbours, AddsLinks
<1>2. IsFiniteSet(Assets)
  BY GraphSets DEF Graph!GraphAssumption
<1>3. Graph!Found(a, max, dir) = {r.id : r \in Graph!Search(next, there, a, max).results}
  BY DEF Graph!Found, Graph!Bfs
<1>4. Graph!Found(a, max, dir)' = {r.id : r \in Graph!Search(more, there, a, max).results}
  BY <1>1 DEF Graph!Found, Graph!Bfs
<1> HIDE DEF next, more, there
<1>5. PICK N : Balls(N, next, there, a)
  BY <1>1, BallsExist
<1>6. PICK M : Balls(M, more, there, a)
  BY <1>1, BallsExist
<1>7. N[max] \subseteq M[max]
  BY <1>1, <1>5, <1>6, MoreLinks
<1>8. Graph!Search(next, there, a, max).results = Rings(N, max)
          /\ Graph!Search(more, there, a, max).results = Rings(M, max)
  BY <1>1, <1>2, <1>5, <1>6, SearchFinds
<1>9. {r.id : r \in Rings(N, max)} = N[max] \ {a} /\ {r.id : r \in Rings(M, max)} = M[max] \ {a}
          /\ M[max] \subseteq Assets
  BY <1>5, <1>6, FoundIsBall
<1> QED
  BY <1>3, <1>4, <1>7, <1>8, <1>9

(* The severity grows with the dependents.                                    *)
LEMMA SeverityGrows ==
  ASSUME Graph!GraphAssumption, NEW m \in Nat, NEW n \in Nat, m <= n, NEW d \in Nat, NEW k \in Nat, d <= k
  PROVE  Graph!Severity(m, d) <= Graph!Severity(n, k) /\ 1 <= Graph!Severity(n, k)
<1>1. CriticalOver \in Nat /\ HighOver \in Nat /\ MediumFrom \in Nat
  BY DEF Graph!GraphAssumption
<1> QED
  BY <1>1 DEF Graph!Severity

(* An edge makes no impact less grave.                                        *)
LEMMA ImpactOfEdge ==
  ASSUME Graph!GraphAssumption, GraphIInv, GraphIInv', NEW e \in Graph!Edge, Graph!AddEdge(e), NEW a \in Assets
  PROVE  /\ Graph!Impact(a).severity <= Graph!Impact(a)'.severity
         /\ Graph!Impact(a).consumers \subseteq Graph!Impact(a)'.consumers
         /\ Graph!Impact(a).consumers \subseteq Assets
<1> PICK C : C = Graph!Found(a, 5, "downstream")
  OBVIOUS
<1> PICK D : D = {c \in C : nodes[c].type \in {"dashboard", "report"}}
  OBVIOUS
<1> PICK C1 : C1 = Graph!Found(a, 5, "downstream")'
  OBVIOUS
<1> PICK D1 : D1 = {c \in C1 : nodes[c].type \in {"dashboard", "report"}}
  OBVIOUS
<1>0. nodes' = nodes
  BY DEF Graph!AddEdge
<1>1. C \subseteq C1 /\ C1 \subseteq Assets /\ D \subseteq D1 /\ D1 \subseteq C1
  BY FoundGrows
<1>2. Graph!Impact(a) = IF nodes[a] = Absent THEN [severity |-> 1, consumers |-> {}]
                        ELSE [severity |-> Graph!Severity(Cardinality(C), Cardinality(D)), consumers |-> C]
  BY GraphSets, Zenon DEF Graph!Impact
<1>3. Graph!Impact(a)' = IF nodes[a] = Absent THEN [severity |-> 1, consumers |-> {}]
                         ELSE [severity |-> Graph!Severity(Cardinality(C1), Cardinality(D1)), consumers |-> C1]
  <2>1. D1 = {c \in C1 : nodes'[c].type \in {"dashboard", "report"}}
    BY <1>0
  <2> QED
    BY <1>0, <2>1, GraphSets DEF Graph!Impact, Graph!Severity
<1>4. IsFiniteSet(C1) /\ IsFiniteSet(D1)
  <2>1. IsFiniteSet(Assets)
    BY GraphSets DEF Graph!GraphAssumption
  <2> QED
    BY <1>1, <2>1, FS_Subset
<1>5. /\ Cardinality(C) \in Nat /\ Cardinality(C1) \in Nat /\ Cardinality(C) <= Cardinality(C1)
      /\ Cardinality(D) \in Nat /\ Cardinality(D1) \in Nat /\ Cardinality(D) <= Cardinality(D1)
  BY <1>1, <1>4, FS_Subset, FS_CardinalityType
<1>6. Graph!Severity(Cardinality(C), Cardinality(D)) <= Graph!Severity(Cardinality(C1), Cardinality(D1))
  BY <1>5, SeverityGrows
<1>7. CASE nodes[a] = Absent
  BY <1>2, <1>3, <1>7
<1>8. CASE nodes[a] # Absent
  <2>1. Graph!Impact(a).severity = Graph!Severity(Cardinality(C), Cardinality(D)) /\ Graph!Impact(a).consumers = C
    BY <1>2, <1>8
  <2>2. Graph!Impact(a)'.severity = Graph!Severity(Cardinality(C1), Cardinality(D1)) /\ Graph!Impact(a)'.consumers = C1
    BY <1>3, <1>8
  <2> QED
    BY <1>1, <1>6, <2>1, <2>2
<1> QED
  BY <1>7, <1>8

(* The entries of the column lineage of a, from its edges between columns and *)
(* the tables upstream of it.                                                 *)
Entry(u, c, d, how) == [table |-> u, from |-> c, to |-> d, how |-> how]
Explicit(E) == {Entry(f.source, f.columns[1], f.columns[2], "explicit") : f \in {g \in E : g.columns # Graph!Table}}
Shared(node, a, above, X) ==
  {Entry(p[1], p[2], p[2], "inferred") :
     p \in {q \in above \X node[a].columns : /\ q[2] \in node[q[1]].columns
                                             /\ ~\E x \in X : x.table = q[1] /\ x.to = q[2]}}

(* The lineage of a column, spelled out.                                      *)
LEMMA ColumnLineageOf ==
  ASSUME NEW a
  PROVE  /\ Graph!ColumnLineage(a) =
              IF nodes[a] = Absent THEN {}
              ELSE Explicit(inEdges[a]) \cup Shared(nodes, a, Graph!Found(a, 1, "upstream"), Explicit(inEdges[a]))
         /\ Graph!ColumnLineage(a)' =
              IF nodes'[a] = Absent THEN {}
              ELSE Explicit(inEdges'[a]) \cup Shared(nodes', a, Graph!Found(a, 1, "upstream")', Explicit(inEdges'[a]))
  BY Zenon DEF Graph!ColumnLineage, Graph!Uncovered, Graph!Table, Explicit, Shared, Entry

(* An edge between tables leaves the lineage of columns as it was, or longer. *)
LEMMA ColumnsOfEdge ==
  ASSUME Graph!GraphAssumption, GraphIInv, GraphIInv', NEW e \in Graph!Edge, Graph!AddEdge(e), e.columns = Graph!Table,
         NEW a \in Assets
  PROVE  Graph!ColumnLineage(a) \subseteq Graph!ColumnLineage(a)'
<1> PICK F : F = Graph!Found(a, 1, "upstream")
  OBVIOUS
<1> PICK F1 : F1 = Graph!Found(a, 1, "upstream")'
  OBVIOUS
<1> PICK X : X = Explicit(inEdges[a])
  OBVIOUS
<1>0. nodes' = nodes
  BY DEF Graph!AddEdge
<1>1. F \subseteq F1
  BY FoundGrows
<1>2. Explicit(inEdges'[a]) = X
  <2>1. inEdges'[a] \subseteq inEdges[a] \cup {e} /\ inEdges[a] \subseteq inEdges'[a]
    BY AddsLinks
  <2>2. {g \in inEdges'[a] : g.columns # Graph!Table} = {g \in inEdges[a] : g.columns # Graph!Table}
    BY <2>1
  <2> QED
    BY <2>2 DEF Explicit
<1>3. /\ Graph!ColumnLineage(a) = IF nodes[a] = Absent THEN {} ELSE X \cup Shared(nodes, a, F, X)
      /\ Graph!ColumnLineage(a)' = IF nodes[a] = Absent THEN {} ELSE X \cup Shared(nodes, a, F1, X)
  BY <1>0, <1>2, ColumnLineageOf, Zenon
<1>4. Shared(nodes, a, F, X) \subseteq Shared(nodes, a, F1, X)
  BY <1>1 DEF Shared
<1> QED
  BY <1>3, <1>4

(* So the impacts grow.                                                       *)
LEMMA GraphGrows == ASSUME Graph!GraphAssumption, GraphIInv, GraphIInv' PROVE Graph!Grows
<1> SUFFICES ASSUME NEW e \in UNION Graph!Range(outEdges'), Graph!AddEdge(e), NEW a \in Assets
             PROVE  /\ Graph!Impact(a).severity <= Graph!Impact(a)'.severity
                    /\ e.columns = Graph!Table =>
                         \A c \in UNION {k.columns : k \in Kinds} :
                             Graph!ColumnImpact(a, c) \subseteq Graph!ColumnImpact(a, c)'
  BY DEF Graph!Grows
<1>1. e \in Graph!Edge
  <2>1. PICK b \in DOMAIN outEdges' : e \in outEdges'[b]
    BY DEF Graph!Range
  <2> QED
    BY <2>1 DEF GraphIInv, Graph!Edge
<1>2. /\ Graph!Impact(a).severity <= Graph!Impact(a)'.severity
      /\ Graph!Impact(a).consumers \subseteq Graph!Impact(a)'.consumers /\ Graph!Impact(a).consumers \subseteq Assets
  BY <1>1, ImpactOfEdge
<1>3. ASSUME e.columns = Graph!Table, NEW c PROVE Graph!ColumnImpact(a, c) \subseteq Graph!ColumnImpact(a, c)'
  <2>1. \A b \in {a} \cup Graph!Impact(a).consumers : Graph!ColumnLineage(b) \subseteq Graph!ColumnLineage(b)'
    BY <1>1, <1>2, <1>3, ColumnsOfEdge
  <2> SUFFICES ASSUME NEW p \in Graph!ColumnImpact(a, c) PROVE p \in Graph!ColumnImpact(a, c)'
    OBVIOUS
  <2>2. PICK b \in {a} \cup Graph!Impact(a).consumers : \E x \in Graph!ColumnLineage(b) : x.from = c
            /\ x.table = a /\ p = <<b, x.to>>
    BY DEF Graph!ColumnImpact
  <2>3. b \in {a} \cup Graph!Impact(a)'.consumers
    BY <1>2, <2>2
  <2>4. \E x \in Graph!ColumnLineage(b)' : x.from = c /\ x.table = a /\ p = <<b, x.to>>
    BY <2>1, <2>2
  <2> QED
    BY <2>3, <2>4 DEF Graph!ColumnImpact
<1> QED
  BY <1>2, <1>3

(* The calls that write lineage.                                              *)
IsDue(o, saw) == o.when = "always" \/ o.when = IF saw THEN "found" ELSE "missing"

(* What is left after m operations, the first of them done, the others not    *)
(* due.                                                                       *)
LeftAfter(next, todo, m, saw) ==
  /\ next \in Seq(Edits!Ops) /\ Len(next) = Len(todo) - m /\ m \in 1..(Len(todo) - 1)
  /\ \A l \in 1..Len(next) : next[l] = todo[l + m]
  /\ IsDue(todo[m + 1], saw) /\ \A l \in 2..m : ~ IsDue(todo[l], saw)

(* What is left is what comes from the next operation that is due.            *)
LEMMA DueIs ==
  ASSUME NEW todo \in Seq(Edits!Ops), todo # <<>>, NEW saw
  PROVE  Edits!Due(Tail(todo), saw) = <<>> \/ \E m \in Nat : LeftAfter(Edits!Due(Tail(todo), saw), todo, m, saw)
<1>1. /\ Tail(todo) \in Seq(Edits!Ops) /\ Len(Tail(todo)) = Len(todo) - 1 /\ Len(todo) \in Nat \ {0}
      /\ \A i \in 1..(Len(todo) - 1) : Tail(todo)[i] = todo[i + 1]
  OBVIOUS
<1>t. PICK t \in Seq(Edits!Ops) : t = Tail(todo)
  BY <1>1
<1>2. Len(t) = Len(todo) - 1 /\ \A i \in 1..Len(t) : t[i] = todo[i + 1]
  BY <1>1, <1>t
<1>3. PICK due : due = {k \in DOMAIN t : t[k].when \in {"always", IF saw THEN "found" ELSE "missing"}}
  OBVIOUS
<1>4. Edits!Due(t, saw) = IF due = {} THEN <<>> ELSE SubSeq(t, Edits!Min(due), Len(t))
  BY <1>3 DEF Edits!Due
<1>5. due \in SUBSET Nat /\ \A k \in Nat : k \in due <=> k \in 1..Len(t) /\ IsDue(t[k], saw)
  BY <1>3 DEF IsDue
<1>6. ASSUME due # {} PROVE \E m \in Nat : LeftAfter(Edits!Due(t, saw), todo, m, saw)
  <2>1. \E k \in due : \A l \in due : k <= l
    BY <1>5, <1>6, LeastNumber
  <2>m. PICK m : m = Edits!Min(due)
    OBVIOUS
  <2>2. m \in due /\ \A l \in due : m <= l
    BY <2>m, <2>1 DEF Edits!Min
  <2>3. m \in Nat /\ m \in 1..Len(t) /\ IsDue(t[m], saw) /\ Len(t) \in Nat
    BY <1>5, <2>2
  <2>n. PICK next : next = SubSeq(t, m, Len(t))
    OBVIOUS
  <2>4. next \in Seq(Edits!Ops) /\ Len(next) = Len(t) - m + 1 /\ \A i \in 1..(Len(t) - m + 1) : next[i] = t[m + i - 1]
    <3>1. \A i \in m..Len(t) : t[i] \in Edits!Ops
      BY <2>3
    <3> QED
      BY <2>3, <2>n, <3>1, SubSeqProperties
  <2>5. \A l \in 1..Len(next) : next[l] = todo[l + m]
    <3> TAKE l \in 1..Len(next)
    <3>1. next[l] = t[m + l - 1] /\ m + l - 1 \in 1..Len(t) /\ (m + l - 1) + 1 = l + m
      BY <2>3, <2>4
    <3> QED
      BY <1>2, <3>1
  <2>6. IsDue(todo[m + 1], saw)
    BY <1>2, <2>3
  <2>7. \A l \in 2..m : ~ IsDue(todo[l], saw)
    <3> SUFFICES ASSUME NEW l \in 2..m, IsDue(todo[l], saw) PROVE FALSE
      OBVIOUS
    <3>1. l - 1 \in Nat /\ l - 1 \in 1..Len(t) /\ (l - 1) + 1 = l /\ ~ (m <= l - 1)
      BY <2>3
    <3>2. l - 1 \notin due
      BY <2>2, <3>1
    <3> QED
      BY <1>2, <1>5, <3>1, <3>2
  <2>8. LeftAfter(next, todo, m, saw)
    BY <1>1, <1>2, <2>3, <2>4, <2>5, <2>6, <2>7 DEF LeftAfter
  <2> QED
    BY <1>4, <1>6, <2>m, <2>n, <2>3, <2>8
<1> QED
  BY <1>t, <1>4, <1>6

(* An operation that is still to be done is sound when the assets it links    *)
(* are in S, or will be by then.                                              *)
Covered(todo, k, x) ==
  \E i \in 1..(k - 1) :
    /\ todo[i].a = x
    /\ \/ todo[i].op = "put" /\ (todo[i].when = "always" \/ i = 1)
       \/ todo[i].op = "look" /\ todo[i].when = "always" /\ i + 1 < k /\ todo[i + 1] = Edits!PutMissing(x)
       \/ todo[i].op = "look" /\ todo[i].when # "missing" /\ \A l \in (i + 1)..k : todo[l].when = "found"
OpSound(todo, found, S, k) ==
  /\ todo[k].op \in {"link", "edit"} => \A x \in {todo[k].a, todo[k].b} : x \in S \/ Covered(todo, k, x)
  /\ todo[k].op = "remove" => k < Len(todo) /\ todo[k + 1] = Edits!Put(todo[k].a) /\ todo[k].when = "found"
  /\ todo[k].op = "mark" => /\ todo[k].when = "found"
                            /\ k = 1 => found # {}
                            /\ k # 1 => todo[k - 1].op = "find" /\ todo[k - 1].when = "always"
Sound(todo, found, S) == \A k \in 1..Len(todo) : OpSound(todo, found, S, k)

(* What the first operation has to leave.                                     *)
HeadDone(o, saw, found, S) ==
  /\ o.op = "put" => o.a \in S
  /\ o.op = "look" /\ saw => o.a \in S
  /\ o.op = "find" /\ saw => found # {}

(* When an operation is done, what it covers stays covered or is there.       *)
LEMMA StaysCovered ==
  ASSUME NEW S, NEW todo \in Seq(Edits!Ops), NEW saw \in BOOLEAN, NEW found, HeadDone(todo[1], saw, found, S),
         NEW next, NEW m \in Nat, LeftAfter(next, todo, m, saw),
         NEW k \in 1..Len(next), NEW x, Covered(todo, k + m, x)
  PROVE  x \in S \/ Covered(next, k, x)
<1>0. /\ Len(next) \in Nat /\ Len(todo) \in Nat /\ Len(next) = Len(todo) - m /\ m >= 1 /\ k \in Nat /\ k >= 1
      /\ k <= Len(next)
  BY DEF LeftAfter
<1>1. PICK i \in 1..(k + m - 1) :
        /\ todo[i].a = x
        /\ \/ todo[i].op = "put" /\ (todo[i].when = "always" \/ i = 1)
           \/ todo[i].op = "look" /\ todo[i].when = "always" /\ i + 1 < k + m /\ todo[i + 1] = Edits!PutMissing(x)
           \/ todo[i].op = "look" /\ todo[i].when # "missing" /\ \A l \in (i + 1)..(k + m) : todo[l].when = "found"
  BY DEF Covered
<1>i. i \in Nat /\ i >= 1 /\ i <= k + m - 1
  BY <1>0
<1>2. CASE i > m
  <2>1. i - m \in 1..(k - 1) /\ (i - m) + m = i /\ i - m \in 1..Len(next) /\ i # 1
    BY <1>0, <1>i, <1>2
  <2>2. next[i - m] = todo[i]
    BY <2>1 DEF LeftAfter
  <2>3. CASE todo[i].op = "put" /\ (todo[i].when = "always" \/ i = 1)
    BY <1>1, <2>1, <2>2, <2>3 DEF Covered
  <2>4. CASE todo[i].op = "look" /\ todo[i].when = "always" /\ i + 1 < k + m /\ todo[i + 1] = Edits!PutMissing(x)
    <3>1. (i - m) + 1 < k /\ (i - m) + 1 \in 1..Len(next) /\ ((i - m) + 1) + m = i + 1
      BY <1>0, <1>i, <1>2, <2>4
    <3>2. next[(i - m) + 1] = todo[i + 1]
      BY <3>1 DEF LeftAfter
    <3> QED
      BY <1>1, <2>1, <2>2, <2>4, <3>1, <3>2 DEF Covered
  <2>5. CASE todo[i].op = "look" /\ todo[i].when # "missing" /\ \A l \in (i + 1)..(k + m) : todo[l].when = "found"
    <3>1. \A l \in ((i - m) + 1)..k : next[l].when = "found"
      <4> TAKE l \in ((i - m) + 1)..k
      <4>1. l \in 1..Len(next) /\ l + m \in (i + 1)..(k + m)
        BY <1>0, <1>i, <1>2
      <4>2. next[l] = todo[l + m]
        BY <4>1 DEF LeftAfter
      <4> QED
        BY <2>5, <4>1, <4>2
    <3> QED
      BY <1>1, <2>1, <2>2, <2>5, <3>1 DEF Covered
  <2> QED
    BY <1>1, <2>3, <2>4, <2>5
<1>3. CASE 2 <= i /\ i <= m
  <2>1. ~ IsDue(todo[i], saw)
    BY <1>3, <1>i DEF LeftAfter
  <2>2. i # 1 /\ todo[i].when # "always"
    BY <1>3, <2>1 DEF IsDue
  <2>3. todo[i].when # "missing" /\ \A l \in (i + 1)..(k + m) : todo[l].when = "found"
    BY <1>1, <2>2
  <2>4. todo[m + 1].when = "found"
    <3>1. m + 1 \in (i + 1)..(k + m)
      BY <1>0, <1>3, <1>i
    <3> QED
      BY <2>3, <3>1
  <2>5. saw
    <3>1. IsDue(todo[m + 1], saw)
      BY DEF LeftAfter
    <3> QED
      BY <2>4, <3>1 DEF IsDue
  <2>6. todo[i] \in Edits!Ops
    <3>1. i \in 1..Len(todo)
      BY <1>0, <1>i, <1>3
    <3> QED
      BY <3>1
  <2>7. todo[i].when \in {"always", "found", "missing"}
    BY <2>6 DEF Edits!Ops
  <2> QED
    BY <2>1, <2>2, <2>3, <2>5, <2>7 DEF IsDue
<1>4. CASE i = 1
  <2>1. CASE todo[i].op = "put"
    BY <1>1, <1>4, <2>1 DEF HeadDone
  <2>2. CASE todo[i].op = "look" /\ saw
    BY <1>1, <1>4, <2>2 DEF HeadDone
  <2>3. CASE todo[i].op = "look" /\ ~saw /\ i + 1 < k + m /\ todo[i + 1] = Edits!PutMissing(x)
    <3>1. todo[2].op = "put" /\ todo[2].when = "missing" /\ todo[2].a = x
      BY <1>4, <2>3 DEF Edits!PutMissing, Edits!Do
    <3>2. IsDue(todo[2], saw)
      BY <2>3, <3>1 DEF IsDue
    <3>3. m = 1
      <4> SUFFICES ASSUME m # 1 PROVE FALSE
        OBVIOUS
      <4>1. 2 \in 2..m
        BY <1>0
      <4> QED
        BY <3>2, <4>1 DEF LeftAfter
    <3>4. k > 1 /\ 1 \in 1..Len(next) /\ 1 \in 1..(k - 1) /\ 1 + m = 2
      BY <1>0, <1>4, <2>3, <3>3
    <3>5. next[1] = todo[2]
      BY <3>4 DEF LeftAfter
    <3> QED
      BY <3>1, <3>4, <3>5 DEF Covered
  <2>4. CASE ~saw /\ \A l \in (i + 1)..(k + m) : todo[l].when = "found"
    <3>1. m + 1 \in (i + 1)..(k + m)
      BY <1>0, <1>4
    <3>2. IsDue(todo[m + 1], saw) /\ todo[m + 1].when = "found"
      BY <2>4, <3>1 DEF LeftAfter
    <3> QED
      BY <2>4, <3>2 DEF IsDue
  <2> QED
    BY <1>1, <2>1, <2>2, <2>3, <2>4
<1> QED
  BY <1>0, <1>i, <1>2, <1>3, <1>4

(* So what is left stays sound.                                               *)
LEMMA StaysSound ==
  ASSUME NEW S, NEW S1, S \subseteq S1, NEW todo \in Seq(Edits!Ops), todo # <<>>, NEW saw \in BOOLEAN,
         NEW found, NEW found1, Sound(todo, found, S), HeadDone(todo[1], saw, found1, S1),
         NEW next, next = Edits!Due(Tail(todo), saw)
  PROVE  next \in Seq(Edits!Ops) /\ Sound(next, found1, S1) /\ (next # <<>> => IsDue(next[1], saw))
<1>1. CASE next = <<>>
  <2>0. <<>> \in Seq(Edits!Ops) /\ Len(<<>>) = 0
    OBVIOUS
  <2>1. next \in Seq(Edits!Ops) /\ Len(next) = 0
    BY <1>1, <2>0, Zenon
  <2>2. 1..Len(next) = {}
    BY <2>1
  <2> QED
    BY <1>1, <2>1, <2>2 DEF Sound
<1>2. CASE next # <<>>
  <2>1. PICK m \in Nat : LeftAfter(next, todo, m, saw)
    BY <1>2, DueIs
  <2>2. next \in Seq(Edits!Ops) /\ Len(next) = Len(todo) - m /\ m >= 1 /\ Len(todo) \in Nat /\ Len(next) \in Nat
    BY <2>1 DEF LeftAfter
  <2>3. next[1] = todo[m + 1]
    <3>1. 1 \in 1..Len(next) /\ 1 + m = m + 1
      BY <1>2, <2>2
    <3> QED
      BY <2>1, <3>1 DEF LeftAfter
  <2>4. IsDue(next[1], saw)
    BY <2>1, <2>3 DEF LeftAfter
  <2>5. ASSUME NEW k \in 1..Len(next) PROVE OpSound(next, found1, S1, k)
    <3>1. k + m \in 1..Len(todo) /\ k \in Nat /\ k >= 1 /\ k + m # 1
      BY <2>2
    <3>2. next[k] = todo[k + m]
      BY <2>1 DEF LeftAfter
    <3>3. OpSound(todo, found, S, k + m)
      BY <3>1 DEF Sound
    <3>4. ASSUME next[k].op \in {"link", "edit"}, NEW x \in {next[k].a, next[k].b} PROVE x \in S1 \/ Covered(next, k, x)
      <4>1. x \in S \/ Covered(todo, k + m, x)
        BY <3>2, <3>3, <3>4 DEF OpSound
      <4> QED
        BY <2>1, <4>1, StaysCovered
    <3>5. ASSUME next[k].op = "remove"
          PROVE  k < Len(next) /\ next[k + 1] = Edits!Put(next[k].a) /\ next[k].when = "found"
      <4>1. k + m < Len(todo) /\ todo[k + m + 1] = Edits!Put(todo[k + m].a) /\ todo[k + m].when = "found"
        BY <3>2, <3>3, <3>5 DEF OpSound
      <4>2. k + 1 \in 1..Len(next) /\ (k + 1) + m = k + m + 1
        BY <2>2, <3>1, <4>1
      <4>3. next[k + 1] = todo[k + m + 1]
        BY <2>1, <4>2 DEF LeftAfter
      <4> QED
        <5>1. k < Len(next)
          BY <2>2, <3>1, <4>2
        <5>2. next[k + 1] = Edits!Put(next[k].a)
          BY <3>2, <4>1, <4>3, Zenon
        <5> QED
          BY <3>2, <4>1, <5>1, <5>2
    <3>6. ASSUME next[k].op = "mark"
          PROVE  /\ next[k].when = "found" /\ (k = 1 => found1 # {})
                 /\ k # 1 => next[k - 1].op = "find" /\ next[k - 1].when = "always"
      <4>1. todo[k + m].when = "found" /\ todo[k + m - 1].op = "find" /\ todo[k + m - 1].when = "always"
        BY <3>1, <3>2, <3>3, <3>6 DEF OpSound
      <4>2. CASE k # 1
        <5>1. k - 1 \in 1..Len(next) /\ (k - 1) + m = k + m - 1
          BY <2>2, <3>1, <4>2
        <5>2. next[k - 1] = todo[k + m - 1]
          BY <2>1, <5>1 DEF LeftAfter
        <5> QED
          BY <3>2, <4>1, <4>2, <5>2
      <4>3. CASE k = 1
        <5>1. saw
          BY <2>4, <3>2, <4>1, <4>3 DEF IsDue
        <5>2. todo[m].op = "find" /\ todo[m].when = "always"
          <6>1. k + m - 1 = m
            BY <2>2, <4>3
          <6> QED
            BY <4>1, <6>1
        <5>3. m = 1
          <6> SUFFICES ASSUME m # 1 PROVE FALSE
            OBVIOUS
          <6>1. m \in 2..m
            BY <2>2
          <6> QED
            BY <2>1, <5>2, <6>1 DEF LeftAfter, IsDue
        <5> QED
          BY <3>2, <4>1, <4>3, <5>1, <5>2, <5>3 DEF HeadDone
      <4> QED
        BY <4>2, <4>3
    <3> QED
      BY <3>4, <3>5, <3>6 DEF OpSound
  <2> QED
    BY <2>2, <2>4, <2>5 DEF Sound
<1> QED
  BY <1>1, <1>2

(* More assets are no harm.                                                   *)
LEMMA SoundGrows ==
  ASSUME NEW S, NEW S1, S \subseteq S1, NEW todo, NEW found, Sound(todo, found, S)
  PROVE  Sound(todo, found, S1)
  BY DEF Sound, OpSound

(* What the calls of the writers are.                                         *)
CallIs(o, op, when, a, b) == o \in Edits!Ops /\ o.op = op /\ o.when = when /\ o.a = a /\ o.b = b

(* The operations are what they are called.                                   *)
LEMMA CallsAre ==
  ASSUME NEW a \in Assets, NEW b \in Assets
  PROVE  /\ \A op \in {"look", "put", "remove", "link", "unique", "edit", "mark"}, when \in {"always", "found",
             "missing"} :
              CallIs(Edits!Do(op, when, a, b), op, when, a, b)
         /\ CallIs(Edits!Look(a), "look", "always", a, a) /\ CallIs(Edits!LookToo(a), "look", "found", a, a)
         /\ CallIs(Edits!Put(a), "put", "always", a, a) /\ CallIs(Edits!PutMissing(a), "put", "missing", a, a)
         /\ CallIs(Edits!RemoveFound(a), "remove", "found", a, a) /\ CallIs(Edits!Link(a, b), "link", "always", a, b)
         /\ \A d \in Calls : CallIs(Edits!Find(a, b, d), "find", "always", a, b)
<1>1. ASSUME NEW op \in {"look", "put", "remove", "link", "unique", "edit", "mark"}, NEW when \in {"always", "found",
          "missing"},
             NEW x \in Assets, NEW y \in Assets
      PROVE  CallIs(Edits!Do(op, when, x, y), op, when, x, y)
  BY DEF Edits!Do, Edits!Ops, CallIs
<1>2. ASSUME NEW d \in Calls PROVE CallIs(Edits!Find(a, b, d), "find", "always", a, b)
  BY DEF Edits!Find, Edits!Ops, CallIs
<1>3. CallIs(Edits!Look(a), "look", "always", a, a) /\ CallIs(Edits!LookToo(a), "look", "found", a, a)
  BY <1>1 DEF Edits!Look, Edits!LookToo
<1>4. CallIs(Edits!Put(a), "put", "always", a, a) /\ CallIs(Edits!PutMissing(a), "put", "missing", a, a)
  BY <1>1 DEF Edits!Put, Edits!PutMissing
<1>5. CallIs(Edits!RemoveFound(a), "remove", "found", a, a) /\ CallIs(Edits!Link(a, b), "link", "always", a, b)
  BY <1>1 DEF Edits!RemoveFound, Edits!Link
<1> QED
  BY <1>1, <1>2, <1>3, <1>4, <1>5

(* A program is fit to begin when it is sound before anything was done.       *)
Fit(todo) == todo \in Seq(Edits!Ops) /\ todo # <<>> /\ todo[1].when = "always" /\ Sound(todo, {}, {})

(* To fit is to be sound at every operation.                                  *)
LEMMA Fits ==
  ASSUME NEW p \in Seq(Edits!Ops), p[1].when = "always", NEW n \in Nat \ {0}, Len(p) = n,
         \A k \in 1..n : OpSound(p, {}, {}, k)
  PROVE  Fit(p)
  BY DEF Fit, Sound

(* The programs of the writers fit: update_lineage from a dataset to itself,  *)
LEMMA CheckFits ==
  ASSUME NEW s \in Assets, NEW t \in Assets
  PROVE  Fit(<<Edits!Look(s), Edits!LookToo(t)>>)
<1>1. PICK o1 : o1 = Edits!Look(s) /\ CallIs(o1, "look", "always", s, s)
  BY CallsAre
<1>2. PICK o2 : o2 = Edits!LookToo(t) /\ CallIs(o2, "look", "found", t, t)
  BY CallsAre
<1>p. PICK q : q = <<o1, o2>>
  OBVIOUS
<1>q. q \in Seq(Edits!Ops) /\ Len(q) = 2 /\ q[1] = o1 /\ q[2] = o2
  BY <1>1, <1>2, <1>p DEF CallIs
<1>s1. OpSound(q, {}, {}, 1)
  BY <1>q, <1>1 DEF CallIs, OpSound
<1>s2. OpSound(q, {}, {}, 2)
  BY <1>q, <1>2 DEF CallIs, OpSound
<1>t. Fit(q)
  <2>1. \A k \in 1..2 : OpSound(q, {}, {}, k)
    <3> TAKE k \in 1..2
    <3>1. k = 1 \/ k = 2
      OBVIOUS
    <3> QED
      BY <3>1, <1>s1, <1>s2
  <2>2. q[1].when = "always" /\ 2 \in Nat \ {0}
    BY <1>1, <1>q DEF CallIs
  <2> QED
    BY <1>q, <2>1, <2>2, Fits
<1> QED
  BY <1>p, <1>t, <1>1, <1>2, Zenon

(* update_lineage,                                                            *)
LEMMA UpdateFits ==
  ASSUME NEW s \in Assets, NEW t \in Assets
  PROVE  Fit(<<Edits!Look(s), Edits!LookToo(t), Edits!Do("unique", "found", s, t), Edits!Do("edit", "found", s, t)>>)
<1>1. PICK o1 : o1 = Edits!Look(s) /\ CallIs(o1, "look", "always", s, s)
  BY CallsAre
<1>2. PICK o2 : o2 = Edits!LookToo(t) /\ CallIs(o2, "look", "found", t, t)
  BY CallsAre
<1>3. PICK o3 : o3 = Edits!Do("unique", "found", s, t) /\ CallIs(o3, "unique", "found", s, t)
  BY CallsAre
<1>4. PICK o4 : o4 = Edits!Do("edit", "found", s, t) /\ CallIs(o4, "edit", "found", s, t)
  BY CallsAre
<1>p. PICK q : q = <<o1, o2, o3, o4>>
  OBVIOUS
<1>q. q \in Seq(Edits!Ops) /\ Len(q) = 4 /\ q[1] = o1 /\ q[2] = o2 /\ q[3] = o3 /\ q[4] = o4
  BY <1>1, <1>2, <1>3, <1>4, <1>p DEF CallIs
<1>c1. Covered(q, 4, s)
  <2>1. \A l \in 2..4 : q[l].when = "found"
    BY <1>q, <1>2, <1>3, <1>4 DEF CallIs
  <2> QED
    BY <1>q, <1>1, <2>1 DEF CallIs, Covered
<1>c2. Covered(q, 4, t)
  <2>1. \A l \in 3..4 : q[l].when = "found"
    BY <1>q, <1>3, <1>4 DEF CallIs
  <2> QED
    BY <1>q, <1>2, <2>1 DEF CallIs, Covered
<1>s1. OpSound(q, {}, {}, 1)
  BY <1>q, <1>1 DEF CallIs, OpSound
<1>s2. OpSound(q, {}, {}, 2)
  BY <1>q, <1>2 DEF CallIs, OpSound
<1>s3. OpSound(q, {}, {}, 3)
  BY <1>q, <1>3 DEF CallIs, OpSound
<1>s4. OpSound(q, {}, {}, 4)
  BY <1>q, <1>4, <1>c1, <1>c2 DEF CallIs, OpSound
<1>t. Fit(q)
  <2>1. \A k \in 1..4 : OpSound(q, {}, {}, k)
    <3> TAKE k \in 1..4
    <3>1. k = 1 \/ k = 2 \/ k = 3 \/ k = 4
      OBVIOUS
    <3> QED
      BY <3>1, <1>s1, <1>s2, <1>s3, <1>s4
  <2>2. q[1].when = "always" /\ 4 \in Nat \ {0}
    BY <1>1, <1>q DEF CallIs
  <2> QED
    BY <1>q, <2>1, <2>2, Fits
<1> QED
  BY <1>p, <1>t, <1>1, <1>2, <1>3, <1>4, Zenon

(* its soft-delete,                                                           *)
LEMMA DeleteFits ==
  ASSUME NEW s \in Assets, NEW t \in Assets, NEW d \in Calls
  PROVE  Fit(<<Edits!Find(s, t, d), Edits!Do("mark", "found", s, t)>>)
<1>1. PICK o1 : o1 = Edits!Find(s, t, d) /\ CallIs(o1, "find", "always", s, t)
  BY CallsAre
<1>2. PICK o2 : o2 = Edits!Do("mark", "found", s, t) /\ CallIs(o2, "mark", "found", s, t)
  BY CallsAre
<1>p. PICK q : q = <<o1, o2>>
  OBVIOUS
<1>q. q \in Seq(Edits!Ops) /\ Len(q) = 2 /\ q[1] = o1 /\ q[2] = o2
  BY <1>1, <1>2, <1>p DEF CallIs
<1>s1. OpSound(q, {}, {}, 1)
  BY <1>q, <1>1 DEF CallIs, OpSound
<1>s2. OpSound(q, {}, {}, 2)
  BY <1>q, <1>2, <1>1 DEF CallIs, OpSound
<1>t. Fit(q)
  <2>1. \A k \in 1..2 : OpSound(q, {}, {}, k)
    <3> TAKE k \in 1..2
    <3>1. k = 1 \/ k = 2
      OBVIOUS
    <3> QED
      BY <3>1, <1>s1, <1>s2
  <2>2. q[1].when = "always" /\ 2 \in Nat \ {0}
    BY <1>1, <1>q DEF CallIs
  <2> QED
    BY <1>q, <2>1, <2>2, Fits
<1> QED
  BY <1>p, <1>t, <1>1, <1>2, Zenon

(* register_pipeline_asset,                                                   *)
LEMMA RegisterFits ==
  ASSUME NEW p \in Assets, NEW s \in Assets, NEW t \in Assets
  PROVE  Fit(<<Edits!Put(p), Edits!Look(s), Edits!PutMissing(s), Edits!Link(s, p), Edits!Look(t),
               Edits!PutMissing(t), Edits!Link(p, t)>>)
<1>1. PICK o1 : o1 = Edits!Put(p) /\ CallIs(o1, "put", "always", p, p)
  BY CallsAre
<1>2. PICK o2 : o2 = Edits!Look(s) /\ CallIs(o2, "look", "always", s, s)
  BY CallsAre
<1>3. PICK o3 : o3 = Edits!PutMissing(s) /\ CallIs(o3, "put", "missing", s, s)
  BY CallsAre
<1>4. PICK o4 : o4 = Edits!Link(s, p) /\ CallIs(o4, "link", "always", s, p)
  BY CallsAre
<1>5. PICK o5 : o5 = Edits!Look(t) /\ CallIs(o5, "look", "always", t, t)
  BY CallsAre
<1>6. PICK o6 : o6 = Edits!PutMissing(t) /\ CallIs(o6, "put", "missing", t, t)
  BY CallsAre
<1>7. PICK o7 : o7 = Edits!Link(p, t) /\ CallIs(o7, "link", "always", p, t)
  BY CallsAre
<1>p. PICK q : q = <<o1, o2, o3, o4, o5, o6, o7>>
  OBVIOUS
<1>q. q \in Seq(Edits!Ops) /\ Len(q) = 7 /\ q[1] = o1 /\ q[2] = o2 /\ q[3] = o3 /\ q[4] = o4 /\ q[5] = o5
          /\ q[6] = o6 /\ q[7] = o7
  BY <1>1, <1>2, <1>3, <1>4, <1>5, <1>6, <1>7, <1>p DEF CallIs
<1>c1. Covered(q, 4, s)
  BY <1>q, <1>2, <1>3 DEF CallIs, Covered
<1>c2. Covered(q, 4, p)
  BY <1>q, <1>1 DEF CallIs, Covered
<1>c3. Covered(q, 7, p)
  BY <1>q, <1>1 DEF CallIs, Covered
<1>c4. Covered(q, 7, t)
  BY <1>q, <1>5, <1>6 DEF CallIs, Covered
<1>s1. OpSound(q, {}, {}, 1)
  BY <1>q, <1>1 DEF CallIs, OpSound
<1>s2. OpSound(q, {}, {}, 2)
  BY <1>q, <1>2 DEF CallIs, OpSound
<1>s3. OpSound(q, {}, {}, 3)
  BY <1>q, <1>3 DEF CallIs, OpSound
<1>s4. OpSound(q, {}, {}, 4)
  BY <1>q, <1>4, <1>c1, <1>c2 DEF CallIs, OpSound
<1>s5. OpSound(q, {}, {}, 5)
  BY <1>q, <1>5 DEF CallIs, OpSound
<1>s6. OpSound(q, {}, {}, 6)
  BY <1>q, <1>6 DEF CallIs, OpSound
<1>s7. OpSound(q, {}, {}, 7)
  BY <1>q, <1>7, <1>c3, <1>c4 DEF CallIs, OpSound
<1>t. Fit(q)
  <2>1. \A k \in 1..7 : OpSound(q, {}, {}, k)
    <3> TAKE k \in 1..7
    <3>1. k = 1 \/ k = 2 \/ k = 3 \/ k = 4 \/ k = 5 \/ k = 6 \/ k = 7
      OBVIOUS
    <3> QED
      BY <3>1, <1>s1, <1>s2, <1>s3, <1>s4, <1>s5, <1>s6, <1>s7
  <2>2. q[1].when = "always" /\ 7 \in Nat \ {0}
    BY <1>1, <1>q DEF CallIs
  <2> QED
    BY <1>q, <2>1, <2>2, Fits
<1> QED
  BY <1>p, <1>t, <1>1, <1>2, <1>3, <1>4, <1>5, <1>6, <1>7, Zenon

(* the OpenLineage consumer,                                                  *)
LEMMA IngestFits ==
  ASSUME NEW j \in Assets, NEW i \in Assets, NEW o \in Assets
  PROVE  Fit(<<Edits!Look(j), Edits!PutMissing(j), Edits!Look(i), Edits!PutMissing(i), Edits!Link(i, j),
               Edits!Look(o), Edits!PutMissing(o), Edits!Link(j, o), Edits!Link(i, o)>>)
<1>1. PICK o1 : o1 = Edits!Look(j) /\ CallIs(o1, "look", "always", j, j)
  BY CallsAre
<1>2. PICK o2 : o2 = Edits!PutMissing(j) /\ CallIs(o2, "put", "missing", j, j)
  BY CallsAre
<1>3. PICK o3 : o3 = Edits!Look(i) /\ CallIs(o3, "look", "always", i, i)
  BY CallsAre
<1>4. PICK o4 : o4 = Edits!PutMissing(i) /\ CallIs(o4, "put", "missing", i, i)
  BY CallsAre
<1>5. PICK o5 : o5 = Edits!Link(i, j) /\ CallIs(o5, "link", "always", i, j)
  BY CallsAre
<1>6. PICK o6 : o6 = Edits!Look(o) /\ CallIs(o6, "look", "always", o, o)
  BY CallsAre
<1>7. PICK o7 : o7 = Edits!PutMissing(o) /\ CallIs(o7, "put", "missing", o, o)
  BY CallsAre
<1>8. PICK o8 : o8 = Edits!Link(j, o) /\ CallIs(o8, "link", "always", j, o)
  BY CallsAre
<1>9. PICK o9 : o9 = Edits!Link(i, o) /\ CallIs(o9, "link", "always", i, o)
  BY CallsAre
<1>p. PICK q : q = <<o1, o2, o3, o4, o5, o6, o7, o8, o9>>
  OBVIOUS
<1>q. q \in Seq(Edits!Ops) /\ Len(q) = 9 /\ q[1] = o1 /\ q[2] = o2 /\ q[3] = o3 /\ q[4] = o4 /\ q[5] = o5
          /\ q[6] = o6 /\ q[7] = o7 /\ q[8] = o8 /\ q[9] = o9
  BY <1>1, <1>2, <1>3, <1>4, <1>5, <1>6, <1>7, <1>8, <1>9, <1>p DEF CallIs
<1>c1. Covered(q, 5, i)
  BY <1>q, <1>3, <1>4 DEF CallIs, Covered
<1>c2. Covered(q, 5, j)
  BY <1>q, <1>1, <1>2 DEF CallIs, Covered
<1>c3. Covered(q, 8, j)
  BY <1>q, <1>1, <1>2 DEF CallIs, Covered
<1>c4. Covered(q, 8, o)
  BY <1>q, <1>6, <1>7 DEF CallIs, Covered
<1>c5. Covered(q, 9, i)
  BY <1>q, <1>3, <1>4 DEF CallIs, Covered
<1>c6. Covered(q, 9, o)
  BY <1>q, <1>6, <1>7 DEF CallIs, Covered
<1>s1. OpSound(q, {}, {}, 1)
  BY <1>q, <1>1 DEF CallIs, OpSound
<1>s2. OpSound(q, {}, {}, 2)
  BY <1>q, <1>2 DEF CallIs, OpSound
<1>s3. OpSound(q, {}, {}, 3)
  BY <1>q, <1>3 DEF CallIs, OpSound
<1>s4. OpSound(q, {}, {}, 4)
  BY <1>q, <1>4 DEF CallIs, OpSound
<1>s5. OpSound(q, {}, {}, 5)
  BY <1>q, <1>5, <1>c1, <1>c2 DEF CallIs, OpSound
<1>s6. OpSound(q, {}, {}, 6)
  BY <1>q, <1>6 DEF CallIs, OpSound
<1>s7. OpSound(q, {}, {}, 7)
  BY <1>q, <1>7 DEF CallIs, OpSound
<1>s8. OpSound(q, {}, {}, 8)
  BY <1>q, <1>8, <1>c3, <1>c4 DEF CallIs, OpSound
<1>s9. OpSound(q, {}, {}, 9)
  BY <1>q, <1>9, <1>c5, <1>c6 DEF CallIs, OpSound
<1>t. Fit(q)
  <2>1. \A k \in 1..9 : OpSound(q, {}, {}, k)
    <3> TAKE k \in 1..9
    <3>1. k = 1 \/ k = 2 \/ k = 3 \/ k = 4 \/ k = 5 \/ k = 6 \/ k = 7 \/ k = 8 \/ k = 9
      OBVIOUS
    <3> QED
      BY <3>1, <1>s1, <1>s2, <1>s3, <1>s4, <1>s5, <1>s6, <1>s7, <1>s8, <1>s9
  <2>2. q[1].when = "always" /\ 9 \in Nat \ {0}
    BY <1>1, <1>q DEF CallIs
  <2> QED
    BY <1>q, <2>1, <2>2, Fits
<1> QED
  BY <1>p, <1>t, <1>1, <1>2, <1>3, <1>4, <1>5, <1>6, <1>7, <1>8, <1>9, Zenon

(* and the persister.                                                         *)
LEMMA PersistFits ==
  ASSUME NEW a \in Assets, NEW b \in Assets
  PROVE  Fit(<<Edits!Look(a), Edits!RemoveFound(a), Edits!Put(a), Edits!Look(b), Edits!RemoveFound(b),
               Edits!Put(b), Edits!Look(a), Edits!LookToo(b), Edits!Do("link", "found", a, b)>>)
<1>1. PICK o1 : o1 = Edits!Look(a) /\ CallIs(o1, "look", "always", a, a)
  BY CallsAre
<1>2. PICK o2 : o2 = Edits!RemoveFound(a) /\ CallIs(o2, "remove", "found", a, a)
  BY CallsAre
<1>3. PICK o3 : o3 = Edits!Put(a) /\ CallIs(o3, "put", "always", a, a)
  BY CallsAre
<1>4. PICK o4 : o4 = Edits!Look(b) /\ CallIs(o4, "look", "always", b, b)
  BY CallsAre
<1>5. PICK o5 : o5 = Edits!RemoveFound(b) /\ CallIs(o5, "remove", "found", b, b)
  BY CallsAre
<1>6. PICK o6 : o6 = Edits!Put(b) /\ CallIs(o6, "put", "always", b, b)
  BY CallsAre
<1>7. PICK o7 : o7 = Edits!Look(a) /\ CallIs(o7, "look", "always", a, a)
  BY CallsAre
<1>8. PICK o8 : o8 = Edits!LookToo(b) /\ CallIs(o8, "look", "found", b, b)
  BY CallsAre
<1>9. PICK o9 : o9 = Edits!Do("link", "found", a, b) /\ CallIs(o9, "link", "found", a, b)
  BY CallsAre
<1>p. PICK q : q = <<o1, o2, o3, o4, o5, o6, o7, o8, o9>>
  OBVIOUS
<1>q. q \in Seq(Edits!Ops) /\ Len(q) = 9 /\ q[1] = o1 /\ q[2] = o2 /\ q[3] = o3 /\ q[4] = o4 /\ q[5] = o5
          /\ q[6] = o6 /\ q[7] = o7 /\ q[8] = o8 /\ q[9] = o9
  BY <1>1, <1>2, <1>3, <1>4, <1>5, <1>6, <1>7, <1>8, <1>9, <1>p DEF CallIs
<1>c1. Covered(q, 9, a)
  BY <1>q, <1>3 DEF CallIs, Covered
<1>c2. Covered(q, 9, b)
  BY <1>q, <1>6 DEF CallIs, Covered
<1>s1. OpSound(q, {}, {}, 1)
  BY <1>q, <1>1 DEF CallIs, OpSound
<1>s2. OpSound(q, {}, {}, 2)
  BY <1>q, <1>2, <1>3 DEF CallIs, OpSound
<1>s3. OpSound(q, {}, {}, 3)
  BY <1>q, <1>3 DEF CallIs, OpSound
<1>s4. OpSound(q, {}, {}, 4)
  BY <1>q, <1>4 DEF CallIs, OpSound
<1>s5. OpSound(q, {}, {}, 5)
  BY <1>q, <1>5, <1>6 DEF CallIs, OpSound
<1>s6. OpSound(q, {}, {}, 6)
  BY <1>q, <1>6 DEF CallIs, OpSound
<1>s7. OpSound(q, {}, {}, 7)
  BY <1>q, <1>7 DEF CallIs, OpSound
<1>s8. OpSound(q, {}, {}, 8)
  BY <1>q, <1>8 DEF CallIs, OpSound
<1>s9. OpSound(q, {}, {}, 9)
  BY <1>q, <1>9, <1>c1, <1>c2 DEF CallIs, OpSound
<1>t. Fit(q)
  <2>1. \A k \in 1..9 : OpSound(q, {}, {}, k)
    <3> TAKE k \in 1..9
    <3>1. k = 1 \/ k = 2 \/ k = 3 \/ k = 4 \/ k = 5 \/ k = 6 \/ k = 7 \/ k = 8 \/ k = 9
      OBVIOUS
    <3> QED
      BY <3>1, <1>s1, <1>s2, <1>s3, <1>s4, <1>s5, <1>s6, <1>s7, <1>s8, <1>s9
  <2>2. q[1].when = "always" /\ 9 \in Nat \ {0}
    BY <1>1, <1>q DEF CallIs
  <2> QED
    BY <1>q, <2>1, <2>2, Fits
<1> QED
  BY <1>p, <1>t, <1>1, <1>2, <1>3, <1>4, <1>5, <1>6, <1>7, <1>8, <1>9, Zenon

(* The assets that are in the graph, or will be put back by the next step of  *)
(* the call that removed them.                                                *)
SolidSet == {x \in Assets : nodes[x] # Absent} \cup Edits!Replaced
Ends(e) == {e.source, e.target}

EdgesInv(S) ==
  /\ outEdges \in [Assets -> SUBSET Edits!Added] /\ inEdges \in [Assets -> SUBSET Edits!Added]
  /\ \A a \in Assets : \A e \in outEdges[a] : e.source = a /\ e \in inEdges[e.target] /\ Ends(e) \subseteq S
  /\ \A a \in Assets : \A e \in inEdges[a] : e.target = a /\ e \in outEdges[e.source]
  /\ \A e \in links : e \in Edits!Added /\ e \in outEdges[e.source]

JobSound(j, S) == /\ j.todo # <<>> => IsDue(j.todo[1], j.seen)
                  /\ Sound(j.todo, j.found, S)
                  /\ \A e \in j.found : Ends(e) \subseteq S
JobsInv(S) == /\ job \in [Calls -> Edits!Jobs \cup {Absent}]
              /\ \A c \in Calls : job[c] # Absent => JobSound(job[c], S)

EditsIInv == nodes \in [Assets -> Kinds \cup {Absent}] /\ EdgesInv(SolidSet) /\ JobsInv(SolidSet)

(* The assumptions on the constants that the proofs use.                      *)
LEMMA EditsKind ==
  ASSUME Edits!WritersAssumption
  PROVE  Edits!Kind \in Kinds /\ Edits!Kind # Absent /\ Absent \notin Edits!Jobs
<1>1. Kinds # {} /\ Absent \notin Kinds /\ Absent \notin Edits!Jobs
  BY DEF Edits!WritersAssumption, Edits!GraphAssumption
<1>2. Edits!Kind \in Kinds
  BY <1>1 DEF Edits!Kind
<1> QED
  BY <1>1, <1>2

(* The lineage is so at the start.                                            *)
LEMMA EditsInit == ASSUME Edits!WritersAssumption, Edits!LineageInit PROVE EditsIInv
<1>1. nodes \in [Assets -> Kinds \cup {Absent}]
  BY EditsKind DEF Edits!LineageInit
<1>2. EdgesInv(SolidSet)
  BY DEF Edits!LineageInit, EdgesInv
<1>3. JobsInv(SolidSet)
  BY DEF Edits!LineageInit, JobsInv
<1> QED
  BY <1>1, <1>2, <1>3 DEF EditsIInv

(* An edge that was added, and the copy that marks it.                        *)
LEMMA AddedIs ==
  ASSUME NEW e \in Edits!Added
  PROVE  /\ e.source \in Assets /\ e.target \in Assets /\ e.columns = Edits!Table
         /\ [e EXCEPT !.deleted = TRUE] \in Edits!Added
         /\ Ends([e EXCEPT !.deleted = TRUE]) = Ends(e)
  BY DEF Edits!Added, Ends

(* More assets are no harm.                                                   *)
LEMMA JobGrows ==
  ASSUME NEW S, NEW S1, S \subseteq S1, NEW j, JobSound(j, S)
  PROVE  JobSound(j, S1)
<1>1. Sound(j.todo, j.found, S1)
  BY SoundGrows DEF JobSound
<1> QED
  BY <1>1 DEF JobSound

(* What is put back, and by whom.                                             *)
JobsType(J) == J \in [Calls -> Edits!Jobs \cup {Absent}]
Puts(j) == j # Absent /\ j.todo # <<>> /\ j.todo[1].op = "put" /\ j.seen
PutBack(J) == {Head(J[c].todo).a : c \in {d \in Calls : /\ J[d] # Absent /\ J[d].todo # <<>>
                                                        /\ Head(J[d].todo).op = "put" /\ J[d].seen}}

(* The parts of a call under way.                                             *)
LEMMA JobIs ==
  ASSUME NEW j \in Edits!Jobs \cup {Absent}, Absent \notin Edits!Jobs, j # Absent
  PROVE  /\ j \in Edits!Jobs /\ j.todo \in Seq(Edits!Ops) /\ j.seen \in BOOLEAN /\ j.found \subseteq Edits!Added
         /\ j.todo # <<>> => /\ Head(j.todo) = j.todo[1] /\ j.todo[1] \in Edits!Ops
                             /\ j.todo[1].a \in Assets /\ j.todo[1].b \in Assets
<1>1. j \in Edits!Jobs /\ j.todo \in Seq(Edits!Ops) /\ j.seen \in BOOLEAN /\ j.found \subseteq Edits!Added
  BY DEF Edits!Jobs
<1>t. PICK t \in Seq(Edits!Ops) : t = j.todo
  BY <1>1
<1>2. t # <<>> => Head(t) = t[1] /\ t[1] \in Edits!Ops
  OBVIOUS
<1>3. \A o \in Edits!Ops : o.a \in Assets /\ o.b \in Assets
  BY DEF Edits!Ops
<1> QED
  BY <1>1, <1>t, <1>2, <1>3

(* An asset is put back by the call whose next operation that is.             *)
LEMMA InPutBack ==
  ASSUME NEW J, JobsType(J), Absent \notin Edits!Jobs
  PROVE  /\ \A x : x \in PutBack(J) <=> \E d \in Calls : Puts(J[d]) /\ x = J[d].todo[1].a
         /\ PutBack(J) \subseteq Assets
<1>1. \A d \in Calls : J[d] # Absent /\ J[d].todo # <<>> => Head(J[d].todo) = J[d].todo[1] /\ J[d].todo[1].a \in Assets
  BY JobIs DEF JobsType
<1> QED
  BY <1>1 DEF PutBack, Puts

(* The assets that a crawl replaces are put back.                             *)
LEMMA ReplacedIs == Edits!Replaced = PutBack(job) /\ Edits!Replaced' = PutBack(job')
  BY Zenon DEF Edits!Replaced, Edits!Busy, PutBack

(* One call goes on.                                                          *)
LEMMA JobMoves ==
  ASSUME Absent \notin Edits!Jobs, NEW S, NEW S1, S \subseteq S1, JobsInv(S),
         NEW c \in Calls, job[c] # Absent, job[c].todo # <<>>, NEW saw \in BOOLEAN, NEW found \in SUBSET Edits!Added,
         HeadDone(job[c].todo[1], saw, found, S1), \A e \in found : Ends(e) \subseteq S1, Edits!Goes(c, saw, found)
  PROVE  JobsType(job') /\ \A d \in Calls : job'[d] # Absent => JobSound(job'[d], S1)
<1>0. JobsType(job) /\ \A d \in Calls : job[d] # Absent => JobSound(job[d], S)
  BY DEF JobsInv, JobsType
<1>1. job[c] \in Edits!Jobs /\ job[c].todo \in Seq(Edits!Ops) /\ Sound(job[c].todo, job[c].found, S)
  BY <1>0, JobIs DEF JobsType, JobSound
<1>2. PICK next : next = Edits!Due(Tail(job[c].todo), saw)
  OBVIOUS
<1>3. next \in Seq(Edits!Ops) /\ Sound(next, found, S1) /\ (next # <<>> => IsDue(next[1], saw))
  <2>1. PICK todo \in Seq(Edits!Ops) : todo = job[c].todo
    BY <1>1
  <2>2. todo # <<>> /\ Sound(todo, job[c].found, S) /\ HeadDone(todo[1], saw, found, S1)
    BY <1>1, <2>1
  <2>3. next = Edits!Due(Tail(todo), saw)
    BY <1>2, <2>1
  <2>4. PICK had : had = job[c].found
    OBVIOUS
  <2> QED
    BY <2>2, <2>3, <2>4, StaysSound
<1>4. PICK j : j = [todo |-> next, seen |-> saw, found |-> found]
  OBVIOUS
<1>5. j \in Edits!Jobs /\ JobSound(j, S1)
  BY <1>3, <1>4 DEF Edits!Jobs, JobSound
<1>6. job' = [job EXCEPT ![c] = j]
  BY <1>2, <1>4 DEF Edits!Goes
<1>7. JobsType(job') /\ job'[c] = j /\ \A d \in Calls \ {c} : job'[d] = job[d]
  BY <1>0, <1>5, <1>6 DEF JobsType
<1>8. ASSUME NEW d \in Calls, job'[d] # Absent PROVE JobSound(job'[d], S1)
  <2>1. CASE d = c
    BY <1>5, <1>7, <2>1
  <2>2. CASE d # c
    <3>1. JobSound(job[d], S) /\ job'[d] = job[d]
      BY <1>0, <1>7, <1>8, <2>2
    <3> QED
      BY <3>1, JobGrows
  <2> QED
    BY <2>1, <2>2
<1> QED
  BY <1>7, <1>8

(* A call that goes on is a call under way.                                   *)
LEMMA GoesTypes ==
  ASSUME JobsType(job), NEW c \in Calls, job[c] # Absent, Absent \notin Edits!Jobs, job[c].todo # <<>>,
         NEW saw \in BOOLEAN, NEW found \in SUBSET Edits!Added, Edits!Goes(c, saw, found)
  PROVE  /\ JobsType(job') /\ \A d \in Calls \ {c} : job'[d] = job[d]
         /\ job'[c] = [todo |-> Edits!Due(Tail(job[c].todo), saw), seen |-> saw, found |-> found]
<1>1. job[c].todo \in Seq(Edits!Ops)
  BY JobIs DEF JobsType
<1>2. PICK next : next = Edits!Due(Tail(job[c].todo), saw)
  OBVIOUS
<1>3. next \in Seq(Edits!Ops)
  <2>1. next = <<>> \/ \E m \in Nat : LeftAfter(next, job[c].todo, m, saw)
    BY <1>1, <1>2, DueIs
  <2>2. <<>> \in Seq(Edits!Ops)
    OBVIOUS
  <2>3. ASSUME next = <<>> PROVE next \in Seq(Edits!Ops)
    BY <2>2, <2>3, Zenon
  <2> QED
    BY <2>1, <2>3 DEF LeftAfter
<1>4. PICK j : j = [todo |-> next, seen |-> saw, found |-> found]
  OBVIOUS
<1>5. j \in Edits!Jobs
  BY <1>3, <1>4 DEF Edits!Jobs
<1>6. job' = [job EXCEPT ![c] = j]
  BY <1>2, <1>4 DEF Edits!Goes
<1> QED
  BY <1>2, <1>4, <1>5, <1>6 DEF JobsType

(* What is solid stays so, unless it is taken out of the graph and not about  *)
(* to be put back.                                                            *)
LEMMA SolidMoves ==
  ASSUME JobsType(job), JobsType(job'), Absent \notin Edits!Jobs, NEW c \in Calls,
         \A d \in Calls \ {c} : job'[d] = job[d],
         \A x \in Assets : nodes[x] # Absent => nodes'[x] # Absent \/ x \in Edits!Replaced',
         Puts(job[c]) => nodes'[job[c].todo[1].a] # Absent
  PROVE  SolidSet \subseteq SolidSet'
<1>1. SolidSet = {x \in Assets : nodes[x] # Absent} \cup PutBack(job)
      /\ SolidSet' = {x \in Assets : nodes'[x] # Absent} \cup PutBack(job')
  BY ReplacedIs DEF SolidSet
<1>2. ASSUME NEW x \in PutBack(job) PROVE x \in SolidSet'
  <2>1. x \in Assets
    BY InPutBack
  <2>2. PICK d \in Calls : Puts(job[d]) /\ x = job[d].todo[1].a
    BY InPutBack
  <2>3. CASE d = c
    BY <1>1, <2>1, <2>2, <2>3
  <2>4. CASE d # c
    <3>1. Puts(job'[d]) /\ x = job'[d].todo[1].a
      BY <2>2, <2>4
    <3>2. x \in PutBack(job')
      BY <3>1, InPutBack
    <3> QED
      BY <1>1, <3>2
  <2> QED
    BY <2>3, <2>4
<1> QED
  BY <1>1, <1>2, ReplacedIs

(* The edges stay as they are while the graph does.                           *)
LEMMA EdgesStay ==
  ASSUME EdgesInv(SolidSet), UNCHANGED <<nodes, outEdges, inEdges>>, links' \subseteq links, SolidSet \subseteq SolidSet'
  PROVE  EdgesInv(SolidSet)'
<1>1. /\ outEdges' \in [Assets -> SUBSET Edits!Added] /\ inEdges' \in [Assets -> SUBSET Edits!Added]
      /\ Edits!Added' = Edits!Added
  BY DEF EdgesInv, Edits!Added, Edits!Table
<1>2. ASSUME NEW a \in Assets, NEW e \in outEdges'[a]
      PROVE  e.source = a /\ e \in inEdges'[e.target] /\ Ends(e) \subseteq SolidSet'
  BY <1>2 DEF EdgesInv
<1>3. ASSUME NEW a \in Assets, NEW e \in inEdges'[a] PROVE e.target = a /\ e \in outEdges'[e.source]
  BY <1>3 DEF EdgesInv
<1>4. \A e \in links' : e \in Edits!Added /\ e \in outEdges'[e.source]
  BY DEF EdgesInv
<1> QED
  BY <1>1, <1>2, <1>3, <1>4 DEF EdgesInv, Ends

(* The calls under way after a step.                                          *)
LEMMA JobsAre ==
  ASSUME JobsType(job'), NEW S, S = SolidSet', \A d \in Calls : job'[d] # Absent => JobSound(job'[d], S)
  PROVE  JobsInv(SolidSet)'
<1>1. Edits!Jobs' = Edits!Jobs
  BY DEF Edits!Jobs, Edits!Ops, Edits!Added, Edits!Table
<1> QED
  BY <1>1 DEF JobsInv, JobsType, JobSound, Sound, OpSound, Covered, IsDue, Ends, Edits!Put, Edits!PutMissing, Edits!Do

(* A call arrives.                                                            *)
LEMMA EditsBegin ==
  ASSUME Edits!WritersAssumption, EditsIInv, NEW c \in Calls, NEW todo, Fit(todo), Edits!Begin(c, todo)
  PROVE  EditsIInv'
<1>0. Absent \notin Edits!Jobs
  BY EditsKind
<1>1. JobsType(job) /\ EdgesInv(SolidSet) /\ nodes \in [Assets -> Kinds \cup {Absent}]
      /\ \A d \in Calls : job[d] # Absent => JobSound(job[d], SolidSet)
  BY DEF EditsIInv, JobsInv, JobsType
<1>2. PICK j : j = [todo |-> todo, seen |-> FALSE, found |-> {}]
  OBVIOUS
<1>3. j \in Edits!Jobs /\ JobSound(j, {})
  <2>1. j \in Edits!Jobs
    BY <1>2 DEF Fit, Edits!Jobs
  <2> QED
    BY <1>2, <2>1 DEF Fit, JobSound, IsDue
<1>4. job' = [job EXCEPT ![c] = j] /\ job[c] = Absent /\ UNCHANGED <<nodes, outEdges, inEdges>> /\ links' = links
  BY <1>2 DEF Edits!Begin, Edits!vars
<1>5. JobsType(job') /\ job'[c] = j /\ \A d \in Calls \ {c} : job'[d] = job[d]
  BY <1>1, <1>3, <1>4 DEF JobsType
<1>6. SolidSet \subseteq SolidSet'
  <2>1. ~Puts(job[c])
    BY <1>4 DEF Puts
  <2> QED
    BY <1>0, <1>1, <1>4, <1>5, <2>1, SolidMoves
<1>s. PICK S : S = SolidSet'
  OBVIOUS
<1>7. ASSUME NEW d \in Calls, job'[d] # Absent PROVE JobSound(job'[d], S)
  <2>1. CASE d = c
    <3>1. JobSound(j, S)
      BY <1>3, JobGrows
    <3> QED
      BY <1>5, <2>1, <3>1
  <2>2. CASE d # c
    <3>1. JobSound(job[d], SolidSet) /\ job'[d] = job[d]
      BY <1>1, <1>5, <1>7, <2>2
    <3> QED
      BY <1>6, <1>s, <3>1, JobGrows
  <2> QED
    BY <2>1, <2>2
<1>8. JobsInv(SolidSet)'
  BY <1>5, <1>7, <1>s, JobsAre
<1>9. EdgesInv(SolidSet)'
  BY <1>1, <1>4, <1>6, EdgesStay
<1> QED
  BY <1>1, <1>4, <1>8, <1>9 DEF EditsIInv

(* A call that goes on has these.                                             *)
LEMMA BusyIs ==
  ASSUME Edits!WritersAssumption, EditsIInv, NEW c \in Calls, job[c] # Absent, job[c].todo # <<>>
  PROVE  /\ JobsType(job) /\ Absent \notin Edits!Jobs /\ job[c] \in Edits!Jobs /\ job[c].todo \in Seq(Edits!Ops)
         /\ Head(job[c].todo) = job[c].todo[1] /\ job[c].todo[1] \in Edits!Ops
         /\ job[c].todo[1].a \in Assets /\ job[c].todo[1].b \in Assets
         /\ IsDue(job[c].todo[1], job[c].seen) /\ OpSound(job[c].todo, job[c].found, SolidSet, 1)
         /\ job[c].seen \in BOOLEAN /\ job[c].found \subseteq Edits!Added
             /\ \A e \in job[c].found : Ends(e) \subseteq SolidSet
<1>1. JobsType(job) /\ Absent \notin Edits!Jobs /\ JobSound(job[c], SolidSet)
  BY EditsKind DEF EditsIInv, JobsInv, JobsType
<1>2. job[c] \in Edits!Jobs \cup {Absent}
  BY <1>1 DEF JobsType
<1>3. OpSound(job[c].todo, job[c].found, SolidSet, 1)
  <2>1. PICK t \in Seq(Edits!Ops) : t = job[c].todo
    BY <1>1, <1>2, JobIs
  <2>2. 1 \in 1..Len(t)
    BY <2>1
  <2> QED
    BY <1>1, <2>1, <2>2 DEF JobSound, Sound
<1> QED
  BY <1>1, <1>2, <1>3, JobIs DEF JobSound

(* A step that leaves the graph alone.                                        *)
LEMMA EditsReads ==
  ASSUME Edits!WritersAssumption, EditsIInv, NEW c \in Calls, job[c] # Absent, job[c].todo # <<>>,
         job[c].todo[1].op # "put", UNCHANGED <<nodes, outEdges, inEdges, links>>,
         NEW saw \in BOOLEAN, NEW found \in SUBSET Edits!Added, \A e \in found : Ends(e) \subseteq SolidSet,
         HeadDone(job[c].todo[1], saw, found, SolidSet), Edits!Goes(c, saw, found)
  PROVE  EditsIInv'
<1>1. JobsType(job) /\ Absent \notin Edits!Jobs
  BY BusyIs
<1>2. JobsType(job') /\ \A d \in Calls \ {c} : job'[d] = job[d]
  BY <1>1, GoesTypes
<1>3. SolidSet \subseteq SolidSet'
  <2>1. ~Puts(job[c])
    BY DEF Puts
  <2> QED
    BY <1>1, <1>2, <2>1, SolidMoves
<1>s. PICK S : S = SolidSet'
  OBVIOUS
<1>4. HeadDone(job[c].todo[1], saw, found, S) /\ (\A e \in found : Ends(e) \subseteq S) /\ SolidSet \subseteq S
  BY <1>3, <1>s DEF HeadDone
<1>5. \A d \in Calls : job'[d] # Absent => JobSound(job'[d], S)
  <2>1. JobsInv(SolidSet)
    BY DEF EditsIInv
  <2> QED
    BY <1>1, <1>4, <2>1, JobMoves
<1>6. JobsInv(SolidSet)'
  BY <1>2, <1>5, <1>s, JobsAre
<1>7. EdgesInv(SolidSet)'
  BY <1>3, EdgesStay DEF EditsIInv
<1> QED
  BY <1>6, <1>7 DEF EditsIInv

(* Every operation keeps the lineage so: the lookup of a node,                *)
LEMMA EditsLookUp ==
  ASSUME Edits!WritersAssumption, EditsIInv, NEW c \in Calls, Edits!LookUp(c)
  PROVE  EditsIInv'
<1>1. /\ job[c] # Absent /\ job[c].todo # <<>> /\ Head(job[c].todo).op = "look"
      /\ UNCHANGED <<nodes, outEdges, inEdges, links>> /\ Edits!Goes(c, nodes[Head(job[c].todo).a] # Absent, {})
  BY DEF Edits!LookUp, Edits!Busy, Edits!vars
<1>2. Head(job[c].todo) = job[c].todo[1] /\ job[c].todo[1].a \in Assets
  BY <1>1, BusyIs
<1>3. PICK saw \in BOOLEAN : saw = (nodes[job[c].todo[1].a] # Absent)
  OBVIOUS
<1>4. HeadDone(job[c].todo[1], saw, {}, SolidSet)
  BY <1>1, <1>2, <1>3 DEF HeadDone, SolidSet
<1>5. Edits!Goes(c, saw, {})
  BY <1>1, <1>2, <1>3
<1> QED
  BY <1>1, <1>2, <1>4, <1>5, EditsReads

(* that of the edges between two,                                             *)
LEMMA EditsCheckUnique ==
  ASSUME Edits!WritersAssumption, EditsIInv, NEW c \in Calls, Edits!CheckUnique(c)
  PROVE  EditsIInv'
<1>1. /\ job[c] # Absent /\ job[c].todo # <<>> /\ Head(job[c].todo).op = "unique"
      /\ UNCHANGED <<nodes, outEdges, inEdges, links>> /\ \E saw \in BOOLEAN : Edits!Goes(c, saw, {})
  BY DEF Edits!CheckUnique, Edits!Busy, Edits!vars
<1>2. Head(job[c].todo) = job[c].todo[1]
  BY <1>1, BusyIs
<1>3. PICK saw \in BOOLEAN : Edits!Goes(c, saw, {})
  BY <1>1
<1>4. HeadDone(job[c].todo[1], saw, {}, SolidSet)
  BY <1>1, <1>2 DEF HeadDone
<1> QED
  BY <1>1, <1>2, <1>3, <1>4, EditsReads

(* that of the edge to delete,                                                *)
LEMMA EditsFindEdge ==
  ASSUME Edits!WritersAssumption, EditsIInv, NEW c \in Calls, Edits!FindEdge(c)
  PROVE  EditsIInv'
<1>1. /\ job[c] # Absent /\ job[c].todo # <<>> /\ Head(job[c].todo).op = "find"
      /\ UNCHANGED <<nodes, outEdges, inEdges, links>>
  BY DEF Edits!FindEdge, Edits!Busy, Edits!vars
<1>2. Head(job[c].todo) = job[c].todo[1] /\ job[c].todo[1].a \in Assets
  BY <1>1, BusyIs
<1>3. PICK found : found \subseteq outEdges[job[c].todo[1].a] /\ Edits!Goes(c, found # {}, found)
  BY <1>2 DEF Edits!FindEdge, Edits!Between
<1>4. found \in SUBSET Edits!Added /\ \A e \in found : Ends(e) \subseteq SolidSet
  BY <1>2, <1>3 DEF EditsIInv, EdgesInv
<1>5. PICK saw \in BOOLEAN : saw = (found # {})
  OBVIOUS
<1>6. HeadDone(job[c].todo[1], saw, found, SolidSet) /\ Edits!Goes(c, saw, found)
  BY <1>1, <1>2, <1>3, <1>5 DEF HeadDone
<1> QED
  BY <1>1, <1>2, <1>4, <1>6, EditsReads

(* A call that goes on without having read anything.                          *)
LEMMA WriteTypes ==
  ASSUME JobsType(job), NEW c \in Calls, job[c] # Absent, Absent \notin Edits!Jobs, job[c].todo # <<>>,
         job[c].seen \in BOOLEAN, Edits!Goes(c, job[c].seen, {})
  PROVE  /\ JobsType(job') /\ \A d \in Calls \ {c} : job'[d] = job[d]
         /\ job'[c] = [todo |-> Edits!Due(Tail(job[c].todo), job[c].seen), seen |-> job[c].seen, found |-> {}]
<1>1. {} \in SUBSET Edits!Added
  OBVIOUS
<1> QED
  BY <1>1, GoesTypes, Zenon

(* What is left for it to do stays sound.                                     *)
LEMMA WriteMoves ==
  ASSUME Absent \notin Edits!Jobs, NEW S, NEW S1, S \subseteq S1, JobsInv(S),
         NEW c \in Calls, job[c] # Absent, job[c].todo # <<>>, job[c].seen \in BOOLEAN,
         HeadDone(job[c].todo[1], job[c].seen, {}, S1), Edits!Goes(c, job[c].seen, {})
  PROVE  \A d \in Calls : job'[d] # Absent => JobSound(job'[d], S1)
<1>1. {} \in SUBSET Edits!Added /\ \A e \in {} : Ends(e) \subseteq S1
  OBVIOUS
<1> QED
  BY <1>1, JobMoves, Zenon

(* a node that is put,                                                        *)
LEMMA EditsPutNode ==
  ASSUME Edits!WritersAssumption, EditsIInv, NEW c \in Calls, Edits!PutNode(c)
  PROVE  EditsIInv'
<1>1. /\ job[c] # Absent /\ job[c].todo # <<>> /\ Head(job[c].todo).op = "put"
      /\ nodes' = [nodes EXCEPT ![Head(job[c].todo).a] = Edits!Kind]
      /\ UNCHANGED <<outEdges, inEdges, links>> /\ Edits!Goes(c, job[c].seen, {})
  BY DEF Edits!PutNode, Edits!Busy, Edits!AddNode
<1>2. /\ Head(job[c].todo) = job[c].todo[1] /\ job[c].todo[1].a \in Assets /\ job[c].seen \in BOOLEAN
      /\ JobsType(job) /\ Absent \notin Edits!Jobs
  BY <1>1, BusyIs
<1>n. Edits!Kind \in Kinds /\ Edits!Kind # Absent
  BY EditsKind
<1>3. JobsType(job') /\ \A d \in Calls \ {c} : job'[d] = job[d]
  BY <1>1, <1>2, WriteTypes
<1>a. PICK a \in Assets : a = job[c].todo[1].a
  BY <1>2
<1>b. nodes' = [nodes EXCEPT ![a] = Edits!Kind]
  BY <1>1, <1>2, <1>a
<1>4. nodes' \in [Assets -> Kinds \cup {Absent}] /\ nodes'[a] # Absent
          /\ \A x \in Assets : nodes[x] # Absent => nodes'[x] # Absent
  BY <1>b, <1>n DEF EditsIInv
<1>5. SolidSet \subseteq SolidSet' /\ a \in SolidSet'
  <2>1. Puts(job[c]) => nodes'[job[c].todo[1].a] # Absent
    BY <1>a, <1>4
  <2>2. a \in SolidSet'
    BY <1>4 DEF SolidSet
  <2> QED
    BY <1>2, <1>3, <1>4, <2>1, <2>2, SolidMoves
<1>s. PICK S : S = SolidSet'
  OBVIOUS
<1>6. HeadDone(job[c].todo[1], job[c].seen, {}, S)
  BY <1>1, <1>2, <1>a, <1>5, <1>s DEF HeadDone
<1>7. \A d \in Calls : job'[d] # Absent => JobSound(job'[d], S)
  <2>1. JobsInv(SolidSet) /\ SolidSet \subseteq S
    BY <1>5, <1>s DEF EditsIInv
  <2> QED
    BY <1>1, <1>2, <1>6, <2>1, WriteMoves
<1>8. JobsInv(SolidSet)'
  BY <1>3, <1>7, <1>s, JobsAre
<1>9. EdgesInv(SolidSet)'
  BY <1>1, <1>5 DEF EditsIInv, EdgesInv, Ends, Edits!Added, Edits!Table
<1> QED
  BY <1>4, <1>8, <1>9 DEF EditsIInv

(* What a crawl removes it puts back next.                                    *)
LEMMA PutNext ==
  ASSUME NEW todo \in Seq(Edits!Ops), NEW found, NEW S, OpSound(todo, found, S, 1), todo # <<>>, todo[1].op = "remove"
  PROVE  LET next == Edits!Due(Tail(todo), TRUE)
         IN next # <<>> /\ next[1].op = "put" /\ next[1].a = todo[1].a
<1>0. Len(todo) \in Nat /\ Len(todo) # 0
  OBVIOUS
<1>1. 1 < Len(todo) /\ todo[2] = Edits!Put(todo[1].a) /\ todo[1].when = "found"
  BY DEF OpSound
<1>2. todo[2].op = "put" /\ todo[2].when = "always" /\ todo[2].a = todo[1].a
  BY <1>1 DEF Edits!Put, Edits!Do
<1>t. PICK t : t = Tail(todo)
  OBVIOUS
<1>3. t \in Seq(Edits!Ops) /\ Len(t) = Len(todo) - 1 /\ Len(t) >= 1 /\ t[1] = todo[2] /\ 1 \in DOMAIN t
  BY <1>0, <1>1, <1>t
<1>4. PICK due : due = {k \in DOMAIN t : t[k].when \in {"always", IF TRUE THEN "found" ELSE "missing"}}
  OBVIOUS
<1>5. Edits!Due(t, TRUE) = IF due = {} THEN <<>> ELSE SubSeq(t, Edits!Min(due), Len(t))
  BY <1>4 DEF Edits!Due
<1>6. 1 \in due /\ due \in SUBSET Nat /\ \A l \in due : 1 <= l
  BY <1>2, <1>3, <1>4
<1>7. Edits!Min(due) = 1
  <2>m. PICK m : m = Edits!Min(due)
    OBVIOUS
  <2>1. m \in due /\ \A l \in due : m <= l
    BY <1>6, <2>m DEF Edits!Min
  <2>2. m = 1
    BY <1>6, <2>1
  <2> QED
    BY <2>m, <2>2
<1>n. PICK next : next = SubSeq(t, 1, Len(t))
  OBVIOUS
<1>8. Len(next) = Len(t) /\ next[1] = t[1] /\ next # <<>>
  <2>1. \A k \in 1..Len(t) : t[k] \in Edits!Ops
    BY <1>3
  <2>2. next \in Seq(Edits!Ops) /\ Len(next) = Len(t) - 1 + 1 /\ \A k \in 1..(Len(t) - 1 + 1) : next[k] = t[1 + k - 1]
    BY <1>3, <1>n, <2>1, SubSeqProperties
  <2>3. 1 \in 1..(Len(t) - 1 + 1) /\ 1 + 1 - 1 = 1 /\ Len(t) - 1 + 1 = Len(t)
    BY <1>3
  <2>4. next[1] = t[1]
    BY <2>2, <2>3
  <2> QED
    BY <1>3, <2>2, <2>3, <2>4
<1>9. next = Edits!Due(t, TRUE)
  BY <1>5, <1>6, <1>7, <1>n
<1> QED
  BY <1>2, <1>3, <1>8, <1>9, <1>t

(* a node that is taken out,                                                  *)
LEMMA EditsTakeNode ==
  ASSUME Edits!WritersAssumption, EditsIInv, NEW c \in Calls, Edits!TakeNode(c)
  PROVE  EditsIInv'
<1>1. /\ job[c] # Absent /\ job[c].todo # <<>> /\ Head(job[c].todo).op = "remove" /\ Edits!Goes(c, job[c].seen, {})
  BY DEF Edits!TakeNode, Edits!Busy
<1>2. /\ Head(job[c].todo) = job[c].todo[1] /\ job[c].todo[1].a \in Assets /\ job[c].seen \in BOOLEAN
      /\ JobsType(job) /\ Absent \notin Edits!Jobs /\ IsDue(job[c].todo[1], job[c].seen)
      /\ job[c].todo \in Seq(Edits!Ops) /\ OpSound(job[c].todo, job[c].found, SolidSet, 1)
  BY <1>1, BusyIs
<1>a. PICK a \in Assets : a = job[c].todo[1].a
  BY <1>2
<1>3. /\ links' = {e \in links : a \notin {e.source, e.target}}
      /\ IF nodes[a] = Absent THEN UNCHANGED <<nodes, outEdges, inEdges>> ELSE Edits!RemoveNode(a)
  BY <1>2, <1>a DEF Edits!TakeNode, Edits!vars
<1>4. job[c].seen = TRUE
  <2>1. job[c].todo[1].when = "found"
    BY <1>1, <1>2 DEF OpSound
  <2> QED
    BY <1>2, <2>1 DEF IsDue
<1>5. /\ JobsType(job') /\ \A d \in Calls \ {c} : job'[d] = job[d]
      /\ job'[c] = [todo |-> Edits!Due(Tail(job[c].todo), job[c].seen), seen |-> job[c].seen, found |-> {}]
  BY <1>1, <1>2, WriteTypes
<1>6. a \in Edits!Replaced'
  <2>1. PICK next : next = Edits!Due(Tail(job[c].todo), TRUE)
    OBVIOUS
  <2>2. next # <<>> /\ next[1].op = "put" /\ next[1].a = a
    BY <1>1, <1>2, <1>a, <2>1, PutNext
  <2>3. job'[c] \in Edits!Jobs \cup {Absent} /\ job'[c] = [todo |-> next, seen |-> TRUE, found |-> {}]
    BY <1>4, <1>5, <2>1 DEF JobsType
  <2>4. job'[c].todo = next /\ job'[c].seen
    BY <2>3
  <2>5. job'[c] # Absent
    <3>1. job'[c] \in Edits!Jobs
      <4>1. next \in Seq(Edits!Ops)
        <5>1. PICK m \in Nat : LeftAfter(next, job[c].todo, m, TRUE)
          BY <1>1, <1>2, <2>1, <2>2, DueIs
        <5> QED
          BY <5>1 DEF LeftAfter
      <4> QED
        BY <2>3, <4>1 DEF Edits!Jobs
    <3> QED
      BY <1>2, <3>1
  <2>6. Puts(job'[c]) /\ job'[c].todo[1].a = a
    BY <2>2, <2>4, <2>5 DEF Puts
  <2>7. a \in PutBack(job')
    BY <1>2, <1>5, <2>6, InPutBack
  <2> QED
    BY <2>7, ReplacedIs
<1>7. SolidSet \subseteq SolidSet'
  <2>1. \A x \in Assets : nodes[x] # Absent => nodes'[x] # Absent \/ x \in Edits!Replaced'
    <3>1. CASE nodes[a] = Absent
      BY <1>3, <3>1
    <3>2. CASE nodes[a] # Absent
      <4>1. nodes' = [nodes EXCEPT ![a] = Absent]
        BY <1>3, <3>2 DEF Edits!RemoveNode
      <4> QED
        BY <1>6, <4>1 DEF EditsIInv
    <3> QED
      BY <3>1, <3>2
  <2>2. ~Puts(job[c])
    BY <1>1, <1>2 DEF Puts
  <2> QED
    BY <1>2, <1>5, <2>1, <2>2, SolidMoves
<1>s. PICK S : S = SolidSet'
  OBVIOUS
<1>8. JobsInv(SolidSet)'
  <2>1. JobsInv(SolidSet) /\ SolidSet \subseteq S
    BY <1>7, <1>s DEF EditsIInv
  <2>2. HeadDone(job[c].todo[1], job[c].seen, {}, S)
    BY <1>1, <1>2 DEF HeadDone
  <2>3. \A d \in Calls : job'[d] # Absent => JobSound(job'[d], S)
    BY <1>1, <1>2, <2>1, <2>2, WriteMoves
  <2> QED
    BY <1>5, <1>s, <2>3, JobsAre
<1>9. EdgesInv(SolidSet)' /\ nodes' \in [Assets -> Kinds \cup {Absent}]
  <2>1. CASE nodes[a] = Absent
    <3>1. UNCHANGED <<nodes, outEdges, inEdges>> /\ links' \subseteq links
      BY <1>3, <2>1
    <3> QED
      BY <1>7, <3>1, EdgesStay DEF EditsIInv
  <2>2. CASE nodes[a] # Absent
    <3>1. /\ nodes' = [nodes EXCEPT ![a] = Absent]
          /\ outEdges' = [b \in Assets |-> IF b = a THEN {} ELSE {e \in outEdges[b] : e.target # a}]
          /\ inEdges' = [b \in Assets |-> IF b = a THEN {} ELSE {e \in inEdges[b] : e.source # a}]
      BY <1>3, <2>2 DEF Edits!RemoveNode
    <3>2. /\ outEdges \in [Assets -> SUBSET Edits!Added] /\ inEdges \in [Assets -> SUBSET Edits!Added]
          /\ \A b \in Assets : \A e \in outEdges[b] : e.source = b /\ e \in inEdges[e.target]
              /\ Ends(e) \subseteq SolidSet
          /\ \A b \in Assets : \A e \in inEdges[b] : e.target = b /\ e \in outEdges[e.source]
          /\ \A e \in links : e \in Edits!Added /\ e \in outEdges[e.source]
      BY DEF EditsIInv, EdgesInv
    <3>3. \A e : \A b \in Assets : /\ e \in outEdges'[b] <=> e \in outEdges[b] /\ b # a /\ e.target # a
                                   /\ e \in inEdges'[b] <=> e \in inEdges[b] /\ b # a /\ e.source # a
      BY <3>1
    <3>4. \A e \in Edits!Added : e.source \in Assets /\ e.target \in Assets
      BY AddedIs
    <3>5. outEdges' \in [Assets -> SUBSET Edits!Added] /\ inEdges' \in [Assets -> SUBSET Edits!Added]
      BY <3>1, <3>2
    <3>6. ASSUME NEW b \in Assets, NEW e \in outEdges'[b]
          PROVE  e.source = b /\ e \in inEdges'[e.target] /\ Ends(e) \subseteq SolidSet'
      <4>1. e \in outEdges[b] /\ b # a /\ e.target # a /\ e \in Edits!Added
        BY <3>2, <3>3, <3>6
      <4>2. e.source = b /\ e \in inEdges[e.target] /\ Ends(e) \subseteq SolidSet
        BY <3>2, <4>1
      <4> QED
        BY <1>7, <3>3, <3>4, <4>1, <4>2
    <3>7. ASSUME NEW b \in Assets, NEW e \in inEdges'[b] PROVE e.target = b /\ e \in outEdges'[e.source]
      <4>1. e \in inEdges[b] /\ b # a /\ e.source # a /\ e \in Edits!Added
        BY <3>2, <3>3, <3>7
      <4>2. e.target = b /\ e \in outEdges[e.source]
        BY <3>2, <4>1
      <4> QED
        BY <3>3, <3>4, <4>1, <4>2
    <3>8. ASSUME NEW e \in links' PROVE e \in Edits!Added /\ e \in outEdges'[e.source]
      <4>1. e \in links /\ e.source # a /\ e.target # a
        BY <1>3, <3>8
      <4> QED
        BY <3>2, <3>3, <3>4, <4>1
    <3>9. Edits!Added' = Edits!Added
      BY DEF Edits!Added, Edits!Table
    <3>10. nodes' \in [Assets -> Kinds \cup {Absent}]
      BY <3>1 DEF EditsIInv
    <3> QED
      BY <3>5, <3>6, <3>7, <3>8, <3>9, <3>10 DEF EdgesInv, Ends
  <2> QED
    BY <2>1, <2>2
<1> QED
  BY <1>8, <1>9 DEF EditsIInv

(* and an edge that is added.                                                 *)
LEMMA EditsPutEdge ==
  ASSUME Edits!WritersAssumption, EditsIInv, NEW c \in Calls, Edits!PutEdge(c)
  PROVE  EditsIInv'
<1>i. PICK i : i = Head(job[c].todo)
  OBVIOUS
<1>f. PICK new : new = [source |-> i.a, target |-> i.b, columns |-> Edits!Table,
                        by |-> c, edited |-> i.op = "edit", deleted |-> FALSE]
  OBVIOUS
<1>g. PICK mark : mark = [(CHOOSE f \in job[c].found : TRUE) EXCEPT !.deleted = TRUE]
  OBVIOUS
<1>e. PICK e : e = IF i.op = "mark" THEN mark ELSE new
  OBVIOUS
<1>1. /\ job[c] # Absent /\ job[c].todo # <<>> /\ i.op \in {"link", "edit", "mark"} /\ Edits!Goes(c, job[c].seen, {})
      /\ Edits!AddEdge(e) /\ links' = links \cup {e}
  BY <1>i, <1>f, <1>g, <1>e, Zenon DEF Edits!PutEdge
<1>2. /\ i = job[c].todo[1] /\ i.a \in Assets /\ i.b \in Assets /\ job[c].seen \in BOOLEAN
      /\ JobsType(job) /\ Absent \notin Edits!Jobs /\ OpSound(job[c].todo, job[c].found, SolidSet, 1)
      /\ job[c].found \subseteq Edits!Added /\ \A f \in job[c].found : Ends(f) \subseteq SolidSet
  BY <1>1, <1>i, BusyIs
<1>3. /\ outEdges' = [outEdges EXCEPT ![e.source] = @ \cup {e}] /\ inEdges' = [inEdges EXCEPT ![e.target] = @ \cup {e}]
      /\ nodes' = nodes
  BY <1>1 DEF Edits!AddEdge
<1>4. e \in Edits!Added /\ Ends(e) \subseteq SolidSet
  <2>1. CASE i.op = "mark"
    <3>1. job[c].found # {}
      BY <1>2, <2>1 DEF OpSound
    <3>2. PICK f : f = CHOOSE g \in job[c].found : TRUE
      OBVIOUS
    <3>3. f \in job[c].found /\ e = [f EXCEPT !.deleted = TRUE]
      BY <1>e, <1>g, <2>1, <3>1, <3>2
    <3> QED
      BY <1>2, <3>3, AddedIs
  <2>2. CASE i.op \in {"link", "edit"}
    <3>1. e = [source |-> i.a, target |-> i.b, columns |-> Edits!Table,
               by |-> c, edited |-> i.op = "edit", deleted |-> FALSE]
      BY <1>e, <1>f, <2>2
    <3>2. e \in Edits!Added /\ Ends(e) = {i.a, i.b}
      BY <1>2, <3>1 DEF Edits!Added, Ends
    <3>3. \A x : ~Covered(job[c].todo, 1, x)
      BY DEF Covered
    <3>4. \A x \in {i.a, i.b} : x \in SolidSet
      BY <1>2, <2>2, <3>3 DEF OpSound
    <3> QED
      BY <3>2, <3>4
  <2> QED
    BY <1>1, <2>1, <2>2
<1>5. JobsType(job') /\ \A d \in Calls \ {c} : job'[d] = job[d]
  BY <1>1, <1>2, WriteTypes
<1>6. SolidSet \subseteq SolidSet'
  <2>1. ~Puts(job[c])
    BY <1>1, <1>2 DEF Puts
  <2> QED
    BY <1>2, <1>3, <1>5, <2>1, SolidMoves
<1>s. PICK S : S = SolidSet'
  OBVIOUS
<1>7. JobsInv(SolidSet)'
  <2>1. JobsInv(SolidSet) /\ SolidSet \subseteq S
    BY <1>6, <1>s DEF EditsIInv
  <2>2. HeadDone(job[c].todo[1], job[c].seen, {}, S)
    BY <1>1, <1>2 DEF HeadDone
  <2>3. \A d \in Calls : job'[d] # Absent => JobSound(job'[d], S)
    BY <1>1, <1>2, <2>1, <2>2, WriteMoves
  <2> QED
    BY <1>5, <1>s, <2>3, JobsAre
<1>8. EdgesInv(SolidSet)'
  <2>2. /\ outEdges \in [Assets -> SUBSET Edits!Added] /\ inEdges \in [Assets -> SUBSET Edits!Added]
        /\ \A b \in Assets : \A f \in outEdges[b] : f.source = b /\ f \in inEdges[f.target] /\ Ends(f) \subseteq SolidSet
        /\ \A b \in Assets : \A f \in inEdges[b] : f.target = b /\ f \in outEdges[f.source]
        /\ \A f \in links : f \in Edits!Added /\ f \in outEdges[f.source]
    BY DEF EditsIInv, EdgesInv
  <2>4. \A f \in Edits!Added : f.source \in Assets /\ f.target \in Assets
    BY AddedIs
  <2>a. e.source \in Assets /\ e.target \in Assets
    BY <1>4, <2>4
  <2>3. \A f : \A b \in Assets : /\ f \in outEdges'[b] <=> f \in outEdges[b] \/ (b = e.source /\ f = e)
                                 /\ f \in inEdges'[b] <=> f \in inEdges[b] \/ (b = e.target /\ f = e)
    BY <1>3, <2>2, <2>a
  <2>5. outEdges' \in [Assets -> SUBSET Edits!Added] /\ inEdges' \in [Assets -> SUBSET Edits!Added]
    <3>1. PICK A : A = Edits!Added
      OBVIOUS
    <3>2. outEdges \in [Assets -> SUBSET A] /\ inEdges \in [Assets -> SUBSET A] /\ e \in A
      BY <1>4, <2>2, <3>1
    <3>3. outEdges' \in [Assets -> SUBSET A]
      BY <1>3, <2>a, <3>2
    <3>4. inEdges' \in [Assets -> SUBSET A]
      BY <1>3, <2>a, <3>2
    <3> QED
      BY <3>1, <3>3, <3>4
  <2>6. ASSUME NEW b \in Assets, NEW f \in outEdges'[b]
        PROVE  f.source = b /\ f \in inEdges'[f.target] /\ Ends(f) \subseteq SolidSet'
    <3>1. CASE f \in outEdges[b]
      <4>1. f \in Edits!Added /\ f.source = b /\ f \in inEdges[f.target] /\ Ends(f) \subseteq SolidSet
        BY <2>2, <3>1
      <4> QED
        BY <1>6, <2>3, <2>4, <4>1
    <3>2. CASE b = e.source /\ f = e
      BY <1>4, <1>6, <2>3, <2>4, <3>2
    <3> QED
      BY <2>3, <2>6, <3>1, <3>2
  <2>7. ASSUME NEW b \in Assets, NEW f \in inEdges'[b] PROVE f.target = b /\ f \in outEdges'[f.source]
    <3>1. CASE f \in inEdges[b]
      <4>1. f \in Edits!Added /\ f.target = b /\ f \in outEdges[f.source]
        BY <2>2, <3>1
      <4> QED
        BY <2>3, <2>4, <4>1
    <3>2. CASE b = e.target /\ f = e
      BY <1>4, <2>3, <2>4, <3>2
    <3> QED
      BY <2>3, <2>7, <3>1, <3>2
  <2>8. ASSUME NEW f \in links' PROVE f \in Edits!Added /\ f \in outEdges'[f.source]
    BY <1>1, <1>4, <2>2, <2>3, <2>4, <2>8
  <2>9. Edits!Added' = Edits!Added
    BY DEF Edits!Added, Edits!Table
  <2> QED
    BY <2>5, <2>6, <2>7, <2>8, <2>9 DEF EdgesInv, Ends
<1> QED
  BY <1>3, <1>7, <1>8 DEF EditsIInv

(* So every step does.                                                        *)
LEMMA EditsNext == ASSUME Edits!WritersAssumption, EditsIInv, Edits!LineageNext PROVE EditsIInv'
<1>1. ASSUME NEW c \in Calls, NEW s \in Assets, NEW t \in Assets, Edits!UpdateLineage(c, s, t) PROVE EditsIInv'
  <2>1. PICK todo : /\ Edits!Begin(c, todo)
                    /\ todo = IF s = t THEN <<Edits!Look(s), Edits!LookToo(t)>>
                              ELSE <<Edits!Look(s), Edits!LookToo(t),
                                     Edits!Do("unique", "found", s, t), Edits!Do("edit", "found", s, t)>>
    BY <1>1, Zenon DEF Edits!UpdateLineage
  <2>2. Fit(todo)
    <3>1. CASE s = t
      <4>1. todo = <<Edits!Look(s), Edits!LookToo(t)>>
        BY <2>1, <3>1, Zenon
      <4> QED
        BY <4>1, CheckFits, Zenon
    <3>2. CASE s # t
      <4>1. todo = <<Edits!Look(s), Edits!LookToo(t), Edits!Do("unique", "found", s, t), Edits!Do("edit", "found", s, t)>>
        BY <2>1, <3>2, Zenon
      <4> QED
        BY <4>1, UpdateFits, Zenon
    <3> QED
      BY <3>1, <3>2
  <2> QED
    BY <2>1, <2>2, EditsBegin
<1>2. ASSUME NEW c \in Calls, NEW s \in Assets, NEW t \in Assets, Edits!PersistToGraph(c, s, t) PROVE EditsIInv'
  <2>1. PICK todo : Edits!Begin(c, todo) /\ Fit(todo)
    BY <1>2, PersistFits, Zenon DEF Edits!PersistToGraph
  <2> QED
    BY <2>1, EditsBegin
<1>3. ASSUME NEW c \in Calls, NEW s \in Assets, NEW t \in Assets, NEW d \in Calls, Edits!SoftDelete(c, s, t, d)
      PROVE  EditsIInv'
  <2>1. PICK todo : Edits!Begin(c, todo) /\ Fit(todo)
    BY <1>3, DeleteFits, Zenon DEF Edits!SoftDelete
  <2> QED
    BY <2>1, EditsBegin
<1>4. ASSUME NEW c \in Calls, NEW p \in Assets, NEW s \in Assets, NEW t \in Assets, Edits!RegisterPipeline(c, p, s, t)
      PROVE  EditsIInv'
  <2>1. PICK todo : Edits!Begin(c, todo) /\ Fit(todo)
    BY <1>4, RegisterFits, Zenon DEF Edits!RegisterPipeline
  <2> QED
    BY <2>1, EditsBegin
<1>5. ASSUME NEW c \in Calls, NEW p \in Assets, NEW s \in Assets, NEW t \in Assets, Edits!IngestEvent(c, p, s, t)
      PROVE  EditsIInv'
  <2>1. PICK todo : Edits!Begin(c, todo) /\ Fit(todo)
    BY <1>5, IngestFits, Zenon DEF Edits!IngestEvent
  <2> QED
    BY <2>1, EditsBegin
<1>6. ASSUME NEW c \in Calls, Edits!Continue(c) PROVE EditsIInv'
  BY <1>6, EditsLookUp, EditsCheckUnique, EditsFindEdge, EditsPutNode, EditsTakeNode, EditsPutEdge,
      Zenon DEF Edits!Continue
<1>7. PICK c \in Calls :
        \/ \E s, t \in Assets : Edits!UpdateLineage(c, s, t) \/ Edits!PersistToGraph(c, s, t)
        \/ \E s, t \in Assets, d \in Calls : Edits!SoftDelete(c, s, t, d)
        \/ \E p, s, t \in Assets : Edits!RegisterPipeline(c, p, s, t) \/ Edits!IngestEvent(c, p, s, t)
        \/ Edits!Continue(c)
  <2>1. \A p \in Assets : Assets \ {p} \subseteq Assets
    OBVIOUS
  <2> QED
    BY <2>1, Zenon DEF Edits!LineageNext
<1> QED
  BY <1>1, <1>2, <1>3, <1>4, <1>5, <1>6, <1>7

(* The walk over the graph of the writers.                                    *)
LEMMA SameWalk ==
  ASSUME NEW a, NEW max, NEW dir
  PROVE  Edits!Found(a, max, dir) = Graph!Found(a, max, dir)
  BY Zenon DEF Edits!Found, Graph!Found, Edits!Bfs, Graph!Bfs, Edits!Search, Graph!Search,
      Edits!Adjacent, Graph!Adjacent, Edits!Present, Graph!Present, Edits!Walks, Graph!Walks, Edits!Place, Graph!Place,
      Edits!Turn, Graph!Turn, Edits!Ordered, Graph!Ordered, Edits!IsInjective, Graph!IsInjective,
      Edits!Cardinality, Graph!Cardinality, Edits!IsFiniteSet, Graph!IsFiniteSet, Edits!End, Graph!End,
      Edits!EdgesOf, Graph!EdgesOf, Edits!Table, Graph!Table

(* The ends of an edge are neighbours.                                        *)
LEMMA EditsNeighbours ==
  ASSUME EditsIInv, NEW dir \in {"downstream", "upstream"}
  PROVE  /\ Links(Graph!Adjacent(dir), Graph!Present)
         /\ \A e \in links : /\ e.target \in Graph!Adjacent("downstream")[e.source]
                             /\ e.source \in Graph!Adjacent("upstream")[e.target]
<1>0. /\ outEdges \in [Assets -> SUBSET Edits!Added] /\ inEdges \in [Assets -> SUBSET Edits!Added]
      /\ \A a \in Assets : \A e \in outEdges[a] : e.source = a /\ e \in inEdges[e.target]
      /\ \A e \in links : e \in Edits!Added /\ e \in outEdges[e.source]
  BY DEF EditsIInv, EdgesInv
<1>1. \A e \in Edits!Added : e.source \in Assets /\ e.target \in Assets /\ e.columns = Graph!Table
  BY AddedIs DEF Edits!Table, Graph!Table
<1>2. \A x \in Assets : /\ Graph!Adjacent("downstream")[x] = {e.target : e \in {f \in outEdges[x] :
                            f.columns = Graph!Table}}
                        /\ Graph!Adjacent("upstream")[x] = {e.source : e \in {f \in inEdges[x] : f.columns = Graph!Table}}
  BY DEF Graph!Adjacent, Graph!End, Graph!EdgesOf
<1>3. \A x \in Assets : outEdges[x] \subseteq Edits!Added /\ inEdges[x] \subseteq Edits!Added
  BY <1>0
<1>4. ASSUME NEW x \in Assets PROVE Graph!Adjacent(dir)[x] \subseteq Assets
  <2>1. \A e \in outEdges[x] \cup inEdges[x] : e.source \in Assets /\ e.target \in Assets
    BY <1>1, <1>3
  <2>2. CASE dir = "downstream"
    BY <1>2, <2>1, <2>2
  <2>3. CASE dir = "upstream"
    BY <1>2, <2>1, <2>3
  <2> QED
    BY <2>2, <2>3
<1>5. Links(Graph!Adjacent(dir), Graph!Present)
  <2>1. Graph!Adjacent(dir) = [a \in Assets |-> Graph!Adjacent(dir)[a]]
    BY DEF Graph!Adjacent
  <2>2. Graph!Adjacent(dir) \in [Assets -> SUBSET Assets]
    BY <1>4, <2>1
  <2> QED
    BY <2>2 DEF Links, Graph!Present
<1>6. ASSUME NEW e \in links
      PROVE  e.target \in Graph!Adjacent("downstream")[e.source] /\ e.source \in Graph!Adjacent("upstream")[e.target]
  <2>1. /\ e.source \in Assets /\ e.target \in Assets /\ e.columns = Graph!Table
        /\ e \in outEdges[e.source] /\ e \in inEdges[e.target]
    BY <1>0, <1>1
  <2> QED
    BY <1>2, <2>1
<1> QED
  BY <1>5, <1>6

(* A neighbour that is there is found by one step.                            *)
LEMMA OneStep ==
  ASSUME Graph!GraphAssumption, NEW dir, Links(Graph!Adjacent(dir), Graph!Present),
         NEW a \in Assets, NEW b \in Graph!Present, b # a, b \in Graph!Adjacent(dir)[a]
  PROVE  b \in Graph!Found(a, 1, dir)
<1>1. PICK N : Balls(N, Graph!Adjacent(dir), Graph!Present, a)
  BY BallsExist
<1>2. IsFiniteSet(Assets)
  BY GraphSets DEF Graph!GraphAssumption
<1>3. Graph!Bfs(a, 1, dir) = Rings(N, 1)
  BY <1>1, <1>2, SearchFinds DEF Graph!Bfs
<1>4. {r.id : r \in Rings(N, 1)} = N[1] \ {a}
  BY <1>1, FoundIsBall
<1>5. N[1] = N[0] \cup Around(N[0], Graph!Adjacent(dir), Graph!Present) /\ N[0] = {a}
  <2>1. 1 \in Nat \ {0} /\ 1 - 1 = 0
    OBVIOUS
  <2> QED
    BY <1>1, <2>1 DEF Balls
<1>6. b \in N[1]
  BY <1>5 DEF Around
<1> QED
  BY <1>3, <1>4, <1>6 DEF Graph!Found

(* So what is linked is found.                                                *)
LEMMA EditsFound == ASSUME Graph!GraphAssumption, EditsIInv PROVE Edits!LinkedIsFound
<1>1. ASSUME NEW e \in links, {e.source, e.target} \cap Edits!Replaced = {}, e.source # e.target
      PROVE  e.source \in Edits!Found(e.target, 1, "upstream") /\ e.target \in Edits!Found(e.source, 1, "downstream")
  <2>1. e \in Edits!Added /\ e \in outEdges[e.source] /\ e.source \in Assets /\ e.target \in Assets
    BY AddedIs DEF EditsIInv, EdgesInv
  <2>2. Ends(e) \subseteq SolidSet
    BY <2>1 DEF EditsIInv, EdgesInv
  <2>3. e.source \in Graph!Present /\ e.target \in Graph!Present
    BY <1>1, <2>1, <2>2 DEF Ends, SolidSet, Graph!Present
  <2>4. e.source \in Graph!Found(e.target, 1, "upstream")
    <3>1. Links(Graph!Adjacent("upstream"), Graph!Present) /\ e.source \in Graph!Adjacent("upstream")[e.target]
      BY EditsNeighbours
    <3> QED
      BY <1>1, <2>1, <2>3, <3>1, OneStep
  <2>5. e.target \in Graph!Found(e.source, 1, "downstream")
    <3>1. Links(Graph!Adjacent("downstream"), Graph!Present) /\ e.target \in Graph!Adjacent("downstream")[e.source]
      BY EditsNeighbours
    <3> QED
      BY <1>1, <2>1, <2>3, <3>1, OneStep
  <2> QED
    BY <2>4, <2>5, SameWalk
<1> QED
  BY <1>1 DEF Edits!LinkedIsFound

-------------------------------------------------------------------------------
(* The search for a cycle among the tasks of a pipeline.                      *)

(* The operators of the pipelines are those of the library.                   *)
LEMMA PipelineSame ==
  /\ \A S : Pipeline!Cardinality(S) = Cardinality(S)
  /\ \A S : Pipeline!IsFiniteSet(S) <=> IsFiniteSet(S)
  /\ \A f : Pipeline!Range(f) = Range(f)
<1>1. \A S : Pipeline!Cardinality(S) = Cardinality(S)
  BY ZenonT(60) DEF Pipeline!Cardinality, Cardinality, Pipeline!IsFiniteSet, IsFiniteSet
<1>2. \A S : Pipeline!IsFiniteSet(S) <=> IsFiniteSet(S)
  BY ZenonT(60) DEF Pipeline!IsFiniteSet, IsFiniteSet
<1>3. \A f : Pipeline!Range(f) = Range(f)
  BY Zenon DEF Pipeline!Range, Range
<1> QED
  BY <1>1, <1>2, <1>3, Zenon

Visits(dfs, s, n) == IF s.found THEN s ELSE IF n \in s.visited THEN Pipeline!Meet(s, n) ELSE dfs[n][s]
Loops(run, dfs, next, s) ==
  /\ run[0] = s
  /\ \A i \in 0..Len(next) : run[i] \in Pipeline!Search
  /\ \A i \in 1..Len(next) : run[i] = Visits(dfs, run[i - 1], next[i])

(* The loop is a run of visits.                                               *)
LEMMA LoopRuns ==
  ASSUME NEW dfs \in [TaskNames -> [Pipeline!Search -> Pipeline!Search]], NEW next \in Seq(TaskNames), NEW s \in Pipeline!Search
  PROVE  \E run : Loops(run, dfs, next, s) /\ Pipeline!Loop(dfs, next, s) = run[Len(next)]
<1> DEFINE step == [p \in Pipeline!Search \X Nat |-> IF p[2] \in 1..Len(next) THEN Visits(dfs, p[1], next[p[2]]) ELSE p[1]]
           n == Len(next)
<1>n. n \in Nat /\ \A i \in 1..n : next[i] \in TaskNames
  OBVIOUS
<1>1. ASSUME NEW t \in Pipeline!Search, NEW m \in TaskNames PROVE Visits(dfs, t, m) \in Pipeline!Search
  <2>1. Pipeline!Meet(t, m) \in Pipeline!Search
    <3>1. t.path \in Seq(TaskNames) /\ t.visited \in SUBSET TaskNames /\ t.found \in BOOLEAN
      BY DEF Pipeline!Search
    <3>2. Append(t.path, m) \in Seq(TaskNames)
      BY <3>1
    <3>3. [t EXCEPT !.path = Append(@, m), !.found = TRUE] \in Pipeline!Search
      BY <3>1, <3>2 DEF Pipeline!Search
    <3> QED
      BY <3>3 DEF Pipeline!Meet
  <2>2. dfs[m][t] \in Pipeline!Search
    OBVIOUS
  <2> QED
    BY <2>1, <2>2 DEF Visits
<1>2. Steps(step, Pipeline!Search)
  BY <1>1 DEF Steps
<1>3. \A t \in Pipeline!Search, i \in 1..n : step[<<t, i>>] = Visits(dfs, t, next[i])
  OBVIOUS
<1> HIDE DEF step
<1>4. PICK g : Terms(g, n, Pipeline!Search, s, step)
  BY <1>2, <1>n, TermsExist DEF Steps
<1>a. PICK run : run = CHOOSE f : f = [i \in 0..n |-> IF i = 0 THEN s ELSE Visits(dfs, f[i - 1], next[i])]
  OBVIOUS
<1>5. Pipeline!Loop(dfs, next, s) = run[n]
  BY <1>a, Zenon DEF Pipeline!Loop, Visits
<1>6. g = [i \in 0..n |-> IF i = 0 THEN s ELSE Visits(dfs, g[i - 1], next[i])]
  <2>1. ASSUME NEW i \in 0..n PROVE g[i] = IF i = 0 THEN s ELSE Visits(dfs, g[i - 1], next[i])
    <3>1. CASE i = 0
      BY <1>4, <3>1 DEF Terms
    <3>2. CASE i # 0
      <4>1. i \in 1..n /\ i - 1 \in 0..n
        BY <1>n, <3>2
      <4>2. g[i] = step[<<g[i - 1], i>>] /\ g[i - 1] \in Pipeline!Search
        BY <1>4, <4>1 DEF Terms
      <4> QED
        BY <1>3, <3>2, <4>1, <4>2
    <3> QED
      BY <3>1, <3>2
  <2>2. g = [i \in 0..n |-> g[i]]
    BY <1>4 DEF Terms
  <2> QED
    BY <2>1, <2>2
<1>7. run = [i \in 0..n |-> IF i = 0 THEN s ELSE Visits(dfs, run[i - 1], next[i])]
  BY <1>a, <1>6, Zenon
<1>8. run[0] = s /\ \A i \in 1..n : run[i] = Visits(dfs, run[i - 1], next[i])
  <2>1. 0 \in 0..n /\ \A i \in 1..n : i \in 0..n /\ i # 0
    BY <1>n
  <2> QED
    BY <1>7, <2>1
<1>9. \A i \in 0..n : run[i] \in Pipeline!Search
  <2> DEFINE Bad == {i \in 0..n : run[i] \notin Pipeline!Search}
  <2>1. SUFFICES ASSUME Bad # {} PROVE FALSE
    OBVIOUS
  <2>2. PICK m \in Bad : \A l \in Bad : m <= l
    <3>1. Bad \in SUBSET Nat
      OBVIOUS
    <3> QED
      BY <2>1, <3>1, LeastNumber
  <2>3. m # 0
    BY <1>8, <2>2
  <2>4. m \in 1..n /\ m - 1 \in 0..n /\ m - 1 \notin Bad
    BY <1>n, <2>2, <2>3
  <2>5. run[m - 1] \in Pipeline!Search /\ next[m] \in TaskNames
    BY <1>n, <2>4
  <2> QED
    BY <1>1, <1>8, <2>2, <2>4, <2>5
<1> QED
  BY <1>5, <1>8, <1>9 DEF Loops

(* A path without its last node.                                              *)
LEMMA ButLast ==
  ASSUME NEW p \in Seq(TaskNames)
  PROVE  /\ SubSeq(p, 1, Len(p) - 1) \in Seq(TaskNames)
         /\ \A n \in TaskNames : SubSeq(Append(p, n), 1, Len(Append(p, n)) - 1) = p
<1>1. Len(p) \in Nat /\ \A i \in 1..Len(p) : p[i] \in TaskNames
  OBVIOUS
<1>2. ASSUME NEW q \in Seq(TaskNames), NEW m \in Int, m <= Len(q)
      PROVE  SubSeq(q, 1, m) \in Seq(TaskNames)
  <2>1. Len(q) \in Nat /\ \A i \in 1..m : q[i] \in TaskNames
    BY <1>2
  <2> QED
    BY <2>1, SubSeqProperties
<1>3. ASSUME NEW n \in TaskNames PROVE SubSeq(Append(p, n), 1, Len(Append(p, n)) - 1) = p
  <2>1. Len(Append(p, n)) - 1 = Len(p)
    OBVIOUS
  <2> QED
    BY <2>1, SubSeqOfConcat1, SubSeqFull, AppendIsConcat
<1> QED
  BY <1>1, <1>2, <1>3

(* Entering a node, field by field.                                           *)
LEMMA EnterIs ==
  ASSUME NEW v, NEW p, NEW f, NEW n
  PROVE  Pipeline!Enter([visited |-> v, path |-> p, found |-> f], n)
           = [visited |-> v \cup {n}, path |-> Append(p, n), found |-> f]
<1>1. \A x : [[visited |-> v, path |-> p, found |-> f] EXCEPT !.visited = x] = [visited |-> x, path |-> p, found |-> f]
  OBVIOUS
<1>2. \A x, y : [[visited |-> x, path |-> p, found |-> f] EXCEPT !.path = y] = [visited |-> x, path |-> y, found |-> f]
  OBVIOUS
<1>3. [visited |-> v, path |-> p, found |-> f].visited = v /\ [visited |-> v, path |-> p, found |-> f].path = p
  OBVIOUS
<1> DEFINE a == [visited |-> v, path |-> p, found |-> f]
<1>4. Pipeline!Enter(a, n) = [[a EXCEPT !.visited = a.visited \cup {n}] EXCEPT !.path = Append(a.path, n)]
  BY Zenon DEF Pipeline!Enter
<1> QED
  BY <1>1, <1>2, <1>3, <1>4, Zenon

(* A stretch of the search, entering a node and leaving it, keeps the types.  *)
LEMMA EnterLeaveType ==
  ASSUME NEW s \in Pipeline!Search, NEW n \in TaskNames
  PROVE  /\ Pipeline!Enter(s, n) \in Pipeline!Search /\ Pipeline!Leave(s) \in Pipeline!Search
         /\ Pipeline!Enter(s, n).visited = s.visited \cup {n} /\ Pipeline!Enter(s, n).path = Append(s.path, n)
         /\ Pipeline!Enter(s, n).found = s.found
         /\ ~s.found => /\ Pipeline!Leave(s).visited = s.visited /\ Pipeline!Leave(s).path = SubSeq(s.path, 1, Len(s.path) - 1)
                        /\ Pipeline!Leave(s).found = FALSE
<1>1. PICK v \in SUBSET TaskNames, p \in Seq(TaskNames), f \in BOOLEAN : s = [visited |-> v, path |-> p, found |-> f]
  BY DEF Pipeline!Search
<1>2. s.visited = v /\ s.path = p /\ s.found = f
  BY <1>1
<1>3. Append(p, n) \in Seq(TaskNames) /\ v \cup {n} \in SUBSET TaskNames /\ SubSeq(p, 1, Len(p) - 1) \in Seq(TaskNames)
  BY ButLast
<1>4. Pipeline!Enter(s, n) = [visited |-> v \cup {n}, path |-> Append(p, n), found |-> f]
  <2>1. Pipeline!Enter([visited |-> v, path |-> p, found |-> f], n) = [visited |-> v \cup {n}, path |-> Append(p, n), found |-> f]
    BY EnterIs
  <2> QED
    BY <1>1, <2>1
<1>5. Pipeline!Leave(s) = IF f THEN s ELSE [visited |-> v, path |-> SubSeq(p, 1, Len(p) - 1), found |-> f]
  <2>1. ~f => Pipeline!Leave([visited |-> v, path |-> p, found |-> f])
                = [visited |-> v, path |-> SubSeq(p, 1, Len(p) - 1), found |-> f]
    BY DEF Pipeline!Leave
  <2>2. f => Pipeline!Leave(s) = s
    BY <1>2 DEF Pipeline!Leave
  <2> QED
    BY <1>1, <2>1, <2>2
<1>6. Pipeline!Enter(s, n) \in Pipeline!Search
  BY <1>3, <1>4 DEF Pipeline!Search
<1>7. Pipeline!Leave(s) \in Pipeline!Search
  BY <1>3, <1>5 DEF Pipeline!Search
<1> QED
  BY <1>2, <1>4, <1>5, <1>6, <1>7

Dives == [TaskNames -> [Pipeline!Search -> Pipeline!Search]]
Adjacency(adj) == adj \in [TaskNames -> Seq(TaskNames)]
Deeper(dfs, adj) == [n \in TaskNames |-> [s \in Pipeline!Search |-> Pipeline!Leave(Pipeline!Loop(dfs, adj[n], Pipeline!Enter(s, n)))]]
Searches(d, adj) == /\ \A k \in Nat : d[k] \in Dives
                    /\ \A k \in Nat \ {0}, n \in TaskNames, s \in Pipeline!Search :
                          d[k][n][s] = Pipeline!Leave(Pipeline!Loop(d[k - 1], adj[n], Pipeline!Enter(s, n)))

(* What the search returns from one level deeper has its type.                *)
LEMMA DeeperType ==
  ASSUME NEW dfs \in Dives, NEW adj, Adjacency(adj)
  PROVE  Deeper(dfs, adj) \in Dives
<1>1. ASSUME NEW n \in TaskNames, NEW s \in Pipeline!Search PROVE Pipeline!Leave(Pipeline!Loop(dfs, adj[n], Pipeline!Enter(s, n))) \in Pipeline!Search
  <2>1. Pipeline!Enter(s, n) \in Pipeline!Search
    BY EnterLeaveType
  <2>2. adj[n] \in Seq(TaskNames)
    BY DEF Adjacency
  <2>3. PICK run : Loops(run, dfs, adj[n], Pipeline!Enter(s, n)) /\ Pipeline!Loop(dfs, adj[n], Pipeline!Enter(s, n)) = run[Len(adj[n])]
    BY <2>1, <2>2, LoopRuns DEF Dives
  <2>4. Len(adj[n]) \in 0..Len(adj[n])
    BY <2>2
  <2>5. Pipeline!Loop(dfs, adj[n], Pipeline!Enter(s, n)) \in Pipeline!Search
    BY <2>3, <2>4 DEF Loops
  <2> QED
    BY <2>5, EnterLeaveType
<1> QED
  BY <1>1 DEF Deeper, Dives

(* The search as a whole, by the depth it may reach.                          *)
LEMMA SearchRuns ==
  ASSUME NEW order, NEW adj, Adjacency(adj)
  PROVE  \E d : /\ Searches(d, adj)
                /\ Pipeline!FindCycle(order, adj)
                     = Pipeline!Loop(d[Pipeline!Cardinality(TaskNames)], order, [visited |-> {}, path |-> <<>>, found |-> FALSE])
<1> DEFINE none == [n \in TaskNames |-> [s \in Pipeline!Search |-> s]]
           step == [p \in Dives \X Nat |-> Deeper(p[1], adj)]
<1>d. PICK d : d = CHOOSE f : f = [k \in Nat |-> [n \in TaskNames |-> [s \in Pipeline!Search |->
                      IF k = 0 THEN s ELSE Pipeline!Leave(Pipeline!Loop(f[k - 1], adj[n], Pipeline!Enter(s, n)))]]]
  OBVIOUS
<1>1. Pipeline!FindCycle(order, adj) = Pipeline!Loop(d[Pipeline!Cardinality(TaskNames)], order, [visited |-> {}, path |-> <<>>, found |-> FALSE])
  BY <1>d, Zenon DEF Pipeline!FindCycle
<1>2. none \in Dives /\ Steps(step, Dives)
  BY DeeperType DEF Dives, Steps
<1>3. \A x \in Dives, k \in Nat : step[<<x, k>>] = Deeper(x, adj)
  OBVIOUS
<1> HIDE DEF step
<1>4. PICK v : Runs(v, Dives, none, step)
  BY <1>2, Recursion
<1>5. ASSUME NEW k \in Nat
      PROVE  v[k] = [n \in TaskNames |-> [s \in Pipeline!Search |-> IF k = 0 THEN s ELSE Pipeline!Leave(Pipeline!Loop(v[k - 1], adj[n], Pipeline!Enter(s, n)))]]
  <2>1. CASE k = 0
    BY <1>4, <2>1 DEF Runs
  <2>2. CASE k # 0
    <3>1. k - 1 \in Nat /\ v[k - 1] \in Dives /\ v[k] = step[<<v[k - 1], k>>]
      BY <1>4, <2>2 DEF Runs
    <3>2. v[k] = Deeper(v[k - 1], adj)
      BY <1>3, <3>1
    <3> QED
      BY <2>2, <3>2 DEF Deeper
  <2> QED
    BY <2>1, <2>2
<1>6. v = [k \in Nat |-> [n \in TaskNames |-> [s \in Pipeline!Search |-> IF k = 0 THEN s ELSE Pipeline!Leave(Pipeline!Loop(v[k - 1], adj[n], Pipeline!Enter(s, n)))]]]
  <2>1. v = [k \in Nat |-> v[k]]
    BY <1>4 DEF Runs
  <2> QED
    BY <1>5, <2>1
<1>7. d = [k \in Nat |-> [n \in TaskNames |-> [s \in Pipeline!Search |-> IF k = 0 THEN s ELSE Pipeline!Leave(Pipeline!Loop(d[k - 1], adj[n], Pipeline!Enter(s, n)))]]]
  BY <1>d, <1>6, Zenon
<1>8. d[0] = none /\ \A k \in Nat \ {0} : d[k] = Deeper(d[k - 1], adj)
  <2>1. d[0] = none
    BY <1>7
  <2>2. ASSUME NEW k \in Nat \ {0} PROVE d[k] = Deeper(d[k - 1], adj)
    BY <1>7 DEF Deeper
  <2> QED
    BY <2>1, <2>2
<1>9. \A k \in Nat : d[k] \in Dives
  <2>1. \A k \in Nat \ {0} : d[k - 1] \in Dives => d[k] \in Dives
    BY <1>8, DeeperType
  <2> QED
    BY <1>2, <1>8, <2>1, Persists
<1>10. ASSUME NEW k \in Nat \ {0}, NEW n \in TaskNames, NEW s \in Pipeline!Search
       PROVE  d[k][n][s] = Pipeline!Leave(Pipeline!Loop(d[k - 1], adj[n], Pipeline!Enter(s, n)))
  <2>1. Deeper(d[k - 1], adj)[n][s] = Pipeline!Leave(Pipeline!Loop(d[k - 1], adj[n], Pipeline!Enter(s, n)))
    BY Zenon DEF Deeper
  <2> QED
    BY <1>8, <2>1
<1> QED
  BY <1>1, <1>9, <1>10 DEF Searches

(* An order of F in which every node comes after its neighbours.              *)
Arranges(o, F, adj) ==
  /\ o \in Seq(TaskNames) /\ Pipeline!Range(o) = F
  /\ \A i, j \in DOMAIN o : o[i] = o[j] => i = j
  /\ \A i \in DOMAIN o : \A m \in Pipeline!Range(adj[o[i]]) : \E j \in DOMAIN o : o[j] = m /\ j < i

(* A state of the search in which those left behind can be arranged.          *)
Clean(s, T, adj) ==
  /\ s \in Pipeline!Search /\ ~s.found /\ s.visited \subseteq T /\ Pipeline!Range(s.path) \subseteq s.visited
  /\ \E o : Arranges(o, s.visited \ Pipeline!Range(s.path), adj)

(* From s to r the search goes on in order, or it has found a cycle.          *)
Goes(r, s, T, adj) == r.found \/ (Clean(r, T, adj) /\ r.path = s.path /\ s.visited \subseteq r.visited)
Does(dive, k, T, adj) ==
  \A n \in T, s \in Pipeline!Search :
    Clean(s, T, adj) /\ n \notin s.visited /\ Cardinality(T \ s.visited) <= k =>
      /\ Goes(dive[n][s], s, T, adj)
      /\ dive[n][s].found \/ n \in dive[n][s].visited

Closed(T, adj) == T \subseteq TaskNames /\ \A n \in T : Pipeline!Range(adj[n]) \subseteq T

(* The loop reaches all that is next.                                         *)
LEMMA LoopKeeps ==
  ASSUME NEW dfs \in Dives, NEW k \in Nat, NEW T \in SUBSET TaskNames, IsFiniteSet(T), NEW adj, Does(dfs, k, T, adj),
         NEW next \in Seq(TaskNames), Pipeline!Range(next) \subseteq T,
         NEW s, Clean(s, T, adj), Cardinality(T \ s.visited) <= k
  PROVE  LET r == Pipeline!Loop(dfs, next, s)
         IN  r \in Pipeline!Search /\ (r.found \/ (Goes(r, s, T, adj) /\ Pipeline!Range(next) \subseteq r.visited \ Pipeline!Range(s.path)))
<1> DEFINE n == Len(next)
<1>n. n \in Nat /\ \A i \in 1..n : next[i] \in T
  <2>1. n \in Nat /\ DOMAIN next = 1..n
    OBVIOUS
  <2> QED
    BY <2>1 DEF Pipeline!Range
<1>s. s \in Pipeline!Search /\ ~s.found
  BY DEF Clean
<1>1. PICK run : Loops(run, dfs, next, s) /\ Pipeline!Loop(dfs, next, s) = run[n]
  BY <1>s, LoopRuns DEF Dives
<1>2. run[0] = s /\ \A i \in 0..n : run[i] \in Pipeline!Search
  BY <1>1 DEF Loops
<1> DEFINE Good(i) == run[i].found \/ ( /\ Goes(run[i], s, T, adj)
                                       /\ \A j \in 1..i : next[j] \in run[i].visited \ Pipeline!Range(s.path) )
<1>3. Good(0)
  BY <1>2, <1>s DEF Goes
<1>4. ASSUME NEW i \in 1..n, Good(i - 1) PROVE Good(i)
  <2> DEFINE t == run[i - 1]
  <2>1. i - 1 \in 0..n /\ t \in Pipeline!Search /\ i \in 0..n /\ next[i] \in T /\ run[i] \in Pipeline!Search
    BY <1>n, <1>2
  <2>2. run[i] = Visits(dfs, t, next[i])
    BY <1>1 DEF Loops
  <2>3. CASE t.found
    <3>1. run[i] = t
      BY <2>2, <2>3 DEF Visits
    <3> QED
      BY <2>3, <3>1
  <2>4. CASE ~t.found
    <3>1. Clean(t, T, adj) /\ t.path = s.path /\ s.visited \subseteq t.visited
          /\ \A j \in 1..(i - 1) : next[j] \in t.visited \ Pipeline!Range(s.path)
      BY <1>4, <2>4 DEF Goes
    <3>2. CASE next[i] \in t.visited /\ next[i] \in Pipeline!Range(t.path)
      <4>1. run[i] = Pipeline!Meet(t, next[i])
        BY <2>2, <2>4, <3>2 DEF Visits
      <4>2. run[i].found = TRUE
        BY <2>1, <3>2, <4>1 DEF Pipeline!Meet, Pipeline!Search
      <4> QED
        BY <4>2
    <3>3. CASE next[i] \in t.visited /\ next[i] \notin Pipeline!Range(t.path)
      <4>1. run[i] = Pipeline!Meet(t, next[i])
        BY <2>2, <2>4, <3>3 DEF Visits
      <4>2. run[i] = t
        BY <3>3, <4>1 DEF Pipeline!Meet
      <4>3. \A j \in 1..i : j \in 1..(i - 1) \/ j = i
        BY <2>1
      <4> QED
        BY <3>1, <3>3, <4>2, <4>3 DEF Goes
    <3>4. CASE next[i] \notin t.visited
      <4>1. run[i] = dfs[next[i]][t]
        BY <2>2, <2>4, <3>4 DEF Visits
      <4>2. Cardinality(T \ t.visited) <= k
        <5>1. T \ t.visited \subseteq T \ s.visited /\ IsFiniteSet(T \ s.visited)
          BY <3>1, FS_Subset
        <5>2. Cardinality(T \ t.visited) <= Cardinality(T \ s.visited)
              /\ Cardinality(T \ t.visited) \in Nat /\ Cardinality(T \ s.visited) \in Nat
          BY <5>1, FS_Subset, FS_CardinalityType
        <5> QED
          BY <5>2
      <4>3. Goes(run[i], t, T, adj) /\ (run[i].found \/ next[i] \in run[i].visited)
        BY <2>1, <3>1, <3>4, <4>1, <4>2 DEF Does
      <4>4. next[i] \notin Pipeline!Range(s.path)
        BY <3>1, <3>4 DEF Clean
      <4>5. \A j \in 1..i : j \in 1..(i - 1) \/ j = i
        BY <2>1
      <4> QED
        BY <3>1, <4>3, <4>4, <4>5 DEF Goes
    <3> QED
      BY <3>2, <3>3, <3>4
  <2> QED
    BY <2>3, <2>4
<1> HIDE DEF Good
<1>5. Good(n)
  <2> DEFINE Bad == {i \in 0..n : ~Good(i)}
  <2>1. SUFFICES ASSUME Bad # {} PROVE FALSE
    BY <1>n
  <2>2. PICK m \in Bad : \A l \in Bad : m <= l
    <3>1. Bad \in SUBSET Nat
      OBVIOUS
    <3> QED
      BY <2>1, <3>1, LeastNumber
  <2>3. m # 0
    BY <1>3, <2>2
  <2>4. m \in 1..n /\ m - 1 \in 0..n /\ m - 1 \notin Bad
    BY <1>n, <2>2, <2>3
  <2> QED
    BY <1>4, <2>2, <2>4
<1>6. n \in 0..n /\ Pipeline!Range(next) = {next[j] : j \in 1..n}
  BY <1>n DEF Pipeline!Range
<1> QED
  BY <1>1, <1>2, <1>5, <1>6 DEF Good

(* The nodes of a longer sequence.                                            *)
LEMMA RangeAppend ==
  ASSUME NEW p \in Seq(TaskNames), NEW n \in TaskNames
  PROVE  Pipeline!Range(Append(p, n)) = Pipeline!Range(p) \cup {n}
<1>1. DOMAIN p = 1..Len(p) /\ DOMAIN Append(p, n) = 1..(Len(p) + 1) /\ Len(p) \in Nat
  OBVIOUS
<1>2. \A i \in 1..Len(p) : Append(p, n)[i] = p[i]
  OBVIOUS
<1>3. Append(p, n)[Len(p) + 1] = n
  OBVIOUS
<1>4. Pipeline!Range(Append(p, n)) \subseteq Pipeline!Range(p) \cup {n}
  BY <1>1, <1>2, <1>3 DEF Pipeline!Range
<1>5. Pipeline!Range(p) \subseteq Pipeline!Range(Append(p, n)) /\ n \in Pipeline!Range(Append(p, n))
  BY <1>1, <1>2, <1>3 DEF Pipeline!Range
<1> QED
  BY <1>4, <1>5

(* A node may follow all its neighbours.                                      *)
LEMMA LastInOrder ==
  ASSUME NEW adj, NEW o, Arranges(o, Pipeline!Range(o), adj), NEW n \in TaskNames, n \notin Pipeline!Range(o), Pipeline!Range(adj[n]) \subseteq Pipeline!Range(o)
  PROVE  Arranges(Append(o, n), Pipeline!Range(o) \cup {n}, adj)
<1> DEFINE q == Append(o, n)
<1>1. o \in Seq(TaskNames) /\ DOMAIN o = 1..Len(o) /\ Len(o) \in Nat
  BY DEF Arranges
<1>2. q \in Seq(TaskNames) /\ DOMAIN q = 1..(Len(o) + 1)
  BY <1>1
<1>3. q[Len(o) + 1] = n /\ \A i \in 1..Len(o) : q[i] = o[i]
  BY <1>1
<1>4. Pipeline!Range(q) = Pipeline!Range(o) \cup {n}
  BY <1>1, RangeAppend
<1> HIDE DEF q
<1>5. ASSUME NEW i \in DOMAIN q, NEW j \in DOMAIN q, q[i] = q[j] PROVE i = j
  <2>1. \A l \in 1..Len(o) : q[l] \in Pipeline!Range(o)
    BY <1>1, <1>3 DEF Pipeline!Range
  <2>2. \A l \in DOMAIN q : l \in 1..Len(o) \/ l = Len(o) + 1
    BY <1>1, <1>2
  <2> QED
    BY <1>1, <1>3, <1>5, <2>1, <2>2 DEF Arranges
<1>6. ASSUME NEW i \in DOMAIN q, NEW m \in Pipeline!Range(adj[q[i]]) PROVE \E j \in DOMAIN q : q[j] = m /\ j < i
  <2>1. CASE i \in 1..Len(o)
    <3>1. m \in Pipeline!Range(adj[o[i]])
      BY <1>3, <2>1
    <3>2. PICK j \in DOMAIN o : o[j] = m /\ j < i
      BY <1>1, <2>1, <3>1 DEF Arranges
    <3> QED
      BY <1>1, <1>2, <1>3, <3>2
  <2>2. CASE i = Len(o) + 1
    <3>1. m \in Pipeline!Range(o)
      BY <1>3, <2>2
    <3>2. PICK j \in DOMAIN o : o[j] = m
      BY <3>1 DEF Pipeline!Range
    <3> QED
      BY <1>1, <1>2, <1>3, <2>2, <3>2
  <2> QED
    BY <1>1, <1>2, <2>1, <2>2
<1> QED
  BY <1>2, <1>4, <1>5, <1>6 DEF Arranges, q

(* What the search does when it may go one step deeper.                       *)
LEMMA DeeperKeeps ==
  ASSUME NEW dfs \in Dives, NEW k \in Nat, NEW T \in SUBSET TaskNames, IsFiniteSet(T),
         NEW adj, Adjacency(adj), Closed(T, adj), Does(dfs, k, T, adj),
         NEW n \in T, NEW s \in Pipeline!Search, Clean(s, T, adj), n \notin s.visited, Cardinality(T \ s.visited) <= k + 1
  PROVE  LET r == Pipeline!Leave(Pipeline!Loop(dfs, adj[n], Pipeline!Enter(s, n)))
         IN  Goes(r, s, T, adj) /\ (r.found \/ n \in r.visited)
<1> DEFINE e == Pipeline!Enter(s, n)
           l == Pipeline!Loop(dfs, adj[n], e)
           r == Pipeline!Leave(l)
<1>1. /\ e \in Pipeline!Search /\ e.visited = s.visited \cup {n} /\ e.path = Append(s.path, n) /\ e.found = s.found
      /\ s.path \in Seq(TaskNames) /\ n \in TaskNames /\ s.visited \in SUBSET TaskNames
  BY EnterLeaveType DEF Pipeline!Search
<1>2. ~s.found /\ s.visited \subseteq T /\ Pipeline!Range(s.path) \subseteq s.visited
  BY DEF Clean
<1>3. PICK o : Arranges(o, s.visited \ Pipeline!Range(s.path), adj)
  BY DEF Clean
<1>4. Pipeline!Range(e.path) = Pipeline!Range(s.path) \cup {n}
  BY <1>1, RangeAppend
<1>5. Clean(e, T, adj)
  <2>1. e.visited \ Pipeline!Range(e.path) = s.visited \ Pipeline!Range(s.path)
    BY <1>1, <1>4
  <2> HIDE DEF e
  <2> QED
    BY <1>1, <1>2, <1>3, <1>4, <2>1 DEF Clean
<1>6. Cardinality(T \ e.visited) <= k
  <2>1. IsFiniteSet(T \ s.visited) /\ n \in T \ s.visited
    BY FS_Subset
  <2>2. Cardinality((T \ s.visited) \ {n}) = Cardinality(T \ s.visited) - 1 /\ Cardinality(T \ s.visited) \in Nat
    BY <2>1, FS_RemoveElement, FS_CardinalityType
  <2>3. T \ e.visited = (T \ s.visited) \ {n}
    BY <1>1
  <2> HIDE DEF e
  <2> DEFINE c == Cardinality(T \ s.visited)
  <2>4. Cardinality(T \ e.visited) = c - 1 /\ c \in Nat /\ c <= k + 1
    BY <2>2, <2>3
  <2> HIDE DEF c
  <2> QED
    BY <2>4
<1>7. adj[n] \in Seq(TaskNames) /\ Pipeline!Range(adj[n]) \subseteq T
  BY DEF Adjacency, Closed
<1> HIDE DEF e
<1>8. l \in Pipeline!Search /\ (l.found \/ (Goes(l, e, T, adj) /\ Pipeline!Range(adj[n]) \subseteq l.visited \ Pipeline!Range(e.path)))
  BY <1>5, <1>6, <1>7, LoopKeeps
<1> HIDE DEF l
<1>9. CASE l.found
  <2>1. r = l
    BY <1>9 DEF Pipeline!Leave
  <2> QED
    BY <1>9, <2>1 DEF Goes, e, l
<1>10. CASE ~l.found
  <2>1. Clean(l, T, adj) /\ l.path = e.path /\ e.visited \subseteq l.visited
    BY <1>8, <1>10 DEF Goes
  <2>2. /\ r \in Pipeline!Search /\ ~r.found /\ r.visited = l.visited
        /\ r.path = SubSeq(l.path, 1, Len(l.path) - 1)
    BY <1>8, <1>10, EnterLeaveType, <1>1
  <2>3. r.path = s.path
    BY <1>1, <2>1, <2>2, ButLast
  <2> HIDE DEF r
  <2>4. n \in r.visited /\ s.visited \subseteq r.visited /\ r.visited \subseteq T
    BY <1>1, <2>1, <2>2 DEF Clean
  <2>5. PICK q : Arranges(q, l.visited \ Pipeline!Range(l.path), adj)
    BY <2>1 DEF Clean
  <2>6. n \notin Pipeline!Range(q) /\ Pipeline!Range(adj[n]) \subseteq Pipeline!Range(q)
    BY <1>4, <1>8, <1>10, <2>1, <2>5 DEF Arranges
  <2>7. r.visited \ Pipeline!Range(r.path) = Pipeline!Range(q) \cup {n}
    <3>1. Pipeline!Range(q) = l.visited \ (Pipeline!Range(s.path) \cup {n})
      BY <1>4, <2>1, <2>5 DEF Arranges
    <3>2. r.visited \ Pipeline!Range(r.path) = l.visited \ Pipeline!Range(s.path)
      BY <2>2, <2>3
    <3>3. n \in l.visited /\ n \notin Pipeline!Range(s.path)
      BY <1>2, <2>2, <2>4
    <3> QED
      BY <3>1, <3>2, <3>3
  <2>8. Arranges(Append(q, n), Pipeline!Range(q) \cup {n}, adj)
    <3>1. Arranges(q, Pipeline!Range(q), adj)
      BY <2>5 DEF Arranges
    <3> QED
      BY <1>1, <2>6, <3>1, LastInOrder
  <2>9. Clean(r, T, adj)
    BY <1>2, <2>2, <2>3, <2>4, <2>7, <2>8 DEF Clean
  <2> QED
    BY <2>3, <2>4, <2>9 DEF Goes, e, l, r
<1> QED
  BY <1>9, <1>10

(* The search keeps its books, however deep it goes.                          *)
LEMMA DfsKeeps ==
  ASSUME NEW d, NEW adj, Adjacency(adj), Searches(d, adj), NEW T \in SUBSET TaskNames, IsFiniteSet(T), Closed(T, adj)
  PROVE  \A k \in Nat : Does(d[k], k, T, adj)
<1>1. Does(d[0], 0, T, adj)
  <2>1. ASSUME NEW n \in T, NEW s \in Pipeline!Search, n \notin s.visited, Cardinality(T \ s.visited) <= 0 PROVE FALSE
    <3>1. IsFiniteSet(T \ s.visited)
      BY FS_Subset
    <3>2. Cardinality(T \ s.visited) = 0
      BY <2>1, <3>1, FS_CardinalityType
    <3>3. T \ s.visited = {}
      BY <3>1, <3>2, FS_EmptySet
    <3> QED
      BY <2>1, <3>3
  <2> QED
    BY <2>1 DEF Does
<1>2. ASSUME NEW k \in Nat \ {0}, Does(d[k - 1], k - 1, T, adj) PROVE Does(d[k], k, T, adj)
  <2>1. k - 1 \in Nat /\ (k - 1) + 1 = k
    OBVIOUS
  <2>2. d[k - 1] \in Dives
    BY <2>1 DEF Searches
  <2>3. ASSUME NEW n \in T, NEW s \in Pipeline!Search, Clean(s, T, adj), n \notin s.visited, Cardinality(T \ s.visited) <= k
        PROVE  Goes(d[k][n][s], s, T, adj) /\ (d[k][n][s].found \/ n \in d[k][n][s].visited)
    <3>1. d[k][n][s] = Pipeline!Leave(Pipeline!Loop(d[k - 1], adj[n], Pipeline!Enter(s, n)))
      BY DEF Searches
    <3> QED
      BY <1>2, <2>1, <2>2, <2>3, <3>1, DeeperKeeps
  <2> QED
    BY <2>3 DEF Does
<1> DEFINE Bad == {k \in Nat : ~Does(d[k], k, T, adj)}
<1>3. SUFFICES ASSUME Bad # {} PROVE FALSE
  OBVIOUS
<1>4. PICK m \in Bad : \A l \in Bad : m <= l
  BY <1>3, LeastNumber
<1>5. m # 0
  BY <1>1, <1>4
<1>6. m - 1 \in Nat /\ m - 1 \notin Bad
  BY <1>4, <1>5
<1> QED
  BY <1>2, <1>4, <1>5, <1>6

(* Where no cycle is found, the nodes can be arranged.                        *)
LEMMA FindsOrder ==
  ASSUME NEW order \in Seq(TaskNames), NEW adj, Adjacency(adj), NEW T \in SUBSET TaskNames, Pipeline!Range(order) = T,
         IsFiniteSet(TaskNames), Closed(T, adj), ~Pipeline!FindCycle(order, adj).found
  PROVE  \E o : Arranges(o, T, adj)
<1> DEFINE s == [visited |-> {}, path |-> <<>>, found |-> FALSE]
           N == Cardinality(TaskNames)
<1>1. PICK d : Searches(d, adj) /\ Pipeline!FindCycle(order, adj) = Pipeline!Loop(d[N], order, s)
  BY SearchRuns, PipelineSame
<1>2. IsFiniteSet(T) /\ Cardinality(T) <= N /\ N \in Nat
  BY FS_Subset, FS_CardinalityType
<1>3. d[N] \in Dives /\ Does(d[N], N, T, adj)
  BY <1>1, <1>2, DfsKeeps DEF Searches
<1>4. s \in Pipeline!Search /\ ~s.found /\ Pipeline!Range(s.path) = {} /\ s.visited = {}
  BY DEF Pipeline!Search, Pipeline!Range
<1>5. Arranges(<<>>, {}, adj)
  BY DEF Arranges, Pipeline!Range
<1> HIDE DEF s
<1>6. Clean(s, T, adj)
  <2>1. s.visited \ Pipeline!Range(s.path) = {}
    BY <1>4
  <2> QED
    BY <1>4, <1>5, <2>1 DEF Clean
<1>7. Cardinality(T \ s.visited) <= N
  <2>1. T \ s.visited = T
    BY <1>4
  <2> QED
    BY <1>2, <2>1
<1> DEFINE r == Pipeline!Loop(d[N], order, s)
<1>8. ~r.found
  BY <1>1
<1>9. r.found \/ (Goes(r, s, T, adj) /\ Pipeline!Range(order) \subseteq r.visited \ Pipeline!Range(s.path))
  BY <1>2, <1>3, <1>6, <1>7, LoopKeeps
<1> HIDE DEF r
<1>10. Clean(r, T, adj) /\ r.path = s.path /\ T \subseteq r.visited
  BY <1>8, <1>9 DEF Goes
<1>11. r.visited \ Pipeline!Range(r.path) = T
  BY <1>4, <1>10 DEF Clean
<1> QED
  BY <1>10, <1>11 DEF Clean

-------------------------------------------------------------------------------
(* The validation of pipelines.                                               *)

PipelineIInv ==
  /\ tasks \in Seq(Pipeline!Task)
  /\ code \in [errors : Nat, warnings : Nat]
  /\ options \in [semanticLayer : BOOLEAN, sandbox : BOOLEAN]
  /\ sandbox \in {"passes", "fails", "skipped"}
  /\ connector \in {"none", "unavailable", "clean", "issues"}

(* A pipeline is so at the start, and stays so.                               *)
LEMMA PipelineInit == Pipeline!ValidatorAssumption /\ Pipeline!Init => PipelineIInv
<1> SUFFICES ASSUME Pipeline!ValidatorAssumption, Pipeline!Init PROVE PipelineIInv
  OBVIOUS
<1>1. MaxFindings \in Nat
  BY DEF Pipeline!ValidatorAssumption
<1>2. code \in [errors : Nat, warnings : Nat]
  <2>1. PICK e \in 0..MaxFindings, w \in 0..MaxFindings : code = [errors |-> e, warnings |-> w]
    BY DEF Pipeline!Init
  <2> QED
    BY <1>1, <2>1
<1> QED
  BY <1>2 DEF Pipeline!Init, PipelineIInv

LEMMA PipelineNext == PipelineIInv /\ Pipeline!Next => PipelineIInv'
<1> SUFFICES ASSUME PipelineIInv, Pipeline!Next PROVE PipelineIInv'
  OBVIOUS
<1>1. ASSUME NEW id \in TaskNames, Pipeline!AddTask(id) PROVE PipelineIInv'
  <2>1. [id |-> id, dependencies |-> <<>>] \in Pipeline!Task
    BY DEF Pipeline!Task
  <2>2. tasks' \in Seq(Pipeline!Task)
    BY <1>1, <2>1 DEF Pipeline!AddTask, PipelineIInv
  <2> QED
    BY <1>1, <2>2 DEF Pipeline!AddTask, PipelineIInv
<1>2. ASSUME NEW i \in DOMAIN tasks, NEW id \in TaskNames, Pipeline!AddDependency(i, id) PROVE PipelineIInv'
  <2>1. tasks[i] \in Pipeline!Task /\ i \in 1..Len(tasks)
    BY DEF PipelineIInv
  <2> DEFINE t == [tasks[i] EXCEPT !.dependencies = Append(tasks[i].dependencies, id)]
  <2>2. t \in Pipeline!Task
    <3>1. Append(tasks[i].dependencies, id) \in Seq(TaskNames)
      BY <2>1 DEF Pipeline!Task
    <3> QED
      BY <2>1, <3>1 DEF Pipeline!Task
  <2>3. tasks' = [tasks EXCEPT ![i] = t]
    BY <1>2 DEF Pipeline!AddDependency
  <2> HIDE DEF t
  <2>4. tasks' \in Seq(Pipeline!Task)
    BY <2>1, <2>2, <2>3, ExceptSeq DEF PipelineIInv
  <2> QED
    BY <1>2, <2>4 DEF Pipeline!AddDependency, PipelineIInv
<1> QED
  BY <1>1, <1>2 DEF Pipeline!Next

(* A task, by its place.                                                      *)
LEMMA TaskAt ==
  ASSUME PipelineIInv
  PROVE  /\ Len(tasks) \in Nat /\ DOMAIN tasks = 1..Len(tasks)
         /\ \A i \in DOMAIN tasks : tasks[i].id \in TaskNames /\ tasks[i].dependencies \in Seq(TaskNames)
<1>1. Len(tasks) \in Nat /\ DOMAIN tasks = 1..Len(tasks) /\ \A i \in DOMAIN tasks : tasks[i] \in Pipeline!Task
  BY DEF PipelineIInv
<1>2. \A t \in Pipeline!Task : t.id \in TaskNames /\ t.dependencies \in Seq(TaskNames)
  BY DEF Pipeline!Task
<1> QED
  BY <1>1, <1>2

(* The keys of the Map are the tasks' ids.                                    *)
LEMMA KeysAreIds ==
  ASSUME PipelineIInv
  PROVE  Pipeline!Keys \in Seq(TaskNames) /\ Pipeline!Range(Pipeline!Keys) = Pipeline!TaskIds
<1> DEFINE n == Len(tasks)
           Add(k, id) == IF id \in Pipeline!Range(k) THEN k ELSE Append(k, id)
           S == Seq(TaskNames)
           step == [p \in S \X Nat |-> IF p[2] \in 1..n THEN Add(p[1], tasks[p[2]].id) ELSE p[1]]
<1>n. n \in Nat /\ DOMAIN tasks = 1..n /\ \A i \in 1..n : tasks[i].id \in TaskNames
  BY TaskAt
<1>1. Steps(step, S)
  BY <1>n DEF Steps
<1>2. \A k \in S, i \in 1..n : step[<<k, i>>] = Add(k, tasks[i].id)
  OBVIOUS
<1>3. <<>> \in S
  OBVIOUS
<1> HIDE DEF step
<1>4. PICK g : Terms(g, n, S, <<>>, step)
  BY <1>1, <1>3, <1>n, TermsExist DEF Steps
<1>5. PICK keys : keys = CHOOSE f : f = [i \in 0..n |-> IF i = 0 THEN <<>> ELSE Add(f[i - 1], tasks[i].id)]
  OBVIOUS
<1>6. Pipeline!Keys = keys[n]
  BY <1>5, Zenon DEF Pipeline!Keys
<1>7. g = [i \in 0..n |-> IF i = 0 THEN <<>> ELSE Add(g[i - 1], tasks[i].id)]
  <2>1. ASSUME NEW i \in 0..n PROVE g[i] = IF i = 0 THEN <<>> ELSE Add(g[i - 1], tasks[i].id)
    <3>1. CASE i = 0
      BY <1>4, <3>1 DEF Terms
    <3>2. CASE i # 0
      <4>1. i \in 1..n /\ i - 1 \in 0..n
        BY <1>n, <3>2
      <4>2. g[i] = step[<<g[i - 1], i>>] /\ g[i - 1] \in S
        BY <1>4, <4>1 DEF Terms
      <4> HIDE DEF Add, S
      <4> QED
        BY <1>2, <3>2, <4>1, <4>2
    <3> QED
      BY <3>1, <3>2
  <2>2. g = [i \in 0..n |-> g[i]]
    BY <1>4 DEF Terms
  <2> QED
    BY <2>1, <2>2
<1>8. keys = [i \in 0..n |-> IF i = 0 THEN <<>> ELSE Add(keys[i - 1], tasks[i].id)]
  BY <1>5, <1>7, Zenon
<1>9. keys[0] = <<>> /\ \A i \in 1..n : keys[i] = Add(keys[i - 1], tasks[i].id)
  <2>1. 0 \in 0..n /\ \A i \in 1..n : i \in 0..n /\ i # 0
    BY <1>n
  <2> HIDE DEF Add
  <2> QED
    BY <1>8, <2>1
<1> DEFINE Good(i) == keys[i] \in S /\ Pipeline!Range(keys[i]) = {tasks[j].id : j \in 1..i}
<1>10. Good(0)
  <2>1. Pipeline!Range(<<>>) = {}
    BY DEF Pipeline!Range
  <2> QED
    BY <1>3, <1>9, <2>1
<1>11. ASSUME NEW i \in 1..n, Good(i - 1) PROVE Good(i)
  <2> DEFINE k == keys[i - 1]
             id == tasks[i].id
  <2>1. k \in S /\ Pipeline!Range(k) = {tasks[j].id : j \in 1..(i - 1)} /\ id \in TaskNames
    BY <1>n, <1>11
  <2>2. keys[i] = Add(k, id)
    BY <1>9
  <2>3. {tasks[j].id : j \in 1..i} = {tasks[j].id : j \in 1..(i - 1)} \cup {id}
    <3>1. \A j : j \in 1..i <=> j \in 1..(i - 1) \/ j = i
      BY <1>n
    <3> QED
      BY <3>1
  <2> HIDE DEF k, id
  <2>4. Add(k, id) \in S /\ Pipeline!Range(Add(k, id)) = Pipeline!Range(k) \cup {id}
    BY <2>1, RangeAppend
  <2> QED
    BY <2>1, <2>2, <2>3, <2>4
<1> HIDE DEF Good
<1>12. Good(n)
  <2> DEFINE Bad == {i \in 0..n : ~Good(i)}
  <2>1. SUFFICES ASSUME Bad # {} PROVE FALSE
    BY <1>n
  <2>2. PICK m \in Bad : \A l \in Bad : m <= l
    <3>1. Bad \in SUBSET Nat
      OBVIOUS
    <3> QED
      BY <2>1, <3>1, LeastNumber
  <2>3. m # 0
    BY <1>10, <2>2
  <2>4. m \in 1..n /\ m - 1 \in 0..n /\ m - 1 \notin Bad
    BY <1>n, <2>2, <2>3
  <2> QED
    BY <1>11, <2>2, <2>4
<1> QED
  BY <1>6, <1>n, <1>12 DEF Good, Pipeline!TaskIds

(* Of the tasks with an id the Map keeps one.                                 *)
LEMMA AdjOfTask ==
  ASSUME PipelineIInv
  PROVE  /\ Adjacency(Pipeline!Adj)
         /\ \A id \in Pipeline!TaskIds : \E i \in DOMAIN tasks :
               tasks[i].id = id /\ Pipeline!Adj[id] = tasks[i].dependencies
<1>n. Len(tasks) \in Nat /\ DOMAIN tasks = 1..Len(tasks)
      /\ \A i \in DOMAIN tasks : tasks[i].id \in TaskNames /\ tasks[i].dependencies \in Seq(TaskNames)
  BY TaskAt
<1>1. ASSUME NEW id \in Pipeline!TaskIds
      PROVE  Pipeline!Max({i \in DOMAIN tasks : tasks[i].id = id}) \in {i \in DOMAIN tasks : tasks[i].id = id}
  <2> DEFINE D == {i \in DOMAIN tasks : tasks[i].id = id}
             U == {u \in Nat : \A i \in D : i <= u}
  <2>1. Len(tasks) \in U
    BY <1>n
  <2>2. PICK m \in U : \A u \in U : m <= u
    <3>1. U \in SUBSET Nat
      OBVIOUS
    <3> QED
      BY <2>1, <3>1, LeastNumber
  <2>3. PICK k \in D : TRUE
    BY DEF Pipeline!TaskIds
  <2>4. m \in D
    <3>1. SUFFICES ASSUME m \notin D PROVE FALSE
      OBVIOUS
    <3>2. m - 1 \in U
      BY <1>n, <2>2, <2>3, <3>1
    <3> QED
      BY <2>2, <3>2
  <2>5. \E x \in D : \A y \in D : x >= y
    BY <1>n, <2>2, <2>4
  <2> HIDE DEF D
  <2>6. Pipeline!Max(D) \in D
    BY <2>5, Zenon DEF Pipeline!Max
  <2> QED
    BY <2>6 DEF D
<1>2. ASSUME NEW id \in TaskNames PROVE Pipeline!Adj[id] \in Seq(TaskNames)
  <2>1. CASE id \in Pipeline!TaskIds
    BY <1>n, <1>1, <2>1 DEF Pipeline!Adj
  <2>2. CASE id \notin Pipeline!TaskIds
    BY <2>2 DEF Pipeline!Adj
  <2> QED
    BY <2>1, <2>2
<1>3. Pipeline!TaskIds \subseteq TaskNames
  BY <1>n DEF Pipeline!TaskIds
<1>4. ASSUME NEW id \in Pipeline!TaskIds
      PROVE  \E i \in DOMAIN tasks : tasks[i].id = id /\ Pipeline!Adj[id] = tasks[i].dependencies
  BY <1>1, <1>3 DEF Pipeline!Adj
<1> QED
  BY <1>2, <1>4 DEF Adjacency, Pipeline!Adj

(* The dependencies on tasks that do not exist are counted.                   *)
LEMMA DependencyErrorsCount ==
  ASSUME PipelineIInv
  PROVE  /\ Pipeline!DependencyErrors \in Nat
         /\ Pipeline!DependencyErrors = 0 =>
              \A i \in DOMAIN tasks : Pipeline!Range(tasks[i].dependencies) \subseteq Pipeline!TaskIds
<1> DEFINE unknown(i) == {k \in DOMAIN tasks[i].dependencies : tasks[i].dependencies[k] \notin Pipeline!TaskIds}
           F == [i \in DOMAIN tasks |-> {i} \X unknown(i)]
           U == UNION {{i} \X unknown(i) : i \in DOMAIN tasks}
<1>n. Len(tasks) \in Nat /\ DOMAIN tasks = 1..Len(tasks)
      /\ \A i \in DOMAIN tasks : tasks[i].id \in TaskNames /\ tasks[i].dependencies \in Seq(TaskNames)
  BY TaskAt
<1>1. \A i \in DOMAIN tasks : IsFiniteSet({i} \X unknown(i))
  <2> SUFFICES ASSUME NEW i \in DOMAIN tasks PROVE IsFiniteSet({i} \X unknown(i))
    OBVIOUS
  <2>1. Len(tasks[i].dependencies) \in Nat /\ unknown(i) \subseteq 1..Len(tasks[i].dependencies)
    BY <1>n
  <2>2. IsFiniteSet(1..Len(tasks[i].dependencies))
    BY <2>1, FS_Interval
  <2>3. IsFiniteSet(unknown(i))
    BY <2>1, <2>2, FS_Subset
  <2>4. IsFiniteSet({i})
    BY FS_Singleton
  <2> HIDE DEF unknown
  <2> QED
    BY <2>3, <2>4, FS_Product
<1>2. IsFiniteSet(U)
  <2> HIDE DEF unknown
  <2> DEFINE R == {{i} \X unknown(i) : i \in DOMAIN tasks}
  <2>1. F \in Surjection(DOMAIN tasks, R)
    <3>1. F \in [DOMAIN tasks -> R]
      OBVIOUS
    <3>2. \A t \in R : \E i \in DOMAIN tasks : F[i] = t
      OBVIOUS
    <3> HIDE DEF F, R
    <3> QED
      BY <3>1, <3>2 DEF Surjection
  <2>2. IsFiniteSet(DOMAIN tasks)
    BY <1>n, FS_Interval
  <2>3. IsFiniteSet(R)
    BY <2>1, <2>2, FS_Surjection
  <2>4. \A t \in R : IsFiniteSet(t)
    BY <1>1
  <2> HIDE DEF R
  <2>5. IsFiniteSet(UNION R)
    BY <2>3, <2>4, FS_UNION
  <2> QED
    BY <2>5 DEF R
<1>3. Pipeline!DependencyErrors = Cardinality(U)
  BY PipelineSame, Zenon DEF Pipeline!DependencyErrors
<1>4. ASSUME U = {}, NEW i \in DOMAIN tasks, NEW d \in Pipeline!Range(tasks[i].dependencies)
      PROVE  d \in Pipeline!TaskIds
  <2>1. PICK k \in DOMAIN tasks[i].dependencies : tasks[i].dependencies[k] = d
    BY <1>4 DEF Pipeline!Range
  <2>2. SUFFICES ASSUME d \notin Pipeline!TaskIds PROVE FALSE
    OBVIOUS
  <2>3. k \in unknown(i)
    BY <2>1, <2>2
  <2> HIDE DEF unknown
  <2>4. <<i, k>> \in {i} \X unknown(i)
    BY <2>3
  <2>5. <<i, k>> \in U
    BY <2>4
  <2> QED
    BY <1>4, <2>5
<1> HIDE DEF U
<1>5. Cardinality(U) \in Nat /\ (Cardinality(U) = 0 => U = {})
  BY <1>2, FS_CardinalityType, FS_EmptySet
<1> QED
  BY <1>3, <1>4, <1>5

(* The score tells what is valid from what is not.                            *)
LEMMA ScoreTells ==
  ASSUME PipelineIInv
  PROVE  Pipeline!Report.valid <=> Pipeline!Report.confidence >= 70
<1> DEFINE p == Pipeline!SyntaxErrors + Pipeline!ConnectorIssues
           g == Pipeline!GatesExecuted(Pipeline!SyntaxErrors)
           w == Pipeline!SemanticWarnings
           k == Pipeline!Sandbox(Pipeline!SyntaxErrors) = "skipped"
           base == (6 * 70 + 25 * g + 3) \div 6
           unskipped == IF k THEN Pipeline!Least(base, 85) ELSE base
<1>1. Pipeline!SyntaxErrors \in Nat /\ Pipeline!ConnectorIssues \in 0..1
  <2>1. code.errors \in Nat /\ Pipeline!DependencyErrors \in Nat
    BY DependencyErrorsCount DEF PipelineIInv
  <2> QED
    BY <2>1 DEF Pipeline!SyntaxErrors, Pipeline!ConnectorIssues
<1>2. g \in 3..6 /\ w \in Nat
  <2>1. code.warnings \in Nat
    BY DEF PipelineIInv
  <2> QED
    BY <2>1 DEF Pipeline!GatesExecuted, Pipeline!SemanticWarnings
<1> DEFINE c == Pipeline!Confidence(Pipeline!SyntaxErrors)
<1>3. c = IF p > 0 THEN (IF p > 4 THEN 10 ELSE 50 - 10 * p)
           ELSE IF w > 3 THEN Pipeline!Least(unskipped, 80)
           ELSE IF w > 0 THEN Pipeline!Least(unskipped, 90) ELSE unskipped
  BY Zenon DEF Pipeline!Confidence
<1>4. p \in Nat /\ (p = 0 <=> Pipeline!SyntaxErrors = 0 /\ Pipeline!ConnectorIssues = 0)
  BY <1>1
<1> HIDE DEF p, g, w, k, c
<1>5. base \in 83..95
  <2>1. g = 3 \/ g = 4 \/ g = 5 \/ g = 6
    BY <1>2
  <2> QED
    BY <2>1
<1> HIDE DEF base
<1>6. unskipped \in 83..95
  BY <1>5 DEF Pipeline!Least
<1> HIDE DEF unskipped
<1>7. (p = 0 => c >= 70) /\ (p # 0 => c \in Int /\ c < 70)
  BY <1>2, <1>3, <1>4, <1>6 DEF Pipeline!Least
<1>8. CASE tasks = <<>>
  BY <1>8 DEF Pipeline!Report
<1>9. CASE tasks # <<>>
  <2>1. Pipeline!Report = [valid |-> Pipeline!SyntaxErrors = 0 /\ Pipeline!ConnectorIssues = 0,
                           confidence |-> c]
    BY <1>9 DEF Pipeline!Report, c
  <2>2. Pipeline!Report.valid <=> Pipeline!SyntaxErrors = 0 /\ Pipeline!ConnectorIssues = 0
    BY <2>1
  <2>3. Pipeline!Report.confidence = c
    BY <2>1
  <2>4. Pipeline!Report.confidence >= 70 <=> p = 0
    BY <1>7, <2>3
  <2> QED
    BY <1>4, <2>2, <2>4
<1> QED
  BY <1>8, <1>9

(* As many ids as tasks: no two tasks have the same.                          *)
LEMMA DistinctIds ==
  ASSUME PipelineIInv, Cardinality(Pipeline!TaskIds) = Len(tasks)
  PROVE  \A i, j \in DOMAIN tasks : tasks[i].id = tasks[j].id => i = j
<1> DEFINE n == Len(tasks)
           f == [i \in 1..n |-> tasks[i].id]
<1>n. n \in Nat /\ DOMAIN tasks = 1..n
  BY TaskAt
<1>1. IsFiniteSet(1..n) /\ Cardinality(1..n) = n
  <2> HIDE DEF n, f
  <2>1. 1 \in Int /\ n \in Int
    BY <1>n
  <2>2. IsFiniteSet(1..n) /\ Cardinality(1..n) = IF 1 > n THEN 0 ELSE n - 1 + 1
    BY <2>1, FS_Interval
  <2> QED
    BY <1>n, <2>2
<1>2. f \in Surjection(1..n, Pipeline!TaskIds)
  <2>1. f \in [1..n -> Pipeline!TaskIds] /\ \A t \in Pipeline!TaskIds : \E i \in 1..n : f[i] = t
    BY <1>n DEF Pipeline!TaskIds
  <2> HIDE DEF f
  <2> QED
    BY <2>1 DEF Surjection
<1> HIDE DEF f
<1>3. f \in Injection(1..n, Pipeline!TaskIds)
  BY <1>1, <1>2, FS_SurjSameCardinalityImpliesInj
<1>4. IsInjective(f) /\ DOMAIN f = 1..n
  BY <1>3 DEF Injection
<1>5. \A i, j \in 1..n : f[i] = f[j] => i = j
  BY <1>4 DEF IsInjective
<1> QED
  BY <1>n, <1>5 DEF f

(* What is valid can run.                                                     *)
LEMMA PipelineSuffices ==
  ASSUME Pipeline!ValidatorAssumption, PipelineIInv
  PROVE  Pipeline!ValidIsRunnable
<1> DEFINE T == Pipeline!TaskIds
           A == Pipeline!Adj
<1>1. SUFFICES ASSUME Pipeline!Report.valid, Cardinality(T) = Len(tasks)
               PROVE  \E order \in Pipeline!Bijection(1..Len(tasks), T) :
                        \A i \in DOMAIN tasks : \A d \in Pipeline!Range(tasks[i].dependencies) :
                          \E j, k \in DOMAIN order : order[j] = d /\ order[k] = tasks[i].id /\ j < k
  BY ScoreTells, PipelineSame, Zenon DEF Pipeline!ValidIsRunnable
<1>n. Len(tasks) \in Nat /\ DOMAIN tasks = 1..Len(tasks)
      /\ \A i \in DOMAIN tasks : tasks[i].id \in TaskNames /\ tasks[i].dependencies \in Seq(TaskNames)
  BY TaskAt
<1>2. Pipeline!DependencyErrors = 0 /\ ~Pipeline!DetectCycle
  <2>1. Pipeline!SyntaxErrors = 0
    BY <1>1 DEF Pipeline!Report
  <2>2. code.errors \in Nat /\ Pipeline!DependencyErrors \in Nat
    BY DependencyErrorsCount DEF PipelineIInv
  <2> QED
    BY <2>1, <2>2 DEF Pipeline!SyntaxErrors
<1>3. \A i \in DOMAIN tasks : Pipeline!Range(tasks[i].dependencies) \subseteq T
  BY <1>2, DependencyErrorsCount
<1>4. Adjacency(A) /\ \A id \in T : \E i \in DOMAIN tasks : tasks[i].id = id /\ A[id] = tasks[i].dependencies
  BY AdjOfTask
<1>5. T \in SUBSET TaskNames /\ IsFiniteSet(TaskNames)
  BY <1>n, PipelineSame DEF Pipeline!TaskIds, Pipeline!ValidatorAssumption
<1> HIDE DEF A, T
<1>6. Closed(T, A)
  BY <1>3, <1>4, <1>5 DEF Closed
<1>7. PICK o : Arranges(o, T, A)
  <2>1. Pipeline!Keys \in Seq(TaskNames) /\ Pipeline!Range(Pipeline!Keys) = T
    BY KeysAreIds DEF T
  <2>2. ~Pipeline!FindCycle(Pipeline!Keys, A).found
    BY <1>2, Zenon DEF Pipeline!DetectCycle, A
  <2> QED
    BY <1>4, <1>5, <1>6, <2>1, <2>2, FindsOrder
<1>8. Len(o) = Len(tasks) /\ DOMAIN o = 1..Len(tasks)
  <2>1. o \in Seq(TaskNames) /\ Len(o) \in Nat /\ DOMAIN o = 1..Len(o)
    BY <1>7 DEF Arranges
  <2>2. o \in Bijection(1..Len(o), T)
    BY <1>7, <2>1, PipelineSame DEF Arranges, Bijection, Injection, Surjection, IsInjective, Range
  <2>3. IsFiniteSet(1..Len(o)) /\ Cardinality(1..Len(o)) = Len(o)
    BY <2>1, FS_Interval
  <2>4. Cardinality(T) = Len(o)
    BY <2>2, <2>3, FS_Bijection DEF ExistsBijection
  <2> QED
    BY <1>1, <2>1, <2>4 DEF T
<1>9. o \in Pipeline!Bijection(1..Len(tasks), T)
  <2>1. Pipeline!Range(o) = {o[i] : i \in 1..Len(tasks)} /\ o \in Seq(TaskNames)
        /\ \A i, j \in 1..Len(tasks) : o[i] = o[j] => i = j
    BY <1>7, <1>8 DEF Arranges, Pipeline!Range
  <2>2. Pipeline!Range(o) = T
    BY <1>7 DEF Arranges
  <2>3. o \in [1..Len(tasks) -> T]
    BY <1>8, <2>1, <2>2
  <2> QED
    BY <1>8, <2>1, <2>2, <2>3
       DEF Pipeline!Bijection, Pipeline!Injection, Pipeline!Surjection, Pipeline!IsInjective
<1>10. ASSUME NEW i \in DOMAIN tasks, NEW d \in Pipeline!Range(tasks[i].dependencies)
       PROVE  \E j, k \in DOMAIN o : o[j] = d /\ o[k] = tasks[i].id /\ j < k
  <2>1. tasks[i].id \in T
    BY DEF T, Pipeline!TaskIds
  <2>2. PICK k \in DOMAIN o : o[k] = tasks[i].id
    BY <1>7, <2>1 DEF Arranges, Pipeline!Range
  <2>3. PICK l \in DOMAIN tasks : tasks[l].id = tasks[i].id /\ A[tasks[i].id] = tasks[l].dependencies
    BY <1>4, <2>1
  <2>4. l = i
    BY <1>1, <2>3, DistinctIds DEF T
  <2>5. d \in Pipeline!Range(A[o[k]])
    BY <2>2, <2>3, <2>4
  <2>6. PICK j \in DOMAIN o : o[j] = d /\ j < k
    BY <1>7, <2>5 DEF Arranges
  <2> QED
    BY <2>2, <2>6
<1>11. \E order \in Pipeline!Bijection(1..Len(tasks), T) :
         \A i \in DOMAIN tasks : \A d \in Pipeline!Range(tasks[i].dependencies) :
           \E j, k \in DOMAIN order : order[j] = d /\ order[k] = tasks[i].id /\ j < k
  BY <1>9, <1>10
<1> QED
  BY <1>11 DEF T

-------------------------------------------------------------------------------
(* What the migrations made of a report do to the columns.                    *)

(* The instance of the schema watch counts and ranges as the run does.        *)
LEMMA SchemaSame ==
  /\ \A S : Schema!Cardinality(S) = Cardinality(S)
  /\ \A f : Schema!Range(f) = Range(f)
<1>1. \A S : Schema!Cardinality(S) = Cardinality(S)
  BY ZenonT(60) DEF Schema!Cardinality, Cardinality, Schema!IsFiniteSet, IsFiniteSet
<1>2. \A f : Schema!Range(f) = Range(f)
  BY Zenon DEF Schema!Range, Range
<1> QED
  BY <1>1, <1>2, Zenon

(* Two functions of the subsets of a finite set agree, if each determines     *)
(* what it is on a set from what it is on a smaller one.                      *)
LEMMA SubsetsAgree ==
  ASSUME NEW D, IsFiniteSet(D), NEW f, NEW g,
         \A s \in SUBSET D : (\A r \in SUBSET s : r # s => f[r] = g[r]) => f[s] = g[s]
  PROVE  f[D] = g[D]
<1> DEFINE Bad == {n \in Nat : \E s \in SUBSET D : Cardinality(s) = n /\ f[s] # g[s]}
<1>1. SUFFICES ASSUME f[D] # g[D] PROVE FALSE
  OBVIOUS
<1>2. Cardinality(D) \in Bad
  BY <1>1, FS_CardinalityType
<1>3. PICK n \in Bad : \A k \in Bad : n <= k
  <2>1. Bad \in SUBSET Nat
    OBVIOUS
  <2> QED
    BY <1>2, <2>1, LeastNumber
<1>4. PICK s \in SUBSET D : Cardinality(s) = n /\ f[s] # g[s]
  BY <1>3
<1>5. ASSUME NEW r \in SUBSET s, r # s PROVE f[r] = g[r]
  <2>1. IsFiniteSet(s) /\ IsFiniteSet(r)
    BY FS_Subset
  <2>2. Cardinality(r) < Cardinality(s) /\ Cardinality(r) \in Nat /\ r \in SUBSET D
    <3>1. Cardinality(r) \in Nat /\ Cardinality(s) \in Nat /\ Cardinality(r) <= Cardinality(s)
          /\ Cardinality(r) # Cardinality(s)
      BY <1>5, <2>1, FS_CardinalityType, FS_Subset
    <3> QED
      BY <3>1
  <2>3. Cardinality(r) \notin Bad
    BY <1>3, <1>4, <2>2
  <2> QED
    BY <2>2, <2>3
<1> QED
  BY <1>4, <1>5

(* The statements of one more change after those of others.                   *)
Follows(f, D, base) ==
  f = [done \in SUBSET D |-> IF done = {} THEN base
                             ELSE LET d == CHOOSE e \in done : TRUE IN Schema!Forward(d, f[done \ {d}])]
FollowsBack(f, D, base) ==
  f = [done \in SUBSET D |-> IF done = {} THEN base
                             ELSE LET d == CHOOSE e \in done : TRUE IN Schema!Rollback(d, f[done \ {d}])]

(* The statements of a migration, one after the other in any order.           *)
LEMMA MigrateIs ==
  ASSUME NEW D, IsFiniteSet(D), NEW base, NEW f, Follows(f, D, base)
  PROVE  Schema!Migrate(base, D) = f[D]
<1> DEFINE Is(h) == h = [done \in SUBSET D |-> IF done = {} THEN base
                     ELSE LET d == CHOOSE e \in done : TRUE IN Schema!Forward(d, h[done \ {d}])]
<1>1. PICK g : g = CHOOSE h : Is(h)
  OBVIOUS
<1>2. Schema!Migrate(base, D) = g[D]
  BY <1>1, Zenon DEF Schema!Migrate
<1>3. Follows(g, D, base)
  <2>1. Is(f)
    BY Zenon DEF Follows
  <2>2. Is(g)
    <3> HIDE DEF Is
    <3> QED
      BY <1>1, <2>1, Zenon
  <2> QED
    BY <2>2, Zenon DEF Follows
<1> HIDE DEF Is
<1>4. ASSUME NEW s \in SUBSET D, \A r \in SUBSET s : r # s => f[r] = g[r] PROVE f[s] = g[s]
  <2>1. CASE s = {}
    <3>1. f[s] = base /\ g[s] = base
      BY <1>3, <2>1 DEF Follows
    <3> QED
      BY <3>1
  <2>2. CASE s # {}
    <3>1. PICK d : d = CHOOSE e \in s : TRUE
      OBVIOUS
    <3>2. d \in s /\ s \ {d} \in SUBSET s /\ s \ {d} # s
      BY <2>2, <3>1
    <3>3. f[s] = Schema!Forward(d, f[s \ {d}])
      BY <2>2, <3>1, Zenon DEF Follows
    <3>4. g[s] = Schema!Forward(d, g[s \ {d}])
      BY <1>3, <2>2, <3>1, Zenon DEF Follows
    <3>5. f[s \ {d}] = g[s \ {d}]
      BY <1>4, <3>2
    <3> QED
      BY <3>3, <3>4, <3>5
  <2> QED
    BY <2>1, <2>2
<1> QED
  BY <1>2, <1>4, SubsetsAgree

(* So are those of a rollback.                                                *)
LEMMA RollBackIs ==
  ASSUME NEW D, IsFiniteSet(D), NEW base, NEW f, FollowsBack(f, D, base)
  PROVE  Schema!RollBack(base, D) = f[D]
<1> DEFINE Is(h) == h = [done \in SUBSET D |-> IF done = {} THEN base
                     ELSE LET d == CHOOSE e \in done : TRUE IN Schema!Rollback(d, h[done \ {d}])]
<1>1. PICK g : g = CHOOSE h : Is(h)
  OBVIOUS
<1>2. Schema!RollBack(base, D) = g[D]
  BY <1>1, Zenon DEF Schema!RollBack
<1>3. FollowsBack(g, D, base)
  <2>1. Is(f)
    BY Zenon DEF FollowsBack
  <2>2. Is(g)
    <3> HIDE DEF Is
    <3> QED
      BY <1>1, <2>1, Zenon
  <2> QED
    BY <2>2, Zenon DEF FollowsBack
<1> HIDE DEF Is
<1>4. ASSUME NEW s \in SUBSET D, \A r \in SUBSET s : r # s => f[r] = g[r] PROVE f[s] = g[s]
  <2>1. CASE s = {}
    <3>1. f[s] = base /\ g[s] = base
      BY <1>3, <2>1 DEF FollowsBack
    <3> QED
      BY <3>1
  <2>2. CASE s # {}
    <3>1. PICK d : d = CHOOSE e \in s : TRUE
      OBVIOUS
    <3>2. d \in s /\ s \ {d} \in SUBSET s /\ s \ {d} # s
      BY <2>2, <3>1
    <3>3. f[s] = Schema!Rollback(d, f[s \ {d}])
      BY <2>2, <3>1, Zenon DEF FollowsBack
    <3>4. g[s] = Schema!Rollback(d, g[s \ {d}])
      BY <1>3, <2>2, <3>1, Zenon DEF FollowsBack
    <3>5. f[s \ {d}] = g[s \ {d}]
      BY <1>4, <3>2
    <3> QED
      BY <3>3, <3>4, <3>5
  <2> QED
    BY <2>1, <2>2
<1> QED
  BY <1>2, <1>4, SubsetsAgree

(* Columns in the form the engine gives them, each with a name of its own.    *)
Cols(S) ==
  /\ \A c \in S : c = [name |-> c.name, type |-> c.type]
  /\ \A b, c \in S : b.name = c.name => b = c

(* What a statement makes of a table on its way from the columns A to B, of   *)
(* which it has left C and reached N.                                         *)
Moves(A, B, C, N) ==
  /\ \A a \in A : (\A b \in B : b.name # a.name) =>
       Schema!Drop((A \ C) \cup N, a.name) = (A \ (C \cup {a})) \cup N
  /\ \A b \in B : Schema!Add((A \ C) \cup N, b.name, b.type) = (A \ C) \cup (N \cup {b})
  /\ \A a \in A \ C, b \in B \ N : a.name = b.name =>
       Schema!Retype((A \ C) \cup N, a.name, b.type) = (A \ (C \cup {a})) \cup (N \cup {b})
  /\ \A a \in A \ C, b \in B \ N : a.type = b.type /\ (\A x \in B : x.name # a.name) =>
       Schema!Rename((A \ C) \cup N, a.name, b.name) = (A \ (C \cup {a})) \cup (N \cup {b})

(* What a statement does to the column it is about.                           *)
LEMMA StatementsMove ==
  ASSUME NEW A, NEW B, Cols(A), Cols(B), NEW C \in SUBSET A, NEW N \in SUBSET B
  PROVE  Moves(A, B, C, N)
<1> DEFINE T == (A \ C) \cup N
<1>1. ASSUME NEW a \in A, \A b \in B : b.name # a.name
      PROVE  Schema!Drop(T, a.name) = (A \ (C \cup {a})) \cup N
  BY <1>1 DEF Schema!Drop, Cols
<1>2. ASSUME NEW b \in B PROVE Schema!Add(T, b.name, b.type) = (A \ C) \cup (N \cup {b})
  BY DEF Schema!Add, Cols
<1>3. ASSUME NEW a \in A \ C, NEW b \in B \ N, a.name = b.name
      PROVE  Schema!Retype(T, a.name, b.type) = (A \ (C \cup {a})) \cup (N \cup {b})
  <2>1. \A c \in T : c.name = a.name <=> c = a
    BY <1>3 DEF Cols
  <2>2. [a EXCEPT !.type = b.type] = b /\ a \in T
    <3>1. a = [name |-> a.name, type |-> a.type] /\ b = [name |-> b.name, type |-> b.type]
      BY DEF Cols
    <3> QED
      BY <1>3, <3>1
  <2>3. Schema!Retype(T, a.name, b.type) = {IF c = a THEN b ELSE c : c \in T}
    BY <2>1, <2>2 DEF Schema!Retype
  <2>4. {IF c = a THEN b ELSE c : c \in T} = (T \ {a}) \cup {b}
    <3> HIDE DEF T
    <3> QED
      BY <2>2
  <2>5. a \notin N
    BY <1>3 DEF Cols
  <2> QED
    BY <2>3, <2>4, <2>5
<1>4. ASSUME NEW a \in A \ C, NEW b \in B \ N, a.type = b.type, \A x \in B : x.name # a.name
      PROVE  Schema!Rename(T, a.name, b.name) = (A \ (C \cup {a})) \cup (N \cup {b})
  <2>1. \A c \in T : c.name = a.name <=> c = a
    BY <1>4 DEF Cols
  <2>2. [a EXCEPT !.name = b.name] = b /\ a \in T
    <3>1. a = [name |-> a.name, type |-> a.type] /\ b = [name |-> b.name, type |-> b.type]
      BY DEF Cols
    <3> QED
      BY <1>4, <3>1
  <2>3. Schema!Rename(T, a.name, b.name) = {IF c = a THEN b ELSE c : c \in T}
    BY <2>1, <2>2 DEF Schema!Rename
  <2>4. {IF c = a THEN b ELSE c : c \in T} = (T \ {a}) \cup {b}
    <3> HIDE DEF T
    <3> QED
      BY <2>2
  <2>5. a \notin N
    BY <1>4
  <2> QED
    BY <2>3, <2>4, <2>5
<1> QED
  BY <1>1, <1>2, <1>3, <1>4 DEF Moves

(* What a change takes from the columns before and brings to those after.     *)
Was(d) == [name |-> d.column, type |-> d.was]
Now(d) == [name |-> d.name, type |-> d.type]
Gone(changes) == {Was(d) : d \in {e \in changes : e.kind # "added"}}
Come(changes) == {Now(d) : d \in {e \in changes : e.kind # "removed"}}

(* The changes D are all there is between the columns A and B, each once.     *)
Delta(D, A, B) ==
  /\ \A d \in D :
       /\ d.kind \in {"added", "removed", "retyped", "renamed"}
       /\ d.kind # "renamed" => d.name = d.column
       /\ d.kind # "retyped" => d.type = d.was
       /\ d.kind \in {"removed", "renamed"} => \A b \in B : b.name # d.column
       /\ d.kind \in {"added", "renamed"} => \A a \in A : a.name # d.name
  /\ Gone(D) = A \ B /\ Come(D) = B \ A
  /\ \A d, e \in D : d.kind # "added" /\ e.kind # "added" /\ Was(d) = Was(e) => d = e
  /\ \A d, e \in D : d.kind # "removed" /\ e.kind # "removed" /\ Now(d) = Now(e) => d = e

(* With the statements of a change done after those of the others of s, what  *)
(* s takes is gone and what it brings is there; backwards, the reverse.       *)
Advances(d, s, A, B) ==
  /\ Schema!Forward(d, (A \ Gone(s \ {d})) \cup Come(s \ {d})) = (A \ Gone(s)) \cup Come(s)
  /\ Schema!Rollback(d, (B \ Come(s \ {d})) \cup Gone(s \ {d})) = (B \ Come(s)) \cup Gone(s)

(* Each change of a difference goes one step of the way.                      *)
LEMMA ForwardGoes ==
  ASSUME NEW A, NEW B, NEW D, Cols(A), Cols(B), Delta(D, A, B), NEW s \in SUBSET D, NEW d \in s
  PROVE  Advances(d, s, A, B)
<1> DEFINE r == s \ {d}
           C == Gone(r)
           N == Come(r)
<1>1. C \in SUBSET A /\ N \in SUBSET B
  BY DEF Delta, Gone, Come
<1>2. Gone(s) = C \cup (IF d.kind = "added" THEN {} ELSE {Was(d)})
  BY DEF Gone
<1>3. Come(s) = N \cup (IF d.kind = "removed" THEN {} ELSE {Now(d)})
  BY DEF Come
<1>4. d.kind # "added" => Was(d) \in A \ C
  BY DEF Delta, Gone
<1>5. d.kind # "removed" => Now(d) \in B \ N
  BY DEF Delta, Come
<1>6. /\ d.kind \in {"added", "removed", "retyped", "renamed"}
      /\ d.kind # "renamed" => d.name = d.column
      /\ d.kind # "retyped" => d.type = d.was
      /\ d.kind \in {"removed", "renamed"} => \A b \in B : b.name # d.column
      /\ d.kind \in {"added", "renamed"} => \A a \in A : a.name # d.name
  BY DEF Delta
<1>7. Was(d).name = d.column /\ Was(d).type = d.was /\ Now(d).name = d.name /\ Now(d).type = d.type
  BY DEF Was, Now
<1>0. SUFFICES /\ Schema!Forward(d, (A \ C) \cup N) = (A \ Gone(s)) \cup Come(s)
               /\ Schema!Rollback(d, (B \ N) \cup C) = (B \ Come(s)) \cup Gone(s)
  BY DEF Advances
<1> HIDE DEF C, N
<1>w. PICK w : w = Was(d)
  OBVIOUS
<1>n. PICK n : n = Now(d)
  OBVIOUS
<1>f. Moves(A, B, C, N) /\ Moves(B, A, N, C)
  BY <1>1, StatementsMove
<1>8. CASE d.kind = "added"
  <2>1. Schema!Forward(d, (A \ C) \cup N) = Schema!Add((A \ C) \cup N, n.name, n.type)
        /\ Schema!Rollback(d, (B \ N) \cup C) = Schema!Drop((B \ N) \cup C, n.name)
    BY <1>6, <1>7, <1>8, <1>n DEF Schema!Forward, Schema!Rollback
  <2>2. Schema!Add((A \ C) \cup N, n.name, n.type) = (A \ C) \cup (N \cup {n})
    <3>1. n \in B
      BY <1>5, <1>8, <1>n
    <3> QED
      BY <3>1, <1>f, Zenon DEF Moves
  <2>3. Schema!Drop((B \ N) \cup C, n.name) = (B \ (N \cup {n})) \cup C
    <3>1. n \in B /\ \A a \in A : a.name # n.name
      BY <1>5, <1>6, <1>7, <1>8, <1>n
    <3> QED
      BY <3>1, <1>f, Zenon DEF Moves
  <2> QED
    BY <1>2, <1>3, <1>w, <1>n, <1>8, <2>1, <2>2, <2>3
<1>9. CASE d.kind = "removed"
  <2>1. Schema!Forward(d, (A \ C) \cup N) = Schema!Drop((A \ C) \cup N, w.name)
        /\ Schema!Rollback(d, (B \ N) \cup C) = Schema!Add((B \ N) \cup C, w.name, w.type)
    BY <1>6, <1>7, <1>9, <1>w DEF Schema!Forward, Schema!Rollback
  <2>2. Schema!Drop((A \ C) \cup N, w.name) = (A \ (C \cup {w})) \cup N
    <3>1. w \in A /\ \A b \in B : b.name # w.name
      BY <1>4, <1>6, <1>7, <1>9, <1>w
    <3> QED
      BY <3>1, <1>f, Zenon DEF Moves
  <2>3. Schema!Add((B \ N) \cup C, w.name, w.type) = (B \ N) \cup (C \cup {w})
    <3>1. w \in A
      BY <1>4, <1>9, <1>w
    <3> QED
      BY <3>1, <1>f, Zenon DEF Moves
  <2> QED
    BY <1>2, <1>3, <1>w, <1>n, <1>9, <2>1, <2>2, <2>3
<1>10. CASE d.kind = "retyped"
  <2>1. Schema!Forward(d, (A \ C) \cup N) = Schema!Retype((A \ C) \cup N, w.name, n.type)
        /\ Schema!Rollback(d, (B \ N) \cup C) = Schema!Retype((B \ N) \cup C, n.name, w.type)
    BY <1>6, <1>7, <1>10, <1>w, <1>n DEF Schema!Forward, Schema!Rollback
  <2>2. w \in A \ C /\ n \in B \ N /\ w.name = n.name
    BY <1>4, <1>5, <1>6, <1>7, <1>10, <1>w, <1>n
  <2>3. Schema!Retype((A \ C) \cup N, w.name, n.type) = (A \ (C \cup {w})) \cup (N \cup {n})
    <3>1. \A a \in A \ C, b \in B \ N : a.name = b.name =>
             Schema!Retype((A \ C) \cup N, a.name, b.type) = (A \ (C \cup {a})) \cup (N \cup {b})
      BY <1>f, Zenon DEF Moves
    <3> QED
      BY <2>2, <3>1, Zenon
  <2>4. Schema!Retype((B \ N) \cup C, n.name, w.type) = (B \ (N \cup {n})) \cup (C \cup {w})
    <3>1. \A a \in B \ N, b \in A \ C : a.name = b.name =>
             Schema!Retype((B \ N) \cup C, a.name, b.type) = (B \ (N \cup {a})) \cup (C \cup {b})
      BY <1>f, Zenon DEF Moves
    <3> QED
      BY <2>2, <3>1, Zenon
  <2> QED
    BY <1>2, <1>3, <1>w, <1>n, <1>10, <2>1, <2>3, <2>4
<1>11. CASE d.kind = "renamed"
  <2>1. Schema!Forward(d, (A \ C) \cup N) = Schema!Rename((A \ C) \cup N, w.name, n.name)
        /\ Schema!Rollback(d, (B \ N) \cup C) = Schema!Rename((B \ N) \cup C, n.name, w.name)
    BY <1>7, <1>11, <1>w, <1>n DEF Schema!Forward, Schema!Rollback
  <2>2. w \in A \ C /\ n \in B \ N /\ w.type = n.type
        /\ (\A x \in B : x.name # w.name) /\ (\A x \in A : x.name # n.name)
    BY <1>4, <1>5, <1>6, <1>7, <1>11, <1>w, <1>n
  <2>3. Schema!Rename((A \ C) \cup N, w.name, n.name) = (A \ (C \cup {w})) \cup (N \cup {n})
    <3>1. \A a \in A \ C, b \in B \ N : a.type = b.type /\ (\A x \in B : x.name # a.name) =>
             Schema!Rename((A \ C) \cup N, a.name, b.name) = (A \ (C \cup {a})) \cup (N \cup {b})
      BY <1>f, Zenon DEF Moves
    <3> QED
      BY <2>2, <3>1, Zenon
  <2>4. Schema!Rename((B \ N) \cup C, n.name, w.name) = (B \ (N \cup {n})) \cup (C \cup {w})
    <3>1. \A a \in B \ N, b \in A \ C : a.type = b.type /\ (\A x \in A : x.name # a.name) =>
             Schema!Rename((B \ N) \cup C, a.name, b.name) = (B \ (N \cup {a})) \cup (C \cup {b})
      BY <1>f, Zenon DEF Moves
    <3> QED
      BY <2>2, <3>1, Zenon
  <2> QED
    BY <1>2, <1>3, <1>w, <1>n, <1>11, <2>1, <2>3, <2>4
<1> QED
  BY <1>6, <1>8, <1>9, <1>10, <1>11

(* A set of changes with such an account of it is finite.                     *)
LEMMA DeltaFinite ==
  ASSUME NEW A, NEW B, NEW D, IsFiniteSet(A), IsFiniteSet(B), Delta(D, A, B)
  PROVE  IsFiniteSet(D)
<1> DEFINE S == ({0} \X B) \cup ({1} \X A)
           f == [d \in D |-> IF d.kind = "added" THEN <<0, Now(d)>> ELSE <<1, Was(d)>>]
<1>1. IsFiniteSet(S)
  BY FS_Product, FS_Union, FS_Singleton
<1>2. f \in [D -> S]
  BY DEF Delta, Gone, Come
<1>3. \A d, e \in D : f[d] = f[e] => d = e
  <2> TAKE d, e \in D
  <2>1. f[d] = f[e] => (d.kind = "added" <=> e.kind = "added")
    OBVIOUS
  <2>2. d.kind = "added" /\ e.kind = "added" /\ f[d] = f[e] => Now(d) = Now(e)
    OBVIOUS
  <2>3. d.kind # "added" /\ e.kind # "added" /\ f[d] = f[e] => Was(d) = Was(e)
    OBVIOUS
  <2> QED
    BY <2>1, <2>2, <2>3 DEF Delta
<1>4. f \in Injection(D, S)
  BY <1>2, <1>3 DEF Injection, IsInjective
<1> QED
  BY <1>1, <1>4, FS_Injection

(* The statements lead from the columns before to those after, and back.      *)
LEMMA DeltaLeads ==
  ASSUME NEW A, NEW B, NEW D, IsFiniteSet(A), IsFiniteSet(B), Cols(A), Cols(B), Delta(D, A, B)
  PROVE  Schema!Migrate(A, D) = B /\ Schema!RollBack(B, D) = A
<1> DEFINE f == [done \in SUBSET D |-> (A \ Gone(done)) \cup Come(done)]
           g == [done \in SUBSET D |-> (B \ Come(done)) \cup Gone(done)]
<1>1. Gone({}) = {} /\ Come({}) = {} /\ Gone(D) = A \ B /\ Come(D) = B \ A
  BY DEF Gone, Come, Delta
<1>2. f[D] = B /\ g[D] = A
  BY <1>1
<1>3. Follows(f, D, A) /\ FollowsBack(g, D, B)
  <2>1. ASSUME NEW done \in SUBSET D, done # {}, NEW d, d = CHOOSE e \in done : TRUE
        PROVE  f[done] = Schema!Forward(d, f[done \ {d}]) /\ g[done] = Schema!Rollback(d, g[done \ {d}])
    <3>1. d \in done /\ done \ {d} \in SUBSET D
      BY <2>1
    <3>2. /\ f[done \ {d}] = (A \ Gone(done \ {d})) \cup Come(done \ {d})
          /\ g[done \ {d}] = (B \ Come(done \ {d})) \cup Gone(done \ {d})
          /\ f[done] = (A \ Gone(done)) \cup Come(done) /\ g[done] = (B \ Come(done)) \cup Gone(done)
      BY <3>1
    <3>3. /\ Schema!Forward(d, (A \ Gone(done \ {d})) \cup Come(done \ {d})) = (A \ Gone(done)) \cup Come(done)
          /\ Schema!Rollback(d, (B \ Come(done \ {d})) \cup Gone(done \ {d})) = (B \ Come(done)) \cup Gone(done)
      <4>1. Advances(d, done, A, B)
        BY <3>1, ForwardGoes
      <4> QED
        BY <4>1, Zenon DEF Advances
    <3> HIDE DEF f, g
    <3> QED
      BY <3>2, <3>3, Zenon
  <2>2. f[{}] = A /\ g[{}] = B /\ {} \in SUBSET D
    BY <1>1
  <2>3. f = [done \in SUBSET D |-> f[done]] /\ g = [done \in SUBSET D |-> g[done]]
    OBVIOUS
  <2> HIDE DEF f, g
  <2>4. \A done \in SUBSET D : f[done] = IF done = {} THEN A
           ELSE LET d == CHOOSE e \in done : TRUE IN Schema!Forward(d, f[done \ {d}])
    BY <2>1, <2>2, Zenon
  <2>5. \A done \in SUBSET D : g[done] = IF done = {} THEN B
           ELSE LET d == CHOOSE e \in done : TRUE IN Schema!Rollback(d, g[done \ {d}])
    BY <2>1, <2>2, Zenon
  <2> QED
    BY <2>3, <2>4, <2>5, Zenon DEF Follows, FollowsBack
<1> HIDE DEF f, g
<1> QED
  BY <1>2, <1>3, DeltaFinite, MigrateIs, RollBackIs

(* A schema as a set of columns.                                              *)
LEMMA SchemaColumns ==
  ASSUME NEW s, Schema!IsSchema(s)
  PROVE  /\ Len(s) \in Nat /\ DOMAIN s = 1..Len(s)
         /\ Cols(Schema!Range(s)) /\ IsFiniteSet(Schema!Range(s))
         /\ \A i \in DOMAIN s : s[i] \in Schema!Range(s) /\ s[i] = [name |-> s[i].name, type |-> s[i].type]
         /\ \A i, j \in DOMAIN s : s[i].name = s[j].name => i = j
         /\ \A c \in Schema!Range(s) : \E i \in DOMAIN s : s[i] = c
<1> DEFINE R == Schema!Range(s)
<1>1. s \in Seq(R) /\ (\A c \in R : c = [name |-> c.name, type |-> c.type])
      /\ \A i, j \in DOMAIN s : s[i].name = s[j].name => i = j
  BY DEF Schema!IsSchema
<1>2. R = {s[i] : i \in DOMAIN s}
  BY DEF Schema!Range
<1> HIDE DEF R
<1>3. Len(s) \in Nat /\ DOMAIN s = 1..Len(s)
  BY <1>1
<1>4. IsFiniteSet(R)
  <2>1. s \in Surjection(1..Len(s), R)
    BY <1>1, <1>2, <1>3 DEF Surjection
  <2>2. IsFiniteSet(1..Len(s))
    BY <1>3, FS_Interval
  <2> QED
    BY <2>1, <2>2, FS_Surjection
<1>5. \A b, c \in R : b.name = c.name => b = c
  BY <1>1, <1>2
<1> QED
  BY <1>1, <1>2, <1>3, <1>4, <1>5 DEF Cols, R

(* What the search for renames has paired up to the place i.                  *)
PairsUpTo(P, i, old, new) ==
  /\ \A p \in P : /\ p = <<p[1], p[2]>> /\ p[1] <= i
                  /\ p[1] \in Schema!Missing(old, new) /\ p[2] \in Schema!Missing(new, old)
                  /\ new[p[2]].type = old[p[1]].type
  /\ \A p, q \in P : p[1] = q[1] \/ p[2] = q[2] => p = q

(* The renames pair columns that are gone with columns that came.             *)
LEMMA RenamesPair ==
  ASSUME NEW close, NEW old, NEW new, Schema!IsSchema(old), Schema!IsSchema(new)
  PROVE  PairsUpTo(Schema!Renames(close, old, new), Len(old), old, new)
<1> DEFINE removed == Schema!Missing(old, new)
           added == Schema!Missing(new, old)
           L == Len(old)
           Matching(pairs, i) == {j \in added : /\ new[j].type = old[i].type
                                            /\ <<old[i].name, new[j].name>> \in close
                                            /\ \A p \in pairs : p[2] # j}
           Pair(pairs, i) == IF i \in removed /\ Matching(pairs, i) # {}
                             THEN pairs \cup {<<i, Schema!Min(Matching(pairs, i))>>} ELSE pairs
           Is(h) == h = [i \in 0 .. Len(old) |-> IF i = 0 THEN {} ELSE Pair(h[i - 1], i)]
           S == SUBSET (removed \X added)
           step == [x \in S \X Nat |-> Pair(x[1], x[2])]
<1>0. L \in Nat /\ removed \in SUBSET Nat /\ added \in SUBSET Nat
  BY SchemaColumns DEF Schema!Missing
<1>1. \A pairs, i : Matching(pairs, i) # {} => Schema!Min(Matching(pairs, i)) \in Matching(pairs, i)
  <2> TAKE pairs, i
  <2>1. PICK F : F = Matching(pairs, i)
    OBVIOUS
  <2>2. F \in SUBSET Nat
    BY <1>0, <2>1
  <2>3. F # {} => Schema!Min(F) \in F
    BY <2>2, LeastNumber DEF Schema!Min
  <2> QED
    BY <2>1, <2>3
<1>2. \A pairs \in S, i \in Nat : Pair(pairs, i) \in S
  <2> TAKE pairs \in S, i \in Nat
  <2>f. PICK F : F = Matching(pairs, i)
    OBVIOUS
  <2>j. PICK j : j = Schema!Min(F)
    OBVIOUS
  <2>1. F = Matching(pairs, i) /\ j = Schema!Min(Matching(pairs, i))
    BY <2>f, <2>j
  <2>2. F # {} => j \in added
    BY <1>1, <2>1
  <2>3. Pair(pairs, i) = IF i \in removed /\ F # {} THEN pairs \cup {<<i, j>>} ELSE pairs
    BY <2>1, Zenon
  <2> HIDE DEF Pair, removed, added
  <2> QED
    BY <2>2, <2>3
<1> HIDE DEF Pair
<1>3. PICK g : Terms(g, L, S, {}, step)
  <2>1. step \in [S \X Nat -> S] /\ {} \in S
    BY <1>2
  <2> HIDE DEF S, step
  <2> QED
    BY <1>0, <2>1, TermsExist
<1>4. Is(g)
  <2>1. g \in [0..L -> S] /\ g[0] = {} /\ \A k \in 1..L : g[k] = step[<<g[k - 1], k>>]
    BY <1>3 DEF Terms
  <2>2. ASSUME NEW k \in 0..L PROVE g[k] = IF k = 0 THEN {} ELSE Pair(g[k - 1], k)
    <3>1. CASE k = 0
      BY <2>1, <3>1
    <3>2. CASE k # 0
      <4>1. k \in 1..L /\ k \in Nat /\ k - 1 \in 0..L
        BY <1>0, <3>2
      <4>2. g[k - 1] \in S
        BY <2>1, <4>1
      <4>3. step[<<g[k - 1], k>>] = Pair(g[k - 1], k)
        <5> HIDE DEF S
        <5> QED
          BY <4>1, <4>2
      <4> QED
        BY <2>1, <3>2, <4>1, <4>3
    <3> QED
      BY <3>1, <3>2
  <2>3. g = [k \in 0..L |-> g[k]]
    BY <2>1
  <2> QED
    BY <2>2, <2>3
<1>5. PICK taken : taken = CHOOSE h : Is(h)
  OBVIOUS
<1>6. Schema!Renames(close, old, new) = taken[L]
  BY <1>5 DEF Schema!Renames, Pair
<1>7. Is(taken)
  <2> HIDE DEF Is
  <2> QED
    BY <1>4, <1>5, Zenon
<1> DEFINE Bad == {i \in 0..L : ~PairsUpTo(taken[i], i, old, new)}
<1>8. SUFFICES ASSUME Bad # {} PROVE FALSE
  BY <1>0, <1>6
<1>9. PICK m \in Bad : \A k \in Bad : m <= k
  <2>1. Bad \in SUBSET Nat
    BY <1>0
  <2> HIDE DEF Bad
  <2> QED
    BY <1>8, <2>1, LeastNumber
<1>10. m # 0
  <2>1. taken[0] = {}
    BY <1>0, <1>7
  <2> QED
    BY <1>9, <2>1 DEF PairsUpTo
<1>11. m - 1 \in 0..L /\ m - 1 \notin Bad /\ m \in 0..L
  BY <1>0, <1>9, <1>10
<1>12. taken[m] = Pair(taken[m - 1], m)
  BY <1>7, <1>10, <1>11
<1> DEFINE P == taken[m - 1]
<1>13. PairsUpTo(P, m - 1, old, new)
  BY <1>11
<1>14. PairsUpTo(Pair(P, m), m, old, new)
  <2> HIDE DEF P
  <2>1. CASE ~(m \in removed /\ Matching(P, m) # {})
    BY <1>13, <1>0, <1>11, <2>1 DEF PairsUpTo, Pair
  <2>2. CASE m \in removed /\ Matching(P, m) # {}
    <3>1. PICK j : j = Schema!Min(Matching(P, m))
      OBVIOUS
    <3>2. j \in added /\ new[j].type = old[m].type /\ \A p \in P : p[2] # j
      BY <1>1, <2>2, <3>1
    <3>3. Pair(P, m) = P \cup {<<m, j>>}
      BY <2>2, <3>1 DEF Pair
    <3>4. \A p \in P : p[1] \in Nat /\ p[1] <= m /\ p[1] # m
      BY <1>0, <1>11, <1>13 DEF PairsUpTo
    <3> HIDE DEF removed, added
    <3>5. ASSUME NEW p \in P \cup {<<m, j>>}
          PROVE  /\ p = <<p[1], p[2]>> /\ p[1] <= m
                 /\ p[1] \in removed /\ p[2] \in added
                 /\ new[p[2]].type = old[p[1]].type
      BY <1>11, <1>13, <2>2, <3>2, <3>4 DEF PairsUpTo, removed, added
    <3>6. ASSUME NEW p \in P \cup {<<m, j>>}, NEW q \in P \cup {<<m, j>>}, p[1] = q[1] \/ p[2] = q[2]
          PROVE  p = q
      BY <1>13, <3>2, <3>4, <3>6 DEF PairsUpTo
    <3> QED
      BY <3>3, <3>5, <3>6 DEF PairsUpTo, removed, added
  <2> QED
    BY <2>1, <2>2
<1> QED
  BY <1>9, <1>12, <1>14

(* The diff is all there is between two schemas, each change once.            *)
LEMMA DiffIsDelta ==
  ASSUME NEW close, NEW widening, NEW old, NEW new, Schema!IsSchema(old), Schema!IsSchema(new)
  PROVE  Delta(Schema!DiffBy(close, widening, old, new), Schema!Range(old), Schema!Range(new))
<1> DEFINE D == Schema!DiffBy(close, widening, old, new)
           A == Schema!Range(old)
           B == Schema!Range(new)
           P == Schema!Renames(close, old, new)
           R == Schema!Missing(old, new) \ {p[1] : p \in P}
           N == Schema!Missing(new, old) \ {p[2] : p \in P}
           Q == {q \in A \X B : q[1].name = q[2].name /\ q[1].type # q[2].type}
           Ren(p) == Schema!Change("renamed", old[p[1]].name, new[p[2]].name, old[p[1]].type, old[p[1]].type, "warning")
           Rem(i) == Schema!Change("removed", old[i].name, old[i].name, old[i].type, old[i].type, "breaking")
           Add(j) == Schema!Change("added", new[j].name, new[j].name, new[j].type, new[j].type, "non-breaking")
           Ret(q) == Schema!Change("retyped", q[1].name, q[2].name, q[1].type, q[2].type,
                                   Schema!Severity(widening, q[1].type, q[2].type))
<1>1. D = {Ren(p) : p \in P} \cup {Rem(i) : i \in R} \cup {Add(j) : j \in N} \cup {Ret(q) : q \in Q}
  BY Zenon DEF Schema!DiffBy
<1>2. PairsUpTo(P, Len(old), old, new)
  BY RenamesPair
<1>3. /\ \A i \in DOMAIN old : old[i] \in A /\ old[i] = [name |-> old[i].name, type |-> old[i].type]
      /\ \A i, j \in DOMAIN old : old[i].name = old[j].name => i = j
      /\ \A c \in A : \E i \in DOMAIN old : old[i] = c
      /\ Cols(A)
  BY SchemaColumns
<1>4. /\ \A i \in DOMAIN new : new[i] \in B /\ new[i] = [name |-> new[i].name, type |-> new[i].type]
      /\ \A i, j \in DOMAIN new : new[i].name = new[j].name => i = j
      /\ \A c \in B : \E i \in DOMAIN new : new[i] = c
      /\ Cols(B)
  BY SchemaColumns
<1>5. \A i \in Schema!Missing(old, new) : i \in DOMAIN old /\ \A b \in B : b.name # old[i].name
  BY DEF Schema!Missing, Schema!Named
<1>6. \A j \in Schema!Missing(new, old) : j \in DOMAIN new /\ \A a \in A : a.name # new[j].name
  BY DEF Schema!Missing, Schema!Named
<1>7. ASSUME NEW p \in P
      PROVE  /\ Ren(p).kind = "renamed" /\ Ren(p).column = old[p[1]].name /\ Ren(p).name = new[p[2]].name
             /\ Ren(p).was = old[p[1]].type /\ Ren(p).type = old[p[1]].type
             /\ Was(Ren(p)) = old[p[1]] /\ Now(Ren(p)) = new[p[2]]
             /\ p[1] \in Schema!Missing(old, new) /\ p[2] \in Schema!Missing(new, old)
  <2>1. p[1] \in Schema!Missing(old, new) /\ p[2] \in Schema!Missing(new, old) /\ new[p[2]].type = old[p[1]].type
    BY <1>2 DEF PairsUpTo
  <2> QED
    BY <1>3, <1>4, <1>5, <1>6, <2>1 DEF Schema!Change, Was, Now
<1>8. ASSUME NEW i \in R
      PROVE  /\ Rem(i).kind = "removed" /\ Rem(i).column = old[i].name /\ Rem(i).name = old[i].name
             /\ Rem(i).was = old[i].type /\ Rem(i).type = old[i].type
             /\ Was(Rem(i)) = old[i]
  BY <1>3, <1>5 DEF Schema!Change, Was
<1>9. ASSUME NEW j \in N
      PROVE  /\ Add(j).kind = "added" /\ Add(j).column = new[j].name /\ Add(j).name = new[j].name
             /\ Add(j).was = new[j].type /\ Add(j).type = new[j].type
             /\ Now(Add(j)) = new[j]
  BY <1>4, <1>6 DEF Schema!Change, Now
<1>10. ASSUME NEW q \in Q
       PROVE  /\ Ret(q).kind = "retyped" /\ Ret(q).column = q[1].name /\ Ret(q).name = q[2].name
              /\ Ret(q).was = q[1].type /\ Ret(q).type = q[2].type
              /\ Was(Ret(q)) = q[1] /\ Now(Ret(q)) = q[2]
              /\ q = <<q[1], q[2]>> /\ q[1] \in A /\ q[2] \in B
              /\ q[1].name = q[2].name /\ q[1].type # q[2].type
  <2>1. q[1] \in A /\ q[2] \in B /\ q = <<q[1], q[2]>> /\ q[1].name = q[2].name /\ q[1].type # q[2].type
    OBVIOUS
  <2>2. q[1] = [name |-> q[1].name, type |-> q[1].type] /\ q[2] = [name |-> q[2].name, type |-> q[2].type]
    BY <1>3, <1>4, <2>1 DEF Cols
  <2> QED
    BY <2>1, <2>2 DEF Schema!Change, Was, Now
<1> HIDE DEF D, P, A, B, Ren, Rem, Add, Ret
<1>11. ASSUME NEW d \in D
       PROVE  /\ d.kind \in {"added", "removed", "retyped", "renamed"}
              /\ d.kind # "renamed" => d.name = d.column
              /\ d.kind # "retyped" => d.type = d.was
              /\ d.kind \in {"removed", "renamed"} => \A b \in B : b.name # d.column
              /\ d.kind \in {"added", "renamed"} => \A a \in A : a.name # d.name
              /\ d.kind # "added" => Was(d) \in A \ B
              /\ d.kind # "removed" => Now(d) \in B \ A
  <2>1. ASSUME NEW p \in P, d = Ren(p) PROVE Was(d) \in A \ B /\ Now(d) \in B \ A
    BY <1>3, <1>4, <1>5, <1>6, <1>7, <2>1
  <2>2. ASSUME NEW i \in R, d = Rem(i) PROVE Was(d) \in A \ B
    BY <1>3, <1>5, <1>8, <2>2
  <2>3. ASSUME NEW j \in N, d = Add(j) PROVE Now(d) \in B \ A
    BY <1>4, <1>6, <1>9, <2>3
  <2>4. ASSUME NEW q \in Q, d = Ret(q) PROVE Was(d) \in A \ B /\ Now(d) \in B \ A
    BY <1>3, <1>4, <1>10, <2>4 DEF Cols
  <2>5. CASE \E p \in P : d = Ren(p)
    BY <1>5, <1>6, <1>7, <2>1, <2>5
  <2>6. CASE \E i \in R : d = Rem(i)
    BY <1>5, <1>8, <2>2, <2>6
  <2>7. CASE \E j \in N : d = Add(j)
    BY <1>6, <1>9, <2>3, <2>7
  <2>8. CASE \E q \in Q : d = Ret(q)
    BY <1>10, <2>4, <2>8
  <2> QED
    BY <1>1, <2>5, <2>6, <2>7, <2>8
<1>12. Gone(D) = A \ B
  <2>1. ASSUME NEW a \in A \ B PROVE \E d \in D : d.kind # "added" /\ Was(d) = a
    <3>1. PICK i \in DOMAIN old : old[i] = a
      BY <1>3
    <3>2. CASE i \in {p[1] : p \in P}
      <4>1. PICK p \in P : p[1] = i
        BY <3>2
      <4>2. Ren(p) \in D /\ Ren(p).kind = "renamed" /\ Was(Ren(p)) = a
        BY <1>1, <1>7, <3>1, <4>1
      <4> QED
        BY <4>2
    <3>3. CASE i \in R
      <4>1. Rem(i) \in D /\ Rem(i).kind = "removed" /\ Was(Rem(i)) = a
        BY <1>1, <1>8, <3>1, <3>3
      <4> QED
        BY <4>1
    <3>4. CASE i \notin Schema!Missing(old, new)
      <4>1. PICK b \in B : b.name = a.name
        BY <3>1, <3>4 DEF Schema!Missing, Schema!Named, B
      <4>2. b.type # a.type
        BY <1>3, <1>4, <4>1 DEF Cols
      <4>3. <<a, b>> \in Q
        BY <4>1, <4>2
      <4>4. Ret(<<a, b>>) \in D /\ Ret(<<a, b>>).kind = "retyped" /\ Was(Ret(<<a, b>>)) = a
        BY <1>1, <1>10, <4>3
      <4> QED
        BY <4>4
    <3> QED
      BY <3>2, <3>3, <3>4
  <2> QED
    BY <1>11, <2>1 DEF Gone
<1>13. Come(D) = B \ A
  <2>1. ASSUME NEW b \in B \ A PROVE \E d \in D : d.kind # "removed" /\ Now(d) = b
    <3>1. PICK j \in DOMAIN new : new[j] = b
      BY <1>4
    <3>2. CASE j \in {p[2] : p \in P}
      <4>1. PICK p \in P : p[2] = j
        BY <3>2
      <4>2. Ren(p) \in D /\ Ren(p).kind = "renamed" /\ Now(Ren(p)) = b
        BY <1>1, <1>7, <3>1, <4>1
      <4> QED
        BY <4>2
    <3>3. CASE j \in N
      <4>1. Add(j) \in D /\ Add(j).kind = "added" /\ Now(Add(j)) = b
        BY <1>1, <1>9, <3>1, <3>3
      <4> QED
        BY <4>1
    <3>4. CASE j \notin Schema!Missing(new, old)
      <4>1. PICK a \in A : a.name = b.name
        BY <3>1, <3>4 DEF Schema!Missing, Schema!Named, A
      <4>2. a.type # b.type
        BY <1>3, <1>4, <4>1 DEF Cols
      <4>3. <<a, b>> \in Q
        BY <4>1, <4>2
      <4>4. Ret(<<a, b>>) \in D /\ Ret(<<a, b>>).kind = "retyped" /\ Now(Ret(<<a, b>>)) = b
        BY <1>1, <1>10, <4>3
      <4> QED
        BY <4>4
    <3> QED
      BY <3>2, <3>3, <3>4
  <2> QED
    BY <1>11, <2>1 DEF Come
<1>14. ASSUME NEW d \in D, NEW e \in D, d.kind = e.kind,
              (d.kind # "added" /\ Was(d) = Was(e)) \/ (d.kind # "removed" /\ Now(d) = Now(e))
       PROVE  d = e
  <2>1. ASSUME NEW p \in P, NEW q \in P, d = Ren(p), e = Ren(q) PROVE d = e
    <3>1. old[p[1]] = old[q[1]] \/ new[p[2]] = new[q[2]]
      BY <1>7, <1>14, <2>1
    <3>2. p[1] = q[1] \/ p[2] = q[2]
      BY <1>3, <1>4, <1>5, <1>6, <1>7, <3>1
    <3> QED
      BY <1>2, <2>1, <3>2 DEF PairsUpTo
  <2>2. ASSUME NEW i \in R, NEW j \in R, d = Rem(i), e = Rem(j) PROVE d = e
    <3>1. old[i] = old[j]
      BY <1>8, <1>14, <2>2
    <3> QED
      BY <1>3, <1>5, <2>2, <3>1
  <2>3. ASSUME NEW i \in N, NEW j \in N, d = Add(i), e = Add(j) PROVE d = e
    <3>1. new[i] = new[j]
      BY <1>9, <1>14, <2>3
    <3> QED
      BY <1>4, <1>6, <2>3, <3>1
  <2>4. ASSUME NEW p \in Q, NEW q \in Q, d = Ret(p), e = Ret(q) PROVE d = e
    <3>1. p[1] = q[1] \/ p[2] = q[2]
      BY <1>10, <1>14, <2>4
    <3>2. p[1] = q[1] /\ p[2] = q[2]
      BY <1>3, <1>4, <1>10, <3>1 DEF Cols
    <3> QED
      BY <1>10, <2>4, <3>2
  <2> QED
    BY <1>1, <1>7, <1>8, <1>9, <1>10, <1>14, <2>1, <2>2, <2>3, <2>4
<1>15. ASSUME NEW d \in D, NEW e \in D, d.kind # e.kind
       PROVE  /\ ~(d.kind # "added" /\ e.kind # "added" /\ Was(d) = Was(e))
              /\ ~(d.kind # "removed" /\ e.kind # "removed" /\ Now(d) = Now(e))
  <2>1. ASSUME NEW p \in P, NEW i \in R PROVE Was(Ren(p)) # Was(Rem(i))
    <3>1. p[1] # i
      OBVIOUS
    <3> QED
      BY <1>3, <1>5, <1>7, <1>8, <3>1
  <2>2. ASSUME NEW p \in P, NEW j \in N PROVE Now(Ren(p)) # Now(Add(j))
    <3>1. p[2] # j
      OBVIOUS
    <3> QED
      BY <1>4, <1>6, <1>7, <1>9, <3>1
  <2>3. ASSUME NEW q \in Q
        PROVE  /\ \A p \in P : Was(Ret(q)) # Was(Ren(p)) /\ Now(Ret(q)) # Now(Ren(p))
               /\ \A i \in R : Was(Ret(q)) # Was(Rem(i))
               /\ \A j \in N : Now(Ret(q)) # Now(Add(j))
    BY <1>5, <1>6, <1>7, <1>8, <1>9, <1>10
  <2> QED
    BY <1>1, <1>7, <1>8, <1>9, <1>10, <1>15, <2>1, <2>2, <2>3
<1>16. ASSUME NEW d \in D, NEW e \in D
       PROVE  /\ d.kind # "added" /\ e.kind # "added" /\ Was(d) = Was(e) => d = e
              /\ d.kind # "removed" /\ e.kind # "removed" /\ Now(d) = Now(e) => d = e
  <2>1. CASE d.kind = e.kind
    BY <1>14, <2>1
  <2>2. CASE d.kind # e.kind
    BY <1>15, <2>2
  <2> QED
    BY <2>1, <2>2
<1>17. Delta(D, A, B)
  <2>1. \A d \in D :
          /\ d.kind \in {"added", "removed", "retyped", "renamed"}
          /\ d.kind # "renamed" => d.name = d.column
          /\ d.kind # "retyped" => d.type = d.was
          /\ d.kind \in {"removed", "renamed"} => \A b \in B : b.name # d.column
          /\ d.kind \in {"added", "renamed"} => \A a \in A : a.name # d.name
    BY <1>11
  <2>2. \A d, e \in D : d.kind # "added" /\ e.kind # "added" /\ Was(d) = Was(e) => d = e
    BY <1>16, Zenon
  <2>3. \A d, e \in D : d.kind # "removed" /\ e.kind # "removed" /\ Now(d) = Now(e) => d = e
    BY <1>16, Zenon
  <2> QED
    BY <1>12, <1>13, <2>1, <2>2, <2>3, Zenon DEF Delta
<1> QED
  BY <1>17 DEF D, A, B

(* The migrations made of the report lead from any schema to any other.       *)
LEMMA DiffLeads ==
  ASSUME NEW close, NEW widening, NEW old, NEW new, Schema!IsSchema(old), Schema!IsSchema(new)
  PROVE  LET changes == Schema!DiffBy(close, widening, old, new)
         IN  /\ Schema!Migrate(Schema!Range(old), changes) = Schema!Range(new)
             /\ Schema!RollBack(Schema!Range(new), changes) = Schema!Range(old)
BY SchemaColumns, DiffIsDelta, DeltaLeads

(* Those made of a history lead through all of it.                            *)
LEMMA HistoryLeads ==
  ASSUME NEW history, history \in Seq(Schema!Range(history)), history # <<>>,
         \A s \in Schema!Range(history) : Schema!IsSchema(s)
  PROVE  Schema!EvolutionLeads(history)
<1> DEFINE n == Len(history) - 1
           E == Schema!Evolution(history)
           Is(h) == h = [i \in 0 .. Len(history) - 1 |->
                          IF i = 0 THEN Schema!Range(history[1]) ELSE Schema!Migrate(h[i - 1], E[i])]
           f == [i \in 0 .. Len(history) - 1 |-> Schema!Range(history[i + 1])]
<1>1. n \in Nat /\ n + 1 = Len(history) /\ \A i \in 1..(n + 1) : Schema!IsSchema(history[i])
  <2>1. Len(history) \in Nat /\ Len(history) # 0 /\ DOMAIN history = 1..Len(history)
    OBVIOUS
  <2>2. \A i \in DOMAIN history : history[i] \in Schema!Range(history)
    BY DEF Schema!Range
  <2> QED
    BY <2>1, <2>2
<1>2. ASSUME NEW i \in 1..n PROVE Schema!Migrate(f[i - 1], E[i]) = f[i]
  <2> DEFINE names == {c.name : c \in UNION {Schema!Range(history[j]) : j \in DOMAIN history}}
  <2>1. i \in 1 .. Len(history) - 1 /\ i \in 0..n /\ i - 1 \in 0..n /\ (i - 1) + 1 = i
        /\ i \in 1..(n + 1) /\ i + 1 \in 1..(n + 1)
    BY <1>1
  <2>2. E[i] = Schema!DiffBy(names \X names, {}, history[i], history[i + 1])
    BY <2>1 DEF Schema!Evolution
  <2>3. f[i - 1] = Schema!Range(history[i]) /\ f[i] = Schema!Range(history[i + 1])
    BY <2>1
  <2> HIDE DEF names, f, E
  <2> QED
    BY <1>1, <2>1, <2>2, <2>3, DiffLeads
<1>3. Is(f)
  <2>1. ASSUME NEW i \in 0..n
        PROVE  f[i] = IF i = 0 THEN Schema!Range(history[1]) ELSE Schema!Migrate(f[i - 1], E[i])
    <3>1. CASE i = 0
      BY <3>1
    <3>2. CASE i # 0
      <4>1. i \in 1..n
        BY <1>1, <3>2
      <4> HIDE DEF f, E
      <4> QED
        BY <1>2, <3>2, <4>1
    <3> QED
      BY <3>1, <3>2
  <2>2. f = [i \in 0 .. Len(history) - 1 |-> f[i]]
    OBVIOUS
  <2> HIDE DEF f, E
  <2> QED
    BY <2>1, <2>2
<1> HIDE DEF f
<1>4. PICK reached : reached = CHOOSE h : Is(h)
  OBVIOUS
<1>5. Is(reached)
  <2> HIDE DEF Is
  <2> QED
    BY <1>3, <1>4, Zenon
<1>6. reached[n] = f[n]
  <2> DEFINE Bad == {i \in 0..n : reached[i] # f[i]}
  <2>1. SUFFICES ASSUME Bad # {} PROVE FALSE
    BY <1>1
  <2>2. PICK m \in Bad : \A k \in Bad : m <= k
    <3>1. Bad \in SUBSET Nat
      BY <1>1
    <3> HIDE DEF Bad
    <3> QED
      BY <2>1, <3>1, LeastNumber
  <2>3. m # 0
    <3>1. 0 \in 0..n /\ reached[0] = f[0]
      BY <1>1, <1>3, <1>5
    <3> QED
      BY <2>2, <3>1
  <2>4. m \in 0..n /\ m - 1 \in 0..n /\ m - 1 \notin Bad
    BY <1>1, <2>2, <2>3
  <2>5. reached[m] = Schema!Migrate(reached[m - 1], E[m]) /\ f[m] = Schema!Migrate(f[m - 1], E[m])
    BY <1>3, <1>5, <2>3, <2>4
  <2> QED
    BY <2>2, <2>4, <2>5
<1>7. Schema!EvolutionLeads(history) <=> reached[n] = Schema!Range(history[Len(history)])
  BY <1>4, Zenon DEF Schema!EvolutionLeads
<1>8. f[n] = Schema!Range(history[Len(history)])
  BY <1>1 DEF f
<1> QED
  BY <1>6, <1>7, <1>8

-------------------------------------------------------------------------------
(* The watch: what it holds between any two awaits.                           *)

(* A list of keys as a SnapshotStore keeps it.                                *)
KeysOK(keys, T) == keys \in Seq(T) /\ \A i, j \in DOMAIN keys : keys[i] = keys[j] => i = j

Call(a, f, w, c, o, m) == [at |-> a, full |-> f, todo |-> w, cur |-> c, old |-> o, news |-> m]

(* A call of detect_schema_change over tables of T: what it has news of is    *)
(* done, each table once, and what it still has to do is not.                 *)
ScanOK(s, T) ==
  /\ s = Call(s.at, s.full, s.todo, s.cur, s.old, s.news)
  /\ s.at \in {"idle", "schema", "snapshot", "save", "publish"}
  /\ KeysOK(s.todo, T)
  /\ s.cur \in TableSchemas \cup {<<>>} /\ s.old \in TableSchemas \cup {Absent}
  /\ s.at \in {"schema", "snapshot", "save"} => s.todo # <<>>
  /\ s.at \in {"snapshot", "save"} => s.cur \in TableSchemas
  /\ s.at = "idle" => s.news = <<>>
  /\ s.news \in Seq(Schema!Range(s.news))
  /\ \A i \in DOMAIN s.news : s.news[i].table \in T /\ s.news[i].table \notin Schema!Range(s.todo)
  /\ \A i, j \in DOMAIN s.news : s.news[i].table = s.news[j].table => i = j

(* What a reader makes of a table's news who knew the columns k.              *)
Says(n, k) == IF n.baseline THEN Schema!Range(n.cur) ELSE Schema!Migrate(k, n.changes)

(* What is known of a table that is not lost, with the news there are, is     *)
(* what its snapshot says; and a change about to be saved begins there.       *)
Adds(s, snap, kn, lo, T) ==
  \A t \in T \ lo :
    /\ snap[t] # Absent /\ (\A i \in DOMAIN s.news : s.news[i].table # t) => kn[t] = Schema!Range(snap[t])
    /\ \A i \in DOMAIN s.news : snap[t] # Absent /\ s.news[i].table = t =>
         Says(s.news[i], kn[t]) = Schema!Range(snap[t])
    /\ s.at = "save" /\ t = Head(s.todo) /\ s.old # Absent => kn[t] = Schema!Range(s.old)

SchemaIInv ==
  LET T == Schema!Range(listed) IN
  /\ listed \in Listings
  /\ live \in [T -> TableSchemas]
  /\ snapshot \in [T -> TableSchemas \cup {Absent}]
  /\ KeysOK(lru, T) /\ KeysOK(looked, T)
  /\ \A t \in T : snapshot[t] # Absent => t \in Schema!Range(lru) \cup Schema!Range(looked)
  /\ peek # Absent => peek.table \in T /\ peek.cur \in TableSchemas
  /\ lost \in SUBSET T /\ known = [t \in T |-> known[t]]
  /\ ScanOK(scan, T)
  /\ Adds(scan, snapshot, known, lost, T)

(* A key that is touched is in the list once, whether or not it was there.    *)
LEMMA TouchIs ==
  ASSUME NEW T, NEW keys, KeysOK(keys, T), NEW t \in T
  PROVE  /\ KeysOK(Schema!Touch(keys, t), T)
         /\ Schema!Range(Schema!Touch(keys, t)) = Schema!Range(keys) \cup {t}
         /\ Len(Schema!Touch(keys, t)) \in Nat /\ Len(keys) \in Nat
         /\ Len(Schema!Touch(keys, t)) >= Len(keys)
<1> DEFINE all == Schema!Touch(keys, t)
           n == Len(keys)
<1>1. n \in Nat /\ DOMAIN keys = 1..n /\ (\A i \in 1..n : keys[i] \in T) /\ keys \in Seq(T)
      /\ \A i, j \in 1..n : keys[i] = keys[j] => i = j
  BY DEF KeysOK
<1> HIDE DEF n
<1>2. Schema!Range(keys) = {keys[i] : i \in 1..n}
  BY <1>1 DEF Schema!Range
<1>3. CASE t \notin Schema!Range(keys)
  <2>1. all = Append(keys, t)
    BY <1>3, Zenon DEF Schema!Touch
  <2>2. Len(all) = n + 1 /\ all \in Seq(T) /\ DOMAIN all = 1..(n + 1)
        /\ all[n + 1] = t /\ \A i \in 1..n : all[i] = keys[i]
    BY <1>1, <2>1 DEF n
  <2> HIDE DEF all
  <2>3. \A i \in 1..(n + 1) : i = n + 1 \/ i \in 1..n
    BY <1>1
  <2>4. \A i, j \in 1..(n + 1) : all[i] = all[j] => i = j
    BY <1>1, <1>2, <1>3, <2>2, <2>3
  <2>5. Schema!Range(all) = Schema!Range(keys) \cup {t}
    <3>1. Schema!Range(all) = {all[i] : i \in 1..(n + 1)}
      BY <2>2 DEF Schema!Range
    <3>2. n + 1 \in 1..(n + 1) /\ 1..n \subseteq 1..(n + 1)
      BY <1>1
    <3> QED
      BY <1>2, <2>2, <2>3, <3>1, <3>2
  <2> QED
    BY <1>1, <2>2, <2>4, <2>5 DEF KeysOK, all, n
<1>4. CASE t \in Schema!Range(keys)
  <2>1. PICK idx : idx = CHOOSE i \in DOMAIN keys : keys[i] = t
    OBVIOUS
  <2>2. idx \in 1..n /\ keys[idx] = t
    BY <1>1, <1>2, <1>4, <2>1
  <2> DEFINE rest == [i \in 1 .. n - 1 |-> keys[IF i < idx THEN i ELSE i + 1]]
  <2>3. all = Append(rest, t)
    BY <1>4, <2>1, Zenon DEF Schema!Touch, n
  <2>4. \A i \in 1..(n - 1) : (IF i < idx THEN i ELSE i + 1) \in 1..n
    BY <1>1
  <2>5. rest \in Seq(T) /\ Len(rest) = n - 1 /\ n - 1 \in Nat
    <3>1. n - 1 \in Nat
      BY <1>1, <2>2
    <3>2. rest \in [1..(n - 1) -> T]
      BY <1>1, <2>4
    <3> HIDE DEF rest
    <3>3. rest \in Seq(T)
      BY <3>1, <3>2 DEF Seq
    <3> QED
      BY <3>1, <3>2, <3>3, LenProperties
  <2>6. Len(all) = n /\ all \in Seq(T) /\ DOMAIN all = 1..n
        /\ all[n] = t /\ \A i \in 1..(n - 1) : all[i] = keys[IF i < idx THEN i ELSE i + 1]
    <3>1. \A i \in 1..(n - 1) : rest[i] = keys[IF i < idx THEN i ELSE i + 1]
      OBVIOUS
    <3> HIDE DEF rest, all
    <3>2. Len(all) = (n - 1) + 1 /\ all \in Seq(T) /\ all[(n - 1) + 1] = t
          /\ \A i \in 1..(n - 1) : all[i] = rest[i]
      BY <2>3, <2>5
    <3> QED
      BY <1>1, <3>1, <3>2
  <2> HIDE DEF all, rest
  <2>7. \A i \in 1..n : i = n \/ i \in 1..(n - 1)
    BY <1>1
  <2>8. \A i \in 1..(n - 1) : \E k \in 1..n : k # idx /\ all[i] = keys[k] /\ k = IF i < idx THEN i ELSE i + 1
    <3> TAKE i \in 1..(n - 1)
    <3>1. PICK k : k = IF i < idx THEN i ELSE i + 1
      OBVIOUS
    <3>2. k \in 1..n /\ k # idx
      BY <1>1, <2>2, <3>1
    <3> QED
      BY <2>6, <3>1, <3>2
  <2>9. \A i, j \in 1..n : all[i] = all[j] => i = j
    <3> TAKE i, j \in 1..n
    <3>1. CASE i \in 1..(n - 1) /\ j \in 1..(n - 1)
      BY <1>1, <2>2, <2>8, <3>1
    <3>0. \A k \in 1..(n - 1) : all[k] # all[n]
      BY <1>1, <2>2, <2>6, <2>8
    <3>2. CASE i = n /\ j \in 1..(n - 1)
      BY <3>0, <3>2
    <3>3. CASE j = n /\ i \in 1..(n - 1)
      BY <3>0, <3>3
    <3> QED
      BY <2>7, <3>1, <3>2, <3>3
  <2>10. Schema!Range(all) = Schema!Range(keys)
    <3>1. Schema!Range(all) = {all[i] : i \in 1..n}
      BY <2>6 DEF Schema!Range
    <3>2. \A i \in 1..n : all[i] \in Schema!Range(keys)
      BY <1>2, <1>4, <2>6, <2>7, <2>8
    <3>3. ASSUME NEW k \in 1..n PROVE \E i \in 1..n : all[i] = keys[k]
      <4>1. CASE k = idx
        BY <1>1, <2>2, <2>6, <4>1
      <4>2. CASE k < idx
        <5>1. k \in 1..(n - 1) /\ k \in 1..n
          BY <1>1, <2>2, <4>2
        <5> QED
          BY <2>6, <4>2, <5>1
      <4>3. CASE k > idx
        <5>1. k - 1 \in 1..(n - 1) /\ k - 1 \in 1..n /\ ~(k - 1 < idx) /\ (k - 1) + 1 = k
          BY <1>1, <2>2, <4>3
        <5> QED
          BY <2>6, <5>1
      <4> QED
        BY <1>1, <2>2, <4>1, <4>2, <4>3
    <3> QED
      BY <1>2, <3>1, <3>2, <3>3
  <2> QED
    BY <1>1, <1>4, <2>6, <2>9, <2>10 DEF KeysOK, all, n
<1> QED
  BY <1>3, <1>4

(* The keys that are kept are some of those touched.                          *)
LEMMA KeptIs ==
  ASSUME MaxEntries \in Nat, NEW T, NEW keys, KeysOK(keys, T), NEW t \in T
  PROVE  /\ KeysOK(Schema!Kept(keys, t), T)
         /\ Schema!Range(Schema!Kept(keys, t)) \subseteq Schema!Range(Schema!Touch(keys, t))
<1> DEFINE all == Schema!Touch(keys, t)
           k == Schema!Spare(all)
           kept == Schema!Kept(keys, t)
           n == Len(all)
<1>1. KeysOK(all, T) /\ n \in Nat /\ Len(keys) \in Nat /\ n >= Len(keys)
  BY TouchIs
<1>2. k \in Nat /\ k <= n
  BY <1>1 DEF Schema!Spare
<1>3. kept = SubSeq(all, k + 1, n)
  BY Zenon DEF Schema!Kept
<1>4. all \in Seq(T) /\ DOMAIN all = 1..n /\ \A i, j \in 1..n : all[i] = all[j] => i = j
  BY <1>1 DEF KeysOK
<1> HIDE DEF all, k, kept, n
<1>5. kept \in Seq(T) /\ DOMAIN kept = 1..(n - k) /\ \A i \in 1..(n - k) : kept[i] = all[i + k]
  <2>1. \A i \in (k + 1)..n : all[i] \in T
    BY <1>1, <1>2, <1>4
  <2>2. k + 1 \in Int /\ n \in Int
    BY <1>1, <1>2
  <2>3. /\ kept \in Seq(T) /\ Len(kept) = IF k + 1 <= n THEN n - (k + 1) + 1 ELSE 0
        /\ \A i \in 1 .. n - (k + 1) + 1 : kept[i] = all[k + 1 + i - 1]
    BY <1>3, <2>1, <2>2, SubSeqProperties
  <2>4. n - (k + 1) + 1 = n - k /\ (~(k + 1 <= n) => n - k = 0)
        /\ \A i \in 1 .. n - k : k + 1 + i - 1 = i + k
    BY <1>1, <1>2
  <2>5. Len(kept) = n - k
    BY <2>3, <2>4
  <2> QED
    BY <2>3, <2>4, <2>5
<1>6. \A i \in 1..(n - k) : i + k \in 1..n
  BY <1>1, <1>2
<1>7. \A i, j \in 1..(n - k) : kept[i] = kept[j] => i = j
  BY <1>2, <1>4, <1>5, <1>6
<1>8. Schema!Range(kept) \subseteq Schema!Range(all)
  BY <1>4, <1>5, <1>6 DEF Schema!Range
<1> QED
  BY <1>5, <1>7, <1>8 DEF KeysOK, kept, all

(* Saving a snapshot changes the others only by evicting them, and whatever   *)
(* is still remembered is in the one list of keys or the other.               *)
LEMMA SavedIs ==
  ASSUME MaxEntries \in Nat, NEW T, T = Schema!TableSet, snapshot \in [T -> TableSchemas \cup {Absent}],
         NEW keys, KeysOK(keys, T), NEW others,
         \A k \in T : snapshot[k] # Absent => k \in Schema!Range(keys) \cup others,
         NEW t \in T, NEW c \in TableSchemas
  PROVE  LET after == Schema!Saved(keys, t, c) IN
         /\ after \in [T -> TableSchemas \cup {Absent}]
         /\ \A k \in T : after[k] \in {Absent, IF k = t THEN c ELSE snapshot[k]}
         /\ \A k \in T : after[k] # Absent => k \in Schema!Range(Schema!Kept(keys, t)) \cup others
<1> DEFINE after == Schema!Saved(keys, t, c)
           evicted == Schema!Range(Schema!Touch(keys, t)) \ Schema!Range(Schema!Kept(keys, t))
<1>1. after = [k \in T |-> IF k \in evicted THEN Absent ELSE IF k = t THEN c ELSE snapshot[k]]
  BY Zenon DEF Schema!Saved
<1>2. Schema!Range(Schema!Touch(keys, t)) = Schema!Range(keys) \cup {t}
  BY TouchIs
<1>3. \A k \in T : after[k] # Absent =>
         k \notin evicted /\ k \in Schema!Range(Schema!Touch(keys, t)) \cup others
  BY <1>1, <1>2
<1> QED
  BY <1>1, <1>3

(* The tables that are left when the first is done.                           *)
LEMMA TodoTail ==
  ASSUME NEW T, NEW w, KeysOK(w, T), w # <<>>
  PROVE  /\ Head(w) \in T /\ KeysOK(Tail(w), T)
         /\ Head(w) \notin Schema!Range(Tail(w)) /\ Schema!Range(Tail(w)) \subseteq Schema!Range(w)
         /\ Head(w) \in Schema!Range(w)
<1>1. w \in Seq(T) /\ Len(w) \in Nat \ {0} /\ DOMAIN w = 1..Len(w) /\ Head(w) = w[1]
  BY DEF KeysOK
<1>2. Tail(w) \in Seq(T) /\ Len(Tail(w)) = Len(w) - 1 /\ DOMAIN Tail(w) = 1..(Len(w) - 1)
      /\ \A i \in 1..(Len(w) - 1) : Tail(w)[i] = w[i + 1]
  BY <1>1
<1>3. \A i \in 1..(Len(w) - 1) : i + 1 \in DOMAIN w /\ i + 1 # 1
  BY <1>1
<1> QED
  BY <1>1, <1>2, <1>3 DEF KeysOK, Schema!Range

(* A call that is done with a table goes on with the rest, with the news of   *)
(* that table or without.                                                     *)
LEMMA ProceedsOK ==
  ASSUME NEW T, ScanOK(scan, T), scan.todo # <<>>, scan.at \in {"snapshot", "save"}, NEW news,
         \/ news = scan.news
         \/ \E n : news = Append(scan.news, n) /\ n.table = Head(scan.todo)
  PROVE  LET p == Schema!Proceed(Tail(scan.todo), news)
         IN  ScanOK(p, T) /\ p.news = news /\ p.todo = Tail(scan.todo) /\ p.at \in {"schema", "publish"}
<1> DEFINE p == Schema!Proceed(Tail(scan.todo), news)
           w == Tail(scan.todo)
           a == IF w # <<>> THEN "schema" ELSE "publish"
<1>1. p = Call(a, scan.full, w, <<>>, Absent, news)
  <2>1. p = [scan EXCEPT !.todo = w, !.news = news, !.cur = <<>>, !.old = Absent, !.at = a]
    BY Zenon DEF Schema!Proceed
  <2>2. scan = Call(scan.at, scan.full, scan.todo, scan.cur, scan.old, scan.news)
    BY DEF ScanOK
  <2> HIDE DEF p, w, a
  <2> QED
    BY <2>1, <2>2 DEF Call
<1>2. p.at = a /\ p.full = scan.full /\ p.todo = w /\ p.cur = <<>> /\ p.old = Absent /\ p.news = news
      /\ p = Call(p.at, p.full, p.todo, p.cur, p.old, p.news)
  <2> HIDE DEF p, a, w
  <2> QED
    BY <1>1 DEF Call
<1>3. KeysOK(w, T) /\ Head(scan.todo) \in T /\ Head(scan.todo) \notin Schema!Range(w)
      /\ Schema!Range(w) \subseteq Schema!Range(scan.todo) /\ Head(scan.todo) \in Schema!Range(scan.todo)
  BY TodoTail DEF ScanOK
<1>4. /\ scan.news \in Seq(Schema!Range(scan.news))
      /\ \A i \in DOMAIN scan.news : scan.news[i].table \in T /\ scan.news[i].table \notin Schema!Range(scan.todo)
      /\ \A i, j \in DOMAIN scan.news : scan.news[i].table = scan.news[j].table => i = j
  BY DEF ScanOK
<1> HIDE DEF p, w
<1>5. /\ news \in Seq(Schema!Range(news))
      /\ \A i \in DOMAIN news : news[i].table \in T /\ news[i].table \notin Schema!Range(w)
      /\ \A i, j \in DOMAIN news : news[i].table = news[j].table => i = j
  <2>1. CASE news = scan.news
    BY <1>3, <1>4, <2>1
  <2>2. ASSUME NEW n, news = Append(scan.news, n), n.table = Head(scan.todo) PROVE <1>5
    <3> DEFINE m == scan.news
               k == Len(m)
    <3>1. k \in Nat /\ DOMAIN m = 1..k
      BY <1>4
    <3>2. Len(news) = k + 1 /\ DOMAIN news = 1..(k + 1) /\ news[k + 1] = n /\ \A i \in 1..k : news[i] = m[i]
      BY <1>4, <2>2
    <3> HIDE DEF k
    <3>3. \A i \in 1..(k + 1) : i = k + 1 \/ i \in 1..k
      BY <3>1
    <3>4. news \in Seq(Schema!Range(news))
      <4>1. \A i \in 1..(k + 1) : news[i] \in Schema!Range(news)
        BY <3>2 DEF Schema!Range
      <4>2. news = [i \in 1..(k + 1) |-> news[i]] /\ k + 1 \in Nat
        <5>1. m \in Seq(Schema!Range(m) \cup {n})
          BY <1>4
        <5>2. news \in Seq(Schema!Range(m) \cup {n})
          BY <2>2, <5>1
        <5> QED
          BY <3>1, <3>2, <5>2
      <4> QED
        BY <4>1, <4>2 DEF Seq
    <3>5. \A i \in 1..k : m[i].table # n.table
      BY <1>3, <1>4, <2>2, <3>1
    <3> QED
      BY <1>3, <1>4, <2>2, <3>1, <3>2, <3>3, <3>4, <3>5
  <2> QED
    BY <2>1, <2>2
<1>6. a \in {"schema", "publish"} /\ (a = "schema" => w # <<>>)
  OBVIOUS
<1>7. ScanOK(p, T)
  BY <1>2, <1>3, <1>5, <1>6 DEF ScanOK
<1> QED
  BY <1>2, <1>6, <1>7 DEF p, w

Over(f, T) == f = [t \in T |-> f[t]]

(* The news one after the other tell a reader of each table what the one     *)
(* about it says.                                                             *)
LEMMA LearnIs ==
  ASSUME NEW T, KeysOK(scan.todo, T), NEW news, news \in Seq(Schema!Range(news)),
         \A i \in DOMAIN news : news[i].table \in T,
         \A i, j \in DOMAIN news : news[i].table = news[j].table => i = j,
         NEW kn, Over(kn, T)
  PROVE  LET after == Schema!Learn(kn, news) IN
         /\ Over(after, T)
         /\ \A t \in T : (\A i \in DOMAIN news : news[i].table # t) => after[t] = kn[t]
         /\ \A i \in DOMAIN news : news[i].table \notin lost => after[news[i].table] = Says(news[i], kn[news[i].table])
<1> DEFINE n == Len(news)
           Hear(acc, m) ==
             [acc EXCEPT ![m.table] = IF m.table \in lost THEN {}
                                      ELSE IF m.baseline THEN Schema!Range(m.cur) ELSE Schema!Migrate(@, m.changes)]
           Is(h) == h = [i \in 0 .. Len(news) |-> IF i = 0 THEN kn ELSE Hear(h[i - 1], news[i])]
           About(t) == CHOOSE i \in DOMAIN news : news[i].table = t
           Hears(i) == IF news[i].table \in lost THEN {} ELSE Says(news[i], kn[news[i].table])
           f == [i \in 0 .. Len(news) |-> [t \in T |-> IF \E j \in 1..i : news[j].table = t THEN Hears(About(t)) ELSE kn[t]]]
<1>1. n \in Nat /\ DOMAIN news = 1..n
  OBVIOUS
<1>2. \A i \in 1..n : About(news[i].table) = i /\ news[i].table \in T
  BY <1>1
<1> HIDE DEF About
<1>3. ASSUME NEW i \in 1..n PROVE Hear(f[i - 1], news[i]) = f[i]
  <2>1. i \in 0..n /\ i - 1 \in 0..n /\ (\A j \in 1..i : j \in 1..n) /\ \A j \in 1..i : j = i \/ j \in 1..(i - 1)
    BY <1>1
  <2> DEFINE b == news[i].table
             g == f[i - 1]
  <2>2. g = [t \in T |-> g[t]] /\ b \in T
    BY <1>2, <2>1
  <2>3. g[b] = kn[b]
    <3>1. \A j \in 1..(i - 1) : j \in 1..n /\ j # i
      BY <1>1
    <3>2. ~ \E j \in 1..(i - 1) : news[j].table = b
      BY <1>1, <3>1
    <3> QED
      BY <2>1, <2>2, <3>2
  <2>4. Hear(g, news[i]) = [g EXCEPT ![b] = Hears(i)]
    <3>1. PICK x : x = Hears(i)
      OBVIOUS
    <3>2. x = IF b \in lost THEN {}
              ELSE IF news[i].baseline THEN Schema!Range(news[i].cur) ELSE Schema!Migrate(g[b], news[i].changes)
      <4>1. x = IF b \in lost THEN {}
                ELSE IF news[i].baseline THEN Schema!Range(news[i].cur) ELSE Schema!Migrate(kn[b], news[i].changes)
        BY <3>1, Zenon DEF Says
      <4> HIDE DEF g, Hears
      <4> QED
        BY <2>3, <4>1, Zenon
    <3>3. Hear(g, news[i]) = [g EXCEPT ![b] = x]
      <4> HIDE DEF g, Hears
      <4> QED
        BY <3>2, Zenon
    <3> QED
      BY <3>1, <3>3, Zenon
  <2>5. \A t \in T : t # b => f[i][t] = g[t]
    BY <2>1
  <2>6. f[i][b] = Hears(i) /\ f[i] = [t \in T |-> f[i][t]]
    <3>1. i \in 1..i /\ About(b) = i
      BY <1>1, <1>2
    <3>2. f[i][b] = Hears(About(b))
      BY <2>1, <2>2, <3>1
    <3>3. f[i] = [t \in T |-> f[i][t]]
      BY <2>1
    <3> HIDE DEF Hears, f
    <3> QED
      BY <3>1, <3>2, <3>3
  <2>7. Hear(g, news[i]) = f[i]
    <3> HIDE DEF Hears, f, g, Hear
    <3> QED
      BY <2>2, <2>4, <2>5, <2>6
  <2> QED
    BY <2>7, Zenon
<1>4. f[0] = kn
  <2>1. f[0] = [t \in T |-> kn[t]]
    BY <1>1
  <2> HIDE DEF f
  <2> QED
    BY <2>1 DEF Over
<1>5. f = [i \in 0 .. Len(news) |-> f[i]]
  OBVIOUS
<1>6. \A t \in T : f[n][t] = IF \E j \in 1..n : news[j].table = t THEN Hears(About(t)) ELSE kn[t]
  BY <1>1
<1>7. f[n] = [t \in T |-> f[n][t]]
  BY <1>1
<1> HIDE DEF f, Hear
<1>8. Is(f)
  <2>1. \A i \in 0 .. Len(news) : f[i] = IF i = 0 THEN kn ELSE Hear(f[i - 1], news[i])
    BY <1>1, <1>3, <1>4
  <2> QED
    BY <1>5, <2>1, Zenon
<1>9. PICK heard : heard = CHOOSE h : Is(h)
  OBVIOUS
<1>10. Schema!Learn(kn, news) = heard[n]
  BY <1>9, Zenon DEF Schema!Learn, Hear
<1>11. Is(heard)
  <2> HIDE DEF Is
  <2> QED
    BY <1>8, <1>9, Zenon
<1>12. heard[n] = f[n]
  <2> DEFINE Bad == {i \in 0..n : heard[i] # f[i]}
  <2>1. SUFFICES ASSUME Bad # {} PROVE FALSE
    BY <1>1
  <2>2. PICK m \in Bad : \A k \in Bad : m <= k
    <3>1. Bad \in SUBSET Nat
      BY <1>1
    <3> HIDE DEF Bad
    <3> QED
      BY <2>1, <3>1, LeastNumber
  <2>3. m # 0
    <3>1. 0 \in 0..n /\ heard[0] = f[0]
      BY <1>1, <1>4, <1>11
    <3> QED
      BY <2>2, <3>1
  <2>4. m \in 0..n /\ m - 1 \in 0..n /\ m - 1 \notin Bad
    BY <1>1, <2>2, <2>3
  <2>5. heard[m] = Hear(heard[m - 1], news[m]) /\ f[m] = Hear(f[m - 1], news[m])
    BY <1>8, <1>11, <2>3, <2>4
  <2> QED
    BY <2>2, <2>4, <2>5
<1>13. \A i \in 1..n : f[n][news[i].table] = Hears(i)
  <2> TAKE i \in 1..n
  <2>1. \E j \in 1..n : news[j].table = news[i].table
    OBVIOUS
  <2> HIDE DEF Hears
  <2> QED
    BY <1>2, <1>6, <2>1
<1>14. \A t \in T : (\A i \in DOMAIN news : news[i].table # t) => f[n][t] = kn[t]
  <2> HIDE DEF Hears
  <2> QED
    BY <1>1, <1>6
<1>15. Over(f[n], T)
  <2> HIDE DEF f
  <2> QED
    BY <1>7 DEF Over
<1> QED
  BY <1>1, <1>10, <1>12, <1>13, <1>14, <1>15

(* What adds up does so when snapshots go, and tables are lost.               *)
LEMMA AddsStay ==
  ASSUME NEW T, NEW s, NEW r, NEW snap, NEW after, NEW kn, NEW heard, NEW lo, NEW forgotten,
         Adds(s, snap, kn, lo, T), lo \subseteq forgotten,
         \A t \in T \ forgotten : heard[t] = kn[t] /\ after[t] \in {Absent, snap[t]},
         r.news = s.news, r.at = "save" => s.at = "save" /\ r.todo = s.todo /\ r.old = s.old
  PROVE  Adds(r, after, heard, forgotten, T)
<1> SUFFICES ASSUME NEW t \in T \ forgotten
             PROVE  /\ after[t] # Absent /\ (\A i \in DOMAIN r.news : r.news[i].table # t)
                         => heard[t] = Schema!Range(after[t])
                    /\ \A i \in DOMAIN r.news : after[t] # Absent /\ r.news[i].table = t =>
                         Says(r.news[i], heard[t]) = Schema!Range(after[t])
                    /\ r.at = "save" /\ t = Head(r.todo) /\ r.old # Absent => heard[t] = Schema!Range(r.old)
  BY Zenon DEF Adds
<1>1. t \in T \ lo /\ heard[t] = kn[t] /\ (after[t] # Absent => after[t] = snap[t])
  OBVIOUS
<1>2. /\ snap[t] # Absent /\ (\A i \in DOMAIN s.news : s.news[i].table # t) => kn[t] = Schema!Range(snap[t])
      /\ \A i \in DOMAIN s.news : snap[t] # Absent /\ s.news[i].table = t =>
           Says(s.news[i], kn[t]) = Schema!Range(snap[t])
      /\ s.at = "save" /\ t = Head(s.todo) /\ s.old # Absent => kn[t] = Schema!Range(s.old)
  BY <1>1, Zenon DEF Adds
<1> QED
  BY <1>1, <1>2

(* Nothing is remembered and nothing is known yet.                            *)
LEMMA SchemaInit ==
  ASSUME Schema!WatchAssumption, Schema!Init
  PROVE  SchemaIInv
<1> DEFINE T == Schema!Range(listed)
<1>1. /\ listed \in Listings /\ live \in [T -> TableSchemas] /\ snapshot = [t \in T |-> Absent]
      /\ lru = <<>> /\ looked = <<>> /\ peek = Absent /\ known = [t \in T |-> {}] /\ lost = {}
      /\ scan = Call("idle", FALSE, <<>>, <<>>, Absent, <<>>)
  BY DEF Schema!Init, Schema!TableSet, Schema!Idle, Call
<1>2. scan.at = "idle" /\ scan.full = FALSE /\ scan.todo = <<>> /\ scan.cur = <<>> /\ scan.old = Absent /\ scan.news = <<>>
      /\ scan = Call(scan.at, scan.full, scan.todo, scan.cur, scan.old, scan.news)
  BY <1>1 DEF Call
<1>3. KeysOK(<<>>, T)
  BY DEF KeysOK
<1>4. ScanOK(scan, T)
  BY <1>2, <1>3 DEF ScanOK
<1>5. Adds(scan, snapshot, known, lost, T)
  BY <1>1, <1>2 DEF Adds
<1> QED
  BY <1>1, <1>3, <1>4, <1>5 DEF SchemaIInv

(* A call begins.                                                             *)
LEMMA StartKeeps ==
  ASSUME SchemaIInv, NEW full, NEW todo, KeysOK(todo, Schema!Range(listed)), Schema!Start(full, todo)
  PROVE  SchemaIInv'
<1> DEFINE T == Schema!Range(listed)
           a == IF todo # <<>> THEN "schema" ELSE "publish"
<1>1. /\ scan.at = "idle" /\ scan' = Call(a, full, todo, <<>>, Absent, <<>>)
      /\ UNCHANGED <<listed, live, snapshot, lru, looked, peek, known, lost>>
  BY DEF Schema!Start, Schema!Idle, Call
<1> HIDE DEF a
<1>2. scan'.at = a /\ scan'.full = full /\ scan'.todo = todo /\ scan'.cur = <<>> /\ scan'.old = Absent /\ scan'.news = <<>>
      /\ scan' = Call(scan'.at, scan'.full, scan'.todo, scan'.cur, scan'.old, scan'.news)
  BY <1>1 DEF Call
<1>3. a \in {"schema", "publish"} /\ (a = "schema" => todo # <<>>)
  BY DEF a
<1>4. ScanOK(scan', T)
  BY <1>2, <1>3 DEF ScanOK
<1>5. Adds(scan, snapshot, known, lost, T) /\ scan.news = <<>>
  BY <1>1 DEF SchemaIInv, ScanOK
<1>6. Adds(scan', snapshot, known, lost, T)
  BY <1>2, <1>3, <1>5, AddsStay
<1> QED
  BY <1>1, <1>4, <1>6 DEF SchemaIInv

(* The schema of the table is read.                                           *)
LEMMA ReadSchemaKeeps ==
  ASSUME SchemaIInv, Schema!ReadSchema
  PROVE  SchemaIInv'
<1> DEFINE T == Schema!Range(listed)
           c == live[Head(scan.todo)]
<1>1. ScanOK(scan, T) /\ scan.at = "schema" /\ scan.todo # <<>> /\ Adds(scan, snapshot, known, lost, T)
  BY DEF SchemaIInv, Schema!ReadSchema, ScanOK
<1>2. scan' = Call("snapshot", scan.full, scan.todo, c, scan.old, scan.news)
  <2>1. scan' = [scan EXCEPT !.cur = c, !.at = "snapshot"]
    BY Zenon DEF Schema!ReadSchema
  <2>2. scan = Call(scan.at, scan.full, scan.todo, scan.cur, scan.old, scan.news)
    BY <1>1 DEF ScanOK
  <2> HIDE DEF c
  <2> QED
    BY <2>1, <2>2 DEF Call
<1>3. UNCHANGED <<listed, live, snapshot, lru, looked, peek, known, lost>>
  BY DEF Schema!ReadSchema
<1>4. c \in TableSchemas
  <2>1. Head(scan.todo) \in T
    BY <1>1, TodoTail DEF ScanOK
  <2> QED
    BY <2>1 DEF SchemaIInv
<1> HIDE DEF c
<1>5. scan'.at = "snapshot" /\ scan'.full = scan.full /\ scan'.todo = scan.todo /\ scan'.cur = c
      /\ scan'.old = scan.old /\ scan'.news = scan.news
      /\ scan' = Call(scan'.at, scan'.full, scan'.todo, scan'.cur, scan'.old, scan'.news)
  BY <1>2 DEF Call
<1>6. ScanOK(scan', T)
  BY <1>1, <1>4, <1>5 DEF ScanOK
<1>7. Adds(scan', snapshot, known, lost, T)
  BY <1>1, <1>5, AddsStay
<1> QED
  BY <1>3, <1>6, <1>7 DEF SchemaIInv

(* The snapshot is read, and either there is nothing to save or the change    *)
(* begins with it.                                                            *)
LEMMA ReadSnapshotKeeps ==
  ASSUME SchemaIInv, Schema!ReadSnapshot
  PROVE  SchemaIInv'
<1> DEFINE T == Schema!Range(listed)
           t == Head(scan.todo)
           p == Schema!Proceed(Tail(scan.todo), scan.news)
           q == [scan EXCEPT !.old = snapshot[t], !.at = "save"]
<1>1. ScanOK(scan, T) /\ scan.at = "snapshot" /\ scan.todo # <<>> /\ Adds(scan, snapshot, known, lost, T)
      /\ scan.cur \in TableSchemas
  BY DEF SchemaIInv, Schema!ReadSnapshot, ScanOK
<1>2. UNCHANGED <<listed, live, snapshot, looked, peek, known, lost>>
  BY DEF Schema!ReadSnapshot
<1>3. lru' = (IF snapshot[t] = Absent THEN lru ELSE Schema!Touch(lru, t)) /\ scan' \in {p, q}
  BY Zenon DEF Schema!ReadSnapshot
<1>4. t \in T /\ t \in Schema!Range(scan.todo)
  BY <1>1, TodoTail DEF ScanOK
<1>5. KeysOK(lru', T) /\ Schema!Range(lru) \subseteq Schema!Range(lru')
  BY <1>3, <1>4, TouchIs DEF SchemaIInv
<1>6. ScanOK(scan', T) /\ Adds(scan', snapshot, known, lost, T)
  <2>1. CASE scan' = p
    <3>1. ScanOK(p, T) /\ p.news = scan.news /\ p.at # "save"
      BY <1>1, ProceedsOK
    <3> HIDE DEF p
    <3>2. Adds(p, snapshot, known, lost, T)
      BY <1>1, <3>1, AddsStay
    <3> QED
      BY <2>1, <3>1, <3>2
  <2>2. CASE scan' = q
    <3> DEFINE o == snapshot[t]
    <3>1. q = Call("save", scan.full, scan.todo, scan.cur, o, scan.news)
      <4>1. scan = Call(scan.at, scan.full, scan.todo, scan.cur, scan.old, scan.news)
        BY <1>1 DEF ScanOK
      <4>2. PICK r : r = [scan EXCEPT !.old = o, !.at = "save"]
        OBVIOUS
      <4> HIDE DEF o
      <4>3. r = Call("save", scan.full, scan.todo, scan.cur, o, scan.news)
        BY <4>1, <4>2 DEF Call
      <4> QED
        BY <4>2, <4>3, Zenon DEF o
    <3> HIDE DEF q
    <3>2. o \in TableSchemas \cup {Absent}
      BY <1>4 DEF SchemaIInv
    <3> HIDE DEF o
    <3>3. q.at = "save" /\ q.full = scan.full /\ q.todo = scan.todo /\ q.cur = scan.cur /\ q.old = o /\ q.news = scan.news
          /\ q = Call(q.at, q.full, q.todo, q.cur, q.old, q.news)
      BY <3>1 DEF Call
    <3>4. ScanOK(q, T)
      BY <1>1, <3>2, <3>3 DEF ScanOK
    <3>5. \A i \in DOMAIN scan.news : scan.news[i].table # t
      BY <1>1, <1>4 DEF ScanOK
    <3>6. o # Absent /\ t \notin lost => known[t] = Schema!Range(o)
      BY <1>1, <1>4, <3>5 DEF Adds, o
    <3>7. Adds(q, snapshot, known, lost, T)
      BY <1>1, <3>3, <3>6 DEF Adds
    <3> QED
      BY <2>2, <3>4, <3>7
  <2> QED
    BY <1>3, <2>1, <2>2
<1> QED
  BY <1>2, <1>5, <1>6 DEF SchemaIInv

(* The schema read is saved, and the news say how the snapshot came by it.    *)
LEMMA SaveKeeps ==
  ASSUME Schema!WatchAssumption, SchemaIInv, Schema!Save
  PROVE  SchemaIInv'
<1> DEFINE T == Schema!Range(listed)
           t == Head(scan.todo)
           c == scan.cur
           o == scan.old
           n == [table |-> t, baseline |-> o = Absent, cur |-> c,
                 changes |-> IF o = Absent THEN {} ELSE Schema!Diff(o, c)]
           p == Schema!Proceed(Tail(scan.todo), Append(scan.news, n))
<1>1. ScanOK(scan, T) /\ scan.at = "save" /\ scan.todo # <<>> /\ Adds(scan, snapshot, known, lost, T)
      /\ c \in TableSchemas /\ o \in TableSchemas \cup {Absent}
  BY DEF SchemaIInv, Schema!Save, ScanOK
<1>2. UNCHANGED <<listed, live, looked, peek, known>>
  BY DEF Schema!Save
<1>3. /\ lru' = Schema!Kept(lru, t) /\ snapshot' = Schema!Saved(lru, t, c)
      /\ scan' = p /\ lost' = lost \ {k \in {t} : o = Absent}
  BY Zenon DEF Schema!Save
<1>4. t \in T /\ t \in Schema!Range(scan.todo)
  BY <1>1, TodoTail DEF ScanOK
<1>5. n.table = t /\ (o = Absent => n.baseline) /\ (o # Absent => ~n.baseline /\ n.changes = Schema!Diff(o, c))
      /\ n.cur = c
  BY Zenon
<1>6. KeysOK(lru', T)
  BY <1>3, <1>4, KeptIs DEF SchemaIInv, Schema!WatchAssumption
<1>7. /\ snapshot' \in [T -> TableSchemas \cup {Absent}]
      /\ \A k \in T : snapshot'[k] \in {Absent, IF k = t THEN c ELSE snapshot[k]}
      /\ \A k \in T : snapshot'[k] # Absent => k \in Schema!Range(lru') \cup Schema!Range(looked)
  <2>1. /\ MaxEntries \in Nat /\ snapshot \in [T -> TableSchemas \cup {Absent}] /\ KeysOK(lru, T)
        /\ \A k \in T : snapshot[k] # Absent => k \in Schema!Range(lru) \cup Schema!Range(looked)
    BY DEF SchemaIInv, Schema!WatchAssumption
  <2>2. T = Schema!TableSet
    BY DEF Schema!TableSet
  <2> HIDE DEF T, t, c
  <2> QED
    BY <1>1, <1>3, <1>4, <2>1, <2>2, SavedIs
<1>8. ScanOK(p, T) /\ p.news = Append(scan.news, n) /\ p.at # "save"
  <2> DEFINE news == Append(scan.news, n)
  <2>1. news = scan.news \/ \E m : news = Append(scan.news, m) /\ m.table = Head(scan.todo)
    <3> HIDE DEF n
    <3> QED
      BY <1>5
  <2> HIDE DEF news
  <2>2. LET r == Schema!Proceed(Tail(scan.todo), news)
        IN  ScanOK(r, T) /\ r.news = news /\ r.todo = Tail(scan.todo) /\ r.at \in {"schema", "publish"}
    BY <1>1, <2>1, ProceedsOK
  <2> QED
    BY <2>2 DEF news
<1>9. o # Absent => Schema!Migrate(Schema!Range(o), Schema!Diff(o, c)) = Schema!Range(c)
  <2>1. o # Absent => Schema!IsSchema(o) /\ Schema!IsSchema(c)
    BY <1>1 DEF Schema!WatchAssumption
  <2> HIDE DEF o, c
  <2> QED
    BY <2>1, DiffLeads DEF Schema!Diff
<1> HIDE DEF p, n, c, o
<1>10. Adds(p, snapshot', known, lost', T)
  <2> SUFFICES ASSUME NEW u \in T \ lost'
               PROVE  /\ snapshot'[u] # Absent /\ (\A i \in DOMAIN p.news : p.news[i].table # u)
                           => known[u] = Schema!Range(snapshot'[u])
                      /\ \A i \in DOMAIN p.news : snapshot'[u] # Absent /\ p.news[i].table = u =>
                           Says(p.news[i], known[u]) = Schema!Range(snapshot'[u])
    BY <1>8, Zenon DEF Adds
  <2> DEFINE m == scan.news
             k == Len(m)
  <2>1. k \in Nat /\ DOMAIN m = 1..k /\ \A i \in 1..k : m[i].table # t
    BY <1>1, <1>4 DEF ScanOK
  <2>2. DOMAIN p.news = 1..(k + 1) /\ p.news[k + 1] = n /\ \A i \in 1..k : p.news[i] = m[i]
    <3>1. m \in Seq(Schema!Range(m))
      BY <1>1 DEF ScanOK
    <3> QED
      BY <1>8, <3>1
  <2> HIDE DEF k, m
  <2>3. (\A i \in 1..(k + 1) : i = k + 1 \/ i \in 1..k) /\ 1..k \subseteq 1..(k + 1) /\ k + 1 \in 1..(k + 1)
    BY <2>1
  <2>4. CASE u = t
    <3>1. \A i \in 1..(k + 1) : p.news[i].table = t => p.news[i] = n
      BY <2>1, <2>2, <2>3
    <3>2. p.news[k + 1].table = t
      BY <1>5, <2>2
    <3>3. snapshot'[t] # Absent => snapshot'[t] = c
      BY <1>4, <1>7
    <3>4. Says(n, known[t]) = Schema!Range(c)
      <4>1. CASE o = Absent
        BY <1>5, <4>1, Zenon DEF Says
      <4>2. CASE o # Absent
        <5>1. t \notin lost
          BY <1>3, <2>4, <4>2
        <5>2. known[t] = Schema!Range(o)
          BY <1>1, <1>4, <4>2, <5>1 DEF Adds, o
        <5> QED
          BY <1>5, <1>9, <4>2, <5>2, Zenon DEF Says
      <4> QED
        BY <4>1, <4>2
    <3> HIDE DEF t
    <3> QED
      BY <2>2, <2>3, <2>4, <3>1, <3>2, <3>3, <3>4
  <2>5. CASE u # t
    <3>1. u \in T \ lost /\ (snapshot'[u] # Absent => snapshot'[u] = snapshot[u])
      BY <1>3, <1>7, <2>5
    <3>2. /\ snapshot[u] # Absent /\ (\A i \in 1..k : m[i].table # u) => known[u] = Schema!Range(snapshot[u])
          /\ \A i \in 1..k : snapshot[u] # Absent /\ m[i].table = u => Says(m[i], known[u]) = Schema!Range(snapshot[u])
      BY <1>1, <2>1, <3>1 DEF Adds, m
    <3>3. n.table # u
      BY <1>5, <2>5
    <3> HIDE DEF t
    <3> QED
      BY <2>2, <2>3, <3>1, <3>2, <3>3
  <2> QED
    BY <2>4, <2>5
<1>11. lost' \in SUBSET T
  BY <1>3 DEF SchemaIInv
<1> QED
  BY <1>2, <1>3, <1>6, <1>7, <1>8, <1>10, <1>11 DEF SchemaIInv

(* The news are told, and the reader knows what the snapshots say.            *)
LEMMA AnswerKeeps ==
  ASSUME SchemaIInv, Schema!Answer
  PROVE  SchemaIInv'
<1> DEFINE T == Schema!Range(listed)
           heard == Schema!Learn(known, scan.news)
<1>1. ScanOK(scan, T) /\ Adds(scan, snapshot, known, lost, T) /\ known = [t \in T |-> known[t]]
  BY DEF SchemaIInv
<1>2. known' = heard /\ scan' = Call("idle", FALSE, <<>>, <<>>, Absent, <<>>)
      /\ UNCHANGED <<listed, live, snapshot, lru, looked, peek, lost>>
  BY Zenon DEF Schema!Answer, Schema!Idle, Call
<1>3. scan'.at = "idle" /\ scan'.full = FALSE /\ scan'.todo = <<>> /\ scan'.cur = <<>> /\ scan'.old = Absent
      /\ scan'.news = <<>> /\ scan' = Call(scan'.at, scan'.full, scan'.todo, scan'.cur, scan'.old, scan'.news)
  BY <1>2 DEF Call
<1>4. /\ heard = [t \in T |-> heard[t]]
      /\ \A t \in T : (\A i \in DOMAIN scan.news : scan.news[i].table # t) => heard[t] = known[t]
      /\ \A i \in DOMAIN scan.news : scan.news[i].table \notin lost =>
           heard[scan.news[i].table] = Says(scan.news[i], known[scan.news[i].table])
  <2>1. /\ KeysOK(scan.todo, T) /\ scan.news \in Seq(Schema!Range(scan.news))
        /\ \A i \in DOMAIN scan.news : scan.news[i].table \in T
        /\ \A i, j \in DOMAIN scan.news : scan.news[i].table = scan.news[j].table => i = j
    BY <1>1 DEF ScanOK
  <2> HIDE DEF T
  <2>2. Over(known, T)
    BY <1>1 DEF Over
  <2>3. /\ Over(heard, T)
        /\ \A t \in T : (\A i \in DOMAIN scan.news : scan.news[i].table # t) => heard[t] = known[t]
        /\ \A i \in DOMAIN scan.news : scan.news[i].table \notin lost =>
             heard[scan.news[i].table] = Says(scan.news[i], known[scan.news[i].table])
    BY <2>1, <2>2, LearnIs
  <2> QED
    BY <2>3, Zenon DEF Over
<1> HIDE DEF heard
<1>5. KeysOK(<<>>, T)
  BY DEF KeysOK
<1>6. ScanOK(scan', T)
  BY <1>3, <1>5 DEF ScanOK
<1>7. \A t \in T \ lost : snapshot[t] # Absent => heard[t] = Schema!Range(snapshot[t])
  <2> SUFFICES ASSUME NEW t \in T \ lost, snapshot[t] # Absent PROVE heard[t] = Schema!Range(snapshot[t])
    OBVIOUS
  <2>1. CASE \A i \in DOMAIN scan.news : scan.news[i].table # t
    BY <1>1, <1>4, <2>1 DEF Adds
  <2>2. ASSUME NEW i \in DOMAIN scan.news, scan.news[i].table = t PROVE heard[t] = Schema!Range(snapshot[t])
    <3>1. Says(scan.news[i], known[t]) = Schema!Range(snapshot[t])
      BY <1>1, <2>2 DEF Adds
    <3> QED
      BY <1>4, <2>2, <3>1
  <2> QED
    BY <2>1, <2>2
<1>8. Adds(scan', snapshot, heard, lost, T)
  BY <1>3, <1>7 DEF Adds
<1> QED
  BY <1>2, <1>4, <1>6, <1>8 DEF SchemaIInv

(* A call fails, and what it would have told is lost.                         *)
LEMMA FailKeeps ==
  ASSUME SchemaIInv, Schema!Fail
  PROVE  SchemaIInv'
<1> DEFINE T == Schema!Range(listed)
           unsaid == {n.table : n \in Schema!Range(scan.news)}
<1>1. ScanOK(scan, T) /\ Adds(scan, snapshot, known, lost, T) /\ lost \in SUBSET T
  BY DEF SchemaIInv
<1>2. scan' = Call("idle", FALSE, <<>>, <<>>, Absent, <<>>)
      /\ UNCHANGED <<listed, live, snapshot, lru, looked, peek>>
  BY Zenon DEF Schema!Fail, Schema!Idle, Call
<1>3. lost' = lost \cup unsaid /\ known' = [t \in T |-> IF t \in unsaid THEN {} ELSE known[t]]
  BY Zenon DEF Schema!Fail, Schema!Forget, Schema!TableSet
<1>4. scan'.at = "idle" /\ scan'.full = FALSE /\ scan'.todo = <<>> /\ scan'.cur = <<>> /\ scan'.old = Absent
      /\ scan'.news = <<>> /\ scan' = Call(scan'.at, scan'.full, scan'.todo, scan'.cur, scan'.old, scan'.news)
  BY <1>2 DEF Call
<1>5. KeysOK(<<>>, T)
  BY DEF KeysOK
<1>6. ScanOK(scan', T)
  BY <1>4, <1>5 DEF ScanOK
<1>7. \A i \in DOMAIN scan.news : scan.news[i].table \in unsaid /\ scan.news[i].table \in T
  BY <1>1 DEF ScanOK, Schema!Range
<1>8. unsaid \in SUBSET T
  BY <1>1 DEF ScanOK, Schema!Range
<1> HIDE DEF unsaid
<1>9. \A t \in T \ lost' : snapshot[t] # Absent => known'[t] = Schema!Range(snapshot[t])
  <2> SUFFICES ASSUME NEW t \in T \ lost', snapshot[t] # Absent PROVE known'[t] = Schema!Range(snapshot[t])
    OBVIOUS
  <2>1. t \in T \ lost /\ known'[t] = known[t] /\ \A i \in DOMAIN scan.news : scan.news[i].table # t
    BY <1>3, <1>7
  <2> QED
    BY <1>1, <2>1 DEF Adds
<1>10. Adds(scan', snapshot, known', lost', T)
  BY <1>4, <1>9 DEF Adds
<1>11. lost' \in SUBSET T /\ known' = [t \in T |-> known'[t]]
  BY <1>1, <1>3, <1>8
<1> QED
  BY <1>2, <1>6, <1>10, <1>11 DEF SchemaIInv

(* The other tool finds a snapshot, or reads the warehouse for one.           *)
LEMMA LooksKeep ==
  ASSUME SchemaIInv, NEW t \in Schema!Range(listed), Schema!Cached(t) \/ Schema!Peek(t)
  PROVE  SchemaIInv'
<1> DEFINE T == Schema!Range(listed)
<1>1. CASE Schema!Cached(t)
  <2>1. looked' = Schema!Touch(looked, t) /\ UNCHANGED <<listed, live, snapshot, lru, scan, peek, known, lost>>
    BY <1>1 DEF Schema!Cached
  <2>2. KeysOK(looked', T) /\ Schema!Range(looked) \subseteq Schema!Range(looked')
    BY <2>1, TouchIs DEF SchemaIInv
  <2> QED
    BY <2>1, <2>2 DEF SchemaIInv
<1>2. CASE Schema!Peek(t)
  <2>1. peek' = [table |-> t, cur |-> live[t]] /\ UNCHANGED <<listed, live, snapshot, lru, scan, looked, known, lost>>
    BY <1>2 DEF Schema!Peek
  <2>2. peek'.table \in T /\ peek'.cur \in TableSchemas
    BY <2>1 DEF SchemaIInv
  <2> QED
    BY <2>1, <2>2 DEF SchemaIInv
<1> QED
  BY <1>1, <1>2

(* What it read is saved, and the table is lost unless that was remembered.   *)
LEMMA SavePeekKeeps ==
  ASSUME Schema!WatchAssumption, SchemaIInv, Schema!SavePeek
  PROVE  SchemaIInv'
<1> DEFINE T == Schema!Range(listed)
           b == peek.table
           c == peek.cur
           gone == {t \in {peek.table} : snapshot[t] # peek.cur}
<1>1. Adds(scan, snapshot, known, lost, T) /\ lost \in SUBSET T /\ b \in T /\ c \in TableSchemas
  BY DEF SchemaIInv, Schema!SavePeek
<1>2. peek' = Absent /\ UNCHANGED <<listed, live, lru, scan>>
  BY DEF Schema!SavePeek
<1>3. looked' = Schema!Kept(looked, b) /\ snapshot' = Schema!Saved(looked, b, c)
  BY DEF Schema!SavePeek
<1>4. lost' = lost \cup gone /\ known' = [t \in T |-> IF t \in gone THEN {} ELSE known[t]]
  BY Zenon DEF Schema!SavePeek, Schema!Forget, Schema!TableSet
<1>5. KeysOK(looked', T)
  BY <1>1, <1>3, KeptIs DEF SchemaIInv, Schema!WatchAssumption
<1>6. /\ snapshot' \in [T -> TableSchemas \cup {Absent}]
      /\ \A k \in T : snapshot'[k] \in {Absent, IF k = b THEN c ELSE snapshot[k]}
      /\ \A k \in T : snapshot'[k] # Absent => k \in Schema!Range(looked') \cup Schema!Range(lru)
  <2>1. /\ MaxEntries \in Nat /\ snapshot \in [T -> TableSchemas \cup {Absent}] /\ KeysOK(looked, T)
        /\ \A k \in T : snapshot[k] # Absent => k \in Schema!Range(looked) \cup Schema!Range(lru)
    BY DEF SchemaIInv, Schema!WatchAssumption
  <2>2. T = Schema!TableSet
    BY DEF Schema!TableSet
  <2> HIDE DEF T, b, c
  <2> QED
    BY <1>1, <1>3, <2>1, <2>2, SavedIs
<1>7. lost' \in SUBSET T /\ known' = [t \in T |-> known'[t]] /\ lost \subseteq lost'
  BY <1>1, <1>4
<1>8. \A t \in T \ lost' : known'[t] = known[t] /\ snapshot'[t] \in {Absent, snapshot[t]}
  BY <1>4, <1>6
<1>9. Adds(scan, snapshot', known', lost', T)
  <2> HIDE DEF T
  <2> QED
    BY <1>1, <1>7, <1>8, AddsStay
<1> QED
  BY <1>2, <1>5, <1>6, <1>7, <1>9 DEF SchemaIInv

(* Tables change, and snapshots expire.                                       *)
LEMMA WorldKeeps ==
  ASSUME SchemaIInv, NEW t \in Schema!Range(listed), Schema!Expire(t) \/ \E s \in TableSchemas : Schema!Alter(t, s)
  PROVE  SchemaIInv'
<1> DEFINE T == Schema!Range(listed)
<1>1. CASE Schema!Expire(t)
  <2>1. snapshot' = [snapshot EXCEPT ![t] = Absent] /\ UNCHANGED <<listed, live, lru, scan, looked, peek, known, lost>>
    BY <1>1 DEF Schema!Expire
  <2>2. snapshot \in [T -> TableSchemas \cup {Absent}] /\ Adds(scan, snapshot, known, lost, T)
    BY DEF SchemaIInv
  <2>3. /\ snapshot' \in [T -> TableSchemas \cup {Absent}]
        /\ \A k \in T : snapshot'[k] \in {Absent, snapshot[k]}
    BY <2>1, <2>2
  <2>4. Adds(scan, snapshot', known, lost, T)
    BY <2>2, <2>3, AddsStay
  <2> QED
    BY <2>1, <2>3, <2>4 DEF SchemaIInv
<1>2. ASSUME NEW s \in TableSchemas, Schema!Alter(t, s) PROVE SchemaIInv'
  <2>1. live' = [live EXCEPT ![t] = s] /\ UNCHANGED <<listed, snapshot, lru, scan, looked, peek, known, lost>>
    BY <1>2 DEF Schema!Alter
  <2>2. live' \in [T -> TableSchemas]
    BY <2>1 DEF SchemaIInv
  <2> QED
    BY <2>1, <2>2 DEF SchemaIInv
<1> QED
  BY <1>1, <1>2

(* Every step of the two tools and of the world keeps it.                     *)
LEMMA SchemaInductive ==
  ASSUME Schema!WatchAssumption, SchemaIInv, Schema!Next \/ UNCHANGED Schema!vars
  PROVE  SchemaIInv'
<1> DEFINE T == Schema!Range(listed)
<1>1. CASE UNCHANGED Schema!vars
  BY <1>1 DEF Schema!vars, SchemaIInv
<1>2. ASSUME NEW t \in T, Schema!Start(FALSE, <<t>>) PROVE SchemaIInv'
  <2>1. KeysOK(<<t>>, T)
    BY DEF KeysOK
  <2> QED
    BY <1>2, <2>1, StartKeeps
<1>3. CASE Schema!Start(TRUE, listed)
  <2>1. KeysOK(listed, T)
    <3>1. listed \in Seq(T) /\ Schema!IsInjective(listed)
      BY DEF SchemaIInv, Schema!WatchAssumption
    <3> QED
      BY <3>1 DEF KeysOK, Schema!IsInjective
  <2> QED
    BY <1>3, <2>1, StartKeeps
<1> QED
  BY <1>1, <1>2, <1>3, ReadSchemaKeeps, ReadSnapshotKeeps, SaveKeeps, AnswerKeeps, FailKeeps, LooksKeep,
     SavePeekKeeps, WorldKeeps, Zenon DEF Schema!Next, Schema!TableSet

(* What is kept is enough for what the run checks.                            *)
LEMMA SchemaSuffices ==
  ASSUME Schema!WatchAssumption, SchemaIInv
  PROVE  /\ Schema!TypeOK /\ Schema!AnswersAddUp
         /\ scan.at = "save" /\ scan.old # Absent =>
              Schema!ReportLeads /\ Schema!EvolutionLeads(<<scan.old, scan.cur, live[Head(scan.todo)]>>)
<1> DEFINE T == Schema!Range(listed)
<1>1. ScanOK(scan, T) /\ Adds(scan, snapshot, known, lost, T)
  BY DEF SchemaIInv
<1>2. Schema!TypeOK
  <2>1. \A keys \in {lru, looked} : keys \in Seq(T) /\ Schema!IsInjective(keys)
    BY DEF SchemaIInv, KeysOK, Schema!IsInjective
  <2> QED
    BY <1>1, <2>1 DEF SchemaIInv, ScanOK, Schema!TypeOK, Schema!TableSet
<1>3. Schema!AnswersAddUp
  <2> SUFFICES ASSUME scan.at = "idle", NEW t \in T \ lost, snapshot[t] # Absent
               PROVE  known[t] = Schema!Range(snapshot[t])
    BY Zenon DEF Schema!AnswersAddUp, Schema!TableSet
  <2>1. \A i \in DOMAIN scan.news : scan.news[i].table # t
    BY <1>1 DEF ScanOK
  <2> QED
    BY <1>1, <2>1 DEF Adds
<1>4. ASSUME scan.at = "save", scan.old # Absent
      PROVE  Schema!ReportLeads /\ Schema!EvolutionLeads(<<scan.old, scan.cur, live[Head(scan.todo)]>>)
  <2> DEFINE l == live[Head(scan.todo)]
             o == scan.old
             c == scan.cur
  <2>1. Head(scan.todo) \in T
    BY <1>1, <1>4, TodoTail DEF ScanOK
  <2>2. o \in TableSchemas /\ c \in TableSchemas /\ l \in TableSchemas
    BY <1>1, <1>4, <2>1 DEF SchemaIInv, ScanOK
  <2>3. Schema!IsSchema(o) /\ Schema!IsSchema(c) /\ Schema!IsSchema(l)
    BY <2>2 DEF Schema!WatchAssumption
  <2> HIDE DEF l, o, c
  <2>4. Schema!MigrationsLead(o, c)
    BY <2>3, DiffLeads DEF Schema!MigrationsLead, Schema!Diff
  <2>5. Schema!EvolutionLeads(<<o, c, l>>)
    <3> DEFINE h == <<o, c, l>>
    <3>1. h \in Seq(Schema!Range(h)) /\ h # <<>> /\ Schema!Range(h) \subseteq {o, c, l}
      <4>1. PICK R : R = Schema!Range(h)
        OBVIOUS
      <4>2. DOMAIN h = 1..3 /\ h[1] = o /\ h[2] = c /\ h[3] = l /\ h # <<>>
        OBVIOUS
      <4>3. R = {o, c, l}
        <5> HIDE DEF h
        <5> QED
          BY <4>1, <4>2 DEF Schema!Range
      <4>4. h \in Seq(R)
        BY <4>3
      <4> QED
        BY <4>1, <4>2, <4>3, <4>4
    <3> HIDE DEF h
    <3>2. Schema!EvolutionLeads(h)
      BY <2>3, <3>1, HistoryLeads
    <3> QED
      BY <3>2 DEF h
  <2> QED
    BY <2>4, <2>5 DEF Schema!ReportLeads, l, o, c
<1> QED
  BY <1>2, <1>3, <1>4

-------------------------------------------------------------------------------
(* Layers: what Detect finds and what Heal leaves, column by column.          *)
DriftIInv == Drift!TypeOK /\ Drift!HealsAll

(* A schema's columns, and what it says of each.                              *)
LEMMA ShapeIs ==
  ASSUME NEW x, x \in Drift!Schemas
  PROVE  /\ DOMAIN x \in SUBSET DriftColumns
         /\ x = [c \in DOMAIN x |-> x[c]]
         /\ \A c \in DOMAIN x : x[c] \in [type : DriftTypes, nullable : BOOLEAN]
BY DEF Drift!Schemas

(* What the migration of a layer makes of each column.                        *)
LEMMA HealIs ==
  ASSUME Drift!HealerAssumption, NEW u \in Drift!Schemas, NEW v \in Drift!Schemas
  PROVE  LET after == Drift!Heal(Drift!Detect(u, v), u, v) IN
         /\ after \in Drift!Schemas
         /\ DOMAIN after = DOMAIN u \cup DOMAIN v
         /\ \A c \in DOMAIN v : /\ after[c].type = IF c \in DOMAIN u /\ Drift!Wider(u[c].type, v[c].type)
                                                   THEN u[c].type ELSE v[c].type
                                /\ v[c].nullable => after[c].nullable
                                /\ c \in DOMAIN u /\ u[c].nullable => after[c].nullable
         /\ \A c \in DOMAIN u \ DOMAIN v : after[c].type = u[c].type /\ after[c].nullable
<1> DEFINE D == Drift!Detect(u, v)
           heals(kind, c) == Drift!Drift(kind, c, TRUE) \in D
           all == DOMAIN v \cup {d.column : d \in {e \in D : e.kind = "added"}}
           after == Drift!Heal(D, u, v)
<1>1. \A s, t : Drift!Wider(s, t) \in BOOLEAN
  BY DEF Drift!Wider
<1>2. D = {Drift!Drift("added", c, TRUE) : c \in DOMAIN u \ DOMAIN v}
          \cup {Drift!Drift("removed", c, FALSE) : c \in DOMAIN v \ DOMAIN u}
          \cup {Drift!Drift(IF Drift!Wider(u[c].type, v[c].type) THEN "widened" ELSE "narrowed",
                            c, Drift!Wider(u[c].type, v[c].type)) :
                  c \in {d \in DOMAIN u \cap DOMAIN v : u[d].type # v[d].type}}
          \cup {Drift!Drift("nullable", c, u[c].nullable) :
                  c \in {d \in DOMAIN u \cap DOMAIN v : u[d].nullable # v[d].nullable}}
  BY Zenon DEF Drift!Detect
<1> HIDE DEF D
<1> DEFINE Wide(c) == Drift!Wider(u[c].type, v[c].type)
           Kind(c) == IF Wide(c) THEN "widened" ELSE "narrowed"
           New(d) == \E c \in DOMAIN u \ DOMAIN v : d = Drift!Drift("added", c, TRUE)
           Old(d) == \E c \in DOMAIN v \ DOMAIN u : d = Drift!Drift("removed", c, FALSE)
           Typed(d) == \E c \in DOMAIN u \cap DOMAIN v :
                          u[c].type # v[c].type /\ d = Drift!Drift(Kind(c), c, Wide(c))
           Null(d) == \E c \in DOMAIN u \cap DOMAIN v :
                         u[c].nullable # v[c].nullable /\ d = Drift!Drift("nullable", c, u[c].nullable)
<1>4. \A d : d \in D <=> New(d) \/ Old(d) \/ Typed(d) \/ Null(d)
  BY <1>2, Zenon
<1>5. /\ "added" # "removed" /\ "added" # "nullable" /\ "widened" # "added" /\ "widened" # "removed"
      /\ "widened" # "nullable" /\ "nullable" # "removed" /\ TRUE # FALSE
      /\ \A c : Kind(c) # "added" /\ Kind(c) # "nullable" /\ (Kind(c) = "widened" <=> Wide(c))
  OBVIOUS
<1>6. \A c : Wide(c) => Wide(c) = TRUE
  BY <1>1
<1> HIDE DEF Kind, Wide
<1>7. ASSUME NEW k, NEW c, Drift!Drift(k, c, TRUE) \in D
      PROVE  \/ k = "added" /\ c \in DOMAIN u \ DOMAIN v
             \/ k = Kind(c) /\ c \in DOMAIN u \cap DOMAIN v /\ u[c].type # v[c].type /\ Wide(c) = TRUE
             \/ /\ k = "nullable" /\ c \in DOMAIN u \cap DOMAIN v
                /\ u[c].nullable # v[c].nullable /\ u[c].nullable = TRUE
  <2> DEFINE d == Drift!Drift(k, c, TRUE)
  <2>1. d.kind = k /\ d.column = c /\ d.heals = TRUE
    BY DEF Drift!Drift
  <2>2. New(d) \/ Old(d) \/ Typed(d) \/ Null(d)
    BY <1>4, <1>7, Zenon
  <2> HIDE DEF d
  <2>3. CASE New(d)
    <3>1. PICK b \in DOMAIN u \ DOMAIN v : d = Drift!Drift("added", b, TRUE)
      BY <2>3
    <3>2. d.kind = "added" /\ d.column = b
      BY <3>1 DEF Drift!Drift
    <3> QED
      BY <2>1, <3>2, Zenon
  <2>4. CASE Old(d)
    <3>1. PICK b : d = Drift!Drift("removed", b, FALSE)
      BY <2>4
    <3>2. d.heals = FALSE
      BY <3>1 DEF Drift!Drift
    <3> QED
      BY <1>5, <2>1, <3>2, Zenon
  <2>5. CASE Typed(d)
    <3>1. PICK b \in DOMAIN u \cap DOMAIN v : u[b].type # v[b].type /\ d = Drift!Drift(Kind(b), b, Wide(b))
      BY <2>5
    <3>2. d.kind = Kind(b) /\ d.column = b /\ d.heals = Wide(b)
      BY <3>1 DEF Drift!Drift
    <3> QED
      BY <2>1, <3>1, <3>2, Zenon
  <2>6. CASE Null(d)
    <3>1. PICK b \in DOMAIN u \cap DOMAIN v : u[b].nullable # v[b].nullable /\ d = Drift!Drift("nullable", b, u[b].nullable)
      BY <2>6
    <3>2. d.kind = "nullable" /\ d.column = b /\ d.heals = u[b].nullable
      BY <3>1 DEF Drift!Drift
    <3> QED
      BY <2>1, <3>1, <3>2, Zenon
  <2> QED
    BY <2>2, <2>3, <2>4, <2>5, <2>6
<1>8. \A c : heals("added", c) <=> c \in DOMAIN u \ DOMAIN v
  <2> TAKE c
  <2>1. ASSUME heals("added", c) PROVE c \in DOMAIN u \ DOMAIN v
    BY <1>5, <1>7, <2>1, Zenon
  <2>2. ASSUME c \in DOMAIN u \ DOMAIN v PROVE heals("added", c)
    <3>1. New(Drift!Drift("added", c, TRUE))
      BY <2>2, Zenon
    <3> QED
      BY <1>4, <3>1, Zenon
  <2> QED
    BY <2>1, <2>2
<1>9. \A c : heals("widened", c) <=> c \in DOMAIN u \cap DOMAIN v /\ u[c].type # v[c].type /\ Wide(c)
  <2> TAKE c
  <2>1. ASSUME heals("widened", c) PROVE c \in DOMAIN u \cap DOMAIN v /\ u[c].type # v[c].type /\ Wide(c)
    BY <1>5, <1>7, <2>1, Zenon
  <2>2. ASSUME c \in DOMAIN u \cap DOMAIN v, u[c].type # v[c].type, Wide(c) PROVE heals("widened", c)
    <3>1. Kind(c) = "widened" /\ Wide(c) = TRUE
      BY <1>5, <1>6, <2>2
    <3>2. Typed(Drift!Drift("widened", c, TRUE))
      BY <2>2, <3>1, Zenon
    <3> QED
      BY <1>4, <3>2, Zenon
  <2> QED
    BY <2>1, <2>2
<1>10. \A c : heals("nullable", c) <=>
               c \in DOMAIN u \cap DOMAIN v /\ u[c].nullable # v[c].nullable /\ u[c].nullable = TRUE
  <2> TAKE c
  <2>1. ASSUME heals("nullable", c)
        PROVE  c \in DOMAIN u \cap DOMAIN v /\ u[c].nullable # v[c].nullable /\ u[c].nullable = TRUE
    BY <1>5, <1>7, <2>1, Zenon
  <2>2. ASSUME c \in DOMAIN u \cap DOMAIN v, u[c].nullable # v[c].nullable, u[c].nullable = TRUE
        PROVE  heals("nullable", c)
    <3>1. Null(Drift!Drift("nullable", c, TRUE))
      BY <2>2, Zenon
    <3> QED
      BY <1>4, <3>1, Zenon
  <2> QED
    BY <2>1, <2>2
<1>11. \A d \in D : d.kind = "added" => d.column \in DOMAIN u \ DOMAIN v
  <2> TAKE d \in D
  <2>1. CASE New(d)
    <3>1. PICK b \in DOMAIN u \ DOMAIN v : d = Drift!Drift("added", b, TRUE)
      BY <2>1
    <3>2. d.column = b
      BY <3>1 DEF Drift!Drift
    <3> QED
      BY <3>2
  <2>2. CASE Old(d) \/ Typed(d) \/ Null(d)
    <3>1. d.kind # "added"
      <4>1. CASE Old(d)
        BY <1>5, <4>1 DEF Drift!Drift
      <4>2. CASE Typed(d)
        BY <1>5, <4>2 DEF Drift!Drift
      <4>3. CASE Null(d)
        BY <1>5, <4>3 DEF Drift!Drift
      <4> QED
        BY <2>2, <4>1, <4>2, <4>3
    <3> QED
      BY <3>1
  <2> QED
    BY <1>4, <2>1, <2>2
<1>12. all = DOMAIN u \cup DOMAIN v
  <2>1. \A c \in DOMAIN u \ DOMAIN v : Drift!Drift("added", c, TRUE) \in D
    BY <1>8, Zenon
  <2>2. \A c : Drift!Drift("added", c, TRUE).kind = "added" /\ Drift!Drift("added", c, TRUE).column = c
    BY DEF Drift!Drift
  <2> QED
    BY <1>11, <2>1, <2>2
<1>13. after = [c \in all |-> IF heals("added", c) THEN [type |-> u[c].type, nullable |-> TRUE]
                              ELSE [type |-> IF heals("widened", c) THEN u[c].type ELSE v[c].type,
                                    nullable |-> v[c].nullable \/ heals("nullable", c)]]
  BY Zenon DEF Drift!Heal
<1> HIDE DEF after, all
<1>14. \A c \in DOMAIN u \cup DOMAIN v : after[c] = IF heals("added", c) THEN [type |-> u[c].type, nullable |-> TRUE]
                              ELSE [type |-> IF heals("widened", c) THEN u[c].type ELSE v[c].type,
                                    nullable |-> v[c].nullable \/ heals("nullable", c)]
  BY <1>12, <1>13, Zenon
<1>15. DOMAIN after = DOMAIN u \cup DOMAIN v /\ after = [c \in DOMAIN after |-> after[c]]
  BY <1>12, <1>13
<1>16. \A c \in DOMAIN u \ DOMAIN v : after[c] = [type |-> u[c].type, nullable |-> TRUE]
  BY <1>8, <1>14, Zenon
<1>17. ASSUME NEW c \in DOMAIN v
       PROVE  /\ after[c].type = IF c \in DOMAIN u /\ Wide(c) THEN u[c].type ELSE v[c].type
              /\ v[c].nullable => after[c].nullable
              /\ c \in DOMAIN u /\ u[c].nullable => after[c].nullable
              /\ after[c].nullable \in BOOLEAN
              /\ after[c] = [type |-> after[c].type, nullable |-> after[c].nullable]
  <2> DEFINE ty == IF heals("widened", c) THEN u[c].type ELSE v[c].type
             nu == v[c].nullable \/ heals("nullable", c)
  <2>1. after[c] = [type |-> ty, nullable |-> nu]
    BY <1>8, <1>14, Zenon
  <2>2. ty = IF c \in DOMAIN u /\ Wide(c) THEN u[c].type ELSE v[c].type
    BY <1>9
  <2>3. nu \in BOOLEAN
    OBVIOUS
  <2>4. v[c].nullable => nu
    OBVIOUS
  <2>5. c \in DOMAIN u /\ u[c].nullable => nu
    <3>1. c \in DOMAIN u => u[c].nullable \in BOOLEAN
      BY ShapeIs
    <3>2. v[c].nullable \in BOOLEAN
      BY ShapeIs
    <3> QED
      BY <1>10, <3>1, <3>2
  <2> HIDE DEF ty, nu
  <2> QED
    BY <2>1, <2>2, <2>3, <2>4, <2>5
<1>18. after \in Drift!Schemas
  <2> DEFINE S == DOMAIN after
             C == [type : DriftTypes, nullable : BOOLEAN]
  <2>1. S \in SUBSET DriftColumns /\ after = [c \in S |-> after[c]]
    BY <1>15, ShapeIs
  <2>2. \A c \in S : after[c] \in C
    <3> TAKE c \in S
    <3>1. CASE c \in DOMAIN v
      <4>1. after[c].type \in DriftTypes
        <5>1. v[c].type \in DriftTypes /\ (c \in DOMAIN u => u[c].type \in DriftTypes)
          BY <3>1, ShapeIs
        <5>2. after[c].type = IF c \in DOMAIN u /\ Wide(c) THEN u[c].type ELSE v[c].type
          BY <1>17, <3>1, Zenon
        <5> QED
          BY <5>1, <5>2
      <4>2. after[c].nullable \in BOOLEAN /\ after[c] = [type |-> after[c].type, nullable |-> after[c].nullable]
        BY <1>17, <3>1
      <4> QED
        BY <4>1, <4>2
    <3>2. CASE c \in DOMAIN u \ DOMAIN v
      <4>1. u[c].type \in DriftTypes
        BY <3>2, ShapeIs
      <4>2. after[c] = [type |-> u[c].type, nullable |-> TRUE]
        BY <1>16, <3>2
      <4>3. [type |-> u[c].type, nullable |-> TRUE] \in C
        BY <4>1
      <4> QED
        BY <4>2, <4>3, Zenon
    <3> QED
      BY <1>15, <3>1, <3>2
  <2> HIDE DEF S, C
  <2>3. after \in [S -> C]
    BY <2>1, <2>2
  <2> QED
    BY <2>1, <2>3 DEF Drift!Schemas, C
<1>19. \A c \in DOMAIN u \ DOMAIN v : after[c].type = u[c].type /\ after[c].nullable
  <2> TAKE c \in DOMAIN u \ DOMAIN v
  <2>1. after[c] = [type |-> u[c].type, nullable |-> TRUE]
    BY <1>16
  <2>2. after[c].type = u[c].type /\ after[c].nullable = TRUE
    BY <2>1
  <2> QED
    BY <2>2, Zenon
<1> QED
  BY <1>15, <1>17, <1>18, <1>19 DEF after, D, Wide

(* Nothing that is healed is found again.                                     *)
LEMMA HealedIs ==
  ASSUME Drift!HealerAssumption, NEW u \in Drift!Schemas, NEW v \in Drift!Schemas
  PROVE  LET after == Drift!Heal(Drift!Detect(u, v), u, v) IN
         /\ \A d \in Drift!Detect(u, after) : ~d.heals
         /\ DOMAIN u \subseteq DOMAIN after
<1> DEFINE D == Drift!Detect(u, v)
           after == Drift!Heal(D, u, v)
<1>1. /\ after \in Drift!Schemas /\ DOMAIN after = DOMAIN u \cup DOMAIN v
      /\ \A c \in DOMAIN v : /\ after[c].type = IF c \in DOMAIN u /\ Drift!Wider(u[c].type, v[c].type)
                                                THEN u[c].type ELSE v[c].type
                             /\ c \in DOMAIN u /\ u[c].nullable => after[c].nullable
      /\ \A c \in DOMAIN u \ DOMAIN v : after[c].type = u[c].type /\ after[c].nullable
  BY HealIs
<1> HIDE DEF after
<1>2. \A c \in DOMAIN u : u[c].type # after[c].type => ~Drift!Wider(u[c].type, after[c].type)
  BY <1>1
<1>3. \A c \in DOMAIN u : u[c].nullable # after[c].nullable => ~u[c].nullable
  <2> TAKE c \in DOMAIN u
  <2>1. u[c].nullable \in BOOLEAN /\ after[c].nullable \in BOOLEAN /\ (u[c].nullable => after[c].nullable)
    BY <1>1, ShapeIs
  <2> QED
    BY <2>1
<1>4. ASSUME NEW d \in Drift!Detect(u, after) PROVE ~d.heals
  <2> DEFINE Wide(c) == Drift!Wider(u[c].type, after[c].type)
  <2>1. CASE d \in {Drift!Drift("added", c, TRUE) : c \in DOMAIN u \ DOMAIN after}
    BY <1>1, <2>1
  <2>2. CASE d \in {Drift!Drift("removed", c, FALSE) : c \in DOMAIN after \ DOMAIN u}
    BY <2>2 DEF Drift!Drift
  <2>3. ASSUME NEW c \in DOMAIN u \cap DOMAIN after, u[c].type # after[c].type, NEW k, d = Drift!Drift(k, c, Wide(c))
        PROVE  ~d.heals
    <3>1. d.heals = Wide(c)
      <4> HIDE DEF Wide
      <4> QED
        BY <2>3 DEF Drift!Drift
    <3> QED
      BY <1>2, <2>3, <3>1, Zenon
  <2>4. CASE d \in {Drift!Drift("nullable", c, u[c].nullable) :
                      c \in {e \in DOMAIN u \cap DOMAIN after : u[e].nullable # after[e].nullable}}
    <3>1. PICK c \in DOMAIN u \cap DOMAIN after : u[c].nullable # after[c].nullable /\ d = Drift!Drift("nullable", c, u[c].nullable)
      BY <2>4
    <3>2. d.heals = u[c].nullable
      BY <3>1 DEF Drift!Drift
    <3> QED
      BY <1>3, <3>1, <3>2, Zenon
  <2> QED
    BY <2>1, <2>2, <2>3, <2>4, Zenon DEF Drift!Detect
<1>5. (\A d \in Drift!Detect(u, after) : ~d.heals) /\ DOMAIN u \subseteq DOMAIN after
  BY <1>1, <1>4
<1> QED
  BY <1>5 DEF after, D

(* There is no drift at the start, nor more to heal after a migration.        *)
LEMMA DriftInit ==
  ASSUME Drift!Init
  PROVE  DriftIInv
<1>1. upstream \in Drift!Schemas /\ downstream = upstream /\ healed = TRUE
  BY DEF Drift!Init
<1>2. \A d \in Drift!Detect(upstream, upstream) : ~d.heals
  <2> SUFFICES ASSUME NEW d \in Drift!Detect(upstream, upstream) PROVE ~d.heals
    OBVIOUS
  <2>1. d \in {Drift!Drift("added", c, TRUE) : c \in {}} \cup {Drift!Drift("removed", c, FALSE) : c \in {}}
    BY DEF Drift!Detect
  <2> QED
    BY <2>1
<1> QED
  BY <1>1, <1>2 DEF DriftIInv, Drift!TypeOK, Drift!HealsAll

LEMMA DriftInductive ==
  ASSUME Drift!HealerAssumption, DriftIInv, Drift!Next \/ UNCHANGED Drift!vars
  PROVE  DriftIInv'
<1>1. CASE UNCHANGED Drift!vars
  BY <1>1 DEF Drift!vars, DriftIInv, Drift!TypeOK, Drift!HealsAll
<1>2. CASE Drift!Change
  <2>1. upstream \in Drift!Schemas /\ downstream \in Drift!Schemas
    BY DEF DriftIInv, Drift!TypeOK
  <2>2. upstream' \in Drift!Schemas
    <3>1. ASSUME NEW c, upstream' = Drift!Restrict(upstream, DOMAIN upstream \ {c}) PROVE upstream' \in Drift!Schemas
      <4> DEFINE S == DOMAIN upstream \ {c}
      <4>1. upstream' = [e \in S |-> upstream[e]]
        BY <3>1 DEF Drift!Restrict
      <4>2. S \in SUBSET DriftColumns /\ upstream' \in [S -> [type : DriftTypes, nullable : BOOLEAN]]
        BY <2>1, <4>1, ShapeIs
      <4> QED
        BY <4>2 DEF Drift!Schemas
    <3>2. ASSUME NEW c \in DriftColumns, NEW d \in [type : DriftTypes, nullable : BOOLEAN],
                 upstream' = [e \in DOMAIN upstream \cup {c} |-> IF e = c THEN d ELSE upstream[e]]
          PROVE  upstream' \in Drift!Schemas
      <4> DEFINE S == DOMAIN upstream \cup {c}
      <4>1. S \in SUBSET DriftColumns /\ upstream' \in [S -> [type : DriftTypes, nullable : BOOLEAN]]
        BY <2>1, <3>2, ShapeIs
      <4> QED
        BY <4>1 DEF Drift!Schemas
    <3> QED
      BY <1>2, <3>1, <3>2, Zenon DEF Drift!Change
  <2>3. healed' = FALSE /\ downstream' = downstream
    BY <1>2 DEF Drift!Change
  <2> QED
    BY <2>1, <2>2, <2>3 DEF DriftIInv, Drift!TypeOK, Drift!HealsAll
<1>3. CASE Drift!Migrate
  <2> DEFINE after == Drift!Heal(Drift!Detect(upstream, downstream), upstream, downstream)
  <2>1. upstream \in Drift!Schemas /\ downstream \in Drift!Schemas
    BY DEF DriftIInv, Drift!TypeOK
  <2>2. downstream' = after /\ healed' = TRUE /\ upstream' = upstream
    BY <1>3 DEF Drift!Migrate
  <2>3. /\ after \in Drift!Schemas
        /\ \A d \in Drift!Detect(upstream, after) : ~d.heals
        /\ DOMAIN upstream \subseteq DOMAIN after
    BY <2>1, HealIs, HealedIs
  <2> HIDE DEF after
  <2> QED
    BY <2>1, <2>2, <2>3 DEF DriftIInv, Drift!TypeOK, Drift!HealsAll
<1> QED
  BY <1>1, <1>2, <1>3 DEF Drift!Next

(* So a migration heals all that can be, and harms nothing.                   *)
LEMMA DriftSuffices ==
  ASSUME Drift!HealerAssumption, DriftIInv
  PROVE  Drift!TypeOK /\ Drift!HealsAll /\ Drift!HealsSafely
<1> DEFINE after == Drift!Heal(Drift!Detect(upstream, downstream), upstream, downstream)
<1>1. upstream \in Drift!Schemas /\ downstream \in Drift!Schemas
  BY DEF DriftIInv, Drift!TypeOK
<1>2. /\ DOMAIN after = DOMAIN upstream \cup DOMAIN downstream
      /\ \A c \in DOMAIN downstream :
           /\ after[c].type = IF c \in DOMAIN upstream /\ Drift!Wider(upstream[c].type, downstream[c].type)
                              THEN upstream[c].type ELSE downstream[c].type
           /\ downstream[c].nullable => after[c].nullable
  BY <1>1, HealIs
<1>3. Drift!HealsSafely
  <2> HIDE DEF after
  <2>1. \A c \in DOMAIN downstream :
           /\ c \in DOMAIN after
           /\ after[c].type # downstream[c].type => TypeWidth[after[c].type] > TypeWidth[downstream[c].type]
           /\ downstream[c].nullable => after[c].nullable
    BY <1>2 DEF Drift!Wider
  <2> QED
    BY <2>1, Zenon DEF Drift!HealsSafely, after
<1> QED
  BY <1>3 DEF DriftIInv

-------------------------------------------------------------------------------
(* What the entries of the alerts count.                                      *)

(* The sums of what came, one moment after the other.                         *)
Sums(h, came, from, to) ==
  h = [t \in from .. to |-> came[t] + IF t = from THEN 0 ELSE h[t - 1]]

(* Sums of the same agree as far as both go.                                  *)
LEMMA SumsAgree ==
  ASSUME NEW from \in Nat, NEW to \in Nat, NEW on \in Nat, to <= on,
         NEW r, NEW s, \A t \in from .. to : r[t] = s[t],
         NEW g, Sums(g, r, from, to), NEW h, Sums(h, s, from, on)
  PROVE  \A t \in from .. to : g[t] = h[t]
<1> DEFINE Bad == {t \in from .. to : g[t] # h[t]}
<1>1. SUFFICES ASSUME Bad # {} PROVE FALSE
  OBVIOUS
<1>2. PICK m \in Bad : \A l \in Bad : m <= l
  <2>1. Bad \in SUBSET Nat
    OBVIOUS
  <2> HIDE DEF Bad
  <2> QED
    BY <1>1, <2>1, LeastNumber
<1>3. /\ g[m] = r[m] + IF m = from THEN 0 ELSE g[m - 1]
      /\ h[m] = s[m] + IF m = from THEN 0 ELSE h[m - 1]
  <2>1. m \in from .. to /\ m \in from .. on
    BY <1>2
  <2> QED
    BY <2>1 DEF Sums
<1>4. m # from => m - 1 \in from .. to /\ m - 1 \notin Bad
  BY <1>2
<1> QED
  BY <1>2, <1>3, <1>4

(* The total is the last of the sums, and they exist.                         *)
LEMMA TotalIs ==
  ASSUME NEW came, NEW from \in Nat, NEW to \in Nat, from <= to, \A t \in from .. to : came[t] \in Nat
  PROVE  \E h : Sums(h, came, from, to) /\ Alerts!Total(came, from, to) = h[to] /\ h[to] \in Nat
<1> DEFINE all == [t \in Nat |-> IF t \in from .. to THEN came[t] ELSE 0]
           step == [p \in Nat \X Nat |-> p[1] + all[from + p[2]]]
           Is(h) == h = [t \in from .. to |-> came[t] + IF t = from THEN 0 ELSE h[t - 1]]
<1>1. all \in [Nat -> Nat] /\ \A t \in from .. to : all[t] = came[t]
  OBVIOUS
<1> HIDE DEF all
<1>2. \A p \in Nat \X Nat : p[1] + all[from + p[2]] \in Nat
  <2> TAKE p \in Nat \X Nat
  <2>1. p[1] \in Nat /\ p[2] \in Nat /\ from + p[2] \in Nat
    OBVIOUS
  <2> QED
    BY <1>1, <2>1
<1>3. Steps(step, Nat) /\ all[from] \in Nat
  BY <1>1, <1>2 DEF Steps
<1>4. \A a, n \in Nat : step[<<a, n>>] = a + all[from + n]
  OBVIOUS
<1> HIDE DEF step
<1>5. PICK v : Runs(v, Nat, all[from], step)
  BY <1>3, Recursion
<1> DEFINE f == [t \in from .. to |-> v[t - from]]
<1>6. \A t \in from .. to : f[t] = came[t] + IF t = from THEN 0 ELSE f[t - 1]
  <2> TAKE t \in from .. to
  <2>1. t \in Nat /\ t - from \in Nat /\ f[t] = v[t - from] /\ all[t] = came[t] /\ came[t] \in Nat
    BY <1>1
  <2>2. CASE t = from
    BY <1>5, <2>1, <2>2 DEF Runs
  <2>3. CASE t # from
    <3>1. t - from \in Nat \ {0} /\ (t - from) - 1 \in Nat /\ from + (t - from) = t /\ t - 1 \in from .. to
          /\ (t - 1) - from = (t - from) - 1
      BY <2>1, <2>3
    <3>2. v[t - from] = step[<<v[(t - from) - 1], t - from>>] /\ v[(t - from) - 1] \in Nat
      BY <1>5, <3>1 DEF Runs
    <3>3. v[t - from] = v[(t - from) - 1] + all[t]
      BY <1>4, <3>1, <3>2
    <3>4. f[t - 1] = v[(t - from) - 1]
      BY <3>1
    <3> HIDE DEF f
    <3> QED
      BY <2>1, <2>3, <3>2, <3>3, <3>4
  <2> HIDE DEF f
  <2> QED
    BY <2>2, <2>3
<1>7. Is(f)
  <2>1. f = [t \in from .. to |-> f[t]]
    OBVIOUS
  <2> HIDE DEF f
  <2> QED
    BY <1>6, <2>1
<1>11. f[to] \in Nat
  <2>1. to \in from .. to /\ to - from \in Nat
    OBVIOUS
  <2> QED
    BY <1>5, <2>1 DEF Runs
<1> HIDE DEF f
<1>8. PICK x : x = CHOOSE h : Is(h)
  OBVIOUS
<1>9. Alerts!Total(came, from, to) = x[to]
  BY <1>8, Zenon DEF Alerts!Total
<1>10. Is(x)
  <2> HIDE DEF Is
  <2> QED
    BY <1>7, <1>8, Zenon
<1>12. f[to] = x[to]
  <2>1. Sums(f, came, from, to) /\ Sums(x, came, from, to)
    BY <1>7, <1>10, Zenon DEF Sums
  <2> QED
    BY <2>1, SumsAgree
<1> QED
  BY <1>9, <1>10, <1>11, <1>12 DEF Sums

(* One more moment adds what came in it,                                      *)
LEMMA TotalNext ==
  ASSUME NEW from \in Nat, NEW to \in Nat, from <= to, NEW came, \A t \in from .. to + 1 : came[t] \in Nat
  PROVE  Alerts!Total(came, from, to + 1) = came[to + 1] + Alerts!Total(came, from, to)
<1>1. to + 1 \in Nat /\ from <= to + 1 /\ to <= to + 1 /\ \A t \in from .. to : t \in from .. to + 1
  OBVIOUS
<1>2. PICK g : Sums(g, came, from, to) /\ Alerts!Total(came, from, to) = g[to]
  BY <1>1, TotalIs
<1>3. PICK h : Sums(h, came, from, to + 1) /\ Alerts!Total(came, from, to + 1) = h[to + 1]
  BY <1>1, TotalIs
<1>4. g[to] = h[to]
  BY <1>1, <1>2, <1>3, SumsAgree
<1>5. h[to + 1] = came[to + 1] + h[to]
  <2>1. to + 1 \in from .. to + 1 /\ to + 1 # from /\ (to + 1) - 1 = to
    OBVIOUS
  <2> QED
    BY <1>3, <2>1 DEF Sums
<1> QED
  BY <1>2, <1>3, <1>4, <1>5

(* and one that stands alone has what came in it.                             *)
LEMMA TotalOne ==
  ASSUME NEW from \in Nat, NEW came, came[from] \in Nat
  PROVE  Alerts!Total(came, from, from) = came[from]
<1>1. from <= from /\ \A t \in from .. from : came[t] \in Nat
  OBVIOUS
<1>2. PICK h : Sums(h, came, from, from) /\ Alerts!Total(came, from, from) = h[from]
  BY <1>1, TotalIs
<1>3. h[from] = came[from] + 0
  BY <1>2 DEF Sums
<1> QED
  BY <1>2, <1>3

(* The same makes the same total.                                             *)
LEMMA TotalSame ==
  ASSUME NEW from \in Nat, NEW to \in Nat, from <= to, NEW r, NEW s,
         \A t \in from .. to : r[t] \in Nat /\ r[t] = s[t]
  PROVE  Alerts!Total(r, from, to) = Alerts!Total(s, from, to)
<1>0. /\ \A t \in from .. to : r[t] \in Nat
      /\ \A t \in from .. to : s[t] \in Nat
      /\ to \in from .. to /\ to <= to
  OBVIOUS
<1>1. PICK g : Sums(g, r, from, to) /\ Alerts!Total(r, from, to) = g[to]
  BY <1>0, TotalIs
<1>2. PICK h : Sums(h, s, from, to) /\ Alerts!Total(s, from, to) = h[to]
  BY <1>0, TotalIs
<1> QED
  BY <1>0, <1>1, <1>2, SumsAgree

(* One more that comes now makes it one more.                                 *)
LEMMA TotalMore ==
  ASSUME NEW from \in Nat, NEW to \in Nat, from <= to, NEW r, NEW s,
         \A t \in from .. to : r[t] \in Nat /\ s[t] \in Nat /\ (t # to => s[t] = r[t]), s[to] = r[to] + 1,
         Alerts!Total(r, from, to) \in Nat
  PROVE  Alerts!Total(s, from, to) = Alerts!Total(r, from, to) + 1
<1>1. CASE from = to
  BY <1>1, TotalOne
<1>2. CASE from # to
  <2> DEFINE l == to - 1
  <2>1. l \in Nat /\ from <= l /\ l + 1 = to /\ \A t \in from .. l : t \in from .. to /\ t # to
    BY <1>2
  <2> HIDE DEF l
  <2>2. Alerts!Total(r, from, l + 1) = r[l + 1] + Alerts!Total(r, from, l)
    BY <2>1, TotalNext
  <2>3. Alerts!Total(s, from, l + 1) = s[l + 1] + Alerts!Total(s, from, l)
    BY <2>1, TotalNext
  <2>4. Alerts!Total(r, from, l) = Alerts!Total(s, from, l)
    BY <2>1, TotalSame
  <2>5. PICK g : Sums(g, r, from, l) /\ Alerts!Total(r, from, l) = g[l] /\ g[l] \in Nat
    BY <2>1, TotalIs
  <2>6. r[to] \in Nat /\ s[to] = r[to] + 1
    OBVIOUS
  <2> QED
    BY <2>1, <2>2, <2>3, <2>4, <2>5, <2>6
<1> QED
  BY <1>1, <1>2

(* The entries count right at the start, and whatever comes or passes.        *)
LEMMA CountsInit == ASSUME Alerts!Init PROVE Alerts!CountsAll
BY DEF Alerts!Init, Alerts!CountsAll

LEMMA CountsNext ==
  ASSUME Alerts!DeduplicationAssumption, AlertIInv, Alerts!CountsAll, Alerts!Next
  PROVE  Alerts!CountsAll'
<1>0. Alerts!Times \subseteq Nat /\ time \in Nat /\ MaxTime \in Nat /\ Alerts!Times = 0 .. MaxTime
      /\ \A k \in AlertKeys, t \in Alerts!Times : seen[k][t] \in Nat
  BY TimesAreNatural DEF AlertIInv, Alerts!Times
<1>1. ASSUME NEW k \in AlertKeys, recentAlerts[k] # Absent
      PROVE  /\ recentAlerts[k] \in Alerts!Entries /\ recentAlerts[k].firstSeen \in Nat
             /\ recentAlerts[k].firstSeen <= time /\ recentAlerts[k].count \in Nat
             /\ recentAlerts[k].count = Alerts!Total(seen[k], recentAlerts[k].firstSeen, time)
             /\ \A t \in recentAlerts[k].firstSeen .. time : t \in Alerts!Times
             /\ \A t \in Alerts!Times : t > time => seen[k][t] = 0
  <2>1. recentAlerts[k] \in Alerts!Entries
    BY <1>1 DEF AlertIInv
  <2>2. recentAlerts[k].firstSeen \in Alerts!Times /\ recentAlerts[k].count \in Nat
    BY <2>1 DEF Alerts!Entries
  <2>3. Remembered(k) /\ time \in Alerts!Times
    BY DEF AlertIInv
  <2>4. recentAlerts[k].firstSeen \in Came(k) /\ \A t \in Came(k) : t <= time
    BY <1>1, <2>3 DEF Remembered, Starts
  <2>5. \A t \in Alerts!Times : t > time => seen[k][t] = 0
    BY <1>0, <2>4 DEF Came
  <2>6. recentAlerts[k].count = Alerts!Total(seen[k], recentAlerts[k].firstSeen, time)
    BY <1>1 DEF Alerts!CountsAll
  <2>7. recentAlerts[k].firstSeen \in Nat /\ recentAlerts[k].firstSeen <= time
        /\ \A t \in recentAlerts[k].firstSeen .. time : t \in Alerts!Times
    BY <1>0, <2>2, <2>3, <2>4
  <2> QED
    BY <2>1, <2>2, <2>5, <2>6, <2>7
<1>2. CASE Alerts!Cleanup
  <2>1. UNCHANGED <<time, seen>> /\ \A k \in AlertKeys : recentAlerts'[k] # Absent =>
           recentAlerts[k] # Absent /\ recentAlerts'[k] = recentAlerts[k]
    BY <1>2 DEF Alerts!Cleanup
  <2> QED
    BY <2>1 DEF Alerts!CountsAll
<1>3. CASE Alerts!Tick
  <2>1. time' = time + 1 /\ time' \in Alerts!Times /\ UNCHANGED <<recentAlerts, seen>>
    BY <1>0, <1>3 DEF Alerts!Tick
  <2>2. ASSUME NEW k \in AlertKeys, recentAlerts[k] # Absent
        PROVE  recentAlerts[k].count = Alerts!Total(seen[k], recentAlerts[k].firstSeen, time + 1)
    <3> DEFINE f == recentAlerts[k].firstSeen
               s == seen[k]
               c == recentAlerts[k].count
    <3>1. /\ f \in Nat /\ f <= time /\ c \in Nat /\ c = Alerts!Total(s, f, time)
          /\ s[time + 1] = 0 /\ \A t \in f .. time : s[t] \in Nat
      BY <1>0, <1>1, <2>1, <2>2
    <3> HIDE DEF f, s, c
    <3>2. \A t \in f .. time + 1 : s[t] \in Nat
      BY <1>0, <3>1
    <3>3. Alerts!Total(s, f, time + 1) = s[time + 1] + Alerts!Total(s, f, time)
      BY <1>0, <3>1, <3>2, TotalNext
    <3>4. c = Alerts!Total(s, f, time + 1)
      BY <3>1, <3>3
    <3> QED
      BY <3>4 DEF c, f, s
  <2> QED
    BY <2>1, <2>2 DEF Alerts!CountsAll
<1>4. ASSUME NEW k \in AlertKeys, Alerts!Classify(k) PROVE Alerts!CountsAll'
  <2>1. time' = time /\ seen' = [seen EXCEPT ![k][time] = @ + 1] /\ time \in Alerts!Times
    BY <1>4 DEF Alerts!Classify, AlertIInv
  <2>2. /\ \A j \in AlertKeys \ {k} : seen'[j] = seen[j]
        /\ seen'[k][time] = seen[k][time] + 1 /\ \A t \in Alerts!Times \ {time} : seen'[k][t] = seen[k][t]
    BY <2>1 DEF AlertIInv
  <2>3. SUFFICES ASSUME NEW j \in AlertKeys, recentAlerts'[j] # Absent
                 PROVE  recentAlerts'[j].count = Alerts!Total(seen'[j], recentAlerts'[j].firstSeen, time)
    BY <2>1, Zenon DEF Alerts!CountsAll
  <2>4. CASE j # k
    <3>1. recentAlerts'[j] = recentAlerts[j]
      BY <1>4, <2>4 DEF Alerts!Classify, AlertIInv
    <3> QED
      BY <1>1, <2>2, <2>3, <2>4, <3>1
  <2>5. CASE j = k /\ Alerts!Repeats(k)
    <3> DEFINE e == recentAlerts[k]
               c == e.count
               f == e.firstSeen
               s == seen[k]
               r == seen'[k]
    <3>1. e # Absent
      BY <2>5 DEF Alerts!Repeats
    <3>2. recentAlerts'[k].count = c + 1 /\ recentAlerts'[k].firstSeen = f
      <4>1. recentAlerts' = [recentAlerts EXCEPT ![k].count = @ + 1, ![k].lastSeen = time]
        BY <1>4, <2>5 DEF Alerts!Classify
      <4>2. recentAlerts'[k] = [e EXCEPT !.count = c + 1, !.lastSeen = time] /\ e \in Alerts!Entries
        BY <1>1, <3>1, <4>1 DEF AlertIInv
      <4> HIDE DEF e
      <4> QED
        BY <4>2 DEF Alerts!Entries
    <3>3. f \in Nat /\ f <= time /\ c \in Nat /\ c = Alerts!Total(s, f, time)
          /\ \A t \in f .. time : t \in Alerts!Times
      BY <1>1, <3>1
    <3>4. \A t \in f .. time : s[t] \in Nat /\ r[t] \in Nat /\ (t # time => r[t] = s[t])
      BY <1>0, <2>1, <2>2, <3>3
    <3>5. r[time] = s[time] + 1
      BY <2>2
    <3>8. s[time] \in Nat
      BY <1>0, <2>1
    <3> HIDE DEF c, f, s, r
    <3>9. Alerts!Total(s, f, time) \in Nat /\ time \in Nat
      BY <1>0, <3>3
    <3>6. Alerts!Total(r, f, time) = Alerts!Total(s, f, time) + 1
      BY <3>3, <3>4, <3>5, <3>9, TotalMore
    <3>7. recentAlerts'[k].count = Alerts!Total(r, recentAlerts'[k].firstSeen, time)
      BY <3>2, <3>3, <3>6
    <3> QED
      BY <2>5, <3>7 DEF r
  <2>6. CASE j = k /\ ~Alerts!Repeats(k)
    <3> DEFINE r == seen'[k]
    <3>1. recentAlerts'[k].count = 1 /\ recentAlerts'[k].firstSeen = time
      BY <1>4, <2>6 DEF Alerts!Classify, AlertIInv
    <3>2. time \notin Came(k)
      <4>1. Remembered(k) /\ Window \in Nat /\ Window > 0
        BY TimesAreNatural DEF AlertIInv
      <4>2. CASE recentAlerts[k] = Absent
        BY <1>0, <4>1, <4>2 DEF Remembered
      <4>3. CASE recentAlerts[k] # Absent
        <5>1. /\ recentAlerts[k].lastSeen \in Nat /\ time - recentAlerts[k].lastSeen >= Window
              /\ \A t \in Came(k) : t <= recentAlerts[k].lastSeen
          <6>1. recentAlerts[k].lastSeen \in Came(k) /\ Came(k) \subseteq Nat
            BY <1>0, <4>1, <4>3 DEF Remembered, Came
          <6>2. ~(time - recentAlerts[k].lastSeen < Window)
            BY <2>6, <4>3 DEF Alerts!Repeats
          <6> QED
            BY <1>0, <4>1, <4>3, <6>1, <6>2 DEF Remembered
        <5> QED
          BY <1>0, <4>1, <5>1
      <4> QED
        BY <4>2, <4>3
    <3>3. r[time] = 1
      BY <1>0, <2>1, <2>2, <3>2 DEF Came
    <3> HIDE DEF r
    <3>4. Alerts!Total(r, time, time) = 1
      BY <1>0, <3>3, TotalOne
    <3> QED
      BY <2>6, <3>1, <3>4 DEF r
  <2> QED
    BY <2>4, <2>5, <2>6
<1> QED
  BY <1>2, <1>3, <1>4 DEF Alerts!Next

-------------------------------------------------------------------------------
(* Types.                                                                     *)

(* The records of the promotions are of the promotions and of their layers.   *)
LEMMA PromotionTyped ==
  ASSUME Medallion!PromotionAssumption, PromotionIInv, Medallion!TypeOK, Medallion!Next
  PROVE  Medallion!TypeOK'
<1> DEFINE E == [from : Medallion!Layers, source : Tables, to : Medallion!Layers, target : Tables, of : Calls]
           A == [action : Medallion!Actions, of : Calls, status : Medallion!Statuses]
<1>1. /\ registered \subseteq Medallion!Layers \X Tables
      /\ at \in [Calls -> {"new", "adapter", "done", "rollback"}]
      /\ request \in [Calls -> Promotions \cup {Absent}]
      /\ platform \subseteq Calls /\ completed \subseteq Calls /\ edges \subseteq E /\ audit \subseteq A
  BY DEF Medallion!TypeOK
<1>2. \A r \in Promotions : r.from \in Medallion!Layers /\ r.source \in Tables
                            /\ r.to \in Medallion!Layers /\ r.target \in Tables
  BY DEF Medallion!PromotionAssumption
<1>3. \A c \in Calls, a \in Medallion!Actions, s \in Medallion!Statuses : Medallion!Entry(a, c, s) \in A
  BY DEF Medallion!Entry
<1>4. {"promote", "quarantine", "rollback"} \subseteq Medallion!Actions
      /\ {"success", "failed", "quarantined", "none"} \subseteq Medallion!Statuses
  BY DEF Medallion!Actions, Medallion!Statuses
<1> HIDE DEF A
<1>5. ASSUME NEW layer \in Medallion!Layers, NEW t \in Tables, Medallion!Register(layer, t) PROVE Medallion!TypeOK'
  BY <1>1, <1>5 DEF Medallion!Register, Medallion!TypeOK, A
<1>6. ASSUME NEW c \in Calls, NEW r \in Promotions, Medallion!Promote(c, r) PROVE Medallion!TypeOK'
  <2>1. request' \in [Calls -> Promotions \cup {Absent}] /\ UNCHANGED <<registered, platform, edges, completed>>
    BY <1>1, <1>6 DEF Medallion!Promote
  <2>2. at' \in [Calls -> {"new", "adapter", "done", "rollback"}]
    BY <1>1, <1>6 DEF Medallion!Promote
  <2>3. Medallion!Verdict(r) \in Medallion!Statuses
    BY <1>4 DEF Medallion!Verdict
  <2>4. audit' \subseteq A
    <3>1. CASE audit' = audit
      BY <1>1, <3>1
    <3>2. CASE audit' # audit
      <4> DEFINE a == IF Medallion!Verdict(r) = "failed" THEN "promote" ELSE "quarantine"
      <4>1. audit' = audit \cup {Medallion!Entry(a, c, Medallion!Verdict(r))}
        BY <1>6, <3>2 DEF Medallion!Promote
      <4>2. a \in Medallion!Actions
        BY <1>4
      <4> HIDE DEF a
      <4>3. Medallion!Entry(a, c, Medallion!Verdict(r)) \in A
        BY <1>3, <2>3, <4>2
      <4> QED
        BY <1>1, <4>1, <4>3
    <3> QED
      BY <3>1, <3>2
  <2> QED
    BY <1>1, <2>1, <2>2, <2>4 DEF Medallion!TypeOK, A
<1>7. ASSUME NEW c \in Calls, Medallion!Promoted(c) PROVE Medallion!TypeOK'
  <2>1. request[c] \in Promotions
    BY <1>7 DEF Medallion!Promoted, PromotionIInv, Recorded, Unhindered
  <2>2. EdgeOf(request[c], c) \in E
    BY <1>2, <2>1 DEF EdgeOf
  <2>3. edges' = edges \cup {EdgeOf(request[c], c)}
    BY <1>7 DEF Medallion!Promoted, EdgeOf
  <2>4. audit' = audit \cup {Medallion!Entry("promote", c, "success")} /\ Medallion!Entry("promote", c, "success") \in A
    BY <1>3, <1>4, <1>7 DEF Medallion!Promoted
  <2> HIDE DEF E
  <2>5. edges' \subseteq E /\ audit' \subseteq A
    BY <1>1, <2>2, <2>3, <2>4
  <2>6. /\ platform' = platform \cup {c} /\ completed' = completed \cup {c} /\ at' = [at EXCEPT ![c] = "done"]
        /\ UNCHANGED <<registered, request>>
    BY <1>7 DEF Medallion!Promoted
  <2> QED
    BY <1>1, <2>5, <2>6 DEF Medallion!TypeOK, A, E
<1>8. ASSUME NEW c \in Calls, Medallion!AdapterThrows(c) PROVE Medallion!TypeOK'
  BY <1>1, <1>8 DEF Medallion!AdapterThrows, Medallion!TypeOK, A
<1>9. ASSUME NEW c \in Calls, Medallion!Rollback(c) PROVE Medallion!TypeOK'
  BY <1>1, <1>9 DEF Medallion!Rollback, Medallion!TypeOK, A
<1>10. ASSUME NEW c \in Calls, Medallion!RolledBack(c) PROVE Medallion!TypeOK'
  <2>1. audit' = audit \cup {Medallion!Entry("rollback", c, "none")} /\ Medallion!Entry("rollback", c, "none") \in A
    BY <1>3, <1>4, <1>10 DEF Medallion!RolledBack
  <2>2. audit' \subseteq A
    BY <1>1, <2>1
  <2>3. /\ completed' = completed \ {c} /\ at' = [at EXCEPT ![c] = "done"]
        /\ UNCHANGED <<registered, request, platform, edges>>
    BY <1>10 DEF Medallion!RolledBack
  <2> QED
    BY <1>1, <2>2, <2>3 DEF Medallion!TypeOK, A
<1> QED
  BY <1>5, <1>6, <1>7, <1>8, <1>9, <1>10 DEF Medallion!Next

(* What a call has read of the counter is no more than there are calls.       *)
IncidentTyped == tier \in Tiers /\ \A c \in Calls : read[c] <= Cardinality(Calls)

(* It stays so, since the counter never has more than there are calls.        *)
LEMMA IncidentTypesStay ==
  ASSUME Incident!RemediationAssumption, IncidentIInv, IncidentTyped, Incident!Next
  PROVE  IncidentTyped'
<1>1. /\ read \in [Calls -> Nat] /\ count \in Nat /\ count <= Cardinality(Counted) /\ tier' = tier
  BY DEF IncidentIInv, IncidentTypeInv, CounterInv, Incident!Next, Incident!Ask, Incident!Playbook, Incident!Publish,
     Incident!GetCount, Incident!SetCount, Incident!Resolve, Incident!Throw
<1>2. Cardinality(Counted) <= Cardinality(Calls) /\ Cardinality(Counted) \in Nat /\ Cardinality(Calls) \in Nat
  <2>1. Counted \in SUBSET Calls
    BY DEF Counted
  <2> QED
    BY <2>1, CallsAreFinite, FewerCalls
<1>3. read' = read \/ \E c \in Calls : read' = [read EXCEPT ![c] = count]
  BY DEF Incident!Next, Incident!Ask, Incident!Playbook, Incident!Publish,
     Incident!GetCount, Incident!SetCount, Incident!Resolve, Incident!Throw
<1> QED
  BY <1>1, <1>2, <1>3 DEF IncidentTyped

(* The types of the remediations follow.                                      *)
LEMMA IncidentTypes ==
  ASSUME Incident!RemediationAssumption, IncidentIInv, IncidentTyped
  PROVE  Incident!TypeOK
<1>1. /\ read \in [Calls -> Nat] /\ count \in Nat /\ count <= Cardinality(Counted)
  BY DEF IncidentIInv, IncidentTypeInv, CounterInv
<1>2. Cardinality(Counted) <= Cardinality(Calls) /\ Cardinality(Counted) \in Nat /\ Cardinality(Calls) \in Nat
  <2>1. Counted \in SUBSET Calls
    BY DEF Counted
  <2> QED
    BY <2>1, CallsAreFinite, FewerCalls
<1>3. count \in 0 .. Cardinality(Calls) /\ read \in [Calls -> 0 .. Cardinality(Calls)]
  BY <1>1, <1>2 DEF IncidentTyped
<1>4. Incident!Cardinality(Calls) = Cardinality(Calls)
  BY SameFiniteSets
<1> QED
  BY <1>3, <1>4 DEF IncidentIInv, IncidentTypeInv, IncidentTyped, Incident!TypeOK, Stages

(* The other parts have their types by what is known of them already.         *)
LEMMA GraphTypes == ASSUME GraphIInv PROVE Graph!TypeOK
<1>1. /\ outEdges \in [Assets -> SUBSET Graph!Edge] /\ inEdges \in [Assets -> SUBSET Graph!Edge]
      /\ \A a \in Assets : (\A e \in outEdges[a] : e.source = a) /\ (\A e \in inEdges[a] : e.target = a)
      /\ \A e \in Graph!Edge : e \in outEdges[e.source] <=> e \in inEdges[e.target]
  BY DEF GraphIInv
<1>2. \A e : e \in UNION Graph!Range(outEdges) <=> \E a \in Assets : e \in outEdges[a]
  BY <1>1 DEF Graph!Range
<1>3. \A e : e \in UNION Graph!Range(inEdges) <=> \E a \in Assets : e \in inEdges[a]
  BY <1>1 DEF Graph!Range
<1>4. ASSUME NEW a \in Assets
      PROVE  /\ inEdges[a] = {e \in UNION Graph!Range(outEdges) : e.target = a}
             /\ outEdges[a] = {e \in UNION Graph!Range(inEdges) : e.source = a}
  BY <1>1, <1>2, <1>3, EdgeEnds
<1> QED
  BY <1>1, <1>4 DEF GraphIInv, Graph!TypeOK

LEMMA EditsTypes == ASSUME EditsIInv PROVE Edits!LineageTypeOK
<1>1. /\ outEdges \in [Assets -> SUBSET Edits!Added] /\ inEdges \in [Assets -> SUBSET Edits!Added]
      /\ \A a \in Assets : \A e \in outEdges[a] : e.source = a /\ e \in inEdges[e.target]
      /\ \A a \in Assets : \A e \in inEdges[a] : e.target = a /\ e \in outEdges[e.source]
      /\ \A e \in links : e \in Edits!Added
  BY DEF EditsIInv, EdgesInv
<1>2. \A e : e \in Edits!Edges <=> \E a \in Assets : e \in outEdges[a]
  BY <1>1 DEF Edits!Edges, Edits!Range
<1>3. \A e : e \in UNION Edits!Range(inEdges) <=> \E a \in Assets : e \in inEdges[a]
  BY <1>1 DEF Edits!Range
<1>4. \A e \in Edits!Added : e.source \in Assets /\ e.target \in Assets
  BY DEF Edits!Added
<1>5. ASSUME NEW a \in Assets
      PROVE  /\ inEdges[a] = {e \in Edits!Edges : e.target = a}
             /\ outEdges[a] = {e \in UNION Edits!Range(inEdges) : e.source = a}
  BY <1>1, <1>2, <1>3, <1>4
<1>6. links \cup Edits!Edges \subseteq Edits!Added
  BY <1>1, <1>2
<1> QED
  BY <1>5, <1>6 DEF EditsIInv, JobsInv, Edits!LineageTypeOK

LEMMA LedgerTypes == ASSUME LedgerIInv PROVE Ledger!TypeOK
<1>1. \A r \in ingested : r.hash = r.previous \cup {r.id} /\ r.previous \subseteq 1 .. r.id - 1 /\ r.id \in Nat \ {0}
  <2>1. \A r \in ingested : r.id \in 1 .. Cardinality(ingested)
    BY DEF LedgerIInv
  <2> QED
    BY <2>1, FS_CardinalityType DEF LedgerIInv
<1>2. \A r \in ingested : r.hash \subseteq 1 .. r.id
  BY <1>1
<1>3. Ledger!Cardinality(ingested) = Cardinality(ingested)
  BY LedgerSets
<1> QED
  BY <1>1, <1>2, <1>3 DEF LedgerIInv, Ledger!TypeOK

LEMMA PipelineTypes == ASSUME PipelineIInv PROVE Pipeline!TypeOK
  BY DEF PipelineIInv, Pipeline!TypeOK

LEMMA AlertTypes == ASSUME AlertIInv PROVE Alerts!TypeOK
  BY DEF AlertIInv, Alerts!TypeOK

-------------------------------------------------------------------------------
(* The run's parts.                                                           *)

agentsVars == <<part, catalog, tables, operations>>

AgentsIInv ==
  /\ part = "promotion" => PromotionIInv /\ Medallion!TypeOK
  /\ part = "incident" => IncidentIInv /\ IncidentTyped
  /\ part = "alerts" => AlertIInv /\ Alerts!CountsAll
  /\ part = "ledger" => LedgerIInv
  /\ part = "graph" => GraphIInv
  /\ part = "lineage" => EditsIInv
  /\ part = "pipeline" => PipelineIInv
  /\ part = "schema" => SchemaIInv
  /\ part = "drift" => DriftIInv

(* The part that a behaviour took at its start is the one that moves.         *)
LEMMA AgentsInductive ==
  /\ Init => AgentsIInv
  /\ AgentsIInv /\ [Next]_agentsVars => AgentsIInv'
<1>0. /\ Medallion!PromotionAssumption /\ Incident!RemediationAssumption
      /\ Alerts!DeduplicationAssumption /\ Ledger!LedgerAssumption
      /\ Graph!GraphAssumption /\ Edits!WritersAssumption /\ Pipeline!ValidatorAssumption
      /\ Schema!WatchAssumption /\ Drift!HealerAssumption
  BY Assumptions
<1>1. Init => AgentsIInv
  <2> SUFFICES ASSUME Init PROVE AgentsIInv
    OBVIOUS
  <2>1. part = "promotion" => Medallion!TypeOK
    BY DEF Init, Medallion!Init, Medallion!TypeOK
  <2>2. part = "incident" => IncidentTyped
    <3>1. Cardinality(Calls) \in Nat
      BY <1>0, CallsAreFinite, FS_CardinalityType
    <3> QED
      BY <3>1 DEF Init, Incident!Init, IncidentTyped
  <2> QED
    BY <1>0, <2>1, <2>2, PromotionInit, IncidentInit, AlertInit, CountsInit, LedgerInit, GraphInit, EditsInit,
       PipelineInit, SchemaInit, DriftInit DEF Init, AgentsIInv
<1> SUFFICES ASSUME AgentsIInv, [Next]_agentsVars PROVE AgentsIInv'
  BY <1>1
<1>2. part' = part
  BY DEF Next, agentsVars
<1>3. ASSUME part = "promotion" PROVE PromotionIInv' /\ Medallion!TypeOK'
  <2>1. PromotionIInv /\ Medallion!TypeOK /\ (Medallion!Next \/ UNCHANGED promotionVars)
    BY <1>3 DEF AgentsIInv, Next, agentsVars, tables
  <2>2. ASSUME UNCHANGED promotionVars PROVE PromotionIInv' /\ Medallion!TypeOK'
    <3>1. PromotionIInv'
      BY <2>1, <2>2 DEF PromotionIInv, promotionVars, Recorded, LogsPromotion, LogsRollback,
           Unhindered, EdgeOf, Medallion!Allowed, Medallion!ValidPromotionOrder
    <3>2. Medallion!TypeOK'
      BY <2>1, <2>2 DEF promotionVars, Medallion!TypeOK
    <3> QED
      BY <3>1, <3>2
  <2> QED
    BY <1>0, <2>1, <2>2, PromotionNext, PromotionTyped
<1>4. ASSUME part = "incident" PROVE IncidentIInv' /\ IncidentTyped'
  <2>1. IncidentIInv /\ IncidentTyped /\ (Incident!Next \/ UNCHANGED incidentVars)
    BY <1>4 DEF AgentsIInv, Next, agentsVars, operations
  <2>2. ASSUME UNCHANGED incidentVars PROVE IncidentIInv' /\ IncidentTyped'
    <3>1. Counted' = Counted
      BY <2>2 DEF incidentVars, Counted, Remediates
    <3>2. IncidentTyped'
      BY <2>1, <2>2 DEF incidentVars, IncidentTyped
    <3>3. IncidentIInv'
      BY <2>1, <2>2, <3>1 DEF IncidentIInv, incidentVars, IncidentTypeInv, InFlow, CounterInv, ResolvedInv,
           Remediates, Escalates, Incident!AutoRemediate, Incident!Applicable, Incident!Incidents
    <3> QED
      BY <3>2, <3>3
  <2> QED
    BY <1>0, <2>1, <2>2, IncidentNext, IncidentTypesStay
<1>5. ASSUME part = "alerts" PROVE AlertIInv' /\ Alerts!CountsAll'
  <2>1. AlertIInv /\ Alerts!CountsAll /\ (Alerts!Next \/ UNCHANGED alertVars)
    BY <1>5 DEF AgentsIInv, Next, agentsVars, operations
  <2>2. ASSUME UNCHANGED alertVars PROVE AlertIInv' /\ Alerts!CountsAll'
    BY <2>1, <2>2 DEF AlertIInv, alertVars, Remembered, Came, Alerts!CountsAll
  <2> QED
    BY <1>0, <2>1, <2>2, AlertNext, CountsNext
<1>6. ASSUME part = "ledger" PROVE LedgerIInv'
  <2>1. LedgerIInv /\ (Ledger!Next \/ UNCHANGED ledgerVars)
    BY <1>6 DEF AgentsIInv, Next, agentsVars, operations
  <2>2. ASSUME UNCHANGED ledgerVars PROVE LedgerIInv'
    BY <2>1, <2>2 DEF LedgerIInv, ledgerVars
  <2> QED
    BY <1>0, <2>1, <2>2, LedgerNext
<1>7. ASSUME part = "graph" PROVE GraphIInv'
  <2>1. GraphIInv /\ (Graph!Next \/ UNCHANGED graphVars)
    BY <1>7 DEF AgentsIInv, Next, agentsVars, catalog
  <2>2. ASSUME UNCHANGED graphVars PROVE GraphIInv'
    BY <2>1, <2>2 DEF GraphIInv, graphVars, Graph!Edge, Graph!Table
  <2> QED
    BY <2>1, <2>2, GraphNext
<1>8. ASSUME part = "lineage" PROVE EditsIInv'
  <2>1. EditsIInv /\ (Edits!LineageNext \/ UNCHANGED catalog)
    BY <1>8 DEF AgentsIInv, Next, agentsVars
  <2>2. ASSUME UNCHANGED catalog PROVE EditsIInv'
    <3>1. UNCHANGED <<nodes, outEdges, inEdges, job, links>>
      BY <2>2 DEF catalog, graphVars, lineageVars
    <3>2. SolidSet' = SolidSet
      BY <3>1 DEF SolidSet, Edits!Replaced, Edits!Busy
    <3>3. EdgesInv(SolidSet)'
      BY <2>1, <3>1, <3>2, EdgesStay DEF EditsIInv
    <3>4. JobsInv(SolidSet)'
      <4>1. PICK S : S = SolidSet'
        OBVIOUS
      <4>2. JobsType(job') /\ \A d \in Calls : job'[d] # Absent => JobSound(job'[d], S)
        BY <2>1, <3>1, <3>2, <4>1 DEF EditsIInv, JobsInv, JobsType
      <4> QED
        BY <4>1, <4>2, JobsAre
    <3> QED
      BY <2>1, <3>1, <3>3, <3>4 DEF EditsIInv
  <2> QED
    BY <1>0, <2>1, <2>2, EditsNext
<1>9. ASSUME part = "pipeline" PROVE PipelineIInv'
  <2>1. PipelineIInv /\ (Pipeline!Next \/ UNCHANGED pipelineVars)
    BY <1>9 DEF AgentsIInv, Next, agentsVars, operations
  <2>2. ASSUME UNCHANGED pipelineVars PROVE PipelineIInv'
    BY <2>1, <2>2 DEF PipelineIInv, pipelineVars
  <2> QED
    BY <2>1, <2>2, PipelineNext
<1>10. ASSUME part = "schema" PROVE SchemaIInv'
  <2>1. SchemaIInv /\ (Schema!Next \/ UNCHANGED schemaVars)
    BY <1>10 DEF AgentsIInv, Next, agentsVars, tables
  <2> QED
    BY <1>0, <2>1, SchemaInductive DEF schemaVars, Schema!vars
<1>11. ASSUME part = "drift" PROVE DriftIInv'
  <2>1. DriftIInv /\ (Drift!Next \/ UNCHANGED driftVars)
    BY <1>11 DEF AgentsIInv, Next, agentsVars, tables
  <2> QED
    BY <1>0, <2>1, DriftInductive DEF driftVars, Drift!vars
<1> QED
  BY <1>2, <1>3, <1>4, <1>5, <1>6, <1>7, <1>8, <1>9, <1>10, <1>11 DEF AgentsIInv

(* core/medallion: whatever the promotions, and however they overlap, fail    *)
(* and are rolled back, the platform, the audit log, the completed promotions *)
(* and the lineage agree.                                                     *)
THEOREM PromotionsAgree == Spec => []RecordsAgree
<1>1. AgentsIInv => RecordsAgree
  BY PromotionSuffices DEF AgentsIInv, RecordsAgree
<1> QED
  BY <1>1, AgentsInductive, PTL DEF Spec, agentsVars

(* remediate.ts and anomaly-classifier.ts: whatever the calls, the counter    *)
(* has no increment too many, and what is resolved or executed met its        *)
(* threshold; an alert is raised for what is new, and only that.              *)
THEOREM RecordsEarned == Spec => []RecordsAreEarned
<1>1. AgentsIInv => RecordsAreEarned
  BY Assumptions, IncidentSuffices, AlertSuffices DEF AgentsIInv, RecordsAreEarned
<1> QED
  BY <1>1, AgentsInductive, PTL DEF Spec, agentsVars

(* verify-global-hash-chain.ts and get-usage-activity-log.ts: the             *)
(* verification calls a chain valid only if no event is missing in it, and    *)
(* calls one ingester's complete chain so; the log breaks no valid chain.     *)
THEOREM GapsFound == Spec => []GapsAreFound
<1>1. AgentsIInv => GapsAreFound
  BY Assumptions, LedgerSuffices DEF AgentsIInv, GapsAreFound
<1> QED
  BY <1>1, AgentsInductive, PTL DEF Spec, agentsVars

(* graph-db.ts: a walk finds every asset once, by the shortest path over what *)
(* is there, and upstream is the converse of downstream.                      *)
THEOREM WalksShortest == Spec => []WalksAreShortest
<1>1. AgentsIInv => WalksAreShortest
  BY Assumptions, GraphWalks DEF AgentsIInv, WalksAreShortest
<1> QED
  BY <1>1, AgentsInductive, PTL DEF Spec, agentsVars

(* lineage-api.ts: a trace has all that any platform that answers names, and  *)
(* what the local graph does not know on one side only.                       *)
THEOREM TracesComplete == Spec => []TraceIsComplete
<1>1. AgentsIInv => TraceIsComplete
  BY Assumptions, GraphTraces DEF AgentsIInv, TraceIsComplete
<1> QED
  BY <1>1, AgentsInductive, PTL DEF Spec, agentsVars

(* impact-analyzer.ts and lineage-api.ts: a further edge never lowers the     *)
(* severity of a change, nor takes a column out of those that a change        *)
(* affects.                                                                   *)
THEOREM ImpactsGrow == Spec => ImpactGrows
<1>1. AgentsIInv /\ AgentsIInv' /\ [Next]_agentsVars => [part = "graph" => Graph!Grows]_graphVars
  <2> SUFFICES ASSUME AgentsIInv, AgentsIInv', [Next]_agentsVars, part = "graph" PROVE Graph!Grows
    OBVIOUS
  <2>1. GraphIInv /\ GraphIInv'
    BY DEF AgentsIInv, Next, agentsVars
  <2> QED
    BY <2>1, Assumptions, GraphGrows
<1> QED
  BY <1>1, AgentsInductive, PTL DEF Spec, agentsVars, ImpactGrows

(* update-lineage.ts, register-pipeline-asset.ts, openlineage-consumer.ts and *)
(* graph-persister.ts: however the calls interleave, an edge that was linked  *)
(* is found from both its ends, unless a crawl is just replacing one.         *)
THEOREM LinkedFound == Spec => []LinkedIsFound
<1>1. AgentsIInv => LinkedIsFound
  BY Assumptions, EditsFound DEF AgentsIInv, LinkedIsFound
<1> QED
  BY <1>1, AgentsInductive, PTL DEF Spec, agentsVars

(* pipeline-validator.ts: for any ids, tasks and dependencies, a pipeline it  *)
(* calls valid has an order to run in, since the search for a cycle finds any *)
(* there is; and its score tells the valid from the others.                   *)
THEOREM ValidRuns == Spec => []ValidIsRunnable
<1>1. AgentsIInv => ValidIsRunnable
  BY Assumptions, PipelineSuffices DEF AgentsIInv, ValidIsRunnable
<1> QED
  BY <1>1, AgentsInductive, PTL DEF Spec, agentsVars

(* detect-schema-change.ts and its snapshot store: whatever both tools do     *)
(* beside each other, whatever expires, is evicted or fails, the answers of   *)
(* detect_schema_change add up to what the store remembers, and the           *)
(* migrations made of them lead there and back; schema-drift-healer.ts: a     *)
(* healed layer has no more to heal; anomaly-classifier.ts: an entry counts   *)
(* all that came since its alert.                                             *)
THEOREM AnswersRight == Spec => []AnswersAddUp
<1>1. AgentsIInv => AnswersAddUp
  <2> SUFFICES ASSUME AgentsIInv PROVE AnswersAddUp
    OBVIOUS
  <2>1. part = "schema" => SchemaIInv /\ Schema!WatchAssumption
    BY Assumptions DEF AgentsIInv
  <2>2. part = "drift" => Drift!HealsAll /\ Drift!HealsSafely
    BY Assumptions, DriftSuffices DEF AgentsIInv
  <2>3. part = "alerts" => Alerts!CountsAll
    BY DEF AgentsIInv
  <2> QED
    BY <2>1, <2>2, <2>3, SchemaSuffices DEF AnswersAddUp
<1> QED
  BY <1>1, AgentsInductive, PTL DEF Spec, agentsVars

(* The variables of every part have their types.                              *)
THEOREM AgentsTypes == Spec => []TypeOK
<1>1. Init => part \in Parts
  BY DEF Init
<1>2. part \in Parts /\ [Next]_agentsVars => (part \in Parts)'
  BY DEF Next, agentsVars
<1>3. AgentsIInv /\ part \in Parts => TypeOK
  <2> SUFFICES ASSUME AgentsIInv, part \in Parts PROVE TypeOK
    OBVIOUS
  <2>1. /\ part = "graph" => Graph!TypeOK
        /\ part = "lineage" => Edits!LineageTypeOK
        /\ part = "ledger" => Ledger!TypeOK
        /\ part = "pipeline" => Pipeline!TypeOK
        /\ part = "alerts" => Alerts!TypeOK
    BY GraphTypes, EditsTypes, LedgerTypes, PipelineTypes, AlertTypes DEF AgentsIInv
  <2>2. /\ part = "promotion" => Medallion!TypeOK
        /\ part = "incident" => Incident!TypeOK
        /\ part = "schema" => Schema!TypeOK
        /\ part = "drift" => Drift!TypeOK
    BY Assumptions, IncidentTypes, SchemaSuffices, DriftSuffices DEF AgentsIInv
  <2> QED
    BY <2>1, <2>2 DEF Parts, TypeOK
<1> QED
  BY <1>1, <1>2, <1>3, AgentsInductive, PTL DEF Spec, agentsVars

==============================================================================
