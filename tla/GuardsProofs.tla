------------------------------ MODULE GuardsProofs ------------------------------
(***************************************************************************)
(* Proofs about the parts of MCCore that guard what goes ahead, for any    *)
(* limits, thresholds and numbers of calls: the tool breaker, the guards of *)
(* an agent's actions, the life cycle's confidence gate, the queue of      *)
(* core/orchestrator and its log of accesses.                              *)
(***************************************************************************)
EXTENDS MCCore, FiniteSetTheorems, SequenceTheorems, WellFoundedInduction, TLAPS

(* A set of natural numbers that is not empty has a least element.          *)
LEMMA LeastNumber ==
  ASSUME NEW S \in SUBSET Nat, S # {}
  PROVE  \E m \in S : \A k \in S : m <= k
<1>1. PICK m \in S : \A k \in S : ~ (<<k, m>> \in OpToRel(<, Nat))
  BY NatLessThanWellFounded, WFMin
<1>2. \A k \in S : ~ (k < m)
  BY <1>1 DEF OpToRel
<1> QED
  BY <1>2

(* The first n terms of a recursion: from s0 on, by step.                   *)
Terms(g, n, S, s0, step) ==
  g \in [0..n -> S] /\ g[0] = s0 /\ \A k \in 1..n : g[k] = step[<<g[k - 1], k>>]

(* They are determined, whatever their number.                              *)
LEMMA TermsAgree ==
  ASSUME NEW S, NEW s0, NEW step, NEW m \in Nat, NEW n \in Nat,
         NEW g, NEW h, Terms(g, m, S, s0, step), Terms(h, n, S, s0, step), m <= n,
         NEW j \in 0..m
  PROVE  g[j] = h[j]
<1> DEFINE Bad == {k \in 0..m : g[k] # h[k]}
<1>1. SUFFICES ASSUME Bad # {} PROVE FALSE
  OBVIOUS
<1>2. Bad \subseteq Nat
  OBVIOUS
<1>3. PICK k \in Bad : \A l \in Bad : k <= l
  BY <1>1, <1>2, LeastNumber
<1>4. k # 0
  BY <1>3 DEF Terms
<1>5. k - 1 \in 0..m /\ k - 1 \notin Bad /\ k \in 1..m /\ k \in 1..n
  BY <1>3, <1>4
<1> QED
  BY <1>3, <1>5 DEF Terms

(* There are n terms for every n.                                           *)
LEMMA TermsExist ==
  ASSUME NEW S, NEW s0 \in S, NEW step \in [S \X Nat -> S], NEW n \in Nat
  PROVE  \E g : Terms(g, n, S, s0, step)
<1> DEFINE Bad == {k \in Nat : ~ \E g : Terms(g, k, S, s0, step)}
<1>1. SUFFICES ASSUME Bad # {} PROVE FALSE
  OBVIOUS
<1>2. PICK m \in Bad : \A l \in Bad : m <= l
  BY <1>1, LeastNumber
<1>3. m # 0
  <2>1. Terms([k \in 0..0 |-> s0], 0, S, s0, step)
    BY DEF Terms
  <2> QED
    BY <1>2, <2>1
<1>4. m - 1 \in Nat /\ m - 1 \notin Bad
  BY <1>2, <1>3
<1>5. PICK g : Terms(g, m - 1, S, s0, step)
  BY <1>4
<1> DEFINE h == [k \in 0..m |-> IF k = m THEN step[<<g[m - 1], m>>] ELSE g[k]]
<1>6. g[m - 1] \in S /\ step[<<g[m - 1], m>>] \in S
  BY <1>4, <1>5, <1>2 DEF Terms
<1>7. Terms(h, m, S, s0, step)
  <2>1. h \in [0..m -> S] /\ h[0] = s0
    <3>1. ASSUME NEW k \in 0..m PROVE h[k] \in S
      <4>1. k # m => k \in 0..(m - 1)
        BY <1>2
      <4> QED
        BY <4>1, <1>5, <1>6 DEF Terms
    <3>2. 0 \in 0..m /\ h[0] = s0
      BY <1>2, <1>3, <1>5 DEF Terms
    <3> QED
      BY <3>1, <3>2
  <2>2. ASSUME NEW k \in 1..m PROVE h[k] = step[<<h[k - 1], k>>]
    <3>1. k - 1 \in 0..(m - 1) /\ k - 1 # m /\ k \in Nat
      BY <1>2
    <3>2. h[k - 1] = g[k - 1]
      BY <3>1
    <3>3. CASE k = m
      <4>1. h[k] = step[<<g[m - 1], m>>]
        BY <3>3
      <4> QED
        BY <3>2, <3>3, <4>1
    <3>4. CASE k # m
      <4>1. h[k] = g[k] /\ k \in 1..(m - 1)
        BY <1>2, <3>4
      <4>2. g[k] = step[<<g[k - 1], k>>]
        BY <1>5, <4>1 DEF Terms
      <4> QED
        BY <3>2, <4>1, <4>2
    <3> QED
      BY <3>3, <3>4
  <2> QED
    BY <2>1, <2>2 DEF Terms
<1> QED
  BY <1>2, <1>7

Steps(step, S) == step \in [S \X Nat -> S]
Runs(v, S, s0, step) ==
  v \in [Nat -> S] /\ v[0] = s0 /\ \A n \in Nat \ {0} : v[n] = step[<<v[n - 1], n>>]

(* A recursion over the natural numbers has a solution.                     *)
LEMMA Recursion ==
  ASSUME NEW S, NEW s0 \in S, NEW step, Steps(step, S)
  PROVE  \E v : Runs(v, S, s0, step)
<1> DEFINE First(n) == CHOOSE g : Terms(g, n, S, s0, step)
           v == [n \in Nat |-> First(n)[n]]
<1>1. \A n \in Nat : Terms(First(n), n, S, s0, step)
  BY TermsExist DEF Steps
<1> HIDE DEF First
<1>2. v[0] = s0
  BY <1>1 DEF Terms
<1>3. ASSUME NEW n \in Nat \ {0} PROVE v[n] = step[<<v[n - 1], n>>]
  <2>1. n - 1 \in Nat /\ n - 1 \in 0..(n - 1) /\ n - 1 <= n
    OBVIOUS
  <2>2. First(n)[n] = step[<<First(n)[n - 1], n>>]
    BY <1>1 DEF Terms
  <2>3. First(n - 1)[n - 1] = First(n)[n - 1]
    BY <1>1, <2>1, TermsAgree
  <2> QED
    BY <2>1, <2>2, <2>3
<1>4. v \in [Nat -> S]
  BY <1>1 DEF Terms
<1> QED
  BY <1>2, <1>3, <1>4 DEF Runs

(* What holds at 0 and passes from n - 1 to n holds for every n.            *)
LEMMA Persists ==
  ASSUME NEW S, NEW f, f[0] \in S, \A n \in Nat \ {0} : f[n - 1] \in S => f[n] \in S
  PROVE  \A n \in Nat : f[n] \in S
<1> DEFINE Bad == {n \in Nat : f[n] \notin S}
<1>1. SUFFICES ASSUME Bad # {} PROVE FALSE
  OBVIOUS
<1>2. PICK m \in Bad : \A l \in Bad : m <= l
  BY <1>1, LeastNumber
<1>3. m # 0
  BY <1>2
<1>4. m - 1 \in Nat /\ m - 1 \notin Bad
  BY <1>2, <1>3
<1> QED
  BY <1>2, <1>3, <1>4
(* Where a property of the elements of a sequence changes once, there is a  *)
(* place before which they do not have it and behind which they do.         *)
LEMMA PlaceExists ==
  ASSUME NEW n \in Nat, NEW S \in SUBSET (1..n),
         \A i \in S : \A j \in 1..n : i <= j => j \in S
  PROVE  \E m \in 0..n : \A i \in 1..n : i \in S <=> i > m
<1>1. CASE S = {}
  <2>1. n \in 0..n /\ \A i \in 1..n : ~ (i > n)
    OBVIOUS
  <2> QED
    BY <1>1, <2>1
<1>2. CASE S # {}
  <2>1. PICK m \in S : \A k \in S : m <= k
    BY <1>2, LeastNumber
  <2>2. m \in 1..n /\ m - 1 \in 0..n
    OBVIOUS
  <2>3. \A i \in 1..n : i \in S <=> i > m - 1
    BY <2>1, <2>2
  <2> QED
    BY <2>2, <2>3
<1> QED
  BY <1>1, <1>2

-----------------------------------------------------------------------------
(* The circuit breaker of a tool: b is its state, f the failures it          *)
(* remembers, o when it opened, s the failures since the last success, t the *)
(* time.                                                                    *)

(* Failures are recorded in order of time.                                  *)
Ordered(s) == \A i, j \in 1..Len(s) : i <= j => s[i] <= s[j]

(* The failures since the last success that completed a run of MaxFailures  *)
(* within one window.                                                       *)
Trips(s) == {k \in MaxFailures..Len(s) : s[k] - s[k - MaxFailures + 1] <= WindowMs}

(* The breaker remembers all failures since then but the first n, which are *)
(* too old to count.                                                        *)
Forgotten(f, s, t, n) ==
  /\ Len(f) = Len(s) - n
  /\ \A i \in 1..Len(f) : f[i] = s[n + i]
  /\ \A i \in 1..n : s[i] < t - WindowMs
Remembers(f, s, t) == \E n \in 0..Len(s) : Forgotten(f, s, t, n)

(* An open breaker opened with the last failure that tripped it; one that   *)
(* is not open was not tripped, or has cooled down since.                   *)
Opened(b, o, s, t) ==
  /\ b = "open" => \E k \in Trips(s) : o = s[k] /\ \A l \in Trips(s) : s[l] <= o
  /\ b # "open" => \A k \in Trips(s) : t - s[k] >= ResetMs

BreakerIInv ==
  /\ Breaker!TypeOK
  /\ Ordered(streak)
  /\ Remembers(failures, streak, now)
  /\ Opened(breaker, openedAt, streak, now)

(* Nothing is remembered of no failures.                                    *)
LEMMA NoFailures ==
  ASSUME Breaker!BreakerAssumption, NEW t, NEW o
  PROVE  Ordered(<<>>) /\ Remembers(<<>>, <<>>, t) /\ Opened("closed", o, <<>>, t)
<1>1. Len(<<>>) = 0 /\ 0 \in 0..Len(<<>>)
  OBVIOUS
<1>2. Forgotten(<<>>, <<>>, t, 0)
  BY DEF Forgotten
<1>3. Trips(<<>>) = {}
  BY DEF Trips, Breaker!BreakerAssumption
<1> QED
  BY <1>1, <1>2, <1>3 DEF Ordered, Remembers, Opened

(* Time makes failures older, and a breaker may turn half-open in time.     *)
LEMMA TimeGoesOn ==
  ASSUME Breaker!BreakerAssumption, NEW t \in Nat, NEW u \in Nat, t <= u,
         NEW s \in Seq(0..t), NEW f, NEW o \in 0..t, NEW a, NEW b,
         Remembers(f, s, t), Opened(a, o, s, t),
         b = a \/ (b = "half-open" /\ a = "open" /\ u - o >= ResetMs)
  PROVE  Remembers(f, s, u) /\ Opened(b, o, s, u)
<1>1. WindowMs \in Nat /\ ResetMs \in Nat /\ MaxFailures \in Nat \ {0} /\ \A i \in 1..Len(s) : s[i] \in 0..t
  BY DEF Breaker!BreakerAssumption
<1>2. Remembers(f, s, u)
  <2>1. PICK n \in 0..Len(s) : Forgotten(f, s, t, n)
    BY DEF Remembers
  <2>2. \A i \in 1..n : s[i] < u - WindowMs
    <3> SUFFICES ASSUME NEW i \in 1..n PROVE s[i] < u - WindowMs
      OBVIOUS
    <3>1. s[i] \in 0..t /\ s[i] < t - WindowMs
      BY <1>1, <2>1 DEF Forgotten
    <3> QED
      BY <1>1, <3>1
  <2> QED
    BY <2>1, <2>2 DEF Remembers, Forgotten
<1>3. Trips(s) \subseteq 1..Len(s)
  BY <1>1 DEF Trips
<1>4. ASSUME b # "open", NEW k \in Trips(s) PROVE u - s[k] >= ResetMs
  <2>1. s[k] \in 0..t
    BY <1>1, <1>3
  <2>2. CASE a # "open"
    BY <1>1, <2>1, <2>2 DEF Opened
  <2>3. CASE a = "open"
    <3>1. s[k] <= o /\ u - o >= ResetMs
      BY <1>4, <2>3 DEF Opened
    <3> QED
      BY <1>1, <2>1, <3>1
  <2> QED
    BY <2>2, <2>3
<1>5. b = "open" => a = "open"
  OBVIOUS
<1> QED
  BY <1>2, <1>4, <1>5 DEF Opened

(* What is kept of failures in order of time are the last of them.          *)
LEMMA RecentIsSuffix ==
  ASSUME Breaker!BreakerAssumption, NEW s \in Seq(Nat), NEW t \in Nat,
         \A i, j \in 1..Len(s) : i <= j => s[i] <= s[j]
  PROVE  \E n \in 0..Len(s) :
            /\ Breaker!Recent(s, t) = SubSeq(s, n + 1, Len(s))
            /\ \A i \in 1..Len(s) : s[i] >= t - WindowMs <=> i > n
<1> DEFINE IsOld(n) == \A i \in DOMAIN s : s[i] >= t - WindowMs <=> i > n
<1> DEFINE n == CHOOSE m \in 0..Len(s) : IsOld(m)
<1> DEFINE S == {i \in 1..Len(s) : s[i] >= t - WindowMs}
<1>1. Len(s) \in Nat /\ DOMAIN s = 1..Len(s) /\ WindowMs \in Nat /\ \A i \in 1..Len(s) : s[i] \in Nat
  BY DEF Breaker!BreakerAssumption
<1>2. \A i \in S : \A j \in 1..Len(s) : i <= j => j \in S
  BY <1>1
<1>3. S \in SUBSET (1..Len(s))
  OBVIOUS
<1>4. \E m \in 0..Len(s) : \A i \in 1..Len(s) : i \in S <=> i > m
  <2> HIDE DEF S
  <2> QED
    BY <1>1, <1>2, <1>3, PlaceExists
<1>5. \E m \in 0..Len(s) : IsOld(m)
  BY <1>1, <1>4
<1>6. n \in 0..Len(s) /\ IsOld(n)
  <2> HIDE DEF IsOld
  <2> QED
    BY <1>5
<1>7. Breaker!Recent(s, t) = SubSeq(s, n + 1, Len(s))
  BY DEF Breaker!Recent
<1> HIDE DEF n
<1> QED
  BY <1>1, <1>6, <1>7

(* Of the numbers behind n the x-th is n + x, and the next is next.         *)
LEMMA Shifted ==
  ASSUME NEW n \in Nat, NEW x \in Nat, NEW y \in Nat, n + x = y
  PROVE  n + (x + 1) = y + 1
OBVIOUS

(* The last elements of a sequence.                                         *)
LEMMA LastOnes ==
  ASSUME NEW S, NEW f \in Seq(S), NEW k \in 0..Len(f)
  PROVE  /\ SubSeq(f, k + 1, Len(f)) \in Seq(S) /\ Len(SubSeq(f, k + 1, Len(f))) = Len(f) - k
         /\ \A i \in 1..Len(SubSeq(f, k + 1, Len(f))) :
               SubSeq(f, k + 1, Len(f))[i] = f[k + i] /\ k + i \in 1..Len(f)
<1>1. PICK x \in Nat : x = Len(f)
  OBVIOUS
<1>2. PICK l \in Nat : l = k + 1 /\ k \in 0..x
  BY <1>1
<1>3. \A i \in l..x : i \in 1..x
  BY <1>1, <1>2
<1>4. \A i \in l..x : f[i] \in S
  BY <1>1, <1>3
<1>5. SubSeq(f, l, x) \in Seq(S)
  BY <1>1, <1>2, <1>4, SubSeqProperties
<1>6. Len(SubSeq(f, l, x)) = x - k
  BY <1>1, <1>2
<1>7. \A i \in 1..(x - k) : k + i \in 1..x /\ l + i - 1 = k + i
  BY <1>2
<1>8. \A i \in 1..(x - k) : SubSeq(f, l, x)[i] = f[l + i - 1]
  BY <1>1, <1>2
<1> QED
  BY <1>1, <1>2, <1>5, <1>6, <1>7, <1>8

(* Forgetting old failures again leaves out the old ones only.              *)
LEMMA ForgetMore ==
  ASSUME Breaker!BreakerAssumption, NEW t \in Nat, NEW s \in Seq(0..t), NEW f \in Seq(0..t),
         Ordered(s), NEW n \in 0..Len(s),
         Len(f) = Len(s) - n, \A i \in 1..Len(f) : f[i] = s[n + i], \A i \in 1..n : s[i] < t - WindowMs
  PROVE  /\ Breaker!Recent(f, t) \in Seq(0..t)
         /\ \E m \in 0..Len(s) : /\ Forgotten(Breaker!Recent(f, t), s, t, m)
                                 /\ \A i \in 1..Len(s) : s[i] >= t - WindowMs <=> i > m
<1>1. /\ WindowMs \in Nat /\ Len(s) \in Nat /\ Len(f) \in Nat /\ f \in Seq(Nat)
      /\ \A i \in 1..Len(s) : s[i] \in 0..t
      /\ \A i \in 1..Len(f) : n + i \in 1..Len(s)
  BY DEF Breaker!BreakerAssumption
<1>2. \A i, j \in 1..Len(f) : i <= j => f[i] <= f[j]
  <2> SUFFICES ASSUME NEW i \in 1..Len(f), NEW j \in 1..Len(f), i <= j PROVE f[i] <= f[j]
    OBVIOUS
  <2>1. n + i \in 1..Len(s) /\ n + j \in 1..Len(s) /\ n + i <= n + j
    BY <1>1
  <2> QED
    BY <2>1 DEF Ordered
<1>3. PICK k \in 0..Len(f) : /\ Breaker!Recent(f, t) = SubSeq(f, k + 1, Len(f))
                             /\ \A i \in 1..Len(f) : f[i] >= t - WindowMs <=> i > k
  BY <1>1, <1>2, RecentIsSuffix
<1> DEFINE g == SubSeq(f, k + 1, Len(f))
<1>4. g \in Seq(0..t) /\ Len(g) = Len(f) - k /\ \A i \in 1..Len(g) : g[i] = f[k + i] /\ k + i \in 1..Len(f)
  BY <1>1, LastOnes
<1>5. n + k \in 0..Len(s) /\ Len(g) = Len(s) - (n + k)
  BY <1>1, <1>4
<1> HIDE DEF g
<1>6. \A i \in 1..Len(g) : g[i] = s[n + k + i]
  <2> SUFFICES ASSUME NEW i \in 1..Len(g) PROVE g[i] = s[n + k + i]
    OBVIOUS
  <2>1. g[i] = f[k + i] /\ f[k + i] = s[n + (k + i)]
    BY <1>4
  <2>2. n + (k + i) = n + k + i
    BY <1>5
  <2> QED
    BY <2>1, <2>2
<1>7. \A i \in 1..Len(s) : s[i] >= t - WindowMs <=> i > n + k
  <2> SUFFICES ASSUME NEW i \in 1..Len(s) PROVE s[i] >= t - WindowMs <=> i > n + k
    OBVIOUS
  <2>1. CASE i <= n
    BY <1>1, <2>1
  <2>2. CASE i > n
    <3>1. i - n \in 1..Len(f) /\ n + (i - n) = i
      BY <1>1, <2>2
    <3>2. f[i - n] = s[i] /\ (f[i - n] >= t - WindowMs <=> i - n > k)
      BY <1>3, <3>1
    <3> QED
      BY <1>1, <2>2, <3>2
  <2> QED
    BY <1>1, <2>1, <2>2
<1>8. \A i \in 1..(n + k) : s[i] < t - WindowMs
  <2> SUFFICES ASSUME NEW i \in 1..(n + k) PROVE s[i] < t - WindowMs
    OBVIOUS
  <2>1. i \in 1..Len(s) /\ ~ (i > n + k)
    BY <1>1, <1>5
  <2>2. ~ (s[i] >= t - WindowMs) /\ s[i] \in 0..t
    BY <1>1, <1>7, <2>1
  <2> QED
    BY <1>1, <2>2
<1>9. Forgotten(g, s, t, n + k)
  BY <1>5, <1>6, <1>8 DEF Forgotten
<1> QED
  BY <1>3, <1>4, <1>5, <1>7, <1>9 DEF g

(* z are the failures s and one more at time t, g those of f and the new one *)
(* that are still kept.                                                     *)
WithLast(s, t) == Append(s, t)
Kept(f, t) == Breaker!Recent(Append(f, t), t)
Recorded(s, f, t, z, g) ==
  /\ z \in Seq(0..t) /\ g \in Seq(0..t)
  /\ Ordered(z) /\ Remembers(g, z, t)
  /\ Len(z) = Len(s) + 1 /\ z[Len(z)] = t
  /\ \A k \in 1..Len(s) : z[k] = s[k] /\ (k \in Trips(z) <=> k \in Trips(s))
  /\ Len(z) \in Trips(z) <=> Len(g) >= MaxFailures

(* A failure comes last in order, and trips the breaker if and only if      *)
(* MaxFailures are then remembered.                                         *)
LEMMA OneMoreFailure ==
  ASSUME Breaker!BreakerAssumption, NEW t \in Nat, NEW s \in Seq(0..t), NEW f \in Seq(0..t),
         Ordered(s), Remembers(f, s, t)
  PROVE  Recorded(s, f, t, WithLast(s, t), Kept(f, t))
<1>0. PICK z, g : z = WithLast(s, t) /\ g = Kept(f, t)
  OBVIOUS
<1>1. /\ WindowMs \in Nat /\ MaxFailures \in Nat \ {0} /\ Len(s) \in Nat /\ Len(f) \in Nat
      /\ \A i \in 1..Len(s) : s[i] \in 0..t
  BY DEF Breaker!BreakerAssumption
<1>2. z \in Seq(0..t) /\ Len(z) = Len(s) + 1 /\ z[Len(s) + 1] = t /\ \A i \in 1..Len(s) : z[i] = s[i]
  BY <1>0, <1>1 DEF WithLast
<1>3. Ordered(z)
  <2> SUFFICES ASSUME NEW i \in 1..Len(z), NEW j \in 1..Len(z), i <= j PROVE z[i] <= z[j]
    BY DEF Ordered
  <2>1. CASE j = Len(s) + 1
    <3>1. z[i] \in 0..t
      BY <1>2
    <3> QED
      BY <1>2, <2>1, <3>1
  <2>2. CASE j \in 1..Len(s)
    <3>1. i \in 1..Len(s)
      BY <1>1, <2>2
    <3> QED
      BY <1>2, <2>2, <3>1 DEF Ordered
  <2> QED
    BY <1>1, <1>2, <2>1, <2>2
<1>4. \A k \in 1..Len(s) : k \in Trips(z) <=> k \in Trips(s)
  <2> SUFFICES ASSUME NEW k \in 1..Len(s) PROVE k \in Trips(z) <=> k \in Trips(s)
    OBVIOUS
  <2>1. k \in MaxFailures..Len(s) <=> k \in MaxFailures..Len(z)
    BY <1>1, <1>2
  <2>2. ASSUME k \in MaxFailures..Len(s) PROVE z[k] = s[k] /\ z[k - MaxFailures + 1] = s[k - MaxFailures + 1]
    <3>1. k - MaxFailures + 1 \in 1..Len(s)
      BY <1>1, <2>2
    <3> QED
      BY <1>2, <3>1
  <2> QED
    BY <2>1, <2>2 DEF Trips
<1>5. PICK n \in 0..Len(s) : Forgotten(f, s, t, n)
  BY DEF Remembers
<1> DEFINE h == Append(f, t)
<1>6. h \in Seq(0..t) /\ Len(h) = Len(f) + 1 /\ h[Len(f) + 1] = t /\ \A i \in 1..Len(f) : h[i] = f[i]
  BY <1>1
<1> HIDE DEF h
<1>7. Len(h) = Len(z) - n /\ n \in 0..Len(z) /\ n + Len(f) = Len(s) /\ n \in Nat
  BY <1>1, <1>2, <1>5, <1>6 DEF Forgotten
<1>8. \A i \in 1..Len(h) : h[i] = z[n + i]
  <2> SUFFICES ASSUME NEW i \in 1..Len(h) PROVE h[i] = z[n + i]
    OBVIOUS
  <2>1. CASE i = Len(f) + 1
    <3>1. n + i = Len(s) + 1
      <4>1. \A x, y \in Nat : n + x = y => n + (x + 1) = y + 1
        BY <1>7, Shifted
      <4> QED
        BY <1>1, <1>7, <2>1, <4>1, Zenon
    <3> QED
      BY <1>2, <1>6, <2>1, <3>1
  <2>2. CASE i # Len(f) + 1
    <3>0. i \in 1..Len(f)
      BY <1>1, <1>6, <2>2
    <3>1. n + i \in 1..Len(s)
      BY <1>1, <1>7, <3>0
    <3>2. f[i] = s[n + i]
      BY <1>5, <3>0 DEF Forgotten
    <3> QED
      BY <1>2, <1>6, <3>0, <3>1, <3>2
  <2> QED
    BY <2>1, <2>2
<1>9. \A i \in 1..n : z[i] < t - WindowMs
  <2> SUFFICES ASSUME NEW i \in 1..n PROVE z[i] < t - WindowMs
    OBVIOUS
  <2>1. i \in 1..Len(s) /\ s[i] < t - WindowMs
    BY <1>1, <1>5 DEF Forgotten
  <2> QED
    BY <1>2, <2>1
<1>10. PICK m \in 0..Len(z) : /\ g \in Seq(0..t) /\ Forgotten(g, z, t, m)
                              /\ \A i \in 1..Len(z) : z[i] >= t - WindowMs <=> i > m
  <2>1. g = Breaker!Recent(h, t)
    BY <1>0 DEF h, Kept
  <2> QED
    BY <1>2, <1>3, <1>6, <1>7, <1>8, <1>9, <2>1, ForgetMore
<1>11. Len(z) \in Trips(z) <=> Len(g) >= MaxFailures
  <2>0. PICK x \in Nat \ {0} : x = Len(z)
    BY <1>1, <1>2
  <2>1. Len(g) = x - m /\ z[x] = t
    BY <1>2, <1>10, <2>0 DEF Forgotten
  <2>2. CASE x < MaxFailures
    <3>1. Len(z) \notin Trips(z)
      BY <1>1, <2>0, <2>2 DEF Trips
    <3>2. x - m < MaxFailures
      BY <1>1, <2>0, <2>2
    <3> QED
      BY <1>1, <2>1, <3>1, <3>2
  <2>3. CASE x >= MaxFailures
    <3>1. PICK i \in 1..x : i = x - MaxFailures + 1
      BY <1>1, <2>3
    <3>2. z[i] \in 0..t /\ i \in 1..Len(z)
      BY <1>2, <2>0, <3>1
    <3>3. x \in MaxFailures..x
      BY <1>1, <2>3
    <3>4. x \in Trips(z) <=> t - z[i] <= WindowMs
      BY <2>0, <2>1, <3>1, <3>3 DEF Trips
    <3>5. t - z[i] <= WindowMs <=> z[i] >= t - WindowMs
      BY <1>1, <3>2
    <3>6. i > m <=> x - m >= MaxFailures
      BY <1>1, <2>0, <3>1
    <3> QED
      BY <1>10, <2>0, <2>1, <3>2, <3>4, <3>5, <3>6
  <2> QED
    BY <1>1, <2>2, <2>3
<1>12. Recorded(s, f, t, z, g)
  BY <1>2, <1>3, <1>4, <1>10, <1>11 DEF Remembers, Recorded
<1> QED
  BY <1>0, <1>12

(* The breaker opens now if the failure trips it, and stays as it is if not. *)
LEMMA OpensOrStays ==
  ASSUME Breaker!BreakerAssumption, NEW t \in Nat, NEW s \in Seq(0..t), NEW z \in Seq(0..t),
         Len(z) = Len(s) + 1, z[Len(z)] = t,
         \A k \in 1..Len(s) : z[k] = s[k] /\ (k \in Trips(z) <=> k \in Trips(s)),
         NEW b, NEW o, Opened(b, o, s, t)
  PROVE  IF Len(z) \in Trips(z) THEN Opened("open", t, z, t) ELSE Opened(b, o, z, t)
<1>1. MaxFailures \in Nat \ {0} /\ Len(s) \in Nat /\ \A k \in 1..Len(z) : z[k] \in 0..t
  BY DEF Breaker!BreakerAssumption
<1>2. Trips(z) \subseteq 1..Len(z) /\ Trips(s) \subseteq 1..Len(s)
  BY <1>1 DEF Trips
<1>3. CASE Len(z) \in Trips(z)
  <2>1. \A l \in Trips(z) : z[l] <= t
    BY <1>1, <1>2
  <2> QED
    BY <1>3, <2>1 DEF Opened
<1>4. CASE Len(z) \notin Trips(z)
  <2>1. \A k \in 1..Len(z) : k = Len(z) \/ k \in 1..Len(s)
    BY <1>1
  <2>2. Trips(z) = Trips(s)
    BY <1>1, <1>2, <1>4, <2>1
  <2>3. \A k \in Trips(s) : z[k] = s[k]
    BY <1>2
  <2> QED
    BY <1>4, <2>2, <2>3 DEF Opened
<1> QED
  BY <1>3, <1>4

(* No call was made yet.                                                    *)
LEMMA BreakerInit == ASSUME Breaker!BreakerAssumption, Breaker!Init PROVE BreakerIInv
<1>1. Breaker!TypeOK /\ failures = <<>> /\ streak = <<>> /\ breaker = "closed"
  BY DEF Breaker!BreakerAssumption, Breaker!Init, Breaker!TypeOK, Breaker!States
<1> QED
  BY <1>1, NoFailures DEF BreakerIInv

(* A breaker that forgets everything is as new.                             *)
LEMMA ClearedInv ==
  ASSUME Breaker!BreakerAssumption, BreakerIInv,
         failures' = <<>>, streak' = <<>>, breaker' = "closed", now' = now, openedAt' \in 0..now,
         toolCall' \in [ToolCalls -> 0..now \cup {Idle}]
  PROVE  BreakerIInv'
<1>1. Breaker!TypeOK'
  BY DEF BreakerIInv, Breaker!TypeOK, Breaker!States
<1> QED
  BY <1>1, NoFailures DEF BreakerIInv

(* A step that leaves the failures alone, while time may pass.              *)
LEMMA TimeInv ==
  ASSUME Breaker!BreakerAssumption, BreakerIInv,
         UNCHANGED <<failures, streak, openedAt>>, NEW u \in Nat, u = now', now <= u,
         breaker' = breaker \/ (breaker' = "half-open" /\ breaker = "open" /\ u - openedAt >= ResetMs),
         toolCall' \in [ToolCalls -> 0..u \cup {Idle}]
  PROVE  BreakerIInv'
<1>1. /\ now \in Nat /\ streak \in Seq(0..now) /\ failures \in Seq(0..now) /\ openedAt \in 0..now
      /\ Remembers(failures, streak, now) /\ Opened(breaker, openedAt, streak, now) /\ Ordered(streak)
  BY DEF BreakerIInv, Breaker!TypeOK
<1>2. PICK b : b = breaker'
  OBVIOUS
<1>3. Remembers(failures, streak, u) /\ Opened(b, openedAt, streak, u)
  BY <1>1, <1>2, TimeGoesOn
<1>4. 0..now \subseteq 0..u
  BY <1>1
<1>5. streak \in Seq(0..u) /\ failures \in Seq(0..u)
  <2> DEFINE A == 0..now
             B == 0..u
  <2>1. A \subseteq B /\ streak \in Seq(A) /\ failures \in Seq(A)
    BY <1>1, <1>4
  <2> HIDE DEF A, B
  <2>2. streak \in Seq(B) /\ failures \in Seq(B)
    BY <2>1
  <2> QED
    BY <2>2 DEF B
<1>6. Breaker!TypeOK'
  BY <1>1, <1>4, <1>5 DEF BreakerIInv, Breaker!TypeOK, Breaker!States
<1> QED
  BY <1>1, <1>2, <1>3, <1>6 DEF BreakerIInv

(* A call is let in or turned away, and the breaker may turn half-open.     *)
LEMMA AskedInv ==
  ASSUME Breaker!BreakerAssumption, BreakerIInv,
         breaker' = Breaker!HalfOpened, UNCHANGED <<now, failures, openedAt, streak>>,
         toolCall' \in [ToolCalls -> 0..now \cup {Idle}]
  PROVE  BreakerIInv'
<1>1. breaker' = breaker \/ (breaker' = "half-open" /\ breaker = "open" /\ now - openedAt >= ResetMs)
  BY DEF Breaker!HalfOpened
<1>2. now \in Nat /\ now = now' /\ now <= now
  BY DEF BreakerIInv, Breaker!TypeOK
<1> QED
  BY <1>1, <1>2, TimeInv

(* A failure is recorded.                                                   *)
LEMMA FailureInv ==
  ASSUME Breaker!BreakerAssumption, BreakerIInv, NEW c \in ToolCalls, Breaker!RecordFailure(c)
  PROVE  BreakerIInv'
<1>1. /\ now \in Nat /\ streak \in Seq(0..now) /\ failures \in Seq(0..now) /\ openedAt \in 0..now
      /\ Remembers(failures, streak, now) /\ Opened(breaker, openedAt, streak, now) /\ Ordered(streak)
  BY DEF BreakerIInv, Breaker!TypeOK
<1>2. PICK z, g : z = WithLast(streak, now) /\ g = Kept(failures, now)
  OBVIOUS
<1>3. Recorded(streak, failures, now, z, g)
  BY <1>1, <1>2, OneMoreFailure
<1>4. /\ z \in Seq(0..now) /\ g \in Seq(0..now) /\ Ordered(z) /\ Remembers(g, z, now)
      /\ Len(z) = Len(streak) + 1 /\ z[Len(z)] = now
      /\ \A k \in 1..Len(streak) : z[k] = streak[k] /\ (k \in Trips(z) <=> k \in Trips(streak))
      /\ Len(z) \in Trips(z) <=> Len(g) >= MaxFailures
  BY <1>3 DEF Recorded
<1>5. IF Len(g) >= MaxFailures THEN Opened("open", now, z, now) ELSE Opened(breaker, openedAt, z, now)
  BY <1>1, <1>4, OpensOrStays
<1>6. /\ now' = now /\ streak' = z /\ failures' = g
      /\ toolCall' = [toolCall EXCEPT ![c] = Idle]
      /\ IF Len(g) >= MaxFailures THEN breaker' = "open" /\ openedAt' = now
         ELSE breaker' = breaker /\ openedAt' = openedAt
  BY <1>2 DEF Breaker!RecordFailure, WithLast, Kept
<1>7. openedAt' \in 0..now /\ breaker' \in Breaker!States
  <2>1. now \in 0..now /\ "open" \in Breaker!States /\ breaker \in Breaker!States
    BY <1>1 DEF BreakerIInv, Breaker!TypeOK, Breaker!States
  <2> QED
    BY <1>1, <1>6, <2>1
<1>8. Breaker!TypeOK'
  BY <1>1, <1>4, <1>6, <1>7 DEF BreakerIInv, Breaker!TypeOK
<1>9. Opened(breaker', openedAt', z, now)
  BY <1>5, <1>6
<1> QED
  BY <1>4, <1>6, <1>8, <1>9 DEF BreakerIInv

(* Counting the failures forgets more of the old ones.                      *)
LEMMA CountedInv ==
  ASSUME Breaker!BreakerAssumption, BreakerIInv, Breaker!GetFailureCount PROVE BreakerIInv'
<1>1. /\ now \in Nat /\ streak \in Seq(0..now) /\ failures \in Seq(0..now) /\ Ordered(streak)
  BY DEF BreakerIInv, Breaker!TypeOK
<1>2. PICK n \in 0..Len(streak) : Forgotten(failures, streak, now, n)
  BY DEF BreakerIInv, Remembers
<1>3. PICK g : g = Breaker!Recent(failures, now)
  OBVIOUS
<1>4. g \in Seq(0..now) /\ Remembers(g, streak, now)
  BY <1>1, <1>2, <1>3, ForgetMore DEF Forgotten, Remembers
<1>5. failures' = g /\ UNCHANGED <<now, breaker, openedAt, toolCall, streak>>
  BY <1>3 DEF Breaker!GetFailureCount
<1>6. Breaker!TypeOK'
  BY <1>4, <1>5 DEF BreakerIInv, Breaker!TypeOK
<1> QED
  BY <1>4, <1>5, <1>6 DEF BreakerIInv

(* Every step of the breaker keeps it.                                      *)
LEMMA BreakerNext == ASSUME Breaker!BreakerAssumption, BreakerIInv, Breaker!Next PROVE BreakerIInv'
<1>0. /\ now \in Nat /\ openedAt \in 0..now /\ 0 \in 0..now /\ now \in 0..now
      /\ toolCall \in [ToolCalls -> 0..now \cup {Idle}]
  BY DEF BreakerIInv, Breaker!TypeOK
<1>1. ASSUME NEW c \in ToolCalls, Breaker!CallTool(c) PROVE BreakerIInv'
  BY <1>0, <1>1, AskedInv DEF Breaker!CallTool
<1>2. ASSUME NEW c \in ToolCalls, Breaker!RecordSuccess(c) PROVE BreakerIInv'
  BY <1>0, <1>2, ClearedInv DEF Breaker!RecordSuccess
<1>3. CASE Breaker!Reset
  BY <1>0, <1>3, ClearedInv DEF Breaker!Reset
<1>4. CASE Breaker!GetState
  BY <1>0, <1>4, AskedInv DEF Breaker!GetState
<1>5. CASE Breaker!Tick
  <2>1. PICK u \in Nat : u = now + 1
    BY <1>0
  <2>2. now <= u /\ 0..now \subseteq 0..u
    BY <1>0, <2>1
  <2>3. u = now' /\ UNCHANGED <<failures, streak, openedAt>> /\ breaker' = breaker /\ toolCall' = toolCall
    BY <1>5, <2>1 DEF Breaker!Tick
  <2>4. toolCall' \in [ToolCalls -> 0..u \cup {Idle}]
    BY <1>0, <2>2, <2>3
  <2> QED
    BY <2>2, <2>3, <2>4, TimeInv
<1>6. CASE Breaker!GetFailureCount
  BY <1>6, CountedInv
<1> QED
  BY <1>1, <1>2, <1>3, <1>4, <1>5, <1>6, FailureInv DEF Breaker!Next

(* Tripped and not cooled down is what an open breaker is.                  *)
LEMMA BreakerSuffices == ASSUME Breaker!BreakerAssumption, BreakerIInv PROVE Breaker!RejectsExactly
<1>1. /\ now \in Nat /\ openedAt \in 0..now /\ ResetMs \in Nat /\ MaxFailures \in Nat \ {0}
      /\ \A k \in 1..Len(streak) : streak[k] \in 0..now
  BY DEF BreakerIInv, Breaker!TypeOK, Breaker!BreakerAssumption
<1>2. Trips(streak) \subseteq 1..Len(streak)
  BY <1>1 DEF Trips
<1>3. Breaker!Tripped <=> \E k \in Trips(streak) : now - streak[k] < ResetMs
  BY DEF Breaker!Tripped, Trips
<1>4. Breaker!HalfOpened = "open" <=> breaker = "open" /\ now - openedAt < ResetMs
  BY <1>1 DEF Breaker!HalfOpened
<1>5. CASE breaker = "open"
  <2>1. PICK k \in Trips(streak) : openedAt = streak[k] /\ \A l \in Trips(streak) : streak[l] <= openedAt
    BY <1>5 DEF BreakerIInv, Opened
  <2>2. ASSUME NEW l \in Trips(streak), now - streak[l] < ResetMs PROVE now - openedAt < ResetMs
    <3>1. streak[l] \in 0..now /\ streak[l] <= openedAt
      BY <1>1, <1>2, <2>1
    <3> QED
      BY <1>1, <2>2, <3>1
  <2> QED
    BY <1>3, <1>4, <1>5, <2>1, <2>2 DEF Breaker!RejectsExactly
<1>6. CASE breaker # "open"
  <2>1. \A k \in Trips(streak) : ~ (now - streak[k] < ResetMs)
    <3> SUFFICES ASSUME NEW k \in Trips(streak) PROVE ~ (now - streak[k] < ResetMs)
      OBVIOUS
    <3>1. now - streak[k] >= ResetMs /\ streak[k] \in 0..now
      BY <1>1, <1>2, <1>6 DEF BreakerIInv, Opened
    <3> QED
      BY <1>1, <3>1
  <2> QED
    BY <1>3, <1>4, <1>6, <2>1 DEF Breaker!RejectsExactly
<1> QED
  BY <1>5, <1>6

-----------------------------------------------------------------------------
(* The guards of an agent's actions.                                        *)

(* g is the breaker's entry, r the failures in a row, c the clock.          *)
GuardRight(g, r, c) ==
  /\ g.failures = r.number
  /\ r.number >= MaxFailures => g.state # "closed" /\ g.openedAt = r.last
  /\ r.number < MaxFailures => g.state = "closed"
  /\ g.state = "half-open" => c - g.openedAt > ResetMs

(* How many of the actions in a came at one of the times A.                 *)
Number(a, A) == Cardinality({i \in DOMAIN a : a[i] \in A})

(* What is known of the actions a when the window is w and the clock c.  The *)
(* window was opened by an action, its count is that of the actions in it,  *)
(* and those that came before it and less than an hour before a time in it  *)
(* were fewer than the limit.                                               *)
RateRight(a, w, c) ==
  /\ \A i \in DOMAIN a : a[i] <= c /\ a[i] <= w.start + Hour
  /\ w.start <= c
  /\ w.count = Number(a, w.start..c) /\ w.count <= MaxActions
  /\ IF w.count = 0 THEN a = <<>> ELSE \E i \in DOMAIN a : a[i] = w.start
  /\ \A t \in Nat : t + Hour >= w.start => Number(a, t..(w.start - 1)) < MaxActions
  /\ \A t \in Nat : Number(a, t..(t + Hour)) < 2 * MaxActions

GuardIInv == /\ Guards!TypeOK
             /\ GuardRight(guard, inARow, clock)
             /\ RateRight(acted, window, clock)

(* The actions at some times are finitely many.                             *)
LEMMA NumberType ==
  ASSUME NEW a \in Seq(Nat), NEW A
  PROVE  IsFiniteSet({i \in DOMAIN a : a[i] \in A}) /\ Number(a, A) \in Nat
<1>1. IsFiniteSet(1..Len(a)) /\ {i \in DOMAIN a : a[i] \in A} \subseteq 1..Len(a)
  BY FS_Interval
<1>2. IsFiniteSet({i \in DOMAIN a : a[i] \in A})
  BY <1>1, FS_Subset
<1> QED
  BY <1>2, FS_CardinalityType DEF Number

(* Fewer times, no more actions; fewer actions if one falls in between.     *)
LEMMA NumberGrows ==
  ASSUME NEW a \in Seq(Nat), NEW A, NEW B, \A i \in DOMAIN a : a[i] \in A => a[i] \in B
  PROVE  /\ Number(a, A) <= Number(a, B)
         /\ (\E i \in DOMAIN a : a[i] \in B /\ a[i] \notin A) => Number(a, A) < Number(a, B)
<1> DEFINE X == {i \in DOMAIN a : a[i] \in A}
           Y == {i \in DOMAIN a : a[i] \in B}
<1>1. X \subseteq Y /\ IsFiniteSet(Y)
  BY NumberType
<1>2. (\E i \in DOMAIN a : a[i] \in B /\ a[i] \notin A) => X # Y
  OBVIOUS
<1>3. Number(a, A) = Cardinality(X) /\ Number(a, B) = Cardinality(Y)
  BY DEF Number
<1> HIDE DEF X, Y
<1>4. IsFiniteSet(X) /\ Cardinality(X) <= Cardinality(Y) /\ (Cardinality(Y) = Cardinality(X) => Y = X)
  BY <1>1, FS_Subset
<1>5. Cardinality(X) \in Nat /\ Cardinality(Y) \in Nat
  BY <1>1, <1>4, FS_CardinalityType
<1>6. X # Y => Cardinality(X) < Cardinality(Y)
  BY <1>4, <1>5
<1> QED
  BY <1>2, <1>3, <1>4, <1>6

(* The actions of two spans are no more than those of the one and the other. *)
LEMMA NumberAdds ==
  ASSUME NEW a \in Seq(Nat), NEW A, NEW B, NEW D,
         \A i \in DOMAIN a : a[i] \in A => a[i] \in B \/ a[i] \in D
  PROVE  Number(a, A) <= Number(a, B) + Number(a, D)
<1> DEFINE X == {i \in DOMAIN a : a[i] \in B}
           Y == {i \in DOMAIN a : a[i] \in D}
           Z == {i \in DOMAIN a : a[i] \in A}
<1>1. Z \subseteq X \cup Y /\ IsFiniteSet(X) /\ IsFiniteSet(Y)
  BY NumberType
<1>2. Number(a, A) = Cardinality(Z) /\ Number(a, B) = Cardinality(X) /\ Number(a, D) = Cardinality(Y)
  BY DEF Number
<1> HIDE DEF X, Y, Z
<1>3. IsFiniteSet(X \cup Y) /\ Cardinality(X \cup Y) = Cardinality(X) + Cardinality(Y) - Cardinality(X \cap Y)
  BY <1>1, FS_Union
<1>4. Cardinality(Z) <= Cardinality(X \cup Y)
  BY <1>1, <1>3, FS_Subset
<1>5. IsFiniteSet(X \cap Y) /\ X \cap Y \subseteq X
  BY <1>1, FS_Intersection
<1>6. /\ Cardinality(X \cap Y) \in Nat /\ Cardinality(X) \in Nat /\ Cardinality(Y) \in Nat
      /\ Cardinality(Z) \in Nat
  BY <1>1, <1>3, <1>5, FS_CardinalityType, FS_Subset
<1>7. \A x, y, z, n \in Nat : z <= x + y - n => z <= x + y
  OBVIOUS
<1> QED
  BY <1>2, <1>3, <1>4, <1>6, <1>7

(* One more action counts where it belongs.                                 *)
LEMMA NumberOfOneMore ==
  ASSUME NEW a \in Seq(Nat), NEW c \in Nat, NEW A
  PROVE  /\ c \in A => Number(Append(a, c), A) = Number(a, A) + 1
         /\ c \notin A => Number(Append(a, c), A) = Number(a, A)
<1> DEFINE b == Append(a, c)
           X == {i \in DOMAIN a : a[i] \in A}
           Y == {i \in DOMAIN b : b[i] \in A}
           l == Len(a) + 1
<1>1. /\ DOMAIN b = (DOMAIN a) \cup {l} /\ b[l] = c /\ \A i \in DOMAIN a : b[i] = a[i]
      /\ l \notin DOMAIN a
  OBVIOUS
<1> HIDE DEF b, l
<1>2. IF c \in A THEN Y = X \cup {l} ELSE Y = X
  BY <1>1
<1>3. IsFiniteSet(X) /\ l \notin X
  BY <1>1, NumberType
<1>4. Number(a, A) = Cardinality(X) /\ Number(b, A) = Cardinality(Y)
  BY DEF Number
<1> HIDE DEF X, Y
<1>5. Cardinality(X \cup {l}) = Cardinality(X) + 1
  BY <1>3, FS_AddElement
<1> QED
  BY <1>2, <1>4, <1>5 DEF b

(* No action, no number.                                                    *)
LEMMA NumberOfNone == \A A : Number(<<>>, A) = 0
<1>1. \A A : {i \in DOMAIN <<>> : <<>>[i] \in A} = {}
  OBVIOUS
<1> QED
  BY <1>1, FS_EmptySet DEF Number

(* The limit's windows.                                                     *)
Windows == [count : Nat, start : Nat]

(* An action is allowed that opens a window.                                *)
LEMMA WindowOpens ==
  ASSUME Guards!GuardsAssumption, NEW a \in Seq(Nat), NEW w \in Windows, NEW c \in Nat,
         RateRight(a, w, c), w.count = 0 \/ c - w.start > Hour
  PROVE  RateRight(Append(a, c), [count |-> 1, start |-> c], c)
<1>1. MaxActions \in Nat \ {0} /\ Hour \in Nat /\ w.start \in Nat /\ w.count \in Nat
  BY DEF Guards!GuardsAssumption, Windows
<1> DEFINE b == Append(a, c)
<1>2. /\ b \in Seq(Nat) /\ DOMAIN b = (DOMAIN a) \cup {Len(b)} /\ b[Len(b)] = c
      /\ \A i \in DOMAIN a : b[i] = a[i] /\ a[i] \in Nat
  OBVIOUS
<1>3. \A i \in DOMAIN a : a[i] < c
  <2> SUFFICES ASSUME NEW i \in DOMAIN a PROVE a[i] < c
    OBVIOUS
  <2>1. a # <<>>
    OBVIOUS
  <2>2. c - w.start > Hour /\ a[i] <= w.start + Hour /\ a[i] \in Nat
    BY <1>2, <2>1 DEF RateRight
  <2> QED
    BY <1>1, <2>2
<1>4. \A A : Number(a, A) \in Nat /\ (c \in A => Number(b, A) = Number(a, A) + 1) /\ (c \notin A => Number(b, A) = Number(a, A))
  BY NumberType, NumberOfOneMore
<1> HIDE DEF b
<1>5. Number(b, c..c) = 1
  <2>1. \A i \in DOMAIN a : ~ (a[i] \in c..c)
    BY <1>2, <1>3
  <2>2. {i \in DOMAIN a : a[i] \in c..c} = {}
    BY <2>1
  <2>3. Number(a, c..c) = 0
    BY <2>2, FS_EmptySet DEF Number
  <2>4. c \in c..c
    OBVIOUS
  <2> QED
    BY <1>4, <2>3, <2>4
<1>6. \A i \in DOMAIN b : b[i] <= c /\ b[i] <= c + Hour
  <2> SUFFICES ASSUME NEW i \in DOMAIN b PROVE b[i] <= c /\ b[i] <= c + Hour
    OBVIOUS
  <2>1. b[i] = c \/ (b[i] \in Nat /\ b[i] < c)
    BY <1>2, <1>3
  <2> QED
    BY <1>1, <2>1
<1>7. ASSUME NEW t \in Nat, t + Hour >= c PROVE Number(a, t..(c - 1)) < MaxActions
  <2>1. CASE w.count = 0
    <3>1. a = <<>>
      BY <2>1 DEF RateRight
    <3> QED
      BY <1>1, <3>1, NumberOfNone
  <2>2. CASE w.count # 0
    <3>1. PICK j \in DOMAIN a : a[j] = w.start
      BY <2>2 DEF RateRight
    <3>2. w.start < t /\ w.start <= c
      BY <1>1, <1>7, <2>2
    <3>3. \A i \in DOMAIN a : a[i] \in t..(c - 1) => a[i] \in w.start..c
      <4> SUFFICES ASSUME NEW i \in DOMAIN a, a[i] \in t..(c - 1) PROVE a[i] \in w.start..c
        OBVIOUS
      <4> QED
        BY <1>1, <3>2
    <3>4. a[j] \in w.start..c /\ a[j] \notin t..(c - 1)
      BY <1>1, <3>1, <3>2
    <3>5. Number(a, t..(c - 1)) < Number(a, w.start..c)
      BY <3>3, <3>4, NumberGrows
    <3>6. Number(a, w.start..c) <= MaxActions
      BY DEF RateRight
    <3>7. Number(a, t..(c - 1)) \in Nat /\ Number(a, w.start..c) \in Nat
      BY <1>4
    <3> QED
      BY <1>1, <3>5, <3>6, <3>7
  <2> QED
    BY <2>1, <2>2
<1>8. ASSUME NEW t \in Nat, t + Hour >= c PROVE Number(b, t..(c - 1)) < MaxActions
  <2>1. c \notin t..(c - 1)
    OBVIOUS
  <2> QED
    BY <1>4, <1>7, <1>8, <2>1
<1>9. ASSUME NEW t \in Nat PROVE Number(b, t..(t + Hour)) < 2 * MaxActions
  <2>1. CASE c \notin t..(t + Hour)
    BY <1>4, <2>1 DEF RateRight
  <2>2. CASE c \in t..(t + Hour)
    <3>1. Number(a, t..(c - 1)) < MaxActions
      BY <1>1, <1>7, <2>2
    <3>2. \A i \in DOMAIN a : a[i] \in t..(t + Hour) => a[i] \in t..(c - 1)
      <4> SUFFICES ASSUME NEW i \in DOMAIN a, a[i] \in t..(t + Hour) PROVE a[i] \in t..(c - 1)
        OBVIOUS
      <4>1. a[i] < c /\ a[i] \in Nat
        BY <1>2, <1>3
      <4> QED
        BY <4>1
    <3>3. Number(a, t..(t + Hour)) <= Number(a, t..(c - 1))
      BY <3>2, NumberGrows
    <3>4. Number(b, t..(t + Hour)) = Number(a, t..(t + Hour)) + 1
      BY <1>4, <2>2
    <3>5. \A x, y, m \in Nat : x <= y /\ y < m /\ m # 0 => x + 1 < 2 * m
      OBVIOUS
    <3> QED
      BY <1>1, <1>4, <3>1, <3>3, <3>4, <3>5
  <2> QED
    BY <2>1, <2>2
<1>10. \E i \in DOMAIN b : b[i] = c
  BY <1>2
<1>11. 1 <= MaxActions /\ c <= c
  BY <1>1
<1>12. RateRight(b, [count |-> 1, start |-> c], c)
  BY <1>5, <1>6, <1>8, <1>9, <1>10, <1>11 DEF RateRight
<1> QED
  BY <1>12 DEF b

(* An action is allowed within the window.                                  *)
LEMMA WindowFills ==
  ASSUME Guards!GuardsAssumption, NEW a \in Seq(Nat), NEW w \in Windows, NEW c \in Nat,
         RateRight(a, w, c), w.count # 0, c - w.start <= Hour, w.count < MaxActions
  PROVE  RateRight(Append(a, c), [count |-> w.count + 1, start |-> w.start], c)
<1>1. MaxActions \in Nat \ {0} /\ Hour \in Nat /\ w.start \in Nat /\ w.count \in Nat
  BY DEF Guards!GuardsAssumption, Windows
<1> DEFINE b == Append(a, c)
           n == w.count + 1
<1>2. /\ b \in Seq(Nat) /\ DOMAIN b = (DOMAIN a) \cup {Len(b)} /\ b[Len(b)] = c
      /\ \A i \in DOMAIN a : b[i] = a[i] /\ a[i] \in Nat
  OBVIOUS
<1>3. \A A : /\ Number(a, A) \in Nat /\ Number(b, A) \in Nat
             /\ c \in A => Number(b, A) = Number(a, A) + 1
             /\ c \notin A => Number(b, A) = Number(a, A)
  BY <1>2, NumberType, NumberOfOneMore
<1> HIDE DEF b
<1>4. w.start <= c /\ c <= w.start + Hour /\ w.count = Number(a, w.start..c)
  <2>1. w.start <= c /\ w.count = Number(a, w.start..c)
    BY DEF RateRight
  <2>2. c <= w.start + Hour
    BY <1>1
  <2> QED
    BY <2>1, <2>2
<1>5. n = Number(b, w.start..c) /\ n <= MaxActions /\ n # 0 /\ n \in Nat
  <2>1. c \in w.start..c
    BY <1>1, <1>4
  <2> QED
    BY <1>1, <1>3, <1>4, <2>1
<1> HIDE DEF n
<1>6. \A i \in DOMAIN b : b[i] <= c /\ b[i] <= w.start + Hour
  <2> SUFFICES ASSUME NEW i \in DOMAIN b PROVE b[i] <= c /\ b[i] <= w.start + Hour
    OBVIOUS
  <2>1. CASE i \in DOMAIN a
    BY <1>2, <2>1 DEF RateRight
  <2>2. CASE b[i] = c
    BY <1>1, <1>4, <2>2
  <2> QED
    BY <1>2, <2>1, <2>2
<1>7. ASSUME NEW t \in Nat, t + Hour >= w.start PROVE Number(b, t..(w.start - 1)) < MaxActions
  <2>1. c \notin t..(w.start - 1)
    BY <1>1, <1>4
  <2>2. Number(a, t..(w.start - 1)) < MaxActions
    BY <1>7 DEF RateRight
  <2> QED
    BY <1>3, <2>1, <2>2
<1>8. ASSUME NEW t \in Nat PROVE Number(b, t..(t + Hour)) < 2 * MaxActions
  <2>1. CASE c \notin t..(t + Hour)
    BY <1>3, <2>1 DEF RateRight
  <2>2. CASE c \in t..(t + Hour)
    <3>1. t + Hour >= w.start
      BY <1>1, <1>4, <2>2
    <3>2. \A i \in DOMAIN b : b[i] \in t..(t + Hour) => b[i] \in t..(w.start - 1) \/ b[i] \in w.start..c
      <4> SUFFICES ASSUME NEW i \in DOMAIN b, b[i] \in t..(t + Hour)
                   PROVE  b[i] \in t..(w.start - 1) \/ b[i] \in w.start..c
        OBVIOUS
      <4>1. b[i] <= c
        BY <1>6
      <4> QED
        BY <1>1, <4>1
    <3>3. Number(b, t..(t + Hour)) <= Number(b, t..(w.start - 1)) + Number(b, w.start..c)
      BY <1>2, <3>2, NumberAdds
    <3>4. \A x, y, z, m \in Nat : x <= y + z /\ y < m /\ z <= m => x < 2 * m
      OBVIOUS
    <3> QED
      BY <1>1, <1>3, <1>5, <1>7, <3>1, <3>3, <3>4
  <2> QED
    BY <2>1, <2>2
<1>9. \E i \in DOMAIN b : b[i] = w.start
  <2>1. PICK i \in DOMAIN a : a[i] = w.start
    BY DEF RateRight
  <2> QED
    BY <1>2, <2>1
<1>10. RateRight(b, [count |-> n, start |-> w.start], c)
  BY <1>4, <1>5, <1>6, <1>7, <1>8, <1>9 DEF RateRight
<1> QED
  BY <1>10 DEF b, n

(* Time passes.                                                             *)
LEMMA WindowAges ==
  ASSUME Guards!GuardsAssumption, NEW a \in Seq(Nat), NEW w \in Windows, NEW c \in Nat, NEW d \in Nat, c <= d,
         RateRight(a, w, c)
  PROVE  RateRight(a, w, d)
<1>1. w.start \in Nat /\ w.start <= c /\ \A i \in DOMAIN a : a[i] \in Nat /\ a[i] <= c
  BY DEF Windows, RateRight
<1>2. w.start <= d /\ \A i \in DOMAIN a : a[i] <= d /\ (a[i] \in w.start..c <=> a[i] \in w.start..d)
  BY <1>1
<1>3. {i \in DOMAIN a : a[i] \in w.start..c} = {i \in DOMAIN a : a[i] \in w.start..d}
  BY <1>2
<1>4. Number(a, w.start..c) = Number(a, w.start..d)
  BY <1>3 DEF Number
<1> QED
  BY <1>2, <1>4 DEF RateRight

(* The guards' Cardinality is that of FiniteSets.                           *)
LEMMA SameNumber == \A from, to : Guards!Between(from, to) = Number(acted, from..to)
<1>1. \A S : Guards!Cardinality(S) = Cardinality(S)
  BY ZenonT(60) DEF Guards!Cardinality, Cardinality
<1> QED
  BY <1>1 DEF Guards!Between, Number

(* No action was taken yet.                                                 *)
LEMMA GuardInit == ASSUME Guards!GuardsAssumption, Guards!Init PROVE GuardIInv
<1>1. MaxActions \in Nat \ {0} /\ Hour \in Nat /\ MaxFailures \in Nat \ {0} /\ MaxNow \in Nat /\ MaxInARow \in Nat
  BY DEF Guards!GuardsAssumption
<1>2. 0 \in 0..MaxNow /\ 0 \in 0..MaxInARow
  BY <1>1
<1>3. Guards!TypeOK
  BY <1>2 DEF Guards!Init, Guards!TypeOK, Guards!Fresh, Guards!Moments
<1>4. GuardRight(guard, inARow, clock)
  BY <1>1 DEF Guards!Init, Guards!Fresh, GuardRight
<1>5. RateRight(acted, window, clock)
  <2>1. window.start = 0 /\ window.count = 0 /\ acted = <<>> /\ clock = 0
    BY DEF Guards!Init
  <2>2. DOMAIN acted = {} /\ 0 <= 0 /\ 0 <= MaxActions /\ 0 < MaxActions /\ 0 < 2 * MaxActions
    BY <1>1, <2>1
  <2> QED
    BY <2>1, <2>2, NumberOfNone DEF RateRight
<1> QED
  BY <1>3, <1>4, <1>5 DEF GuardIInv

(* What the breaker says when it is asked.                                  *)
LEMMA AskedRight ==
  ASSUME Guards!GuardsAssumption, GuardIInv
  PROVE  /\ GuardRight(Guards!Asked, inARow, clock)
         /\ Guards!Asked \in [state : {"closed", "open", "half-open"}, failures : 0..MaxInARow, openedAt : 0..MaxNow]
         /\ Guards!Asked.state = "open" <=> guard.state = "open" /\ ~ (clock - guard.openedAt > ResetMs)
<1>1. guard \in [state : {"closed", "open", "half-open"}, failures : 0..MaxInARow, openedAt : 0..MaxNow]
  BY DEF GuardIInv, Guards!TypeOK, Guards!Moments
<1>2. CASE guard.state = "open" /\ clock - guard.openedAt > ResetMs
  <2>1. Guards!Asked = [guard EXCEPT !.state = "half-open"]
    BY <1>2 DEF Guards!Asked
  <2> QED
    BY <1>1, <1>2, <2>1 DEF GuardRight, GuardIInv
<1>3. CASE ~ (guard.state = "open" /\ clock - guard.openedAt > ResetMs)
  <2>1. Guards!Asked = guard
    BY <1>1, <1>3 DEF Guards!Asked
  <2> QED
    BY <1>1, <1>3, <2>1 DEF GuardIInv
<1> QED
  BY <1>2, <1>3

(* An action is allowed or not; what is allowed counts.                     *)
LEMMA GuardAct == ASSUME Guards!GuardsAssumption, GuardIInv, Guards!Act PROVE GuardIInv'
<1>1. /\ window \in Windows /\ window \in [count : Nat, start : 0..MaxNow] /\ acted \in Seq(0..MaxNow)
      /\ acted \in Seq(Nat) /\ clock \in 0..MaxNow /\ clock \in Nat /\ inFlight \in Nat
      /\ inARow \in [number : 0..MaxInARow, last : 0..MaxNow] /\ RateRight(acted, window, clock)
      /\ MaxActions \in Nat /\ Hour \in Nat
  BY DEF GuardIInv, Guards!TypeOK, Guards!Moments, Windows, Guards!GuardsAssumption
<1>2. clock' = clock /\ inARow' = inARow /\ guard' = Guards!Asked
  BY DEF Guards!Act
<1>3. GuardRight(guard', inARow', clock')
  BY <1>2, AskedRight
<1>4. CASE UNCHANGED <<window, acted, inFlight>>
  <2>1. Guards!TypeOK'
    BY <1>1, <1>2, <1>4, AskedRight DEF Guards!TypeOK, Guards!Moments
  <2> QED
    BY <1>1, <1>2, <1>3, <1>4, <2>1 DEF GuardIInv
<1>5. CASE ~ Guards!RateLimited /\ Guards!RecordAction /\ acted' = Append(acted, clock) /\ inFlight' = inFlight + 1
  <2>1. PICK a, w : a = Append(acted, clock) /\ w = window'
    OBVIOUS
  <2>2. a \in Seq(0..MaxNow) /\ inFlight + 1 \in Nat
    BY <1>1, <2>1
  <2>3. w \in [count : Nat, start : 0..MaxNow] /\ RateRight(a, w, clock)
    <3>1. CASE window.count = 0 \/ clock - window.start > Hour
      <4>1. w = [count |-> 1, start |-> clock]
        BY <1>5, <2>1, <3>1 DEF Guards!RecordAction, Guards!Elapsed
      <4> QED
        BY <1>1, <2>1, <3>1, <4>1, WindowOpens
    <3>2. CASE window.count # 0 /\ ~ (clock - window.start > Hour)
      <4>1. w = [window EXCEPT !.count = @ + 1]
        BY <1>5, <2>1, <3>2 DEF Guards!RecordAction, Guards!Elapsed
      <4>2. w = [count |-> window.count + 1, start |-> window.start] /\ window.count + 1 \in Nat
        BY <1>1, <4>1
      <4>3. window.count < MaxActions /\ clock - window.start <= Hour
        <5>1. ~ (window.count >= MaxActions) /\ ~ (clock - window.start > Hour)
          BY <1>5, <3>2 DEF Guards!RateLimited, Guards!Elapsed
        <5>2. window.count \in Nat /\ window.start \in Nat
          BY <1>1
        <5> QED
          BY <1>1, <5>1, <5>2
      <4>4. RateRight(a, [count |-> window.count + 1, start |-> window.start], clock)
        BY <1>1, <2>1, <3>2, <4>3, WindowFills
      <4> QED
        BY <1>1, <4>2, <4>4
    <3> QED
      BY <3>1, <3>2
  <2>4. Guards!TypeOK'
    BY <1>1, <1>2, <1>5, <2>1, <2>2, <2>3, AskedRight DEF Guards!TypeOK, Guards!Moments
  <2>5. RateRight(acted', window', clock')
    BY <1>2, <1>5, <2>1, <2>3
  <2> QED
    BY <1>3, <2>4, <2>5 DEF GuardIInv
<1> QED
  BY <1>4, <1>5 DEF Guards!Act

(* Every step of the guards keeps it.                                       *)
LEMMA GuardNext == ASSUME Guards!GuardsAssumption, GuardIInv, Guards!Next PROVE GuardIInv'
<1>1. /\ clock \in 0..MaxNow /\ clock \in Nat /\ inFlight \in Nat /\ ResetMs \in Nat
      /\ guard \in [state : {"closed", "open", "half-open"}, failures : 0..MaxInARow, openedAt : 0..MaxNow]
      /\ inARow \in [number : 0..MaxInARow, last : 0..MaxNow] /\ RateRight(acted, window, clock)
      /\ GuardRight(guard, inARow, clock)
      /\ MaxFailures \in Nat \ {0} /\ MaxNow \in Nat /\ MaxInARow \in Nat
      /\ acted \in Seq(Nat) /\ window \in Windows
  BY DEF GuardIInv, Guards!TypeOK, Guards!Moments, Windows, Guards!GuardsAssumption
<1>2. CASE Guards!Act
  BY <1>2, GuardAct
<1>3. CASE Guards!Fail
  <2>1. /\ clock' = clock /\ window' = window /\ acted' = acted
        /\ inFlight > 0 /\ inARow.number < MaxInARow /\ inFlight' = inFlight - 1
        /\ inARow' = [number |-> inARow.number + 1, last |-> clock]
        /\ guard' = IF guard.failures + 1 < MaxFailures THEN [guard EXCEPT !.failures = @ + 1]
                    ELSE [state |-> "open", failures |-> guard.failures + 1, openedAt |-> clock]
    BY <1>3 DEF Guards!Fail
  <2>2. PICK n \in 1..MaxInARow : n = inARow.number + 1
    BY <1>1, <2>1
  <2>3. guard.failures = inARow.number /\ inFlight - 1 \in Nat
    BY <1>1, <2>1 DEF GuardRight
  <2>4. inARow' = [number |-> n, last |-> clock] /\ n \in 0..MaxInARow
    BY <2>1, <2>2
  <2>5. CASE n < MaxFailures
    <3>1. guard' = [guard EXCEPT !.failures = n]
      BY <2>1, <2>2, <2>3, <2>5
    <3>2. ~ (inARow.number >= MaxFailures) /\ inARow.number < MaxFailures
      BY <1>1, <2>2, <2>5
    <3>3. guard.state = "closed"
      BY <1>1, <3>2 DEF GuardRight
    <3>4. guard'.state = "closed" /\ guard'.failures = n /\ inARow'.number = n /\ ~ (n >= MaxFailures)
      BY <1>1, <2>2, <2>4, <2>5, <3>1, <3>3
    <3>5. GuardRight(guard', inARow', clock')
      BY <3>4 DEF GuardRight
    <3>6. guard' \in [state : {"closed", "open", "half-open"}, failures : 0..MaxInARow, openedAt : 0..MaxNow]
      BY <1>1, <2>4, <3>1
    <3>7. Guards!TypeOK'
      BY <1>1, <2>1, <2>3, <2>4, <3>6 DEF GuardIInv, Guards!TypeOK, Guards!Moments
    <3> QED
      BY <1>1, <2>1, <3>5, <3>7 DEF GuardIInv
  <2>6. CASE ~ (n < MaxFailures)
    <3>1. guard' = [state |-> "open", failures |-> n, openedAt |-> clock]
      BY <2>1, <2>2, <2>3, <2>6
    <3>2. n >= MaxFailures
      BY <1>1, <2>6
    <3>3. GuardRight(guard', inARow', clock')
      BY <2>4, <2>6, <3>1, <3>2 DEF GuardRight
    <3>4. guard' \in [state : {"closed", "open", "half-open"}, failures : 0..MaxInARow, openedAt : 0..MaxNow]
      BY <1>1, <2>4, <3>1
    <3>5. Guards!TypeOK'
      BY <1>1, <2>1, <2>3, <2>4, <3>4 DEF GuardIInv, Guards!TypeOK, Guards!Moments
    <3> QED
      BY <1>1, <2>1, <3>3, <3>5 DEF GuardIInv
  <2> QED
    BY <2>5, <2>6
<1>4. CASE Guards!Clear
  <2>1. /\ guard' = [state |-> "closed", failures |-> 0, openedAt |-> 0]
        /\ inARow' = [number |-> 0, last |-> 0] /\ inFlight' \in Nat
        /\ UNCHANGED <<clock, window, acted>>
    BY <1>4 DEF Guards!Clear, Guards!Fresh
  <2>2. 0 \in 0..MaxInARow /\ 0 \in 0..MaxNow /\ ~ (0 >= MaxFailures)
    BY <1>1
  <2>3. GuardRight(guard', inARow', clock')
    BY <2>1, <2>2 DEF GuardRight
  <2>4. Guards!TypeOK'
    BY <1>1, <2>1, <2>2 DEF GuardIInv, Guards!TypeOK, Guards!Moments
  <2> QED
    BY <1>1, <2>1, <2>3, <2>4 DEF GuardIInv
<1>5. CASE Guards!Tick
  <2>1. clock' = clock + 1 /\ clock < MaxNow /\ UNCHANGED <<window, guard, acted, inFlight, inARow>>
    BY <1>5 DEF Guards!Tick
  <2>2. PICK d \in 0..MaxNow : d = clock + 1
    BY <1>1, <2>1
  <2>3. d \in Nat /\ clock <= d
    BY <1>1, <2>2
  <2>4. RateRight(acted, window, d)
    BY <1>1, <2>3, WindowAges
  <2>5. guard.state = "half-open" => d - guard.openedAt > ResetMs
    <3> SUFFICES ASSUME guard.state = "half-open" PROVE d - guard.openedAt > ResetMs
      OBVIOUS
    <3>1. clock - guard.openedAt > ResetMs
      BY <1>1 DEF GuardRight
    <3>2. guard.openedAt \in Nat
      BY <1>1
    <3> QED
      BY <1>1, <2>3, <3>1, <3>2
  <2>6. GuardRight(guard, inARow, d)
    BY <1>1, <2>5 DEF GuardRight
  <2>7. clock' = d
    BY <2>1, <2>2
  <2>8. Guards!TypeOK'
    BY <2>1, <2>7 DEF GuardIInv, Guards!TypeOK, Guards!Moments
  <2> QED
    BY <2>1, <2>4, <2>6, <2>7, <2>8 DEF GuardIInv
<1> QED
  BY <1>2, <1>3, <1>4, <1>5 DEF Guards!Next

(* So both guards object exactly when they should.                          *)
LEMMA GuardSuffices ==
  ASSUME Guards!GuardsAssumption, GuardIInv PROVE Guards!ObjectsExactly /\ Guards!HourlyRate
<1>1. /\ clock \in 0..MaxNow /\ MaxFailures \in Nat \ {0} /\ ResetMs \in Nat /\ MaxNow \in Nat
      /\ guard \in [state : {"closed", "open", "half-open"}, failures : 0..MaxInARow, openedAt : 0..MaxNow]
      /\ inARow \in [number : 0..MaxInARow, last : 0..MaxNow]
      /\ GuardRight(guard, inARow, clock) /\ RateRight(acted, window, clock)
  BY DEF GuardIInv, Guards!TypeOK, Guards!Moments, Guards!GuardsAssumption
<1>2. Guards!ObjectsExactly
  <2>1. Guards!Asked.state = "open" <=> guard.state = "open" /\ ~ (clock - guard.openedAt > ResetMs)
    BY AskedRight
  <2>2. CASE inARow.number >= MaxFailures
    <3>1. guard.openedAt = inARow.last /\ (guard.state = "open" \/ guard.state = "half-open")
      BY <1>1, <2>2 DEF GuardRight
    <3>2. guard.state = "half-open" => clock - inARow.last > ResetMs
      BY <1>1, <3>1 DEF GuardRight
    <3>3. clock - inARow.last <= ResetMs <=> ~ (clock - inARow.last > ResetMs)
      BY <1>1
    <3> QED
      BY <2>1, <2>2, <3>1, <3>2, <3>3 DEF Guards!ObjectsExactly
  <2>3. CASE ~ (inARow.number >= MaxFailures)
    <3>1. inARow.number < MaxFailures
      BY <1>1, <2>3
    <3>2. guard.state = "closed"
      BY <1>1, <3>1 DEF GuardRight
    <3> QED
      BY <2>1, <2>3, <3>2 DEF Guards!ObjectsExactly
  <2> QED
    BY <2>2, <2>3
<1>3. Guards!HourlyRate
  <2>1. window.count = Guards!Between(window.start, clock)
    BY <1>1, SameNumber DEF RateRight
  <2>2. \A t \in Nat : Guards!Between(t, t + Hour) < 2 * MaxActions
    BY <1>1, SameNumber DEF RateRight
  <2>3. Guards!Moments \subseteq Nat
    BY DEF Guards!Moments
  <2> QED
    BY <2>1, <2>2, <2>3 DEF Guards!HourlyRate, Guards!RateLimited
<1> QED
  BY <1>2, <1>3

-----------------------------------------------------------------------------
(* The queue of core/orchestrator: q is the queue, a what has arrived.      *)

(* When a task arrived, who goes before whom, and a queue in that order.    *)
ArrivalIn(a, t) == CHOOSE i \in DOMAIN a : a[i] = t
Comes(t, u, a) == \/ Swarm!Before(t, u)
                  \/ ~ Swarm!Before(u, t) /\ ArrivalIn(a, t) < ArrivalIn(a, u)
QueueInTurn(q, a) == \A i, j \in 1..Len(q) : i < j => Comes(q[i], q[j], a)
Distinct(a) == \A i, j \in 1..Len(a) : a[i] = a[j] => i = j

(* All that waits or runs has arrived, and only once.                       *)
QueueIInv ==
  /\ queue \in Seq(Tasks) /\ arrived \in Seq(Tasks) /\ running \subseteq Tasks
  /\ Distinct(arrived)
  /\ \A i \in 1..Len(queue) : \E k \in 1..Len(arrived) : queue[i] = arrived[k]
  /\ \A t \in running : \E k \in 1..Len(arrived) : t = arrived[k]
  /\ QueueInTurn(queue, arrived)
  /\ IsFiniteSet(running) /\ Cardinality(running) <= MaxConcurrent
  /\ \A i \in 1..Len(queue) : queue[i] \notin running

(* Before is a strict order of tasks in which all of a rank are alike.      *)
LEMMA BeforeOrders ==
  ASSUME Swarm!SwarmAssumption, NEW t \in Tasks, NEW u \in Tasks, NEW v \in Tasks
  PROVE  /\ ~ Swarm!Before(t, t)
         /\ Swarm!Before(t, u) /\ ~ Swarm!Before(v, u) => Swarm!Before(t, v)
         /\ Swarm!Before(t, u) /\ Swarm!Before(u, v) => Swarm!Before(t, v)
         /\ Swarm!Before(t, u) => ~ Swarm!Before(u, t)
<1>1. /\ t.priority \in Nat /\ u.priority \in Nat /\ v.priority \in Nat
      /\ t.deadline \in Nat /\ u.deadline \in Nat /\ v.deadline \in Nat
  BY DEF Swarm!SwarmAssumption
<1> QED
  BY <1>1 DEF Swarm!Before

(* A task that has arrived has one place among those that have.             *)
LEMMA ArrivalIsPlace ==
  ASSUME NEW a \in Seq(Tasks), Distinct(a), NEW k \in 1..Len(a)
  PROVE  ArrivalIn(a, a[k]) = k
<1>1. k \in DOMAIN a /\ \A i \in DOMAIN a : a[i] = a[k] => i = k
  BY DEF Distinct
<1> QED
  BY <1>1 DEF ArrivalIn

(* No task waits twice.                                                     *)
LEMMA WaitsOnce ==
  ASSUME Swarm!SwarmAssumption, NEW q \in Seq(Tasks), NEW a \in Seq(Tasks), Distinct(a), QueueInTurn(q, a),
         \A i \in 1..Len(q) : \E k \in 1..Len(a) : q[i] = a[k]
  PROVE  \A i, j \in 1..Len(q) : i < j => q[i] # q[j]
<1> SUFFICES ASSUME NEW i \in 1..Len(q), NEW j \in 1..Len(q), i < j, q[i] = q[j] PROVE FALSE
  OBVIOUS
<1>1. Comes(q[i], q[i], a) /\ q[i] \in Tasks
  BY DEF QueueInTurn
<1>2. ArrivalIn(a, q[i]) < ArrivalIn(a, q[i])
  BY <1>1, BeforeOrders DEF Comes
<1>3. ArrivalIn(a, q[i]) \in Nat
  <2>1. PICK k \in 1..Len(a) : q[i] = a[k]
    OBVIOUS
  <2>2. ArrivalIn(a, q[i]) = k
    BY <2>1, ArrivalIsPlace
  <2> QED
    BY <2>2
<1> QED
  BY <1>2, <1>3

(* There is a place in the queue for a new task, behind all that need not   *)
(* let it pass.                                                             *)
LEMMA PlaceInQueue ==
  ASSUME Swarm!SwarmAssumption, NEW q \in Seq(Tasks), NEW a, QueueInTurn(q, a), NEW t \in Tasks
  PROVE  \E n \in 0..Len(q) : \A i \in DOMAIN q : i <= n <=> ~ Swarm!Before(t, q[i])
<1>1. Len(q) \in Nat /\ DOMAIN q = 1..Len(q) /\ \A i \in 1..Len(q) : q[i] \in Tasks
  OBVIOUS
<1> DEFINE S == {i \in 1..Len(q) : Swarm!Before(t, q[i])}
<1>2. ASSUME NEW i \in S, NEW j \in 1..Len(q), i <= j PROVE j \in S
  <2>0. i \in 1..Len(q) /\ Swarm!Before(t, q[i])
    OBVIOUS
  <2>1. i \in 1..Len(q) /\ Swarm!Before(t, q[i]) /\ (i = j \/ i < j)
    BY <1>1, <1>2, <2>0
  <2>2. CASE i = j
    BY <2>2
  <2>3. CASE i < j
    <3>1. Comes(q[i], q[j], a)
      BY <2>1, <2>3 DEF QueueInTurn
    <3>2. ~ Swarm!Before(q[j], q[i])
      BY <1>1, <2>1, <3>1, BeforeOrders DEF Comes
    <3>3. Swarm!Before(t, q[j])
      BY <1>1, <2>1, <3>2, BeforeOrders
    <3> QED
      BY <3>3
  <2> QED
    BY <2>1, <2>2, <2>3
<1>3. S \in SUBSET (1..Len(q))
  OBVIOUS
<1>4. PICK m \in 0..Len(q) : \A i \in 1..Len(q) : i \in S <=> i > m
  <2> HIDE DEF S
  <2> QED
    BY <1>1, <1>2, <1>3, PlaceExists
<1>5. \A i \in DOMAIN q : i <= m <=> ~ Swarm!Before(t, q[i])
  <2> SUFFICES ASSUME NEW i \in 1..Len(q) PROVE i <= m <=> ~ Swarm!Before(t, q[i])
    BY <1>1
  <2>1. i > m <=> Swarm!Before(t, q[i])
    BY <1>4
  <2>2. i <= m <=> ~ (i > m)
    OBVIOUS
  <2> QED
    BY <2>1, <2>2
<1> QED
  BY <1>5

Inserted(q, m, t) == Swarm!InsertAt(q, m + 1, t)
PutsIn(S, z, q, m, t) ==
  /\ z \in Seq(S) /\ Len(z) = Len(q) + 1 /\ z[m + 1] = t
  /\ \A i \in 1..m : z[i] = q[i]
  /\ \A i \in (m + 1)..Len(q) : z[i + 1] = q[i]

(* A sequence with one element put in behind the first m.                   *)
LEMMA PutIn ==
  ASSUME NEW S, NEW q \in Seq(S), NEW t \in S, NEW m \in 0..Len(q)
  PROVE  PutsIn(S, Inserted(q, m, t), q, m, t)
<1>1. PICK l \in Nat : l = Len(q)
  OBVIOUS
<1> DEFINE x == SubSeq(q, 1, m)
           y == SubSeq(q, m + 1, l)
<1>2. x \in Seq(S) /\ Len(x) = m /\ \A i \in 1..m : x[i] = q[i]
  BY <1>1
<1>3. y \in Seq(S) /\ Len(y) = l - m /\ \A i \in 1..(l - m) : y[i] = q[m + i]
  BY <1>1
<1>4. Inserted(q, m, t) = (x \o <<t>>) \o y
  <2>1. (m + 1) - 1 = m
    BY <1>1
  <2> QED
    BY <1>1, <2>1 DEF Swarm!InsertAt, Inserted
<1> HIDE DEF x, y
<1>5. /\ x \o <<t>> \in Seq(S) /\ Len(x \o <<t>>) = m + 1 /\ (x \o <<t>>)[m + 1] = t
      /\ \A i \in 1..m : (x \o <<t>>)[i] = q[i]
  BY <1>2
<1> DEFINE v == x \o <<t>>
           z == v \o y
<1> HIDE DEF v
<1>6. v \in Seq(S) /\ Len(v) = m + 1 /\ v[m + 1] = t /\ \A i \in 1..m : v[i] = q[i]
  BY <1>5 DEF v
<1>7. z \in Seq(S) /\ Len(z) = l + 1
  BY <1>1, <1>3, <1>6
<1>8. \A i \in 1..(m + 1) : z[i] = v[i]
  BY <1>1, <1>3, <1>6
<1>9. ASSUME NEW i \in (m + 1)..l PROVE z[i + 1] = q[i]
  <2>1. i - m \in 1..(l - m) /\ i + 1 = (m + 1) + (i - m) /\ m + (i - m) = i
    BY <1>1
  <2>2. z[(m + 1) + (i - m)] = y[i - m]
    BY <1>1, <1>3, <1>6, <2>1
  <2> QED
    BY <1>3, <2>1, <2>2
<1>10. z[m + 1] = t /\ \A i \in 1..m : z[i] = q[i]
  BY <1>1, <1>6, <1>8
<1>11. Inserted(q, m, t) = z
  BY <1>4 DEF v
<1> HIDE DEF z
<1> QED
  BY <1>1, <1>7, <1>9, <1>10, <1>11 DEF PutsIn

(* A task that is put in where it belongs has its turn, and leaves the      *)
(* others theirs.                                                           *)
LEMMA EnqueuedInTurn ==
  ASSUME Swarm!SwarmAssumption, NEW q \in Seq(Tasks), NEW a \in Seq(Tasks), Distinct(a), QueueInTurn(q, a),
         \A i \in 1..Len(q) : \E k \in 1..Len(a) : q[i] = a[k],
         NEW t \in Tasks, \A k \in 1..Len(a) : a[k] # t,
         NEW m \in 0..Len(q), \A i \in 1..Len(q) : i <= m <=> ~ Swarm!Before(t, q[i])
  PROVE  /\ Distinct(Append(a, t)) /\ QueueInTurn(Inserted(q, m, t), Append(a, t))
         /\ \A i \in 1..Len(Inserted(q, m, t)) :
               \/ Inserted(q, m, t)[i] = t
               \/ \E k \in 1..Len(q) : Inserted(q, m, t)[i] = q[k]
         /\ \A k \in 1..Len(a) : k \in 1..Len(Append(a, t)) /\ Append(a, t)[k] = a[k]
         /\ Len(a) + 1 \in 1..Len(Append(a, t)) /\ Append(a, t)[Len(a) + 1] = t
<1>1. PICK l \in Nat, n \in Nat : l = Len(q) /\ n = Len(a)
  OBVIOUS
<1>2. PICK z, b : z = Inserted(q, m, t) /\ b = Append(a, t)
  OBVIOUS
<1>3. /\ z \in Seq(Tasks) /\ Len(z) = l + 1 /\ z[m + 1] = t /\ m \in 0..l
      /\ \A i \in 1..m : z[i] = q[i]
      /\ \A i \in (m + 1)..l : z[i + 1] = q[i]
  <2>1. PutsIn(Tasks, z, q, m, t)
    BY <1>2, PutIn
  <2> QED
    BY <1>1, <2>1 DEF PutsIn
<1>4. b \in Seq(Tasks) /\ Len(b) = n + 1 /\ b[n + 1] = t /\ \A k \in 1..n : b[k] = a[k]
  BY <1>1, <1>2
<1>5. \A k \in 1..(n + 1) : k \in 1..n \/ k = n + 1
  OBVIOUS
<1>6. Distinct(b)
  <2> SUFFICES ASSUME NEW i \in 1..(n + 1), NEW j \in 1..(n + 1), b[i] = b[j] PROVE i = j
    BY <1>4 DEF Distinct
  <2> QED
    BY <1>1, <1>4, <1>5 DEF Distinct
<1>7. \A k \in 1..n : ArrivalIn(b, a[k]) = k /\ ArrivalIn(a, a[k]) = k
  <2> SUFFICES ASSUME NEW k \in 1..n PROVE ArrivalIn(b, a[k]) = k /\ ArrivalIn(a, a[k]) = k
    OBVIOUS
  <2>1. k \in 1..Len(b) /\ k \in 1..Len(a) /\ b[k] = a[k]
    BY <1>1, <1>4
  <2> QED
    BY <1>4, <1>6, <2>1, ArrivalIsPlace
<1>8. ArrivalIn(b, t) = n + 1
  <2>1. n + 1 \in 1..Len(b)
    BY <1>4
  <2> QED
    BY <1>4, <1>6, <2>1, ArrivalIsPlace
<1>9. \A i \in 1..l : ArrivalIn(b, q[i]) = ArrivalIn(a, q[i]) /\ ArrivalIn(a, q[i]) \in 1..n /\ q[i] \in Tasks
  BY <1>1, <1>7
<1>10. \A i, j \in 1..l : i < j => Comes(q[i], q[j], b)
  BY <1>1, <1>9 DEF QueueInTurn, Comes
<1>11. \A i \in 1..(l + 1) : \/ i \in 1..m
                             \/ i = m + 1
                             \/ i - 1 \in (m + 1)..l
  BY <1>1
<1>12. ASSUME NEW i \in 1..l PROVE /\ i <= m => Comes(q[i], t, b)
                                   /\ i > m => Comes(t, q[i], b)
  <2>1. i <= m => ~ Swarm!Before(t, q[i])
    BY <1>1
  <2>2. i > m => Swarm!Before(t, q[i])
    <3>1. i > m => ~ (i <= m)
      BY <1>3
    <3> QED
      BY <1>1, <3>1
  <2>3. ArrivalIn(b, q[i]) < ArrivalIn(b, t)
    BY <1>1, <1>8, <1>9
  <2> QED
    BY <2>1, <2>2, <2>3 DEF Comes
<1>13. QueueInTurn(z, b)
  <2> SUFFICES ASSUME NEW i \in 1..(l + 1), NEW j \in 1..(l + 1), i < j PROVE Comes(z[i], z[j], b)
    BY <1>3 DEF QueueInTurn
  <2>1. CASE i \in 1..m
    <3>1. z[i] = q[i] /\ i \in 1..l /\ i <= m
      BY <1>1, <1>3, <2>1
    <3>2. CASE j \in 1..m
      <4>1. z[j] = q[j] /\ j \in 1..l
        BY <1>1, <1>3, <3>2
      <4> QED
        BY <1>10, <3>1, <4>1
    <3>3. CASE j = m + 1
      <4>1. Comes(q[i], t, b)
        BY <1>12, <3>1
      <4> QED
        BY <1>3, <3>1, <3>3, <4>1
    <3>4. CASE j - 1 \in (m + 1)..l
      <4>1. j - 1 \in 1..l /\ i < j - 1 /\ (j - 1) + 1 = j
        BY <1>1, <1>3, <2>1, <3>4
      <4>2. z[j] = q[j - 1]
        BY <1>3, <3>4, <4>1
      <4> QED
        BY <1>10, <3>1, <4>1, <4>2
    <3> QED
      BY <1>11, <3>2, <3>3, <3>4
  <2>2. CASE i = m + 1
    <3>1. j - 1 \in (m + 1)..l /\ j - 1 \in 1..l /\ j - 1 > m /\ (j - 1) + 1 = j
      BY <1>1, <1>3, <2>2
    <3>2. z[j] = q[j - 1]
      BY <1>3, <3>1
    <3> QED
      BY <1>3, <1>12, <2>2, <3>1, <3>2
  <2>3. CASE i - 1 \in (m + 1)..l
    <3>1. /\ i - 1 \in 1..l /\ (i - 1) + 1 = i
          /\ j - 1 \in (m + 1)..l /\ j - 1 \in 1..l /\ (j - 1) + 1 = j /\ i - 1 < j - 1
      BY <1>1, <1>3, <2>3
    <3>2. z[i] = q[i - 1] /\ z[j] = q[j - 1]
      BY <1>3, <2>3, <3>1
    <3> QED
      BY <1>10, <3>1, <3>2
  <2> QED
    BY <1>11, <2>1, <2>2, <2>3
<1>14. \A i \in 1..(l + 1) : z[i] = t \/ \E k \in 1..l : z[i] = q[k]
  <2> SUFFICES ASSUME NEW i \in 1..(l + 1) PROVE z[i] = t \/ \E k \in 1..l : z[i] = q[k]
    OBVIOUS
  <2>1. CASE i \in 1..m
    <3>1. i \in 1..l
      BY <1>1, <1>3, <2>1
    <3> QED
      BY <1>3, <2>1, <3>1
  <2>2. CASE i - 1 \in (m + 1)..l
    <3>1. i - 1 \in 1..l /\ (i - 1) + 1 = i
      BY <1>1, <1>3, <2>2
    <3> QED
      BY <1>3, <2>2, <3>1
  <2> QED
    BY <1>3, <1>11, <2>1, <2>2
<1>15. n + 1 \in 1..(n + 1) /\ \A k \in 1..n : k \in 1..(n + 1)
  OBVIOUS
<1> QED
  BY <1>1, <1>2, <1>3, <1>4, <1>6, <1>13, <1>14, <1>15

(* The first of the queue leaves it.                                        *)
LEMMA DequeuedInTurn ==
  ASSUME Swarm!SwarmAssumption, NEW q \in Seq(Tasks), q # <<>>, NEW a \in Seq(Tasks), Distinct(a), QueueInTurn(q, a),
         \A i \in 1..Len(q) : \E k \in 1..Len(a) : q[i] = a[k]
  PROVE  /\ Tail(q) \in Seq(Tasks) /\ QueueInTurn(Tail(q), a) /\ Head(q) \in Tasks
         /\ 1 \in 1..Len(q) /\ Head(q) = q[1]
         /\ \A i \in 1..Len(Tail(q)) : i + 1 \in 1..Len(q) /\ Tail(q)[i] = q[i + 1] /\ q[i + 1] # Head(q)
<1>1. PICK l \in Nat : l = Len(q)
  OBVIOUS
<1>2. l # 0 /\ Head(q) = q[1] /\ Head(q) \in Tasks
  BY <1>1
<1>3. PICK z : z = Tail(q)
  OBVIOUS
<1>4. z \in Seq(Tasks) /\ Len(z) = l - 1 /\ \A i \in 1..(l - 1) : z[i] = q[i + 1]
  BY <1>1, <1>2, <1>3, HeadTailProperties
<1>5. 1 \in 1..l /\ \A i \in 1..(l - 1) : i + 1 \in 1..l /\ 1 < i + 1
  BY <1>1, <1>2
<1>6. \A i \in 1..(l - 1) : q[i + 1] # q[1]
  BY <1>1, <1>5, WaitsOnce
<1>7. QueueInTurn(z, a)
  <2> SUFFICES ASSUME NEW i \in 1..(l - 1), NEW j \in 1..(l - 1), i < j PROVE Comes(z[i], z[j], a)
    BY <1>4 DEF QueueInTurn
  <2>1. i + 1 < j + 1 /\ i + 1 \in 1..l /\ j + 1 \in 1..l
    BY <1>5
  <2>2. Comes(q[i + 1], q[j + 1], a)
    BY <1>1, <2>1 DEF QueueInTurn
  <2> QED
    BY <1>4, <2>2
<1> QED
  BY <1>1, <1>2, <1>3, <1>4, <1>5, <1>6, <1>7

(* The orchestrator's Cardinality is that of FiniteSets.                    *)
LEMMA SameSize == \A S : Swarm!Cardinality(S) = Cardinality(S)
  BY ZenonT(60) DEF Swarm!Cardinality, Cardinality

(* Nothing has arrived yet.                                                 *)
LEMMA QueueInit == ASSUME Swarm!SwarmAssumption, Swarm!Init PROVE QueueIInv
<1>1. queue = <<>> /\ arrived = <<>> /\ running = {}
  BY DEF Swarm!Init
<1>2. Len(<<>>) = 0 /\ 1..0 = {}
  OBVIOUS
<1>3. Cardinality({}) <= MaxConcurrent /\ IsFiniteSet({})
  BY FS_EmptySet DEF Swarm!SwarmAssumption
<1> QED
  BY <1>1, <1>2, <1>3 DEF QueueIInv, QueueInTurn, Distinct

(* Every step of the queue keeps it.                                        *)
LEMMA QueueNextInv == ASSUME Swarm!SwarmAssumption, QueueIInv, Swarm!QueueNext PROVE QueueIInv'
<1>0. /\ queue \in Seq(Tasks) /\ arrived \in Seq(Tasks) /\ running \subseteq Tasks
      /\ Distinct(arrived) /\ QueueInTurn(queue, arrived)
      /\ \A i \in 1..Len(queue) : \E k \in 1..Len(arrived) : queue[i] = arrived[k]
      /\ \A t \in running : \E k \in 1..Len(arrived) : t = arrived[k]
      /\ \A i \in 1..Len(queue) : queue[i] \notin running
      /\ IsFiniteSet(running) /\ Cardinality(running) <= MaxConcurrent
  BY DEF QueueIInv
<1>1. ASSUME NEW t \in Tasks, Swarm!Enqueue(t) PROVE QueueIInv'
  <2>1. \A k \in 1..Len(arrived) : arrived[k] # t
    BY <1>0, <1>1 DEF Swarm!Enqueue, Swarm!Range
  <2> DEFINE Fits(n) == \A i \in DOMAIN queue : i <= n <=> ~ Swarm!Before(t, queue[i])
             m == CHOOSE n \in 0..Len(queue) : Fits(n)
  <2>2. \E n \in 0..Len(queue) : Fits(n)
    BY <1>0, PlaceInQueue
  <2>3. m \in 0..Len(queue) /\ Fits(m)
    <3> HIDE DEF Fits
    <3> QED
      BY <2>2
  <2>4. queue' = Inserted(queue, m, t) /\ arrived' = Append(arrived, t) /\ running' = running
    BY <1>1 DEF Swarm!Enqueue, Inserted
  <2> HIDE DEF m
  <2>5. PICK z, b : z = Inserted(queue, m, t) /\ b = Append(arrived, t)
    OBVIOUS
  <2>6. \A i \in 1..Len(queue) : i <= m <=> ~ Swarm!Before(t, queue[i])
    BY <1>0, <2>3
  <2>7. /\ Distinct(b) /\ QueueInTurn(z, b)
        /\ \A i \in 1..Len(z) : z[i] = t \/ \E k \in 1..Len(queue) : z[i] = queue[k]
        /\ \A k \in 1..Len(arrived) : k \in 1..Len(b) /\ b[k] = arrived[k]
        /\ Len(arrived) + 1 \in 1..Len(b) /\ b[Len(arrived) + 1] = t
    <3>1. /\ Distinct(Append(arrived, t)) /\ QueueInTurn(Inserted(queue, m, t), Append(arrived, t))
          /\ \A i \in 1..Len(Inserted(queue, m, t)) :
               \/ Inserted(queue, m, t)[i] = t
               \/ \E k \in 1..Len(queue) : Inserted(queue, m, t)[i] = queue[k]
          /\ \A k \in 1..Len(arrived) : k \in 1..Len(Append(arrived, t)) /\ Append(arrived, t)[k] = arrived[k]
          /\ Len(arrived) + 1 \in 1..Len(Append(arrived, t)) /\ Append(arrived, t)[Len(arrived) + 1] = t
      BY <1>0, <2>1, <2>3, <2>6, EnqueuedInTurn
    <3> QED
      BY <2>5, <3>1, Zenon
  <2>8. z \in Seq(Tasks) /\ b \in Seq(Tasks)
    <3>1. Inserted(queue, m, t) \in Seq(Tasks)
      BY <1>0, <2>3, PutIn DEF PutsIn
    <3>2. Append(arrived, t) \in Seq(Tasks)
      BY <1>0
    <3> QED
      BY <2>5, <3>1, <3>2, Zenon
  <2>9. t \notin running
    BY <1>0, <2>1
  <2>10. queue' = z /\ arrived' = b
    BY <2>4, <2>5
  <2>11. \A i \in 1..Len(z) : (\E k \in 1..Len(b) : z[i] = b[k]) /\ z[i] \notin running
    <3> SUFFICES ASSUME NEW i \in 1..Len(z)
                 PROVE  (\E k \in 1..Len(b) : z[i] = b[k]) /\ z[i] \notin running
      OBVIOUS
    <3>1. CASE z[i] = t
      BY <2>7, <2>9, <3>1
    <3>2. CASE \E k \in 1..Len(queue) : z[i] = queue[k]
      <4>1. PICK k \in 1..Len(queue) : z[i] = queue[k]
        BY <3>2
      <4>2. PICK n \in 1..Len(arrived) : queue[k] = arrived[n]
        BY <1>0
      <4>3. n \in 1..Len(b) /\ b[n] = arrived[n]
        BY <2>7
      <4> QED
        BY <1>0, <4>1, <4>2, <4>3
    <3> QED
      BY <2>7, <3>1, <3>2
  <2>12. \A u \in running : \E k \in 1..Len(b) : u = b[k]
    BY <1>0, <2>7
  <2> QED
    BY <1>0, <2>4, <2>7, <2>8, <2>10, <2>11, <2>12 DEF QueueIInv
<1>2. CASE Swarm!Dequeue
  <2>1. /\ Swarm!Cardinality(running) < MaxConcurrent /\ queue # <<>>
        /\ running' = running \cup {Head(queue)} /\ queue' = Tail(queue) /\ arrived' = arrived
    BY <1>2 DEF Swarm!Dequeue
  <2>2. PICK z, h : z = Tail(queue) /\ h = Head(queue)
    OBVIOUS
  <2>3. /\ z \in Seq(Tasks) /\ QueueInTurn(z, arrived) /\ h \in Tasks
        /\ 1 \in 1..Len(queue) /\ h = queue[1]
        /\ \A i \in 1..Len(z) : i + 1 \in 1..Len(queue) /\ z[i] = queue[i + 1] /\ queue[i + 1] # h
    <3>1. /\ Tail(queue) \in Seq(Tasks) /\ QueueInTurn(Tail(queue), arrived) /\ Head(queue) \in Tasks
          /\ 1 \in 1..Len(queue) /\ Head(queue) = queue[1]
          /\ \A i \in 1..Len(Tail(queue)) :
                i + 1 \in 1..Len(queue) /\ Tail(queue)[i] = queue[i + 1] /\ queue[i + 1] # Head(queue)
      BY <1>0, <2>1, DequeuedInTurn
    <3> QED
      BY <2>2, <3>1, Zenon
  <2>4. Cardinality(running) < MaxConcurrent
    BY <2>1, SameSize
  <2>5. h \notin running
    BY <1>0, <2>3
  <2>6. IsFiniteSet(running \cup {h}) /\ Cardinality(running \cup {h}) <= MaxConcurrent
    <3>1. IsFiniteSet(running \cup {h}) /\ Cardinality(running \cup {h}) = Cardinality(running) + 1
      BY <1>0, <2>5, FS_AddElement
    <3>2. Cardinality(running) \in Nat /\ MaxConcurrent \in Nat
      BY <1>0, FS_CardinalityType DEF Swarm!SwarmAssumption
    <3> QED
      BY <2>4, <3>1, <3>2
  <2>7. running' = running \cup {h} /\ queue' = z /\ arrived' = arrived
    BY <2>1, <2>2
  <2>8. \A i \in 1..Len(z) : (\E k \in 1..Len(arrived) : z[i] = arrived[k]) /\ z[i] \notin running \cup {h}
    <3> SUFFICES ASSUME NEW i \in 1..Len(z)
                 PROVE  (\E k \in 1..Len(arrived) : z[i] = arrived[k]) /\ z[i] \notin running \cup {h}
      OBVIOUS
    <3>1. i + 1 \in 1..Len(queue) /\ z[i] = queue[i + 1] /\ queue[i + 1] # h
      BY <2>3
    <3>2. queue[i + 1] \notin running /\ \E k \in 1..Len(arrived) : queue[i + 1] = arrived[k]
      BY <1>0, <3>1
    <3> QED
      BY <3>1, <3>2
  <2>9. \A u \in running \cup {h} : u \in Tasks /\ \E k \in 1..Len(arrived) : u = arrived[k]
    BY <1>0, <2>3
  <2> QED
    BY <1>0, <2>3, <2>6, <2>7, <2>8, <2>9 DEF QueueIInv
<1>3. ASSUME NEW t \in Tasks, Swarm!Complete(t) PROVE QueueIInv'
  <2>1. running' = running \ {t} /\ queue' = queue /\ arrived' = arrived
    BY <1>3 DEF Swarm!Complete
  <2>2. IsFiniteSet(running \ {t}) /\ Cardinality(running \ {t}) <= Cardinality(running)
    BY <1>0, FS_Subset
  <2>3. Cardinality(running) \in Nat /\ Cardinality(running \ {t}) \in Nat /\ MaxConcurrent \in Nat
    BY <1>0, <2>2, FS_CardinalityType DEF Swarm!SwarmAssumption
  <2>4. Cardinality(running \ {t}) <= MaxConcurrent
    BY <1>0, <2>2, <2>3
  <2> QED
    BY <1>0, <2>1, <2>2, <2>4 DEF QueueIInv
<1> QED
  BY <1>1, <1>2, <1>3 DEF Swarm!QueueNext

(* So tasks wait in turn and run within the limit.                          *)
LEMMA QueueSuffices == ASSUME Swarm!SwarmAssumption, QueueIInv PROVE Swarm!WaitsInTurn
<1>0. /\ queue \in Seq(Tasks) /\ arrived \in Seq(Tasks) /\ QueueInTurn(queue, arrived)
      /\ \A i \in 1..Len(queue) : queue[i] \notin running
      /\ Cardinality(running) <= MaxConcurrent
  BY DEF QueueIInv
<1>1. \A t : ArrivalIn(arrived, t) = Swarm!Arrival(t)
  BY DEF ArrivalIn, Swarm!Arrival
<1>2. DOMAIN queue = 1..Len(queue)
  BY <1>0
<1>3. \A i, j \in DOMAIN queue : i < j =>
         \/ Swarm!Before(queue[i], queue[j])
         \/ ~ Swarm!Before(queue[j], queue[i]) /\ Swarm!Arrival(queue[i]) < Swarm!Arrival(queue[j])
  BY <1>0, <1>1, <1>2 DEF QueueInTurn, Comes
<1>4. Swarm!Cardinality(running) <= MaxConcurrent
  BY <1>0, SameSize
<1>5. running \cap Swarm!Range(queue) = {}
  BY <1>0, <1>2 DEF Swarm!Range
<1> QED
  BY <1>3, <1>4, <1>5 DEF Swarm!WaitsInTurn

-----------------------------------------------------------------------------
(* The log of accesses: l is the log, h the log as it would be if it were   *)
(* never cut, d the dependencies found, n how long h was when they were     *)
(* last looked for.                                                         *)

(* Whoever sees more accesses sees more dependencies.                       *)
LEMMA PairsGrow ==
  ASSUME NEW l, NEW h, Swarm!Range(l) \subseteq Swarm!Range(h)
  PROVE  Swarm!Pairs(l) \subseteq Swarm!Pairs(h)
<1> DEFINE R == Swarm!Range(l)
           S == Swarm!Range(h)
           F(w, r) == /\ w.operation = "write" /\ r.operation = "read"
                      /\ w.resource = r.resource /\ w.agent # r.agent
                      /\ r.timestamp >= w.timestamp
           Found(A) == {[sourceAgent |-> p[1].agent, targetAgent |-> p[2].agent, resource |-> p[1].resource] :
                          p \in {q \in A \X A : F(q[1], q[2])}}
<1>1. Swarm!Pairs(l) = Found(R) /\ Swarm!Pairs(h) = Found(S)
  BY DEF Swarm!Pairs
<1>2. {q \in R \X R : F(q[1], q[2])} \subseteq {q \in S \X S : F(q[1], q[2])}
  <2> HIDE DEF R, S, F
  <2>1. R \X R \subseteq S \X S
    BY DEF R, S
  <2> QED
    BY <2>1
<1>3. Found(R) \subseteq Found(S)
  <2> HIDE DEF R, S, F
  <2> QED
    BY <1>2
<1> QED
  BY <1>1, <1>3

(* The log ends as the whole log does, and holds KeepLog accesses or all.   *)
Ends(l, h) ==
  /\ Len(l) <= Len(h) /\ (Len(l) >= KeepLog \/ Len(l) = Len(h))
  /\ \A i \in 1..Len(l) : l[i] = h[Len(h) - Len(l) + i]

(* What was found is there, and is all among the last KeepLog accesses.     *)
Found(d, h, n) ==
  /\ d \subseteq Swarm!Pairs(h)
  /\ \A i \in 1..n : n - i < KeepLog => Swarm!Pairs(SubSeq(h, i, n)) \subseteq d

LogIInv ==
  /\ accessLog \in Seq(Swarm!Accesses) /\ history \in Seq(Swarm!Accesses)
  /\ looked \in 0..Len(history)
  /\ Ends(accessLog, history)
  /\ Found(dependencies, history, looked)

(* The elements of a part of a sequence.                                    *)
LEMMA PartRange ==
  ASSUME NEW S, NEW h \in Seq(S), NEW i \in 1..Len(h), NEW n \in 0..Len(h)
  PROVE  Swarm!Range(SubSeq(h, i, n)) = {h[j] : j \in i..n}
<1>1. \A j \in i..n : h[j] \in S
  OBVIOUS
<1>2. PICK k \in Nat : k = IF i <= n THEN n - i + 1 ELSE 0
  <2>1. i <= n => n - i + 1 \in Nat
    OBVIOUS
  <2> QED
    BY <2>1
<1>3. PICK z : z = SubSeq(h, i, n)
  OBVIOUS
<1>4. z \in Seq(S) /\ Len(z) = k /\ \A j \in 1..(n - i + 1) : z[j] = h[i + j - 1]
  BY <1>1, <1>2, <1>3, SubSeqProperties
<1>5. DOMAIN z = 1..k
  BY <1>4
<1>6. \A j \in 1..k : j \in 1..(n - i + 1) /\ i + j - 1 \in i..n
  BY <1>2
<1>7. \A j \in i..n : j - i + 1 \in 1..k /\ j - i + 1 \in 1..(n - i + 1) /\ i + (j - i + 1) - 1 = j
  BY <1>2
<1>8. \A j \in 1..k : z[j] \in {h[m] : m \in i..n}
  BY <1>4, <1>6
<1>9. ASSUME NEW j \in i..n PROVE \E m \in 1..k : z[m] = h[j]
  <2>1. z[j - i + 1] = h[i + (j - i + 1) - 1]
    BY <1>4, <1>7
  <2> QED
    BY <1>7, <2>1
<1> QED
  BY <1>3, <1>5, <1>8, <1>9 DEF Swarm!Range

(* Equal elements, equal parts.                                             *)
LEMMA SamePart ==
  ASSUME NEW S, NEW h \in Seq(S), NEW g \in Seq(S),
         NEW i, i \in 1..Len(h), i \in 1..Len(g), NEW n, n \in 0..Len(h), n \in 0..Len(g),
         \A j \in i..n : g[j] = h[j]
  PROVE  Swarm!Range(SubSeq(g, i, n)) = Swarm!Range(SubSeq(h, i, n))
<1>1. Swarm!Range(SubSeq(g, i, n)) = {g[j] : j \in i..n}
  BY PartRange
<1>2. Swarm!Range(SubSeq(h, i, n)) = {h[j] : j \in i..n}
  BY PartRange
<1> QED
  BY <1>1, <1>2

(* A longer log holds what the shorter one did.                             *)
LEMMA LogGrows ==
  ASSUME NEW h \in Seq(Swarm!Accesses), NEW e \in Swarm!Accesses, NEW d, NEW n \in 0..Len(h), Found(d, h, n)
  PROVE  Found(d, Append(h, e), n)
<1>0. PICK g : g = Append(h, e)
  OBVIOUS
<1>1. g \in Seq(Swarm!Accesses) /\ Len(g) = Len(h) + 1 /\ \A j \in 1..Len(h) : g[j] = h[j]
  BY <1>0
<1>2. Swarm!Range(h) \subseteq Swarm!Range(g)
  <2>1. DOMAIN h = 1..Len(h) /\ \A j \in 1..Len(h) : j \in DOMAIN g
    BY <1>1
  <2> QED
    BY <1>1, <2>1 DEF Swarm!Range
<1>3. ASSUME NEW i \in 1..n PROVE Swarm!Range(SubSeq(g, i, n)) \subseteq Swarm!Range(SubSeq(h, i, n))
  <2>1. i \in 1..Len(h) /\ i \in 1..Len(g) /\ n \in 0..Len(g) /\ \A j \in i..n : j \in 1..Len(h)
    BY <1>1
  <2> QED
    BY <1>1, <2>1, SamePart
<1>4. ASSUME NEW i \in 1..n, n - i < KeepLog PROVE Swarm!Pairs(SubSeq(g, i, n)) \subseteq d
  <2>1. Swarm!Pairs(SubSeq(g, i, n)) \subseteq Swarm!Pairs(SubSeq(h, i, n))
    BY <1>3, PairsGrow
  <2> QED
    BY <1>4, <2>1 DEF Found
<1>5. d \subseteq Swarm!Pairs(g)
  BY <1>2, PairsGrow DEF Found
<1>6. Found(d, g, n)
  BY <1>4, <1>5 DEF Found
<1> QED
  BY <1>0, <1>6

(* Both logs get the access, and the one is cut if it is too long.          *)
LEMMA LogCut ==
  ASSUME Swarm!SwarmAssumption, NEW l \in Seq(Swarm!Accesses), NEW h \in Seq(Swarm!Accesses), Ends(l, h),
         NEW e \in Swarm!Accesses
  PROVE  Swarm!Cut(Append(l, e)) \in Seq(Swarm!Accesses) /\ Ends(Swarm!Cut(Append(l, e)), Append(h, e))
<1>1. PICK x \in Nat, y \in Nat : x = Len(l) /\ y = Len(h)
  OBVIOUS
<1>2. PICK p, g : p = Append(l, e) /\ g = Append(h, e)
  OBVIOUS
<1>3. /\ p \in Seq(Swarm!Accesses) /\ Len(p) = x + 1 /\ p[x + 1] = e /\ \A i \in 1..x : p[i] = l[i]
      /\ g \in Seq(Swarm!Accesses) /\ Len(g) = y + 1 /\ g[y + 1] = e /\ \A i \in 1..y : g[i] = h[i]
  BY <1>1, <1>2
<1>4. x <= y /\ (x >= KeepLog \/ x = y) /\ \A i \in 1..x : l[i] = h[y - x + i]
  BY <1>1 DEF Ends
<1>5. KeepLog \in Nat /\ MaxLog \in Nat /\ KeepLog <= MaxLog
  BY DEF Swarm!SwarmAssumption
<1>6. \A i \in 1..(x + 1) : p[i] = g[y - x + i]
  <2> SUFFICES ASSUME NEW i \in 1..(x + 1) PROVE p[i] = g[y - x + i]
    OBVIOUS
  <2>1. CASE i = x + 1
    <3>1. y - x + i = y + 1
      BY <1>1, <2>1
    <3> QED
      BY <1>3, <2>1, <3>1
  <2>2. CASE i \in 1..x
    <3>1. y - x + i \in 1..y
      BY <1>4, <2>2
    <3> QED
      BY <1>3, <1>4, <2>2, <3>1
  <2> QED
    BY <2>1, <2>2
<1>7. CASE x + 1 > MaxLog
  <2>0. PICK f : f = Len(p) - KeepLog + 1
    OBVIOUS
  <2>1. PICK z : z = SubSeq(p, f, Len(p))
    OBVIOUS
  <2>2. f = x + 1 - KeepLog + 1 /\ f \in Int
    BY <1>3, <1>5, <2>0
  <2>3. f \in 1..(x + 2) /\ \A i \in f..(x + 1) : i \in 1..(x + 1)
    BY <1>5, <1>7, <2>2
  <2>4. \A i \in f..(x + 1) : p[i] \in Swarm!Accesses
    BY <1>3, <2>3
  <2>5. /\ z \in Seq(Swarm!Accesses) /\ Len(z) = IF f <= x + 1 THEN (x + 1) - f + 1 ELSE 0
        /\ \A i \in 1..((x + 1) - f + 1) : z[i] = p[f + i - 1]
    BY <1>3, <2>1, <2>2, <2>3, <2>4, SubSeqProperties
  <2>6. (x + 1) - f + 1 = KeepLog /\ (IF f <= x + 1 THEN (x + 1) - f + 1 ELSE 0) = KeepLog
    BY <1>5, <2>2
  <2>7. Len(z) = KeepLog /\ \A i \in 1..KeepLog : z[i] = p[f + i - 1]
    BY <2>5, <2>6
  <2>8. \A i \in 1..KeepLog : /\ f + i - 1 \in 1..(x + 1)
                              /\ y - x + (f + i - 1) = (y + 1) - KeepLog + i
    BY <1>5, <1>7, <2>2
  <2>9. \A i \in 1..KeepLog : z[i] = g[(y + 1) - KeepLog + i]
    <3> SUFFICES ASSUME NEW i \in 1..KeepLog PROVE z[i] = g[(y + 1) - KeepLog + i]
      OBVIOUS
    <3>1. z[i] = p[f + i - 1] /\ p[f + i - 1] = g[y - x + (f + i - 1)]
      BY <1>6, <2>7, <2>8
    <3> QED
      BY <2>8, <3>1
  <2>10. KeepLog <= y + 1 /\ KeepLog >= KeepLog
    BY <1>4, <1>5, <1>7
  <2>11. Ends(z, g)
    BY <1>3, <2>7, <2>9, <2>10 DEF Ends
  <2>12. Swarm!Cut(p) = z
    <3>1. Len(p) = x + 1
      BY <1>3
    <3>2. Len(p) > MaxLog
      BY <1>7, <3>1, Zenon
    <3> QED
      BY <2>0, <2>1, <3>2, Zenon DEF Swarm!Cut
  <2> QED
    BY <1>2, <2>5, <2>11, <2>12
<1>8. CASE ~ (x + 1 > MaxLog)
  <2>1. Swarm!Cut(p) = p
    BY <1>3, <1>8 DEF Swarm!Cut
  <2>2. \A i \in 1..(x + 1) : y - x + i = (y + 1) - (x + 1) + i
    OBVIOUS
  <2>3. x + 1 <= y + 1 /\ (x + 1 >= KeepLog \/ x + 1 = y + 1)
    BY <1>4, <1>5
  <2>4. Ends(p, g)
    BY <1>3, <1>6, <2>2, <2>3 DEF Ends
  <2> QED
    BY <1>2, <1>3, <2>1, <2>4
<1> QED
  BY <1>7, <1>8

(* Looking finds all there is in the log.                                   *)
LEMMA LogSearched ==
  ASSUME Swarm!SwarmAssumption, NEW l \in Seq(Swarm!Accesses), NEW h \in Seq(Swarm!Accesses), Ends(l, h),
         NEW d, NEW n, Found(d, h, n)
  PROVE  Found(d \cup Swarm!Pairs(l), h, Len(h))
<1>1. PICK x \in Nat, y \in Nat : x = Len(l) /\ y = Len(h)
  OBVIOUS
<1>2. x <= y /\ (x >= KeepLog \/ x = y) /\ \A i \in 1..x : l[i] = h[y - x + i]
  BY <1>1 DEF Ends
<1>3. KeepLog \in Nat
  BY DEF Swarm!SwarmAssumption
<1>4. Swarm!Range(l) \subseteq Swarm!Range(h)
  <2>1. DOMAIN l = 1..x /\ DOMAIN h = 1..y /\ \A i \in 1..x : y - x + i \in 1..y
    BY <1>1, <1>2
  <2> QED
    BY <1>2, <2>1 DEF Swarm!Range
<1>5. ASSUME NEW i \in 1..y, y - i < KeepLog PROVE Swarm!Range(SubSeq(h, i, y)) \subseteq Swarm!Range(l)
  <2>1. Swarm!Range(SubSeq(h, i, y)) = {h[j] : j \in i..y}
    <3>1. i \in 1..Len(h) /\ y \in 0..Len(h)
      BY <1>1
    <3> QED
      BY <3>1, PartRange
  <2>2. ASSUME NEW j \in i..y PROVE h[j] \in Swarm!Range(l)
    <3>1. j - (y - x) \in 1..x /\ y - x + (j - (y - x)) = j
      BY <1>2, <1>3, <1>5
    <3>2. l[j - (y - x)] = h[y - x + (j - (y - x))]
      BY <1>2, <3>1
    <3>3. DOMAIN l = 1..x
      BY <1>1
    <3> QED
      BY <3>1, <3>2, <3>3 DEF Swarm!Range
  <2> QED
    BY <2>1, <2>2
<1>6. ASSUME NEW i \in 1..y, y - i < KeepLog PROVE Swarm!Pairs(SubSeq(h, i, y)) \subseteq Swarm!Pairs(l)
  BY <1>5, <1>6, PairsGrow
<1>7. Swarm!Pairs(l) \subseteq Swarm!Pairs(h)
  BY <1>4, PairsGrow
<1> QED
  BY <1>1, <1>6, <1>7 DEF Found

(* Nothing was accessed yet.                                                *)
LEMMA LogInit == ASSUME Swarm!SwarmAssumption, Swarm!Init PROVE LogIInv
<1>1. accessLog = <<>> /\ history = <<>> /\ looked = 0 /\ dependencies = {}
  BY DEF Swarm!Init
<1>2. Len(<<>>) = 0 /\ 1..0 = {} /\ 0 \in 0..0 /\ 0 <= 0
  OBVIOUS
<1> QED
  BY <1>1, <1>2 DEF LogIInv, Ends, Found

(* Every step of the log keeps it.                                          *)
LEMMA LogNextInv == ASSUME Swarm!SwarmAssumption, LogIInv, Swarm!LogNext PROVE LogIInv'
<1>0. /\ accessLog \in Seq(Swarm!Accesses) /\ history \in Seq(Swarm!Accesses) /\ looked \in 0..Len(history)
      /\ Ends(accessLog, history) /\ Found(dependencies, history, looked)
  BY DEF LogIInv
<1>1. ASSUME NEW a \in Members, NEW f \in {Resource}, NEW o \in {"read", "write"}, NEW n \in {0, 1},
             Swarm!RecordAccess(a, f, o, n)
      PROVE  LogIInv'
  <2> DEFINE last == IF history = <<>> THEN 0 ELSE Swarm!Last(history).timestamp
             entry == [agent |-> a, resource |-> f, operation |-> o, timestamp |-> last + n]
  <2>1. /\ accessLog' = Swarm!Cut(Append(accessLog, entry)) /\ history' = Append(history, entry)
        /\ dependencies' = dependencies /\ looked' = looked
    BY <1>1 DEF Swarm!RecordAccess
  <2>2. last \in Nat
    <3>1. history # <<>> => Len(history) \in 1..Len(history)
      BY <1>0
    <3>2. history # <<>> => history[Len(history)] \in Swarm!Accesses
      BY <1>0, <3>1
    <3> QED
      BY <3>2 DEF Swarm!Last, Swarm!Accesses
  <2>3. entry \in Swarm!Accesses
    <3> HIDE DEF last
    <3>1. last + n \in Nat
      BY <2>2
    <3> QED
      BY <3>1 DEF Swarm!Accesses
  <2> HIDE DEF entry
  <2>4. PICK l, h : l = Swarm!Cut(Append(accessLog, entry)) /\ h = Append(history, entry)
    OBVIOUS
  <2>5. l \in Seq(Swarm!Accesses) /\ Ends(l, h)
    <3>1. /\ Swarm!Cut(Append(accessLog, entry)) \in Seq(Swarm!Accesses)
          /\ Ends(Swarm!Cut(Append(accessLog, entry)), Append(history, entry))
      BY <1>0, <2>3, LogCut
    <3> QED
      BY <2>4, <3>1, Zenon
  <2>6. h \in Seq(Swarm!Accesses) /\ looked \in 0..Len(h)
    BY <1>0, <2>3, <2>4
  <2>7. Found(dependencies, h, looked)
    <3>1. Found(dependencies, Append(history, entry), looked)
      BY <1>0, <2>3, LogGrows
    <3> QED
      BY <2>4, <3>1, Zenon
  <2>8. accessLog' = l /\ history' = h
    BY <2>1, <2>4
  <2> QED
    BY <2>1, <2>5, <2>6, <2>7, <2>8 DEF LogIInv
<1>2. CASE Swarm!Discover
  <2>1. /\ accessLog' = accessLog /\ history' = history
        /\ dependencies' = dependencies \cup Swarm!Pairs(accessLog) /\ looked' = Len(history)
    BY <1>2 DEF Swarm!Discover
  <2>2. Found(dependencies \cup Swarm!Pairs(accessLog), history, Len(history))
    BY <1>0, LogSearched
  <2>3. Len(history) \in 0..Len(history)
    BY <1>0
  <2> QED
    BY <1>0, <2>1, <2>2, <2>3 DEF LogIInv
<1> QED
  BY <1>1, <1>2 DEF Swarm!LogNext

(* So the dependencies are those of the accesses.                           *)
LEMMA LogSuffices == ASSUME LogIInv PROVE Swarm!DiscoversExactly
  BY DEF LogIInv, Found, Swarm!DiscoversExactly

-----------------------------------------------------------------------------
(* The life cycle of an agent.                                             *)

(* What was counted as a retry is in retryCount, which refusals increase as *)
(* well; so the limit on retryCount bounds the retries.                     *)
RetriesCounted == retries <= retryCount

LifecycleIInv == Lifecycle!TypeOK /\ RetriesCounted /\ Lifecycle!GateHolds

-----------------------------------------------------------------------------
(* The table leads from states to states.                                   *)
LEMMA TargetsAreStates == \A s \in Lifecycle!AgentState : Lifecycle!ValidTargets[s] \subseteq Lifecycle!AgentState
BY DEF Lifecycle!AgentState, Lifecycle!ValidTargets

(* No state leads to work except by the gate, by a resumption or from work. *)
LEMMA WaysToWork ==
  ASSUME NEW s \in Lifecycle!AgentState, NEW to \in Lifecycle!Working, to \in Lifecycle!ValidTargets[s]
  PROVE  s \in Lifecycle!Working \cup {"SUSPENDED"} \/ (s = "PLANNING" /\ to = "EXECUTING")
BY DEF Lifecycle!AgentState, Lifecycle!ValidTargets, Lifecycle!Working

(* A new agent.                                                             *)
LEMMA LifecycleInit == ASSUME Lifecycle!LifecycleAssumption, Lifecycle!Init PROVE LifecycleIInv
<1>1. /\ agent \in Lifecycle!AgentState
      /\ bootstrap \in BOOLEAN /\ approved \in BOOLEAN /\ resumed \in BOOLEAN
  BY DEF Lifecycle!Init, Lifecycle!AgentState
<1>2. retryCount \in 0..(MaxAttempts + MaxRefused) /\ retries \in 0..MaxAttempts /\ retries <= retryCount
  BY DEF Lifecycle!LifecycleAssumption, Lifecycle!Init
<1>3. Lifecycle!GateHolds
  BY DEF Lifecycle!Init, Lifecycle!GateHolds, Lifecycle!Working
<1> QED
  BY <1>1, <1>2, <1>3 DEF LifecycleIInv, Lifecycle!TypeOK, RetriesCounted

(* A transition keeps the counts within their limits.                       *)
LEMMA TransitionCounts ==
  ASSUME Lifecycle!LifecycleAssumption, LifecycleIInv, NEW to, NEW confidence, Lifecycle!Transition(to, confidence)
  PROVE  Lifecycle!TypeOK' /\ RetriesCounted'
<1>1. agent \in Lifecycle!AgentState /\ agent' = to /\ to \in Lifecycle!AgentState
  BY TargetsAreStates DEF LifecycleIInv, Lifecycle!TypeOK, Lifecycle!Transition
<1>2. retryCount' \in 0..(MaxAttempts + MaxRefused) /\ retries' \in 0..MaxAttempts /\ retries' <= retryCount'
  <2>1. CASE to \in {"COMPLETED", "IDLE"}
    BY <2>1 DEF Lifecycle!LifecycleAssumption, Lifecycle!Transition, Lifecycle!Counted
  <2>2. CASE to \notin {"COMPLETED", "IDLE"} /\ Lifecycle!IsRetry(to)
    BY <2>2 DEF Lifecycle!LifecycleAssumption, LifecycleIInv, Lifecycle!TypeOK, RetriesCounted, Lifecycle!Transition, Lifecycle!Counted
  <2>3. CASE to \notin {"COMPLETED", "IDLE"} /\ ~Lifecycle!IsRetry(to)
    BY <2>3 DEF LifecycleIInv, Lifecycle!TypeOK, RetriesCounted, Lifecycle!Transition, Lifecycle!Counted
  <2> QED
    BY <2>1, <2>2, <2>3
<1>3. bootstrap' \in BOOLEAN /\ approved' \in BOOLEAN /\ resumed' \in BOOLEAN
  BY DEF LifecycleIInv, Lifecycle!TypeOK, Lifecycle!Transition
<1> QED
  BY <1>1, <1>2, <1>3 DEF Lifecycle!TypeOK, RetriesCounted

(* A transition that leads to work had the gate's approval.                 *)
LEMMA TransitionGate ==
  ASSUME LifecycleIInv, NEW to, NEW confidence, Lifecycle!Transition(to, confidence)
  PROVE  Lifecycle!GateHolds'
<1> SUFFICES ASSUME to \in Lifecycle!Working, ~resumed' PROVE approved'
  BY DEF Lifecycle!GateHolds, Lifecycle!Transition
<1>1. agent \in Lifecycle!AgentState /\ to \in Lifecycle!ValidTargets[agent] /\ to # "PLANNING"
  BY DEF LifecycleIInv, Lifecycle!TypeOK, Lifecycle!Transition, Lifecycle!Working
<1>2. agent # "SUSPENDED" /\ ~resumed
  BY <1>1 DEF Lifecycle!Transition
<1>3. CASE agent \in Lifecycle!Working
  BY <1>1, <1>2, <1>3 DEF LifecycleIInv, Lifecycle!GateHolds, Lifecycle!Transition
<1>4. CASE agent = "PLANNING" /\ to = "EXECUTING"
  BY <1>1, <1>4 DEF Lifecycle!Transition, Lifecycle!Passes
<1> QED
  BY <1>1, <1>2, <1>3, <1>4, WaysToWork

(* Every step keeps it.                                                     *)
LEMMA LifecycleNext == ASSUME Lifecycle!LifecycleAssumption, LifecycleIInv, [Lifecycle!Next]_Lifecycle!vars PROVE LifecycleIInv'
<1>1. ASSUME NEW to, NEW confidence, Lifecycle!Transition(to, confidence) PROVE LifecycleIInv'
  BY <1>1, TransitionCounts, TransitionGate DEF LifecycleIInv
<1>2. CASE Lifecycle!RefuseRetry
  <2>1. retryCount' \in 0..(MaxAttempts + MaxRefused) /\ retries' <= retryCount'
    BY <1>2 DEF Lifecycle!LifecycleAssumption, LifecycleIInv, Lifecycle!TypeOK, RetriesCounted, Lifecycle!RefuseRetry
  <2> QED
    BY <1>2, <2>1 DEF LifecycleIInv, Lifecycle!TypeOK, RetriesCounted, Lifecycle!GateHolds, Lifecycle!RefuseRetry
<1>3. CASE Lifecycle!Expire
  BY <1>3 DEF LifecycleIInv, Lifecycle!TypeOK, RetriesCounted, Lifecycle!GateHolds, Lifecycle!Expire
<1>4. CASE UNCHANGED Lifecycle!vars
  BY <1>4 DEF LifecycleIInv, Lifecycle!TypeOK, RetriesCounted, Lifecycle!GateHolds, Lifecycle!vars
<1> QED
  BY <1>1, <1>2, <1>3, <1>4 DEF Lifecycle!Next, Lifecycle!Suspend, Lifecycle!Resume
=============================================================================
