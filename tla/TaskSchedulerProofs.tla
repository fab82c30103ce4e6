------------------------ MODULE TaskSchedulerProofs ------------------------
(***************************************************************************)
(* What holds of the task scheduler for every number of tasks, agents and  *)
(* concurrent redistributions, and for every queue length.                 *)
(***************************************************************************)
EXTENDS TaskScheduler, FiniteSetTheorems, SequenceTheorems, TLAPS

-----------------------------------------------------------------------------
(* Facts about the sort of the queue.                                       *)

(* The elements of an array of entries, and the indices of any array.       *)
LEMMA EntryAt ==
  ASSUME NEW s \in Seq(Entry)
  PROVE  /\ Len(s) \in Nat
         /\ DOMAIN s = 1..Len(s)
         /\ \A i \in 1..Len(s) : /\ s[i] \in Entry
                                /\ s[i].task \in Tasks
                                /\ s[i].score \in Nat
<1>1. Len(s) \in Nat /\ DOMAIN s = 1..Len(s)
  OBVIOUS
<1>2. ASSUME NEW i \in 1..Len(s)
      PROVE  s[i] \in Entry
  OBVIOUS
<1> QED
  BY <1>1, <1>2 DEF Entry

(* The first entry goes to place 1 at the earliest, the last to Len(s).     *)
LEMMA PlaceInRange ==
  ASSUME NEW s \in Seq(Entry), NEW i \in DOMAIN s
  PROVE  /\ Place(s, i) \in 1..Len(s)
         /\ IsFiniteSet({j \in DOMAIN s : Precedes(s, j, i)})
<1> DEFINE B == {j \in DOMAIN s : Precedes(s, j, i)}
<1>1. /\ IsFiniteSet(1..Len(s))
      /\ Cardinality(1..Len(s)) = Len(s)
  BY FS_Interval
<1>2. B \subseteq 1..Len(s) /\ i \notin B /\ i \in 1..Len(s)
  BY EntryAt DEF Precedes
<1>3. /\ IsFiniteSet(B)
      /\ Cardinality(B) <= Len(s)
      /\ Cardinality(B) # Len(s)
  BY <1>1, <1>2, FS_Subset
<1>4. Cardinality(B) \in Nat
  BY <1>3, FS_CardinalityType
<1> QED
  BY <1>3, <1>4 DEF Place

(* The order the sort uses is total, so no two entries get the same place.  *)
LEMMA PlaceStrict ==
  ASSUME NEW s \in Seq(Entry), NEW i \in DOMAIN s, NEW j \in DOMAIN s,
         Precedes(s, i, j)
  PROVE  Place(s, i) < Place(s, j)
<1> DEFINE B(x) == {k \in DOMAIN s : Precedes(s, k, x)}
<1>1. IsFiniteSet(B(i)) /\ IsFiniteSet(B(j))
  <2>1. IsFiniteSet(B(i))
    BY PlaceInRange
  <2>2. IsFiniteSet(B(j))
    BY PlaceInRange
  <2> QED
    BY <2>1, <2>2
<1>2. B(i) \subseteq B(j) /\ i \in B(j) /\ i \notin B(i)
  BY EntryAt DEF Precedes
<1>3. /\ Cardinality(B(i)) <= Cardinality(B(j))
      /\ Cardinality(B(i)) # Cardinality(B(j))
  BY <1>1, <1>2, FS_Subset
<1>4. Cardinality(B(i)) \in Nat /\ Cardinality(B(j)) \in Nat
  BY <1>1, FS_CardinalityType
<1> QED
  BY <1>3, <1>4 DEF Place

(* Every position of the sorted queue is the place of some entry.           *)
LEMMA PlaceOnto ==
  ASSUME NEW s \in Seq(Entry), NEW k \in DOMAIN s
  PROVE  \E i \in DOMAIN s : Place(s, i) = k
<1> DEFINE f == [i \in 1..Len(s) |-> Place(s, i)]
<1>1. f \in [1..Len(s) -> 1..Len(s)]
  BY EntryAt, PlaceInRange
<1>2. ASSUME NEW i \in 1..Len(s), NEW j \in 1..Len(s), f[i] = f[j]
      PROVE  i = j
  <2>1. f[i] \in Int /\ f[j] \in Int
    BY <1>1
  <2>2. i # j => Precedes(s, i, j) \/ Precedes(s, j, i)
    BY EntryAt DEF Precedes
  <2> QED
    BY <1>2, <2>1, <2>2, PlaceStrict
<1>3. f \in Injection(1..Len(s), 1..Len(s))
  BY <1>1, <1>2 DEF Injection, IsInjective
<1>4. f \in Surjection(1..Len(s), 1..Len(s))
  BY <1>3, FS_Interval, FS_Injection
<1> QED
  BY <1>4, EntryAt DEF Surjection

(* Sorting an array keeps its length and its entries and puts them in       *)
(* ascending order of score.                                                *)
THEOREM SortedSorts ==
  ASSUME NEW s \in Seq(Entry)
  PROVE  /\ Sorted(s) \in Seq(Entry)
         /\ Len(Sorted(s)) = Len(s)
         /\ \A k \in DOMAIN s : \E i \in DOMAIN s : Sorted(s)[k] = s[i]
         /\ \A i \in DOMAIN s : \E k \in DOMAIN s : Sorted(s)[k] = s[i]
         /\ \A k, l \in DOMAIN s :
               k < l => Sorted(s)[k].score <= Sorted(s)[l].score
<1> DEFINE src(k) == CHOOSE i \in DOMAIN s : Place(s, i) = k
<1>1. ASSUME NEW k \in DOMAIN s
      PROVE  src(k) \in DOMAIN s /\ Place(s, src(k)) = k
  BY PlaceOnto
<1>2. \A k \in DOMAIN s : Sorted(s)[k] = s[src(k)]
  BY DEF Sorted
<1>3. Sorted(s) \in Seq(Entry) /\ Len(Sorted(s)) = Len(s)
  <2>1. Sorted(s) \in [1..Len(s) -> Entry]
    BY <1>1, EntryAt DEF Sorted
  <2> QED
    BY <2>1, EntryAt
<1>4. ASSUME NEW i \in DOMAIN s
      PROVE  \E k \in DOMAIN s : Sorted(s)[k] = s[i]
  <2>1. Place(s, i) \in DOMAIN s
    BY PlaceInRange, EntryAt
  <2>2. src(Place(s, i)) = i
    <3> DEFINE j == src(Place(s, i))
    <3>1. j \in DOMAIN s /\ Place(s, j) = Place(s, i)
      BY <2>1, <1>1
    <3>2. j # i => Precedes(s, i, j) \/ Precedes(s, j, i)
      BY <3>1, EntryAt DEF Precedes
    <3> QED
      BY <3>1, <3>2, <2>1, PlaceStrict
  <2> QED
    BY <2>1, <2>2, <1>2
<1>5. ASSUME NEW k \in DOMAIN s, NEW l \in DOMAIN s, k < l
      PROVE  Sorted(s)[k].score <= Sorted(s)[l].score
  <2>1. /\ src(k) \in DOMAIN s /\ Place(s, src(k)) = k
        /\ src(l) \in DOMAIN s /\ Place(s, src(l)) = l
    BY <1>1
  <2>2. ~ Precedes(s, src(l), src(k))
    BY <2>1, <1>5, PlaceStrict
  <2>3. s[src(k)].score <= s[src(l)].score
    BY <2>1, <2>2, EntryAt DEF Precedes
  <2> QED
    BY <2>3, <1>2
<1> QED
  BY <1>1, <1>2, <1>3, <1>4, <1>5

-----------------------------------------------------------------------------
(* What each array operation does to the set of entries.                    *)

(* Sorting keeps the set of entries.                                        *)
LEMMA SortedSet ==
  ASSUME NEW s \in Seq(Entry)
  PROVE  Sorted(s) \in Seq(Entry) /\ ToSet(Sorted(s)) = ToSet(s)
<1>1. DOMAIN Sorted(s) = DOMAIN s
  BY SortedSorts
<1> QED
  BY <1>1, SortedSorts DEF ToSet

(* Appending adds one entry to the set.                                     *)
LEMMA AppendSet ==
  ASSUME NEW S, NEW s \in Seq(S), NEW e \in S
  PROVE  Append(s, e) \in Seq(S) /\ ToSet(Append(s, e)) = ToSet(s) \cup {e}
<1>1. /\ Append(s, e) \in Seq(S)
      /\ DOMAIN Append(s, e) = 1..(Len(s) + 1)
      /\ DOMAIN s = 1..Len(s)
      /\ \A i \in 1..Len(s) : Append(s, e)[i] = s[i]
      /\ Append(s, e)[Len(s) + 1] = e
      /\ Len(s) \in Nat
  OBVIOUS
<1>2. \A i \in 1..(Len(s) + 1) : i \in 1..Len(s) \/ i = Len(s) + 1
  BY <1>1
<1> QED
  BY <1>1, <1>2 DEF ToSet

(* Removing a position takes away at most the entry that was there.         *)
LEMMA RemoveAtSet ==
  ASSUME NEW s \in Seq(Entry), NEW i \in DOMAIN s
  PROVE  /\ RemoveAt(s, i) \in Seq(Entry)
         /\ ToSet(RemoveAt(s, i)) \subseteq ToSet(s)
         /\ ToSet(s) \subseteq ToSet(RemoveAt(s, i)) \cup {s[i]}
<1> DEFINE r == RemoveAt(s, i)
<1>1. /\ Len(s) \in Nat
      /\ DOMAIN s = 1..Len(s)
      /\ i \in 1..Len(s)
  BY EntryAt
<1> DEFINE u == SubSeq(s, 1, i - 1)
           v == SubSeq(s, i + 1, Len(s))
<1>a. /\ u \in Seq(Entry) /\ Len(u) = i - 1
      /\ \A j \in 1..(i - 1) : u[j] = s[j]
  BY <1>1
<1>b. /\ v \in Seq(Entry) /\ Len(v) = Len(s) - i
      /\ \A j \in 1..(Len(s) - i) : v[j] = s[i + j]
  BY <1>1
<1>d. r = u \o v
  BY DEF RemoveAt
<1> HIDE DEF u, v, r
<1>c. /\ u \o v \in Seq(Entry)
      /\ Len(u \o v) = Len(s) - 1
      /\ \A j \in 1..(Len(s) - 1) :
            (u \o v)[j] = IF j <= i - 1 THEN u[j] ELSE v[j - (i - 1)]
  <2>1. /\ u \o v \in Seq(Entry)
        /\ Len(u \o v) = Len(u) + Len(v)
        /\ \A j \in 1 .. Len(u) + Len(v) : (u \o v)[j] =
               IF j <= Len(u) THEN u[j] ELSE v[j - Len(u)]
    BY <1>a, <1>b, ConcatProperties
  <2>2. Len(u) + Len(v) = Len(s) - 1
    BY <1>1, <1>a, <1>b
  <2> QED
    BY <1>a, <2>1, <2>2
<1>2. /\ r \in Seq(Entry)
      /\ DOMAIN r = 1..(Len(s) - 1)
      /\ \A j \in 1..(Len(s) - 1) : r[j] = IF j < i THEN s[j] ELSE s[j + 1]
  <2>1. r \in Seq(Entry) /\ DOMAIN r = 1..(Len(s) - 1)
    BY <1>c, <1>d
  <2>2. ASSUME NEW j \in 1..(Len(s) - 1)
        PROVE  r[j] = IF j < i THEN s[j] ELSE s[j + 1]
    <3>1. CASE j < i
      BY <1>1, <1>a, <1>c, <1>d, <3>1
    <3>2. CASE ~ (j < i)
      <4>1. /\ j - (i - 1) \in 1..(Len(s) - i)
            /\ i + (j - (i - 1)) = j + 1
            /\ ~ (j <= i - 1)
        BY <1>1, <3>2
      <4> QED
        BY <1>b, <1>c, <1>d, <3>2, <4>1
    <3> QED
      BY <3>1, <3>2
  <2> QED
    BY <2>1, <2>2
<1>3. ToSet(r) \subseteq ToSet(s)
  <2>1. ASSUME NEW j \in 1..(Len(s) - 1)
        PROVE  r[j] \in ToSet(s)
    BY <1>1, <1>2 DEF ToSet
  <2> QED
    BY <1>2, <2>1 DEF ToSet
<1>4. ASSUME NEW j \in 1..Len(s), j # i
      PROVE  \E k \in 1..(Len(s) - 1) : r[k] = s[j]
  <2>1. CASE j < i
    BY <1>1, <1>2, <2>1
  <2>2. CASE j > i
    <3>1. /\ j - 1 \in 1..(Len(s) - 1)
          /\ ~ (j - 1 < i)
          /\ (j - 1) + 1 = j
      BY <1>1, <2>2
    <3> QED
      BY <1>2, <3>1
  <2> QED
    BY <1>1, <1>4, <2>1, <2>2
<1>5. ToSet(s) \subseteq ToSet(r) \cup {s[i]}
  <2>1. ASSUME NEW j \in 1..Len(s), j # i
        PROVE  s[j] \in ToSet(r)
    BY <1>2, <1>4, <2>1 DEF ToSet
  <2> QED
    BY <1>1, <2>1 DEF ToSet
<1> QED
  BY <1>2, <1>3, <1>5 DEF r

(* A score is a natural number for each of the four priorities.             *)
LEMMA ScoreNat ==
  ASSUME NEW p \in 0..3, NEW c \in Nat
  PROVE  Score(p, c) \in Nat
<1>1. p = 0 \/ p = 1 \/ p = 2 \/ p = 3
  OBVIOUS
<1> QED
  BY <1>1, SchedulerAssumption DEF Score

(* The entry pushed for a known task is well formed.                        *)
LEMMA NewEntryType ==
  ASSUME TypeOK, NEW t \in Tasks
  PROVE  NewEntry(t) \in Entry
<1>1. priority[t] \in 0..3 /\ createdAt[t] \in Nat
  BY SchedulerAssumption DEF TypeOK
<1> QED
  BY <1>1, ScoreNat DEF NewEntry, Entry

(* Boosting changes no task and no position, only the score of aged tasks.  *)
LEMMA BoostedQueue ==
  ASSUME TypeOK
  PROVE  /\ Boosted(queue) \in Seq(Entry)
         /\ DOMAIN Boosted(queue) = DOMAIN queue
         /\ \A i \in DOMAIN queue :
               /\ Boosted(queue)[i].task = queue[i].task
               /\ Boosted(queue)[i].score =
                    IF status[queue[i].task] = "queued" /\ Aged(queue[i].task)
                    THEN Score(priority[queue[i].task] - 2,
                               createdAt[queue[i].task])
                    ELSE queue[i].score
<1>1. /\ queue \in Seq(Entry)
      /\ DOMAIN queue = 1..Len(queue)
      /\ Len(queue) \in Nat
  BY EntryAt DEF TypeOK
<1>2. ASSUME NEW i \in DOMAIN queue
      PROVE  /\ Boosted(queue)[i] \in Entry
             /\ Boosted(queue)[i].task = queue[i].task
             /\ Boosted(queue)[i].score =
                  IF status[queue[i].task] = "queued" /\ Aged(queue[i].task)
                  THEN Score(priority[queue[i].task] - 2,
                             createdAt[queue[i].task])
                  ELSE queue[i].score
  <2> DEFINE t == queue[i].task
  <2>1. queue[i] \in Entry /\ t \in Tasks
    BY <1>1, EntryAt
  <2>2. CASE status[t] = "queued" /\ Aged(t)
    <3>1. priority[t] - 2 \in 0..3 /\ createdAt[t] \in Nat
      BY <2>1, <2>2 DEF TypeOK, Aged
    <3>2. Score(priority[t] - 2, createdAt[t]) \in Nat
      BY <3>1, ScoreNat
    <3>3. Boosted(queue)[i] =
            [queue[i] EXCEPT !.score = Score(priority[t] - 2, createdAt[t])]
      BY <2>2 DEF Boosted
    <3> QED
      BY <2>1, <2>2, <3>2, <3>3 DEF Entry
  <2>3. CASE ~ (status[t] = "queued" /\ Aged(t))
    <3>1. Boosted(queue)[i] = queue[i]
      BY <2>3 DEF Boosted
    <3> QED
      BY <2>1, <2>3, <3>1
  <2> QED
    BY <2>2, <2>3
<1>3. DOMAIN Boosted(queue) = DOMAIN queue
  BY DEF Boosted
<1>4. Boosted(queue) \in [1..Len(queue) -> Entry]
  BY <1>1, <1>2 DEF Boosted
<1>5. Boosted(queue) \in Seq(Entry)
  BY <1>1, <1>4
<1> QED
  BY <1>2, <1>3, <1>5

(* What submit does to the queue: one more entry, sorted in.                *)
LEMMA PushSorted ==
  ASSUME NEW s \in Seq(Entry), NEW e \in Entry
  PROVE  /\ Sorted(Append(s, e)) \in Seq(Entry)
         /\ ToSet(Sorted(Append(s, e))) = ToSet(s) \cup {e}
<1>1. Append(s, e) \in Seq(Entry) /\ ToSet(Append(s, e)) = ToSet(s) \cup {e}
  BY AppendSet
<1> HIDE DEF Entry
<1> QED
  BY <1>1, SortedSet

-----------------------------------------------------------------------------
(* The invariant holds initially and every action preserves it.             *)

(* The empty scheduler satisfies the inductive invariant.                   *)
LEMMA InitInv == Init => IInv
<1> SUFFICES ASSUME Init
             PROVE  IInv
  OBVIOUS
<1>1. Known = {} /\ ToSet(queue) = {}
  BY DEF Init, Known, ToSet
<1>2. TypeOK
  BY DEF Init, TypeOK, Statuses
<1>3. /\ OnlyKnown /\ QueuedHasEntry /\ RunningIsHeld
      /\ PersistedAgrees /\ ScoresOK
  BY <1>1 DEF Init, OnlyKnown, QueuedHasEntry, RunningIsHeld,
              PersistedAgrees, ScoresOK
<1> QED
  BY <1>2, <1>3 DEF IInv

(* Time passing keeps it: an entry that ages later may be unboosted.        *)
LEMMA TickInv ==
  ASSUME IInv, Tick
  PROVE  IInv'
<1> USE DEF IInv
<1>1. TypeOK'
  BY DEF Tick, TypeOK, fields, Call
<1>2. OnlyKnown' /\ QueuedHasEntry' /\ RunningIsHeld' /\ PersistedAgrees'
  BY DEF Tick, fields, OnlyKnown, QueuedHasEntry, RunningIsHeld,
         PersistedAgrees, Known
<1>3. ScoresOK'
  <2>1. ASSUME NEW t \in Tasks, Aged(t)
        PROVE  Aged(t)'
    BY <2>1, SchedulerAssumption DEF Tick, fields, Aged, TypeOK
  <2>2. ASSUME NEW e \in ToSet(queue)
        PROVE  e.task \in Tasks
    BY <2>2, EntryAt DEF TypeOK, ToSet
  <2> QED
    BY <2>1, <2>2 DEF Tick, fields, ScoresOK
<1> QED
  BY <1>1, <1>2, <1>3

(* Submitting a task keeps it: the new entry is the one its task needs.     *)
LEMMA SubmitInv ==
  ASSUME IInv, NEW t \in Tasks, NEW c \in 0..now, Submit(t, c)
  PROVE  IInv'
<1> DEFINE e == [task |-> t, score |-> Score(priority[t], c)]
<1> USE DEF IInv
<1>1. e \in Entry
  <2>1. priority[t] \in 0..3
    BY SchedulerAssumption DEF TypeOK
  <2>2. c \in Nat
    BY DEF TypeOK
  <2> QED
    BY <2>1, <2>2, ScoreNat DEF Entry
<1>2. /\ queue' \in Seq(Entry)
      /\ ToSet(queue') = ToSet(queue) \cup {e}
  <2>1. queue \in Seq(Entry) /\ queue' = Sorted(Append(queue, e))
    BY DEF TypeOK, Submit
  <2> HIDE DEF e
  <2> QED
    BY <1>1, <2>1, PushSorted
<1>3. /\ tasks' \in Seq(Tasks)
      /\ Known' = Known \cup {t}
      /\ t \notin Known
  BY AppendSet DEF TypeOK, Submit, Known
<1>4. TypeOK'
  BY <1>2, <1>3 DEF Submit, Persist, TypeOK, Statuses
<1>5. OnlyKnown'
  BY <1>2, <1>3 DEF Submit, OnlyKnown, TypeOK
<1>6. QueuedHasEntry'
  BY <1>2 DEF Submit, QueuedHasEntry, TypeOK
<1>7. RunningIsHeld'
  BY DEF Submit, RunningIsHeld, TypeOK
<1>8. PersistedAgrees'
  BY <1>3 DEF Submit, Persist, PersistedAgrees, TypeOK, Known
<1>9. ScoresOK'
  <2>1. e.task = t /\ e.score = Score(priority'[t], createdAt'[t])
    BY DEF Submit, TypeOK
  <2>2. ASSUME NEW f \in ToSet(queue)
        PROVE  /\ createdAt'[f.task] = createdAt[f.task]
               /\ priority'[f.task] = priority[f.task]
               /\ Aged(f.task)' <=> Aged(f.task)
    <3>1. f.task \in Tasks /\ f.task # t
      BY <1>3, EntryAt DEF OnlyKnown, TypeOK, ToSet
    <3> QED
      BY <3>1 DEF Submit, TypeOK, Aged
  <2> HIDE DEF e
  <2> QED
    BY <1>2, <2>1, <2>2 DEF ScoresOK
<1> QED
  BY <1>4, <1>5, <1>6, <1>7, <1>8, <1>9

(* Resubmitting a known task keeps it.                                      *)
LEMMA ResubmitInv ==
  ASSUME IInv, NEW t \in Tasks, Resubmit(t)
  PROVE  IInv'
<1> DEFINE e == NewEntry(t)
<1> USE DEF IInv
<1>2. /\ queue' \in Seq(Entry)
      /\ ToSet(queue') = ToSet(queue) \cup {e}
  <2>1. e \in Entry
    BY NewEntryType
  <2>2. queue \in Seq(Entry) /\ queue' = Sorted(Append(queue, e))
    BY DEF TypeOK, Resubmit
  <2> HIDE DEF e
  <2> QED
    BY <2>1, <2>2, PushSorted
<1>3. e.task = t /\ e.score = Score(priority[t], createdAt[t])
  BY DEF NewEntry
<1> HIDE DEF e
<1>4. TypeOK'
  BY <1>2 DEF Resubmit, Persist, TypeOK, Statuses
<1>5. OnlyKnown'
  BY <1>2, <1>3 DEF Resubmit, OnlyKnown, TypeOK, Known
<1>6. QueuedHasEntry'
  BY <1>2, <1>3 DEF Resubmit, QueuedHasEntry, TypeOK
<1>7. RunningIsHeld'
  BY DEF Resubmit, RunningIsHeld, TypeOK
<1>8. PersistedAgrees'
  BY DEF Resubmit, Persist, PersistedAgrees, TypeOK, Known
<1>9. ScoresOK'
  BY <1>2, <1>3 DEF Resubmit, ScoresOK, Aged
<1> QED
  BY <1>4, <1>5, <1>6, <1>7, <1>8, <1>9

(* The queue dequeue looks at: rescored, sorted, with the same tasks in it. *)
LEMMA DequeueScan ==
  ASSUME IInv, NEW q, q = Sorted(Boosted(queue))
  PROVE  /\ q \in Seq(Entry)
         /\ \A e \in ToSet(q) : \E f \in ToSet(queue) : f.task = e.task
         /\ \A f \in ToSet(queue) : \E e \in ToSet(q) : f.task = e.task
         /\ \A e \in ToSet(q) :
              \/ e.score = Score(priority[e.task], createdAt[e.task])
              \/ /\ Aged(e.task)
                 /\ e.score = Score(priority[e.task] - 2, createdAt[e.task])
         /\ \A e \in ToSet(q) :
              (status[e.task] = "queued" /\ Aged(e.task)) =>
                e.score = Score(priority[e.task] - 2, createdAt[e.task])
<1> DEFINE b == Boosted(queue)
<1>1. /\ b \in Seq(Entry)
      /\ DOMAIN b = DOMAIN queue
      /\ \A i \in DOMAIN queue :
           /\ b[i].task = queue[i].task
           /\ b[i].score =
                IF status[queue[i].task] = "queued" /\ Aged(queue[i].task)
                THEN Score(priority[queue[i].task] - 2,
                           createdAt[queue[i].task])
                ELSE queue[i].score
  BY BoostedQueue DEF IInv
<1> HIDE DEF b
<1>2. q \in Seq(Entry) /\ ToSet(q) = ToSet(b)
  BY <1>1, SortedSet DEF b
<1>3. \A i \in DOMAIN queue :
        \/ queue[i].score =
             Score(priority[queue[i].task], createdAt[queue[i].task])
        \/ /\ Aged(queue[i].task)
           /\ queue[i].score =
               Score(priority[queue[i].task] - 2, createdAt[queue[i].task])
  BY DEF IInv, ScoresOK, ToSet
<1>4. \A e \in ToSet(b) : \E i \in DOMAIN queue :
        /\ queue[i] \in ToSet(queue)
        /\ e = b[i]
  BY <1>1 DEF ToSet
<1>5. \A f \in ToSet(queue) : \E i \in DOMAIN queue :
        /\ b[i] \in ToSet(b)
        /\ f = queue[i]
  BY <1>1 DEF ToSet
<1>6. ASSUME NEW e \in ToSet(q)
      PROVE  /\ \E f \in ToSet(queue) : f.task = e.task
             /\ \/ e.score = Score(priority[e.task], createdAt[e.task])
                \/ /\ Aged(e.task)
                   /\ e.score = Score(priority[e.task] - 2, createdAt[e.task])
             /\ (status[e.task] = "queued" /\ Aged(e.task)) =>
                   e.score = Score(priority[e.task] - 2, createdAt[e.task])
  <2>1. PICK i \in DOMAIN queue : queue[i] \in ToSet(queue) /\ e = b[i]
    BY <1>2, <1>4
  <2> QED
    BY <1>1, <1>3, <2>1
<1>7. ASSUME NEW f \in ToSet(queue)
      PROVE  \E e \in ToSet(q) : f.task = e.task
  BY <1>1, <1>2, <1>5
<1> QED
  BY <1>2, <1>6, <1>7

(* A dequeue keeps it: the entry it removes is of a task that now runs.     *)
LEMMA DequeueInv ==
  ASSUME IInv, NEW a \in Agents, Dequeue(a)
  PROVE  IInv'
<1> USE DEF IInv
<1> DEFINE q == Sorted(Boosted(queue))
<1>1. /\ q \in Seq(Entry)
      /\ \A e \in ToSet(q) : \E f \in ToSet(queue) : f.task = e.task
      /\ \A f \in ToSet(queue) : \E e \in ToSet(q) : f.task = e.task
      /\ \A e \in ToSet(q) :
           \/ e.score = Score(priority[e.task], createdAt[e.task])
           \/ /\ Aged(e.task)
              /\ e.score = Score(priority[e.task] - 2, createdAt[e.task])
  BY DequeueScan
<1>2. CASE /\ queue' = q
           /\ UNCHANGED <<now, fields, tasks, kv, redist, held>>
  <2> HIDE DEF q
  <2>1. TypeOK'
    BY <1>1, <1>2 DEF TypeOK, fields, Call
  <2>2. OnlyKnown' /\ QueuedHasEntry'
    BY <1>1, <1>2 DEF fields, OnlyKnown, QueuedHasEntry, Known
  <2>3. RunningIsHeld' /\ PersistedAgrees'
    BY <1>2 DEF fields, RunningIsHeld, PersistedAgrees, Known
  <2>4. ScoresOK'
    BY <1>1, <1>2 DEF fields, ScoresOK, Aged
  <2> QED
    BY <2>1, <2>2, <2>3, <2>4
<1>3. ASSUME NEW i \in Eligible(q, a),
             queue' = RemoveAt(q, i),
             status' = [status EXCEPT ![q[i].task] = "running"],
             held' = [held EXCEPT ![a] = @ \cup {q[i].task}],
             UNCHANGED <<now, agentName, priority, createdAt, tasks, redist>>,
             Persist(q[i].task)
      PROVE  IInv'
  <2> HIDE DEF q
  <2> DEFINE t == q[i].task
  <2>1. /\ i \in DOMAIN q
        /\ t \in Tasks
        /\ status[t] = "queued"
        /\ agentName[t] = a
    BY <1>1, EntryAt DEF Eligible
  <2>2. /\ queue' \in Seq(Entry)
        /\ ToSet(queue') \subseteq ToSet(q)
        /\ ToSet(q) \subseteq ToSet(queue') \cup {q[i]}
    BY <1>1, <1>3, <2>1, RemoveAtSet
  <2>3. t \in Known
    BY <2>1 DEF OnlyKnown
  <2> HIDE DEF t
  <2>4. /\ status' = [status EXCEPT ![t] = "running"]
        /\ held' = [held EXCEPT ![a] = @ \cup {t}]
        /\ kv' = [kv EXCEPT ![t] =
                    [status |-> status'[t], agent |-> agentName'[t]]]
    BY <1>3 DEF Persist, t
  <2>5. TypeOK'
    BY <1>3, <2>1, <2>2, <2>4 DEF TypeOK, Statuses
  <2>6. OnlyKnown'
    BY <1>1, <1>3, <2>1, <2>2, <2>3, <2>4 DEF OnlyKnown, TypeOK, Known
  <2>7. QueuedHasEntry'
    <3>1. ASSUME NEW u \in Tasks, status'[u] = "queued"
          PROVE  \E e \in ToSet(queue') : e.task = u
      <4>1. u # t /\ status[u] = "queued"
        BY <2>1, <2>4, <3>1 DEF TypeOK
      <4>2. PICK e \in ToSet(q) : e.task = u
        BY <1>1, <4>1 DEF QueuedHasEntry
      <4> QED
        BY <2>2, <4>1, <4>2 DEF t
    <3> QED
      BY <3>1 DEF QueuedHasEntry
  <2>8. RunningIsHeld'
    BY <1>3, <2>1, <2>4 DEF RunningIsHeld, TypeOK
  <2>9. PersistedAgrees'
    BY <1>3, <2>1, <2>4 DEF PersistedAgrees, TypeOK, Known
  <2>10. ScoresOK'
    BY <1>1, <1>3, <2>2 DEF ScoresOK, Aged
  <2> QED
    BY <2>5, <2>6, <2>7, <2>8, <2>9, <2>10
<1> QED
  BY <1>2, <1>3 DEF Dequeue

(* complete and fail keep everything but what the reporter's hands hold.    *)
LEMMA OutcomeInv ==
  ASSUME IInv, NEW t \in Tasks, NEW s \in {"completed", "failed"},
         SetOutcome(t, s),
         \/ UNCHANGED held
         \/ \E a \in Agents : held' = [held EXCEPT ![a] = @ \ {t}]
  PROVE  IInv'
<1> USE DEF IInv
<1>1. /\ held' \in [Agents -> SUBSET Tasks]
      /\ \A b \in Agents : held'[b] \subseteq held[b]
      /\ \A b \in Agents, u \in Tasks \ {t} : u \in held[b] => u \in held'[b]
  <2>1. CASE UNCHANGED held
    BY <2>1 DEF TypeOK
  <2>2. ASSUME NEW a \in Agents, held' = [held EXCEPT ![a] = @ \ {t}]
        PROVE  /\ held' \in [Agents -> SUBSET Tasks]
               /\ \A b \in Agents : held'[b] \subseteq held[b]
               /\ \A b \in Agents, u \in Tasks \ {t} :
                     u \in held[b] => u \in held'[b]
    BY <2>2 DEF TypeOK
  <2> QED
    BY <2>1, <2>2
<1>2. t \in Known
  BY DEF SetOutcome
<1>3. /\ status' = [status EXCEPT ![t] = s]
      /\ UNCHANGED <<now, agentName, priority, createdAt, tasks, queue, redist>>
      /\ Persist(t)
  BY DEF SetOutcome
<1>4. TypeOK'
  BY <1>1, <1>2, <1>3 DEF Persist, TypeOK, Statuses
<1>5. OnlyKnown'
  BY <1>1, <1>2, <1>3 DEF OnlyKnown, TypeOK, Known
<1>6. QueuedHasEntry'
  BY <1>3 DEF QueuedHasEntry, TypeOK
<1>7. RunningIsHeld'
  BY <1>1, <1>3 DEF RunningIsHeld, TypeOK
<1>8. PersistedAgrees'
  BY <1>3 DEF Persist, PersistedAgrees, TypeOK, Known
<1>9. ScoresOK'
  BY <1>3 DEF ScoresOK, Aged
<1> QED
  BY <1>4, <1>5, <1>6, <1>7, <1>8, <1>9

(* A completion or failure keeps it, a late one included.                   *)
LEMMA ReportInv ==
  ASSUME IInv, NEW a \in Agents, NEW t \in held[a], Report(a, t)
  PROVE  IInv'
<1>1. t \in Tasks
  BY DEF IInv, TypeOK
<1>2. PICK s \in {"completed", "failed"} : SetOutcome(t, s)
  BY DEF Report, Complete, Fail
<1> QED
  BY <1>1, <1>2, OutcomeInv DEF Report

(* Each resumption of a redistribution keeps it, the final sort too.        *)
LEMMA MoveNextInv ==
  ASSUME IInv, NEW c \in Calls, NEW from \in Agents, NEW to \in Agents,
         NEW pos \in Nat, MoveNext(c, from, to, pos)
  PROVE  IInv'
<1> USE DEF IInv
<1>1. CASE /\ queue' = Sorted(queue)
           /\ redist' = [redist EXCEPT ![c] = Idle]
           /\ UNCHANGED <<now, fields, tasks, kv, held>>
  <2>1. queue' \in Seq(Entry) /\ ToSet(queue') = ToSet(queue)
    BY <1>1, SortedSet DEF TypeOK
  <2>2. TypeOK'
    BY <1>1, <2>1 DEF TypeOK, fields
  <2>3. OnlyKnown' /\ QueuedHasEntry'
    BY <1>1, <2>1 DEF fields, OnlyKnown, QueuedHasEntry, Known
  <2>4. RunningIsHeld' /\ PersistedAgrees'
    BY <1>1 DEF fields, RunningIsHeld, PersistedAgrees, Known
  <2>5. ScoresOK'
    BY <1>1, <2>1 DEF fields, ScoresOK, Aged
  <2> QED
    BY <2>2, <2>3, <2>4, <2>5
<1>2. ASSUME NEW i \in ToMove(from, pos),
             agentName' = [agentName EXCEPT ![tasks[i]] = to],
             status' = [status EXCEPT ![tasks[i]] = "queued"],
             queue' = Append(queue, NewEntry(tasks[i])),
             redist' = [redist EXCEPT ![c] =
                          [from |-> from, to |-> to, pos |-> i + 1]],
             UNCHANGED <<now, priority, createdAt, tasks, held>>,
             Persist(tasks[i])
      PROVE  IInv'
  <2> DEFINE t == tasks[i]
             e == NewEntry(t)
  <2>1. /\ i \in Nat
        /\ t \in Tasks /\ t \in Known
    BY DEF ToMove, TypeOK, Known, ToSet
  <2>2. e \in Entry
    BY <2>1, NewEntryType
  <2>3. e.task = t /\ e.score = Score(priority[t], createdAt[t])
    BY DEF NewEntry
  <2> HIDE DEF e, t
  <2>4. /\ agentName' = [agentName EXCEPT ![t] = to]
        /\ status' = [status EXCEPT ![t] = "queued"]
        /\ queue' = Append(queue, e)
        /\ kv' = [kv EXCEPT ![t] =
                    [status |-> status'[t], agent |-> agentName'[t]]]
    BY <1>2 DEF Persist, e, t
  <2>5. queue' \in Seq(Entry) /\ ToSet(queue') = ToSet(queue) \cup {e}
    BY <2>2, <2>4, AppendSet DEF TypeOK
  <2>6. TypeOK'
    <3>1. redist' \in [Calls -> Call \cup {Idle}]
      BY <1>2, <2>1 DEF TypeOK, Call
    <3>2. /\ agentName' \in [Tasks -> Agents]
          /\ status' \in [Tasks -> Statuses \cup {"new"}]
      BY <2>1, <2>4 DEF TypeOK, Statuses
    <3>3. kv' \in [Tasks -> [status : Statuses \cup {"new"}, agent : Agents]]
      BY <2>1, <2>4, <3>2 DEF TypeOK
    <3> QED
      BY <1>2, <2>5, <3>1, <3>2, <3>3 DEF TypeOK
  <2>7. OnlyKnown'
    BY <1>2, <2>1, <2>3, <2>4, <2>5 DEF OnlyKnown, TypeOK, Known
  <2>8. QueuedHasEntry'
    BY <2>3, <2>4, <2>5 DEF QueuedHasEntry, TypeOK
  <2>9. RunningIsHeld'
    BY <1>2, <2>4 DEF RunningIsHeld, TypeOK
  <2>10. PersistedAgrees'
    BY <1>2, <2>4 DEF PersistedAgrees, TypeOK, Known
  <2>11. ScoresOK'
    BY <1>2, <2>3, <2>5 DEF ScoresOK, Aged
  <2> QED
    BY <2>6, <2>7, <2>8, <2>9, <2>10, <2>11
<1> QED
  BY <1>1, <1>2 DEF MoveNext

(* IInv is inductive.                                                       *)
LEMMA NextInv == IInv /\ [Next]_vars => IInv'
<1> SUFFICES ASSUME IInv, [Next]_vars
             PROVE  IInv'
  OBVIOUS
<1>1. CASE Tick
  BY <1>1, TickInv
<1>2. ASSUME NEW t \in Tasks, NEW c \in 0..now, Submit(t, c)
      PROVE  IInv'
  BY <1>2, SubmitInv
<1>3. ASSUME NEW t \in Tasks, Resubmit(t)
      PROVE  IInv'
  BY <1>3, ResubmitInv
<1>9. ASSUME NEW t \in Tasks, Abort(t)
      PROVE  IInv'
  BY <1>9, OutcomeInv DEF Abort, Fail
<1>4. ASSUME NEW a \in Agents, Dequeue(a)
      PROVE  IInv'
  BY <1>4, DequeueInv
<1>5. ASSUME NEW a \in Agents, NEW t \in held[a], Report(a, t)
      PROVE  IInv'
  BY <1>5, ReportInv
<1>6. ASSUME NEW c \in Calls, NEW from \in Agents, NEW to \in Agents,
             RedistributeTasks(c, from, to)
      PROVE  IInv'
  BY <1>6, MoveNextInv DEF RedistributeTasks
<1>7. ASSUME NEW c \in Calls, ResumeRedistribute(c)
      PROVE  IInv'
  <2>1. redist[c] \in Call
    BY <1>7 DEF ResumeRedistribute, IInv, TypeOK
  <2>2. /\ redist[c].from \in Agents
        /\ redist[c].to \in Agents
        /\ redist[c].pos \in Nat
    BY <2>1 DEF Call
  <2> QED
    BY <1>7, <2>2, MoveNextInv DEF ResumeRedistribute
<1>8. CASE UNCHANGED vars
  <2>1. UNCHANGED <<now, status, agentName, priority, createdAt, tasks, queue,
                    kv, redist, held>>
    BY <1>8 DEF vars, fields
  <2> QED
    BY <2>1 DEF IInv, TypeOK, OnlyKnown, QueuedHasEntry, RunningIsHeld,
                PersistedAgrees, ScoresOK, Known, Aged, Call
<1> QED
  BY <1>1, <1>2, <1>3, <1>4, <1>5, <1>6, <1>7, <1>8, <1>9 DEF Next

(* The inductive invariant holds in every reachable state.                  *)
LEMMA Inductive == Spec => []IInv
  BY InitInv, NextInv, PTL DEF Spec

(* Every variable keeps its type, the queue and the Map included.           *)
THEOREM TypeCorrect == Spec => []TypeOK
<1>1. IInv => TypeOK
  BY DEF IInv
<1> QED
  BY <1>1, Inductive, PTL

(* No task is lost: whatever was redistributed, boosted or retried, a       *)
(* waiting task has an entry in the queue that dequeue finds.               *)
THEOREM NoTaskLost == Spec => []QueuedHasEntry
<1>1. IInv => QueuedHasEntry
  BY DEF IInv
<1> QED
  BY <1>1, Inductive, PTL

(* A running task is in the hands of the agent it names.                    *)
THEOREM RunningTaskHeld == Spec => []RunningIsHeld
<1>1. IInv => RunningIsHeld
  BY DEF IInv
<1> QED
  BY <1>1, Inductive, PTL

(* The key-value store and memory agree on every task between two steps.    *)
THEOREM StoreAgrees == Spec => []PersistedAgrees
<1>1. IInv => PersistedAgrees
  BY DEF IInv
<1> QED
  BY <1>1, Inductive, PTL

(* Every entry is scored by its task, unboosted or, once aged, boosted:     *)
(* repeated boosting never compounds.                                       *)
THEOREM ScoresRight == Spec => []ScoresOK
<1>1. IInv => ScoresOK
  BY DEF IInv
<1> QED
  BY <1>1, Inductive, PTL

-----------------------------------------------------------------------------
(* The scheduler implements the pool of TaskPool.tla.                       *)

(* A dequeue is the pool's Take of the task it hands out, or a stutter.     *)
LEMMA DequeueImplementsTake ==
  ASSUME IInv, NEW a \in Agents, Dequeue(a)
  PROVE  (\E t \in Tasks : Pool!Take(a, t)) \/ UNCHANGED Pool!vars
<1> DEFINE q == Sorted(Boosted(queue))
<1>1. /\ q \in Seq(Entry)
      /\ \A f \in ToSet(queue) : \E e \in ToSet(q) : f.task = e.task
      /\ \A e \in ToSet(q) :
           \/ e.score = Score(priority[e.task], createdAt[e.task])
           \/ /\ Aged(e.task)
              /\ e.score = Score(priority[e.task] - 2, createdAt[e.task])
      /\ \A e \in ToSet(q) :
           (status[e.task] = "queued" /\ Aged(e.task)) =>
             e.score = Score(priority[e.task] - 2, createdAt[e.task])
  BY DequeueScan
<1>2. \A k, l \in DOMAIN q : k < l => q[k].score <= q[l].score
  <2>1. Boosted(queue) \in Seq(Entry)
    BY BoostedQueue DEF IInv
  <2>2. DOMAIN q = DOMAIN Boosted(queue)
    BY <2>1, SortedSorts
  <2> QED
    BY <2>1, <2>2, SortedSorts
<1> HIDE DEF q
<1>3. ASSUME NEW k \in DOMAIN q, status[q[k].task] = "queued"
      PROVE  q[k].score = Pool!Rank(q[k].task)
  <2>1. q[k] \in ToSet(q)
    BY DEF ToSet
  <2> QED
    BY <1>1, <1>3, <2>1 DEF Pool!Rank, Pool!Aged, Pool!Score, Aged, Score
<1>4. CASE UNCHANGED <<now, fields, tasks, kv, redist, held>>
  BY <1>4 DEF fields, Pool!vars
<1>5. ASSUME NEW i \in Eligible(q, a),
             \A j \in Eligible(q, a) : i <= j,
             status' = [status EXCEPT ![q[i].task] = "running"],
             held' = [held EXCEPT ![a] = @ \cup {q[i].task}],
             UNCHANGED <<now, agentName, priority, createdAt, tasks, redist>>
      PROVE  \E t \in Tasks : Pool!Take(a, t)
  <2> DEFINE t == q[i].task
  <2>1. /\ i \in DOMAIN q
        /\ t \in Tasks
        /\ status[t] = "queued" /\ agentName[t] = a
    BY <1>1, EntryAt DEF Eligible
  <2>2. t \in Pool!Waiting(a)
    BY <2>1 DEF Pool!Waiting
  <2>3. ASSUME NEW u \in Pool!Waiting(a)
        PROVE  Pool!Rank(t) <= Pool!Rank(u)
    <3>1. u \in Tasks /\ status[u] = "queued" /\ agentName[u] = a
      BY <2>3 DEF Pool!Waiting
    <3>2. PICK e \in ToSet(q) : e.task = u
      BY <1>1, <3>1 DEF IInv, QueuedHasEntry
    <3>3. PICK j \in DOMAIN q : q[j] = e
      BY <3>2 DEF ToSet
    <3>4. j \in Eligible(q, a)
      BY <3>1, <3>2, <3>3 DEF Eligible
    <3>5. i = j \/ i < j
      <4>1. i <= j
        BY <1>5, <3>4
      <4>2. i \in Nat /\ j \in Nat
        BY <1>1, <2>1, <3>3, EntryAt
      <4> QED
        BY <4>1, <4>2
    <3>6. q[i].score <= q[j].score
      <4>1. q[i].score \in Nat
        BY <1>1, <2>1, EntryAt
      <4> QED
        BY <1>2, <2>1, <3>3, <3>5, <4>1
    <3>7. q[i].score = Pool!Rank(t) /\ q[j].score = Pool!Rank(u)
      BY <1>3, <2>1, <3>1, <3>2, <3>3
    <3> QED
      BY <3>6, <3>7
  <2>4. /\ status' = [status EXCEPT ![t] = "running"]
        /\ held' = [held EXCEPT ![a] = @ \cup {t}]
        /\ UNCHANGED <<now, agentName, priority, createdAt>>
    BY <1>5
  <2> HIDE DEF t
  <2>5. Pool!Take(a, t)
    BY <2>2, <2>3, <2>4 DEF Pool!Take
  <2> QED
    BY <2>1, <2>5 DEF t
<1> QED
  BY <1>4, <1>5 DEF Dequeue, q

(* A resumed redistribution is the pool's Move of one task, or a stutter.   *)
LEMMA MoveNextImplementsMove ==
  ASSUME IInv, NEW c \in Calls, NEW from \in Agents, NEW to \in Agents,
         NEW pos \in Nat, MoveNext(c, from, to, pos)
  PROVE  (\E t \in Tasks : Pool!Move(t, to)) \/ UNCHANGED Pool!vars
<1>1. CASE UNCHANGED <<now, fields, tasks, kv, held>>
  BY <1>1 DEF fields, Pool!vars
<1>2. ASSUME NEW i \in ToMove(from, pos),
             agentName' = [agentName EXCEPT ![tasks[i]] = to],
             status' = [status EXCEPT ![tasks[i]] = "queued"],
             UNCHANGED <<now, priority, createdAt, tasks, held>>
      PROVE  \E t \in Tasks : Pool!Move(t, to)
  <2>1. tasks[i] \in Tasks /\ status[tasks[i]] \in Live
    BY DEF ToMove, IInv, TypeOK
  <2> QED
    BY <1>2, <2>1 DEF Pool!Move, Pool!Live, Live
<1> QED
  BY <1>1, <1>2 DEF MoveNext

(* Every behaviour of the scheduler, projected on the tasks and their       *)
(* holders, is a behaviour of the pool: no task is given out twice without  *)
(* having waited again, and none out of turn.                               *)
THEOREM SchedulerImplementsPool == Spec => ImplementsPool
<1>1. Init => Pool!Init
  BY DEF Init, Pool!Init
<1>2. IInv /\ [Next]_vars => [Pool!Next]_(Pool!vars)
  <2> SUFFICES ASSUME IInv, [Next]_vars
               PROVE  [Pool!Next]_(Pool!vars)
    OBVIOUS
  <2>1. CASE Tick
    <3>1. now \in Nat
      BY DEF IInv, TypeOK
    <3>2. Pool!Age
      BY <2>1, <3>1 DEF Tick, fields, Pool!Age
    <3> QED
      BY <3>2 DEF Pool!Next
  <2>2. ASSUME NEW t \in Tasks, NEW c \in 0..now, Submit(t, c)
        PROVE  Pool!Next
    <3>1. status[t] = "new"
      BY <2>2 DEF Submit, IInv, OnlyKnown
    <3>2. Pool!Offer(t)
      BY <2>2, <3>1 DEF Submit, Pool!Offer
    <3> QED
      BY <3>2 DEF Pool!Next
  <2>3. ASSUME NEW t \in Tasks, Resubmit(t)
        PROVE  Pool!Next
    <3>1. Pool!Retry(t)
      BY <2>3 DEF Resubmit, Pool!Retry
    <3> QED
      BY <3>1 DEF Pool!Next
  <2>9. ASSUME NEW t \in Tasks, Abort(t)
        PROVE  Pool!Next
    <3>1. status[t] # "new"
      BY <2>9 DEF Abort, Fail, SetOutcome, IInv, OnlyKnown
    <3>2. Pool!Abort(t)
      BY <2>9, <3>1 DEF Abort, Fail, SetOutcome, Pool!Abort
    <3> QED
      BY <3>2 DEF Pool!Next
  <2>4. ASSUME NEW a \in Agents, Dequeue(a)
        PROVE  [Pool!Next]_(Pool!vars)
    BY <2>4, DequeueImplementsTake DEF Pool!Next
  <2>5. ASSUME NEW a \in Agents, NEW t \in held[a], Report(a, t)
        PROVE  Pool!Next
    <3>1. t \in Tasks
      BY DEF IInv, TypeOK
    <3>2. Pool!Report(a, t)
      BY <2>5 DEF Report, Complete, Fail, SetOutcome, Pool!Report
    <3> QED
      BY <3>1, <3>2 DEF Pool!Next
  <2>6. ASSUME NEW c \in Calls, NEW from \in Agents, NEW to \in Agents,
               RedistributeTasks(c, from, to)
        PROVE  [Pool!Next]_(Pool!vars)
    BY <2>6, MoveNextImplementsMove DEF RedistributeTasks, Pool!Next
  <2>7. ASSUME NEW c \in Calls, ResumeRedistribute(c)
        PROVE  [Pool!Next]_(Pool!vars)
    <3>1. redist[c] \in Call
      BY <2>7 DEF ResumeRedistribute, IInv, TypeOK
    <3>2. /\ redist[c].from \in Agents
          /\ redist[c].to \in Agents
          /\ redist[c].pos \in Nat
      BY <3>1 DEF Call
    <3> QED
      BY <2>7, <3>2, MoveNextImplementsMove DEF ResumeRedistribute, Pool!Next
  <2>8. CASE UNCHANGED vars
    BY <2>8 DEF vars, fields, Pool!vars
  <2> QED
    BY <2>1, <2>2, <2>3, <2>4, <2>5, <2>6, <2>7, <2>8, <2>9 DEF Next
<1> QED
  BY <1>1, <1>2, Inductive, PTL DEF Spec, ImplementsPool, Pool!Spec
=============================================================================
