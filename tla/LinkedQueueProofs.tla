------------------------- MODULE LinkedQueueProofs -------------------------
(***************************************************************************)
(* Proofs about LinkedQueue: its pointers always describe a whole list,    *)
(* and its loops do to that list what TaskQueue says.                      *)
(***************************************************************************)
EXTENDS LinkedQueue, FiniteSetTheorems, SequenceTheorems, WellFoundedInduction, TLAPS

(* The list described by the pointers *)

\* The pointers describe the list L of n tasks, and these are the queued ones.
Describes(L, n) ==
  /\ \A i, j \in 1 .. n : L[i] = L[j] => i = j
  /\ \A t \in Tasks : place[t] = "in" <=> \E i \in 1 .. n : L[i] = t
  /\ head = IF n = 0 THEN NoTask ELSE L[1]
  /\ tail = IF n = 0 THEN NoTask ELSE L[n]
  /\ \A i \in 1 .. n : next[L[i]] = IF i = n THEN NoTask ELSE L[i + 1]

\* It is the list one reaches from queue_head.
DescribesLinked ==
  \A n \in Nat : \A L \in [1 .. n -> Tasks] :
    Describes(L, n) => Length = n /\ Linked = L /\ n <= MaxTasks

LEMMA TaskFacts ==
  /\ MaxTasks \in Nat /\ NoTask = 0 /\ NoTask \notin Tasks
  /\ Tasks \subseteq Int /\ IsFiniteSet(Tasks) /\ Cardinality(Tasks) = MaxTasks
<1>1. IsFiniteSet(1 .. MaxTasks) /\ Cardinality(1 .. MaxTasks) = IF 1 > MaxTasks THEN 0 ELSE MaxTasks - 1 + 1
  BY MaxTasksAssumption, FS_Interval
<1> QED BY <1>1, MaxTasksAssumption DEF Tasks, NoTask

\* The least of the numbers for which P does not hold.
LEMMA LeastNumber ==
  ASSUME NEW S, S \subseteq Nat, S # {}
  PROVE  \E m \in S : \A n \in S : m <= n
<1>1. IsWellFoundedOn(OpToRel(<, Nat), Nat)
  BY NatLessThanWellFounded
<1>2. PICK m \in S : \A n \in S : ~ (<<n, m>> \in OpToRel(<, Nat))
  BY <1>1, WFMin
<1>3. ASSUME NEW n \in S PROVE m <= n
  <2>1. ~(n < m)
    BY <1>2 DEF OpToRel
  <2> QED BY <2>1
<1> QED BY <1>3

\* What Reached is at each number.
LEMMA ReachedList ==
  ASSUME NEW n \in Nat, NEW L \in [1 .. n -> Tasks], Describes(L, n), n <= MaxTasks
  PROVE  Reached = [k \in 0 .. MaxTasks |-> IF k < n THEN L[k + 1] ELSE NoTask]
<1> DEFINE W == [k \in 0 .. MaxTasks |-> IF k < n THEN L[k + 1] ELSE NoTask]
           Step(F) == [k \in 0 .. MaxTasks |-> IF k = 0 THEN head
                         ELSE IF F[k - 1] = NoTask THEN NoTask ELSE next[F[k - 1]]]
<1>1. W = Step(W)
  <2> SUFFICES ASSUME NEW k \in 0 .. MaxTasks PROVE W[k] = Step(W)[k]
    OBVIOUS
  <2>1. CASE k = 0
    BY <2>1, TaskFacts DEF Describes
  <2>2. CASE k # 0 /\ k - 1 < n
    <3>1. k \in 1 .. n /\ k - 1 \in 0 .. MaxTasks /\ W[k - 1] = L[k] /\ L[k] # NoTask
      BY <2>2, TaskFacts
    <3>2. next[L[k]] = IF k = n THEN NoTask ELSE L[k + 1]
      BY <3>1 DEF Describes
    <3> QED BY <3>1, <3>2, TaskFacts
  <2>3. CASE k # 0 /\ ~(k - 1 < n)
    <3>1. k - 1 \in 0 .. MaxTasks /\ W[k - 1] = NoTask
      BY <2>3, TaskFacts
    <3> QED BY <3>1, <2>3, TaskFacts
  <2> QED BY <2>1, <2>2, <2>3
<1>2. ASSUME NEW F, F = Step(F) PROVE F = W
  <2> DEFINE bad == {k \in 0 .. MaxTasks : F[k] # W[k]}
  <2>1. SUFFICES ASSUME bad # {} PROVE FALSE
    BY <1>2
  <2>2. PICK m \in bad : \A k \in bad : m <= k
    <3>1. bad \subseteq Nat
      BY TaskFacts
    <3> HIDE DEF bad
    <3> QED BY <2>1, <3>1, LeastNumber
  <2>3. m \in 0 .. MaxTasks /\ F[m] # W[m]
    OBVIOUS
  <2>4. m # 0 => m - 1 \in 0 .. MaxTasks /\ F[m - 1] = W[m - 1]
    BY <2>2, <2>3, TaskFacts
  <2>5. F[m] = Step(F)[m] /\ W[m] = Step(W)[m]
    BY <1>1, <1>2
  <2> HIDE DEF W, bad
  <2> QED BY <2>3, <2>4, <2>5
<1>3. Reached = CHOOSE F : F = Step(F)
  BY DEF Reached
<1> HIDE DEF W, Step
<1>4. Reached = Step(Reached)
  BY <1>1, <1>3
<1>5. Reached = W
  BY <1>2, <1>4
<1> QED BY <1>5 DEF W

LEMMA DescribedIsLinked == DescribesLinked
<1> SUFFICES ASSUME NEW n \in Nat, NEW L \in [1 .. n -> Tasks], Describes(L, n)
             PROVE  Length = n /\ Linked = L /\ n <= MaxTasks
  BY DEF DescribesLinked
<1>1. n <= MaxTasks
  <2>1. IsFiniteSet(1 .. n) /\ Cardinality(1 .. n) = n
    BY FS_Interval
  <2>2. L \in Injection(1 .. n, Tasks)
    BY DEF Describes, Injection, IsInjective
  <2>3. Cardinality(1 .. n) <= Cardinality(Tasks)
    BY <2>2, TaskFacts, FS_Injection
  <2> QED BY <2>1, <2>3, TaskFacts
<1>2. Reached = [k \in 0 .. MaxTasks |-> IF k < n THEN L[k + 1] ELSE NoTask]
  BY <1>1, ReachedList
<1>3. Length = n
  <2>1. {k \in 0 .. MaxTasks : Reached[k] # NoTask} = 0 .. n - 1
    BY <1>1, <1>2, TaskFacts
  <2>2. Cardinality(0 .. n - 1) = n
    BY FS_Interval
  <2> QED BY <2>1, <2>2 DEF Length
<1>4. Linked = L
  <2>1. \A i \in 1 .. n : Reached[i - 1] = L[i]
    BY <1>1, <1>2, TaskFacts
  <2>2. Linked = [i \in 1 .. n |-> Reached[i - 1]]
    BY <1>3 DEF Linked
  <2> QED BY <2>1, <2>2
<1> QED BY <1>1, <1>3, <1>4

-----------------------------------------------------------------------------
(* The inductive invariant *)

\* Idle, or an operation with an argument of its own.
RequestInv == request \in Queue!Requests \cup {Idle}

\* The pointers describe Linked, in the middle of an operation too.
ListInv ==
  /\ Length \in 0 .. MaxTasks
  /\ Linked \in [1 .. Length -> Tasks]
  /\ Describes(Linked, Length)

\* The task at a place of the list, or null beyond it.
At(k) == IF k \in 1 .. Length THEN Linked[k] ELSE NoTask

\* The pointers of the operations that are not under way are null.
RestInv ==
  /\ request = Idle => curr = NoTask
  /\ request.op \notin {"dequeue", "remove"} => prev = NoTask
  /\ request.op # "peek" => pass = 0 /\ demoCount = 0 /\ selected = NoTask

\* k tasks have been passed, and none of them is the one looked for.
DequeuePlace(k) ==
  /\ curr = At(k + 1) /\ prev = At(k)
  /\ \A i \in 1 .. k : Linked[i] # request.arg

DequeueInv ==
  request.op = "dequeue" => before = Linked /\ \E k \in 0 .. Length : DequeuePlace(k)

\* k tasks have been passed, and none of them is the client's.
RemovePlace(k) ==
  /\ curr = At(k + 1) /\ prev = At(k)
  /\ \A i \in 1 .. k : owner[Linked[i]] # request.arg

\* t comes before u in s.
Precedes(s, t, u) == \E i, j \in DOMAIN s : i < j /\ s[i] = t /\ s[j] = u

\* What is no longer in the list was the client's; the rest is as it was.
Kept ==
  /\ IsInjective(before)
  /\ ToSet(Linked) \subseteq ToSet(before)
  /\ \A t \in ToSet(before) \ ToSet(Linked) : t \in Tasks /\ owner[t] = request.arg
  /\ \A t, u \in ToSet(Linked) : Precedes(Linked, t, u) <=> Precedes(before, t, u)

RemoveInv ==
  request.op = "remove" => Kept /\ \E k \in 0 .. Length : RemovePlace(k)

\* Of two demos the one to run: the shorter, the first to arrive of equals.
Better(t, u) == remaining[t] < remaining[u] \/ (remaining[t] = remaining[u] /\ t < u)

\* The task that is not to run twice in a row, when there is another.
Excluded(t) == t = request.arg /\ Length > 1

\* The best of the first k tasks of a list of demos.
BestOf(k) ==
  /\ selected = NoTask \/ (~Excluded(selected) /\ \E i \in 1 .. k : selected = Linked[i])
  /\ \A i \in 1 .. k :
       \/ Excluded(Linked[i])
       \/ selected = Linked[i]
       \/ selected # NoTask /\ Better(selected, Linked[i])

\* k tasks have been passed in the present pass: no shell command in the
\* first, each counted in the second, and the best kept in the third.
PeekPlace(k) ==
  /\ curr = At(k + 1)
  /\ pass \in 1 .. 3
  /\ \A i \in 1 .. Length : pass > 1 \/ i <= k => ~IsShell(Linked[i])
  /\ pass = 1 => demoCount = 0 /\ selected = NoTask
  /\ pass = 2 => demoCount = k /\ selected = NoTask
  /\ pass = 3 => demoCount = Length /\ BestOf(k)

PeekInv ==
  request.op = "peek" => before = Linked /\ \E k \in 0 .. Length : PeekPlace(k)

Inv == TypeOK /\ RequestInv /\ ListInv /\ RestInv /\ DequeueInv /\ RemoveInv /\ PeekInv

-----------------------------------------------------------------------------
(* What the operations do to the list *)

\* What the pointers describe after a step is the list after it.
LEMMA NewList ==
  ASSUME NEW n \in Nat, NEW L \in [1 .. n -> Tasks], Describes(L, n)'
  PROVE  Length' = n /\ Linked' = L /\ ListInv'
<1>1. DescribesLinked'
  BY DescribedIsLinked, PTL
<1>2. Length' = n /\ Linked' = L /\ n <= MaxTasks
  BY <1>1 DEF DescribesLinked
<1> QED BY <1>2, TaskFacts DEF ListInv

LEMMA SameList ==
  ASSUME ListInv, UNCHANGED <<head, tail, next, place>>
  PROVE  Length' = Length /\ Linked' = Linked /\ ListInv'
<1>1. Length \in Nat /\ Linked \in [1 .. Length -> Tasks]
  BY TaskFacts DEF ListInv
<1>2. Describes(Linked, Length)
  BY DEF ListInv
<1> DEFINE n == Length
           L == Linked
<1> HIDE DEF n, L
<1>3. ASSUME NEW m, NEW M, Describes(M, m) PROVE Describes(M, m)'
  BY <1>3 DEF Describes
<1> QED BY <1>1, <1>2, <1>3, NewList

LEMMA LinkAtTailList ==
  ASSUME ListInv, TypeOK, NEW t \in Tasks, place[t] # "in", LinkAtTail(t),
         place' = [place EXCEPT ![t] = "in"]
  PROVE  /\ Length' = Length + 1
         /\ Linked' = [i \in 1 .. Length + 1 |-> IF i = Length + 1 THEN t ELSE Linked[i]]
         /\ ListInv'
<1>0. PICK n \in Nat : n = Length /\ Linked \in [1 .. n -> Tasks] /\ Describes(Linked, n)
  BY TaskFacts DEF ListInv
<1>1. PICK L \in [1 .. n -> Tasks] : n = Length /\ L = Linked /\ Describes(L, n)
  BY <1>0
<1> DEFINE M == [i \in 1 .. n + 1 |-> IF i = n + 1 THEN t ELSE L[i]]
<1>2. n + 1 \in Nat /\ M \in [1 .. n + 1 -> Tasks]
  OBVIOUS
<1>3. \A i \in 1 .. n : L[i] # t /\ L[i] \in Tasks
  BY <1>1 DEF Describes
<1>4. Describes(M, n + 1)'
  <2>1. \A i, j \in 1 .. n + 1 : M[i] = M[j] => i = j
    BY <1>1, <1>3 DEF Describes
  <2>2. \A u \in Tasks : place'[u] = "in" <=> \E i \in 1 .. n + 1 : M[i] = u
    <3> SUFFICES ASSUME NEW u \in Tasks PROVE place'[u] = "in" <=> \E i \in 1 .. n + 1 : M[i] = u
      OBVIOUS
    <3>1. CASE u = t
      <4>1. place'[t] = "in"
        BY DEF TypeOK
      <4>2. n + 1 \in 1 .. n + 1 /\ M[n + 1] = t
        OBVIOUS
      <4> QED BY <3>1, <4>1, <4>2
    <3>2. CASE u # t
      <4>1. place'[u] = place[u]
        BY <3>2 DEF TypeOK
      <4>2. (\E i \in 1 .. n + 1 : M[i] = u) <=> \E i \in 1 .. n : L[i] = u
        BY <3>2
      <4> QED BY <1>1, <4>1, <4>2 DEF Describes
    <3> QED BY <3>1, <3>2
  <2>3. head' = IF n + 1 = 0 THEN NoTask ELSE M[1]
    BY <1>1, <1>3, TaskFacts DEF Describes, LinkAtTail
  <2>4. tail' = IF n + 1 = 0 THEN NoTask ELSE M[n + 1]
    BY <1>1 DEF LinkAtTail
  <2>5. \A i \in 1 .. n + 1 : next'[M[i]] = IF i = n + 1 THEN NoTask ELSE M[i + 1]
    <3> SUFFICES ASSUME NEW i \in 1 .. n + 1
                 PROVE  next'[M[i]] = IF i = n + 1 THEN NoTask ELSE M[i + 1]
      OBVIOUS
    <3>1. M[i] \in Tasks /\ next'[M[i]] = IF M[i] = t THEN NoTask ELSE IF M[i] = tail THEN t ELSE next[M[i]]
      BY <1>2 DEF LinkAtTail
    <3>2. CASE i = n + 1
      BY <3>1, <3>2
    <3>3. CASE i \in 1 .. n
      <4>1. M[i] = L[i] /\ M[i] # t
        BY <1>3, <3>3
      <4>2. n # 0 /\ tail = L[n] /\ (L[i] = tail <=> i = n)
        BY <1>1, <3>3 DEF Describes
      <4>3. next[L[i]] = IF i = n THEN NoTask ELSE L[i + 1]
        BY <1>1, <3>3 DEF Describes
      <4> QED BY <3>1, <3>3, <4>1, <4>2, <4>3
    <3> QED BY <3>2, <3>3
  <2> HIDE DEF M
  <2> QED BY <2>1, <2>2, <2>3, <2>4, <2>5 DEF Describes
<1> HIDE DEF M
<1>5. Length' = n + 1 /\ Linked' = M /\ ListInv'
  BY <1>2, <1>4, NewList
<1> QED BY <1>1, <1>5 DEF M

\* The list without the task at place m.
Dropped(m) == [i \in 1 .. Length - 1 |-> IF i < m THEN Linked[i] ELSE Linked[i + 1]]

LEMMA UnlinkList ==
  ASSUME ListInv, TypeOK, NEW k \in 0 .. Length - 1, curr = At(k + 1), prev = At(k),
         Unlink(curr), NEW p, p # "in", place' = [place EXCEPT ![curr] = p]
  PROVE  Length' = Length - 1 /\ Linked' = Dropped(k + 1) /\ ListInv'
<1>0. PICK n \in Nat : n = Length /\ Linked \in [1 .. n -> Tasks] /\ Describes(Linked, n)
  BY TaskFacts DEF ListInv
<1>1. PICK L \in [1 .. n -> Tasks] : n = Length /\ L = Linked /\ Describes(L, n)
  BY <1>0
<1> DEFINE M == [i \in 1 .. n - 1 |-> IF i < k + 1 THEN L[i] ELSE L[i + 1]]
<1>2. /\ k \in Nat /\ k + 1 \in 1 .. n /\ n - 1 \in Nat /\ M \in [1 .. n - 1 -> Tasks]
  BY <1>1
<1>3. /\ curr = L[k + 1] /\ curr \in Tasks
      /\ prev = IF k = 0 THEN NoTask ELSE L[k]
  BY <1>1, <1>2 DEF At
<1>4. next[curr] = IF k + 1 = n THEN NoTask ELSE L[k + 2]
  BY <1>1, <1>2, <1>3 DEF Describes
<1>5. Describes(M, n - 1)'
  <2>1. \A i, j \in 1 .. n - 1 : M[i] = M[j] => i = j
    BY <1>1, <1>2 DEF Describes
  <2>2. \A u \in Tasks : place'[u] = "in" <=> \E i \in 1 .. n - 1 : M[i] = u
    <3> SUFFICES ASSUME NEW u \in Tasks PROVE place'[u] = "in" <=> \E i \in 1 .. n - 1 : M[i] = u
      OBVIOUS
    <3>1. CASE u = curr
      <4>1. place'[curr] # "in"
        BY <1>3 DEF TypeOK
      <4>2. \A i \in 1 .. n - 1 : M[i] # curr
        BY <1>1, <1>2, <1>3 DEF Describes
      <4> QED BY <3>1, <4>1, <4>2
    <3>2. CASE u # curr
      <4>1. place'[u] = place[u]
        BY <3>2 DEF TypeOK
      <4>2. ASSUME NEW i \in 1 .. n - 1 PROVE \E j \in 1 .. n : L[j] = M[i]
        BY <1>2
      <4>3. ASSUME NEW j \in 1 .. n, L[j] = u PROVE \E i \in 1 .. n - 1 : M[i] = u
        <5>1. j # k + 1
          BY <1>3, <3>2, <4>3
        <5>2. CASE j < k + 1
          <6>1. j \in 1 .. n - 1 /\ M[j] = L[j]
            BY <1>2, <5>2
          <6> QED BY <4>3, <6>1
        <5>3. CASE j > k + 1
          <6>1. j - 1 \in 1 .. n - 1 /\ M[j - 1] = L[j]
            BY <1>2, <5>3
          <6> QED BY <4>3, <6>1
        <5> QED BY <1>2, <5>1, <5>2, <5>3
      <4> HIDE DEF M
      <4> QED BY <1>1, <4>1, <4>2, <4>3 DEF Describes
    <3> QED BY <3>1, <3>2
  <2>3. head' = IF n - 1 = 0 THEN NoTask ELSE M[1]
    <3>1. head = L[1]
      BY <1>1, <1>2 DEF Describes
    <3>2. head' = IF k = 0 THEN next[curr] ELSE head
      BY <1>2, <1>3, TaskFacts DEF Unlink
    <3> QED BY <1>2, <1>4, <3>1, <3>2
  <2>4. tail' = IF n - 1 = 0 THEN NoTask ELSE M[n - 1]
    <3>1. tail = L[n] /\ (curr = tail <=> k + 1 = n)
      BY <1>1, <1>2, <1>3 DEF Describes
    <3>2. tail' = IF k + 1 = n THEN prev ELSE tail
      BY <3>1 DEF Unlink
    <3> QED BY <1>2, <1>3, <3>1, <3>2
  <2>5. \A i \in 1 .. n - 1 : next'[M[i]] = IF i = n - 1 THEN NoTask ELSE M[i + 1]
    <3> SUFFICES ASSUME NEW i \in 1 .. n - 1
                 PROVE  next'[M[i]] = IF i = n - 1 THEN NoTask ELSE M[i + 1]
      OBVIOUS
    <3>1. M[i] \in Tasks
      BY <1>2
    <3>2. next'[M[i]] = IF M[i] = curr THEN NoTask ELSE IF M[i] = prev THEN next[curr] ELSE next[M[i]]
      BY <3>1 DEF Unlink
    <3>3. CASE i < k
      <4>1. M[i] = L[i] /\ M[i] # curr /\ M[i] # prev /\ next[L[i]] = L[i + 1] /\ M[i + 1] = L[i + 1]
        BY <1>1, <1>2, <1>3, <3>3 DEF Describes
      <4> QED BY <1>2, <3>2, <3>3, <4>1
    <3>4. CASE i = k
      <4>1. M[i] = L[k] /\ M[i] # curr /\ M[i] = prev
        BY <1>1, <1>2, <1>3, <3>4 DEF Describes
      <4>2. next'[M[i]] = next[curr]
        BY <3>2, <4>1
      <4>3. k # n - 1 => M[k + 1] = L[k + 2]
        BY <1>2, <3>4
      <4> HIDE DEF M
      <4> QED BY <1>2, <1>4, <3>4, <4>2, <4>3
    <3>5. CASE i > k
      <4>1. M[i] = L[i + 1] /\ i + 1 \in 1 .. n
        BY <1>2, <3>5
      <4>2. M[i] # curr /\ M[i] # prev
        BY <1>1, <1>2, <1>3, <3>5, <4>1, TaskFacts DEF Describes
      <4>3. next[L[i + 1]] = IF i + 1 = n THEN NoTask ELSE L[i + 2]
        BY <1>1, <4>1 DEF Describes
      <4>4. i # n - 1 => M[i + 1] = L[i + 2]
        BY <1>2, <3>5
      <4> HIDE DEF M
      <4> QED BY <1>2, <3>2, <4>1, <4>2, <4>3, <4>4
    <3> QED BY <1>2, <3>3, <3>4, <3>5
  <2> HIDE DEF M
  <2> QED BY <2>1, <2>2, <2>3, <2>4, <2>5 DEF Describes
<1> HIDE DEF M
<1>6. Length' = n - 1 /\ Linked' = M /\ ListInv'
  BY <1>2, <1>5, NewList
<1> QED BY <1>1, <1>6 DEF M, Dropped

-----------------------------------------------------------------------------
(* Every step keeps the invariant *)

LEMMA RequestFacts ==
  ASSUME RequestInv
  PROVE  /\ request.op \in {"idle", "dequeue", "peek", "remove"}
         /\ request = Idle <=> request.op = "idle"
         /\ request.op = "dequeue" => request.arg \in Tasks
         /\ request.op = "peek" => request.arg \in Tasks \cup {NoSelection}
         /\ request.op = "remove" => request.arg \in Clients
BY DEF RequestInv, Queue!Requests, Idle, NoSelection

LEMMA ListFacts ==
  ASSUME ListInv
  PROVE  /\ Length \in Nat /\ Length <= MaxTasks
         /\ \A i \in 1 .. Length : Linked[i] \in Tasks /\ next[Linked[i]] = At(i + 1)
         /\ \A i, j \in 1 .. Length : Linked[i] = Linked[j] => i = j
         /\ \A t \in Tasks : place[t] = "in" <=> \E i \in 1 .. Length : Linked[i] = t
         /\ head = At(1) /\ tail = At(Length)
         /\ At(0) = NoTask
         /\ \A i \in Nat : At(i) # NoTask <=> i \in 1 .. Length
<1>1. Length \in Nat /\ Length <= MaxTasks /\ Linked \in [1 .. Length -> Tasks]
  BY TaskFacts DEF ListInv
<1>2. \A i \in 1 .. Length : next[Linked[i]] = At(i + 1)
  BY <1>1 DEF ListInv, Describes, At
<1>3. head = At(1) /\ tail = At(Length)
  BY <1>1 DEF ListInv, Describes, At
<1>4. At(0) = NoTask /\ \A i \in Nat : At(i) # NoTask <=> i \in 1 .. Length
  BY <1>1, TaskFacts DEF At
<1> QED BY <1>1, <1>2, <1>3, <1>4 DEF ListInv, Describes

LEMMA InitInv == Init => Inv
<1> SUFFICES ASSUME Init PROVE Inv
  OBVIOUS
<1> DEFINE L == [i \in 1 .. 0 |-> NoTask]
<1>1. 0 \in Nat /\ L \in [1 .. 0 -> Tasks] /\ Describes(L, 0)
  BY DEF Init, Describes
<1> HIDE DEF L
<1>2. Length = 0 /\ Linked = L
  BY <1>1, DescribedIsLinked DEF DescribesLinked
<1>3. ListInv
  BY <1>1, <1>2, TaskFacts DEF ListInv
<1>4. TypeOK
  BY TaskFacts DEF Init, TypeOK
<1>5. RequestInv /\ RestInv /\ DequeueInv /\ RemoveInv /\ PeekInv
  BY DEF Init, Idle, RequestInv, RestInv, DequeueInv, RemoveInv, PeekInv
<1> QED BY <1>3, <1>4, <1>5 DEF Inv

LEMMA ReleaseInv ==
  ASSUME Release
  PROVE  /\ RequestInv' /\ RestInv' /\ DequeueInv' /\ RemoveInv' /\ PeekInv'
         /\ {curr', prev', selected'} \subseteq {NoTask} /\ pass' = 0 /\ demoCount' = 0
BY DEF Release, Idle, RequestInv, RestInv, DequeueInv, RemoveInv, PeekInv

LEMMA EnqueueInv ==
  ASSUME Inv, NEW t \in Tasks, Enqueue(t)
  PROVE  Inv'
<1>1. ListInv'
  BY LinkAtTailList DEF Inv, Enqueue
<1>2. TypeOK'
  BY TaskFacts DEF Inv, TypeOK, Enqueue, LinkAtTail, fixedVars, peekVars
<1>3. request' = request /\ request.op = "idle"
  BY DEF Enqueue, Idle
<1>4. RequestInv' /\ RestInv'
  BY <1>3 DEF Inv, Enqueue, RequestInv, RestInv, fixedVars, peekVars
<1>5. DequeueInv' /\ RemoveInv' /\ PeekInv'
  BY <1>3 DEF DequeueInv, RemoveInv, PeekInv
<1> QED BY <1>1, <1>2, <1>4, <1>5 DEF Inv

\* At the beginning no task has been passed, and the list is as it was.
LEMMA BeginInv ==
  ASSUME Inv, NEW op, NEW arg, Begin(op, arg)
  PROVE  /\ request.op = "idle" /\ request'.op = op /\ request'.arg = arg
         /\ ListInv' /\ Length' = Length /\ Linked' = Linked /\ before' = Linked
         /\ 0 \in 0 .. Length' /\ curr' = At(0 + 1)' /\ prev' = At(0)' /\ prev' = NoTask
         /\ demoCount' = 0 /\ selected' = NoTask
         /\ pass' \in 0 .. 3 => TypeOK'
<1>1. request.op = "idle" /\ request' = [op |-> op, arg |-> arg]
  BY DEF Begin, Idle
<1>2. ListInv' /\ Length' = Length /\ Linked' = Linked
  BY SameList DEF Inv, Begin
<1>3. prev = NoTask /\ demoCount = 0 /\ selected = NoTask
  BY <1>1 DEF Inv, RestInv
<1>4. At(1)' = At(1) /\ At(0)' = At(0)
  BY <1>2 DEF At
<1>5. curr' = At(1)' /\ prev' = At(0)'
  BY <1>3, <1>4, ListFacts DEF Begin, Inv
<1>6. 0 \in 0 .. Length'
  BY <1>2, ListFacts DEF Inv
<1>7. pass' \in 0 .. 3 => TypeOK'
  BY TaskFacts DEF Begin, Inv, TypeOK, fixedVars
<1> QED BY <1>1, <1>2, <1>3, <1>5, <1>6, <1>7 DEF Begin

LEMMA DequeueBeginInv ==
  ASSUME Inv, NEW t \in Tasks, DequeueBegin(t)
  PROVE  Inv'
<1>1. Begin("dequeue", t) /\ pass' = pass
  BY DEF DequeueBegin
<1>2. /\ request.op = "idle" /\ request'.op = "dequeue" /\ request'.arg = t
      /\ ListInv' /\ Length' = Length /\ Linked' = Linked /\ before' = Linked
      /\ 0 \in 0 .. Length' /\ curr' = At(0 + 1)' /\ prev' = At(0)'
      /\ demoCount' = 0 /\ selected' = NoTask
      /\ pass' \in 0 .. 3 => TypeOK'
  BY <1>1, BeginInv
<1>3. pass' = 0
  BY <1>1, <1>2 DEF Inv, RestInv
<1>4. RequestInv'
  BY <1>1 DEF Begin, RequestInv, Queue!Requests
<1>5. DequeuePlace(0)'
  BY <1>2 DEF DequeuePlace
<1>6. DequeueInv'
  BY <1>2, <1>5 DEF DequeueInv
<1>7. RestInv' /\ RemoveInv' /\ PeekInv'
  BY <1>1, <1>2, <1>3 DEF Begin, RestInv, RemoveInv, PeekInv, Idle
<1> QED BY <1>2, <1>3, <1>4, <1>6, <1>7 DEF Inv

LEMMA RemoveBeginInv ==
  ASSUME Inv, NEW c \in Clients, RemoveBegin(c)
  PROVE  Inv'
<1>1. Begin("remove", c) /\ pass' = pass
  BY DEF RemoveBegin
<1>2. /\ request.op = "idle" /\ request'.op = "remove" /\ request'.arg = c
      /\ ListInv' /\ Length' = Length /\ Linked' = Linked /\ before' = Linked
      /\ 0 \in 0 .. Length' /\ curr' = At(0 + 1)' /\ prev' = At(0)'
      /\ demoCount' = 0 /\ selected' = NoTask
      /\ pass' \in 0 .. 3 => TypeOK'
  BY <1>1, BeginInv
<1>3. pass' = 0
  BY <1>1, <1>2 DEF Inv, RestInv
<1>4. RequestInv'
  BY <1>1 DEF Begin, RequestInv, Queue!Requests
<1>5. RemovePlace(0)'
  BY <1>2 DEF RemovePlace
<1>6. Kept'
  <2>1. IsInjective(Linked)
    BY DEF Inv, ListInv, Describes, IsInjective
  <2> QED BY <1>2, <2>1 DEF Kept
<1>7. RemoveInv'
  BY <1>2, <1>5, <1>6 DEF RemoveInv
<1>8. RestInv' /\ DequeueInv' /\ PeekInv'
  BY <1>1, <1>2, <1>3 DEF Begin, RestInv, DequeueInv, PeekInv, Idle
<1> QED BY <1>2, <1>3, <1>4, <1>7, <1>8 DEF Inv

LEMMA PeekBeginInv ==
  ASSUME Inv, NEW last \in Tasks \cup {NoSelection}, PeekBegin(last)
  PROVE  Inv'
<1>1. Begin("peek", last) /\ pass' = 1
  BY DEF PeekBegin
<1>2. /\ request.op = "idle" /\ request'.op = "peek" /\ request'.arg = last
      /\ ListInv' /\ Length' = Length /\ Linked' = Linked /\ before' = Linked
      /\ 0 \in 0 .. Length' /\ curr' = At(0 + 1)' /\ prev' = NoTask
      /\ demoCount' = 0 /\ selected' = NoTask
      /\ pass' \in 0 .. 3 => TypeOK'
  BY <1>1, BeginInv
<1>3. RequestInv'
  BY <1>1 DEF Begin, RequestInv, Queue!Requests, NoSelection
<1>4. PeekPlace(0)'
  BY <1>1, <1>2 DEF PeekPlace
<1>5. PeekInv'
  BY <1>2, <1>4 DEF PeekInv
<1>6. RestInv' /\ DequeueInv' /\ RemoveInv'
  BY <1>1, <1>2 DEF Begin, RestInv, DequeueInv, RemoveInv, Idle
<1> QED BY <1>1, <1>2, <1>3, <1>5, <1>6 DEF Inv

LEMMA DequeuePassInv ==
  ASSUME Inv, DequeuePass
  PROVE  Inv'
<1>1. request.op = "dequeue" /\ request' = request
  BY DEF DequeuePass
<1>2. PICK k \in 0 .. Length : DequeuePlace(k)
  BY <1>1 DEF Inv, DequeueInv
<1>3. Length' = Length /\ Linked' = Linked /\ ListInv'
  BY SameList DEF Inv, DequeuePass
<1>4. k + 1 \in 1 .. Length /\ curr = Linked[k + 1] /\ curr # request.arg /\ next[curr] = At(k + 2)
  BY <1>2, ListFacts DEF Inv, DequeuePass, DequeuePlace, At
<1>5. At(k + 1)' = At(k + 1) /\ At((k + 1) + 1)' = At(k + 2)
  BY <1>3, <1>4 DEF At
<1>6. DequeuePlace(k + 1)'
  BY <1>1, <1>2, <1>3, <1>4, <1>5 DEF DequeuePlace, DequeuePass, Advance
<1>7. DequeueInv'
  BY <1>3, <1>4, <1>6 DEF DequeueInv, DequeuePass, Inv
<1>8. TypeOK'
  BY DEF Inv, TypeOK, DequeuePass, Advance, fixedVars, peekVars
<1>9. RequestInv' /\ RestInv' /\ RemoveInv' /\ PeekInv'
  BY <1>1 DEF Inv, DequeuePass, RequestInv, RestInv, RemoveInv, PeekInv, peekVars, Idle
<1> QED BY <1>3, <1>7, <1>8, <1>9 DEF Inv

LEMMA DequeueFoundList ==
  ASSUME Inv, DequeueFound
  PROVE  \E k \in 0 .. Length - 1 :
           /\ request.arg = Linked[k + 1] /\ curr = Linked[k + 1]
           /\ Length' = Length - 1 /\ Linked' = Dropped(k + 1) /\ ListInv'
<1>1. request.op = "dequeue" /\ curr = request.arg /\ curr \in Tasks
  BY RequestFacts DEF DequeueFound, Inv
<1>2. PICK k \in 0 .. Length : DequeuePlace(k)
  BY <1>1 DEF Inv, DequeueInv
<1>3. k \in 0 .. Length - 1 /\ curr = Linked[k + 1] /\ curr = At(k + 1) /\ prev = At(k)
  BY <1>1, <1>2, ListFacts, TaskFacts DEF Inv, DequeuePlace, At
<1>4. Length' = Length - 1 /\ Linked' = Dropped(k + 1) /\ ListInv'
  BY <1>3, UnlinkList DEF Inv, DequeueFound
<1> QED BY <1>1, <1>3, <1>4

LEMMA DequeueFoundInv ==
  ASSUME Inv, DequeueFound
  PROVE  Inv'
<1>1. ListInv'
  BY DequeueFoundList
<1>2. curr \in Tasks
  BY RequestFacts DEF DequeueFound, Inv
<1>3. TypeOK'
  BY <1>2, ReleaseInv, TaskFacts DEF DequeueFound, Inv, TypeOK, Unlink, fixedVars
<1> QED BY <1>1, <1>3, ReleaseInv DEF DequeueFound, Inv

LEMMA DequeueMissingInv ==
  ASSUME Inv, DequeueMissing
  PROVE  Inv'
<1>1. ListInv'
  BY SameList DEF DequeueMissing, Inv
<1>2. TypeOK'
  BY ReleaseInv, TaskFacts DEF DequeueMissing, Inv, TypeOK, fixedVars
<1> QED BY <1>1, <1>2, ReleaseInv DEF DequeueMissing, Inv

LEMMA RemovePassInv ==
  ASSUME Inv, RemovePass
  PROVE  Inv'
<1>1. request.op = "remove" /\ request' = request
  BY DEF RemovePass
<1>2. PICK k \in 0 .. Length : RemovePlace(k)
  BY <1>1 DEF Inv, RemoveInv
<1>3. Length' = Length /\ Linked' = Linked /\ ListInv'
  BY SameList DEF Inv, RemovePass
<1>4. k + 1 \in 1 .. Length /\ curr = Linked[k + 1] /\ owner[curr] # request.arg /\ next[curr] = At(k + 2)
  BY <1>2, ListFacts DEF Inv, RemovePass, RemovePlace, At
<1>5. At(k + 1)' = At(k + 1) /\ At((k + 1) + 1)' = At(k + 2)
  BY <1>3, <1>4 DEF At
<1>6. RemovePlace(k + 1)'
  BY <1>1, <1>2, <1>3, <1>4, <1>5 DEF RemovePlace, RemovePass, Advance, fixedVars
<1>7. Kept'
  BY <1>1, <1>3 DEF Inv, RemoveInv, Kept, RemovePass, fixedVars
<1>8. RemoveInv'
  BY <1>3, <1>4, <1>6, <1>7 DEF RemoveInv
<1>9. TypeOK'
  BY DEF Inv, TypeOK, RemovePass, Advance, fixedVars, peekVars
<1>10. RequestInv' /\ RestInv' /\ DequeueInv' /\ PeekInv'
  BY <1>1 DEF Inv, RemovePass, RequestInv, RestInv, DequeueInv, PeekInv, peekVars, Idle
<1> QED BY <1>3, <1>8, <1>9, <1>10 DEF Inv

\* A list from which the task at place m is dropped keeps the others, in order.
LEMMA DroppedFacts ==
  ASSUME ListInv, NEW m \in 1 .. Length
  PROVE  /\ IsInjective(Dropped(m))
         /\ ToSet(Dropped(m)) = ToSet(Linked) \ {Linked[m]}
         /\ \A t, u \in ToSet(Dropped(m)) : Precedes(Dropped(m), t, u) <=> Precedes(Linked, t, u)
<1>1. PICK n \in Nat : n = Length /\ Linked \in [1 .. n -> Tasks] /\ Describes(Linked, n)
  BY TaskFacts DEF ListInv
<1>2. PICK L \in [1 .. n -> Tasks] : L = Linked /\ \A i, j \in 1 .. n : L[i] = L[j] => i = j
  BY <1>1 DEF Describes
<1> DEFINE M == [i \in 1 .. n - 1 |-> IF i < m THEN L[i] ELSE L[i + 1]]
           From(i) == IF i < m THEN i ELSE i + 1
<1>3. /\ m \in 1 .. n /\ DOMAIN M = 1 .. n - 1 /\ DOMAIN L = 1 .. n
      /\ \A i \in 1 .. n - 1 : From(i) \in 1 .. n /\ From(i) # m /\ M[i] = L[From(i)]
  BY <1>1
<1>4. \A i, j \in 1 .. n - 1 : i < j <=> From(i) < From(j)
  BY <1>3
<1>5. \A j \in 1 .. n : j # m => \E i \in 1 .. n - 1 : j = From(i)
  <2> SUFFICES ASSUME NEW j \in 1 .. n, j # m PROVE \E i \in 1 .. n - 1 : j = From(i)
    OBVIOUS
  <2>1. CASE j < m
    <3>1. j \in 1 .. n - 1 /\ From(j) = j
      BY <1>3, <2>1
    <3> QED BY <3>1
  <2>2. CASE j > m
    <3>1. j - 1 \in 1 .. n - 1 /\ From(j - 1) = j
      BY <1>3, <2>2
    <3> QED BY <3>1
  <2> QED BY <1>3, <2>1, <2>2
<1> HIDE DEF M, From
<1>6. IsInjective(M)
  BY <1>2, <1>3, <1>4 DEF IsInjective
<1>7. ToSet(M) = ToSet(L) \ {L[m]}
  BY <1>2, <1>3, <1>5 DEF ToSet
<1>8. ASSUME NEW t \in ToSet(M), NEW u \in ToSet(M)
      PROVE  Precedes(M, t, u) <=> Precedes(L, t, u)
  <2>1. PICK i \in 1 .. n - 1, j \in 1 .. n - 1 : t = M[i] /\ u = M[j]
    BY <1>3 DEF ToSet
  <2>2. Precedes(M, t, u) <=> i < j
    BY <1>3, <1>6, <2>1 DEF Precedes, IsInjective
  <2>3. Precedes(L, t, u) <=> From(i) < From(j)
    BY <1>2, <1>3, <2>1 DEF Precedes
  <2> QED BY <1>4, <2>2, <2>3
<1>9. M = Dropped(m)
  BY <1>1, <1>2 DEF M, Dropped
<1> QED BY <1>2, <1>6, <1>7, <1>8, <1>9

LEMMA RemoveTaskInv ==
  ASSUME Inv, RemoveTask
  PROVE  Inv'
<1>1. request.op = "remove" /\ request' = request /\ owner' = owner /\ before' = before
  BY DEF RemoveTask, fixedVars
<1>2. PICK k \in 0 .. Length : RemovePlace(k)
  BY <1>1 DEF Inv, RemoveInv
<1>3. /\ k \in 0 .. Length - 1 /\ k + 1 \in 1 .. Length
      /\ curr = Linked[k + 1] /\ curr \in Tasks /\ curr = At(k + 1) /\ prev = At(k)
      /\ owner[curr] = request.arg /\ next[curr] = At(k + 2)
  BY <1>2, ListFacts DEF Inv, RemoveTask, RemovePlace, At
<1>4. Length' = Length - 1 /\ Linked' = Dropped(k + 1) /\ ListInv'
  BY <1>3, UnlinkList DEF Inv, RemoveTask
<1>5. /\ Length \in Nat /\ \A i \in 1 .. k : Linked'[i] = Linked[i]
      /\ k + 1 \in 1 .. Length - 1 => Linked'[k + 1] = Linked[k + 2]
  BY <1>3, <1>4, ListFacts DEF Inv, Dropped
<1>6. At(k)' = At(k) /\ At(k + 1)' = At(k + 2)
  BY <1>3, <1>4, <1>5 DEF At
<1>7. RemovePlace(k)'
  <2>1. \A i \in 1 .. k : owner'[Linked'[i]] # request'.arg
    BY <1>1, <1>2, <1>5 DEF RemovePlace
  <2> QED BY <1>3, <1>6, <2>1 DEF RemovePlace, RemoveTask
<1>8. Kept'
  <2>1. Kept
    BY <1>1 DEF Inv, RemoveInv
  <2>2. /\ ToSet(Linked') = ToSet(Linked) \ {curr}
        /\ \A t, u \in ToSet(Linked') : Precedes(Linked', t, u) <=> Precedes(Linked, t, u)
    BY <1>3, <1>4, DroppedFacts DEF Inv
  <2> QED BY <1>1, <1>3, <2>1, <2>2 DEF Kept
<1>9. RemoveInv'
  BY <1>3, <1>4, <1>7, <1>8 DEF RemoveInv
<1>10. TypeOK'
  BY <1>3, TaskFacts DEF Inv, TypeOK, RemoveTask, Unlink, fixedVars, peekVars
<1>11. RequestInv' /\ RestInv' /\ DequeueInv' /\ PeekInv'
  BY <1>1 DEF Inv, RemoveTask, RequestInv, RestInv, DequeueInv, PeekInv, peekVars, Idle
<1> QED BY <1>4, <1>9, <1>10, <1>11 DEF Inv

LEMMA RemoveEndInv ==
  ASSUME Inv, RemoveEnd
  PROVE  Inv' /\ Linked' = Linked
<1>1. tail' = tail
  BY ListFacts, TaskFacts DEF RemoveEnd, Inv, At
<1>2. ListInv' /\ Linked' = Linked
  BY <1>1, SameList DEF RemoveEnd, Inv
<1>3. TypeOK'
  BY <1>1, ReleaseInv, TaskFacts DEF RemoveEnd, Inv, TypeOK, fixedVars
<1> QED BY <1>2, <1>3, ReleaseInv DEF RemoveEnd, Inv

LEMMA PeekShellInv ==
  ASSUME Inv, PeekShell
  PROVE  Inv'
<1>1. ListInv'
  BY SameList DEF PeekShell, Inv
<1>2. TypeOK'
  BY ReleaseInv, TaskFacts DEF PeekShell, Inv, TypeOK, fixedVars
<1> QED BY <1>1, <1>2, ReleaseInv DEF PeekShell, Inv

\* What the third pass makes of one more task: the best so far is kept, or
\* the task is better than it and than all that it is better than.
LEMMA BestOfOneMore ==
  ASSUME ListInv, TypeOK, NEW k \in 0 .. Length - 1, BestOf(k), demoCount = Length,
         \A i \in 1 .. Length : ~IsShell(Linked[i]),
         NEW s, s = IF Prefers(Linked[k + 1]) THEN Linked[k + 1] ELSE selected
  PROVE  /\ s = NoTask \/ (~Excluded(s) /\ \E i \in 1 .. k + 1 : s = Linked[i])
         /\ \A i \in 1 .. k + 1 :
              \/ Excluded(Linked[i])
              \/ s = Linked[i]
              \/ s # NoTask /\ Better(s, Linked[i])
<1>1. /\ Length \in Nat /\ \A i \in 1 .. Length : Linked[i] \in Int /\ Linked[i] # NoTask /\ remaining[Linked[i]] \in Nat
  <2> SUFFICES ASSUME NEW i \in 1 .. Length
               PROVE  Linked[i] \in Int /\ Linked[i] # NoTask /\ remaining[Linked[i]] \in Nat
    BY ListFacts
  <2>1. Linked[i] \in Tasks /\ remaining[Linked[i]] \in Times \cup {ShellTime}
    BY ListFacts DEF TypeOK
  <2> QED BY <2>1, TimesAssumption, TaskFacts DEF IsShell
<1>2. \A t : PassedOver(t) <=> Excluded(t)
  BY DEF PassedOver, Excluded
<1> DEFINE new == Linked[k + 1]
<1>3. k \in Nat /\ k + 1 \in 1 .. Length /\ new \in Int /\ new # NoTask /\ remaining[new] \in Nat
  BY <1>1
<1>4. selected # NoTask => selected \in Int /\ remaining[selected] \in Nat
  <2>1. selected # NoTask => \E i \in 1 .. k : selected = Linked[i]
    BY DEF BestOf
  <2> QED BY <1>1, <2>1
<1>5. CASE Prefers(new)
  <2>1. s = new /\ ~Excluded(new) /\ (selected # NoTask => Better(new, selected))
    BY <1>2, <1>5 DEF Prefers, Better
  <2>2. ASSUME NEW i \in 1 .. k
        PROVE  Excluded(Linked[i]) \/ s = Linked[i] \/ (s # NoTask /\ Better(s, Linked[i]))
    <3>1. Excluded(Linked[i]) \/ selected = Linked[i] \/ (selected # NoTask /\ Better(selected, Linked[i]))
      BY DEF BestOf
    <3>2. Linked[i] \in Int /\ Linked[i] # NoTask /\ remaining[Linked[i]] \in Nat
      BY <1>1
    <3>3. CASE selected # NoTask /\ Better(selected, Linked[i])
      BY <1>3, <1>4, <2>1, <3>2, <3>3 DEF Better
    <3> QED BY <1>3, <2>1, <3>1, <3>2, <3>3
  <2>3. \A i \in 1 .. k + 1 : i \in 1 .. k \/ i = k + 1
    BY <1>3
  <2> QED BY <1>3, <2>1, <2>2, <2>3
<1>6. CASE ~Prefers(new)
  <2>1. s = selected
    BY <1>6
  <2>2. Excluded(new) \/ s = new \/ (s # NoTask /\ Better(s, new))
    BY <1>2, <1>3, <1>4, <1>6, <2>1 DEF Prefers, Better
  <2>3. \A i \in 1 .. k + 1 : i \in 1 .. k \/ i = k + 1
    BY <1>3
  <2>4. \A i \in 1 .. k : i \in 1 .. k + 1
    BY <1>3
  <2> QED BY <2>1, <2>2, <2>3, <2>4 DEF BestOf
<1> QED BY <1>5, <1>6

LEMMA PeekPassInv ==
  ASSUME Inv, PeekPass
  PROVE  Inv'
<1>1. request.op = "peek" /\ request' = request /\ before' = before /\ pass' = pass /\ remaining' = remaining
  BY DEF PeekPass, fixedVars
<1>2. PICK k \in 0 .. Length : PeekPlace(k)
  BY <1>1 DEF Inv, PeekInv
<1>3. Length' = Length /\ Linked' = Linked /\ ListInv'
  BY SameList DEF Inv, PeekPass
<1>4. /\ Length \in Nat /\ Length <= MaxTasks /\ k \in 0 .. Length - 1 /\ k + 1 \in 1 .. Length
      /\ curr = Linked[k + 1] /\ curr \in Tasks /\ next[curr] = At(k + 2)
  BY <1>2, ListFacts DEF Inv, PeekPass, PeekPlace, At
<1>5. curr' = At((k + 1) + 1)'
  BY <1>3, <1>4 DEF At, PeekPass
<1>6. \A i \in 1 .. Length : pass > 1 \/ i <= k + 1 => ~IsShell(Linked[i])
  BY <1>2, <1>4 DEF PeekPlace, PeekPass
<1>7. PeekPlace(k + 1)'
  <2>1. \A i \in 1 .. Length' : pass' > 1 \/ i <= k + 1 => ~IsShell(Linked[i])'
    BY <1>1, <1>3, <1>6 DEF IsShell
  <2>2. CASE pass = 1
    BY <1>1, <1>2, <1>5, <2>1, <2>2 DEF PeekPlace, PeekPass
  <2>3. CASE pass = 2
    <3>1. demoCount' = k + 1 /\ selected' = NoTask
      BY <1>2, <1>4, <1>6, <2>3 DEF PeekPlace, PeekPass
    <3> QED BY <1>1, <1>5, <2>1, <2>3, <3>1 DEF PeekPlace
  <2>4. CASE pass = 3
    <3>1. demoCount = Length /\ BestOf(k) /\ demoCount' = Length' /\ ~IsShell(curr)
      BY <1>2, <1>3, <1>4, <1>6, <2>4 DEF PeekPlace, PeekPass
    <3>2. selected' = IF Prefers(Linked[k + 1]) THEN Linked[k + 1] ELSE selected
      BY <1>4, <2>4, <3>1 DEF PeekPass
    <3>3. \A i \in 1 .. Length : ~IsShell(Linked[i])
      BY <1>2, <2>4 DEF PeekPlace
    <3>4. /\ selected' = NoTask \/ (~Excluded(selected') /\ \E i \in 1 .. k + 1 : selected' = Linked[i])
          /\ \A i \in 1 .. k + 1 :
               \/ Excluded(Linked[i])
               \/ selected' = Linked[i]
               \/ selected' # NoTask /\ Better(selected', Linked[i])
      BY <1>4, <3>1, <3>2, <3>3, BestOfOneMore DEF Inv
    <3>5. BestOf(k + 1)'
      BY <1>1, <1>3, <3>4 DEF BestOf, Excluded, Better
    <3> QED BY <1>1, <1>5, <2>1, <2>4, <3>1, <3>5 DEF PeekPlace
  <2> QED BY <1>2, <2>2, <2>3, <2>4 DEF PeekPlace
<1>8. PeekInv'
  BY <1>1, <1>3, <1>4, <1>7 DEF Inv, PeekInv
<1>9. TypeOK'
  <2>1. selected' \in Tasks \cup {NoTask} /\ curr' \in Tasks \cup {NoTask}
    BY <1>4 DEF Inv, TypeOK, PeekPass
  <2>2. demoCount' \in 0 .. MaxTasks
    BY <1>1, <1>2, <1>3, <1>4, <1>7, TaskFacts DEF PeekPlace
  <2> QED BY <2>1, <2>2 DEF Inv, TypeOK, PeekPass, fixedVars
<1>10. RequestInv' /\ RestInv' /\ DequeueInv' /\ RemoveInv'
  BY <1>1 DEF Inv, PeekPass, RequestInv, RestInv, DequeueInv, RemoveInv, Idle
<1> QED BY <1>3, <1>8, <1>9, <1>10 DEF Inv

LEMMA PeekNextPassInv ==
  ASSUME Inv, PeekNextPass
  PROVE  Inv'
<1>1. /\ request.op = "peek" /\ request' = request /\ before' = before /\ remaining' = remaining
      /\ pass' = pass + 1 /\ pass < 3 /\ demoCount' = demoCount /\ selected' = selected
  BY DEF PeekNextPass, fixedVars
<1>2. PICK k \in 0 .. Length : PeekPlace(k)
  BY <1>1 DEF Inv, PeekInv
<1>3. Length' = Length /\ Linked' = Linked /\ ListInv'
  BY SameList DEF Inv, PeekNextPass
<1>4. k = Length /\ Length \in Nat /\ pass \in 1 .. 2
  BY <1>1, <1>2, ListFacts DEF Inv, PeekNextPass, PeekPlace
<1>5. curr' = At(0 + 1)' /\ 0 \in 0 .. Length'
  BY <1>3, <1>4, ListFacts DEF At, PeekNextPass, Inv
<1>6. \A i \in 1 .. Length' : ~IsShell(Linked[i])'
  BY <1>1, <1>2, <1>3, <1>4 DEF PeekPlace, IsShell
<1>7. PeekPlace(0)'
  <2>1. CASE pass = 1
    BY <1>1, <1>2, <1>5, <1>6, <2>1 DEF PeekPlace
  <2>2. CASE pass = 2
    <3>1. demoCount' = Length' /\ selected' = NoTask
      BY <1>1, <1>2, <1>3, <1>4, <2>2 DEF PeekPlace
    <3>2. BestOf(0)'
      BY <3>1 DEF BestOf
    <3> QED BY <1>1, <1>5, <1>6, <2>2, <3>1, <3>2 DEF PeekPlace
  <2> QED BY <1>4, <2>1, <2>2
<1>8. PeekInv'
  BY <1>1, <1>3, <1>5, <1>7 DEF Inv, PeekInv
<1>9. TypeOK'
  <2>1. head \in Tasks \cup {NoTask} /\ pass' \in 0 .. 3
    BY <1>1, <1>4 DEF Inv, TypeOK
  <2> QED BY <2>1 DEF Inv, TypeOK, PeekNextPass, fixedVars
<1>10. RequestInv' /\ RestInv' /\ DequeueInv' /\ RemoveInv'
  BY <1>1 DEF Inv, PeekNextPass, RequestInv, RestInv, DequeueInv, RemoveInv, Idle
<1> QED BY <1>3, <1>8, <1>9, <1>10 DEF Inv

LEMMA PeekEndInv ==
  ASSUME Inv, PeekEnd
  PROVE  Inv'
<1>1. ListInv'
  BY SameList DEF PeekEnd, Inv
<1>2. TypeOK'
  BY ReleaseInv, TaskFacts DEF PeekEnd, Inv, TypeOK, fixedVars
<1> QED BY <1>1, <1>2, ReleaseInv DEF PeekEnd, Inv

LEMMA StutterInv ==
  ASSUME Inv, UNCHANGED vars
  PROVE  Inv' /\ Linked' = Linked
<1>1. /\ ListInv' /\ Length' = Length /\ Linked' = Linked
      /\ UNCHANGED <<head, tail, next, remaining, owner, place, request, curr, prev, pass, demoCount, selected, answer, before>>
  BY SameList DEF vars, Inv, fixedVars, peekVars
<1>2. TypeOK' /\ RequestInv' /\ RestInv'
  BY <1>1 DEF Inv, TypeOK, RequestInv, RestInv
<1>3. \A k : At(k)' = At(k)
  BY <1>1 DEF At
<1>4. DequeueInv'
  BY <1>1, <1>3 DEF Inv, DequeueInv, DequeuePlace
<1>5. RemoveInv'
  BY <1>1, <1>3 DEF Inv, RemoveInv, RemovePlace, Kept
<1>6. PeekInv'
  BY <1>1, <1>3 DEF Inv, PeekInv, PeekPlace, BestOf, Excluded, Better, IsShell
<1> QED BY <1>1, <1>2, <1>4, <1>5, <1>6 DEF Inv

LEMMA StepInv == Inv /\ [Next]_vars => Inv'
BY EnqueueInv, DequeueBeginInv, DequeuePassInv, DequeueFoundInv, DequeueMissingInv,
   PeekBeginInv, PeekShellInv, PeekPassInv, PeekNextPassInv, PeekEndInv,
   RemoveBeginInv, RemoveTaskInv, RemovePassInv, RemoveEndInv, StutterInv
   DEF Next

LEMMA InvCorrect == Spec => []Inv
BY InitInv, StepInv, PTL DEF Spec

\* Every variable always holds a value of its type; demo_count never exceeds
\* the number of tasks.
THEOREM TypeCorrect == Spec => []TypeOK
BY InvCorrect, PTL DEF Inv

\* Whatever the operations, whenever the mutex is free one reaches from
\* queue_head exactly the queued tasks, each once, and last the one at
\* queue_tail (scheduler_queue.c, lines 98-107, 183-198 and 296-324).
THEOREM ListWhole == Spec => []WellLinked
<1>1. Inv => WellLinked
  <2> SUFFICES ASSUME Inv
               PROVE  /\ ToSet(Linked) = {t \in Tasks : place[t] = "in"}
                      /\ IsInjective(Linked)
                      /\ tail = IF Linked = <<>> THEN NoTask ELSE Last(Linked)
    BY DEF WellLinked
  <2>1. PICK n \in Nat : n = Length /\ Linked \in [1 .. n -> Tasks] /\ Describes(Linked, n)
    BY TaskFacts DEF Inv, ListInv
  <2>2. PICK L \in [1 .. n -> Tasks] : L = Linked /\ Describes(L, n)
    BY <2>1
  <2>3. ToSet(L) = {t \in Tasks : place[t] = "in"} /\ IsInjective(L)
    BY <2>2 DEF Describes, ToSet, IsInjective
  <2>4. L \in Seq(Tasks) /\ Len(L) = n
    BY SeqDef, LenProperties
  <2>5. L = <<>> <=> n = 0
    BY <2>4, EmptySeq
  <2>6. tail = IF L = <<>> THEN NoTask ELSE Last(L)
    BY <2>2, <2>4, <2>5 DEF Describes, Last
  <2> QED BY <2>2, <2>3, <2>6
<1> QED BY <1>1, InvCorrect, PTL

\* No loop over the list ever points at a task that is not queued, one that
\* has been freed above all (scheduler_queue.c, lines 178-207 and 290-319).
THEOREM PointersCorrect == Spec => []PointersStayInList
<1>1. Inv => PointersStayInList
  <2> SUFFICES ASSUME Inv PROVE \A p \in {head, curr, prev, selected} : p # NoTask => place[p] = "in"
    BY DEF PointersStayInList
  <2>1. \A k \in Nat : At(k) # NoTask => At(k) \in Tasks /\ place[At(k)] = "in"
    BY ListFacts DEF Inv, At
  <2>2. head # NoTask => place[head] = "in"
    BY <2>1, ListFacts DEF Inv
  <2>3. CASE request.op = "idle"
    BY <2>2, <2>3, RequestFacts DEF Inv, RestInv
  <2>4. CASE request.op = "dequeue"
    <3>1. PICK k \in 0 .. Length : DequeuePlace(k)
      BY <2>4 DEF Inv, DequeueInv
    <3> QED BY <2>1, <2>2, <2>4, <3>1, ListFacts DEF Inv, RestInv, DequeuePlace
  <2>5. CASE request.op = "remove"
    <3>1. PICK k \in 0 .. Length : RemovePlace(k)
      BY <2>5 DEF Inv, RemoveInv
    <3> QED BY <2>1, <2>2, <2>5, <3>1, ListFacts DEF Inv, RestInv, RemovePlace
  <2>6. CASE request.op = "peek"
    <3>1. PICK k \in 0 .. Length : PeekPlace(k)
      BY <2>6 DEF Inv, PeekInv
    <3>2. Length \in Nat /\ k \in Nat /\ curr = At(k + 1) /\ prev = NoTask
      BY <2>6, <3>1, ListFacts DEF Inv, RestInv, PeekPlace
    <3>3. selected # NoTask => \E i \in 1 .. Length : selected = Linked[i]
      BY <3>1, <3>2 DEF PeekPlace, BestOf
    <3>4. selected # NoTask => place[selected] = "in"
      BY <3>3, ListFacts DEF Inv
    <3> QED BY <2>1, <2>2, <3>2, <3>4
  <2> QED BY <2>3, <2>4, <2>5, <2>6, RequestFacts DEF Inv
<1> QED BY <1>1, InvCorrect, PTL

-----------------------------------------------------------------------------
(* LinkedQueue implements TaskQueue *)

\* What TaskQueue sees of the list: nothing of an operation until it returns.
Shown == IF request = Idle THEN Linked ELSE before

LEMMA LinkedFacts ==
  ASSUME ListInv
  PROVE  /\ Linked \in Seq(Tasks) /\ Len(Linked) = Length /\ DOMAIN Linked = 1 .. Length
         /\ IsInjective(Linked)
         /\ \A t : t \in ToSet(Linked) <=> \E i \in 1 .. Length : Linked[i] = t
<1>1. PICK n \in Nat : n = Length /\ Linked \in [1 .. n -> Tasks] /\ Describes(Linked, n)
  BY TaskFacts DEF ListInv
<1>2. PICK L \in [1 .. n -> Tasks] : L = Linked /\ Describes(L, n)
  BY <1>1
<1>3. L \in Seq(Tasks) /\ Len(L) = n
  BY SeqDef, LenProperties
<1>4. IsInjective(L) /\ \A t : t \in ToSet(L) <=> \E i \in 1 .. n : L[i] = t
  BY <1>2 DEF Describes, IsInjective, ToSet
<1> QED BY <1>1, <1>2, <1>3, <1>4

LEMMA QueueFacts ==
  /\ Queue!NoTask = NoTask /\ Queue!Idle = Idle
  /\ \A s : Queue!ToSet(s) = ToSet(s)
  /\ \A s : Queue!IsInjective(s) <=> IsInjective(s)
BY DEF Queue!NoTask, NoTask, Queue!Idle, Idle, Queue!ToSet, ToSet, Queue!IsInjective, IsInjective

LEMMA InitShown == Init => Queue!Init
<1> SUFFICES ASSUME Init PROVE Queue!Init
  OBVIOUS
<1>1. request = Idle /\ Idle = Queue!Idle /\ answer = Queue!NoTask
  BY QueueFacts DEF Init
<1>2. Linked = <<>>
  <2> DEFINE L == [i \in 1 .. 0 |-> NoTask]
  <2>1. 0 \in Nat /\ L \in [1 .. 0 -> Tasks] /\ Describes(L, 0)
    BY DEF Init, Describes
  <2> HIDE DEF L
  <2>2. Linked = L
    BY <2>1, DescribedIsLinked DEF DescribesLinked
  <2>3. L \in Seq(Tasks) /\ Len(L) = 0
    BY <2>1, SeqDef, LenProperties
  <2> QED BY <2>2, <2>3, EmptySeq
<1>3. remaining \in [Tasks -> Int] /\ owner \in [Tasks -> Clients]
  <2>1. Times \cup {ShellTime} \subseteq Int
    BY TimesAssumption DEF ShellTime
  <2>2. remaining \in [Tasks -> Times \cup {ShellTime}] /\ owner \in [Tasks -> Clients]
    BY DEF Init
  <2> QED BY <2>1, <2>2
<1> QED BY <1>1, <1>2, <1>3 DEF Queue!Init

LEMMA EnqueueShown ==
  ASSUME Inv, NEW t \in Tasks, Enqueue(t)
  PROVE  Queue!Next
<1>1. request = Idle /\ request' = Idle /\ UNCHANGED <<remaining, owner, request, answer>>
  BY DEF Enqueue, fixedVars
<1>2. t \notin ToSet(Linked)
  <2>1. place[t] # "in"
    BY DEF Enqueue
  <2> QED BY <2>1, LinkedFacts, ListFacts DEF Inv
<1>3. Linked' = Append(Linked, t)
  <2>1. Linked' = [i \in 1 .. Length + 1 |-> IF i = Length + 1 THEN t ELSE Linked[i]]
    BY LinkAtTailList DEF Inv, Enqueue
  <2>2. Linked \in Seq(Tasks) /\ Len(Linked) = Length /\ Length \in Nat
    BY LinkedFacts, ListFacts DEF Inv
  <2>3. /\ Append(Linked, t) \in Seq(Tasks) /\ Len(Append(Linked, t)) = Length + 1
        /\ \A i \in 1 .. Length : Append(Linked, t)[i] = Linked[i]
        /\ Append(Linked, t)[Length + 1] = t
    BY <2>2, AppendProperties
  <2> DEFINE A == Append(Linked, t)
             n == Length
  <2>4. A \in [1 .. n + 1 -> Tasks]
    BY <2>2, <2>3, LenProperties
  <2>5. n \in Nat /\ Linked' = [i \in 1 .. n + 1 |-> IF i = n + 1 THEN t ELSE Linked[i]]
    BY <2>1, <2>2
  <2>6. A[n + 1] = t /\ \A i \in 1 .. n : A[i] = Linked[i]
    BY <2>3
  <2> HIDE DEF A, n
  <2>7. A = Linked'
    BY <2>4, <2>5, <2>6
  <2> QED BY <2>7 DEF A
<1>4. Queue!Enqueue(t)
  BY <1>1, <1>2, <1>3, QueueFacts DEF Queue!Enqueue, Queue!Queued
<1> QED BY <1>4 DEF Queue!Next

LEMMA BeginShown ==
  ASSUME Inv, NEW op, NEW arg, Begin(op, arg), request' \in Queue!Requests
  PROVE  Queue!Next
<1>1. /\ request = Idle /\ request' # Idle /\ answer' = NoTask /\ before' = Linked
      /\ UNCHANGED <<remaining, owner>>
  BY DEF Begin, Queue!Requests, Idle, fixedVars
<1>2. Queue!Call(request')
  BY <1>1, QueueFacts DEF Queue!Call
<1> QED BY <1>2 DEF Queue!Next

LEMMA InsideShown ==
  ASSUME request' = request, request.op # "idle", UNCHANGED <<remaining, owner, answer, before>>
  PROVE  UNCHANGED Queue!vars
<1>1. request # Idle
  BY DEF Idle
<1> QED BY <1>1 DEF Queue!vars

LEMMA DequeueFoundShown ==
  ASSUME Inv, DequeueFound
  PROVE  Queue!Next
<1>1. /\ request.op = "dequeue" /\ request # Idle /\ request' = Idle /\ answer' = 1
      /\ UNCHANGED <<remaining, owner>> /\ before = Linked
  BY DEF DequeueFound, Release, Idle, fixedVars, Inv, DequeueInv
<1>2. PICK k \in 0 .. Length - 1 :
        request.arg = Linked[k + 1] /\ Length' = Length - 1 /\ Linked' = Dropped(k + 1) /\ ListInv'
  BY DequeueFoundList
<1>3. k + 1 \in 1 .. Length
  BY ListFacts DEF Inv
<1>4. /\ IsInjective(Linked')
      /\ ToSet(Linked') = ToSet(Linked) \ {request.arg}
      /\ \A t, u \in ToSet(Linked') : Precedes(Linked', t, u) <=> Precedes(Linked, t, u)
  BY <1>2, <1>3, DroppedFacts DEF Inv
<1>5. request.arg \in ToSet(Linked)
  BY <1>2, <1>3, LinkedFacts DEF Inv
<1>6. Queue!Leave({request.arg})
  BY <1>1, <1>4, QueueFacts DEF Queue!Leave, Queue!Queued, Queue!Before, Precedes
<1>7. Queue!DequeueById
  BY <1>1, <1>5, <1>6, QueueFacts DEF Queue!DequeueById, Queue!Queued
<1> QED BY <1>1, <1>7, QueueFacts DEF Queue!Next, Queue!Return

LEMMA DequeueMissingShown ==
  ASSUME Inv, DequeueMissing
  PROVE  Queue!Next
<1>1. /\ request.op = "dequeue" /\ request # Idle /\ request' = Idle /\ answer' = 0
      /\ UNCHANGED <<remaining, owner>> /\ before = Linked
  BY DEF DequeueMissing, Release, Idle, fixedVars, Inv, DequeueInv
<1>2. Linked' = Linked
  BY SameList DEF Inv, DequeueMissing
<1>3. PICK k \in 0 .. Length : DequeuePlace(k)
  BY <1>1 DEF Inv, DequeueInv
<1>4. k = Length
  BY <1>3, ListFacts DEF Inv, DequeueMissing, DequeuePlace
<1>5. request.arg \notin ToSet(Linked)
  BY <1>3, <1>4, LinkedFacts DEF Inv, DequeuePlace
<1>6. Queue!Leave({request.arg})
  BY <1>1, <1>2, <1>5, LinkedFacts, QueueFacts DEF Queue!Leave, Queue!Queued, Queue!Before, Inv
<1>7. Queue!DequeueById
  BY <1>1, <1>5, <1>6, QueueFacts DEF Queue!DequeueById, Queue!Queued
<1> QED BY <1>1, <1>7, QueueFacts DEF Queue!Next, Queue!Return

LEMMA RemoveEndShown ==
  ASSUME Inv, RemoveEnd
  PROVE  Queue!Next
<1>1. /\ request.op = "remove" /\ request # Idle /\ request' = Idle
      /\ UNCHANGED <<remaining, owner, answer>> /\ Kept
  BY DEF RemoveEnd, Release, Idle, fixedVars, Inv, RemoveInv
<1>2. Linked' = Linked
  BY RemoveEndInv
<1>3. PICK k \in 0 .. Length : RemovePlace(k)
  BY <1>1 DEF Inv, RemoveInv
<1>4. k = Length
  BY <1>3, ListFacts DEF Inv, RemoveEnd, RemovePlace
<1>5. \A t \in ToSet(Linked) : owner[t] # request.arg
  BY <1>3, <1>4, LinkedFacts DEF Inv, RemovePlace
<1> DEFINE S == {t \in Tasks : owner[t] = request.arg}
<1>6. ToSet(Linked) = ToSet(before) \ S
  BY <1>1, <1>5 DEF Kept
<1>7. \A t, u \in ToSet(Linked) : Precedes(Linked, t, u) <=> Precedes(before, t, u)
  BY <1>1 DEF Kept
<1> HIDE DEF S
<1>8. Queue!Leave(S)
  BY <1>1, <1>2, <1>6, <1>7, LinkedFacts, QueueFacts DEF Queue!Leave, Queue!Queued, Queue!Before, Precedes, Inv
<1>9. Queue!RemoveClient
  BY <1>1, <1>8 DEF Queue!RemoveClient, S
<1> QED BY <1>1, <1>9, QueueFacts DEF Queue!Next, Queue!Return

LEMMA PeekShown ==
  ASSUME Inv, request.op = "peek", Release, UNCHANGED <<head, tail, next, fixedVars, place>>,
         answer' \in Tasks \cup {NoTask}, Queue!IsBest(answer', request.arg)
  PROVE  Queue!Next
<1>1. /\ request # Idle /\ request' = Idle /\ UNCHANGED <<remaining, owner>> /\ before = Linked
  BY DEF Release, Idle, fixedVars, Inv, PeekInv
<1>2. Linked' = Linked
  BY SameList DEF Inv
<1>3. Queue!PeekBest
  BY <1>1, <1>2, QueueFacts DEF Queue!PeekBest
<1> QED BY <1>1, <1>3, QueueFacts DEF Queue!Next, Queue!Return

LEMMA PeekShellShown ==
  ASSUME Inv, PeekShell
  PROVE  Queue!Next
<1>1. request.op = "peek" /\ request # Idle /\ before = Linked /\ answer' = curr
  BY DEF PeekShell, Idle, Inv, PeekInv
<1>2. PICK k \in 0 .. Length : PeekPlace(k)
  BY <1>1 DEF Inv, PeekInv
<1>3. k \in Nat /\ k + 1 \in 1 .. Length /\ curr = Linked[k + 1] /\ curr \in Tasks /\ remaining[curr] = -1
  BY <1>2, ListFacts DEF Inv, PeekShell, PeekPlace, At, IsShell, ShellTime
<1>4. \A i \in 1 .. k : remaining[Linked[i]] # -1
  BY <1>2, <1>3, ListFacts DEF Inv, PeekShell, PeekPlace, IsShell, ShellTime
<1>5. curr \in Queue!Shells /\ \A i \in 1 .. k : Linked[i] \notin Queue!Shells
  BY <1>1, <1>3, <1>4, LinkedFacts, QueueFacts DEF Inv, Queue!Shells, Queue!Queued
<1>6. k + 1 \in DOMAIN Linked /\ (k + 1) - 1 = k
  BY <1>3, LinkedFacts DEF Inv
<1>7. \E i \in DOMAIN Linked : /\ Linked[i] = curr /\ curr \in Queue!Shells
                               /\ \A j \in 1 .. i - 1 : Linked[j] \notin Queue!Shells
  BY <1>3, <1>5, <1>6
<1>8. Queue!IsBest(curr, request.arg)
  BY <1>1, <1>5, <1>7, QueueFacts DEF Queue!IsBest
<1> QED BY <1>1, <1>3, <1>8, PeekShown DEF PeekShell

LEMMA PeekEndShown ==
  ASSUME Inv, PeekEnd
  PROVE  Queue!Next
<1>1. request.op = "peek" /\ request # Idle /\ before = Linked /\ answer' = selected /\ pass = 3
  BY DEF PeekEnd, Idle, Inv, PeekInv
<1>2. PICK k \in 0 .. Length : PeekPlace(k)
  BY <1>1 DEF Inv, PeekInv
<1>3. k = Length /\ Length \in Nat
  BY <1>2, ListFacts DEF Inv, PeekEnd, PeekPlace
<1>4. BestOf(Length) /\ \A i \in 1 .. Length : remaining[Linked[i]] # -1
  BY <1>1, <1>2, <1>3 DEF PeekPlace, IsShell, ShellTime
<1> DEFINE Q == ToSet(Linked)
           last == request.arg
<1>5. \A t : t \in Q <=> \E i \in 1 .. Length : Linked[i] = t
  BY LinkedFacts DEF Inv
<1>6. NoTask \notin Q
  BY <1>5, ListFacts, TaskFacts DEF Inv
<1>7. Queue!Shells = {} /\ Queue!Demos = Q
  <2>1. Queue!Queued = Q
    BY <1>1, QueueFacts DEF Queue!Queued
  <2> HIDE DEF Q
  <2>2. \A t \in Q : remaining[t] # -1
    BY <1>4, <1>5
  <2> QED BY <2>1, <2>2, QueueFacts DEF Queue!Shells, Queue!Demos
<1>8. Queue!Eligible(last) = {t \in Q : ~Excluded(t)} /\ (Q # {} => Queue!Eligible(last) # {})
  <2> HIDE DEF Q
  <2>1. Queue!Eligible(last) = IF Q \ {last} # {} THEN Q \ {last} ELSE Q
    BY <1>7 DEF Queue!Eligible
  <2>2. CASE Length <= 1
    <3>1. \A t, u \in Q : t = u
      BY <1>3, <1>5, <2>2
    <3>2. {t \in Q : ~Excluded(t)} = Q
      BY <1>3, <2>2 DEF Excluded
    <3> QED BY <2>1, <3>1, <3>2
  <2>3. CASE Length > 1
    <3>1. 1 \in 1 .. Length /\ 2 \in 1 .. Length
      BY <1>3, <2>3
    <3>2. Linked[1] # Linked[2] /\ Linked[1] \in Q /\ Linked[2] \in Q
      BY <1>5, <3>1, ListFacts DEF Inv
    <3>3. {t \in Q : ~Excluded(t)} = Q \ {last}
      BY <2>3 DEF Excluded
    <3> QED BY <2>1, <3>2, <3>3
  <2> QED BY <1>3, <2>2, <2>3
<1>9. CASE Q = {}
  <2>1. selected = NoTask
    BY <1>4, <1>5, <1>9 DEF BestOf
  <2>2. Queue!IsBest(selected, last)
    BY <1>7, <1>9, <2>1, QueueFacts DEF Queue!IsBest
  <2> QED BY <1>1, <2>1, <2>2, PeekShown DEF PeekEnd
<1>10. CASE Q # {}
  <2>1. \A t \in Q : Excluded(t) \/ selected = t \/ (selected # NoTask /\ Better(selected, t))
    BY <1>4, <1>5 DEF BestOf
  <2>2. selected # NoTask
    BY <1>6, <1>8, <1>10, <2>1
  <2>3. selected \in Q /\ ~Excluded(selected)
    BY <1>4, <1>5, <2>2 DEF BestOf
  <2>4. selected \in Tasks
    BY <2>2 DEF Inv, TypeOK
  <2> HIDE DEF Q
  <2>5. /\ selected \in Queue!Eligible(last)
        /\ \A u \in Queue!Eligible(last) \ {selected} : Better(selected, u)
    BY <1>8, <2>1, <2>3
  <2>6. Queue!IsBest(selected, last)
    BY <1>7, <1>10, <2>5, QueueFacts DEF Queue!IsBest, Better
  <2> QED BY <1>1, <2>4, <2>6, PeekShown DEF PeekEnd
<1> QED BY <1>9, <1>10

LEMMA StepShown == Inv /\ [Next]_vars => [Queue!Next]_(Queue!vars)
<1> SUFFICES ASSUME Inv, [Next]_vars PROVE Queue!Next \/ UNCHANGED Queue!vars
  OBVIOUS
<1>1. ASSUME NEW t \in Tasks, Enqueue(t) PROVE Queue!Next
  BY <1>1, EnqueueShown
<1>2. ASSUME NEW t \in Tasks, DequeueBegin(t) PROVE Queue!Next
  <2>1. Begin("dequeue", t) /\ request' \in Queue!Requests
    BY <1>2 DEF DequeueBegin, Begin, Queue!Requests
  <2> QED BY <2>1, BeginShown
<1>3. ASSUME NEW last \in Tasks \cup {NoSelection}, PeekBegin(last) PROVE Queue!Next
  <2>1. Begin("peek", last) /\ request' \in Queue!Requests
    BY <1>3 DEF PeekBegin, Begin, Queue!Requests, NoSelection
  <2> QED BY <2>1, BeginShown
<1>4. ASSUME NEW c \in Clients, RemoveBegin(c) PROVE Queue!Next
  <2>1. Begin("remove", c) /\ request' \in Queue!Requests
    BY <1>4 DEF RemoveBegin, Begin, Queue!Requests
  <2> QED BY <2>1, BeginShown
<1>5. CASE DequeuePass \/ PeekPass \/ PeekNextPass \/ RemoveTask \/ RemovePass
  BY <1>5, InsideShown DEF DequeuePass, PeekPass, PeekNextPass, RemoveTask, RemovePass, fixedVars
<1>6. CASE DequeueFound \/ DequeueMissing \/ RemoveEnd
  BY <1>6, DequeueFoundShown, DequeueMissingShown, RemoveEndShown
<1>7. CASE PeekShell \/ PeekEnd
  BY <1>7, PeekShellShown, PeekEndShown
<1>8. CASE UNCHANGED vars
  <2>1. Linked' = Linked
    BY <1>8, StutterInv
  <2> QED BY <1>8, <2>1 DEF vars, Queue!vars, fixedVars
<1> QED BY <1>1, <1>2, <1>3, <1>4, <1>5, <1>6, <1>7, <1>8 DEF Next

\* Each operation, whatever its loop goes through, does to the list at one
\* moment what TaskQueue says, and returns what TaskQueue says: the task asked
\* for goes, the tasks of a client go, the best task is chosen
\* (scheduler_queue.c, lines 160-332).
THEOREM ImplementsQueue == Spec => ImplementsTaskQueue
<1>1. Spec => Queue!Spec
  BY InitShown, StepShown, InvCorrect, PTL DEF Spec, Queue!Spec
<1> QED BY <1>1 DEF ImplementsTaskQueue
=============================================================================
