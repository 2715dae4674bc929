---------------------------- MODULE MeaningProofs ----------------------------
(***************************************************************************)
(* A well-spaced line is understood as it is meant, or refused because it  *)
(* is wrong: for an array, a command and a pipeline of any size.           *)
(*                                                                         *)
(* The items of the line are put in order, and what next_token returns is  *)
(* compared with the item that comes next.  The invariant says how many    *)
(* items of the command have been read, and that the command says what     *)
(* they say.                                                               *)
(***************************************************************************)
EXTENDS ParserProofs, SequenceTheorems

-----------------------------------------------------------------------------
(* Recursion along a sequence *)

\* A fact about 0 that passes from each number to the next one holds up to N,
\* if no number is the least at which it does not.
NoLeast(bad, N) == bad \subseteq 0 .. N /\ \A m \in bad : m # 0 /\ m - 1 \in bad

LEMMA NoLeastEmpty == ASSUME NEW N \in Nat, NEW bad, NoLeast(bad, N) PROVE bad = {}
<1> SUFFICES ASSUME bad # {} PROVE FALSE
  OBVIOUS
<1>1. bad \subseteq Nat
  BY DEF NoLeast
<1>2. Min(bad) \in bad /\ \A n \in bad : Min(bad) <= n
  BY <1>1, NatMin
<1> DEFINE m == Min(bad)
<1> HIDE DEF m
<1>3. m \in Nat /\ m - 1 \in bad /\ m <= m - 1
  BY <1>1, <1>2 DEF NoLeast, m
<1> QED BY <1>3

\* F[n] is the first n sequences of f, one after the other.
Flattens(F, f, N) ==
  /\ F = [n \in 0 .. N |-> F[n]] /\ F[0] = <<>>
  /\ \A n \in 1 .. N : F[n] = F[n - 1] \o f[n]

LEMMA FlattensExist ==
  ASSUME NEW T, NEW N \in Nat, NEW f \in [1 .. N -> Seq(T)]
  PROVE  \E F \in [0 .. N -> Seq(T)] : Flattens(F, f, N)
<1> DEFINE Up(m) == \E F \in [0 .. m -> Seq(T)] : Flattens(F, f, m)
           bad == {m \in 0 .. N : ~Up(m)}
<1>1. ASSUME NEW m \in bad PROVE m # 0 /\ m - 1 \in bad
  <2>1. m # 0
    <3> DEFINE F == [n \in 0 .. 0 |-> <<>>]
    <3>1. F \in [0 .. 0 -> Seq(T)] /\ Flattens(F, f, 0)
      BY DEF Flattens
    <3> HIDE DEF F
    <3>2. Up(0)
      BY <3>1
    <3> QED BY <3>2
  <2>2. m - 1 \in 0 .. N /\ m \in 1 .. N
    BY <2>1
  <2> SUFFICES ASSUME m - 1 \notin bad PROVE FALSE
    BY <2>1
  <2>3. PICK F \in [0 .. m - 1 -> Seq(T)] : Flattens(F, f, m - 1)
    BY <2>2
  <2> DEFINE G == [n \in 0 .. m |-> IF n = m THEN F[m - 1] \o f[m] ELSE F[n]]
  <2>4. \A n \in 0 .. m : n = m \/ n \in 0 .. m - 1
    BY <2>2
  <2>5. F[m - 1] \in Seq(T) /\ f[m] \in Seq(T) /\ F[m - 1] \o f[m] \in Seq(T)
    <3>1. F[m - 1] \in Seq(T) /\ f[m] \in Seq(T)
      BY <2>2
    <3> QED BY <3>1, ConcatProperties
  <2>6. G \in [0 .. m -> Seq(T)]
    BY <2>4, <2>5
  <2>7. G = [n \in 0 .. m |-> G[n]]
    OBVIOUS
  <2>8. G[0] = <<>>
    BY <2>1, <2>2, <2>3 DEF Flattens
  <2>9. ASSUME NEW n \in 1 .. m PROVE G[n] = G[n - 1] \o f[n]
    <3>1. CASE n = m
      <4>1. m \in 0 .. m /\ m - 1 \in 0 .. m /\ m - 1 # m
        BY <2>2
      <4> QED BY <3>1, <4>1
    <3>2. CASE n # m
      <4>1. n \in 1 .. m - 1 /\ n \in 0 .. m /\ n - 1 \in 0 .. m /\ n - 1 # m
        BY <2>2, <3>2
      <4> QED BY <2>3, <3>2, <4>1 DEF Flattens
    <3> QED BY <3>1, <3>2
  <2> HIDE DEF G
  <2>10. Flattens(G, f, m)
    BY <2>7, <2>8, <2>9 DEF Flattens
  <2>11. Up(m)
    BY <2>6, <2>10
  <2> QED BY <2>11
<1>2. NoLeast(bad, N)
  <2> HIDE DEF Up
  <2> QED BY <1>1 DEF NoLeast
<1>3. bad = {}
  <2> HIDE DEF bad
  <2> QED BY <1>2, NoLeastEmpty
<1>4. N \in 0 .. N
  OBVIOUS
<1> QED BY <1>3, <1>4

\* What FlattenSeq returns, by a recursion of its own.
LEMMA FlattenIs ==
  ASSUME NEW T, NEW N \in Nat, NEW f \in [1 .. N -> Seq(T)], NEW F \in [0 .. N -> Seq(T)], Flattens(F, f, N)
  PROVE  FlattenSeq(f) = F[N]
<1> DEFINE Step(w) == [i \in 1 .. N |-> IF i = 1 THEN f[i] ELSE w[i - 1] \o f[i]]
           flatten == CHOOSE w : w = Step(w)
<1>1. f \in Seq(Seq(T)) /\ Len(f) = N
  OBVIOUS
<1>2. CASE N = 0
  BY <1>1, <1>2 DEF FlattenSeq, Flattens
<1>3. CASE N # 0
  <2>1. FlattenSeq(f) = flatten[N]
    BY <1>1, <1>3 DEF FlattenSeq
  <2> DEFINE v == [i \in 1 .. N |-> F[i]]
  <2>2. v = Step(v)
    <3>1. ASSUME NEW i \in 1 .. N PROVE v[i] = Step(v)[i]
      <4>1. F[i] = F[i - 1] \o f[i] /\ v[i] = F[i]
        BY <3>1 DEF Flattens
      <4>2. CASE i = 1
        <5>1. F[i - 1] = <<>> /\ f[i] \in Seq(T)
          BY <4>2 DEF Flattens
        <5>2. F[i - 1] \o f[i] = f[i]
          BY <5>1, ConcatEmptySeq
        <5>3. Step(v)[i] = f[i]
          BY <4>2
        <5> HIDE DEF v, Step
        <5> QED BY <4>1, <5>2, <5>3
      <4>3. CASE i # 1
        <5>1. i - 1 \in 1 .. N
          BY <4>3
        <5> QED BY <4>1, <4>3, <5>1
      <4> QED BY <4>2, <4>3
    <3> HIDE DEF v
    <3>2. v = [i \in 1 .. N |-> v[i]]
      BY DEF v
    <3> QED BY <3>1, <3>2
  <2> HIDE DEF Step, v
  <2>3. flatten = Step(flatten)
    BY <2>2
  <2> HIDE DEF flatten
  <2> DEFINE bad == {n \in 0 .. N : n # 0 /\ flatten[n] # F[n]}
  <2>4. ASSUME NEW m \in bad PROVE m # 0 /\ m - 1 \in bad
    <3>1. flatten[m] = IF m = 1 THEN f[m] ELSE flatten[m - 1] \o f[m]
      <4>1. Step(flatten)[m] = IF m = 1 THEN f[m] ELSE flatten[m - 1] \o f[m]
        BY DEF Step
      <4> QED BY <2>3, <4>1
    <3>0. m \in 1 .. N /\ flatten[m] # F[m]
      BY <2>4
    <3> HIDE DEF bad
    <3>2. F[m] = F[m - 1] \o f[m]
      BY <3>0 DEF Flattens
    <3>3. m # 1
      <4> SUFFICES ASSUME m = 1 PROVE FALSE
        OBVIOUS
      <4>1. F[0] = <<>> /\ f[1] \in Seq(T)
        BY <1>3 DEF Flattens
      <4>2. F[0] \o f[1] = f[1]
        BY <4>1, ConcatEmptySeq
      <4> QED BY SMTT(30), <3>0, <3>1, <3>2, <4>2
    <3>4. m - 1 \in 0 .. N /\ m - 1 # 0
      BY <3>0, <3>3
    <3>5. flatten[m - 1] # F[m - 1]
      <4>1. flatten[m] = flatten[m - 1] \o f[m]
        BY <3>1, <3>3
      <4> QED BY <3>0, <3>2, <4>1
    <3> QED BY <3>0, <3>4, <3>5 DEF bad
  <2>5. NoLeast(bad, N)
    <3>1. bad \subseteq 0 .. N
      OBVIOUS
    <3> HIDE DEF bad
    <3> QED BY <2>4, <3>1 DEF NoLeast
  <2>6. bad = {}
    <3> HIDE DEF bad
    <3> QED BY <2>5, NoLeastEmpty
  <2>7. ~(N # 0 /\ flatten[N] # F[N])
    <3>1. N \in 0 .. N
      OBVIOUS
    <3> QED BY <2>6, <3>1
  <2> QED BY <1>3, <2>1, <2>7
<1> QED BY <1>2, <1>3

\* FlattenSeq, one sequence after the other.
UpTo(f, n) == [k \in 1 .. n |-> f[k]]

\* One sequence more is one more at the end.
LEMMA FlattenStep ==
  ASSUME NEW T, NEW N \in Nat, NEW f \in [1 .. N -> Seq(T)], NEW n \in 1 .. N
  PROVE  /\ FlattenSeq(UpTo(f, n)) = FlattenSeq(UpTo(f, n - 1)) \o f[n]
         /\ FlattenSeq(UpTo(f, n)) \in Seq(T) /\ FlattenSeq(UpTo(f, n - 1)) \in Seq(T)
<1>1. PICK F \in [0 .. N -> Seq(T)] : Flattens(F, f, N)
  BY FlattensExist
<1>2. ASSUME NEW m \in 0 .. N PROVE FlattenSeq(UpTo(f, m)) = F[m]
  <2> DEFINE g == UpTo(f, m)
             G == [k \in 0 .. m |-> F[k]]
  <2>1. g \in [1 .. m -> Seq(T)] /\ G \in [0 .. m -> Seq(T)] /\ m \in Nat
    BY DEF UpTo
  <2>2. ASSUME NEW k \in 1 .. m PROVE G[k] = G[k - 1] \o g[k]
    <3>1. k \in 1 .. N /\ k \in 0 .. m /\ k - 1 \in 0 .. m
      OBVIOUS
    <3>2. F[k] = F[k - 1] \o f[k]
      BY <1>1, <3>1 DEF Flattens
    <3> QED BY <3>1, <3>2 DEF UpTo
  <2>3. G = [k \in 0 .. m |-> G[k]] /\ G[0] = <<>> /\ G[m] = F[m]
    BY <1>1 DEF Flattens
  <2> HIDE DEF g, G
  <2>4. Flattens(G, g, m)
    BY <2>2, <2>3 DEF Flattens
  <2>5. FlattenSeq(g) = G[m]
    BY <2>1, <2>4, FlattenIs
  <2> QED BY <2>3, <2>5 DEF g
<1>3. n - 1 \in 0 .. N /\ n \in 0 .. N
  OBVIOUS
<1>4. F[n] = F[n - 1] \o f[n]
  BY <1>1 DEF Flattens
<1> QED BY <1>2, <1>3, <1>4

LEMMA FlattenNone == ASSUME NEW f PROVE FlattenSeq(UpTo(f, 0)) = <<>>
<1>1. UpTo(f, 0) = <<>>
  BY DEF UpTo
<1> QED BY <1>1 DEF FlattenSeq

\* f holds a sequence of one element at the places of K, and empty ones elsewhere.
Sparse(f, T, N, K, g) ==
  /\ f \in [1 .. N -> Seq(T)] /\ K \subseteq 1 .. N
  /\ \A k \in K : g[k] \in T /\ f[k] = <<g[k]>>
  /\ \A k \in 1 .. N : k \notin K => f[k] = <<>>

\* Flattened, it is those elements, in the order of their places.
LEMMA FlattenRanks ==
  ASSUME NEW T, NEW N \in Nat, NEW f, NEW K, NEW g, Sparse(f, T, N, K, g)
  PROVE  /\ FlattenSeq(f) \in Seq(T) /\ Len(FlattenSeq(f)) = Cardinality(K)
         /\ \A k \in K : FlattenSeq(f)[Cardinality({j \in K : j < k}) + 1] = g[k]
<1> /\ f \in [1 .. N -> Seq(T)] /\ K \subseteq 1 .. N
    /\ \A k \in K : g[k] \in T /\ f[k] = <<g[k]>>
    /\ \A k \in 1 .. N : k \notin K => f[k] = <<>>
  BY DEF Sparse
<1> DEFINE F(n) == FlattenSeq(UpTo(f, n))
           Low(k) == {j \in K : j < k}
           Right(n) == /\ F(n) \in Seq(T) /\ Len(F(n)) = Cardinality(Low(n + 1))
                       /\ \A k \in Low(n + 1) : F(n)[Cardinality(Low(k)) + 1] = g[k]
           bad == {n \in 0 .. N : ~Right(n)}
<1>1. IsFiniteSet(K) /\ \A k : IsFiniteSet(Low(k)) /\ Cardinality(Low(k)) \in Nat
  <2>1. IsFiniteSet(1 .. N)
    BY FS_Interval
  <2>2. IsFiniteSet(K)
    BY <2>1, FS_Subset
  <2>3. \A k : Low(k) \subseteq K
    OBVIOUS
  <2> QED BY <2>2, <2>3, FS_Subset, FS_CardinalityType
<1>0. \A k \in K : k \in Nat /\ k >= 1 /\ k <= N
  OBVIOUS
<1>2. Right(0)
  <2>1. F(0) = <<>>
    BY FlattenNone
  <2>2. Low(0 + 1) = {}
    <3>1. \A k \in K : ~(k < 0 + 1)
      BY <1>0
    <3> QED BY <3>1
  <2> HIDE DEF F, Low
  <2>3. <<>> \in Seq(T) /\ Len(<<>>) = 0 /\ Cardinality({}) = 0
    BY FS_EmptySet
  <2> QED BY <2>1, <2>2, <2>3
<1>3. ASSUME NEW n \in 1 .. N, Right(n - 1) PROVE Right(n)
  <2>1. F(n) = F(n - 1) \o f[n] /\ F(n) \in Seq(T) /\ F(n - 1) \in Seq(T)
    BY FlattenStep
  <2>2. F(n - 1) \in Seq(T) /\ Len(F(n - 1)) = Cardinality(Low(n)) /\ \A k \in Low(n) : F(n - 1)[Cardinality(Low(k)) + 1] = g[k]
    <3>1. n - 1 + 1 = n
      OBVIOUS
    <3> HIDE DEF F, Low
    <3> QED BY <1>3, <3>1
  <2>3. CASE n \notin K
    <3>1. Low(n + 1) = Low(n)
      <4>1. \A k \in K : k < n + 1 <=> k < n
        BY <1>0, <2>3
      <4> QED BY <4>1
    <3>2. f[n] = <<>>
      BY <2>3
    <3> HIDE DEF F, Low
    <3>3. F(n) = F(n - 1)
      BY <2>1, <3>2, ConcatEmptySeq
    <3> QED BY <2>1, <2>2, <3>1, <3>3
  <2>4. CASE n \in K
    <3>1. Low(n + 1) = Low(n) \cup {n} /\ n \notin Low(n)
      <4>1. \A k \in K : k < n + 1 <=> k < n \/ k = n
        BY <1>0
      <4>2. ~(n < n) /\ n < n + 1
        OBVIOUS
      <4> QED BY <2>4, <4>1, <4>2
    <3>2. f[n] = <<g[n]>> /\ g[n] \in T
      BY <2>4
    <3> DEFINE q == F(n - 1)
               L == Len(q)
    <3>3. F(n) = q \o <<g[n]>>
      BY <2>1, <3>2
    <3> HIDE DEF F, Low
    <3>4. q \in Seq(T) /\ L = Cardinality(Low(n)) /\ \A k \in Low(n) : q[Cardinality(Low(k)) + 1] = g[k]
      BY <2>2
    <3> HIDE DEF q
    <3>5. L \in Nat /\ F(n) = Append(q, g[n])
      BY <3>2, <3>3, <3>4
    <3>6. Len(F(n)) = L + 1 /\ F(n)[L + 1] = g[n] /\ \A i \in 1 .. L : F(n)[i] = q[i]
      BY <3>2, <3>4, <3>5
    <3>7. Cardinality(Low(n + 1)) = L + 1
      BY <1>1, <3>1, <3>4, FS_AddElement
    <3>8. ASSUME NEW k \in Low(n) PROVE Cardinality(Low(k)) + 1 \in 1 .. L
      <4>1. Low(k) \cup {k} \subseteq Low(n) /\ k \notin Low(k)
        <5>1. k \in Nat /\ k < n /\ k \in K
          BY <1>0, <3>8 DEF Low
        <5>2. \A j \in K : j < k => j < n
          BY <1>0, <5>1
        <5>3. ~(k < k)
          BY <5>1
        <5> QED BY <5>1, <5>2, <5>3 DEF Low
      <4>2. Cardinality(Low(k) \cup {k}) = Cardinality(Low(k)) + 1
        BY <1>1, <4>1, FS_AddElement
      <4>3. Cardinality(Low(k) \cup {k}) <= Cardinality(Low(n))
        BY <1>1, <4>1, FS_Subset
      <4> QED BY <1>1, <3>4, <3>5, <4>2, <4>3
    <3>9. ASSUME NEW k \in Low(n + 1) PROVE F(n)[Cardinality(Low(k)) + 1] = g[k]
      <4>1. CASE k = n
        BY <3>4, <3>6, <4>1
      <4>2. CASE k \in Low(n)
        BY <3>4, <3>6, <3>8, <4>2
      <4> QED BY <3>1, <4>1, <4>2
    <3> QED BY <2>1, <3>6, <3>7, <3>9
  <2> QED BY <2>3, <2>4
<1>4. bad = {}
  <2> HIDE DEF Right
  <2>1. ASSUME NEW m \in bad PROVE m # 0 /\ m - 1 \in bad
    <3>1. m \in 0 .. N /\ ~Right(m) /\ m # 0
      BY <1>2, <2>1
    <3>2. m \in 1 .. N /\ m - 1 \in 0 .. N
      BY <3>1
    <3> QED BY <1>3, <3>1, <3>2
  <2>2. NoLeast(bad, N)
    <3>1. bad \subseteq 0 .. N
      OBVIOUS
    <3> HIDE DEF bad
    <3> QED BY <2>1, <3>1 DEF NoLeast
  <2> HIDE DEF bad
  <2> QED BY <2>2, NoLeastEmpty
<1>5. Right(N)
  <2>1. N \in 0 .. N
    OBVIOUS
  <2> HIDE DEF Right
  <2> QED BY <1>4, <2>1
<1>6. UpTo(f, N) = f
  BY DEF UpTo
<1>7. Low(N + 1) = K
  <2>1. \A k \in K : k < N + 1
    BY <1>0
  <2> QED BY <2>1
<1> HIDE DEF Low
<1>8. F(N) = FlattenSeq(f)
  BY <1>6
<1> HIDE DEF F
<1>9. FlattenSeq(f) \in Seq(T) /\ Len(FlattenSeq(f)) = Cardinality(K) /\ \A k \in K : FlattenSeq(f)[Cardinality(Low(k)) + 1] = g[k]
  BY <1>5, <1>7, <1>8
<1> QED BY <1>9 DEF Low

-----------------------------------------------------------------------------
(* Quotes *)

States == Quotes \cup {"none"}

LEMMA ToggledFacts ==
  ASSUME NEW q \in States, NEW c \in Chars
  PROVE  /\ Toggled(q, c) = IF c \in Quotes /\ q = "none" THEN c ELSE IF c = q THEN "none" ELSE q
         /\ Toggled(q, c) \in States
         /\ c \notin Quotes => Toggled(q, c) = q
<1>1. Toggled(q, c) = IF c \in Quotes /\ q = "none" THEN c ELSE IF c = q THEN "none" ELSE q
  BY DEF Toggled, States
<1>2. "none" \notin Quotes
  BY DEF Quotes
<1>3. c \notin Quotes => c # q \/ q = "none"
  BY DEF States
<1> HIDE DEF Quotes
<1> QED BY <1>1, <1>2, <1>3 DEF States

\* quote is the one that is open before each character of s.
Quoted(quote, s, i, last) ==
  /\ quote \in [i .. last + 1 -> States]
  /\ quote[i] = "none"
  /\ \A j \in i + 1 .. last + 1 : quote[j] = Toggled(quote[j - 1], s[j - 1])

LEMMA QuotedExists ==
  ASSUME NEW s, NEW i \in Nat, NEW N \in Nat, \A j \in i .. i + N - 1 : s[j] \in Chars
  PROVE  \E quote : Quoted(quote, s, i, i + N - 1)
<1> DEFINE Up(m) == \E quote : Quoted(quote, s, i, i + m - 1)
           bad == {m \in 0 .. N : ~Up(m)}
<1>1. Up(0)
  <2> DEFINE quote == [j \in i .. i |-> "none"]
  <2>1. i + 0 - 1 + 1 = i /\ i + 0 - 1 \in Int
    OBVIOUS
  <2>2. quote \in [i .. i -> States] /\ quote[i] = "none" /\ i + 1 .. i = {}
    BY DEF States
  <2> HIDE DEF quote
  <2>3. Quoted(quote, s, i, i + 0 - 1)
    BY <2>1, <2>2 DEF Quoted
  <2> QED BY <2>3
<1>2. ASSUME NEW m \in 1 .. N, Up(m - 1) PROVE Up(m)
  <2> DEFINE z == i + m - 1
  <2>1. z \in Nat /\ z - 1 = i + (m - 1) - 1 /\ z >= i /\ z + 1 = i + m /\ z \in i .. i + N - 1
    OBVIOUS
  <2>2. PICK w : Quoted(w, s, i, i + (m - 1) - 1)
    BY <1>2
  <2>3. Quoted(w, s, i, z - 1)
    BY <2>1, <2>2
  <2> HIDE DEF z
  <2>4. w \in [i .. z -> States] /\ w[i] = "none" /\ \A j \in i + 1 .. z : w[j] = Toggled(w[j - 1], s[j - 1])
    <3>1. z - 1 + 1 = z
      BY <2>1
    <3> QED BY <2>3, <3>1 DEF Quoted
  <2> DEFINE quote == [j \in i .. z + 1 |-> IF j = z + 1 THEN Toggled(w[z], s[z]) ELSE w[j]]
  <2>5. Toggled(w[z], s[z]) \in States
    BY <2>1, <2>4, ToggledFacts
  <2>6. quote \in [i .. z + 1 -> States] /\ quote[i] = "none"
    BY <2>1, <2>4, <2>5
  <2>7. ASSUME NEW j \in i + 1 .. z + 1 PROVE quote[j] = Toggled(quote[j - 1], s[j - 1])
    <3>1. CASE j = z + 1
      <4>1. z \in i .. z + 1 /\ z # z + 1 /\ j - 1 = z /\ j \in i .. z + 1
        BY <2>1, <3>1
      <4>2. quote[j] = Toggled(w[z], s[z]) /\ quote[z] = w[z]
        BY <3>1, <4>1
      <4> HIDE DEF quote
      <4> QED BY <4>1, <4>2
    <3>2. CASE j # z + 1
      <4>1. j \in i + 1 .. z /\ j \in i .. z + 1 /\ j - 1 \in i .. z + 1 /\ j - 1 # z + 1
        BY <2>1, <3>2
      <4>2. quote[j] = w[j] /\ quote[j - 1] = w[j - 1]
        BY <3>2, <4>1
      <4> HIDE DEF quote
      <4> QED BY <2>4, <4>1, <4>2
    <3> QED BY <3>1, <3>2
  <2> HIDE DEF quote
  <2>8. Quoted(quote, s, i, z)
    BY <2>6, <2>7 DEF Quoted
  <2> QED BY <2>8 DEF z
<1>3. bad = {}
  <2> HIDE DEF Up
  <2>1. ASSUME NEW m \in bad PROVE m # 0 /\ m - 1 \in bad
    <3>1. m \in 0 .. N /\ ~Up(m) /\ m # 0
      BY <1>1, <2>1
    <3>2. m \in 1 .. N /\ m - 1 \in 0 .. N
      BY <3>1
    <3> QED BY <1>2, <3>1, <3>2
  <2>2. NoLeast(bad, N)
    <3>1. bad \subseteq 0 .. N
      OBVIOUS
    <3> HIDE DEF bad
    <3> QED BY <2>1, <3>1 DEF NoLeast
  <2> HIDE DEF bad
  <2> QED BY <2>2, NoLeastEmpty
<1>4. N \in 0 .. N
  OBVIOUS
<1> HIDE DEF Up
<1>5. Up(N)
  BY <1>3, <1>4
<1> QED BY <1>5 DEF Up

\* What the recursion of Quoting returns at each place.
LEMMA QuotingFacts ==
  ASSUME NEW s, NEW i \in Nat, NEW last \in Int, last + 1 >= i, \A j \in i .. last : s[j] \in Chars
  PROVE  Quoted(Quoting(s, i, last), s, i, last)
<1> DEFINE Step(w) == [j \in i .. last + 1 |-> IF j = i THEN "none" ELSE Toggled(w[j - 1], s[j - 1])]
           quote == CHOOSE w : w = Step(w)
           N == last + 1 - i
<1>1. N \in Nat /\ i + N - 1 = last
  OBVIOUS
<1>2. PICK v : Quoted(v, s, i, last)
  <2> HIDE DEF N
  <2>1. \E v : Quoted(v, s, i, i + N - 1)
    BY <1>1, QuotedExists
  <2> QED BY <1>1, <2>1
<1>3. v = Step(v)
  <2>1. v = [j \in i .. last + 1 |-> v[j]]
    BY <1>2 DEF Quoted
  <2>2. \A j \in i .. last + 1 : v[j] = IF j = i THEN "none" ELSE Toggled(v[j - 1], s[j - 1])
    BY <1>2 DEF Quoted
  <2> QED BY <2>1, <2>2
<1>4. Quoting(s, i, last) = quote
  BY DEF Quoting
<1> HIDE DEF Step
<1>5. quote = Step(quote)
  BY <1>3
<1> HIDE DEF quote
<1>6. quote = [j \in i .. last + 1 |-> quote[j]]
  BY <1>5 DEF Step
<1>7. quote[i] = "none" /\ \A j \in i + 1 .. last + 1 : quote[j] = Toggled(quote[j - 1], s[j - 1])
  <2>1. i \in i .. last + 1 /\ \A j \in i + 1 .. last + 1 : j \in i .. last + 1 /\ j # i
    OBVIOUS
  <2>2. \A j \in i .. last + 1 : quote[j] = Step(quote)[j]
    BY <1>5
  <2> QED BY <2>1, <2>2 DEF Step
<1> DEFINE bad == {n \in 0 .. N : quote[i + n] # v[i + n]}
<1>8. bad = {}
  <2>1. ASSUME NEW m \in bad PROVE m # 0 /\ m - 1 \in bad
    <3>1. m \in 0 .. N /\ quote[i + m] # v[i + m]
      BY <2>1
    <3> HIDE DEF bad
    <3>2. m # 0
      <4> SUFFICES ASSUME m = 0 PROVE FALSE
        OBVIOUS
      <4>1. i + m = i
        OBVIOUS
      <4> QED BY <1>2, <1>7, <3>1, <4>1 DEF Quoted
    <3>3. i + m \in i + 1 .. last + 1 /\ i + m - 1 = i + (m - 1) /\ m - 1 \in 0 .. N
      BY <3>1, <3>2
    <3> DEFINE n == i + m
    <3>6. n \in i + 1 .. last + 1 /\ n - 1 = i + (m - 1)
      <4>1. m \in Nat /\ i \in Nat
        BY <3>1
      <4> QED BY <3>3, <4>1
    <3> HIDE DEF n
    <3>7. quote[n] = Toggled(quote[n - 1], s[n - 1])
      BY <1>7, <3>6
    <3>8. v[n] = Toggled(v[n - 1], s[n - 1])
      BY <1>2, <3>6 DEF Quoted
    <3>4. quote[i + m] = Toggled(quote[i + (m - 1)], s[i + (m - 1)]) /\ v[i + m] = Toggled(v[i + (m - 1)], s[i + (m - 1)])
      BY <3>6, <3>7, <3>8 DEF n
    <3>5. quote[i + (m - 1)] # v[i + (m - 1)]
      BY <3>1, <3>3, <3>4
    <3> QED BY <3>2, <3>3, <3>5 DEF bad
  <2>2. NoLeast(bad, N)
    <3>1. bad \subseteq 0 .. N
      OBVIOUS
    <3> HIDE DEF bad
    <3> QED BY <2>1, <3>1 DEF NoLeast
  <2> HIDE DEF bad
  <2> QED BY <1>1, <2>2, NoLeastEmpty
<1>9. \A j \in i .. last + 1 : quote[j] = v[j]
  <2> SUFFICES ASSUME NEW j \in i .. last + 1 PROVE quote[j] = v[j]
    OBVIOUS
  <2>1. j - i \in 0 .. N /\ i + (j - i) = j
    OBVIOUS
  <2>2. j - i \notin bad
    BY <1>8
  <2> HIDE DEF N
  <2> QED BY <2>1, <2>2
<1>10. quote \in [i .. last + 1 -> States]
  <2>1. \A j \in i .. last + 1 : v[j] \in States
    BY <1>2 DEF Quoted
  <2> QED BY <1>6, <1>9, <2>1
<1> QED BY <1>4, <1>7, <1>10 DEF Quoted

-----------------------------------------------------------------------------
(* Places in order *)

LEMMA KeyFacts ==
  ASSUME NEW N \in Nat, NEW A, \A c \in A : c[1] \in 1 .. N, \A c, d \in A : c[1] = d[1] => c = d
  PROVE  IsFiniteSet(A) /\ IsFiniteSet({c[1] : c \in A}) /\ Cardinality({c[1] : c \in A}) = Cardinality(A)
<1> DEFINE S == {c[1] : c \in A}
           f == [c \in A |-> c[1]]
<1>1. IsFiniteSet(1 .. N)
  BY FS_Interval
<1>2. f \in Injection(A, 1 .. N)
  BY DEF Injection, IsInjective
<1>3. f \in Bijection(A, S)
  BY DEF Bijection, Injection, Surjection, IsInjective
<1>4. IsFiniteSet(A)
  BY <1>1, <1>2, FS_Injection
<1> HIDE DEF S
<1>5. ExistsBijection(A, S)
  BY <1>3 DEF ExistsBijection
<1>6. IsFiniteSet(S) /\ Cardinality(S) = Cardinality(A)
  BY <1>4, <1>5, FS_Bijection
<1> QED BY <1>4, <1>6 DEF S

Rank(A, c) == Cardinality({d \in A : d[1] < c[1]})

\* Each element of A has a rank of its own, and every rank is taken.
LEMMA KeyRanks ==
  ASSUME NEW N \in Nat, NEW A, \A c \in A : c[1] \in 1 .. N, \A c, d \in A : c[1] = d[1] => c = d
  PROVE  /\ Cardinality(A) \in Nat
         /\ \A c \in A : Rank(A, c) \in 0 .. Cardinality(A) - 1
         /\ \A c, d \in A : c[1] < d[1] <=> Rank(A, c) < Rank(A, d)
         /\ \A r \in 0 .. Cardinality(A) - 1 : \E c \in A : Rank(A, c) = r
<1> DEFINE Low(c) == {d \in A : d[1] < c[1]}
<1>1. IsFiniteSet(A) /\ Cardinality(A) \in Nat
  BY KeyFacts, FS_CardinalityType
<1>2. \A c : IsFiniteSet(Low(c)) /\ Cardinality(Low(c)) \in Nat
  <2>1. \A c : Low(c) \subseteq A
    OBVIOUS
  <2> QED BY <1>1, <2>1, FS_Subset, FS_CardinalityType
<1>3. ASSUME NEW c \in A, NEW B \in SUBSET A, \A d \in Low(c) : d \in B, c \in B
      PROVE  Cardinality(Low(c)) + 1 <= Cardinality(B)
  <2>1. c \notin Low(c)
    OBVIOUS
  <2>2. IsFiniteSet(B) /\ Low(c) \cup {c} \subseteq B
    BY <1>1, <1>3, FS_Subset
  <2> HIDE DEF Low
  <2>3. Cardinality(Low(c) \cup {c}) = Cardinality(Low(c)) + 1
    BY <1>2, <2>1, FS_AddElement
  <2>4. Cardinality(Low(c) \cup {c}) <= Cardinality(B)
    BY <2>2, FS_Subset
  <2> QED BY <2>3, <2>4
<1>4. ASSUME NEW c \in A PROVE Cardinality(Low(c)) \in 0 .. Cardinality(A) - 1
  <2>1. Cardinality(Low(c)) + 1 <= Cardinality(A)
    BY <1>3
  <2> HIDE DEF Low
  <2> QED BY <1>1, <1>2, <2>1
<1>5. ASSUME NEW c \in A, NEW d \in A, c[1] < d[1] PROVE Cardinality(Low(c)) < Cardinality(Low(d))
  <2>1. \A e \in Low(c) : e \in Low(d)
    <3>1. ASSUME NEW e \in A, e[1] < c[1] PROVE e[1] < d[1]
      <4>1. e[1] \in Nat /\ c[1] \in Nat /\ d[1] \in Nat
        OBVIOUS
      <4> QED BY <1>5, <3>1, <4>1
    <3> QED BY <3>1
  <2>2. c \in Low(d) /\ Low(d) \in SUBSET A
    BY <1>5
  <2> HIDE DEF Low
  <2>3. Cardinality(Low(c)) + 1 <= Cardinality(Low(d))
    BY <1>3, <2>1, <2>2
  <2> QED BY <1>2, <2>3
<1>6. ASSUME NEW c \in A, NEW d \in A, Cardinality(Low(c)) < Cardinality(Low(d)) PROVE c[1] < d[1]
  <2>1. c[1] \in Nat /\ d[1] \in Nat
    OBVIOUS
  <2>2. CASE c[1] = d[1]
    <3>1. c = d
      BY <2>2
    <3> HIDE DEF Low
    <3> QED BY <1>2, <1>6, <3>1
  <2>3. CASE d[1] < c[1]
    <3>1. Cardinality(Low(d)) < Cardinality(Low(c))
      BY <1>5, <2>3
    <3> HIDE DEF Low
    <3> QED BY <1>2, <1>6, <3>1
  <2> QED BY <2>1, <2>2, <2>3
<1>7. ASSUME NEW r \in 0 .. Cardinality(A) - 1 PROVE \E c \in A : Cardinality(Low(c)) = r
  <2> DEFINE S == {c[1] : c \in A}
  <2>1. IsFiniteSet(S) /\ Cardinality(S) = Cardinality(A) /\ S \subseteq Nat
    BY KeyFacts
  <2>2. r \in Nat /\ r < Cardinality(S)
    BY <1>1, <2>1
  <2>3. PICK i \in S : Cardinality({j \in S : j < i}) = r
    <3> HIDE DEF S
    <3> QED BY <2>1, <2>2, RankFacts
  <2>4. PICK c \in A : i = c[1]
    OBVIOUS
  <2>5. {j \in S : j < i} = {d[1] : d \in Low(c)}
    BY <2>4
  <2>6. Cardinality({d[1] : d \in Low(c)}) = Cardinality(Low(c))
    <3> DEFINE B == Low(c)
    <3>1. (\A d \in B : d[1] \in 1 .. N) /\ \A d, e \in B : d[1] = e[1] => d = e
      OBVIOUS
    <3> HIDE DEF B
    <3>2. Cardinality({d[1] : d \in B}) = Cardinality(B)
      BY <3>1, KeyFacts
    <3> QED BY <3>2 DEF B
  <2> QED BY <2>3, <2>5, <2>6
<1> QED BY <1>1, <1>4, <1>5, <1>6, <1>7 DEF Rank

\* The last place of S up to i.
LEMMA LastBefore ==
  ASSUME NEW S, S \subseteq Nat, NEW i \in Nat, \E j \in S : j <= i
  PROVE  \E m \in S : m <= i /\ \A n \in S : n <= i => n <= m
<1> DEFINE D == {d \in Nat : d <= i /\ i - d \in S}
           d == Min(D)
<1>1. D \subseteq Nat /\ D # {}
  <2>1. PICK j \in S : j <= i
    OBVIOUS
  <2>2. j \in Nat /\ i - j \in Nat /\ i - j <= i /\ i - (i - j) = j
    BY <2>1
  <2>3. i - j \in D
    BY <2>2
  <2> QED BY <2>3
<1>2. d \in D /\ \A e \in D : d <= e
  <2> HIDE DEF D
  <2> QED BY <1>1, NatMin
<1> HIDE DEF d
<1>3. d \in Nat /\ d <= i /\ i - d \in S
  BY <1>2
<1>4. ASSUME NEW n \in S, n <= i PROVE n <= i - d
  <2>1. n \in Nat /\ i - n \in Nat /\ i - n <= i /\ i - (i - n) = n
    BY <1>4
  <2>2. i - n \in D
    BY <2>1
  <2>3. d <= i - n
    BY <1>2, <2>2
  <2> QED BY <1>3, <2>1, <2>3
<1>5. i - d <= i
  BY <1>3
<1> QED BY <1>3, <1>4, <1>5

-----------------------------------------------------------------------------
(* The items of a line *)

Quote == Quoting(typed, 1, Len(typed))

LEMMA QuoteFacts ==
  ASSUME LineInv
  PROVE  /\ Len(typed) \in Nat /\ DOMAIN typed = 1 .. Len(typed)
         /\ \A i \in 1 .. Len(typed) : typed[i] \in Chars /\ typed[i] # Nul
         /\ Quote \in [1 .. Len(typed) + 1 -> States] /\ Quote[1] = "none"
         /\ \A i \in 1 .. Len(typed) : Quote[i + 1] = Toggled(Quote[i], typed[i])
         /\ \A i \in 1 .. Len(typed) : typed[i] \notin Quotes => Quote[i + 1] = Quote[i]
         /\ \A i : Outside(i) <=> Quote[i] = "none"
<1> DEFINE l == Len(typed)
<1>1. l \in Nat /\ DOMAIN typed = 1 .. l /\ \A i \in 1 .. l : typed[i] \in Chars /\ typed[i] # Nul
  BY DEF LineInv
<1>2. Quoted(Quote, typed, 1, l)
  <2> HIDE DEF l
  <2> SUFFICES Quoted(Quoting(typed, 1, l), typed, 1, l)
    BY DEF Quote, l
  <2>1. l \in Int /\ l + 1 >= 1 /\ 1 \in Nat
    BY <1>1
  <2> QED BY <1>1, <2>1, QuotingFacts
<1> HIDE DEF l
<1>3. Quote \in [1 .. l + 1 -> States] /\ Quote[1] = "none"
  BY <1>2 DEF Quoted
<1>4. ASSUME NEW i \in 1 .. l PROVE Quote[i + 1] = Toggled(Quote[i], typed[i])
  <2> DEFINE j == i + 1
  <2>1. j \in 1 + 1 .. l + 1 /\ j - 1 = i
    BY <1>1
  <2> HIDE DEF j
  <2>2. Quote[j] = Toggled(Quote[j - 1], typed[j - 1])
    BY <1>2, <2>1 DEF Quoted
  <2> QED BY <2>1, <2>2 DEF j
<1>5. ASSUME NEW i \in 1 .. l, typed[i] \notin Quotes PROVE Quote[i + 1] = Quote[i]
  <2>1. Quote[i] \in States /\ typed[i] \in Chars
    BY <1>1, <1>3
  <2> QED BY <1>4, <1>5, <2>1, ToggledFacts
<1>6. \A i : Outside(i) <=> Quote[i] = "none"
  BY DEF Outside, Quote
<1> QED BY <1>1, <1>3, <1>4, <1>5, <1>6 DEF l

\* A break, and the place after it, is outside quotes.
LEMMA BreakFacts ==
  ASSUME LineInv
  PROVE  /\ Breaks \subseteq 1 .. Len(typed) /\ Pipes \subseteq Breaks
         /\ \A i \in Breaks : Quote[i] = "none" /\ Quote[i + 1] = "none" /\ typed[i] \in {Blank, "|"}
         /\ \A i \in 1 .. Len(typed) : typed[i] \in {Blank, "|"} /\ Quote[i] = "none" => i \in Breaks
<1>1. {Blank, "|"} \cap Quotes = {}
  BY DEF Blank, Quotes
<1> QED BY <1>1, QuoteFacts DEF Breaks, Pipes

\* c is what stands between two breaks.
IsItem(c) ==
  /\ c = <<c[1], c[2]>> /\ c[1] \in 1 .. Len(typed) /\ c[2] \in 1 .. Len(typed) /\ c[1] <= c[2]
  /\ \A i \in c[1] .. c[2] : i \notin Breaks
  /\ c[1] - 1 \in Breaks \cup {0} /\ c[2] + 1 \in Breaks \cup {Len(typed) + 1}

LEMMA ItemFacts ==
  ASSUME LineInv
  PROVE  /\ \A c \in Items : IsItem(c)
         /\ \A p, q : IsItem(<<p, q>>) => <<p, q>> \in Items
<1> DEFINE l == Len(typed)
<1>1. l \in Nat /\ Breaks \subseteq 1 .. l
  BY QuoteFacts, BreakFacts
<1> HIDE DEF l
<1>2. ASSUME NEW c \in Items PROVE IsItem(c)
  <2>1. /\ c \in (1 .. l) \X (1 .. l) /\ c[1] <= c[2] /\ c[1] .. c[2] \cap Breaks = {}
        /\ c[1] - 1 \in Breaks \cup {0, l + 1} /\ c[2] + 1 \in Breaks \cup {0, l + 1}
    BY DEF Items, l
  <2>2. c = <<c[1], c[2]>> /\ c[1] \in 1 .. l /\ c[2] \in 1 .. l
    BY <2>1
  <2>3. c[1] - 1 # l + 1 /\ c[2] + 1 # 0
    BY <1>1, <2>2
  <2> QED BY <2>1, <2>2, <2>3 DEF IsItem, l
<1>3. ASSUME NEW p, NEW q, IsItem(<<p, q>>) PROVE <<p, q>> \in Items
  <2>1. p \in 1 .. l /\ q \in 1 .. l /\ p <= q /\ (\A i \in p .. q : i \notin Breaks)
        /\ p - 1 \in Breaks \cup {0} /\ q + 1 \in Breaks \cup {l + 1}
    BY <1>3 DEF IsItem, l
  <2> QED BY <2>1 DEF Items, l
<1> QED BY <1>2, <1>3

\* What is no break lies in an item.
LEMMA ItemCovers ==
  ASSUME LineInv, NEW i \in 1 .. Len(typed), i \notin Breaks
  PROVE  \E c \in Items : c[1] <= i /\ i <= c[2]
<1> DEFINE l == Len(typed)
<1>1. l \in Nat /\ Breaks \subseteq 1 .. l /\ i \in 1 .. l
  BY QuoteFacts, BreakFacts
<1> HIDE DEF l
<1> DEFINE S == Breaks \cup {0}
           T == {j \in Breaks \cup {l + 1} : j >= i}
           q == Min(T)
<1>2. PICK m \in S : m <= i /\ \A n \in S : n <= i => n <= m
  <2>1. S \subseteq Nat /\ i \in Nat /\ 0 \in S /\ 0 <= i
    BY <1>1
  <2> HIDE DEF S
  <2> QED BY <2>1, LastBefore
<1>3. q \in T /\ \A j \in T : q <= j
  <2>1. T \subseteq Nat /\ l + 1 \in T
    <3>1. l + 1 \in Nat /\ l + 1 >= i
      BY <1>1
    <3>2. \A j \in Breaks : j \in Nat
      BY <1>1
    <3> QED BY <3>1, <3>2
  <2> HIDE DEF T
  <2> QED BY <2>1, NatMin
<1> HIDE DEF q
<1>4. m \in Nat /\ m < i /\ q \in Nat /\ q > i /\ q <= l + 1
  <2>1. m \in Nat /\ m # i /\ q \in Nat /\ q # i
    BY <1>1, <1>2, <1>3
  <2>2. l + 1 \in T
    BY <1>1
  <2> QED BY <1>1, <1>2, <1>3, <2>1, <2>2
<1>5. ASSUME NEW j \in m + 1 .. q - 1 PROVE j \notin Breaks
  <2> SUFFICES ASSUME j \in Breaks PROVE FALSE
    OBVIOUS
  <2>1. j \in Nat /\ m < j /\ j < q
    BY <1>4, <1>5
  <2>2. CASE j <= i
    BY <1>2, <2>1, <2>2
  <2>3. CASE j >= i
    <3>1. j \in T
      BY <2>3
    <3> QED BY <1>3, <1>4, <2>1, <3>1
  <2> QED BY <1>1, <2>1, <2>2, <2>3
<1> DEFINE c == <<m + 1, q - 1>>
<1>6. c[1] = m + 1 /\ c[2] = q - 1 /\ c[1] - 1 = m /\ c[2] + 1 = q
  BY <1>4
<1>7. m + 1 \in 1 .. l /\ q - 1 \in 1 .. l /\ m + 1 <= i /\ i <= q - 1 /\ m + 1 <= q - 1
  BY <1>1, <1>4
<1> HIDE DEF S, T
<1>8. IsItem(c)
  <2>1. m \in Breaks \cup {0} /\ q \in Breaks \cup {l + 1}
    BY <1>2, <1>3 DEF S, T
  <2>2. c = <<c[1], c[2]>>
    BY <1>6
  <2> HIDE DEF c
  <2> QED BY <1>5, <1>6, <1>7, <2>1, <2>2 DEF IsItem, l
<1>9. c \in Items
  BY <1>8, ItemFacts
<1> HIDE DEF c
<1> QED BY <1>6, <1>7, <1>9

\* Two items do not touch, and begin and end outside quotes.
LEMMA ItemsApart ==
  ASSUME LineInv, NEW c \in Items, NEW d \in Items
  PROVE  /\ c[1] < d[1] => c[2] + 1 < d[1]
         /\ c[1] = d[1] => c = d
<1>1. IsItem(c) /\ IsItem(d)
  BY ItemFacts
<1>2. /\ Len(typed) \in Nat /\ c[1] \in Nat /\ c[2] \in Nat /\ d[1] \in Nat /\ d[2] \in Nat
      /\ c[1] >= 1 /\ d[1] >= 1 /\ c[2] <= Len(typed) /\ d[2] <= Len(typed) /\ c[1] <= c[2] /\ d[1] <= d[2]
  BY <1>1, QuoteFacts DEF IsItem
<1>3. ASSUME c[1] < d[1] PROVE c[2] + 1 < d[1]
  <2>1. c[2] + 1 # d[1]
    <3>1. d[1] \notin Breaks /\ d[1] # Len(typed) + 1
      BY <1>1, <1>2 DEF IsItem
    <3> QED BY <1>1, <3>1 DEF IsItem
  <2>2. ~(d[1] <= c[2])
    <3> SUFFICES ASSUME d[1] <= c[2] PROVE FALSE
      OBVIOUS
    <3>1. d[1] - 1 \in c[1] .. c[2] /\ d[1] - 1 # 0
      BY <1>2, <1>3
    <3> QED BY <1>1, <3>1 DEF IsItem
  <2> QED BY <1>2, <2>1, <2>2
<1>4. ASSUME c[1] = d[1] PROVE c = d
  <2>1. ASSUME NEW a, NEW b, IsItem(a), IsItem(b), a[1] = b[1], a[2] < b[2], b[2] <= Len(typed), a[2] \in Nat, b[2] \in Nat,
               a[1] <= a[2], a[1] \in Nat
        PROVE FALSE
    <3>1. a[2] + 1 \in b[1] .. b[2] /\ a[2] + 1 # Len(typed) + 1
      BY <1>2, <2>1
    <3> QED BY <2>1, <3>1 DEF IsItem
  <2>2. c[2] = d[2]
    BY <1>1, <1>2, <1>4, <2>1
  <2>3. c = <<c[1], c[2]>> /\ d = <<d[1], d[2]>>
    BY <1>1 DEF IsItem
  <2> QED BY <1>4, <2>2, <2>3
<1> QED BY <1>3, <1>4

\* The items of a command, in order.
CommandItems(n) == {c \in Items : Cardinality({i \in Pipes : i < c[1]}) = n - 1}

\* ItemsOf is the items of a command, each once, in the order of the line.
LEMMA ItemsOfFacts ==
  ASSUME LineInv, NEW n
  PROVE  /\ Len(ItemsOf(n)) \in Nat /\ ItemsOf(n) \in [1 .. Len(ItemsOf(n)) -> CommandItems(n)]
         /\ DOMAIN ItemsOf(n) = 1 .. Len(ItemsOf(n))
         /\ \A j, k \in 1 .. Len(ItemsOf(n)) : j < k => ItemsOf(n)[j][1] < ItemsOf(n)[k][1]
         /\ \A c \in CommandItems(n) : \E k \in 1 .. Len(ItemsOf(n)) : ItemsOf(n)[k] = c
<1> DEFINE A == CommandItems(n)
           K == Cardinality(A)
           s == ItemsOf(n)
<1>1. (\A c \in A : c[1] \in 1 .. Len(typed)) /\ \A c, d \in A : c[1] = d[1] => c = d
  <2>1. \A c \in A : c \in Items /\ IsItem(c)
    BY ItemFacts DEF CommandItems
  <2> QED BY <2>1, ItemsApart DEF IsItem
<1>2. s = [k \in 1 .. K |-> CHOOSE c \in A : Rank(A, c) = k - 1]
  BY DEF ItemsOf, CommandItems, Rank
<1> HIDE DEF A, K, s
<1>3. /\ K \in Nat
      /\ \A c \in A : Rank(A, c) \in 0 .. K - 1
      /\ \A c, d \in A : c[1] < d[1] <=> Rank(A, c) < Rank(A, d)
      /\ \A r \in 0 .. K - 1 : \E c \in A : Rank(A, c) = r
  BY <1>1, QuoteFacts, KeyRanks DEF K
<1>4. ASSUME NEW k \in 1 .. K PROVE s[k] \in A /\ Rank(A, s[k]) = k - 1
  <2>1. k - 1 \in 0 .. K - 1
    BY <1>3
  <2>2. \E c \in A : Rank(A, c) = k - 1
    BY <1>3, <2>1
  <2> QED BY <1>2, <2>2
<1>5. s \in [1 .. K -> A] /\ Len(s) = K /\ DOMAIN s = 1 .. K
  <2>1. s \in [1 .. K -> A]
    BY <1>2, <1>4
  <2>2. s \in Seq(A)
    BY <1>3, <2>1
  <2> QED BY <1>3, <2>1, <2>2
<1>6. ASSUME NEW j \in 1 .. K, NEW k \in 1 .. K, j < k PROVE s[j][1] < s[k][1]
  <2>1. j - 1 < k - 1
    BY <1>6
  <2> QED BY <1>3, <1>4, <2>1
<1>7. ASSUME NEW c \in A PROVE \E k \in 1 .. K : s[k] = c
  <2> DEFINE k == Rank(A, c) + 1
  <2>1. k \in 1 .. K /\ k - 1 = Rank(A, c)
    BY <1>3
  <2> HIDE DEF k
  <2>2. s[k] \in A /\ Rank(A, s[k]) = Rank(A, c)
    BY <1>4, <2>1
  <2>3. ~(s[k][1] < c[1]) /\ ~(c[1] < s[k][1])
    BY <1>3, <2>2
  <2>4. s[k][1] = c[1]
    BY <1>1, <2>2, <2>3, QuoteFacts
  <2> QED BY <1>1, <2>1, <2>2, <2>4
<1> QED BY <1>3, <1>5, <1>6, <1>7 DEF A, s

-----------------------------------------------------------------------------
(* What depends on the line alone *)

\* What a line means depends on nothing but the line.
LEMMA SameItems ==
  ASSUME UNCHANGED typed
  PROVE  /\ Breaks' = Breaks /\ Pipes' = Pipes /\ Items' = Items /\ Quote' = Quote
         /\ \A i : Outside(i)' <=> Outside(i)
         /\ \A c : (IsOperator(c)' <=> IsOperator(c)) /\ Word(c)' = Word(c)
         /\ \A n : ItemsOf(n)' = ItemsOf(n)
<1>1. Quote' = Quote
  BY DEF Quote
<1>2. \A i : Outside(i)' <=> Outside(i)
  BY DEF Outside
<1>3. Breaks' = Breaks
  BY <1>2 DEF Breaks
<1>4. Pipes' = Pipes
  BY <1>3 DEF Pipes
<1>5. Items' = Items
  BY <1>3 DEF Items
<1>6. \A c : IsOperator(c)' <=> IsOperator(c)
  BY DEF IsOperator
<1>7. \A c : Word(c)' = Word(c)
  BY DEF Word
<1>8. \A n : ItemsOf(n)' = ItemsOf(n)
  BY <1>4, <1>5 DEF ItemsOf
<1> QED BY <1>1, <1>2, <1>3, <1>4, <1>5, <1>6, <1>7, <1>8

LEMMA SameMeaning ==
  ASSUME UNCHANGED typed
  PROVE  /\ \A s : Read(s)' = Read(s) /\ Meaning(s)' = Meaning(s) /\ (Correct(s)' <=> Correct(s))
         /\ \A s, k : (IsFile(s, k)' <=> IsFile(s, k)) /\ (IsArgument(s, k)' <=> IsArgument(s, k))
         /\ CorrectLine' <=> CorrectLine
<1>1. \A s, k : (IsFile(s, k)' <=> IsFile(s, k)) /\ (IsArgument(s, k)' <=> IsArgument(s, k))
  BY SameItems DEF IsFile, IsArgument
<1>2. \A s : Read(s)' = Read(s)
  BY <1>1 DEF Read
<1>3. \A s : Correct(s)' <=> Correct(s)
  BY <1>1, <1>2, SameItems DEF Correct
<1>4. \A s : Meaning(s)' = Meaning(s)
  BY <1>1, <1>2, SameItems DEF Meaning
<1>5. CorrectLine' <=> CorrectLine
  BY <1>3, SameItems DEF CorrectLine
<1> QED BY <1>1, <1>2, <1>3, <1>4, <1>5

LEMMA SameSpacing == ASSUME UNCHANGED <<typed, newline>> PROVE WellSpaced' <=> WellSpaced
BY SameItems DEF WellSpaced

-----------------------------------------------------------------------------
(* The text of an item *)

LEMMA Shifted ==
  ASSUME NEW N \in Nat, NEW A, A \subseteq 1 .. N, NEW m \in Nat
  PROVE  IsFiniteSet({a + m : a \in A}) /\ Cardinality({a + m : a \in A}) = Cardinality(A)
<1> DEFINE S == {a + m : a \in A}
           f == [a \in A |-> a + m]
<1>1. IsFiniteSet(A)
  <2>1. IsFiniteSet(1 .. N)
    BY FS_Interval
  <2> QED BY <2>1, FS_Subset
<1>2. \A a, b \in A : a + m = b + m => a = b
  OBVIOUS
<1>3. f \in Bijection(A, S)
  BY <1>2 DEF Bijection, Injection, Surjection, IsInjective
<1> HIDE DEF S
<1>4. ExistsBijection(A, S)
  BY <1>3 DEF ExistsBijection
<1>5. IsFiniteSet(S) /\ Cardinality(S) = Cardinality(A)
  BY <1>1, <1>4, FS_Bijection
<1> QED BY <1>5 DEF S

\* The places of an item whose characters are no quotes, or quoted.
PlacesKept(c) == {i \in c[1] .. c[2] : typed[i] \notin Quotes \/ Quote[i] \notin {"none", typed[i]}}

\* The word of an item is what its places hold, without the quotes.
LEMMA WordFacts ==
  ASSUME LineInv, NEW c \in Items
  PROVE  /\ Word(c) \in Seq(Chars) /\ Len(Word(c)) = Cardinality(PlacesKept(c))
         /\ \A i \in PlacesKept(c) : Word(c)[Cardinality({j \in PlacesKept(c) : j < i}) + 1] = typed[i]
<1> DEFINE p == c[1]
           q == c[2]
           N == q - p + 1
           kept == PlacesKept(c)
           K == {k \in 1 .. N : p + k - 1 \in kept}
           f == [k \in 1 .. N |-> IF typed[p + k - 1] \in Quotes /\ Quote[p + k - 1] \in {"none", typed[p + k - 1]}
                                  THEN <<>> ELSE <<typed[p + k - 1]>>]
           g == [k \in 1 .. N |-> typed[p + k - 1]]
<1>1. IsItem(c)
  BY ItemFacts
<1>2. /\ Len(typed) \in Nat /\ p \in Nat /\ q \in Nat /\ p >= 1 /\ p <= q /\ q <= Len(typed)
      /\ \A i \in p .. q : typed[i] \in Chars
  BY <1>1, QuoteFacts DEF IsItem
<1>3. Word(c) = FlattenSeq(f)
  BY DEF Word, Quote
<1>4. N \in Nat /\ \A k \in 1 .. N : p + k - 1 \in p .. q
  BY <1>2
<1>5. kept = {i \in p .. q : typed[i] \notin Quotes \/ Quote[i] \notin {"none", typed[i]}}
  BY DEF PlacesKept
<1> HIDE DEF p, q, N, kept
<1>6. \A k \in 1 .. N : typed[p + k - 1] \in Chars
  BY <1>2, <1>4
<1>7. f \in [1 .. N -> Seq(Chars)]
  BY <1>6
<1>8. K \in SUBSET (1 .. N)
  OBVIOUS
<1>9. \A k \in K : g[k] \in Chars /\ f[k] = <<g[k]>>
  BY <1>4, <1>5, <1>6
<1>10. \A k \in 1 .. N : k \notin K => f[k] = <<>>
  BY <1>4, <1>5
<1> HIDE DEF f
<1>11. /\ FlattenSeq(f) \in Seq(Chars) /\ Len(FlattenSeq(f)) = Cardinality(K)
       /\ \A k \in K : FlattenSeq(f)[Cardinality({j \in K : j < k}) + 1] = g[k]
  <2> HIDE DEF K, g
  <2>1. Sparse(f, Chars, N, K, g)
    BY <1>7, <1>8, <1>9, <1>10 DEF Sparse
  <2> QED BY SMTT(30), <1>4, <2>1, FlattenRanks
<1> DEFINE m == p - 1
<1>12. m \in Nat /\ \A k \in 1 .. N : k + m = p + k - 1
  BY <1>2, <1>4
<1>13. kept = {a + m : a \in K}
  <2>1. ASSUME NEW i \in kept PROVE \E a \in K : i = a + m
    <3>1. i \in p .. q
      BY <1>5
    <3>2. i - m \in 1 .. N /\ p + (i - m) - 1 = i /\ i = (i - m) + m
      BY <1>2, <3>1 DEF N
    <3> QED BY <3>2
  <2>2. \A a \in K : a + m \in kept
    BY <1>12
  <2> HIDE DEF K, m
  <2> QED BY <2>1, <2>2
<1>14. ASSUME NEW i \in kept PROVE \E k \in K : i = p + k - 1 /\ {j \in kept : j < i} = {a + m : a \in {j \in K : j < k}}
  <2>1. PICK k \in K : i = k + m
    BY <1>13
  <2>2. k \in 1 .. N /\ i = p + k - 1
    BY <1>12, <2>1
  <2>3. \A a \in K : a < k <=> a + m < i
    BY <1>12, <2>1, <2>2
  <2>4. \A j : j \in {a + m : a \in {b \in K : b < k}} <=> \E a \in K : a < k /\ j = a + m
    OBVIOUS
  <2>5. \A j : j \in {b \in kept : b < i} <=> \E a \in K : a + m < i /\ j = a + m
    BY <1>13
  <2> HIDE DEF K, m
  <2>6. {j \in kept : j < i} = {a + m : a \in {j \in K : j < k}}
    BY <2>3, <2>4, <2>5
  <2> QED BY <2>2, <2>6
<1> HIDE DEF K
<1>15. Cardinality(kept) = Cardinality(K)
  BY <1>4, <1>8, <1>12, <1>13, Shifted
<1>16. ASSUME NEW i \in kept PROVE FlattenSeq(f)[Cardinality({j \in kept : j < i}) + 1] = typed[i]
  <2>1. PICK k \in K : i = p + k - 1 /\ {j \in kept : j < i} = {a + m : a \in {j \in K : j < k}}
    BY <1>14
  <2>2. {j \in K : j < k} \subseteq 1 .. N
    BY <1>8
  <2>3. Cardinality({j \in kept : j < i}) = Cardinality({j \in K : j < k})
    BY <1>4, <1>12, <2>1, <2>2, Shifted
  <2>4. g[k] = typed[i]
    BY <1>8, <2>1
  <2> HIDE DEF g
  <2> QED BY <1>11, <2>3, <2>4
<1> QED BY <1>3, <1>11, <1>15, <1>16 DEF kept

\* An operator has no quotes.
LEMMA OperatorItems ==
  ASSUME LineInv, NEW c \in Items, IsOperator(c)
  PROVE  /\ \/ c[2] = c[1] /\ typed[c[1]] \in {"<", ">"}
            \/ c[2] = c[1] + 1 /\ typed[c[1]] = "2" /\ typed[c[2]] = ">"
         /\ Word(c) = SubSeq(typed, c[1], c[2]) /\ Word(c) \in Operators
<1> DEFINE p == c[1]
           q == c[2]
           w == SubSeq(typed, p, q)
           N == q - p + 1
<1>1. /\ Len(typed) \in Nat /\ p \in Nat /\ q \in Nat /\ p >= 1 /\ p <= q /\ q <= Len(typed)
      /\ typed \in Seq(Chars \ {Nul})
  BY ItemFacts, QuoteFacts DEF IsItem, LineInv
<1>2. w \in Operators
  BY DEF IsOperator
<1>3. Len(w) = N /\ \A k \in 1 .. N : w[k] = typed[p + k - 1]
  <2> HIDE DEF p, q
  <2> QED BY <1>1
<1>4. w = [k \in 1 .. N |-> typed[p + k - 1]]
  <2> HIDE DEF p, q
  <2> QED BY <1>1
<1> HIDE DEF p, q, w
<1>5. (N = 1 /\ typed[p] \in {"<", ">"}) \/ (N = 2 /\ typed[p] = "2" /\ typed[p + 1] = ">")
  <2>1. CASE w = <<"<">> \/ w = <<">">>
    <3>1. Len(w) = 1 /\ w[1] \in {"<", ">"}
      BY <2>1
    <3>2. N = 1 /\ p + 1 - 1 = p
      <4>1. N = 1
        BY <1>3, <3>1
      <4> QED BY <1>1, <4>1
    <3>3. w[1] = typed[p]
      <4>1. 1 \in 1 .. N
        BY <3>2
      <4> QED BY <1>3, <3>2, <4>1
    <3> QED BY <3>1, <3>2, <3>3
  <2>2. CASE w = <<"2", ">">>
    <3>1. Len(w) = 2 /\ w[1] = "2" /\ w[2] = ">"
      BY <2>2
    <3>2. N = 2 /\ p + 1 - 1 = p /\ p + 2 - 1 = p + 1
      <4>1. N = 2
        BY <1>3, <3>1
      <4> QED BY <1>1, <4>1
    <3>3. w[1] = typed[p] /\ w[2] = typed[p + 1]
      <4>1. 1 \in 1 .. N /\ 2 \in 1 .. N
        BY <3>2
      <4> QED BY <1>3, <3>2, <4>1
    <3> QED BY <3>1, <3>2, <3>3
  <2> QED BY <1>2, <2>1, <2>2 DEF Operators
<1>6. (q = p /\ typed[p] \in {"<", ">"}) \/ (q = p + 1 /\ typed[p] = "2" /\ typed[q] = ">")
  BY <1>1, <1>5
<1>7. \A i \in p .. q : typed[i] \in {"<", ">", "2"}
  BY <1>1, <1>6
<1> DEFINE f == [k \in 1 .. N |-> IF typed[p + k - 1] \in Quotes /\ Quote[p + k - 1] \in {"none", typed[p + k - 1]}
                                  THEN <<>> ELSE <<typed[p + k - 1]>>]
<1>8. Word(c) = FlattenSeq(f)
  BY DEF Word, Quote, p, q
<1>9. f = [k \in 1 .. N |-> <<typed[p + k - 1]>>]
  <2>1. \A k \in 1 .. N : p + k - 1 \in p .. q
    BY <1>1
  <2>2. \A k \in 1 .. N : typed[p + k - 1] \notin Quotes
    BY <1>7, <2>1 DEF Quotes
  <2> QED BY <2>2
<1> HIDE DEF f
<1>10. Word(c) = w
  <2>1. N \in Nat /\ PlacesKept(c) = p .. q
    <3>1. \A i \in p .. q : typed[i] \notin Quotes
      BY <1>7 DEF Quotes
    <3> QED BY <1>1, <3>1 DEF PlacesKept, p, q
  <2>2. Word(c) \in Seq(Chars) /\ Len(Word(c)) = Cardinality(PlacesKept(c))
        /\ \A i \in PlacesKept(c) : Word(c)[Cardinality({j \in PlacesKept(c) : j < i}) + 1] = typed[i]
    BY WordFacts
  <2>3. Cardinality(p .. q) = N /\ \A i \in p .. q : Cardinality({j \in p .. q : j < i}) = i - p
    <3>1. Cardinality(p .. q) = N
      BY <1>1, FS_Interval
    <3>2. ASSUME NEW i \in p .. q PROVE Cardinality({j \in p .. q : j < i}) = i - p
      <4> DEFINE z == i - 1
      <4>1. {j \in p .. q : j < i} = p .. z /\ z \in Int /\ p \in Int /\ z - p + 1 = i - p /\ (p > z => i - p = 0)
        BY <1>1
      <4> HIDE DEF z
      <4>2. Cardinality(p .. z) = IF p > z THEN 0 ELSE z - p + 1
        BY <4>1, FS_Interval
      <4> QED BY <4>1, <4>2
    <3> QED BY <3>1, <3>2
  <2>4. Len(Word(c)) = N /\ \A k \in 1 .. N : Word(c)[k] = typed[p + k - 1]
    <3>1. ASSUME NEW k \in 1 .. N PROVE Word(c)[k] = typed[p + k - 1]
      <4>1. p + k - 1 \in p .. q /\ (p + k - 1) - p + 1 = k
        BY <1>1
      <4> QED BY <2>1, <2>2, <2>3, <4>1
    <3> QED BY <2>1, <2>2, <2>3, <3>1
  <2>5. Word(c) = [k \in 1 .. N |-> typed[p + k - 1]]
    BY <2>2, <2>4
  <2> QED BY <1>4, <2>5
<1> QED BY <1>2, <1>6, <1>10 DEF p, q, w

-----------------------------------------------------------------------------
(* The items of a well spaced line *)

\* An item begins and ends outside quotes, and not with a blank.
LEMMA ItemEnds ==
  ASSUME LineInv, Outside(Len(typed) + 1), NEW d \in Items
  PROVE  /\ d[1] \in Nat /\ d[2] \in Nat /\ d[1] >= 1 /\ d[1] <= d[2] /\ d[2] <= Len(typed)
         /\ Quote[d[1]] = "none" /\ Quote[d[2] + 1] = "none"
         /\ typed[d[1]] \notin {Blank, "|"} /\ typed[d[2]] \notin {Blank, "|"}
         /\ \A i \in d[1] .. d[2] : Quote[i] = "none" => typed[i] \notin {Blank, "|"}
<1>1. IsItem(d)
  BY ItemFacts
<1>2. /\ Len(typed) \in Nat /\ d[1] \in Nat /\ d[2] \in Nat /\ d[1] >= 1 /\ d[1] <= d[2] /\ d[2] <= Len(typed)
      /\ \A i \in d[1] .. d[2] : i \in 1 .. Len(typed)
  BY <1>1, QuoteFacts DEF IsItem
<1>3. \A i \in d[1] .. d[2] : Quote[i] = "none" => typed[i] \notin {Blank, "|"}
  <2>1. \A i \in d[1] .. d[2] : i \notin Breaks
    BY <1>1 DEF IsItem
  <2> QED BY <1>2, <2>1, BreakFacts
<1>4. Quote[d[1]] = "none"
  <2>1. CASE d[1] - 1 = 0
    <3>1. d[1] = 1
      BY <1>2, <2>1
    <3> QED BY <3>1, QuoteFacts
  <2>2. CASE d[1] - 1 \in Breaks
    <3>1. Quote[d[1] - 1 + 1] = "none" /\ d[1] - 1 + 1 = d[1]
      BY <1>2, <2>2, BreakFacts
    <3> QED BY <3>1
  <2> QED BY <1>1, <2>1, <2>2 DEF IsItem
<1>5. Quote[d[2] + 1] = "none"
  <2>1. CASE d[2] + 1 = Len(typed) + 1
    BY <2>1, QuoteFacts
  <2>2. CASE d[2] + 1 \in Breaks
    BY <2>2, BreakFacts
  <2> QED BY <1>1, <2>1, <2>2 DEF IsItem
<1>6. d[1] \in d[1] .. d[2] /\ d[2] \in d[1] .. d[2]
  BY <1>2
<1>7. typed[d[2]] \in {Blank, "|"} => Quote[d[2]] = "none"
  <2>1. Blank \notin Quotes /\ "|" \notin Quotes
    BY DEF Blank, Quotes
  <2>2. typed[d[2]] \notin Quotes => Quote[d[2] + 1] = Quote[d[2]]
    BY <1>2, <1>6, QuoteFacts
  <2> QED BY <1>5, <2>1, <2>2
<1> QED BY <1>2, <1>3, <1>4, <1>5, <1>6, <1>7

\* What is known of the items when the line is well spaced.
LEMMA SpacedFacts ==
  ASSUME LineInv, WellSpaced
  PROVE  /\ Outside(Len(typed) + 1) /\ Quote[Len(typed) + 1] = "none"
         /\ Pipes = {i \in 1 .. Len(typed) : typed[i] = "|"}
         /\ \A d \in Items : IsOperator(d) => IF d[2] = Len(typed) THEN newline ELSE typed[d[2] + 1] # "|"
         /\ \A d \in Items : ~IsOperator(d) =>
              /\ Word(d) \notin Operators
              /\ \A i \in d[1] .. d[2] : typed[i] \in {"<", ">"} => Quote[i] # "none"
<1>1. Outside(Len(typed) + 1) /\ Quote[Len(typed) + 1] = "none"
  BY QuoteFacts DEF WellSpaced
<1>2. Pipes = {i \in 1 .. Len(typed) : typed[i] = "|"}
  <2>1. \A i \in 1 .. Len(typed) : typed[i] = "|" => Outside(i)
    BY QuoteFacts DEF WellSpaced
  <2>2. \A i \in 1 .. Len(typed) : typed[i] = "|" => i \in Pipes
    BY <2>1, QuoteFacts DEF Pipes, Breaks
  <2>3. \A i \in Pipes : i \in 1 .. Len(typed) /\ typed[i] = "|"
    BY BreakFacts DEF Pipes
  <2> QED BY <2>2, <2>3
<1>3. \A d \in Items : IsOperator(d) => IF d[2] = Len(typed) THEN newline ELSE typed[d[2] + 1] # "|"
  BY DEF WellSpaced
<1>4. \A d \in Items : ~IsOperator(d) =>
              /\ Word(d) \notin Operators
              /\ \A i \in d[1] .. d[2] : typed[i] \in {"<", ">"} => Quote[i] # "none"
  BY QuoteFacts DEF WellSpaced
<1> QED BY <1>1, <1>2, <1>3, <1>4

\* Read from where an item begins, its quotes are those of the line.
LEMMA SameQuotes ==
  ASSUME LineInv, WellSpaced, NEW d \in Items, NEW b \in [1 .. MaxInput -> Chars],
         \A i \in d[1] .. d[2] : b[i] = typed[i], NEW last \in d[2] .. MaxInput
  PROVE  \A j \in d[1] .. d[2] + 1 : Quoting(b, d[1], last)[j] = Quote[j]
<1> DEFINE p == d[1]
           q == d[2]
           v == Quoting(b, p, last)
           N == q + 1 - p
           bad == {m \in 0 .. N : v[p + m] # Quote[p + m]}
<1>1. /\ p \in Nat /\ q \in Nat /\ p >= 1 /\ p <= q /\ q <= Len(typed) /\ Len(typed) \in Nat /\ MaxInput \in Nat
      /\ Quote[p] = "none" /\ last \in Int /\ last >= q /\ last <= MaxInput
  BY ItemEnds, SpacedFacts, QuoteFacts, PlaceFacts
<1>2. Quoted(v, b, p, last)
  <2>1. last + 1 >= p /\ \A j \in p .. last : b[j] \in Chars
    BY <1>1
  <2> HIDE DEF p
  <2> QED BY <1>1, <2>1, QuotingFacts
<1>3. v[p] = "none" /\ \A j \in p + 1 .. last + 1 : v[j] = Toggled(v[j - 1], b[j - 1])
  BY <1>2 DEF Quoted
<1> HIDE DEF v, p, q
<1>4. N \in Nat
  BY <1>1
<1>5. NoLeast(bad, N)
  <2>1. ASSUME NEW m \in bad PROVE m # 0 /\ m - 1 \in bad
    <3>1. m \in 0 .. N /\ v[p + m] # Quote[p + m]
      OBVIOUS
    <3>2. m # 0
      <4>1. p + 0 = p
        BY <1>1
      <4> QED BY <1>1, <1>3, <3>1, <4>1
    <3> DEFINE j == p + m
    <3>3. j \in p + 1 .. last + 1 /\ j - 1 \in p .. q /\ m - 1 \in 0 .. N /\ j - 1 = p + (m - 1)
      BY <1>1, <3>1, <3>2
    <3>4. j - 1 \in 1 .. Len(typed) /\ j - 1 + 1 = j
      BY <1>1, <3>3
    <3> HIDE DEF j, N, bad
    <3>5. v[j] = Toggled(v[j - 1], b[j - 1]) /\ b[j - 1] = typed[j - 1]
      BY <1>3, <3>3 DEF p, q
    <3>6. Quote[j] = Toggled(Quote[j - 1], typed[j - 1])
      BY <3>4, QuoteFacts
    <3>7. v[j - 1] # Quote[j - 1]
      BY <3>1, <3>5, <3>6 DEF j
    <3> QED BY <3>2, <3>3, <3>7 DEF bad
  <2>2. bad \subseteq 0 .. N
    OBVIOUS
  <2> HIDE DEF bad, N
  <2> QED BY <2>1, <2>2 DEF NoLeast
<1>6. bad = {}
  <2> HIDE DEF bad, N
  <2> QED BY <1>4, <1>5, NoLeastEmpty
<1>7. ASSUME NEW j \in p .. q + 1 PROVE v[j] = Quote[j]
  <2>1. j - p \in 0 .. N /\ p + (j - p) = j
    BY <1>1
  <2>2. j - p \notin bad
    BY <1>6
  <2> HIDE DEF N
  <2> QED BY <2>1, <2>2
<1> QED BY <1>7 DEF v, p, q

\* No operator begins in a word.
LEMMA NoOperators ==
  ASSUME LineInv, WellSpaced, NEW d \in Items, ~IsOperator(d), NEW b \in [1 .. MaxInput -> Chars],
         \A i \in d[1] .. d[2] : b[i] = typed[i], Char(b, d[2] + 1) \in {Blank, Nul}
  PROVE  \A i \in d[1] .. d[2] : Char(b, i) = typed[i] /\ (Quote[i] = "none" => OperatorAt(b, i) = 0)
<1>1. /\ d[1] \in Nat /\ d[2] \in Nat /\ d[1] >= 1 /\ d[1] <= d[2] /\ d[2] <= Len(typed) /\ Len(typed) \in Nat
      /\ Len(typed) + 2 <= MaxInput /\ MaxInput \in Nat
  BY ItemEnds, SpacedFacts, PlacesOfLine, PlaceFacts
<1>2. \A i \in d[1] .. d[2] : Char(b, i) = typed[i]
  BY <1>1 DEF Char
<1>3. ASSUME NEW i \in d[1] .. d[2], Quote[i] = "none" PROVE OperatorAt(b, i) = 0
  <2>1. typed[i] \notin {"<", ">"}
    BY <1>3, SpacedFacts
  <2>2. ~(typed[i] = "2" /\ Char(b, i + 1) = ">")
    <3> SUFFICES ASSUME typed[i] = "2", Char(b, i + 1) = ">" PROVE FALSE
      OBVIOUS
    <3>1. i # d[2]
      BY DEF Blank, Nul
    <3>2. i + 1 \in d[1] .. d[2] /\ i \in 1 .. Len(typed)
      BY <1>1, <3>1
    <3>3. typed[i + 1] = ">"
      BY <1>2, <3>2
    <3>4. Quote[i + 1] = Quote[i]
      <4>1. "2" \notin Quotes
        BY DEF Quotes
      <4> QED BY <3>2, <4>1, QuoteFacts
    <3> QED BY <1>3, <3>2, <3>3, <3>4, SpacedFacts
  <2> QED BY <1>2, <2>1, <2>2 DEF OperatorAt
<1> QED BY <1>2, <1>3

-----------------------------------------------------------------------------
(* next_token finds the items *)

\* What a call returns when it finds d.
Finds(r, d) ==
  /\ IsToken(r) /\ ~r.open /\ r.token = d[1] /\ r.next \in d[2] + 1 .. d[2] + 2
  /\ Text(r.buffer, r.token) = Word(d)

LEMMA TextIs ==
  ASSUME NEW b, NEW p \in Places, NEW n \in Nat, p + n <= MaxInput, b[p + n] = Nul,
         \A k \in 1 .. n : b[p + k - 1] # Nul
  PROVE  Text(b, p) = [k \in 1 .. n |-> b[p + k - 1]]
<1> DEFINE f == FirstOf(b, p, {Nul})
<1>1. p \in Nat /\ p >= 1 /\ MaxInput \in Nat /\ Beyond = MaxInput + 1
  BY PlaceFacts DEF Places
<1>2. f \in p .. Beyond /\ Char(b, f) \in {Nul} /\ \A j \in p .. f - 1 : Char(b, j) \notin {Nul}
  BY FirstOfFacts
<1>3. Text(b, p) = [k \in 1 .. f - p |-> b[p + k - 1]]
  BY DEF Text
<1> HIDE DEF f
<1>4. ~(f > p + n)
  <2> SUFFICES ASSUME f > p + n PROVE FALSE
    OBVIOUS
  <2>1. p + n \in p .. f - 1 /\ Char(b, p + n) = Nul
    BY <1>1, <1>2 DEF Char
  <2> QED BY <1>2, <2>1
<1>5. ~(f < p + n)
  <2> SUFFICES ASSUME f < p + n PROVE FALSE
    OBVIOUS
  <2>1. f - p + 1 \in 1 .. n /\ p + (f - p + 1) - 1 = f /\ Char(b, f) = b[f]
    BY <1>1, <1>2 DEF Char
  <2> QED BY <1>2, <2>1
<1>6. f - p = n
  BY <1>1, <1>2, <1>4, <1>5
<1> QED BY <1>3, <1>6

\* A call at the first place of a word returns it.
LEMMA WordFound ==
  ASSUME LineInv, WellSpaced, NEW d \in Items, ~IsOperator(d),
         NEW b \in [1 .. MaxInput -> Chars], Closed(b, d[2] + 1),
         NEW c \in Places, \A i \in d[1] .. d[2] : b[i] = typed[i], Char(b, d[2] + 1) \in {Blank, Nul}
  PROVE  Finds(WordToken(b, c, d[1]), d)
<1> DEFINE p == d[1]
           q == d[2]
           nul == FirstOf(b, p, {Nul})
           quote == Quoting(b, p, nul - 1)
           Ends(i) == quote[i] = "none" /\ (Char(b, i) = Blank \/ OperatorAt(b, i) > 0)
           ends == {i \in p .. nul - 1 : Ends(i)} \cup {nul}
           end == Min(ends)
           Kept(i) == b[i] \notin Quotes \/ quote[i] \notin {"none", b[i]}
           kept == {i \in p .. end - 1 : Kept(i)}
           size == Cardinality(kept)
           Nth(k) == CHOOSE i \in kept : Cardinality({j \in kept : j < i}) = k
           moved == [i \in 1 .. MaxInput |-> IF i \in p .. p + size - 1 THEN b[Nth(i - p)] ELSE b[i]]
<1>1. /\ p \in Nat /\ q \in Nat /\ p >= 1 /\ p <= q /\ q <= Len(typed) /\ Len(typed) \in Nat
      /\ Len(typed) + 2 <= MaxInput /\ MaxInput \in Nat /\ Beyond = MaxInput + 1
      /\ Quote[q + 1] = "none" /\ (\A i \in p .. q : Quote[i] = "none" => typed[i] \notin {Blank, "|"})
      /\ \A i \in p .. q : typed[i] # Nul
  <2>1. p \in Nat /\ q \in Nat /\ p >= 1 /\ p <= q /\ q <= Len(typed) /\ Len(typed) \in Nat
    BY ItemEnds, SpacedFacts, QuoteFacts
  <2>2. \A i \in p .. q : typed[i] # Nul
    <3>1. \A i \in p .. q : i \in 1 .. Len(typed)
      BY <2>1
    <3> QED BY <3>1, QuoteFacts
  <2> QED BY <2>1, <2>2, ItemEnds, SpacedFacts, PlacesOfLine, PlaceFacts
<1>2. \A i \in p .. q : b[i] = typed[i] /\ Char(b, i) = typed[i] /\ (Quote[i] = "none" => OperatorAt(b, i) = 0)
  BY NoOperators
<1>3. nul \in q + 1 .. MaxInput /\ b[nul] = Nul
  <2>1. p \in Places
    BY <1>1 DEF Places
  <2>2. PICK z \in q + 1 .. MaxInput : b[z] = Nul
    BY DEF Closed
  <2>3. z \in p .. Beyond /\ Char(b, z) \in {Nul}
    BY <1>1, <2>2 DEF Char
  <2>4. nul \in p .. Beyond /\ nul <= z /\ Char(b, nul) \in {Nul}
    BY <2>1, <2>3, FirstOfFacts
  <2> HIDE DEF nul
  <2>5. nul \notin p .. q
    BY <1>1, <1>2, <2>4
  <2> QED BY <1>1, <2>2, <2>4, <2>5 DEF Char
<1> HIDE DEF nul
<1>4. \A j \in p .. q + 1 : quote[j] = Quote[j]
  <2> DEFINE last == nul - 1
  <2>1. last \in q .. MaxInput
    BY <1>1, <1>3
  <2> HIDE DEF last
  <2>2. \A j \in p .. q + 1 : Quoting(b, p, last)[j] = Quote[j]
    BY <2>1, SameQuotes
  <2> QED BY <2>2 DEF last
<1>5. WordToken(b, c, p) =
        IF quote[end] # "none"
        THEN Result(Nowhere, c, moved, TRUE, {})
        ELSE Result(p, Past(end, nul), Cut(moved, {p + size}), FALSE, p .. end - 1)
  BY DEF WordToken, nul
<1> HIDE DEF quote, p, q
<1>6. end = q + 1
  <2>1. \A i \in p .. q : ~Ends(i)
    <3> SUFFICES ASSUME NEW i \in p .. q, Ends(i) PROVE FALSE
      OBVIOUS
    <3>1. i \in p .. q + 1
      BY <1>1
    <3> QED BY <1>1, <1>2, <1>4, <3>1
  <2>2. q + 1 \in ends
    <3>1. CASE nul = q + 1
      BY <3>1
    <3>2. CASE nul # q + 1
      <4>1. q + 1 \in p .. nul - 1
        BY <1>1, <1>3, <3>2
      <4>2. Char(b, q + 1) = Blank \/ Char(b, q + 1) = Nul
        BY DEF q
      <4>3. Char(b, q + 1) # Nul
        <5>1. p \in Places
          BY <1>1 DEF Places
        <5>2. \A j \in p .. nul - 1 : Char(b, j) \notin {Nul}
          BY <5>1, FirstOfFacts DEF nul
        <5> QED BY <4>1, <5>2
      <4>4. quote[q + 1] = "none"
        <5>1. q + 1 \in p .. q + 1
          BY <1>1
        <5> QED BY <1>1, <1>4, <5>1
      <4> QED BY <4>1, <4>2, <4>3, <4>4
    <3> QED BY <3>1, <3>2
  <2>3. \A i \in ends : i >= q + 1
    <3> SUFFICES ASSUME NEW i \in ends PROVE i >= q + 1
      OBVIOUS
    <3>1. CASE i = nul
      BY <1>1, <1>3, <3>1
    <3>2. CASE i \in p .. nul - 1 /\ Ends(i)
      <4>1. i \notin p .. q
        BY <2>1, <3>2
      <4> QED BY <1>1, <1>3, <3>2, <4>1
    <3> QED BY <3>1, <3>2
  <2>4. ends \subseteq Nat
    BY <1>1, <1>3
  <2> HIDE DEF ends
  <2>5. end \in ends /\ end <= q + 1
    BY <2>2, <2>4, NatMin
  <2> HIDE DEF end
  <2>6. end \in Nat /\ end >= q + 1
    BY <2>3, <2>4, <2>5
  <2> QED BY <1>1, <2>5, <2>6
<1> HIDE DEF end, ends
<1>7. kept = PlacesKept(d)
  <2>1. end - 1 = q /\ \A i \in p .. q : i \in p .. q + 1
    BY <1>1, <1>6
  <2>2. \A i \in p .. q : Kept(i) <=> (typed[i] \notin Quotes \/ Quote[i] \notin {"none", typed[i]})
    BY <1>2, <1>4, <2>1
  <2> HIDE DEF Kept
  <2> QED BY <2>1, <2>2 DEF PlacesKept, p, q
<1>8. kept \subseteq p .. q /\ IsFiniteSet(kept) /\ size \in Nat /\ size <= q - p + 1
  <2>1. kept \subseteq p .. q
    BY <1>7 DEF PlacesKept, p, q
  <2>2. IsFiniteSet(p .. q) /\ Cardinality(p .. q) = q - p + 1
    <3>1. p \in Int /\ q \in Int /\ ~(p > q)
      BY <1>1
    <3> QED BY <3>1, FS_Interval
  <2> HIDE DEF kept
  <2>3. IsFiniteSet(kept) /\ Cardinality(kept) <= Cardinality(p .. q)
    BY <2>1, <2>2, FS_Subset
  <2> QED BY <2>1, <2>2, <2>3, FS_CardinalityType
<1> HIDE DEF kept
<1>9. ASSUME NEW k \in 0 .. size - 1 PROVE Nth(k) \in kept /\ Cardinality({j \in kept : j < Nth(k)}) = k
  <2>1. kept \subseteq Nat
    BY <1>1, <1>8
  <2>2. k \in Nat /\ k < size
    BY <1>8
  <2>3. \E i \in kept : Cardinality({j \in kept : j < i}) = k
    BY <1>8, <2>1, <2>2, RankFacts
  <2> QED BY <2>3
<1>10. Word(d) \in Seq(Chars) /\ Len(Word(d)) = size
       /\ \A i \in kept : Word(d)[Cardinality({j \in kept : j < i}) + 1] = typed[i]
  BY <1>7, WordFacts
<1> HIDE DEF size
<1>11. ASSUME NEW k \in 1 .. size PROVE moved[p + k - 1] = Word(d)[k] /\ moved[p + k - 1] # Nul
  <2>1. p + k - 1 \in 1 .. MaxInput /\ p + k - 1 \in p .. p + size - 1 /\ k - 1 \in 0 .. size - 1 /\ (p + k - 1) - p = k - 1
        /\ (k - 1) + 1 = k
    BY <1>1, <1>8
  <2>2. moved[p + k - 1] = b[Nth(k - 1)]
    <3> HIDE DEF Nth
    <3> QED BY <2>1
  <2> DEFINE i == Nth(k - 1)
  <2>3. i \in kept /\ Cardinality({j \in kept : j < i}) = k - 1
    BY <1>9, <2>1
  <2> HIDE DEF i, moved
  <2>4. b[i] = typed[i] /\ typed[i] # Nul
    BY <1>1, <1>2, <1>8, <2>3
  <2>5. Word(d)[k] = typed[i]
    BY <1>10, <2>1, <2>3
  <2> QED BY <2>2, <2>4, <2>5 DEF i
<1>12. \A i \in 1 .. MaxInput : i >= p + size => moved[i] = b[i]
  <2> HIDE DEF Nth
  <2> QED BY <1>1, <1>8
<1>13. moved = [i \in 1 .. MaxInput |-> moved[i]]
  OBVIOUS
<1> HIDE DEF moved
<1> DEFINE cut == Cut(moved, {p + size})
<1>14. p + size \in 1 .. MaxInput /\ p + size <= q + 1
  BY <1>1, <1>8
<1>15. /\ cut[p + size] = Nul
       /\ \A k \in 1 .. size : cut[p + k - 1] = Word(d)[k] /\ cut[p + k - 1] # Nul
  <2>1. \A i \in 1 .. MaxInput : cut[i] = IF i = p + size THEN Nul ELSE moved[i]
    BY DEF Cut
  <2>2. \A k \in 1 .. size : p + k - 1 \in 1 .. MaxInput /\ p + k - 1 # p + size
    <3>1. p \in Nat /\ p >= 1 /\ size \in Nat /\ p + size <= MaxInput /\ MaxInput \in Nat
      BY <1>1, <1>8, <1>14
    <3> HIDE DEF size, p
    <3> QED BY <3>1
  <2> HIDE DEF cut
  <2> QED BY <1>11, <1>14, <2>1, <2>2
<1> HIDE DEF cut
<1>16. Text(cut, p) = Word(d)
  <2>1. p \in Places /\ p + size <= MaxInput
    BY <1>1, <1>14 DEF Places
  <2>2. Text(cut, p) = [k \in 1 .. size |-> cut[p + k - 1]]
    BY <1>8, <1>15, <2>1, TextIs
  <2>3. Word(d) = [k \in 1 .. size |-> Word(d)[k]]
    BY <1>10
  <2> QED BY <1>15, <2>2, <2>3
<1>17. quote[end] = "none"
  <2>1. q + 1 \in p .. q + 1
    BY <1>1
  <2> QED BY <1>1, <1>4, <1>6, <2>1
<1>18. WordToken(b, c, p) = Result(p, Past(end, nul), cut, FALSE, p .. end - 1)
  BY <1>5, <1>17 DEF cut
<1>19. Past(end, nul) \in q + 1 .. q + 2
  BY <1>1, <1>3, <1>6 DEF Past
<1> DEFINE r == WordToken(b, c, p)
<1>20. r.token = p /\ r.next = Past(end, nul) /\ r.buffer = cut /\ r.open = FALSE
  BY <1>18 DEF Result
<1> HIDE DEF r
<1>21. Finds(r, d)
  BY <1>1, <1>16, <1>19, <1>20 DEF Finds, IsToken, Nowhere, p, q
<1> QED BY <1>21 DEF r, p

-----------------------------------------------------------------------------
(* The commands of a line *)

\* The n-th command begins at f.
Starts(f, n) ==
  /\ f \in 1 .. Len(typed) + 1 /\ f - 1 \in Pipes \cup {0}
  /\ Cardinality({i \in Pipes : i < f}) = n - 1

\* It goes on up to e.
Region(f, e, n) ==
  /\ Starts(f, n)
  /\ e \in f .. Len(typed) + 1 /\ e \in Pipes \cup {Len(typed) + 1}
  /\ \A i \in f .. e - 1 : i \notin Pipes

LEMMA PipesBelow ==
  ASSUME LineInv
  PROVE  /\ IsFiniteSet(Pipes) /\ Cardinality(Pipes) \in Nat
         /\ \A a : Cardinality({i \in Pipes : i < a}) \in Nat /\ Cardinality({i \in Pipes : i < a}) <= Cardinality(Pipes)
         /\ \A a, b \in Nat : \A m \in Pipes : a <= m /\ m < b =>
              Cardinality({i \in Pipes : i < a}) < Cardinality({i \in Pipes : i < b})
<1> DEFINE Below(a) == {i \in Pipes : i < a}
<1>1. Pipes \subseteq 1 .. Len(typed) /\ IsFiniteSet(1 .. Len(typed))
  <2>1. Pipes \subseteq 1 .. Len(typed)
    BY BreakFacts
  <2>2. 1 \in Int /\ Len(typed) \in Int
    BY QuoteFacts
  <2> QED BY <2>1, <2>2, FS_Interval
<1>2. IsFiniteSet(Pipes) /\ Cardinality(Pipes) \in Nat
  BY <1>1, FS_Subset, FS_CardinalityType
<1>3. \A a : IsFiniteSet(Below(a)) /\ Cardinality(Below(a)) \in Nat /\ Cardinality(Below(a)) <= Cardinality(Pipes)
  <2>1. \A a : Below(a) \subseteq Pipes
    OBVIOUS
  <2> HIDE DEF Below
  <2> QED BY <1>2, <2>1, FS_Subset, FS_CardinalityType
<1>4. ASSUME NEW a \in Nat, NEW b \in Nat, NEW m \in Pipes, a <= m, m < b PROVE Cardinality(Below(a)) < Cardinality(Below(b))
  <2>1. Below(a) \cup {m} \subseteq Below(b) /\ m \notin Below(a)
    <3>1. m \in Nat /\ \A i \in Pipes : i \in Nat /\ (i < a => i < b)
      BY <1>1, <1>4
    <3>2. ~(m < a)
      BY <1>4, <3>1
    <3> QED BY <1>4, <3>1, <3>2
  <2> HIDE DEF Below
  <2>2. Cardinality(Below(a) \cup {m}) = Cardinality(Below(a)) + 1
    BY <1>3, <2>1, FS_AddElement
  <2>3. Cardinality(Below(a) \cup {m}) <= Cardinality(Below(b))
    BY <1>3, <2>1, FS_Subset
  <2> QED BY <1>3, <2>2, <2>3
<1> QED BY <1>2, <1>3, <1>4

\* The items of a command are those that begin in its region.
LEMMA RegionItems ==
  ASSUME LineInv, NEW f, NEW e, NEW n, Region(f, e, n)
  PROVE  /\ f \in Nat /\ f >= 1 /\ e \in Nat /\ f <= e /\ e <= Len(typed) + 1 /\ Len(typed) \in Nat
         /\ CommandItems(n) = {c \in Items : c[1] \in f .. e - 1}
         /\ \A c \in CommandItems(n) : c \in Items /\ f <= c[1] /\ c[2] < e
         /\ \A i \in f .. e - 1 :
              IF i \in Breaks THEN typed[i] = Blank ELSE \E c \in CommandItems(n) : c[1] <= i /\ i <= c[2]
<1>1. /\ f \in Nat /\ f >= 1 /\ e \in Nat /\ f <= e /\ e <= Len(typed) + 1 /\ Len(typed) \in Nat
      /\ f - 1 \in Pipes \cup {0} /\ Cardinality({i \in Pipes : i < f}) = n - 1
      /\ e \in Pipes \cup {Len(typed) + 1} /\ \A i \in f .. e - 1 : i \notin Pipes
  BY QuoteFacts DEF Region, Starts
<1>2. /\ \A i \in Pipes : i \in Breaks /\ i \in 1 .. Len(typed)
      /\ \A i \in Breaks : i \in 1 .. Len(typed) /\ typed[i] \in {Blank, "|"} /\ (typed[i] = "|" => i \in Pipes)
  BY BreakFacts DEF Pipes
<1>3. ASSUME NEW c \in Items
      PROVE  /\ c[1] \in Nat /\ c[2] \in Nat /\ c[1] >= 1 /\ c[1] <= c[2] /\ c[2] <= Len(typed)
             /\ \A i \in Pipes : i < c[1] \/ c[2] < i
  <2>1. IsItem(c)
    BY ItemFacts
  <2>2. c[1] \in Nat /\ c[2] \in Nat /\ c[1] >= 1 /\ c[1] <= c[2] /\ c[2] <= Len(typed)
    BY <1>1, <2>1 DEF IsItem
  <2>3. \A i \in Pipes : i \notin c[1] .. c[2] /\ i \in Nat
    BY <1>2, <2>1 DEF IsItem
  <2> QED BY <2>2, <2>3
<1>4. ASSUME NEW c \in Items, c[1] \in f .. e - 1 PROVE c \in CommandItems(n) /\ c[2] < e
  <2>1. \A i \in Pipes : i < c[1] <=> i < f
    <3> SUFFICES ASSUME NEW i \in Pipes PROVE i < c[1] <=> i < f
      OBVIOUS
    <3>1. i \in Nat /\ i \notin f .. e - 1
      BY <1>1, <1>2
    <3> QED BY <1>1, <1>3, <1>4, <3>1
  <2>2. {i \in Pipes : i < c[1]} = {i \in Pipes : i < f}
    BY <2>1
  <2>3. c[2] < e
    <3>1. CASE e \in Pipes
      <4>1. ~(e < c[1])
        BY <1>1, <1>4
      <4> QED BY <1>3, <3>1, <4>1
    <3>2. CASE e = Len(typed) + 1
      BY <1>1, <1>3, <3>2
    <3> QED BY <1>1, <3>1, <3>2
  <2> QED BY <1>1, <2>2, <2>3 DEF CommandItems
<1>5. ASSUME NEW c \in CommandItems(n) PROVE c \in Items /\ c[1] \in f .. e - 1
  <2>1. c \in Items /\ Cardinality({i \in Pipes : i < c[1]}) = Cardinality({i \in Pipes : i < f})
    BY <1>1 DEF CommandItems
  <2>2. \A m \in Pipes : ~(f <= m /\ m < c[1]) /\ ~(c[1] <= m /\ m < f)
    <3> DEFINE a == c[1]
    <3>1. a \in Nat /\ f \in Nat /\ Cardinality({i \in Pipes : i < f}) \in Nat
          /\ Cardinality({i \in Pipes : i < a}) = Cardinality({i \in Pipes : i < f})
      BY <1>1, <1>3, <2>1, PipesBelow
    <3> HIDE DEF a
    <3>2. \A m \in Pipes : f <= m /\ m < a => Cardinality({i \in Pipes : i < f}) < Cardinality({i \in Pipes : i < a})
      BY <3>1, PipesBelow
    <3>3. \A m \in Pipes : a <= m /\ m < f => Cardinality({i \in Pipes : i < a}) < Cardinality({i \in Pipes : i < f})
      BY <3>1, PipesBelow
    <3>4. \A m \in Pipes : ~(f <= m /\ m < a) /\ ~(a <= m /\ m < f)
      BY <3>1, <3>2, <3>3
    <3> QED BY <3>4 DEF a
  <2>3. f <= c[1]
    <3> SUFFICES ASSUME c[1] < f PROVE FALSE
      BY <1>1, <1>3, <2>1
    <3>1. f - 1 \in Pipes /\ c[1] <= f - 1 /\ f - 1 < f
      BY <1>1, <1>3, <2>1
    <3> QED BY <2>2, <3>1
  <2>4. c[1] < e
    <3> SUFFICES ASSUME e <= c[1] PROVE FALSE
      BY <1>1, <1>3, <2>1
    <3>1. e \in Pipes
      BY <1>1, <1>3, <2>1
    <3>2. e < c[1]
      BY <1>1, <1>3, <2>1, <3>1
    <3> QED BY <1>1, <2>2, <3>1, <3>2
  <2> QED BY <1>1, <1>3, <2>1, <2>3, <2>4
<1>6. ASSUME NEW i \in f .. e - 1
      PROVE  IF i \in Breaks THEN typed[i] = Blank ELSE \E c \in CommandItems(n) : c[1] <= i /\ i <= c[2]
  <2>1. CASE i \in Breaks
    BY <1>1, <1>2, <2>1
  <2>2. CASE i \notin Breaks
    <3>1. i \in 1 .. Len(typed)
      BY <1>1
    <3>2. PICK c \in Items : c[1] <= i /\ i <= c[2]
      BY <2>2, <3>1, ItemCovers
    <3>3. f <= c[1]
      <4> SUFFICES ASSUME c[1] < f PROVE FALSE
        BY <1>1, <1>3
      <4>1. f - 1 \in Pipes
        BY <1>1, <1>3
      <4>2. f - 1 < c[1] \/ c[2] < f - 1
        BY <1>3, <4>1
      <4> QED BY <1>1, <1>3, <3>2, <4>2
    <3>4. c[1] \in f .. e - 1
      BY <1>1, <1>3, <3>2, <3>3
    <3> QED BY <1>4, <2>2, <3>2, <3>4
  <2> QED BY <2>1, <2>2
<1>7. CommandItems(n) = {c \in Items : c[1] \in f .. e - 1}
  BY <1>4, <1>5
<1>8. \A c \in CommandItems(n) : c \in Items /\ f <= c[1] /\ c[2] < e
  BY <1>1, <1>3, <1>4, <1>5
<1> QED BY <1>1, <1>6, <1>7, <1>8

-----------------------------------------------------------------------------
(* next_token finds the next item of the command *)

\* What the command has still to read is as it was typed, up to the blanks at
\* its end.
Trail(b, c) ==
  \A i \in c .. End - 1 : b[i] = typed[i] \/ (b[i] = Nul /\ \A j \in i .. End - 1 : typed[j] = Blank)

\* A call at the first place of an operator returns it.
LEMMA OperatorFound ==
  ASSUME LineInv, WellSpaced, NEW d \in Items, IsOperator(d), NEW b \in [1 .. MaxInput -> Chars],
         \A i \in d[1] .. d[2] : b[i] = typed[i], Char(b, d[2] + 1) \in {Blank, Nul}
  PROVE  /\ OperatorAt(b, d[1]) \in {1, 2}
         /\ Finds(OperatorToken(b, d[1], OperatorAt(b, d[1])), d)
<1> DEFINE p == d[1]
           q == d[2]
           n == OperatorAt(b, p)
           r == OperatorToken(b, p, n)
           cut == Cut(b, {p + n})
<1>1. /\ p \in Nat /\ q \in Nat /\ p >= 1 /\ p <= q /\ q <= Len(typed) /\ Len(typed) \in Nat
      /\ Len(typed) + 2 <= MaxInput /\ MaxInput \in Nat
      /\ \A i \in p .. q : typed[i] # Nul
  <2>1. p \in Nat /\ q \in Nat /\ p >= 1 /\ p <= q /\ q <= Len(typed) /\ Len(typed) \in Nat
    BY ItemEnds, SpacedFacts, QuoteFacts
  <2>2. \A i \in p .. q : typed[i] # Nul
    <3>1. \A i \in p .. q : i \in 1 .. Len(typed)
      BY <2>1
    <3> QED BY <3>1, QuoteFacts
  <2> QED BY <2>1, <2>2, PlacesOfLine, PlaceFacts
<1>2. /\ (q = p /\ typed[p] \in {"<", ">"}) \/ (q = p + 1 /\ typed[p] = "2" /\ typed[q] = ">")
      /\ Word(d) = SubSeq(typed, p, q)
  BY OperatorItems
<1>3. \A i \in p .. q : Char(b, i) = typed[i] /\ b[i] = typed[i]
  BY <1>1 DEF Char
<1> HIDE DEF p, q
<1>4. n = q - p + 1 /\ n \in {1, 2}
  <2>1. CASE q = p /\ typed[p] \in {"<", ">"}
    <3>1. Char(b, p) \in {"<", ">"} /\ q - p + 1 = 1
      BY <1>1, <1>3, <2>1
    <3> QED BY <3>1 DEF OperatorAt
  <2>2. CASE q = p + 1 /\ typed[p] = "2" /\ typed[q] = ">"
    <3>1. Char(b, p) = "2" /\ Char(b, p + 1) = ">" /\ q - p + 1 = 2
      <4>1. p \in p .. q /\ q \in p .. q /\ q - p + 1 = 2
        <5>1. p \in Nat /\ q = p + 1
          BY <1>1, <2>2
        <5> QED BY <5>1
      <4> QED BY <1>3, <2>2, <4>1
    <3> QED BY <3>1 DEF OperatorAt
  <2> QED BY <1>2, <2>1, <2>2
<1> HIDE DEF n
<1>5. r.token = p /\ r.next = p + n + 1 /\ r.buffer = cut /\ r.open = FALSE
  BY DEF OperatorToken, Result
<1> HIDE DEF r
<1>6. p + n = q + 1 /\ p + n \in 1 .. MaxInput /\ p + n + 1 = q + 2
  BY <1>1, <1>4
<1>7. /\ cut[p + n] = Nul
      /\ \A k \in 1 .. n : cut[p + k - 1] = typed[p + k - 1] /\ cut[p + k - 1] # Nul
  <2>1. \A i \in 1 .. MaxInput : cut[i] = IF i = p + n THEN Nul ELSE b[i]
    BY DEF Cut
  <2>2. \A k \in 1 .. n : p + k - 1 \in 1 .. MaxInput /\ p + k - 1 # p + n /\ p + k - 1 \in p .. q
    BY <1>1, <1>4
  <2> HIDE DEF cut
  <2> QED BY <1>1, <1>3, <1>6, <2>1, <2>2
<1> HIDE DEF cut
<1>8. Text(cut, p) = [k \in 1 .. n |-> cut[p + k - 1]]
  <2>1. p \in Places /\ n \in Nat /\ p + n <= MaxInput
    BY <1>1, <1>4, <1>6, PlaceFacts DEF Places
  <2> QED BY <1>7, <2>1, TextIs
<1>9. SubSeq(typed, p, q) = [k \in 1 .. n |-> typed[p + k - 1]]
  <2>1. typed \in Seq(Chars \ {Nul})
    BY DEF LineInv
  <2>2. Len(SubSeq(typed, p, q)) = n /\ \A k \in 1 .. n : SubSeq(typed, p, q)[k] = typed[p + k - 1]
    <3>1. n = q - p + 1
      BY <1>4
    <3>2. p \in 1 .. Len(typed) /\ q \in p .. Len(typed)
      BY <1>1
    <3> QED BY <2>1, <3>1, <3>2
  <2>3. SubSeq(typed, p, q) \in Seq(Chars \ {Nul})
    BY <1>1, <2>1
  <2>4. SubSeq(typed, p, q) = [k \in 1 .. n |-> SubSeq(typed, p, q)[k]]
    BY <2>2, <2>3
  <2> QED BY <2>2, <2>4
<1>10. Text(cut, p) = Word(d)
  BY <1>2, <1>7, <1>8, <1>9
<1>11. Finds(r, d)
  BY <1>1, <1>5, <1>6, <1>10 DEF Finds, IsToken, Nowhere, p, q
<1> QED BY <1>4, <1>11 DEF r, n, p

\* There is nothing but blanks between the cursor and the next item.
LEMMA BlanksAhead ==
  ASSUME LineInv, WellSpaced, NEW n, Region(From, End, n),
         NEW b \in [1 .. MaxInput -> Chars], NEW c \in Places, Inside(b, c), Trail(b, c),
         NEW m \in Nat, m <= End,
         \A e \in CommandItems(n) : e[1] < m => e[2] < c
  PROVE  \A i \in c .. m - 1 : typed[i] = Blank /\ b[i] \in {Blank, Nul}
<1>1. /\ From \in Nat /\ From >= 1 /\ End \in Nat /\ From <= c /\ c \in Nat
  <2>1. c \in Nat
    BY PlaceFacts DEF Places
  <2>2. From \in Nat /\ From >= 1 /\ End \in Nat
    BY RegionItems
  <2> QED BY <2>1, <2>2 DEF Inside
<1> SUFFICES ASSUME NEW i \in c .. m - 1 PROVE typed[i] = Blank /\ b[i] \in {Blank, Nul}
  OBVIOUS
<1>2. i \in From .. End - 1 /\ i \in c .. End - 1
  BY <1>1
<1>3. i \in Breaks
  <2> SUFFICES ASSUME i \notin Breaks PROVE FALSE
    OBVIOUS
  <2>1. PICK e \in CommandItems(n) : e[1] <= i /\ i <= e[2]
    BY <1>2, RegionItems
  <2>2. e[1] \in Nat /\ e[2] \in Nat
    BY RegionItems, ItemEnds, SpacedFacts
  <2> QED BY <1>1, <2>1, <2>2
<1>4. typed[i] = Blank
  BY <1>2, <1>3, RegionItems
<1>5. b[i] = typed[i] \/ b[i] = Nul
  BY <1>2 DEF Trail
<1> QED BY <1>4, <1>5

LEMMA FirstToken ==
  ASSUME NEW b \in [1 .. MaxInput -> Chars], NEW c \in Places, NEW m \in c .. Beyond,
         \A i \in c .. m - 1 : Char(b, i) = Blank, Char(b, m) # Blank
  PROVE  FirstOf(b, c, Chars \ {Blank}) = m
<1> DEFINE p == FirstOf(b, c, Chars \ {Blank})
<1>1. /\ p \in c .. Beyond /\ Char(b, p) \in Chars \ {Blank}
      /\ \A j \in c .. p - 1 : Char(b, j) \notin Chars \ {Blank}
  BY FirstOfFacts, PlaceFacts
<1> HIDE DEF p
<1>2. c \in Nat /\ c >= 1 /\ Beyond = MaxInput + 1 /\ MaxInput \in Nat /\ m \in Nat /\ p \in Nat /\ Nul \in Chars
  BY <1>1, PlaceFacts DEF Places
<1>3. Char(b, m) \in Chars
  BY <1>2 DEF Char
<1>4. ~(p < m)
  <2> SUFFICES ASSUME p < m PROVE FALSE
    OBVIOUS
  <2>1. p \in c .. m - 1
    BY <1>1, <1>2
  <2> QED BY <1>1, <2>1
<1>5. ~(m < p)
  <2> SUFFICES ASSUME m < p PROVE FALSE
    OBVIOUS
  <2>1. m \in c .. p - 1
    BY <1>1, <1>2
  <2> QED BY <1>1, <1>3, <2>1
<1>6. p = m
  BY <1>2, <1>4, <1>5
<1> QED BY <1>6 DEF p

\* The first item behind the cursor is what next_token returns.
LEMMA ItemFound ==
  ASSUME LineInv, WellSpaced, NEW n, Region(From, End, n),
         NEW b \in [1 .. MaxInput -> Chars], NEW c \in Places, Inside(b, c), Trail(b, c),
         NEW d \in CommandItems(n), c <= d[1], \A e \in CommandItems(n) : e[1] < d[1] => e[2] < c
  PROVE  Finds(NextToken(b, c), d)
<1> DEFINE p == d[1]
           q == d[2]
           m == OperatorAt(b, p)
<1>1. /\ d \in Items /\ p \in Nat /\ q \in Nat /\ p >= 1 /\ p <= q /\ q < End /\ End \in Nat /\ End <= Len(typed) + 1
      /\ Len(typed) \in Nat /\ Len(typed) + 2 <= MaxInput /\ MaxInput \in Nat /\ Beyond = MaxInput + 1
      /\ c \in Nat /\ c >= 1 /\ From \in Nat /\ From <= c
      /\ typed[p] \notin {Blank, "|"} /\ typed[q] \notin {Blank, "|"}
  <2>1. d \in Items /\ q < End /\ From \in Nat /\ End \in Nat /\ End <= Len(typed) + 1 /\ Len(typed) \in Nat
    BY RegionItems
  <2>2. /\ p \in Nat /\ q \in Nat /\ p >= 1 /\ p <= q
        /\ typed[p] \notin {Blank, "|"} /\ typed[q] \notin {Blank, "|"}
    BY <2>1, ItemEnds, SpacedFacts
  <2>3. c \in Nat /\ c >= 1
    BY PlaceFacts DEF Places
  <2>4. From <= c
    BY DEF Inside
  <2> QED BY <2>1, <2>2, <2>3, <2>4, PlacesOfLine, PlaceFacts
<1>2. \A i \in 1 .. Len(typed) : typed[i] \in Chars /\ typed[i] # Nul
  BY QuoteFacts
<1>3. \A i \in c .. q : b[i] = typed[i]
  <2> SUFFICES ASSUME NEW i \in c .. q, b[i] # typed[i] PROVE FALSE
    OBVIOUS
  <2>1. i \in c .. End - 1 /\ q \in i .. End - 1
    BY <1>1
  <2>2. \A j \in i .. End - 1 : typed[j] = Blank
    BY <2>1 DEF Trail
  <2> QED BY <1>1, <2>1, <2>2
<1>4. \A i \in c .. p - 1 : typed[i] = Blank /\ b[i] \in {Blank, Nul}
  <2>1. p <= End
    BY <1>1
  <2> HIDE DEF p
  <2> QED BY <1>1, <2>1, BlanksAhead DEF p
<1>5. Char(b, q + 1) \in {Blank, Nul}
  <2>1. CASE q + 1 = End
    BY <2>1 DEF Inside
  <2>2. CASE q + 1 # End
    <3>0. c <= p
      OBVIOUS
    <3> HIDE DEF p, q
    <3>4. q + 1 \in Nat /\ From <= q + 1 /\ c <= q + 1 /\ q + 1 <= End - 1 /\ q + 1 # Len(typed) + 1 /\ q + 1 <= MaxInput
      BY <1>1, <2>2, <3>0
    <3>1. q + 1 \in From .. End - 1 /\ q + 1 \in c .. End - 1 /\ q + 1 # Len(typed) + 1 /\ Char(b, q + 1) = b[q + 1]
      BY <1>1, <3>4 DEF Char
    <3>2. q + 1 \in Breaks
      <4>1. IsItem(d)
        BY <1>1, ItemFacts
      <4> QED BY <3>1, <4>1 DEF IsItem, q
    <3>3. typed[q + 1] = Blank
      BY <3>1, <3>2, RegionItems
    <3> QED BY <3>1, <3>3 DEF Trail
  <2> QED BY <2>1, <2>2
<1>6. FirstOf(b, c, Chars \ {Blank}) = p
  <2>1. p \in c .. Beyond /\ p \in c .. q /\ p \in 1 .. Len(typed)
    BY <1>1
  <2>2. Char(b, p) = typed[p] /\ typed[p] # Blank
    BY <1>1, <1>3, <2>1 DEF Char
  <2>3. \A i \in c .. p - 1 : Char(b, i) = Blank
    <3>1. ASSUME NEW i \in c .. p - 1 PROVE Char(b, i) = Blank
      <4>1. /\ c \in Nat /\ p \in Nat /\ q \in Nat /\ p <= q
            /\ q <= MaxInput /\ MaxInput \in Nat
        BY <1>1
      <4> HIDE DEF p, q
      <4>2. i \in c .. q /\ i <= MaxInput
        BY <4>1
      <4>3. Char(b, i) = b[i]
        BY <4>2 DEF Char
      <4> QED BY <1>3, <1>4, <4>2, <4>3
    <3> QED BY <3>1
  <2> HIDE DEF p
  <2> QED BY <2>1, <2>2, <2>3, FirstToken
<1>7. Char(b, p) # Nul
  <2>1. p \in c .. q /\ p \in 1 .. Len(typed) /\ Char(b, p) = b[p]
    BY <1>1 DEF Char
  <2> QED BY <1>2, <1>3, <2>1
<1>8. \A i \in p .. q : b[i] = typed[i]
  <2>1. \A i \in p .. q : i \in c .. q
    BY <1>1
  <2> QED BY <1>3, <2>1
<1>9. NextToken(b, c) = IF m > 0 THEN OperatorToken(b, p, m) ELSE WordToken(b, c, p)
  <2> HIDE DEF p
  <2> QED BY <1>6, <1>7 DEF NextToken
<1>10. CASE IsOperator(d)
  <2>1. m \in {1, 2} /\ Finds(OperatorToken(b, p, m), d)
    BY <1>1, <1>5, <1>8, <1>10, OperatorFound
  <2>2. m > 0
    BY <2>1
  <2> QED BY <1>9, <2>1, <2>2
<1>11. CASE ~IsOperator(d)
  <2>0. Closed(b, q + 1)
    <3>1. End \in q + 1 .. MaxInput
      BY <1>1
    <3>2. b[End] = Nul
      BY <3>1, <1>1 DEF Inside, Char
    <3> QED BY <3>1, <3>2 DEF Closed
  <2>1. Finds(WordToken(b, c, p), d)
    BY <1>1, <1>5, <1>8, <1>11, <2>0, WordFound
  <2>2. m = 0
    <3>1. p \in p .. q /\ Quote[p] = "none"
      BY <1>1, ItemEnds, SpacedFacts
    <3> QED BY <1>1, <1>5, <1>8, <1>11, <3>1, NoOperators
  <2>3. ~(m > 0)
    BY <2>2
  <2> QED BY <1>9, <2>1, <2>3
<1> QED BY <1>10, <1>11

\* If there is none, next_token finds nothing.
LEMMA NothingFound ==
  ASSUME LineInv, WellSpaced, NEW n, Region(From, End, n),
         NEW b \in [1 .. MaxInput -> Chars], NEW c \in Places, Inside(b, c), Trail(b, c),
         \A e \in CommandItems(n) : e[2] < c
  PROVE  ~IsToken(NextToken(b, c)) /\ ~NextToken(b, c).open /\ NextToken(b, c).buffer = b
<1> DEFINE p == FirstOf(b, c, Chars \ {Blank})
           r == NextToken(b, c)
<1>1. /\ p \in c .. Beyond /\ Char(b, p) \in Chars \ {Blank}
      /\ \A j \in c .. p - 1 : Char(b, j) \notin Chars \ {Blank}
  BY FirstOfFacts, PlaceFacts
<1> HIDE DEF p
<1>2. /\ End \in Nat /\ From \in Nat /\ End <= Len(typed) + 1 /\ Len(typed) \in Nat
      /\ Len(typed) + 2 <= MaxInput /\ MaxInput \in Nat /\ Beyond = MaxInput + 1
      /\ c \in Nat /\ c >= 1 /\ p \in Nat /\ Nul \in Chars /\ Nul # Blank
  <2>1. c \in Nat /\ c >= 1 /\ p \in Nat
    BY <1>1, PlaceFacts DEF Places
  <2>2. From \in Nat /\ End \in Nat /\ End <= Len(typed) + 1 /\ Len(typed) \in Nat
    BY RegionItems
  <2> QED BY <2>1, <2>2, PlacesOfLine, PlaceFacts
<1>3. \A i \in c .. End - 1 : b[i] \in {Blank, Nul}
  BY <1>2, BlanksAhead
<1>4. Char(b, p) = Nul
  <2>1. Char(b, End) = Nul /\ (c <= End \/ (c = End + 1 /\ Char(b, c) = Nul))
    BY DEF Inside
  <2>2. CASE c <= End
    <3>1. ~(End < p)
      <4> SUFFICES ASSUME End < p PROVE FALSE
        OBVIOUS
      <4>1. End \in c .. p - 1
        BY <1>2, <2>2
      <4> QED BY <1>1, <1>2, <2>1, <4>1
    <3>2. CASE p = End
      BY <2>1, <3>2
    <3>3. CASE p < End
      <4>1. p \in c .. End - 1 /\ Char(b, p) = b[p]
        BY <1>1, <1>2, <3>3 DEF Char
      <4> QED BY <1>1, <1>3, <4>1
    <3> QED BY <1>2, <3>1, <3>2, <3>3
  <2>3. CASE c = End + 1 /\ Char(b, c) = Nul
    <3>1. ~(c < p)
      <4> SUFFICES ASSUME c < p PROVE FALSE
        OBVIOUS
      <4>1. c \in c .. p - 1
        BY <1>2
      <4> QED BY <1>1, <1>2, <2>3, <4>1
    <3>2. p = c
      BY <1>1, <1>2, <3>1
    <3> QED BY <2>3, <3>2
  <2> QED BY <2>1, <2>2, <2>3
<1>5. r = Result(Nowhere, p, b, FALSE, {})
  BY <1>4 DEF NextToken, p
<1>6. r.token = Nowhere /\ r.buffer = b /\ r.open = FALSE
  BY <1>5 DEF Result
<1> HIDE DEF r
<1>7. ~IsToken(r) /\ ~r.open /\ r.buffer = b
  BY <1>6 DEF IsToken
<1> QED BY <1>7 DEF r

\* What a token says, and what is left for the next call.
LEMMA TrailStays ==
  ASSUME NEW b \in [1 .. MaxInput -> Chars], NEW c \in Places, NEW r, Good(r, c), Local(r, b, c), ~r.open,
         Trail(b, c), End \in 1 .. MaxInput
  PROVE  Trail(r.buffer, r.next)
<1>1. \A i \in 1 .. MaxInput : r.buffer[i] # b[i] => i < r.next
  BY DEF Local
<1>2. c \in Nat /\ c >= 1 /\ r.next \in Nat /\ r.next >= c /\ End \in Nat /\ End <= MaxInput /\ MaxInput \in Nat
  BY PlaceFacts DEF Places, Good
<1> SUFFICES ASSUME NEW i \in r.next .. End - 1
             PROVE  r.buffer[i] = typed[i] \/ (r.buffer[i] = Nul /\ \A j \in i .. End - 1 : typed[j] = Blank)
  BY DEF Trail
<1>3. i \in c .. End - 1 /\ i \in 1 .. MaxInput /\ ~(i < r.next)
  BY <1>2
<1>4. r.buffer[i] = b[i]
  BY <1>1, <1>3
<1> QED BY <1>3, <1>4 DEF Trail

-----------------------------------------------------------------------------
(* No command of a well-spaced line ends with an operator *)

\* No command of a well-spaced line spills.
LEMMA NoSpill ==
  ASSUME LineInv, WellSpaced, NEW e \in 1 .. Len(typed), e + 1 \in Pipes \cup {Len(typed) + 1},
         typed[e] \in {"<", ">"}
  PROVE  ~(e < Len(typed)) /\ newline
<1>1. Len(typed) \in Nat /\ e \in Nat /\ {Blank, "|"} \cap {"<", ">"} = {} /\ {"<", ">"} \cap Quotes = {}
  <2>1. Len(typed) \in Nat
    BY QuoteFacts
  <2>2. {Blank, "|"} \cap {"<", ">"} = {} /\ {"<", ">"} \cap Quotes = {}
    BY DEF Blank, Quotes
  <2> QED BY <2>1, <2>2
<1>2. e \notin Breaks
  BY <1>1, BreakFacts
<1>3. PICK d \in Items : d[1] <= e /\ e <= d[2]
  BY <1>2, ItemCovers
<1>4. /\ d[1] \in Nat /\ d[2] \in Nat /\ d[2] <= Len(typed) /\ Quote[d[2] + 1] = "none"
      /\ IF IsOperator(d)
         THEN IF d[2] = Len(typed) THEN newline ELSE typed[d[2] + 1] # "|"
         ELSE \A i \in d[1] .. d[2] : typed[i] \in {"<", ">"} => Quote[i] # "none"
  BY ItemEnds, SpacedFacts
<1>5. d[2] = e
  <2> SUFFICES ASSUME d[2] # e PROVE FALSE
    OBVIOUS
  <2>1. e + 1 \in d[1] .. d[2] /\ e + 1 # Len(typed) + 1
    BY <1>1, <1>3, <1>4
  <2>2. e + 1 \in Breaks
    BY <2>1, BreakFacts
  <2> QED BY <2>1, <2>2, ItemFacts DEF IsItem
<1>6. IsOperator(d)
  <2> SUFFICES ASSUME ~IsOperator(d) PROVE FALSE
    OBVIOUS
  <2>1. e \in d[1] .. d[2]
    BY <1>1, <1>3, <1>4
  <2>2. Quote[e] # "none"
    BY <1>4, <2>1
  <2>3. Quote[e + 1] = Quote[e]
    BY <1>1, QuoteFacts
  <2> QED BY <1>4, <1>5, <2>2, <2>3
<1>7. e = Len(typed)
  <2> SUFFICES ASSUME e # Len(typed) PROVE FALSE
    OBVIOUS
  <2>1. e + 1 # Len(typed) + 1
    BY <1>1
  <2>2. typed[e + 1] = "|"
    BY <2>1 DEF Pipes
  <2> QED BY <1>4, <1>5, <1>6, <2>2
<1> QED BY <1>1, <1>4, <1>5, <1>6, <1>7

-----------------------------------------------------------------------------
(* The segments of a line *)

Parsing == pc \in {"segment", "token", "file", "validate", "run"}

\* A segment is the region of a command.
LayoutInv ==
  WellSpaced /\ Parsing =>
    /\ Len(typed) >= 1 /\ (~piped => Pipes = {})
    /\ \A k \in 1 .. Len(segments) :
         segments[k][2] \in 2 .. Len(typed) + 1 /\ segments[k][2] \in Pipes \cup {Len(typed) + 1}
    /\ pc = "segment" => Starts(segment, Len(cmds) + 1)
    /\ pc \in {"token", "file"} =>
         /\ Region(From, End, Len(cmds) + 1) /\ Trail(buffer, cursor)
         /\ piped /\ more <=> End <= Len(typed)
    /\ pc \in {"validate", "run"} => Len(cmds) = Cardinality(Pipes) + 1

LEMMA LayoutClean == ASSUME LineInv, SegmentInv, LayoutInv, WellSpaced, Parsing PROVE Clean
<1> SUFFICES ASSUME NEW k \in DOMAIN Commands, Spills(k) PROVE FALSE
  BY DEF Clean
<1> DEFINE e == LastPlace(k)
<1>1. Len(typed) \in Nat /\ Len(typed) >= 1
  BY QuoteFacts DEF LayoutInv
<1>2. typed[e] \in {"<", ">"} /\ (e < Len(typed) \/ ~newline)
  BY DEF Spills
<1>3. e \in 1 .. Len(typed) /\ e + 1 \in Pipes \cup {Len(typed) + 1}
  <2>1. CASE piped
    <3>1. DOMAIN Commands = 1 .. Len(segments)
      BY <2>1, CommandsFacts DEF CommandsShape, SegmentInv, Parsing
    <3>2. segments[k][2] \in 2 .. Len(typed) + 1 /\ segments[k][2] \in Pipes \cup {Len(typed) + 1}
      BY <3>1 DEF LayoutInv
    <3>3. e = segments[k][2] - 1
      BY <2>1 DEF LastPlace
    <3>4. e + 1 = segments[k][2] /\ e \in 1 .. Len(typed)
      BY <1>1, <3>2, <3>3
    <3> QED BY <3>2, <3>4
  <2>2. CASE ~piped
    BY <1>1, <2>2 DEF LastPlace
  <2> QED BY <2>1, <2>2
<1> HIDE DEF e
<1> QED BY <1>2, <1>3, NoSpill

LEMMA ReadLineLayout == ASSUME LineInv, ReadLine PROVE LayoutInv'
<1> DEFINE text == Text(buffer', 1)
           l == Line(stream)
           d == Filled(stream)
<1>1. /\ stream \in Inputs /\ stream # <<>> /\ ~TooLong(stream)
      /\ buffer' = d /\ typed' = l
      /\ segment' = 1 /\ cursor' = 1 /\ cmds' = <<>> /\ segments' = <<>> /\ more' = FALSE
      /\ piped' = ("|" \in {text[i] : i \in DOMAIN text}) /\ pc' = AfterReading(text, piped')
  BY DEF LineInv, ReadLine
<1>2. /\ l \in Seq(Chars \ {Nul}) /\ Len(l) \in Nat /\ Len(l) <= MaxInput - 2
      /\ \A i \in 1 .. Len(l) : d[i] = l[i]
      /\ d[Len(l) + 1] = Nul
      /\ d \in [1 .. MaxInput -> Chars]
  BY <1>1, TypedFacts, FilledFacts DEF LineInv
<1>3. DOMAIN l = 1 .. Len(l) /\ \A i \in 1 .. Len(l) : l[i] # Nul
  BY <1>2
<1> HIDE DEF d, l
<1>4. text = [i \in 1 .. Len(l) |-> d[i]]
  <2>1. 1 \in Places /\ 1 + Len(l) <= MaxInput /\ MaxInput \in Nat /\ 1 + Len(l) = Len(l) + 1
    BY <1>2, PlaceFacts DEF Places
  <2>2. \A k \in 1 .. Len(l) : 1 + k - 1 = k
    OBVIOUS
  <2>3. \A k \in 1 .. Len(l) : d[1 + k - 1] # Nul
    BY <1>2, <1>3, <2>2
  <2>4. Text(d, 1) = [k \in 1 .. Len(l) |-> d[1 + k - 1]]
    BY <1>2, <2>1, <2>3, TextIs
  <2> QED BY <1>1, <2>2, <2>4
<1> HIDE DEF text
<1>5. /\ pc' \in {"exited", "prompt", "segment", "token"} /\ (pc' = "token" => ~piped') /\ (pc' = "segment" => piped')
      /\ text = <<>> => pc' \in {"prompt", "exited"}
  BY <1>1 DEF AfterReading
<1> SUFFICES ASSUME pc' \in {"segment", "token"} PROVE LayoutInv'
  BY <1>5 DEF LayoutInv, Parsing
<1>6. Len(l) >= 1
  <2> SUFFICES ASSUME Len(l) = 0 PROVE FALSE
    BY <1>2
  <2>1. text = <<>>
    BY <1>4
  <2> QED BY <1>5, <2>1
<1>7. piped' <=> \E i \in 1 .. Len(l) : l[i] = "|"
  BY <1>1, <1>2, <1>4
<1>8. Pipes' \subseteq 1 .. Len(l) /\ (~piped' => Pipes' = {})
  BY <1>1, <1>3, <1>7 DEF Pipes, Breaks
<1>9. Cardinality({i \in Pipes' : i < 1}) = 0
  <2>1. \A i \in Pipes' : ~(i < 1)
    BY <1>2, <1>8
  <2>2. {i \in Pipes' : i < 1} = {}
    BY <2>1
  <2> QED BY <2>2, FS_EmptySet
<1>10. Starts(1, 1)'
  BY <1>1, <1>2, <1>9 DEF Starts
<1>11. Len(cmds') = 0 /\ Len(segments') = 0
  BY <1>1, EmptyFacts
<1>13. pc' = "token" => From' = 1 /\ End' = Len(l) + 1
  BY <1>1, <1>5 DEF From, End
<1>14. pc' = "token" => Trail(buffer, cursor)'
  BY <1>1, <1>2, <1>13 DEF Trail
<1>15. pc' = "token" => ((piped /\ more <=> End <= Len(typed)))'
  BY <1>1, <1>2, <1>5, <1>13
<1>16. pc' = "token" => Region(From, End, Len(cmds) + 1)'
  <2> SUFFICES ASSUME pc' = "token" PROVE Region(From, End, Len(cmds) + 1)'
    OBVIOUS
  <2>1. Starts(From, Len(cmds) + 1)'
    BY <1>10, <1>11, <1>13
  <2>2. End' \in From' .. Len(l) + 1 /\ Pipes' = {}
    BY <1>2, <1>5, <1>8, <1>13
  <2> QED BY <1>1, <1>13, <2>1, <2>2 DEF Region
<1>17. pc' = "segment" => Starts(segment, Len(cmds) + 1)'
  BY <1>1, <1>10, <1>11
<1> QED BY <1>1, <1>5, <1>6, <1>8, <1>11, <1>14, <1>15, <1>16, <1>17 DEF LayoutInv

\* The segment that comes next is the region of the next command.
LEMMA SegmentRegion ==
  ASSUME LineInv, SegmentInv, UnreadInv, LayoutInv, WellSpaced, pc = "segment"
  PROVE  /\ Region(segment, SegmentEnd, Len(cmds) + 1)
         /\ \A i \in segment .. Len(typed) : buffer[i] = typed[i]
         /\ Char(buffer, SegmentEnd) = "|" <=> SegmentEnd <= Len(typed)
         /\ SegmentStart <= SegmentEnd /\ \A i \in segment .. SegmentStart - 1 : typed[i] = Blank
<1> DEFINE e == SegmentEnd
           c == SegmentStart
           l == Len(typed)
<1>1. Clean
  BY LayoutClean DEF Parsing
<1>2. segment \in 1 .. l + 1 /\ Unread(buffer, segment) /\ Starts(segment, Len(cmds) + 1)
  BY <1>1 DEF UnreadInv, LayoutInv, Parsing
<1>3. /\ l \in Nat /\ l + 2 <= MaxInput /\ MaxInput \in Nat /\ Beyond = MaxInput + 1
      /\ segment \in Nat /\ segment >= 1 /\ segment <= l + 1
      /\ \A i \in 1 .. l : typed[i] # Nul
  BY <1>2, QuoteFacts, PlacesOfLine, PlaceFacts
<1>4. buffer \in [1 .. MaxInput -> Chars] /\ segment \in Places
  BY DEF LineInv
<1>5. /\ e \in segment .. Beyond /\ Char(buffer, e) \in {"|", Nul}
      /\ \A j \in segment .. e - 1 : Char(buffer, j) \notin {"|", Nul}
  BY <1>4, FirstOfFacts DEF SegmentEnd
<1>6. c \in segment .. Beyond /\ \A j \in segment .. c - 1 : Char(buffer, j) \notin Chars \ {Blank}
  BY <1>4, FirstOfFacts, PlaceFacts DEF SegmentStart
<1>7. {"|", Nul} \subseteq Chars \ {Blank} /\ "|" # Nul
  BY DEF Chars, Blank, Nul
<1> HIDE DEF e, c
<1>8. (\A i \in segment .. l : buffer[i] = typed[i]) /\ buffer[l + 1] = Nul
  BY <1>2 DEF Unread, l
<1> HIDE DEF l
<1>9. e \in Nat /\ c \in Nat /\ segment <= e /\ segment <= c
  BY <1>3, <1>5, <1>6
<1>10. e <= l + 1
  <2>1. Char(buffer, l + 1) = Nul
    BY <1>3, <1>8 DEF Char
  <2> QED BY <1>3, <1>5, <1>9, <2>1
<1>11. \A i \in segment .. l : Char(buffer, i) = typed[i]
  BY <1>3, <1>8 DEF Char
<1>12. e <= l => typed[e] = "|"
  <2> SUFFICES ASSUME e <= l PROVE typed[e] = "|"
    OBVIOUS
  <2>1. e \in segment .. l /\ e \in 1 .. l
    BY <1>3, <1>9
  <2> QED BY <1>3, <1>5, <1>11, <2>1
<1>13. \A i \in segment .. e - 1 : i \in segment .. l /\ typed[i] # "|"
  <2>1. \A i \in segment .. e - 1 : i \in segment .. l
    BY <1>3, <1>9, <1>10
  <2> QED BY <1>5, <1>11, <2>1
<1>14. Char(buffer, e) = "|" <=> e <= l
  <2>1. CASE e <= l
    <3>1. e \in segment .. l
      BY <1>9, <1>3, <2>1
    <3> QED BY <1>11, <1>12, <2>1, <3>1
  <2>2. CASE ~(e <= l)
    <3>1. e = l + 1
      BY <1>3, <1>9, <1>10, <2>2
    <3> QED BY <1>3, <1>7, <1>8, <2>2, <3>1 DEF Char
  <2> QED BY <2>1, <2>2
<1>15. c <= e
  <2> SUFFICES ASSUME e < c PROVE FALSE
    BY <1>9
  <2>1. e \in segment .. c - 1
    BY <1>9
  <2> QED BY <1>5, <1>6, <1>7, <2>1
<1>16. ASSUME NEW i \in segment .. c - 1 PROVE typed[i] = Blank
  <2>1. i \in segment .. l /\ i \in 1 .. MaxInput /\ Char(buffer, i) = buffer[i]
    BY <1>3, <1>9, <1>10, <1>15 DEF Char
  <2>2. buffer[i] = Blank
    BY <1>4, <1>6, <2>1
  <2> QED BY <1>8, <2>1, <2>2
<1>17. Pipes = {i \in 1 .. l : typed[i] = "|"}
  BY SpacedFacts DEF l
<1>18. Region(segment, e, Len(cmds) + 1)
  <2>1. e \in segment .. l + 1 /\ e \in Pipes \cup {l + 1}
    BY <1>3, <1>9, <1>10, <1>12, <1>17
  <2>2. \A i \in segment .. e - 1 : i \notin Pipes
    BY <1>13, <1>17
  <2> QED BY <1>2, <2>1, <2>2 DEF Region, l
<1> QED BY <1>8, <1>14, <1>15, <1>16, <1>18 DEF e, c, l

LEMMA SplitLayout == ASSUME LineInv, SegmentInv, UnreadInv, LayoutInv, SplitSegment PROVE LayoutInv'
<1> DEFINE e == SegmentEnd
           c == SegmentStart
           l == Len(typed)
           d == Trimmed
           n == Len(segments)
<1>1. /\ pc = "segment" /\ pc' = "token" /\ cursor' = c /\ c < e /\ scan' = e
      /\ more' = (Char(buffer, e) = "|") /\ buffer' = d
      /\ segments' = Append(segments, <<segment, e>>)
      /\ UNCHANGED <<piped, typed, newline, segment, cmds>>
  BY DEF SplitSegment, lineVars
<1>2. piped
  BY <1>1 DEF SegmentInv
<1> SUFFICES ASSUME WellSpaced PROVE LayoutInv'
  <2>1. WellSpaced' <=> WellSpaced
    BY <1>1, SameSpacing
  <2> QED BY <2>1 DEF LayoutInv
<1>3. /\ Region(segment, e, Len(cmds) + 1)
      /\ \A i \in segment .. l : buffer[i] = typed[i]
      /\ Char(buffer, e) = "|" <=> e <= l
  BY <1>1, SegmentRegion
<1>4. /\ segment \in Nat /\ e \in Nat /\ c \in Nat /\ l \in Nat /\ segment >= 1 /\ e <= l + 1 /\ c >= segment
      /\ l + 2 <= MaxInput /\ MaxInput \in Nat
  <2>1. c \in segment .. Beyond
    BY SegmentFacts DEF LineInv
  <2> QED BY <1>3, <2>1, RegionItems, PlaceFacts, PlacesOfLine
<1>5. /\ l >= 1 /\ \A k \in 1 .. n : segments[k][2] \in 2 .. l + 1 /\ segments[k][2] \in Pipes \cup {l + 1}
  BY <1>1 DEF LayoutInv, Parsing
<1>6. e \in Pipes \cup {l + 1}
  BY <1>3 DEF Region
<1>7. \A i \in 1 .. MaxInput : d[i] # buffer[i] => d[i] = Nul /\ \A j \in i .. e - 1 : buffer[j] = Blank
  BY DEF Trimmed, Cut
<1> HIDE DEF e, c, d, l
<1>8. \A i \in c .. e - 1 : d[i] = typed[i] \/ (d[i] = Nul /\ \A j \in i .. e - 1 : typed[j] = Blank)
  <2>1. ASSUME NEW i \in c .. e - 1 PROVE i \in 1 .. MaxInput /\ i \in segment .. l /\ \A j \in i .. e - 1 : j \in segment .. l
    BY <1>4
  <2> QED BY <1>3, <1>7, <2>1
<1>9. Pipes' = Pipes /\ Breaks' = Breaks
  BY <1>1, SameItems
<1>10. From' = segment /\ End' = e
  BY <1>1, <1>2 DEF From, End
<1>11. (Region(From, End, Len(cmds) + 1))'
  BY <1>1, <1>3, <1>9, <1>10 DEF Region, Starts
<1>12. Trail(buffer, cursor)'
  BY <1>1, <1>8, <1>10 DEF Trail
<1>13. (piped /\ more <=> End <= Len(typed))'
  BY <1>1, <1>2, <1>3, <1>10 DEF l
<1>14. \A k \in 1 .. Len(segments') : segments'[k][2] \in 2 .. l + 1 /\ segments'[k][2] \in Pipes' \cup {l + 1}
  <2> DEFINE new == <<segment, e>>
             Pairs == Places \X Places
  <2>1. segments \in Seq(Pairs) /\ new[2] = e
    BY DEF SegmentInv
  <2>2. segments' = Append(segments, new)
    BY <1>1
  <2> HIDE DEF Pairs, new
  <2>3. /\ n \in Nat /\ Len(segments') = n + 1 /\ segments'[n + 1] = new
        /\ \A k \in 1 .. n : segments'[k] = segments[k]
    BY <2>1, <2>2
  <2>4. e \in 2 .. l + 1
    BY <1>1, <1>4
  <2> SUFFICES ASSUME NEW k \in 1 .. n + 1
               PROVE  segments'[k][2] \in 2 .. l + 1 /\ segments'[k][2] \in Pipes \cup {l + 1}
    BY <1>9, <2>3
  <2>5. CASE k \in 1 .. n
    BY <1>5, <2>3, <2>5
  <2>6. CASE k = n + 1
    BY <1>6, <2>1, <2>3, <2>4, <2>6
  <2> QED BY <2>3, <2>5, <2>6
<1> QED BY <1>1, <1>2, <1>5, <1>11, <1>12, <1>13, <1>14 DEF LayoutInv, l

\* After a command comes the next one, unless it was the last.
LEMMA NextRegion ==
  ASSUME LineInv, NEW f, NEW e, NEW n \in Nat, Region(f, e, n)
  PROVE  /\ e <= Len(typed) => Starts(e + 1, n + 1)
         /\ e > Len(typed) => Cardinality(Pipes) = n - 1
<1> DEFINE low == {i \in Pipes : i < f}
<1>1. /\ f \in Nat /\ e \in Nat /\ Len(typed) \in Nat /\ f <= e /\ e <= Len(typed) + 1 /\ f >= 1
      /\ e \in Pipes \cup {Len(typed) + 1} /\ \A i \in f .. e - 1 : i \notin Pipes
      /\ Cardinality(low) = n - 1
  BY RegionItems DEF Region, Starts
<1>2. \A i \in Pipes : i \in Nat /\ i <= Len(typed)
  BY BreakFacts, QuoteFacts
<1>3. IsFiniteSet(Pipes) /\ IsFiniteSet(low)
  <2>1. IsFiniteSet(Pipes) /\ low \subseteq Pipes
    BY PipesBelow
  <2> QED BY <2>1, FS_Subset
<1>4. \A i \in Pipes : i < e => i < f
  <2> SUFFICES ASSUME NEW i \in Pipes, i < e, ~(i < f) PROVE FALSE
    OBVIOUS
  <2>1. i \in f .. e - 1
    BY <1>1, <1>2
  <2> QED BY <1>1, <2>1
<1>5. ASSUME e <= Len(typed) PROVE Starts(e + 1, n + 1)
  <2>1. e \in Pipes /\ e \notin low
    BY <1>1, <1>5
  <2>2. \A i \in Pipes : i < e + 1 <=> i < f \/ i = e
    BY <1>1, <1>2, <1>4
  <2>3. {i \in Pipes : i < e + 1} = low \cup {e}
    BY <2>1, <2>2
  <2> HIDE DEF low
  <2>4. Cardinality(low \cup {e}) = n - 1 + 1
    BY <1>1, <1>3, <2>1, FS_AddElement
  <2>5. e + 1 \in 1 .. Len(typed) + 1 /\ e + 1 - 1 = e /\ n - 1 + 1 = n + 1 - 1
    BY <1>1, <1>5
  <2> DEFINE above == {i \in Pipes : i < e + 1}
  <2>6. Cardinality(above) = n + 1 - 1 /\ e + 1 - 1 \in Pipes \cup {0}
    BY <1>1, <2>1, <2>3, <2>4, <2>5
  <2>7. Cardinality({i \in Pipes : i < e + 1}) = n + 1 - 1
    BY <2>6
  <2> DEFINE g == e + 1
             m == n + 1
  <2>8. g \in 1 .. Len(typed) + 1 /\ g - 1 \in Pipes \cup {0} /\ Cardinality({i \in Pipes : i < g}) = m - 1
    <3>1. g \in 1 .. Len(typed) + 1
      BY <2>5
    <3>2. g - 1 \in Pipes \cup {0}
      <4>1. g - 1 = e
        BY <1>1
      <4> HIDE DEF g
      <4> QED BY <2>1, <4>1
    <3>3. Cardinality({i \in Pipes : i < g}) = m - 1
      BY <2>7
    <3> QED BY <3>1, <3>2, <3>3
  <2> HIDE DEF g, m
  <2>9. Starts(g, m)
    BY <2>8 DEF Starts
  <2> QED BY <2>9 DEF g, m
<1>6. ASSUME e > Len(typed) PROVE Cardinality(Pipes) = n - 1
  <2>1. \A i \in Pipes : i < e
    BY <1>1, <1>2, <1>6
  <2>2. Pipes = low
    BY <1>4, <2>1
  <2> QED BY <1>1, <2>2
<1> QED BY <1>5, <1>6

LEMMA ParseLayout == ASSUME LineInv, SegmentInv, UnreadInv, LayoutInv, ParseCommand PROVE LayoutInv'
<1> USE DEF lineVars, pipelineVars, commandVars
<1> DEFINE r == NextToken(buffer, cursor)
           n == Len(cmds) + 1
<1>1. /\ pc \in {"token", "file"} /\ Closed(buffer, cursor)
      /\ Argument(r) \/ Redirection(r) \/ FileName(r) \/ EndCommand(r)
  BY DEF ParseCommand
<1>2. UNCHANGED <<piped, typed, newline, segments, scan, more>>
  BY <1>1 DEF Argument, Redirection, FileName, EndCommand, CommandDone, Fail
<1> SUFFICES ASSUME WellSpaced PROVE LayoutInv'
  <2>1. WellSpaced' <=> WellSpaced
    BY <1>2, SameSpacing
  <2> QED BY <2>1 DEF LayoutInv
<1>3. Clean
  BY <1>1, LayoutClean DEF Parsing
<1>4. /\ buffer \in [1 .. MaxInput -> Chars] /\ cursor \in Places
      /\ Good(r, cursor) /\ Local(r, buffer, cursor)
      /\ IsToken(r) => ~r.open
  BY <1>1, <1>3, TokenFacts, TokenInside DEF LineInv
<1>5. /\ Len(typed) >= 1 /\ (~piped => Pipes = {})
      /\ \A k \in 1 .. Len(segments) :
           segments[k][2] \in 2 .. Len(typed) + 1 /\ segments[k][2] \in Pipes \cup {Len(typed) + 1}
      /\ Region(From, End, n) /\ Trail(buffer, cursor)
      /\ piped /\ more <=> End <= Len(typed)
  BY <1>1 DEF LayoutInv, Parsing
<1>6. Pipes' = Pipes /\ Breaks' = Breaks
  BY <1>2, SameItems
<1>7. n \in Nat /\ Len(cmds) \in Nat
  BY DEF LineInv
<1> HIDE DEF r
<1>8. CASE Argument(r) \/ Redirection(r) \/ FileName(r)
  <2>1. /\ UNCHANGED <<piped, typed, segment, scan, more, cmds>>
        /\ buffer' = r.buffer /\ cursor' = r.next
        /\ pc' = "prompt" \/ (pc' \in {"token", "file"} /\ IsToken(r))
    BY <1>8 DEF Argument, Redirection, FileName, Fail, Take
  <2> SUFFICES ASSUME pc' \in {"token", "file"} PROVE LayoutInv'
    BY <2>1 DEF LayoutInv, Parsing
  <2>2. IsToken(r) /\ ~r.open
    BY <1>4, <2>1
  <2>3. End \in 1 .. MaxInput
    BY <1>5, RegionItems, PlacesOfLine, PlaceFacts
  <2>4. Trail(r.buffer, r.next)
    BY <1>4, <1>5, <2>2, <2>3, TrailStays
  <2>5. From' = From /\ End' = End
    BY <2>1 DEF From, End
  <2>6. Trail(buffer, cursor)'
    BY <1>2, <2>1, <2>4, <2>5 DEF Trail
  <2>7. (Region(From, End, Len(cmds) + 1))'
    BY <1>2, <1>5, <1>6, <2>1, <2>5 DEF Region, Starts
  <2> QED BY <1>2, <1>5, <1>6, <2>1, <2>5, <2>6, <2>7 DEF LayoutInv
<1>9. CASE EndCommand(r)
  <2>1. \/ pc' = "prompt"
        \/ cmds' = Append(cmds, cmd) /\ pc' = "segment" /\ piped /\ more /\ segment' = scan + 1
        \/ cmds' = Append(cmds, cmd) /\ pc' = "validate" /\ ~(piped /\ more)
    BY <1>9 DEF EndCommand, CommandDone, Fail
  <2>2. Len(Append(cmds, cmd)) = n
    BY DEF LineInv
  <2>3. CASE pc' = "prompt"
    BY <2>3 DEF LayoutInv, Parsing
  <2>4. CASE cmds' = Append(cmds, cmd) /\ pc' = "segment" /\ piped /\ more /\ segment' = scan + 1
    <3>1. segment' = End + 1 /\ Starts(End + 1, n + 1) /\ Len(cmds') = n
      BY <1>5, <1>7, <2>2, <2>4, NextRegion DEF End
    <3>2. Starts(segment, Len(cmds) + 1)'
      BY <1>2, <1>6, <3>1 DEF Starts
    <3> QED BY <1>2, <1>5, <1>6, <2>4, <3>2 DEF LayoutInv
  <2>5. CASE cmds' = Append(cmds, cmd) /\ pc' = "validate" /\ ~(piped /\ more)
    <3>1. End > Len(typed)
      BY <1>5, <2>5, RegionItems
    <3>2. Cardinality(Pipes) = n - 1
      BY <1>5, <1>7, <3>1, NextRegion
    <3>3. Len(cmds') = Cardinality(Pipes) + 1
      BY <1>7, <2>2, <2>5, <3>2
    <3> QED BY <1>2, <1>5, <1>6, <2>5, <3>3 DEF LayoutInv
  <2> QED BY <2>1, <2>3, <2>4, <2>5
<1> QED BY <1>1, <1>8, <1>9

LEMMA LayoutStep == ASSUME LineInv, SegmentInv, UnreadInv, LayoutInv, Next PROVE LayoutInv'
<1> USE DEF lineVars, pipelineVars, commandVars
<1>1. CASE ReadTooLong \/ SegmentFails \/ Overrun \/ EndOfInput \/ Reject \/ Run \/ Exited
  <2>1. pc' \in {"prompt", "exited", "overrun"}
    BY <1>1 DEF ReadTooLong, SegmentFails, Overrun, EndOfInput, Reject, Run, Exited, Fail, vars
  <2> QED BY <2>1 DEF LayoutInv, Parsing
<1>2. CASE Accept
  <2>1. pc = "validate" /\ pc' = "run" /\ UNCHANGED <<piped, typed, newline, segments, cmds>>
    BY <1>2 DEF Accept
  <2>2. Pipes' = Pipes /\ (WellSpaced' <=> WellSpaced)
    BY <2>1, SameItems, SameSpacing
  <2> QED BY <2>1, <2>2 DEF LayoutInv, Parsing
<1> QED BY <1>1, <1>2, ReadLineLayout, SplitLayout, ParseLayout DEF Next

LEMMA LayoutCorrect == Spec => []LayoutInv
<1>1. Init => LayoutInv
  BY DEF Init, LayoutInv, Parsing
<1>2. LineInv /\ TokenInv /\ LayoutInv /\ [Next]_vars => LayoutInv'
  <2> SUFFICES ASSUME LineInv, TokenInv, LayoutInv, [Next]_vars PROVE LayoutInv'
    OBVIOUS
  <2>1. CASE Next
    BY <2>1, LayoutStep DEF TokenInv
  <2>2. CASE UNCHANGED vars
    <3>1. UNCHANGED <<pc, buffer, cursor, piped, typed, newline, segments, segment, scan, more, cmds>>
      BY <2>2 DEF vars, lineVars, pipelineVars, commandVars
    <3>2. Pipes' = Pipes /\ (WellSpaced' <=> WellSpaced)
      BY <3>1, SameItems, SameSpacing
    <3>3. From' = From /\ End' = End
      BY <3>1 DEF From, End
    <3> QED BY <3>1, <3>2, <3>3 DEF LayoutInv, Parsing, Starts, Region, Trail
  <2> QED BY <2>1, <2>2
<1> QED BY LineCorrect, TokenInvCorrect, <1>1, <1>2, PTL DEF Spec

-----------------------------------------------------------------------------
(* The arguments of a command *)

ArgumentsOf(s) == [k \in 1 .. Len(s) |-> IF IsArgument(s, k) THEN <<Word(s[k])>> ELSE <<>>]

\* The arguments among the first n items.
ArgsUpTo(s, n) == FlattenSeq(UpTo(ArgumentsOf(s), n))

\* s is a sequence of items.
Listed(s) ==
  /\ Len(s) \in Nat /\ DOMAIN s = 1 .. Len(s)
  /\ \A k \in 1 .. Len(s) : s[k] \in Items /\ Word(s[k]) \in Seq(Chars)

LEMMA ListedItems == ASSUME LineInv, NEW n PROVE Listed(ItemsOf(n))
<1>1. /\ Len(ItemsOf(n)) \in Nat /\ DOMAIN ItemsOf(n) = 1 .. Len(ItemsOf(n))
      /\ \A k \in 1 .. Len(ItemsOf(n)) : ItemsOf(n)[k] \in CommandItems(n)
  BY ItemsOfFacts
<1>2. \A c \in CommandItems(n) : c \in Items
  BY DEF CommandItems
<1>3. \A c \in Items : Word(c) \in Seq(Chars)
  BY WordFacts
<1> QED BY <1>1, <1>2, <1>3 DEF Listed

LEMMA ArgsStep ==
  ASSUME NEW s, Listed(s), NEW n \in 1 .. Len(s)
  PROVE  /\ ArgsUpTo(s, n) \in Seq(Seq(Chars)) /\ ArgsUpTo(s, n - 1) \in Seq(Seq(Chars))
         /\ IsArgument(s, n) => ArgsUpTo(s, n) = Append(ArgsUpTo(s, n - 1), Word(s[n]))
         /\ ~IsArgument(s, n) => ArgsUpTo(s, n) = ArgsUpTo(s, n - 1)
<1> DEFINE T == Seq(Chars)
           f == ArgumentsOf(s)
           N == Len(s)
           old == ArgsUpTo(s, n - 1)
<1>1. N \in Nat /\ \A k \in 1 .. N : Word(s[k]) \in T
  BY DEF Listed
<1> HIDE DEF T
<1>2. f \in [1 .. N -> Seq(T)] /\ \A k \in 1 .. N : f[k] = IF IsArgument(s, k) THEN <<Word(s[k])>> ELSE <<>>
  <2>1. ASSUME NEW k \in 1 .. N PROVE <<Word(s[k])>> \in Seq(T) /\ <<>> \in Seq(T)
    BY <1>1
  <2> QED BY <2>1 DEF ArgumentsOf
<1> HIDE DEF f, N
<1>3. /\ FlattenSeq(UpTo(f, n)) = FlattenSeq(UpTo(f, n - 1)) \o f[n]
      /\ FlattenSeq(UpTo(f, n)) \in Seq(T) /\ FlattenSeq(UpTo(f, n - 1)) \in Seq(T)
  <2>1. n \in 1 .. N
    BY DEF N
  <2> QED BY <1>1, <1>2, <2>1, FlattenStep
<1>4. ArgsUpTo(s, n) = old \o f[n] /\ ArgsUpTo(s, n) \in Seq(T) /\ old \in Seq(T)
  BY <1>3 DEF ArgsUpTo, f
<1> HIDE DEF old
<1>5. ASSUME IsArgument(s, n) PROVE ArgsUpTo(s, n) = Append(old, Word(s[n]))
  <2> DEFINE w == Word(s[n])
  <2>1. f[n] = <<w>> /\ w \in T
    BY <1>1, <1>2, <1>5 DEF N
  <2> HIDE DEF w
  <2>2. old \o <<w>> = Append(old, w)
    BY <1>4, <2>1
  <2> QED BY <1>4, <2>1, <2>2 DEF w
<1>6. ASSUME ~IsArgument(s, n) PROVE ArgsUpTo(s, n) = old
  <2>1. f[n] = <<>>
    BY <1>2, <1>6 DEF N
  <2> QED BY <1>4, <2>1, ConcatEmptySeq
<1> QED BY <1>4, <1>5, <1>6 DEF T, old

LEMMA ArgsCount ==
  ASSUME NEW s, Listed(s), NEW n \in 0 .. Len(s)
  PROVE  /\ ArgsUpTo(s, n) \in Seq(Seq(Chars)) /\ Len(ArgsUpTo(s, n)) \in Nat
         /\ Len(ArgsUpTo(s, n)) = Cardinality({j \in 1 .. n : IsArgument(s, j)})
<1> DEFINE T == Seq(Chars)
           f == UpTo(ArgumentsOf(s), n)
           K == {j \in 1 .. n : IsArgument(s, j)}
           g == [k \in 1 .. n |-> Word(s[k])]
<1>1. n \in Nat /\ Len(s) \in Nat /\ \A k \in 1 .. n : k \in 1 .. Len(s) /\ Word(s[k]) \in T
  BY DEF Listed
<1> HIDE DEF T
<1>2. \A k \in 1 .. n : f[k] = IF IsArgument(s, k) THEN <<Word(s[k])>> ELSE <<>>
  BY <1>1 DEF UpTo, ArgumentsOf
<1>3. f \in [1 .. n -> Seq(T)]
  <2>1. ASSUME NEW k \in 1 .. n PROVE <<Word(s[k])>> \in Seq(T) /\ <<>> \in Seq(T)
    BY <1>1
  <2> QED BY <1>2, <2>1 DEF UpTo
<1> HIDE DEF f
<1>4. Sparse(f, T, n, K, g)
  BY <1>1, <1>2, <1>3 DEF Sparse
<1> HIDE DEF K, g
<1>5. FlattenSeq(f) \in Seq(T) /\ Len(FlattenSeq(f)) = Cardinality(K)
  BY <1>1, <1>4, FlattenRanks
<1>6. Len(FlattenSeq(f)) \in Nat
  BY <1>5
<1> QED BY <1>5, <1>6 DEF ArgsUpTo, f, K, T

\* An item is read if there was room for an argument before it.
LEMMA ReadFacts ==
  ASSUME NEW s, Listed(s)
  PROVE  /\ \A k \in 1 .. Len(s) : k \in Read(s) <=> Len(ArgsUpTo(s, k - 1)) < MaxArgs - 1
         /\ Read(s) \subseteq 1 .. Len(s)
<1>1. ASSUME NEW k \in 1 .. Len(s) PROVE Len(ArgsUpTo(s, k - 1)) = Cardinality({j \in 1 .. k - 1 : IsArgument(s, j)})
  <2>1. k - 1 \in 0 .. Len(s)
    BY DEF Listed
  <2> QED BY <2>1, ArgsCount
<1>2. DOMAIN s = 1 .. Len(s)
  BY DEF Listed
<1> QED BY <1>1, <1>2 DEF Read

\* A command whose first m items have room, and which ends there or is full, is
\* read up to the m-th item.
LEMMA ReadIs ==
  ASSUME NEW s, Listed(s), NEW m \in 0 .. Len(s),
         \A j \in 1 .. m : Len(ArgsUpTo(s, j - 1)) < MaxArgs - 1,
         m = Len(s) \/ Len(ArgsUpTo(s, m)) = MaxArgs - 1
  PROVE  Read(s) = 1 .. m /\ Cardinality(Read(s)) = m /\ Meaning(s).args = ArgsUpTo(s, m)
<1>1. m \in Nat /\ Len(s) \in Nat /\ m <= Len(s) /\ MaxArgs \in Nat
  <2>1. Len(s) \in Nat
    BY DEF Listed
  <2>2. MaxArgs \in Nat
    BY EmptyFacts
  <2> QED BY <2>1, <2>2
<1>2. ASSUME NEW k \in 1 .. Len(s), ~(k <= m) PROVE ~(Len(ArgsUpTo(s, k - 1)) < MaxArgs - 1)
  <2>1. k - 1 \in 0 .. Len(s) /\ m <= k - 1 /\ Len(ArgsUpTo(s, m)) = MaxArgs - 1 /\ k - 1 \in Nat
    BY <1>1, <1>2
  <2> DEFINE low == {j \in 1 .. m : IsArgument(s, j)}
             all == {j \in 1 .. k - 1 : IsArgument(s, j)}
  <2>2. Len(ArgsUpTo(s, m)) = Cardinality(low) /\ Len(ArgsUpTo(s, k - 1)) = Cardinality(all)
        /\ Len(ArgsUpTo(s, k - 1)) \in Nat
    BY <2>1, ArgsCount
  <2>3. low \subseteq all
    <3>1. \A j \in 1 .. m : j \in 1 .. k - 1
      BY <1>1, <2>1
    <3> QED BY <3>1
  <2>4. IsFiniteSet(all)
    <3>1. IsFiniteSet(1 .. k - 1)
      <4>1. 1 \in Int /\ k - 1 \in Int
        BY <2>1
      <4> QED BY <4>1, FS_Interval
    <3>2. all \subseteq 1 .. k - 1
      OBVIOUS
    <3> HIDE DEF all
    <3> QED BY <3>1, <3>2, FS_Subset
  <2> HIDE DEF low, all
  <2>5. Cardinality(low) <= Cardinality(all)
    BY <2>3, <2>4, FS_Subset
  <2> QED BY <1>1, <2>1, <2>2, <2>5
<1>3. Read(s) = 1 .. m
  <2>1. ASSUME NEW k \in 1 .. Len(s) PROVE k \in Read(s) <=> k \in 1 .. m
    <3>1. CASE k <= m
      <4>1. k \in 1 .. m
        BY <1>1, <3>1
      <4> QED BY <4>1, ReadFacts
    <3>2. CASE ~(k <= m)
      BY <1>1, <1>2, <3>2, ReadFacts
    <3> QED BY <3>1, <3>2
  <2>2. Read(s) \subseteq 1 .. Len(s) /\ 1 .. m \subseteq 1 .. Len(s)
    BY <1>1, ReadFacts
  <2> QED BY <2>1, <2>2
<1>4. Cardinality(1 .. m) = m
  <2>1. 1 \in Int /\ m \in Int /\ (1 > m => m = 0) /\ m - 1 + 1 = m
    BY <1>1
  <2>2. Cardinality(1 .. m) = IF 1 > m THEN 0 ELSE m - 1 + 1
    BY <2>1, FS_Interval
  <2> QED BY <1>1, <2>1, <2>2
<1>5. UpTo(ArgumentsOf(s), m) = [k \in 1 .. m |-> IF IsArgument(s, k) THEN <<Word(s[k])>> ELSE <<>>]
  <2>1. \A k \in 1 .. m : k \in 1 .. Len(s)
    BY <1>1
  <2> QED BY <2>1 DEF UpTo, ArgumentsOf
<1> QED BY <1>3, <1>4, <1>5 DEF Meaning, ArgsUpTo

LEMMA NoArgs == ASSUME NEW s PROVE ArgsUpTo(s, 0) = <<>>
BY FlattenNone DEF ArgsUpTo

-----------------------------------------------------------------------------
(* The item that comes next *)

\* The first k items lie before c, and the others behind it.
Reached(c, s, k) == \A j \in 1 .. Len(s) : IF j <= k THEN s[j][2] < c ELSE c <= s[j][1]

\* The item that is found is the next one of the command.
LEMMA ItemAt ==
  ASSUME LineInv, WellSpaced, NEW n, Region(From, End, n),
         NEW b \in [1 .. MaxInput -> Chars], NEW c \in Places, Inside(b, c), Trail(b, c),
         NEW k \in 0 .. Len(ItemsOf(n)), Reached(c, ItemsOf(n), k), NEW r, r = NextToken(b, c)
  PROVE  /\ k < Len(ItemsOf(n)) =>
              /\ IsToken(r) /\ Text(r.buffer, r.token) = Word(ItemsOf(n)[k + 1])
              /\ IsOp(r) <=> IsOperator(ItemsOf(n)[k + 1])
              /\ Reached(r.next, ItemsOf(n), k + 1)
         /\ ~(k < Len(ItemsOf(n))) => ~IsToken(r)
         /\ ~r.open
<1> DEFINE s == ItemsOf(n)
           N == Len(s)
           A == CommandItems(n)
<1>1. /\ N \in Nat /\ \A j \in 1 .. N : s[j] \in A
      /\ \A i, j \in 1 .. N : i < j => s[i][1] < s[j][1]
      /\ \A e \in A : \E j \in 1 .. N : s[j] = e
  BY ItemsOfFacts
<1>2. \A e \in A : e \in Items /\ e[1] \in Nat /\ e[2] \in Nat /\ e[1] <= e[2]
  BY ItemEnds, SpacedFacts DEF CommandItems
<1>3. k \in Nat /\ k <= N /\ c \in Nat
  BY <1>1, PlaceFacts DEF Places
<1> HIDE DEF A, s, N
<1>4. \A j \in 1 .. N : IF j <= k THEN s[j][2] < c ELSE c <= s[j][1]
  BY DEF Reached, s, N
<1>5. CASE k < N
  <2> DEFINE d == s[k + 1]
             q == k + 1
  <2>1. q \in 1 .. N /\ q = k + 1 /\ ~(q <= k) /\ q \in Nat
    BY <1>1, <1>3, <1>5
  <2>2. d \in A /\ c <= d[1]
    BY <1>1, <1>4, <2>1
  <2>3. ASSUME NEW e \in A, e[1] < d[1] PROVE e[2] < c
    <3>1. PICK j \in 1 .. N : s[j] = e
      BY <1>1
    <3>2. j <= k
      <4> SUFFICES ASSUME ~(j <= k) PROVE FALSE
        OBVIOUS
      <4>1. j = q \/ q < j
        BY <1>1, <1>3, <2>1
      <4>2. CASE j = q
        BY <1>2, <2>2, <2>3, <3>1, <4>2
      <4>3. CASE q < j
        <5>1. d[1] < e[1]
          BY <1>1, <2>1, <3>1, <4>3
        <5> QED BY <1>2, <2>2, <2>3, <5>1
      <4> QED BY <4>1, <4>2, <4>3
    <3> QED BY <1>4, <3>1, <3>2
  <2> HIDE DEF d
  <2>4. Finds(r, d)
    BY <2>2, <2>3, ItemFound DEF A
  <2>5. d \in Items /\ d[1] \in Nat /\ d[2] \in Nat /\ d[1] <= d[2] /\ r.next \in d[2] + 1 .. d[2] + 2 /\ r.next \in Nat
    BY <1>2, <2>2, <2>4 DEF Finds
  <2>6. IsOp(r) <=> IsOperator(d)
    <3>1. IsOp(r) <=> Word(d) \in Operators
      BY <2>4 DEF Finds, IsOp, IsRedirectionOperator
    <3>2. IsOperator(d) => Word(d) \in Operators
      BY <2>5, OperatorItems
    <3>3. ~IsOperator(d) => Word(d) \notin Operators
      BY <2>5, SpacedFacts
    <3> QED BY <3>1, <3>2, <3>3
  <2>7. ASSUME NEW j \in 1 .. N PROVE IF j <= q THEN s[j][2] < r.next ELSE r.next <= s[j][1]
    <3>1. s[j] \in Items /\ s[j][1] \in Nat /\ s[j][2] \in Nat /\ s[j][1] <= s[j][2]
      BY <1>1, <1>2
    <3>2. CASE j = q
      BY <2>1, <2>5, <3>2 DEF d
    <3>3. CASE j < q
      <4>1. s[j][1] < d[1]
        BY <1>1, <2>1, <3>3 DEF d
      <4>2. s[j][2] + 1 < d[1]
        BY <2>5, <3>1, <4>1, ItemsApart
      <4> QED BY SMTT(30), <2>1, <2>5, <3>1, <3>3, <4>2
    <3>4. CASE q < j
      <4>1. d[1] < s[j][1]
        BY <1>1, <2>1, <3>4 DEF d
      <4>2. d[2] + 1 < s[j][1]
        BY <2>5, <3>1, <4>1, ItemsApart
      <4> QED BY <2>1, <2>5, <3>1, <3>4, <4>2
    <3> QED BY <2>1, <3>2, <3>3, <3>4
  <2>8. Reached(r.next, s, q)
    BY <2>7 DEF Reached, N
  <2>9. IsToken(r) /\ ~r.open /\ Text(r.buffer, r.token) = Word(d)
    BY <2>4 DEF Finds
  <2> QED BY <1>5, <2>6, <2>8, <2>9 DEF s, d, q, N
<1>6. CASE ~(k < N)
  <2>1. ASSUME NEW e \in A PROVE e[2] < c
    <3>1. PICK j \in 1 .. N : s[j] = e
      BY <1>1
    <3>2. j <= k
      BY <1>1, <1>3, <1>6
    <3> QED BY <1>4, <3>1, <3>2
  <2>2. ~IsToken(NextToken(b, c)) /\ ~NextToken(b, c).open
    BY <2>1, NothingFound DEF A
  <2> QED BY <1>6, <2>2 DEF N, s
<1> QED BY <1>5, <1>6

-----------------------------------------------------------------------------
(* What has been read of a command *)

HasFile(b, c, s, j) ==
  /\ ~IsOperator(s[j + 1]) /\ c.files[Word(s[j])] # Nowhere
  /\ Text(b, c.files[Word(s[j])]) = Word(s[j + 1])

\* The command c says, in b, what the first m items of s say.
Says(b, c, s, m) ==
  /\ m \in 0 .. Len(s)
  /\ [k \in DOMAIN c.args |-> Text(b, c.args[k])] = ArgsUpTo(s, m)
  /\ \A j \in 1 .. m : Len(ArgsUpTo(s, j - 1)) < MaxArgs - 1
  /\ \A j \in 1 .. m : IsOperator(s[j]) => j + 1 <= m /\ HasFile(b, c, s, j)
  /\ \A o \in Operators : c.files[o] # Nowhere => \E j \in 1 .. m : IsOperator(s[j]) /\ Word(s[j]) = o
  /\ \A i, j \in 1 .. m : IsOperator(s[i]) /\ IsOperator(s[j]) /\ Word(s[i]) = Word(s[j]) => i = j

LEMMA SaysNothing == ASSUME NEW b, NEW s, Listed(s) PROVE Says(b, EmptyCommand, s, 0)
<1> DEFINE args == EmptyCommand.args
<1>1. args = <<>> /\ \A o \in Operators : EmptyCommand.files[o] = Nowhere
  BY DEF EmptyCommand
<1>2. [k \in DOMAIN args |-> Text(b, args[k])] = <<>>
  BY <1>1
<1>3. 0 \in 0 .. Len(s) /\ 1 .. 0 = {}
  BY DEF Listed
<1> QED BY <1>1, <1>2, <1>3, NoArgs DEF Says

\* What a command says is not lost while its tokens keep their text.
LEMMA SaysKept ==
  ASSUME LineInv, NEW b, NEW d, NEW c \in CommandSet, NEW s, Listed(s), NEW m, Says(b, c, s, m),
         \A q \in Pointers(c) : Text(d, q) = Text(b, q)
  PROVE  Says(d, c, s, m)
<1>1. \A k \in DOMAIN c.args : c.args[k] # Nowhere
  <2>1. c.args \in Seq(Places)
    BY DEF CommandSet
  <2>2. \A k \in DOMAIN c.args : c.args[k] \in Places
    BY <2>1
  <2>3. Nowhere \notin Places
    BY DEF Nowhere, Places
  <2> QED BY <2>2, <2>3
<1>2. \A k \in DOMAIN c.args : c.args[k] \in Pointers(c)
  BY <1>1 DEF Pointers
<1>3. [k \in DOMAIN c.args |-> Text(d, c.args[k])] = [k \in DOMAIN c.args |-> Text(b, c.args[k])]
  BY <1>2
<1>4. m \in Nat /\ m <= Len(s) /\ Len(s) \in Nat
  BY DEF Says, Listed
<1>5. ASSUME NEW j \in 1 .. m, IsOperator(s[j]) PROVE HasFile(d, c, s, j)
  <2>1. j \in 1 .. Len(s)
    BY <1>4
  <2>2. s[j] \in Items
    BY <2>1 DEF Listed
  <2>3. Word(s[j]) \in Operators
    BY <1>5, <2>2, OperatorItems
  <2>4. HasFile(b, c, s, j)
    BY <1>5 DEF Says
  <2>5. c.files[Word(s[j])] \in Pointers(c)
    BY <2>3, <2>4 DEF Pointers, HasFile
  <2> QED BY <2>4, <2>5 DEF HasFile
<1> QED BY <1>3, <1>5 DEF Says

-----------------------------------------------------------------------------
(* One item more *)

LEMMA SaysFacts ==
  ASSUME NEW b, NEW c \in CommandSet, NEW s, Listed(s), NEW m, Says(b, c, s, m)
  PROVE  /\ m \in Nat /\ Len(s) \in Nat /\ m <= Len(s) /\ c.args \in Seq(Places) /\ Len(c.args) \in Nat
         /\ Len(ArgsUpTo(s, m)) = Len(c.args)
         /\ \A j \in 1 .. m : IsOperator(s[j]) => j + 1 <= m
         /\ m + 1 <= Len(s) => ~IsFile(s, m + 1)
<1>1. m \in Nat /\ Len(s) \in Nat /\ m <= Len(s)
  BY DEF Says, Listed
<1>2. c.args \in Seq(Places) /\ Len(c.args) \in Nat
  BY DEF CommandSet
<1> DEFINE args == c.args
           texts == [k \in DOMAIN args |-> Text(b, args[k])]
<1>3. texts = ArgsUpTo(s, m)
  BY DEF Says
<1>4. Len(texts) = Len(args)
  <2>1. args \in Seq(Places)
    BY <1>2
  <2> HIDE DEF args
  <2>2. DOMAIN args = 1 .. Len(args) /\ Len(args) \in Nat
    BY <2>1
  <2> QED BY <2>2
<1>5. \A j \in 1 .. m : IsOperator(s[j]) => j + 1 <= m
  BY DEF Says
<1>6. ASSUME m + 1 <= Len(s) PROVE ~IsFile(s, m + 1)
  <2> SUFFICES ASSUME IsFile(s, m + 1) PROVE FALSE
    OBVIOUS
  <2> DEFINE n == m + 1
  <2>1. n - 1 = m /\ ~(n <= m) /\ (n > 1 => m \in 1 .. m)
    BY <1>1
  <2> HIDE DEF n
  <2>2. n > 1 /\ IsOperator(s[n - 1])
    BY DEF IsFile, n
  <2> QED BY <1>5, <2>1, <2>2 DEF n
<1> QED BY <1>1, <1>2, <1>3, <1>4, <1>5, <1>6

\* The next item is an argument.
LEMMA SaysArgument ==
  ASSUME LineInv, NEW b, NEW c \in CommandSet, NEW s, Listed(s), NEW m, Says(b, c, s, m),
         m < Len(s), ~IsOperator(s[m + 1]), Len(c.args) < MaxArgs - 1,
         NEW t \in Places, Text(b, t) = Word(s[m + 1])
  PROVE  Says(b, [c EXCEPT !.args = Append(@, t)], s, m + 1)
<1> DEFINE args == c.args
           new == [c EXCEPT !.args = Append(@, t)]
           w == Word(s[m + 1])
           n == m + 1
<1>1. /\ m \in Nat /\ Len(s) \in Nat /\ args \in Seq(Places) /\ Len(ArgsUpTo(s, m)) = Len(args)
      /\ n \in Nat /\ n <= Len(s) /\ n \in 1 .. Len(s) /\ n - 1 = m /\ ~IsFile(s, n)
  <2>1. /\ m \in Nat /\ Len(s) \in Nat /\ args \in Seq(Places) /\ Len(ArgsUpTo(s, m)) = Len(args)
        /\ n <= Len(s) => ~IsFile(s, n)
    BY ZenonT(30), SaysFacts
  <2>2. n \in Nat /\ n <= Len(s) /\ n \in 1 .. Len(s) /\ n - 1 = m
    BY <2>1
  <2> HIDE DEF n, args
  <2> QED BY <2>1, <2>2
<1>2. IsArgument(s, n)
  BY <1>1 DEF IsArgument
<1>3. ArgsUpTo(s, n) = Append(ArgsUpTo(s, m), w)
  <2> HIDE DEF n
  <2> QED BY <1>1, <1>2, ArgsStep DEF n
<1>4. new.args = Append(args, t) /\ new.files = c.files
  BY DEF CommandSet
<1> HIDE DEF new
<1>5. [k \in DOMAIN new.args |-> Text(b, new.args[k])] = ArgsUpTo(s, n)
  <2> DEFINE texts == [k \in DOMAIN args |-> Text(b, args[k])]
             L == Len(args)
  <2>1. texts = ArgsUpTo(s, m) /\ ArgsUpTo(s, m) \in Seq(Seq(Chars))
    BY <1>1, ArgsCount DEF Says
  <2> HIDE DEF args
  <2>2. /\ L \in Nat /\ DOMAIN args = 1 .. L /\ DOMAIN Append(args, t) = 1 .. L + 1
        /\ Append(args, t)[L + 1] = t /\ \A k \in 1 .. L : Append(args, t)[k] = args[k]
    BY <1>1
  <2>3. Len(texts) = L /\ texts \in Seq(Seq(Chars))
    BY <2>1, <2>2
  <2> HIDE DEF texts, w, L
  <2>4. Append(texts, w) = [k \in 1 .. L + 1 |-> IF k = L + 1 THEN w ELSE texts[k]]
    <3>1. w \in Seq(Chars)
      BY <1>1 DEF Listed, w
    <3>2. Append(texts, w) \in Seq(Seq(Chars)) /\ Len(Append(texts, w)) = L + 1
          /\ Append(texts, w)[L + 1] = w /\ \A k \in 1 .. L : Append(texts, w)[k] = texts[k]
      BY <2>2, <2>3, <3>1
    <3> DEFINE both == Append(texts, w)
    <3> HIDE DEF both
    <3>3. both = [k \in 1 .. L + 1 |-> both[k]]
      <4>1. both \in Seq(Seq(Chars)) /\ Len(both) = L + 1
        BY <3>2 DEF both
      <4> DEFINE T == Seq(Chars)
      <4> HIDE DEF T
      <4>2. both \in [1 .. Len(both) -> T]
        BY <4>1 DEF T
      <4> QED BY <4>1, <4>2
    <3>4. \A k \in 1 .. L + 1 : both[k] = IF k = L + 1 THEN w ELSE texts[k]
      <4>1. \A k \in 1 .. L + 1 : k = L + 1 \/ (k \in 1 .. L /\ k # L + 1)
        BY <2>2
      <4> QED BY <3>2, <4>1 DEF both
    <3> QED BY <3>3, <3>4 DEF both
  <2>5. \A k \in 1 .. L + 1 : Text(b, Append(args, t)[k]) = IF k = L + 1 THEN w ELSE texts[k]
    <3>1. ASSUME NEW k \in 1 .. L, k # L + 1 PROVE Text(b, Append(args, t)[k]) = texts[k]
      BY <2>2 DEF texts
    <3>2. \A k \in 1 .. L + 1 : k = L + 1 \/ (k \in 1 .. L /\ k # L + 1)
      BY <2>2
    <3>3. Text(b, Append(args, t)[L + 1]) = w
      BY <2>2 DEF w
    <3> QED BY <3>1, <3>2, <3>3
  <2>6. [k \in 1 .. L + 1 |-> Text(b, Append(args, t)[k])] = Append(texts, w)
    BY <2>4, <2>5
  <2> QED BY <1>3, <1>4, <2>1, <2>2, <2>6
<1>6. n \in 0 .. Len(s)
  BY <1>1
<1>7. \A j \in 1 .. n : j \in 1 .. m \/ j = n
  BY <1>1
<1>8. ASSUME NEW j \in 1 .. n PROVE Len(ArgsUpTo(s, j - 1)) < MaxArgs - 1
  <2>1. CASE j \in 1 .. m
    BY <2>1 DEF Says
  <2>2. CASE j = n
    BY <1>1, <2>2
  <2> QED BY <1>7, <2>1, <2>2
<1>9. ASSUME NEW j \in 1 .. n, IsOperator(s[j]) PROVE j \in 1 .. m /\ j + 1 <= n /\ HasFile(b, new, s, j)
  <2>1. j \in 1 .. m
    BY <1>7, <1>9
  <2>2. j + 1 <= m /\ HasFile(b, c, s, j)
    BY <1>9, <2>1 DEF Says
  <2> QED BY <1>1, <1>4, <2>1, <2>2 DEF HasFile
<1>10. \A o \in Operators : new.files[o] # Nowhere => \E j \in 1 .. n : IsOperator(s[j]) /\ Word(s[j]) = o
  <2>1. \A j \in 1 .. m : j \in 1 .. n
    BY <1>1
  <2> QED BY <1>4, <2>1 DEF Says
<1>11. \A i, j \in 1 .. n : IsOperator(s[i]) /\ IsOperator(s[j]) /\ Word(s[i]) = Word(s[j]) => i = j
  BY <1>9 DEF Says
<1> QED BY <1>5, <1>6, <1>8, <1>9, <1>10, <1>11 DEF Says, new

\* The next two items are an operator and its file.
LEMMA SaysFile ==
  ASSUME LineInv, NEW b, NEW c \in CommandSet, NEW s, Listed(s), NEW m, Says(b, c, s, m),
         m + 1 < Len(s), IsOperator(s[m + 1]), ~IsOperator(s[m + 2]), Len(c.args) < MaxArgs - 1,
         c.files[Word(s[m + 1])] = Nowhere, NEW t \in Places, Text(b, t) = Word(s[m + 2])
  PROVE  Says(b, [c EXCEPT !.files[Word(s[m + 1])] = t], s, m + 2)
<1> DEFINE o == Word(s[m + 1])
           new == [c EXCEPT !.files[o] = t]
           p == m + 1
           n == m + 2
<1>1. /\ m \in Nat /\ Len(s) \in Nat /\ Len(ArgsUpTo(s, m)) = Len(c.args)
      /\ p \in 1 .. Len(s) /\ n \in 1 .. Len(s) /\ p - 1 = m /\ n - 1 = p /\ n \in Nat
      /\ n > 1 /\ n \in 0 .. Len(s)
  <2>1. m \in Nat /\ Len(s) \in Nat /\ Len(ArgsUpTo(s, m)) = Len(c.args)
    BY SaysFacts
  <2> QED BY <2>1
<1>2. o \in Operators
  <2>1. s[p] \in Items
    BY <1>1 DEF Listed
  <2> QED BY <2>1, OperatorItems
<1>3. new.args = c.args /\ new.files = [c.files EXCEPT ![o] = t]
  BY DEF CommandSet
<1>4. new.files[o] = t /\ t # Nowhere /\ \A q \in Operators : q # o => new.files[q] = c.files[q]
  <2>1. c.files \in [Operators -> Places \cup {Nowhere}]
    BY DEF CommandSet
  <2>2. t # Nowhere
    BY DEF Places, Nowhere
  <2> HIDE DEF o, new
  <2> QED BY <1>2, <1>3, <2>1, <2>2
<1> HIDE DEF new, o
<1>5. ArgsUpTo(s, p) = ArgsUpTo(s, m) /\ ArgsUpTo(s, n) = ArgsUpTo(s, m)
  <2>1. ~IsArgument(s, p) /\ IsFile(s, n) /\ ~IsArgument(s, n)
    BY <1>1 DEF IsArgument, IsFile
  <2>2. ArgsUpTo(s, p) = ArgsUpTo(s, p - 1)
    <3> HIDE DEF p
    <3> QED BY <1>1, <2>1, ArgsStep
  <2>3. ArgsUpTo(s, n) = ArgsUpTo(s, n - 1)
    <3> HIDE DEF n
    <3> QED BY <1>1, <2>1, ArgsStep
  <2> QED BY <1>1, <2>2, <2>3
<1>6. [k \in DOMAIN new.args |-> Text(b, new.args[k])] = ArgsUpTo(s, n)
  BY <1>3, <1>5 DEF Says
<1>7. \A j \in 1 .. n : j \in 1 .. m \/ j = p \/ j = n
  BY <1>1
<1>8. ASSUME NEW j \in 1 .. n PROVE Len(ArgsUpTo(s, j - 1)) < MaxArgs - 1
  <2>1. CASE j \in 1 .. m
    BY <2>1 DEF Says
  <2>2. CASE j = p
    BY <1>1, <2>2
  <2>3. CASE j = n
    BY <1>1, <1>5, <2>3
  <2> QED BY <1>7, <2>1, <2>2, <2>3
<1>9. ASSUME NEW j \in 1 .. m, IsOperator(s[j]) PROVE j + 1 <= n /\ HasFile(b, new, s, j) /\ Word(s[j]) # o
  <2>1. j + 1 <= m /\ HasFile(b, c, s, j)
    BY <1>9 DEF Says
  <2>2. Word(s[j]) # o
    BY <2>1 DEF HasFile, o
  <2>3. Word(s[j]) \in Operators
    <3>1. j \in 1 .. Len(s)
      BY <1>1
    <3>2. s[j] \in Items
      BY <3>1 DEF Listed
    <3> QED BY <1>9, <3>2, OperatorItems
  <2> QED BY <1>1, <1>4, <2>1, <2>2, <2>3 DEF HasFile
<1>10. p + 1 <= n /\ HasFile(b, new, s, p) /\ IsOperator(s[p])
  <2>1. p + 1 = n /\ Word(s[p]) = o /\ ~IsOperator(s[n]) /\ Text(b, t) = Word(s[n]) /\ p + 1 <= n
    BY <1>1 DEF o
  <2> HIDE DEF p, n
  <2> QED BY <1>4, <2>1 DEF HasFile, p
<1>11. ~IsOperator(s[n])
  OBVIOUS
<1>12. \A j \in 1 .. n : IsOperator(s[j]) => j + 1 <= n /\ HasFile(b, new, s, j)
  <2> HIDE DEF p, n
  <2> QED BY <1>7, <1>9, <1>10, <1>11
<1>13. ASSUME NEW q \in Operators, new.files[q] # Nowhere PROVE \E j \in 1 .. n : IsOperator(s[j]) /\ Word(s[j]) = q
  <2>1. CASE q = o
    <3>1. p \in 1 .. n /\ Word(s[p]) = o
      BY <1>1 DEF o
    <3> QED BY <1>10, <2>1, <3>1
  <2>2. CASE q # o
    <3>1. \E j \in 1 .. m : IsOperator(s[j]) /\ Word(s[j]) = q
      BY <1>4, <1>13, <2>2 DEF Says
    <3>2. \A j \in 1 .. m : j \in 1 .. n
      BY <1>1
    <3> QED BY <3>1, <3>2
  <2> QED BY <2>1, <2>2
<1>14. \A i, j \in 1 .. n : IsOperator(s[i]) /\ IsOperator(s[j]) /\ Word(s[i]) = Word(s[j]) => i = j
  <2>1. Word(s[p]) = o
    BY DEF o
  <2>2. \A i, j \in 1 .. m : IsOperator(s[i]) /\ IsOperator(s[j]) /\ Word(s[i]) = Word(s[j]) => i = j
    BY DEF Says
  <2> HIDE DEF p, n
  <2> QED BY <1>7, <1>9, <1>11, <2>1, <2>2
<1> QED BY <1>1, <1>6, <1>8, <1>12, <1>13, <1>14 DEF Says, new, o

-----------------------------------------------------------------------------
(* A command that has been read *)

\* A command that was read to its end, or up to the limit of arguments, is
\* understood as it is meant, and is correct if it has a name.
LEMMA CompleteFacts ==
  ASSUME LineInv, NEW c \in CommandSet, NEW s, Listed(s), NEW m, Says(buffer, c, s, m),
         m = Len(s) \/ Len(c.args) = MaxArgs - 1
  PROVE  /\ Cardinality(Read(s)) = m /\ Understood(c) = Meaning(s)
         /\ Named(c) <=> Correct(s)
<1>1. /\ m \in Nat /\ Len(s) \in Nat /\ m <= Len(s) /\ c.args \in Seq(Places) /\ Len(c.args) \in Nat
      /\ Len(ArgsUpTo(s, m)) = Len(c.args) /\ m \in 0 .. Len(s)
  <2>1. /\ m \in Nat /\ Len(s) \in Nat /\ m <= Len(s) /\ c.args \in Seq(Places) /\ Len(c.args) \in Nat
        /\ Len(ArgsUpTo(s, m)) = Len(c.args)
    BY ZenonT(30), SaysFacts
  <2> QED BY <2>1
<1>2. /\ [k \in DOMAIN c.args |-> Text(buffer, c.args[k])] = ArgsUpTo(s, m)
      /\ \A j \in 1 .. m : Len(ArgsUpTo(s, j - 1)) < MaxArgs - 1
      /\ \A j \in 1 .. m : IsOperator(s[j]) => j + 1 <= m /\ HasFile(buffer, c, s, j)
      /\ \A o \in Operators : c.files[o] # Nowhere => \E j \in 1 .. m : IsOperator(s[j]) /\ Word(s[j]) = o
      /\ \A i, j \in 1 .. m : IsOperator(s[i]) /\ IsOperator(s[j]) /\ Word(s[i]) = Word(s[j]) => i = j
  BY DEF Says
<1>3. Read(s) = 1 .. m /\ Cardinality(Read(s)) = m /\ Meaning(s).args = ArgsUpTo(s, m)
  BY <1>1, <1>2, ReadIs
<1>4. \A j \in 1 .. m : IsOperator(s[j]) => Word(s[j]) \in Operators
  <2> SUFFICES ASSUME NEW j \in 1 .. m, IsOperator(s[j]) PROVE Word(s[j]) \in Operators
    OBVIOUS
  <2>1. j \in 1 .. Len(s)
    BY <1>1
  <2>2. s[j] \in Items
    BY <2>1 DEF Listed
  <2> QED BY <2>2, OperatorItems
<1>5. {<<o, Text(buffer, c.files[o])>> : o \in {p \in Operators : c.files[p] # Nowhere}}
        = {<<Word(s[k]), Word(s[k + 1])>> : k \in {j \in Read(s) : IsOperator(s[j])}}
  <2> DEFINE U == {<<o, Text(buffer, c.files[o])>> : o \in {p \in Operators : c.files[p] # Nowhere}}
             M == {<<Word(s[k]), Word(s[k + 1])>> : k \in {j \in Read(s) : IsOperator(s[j])}}
  <2>1. ASSUME NEW u \in U PROVE u \in M
    <3>1. PICK o \in Operators : c.files[o] # Nowhere /\ u = <<o, Text(buffer, c.files[o])>>
      OBVIOUS
    <3>2. PICK j \in 1 .. m : IsOperator(s[j]) /\ Word(s[j]) = o
      BY <1>2, <3>1
    <3>3. Text(buffer, c.files[o]) = Word(s[j + 1])
      BY <1>2, <3>2 DEF HasFile
    <3>4. u = <<Word(s[j]), Word(s[j + 1])>> /\ j \in {i \in Read(s) : IsOperator(s[i])}
      BY <1>3, <3>1, <3>2, <3>3
    <3> QED BY <3>4
  <2>2. ASSUME NEW u \in M PROVE u \in U
    <3>1. PICK j \in 1 .. m : IsOperator(s[j]) /\ u = <<Word(s[j]), Word(s[j + 1])>>
      BY <1>3
    <3> DEFINE o == Word(s[j])
    <3>2. o \in Operators /\ c.files[o] # Nowhere /\ Text(buffer, c.files[o]) = Word(s[j + 1])
      BY <1>2, <1>4, <3>1 DEF HasFile
    <3>3. u = <<o, Text(buffer, c.files[o])>> /\ o \in {p \in Operators : c.files[p] # Nowhere}
      BY <3>1, <3>2
    <3> QED BY <3>3
  <2> QED BY <2>1, <2>2
<1>6. Understood(c) = Meaning(s)
  <2> DEFINE A == [k \in DOMAIN c.args |-> Text(buffer, c.args[k])]
             F == {<<o, Text(buffer, c.files[o])>> : o \in {p \in Operators : c.files[p] # Nowhere}}
             B == FlattenSeq([k \in 1 .. Cardinality(Read(s)) |->
                    IF IsArgument(s, k) THEN <<Word(s[k])>> ELSE <<>>])
             G == {<<Word(s[k]), Word(s[k + 1])>> : k \in {j \in Read(s) : IsOperator(s[j])}}
  <2>1. Understood(c) = [args |-> A, files |-> F] /\ Meaning(s) = [args |-> B, files |-> G]
    BY DEF Understood, Meaning
  <2>2. F = G
    BY <1>5
  <2>3. A = ArgsUpTo(s, m)
    BY <1>2
  <2> HIDE DEF A, B, F, G
  <2>4. B = ArgsUpTo(s, m)
    BY <1>3, <2>1
  <2> QED BY <2>1, <2>2, <2>3, <2>4
<1> DEFINE given == {j \in 1 .. m : IsArgument(s, j)}
<1>7. Cardinality(given) = Len(c.args) /\ IsFiniteSet(given)
  <2>1. IsFiniteSet(1 .. m)
    BY <1>1, FS_Interval
  <2>2. IsFiniteSet(given)
    <3>1. given \subseteq 1 .. m
      OBVIOUS
    <3> HIDE DEF given
    <3> QED BY <2>1, <3>1, FS_Subset
  <2> QED BY <1>1, <2>2, ArgsCount
<1>8. Named(c) <=> given # {}
  <2> HIDE DEF given
  <2>1. given = {} <=> Len(c.args) = 0
    BY <1>7, FS_EmptySet
  <2>2. c.args = <<>> <=> Len(c.args) = 0
    BY <1>1
  <2> QED BY <2>1, <2>2 DEF Named
<1>9. \A j \in 1 .. m : j \in 1 .. Len(s) /\ (j + 1 <= m => j + 1 \in 1 .. Len(s))
  BY <1>1
<1>10. DOMAIN s = 1 .. Len(s)
  BY DEF Listed
<1>11. ASSUME Named(c) PROVE Correct(s)
  <2>1. \E k \in DOMAIN s : IsArgument(s, k)
    BY <1>8, <1>9, <1>10, <1>11
  <2>2. \A k \in Read(s) : IsOperator(s[k]) => k + 1 \in DOMAIN s /\ ~IsOperator(s[k + 1])
    BY <1>2, <1>3, <1>9, <1>10 DEF HasFile
  <2>3. \A j, k \in Read(s) : IsOperator(s[j]) /\ IsOperator(s[k]) /\ Word(s[j]) = Word(s[k]) => j = k
    BY <1>2, <1>3
  <2> QED BY <2>1, <2>2, <2>3 DEF Correct
<1>12. ASSUME ~Named(c) PROVE ~Correct(s)
  <2>1. Len(c.args) = 0 /\ Len(c.args) # MaxArgs - 1
    <3>1. Len(c.args) = 0
      BY <1>1, <1>12 DEF Named
    <3>2. MaxArgs \in Nat /\ MaxArgs >= 2
      BY EmptyFacts
    <3> QED BY <3>1, <3>2
  <2>2. m = Len(s)
    BY <2>1
  <2>3. ~\E k \in DOMAIN s : IsArgument(s, k)
    BY <1>8, <1>10, <1>12, <2>2
  <2> QED BY <2>3 DEF Correct
<1> QED BY <1>3, <1>6, <1>11, <1>12

-----------------------------------------------------------------------------
(* Commands that are wrong *)

\* A line with a wrong command is wrong.
LEMMA WrongLine ==
  ASSUME LineInv, NEW f, NEW n \in Nat, Starts(f, n), ~Correct(ItemsOf(n)) PROVE ~CorrectLine
<1> DEFINE below == Cardinality({i \in Pipes : i < f})
<1>1. below = n - 1 /\ below \in Nat /\ below <= Cardinality(Pipes) /\ Cardinality(Pipes) \in Nat
  BY PipesBelow DEF Starts
<1> HIDE DEF below
<1>2. n \in 1 .. Cardinality(Pipes) + 1
  BY <1>1
<1> QED BY <1>2 DEF CorrectLine

\* A command without items is wrong.
LEMMA EmptyIsWrong ==
  ASSUME LineInv, NEW f, NEW e, NEW n, Region(f, e, n), WellSpaced, \A i \in f .. e - 1 : typed[i] = Blank
  PROVE  ~Correct(ItemsOf(n))
<1>1. CommandItems(n) = {}
  <2> SUFFICES ASSUME NEW d \in CommandItems(n) PROVE FALSE
    OBVIOUS
  <2>1. d \in Items /\ d[1] \in f .. e - 1
    BY RegionItems
  <2> QED BY <2>1, ItemEnds, SpacedFacts
<1>2. ~\E k \in DOMAIN ItemsOf(n) : TRUE
  BY <1>1, ItemsOfFacts
<1> QED BY <1>2 DEF Correct

\* The item after those of a command is a second operator of its kind, or one
\* without a file.
LEMMA OperatorIsWrong ==
  ASSUME NEW b, NEW c \in CommandSet, NEW s, Listed(s), NEW m, Says(b, c, s, m), Len(c.args) < MaxArgs - 1,
         m < Len(s), IsOperator(s[m + 1]),
         \/ c.files[Word(s[m + 1])] # Nowhere /\ Word(s[m + 1]) \in Operators
         \/ m + 1 = Len(s) \/ IsOperator(s[m + 2])
  PROVE  ~Correct(s)
<1> DEFINE p == m + 1
<1>1. /\ m \in Nat /\ Len(s) \in Nat /\ Len(ArgsUpTo(s, m)) = Len(c.args)
      /\ p \in 1 .. Len(s) /\ p - 1 = m /\ p + 1 = m + 2 /\ DOMAIN s = 1 .. Len(s)
      /\ \A j \in 1 .. m : j # p /\ j \in 1 .. Len(s)
  <2>1. m \in Nat /\ Len(s) \in Nat /\ Len(ArgsUpTo(s, m)) = Len(c.args)
    BY SaysFacts
  <2>2. DOMAIN s = 1 .. Len(s)
    BY DEF Listed
  <2>3. p \in 1 .. Len(s) /\ p - 1 = m /\ p + 1 = m + 2
    BY <2>1
  <2>4. \A j \in 1 .. m : j # p /\ j \in 1 .. Len(s)
    BY <2>1
  <2> QED BY <2>1, <2>2, <2>3, <2>4
<1>2. p \in Read(s)
  <2> HIDE DEF p
  <2> QED BY <1>1, ReadFacts
<1>3. CASE c.files[Word(s[p])] # Nowhere /\ Word(s[p]) \in Operators
  <2>1. PICK j \in 1 .. m : IsOperator(s[j]) /\ Word(s[j]) = Word(s[p])
    BY <1>3 DEF Says
  <2>2. j \in Read(s)
    <3>1. Len(ArgsUpTo(s, j - 1)) < MaxArgs - 1
      BY DEF Says
    <3> QED BY <1>1, <3>1, ReadFacts
  <2> HIDE DEF p
  <2> QED BY <1>1, <1>2, <2>1, <2>2 DEF Correct, p
<1>4. CASE p = Len(s) \/ IsOperator(s[m + 2])
  <2>1. ~(p + 1 \in DOMAIN s /\ ~IsOperator(s[p + 1]))
    <3> HIDE DEF p
    <3>1. CASE p = Len(s)
      <4>1. p + 1 \notin 1 .. Len(s)
        BY <1>1, <3>1
      <4> QED BY <1>1, <4>1
    <3>2. CASE IsOperator(s[m + 2])
      BY <1>1, <3>2
    <3> QED BY <1>4, <3>1, <3>2 DEF p
  <2> HIDE DEF p
  <2> QED BY <1>2, <2>1 DEF Correct, p
<1> QED BY <1>3, <1>4

\* What a sequence of items says depends on the line alone.
LEMMA SameSays ==
  ASSUME UNCHANGED typed
  PROVE  /\ \A s, n : ArgsUpTo(s, n)' = ArgsUpTo(s, n)
         /\ \A b, c, s, m : Says(b, c, s, m)' <=> Says(b, c, s, m)
<1>1. /\ \A s, k : IsArgument(s, k)' <=> IsArgument(s, k)
      /\ \A c : (IsOperator(c)' <=> IsOperator(c)) /\ Word(c)' = Word(c)
  BY SameItems, SameMeaning
<1>2. \A s : ArgumentsOf(s)' = ArgumentsOf(s)
  BY <1>1 DEF ArgumentsOf
<1>3. \A s, n : ArgsUpTo(s, n)' = ArgsUpTo(s, n)
  BY <1>2 DEF ArgsUpTo
<1>4. \A b, c, s, j : HasFile(b, c, s, j)' <=> HasFile(b, c, s, j)
  BY <1>1 DEF HasFile
<1>5. \A b, c, s, m : Says(b, c, s, m)' <=> Says(b, c, s, m)
  BY SMTT(30), <1>1, <1>3, <1>4 DEF Says
<1> QED BY <1>3, <1>5

-----------------------------------------------------------------------------
(* What is understood of a line *)

\* The command has been read up to the last item it may have.
Complete(c, s) == \E m \in 0 .. Len(s) : Says(buffer, c, s, m) /\ (m = Len(s) \/ Len(c.args) = MaxArgs - 1)

IsCut(s) == Len(s) >= Cardinality(Read(s)) + 2

\* The command being parsed says what the first m items of s say.
Parsed(s, m) ==
  /\ Says(buffer, cmd, s, m)
  /\ pc = "token" => Reached(cursor, s, m)
  /\ pc = "file" =>
       /\ m + 1 \in 1 .. Len(s) /\ IsOperator(s[m + 1]) /\ operator = Word(s[m + 1])
       /\ cmd.files[operator] = Nowhere /\ HasRoom /\ Reached(cursor, s, m + 1)

\* What is known of a line that is being parsed: the commands that are done are
\* complete, and the one that is not yet done has been read so far.
MeaningParts ==
  /\ pc \in {"token", "file"} => \E m \in 0 .. Len(ItemsOf(Len(cmds) + 1)) : Parsed(ItemsOf(Len(cmds) + 1), m)
  /\ \A n \in 1 .. Len(cmds) : Complete(cmds[n], ItemsOf(n))
  /\ warned <=> \E n \in 1 .. Len(cmds) : IsCut(ItemsOf(n))
  /\ pc = "run" => \A n \in 1 .. Len(cmds) : Named(cmds[n])

MeaningInv == WellSpaced /\ Parsing => MeaningParts

LEMMA SameCut == ASSUME UNCHANGED typed PROVE \A n : IsCut(ItemsOf(n))' <=> IsCut(ItemsOf(n))
<1>1. \A s : Read(s)' = Read(s)
  BY SameMeaning
<1>2. \A s : IsCut(s)' <=> IsCut(s)
  BY <1>1 DEF IsCut
<1>3. \A n : ItemsOf(n)' = ItemsOf(n)
  BY SameItems
<1> QED BY <1>2, <1>3

LEMMA CommandPointers ==
  ASSUME LineInv
  PROVE  /\ \A n \in 1 .. Len(cmds) : \A q \in Pointers(cmds[n]) : q \in AllPointers
         /\ pc \in {"token", "file"} => \A q \in Pointers(cmd) : q \in AllPointers
<1>1. ASSUME NEW k \in DOMAIN Commands PROVE \A q \in Pointers(Commands[k]) : q \in AllPointers
  BY DEF AllPointers
<1>2. CommandsShape /\ Len(cmds) \in Nat
  BY CommandsFacts DEF CommandsShape
<1>3. ASSUME NEW n \in 1 .. Len(cmds) PROVE n \in DOMAIN Commands /\ Commands[n] = cmds[n]
  <2>1. n \in 1 .. Len(cmds) + 1
    BY <1>2
  <2> QED BY <1>2, <2>1 DEF CommandsShape
<1>4. ASSUME pc \in {"token", "file"} PROVE Len(cmds) + 1 \in DOMAIN Commands /\ Commands[Len(cmds) + 1] = cmd
  <2>1. Len(cmds) + 1 \in 1 .. Len(cmds) + 1
    BY <1>2
  <2> QED BY <1>2, <1>4, <2>1 DEF CommandsShape
<1> QED BY <1>1, <1>3, <1>4

\* Commands that were read stay as they are understood.
LEMMA CompleteKept ==
  ASSUME LineInv, UNCHANGED typed, NEW c \in CommandSet, NEW n, Complete(c, ItemsOf(n)),
         \A q \in Pointers(c) : Text(buffer', q) = Text(buffer, q)
  PROVE  Complete(c, ItemsOf(n))'
<1> DEFINE s == ItemsOf(n)
<1>1. PICK m \in 0 .. Len(s) : Says(buffer, c, s, m) /\ (m = Len(s) \/ Len(c.args) = MaxArgs - 1)
  BY DEF Complete
<1>2. s' = s /\ Listed(s)
  BY SameItems, ListedItems
<1>3. Says(buffer', c, s, m)
  BY <1>1, <1>2, SaysKept
<1>4. Says(buffer, c, s, m)'
  BY <1>2, <1>3, SameSays
<1> QED BY <1>1, <1>2, <1>4 DEF Complete

LEMMA DoneKept ==
  ASSUME LineInv, UNCHANGED typed, NEW n \in 1 .. Len(cmds), Complete(cmds[n], ItemsOf(n)), cmds'[n] = cmds[n],
         \A q \in AllPointers : Text(buffer', q) = Text(buffer, q)
  PROVE  Complete(cmds[n], ItemsOf(n))'
<1>1. cmds[n] \in CommandSet /\ \A q \in Pointers(cmds[n]) : Text(buffer', q) = Text(buffer, q)
  BY CommandPointers, CommandsFacts DEF CommandsShape
<1> DEFINE c == cmds[n]
<1>2. c \in CommandSet /\ Complete(c, ItemsOf(n)) /\ c' = c /\ \A q \in Pointers(c) : Text(buffer', q) = Text(buffer, q)
  BY <1>1
<1> HIDE DEF c
<1>3. Complete(c, ItemsOf(n))'
  BY <1>2, CompleteKept
<1> QED BY <1>3 DEF c

-----------------------------------------------------------------------------
(* Every step keeps what is known *)

\* What next_token finds of the command being parsed, and what a second call
\* finds.
LEMMA ParseContext ==
  ASSUME LineInv, SegmentInv, UnreadInv, LayoutInv, WellSpaced, pc \in {"token", "file"},
         NEW s, s = ItemsOf(Len(cmds) + 1), NEW k \in 0 .. Len(s), Reached(cursor, s, k),
         Closed(buffer, cursor), NEW r, r = NextToken(buffer, cursor), NEW second, second = NextToken(r.buffer, r.next)
  PROVE  /\ k < Len(s) =>
              /\ IsToken(r) /\ r.token \in Places /\ Text(r.buffer, r.token) = Word(s[k + 1])
              /\ IsOp(r) <=> IsOperator(s[k + 1])
              /\ Reached(r.next, s, k + 1)
              /\ IsToken(second) <=> k + 1 < Len(s)
         /\ ~(k < Len(s)) => ~IsToken(r) /\ ~IsToken(second)
         /\ ~r.open
<1> DEFINE n == Len(cmds) + 1
           N == Len(s)
<1>1. /\ Clean /\ Region(From, End, n) /\ Trail(buffer, cursor)
      /\ buffer \in [1 .. MaxInput -> Chars] /\ cursor \in Places
  BY LayoutClean DEF LayoutInv, Parsing, LineInv
<1>2. Inside(buffer, cursor) /\ (~r.open => Inside(r.buffer, r.next))
  BY <1>1, TokenInside DEF UnreadInv
<1>3. /\ Good(r, cursor) /\ Local(r, buffer, cursor)
      /\ r.buffer \in [1 .. MaxInput -> Chars] /\ r.next \in Places /\ r.next >= cursor
      /\ IsToken(r) => r.token \in Places
      /\ cursor \in Nat /\ r.next \in Nat
  <2>1. Good(r, cursor) /\ cursor \in Nat /\ r.next \in Nat
    BY TokenFacts
  <2>2. r.next >= cursor
    BY <2>1 DEF Good
  <2> QED BY <2>1, <2>2, TokenFacts
<1>4. N \in Nat /\ \A j \in 1 .. N : s[j][2] \in Nat
  <2>1. Listed(s)
    BY ListedItems
  <2> QED BY <2>1, ItemEnds, SpacedFacts DEF Listed
<1>5. /\ k < N =>
           /\ IsToken(r) /\ Text(r.buffer, r.token) = Word(s[k + 1])
           /\ IsOp(r) <=> IsOperator(s[k + 1])
           /\ Reached(r.next, s, k + 1)
      /\ ~(k < N) => ~IsToken(r)
      /\ ~r.open
  BY <1>1, <1>2, ItemAt
<1>6. End \in 1 .. MaxInput
  BY <1>1, RegionItems, PlacesOfLine, PlaceFacts
<1>7. Trail(r.buffer, r.next) /\ Inside(r.buffer, r.next)
  BY <1>1, <1>2, <1>3, <1>5, <1>6, TrailStays
<1>8. ASSUME NEW i \in 0 .. N, Reached(r.next, s, i) PROVE IsToken(second) <=> i < N
  BY <1>1, <1>3, <1>7, <1>8, ItemAt
<1>9. k < N => (IsToken(second) <=> k + 1 < N)
  <2> SUFFICES ASSUME k < N PROVE IsToken(second) <=> k + 1 < N
    OBVIOUS
  <2>1. k + 1 \in 0 .. N
    BY <1>4
  <2> QED BY <1>5, <1>8, <2>1
<1>10. ~(k < N) => ~IsToken(second)
  <2> SUFFICES ASSUME ~(k < N) PROVE ~IsToken(second)
    OBVIOUS
  <2>1. \A j \in 1 .. N : j <= k
    BY <1>4
  <2>2. \A j \in 1 .. N : s[j][2] < cursor
    BY <2>1 DEF Reached
  <2>3. Reached(r.next, s, k)
    BY <1>3, <1>4, <2>1, <2>2 DEF Reached
  <2> QED BY <1>8, <2>3
<1> QED BY <1>3, <1>5, <1>9, <1>10

\* At the start of a line nothing has been read of any command.
NothingRead == \A n : Reached(1, ItemsOf(n), 0) /\ 0 \in 0 .. Len(ItemsOf(n)) /\ \A b : Says(b, EmptyCommand, ItemsOf(n), 0)

LEMMA NothingReadFacts == LineInv => NothingRead
<1> SUFFICES ASSUME LineInv, NEW n
             PROVE  /\ Reached(1, ItemsOf(n), 0) /\ 0 \in 0 .. Len(ItemsOf(n))
                    /\ \A b : Says(b, EmptyCommand, ItemsOf(n), 0)
  BY DEF NothingRead
<1>1. Listed(ItemsOf(n))
  BY ListedItems
<1> DEFINE s == ItemsOf(n)
<1> HIDE DEF s
<1>2. Len(s) \in Nat /\ \A j \in 1 .. Len(s) : s[j] \in Items
  BY <1>1 DEF Listed, s
<1>3. \A j \in 1 .. Len(s) : s[j][1] \in Nat /\ s[j][1] >= 1
  BY <1>2, ItemFacts DEF IsItem
<1>4. Reached(1, s, 0)
  BY <1>2, <1>3 DEF Reached
<1> QED BY <1>1, <1>2, <1>4, SaysNothing DEF s

LEMMA NothingReadNext == LineInv' => NothingRead'
BY NothingReadFacts, PTL

LEMMA ReadLineMeaning == ASSUME LineInv', ReadLine PROVE MeaningInv'
<1> DEFINE text == Text(buffer', 1)
<1>1. /\ pc' = AfterReading(text, piped') /\ cmds' = <<>> /\ warned' = FALSE
      /\ cursor' = 1 /\ cmd' = EmptyCommand
  BY DEF ReadLine
<1> HIDE DEF text
<1>2. pc' \in {"exited", "prompt", "segment", "token"}
  BY <1>1 DEF AfterReading
<1>3. Len(cmds') = 0
  BY <1>1, EmptyFacts
<1>4. Parsed(ItemsOf(1), 0)'
  BY <1>1, <1>2, NothingReadNext DEF NothingRead, Parsed
<1>5. 0 \in 0 .. Len(ItemsOf(1)')
  BY NothingReadNext DEF NothingRead
<1> QED BY <1>1, <1>2, <1>3, <1>4, <1>5 DEF MeaningInv, MeaningParts

\* What a step leaves of the commands that are done.
LEMMA DoneStays ==
  ASSUME LineInv, SegmentInv, UnreadInv, KeptInv, LayoutInv, MeaningInv, WellSpaced, Parsing, Next, pc' # "prompt",
         UNCHANGED <<typed, newline>>, \A n \in 1 .. Len(cmds) : cmds'[n] = cmds[n]
  PROVE  /\ \A n \in 1 .. Len(cmds) : Complete(cmds[n], ItemsOf(n))'
         /\ \A q \in AllPointers : Text(buffer', q) = Text(buffer, q)
         /\ pc \in {"token", "file"} => \A q \in Pointers(cmd) : Text(buffer', q) = Text(buffer, q)
<1>1. Clean /\ pc # "prompt"
  BY LayoutClean DEF Parsing
<1>2. \A q \in AllPointers : Text(buffer', q) = Text(buffer, q)
  BY <1>1, TextsKept
<1>3. \A n \in 1 .. Len(cmds) : Complete(cmds[n], ItemsOf(n))
  BY DEF MeaningInv, MeaningParts
<1> QED BY <1>2, <1>3, CommandPointers, DoneKept

\* When a segment is split off, nothing has been read of its command.
LEMMA SplitMeaning ==
  ASSUME LineInv, SegmentInv, UnreadInv, KeptInv, LayoutInv, MeaningInv, WellSpaced, SplitSegment
  PROVE  MeaningInv'
<1> DEFINE s == ItemsOf(Len(cmds) + 1)
           c == SegmentStart
           e == SegmentEnd
<1>1. /\ pc = "segment" /\ pc' = "token" /\ cursor' = c /\ cmd' = EmptyCommand
      /\ UNCHANGED <<typed, newline, warned, cmds>>
  BY DEF SplitSegment, lineVars
<1>2. Next /\ Parsing
  BY <1>1 DEF Next, Parsing
<1>3. \A n \in 1 .. Len(cmds) : Complete(cmds[n], ItemsOf(n))'
  BY <1>1, <1>2, DoneStays
<1>4. Region(segment, e, Len(cmds) + 1) /\ \A i \in segment .. c - 1 : typed[i] = Blank
  BY <1>1, SegmentRegion
<1>5. c \in Nat /\ segment \in Nat
  <2>1. c \in Places /\ segment \in Nat
    BY SegmentFacts DEF LineInv
  <2> QED BY <2>1, PlaceFacts DEF Places
<1>6. Listed(s) /\ \A j \in 1 .. Len(s) : s[j] \in CommandItems(Len(cmds) + 1)
  BY ListedItems, ItemsOfFacts
<1> HIDE DEF c, e
<1>7. Reached(c, s, 0)
  <2>1. ASSUME NEW j \in 1 .. Len(s) PROVE ~(j <= 0) /\ c <= s[j][1]
    <3>1. s[j] \in Items /\ segment <= s[j][1]
      BY <1>4, <1>6, RegionItems
    <3>2. s[j][1] \in Nat /\ typed[s[j][1]] # Blank
      BY <3>1, ItemEnds, SpacedFacts
    <3>3. ~(s[j][1] < c)
      <4> SUFFICES ASSUME s[j][1] < c PROVE FALSE
        OBVIOUS
      <4>1. s[j][1] \in segment .. c - 1
        BY <1>5, <3>1, <3>2
      <4> QED BY <1>4, <3>2, <4>1
    <3>4. ~(j <= 0)
      BY <1>6 DEF Listed
    <3> QED BY <1>5, <3>2, <3>3, <3>4
  <2> QED BY <2>1 DEF Reached
<1>8. s' = s
  BY <1>1, SameItems
<1>9. Says(buffer', EmptyCommand, s, 0) /\ 0 \in 0 .. Len(s)
  BY <1>6, SaysNothing DEF Says
<1>10. Parsed(s, 0)'
  <2>1. Says(buffer, cmd, s, 0)'
    BY <1>1, <1>8, <1>9, SameSays
  <2>2. Reached(cursor, s, 0)'
    BY <1>1, <1>7, <1>8 DEF Reached
  <2> QED BY <1>1, <2>1, <2>2 DEF Parsed
<1>11. warned <=> \E n \in 1 .. Len(cmds) : IsCut(ItemsOf(n))
  BY <1>2 DEF MeaningInv, MeaningParts
<1>12. (warned <=> \E n \in 1 .. Len(cmds) : IsCut(ItemsOf(n)))'
  BY <1>1, <1>11, SameCut
<1>13. MeaningParts'
  BY <1>1, <1>3, <1>8, <1>9, <1>10, <1>12 DEF MeaningParts
<1> QED BY <1>13 DEF MeaningInv, MeaningParts

\* The rest of the invariant, when another item has been read.
LEMMA StillParsing ==
  ASSUME LineInv, SegmentInv, UnreadInv, KeptInv, LayoutInv, MeaningInv, WellSpaced, Next,
         pc \in {"token", "file"}, pc' \in {"token", "file"}, UNCHANGED <<typed, newline, warned, cmds>>,
         NEW m \in 0 .. Len(ItemsOf(Len(cmds) + 1)), Parsed(ItemsOf(Len(cmds) + 1), m)'
  PROVE  MeaningInv'
<1> DEFINE s == ItemsOf(Len(cmds) + 1)
<1>1. Parsing
  BY DEF Parsing
<1>2. \A n \in 1 .. Len(cmds) : Complete(cmds[n], ItemsOf(n))'
  BY <1>1, DoneStays
<1>3. s' = s
  BY SameItems
<1>4. warned <=> \E n \in 1 .. Len(cmds) : IsCut(ItemsOf(n))
  BY <1>1 DEF MeaningInv, MeaningParts
<1>5. (warned <=> \E n \in 1 .. Len(cmds) : IsCut(ItemsOf(n)))'
  BY <1>4, SameCut
<1>6. MeaningParts'
  BY <1>2, <1>3, <1>5 DEF MeaningParts
<1> QED BY <1>6 DEF MeaningInv, MeaningParts

\* What is known of the command when the next token is looked for.
LEMMA CommandContext ==
  ASSUME LineInv, SegmentInv, UnreadInv, KeptInv, LayoutInv, MeaningInv, WellSpaced, pc \in {"token", "file"}
  PROVE  LET s == ItemsOf(Len(cmds) + 1)
         IN  /\ Listed(s) /\ Len(s) \in Nat
             /\ \E m \in 0 .. Len(s) : Parsed(s, m) /\ Says(buffer, cmd, s, m) /\ m \in Nat
<1> DEFINE s == ItemsOf(Len(cmds) + 1)
<1>1. Listed(s) /\ Len(s) \in Nat
  BY ListedItems DEF Listed
<1>2. PICK m \in 0 .. Len(s) : Parsed(s, m)
  BY DEF MeaningInv, MeaningParts, Parsing
<1>3. Says(buffer, cmd, s, m) /\ m \in Nat
  BY <1>1, <1>2 DEF Parsed
<1> QED BY <1>1, <1>2, <1>3

\* An argument: one item more has been read.
LEMMA ArgumentMeaning ==
  ASSUME LineInv, SegmentInv, UnreadInv, KeptInv, LayoutInv, MeaningInv, WellSpaced, Next,
         Closed(buffer, cursor), NEW r, r = NextToken(buffer, cursor), Argument(r)
  PROVE  MeaningInv'
<1> DEFINE s == ItemsOf(Len(cmds) + 1)
<1>1. /\ pc = "token" /\ pc' = "token" /\ HasRoom /\ IsToken(r) /\ ~IsOp(r)
      /\ cmd' = [cmd EXCEPT !.args = Append(@, r.token)] /\ buffer' = r.buffer /\ cursor' = r.next
      /\ UNCHANGED <<typed, newline, warned, cmds>>
  BY DEF Argument, Take, lineVars, pipelineVars
<1>2. PICK m \in 0 .. Len(s) : Parsed(s, m) /\ Says(buffer, cmd, s, m) /\ m \in Nat
  BY <1>1, CommandContext
<1>3. Listed(s) /\ Len(s) \in Nat /\ cmd \in CommandSet
  BY <1>1, CommandContext DEF LineInv
<1> DEFINE second == NextToken(r.buffer, r.next)
<1>4. Reached(cursor, s, m)
  BY <1>1, <1>2 DEF Parsed
<1>5. /\ m < Len(s) /\ r.token \in Places /\ Text(r.buffer, r.token) = Word(s[m + 1])
      /\ ~IsOperator(s[m + 1]) /\ Reached(r.next, s, m + 1)
  <2> HIDE DEF s
  <2>1. s = ItemsOf(Len(cmds) + 1)
    BY DEF s
  <2> QED BY <1>1, <1>4, <2>1, ParseContext
<1>6. \A q \in Pointers(cmd) : Text(buffer', q) = Text(buffer, q)
  BY <1>1, DoneStays DEF Parsing
<1>7. s' = s
  BY <1>1, SameItems
<1> HIDE DEF s
<1>8. Says(buffer', cmd, s, m)
  BY <1>2, <1>3, <1>6, SaysKept
<1>9. Says(buffer', cmd', s, m + 1)
  BY <1>1, <1>3, <1>5, <1>8, SaysArgument DEF HasRoom
<1>10. m + 1 \in 0 .. Len(s)
  BY <1>2, <1>3, <1>5
<1>11. Parsed(s, m + 1)'
  <2>1. Says(buffer, cmd, s, m + 1)'
    BY <1>1, <1>7, <1>9, SameSays
  <2>2. Reached(cursor, s, m + 1)'
    BY <1>1, <1>5, <1>7 DEF Reached
  <2> QED BY <1>1, <2>1, <2>2 DEF Parsed
<1> QED BY <1>1, <1>10, <1>11, StillParsing DEF s

\* An operator: its file is the next item; or it is the second of its kind, and the
\* line is wrong.
LEMMA RedirectionMeaning ==
  ASSUME LineInv, SegmentInv, UnreadInv, KeptInv, LayoutInv, MeaningInv, WellSpaced, Next,
         Closed(buffer, cursor), NEW r, r = NextToken(buffer, cursor), Redirection(r)
  PROVE  /\ pc' # "prompt" => MeaningInv'
         /\ pc' = "prompt" => ~CorrectLine
<1> DEFINE s == ItemsOf(Len(cmds) + 1)
<1>1. /\ pc = "token" /\ pc' \in {"file", "prompt"} /\ HasRoom /\ IsToken(r) /\ IsOp(r)
      /\ pc' = "file" <=> cmd.files[operator'] = Nowhere
      /\ operator' = Text(r.buffer, r.token)
      /\ cmd' = cmd /\ buffer' = r.buffer /\ cursor' = r.next
      /\ UNCHANGED <<typed, newline, warned, cmds>>
  BY DEF Redirection, Take, Fail, lineVars, pipelineVars
<1>2. PICK m \in 0 .. Len(s) : Parsed(s, m) /\ Says(buffer, cmd, s, m) /\ m \in Nat
  BY <1>1, CommandContext
<1>3. Listed(s) /\ Len(s) \in Nat /\ cmd \in CommandSet
  BY <1>1, CommandContext DEF LineInv
<1> DEFINE second == NextToken(r.buffer, r.next)
<1>4. Reached(cursor, s, m)
  BY <1>1, <1>2 DEF Parsed
<1>5. /\ m < Len(s) /\ Text(r.buffer, r.token) = Word(s[m + 1])
      /\ IsOperator(s[m + 1]) /\ Reached(r.next, s, m + 1)
  <2> HIDE DEF s
  <2>1. s = ItemsOf(Len(cmds) + 1)
    BY DEF s
  <2> QED BY <1>1, <1>4, <2>1, ParseContext
<1>6. s' = s
  BY <1>1, SameItems
<1>7. m + 1 \in 1 .. Len(s)
  <2> HIDE DEF s
  <2> QED BY <1>2, <1>3, <1>5
<1>8. ASSUME pc' = "file" PROVE MeaningInv'
  <2>1. \A q \in Pointers(cmd) : Text(buffer', q) = Text(buffer, q)
    BY <1>1, <1>8, DoneStays DEF Parsing
  <2> HIDE DEF s
  <2>2. Says(buffer', cmd, s, m)
    BY <1>2, <1>3, <2>1, SaysKept
  <2>3. Says(buffer, cmd, s, m)'
    BY <1>1, <1>6, <2>2, SameSays
  <2>4. Reached(cursor, s, m + 1)'
    BY <1>1, <1>5, <1>6 DEF Reached
  <2>5. (IsOperator(s[m + 1]) /\ operator = Word(s[m + 1]))'
    BY <1>1, <1>5, <1>6, SameItems
  <2>6. (cmd.files[operator] = Nowhere /\ HasRoom)'
    BY <1>1, <1>8 DEF HasRoom
  <2>7. Parsed(s, m)'
    BY <1>6, <1>7, <1>8, <2>3, <2>4, <2>5, <2>6 DEF Parsed
  <2> QED BY <1>1, <1>2, <1>8, <2>7, StillParsing DEF s
<1>9. ASSUME pc' = "prompt" PROVE ~CorrectLine
  <2>1. Word(s[m + 1]) \in Operators /\ cmd.files[Word(s[m + 1])] # Nowhere
    <3>1. s[m + 1] \in Items
      BY <1>3, <1>7 DEF Listed
    <3> QED BY <1>1, <1>5, <1>9, <3>1, OperatorItems
  <2>2. ~Correct(s)
    <3> HIDE DEF s
    <3> QED BY <1>1, <1>2, <1>3, <1>5, <2>1, OperatorIsWrong DEF HasRoom
  <2>3. Starts(From, Len(cmds) + 1) /\ Len(cmds) + 1 \in Nat
    BY <1>1 DEF LayoutInv, Parsing, Region, LineInv
  <2> QED BY <2>2, <2>3, WrongLine
<1> QED BY <1>1, <1>8, <1>9

\* A file: two items more have been read; or there is none, and the line is wrong.
LEMMA FileMeaning ==
  ASSUME LineInv, SegmentInv, UnreadInv, KeptInv, LayoutInv, MeaningInv, WellSpaced, Next,
         Closed(buffer, cursor), NEW r, r = NextToken(buffer, cursor), FileName(r)
  PROVE  /\ pc' # "prompt" => MeaningInv'
         /\ pc' = "prompt" => ~CorrectLine
<1> DEFINE s == ItemsOf(Len(cmds) + 1)
<1>1. /\ pc = "file" /\ pc' \in {"token", "prompt"}
      /\ pc' = "token" <=> IsToken(r) /\ ~IsOp(r)
      /\ pc' = "token" => cmd' = [cmd EXCEPT !.files[operator] = r.token]
      /\ buffer' = r.buffer /\ cursor' = r.next
      /\ UNCHANGED <<typed, newline, warned, cmds>>
  BY DEF FileName, Take, Fail, lineVars, pipelineVars
<1>2. PICK m \in 0 .. Len(s) : Parsed(s, m) /\ Says(buffer, cmd, s, m) /\ m \in Nat
  BY <1>1, CommandContext
<1>3. Listed(s) /\ Len(s) \in Nat /\ cmd \in CommandSet
  BY <1>1, CommandContext DEF LineInv
<1> DEFINE second == NextToken(r.buffer, r.next)
           k == m + 1
<1>4. /\ k \in 1 .. Len(s) /\ IsOperator(s[k]) /\ operator = Word(s[k])
      /\ cmd.files[operator] = Nowhere /\ HasRoom /\ Reached(cursor, s, k)
  BY <1>1, <1>2 DEF Parsed
<1>5. /\ IsToken(r) => r.token \in Places
      /\ k < Len(s) => Text(r.buffer, r.token) = Word(s[k + 1]) /\ (IsOp(r) <=> IsOperator(s[k + 1])) /\ Reached(r.next, s, k + 1)
      /\ IsToken(r) <=> k < Len(s)
  <2> HIDE DEF s
  <2>1. s = ItemsOf(Len(cmds) + 1) /\ k \in 0 .. Len(s)
    BY <1>2, <1>3, <1>4 DEF s
  <2> HIDE DEF k
  <2> QED BY <1>1, <1>4, <2>1, ParseContext
<1>6. s' = s
  BY <1>1, SameItems
<1>7. k + 1 = m + 2
  BY <1>2
<1>8. ASSUME pc' = "token" PROVE MeaningInv'
  <2>1. \A q \in Pointers(cmd) : Text(buffer', q) = Text(buffer, q)
    BY <1>1, <1>8, DoneStays DEF Parsing
  <2> HIDE DEF s
  <2>2. Says(buffer', cmd, s, m)
    BY <1>2, <1>3, <2>1, SaysKept
  <2>3. /\ m + 1 < Len(s) /\ ~IsOperator(s[m + 2]) /\ r.token \in Places /\ Text(buffer', r.token) = Word(s[m + 2])
        /\ Reached(r.next, s, m + 2)
    BY <1>1, <1>5, <1>7, <1>8
  <2>4. Says(buffer', cmd', s, m + 2)
    BY <1>1, <1>3, <1>4, <1>8, <2>2, <2>3, SaysFile DEF HasRoom
  <2>5. Says(buffer, cmd, s, m + 2)'
    BY <1>1, <1>6, <2>4, SameSays
  <2>6. Reached(cursor, s, m + 2)'
    BY <1>1, <1>6, <2>3 DEF Reached
  <2>7. Parsed(s, m + 2)'
    BY <1>8, <2>5, <2>6 DEF Parsed
  <2>8. m + 2 \in 0 .. Len(s)
    BY <1>2, <1>3, <2>3
  <2> QED BY <1>1, <1>8, <2>7, <2>8, StillParsing DEF s
<1>9. ASSUME pc' = "prompt" PROVE ~CorrectLine
  <2>1. m < Len(s) /\ (m + 1 = Len(s) \/ IsOperator(s[m + 2]))
    <3> HIDE DEF s
    <3>1. CASE k < Len(s)
      <4>1. IsOperator(s[k + 1])
        BY <1>1, <1>5, <1>9, <3>1
      <4> QED BY <1>2, <1>3, <1>7, <3>1, <4>1
    <3>2. CASE ~(k < Len(s))
      BY <1>2, <1>3, <1>4, <3>2
    <3> QED BY <3>1, <3>2
  <2>2. ~Correct(s)
    <3> HIDE DEF s
    <3> QED BY <1>2, <1>3, <1>4, <2>1, OperatorIsWrong DEF HasRoom
  <2>3. Starts(From, Len(cmds) + 1) /\ Len(cmds) + 1 \in Nat
    BY <1>1 DEF LayoutInv, Parsing, Region, LineInv
  <2> QED BY <2>2, <2>3, WrongLine
<1> QED BY <1>1, <1>8, <1>9

\* The end of a command: it is complete, and what was lost of it is reported.
LEMMA EndMeaning ==
  ASSUME LineInv, SegmentInv, UnreadInv, KeptInv, LayoutInv, MeaningInv, WellSpaced, Next,
         Closed(buffer, cursor), NEW r, r = NextToken(buffer, cursor), EndCommand(r)
  PROVE  MeaningInv' /\ pc' # "prompt" /\ UNCHANGED error
<1> SUFFICES ASSUME NEW n, n = Len(cmds) + 1 PROVE MeaningInv' /\ pc' # "prompt" /\ UNCHANGED error
  OBVIOUS
<1> DEFINE s == ItemsOf(n)
           second == NextToken(r.buffer, r.next)
<1>1. pc = "token" /\ (~IsToken(r) \/ ~HasRoom)
  BY DEF EndCommand
<1>2. PICK m \in 0 .. Len(s) : Parsed(s, m) /\ Says(buffer, cmd, s, m) /\ m \in Nat
  BY <1>1, CommandContext
<1>3. Listed(s) /\ Len(s) \in Nat /\ cmd \in CommandSet /\ cmds \in Seq(CommandSet)
  BY <1>1, CommandContext DEF LineInv
<1>4. Reached(cursor, s, m)
  BY <1>1, <1>2 DEF Parsed
<1>5. /\ m < Len(s) => IsToken(r) /\ (IsToken(second) <=> m + 1 < Len(s))
      /\ ~(m < Len(s)) => ~IsToken(r) /\ ~IsToken(second)
      /\ ~r.open
  <2> HIDE DEF s
  <2>1. s = ItemsOf(Len(cmds) + 1)
    BY DEF s
  <2> QED BY <1>1, <1>4, <2>1, ParseContext
<1>6. /\ pc' \in {"segment", "validate"} /\ cmds' = Append(cmds, cmd) /\ cmd' = cmd
      /\ warned' <=> warned \/ (~HasRoom /\ IsToken(second))
      /\ UNCHANGED <<typed, newline, error>>
  BY <1>5 DEF EndCommand, CommandDone, lineVars
<1>7. m = Len(s) \/ Len(cmd.args) = MaxArgs - 1
  <2>1. CASE HasRoom
    BY <1>1, <1>2, <1>3, <1>5, <2>1
  <2>2. CASE ~HasRoom
    <3>1. Len(cmd.args) \in Nat /\ Len(cmd.args) <= MaxArgs - 1 /\ MaxArgs \in Nat
      BY <1>3, SizeAssumption DEF CommandSet
    <3> QED BY <2>2, <3>1 DEF HasRoom
  <2> QED BY <2>1, <2>2
<1>8. Cardinality(Read(s)) = m
  <2> HIDE DEF s
  <2> QED BY <1>2, <1>3, <1>7, CompleteFacts
<1>9. (~HasRoom /\ IsToken(second)) <=> IsCut(s)
  <2>1. IsCut(s) <=> Len(s) >= m + 2
    BY <1>8 DEF IsCut
  <2> HIDE DEF s, second
  <2>2. HasRoom => m = Len(s)
    BY <1>1, <1>2, <1>3, <1>5
  <2> QED BY <1>2, <1>3, <1>5, <1>7, <2>1, <2>2
<1>10. /\ Len(cmds) \in Nat /\ Len(cmds') = n /\ n \in Nat /\ 1 .. n = 1 .. Len(cmds) \cup {n} /\ cmds'[n] = cmd
       /\ \A k \in 1 .. Len(cmds) : cmds'[k] = cmds[k]
  <2> HIDE DEF CommandSet
  <2>1. Len(cmds) \in Nat
    BY <1>3
  <2> QED BY <1>3, <1>6, <2>1
<1>11. Parsing
  BY <1>1 DEF Parsing
<1>12. /\ \A k \in 1 .. Len(cmds) : Complete(cmds[k], ItemsOf(k))'
       /\ \A q \in Pointers(cmd) : Text(buffer', q) = Text(buffer, q)
  BY <1>1, <1>6, <1>10, <1>11, DoneStays
<1>13. Complete(cmds[n], ItemsOf(n))'
  <2>1. Complete(cmd, s)
    BY <1>2, <1>7 DEF Complete
  <2>2. Complete(cmd, ItemsOf(n))'
    BY <1>3, <1>6, <1>12, <2>1, CompleteKept
  <2>3. cmds'[n] = cmd'
    BY <1>6, <1>10
  <2> QED BY <2>2, <2>3
<1>14. \A k : IsCut(ItemsOf(k))' <=> IsCut(ItemsOf(k))
  BY <1>6, SameCut
<1>15. warned <=> \E k \in 1 .. Len(cmds) : IsCut(ItemsOf(k))
  BY <1>11 DEF MeaningInv, MeaningParts
<1>16. warned' <=> \E k \in 1 .. n : IsCut(ItemsOf(k))'
  BY <1>6, <1>9, <1>10, <1>14, <1>15
<1>17. MeaningParts'
  BY <1>6, <1>10, <1>12, <1>13, <1>16 DEF MeaningParts
<1> QED BY <1>6, <1>17 DEF MeaningInv, MeaningParts

-----------------------------------------------------------------------------
(* Errors *)

\* A well-spaced line is called wrong only if it is wrong.
ErrorInv == WellSpaced /\ error \in SyntaxErrors => ~CorrectLine

\* A segment that is refused is empty, or one too many.
LEMMA SegmentError ==
  ASSUME LineInv, SegmentInv, UnreadInv, LayoutInv, WellSpaced, SegmentFails
  PROVE  ~CorrectLine
<1> DEFINE n == Len(cmds) + 1
<1>1. pc = "segment" /\ Region(segment, SegmentEnd, n) /\ \A i \in segment .. SegmentStart - 1 : typed[i] = Blank
  BY SegmentRegion DEF SegmentFails
<1>2. Len(cmds) \in Nat /\ Starts(segment, n)
  BY <1>1 DEF LineInv, Region
<1>3. CASE SegmentStart = SegmentEnd
  <2>1. ~Correct(ItemsOf(n))
    BY <1>1, <1>3, EmptyIsWrong
  <2> QED BY <1>2, <2>1, WrongLine
<1>4. CASE Len(cmds) = MaxCmds
  <2>1. Cardinality({i \in Pipes : i < segment}) = n - 1
    BY <1>2 DEF Starts
  <2>2. Cardinality({i \in Pipes : i < segment}) <= Cardinality(Pipes) /\ Cardinality(Pipes) \in Nat
    BY PipesBelow
  <2>3. ~(Cardinality(Pipes) < MaxCmds)
    BY <1>2, <1>4, <2>1, <2>2
  <2> QED BY <2>3 DEF CorrectLine
<1> QED BY <1>3, <1>4 DEF SegmentFails

\* A line that was parsed and is refused has a command without a name.
LEMMA RejectError ==
  ASSUME LineInv, LayoutInv, MeaningInv, WellSpaced, Reject, error' \in SyntaxErrors
  PROVE  ~CorrectLine
<1>1. pc = "validate" /\ \E k \in DOMAIN cmds : ~Named(cmds[k])
  BY DEF Reject, Fail, SyntaxErrors
<1>2. Parsing
  BY <1>1 DEF Parsing
<1>3. CommandsShape
  BY CommandsFacts
<1>4. PICK k \in 1 .. Len(cmds) : ~Named(cmds[k])
  BY <1>1, <1>3 DEF CommandsShape
<1>5. cmds[k] \in CommandSet /\ Complete(cmds[k], ItemsOf(k)) /\ Listed(ItemsOf(k))
  BY <1>2, <1>3, ListedItems DEF CommandsShape, MeaningInv, MeaningParts
<1>6. ~Correct(ItemsOf(k))
  BY <1>4, <1>5, CompleteFacts DEF Complete
<1>7. Len(cmds) = Cardinality(Pipes) + 1
  BY <1>1, <1>2 DEF LayoutInv
<1> QED BY <1>4, <1>6, <1>7 DEF CorrectLine

-----------------------------------------------------------------------------
(* The two invariants are kept *)

LEMMA SameErrors ==
  ASSUME UNCHANGED <<typed, newline>>, ErrorInv, error' = error \/ (WellSpaced /\ error' \in SyntaxErrors => ~CorrectLine)
  PROVE  ErrorInv'
BY SameSpacing, SameMeaning DEF ErrorInv, SyntaxErrors

LEMMA NoErrors == ASSUME error' \in {"", "Input too long."} PROVE ErrorInv'
<1>1. error' \notin SyntaxErrors'
  BY DEF SyntaxErrors
<1> QED BY <1>1 DEF ErrorInv

LEMMA ParseMeaning ==
  ASSUME LineInv, SegmentInv, UnreadInv, KeptInv, LayoutInv, MeaningInv, ErrorInv, ParseCommand
  PROVE  MeaningInv' /\ ErrorInv'
<1> DEFINE r == NextToken(buffer, cursor)
<1>1. Next /\ Closed(buffer, cursor) /\ (Argument(r) \/ Redirection(r) \/ FileName(r) \/ EndCommand(r))
  BY DEF ParseCommand, Next
<1>2. UNCHANGED <<typed, newline>>
  BY <1>1 DEF Argument, Redirection, FileName, EndCommand, lineVars
<1>3. WellSpaced' <=> WellSpaced
  BY <1>2, SameSpacing
<1>4. CASE ~WellSpaced
  BY <1>3, <1>4 DEF MeaningInv, MeaningParts, ErrorInv
<1>5. CASE WellSpaced
  <2> HIDE DEF r
  <2> SUFFICES ASSUME NEW t, t = NextToken(buffer, cursor), Argument(t) \/ Redirection(t) \/ FileName(t) \/ EndCommand(t)
               PROVE  MeaningInv' /\ ErrorInv'
    BY <1>1 DEF r
  <2>1. CASE Argument(t)
    <3>1. MeaningInv' /\ error' = error
      BY <1>1, <1>5, <2>1, ArgumentMeaning DEF Argument
    <3> QED BY <1>2, <3>1, SameErrors
  <2>2. CASE Redirection(t)
    <3>1. (pc' # "prompt" => MeaningInv') /\ (pc' = "prompt" => ~CorrectLine)
      BY <1>1, <1>5, <2>2, RedirectionMeaning
    <3>2. error' = error \/ pc' = "prompt"
      BY <2>2 DEF Redirection, Fail
    <3>3. pc' = "prompt" => MeaningInv'
      BY DEF MeaningInv, MeaningParts, Parsing
    <3> QED BY <1>2, <3>1, <3>2, <3>3, SameErrors
  <2>3. CASE FileName(t)
    <3>1. (pc' # "prompt" => MeaningInv') /\ (pc' = "prompt" => ~CorrectLine)
      BY <1>1, <1>5, <2>3, FileMeaning
    <3>2. error' = error \/ pc' = "prompt"
      BY <2>3 DEF FileName, Fail
    <3>3. pc' = "prompt" => MeaningInv'
      BY DEF MeaningInv, MeaningParts, Parsing
    <3> QED BY <1>2, <3>1, <3>2, <3>3, SameErrors
  <2>4. CASE EndCommand(t)
    <3>1. MeaningInv' /\ error' = error
      BY <1>1, <1>5, <2>4, EndMeaning
    <3> QED BY <1>2, <3>1, SameErrors
  <2> QED BY <2>1, <2>2, <2>3, <2>4
<1> QED BY <1>4, <1>5

LEMMA AcceptMeaning ==
  ASSUME LineInv, SegmentInv, UnreadInv, KeptInv, LayoutInv, MeaningInv, ErrorInv, Accept
  PROVE  MeaningInv' /\ ErrorInv'
<1> USE DEF lineVars, pipelineVars, commandVars
<1>1. pc = "validate" /\ pc' = "run" /\ UNCHANGED <<typed, newline, cmds, warned, error>>
  BY DEF Accept
<1>2. ErrorInv'
  BY <1>1, SameErrors
<1>3. WellSpaced' <=> WellSpaced
  BY <1>1, SameSpacing
<1>4. ASSUME WellSpaced PROVE MeaningParts'
  <2>1. Next /\ Parsing
    BY <1>1 DEF Next, Parsing
  <2>2. \A n \in 1 .. Len(cmds) : Complete(cmds[n], ItemsOf(n))'
    BY <1>1, <1>4, <2>1, DoneStays
  <2>3. warned <=> \E n \in 1 .. Len(cmds) : IsCut(ItemsOf(n))
    BY <1>4, <2>1 DEF MeaningInv, MeaningParts
  <2>4. (warned <=> \E n \in 1 .. Len(cmds) : IsCut(ItemsOf(n)))'
    BY <1>1, <2>3, SameCut
  <2>5. \A n \in 1 .. Len(cmds) : Named(cmds[n])
    BY CommandsFacts DEF Accept, CommandsShape
  <2>6. \A n \in 1 .. Len(cmds) : Named(cmds[n])'
    BY <1>1, <2>5
  <2> QED BY <1>1, <2>2, <2>4, <2>6 DEF MeaningParts
<1> QED BY <1>2, <1>3, <1>4 DEF MeaningInv, MeaningParts

LEMMA MeaningStep ==
  ASSUME LineInv, LineInv', SegmentInv, UnreadInv, KeptInv, LayoutInv, MeaningInv, ErrorInv, Next
  PROVE  MeaningInv' /\ ErrorInv'
<1> USE DEF lineVars, pipelineVars, commandVars
<1>1. CASE ReadLine
  <2>1. error' = ""
    BY <1>1 DEF ReadLine
  <2> QED BY <1>1, <2>1, ReadLineMeaning, NoErrors
<1>2. CASE ReadTooLong
  <2>1. error' = "Input too long." /\ pc' = "prompt"
    BY <1>2 DEF ReadTooLong
  <2> QED BY <2>1, NoErrors DEF MeaningInv, MeaningParts, Parsing
<1>3. CASE SplitSegment
  <2>1. UNCHANGED <<typed, newline, error>>
    BY <1>3 DEF SplitSegment
  <2>2. WellSpaced' <=> WellSpaced
    BY <2>1, SameSpacing
  <2>3. MeaningInv'
    BY <1>3, <2>2, SplitMeaning DEF MeaningInv, MeaningParts
  <2> QED BY <2>1, <2>3, SameErrors
<1>4. CASE SegmentFails
  <2>1. UNCHANGED <<typed, newline>> /\ pc' = "prompt"
    BY <1>4 DEF SegmentFails, Fail
  <2>2. WellSpaced => ~CorrectLine
    BY <1>4, SegmentError
  <2> QED BY <2>1, <2>2, SameErrors DEF MeaningInv, MeaningParts, Parsing
<1>5. CASE Reject
  <2>1. UNCHANGED <<typed, newline>> /\ pc' = "prompt"
    BY <1>5 DEF Reject, Fail
  <2>2. WellSpaced /\ error' \in SyntaxErrors => ~CorrectLine
    BY <1>5, RejectError
  <2> QED BY <2>1, <2>2, SameErrors DEF MeaningInv, MeaningParts, Parsing
<1>6. CASE Overrun \/ EndOfInput \/ Run \/ Exited
  <2>1. UNCHANGED <<typed, newline, error>> /\ pc' \in {"prompt", "exited", "overrun"}
    BY <1>6 DEF Overrun, EndOfInput, Run, Exited, vars, lineVars
  <2> QED BY <2>1, SameErrors DEF MeaningInv, MeaningParts, Parsing
<1> QED BY <1>1, <1>2, <1>3, <1>4, <1>5, <1>6, ParseMeaning, AcceptMeaning DEF Next

LEMMA MeaningStays == ASSUME MeaningInv, ErrorInv, UNCHANGED vars PROVE MeaningInv' /\ ErrorInv'
<1>1. UNCHANGED <<pc, buffer, error, warned, typed, newline, cmds, cursor, cmd, operator>>
  BY DEF vars, lineVars, pipelineVars, commandVars
<1>2. (WellSpaced' <=> WellSpaced) /\ ErrorInv'
  BY <1>1, SameSpacing, SameErrors
<1>3. ASSUME WellSpaced, Parsing PROVE MeaningParts'
  <2>1. /\ pc \in {"token", "file"} => \E m \in 0 .. Len(ItemsOf(Len(cmds) + 1)) : Parsed(ItemsOf(Len(cmds) + 1), m)
        /\ \A n \in 1 .. Len(cmds) : Complete(cmds[n], ItemsOf(n))
        /\ warned <=> \E n \in 1 .. Len(cmds) : IsCut(ItemsOf(n))
        /\ pc = "run" => \A n \in 1 .. Len(cmds) : Named(cmds[n])
    BY <1>3 DEF MeaningInv, MeaningParts
  <2>2. \A n : ItemsOf(n)' = ItemsOf(n) /\ (IsCut(ItemsOf(n))' <=> IsCut(ItemsOf(n)))
    BY <1>1, SameItems, SameCut
  <2>3. \A s, m : Parsed(s, m)' <=> Parsed(s, m)
    BY <1>1, SameItems, SameSays DEF Parsed, Reached, HasRoom
  <2>4. \A n : Complete(cmds[n], ItemsOf(n))' <=> Complete(cmds[n], ItemsOf(n))
    BY <1>1, <2>2, SameSays DEF Complete
  <2>5. ItemsOf(Len(cmds) + 1)' = ItemsOf(Len(cmds) + 1)
    BY <1>1, <2>2
  <2>6. (\E m \in 0 .. Len(ItemsOf(Len(cmds) + 1)) : Parsed(ItemsOf(Len(cmds) + 1), m))'
          <=> \E m \in 0 .. Len(ItemsOf(Len(cmds) + 1)) : Parsed(ItemsOf(Len(cmds) + 1), m)
    BY <2>3, <2>5
  <2> QED BY <1>1, <2>1, <2>2, <2>4, <2>6 DEF MeaningParts, Named
<1>4. Parsing' <=> Parsing
  BY <1>1 DEF Parsing
<1> QED BY <1>2, <1>3, <1>4 DEF MeaningInv, MeaningParts

LEMMA MeaningInvCorrect == Spec => [](MeaningInv /\ ErrorInv)
<1>1. Init => MeaningInv /\ ErrorInv
  BY DEF Init, MeaningInv, MeaningParts, Parsing, ErrorInv, SyntaxErrors
<1>2. LineInv /\ LineInv' /\ TokenInv /\ LayoutInv /\ MeaningInv /\ ErrorInv /\ [Next]_vars => (MeaningInv /\ ErrorInv)'
  BY MeaningStep, MeaningStays DEF TokenInv
<1> QED BY LineCorrect, TokenInvCorrect, LayoutCorrect, <1>1, <1>2, PTL DEF Spec

\* A line whose operators are set off by blanks is run only if it is correct,
\* and then as the commands it means, in their order, with their arguments
\* without quotes and their files; it is called wrong only if it is wrong; and
\* a command is cut only at the limit of arguments, which is reported if and
\* only if two tokens or more are lost (parser.c:3, parser.c:309): for arrays,
\* commands and pipelines of any size, whatever the array held, whatever has
\* been typed before.
THEOREM MeaningCorrect == Spec => []MeansWhatItSays
<1>1. LineInv /\ LayoutInv /\ MeaningInv /\ ErrorInv => MeansWhatItSays
  <2> SUFFICES ASSUME LineInv, LayoutInv, MeaningInv, WellSpaced, pc = "run"
               PROVE  /\ CorrectLine
                      /\ Len(cmds) = Cardinality(Pipes) + 1
                      /\ \A n \in DOMAIN cmds : Understood(cmds[n]) = Meaning(ItemsOf(n))
                      /\ warned <=> \E n \in DOMAIN cmds : Len(ItemsOf(n)) >= Cardinality(Read(ItemsOf(n))) + 2
    BY DEF MeansWhatItSays, ErrorInv
  <2>1. Parsing
    BY DEF Parsing
  <2>2. CommandsShape /\ Len(cmds) <= MaxCmds /\ DOMAIN cmds = 1 .. Len(cmds) /\ Len(cmds) \in Nat
    BY CommandsFacts DEF CommandsShape, LineInv
  <2>3. Len(cmds) = Cardinality(Pipes) + 1
    BY <2>1 DEF LayoutInv
  <2>4. ASSUME NEW n \in 1 .. Len(cmds) PROVE Understood(cmds[n]) = Meaning(ItemsOf(n)) /\ Correct(ItemsOf(n))
    <3>1. Complete(cmds[n], ItemsOf(n)) /\ Named(cmds[n]) /\ cmds[n] \in CommandSet /\ Listed(ItemsOf(n))
      BY <2>1, <2>2, ListedItems DEF MeaningInv, MeaningParts, CommandsShape
    <3> QED BY <3>1, CompleteFacts DEF Complete
  <2>5. Cardinality(Pipes) < MaxCmds
    <3>1. Cardinality(Pipes) \in Nat /\ MaxCmds \in Nat
      BY PipesBelow, SizeAssumption
    <3> QED BY <2>2, <2>3, <3>1
  <2>6. warned <=> \E n \in 1 .. Len(cmds) : IsCut(ItemsOf(n))
    BY <2>1 DEF MeaningInv, MeaningParts
  <2>7. CorrectLine
    BY <2>3, <2>4, <2>5 DEF CorrectLine
  <2> QED BY <2>2, <2>3, <2>4, <2>6, <2>7 DEF IsCut
<1> QED BY LineCorrect, LayoutCorrect, MeaningInvCorrect, <1>1, PTL
==============================================================================
