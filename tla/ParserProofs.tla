---------------------------- MODULE ParserProofs ----------------------------
(***************************************************************************)
(* Theorems about Parser, for an array, a command and a pipeline of any    *)
(* size and whatever is typed: the types, the turns of the loops, and the  *)
(* tokens of a line: to which command they belong, that they keep what     *)
(* they say, and what of a line is in none.                                *)
(***************************************************************************)
EXTENDS Parser, FiniteSetTheorems, WellFoundedInduction, TLAPS

-----------------------------------------------------------------------------
(* Strings in the array *)

LEMMA NatMin ==
  ASSUME NEW S, S \subseteq Nat, S # {}
  PROVE  Min(S) \in S /\ \A n \in S : Min(S) <= n
<1>1. IsWellFoundedOn(OpToRel(<, Nat), Nat)
  BY NatLessThanWellFounded
<1>2. PICK m \in S : \A n \in S : ~ (<<n, m>> \in OpToRel(<, Nat))
  BY <1>1, WFMin
<1>3. ASSUME NEW n \in S PROVE m <= n
  <2>1. ~(n < m)
    BY <1>2 DEF OpToRel
  <2> QED BY <2>1
<1> QED BY <1>3 DEF Min

LEMMA PlaceFacts ==
  /\ MaxInput \in Nat /\ MaxInput >= 3
  /\ Beyond = MaxInput + 1
  /\ Nul \in Chars /\ Nul # Blank
  /\ \A b : Char(b, Beyond) = Nul
BY SizeAssumption DEF Beyond, Chars, Nul, Blank, Char

\* What FirstOf finds is the first place with such a character.
LEMMA FirstOfFacts ==
  ASSUME NEW b, NEW i \in Places, NEW S, Nul \in S
  PROVE  /\ FirstOf(b, i, S) \in i .. Beyond
         /\ \A z \in i .. Beyond : Char(b, z) \in S => FirstOf(b, i, S) <= z
         /\ Char(b, FirstOf(b, i, S)) \in S
         /\ \A j \in i .. FirstOf(b, i, S) - 1 : Char(b, j) \notin S
<1> DEFINE T == {j \in i .. Beyond : Char(b, j) \in S}
<1>1. i \in Nat /\ Beyond \in Nat /\ i <= Beyond
  BY PlaceFacts DEF Places
<1>2. T \subseteq Nat /\ Beyond \in T
  BY <1>1, PlaceFacts
<1>3. Min(T) \in T /\ \A n \in T : Min(T) <= n
  BY <1>2, NatMin
<1>4. FirstOf(b, i, S) = Min(T)
  BY DEF FirstOf
<1> DEFINE m == Min(T)
<1>5. m \in T /\ \A n \in T : m <= n
  BY <1>3
<1>6. ASSUME NEW j \in i .. m - 1 PROVE Char(b, j) \notin S
  <2> HIDE DEF m
  <2>1. m \in i .. Beyond
    BY <1>5
  <2>2. j \in i .. Beyond /\ ~(m <= j)
    BY <1>1, <2>1
  <2> QED BY <1>5, <2>2
<1> HIDE DEF m
<1>7. m \in i .. Beyond /\ Char(b, m) \in S /\ \A z \in i .. Beyond : Char(b, z) \in S => m <= z
  BY <1>5
<1> QED BY <1>4, <1>6, <1>7 DEF m

-----------------------------------------------------------------------------
(* next_token *)

\* What a call that starts at c returns: it goes on in the array, further if
\* it finds a token, and leaves a 0 after it if it finds none.
Good(r, c) ==
  /\ r.next \in c .. Beyond
  /\ IsToken(r) \/ r.open \/ Closed(r.buffer, r.next)
  /\ r.buffer \in [1 .. MaxInput -> Chars]
  /\ IsToken(r) => r.token \in c .. r.next - 1 /\ \E e \in r.token .. r.next : Char(r.buffer, e) = Nul
  /\ r.used \subseteq Places
  /\ r.open => ~IsToken(r)

\* It stays in the string that begins at c in b and ends with the 0 at e: it
\* writes only in it, to its last place only a 0, and only an operator takes
\* the cursor over the 0.
Within(r, b, e) ==
  /\ \A i \in 1 .. MaxInput : r.buffer[i] # b[i] => i < e /\ (i = e - 1 => r.buffer[i] = Nul)
  /\ IsToken(r) => r.token < e
  /\ r.next > e => r.next = e + 1 /\ IsToken(r) /\ Char(b, e - 1) \in {"<", ">"}

\* What it writes lies between the cursors, unless a quote is open.
Local(r, b, c) ==
  /\ \A i \in 1 .. MaxInput : r.buffer[i] # b[i] => c <= i /\ (r.open \/ i < r.next)
  /\ \A e \in c .. Beyond : Char(b, e) = Nul => Within(r, b, e)

LEMMA OperatorTokenGood ==
  ASSUME NEW b \in [1 .. MaxInput -> Chars], NEW c \in Places, NEW p \in c .. MaxInput,
         NEW n \in {1, 2}, p + n <= MaxInput, \A j \in c .. p + n - 1 : b[j] # Nul, b[p + n - 1] \in {"<", ">"}
  PROVE  Good(OperatorToken(b, p, n), c) /\ Local(OperatorToken(b, p, n), b, c)
<1> DEFINE r == OperatorToken(b, p, n)
           d == Cut(b, {p + n})
<1>1. /\ r.next = p + n + 1 /\ r.token = p /\ r.buffer = d /\ r.used = p .. p + n - 1 /\ r.open = FALSE
      /\ c \in Nat /\ c >= 1 /\ p \in Nat /\ p >= c /\ MaxInput \in Nat
  BY PlaceFacts DEF OperatorToken, Result, Places
<1>2. d \in [1 .. MaxInput -> Chars] /\ d[p + n] = Nul
      /\ \A i \in 1 .. MaxInput : d[i] # b[i] => i = p + n /\ b[i] # Nul
  BY <1>1, PlaceFacts DEF Cut
<1> HIDE DEF r, d
<1>3. p + n \in r.token .. r.next /\ Char(r.buffer, p + n) = Nul
  BY <1>1, <1>2 DEF Char
<1>4. Good(r, c)
  <2>1. IsToken(r)
    BY <1>1 DEF IsToken, Nowhere
  <2> QED BY <1>1, <1>2, <1>3, <2>1, PlaceFacts DEF Good, Places
<1>5. ASSUME NEW e \in c .. Beyond, Char(b, e) = Nul PROVE Within(r, b, e)
  <2>1. e >= p + n /\ p + n - 1 \in 1 .. MaxInput
    <3>1. p \in Nat /\ p >= 1 /\ n \in Nat /\ c \in Nat /\ e \in Nat /\ e >= c /\ MaxInput \in Nat
      BY <1>1, PlaceFacts DEF Places
    <3> QED BY <1>1, <1>5, <3>1, PlaceFacts DEF Char
  <2>2. r.next > e => e = p + n /\ Char(b, e - 1) \in {"<", ">"}
    BY <1>1, <2>1, PlaceFacts DEF Char
  <2>3. IsToken(r)
    BY <1>1 DEF IsToken, Nowhere
  <2>4. \A i \in 1 .. MaxInput : r.buffer[i] # b[i] => i < e /\ r.buffer[i] = Nul
    <3>1. ASSUME NEW i \in 1 .. MaxInput, r.buffer[i] # b[i] PROVE i < e /\ r.buffer[i] = Nul
      <4>1. i = p + n /\ b[i] # Nul
        BY <1>1, <1>2, <3>1
      <4>2. e # p + n
        BY <1>1, <1>5, <4>1 DEF Char
      <4>3. r.buffer[i] = Nul
        BY <1>1, <1>2, <4>1
      <4> QED BY <1>1, <2>1, <4>1, <4>2, <4>3, PlaceFacts
    <3> QED BY <3>1
  <2> QED BY <1>1, <2>1, <2>2, <2>3, <2>4, PlaceFacts DEF Within
<1> QED BY <1>1, <1>2, <1>4, <1>5 DEF Local, r

\* Every element of a finite set of numbers has its rank.
LEMMA RankFacts ==
  ASSUME NEW S, S \subseteq Nat, IsFiniteSet(S), NEW n \in Nat, n < Cardinality(S)
  PROVE  \E i \in S : Cardinality({j \in S : j < i}) = n
<1> DEFINE Ranked(k) == \E i \in S : Cardinality({j \in S : j < i}) = k
           bad == {k \in Nat : k < Cardinality(S) /\ ~Ranked(k)}
<1> SUFFICES ASSUME bad # {} PROVE FALSE
  OBVIOUS
<1> DEFINE m == Min(bad)
<1>1. m \in bad /\ \A k \in bad : m <= k
  <2>1. bad \subseteq Nat
    OBVIOUS
  <2> HIDE DEF bad
  <2> QED BY <2>1, NatMin
<1> HIDE DEF m
<1>2. Cardinality(S) \in Nat /\ m \in Nat /\ m < Cardinality(S) /\ ~Ranked(m)
  BY <1>1, FS_CardinalityType
<1>3. CASE m = 0
  <2>1. S # {}
    BY <1>2, <1>3, FS_EmptySet
  <2>2. Min(S) \in S /\ {j \in S : j < Min(S)} = {}
    <3> DEFINE l == Min(S)
    <3>1. l \in S /\ \A k \in S : l <= k
      BY <2>1, NatMin
    <3> HIDE DEF l
    <3>2. \A k \in S : k \in Nat /\ l \in Nat /\ ~(k < l)
      BY <3>1
    <3>3. {j \in S : j < l} = {}
      BY <3>2
    <3> QED BY <3>1, <3>3 DEF l
  <2> QED BY <1>2, <1>3, <2>2, FS_EmptySet
<1>4. CASE m # 0
  <2>1. m - 1 \in Nat /\ m - 1 \notin bad
    BY <1>1, <1>2, <1>4
  <2>2. PICK i \in S : Cardinality({j \in S : j < i}) = m - 1
    BY <1>2, <2>1
  <2> DEFINE low == {j \in S : j < i}
             high == {j \in S : j > i}
  <2>3. IsFiniteSet(low) /\ IsFiniteSet(low \cup {i}) /\ Cardinality(low \cup {i}) = m
    <3>1. IsFiniteSet(low)
      BY FS_Subset
    <3>2. i \notin low
      OBVIOUS
    <3> HIDE DEF low
    <3>3. IsFiniteSet(low \cup {i}) /\ Cardinality(low \cup {i}) = Cardinality(low) + 1
      BY <3>1, <3>2, FS_AddElement
    <3>4. Cardinality(low) = m - 1
      BY <2>2 DEF low
    <3> QED BY <1>2, <3>1, <3>3, <3>4
  <2>4. high # {}
    <3> SUFFICES ASSUME high = {} PROVE FALSE
      OBVIOUS
    <3>1. \A j \in S : j \in Nat /\ i \in Nat /\ (j < i \/ j = i)
      OBVIOUS
    <3>2. S = low \cup {i}
      BY <3>1
    <3> HIDE DEF low
    <3> QED BY <1>2, <2>3, <3>2
  <2>5. Min(high) \in high /\ \A k \in high : Min(high) <= k
    <3>1. high \subseteq Nat
      OBVIOUS
    <3> HIDE DEF high
    <3> QED BY <2>4, <3>1, NatMin
  <2> DEFINE h == Min(high)
  <2> HIDE DEF h
  <2>6. h \in S /\ h > i /\ \A k \in S : k > i => h <= k
    BY <2>5 DEF h
  <2>7. {j \in S : j < h} = low \cup {i}
    <3>1. \A j \in S : j \in Nat /\ i \in Nat /\ h \in Nat /\ (j < h <=> j < i \/ j = i)
      BY <2>6
    <3> QED BY <3>1
  <2> QED BY <1>2, <2>3, <2>6, <2>7
<1> QED BY <1>3, <1>4

LEMMA WordTokenGood ==
  ASSUME NEW b \in [1 .. MaxInput -> Chars], NEW c \in Places, NEW p \in c .. MaxInput - 1, Closed(b, p),
         \A j \in c .. p : b[j] # Nul
  PROVE  Good(WordToken(b, c, p), c) /\ Local(WordToken(b, c, p), b, c)
<1> DEFINE nul == FirstOf(b, p, {Nul})
           quote == Quoting(b, p, nul - 1)
           Ends(i) == quote[i] = "none" /\ (Char(b, i) = Blank \/ OperatorAt(b, i) > 0)
           ends == {i \in p .. nul - 1 : Ends(i)} \cup {nul}
           end == Min(ends)
           Kept(i) == b[i] \notin Quotes \/ quote[i] \notin {"none", b[i]}
           kept == {i \in p .. end - 1 : Kept(i)}
           size == Cardinality(kept)
           Nth(k) == CHOOSE i \in kept : Cardinality({j \in kept : j < i}) = k
           moved == [i \in 1 .. MaxInput |-> IF i \in p .. p + size - 1 THEN b[Nth(i - p)] ELSE b[i]]
<1>1. c \in Nat /\ c >= 1 /\ p \in Nat /\ p >= c /\ p < MaxInput /\ MaxInput \in Nat
  BY PlaceFacts DEF Places
<1>2. nul \in p + 1 .. MaxInput /\ b[nul] = Nul /\ \A j \in p .. nul - 1 : b[j] # Nul
  <2>1. p \in Places
    BY <1>1, PlaceFacts DEF Places
  <2>2. nul \in p .. Beyond /\ Char(b, nul) \in {Nul}
        /\ \A j \in p .. nul - 1 : Char(b, j) \notin {Nul}
        /\ \A z \in p .. Beyond : Char(b, z) \in {Nul} => nul <= z
    BY <2>1, FirstOfFacts
  <2>3. PICK z \in p .. MaxInput : b[z] = Nul
    BY DEF Closed
  <2> HIDE DEF nul
  <2>4. nul # p /\ nul <= z
    BY <1>1, <2>2, <2>3, PlaceFacts DEF Char
  <2>5. nul \in p + 1 .. MaxInput
    BY <1>1, <2>2, <2>3, <2>4, PlaceFacts
  <2> QED BY <1>1, <2>2, <2>5 DEF Char
<1> HIDE DEF nul
<1>3. end \in p .. nul
  <2>1. ends \subseteq Nat /\ ends # {} /\ ends \subseteq p .. nul
    BY <1>1, <1>2
  <2> HIDE DEF ends
  <2> QED BY <2>1, NatMin
<1> HIDE DEF ends
<1>4. size \in 0 .. end - p /\ IsFiniteSet(kept)
  <2> DEFINE z == end - 1
  <2>1. p \in Int /\ z \in Int /\ end \in Int /\ p <= end
    BY <1>1, <1>2, <1>3
  <2> HIDE DEF end
  <2>2. IsFiniteSet(p .. z) /\ Cardinality(p .. z) = IF p > z THEN 0 ELSE z - p + 1
    BY <2>1, FS_Interval
  <2>3. kept \subseteq p .. z
    OBVIOUS
  <2>4. IsFiniteSet(kept) /\ size <= Cardinality(p .. z)
    BY <2>2, <2>3, FS_Subset
  <2>5. size \in Nat
    BY <2>4, FS_CardinalityType
  <2> HIDE DEF kept, size
  <2> QED BY <2>1, <2>2, <2>4, <2>5 DEF z
<1>5. kept \subseteq p .. end - 1
  OBVIOUS
<1> HIDE DEF end, kept
<1>6. ASSUME NEW k \in 0 .. size - 1 PROVE Nth(k) \in kept /\ Cardinality({j \in kept : j < Nth(k)}) = k
  <2>1. kept \subseteq Nat
    BY <1>1, <1>2, <1>3, <1>5
  <2>2. k \in Nat /\ k < size
    BY <1>4
  <2>3. \E i \in kept : Cardinality({j \in kept : j < i}) = k
    BY <1>4, <2>1, <2>2, RankFacts
  <2> QED BY <2>3
<1> HIDE DEF size
<1>7. /\ moved \in [1 .. MaxInput -> Chars]
      /\ \A i \in 1 .. MaxInput : moved[i] # b[i] => i \in p .. p + size - 1 /\ i # nul - 1
  <2>1. ASSUME NEW i \in p .. p + size - 1 PROVE b[Nth(i - p)] \in Chars
    <3>1. i - p \in 0 .. size - 1
      BY <1>1, <1>4, <2>1
    <3>2. Nth(i - p) \in p .. end - 1
      BY <1>5, <1>6, <3>1
    <3>3. p .. end - 1 \subseteq 1 .. MaxInput
      BY <1>1, <1>2, <1>3
    <3> HIDE DEF Nth
    <3> QED BY <3>2, <3>3
  <2> HIDE DEF Nth
  <2>2. moved \in [1 .. MaxInput -> Chars]
    BY <2>1
  <2>3. ASSUME nul - 1 \in p .. p + size - 1 PROVE Nth(nul - 1 - p) = nul - 1
    <3> DEFINE i == Nth(nul - 1 - p)
               low == {j \in kept : j < i}
    <3>1. nul - 1 - p = size - 1 /\ size - 1 \in 0 .. size - 1 /\ size = nul - p
      BY <1>1, <1>2, <1>3, <1>4, <2>3
    <3>2. i \in kept /\ Cardinality(low) = size - 1
      BY <1>6, <3>1
    <3> HIDE DEF i
    <3>3. i \in p .. nul - 1
      BY <1>1, <1>2, <1>3, <1>5, <3>2
    <3>4. low \subseteq p .. i - 1
      <4>1. \A j \in kept : j \in Nat /\ j >= p
        BY <1>1, <1>2, <1>3, <1>5
      <4>2. \A j \in Nat : j >= p /\ j < i => j \in p .. i - 1
        BY <1>1, <1>2, <3>3
      <4> QED BY <4>1, <4>2
    <3> HIDE DEF low
    <3> DEFINE h == i - 1
    <3>5. p \in Int /\ h \in Int
      BY <1>1, <1>2, <3>3
    <3>6. IsFiniteSet(p .. h) /\ Cardinality(p .. h) = IF p > h THEN 0 ELSE h - p + 1
      <4> HIDE DEF h
      <4> QED BY <3>5, FS_Interval
    <3>7. Cardinality(low) <= Cardinality(p .. h)
      BY <3>4, <3>6, FS_Subset
    <3>8. size - 1 <= i - p
      BY <1>1, <1>2, <1>4, <3>2, <3>3, <3>6, <3>7
    <3> QED BY <1>1, <1>2, <3>1, <3>3, <3>8 DEF i
  <2>4. moved[nul - 1] = b[nul - 1]
    BY <1>1, <1>2, <2>3
  <2> QED BY <1>1, <1>2, <1>3, <1>4, <2>2, <2>4
<1> HIDE DEF moved
<1> DEFINE cut == Cut(moved, {p + size})
<1>8. /\ cut \in [1 .. MaxInput -> Chars]
      /\ p + size \in 1 .. MaxInput /\ cut[p + size] = Nul
      /\ \A i \in 1 .. MaxInput : cut[i] # b[i] => i \in p .. p + size /\ i # nul /\ (i = nul - 1 => cut[i] = Nul)
  <2>1. p + size \in p .. nul /\ nul <= MaxInput
    BY <1>1, <1>2, <1>3, <1>4
  <2>2. cut \in [1 .. MaxInput -> Chars] /\ cut[p + size] = Nul
    BY <1>1, <1>2, <1>7, <2>1, PlaceFacts DEF Cut
  <2>3. ASSUME NEW i \in 1 .. MaxInput, cut[i] # b[i] PROVE i \in p .. p + size
    BY <1>1, <1>4, <1>7, <2>1, <2>3 DEF Cut
  <2>4. cut[nul] = Nul
    <3>1. moved[nul] = Nul
      BY <1>1, <1>2, <1>3, <1>4, <1>7
    <3> QED BY <1>1, <1>2, <3>1 DEF Cut
  <2>5. ASSUME NEW i \in 1 .. MaxInput, cut[i] # b[i]
        PROVE  i \in p .. p + size /\ i # nul /\ (i = nul - 1 => cut[i] = Nul)
    <3>1. cut[i] \in {Nul, moved[i]}
      BY <1>7 DEF Cut
    <3> QED BY <1>2, <1>7, <2>3, <2>4, <2>5, <3>1
  <2> HIDE DEF cut
  <2> QED BY <1>1, <1>2, <2>1, <2>2, <2>5
<1> HIDE DEF cut
<1>9. WordToken(b, c, p) =
        IF quote[end] # "none"
        THEN Result(Nowhere, c, moved, TRUE, {})
        ELSE Result(p, Past(end, nul), cut, FALSE, p .. end - 1)
  BY DEF WordToken, nul, ends, end, kept, size, moved, cut
<1> HIDE DEF quote
<1>10. ASSUME NEW e \in c .. Beyond, Char(b, e) = Nul PROVE e >= nul
  <2>1. \A j \in c .. nul - 1 : b[j] # Nul
    BY <1>1, <1>2
  <2> QED BY <1>1, <1>2, <1>10, <2>1, PlaceFacts DEF Char
<1>11. ASSUME NEW r, r = Result(Nowhere, c, moved, TRUE, {}) PROVE Good(r, c) /\ Local(r, b, c)
  <2>1. r.next = c /\ r.token = Nowhere /\ r.buffer = moved /\ r.used = {} /\ r.open = TRUE
    BY <1>11 DEF Result
  <2>2. Good(r, c)
    BY <1>1, <1>7, <2>1, PlaceFacts DEF Good, IsToken
  <2>3. \A i \in 1 .. MaxInput : r.buffer[i] # b[i] => c <= i /\ i < nul /\ i # nul - 1
    BY <1>1, <1>2, <1>3, <1>4, <1>7, <2>1
  <2>4. ASSUME NEW e \in c .. Beyond, Char(b, e) = Nul PROVE Within(r, b, e)
    <3>1. e >= nul
      BY <1>10, <2>4
    <3> QED BY <1>1, <1>2, <2>1, <2>3, <3>1, PlaceFacts DEF Within, IsToken
  <2> QED BY <2>1, <2>2, <2>3, <2>4 DEF Local
<1>12. ASSUME NEW r, r = Result(p, Past(end, nul), cut, FALSE, p .. end - 1) PROVE Good(r, c) /\ Local(r, b, c)
  <2>1. r.next = Past(end, nul) /\ r.token = p /\ r.buffer = cut /\ r.used = p .. end - 1 /\ r.open = FALSE
    BY <1>12 DEF Result
  <2>2. r.next \in p + 1 .. nul /\ r.next >= end /\ (end # nul => r.next > end)
    BY <1>1, <1>2, <1>3, <2>1 DEF Past
  <2>3. p + size \in p .. r.next /\ Char(r.buffer, p + size) = Nul
    BY <1>1, <1>2, <1>3, <1>4, <1>8, <2>1, <2>2 DEF Char
  <2>4. p .. end - 1 \subseteq Places
    BY <1>1, <1>2, <1>3, PlaceFacts DEF Places
  <2>5. Good(r, c)
    <3>1. IsToken(r)
      BY <1>1, <2>1 DEF IsToken, Nowhere
    <3> QED BY <1>1, <1>2, <1>8, <2>1, <2>2, <2>3, <2>4, <3>1, PlaceFacts DEF Good
  <2>6. \A i \in 1 .. MaxInput : r.buffer[i] # b[i] =>
          c <= i /\ i < nul /\ i < r.next /\ (i = nul - 1 => r.buffer[i] = Nul)
    <3>1. ASSUME NEW i \in 1 .. MaxInput, r.buffer[i] # b[i]
          PROVE  c <= i /\ i < nul /\ i < r.next /\ (i = nul - 1 => r.buffer[i] = Nul)
      <4>1. i \in p .. p + size /\ i # nul /\ (i = nul - 1 => r.buffer[i] = Nul)
        BY <1>8, <2>1, <3>1
      <4>2. p \in Nat /\ c \in Nat /\ c <= p /\ p + size <= end /\ end \in Nat /\ end <= nul /\ nul \in Nat
        BY <1>1, <1>2, <1>3, <1>4
      <4>3. r.next \in Nat /\ p < r.next /\ end <= r.next /\ (end # nul => end < r.next)
        BY <1>1, <1>2, <2>2
      <4>4. size \in Nat /\ nul \in p + 1 .. MaxInput /\ i \in Nat
        BY <1>2, <1>4, <3>1
      <4>5. i \in Nat /\ p <= i /\ i <= p + size /\ i # nul
        BY <4>1, <4>2, <4>4
      <4> HIDE DEF size, nul, end
      <4>6. c <= i /\ i < nul /\ i < r.next
        BY <4>2, <4>3, <4>4, <4>5
      <4> QED BY <4>1, <4>6
    <3> QED BY <3>1
  <2>7. ASSUME NEW e \in c .. Beyond, Char(b, e) = Nul PROVE Within(r, b, e)
    <3>1. e >= nul
      BY <1>10, <2>7
    <3> QED BY <1>1, <1>2, <2>1, <2>2, <2>6, <3>1, PlaceFacts DEF Within
  <2> QED BY <2>1, <2>5, <2>6, <2>7 DEF Local
<1> QED BY <1>9, <1>11, <1>12

LEMMA NextTokenGood ==
  ASSUME NEW b \in [1 .. MaxInput -> Chars], NEW c \in Places, Closed(b, c)
  PROVE  Good(NextToken(b, c), c) /\ Local(NextToken(b, c), b, c)
<1> DEFINE p == FirstOf(b, c, Chars \ {Blank})
<1>1. /\ p \in c .. Beyond
      /\ \A i \in c .. Beyond : Char(b, i) \in Chars \ {Blank} => p <= i
      /\ Char(b, p) \in Chars \ {Blank}
      /\ \A j \in c .. p - 1 : Char(b, j) \notin Chars \ {Blank}
  BY FirstOfFacts, PlaceFacts
<1>2. c \in Nat /\ c >= 1 /\ p \in Nat /\ MaxInput \in Nat
  BY <1>1, PlaceFacts DEF Places
<1>3. PICK z \in c .. MaxInput : b[z] = Nul
  BY DEF Closed
<1>4. p <= z
  <2> HIDE DEF p
  <2>1. z \in c .. Beyond /\ Char(b, z) \in Chars \ {Blank}
    BY <1>2, <1>3, PlaceFacts DEF Char
  <2> QED BY <1>1, <2>1
<1>5. \A j \in c .. p - 1 : Char(b, j) # Nul
  BY <1>1, PlaceFacts
<1> HIDE DEF p
<1>6. CASE Char(b, p) = Nul
  <2> DEFINE r == NextToken(b, c)
  <2>1. r = Result(Nowhere, p, b, FALSE, {})
    BY <1>6 DEF NextToken, p
  <2>2. r.next = p /\ r.buffer = b /\ r.token = Nowhere /\ r.used = {} /\ r.open = FALSE
    BY <2>1 DEF Result
  <2> HIDE DEF r
  <2>3. Good(r, c)
    <3>1. Closed(b, p)
      BY <1>2, <1>3, <1>4 DEF Closed
    <3> QED BY <1>1, <1>2, <2>2, <3>1 DEF Good, IsToken
  <2>4. ASSUME NEW e \in c .. Beyond, Char(b, e) = Nul PROVE Within(r, b, e)
    <3>1. e >= p
      BY <1>1, <1>2, <1>5, <2>4, PlaceFacts
    <3> QED BY <1>2, <2>2, <3>1, PlaceFacts DEF Within, IsToken
  <2> QED BY <2>2, <2>3, <2>4 DEF Local, r
<1>7. CASE Char(b, p) # Nul
  <2>1. p < z /\ p \in c .. MaxInput - 1 /\ \A j \in c .. p : b[j] # Nul
    <3>1. p < z /\ p \in c .. MaxInput - 1
      BY <1>1, <1>2, <1>3, <1>4, <1>7, PlaceFacts DEF Char
    <3> QED BY <1>2, <1>5, <1>7, <3>1 DEF Char
  <2>2. CASE OperatorAt(b, p) > 0
    <3> DEFINE n == OperatorAt(b, p)
    <3>1. n \in {1, 2} /\ Char(b, p + n - 1) \in {"<", ">"}
      BY <1>2, <2>2 DEF OperatorAt
    <3> HIDE DEF n
    <3>2. p + n - 1 # z
      BY <1>2, <1>3, <3>1 DEF Char, Nul
    <3>3. p + n <= MaxInput /\ b[p + n - 1] \in {"<", ">"}
      BY <1>2, <1>3, <2>1, <3>1, <3>2, PlaceFacts DEF Char
    <3>4. \A j \in c .. p + n - 1 : b[j] # Nul
      <4>1. ASSUME NEW j \in c .. p + n - 1 PROVE b[j] # Nul
        <5>1. j \in c .. p \/ j = p + n - 1
          BY <1>2, <2>1, <3>1
        <5> QED BY <2>1, <3>3, <5>1 DEF Nul
      <4> QED BY <4>1
    <3>5. NextToken(b, c) = OperatorToken(b, p, n)
      BY <1>7, <2>2 DEF NextToken, p, n
    <3>6. p \in c .. MaxInput
      BY <1>2, <2>1
    <3> QED BY <3>1, <3>3, <3>4, <3>5, <3>6, OperatorTokenGood
  <2>3. CASE OperatorAt(b, p) = 0
    <3>1. NextToken(b, c) = WordToken(b, c, p)
      BY <1>7, <2>3 DEF NextToken, p
    <3>2. Closed(b, p)
      BY <1>2, <1>3, <2>1 DEF Closed
    <3> QED BY <2>1, <3>1, <3>2, WordTokenGood
  <2> QED BY <2>2, <2>3 DEF OperatorAt
<1> QED BY <1>6, <1>7

-----------------------------------------------------------------------------
(* Reading a line *)

Inputs == Seq((Chars \ {Nul}) \cup {Newline})

LEMMA LineEndFacts ==
  ASSUME NEW s \in Inputs, s # <<>>
  PROVE  /\ LineEnd(s) \in 1 .. Len(s) /\ Len(s) \in Nat
         /\ LineEnd(s) = Len(s) \/ s[LineEnd(s)] = Newline
         /\ \A i \in 1 .. LineEnd(s) - 1 : s[i] # Newline
         /\ Len(Got(s)) = IF LineEnd(s) <= MaxInput - 1 THEN LineEnd(s) ELSE MaxInput - 1
         /\ \A i \in 1 .. Len(Got(s)) : Got(s)[i] = s[i]
<1> DEFINE ends == {i \in 1 .. Len(s) : s[i] = Newline} \cup {Len(s)}
           n == LineEnd(s)
           few == {n, MaxInput - 1}
           l == Len(s)
<1>1. l \in Nat /\ l >= 1
  BY DEF Inputs
<1>2. n \in ends /\ \A i \in ends : n <= i
  <2>1. ends \subseteq Nat /\ ends # {}
    BY <1>1
  <2>2. n = Min(ends)
    BY DEF LineEnd
  <2> HIDE DEF ends, n
  <2> QED BY <2>1, <2>2, NatMin
<1> HIDE DEF n
<1>3. n \in 1 .. l /\ (n = l \/ s[n] = Newline)
  BY <1>1, <1>2
<1>4. ASSUME NEW i \in 1 .. n - 1 PROVE s[i] # Newline
  <2>1. i \notin ends
    BY <1>2, <1>3
  <2> QED BY <1>1, <1>3, <2>1
<1> HIDE DEF ends
<1>5. Min(few) = IF n <= MaxInput - 1 THEN n ELSE MaxInput - 1
  <2>1. few \subseteq Nat /\ few # {} /\ n \in few /\ MaxInput - 1 \in few /\ MaxInput \in Nat /\ n \in Nat
    BY <1>1, <1>3, PlaceFacts
  <2>2. Min(few) \in few /\ Min(few) <= n /\ Min(few) <= MaxInput - 1
    <3> HIDE DEF few
    <3> QED BY <2>1, NatMin
  <2> QED BY <2>1, <2>2
<1> HIDE DEF few
<1>6. Got(s) = SubSeq(s, 1, Min(few))
  BY DEF Got, few, n
<1>7. Min(few) \in 1 .. l
  BY <1>1, <1>3, <1>5, PlaceFacts
<1> DEFINE m == Min(few)
<1>8. Len(SubSeq(s, 1, m)) = m /\ \A i \in 1 .. m : SubSeq(s, 1, m)[i] = s[i]
  <2> HIDE DEF m
  <2> QED BY <1>1, <1>7 DEF Inputs, m
<1> QED BY <1>1, <1>3, <1>4, <1>5, <1>6, <1>8 DEF n

\* What is in the array when a line has been read.
LEMMA FilledFacts ==
  ASSUME NEW s \in Inputs, s # <<>>, buffer \in [1 .. MaxInput -> Chars]
  PROVE  RestOf(s) \in Inputs /\ Filled(s) \in [1 .. MaxInput -> Chars]
<1> DEFINE n == LineEnd(s)
           g == Got(s)
<1>1. /\ n \in 1 .. Len(s) /\ Len(s) \in Nat
      /\ Len(g) \in 1 .. MaxInput - 1 /\ Len(g) <= n
      /\ \A i \in 1 .. Len(g) : g[i] = s[i]
  BY LineEndFacts, PlaceFacts
<1>2. RestOf(s) \in Inputs
  BY <1>1 DEF RestOf, Inputs
<1>3. ASSUME NEW i \in 1 .. MaxInput, i <= Len(g), g[i] # Newline PROVE g[i] \in Chars
  <2>1. i \in 1 .. Len(s) /\ g[i] = s[i]
    BY <1>1, <1>3, PlaceFacts
  <2>2. s[i] \in (Chars \ {Nul}) \cup {Newline}
    BY <2>1 DEF Inputs
  <2> QED BY <1>3, <2>1, <2>2
<1>4. Filled(s) = [i \in 1 .. MaxInput |->
         IF i > Len(g) + 1 THEN buffer[i]
         ELSE IF i = Len(g) + 1 \/ g[i] = Newline THEN Nul ELSE g[i]]
  BY DEF Filled
<1> HIDE DEF g
<1>5. Filled(s) \in [1 .. MaxInput -> Chars]
  <2>1. ASSUME NEW i \in 1 .. MaxInput, ~(i > Len(g) + 1), i # Len(g) + 1 PROVE i <= Len(g)
    BY <1>1, <2>1, PlaceFacts
  <2> QED BY <1>3, <1>4, <2>1, PlaceFacts
<1> QED BY <1>2, <1>5

\* The array holds the line as it was typed, with a 0 after it, and another one
\* in the place of a newline.
LEMMA TypedFacts ==
  ASSUME NEW s \in Inputs, s # <<>>, ~TooLong(s)
  PROVE  /\ Line(s) \in Seq(Chars \ {Nul}) /\ Len(Line(s)) <= MaxInput - 2
         /\ \A i \in 1 .. Len(Line(s)) : Filled(s)[i] = Line(s)[i]
         /\ Filled(s)[Len(Line(s)) + 1] = Nul
         /\ Ended(s) => Filled(s)[Len(Line(s)) + 2] = Nul
<1> DEFINE n == LineEnd(s)
           l == Len(s)
           m == IF Ended(s) THEN n - 1 ELSE n
<1>1. /\ n \in 1 .. l /\ l \in Nat /\ (n = l \/ s[n] = Newline)
      /\ \A i \in 1 .. n - 1 : s[i] # Newline
      /\ Len(Got(s)) = IF n <= MaxInput - 1 THEN n ELSE MaxInput - 1
      /\ \A i \in 1 .. Len(Got(s)) : Got(s)[i] = s[i]
  BY LineEndFacts
<1>2. Ended(s) <=> s[n] = Newline
  BY DEF Ended
<1>3. n <= MaxInput - 1 /\ (n = MaxInput - 1 => s[n] = Newline)
  <2>1. CASE n > MaxInput - 1
    <3>1. Len(Got(s)) = MaxInput - 1 /\ Got(s)[MaxInput - 1] = s[MaxInput - 1] /\ s[MaxInput - 1] # Newline
      BY <1>1, <2>1, PlaceFacts
    <3> QED BY <3>1 DEF TooLong
  <2>2. CASE n = MaxInput - 1
    <3>1. Len(Got(s)) = MaxInput - 1 /\ Got(s)[MaxInput - 1] = s[n]
      BY <1>1, <2>2, PlaceFacts
    <3> QED BY <2>2, <3>1, PlaceFacts DEF TooLong
  <2> QED BY <1>1, <2>1, <2>2, PlaceFacts
<1>4. Len(Got(s)) = n
  BY <1>1, <1>3
<1>5. Filled(s) = [i \in 1 .. MaxInput |->
         IF i > n + 1 THEN buffer[i]
         ELSE IF i = n + 1 \/ Got(s)[i] = Newline THEN Nul ELSE Got(s)[i]]
  BY <1>4 DEF Filled
<1> HIDE DEF n
<1>6. m \in 0 .. n /\ m <= MaxInput - 2 /\ \A i \in 1 .. m : s[i] # Newline
  BY <1>1, <1>2, <1>3, PlaceFacts
<1>7. Line(s) = SubSeq(s, 1, m)
  BY DEF Line, n
<1> HIDE DEF m
<1>8. Len(SubSeq(s, 1, m)) = m /\ \A i \in 1 .. m : SubSeq(s, 1, m)[i] = s[i] /\ i \in 1 .. Len(s)
  BY <1>1, <1>6 DEF Inputs
<1>9. Line(s) \in Seq(Chars \ {Nul}) /\ Len(Line(s)) = m
  <2>1. \A i \in 1 .. m : s[i] \in Chars \ {Nul}
    BY <1>6, <1>8 DEF Inputs
  <2>2. m \in Nat
    BY <1>1, <1>6
  <2>3. SubSeq(s, 1, m) \in Seq(Chars \ {Nul})
    <3>1. SubSeq(s, 1, m) = [i \in 1 .. m |-> s[i]]
      BY <1>1, <1>6, <1>8 DEF Inputs
    <3> QED BY <2>1, <2>2, <3>1
  <2> QED BY <1>7, <1>8, <2>3
<1>10. \A i \in 1 .. m : Filled(s)[i] = Line(s)[i]
  <2>1. ASSUME NEW i \in 1 .. m PROVE Filled(s)[i] = s[i]
    <3>1. i \in 1 .. MaxInput /\ i \in 1 .. n
      BY <1>1, <1>6, PlaceFacts
    <3>2. Got(s)[i] = s[i] /\ s[i] # Newline
      BY <1>1, <1>4, <1>6, <3>1
    <3> QED BY <1>1, <1>5, <3>1, <3>2
  <2> QED BY <1>7, <1>8, <2>1
<1>11. CASE Ended(s)
  <2>1. m = n - 1 /\ n \in 1 .. MaxInput /\ n + 1 \in 1 .. MaxInput /\ Got(s)[n] = Newline
    BY <1>1, <1>2, <1>3, <1>4, <1>11, PlaceFacts DEF m
  <2>2. Filled(s)[n] = Nul /\ Filled(s)[n + 1] = Nul
    BY <1>1, <1>5, <2>1
  <2>3. m + 1 = n /\ m + 2 = n + 1
    BY <1>1, <2>1
  <2> QED BY <1>6, <1>9, <1>10, <2>2, <2>3
<1>12. CASE ~Ended(s)
  <2>1. m = n /\ n + 1 \in 1 .. MaxInput
    BY <1>1, <1>3, <1>12, PlaceFacts DEF m
  <2>2. Filled(s)[n + 1] = Nul
    BY <1>1, <1>5, <2>1
  <2> QED BY <1>6, <1>9, <1>10, <1>12, <2>1, <2>2
<1> QED BY <1>11, <1>12

-----------------------------------------------------------------------------
(* Types, and how far the parse has come *)

CommandSet ==
  {c \in [args : Seq(Places), files : [Operators -> Places \cup {Nowhere}]] : Len(c.args) < MaxArgs}

LineInv ==
  /\ pc \in {"prompt", "segment", "token", "file", "validate", "run", "exited", "overrun"}
  /\ stream \in Inputs
  /\ buffer \in [1 .. MaxInput -> Chars]
  /\ piped \in BOOLEAN /\ newline \in BOOLEAN /\ warned \in BOOLEAN /\ more \in BOOLEAN
  /\ segment \in Places /\ scan \in Places /\ cursor \in Places
  /\ cmd \in CommandSet /\ cmds \in Seq(CommandSet) /\ Len(cmds) <= MaxCmds
  /\ pc \in {"token", "file"} => Len(cmds) < MaxCmds
  /\ operator \in Operators \cup {<<>>} /\ taken \subseteq Places
  /\ typed \in Seq(Chars \ {Nul}) /\ Len(typed) <= MaxInput - 2

\* A segment lies before the place where the next one starts.
AdvanceInv ==
  pc \in {"token", "file"} /\ piped => segment <= scan /\ (more => scan <= MaxInput)

LEMMA EmptyFacts ==
  /\ EmptyCommand \in CommandSet
  /\ <<>> \in Seq(CommandSet) /\ Len(<<>>) = 0 /\ <<>> \in Seq(Chars \ {Nul}) /\ 1 \in Places
  /\ MaxCmds \in Nat /\ MaxCmds >= 1 /\ MaxArgs \in Nat /\ MaxArgs >= 2
<1>1. 1 \in Places
  BY PlaceFacts DEF Places
<1>2. <<>> \in Seq(Places) /\ [o \in Operators |-> Nowhere] \in [Operators -> Places \cup {Nowhere}]
  OBVIOUS
<1> HIDE DEF Operators
<1>3. EmptyCommand \in [args : Seq(Places), files : [Operators -> Places \cup {Nowhere}]] /\ Len(EmptyCommand.args) = 0
  BY <1>2 DEF EmptyCommand
<1> QED BY <1>1, <1>3, SizeAssumption DEF CommandSet

LEMMA InitLine == Init => LineInv /\ AdvanceInv
<1> SUFFICES ASSUME Init PROVE LineInv /\ AdvanceInv
  OBVIOUS
<1>1. buffer \in [1 .. MaxInput -> Chars]
  BY RemainsAssumption DEF Init
<1>2. stream \in Inputs
  BY StreamsAssumption DEF Init, Inputs
<1> DEFINE none == <<>>
<1>3. none \in Seq(Chars \ {Nul}) /\ Len(none) <= MaxInput - 2 /\ none \in Seq(CommandSet) /\ Len(none) <= MaxCmds
  BY EmptyFacts, PlaceFacts
<1>4. typed = none /\ cmds = none /\ cmd = EmptyCommand
  BY DEF Init
<1> HIDE DEF none
<1> QED BY <1>1, <1>2, <1>3, <1>4, EmptyFacts DEF Init, LineInv, AdvanceInv

LEMMA SegmentFacts ==
  ASSUME buffer \in [1 .. MaxInput -> Chars], segment \in Places
  PROVE  /\ SegmentEnd \in segment .. Beyond /\ SegmentStart \in segment .. Beyond
         /\ SegmentEnd \in Places /\ SegmentStart \in Places /\ segment \in Nat
         /\ Char(buffer, SegmentEnd) = "|" => SegmentEnd <= MaxInput
         /\ Trimmed \in [1 .. MaxInput -> Chars]
         /\ \A i \in 1 .. MaxInput : Trimmed[i] # buffer[i] => i \in segment .. SegmentEnd /\ Trimmed[i] = Nul
         /\ Char(Trimmed, SegmentEnd) = Nul
<1>1. SegmentEnd \in segment .. Beyond /\ SegmentStart \in segment .. Beyond
  BY FirstOfFacts, PlaceFacts DEF SegmentEnd, SegmentStart
<1>2. Char(buffer, SegmentEnd) = "|" => SegmentEnd <= MaxInput
  BY <1>1, PlaceFacts DEF Places, Char, Nul
<1>3. Trimmed \in [1 .. MaxInput -> Chars]
  BY PlaceFacts DEF Trimmed, Cut
<1>4. segment \in Nat /\ segment >= 1 /\ SegmentEnd \in Places /\ SegmentStart \in Places
  BY <1>1, PlaceFacts DEF Places
<1>5. \A i \in 1 .. MaxInput : Trimmed[i] # buffer[i] => i \in segment .. SegmentEnd /\ Trimmed[i] = Nul
  BY DEF Trimmed, Cut
<1>6. Char(Trimmed, SegmentEnd) = Nul
  BY <1>1, <1>4, PlaceFacts DEF Trimmed, Cut, Char, Places
<1> QED BY <1>1, <1>2, <1>3, <1>4, <1>5, <1>6

LEMMA ReadLineStep == ASSUME LineInv, ReadLine \/ ReadTooLong PROVE LineInv' /\ AdvanceInv'
<1>1. stream \in Inputs /\ stream # <<>> /\ stream' = RestOf(stream) /\ buffer' = Filled(stream)
  BY DEF LineInv, ReadLine, ReadTooLong
<1>2. stream' \in Inputs /\ buffer' \in [1 .. MaxInput -> Chars]
  BY <1>1, FilledFacts DEF LineInv
<1>3. CASE ReadLine
  <2>1. typed' \in Seq(Chars \ {Nul}) /\ Len(typed') <= MaxInput - 2
    BY <1>1, <1>3, TypedFacts DEF ReadLine
  <2>2. pc' \in {"exited", "prompt", "segment", "token"} /\ piped' \in BOOLEAN /\ (pc' = "token" => ~piped')
    <3> DEFINE text == Text(buffer', 1)
    <3>1. piped' = ("|" \in {text[i] : i \in DOMAIN text}) /\ pc' = AfterReading(text, piped')
      BY <1>3 DEF ReadLine
    <3> HIDE DEF text
    <3>2. piped' \in BOOLEAN
      BY <3>1
    <3> QED BY <3>1, <3>2 DEF AfterReading
  <2>3. newline' \in BOOLEAN
    BY <1>3 DEF ReadLine, Ended
  <2>4. /\ warned' = FALSE /\ more' = FALSE /\ segment' = 1 /\ scan' = 1 /\ cursor' = 1
        /\ cmd' = EmptyCommand /\ cmds' = <<>> /\ operator' = <<>> /\ taken' = {}
    BY <1>3 DEF ReadLine
  <2>5. cmd' \in CommandSet /\ cmds' \in Seq(CommandSet) /\ Len(cmds') < MaxCmds /\ Len(cmds') <= MaxCmds
    BY <2>4, EmptyFacts
  <2> QED BY <1>2, <2>1, <2>2, <2>3, <2>4, <2>5, EmptyFacts DEF LineInv, AdvanceInv
<1>4. CASE ReadTooLong
  <2>1. /\ typed' = <<>> /\ newline' = FALSE /\ piped' = FALSE /\ warned' = FALSE /\ cmds' = <<>> /\ taken' = {}
        /\ pc = "prompt" /\ UNCHANGED <<pc, segment, scan, more, cursor, cmd, operator>>
    BY <1>4 DEF ReadTooLong
  <2>2. typed' \in Seq(Chars \ {Nul}) /\ Len(typed') <= MaxInput - 2
    BY <2>1, EmptyFacts, PlaceFacts
  <2>3. cmds' \in Seq(CommandSet) /\ Len(cmds') <= MaxCmds
    BY <2>1, EmptyFacts
  <2> QED BY <1>2, <2>1, <2>2, <2>3 DEF LineInv, AdvanceInv
<1> QED BY <1>3, <1>4

LEMMA SegmentStep == ASSUME LineInv, SplitSegment \/ SegmentFails PROVE LineInv' /\ AdvanceInv'
<1> USE DEF lineVars, pipelineVars, commandVars
<1>1. /\ SegmentEnd \in Places /\ SegmentStart \in Places /\ SegmentEnd >= segment
      /\ Char(buffer, SegmentEnd) = "|" => SegmentEnd <= MaxInput
      /\ Trimmed \in [1 .. MaxInput -> Chars]
  BY SegmentFacts, PlaceFacts DEF LineInv
<1>2. CASE SplitSegment
  <2>1. /\ pc' = "token" /\ Len(cmds) < MaxCmds /\ UNCHANGED <<stream, warned, piped, newline, typed, segment, cmds, operator, taken>>
        /\ scan' = SegmentEnd /\ more' = (Char(buffer, SegmentEnd) = "|") /\ buffer' = Trimmed
        /\ cursor' = SegmentStart /\ cmd' = EmptyCommand
    BY <1>2 DEF SplitSegment
  <2> HIDE DEF SegmentEnd, SegmentStart, Trimmed
  <2> QED BY <1>1, <2>1, EmptyFacts DEF LineInv, AdvanceInv
<1>3. CASE SegmentFails
  <2>1. /\ pc' = "prompt" /\ scan' = SegmentEnd /\ buffer' = Trimmed
        /\ UNCHANGED <<stream, warned, piped, newline, typed, segment, more, cmds, cursor, cmd, operator, taken>>
    BY <1>3 DEF SegmentFails, Fail
  <2> QED BY <1>1, <2>1 DEF LineInv, AdvanceInv
<1> QED BY <1>2, <1>3

\* What is known of the token that ParseCommand finds.
LEMMA TokenFacts ==
  ASSUME LineInv, Closed(buffer, cursor), NEW r, r = NextToken(buffer, cursor)
  PROVE  /\ Good(r, cursor) /\ Local(r, buffer, cursor)
         /\ r.buffer \in [1 .. MaxInput -> Chars]
         /\ r.next \in Places /\ cursor \in Nat /\ r.next \in Nat
         /\ IsToken(r) => r.token \in Places /\ r.next > cursor
         /\ r.used \subseteq Places
<1>1. Good(r, cursor) /\ Local(r, buffer, cursor)
  BY NextTokenGood DEF LineInv
<1>2. cursor \in Nat /\ cursor >= 1 /\ cursor <= Beyond /\ Beyond \in Nat
  BY PlaceFacts DEF LineInv, Places
<1> QED BY <1>1, <1>2 DEF Good, Places

\* The same of the second token, when the first one is dropped.
LEMMA SecondFacts ==
  ASSUME LineInv, Closed(buffer, cursor), NEW r, r = NextToken(buffer, cursor),
         EndCommand(r), ~HasRoom, ~r.open, NEW s, s = NextToken(r.buffer, r.next)
  PROVE  /\ Good(s, r.next) /\ Local(s, r.buffer, r.next)
         /\ s.buffer \in [1 .. MaxInput -> Chars]
         /\ s.next \in Places /\ s.next \in Nat /\ s.next >= r.next
<1>1. r.buffer \in [1 .. MaxInput -> Chars] /\ Closed(r.buffer, r.next) /\ r.next \in Places /\ r.next \in Nat
  BY TokenFacts DEF EndCommand, Good
<1>2. Good(s, r.next) /\ Local(s, r.buffer, r.next)
  BY <1>1, NextTokenGood
<1> QED BY <1>1, <1>2, PlaceFacts DEF Good, Places

LEMMA CommandStep == ASSUME LineInv, AdvanceInv, ParseCommand PROVE LineInv' /\ AdvanceInv'
<1> USE DEF lineVars, pipelineVars, commandVars
<1> DEFINE r == NextToken(buffer, cursor)
<1>1. Closed(buffer, cursor) /\ (Argument(r) \/ Redirection(r) \/ FileName(r) \/ EndCommand(r))
  BY DEF ParseCommand
<1>2. /\ r.buffer \in [1 .. MaxInput -> Chars] /\ r.next \in Places
      /\ IsToken(r) => r.token \in Places
      /\ r.used \subseteq Places
  BY <1>1, TokenFacts
<1> DEFINE second == NextToken(r.buffer, r.next)
<1>3. EndCommand(r) /\ ~HasRoom /\ ~r.open =>
        second.buffer \in [1 .. MaxInput -> Chars] /\ second.next \in Places
  BY <1>1, SecondFacts
<1> HIDE DEF r
<1>4. CASE Argument(r) \/ Redirection(r) \/ FileName(r)
  <2>1. /\ pc \in {"token", "file"} /\ pc' \in {"token", "file", "prompt"}
        /\ buffer' = r.buffer /\ cursor' = r.next /\ taken' = taken \cup r.used
        /\ UNCHANGED <<stream, warned, piped, newline, typed, segment, scan, more, cmds>>
    BY <1>4 DEF Argument, Redirection, FileName, Take, Fail
  <2>2. cmd' \in CommandSet /\ operator' \in Operators \cup {<<>>}
    <3> HIDE DEF Operators
    <3>1. /\ cmd \in [args : Seq(Places), files : [Operators -> Places \cup {Nowhere}]]
          /\ Len(cmd.args) < MaxArgs /\ operator \in Operators \cup {<<>>}
      BY DEF LineInv, CommandSet
    <3>2. CASE Argument(r)
      <4>1. HasRoom /\ r.token \in Places /\ operator' = operator /\ cmd' = [cmd EXCEPT !.args = Append(@, r.token)]
        BY <1>2, <3>2 DEF Argument
      <4> HIDE DEF r
      <4>2. Append(cmd.args, r.token) \in Seq(Places) /\ Len(Append(cmd.args, r.token)) = Len(cmd.args) + 1
            /\ Len(cmd.args) \in Nat
        BY <3>1, <4>1
      <4>3. cmd' \in [args : Seq(Places), files : [Operators -> Places \cup {Nowhere}]]
            /\ cmd'.args = Append(cmd.args, r.token)
        BY <3>1, <4>1, <4>2
      <4>4. Len(cmd'.args) < MaxArgs
        BY <4>1, <4>2, <4>3, EmptyFacts DEF HasRoom
      <4> QED BY <3>1, <4>1, <4>3, <4>4 DEF CommandSet
    <3>3. CASE Redirection(r)
      <4>1. cmd' = cmd /\ operator' \in Operators
        BY <3>3 DEF Redirection, IsOp, IsRedirectionOperator
      <4> QED BY <3>1, <4>1 DEF CommandSet
    <3>4. CASE FileName(r)
      <4>1. operator' = <<>> /\ (cmd' = cmd \/ (r.token \in Places /\ cmd' = [cmd EXCEPT !.files[operator] = r.token]))
        BY <1>2, <3>4 DEF FileName
      <4>2. cmd' \in [args : Seq(Places), files : [Operators -> Places \cup {Nowhere}]] /\ cmd'.args = cmd.args
        BY <3>1, <4>1
      <4> QED BY <3>1, <4>1, <4>2 DEF CommandSet
    <3> QED BY <1>4, <3>2, <3>3, <3>4
  <2> QED BY <1>2, <2>1, <2>2 DEF LineInv, AdvanceInv
<1>5. CASE EndCommand(r)
  <2> HIDE DEF second
  <2>1. /\ pc = "token" /\ UNCHANGED <<stream, piped, newline, typed, scan, more, cmd, operator, taken>>
        /\ warned' \in BOOLEAN
        /\ pc' \in {"prompt", "segment", "validate"}
        /\ cmds' = cmds \/ cmds' = Append(cmds, cmd)
        /\ segment' = segment \/ (piped /\ more /\ segment' = scan + 1)
    BY <1>5 DEF EndCommand, CommandDone, Fail, LineInv
  <2>2. buffer' \in [1 .. MaxInput -> Chars] /\ cursor' \in Places
    BY <1>2, <1>3, <1>5 DEF EndCommand, second
  <2>3. cmds' \in Seq(CommandSet) /\ Len(cmds') <= MaxCmds
    <3>1. cmds \in Seq(CommandSet) /\ cmd \in CommandSet /\ Len(cmds) < MaxCmds
      BY <2>1 DEF LineInv
    <3> HIDE DEF CommandSet
    <3>2. Append(cmds, cmd) \in Seq(CommandSet) /\ Len(Append(cmds, cmd)) = Len(cmds) + 1 /\ Len(cmds) \in Nat
      BY <3>1
    <3> QED BY <2>1, <3>1, <3>2, EmptyFacts
  <2>4. segment' \in Places
    BY <2>1, PlaceFacts DEF LineInv, AdvanceInv, Places
  <2> QED BY <2>1, <2>2, <2>3, <2>4 DEF LineInv, AdvanceInv
<1> QED BY <1>1, <1>4, <1>5

LEMMA LineStep == ASSUME LineInv, AdvanceInv, Next PROVE LineInv' /\ AdvanceInv'
<1>1. CASE Overrun \/ EndOfInput \/ Accept \/ Reject \/ Run \/ Exited
  <2>1. /\ UNCHANGED <<stream, buffer, warned, lineVars, pipelineVars, commandVars>>
        /\ pc' \in {"prompt", "validate", "run", "exited", "overrun"}
    BY <1>1 DEF Overrun, EndOfInput, Accept, Reject, Run, Exited, Fail, vars
  <2> QED BY <2>1 DEF LineInv, AdvanceInv, lineVars, pipelineVars, commandVars
<1> QED BY <1>1, ReadLineStep, SegmentStep, CommandStep DEF Next

LEMMA LineCorrect == Spec => [](LineInv /\ AdvanceInv)
<1>1. LineInv /\ AdvanceInv /\ UNCHANGED vars => LineInv' /\ AdvanceInv'
  BY DEF LineInv, AdvanceInv, vars, lineVars, pipelineVars, commandVars
<1> QED BY InitLine, LineStep, <1>1, PTL DEF Spec

\* As long as the parser has not read on behind the array, every pointer that
\* main, parse_pipeline and parse_command keep points into the array or just
\* behind it, whatever it held at the start (myshell.c:5); and no command and no
\* pipeline outgrows its array (parser.c).
THEOREM TypeCorrect == Spec => []TypeOK
<1>1. LineInv => TypeOK
  <2> SUFFICES ASSUME LineInv PROVE TypeOK
    OBVIOUS
  <2>1. ASSUME NEW c \in CommandSet PROVE IsCommand(c)
    BY DEF CommandSet, IsCommand
  <2>2. \A k \in DOMAIN cmds : cmds[k] \in CommandSet
    <3>1. cmds \in Seq(CommandSet)
      BY DEF LineInv
    <3> HIDE DEF CommandSet
    <3> QED BY <3>1
  <2>3. \A i \in DOMAIN typed : typed[i] \in Chars \ {Nul}
    BY DEF LineInv
  <2> HIDE DEF CommandSet
  <2> QED BY <2>1, <2>2, <2>3 DEF LineInv, TypeOK
<1> QED BY LineCorrect, <1>1, PTL

-----------------------------------------------------------------------------
(* The end of the parse *)

Advances ==
  /\ {pc, pc'} \subseteq {"token", "file"} => cursor' > cursor
  /\ pc # "prompt" /\ pc' = "segment" => segment' > segment

LEMMA AdvancesStep == ASSUME LineInv, AdvanceInv, Next, ~UNCHANGED vars PROVE Advances
<1> USE DEF lineVars, pipelineVars, commandVars
<1>1. CASE ReadLine \/ ReadTooLong \/ SplitSegment \/ SegmentFails
  BY <1>1 DEF Advances, ReadLine, ReadTooLong, SplitSegment, SegmentFails, Fail
<1>2. CASE ParseCommand
  <2> DEFINE r == NextToken(buffer, cursor)
  <2>1. Closed(buffer, cursor) /\ (Argument(r) \/ Redirection(r) \/ FileName(r) \/ EndCommand(r))
    BY <1>2 DEF ParseCommand
  <2>2. IsToken(r) => r.next > cursor
    BY <2>1, TokenFacts
  <2> HIDE DEF r
  <2>3. CASE Argument(r) \/ Redirection(r) \/ FileName(r)
    BY <2>2, <2>3 DEF Argument, Redirection, FileName, Take, Fail, Advances
  <2>4. CASE EndCommand(r)
    <3>1. pc = "token" /\ pc' \notin {"token", "file"}
      BY <2>4 DEF EndCommand, CommandDone, Fail
    <3>2. pc' = "segment" => piped /\ segment' = scan + 1
      BY <2>4 DEF EndCommand, CommandDone, Fail
    <3> QED BY <3>1, <3>2, PlaceFacts DEF Advances, LineInv, AdvanceInv, Places
  <2> QED BY <2>1, <2>3, <2>4
<1>3. CASE Overrun \/ EndOfInput \/ Accept \/ Reject \/ Run \/ Exited
  BY <1>3 DEF Advances, Overrun, EndOfInput, Accept, Reject, Run, Exited, Fail
<1> QED BY <1>1, <1>2, <1>3 DEF Next

\* The parse of every line ends, however long the array and whatever is in it:
\* parse_command and parse_pipeline look for each token, and for each segment,
\* further on in the array than for the one before (parser.c).
THEOREM ParseEnds == Spec => ParseAdvances
<1>1. LineInv /\ AdvanceInv /\ [Next]_vars => [Advances]_vars
  BY AdvancesStep
<1> QED BY LineCorrect, <1>1, PTL DEF Spec, ParseAdvances, Advances

-----------------------------------------------------------------------------
(* The command that is being parsed, and what lies before the cursor *)

\* The place where it begins, and that of the 0 that ends it.
From == IF piped THEN segment ELSE 1
End == IF piped THEN scan ELSE Len(typed) + 1

\* From n on the array is as it was when the line had been read.
Unread(b, n) ==
  /\ \A i \in n .. Len(typed) : b[i] = typed[i]
  /\ b[Len(typed) + 1] = Nul
  /\ newline => b[Len(typed) + 2] = Nul

\* The cursor is in the command or, if an operator ended the line, on the
\* second 0; and what it has still to read is as it was typed, or 0.
Inside(b, c) ==
  /\ Char(b, End) = Nul
  /\ From <= c
  /\ c <= End \/ (c = End + 1 /\ Char(b, c) = Nul)
  /\ \A i \in c .. End - 1 : b[i] \in {typed[i], Nul}
  /\ Unread(b, End + 1)

\* An operator ends the command only if a 0 for the newline follows.
Unspilt == typed[End - 1] \in {"<", ">"} => End = Len(typed) + 1 /\ newline

LEMMA PlacesOfLine ==
  ASSUME LineInv
  PROVE  /\ Len(typed) \in Nat /\ Len(typed) + 2 <= MaxInput
         /\ From \in Nat /\ From >= 1
         /\ \A i \in DOMAIN typed : typed[i] # Nul
BY PlaceFacts DEF LineInv, From, Places

LEMMA InsideStep ==
  ASSUME LineInv, End \in 1 .. Len(typed) + 1, Unspilt,
         NEW b \in [1 .. MaxInput -> Chars], NEW c \in Places, NEW r,
         Good(r, c), Local(r, b, c), Inside(b, c)
  PROVE  /\ Char(r.buffer, End) = Nul /\ Unread(r.buffer, End + 1)
         /\ IsToken(r) => r.token \in From .. End - 1 /\ ~r.open
         /\ ~r.open => Inside(r.buffer, r.next)
<1> DEFINE l == Len(typed)
           e == End
           n == r.next
           d == r.buffer
<1>1. /\ l \in Nat /\ l + 2 <= MaxInput /\ MaxInput \in Nat /\ Beyond = MaxInput + 1
      /\ e \in Nat /\ e >= 1 /\ e <= l + 1
      /\ c \in Nat /\ c >= 1
      /\ From \in Nat /\ From >= 1
  BY PlacesOfLine, PlaceFacts DEF Places
<1>2. n \in Nat /\ n >= c /\ n <= Beyond
  BY <1>1, PlaceFacts DEF Good
<1>3. /\ b[e] = Nul /\ From <= c /\ (c <= e \/ (c = e + 1 /\ b[c] = Nul))
      /\ \A i \in c .. e - 1 : b[i] \in {typed[i], Nul}
      /\ \A i \in e + 1 .. l : b[i] = typed[i]
      /\ b[l + 1] = Nul /\ (newline => b[l + 2] = Nul)
  BY <1>1 DEF Inside, Unread, Char
<1>4. IsToken(r) => r.token \in Nat /\ r.token >= c /\ r.token < n /\ ~r.open
  BY <1>1, <1>2 DEF Good
<1> HIDE DEF l, e, n, d
<1>5. CASE c <= e
  <2>1. Within(r, b, e)
    <3>1. e \in c .. Beyond /\ Char(b, e) = Nul
      BY <1>1, <1>3, <1>5 DEF Char
    <3> QED BY <3>1 DEF Local
  <2>2. \A i \in 1 .. MaxInput : d[i] # b[i] => c <= i /\ i < e /\ (r.open \/ i < n)
    BY <2>1 DEF Within, Local, n, d
  <2>3. IsToken(r) => r.token < e
    BY <2>1 DEF Within
  <2>4. n > e => n = e + 1 /\ IsToken(r) /\ Char(b, e - 1) \in {"<", ">"}
    BY <2>1 DEF Within, n
  <2>5. /\ d[e] = Nul
        /\ \A i \in e + 1 .. l : d[i] = typed[i]
        /\ d[l + 1] = Nul /\ (newline => d[l + 2] = Nul)
    <3>1. ASSUME NEW i \in 1 .. MaxInput, i >= e PROVE d[i] = b[i]
      BY <1>1, <2>2, <3>1
    <3>2. e \in 1 .. MaxInput /\ l + 1 \in 1 .. MaxInput /\ l + 2 \in 1 .. MaxInput /\ l + 1 >= e /\ l + 2 >= e
          /\ \A i \in e + 1 .. l : i \in 1 .. MaxInput /\ i >= e
      BY <1>1
    <3> QED BY <1>3, <3>1, <3>2
  <2>6. n > e => d[n] = Nul /\ n <= MaxInput
    <3> SUFFICES ASSUME n > e PROVE d[n] = Nul /\ n <= MaxInput
      OBVIOUS
    <3>1. n = e + 1 /\ e - 1 >= c /\ e - 1 \in c .. e - 1 /\ e - 1 \in 1 .. MaxInput
      BY <1>1, <1>2, <1>4, <2>3, <2>4
    <3>2. typed[e - 1] \in {"<", ">"}
      BY <1>1, <1>3, <2>4, <3>1 DEF Char, Nul
    <3>3. e = l + 1 /\ newline
      BY <3>2 DEF Unspilt, e, l
    <3>4. n = l + 2
      BY <1>1, <3>1, <3>3
    <3> QED BY <1>1, <2>5, <3>3, <3>4
  <2>7. ~r.open => \A i \in n .. e - 1 : d[i] \in {typed[i], Nul}
    <3>1. ASSUME ~r.open, NEW i \in n .. e - 1 PROVE d[i] \in {typed[i], Nul}
      <4>1. i \in c .. e - 1 /\ i \in 1 .. MaxInput /\ ~(i < n)
        BY <1>1, <1>2
      <4> QED BY <1>3, <2>2, <3>1, <4>1
    <3> QED BY <3>1
  <2>8. Char(d, e) = Nul /\ Unread(d, e + 1)
    BY <1>1, <2>5 DEF Char, Unread, l
  <2>9. From <= n /\ (n <= e \/ (n = e + 1 /\ Char(d, n) = Nul))
    BY <1>1, <1>2, <1>3, <2>4, <2>6 DEF Char
  <2>10. ~r.open => Inside(d, n)
    BY <2>7, <2>8, <2>9 DEF Inside, e
  <2>11. IsToken(r) => r.token \in From .. e - 1 /\ ~r.open
    BY <1>1, <1>3, <1>4, <2>3
  <2> QED BY <2>8, <2>10, <2>11 DEF d, n, e
<1>6. CASE c = e + 1 /\ b[c] = Nul
  <2>1. Within(r, b, c)
    <3>1. c \in c .. Beyond /\ Char(b, c) = Nul
      BY <1>1, <1>6 DEF Char
    <3> QED BY <3>1 DEF Local
  <2>2. ~IsToken(r)
    BY <1>1, <1>4, <2>1 DEF Within
  <2>3. n = c
    BY <1>1, <1>2, <2>1, <2>2 DEF Within, n
  <2>4. \A i \in 1 .. MaxInput : d[i] = b[i]
    <3>1. \A i \in 1 .. MaxInput : d[i] # b[i] => c <= i /\ i < c
      BY <2>1 DEF Within, Local, d
    <3> QED BY <1>1, <3>1
  <2>5. /\ e \in 1 .. MaxInput /\ c \in 1 .. MaxInput /\ l + 1 \in 1 .. MaxInput /\ l + 2 \in 1 .. MaxInput
        /\ \A i \in e + 1 .. l : i \in 1 .. MaxInput
    BY <1>1, <1>6
  <2>6. Char(d, e) = Nul /\ Unread(d, e + 1)
    BY <1>3, <2>4, <2>5 DEF Char, Unread, l
  <2>7. Inside(d, n)
    <3>1. \A i \in n .. e - 1 : FALSE
      BY <1>1, <1>6, <2>3
    <3>2. From <= n /\ n = e + 1 /\ Char(d, n) = Nul
      BY <1>3, <1>6, <2>3, <2>4, <2>5 DEF Char
    <3> QED BY <2>6, <3>1, <3>2 DEF Inside, e
  <2> QED BY <2>2, <2>6, <2>7 DEF n, d, e
<1> QED BY <1>3, <1>5, <1>6

-----------------------------------------------------------------------------
(* Segments and commands *)

\* There is a segment for every command, and for the one being parsed.
SegmentInv ==
  /\ segments \in Seq(Places \X Places)
  /\ piped =>
       /\ pc \in {"token", "file"} =>
            Len(segments) = Len(cmds) + 1 /\ segments[Len(cmds) + 1] = <<segment, scan>>
       /\ pc \in {"segment", "validate", "run"} => Len(segments) = Len(cmds)
  /\ ~piped => pc # "segment" /\ (pc \in {"token", "file"} => cmds = <<>>)

LEMMA NoSegments == <<>> \in Seq(Places \X Places)
OBVIOUS

LEMMA InitSegments == Init => SegmentInv
BY NoSegments DEF Init, SegmentInv

LEMMA SegmentInvStep == ASSUME LineInv, SegmentInv, Next PROVE SegmentInv'
<1> USE DEF lineVars, pipelineVars, commandVars
<1> DEFINE Pairs == Places \X Places
<1>1. CASE ReadLine
  <2> DEFINE text == Text(buffer', 1)
  <2>1. piped' = ("|" \in {text[i] : i \in DOMAIN text}) /\ pc' = AfterReading(text, piped')
    BY <1>1 DEF ReadLine
  <2> HIDE DEF text
  <2>2. pc' = "segment" => piped'
    BY <2>1 DEF AfterReading
  <2>3. pc' \in {"exited", "prompt", "segment", "token"} /\ (pc' = "token" => ~piped')
    BY <2>1 DEF AfterReading
  <2>4. segments' = <<>> /\ cmds' = <<>> /\ Len(<<>>) = 0
    BY <1>1, EmptyFacts DEF ReadLine
  <2> HIDE DEF Pairs
  <2> QED BY <2>2, <2>3, <2>4, NoSegments DEF SegmentInv
<1>2. CASE ReadTooLong
  <2>1. pc' = "prompt" /\ segments' = <<>>
    BY <1>2 DEF ReadTooLong
  <2> HIDE DEF Pairs
  <2> QED BY <2>1, NoSegments DEF SegmentInv
<1>3. CASE SplitSegment
  <2>1. /\ pc = "segment" /\ pc' = "token" /\ UNCHANGED <<piped, segment, cmds>> /\ scan' = SegmentEnd
        /\ segments' = Append(segments, <<segment, SegmentEnd>>)
    BY <1>3 DEF SplitSegment
  <2>2. <<segment, SegmentEnd>> \in Pairs /\ segments \in Seq(Pairs)
    BY SegmentFacts DEF LineInv, SegmentInv
  <2> HIDE DEF Pairs, SegmentEnd
  <2>3. /\ segments' \in Seq(Pairs) /\ Len(segments') = Len(segments) + 1
        /\ segments'[Len(segments) + 1] = <<segment, SegmentEnd>>
    BY <2>1, <2>2
  <2> QED BY <2>1, <2>3 DEF SegmentInv, Pairs
<1>4. CASE SegmentFails
  BY <1>4 DEF SegmentFails, Fail, SegmentInv
<1>5. CASE ParseCommand
  <2> DEFINE r == NextToken(buffer, cursor)
  <2>1. Argument(r) \/ Redirection(r) \/ FileName(r) \/ EndCommand(r)
    BY <1>5 DEF ParseCommand
  <2> HIDE DEF r
  <2>2. CASE Argument(r) \/ Redirection(r) \/ FileName(r)
    <3>1. /\ UNCHANGED <<piped, segment, scan, cmds, segments>>
          /\ pc \in {"token", "file"} /\ pc' \in {"token", "file", "prompt"}
      BY <2>2 DEF Argument, Redirection, FileName, Fail
    <3> QED BY <3>1 DEF SegmentInv
  <2>3. CASE EndCommand(r)
    <3>1. pc = "token" /\ UNCHANGED <<piped, segments>>
      BY <2>3 DEF EndCommand
    <3>2. pc' = "prompt" \/ (cmds' = Append(cmds, cmd) /\ pc' \in {"segment", "validate"} /\ (pc' = "segment" => piped))
      BY <2>3 DEF EndCommand, CommandDone, Fail
    <3>3. Len(Append(cmds, cmd)) = Len(cmds) + 1
      BY DEF LineInv
    <3> QED BY <3>1, <3>2, <3>3 DEF SegmentInv
  <2> QED BY <2>1, <2>2, <2>3
<1>6. CASE Overrun \/ EndOfInput \/ Accept \/ Reject \/ Run \/ Exited
  <2>1. /\ UNCHANGED <<piped, segments, cmds>> /\ pc' \in {"prompt", "validate", "run", "exited", "overrun"}
        /\ pc' \in {"validate", "run"} => pc \in {"validate", "run"}
    BY <1>6 DEF Overrun, EndOfInput, Accept, Reject, Run, Exited, Fail, vars
  <2> QED BY <2>1 DEF SegmentInv
<1> QED BY <1>1, <1>2, <1>3, <1>4, <1>5, <1>6 DEF Next

\* The commands: those that are done, and the one being parsed.
CommandsShape ==
  /\ Len(cmds) \in Nat /\ \A k \in 1 .. Len(cmds) : cmds[k] \in CommandSet
  /\ cmd \in CommandSet
  /\ pc \in {"token", "file"} =>
       /\ DOMAIN Commands = 1 .. Len(cmds) + 1
       /\ \A k \in 1 .. Len(cmds) : Commands[k] = cmds[k]
       /\ Commands[Len(cmds) + 1] = cmd
  /\ pc \notin {"token", "file"} => Commands = cmds /\ DOMAIN Commands = 1 .. Len(cmds)

LEMMA CommandsFacts == LineInv => CommandsShape
<1> SUFFICES ASSUME LineInv PROVE CommandsShape
  OBVIOUS
<1>1. cmds \in Seq(CommandSet) /\ cmd \in CommandSet
  BY DEF LineInv
<1> HIDE DEF CommandSet
<1>2. Len(cmds) \in Nat /\ DOMAIN cmds = 1 .. Len(cmds) /\ \A k \in 1 .. Len(cmds) : cmds[k] \in CommandSet
  BY <1>1
<1>3. /\ DOMAIN Append(cmds, cmd) = 1 .. Len(cmds) + 1 /\ Append(cmds, cmd)[Len(cmds) + 1] = cmd
      /\ \A k \in 1 .. Len(cmds) : Append(cmds, cmd)[k] = cmds[k]
  BY <1>1
<1> QED BY <1>1, <1>2, <1>3 DEF Commands, CommandsShape

LEMMA CommandsNext == LineInv' => CommandsShape'
BY CommandsFacts, PTL

LEMMA CurrentFacts ==
  ASSUME LineInv, SegmentInv, pc \in {"token", "file"}
  PROVE  /\ FirstPlace(Len(cmds) + 1) = From /\ LastPlace(Len(cmds) + 1) = End - 1
         /\ ~Spills(Len(cmds) + 1) => Unspilt \/ End \notin 1 .. Len(typed) + 1
<1>1. FirstPlace(Len(cmds) + 1) = From /\ LastPlace(Len(cmds) + 1) = End - 1
  <2>1. CASE piped
    BY <2>1 DEF SegmentInv, FirstPlace, LastPlace, From, End
  <2>2. CASE ~piped
    <3>1. Len(typed) + 1 - 1 = Len(typed)
      BY PlacesOfLine
    <3> QED BY <2>2, <3>1 DEF FirstPlace, LastPlace, From, End
  <2> QED BY <2>1, <2>2
<1>2. ASSUME ~Spills(Len(cmds) + 1), End \in 1 .. Len(typed) + 1 PROVE Unspilt
  <2>1. typed[End - 1] \in {"<", ">"} => ~(End - 1 < Len(typed)) /\ newline
    BY <1>1, <1>2 DEF Spills
  <2> QED BY <1>2, <2>1, PlacesOfLine DEF Unspilt
<1> QED BY <1>1, <1>2

\* What is known of a segment stays.
LEMMA PlacesStay ==
  ASSUME NEW k, UNCHANGED <<piped, typed, newline>>, piped => segments'[k] = segments[k]
  PROVE  /\ FirstPlace(k)' = FirstPlace(k) /\ LastPlace(k)' = LastPlace(k)
         /\ Spills(k)' <=> Spills(k)
BY DEF FirstPlace, LastPlace, Spills

-----------------------------------------------------------------------------
(* What is still to be read *)

\* No command of the line ends with an operator that takes the cursor over the
\* 0 behind it.
Clean == \A k \in DOMAIN Commands : ~Spills(k)

UnreadInv ==
  /\ pc \in {"token", "file"} /\ Clean =>
       /\ End \in 1 .. Len(typed) + 1 /\ (piped /\ more => End <= Len(typed))
       /\ Inside(buffer, cursor)
  /\ pc = "segment" /\ Clean => segment \in 1 .. Len(typed) + 1 /\ Unread(buffer, segment)

CleanShape ==
  /\ pc \in {"token", "file"} =>
       (Clean <=> (\A k \in 1 .. Len(cmds) : ~Spills(k)) /\ ~Spills(Len(cmds) + 1))
  /\ pc \notin {"token", "file"} => (Clean <=> \A k \in 1 .. Len(cmds) : ~Spills(k))

LEMMA CleanFacts == LineInv => CleanShape
<1> SUFFICES ASSUME LineInv PROVE CleanShape
  OBVIOUS
<1> USE DEF CommandsShape
<1>1. Len(cmds) \in Nat
  BY CommandsFacts
<1>2. \A k : k \in 1 .. Len(cmds) + 1 <=> k \in 1 .. Len(cmds) \/ k = Len(cmds) + 1
  BY <1>1
<1>3. CASE pc \in {"token", "file"}
  <2>1. DOMAIN Commands = 1 .. Len(cmds) + 1
    BY <1>3, CommandsFacts
  <2> QED BY <1>2, <1>3, <2>1 DEF Clean, CleanShape
<1>4. CASE pc \notin {"token", "file"}
  <2>1. DOMAIN Commands = 1 .. Len(cmds)
    BY <1>4, CommandsFacts
  <2> QED BY <1>4, <2>1 DEF Clean, CleanShape
<1> QED BY <1>3, <1>4

LEMMA CleanNext == LineInv' => CleanShape'
BY CleanFacts, PTL

LEMMA ReadLineUnread == ASSUME LineInv, ReadLine PROVE UnreadInv'
<1> DEFINE text == Text(buffer', 1)
           l == Line(stream)
           d == Filled(stream)
<1>1. /\ stream \in Inputs /\ stream # <<>> /\ ~TooLong(stream)
      /\ buffer' = d /\ typed' = l /\ newline' = Ended(stream)
      /\ segment' = 1 /\ cursor' = 1
      /\ piped' = ("|" \in {text[i] : i \in DOMAIN text}) /\ pc' = AfterReading(text, piped')
  BY DEF LineInv, ReadLine
<1> HIDE DEF text
<1>2. pc' \in {"exited", "prompt", "segment", "token"} /\ (pc' = "token" => ~piped')
  BY <1>1 DEF AfterReading
<1>3. /\ Len(l) \in Nat /\ Len(l) <= MaxInput - 2
      /\ \A i \in 1 .. Len(l) : d[i] = l[i]
      /\ d[Len(l) + 1] = Nul
      /\ Ended(stream) => d[Len(l) + 2] = Nul
  BY <1>1, TypedFacts
<1> HIDE DEF l, d
<1>4. Unread(buffer, segment)'
  BY <1>1, <1>3 DEF Unread
<1>5. pc' = "token" => (End \in 1 .. Len(typed) + 1 /\ Inside(buffer, cursor))'
  <2> SUFFICES ASSUME pc' = "token" PROVE (End \in 1 .. Len(typed) + 1 /\ Inside(buffer, cursor))'
    OBVIOUS
  <2>1. End' = Len(l) + 1 /\ From' = 1
    BY <1>1, <1>2 DEF End, From
  <2>2. End' \in 1 .. Len(l) + 1 /\ MaxInput \in Nat
    BY <1>3, <2>1, PlaceFacts
  <2>3. Char(d, Len(l) + 1) = Nul
    BY <1>3 DEF Char
  <2>4. \A i \in 1 .. End' - 1 : d[i] = l[i]
    BY <1>3, <2>1
  <2>5. Unread(buffer, End + 1)'
    <3>1. \A i \in End' + 1 .. Len(l) : d[i] = l[i]
      BY <1>3, <2>1
    <3> QED BY <1>1, <1>3, <3>1 DEF Unread
  <2> QED BY <1>1, <1>3, <2>1, <2>2, <2>3, <2>4, <2>5 DEF Inside
<1> QED BY <1>1, <1>2, <1>3, <1>4, <1>5 DEF UnreadInv

LEMMA SplitClean == ASSUME LineInv, SegmentInv, LineInv', SplitSegment, Clean' PROVE Clean
<1> DEFINE Pairs == Places \X Places
           new == <<segment, SegmentEnd>>
<1>1. /\ pc = "segment" /\ pc' = "token" /\ segments' = Append(segments, new)
      /\ UNCHANGED <<piped, typed, newline, segment, cmds>>
  BY DEF SplitSegment, lineVars
<1>2. piped /\ segments \in Seq(Pairs) /\ Len(segments) = Len(cmds) /\ new \in Pairs
  BY <1>1, SegmentFacts DEF SegmentInv, LineInv
<1>3. \A k \in 1 .. Len(cmds) : ~Spills(k)'
  BY <1>1, CleanNext DEF CleanShape
<1> HIDE DEF Pairs, new
<1>4. ASSUME NEW k \in 1 .. Len(cmds) PROVE ~Spills(k)
  <2>1. segments'[k] = segments[k]
    BY <1>1, <1>2
  <2> QED BY <1>1, <1>3, <2>1, PlacesStay
<1> QED BY <1>1, <1>4, CleanFacts DEF CleanShape

LEMMA SplitUnread == ASSUME LineInv, SegmentInv, LineInv', SegmentInv', UnreadInv, SplitSegment PROVE UnreadInv'
<1> DEFINE e == SegmentEnd
           l == Len(typed)
           d == Trimmed
<1>1. /\ pc = "segment" /\ pc' = "token" /\ cursor' = SegmentStart /\ SegmentStart < e /\ scan' = e
      /\ more' = (Char(buffer, e) = "|") /\ buffer' = d
      /\ UNCHANGED <<piped, typed, newline, segment>>
  BY DEF SplitSegment, lineVars
<1>2. piped
  BY <1>1 DEF SegmentInv
<1>3. SUFFICES ASSUME Clean' PROVE (End \in 1 .. Len(typed) + 1 /\ (piped /\ more => End <= Len(typed)) /\ Inside(buffer, cursor))'
  BY <1>1 DEF UnreadInv
<1>4. Clean
  BY <1>3, SplitClean
<1>5. segment \in 1 .. l + 1 /\ Unread(buffer, segment)
  BY <1>1, <1>4 DEF UnreadInv
<1>6. /\ l \in Nat /\ l + 2 <= MaxInput /\ MaxInput \in Nat /\ Beyond = MaxInput + 1
      /\ segment \in Nat /\ segment >= 1 /\ segment <= l + 1
  BY <1>5, PlacesOfLine, PlaceFacts
<1>7. /\ e \in Nat /\ segment <= e /\ e <= Beyond
      /\ SegmentStart \in Nat /\ segment <= SegmentStart
      /\ \A i \in 1 .. MaxInput : d[i] # buffer[i] => i \in segment .. e /\ d[i] = Nul
      /\ Char(d, e) = Nul
  <2>1. buffer \in [1 .. MaxInput -> Chars] /\ segment \in Places
    BY DEF LineInv
  <2>2. e \in segment .. Beyond /\ SegmentStart \in segment .. Beyond
    BY <2>1, SegmentFacts
  <2>3. /\ \A i \in 1 .. MaxInput : d[i] # buffer[i] => i \in segment .. e /\ d[i] = Nul
        /\ Char(d, e) = Nul
    BY <2>1, SegmentFacts
  <2> HIDE DEF e, d
  <2> QED BY <1>6, <2>2, <2>3
<1>8. Char(buffer, e) \in {"|", Nul} /\ \A j \in segment .. e - 1 : Char(buffer, j) \notin {"|", Nul}
  BY FirstOfFacts DEF LineInv, SegmentEnd
<1> HIDE DEF e, d, l
<1>9. buffer[l + 1] = Nul /\ (newline => buffer[l + 2] = Nul) /\ \A i \in segment .. l : buffer[i] = typed[i]
  BY <1>5 DEF Unread, l
<1>10. e <= l + 1
  <2>1. Char(buffer, l + 1) = Nul
    BY <1>6, <1>9 DEF Char
  <2> QED BY <1>6, <1>7, <1>8, <2>1
<1>11. Char(buffer, e) = "|" => e <= l
  <2>1. Char(buffer, l + 1) # "|"
    BY <1>6, <1>9 DEF Char, Nul
  <2>2. Char(buffer, e) = "|" => e # l + 1
    BY <2>1
  <2> QED BY <1>6, <1>7, <1>10, <2>2
<1>12. d[l + 1] = Nul /\ (newline => d[l + 2] = Nul) /\ \A i \in e + 1 .. l : d[i] = typed[i]
  <2>1. l + 1 \in 1 .. MaxInput /\ l + 2 \in 1 .. MaxInput /\ \A i \in e + 1 .. l : i \in 1 .. MaxInput /\ i \in segment .. l /\ i \notin segment .. e
    BY <1>6, <1>7, <1>10
  <2> QED BY <1>7, <1>9, <2>1
<1>13. \A i \in SegmentStart .. e - 1 : d[i] \in {typed[i], Nul}
  <2>1. \A i \in SegmentStart .. e - 1 : i \in 1 .. MaxInput /\ i \in segment .. l
    BY <1>6, <1>7, <1>10
  <2> QED BY <1>7, <1>9, <2>1
<1>14. End' = e /\ From' = segment /\ typed' = typed /\ newline' = newline
  BY <1>1, <1>2 DEF End, From
<1>15. Unread(buffer, End + 1)'
  BY <1>1, <1>12, <1>14 DEF Unread, l
<1>16. Inside(buffer, cursor)'
  BY <1>1, <1>6, <1>7, <1>13, <1>14, <1>15 DEF Inside
<1>17. e \in 1 .. l + 1
  BY <1>6, <1>7, <1>10
<1> QED BY <1>1, <1>11, <1>14, <1>16, <1>17 DEF l

\* The token that is found lies in its command, and the cursor stays in it.
LEMMA TokenInside ==
  ASSUME LineInv, SegmentInv, UnreadInv, Clean, pc \in {"token", "file"}, Closed(buffer, cursor),
         NEW r, r = NextToken(buffer, cursor)
  PROVE  /\ End \in 1 .. Len(typed) + 1 /\ (piped /\ more => End <= Len(typed)) /\ Unspilt
         /\ Char(r.buffer, End) = Nul /\ Unread(r.buffer, End + 1)
         /\ IsToken(r) => r.token \in From .. End - 1 /\ ~r.open
         /\ ~r.open => Inside(r.buffer, r.next)
<1>1. End \in 1 .. Len(typed) + 1 /\ (piped /\ more => End <= Len(typed)) /\ Inside(buffer, cursor)
  BY DEF UnreadInv
<1>2. Unspilt
  BY <1>1, CleanFacts, CurrentFacts DEF CleanShape
<1>3. buffer \in [1 .. MaxInput -> Chars] /\ cursor \in Places /\ Good(r, cursor) /\ Local(r, buffer, cursor)
  BY TokenFacts DEF LineInv
<1> QED BY <1>1, <1>2, <1>3, InsideStep

\* A line in which nothing spills had no such command before.
LEMMA CleanStays ==
  ASSUME LineInv, LineInv', UNCHANGED <<piped, typed, newline, segments>>, pc \in {"token", "file"},
         \/ pc' \in {"token", "file"} /\ UNCHANGED cmds
         \/ pc' \notin {"token", "file"} /\ cmds' = Append(cmds, cmd)
  PROVE  Clean' <=> Clean
<1>1. Len(cmds) \in Nat /\ Len(Append(cmds, cmd)) = Len(cmds) + 1
  BY CommandsFacts DEF CommandsShape, LineInv
<1>2. \A k : k \in 1 .. Len(cmds) + 1 <=> k \in 1 .. Len(cmds) \/ k = Len(cmds) + 1
  BY <1>1
<1>3. ASSUME NEW k PROVE Spills(k)' <=> Spills(k)
  BY PlacesStay
<1>4. CASE pc' \in {"token", "file"} /\ UNCHANGED cmds
  BY <1>3, <1>4, CleanFacts, CleanNext DEF CleanShape
<1>5. CASE pc' \notin {"token", "file"} /\ cmds' = Append(cmds, cmd)
  <2>1. Clean' <=> \A k \in 1 .. Len(cmds) + 1 : ~Spills(k)'
    BY <1>1, <1>5, CleanNext DEF CleanShape
  <2>2. Clean <=> \A k \in 1 .. Len(cmds) + 1 : ~Spills(k)
    BY <1>2, CleanFacts DEF CleanShape
  <2> QED BY <1>3, <2>1, <2>2
<1> QED BY <1>4, <1>5

LEMMA ParseUnread ==
  ASSUME LineInv, AdvanceInv, SegmentInv, LineInv', UnreadInv, ParseCommand
  PROVE  UnreadInv'
<1> DEFINE r == NextToken(buffer, cursor)
<1>1. /\ pc \in {"token", "file"} /\ Closed(buffer, cursor)
      /\ Argument(r) \/ Redirection(r) \/ FileName(r) \/ EndCommand(r)
  BY DEF ParseCommand
<1> HIDE DEF r
<1>2. CASE Argument(r) \/ Redirection(r) \/ FileName(r)
  <2>1. /\ UNCHANGED <<piped, typed, newline, segment, scan, more, cmds, segments>>
        /\ buffer' = r.buffer /\ cursor' = r.next
        /\ pc' = "prompt" \/ (pc' \in {"token", "file"} /\ IsToken(r))
    BY <1>2 DEF Argument, Redirection, FileName, Fail, Take, lineVars, pipelineVars
  <2> SUFFICES ASSUME pc' \in {"token", "file"}, Clean'
               PROVE  (End \in 1 .. Len(typed) + 1 /\ (piped /\ more => End <= Len(typed)) /\ Inside(buffer, cursor))'
    BY <2>1 DEF UnreadInv
  <2>2. Clean
    BY <1>1, <2>1, CleanStays
  <2>3. /\ End \in 1 .. Len(typed) + 1 /\ (piped /\ more => End <= Len(typed))
        /\ Inside(r.buffer, r.next)
    BY <1>1, <2>1, <2>2, TokenInside DEF r
  <2>4. End' = End /\ From' = From
    BY <2>1 DEF End, From
  <2>5. Inside(buffer, cursor)'
    BY <2>1, <2>3, <2>4 DEF Inside, Unread
  <2> QED BY <2>1, <2>3, <2>4, <2>5
<1>3. CASE EndCommand(r)
  <2> DEFINE s == NextToken(r.buffer, r.next)
  <2>1. /\ pc = "token" /\ UNCHANGED <<piped, typed, newline, segments, scan, more>>
        /\ buffer' = r.buffer \/ (~HasRoom /\ ~r.open /\ buffer' = s.buffer)
    BY <1>3 DEF EndCommand, lineVars
  <2>2. \/ pc' = "prompt"
        \/ ~r.open /\ cmds' = Append(cmds, cmd) /\ pc' = "segment" /\ piped /\ more /\ segment' = scan + 1
        \/ ~r.open /\ cmds' = Append(cmds, cmd) /\ pc' = "validate"
    BY <1>3 DEF EndCommand, CommandDone, Fail
  <2> SUFFICES ASSUME pc' = "segment", Clean'
               PROVE  (segment \in 1 .. Len(typed) + 1 /\ Unread(buffer, segment))'
    BY <2>2 DEF UnreadInv
  <2>3. Clean
    BY <2>1, <2>2, CleanStays
  <2>4. /\ End \in 1 .. Len(typed) + 1 /\ (piped /\ more => End <= Len(typed)) /\ Unspilt
        /\ Unread(r.buffer, End + 1)
        /\ Inside(r.buffer, r.next)
    BY <1>1, <2>2, <2>3, TokenInside DEF r
  <2>5. ~HasRoom => Unread(s.buffer, End + 1)
    <3>1. r.buffer \in [1 .. MaxInput -> Chars] /\ r.next \in Places
      BY <1>1, TokenFacts DEF r
    <3>2. ~HasRoom => Good(s, r.next) /\ Local(s, r.buffer, r.next)
      BY <1>1, <1>3, <2>2, SecondFacts DEF r
    <3> HIDE DEF s
    <3> QED BY <2>4, <3>1, <3>2, InsideStep
  <2> HIDE DEF s
  <2>6. Unread(buffer', End + 1)
    BY <2>1, <2>4, <2>5
  <2>7. segment' = End + 1 /\ piped
    BY <2>2 DEF End
  <2>8. Unread(buffer, segment)'
    BY <2>1, <2>6, <2>7 DEF Unread
  <2>9. segment' \in 1 .. Len(typed) + 1
    BY <2>2, <2>4, <2>7, PlacesOfLine
  <2> QED BY <2>1, <2>8, <2>9
<1> QED BY <1>1, <1>2, <1>3

LEMMA InitUnread == Init => UnreadInv
BY DEF Init, UnreadInv

LEMMA UnreadStep ==
  ASSUME LineInv, AdvanceInv, SegmentInv, LineInv', SegmentInv', UnreadInv, Next
  PROVE  UnreadInv'
<1>1. CASE ReadTooLong \/ SegmentFails \/ Overrun \/ EndOfInput \/ Accept \/ Reject \/ Run \/ Exited
  <2>1. pc' \notin {"token", "file", "segment"}
    BY <1>1 DEF ReadTooLong, SegmentFails, Overrun, EndOfInput, Accept, Reject, Run, Exited, Fail, vars
  <2> QED BY <2>1 DEF UnreadInv
<1> QED BY <1>1, ReadLineUnread, SplitUnread, ParseUnread DEF Next

-----------------------------------------------------------------------------
(* The end of the line, and of the array *)

\* The input ended, with no newline, right after an operator.
OperatorLast == ~newline /\ typed # <<>> /\ typed[Len(typed)] \in {"<", ">"}

\* The 0 behind the line is where it was, and the one for the newline; only
\* where the input ended after an operator does the parser pass the last one.
Ending(b, c) ==
  /\ b[Len(typed) + 1] = Nul
  /\ newline => b[Len(typed) + 2] = Nul
  /\ typed # <<>> => b[Len(typed)] \in {typed[Len(typed)], Nul}
  /\ \/ c <= Len(typed) + 1
     \/ newline /\ c <= Len(typed) + 2
     \/ OperatorLast /\ c > Len(typed) + 1

EndInv ==
  /\ pc = "segment" => Ending(buffer, segment) /\ segment <= Len(typed) + 1
  /\ pc \in {"token", "file"} => Ending(buffer, cursor) /\ (piped /\ more => scan <= Len(typed))
  /\ pc = "overrun" => OperatorLast

LEMMA EndingStep ==
  ASSUME LineInv, NEW b \in [1 .. MaxInput -> Chars], NEW c \in Places, NEW r,
         Good(r, c), Local(r, b, c), Ending(b, c)
  PROVE  Ending(r.buffer, r.next)
<1> DEFINE l == Len(typed)
           n == r.next
           d == r.buffer
<1>1. /\ l \in Nat /\ l + 2 <= MaxInput /\ MaxInput \in Nat /\ Beyond = MaxInput + 1
      /\ c \in Nat /\ c >= 1 /\ n \in Nat /\ n >= c
      /\ typed # <<>> <=> l >= 1
  <2>1. l \in Nat /\ l + 2 <= MaxInput
    BY PlacesOfLine
  <2>2. typed # <<>> <=> l >= 1
    BY <2>1 DEF LineInv
  <2> QED BY <2>1, <2>2, PlaceFacts DEF Good, Places
<1>2. /\ b[l + 1] = Nul /\ (newline => b[l + 2] = Nul) /\ (l >= 1 => b[l] \in {typed[l], Nul})
      /\ c <= l + 1 \/ (newline /\ c <= l + 2) \/ (OperatorLast /\ c > l + 1)
  BY <1>1 DEF Ending
<1>3. IsToken(r) => r.token \in Nat /\ r.token >= c
  BY <1>1 DEF Good
<1>4. \A i \in 1 .. MaxInput : i < c => d[i] = b[i]
  BY <1>1 DEF Local
<1> HIDE DEF l, n, d
<1>5. CASE c <= l + 1
  <2>1. Within(r, b, l + 1)
    <3>1. l + 1 \in c .. Beyond /\ Char(b, l + 1) = Nul
      BY <1>1, <1>2, <1>5 DEF Char
    <3> QED BY <3>1 DEF Local
  <2>2. \A i \in 1 .. MaxInput : d[i] # b[i] => i < l + 1 /\ (i = l => d[i] = Nul)
    <3>1. \A e : Within(r, b, e) =>
            \A i \in 1 .. MaxInput : d[i] # b[i] => i < e /\ (i = e - 1 => d[i] = Nul)
      BY DEF Within, d
    <3> QED BY <1>1, <2>1, <3>1
  <2>3. d[l + 1] = Nul /\ (newline => d[l + 2] = Nul) /\ (l >= 1 => d[l] \in {typed[l], Nul})
    <3>1. /\ l + 1 \in 1 .. MaxInput /\ ~(l + 1 < l + 1) /\ l + 2 \in 1 .. MaxInput /\ ~(l + 2 < l + 1)
          /\ l >= 1 => l \in 1 .. MaxInput
      BY <1>1
    <3> QED BY <1>2, <2>2, <3>1
  <2>4. n > l + 1 => n = l + 2 /\ IsToken(r) /\ r.token < l + 1 /\ Char(b, l + 1 - 1) \in {"<", ">"}
    BY <1>1, <2>1 DEF Within, n
  <2>5. n > l + 1 => l >= 1 /\ typed[l] \in {"<", ">"}
    <3> SUFFICES ASSUME n > l + 1 PROVE l >= 1 /\ typed[l] \in {"<", ">"}
      OBVIOUS
    <3>1. l >= 1 /\ l <= MaxInput /\ l + 1 - 1 = l
      BY <1>1, <1>3, <2>4
    <3>2. b[l] \in {"<", ">"}
      BY <2>4, <3>1 DEF Char
    <3> QED BY <1>2, <3>1, <3>2 DEF Nul
  <2>6. n <= l + 1 \/ (newline /\ n <= l + 2) \/ (OperatorLast /\ n > l + 1)
    BY <1>1, <2>4, <2>5 DEF OperatorLast, LineInv, l
  <2> QED BY <1>1, <2>3, <2>6 DEF Ending, l, n, d
<1>6. CASE newline /\ c = l + 2
  <2>1. Within(r, b, l + 2)
    <3>1. l + 2 \in c .. Beyond /\ Char(b, l + 2) = Nul
      BY <1>1, <1>2, <1>6 DEF Char
    <3> QED BY <3>1 DEF Local
  <2>2. n <= l + 2
    BY <1>1, <1>3, <1>6, <2>1 DEF Within, n
  <2>3. d[l + 1] = Nul /\ d[l + 2] = Nul /\ (l >= 1 => d[l] \in {typed[l], Nul})
    <3>1. l + 1 \in 1 .. MaxInput /\ l + 2 \in 1 .. MaxInput /\ (l >= 1 => l \in 1 .. MaxInput)
      BY <1>1
    <3>2. \A i \in 1 .. MaxInput : d[i] # b[i] => i < l + 2
      BY <2>1 DEF Within, d
    <3>3. d[l + 2] = Nul
      BY <1>1, <1>2, <1>6, <3>1, <3>2
    <3> QED BY <1>1, <1>2, <1>4, <1>6, <3>1, <3>3
  <2> QED BY <1>1, <1>6, <2>2, <2>3 DEF Ending, l, n, d
<1>7. CASE OperatorLast /\ c > l + 1
  <2>1. d[l + 1] = Nul /\ (l >= 1 => d[l] \in {typed[l], Nul})
    <3>1. l + 1 \in 1 .. MaxInput /\ (l >= 1 => l \in 1 .. MaxInput)
      BY <1>1
    <3> QED BY <1>1, <1>2, <1>4, <1>7, <3>1
  <2>2. n > l + 1
    BY <1>1, <1>7
  <2> QED BY <1>1, <1>7, <2>1, <2>2 DEF Ending, OperatorLast, l, n, d
<1> QED BY <1>1, <1>2, <1>5, <1>6, <1>7

LEMMA ReadLineEnding == ASSUME LineInv, LineInv', ReadLine PROVE EndInv'
<1> DEFINE text == Text(buffer', 1)
           l == Line(stream)
           d == Filled(stream)
<1>1. /\ stream \in Inputs /\ stream # <<>> /\ ~TooLong(stream)
      /\ buffer' = d /\ typed' = l /\ newline' = Ended(stream)
      /\ segment' = 1 /\ cursor' = 1 /\ more' = FALSE
      /\ pc' = AfterReading(text, piped')
  BY DEF LineInv, ReadLine
<1> HIDE DEF text
<1>2. pc' \in {"exited", "prompt", "segment", "token"}
  BY <1>1 DEF AfterReading
<1>3. /\ l \in Seq(Chars \ {Nul}) /\ Len(l) \in Nat
      /\ \A i \in 1 .. Len(l) : d[i] = l[i]
      /\ d[Len(l) + 1] = Nul
      /\ Ended(stream) => d[Len(l) + 2] = Nul
  BY <1>1, TypedFacts
<1> HIDE DEF l, d
<1>4. l # <<>> => Len(l) \in 1 .. Len(l)
  BY <1>3
<1>5. 1 <= Len(l) + 1
  BY <1>3
<1>6. Ending(buffer, segment)' /\ Ending(buffer, cursor)'
  BY <1>1, <1>3, <1>4, <1>5 DEF Ending
<1> QED BY <1>1, <1>2, <1>5, <1>6 DEF EndInv

LEMMA SplitEnding == ASSUME LineInv, EndInv, SplitSegment PROVE EndInv'
<1> DEFINE e == SegmentEnd
           l == Len(typed)
           d == Trimmed
<1>1. /\ pc = "segment" /\ pc' = "token" /\ cursor' = SegmentStart /\ SegmentStart < e /\ scan' = e
      /\ more' = (Char(buffer, e) = "|") /\ buffer' = d
      /\ UNCHANGED <<piped, typed, newline, segment>>
  BY DEF SplitSegment, lineVars
<1>2. /\ l \in Nat /\ l + 2 <= MaxInput /\ MaxInput \in Nat /\ Beyond = MaxInput + 1
      /\ segment \in Nat /\ segment >= 1 /\ segment <= l + 1
      /\ typed # <<>> => l >= 1
  BY <1>1, PlacesOfLine, PlaceFacts DEF LineInv, EndInv, Places
<1>3. buffer[l + 1] = Nul /\ (newline => buffer[l + 2] = Nul) /\ (typed # <<>> => buffer[l] \in {typed[l], Nul})
  BY <1>1 DEF EndInv, Ending
<1>4. /\ e \in segment .. Beyond /\ SegmentStart \in segment .. Beyond
      /\ \A i \in 1 .. MaxInput : d[i] # buffer[i] => d[i] = Nul
  BY SegmentFacts DEF LineInv
<1>5. \A z \in segment .. Beyond : Char(buffer, z) \in {"|", Nul} => e <= z
  BY FirstOfFacts DEF LineInv, SegmentEnd
<1> HIDE DEF e, d, l
<1>6. l + 1 \in segment .. Beyond /\ Char(buffer, l + 1) = Nul
  BY <1>2, <1>3 DEF Char
<1>7. e <= l + 1
  BY <1>5, <1>6
<1>8. Char(buffer, e) = "|" => e # l + 1
  BY <1>6 DEF Nul
<1>9. d[l + 1] = Nul /\ (newline => d[l + 2] = Nul) /\ (typed # <<>> => d[l] \in {typed[l], Nul})
  <2>1. l + 1 \in 1 .. MaxInput /\ l + 2 \in 1 .. MaxInput /\ (typed # <<>> => l \in 1 .. MaxInput)
    BY <1>2
  <2> QED BY <1>3, <1>4, <2>1
<1>10. cursor' <= l + 1 /\ (more' => scan' <= l)
  <2>1. e \in Nat /\ SegmentStart \in Nat
    BY <1>2, <1>4
  <2>2. more' => scan' = e /\ e # l + 1
    BY <1>1, <1>8
  <2>3. e # l + 1 => e <= l
    BY <1>2, <1>7, <2>1
  <2> QED BY <1>1, <1>2, <1>7, <2>1, <2>2, <2>3
<1>11. Ending(buffer, cursor)'
  BY <1>1, <1>9, <1>10 DEF Ending, l
<1> QED BY <1>1, <1>10, <1>11 DEF EndInv, l

LEMMA ParseEnding == ASSUME LineInv, EndInv, ParseCommand PROVE EndInv'
<1> DEFINE r == NextToken(buffer, cursor)
           s == NextToken(r.buffer, r.next)
<1>1. /\ pc \in {"token", "file"} /\ Closed(buffer, cursor)
      /\ Argument(r) \/ Redirection(r) \/ FileName(r) \/ EndCommand(r)
  BY DEF ParseCommand
<1>2. Ending(buffer, cursor) /\ (piped /\ more => scan <= Len(typed))
  BY <1>1 DEF EndInv
<1>3. /\ buffer \in [1 .. MaxInput -> Chars] /\ cursor \in Places
      /\ r.buffer \in [1 .. MaxInput -> Chars] /\ r.next \in Places
      /\ Good(r, cursor) /\ Local(r, buffer, cursor)
  BY <1>1, TokenFacts DEF LineInv
<1> HIDE DEF r
<1>4. Ending(r.buffer, r.next)
  BY <1>2, <1>3, EndingStep
<1>5. CASE Argument(r) \/ Redirection(r) \/ FileName(r)
  <2>1. /\ UNCHANGED <<piped, typed, newline, scan, more>>
        /\ buffer' = r.buffer /\ cursor' = r.next /\ pc' \in {"prompt", "token", "file"}
    BY <1>5 DEF Argument, Redirection, FileName, Fail, Take, lineVars, pipelineVars
  <2>2. Ending(buffer, cursor)'
    BY <1>4, <2>1 DEF Ending, OperatorLast
  <2> QED BY <1>2, <2>1, <2>2 DEF EndInv
<1>6. CASE EndCommand(r)
  <2>1. /\ UNCHANGED <<piped, typed, newline, scan, more>>
        /\ buffer' = r.buffer \/ (~HasRoom /\ ~r.open /\ buffer' = s.buffer)
    BY <1>6 DEF EndCommand, lineVars
  <2>2. pc' \in {"prompt", "validate"} \/ (pc' = "segment" /\ piped /\ more /\ segment' = scan + 1)
    BY <1>6 DEF EndCommand, CommandDone, Fail
  <2>3. ~HasRoom /\ ~r.open => Ending(s.buffer, s.next)
    <3>1. ~HasRoom /\ ~r.open => Good(s, r.next) /\ Local(s, r.buffer, r.next)
      BY <1>1, <1>6, SecondFacts DEF r
    <3> HIDE DEF s
    <3> QED BY <1>3, <1>4, <3>1, EndingStep
  <2> HIDE DEF s
  <2> SUFFICES ASSUME pc' = "segment" PROVE (Ending(buffer, segment) /\ segment <= Len(typed) + 1)'
    BY <2>2 DEF EndInv
  <2>4. segment' <= Len(typed) + 1
    BY <1>2, <2>2, PlacesOfLine, PlaceFacts DEF LineInv, Places
  <2>5. buffer' = r.buffer => Ending(buffer, segment)'
    BY <1>4, <2>1, <2>4 DEF Ending
  <2>6. ~HasRoom /\ ~r.open /\ buffer' = s.buffer => Ending(buffer, segment)'
    BY <2>1, <2>3, <2>4 DEF Ending
  <2> QED BY <2>1, <2>4, <2>5, <2>6
<1> QED BY <1>1, <1>5, <1>6

\* Only from there does the parser read on behind the array.
LEMMA EndingCloses ==
  ASSUME LineInv, NEW b \in [1 .. MaxInput -> Chars], NEW c \in Places, Ending(b, c), ~OperatorLast
  PROVE  Closed(b, c)
<1>1. Len(typed) \in Nat /\ Len(typed) + 2 <= MaxInput /\ c \in Nat /\ c >= 1 /\ MaxInput \in Nat
  BY PlacesOfLine, PlaceFacts DEF Places
<1>2. CASE c <= Len(typed) + 1
  <2>1. Len(typed) + 1 \in c .. MaxInput
    BY <1>1, <1>2
  <2> QED BY <2>1 DEF Closed, Ending
<1>3. CASE newline /\ c <= Len(typed) + 2
  <2>1. Len(typed) + 2 \in c .. MaxInput
    BY <1>1, <1>3
  <2> QED BY <1>3, <2>1 DEF Closed, Ending
<1> QED BY <1>2, <1>3 DEF Ending

LEMMA OverrunEnding == ASSUME LineInv, EndInv, Overrun PROVE EndInv'
<1> DEFINE r == NextToken(buffer, cursor)
<1>1. pc' = "overrun" /\ UNCHANGED <<typed, newline>> /\ pc \in {"segment", "token", "file"}
  BY DEF Overrun, lineVars
<1>2. SUFFICES ASSUME ~OperatorLast PROVE FALSE
  BY <1>1 DEF EndInv, OperatorLast
<1>3. buffer \in [1 .. MaxInput -> Chars] /\ segment \in Places /\ cursor \in Places
  BY DEF LineInv
<1>4. CASE pc = "segment"
  <2>1. Closed(buffer, segment)
    BY <1>2, <1>3, <1>4, EndingCloses DEF EndInv
  <2> QED BY <1>4, <2>1 DEF Overrun
<1>5. CASE pc \in {"token", "file"}
  <2>1. Ending(buffer, cursor) /\ Closed(buffer, cursor)
    BY <1>2, <1>3, <1>5, EndingCloses DEF EndInv
  <2>2. /\ r.buffer \in [1 .. MaxInput -> Chars] /\ r.next \in Places
        /\ Good(r, cursor) /\ Local(r, buffer, cursor)
    BY <2>1, TokenFacts
  <2>3. ~Closed(r.buffer, r.next)
    BY <1>5, <2>1 DEF Overrun
  <2> HIDE DEF r
  <2>4. Ending(r.buffer, r.next)
    BY <1>3, <2>1, <2>2, EndingStep
  <2> QED BY <1>2, <2>2, <2>3, <2>4, EndingCloses
<1> QED BY <1>1, <1>4, <1>5

LEMMA InitEnding == Init => EndInv
BY DEF Init, EndInv

LEMMA EndingNext == ASSUME LineInv, LineInv', EndInv, Next PROVE EndInv'
<1>1. CASE ReadTooLong \/ SegmentFails \/ EndOfInput \/ Accept \/ Reject \/ Run
  <2>1. pc' \notin {"token", "file", "segment", "overrun"}
    BY <1>1 DEF ReadTooLong, SegmentFails, EndOfInput, Accept, Reject, Run, Fail, vars
  <2> QED BY <2>1 DEF EndInv
<1>2. CASE Exited
  BY <1>2 DEF Exited, EndInv, Ending, OperatorLast, vars, lineVars, pipelineVars, commandVars
<1> QED BY <1>1, <1>2, ReadLineEnding, SplitEnding, ParseEnding, OverrunEnding DEF Next

-----------------------------------------------------------------------------
(* Tokens belong to their command *)

LEMMA NoPointers == Pointers(EmptyCommand) = {}
<1>1. EmptyCommand.args = <<>> /\ EmptyCommand.files = [o \in Operators |-> Nowhere]
  BY DEF EmptyCommand
<1>2. DOMAIN <<>> = {}
  OBVIOUS
<1>3. {EmptyCommand.args[k] : k \in DOMAIN EmptyCommand.args} = {}
  BY <1>1, <1>2
<1>4. {EmptyCommand.files[o] : o \in Operators} \subseteq {Nowhere}
  BY <1>1
<1> QED BY <1>3, <1>4 DEF Pointers

LEMMA PointersFacts ==
  ASSUME NEW c \in CommandSet
  PROVE  /\ Pointers(c) \subseteq Places
         /\ \A t \in Places : Pointers([c EXCEPT !.args = Append(@, t)]) \subseteq Pointers(c) \cup {t}
         /\ \A o : \A t \in Places : Pointers([c EXCEPT !.files[o] = t]) \subseteq Pointers(c) \cup {t}
<1> HIDE DEF Operators
<1>1. c \in [args : Seq(Places), files : [Operators -> Places \cup {Nowhere}]]
  BY DEF CommandSet
<1>2. \A k \in DOMAIN c.args : c.args[k] \in Places
  BY <1>1
<1>3. \A o \in Operators : c.files[o] \in Places \cup {Nowhere}
  BY <1>1
<1>4. Pointers(c) \subseteq Places
  BY <1>2, <1>3 DEF Pointers
<1>5. ASSUME NEW t \in Places PROVE Pointers([c EXCEPT !.args = Append(@, t)]) \subseteq Pointers(c) \cup {t}
  <2> DEFINE d == [c EXCEPT !.args = Append(@, t)]
  <2>1. d.args = Append(c.args, t) /\ d.files = c.files
    BY <1>1
  <2> HIDE DEF d
  <2>2. ASSUME NEW k \in DOMAIN d.args PROVE d.args[k] = t \/ (k \in DOMAIN c.args /\ d.args[k] = c.args[k])
    <3> DEFINE s == c.args
    <3>1. s \in Seq(Places) /\ d.args = Append(s, t)
      BY <1>1, <2>1
    <3> HIDE DEF s
    <3>2. k \in 1 .. Len(s) + 1 /\ Len(s) \in Nat /\ DOMAIN s = 1 .. Len(s)
      BY <2>2, <3>1
    <3>3. CASE k = Len(s) + 1
      BY <3>1, <3>3
    <3>4. CASE k # Len(s) + 1
      <4>1. k \in 1 .. Len(s)
        BY <3>2, <3>4
      <4> QED BY <3>1, <3>2, <4>1 DEF s
    <3> QED BY <3>3, <3>4
  <2> QED BY <2>1, <2>2 DEF Pointers, d
<1>6. ASSUME NEW o, NEW t \in Places PROVE Pointers([c EXCEPT !.files[o] = t]) \subseteq Pointers(c) \cup {t}
  <2> DEFINE d == [c EXCEPT !.files[o] = t]
  <2>1. d.args = c.args /\ \A p \in Operators : d.files[p] = t \/ d.files[p] = c.files[p]
    BY <1>1
  <2> HIDE DEF d
  <2> QED BY <2>1 DEF Pointers, d
<1> QED BY <1>4, <1>5, <1>6

LEMMA TokenPointers ==
  ASSUME LineInv, Closed(buffer, cursor), NEW r, r = NextToken(buffer, cursor),
         Argument(r) \/ Redirection(r) \/ FileName(r)
  PROVE  \A q \in Pointers(cmd') : q \in Pointers(cmd) \/ (IsToken(r) /\ q = r.token)
<1>1. cmd \in CommandSet /\ (IsToken(r) => r.token \in Places)
  BY TokenFacts DEF LineInv
<1>2. CASE Argument(r)
  BY <1>1, <1>2, PointersFacts DEF Argument
<1>3. CASE Redirection(r)
  BY <1>3 DEF Redirection
<1>4. CASE FileName(r)
  <2>1. cmd' = cmd \/ (IsToken(r) /\ cmd' = [cmd EXCEPT !.files[operator] = r.token])
    BY <1>4 DEF FileName
  <2>2. \A t \in Places : Pointers([cmd EXCEPT !.files[operator] = t]) \subseteq Pointers(cmd) \cup {t}
    BY <1>1, PointersFacts
  <2> QED BY <1>1, <2>1, <2>2
<1> QED BY <1>2, <1>3, <1>4

\* The commands of the line when a token has been taken, or a command is done.
LEMMA CommandsStay ==
  ASSUME LineInv, LineInv', pc \in {"token", "file"},
         \/ pc' \in {"token", "file"} /\ UNCHANGED cmds
         \/ pc' \notin {"token", "file"} /\ cmds' = Append(cmds, cmd) /\ UNCHANGED cmd
  PROVE  /\ DOMAIN Commands' = 1 .. Len(cmds) + 1 /\ DOMAIN Commands = 1 .. Len(cmds) + 1
         /\ \A k \in 1 .. Len(cmds) : Commands'[k] = Commands[k]
         /\ Commands'[Len(cmds) + 1] = cmd' /\ Commands[Len(cmds) + 1] = cmd
<1>1. Len(cmds) \in Nat /\ cmds \in Seq(CommandSet) /\ cmd \in CommandSet
  BY CommandsFacts DEF CommandsShape, LineInv
<1>2. /\ DOMAIN Append(cmds, cmd) = 1 .. Len(cmds) + 1 /\ Len(Append(cmds, cmd)) = Len(cmds) + 1
      /\ \A k \in 1 .. Len(cmds) : Append(cmds, cmd)[k] = cmds[k]
      /\ Append(cmds, cmd)[Len(cmds) + 1] = cmd
  <2> HIDE DEF CommandSet
  <2> QED BY <1>1
<1>3. CASE pc' \in {"token", "file"} /\ UNCHANGED cmds
  BY <1>3, CommandsFacts, CommandsNext DEF CommandsShape
<1>4. CASE pc' \notin {"token", "file"} /\ cmds' = Append(cmds, cmd) /\ UNCHANGED cmd
  BY <1>2, <1>4, CommandsFacts, CommandsNext DEF CommandsShape
<1> QED BY <1>3, <1>4

InPlace ==
  pc \in {"token", "file", "segment", "validate", "run"} =>
    \A k \in DOMAIN Commands :
      (\A j \in 1 .. k : ~Spills(j)) => Pointers(Commands[k]) \subseteq FirstPlace(k) .. LastPlace(k)

LEMMA InitTokens == Init => InPlace
BY DEF Init, InPlace

LEMMA TokensStep ==
  ASSUME LineInv, SegmentInv, UnreadInv, InPlace, LineInv', SegmentInv', Next
  PROVE  InPlace'
<1> USE DEF lineVars, pipelineVars, commandVars, CommandsShape
<1>1. CASE ReadTooLong \/ SegmentFails \/ Overrun \/ EndOfInput \/ Reject \/ Run \/ Exited
  <2>1. pc' \in {"prompt", "exited", "overrun"}
    BY <1>1 DEF ReadTooLong, SegmentFails, Overrun, EndOfInput, Reject, Run, Exited, Fail, vars
  <2> QED BY <2>1 DEF InPlace
<1>2. CASE Accept
  <2>1. pc = "validate" /\ pc' = "run" /\ UNCHANGED <<piped, typed, newline, segments, cmds>>
    BY <1>2 DEF Accept
  <2>2. Commands' = Commands
    BY <2>1 DEF Commands
  <2>3. ASSUME NEW k PROVE /\ FirstPlace(k)' = FirstPlace(k) /\ LastPlace(k)' = LastPlace(k)
                           /\ Spills(k)' <=> Spills(k)
    BY <2>1, PlacesStay
  <2> QED BY <2>1, <2>2, <2>3 DEF InPlace
<1>3. CASE ReadLine
  <2>1. cmds' = <<>> /\ cmd' = EmptyCommand /\ Len(<<>>) = 0
    BY <1>3, EmptyFacts DEF ReadLine
  <2>2. ASSUME NEW k \in DOMAIN Commands' PROVE Pointers(Commands[k])' = {}
    <3>1. pc' \in {"token", "file"} /\ k = 1 /\ Commands'[k] = cmd'
      BY <2>1, <2>2, CommandsNext
    <3> QED BY <2>1, <3>1, NoPointers DEF Pointers
  <2> QED BY <2>2 DEF InPlace
<1>4. CASE SplitSegment
  <2>1. /\ pc = "segment" /\ pc' = "token" /\ cmd' = EmptyCommand
        /\ segments' = Append(segments, <<segment, SegmentEnd>>)
        /\ UNCHANGED <<piped, typed, newline, cmds>>
    BY <1>4 DEF SplitSegment
  <2>2. /\ DOMAIN Commands' = 1 .. Len(cmds) + 1 /\ DOMAIN Commands = 1 .. Len(cmds) /\ Len(cmds) \in Nat
        /\ \A k \in 1 .. Len(cmds) : Commands'[k] = Commands[k]
        /\ Commands'[Len(cmds) + 1] = EmptyCommand
    BY <2>1, CommandsFacts, CommandsNext
  <2>3. ASSUME NEW k \in 1 .. Len(cmds) PROVE segments'[k] = segments[k]
    <3> DEFINE Pairs == Places \X Places
               new == <<segment, SegmentEnd>>
    <3>1. new \in Pairs /\ segments \in Seq(Pairs) /\ Len(segments) = Len(cmds)
      BY <2>1, SegmentFacts DEF LineInv, SegmentInv
    <3>2. segments' = Append(segments, new)
      BY <2>1
    <3> HIDE DEF Pairs, new
    <3> QED BY <3>1, <3>2
  <2>4. ASSUME NEW k \in 1 .. Len(cmds)
        PROVE  /\ FirstPlace(k)' = FirstPlace(k) /\ LastPlace(k)' = LastPlace(k)
               /\ Spills(k)' <=> Spills(k)
    BY <2>1, <2>3, PlacesStay
  <2>5. ASSUME NEW k \in 1 .. Len(cmds), \A j \in 1 .. k : ~Spills(j)'
        PROVE  Pointers(Commands[k])' \subseteq FirstPlace(k)' .. LastPlace(k)'
    <3>1. \A j \in 1 .. k : j \in 1 .. Len(cmds)
      BY <2>2
    <3>2. \A j \in 1 .. k : ~Spills(j)
      BY <2>4, <2>5, <3>1
    <3>3. Pointers(Commands[k]) \subseteq FirstPlace(k) .. LastPlace(k)
      BY <2>1, <2>2, <3>2 DEF InPlace
    <3> QED BY <2>2, <2>4, <3>3 DEF Pointers
  <2>6. Pointers(Commands[Len(cmds) + 1])' = {}
    BY <2>1, <2>2, NoPointers DEF Pointers
  <2>7. \A k : k \in 1 .. Len(cmds) + 1 <=> k \in 1 .. Len(cmds) \/ k = Len(cmds) + 1
    BY <2>2
  <2> QED BY <2>1, <2>2, <2>5, <2>6, <2>7 DEF InPlace
<1>5. CASE ParseCommand
  <2> DEFINE r == NextToken(buffer, cursor)
             n == Len(cmds) + 1
  <2>1. /\ pc \in {"token", "file"} /\ Closed(buffer, cursor)
        /\ Argument(r) \/ Redirection(r) \/ FileName(r) \/ EndCommand(r)
    BY <1>5 DEF ParseCommand
  <2> HIDE DEF r
  <2>2. UNCHANGED <<piped, typed, newline, segments>>
    BY <2>1 DEF Argument, Redirection, FileName, EndCommand
  <2>3. ASSUME NEW k PROVE /\ FirstPlace(k)' = FirstPlace(k) /\ LastPlace(k)' = LastPlace(k)
                           /\ Spills(k)' <=> Spills(k)
    BY <2>2, PlacesStay
  <2> SUFFICES ASSUME pc' \in {"token", "file", "segment", "validate", "run"},
                      NEW k \in DOMAIN Commands', \A j \in 1 .. k : ~Spills(j)
               PROVE  Pointers(Commands'[k]) \subseteq FirstPlace(k) .. LastPlace(k)
    BY <2>3 DEF InPlace, Pointers
  <2>4. \/ /\ pc' \in {"token", "file"} /\ UNCHANGED cmds
           /\ Argument(r) \/ Redirection(r) \/ FileName(r)
        \/ pc' \notin {"token", "file"} /\ cmds' = Append(cmds, cmd) /\ UNCHANGED cmd
    BY <2>1 DEF Argument, Redirection, FileName, EndCommand, CommandDone, Fail
  <2>5. /\ DOMAIN Commands' = 1 .. n /\ DOMAIN Commands = 1 .. n
        /\ \A i \in 1 .. Len(cmds) : Commands'[i] = Commands[i]
        /\ Commands'[n] = cmd' /\ Commands[n] = cmd
    BY <2>1, <2>4, CommandsStay
  <2>6. Pointers(Commands[k]) \subseteq FirstPlace(k) .. LastPlace(k)
    BY <2>1, <2>5 DEF InPlace
  <2>7. CASE k \in 1 .. Len(cmds)
    BY <2>5, <2>6, <2>7
  <2>8. CASE k = n
    <3>1. CASE UNCHANGED cmd
      BY <2>5, <2>6, <2>8, <3>1
    <3>2. CASE Argument(r) \/ Redirection(r) \/ FileName(r)
      <4>1. \A q \in Pointers(cmd') : q \in Pointers(cmd) \/ (IsToken(r) /\ q = r.token)
        BY <2>1, <3>2, TokenPointers DEF r
      <4>2. Clean
        BY <2>5, <2>8 DEF Clean
      <4>3. IsToken(r) => r.token \in From .. End - 1
        BY <2>1, <4>2, TokenInside DEF r
      <4>4. FirstPlace(n) = From /\ LastPlace(n) = End - 1
        BY <2>1, CurrentFacts
      <4> QED BY <2>5, <2>6, <2>8, <4>1, <4>3, <4>4
    <3> QED BY <2>4, <3>1, <3>2
  <2>9. k \in 1 .. Len(cmds) \/ k = n
    BY <2>5, CommandsFacts
  <2> QED BY <2>7, <2>8, <2>9
<1> QED BY <1>1, <1>2, <1>3, <1>4, <1>5 DEF Next

-----------------------------------------------------------------------------
(* Tokens keep what they say *)

\* An array that agrees with b up to a 0 says the same from there.
LEMMA SameText ==
  ASSUME NEW b, NEW d, NEW q \in Places, NEW e \in q .. Beyond, Char(b, e) = Nul,
         \A i \in 1 .. MaxInput : i <= e => d[i] = b[i]
  PROVE  Text(d, q) = Text(b, q)
<1> DEFINE f == FirstOf(b, q, {Nul})
           g == FirstOf(d, q, {Nul})
<1>1. q \in Nat /\ q >= 1 /\ e \in Nat /\ q <= e /\ e <= Beyond /\ MaxInput \in Nat /\ Beyond = MaxInput + 1
  BY PlaceFacts DEF Places
<1>2. f \in q .. Beyond /\ Char(b, f) = Nul /\ \A j \in q .. f - 1 : Char(b, j) # Nul
  <2>1. /\ f \in q .. Beyond /\ Char(b, f) \in {Nul} /\ \A j \in q .. f - 1 : Char(b, j) \notin {Nul}
    BY FirstOfFacts
  <2> HIDE DEF f
  <2> QED BY <2>1
<1>3. g \in q .. Beyond /\ Char(d, g) = Nul /\ \A j \in q .. g - 1 : Char(d, j) # Nul
  <2>1. /\ g \in q .. Beyond /\ Char(d, g) \in {Nul} /\ \A j \in q .. g - 1 : Char(d, j) \notin {Nul}
    BY FirstOfFacts
  <2> HIDE DEF g
  <2> QED BY <2>1
<1>4. Text(b, q) = [k \in 1 .. f - q |-> b[q + k - 1]] /\ Text(d, q) = [k \in 1 .. g - q |-> d[q + k - 1]]
  BY DEF Text
<1> HIDE DEF f, g
<1>5. \A i \in q .. e : Char(d, i) = Char(b, i)
  BY <1>1 DEF Char
<1>6. f <= e
  BY <1>1, <1>2
<1>7. g = f
  BY <1>1, <1>2, <1>3, <1>5, <1>6
<1>8. \A k \in 1 .. f - q : d[q + k - 1] = b[q + k - 1]
  <2>1. ASSUME NEW k \in 1 .. f - q PROVE q + k - 1 \in 1 .. MaxInput /\ q + k - 1 <= e
    BY <1>1, <1>2, <1>6
  <2> QED BY <2>1
<1> QED BY <1>4, <1>7, <1>8

\* The token at q in b ends before n, or at n.
EndsBy(b, q, n) == \E e \in q .. n : Char(b, e) = Nul

\* next_token, called at c, leaves the tokens that end there as they are.
LEMMA TokenKept ==
  ASSUME NEW b \in [1 .. MaxInput -> Chars], NEW c \in Places, NEW r, Good(r, c), Local(r, b, c),
         NEW q \in Places, EndsBy(b, q, c)
  PROVE  Text(r.buffer, q) = Text(b, q) /\ EndsBy(r.buffer, q, r.next)
<1>1. PICK e \in q .. c : Char(b, e) = Nul
  BY DEF EndsBy
<1>2. /\ q \in Nat /\ q >= 1 /\ e \in Nat /\ c \in Nat /\ c >= 1 /\ q <= e /\ e <= c /\ c <= Beyond
      /\ MaxInput \in Nat /\ Beyond = MaxInput + 1
  BY <1>1, PlaceFacts DEF Places
<1>3. r.next \in Nat /\ c <= r.next
  BY <1>2 DEF Good
<1>4. \A i \in 1 .. MaxInput : i <= e => r.buffer[i] = b[i]
  <2>1. \A i \in 1 .. MaxInput : r.buffer[i] # b[i] => c <= i
    BY DEF Local
  <2>2. CASE e < c
    BY <1>2, <2>1, <2>2
  <2>3. CASE e = c
    <3>1. Within(r, b, c)
      <4>1. c \in c .. Beyond /\ Char(b, c) = Nul
        BY <1>1, <1>2, <2>3
      <4> QED BY <4>1 DEF Local
    <3>2. \A i \in 1 .. MaxInput : r.buffer[i] # b[i] => i < c
      BY <3>1 DEF Within
    <3> QED BY <1>2, <2>1, <3>2
  <2> QED BY <1>2, <2>2, <2>3
<1>5. e \in q .. Beyond
  BY <1>2
<1>6. Text(r.buffer, q) = Text(b, q)
  BY <1>1, <1>3, <1>4, <1>5, SameText
<1>7. EndsBy(r.buffer, q, r.next)
  <2>1. Char(r.buffer, e) = Nul
    BY <1>1, <1>2, <1>4 DEF Char
  <2>2. e \in q .. r.next
    BY <1>2, <1>3
  <2> QED BY <2>1, <2>2 DEF EndsBy
<1> QED BY <1>6, <1>7

AllPointers == UNION {Pointers(Commands[k]) : k \in DOMAIN Commands}

\* The tokens found so far end before the place where the parse goes on, or,
\* as long as the command is not done, at that place.
KeptInv ==
  Clean =>
    /\ pc \in {"token", "file"} => \A q \in AllPointers : q < End /\ EndsBy(buffer, q, cursor)
    /\ pc = "segment" => \A q \in AllPointers : q < segment /\ EndsBy(buffer, q, segment - 1)

LEMMA PointersPlaces == ASSUME LineInv PROVE AllPointers \subseteq Places
<1> USE DEF CommandsShape
<1>1. ASSUME NEW k \in DOMAIN Commands PROVE Commands[k] \in CommandSet
  <2>1. CASE pc \in {"token", "file"}
    <3>1. k \in 1 .. Len(cmds) \/ k = Len(cmds) + 1
      BY <2>1, CommandsFacts
    <3> QED BY <2>1, <3>1, CommandsFacts
  <2>2. CASE pc \notin {"token", "file"}
    BY <2>2, CommandsFacts
  <2> QED BY <2>1, <2>2
<1> QED BY <1>1, PointersFacts DEF AllPointers

\* What a step of parse_command adds to the tokens.
LEMMA PointersAdded ==
  ASSUME LineInv, LineInv', pc \in {"token", "file"}, pc' # "prompt", Closed(buffer, cursor),
         NEW r, r = NextToken(buffer, cursor), Argument(r) \/ Redirection(r) \/ FileName(r) \/ EndCommand(r)
  PROVE  \A q \in AllPointers' : q \in AllPointers \/ (pc' \in {"token", "file"} /\ IsToken(r) /\ q = r.token)
<1> USE DEF lineVars, pipelineVars, commandVars, CommandsShape
<1> DEFINE n == Len(cmds) + 1
<1>1. \/ /\ pc' \in {"token", "file"} /\ UNCHANGED cmds
         /\ Argument(r) \/ Redirection(r) \/ FileName(r)
      \/ pc' \notin {"token", "file"} /\ cmds' = Append(cmds, cmd) /\ UNCHANGED cmd
  BY DEF Argument, Redirection, FileName, EndCommand, CommandDone, Fail
<1>2. /\ DOMAIN Commands' = 1 .. n /\ DOMAIN Commands = 1 .. n
      /\ \A i \in 1 .. Len(cmds) : Commands'[i] = Commands[i]
      /\ Commands'[n] = cmd' /\ Commands[n] = cmd
  BY <1>1, CommandsStay
<1>3. Len(cmds) \in Nat /\ n \in 1 .. n
  BY CommandsFacts
<1>4. ASSUME NEW k \in 1 .. n, NEW q \in Pointers(Commands'[k])
      PROVE  q \in Pointers(Commands[k]) \/ (pc' \in {"token", "file"} /\ IsToken(r) /\ q = r.token)
  <2>1. CASE k = n
    BY <1>1, <1>2, <1>4, <2>1, TokenPointers
  <2>2. CASE k # n
    <3>1. k \in 1 .. Len(cmds)
      BY <1>3, <2>2
    <3> QED BY <1>2, <1>4, <3>1
  <2> QED BY <2>1, <2>2
<1>5. AllPointers' = UNION {Pointers(Commands'[k]) : k \in 1 .. n}
  BY <1>2 DEF AllPointers, Pointers
<1>6. AllPointers = UNION {Pointers(Commands[k]) : k \in 1 .. n}
  BY <1>2 DEF AllPointers
<1> QED BY <1>4, <1>5, <1>6

LEMMA SplitPointers == ASSUME LineInv, LineInv', SplitSegment PROVE AllPointers' = AllPointers
<1> USE DEF CommandsShape
<1>1. pc = "segment" /\ pc' = "token" /\ cmd' = EmptyCommand /\ UNCHANGED cmds
  BY DEF SplitSegment
<1>2. /\ DOMAIN Commands' = 1 .. Len(cmds) + 1 /\ DOMAIN Commands = 1 .. Len(cmds) /\ Len(cmds) \in Nat
      /\ \A k \in 1 .. Len(cmds) : Commands'[k] = Commands[k]
      /\ Commands'[Len(cmds) + 1] = EmptyCommand
  BY <1>1, CommandsFacts, CommandsNext
<1>3. \A k : k \in 1 .. Len(cmds) + 1 <=> k \in 1 .. Len(cmds) \/ k = Len(cmds) + 1
  BY <1>2
<1>4. AllPointers' = UNION {Pointers(Commands'[k]) : k \in 1 .. Len(cmds) + 1}
  BY <1>2 DEF AllPointers, Pointers
<1>5. AllPointers = UNION {Pointers(Commands[k]) : k \in 1 .. Len(cmds)}
  BY <1>2 DEF AllPointers
<1>6. Pointers(Commands'[Len(cmds) + 1]) = {}
  BY <1>2, NoPointers
<1> QED BY <1>2, <1>3, <1>4, <1>5, <1>6

LEMMA ReadLinePointers == ASSUME LineInv', ReadLine PROVE AllPointers' = {}
<1>1. cmds' = <<>> /\ cmd' = EmptyCommand /\ Len(<<>>) = 0
  BY EmptyFacts DEF ReadLine
<1>2. ASSUME NEW k \in DOMAIN Commands' PROVE Pointers(Commands'[k]) = {}
  <2>1. pc' \in {"token", "file"} /\ k = 1 /\ Commands'[k] = cmd'
    BY <1>1, <1>2, CommandsNext DEF CommandsShape
  <2> QED BY <1>1, <2>1, NoPointers
<1>3. AllPointers' = UNION {Pointers(Commands'[k]) : k \in DOMAIN Commands'}
  BY DEF AllPointers, Pointers
<1> QED BY <1>2, <1>3

\* A segment is cut off behind the tokens found so far.
LEMMA SplitKept ==
  ASSUME LineInv, SegmentInv, KeptInv, Clean, SplitSegment, NEW q \in AllPointers
  PROVE  q < End' /\ EndsBy(buffer', q, cursor') /\ Text(buffer', q) = Text(buffer, q)
<1>1. /\ pc = "segment" /\ buffer' = Trimmed /\ cursor' = SegmentStart /\ scan' = SegmentEnd /\ piped' /\ q \in Places
  BY PointersPlaces DEF SplitSegment, lineVars, SegmentInv
<1>2. q < segment /\ EndsBy(buffer, q, segment - 1)
  BY <1>1 DEF KeptInv
<1>3. buffer \in [1 .. MaxInput -> Chars] /\ segment \in Places
  BY DEF LineInv
<1>4. /\ SegmentEnd \in segment .. Beyond /\ SegmentStart \in segment .. Beyond
      /\ \A i \in 1 .. MaxInput : Trimmed[i] # buffer[i] => i \in segment .. SegmentEnd
  BY <1>3, SegmentFacts
<1> HIDE DEF SegmentEnd, SegmentStart, Trimmed
<1>5. PICK e \in q .. segment - 1 : Char(buffer, e) = Nul
  BY <1>2 DEF EndsBy
<1>6. q \in Nat /\ q >= 1 /\ e \in Nat /\ segment \in Nat /\ e < segment /\ q <= e /\ segment <= Beyond /\ Beyond = MaxInput + 1 /\ MaxInput \in Nat
  BY <1>1, <1>3, <1>5, PlaceFacts DEF Places
<1>7. \A i \in 1 .. MaxInput : i <= e => Trimmed[i] = buffer[i]
  BY <1>4, <1>6
<1>8. Text(Trimmed, q) = Text(buffer, q)
  <2>1. e \in q .. Beyond
    BY <1>6
  <2> QED BY <1>1, <1>3, <1>4, <1>5, <1>7, <2>1, SameText
<1>9. EndsBy(Trimmed, q, SegmentStart)
  <2>1. e \in q .. SegmentStart
    BY <1>4, <1>6
  <2>2. Char(Trimmed, e) = Nul
    BY <1>5, <1>6, <1>7 DEF Char
  <2> QED BY <2>1, <2>2 DEF EndsBy
<1>10. q < End'
  BY <1>1, <1>4, <1>6 DEF End
<1> QED BY <1>1, <1>8, <1>9, <1>10

\* So does parse_command go on behind the tokens found so far.
LEMMA ParseKept ==
  ASSUME LineInv, KeptInv, Clean, pc \in {"token", "file"}, Closed(buffer, cursor),
         NEW r, r = NextToken(buffer, cursor), NEW s, s = NextToken(r.buffer, r.next), NEW q \in AllPointers
  PROVE  /\ Text(r.buffer, q) = Text(buffer, q) /\ EndsBy(r.buffer, q, r.next)
         /\ EndCommand(r) /\ ~HasRoom /\ ~r.open => Text(s.buffer, q) = Text(buffer, q)
<1>1. q \in Places /\ EndsBy(buffer, q, cursor)
  BY PointersPlaces DEF KeptInv
<1>2. /\ buffer \in [1 .. MaxInput -> Chars] /\ cursor \in Places
      /\ Good(r, cursor) /\ Local(r, buffer, cursor)
      /\ r.buffer \in [1 .. MaxInput -> Chars] /\ r.next \in Places
  BY TokenFacts DEF LineInv
<1>3. Text(r.buffer, q) = Text(buffer, q) /\ EndsBy(r.buffer, q, r.next)
  BY <1>1, <1>2, TokenKept
<1>4. ASSUME EndCommand(r), ~HasRoom, ~r.open PROVE Text(s.buffer, q) = Text(r.buffer, q)
  <2>1. Good(s, r.next) /\ Local(s, r.buffer, r.next)
    BY <1>4, SecondFacts
  <2> QED BY <1>1, <1>2, <1>3, <2>1, TokenKept
<1> QED BY <1>3, <1>4

LEMMA InitKept == Init => KeptInv
BY DEF Init, KeptInv

LEMMA KeptStep ==
  ASSUME LineInv, AdvanceInv, SegmentInv, UnreadInv, KeptInv, LineInv', SegmentInv', Next
  PROVE  KeptInv'
<1> USE DEF lineVars, pipelineVars, commandVars
<1>1. CASE ReadTooLong \/ SegmentFails \/ Overrun \/ EndOfInput \/ Accept \/ Reject \/ Run \/ Exited
  <2>1. pc' \notin {"token", "file", "segment"}
    BY <1>1 DEF ReadTooLong, SegmentFails, Overrun, EndOfInput, Accept, Reject, Run, Exited, Fail, vars
  <2> QED BY <2>1 DEF KeptInv
<1>2. CASE ReadLine
  BY <1>2, ReadLinePointers DEF KeptInv
<1>3. CASE SplitSegment
  <2> SUFFICES ASSUME Clean', NEW q \in AllPointers' PROVE q < End' /\ EndsBy(buffer', q, cursor')
    <3>1. pc' = "token"
      BY <1>3 DEF SplitSegment
    <3> QED BY <3>1 DEF KeptInv, EndsBy
  <2> QED BY <1>3, SplitClean, SplitPointers, SplitKept
<1>4. CASE ParseCommand
  <2> DEFINE r == NextToken(buffer, cursor)
             s == NextToken(r.buffer, r.next)
  <2>1. /\ pc \in {"token", "file"} /\ Closed(buffer, cursor)
        /\ Argument(r) \/ Redirection(r) \/ FileName(r) \/ EndCommand(r)
    BY <1>4 DEF ParseCommand
  <2> SUFFICES ASSUME Clean', pc' # "prompt", NEW q \in AllPointers'
               PROVE  /\ pc' \in {"token", "file"} => q < End' /\ EndsBy(buffer', q, cursor')
                      /\ pc' = "segment" => q < segment' /\ EndsBy(buffer', q, segment' - 1)
    BY DEF KeptInv, EndsBy
  <2>2. q \in AllPointers \/ (pc' \in {"token", "file"} /\ IsToken(r) /\ q = r.token)
    BY <2>1, PointersAdded
  <2> HIDE DEF r, s
  <2>3. \/ pc' \in {"token", "file"} /\ UNCHANGED cmds /\ (Argument(r) \/ Redirection(r) \/ FileName(r))
        \/ pc' \notin {"token", "file"} /\ cmds' = Append(cmds, cmd) /\ EndCommand(r)
    BY <2>1 DEF Argument, Redirection, FileName, EndCommand, CommandDone, Fail
  <2>4. Clean
    <3>1. UNCHANGED <<piped, typed, newline, segments>>
      BY <2>1 DEF Argument, Redirection, FileName, EndCommand
    <3> QED BY <2>1, <2>3, <3>1, CleanStays
  <2>5. q \in AllPointers => q < End /\ EndsBy(r.buffer, q, r.next)
    BY <2>1, <2>4, ParseKept DEF KeptInv, r
  <2>6. IsToken(r) => r.token < End /\ EndsBy(r.buffer, r.token, r.next)
    <3>1. IsToken(r) => r.token \in From .. End - 1 /\ End \in 1 .. Len(typed) + 1
      BY <2>1, <2>4, TokenInside DEF r
    <3>2. IsToken(r) => EndsBy(r.buffer, r.token, r.next)
      BY <2>1, TokenFacts DEF r, Good, EndsBy
    <3> QED BY <3>1, <3>2, PlacesOfLine
  <2>7. CASE Argument(r) \/ Redirection(r) \/ FileName(r)
    <3>1. buffer' = r.buffer /\ cursor' = r.next /\ UNCHANGED <<piped, scan, typed>> /\ pc' # "segment"
      BY <2>7 DEF Argument, Redirection, FileName, Take, Fail
    <3>2. End' = End
      BY <3>1 DEF End
    <3> QED BY <2>2, <2>5, <2>6, <3>1, <3>2
  <2>8. CASE pc' \notin {"token", "file"} /\ EndCommand(r)
    <3> SUFFICES ASSUME pc' = "segment" PROVE q < segment' /\ EndsBy(buffer', q, segment' - 1)
      BY <2>8
    <3>1. q \in AllPointers /\ q < End /\ q \in Places
      BY <2>2, <2>5, PointersPlaces
    <3>2. segment' = End + 1 /\ ~r.open /\ (buffer' = r.buffer \/ (~HasRoom /\ buffer' = s.buffer))
      BY <2>8 DEF EndCommand, CommandDone, Fail, End, s
    <3>3. End \in 1 .. Len(typed) + 1 /\ Unspilt /\ Char(r.buffer, End) = Nul /\ Inside(r.buffer, r.next)
      BY <2>1, <2>4, <3>2, TokenInside DEF r
    <3>4. ~HasRoom => Char(s.buffer, End) = Nul
      <4>1. r.buffer \in [1 .. MaxInput -> Chars] /\ r.next \in Places
        BY <2>1, TokenFacts DEF r
      <4>2. ~HasRoom => Good(s, r.next) /\ Local(s, r.buffer, r.next)
        BY <2>1, <2>8, <3>2, SecondFacts DEF r, s
      <4> QED BY <3>3, <4>1, <4>2, InsideStep
    <3>5. Char(buffer', End) = Nul
      BY <3>2, <3>3, <3>4
    <3>6. q \in Nat /\ End \in Nat
      BY <3>1, <3>3, PlacesOfLine, PlaceFacts DEF Places
    <3>7. End \in q .. End /\ segment' - 1 = End
      BY <3>1, <3>2, <3>6
    <3>8. EndsBy(buffer', q, segment' - 1)
      BY <3>5, <3>7 DEF EndsBy
    <3> QED BY <3>1, <3>2, <3>6, <3>8
  <2> QED BY <2>3, <2>7, <2>8
<1> QED BY <1>1, <1>2, <1>3, <1>4 DEF Next

LEMMA TextsKept ==
  ASSUME LineInv, SegmentInv, UnreadInv, KeptInv, Next, pc' # "prompt", pc # "prompt", Clean, NEW q \in AllPointers
  PROVE  Text(buffer', q) = Text(buffer, q)
<1> USE DEF lineVars, pipelineVars, commandVars
<1>1. CASE ReadLine \/ ReadTooLong \/ SegmentFails \/ Overrun \/ EndOfInput \/ Accept \/ Reject \/ Run \/ Exited
  <2>1. buffer' = buffer
    BY <1>1 DEF ReadLine, ReadTooLong, SegmentFails, Overrun, EndOfInput, Accept, Reject, Run, Exited, Fail, vars
  <2> QED BY <2>1
<1>2. CASE SplitSegment
  BY <1>2, SplitKept
<1>3. CASE ParseCommand
  <2> DEFINE r == NextToken(buffer, cursor)
             s == NextToken(r.buffer, r.next)
  <2>1. /\ pc \in {"token", "file"} /\ Closed(buffer, cursor)
        /\ Argument(r) \/ Redirection(r) \/ FileName(r) \/ EndCommand(r)
    BY <1>3 DEF ParseCommand
  <2>2. buffer' = r.buffer \/ (EndCommand(r) /\ ~HasRoom /\ ~r.open /\ buffer' = s.buffer)
    <3> HIDE DEF r
    <3> QED BY <2>1 DEF Argument, Redirection, FileName, Take, EndCommand
  <2> QED BY <2>1, <2>2, ParseKept
<1> QED BY <1>1, <1>2, <1>3 DEF Next

-----------------------------------------------------------------------------
(* The theorems *)

TokenInv == SegmentInv /\ UnreadInv /\ EndInv /\ InPlace /\ KeptInv

LEMMA TokenInvCorrect == Spec => []TokenInv
<1>1. Init => TokenInv
  BY InitSegments, InitUnread, InitEnding, InitTokens, InitKept DEF TokenInv
<1>2. LineInv /\ AdvanceInv /\ LineInv' /\ TokenInv /\ [Next]_vars => TokenInv'
  <2> SUFFICES ASSUME LineInv, AdvanceInv, LineInv', TokenInv, [Next]_vars PROVE TokenInv'
    OBVIOUS
  <2>1. CASE Next
    <3>1. SegmentInv'
      BY <2>1, SegmentInvStep DEF TokenInv
    <3> QED BY <2>1, <3>1, UnreadStep, EndingNext, TokensStep, KeptStep DEF TokenInv
  <2>2. CASE UNCHANGED vars
    <3> USE <2>2 DEF vars, lineVars, pipelineVars, commandVars
    <3>1. SegmentInv'
      BY DEF TokenInv, SegmentInv
    <3>2. Commands' = Commands
      BY DEF Commands
    <3>3. ASSUME NEW k PROVE /\ FirstPlace(k)' = FirstPlace(k) /\ LastPlace(k)' = LastPlace(k)
                             /\ Spills(k)' <=> Spills(k)
      BY PlacesStay
    <3>4. InPlace'
      BY <3>2, <3>3 DEF TokenInv, InPlace
    <3>5. (Clean' <=> Clean) /\ End' = End /\ From' = From /\ AllPointers' = AllPointers
      BY <3>2, <3>3 DEF Clean, End, From, AllPointers, Pointers
    <3>6. UnreadInv'
      BY <3>5 DEF TokenInv, UnreadInv, Inside, Unread
    <3>7. KeptInv'
      BY <3>5 DEF TokenInv, KeptInv, EndsBy
    <3>8. EndInv'
      BY DEF TokenInv, EndInv, Ending, OperatorLast
    <3> QED BY <3>1, <3>4, <3>6, <3>7, <3>8 DEF TokenInv
  <2> QED BY <2>1, <2>2
<1> QED BY LineCorrect, <1>1, <1>2, PTL DEF Spec

\* No command takes a token from another command of the pipeline, or from what
\* an earlier line has left in the array, unless it, or one before it, ends
\* with an operator that takes the cursor over its 0 (parser.c:34): in an array
\* of any size, whatever it held and whatever is typed.  And the parser does
\* not read on behind the array, or write there, unless the input ended right
\* after an operator: every line that ends with a newline is safe.
THEOREM TokensCorrect == Spec => []TokensInSegment
<1>1. EndInv /\ InPlace => TokensInSegment
  BY DEF EndInv, InPlace, OperatorLast, TokensInSegment
<1> QED BY TokenInvCorrect, <1>1, PTL DEF TokenInv

\* The text of a token does not change from when next_token returns it until
\* the line has been parsed, though the rest of the line is cut up and moved in
\* the same array; with the same exception.
THEOREM TokensStay == Spec => TokensKept
<1> DEFINE Step == pc' # "prompt" /\ pc # "prompt" /\ (\A k \in DOMAIN Commands : ~Spills(k)) =>
                     \A k \in DOMAIN Commands : \A p \in Pointers(Commands[k]) :
                       Text(buffer', p) = Text(buffer, p)
<1>1. LineInv /\ TokenInv /\ [Next]_vars => [Step]_vars
  <2> SUFFICES ASSUME LineInv, TokenInv, Next, pc' # "prompt", pc # "prompt", Clean,
                      NEW k \in DOMAIN Commands, NEW p \in Pointers(Commands[k])
               PROVE  Text(buffer', p) = Text(buffer, p)
    BY DEF Clean
  <2>1. p \in AllPointers
    BY DEF AllPointers
  <2> QED BY <2>1, TextsKept DEF TokenInv
<1> QED BY LineCorrect, TokenInvCorrect, <1>1, PTL DEF Spec, TokensKept

-----------------------------------------------------------------------------
(* No character is lost but the neighbours of operators *)

\* What becomes of the characters between the cursors: they are blank, or part
\* of the token, or they follow it, and one of the two is an operator.
Consumes(r, b, c) ==
  /\ r.used \subseteq c .. Beyond
  /\ IsToken(r) =>
       \A i \in c .. r.next - 1 :
         \/ Char(b, i) = Blank \/ i \in r.used
         \/ /\ i - 1 \in r.used
            /\ Char(b, i - 1) \in {"<", ">"} \/ Char(b, i) \in {"<", ">", "2"}
  /\ ~IsToken(r) /\ ~r.open =>
       r.buffer = b /\ Char(b, r.next) = Nul /\ \A i \in c .. r.next - 1 : Char(b, i) = Blank

LEMMA OperatorTokenConsumes ==
  ASSUME NEW b \in [1 .. MaxInput -> Chars], NEW c \in Places, NEW p \in c .. MaxInput,
         NEW n \in {1, 2}, p + n <= MaxInput, \A j \in c .. p - 1 : Char(b, j) = Blank, b[p + n - 1] \in {"<", ">"}
  PROVE  Consumes(OperatorToken(b, p, n), b, c)
<1> DEFINE r == OperatorToken(b, p, n)
<1>1. /\ r.next = p + n + 1 /\ r.token = p /\ r.used = p .. p + n - 1 /\ r.open = FALSE
      /\ c \in Nat /\ c >= 1 /\ p \in Nat /\ p >= c /\ MaxInput \in Nat /\ Beyond = MaxInput + 1
  BY PlaceFacts DEF OperatorToken, Result, Places
<1> HIDE DEF r
<1>2. ASSUME NEW i \in c .. r.next - 1, Char(b, i) # Blank, i \notin r.used
      PROVE  i - 1 \in r.used /\ Char(b, i - 1) \in {"<", ">"}
  <2>1. i = p + n
    BY <1>1, <1>2
  <2>2. i - 1 = p + n - 1 /\ p + n - 1 \in r.used /\ p + n - 1 <= MaxInput
    BY <1>1, <2>1
  <2> QED BY <2>2 DEF Char
<1>3. r.used \subseteq c .. Beyond /\ IsToken(r)
  BY <1>1 DEF IsToken, Nowhere
<1> QED BY <1>2, <1>3 DEF Consumes, r

LEMMA WordTokenConsumes ==
  ASSUME NEW b \in [1 .. MaxInput -> Chars], NEW c \in Places, NEW p \in c .. MaxInput - 1,
         \A j \in c .. p - 1 : Char(b, j) = Blank, b[p] \notin {Blank, Nul}, OperatorAt(b, p) = 0
  PROVE  Consumes(WordToken(b, c, p), b, c)
<1> DEFINE nul == FirstOf(b, p, {Nul})
           quote == Quoting(b, p, nul - 1)
           Ends(i) == quote[i] = "none" /\ (Char(b, i) = Blank \/ OperatorAt(b, i) > 0)
           ends == {i \in p .. nul - 1 : Ends(i)} \cup {nul}
           end == Min(ends)
           Kept(i) == b[i] \notin Quotes \/ quote[i] \notin {"none", b[i]}
           kept == {i \in p .. end - 1 : Kept(i)}
           size == Cardinality(kept)
           Nth(k) == CHOOSE i \in kept : Cardinality({j \in kept : j < i}) = k
           moved == [i \in 1 .. MaxInput |-> IF i \in p .. p + size - 1 THEN b[Nth(i - p)] ELSE b[i]]
<1>1. c \in Nat /\ c >= 1 /\ p \in Nat /\ p >= c /\ p < MaxInput /\ MaxInput \in Nat /\ Beyond = MaxInput + 1
  BY PlaceFacts DEF Places
<1>2. nul \in p .. Beyond /\ Char(b, nul) = Nul
  <2>1. p \in Places
    BY <1>1 DEF Places
  <2>2. nul \in p .. Beyond /\ Char(b, nul) \in {Nul}
    BY <2>1, FirstOfFacts
  <2> HIDE DEF nul
  <2> QED BY <2>2
<1>3. WordToken(b, c, p) =
        IF quote[end] # "none"
        THEN Result(Nowhere, c, moved, TRUE, {})
        ELSE Result(p, Past(end, nul), Cut(moved, {p + size}), FALSE, p .. end - 1)
  BY DEF WordToken
<1> HIDE DEF nul, moved, size
<1>4. Char(b, p) = b[p] /\ Char(b, p) # Blank /\ Char(b, p) # Nul /\ ~(OperatorAt(b, p) > 0) /\ p # nul
  BY <1>1, <1>2 DEF Char
<1>5. end \in ends /\ end \in p .. nul
  <2>1. ends \subseteq p .. nul
    BY <1>1, <1>2
  <2>2. ends \subseteq Nat /\ ends # {}
    BY <1>1, <1>2, <2>1
  <2> HIDE DEF ends
  <2> QED BY <2>1, <2>2, NatMin
<1> HIDE DEF end
<1>6. end # p /\ (end # nul => Char(b, end) \in {Blank, "<", ">", "2"})
  <2>1. end # nul => Ends(end)
    BY <1>5
  <2>2. end # nul => Char(b, end) = Blank \/ OperatorAt(b, end) > 0
    BY <2>1
  <2>3. OperatorAt(b, end) > 0 => Char(b, end) \in {"<", ">", "2"}
    BY DEF OperatorAt
  <2> HIDE DEF Ends, ends
  <2> QED BY <1>4, <2>2, <2>3
<1> HIDE DEF quote, ends
<1>7. ASSUME NEW r, r = Result(Nowhere, c, moved, TRUE, {}) PROVE Consumes(r, b, c)
  BY <1>7 DEF Result, Consumes, IsToken
<1>8. ASSUME NEW r, r = Result(p, Past(end, nul), Cut(moved, {p + size}), FALSE, p .. end - 1) PROVE Consumes(r, b, c)
  <2>1. r.token = p /\ r.next = Past(end, nul) /\ r.used = p .. end - 1
    BY <1>8 DEF Result
  <2>2. r.next = IF end = nul THEN end ELSE end + 1
    BY <2>1 DEF Past
  <2>3. end \in Nat /\ end > p /\ end <= Beyond
    BY <1>1, <1>2, <1>5, <1>6
  <2>4. IsToken(r) /\ r.used \subseteq c .. Beyond
    BY <1>1, <2>1, <2>3 DEF IsToken, Nowhere
  <2>5. ASSUME NEW i \in c .. r.next - 1, Char(b, i) # Blank, i \notin r.used
        PROVE  i - 1 \in r.used /\ Char(b, i) \in {"<", ">", "2"}
    <3>1. i = end /\ end # nul
      BY <1>1, <2>1, <2>2, <2>3, <2>5
    <3>2. i - 1 \in r.used
      BY <1>1, <2>1, <2>3, <3>1
    <3> QED BY <1>6, <2>5, <3>1, <3>2
  <2> QED BY <2>4, <2>5 DEF Consumes
<1> QED BY <1>3, <1>7, <1>8

LEMMA NextTokenConsumes ==
  ASSUME NEW b \in [1 .. MaxInput -> Chars], NEW c \in Places, Closed(b, c)
  PROVE  Consumes(NextToken(b, c), b, c)
<1> DEFINE p == FirstOf(b, c, Chars \ {Blank})
<1>1. /\ p \in c .. Beyond
      /\ \A i \in c .. Beyond : Char(b, i) \in Chars \ {Blank} => p <= i
      /\ Char(b, p) \in Chars \ {Blank}
      /\ \A j \in c .. p - 1 : Char(b, j) \notin Chars \ {Blank}
  BY FirstOfFacts, PlaceFacts
<1>2. /\ c \in Nat /\ c >= 1 /\ p \in Nat /\ p >= c /\ p <= Beyond
      /\ MaxInput \in Nat /\ Beyond = MaxInput + 1
  BY <1>1, PlaceFacts DEF Places
<1>3. \A j \in c .. p - 1 : Char(b, j) = Blank
  <2>1. \A j \in Places : Char(b, j) \in Chars
    BY PlaceFacts DEF Places, Char
  <2>2. \A j \in c .. p - 1 : j \in Places
    BY <1>2 DEF Places
  <2> QED BY <1>1, <2>1, <2>2
<1>4. PICK z \in c .. MaxInput : b[z] = Nul
  BY DEF Closed
<1> HIDE DEF p
<1>5. p <= z
  <2>1. z \in c .. Beyond /\ Char(b, z) \in Chars \ {Blank}
    BY <1>2, <1>4, PlaceFacts DEF Char
  <2> QED BY <1>1, <2>1
<1>6. CASE Char(b, p) = Nul
  <2> DEFINE r == NextToken(b, c)
  <2>1. r = Result(Nowhere, p, b, FALSE, {})
    BY <1>6 DEF NextToken, p
  <2>2. r.next = p /\ r.buffer = b /\ r.token = Nowhere /\ r.used = {}
    BY <2>1 DEF Result
  <2> HIDE DEF r
  <2>3. Consumes(r, b, c)
    BY <1>3, <1>6, <2>2 DEF Consumes, IsToken
  <2> QED BY <2>3 DEF r
<1>7. CASE Char(b, p) # Nul
  <2>1. p \in c .. MaxInput - 1 /\ p < z
    BY <1>2, <1>4, <1>5, <1>7 DEF Char
  <2>2. CASE OperatorAt(b, p) > 0
    <3> DEFINE n == OperatorAt(b, p)
    <3>1. n \in {1, 2} /\ Char(b, p + n - 1) \in {"<", ">"}
      BY <1>2, <2>2 DEF OperatorAt
    <3>2. NextToken(b, c) = OperatorToken(b, p, n)
      BY <1>7, <2>2 DEF NextToken, p
    <3> HIDE DEF n
    <3>3. p + n - 1 # z
      BY <1>2, <1>4, <3>1 DEF Char, Nul
    <3>4. p + n <= MaxInput /\ b[p + n - 1] \in {"<", ">"}
      BY <1>2, <1>4, <2>1, <3>1, <3>3 DEF Char
    <3>5. p \in c .. MaxInput
      BY <1>2, <2>1
    <3> QED BY <1>3, <3>1, <3>2, <3>4, <3>5, OperatorTokenConsumes
  <2>3. CASE OperatorAt(b, p) = 0
    <3>1. NextToken(b, c) = WordToken(b, c, p)
      BY <1>7, <2>3 DEF NextToken, p
    <3>2. b[p] \notin {Blank, Nul}
      BY <1>1, <1>2, <1>7, <2>1 DEF Char
    <3> QED BY <1>3, <2>1, <2>3, <3>1, <3>2, WordTokenConsumes
  <2> QED BY <2>2, <2>3 DEF OperatorAt
<1> QED BY <1>6, <1>7

Handled(i, T) ==
  \/ typed[i] \in {Blank, "|"}
  \/ i \in T
  \/ i - 1 \in T /\ (typed[i - 1] \in {"<", ">"} \/ typed[i] \in {"<", ">", "2"})

AllHandled(T) == \A i \in DOMAIN typed : Handled(i, T)
HandledTo(n, T) == \A i \in DOMAIN typed : i < n => Handled(i, T)

\* From n on the array holds the line as it was typed.
AsTyped(b, n) == (\A i \in n .. Len(typed) : b[i] = typed[i]) /\ b[Len(typed) + 1] = Nul

\* The cursor is in the command, which is as it was typed up to the blanks at
\* its end, and so are the commands that follow.
Before(b, c) ==
  /\ c <= End /\ End \in 1 .. Len(typed) + 1
  /\ End <= Len(typed) => piped /\ more /\ typed[End] = "|"
  /\ b[End] = Nul
  /\ \A i \in c .. End - 1 : b[i] = typed[i] \/ (b[i] = Nul /\ \A j \in i .. End - 1 : typed[j] = Blank)
  /\ AsTyped(b, End + 1)

\* What lies before the cursor has been handled, and what lies behind will be:
\* by this command and the next ones or, when an operator has taken the cursor
\* out of the command, by this one alone.
Pending(b, c, T) == HandledTo(c, T) /\ (Before(b, c) \/ (End < c /\ AsTyped(b, c)))

LEMMA PendingStep ==
  ASSUME LineInv, NEW T, NEW b \in [1 .. MaxInput -> Chars], NEW c \in Places, NEW r,
         Good(r, c), Local(r, b, c), Consumes(r, b, c), IsToken(r), Pending(b, c, T)
  PROVE  AllHandled(T \cup r.used) \/ Pending(r.buffer, r.next, T \cup r.used)
<1> DEFINE l == Len(typed)
           e == End
           n == r.next
           d == r.buffer
           U == T \cup r.used
<1>1. /\ l \in Nat /\ l + 2 <= MaxInput /\ MaxInput \in Nat /\ Beyond = MaxInput + 1
      /\ c \in Nat /\ c >= 1 /\ DOMAIN typed = 1 .. l
      /\ e \in Nat /\ e >= 1
      /\ \A i \in 1 .. l : typed[i] # Nul
  <2>1. e \in Nat /\ e >= 1
    BY PlacesOfLine, PlaceFacts DEF LineInv, End, Places
  <2>2. DOMAIN typed = 1 .. l
    BY DEF LineInv
  <2> QED BY <2>1, <2>2, PlacesOfLine, PlaceFacts DEF Places
<1>2. n \in Nat /\ n > c /\ ~r.open
  BY <1>1 DEF Good
<1>3. \A i \in 1 .. MaxInput : d[i] # b[i] => c <= i /\ i < n
  BY <1>2 DEF Local
<1> HIDE DEF l, e, n, d, U
<1>4. HandledTo(c, T) /\ (Before(b, c) \/ (e < c /\ AsTyped(b, c)))
  BY DEF Pending, e
<1>5. Before(b, c) =>
        /\ c <= e /\ e <= l + 1 /\ (e <= l => piped /\ more /\ typed[e] = "|") /\ b[e] = Nul
        /\ \A i \in c .. e - 1 : b[i] = typed[i] \/ (b[i] = Nul /\ \A j \in i .. e - 1 : typed[j] = Blank)
        /\ AsTyped(b, e + 1)
  BY <1>1 DEF Before, e, l
<1>6. \A m : AsTyped(b, m) => (\A i \in m .. l : b[i] = typed[i]) /\ b[l + 1] = Nul
  BY DEF AsTyped, l
<1>7. ASSUME NEW i \in c .. l PROVE b[i] = typed[i] \/ (b[i] = Nul /\ typed[i] \in {Blank, "|"})
  <2>1. CASE Before(b, c)
    <3>1. CASE i < e
      <4>1. i \in c .. e - 1 /\ i \in i .. e - 1
        BY <1>1, <3>1
      <4> QED BY <1>5, <2>1, <4>1
    <3>2. CASE i = e
      BY <1>1, <1>5, <2>1, <3>2
    <3>3. CASE i > e
      <4>1. i \in e + 1 .. l
        BY <1>1, <3>3
      <4> QED BY <1>5, <1>6, <2>1, <4>1
    <3> QED BY <1>1, <3>1, <3>2, <3>3
  <2>2. CASE e < c /\ AsTyped(b, c)
    BY <1>6, <2>2
  <2> QED BY <1>4, <2>1, <2>2
<1>8. ASSUME NEW i \in DOMAIN typed, i < n PROVE Handled(i, U)
  <2>1. CASE i < c
    BY <1>4, <2>1 DEF HandledTo, Handled, U
  <2>2. CASE i >= c /\ i \notin U
    <3>1. i \in c .. n - 1 /\ i \in c .. l /\ Char(b, i) = b[i]
      BY <1>1, <1>2, <1>8, <2>2 DEF Char
    <3>2. \/ b[i] = Blank
          \/ i - 1 \in r.used /\ (Char(b, i - 1) \in {"<", ">"} \/ b[i] \in {"<", ">", "2"})
      BY <2>2, <3>1 DEF Consumes, n, U
    <3>3. b[i] = Blank => Handled(i, U)
      BY <1>7, <3>1, PlaceFacts DEF Handled
    <3>4. b[i] \in {"<", ">", "2"} => typed[i] = b[i]
      BY <1>7, <3>1 DEF Nul
    <3>5. i - 1 \in r.used /\ Char(b, i - 1) \in {"<", ">"} => typed[i - 1] \in {"<", ">"}
      <4> SUFFICES ASSUME i - 1 \in r.used, Char(b, i - 1) \in {"<", ">"} PROVE typed[i - 1] \in {"<", ">"}
        OBVIOUS
      <4>1. i - 1 \in c .. Beyond
        BY DEF Consumes
      <4>2. i - 1 \in c .. l /\ Char(b, i - 1) = b[i - 1]
        BY <1>1, <3>1, <4>1 DEF Char
      <4> QED BY <1>7, <4>2 DEF Nul
    <3> QED BY <3>2, <3>3, <3>4, <3>5 DEF Handled, U
  <2>3. CASE i \in U
    BY <2>3 DEF Handled
  <2> QED BY <1>1, <2>1, <2>2, <2>3
<1>9. HandledTo(n, U)
  BY <1>8 DEF HandledTo
<1>10. CASE n > l + 1
  <2>1. \A i \in DOMAIN typed : i < n
    BY <1>1, <1>2, <1>10
  <2>2. AllHandled(U)
    BY <1>8, <2>1 DEF AllHandled
  <2> QED BY <2>2 DEF U
<1>11. CASE n <= l + 1 /\ n <= e
  <2>1. Before(b, c)
    BY <1>1, <1>2, <1>4, <1>11
  <2>2. \A i \in 1 .. MaxInput : i >= n => d[i] = b[i]
    BY <1>1, <1>2, <1>3
  <2>3. e \in 1 .. MaxInput /\ e <= l + 1 /\ e \in 1 .. l + 1
    BY <1>1, <1>5, <2>1
  <2>4. \A i \in n .. e - 1 : i \in 1 .. MaxInput /\ i >= n /\ i \in c .. e - 1
    BY <1>1, <1>2, <2>3
  <2>5. \A i \in e + 1 .. l : i \in 1 .. MaxInput /\ i >= n
    BY <1>1, <1>2, <1>11
  <2>6. l + 1 \in 1 .. MaxInput /\ l + 1 >= n
    BY <1>1, <1>11
  <2>7. AsTyped(d, e + 1)
    BY <1>5, <1>6, <2>1, <2>2, <2>5, <2>6 DEF AsTyped, l
  <2>8. \A i \in n .. e - 1 : d[i] = typed[i] \/ (d[i] = Nul /\ \A j \in i .. e - 1 : typed[j] = Blank)
    BY <1>5, <2>1, <2>2, <2>4
  <2>9. d[e] = Nul
    BY <1>5, <1>11, <2>1, <2>2, <2>3
  <2>10. Before(d, n)
    BY <1>5, <1>11, <2>1, <2>3, <2>7, <2>8, <2>9 DEF Before, e, l
  <2> QED BY <1>9, <2>10 DEF Pending, d, n, U
<1>12. CASE n <= l + 1 /\ e < n
  <2>1. \A i \in 1 .. MaxInput : i >= n => d[i] = b[i]
    BY <1>1, <1>2, <1>3
  <2>2. \A i \in n .. l : i \in 1 .. MaxInput /\ i >= n /\ i \in e + 1 .. l /\ i \in c .. l
    BY <1>1, <1>2, <1>12
  <2>3. l + 1 \in 1 .. MaxInput /\ l + 1 >= n
    BY <1>1, <1>12
  <2>4. (\A i \in n .. l : b[i] = typed[i]) /\ b[l + 1] = Nul
    BY <1>4, <1>5, <1>6, <2>2
  <2>5. AsTyped(d, n)
    BY <2>1, <2>2, <2>3, <2>4 DEF AsTyped, l
  <2> QED BY <1>9, <1>12, <2>5 DEF Pending, d, n, U, e
<1> QED BY <1>1, <1>2, <1>10, <1>11, <1>12

\* A command that is done leaves nothing of its own.
LEMMA PendingEnd ==
  ASSUME LineInv, NEW T, NEW b \in [1 .. MaxInput -> Chars], NEW c \in Places, NEW r,
         Good(r, c), Consumes(r, b, c), ~IsToken(r), ~r.open, Pending(b, c, T)
  PROVE  /\ r.buffer = b
         /\ AllHandled(T) \/ (piped /\ more /\ End <= Len(typed) /\ HandledTo(End + 1, T) /\ AsTyped(b, End + 1))
<1> DEFINE l == Len(typed)
           e == End
           n == r.next
<1>1. /\ l \in Nat /\ l + 2 <= MaxInput /\ MaxInput \in Nat /\ Beyond = MaxInput + 1
      /\ c \in Nat /\ c >= 1 /\ DOMAIN typed = 1 .. l
      /\ e \in Nat /\ e >= 1
      /\ \A i \in 1 .. l : typed[i] # Nul
  <2>1. e \in Nat /\ e >= 1
    BY PlacesOfLine, PlaceFacts DEF LineInv, End, Places
  <2>2. DOMAIN typed = 1 .. l
    BY DEF LineInv
  <2> QED BY <2>1, <2>2, PlacesOfLine, PlaceFacts DEF Places
<1>2. n \in Nat /\ n >= c /\ n <= Beyond
  BY <1>1, PlaceFacts DEF Good
<1>3. r.buffer = b /\ Char(b, n) = Nul /\ \A i \in c .. n - 1 : Char(b, i) = Blank
  BY DEF Consumes
<1> HIDE DEF l, e, n
<1>4. HandledTo(c, T) /\ (Before(b, c) \/ (e < c /\ AsTyped(b, c)))
  BY DEF Pending, e
<1>5. CASE Before(b, c)
  <2>1. /\ c <= e /\ e <= l + 1 /\ (e <= l => piped /\ more /\ typed[e] = "|") /\ b[e] = Nul
        /\ \A i \in c .. e - 1 : b[i] = typed[i] \/ (b[i] = Nul /\ \A j \in i .. e - 1 : typed[j] = Blank)
        /\ AsTyped(b, e + 1)
    BY <1>1, <1>5 DEF Before, e, l
  <2>2. n <= e
    <3>1. Char(b, e) # Blank
      BY <1>1, <2>1, PlaceFacts DEF Char
    <3> QED BY <1>1, <1>2, <1>3, <2>1, <3>1
  <2>3. ASSUME NEW i \in c .. e - 1 PROVE typed[i] = Blank
    <3>1. CASE i < n
      <4>1. i \in c .. n - 1 /\ Char(b, i) = b[i] /\ i \in c .. e - 1
        BY <1>1, <1>2, <2>1, <3>1 DEF Char
      <4>2. b[i] = Blank
        BY <1>3, <4>1
      <4> QED BY <2>1, <4>1, <4>2, PlaceFacts
    <3>2. CASE i >= n
      <4>1. n \in c .. e - 1 /\ i \in n .. e - 1 /\ n \in 1 .. l /\ Char(b, n) = b[n]
        BY <1>1, <1>2, <2>1, <3>2 DEF Char
      <4>2. b[n] # typed[n]
        BY <1>1, <1>3, <4>1
      <4> QED BY <2>1, <4>1, <4>2
    <3> QED BY <1>1, <1>2, <3>1, <3>2
  <2>4. ASSUME NEW i \in DOMAIN typed, i < e + 1 PROVE Handled(i, T)
    <3>1. CASE i < c
      BY <1>4, <3>1 DEF HandledTo
    <3>2. CASE i >= c /\ i < e
      <4>1. i \in c .. e - 1
        BY <1>1, <3>2
      <4> QED BY <2>3, <4>1 DEF Handled
    <3>3. CASE i = e
      BY <1>1, <2>1, <3>3 DEF Handled
    <3> QED BY <1>1, <2>4, <3>1, <3>2, <3>3
  <2>5. CASE e <= l
    BY <1>3, <2>1, <2>4, <2>5 DEF HandledTo, e, l
  <2>6. CASE e = l + 1
    <3>1. \A i \in DOMAIN typed : i < e + 1
      BY <1>1, <2>6
    <3> QED BY <1>3, <2>4, <3>1 DEF AllHandled
  <2> QED BY <1>1, <2>1, <2>5, <2>6
<1>6. CASE e < c /\ AsTyped(b, c)
  <2>1. \A i \in c .. l : b[i] = typed[i]
    BY <1>6 DEF AsTyped, l
  <2>2. ~(n <= l)
    <3> SUFFICES ASSUME n <= l PROVE FALSE
      OBVIOUS
    <3>1. n \in c .. l /\ n \in 1 .. l /\ Char(b, n) = b[n]
      BY <1>1, <1>2 DEF Char
    <3> QED BY <1>1, <1>3, <2>1, <3>1
  <2>3. ASSUME NEW i \in DOMAIN typed PROVE Handled(i, T)
    <3>1. CASE i < c
      BY <1>4, <3>1 DEF HandledTo
    <3>2. CASE i >= c
      <4>1. i \in c .. l /\ i \in c .. n - 1 /\ Char(b, i) = b[i]
        BY <1>1, <1>2, <2>2, <3>2 DEF Char
      <4>2. typed[i] = Blank
        BY <1>3, <2>1, <4>1
      <4> QED BY <4>2 DEF Handled
    <3> QED BY <1>1, <3>1, <3>2
  <2> QED BY <1>3, <2>3 DEF AllHandled
<1> QED BY <1>4, <1>5, <1>6

\* No command was cut at the limit of arguments.
Roomy == \A k \in DOMAIN cmds : Len(cmds[k].args) < MaxArgs - 1

HandledInv ==
  Roomy =>
    /\ pc \in {"token", "file"} => AllHandled(taken) \/ Pending(buffer, cursor, taken)
    /\ pc = "segment" =>
         \/ AllHandled(taken)
         \/ segment <= Len(typed) + 1 /\ HandledTo(segment, taken) /\ AsTyped(buffer, segment)
    /\ pc \in {"validate", "run"} => AllHandled(taken)

LEMMA ReadLineHandled == ASSUME LineInv, ReadLine PROVE HandledInv'
<1> DEFINE text == Text(buffer', 1)
           l == Line(stream)
           d == Filled(stream)
<1>1. /\ stream \in Inputs /\ stream # <<>> /\ ~TooLong(stream)
      /\ buffer' = d /\ typed' = l /\ segment' = 1 /\ cursor' = 1
      /\ piped' = ("|" \in {text[i] : i \in DOMAIN text}) /\ pc' = AfterReading(text, piped')
  BY DEF LineInv, ReadLine
<1> HIDE DEF text
<1>2. pc' \in {"exited", "prompt", "segment", "token"} /\ (pc' = "token" => ~piped')
  BY <1>1 DEF AfterReading
<1>3. /\ Len(l) \in Nat /\ DOMAIN l = 1 .. Len(l)
      /\ \A i \in 1 .. Len(l) : d[i] = l[i]
      /\ d[Len(l) + 1] = Nul
  BY <1>1, TypedFacts
<1> HIDE DEF l, d
<1>4. AsTyped(buffer, segment)' /\ segment' <= Len(typed') + 1
  BY <1>1, <1>3 DEF AsTyped
<1>5. \A T : HandledTo(1, T)'
  BY <1>1, <1>3 DEF HandledTo
<1>6. ASSUME pc' = "token" PROVE Before(buffer, cursor)'
  <2>1. End' = Len(l) + 1
    BY <1>1, <1>2, <1>6 DEF End
  <2>2. AsTyped(buffer, End + 1)'
    <3>1. \A i \in Len(l) + 1 + 1 .. Len(l) : FALSE
      BY <1>3
    <3> QED BY <1>1, <1>3, <2>1, <3>1 DEF AsTyped
  <2>3. End' \in 1 .. Len(l) + 1 /\ ~(End' <= Len(l)) /\ End' - 1 = Len(l) /\ 1 <= End'
    BY <1>3, <2>1
  <2> QED BY <1>1, <1>3, <2>1, <2>2, <2>3 DEF Before
<1>7. pc' = "token" => Pending(buffer, cursor, taken)'
  <2>1. HandledTo(cursor, taken)'
    BY <1>1, <1>5 DEF HandledTo
  <2> QED BY <1>6, <2>1 DEF Pending
<1>8. HandledTo(segment, taken)'
  BY <1>1, <1>5 DEF HandledTo
<1> QED BY <1>2, <1>4, <1>7, <1>8 DEF HandledInv

LEMMA SplitHandled == ASSUME LineInv, SegmentInv, HandledInv, SplitSegment PROVE HandledInv'
<1> DEFINE e == SegmentEnd
           c == SegmentStart
           l == Len(typed)
           d == Trimmed
<1>1. /\ pc = "segment" /\ pc' = "token" /\ cursor' = c /\ c < e /\ scan' = e
      /\ more' = (Char(buffer, e) = "|") /\ buffer' = d
      /\ UNCHANGED <<piped, typed, newline, segment, cmds, taken>>
  BY DEF SplitSegment, lineVars
<1>2. piped
  BY <1>1 DEF SegmentInv
<1>3. CASE ~Roomy
  BY <1>1, <1>3 DEF HandledInv, Roomy
<1>4. CASE AllHandled(taken)
  <2>1. AllHandled(taken)'
    BY <1>1, <1>4 DEF AllHandled, Handled
  <2> QED BY <1>1, <2>1 DEF HandledInv
<1>5. CASE segment <= l + 1 /\ HandledTo(segment, taken) /\ AsTyped(buffer, segment)
  <2>1. /\ l \in Nat /\ l + 2 <= MaxInput /\ MaxInput \in Nat /\ Beyond = MaxInput + 1
        /\ segment \in Nat /\ segment >= 1 /\ segment <= l + 1
        /\ DOMAIN typed = 1 .. l /\ \A i \in 1 .. l : typed[i] # Nul
    <3>1. DOMAIN typed = 1 .. l
      BY DEF LineInv
    <3> QED BY <1>5, <3>1, PlacesOfLine, PlaceFacts DEF LineInv, Places
  <2>2. buffer \in [1 .. MaxInput -> Chars] /\ segment \in Places
    BY DEF LineInv
  <2>3. /\ e \in segment .. Beyond /\ c \in segment .. Beyond
        /\ \A i \in 1 .. MaxInput : d[i] # buffer[i] => i \in segment .. e
        /\ Char(d, e) = Nul
    BY <2>2, SegmentFacts
  <2>4. \A i \in 1 .. MaxInput : d[i] # buffer[i] => d[i] = Nul /\ \A j \in i .. e - 1 : buffer[j] = Blank
    BY DEF Trimmed, Cut
  <2>5. Char(buffer, e) \in {"|", Nul} /\ \A j \in segment .. e - 1 : Char(buffer, j) \notin {"|", Nul}
    BY <2>2, FirstOfFacts DEF SegmentEnd
  <2>6. \A j \in segment .. c - 1 : Char(buffer, j) \notin Chars \ {Blank}
    BY <2>2, FirstOfFacts, PlaceFacts DEF SegmentStart
  <2> HIDE DEF e, c, d, l
  <2>7. c \in Nat /\ segment <= c /\ c < e /\ e \in Nat
    BY <1>1, <2>1, <2>3
  <2>8. (\A i \in segment .. l : buffer[i] = typed[i]) /\ buffer[l + 1] = Nul
    BY <1>5 DEF AsTyped, l
  <2>9. e <= l + 1
    <3>1. Char(buffer, l + 1) = Nul
      BY <2>1, <2>8 DEF Char
    <3> QED BY <2>1, <2>5, <2>7, <3>1
  <2>10. e <= l => more' /\ typed[e] = "|"
    <3> SUFFICES ASSUME e <= l PROVE more' /\ typed[e] = "|"
      OBVIOUS
    <3>1. e \in segment .. l /\ e \in 1 .. l /\ Char(buffer, e) = buffer[e]
      BY <2>1, <2>7 DEF Char
    <3> QED BY <1>1, <2>1, <2>5, <2>8, <3>1
  <2>11. \A i \in c .. e - 1 : d[i] = typed[i] \/ (d[i] = Nul /\ \A j \in i .. e - 1 : typed[j] = Blank)
    <3>1. ASSUME NEW i \in c .. e - 1 PROVE i \in 1 .. MaxInput /\ i \in segment .. l /\ \A j \in i .. e - 1 : j \in segment .. l
      BY <2>1, <2>7, <2>9
    <3> QED BY <2>4, <2>8, <3>1
  <2>12. AsTyped(d, e + 1)
    <3>1. ASSUME NEW i \in 1 .. MaxInput, i > e PROVE d[i] = buffer[i]
      BY <2>1, <2>3, <2>7, <3>1
    <3>2. \A i \in e + 1 .. l : i \in 1 .. MaxInput /\ i > e /\ i \in segment .. l
      BY <2>1, <2>7
    <3>3. d[l + 1] = Nul
      <4>1. CASE e = l + 1
        BY <2>1, <2>3, <4>1 DEF Char
      <4>2. CASE e # l + 1
        <5>1. l + 1 > e /\ l + 1 \in 1 .. MaxInput
          BY <2>1, <2>7, <2>9, <4>2
        <5> QED BY <2>8, <3>1, <5>1
      <4> QED BY <4>1, <4>2
    <3> QED BY <2>8, <3>1, <3>2, <3>3 DEF AsTyped, l
  <2>13. HandledTo(c, taken)
    <3>1. ASSUME NEW i \in 1 .. l, i < c, ~(i < segment) PROVE typed[i] = Blank
      <4>1. i \in segment .. c - 1 /\ i \in segment .. l /\ Char(buffer, i) = buffer[i] /\ i \in 1 .. MaxInput
        BY <2>1, <2>7, <3>1 DEF Char
      <4>2. buffer[i] = Blank
        BY <2>2, <2>6, <4>1
      <4> QED BY <2>8, <4>1, <4>2
    <3> QED BY <1>5, <2>1, <3>1 DEF HandledTo, Handled
  <2>14. End' = e
    BY <1>1, <1>2 DEF End
  <2>15. d[e] = Nul /\ e \in 1 .. l + 1
    BY <2>1, <2>3, <2>7, <2>9 DEF Char
  <2>16. Before(buffer, cursor)'
    <3>1. AsTyped(buffer, End + 1)'
      BY <1>1, <2>12, <2>14 DEF AsTyped
    <3> QED BY <1>1, <1>2, <2>7, <2>10, <2>11, <2>14, <2>15, <3>1 DEF Before, l
  <2>17. HandledTo(cursor, taken)'
    BY <1>1, <2>13 DEF HandledTo, Handled
  <2> QED BY <1>1, <2>16, <2>17 DEF HandledInv, Pending
<1> QED BY <1>1, <1>3, <1>4, <1>5 DEF HandledInv

LEMMA ParseHandled ==
  ASSUME LineInv, SegmentInv, HandledInv, ParseCommand
  PROVE  HandledInv'
<1> USE DEF lineVars, pipelineVars, commandVars
<1> DEFINE r == NextToken(buffer, cursor)
<1>1. /\ pc \in {"token", "file"} /\ Closed(buffer, cursor)
      /\ Argument(r) \/ Redirection(r) \/ FileName(r) \/ EndCommand(r)
  BY DEF ParseCommand
<1>2. /\ buffer \in [1 .. MaxInput -> Chars] /\ cursor \in Places
      /\ Good(r, cursor) /\ Local(r, buffer, cursor) /\ Consumes(r, buffer, cursor)
  BY <1>1, NextTokenConsumes, TokenFacts DEF LineInv
<1> HIDE DEF r
<1>3. CASE Argument(r) \/ Redirection(r) \/ FileName(r)
  <2>1. /\ UNCHANGED <<piped, typed, segment, scan, more, cmds>>
        /\ buffer' = r.buffer /\ cursor' = r.next /\ taken' = taken \cup r.used
        /\ pc' = "prompt" \/ (pc' \in {"token", "file"} /\ IsToken(r))
    BY <1>3 DEF Argument, Redirection, FileName, Fail, Take
  <2> SUFFICES ASSUME Roomy', pc' \in {"token", "file"} PROVE AllHandled(taken)' \/ Pending(buffer, cursor, taken)'
    BY <2>1 DEF HandledInv
  <2>2. AllHandled(taken) \/ Pending(buffer, cursor, taken)
    BY <1>1, <2>1 DEF HandledInv, Roomy
  <2>3. AllHandled(taken \cup r.used) \/ Pending(r.buffer, r.next, taken \cup r.used)
    <3>1. CASE AllHandled(taken)
      BY <3>1 DEF AllHandled, Handled
    <3>2. CASE Pending(buffer, cursor, taken)
      BY <1>2, <2>1, <3>2, PendingStep
    <3> QED BY <2>2, <3>1, <3>2
  <2>4. End' = End
    BY <2>1 DEF End
  <2>5. CASE AllHandled(taken \cup r.used)
    BY <2>1, <2>5 DEF AllHandled, Handled
  <2>6. CASE Pending(r.buffer, r.next, taken \cup r.used)
    BY <2>1, <2>4, <2>6 DEF Pending, Before, AsTyped, HandledTo, Handled
  <2> QED BY <2>3, <2>5, <2>6
<1>4. CASE EndCommand(r)
  <2>1. /\ pc = "token" /\ UNCHANGED <<piped, typed, scan, more, taken>>
        /\ ~IsToken(r) \/ ~HasRoom
        /\ HasRoom => buffer' = r.buffer
    BY <1>4 DEF EndCommand
  <2>2. \/ pc' = "prompt"
        \/ ~r.open /\ cmds' = Append(cmds, cmd) /\ pc' = "segment" /\ piped /\ more /\ segment' = scan + 1
        \/ ~r.open /\ cmds' = Append(cmds, cmd) /\ pc' = "validate" /\ ~(piped /\ more)
    BY <1>4 DEF EndCommand, CommandDone, Fail
  <2> SUFFICES ASSUME Roomy', pc' # "prompt"
               PROVE  /\ pc' = "segment" =>
                           \/ AllHandled(taken)'
                           \/ segment' <= Len(typed) + 1 /\ HandledTo(segment, taken)' /\ AsTyped(buffer, segment)'
                      /\ pc' = "validate" => AllHandled(taken)'
    BY <2>1, <2>2 DEF HandledInv
  <2>3. Roomy /\ HasRoom
    <3>1. cmds \in Seq(CommandSet) /\ cmd \in CommandSet /\ Len(cmds) \in Nat
      BY DEF LineInv
    <3> HIDE DEF CommandSet
    <3>2. /\ DOMAIN cmds' = 1 .. Len(cmds) + 1 /\ cmds'[Len(cmds) + 1] = cmd /\ DOMAIN cmds = 1 .. Len(cmds)
          /\ \A k \in 1 .. Len(cmds) : cmds'[k] = cmds[k]
      BY <2>2, <3>1
    <3>3. Len(cmds) + 1 \in 1 .. Len(cmds) + 1 /\ \A k \in 1 .. Len(cmds) : k \in 1 .. Len(cmds) + 1
      BY <3>1
    <3> QED BY <3>2, <3>3 DEF Roomy, HasRoom
  <2>4. ~IsToken(r) /\ ~r.open /\ buffer' = r.buffer
    BY <2>1, <2>2, <2>3
  <2>5. AllHandled(taken) => AllHandled(taken)'
    BY <2>1 DEF AllHandled, Handled
  <2>6. CASE AllHandled(taken)
    BY <2>5, <2>6
  <2>7. CASE Pending(buffer, cursor, taken)
    <3>1. /\ buffer' = buffer
          /\ \/ AllHandled(taken)
             \/ piped /\ more /\ End <= Len(typed) /\ HandledTo(End + 1, taken) /\ AsTyped(buffer, End + 1)
      BY <1>2, <2>4, <2>7, PendingEnd
    <3>2. CASE piped /\ more /\ End <= Len(typed) /\ HandledTo(End + 1, taken) /\ AsTyped(buffer, End + 1)
      <4>1. pc' = "segment" /\ segment' = End + 1
        BY <2>2, <3>2 DEF End
      <4>2. segment' <= Len(typed) + 1
        BY <3>2, <4>1, PlacesOfLine, PlaceFacts DEF LineInv, End, Places
      <4>3. HandledTo(segment, taken)' /\ AsTyped(buffer, segment)'
        BY <2>1, <3>1, <3>2, <4>1 DEF HandledTo, Handled, AsTyped
      <4> QED BY <4>1, <4>2, <4>3
    <3> QED BY <2>5, <3>1, <3>2
  <2> QED BY <2>1, <2>3, <2>6, <2>7 DEF HandledInv
<1> QED BY <1>1, <1>3, <1>4

LEMMA HandledStep == ASSUME LineInv, SegmentInv, HandledInv, Next PROVE HandledInv'
<1> USE DEF lineVars, pipelineVars, commandVars
<1>1. CASE ReadTooLong \/ SegmentFails \/ Overrun \/ EndOfInput \/ Reject \/ Run \/ Exited
  <2>1. pc' \in {"prompt", "exited", "overrun"}
    BY <1>1 DEF ReadTooLong, SegmentFails, Overrun, EndOfInput, Reject, Run, Exited, Fail, vars
  <2> QED BY <2>1 DEF HandledInv
<1>2. CASE Accept
  <2>1. pc = "validate" /\ pc' = "run" /\ UNCHANGED <<typed, cmds, taken>>
    BY <1>2 DEF Accept
  <2> QED BY <2>1 DEF HandledInv, AllHandled, Handled, Roomy
<1> QED BY <1>1, <1>2, ReadLineHandled, SplitHandled, ParseHandled DEF Next

LEMMA HandledCorrect == Spec => []HandledInv
<1>1. Init => HandledInv
  BY DEF Init, HandledInv
<1>2. LineInv /\ TokenInv /\ HandledInv /\ [Next]_vars => HandledInv'
  <2> SUFFICES ASSUME LineInv, TokenInv, HandledInv, [Next]_vars PROVE HandledInv'
    OBVIOUS
  <2>1. CASE Next
    BY <2>1, HandledStep DEF TokenInv
  <2>2. CASE UNCHANGED vars
    BY <2>2 DEF vars, lineVars, pipelineVars, commandVars, HandledInv, Roomy, AllHandled, Handled, Pending, Before,
      AsTyped, HandledTo, End
  <2> QED BY <2>1, <2>2
<1> QED BY LineCorrect, TokenInvCorrect, <1>1, <1>2, PTL DEF Spec

\* Of a line that is run, with room for all its arguments, no character is lost
\* but blanks, each '|', what stands right after an operator, and an operator
\* right after a word (parser.c:34, :106): also when an operator has taken the
\* cursor into the next command, which is then read twice.
THEOREM NeighboursCorrect == Spec => []OnlyNeighboursLost
<1>1. HandledInv => OnlyNeighboursLost
  BY DEF HandledInv, OnlyNeighboursLost, Roomy, AllHandled, Handled
<1> QED BY HandledCorrect, <1>1, PTL
=============================================================================
