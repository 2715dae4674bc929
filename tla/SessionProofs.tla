--------------------------- MODULE SessionProofs ---------------------------
(***************************************************************************)
(* Theorems about Session, for any number of clients, descriptors and      *)
(* tasks, any bursts and whatever the commands write.                      *)
(***************************************************************************)
EXTENDS Session, SequenceTheorems, TLAPS

-----------------------------------------------------------------------------
(* The invariant *)

\* What the tasks are to the server.
TaskInv ==
  /\ phase \in [Tasks -> Server!Phases]
  /\ owner \in [Tasks -> Clients \cup {NoClient}]
  /\ demand \in [Tasks -> Commands \cup {0}]
  /\ output \in [Tasks -> Nat]
  /\ \A t \in Tasks : phase[t] # "unborn" => owner[t] \in Clients /\ wpc[owner[t]] # "none"

\* A client is present until its worker leaves, a descriptor stands for one
\* connection, and nothing is written before there is one.
ConnectionInv ==
  /\ present = {c \in Clients : wpc[c] \in {"none", "recv", "marking"}}
  /\ \A c, d \in Clients :
       {wpc[c], wpc[d]} \subseteq {"recv", "marking", "leaving"} /\ fd[c] = fd[d] => c = d
  /\ \A c \in Clients :
       /\ cpc[c] = "off" => wpc[c] = "none"
       /\ wpc[c] = "none" => down[c] = <<>> /\ flood[c] = {}

\* What is under way to a client was written by tasks that exist.
WrittenInv ==
  \A c \in Clients : \A i \in DOMAIN down[c] :
    down[c][i][1] # Worker => phase[down[c][i][1]] # "unborn"

\* A command that writes for ever upsets the session of its client, and the
\* session of whoever gets its output.
EndlessInv ==
  /\ \A t \in endless : phase[t] # "unborn" /\ "endless" \in upsets[owner[t]]
  /\ \A c \in Clients : flood[c] # {} => upsets[c] # {}

Active(c) == {t \in Tasks : owner[t] = c /\ phase[t] \in {"waiting", "running"}}
Got(c) == response[c] \o down[c]

\* The stages of a session in which nothing goes wrong: the client has its
\* answer, ...
AtRest(c) ==
  /\ cpc[c] \in {"off", "prompt"} /\ wpc[c] \in {"none", "recv"}
  /\ up[c] = <<>> /\ down[c] = <<>> /\ (cpc[c] = "off" => ~reset[c])
  /\ Active(c) = {}
  /\ answer[c] = due[c]

\* ... its line is on the way, ...
Asked(c) ==
  /\ cpc[c] = "receive" /\ wpc[c] \in {"none", "recv"}
  /\ \E b \in Commands \cup {EmptyLine} : up[c] = LinePieces(b)
  /\ Got(c) = <<>>
  /\ Active(c) = {}

\* ... its task is under way, and is all that will write to the client, ...
Served(c) ==
  /\ cpc[c] = "receive" /\ wpc[c] = "recv" /\ up[c] = <<>>
  /\ \E t \in Tasks :
       /\ Active(c) = {t}
       /\ due[c] = Got(c) \o Tagged(t, rest[t])

\* ... the worker has answered by itself, but for the end marker, ...
Marking(c) ==
  /\ cpc[c] = "receive" /\ wpc[c] = "marking" /\ up[c] = <<>>
  /\ Active(c) = {}
  /\ Got(c) = due[c]

\* ... its task is lost, ...
Lost(c) ==
  /\ cpc[c] = "receive" /\ wpc[c] = "recv" /\ up[c] = <<>>
  /\ Active(c) = {}
  /\ MarkersIn(Got(c)) = {}

\* ... the answer is under way, ...
Answered(c) ==
  /\ cpc[c] = "receive" /\ wpc[c] = "recv" /\ up[c] = <<>>
  /\ Active(c) = {}
  /\ \E t \in Tasks \cup {Worker} : Got(c) = due[c] \o Tagged(t, Mark)

\* ... or the client has left, with nothing under way but its "exit".
Left(c) ==
  /\ cpc[c] = "closed" /\ ~reset[c]
  /\ alive => up[c] \in {<<>>, LinePieces(Exit)} /\ wpc[c] # "marking" /\ Active(c) = {}

Order(c) ==
  upsets[c] = {} =>
    /\ MarkersIn(due[c]) = {}
    /\ \/ AtRest(c) \/ Asked(c) \/ Served(c) \/ Marking(c) \/ Lost(c) \/ Answered(c)
       \/ Left(c)

OrderInv == \A c \in Clients : Order(c)

SessionInv ==
  /\ TypeOK /\ TaskInv /\ ConnectionInv /\ WrittenInv /\ EndlessInv /\ OrderInv
  /\ StraysAreOrphans /\ OrderlyClientsHarmless

-----------------------------------------------------------------------------
(* Streams *)

\* A function on the numbers up to n is a sequence.
LEMMA FunctionIsSeq ==
  ASSUME NEW S, NEW n \in Nat, NEW f \in [1 .. n -> S]
  PROVE  f \in Seq(S)
BY SeqDef

LEMMA TaggedFacts ==
  ASSUME NEW t \in Tasks \cup {Worker}, NEW s \in Seq(Pieces)
  PROVE  /\ Tagged(t, s) \in Stream
         /\ Len(Tagged(t, s)) = Len(s)
         /\ \A i \in 1 .. Len(s) : Tagged(t, s)[i] = <<t, s[i]>>
<1>1. DOMAIN s = 1 .. Len(s) /\ Len(s) \in Nat /\ \A i \in 1 .. Len(s) : s[i] \in Pieces
  OBVIOUS
<1>2. Tagged(t, s) = [i \in 1 .. Len(s) |-> <<t, s[i]>>]
  BY <1>1 DEF Tagged
<1>3. Tagged(t, s) \in [1 .. Len(s) -> Entries]
  BY <1>1, <1>2 DEF Entries
<1>4. Tagged(t, s) \in Stream
  BY <1>1, <1>3, SeqDef DEF Stream
<1> QED BY <1>1, <1>2, <1>4

LEMMA TaggedConcat ==
  ASSUME NEW t \in Tasks \cup {Worker}, NEW r \in Seq(Pieces), NEW s \in Seq(Pieces)
  PROVE  Tagged(t, r \o s) = Tagged(t, r) \o Tagged(t, s)
<1> DEFINE p == Tagged(t, r)
           q == Tagged(t, s)
           z == r \o s
           a == Tagged(t, z)
<1>1. /\ r \o s \in Seq(Pieces) /\ Len(r \o s) = Len(r) + Len(s)
      /\ \A i \in 1 .. Len(r) + Len(s) : (r \o s)[i] = IF i <= Len(r) THEN r[i] ELSE s[i - Len(r)]
      /\ Len(r) \in Nat /\ Len(s) \in Nat
  BY ConcatProperties
<1>2. /\ p \in Stream /\ Len(p) = Len(r) /\ \A i \in 1 .. Len(r) : p[i] = <<t, r[i]>>
      /\ q \in Stream /\ Len(q) = Len(s) /\ \A i \in 1 .. Len(s) : q[i] = <<t, s[i]>>
  BY TaggedFacts
<1> HIDE DEF z
<1>3. a \in Stream /\ Len(a) = Len(z) /\ \A i \in 1 .. Len(z) : a[i] = <<t, z[i]>>
  BY <1>1, TaggedFacts DEF z
<1> HIDE DEF p, q, a
<1>4. /\ p \o q \in Stream /\ Len(p \o q) = Len(r) + Len(s)
      /\ \A i \in 1 .. Len(r) + Len(s) : (p \o q)[i] = IF i <= Len(r) THEN p[i] ELSE q[i - Len(r)]
  <2>1. p \in Seq(Entries) /\ q \in Seq(Entries)
    BY <1>2 DEF Stream
  <2>2. /\ p \o q \in Seq(Entries) /\ Len(p \o q) = Len(p) + Len(q)
        /\ \A i \in 1 .. Len(p) + Len(q) : (p \o q)[i] = IF i <= Len(p) THEN p[i] ELSE q[i - Len(p)]
    BY <2>1, ConcatProperties
  <2>3. Len(p) = Len(r) /\ Len(q) = Len(s)
    BY <1>2
  <2> QED BY <2>2, <2>3 DEF Stream
<1>5. \A i \in 1 .. Len(r) + Len(s) : a[i] = (p \o q)[i]
  <2> SUFFICES ASSUME NEW i \in 1 .. Len(r) + Len(s) PROVE a[i] = (p \o q)[i]
    OBVIOUS
  <2>1. z[i] = IF i <= Len(r) THEN r[i] ELSE s[i - Len(r)]
    BY <1>1 DEF z
  <2>2. a[i] = <<t, z[i]>>
    BY <1>1, <1>3 DEF z
  <2>3. (p \o q)[i] = IF i <= Len(r) THEN p[i] ELSE q[i - Len(r)]
    BY <1>4
  <2>4. IF i <= Len(r) THEN i \in 1 .. Len(r) ELSE i - Len(r) \in 1 .. Len(s)
    BY <1>1
  <2> QED BY <1>2, <2>1, <2>2, <2>3, <2>4
<1>6. a = p \o q
  BY <1>1, <1>3, <1>4, <1>5, SeqEqual DEF Stream, z
<1> QED BY <1>6 DEF a, p, q, z

LEMMA TaggedHead ==
  ASSUME NEW t \in Tasks \cup {Worker}, NEW s \in Seq(Pieces), s # <<>>
  PROVE  /\ Head(s) \in Pieces /\ Tail(s) \in Seq(Pieces) /\ <<Head(s)>> \in Seq(Pieces)
         /\ Tagged(t, s) = Tagged(t, <<Head(s)>>) \o Tagged(t, Tail(s))
<1>1. Head(s) \in Pieces /\ Tail(s) \in Seq(Pieces) /\ <<Head(s)>> \in Seq(Pieces)
  BY HeadTailProperties
<1>2. s = <<Head(s)>> \o Tail(s)
  OBVIOUS
<1>3. Tagged(t, <<Head(s)>> \o Tail(s)) = Tagged(t, <<Head(s)>>) \o Tagged(t, Tail(s))
  BY <1>1, TaggedConcat
<1> QED BY <1>1, <1>2, <1>3

LEMMA MarkFacts == Mark \in Seq(Pieces) /\ Len(Mark) = 2 /\ Mark[1] = "mark1" /\ Mark[2] = "mark2"
BY DEF Mark, Pieces

\* An end marker in a part of a stream is one in the stream.
LEMMA MarkerInPrefix ==
  ASSUME NEW r \in Stream, NEW s \in Stream
  PROVE  \A i : i \in MarkersIn(r) <=> i \in MarkersIn(r \o s) /\ i + 1 <= Len(r)
<1>1. /\ Len(r) \in Nat /\ Len(s) \in Nat /\ DOMAIN r = 1 .. Len(r)
      /\ DOMAIN (r \o s) = 1 .. Len(r) + Len(s)
      /\ \A i \in 1 .. Len(r) : (r \o s)[i] = r[i]
  BY ConcatProperties, LenProperties DEF Stream
<1> QED BY <1>1 DEF MarkersIn

\* A marker that ends an answer without one is the first and the only one.
LEMMA MarkerOfAnswer ==
  ASSUME NEW t \in Tasks \cup {Worker}, NEW s \in Stream, MarkersIn(s) = {}
  PROVE  MarkersIn(s \o Tagged(t, Mark)) = {Len(s) + 1}
<1> DEFINE m == Tagged(t, Mark)
           a == s \o m
           n == Len(s)
<1>1. m \in Stream /\ Len(m) = 2 /\ m[1] = <<t, "mark1">> /\ m[2] = <<t, "mark2">>
  BY MarkFacts, TaggedFacts
<1> HIDE DEF m
<1>2. /\ n \in Nat /\ DOMAIN s = 1 .. n /\ DOMAIN a = 1 .. n + 2
      /\ \A i \in 1 .. n : a[i] = s[i]
      /\ a[n + 1] = m[1] /\ a[n + 2] = m[2]
  <2>1. s \in Seq(Entries) /\ m \in Seq(Entries)
    BY <1>1 DEF Stream
  <2>2. /\ Len(s) \in Nat /\ DOMAIN s = 1 .. Len(s)
        /\ a \in Seq(Entries) /\ Len(a) = Len(s) + Len(m)
        /\ \A i \in 1 .. Len(s) + Len(m) : a[i] = IF i <= Len(s) THEN s[i] ELSE m[i - Len(s)]
    BY <2>1, ConcatProperties, LenProperties
  <2>3. DOMAIN a = 1 .. Len(a)
    BY <2>2, LenProperties
  <2> HIDE DEF a
  <2> QED BY <1>1, <2>2, <2>3
<1> HIDE DEF a, n
<1>3. n + 1 \in MarkersIn(a)
  BY <1>1, <1>2 DEF MarkersIn
<1>4. ASSUME NEW i \in MarkersIn(a) PROVE i = n + 1
  <2>1. i \in 1 .. n + 2 /\ i + 1 \in 1 .. n + 2 /\ a[i][2] = "mark1" /\ a[i + 1][2] = "mark2"
    BY <1>2, <1>4 DEF MarkersIn
  <2>2. i # n
    BY <1>1, <1>2, <2>1
  <2>3. ~(i < n)
    BY <1>2, <2>1 DEF MarkersIn
  <2> QED BY <1>2, <2>1, <2>2, <2>3
<1> QED BY <1>3, <1>4 DEF a, n, m

\* What is received moves from the connection to the client.
LEMMA ReceivedFacts ==
  ASSUME NEW r \in Stream, NEW s \in Stream, NEW n \in 1 .. Len(s)
  PROVE  /\ SubSeq(s, 1, n) \in Stream /\ SubSeq(s, n + 1, Len(s)) \in Stream
         /\ r \o SubSeq(s, 1, n) \in Stream
         /\ Len(r \o SubSeq(s, 1, n)) = Len(r) + n
         /\ r \o s = (r \o SubSeq(s, 1, n)) \o SubSeq(s, n + 1, Len(s))
<1>1. Len(s) \in Nat /\ n \in Nat /\ \A i \in 1 .. Len(s) : s[i] \in Entries
  BY LenProperties DEF Stream
<1>2. /\ SubSeq(s, 1, n) \in Stream /\ SubSeq(s, n + 1, Len(s)) \in Stream
      /\ Len(SubSeq(s, 1, n)) = n
  BY <1>1, SubSeqProperties DEF Stream
<1>3. SubSeq(s, 1, n) \o SubSeq(s, n + 1, Len(s)) = SubSeq(s, 1, Len(s))
  BY <1>1, ConcatAdjacentSubSeq DEF Stream
<1>4. SubSeq(s, 1, Len(s)) = s
  BY SubSeqFull DEF Stream
<1> DEFINE p == SubSeq(s, 1, n)
           q == SubSeq(s, n + 1, Len(s))
<1> HIDE DEF p, q
<1>5. r \o (p \o q) = (r \o p) \o q
  <2>1. r \in Seq(Entries) /\ p \in Seq(Entries) /\ q \in Seq(Entries)
    BY <1>2 DEF Stream, p, q
  <2>2. (r \o p) \o q = r \o (p \o q)
    BY <2>1, ConcatAssociative, SMTT(30)
  <2> QED BY <2>2
<1>6. r \o p \in Stream /\ Len(r \o p) = Len(r) + Len(p)
  <2>1. r \in Seq(Entries) /\ p \in Seq(Entries)
    BY <1>2 DEF Stream, p
  <2> QED BY <2>1, ConcatProperties DEF Stream
<1>7. p \in Stream /\ q \in Stream /\ Len(p) = n /\ r \o s = r \o (p \o q)
  BY <1>2, <1>3, <1>4 DEF p, q
<1>8. r \o s = (r \o p) \o q
  BY <1>5, <1>7
<1>9. /\ p \in Stream /\ q \in Stream
      /\ r \o p \in Stream /\ Len(r \o p) = Len(r) + n
      /\ r \o s = (r \o p) \o q
  BY <1>6, <1>7, <1>8
<1> QED BY <1>9 DEF p, q

-----------------------------------------------------------------------------
(* Writing to a connection *)

LEMMA ConstantFacts ==
  /\ \A t \in Tasks : t \in Nat /\ t # Worker
  /\ \A b \in Commands : b \in Int /\ b # Exit /\ b # EmptyLine /\ b # 0
  /\ Exit # EmptyLine
  /\ \A f \in Descriptors : f \in Nat /\ f # 0
  /\ NoClient \notin Clients
BY ClientsAssumption, DescriptorsAssumption, BurstsAssumption, BoundsAssumption
   DEF Tasks, Worker, Commands, ShellBurst, Exit, EmptyLine

LEMMA LineFacts ==
  ASSUME NEW b \in Lines
  PROVE  /\ LinePieces(b) \in Seq(Lines \X {"whole", "head", "tail"}) /\ LinePieces(b) # <<>>
         /\ LinePieces(b)[1][1] = b
         /\ IF b = EmptyLine THEN LinePieces(b)[1][2] = "whole" /\ Len(LinePieces(b)) = 1
            ELSE LinePieces(b)[1][2] = "head" /\ Len(LinePieces(b)) = 2
<1>1. CASE b = EmptyLine
  <2>1. LinePieces(b) = <<<<b, "whole">>>>
    BY <1>1 DEF LinePieces
  <2> HIDE DEF LinePieces
  <2> QED BY <1>1, <2>1
<1>2. CASE b # EmptyLine
  <2>1. LinePieces(b) = <<<<b, "head">>, <<b, "tail">>>>
    BY <1>2 DEF LinePieces
  <2> QED BY <1>2, <2>1
<1> QED BY <1>1, <1>2

\* What a write does to each client.
LEMMA WriteFacts ==
  ASSUME TypeOK, ConnectionInv, NEW f \in Descriptors, NEW s \in Stream, Write(f, s)
  PROVE  /\ down' \in [Clients -> Stream] /\ reset' \in [Clients -> BOOLEAN] /\ alive' \in BOOLEAN
         /\ UNCHANGED flood
         /\ \A c \in Clients : c \notin ConnectionsOf(f) => down'[c] = down[c] /\ reset'[c] = reset[c]
         /\ \A c \in ConnectionsOf(f) :
              /\ cpc[c] # "closed" => down'[c] = down[c] \o s /\ reset'[c] = reset[c]
              /\ cpc[c] = "closed" => down'[c] = down[c] /\ (reset[c] => reset'[c])
         /\ alive' = alive \/ \E c \in ConnectionsOf(f) : cpc[c] = "closed" /\ reset[c]
<1> USE DEF TypeOK
<1>1. \A c, d \in ConnectionsOf(f) : c \in Clients /\ c = d
  BY DEF ConnectionInv, ConnectionsOf
<1>2. UNCHANGED flood
  BY DEF Write
<1>3. CASE ConnectionsOf(f) = {} /\ UNCHANGED <<down, reset, alive>>
  BY <1>2, <1>3
<1>4. ASSUME NEW c \in ConnectionsOf(f), cpc[c] # "closed",
             down' = [down EXCEPT ![c] = @ \o s], UNCHANGED <<reset, alive>>
      PROVE  /\ down' \in [Clients -> Stream]
             /\ \A d \in Clients : down'[d] = IF d = c THEN down[c] \o s ELSE down[d]
  <2>1. c \in Clients /\ down[c] \in Stream
    BY <1>1
  <2>2. down[c] \o s \in Stream
    BY <2>1, ConcatProperties DEF Stream
  <2> QED BY <1>4, <2>1, <2>2
<1>5. CASE \E c \in ConnectionsOf(f) :
             cpc[c] # "closed" /\ down' = [down EXCEPT ![c] = @ \o s] /\ UNCHANGED <<reset, alive>>
  <2>1. PICK c \in ConnectionsOf(f) :
             cpc[c] # "closed" /\ down' = [down EXCEPT ![c] = @ \o s] /\ UNCHANGED <<reset, alive>>
    BY <1>5
  <2>2. /\ down' \in [Clients -> Stream]
        /\ \A d \in Clients : down'[d] = IF d = c THEN down[c] \o s ELSE down[d]
    BY <1>4, <2>1
  <2>3. reset' \in [Clients -> BOOLEAN] /\ alive' \in BOOLEAN /\ UNCHANGED <<reset, alive>>
    BY <2>1
  <2>4. \A d \in ConnectionsOf(f) : d = c /\ c \in Clients
    BY <1>1
  <2> HIDE DEF TypeOK
  <2> QED BY <1>2, <2>1, <2>2, <2>3, <2>4
<1>6. CASE \E c \in ConnectionsOf(f) :
             /\ cpc[c] = "closed" /\ ~reset[c]
             /\ reset' = [reset EXCEPT ![c] = TRUE] /\ UNCHANGED <<down, alive>>
  BY <1>1, <1>2, <1>6, ZenonT(40)
<1>7. CASE \E c \in ConnectionsOf(f) :
             cpc[c] = "closed" /\ reset[c] /\ alive' \in BOOLEAN /\ UNCHANGED <<down, reset>>
  BY <1>1, <1>2, <1>7
<1> QED BY <1>3, <1>5, <1>6, <1>7 DEF Write, WriteFails

\* The same of endless output.
LEMMA FloodFacts ==
  ASSUME TypeOK, ConnectionInv, NEW f \in Descriptors, NEW t \in endless, Flood(f, t)
  PROVE  /\ flood' \in [Clients -> SUBSET endless] /\ reset' \in [Clients -> BOOLEAN] /\ alive' \in BOOLEAN
         /\ UNCHANGED down
         /\ \A c \in Clients : c \notin ConnectionsOf(f) => flood'[c] = flood[c] /\ reset'[c] = reset[c]
         /\ \A c \in ConnectionsOf(f) :
              /\ cpc[c] # "closed" => flood'[c] = flood[c] \cup {t} /\ reset'[c] = reset[c]
              /\ cpc[c] = "closed" => flood'[c] = flood[c] /\ (reset[c] => reset'[c])
         /\ alive' = alive \/ \E c \in ConnectionsOf(f) : cpc[c] = "closed" /\ reset[c]
<1> USE DEF TypeOK
<1>1. \A c, d \in ConnectionsOf(f) : c \in Clients /\ c = d
  BY DEF ConnectionInv, ConnectionsOf
<1>2. UNCHANGED down
  BY DEF Flood
<1>3. CASE ConnectionsOf(f) = {} /\ UNCHANGED <<flood, reset, alive>>
  BY <1>2, <1>3
<1>4. CASE \E c \in ConnectionsOf(f) :
             /\ cpc[c] # "closed" /\ flood' = [flood EXCEPT ![c] = @ \cup {t}]
             /\ UNCHANGED <<reset, alive>>
  BY <1>1, <1>2, <1>4
<1>5. CASE \E c \in ConnectionsOf(f) :
             /\ cpc[c] = "closed" /\ ~reset[c]
             /\ reset' = [reset EXCEPT ![c] = TRUE] /\ UNCHANGED <<flood, alive>>
  BY <1>1, <1>2, <1>5, ZenonT(40)
<1>6. CASE \E c \in ConnectionsOf(f) :
             cpc[c] = "closed" /\ reset[c] /\ alive' \in BOOLEAN /\ UNCHANGED <<flood, reset>>
  BY <1>1, <1>2, <1>6
<1> QED BY <1>3, <1>4, <1>5, <1>6, <1>2 DEF Flood, WriteFails

\* What the worker of c writes goes to c.
LEMMA WorkerWrites ==
  ASSUME TypeOK, ConnectionInv, NEW c \in Clients, wpc[c] \in {"recv", "marking"}, NEW s \in Seq(Pieces),
         Write(fd[c], Tagged(Worker, s)) \/ (s = <<>> /\ UNCHANGED <<down, flood, reset, alive>>)
  PROVE  /\ Tagged(Worker, s) \in Stream
         /\ down' \in [Clients -> Stream] /\ reset' \in [Clients -> BOOLEAN] /\ alive' \in BOOLEAN
         /\ UNCHANGED flood
         /\ \A d \in Clients \ {c} : down'[d] = down[d] /\ reset'[d] = reset[d]
         /\ cpc[c] # "closed" => down'[c] = down[c] \o Tagged(Worker, s) /\ reset'[c] = reset[c]
         /\ cpc[c] = "closed" => down'[c] = down[c] /\ (reset[c] => reset'[c])
         /\ alive' = alive \/ (cpc[c] = "closed" /\ reset[c])
<1> DEFINE m == Tagged(Worker, s)
<1>1. Worker \in Tasks \cup {Worker} /\ fd[c] \in Descriptors
  BY DEF TypeOK
<1>2. m \in Stream /\ Len(m) = Len(s)
  BY <1>1, TaggedFacts
<1>3. CASE s = <<>> /\ UNCHANGED <<down, flood, reset, alive>>
  <2>1. m = <<>>
    BY <1>2, <1>3, EmptySeq DEF Stream
  <2>2. down[c] \o m = down[c]
    BY <2>1, ConcatEmptySeq DEF TypeOK, Stream
  <2> HIDE DEF m
  <2>3. UNCHANGED <<down, flood, reset, alive>>
    BY <1>3
  <2> QED BY <1>2, <2>2, <2>3 DEF TypeOK, m
<1>4. CASE Write(fd[c], m)
  <2>1. \A d \in ConnectionsOf(fd[c]) : d = c
    BY DEF ConnectionsOf, ConnectionInv
  <2>2. c \in ConnectionsOf(fd[c])
    BY DEF ConnectionsOf
  <2> HIDE DEF m
  <2>3. /\ down' \in [Clients -> Stream] /\ reset' \in [Clients -> BOOLEAN] /\ alive' \in BOOLEAN
        /\ UNCHANGED flood
        /\ \A d \in Clients : d \notin ConnectionsOf(fd[c]) => down'[d] = down[d] /\ reset'[d] = reset[d]
        /\ \A d \in ConnectionsOf(fd[c]) :
              /\ cpc[d] # "closed" => down'[d] = down[d] \o m /\ reset'[d] = reset[d]
              /\ cpc[d] = "closed" => down'[d] = down[d] /\ (reset[d] => reset'[d])
        /\ alive' = alive \/ \E d \in ConnectionsOf(fd[c]) : cpc[d] = "closed" /\ reset[d]
    BY <1>1, <1>2, <1>4, WriteFacts
  <2> QED BY <1>2, <2>1, <2>2, <2>3 DEF m
<1> QED BY <1>3, <1>4 DEF m

\* The pieces that worker and commands write.
LEMMA WrittenPieces ==
  /\ <<>> \in Seq(Pieces) /\ <<"text">> \in Seq(Pieces)
  /\ \A a \in Commands, forever \in BOOLEAN : OutputsOf(a, forever) \subseteq Seq(Pieces)
<1>1. <<>> \in Seq(Pieces) /\ <<"text">> \in Seq(Pieces)
  BY DEF Pieces
<1>2. ASSUME NEW a \in Commands, NEW forever \in BOOLEAN, NEW s \in OutputsOf(a, forever)
      PROVE  s \in Seq(Pieces)
  <2>1. CASE a = ShellBurst
    BY <1>2, <2>1, OutputsAssumption DEF OutputsOf, Pieces
  <2>2. CASE a # ShellBurst
    <3>1. a + 1 \in Nat /\ s = [i \in 1 .. a + 1 |-> "text"]
      BY <1>2, <2>2, BurstsAssumption DEF OutputsOf, Commands
    <3>2. s \in [1 .. a + 1 -> Pieces]
      BY <3>1 DEF Pieces
    <3> QED BY <3>1, <3>2, FunctionIsSeq
  <2> QED BY <2>1, <2>2
<1> QED BY <1>1, <1>2

\* What it is to make a task: t of client c, which writes s, or does for ever.
Made(c, a, upset, t, s, forever) ==
  /\ Server!Submit(t, c, a)
  /\ rest' = [rest EXCEPT ![t] = s]
  /\ endless' = IF forever THEN endless \cup {t} ELSE endless
  /\ due' = [due EXCEPT ![c] = Tagged(t, s)]
  /\ upsets' = [upsets EXCEPT ![c] =
           @ \cup upset \cup (IF MarkersIn(Tagged(t, s)) = {} THEN {} ELSE {"marker"})
             \cup (IF forever THEN {"endless"} ELSE {})]
  /\ UNCHANGED <<down, flood, reset, alive, wpc>>

LEMMA MadeTask ==
  ASSUME NEW c, NEW a \in Commands, NEW upset, MakeTask(c, a, upset)
  PROVE  \E t \in Tasks, s \in Seq(Pieces), forever \in BOOLEAN : Made(c, a, upset, t, s, forever)
<1>1. PICK t \in Tasks, forever \in BOOLEAN : \E s \in OutputsOf(a, forever) : Made(c, a, upset, t, s, forever)
  BY ZenonT(30) DEF MakeTask, Made
<1> QED BY <1>1, WrittenPieces

\* The two lines that a line is cut into.
LEMMA HalvesFacts ==
  ASSUME NEW b \in Lines, NEW h \in Halves(b)
  PROVE  h[1] \in Lines /\ h[2] \in Lines
<1>1. CASE h = <<b, EmptyLine>>
  BY <1>1 DEF Lines
<1>2. CASE h # <<b, EmptyLine>>
  <2>1. h \in (Commands \cup {Exit}) \X (Commands \cup {Exit})
    BY <1>2 DEF Halves
  <2> QED BY <2>1 DEF Lines
<1> QED BY <1>1, <1>2

\* What comes of a recv() of the worker.
LEMMA LineReceived ==
  ASSUME TypeOK, NEW c \in Clients, ReceiveLine(c)
  PROVE  /\ alive /\ wpc[c] = "recv" /\ UNCHANGED <<clientVars, fd>>
         /\ up' \in [Clients -> Seq(Lines \X {"whole", "head", "tail"})]
         /\ \A d \in Clients \ {c} : up'[d] = up[d]
         /\ cuts' \in 0 .. MaxCuts
         /\ up[c] # <<>>
         /\ \E a \in Lines, upset \in {{}, {"cut"}} :
              /\ HandleLine(c, a, upset)
              /\ upset = {} => \A b \in Lines : up[c] = LinePieces(b) => a = b /\ up'[c] = <<>>
<1> DEFINE s == up[c]
           b == s[1][1]
           part == s[1][2]
           Piece == Lines \X {"whole", "head", "tail"}
           Kept == /\ up' \in [Clients -> Seq(Piece)]
                   /\ \A d \in Clients \ {c} : up'[d] = up[d]
                   /\ cuts' \in 0 .. MaxCuts
           Handled == \E a \in Lines, upset \in {{}, {"cut"}} :
              /\ HandleLine(c, a, upset)
              /\ upset = {} => \A l \in Lines : s = LinePieces(l) => a = l /\ up'[c] = <<>>
<1>1. PICK n \in 1 .. Len(up[c]) :
        \/ /\ part = "whole" \/ (part = "head" /\ n > 1)
           /\ up' = [up EXCEPT ![c] = SubSeq(@, n + 1, Len(@))]
           /\ HandleLine(c, b, {})
           /\ UNCHANGED cuts
        \/ /\ part = "head" /\ n = 1 /\ cuts < MaxCuts
           /\ cuts' = cuts + 1
           /\ \E h \in Halves(b) :
                /\ up' = [up EXCEPT ![c] = <<<<h[2], "whole">>>> \o SubSeq(@, 3, Len(@))]
                /\ HandleLine(c, h[1], {"cut"})
        \/ /\ part = "tail"
           /\ up' = [up EXCEPT ![c] = SubSeq(@, n + 1, Len(@))]
           /\ \E h \in Halves(b) : HandleLine(c, h[2], {"cut"})
           /\ UNCHANGED cuts
  BY DEF ReceiveLine
<1>2. s \in Seq(Piece) /\ Len(s) \in Nat /\ n \in 1 .. Len(s) /\ s # <<>>
  BY <1>1 DEF TypeOK
<1>3. s[1] \in Piece /\ b \in Lines
  <2>1. s[1] \in Piece
    BY <1>2
  <2> QED BY <2>1
<1>4. ASSUME NEW r \in Seq(Piece), up' = [up EXCEPT ![c] = r], cuts' \in {cuts, cuts + 1}, cuts' = cuts \/ cuts < MaxCuts
      PROVE  Kept /\ up'[c] = r
  BY <1>4, BoundsAssumption DEF TypeOK
<1> DEFINE behind == SubSeq(s, n + 1, Len(s))
<1>5. behind \in Seq(Piece) /\ (n = Len(s) => behind = <<>>)
  BY <1>2
<1> HIDE DEF behind, Kept
<1>6. alive /\ wpc[c] = "recv" /\ UNCHANGED <<clientVars, fd>>
  BY DEF ReceiveLine
<1>7. SUFFICES Kept /\ Handled
  BY <1>2, <1>6 DEF Kept
<1>8. CASE /\ part = "whole" \/ (part = "head" /\ n > 1)
           /\ up' = [up EXCEPT ![c] = behind]
           /\ HandleLine(c, b, {})
           /\ UNCHANGED cuts
  <2>1. ASSUME NEW l \in Lines, s = LinePieces(l)
        PROVE  b = l /\ n = Len(s)
    <3> DEFINE k == Len(s)
    <3>1. /\ s[1][1] = l
          /\ IF l = EmptyLine THEN s[1][2] = "whole" /\ k = 1 ELSE s[1][2] = "head" /\ k = 2
      BY <2>1, LineFacts
    <3>2. n \in 1 .. k /\ k \in Nat /\ (s[1][2] = "whole" \/ n > 1)
      BY <1>2, <1>8
    <3> HIDE DEF s, k
    <3>3. n = k
      BY <3>1, <3>2
    <3> QED BY <3>1, <3>3 DEF k
  <2>2. Kept /\ up'[c] = behind
    BY <1>4, <1>5, <1>8
  <2>3. Handled
    <3> HIDE DEF b
    <3> QED BY <1>3, <1>5, <1>8, <2>1, <2>2
  <2> QED BY <2>2, <2>3
<1>9. CASE /\ part = "head" /\ n = 1 /\ cuts < MaxCuts
           /\ cuts' = cuts + 1
           /\ \E h \in Halves(b) :
                /\ up' = [up EXCEPT ![c] = <<<<h[2], "whole">>>> \o SubSeq(@, 3, Len(@))]
                /\ HandleLine(c, h[1], {"cut"})
  <2>1. PICK h \in Halves(b) :
           /\ up' = [up EXCEPT ![c] = <<<<h[2], "whole">>>> \o SubSeq(@, 3, Len(@))]
           /\ HandleLine(c, h[1], {"cut"})
    BY <1>9
  <2>2. h[1] \in Lines /\ h[2] \in Lines
    BY <1>3, HalvesFacts
  <2> DEFINE q == SubSeq(s, 3, Len(s))
             r == <<<<h[2], "whole">>>> \o q
  <2>3. <<<<h[2], "whole">>>> \in Seq(Piece)
    BY <2>2
  <2>4. q \in Seq(Piece)
    BY <1>2
  <2>5. r \in Seq(Piece)
    <3> HIDE DEF q
    <3> QED BY <2>3, <2>4, ConcatProperties
  <2>6. up' = [up EXCEPT ![c] = r]
    BY <2>1
  <2> HIDE DEF r
  <2>7. Kept
    BY <1>4, <1>9, <2>5, <2>6
  <2>8. Handled
    BY <2>1, <2>2
  <2> QED BY <2>7, <2>8
<1>10. CASE /\ part = "tail"
           /\ up' = [up EXCEPT ![c] = behind]
           /\ \E h \in Halves(b) : HandleLine(c, h[2], {"cut"})
           /\ UNCHANGED cuts
  <2>1. PICK h \in Halves(b) : HandleLine(c, h[2], {"cut"})
    BY <1>10
  <2>2. h[2] \in Lines
    BY <1>3, HalvesFacts
  <2>3. Kept
    BY <1>4, <1>5, <1>10
  <2>4. Handled
    BY <2>1, <2>2
  <2> QED BY <2>3, <2>4
<1> QED BY <1>1, <1>8, <1>9, <1>10 DEF behind

\* What comes of a recv() of the client.
LEMMA Received ==
  ASSUME TypeOK, NEW c \in Clients, Receive(c)
  PROVE  \E r, q \in Stream, n \in Nat :
           /\ Got(c) = r \o q
           /\ q = SubSeq(down[c], n + 1, Len(down[c])) /\ n <= Len(down[c])
           /\ down' = [down EXCEPT ![c] = q]
           /\ \/ response' = [response EXCEPT ![c] = r] /\ UNCHANGED <<cpc, answer>>
              \/ \E i \in MarkersIn(r) :
                   /\ response' = [response EXCEPT ![c] = <<>>]
                   /\ answer' = [answer EXCEPT ![c] = SubSeq(r, 1, i - 1)]
                   /\ cpc' = [cpc EXCEPT ![c] = "prompt"]
<1>1. PICK n \in 1 .. Len(down[c]) :
        LET r == response[c] \o SubSeq(down[c], 1, n)
        IN  /\ down' = [down EXCEPT ![c] = SubSeq(@, n + 1, Len(@))]
            /\ IF PrintedPart(r) = {}
                 THEN /\ response' = [response EXCEPT ![c] = r]
                      /\ UNCHANGED <<cpc, answer>>
                 ELSE /\ response' = [response EXCEPT ![c] = <<>>]
                      /\ answer' = [answer EXCEPT ![c] = CHOOSE p \in PrintedPart(r) : TRUE]
                      /\ cpc' = [cpc EXCEPT ![c] = "prompt"]
  BY DEF Receive
<1> DEFINE r == response[c] \o SubSeq(down[c], 1, n)
           q == SubSeq(down[c], n + 1, Len(down[c]))
<1>2. response[c] \in Stream /\ down[c] \in Stream /\ Len(down[c]) \in Nat
  BY DEF TypeOK, Stream
<1>3. r \in Stream /\ q \in Stream /\ Got(c) = r \o q
  BY <1>2, ReceivedFacts DEF Got
<1>4. down' = [down EXCEPT ![c] = q]
  BY <1>1
<1>5. n \in Nat /\ n <= Len(down[c])
  BY <1>2
<1>6. CASE PrintedPart(r) = {}
  BY <1>1, <1>3, <1>4, <1>5, <1>6
<1>7. CASE PrintedPart(r) # {}
  <2> DEFINE a == CHOOSE p \in PrintedPart(r) : TRUE
  <2>1. /\ response' = [response EXCEPT ![c] = <<>>]
        /\ answer' = [answer EXCEPT ![c] = a]
        /\ cpc' = [cpc EXCEPT ![c] = "prompt"]
    BY <1>1, <1>7
  <2>2. a \in PrintedPart(r)
    BY <1>7
  <2>3. \E i \in MarkersIn(r) : a = SubSeq(r, 1, i - 1)
    BY <2>2 DEF PrintedPart
  <2> HIDE DEF a, r, q
  <2> QED BY <1>3, <1>4, <1>5, <2>1, <2>3 DEF q
<1> QED BY <1>6, <1>7

LEMMA PrintedFacts ==
  ASSUME NEW r \in Stream, NEW i \in MarkersIn(r)
  PROVE  SubSeq(r, 1, i - 1) \in Stream /\ i \in Nat /\ i >= 1 /\ i + 1 <= Len(r)
<1>1. i \in 1 .. Len(r) /\ i + 1 \in 1 .. Len(r) /\ Len(r) \in Nat
  BY LenProperties DEF MarkersIn, Stream
<1>2. \A j \in 1 .. i - 1 : r[j] \in Entries
  BY <1>1, ElementOfSeq DEF Stream
<1>3. SubSeq(r, 1, i - 1) \in Seq(Entries)
  BY <1>1, <1>2, SubSeqProperties
<1> QED BY <1>1, <1>3 DEF Stream

-----------------------------------------------------------------------------
(* Types *)

LEMMA EmptyStream == <<>> \in Stream /\ <<>> \in Seq(Pieces) /\ MarkersIn(<<>>) = {} /\ Worker \in Tasks \cup {Worker}
BY DEF Stream, MarkersIn

LEMMA InitType == Init => TypeOK
BY EmptyStream, ConstantFacts, BoundsAssumption DEF Init, TypeOK

LEMMA CloseType == ASSUME TypeOK, NEW c \in Clients, Close(c) PROVE
  /\ cpc' \in [Clients -> {"off", "prompt", "receive", "closed"}]
  /\ {response', answer', down', due'} \subseteq [Clients -> Stream]
  /\ flood' \in [Clients -> SUBSET endless]
  /\ reset' \in [Clients -> BOOLEAN]
  /\ \A d \in Clients :
       /\ response'[d] # <<>> => cpc'[d] = "receive"
       /\ cpc'[d] = "closed" => down'[d] = <<>> /\ flood'[d] = {}
  /\ UNCHANGED <<typed, cuts, alive, wpc, fd, rest, endless>>
BY EmptyStream DEF TypeOK, Close, taskVars

\* What the worker makes of a line keeps the types.
LEMMA HandleType ==
  ASSUME TypeOK, TaskInv, ConnectionInv, NEW c \in Clients, NEW a \in Lines, NEW upset \in {{}, {"cut"}},
         wpc[c] = "recv", UNCHANGED <<clientVars, fd>>, HandleLine(c, a, upset)
  PROVE  /\ {down', due'} \subseteq [Clients -> Stream] /\ reset' \in [Clients -> BOOLEAN]
         /\ alive' \in BOOLEAN /\ wpc' \in [Clients -> {"none", "recv", "marking", "leaving", "gone"}]
         /\ upsets' \in [Clients -> SUBSET Upsets]
         /\ rest' \in [Tasks -> Seq(Pieces)]
         /\ UNCHANGED flood /\ endless \subseteq endless' /\ endless' \subseteq Tasks
         /\ \A d \in Clients : /\ cpc[d] = "closed" => down'[d] = <<>>
                               /\ wpc'[d] = "none" <=> wpc[d] = "none"
<1> USE DEF TypeOK, Upsets
<1>1. fd[c] \in Descriptors
  OBVIOUS
<1>2. ASSUME NEW s \in Seq(Pieces), WorkerAnswers(c, s, upset)
      PROVE  /\ {down', due'} \subseteq [Clients -> Stream] /\ reset' \in [Clients -> BOOLEAN]
             /\ alive' \in BOOLEAN /\ wpc' = [wpc EXCEPT ![c] = "marking"]
             /\ UNCHANGED <<flood, rest, endless>>
             /\ upsets' \in [Clients -> SUBSET Upsets]
             /\ \A d \in Clients : cpc[d] = "closed" => down'[d] = <<>>
  <2>1. /\ Write(fd[c], Tagged(Worker, s)) \/ (s = <<>> /\ UNCHANGED <<down, flood, reset, alive>>)
        /\ wpc' = [wpc EXCEPT ![c] = "marking"]
        /\ due' = [due EXCEPT ![c] = Tagged(Worker, s)]
        /\ upsets' = [upsets EXCEPT ![c] = @ \cup upset] /\ UNCHANGED <<rest, endless>>
    BY <1>2 DEF WorkerAnswers, taskVars
  <2>2. /\ Tagged(Worker, s) \in Stream
        /\ down' \in [Clients -> Stream] /\ reset' \in [Clients -> BOOLEAN] /\ alive' \in BOOLEAN
        /\ UNCHANGED flood
        /\ \A d \in Clients \ {c} : down'[d] = down[d]
        /\ cpc[c] = "closed" => down'[c] = down[c]
    BY <2>1, WorkerWrites
  <2>3. due' \in [Clients -> Stream]
    BY <2>1, <2>2
  <2>4. upsets' \in [Clients -> SUBSET Upsets]
    BY <2>1
  <2> QED BY <2>1, <2>2, <2>3, <2>4
<1>3. CASE RemoveTasks(c) /\ upsets' = [upsets EXCEPT ![c] = @ \cup upset]
  BY <1>3 DEF RemoveTasks
<1>4. ASSUME a \in Commands, MakeTask(c, a, upset)
      PROVE  /\ due' \in [Clients -> Stream]
             /\ upsets' \in [Clients -> SUBSET Upsets]
             /\ rest' \in [Tasks -> Seq(Pieces)]
             /\ endless \subseteq endless' /\ endless' \subseteq Tasks
             /\ UNCHANGED <<down, flood, reset, alive, wpc>>
  <2>1. PICK t \in Tasks, s \in Seq(Pieces), forever \in BOOLEAN : Made(c, a, upset, t, s, forever)
    BY <1>4, MadeTask
  <2>2. Tagged(t, s) \in Stream
    BY TaggedFacts
  <2> USE DEF Made
  <2> QED BY <2>1, <2>2
<1>5. CASE \E s \in {<<>>, <<"text">>} : WorkerAnswers(c, s, upset)
  <2>1. PICK s \in Seq(Pieces) : WorkerAnswers(c, s, upset)
    BY <1>5, WrittenPieces, ZenonT(30)
  <2>2. /\ {down', due'} \subseteq [Clients -> Stream] /\ reset' \in [Clients -> BOOLEAN]
        /\ alive' \in BOOLEAN /\ wpc' = [wpc EXCEPT ![c] = "marking"]
        /\ UNCHANGED <<flood, rest, endless>>
        /\ upsets' \in [Clients -> SUBSET Upsets]
        /\ \A d \in Clients : cpc[d] = "closed" => down'[d] = <<>>
    BY <1>2, <2>1, SMTT(30)
  <2> QED BY <2>2
<1>6. CASE a \in Commands /\ MakeTask(c, a, upset)
  BY <1>4, <1>6
<1>7. \/ RemoveTasks(c) /\ upsets' = [upsets EXCEPT ![c] = @ \cup upset]
      \/ a \in Commands /\ MakeTask(c, a, upset)
      \/ \E s \in {<<>>, <<"text">>} : WorkerAnswers(c, s, upset)
  <2> HIDE DEF TypeOK
  <2> QED BY DEF HandleLine
<1> HIDE DEF TypeOK
<1> QED BY <1>3, <1>5, <1>6, <1>7

\* What the scheduler writes keeps the types.
LEMMA AnswerType ==
  ASSUME TypeOK, TaskInv, ConnectionInv, NEW t \in Tasks, phase[t] # "unborn",
         NEW s \in Seq(Pieces), Answer(t, s)
  PROVE  /\ down' \in [Clients -> Stream] /\ reset' \in [Clients -> BOOLEAN] /\ alive' \in BOOLEAN
         /\ UNCHANGED flood
         /\ upsets' \in [Clients -> SUBSET Upsets]
         /\ \A d \in Clients : cpc[d] = "closed" => down'[d] = <<>>
<1> USE DEF TypeOK
<1>1. owner[t] \in Clients /\ fd[owner[t]] \in Descriptors
  BY DEF TaskInv
<1>2. Tagged(t, s) \in Stream
  BY TaggedFacts
<1>3. Write(fd[owner[t]], Tagged(t, s))
  BY DEF Answer
<1>4. /\ down' \in [Clients -> Stream] /\ reset' \in [Clients -> BOOLEAN] /\ alive' \in BOOLEAN
      /\ \A d \in Clients : d \notin ConnectionsOf(fd[owner[t]]) => down'[d] = down[d]
      /\ \A d \in ConnectionsOf(fd[owner[t]]) : cpc[d] = "closed" => down'[d] = down[d]
  BY <1>1, <1>2, <1>3, WriteFacts
<1>5. upsets' \in [Clients -> SUBSET Upsets]
  BY DEF Answer, Strays, Upsets
<1>6. UNCHANGED flood
  BY <1>3 DEF Write
<1> QED BY <1>4, <1>5, <1>6

LEMMA TypeStep == ASSUME SessionInv, Next PROVE TypeOK'
<1> USE DEF SessionInv, clientVars, taskVars, lifecycleVars
<1>1. ASSUME NEW c \in Clients, Connect(c) PROVE TypeOK'
  <2>1. cpc[c] = "off" => down[c] = <<>> /\ flood[c] = {}
    BY DEF ConnectionInv
  <2> QED BY <1>1, <2>1, EmptyStream DEF TypeOK, Connect
<1>2. ASSUME NEW c \in Clients, Quit(c) PROVE TypeOK'
  <2>1. up' \in [Clients -> Seq(Lines \X {"whole", "head", "tail"})]
    <3>1. LinePieces(Exit) \in Seq(Lines \X {"whole", "head", "tail"})
      BY LineFacts DEF Lines
    <3>2. up[c] \o LinePieces(Exit) \in Seq(Lines \X {"whole", "head", "tail"})
      BY <3>1, ConcatProperties DEF TypeOK
    <3> QED BY <1>2, <3>2 DEF TypeOK, Quit
  <2>2. Close(c) /\ UNCHANGED upsets
    BY <1>2 DEF Quit
  <2> QED BY <2>1, <2>2, CloseType DEF TypeOK
<1>3. ASSUME NEW c \in Clients, NEW b \in Commands \cup {EmptyLine}, SendLine(c, b) PROVE TypeOK'
  <2>1. LinePieces(b) \in Seq(Lines \X {"whole", "head", "tail"})
    BY LineFacts DEF Lines
  <2>2. up[c] \o LinePieces(b) \in Seq(Lines \X {"whole", "head", "tail"})
    BY <2>1, ConcatProperties DEF TypeOK
  <2>3. up' \in [Clients -> Seq(Lines \X {"whole", "head", "tail"})]
    BY <1>3, <2>2 DEF TypeOK, SendLine
  <2>4. typed' \in 0 .. MaxLines
    BY <1>3, BoundsAssumption DEF TypeOK, SendLine
  <2> QED BY <1>3, <2>3, <2>4, EmptyStream DEF TypeOK, SendLine
<1>4. ASSUME NEW c \in Clients, Receive(c) PROVE TypeOK'
  <2>1. PICK r \in Stream, q \in Stream :
           /\ down' = [down EXCEPT ![c] = q]
           /\ \/ response' = [response EXCEPT ![c] = r] /\ UNCHANGED <<cpc, answer>>
              \/ \E i \in MarkersIn(r) :
                   /\ response' = [response EXCEPT ![c] = <<>>]
                   /\ answer' = [answer EXCEPT ![c] = SubSeq(r, 1, i - 1)]
                   /\ cpc' = [cpc EXCEPT ![c] = "prompt"]
    BY <1>4, Received
  <2>2. cpc[c] = "receive" /\ UNCHANGED <<typed, up, flood, reset, cuts, alive, wpc, fd, due, upsets, taskVars>>
    BY <1>4 DEF Receive
  <2>3. CASE response' = [response EXCEPT ![c] = r] /\ UNCHANGED <<cpc, answer>>
    BY <2>1, <2>2, <2>3 DEF TypeOK
  <2>4. ASSUME NEW i \in MarkersIn(r),
               response' = [response EXCEPT ![c] = <<>>],
               answer' = [answer EXCEPT ![c] = SubSeq(r, 1, i - 1)],
               cpc' = [cpc EXCEPT ![c] = "prompt"]
        PROVE  TypeOK'
    <3>1. SubSeq(r, 1, i - 1) \in Stream
      BY PrintedFacts
    <3> QED BY <2>1, <2>2, <2>4, <3>1, EmptyStream DEF TypeOK
  <2> QED BY <2>1, <2>3, <2>4
<1>5. ASSUME NEW c \in Clients, TimeOut(c) PROVE TypeOK'
  <2>1. Close(c) /\ UNCHANGED up /\ upsets' = [upsets EXCEPT ![c] = @ \cup {"timeout"}]
    BY <1>5 DEF TimeOut
  <2>2. upsets' \in [Clients -> SUBSET Upsets]
    BY <2>1 DEF TypeOK, Upsets
  <2> QED BY <2>1, <2>2, CloseType DEF TypeOK
<1>6. ASSUME NEW c \in Clients, ServerGone(c) PROVE TypeOK'
  <2>1. Close(c) /\ UNCHANGED <<up, upsets>>
    BY <1>6 DEF ServerGone
  <2> QED BY <2>1, CloseType DEF TypeOK
<1>7. ASSUME NEW c \in Clients, Accept(c) PROVE TypeOK'
  <2>1. \A f \in Descriptors : f # 0
    BY ConstantFacts
  <2> QED BY <1>7, <2>1 DEF TypeOK, Accept
<1>8. ASSUME NEW c \in Clients, ReceiveLine(c) PROVE TypeOK'
  <2>1. PICK a \in Lines, upset \in {{}, {"cut"}} : HandleLine(c, a, upset)
    BY <1>8, LineReceived
  <2>2. /\ wpc[c] = "recv" /\ UNCHANGED <<clientVars, fd>>
        /\ up' \in [Clients -> Seq(Lines \X {"whole", "head", "tail"})]
        /\ cuts' \in 0 .. MaxCuts
    BY <1>8, LineReceived
  <2> HIDE DEF SessionInv
  <2>3. TypeOK /\ TaskInv /\ ConnectionInv
    BY DEF SessionInv
  <2>4. /\ {down', due'} \subseteq [Clients -> Stream] /\ reset' \in [Clients -> BOOLEAN]
        /\ alive' \in BOOLEAN /\ wpc' \in [Clients -> {"none", "recv", "marking", "leaving", "gone"}]
        /\ upsets' \in [Clients -> SUBSET Upsets]
        /\ rest' \in [Tasks -> Seq(Pieces)]
        /\ UNCHANGED flood /\ endless \subseteq endless' /\ endless' \subseteq Tasks
        /\ \A d \in Clients : /\ cpc[d] = "closed" => down'[d] = <<>>
                              /\ wpc'[d] = "none" <=> wpc[d] = "none"
    BY <2>1, <2>2, <2>3, HandleType
  <2>5. flood' \in [Clients -> SUBSET endless']
    BY <2>3, <2>4 DEF TypeOK
  <2> QED BY <2>2, <2>3, <2>4, <2>5 DEF TypeOK
<1>9. ASSUME NEW c \in Clients, HangUp(c) \/ CloseDescriptor(c) PROVE TypeOK'
  <2>1. /\ wpc[c] # "none"
        /\ wpc' \in {[wpc EXCEPT ![c] = "leaving"], [wpc EXCEPT ![c] = "gone"]}
        /\ UNCHANGED <<clientVars, up, down, flood, reset, cuts, alive, fd, due, upsets, rest, endless>>
    BY <1>9 DEF HangUp, CloseDescriptor, RemoveTasks
  <2> QED BY <2>1 DEF TypeOK
<1>10. ASSUME NEW t \in Tasks, WriteOutput(t) PROVE TypeOK'
  <2>1. rest[t] \in Seq(Pieces) /\ rest[t] # <<>> /\ phase[t] = "running"
    BY <1>10 DEF TypeOK, WriteOutput
  <2>2. <<Head(rest[t])>> \in Seq(Pieces) /\ Tail(rest[t]) \in Seq(Pieces)
    BY <2>1, HeadTailProperties
  <2>3. Answer(t, <<Head(rest[t])>>) /\ rest' = [rest EXCEPT ![t] = Tail(@)]
        /\ UNCHANGED <<clientVars, up, cuts, wpc, fd, due, endless>>
    BY <1>10 DEF WriteOutput
  <2>4. rest' \in [Tasks -> Seq(Pieces)]
    BY <2>2, <2>3 DEF TypeOK
  <2> HIDE DEF SessionInv
  <2>5. TypeOK /\ TaskInv /\ ConnectionInv
    BY DEF SessionInv
  <2>6. /\ down' \in [Clients -> Stream] /\ reset' \in [Clients -> BOOLEAN] /\ alive' \in BOOLEAN
        /\ UNCHANGED flood
        /\ upsets' \in [Clients -> SUBSET Upsets]
        /\ \A d \in Clients : cpc[d] = "closed" => down'[d] = <<>>
    BY <2>1, <2>2, <2>3, <2>5, AnswerType
  <2> QED BY <2>3, <2>4, <2>5, <2>6 DEF TypeOK
<1>11. ASSUME NEW t \in Tasks, EndTask(t) PROVE TypeOK'
  <2>1. phase[t] = "running" /\ Answer(t, Mark) /\ UNCHANGED <<clientVars, up, cuts, wpc, fd, due, rest, endless>>
    BY <1>11 DEF EndTask, Server!Complete
  <2> HIDE DEF SessionInv
  <2>2. TypeOK /\ TaskInv /\ ConnectionInv
    BY DEF SessionInv
  <2>3. /\ down' \in [Clients -> Stream] /\ reset' \in [Clients -> BOOLEAN] /\ alive' \in BOOLEAN
        /\ UNCHANGED flood
        /\ upsets' \in [Clients -> SUBSET Upsets]
        /\ \A d \in Clients : cpc[d] = "closed" => down'[d] = <<>>
    BY <2>1, <2>2, AnswerType, MarkFacts
  <2> QED BY <2>1, <2>2, <2>3 DEF TypeOK
<1>12. ASSUME NEW t \in Tasks, Schedule(t) PROVE TypeOK'
  BY <1>12 DEF TypeOK, Schedule
<1>13. ASSUME NEW c \in Clients, ReceiveFlood(c) PROVE TypeOK'
  BY <1>13 DEF TypeOK, ReceiveFlood
<1>14. ASSUME NEW c \in Clients, SendMark(c) PROVE TypeOK'
  <2>1. /\ wpc[c] = "marking" /\ wpc' = [wpc EXCEPT ![c] = "recv"] /\ Write(fd[c], Tagged(Worker, Mark))
        /\ UNCHANGED <<clientVars, up, cuts, fd, due, upsets, rest, endless>>
    BY <1>14 DEF SendMark
  <2> HIDE DEF SessionInv
  <2>2. TypeOK /\ ConnectionInv
    BY DEF SessionInv
  <2>3. /\ down' \in [Clients -> Stream] /\ reset' \in [Clients -> BOOLEAN] /\ alive' \in BOOLEAN
        /\ UNCHANGED flood
        /\ \A d \in Clients \ {c} : down'[d] = down[d]
        /\ cpc[c] = "closed" => down'[c] = down[c]
    BY <2>1, <2>2, WorkerWrites, MarkFacts
  <2> QED BY <2>1, <2>2, <2>3 DEF TypeOK
<1>15. ASSUME NEW t \in Tasks, StreamOutput(t) PROVE TypeOK'
  <2>1. /\ phase[t] = "running" /\ t \in endless /\ Flood(fd[owner[t]], t) /\ Strays(t)
        /\ UNCHANGED <<clientVars, up, cuts, wpc, fd, due, rest, endless>>
    BY <1>15 DEF StreamOutput
  <2> HIDE DEF SessionInv
  <2>2. TypeOK /\ TaskInv /\ ConnectionInv
    BY DEF SessionInv
  <2>3. owner[t] \in Clients /\ fd[owner[t]] \in Descriptors
    BY <2>1, <2>2 DEF TypeOK, TaskInv
  <2>4. /\ flood' \in [Clients -> SUBSET endless] /\ reset' \in [Clients -> BOOLEAN] /\ alive' \in BOOLEAN
        /\ UNCHANGED down
        /\ \A d \in Clients : cpc[d] = "closed" => flood'[d] = flood[d]
    BY <2>1, <2>2, <2>3, FloodFacts
  <2>5. upsets' \in [Clients -> SUBSET Upsets]
    BY <2>1, <2>2 DEF TypeOK, Strays, Upsets
  <2> QED BY <2>1, <2>2, <2>4, <2>5 DEF TypeOK
<1> QED BY <1>1, <1>2, <1>3, <1>4, <1>5, <1>6, <1>7, <1>8, <1>9, <1>10, <1>11, <1>12, <1>13, <1>14, <1>15
        DEF Next, ClientWaits, WorkerRuns

-----------------------------------------------------------------------------
(* Tasks and connections *)

\* What a step does to the tasks and the workers.
TaskMoves ==
  \/ /\ UNCHANGED lifecycleVars
     /\ \/ UNCHANGED wpc
        \/ \E c \in Clients : wpc[c] \in {"none", "marking"} /\ wpc' = [wpc EXCEPT ![c] = "recv"]
        \/ \E c \in Clients : wpc[c] = "recv" /\ wpc' = [wpc EXCEPT ![c] = "marking"]
        \/ \E c \in Clients : wpc[c] = "leaving" /\ wpc' = [wpc EXCEPT ![c] = "gone"]
  \/ \E c \in Clients, t \in Tasks, b \in Commands :
       Server!Submit(t, c, b) /\ wpc[c] = "recv" /\ UNCHANGED wpc
  \/ \E c \in Clients : wpc[c] = "recv" /\ Server!Leave(c) /\ wpc' = [wpc EXCEPT ![c] = "leaving"]
  \/ \E t \in Tasks :
       /\ Server!Start(t) \/ Server!Send(t) \/ Server!Yield(t) \/ Server!Complete(t) \/ Server!Lose(t)
       /\ UNCHANGED wpc

LEMMA NextTaskMoves == ASSUME TypeOK, Next PROVE TaskMoves
<1> USE DEF clientVars, taskVars
<1>1. ASSUME NEW c \in Clients, Connect(c) \/ Quit(c) \/ ClientWaits(c) PROVE TaskMoves
  BY <1>1 DEF TaskMoves, Connect, Quit, ClientWaits, Receive, ReceiveFlood, TimeOut, ServerGone, Close
<1>2. ASSUME NEW c \in Clients, NEW b \in Commands \cup {EmptyLine}, SendLine(c, b) PROVE TaskMoves
  BY <1>2 DEF TaskMoves, SendLine
<1>3. ASSUME NEW c \in Clients, ReceiveLine(c) PROVE TaskMoves
  <2>1. PICK a \in Lines, upset \in {{}, {"cut"}} : HandleLine(c, a, upset)
    BY <1>3, LineReceived
  <2>2. wpc[c] = "recv"
    BY <1>3 DEF ReceiveLine
  <2>3. CASE RemoveTasks(c)
    BY <2>2, <2>3 DEF TaskMoves, RemoveTasks
  <2>4. CASE a \in Commands /\ MakeTask(c, a, upset)
    BY <2>2, <2>4 DEF TaskMoves, MakeTask
  <2>5. CASE wpc' = [wpc EXCEPT ![c] = "marking"] /\ UNCHANGED taskVars
    BY <2>2, <2>5 DEF TaskMoves
  <2> QED BY <2>1, <2>3, <2>4, <2>5 DEF HandleLine, WorkerAnswers
<1>4. ASSUME NEW c \in Clients, Accept(c) \/ SendMark(c) \/ HangUp(c) \/ CloseDescriptor(c) PROVE TaskMoves
  BY <1>4 DEF TaskMoves, Accept, SendMark, HangUp, CloseDescriptor, RemoveTasks
<1>5. ASSUME NEW t \in Tasks, WriteOutput(t) \/ StreamOutput(t) \/ EndTask(t) \/ Schedule(t) PROVE TaskMoves
  BY <1>5 DEF TaskMoves, WriteOutput, StreamOutput, EndTask, Schedule
<1> QED BY <1>1, <1>2, <1>3, <1>4, <1>5 DEF Next, WorkerRuns

LEMMA TaskStep == ASSUME TypeOK, TaskInv, TaskMoves PROVE TaskInv'
<1> USE DEF TypeOK, TaskInv, Server!Phases
<1>1. CASE UNCHANGED lifecycleVars
  BY <1>1 DEF TaskMoves, lifecycleVars
<1>2. ASSUME NEW c \in Clients, NEW t \in Tasks, NEW b \in Commands,
             Server!Submit(t, c, b), wpc[c] = "recv", UNCHANGED wpc
      PROVE  TaskInv'
  BY <1>2 DEF Server!Submit
<1>3. ASSUME NEW c \in Clients, wpc[c] = "recv", Server!Leave(c), wpc' = [wpc EXCEPT ![c] = "leaving"]
      PROVE  TaskInv'
  BY <1>3 DEF Server!Leave
<1>4. ASSUME NEW t \in Tasks, UNCHANGED wpc,
             Server!Start(t) \/ Server!Send(t) \/ Server!Yield(t) \/ Server!Complete(t) \/ Server!Lose(t)
      PROVE  TaskInv'
  <2>1. CASE Server!Send(t)
    <3>1. output' = [output EXCEPT ![t] = @ + 1] /\ UNCHANGED <<phase, owner, demand, present>>
      BY <2>1 DEF Server!Send
    <3>2. output' \in [Tasks -> Nat]
      BY <3>1
    <3> QED BY <1>4, <3>1, <3>2
  <2>2. CASE Server!Start(t) \/ Server!Yield(t) \/ Server!Complete(t) \/ Server!Lose(t)
    <3>1. /\ phase[t] # "unborn" /\ UNCHANGED <<owner, demand, output>>
          /\ \E p \in Server!Phases \ {"unborn"} : phase' = [phase EXCEPT ![t] = p]
      BY <2>2 DEF Server!Start, Server!Yield, Server!Complete, Server!Lose
    <3> QED BY <1>4, <3>1
  <2> QED BY <1>4, <2>1, <2>2
<1> QED BY <1>1, <1>2, <1>3, <1>4 DEF TaskMoves

\* A task that exists has its owner for good, and who has left does not return.
LEMMA OwnersKept ==
  ASSUME TypeOK, TaskInv, TaskMoves
  PROVE  /\ present' \subseteq present
         /\ \A t \in Tasks : phase[t] # "unborn" => phase'[t] # "unborn" /\ owner'[t] = owner[t]
<1> USE DEF TypeOK, TaskInv, Server!Phases
<1>1. CASE UNCHANGED lifecycleVars
  BY <1>1 DEF lifecycleVars
<1>2. ASSUME NEW c \in Clients, NEW t \in Tasks, NEW b \in Commands, Server!Submit(t, c, b)
      PROVE  /\ UNCHANGED present
             /\ \A u \in Tasks : phase[u] # "unborn" => phase'[u] # "unborn" /\ owner'[u] = owner[u]
  BY <1>2 DEF Server!Submit
<1>3. ASSUME NEW c \in Clients, Server!Leave(c)
      PROVE  /\ present' \subseteq present /\ UNCHANGED owner
             /\ \A u \in Tasks : phase[u] # "unborn" => phase'[u] # "unborn"
  BY <1>3 DEF Server!Leave
<1>4. ASSUME NEW t \in Tasks,
             Server!Start(t) \/ Server!Send(t) \/ Server!Yield(t) \/ Server!Complete(t) \/ Server!Lose(t)
      PROVE  /\ UNCHANGED <<present, owner>>
             /\ \A u \in Tasks : phase[u] # "unborn" => phase'[u] # "unborn"
  BY <1>4 DEF Server!Start, Server!Send, Server!Yield, Server!Complete, Server!Lose
<1> QED BY <1>1, <1>2, <1>3, <1>4 DEF TaskMoves

\* Task t may write to the connection of client c.
Writes(t, c) ==
  \/ t = Worker
  \/ /\ t \in Tasks /\ phase[t] # "unborn"
     /\ owner[t] = c \/ owner[t] \notin present

\* What a step does to the bytes on their way to a client.
DownMoves ==
  \A c \in Clients :
    \/ down'[c] = down[c]
    \/ \E n \in Nat : n <= Len(down[c]) /\ down'[c] = SubSeq(down[c], n + 1, Len(down[c]))
    \/ down'[c] = <<>>
    \/ /\ wpc[c] # "none"
       /\ \E t \in Tasks \cup {Worker}, s \in Seq(Pieces) :
            down'[c] = down[c] \o Tagged(t, s) /\ Writes(t, c)

LEMMA WriteDown ==
  ASSUME TypeOK, ConnectionInv, NEW f \in Descriptors, NEW t \in Tasks \cup {Worker},
         NEW s \in Seq(Pieces), Write(f, Tagged(t, s)), \A c \in ConnectionsOf(f) : Writes(t, c)
  PROVE  DownMoves
<1>1. Tagged(t, s) \in Stream
  BY TaggedFacts
<1>2. /\ \A c \in Clients : c \notin ConnectionsOf(f) => down'[c] = down[c]
      /\ \A c \in ConnectionsOf(f) :
              /\ cpc[c] # "closed" => down'[c] = down[c] \o Tagged(t, s)
              /\ cpc[c] = "closed" => down'[c] = down[c]
  BY <1>1, WriteFacts
<1>3. \A c \in ConnectionsOf(f) : wpc[c] # "none"
  BY DEF ConnectionsOf
<1> QED BY <1>2, <1>3 DEF DownMoves

\* A task writes to its owner, or to a client that has the descriptor of an
\* owner who has left.
LEMMA AnswerDown ==
  ASSUME TypeOK, TaskInv, ConnectionInv, NEW t \in Tasks, phase[t] # "unborn",
         NEW s \in Seq(Pieces), Answer(t, s)
  PROVE  DownMoves
<1>1. owner[t] \in Clients /\ wpc[owner[t]] # "none" /\ fd[owner[t]] \in Descriptors
  BY DEF TypeOK, TaskInv
<1>2. ASSUME NEW c \in ConnectionsOf(fd[owner[t]]), owner[t] \in present
      PROVE  c = owner[t]
  <2>1. owner[t] \in ConnectionsOf(fd[owner[t]])
    BY <1>1, <1>2 DEF ConnectionInv, ConnectionsOf
  <2> QED BY <1>1, <2>1 DEF ConnectionInv, ConnectionsOf
<1> QED BY <1>1, <1>2, WriteDown DEF Answer, Writes

LEMMA NextDownMoves == ASSUME TypeOK, TaskInv, ConnectionInv, Next PROVE DownMoves
<1> USE DEF clientVars, taskVars
<1>1. CASE UNCHANGED down
  BY <1>1 DEF DownMoves
<1>2. ASSUME NEW c \in Clients, Close(c) PROVE DownMoves
  BY <1>2 DEF DownMoves, TypeOK, Close
<1>3. ASSUME NEW c \in Clients, Receive(c) PROVE DownMoves
  <2>1. PICK q \in Stream, n \in Nat :
           /\ q = SubSeq(down[c], n + 1, Len(down[c])) /\ n <= Len(down[c])
           /\ down' = [down EXCEPT ![c] = q]
    BY <1>3, Received
  <2> QED BY <2>1 DEF DownMoves, TypeOK
<1>4. ASSUME NEW c \in Clients, ReceiveLine(c) PROVE DownMoves
  <2>1. PICK a \in Lines, upset \in {{}, {"cut"}} : HandleLine(c, a, upset)
    BY <1>4, LineReceived
  <2>2. wpc[c] = "recv" /\ fd[c] \in Descriptors
    BY <1>4 DEF ReceiveLine, TypeOK
  <2>3. CASE RemoveTasks(c) \/ MakeTask(c, a, upset)
    BY <1>1, <2>3 DEF RemoveTasks, MakeTask
  <2>4. ASSUME NEW s \in Seq(Pieces), WorkerAnswers(c, s, upset) PROVE DownMoves
    <3>1. Write(fd[c], Tagged(Worker, s)) \/ UNCHANGED down
      BY <2>4 DEF WorkerAnswers
    <3> QED BY <1>1, <2>2, <3>1, WriteDown, EmptyStream DEF Writes
  <2> QED BY <2>1, <2>3, <2>4, WrittenPieces DEF HandleLine
<1>5. ASSUME NEW t \in Tasks, WriteOutput(t) PROVE DownMoves
  <2>1. rest[t] \in Seq(Pieces) /\ rest[t] # <<>> /\ phase[t] = "running" /\ Answer(t, <<Head(rest[t])>>)
    BY <1>5 DEF TypeOK, WriteOutput
  <2>2. <<Head(rest[t])>> \in Seq(Pieces)
    BY <2>1, HeadTailProperties
  <2> QED BY <2>1, <2>2, AnswerDown
<1>6. ASSUME NEW t \in Tasks, EndTask(t) PROVE DownMoves
  <2>1. phase[t] = "running" /\ Answer(t, Mark)
    BY <1>6 DEF EndTask, Server!Complete
  <2> QED BY <2>1, AnswerDown, MarkFacts
<1>7. ASSUME NEW c \in Clients, Connect(c) \/ ReceiveFlood(c) \/ Accept(c) \/ HangUp(c) \/ CloseDescriptor(c)
      PROVE  DownMoves
  BY <1>1, <1>7 DEF Connect, ReceiveFlood, Accept, HangUp, CloseDescriptor, RemoveTasks
<1>8. ASSUME NEW c \in Clients, NEW b \in Commands \cup {EmptyLine}, SendLine(c, b) PROVE DownMoves
  BY <1>1, <1>8 DEF SendLine
<1>9. ASSUME NEW t \in Tasks, StreamOutput(t) \/ Schedule(t) PROVE DownMoves
  BY <1>1, <1>9 DEF StreamOutput, Flood, Schedule
<1>10. ASSUME NEW c \in Clients, SendMark(c) PROVE DownMoves
  <2>1. Write(fd[c], Tagged(Worker, Mark)) /\ fd[c] \in Descriptors
    BY <1>10 DEF SendMark, TypeOK
  <2> QED BY <2>1, WriteDown, EmptyStream, MarkFacts DEF Writes
<1> QED BY <1>2, <1>3, <1>4, <1>5, <1>6, <1>7, <1>8, <1>9, <1>10
        DEF Next, ClientWaits, WorkerRuns, Quit, TimeOut, ServerGone

\* A task that streams writes to its owner, or to a client that has the
\* descriptor of an owner who has left; only streaming floods a client.
LEMMA NextFloodMoves ==
  ASSUME TypeOK, TaskInv, ConnectionInv, Next, NEW c \in Clients
  PROVE  \/ flood'[c] \subseteq flood[c]
         \/ \E t \in endless :
              /\ StreamOutput(t) /\ Writes(t, c) /\ wpc[c] # "none"
              /\ c \in ConnectionsOf(fd[owner[t]])
              /\ flood'[c] = flood[c] \cup {t}
<1> USE DEF clientVars, taskVars
<1> DEFINE Fewer == flood'[c] \subseteq flood[c]
<1>1. CASE UNCHANGED flood
  BY <1>1
<1>2. ASSUME NEW d \in Clients, Close(d) \/ ReceiveFlood(d) PROVE Fewer
  BY <1>2 DEF TypeOK, Close, ReceiveFlood
<1>3. ASSUME NEW d \in Clients, ReceiveLine(d) PROVE UNCHANGED flood
  <2>1. PICK a \in Lines, upset \in {{}, {"cut"}} : HandleLine(d, a, upset)
    BY <1>3, LineReceived
  <2> QED BY <2>1 DEF HandleLine, WorkerAnswers, Write, MakeTask, RemoveTasks
<1>4. ASSUME NEW d \in Clients,
             Connect(d) \/ Receive(d) \/ Accept(d) \/ SendMark(d) \/ HangUp(d) \/ CloseDescriptor(d)
      PROVE  UNCHANGED flood
  BY <1>4 DEF Connect, Receive, Accept, SendMark, Write, HangUp, CloseDescriptor, RemoveTasks
<1>5. ASSUME NEW d \in Clients, NEW b \in Commands \cup {EmptyLine}, SendLine(d, b) PROVE UNCHANGED flood
  BY <1>5 DEF SendLine
<1>6. ASSUME NEW t \in Tasks, WriteOutput(t) \/ EndTask(t) \/ Schedule(t) PROVE UNCHANGED flood
  BY <1>6 DEF WriteOutput, EndTask, Answer, Write, Schedule
<1>7. ASSUME NEW t \in Tasks, StreamOutput(t)
      PROVE  \/ Fewer
             \/ /\ t \in endless /\ Writes(t, c) /\ wpc[c] # "none"
                /\ c \in ConnectionsOf(fd[owner[t]])
                /\ flood'[c] = flood[c] \cup {t}
  <2>1. phase[t] = "running" /\ t \in endless /\ Flood(fd[owner[t]], t)
    BY <1>7 DEF StreamOutput
  <2>2. owner[t] \in Clients /\ wpc[owner[t]] # "none" /\ fd[owner[t]] \in Descriptors
    BY <2>1 DEF TypeOK, TaskInv
  <2>3. CASE c \notin ConnectionsOf(fd[owner[t]])
    BY <2>1, <2>2, <2>3, FloodFacts
  <2>4. CASE c \in ConnectionsOf(fd[owner[t]])
    <3>1. flood'[c] = flood[c] \/ flood'[c] = flood[c] \cup {t}
      BY <2>1, <2>2, <2>4, FloodFacts
    <3>2. wpc[c] # "none"
      BY <2>4 DEF ConnectionsOf
    <3>3. owner[t] \in present => c = owner[t]
      <4> SUFFICES ASSUME owner[t] \in present PROVE c = owner[t]
        OBVIOUS
      <4>1. owner[t] \in ConnectionsOf(fd[owner[t]])
        BY <2>2 DEF ConnectionInv, ConnectionsOf
      <4> QED BY <2>2, <2>4, <4>1 DEF ConnectionInv, ConnectionsOf
    <3> QED BY <2>1, <2>4, <3>1, <3>2, <3>3 DEF Writes
  <2> QED BY <2>3, <2>4
<1> HIDE DEF Fewer
<1>8. UNCHANGED flood => Fewer
  BY DEF Fewer
<1>9. Fewer \/ \E t \in Tasks : StreamOutput(t)
  BY <1>2, <1>3, <1>4, <1>5, <1>6, <1>8 DEF Next, ClientWaits, WorkerRuns, Quit, TimeOut, ServerGone
<1> QED BY <1>7, <1>9 DEF Fewer

\* Whoever has written what is under way.
LEMMA WritersOfDown ==
  ASSUME TypeOK, DownMoves, NEW c \in Clients, NEW i \in DOMAIN down'[c], down'[c] \in Stream
  PROVE  (\E j \in DOMAIN down[c] : down[c][j] = down'[c][i]) \/ Writes(down'[c][i][1], c)
<1>1. down[c] \in Seq(Entries) /\ down'[c] \in Seq(Entries)
  BY DEF TypeOK, Stream
<1>2. Len(down[c]) \in Nat /\ DOMAIN down[c] = 1 .. Len(down[c]) /\ i \in 1 .. Len(down'[c])
  BY <1>1, LenProperties
<1>3. CASE down'[c] = down[c] \/ down'[c] = <<>>
  BY <1>3
<1>4. ASSUME NEW n \in Nat, n <= Len(down[c]), down'[c] = SubSeq(down[c], n + 1, Len(down[c]))
      PROVE  \E j \in DOMAIN down[c] : down[c][j] = down'[c][i]
  <2>1. \A j \in n + 1 .. Len(down[c]) : down[c][j] \in Entries
    BY <1>1, <1>2, ElementOfSeq
  <2>2. Len(down'[c]) = Len(down[c]) - n /\ \A j \in 1 .. Len(down[c]) - n : down'[c][j] = down[c][n + j]
    BY <1>1, <1>2, <1>4, <2>1, SubSeqProperties
  <2>3. i \in 1 .. Len(down[c]) - n /\ n + i \in 1 .. Len(down[c])
    BY <1>2, <1>4, <2>2
  <2>4. down[c][n + i] = down'[c][i]
    BY <2>2, <2>3
  <2> QED BY <1>2, <2>3, <2>4
<1>5. ASSUME NEW t \in Tasks \cup {Worker}, NEW s \in Seq(Pieces), down'[c] = down[c] \o Tagged(t, s), Writes(t, c)
      PROVE  (\E j \in DOMAIN down[c] : down[c][j] = down'[c][i]) \/ Writes(down'[c][i][1], c)
  <2> DEFINE m == Tagged(t, s)
  <2>1. m \in Seq(Entries) /\ Len(m) \in Nat /\ \A j \in 1 .. Len(m) : m[j][1] = t
    <3>1. /\ m \in Stream /\ Len(m) = Len(s)
          /\ \A j \in 1 .. Len(s) : m[j] = <<t, s[j]>>
      BY TaggedFacts
    <3> HIDE DEF m
    <3> QED BY <3>1, LenProperties DEF Stream
  <2> HIDE DEF m
  <2>2. /\ Len(down'[c]) = Len(down[c]) + Len(m)
        /\ \A j \in 1 .. Len(down[c]) + Len(m) : down'[c][j] = IF j <= Len(down[c]) THEN down[c][j] ELSE m[j - Len(down[c])]
    BY <1>1, <1>5, <2>1, ConcatProperties DEF m
  <2>3. CASE i <= Len(down[c])
    BY <1>2, <2>1, <2>2, <2>3
  <2>4. CASE ~(i <= Len(down[c]))
    <3>1. Len(down[c]) \in Nat /\ i \in 1 .. Len(down[c]) + Len(m)
      BY <1>2, <2>2
    <3>2. i - Len(down[c]) \in 1 .. Len(m)
      BY <2>1, <2>4, <3>1
    <3>3. down'[c][i] = m[i - Len(down[c])]
      BY <2>2, <2>4, <3>1
    <3>4. m[i - Len(down[c])][1] = t
      BY <2>1, <3>2
    <3> QED BY <1>5, <3>3, <3>4
  <2> QED BY <2>3, <2>4
<1> QED BY <1>3, <1>4, <1>5 DEF DownMoves

LEMMA WrittenStep == ASSUME SessionInv, Next, TypeOK' PROVE WrittenInv' /\ StraysAreOrphans'
<1> USE DEF SessionInv
<1>1. TaskMoves /\ DownMoves
  BY NextTaskMoves, NextDownMoves
<1>2. ASSUME NEW c \in Clients, NEW i \in DOMAIN down'[c], down'[c][i][1] # Worker
      PROVE  /\ phase'[down'[c][i][1]] # "unborn"
             /\ owner'[down'[c][i][1]] # c => owner'[down'[c][i][1]] \notin present'
  <2> DEFINE e == down'[c][i]
  <2>1. down'[c] \in Seq(Entries) /\ e \in Entries
    <3>1. down'[c] \in Seq(Entries)
      BY DEF TypeOK, Stream
    <3> QED BY <3>1
  <2>2. e[1] \in Tasks
    BY <1>2, <2>1 DEF Entries
  <2>3. (\E j \in DOMAIN down[c] : down[c][j] = e) \/ Writes(e[1], c)
    BY <1>1, <2>1, WritersOfDown DEF Stream
  <2> HIDE DEF e
  <2>4. phase[e[1]] # "unborn" /\ (owner[e[1]] # c => owner[e[1]] \notin present)
    BY <1>2, <2>3 DEF WrittenInv, StraysAreOrphans, Writers, Writes, e
  <2> HIDE DEF SessionInv
  <2>5. /\ present' \subseteq present
        /\ phase'[e[1]] # "unborn" /\ owner'[e[1]] = owner[e[1]]
    BY <1>1, <2>2, <2>4, OwnersKept DEF SessionInv
  <2> QED BY <2>4, <2>5 DEF e
<1>3. ASSUME NEW c \in Clients, NEW t \in flood'[c], owner'[t] # c PROVE owner'[t] \notin present'
  <2>1. t \in Tasks /\ phase[t] # "unborn" /\ (owner[t] # c => owner[t] \notin present)
    <3>1. CASE t \in flood[c]
      BY <3>1 DEF TypeOK, EndlessInv, StraysAreOrphans, Writers, Tasks, Worker
    <3>2. CASE t \notin flood[c]
      <4>1. PICK u \in endless : Writes(u, c) /\ flood'[c] = flood[c] \cup {u}
        BY <1>3, <3>2, NextFloodMoves
      <4>2. t = u /\ u \in Tasks /\ u # Worker
        BY <1>3, <3>2, <4>1, ConstantFacts DEF TypeOK
      <4> QED BY <4>1, <4>2 DEF EndlessInv, Writes
    <3> QED BY <3>1, <3>2
  <2> HIDE DEF SessionInv
  <2>2. present' \subseteq present /\ owner'[t] = owner[t]
    BY <1>1, <2>1, OwnersKept DEF SessionInv
  <2> QED BY <1>3, <2>1, <2>2
<1> QED BY <1>2, <1>3 DEF WrittenInv, StraysAreOrphans, Writers

\* Only Accept starts a worker.
LEMMA AcceptOnly ==
  ASSUME TypeOK, Next, NEW c \in Clients, wpc[c] = "none", wpc'[c] # "none"
  PROVE  Accept(c)
<1> USE DEF TypeOK, clientVars, taskVars
<1>1. \A d \in Clients : ~ReceiveLine(d)
  <2> SUFFICES ASSUME NEW d \in Clients, ReceiveLine(d) PROVE FALSE
    OBVIOUS
  <2>1. wpc[d] = "recv" /\ \E a \in Lines, upset \in {{}, {"cut"}} : HandleLine(d, a, upset)
    BY LineReceived
  <2> QED BY <2>1 DEF HandleLine, WorkerAnswers, MakeTask, RemoveTasks
<1>2. \A d \in Clients : ~(Connect(d) \/ Quit(d) \/ ClientWaits(d))
  BY DEF Connect, Quit, ClientWaits, Receive, ReceiveFlood, TimeOut, ServerGone, Close
<1>3. \A d \in Clients, b \in Commands \cup {EmptyLine} : ~SendLine(d, b)
  BY DEF SendLine
<1>4. \A d \in Clients : ~(SendMark(d) \/ HangUp(d) \/ CloseDescriptor(d))
  BY DEF SendMark, HangUp, RemoveTasks, CloseDescriptor
<1>5. \A t \in Tasks : ~(WriteOutput(t) \/ StreamOutput(t) \/ EndTask(t) \/ Schedule(t))
  BY DEF WriteOutput, StreamOutput, EndTask, Schedule
<1>6. \A d \in Clients \ {c} : ~Accept(d)
  BY DEF Accept
<1> QED BY <1>1, <1>2, <1>3, <1>4, <1>5, <1>6 DEF Next, WorkerRuns

LEMMA OffBefore == ASSUME TypeOK, Next, NEW c \in Clients PROVE cpc'[c] = "off" => cpc[c] = "off"
<1> USE DEF TypeOK, clientVars
<1>1. ASSUME NEW d \in Clients, Connect(d) \/ Quit(d) \/ ClientWaits(d) PROVE cpc'[c] = "off" => cpc[c] = "off"
  BY <1>1 DEF Connect, Quit, ClientWaits, Receive, ReceiveFlood, TimeOut, ServerGone, Close
<1>2. ASSUME NEW d \in Clients, NEW b \in Commands \cup {EmptyLine}, SendLine(d, b)
      PROVE  cpc'[c] = "off" => cpc[c] = "off"
  BY <1>2 DEF SendLine
<1>3. ASSUME NEW d \in Clients, WorkerRuns(d) PROVE UNCHANGED cpc
  BY <1>3 DEF WorkerRuns, Accept, ReceiveLine, SendMark, HangUp, CloseDescriptor
<1>4. ASSUME NEW t \in Tasks, WriteOutput(t) \/ StreamOutput(t) \/ EndTask(t) \/ Schedule(t) PROVE UNCHANGED cpc
  BY <1>4 DEF WriteOutput, StreamOutput, EndTask, Schedule
<1> QED BY <1>1, <1>2, <1>3, <1>4 DEF Next

LEMMA ConnectionStep == ASSUME SessionInv, Next PROVE ConnectionInv'
<1> USE DEF SessionInv, TypeOK, ConnectionInv, clientVars
<1>1. TaskMoves /\ DownMoves
  BY NextTaskMoves, NextDownMoves
<1>2. (present = {c \in Clients : wpc[c] \in {"none", "recv", "marking"}})'
  <2>1. CASE UNCHANGED lifecycleVars /\ UNCHANGED wpc
    BY <2>1 DEF lifecycleVars
  <2>2. ASSUME NEW c \in Clients, wpc[c] \in {"none", "marking", "recv"},
               wpc' \in {[wpc EXCEPT ![c] = "recv"], [wpc EXCEPT ![c] = "marking"]}, UNCHANGED lifecycleVars
        PROVE  (present = {d \in Clients : wpc[d] \in {"none", "recv", "marking"}})'
    BY <2>2 DEF lifecycleVars
  <2>3. ASSUME NEW c \in Clients, wpc[c] = "leaving", wpc' = [wpc EXCEPT ![c] = "gone"], UNCHANGED lifecycleVars
        PROVE  (present = {d \in Clients : wpc[d] \in {"none", "recv", "marking"}})'
    BY <2>3 DEF lifecycleVars
  <2>4. ASSUME NEW c \in Clients, Server!Leave(c), wpc' = [wpc EXCEPT ![c] = "leaving"]
        PROVE  (present = {d \in Clients : wpc[d] \in {"none", "recv", "marking"}})'
    BY <2>4 DEF Server!Leave
  <2>5. CASE UNCHANGED <<present, wpc>>
    BY <2>5
  <2> QED BY <1>1, <2>1, <2>2, <2>3, <2>4, <2>5
          DEF TaskMoves, Server!Submit, Server!Start, Server!Send, Server!Yield, Server!Complete, Server!Lose
<1>3. (\E c \in Clients : Accept(c)) \/ UNCHANGED fd
  BY LineReceived DEF Next, Connect, Quit, SendLine, ClientWaits, Receive, ReceiveFlood, TimeOut, ServerGone, Close,
     WorkerRuns, SendMark, HangUp, CloseDescriptor, WriteOutput, StreamOutput, EndTask, Schedule
<1>4. \A c \in Clients : wpc'[c] = "none" => wpc[c] = "none"
  BY <1>1 DEF TaskMoves
<1>5. ASSUME NEW c \in Clients, NEW d \in Clients, wpc'[c] \in {"recv", "marking", "leaving"},
             wpc'[d] \in {"recv", "marking", "leaving"}, fd'[c] = fd'[d]
      PROVE  c = d
  <2>1. ASSUME NEW e \in Clients, Accept(e) PROVE c = d
    <3>1. PICK f \in Descriptors : ConnectionsOf(f) = {} /\ fd' = [fd EXCEPT ![e] = f]
      BY <2>1 DEF Accept
    <3>2. wpc' = [wpc EXCEPT ![e] = "recv"]
      BY <2>1 DEF Accept
    <3>3. ASSUME NEW g \in Clients \ {e}, wpc'[g] \in {"recv", "marking", "leaving"}
          PROVE  fd'[g] # f /\ wpc[g] \in {"recv", "marking", "leaving"}
      BY <3>1, <3>2, <3>3 DEF ConnectionsOf
    <3>4. fd' = [fd EXCEPT ![e] = f] /\ fd'[e] = f /\ \A g \in Clients \ {e} : fd'[g] = fd[g]
      BY <3>1
    <3> QED BY <1>5, <3>3, <3>4
  <2>2. CASE UNCHANGED fd
    <3>1. ASSUME NEW g \in Clients, wpc'[g] \in {"recv", "marking", "leaving"}
          PROVE  wpc[g] \in {"recv", "marking", "leaving"}
      <4>1. fd[g] # 0 => wpc[g] # "none"
        OBVIOUS
      <4>2. CASE wpc[g] = "none"
        <5>1. \E e \in Clients : Accept(e)
          <6>1. wpc' # wpc
            BY <3>1, <4>2
          <6> QED BY <6>1, <3>1, <4>2, AcceptOnly
        <5> QED BY <2>2, <5>1, ConstantFacts DEF Accept
      <4> QED BY <1>1, <3>1, <4>2 DEF TaskMoves
    <3>2. wpc[c] \in {"recv", "marking", "leaving"} /\ wpc[d] \in {"recv", "marking", "leaving"} /\ fd[c] = fd[d]
      BY <1>5, <2>2, <3>1
    <3> QED BY <3>2
  <2> QED BY <1>3, <2>1, <2>2
<1>6. ASSUME NEW c \in Clients PROVE (cpc[c] = "off" => wpc[c] = "none")'
  <2>1. cpc'[c] = "off" => cpc[c] = "off"
    BY OffBefore
  <2>2. wpc[c] = "none" /\ wpc'[c] # "none" => cpc[c] # "off"
    BY AcceptOnly DEF Accept
  <2> QED BY <2>1, <2>2
<1>7. ASSUME NEW c \in Clients PROVE (wpc[c] = "none" => down[c] = <<>> /\ flood[c] = {})'
  <2>1. (wpc[c] = "none" => down[c] = <<>>)'
    BY <1>1, <1>4 DEF DownMoves
  <2>2. wpc[c] = "none" => flood'[c] \subseteq flood[c]
    BY NextFloodMoves
  <2> QED BY <1>4, <2>1, <2>2
<1> QED BY <1>2, <1>5, <1>6, <1>7

-----------------------------------------------------------------------------
(* The end of the server *)

LEMMA InitInv == Init => SessionInv
<1> SUFFICES ASSUME Init PROVE SessionInv
  OBVIOUS
<1> USE DEF Init, Server!Init
<1>1. TypeOK
  BY InitType
<1>2. TaskInv
  BY DEF TaskInv, Server!Phases
<1>3. ConnectionInv
  BY ConstantFacts DEF ConnectionInv
<1>4. WrittenInv /\ StraysAreOrphans /\ EndlessInv
  BY DEF WrittenInv, StraysAreOrphans, Writers, EndlessInv
<1>5. OrderInv
  BY EmptyStream DEF OrderInv, Order, AtRest, Active
<1>6. OrderlyClientsHarmless
  BY DEF OrderlyClientsHarmless
<1> QED BY <1>1, <1>2, <1>3, <1>4, <1>5, <1>6 DEF SessionInv

\* What has gone wrong stays so, and only a write to a connection that has
\* been reset ends the server.
LEMMA UpsetsStay ==
  ASSUME TypeOK, TaskInv, ConnectionInv, Next
  PROVE  /\ \A c \in Clients : upsets[c] \subseteq upsets'[c]
         /\ alive' # alive => alive /\ \E c \in Clients : cpc[c] = "closed" /\ reset[c]
         /\ \A c \in Clients : cpc[c] = "closed" /\ reset[c] => cpc'[c] = "closed" /\ reset'[c]
<1> DEFINE Stay ==
             /\ \A c \in Clients : upsets[c] \subseteq upsets'[c]
             /\ alive' # alive => alive /\ \E c \in Clients : cpc[c] = "closed" /\ reset[c]
             /\ \A c \in Clients : cpc[c] = "closed" /\ reset[c] => cpc'[c] = "closed" /\ reset'[c]
<1> USE DEF TypeOK
<1>1. ASSUME NEW c \in Clients, Connect(c) \/ Quit(c) \/ ClientWaits(c) PROVE Stay
  <2>1. UNCHANGED alive
    BY <1>1 DEF Connect, Quit, ClientWaits, Receive, ReceiveFlood, TimeOut, ServerGone, Close
  <2>2. UNCHANGED upsets \/ upsets' = [upsets EXCEPT ![c] = @ \cup {"timeout"}]
    BY <1>1 DEF Connect, Quit, ClientWaits, Receive, ReceiveFlood, TimeOut, ServerGone
  <2>3. /\ cpc[c] # "closed"
        /\ \A d \in Clients \ {c} : cpc'[d] = cpc[d] /\ reset'[d] = reset[d]
    BY <1>1 DEF Connect, Quit, ClientWaits, Receive, ReceiveFlood, TimeOut, ServerGone, Close, clientVars
  <2>4. \A d \in Clients : cpc[d] = "closed" /\ reset[d] => cpc'[d] = "closed" /\ reset'[d]
    BY <2>3
  <2>5. \A d \in Clients : upsets[d] \subseteq upsets'[d]
    <3>1. upsets \in [Clients -> SUBSET Upsets]
      OBVIOUS
    <3> HIDE DEF TypeOK
    <3> QED BY <2>2, <3>1
  <2> QED BY <2>1, <2>4, <2>5
<1>2. ASSUME NEW c \in Clients, NEW b \in Commands \cup {EmptyLine}, SendLine(c, b) PROVE Stay
  BY <1>2 DEF SendLine
<1>3. ASSUME NEW c \in Clients, SendMark(c) PROVE Stay
  <2> HIDE DEF TypeOK
  <2>1. /\ alive /\ wpc[c] = "marking" /\ Write(fd[c], Tagged(Worker, Mark)) /\ UNCHANGED <<cpc, upsets>>
    BY <1>3 DEF SendMark, clientVars
  <2>2. /\ \A d \in Clients \ {c} : reset'[d] = reset[d]
        /\ cpc[c] = "closed" => (reset[c] => reset'[c])
        /\ alive' = alive \/ (cpc[c] = "closed" /\ reset[c])
    BY <2>1, WorkerWrites, MarkFacts
  <2> QED BY <2>1, <2>2
<1>4. ASSUME NEW t \in Tasks, StreamOutput(t) PROVE Stay
  <2> HIDE DEF TypeOK
  <2>1. /\ alive /\ phase[t] = "running" /\ t \in endless /\ Flood(fd[owner[t]], t) /\ Strays(t)
        /\ UNCHANGED cpc
    BY <1>4 DEF StreamOutput, clientVars
  <2>2. owner[t] \in Clients /\ fd[owner[t]] \in Descriptors
    BY <2>1 DEF TypeOK, TaskInv
  <2>3. /\ \A c \in Clients : c \notin ConnectionsOf(fd[owner[t]]) => reset'[c] = reset[c]
        /\ \A c \in ConnectionsOf(fd[owner[t]]) : cpc[c] = "closed" => (reset[c] => reset'[c])
        /\ alive' = alive \/ \E c \in ConnectionsOf(fd[owner[t]]) : cpc[c] = "closed" /\ reset[c]
    BY <2>1, <2>2, FloodFacts
  <2>4. \A c \in Clients : upsets[c] \subseteq upsets'[c]
    BY <2>1 DEF Strays
  <2> QED BY <2>1, <2>3, <2>4 DEF ConnectionsOf
<1>5. ASSUME NEW c \in Clients, ReceiveLine(c) PROVE Stay
  <2>1. PICK a \in Lines, upset \in {{}, {"cut"}} : HandleLine(c, a, upset)
    BY <1>5, LineReceived
  <2>2. wpc[c] = "recv" /\ fd[c] \in Descriptors /\ alive /\ UNCHANGED cpc
    BY <1>5 DEF ReceiveLine, clientVars
  <2>3. CASE RemoveTasks(c) /\ upsets' = [upsets EXCEPT ![c] = @ \cup upset]
    <3>1. UNCHANGED <<reset, alive>> /\ upsets \in [Clients -> SUBSET Upsets]
      BY <2>3 DEF RemoveTasks
    <3>2. \A d \in Clients : upsets[d] \subseteq upsets'[d]
      BY <2>3, <3>1
    <3> QED BY <2>2, <3>1, <3>2
  <2>4. CASE a \in Commands /\ MakeTask(c, a, upset)
    <3>1. PICK t \in Tasks, s \in Seq(Pieces), forever \in BOOLEAN : Made(c, a, upset, t, s, forever)
      BY <2>4, MadeTask
    <3> USE DEF Made
    <3>2. \A d \in Clients : upsets[d] \subseteq upsets'[d]
      BY <3>1
    <3> QED BY <2>2, <3>1, <3>2
  <2>5. ASSUME NEW s \in Seq(Pieces), WorkerAnswers(c, s, upset) PROVE Stay
    <3>1. /\ Write(fd[c], Tagged(Worker, s)) \/ (s = <<>> /\ UNCHANGED <<down, flood, reset, alive>>)
          /\ upsets' = [upsets EXCEPT ![c] = @ \cup upset]
      BY <2>5 DEF WorkerAnswers
    <3>2. /\ \A d \in Clients \ {c} : reset'[d] = reset[d]
          /\ cpc[c] = "closed" => (reset[c] => reset'[c])
          /\ alive' = alive \/ (cpc[c] = "closed" /\ reset[c])
      BY <2>2, <3>1, WorkerWrites
    <3> QED BY <2>2, <3>1, <3>2, ZenonT(40)
  <2> QED BY <2>1, <2>3, <2>4, <2>5, WrittenPieces DEF HandleLine
<1>6. ASSUME NEW c \in Clients, Accept(c) \/ HangUp(c) \/ CloseDescriptor(c) PROVE Stay
  BY <1>6 DEF Accept, HangUp, RemoveTasks, CloseDescriptor, clientVars
<1>7. ASSUME NEW t \in Tasks, NEW s \in Seq(Pieces), phase[t] = "running", alive, Answer(t, s), UNCHANGED cpc
      PROVE  Stay
  <2>1. owner[t] \in Clients /\ fd[owner[t]] \in Descriptors
    BY <1>7 DEF TaskInv
  <2>2. Tagged(t, s) \in Stream /\ Write(fd[owner[t]], Tagged(t, s))
    BY <1>7, TaggedFacts DEF Answer
  <2>3. /\ \A c \in Clients : c \notin ConnectionsOf(fd[owner[t]]) => reset'[c] = reset[c]
        /\ \A c \in ConnectionsOf(fd[owner[t]]) : cpc[c] = "closed" => (reset[c] => reset'[c])
        /\ alive' = alive \/ \E d \in ConnectionsOf(fd[owner[t]]) : cpc[d] = "closed" /\ reset[d]
    BY <2>1, <2>2, WriteFacts
  <2>4. \A c \in Clients : upsets[c] \subseteq upsets'[c]
    BY <1>7 DEF Answer, Strays
  <2> QED BY <1>7, <2>3, <2>4 DEF ConnectionsOf
<1>8. ASSUME NEW t \in Tasks, WriteOutput(t) PROVE Stay
  <2>1. <<Head(rest[t])>> \in Seq(Pieces)
    BY <1>8, HeadTailProperties DEF WriteOutput
  <2> QED BY <1>7, <1>8, <2>1 DEF WriteOutput, clientVars
<1>9. ASSUME NEW t \in Tasks, EndTask(t) PROVE Stay
  BY <1>7, <1>9, MarkFacts DEF EndTask, Server!Complete, clientVars
<1>10. ASSUME NEW t \in Tasks, Schedule(t) PROVE Stay
  BY <1>10 DEF Schedule, clientVars
<1> HIDE DEF Stay
<1>11. Stay
  BY <1>1, <1>2, <1>3, <1>4, <1>5, <1>6, <1>8, <1>9, <1>10 DEF Next, WorkerRuns
<1> QED BY <1>11 DEF Stay

\* A client with a session that went well has no reset connection.
LEMMA HarmlessStep == ASSUME SessionInv, Next, TypeOK', OrderInv' PROVE OrderlyClientsHarmless'
<1>1. TypeOK /\ TaskInv /\ ConnectionInv
  BY DEF SessionInv
<1>2. /\ alive' # alive => alive /\ \E c \in Clients : cpc[c] = "closed" /\ reset[c]
      /\ \A c \in Clients : cpc[c] = "closed" /\ reset[c] => cpc'[c] = "closed" /\ reset'[c]
  BY <1>1, UpsetsStay
<1>3. ASSUME NEW c \in Clients, cpc'[c] = "closed", reset'[c] PROVE upsets'[c] # {}
  BY <1>3 DEF OrderInv, Order, AtRest, Asked, Served, Marking, Lost, Answered, Left
<1>4. alive \in BOOLEAN /\ alive' \in BOOLEAN
  BY <1>1 DEF TypeOK
<1>5. ~alive' => \E c \in Clients : cpc[c] = "closed" /\ reset[c]
  BY <1>2, <1>4 DEF SessionInv, OrderlyClientsHarmless
<1>6. ~alive' => \E c \in Clients : cpc'[c] = "closed" /\ reset'[c]
  BY <1>2, <1>5
<1> QED BY <1>3, <1>6 DEF OrderlyClientsHarmless

\* Only making a task adds to the endless ones.
LEMMA EndlessMoves ==
  ASSUME TypeOK, TaskInv, ConnectionInv, Next, NEW t \in endless', t \notin endless
  PROVE  phase'[t] # "unborn" /\ "endless" \in upsets'[owner'[t]]
<1> USE DEF TypeOK, clientVars, taskVars
<1>1. ASSUME NEW d \in Clients, ReceiveLine(d) PROVE phase'[t] # "unborn" /\ "endless" \in upsets'[owner'[t]]
  <2>1. PICK a \in Lines, upset \in {{}, {"cut"}} : HandleLine(d, a, upset)
    BY <1>1, LineReceived
  <2>2. a \in Commands /\ MakeTask(d, a, upset)
    BY <2>1 DEF HandleLine, WorkerAnswers, RemoveTasks
  <2>3. PICK u \in Tasks, s \in Seq(Pieces), forever \in BOOLEAN : Made(d, a, upset, u, s, forever)
    BY <2>2, MadeTask
  <2> USE DEF Made
  <2>4. forever /\ t = u
    BY <2>3
  <2>5. phase'[t] = "waiting" /\ owner'[t] = d
    BY <2>3, <2>4 DEF Server!Submit, TaskInv
  <2>6. "endless" \in upsets'[d]
    BY <2>3, <2>4
  <2> QED BY <2>5, <2>6
<1>2. \A d \in Clients : ~(Connect(d) \/ Quit(d) \/ ClientWaits(d))
  BY DEF Connect, Quit, ClientWaits, Receive, ReceiveFlood, TimeOut, ServerGone, Close
<1>3. \A d \in Clients, b \in Commands \cup {EmptyLine} : ~SendLine(d, b)
  BY DEF SendLine
<1>4. \A d \in Clients : ~(Accept(d) \/ SendMark(d) \/ HangUp(d) \/ CloseDescriptor(d))
  BY DEF Accept, SendMark, HangUp, RemoveTasks, CloseDescriptor
<1>5. \A u \in Tasks : ~(WriteOutput(u) \/ StreamOutput(u) \/ EndTask(u) \/ Schedule(u))
  BY DEF WriteOutput, StreamOutput, EndTask, Schedule
<1> QED BY <1>1, <1>2, <1>3, <1>4, <1>5 DEF Next, WorkerRuns

LEMMA EndlessStep == ASSUME SessionInv, Next, TypeOK' PROVE EndlessInv'
<1>1. TypeOK /\ TaskInv /\ ConnectionInv /\ EndlessInv
  BY DEF SessionInv
<1>2. TaskMoves /\ \A c \in Clients : upsets[c] \subseteq upsets'[c]
  BY <1>1, NextTaskMoves, UpsetsStay
<1>3. ASSUME NEW t \in endless' PROVE phase'[t] # "unborn" /\ "endless" \in upsets'[owner'[t]]
  <2>1. CASE t \in endless
    <3>1. t \in Tasks /\ phase[t] # "unborn" /\ "endless" \in upsets[owner[t]] /\ owner[t] \in Clients
      BY <1>1, <2>1 DEF TypeOK, TaskInv, EndlessInv
    <3>2. phase'[t] # "unborn" /\ owner'[t] = owner[t]
      BY <1>1, <1>2, <3>1, OwnersKept
    <3> QED BY <1>2, <3>1, <3>2
  <2>2. CASE t \notin endless
    BY <1>1, <2>2, EndlessMoves
  <2> QED BY <2>1, <2>2
<1>4. ASSUME NEW c \in Clients, flood'[c] # {} PROVE upsets'[c] # {}
  <2>1. CASE flood'[c] \subseteq flood[c]
    BY <1>1, <1>2, <1>4, <2>1 DEF EndlessInv
  <2>2. ASSUME NEW t \in endless, StreamOutput(t), c \in ConnectionsOf(fd[owner[t]]) PROVE upsets'[c] # {}
    <3>1. c = owner[t] => "endless" \in upsets[c]
      BY <1>1 DEF EndlessInv
    <3>2. c # owner[t] => "stray" \in upsets'[c]
      BY <2>2 DEF StreamOutput, Strays
    <3> QED BY <1>2, <3>1, <3>2
  <2> QED BY <1>1, <2>1, <2>2, NextFloodMoves
<1> QED BY <1>3, <1>4 DEF EndlessInv

-----------------------------------------------------------------------------
(* The stages of a session *)

\* What the lifecycle of the tasks does to those a client waits for.
LEMMA ActiveFacts ==
  ASSUME TypeOK, TaskInv, NEW c \in Clients
  PROVE  /\ UNCHANGED lifecycleVars => Active(c)' = Active(c)
         /\ \A d \in Clients, t \in Tasks, b \in Commands :
              Server!Submit(t, d, b) =>
                /\ t \notin Active(c)
                /\ Active(c)' = IF c = d THEN Active(c) \cup {t} ELSE Active(c)
         /\ \A t \in Tasks : Server!Start(t) \/ Server!Yield(t) \/ Server!Send(t) => Active(c)' = Active(c)
         /\ \A t \in Tasks :
              Server!Complete(t) \/ Server!Lose(t) =>
                /\ owner[t] = c => t \in Active(c)
                /\ Active(c)' = Active(c) \ {t}
         /\ \A d \in Clients :
              Server!Leave(d) =>
                /\ c # d => Active(c)' = Active(c)
                /\ Active(c)' \subseteq Active(c)
<1> USE DEF TaskInv, Active
<1>1. UNCHANGED lifecycleVars => Active(c)' = Active(c)
  BY DEF lifecycleVars
<1>2. ASSUME NEW d \in Clients, NEW t \in Tasks, NEW b \in Commands, Server!Submit(t, d, b)
      PROVE  /\ t \notin Active(c)
             /\ Active(c)' = IF c = d THEN Active(c) \cup {t} ELSE Active(c)
  BY <1>2 DEF Server!Submit
<1>3. ASSUME NEW t \in Tasks, Server!Start(t) \/ Server!Yield(t) \/ Server!Send(t) PROVE Active(c)' = Active(c)
  BY <1>3 DEF Server!Start, Server!Yield, Server!Send
<1>4. ASSUME NEW t \in Tasks, Server!Complete(t) \/ Server!Lose(t)
      PROVE  /\ owner[t] = c => t \in Active(c)
             /\ Active(c)' = Active(c) \ {t}
  BY <1>4 DEF Server!Complete, Server!Lose
<1>5. ASSUME NEW d \in Clients, Server!Leave(d)
      PROVE  /\ c # d => Active(c)' = Active(c)
             /\ Active(c)' \subseteq Active(c)
  BY <1>5 DEF Server!Leave
<1> QED BY <1>1, <1>2, <1>3, <1>4, <1>5

\* A step of others: nothing of client c changes, and the server does not start.
Untouched(c) ==
  /\ cpc'[c] = cpc[c] /\ wpc'[c] = wpc[c] /\ up'[c] = up[c] /\ down'[c] = down[c]
  /\ response'[c] = response[c] /\ answer'[c] = answer[c] /\ due'[c] = due[c]
  /\ reset'[c] = reset[c]
  /\ upsets[c] \subseteq upsets'[c]
  /\ Active(c)' = Active(c) /\ \A t \in Active(c) : rest'[t] = rest[t]
  /\ alive' => alive

LEMMA Frame == ASSUME NEW c \in Clients, Order(c), Untouched(c) PROVE Order(c)'
<1> SUFFICES ASSUME upsets[c] = {} PROVE (MarkersIn(due[c]) = {})' /\
                (AtRest(c) \/ Asked(c) \/ Served(c) \/ Marking(c) \/ Lost(c) \/ Answered(c) \/ Left(c))'
  BY DEF Order, Untouched
<1>1. (MarkersIn(due[c]) = {})' /\ Got(c)' = Got(c)
  BY DEF Order, Untouched, Got, MarkersIn
<1>2. AtRest(c) => AtRest(c)'
  BY DEF AtRest, Untouched
<1>3. Asked(c) => Asked(c)'
  BY <1>1 DEF Asked, Untouched, LinePieces
<1>4. Served(c) => Served(c)'
  <2> SUFFICES ASSUME Served(c) PROVE Served(c)'
    OBVIOUS
  <2>1. PICK t \in Tasks : Active(c) = {t} /\ due[c] = Got(c) \o Tagged(t, rest[t])
    BY DEF Served
  <2>2. Active(c)' = {t} /\ (due[c] = Got(c) \o Tagged(t, rest[t]))'
    BY <1>1, <2>1 DEF Untouched, Tagged
  <2> QED BY <2>2 DEF Served, Untouched
<1>5. Marking(c) => Marking(c)'
  BY <1>1 DEF Marking, Untouched
<1>6. Lost(c) => Lost(c)'
  BY <1>1 DEF Lost, Untouched, MarkersIn
<1>7. Answered(c) => Answered(c)'
  BY <1>1 DEF Answered, Untouched, Tagged, Mark
<1>8. Left(c) => Left(c)'
  BY DEF Left, Untouched, LinePieces
<1> QED BY <1>1, <1>2, <1>3, <1>4, <1>6, <1>7, <1>8, <1>5 DEF Order

LEMMA Upset == ASSUME NEW c \in Clients, upsets'[c] # {} PROVE Order(c)'
BY DEF Order

\* The part of the invariant the steps below rest on.
Sound(c) == TypeOK /\ TaskInv /\ ConnectionInv /\ EndlessInv /\ Order(c)

Stage(c) == AtRest(c) \/ Asked(c) \/ Served(c) \/ Marking(c) \/ Lost(c) \/ Answered(c) \/ Left(c)

\* A client that has all of what is due but the end has no marker yet.
LEMMA NoMarkerYet ==
  ASSUME TypeOK, NEW c \in Clients, MarkersIn(due[c]) = {}, Asked(c) \/ Served(c) \/ Marking(c) \/ Lost(c)
  PROVE  MarkersIn(Got(c)) = {}
<1>1. CASE Asked(c)
  BY <1>1, EmptyStream DEF Asked
<1>2. CASE Served(c)
  <2>1. PICK t \in Tasks : due[c] = Got(c) \o Tagged(t, rest[t])
    BY <1>2 DEF Served
  <2> DEFINE m == Tagged(t, rest[t])
             g == Got(c)
  <2>2. m \in Stream
    BY TaggedFacts DEF TypeOK
  <2>3. g \in Stream
    BY ConcatProperties DEF Got, TypeOK, Stream
  <2> HIDE DEF m, g
  <2>4. \A i : i \in MarkersIn(g) => i \in MarkersIn(g \o m)
    BY <2>2, <2>3, MarkerInPrefix
  <2> QED BY <2>1, <2>4 DEF m, g
<1>3. CASE Marking(c) \/ Lost(c)
  BY <1>3 DEF Marking, Lost
<1> QED BY <1>1, <1>2, <1>3

LEMMA ConnectOrder ==
  ASSUME NEW d \in Clients, NEW c \in Clients, Sound(c), Connect(d) PROVE Order(c)'
<1> USE DEF Sound
<1>1. UNCHANGED lifecycleVars
  BY DEF Connect, taskVars
<1>2. Active(c)' = Active(c)
  BY <1>1, ActiveFacts
<1>3. CASE c # d
  BY <1>2, <1>3, Frame DEF Untouched, Connect, TypeOK, taskVars
<1>4. CASE c = d
  <2> SUFFICES ASSUME upsets[c] = {} PROVE Order(c)'
    BY Upset DEF Connect
  <2>1. AtRest(c) /\ MarkersIn(due[c]) = {} /\ ~reset[c]
    BY <1>4 DEF Connect, Order, AtRest, Asked, Served, Marking, Lost, Answered, Left
  <2>2. (MarkersIn(due[c]) = {})'
    BY <2>1 DEF Connect, MarkersIn
  <2>3. CASE alive
    <3>1. AtRest(c)'
      BY <1>2, <1>4, <2>1, <2>3 DEF Connect, AtRest, TypeOK
    <3> QED BY <2>2, <3>1 DEF Order
  <2>4. CASE ~alive
    <3>1. Left(c)'
      BY <1>4, <2>1, <2>4 DEF Connect, Left, TypeOK
    <3> QED BY <2>2, <3>1 DEF Order
  <2> QED BY <2>3, <2>4
<1> QED BY <1>3, <1>4

\* A client that closes touches no other.
LEMMA CloseOrder ==
  ASSUME NEW d \in Clients, NEW c \in Clients, Sound(c), Close(d), c # d,
         up'[c] = up[c], upsets'[c] = upsets[c]
  PROVE  Order(c)'
<1>1. UNCHANGED lifecycleVars
  BY DEF Close, taskVars
<1>2. Active(c)' = Active(c)
  BY <1>1, ActiveFacts DEF Sound
<1> QED BY <1>2, Frame DEF Sound, Untouched, Close, TypeOK, taskVars

LEMMA QuitOrder ==
  ASSUME NEW d \in Clients, NEW c \in Clients, Sound(c), Quit(d) PROVE Order(c)'
<1> USE DEF Sound
<1>1. Close(d) /\ UNCHANGED upsets /\ cpc[d] = "prompt"
      /\ up' \in {up, [up EXCEPT ![d] = @ \o LinePieces(Exit)]}
  BY DEF Quit
<1>2. CASE c # d
  BY <1>1, <1>2, CloseOrder DEF TypeOK
<1>3. CASE c = d
  <2> SUFFICES ASSUME upsets[c] = {} PROVE Order(c)'
    BY <1>1, Upset
  <2>1. AtRest(c) /\ MarkersIn(due[c]) = {}
    BY <1>1, <1>3 DEF Order, AtRest, Asked, Served, Marking, Lost, Answered, Left
  <2>2. (MarkersIn(due[c]) = {})'
    BY <1>1, <2>1 DEF Close, MarkersIn
  <2>3. Active(c)' = {}
    BY <1>1, <2>1, ActiveFacts DEF Close, taskVars, AtRest
  <2>4. up'[c] \in {<<>>, LinePieces(Exit)}
    <3>1. <<>> \o LinePieces(Exit) = LinePieces(Exit)
      BY LineFacts, ConcatEmptySeq DEF Lines
    <3> QED BY <1>1, <1>3, <2>1, <3>1 DEF AtRest, TypeOK
  <2>5. cpc'[c] = "closed" /\ ~reset'[c] /\ wpc'[c] # "marking"
    <3>1. flood[c] = {}
      BY DEF EndlessInv
    <3> QED BY <1>1, <1>3, <2>1, <3>1 DEF Close, AtRest, TypeOK
  <2>6. Left(c)'
    BY <2>3, <2>4, <2>5 DEF Left, LinePieces
  <2> QED BY <2>2, <2>6 DEF Order
<1> QED BY <1>2, <1>3

LEMMA TimeOutOrder ==
  ASSUME NEW d \in Clients, NEW c \in Clients, Sound(c), TimeOut(d) PROVE Order(c)'
<1>1. Close(d) /\ upsets' = [upsets EXCEPT ![d] = @ \cup {"timeout"}] /\ UNCHANGED up
  BY DEF TimeOut
<1>2. CASE c # d
  BY <1>1, <1>2, CloseOrder DEF Sound, TypeOK
<1>3. CASE c = d
  BY <1>1, <1>3, Upset DEF Sound, TypeOK
<1> QED BY <1>2, <1>3

LEMMA ServerGoneOrder ==
  ASSUME NEW d \in Clients, NEW c \in Clients, Sound(c), ServerGone(d) PROVE Order(c)'
<1> USE DEF Sound
<1>1. /\ Close(d) /\ UNCHANGED <<up, upsets>> /\ cpc[d] = "receive" /\ (~alive \/ wpc[d] = "gone")
      /\ down[d] = <<>> /\ flood[d] = {}
  BY DEF ServerGone
<1>2. CASE c # d
  BY <1>1, <1>2, CloseOrder
<1>3. CASE c = d
  <2> SUFFICES ASSUME upsets[c] = {} PROVE Order(c)'
    BY <1>1, Upset
  <2>1. ~alive /\ MarkersIn(due[c]) = {}
    BY <1>1, <1>3 DEF Order, AtRest, Asked, Served, Marking, Lost, Answered, Left
  <2>2. (MarkersIn(due[c]) = {})'
    BY <1>1, <2>1 DEF Close, MarkersIn
  <2>3. Left(c)'
    BY <1>1, <1>3, <2>1 DEF Close, Left, TypeOK
  <2> QED BY <2>2, <2>3 DEF Order
<1> QED BY <1>2, <1>3

LEMMA SendLineOrder ==
  ASSUME NEW d \in Clients, NEW c \in Clients, Sound(c), NEW b \in Commands \cup {EmptyLine}, SendLine(d, b)
  PROVE  Order(c)'
<1> USE DEF Sound
<1>1. Active(c)' = Active(c)
  BY ActiveFacts DEF SendLine, taskVars
<1>2. CASE c # d
  BY <1>1, <1>2, Frame DEF Untouched, SendLine, TypeOK, taskVars
<1>3. CASE c = d
  <2> SUFFICES ASSUME upsets[c] = {} PROVE Order(c)'
    BY Upset DEF SendLine
  <2>1. AtRest(c) /\ MarkersIn(due[c]) = {}
    BY <1>3 DEF SendLine, Order, AtRest, Asked, Served, Marking, Lost, Answered, Left
  <2>2. (MarkersIn(due[c]) = {})'
    BY <2>1 DEF SendLine, MarkersIn
  <2>3. up'[c] = LinePieces(b)
    <3>1. <<>> \o LinePieces(b) = LinePieces(b)
      BY LineFacts, ConcatEmptySeq DEF Lines
    <3> QED BY <1>3, <2>1, <3>1 DEF AtRest, TypeOK, SendLine
  <2>4. response[c] = <<>> /\ down[c] = <<>>
    BY <1>3, <2>1 DEF SendLine, TypeOK, AtRest
  <2>5. Got(c)' = <<>>
    <3>1. response'[c] = <<>> /\ down'[c] = <<>>
      BY <2>4 DEF SendLine
    <3> QED BY <3>1 DEF Got
  <2>6. cpc'[c] = "receive" /\ wpc'[c] \in {"none", "recv"}
    BY <1>3, <2>1 DEF SendLine, AtRest, TypeOK
  <2>7. Asked(c)'
    BY <1>1, <2>1, <2>3, <2>5, <2>6 DEF Asked, AtRest, LinePieces
  <2> QED BY <2>2, <2>7 DEF Order
<1> QED BY <1>2, <1>3

LEMMA ReceiveOrder ==
  ASSUME NEW d \in Clients, NEW c \in Clients, Sound(c), Receive(d) PROVE Order(c)'
<1> USE DEF Sound
<1>1. Active(c)' = Active(c)
  BY ActiveFacts DEF Receive, taskVars
<1>2. PICK r \in Stream, q \in Stream :
           /\ Got(d) = r \o q
           /\ down' = [down EXCEPT ![d] = q]
           /\ \/ response' = [response EXCEPT ![d] = r] /\ UNCHANGED <<cpc, answer>>
              \/ \E i \in MarkersIn(r) :
                   /\ response' = [response EXCEPT ![d] = <<>>]
                   /\ answer' = [answer EXCEPT ![d] = SubSeq(r, 1, i - 1)]
                   /\ cpc' = [cpc EXCEPT ![d] = "prompt"]
  BY Received
<1>3. cpc[d] = "receive" /\ UNCHANGED <<typed, up, flood, reset, cuts, alive, wpc, fd, due, upsets, taskVars>>
  BY DEF Receive
<1>4. CASE c # d
  <2>1. cpc'[c] = cpc[c] /\ down'[c] = down[c] /\ response'[c] = response[c] /\ answer'[c] = answer[c]
    BY <1>2, <1>4 DEF TypeOK
  <2> QED BY <1>1, <1>3, <2>1, Frame DEF Untouched, taskVars
<1>5. CASE c = d
  <2> SUFFICES ASSUME upsets[c] = {} PROVE Order(c)'
    BY <1>3, Upset
  <2>1. (Asked(c) \/ Served(c) \/ Marking(c) \/ Lost(c) \/ Answered(c)) /\ MarkersIn(due[c]) = {}
    BY <1>3, <1>5 DEF Order, AtRest, Left
  <2>2. (MarkersIn(due[c]) = {})'
    BY <1>3, <2>1 DEF MarkersIn
  <2>3. CASE response' = [response EXCEPT ![d] = r] /\ UNCHANGED <<cpc, answer>>
    <3>1. response'[c] = r /\ down'[c] = q
      BY <1>2, <1>5, <2>3 DEF TypeOK
    <3>2. Got(c)' = Got(c)
      BY <1>2, <1>5, <3>1 DEF Got
    <3> USE <1>1, <1>3, <2>3, <3>2 DEF taskVars
    <3>3. Asked(c) => Asked(c)'
      BY DEF Asked, LinePieces
    <3>4. Served(c) => Served(c)'
      <4> SUFFICES ASSUME Served(c) PROVE Served(c)'
        OBVIOUS
      <4>1. PICK t \in Tasks : Active(c) = {t} /\ due[c] = Got(c) \o Tagged(t, rest[t])
        BY DEF Served
      <4>2. Active(c)' = {t} /\ (due[c] = Got(c) \o Tagged(t, rest[t]))'
        BY <4>1 DEF Tagged
      <4> QED BY <4>2 DEF Served
    <3>5. Lost(c) => Lost(c)'
      BY DEF Lost, MarkersIn
    <3>6. Answered(c) => Answered(c)'
      BY DEF Answered, Tagged, Mark
    <3>7. Marking(c) => Marking(c)'
      BY DEF Marking
    <3> QED BY <2>1, <2>2, <3>3, <3>4, <3>5, <3>6, <3>7 DEF Order
  <2>4. ASSUME NEW i \in MarkersIn(r),
               response' = [response EXCEPT ![d] = <<>>],
               answer' = [answer EXCEPT ![d] = SubSeq(r, 1, i - 1)],
               cpc' = [cpc EXCEPT ![d] = "prompt"]
        PROVE  Order(c)'
    <3>1. i \in MarkersIn(Got(c)) /\ i + 1 <= Len(r)
      <4>1. i \in MarkersIn(r \o q) /\ i + 1 <= Len(r)
        BY MarkerInPrefix
      <4> QED BY <1>2, <1>5, <4>1
    <3>2. Answered(c)
      BY <2>1, <3>1, NoMarkerYet
    <3>3. PICK t \in Tasks \cup {Worker} : Got(c) = due[c] \o Tagged(t, Mark)
      BY <3>2 DEF Answered
    <3>4. due[c] \in Stream
      BY DEF TypeOK
    <3>5. i = Len(due[c]) + 1
      BY <2>1, <3>1, <3>3, <3>4, MarkerOfAnswer
    <3>6. q = <<>> /\ SubSeq(r, 1, i - 1) = due[c]
      <4> DEFINE m == Tagged(t, Mark)
                 u == due[c]
                 k == Len(r)
                 l == Len(q)
                 n == Len(u)
      <4>1. m \in Seq(Entries) /\ Len(m) = 2 /\ u \in Seq(Entries) /\ r \in Seq(Entries) /\ q \in Seq(Entries)
        BY <3>4, MarkFacts, TaggedFacts DEF Stream
      <4>2. u \o m = r \o q
        BY <1>2, <1>5, <3>3
      <4> HIDE DEF m, u
      <4>3. Len(u \o m) = n + 2 /\ Len(r \o q) = k + l /\ k \in Nat /\ l \in Nat /\ n \in Nat
        <5>1. Len(u \o m) = Len(u) + Len(m) /\ Len(r \o q) = Len(r) + Len(q)
          BY <4>1, ConcatProperties
        <5>2. Len(r) \in Nat /\ Len(q) \in Nat /\ Len(u) \in Nat
          BY <4>1, LenProperties
        <5> QED BY <4>1, <5>1, <5>2
      <4>4. n + 2 <= k /\ i - 1 = n
        <5>1. i = n + 1 /\ i + 1 <= k
          BY <3>1, <3>5 DEF u
        <5> HIDE DEF k, l, n
        <5> QED BY <4>3, <5>1
      <4>5. l = 0
        <5>1. n + 2 = k + l
          BY <4>2, <4>3
        <5> HIDE DEF k, l, n
        <5> QED BY <4>3, <4>4, <5>1
      <4>6. q = <<>>
        BY <4>1, <4>5, EmptySeq
      <4>7. r = u \o m
        BY <4>1, <4>2, <4>6, ConcatEmptySeq
      <4>8. SubSeq(u \o m, 1, n) = u
        <5>1. /\ u \o m \in Seq(Entries) /\ Len(u \o m) = n + 2
              /\ \A j \in 1 .. n + 2 : (u \o m)[j] = IF j <= n THEN u[j] ELSE m[j - n]
          <6>1. /\ u \o m \in Seq(Entries)
                /\ \A j \in 1 .. Len(u) + Len(m) : (u \o m)[j] = IF j <= Len(u) THEN u[j] ELSE m[j - Len(u)]
            BY <4>1, ConcatProperties, ZenonT(30)
          <6> QED BY <4>1, <4>3, <6>1
        <5> DEFINE v == u \o m
        <5>2. /\ v \in Seq(Entries) /\ \A j \in 1 .. n : v[j] = u[j]
          BY <4>3, <5>1
        <5>3. \A j \in 1 .. n : v[j] \in Entries
          BY <4>1, <4>3, <5>2, ElementOfSeq
        <5> HIDE DEF v
        <5>4. /\ SubSeq(v, 1, n) \in Seq(Entries) /\ Len(SubSeq(v, 1, n)) = n
              /\ \A j \in 1 .. n : SubSeq(v, 1, n)[j] = v[j]
          BY <4>3, <5>2, <5>3, SubSeqProperties
        <5>5. SubSeq(v, 1, n) = u
          BY <4>1, <5>2, <5>4, SeqEqual
        <5> QED BY <5>5 DEF v
      <4> QED BY <4>4, <4>6, <4>7, <4>8 DEF u
    <3>7. answer'[c] = due'[c] /\ down'[c] = <<>> /\ cpc'[c] = "prompt"
      BY <1>2, <1>3, <1>5, <2>4, <3>6 DEF TypeOK
    <3>8. AtRest(c)'
      BY <1>1, <1>3, <3>2, <3>7 DEF AtRest, Answered
    <3> QED BY <2>2, <3>8 DEF Order
  <2> QED BY <1>2, <2>3, <2>4
<1> QED BY <1>4, <1>5

LEMMA ReceiveFloodOrder ==
  ASSUME NEW d \in Clients, NEW c \in Clients, Sound(c), ReceiveFlood(d) PROVE Order(c)'
<1>1. Active(c)' = Active(c)
  BY ActiveFacts DEF Sound, ReceiveFlood, taskVars
<1> QED BY <1>1, Frame DEF Sound, Untouched, ReceiveFlood, clientVars, taskVars

LEMMA WorkerOrder ==
  ASSUME NEW d \in Clients, NEW c \in Clients, Sound(c), Accept(d) \/ HangUp(d) \/ CloseDescriptor(d)
  PROVE  Order(c)'
<1> USE DEF Sound, clientVars, taskVars
<1>1. UNCHANGED <<cpc, response, answer, up, down, flood, reset, alive, due, upsets, rest>>
  BY DEF Accept, HangUp, RemoveTasks, CloseDescriptor
<1>2. UNCHANGED lifecycleVars \/ Server!Leave(d)
  BY DEF Accept, HangUp, RemoveTasks, CloseDescriptor
<1>3. Active(c)' \subseteq Active(c) /\ (c # d => Active(c)' = Active(c))
  BY <1>2, ActiveFacts
<1>4. wpc' \in {[wpc EXCEPT ![d] = "recv"], [wpc EXCEPT ![d] = "leaving"], [wpc EXCEPT ![d] = "gone"]}
  BY DEF Accept, HangUp, RemoveTasks, CloseDescriptor
<1>5. CASE c # d
  BY <1>1, <1>3, <1>4, <1>5, Frame DEF Untouched, TypeOK
<1>6. CASE c = d
  <2> SUFFICES ASSUME upsets[c] = {} PROVE Order(c)'
    BY <1>1, Upset
  <2>1. MarkersIn(due[c]) = {} /\ Stage(c)
    BY DEF Order, Stage
  <2>2. (MarkersIn(due[c]) = {})'
    BY <1>1, <2>1 DEF MarkersIn
  <2>3. CASE Left(c)
    <3>1. wpc'[c] # "marking"
      BY <1>4, <1>6 DEF TypeOK
    <3>2. Left(c)'
      BY <1>1, <1>3, <2>3, <3>1 DEF Left, LinePieces
    <3> QED BY <2>2, <3>2 DEF Order
  <2>4. CASE ~Left(c)
    <3>1. Accept(c)
      BY <1>6, <2>1, <2>4 DEF Stage, AtRest, Asked, Served, Marking, Lost, Answered, HangUp, CloseDescriptor
    <3>2. wpc[c] = "none" /\ wpc'[c] = "recv"
      BY <3>1 DEF Accept, TypeOK
    <3>3. (AtRest(c) \/ Asked(c)) /\ Got(c)' = Got(c)
      BY <1>1, <2>1, <2>4, <3>2 DEF Stage, Served, Marking, Lost, Answered, Got
    <3>4. AtRest(c) => AtRest(c)'
      BY <1>1, <1>3, <3>2 DEF AtRest
    <3>5. Asked(c) => Asked(c)'
      BY <1>1, <1>3, <3>2, <3>3 DEF Asked, LinePieces
    <3> QED BY <2>2, <3>3, <3>4, <3>5 DEF Order
  <2> QED BY <2>3, <2>4
<1> QED BY <1>5, <1>6

\* What the worker of d makes of a line is nothing to other clients.
LEMMA HandleOthers ==
  ASSUME NEW d \in Clients, NEW c \in Clients, Sound(c), c # d, ReceiveLine(d) PROVE Order(c)'
<1> USE DEF Sound, clientVars, taskVars
<1>1. /\ alive /\ wpc[d] = "recv" /\ UNCHANGED <<cpc, response, answer, fd>>
      /\ up'[c] = up[c] /\ fd[d] \in Descriptors
  BY LineReceived DEF TypeOK
<1>2. PICK a \in Lines, upset \in {{}, {"cut"}} : HandleLine(d, a, upset)
  BY LineReceived
<1>3. CASE RemoveTasks(d) /\ upsets' = [upsets EXCEPT ![d] = @ \cup upset]
  <2>1. Server!Leave(d) /\ wpc' = [wpc EXCEPT ![d] = "leaving"] /\ UNCHANGED <<down, flood, reset, alive, due, rest>>
    BY <1>3 DEF RemoveTasks
  <2>2. Active(c)' = Active(c)
    BY <2>1, ActiveFacts
  <2>3. wpc'[c] = wpc[c] /\ upsets'[c] = upsets[c]
    BY <1>3, <2>1 DEF TypeOK
  <2> QED BY <1>1, <2>1, <2>2, <2>3, Frame DEF Untouched
<1>4. CASE a \in Commands /\ MakeTask(d, a, upset)
  <2>1. PICK t \in Tasks, s \in Seq(Pieces), forever \in BOOLEAN : Made(d, a, upset, t, s, forever)
    BY <1>4, MadeTask
  <2> USE DEF Made
  <2>2. Active(c)' = Active(c) /\ t \notin Active(c)
    BY <1>4, <2>1, ActiveFacts
  <2>3. due'[c] = due[c] /\ upsets'[c] = upsets[c]
    BY <2>1 DEF TypeOK
  <2>4. \A u \in Active(c) : rest'[u] = rest[u]
    BY <2>1, <2>2 DEF TypeOK, Active
  <2> QED BY <1>1, <2>1, <2>2, <2>3, <2>4, Frame DEF Untouched
<1>5. ASSUME NEW s \in Seq(Pieces), WorkerAnswers(d, s, upset) PROVE Order(c)'
  <2>1. /\ Write(fd[d], Tagged(Worker, s)) \/ (s = <<>> /\ UNCHANGED <<down, flood, reset, alive>>)
        /\ upsets' = [upsets EXCEPT ![d] = @ \cup upset] /\ UNCHANGED taskVars
        /\ wpc' = [wpc EXCEPT ![d] = "marking"]
        /\ due' = [due EXCEPT ![d] = Tagged(Worker, s)]
    BY <1>5 DEF WorkerAnswers
  <2>2. down'[c] = down[c] /\ reset'[c] = reset[c]
    BY <1>1, <2>1, WorkerWrites
  <2>3. Active(c)' = Active(c)
    BY <2>1, ActiveFacts
  <2>4. due'[c] = due[c] /\ upsets'[c] = upsets[c] /\ wpc'[c] = wpc[c]
    BY <2>1 DEF TypeOK
  <2> QED BY <1>1, <2>1, <2>2, <2>3, <2>4, Frame DEF Untouched
<1> QED BY <1>2, <1>3, <1>4, <1>5, WrittenPieces DEF HandleLine

LEMMA GotMore ==
  ASSUME TypeOK, NEW c \in Clients, NEW s \in Stream, UNCHANGED response, down'[c] = down[c] \o s
  PROVE  Got(c)' = Got(c) \o s /\ Got(c) \in Stream
<1>1. response[c] \in Seq(Entries) /\ down[c] \in Seq(Entries) /\ s \in Seq(Entries)
  BY DEF TypeOK, Stream
<1>2. (response[c] \o down[c]) \o s = response[c] \o (down[c] \o s)
  <2> DEFINE p == response[c]
             q == down[c]
  <2>1. p \in Seq(Entries) /\ q \in Seq(Entries)
    BY <1>1
  <2> HIDE DEF p, q
  <2>2. (p \o q) \o s = p \o (q \o s)
    BY <1>1, <2>1, ConcatAssociative, SMTT(30)
  <2> QED BY <2>2 DEF p, q
<1>3. response[c] \o down[c] \in Seq(Entries)
  BY <1>1, ConcatProperties
<1> QED BY <1>2, <1>3 DEF Got, Stream

\* The worker answers the line of a client that waits, ...
LEMMA WorkerAnswersOrder ==
  ASSUME NEW c \in Clients, Sound(c), UNCHANGED <<cpc, response, answer, fd>>, wpc[c] = "recv", up'[c] = <<>>,
         Asked(c), NEW s \in {<<>>, <<"text">>}, WorkerAnswers(c, s, {})
  PROVE  Order(c)'
<1> USE DEF Sound, taskVars
<1> DEFINE u == Tagged(Worker, s)
<1>1. s \in Seq(Pieces)
  BY WrittenPieces
<1>2. MarkersIn(u) = {}
  BY DEF MarkersIn, Tagged
<1>3. /\ Write(fd[c], Tagged(Worker, s)) \/ (s = <<>> /\ UNCHANGED <<down, flood, reset, alive>>)
      /\ due' = [due EXCEPT ![c] = u] /\ wpc' = [wpc EXCEPT ![c] = "marking"] /\ UNCHANGED taskVars
  BY DEF WorkerAnswers
<1>4. u \in Stream /\ (cpc[c] # "closed" => down'[c] = down[c] \o u)
  BY <1>1, <1>3, WorkerWrites
<1> HIDE DEF u
<1>5. Got(c)' = Got(c) \o u
  BY <1>4, GotMore DEF Asked
<1>6. Got(c)' = u
  BY <1>4, <1>5, ConcatEmptySeq DEF Asked, Stream
<1>7. due'[c] = u /\ wpc'[c] = "marking"
  BY <1>3 DEF TypeOK
<1>8. Active(c)' = {}
  BY <1>3, ActiveFacts DEF Asked
<1>9. Marking(c)'
  BY <1>6, <1>7, <1>8 DEF Marking, Asked
<1>10. (MarkersIn(due[c]) = {})'
  BY <1>2, <1>7 DEF MarkersIn
<1> QED BY <1>9, <1>10 DEF Order

\* ... and ends the answer.
LEMMA SendMarkOrder ==
  ASSUME NEW d \in Clients, NEW c \in Clients, Sound(c), SendMark(d) PROVE Order(c)'
<1> USE DEF Sound, clientVars, taskVars
<1>1. /\ alive /\ wpc[d] = "marking" /\ wpc' = [wpc EXCEPT ![d] = "recv"]
      /\ Write(fd[d], Tagged(Worker, Mark))
      /\ UNCHANGED <<cpc, response, answer, up, due, upsets, rest>> /\ UNCHANGED lifecycleVars
  BY DEF SendMark
<1> DEFINE m == Tagged(Worker, Mark)
<1>2. /\ m \in Stream
      /\ c # d => down'[c] = down[c] /\ reset'[c] = reset[c]
      /\ c = d /\ cpc[c] # "closed" => down'[c] = down[c] \o m
  BY <1>1, WorkerWrites, MarkFacts, ZenonT(40)
<1>3. Active(c)' = Active(c)
  BY <1>1, ActiveFacts
<1>4. CASE c # d
  <2>1. wpc'[c] = wpc[c]
    BY <1>1, <1>4 DEF TypeOK
  <2> QED BY <1>1, <1>2, <1>3, <1>4, <2>1, Frame DEF Untouched
<1>5. CASE c = d
  <2> SUFFICES ASSUME upsets[c] = {} PROVE Order(c)'
    BY <1>1, Upset
  <2>1. Marking(c) /\ MarkersIn(due[c]) = {}
    BY <1>1, <1>5 DEF Order, AtRest, Asked, Served, Lost, Answered, Left
  <2>2. (MarkersIn(due[c]) = {})'
    BY <1>1, <2>1 DEF MarkersIn
  <2> HIDE DEF m
  <2>3. Got(c)' = Got(c) \o m
    BY <1>1, <1>2, <1>5, <2>1, GotMore DEF Marking
  <2>4. (Got(c) = due[c] \o Tagged(Worker, Mark))'
    BY <1>1, <2>1, <2>3 DEF Marking, m, Tagged, Mark
  <2>5. wpc'[c] = "recv"
    BY <1>1, <1>5 DEF TypeOK
  <2>6. Answered(c)'
    BY <1>1, <1>3, <2>1, <2>4, <2>5, EmptyStream DEF Marking, Answered
  <2> QED BY <2>2, <2>6 DEF Order
<1> QED BY <1>4, <1>5

LEMMA ReceiveLineOrder ==
  ASSUME NEW c \in Clients, Sound(c), ReceiveLine(c) PROVE Order(c)'
<1> USE DEF Sound, clientVars, taskVars
<1>1. alive /\ wpc[c] = "recv" /\ up[c] # <<>> /\ UNCHANGED <<cpc, response, answer, fd>>
  BY LineReceived
<1>2. PICK a \in Lines, upset \in {{}, {"cut"}} :
        /\ HandleLine(c, a, upset)
        /\ upset = {} => \A b \in Lines : up[c] = LinePieces(b) => a = b /\ up'[c] = <<>>
  BY LineReceived
<1>3. upset \cup upsets[c] \subseteq upsets'[c]
  BY <1>2 DEF HandleLine, WorkerAnswers, MakeTask, TypeOK
<1>4. CASE upset # {} \/ upsets[c] # {}
  BY <1>3, <1>4, Upset
<1>5. CASE upset = {} /\ upsets[c] = {}
  <2>1. MarkersIn(due[c]) = {} /\ (Asked(c) \/ Left(c))
    BY <1>1, <1>5 DEF Order, AtRest, Served, Marking, Lost, Answered
  <2>2. CASE Left(c)
    <3>1. up[c] = LinePieces(Exit) /\ Exit \in Lines /\ Active(c) = {} /\ ~reset[c]
      BY <1>1, <2>2 DEF Left, Lines
    <3>2. a = Exit /\ up'[c] = <<>>
      BY <1>2, <1>5, <3>1
    <3>3. RemoveTasks(c)
      BY <1>2, <3>2, ConstantFacts DEF HandleLine
    <3>4. Server!Leave(c) /\ UNCHANGED <<reset, alive, due>>
      BY <3>3 DEF RemoveTasks
    <3>5. Active(c)' = {}
      BY <3>1, <3>4, ActiveFacts
    <3>6. wpc'[c] # "marking"
      BY <3>3 DEF RemoveTasks, TypeOK
    <3>7. Left(c)' /\ (MarkersIn(due[c]) = {})'
      BY <1>1, <2>1, <2>2, <3>1, <3>2, <3>4, <3>5, <3>6 DEF Left, MarkersIn
    <3> QED BY <3>7 DEF Order
  <2>3. CASE Asked(c)
    <3>1. a \in Commands \cup {EmptyLine} /\ up'[c] = <<>>
      BY <1>2, <1>5, <2>3 DEF Asked, Lines
    <3>2. a # Exit
      BY <3>1, ConstantFacts
    <3>3. CASE \E s \in {<<>>, <<"text">>} : WorkerAnswers(c, s, upset)
      BY <1>1, <1>5, <2>3, <3>1, <3>3, WorkerAnswersOrder
    <3>4. CASE a \in Commands /\ MakeTask(c, a, upset)
      <4>1. PICK t \in Tasks, s \in Seq(Pieces), forever \in BOOLEAN : Made(c, a, upset, t, s, forever)
        BY <3>4, MadeTask
      <4> USE DEF Made
      <4>2. Active(c)' = {t}
        BY <2>3, <3>4, <4>1, ActiveFacts DEF Asked
      <4>3. due'[c] = Tagged(t, s) /\ rest'[t] = s
        BY <4>1 DEF TypeOK
      <4>4. Got(c)' = <<>>
        BY <1>1, <2>3, <4>1 DEF Asked, Got
      <4>5. CASE MarkersIn(Tagged(t, s)) # {}
        BY <4>1, <4>5, Upset DEF TypeOK
      <4>6. CASE MarkersIn(Tagged(t, s)) = {}
        <5>1. (MarkersIn(due[c]) = {})'
          BY <4>3, <4>6 DEF MarkersIn
        <5>2. Tagged(t, s) \in Stream
          BY TaggedFacts
        <5>3. (due[c] = Got(c) \o Tagged(t, rest[t]))'
          <6>1. <<>> \o Tagged(t, s) = Tagged(t, s)
            BY <5>2, ConcatEmptySeq DEF Stream
          <6>2. Tagged(t, rest[t])' = Tagged(t, s)
            BY <4>3 DEF Tagged
          <6> QED BY <4>3, <4>4, <6>1, <6>2
        <5>4. Served(c)'
          BY <1>1, <2>3, <3>1, <4>1, <4>2, <5>3 DEF Served, Asked
        <5> QED BY <5>1, <5>4 DEF Order
      <4> QED BY <4>5, <4>6
    <3> QED BY <1>2, <3>2, <3>3, <3>4 DEF HandleLine
  <2> QED BY <2>1, <2>2, <2>3
<1> QED BY <1>4, <1>5

\* A client in order whose task runs is served by it.
LEMMA RunningServes ==
  ASSUME NEW t \in Tasks, Sound(owner[t]), phase[t] = "running", alive, upsets[owner[t]] = {}
  PROVE  Served(owner[t]) /\ Active(owner[t]) = {t} /\ due[owner[t]] = Got(owner[t]) \o Tagged(t, rest[t])
<1>1. owner[t] \in Clients /\ t \in Active(owner[t])
  BY DEF Sound, TaskInv, Active
<1>2. Served(owner[t])
  BY <1>1 DEF Sound, Order, AtRest, Asked, Marking, Lost, Answered, Left
<1> QED BY <1>1, <1>2 DEF Served

\* What task t writes, to its owner and to others.
LEMMA AnswerFacts ==
  ASSUME NEW t \in Tasks, phase[t] = "running", alive, TypeOK, TaskInv, ConnectionInv, EndlessInv,
         NEW s \in Seq(Pieces), Answer(t, s), NEW c \in Clients, Order(c)
  PROVE  \/ upsets'[c] # {}
         \/ c # owner[t] /\ upsets'[c] = upsets[c] /\ down'[c] = down[c] /\ reset'[c] = reset[c]
         \/ /\ c = owner[t] /\ upsets'[c] = upsets[c] /\ reset'[c] = reset[c]
            /\ down'[c] = down[c] \o Tagged(t, s)
            /\ Served(c) /\ Active(c) = {t} /\ due[c] = Got(c) \o Tagged(t, rest[t])
<1> DEFINE f == fd[owner[t]]
           m == Tagged(t, s)
<1>1. owner[t] \in Clients /\ f \in Descriptors
  BY DEF TypeOK, TaskInv
<1>2. m \in Stream /\ Write(f, m)
  BY TaggedFacts DEF Answer
<1>3. upsets'[c] = IF c \in ConnectionsOf(f) /\ c # owner[t] THEN upsets[c] \cup {"stray"} ELSE upsets[c]
  BY DEF Answer, Strays
<1> HIDE DEF m
<1>4. CASE c # owner[t] /\ c \in ConnectionsOf(f)
  BY <1>3, <1>4
<1>5. CASE c # owner[t] /\ c \notin ConnectionsOf(f)
  BY <1>1, <1>2, <1>3, <1>5, WriteFacts
<1>6. CASE c = owner[t] /\ upsets[c] = {}
  <2>1. Sound(owner[t])
    BY <1>6 DEF Sound
  <2>2. Served(owner[t]) /\ Active(owner[t]) = {t} /\ due[owner[t]] = Got(owner[t]) \o Tagged(t, rest[t])
    BY <1>6, <2>1, RunningServes
  <2>3. Served(c) /\ Active(c) = {t} /\ due[c] = Got(c) \o Tagged(t, rest[t])
    BY <1>6, <2>2
  <2>4. cpc[c] # "closed" /\ c \in ConnectionsOf(f)
    BY <1>6, <2>3 DEF Served, ConnectionsOf
  <2>5. down'[c] = down[c] \o m /\ reset'[c] = reset[c]
    BY <1>1, <1>2, <2>4, WriteFacts
  <2> QED BY <1>3, <1>6, <2>3, <2>5 DEF m
<1>7. CASE c = owner[t] /\ upsets[c] # {}
  BY <1>3, <1>7
<1> QED BY <1>4, <1>5, <1>6, <1>7

LEMMA WriteOutputOrder ==
  ASSUME NEW t \in Tasks, NEW c \in Clients, Sound(c), WriteOutput(t) PROVE Order(c)'
<1> USE DEF Sound, clientVars
<1>1. /\ alive /\ phase[t] = "running" /\ rest[t] # <<>>
      /\ UNCHANGED lifecycleVars \/ Server!Send(t)
      /\ rest' = [rest EXCEPT ![t] = Tail(@)]
      /\ Answer(t, <<Head(rest[t])>>)
      /\ UNCHANGED <<cpc, response, answer, up, wpc, due>>
  BY DEF WriteOutput
<1> DEFINE h == <<Head(rest[t])>>
           l == Tail(rest[t])
<1>2. h \in Seq(Pieces) /\ l \in Seq(Pieces) /\ Tagged(t, rest[t]) = Tagged(t, h) \o Tagged(t, l)
  BY <1>1, TaggedHead DEF TypeOK
<1>3. rest' = [rest EXCEPT ![t] = l] /\ Answer(t, h)
  BY <1>1
<1> HIDE DEF h, l
<1>4. Active(c)' = Active(c)
  BY <1>1, ActiveFacts
<1>5. \/ upsets'[c] # {}
      \/ c # owner[t] /\ upsets'[c] = upsets[c] /\ down'[c] = down[c] /\ reset'[c] = reset[c]
      \/ /\ c = owner[t] /\ upsets'[c] = upsets[c] /\ reset'[c] = reset[c]
         /\ down'[c] = down[c] \o Tagged(t, h)
         /\ Served(c) /\ Active(c) = {t} /\ due[c] = Got(c) \o Tagged(t, rest[t])
  BY <1>1, <1>2, <1>3, AnswerFacts
<1>6. CASE upsets'[c] # {}
  BY <1>6, Upset
<1>7. CASE c # owner[t] /\ upsets'[c] = upsets[c] /\ down'[c] = down[c] /\ reset'[c] = reset[c]
  <2>1. \A u \in Active(c) : rest'[u] = rest[u]
    BY <1>3, <1>7 DEF Active, TypeOK
  <2> QED BY <1>1, <1>4, <1>7, <2>1, Frame DEF Untouched
<1>8. CASE /\ c = owner[t] /\ upsets'[c] = {} /\ upsets'[c] = upsets[c] /\ reset'[c] = reset[c]
           /\ down'[c] = down[c] \o Tagged(t, h)
           /\ Served(c) /\ Active(c) = {t} /\ due[c] = Got(c) \o Tagged(t, rest[t])
  <2> DEFINE p == Tagged(t, h)
             q == Tagged(t, l)
             g == Got(c)
  <2>1. p \in Stream /\ q \in Stream
    BY <1>2, TaggedFacts
  <2>2. Got(c)' = g \o p /\ g \in Stream
    BY <1>1, <1>8, <2>1, GotMore
  <2>3. due[c] = g \o (p \o q)
    BY <1>2, <1>8
  <2> HIDE DEF p, q, g
  <2>4. g \o (p \o q) = (g \o p) \o q
    <3>1. g \in Seq(Entries) /\ p \in Seq(Entries) /\ q \in Seq(Entries)
      BY <2>1, <2>2 DEF Stream
    <3>2. (g \o p) \o q = g \o (p \o q)
      BY <3>1, ConcatAssociative
    <3> QED BY <3>2
  <2>5. Tagged(t, rest[t])' = q
    BY <1>3 DEF TypeOK, Tagged, q
  <2>6. (due[c] = Got(c) \o Tagged(t, rest[t]))'
    BY <1>1, <2>2, <2>3, <2>4, <2>5
  <2>7. Served(c)'
    BY <1>1, <1>4, <1>8, <2>6 DEF Served
  <2>8. (MarkersIn(due[c]) = {})'
    BY <1>1, <1>8 DEF Order, MarkersIn
  <2> QED BY <2>7, <2>8 DEF Order
<1> QED BY <1>5, <1>6, <1>7, <1>8

LEMMA StreamOutputOrder ==
  ASSUME NEW t \in Tasks, NEW c \in Clients, Sound(c), StreamOutput(t) PROVE Order(c)'
<1> USE DEF Sound, clientVars, taskVars
<1>1. /\ alive /\ phase[t] = "running" /\ t \in endless
      /\ Flood(fd[owner[t]], t) /\ Strays(t)
      /\ UNCHANGED <<cpc, response, answer, up, wpc, due, rest>> /\ UNCHANGED lifecycleVars
  BY DEF StreamOutput
<1>2. owner[t] \in Clients /\ fd[owner[t]] \in Descriptors
  BY <1>1 DEF TypeOK, TaskInv
<1>3. upsets'[c] = IF c \in ConnectionsOf(fd[owner[t]]) /\ c # owner[t] THEN upsets[c] \cup {"stray"} ELSE upsets[c]
  BY <1>1 DEF Strays
<1>4. CASE c = owner[t]
  BY <1>1, <1>3, <1>4, Upset DEF EndlessInv
<1>5. CASE c # owner[t] /\ c \in ConnectionsOf(fd[owner[t]])
  BY <1>3, <1>5, Upset
<1>6. CASE c # owner[t] /\ c \notin ConnectionsOf(fd[owner[t]])
  <2>1. reset'[c] = reset[c] /\ down'[c] = down[c]
    BY <1>1, <1>2, <1>6, FloodFacts
  <2>2. Active(c)' = Active(c)
    BY <1>1, ActiveFacts
  <2> QED BY <1>1, <1>3, <1>6, <2>1, <2>2, Frame DEF Untouched
<1> QED BY <1>4, <1>5, <1>6

LEMMA EndTaskOrder ==
  ASSUME NEW t \in Tasks, NEW c \in Clients, Sound(c), EndTask(t) PROVE Order(c)'
<1> USE DEF Sound, clientVars
<1>1. /\ alive /\ phase[t] = "running" /\ rest[t] = <<>>
      /\ Server!Complete(t) /\ Answer(t, Mark)
      /\ UNCHANGED <<cpc, response, answer, up, wpc, due, rest>>
  BY DEF EndTask, Server!Complete
<1>2. Active(c)' = Active(c) \ {t}
  BY <1>1, ActiveFacts
<1>3. \/ upsets'[c] # {}
      \/ c # owner[t] /\ upsets'[c] = upsets[c] /\ down'[c] = down[c] /\ reset'[c] = reset[c]
      \/ /\ c = owner[t] /\ upsets'[c] = upsets[c] /\ reset'[c] = reset[c]
         /\ down'[c] = down[c] \o Tagged(t, Mark)
         /\ Served(c) /\ Active(c) = {t} /\ due[c] = Got(c) \o Tagged(t, rest[t])
  BY <1>1, MarkFacts, AnswerFacts
<1>4. CASE upsets'[c] # {}
  BY <1>4, Upset
<1>5. CASE c # owner[t] /\ upsets'[c] = upsets[c] /\ down'[c] = down[c] /\ reset'[c] = reset[c]
  <2>1. Active(c)' = Active(c)
    BY <1>2, <1>5 DEF Active
  <2> QED BY <1>1, <1>5, <2>1, Frame DEF Untouched
<1>6. CASE /\ c = owner[t] /\ upsets'[c] = {} /\ upsets'[c] = upsets[c]
           /\ down'[c] = down[c] \o Tagged(t, Mark)
           /\ Served(c) /\ Active(c) = {t} /\ due[c] = Got(c) \o Tagged(t, rest[t])
  <2>1. Tagged(t, Mark) \in Stream
    BY MarkFacts, TaggedFacts
  <2>2. Got(c)' = Got(c) \o Tagged(t, Mark) /\ Got(c) \in Seq(Entries)
    BY <1>1, <1>6, <2>1, GotMore DEF Stream
  <2>3. Tagged(t, rest[t]) = <<>>
    <3>1. Tagged(t, rest[t]) \in Seq(Entries) /\ Len(Tagged(t, rest[t])) = 0
      BY <1>1, EmptyStream, TaggedFacts DEF Stream
    <3> QED BY <3>1, EmptySeq
  <2>4. due[c] = Got(c)
    BY <1>6, <2>2, <2>3, ConcatEmptySeq
  <2>5. (Got(c) = due[c] \o Tagged(t, Mark))'
    BY <1>1, <2>2, <2>4 DEF Tagged, Mark
  <2>6. Answered(c)'
    BY <1>1, <1>2, <1>6, <2>5 DEF Served, Answered
  <2>7. (MarkersIn(due[c]) = {})'
    BY <1>1, <1>6 DEF Order, MarkersIn
  <2> QED BY <2>6, <2>7 DEF Order
<1> QED BY <1>3, <1>4, <1>5, <1>6

LEMMA ScheduleOrder ==
  ASSUME NEW t \in Tasks, NEW c \in Clients, Sound(c), Schedule(t) PROVE Order(c)'
<1> USE DEF Sound, clientVars
<1>1. /\ alive /\ phase[t] \in {"waiting", "running"}
      /\ Server!Start(t) \/ Server!Yield(t) \/ Server!Lose(t)
      /\ UNCHANGED <<cpc, response, answer, up, down, flood, reset, alive, wpc, due, upsets, rest>>
  BY DEF Schedule, Server!Start, Server!Yield, Server!Lose
<1>2. CASE Active(c)' = Active(c)
  BY <1>1, <1>2, Frame DEF Untouched
<1>3. CASE Server!Lose(t) /\ c # owner[t]
  <2>1. Active(c)' = Active(c)
    <3>1. Active(c)' = Active(c) \ {t} /\ t \notin Active(c)
      BY <1>3, ActiveFacts DEF Active
    <3> QED BY <3>1
  <2> QED BY <1>2, <2>1
<1>4. CASE Server!Lose(t) /\ c = owner[t]
  <2> SUFFICES ASSUME upsets[c] = {} PROVE Order(c)'
    BY <1>1, Upset
  <2>1. Served(c) /\ Active(c) = {t}
    BY <1>1, <1>4, RunningServes DEF Server!Lose
  <2>2. MarkersIn(due[c]) = {}
    BY DEF Order
  <2>3. MarkersIn(Got(c)) = {}
    BY <2>1, <2>2, NoMarkerYet
  <2>4. Active(c)' = {}
    BY <1>4, <2>1, ActiveFacts
  <2>5. Got(c)' = Got(c)
    BY <1>1 DEF Got
  <2>6. (MarkersIn(Got(c)) = {})' /\ (MarkersIn(due[c]) = {})'
    BY <1>1, <2>2, <2>3, <2>5 DEF MarkersIn
  <2>7. Lost(c)'
    BY <1>1, <2>1, <2>4, <2>6 DEF Served, Lost
  <2> QED BY <2>6, <2>7 DEF Order
<1>5. Active(c)' = Active(c) \/ Server!Lose(t)
  BY <1>1, ActiveFacts
<1> QED BY <1>2, <1>3, <1>4, <1>5

LEMMA OrderStep == ASSUME SessionInv, Next PROVE OrderInv'
<1> SUFFICES ASSUME NEW c \in Clients PROVE Order(c)'
  BY DEF OrderInv
<1>1. Sound(c)
  BY DEF SessionInv, OrderInv, Sound
<1>2. ASSUME NEW d \in Clients, ReceiveLine(d) PROVE Order(c)'
  BY <1>1, <1>2, ReceiveLineOrder, HandleOthers
<1> QED BY <1>1, <1>2, ConnectOrder, QuitOrder, TimeOutOrder, ServerGoneOrder, SendLineOrder,
           ReceiveOrder, ReceiveFloodOrder, WorkerOrder, SendMarkOrder, WriteOutputOrder, StreamOutputOrder,
           EndTaskOrder, ScheduleOrder
        DEF Next, ClientWaits, WorkerRuns

-----------------------------------------------------------------------------
(* The theorems *)

LEMMA StepInv == ASSUME SessionInv, [Next]_vars PROVE SessionInv'
<1>1. CASE Next
  <2>1. TypeOK' /\ ConnectionInv' /\ OrderInv'
    BY <1>1, TypeStep, ConnectionStep, OrderStep
  <2>2. TaskInv'
    BY <1>1, NextTaskMoves, TaskStep DEF SessionInv
  <2>3. WrittenInv' /\ StraysAreOrphans' /\ EndlessInv' /\ OrderlyClientsHarmless'
    BY <1>1, <2>1, WrittenStep, EndlessStep, HarmlessStep
  <2> QED BY <2>1, <2>2, <2>3 DEF SessionInv
<1>2. CASE UNCHANGED vars
  <2> USE DEF SessionInv, vars, clientVars, taskVars, lifecycleVars
  <2>1. TypeOK'
    BY <1>2 DEF TypeOK
  <2>2. TaskInv'
    BY <1>2 DEF TaskInv
  <2>3. ConnectionInv'
    BY <1>2 DEF ConnectionInv
  <2>4. WrittenInv' /\ StraysAreOrphans' /\ EndlessInv' /\ OrderlyClientsHarmless'
    BY <1>2 DEF WrittenInv, StraysAreOrphans, Writers, EndlessInv, OrderlyClientsHarmless
  <2>5. ASSUME NEW c \in Clients PROVE Order(c)'
    <3>1. Order(c) /\ Untouched(c)
      BY <1>2 DEF OrderInv, Untouched, Active
    <3> QED BY <3>1, Frame
  <2> QED BY <2>1, <2>2, <2>3, <2>4, <2>5 DEF OrderInv
<1> QED BY <1>1, <1>2

LEMMA SessionInvariant == Spec => []SessionInv
BY InitInv, StepInv, PTL DEF Spec

\* The types of the variables, with what is under way to whom and who has a
\* descriptor (client.c, server.c).
THEOREM TypeCorrect == Spec => []TypeOK
<1>1. SessionInv => TypeOK
  BY DEF SessionInv
<1> QED BY <1>1, SessionInvariant, PTL

\* The answer a client has printed when it is back at its prompt is the whole
\* answer to its last line and nothing else, for any number of clients, any
\* commands and however the bytes come in (client.c, lines 88-176): unless
\* something that the history names has gone wrong with its session.
THEOREM AnswersCorrect == Spec => []AnswersInStep
<1>1. SessionInv => AnswersInStep
  BY DEF SessionInv, OrderInv, Order, AnswersInStep, AtRest, Asked, Served, Marking, Lost, Answered, Left
<1> QED BY <1>1, SessionInvariant, PTL

\* SIGPIPE ends the server only by a write to a connection that has been
\* reset, and clients whose sessions went well leave none, whenever they leave
\* (server.c, line 76).
THEOREM HarmlessCorrect == Spec => []OrderlyClientsHarmless
<1>1. SessionInv => OrderlyClientsHarmless
  BY DEF SessionInv
<1> QED BY <1>1, SessionInvariant, PTL

\* Output that reaches a client other than the one it is for comes from a
\* command whose client has left (server.c, lines 386-388).
THEOREM StraysCorrect == Spec => []StraysAreOrphans
<1>1. SessionInv => StraysAreOrphans
  BY DEF SessionInv
<1> QED BY <1>1, SessionInvariant, PTL
=============================================================================
