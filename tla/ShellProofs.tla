---------------------------- MODULE ShellProofs ----------------------------
(***************************************************************************)
(* Theorems about Shell, for any number of lines and commands, any limit   *)
(* of descriptors and any pipe.                                            *)
(***************************************************************************)
EXTENDS Shell, FiniteSetTheorems, TLAPS

\* The stages of a builtin.
InBuiltin == {"in", "out", "err", "builtin", "restore"}

\* How far the loops of the current line have come.
LineInv ==
  /\ spc \in {"pipe", "wait"} \cup InBuiltin => lines \in 1 .. MaxLines
  /\ spc \in {"pipe", "wait"} => count[lines] \in 1 .. MaxCmds
  /\ spc = "pipe" => /\ made <= count[lines] - 1 /\ forked <= count[lines] /\ waited = 0
                     /\ forked > 0 => made = count[lines] - 1
  /\ spc = "wait" => forked = count[lines] /\ waited < count[lines]
  /\ \A l \in 1 .. MaxLines :
       l > lines \/ (l = lines /\ spc \notin {"prompt", "exited"}) => failed[l] = "nothing"

\* Children are forked in the order of the line, reaped in that order, and
\* left behind only when fork() fails.
ChildInv ==
  \A p \in Children :
    /\ child[p] # "none" => /\ p[1] <= lines /\ p[2] <= count[p[1]]
                            /\ p[1] = lines => p[2] <= forked
    /\ child[p] \notin {"none", "reaped"} =>
         \/ failed[p[1]] = "fork"
         \/ p[1] = lines /\ spc \in {"pipe", "wait"} /\ waited < p[2]

\* What has been redirected can be restored, and nothing is redirected twice.
RedirectInv ==
  /\ spc \in InBuiltin => \A s \in Standard : saved[s] = None => std[TheShell][s] = Original
  /\ spc = "in" => \A s \in Standard : saved[s] = None
  /\ spc = "out" => saved["out"] = None /\ saved["err"] = None
  /\ spc = "err" => saved["err"] = None

\* A child is connected to its neighbours, or to a file instead.
StdInv ==
  \A p \in Children :
    /\ child[p] = "forked" => std[p] = AllOriginal
    /\ child[p] \in Running =>
         /\ std[p]["in"] \in {IF p[2] > 1 THEN Before(p) ELSE Original, File}
         /\ std[p]["out"] \in {IF p[2] < count[p[1]] THEN p ELSE Original, File}
    /\ child[p] = "filter" => std[p]["in"] \in Pipes

\* The shell holds the ends of the line while it forks, and so does each child
\* until it has connected.
EndsInv ==
  /\ \A e \in ends[TheShell] : failed[e[1][1]] = "pipe" \/ (spc = "pipe" /\ e[1][1] = lines)
  /\ spc = "pipe" => \A i \in 1 .. made : \A w \in {"read", "write"} :
                       <<<<lines, i>>, w>> \in ends[TheShell]
  /\ \A p \in Children : child[p] = "forked" =>
       \A i \in 1 .. count[p[1]] - 1 : \A w \in {"read", "write"} : <<<<p[1], i>>, w>> \in ends[p]

\* Only who has a neighbour sees the end of a pipe, and nobody gets SIGPIPE for
\* a neighbour that is still to be forked.
NeighbourInv ==
  \A p \in Children :
    /\ child[p] = "eof" => p[2] > 1
    /\ child[p] = "sigpipe" => /\ p \in Pipes
                               /\ p[1] = lines /\ spc = "pipe" => child[After(p)] # "none"

FiniteInv == IsFiniteSet(ends[TheShell])

ShellInv ==
  /\ TypeOK /\ FiniteInv /\ LineInv /\ ChildInv /\ RedirectInv /\ StdRestored
  /\ StdInv /\ EndsInv /\ NeighbourInv /\ PipesEndWithCommands

-----------------------------------------------------------------------------
(* Facts about processes and what descriptors refer to *)

LEMMA ProcessFacts ==
  /\ TheShell \in Processes /\ TheShell \notin Children
  /\ \A p \in Children : /\ p \in Processes
                         /\ p[1] \in 1 .. MaxLines /\ p[2] \in 1 .. MaxCmds
                         /\ p = <<p[1], p[2]>>
  /\ \A l \in 1 .. MaxLines, i \in 1 .. MaxCmds : <<l, i>> \in Children
BY DEF TheShell, Processes, Children

LEMMA PipeFacts ==
  /\ \A l \in 1 .. MaxLines, i \in 1 .. MaxCmds - 1 : <<l, i>> \in Pipes
  /\ \A k \in Pipes : /\ k \in Children /\ After(k) \in Children /\ Before(After(k)) = k
                      /\ k[2] \in 1 .. MaxCmds - 1
                      /\ After(k)[1] = k[1] /\ After(k)[2] = k[2] + 1
  /\ \A p \in Children : p[2] > 1 => /\ Before(p) \in Pipes /\ After(Before(p)) = p
                                     /\ Before(p)[1] = p[1] /\ Before(p)[2] = p[2] - 1
BY BoundsAssumption DEF Pipes, Children, Before, After

LEMMA PlaceFacts ==
  /\ Original \notin Pipes /\ File \notin Pipes /\ None \notin Pipes
  /\ Original # File /\ Original # None /\ File # None
<1>1. \A k \in Pipes : k[1] \in Nat
  BY BoundsAssumption DEF Pipes
<1>2. File \notin Pipes /\ None \notin Pipes
  BY <1>1 DEF File, None
<1>3. Original \notin Pipes
  BY DEF Original, Pipes
<1>4. Original # File /\ Original # None /\ File # None
  BY DEF Original, File, None
<1> QED BY <1>2, <1>3, <1>4

LEMMA EndFacts ==
  /\ \A l : EndsOf(l) \subseteq PipeEnds
  /\ \A e \in PipeEnds, l \in 1 .. MaxLines : e \in EndsOf(l) <=> e[1][1] = l
  /\ \A e \in PipeEnds : e[1] \in Pipes /\ e[2] \in {"read", "write"} /\ e = <<e[1], e[2]>>
BY DEF EndsOf, PipeEnds

-----------------------------------------------------------------------------
LEMMA InitInv == Init => ShellInv
<1> SUFFICES ASSUME Init PROVE ShellInv
  OBVIOUS
<1>1. Saved = {} /\ ends[TheShell] = {} /\ std[TheShell] = AllOriginal
  BY ProcessFacts DEF Init, Saved, AllNone
<1>2. Free = limit /\ IsFiniteSet(ends[TheShell])
  <2>1. IsFiniteSet({}) /\ Cardinality({}) = 0
    BY FS_EmptySet
  <2>2. limit \in Nat
    BY LimitsAssumption DEF Init
  <2> QED BY <1>1, <2>1, <2>2 DEF Free
<1>3. ShellTypeOK
  BY BoundsAssumption DEF Init, ShellTypeOK, AllNone
<1>4. ProcessTypeOK
  BY BoundsAssumption, AmountAssumption
  DEF Init, ProcessTypeOK, AllNone, AllOriginal, Places
<1>5. TypeOK /\ FiniteInv
  BY <1>2, <1>3, <1>4, ProcessFacts, LimitsAssumption DEF Init, TypeOK, FiniteInv, Alive, Running
<1>6. LineInv /\ ChildInv /\ RedirectInv /\ StdRestored
  BY <1>1, BoundsAssumption DEF Init, LineInv, ChildInv, RedirectInv, StdRestored, InBuiltin
<1>7. StdInv /\ EndsInv /\ NeighbourInv /\ PipesEndWithCommands
  BY <1>1 DEF Init, StdInv, EndsInv, NeighbourInv, PipesEndWithCommands, Running
<1> QED BY <1>5, <1>6, <1>7 DEF ShellInv

-----------------------------------------------------------------------------
(* Types *)

LEMMA ShellTypeStep == ASSUME ShellInv, Next PROVE ShellTypeOK'
<1> USE BoundsAssumption DEF ShellInv, TypeOK, ShellTypeOK
<1>1. CASE ReadLine
  BY <1>1 DEF ReadLine
<1>2. CASE Exit
  BY <1>2 DEF Exit, lineVars
<1>3. CASE MakePipe
  BY <1>3 DEF MakePipe, LineInv
<1>4. CASE PipeFails
  BY <1>4 DEF PipeFails, lineVars
<1>5. CASE Fork
  BY <1>5 DEF Fork, LineInv
<1>6. CASE ForkFails
  BY <1>6 DEF ForkFails, lineVars
<1>7. CASE CloseEnds
  BY <1>7 DEF CloseEnds, lineVars
<1>8. CASE Wait
  BY <1>8 DEF Wait, LineInv
<1>9. ASSUME NEW s \in Standard, Redirect(s) PROVE ShellTypeOK'
  <2>1. std[TheShell][s] = Original
    BY <1>9 DEF Redirect, RedirectInv, InBuiltin, Standard
  <2>2. Following[s] \in {"out", "err", "builtin"}
    BY DEF Following, Standard
  <2> QED BY <1>9, <2>1, <2>2 DEF Redirect, lineVars
<1>10. CASE RunBuiltin
  BY <1>10 DEF RunBuiltin, lineVars
<1>11. CASE Restore
  BY <1>11 DEF Restore, lineVars, AllNone
<1>12. ASSUME NEW p \in Children, ChildRuns(p) PROVE ShellTypeOK'
  BY <1>12 DEF ChildRuns, Start, Read, Write, Finish, lineVars
<1> QED BY <1>1, <1>2, <1>3, <1>4, <1>5, <1>6, <1>7, <1>8, <1>9, <1>10, <1>11, <1>12
        DEF Next, Runs, ShellRuns

\* A child that starts fails, or runs with some of its pipes replaced by files.
Started(p, D, r) ==
  /\ std' = [std EXCEPT ![p] = [s \in Standard |-> IF s \in D THEN File ELSE Connected(p)[s]]]
  /\ child' = [child EXCEPT ![p] = r]
  /\ r = "filter" => std'[p]["in"] \in Pipes
  /\ ends' = [ends EXCEPT ![p] = @ \ EndsOf(p[1])]
  /\ quota' = [quota EXCEPT ![p] = Amount]
  /\ UNCHANGED buffer

LEMMA StartCases ==
  ASSUME NEW p \in Children, Start(p)
  PROVE  \/ Ends(p, "error") /\ UNCHANGED <<quota, buffer>>
         \/ \E D \in SUBSET Standard, r \in Running : Started(p, D, r)
<1>1. CASE Ends(p, "error") /\ UNCHANGED quota
  BY <1>1 DEF Start
<1>2. CASE ~(Ends(p, "error") /\ UNCHANGED quota)
  <2>1. PICK D \in SUBSET {s \in Standard : Connected(p)[s] \in Pipes} :
          /\ std' = [std EXCEPT ![p] = [s \in Standard |-> IF s \in D THEN File ELSE Connected(p)[s]]]
          /\ child' \in {[child EXCEPT ![p] = r] :
                           r \in {"command"}
                                 \cup (IF count[p[1]] > 1 THEN {"builtin"} ELSE {})
                                 \cup (IF std'[p]["in"] \in Pipes THEN {"filter"} ELSE {})}
    BY <1>2 DEF Start
  <2>2. PICK r \in {"command", "builtin", "filter"} :
          child' = [child EXCEPT ![p] = r] /\ (r = "filter" => std'[p]["in"] \in Pipes)
    BY <2>1
  <2>3. Started(p, D, r)
    BY <1>2, <2>1, <2>2 DEF Start, Started
  <2> QED BY <2>2, <2>3 DEF Running
<1> QED BY <1>1, <1>2

LEMMA ForkedChild ==
  ASSUME ShellInv, Fork
  PROVE  /\ forked' = forked + 1
         /\ <<lines, forked'>> \in Children
         /\ <<lines, forked'>> # TheShell
BY BoundsAssumption, ProcessFacts DEF Fork, ShellInv, TypeOK, LineInv, ShellTypeOK

LEMMA EndsType ==
  ASSUME ProcessTypeOK, NEW p \in Children, NEW w \in Dead, Ends(p, w)
  PROVE  /\ std' \in [Processes -> [Standard -> Places]]
         /\ ends' \in [Processes -> SUBSET PipeEnds]
         /\ child' \in [Children -> Alive \cup Dead \cup {"none", "reaped"}]
<1>1. AllNone \in [Standard -> Places]
  BY DEF AllNone, Places
<1>2. std' \in [Processes -> [Standard -> Places]]
  BY <1>1 DEF Ends, ProcessTypeOK
<1>3. child' \in [Children -> Alive \cup Dead \cup {"none", "reaped"}]
  BY DEF Ends, ProcessTypeOK
<1> QED BY <1>2, <1>3 DEF Ends, ProcessTypeOK

LEMMA ShellStdType ==
  ASSUME ProcessTypeOK, NEW s \in Standard, NEW x \in Places
  PROVE  [std EXCEPT ![TheShell][s] = x] \in [Processes -> [Standard -> Places]]
<1>1. [std[TheShell] EXCEPT ![s] = x] \in [Standard -> Places]
  BY ProcessFacts DEF ProcessTypeOK
<1>2. [std EXCEPT ![TheShell][s] = x] = [std EXCEPT ![TheShell] = [std[TheShell] EXCEPT ![s] = x]]
  BY ProcessFacts DEF ProcessTypeOK
<1> QED BY <1>1, <1>2, ProcessFacts DEF ProcessTypeOK

LEMMA ProcessTypeStep == ASSUME ShellInv, Next PROVE ProcessTypeOK'
<1> USE BoundsAssumption, AmountAssumption DEF ShellInv, TypeOK, ProcessTypeOK
<1>1. /\ {Original, File, None} \cup Pipes = Places
      /\ AllNone \in [Standard -> Places] /\ AllOriginal \in [Standard -> Places]
      /\ Running \cup Dead \cup {"forked", "reaped"} \subseteq Alive \cup Dead \cup {"none", "reaped"}
  BY DEF Places, AllNone, AllOriginal, Alive
<1>2. CASE ReadLine \/ PipeFails \/ RunBuiltin
  BY <1>2 DEF ReadLine, PipeFails, RunBuiltin, childVars
<1>3. CASE Exit
  BY <1>1, <1>3, ProcessFacts DEF Exit, childVars
<1>4. CASE MakePipe
  <2>1. <<lines, made'>> \in Pipes
    BY <1>4, PipeFacts DEF MakePipe, LineInv, ShellTypeOK
  <2>2. {<<<<lines, made'>>, e>> : e \in {"read", "write"}} \subseteq PipeEnds
    BY <2>1 DEF PipeEnds
  <2> QED BY <1>4, <2>2, ProcessFacts DEF MakePipe, childVars
<1>5. CASE Fork
  <2>1. <<lines, forked'>> \in Children
    BY <1>5, ForkedChild
  <2> QED BY <1>1, <1>5, <2>1, ProcessFacts DEF Fork
<1>6. CASE ForkFails \/ CloseEnds
  BY <1>6, ProcessFacts DEF ForkFails, CloseEnds, childVars
<1>7. CASE Wait
  BY <1>7 DEF Wait
<1>8. ASSUME NEW s \in Standard, Redirect(s) PROVE ProcessTypeOK'
  <2>1. std' = std \/ std' = [std EXCEPT ![TheShell][s] = File]
    BY <1>8 DEF Redirect
  <2>2. [std EXCEPT ![TheShell][s] = File] \in [Processes -> [Standard -> Places]]
    <3>1. File \in Places
      BY <1>1
    <3>2. ProcessTypeOK
      OBVIOUS
    <3> HIDE DEF ProcessTypeOK
    <3> QED BY <3>1, <3>2, ShellStdType
  <2>3. std' \in [Processes -> [Standard -> Places]]
    BY <2>1, <2>2
  <2> QED BY <1>8, <2>3 DEF Redirect, childVars
<1>9. CASE Restore
  <2>1. \A s \in Standard : saved[s] # None => saved[s] \in Places
    BY <1>1 DEF ShellTypeOK
  <2> QED BY <1>9, <2>1, ProcessFacts DEF Restore, childVars
<1>10. ASSUME NEW p \in Children, Start(p) PROVE ProcessTypeOK'
  <2>1. Connected(p) \in [Standard -> Places]
    <3>1. p[2] > 1 => Before(p) \in Places
      BY <1>1, PipeFacts
    <3>2. p[2] < count[p[1]] => p \in Places
      BY <1>1, ProcessFacts, PipeFacts DEF ShellTypeOK
    <3>3. std[p] \in [Standard -> Places]
      BY ProcessFacts
    <3> QED BY <3>1, <3>2, <3>3 DEF Connected, Standard
  <2>2. CASE Ends(p, "error") /\ UNCHANGED <<quota, buffer>>
    BY <2>2, EndsType DEF Dead
  <2>3. ASSUME NEW D, NEW r \in Running, Started(p, D, r)
        PROVE  ProcessTypeOK'
    <3>1. [s \in Standard |-> IF s \in D THEN File ELSE Connected(p)[s]] \in [Standard -> Places]
      BY <1>1, <2>1
    <3>2. std' \in [Processes -> [Standard -> Places]]
      BY <2>3, <3>1 DEF Started
    <3>3. child' \in [Children -> Alive \cup Dead \cup {"none", "reaped"}]
      BY <1>1, <2>3 DEF Started
    <3> QED BY <2>3, <3>2, <3>3, ProcessFacts DEF Started
  <2> QED BY <1>10, <2>2, <2>3, StartCases
<1>11. ASSUME NEW p \in Children, Read(p) PROVE ProcessTypeOK'
  BY <1>11 DEF Read, StdInv
<1>12. ASSUME NEW p \in Children, Write(p) PROVE ProcessTypeOK'
  <2>1. CASE /\ quota' = [quota EXCEPT ![p] = @ - 1]
             /\ UNCHANGED <<std, ends, child>>
    BY <1>12, <2>1 DEF Write
  <2>2. CASE /\ Ends(p, "sigpipe") /\ quota' = [quota EXCEPT ![p] = 0]
             /\ UNCHANGED buffer
    BY <2>2, EndsType DEF Dead
  <2> QED BY <1>12, <2>1, <2>2 DEF Write
<1>13. ASSUME NEW p \in Children, Finish(p) PROVE ProcessTypeOK'
  BY <1>13, EndsType DEF Finish, Dead
<1> QED BY <1>2, <1>3, <1>4, <1>5, <1>6, <1>7, <1>8, <1>9, <1>10, <1>11, <1>12, <1>13
        DEF Next, Runs, ShellRuns, ChildRuns

LEMMA ClosedStep ==
  ASSUME ShellInv, Next
  PROVE  (\A p \in Children : child[p] \notin Alive => ends[p] = {} /\ std[p] = AllNone)'
<1> SUFFICES ASSUME NEW p \in Children, child'[p] \notin Alive
             PROVE  ends'[p] = {} /\ std'[p] = AllNone
  OBVIOUS
<1> USE DEF ShellInv, TypeOK
<1>1. p \in Processes /\ p # TheShell
  BY ProcessFacts
<1>2. CASE ReadLine \/ Exit \/ MakePipe \/ PipeFails \/ ForkFails \/ CloseEnds \/ RunBuiltin \/ Restore
  BY <1>1, <1>2 DEF ReadLine, Exit, MakePipe, PipeFails, ForkFails, CloseEnds, RunBuiltin, Restore,
                    childVars, ProcessTypeOK
<1>3. CASE Fork
  BY <1>1, <1>3 DEF Fork, ProcessTypeOK, Alive
<1>4. CASE Wait
  BY <1>1, <1>4 DEF Wait, ProcessTypeOK, Alive, Running, Dead
<1>5. ASSUME NEW s \in Standard, Redirect(s) PROVE ends'[p] = {} /\ std'[p] = AllNone
  BY <1>1, <1>5 DEF Redirect, childVars, ProcessTypeOK
<1>6. ASSUME NEW q \in Children, NEW w, Ends(q, w) PROVE ends'[p] = {} /\ std'[p] = AllNone
  BY <1>1, <1>6 DEF Ends, ProcessTypeOK
<1>7. ASSUME NEW q \in Children, Start(q) PROVE ends'[p] = {} /\ std'[p] = AllNone
  <2>1. ASSUME NEW D, NEW r \in Running, Started(q, D, r)
        PROVE  ends'[p] = {} /\ std'[p] = AllNone
    BY <1>1, <2>1 DEF Started, ProcessTypeOK, Alive
  <2> QED BY <1>6, <1>7, <2>1, StartCases
<1>8. ASSUME NEW q \in Children, Read(q) \/ Write(q) \/ Finish(q)
      PROVE  ends'[p] = {} /\ std'[p] = AllNone
  <2>1. CASE UNCHANGED <<std, ends, child>>
    BY <2>1
  <2>2. CASE \E w : Ends(q, w)
    BY <1>6, <2>2
  <2> QED BY <1>8, <2>1, <2>2 DEF Read, Write, Finish
<1> QED BY <1>2, <1>3, <1>4, <1>5, <1>7, <1>8 DEF Next, Runs, ShellRuns, ChildRuns

LEMMA AddBound ==
  ASSUME NEW S, NEW x, IsFiniteSet(S)
  PROVE  /\ IsFiniteSet(S \cup {x})
         /\ Cardinality(S \cup {x}) \in Nat
         /\ Cardinality(S \cup {x}) <= Cardinality(S) + 1
<1>1. /\ IsFiniteSet(S \cup {x})
      /\ Cardinality(S \cup {x}) \in {Cardinality(S), Cardinality(S) + 1}
  BY FS_AddElement
<1>2. Cardinality(S) \in Nat
  BY FS_CardinalityType
<1> QED BY <1>1, <1>2

LEMMA CountFacts ==
  ASSUME ShellInv
  PROVE  /\ IsFiniteSet(ends[TheShell]) /\ Cardinality(ends[TheShell]) \in Nat
         /\ IsFiniteSet(Saved) /\ Cardinality(Saved) \in Nat
         /\ limit \in Nat /\ Free \in Int
<1>1. /\ IsFiniteSet(ends[TheShell]) /\ Cardinality(ends[TheShell]) \in Nat
      /\ limit \in Nat
  BY FS_CardinalityType, LimitsAssumption DEF FiniteInv, ShellInv, TypeOK, ShellTypeOK
<1>2. IsFiniteSet({"in"} \cup {"out"} \cup {"err"})
  BY FS_Singleton, FS_AddElement
<1>3. Saved \in SUBSET ({"in"} \cup {"out"} \cup {"err"})
  BY DEF Saved, Standard
<1>4. IsFiniteSet(Saved) /\ Cardinality(Saved) \in Nat
  BY <1>2, <1>3, FS_Subset, FS_CardinalityType
<1> QED BY <1>1, <1>4 DEF Free

\* The shell never has more descriptors than it may: it makes a pipe or saves
\* a descriptor only when there are free ones.
LEMMA LimitStep == ASSUME ShellInv, Next PROVE Free' >= 0 /\ FiniteInv'
<1> USE DEF ShellInv, TypeOK
<1>1. /\ IsFiniteSet(ends[TheShell]) /\ Cardinality(ends[TheShell]) \in Nat
      /\ limit \in Nat
  BY CountFacts
<1>3. Cardinality(Saved) \in Nat /\ IsFiniteSet(Saved)
  BY CountFacts
<1>4. ASSUME ends'[TheShell] \subseteq ends[TheShell], Saved' \subseteq Saved, limit' = limit
      PROVE  Free' >= 0 /\ FiniteInv'
  <2>1. /\ IsFiniteSet(ends'[TheShell])
        /\ Cardinality(ends'[TheShell]) \in Nat
        /\ Cardinality(ends'[TheShell]) <= Cardinality(ends[TheShell])
    BY <1>1, <1>4, FS_Subset, FS_CardinalityType
  <2>2. Cardinality(Saved') \in Nat /\ Cardinality(Saved') <= Cardinality(Saved)
    BY <1>3, <1>4, FS_Subset, FS_CardinalityType
  <2> QED BY <1>1, <1>3, <1>4, <2>1, <2>2 DEF Free, FiniteInv
<1>5. CASE ReadLine \/ PipeFails \/ RunBuiltin \/ Wait
  BY <1>4, <1>5 DEF ReadLine, PipeFails, RunBuiltin, Wait, Saved
<1>6. CASE Exit \/ ForkFails \/ CloseEnds
  BY <1>4, <1>6, ProcessFacts DEF Exit, ForkFails, CloseEnds, Saved, ProcessTypeOK
<1>7. CASE Fork
  <2>1. <<lines, forked'>> # TheShell
    BY <1>7, ForkedChild
  <2> QED BY <1>4, <1>7, <2>1, ProcessFacts DEF Fork, Saved, ProcessTypeOK
<1>8. CASE MakePipe
  <2> DEFINE r == <<<<lines, made'>>, "read">>
             w == <<<<lines, made'>>, "write">>
             S == ends[TheShell] \cup {r}
  <2>1. ends'[TheShell] = S \cup {w}
    BY <1>8, ProcessFacts DEF MakePipe, ProcessTypeOK
  <2>2. IsFiniteSet(S) /\ Cardinality(S) \in Nat /\ Cardinality(S) <= Cardinality(ends[TheShell]) + 1
    BY <1>1, AddBound
  <2>3. /\ IsFiniteSet(S \cup {w}) /\ Cardinality(S \cup {w}) \in Nat
        /\ Cardinality(S \cup {w}) <= Cardinality(S) + 1
    <3> HIDE DEF S, w
    <3> QED BY <2>2, AddBound
  <2>4. Saved' = Saved /\ limit' = limit /\ Free >= 2
    BY <1>8 DEF MakePipe, Saved
  <2> HIDE DEF S, w
  <2> QED BY <1>1, <1>3, <2>1, <2>2, <2>3, <2>4 DEF Free, FiniteInv
<1>9. ASSUME NEW s \in Standard, Redirect(s) PROVE Free' >= 0 /\ FiniteInv'
  <2>1. ends' = ends /\ limit' = limit
    BY <1>9 DEF Redirect
  <2>2. CASE saved' = saved
    BY <1>4, <2>1, <2>2 DEF Saved
  <2>3. CASE Free > 0 /\ saved' = [saved EXCEPT ![s] = std[TheShell][s]]
    <3>1. Saved' \subseteq Saved \cup {s}
      BY <2>3 DEF Saved, ShellTypeOK
    <3>2. /\ IsFiniteSet(Saved \cup {s})
          /\ Cardinality(Saved \cup {s}) \in Nat
          /\ Cardinality(Saved \cup {s}) <= Cardinality(Saved) + 1
      BY <1>3, AddBound
    <3>3. Cardinality(Saved') \in Nat /\ Cardinality(Saved') <= Cardinality(Saved) + 1
      BY <3>1, <3>2, FS_Subset, FS_CardinalityType
    <3> QED BY <1>1, <1>3, <2>1, <2>3, <3>3 DEF Free, FiniteInv
  <2> QED BY <1>9, <2>2, <2>3 DEF Redirect
<1>10. CASE Restore
  <2>1. Saved' = {}
    BY <1>10 DEF Restore, Saved, AllNone
  <2> QED BY <1>4, <1>10, <2>1 DEF Restore
<1>11. ASSUME NEW p \in Children, ChildRuns(p) PROVE Free' >= 0 /\ FiniteInv'
  <2>1. ends'[TheShell] = ends[TheShell]
    BY <1>11, ProcessFacts DEF ChildRuns, Start, Read, Write, Finish, Ends, ProcessTypeOK
  <2>2. saved' = saved /\ limit' = limit
    BY <1>11 DEF ChildRuns, Start, Read, Write, Finish
  <2> QED BY <1>4, <2>1, <2>2 DEF Saved
<1> QED BY <1>5, <1>6, <1>7, <1>8, <1>9, <1>10, <1>11 DEF Next, Runs, ShellRuns

LEMMA TypeStep == ASSUME ShellInv, Next PROVE TypeOK' /\ FiniteInv'
BY ShellTypeStep, ProcessTypeStep, ClosedStep, LimitStep DEF TypeOK

-----------------------------------------------------------------------------
(* The shell and its children *)

\* What a step of child p does to the rest: nothing.
LEMMA ChildStep ==
  ASSUME ShellInv, NEW p \in Children, ChildRuns(p)
  PROVE  /\ UNCHANGED <<spc, lines, count, made, forked, waited, saved, failed>>
         /\ child[p] \in Alive
         /\ child'[p] \in Running \cup Dead
         /\ \A q \in Processes : q # p => std'[q] = std[q] /\ ends'[q] = ends[q]
         /\ \A q \in Children : q # p => child'[q] = child[q]
<1> USE DEF ShellInv, TypeOK, ProcessTypeOK
<1>1. UNCHANGED <<spc, lines, count, made, forked, waited, saved, failed>>
  BY DEF ChildRuns, Start, Read, Write, Finish, lineVars
<1>2. CASE UNCHANGED <<std, ends, child>> /\ child[p] \in Running
  BY <1>1, <1>2 DEF Alive
<1>3. ASSUME NEW w \in Dead, Ends(p, w), child[p] \in Alive
      PROVE  /\ child'[p] \in Running \cup Dead
             /\ \A q \in Processes : q # p => std'[q] = std[q] /\ ends'[q] = ends[q]
             /\ \A q \in Children : q # p => child'[q] = child[q]
  BY <1>3 DEF Ends
<1>4. CASE Start(p)
  <2>1. child[p] \in Alive
    BY <1>4 DEF Start, Alive
  <2>2. ASSUME NEW D, NEW r \in Running, Started(p, D, r)
        PROVE  /\ child'[p] \in Running \cup Dead
               /\ \A q \in Processes : q # p => std'[q] = std[q] /\ ends'[q] = ends[q]
               /\ \A q \in Children : q # p => child'[q] = child[q]
    BY <2>2 DEF Started
  <2>3. "error" \in Dead
    BY DEF Dead
  <2> QED BY <1>1, <1>3, <1>4, <2>1, <2>2, <2>3, StartCases
<1>5. CASE Read(p) \/ Write(p) \/ Finish(p)
  <2>1. child[p] \in Running
    BY <1>5 DEF Read, Write, Finish, Running
  <2>2. UNCHANGED <<std, ends, child>> \/ \E w \in Dead : Ends(p, w)
    BY <1>5 DEF Read, Write, Finish, Dead
  <2> QED BY <1>1, <1>2, <1>3, <2>1, <2>2 DEF Alive
<1> QED BY <1>4, <1>5 DEF ChildRuns

LEMMA LineStep == ASSUME ShellInv, Next PROVE LineInv'
<1> USE BoundsAssumption DEF ShellInv, TypeOK, ShellTypeOK, LineInv
<1>1. CASE ReadLine
  BY <1>1 DEF ReadLine, InBuiltin
<1>2. CASE Exit
  BY <1>2 DEF Exit, lineVars, InBuiltin
<1>3. CASE MakePipe
  BY <1>3 DEF MakePipe, InBuiltin
<1>4. CASE PipeFails
  BY <1>4 DEF PipeFails, lineVars, InBuiltin
<1>5. CASE Fork
  BY <1>5 DEF Fork, InBuiltin
<1>6. CASE ForkFails
  BY <1>6 DEF ForkFails, lineVars, InBuiltin
<1>7. CASE CloseEnds
  BY <1>7 DEF CloseEnds, lineVars, InBuiltin
<1>8. CASE Wait
  BY <1>8 DEF Wait, InBuiltin
<1>9. ASSUME NEW s \in Standard, Redirect(s) PROVE LineInv'
  <2>1. Following[s] \in {"out", "err", "builtin"}
    BY DEF Following, Standard
  <2> QED BY <1>9, <2>1 DEF Redirect, lineVars, InBuiltin, Standard
<1>10. CASE RunBuiltin \/ Restore
  BY <1>10 DEF RunBuiltin, Restore, lineVars, InBuiltin
<1>11. ASSUME NEW p \in Children, ChildRuns(p) PROVE LineInv'
  BY <1>11, ChildStep
<1> QED BY <1>1, <1>2, <1>3, <1>4, <1>5, <1>6, <1>7, <1>8, <1>9, <1>10, <1>11
        DEF Next, Runs, ShellRuns

LEMMA ChildInvStep == ASSUME ShellInv, Next PROVE ChildInv'
<1> USE BoundsAssumption, ProcessFacts DEF ShellInv, TypeOK, ShellTypeOK, LineInv, ChildInv
<1>1. CASE ReadLine
  <2>1. lines' = lines + 1 /\ child' = child /\ failed' = failed
    BY <1>1 DEF ReadLine, childVars
  <2>2. \A l \in 1 .. MaxLines : l <= lines => count'[l] = count[l]
    BY <1>1 DEF ReadLine
  <2>3. \A p \in Children : child[p] # "none" => p[1] <= lines
    OBVIOUS
  <2>4. \A p \in Children : child[p] \notin {"none", "reaped"} => failed[p[1]] = "fork"
    BY <1>1 DEF ReadLine
  <2> QED BY <2>1, <2>2, <2>3, <2>4
<1>2. CASE Exit
  BY <1>2 DEF Exit, lineVars, childVars
<1>3. CASE MakePipe
  BY <1>3 DEF MakePipe, childVars
<1>4. CASE PipeFails
  BY <1>4 DEF PipeFails, lineVars, childVars
<1>5. CASE Fork
  BY <1>5, ForkedChild, SMTT(30) DEF Fork, ProcessTypeOK
<1>6. CASE ForkFails
  BY <1>6 DEF ForkFails, lineVars, childVars
<1>7. CASE CloseEnds
  BY <1>7 DEF CloseEnds, lineVars, childVars
<1>8. CASE Wait
  BY <1>8, SMTT(30) DEF Wait, ProcessTypeOK, Dead
<1>9. ASSUME NEW s \in Standard, Redirect(s) PROVE ChildInv'
  BY <1>9 DEF Redirect, lineVars, childVars, Standard
<1>10. CASE RunBuiltin \/ Restore
  BY <1>10 DEF RunBuiltin, Restore, lineVars, childVars
<1>11. ASSUME NEW p \in Children, ChildRuns(p) PROVE ChildInv'
  <2>1. child[p] \notin {"none", "reaped"}
    BY <1>11, ChildStep DEF Alive, Running
  <2>2. UNCHANGED <<spc, lines, count, forked, waited, failed>>
    BY <1>11, ChildStep
  <2>3. \A q \in Children : q # p => child'[q] = child[q]
    BY <1>11, ChildStep
  <2> QED BY <2>1, <2>2, <2>3
<1> QED BY <1>1, <1>2, <1>3, <1>4, <1>5, <1>6, <1>7, <1>8, <1>9, <1>10, <1>11
        DEF Next, Runs, ShellRuns

LEMMA RedirectStep == ASSUME ShellInv, Next PROVE RedirectInv' /\ StdRestored'
<1> USE ProcessFacts DEF ShellInv, TypeOK, ProcessTypeOK, RedirectInv, StdRestored, InBuiltin
<1>1. CASE ReadLine
  BY <1>1 DEF ReadLine, AllNone, AllOriginal
<1>2. CASE Exit \/ MakePipe \/ PipeFails \/ ForkFails \/ CloseEnds \/ Wait
  BY <1>2 DEF Exit, MakePipe, PipeFails, ForkFails, CloseEnds, Wait
<1>3. CASE Fork
  BY <1>3, ForkedChild DEF Fork
<1>4. ASSUME NEW s \in Standard, Redirect(s) PROVE RedirectInv' /\ StdRestored'
  <2>1. std[TheShell][s] = Original /\ saved[s] = None
    BY <1>4 DEF Redirect, Standard
  <2>2. \A t \in Standard : t # s => std'[TheShell][t] = std[TheShell][t] /\ saved'[t] = saved[t]
    BY <1>4 DEF Redirect, ShellTypeOK
  <2>3. saved'[s] = None => std'[TheShell][s] = Original
    BY <1>4, <2>1, PlaceFacts, CountFacts DEF Redirect, ShellTypeOK
  <2>4. \A t \in Standard : saved'[t] = None => std'[TheShell][t] = Original
    BY <1>4, <2>2, <2>3 DEF Redirect, Standard
  <2>5. spc' = "restore" \/ spc' = Following[s]
    BY <1>4 DEF Redirect
  <2> QED BY <1>4, <2>2, <2>4, <2>5 DEF Redirect, Following, Standard
<1>5. CASE RunBuiltin
  BY <1>5 DEF RunBuiltin
<1>6. CASE Restore
  <2>1. \A s \in Standard : (IF saved[s] # None THEN saved[s] ELSE std[TheShell][s]) = Original
    BY <1>6 DEF Restore, ShellTypeOK
  <2>2. std'[TheShell] = AllOriginal
    BY <1>6, <2>1 DEF Restore, AllOriginal
  <2> QED BY <1>6, <2>2 DEF Restore
<1>7. ASSUME NEW p \in Children, ChildRuns(p) PROVE RedirectInv' /\ StdRestored'
  BY <1>7, ChildStep
<1> QED BY <1>1, <1>2, <1>3, <1>4, <1>5, <1>6, <1>7 DEF Next, Runs, ShellRuns

-----------------------------------------------------------------------------
(* Pipes *)

\* Steps of the shell that leave the children as they are.
LEMMA ShellStep ==
  ASSUME ShellInv,
         \/ ReadLine \/ Exit \/ MakePipe \/ PipeFails \/ ForkFails \/ CloseEnds
         \/ \E s \in Standard : Redirect(s)
         \/ RunBuiltin \/ Restore
  PROVE  /\ child' = child
         /\ \A p \in Children : std'[p] = std[p] /\ ends'[p] = ends[p]
         /\ \A p \in Children : child[p] # "none" => count'[p[1]] = count[p[1]]
<1>0. ReadLine => \A l \in 1 .. MaxLines : l <= lines => count'[l] = count[l]
  BY BoundsAssumption DEF ReadLine, ShellInv, TypeOK, ShellTypeOK
<1> USE ProcessFacts DEF ShellInv, TypeOK, ProcessTypeOK
<1>1. CASE ReadLine
  BY <1>0, <1>1 DEF ReadLine, childVars, ChildInv
<1>2. CASE Exit \/ MakePipe \/ PipeFails \/ ForkFails \/ CloseEnds
  BY <1>2 DEF Exit, MakePipe, PipeFails, ForkFails, CloseEnds, childVars, lineVars
<1>3. ASSUME NEW s \in Standard, Redirect(s)
      PROVE  /\ child' = child /\ ends' = ends /\ count' = count
             /\ \A p \in Children : std'[p] = std[p]
  BY <1>3 DEF Redirect, childVars, lineVars
<1>4. CASE RunBuiltin \/ Restore
  BY <1>4 DEF RunBuiltin, Restore, childVars, lineVars
<1> QED BY <1>1, <1>2, <1>3, <1>4

\* The child that is forked, and the others.
LEMMA ForkStep ==
  ASSUME ShellInv, Fork, NEW p \in Children
  PROVE  /\ UNCHANGED <<spc, lines, count, made>> /\ spc = "pipe"
         /\ p = <<lines, forked'>> => /\ child[p] = "none" /\ child'[p] = "forked"
                                      /\ std'[p] = AllOriginal /\ ends'[p] = ends[TheShell]
                                      /\ p[1] = lines /\ p[2] = forked + 1
         /\ p # <<lines, forked'>> => /\ child'[p] = child[p]
                                      /\ std'[p] = std[p] /\ ends'[p] = ends[p]
<1>1. p = <<lines, forked'>> => p[1] = lines /\ p[2] = forked + 1
  BY ForkedChild
<1>2. std[TheShell] = AllOriginal
  BY DEF Fork, ShellInv, StdRestored
<1>3. p = <<lines, forked'>> => child[p] = "none"
  BY <1>1 DEF ShellInv, TypeOK, ShellTypeOK, ChildInv
<1> QED BY <1>1, <1>2, <1>3, ProcessFacts DEF Fork, ShellInv, TypeOK, ProcessTypeOK

\* waitpid() changes a child from dead to reaped.
LEMMA WaitStep ==
  ASSUME ShellInv, Wait, NEW p \in Children
  PROVE  /\ UNCHANGED <<lines, count, std, ends>> /\ spc' # "pipe"
         /\ child'[p] = child[p] \/ (child[p] \in Dead /\ child'[p] = "reaped")
BY ProcessFacts DEF Wait, ShellInv, TypeOK, ProcessTypeOK

\* What a running child has open does not change until it ends.
LEMMA RunningStep ==
  ASSUME ShellInv, NEW p \in Children, ChildRuns(p), child'[p] \in Alive
  PROVE  \/ child[p] = "forked" /\ \E D \in SUBSET Standard, r \in Running : Started(p, D, r)
         \/ child[p] \in Running /\ std'[p] = std[p] /\ child'[p] = child[p]
<1>1. \A w \in Dead : ~Ends(p, w)
  BY DEF Ends, ShellInv, TypeOK, ProcessTypeOK, Alive, Running, Dead
<1>2. CASE Start(p)
  BY <1>1, <1>2, StartCases DEF Start, Dead
<1>3. CASE Read(p) \/ Write(p) \/ Finish(p)
  BY <1>1, <1>3 DEF Read, Write, Finish, Running, Dead
<1> QED BY <1>2, <1>3 DEF ChildRuns

LEMMA StdStep == ASSUME ShellInv, Next PROVE StdInv'
<1> SUFFICES ASSUME NEW p \in Children
             PROVE  /\ child'[p] = "forked" => std'[p] = AllOriginal
                    /\ child'[p] \in Running =>
                         /\ std'[p]["in"] \in {IF p[2] > 1 THEN Before(p) ELSE Original, File}
                         /\ std'[p]["out"] \in {IF p[2] < count'[p[1]] THEN p ELSE Original, File}
                    /\ child'[p] = "filter" => std'[p]["in"] \in Pipes
  BY DEF StdInv
<1> USE DEF ShellInv, StdInv
<1>1. ASSUME child'[p] = child[p], std'[p] = std[p], child[p] # "none" => count'[p[1]] = count[p[1]]
      PROVE  /\ child'[p] = "forked" => std'[p] = AllOriginal
             /\ child'[p] \in Running =>
                  /\ std'[p]["in"] \in {IF p[2] > 1 THEN Before(p) ELSE Original, File}
                  /\ std'[p]["out"] \in {IF p[2] < count'[p[1]] THEN p ELSE Original, File}
             /\ child'[p] = "filter" => std'[p]["in"] \in Pipes
  BY <1>1 DEF Running
<1>2. CASE \/ ReadLine \/ Exit \/ MakePipe \/ PipeFails \/ ForkFails \/ CloseEnds
           \/ \E s \in Standard : Redirect(s)
           \/ RunBuiltin \/ Restore
  BY <1>1, <1>2, ShellStep
<1>3. CASE Fork
  BY <1>1, <1>3, ForkStep DEF Running
<1>4. CASE Wait
  BY <1>1, <1>4, WaitStep DEF Running
<1>5. ASSUME NEW q \in Children, ChildRuns(q), q # p
      PROVE  child'[p] = child[p] /\ std'[p] = std[p] /\ count' = count
  BY <1>5, ChildStep, ProcessFacts
<1>6. ASSUME ChildRuns(p), child'[p] \in Alive
      PROVE  /\ child'[p] = "forked" => std'[p] = AllOriginal
             /\ child'[p] \in Running =>
                  /\ std'[p]["in"] \in {IF p[2] > 1 THEN Before(p) ELSE Original, File}
                  /\ std'[p]["out"] \in {IF p[2] < count'[p[1]] THEN p ELSE Original, File}
             /\ child'[p] = "filter" => std'[p]["in"] \in Pipes
  <2>1. count' = count
    BY <1>6, ChildStep
  <2>2. ASSUME child[p] = "forked", NEW D \in SUBSET Standard, NEW r \in Running, Started(p, D, r)
        PROVE  /\ child'[p] = r
               /\ std'[p]["in"] \in {IF p[2] > 1 THEN Before(p) ELSE Original, File}
               /\ std'[p]["out"] \in {IF p[2] < count[p[1]] THEN p ELSE Original, File}
               /\ r = "filter" => std'[p]["in"] \in Pipes
    <3>1. std[p] = [s \in Standard |-> Original]
      BY <2>2 DEF AllOriginal
    <3>2. /\ Connected(p)["in"] = IF p[2] > 1 THEN Before(p) ELSE Original
          /\ Connected(p)["out"] = IF p[2] < count[p[1]] THEN p ELSE Original
      BY <3>1 DEF Connected, Standard
    <3> QED BY <2>2, <3>2, ProcessFacts DEF Started, TypeOK, ProcessTypeOK, Standard
  <2> QED BY <1>1, <1>6, <2>1, <2>2, RunningStep DEF Running
<1>7. ASSUME ChildRuns(p), child'[p] \notin Alive
      PROVE  child'[p] # "forked" /\ child'[p] \notin Running
  BY <1>7 DEF Alive
<1> QED BY <1>1, <1>2, <1>3, <1>4, <1>5, <1>6, <1>7 DEF Next, Runs, ShellRuns, Running

LEMMA EndsStep == ASSUME ShellInv, Next PROVE EndsInv'
<1> DEFINE Owned == \A e \in ends[TheShell] : failed[e[1][1]] = "pipe" \/ (spc = "pipe" /\ e[1][1] = lines)
           Open == spc = "pipe" => \A i \in 1 .. made : \A w \in {"read", "write"} :
                                     <<<<lines, i>>, w>> \in ends[TheShell]
           Copied(p) == child[p] = "forked" =>
                          \A i \in 1 .. count[p[1]] - 1 : \A w \in {"read", "write"} :
                            <<<<p[1], i>>, w>> \in ends[p]
<1>1. \A p \in Children : Copied(p)'
  <2> SUFFICES ASSUME NEW p \in Children PROVE Copied(p)'
    OBVIOUS
  <2> USE DEF ShellInv, EndsInv
  <2>1. ASSUME child'[p] = child[p], ends'[p] = ends[p], child[p] # "none" => count'[p[1]] = count[p[1]]
        PROVE  Copied(p)'
    BY <2>1
  <2>2. CASE \/ ReadLine \/ Exit \/ MakePipe \/ PipeFails \/ ForkFails \/ CloseEnds
             \/ \E s \in Standard : Redirect(s)
             \/ RunBuiltin \/ Restore
    BY <2>1, <2>2, ShellStep
  <2>3. CASE Fork
    <3>1. CASE p = <<lines, forked'>>
      <4>1. ends'[p] = ends[TheShell] /\ p[1] = lines /\ count' = count /\ spc = "pipe"
        BY <2>3, <3>1, ForkStep
      <4>2. made = count[lines] - 1
        BY <2>3 DEF Fork
      <4> QED BY <4>1, <4>2
    <3>2. CASE p # <<lines, forked'>>
      BY <2>1, <2>3, <3>2, ForkStep
    <3> QED BY <3>1, <3>2
  <2>4. CASE Wait
    BY <2>1, <2>4, WaitStep DEF Dead
  <2>5. ASSUME NEW q \in Children, ChildRuns(q) PROVE Copied(p)'
    <3>1. q # p => child'[p] = child[p] /\ ends'[p] = ends[p] /\ count' = count
      BY <2>5, ChildStep, ProcessFacts
    <3>2. q = p => child'[p] # "forked"
      BY <2>5, ChildStep DEF Running, Dead
    <3> QED BY <2>1, <3>1, <3>2
  <2> QED BY <2>2, <2>3, <2>4, <2>5 DEF Next, Runs, ShellRuns
<1>2. Owned' /\ Open'
  <2> USE ProcessFacts DEF ShellInv, TypeOK, ShellTypeOK, ProcessTypeOK, EndsInv
  <2>0. /\ \A e \in ends[TheShell] : e \in PipeEnds /\ e[1][1] \in 1 .. MaxLines
        /\ Owned /\ Open
    BY EndFacts, PipeFacts DEF Pipes
  <2>1. CASE ReadLine
    BY <2>0, <2>1 DEF ReadLine
  <2>2. CASE Exit
    BY <2>0, <2>2 DEF Exit
  <2>3. CASE MakePipe
    BY <2>0, <2>3 DEF MakePipe
  <2>4. CASE PipeFails
    BY <2>0, <2>4 DEF PipeFails
  <2>5. CASE Fork
    BY <2>0, <2>5, ForkedChild DEF Fork
  <2>6. CASE ForkFails \/ CloseEnds
    <3>1. \A e \in ends'[TheShell] : e \in ends[TheShell] /\ e[1][1] # lines
      BY <2>0, <2>6, EndFacts DEF ForkFails, CloseEnds, LineInv
    <3> QED BY <2>0, <2>6, <3>1 DEF ForkFails, CloseEnds
  <2>7. CASE Wait
    BY <2>0, <2>7 DEF Wait
  <2>8. ASSUME NEW s \in Standard, Redirect(s) PROVE Owned' /\ Open'
    BY <2>0, <2>8 DEF Redirect, Following, Standard
  <2>9. CASE RunBuiltin \/ Restore
    BY <2>0, <2>9 DEF RunBuiltin, Restore
  <2>10. ASSUME NEW q \in Children, ChildRuns(q) PROVE Owned' /\ Open'
    <3>1. UNCHANGED <<spc, lines, made, failed>>
      BY <2>10, ChildStep
    <3>2. ends'[TheShell] = ends[TheShell]
      BY <2>10, ChildStep
    <3> QED BY <2>0, <3>1, <3>2
  <2> QED BY <2>1, <2>2, <2>3, <2>4, <2>5, <2>6, <2>7, <2>8, <2>9, <2>10
          DEF Next, Runs, ShellRuns
<1> QED BY <1>1, <1>2 DEF EndsInv

-----------------------------------------------------------------------------
(* Who sees the end of a pipe, or that nobody reads it *)

LEMMA EofCause ==
  ASSUME ShellInv, NEW p \in Children, ChildRuns(p), child'[p] = "eof"
  PROVE  p[2] > 1 /\ Writers(Before(p)) = {} /\ child[p] = "filter"
<1> USE DEF ShellInv, TypeOK, ProcessTypeOK
<1>1. \A w \in Dead : Ends(p, w) => child'[p] = w
  BY DEF Ends
<1>2. ~Start(p)
  <2>1. \A D \in SUBSET Standard, r \in Running : ~Started(p, D, r)
    BY DEF Started, Running
  <2> QED BY <1>1, <2>1, StartCases DEF Dead
<1>3. ~Read(p) /\ ~Write(p)
  BY <1>1 DEF Read, Write, Running, Dead
<1>4. child[p] = "filter" /\ Writers(std[p]["in"]) = {}
  BY <1>1, <1>2, <1>3 DEF ChildRuns, Finish, Dead
<1>5. std[p]["in"] = Before(p) /\ p[2] > 1
  BY <1>4, PlaceFacts DEF StdInv, Running
<1> QED BY <1>4, <1>5

LEMMA SigpipeCause ==
  ASSUME ShellInv, NEW p \in Children, ChildRuns(p), child'[p] = "sigpipe"
  PROVE  p \in Pipes /\ p[2] < count[p[1]] /\ Readers(p) = {} /\ child[p] \in Running
<1> USE DEF ShellInv, TypeOK, ProcessTypeOK
<1>1. \A w \in Dead : Ends(p, w) => child'[p] = w
  BY DEF Ends
<1>2. ~Start(p)
  <2>1. \A D \in SUBSET Standard, r \in Running : ~Started(p, D, r)
    BY DEF Started, Running
  <2> QED BY <1>1, <2>1, StartCases DEF Dead
<1>3. ~Read(p) /\ ~Finish(p)
  BY <1>1 DEF Read, Finish, Running, Dead
<1>4. child[p] \in Running /\ std[p]["out"] \in Pipes /\ Readers(std[p]["out"]) = {}
  BY <1>1, <1>2, <1>3 DEF ChildRuns, Write, Running, Dead
<1>5. std[p]["out"] = p /\ p[2] < count[p[1]]
  BY <1>4, PlaceFacts DEF StdInv
<1> QED BY <1>4, <1>5

\* A living child without its pipe has replaced the pipe by a file.
LEMMA WriterGone ==
  ASSUME ShellInv, NEW p \in Children, p[2] < count[p[1]], Writers(p) = {}, child[p] \in Alive
  PROVE  child[p] \in Running /\ std[p]["out"] = File
<1>1. <<p, "write">> \notin ends[p] /\ std[p]["out"] # p
  BY ProcessFacts DEF Writers
<1>2. child[p] # "forked"
  <2>1. p = <<p[1], p[2]>> /\ p[2] \in 1 .. count[p[1]] - 1
    BY ProcessFacts DEF ShellInv, TypeOK, ShellTypeOK
  <2> QED BY <1>1, <2>1 DEF ShellInv, EndsInv
<1> QED BY <1>1, <1>2 DEF ShellInv, StdInv, Alive

LEMMA ReaderGone ==
  ASSUME ShellInv, NEW p \in Pipes, p[2] < count[p[1]], Readers(p) = {}, child[After(p)] \in Alive
  PROVE  child[After(p)] \in Running /\ std[After(p)]["in"] = File
<1> DEFINE q == After(p)
<1>1. q \in Children /\ q[1] = p[1] /\ q[2] = p[2] + 1 /\ Before(q) = p /\ q[2] > 1
  BY PipeFacts
<1>2. <<p, "read">> \notin ends[q] /\ std[q]["in"] # p
  BY <1>1, ProcessFacts DEF Readers
<1>3. child[q] # "forked"
  <2>1. p = <<q[1], p[2]>> /\ p[2] \in 1 .. count[q[1]] - 1
    BY <1>1, ProcessFacts, PipeFacts DEF ShellInv, TypeOK, ShellTypeOK
  <2> QED BY <1>1, <1>2, <2>1 DEF ShellInv, EndsInv
<1> QED BY <1>1, <1>2, <1>3 DEF ShellInv, StdInv, Alive

\* No command loses its reader while the line is still being forked.
LEMMA ShellReads ==
  ASSUME ShellInv, NEW p \in Pipes, p[2] < count[p[1]], Readers(p) = {}, child[p] # "none"
  PROVE  ~(p[1] = lines /\ spc = "pipe")
<1> SUFFICES ASSUME p[1] = lines, spc = "pipe" PROVE FALSE
  OBVIOUS
<1>1. p \in Children /\ p = <<lines, p[2]>> /\ p[2] \in Nat \ {0}
  BY ProcessFacts, PipeFacts
<1>2. p[2] <= forked /\ forked > 0
  BY <1>1 DEF ShellInv, ChildInv, TypeOK, ShellTypeOK
<1>3. made = count[lines] - 1
  BY <1>2 DEF ShellInv, LineInv
<1>4. p[2] \in 1 .. made
  <2>1. p[2] < count[lines] /\ lines \in 1 .. MaxLines /\ count[lines] \in Int
    BY <1>1, ProcessFacts DEF ShellInv, TypeOK, ShellTypeOK
  <2> QED BY <1>1, <1>3, <2>1
<1>5. <<p, "read">> \in ends[TheShell]
  BY <1>1, <1>4 DEF ShellInv, EndsInv
<1> QED BY <1>5, ProcessFacts DEF Readers

LEMMA NeighbourStep == ASSUME ShellInv, Next PROVE NeighbourInv'
<1> SUFFICES ASSUME NEW p \in Children
             PROVE  /\ child'[p] = "eof" => p[2] > 1
                    /\ child'[p] = "sigpipe" =>
                         /\ p \in Pipes
                         /\ p[1] = lines' /\ spc' = "pipe" => child'[After(p)] # "none"
  BY DEF NeighbourInv
<1>0. /\ child[p] = "eof" => p[2] > 1
      /\ child[p] = "sigpipe" =>
           /\ p \in Pipes
           /\ p[1] = lines /\ spc = "pipe" => child[After(p)] # "none"
  BY DEF ShellInv, NeighbourInv
<1>1. ASSUME child' = child, lines' = lines, spc' = "pipe" => spc = "pipe"
      PROVE  /\ child'[p] = "eof" => p[2] > 1
             /\ child'[p] = "sigpipe" =>
                  /\ p \in Pipes
                  /\ p[1] = lines' /\ spc' = "pipe" => child'[After(p)] # "none"
  BY <1>0, <1>1
<1>2. CASE ReadLine
  <2>1. child' = child /\ lines' = lines + 1 /\ lines \in Nat
    BY <1>2 DEF ReadLine, childVars, ShellInv, TypeOK, ShellTypeOK
  <2>2. child[p] # "none" => p[1] # lines'
    <3>1. child[p] # "none" => p[1] <= lines
      BY DEF ShellInv, ChildInv
    <3> QED BY <2>1, <3>1, ProcessFacts
  <2> QED BY <1>0, <2>1, <2>2
<1>3. CASE \/ Exit \/ MakePipe \/ PipeFails \/ ForkFails \/ CloseEnds
           \/ \E s \in Standard : Redirect(s)
           \/ RunBuiltin \/ Restore
  <2>1. child' = child
    BY <1>3, ShellStep
  <2>2. lines' = lines /\ (spc' = "pipe" => spc = "pipe")
    BY <1>3 DEF Exit, MakePipe, PipeFails, ForkFails, CloseEnds, Redirect, RunBuiltin, Restore,
                Following, Standard
  <2> QED BY <1>1, <2>1, <2>2
<1>4. CASE Fork
  <2>1. /\ UNCHANGED <<spc, lines>>
        /\ child'[p] = child[p] \/ child'[p] = "forked"
    BY <1>4, ForkStep
  <2>2. p \in Pipes /\ child[After(p)] # "none" => child'[After(p)] # "none"
    <3> SUFFICES ASSUME p \in Pipes PROVE child[After(p)] # "none" => child'[After(p)] # "none"
      OBVIOUS
    <3>1. After(p) \in Children
      BY PipeFacts
    <3> QED BY <1>4, <3>1, ForkStep
  <2> QED BY <1>0, <2>1, <2>2
<1>5. CASE Wait
  <2>1. lines' = lines /\ spc' # "pipe" /\ (child'[p] = child[p] \/ child'[p] = "reaped")
    BY <1>5, WaitStep
  <2> QED BY <1>0, <2>1
<1>6. ASSUME NEW q \in Children, ChildRuns(q)
      PROVE  /\ child'[p] = "eof" => p[2] > 1
             /\ child'[p] = "sigpipe" =>
                  /\ p \in Pipes
                  /\ p[1] = lines' /\ spc' = "pipe" => child'[After(p)] # "none"
  <2>1. UNCHANGED <<spc, lines>>
    BY <1>6, ChildStep
  <2>2. \A r \in Children : child[r] # "none" => child'[r] # "none"
    BY <1>6, ChildStep DEF Running, Dead
  <2>3. q # p => child'[p] = child[p]
    BY <1>6, ChildStep
  <2>4. CASE q # p
    BY <1>0, <2>1, <2>2, <2>3, <2>4, PipeFacts
  <2>5. CASE q = p
    <3>1. child'[p] = "eof" => p[2] > 1
      BY <1>6, <2>5, EofCause
    <3>2. child'[p] = "sigpipe" => p \in Pipes /\ ~(p[1] = lines /\ spc = "pipe")
      BY <1>6, <2>5, SigpipeCause, ShellReads DEF Running
    <3> QED BY <2>1, <3>1, <3>2
  <2> QED BY <2>4, <2>5
<1> QED BY <1>2, <1>3, <1>4, <1>5, <1>6 DEF Next, Runs, ShellRuns

\* A neighbour that can be blamed stays so, if it is not forked only now.
LEMMA BlameStep ==
  ASSUME ShellInv, Next, NEW q \in Children, NEW d \in {"in", "out"},
         child[q] \notin Alive \/ std[q][d] = File,
         Fork => q # <<lines, forked'>>
  PROVE  child'[q] \notin Alive \/ std'[q][d] = File
<1>1. CASE \/ ReadLine \/ Exit \/ MakePipe \/ PipeFails \/ ForkFails \/ CloseEnds
           \/ \E s \in Standard : Redirect(s)
           \/ RunBuiltin \/ Restore
  BY <1>1, ShellStep
<1>2. CASE Fork
  BY <1>2, ForkStep
<1>3. CASE Wait
  BY <1>3, WaitStep DEF Alive, Running
<1>4. ASSUME NEW r \in Children, ChildRuns(r) PROVE child'[q] \notin Alive \/ std'[q][d] = File
  <2>1. CASE r # q
    BY <1>4, <2>1, ChildStep, ProcessFacts
  <2>2. CASE r = q
    <3>1. std[q][d] = File
      BY <1>4, <2>2, ChildStep
    <3>2. child[q] # "forked"
      BY <3>1, PlaceFacts DEF ShellInv, StdInv, AllOriginal, Standard
    <3> QED BY <1>4, <2>2, <3>1, <3>2, RunningStep
  <2> QED BY <2>1, <2>2
<1> QED BY <1>1, <1>2, <1>3, <1>4 DEF Next, Runs, ShellRuns

\* A step after which p has seen the end of a pipe is its own, or p had seen it.
LEMMA SeenBefore ==
  ASSUME ShellInv, Next, NEW p \in Children, child'[p] \in {"eof", "sigpipe"}
  PROVE  child[p] = child'[p] \/ ChildRuns(p)
<1>1. CASE \/ ReadLine \/ Exit \/ MakePipe \/ PipeFails \/ ForkFails \/ CloseEnds
           \/ \E s \in Standard : Redirect(s)
           \/ RunBuiltin \/ Restore
  BY <1>1, ShellStep
<1>2. CASE Fork \/ Wait
  BY <1>2, ForkStep, WaitStep
<1>3. ASSUME NEW r \in Children, ChildRuns(r) PROVE child[p] = child'[p] \/ ChildRuns(p)
  BY <1>3, ChildStep
<1> QED BY <1>1, <1>2, <1>3 DEF Next, Runs, ShellRuns

LEMMA PipesEndStep == ASSUME ShellInv, Next PROVE PipesEndWithCommands'
<1> SUFFICES ASSUME NEW p \in Children
             PROVE  /\ child'[p] = "eof" => \/ child'[Before(p)] \notin Alive
                                            \/ std'[Before(p)]["out"] = File
                    /\ child'[p] = "sigpipe" => \/ child'[After(p)] \notin Alive
                                                \/ std'[After(p)]["in"] = File
  BY DEF PipesEndWithCommands
<1>1. ASSUME child'[p] = "eof"
      PROVE  child'[Before(p)] \notin Alive \/ std'[Before(p)]["out"] = File
  <2> DEFINE q == Before(p)
  <2>1. p[2] > 1 /\ (child[q] \notin Alive \/ std[q]["out"] = File)
    <3>1. CASE child[p] = "eof"
      BY <3>1 DEF ShellInv, NeighbourInv, PipesEndWithCommands
    <3>2. CASE ChildRuns(p)
      <4>1. p[2] > 1 /\ Writers(q) = {} /\ child[p] = "filter"
        BY <1>1, <3>2, EofCause
      <4>2. q \in Children /\ q[2] < count[q[1]]
        BY <4>1, PipeFacts, ProcessFacts DEF ShellInv, ChildInv, TypeOK, ShellTypeOK
      <4> QED BY <4>1, <4>2, WriterGone
    <3> QED BY <1>1, <3>1, <3>2, SeenBefore
  <2>2. q \in Children /\ q[1] = p[1] /\ q[2] = p[2] - 1
    BY <2>1, PipeFacts
  <2>3. Fork => q # <<lines, forked'>>
    <3> SUFFICES ASSUME Fork, q = <<lines, forked'>> PROVE FALSE
      OBVIOUS
    <3>1. q[1] = lines /\ q[2] = forked + 1 /\ child'[q] = "forked" /\ child[q] = "none"
      BY <2>2, ForkStep
    <3>2. child[p] # "none"
      BY <1>1, SeenBefore, ChildStep DEF Alive, Running
    <3>3. p[2] <= forked
      BY <2>2, <3>1, <3>2 DEF ShellInv, ChildInv
    <3> QED BY <2>2, <3>1, <3>3, ProcessFacts DEF ShellInv, TypeOK, ShellTypeOK
  <2> QED BY <2>1, <2>2, <2>3, BlameStep
<1>2. ASSUME child'[p] = "sigpipe"
      PROVE  child'[After(p)] \notin Alive \/ std'[After(p)]["in"] = File
  <2> DEFINE q == After(p)
  <2>1. /\ p \in Pipes
        /\ child[q] \notin Alive \/ std[q]["in"] = File
        /\ p[1] = lines /\ spc = "pipe" => child[q] # "none"
    <3>1. CASE child[p] = "sigpipe"
      <4>1. p \in Pipes /\ (p[1] = lines /\ spc = "pipe" => child[q] # "none")
        BY <3>1 DEF ShellInv, NeighbourInv
      <4>2. child[q] \notin Alive \/ std[q]["in"] = File
        BY <3>1 DEF ShellInv, PipesEndWithCommands
      <4> QED BY <4>1, <4>2
    <3>2. CASE ChildRuns(p)
      <4>1. p \in Pipes /\ p[2] < count[p[1]] /\ Readers(p) = {} /\ child[p] # "none"
        BY <1>2, <3>2, SigpipeCause DEF Running
      <4> QED BY <4>1, ReaderGone, ShellReads
    <3> QED BY <1>2, <3>1, <3>2, SeenBefore
  <2>2. q \in Children /\ q[1] = p[1]
    BY <2>1, PipeFacts
  <2>3. Fork => q # <<lines, forked'>>
    BY <2>1, <2>2, ForkStep
  <2> QED BY <2>1, <2>2, <2>3, BlameStep
<1> QED BY <1>1, <1>2

-----------------------------------------------------------------------------
(* The theorems *)

LEMMA StepInv == ASSUME ShellInv, [Next]_vars PROVE ShellInv'
<1>1. CASE Next
  <2>1. TypeOK' /\ FiniteInv'
    BY <1>1, TypeStep
  <2> QED BY <1>1, <2>1, LineStep, ChildInvStep, RedirectStep, StdStep, EndsStep, NeighbourStep,
             PipesEndStep DEF ShellInv
<1>2. CASE UNCHANGED vars
  BY <1>2 DEF vars, lineVars, childVars, ShellInv, TypeOK, ShellTypeOK, ProcessTypeOK, Free, Saved,
              FiniteInv, LineInv, ChildInv, RedirectInv, StdRestored, StdInv, EndsInv, NeighbourInv,
              PipesEndWithCommands
<1> QED BY <1>1, <1>2

THEOREM ShellInvariant == Spec => []ShellInv
BY InitInv, StepInv, PTL DEF Spec

\* Whatever fails, the shell never exceeds its limit of descriptors, and a
\* process that has ended holds none (myshell.c, executor.c).
THEOREM TypeCorrect == Spec => []TypeOK
<1>1. ShellInv => TypeOK
  BY DEF ShellInv
<1> QED BY <1>1, ShellInvariant, PTL

\* At each prompt and each fork the shell has its own standard descriptors, no
\* matter which dup() or open() of a builtin failed (myshell.c, lines 91-161).
THEOREM DescriptorsRestored == Spec => []StdRestored
<1>1. ShellInv => StdRestored
  BY DEF ShellInv
<1> QED BY <1>1, ShellInvariant, PTL

\* At the prompt only a failed pipe() has left ends of pipes open in the
\* shell, and only a failed fork() children that nobody waits for (executor.c,
\* lines 274-301 and 411-421).
THEOREM LeftoversAccountedFor == Spec => []LeftoversAccounted
<1>1. ShellInv => EndsAccounted
  BY DEF ShellInv, EndsInv, EndsAccounted
<1>2. ShellInv => ChildrenAccounted
  BY DEF ShellInv, ChildInv, ChildrenAccounted
<1> QED BY <1>1, <1>2, ShellInvariant, PTL DEF LeftoversAccounted

\* No command sees the end of its input or gets SIGPIPE but for what its
\* neighbour did: no copy of an end is closed too early (executor.c, lines
\* 304-384 and 411-415).
THEOREM PipesEndCorrect == Spec => []PipesEndWithCommands
<1>1. ShellInv => PipesEndWithCommands
  BY DEF ShellInv
<1> QED BY <1>1, ShellInvariant, PTL
=============================================================================
