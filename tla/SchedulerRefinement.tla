------------------------ MODULE SchedulerRefinement ------------------------
(***************************************************************************)
(* What the abstractions of Scheduler stand for: it implements             *)
(* TaskLifecycle, and its set of queued tasks, with their tickets, stands  *)
(* for the list of scheduler_queue.c, used as TaskQueue promises.          *)
(***************************************************************************)
EXTENDS SchedulerProofs, SchedulerList, SequenceTheorems

\* What TaskLifecycle calls present.
Connected == {c \in Clients : wpc[c] # "gone"}

\* Only demos print lines that are counted.
ShellsSilent == \A t \in Tasks : IsShell(t) => lines[t] = 0

LifecycleInv == BaseInv /\ OutputInOrder /\ ShellsSilent

LEMMA SilentStep == BaseInv /\ ShellsSilent /\ [Next]_vars => ShellsSilent'
<1> SUFFICES ASSUME BaseInv, ShellsSilent, [Next]_vars PROVE ShellsSilent'
  OBVIOUS
<1>1. CASE SchedulerInit
  BY <1>1 DEF SchedulerInit, ShellsSilent, IsShell, taskVars
<1>2. CASE PeekTask
  BY <1>2 DEF PeekTask, ShellsSilent, IsShell, taskVars
<1>3. CASE PeekEmpty
  BY <1>3 DEF PeekEmpty, ShellsSilent, IsShell, taskVars
<1>4. CASE DequeueTask
  BY <1>4 DEF DequeueTask, ShellsSilent, IsShell, taskVars
<1>5. CASE DequeueGone
  BY <1>5 DEF DequeueGone, ShellsSilent, IsShell, taskVars
<1>6. CASE DequeueRecycled
  BY <1>6 DEF DequeueRecycled, ShellsSilent, IsShell, taskVars
<1>7. CASE SetCurrent
  BY <1>7 DEF SetCurrent, ShellsSilent, IsShell, taskVars
<1>8. CASE ClearPreempt
  BY <1>8 DEF ClearPreempt, ShellsSilent, IsShell, taskVars
<1>9. CASE RunShell
  BY <1>9 DEF RunShell, ShellsSilent, IsShell, taskVars
<1>10. CASE ShellForkFails
  BY <1>10 DEF ShellForkFails, ShellsSilent, IsShell
<1>11. CASE RunSlice
  BY <1>11 DEF RunSlice, ShellsSilent, IsShell, BaseInv, TurnInv, Loop
<1>12. CASE UpdateTask
  BY <1>12 DEF UpdateTask, ShellsSilent, IsShell
<1>13. CASE CheckPreempt
  BY <1>13 DEF CheckPreempt, ShellsSilent, IsShell, taskVars
<1>14. CASE EndTask
  BY <1>14 DEF EndTask, ShellsSilent, IsShell
<1>15. CASE RequeueDemo
  BY <1>15 DEF RequeueDemo, ShellsSilent, IsShell
<1>16. CASE ClearCurrent
  BY <1>16 DEF ClearCurrent, ShellsSilent, IsShell, taskVars
<1>17. CASE ClearPreemptAgain
  BY <1>17 DEF ClearPreemptAgain, ShellsSilent, IsShell, taskVars
<1>18. ASSUME NEW c \in Clients, NEW b \in Commands, Receive(c, b) PROVE ShellsSilent'
  BY <1>18, TasksFacts DEF Receive, ShellsSilent, IsShell, BaseInv, SubmitInv
<1>19. ASSUME NEW c \in Clients, Enqueue(c) PROVE ShellsSilent'
  BY <1>19 DEF Enqueue, ShellsSilent, IsShell, taskVars
<1>20. ASSUME NEW c \in Clients, Notify(c) PROVE ShellsSilent'
  BY <1>20 DEF Notify, ShellsSilent, IsShell, taskVars
<1>21. ASSUME NEW c \in Clients, Disconnect(c) PROVE ShellsSilent'
  BY <1>21 DEF Disconnect, ShellsSilent, IsShell
<1>22. CASE UNCHANGED vars
  BY <1>22 DEF ShellsSilent, IsShell, vars, taskVars
<1> QED BY <1>1, <1>2, <1>3, <1>4, <1>5, <1>6, <1>7, <1>8, <1>9, <1>10, <1>11,
           <1>12, <1>13, <1>14, <1>15, <1>16, <1>17, <1>18, <1>19, <1>20, <1>21,
           <1>22 DEF Next, SchedulerStep, Submit

LEMMA SilentInvariant == Spec => []ShellsSilent
<1>1. Init => ShellsSilent
  BY DEF Init, ShellsSilent
<1> QED
  BY <1>1, BaseInvariant, SilentStep, PTL DEF Spec

-----------------------------------------------------------------------------
\* A step that moves no task in its life.
Unmoved ==
  /\ UNCHANGED <<status, owner, burst, lines>>
  /\ \A t \in Tasks : status[t] = "live" => (AtScheduler(t)' <=> AtScheduler(t))
  /\ \A c \in Clients : wpc'[c] = "gone" <=> wpc[c] = "gone"

\* A step that gives task u to the scheduler thread.
Started(u) ==
  /\ u \in Tasks /\ status[u] = "live"
  /\ \A t \in Tasks : ~AtScheduler(t)
  /\ \A t \in Tasks : AtScheduler(t)' <=> t = u
  /\ UNCHANGED <<status, owner, burst, lines, wpc>>

LEMMA PhaseDomain ==
  /\ DOMAIN Phase = Tasks /\ DOMAIN Phase' = Tasks
  /\ Phase = [t \in Tasks |-> Phase[t]]
  /\ Phase' = [t \in Tasks |-> Phase'[t]]
BY DEF Phase

LEMMA PhaseRunning ==
  \A t \in Tasks : status[t] = "live" /\ AtScheduler(t) => Phase[t] = "running"
BY DEF Phase

LEMMA UnmovedStep == Unmoved => UNCHANGED Lifecycle!vars
<1> SUFFICES ASSUME Unmoved PROVE UNCHANGED Lifecycle!vars
  OBVIOUS
<1>1. \A t \in Tasks : Phase'[t] = Phase[t]
  BY DEF Unmoved, Phase
<1>2. Phase' = Phase
  BY <1>1, PhaseDomain
<1>3. Connected' = Connected
  BY DEF Unmoved, Connected
<1> QED
  BY <1>2, <1>3 DEF Unmoved, Lifecycle!vars

LEMMA StartStep ==
  ASSUME BaseInv, NEW u, Started(u)
  PROVE  Lifecycle!Next
<1>1. u \in Tasks /\ Phase[u] = "waiting" /\ \A t \in Tasks : Phase[t] # "running"
  BY DEF Started, Phase, BaseInv, TypeOK, TaskTypeOK, Statuses
<1>2. \A t \in Tasks : Phase'[t] = IF t = u THEN "running" ELSE Phase[t]
  BY DEF Started, Phase
<1>3. Phase' = [Phase EXCEPT ![u] = "running"]
  BY <1>1, <1>2, PhaseDomain
<1>4. Lifecycle!Start(u)
  BY <1>1, <1>3 DEF Started, Lifecycle!Start
<1> QED
  BY <1>1, <1>4 DEF Lifecycle!Next

\* A demo that has a line left to print owes at least that line.
LEMMA LinesLeft ==
  ASSUME LifecycleInv, pc \in {"slice", "requeue"}
  PROVE  lines[sel] <= burst[sel]
<1>1. sel \in Tasks /\ ~IsShell(sel) /\ status[sel] = "live"
  BY DEF LifecycleInv, BaseInv, TurnInv, Loop, Holding, OnePlace, AtScheduler
<1>2. burst[sel] \in Nat /\ remaining[sel] \in Nat
  BY <1>1, CommandsFacts DEF LifecycleInv, BaseInv, TypeOK, TaskTypeOK,
     RemainingOK, IsShell
<1>3. lines[sel] = burst[sel] - remaining[sel]
  BY <1>1, <1>2 DEF LifecycleInv, OutputInOrder
<1> QED
  BY <1>2, <1>3

\* A task at its end has printed all its lines.
LEMMA LinesDone ==
  ASSUME LifecycleInv, pc = "end"
  PROVE  lines[sel] = burst[sel] + 1
<1>1. sel \in Tasks /\ status[sel] = "live"
  BY DEF LifecycleInv, BaseInv, TurnInv, Holding, OnePlace, AtScheduler
<1>2. CASE IsShell(sel)
  BY <1>1, <1>2 DEF LifecycleInv, ShellsSilent, IsShell, ShellBurst
<1>3. CASE ~IsShell(sel)
  <2>1. burst[sel] \in Nat /\ remaining[sel] = 0
    BY <1>1, <1>3, CommandsFacts DEF LifecycleInv, BaseInv, TypeOK, TaskTypeOK,
       TurnInv, IsShell
  <2> QED BY <1>1, <1>3, <2>1 DEF LifecycleInv, OutputInOrder
<1> QED BY <1>2, <1>3

LEMMA LifecycleStep ==
  LifecycleInv /\ [Next]_vars => [Lifecycle!Next]_(Lifecycle!vars)
<1> SUFFICES ASSUME LifecycleInv, [Next]_vars PROVE [Lifecycle!Next]_(Lifecycle!vars)
  OBVIOUS
<1>0. BaseInv
  BY DEF LifecycleInv
<1>1. CASE SchedulerInit
  <2>1. Unmoved
    BY <1>0, <1>1 DEF SchedulerInit, Unmoved, AtScheduler, Holding, taskVars,
       workerVars
  <2> QED BY <2>1, UnmovedStep
<1>2. CASE PeekTask
  <2>1. Unmoved
    BY <1>0, <1>2 DEF PeekTask, Unmoved, AtScheduler, Holding, taskVars,
       workerVars
  <2> QED BY <2>1, UnmovedStep
<1>3. CASE PeekEmpty
  <2>1. Unmoved
    BY <1>0, <1>3 DEF PeekEmpty, Unmoved, AtScheduler, Holding, taskVars,
       workerVars
  <2> QED BY <2>1, UnmovedStep
<1>4. CASE DequeueTask
  <2>1. Started(sel)
    BY <1>0, <1>4 DEF DequeueTask, Started, BaseInv, TypeOK, QueueTypeOK,
       OnePlace, AtScheduler, Holding, taskVars, workerVars
  <2> QED BY <1>0, <1>0, <2>1, StartStep
<1>5. CASE DequeueGone
  <2>1. Unmoved
    BY <1>0, <1>5 DEF DequeueGone, Unmoved, AtScheduler, Holding, taskVars,
       workerVars
  <2> QED BY <2>1, UnmovedStep
<1>6. CASE DequeueRecycled
  <2>1. PICK u \in queue : sel' = u
    BY <1>0, <1>6 DEF DequeueRecycled
  <2>2. Started(u)
    BY <1>0, <1>6, <2>1 DEF DequeueRecycled, Started, BaseInv, TypeOK,
       QueueTypeOK, OnePlace, AtScheduler, Holding, taskVars, workerVars
  <2> QED BY <1>0, <1>0, <2>2, StartStep
<1>7. CASE SetCurrent
  <2>1. Unmoved
    BY <1>0, <1>7 DEF SetCurrent, Unmoved, AtScheduler, Holding, taskVars,
       turnVars, workerVars
  <2> QED BY <2>1, UnmovedStep
<1>8. CASE ClearPreempt
  <2>1. Unmoved
    BY <1>0, <1>8 DEF ClearPreempt, Unmoved, AtScheduler, Holding, taskVars,
       workerVars
  <2> QED BY <2>1, UnmovedStep
<1>9. CASE RunShell
  <2>1. Unmoved
    BY <1>0, <1>9 DEF RunShell, Unmoved, AtScheduler, Holding, taskVars,
       turnVars, workerVars
  <2> QED BY <2>1, UnmovedStep
<1>10. CASE ShellForkFails
  <2>1. sel \in Tasks /\ status[sel] = "live" /\ AtScheduler(sel) /\ IsShell(sel)
    BY <1>0, <1>10 DEF ShellForkFails, BaseInv, TurnInv, OnePlace, AtScheduler,
       Holding
  <2>2. \A t \in Tasks : Phase'[t] = IF t = sel THEN "lost" ELSE Phase[t]
    BY <1>0, <1>10, <2>1 DEF ShellForkFails, Phase, AtScheduler, BaseInv,
       TypeOK, TaskTypeOK
  <2>3. Phase[sel] = "running" /\ Phase' = [Phase EXCEPT ![sel] = "lost"]
    BY <2>1, <2>2, PhaseDomain, PhaseRunning
  <2>4. Lifecycle!Lose(sel)
    BY <1>0, <1>10, <2>1, <2>3 DEF ShellForkFails, Lifecycle!Lose, IsShell,
       ShellBurst, workerVars
  <2> QED BY <2>1, <2>4 DEF Lifecycle!Next
<1>11. CASE RunSlice
  <2>1. sel \in Tasks /\ status[sel] = "live" /\ AtScheduler(sel) /\ ~IsShell(sel)
    BY <1>0, <1>11 DEF RunSlice, BaseInv, TurnInv, OnePlace, AtScheduler,
       Holding, Loop
  <2>2. lines[sel] <= burst[sel]
    BY <1>0, <1>11, <2>1, LinesLeft DEF RunSlice
  <2>3. Phase' = Phase
    BY <1>0, <1>11, <2>1 DEF RunSlice, Phase
  <2>4. Lifecycle!Send(sel)
    BY <1>0, <1>11, <2>1, <2>2, <2>3, PhaseRunning DEF RunSlice, Lifecycle!Send,
       workerVars
  <2> QED BY <2>1, <2>4 DEF Lifecycle!Next
<1>12. CASE UpdateTask
  <2>1. Unmoved
    BY <1>0, <1>12 DEF UpdateTask, Unmoved, AtScheduler, Holding, turnVars,
       workerVars
  <2> QED BY <2>1, UnmovedStep
<1>13. CASE CheckPreempt
  <2>1. Unmoved
    BY <1>0, <1>13 DEF CheckPreempt, Unmoved, AtScheduler, Holding, taskVars,
       workerVars
  <2> QED BY <2>1, UnmovedStep
<1>14. CASE EndTask
  <2>1. sel \in Tasks /\ status[sel] = "live" /\ AtScheduler(sel)
    BY <1>0, <1>14 DEF EndTask, BaseInv, TurnInv, OnePlace, AtScheduler, Holding
  <2>2. lines[sel] = burst[sel] + 1
    BY <1>0, <1>14, <2>1, LinesDone DEF EndTask
  <2>3. \A t \in Tasks : Phase'[t] = IF t = sel THEN "ended" ELSE Phase[t]
    BY <1>0, <1>14, <2>1 DEF EndTask, Phase, AtScheduler, Holding, BaseInv,
       TypeOK, TaskTypeOK
  <2>4. Phase[sel] = "running" /\ Phase' = [Phase EXCEPT ![sel] = "ended"]
    BY <2>1, <2>3, PhaseDomain, PhaseRunning
  <2>5. Lifecycle!Complete(sel)
    BY <1>0, <1>14, <2>2, <2>4 DEF EndTask, Lifecycle!Complete, workerVars
  <2> QED BY <2>1, <2>5 DEF Lifecycle!Next
<1>15. CASE RequeueDemo
  <2>1. sel \in Tasks /\ status[sel] = "live" /\ AtScheduler(sel) /\ ~IsShell(sel)
    BY <1>0, <1>15 DEF RequeueDemo, BaseInv, TurnInv, OnePlace, AtScheduler,
       Holding, Loop
  <2>2. lines[sel] <= burst[sel]
    BY <1>0, <1>15, <2>1, LinesLeft DEF RequeueDemo
  <2>3. \A t \in Tasks : Phase'[t] = IF t = sel THEN "waiting" ELSE Phase[t]
    BY <1>0, <1>15, <2>1 DEF RequeueDemo, Phase, AtScheduler, Holding
  <2>4. Phase[sel] = "running" /\ Phase' = [Phase EXCEPT ![sel] = "waiting"]
    BY <2>1, <2>3, PhaseDomain, PhaseRunning
  <2>5. Lifecycle!Yield(sel)
    BY <1>0, <1>15, <2>2, <2>4 DEF RequeueDemo, Lifecycle!Yield, workerVars
  <2> QED BY <2>1, <2>5 DEF Lifecycle!Next
<1>16. CASE ClearCurrent
  <2>1. Unmoved
    BY <1>0, <1>16 DEF ClearCurrent, Unmoved, AtScheduler, Holding, taskVars,
       workerVars
  <2> QED BY <2>1, UnmovedStep
<1>17. CASE ClearPreemptAgain
  <2>1. Unmoved
    BY <1>0, <1>17 DEF ClearPreemptAgain, Unmoved, AtScheduler, Holding,
       taskVars, workerVars
  <2> QED BY <2>1, UnmovedStep
<1>18. ASSUME NEW c \in Clients, NEW b \in Commands, Receive(c, b) PROVE
   [Lifecycle!Next]_(Lifecycle!vars)
  <2>1. nextTask \in Tasks /\ status[nextTask] = "none" /\ c \in Connected
    BY <1>0, <1>18, TasksFacts DEF Receive, BaseInv, SubmitInv, Connected
  <2>2. ~AtScheduler(nextTask)
    BY <1>0, <1>0, <2>1 DEF BaseInv, OnePlace
  <2>3. \A t \in Tasks : Phase'[t] = IF t = nextTask THEN "waiting" ELSE Phase[t]
    BY <1>0, <1>18, <2>1, <2>2 DEF Receive, Phase, AtScheduler, BaseInv, TypeOK,
       TaskTypeOK
  <2>4. Phase[nextTask] = "unborn" /\ Phase' = [Phase EXCEPT ![nextTask] = "waiting"]
    BY <2>1, <2>3 DEF Phase
  <2>5. Connected' = Connected
    BY <1>0, <1>18 DEF Receive, Connected
  <2>6. Lifecycle!Submit(nextTask, c, b)
    BY <1>0, <1>18, <2>1, <2>4, <2>5 DEF Receive, Lifecycle!Submit
  <2> QED BY <2>1, <2>6 DEF Lifecycle!Next
<1>19. ASSUME NEW c \in Clients, Enqueue(c) PROVE [Lifecycle!Next]_(Lifecycle!vars)
  <2>1. Unmoved
    BY <1>0, <1>19 DEF Enqueue, Unmoved, AtScheduler, taskVars, turnVars
  <2> QED BY <2>1, UnmovedStep
<1>20. ASSUME NEW c \in Clients, Notify(c) PROVE [Lifecycle!Next]_(Lifecycle!vars)
  <2>1. Unmoved
    BY <1>0, <1>20 DEF Notify, Unmoved, AtScheduler, taskVars, turnVars
  <2> QED BY <2>1, UnmovedStep
<1>21. ASSUME NEW c \in Clients, Disconnect(c) PROVE [Lifecycle!Next]_(Lifecycle!vars)
  <2>1. \A t \in Tasks : t \in QueuedOf(c) <=> Phase[t] = "waiting" /\ owner[t] = c
    <3>1. \A t \in Tasks : owner[t] = c => ~ \E d \in Clients : AtWorker(t, d)
      <4>1. \A t \in Tasks, d \in Clients : AtWorker(t, d) => owner[t] = d
        BY <1>0, <1>0 DEF BaseInv, OnePlace
      <4>2. \A t : ~AtWorker(t, c)
        BY <1>0, <1>21 DEF Disconnect, AtWorker
      <4> QED BY <4>1, <4>2
    <3> QED BY <1>0, <1>0, <3>1 DEF QueuedOf, Phase, BaseInv, OnePlace, TypeOK,
               TaskTypeOK, Statuses
  <2>2. \A t \in Tasks : AtScheduler(t)' <=> AtScheduler(t)
    BY <1>0, <1>21 DEF Disconnect, AtScheduler, turnVars
  <2>3. \A t \in Tasks : Phase'[t] = IF Phase[t] = "waiting" /\ owner[t] = c
                                     THEN "cancelled" ELSE Phase[t]
    BY <1>0, <1>21, <2>1, <2>2 DEF Disconnect, Phase
  <2>4. Phase' = [t \in Tasks |-> IF Phase[t] = "waiting" /\ owner[t] = c
                                     THEN "cancelled" ELSE Phase[t]]
    BY <2>3, PhaseDomain
  <2>5. c \in Connected /\ Connected' = Connected \ {c}
    BY <1>0, <1>21 DEF Disconnect, Connected, BaseInv, TypeOK, WorkerTypeOK
  <2>6. Lifecycle!Leave(c)
    BY <1>0, <1>21, <2>4, <2>5 DEF Disconnect, Lifecycle!Leave, Connected
  <2> QED BY <2>6 DEF Lifecycle!Next
<1>22. CASE UNCHANGED vars
  <2>1. Unmoved
    BY <1>0, <1>22 DEF vars, Unmoved, AtScheduler, taskVars, turnVars,
       workerVars
  <2> QED BY <2>1, UnmovedStep
<1> QED BY <1>0, <1>1, <1>2, <1>3, <1>4, <1>5, <1>6, <1>7, <1>8, <1>9, <1>10,
           <1>11, <1>12, <1>13, <1>14, <1>15, <1>16, <1>17, <1>18, <1>19, <1>20,
           <1>21, <1>22 DEF Next, SchedulerStep, Submit

-----------------------------------------------------------------------------
\* Each task lives the life TaskLifecycle describes: threads, queue and flags
\* keep what the server promises its clients.
THEOREM LifecycleImplemented == Spec => ImplementsLifecycle
<1>1. Init => Lifecycle!Init
  <2>1. ASSUME Init PROVE Phase = [t \in Tasks |-> "unborn"]
    BY <2>1 DEF Init, Phase
  <2>2. ASSUME Init PROVE Connected = Clients
    BY <2>2 DEF Init, Connected
  <2> QED
    BY <2>1, <2>2 DEF Init, Lifecycle!Init
<1>2. LifecycleInv /\ [Next]_vars => [Lifecycle!Next]_(Lifecycle!vars)
  BY LifecycleStep
<1>3. Spec => []LifecycleInv
  BY BaseInvariant, OutputCorrect, SilentInvariant, PTL DEF LifecycleInv
<1> QED
  BY <1>1, <1>2, <1>3, PTL DEF Spec, ImplementsLifecycle, Lifecycle!Spec

-----------------------------------------------------------------------------
(* What unlinking leaves of a sequence *)

More(r, t, S) == IF t \in S THEN r ELSE Append(r, t)

\* w[n] is what is left of the first n elements of s, for each n up to k.
Leaves(w, s, S, k) ==
  /\ w = [n \in 0 .. k |-> w[n]]
  /\ w[0] = <<>>
  /\ \A n \in 1 .. k : w[n] = More(w[n - 1], s[n], S)

LEMMA LeavesExist ==
  ASSUME NEW s, NEW S, NEW N \in Nat
  PROVE  \E w : Leaves(w, s, S, N)
<1> DEFINE bad == {k \in 0 .. N : ~ \E w : Leaves(w, s, S, k)}
<1> SUFFICES ASSUME N \in bad PROVE FALSE
  <2>1. N \in 0 .. N
    OBVIOUS
  <2> QED BY <2>1
<1>1. bad \subseteq Nat /\ bad # {}
  OBVIOUS
<1>2. PICK m \in bad : \A n \in bad : m <= n
  <2> HIDE DEF bad
  <2> QED BY <1>1, LeastNumber
<1>3. m \in 0 .. N /\ ~ \E w : Leaves(w, s, S, m)
  OBVIOUS
<1>4. m # 0
  <2>1. Leaves([n \in 0 .. 0 |-> <<>>], s, S, 0)
    BY DEF Leaves
  <2> QED BY <1>3, <2>1
<1>5. m - 1 \notin bad /\ m - 1 \in 0 .. N
  BY <1>2, <1>3, <1>4
<1>6. PICK w : Leaves(w, s, S, m - 1)
  BY <1>5
<1> DEFINE v == [n \in 0 .. m |-> IF n = m THEN More(w[m - 1], s[m], S) ELSE w[n]]
<1>7. Leaves(v, s, S, m)
  <2>1. v = [n \in 0 .. m |-> v[n]] /\ v[0] = <<>>
    BY <1>3, <1>4, <1>6 DEF Leaves
  <2>2. ASSUME NEW n \in 1 .. m PROVE v[n] = More(v[n - 1], s[n], S)
    <3>1. CASE n = m
      <4>1. v[n] = More(w[m - 1], s[m], S) /\ v[n - 1] = w[m - 1]
        BY <1>3, <1>4, <3>1
      <4> QED BY <3>1, <4>1
    <3>2. CASE n # m
      <4>1. n \in 1 .. m - 1 /\ v[n] = w[n] /\ v[n - 1] = w[n - 1]
        BY <1>3, <3>2
      <4> QED BY <1>6, <4>1 DEF Leaves
    <3> QED BY <3>1, <3>2
  <2> HIDE DEF v
  <2> QED BY <2>1, <2>2 DEF Leaves
<1> QED BY <1>3, <1>7

LEMMA WithoutLeaves ==
  ASSUME NEW T, NEW s \in Seq(T), NEW S
  PROVE  \E w : Leaves(w, s, S, Len(s)) /\ Without(s, S) = w[Len(s)]
<1> DEFINE N == Len(s)
           Step(w) == [n \in 0 .. N |->
                         IF n = 0 THEN <<>>
                         ELSE IF s[n] \in S THEN w[n - 1] ELSE Append(w[n - 1], s[n])]
           rest == CHOOSE w : w = Step(w)
<1>1. N \in Nat
  OBVIOUS
<1>2. Without(s, S) = rest[N]
  BY DEF Without
<1> HIDE DEF N
<1>3. PICK v : Leaves(v, s, S, N)
  BY <1>1, LeavesExist
<1>4. v = Step(v)
  <2>1. \A n \in 0 .. N : v[n] = Step(v)[n]
    <3>1. TAKE n \in 0 .. N
    <3>2. CASE n = 0
      BY <1>3, <3>2 DEF Leaves
    <3>3. CASE n # 0
      <4>1. n \in 1 .. N
        BY <1>1, <3>3
      <4> QED BY <1>3, <3>3, <4>1 DEF Leaves, More
    <3> QED BY <3>2, <3>3
  <2> QED BY <1>3, <2>1 DEF Leaves
<1> HIDE DEF Step
<1>5. rest = Step(rest)
  BY <1>4
<1> HIDE DEF rest
<1>6. Leaves(rest, s, S, N)
  <2>1. rest = [n \in 0 .. N |-> rest[n]] /\ rest[0] = <<>>
    <3>1. DOMAIN rest = 0 .. N /\ rest = [n \in 0 .. N |-> rest[n]]
      BY <1>5 DEF Step
    <3>2. 0 \in 0 .. N /\ Step(rest)[0] = <<>>
      BY <1>1 DEF Step
    <3> QED BY <1>5, <3>1, <3>2
  <2>2. ASSUME NEW n \in 1 .. N PROVE rest[n] = More(rest[n - 1], s[n], S)
    <3>1. n \in 0 .. N /\ n # 0
      BY <1>1
    <3>2. Step(rest)[n] = More(rest[n - 1], s[n], S)
      BY <3>1 DEF Step, More
    <3> QED BY <1>5, <3>2
  <2> QED BY <2>1, <2>2 DEF Leaves
<1> QED BY <1>2, <1>6 DEF N

\* r is what is left of the first n elements of s, in their order.
KeptFrom(r, s, n, S) ==
  /\ \A i \in DOMAIN r : \E k \in 1 .. n : s[k] = r[i] /\ s[k] \notin S
  /\ \A k \in 1 .. n : s[k] \notin S => \E i \in DOMAIN r : r[i] = s[k]
  /\ \A i, j \in DOMAIN r : i < j => \E k, l \in 1 .. n : k < l /\ s[k] = r[i] /\ s[l] = r[j]

LEMMA OneMoreKept ==
  ASSUME NEW T, NEW s \in Seq(T), NEW S, NEW n \in 1 .. Len(s),
         NEW r \in Seq(T), KeptFrom(r, s, n - 1, S)
  PROVE  More(r, s[n], S) \in Seq(T) /\ KeptFrom(More(r, s[n], S), s, n, S)
<1>1. Len(s) \in Nat /\ s[n] \in T /\ n \in Nat /\ Len(r) \in Nat /\ DOMAIN r = 1 .. Len(r)
  OBVIOUS
<1>2. \A k : k \in 1 .. n <=> k \in 1 .. n - 1 \/ k = n
  BY <1>1
<1>3. CASE s[n] \in S
  <2>1. More(r, s[n], S) = r
    BY <1>3 DEF More
  <2> QED BY <1>2, <1>3, <2>1 DEF KeptFrom
<1>4. CASE s[n] \notin S
  <2> DEFINE q == Append(r, s[n])
             L == Len(r)
  <2>1. q \in Seq(T) /\ DOMAIN q = 1 .. L + 1 /\ q[L + 1] = s[n] /\ \A i \in 1 .. L : q[i] = r[i]
    BY <1>1
  <2>2. More(r, s[n], S) = q
    BY <1>4 DEF More
  <2> HIDE DEF q
  <2>3. \A i : i \in DOMAIN q <=> i \in DOMAIN r \/ i = L + 1
    BY <1>1, <2>1
  <2>4. ASSUME NEW i \in DOMAIN q PROVE \E k \in 1 .. n : s[k] = q[i] /\ s[k] \notin S
    BY <1>1, <1>2, <1>4, <2>1, <2>3, SMTT(30) DEF KeptFrom
  <2>5. ASSUME NEW k \in 1 .. n, s[k] \notin S PROVE \E i \in DOMAIN q : q[i] = s[k]
    <3>1. CASE k = n
      BY <2>1, <2>3, <3>1
    <3>2. CASE k \in 1 .. n - 1
      <4>1. PICK i \in DOMAIN r : r[i] = s[k]
        BY <2>5, <3>2 DEF KeptFrom
      <4> QED BY <1>1, <2>1, <2>3, <4>1
    <3> QED BY <1>2, <3>1, <3>2
  <2>6. ASSUME NEW i \in DOMAIN q, NEW j \in DOMAIN q, i < j
        PROVE  \E k, l \in 1 .. n : k < l /\ s[k] = q[i] /\ s[l] = q[j]
    <3>1. i \in DOMAIN r /\ q[i] = r[i]
      BY <1>1, <2>1, <2>3, <2>6
    <3>2. CASE j \in DOMAIN r
      <4>1. PICK k \in 1 .. n - 1, l \in 1 .. n - 1 : k < l /\ s[k] = r[i] /\ s[l] = r[j]
        BY <2>6, <3>1, <3>2 DEF KeptFrom
      <4>2. q[j] = r[j] /\ k \in 1 .. n /\ l \in 1 .. n
        BY <1>1, <1>2, <2>1, <3>2
      <4> QED BY <3>1, <4>1, <4>2
    <3>3. CASE j = L + 1
      <4>1. PICK k \in 1 .. n - 1 : s[k] = r[i]
        BY <3>1 DEF KeptFrom
      <4>2. k \in 1 .. n /\ n \in 1 .. n /\ k < n /\ q[j] = s[n]
        BY <1>1, <2>1, <3>3
      <4> QED BY <3>1, <4>1, <4>2
    <3> QED BY <2>3, <3>2, <3>3
  <2> HIDE DEF L
  <2> QED BY <2>1, <2>2, <2>4, <2>5, <2>6 DEF KeptFrom
<1> QED BY <1>3, <1>4

LEMMA WithoutKeeps ==
  ASSUME NEW T, NEW s \in Seq(T), NEW S
  PROVE  Without(s, S) \in Seq(T) /\ KeptFrom(Without(s, S), s, Len(s), S)
<1> DEFINE N == Len(s)
<1>1. PICK w : Leaves(w, s, S, N) /\ Without(s, S) = w[N]
  BY WithoutLeaves
<1> DEFINE Right(n) == w[n] \in Seq(T) /\ KeptFrom(w[n], s, n, S)
           bad == {n \in 0 .. N : ~Right(n)}
<1>2. N \in Nat
  OBVIOUS
<1>3. bad = {}
  <2> SUFFICES ASSUME bad # {} PROVE FALSE
    OBVIOUS
  <2>1. PICK m \in bad : \A n \in bad : m <= n
    <3>1. bad \subseteq Nat
      BY <1>2
    <3> HIDE DEF bad
    <3> QED BY <3>1, LeastNumber
  <2>2. m \in 0 .. N /\ ~Right(m)
    OBVIOUS
  <2>3. m # 0
    <3>1. w[0] = <<>> /\ <<>> \in Seq(T) /\ DOMAIN <<>> = {}
      BY <1>1 DEF Leaves
    <3>2. KeptFrom(<<>>, s, 0, S)
      BY <3>1 DEF KeptFrom
    <3> QED BY <2>2, <3>1, <3>2
  <2>4. m - 1 \in 0 .. N /\ m - 1 \notin bad /\ m \in 1 .. N
    <3>1. m - 1 \in 0 .. N /\ m \in 1 .. N /\ ~(m <= m - 1)
      BY <1>2, <2>2, <2>3
    <3> HIDE DEF bad
    <3> QED BY <2>1, <3>1
  <2>5. Right(m - 1)
    BY <2>4
  <2>6. w[m] = More(w[m - 1], s[m], S)
    BY <1>1, <2>4 DEF Leaves
  <2> HIDE DEF bad
  <2> QED BY <2>2, <2>4, <2>5, <2>6, OneMoreKept
<1>4. N \in 0 .. N
  BY <1>2
<1> QED BY <1>1, <1>3, <1>4

-----------------------------------------------------------------------------
(* Scheduler and the list *)

\* The shell commands are linked in the order of their first enqueues.
TicketInv ==
  /\ \A t \in Tasks : ticket[t] <= lastTicket
  /\ \A i, j \in DOMAIN list :
       i < j /\ IsShell(list[i]) /\ IsShell(list[j]) => ticket[list[i]] < ticket[list[j]]

ListInv == list \in Seq(Tasks) /\ ListInStep /\ TicketInv

LEMMA ListFacts ==
  /\ List!Queued = {list[i] : i \in DOMAIN list}
  /\ List!IsInjective(list) <=> \A i, j \in DOMAIN list : list[i] = list[j] => i = j
BY DEF List!Queued, List!ToSet, List!IsInjective

LEMMA ListInitInv == ListInit => ListInv
<1> SUFFICES ASSUME ListInit PROVE ListInv
  OBVIOUS
<1>1. list = <<>> /\ queue = {} /\ list \in Seq(Tasks) /\ DOMAIN list = {}
  BY DEF ListInit, Init
<1>2. ticket = [t \in Tasks |-> 0] /\ lastTicket = 0
  BY DEF ListInit, Init
<1> QED BY <1>1, <1>2, ListFacts DEF ListInv, ListInStep, TicketInv

\* Enqueueing: behind the others, if it is not linked.
LEMMA LinkedInv ==
  ASSUME BaseInv, ListInv, NEW t \in Tasks, t \notin queue, Linked(t),
         queue' = queue \cup {t}, burst' = burst,
         \/ ~IsShell(t) /\ UNCHANGED <<ticket, lastTicket>>
         \/ ticket' = [ticket EXCEPT ![t] = lastTicket + 1] /\ lastTicket' = lastTicket + 1
  PROVE  ListInv'
<1> DEFINE L == Len(list)
<1>1. /\ L \in Nat /\ DOMAIN list = 1 .. L /\ \A i \in 1 .. L : list[i] \in queue
      /\ list' = Append(list, t) /\ list' \in Seq(Tasks) /\ DOMAIN list' = 1 .. L + 1
      /\ list'[L + 1] = t /\ \A i \in 1 .. L : list'[i] = list[i]
  BY ListFacts DEF ListInv, ListInStep, Linked
<1> HIDE DEF L
<1>2. \A i : i \in DOMAIN list' <=> i \in 1 .. L \/ i = L + 1
  BY <1>1
<1>3. {list'[i] : i \in DOMAIN list'} = queue'
  <2>1. {list[i] : i \in 1 .. L} = queue
    BY <1>1, ListFacts DEF ListInv, ListInStep
  <2> QED BY <1>1, <1>2, <2>1
<1>4. \A i, j \in DOMAIN list' : list'[i] = list'[j] => i = j
  <2>1. \A i, j \in 1 .. L : list[i] = list[j] => i = j
    BY <1>1, ListFacts DEF ListInv, ListInStep
  <2> QED BY <1>1, <1>2, <2>1
<1>5. /\ ticket \in [Tasks -> Nat] /\ lastTicket \in Nat /\ queue \subseteq Tasks
      /\ \A u \in Tasks : ticket[u] <= lastTicket
  BY DEF BaseInv, TypeOK, QueueTypeOK, ListInv, TicketInv
<1>6. /\ \A u \in Tasks : ticket'[u] <= lastTicket'
      /\ \A u \in Tasks : u # t => ticket'[u] = ticket[u]
      /\ IsShell(t) => \A u \in Tasks : u # t => ticket[u] < ticket'[t]
  BY <1>5
<1>8. ASSUME NEW i \in DOMAIN list', NEW j \in DOMAIN list', i < j,
             burst'[list'[i]] = ShellBurst, burst'[list'[j]] = ShellBurst
      PROVE  ticket'[list'[i]] < ticket'[list'[j]]
  <2>1. i \in 1 .. L /\ list'[i] = list[i] /\ list[i] \in Tasks /\ list[i] # t
    BY <1>1, <1>2, <1>5, <1>8
  <2>2. CASE j \in 1 .. L
    <3>1. list'[j] = list[j] /\ list[j] \in Tasks /\ list[j] # t
      BY <1>1, <1>5, <2>2
    <3>2. ticket[list[i]] < ticket[list[j]]
      BY <1>1, <1>8, <2>1, <2>2, <3>1 DEF ListInv, TicketInv, IsShell
    <3> QED BY <1>6, <2>1, <3>1, <3>2
  <2>3. CASE j = L + 1
    BY <1>1, <1>6, <1>8, <2>1, <2>3 DEF IsShell
  <2> QED BY <1>2, <2>2, <2>3
<1>9. ListInStep'
  BY <1>3, <1>4 DEF ListInStep, List!Queued, List!ToSet, List!IsInjective
<1>10. TicketInv'
  BY <1>6, <1>8 DEF TicketInv, IsShell
<1> QED BY <1>1, <1>9, <1>10 DEF ListInv

\* Unlinking: the others stay, in their order.
LEMMA UnlinkedInv ==
  ASSUME ListInv, NEW S, Unlinked(S), queue' = queue \ S,
         UNCHANGED <<burst, ticket, lastTicket>>
  PROVE  ListInv'
<1>1. list' \in Seq(Tasks) /\ KeptFrom(list', list, Len(list), S) /\ DOMAIN list = 1 .. Len(list)
  BY WithoutKeeps DEF ListInv, Unlinked
<1>2. \A i, j \in DOMAIN list' : i < j =>
        \E k, l \in DOMAIN list : k < l /\ list[k] = list'[i] /\ list[l] = list'[j]
  <2>1. TAKE i, j \in DOMAIN list'
  <2>2. HAVE i < j
  <2>3. PICK k \in 1 .. Len(list), l \in 1 .. Len(list) : k < l /\ list[k] = list'[i] /\ list[l] = list'[j]
    BY <1>1, <2>2 DEF KeptFrom
  <2> QED BY <1>1, <2>3
<1>3. {list'[i] : i \in DOMAIN list'} = queue'
  <2>1. {list[i] : i \in DOMAIN list} = queue
    BY ListFacts DEF ListInv, ListInStep
  <2>2. ASSUME NEW i \in DOMAIN list' PROVE list'[i] \in queue \ S
    BY <1>1, <2>1 DEF KeptFrom
  <2>3. ASSUME NEW t \in queue \ S PROVE \E i \in DOMAIN list' : list'[i] = t
    BY <1>1, <2>1 DEF KeptFrom
  <2> QED BY <2>2, <2>3
<1>4. \A i, j \in DOMAIN list' : list'[i] = list'[j] => i = j
  <2>1. \A k, l \in DOMAIN list : list[k] = list[l] => k = l
    BY ListFacts DEF ListInv, ListInStep
  <2>2. \A i, j \in DOMAIN list' : i < j => list'[i] # list'[j]
    <3>1. TAKE i, j \in DOMAIN list'
    <3>2. HAVE i < j
    <3>3. PICK k \in DOMAIN list, l \in DOMAIN list : k < l /\ list[k] = list'[i] /\ list[l] = list'[j]
      BY <1>2, <3>2
    <3>4. k # l
      BY <1>1, <3>3
    <3> QED BY <2>1, <3>3, <3>4
  <2>3. \A i, j \in DOMAIN list' : i \in Nat /\ j \in Nat
    BY <1>1
  <2>4. \A i, j \in DOMAIN list' : i < j \/ j < i \/ i = j
    BY <2>3
  <2> QED BY <2>2, <2>4
<1>5. TicketInv'
  <2>1. \A t : IsShell(t)' <=> IsShell(t)
    BY DEF IsShell
  <2>2. ASSUME NEW i \in DOMAIN list', NEW j \in DOMAIN list', i < j,
               IsShell(list'[i]), IsShell(list'[j])
        PROVE  ticket[list'[i]] < ticket[list'[j]]
    BY <1>2, <2>2 DEF ListInv, TicketInv
  <2>3. \A t \in Tasks : ticket[t] <= lastTicket
    BY DEF ListInv, TicketInv
  <2> QED BY <2>1, <2>2, <2>3 DEF TicketInv
<1>6. ListInStep'
  BY <1>3, <1>4 DEF ListInStep, List!Queued, List!ToSet, List!IsInjective
<1> QED BY <1>1, <1>5, <1>6 DEF ListInv

LEMMA OtherInv ==
  ASSUME ListInv, UNCHANGED <<list, queue, ticket, lastTicket>>,
         \A t \in queue : burst'[t] = burst[t]
  PROVE  ListInv'
<1>1. ListInStep'
  BY DEF ListInv, ListInStep, List!Queued, List!ToSet, List!IsInjective
<1>2. \A i \in DOMAIN list : list[i] \in queue
  BY ListFacts DEF ListInv, ListInStep
<1>3. \A i \in DOMAIN list : IsShell(list[i])' <=> IsShell(list[i])
  BY <1>2 DEF IsShell
<1>4. TicketInv'
  BY <1>3 DEF TicketInv, ListInv
<1> QED BY <1>1, <1>4 DEF ListInv

\* A task that is queued has been created.
LEMMA QueuedLive == BaseInv => \A t \in queue : t \in Tasks /\ status[t] = "live"
BY DEF BaseInv, TypeOK, QueueTypeOK, OnePlace

LEMMA ListStep == BaseInv /\ ListInv /\ [ListNext]_listVars => ListInv'
<1> SUFFICES ASSUME BaseInv, ListInv, [ListNext]_listVars PROVE ListInv'
  OBVIOUS
<1>1. CASE RequeueDemo /\ Linked(sel)
  <2>1. sel \in Tasks /\ sel \notin queue /\ ~IsShell(sel)
    BY <1>1 DEF RequeueDemo, BaseInv, TurnInv, Loop, OnePlace, AtScheduler, Holding
  <2> QED BY <1>1, <2>1, LinkedInv DEF RequeueDemo
<1>2. CASE DequeueTask /\ Unlinked({sel})
  BY <1>2, UnlinkedInv DEF DequeueTask, taskVars
<1>3. CASE DequeueRecycled /\ Unlinked({sel'})
  BY <1>3, UnlinkedInv DEF DequeueRecycled, taskVars
<1>4. ASSUME NEW c \in Clients, Enqueue(c), Linked(wtask[c]) PROVE ListInv'
  <2>1. wtask[c] \in Tasks /\ wtask[c] \notin queue
    BY <1>4 DEF Enqueue, BaseInv, SubmitInv, OnePlace, AtWorker
  <2> QED BY <1>4, <2>1, LinkedInv DEF Enqueue, taskVars
<1>5. ASSUME NEW c \in Clients, Disconnect(c), Unlinked({t \in Tasks : owner[t] = c}) PROVE ListInv'
  <2>1. queue' = queue \ {t \in Tasks : owner[t] = c}
    BY <1>5, QueuedLive DEF Disconnect, QueuedOf
  <2> QED BY <1>5, <2>1, UnlinkedInv DEF Disconnect
<1>6. CASE OtherStep
  <2>1. CASE \E c \in Clients, b \in Commands : Receive(c, b)
    <3>1. PICK c \in Clients, b \in Commands : Receive(c, b)
      BY <2>1
    <3>2. nextTask \in Tasks /\ nextTask \notin queue
      <4>1. nextTask \in Tasks /\ nextTask \in Nat
        BY <3>1, TasksFacts DEF Receive
      <4>2. status[nextTask] = "none"
        BY <4>1 DEF BaseInv, SubmitInv
      <4> QED BY <4>1, <4>2, QueuedLive
    <3>3. \A t \in queue : burst'[t] = burst[t]
      BY <3>1, <3>2, QueuedLive DEF Receive, BaseInv, TypeOK, TaskTypeOK
    <3> QED BY <1>6, <3>1, <3>3, OtherInv DEF OtherStep, Receive, queueVars
  <2>2. CASE UNCHANGED <<queue, ticket, lastTicket, burst>>
    BY <1>6, <2>2, OtherInv DEF OtherStep
  <2>3. CASE \/ SchedulerInit \/ PeekTask \/ PeekEmpty \/ DequeueGone \/ SetCurrent
             \/ ClearPreempt \/ RunShell \/ CheckPreempt \/ ClearCurrent \/ ClearPreemptAgain
    BY <2>2, <2>3 DEF SchedulerInit, PeekTask, PeekEmpty, DequeueGone, SetCurrent, ClearPreempt,
       RunShell, CheckPreempt, ClearCurrent, ClearPreemptAgain, queueVars, taskVars
  <2>4. CASE ShellForkFails \/ RunSlice \/ UpdateTask \/ EndTask
    BY <2>2, <2>4 DEF ShellForkFails, RunSlice, UpdateTask, EndTask, queueVars
  <2>5. CASE \E c \in Clients : Notify(c)
    BY <2>2, <2>5 DEF Notify, queueVars, taskVars
  <2> QED BY <1>6, <2>1, <2>3, <2>4, <2>5 DEF OtherStep
<1>7. CASE UNCHANGED listVars
  BY <1>7, OtherInv DEF listVars, vars, queueVars, taskVars
<1> QED BY <1>1, <1>2, <1>3, <1>4, <1>5, <1>6, <1>7 DEF ListNext, QueueStep

\* The list is a history: the threads do what they do without it.
LEMMA ListHistory == [ListNext]_listVars => [Next]_vars
<1> SUFFICES ASSUME ListNext PROVE Next
  BY DEF listVars
<1> QED BY DEF ListNext, QueueStep, OtherStep, Next, SchedulerStep, Submit

LEMMA ListInvariant == ListSpec => [](BaseInv /\ ListInv)
<1>1. ListInit => BaseInv /\ ListInv
  BY BaseInit, ListInitInv DEF ListInit
<1>2. BaseInv /\ ListInv /\ [ListNext]_listVars => (BaseInv /\ ListInv)'
  BY BaseStep, ListStep, ListHistory
<1> QED BY <1>1, <1>2, PTL DEF ListSpec

-----------------------------------------------------------------------------
(* SameChoice *)

\* There is a task to choose unless the queue is empty.
LEMMA BestExists ==
  ASSUME BaseInv, NEW last, queue # {}
  PROVE  \E t \in queue : IsBest(t, last)
<1>1. /\ queue \subseteq Tasks /\ Tasks \subseteq Nat
      /\ \A t \in Tasks : ticket[t] \in Nat
      /\ \A t \in Tasks : ~IsShell(t) => remaining[t] \in Nat
  BY TasksFacts DEF BaseInv, TypeOK, QueueTypeOK, TaskTypeOK, RemainingOK
<1>2. CASE QueuedShells # {}
  <2> DEFINE tickets == {ticket[t] : t \in QueuedShells}
  <2>1. tickets \subseteq Nat /\ tickets # {}
    BY <1>1, <1>2 DEF QueuedShells
  <2>2. PICK m \in tickets : \A n \in tickets : m <= n
    <3> HIDE DEF tickets
    <3> QED BY <2>1, LeastNumber
  <2>3. PICK t \in QueuedShells : ticket[t] = m
    OBVIOUS
  <2>4. t \in queue /\ \A u \in QueuedShells : ticket[t] <= ticket[u]
    BY <2>2, <2>3 DEF QueuedShells
  <2> QED BY <1>2, <2>3, <2>4 DEF IsBest
<1>3. CASE QueuedShells = {}
  <2> DEFINE C == Candidates(last)
  <2>1. C \subseteq queue /\ C # {} /\ \A t \in C : t \in Nat /\ remaining[t] \in Nat
    BY <1>1, <1>3 DEF Candidates, QueuedDemos, QueuedShells
  <2> HIDE DEF C
  <2> DEFINE times == {remaining[t] : t \in C}
  <2>2. times \subseteq Nat /\ times # {}
    BY <2>1
  <2>3. PICK m \in times : \A n \in times : m <= n
    <3> HIDE DEF times
    <3> QED BY <2>2, LeastNumber
  <2> DEFINE first == {t \in C : remaining[t] = m}
  <2>4. first \subseteq Nat /\ first # {}
    BY <2>1
  <2>5. PICK t \in first : \A u \in first : t <= u
    <3> HIDE DEF first
    <3> QED BY <2>4, LeastNumber
  <2>6. ASSUME NEW u \in C PROVE Precedes(t, u)
    <3>1. m <= remaining[u] /\ remaining[t] = m /\ m \in Nat /\ remaining[u] \in Nat
      BY <2>1, <2>3
    <3>2. remaining[u] = m => t <= u
      BY <2>5
    <3> QED BY <3>1, <3>2 DEF Precedes
  <2>7. t \in C
    OBVIOUS
  <2> QED BY <1>3, <2>1, <2>6, <2>7 DEF IsBest, C
<1> QED BY <1>2, <1>3

\* Both choose from the same tasks.
LEMMA SameTasks ==
  BaseInv /\ ListInv => /\ List!Queued = queue
                        /\ List!Shells = QueuedShells
                        /\ List!Demos = QueuedDemos
                        /\ \A last : List!Eligible(last) = Candidates(last)
<1> SUFFICES ASSUME BaseInv, ListInv
             PROVE  /\ List!Queued = queue
                    /\ List!Shells = QueuedShells
                    /\ List!Demos = QueuedDemos
                    /\ \A last : List!Eligible(last) = Candidates(last)
  OBVIOUS
<1>1. List!Queued = queue
  BY DEF ListInv, ListInStep
<1>2. ASSUME NEW t \in queue PROVE remaining[t] = -1 <=> IsShell(t)
  <2>1. t \in Tasks
    BY DEF BaseInv, TypeOK, QueueTypeOK
  <2>2. IF IsShell(t) THEN remaining[t] = -1 ELSE remaining[t] \in 0 .. burst[t]
    BY <2>1 DEF BaseInv, TypeOK, RemainingOK, ShellBurst
  <2>3. ~(-1 \in 0 .. burst[t])
    OBVIOUS
  <2> QED BY <2>2, <2>3
<1>3. List!Shells = QueuedShells
  BY <1>1, <1>2 DEF List!Shells, QueuedShells
<1>4. List!Demos = QueuedDemos
  BY <1>1, <1>3 DEF List!Demos, QueuedDemos
<1>5. \A last : List!Eligible(last) = Candidates(last)
  BY <1>4 DEF List!Eligible, Candidates
<1> QED BY <1>1, <1>3, <1>4, <1>5

LEMMA ChoiceStep == BaseInv /\ ListInv => SameChoice
<1> SUFFICES ASSUME BaseInv, ListInv PROVE SameChoice
  OBVIOUS
<1> DEFINE last == lastSelected
<1>1. queue \subseteq Tasks /\ Tasks \subseteq Nat /\ NoTask \notin queue /\ List!NoTask = NoTask
  BY TasksFacts DEF BaseInv, TypeOK, QueueTypeOK, List!NoTask, NoTask
<1>2. QueuedShells \subseteq queue /\ QueuedDemos = queue \ QueuedShells /\ Candidates(last) \subseteq QueuedDemos
  BY DEF QueuedShells, QueuedDemos, Candidates
<1>3. List!Shells = QueuedShells /\ List!Demos = QueuedDemos /\ List!Eligible(last) = Candidates(last)
  BY SameTasks
<1>4. CASE QueuedShells # {}
  <2>1. ASSUME NEW t \in QueuedShells, \A u \in QueuedShells : ticket[t] <= ticket[u]
        PROVE  \E i \in DOMAIN list : list[i] = t /\ \A j \in 1 .. i - 1 : list[j] \notin QueuedShells
    <3>1. PICK i \in DOMAIN list : list[i] = t
      BY <1>2, ListFacts DEF ListInv, ListInStep
    <3>2. ASSUME NEW j \in 1 .. i - 1, list[j] \in QueuedShells PROVE FALSE
      <4>1. j \in DOMAIN list /\ j < i
        BY DEF ListInv
      <4>2. ticket[list[j]] < ticket[t]
        BY <3>1, <3>2, <4>1 DEF ListInv, TicketInv, QueuedShells
      <4>3. ticket[t] <= ticket[list[j]] /\ ticket[t] \in Nat /\ ticket[list[j]] \in Nat
        BY <1>1, <1>2, <2>1, <3>2 DEF BaseInv, TypeOK, QueueTypeOK
      <4> QED BY <4>2, <4>3
    <3> QED BY <3>1, <3>2
  <2>2. ASSUME NEW i \in DOMAIN list, list[i] \in QueuedShells, \A j \in 1 .. i - 1 : list[j] \notin QueuedShells,
               NEW u \in QueuedShells
        PROVE  ticket[list[i]] <= ticket[u]
    <3>1. PICK j \in DOMAIN list : list[j] = u
      BY <1>2, ListFacts DEF ListInv, ListInStep
    <3>2. i \in Nat /\ j \in Nat /\ ~(j \in 1 .. i - 1) /\ j >= 1
      BY <2>2, <3>1 DEF ListInv
    <3>3. i = j \/ i < j
      BY <3>2
    <3>4. ticket[u] \in Nat
      BY <1>1, <1>2 DEF BaseInv, TypeOK, QueueTypeOK
    <3>5. ticket[list[i]] \in Nat
      BY <1>1, <1>2, <2>2 DEF BaseInv, TypeOK, QueueTypeOK
    <3>6. i < j => ticket[list[i]] < ticket[u]
      BY <2>2, <3>1 DEF ListInv, TicketInv, QueuedShells
    <3> QED BY <3>1, <3>3, <3>4, <3>5, <3>6
  <2>3. \A t : IsBest(t, last) <=> List!IsBest(t, last)
    BY <1>3, <1>4, <2>1, <2>2 DEF IsBest, List!IsBest
  <2>4. \A t : IsBest(t, last) => t \in queue
    BY <1>2, <1>4 DEF IsBest
  <2>5. queue # {}
    BY <1>2, <1>4
  <2> QED BY <1>1, <2>3, <2>4, <2>5, BestExists DEF SameChoice
<1>5. CASE QueuedShells = {} /\ queue # {}
  <2>1. QueuedDemos = queue
    BY <1>2, <1>5
  <2>2. \A t, u \in queue : t \in Nat /\ u \in Nat /\ remaining[t] \in Int /\ remaining[u] \in Int
    BY <1>1, CommandsFacts DEF BaseInv, TypeOK, TaskTypeOK, ShellBurst
  <2>3. \A t \in queue : IsBest(t, last) <=> List!IsBest(t, last)
    BY <1>2, <1>3, <1>5, <2>1, <2>2 DEF IsBest, List!IsBest, Precedes
  <2>4. \A t : List!IsBest(t, last) => t \in queue
    BY <1>2, <1>3, <1>5, <2>1 DEF List!IsBest
  <2> QED BY <1>1, <1>5, <2>3, <2>4, BestExists DEF SameChoice
<1>6. CASE queue = {}
  <2>1. List!Shells = {} /\ List!Demos = {}
    BY <1>2, <1>3, <1>6
  <2>2. \A t : List!IsBest(t, last) <=> t = NoTask
    BY <1>1, <2>1 DEF List!IsBest
  <2>3. NoTask \notin Tasks
    BY TasksFacts
  <2> QED BY <1>6, <2>2, <2>3 DEF SameChoice
<1> QED BY <1>2, <1>4, <1>5, <1>6

\* The set of queued tasks, with their tickets, stands for the list: it holds
\* the same tasks, each once, and peek chooses the same one from either
\* (scheduler_queue.c, lines 94-110, 180-204 and 216-278).
THEOREM QueueCorrect == ListSpec => []QueueIsList
<1>1. ListInv => ListInStep
  BY DEF ListInv
<1> QED BY <1>1, ListInvariant, ChoiceStep, PTL DEF QueueIsList

-----------------------------------------------------------------------------
(* QueueUsedAsPromised *)

LEMMA LeaveAsPromised ==
  ASSUME ListInv, ListInv', NEW S, Unlinked(S), queue' = queue \ S
  PROVE  List!Leave(S)
<1>1. list \in Seq(Tasks) /\ list' \in Seq(Tasks) /\ KeptFrom(list', list, Len(list), S) /\ DOMAIN list = 1 .. Len(list)
  BY WithoutKeeps DEF ListInv, Unlinked
<1>2. /\ List!Queued' = queue' /\ List!IsInjective(list')
      /\ \A t \in queue' : \E i \in DOMAIN list' : list'[i] = t
  BY DEF ListInv, ListInStep, List!Queued, List!ToSet
<1>3. \A i, j \in DOMAIN list : list[i] = list[j] => i = j
  BY ListFacts DEF ListInv, ListInStep
<1>4. ASSUME NEW i \in DOMAIN list', NEW j \in DOMAIN list', i < j
      PROVE  \E k, l \in DOMAIN list : k < l /\ list[k] = list'[i] /\ list[l] = list'[j]
  <2>1. PICK k \in 1 .. Len(list), l \in 1 .. Len(list) : k < l /\ list[k] = list'[i] /\ list[l] = list'[j]
    BY <1>1, <1>4 DEF KeptFrom
  <2> QED BY <1>1, <2>1
<1>5. ASSUME NEW t \in queue', NEW u \in queue', List!Before(t, u)
      PROVE  \E i, j \in DOMAIN list' : i < j /\ list'[i] = t /\ list'[j] = u
  <2>1. PICK k \in DOMAIN list, l \in DOMAIN list : k < l /\ list[k] = t /\ list[l] = u
    BY <1>5 DEF List!Before
  <2>2. PICK i \in DOMAIN list' : list'[i] = t
    BY <1>2
  <2>3. PICK j \in DOMAIN list' : list'[j] = u
    BY <1>2
  <2>4. i # j
    <3>1. k # l
      BY <1>1, <2>1
    <3> QED BY <1>3, <2>1, <2>2, <2>3, <3>1
  <2>5. ~(j < i)
    <3> SUFFICES ASSUME j < i PROVE FALSE
      OBVIOUS
    <3>1. PICK m \in DOMAIN list, n \in DOMAIN list : m < n /\ list[m] = u /\ list[n] = t
      BY <1>4, <2>2, <2>3
    <3>2. m = l /\ n = k
      BY <1>3, <2>1, <3>1
    <3> QED BY <1>1, <2>1, <3>1, <3>2
  <2>6. i \in Nat /\ j \in Nat
    BY <1>1
  <2>7. i < j
    BY <2>4, <2>5, <2>6
  <2> QED BY <2>2, <2>3, <2>7
<1>6. \A t, u \in queue' : List!Before(t, u)' <=> List!Before(t, u)
  BY <1>4, <1>5 DEF List!Before
<1>7. List!Queued = queue
  BY DEF ListInv, ListInStep
<1> QED BY <1>2, <1>6, <1>7 DEF List!Leave

Promised ==
  /\ \/ UNCHANGED list
     \/ \E t \in Tasks \ List!Queued : list' = Append(list, t)
     \/ \E t \in Tasks : List!Leave({t})
     \/ \E c \in Clients : List!Leave({t \in Tasks : owner[t] = c})
  /\ \A t \in List!Queued :
       /\ remaining'[t] = remaining[t]
       /\ owner'[t] = owner[t]
       /\ burst'[t] = burst[t]

LEMMA PromisedStep == BaseInv /\ ListInv /\ [ListNext]_listVars => [Promised]_listVars
<1> SUFFICES ASSUME BaseInv, ListInv, ListNext PROVE Promised
  OBVIOUS
<1>1. List!Queued = queue /\ \A t \in queue : t \in Tasks /\ status[t] = "live"
  BY QueuedLive DEF ListInv, ListInStep
<1>2. ListInv'
  BY ListStep
<1>3. ASSUME QueueStep PROVE Promised
  <2>1. UNCHANGED <<remaining, owner, burst>>
    BY <1>3 DEF QueueStep, RequeueDemo, DequeueTask, DequeueRecycled, Enqueue, Disconnect, taskVars
  <2>2. CASE RequeueDemo /\ Linked(sel)
    <3>1. sel \in Tasks \ List!Queued
      BY <1>1, <2>2 DEF RequeueDemo, BaseInv, TurnInv, Loop, OnePlace, AtScheduler, Holding
    <3> QED BY <2>1, <2>2, <3>1 DEF Linked, Promised
  <2>3. CASE DequeueTask /\ Unlinked({sel})
    <3>1. sel \in Tasks /\ List!Leave({sel})
      BY <1>1, <1>2, <2>3, LeaveAsPromised DEF DequeueTask
    <3> QED BY <2>1, <3>1 DEF Promised
  <2>4. CASE DequeueRecycled /\ Unlinked({sel'})
    <3>1. sel' \in Tasks /\ List!Leave({sel'})
      BY <1>1, <1>2, <2>4, LeaveAsPromised DEF DequeueRecycled
    <3> QED BY <2>1, <3>1 DEF Promised
  <2>5. ASSUME NEW c \in Clients, Enqueue(c), Linked(wtask[c]) PROVE Promised
    <3>1. wtask[c] \in Tasks \ List!Queued
      BY <1>1, <2>5 DEF Enqueue, BaseInv, SubmitInv, OnePlace, AtWorker
    <3> QED BY <2>1, <2>5, <3>1 DEF Linked, Promised
  <2>6. ASSUME NEW c \in Clients, Disconnect(c), Unlinked({t \in Tasks : owner[t] = c}) PROVE Promised
    <3>1. queue' = queue \ {t \in Tasks : owner[t] = c}
      BY <1>1, <2>6 DEF Disconnect, QueuedOf
    <3>2. List!Leave({t \in Tasks : owner[t] = c})
      BY <1>2, <2>6, <3>1, LeaveAsPromised
    <3> QED BY <2>1, <3>2 DEF Promised
  <2> QED BY <1>3, <2>2, <2>3, <2>4, <2>5, <2>6 DEF QueueStep
<1>4. ASSUME OtherStep PROVE Promised
  <2>1. UNCHANGED list
    BY <1>4 DEF OtherStep
  <2>2. CASE UNCHANGED <<remaining, owner, burst>>
    BY <2>1, <2>2 DEF Promised
  <2>3. CASE UpdateTask
    <3>1. sel \notin queue
      BY <1>1, <2>3 DEF UpdateTask, BaseInv, OnePlace, AtScheduler, Holding
    <3> QED BY <1>1, <2>1, <2>3, <3>1 DEF UpdateTask, Promised, BaseInv, TypeOK, TaskTypeOK
  <2>4. ASSUME NEW c \in Clients, NEW b \in Commands, Receive(c, b) PROVE Promised
    <3>1. nextTask \in Tasks /\ nextTask \in Nat
      BY <2>4, TasksFacts DEF Receive
    <3>2. nextTask \notin queue
      BY <1>1, <3>1 DEF BaseInv, SubmitInv
    <3> QED BY <1>1, <2>1, <2>4, <3>2 DEF Receive, Promised, BaseInv, TypeOK, TaskTypeOK
  <2>5. CASE \/ SchedulerInit \/ PeekTask \/ PeekEmpty \/ DequeueGone \/ SetCurrent
             \/ ClearPreempt \/ RunShell \/ CheckPreempt \/ ClearCurrent \/ ClearPreemptAgain
             \/ \E c \in Clients : Notify(c)
    BY <2>2, <2>5 DEF SchedulerInit, PeekTask, PeekEmpty, DequeueGone, SetCurrent, ClearPreempt,
       RunShell, CheckPreempt, ClearCurrent, ClearPreemptAgain, Notify, taskVars
  <2>6. CASE ShellForkFails \/ RunSlice \/ EndTask
    BY <2>2, <2>6 DEF ShellForkFails, RunSlice, EndTask
  <2> QED BY <1>4, <2>3, <2>4, <2>5, <2>6 DEF OtherStep
<1> QED BY <1>3, <1>4 DEF ListNext

\* A task is linked only once, tasks leave as TaskQueue promises, and nobody
\* writes what the loops over the queue compare while a task is linked.
THEOREM PromiseKept == ListSpec => QueueUsedAsPromised
<1>1. [][Promised]_listVars => QueueUsedAsPromised
  BY PTL DEF QueueUsedAsPromised, Promised
<1> QED BY <1>1, ListInvariant, PromisedStep, PTL DEF ListSpec

=============================================================================
