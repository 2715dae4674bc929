-------------------------- MODULE SchedulerProofs --------------------------
(***************************************************************************)
(* Theorems about Scheduler, for every set of clients, every set of        *)
(* bursts, every quantum and every bound.                                  *)
(***************************************************************************)
EXTENDS Scheduler, WellFoundedInduction, TLAPS

(***************************************************************************)
(* What the program counter says of the task the scheduler thread holds:   *)
(* the part of the loop it is in fits the task's type and remaining time.  *)
(***************************************************************************)
Loop == {"slice", "update", "check", "requeue"}

TurnInv ==
  /\ pc \in Holding \cup {"drop_shell", "drop_demo", "dequeue"} => sel \in Tasks
  /\ pc \in Loop => ~IsShell(sel)
  /\ pc = "shell" => IsShell(sel)
  /\ pc = "update" => remaining[sel] # 0
  /\ pc = "end" /\ ~IsShell(sel) => remaining[sel] = 0
  /\ pc \in Loop \cup {"shell", "end"} => startTime <= timeUsed

\* The workers hand over tasks that exist, and ids are given out in order.
SubmitInv ==
  /\ \A c \in Clients : wpc[c] \in {"enqueue", "notify"} => wtask[c] \in Tasks
  /\ \A t \in Tasks : status[t] = "none" <=> t >= nextTask
  /\ \A t \in Tasks : status[t] = "none" => lines[t] = 0

BaseInv == TypeOK /\ TurnInv /\ SubmitInv /\ OnePlace

-----------------------------------------------------------------------------
(* Facts about the constants *)

LEMMA TasksFacts == Tasks \subseteq Nat \ {0} /\ NoTask \notin Tasks
BY DEF Tasks, NoTask

LEMMA CommandsFacts == /\ \A b \in Commands : b = ShellBurst \/ b \in Nat \ {0}
                       /\ ShellBurst \notin Nat
BY BurstsAssumption DEF Commands, ShellBurst

-----------------------------------------------------------------------------
LEMMA TypeInit == Init => TypeOK
<1> SUFFICES ASSUME Init PROVE TypeOK
  OBVIOUS
<1>1. TaskTypeOK
  BY MaxTasksAssumption DEF Init, TaskTypeOK, Statuses
<1>2. QueueTypeOK
  BY DEF Init, QueueTypeOK
<1>3. BookTypeOK
  BY TraceAssumption DEF Init, BookTypeOK
<1>4. ThreadTypeOK
  <2>1. forkFailures \in 0 .. MaxForkFailures /\ slice \in Nat /\ startTime \in Nat
    BY ForkFailuresAssumption DEF Init
  <2>2. flag \in BOOLEAN
    BY DEF Init
  <2> QED BY <2>1, <2>2 DEF Init, ThreadTypeOK, PCs
<1>5. WorkerTypeOK
  BY DEF Init, WorkerTypeOK
<1>6. RemainingOK
  BY DEF Init, RemainingOK, IsShell
<1> QED
  BY <1>1, <1>2, <1>3, <1>4, <1>5, <1>6 DEF TypeOK

LEMMA BaseInit == Init => BaseInv
<1> SUFFICES ASSUME Init PROVE BaseInv
  OBVIOUS
<1>1. TypeOK
  BY TypeInit
<1>2. TurnInv
  BY DEF Init, TurnInv, Holding, Loop
<1>3. SubmitInv
  BY TasksFacts DEF Init, SubmitInv
<1>4. OnePlace
  BY DEF Init, OnePlace, AtScheduler, AtWorker, Holding
<1> QED
  BY <1>1, <1>2, <1>3, <1>4 DEF BaseInv

-----------------------------------------------------------------------------
(***************************************************************************)
(* BaseInv is inductive: one step per action, and under it one per part    *)
(* that the action disturbs, after one for the parts it leaves alone.      *)
(***************************************************************************)
LEMMA BaseStep == BaseInv /\ [Next]_vars => BaseInv'
<1> SUFFICES ASSUME TaskTypeOK, QueueTypeOK, BookTypeOK, ThreadTypeOK, WorkerTypeOK,
                    RemainingOK, TurnInv, SubmitInv, OnePlace, [Next]_vars
             PROVE  BaseInv'
  BY DEF BaseInv, TypeOK
<1>1. CASE SchedulerInit
  <2>1. TaskTypeOK' /\ QueueTypeOK' /\ WorkerTypeOK' /\ RemainingOK' /\ SubmitInv'
    BY <1>1 DEF SchedulerInit, TaskTypeOK, taskVars, QueueTypeOK, queueVars,
       WorkerTypeOK, workerVars, RemainingOK, IsShell, SubmitInv
  <2>2. BookTypeOK'
    BY <1>1, TraceAssumption DEF SchedulerInit, BookTypeOK
  <2>3. ThreadTypeOK'
    BY <1>1 DEF SchedulerInit, ThreadTypeOK, PCs, turnVars
  <2>4. TurnInv'
    BY <1>1 DEF SchedulerInit, TurnInv, Loop, Holding
  <2>5. OnePlace'
    BY <1>1 DEF SchedulerInit, OnePlace, AtScheduler, AtWorker, TurnInv,
       ThreadTypeOK, Holding, taskVars, queueVars, workerVars
  <2> QED BY <2>1, <2>2, <2>3, <2>4, <2>5 DEF BaseInv, TypeOK
<1>2. CASE PeekTask
  <2>1. TaskTypeOK' /\ QueueTypeOK' /\ BookTypeOK' /\ WorkerTypeOK' /\ RemainingOK'
     /\ SubmitInv'
    BY <1>2 DEF PeekTask, TaskTypeOK, taskVars, QueueTypeOK, queueVars,
       BookTypeOK, bookVars, traceVars, WorkerTypeOK, workerVars, RemainingOK,
       IsShell, SubmitInv
  <2>2. ThreadTypeOK'
    BY <1>2 DEF PeekTask, ThreadTypeOK, QueueTypeOK, PCs
  <2>3. TurnInv'
    BY <1>2 DEF PeekTask, TurnInv, QueueTypeOK, Loop
  <2>4. OnePlace'
    <3>1. \A t \in Tasks : ~AtScheduler(t) /\ ~AtScheduler(t)'
      BY <1>2 DEF PeekTask, AtScheduler, Holding
    <3> QED BY <1>2, <3>1 DEF PeekTask, OnePlace, AtWorker, taskVars, queueVars,
               workerVars
  <2> QED BY <2>1, <2>2, <2>3, <2>4 DEF BaseInv, TypeOK
<1>3. CASE PeekEmpty
  <2>1. TaskTypeOK' /\ QueueTypeOK' /\ ThreadTypeOK' /\ WorkerTypeOK' /\ RemainingOK'
     /\ SubmitInv' /\ OnePlace'
    BY <1>3 DEF PeekEmpty, TaskTypeOK, taskVars, QueueTypeOK, queueVars,
       ThreadTypeOK, turnVars, WorkerTypeOK, workerVars, RemainingOK, IsShell,
       SubmitInv, OnePlace, AtScheduler, AtWorker
  <2>2. BookTypeOK'
    BY <1>3 DEF PeekEmpty, BookTypeOK, traceVars
  <2>3. TurnInv'
    BY <1>3 DEF PeekEmpty, TurnInv, Loop, Holding
  <2> QED BY <2>1, <2>2, <2>3 DEF BaseInv, TypeOK
<1>4. CASE DequeueTask
  <2>1. TaskTypeOK' /\ BookTypeOK' /\ WorkerTypeOK' /\ RemainingOK' /\ SubmitInv'
    BY <1>4 DEF DequeueTask, TaskTypeOK, taskVars, BookTypeOK, bookVars,
       traceVars, WorkerTypeOK, workerVars, RemainingOK, IsShell, SubmitInv
  <2>2. QueueTypeOK'
    BY <1>4 DEF DequeueTask, QueueTypeOK
  <2>3. ThreadTypeOK'
    BY <1>4 DEF DequeueTask, ThreadTypeOK, PCs, Holding
  <2>4. TurnInv'
    BY <1>4 DEF DequeueTask, TurnInv, Loop
  <2>5. OnePlace'
    BY <1>4 DEF DequeueTask, OnePlace, AtScheduler, AtWorker, TurnInv, Holding,
       taskVars, workerVars
  <2> QED BY <2>1, <2>2, <2>3, <2>4, <2>5 DEF BaseInv, TypeOK
<1>5. CASE DequeueGone
  <2>1. TaskTypeOK' /\ QueueTypeOK' /\ BookTypeOK' /\ WorkerTypeOK' /\ RemainingOK'
     /\ SubmitInv'
    BY <1>5 DEF DequeueGone, TaskTypeOK, taskVars, QueueTypeOK, queueVars,
       BookTypeOK, bookVars, traceVars, WorkerTypeOK, workerVars, RemainingOK,
       IsShell, SubmitInv
  <2>2. ThreadTypeOK'
    BY <1>5 DEF DequeueGone, ThreadTypeOK, PCs
  <2>3. TurnInv'
    BY <1>5 DEF DequeueGone, TurnInv, Loop, Holding
  <2>4. OnePlace'
    BY <1>5 DEF DequeueGone, OnePlace, AtScheduler, AtWorker, Holding, taskVars,
       queueVars, workerVars
  <2> QED BY <2>1, <2>2, <2>3, <2>4 DEF BaseInv, TypeOK
<1>6. CASE DequeueRecycled
  <2>1. TaskTypeOK' /\ BookTypeOK' /\ WorkerTypeOK' /\ RemainingOK' /\ SubmitInv'
    BY <1>6 DEF DequeueRecycled, TaskTypeOK, taskVars, BookTypeOK, bookVars,
       traceVars, WorkerTypeOK, workerVars, RemainingOK, IsShell, SubmitInv
  <2>2. QueueTypeOK'
    BY <1>6 DEF DequeueRecycled, QueueTypeOK
  <2>3. ThreadTypeOK'
    BY <1>6 DEF DequeueRecycled, ThreadTypeOK, PCs, Holding
  <2>4. TurnInv'
    BY <1>6 DEF DequeueRecycled, TurnInv, QueueTypeOK, Loop
  <2>5. OnePlace'
    <3>1. PICK u \in queue : sel' = u /\ queue' = queue \ {u}
      BY <1>6 DEF DequeueRecycled
    <3>2. \A t \in Tasks : ~AtScheduler(t) /\ (AtScheduler(t)' <=> t = u)
      BY <1>6, <3>1 DEF DequeueRecycled, AtScheduler, Holding
    <3>3. \A t \in Tasks, c \in Clients : AtWorker(t, c)' <=> AtWorker(t, c)
      BY <1>6 DEF DequeueRecycled, AtWorker, workerVars
    <3> QED BY <1>6, <3>1, <3>2, <3>3 DEF DequeueRecycled, OnePlace, taskVars
  <2> QED BY <2>1, <2>2, <2>3, <2>4, <2>5 DEF BaseInv, TypeOK
<1>7. CASE SetCurrent
  <2>1. TaskTypeOK' /\ QueueTypeOK' /\ BookTypeOK' /\ WorkerTypeOK' /\ RemainingOK'
     /\ SubmitInv'
    BY <1>7 DEF SetCurrent, TaskTypeOK, taskVars, QueueTypeOK, queueVars,
       BookTypeOK, bookVars, traceVars, WorkerTypeOK, workerVars, RemainingOK,
       IsShell, SubmitInv
  <2>2. ThreadTypeOK'
    BY <1>7 DEF SetCurrent, ThreadTypeOK, PCs, Holding, turnVars
  <2>3. TurnInv'
    BY <1>7 DEF SetCurrent, TurnInv, Loop, Holding, turnVars
  <2>4. OnePlace'
    BY <1>7 DEF SetCurrent, OnePlace, AtScheduler, AtWorker, SubmitInv, Holding,
       taskVars, queueVars, turnVars, workerVars
  <2> QED BY <2>1, <2>2, <2>3, <2>4 DEF BaseInv, TypeOK
<1>8. CASE ClearPreempt
  <2>1. TaskTypeOK' /\ QueueTypeOK' /\ BookTypeOK' /\ WorkerTypeOK' /\ RemainingOK'
     /\ SubmitInv'
    BY <1>8 DEF ClearPreempt, TaskTypeOK, taskVars, QueueTypeOK, queueVars,
       BookTypeOK, bookVars, traceVars, WorkerTypeOK, workerVars, RemainingOK,
       IsShell, SubmitInv
  <2>2. ThreadTypeOK'
    BY <1>8 DEF ClearPreempt, ThreadTypeOK, BookTypeOK, PCs, Holding
  <2>3. TurnInv'
    BY <1>8 DEF ClearPreempt, TurnInv, BookTypeOK, Loop, Holding, IsShell,
       taskVars, bookVars
  <2>4. OnePlace'
    BY <1>8 DEF ClearPreempt, OnePlace, AtScheduler, AtWorker, Holding,
       taskVars, queueVars, workerVars
  <2> QED BY <2>1, <2>2, <2>3, <2>4 DEF BaseInv, TypeOK
<1>9. CASE RunShell
  <2>1. TaskTypeOK' /\ QueueTypeOK' /\ BookTypeOK' /\ WorkerTypeOK' /\ RemainingOK'
     /\ SubmitInv'
    BY <1>9 DEF RunShell, TaskTypeOK, taskVars, QueueTypeOK, queueVars,
       BookTypeOK, bookVars, traceVars, WorkerTypeOK, workerVars, RemainingOK,
       IsShell, SubmitInv
  <2>2. ThreadTypeOK'
    BY <1>9 DEF RunShell, ThreadTypeOK, PCs, Holding, turnVars
  <2>3. TurnInv'
    BY <1>9 DEF RunShell, TurnInv, Loop, Holding, IsShell, taskVars, bookVars,
       turnVars
  <2>4. OnePlace'
    BY <1>9 DEF RunShell, OnePlace, AtScheduler, AtWorker, SubmitInv, Holding,
       taskVars, queueVars, turnVars, workerVars
  <2> QED BY <2>1, <2>2, <2>3, <2>4 DEF BaseInv, TypeOK
<1>10. CASE ShellForkFails
  <2>1. QueueTypeOK' /\ BookTypeOK' /\ WorkerTypeOK' /\ RemainingOK'
    BY <1>10 DEF ShellForkFails, QueueTypeOK, queueVars, BookTypeOK, bookVars,
       traceVars, WorkerTypeOK, workerVars, RemainingOK, IsShell
  <2>2. TaskTypeOK'
    BY <1>10 DEF ShellForkFails, TaskTypeOK, Statuses
  <2>3. ThreadTypeOK'
    BY <1>10, ForkFailuresAssumption DEF ShellForkFails, ThreadTypeOK, PCs,
       Announced
  <2>4. TurnInv'
    BY <1>10 DEF ShellForkFails, TurnInv, Loop, Holding
  <2>5. SubmitInv'
    BY <1>10 DEF ShellForkFails, SubmitInv, OnePlace, AtScheduler, Holding,
       workerVars
  <2>6. OnePlace'
    BY <1>10 DEF ShellForkFails, OnePlace, AtScheduler, AtWorker, TaskTypeOK,
       Holding, queueVars, workerVars
  <2> QED BY <2>1, <2>2, <2>3, <2>4, <2>5, <2>6 DEF BaseInv, TypeOK
<1>11. CASE RunSlice
  <2>1. QueueTypeOK' /\ BookTypeOK' /\ WorkerTypeOK' /\ RemainingOK'
    BY <1>11 DEF RunSlice, QueueTypeOK, queueVars, BookTypeOK, bookVars,
       traceVars, WorkerTypeOK, workerVars, RemainingOK, IsShell
  <2>2. TaskTypeOK'
    BY <1>11 DEF RunSlice, TaskTypeOK, TurnInv, Holding
  <2>3. ThreadTypeOK'
    BY <1>11 DEF RunSlice, ThreadTypeOK, PCs, Holding, turnVars
  <2>4. TurnInv'
    BY <1>11 DEF RunSlice, IsLastLine, TurnInv, Loop, Holding, IsShell,
       bookVars, turnVars
  <2>5. SubmitInv'
    BY <1>11 DEF RunSlice, SubmitInv, TurnInv, OnePlace, AtScheduler, Holding,
       workerVars
  <2>6. OnePlace'
    BY <1>11 DEF RunSlice, OnePlace, AtScheduler, AtWorker, Holding, queueVars,
       turnVars, workerVars
  <2> QED BY <2>1, <2>2, <2>3, <2>4, <2>5, <2>6 DEF BaseInv, TypeOK
<1>12. CASE UpdateTask
  <2>1. QueueTypeOK' /\ WorkerTypeOK' /\ SubmitInv'
    BY <1>12 DEF UpdateTask, QueueTypeOK, queueVars, WorkerTypeOK, workerVars,
       SubmitInv
  <2>2. TaskTypeOK'
    <3>1. sel \in Tasks /\ remaining[sel] \in Nat \ {0}
      BY <1>12 DEF UpdateTask, TurnInv, Loop, Holding, RemainingOK
    <3> QED BY <1>12, <3>1 DEF UpdateTask, TaskTypeOK
  <2>3. BookTypeOK'
    BY <1>12 DEF UpdateTask, BookTypeOK, traceVars
  <2>4. ThreadTypeOK'
    BY <1>12 DEF UpdateTask, ThreadTypeOK, PCs, Holding, turnVars
  <2>5. RemainingOK'
    <3>1. sel \in Tasks /\ ~IsShell(sel) /\ remaining[sel] # 0
      BY <1>12 DEF UpdateTask, TurnInv, Loop, Holding
    <3>2. remaining[sel] \in 0 .. burst[sel] /\ burst[sel] \in Nat
      BY <3>1, CommandsFacts DEF RemainingOK, TaskTypeOK, IsShell
    <3>3. remaining'[sel] \in 0 .. burst[sel]
      BY <1>12, <3>1, <3>2 DEF UpdateTask
    <3> QED BY <1>12, <3>1, <3>3 DEF UpdateTask, RemainingOK, IsShell
  <2>6. TurnInv'
    BY <1>12 DEF UpdateTask, TurnInv, BookTypeOK, ThreadTypeOK, Loop, Holding,
       IsShell, turnVars
  <2>7. OnePlace'
    BY <1>12 DEF UpdateTask, OnePlace, AtScheduler, AtWorker, TaskTypeOK,
       Holding, queueVars, turnVars, workerVars
  <2> QED BY <2>1, <2>2, <2>3, <2>4, <2>5, <2>6, <2>7 DEF BaseInv, TypeOK
<1>13. CASE CheckPreempt
  <2>1. TaskTypeOK' /\ QueueTypeOK' /\ BookTypeOK' /\ WorkerTypeOK' /\ RemainingOK'
     /\ SubmitInv'
    BY <1>13 DEF CheckPreempt, TaskTypeOK, taskVars, QueueTypeOK, queueVars,
       BookTypeOK, bookVars, traceVars, WorkerTypeOK, workerVars, RemainingOK,
       IsShell, SubmitInv
  <2>2. ThreadTypeOK'
    BY <1>13 DEF CheckPreempt, ThreadTypeOK, PCs, Holding
  <2>3. TurnInv'
    BY <1>13 DEF CheckPreempt, TurnInv, Loop, Holding, IsShell, taskVars,
       bookVars
  <2>4. OnePlace'
    BY <1>13 DEF CheckPreempt, OnePlace, AtScheduler, AtWorker, Holding,
       taskVars, queueVars, workerVars
  <2> QED BY <2>1, <2>2, <2>3, <2>4 DEF BaseInv, TypeOK
<1>14. CASE EndTask
  <2>1. QueueTypeOK' /\ WorkerTypeOK' /\ RemainingOK'
    BY <1>14 DEF EndTask, QueueTypeOK, queueVars, WorkerTypeOK, workerVars,
       RemainingOK, IsShell
  <2>2. TaskTypeOK'
    BY <1>14 DEF EndTask, TaskTypeOK, TurnInv, Holding, Statuses
  <2>3. BookTypeOK'
    BY <1>14, TraceAssumption DEF EndTask, RecordTrace, BookTypeOK, traceVars
  <2>4. ThreadTypeOK'
    BY <1>14 DEF EndTask, ThreadTypeOK, PCs, Announced, turnVars
  <2>5. TurnInv'
    BY <1>14 DEF EndTask, TurnInv, Loop, Holding, turnVars
  <2>6. SubmitInv'
    BY <1>14 DEF EndTask, SubmitInv, OnePlace, AtScheduler, Holding, workerVars
  <2>7. OnePlace'
    BY <1>14 DEF EndTask, OnePlace, AtScheduler, AtWorker, TaskTypeOK, Holding,
       queueVars, workerVars
  <2> QED BY <2>1, <2>2, <2>3, <2>4, <2>5, <2>6, <2>7 DEF BaseInv, TypeOK
<1>15. CASE RequeueDemo
  <2>1. WorkerTypeOK' /\ RemainingOK' /\ SubmitInv'
    BY <1>15 DEF RequeueDemo, WorkerTypeOK, workerVars, RemainingOK, IsShell,
       SubmitInv
  <2>2. TaskTypeOK'
    BY <1>15 DEF RequeueDemo, TaskTypeOK, TurnInv, Holding
  <2>3. QueueTypeOK'
    BY <1>15 DEF RequeueDemo, QueueTypeOK, TurnInv, Holding
  <2>4. BookTypeOK'
    BY <1>15, TraceAssumption DEF RequeueDemo, RecordTrace, BookTypeOK, TurnInv,
       Holding, traceVars
  <2>5. ThreadTypeOK'
    BY <1>15 DEF RequeueDemo, ThreadTypeOK, PCs, Announced, turnVars
  <2>6. TurnInv'
    BY <1>15 DEF RequeueDemo, TurnInv, Loop, Holding, turnVars
  <2>7. OnePlace'
    BY <1>15 DEF RequeueDemo, OnePlace, AtScheduler, AtWorker, Holding,
       workerVars
  <2> QED BY <2>1, <2>2, <2>3, <2>4, <2>5, <2>6, <2>7 DEF BaseInv, TypeOK
<1>16. CASE ClearCurrent
  <2>1. TaskTypeOK' /\ QueueTypeOK' /\ BookTypeOK' /\ WorkerTypeOK' /\ RemainingOK'
     /\ SubmitInv'
    BY <1>16 DEF ClearCurrent, TaskTypeOK, taskVars, QueueTypeOK, queueVars,
       BookTypeOK, bookVars, traceVars, WorkerTypeOK, workerVars, RemainingOK,
       IsShell, SubmitInv
  <2>2. ThreadTypeOK'
    BY <1>16 DEF ClearCurrent, ThreadTypeOK, PCs
  <2>3. TurnInv'
    BY <1>16 DEF ClearCurrent, TurnInv, Loop, Holding
  <2>4. OnePlace'
    BY <1>16 DEF ClearCurrent, OnePlace, AtScheduler, AtWorker, TurnInv,
       SubmitInv, Holding, taskVars, queueVars, workerVars
  <2> QED BY <2>1, <2>2, <2>3, <2>4 DEF BaseInv, TypeOK
<1>17. CASE ClearPreemptAgain
  <2>1. TaskTypeOK' /\ QueueTypeOK' /\ BookTypeOK' /\ WorkerTypeOK' /\ RemainingOK'
     /\ SubmitInv'
    BY <1>17 DEF ClearPreemptAgain, TaskTypeOK, taskVars, QueueTypeOK,
       queueVars, BookTypeOK, bookVars, traceVars, WorkerTypeOK, workerVars,
       RemainingOK, IsShell, SubmitInv
  <2>2. ThreadTypeOK'
    BY <1>17 DEF ClearPreemptAgain, ThreadTypeOK, PCs, turnVars
  <2>3. TurnInv'
    BY <1>17 DEF ClearPreemptAgain, TurnInv, Loop, Holding
  <2>4. OnePlace'
    BY <1>17 DEF ClearPreemptAgain, OnePlace, AtScheduler, AtWorker, Holding,
       taskVars, queueVars, workerVars
  <2> QED BY <2>1, <2>2, <2>3, <2>4 DEF BaseInv, TypeOK
<1>18. ASSUME NEW c \in Clients, NEW b \in Commands, Receive(c, b) PROVE BaseInv'
  <2>1. QueueTypeOK' /\ BookTypeOK'
    BY <1>18 DEF Receive, QueueTypeOK, queueVars, BookTypeOK, bookVars,
       traceVars
  <2>2. TaskTypeOK'
    BY <1>18, MaxTasksAssumption, CommandsFacts DEF Receive, TaskTypeOK,
       Statuses, Tasks
  <2>3. ThreadTypeOK'
    BY <1>18 DEF Receive, ThreadTypeOK
  <2>4. WorkerTypeOK'
    BY <1>18 DEF Receive, WorkerTypeOK
  <2>5. RemainingOK'
    <3>1. IF b = ShellBurst THEN TRUE ELSE b \in 0 .. b
      BY CommandsFacts
    <3>2. nextTask \in Tasks /\ burst'[nextTask] = b /\ remaining'[nextTask] = b
      BY <1>18 DEF Receive, TaskTypeOK
    <3> QED BY <1>18, <3>1, <3>2 DEF Receive, RemainingOK, IsShell
  <2>6. TurnInv'
    <3>1. pc \in Holding => sel # nextTask
      BY <1>18, TasksFacts DEF Receive, OnePlace, AtScheduler, SubmitInv
    <3> QED BY <1>18, <3>1 DEF Receive, TurnInv, IsShell, Loop, Holding,
               bookVars
  <2>7. SubmitInv'
    BY <1>18 DEF Receive, SubmitInv, TaskTypeOK, WorkerTypeOK
  <2>8. OnePlace'
    BY <1>18 DEF Receive, OnePlace, AtScheduler, AtWorker, SubmitInv,
       TaskTypeOK, WorkerTypeOK, queueVars
  <2> QED BY <2>1, <2>2, <2>3, <2>4, <2>5, <2>6, <2>7, <2>8 DEF BaseInv, TypeOK
<1>19. ASSUME NEW c \in Clients, Enqueue(c) PROVE BaseInv'
  <2>1. TaskTypeOK' /\ BookTypeOK' /\ ThreadTypeOK' /\ RemainingOK' /\ TurnInv'
    BY <1>19 DEF Enqueue, TaskTypeOK, taskVars, BookTypeOK, bookVars, traceVars,
       ThreadTypeOK, turnVars, RemainingOK, IsShell, TurnInv
  <2>2. QueueTypeOK'
    BY <1>19 DEF Enqueue, QueueTypeOK, SubmitInv
  <2>3. WorkerTypeOK'
    BY <1>19 DEF Enqueue, WorkerTypeOK
  <2>4. SubmitInv'
    BY <1>19 DEF Enqueue, SubmitInv, TaskTypeOK, taskVars
  <2>5. OnePlace'
    BY <1>19 DEF Enqueue, OnePlace, AtScheduler, AtWorker, WorkerTypeOK,
       taskVars, turnVars
  <2> QED BY <2>1, <2>2, <2>3, <2>4, <2>5 DEF BaseInv, TypeOK
<1>20. ASSUME NEW c \in Clients, Notify(c) PROVE BaseInv'
  <2>1. TaskTypeOK' /\ QueueTypeOK' /\ BookTypeOK' /\ RemainingOK' /\ TurnInv'
    BY <1>20 DEF Notify, TaskTypeOK, taskVars, QueueTypeOK, queueVars,
       BookTypeOK, bookVars, traceVars, RemainingOK, IsShell, TurnInv, turnVars
  <2>2. ThreadTypeOK'
    BY <1>20 DEF Notify, FlagAfterArrival, ThreadTypeOK, turnVars
  <2>3. WorkerTypeOK'
    BY <1>20 DEF Notify, WorkerTypeOK
  <2>4. SubmitInv'
    BY <1>20 DEF Notify, SubmitInv, WorkerTypeOK, taskVars
  <2>5. OnePlace'
    BY <1>20 DEF Notify, OnePlace, AtScheduler, AtWorker, taskVars, queueVars,
       turnVars
  <2> QED BY <2>1, <2>2, <2>3, <2>4, <2>5 DEF BaseInv, TypeOK
<1>21. ASSUME NEW c \in Clients, Disconnect(c) PROVE BaseInv'
  <2>1. BookTypeOK' /\ ThreadTypeOK' /\ RemainingOK'
    BY <1>21 DEF Disconnect, BookTypeOK, bookVars, traceVars, ThreadTypeOK,
       turnVars, RemainingOK, IsShell
  <2>2. TaskTypeOK'
    BY <1>21 DEF Disconnect, TaskTypeOK, Statuses
  <2>3. QueueTypeOK'
    BY <1>21 DEF Disconnect, QueueTypeOK
  <2>4. WorkerTypeOK'
    BY <1>21 DEF Disconnect, WorkerTypeOK
  <2>5. TurnInv'
    BY <1>21 DEF Disconnect, TurnInv, IsShell, bookVars, turnVars
  <2>6. SubmitInv'
    BY <1>21 DEF Disconnect, QueuedOf, SubmitInv, OnePlace
  <2>7. OnePlace'
    BY <1>21 DEF Disconnect, QueuedOf, OnePlace, AtScheduler, AtWorker, turnVars
  <2> QED BY <2>1, <2>2, <2>3, <2>4, <2>5, <2>6, <2>7 DEF BaseInv, TypeOK
<1>22. CASE UNCHANGED vars
  BY <1>22 DEF vars, taskVars, queueVars, bookVars, traceVars, turnVars,
     workerVars, BaseInv, TypeOK, TaskTypeOK, QueueTypeOK, BookTypeOK,
     ThreadTypeOK, WorkerTypeOK, RemainingOK, TurnInv, SubmitInv, OnePlace,
     AtScheduler, AtWorker, IsShell
<1> QED BY <1>1, <1>2, <1>3, <1>4, <1>5, <1>6, <1>7, <1>8, <1>9, <1>10, <1>11,
           <1>12, <1>13, <1>14, <1>15, <1>16, <1>17, <1>18, <1>19, <1>20, <1>21,
           <1>22 DEF Next, SchedulerStep, Submit

LEMMA BaseInvariant == Spec => []BaseInv
BY BaseInit, BaseStep, PTL DEF Spec

\* Every variable keeps its type, and remaining_time and the trace their
\* bounds, whatever the threads do.
THEOREM TypeCorrect == Spec => []TypeOK
<1>1. BaseInv => TypeOK
  BY DEF BaseInv
<1> QED
  BY <1>1, BaseInvariant, PTL

\* No task is lost, none is run twice, and the scheduler thread never uses a
\* freed one: every unfinished task is in exactly one place.
THEOREM TasksInOnePlace == Spec => []OnePlace
<1>1. BaseInv => OnePlace
  BY DEF BaseInv
<1> QED
  BY <1>1, BaseInvariant, PTL

-----------------------------------------------------------------------------
(* The output of demos *)

LEMMA OutputStep == BaseInv /\ OutputInOrder /\ [Next]_vars => OutputInOrder'
<1> SUFFICES ASSUME BaseInv, OutputInOrder, [Next]_vars PROVE OutputInOrder'
  OBVIOUS
<1>1. CASE SchedulerInit
  BY <1>1 DEF SchedulerInit, OutputInOrder, IsShell, taskVars
<1>2. CASE PeekTask
  BY <1>2 DEF PeekTask, OutputInOrder, IsShell, taskVars
<1>3. CASE PeekEmpty
  BY <1>3 DEF PeekEmpty, OutputInOrder, IsShell, taskVars
<1>4. CASE DequeueTask
  BY <1>4 DEF DequeueTask, OutputInOrder, IsShell, taskVars
<1>5. CASE DequeueGone
  BY <1>5 DEF DequeueGone, OutputInOrder, IsShell, taskVars
<1>6. CASE DequeueRecycled
  BY <1>6 DEF DequeueRecycled, OutputInOrder, IsShell, taskVars
<1>7. CASE SetCurrent
  BY <1>7 DEF SetCurrent, OutputInOrder, IsShell, taskVars
<1>8. CASE ClearPreempt
  BY <1>8 DEF ClearPreempt, OutputInOrder, IsShell, taskVars
<1>9. CASE RunShell
  BY <1>9 DEF RunShell, OutputInOrder, IsShell, BaseInv, TurnInv, taskVars,
     turnVars
<1>10. CASE ShellForkFails
  BY <1>10 DEF ShellForkFails, OutputInOrder, IsShell
<1>11. CASE RunSlice
  <2>1. sel \in Tasks /\ ~IsShell(sel) /\ status[sel] = "live"
    BY <1>11 DEF RunSlice, BaseInv, TurnInv, Holding, Loop, OnePlace,
       AtScheduler
  <2>2. lines[sel] = burst[sel] - remaining[sel]
    BY <1>11, <2>1, CommandsFacts DEF RunSlice, OutputInOrder, BaseInv, TypeOK,
       TaskTypeOK, ShellBurst
  <2>3. lines[sel] \in Nat /\ lines'[sel] = lines[sel] + 1 /\ sel' = sel
        /\ pc' \in {"update", "end"}
    BY <1>11, <2>1 DEF RunSlice, BaseInv, TypeOK, TaskTypeOK, turnVars
  <2>4. \A t \in Tasks \ {sel} : lines'[t] = lines[t]
    BY <1>11, <2>1 DEF RunSlice
  <2>5. status' = status /\ burst' = burst /\ remaining' = remaining
    BY <1>11 DEF RunSlice
  <2> QED
    BY <1>11, <2>1, <2>2, <2>3, <2>4, <2>5 DEF OutputInOrder, IsShell
<1>12. CASE UpdateTask
  <2>1. sel \in Tasks /\ ~IsShell(sel) /\ status[sel] = "live"
    BY <1>12 DEF UpdateTask, BaseInv, TurnInv, Holding, Loop, OnePlace,
       AtScheduler
  <2>2. lines[sel] = burst[sel] - remaining[sel] + 1
    BY <1>12, <2>1 DEF UpdateTask, OutputInOrder
  <2>3. burst[sel] \in Int /\ remaining[sel] \in Int
    BY <2>1, CommandsFacts DEF BaseInv, TypeOK, TaskTypeOK, ShellBurst
  <2>4. remaining'[sel] = remaining[sel] - 1 /\ sel' = sel /\ pc' = "check"
    BY <1>12, <2>1 DEF UpdateTask, BaseInv, TypeOK, TaskTypeOK, turnVars
  <2>5. lines'[sel] = burst[sel] - remaining'[sel] + 0
    BY <1>12, <2>2, <2>3, <2>4 DEF UpdateTask
  <2>6. \A t \in Tasks \ {sel} : remaining'[t] = remaining[t]
    BY <1>12, <2>1 DEF UpdateTask
  <2>7. status' = status /\ burst' = burst /\ lines' = lines
    BY <1>12 DEF UpdateTask
  <2> QED
    BY <1>12, <2>1, <2>4, <2>5, <2>6, <2>7 DEF OutputInOrder, IsShell
<1>13. CASE CheckPreempt
  BY <1>13 DEF CheckPreempt, OutputInOrder, IsShell, taskVars
<1>14. CASE EndTask
  <2>1. sel \in Tasks /\ status[sel] = "live"
    BY <1>14 DEF EndTask, BaseInv, TurnInv, Holding, OnePlace, AtScheduler
  <2>2. ~IsShell(sel) => lines[sel] = burst[sel] + 1
    <3>1. SUFFICES ASSUME ~IsShell(sel) PROVE lines[sel] = burst[sel] + 1
      OBVIOUS
    <3>2. lines[sel] = burst[sel] - remaining[sel] + 1 /\ remaining[sel] = 0
      BY <1>14, <2>1, <3>1 DEF EndTask, OutputInOrder, BaseInv, TurnInv
    <3>3. burst[sel] \in Int
      BY <2>1, CommandsFacts DEF BaseInv, TypeOK, TaskTypeOK, ShellBurst
    <3> QED BY <3>2, <3>3
  <2>3. status'[sel] = "ended" /\ \A t \in Tasks \ {sel} : status'[t] = status[t]
    BY <1>14, <2>1 DEF EndTask, BaseInv, TypeOK, TaskTypeOK
  <2>4. burst' = burst /\ remaining' = remaining /\ lines' = lines /\ sel' = sel
    BY <1>14 DEF EndTask, turnVars
  <2> QED
    BY <1>14, <2>1, <2>2, <2>3, <2>4 DEF OutputInOrder, IsShell
<1>15. CASE RequeueDemo
  BY <1>15 DEF RequeueDemo, OutputInOrder, IsShell
<1>16. CASE ClearCurrent
  BY <1>16 DEF ClearCurrent, OutputInOrder, IsShell, taskVars
<1>17. CASE ClearPreemptAgain
  BY <1>17 DEF ClearPreemptAgain, OutputInOrder, IsShell, taskVars
<1>18. ASSUME NEW c \in Clients, NEW b \in Commands, Receive(c, b) PROVE OutputInOrder'
  <2>1. nextTask \in Tasks /\ status[nextTask] = "none" /\ lines[nextTask] = 0
    BY <1>18, TasksFacts DEF Receive, BaseInv, SubmitInv
  <2>2. pc \in {"update", "end"} => sel # nextTask
    BY <1>18, <2>1 DEF BaseInv, OnePlace, AtScheduler, Holding
  <2>3. burst'[nextTask] = b /\ remaining'[nextTask] = b /\ b - b = 0
        /\ status'[nextTask] = "live"
    BY <1>18, <2>1, CommandsFacts DEF Receive, BaseInv, TypeOK, TaskTypeOK,
       ShellBurst
  <2>4. \A t \in Tasks \ {nextTask} : /\ status'[t] = status[t] /\ burst'[t] = burst[t]
                                      /\ remaining'[t] = remaining[t]
    BY <1>18 DEF Receive
  <2>5. lines' = lines /\ pc' = pc /\ sel' = sel
    BY <1>18 DEF Receive
  <2> QED
    BY <2>1, <2>2, <2>3, <2>4, <2>5 DEF OutputInOrder, IsShell
<1>19. ASSUME NEW c \in Clients, Enqueue(c) PROVE OutputInOrder'
  BY <1>19 DEF Enqueue, OutputInOrder, IsShell, taskVars, turnVars
<1>20. ASSUME NEW c \in Clients, Notify(c) PROVE OutputInOrder'
  BY <1>20 DEF Notify, OutputInOrder, IsShell, taskVars, turnVars
<1>21. ASSUME NEW c \in Clients, Disconnect(c) PROVE OutputInOrder'
  BY <1>21 DEF Disconnect, QueuedOf, OutputInOrder, IsShell, BaseInv, OnePlace,
     turnVars
<1>22. CASE UNCHANGED vars
  BY <1>22 DEF OutputInOrder, IsShell, vars, taskVars, turnVars
<1> QED BY <1>1, <1>2, <1>3, <1>4, <1>5, <1>6, <1>7, <1>8, <1>9, <1>10, <1>11,
           <1>12, <1>13, <1>14, <1>15, <1>16, <1>17, <1>18, <1>19, <1>20, <1>21,
           <1>22 DEF Next, SchedulerStep, Submit

\* A demo's client gets every line once and in order, however the demo's
\* turns are cut up.
THEOREM OutputCorrect == Spec => []OutputInOrder
<1>1. Init => OutputInOrder
  BY DEF Init, OutputInOrder
<1> QED
  BY <1>1, BaseInvariant, OutputStep, PTL DEF Spec

-----------------------------------------------------------------------------
(* current_task *)

LEMMA CurrentStep == BaseInv /\ CurrentTaskWindow /\ [Next]_vars => CurrentTaskWindow'
<1> SUFFICES ASSUME BaseInv, CurrentTaskWindow, [Next]_vars PROVE CurrentTaskWindow'
  OBVIOUS
<1>1. CASE SchedulerInit
  BY <1>1 DEF SchedulerInit, CurrentTaskWindow, Announced
<1>2. CASE PeekTask
  BY <1>2 DEF PeekTask, CurrentTaskWindow, Announced
<1>3. CASE PeekEmpty
  BY <1>3 DEF PeekEmpty, CurrentTaskWindow, Announced
<1>4. CASE DequeueTask
  BY <1>4 DEF DequeueTask, CurrentTaskWindow, Announced
<1>5. CASE DequeueGone
  BY <1>5 DEF DequeueGone, CurrentTaskWindow, Announced
<1>6. CASE DequeueRecycled
  BY <1>6 DEF DequeueRecycled, CurrentTaskWindow, Announced
<1>7. CASE SetCurrent
  BY <1>7, TasksFacts DEF SetCurrent, CurrentTaskWindow, Readable, Announced,
     BaseInv, TurnInv, OnePlace, AtScheduler, Holding, taskVars, turnVars
<1>8. CASE ClearPreempt
  BY <1>8 DEF ClearPreempt, CurrentTaskWindow, Readable, Announced, taskVars
<1>9. CASE RunShell
  BY <1>9 DEF RunShell, CurrentTaskWindow, Readable, Announced, taskVars,
     turnVars
<1>10. CASE ShellForkFails
  BY <1>10 DEF ShellForkFails, CurrentTaskWindow, Announced
<1>11. CASE RunSlice
  BY <1>11 DEF RunSlice, CurrentTaskWindow, Readable, Announced, turnVars
<1>12. CASE UpdateTask
  BY <1>12 DEF UpdateTask, CurrentTaskWindow, Readable, Announced, turnVars
<1>13. CASE CheckPreempt
  BY <1>13 DEF CheckPreempt, CurrentTaskWindow, Readable, Announced, taskVars
<1>14. CASE EndTask
  BY <1>14 DEF EndTask, CurrentTaskWindow, Announced, turnVars
<1>15. CASE RequeueDemo
  BY <1>15 DEF RequeueDemo, CurrentTaskWindow, Announced, turnVars
<1>16. CASE ClearCurrent
  BY <1>16 DEF ClearCurrent, CurrentTaskWindow, Announced
<1>17. CASE ClearPreemptAgain
  BY <1>17 DEF ClearPreemptAgain, CurrentTaskWindow, Announced
<1>18. ASSUME NEW c \in Clients, NEW b \in Commands, Receive(c, b) PROVE
   CurrentTaskWindow'
  BY <1>18 DEF Receive, CurrentTaskWindow, Readable
<1>19. ASSUME NEW c \in Clients, Enqueue(c) PROVE CurrentTaskWindow'
  BY <1>19 DEF Enqueue, CurrentTaskWindow, Readable, taskVars, turnVars
<1>20. ASSUME NEW c \in Clients, Notify(c) PROVE CurrentTaskWindow'
  BY <1>20 DEF Notify, CurrentTaskWindow, Readable, taskVars, turnVars
<1>21. ASSUME NEW c \in Clients, Disconnect(c) PROVE CurrentTaskWindow'
  <2>1. pc \in Holding => sel \notin QueuedOf(c)
    BY <1>21 DEF BaseInv, TurnInv, OnePlace, AtScheduler, QueuedOf
  <2>2. \A t \in Tasks : t \notin QueuedOf(c) => status'[t] = status[t]
    BY <1>21 DEF Disconnect
  <2>3. current' = current /\ sel' = sel /\ pc' = pc
    BY <1>21 DEF Disconnect, turnVars
  <2>4. current # NoTask => current \in Tasks
    BY DEF BaseInv, TypeOK, ThreadTypeOK
  <2> QED
    BY <2>1, <2>2, <2>3, <2>4 DEF CurrentTaskWindow, Readable, Announced,
       Holding
<1>22. CASE UNCHANGED vars
  BY <1>22 DEF CurrentTaskWindow, Readable, vars, taskVars, turnVars
<1> QED BY <1>1, <1>2, <1>3, <1>4, <1>5, <1>6, <1>7, <1>8, <1>9, <1>10, <1>11,
           <1>12, <1>13, <1>14, <1>15, <1>16, <1>17, <1>18, <1>19, <1>20, <1>21,
           <1>22 DEF Next, SchedulerStep, Submit

\* current_task points at freed memory only while a turn is being wound up.
THEOREM CurrentTaskCorrect == Spec => []CurrentTaskWindow
<1>1. Init => CurrentTaskWindow
  BY DEF Init, CurrentTaskWindow, Announced
<1> QED
  BY <1>1, BaseInvariant, CurrentStep, PTL DEF Spec

-----------------------------------------------------------------------------
(* Clients that leave *)

LEMMA OrphanStep == BaseInv /\ OrphanBound /\ [Next]_vars => OrphanBound'
<1> SUFFICES ASSUME BaseInv, OrphanBound, [Next]_vars PROVE OrphanBound'
  OBVIOUS
<1>1. CASE SchedulerInit
  BY <1>1 DEF SchedulerInit, OrphanBound, taskVars, workerVars
<1>2. CASE PeekTask
  BY <1>2 DEF PeekTask, OrphanBound, taskVars, workerVars
<1>3. CASE PeekEmpty
  BY <1>3 DEF PeekEmpty, OrphanBound, taskVars, workerVars
<1>4. CASE DequeueTask
  BY <1>4 DEF DequeueTask, OrphanBound, taskVars, workerVars
<1>5. CASE DequeueGone
  BY <1>5 DEF DequeueGone, OrphanBound, taskVars, workerVars
<1>6. CASE DequeueRecycled
  BY <1>6 DEF DequeueRecycled, OrphanBound, taskVars, workerVars
<1>7. CASE SetCurrent
  BY <1>7 DEF SetCurrent, OrphanBound, taskVars, workerVars
<1>8. CASE ClearPreempt
  BY <1>8 DEF ClearPreempt, OrphanBound, taskVars, workerVars
<1>9. CASE RunShell
  BY <1>9 DEF RunShell, OrphanBound, taskVars, workerVars
<1>10. CASE ShellForkFails
  BY <1>10 DEF ShellForkFails, OrphanBound, workerVars
<1>11. CASE RunSlice
  BY <1>11 DEF RunSlice, OrphanBound, workerVars
<1>12. CASE UpdateTask
  BY <1>12 DEF UpdateTask, OrphanBound, workerVars
<1>13. CASE CheckPreempt
  BY <1>13 DEF CheckPreempt, OrphanBound, taskVars, workerVars
<1>14. CASE EndTask
  BY <1>14 DEF EndTask, OrphanBound, workerVars
<1>15. CASE RequeueDemo
  BY <1>15 DEF RequeueDemo, OrphanBound, workerVars
<1>16. CASE ClearCurrent
  BY <1>16 DEF ClearCurrent, OrphanBound, taskVars, workerVars
<1>17. CASE ClearPreemptAgain
  BY <1>17 DEF ClearPreemptAgain, OrphanBound, taskVars, workerVars
<1>18. ASSUME NEW c \in Clients, NEW b \in Commands, Receive(c, b) PROVE OrphanBound'
  BY <1>18 DEF Receive, OrphanBound, BaseInv, TypeOK, TaskTypeOK
<1>19. ASSUME NEW c \in Clients, Enqueue(c) PROVE OrphanBound'
  BY <1>19 DEF Enqueue, OrphanBound, taskVars
<1>20. ASSUME NEW c \in Clients, Notify(c) PROVE OrphanBound'
  BY <1>20 DEF Notify, OrphanBound, taskVars
<1>21. ASSUME NEW c \in Clients, Disconnect(c) PROVE OrphanBound'
  BY <1>21 DEF Disconnect, QueuedOf, OrphanBound, BaseInv, OnePlace,
     AtScheduler, AtWorker
<1>22. CASE UNCHANGED vars
  BY <1>22 DEF OrphanBound, vars, taskVars, workerVars
<1> QED BY <1>1, <1>2, <1>3, <1>4, <1>5, <1>6, <1>7, <1>8, <1>9, <1>10, <1>11,
           <1>12, <1>13, <1>14, <1>15, <1>16, <1>17, <1>18, <1>19, <1>20, <1>21,
           <1>22 DEF Next, SchedulerStep, Submit

\* A client that leaves has at most one task left, whatever it had queued.
THEOREM OrphansBounded == Spec => []OrphanBound
<1>1. Init => OrphanBound
  BY DEF Init, OrphanBound
<1> QED
  BY <1>1, BaseInvariant, OrphanStep, PTL DEF Spec

-----------------------------------------------------------------------------
(* The trace *)

\* During a demo's turn the trace may lack the time of that turn so far, and
\* no more.
Timed == {"slice", "update", "check", "requeue", "end"}

TraceInv ==
  \/ traceTime = timeUsed
  \/ traceLen = TraceCapacity
  \/ pc \in Timed /\ ~IsShell(sel) /\ timeUsed > startTime

LEMMA TraceStep == BaseInv /\ TraceInv /\ [Next]_vars => TraceInv'
<1> SUFFICES ASSUME BaseInv, TraceInv, [Next]_vars PROVE TraceInv'
  OBVIOUS
<1>1. CASE SchedulerInit
  BY <1>1 DEF SchedulerInit, TraceInv
<1>2. CASE PeekTask
  BY <1>2 DEF PeekTask, TraceInv, Timed, bookVars, traceVars
<1>3. CASE PeekEmpty
  BY <1>3 DEF PeekEmpty, TraceInv, Timed, traceVars
<1>4. CASE DequeueTask
  BY <1>4 DEF DequeueTask, TraceInv, Timed, bookVars, traceVars
<1>5. CASE DequeueGone
  BY <1>5 DEF DequeueGone, TraceInv, Timed, bookVars, traceVars
<1>6. CASE DequeueRecycled
  BY <1>6 DEF DequeueRecycled, TraceInv, Timed, bookVars, traceVars
<1>7. CASE SetCurrent
  BY <1>7 DEF SetCurrent, TraceInv, Timed, bookVars, traceVars
<1>8. CASE ClearPreempt
  BY <1>8 DEF ClearPreempt, TraceInv, Timed, bookVars, traceVars
<1>9. CASE RunShell
  BY <1>9 DEF RunShell, TraceInv, Timed, bookVars, traceVars
<1>10. CASE ShellForkFails
  BY <1>10 DEF ShellForkFails, TraceInv, Timed, bookVars, traceVars
<1>11. CASE RunSlice
  BY <1>11 DEF RunSlice, TraceInv, Timed, IsShell, bookVars, traceVars, turnVars
<1>12. CASE UpdateTask
  BY <1>12 DEF UpdateTask, TraceInv, Timed, IsShell, BaseInv, TypeOK,
     BookTypeOK, ThreadTypeOK, TurnInv, Loop, turnVars
<1>13. CASE CheckPreempt
  BY <1>13 DEF CheckPreempt, TraceInv, Timed, IsShell, taskVars, bookVars,
     traceVars
<1>14. CASE EndTask
  BY <1>14, TraceAssumption DEF EndTask, RecordTrace, TraceInv, BaseInv, TypeOK,
     BookTypeOK, traceVars
<1>15. CASE RequeueDemo
  BY <1>15, TraceAssumption DEF RequeueDemo, RecordTrace, TraceInv, BaseInv,
     TypeOK, BookTypeOK, traceVars
<1>16. CASE ClearCurrent
  BY <1>16 DEF ClearCurrent, TraceInv, Timed, bookVars, traceVars
<1>17. CASE ClearPreemptAgain
  BY <1>17 DEF ClearPreemptAgain, TraceInv, Timed, bookVars, traceVars
<1>18. ASSUME NEW c \in Clients, NEW b \in Commands, Receive(c, b) PROVE TraceInv'
  BY <1>18 DEF Receive, TraceInv, Timed, IsShell, BaseInv, TypeOK, TaskTypeOK,
     OnePlace, AtScheduler, SubmitInv, Holding, bookVars, traceVars
<1>19. ASSUME NEW c \in Clients, Enqueue(c) PROVE TraceInv'
  BY <1>19 DEF Enqueue, TraceInv, IsShell, taskVars, bookVars, traceVars,
     turnVars
<1>20. ASSUME NEW c \in Clients, Notify(c) PROVE TraceInv'
  BY <1>20 DEF Notify, TraceInv, IsShell, taskVars, bookVars, traceVars,
     turnVars
<1>21. ASSUME NEW c \in Clients, Disconnect(c) PROVE TraceInv'
  BY <1>21 DEF Disconnect, TraceInv, IsShell, bookVars, traceVars, turnVars
<1>22. CASE UNCHANGED vars
  BY <1>22 DEF TraceInv, IsShell, vars, taskVars, bookVars, traceVars, turnVars
<1> QED BY <1>1, <1>2, <1>3, <1>4, <1>5, <1>6, <1>7, <1>8, <1>9, <1>10, <1>11,
           <1>12, <1>13, <1>14, <1>15, <1>16, <1>17, <1>18, <1>19, <1>20, <1>21,
           <1>22 DEF Next, SchedulerStep, Submit

\* Between turns the trace shows all the time used, unless it is full.
LEMMA TraceCorrect == Spec => []TraceAccounts
<1>1. Init => TraceInv
  BY DEF Init, TraceInv
<1>2. TraceInv => TraceAccounts
  BY DEF TraceInv, TraceAccounts, Timed
<1> QED
  BY <1>1, <1>2, BaseInvariant, TraceStep, PTL DEF Spec

-----------------------------------------------------------------------------
(* Preemption *)

HonouredStep ==
  flag /\ pc \in Running =>
    flag' /\ (pc = "check" => pc' \in {"check", "requeue"})

LEMMA PreemptionStep == BaseInv /\ [Next]_vars => HonouredStep
<1> SUFFICES ASSUME BaseInv, [Next]_vars PROVE HonouredStep
  OBVIOUS
<1>1. CASE SchedulerInit
  BY <1>1 DEF HonouredStep, SchedulerInit, Running
<1>2. CASE PeekTask
  BY <1>2 DEF HonouredStep, PeekTask
<1>3. CASE PeekEmpty
  BY <1>3 DEF HonouredStep, PeekEmpty
<1>4. CASE DequeueTask
  BY <1>4 DEF HonouredStep, DequeueTask
<1>5. CASE DequeueGone
  BY <1>5 DEF HonouredStep, DequeueGone
<1>6. CASE DequeueRecycled
  BY <1>6 DEF HonouredStep, DequeueRecycled
<1>7. CASE SetCurrent
  BY <1>7 DEF HonouredStep, SetCurrent
<1>8. CASE ClearPreempt
  BY <1>8 DEF HonouredStep, ClearPreempt, Running
<1>9. CASE RunShell
  BY <1>9 DEF HonouredStep, RunShell
<1>10. CASE ShellForkFails
  BY <1>10 DEF HonouredStep, ShellForkFails
<1>11. CASE RunSlice
  BY <1>11 DEF HonouredStep, RunSlice
<1>12. CASE UpdateTask
  BY <1>12 DEF HonouredStep, UpdateTask
<1>13. CASE CheckPreempt
  BY <1>13 DEF HonouredStep, CheckPreempt
<1>14. CASE EndTask
  BY <1>14 DEF HonouredStep, EndTask
<1>15. CASE RequeueDemo
  BY <1>15 DEF HonouredStep, RequeueDemo
<1>16. CASE ClearCurrent
  BY <1>16 DEF HonouredStep, ClearCurrent
<1>17. CASE ClearPreemptAgain
  BY <1>17 DEF HonouredStep, ClearPreemptAgain, Running
<1>18. ASSUME NEW c \in Clients, NEW b \in Commands, Receive(c, b) PROVE HonouredStep
  BY <1>18 DEF HonouredStep, Receive
<1>19. ASSUME NEW c \in Clients, Enqueue(c) PROVE HonouredStep
  BY <1>19 DEF HonouredStep, Enqueue
<1>20. ASSUME NEW c \in Clients, Notify(c) PROVE HonouredStep
  BY <1>20 DEF HonouredStep, Notify, FlagAfterArrival
<1>21. ASSUME NEW c \in Clients, Disconnect(c) PROVE HonouredStep
  BY <1>21 DEF HonouredStep, Disconnect
<1>22. CASE UNCHANGED vars
  BY <1>22 DEF HonouredStep, vars
<1> QED BY <1>1, <1>2, <1>3, <1>4, <1>5, <1>6, <1>7, <1>8, <1>9, <1>10, <1>11,
           <1>12, <1>13, <1>14, <1>15, <1>16, <1>17, <1>18, <1>19, <1>20, <1>21,
           <1>22 DEF Next, SchedulerStep, Submit

\* A preemption noted during a demo's turn ends it with the slice running.
THEOREM PreemptionCorrect == Spec => PreemptionHonoured
<1>1. BaseInv /\ [Next]_vars => [HonouredStep]_vars
  BY PreemptionStep
<1>2. [][HonouredStep]_vars => PreemptionHonoured
  BY PTL DEF PreemptionHonoured, HonouredStep
<1> QED
  BY <1>1, <1>2, BaseInvariant, PTL DEF Spec

-----------------------------------------------------------------------------
(* TimeAccounted *)

LEMMA LeastNumber ==
  ASSUME NEW S, S \subseteq Nat, S # {}
  PROVE  \E m \in S : \A n \in S : m <= n
<1>1. IsWellFoundedOn(OpToRel(<, Nat), Nat)
  BY NatLessThanWellFounded
<1>2. PICK m \in S : \A n \in S : ~ (<<n, m>> \in OpToRel(<, Nat))
  BY <1>1, WFMin
<1>3. ASSUME NEW n \in S PROVE m <= n
  <2>1. ~(n < m)
    BY <1>2 DEF OpToRel
  <2> QED BY <2>1
<1> QED BY <1>3

\* S[n] is f[1] + ... + f[n], for each n up to k.
Sums(S, f, k) ==
  /\ S \in [0 .. k -> Int]
  /\ S[0] = 0
  /\ \A n \in 1 .. k : S[n] = S[n - 1] + f[n]

LEMMA SumsExist ==
  ASSUME NEW N \in Nat, NEW f \in [1 .. N -> Int]
  PROVE  \E S : Sums(S, f, N)
<1> DEFINE bad == {k \in 0 .. N : ~ \E S : Sums(S, f, k)}
<1> SUFFICES ASSUME N \in bad PROVE FALSE
  <2>1. N \in 0 .. N
    OBVIOUS
  <2> QED BY <2>1
<1>1. bad \subseteq Nat /\ bad # {}
  OBVIOUS
<1>2. PICK m \in bad : \A n \in bad : m <= n
  <2> HIDE DEF bad
  <2> QED BY <1>1, LeastNumber
<1>3. m \in 0 .. N /\ ~ \E S : Sums(S, f, m)
  OBVIOUS
<1>4. m # 0
  <2>1. Sums([n \in 0 .. 0 |-> 0], f, 0)
    BY DEF Sums
  <2> QED BY <1>3, <2>1
<1>5. m - 1 \notin bad /\ m - 1 \in 0 .. N
  BY <1>2, <1>3, <1>4
<1>6. PICK S : Sums(S, f, m - 1)
  BY <1>5
<1> DEFINE T == [n \in 0 .. m |-> IF n = m THEN S[m - 1] + f[m] ELSE S[n]]
<1>7. Sums(T, f, m)
  <2>1. m \in 1 .. N /\ f[m] \in Int /\ S \in [0 .. m - 1 -> Int]
    BY <1>3, <1>4, <1>6 DEF Sums
  <2>2. T \in [0 .. m -> Int] /\ T[0] = 0
    BY <1>6, <2>1 DEF Sums
  <2>3. ASSUME NEW n \in 1 .. m PROVE T[n] = T[n - 1] + f[n]
    <3>1. CASE n = m
      BY <2>1, <3>1
    <3>2. CASE n \in 1 .. m - 1
      <4>1. S[n] = S[n - 1] + f[n]
        BY <1>6, <3>2 DEF Sums
      <4>2. n - 1 \in 0 .. m - 1 /\ n \in 0 .. m /\ n # m /\ n - 1 # m
        BY <2>1, <3>2
      <4> QED BY <2>1, <4>1, <4>2
    <3> QED BY <2>1, <3>1, <3>2
  <2> HIDE DEF T
  <2> QED BY <2>2, <2>3 DEF Sums
<1> QED BY <1>3, <1>7

\* What each task has used.
Used == [t \in Tasks |-> burst[t] - remaining[t]]

UsedIsSum == Sums(UsedUpTo, Used, MaxTasks)

LEMMA UsedSums == TaskTypeOK => UsedIsSum
<1> SUFFICES ASSUME TaskTypeOK PROVE Sums(UsedUpTo, Used, MaxTasks)
  BY DEF UsedIsSum
<1> DEFINE Step(S) == [n \in 0 .. MaxTasks |->
                         IF n = 0 THEN 0 ELSE S[n - 1] + (burst[n] - remaining[n])]
<1>1. Used \in [1 .. MaxTasks -> Int] /\ MaxTasks \in Nat /\ \A n \in 1 .. MaxTasks : Used[n] = burst[n] - remaining[n]
  <2>1. \A t \in Tasks : burst[t] \in Int /\ remaining[t] \in Int
    BY CommandsFacts DEF TaskTypeOK, ShellBurst
  <2> QED BY <2>1, MaxTasksAssumption DEF Used, Tasks
<1>2. PICK S : Sums(S, Used, MaxTasks)
  BY <1>1, SumsExist
<1>3. S = Step(S)
  BY <1>1, <1>2 DEF Sums
<1>4. UsedUpTo = CHOOSE T : T = Step(T)
  BY DEF UsedUpTo
<1> HIDE DEF Step
<1>5. UsedUpTo = Step(UsedUpTo)
  BY <1>3, <1>4
<1> DEFINE U == UsedUpTo
           bad == {n \in 0 .. MaxTasks : U[n] # S[n]}
<1>6. bad = {}
  <2> HIDE DEF U
  <2> SUFFICES ASSUME bad # {} PROVE FALSE
    OBVIOUS
  <2>1. bad \subseteq Nat
    BY <1>1
  <2>2. PICK m \in bad : \A n \in bad : m <= n
    <3> HIDE DEF bad
    <3> QED BY <2>1, LeastNumber
  <2>3. m \in 0 .. MaxTasks /\ U[m] # S[m]
    OBVIOUS
  <2>4. m # 0 => m - 1 \in 0 .. MaxTasks /\ U[m - 1] = S[m - 1]
    BY <1>1, <2>2, <2>3
  <2>5. U[m] = Step(U)[m] /\ S[m] = Step(S)[m]
    BY <1>3, <1>5 DEF U
  <2> HIDE DEF bad
  <2> QED BY <2>3, <2>4, <2>5 DEF Step
<1>7. U = S
  <2>1. S \in [0 .. MaxTasks -> Int] /\ DOMAIN U = 0 .. MaxTasks /\ U = [n \in 0 .. MaxTasks |-> U[n]]
    BY <1>2, <1>5 DEF Sums, Step
  <2>2. \A n \in 0 .. MaxTasks : U[n] = S[n]
    BY <1>6
  <2> HIDE DEF U
  <2> QED BY <2>1, <2>2
<1> HIDE DEF U
<1> QED BY <1>2, <1>7 DEF U

\* f and g differ only in the part of t, and there by d.
MoreAt(f, g, t, d, N) == g[t] = f[t] + d /\ \A u \in 1 .. N : u # t => g[u] = f[u]

\* Then their sums differ by d.
LEMMA SumsDiffer ==
  ASSUME NEW N \in Nat, NEW f \in [1 .. N -> Int], NEW g \in [1 .. N -> Int], NEW S, Sums(S, f, N), NEW T, Sums(T, g, N),
         NEW t \in 1 .. N, NEW d \in Int, MoreAt(f, g, t, d, N)
  PROVE  T[N] = S[N] + d
<1> DEFINE More(n) == IF n < t THEN 0 ELSE d
           bad == {n \in 0 .. N : T[n] # S[n] + More(n)}
<1>1. S \in [0 .. N -> Int] /\ T \in [0 .. N -> Int]
  BY DEF Sums
<1>2. bad = {}
  <2> SUFFICES ASSUME bad # {} PROVE FALSE
    OBVIOUS
  <2>1. bad \subseteq Nat
    OBVIOUS
  <2>2. PICK m \in bad : \A n \in bad : m <= n
    <3> HIDE DEF bad
    <3> QED BY <2>1, LeastNumber
  <2>3. m \in 0 .. N /\ T[m] # S[m] + More(m)
    OBVIOUS
  <2>4. m # 0
    BY <2>3 DEF Sums
  <2>5. m - 1 \in 0 .. N /\ T[m - 1] = S[m - 1] + More(m - 1)
    BY <2>2, <2>3, <2>4
  <2> HIDE DEF bad
  <2>6. m \in 1 .. N
    BY <2>3, <2>4
  <2>7. S[m] = S[m - 1] + f[m] /\ T[m] = T[m - 1] + g[m]
    BY <2>6 DEF Sums
  <2>8. S[m - 1] \in Int /\ T[m - 1] \in Int /\ f[m] \in Int /\ g[m] \in Int
    BY <1>1, <2>5, <2>6
  <2>9. CASE m = t
    BY <2>3, <2>5, <2>6, <2>7, <2>8, <2>9 DEF MoreAt
  <2>10. CASE m # t
    <3>1. g[m] = f[m] /\ More(m) = More(m - 1)
      BY <2>6, <2>10 DEF MoreAt
    <3> HIDE DEF More
    <3>2. More(m - 1) \in Int
      BY DEF More
    <3> QED BY <2>3, <2>5, <2>7, <2>8, <3>1, <3>2
  <2> QED BY <2>9, <2>10
<1>3. N \in 0 .. N /\ ~(N < t)
  OBVIOUS
<1> QED BY <1>2, <1>3

LEMMA SumsSame ==
  ASSUME NEW N \in Nat, NEW f \in [1 .. N -> Int], NEW S, Sums(S, f, N), NEW T, Sums(T, f, N)
  PROVE  T[N] = S[N]
<1>1. CASE N = 0
  BY <1>1 DEF Sums
<1>2. CASE N # 0
  <2>1. 1 \in 1 .. N /\ MoreAt(f, f, 1, 0, N)
    BY <1>2 DEF MoreAt
  <2>2. T[N] = S[N] + 0 /\ S[N] \in Int
    <3>1. T[N] = S[N] + 0
      BY <2>1, SumsDiffer
    <3> QED BY <3>1 DEF Sums
  <2> QED BY <2>2
<1> QED BY <1>1, <1>2

\* If what all tasks have used is 0, the sum is.
LEMMA SumsZero ==
  ASSUME NEW N \in Nat, NEW f \in [1 .. N -> Int], \A t \in 1 .. N : f[t] = 0, NEW S, Sums(S, f, N)
  PROVE  S[N] = 0
<1> DEFINE Z == [n \in 0 .. N |-> 0]
<1>1. Sums(Z, f, N)
  BY DEF Sums
<1>2. Z[N] = 0
  OBVIOUS
<1> HIDE DEF Z
<1> QED BY <1>1, <1>2, SumsSame

\* Nothing is used before the scheduler thread has begun, nor of a task that
\* does not exist yet.
UnusedInv ==
  /\ pc = "init" => timeUsed = 0
  /\ \A t \in Tasks : t >= nextTask => burst[t] = remaining[t]

TimeInv == TimeAccounted /\ UnusedInv

\* The sum, when one task has used d more.
UsedMore(t, d) ==
  /\ burst'[t] - remaining'[t] = burst[t] - remaining[t] + d
  /\ \A u \in Tasks : u # t => burst'[u] - remaining'[u] = burst[u] - remaining[u]

LEMMA UsedFacts ==
  ASSUME TaskTypeOK
  PROVE  /\ MaxTasks \in Nat /\ Used \in [1 .. MaxTasks -> Int]
         /\ \A t \in Tasks : t \in 1 .. MaxTasks /\ Used[t] = burst[t] - remaining[t]
                             /\ burst[t] \in Int /\ remaining[t] \in Int
         /\ Sums(UsedUpTo, Used, MaxTasks) /\ UsedUpTo[MaxTasks] \in Int
<1>1. \A t \in Tasks : burst[t] \in Int /\ remaining[t] \in Int
  BY CommandsFacts DEF TaskTypeOK, ShellBurst
<1>2. /\ MaxTasks \in Nat /\ Used \in [1 .. MaxTasks -> Int]
      /\ \A t \in Tasks : t \in 1 .. MaxTasks /\ Used[t] = burst[t] - remaining[t]
  BY <1>1, MaxTasksAssumption DEF Used, Tasks
<1>3. Sums(UsedUpTo, Used, MaxTasks)
  BY UsedSums DEF UsedIsSum
<1>4. UsedUpTo[MaxTasks] \in Int
  BY <1>2, <1>3 DEF Sums
<1> QED BY <1>1, <1>2, <1>3, <1>4

UsedFormula ==
  /\ Used \in [1 .. MaxTasks -> Int]
  /\ \A t \in Tasks : Used[t] = burst[t] - remaining[t]
  /\ Sums(UsedUpTo, Used, MaxTasks)

LEMMA UsedTyped == TaskTypeOK => UsedFormula
BY UsedFacts DEF UsedFormula

LEMMA UsedNext ==
  ASSUME TaskTypeOK'
  PROVE  /\ Used' \in [1 .. MaxTasks -> Int]
         /\ \A t \in Tasks : Used'[t] = burst'[t] - remaining'[t]
         /\ Sums(UsedUpTo', Used', MaxTasks)
<1>1. UsedFormula'
  BY UsedTyped, PTL
<1> QED BY <1>1 DEF UsedFormula, Sums

LEMMA UsedMoreSum ==
  ASSUME TaskTypeOK, TaskTypeOK', NEW t \in Tasks, NEW d \in Int, UsedMore(t, d)
  PROVE  UsedUpTo[MaxTasks]' = UsedUpTo[MaxTasks] + d
<1>1. Used'[t] = Used[t] + d
  BY UsedFacts, UsedNext DEF UsedMore
<1>2. ASSUME NEW u \in 1 .. MaxTasks, u # t PROVE Used'[u] = Used[u]
  <2>1. u \in Tasks
    BY DEF Tasks
  <2> QED BY <1>2, <2>1, UsedFacts, UsedNext DEF UsedMore
<1>3. MaxTasks \in Nat /\ t \in 1 .. MaxTasks /\ Used \in [1 .. MaxTasks -> Int] /\ Sums(UsedUpTo, Used, MaxTasks)
  BY UsedFacts
<1>4. Used' \in [1 .. MaxTasks -> Int] /\ Sums(UsedUpTo', Used', MaxTasks)
  BY UsedNext
<1>5. MoreAt(Used, Used', t, d, MaxTasks)
  BY <1>1, <1>2 DEF MoreAt
<1>6. UsedUpTo'[MaxTasks] = UsedUpTo[MaxTasks] + d
  BY <1>3, <1>4, <1>5, SumsDiffer, SMTT(60)
<1> QED BY <1>6

LEMMA UsedSameSum ==
  ASSUME TaskTypeOK, TaskTypeOK', UNCHANGED <<burst, remaining>>
  PROVE  UsedUpTo[MaxTasks]' = UsedUpTo[MaxTasks]
<1>1. Used' = Used
  BY DEF Used
<1> QED BY <1>1, UsedFacts, UsedNext, SumsSame

LEMMA TimeInit == Init => TimeInv
<1> SUFFICES ASSUME Init PROVE TimeInv
  OBVIOUS
<1>1. TaskTypeOK
  BY TypeInit DEF TypeOK
<1>2. \A t \in 1 .. MaxTasks : Used[t] = 0
  <2>1. \A t \in Tasks : burst[t] = 0 /\ remaining[t] = 0
    BY DEF Init
  <2> QED BY <2>1 DEF Used, Tasks
<1>3. UsedUpTo[MaxTasks] = 0
  BY <1>1, <1>2, UsedFacts, SumsZero
<1> QED BY <1>3 DEF Init, TimeInv, TimeAccounted, UnusedInv

\* A step that uses no time.
LEMMA TimeSame ==
  ASSUME TimeInv, TaskTypeOK, TaskTypeOK', UNCHANGED <<burst, remaining, timeUsed, nextTask>>,
         pc' = "init" => pc = "init"
  PROVE  TimeInv'
<1>1. UsedUpTo[MaxTasks]' = UsedUpTo[MaxTasks]
  BY UsedSameSum
<1>2. TimeAccounted'
  BY <1>1 DEF TimeInv, TimeAccounted
<1> QED BY <1>2 DEF TimeInv, UnusedInv

LEMMA TimeStep == BaseInv /\ BaseInv' /\ TimeInv /\ [Next]_vars => TimeInv'
<1> SUFFICES ASSUME BaseInv, BaseInv', TimeInv, [Next]_vars PROVE TimeInv'
  OBVIOUS
<1> USE DEF bookVars, taskVars
<1>0. TaskTypeOK /\ TaskTypeOK'
  BY DEF BaseInv, TypeOK
<1>1. CASE SchedulerInit
  BY <1>0, <1>1, TimeSame DEF SchedulerInit, TimeInv, UnusedInv
<1>2. CASE PeekTask \/ PeekEmpty \/ DequeueTask \/ DequeueGone \/ DequeueRecycled
  BY <1>0, <1>2, TimeSame DEF PeekTask, PeekEmpty, DequeueTask, DequeueGone, DequeueRecycled
<1>3. CASE SetCurrent \/ ClearPreempt \/ RunShell \/ ShellForkFails \/ RunSlice
  BY <1>0, <1>3, TimeSame DEF SetCurrent, ClearPreempt, RunShell, ShellForkFails, RunSlice
<1>4. CASE CheckPreempt \/ EndTask \/ RequeueDemo \/ ClearCurrent \/ ClearPreemptAgain
  BY <1>0, <1>4, TimeSame DEF CheckPreempt, EndTask, RequeueDemo, ClearCurrent, ClearPreemptAgain
<1>5. CASE UpdateTask
  <2>1. sel \in Tasks
    BY <1>5 DEF UpdateTask, BaseInv, TurnInv, Holding, Loop
  <2>2. UsedMore(sel, 1)
    BY <1>0, <1>5, <2>1, UsedFacts DEF UpdateTask, UsedMore, TaskTypeOK
  <2>3. UsedUpTo[MaxTasks]' = UsedUpTo[MaxTasks] + 1
    BY <1>0, <2>1, <2>2, UsedMoreSum
  <2>4. TimeAccounted'
    BY <1>5, <2>3 DEF TimeInv, TimeAccounted, UpdateTask
  <2>5. sel < nextTask
    <3>1. AtScheduler(sel)
      BY <1>5 DEF UpdateTask, AtScheduler, Holding
    <3>2. status[sel] = "live"
      BY <2>1, <3>1 DEF BaseInv, OnePlace
    <3>3. ~(sel >= nextTask)
      BY <2>1, <3>2 DEF BaseInv, SubmitInv
    <3> QED BY <1>0, <2>1, <3>3, TasksFacts DEF TaskTypeOK
  <2>6. \A t \in Tasks : t >= nextTask' => burst'[t] = remaining'[t]
    BY <1>0, <1>5, <2>1, <2>5, TasksFacts DEF UpdateTask, TimeInv, UnusedInv, TaskTypeOK
  <2>7. pc' # "init"
    BY <1>5 DEF UpdateTask
  <2> QED BY <2>4, <2>6, <2>7 DEF TimeInv, UnusedInv
<1>6. ASSUME NEW c \in Clients, NEW b \in Commands, Receive(c, b) PROVE TimeInv'
  <2>1. nextTask \in Tasks /\ nextTask' = nextTask + 1 /\ timeUsed' = timeUsed /\ pc' = pc
    BY <1>6 DEF Receive
  <2>2. burst'[nextTask] = b /\ remaining'[nextTask] = b /\ b \in Int
    BY <1>0, <1>6, <2>1, CommandsFacts DEF Receive, TaskTypeOK, ShellBurst
  <2>3. \A u \in Tasks : u # nextTask => burst'[u] = burst[u] /\ remaining'[u] = remaining[u]
    BY <1>0, <1>6 DEF Receive, TaskTypeOK
  <2>4. burst[nextTask] = remaining[nextTask]
    BY <1>0, <2>1, TasksFacts DEF TimeInv, UnusedInv
  <2>5. UsedMore(nextTask, 0)
    BY <1>0, <2>1, <2>2, <2>3, <2>4, UsedFacts DEF UsedMore
  <2>6. UsedUpTo[MaxTasks]' = UsedUpTo[MaxTasks] + 0 /\ UsedUpTo[MaxTasks] \in Int
    BY <1>0, <2>1, <2>5, UsedMoreSum, UsedFacts
  <2>7. TimeAccounted'
    BY <2>1, <2>6 DEF TimeInv, TimeAccounted
  <2>8. \A t \in Tasks : t >= nextTask' => burst'[t] = remaining'[t]
    BY <2>1, <2>3, TasksFacts DEF TimeInv, UnusedInv
  <2> QED BY <2>1, <2>7, <2>8 DEF TimeInv, UnusedInv
<1>7. ASSUME NEW c \in Clients, Enqueue(c) \/ Notify(c) \/ Disconnect(c) PROVE TimeInv'
  BY <1>0, <1>7, TimeSame DEF Enqueue, Notify, Disconnect, turnVars
<1>8. CASE UNCHANGED vars
  BY <1>0, <1>8, TimeSame DEF vars, turnVars
<1> QED BY <1>1, <1>2, <1>3, <1>4, <1>5, <1>6, <1>7, <1>8 DEF Next, SchedulerStep, Submit

\* However the tasks take turns, leave or are cancelled, total_time_used is
\* what they have used together, and the trace shows it between turns, unless
\* it is full (scheduler.c, lines 276-297 and 414-440).
THEOREM BooksCorrect == Spec => []BooksBalance
<1>1. Spec => []TimeInv
  BY BaseInvariant, TimeInit, TimeStep, PTL DEF Spec
<1> QED BY <1>1, TraceCorrect, PTL DEF TimeInv, BooksBalance
=============================================================================
