---------------------------- MODULE LinkedQueue ----------------------------
(***************************************************************************)
(* The waiting queue of scheduler_queue.c as the code keeps it: tasks      *)
(* linked by their next pointers from queue_head to queue_tail, and the    *)
(* loops that walk and relink them, one turn of a loop at a time.          *)
(*                                                                         *)
(* Every operation holds queue_mutex from beginning to end, so at most one *)
(* is under way, whichever thread called it: request is that operation,    *)
(* and the mutex is free when request is Idle.  What the threads do to     *)
(* each other between operations is the business of Scheduler.             *)
(*                                                                         *)
(* A task is its task_id, which is also its arrival_order.  What a task    *)
(* carries while it is queued, its owner and its remaining time, is chosen *)
(* at the start: nobody writes it while the queue is being read.           *)
(***************************************************************************)
EXTENDS Integers, SequencesExt

CONSTANTS
  MaxTasks,  \* bound: tasks created in one behaviour
  Clients,   \* client_ids
  Times      \* remaining times of demos

ASSUME MaxTasksAssumption == MaxTasks \in Nat
ASSUME TimesAssumption == Times \subseteq Nat

Tasks == 1 .. MaxTasks
NoTask == 0            \* the null pointer
ShellTime == -1        \* remaining_time of a TASK_SHELL
NoSelection == -1      \* last_selected_task_id when it excludes no task
Idle == [op |-> "idle", arg |-> NoTask]

VARIABLES
  head, tail,   \* queue_head and queue_tail
  next,         \* the next pointer of each task
  remaining,    \* remaining_time of each task
  owner,        \* client_id of each task
  place,        \* history: what was last done with each task
  request,      \* the operation that holds queue_mutex
  curr, prev,   \* its pointers into the list
  pass,         \* peek_best_task_sjrf: the loop it is in
  demoCount,    \* peek_best_task_sjrf: demo_count
  selected,     \* peek_best_task_sjrf: selected
  answer,       \* what the last operation returned
  before        \* history: the list when the operation took the mutex

fixedVars == <<remaining, owner>>
peekVars == <<pass, demoCount, selected>>
vars == <<head, tail, next, fixedVars, place, request, curr, prev, peekVars,
          answer, before>>

IsShell(t) == remaining[t] = ShellTime

-----------------------------------------------------------------------------
(* The list the pointers describe *)

\* The k-th pointer reached from queue_head.
Reached ==
  LET R[k \in 0 .. MaxTasks] ==
        IF k = 0 THEN head ELSE IF R[k - 1] = NoTask THEN NoTask ELSE next[R[k - 1]]
  IN  R

Length == Cardinality({k \in 0 .. MaxTasks : Reached[k] # NoTask})

\* The tasks from queue_head on, in order.
Linked == [i \in 1 .. Length |-> Reached[i - 1]]

-----------------------------------------------------------------------------
Init ==
  /\ head = NoTask /\ tail = NoTask
  /\ next = [t \in Tasks |-> NoTask]
  /\ remaining \in [Tasks -> Times \cup {ShellTime}]
  /\ owner \in [Tasks -> Clients]
  /\ place = [t \in Tasks |-> "new"]
  /\ request = Idle
  /\ curr = NoTask /\ prev = NoTask
  /\ pass = 0 /\ demoCount = 0 /\ selected = NoTask
  /\ answer = NoTask
  /\ before = <<>>

\* The operation releases queue_mutex; its local variables are gone.
Release ==
  /\ request' = Idle
  /\ curr' = NoTask /\ prev' = NoTask
  /\ pass' = 0 /\ demoCount' = 0 /\ selected' = NoTask
  /\ before' = <<>>

\* An operation takes queue_mutex and points at the first task.
Begin(op, arg) ==
  /\ request = Idle
  /\ request' = [op |-> op, arg |-> arg]
  /\ curr' = head
  /\ answer' = NoTask
  /\ before' = Linked
  /\ UNCHANGED <<head, tail, next, fixedVars, place, prev, demoCount, selected>>

-----------------------------------------------------------------------------
(* enqueue_task of a new task, enqueue_task_requeue of one that has run *)

LinkAtTail(t) ==
  /\ head' = IF tail = NoTask THEN t ELSE head
  /\ tail' = t
  /\ next' = [u \in Tasks |-> IF u = t THEN NoTask
                              ELSE IF u = tail THEN t ELSE next[u]]

Enqueue(t) ==
  /\ request = Idle
  /\ place[t] = "new" \/ (place[t] = "out" /\ ~IsShell(t))
  /\ LinkAtTail(t)
  /\ place' = [place EXCEPT ![t] = "in"]
  /\ UNCHANGED <<fixedVars, request, curr, prev, peekVars, answer, before>>

-----------------------------------------------------------------------------
(* dequeue_task_by_id *)

DequeueBegin(t) == Begin("dequeue", t) /\ UNCHANGED pass

\* A bug: the tail still points at the task that has been unlinked.
UnlinkKeepingTail(t) ==
  /\ head' = IF prev = NoTask THEN next[t] ELSE head
  /\ next' = [u \in Tasks |-> IF u = t THEN NoTask
                              ELSE IF u = prev THEN next[t] ELSE next[u]]
  /\ UNCHANGED tail

\* t, to which curr points, is taken out between prev and its successor.  Its
\* own pointer is set to null; when t is freed the code leaves that out.
Unlink(t) ==
  /\ head' = IF prev = NoTask THEN next[t] ELSE head
  /\ next' = [u \in Tasks |-> IF u = t THEN NoTask
                              ELSE IF u = prev THEN next[t] ELSE next[u]]
  /\ tail' = IF tail = t THEN prev ELSE tail

Advance ==
  /\ prev' = curr
  /\ curr' = next[curr]

DequeuePass ==
  /\ request.op = "dequeue" /\ curr \notin {NoTask, request.arg}
  /\ Advance
  /\ UNCHANGED <<head, tail, next, fixedVars, place, request, peekVars, answer, before>>

DequeueFound ==
  /\ request.op = "dequeue" /\ curr = request.arg
  /\ Unlink(curr)
  /\ place' = [place EXCEPT ![curr] = "out"]
  /\ answer' = 1
  /\ Release
  /\ UNCHANGED fixedVars

DequeueMissing ==
  /\ request.op = "dequeue" /\ curr = NoTask
  /\ answer' = 0
  /\ Release
  /\ UNCHANGED <<head, tail, next, fixedVars, place>>

-----------------------------------------------------------------------------
(* peek_best_task_sjrf *)

PeekBegin(last) == Begin("peek", last) /\ pass' = 1

\* Pass 1 stops at the first shell command (its burst_time is always -1) ...
PeekShell ==
  /\ request.op = "peek" /\ pass = 1
  /\ curr # NoTask /\ IsShell(curr)
  /\ answer' = curr
  /\ Release
  /\ UNCHANGED <<head, tail, next, fixedVars, place>>

PassedOver(t) == t = request.arg /\ demoCount > 1

\* A bug: the last of equals is preferred, not the first to arrive.
PrefersLast(t) ==
  /\ ~PassedOver(t)
  /\ selected = NoTask \/ remaining[t] <= remaining[selected]

\* Whether pass 3 prefers t to the task selected so far.  shortest_time is
\* the remaining time of that task.
Prefers(t) ==
  /\ ~PassedOver(t)
  /\ \/ selected = NoTask
     \/ remaining[t] < remaining[selected]
     \/ remaining[t] = remaining[selected] /\ t < selected

\* Two bugs: pass 3 goes on counting, and pass 3 does not get past the task
\* it passes over.
PeekPassCounting ==
  /\ request.op = "peek" /\ curr # NoTask
  /\ ~(pass = 1 /\ IsShell(curr))
  /\ demoCount' = IF pass >= 2 /\ ~IsShell(curr) THEN demoCount + 1 ELSE demoCount
  /\ selected' = IF pass = 3 /\ ~IsShell(curr) /\ Prefers(curr) THEN curr ELSE selected
  /\ curr' = next[curr]
  /\ UNCHANGED <<head, tail, next, fixedVars, place, request, prev, pass, answer, before>>
PeekPassStuck ==
  /\ request.op = "peek" /\ curr # NoTask
  /\ ~(pass = 1 /\ IsShell(curr))
  /\ demoCount' = IF pass = 2 /\ ~IsShell(curr) THEN demoCount + 1 ELSE demoCount
  /\ selected' = IF pass = 3 /\ ~IsShell(curr) /\ Prefers(curr) THEN curr ELSE selected
  /\ curr' = IF pass = 3 /\ PassedOver(curr) THEN curr ELSE next[curr]
  /\ UNCHANGED <<head, tail, next, fixedVars, place, request, prev, pass, answer, before>>

\* ... and otherwise each pass goes on to the next task: pass 2 counts the
\* demos, and pass 3 keeps the best one so far.
PeekPass ==
  /\ request.op = "peek" /\ curr # NoTask
  /\ ~(pass = 1 /\ IsShell(curr))
  /\ demoCount' = IF pass = 2 /\ ~IsShell(curr) THEN demoCount + 1 ELSE demoCount
  /\ selected' = IF pass = 3 /\ ~IsShell(curr) /\ Prefers(curr) THEN curr ELSE selected
  /\ curr' = next[curr]
  /\ UNCHANGED <<head, tail, next, fixedVars, place, request, prev, pass, answer, before>>

PeekNextPass ==
  /\ request.op = "peek" /\ curr = NoTask /\ pass < 3
  /\ pass' = pass + 1
  /\ curr' = head
  /\ UNCHANGED <<head, tail, next, fixedVars, place, request, prev, demoCount,
                 selected, answer, before>>

PeekEnd ==
  /\ request.op = "peek" /\ curr = NoTask /\ pass = 3
  /\ answer' = selected
  /\ Release
  /\ UNCHANGED <<head, tail, next, fixedVars, place>>

-----------------------------------------------------------------------------
(* remove_tasks_for_client *)

RemoveBegin(c) == Begin("remove", c) /\ UNCHANGED pass

\* A bug: prev follows curr onto the task that is freed.
RemoveTaskAdvancing ==
  /\ request.op = "remove" /\ curr # NoTask /\ owner[curr] = request.arg
  /\ Unlink(curr)
  /\ place' = [place EXCEPT ![curr] = "freed"]
  /\ Advance
  /\ UNCHANGED <<fixedVars, request, peekVars, answer, before>>

RemoveTask ==
  /\ request.op = "remove" /\ curr # NoTask /\ owner[curr] = request.arg
  /\ Unlink(curr)
  /\ place' = [place EXCEPT ![curr] = "freed"]
  /\ curr' = next[curr]
  /\ UNCHANGED <<fixedVars, request, prev, peekVars, answer, before>>

RemovePass ==
  /\ request.op = "remove" /\ curr # NoTask /\ owner[curr] # request.arg
  /\ Advance
  /\ UNCHANGED <<head, tail, next, fixedVars, place, request, peekVars, answer, before>>

RemoveEnd ==
  /\ request.op = "remove" /\ curr = NoTask
  /\ tail' = IF head = NoTask THEN NoTask ELSE tail
  /\ Release
  /\ UNCHANGED <<head, next, fixedVars, place, answer>>

-----------------------------------------------------------------------------
Next ==
  \/ \E t \in Tasks : Enqueue(t) \/ DequeueBegin(t)
  \/ DequeuePass \/ DequeueFound \/ DequeueMissing
  \/ \E last \in Tasks \cup {NoSelection} : PeekBegin(last)
  \/ PeekShell \/ PeekPass \/ PeekNextPass \/ PeekEnd
  \/ \E c \in Clients : RemoveBegin(c)
  \/ RemoveTask \/ RemovePass \/ RemoveEnd

Spec == Init /\ [][Next]_vars

\* A thread in one of these loops is not stopped in it.
FairSpec ==
  /\ Spec
  /\ WF_vars(DequeuePass \/ DequeueFound \/ DequeueMissing \/ PeekShell \/ PeekPass
             \/ PeekNextPass \/ PeekEnd \/ RemoveTask \/ RemovePass \/ RemoveEnd)

-----------------------------------------------------------------------------
(* Properties *)

TypeOK ==
  /\ {head, tail, curr, prev, selected} \subseteq Tasks \cup {NoTask}
  /\ next \in [Tasks -> Tasks \cup {NoTask}]
  /\ remaining \in [Tasks -> Times \cup {ShellTime}]
  /\ owner \in [Tasks -> Clients]
  /\ place \in [Tasks -> {"new", "in", "out", "freed"}]
  /\ pass \in 0 .. 3
  /\ demoCount \in 0 .. MaxTasks
  /\ answer \in Tasks \cup {NoTask, 1}

\* The list is whole whenever queue_mutex is free: from queue_head one reaches
\* exactly the tasks that are queued, each once, and queue_tail is the last of
\* them (scheduler_queue.c, lines 98-107, 183-198 and 296-324).
WellLinked ==
  request = Idle =>
    /\ ToSet(Linked) = {t \in Tasks : place[t] = "in"}
    /\ IsInjective(Linked)
    /\ tail = IF Linked = <<>> THEN NoTask ELSE Last(Linked)

\* No operation ever walks onto, or links to, a task that has been freed or
\* taken out: its pointers point at queued tasks (lines 178-207 and 290-319).
PointersStayInList ==
  \A p \in {head, curr, prev, selected} : p # NoTask => place[p] = "in"

\* Each operation does to the list what TaskQueue says, at one moment, and
\* returns what TaskQueue says.
Queue == INSTANCE TaskQueue
           WITH list <- IF request = Idle THEN Linked ELSE before

ImplementsTaskQueue == Queue!Spec

\* Every operation ends: no list it may find makes its loop go round for ever.
OperationsEnd == request # Idle ~> request = Idle

=============================================================================
