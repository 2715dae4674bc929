--------------------------- MODULE SchedulerList ---------------------------
(***************************************************************************)
(* Scheduler together with the list that scheduler_queue.c keeps.          *)
(*                                                                         *)
(* Scheduler has a set of queued tasks, and says which of them would be    *)
(* found first.  Here the list is a history variable beside it, and each   *)
(* call of the queue does to it what TaskQueue says the call does.  So the *)
(* set, the order of the tickets and the choice of a task can be held      *)
(* against what is linked from queue_head.                                 *)
(***************************************************************************)
EXTENDS Scheduler, Sequences

VARIABLE list     \* the tasks linked from queue_head, in their order

\* The queue as its callers see it, idle: no call is under way.
List == INSTANCE TaskQueue WITH request <- [op |-> "idle", arg |-> NoTask],
                                answer <- NoTask

listVars == <<vars, list>>

ListInit == Init /\ list = <<>>

-----------------------------------------------------------------------------
\* The new task, or the requeued one, goes behind queue_tail.
Linked(t) == list' = Append(list, t)

\* What is left of s when the tasks of S are unlinked.
Without(s, S) ==
  LET rest[n \in 0 .. Len(s)] ==
        IF n = 0 THEN <<>>
        ELSE IF s[n] \in S THEN rest[n - 1] ELSE Append(rest[n - 1], s[n])
  IN  rest[Len(s)]

Unlinked(S) == list' = Without(list, S)

\* enqueue_task and enqueue_task_requeue, dequeue_task_by_id when it finds
\* the task, and remove_tasks_for_client.
QueueStep ==
  \/ RequeueDemo /\ Linked(sel)
  \/ DequeueTask /\ Unlinked({sel})
  \/ DequeueRecycled /\ Unlinked({sel'})
  \/ \E c \in Clients :
       \/ Enqueue(c) /\ Linked(wtask[c])
       \/ Disconnect(c) /\ Unlinked({t \in Tasks : owner[t] = c})

\* All else that the threads do, a dequeue that finds nothing included.
OtherStep ==
  /\ \/ SchedulerInit \/ PeekTask \/ PeekEmpty \/ DequeueGone
     \/ SetCurrent \/ ClearPreempt
     \/ RunShell \/ ShellForkFails \/ RunSlice \/ UpdateTask \/ CheckPreempt
     \/ EndTask \/ ClearCurrent \/ ClearPreemptAgain
     \/ \E c \in Clients : (\E b \in Commands : Receive(c, b)) \/ Notify(c)
  /\ UNCHANGED list

ListNext == QueueStep \/ OtherStep

ListSpec == ListInit /\ [][ListNext]_listVars

-----------------------------------------------------------------------------
(* Properties *)

\* However the threads interleave, a requeue meets a disconnect, or the id of
\* a freed task is read: the list holds exactly the tasks that Scheduler has
\* in its queue, each once.  No task is enqueued that is still linked, which
\* would cut the rest of the list off (scheduler_queue.c, lines 96 and 125,
\* assume it), and none is left linked that has been taken out.
ListInStep == List!Queued = queue /\ List!IsInjective(list)

\* Whatever requeues have done to the order of the list, the task that
\* Scheduler's peek chooses is the one TaskQueue's does, which walks the list:
\* the first linked shell command is the one first enqueued, and ties between
\* demos depend on arrival only (scheduler_queue.c, lines 216-278).  It finds
\* none only if the list is empty.
SameChoice ==
  /\ \A t \in Tasks : t \in queue /\ IsBest(t, lastSelected) <=> List!IsBest(t, lastSelected)
  /\ List!IsBest(NoTask, lastSelected) <=> ~ \E t \in queue : IsBest(t, lastSelected)

\* The set of queued tasks, with their tickets, stands for the list.
QueueIsList == ListInStep /\ SameChoice

\* The threads use the queue as TaskQueue wants it used, and it does to the
\* list what TaskQueue promises: a task is added that is not linked, or one
\* task or those of one client leave it.  While a task is linked nobody writes
\* what the loops over the queue read of it: remaining_time is written under
\* another mutex (scheduler.c, lines 283-297), and only for the task that runs.
QueueUsedAsPromised ==
  [][/\ \/ UNCHANGED list
        \/ \E t \in Tasks \ List!Queued : list' = Append(list, t)
        \/ \E t \in Tasks : List!Leave({t})
        \/ \E c \in Clients : List!Leave({t \in Tasks : owner[t] = c})
     /\ \A t \in List!Queued :
          /\ remaining'[t] = remaining[t]
          /\ owner'[t] = owner[t]
          /\ burst'[t] = burst[t]]_listVars
=============================================================================
