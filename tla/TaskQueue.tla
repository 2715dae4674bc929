----------------------------- MODULE TaskQueue -----------------------------
(***************************************************************************)
(* What scheduler_queue.c promises its callers: a list of tasks, and       *)
(* operations on it that each take effect at one moment, the one at which  *)
(* they return.                                                            *)
(*                                                                         *)
(* LinkedQueue implements this specification.                              *)
(***************************************************************************)
EXTENDS Integers, SequencesExt

CONSTANTS
  Tasks,     \* task_ids, which grow in order of arrival
  Clients    \* client_ids

VARIABLES
  list,      \* the queued tasks, in the order they were enqueued
  remaining, \* remaining_time of each task, -1 for a shell command
  owner,     \* client_id of each task
  request,   \* the operation under way
  answer     \* what the last operation returned

vars == <<list, remaining, owner, request, answer>>

NoTask == 0
Idle == [op |-> "idle", arg |-> NoTask]
Requests == [op : {"dequeue"}, arg : Tasks]
              \cup [op : {"peek"}, arg : Tasks \cup {-1}]
              \cup [op : {"remove"}, arg : Clients]

Queued == ToSet(list)
Shells == {t \in Queued : remaining[t] = -1}
Demos == Queued \ Shells
Eligible(last) == IF Demos \ {last} # {} THEN Demos \ {last} ELSE Demos

\* The first shell command of the list.  Failing that, of the demos, without
\* the last selected one if there are others: the one with the shortest
\* remaining time, and the first to arrive among equals.
IsBest(t, last) ==
  IF Shells # {}
    THEN \E i \in DOMAIN list : /\ list[i] = t /\ t \in Shells
                                /\ \A j \in 1 .. i - 1 : list[j] \notin Shells
  ELSE IF Demos # {}
    THEN /\ t \in Eligible(last)
         /\ \A u \in Eligible(last) \ {t} :
              remaining[t] < remaining[u] \/ (remaining[t] = remaining[u] /\ t < u)
  ELSE t = NoTask

Init ==
  /\ list = <<>>
  /\ remaining \in [Tasks -> Int]
  /\ owner \in [Tasks -> Clients]
  /\ request = Idle
  /\ answer = NoTask

Enqueue(t) ==
  /\ request = Idle
  /\ t \notin Queued
  /\ list' = Append(list, t)
  /\ UNCHANGED <<remaining, owner, request, answer>>

Call(r) ==
  /\ request = Idle
  /\ request' = r
  /\ answer' = NoTask
  /\ UNCHANGED <<list, remaining, owner>>

Before(t, u) == \E i, j \in DOMAIN list : i < j /\ list[i] = t /\ list[j] = u

\* The tasks of S leave the list, those that are in it; the others stay, each
\* in one place, in the order they had.
Leave(S) ==
  /\ Queued' = Queued \ S
  /\ IsInjective(list')
  /\ \A t, u \in Queued' : Before(t, u)' <=> Before(t, u)

\* dequeue_task_by_id
DequeueById ==
  /\ request.op = "dequeue"
  /\ answer' = IF request.arg \in Queued THEN 1 ELSE 0
  /\ Leave({request.arg})

\* peek_best_task_sjrf
PeekBest ==
  /\ request.op = "peek"
  /\ \E t \in Tasks \cup {NoTask} : IsBest(t, request.arg) /\ answer' = t
  /\ UNCHANGED list

\* remove_tasks_for_client
RemoveClient ==
  /\ request.op = "remove"
  /\ Leave({t \in Tasks : owner[t] = request.arg})
  /\ UNCHANGED answer

Return ==
  /\ DequeueById \/ PeekBest \/ RemoveClient
  /\ request' = Idle
  /\ UNCHANGED <<remaining, owner>>

Next == (\E t \in Tasks : Enqueue(t)) \/ (\E r \in Requests : Call(r)) \/ Return

Spec == Init /\ [][Next]_vars
=============================================================================
