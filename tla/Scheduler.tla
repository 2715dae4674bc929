------------------------------ MODULE Scheduler ------------------------------
(***************************************************************************)
(* The task scheduler of the shell server: the one scheduler thread        *)
(* (server.c, scheduler_thread), the client workers that submit commands   *)
(* to it (server.c, handle_client_session and client_worker_thread), the   *)
(* shared queue (scheduler_queue.c) and the shared scheduler state         *)
(* (scheduler.c).                                                          *)
(*                                                                         *)
(* Two mutexes protect that state.  queue_mutex covers one queue operation *)
(* at a time and scheduler_mutex one access to current_task, the preempt   *)
(* flag or the trace at a time, and nothing ever holds both.  So every     *)
(* action below is what a thread does between two moments at which another *)
(* thread can see, or change, something it uses: the windows between the   *)
(* actions are the windows between the locked regions of the code.         *)
(*                                                                         *)
(* Data is abstracted to what scheduling can tell apart.  A task is its    *)
(* task_id; a command is its predicted burst (the N of "demo N", or        *)
(* ShellBurst for anything else); output is a count of lines.  Sockets,    *)
(* the text of a command and the log are left out.                         *)
(***************************************************************************)
EXTENDS Integers

CONSTANTS
  Clients,          \* the connected clients, one worker thread each
  NoClient,         \* the owner of a task that does not exist yet
  Bursts,           \* the N of the "demo N" commands that may arrive
  MaxTasks,         \* bound: tasks created in one behaviour
  FirstQuantum,     \* slices of a demo's first turn (3 in the code)
  LaterQuantum,     \* slices of its later turns (7 in the code)
  MaxForkFailures,  \* bound: pipe() or fork() failures in one behaviour
  TraceCapacity     \* trace entries that fit the 4096 bytes of g_trace

ASSUME ClientsAssumption == NoClient \notin Clients
ASSUME BurstsAssumption == Bursts \subseteq Nat \ {0}
ASSUME MaxTasksAssumption == MaxTasks \in Nat
ASSUME QuantumAssumption == FirstQuantum \in Nat \ {0} /\ LaterQuantum \in Nat \ {0}
ASSUME ForkFailuresAssumption == MaxForkFailures \in Nat
ASSUME TraceAssumption == TraceCapacity \in Nat

Tasks == 1 .. MaxTasks
NoTask == 0                 \* the null pointer; no task_id is 0
NoSelection == -1           \* last_selected_task_id when it excludes no task
ShellBurst == -1            \* burst_time and remaining_time of a TASK_SHELL
Commands == Bursts \cup {ShellBurst}

VARIABLES
  \* Tasks, indexed by task_id.
  nextTask,        \* next_task_id (and next_arrival_order, always equal to it)
  status,          \* what became of the task's memory and of its answer
  owner,           \* client_id
  burst,           \* burst_time
  remaining,       \* remaining_time
  rounds,          \* round_count
  lines,           \* history: lines of a demo written to the client so far
  \* The queue, under queue_mutex.
  queue,           \* the tasks linked from queue_head
  ticket,          \* place of each task in the order of first enqueues
  lastTicket,      \* tasks enqueued for the first time so far
  \* Scheduler state, under scheduler_mutex or private to the thread.
  current,         \* g_scheduler.current_task
  flag,            \* g_preempt_flag
  lastSelected,    \* g_scheduler.last_selected_task_id
  completed,       \* g_scheduler.total_completed
  timeUsed,        \* g_scheduler.total_time_used
  traceLen,        \* entries in g_trace
  traceTime,       \* cumulative time shown by the last entry of g_trace
  \* The scheduler thread.
  pc,              \* where it is in scheduler_thread
  sel,             \* its local variable task
  slice,           \* its loop counter q
  startTime,       \* its local variable time_before_run
  lastPrinted,     \* its local variable last_printed_total
  shown,           \* history: time shown by the last entry of the last summary
  recycled,        \* tasks that may lie where a freed sel used to be
  forkFailures,    \* pipe() and fork() failures so far
  \* The client workers.
  wpc,             \* where each is in client_worker_thread
  wtask            \* the task each has just created

taskVars == <<nextTask, status, owner, burst, remaining, rounds, lines>>
queueVars == <<queue, ticket, lastTicket>>
traceVars == <<traceLen, traceTime>>
bookVars == <<lastSelected, completed, timeUsed, traceVars, lastPrinted,
              shown>>
turnVars == <<sel, slice, startTime, recycled, forkFailures>>
workerVars == <<wpc, wtask>>
vars == <<taskVars, queueVars, current, flag, bookVars, pc, turnVars, workerVars>>

-----------------------------------------------------------------------------
(* Tasks *)

(***************************************************************************)
(* "none"       not created yet                                            *)
(* "live"       allocated and not yet finished                             *)
(* "ended"      answered with the end marker, then freed                   *)
(* "cancelled"  freed by remove_tasks_for_client                           *)
(* "leaked"     never answered and never freed: its fork() or pipe() failed *)
(***************************************************************************)
Statuses == {"none", "live", "ended", "cancelled", "leaked"}

IsShell(t) == burst[t] = ShellBurst

\* The memory of a task may be read only in these states.
Readable(t) == status[t] \in {"live", "leaked"}

\* Slices of the coming turn of a demo: the quantum is the task's own.
Quantum(t) == IF rounds[t] = 0 THEN FirstQuantum ELSE LaterQuantum

-----------------------------------------------------------------------------
(* Choosing a task *)

QueuedShells == {t \in queue : IsShell(t)}
QueuedDemos == queue \ QueuedShells

\* A bug: the last selected demo is passed over even when it is alone.
CandidatesAlwaysSkipping(last) == QueuedDemos \ {last}

\* The last selected demo is passed over unless it is the only demo.
Candidates(last) ==
  IF QueuedDemos \ {last} # {} THEN QueuedDemos \ {last} ELSE QueuedDemos

\* Shortest remaining time first, then first come first served.
Precedes(t, u) ==
  remaining[t] < remaining[u] \/ (remaining[t] = remaining[u] /\ t <= u)

\* t is the task peek_best_task_sjrf returns.  Pass 1 returns the first
\* shell of the list, and shells are never requeued, so that is the one
\* enqueued first.
IsBest(t, last) ==
  IF QueuedShells # {}
    THEN /\ t \in QueuedShells
         /\ \A u \in QueuedShells : ticket[t] <= ticket[u]
    ELSE /\ t \in Candidates(last)
         /\ \A u \in Candidates(last) : Precedes(t, u)

-----------------------------------------------------------------------------
Init ==
  /\ nextTask = 1
  /\ status = [t \in Tasks |-> "none"]
  /\ owner = [t \in Tasks |-> NoClient]
  /\ burst = [t \in Tasks |-> 0]
  /\ remaining = [t \in Tasks |-> 0]
  /\ rounds = [t \in Tasks |-> 0]
  /\ lines = [t \in Tasks |-> 0]
  /\ queue = {}
  /\ ticket = [t \in Tasks |-> 0]
  /\ lastTicket = 0
  /\ current = NoTask
  /\ flag = FALSE
  /\ lastSelected = 0
  /\ completed = 0 /\ timeUsed = 0
  /\ traceLen = 0 /\ traceTime = 0
  /\ pc = "init"
  /\ sel = NoTask
  /\ slice = 0 /\ startTime = 0
  /\ lastPrinted = 0 /\ shown = 0
  /\ recycled = {}
  /\ forkFailures = 0
  /\ wpc = [c \in Clients |-> "recv"]
  /\ wtask = [c \in Clients |-> NoTask]
-----------------------------------------------------------------------------
(* The scheduler thread (server.c, scheduler_thread) *)

\* scheduler_init.  The rest of g_scheduler, the flag and the trace are
\* zero already and are set to what they hold.
SchedulerInit ==
  /\ pc = "init"
  /\ current' = NoTask
  /\ flag' = FALSE
  /\ lastSelected' = NoSelection
  /\ completed' = 0 /\ timeUsed' = 0 /\ traceLen' = 0 /\ traceTime' = 0
  /\ pc' = "peek"
  /\ UNCHANGED <<taskVars, queueVars, lastPrinted, shown, turnVars, workerVars>>

\* peek_best_task_sjrf under queue_mutex: the task is chosen, not removed.
PeekTask ==
  /\ pc = "peek"
  /\ \E t \in queue : IsBest(t, lastSelected) /\ sel' = t
  /\ pc' = "dequeue"
  /\ UNCHANGED <<taskVars, queueVars, current, flag, bookVars, slice,
                 startTime, recycled, forkFailures, workerVars>>

\* A bug: a summary is logged for the first completions only.
PeekEmptyOnce ==
  /\ pc = "peek"
  /\ ~ \E t \in queue : IsBest(t, lastSelected)
  /\ lastPrinted' = IF lastPrinted = 0 THEN completed ELSE lastPrinted
  /\ shown' = IF completed > 0 /\ lastPrinted = 0 /\ traceLen > 0 THEN traceTime ELSE shown
  /\ UNCHANGED <<taskVars, queueVars, current, flag, lastSelected, completed,
                 timeUsed, traceVars, pc, turnVars, workerVars>>

\* peek_best_task_sjrf returns null: if tasks have completed since the last
\* time, the trace is logged, unless it is empty; and the thread sleeps 0.1 s.
PeekEmpty ==
  /\ pc = "peek"
  /\ ~ \E t \in queue : IsBest(t, lastSelected)
  /\ lastPrinted' = completed
  /\ shown' = IF completed > lastPrinted /\ traceLen > 0 THEN traceTime ELSE shown
  /\ UNCHANGED <<taskVars, queueVars, current, flag, lastSelected, completed,
                 timeUsed, traceVars, pc, turnVars, workerVars>>

\* dequeue_task_by_id(task->task_id) finds the task ...
DequeueTask ==
  /\ pc = "dequeue"
  /\ sel \in queue
  /\ queue' = queue \ {sel}
  /\ recycled' = {}
  /\ pc' = "set_current"
  /\ UNCHANGED <<taskVars, ticket, lastTicket, current, flag, bookVars, sel,
                 slice, startTime, forkFailures, workerVars>>

\* ... or, a worker having freed it in between, reads an id that is not in
\* the queue: its old one, or whatever free() wrote over it ...
DequeueGone ==
  /\ pc = "dequeue"
  /\ sel \notin queue
  /\ sel' = NoTask
  /\ recycled' = {}
  /\ pc' = "peek"
  /\ UNCHANGED <<taskVars, queueVars, current, flag, bookVars, slice,
                 startTime, forkFailures, workerVars>>

\* ... or reads the id of a task that malloc() has put in its place since.
DequeueRecycled ==
  /\ pc = "dequeue"
  /\ sel \notin queue
  /\ \E t \in recycled \cap queue :
       /\ sel' = t
       /\ queue' = queue \ {t}
  /\ recycled' = {}
  /\ pc' = "set_current"
  /\ UNCHANGED <<taskVars, ticket, lastTicket, current, flag, bookVars, slice,
                 startTime, forkFailures, workerVars>>

\* scheduler_set_current_task.
SetCurrent ==
  /\ pc = "set_current"
  /\ current' = sel
  /\ pc' = "clear_preempt"
  /\ UNCHANGED <<taskVars, queueVars, flag, bookVars, turnVars, workerVars>>

\* The first scheduler_clear_preempt, then the start of the turn.
ClearPreempt ==
  /\ pc = "clear_preempt"
  /\ flag' = FALSE
  /\ slice' = 0
  /\ startTime' = timeUsed
  /\ pc' = IF IsShell(sel) THEN "shell" ELSE "slice"
  /\ UNCHANGED <<taskVars, queueVars, current, bookVars, sel, recycled,
                 forkFailures, workerVars>>

\* scheduler_execute_task of a shell command: the child runs, its output is
\* passed on until the pipe is closed, and the child is waited for.
RunShell ==
  /\ pc = "shell"
  /\ pc' = "end"
  /\ UNCHANGED <<taskVars, queueVars, current, flag, bookVars, turnVars,
                 workerVars>>

\* pipe() or fork() fails: scheduler_execute_task returns 0, and the task is
\* neither answered nor requeued nor freed.
ShellForkFails ==
  /\ pc = "shell"
  /\ forkFailures < MaxForkFailures
  /\ forkFailures' = forkFailures + 1
  /\ status' = [status EXCEPT ![sel] = "leaked"]
  /\ pc' = "drop_shell"
  /\ UNCHANGED <<nextTask, owner, burst, remaining, rounds, lines, queueVars,
                 current, flag, bookVars, sel, slice, startTime, recycled,
                 workerVars>>

\* A bug: the last line is skipped.
IsLastLineEarly(t) == remaining[t] = 1

\* The line of a demo whose remaining_time is 0 is its last.
IsLastLine(t) == remaining[t] = 0

\* scheduler_execute_task of a demo: one line, then one second of sleep.  It
\* reports completion after the last line; the update that follows in the
\* code does nothing then.
RunSlice ==
  /\ pc = "slice"
  /\ lines' = [lines EXCEPT ![sel] = @ + 1]
  /\ pc' = IF IsLastLine(sel) THEN "end" ELSE "update"
  /\ UNCHANGED <<nextTask, status, owner, burst, remaining, rounds, queueVars,
                 current, flag, bookVars, turnVars, workerVars>>

\* A bug: the time of the slice that brings remaining_time to 0 is not added.
UpdateTaskWhenLeft ==
  /\ pc = "update"
  /\ remaining' = [remaining EXCEPT ![sel] = @ - 1]
  /\ timeUsed' = IF remaining[sel] > 1 THEN timeUsed + 1 ELSE timeUsed
  /\ pc' = "check"
  /\ UNCHANGED <<nextTask, status, owner, burst, rounds, lines, queueVars,
                 current, flag, lastSelected, completed, traceVars,
                 lastPrinted, shown, turnVars, workerVars>>

\* scheduler_update_task_after_execution, under scheduler_mutex.
UpdateTask ==
  /\ pc = "update"
  /\ remaining' = [remaining EXCEPT ![sel] = @ - 1]
  /\ timeUsed' = timeUsed + 1
  /\ pc' = "check"
  /\ UNCHANGED <<nextTask, status, owner, burst, rounds, lines, queueVars,
                 current, flag, lastSelected, completed, traceVars,
                 lastPrinted, shown, turnVars, workerVars>>

\* scheduler_check_preempt at the end of a slice: preempted, or the quantum
\* is over, or one more slice.
CheckPreempt ==
  /\ pc = "check"
  /\ slice' = slice + 1
  /\ pc' = IF flag \/ slice + 1 >= Quantum(sel) THEN "requeue" ELSE "slice"
  /\ UNCHANGED <<taskVars, queueVars, current, flag, bookVars, sel, startTime,
                 recycled, forkFailures, workerVars>>

\* A bug: an entry is written whether or not it fits.
RecordTraceUnbounded ==
  IF timeUsed > startTime
    THEN traceLen' = traceLen + 1 /\ traceTime' = timeUsed
    ELSE UNCHANGED traceVars

\* scheduler_append_trace, called once a turn if the turn used any time: an
\* entry that may not fit is dropped.
RecordTrace ==
  IF timeUsed > startTime /\ traceLen < TraceCapacity
    THEN traceLen' = traceLen + 1 /\ traceTime' = timeUsed
    ELSE UNCHANGED traceVars

\* A finished task: end marker, totals, free().
EndTask ==
  /\ pc = "end"
  /\ IF IsShell(sel)
       THEN /\ pc' = "drop_shell"
            /\ UNCHANGED <<traceVars, rounds>>
       ELSE /\ pc' = "drop_demo"
            /\ RecordTrace
            /\ rounds' = [rounds EXCEPT ![sel] = @ + 1]
  /\ completed' = completed + 1
  /\ lastSelected' = NoSelection
  /\ status' = [status EXCEPT ![sel] = "ended"]
  /\ UNCHANGED <<nextTask, owner, burst, remaining, lines, queueVars, current,
                 flag, timeUsed, lastPrinted, shown, turnVars, workerVars>>

\* A bug: the turn goes on after the requeue.
RequeueDemoAndGoOn ==
  /\ pc = "requeue"
  /\ RecordTrace
  /\ rounds' = [rounds EXCEPT ![sel] = @ + 1]
  /\ lastSelected' = sel
  /\ queue' = queue \cup {sel}
  /\ pc' = "slice"
  /\ UNCHANGED <<nextTask, status, owner, burst, remaining, lines, ticket,
                 lastTicket, current, flag, completed, timeUsed, lastPrinted, shown,
                 turnVars, workerVars>>

\* A preempted demo, or one whose quantum is over: enqueue_task_requeue.
RequeueDemo ==
  /\ pc = "requeue"
  /\ RecordTrace
  /\ rounds' = [rounds EXCEPT ![sel] = @ + 1]
  /\ lastSelected' = sel
  /\ queue' = queue \cup {sel}
  /\ pc' = "drop_demo"
  /\ UNCHANGED <<nextTask, status, owner, burst, remaining, lines, ticket,
                 lastTicket, current, flag, completed, timeUsed, lastPrinted, shown,
                 turnVars, workerVars>>

\* A bug: the path of a shell command does not clear current_task.
ClearCurrentOfDemo ==
  /\ pc \in {"drop_shell", "drop_demo"}
  /\ current' = IF pc = "drop_shell" THEN current ELSE NoTask
  /\ sel' = NoTask /\ slice' = 0 /\ startTime' = 0
  /\ pc' = IF pc = "drop_shell" THEN "peek" ELSE "clear_again"
  /\ UNCHANGED <<taskVars, queueVars, flag, bookVars, recycled, forkFailures,
                 workerVars>>

\* scheduler_clear_current_task: the turn is over, and with it the
\* life of the thread's loop variables.  After a demo's turn the flag is
\* cleared once more.
ClearCurrent ==
  /\ pc \in {"drop_shell", "drop_demo"}
  /\ current' = NoTask
  /\ sel' = NoTask /\ slice' = 0 /\ startTime' = 0
  /\ pc' = IF pc = "drop_shell" THEN "peek" ELSE "clear_again"
  /\ UNCHANGED <<taskVars, queueVars, flag, bookVars, recycled, forkFailures,
                 workerVars>>

ClearPreemptAgain ==
  /\ pc = "clear_again"
  /\ flag' = FALSE
  /\ pc' = "peek"
  /\ UNCHANGED <<taskVars, queueVars, current, bookVars, turnVars, workerVars>>

-----------------------------------------------------------------------------
(* The worker of client c (server.c, handle_client_session) *)

\* A command arrives and becomes a task: create_task_from_command.  When the
\* scheduler holds a pointer to freed memory, the new task may lie there.
Receive(c, b) ==
  /\ wpc[c] = "recv"
  /\ nextTask \in Tasks
  /\ nextTask' = nextTask + 1
  /\ status' = [status EXCEPT ![nextTask] = "live"]
  /\ owner' = [owner EXCEPT ![nextTask] = c]
  /\ burst' = [burst EXCEPT ![nextTask] = b]
  /\ remaining' = [remaining EXCEPT ![nextTask] = b]
  /\ wtask' = [wtask EXCEPT ![c] = nextTask]
  /\ wpc' = [wpc EXCEPT ![c] = "enqueue"]
  /\ recycled' = IF pc = "dequeue" /\ ~Readable(sel)
                   THEN recycled \cup {nextTask} ELSE recycled
  /\ UNCHANGED <<rounds, lines, queueVars, current, flag, bookVars, pc, sel,
                 slice, startTime, forkFailures>>

\* enqueue_task under queue_mutex: from here on the scheduler may take the
\* task, and run and free it.
Enqueue(c) ==
  /\ wpc[c] = "enqueue"
  /\ queue' = queue \cup {wtask[c]}
  /\ lastTicket' = lastTicket + 1
  /\ ticket' = [ticket EXCEPT ![wtask[c]] = lastTicket + 1]
  /\ wpc' = [wpc EXCEPT ![c] = "notify"]
  /\ UNCHANGED <<taskVars, current, flag, bookVars, pc, turnVars, wtask>>

\* scheduler_should_preempt.
ShouldPreempt(new, cur) ==
  /\ ~IsShell(cur)
  /\ IsShell(new) \/ remaining[new] < remaining[cur]

\* A bug: an arrival that does not preempt takes an earlier preemption back.
FlagAfterLastArrival(new) ==
  IF current = NoTask THEN {flag}
  ELSE IF Readable(new) /\ Readable(current) THEN {ShouldPreempt(new, current)}
  ELSE BOOLEAN

\* The values scheduler_notify_new_task may leave in the flag: it reads the
\* new task, and the one current_task points at, freed or not.
FlagAfterArrival(new) ==
  IF current = NoTask THEN {flag}
  ELSE IF Readable(new) /\ Readable(current)
         THEN {flag \/ ShouldPreempt(new, current)}
  ELSE {flag, TRUE}

\* The rest of enqueue_task: scheduler_notify_new_task, after queue_mutex has
\* been released.  The worker is then back at recv().
Notify(c) ==
  /\ wpc[c] = "notify"
  /\ flag' \in FlagAfterArrival(wtask[c])
  /\ wtask' = [wtask EXCEPT ![c] = NoTask]
  /\ wpc' = [wpc EXCEPT ![c] = "recv"]
  /\ UNCHANGED <<taskVars, queueVars, current, bookVars, pc, turnVars>>

\* Two bugs: only the first queued task of the client is removed, and the
\* one the scheduler holds is freed as well.
FirstQueuedOf(c) ==
  {t \in queue : owner[t] = c /\ \A u \in queue : owner[u] = c => ticket[t] <= ticket[u]}
AllOf(c) == {t \in Tasks : owner[t] = c /\ status[t] = "live"}

\* The tasks remove_tasks_for_client unlinks and frees.
QueuedOf(c) == {t \in queue : owner[t] = c}

\* "exit", end of file or an error of recv(): remove_tasks_for_client unlinks
\* and frees every queued task of the client, and the worker ends.
Disconnect(c) ==
  /\ wpc[c] = "recv"
  /\ queue' = queue \ QueuedOf(c)
  /\ status' = [t \in Tasks |-> IF t \in QueuedOf(c) THEN "cancelled" ELSE status[t]]
  /\ wpc' = [wpc EXCEPT ![c] = "gone"]
  /\ UNCHANGED <<nextTask, owner, burst, remaining, rounds, lines, ticket,
                 lastTicket, current, flag, bookVars, pc, turnVars, wtask>>

-----------------------------------------------------------------------------
SchedulerStep ==
  \/ SchedulerInit \/ PeekTask \/ PeekEmpty
  \/ DequeueTask \/ DequeueGone \/ DequeueRecycled
  \/ SetCurrent \/ ClearPreempt
  \/ RunShell \/ ShellForkFails \/ RunSlice \/ UpdateTask \/ CheckPreempt
  \/ EndTask \/ RequeueDemo
  \/ ClearCurrent \/ ClearPreemptAgain

Submit(c) == Enqueue(c) \/ Notify(c)

Next ==
  \/ SchedulerStep
  \/ \E c \in Clients :
       \/ \E b \in Commands : Receive(c, b)
       \/ Submit(c)
       \/ Disconnect(c)

Spec == Init /\ [][Next]_vars

\* Every thread is scheduled by the kernel again and again, and its locks are
\* held for a bounded time.  Nothing makes a client send or leave.  Fairness
\* of the scheduler thread includes that shell commands end.
FairSpec ==
  /\ Spec
  /\ WF_vars(SchedulerStep)
  /\ \A c \in Clients : WF_vars(Submit(c))

-----------------------------------------------------------------------------
(* Properties *)

\* The scheduler thread owns sel: it has unlinked it and not yet given it up.
Holding == {"set_current", "clear_preempt", "shell", "slice", "update", "check",
            "end", "requeue"}

\* A turn of a demo is running, and a preemption of it may still be honoured.
Running == {"slice", "update", "check"}

\* current_task is set.
Announced == {"clear_preempt", "shell", "slice", "update", "check", "end",
              "requeue", "drop_shell", "drop_demo"}

PCs == Holding \cup Announced \cup {"init", "peek", "dequeue", "clear_again"}

TaskTypeOK ==
  /\ nextTask \in 1 .. MaxTasks + 1
  /\ status \in [Tasks -> Statuses]
  /\ owner \in [Tasks -> Clients \cup {NoClient}]
  /\ burst \in [Tasks -> Commands \cup {0}]
  /\ remaining \in [Tasks -> Nat \cup {ShellBurst}]
  /\ rounds \in [Tasks -> Nat]
  /\ lines \in [Tasks -> Nat]

QueueTypeOK ==
  /\ queue \subseteq Tasks
  /\ ticket \in [Tasks -> Nat]
  /\ lastTicket \in Nat

BookTypeOK ==
  /\ lastSelected \in Tasks \cup {0, NoSelection}
  /\ {completed, timeUsed, lastPrinted, shown} \subseteq Nat
  /\ traceLen \in 0 .. TraceCapacity /\ traceTime \in Nat

ThreadTypeOK ==
  /\ current \in Tasks \cup {NoTask}
  /\ flag \in BOOLEAN
  /\ pc \in PCs
  /\ sel \in Tasks \cup {NoTask}
  /\ slice \in Nat /\ startTime \in Nat
  /\ recycled \subseteq Tasks
  /\ forkFailures \in 0 .. MaxForkFailures

WorkerTypeOK ==
  /\ wpc \in [Clients -> {"recv", "enqueue", "notify", "gone"}]
  /\ wtask \in [Clients -> Tasks \cup {NoTask}]

\* remaining_time never leaves the range the slices count it down through:
\* from burst_time to 0 for a demo, and -1 for ever for a shell command.
RemainingOK ==
  \A t \in Tasks : IF IsShell(t) THEN remaining[t] = ShellBurst
                                 ELSE remaining[t] \in 0 .. burst[t]

\* The types of the variables, with the bounds of remaining_time
\* (scheduler.c, lines 285-292) and of the trace (line 418).
TypeOK ==
  TaskTypeOK /\ QueueTypeOK /\ BookTypeOK /\ ThreadTypeOK /\ WorkerTypeOK /\ RemainingOK

AtScheduler(t) == pc \in Holding /\ sel = t
AtWorker(t, c) == wpc[c] = "enqueue" /\ wtask[c] = t

\* A task that has not finished is in exactly one place, whatever the threads
\* do: linked in the queue, or held by the scheduler thread, or held by the
\* worker that made it; and a task that has been freed, or does not exist
\* yet, is in none.  So no command is lost, none runs twice, and the thread
\* that runs a task (scheduler.c, lines 173-298) never touches freed memory.
OnePlace ==
  \A t \in Tasks :
    /\ status[t] = "live" <=>
         t \in queue \/ AtScheduler(t) \/ \E c \in Clients : AtWorker(t, c)
    /\ t \in queue => ~AtScheduler(t)
    /\ \A c \in Clients :
         AtWorker(t, c) => owner[t] = c /\ t \notin queue /\ ~AtScheduler(t)

\* The lines of a demo reach its client in order and exactly once: however
\* its turns were cut up by preemptions, quanta and requeues, the line about
\* to be printed, burst - remaining, is the number of lines printed before
\* (scheduler.c, lines 248-253), and a demo that has ended printed 0 to N.
OutputInOrder ==
  \A t \in Tasks : ~IsShell(t) =>
    /\ status[t] = "ended" => lines[t] = burst[t] + 1
    /\ status[t] \in {"live", "cancelled"} =>
         lines[t] = burst[t] - remaining[t]
           + (IF sel = t /\ pc \in {"update", "end"} THEN 1 ELSE 0)

\* A client that has left leaves at most one task behind, the one that was
\* with the scheduler when remove_tasks_for_client ran (server.c, line 386).
OrphanBound ==
  \A c \in Clients : wpc[c] = "gone" =>
    \A t, u \in Tasks :
      /\ owner[t] = c /\ status[t] = "live"
      /\ owner[u] = c /\ status[u] = "live"
      => t = u

\* current_task (scheduler.h, line 9) points at freed memory in two windows
\* only: between the free() or the requeue that ends a turn and the
\* scheduler_clear_current_task that follows (server.c, lines 238 to 240 and
\* 290 to 308).
CurrentTaskWindow ==
  /\ current # NoTask <=> pc \in Announced
  /\ current # NoTask => current = sel
  /\ current # NoTask /\ ~Readable(current) => pc \in {"drop_shell", "drop_demo"}

\* The trace tells the whole time used, unless it is full: when the scheduler
\* is between turns its last entry shows total_time_used.
TraceAccounts ==
  pc = "peek" => traceTime = timeUsed \/ traceLen = TraceCapacity

\* What the tasks up to n have used together.
UsedUpTo[n \in 0 .. MaxTasks] ==
  IF n = 0 THEN 0 ELSE UsedUpTo[n - 1] + (burst[n] - remaining[n])

\* total_time_used (scheduler.h, lines 27-28) is the sum of what the tasks
\* have used, cancelled and running ones included: no slice is counted twice
\* and none is missed, whichever task the slice belonged to.
TimeAccounted == timeUsed = UsedUpTo[MaxTasks]

\* The books balance: the trace shows the total, and the total is right.
BooksBalance == TraceAccounts /\ TimeAccounted

\* A preemption, once noted during a demo's turn, is neither lost nor late:
\* no later arrival takes it back, and the turn ends with the slice that is
\* running (server.c, lines 265-270).
PreemptionHonoured ==
  [][flag /\ pc \in Running =>
       flag' /\ (pc = "check" => pc' \in {"check", "requeue"})]_vars

\* The life of each task as TaskLifecycle tells it.  With the scheduler it
\* runs; in the queue, or still with its worker, it waits.
Phase ==
  [t \in Tasks |->
     CASE status[t] = "none" -> "unborn"
       [] status[t] = "live" -> IF AtScheduler(t) THEN "running" ELSE "waiting"
       [] status[t] = "leaked" -> "lost"
       [] OTHER -> status[t]]

Lifecycle == INSTANCE TaskLifecycle
               WITH phase <- Phase, demand <- burst, output <- lines,
                    present <- {c \in Clients : wpc[c] # "gone"}

\* The threads and the queue together keep the promises of TaskLifecycle.
ImplementsLifecycle == Lifecycle!Spec

\* As long as the server is not killed (Session says by what), the scheduler
\* gets to every command, unless its client leaves first: a task that has been
\* created ends or is cancelled.  The one command lost on the way
\* is the shell command whose fork or pipe fails, which the scheduler takes
\* from the queue and drops: it is leaked and has no answer.
EveryTaskServed ==
  \A t \in Tasks :
    status[t] = "live" ~> status[t] \in {"ended", "cancelled", "leaked"}

\* After a completion a summary is logged that tells all the time used so far,
\* however busy the queue has been in between (server.c, lines 195-203): what
\* earlier summaries have missed is caught up with.  Two exceptions: without
\* a trace no summary is logged, so shell commands alone get none, and they
\* use no time; and entries that did not fit the trace are in no summary.
TimeSummarised ==
  completed > lastPrinted ~> shown = timeUsed \/ traceLen = TraceCapacity

-----------------------------------------------------------------------------
(* What comments in the code say, and the code does not do *)

\* "check if a higher-priority task arrived and set the preempt flag"
\* (server.c, line 265): when the check finds the flag clear, no shell
\* command has arrived, that is, been enqueued and notified.
ArrivalNoticed ==
  pc = "check" /\ ~flag =>
    \A t \in QueuedShells : \E c \in Clients : wpc[c] = "notify" /\ wtask[c] = t

\* "task was already removed (rare race, skip gracefully)" (server.c, line
\* 211): the task whose id the dequeue reads can still be read.
SelectedTaskReadable ==
  pc = "dequeue" => Readable(sel)

=============================================================================
