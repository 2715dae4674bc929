# Verification of myshell

`myshell` is a small Unix shell in C that grew a server. `myshell` is the
interactive shell: a parser, an executor of pipelines, three builtins.
`server` gives the shell to several clients over TCP: one thread per client
turns each command into a task, and one scheduler thread runs the tasks, one at
a time, by shortest remaining job first with round-robin quanta. `client`
sends a line and prints what comes back up to an end marker.

This directory holds TLA+ modules that model the program, TLC configurations
that check them on small instances, and proofs, for instances of every size, of the safety
properties of the scheduler, the queue, the sessions, the server process, the parser and the shell. `PROJECT.json` maps each definition to the lines of
code it stands for and lists runs, mutants, findings, hazards and theorems.

    tlc -workers 2 -config SchedulerSafety.cfg MCSchedulerList
    tlc -workers 2 -config LinkedQueue.cfg LinkedQueue
    tlc -workers 2 -config SessionSafety.cfg MCSession
    tlc -workers 2 -config ServerProcess.cfg ServerProcess
    tlc -workers 2 -config Parser.cfg MCParser
    tlc -workers 2 -config Shell.cfg Shell
    tlapm SchedulerProofs.tla
    tlapm SchedulerRefinement.tla
    tlapm LinkedQueueProofs.tla
    tlapm ShellProofs.tla
    tlapm ServerProcessProofs.tla
    tlapm SessionProofs.tla
    tlapm ParserProofs.tla
    tlapm MeaningProofs.tla

## 1. The system

### Server

| part | code | state | operations |
|---|---|---|---|
| main thread | `server.c` `main` | listening socket, `g_next_client_id`, `.myshell_port` | bind to the next free port, write the hint file, listen, accept, start a worker |
| client workers | `server.c` `client_worker_thread`, `handle_client_session` | a `ClientContext` each | read a command, make a task of it, enqueue it, notify; on leaving free the queued tasks of the client |
| scheduler thread | `server.c` `scheduler_thread` | its task, quantum counter, `last_printed_total` | peek, dequeue, run a turn, end or requeue, summarise when idle |
| scheduler state | `scheduler.c` | `g_scheduler`, `g_preempt_flag`, `g_trace`, under `scheduler_mutex` | set and clear the current task and the flag, account time, append to the trace |
| waiting queue | `scheduler_queue.c` | `queue_head`, `queue_tail`, the `next` pointers, id counters, under `queue_mutex` | create, enqueue, requeue, peek, dequeue by id, remove a client's tasks |
| log | `server.c` `log_printf_locked`, `handle_sigint` | `g_log_mutex`, `g_server_log_fd` | write a line; on SIGINT log the trace and exit |

The workers and the scheduler thread share the queue and the scheduler state,
and nothing else but the memory of the tasks. A worker hands a task over by
enqueueing it, and may set the preempt flag. The scheduler thread answers the
client directly on its socket. No thread ever holds both mutexes, and the
scheduler thread chooses a task under one lock and takes it out under another,
so the interesting behaviour lies in the windows between locked regions: a task
chosen and then freed by a worker, a task published and then read, a notification
that falls between two turns, a task announced as current after it has been freed.

### Client and shell

| part | code | state | operations |
|---|---|---|---|
| client | `client.c` | socket, response buffer | find the port, connect, send a line, receive up to `<<END>>`, give up after 60 s of silence |
| parser | `parser.c` | position in the line | next token, one command with redirections, a pipeline |
| executor | `executor.c` | pipes, children | validate; fork, redirect, exec and wait |
| shell, builtins | `myshell.c`, `builtins.c` | the shell's own descriptors and directory | read, dispatch; run a builtin with the descriptors redirected and restored |

`server_old.c` is an earlier server that the Makefile does not build; `demo.c`
prints N+1 lines a second apart (the scheduler prints the same lines itself).
Since the server runs shell commands with `/bin/sh -c`, parser and executor
belong to the interactive shell only.

### What is hard, and what makes each part correct

- *Scheduler and workers*: windows between locked regions; use after free;
  lost and withdrawn preemptions; a client leaving at any moment; a failing
  `fork`. Correct when no command is lost, answered twice or answered in pieces
  out of order; when every command is answered unless its client leaves; when
  what a client leaves behind is bounded; when the books balance.
- *Queue*: relinking head and tail while walking, freeing while walking, ties
  after requeues. Correct when each operation is what its header promises,
  at one moment, and ends.
- *Sessions*: byte streams cut anywhere, an end marker inside output, a timeout
  racing an answer, descriptors reused. Correct when the n-th answer printed is
  the answer to the n-th command.
- *Start-up*: the hint file, the next free port. *Log*: the signal handler
  takes a mutex. *Executor*: descriptors and children when one step of several
  fails. *Parser*: operators, quotes and blanks in every combination.

## 2. Modules

| module | what it is |
|---|---|
| `Scheduler` | scheduler thread, workers, queue and scheduler state, with their windows |
| `TaskLifecycle` | what the server promises about commands; implemented by `Scheduler` |
| `MCScheduler` | the instance of `Scheduler` for TLC, for liveness and the findings |
| `SchedulerProofs` | type correctness and the safety properties of `Scheduler`, proved |
| `SchedulerList` | `Scheduler` with the list of the queue beside its set |
| `MCSchedulerList` | the instance of `SchedulerList` for TLC, on which the safety of `Scheduler` is checked |
| `SchedulerRefinement` | `Scheduler` implements `TaskLifecycle`, and its set stands for the list, proved |
| `LinkedQueue` | the queue as pointers and loops |
| `TaskQueue` | what the queue promises; implemented by `LinkedQueue` |
| `LinkedQueueProofs` | the safety properties of `LinkedQueue`, and that it implements `TaskQueue`, proved |
| `Session` | client, connection, accept loop and worker; the scheduler is `TaskLifecycle` (INSTANCE) |
| `MCSession` | the instance of `Session` for TLC |
| `SessionProofs` | type correctness and the safety properties of `Session`, proved |
| `ServerProcess` | servers as processes: ports, hint file, log mutex, SIGINT, and the clients that look for them |
| `ServerProcessProofs` | type correctness and the safety properties of `ServerProcess`, proved |
| `Parser` | the interactive shell: reading a line, parsing it in place, validating it |
| `MCParser` | the instance of `Parser` for TLC: the lines typed |
| `ParserProofs` | `next_token`, type correctness of `Parser`, that every parse ends, where the tokens of a line come from, that they stay, and what is lost, proved |
| `MeaningProofs` | that a well-spaced line is run as it is meant, or refused because it is wrong, proved |
| `Shell` | the interactive shell: descriptors and children of pipelines and builtins |
| `ShellProofs` | type correctness and the safety properties of `Shell`, proved |

### Scheduler

One action is what a thread does between two moments at which another thread
could see or change something it uses. `pc` says where the scheduler thread is:

    init -> peek -> dequeue -> set_current -> clear_preempt -+-> shell -> end -> drop_shell -> peek
              ^        |                                     |
              +--------+                                     +-> slice -+-> end -------> drop_demo
                                                                   ^    |                   |
                                                                   |    +-> update          v
                                                                   |          |        clear_again -> peek
                                                                   |          v             ^
                                                                   +------- check -> requeue -> drop_demo

Each client has a worker whose `wpc` goes `recv -> enqueue -> notify -> recv`,
or from `recv` to `gone`. The worker does not wait for the answer, so a client
may have several commands in the queue: `server.c` allows it, and the project's
own client does it once an answer contains the end marker.

Memory is part of the model. `status` tells whether a task's memory may be read;
`remove_tasks_for_client` makes queued tasks `cancelled`, the end of a task makes
it `ended`, a failing fork leaves it `leaked`. When the scheduler thread holds a
pointer to a freed task (`pc = "dequeue"`), a task created meanwhile may be given
the same memory (`recycled`), and reading `task->task_id` then gives that task's
id: `DequeueGone` and `DequeueRecycled` are the possible outcomes. When a
worker's notification reads a freed task, new or current, the comparison may come
out either way (`FlagAfterArrival`).

Abstracted: a command is its predicted burst (`demo N` is N, anything else
`ShellBurst`), output is the number of lines, a slice is one step, the trace is
the number of its entries and the time in the last one. Left out: logging, bytes
sent, descriptors, a failing `malloc`, and fields that are written and never read
(`quantum_size`, `round_number`, `quantum_consumed`, `g_preempting_task_id`).
The queue is a set: order matters only among shell commands, where it is the
order of first enqueue (`ticket`), since only demos are requeued. `SchedulerList` shows
that the set and the tickets are enough.

### TaskLifecycle

A task is unborn, waiting, running, ended, cancelled or lost. At most one runs;
it is answered once, after all its output; it gives way only while it owes output;
only the departure of its own client cancels a task, and then all that wait
are cancelled at once; only a running shell command can be lost. In `Scheduler`, running means "with the
scheduler thread" (`Phase`), and the locked dequeue and requeue are the moments
at which a task starts and gives way.

### LinkedQueue and TaskQueue

`LinkedQueue` has `queue_head`, `queue_tail` and the `next` pointers, and one
action per turn of a loop. `queue_mutex` is held for the whole of an operation, so
the state of an operation (`request`, `curr`, `prev`, `pass`, ...) exists once.
`TaskQueue` has a sequence, and each operation is one step; tasks that leave the list do so
together, and the others keep their order (`Leave`). The refinement maps
the sequence to what the pointers describe, while no operation is under way, and
to the list as the operation found it otherwise.

### SchedulerList

`SchedulerList` joins the two halves. Its steps are those of `Scheduler`; beside the set of queued tasks it keeps the
list, as a history variable: an enqueue and a requeue append to it, a dequeue and a disconnect unlink tasks from it (`Without`). `List`
is an instance of `TaskQueue` with this list. The properties compare the two: they hold the same
tasks and peek finds the same one in both (`QueueIsList`), and the threads use the list only as `TaskQueue` promises and
requires (`QueueUsedAsPromised`). So what is proved of `Scheduler` holds of a server whose queue is a `TaskQueue`,
and `LinkedQueue` implements that. The history variable adds nothing to what `Scheduler` does: its next value is a function
of the step (`ListHistory`); so `sched_safety` checks all properties of `Scheduler` on `SchedulerList`.

### Session

Each client has a program (`cpc`: off, prompt, receive, closed), a connection and,
once accepted, a worker (`wpc`: none, recv, marking, leaving, gone). A worker that answers by itself sends a message and
then the marker; `marking` is between the two, and the second may meet the reset that the first has provoked. A connection is two streams of
pieces: a line is two pieces (an empty one is one), the output of a task any number, the end
marker two. A shell command may also write for ever (`endless`): after one of `Beginnings` it goes on with output of which only the presence
matters (`StreamOutput`, `flood`, `ReceiveFlood`). `Receive` and `ReceiveLine` take any non-empty prefix of what is there, as `recv`
may, so the marker arrives whole, in halves, or glued to what follows. Every piece carries the task that wrote
it, which is how properties can ask whose output a client gets.

The scheduler thread appears through the actions of `TaskLifecycle`: `Schedule` is a start, a turn
that ends early or a command that is lost; `WriteOutput` and `EndTask` are its `Send`
and `Complete` together with the bytes they put on a connection. Since `Scheduler` implements
`TaskLifecycle` (proved), what `Session` assumes of the server's inside is what the code does. As in
the code, a task writes to a descriptor *number*: `ConnectionsOf` says which connection
that is now, if any. `accept` takes the lowest number that is free.

A write to a client that has closed is lost and provokes a reset; the next one fails or raises SIGPIPE, which
nobody handles or ignores, so `alive` may become FALSE.

`upsets` is a history variable: what has gone wrong with a session, out of a line
cut by `recv`, a command that wrote the marker or never stopped writing, a stranger's bytes, a timeout. The code cannot
answer in step after any of these, and the properties say that it does in all other
sessions. When a line is cut, each part is handled as a line. `Halves` says which two lines these may be: a shell command may hold anything, so
its parts are any two; the parts of `exit` are two shell commands; `demo 12` may become `demo 1` and `2`, and `./demo 1` may become `./` and
`demo 1`; and the newline may be all that is cut off.

### ServerProcess

Servers and clients are processes that start, end and start again. `spc` is where `main` of a server is:

    off -> bind -+---------> open -> write -> listen -> thread -> hello -> accept -> connected -> worker
                 |            ^                                              ^                      |
                 +-> busy ----+                                              +----------------------+

and `ended`, from anywhere. In `busy`, `hello` and `connected` main has a line to log. `Bind` and `BindBusy` are
the turns of the loop of `bind_with_fallback`; `OpenHint` and `WriteHint` are apart because the file is empty
in between. Sockets are those of Linux with `SO_REUSEADDR`, which the server sets: `bind` fails only if
somebody *listens* on the port, so two servers may bind the same one, and the second then fails in `listen`.
A socket lives as long as a process has it: the commands the scheduler forks inherit all descriptors, so
`command`, what a server has started and has not ended, keeps the socket of a server that has ended (`Open`).

`owner` is who holds `g_log_mutex`; `Lock` and `Unlock` are the two ends of `log_printf_locked`, on any
thread. SIGINT may come at any time and is handled on any thread (`Interrupt`): with an empty trace the
handler exits at once, which also writes out a hint file that is open (`FlushHint`); otherwise it waits for the
mutex, which its own thread may hold. A client chooses its port (`ChoosePort`: argument or
`MYSHELL_PORT`, the hint file, or 8080), connects, and waits in the backlog (`queued`) until it is accepted,
reset, or tired of waiting. What it does then is the subject of `Session`: here it leaves.

Abstracted: all commands of a server are one; once a server has had a client it has all its
workers; the trace is empty or not; what `socket`, `dup`, `setsockopt`, `malloc` and `pthread_create` return is open. A port that cannot be parsed ends the
program before anything else happens and is left out. The ports a client may be given (`Given`) are among those of the servers (`GivenAssumption`); the code
accepts any from 1 to 65535, and one at which no server can listen is refused as a port in `Ports` is at which none does.

### Parser

The line is an array of characters (`buffer`), written by `fgets` and rewritten by the parser: tokens are
*pointers* into it, and a token's text is what stands there when the command is run. `pc` is where `main` is:

    prompt -> token <-> file                       a single command
    prompt -> segment -> token <-> file            a pipeline, one segment after the other
              token -> segment | validate -> run -> prompt
              segment | token | file -> overrun    the parser has left the array

An action is a token (`Argument`, `Redirection` and then `FileName`, or `EndCommand`) or a segment
(`SplitSegment`). `NextToken` is `next_token`: it yields the token, the new cursor and the new array.
`Redirection` is one definition for the three operators, where the code repeats itself. Characters are a letter, a blank,
two quotes, `<`, `>`, `2`, `|`, and the 0 that ends a string. The array is not initialised, so it starts with anything
(`Remains`), and what an earlier line left stays in it. A parser that looks for a token where no 0 follows in the array reads on behind it, and
writes there when it finds an operator or a word. What comes of that is undefined: `Overrun` is
this step, and nothing more is said of the shell after it.

Against this stands what a line *means*, defined on the line as typed (`Items`, `Word`, `ItemsOf`, `Correct`, `Meaning`).
The code keeps to it only for lines that are `WellSpaced`, which says exactly when: operators have blanks
around them, quotes are closed, and `|` and operators are not quoted. Everything else is
covered by what is lost (`OnlyNeighboursLost`), where tokens come from (`TokensInSegment`) and what becomes of them (`TokensKept`).
Each exception in these properties was tried: without it, TLC finds a line that breaks the property.

| line | what the code makes of it |
|---|---|
| `cat<f` | the `<` ends the word and is lost: `cat f` |
| `cat >f` | the `f` is overwritten: no file, or the next word is taken for it |
| `a >\|b` | the cursor passes over the 0 written at the `\|`: `b` is the file of `a`, and the next command too |
| `a >` at the end of input, without a newline | the cursor passes the 0 of the line, and reads what an earlier line left, or was in the array before; where no 0 follows, it leaves the array |
| `echo '>'` | quotes are removed before operators are looked for: a redirection |
| `echo 'a\|b'` | split at the `\|`, and then a quote is open |
| `a b c d` at a limit of 2 | `c` is read and dropped, `d` provokes the warning; without `d` there is none |

### Shell

`spc` is where the shell is:

    prompt -> pipe -> wait -> prompt              a pipeline, or a single command
    prompt -> in -> out -> err -> builtin -> restore -> prompt

with `made`, `forked` and `waited` counting through the three loops of
`execute_pipeline`. Processes have a set of pipe ends (`ends`) and three standard
descriptors (`std`); a child inherits both, connects (`Start`: dup2, close, redirections, exec), then
reads, writes and finishes. `execute_command` does what `execute_pipeline` does for one command and no
pipe. The shell has a limit of descriptors: `pipe`, `dup` and `open` fail when it is
reached, and `pipe` and `open` also at any other time; `fork`, and everything a child does, may always fail.

A command is one that reads the pipe before it to the end (`filter`), one that does not, or a
builtin. A writer waits while the pipe is full and dies when nobody can read it.
The line a child belongs to is part of its name, so children of an earlier line, left behind by a failing `fork`, run on
beside the next. Left out: reading, parsing and validation (`Parser`), exit
codes, the directory, signals other than SIGPIPE.

## 3. Runs

| run | instance | states | shows |
|---|---|---|---|
| `sched_safety` | 2 clients (symmetric), 3 tasks, bursts 1, 2 and shell, quanta 1 and 2, 1 failing fork, 4 trace entries | 1.5 million | types, one place per task, output in order, orphans, current task, books, preemptions, `TaskLifecycle`, and that the set of queued tasks stands for the list |
| `sched_live` | 2 clients, 2 tasks, bursts 2, 5 and shell, quanta 3 and 7 as in the code, one failing fork, fair | 107 thousand | every command served or, by that fork, dropped; all time used is in a summary, as long as the trace is not full |
| `sched_arrival` | 2 clients, 2 tasks | until violated | a shell command that arrives as a turn starts is not noticed (finding 1) |
| `sched_freed` | 2 clients, 2 tasks | until violated | the chosen task is read after it was freed (finding 2) |
| `linked_queue` | 3 tasks, 2 owners, remaining times 0, 2 and shell, fair | 458 thousand | pointers, `TaskQueue`, and that each loop ends |
| `session_safety` | 2 clients (symmetric), 2 descriptors, 2 lines, 2 tasks, one line cut, output with and without the marker, or without end | 3.6 million | answers in step, the server survives orderly clients, stray output only from orphans |
| `session_live` | the same with 1 line and 1 task, fair | 120 thousand | no client hangs, unless output comes without end; every departure is noticed |
| `session_stray` | as `session_safety`, but no line is cut | until violated | output reaches another client (finding 3) |
| `shell` | 2 lines, up to 3 commands in all, 2 or 4 descriptors, pipes of 1, output of 2, fair | 130 thousand | descriptors, children, ends of pipes, the prompt, for every failing call |
| `shell_builtin` | the same | until violated | what a builtin prints in a pipeline is lost (finding 4) |
| `server_process` | 2 servers, 1 client at a time, ports 8080 to 8082 with 8080 taken, 8082 on a command line, threads main and scheduler, fair | 87 thousand | where the hint leads, why servers give up, that SIGINT ends them and connections are attended to |
| `parser` | array of 12, 2 arguments, 2 commands; all lines of up to 5 characters over four alphabets, lines of 5 items, pairs of lines around the size of the array; the array holds zeros at first, or letters, or letters with a 0 at the end | 204 thousand | meaning, losses, where tokens come from and when the parser leaves the array, progress |

*Bounds.* Three tasks are one that runs, one that waits and one that arrives or is
given the memory of a freed one: the windows involve no more. Two clients are
enough for one to leave while the other is served. Quanta 1 and 2 against bursts 1 and 2 give turns
that end by completion, by quantum with output left, by quantum with only the last line
left, and by preemption; with them the trace of 4 entries both fits and overflows. For
liveness the real quanta are used: burst 2 ends in the first turn, burst 5
needs a second. In `LinkedQueue`, three tasks give a head, a middle and a tail, two tasks
of one client in a row, and ties on remaining time. In `Session`, two lines let the second be answered with what is
left of the first, or by one client while the other's task is an orphan; a command that never stops starts with nothing else, what a command
writes before its end being covered by the others; two
tasks are one of each client; when there is no task left, the worker answers as it does when
`malloc` fails. In `Shell`, three commands give a first, a middle and a last
(both neighbours of the middle one may be gone or not yet there), or two lines of which the first is still running; two lines let
the second meet what the failure of the first has left; with 2 descriptors the second pipe of a line cannot be made, and a
builtin on the next line finds none free; output of 2 into a pipe of 1 makes writers wait. Redirections are
distinguished in `Shell` only where they replace a pipe.

In `ServerProcess`, two servers are one that runs, has ended or fails, and one that is started beside or after it; a third
would do to the second what the second does to the first. Port 8080 is taken, so that main logs and a fallback happens; the
other two can both be used up, and one of them may be asked for. The scheduler thread stands for all threads but main: a worker
(`Workers`) takes the mutex and is interrupted in the same way. In `Parser`, five characters hold two
words with an operator or a `|` between them, glued or spaced, a quoted one, and two operators in a row;
one more character adds another letter to a word. The limits of 63 arguments, 16 commands and 1024 characters are made small, and lines go below,
to and beyond each. Pairs of lines let the second meet what the first left in the array.

*Fairness.* `SchedulerStep` is weakly fair: the thread is never blocked
for ever, since locks are held for a bounded time, and `usleep` and `sleep`
return. This includes an assumption the code does not enforce: that a shell command
closes its output and ends. `Submit(c)` is weakly fair: a worker that
has made a task goes on to enqueue it and notify. Receiving and leaving are not fair: no client
has to do anything. `sched_live` has finitely many arrivals (`MaxTasks`); with
endless shorter arrivals a long demo starves, by design of the policy.
`linked_queue` assumes a thread inside a loop goes on. `session_live` is fair to what a client does while
it waits, its 60 s timeout included, and to the worker; not to typing, leaving, or any command: a
client must not hang even if its command never ends. It may do so only while endless output comes (`ClientNeverHangs`). In `shell`, one of the processes that can run does; one
condition for all is enough since nothing loops between two lines. It includes that a command ends
when it has written all and the pipe before it has ended.
In `server_process`, main goes on whenever it can, and is strongly fair because it competes for the mutex: a thread that waits for a
mutex gets it if it is free again and again (glibc's mutexes do not promise it, but no thread holds this one for longer than a write). The others leave the
mutex when they have it, and the handler gets it in the same way. Nothing else is fair: servers need not be started, commands
need not end, clients need not wait, nobody need be interrupted. `Parser` has no fairness: its runs end in `exited`, see below.

*Deadlock* is checked in the runs of `Scheduler`, `SchedulerList` and `LinkedQueue`: the scheduler thread always has a step
(`PeekEmpty` when idle). `Session` and `Shell` may stop: all clients have left, the server
has ended, or the shell has exited and its children are done. There the liveness properties say that
nobody waits for ever. `ServerProcess` may stop: all servers have ended. `Parser` is checked for deadlock, and
`Exited` is the only state it may stay in: together with `ParseAdvances` (every turn of a loop starts further on in an
array that ends) this says that every line is done with. A liveness property would say the same, but TLC takes too long to
decide which of these actions is enabled.

### Properties worth a word

- `OnePlace`: however threads interleave, an unfinished task is in the queue,
  or with the scheduler thread, or with the worker that made it, and in one of
  them only; a freed task is in none. No command is lost, run twice, or used after it was freed
  while it runs.
- `OutputInOrder`: the line about to be printed is the number of lines printed, also
  when `remaining_time` reaches 0 on the last slice of a quantum and the last
  line has to wait for another turn.
- `OrphanBound`: a disconnect while a demo runs leaves that demo and no other behind
  (it is requeued later and runs to its end for nobody).
- `TimeSummarised`: a summary catches up with all that was used while the queue was busy, however completions and idle moments fall. `server.c:198` shows
  none while there is no trace, which is so as long as only shell commands have run; these use no time. What did not fit the trace is in no summary.
- `CurrentTaskWindow`: `current_task` dangles, but only between `free` (or a
  requeue followed by a disconnect) and the `scheduler_clear_current_task` next to it.
- `PreemptionHonoured`: an action property: no later arrival withdraws a
  preemption, and the turn ends with the running slice.
- `BooksBalance`: the trace ends with the total time, unless full (`TraceAccounts`), and
  the total is what all tasks together have used (`TimeAccounted`).
- `QueueIsList`: the walk over the list returns the first shell command *linked*, `Scheduler` chooses the one first
  *enqueued*: the same, however requeues of demos and departures have changed the list between them.
- `QueueUsedAsPromised`: a task that is requeued while it is linked (because the dequeue took out
  another one, say) would cut the list off behind it, and one that is written while it is linked would be compared while it changes, under
  two different mutexes.

- `AnswersInStep`: the answer printed is the answer to the last line read by the
  worker, the whole of it, and from the right task, in every session in which nothing was upset. Its proof
  obligation in the code is the interplay of segments, the marker scan and the strict alternation of lines and answers.
- `OrderlyClientsHarmless`: SIGPIPE needs two writes to a client that has gone, the first of which provokes a reset. The server ends only while there is such a
  reset connection, and a client whose session was not upset leaves none, whenever it leaves: it was owed nothing more. The project's own client leaves while it is owed an
  answer only after a timeout or an upset.
- `ClientNeverHangs`: the 60 s are counted from one `recv` to the next (`client.c:109`), so they bound silence, not the answer: a command that goes on writing
  (`yes`, say) holds its client for as long as it writes. That, or the same from a stranger's command, is the one exception.
- `StraysAreOrphans`: `remove_tasks_for_client` comes before `close`, so only the task that runs when its client leaves can write to a
  number given to someone else.
- `StdRestored`: `dup` is not checked (`myshell.c:88`), and -1 then means "nothing to restore": it is
  harmless, since `open` needs a descriptor too and fails right after it.
- `PipesEndWithCommands`: nobody sees an end of file or gets SIGPIPE because an end was closed too early,
  though each end is copied to all children and closed by all of them at different times.
- `HintLeadsToServer`: many servers write the hint file at any time, die at any time and leave sockets behind;
  yet if the last writer is up, it is the only one to listen on the port in the file.
- `GivesUpForOthers`: no server gives up a port because of its own doings. That the second of two servers that
  bind the same port fails in `listen`, with the next port free, is the exception (`server.c:477` does not fall back).
- `InterruptEnds`, `ConnectionAccepted`: the two exceptions, `SelfLocked` and `LeftBehind`, are real, and the only ones.
- `MeansWhatItSays`: compares what is run, and when, with the meaning of the line, for all lines that are well spaced, with the
  limits of arguments, of commands and of the array; in both directions, so neither is a correct line refused nor a wrong one run.
- `TokensInSegment`, `TokensKept`: the parser rewrites the line while pointers into it exist. That
  no token comes from outside its command, and none changes, needs that each write is behind the cursor, and that every command ends
  with a 0 the cursor does not pass; an operator in the last place passes it. A line with a newline has two 0 behind it, its own and that in place of the newline, so
  the parser leaves the array only if the input ends right after an operator: the last part of `TokensInSegment`.

- `PromptReturns`, `EveryCommandEnds`: no end is left open in any process in which it would keep another
  one waiting: the second also for the commands of a line whose `fork` failed.

### Findings

1. *A preemption can be lost* (`sched_arrival`). `server.c:265` says "check if a
   higher-priority task arrived and set the preempt flag". A shell command notified between the
   choice of a demo and `scheduler_set_current_task` sets no flag, as no task is
   current; one notified just after has its flag wiped by `scheduler_clear_preempt`
   (line 216). The demo then runs up to 7 seconds with the shell command waiting.
2. *The chosen task may be freed* (`sched_freed`). `server.c:211` says "task was
   already removed (rare race, skip gracefully)", but the id by which that would be noticed
   is itself read from the removed, and freed, task (line 209). `OnePlace` shows
   that the model survives every outcome considered, a dequeue of the wrong task included.
3. *Output can reach a stranger* (`session_stray`). `scheduler_queue.h:31` counts the "total real output bytes sent to this client".
   A task that runs when its client leaves keeps writing to the closed descriptor, and `accept` gives the number to the next client. In the trace no line is cut: a client
   gives up after 60 s of silence and leaves, its task starts, the worker closes the descriptor, the next client is accepted on it and gets the output.
4. *Builtins in pipelines may print nothing* (`shell_builtin`). `executor.c:388` says "executing builtins inside pipeline in child (subshell behavior)".
   The child ends with `_exit`, which does not flush stdio: `echo` and `pwd` in a pipeline are lost when the shell's output is a file or a pipe. With a
   terminal the newline at the end flushes.

Two more things the runs of `Shell` count as known, not as findings, since no line claims otherwise: a failing `pipe`
leaves the earlier pipes of the line open (`LeftoversAccounted` allows it), and a failing `fork` leaves the children of the line
unwaited for.

The same holds of what the runs of `ServerProcess`, `Parser` and `Session` allow by name: SIGINT that interrupts `log_printf_locked` on
the thread that holds the mutex leaves a server that neither logs nor ends (`SelfLocked`); a command in the background
keeps the port of a server that has ended, and clients that connect to it wait for 60 s (`LeftBehind`); the
hint file outlives its server, and may be left empty; the losses and misreadings of the table under *Parser*;
output that contains `<<END>>` ends an answer early, and output without end holds its client (`upsets`).

The array of the shell is not initialised (`myshell.c:5`). When the input ends right after an operator, without a newline, the cursor passes the 0 of the line, since
`parser.c:42` writes a 0 there and line 43 steps over it. If no 0 follows in what was in the array before, the parser reads behind the array
(`parser.c:33`), and may write there (`parser.c:42`, `:96`). No line of the code claims otherwise, so this is no finding; `TokensInSegment` allows
it for these lines, and `TokensCorrect` proves that it happens for no others.

One hazard is modelled and forbidden by no property: a worker that notifies while the task it compares with has been freed may set the preempt flag without
need (`scheduler_queue.c:113`, `FlagAfterArrival`). The turn then ends early, and the demo goes on in a later one; all properties hold in spite of it.

## 4. Proofs

`SchedulerProofs` proves for all constants that satisfy the named assumptions
of `Scheduler` (`NoClient` is no client; bursts and quanta are positive; the
bounds are naturals):

| theorem | |
|---|---|
| `TypeCorrect` | `Spec => []TypeOK` |
| `TasksInOnePlace` | `Spec => []OnePlace` |
| `OutputCorrect` | `Spec => []OutputInOrder` |
| `CurrentTaskCorrect` | `Spec => []CurrentTaskWindow` |
| `OrphansBounded` | `Spec => []OrphanBound` |
| `PreemptionCorrect` | `Spec => PreemptionHonoured` |
| `BooksCorrect` | `Spec => []BooksBalance` |
| `LifecycleImplemented` (in `SchedulerRefinement`) | `Spec => ImplementsLifecycle` |
| `QueueCorrect` (in `SchedulerRefinement`) | `ListSpec => []QueueIsList` |
| `PromiseKept` (in `SchedulerRefinement`) | `ListSpec => QueueUsedAsPromised` |

*The argument.* None of the properties is inductive by itself: from a state in which the
scheduler thread is about to requeue a task that is live but at a place where `sel` means
nothing, say, the next step would break `OnePlace`. The base invariant is

    BaseInv == TypeOK /\ TurnInv /\ SubmitInv /\ OnePlace

`TurnInv` says what the scheduler thread knows of its task at each `pc`: that it has one
from `dequeue` to the end of the turn, that it is a shell command on one path and a demo
on the other, that `remaining` is not 0 at `update` and is 0 at the `end` of a demo, and that the
turn began no later than now in used time. `SubmitInv` says that a worker that enqueues or
notifies has a task, and that the ids from `nextTask` on, and no others, are unborn. `BaseStep`
proves that every action preserves `BaseInv`: one step per action, and below it one per
conjunct the action can disturb. On top of it, `OutputStep`, `CurrentStep`, `OrphanStep` and
`PreemptionStep` prove their property from `BaseInv` and itself; `TraceStep` needs the
strengthening `TraceInv`: unless full, the trace lags behind the total only during a demo's turn
that has used some time. `TimeStep` needs that the clock is at 0 until the scheduler is initialised and that a task not yet created has used
nothing (`UnusedInv`). The sum over all tasks is a recursive function; that a step which uses time for one task adds just that to the sum is
shown by looking at the least number of tasks for which it would not (`LeastNumber`).

For the refinement, `LifecycleInv` adds `OutputInOrder` and that shell commands have
counted no lines. `UnmovedStep` covers the actions that leave every phase, owner, burst and
line as they were, `StartStep` the dequeues that take a task; the others map to one
abstract step each (`LifecycleStep`), the lines owed at each step coming from `LinesLeft` and `LinesDone`.

For the list, `ListInv` adds to `BaseInv` that shell commands are linked in the order of their tickets (`TicketInv`). `LinkedInv` and
`UnlinkedInv` keep it, whoever calls the queue; that a task to be enqueued is not linked comes from `OnePlace`. `WithoutKeeps` says what
unlinking leaves: the others, in their order; since `Without` is a recursive function it is shown by looking at the shortest prefix of the list
for which it fails. `QueueIsList` then needs that there is a best task unless the queue is empty (`BestExists`), and `QueueUsedAsPromised` that
unlinking is `Leave` of `TaskQueue` (`LeaveAsPromised`).

`LinkedQueueProofs` proves of `LinkedQueue`, for any number of tasks and clients and any remaining times
(`MaxTasksAssumption`, `TimesAssumption`):

| theorem | |
|---|---|
| `TypeCorrect` | `Spec => []TypeOK` |
| `ListWhole` | `Spec => []WellLinked` |
| `PointersCorrect` | `Spec => []PointersStayInList` |
| `ImplementsQueue` | `Spec => ImplementsTaskQueue` |

*The argument.* `Linked` is the sequence that `queue_head` and the `next` pointers describe. As long as a sequence without
repetitions starts at the head, follows the pointers and ends at the tail (`Describes`), it is that sequence (`DescribedIsLinked`), which cannot be
longer than there are tasks. `LinkAtTailList` and `UnlinkList` say what the assignments of an enqueue and of taking out a task make
of it. The rest of the inductive invariant, `Inv`, says what each loop knows: where `curr` and `prev` are, in which pass (`DequeueInv`, `RemoveInv`,
`PeekInv`); for a removal, that what is left is the list it found without the client's tasks before `curr`, in the order they had
(`Kept`); for a peek, that `best` is the best of the tasks passed, without the last selected one in the first pass (`BestOf`). There is one
lemma for each turn of a loop. `TaskQueue` sees the list as it is when no operation is under way and as it was found otherwise (`Shown`); so a turn that
does not return is a stutter, and the return of an operation is the step that was promised: the best task of all, ties and second
pass included, when `PeekEnd` returns. TLC checked the parts of `Inv` as invariants of `linked_queue` before they were proved.

`ShellProofs` proves of `Shell`, for any number of lines and commands, any limits, any
pipe and either kind of standard output (`BoundsAssumption`, `LimitsAssumption`,
`AmountAssumption`):

| theorem | |
|---|---|
| `TypeCorrect` | `Spec => []TypeOK` |
| `DescriptorsRestored` | `Spec => []StdRestored` |
| `LeftoversAccountedFor` | `Spec => []LeftoversAccounted` |
| `PipesEndCorrect` | `Spec => []PipesEndWithCommands` |

*The argument.* All four follow from one inductive invariant, `ShellInv`, whose parts lean on each
other. `LineInv` relates the counters of the three loops to the length of the line. `ChildInv` says that
the children of a line are those forked so far, and that one that is neither reaped nor still to be waited for belongs to
a line on which `fork` failed. `RedirectInv` says at each stage of a builtin that a standard descriptor
that is not saved has not been redirected: that is why a `dup` that fails unnoticed does no harm, since
`open` finds no descriptor either. `StdInv` and `EndsInv` say who holds what: a
child holds a copy of both ends of every pipe of its line until it has connected, and then is connected to its
neighbours or to files; the shell holds them while it forks. Therefore, when the last writer or
reader of a pipe is gone, the neighbour has ended or never used the pipe (`WriterGone`, `ReaderGone`), and it is no neighbour
still to be forked, because then the shell itself would hold the pipe (`ShellReads`,
kept by `NeighbourInv`). That the shell stays within its limit needs `FiniteInv`, for the
cardinality of what it holds.

`ServerProcessProofs` proves of `ServerProcess`, for any number of servers, threads and clients, any
range of ports and any ports taken by other programs or given to clients (`PortsAssumption`, `GivenAssumption`):

| theorem | |
|---|---|
| `TypeCorrect` | `Spec => []TypeOK` |
| `HintCorrect` | `Spec => []HintLeadsToServer` |
| `GivesUpCorrect` | `Spec => []GivesUpForOthers` |

*The argument.* The inductive invariant, `ProcessInv`, adds four parts to the properties. `StageInv` says what is
known of a server by where its main thread is: that it has no port before `bind` succeeds, and listens from `listen` on
until its process ends. `ExclusiveInv` says that one open socket listens on a port: `listen` fails for the second of two
sockets that `SO_REUSEADDR` let bind the same one. `ClaimInv` says that each port a server has passed over is, or
was, another's, which `GivesUpForOthers` needs of all of them at once when the server gives up. `WriterInv` says that a port in the hint
file has a writer. `HintLeadsToServer` is proved in two parts, for the file with a port in it (`PortHint`) and for the
file opened and left empty (`EmptyHint`). `EndThreads` is the fact about the end of a process that every action that can end one
needs: its threads leave the mutex and the handler.

`SessionProofs` proves of `Session`, for any number of clients, descriptors and tasks, any bursts and whatever the shell
commands write (the five named assumptions of `Session`; `OutputsAssumption` says only of which pieces an output, or the beginning of an endless one, consists):

| theorem | |
|---|---|
| `TypeCorrect` | `Spec => []TypeOK` |
| `AnswersCorrect` | `Spec => []AnswersInStep` |
| `HarmlessCorrect` | `Spec => []OrderlyClientsHarmless` |
| `StraysCorrect` | `Spec => []StraysAreOrphans` |

*The argument.* `AnswersInStep` compares two histories at one moment, and nothing in it says why they agree. The inductive invariant, `SessionInv`,
says of every session in which nothing is upset that it is at one of seven stages (`OrderInv`): at rest; asked, with exactly one line on its way;
served, when the client has one task, and what is due is what has come (`Got`: received and on its way) followed by what that task has
still to write; marking, when the worker has answered by itself but for the marker; answered, when what has come is what is due and one marker; lost; and left.
`EndlessInv` keeps commands that never stop out of these sessions. Since what is due contains no
marker, the first marker in what has come is its last two pieces (`MarkerOfAnswer`), so the client prints all that is due and nothing is left behind, however the bytes were
cut: that is the step from answered to at rest (`ReceiveOrder`). There is one lemma per action, and `Frame` for the clients an action does not
concern. `ConnectionInv` says that a descriptor stands for one connection, and that a client is present to `TaskLifecycle` until
its worker leaves: so a task writes to its owner as long as it is present (`AnswerDown`), which gives `StraysAreOrphans`. A client that has
left from one of the seven stages was owed nothing, so no write to it follows and its connection is not reset: that is the second part of `OrderlyClientsHarmless`. The
first follows from the only write that may end the server, the one to a connection that is reset. TLC checked the parts of `SessionInv` as invariants of `session_safety` before they were proved.

`ParserProofs` and `MeaningProofs` prove of `Parser`, for an array of any size from 3 on, any limits of arguments and commands,
and whatever is typed and was in the array (`SizeAssumption`, `LettersAssumption`, `StreamsAssumption`, `RemainsAssumption`):

| theorem | |
|---|---|
| `TypeCorrect` | `Spec => []TypeOK` |
| `ParseEnds` | `Spec => ParseAdvances` |
| `TokensCorrect` | `Spec => []TokensInSegment` |
| `TokensStay` | `Spec => TokensKept` |
| `NeighboursCorrect` | `Spec => []OnlyNeighboursLost` |
| `MeaningCorrect` (in `MeaningProofs`) | `Spec => []MeansWhatItSays` |

*The argument.* Everything rests on what a call of `next_token` does to the array, which three lemmas say of the operator token
and the word token and then of both. `Good`: if the string at the cursor ends in the array (`Closed`), the cursor goes on and stays in the array (or just behind it), further if a token was found, and
if none was, it still stands at a string that ends in the array. `Local`: what it writes lies between the old cursor and the new one, and before the next 0; and it passes
that 0 only if an operator stands right before it. `Consumes`: each place the cursor has passed is blank, or part of the token, or follows it
and one of the two is an operator. For a word this needs that the text moved up stays before the place where the word ended, hence the cardinality of what
is kept, and that each of its places has a character (`RankFacts`). `LineInv` is the type invariant; `AdvanceInv` says that in a pipeline the next segment
starts behind the one being parsed and inside the array. `TypeCorrect` and `ParseEnds` follow. Neither assumes anything of what the array held: where the string at the cursor does not end in the array, `Overrun` is the
only step.

`TokensInSegment` needs to know what is in the part of the array that has not been read: `UnreadInv` says that, as long as no operator has ended a command without a
blank (`Clean`), the cursor is in the command or on the second 0 of the end of the line, the command ends with a 0, what it has still to read is as typed or 0, and behind it all is
as `fgets` left it. `SegmentInv` relates segments and commands. That the parser leaves the array only after an operator in the last place of the input needs `EndInv`: the 0 behind the line, and the
one for the newline, stay where they are, and the cursor passes the last of them only if the input ended right after an operator (`Ending`). `TokensKept` needs `KeptInv`: every token found so far ends before the cursor or at it,
so that nothing written later is in it, or `next_token` starts at a 0 and writes nothing.
`OnlyNeighboursLost` has no such exception: after an operator has taken the cursor out of its command, the command goes on to read the rest of the line, and the
next commands read it again, perhaps rewritten. `HandledInv` therefore says that each character has been handled, or lies ahead of the cursor (or of the next segment)
where the array is as typed: and once the cursor has been at the end of the line, all has been handled, whatever is read again.
TLC checked these invariants on the instance of `Parser.cfg` before they were proved.

`MeansWhatItSays` compares two readings of a line: the code's, which goes along the array and rewrites it, and the one that defines what the line means: its
breaks, its items between them, the sequence of the items of each command, and `Read`, `Correct` and `Meaning` of such a sequence. The proof
follows that definition.

- *Recursion.* Two things are defined along a sequence: the quote that is open (`Quoting`) and `FlattenSeq`. The theorems on induction cannot be
  used (they take an operator as a parameter), so the sets of places at which such a function is wrong are considered instead: a set of natural numbers that has, with each number,
  the one before it, and not 0, is empty (`NoLeastEmpty`). From it: such a function exists and obeys its equation (`QuotingFacts`, `FlattenStep`), and
  what is flattened holds its elements in their order (`FlattenRanks`).
- *The line.* Between two breaks lies exactly one item, items are apart (`ItemCovers`, `ItemsApart`), and the sequence of a command lists its items, each once,
  from left to right (`KeyRanks`, `ItemsOfFacts`). In a well-spaced line every item begins and ends outside quotes, so whether a
  quote is open inside it is the same read from the start of the item as read from the start of the line (`SameQuotes`): `next_token` starts at the item and knows no more.
- *One call.* At an item, a call of `next_token` returns its word, without quotes, and moves behind it, before the next item (`WordFound`, `OperatorFound`, `ItemFound`);
  where no item of the command is left, it returns nothing (`NothingFound`). This needs that the array from the cursor on is as typed, except for blanks at the end of the command
  that are 0 already (`Trail`).
- *The invariant.* `LayoutInv`: a segment is what lies between two `|` of the line, the n-th segment belongs to the n-th command, and at the end there
  is one command for each. It implies `Clean`, so the lemmas on unread characters and kept tokens apply without their exception. `MeaningInv`: the command being parsed
  says what the first m items say, for some m, and the cursor is between the m-th item and the next one, or behind the operator whose file comes next
  (`Parsed`); the commands done were read to their last item or have all the arguments they may (`Complete`);
  `warned` tells exactly whether one of them lost two items or more. `Says` fixes the texts of arguments and files and that every item so far was read, so a complete
  command is understood as it is meant, and has a name if and only if it is correct (`CompleteFacts`). `ErrorInv` is the other direction: a
  syntax error is given only when an item shows that its command is wrong (`OperatorIsWrong`, `EmptyIsWrong`), or there is a `|` too many.
- *The steps.* One lemma per action (`SplitMeaning`, `ArgumentMeaning`, `RedirectionMeaning`, `FileMeaning`, `EndMeaning`, `SegmentError`, `RejectError`). That the texts of
  commands done stay the same, though later commands are cut up in the same array, is `TextsKept`, the lemma behind `TokensKept`.

`LayoutInv`, `MeaningInv` and `ErrorInv` were checked by TLC on the instance of `Parser.cfg` before they were proved.

*Only model-checked.* The liveness properties: the prover has no fairness and no
`ENABLED`. All invariants and action properties of the passing runs are proved. Four properties of the runs are claims the code does not
keep (section 3, findings).

## 5. What is not modelled, and the plan

All components the program's behaviour rests on are modelled, and all their safety properties are proved. What is left for the prover
is liveness, once it has fairness.

Not modelled:

- `server_old.c`, an earlier server with threads of its own, which the Makefile does not build;
- `demo.c`, a loop of prints and sleeps: the server prints the same lines itself; the Makefile and the test scripts, which are no part of the running system;
- what a shell command does, the text of messages and of the log, exit codes, the current directory;
- the growth of the client's response buffer, a failing `malloc` for a task other than as "no task" in `Session`;
- functions nothing calls: `scheduler_select_next_task`, which would lock `scheduler_mutex` twice, `scheduler_print_summary`,
  `dequeue_task`, `queue_is_empty`, `print_queue_snapshot`.
