------------------------------ MODULE Session ------------------------------
(***************************************************************************)
(* Sessions: the client program (client.c), its TCP connection, and at the *)
(* server the accept loop and the worker of the connection (server.c).     *)
(* The scheduler is here what TaskLifecycle says of it; Scheduler shows    *)
(* that it does what TaskLifecycle says.                                   *)
(*                                                                         *)
(* A connection is two byte streams.  recv() returns any part of what is   *)
(* there, so a line may reach the worker in two pieces, or with what       *)
(* follows it, and the end marker may reach the client in two pieces, or   *)
(* with what follows it.  A line is one or two pieces; the output of a     *)
(* task is a sequence of pieces, which a shell command may follow by bytes *)
(* without end, and the end marker is two pieces.                          *)
(***************************************************************************)
EXTENDS Integers, SequencesExt

CONSTANTS
  Clients,       \* the clients
  NoClient,      \* the owner of a task that does not exist yet
  Descriptors,   \* the numbers accept() may give to a connection
  Bursts,        \* the N of the "demo N" commands
  Outputs,       \* what a shell command may write
  Beginnings,    \* what one that never stops may write first
  MaxTasks,      \* bound: tasks in one behaviour; for more there is no memory
  MaxLines,      \* bound: lines typed in one behaviour
  MaxCuts        \* bound: lines cut in one behaviour

ASSUME ClientsAssumption == NoClient \notin Clients
ASSUME DescriptorsAssumption == Descriptors \subseteq Nat \ {0}
ASSUME BurstsAssumption == Bursts \subseteq Nat \ {0}
ASSUME OutputsAssumption ==
  Outputs \cup Beginnings \subseteq Seq({"text", "mark1", "mark2"})
ASSUME BoundsAssumption == {MaxTasks, MaxLines, MaxCuts} \subseteq Nat

Tasks == 1 .. MaxTasks
Worker == 0                     \* in place of a task: written by the worker
ShellBurst == -1
Commands == Bursts \cup {ShellBurst}
Exit == -2
EmptyLine == -3

VARIABLES
  \* The clients.
  cpc,        \* where each is in main() of client.c
  typed,      \* lines typed so far by all
  response,   \* what it has received of the answer it waits for
  answer,     \* history: the last answer it printed
  \* The connections.
  up, down,   \* bytes on their way to the server, and to the client
  flood,      \* commands whose endless output is on its way to the client
  reset,      \* the client's host has answered with a reset
  cuts,       \* lines cut so far
  \* The server.
  alive,      \* the process runs
  wpc,        \* where the worker of each client is
  fd,         \* client_fd in the ClientContext
  due,        \* history: the answer to the last line the worker has read
  upsets,     \* history: what has gone wrong with each session
  \* Tasks: the variables of TaskLifecycle, what each has still to write, and
  \* which write on and on after that.
  phase, owner, demand, output, present,
  rest, endless

lifecycleVars == <<phase, owner, demand, output, present>>
clientVars == <<cpc, typed, response, answer>>
taskVars == <<lifecycleVars, rest, endless>>
vars == <<clientVars, up, down, flood, reset, cuts, alive, wpc, fd, due, upsets, taskVars>>

Server == INSTANCE TaskLifecycle

-----------------------------------------------------------------------------
(* Streams *)

Mark == <<"mark1", "mark2">>

\* The pieces of s, each with the task that wrote it.
Tagged(t, s) == [i \in DOMAIN s |-> <<t, s[i]>>]

\* Where an end marker begins in s.
MarkersIn(s) ==
  {i \in DOMAIN s : s[i][2] = "mark1" /\ i + 1 \in DOMAIN s /\ s[i + 1][2] = "mark2"}

\* A line in transit.  An empty line is one byte.
LinePieces(b) ==
  IF b = EmptyLine THEN <<<<b, "whole">>>> ELSE <<<<b, "head">>, <<b, "tail">>>>

\* The connections that descriptor f of the server stands for: one or none.
ConnectionsOf(f) == {c \in Clients : wpc[c] \in {"recv", "marking", "leaving"} /\ fd[c] = f}

\* A write to f when f is closed, or when the peer has gone: then the first
\* write is lost and brings a reset; the next fails, or raises SIGPIPE, which
\* ends the process.
WriteFails(f) ==
  \/ ConnectionsOf(f) = {} /\ UNCHANGED <<reset, alive>>
  \/ \E c \in ConnectionsOf(f) :
       /\ cpc[c] = "closed"
       /\ \/ ~reset[c] /\ reset' = [reset EXCEPT ![c] = TRUE] /\ UNCHANGED alive
          \/ reset[c] /\ alive' \in BOOLEAN /\ UNCHANGED reset

\* The server writes s to descriptor f, or endless output of task t.
Write(f, s) ==
  /\ UNCHANGED flood
  /\ \/ WriteFails(f) /\ UNCHANGED down
     \/ \E c \in ConnectionsOf(f) :
          /\ cpc[c] # "closed"
          /\ down' = [down EXCEPT ![c] = @ \o s]
          /\ UNCHANGED <<reset, alive>>
Flood(f, t) ==
  /\ UNCHANGED down
  /\ \/ WriteFails(f) /\ UNCHANGED flood
     \/ \E c \in ConnectionsOf(f) :
          /\ cpc[c] # "closed"
          /\ flood' = [flood EXCEPT ![c] = @ \cup {t}]
          /\ UNCHANGED <<reset, alive>>

-----------------------------------------------------------------------------
Init ==
  /\ cpc = [c \in Clients |-> "off"]
  /\ typed = 0
  /\ response = [c \in Clients |-> <<>>]
  /\ answer = [c \in Clients |-> <<>>]
  /\ up = [c \in Clients |-> <<>>] /\ down = [c \in Clients |-> <<>>]
  /\ flood = [c \in Clients |-> {}]
  /\ reset = [c \in Clients |-> FALSE]
  /\ cuts = 0
  /\ alive = TRUE
  /\ wpc = [c \in Clients |-> "none"]
  /\ fd = [c \in Clients |-> 0]
  /\ due = [c \in Clients |-> <<>>]
  /\ upsets = [c \in Clients |-> {}]
  /\ rest = [t \in Tasks |-> <<>>] /\ endless = {}
  /\ Server!Init

-----------------------------------------------------------------------------
(* The client *)

Connect(c) ==
  /\ cpc[c] = "off"
  /\ cpc' = [cpc EXCEPT ![c] = IF alive THEN "prompt" ELSE "closed"]
  /\ UNCHANGED <<typed, response, answer, up, down, flood, reset, cuts, alive, wpc, fd, due,
                 upsets, taskVars>>

\* A line is read at the prompt and sent; the client waits for the answer.
SendLine(c, b) ==
  /\ cpc[c] = "prompt" /\ typed < MaxLines
  /\ typed' = typed + 1
  /\ up' = [up EXCEPT ![c] = @ \o LinePieces(b)]
  /\ cpc' = [cpc EXCEPT ![c] = "receive"]
  /\ answer' = [answer EXCEPT ![c] = <<>>]
  /\ UNCHANGED <<response, down, flood, reset, cuts, alive, wpc, fd, due, upsets, taskVars>>

\* The client closes its socket.  Bytes it has not read make it a reset.
Close(c) ==
  /\ cpc' = [cpc EXCEPT ![c] = "closed"]
  /\ reset' = [reset EXCEPT ![c] = down[c] # <<>> \/ flood[c] # {}]
  /\ down' = [down EXCEPT ![c] = <<>>]
  /\ flood' = [flood EXCEPT ![c] = {}]
  /\ response' = [response EXCEPT ![c] = <<>>]
  /\ answer' = [answer EXCEPT ![c] = <<>>]
  /\ UNCHANGED <<typed, cuts, alive, wpc, fd, due, taskVars>>

\* At the prompt: end of input, a send that fails, or "exit", which is sent first.
Quit(c) ==
  /\ cpc[c] = "prompt"
  /\ up' \in {up, [up EXCEPT ![c] = @ \o LinePieces(Exit)]}
  /\ Close(c)
  /\ UNCHANGED upsets

\* A bug: the client takes the first output for the whole answer.
PrintedPartAny(r) == IF r = <<>> THEN {} ELSE {r}

\* What is printed of the bytes received: all before the first marker, as
\* soon as there is one.
PrintedPart(r) ==
  {SubSeq(r, 1, i - 1) : i \in {j \in MarkersIn(r) : \A k \in MarkersIn(r) : j <= k}}

\* One turn of the loop of receive_response_until_end.  What follows the
\* marker in the buffer is dropped with the buffer.
Receive(c) ==
  /\ cpc[c] = "receive"
  /\ \E n \in 1 .. Len(down[c]) :
       LET r == response[c] \o SubSeq(down[c], 1, n)
       IN  /\ down' = [down EXCEPT ![c] = SubSeq(@, n + 1, Len(@))]
           /\ IF PrintedPart(r) = {}
                THEN /\ response' = [response EXCEPT ![c] = r]
                     /\ UNCHANGED <<cpc, answer>>
                ELSE /\ response' = [response EXCEPT ![c] = <<>>]
                     /\ answer' = [answer EXCEPT ![c] = CHOOSE p \in PrintedPart(r) : TRUE]
                     /\ cpc' = [cpc EXCEPT ![c] = "prompt"]
  /\ UNCHANGED <<typed, up, flood, reset, cuts, alive, wpc, fd, due, upsets, taskVars>>

\* What comes has no end: the client goes on reading.
ReceiveFlood(c) ==
  /\ cpc[c] = "receive" /\ flood[c] # {}
  /\ flood' = [flood EXCEPT ![c] = {}]
  /\ UNCHANGED <<clientVars, up, down, reset, cuts, alive, wpc, fd, due, upsets, taskVars>>

\* A bug: the timeout counts only until the first bytes have come.
TimeOutAtFirst(c) ==
  /\ cpc[c] = "receive" /\ down[c] = <<>> /\ flood[c] = {} /\ response[c] = <<>>
  /\ upsets' = [upsets EXCEPT ![c] = @ \cup {"timeout"}]
  /\ Close(c)
  /\ UNCHANGED up

\* SO_RCVTIMEO: nothing has come for 60 s, and the client gives up.
TimeOut(c) ==
  /\ cpc[c] = "receive" /\ down[c] = <<>> /\ flood[c] = {}
  /\ upsets' = [upsets EXCEPT ![c] = @ \cup {"timeout"}]
  /\ Close(c)
  /\ UNCHANGED up

\* "Server disconnected.", or an error of recv().
ServerGone(c) ==
  /\ cpc[c] = "receive" /\ down[c] = <<>> /\ flood[c] = {}
  /\ ~alive \/ wpc[c] = "gone"
  /\ Close(c)
  /\ UNCHANGED <<up, upsets>>

-----------------------------------------------------------------------------
(* The server: the accept loop, and the worker of client c *)

\* A bug: the result of accept() is not checked.
AcceptUnchecked(c) ==
  /\ alive
  /\ cpc[c] # "off" /\ wpc[c] = "none"
  /\ fd' \in {[fd EXCEPT ![c] = f] : f \in Descriptors \cup {-1}}
  /\ wpc' = [wpc EXCEPT ![c] = "recv"]
  /\ UNCHANGED <<clientVars, up, down, flood, reset, cuts, alive, due, upsets, taskVars>>

\* accept() takes the lowest free descriptor; a worker is started.
Accept(c) ==
  /\ alive
  /\ cpc[c] # "off" /\ wpc[c] = "none"
  /\ \E f \in Descriptors :
       /\ ConnectionsOf(f) = {}
       /\ \A g \in Descriptors : g < f => ConnectionsOf(g) # {}
       /\ fd' = [fd EXCEPT ![c] = f]
  /\ wpc' = [wpc EXCEPT ![c] = "recv"]
  /\ UNCHANGED <<clientVars, up, down, flood, reset, cuts, alive, due, upsets, taskVars>>

\* What command b may write: all of it, or what comes before its endless rest.
OutputsOf(b, forever) ==
  CASE b = ShellBurst /\ ~forever -> Outputs
    [] b = ShellBurst /\ forever -> Beginnings
    [] b # ShellBurst /\ ~forever -> {[i \in 1 .. b + 1 |-> "text"]}
    [] OTHER -> {}

\* The worker makes a task of command b and enqueues it.
MakeTask(c, b, upset) ==
  \E t \in Tasks, forever \in BOOLEAN : \E s \in OutputsOf(b, forever) :
    /\ \A u \in Tasks : phase[u] = "unborn" => t <= u
    /\ Server!Submit(t, c, b)
    /\ rest' = [rest EXCEPT ![t] = s]
    /\ endless' = IF forever THEN endless \cup {t} ELSE endless
    /\ due' = [due EXCEPT ![c] = Tagged(t, s)]
    /\ upsets' = [upsets EXCEPT ![c] =
                    @ \cup upset \cup (IF MarkersIn(Tagged(t, s)) = {} THEN {} ELSE {"marker"})
                      \cup (IF forever THEN {"endless"} ELSE {})]
    /\ UNCHANGED <<down, flood, reset, alive, wpc>>

\* The worker answers by itself: with s, if it is not empty, ...
WorkerAnswers(c, s, upset) ==
  /\ IF s = <<>> THEN UNCHANGED <<down, flood, reset, alive>>
                 ELSE Write(fd[c], Tagged(Worker, s))
  /\ wpc' = [wpc EXCEPT ![c] = "marking"]
  /\ due' = [due EXCEPT ![c] = Tagged(Worker, s)]
  /\ upsets' = [upsets EXCEPT ![c] = @ \cup upset]
  /\ UNCHANGED taskVars

\* ... and then, in a send of its own, with the end marker.
SendMark(c) ==
  /\ alive /\ wpc[c] = "marking"
  /\ Write(fd[c], Tagged(Worker, Mark))
  /\ wpc' = [wpc EXCEPT ![c] = "recv"]
  /\ UNCHANGED <<clientVars, up, cuts, fd, due, upsets, taskVars>>

\* The client's waiting tasks are freed: remove_tasks_for_client.
RemoveTasks(c) ==
  /\ Server!Leave(c)
  /\ wpc' = [wpc EXCEPT ![c] = "leaving"]
  /\ UNCHANGED <<down, flood, reset, alive, due, rest, endless>>

\* What handle_client_session does with line b.
HandleLine(c, b, upset) ==
  \/ b = EmptyLine /\ WorkerAnswers(c, <<>>, upset)
  \/ b = Exit /\ RemoveTasks(c) /\ upsets' = [upsets EXCEPT ![c] = @ \cup upset]
  \/ b \in Commands /\ MakeTask(c, b, upset)
  \/ /\ b \in Commands
     /\ \A t \in Tasks : phase[t] # "unborn"
     /\ WorkerAnswers(c, <<"text">>, upset)

\* The two lines that line b may become when it is cut.  A shell command may
\* hold anything, "demo 12" may become "demo 1" and "2", and "./demo 1" may
\* become "./" and "demo 1".
Halves(b) ==
  {<<b, EmptyLine>>} \cup
    {h \in (Commands \cup {Exit}) \X (Commands \cup {Exit}) :
       \/ b = ShellBurst
       \/ b = Exit /\ h = <<ShellBurst, ShellBurst>>
       \/ b \in Bursts /\ h[1] = ShellBurst /\ h[2] \in {b, ShellBurst}
       \/ b \in Bursts /\ h[1] \in 1 .. b /\ h[2] = ShellBurst}

\* One recv() of the worker: n pieces, of which what comes after the first
\* newline is lost.
ReceiveLine(c) ==
  /\ alive /\ wpc[c] = "recv"
  /\ \E n \in 1 .. Len(up[c]) :
       LET b == up[c][1][1]
           part == up[c][1][2]
       IN  \* A whole line,
           \/ /\ part = "whole" \/ (part = "head" /\ n > 1)
              /\ up' = [up EXCEPT ![c] = SubSeq(@, n + 1, Len(@))]
              /\ HandleLine(c, b, {})
              /\ UNCHANGED cuts
           \* the first half of a line, whose second half becomes a line,
           \/ /\ part = "head" /\ n = 1 /\ cuts < MaxCuts
              /\ cuts' = cuts + 1
              /\ \E h \in Halves(b) :
                   /\ up' = [up EXCEPT ![c] = <<<<h[2], "whole">>>> \o SubSeq(@, 3, Len(@))]
                   /\ HandleLine(c, h[1], {"cut"})
           \* or the second half of a line whose first half was lost.
           \/ /\ part = "tail"
              /\ up' = [up EXCEPT ![c] = SubSeq(@, n + 1, Len(@))]
              /\ \E h \in Halves(b) : HandleLine(c, h[2], {"cut"})
              /\ UNCHANGED cuts
  /\ UNCHANGED <<clientVars, fd>>

\* Two bugs: after an error of recv() the worker tries again, and it leaves
\* without removing the client's tasks.
HangUpAtEnd(c) ==
  /\ alive /\ wpc[c] = "recv" /\ cpc[c] = "closed"
  /\ up[c] = <<>> /\ ~reset[c]
  /\ RemoveTasks(c)
  /\ UNCHANGED <<clientVars, up, cuts, fd, upsets>>
HangUpKeepingTasks(c) ==
  /\ alive /\ wpc[c] = "recv" /\ cpc[c] = "closed"
  /\ up[c] = <<>> \/ reset[c]
  /\ wpc' = [wpc EXCEPT ![c] = "leaving"]
  /\ UNCHANGED <<clientVars, up, down, flood, reset, cuts, alive, fd, due, upsets, taskVars>>

\* recv() returns 0 at the end of the stream, or an error after a reset.
HangUp(c) ==
  /\ alive /\ wpc[c] = "recv" /\ cpc[c] = "closed"
  /\ up[c] = <<>> \/ reset[c]
  /\ RemoveTasks(c)
  /\ UNCHANGED <<clientVars, up, cuts, fd, upsets>>

CloseDescriptor(c) ==
  /\ alive /\ wpc[c] = "leaving"
  /\ wpc' = [wpc EXCEPT ![c] = "gone"]
  /\ UNCHANGED <<clientVars, up, down, flood, reset, cuts, alive, fd, due, upsets, taskVars>>

-----------------------------------------------------------------------------
(* The server: the scheduler thread, as TaskLifecycle has it *)

\* Task t writes to the descriptor its client had, whatever that is now.
Strays(t) ==
  upsets' = [c \in Clients |->
               IF c \in ConnectionsOf(fd[owner[t]]) /\ c # owner[t]
                 THEN upsets[c] \cup {"stray"} ELSE upsets[c]]
Answer(t, s) == Write(fd[owner[t]], Tagged(t, s)) /\ Strays(t)

\* The next line of a demo, or the next output of a shell command.
WriteOutput(t) ==
  /\ alive /\ phase[t] = "running" /\ rest[t] # <<>>
  /\ IF demand[t] = ShellBurst THEN UNCHANGED lifecycleVars ELSE Server!Send(t)
  /\ rest' = [rest EXCEPT ![t] = Tail(@)]
  /\ Answer(t, <<Head(rest[t])>>)
  /\ UNCHANGED <<clientVars, up, cuts, wpc, fd, due, endless>>

\* One more output of a command that writes for ever.
StreamOutput(t) ==
  /\ alive /\ phase[t] = "running" /\ rest[t] = <<>> /\ t \in endless
  /\ Flood(fd[owner[t]], t) /\ Strays(t)
  /\ UNCHANGED <<clientVars, up, cuts, wpc, fd, due, taskVars>>

EndTask(t) ==
  /\ alive /\ rest[t] = <<>> /\ t \notin endless
  /\ Server!Complete(t)
  /\ Answer(t, Mark)
  /\ UNCHANGED <<clientVars, up, cuts, wpc, fd, due, rest, endless>>

\* Steps of the scheduler that write nothing.
Schedule(t) ==
  /\ alive
  /\ Server!Start(t) \/ Server!Yield(t) \/ Server!Lose(t)
  /\ UNCHANGED <<clientVars, up, down, flood, reset, cuts, alive, wpc, fd, due, upsets, rest,
                 endless>>

-----------------------------------------------------------------------------
ClientWaits(c) == Receive(c) \/ ReceiveFlood(c) \/ TimeOut(c) \/ ServerGone(c)

WorkerRuns(c) ==
  Accept(c) \/ ReceiveLine(c) \/ SendMark(c) \/ HangUp(c) \/ CloseDescriptor(c)

Next ==
  \/ \E c \in Clients :
       \/ Connect(c) \/ Quit(c)
       \/ \E b \in Commands \cup {EmptyLine} : SendLine(c, b)
       \/ ClientWaits(c)
       \/ WorkerRuns(c)
  \/ \E t \in Tasks : WriteOutput(t) \/ StreamOutput(t) \/ EndTask(t) \/ Schedule(t)

Spec == Init /\ [][Next]_vars

\* The server's threads are scheduled again and again, and the clock runs.
\* No client has to type, or to leave, and no command has to end.
FairSpec ==
  /\ Spec
  /\ \A c \in Clients : WF_vars(ClientWaits(c)) /\ WF_vars(WorkerRuns(c))

-----------------------------------------------------------------------------
(* Properties *)

Pieces == {"text", "mark1", "mark2"}
Entries == (Tasks \cup {Worker}) \X Pieces
Stream == Seq(Entries)
Lines == Commands \cup {Exit, EmptyLine}

Upsets == {"cut", "marker", "endless", "stray", "timeout"}

\* The types of the variables.  Only a client that waits has part of an
\* answer, nothing is under way to one that has closed, and a connection has
\* a descriptor from accept() on.
TypeOK ==
  /\ cpc \in [Clients -> {"off", "prompt", "receive", "closed"}]
  /\ typed \in 0 .. MaxLines
  /\ {response, answer, down, due} \subseteq [Clients -> Stream]
  /\ up \in [Clients -> Seq(Lines \X {"whole", "head", "tail"})]
  /\ flood \in [Clients -> SUBSET endless]
  /\ fd \in [Clients -> Descriptors \cup {0}]
  /\ \A c \in Clients :
       /\ response[c] # <<>> => cpc[c] = "receive"
       /\ cpc[c] = "closed" => down[c] = <<>> /\ flood[c] = {}
       /\ wpc[c] = "none" <=> fd[c] = 0
  /\ reset \in [Clients -> BOOLEAN]
  /\ cuts \in 0 .. MaxCuts
  /\ alive \in BOOLEAN
  /\ wpc \in [Clients -> {"none", "recv", "marking", "leaving", "gone"}]
  /\ upsets \in [Clients -> SUBSET Upsets]
  /\ rest \in [Tasks -> Seq(Pieces)]
  /\ endless \subseteq Tasks

\* The answer a client has printed when it is back at its prompt is the whole
\* answer to its last line and nothing else, however the bytes of it came in
\* (client.c, lines 88-176): unless a line of the session was cut, a command
\* wrote the end marker itself or wrote for ever, or a stranger wrote to the
\* connection.
AnswersInStep ==
  \A c \in Clients : cpc[c] = "prompt" /\ upsets[c] = {} => answer[c] = due[c]

\* SIGPIPE, of which there is no handler (server.c, line 76), ends the server
\* only by a write to a connection that has been reset; and a client whose
\* session went well leaves none behind, whenever it leaves.
OrderlyClientsHarmless ==
  /\ ~alive => \E c \in Clients : cpc[c] = "closed" /\ reset[c]
  /\ \A c \in Clients : cpc[c] = "closed" /\ reset[c] => upsets[c] # {}

\* Who has written what is under way to c.
Writers(c) == {down[c][i][1] : i \in DOMAIN down[c]} \cup flood[c]

\* When a client gets the output of another one's command, its owner had left
\* before, with the command running: no descriptor is given to a new client
\* while tasks that wait would write to it (server.c, lines 386-388).
StraysAreOrphans ==
  \A c \in Clients : \A t \in Writers(c) \ {Worker} :
    owner[t] # c => owner[t] \notin present

\* No client waits for ever (client.c, lines 243-251), not even for the answer
\* to a command that was lost, or by a server that has ended; but the 60 s
\* count from one recv() to the next (client.c, line 109), and the endless
\* output of a command, its own or a stray one, holds it while it comes.
ClientNeverHangs ==
  \A c \in Clients :
    cpc[c] = "receive" ~> cpc[c] \in {"prompt", "closed"} \/ flood[c] # {}

\* The server notices that a client has left, and gives its descriptor back.
DepartureNoticed ==
  \A c \in Clients : cpc[c] = "closed" /\ wpc[c] # "none" ~> wpc[c] = "gone" \/ ~alive

-----------------------------------------------------------------------------
(* What a comment in the code says, and the code does not do *)

\* "total real output bytes sent to this client" (scheduler_queue.h, line 31):
\* what a task writes goes to the client that owns it.
OutputGoesToOwner ==
  \A c \in Clients : \A t \in Writers(c) \ {Worker} : owner[t] = c
=============================================================================
