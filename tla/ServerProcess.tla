--------------------------- MODULE ServerProcess ----------------------------
(***************************************************************************)
(* The server as a process among others (server.c): how it finds a port    *)
(* and says which, how clients find it (client.c), who shares its log      *)
(* mutex, and how SIGINT ends it.                                          *)
(*                                                                         *)
(* Servers are started at any time, next to each other or one after the    *)
(* other; a server that ended does not come back, a new one is another     *)
(* member of Servers.  Of what its threads do between two log lines there  *)
(* is only what outlives them: entries in the trace, and commands, which   *)
(* hold copies of all descriptors of the server.  Sockets behave as on     *)
(* Linux with SO_REUSEADDR: a port can be bound by several sockets, but    *)
(* not once one of them listens.                                           *)
(***************************************************************************)
EXTENDS Integers, FiniteSets

CONSTANTS
  Servers,    \* processes that run server.c
  Clients,    \* users of client.c, one process after the other
  First,      \* PORT, the first port a server tries
  Tries,      \* MAX_PORT_TRIES
  Taken,      \* ports on which other programs listen
  Given,      \* ports that may be given on a command line
  Workers     \* names of worker threads

ASSUME PortsAssumption == First \in Nat \ {0} /\ Tries \in Nat \ {0}

Ports == First .. First + Tries - 1
ASSUME GivenAssumption == Given \subseteq Ports
ASSUME WorkersAssumption == Workers \cap {"main", "scheduler"} = {}

NoPort == 0
Absent == 0         \* there is no hint file
Empty == -1         \* it is open for writing, or was left so
NoOne == "none"

Threads == {"main", "scheduler"} \cup Workers

VARIABLES
  \* The servers.
  spc,        \* where main is
  asked,      \* the port it begins with, and
  tries,      \* how many it may try
  tried,      \* i, the ports tried before
  port,       \* bound_port
  listens,    \* whether its socket was made to listen
  owner,      \* the thread that holds g_log_mutex
  trace,      \* whether g_trace has an entry
  worker,     \* whether it has had a client: then it has all its workers
  command,    \* whether a command it has started runs
  interrupted,\* the threads that are in handle_sigint
  ended,      \* history: whether it ended for want of a port
  \* The hint file.
  hint,       \* what is in .myshell_port
  writer,     \* history: who wrote it
  \* The clients.
  cpc,        \* where each is
  target,     \* the port it chose
  peer        \* the server whose socket took its connection

bindVars == <<asked, tries, tried, port, listens>>
threadVars == <<owner, trace, worker, command, interrupted>>
hintVars == <<hint, writer>>
clientVars == <<cpc, target, peer>>
vars == <<spc, bindVars, threadVars, ended, hintVars, clientVars>>

-----------------------------------------------------------------------------
Alive(s) == spc[s] \notin {"off", "ended"}

\* The server accepts clients, or is about to.
Up(s) == spc[s] \in {"hello", "accept", "connected", "worker"}

\* A socket is closed when the server has ended and no command has a copy.
Open(s) == Alive(s) \/ command[s]
ListenersOn(p) == {s \in Servers : listens[s] /\ port[s] = p /\ Open(s)}
Busy(p) == p \in Taken \/ ListenersOn(p) # {}

ThreadsOf(s) ==
  (IF Alive(s) THEN {"main"} ELSE {}) \cup (IF Up(s) THEN {"scheduler"} ELSE {})
    \cup (IF worker[s] THEN Workers ELSE {})

\* Thread t is not in the handler.
Runs(s, t) == t \in ThreadsOf(s) \ interrupted[s]

\* Clients whose connection nobody has accepted.
QueuedAt(s) == {c \in Clients : cpc[c] = "queued" /\ peer[c] = s}
AcceptedAt(s) == {c \in Clients : cpc[c] = "accepted" /\ peer[c] = s}

\* The clients of S have got what they get: a worker, a closed connection, or
\* nothing until they give up.  The user may start another client.
Leave(S) ==
  /\ cpc' = [c \in Clients |-> IF c \in S THEN "off" ELSE cpc[c]]
  /\ target' = [c \in Clients |-> IF c \in S THEN NoPort ELSE target[c]]
  /\ peer' = [c \in Clients |-> IF c \in S THEN NoOne ELSE peer[c]]

-----------------------------------------------------------------------------
Init ==
  /\ spc = [s \in Servers |-> "off"]
  /\ asked = [s \in Servers |-> First] /\ tries = [s \in Servers |-> Tries]
  /\ tried = [s \in Servers |-> 0]
  /\ port = [s \in Servers |-> NoPort] /\ listens = [s \in Servers |-> FALSE]
  /\ owner = [s \in Servers |-> NoOne]
  /\ trace = [s \in Servers |-> FALSE] /\ worker = [s \in Servers |-> FALSE]
  /\ command = [s \in Servers |-> FALSE]
  /\ interrupted = [s \in Servers |-> {}]
  /\ ended = [s \in Servers |-> "no"]
  /\ hint = Absent /\ writer = NoOne
  /\ cpc = [c \in Clients |-> "off"]
  /\ target = [c \in Clients |-> NoPort] /\ peer = [c \in Clients |-> NoOne]

\* Main goes on to pc; the others keep what they have.
Goto(s, pc) == spc' = [spc EXCEPT ![s] = pc]

\* The process ends: its mutex and threads are gone, and with its socket the
\* connections that nobody has accepted, unless a command keeps the socket.
End(s, why) ==
  /\ Goto(s, "ended")
  /\ ended' = [ended EXCEPT ![s] = why]
  /\ owner' = [owner EXCEPT ![s] = NoOne]
  /\ interrupted' = [interrupted EXCEPT ![s] = {}]
  /\ worker' = [worker EXCEPT ![s] = FALSE]
  /\ Leave(AcceptedAt(s) \cup IF command[s] THEN {} ELSE QueuedAt(s))
  /\ trace' = [trace EXCEPT ![s] = FALSE]
  /\ UNCHANGED <<bindVars, command>>

-----------------------------------------------------------------------------
(* main: start *)

\* With a port on the command line only that port is tried.
Start(s) ==
  /\ spc[s] = "off"
  /\ \/ UNCHANGED <<asked, tries>>
     \/ /\ asked' \in {[asked EXCEPT ![s] = p] : p \in Given}
        /\ tries' = [tries EXCEPT ![s] = 1]
  /\ Goto(s, "bind")
  /\ UNCHANGED <<tried, port, listens, threadVars, ended, hintVars, clientVars>>

\* bind_with_fallback: one turn of its loop.
Candidate(s) == asked[s] + tried[s]

\* A bug: one port too many is tried.
BindOnceMore(s) ==
  /\ spc[s] = "bind" /\ tried[s] <= tries[s]
  /\ ~Busy(Candidate(s))
  /\ port' = [port EXCEPT ![s] = Candidate(s)]
  /\ Goto(s, IF tried[s] = 0 THEN "open" ELSE "busy")
  /\ UNCHANGED <<asked, tries, tried, listens, threadVars, ended, hintVars, clientVars>>

Bind(s) ==
  /\ spc[s] = "bind" /\ tried[s] < tries[s]
  /\ ~Busy(Candidate(s))
  /\ port' = [port EXCEPT ![s] = Candidate(s)]
  /\ Goto(s, IF tried[s] = 0 THEN "open" ELSE "busy")
  /\ UNCHANGED <<asked, tries, tried, listens, threadVars, ended, hintVars, clientVars>>

\* A bug: a busy port is not followed by another.
BindBusyAndStop(s) ==
  /\ spc[s] = "bind" /\ tried[s] < tries[s]
  /\ Busy(Candidate(s))
  /\ tried' = [tried EXCEPT ![s] = tries[s]]
  /\ UNCHANGED <<spc, asked, tries, port, listens, threadVars, ended, hintVars, clientVars>>

BindBusy(s) ==
  /\ spc[s] = "bind" /\ tried[s] < tries[s]
  /\ Busy(Candidate(s))
  /\ tried' = [tried EXCEPT ![s] = @ + 1]
  /\ UNCHANGED <<spc, asked, tries, port, listens, threadVars, ended, hintVars, clientVars>>

\* socket, dup, setsockopt or bind fails for another reason, or no port is left.
GiveUp(s) ==
  /\ spc[s] = "bind"
  /\ End(s, IF tried[s] = tries[s] THEN "ports" ELSE "other")
  /\ UNCHANGED hintVars

\* write_port_hint_file: fopen empties the file, or fails; fclose writes.
OpenHint(s) ==
  /\ spc[s] = "open"
  /\ \/ Goto(s, "write") /\ hint' = Empty
     \/ Goto(s, "listen") /\ UNCHANGED hint
  /\ UNCHANGED <<bindVars, threadVars, ended, writer, clientVars>>

\* A bug: the hint is the port that was asked for.
WriteHintAsked(s) ==
  /\ spc[s] = "write"
  /\ hint' = asked[s] /\ writer' = s
  /\ Goto(s, "listen")
  /\ UNCHANGED <<bindVars, threadVars, ended, clientVars>>

WriteHint(s) ==
  /\ spc[s] = "write"
  /\ hint' = port[s] /\ writer' = s
  /\ Goto(s, "listen")
  /\ UNCHANGED <<bindVars, threadVars, ended, clientVars>>

\* The first of several sockets that are bound to the port gets it.
Listen(s) ==
  /\ spc[s] = "listen"
  /\ ListenersOn(port[s]) = {}
  /\ listens' = [listens EXCEPT ![s] = TRUE]
  /\ Goto(s, "thread")
  /\ UNCHANGED <<asked, tries, tried, port, threadVars, ended, hintVars, clientVars>>

ListenFails(s) ==
  /\ spc[s] = "listen"
  /\ ListenersOn(port[s]) # {}
  /\ End(s, "listen")
  /\ UNCHANGED hintVars

\* The scheduler thread is created, or not.
CreateScheduler(s) ==
  /\ spc[s] = "thread"
  /\ \/ Goto(s, "hello") /\ UNCHANGED <<bindVars, threadVars, ended, clientVars>>
     \/ End(s, "other")
  /\ UNCHANGED hintVars

-----------------------------------------------------------------------------
(* main: the accept loop *)

\* There is no memory for the client, and it is closed, or it is announced.
Accept(s) ==
  /\ spc[s] = "accept" /\ Runs(s, "main")
  /\ \E c \in QueuedAt(s) :
       \/ /\ cpc' = [cpc EXCEPT ![c] = "accepted"]
          /\ Goto(s, "connected")
          /\ UNCHANGED <<target, peer>>
       \/ Leave({c}) /\ UNCHANGED spc
  /\ UNCHANGED <<bindVars, threadVars, ended, hintVars>>

\* The worker is created, or not: then the client is closed.
CreateWorker(s) ==
  /\ spc[s] = "worker" /\ Runs(s, "main")
  /\ worker' \in {worker, [worker EXCEPT ![s] = TRUE]}
  /\ Leave(AcceptedAt(s))
  /\ Goto(s, "accept")
  /\ UNCHANGED <<bindVars, owner, trace, command, interrupted, ended, hintVars>>

-----------------------------------------------------------------------------
(* The other threads *)

\* A demo has used time in its turn.
AppendTrace(s) ==
  /\ worker[s] /\ Runs(s, "scheduler") /\ owner[s] # "scheduler"
  /\ trace' = [trace EXCEPT ![s] = TRUE]
  /\ UNCHANGED <<spc, bindVars, owner, worker, command, interrupted, ended, hintVars, clientVars>>

\* A command is started.  It may leave another in the background.
Fork(s) ==
  /\ worker[s] /\ Runs(s, "scheduler") /\ owner[s] # "scheduler"
  /\ command' = [command EXCEPT ![s] = TRUE]
  /\ UNCHANGED <<spc, bindVars, owner, trace, worker, interrupted, ended, hintVars, clientVars>>

\* The last command ends, and with it the socket if the server has ended.
CommandEnds(s) ==
  /\ command[s]
  /\ command' = [command EXCEPT ![s] = FALSE]
  /\ Leave(IF Alive(s) THEN {} ELSE QueuedAt(s))
  /\ UNCHANGED <<spc, bindVars, owner, trace, worker, interrupted, ended, hintVars>>

-----------------------------------------------------------------------------
(* log_printf_locked: taking the mutex, and leaving it *)

AfterLog == [busy |-> "open", hello |-> "accept", connected |-> "worker"]

\* Main has a line to log at three places, the others at any time.
HasLine(s, t) == t = "main" => spc[s] \in DOMAIN AfterLog

Lock(s, t) ==
  /\ Runs(s, t) /\ HasLine(s, t)
  /\ owner[s] = NoOne
  /\ owner' = [owner EXCEPT ![s] = t]
  /\ UNCHANGED <<spc, bindVars, trace, worker, command, interrupted, ended, hintVars, clientVars>>

\* A bug: only main leaves the mutex.
UnlockMain(s, t) ==
  /\ Runs(s, t)
  /\ owner[s] = t /\ t = "main"
  /\ owner' = [owner EXCEPT ![s] = NoOne]
  /\ Goto(s, AfterLog[spc[s]])
  /\ UNCHANGED <<bindVars, trace, worker, command, interrupted, ended, hintVars, clientVars>>

Unlock(s, t) ==
  /\ Runs(s, t)
  /\ owner[s] = t
  /\ owner' = [owner EXCEPT ![s] = NoOne]
  /\ IF t = "main" THEN Goto(s, AfterLog[spc[s]]) ELSE UNCHANGED spc
  /\ UNCHANGED <<bindVars, trace, worker, command, interrupted, ended, hintVars, clientVars>>

-----------------------------------------------------------------------------
(* handle_sigint *)

\* exit() writes what main has printed into the hint file and not closed yet.
FlushHint(s) ==
  \/ UNCHANGED hintVars
  \/ spc[s] = "write" /\ hint' = port[s] /\ writer' = s

\* The signal is handled on any thread that is not handling one.  With no
\* trace to log the handler exits at once.
Interrupt(s) ==
  /\ Alive(s)
  /\ \/ ~trace[s] /\ End(s, "other") /\ FlushHint(s)
     \/ /\ trace[s]
        /\ \E t \in ThreadsOf(s) \ interrupted[s] :
             interrupted' = [interrupted EXCEPT ![s] = @ \cup {t}]
        /\ UNCHANGED <<spc, bindVars, owner, trace, worker, command, ended, hintVars, clientVars>>

\* The handler gets the mutex, logs the trace and exits.
HandlerExits(s) ==
  /\ interrupted[s] # {} /\ owner[s] = NoOne
  /\ End(s, "other")
  /\ UNCHANGED hintVars

-----------------------------------------------------------------------------
(* The clients *)

\* The port in the hint file if there is one, or else the default.
Hinted == IF hint \in Ports THEN hint ELSE First

\* A port of its own (argument or MYSHELL_PORT), or what the file says.
ChoosePort(c) ==
  /\ cpc[c] = "off"
  /\ target' \in {[target EXCEPT ![c] = p] : p \in Given \cup {Hinted}}
  /\ cpc' = [cpc EXCEPT ![c] = "connect"]
  /\ UNCHANGED <<spc, bindVars, threadVars, ended, hintVars, peer>>

\* With none of the servers on the port it is refused, or meets a stranger.
Connect(c) ==
  /\ cpc[c] = "connect"
  /\ \/ \E s \in ListenersOn(target[c]) :
          cpc' = [cpc EXCEPT ![c] = "queued"] /\ peer' = [peer EXCEPT ![c] = s]
          /\ UNCHANGED target
     \/ ListenersOn(target[c]) = {} /\ Leave({c})
  /\ UNCHANGED <<spc, bindVars, threadVars, ended, hintVars>>

\* 60 seconds without an answer.
TimeOut(c) ==
  /\ cpc[c] = "queued"
  /\ Leave({c})
  /\ UNCHANGED <<spc, bindVars, threadVars, ended, hintVars>>

-----------------------------------------------------------------------------
MainStep(s) ==
  \/ Bind(s) \/ BindBusy(s) \/ GiveUp(s) \/ OpenHint(s) \/ WriteHint(s)
  \/ Listen(s) \/ ListenFails(s) \/ CreateScheduler(s)
  \/ Accept(s) \/ CreateWorker(s)

Next ==
  \/ \E s \in Servers :
       \/ Start(s) \/ MainStep(s)
       \/ AppendTrace(s) \/ Fork(s) \/ CommandEnds(s)
       \/ \E t \in Threads : Lock(s, t) \/ Unlock(s, t)
       \/ Interrupt(s) \/ HandlerExits(s)
  \/ \E c \in Clients : ChoosePort(c) \/ Connect(c) \/ TimeOut(c)

\* A thread that can go on does, and a thread that waits for the mutex gets it
\* if it is free again and again.  Commands need not end.
Fairness ==
  \A s \in Servers :
    /\ SF_vars(MainStep(s) \/ Lock(s, "main") \/ Unlock(s, "main"))
    /\ WF_vars(\E t \in Threads \ {"main"} : Unlock(s, t))
    /\ SF_vars(HandlerExits(s))

Spec == Init /\ [][Next]_vars /\ Fairness

-----------------------------------------------------------------------------
MainType ==
  /\ spc \in [Servers -> {"off", "bind", "busy", "open", "write", "listen", "thread", "hello",
                          "accept", "connected", "worker", "ended"}]
  /\ asked \in [Servers -> Ports] /\ tries \in [Servers -> {1, Tries}]
  /\ tried \in [Servers -> Nat] /\ \A s \in Servers : tried[s] <= tries[s]
  /\ port \in [Servers -> Ports \cup {NoPort}] /\ listens \in [Servers -> BOOLEAN]
  /\ ended \in [Servers -> {"no", "ports", "listen", "other"}]

ThreadType ==
  /\ {trace, worker, command} \subseteq [Servers -> BOOLEAN]
  /\ owner \in [Servers -> Threads \cup {NoOne}]
  /\ interrupted \in [Servers -> SUBSET Threads]
  /\ \A s \in Servers : interrupted[s] \cup ({owner[s]} \ {NoOne}) \subseteq ThreadsOf(s)

HintType == hint \in Ports \cup {Absent, Empty} /\ writer \in Servers \cup {NoOne}

ClientType ==
  /\ cpc \in [Clients -> {"off", "connect", "queued", "accepted"}]
  /\ target \in [Clients -> Ports \cup {NoPort}]
  /\ peer \in [Clients -> Servers \cup {NoOne}]
  /\ \A c \in Clients : IF cpc[c] \in {"off", "connect"} THEN peer[c] = NoOne
                         ELSE peer[c] \in Servers /\ listens[peer[c]] /\ port[peer[c]] = target[c]

\* Every variable has its type; threads that are interrupted or hold the mutex
\* exist, and only a server that listens has clients.
TypeOK == MainType /\ ThreadType /\ HintType /\ ClientType

\* The hint file names the port of the server that wrote it last, which may
\* have ended; if it is up, that port is its own: no other server, and no
\* command of an earlier server, takes the clients that follow the hint
\* (client.c:42).  The file is empty only while a server is writing it, or if
\* one was interrupted as it did.
HintLeadsToServer ==
  /\ hint \in Ports =>
       /\ port[writer] = hint
       /\ Up(writer) => ListenersOn(hint) = {writer}
  /\ hint = Empty =>
       \E s \in Servers : port[s] # NoPort /\ ~listens[s] /\ spc[s] \in {"write", "ended"}

\* A server gives up only for others: because each of the ports it may try
\* was in use, or because another server that was started with it, and bound
\* the same port, was the first to listen.  Then it gives up though the next
\* port may be free (server.c:126, server.c:477).
Claimed(s, p) == p \in Taken \/ \E o \in Servers \ {s} : port[o] = p /\ listens[o]
GivesUpForOthers ==
  \A s \in Servers :
    /\ ended[s] = "ports" => \A i \in 0 .. tries[s] - 1 : Claimed(s, asked[s] + i)
    /\ ended[s] = "listen" => Claimed(s, port[s]) /\ port[s] \notin Taken

\* The handler interrupted the thread that holds the mutex it waits for.
SelfLocked(s) == owner[s] \in interrupted[s]

\* The server has ended, but a command still has its listening socket.
LeftBehind(s) == spc[s] = "ended" /\ command[s]

\* SIGINT ends the server, unless it interrupts a thread inside
\* log_printf_locked when there is a trace to log (server.c:58).
InterruptEnds ==
  \A s \in Servers : interrupted[s] # {} ~> spc[s] = "ended" \/ SelfLocked(s)

\* A client that got a connection is accepted, or its connection is closed,
\* however the server fares, but for two cases: that of a server that waits
\* for itself, and that of a server that has left a command with its socket.
ConnectionAccepted ==
  \A c \in Clients :
    cpc[c] = "queued" ~> cpc[c] # "queued" \/ SelfLocked(peer[c]) \/ LeftBehind(peer[c])
=============================================================================
