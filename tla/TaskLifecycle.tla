--------------------------- MODULE TaskLifecycle ---------------------------
(***************************************************************************)
(* What the server promises about the commands its clients submit, with    *)
(* nothing of threads, queues or flags: one task runs at a time, a task is *)
(* answered once and only after all of its output, only a client's own     *)
(* departure cancels its tasks, and then it cancels all that wait.         *)
(*                                                                         *)
(* Scheduler implements this specification.                                *)
(***************************************************************************)
EXTENDS Integers

CONSTANTS
  Clients,   \* the clients
  NoClient,  \* the owner of a task that does not exist yet
  Commands,  \* what may be submitted: b > 0 owes b + 1 lines, -1 a shell command
  Tasks      \* the identities of tasks

VARIABLES
  phase,     \* where each task is in its life
  owner,     \* the client that submitted it
  demand,    \* the command it carries out
  output,    \* the lines it has sent
  present    \* the clients that are connected

vars == <<phase, owner, demand, output, present>>

Phases == {"unborn", "waiting", "running", "ended", "cancelled", "lost"}

Init ==
  /\ phase = [t \in Tasks |-> "unborn"]
  /\ owner = [t \in Tasks |-> NoClient]
  /\ demand = [t \in Tasks |-> 0]
  /\ output = [t \in Tasks |-> 0]
  /\ present = Clients

\* A connected client submits command b as task t.
Submit(t, c, b) ==
  /\ phase[t] = "unborn"
  /\ c \in present
  /\ phase' = [phase EXCEPT ![t] = "waiting"]
  /\ owner' = [owner EXCEPT ![t] = c]
  /\ demand' = [demand EXCEPT ![t] = b]
  /\ UNCHANGED <<output, present>>

\* A waiting task gets the processor, which no task has.
Start(t) ==
  /\ phase[t] = "waiting"
  /\ \A u \in Tasks : phase[u] # "running"
  /\ phase' = [phase EXCEPT ![t] = "running"]
  /\ UNCHANGED <<owner, demand, output, present>>

\* The running task sends one of the lines it owes.
Send(t) ==
  /\ phase[t] = "running"
  /\ output[t] <= demand[t]
  /\ output' = [output EXCEPT ![t] = @ + 1]
  /\ UNCHANGED <<phase, owner, demand, present>>

\* The running task gives way, but only while it owes output.
Yield(t) ==
  /\ phase[t] = "running"
  /\ output[t] <= demand[t]
  /\ phase' = [phase EXCEPT ![t] = "waiting"]
  /\ UNCHANGED <<owner, demand, output, present>>

\* The running task is answered, having sent all it owes.
Complete(t) ==
  /\ phase[t] = "running"
  /\ output[t] = demand[t] + 1
  /\ phase' = [phase EXCEPT ![t] = "ended"]
  /\ UNCHANGED <<owner, demand, output, present>>

\* The process of a shell command cannot be started: the task is lost.
Lose(t) ==
  /\ phase[t] = "running"
  /\ demand[t] = -1
  /\ phase' = [phase EXCEPT ![t] = "lost"]
  /\ UNCHANGED <<owner, demand, output, present>>

\* A client leaves: all its waiting tasks are cancelled, and no other task is.
Leave(c) ==
  /\ c \in present
  /\ present' = present \ {c}
  /\ phase' = [t \in Tasks |-> IF phase[t] = "waiting" /\ owner[t] = c
                                 THEN "cancelled" ELSE phase[t]]
  /\ UNCHANGED <<owner, demand, output>>

Next ==
  \/ \E t \in Tasks :
       \/ \E c \in Clients, b \in Commands : Submit(t, c, b)
       \/ Start(t) \/ Send(t) \/ Yield(t) \/ Complete(t) \/ Lose(t)
  \/ \E c \in Clients : Leave(c)

Spec == Init /\ [][Next]_vars
=============================================================================
