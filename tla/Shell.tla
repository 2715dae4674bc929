------------------------------- MODULE Shell -------------------------------
(***************************************************************************)
(* The interactive shell (myshell.c) and its executor (executor.c): what   *)
(* becomes of descriptors and children when a line is run as a pipeline,   *)
(* as a command of its own, or as a builtin inside the shell, and pipe(),  *)
(* fork(), open() or exec fails on the way.                                *)
(*                                                                         *)
(* execute_command runs one command as execute_pipeline runs a pipeline of *)
(* one, and is modelled as that.  Of what a command computes there is only *)
(* whether it reads its input to the end, and that it writes a little.     *)
(***************************************************************************)
EXTENDS Integers, FiniteSets

CONSTANTS
  MaxCmds,    \* bound: commands in a pipeline
  MaxLines,   \* bound: lines in one behaviour
  MaxForks,   \* bound: children in one behaviour
  Limits,     \* how many descriptors the shell may have besides 0, 1 and 2
  Capacity,   \* what fits into a pipe
  Amount,     \* what each command writes
  Terminal    \* whether the standard output of the shell is a terminal

ASSUME BoundsAssumption == MaxCmds \in Nat \ {0} /\ {MaxLines, MaxForks} \subseteq Nat
ASSUME LimitsAssumption == Limits \subseteq Nat
ASSUME AmountAssumption == Capacity \in Nat \ {0} /\ Amount \in Nat
ASSUME TerminalAssumption == Terminal \in BOOLEAN

\* Command i of line l, and the pipe between it and the next, is <<l, i>>.
Children == (1 .. MaxLines) \X (1 .. MaxCmds)
Pipes == (1 .. MaxLines) \X (1 .. MaxCmds - 1)
TheShell == <<0, 0>>
Processes == Children \cup {TheShell}

Before(p) == <<p[1], p[2] - 1>>
After(p) == <<p[1], p[2] + 1>>

\* What a standard descriptor may refer to, besides a pipe.
Standard == {"in", "out", "err"}
Original == <<>>             \* what the shell was started with
File == <<-1, -1>>
None == <<-2, -2>>           \* it is not open

VARIABLES
  \* The shell.
  spc,        \* where it is
  lines,      \* lines read so far
  count,      \* p->count: the commands of each line
  made,       \* pipes made for the line
  forked,     \* children forked for the line
  waited,     \* children of the line waited for
  saved,      \* saved_stdin, saved_stdout, saved_stderr
  limit,      \* descriptors it may have
  failed,     \* history: the call that failed on a line
  \* All processes, and what is in each pipe.
  std,        \* what the standard descriptors refer to
  ends,       \* the other descriptors: ends of pipes
  child,      \* what each child does
  quota,      \* what each has still to write
  buffer

lineVars == <<count, made, forked, waited>>
childVars == <<child, quota, buffer>>
vars == <<spc, lines, lineVars, saved, limit, failed, std, ends, childVars>>

-----------------------------------------------------------------------------
(* Descriptors and children *)

Running == {"filter", "command", "builtin"}
Alive == Running \cup {"forked"}
Dead == {"done", "eof", "sigpipe", "error", "returned"}

EndsOf(l) == {<<k, e>> : k \in {j \in Pipes : j[1] = l}, e \in {"read", "write"}}

Writers(k) == {p \in Processes : <<k, "write">> \in ends[p] \/ std[p]["out"] = k}
Readers(k) == {p \in Processes : <<k, "read">> \in ends[p] \/ std[p]["in"] = k}

\* Descriptors the shell may still open.
Saved == {s \in Standard : saved[s] # None}
Free == limit - Cardinality(ends[TheShell]) - Cardinality(Saved)

ForksLeft == MaxForks - Cardinality({p \in Children : child[p] # "none"})

AllNone == [s \in Standard |-> None]
AllOriginal == [s \in Standard |-> Original]

\* p ends, in the way w, and everything it had open is closed.
Ends(p, w) ==
  /\ child' = [child EXCEPT ![p] = w]
  /\ std' = [std EXCEPT ![p] = AllNone]
  /\ ends' = [ends EXCEPT ![p] = {}]

-----------------------------------------------------------------------------
Init ==
  /\ spc = "prompt"
  /\ lines = 0
  /\ count = [l \in 1 .. MaxLines |-> 0]
  /\ made = 0 /\ forked = 0 /\ waited = 0
  /\ saved = AllNone
  /\ limit \in Limits
  /\ failed = [l \in 1 .. MaxLines |-> "nothing"]
  /\ std = [p \in Processes |-> IF p = TheShell THEN AllOriginal ELSE AllNone]
  /\ ends = [p \in Processes |-> {}]
  /\ child = [p \in Children |-> "none"]
  /\ quota = [p \in Children |-> 0]
  /\ buffer = [k \in Pipes |-> 0]

-----------------------------------------------------------------------------
(* The shell: commands and pipelines *)

\* A valid line is read: commands to be run in children, or one builtin.
\* A line that is too long, empty or not valid changes nothing.
ReadLine ==
  /\ spc = "prompt" /\ lines < MaxLines
  /\ lines' = lines + 1
  /\ \/ /\ count' \in {[count EXCEPT ![lines'] = n] : n \in {m \in 1 .. MaxCmds : m <= ForksLeft}}
        /\ spc' = "pipe"
     \/ spc' = "in" /\ UNCHANGED count
  /\ made' = 0 /\ forked' = 0 /\ waited' = 0
  /\ UNCHANGED <<saved, limit, failed, std, ends, childVars>>

\* "exit", or end of input.
Exit ==
  /\ spc = "prompt"
  /\ spc' = "exited"
  /\ std' = [std EXCEPT ![TheShell] = AllNone]
  /\ ends' = [ends EXCEPT ![TheShell] = {}]
  /\ UNCHANGED <<lines, lineVars, saved, limit, failed, childVars>>

MakePipe ==
  /\ spc = "pipe" /\ made < count[lines] - 1
  /\ Free >= 2
  /\ made' = made + 1
  /\ ends' = [ends EXCEPT ![TheShell] = @ \cup {<<<<lines, made'>>, e>> : e \in {"read", "write"}}]
  /\ UNCHANGED <<spc, lines, count, forked, waited, saved, limit, failed, std, childVars>>

\* pipe() fails: the pipes made so far stay open.
PipeFails ==
  /\ spc = "pipe" /\ made < count[lines] - 1
  /\ spc' = "prompt"
  /\ failed' = [failed EXCEPT ![lines] = "pipe"]
  /\ UNCHANGED <<lines, lineVars, saved, limit, std, ends, childVars>>

\* A bug: both ends of the pipe after a child are closed once it is forked.
ForkAndClose ==
  /\ spc = "pipe" /\ made = count[lines] - 1 /\ forked < count[lines]
  /\ forked' = forked + 1
  /\ LET p == <<lines, forked'>>
     IN  /\ child' = [child EXCEPT ![p] = "forked"]
         /\ std' = [std EXCEPT ![p] = std[TheShell]]
         /\ ends' = [ends EXCEPT ![p] = ends[TheShell],
                                 ![TheShell] = @ \ {<<p, "read">>, <<p, "write">>}]
  /\ UNCHANGED <<spc, lines, count, made, waited, saved, limit, failed, quota, buffer>>

\* The child gets a copy of all the shell has open.
Fork ==
  /\ spc = "pipe" /\ made = count[lines] - 1 /\ forked < count[lines]
  /\ forked' = forked + 1
  /\ LET p == <<lines, forked'>>
     IN  /\ child' = [child EXCEPT ![p] = "forked"]
         /\ std' = [std EXCEPT ![p] = std[TheShell]]
         /\ ends' = [ends EXCEPT ![p] = ends[TheShell]]
  /\ UNCHANGED <<spc, lines, count, made, waited, saved, limit, failed, quota, buffer>>

\* A bug: the pipes stay open.
ForkFailsKeepingPipes ==
  /\ spc = "pipe" /\ made = count[lines] - 1 /\ forked < count[lines]
  /\ spc' = "prompt"
  /\ failed' = [failed EXCEPT ![lines] = "fork"]
  /\ UNCHANGED <<lines, lineVars, saved, limit, std, ends, childVars>>

\* fork() fails: the pipes are closed, and nobody waits for the children.
ForkFails ==
  /\ spc = "pipe" /\ made = count[lines] - 1 /\ forked < count[lines]
  /\ spc' = "prompt"
  /\ ends' = [ends EXCEPT ![TheShell] = @ \ EndsOf(lines)]
  /\ failed' = [failed EXCEPT ![lines] = "fork"]
  /\ UNCHANGED <<lines, lineVars, saved, limit, std, childVars>>

\* A bug: only the ends for reading are closed.
CloseReadEnds ==
  /\ spc = "pipe" /\ forked = count[lines]
  /\ spc' = "wait"
  /\ ends' = [ends EXCEPT ![TheShell] = @ \ {<<<<lines, i>>, "read">> : i \in 1 .. made}]
  /\ UNCHANGED <<lines, lineVars, saved, limit, failed, std, childVars>>

CloseEnds ==
  /\ spc = "pipe" /\ forked = count[lines]
  /\ spc' = "wait"
  /\ ends' = [ends EXCEPT ![TheShell] = @ \ EndsOf(lines)]
  /\ UNCHANGED <<lines, lineVars, saved, limit, failed, std, childVars>>

\* A bug: only the last command is waited for.
WaitForLast ==
  /\ spc = "wait"
  /\ child[<<lines, count[lines]>>] \in Dead
  /\ child' = [child EXCEPT ![<<lines, count[lines]>>] = "reaped"]
  /\ spc' = "prompt"
  /\ UNCHANGED <<lines, lineVars, saved, limit, failed, std, ends, quota, buffer>>

\* waitpid() for one child after the other, in the order of the line.
Wait ==
  /\ spc = "wait"
  /\ child[<<lines, waited + 1>>] \in Dead
  /\ child' = [child EXCEPT ![<<lines, waited + 1>>] = "reaped"]
  /\ waited' = waited + 1
  /\ spc' = IF waited' = count[lines] THEN "prompt" ELSE "wait"
  /\ UNCHANGED <<lines, count, made, forked, saved, limit, failed, std, ends, quota, buffer>>

-----------------------------------------------------------------------------
(* The shell: a builtin of its own, with redirections *)

Following == [in |-> "out", out |-> "err", err |-> "builtin"]

\* Two bugs: the descriptor is saved after it has been redirected, and nothing
\* is restored when open() has failed.
RedirectThenSave(s) ==
  /\ spc = s
  /\ \/ spc' = Following[s] /\ UNCHANGED <<saved, std>>
     \/ /\ Free > 1
        /\ std' = [std EXCEPT ![TheShell][s] = File]
        /\ saved' = [saved EXCEPT ![s] = std'[TheShell][s]]
        /\ spc' = Following[s]
     \/ spc' = "restore" /\ UNCHANGED <<saved, std>>
  /\ UNCHANGED <<lines, lineVars, limit, failed, ends, childVars>>
RedirectOrGiveUp(s) ==
  /\ spc = s
  /\ \/ spc' = Following[s] /\ UNCHANGED <<saved, std>>
     \/ /\ saved' = IF Free > 0 THEN [saved EXCEPT ![s] = std[TheShell][s]] ELSE saved
        /\ \/ /\ Free > 1
              /\ std' = [std EXCEPT ![TheShell][s] = File]
              /\ spc' = Following[s]
           \/ spc' = "prompt" /\ UNCHANGED std
  /\ UNCHANGED <<lines, lineVars, limit, failed, ends, childVars>>

\* Redirection of s, if there is one.  dup() may find no descriptor free, and
\* nothing is saved then; open() may fail for that and for other reasons.
Redirect(s) ==
  /\ spc = s
  /\ \/ spc' = Following[s] /\ UNCHANGED <<saved, std>>
     \/ /\ saved' = IF Free > 0 THEN [saved EXCEPT ![s] = std[TheShell][s]] ELSE saved
        /\ \/ /\ Free > 1
              /\ std' = [std EXCEPT ![TheShell][s] = File]
              /\ spc' = Following[s]
           \/ spc' = "restore" /\ UNCHANGED std
  /\ UNCHANGED <<lines, lineVars, limit, failed, ends, childVars>>

\* The builtin runs, and its output is flushed.
RunBuiltin ==
  /\ spc = "builtin"
  /\ spc' = "restore"
  /\ UNCHANGED <<lines, lineVars, saved, limit, failed, std, ends, childVars>>

Restore ==
  /\ spc = "restore"
  /\ std' = [std EXCEPT ![TheShell] =
               [s \in Standard |-> IF saved[s] # None THEN saved[s] ELSE @[s]]]
  /\ saved' = AllNone
  /\ spc' = "prompt"
  /\ UNCHANGED <<lines, lineVars, limit, failed, ends, childVars>>

-----------------------------------------------------------------------------
(* The children *)

\* What dup2() makes of the standard descriptors of p: pipes to its neighbours.
Connected(p) ==
  [std[p] EXCEPT !["in"] = IF p[2] > 1 THEN Before(p) ELSE @,
                 !["out"] = IF p[2] < count[p[1]] THEN p ELSE @]

\* The ends p has to have for that.
EndsNeeded(p) ==
  (IF p[2] > 1 THEN {<<Before(p), "read">>} ELSE {})
  \cup (IF p[2] < count[p[1]] THEN {<<p, "write">>} ELSE {})

\* dup2(), close() of all ends the line has, redirections, exec.  A builtin
\* is run in a child only as part of a pipeline.  Redirections matter here if
\* they replace a pipe, and reading if it is from one.
Start(p) ==
  /\ child[p] = "forked"
  /\ \/ /\ EndsNeeded(p) \subseteq ends[p]
        /\ \E D \in SUBSET {s \in Standard : Connected(p)[s] \in Pipes} :
             /\ std' = [std EXCEPT ![p] = [s \in Standard |-> IF s \in D THEN File ELSE Connected(p)[s]]]
             /\ child' \in {[child EXCEPT ![p] = r] :
                              r \in {"command"}
                                    \cup (IF count[p[1]] > 1 THEN {"builtin"} ELSE {})
                                    \cup (IF std'[p]["in"] \in Pipes THEN {"filter"} ELSE {})}
        /\ ends' = [ends EXCEPT ![p] = @ \ EndsOf(p[1])]
        /\ quota' = [quota EXCEPT ![p] = Amount]
     \/ Ends(p, "error") /\ UNCHANGED quota
  /\ UNCHANGED <<spc, lines, lineVars, saved, limit, failed, buffer>>

\* A filter reads from the pipe before it.
Read(p) ==
  /\ child[p] = "filter"
  /\ buffer[std[p]["in"]] > 0
  /\ buffer' = [buffer EXCEPT ![std[p]["in"]] = @ - 1]
  /\ UNCHANGED <<spc, lines, lineVars, saved, limit, failed, std, ends, child, quota>>

\* What a builtin prints stays in its buffer, if the output the shell was
\* started with is no terminal.
Prints(p) == child[p] = "builtin" => Terminal

\* p writes.  It waits while a pipe is full, and dies when nobody can read it.
Write(p) ==
  /\ child[p] \in Running /\ quota[p] > 0 /\ Prints(p)
  /\ LET k == std[p]["out"]
     IN  \/ /\ k \in Pipes => Readers(k) # {} /\ buffer[k] < Capacity
            /\ quota' = [quota EXCEPT ![p] = @ - 1]
            /\ buffer' = [j \in Pipes |-> IF j = k THEN buffer[j] + 1 ELSE buffer[j]]
            /\ UNCHANGED <<std, ends, child>>
         \/ /\ k \in Pipes /\ Readers(k) = {}
            /\ quota' = [quota EXCEPT ![p] = 0]
            /\ Ends(p, "sigpipe")
            /\ UNCHANGED buffer
  /\ UNCHANGED <<spc, lines, lineVars, saved, limit, failed>>

\* p ends by itself: a filter when the pipe before it has ended, and a
\* builtin by _exit(), which does not flush what it has printed.
Finish(p) ==
  /\ quota[p] = 0 \/ ~Prints(p)
  /\ \/ /\ child[p] = "filter"
        /\ buffer[std[p]["in"]] = 0 /\ Writers(std[p]["in"]) = {}
        /\ Ends(p, "eof")
     \/ child[p] = "command" /\ Ends(p, "done")
     \/ child[p] = "builtin" /\ Ends(p, "returned")
  /\ UNCHANGED <<spc, lines, lineVars, saved, limit, failed, quota, buffer>>

-----------------------------------------------------------------------------
ShellRuns ==
  \/ MakePipe \/ PipeFails \/ Fork \/ ForkFails \/ CloseEnds \/ Wait
  \/ \E s \in Standard : Redirect(s)
  \/ RunBuiltin \/ Restore

ChildRuns(p) == Start(p) \/ Read(p) \/ Write(p) \/ Finish(p)

Runs == ShellRuns \/ \E p \in Children : ChildRuns(p)

Next ==
  \/ ReadLine \/ Exit
  \/ Runs

Spec == Init /\ [][Next]_vars

\* A process that can run does.  One for all is enough here: between two lines
\* none of them can run for ever.  It is assumed that a command ends when it
\* has written all and the pipe before it has ended, but no user has to type.
FairSpec == Spec /\ WF_vars(Runs)

-----------------------------------------------------------------------------
(* Properties *)

Places == {Original, File, None} \cup Pipes
PipeEnds == Pipes \X {"read", "write"}

ShellTypeOK ==
  /\ spc \in {"prompt", "pipe", "wait", "in", "out", "err", "builtin", "restore", "exited"}
  /\ lines \in 0 .. MaxLines
  /\ count \in [1 .. MaxLines -> 0 .. MaxCmds]
  /\ made \in 0 .. MaxCmds - 1 /\ forked \in 0 .. MaxCmds /\ waited \in 0 .. MaxCmds
  /\ saved \in [Standard -> {Original, None}]
  /\ limit \in Limits
  /\ failed \in [1 .. MaxLines -> {"nothing", "pipe", "fork"}]

ProcessTypeOK ==
  /\ std \in [Processes -> [Standard -> Places]]
  /\ ends \in [Processes -> SUBSET PipeEnds]
  /\ child \in [Children -> Alive \cup Dead \cup {"none", "reaped"}]
  /\ quota \in [Children -> 0 .. Amount]
  /\ buffer \in [Pipes -> 0 .. Capacity]

\* The types of the variables.  A child has descriptors only while it is
\* alive, the shell never more than its limit, and it has saved some only
\* of those it was started with.
TypeOK ==
  /\ ShellTypeOK
  /\ ProcessTypeOK
  /\ \A p \in Children : child[p] \notin Alive => ends[p] = {} /\ std[p] = AllNone
  /\ Free >= 0

\* Whenever it prompts, and whenever it forks, the shell has its own input,
\* output and error output again, and no copy of them (myshell.c, lines
\* 146-161): whichever redirection of a builtin has failed, also for want of
\* descriptors, when dup() has failed unnoticed.
StdRestored ==
  spc \in {"prompt", "pipe", "wait"} => std[TheShell] = AllOriginal /\ saved = AllNone

\* At the prompt the shell has no end of a pipe left, but of a line on which
\* pipe() failed (executor.c, lines 276-283).
EndsAccounted ==
  spc = "prompt" => \A e \in ends[TheShell] : failed[e[1][1]] = "pipe"

\* At the prompt every child has been waited for, but those of a line on which
\* fork() failed (executor.c, lines 291-301).
ChildrenAccounted ==
  spc = "prompt" =>
    \A p \in Children : child[p] \notin {"none", "reaped"} => failed[p[1]] = "fork"

\* What lines leave behind in the shell, each for one reason only.
LeftoversAccounted == EndsAccounted /\ ChildrenAccounted

\* A command whose input ends too early or whose output is cut off can blame
\* its neighbour: the one before it has ended or writes elsewhere, the one
\* after it has ended, reads elsewhere, or could not be forked.
PipesEndWithCommands ==
  \A p \in Children :
    /\ child[p] = "eof" => child[Before(p)] \notin Alive
                            \/ std[Before(p)]["out"] = File
    /\ child[p] = "sigpipe" => child[After(p)] \notin Alive
                                \/ std[After(p)]["in"] = File

\* The prompt comes back after every line (executor.c, line 421), whatever its
\* commands do with the pipes between them, and whatever failed before.
PromptReturns == spc \in {"pipe", "wait", "in"} ~> spc = "prompt"

\* No command is left behind, blocked on a pipe for ever, not even on lines
\* that nobody waits for (executor.c, lines 295-299).
EveryCommandEnds == \A p \in Children : child[p] = "forked" ~> child[p] \in Dead

-----------------------------------------------------------------------------
(* What a comment in the code says, and the code does not do *)

\* "executing builtins inside pipeline in child (subshell behavior)"
\* (executor.c, line 388): when its child has ended, what a builtin printed
\* has been written.
BuiltinOutputWritten ==
  \A p \in Children : child[p] = "returned" => quota[p] = 0
=============================================================================
