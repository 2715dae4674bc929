------------------------ MODULE ServerProcessProofs -------------------------
(***************************************************************************)
(* Theorems about ServerProcess, for any number of servers, clients,       *)
(* worker threads and ports.                                               *)
(***************************************************************************)
EXTENDS ServerProcess, TLAPS

\* What is known of a server by where its main thread is.
StageInv ==
  \A s \in Servers :
    /\ spc[s] = "off" => tried[s] = 0
    /\ tries[s] = 1 \/ asked[s] = First
    /\ IF spc[s] \in {"off", "bind"} THEN port[s] = NoPort ELSE spc[s] = "ended" \/ port[s] \in Ports
    /\ listens[s] => port[s] \in Ports /\ (Up(s) \/ spc[s] \in {"thread", "ended"})
    /\ Up(s) \/ spc[s] = "thread" => listens[s]
    /\ trace[s] => worker[s]
    /\ worker[s] => Up(s)
    /\ ended[s] # "no" => spc[s] = "ended"
    /\ owner[s] = "main" => spc[s] \in DOMAIN AfterLog

\* One socket listens on a port.
ExclusiveInv ==
  \A s, o \in Servers :
    listens[s] /\ listens[o] /\ Open(s) /\ Open(o) /\ port[s] = port[o] => s = o

\* A server passes over a port, or fails to listen on it, only if it is, or
\* was, another's.
ClaimInv ==
  \A s \in Servers :
    /\ port[s] \notin Taken \ {NoPort}
    /\ \A i \in 0 .. tried[s] - 1 : Claimed(s, asked[s] + i)

\* The two parts of HintLeadsToServer that are about the file.
PortHint == hint \in Ports => port[writer] = hint
EmptyHint ==
  hint = Empty =>
    \E s \in Servers : port[s] # NoPort /\ ~listens[s] /\ spc[s] \in {"write", "ended"}

\* Who wrote the hint is known.
WriterInv == hint \in Ports => writer \in Servers

ProcessInv ==
  TypeOK /\ StageInv /\ ExclusiveInv /\ ClaimInv /\ WriterInv /\ GivesUpForOthers /\ HintLeadsToServer

-----------------------------------------------------------------------------
LEMMA PortFacts ==
  /\ First \in Nat \ {0} /\ Tries \in Nat \ {0} /\ First \in Ports
  /\ Given \subseteq Ports
  /\ \A p \in Ports : p \in Nat \ {0}
  /\ NoPort \notin Ports /\ Absent \notin Ports /\ Empty \notin Ports
BY PortsAssumption, GivenAssumption DEF Ports, NoPort, Absent, Empty

LEMMA InitInv == Init => ProcessInv
<1> SUFFICES ASSUME Init PROVE ProcessInv
  OBVIOUS
<1>1. TypeOK
  BY PortFacts DEF Init, TypeOK, MainType, ThreadType, HintType, ClientType, Alive, Ports, NoOne
<1>2. StageInv /\ ExclusiveInv /\ ClaimInv
  BY PortFacts DEF Init, StageInv, ExclusiveInv, ClaimInv, Up, NoOne, AfterLog
<1>3. WriterInv /\ GivesUpForOthers /\ HintLeadsToServer
  BY PortFacts DEF Init, WriterInv, GivesUpForOthers, HintLeadsToServer, Absent, Empty, Ports
<1> QED BY <1>1, <1>2, <1>3 DEF ProcessInv

-----------------------------------------------------------------------------
(* Types *)

LEMMA MainTypeStep == ASSUME ProcessInv, Next PROVE MainType'
<1> USE PortFacts DEF ProcessInv, TypeOK, Goto, bindVars, threadVars, hintVars,
      clientVars, MainType, StageInv, End, Candidate, Ports, AfterLog
<1>1. ASSUME NEW s \in Servers, Start(s) PROVE MainType'
  BY <1>1 DEF Start
<1>2. ASSUME NEW s \in Servers, Bind(s) PROVE MainType'
  BY <1>2 DEF Bind
<1>3. ASSUME NEW s \in Servers, BindBusy(s) PROVE MainType'
  BY <1>3 DEF BindBusy
<1>4. ASSUME NEW s \in Servers, GiveUp(s) PROVE MainType'
  BY <1>4 DEF GiveUp
<1>5. ASSUME NEW s \in Servers, OpenHint(s) PROVE MainType'
  BY <1>5 DEF OpenHint
<1>6. ASSUME NEW s \in Servers, WriteHint(s) PROVE MainType'
  BY <1>6 DEF WriteHint
<1>7. ASSUME NEW s \in Servers, Listen(s) PROVE MainType'
  BY <1>7 DEF Listen
<1>8. ASSUME NEW s \in Servers, ListenFails(s) PROVE MainType'
  BY <1>8 DEF ListenFails
<1>9. ASSUME NEW s \in Servers, CreateScheduler(s) PROVE MainType'
  BY <1>9 DEF CreateScheduler
<1>10. ASSUME NEW s \in Servers, Accept(s) PROVE MainType'
  BY <1>10 DEF Accept
<1>11. ASSUME NEW s \in Servers, CreateWorker(s) PROVE MainType'
  BY <1>11 DEF CreateWorker
<1>12. ASSUME NEW s \in Servers, AppendTrace(s) PROVE MainType'
  BY <1>12 DEF AppendTrace
<1>13. ASSUME NEW s \in Servers, Fork(s) PROVE MainType'
  BY <1>13 DEF Fork
<1>14. ASSUME NEW s \in Servers, CommandEnds(s) PROVE MainType'
  BY <1>14 DEF CommandEnds
<1>15. ASSUME NEW s \in Servers, NEW t \in Threads, Lock(s, t) PROVE MainType'
  BY <1>15 DEF Lock
<1>16. ASSUME NEW s \in Servers, NEW t \in Threads, Unlock(s, t) PROVE MainType'
  BY <1>16 DEF Unlock
<1>17. ASSUME NEW s \in Servers, Interrupt(s) PROVE MainType'
  BY <1>17 DEF Interrupt
<1>18. ASSUME NEW s \in Servers, HandlerExits(s) PROVE MainType'
  BY <1>18 DEF HandlerExits
<1>19. ASSUME NEW c \in Clients, ChoosePort(c) PROVE MainType'
  BY <1>19 DEF ChoosePort
<1>20. ASSUME NEW c \in Clients, Connect(c) PROVE MainType'
  BY <1>20 DEF Connect
<1>21. ASSUME NEW c \in Clients, TimeOut(c) PROVE MainType'
  BY <1>21 DEF TimeOut
<1> QED BY <1>1, <1>2, <1>3, <1>4, <1>5, <1>6, <1>7, <1>8, <1>9, <1>10, <1>11, <1>12,
           <1>13, <1>14, <1>15, <1>16, <1>17, <1>18, <1>19, <1>20, <1>21 DEF Next,
           MainStep

\* A server that ends has no thread.
LEMMA EndThreads ==
  ASSUME MainType, ThreadType, NEW s \in Servers, NEW why, End(s, why)
  PROVE  ThreadType'
<1> USE DEF MainType, ThreadType, End, Goto, bindVars
<1>1. /\ {trace', worker', command'} \subseteq [Servers -> BOOLEAN]
      /\ owner' \in [Servers -> Threads \cup {NoOne}]
      /\ interrupted' \in [Servers -> SUBSET Threads]
  OBVIOUS
<1>2. interrupted'[s] = {} /\ owner'[s] = NoOne
  OBVIOUS
<1>3. ASSUME NEW o \in Servers, o # s
      PROVE  /\ interrupted'[o] = interrupted[o] /\ owner'[o] = owner[o]
             /\ ThreadsOf(o)' = ThreadsOf(o)
  BY <1>3 DEF Alive, ThreadsOf, Up
<1>4. \A o \in Servers : interrupted'[o] \cup ({owner'[o]} \ {NoOne}) \subseteq ThreadsOf(o)'
  BY <1>2, <1>3
<1> QED BY <1>1, <1>4

LEMMA ThreadTypeStep == ASSUME ProcessInv, Next PROVE ThreadType'
<1> USE PortFacts DEF ProcessInv, TypeOK, Goto, bindVars, threadVars, hintVars,
      clientVars, MainType, ThreadType, StageInv, AfterLog, Runs, Alive, ThreadsOf,
      Threads, Up, NoOne
<1>1. ASSUME NEW s \in Servers, Start(s) PROVE ThreadType'
  BY <1>1 DEF Start
<1>2. ASSUME NEW s \in Servers, Bind(s) PROVE ThreadType'
  BY <1>2, SMTT(30) DEF Bind
<1>3. ASSUME NEW s \in Servers, BindBusy(s) PROVE ThreadType'
  BY <1>3 DEF BindBusy
<1>4. ASSUME NEW s \in Servers, GiveUp(s) PROVE ThreadType'
  <2>1. PICK why : End(s, why)
    BY <1>4 DEF GiveUp
  <2> QED BY <2>1, EndThreads
<1>5. ASSUME NEW s \in Servers, OpenHint(s) PROVE ThreadType'
  <2>1. \A o \in Servers : ThreadsOf(o)' = ThreadsOf(o)
    BY <1>5 DEF OpenHint
  <2>2. UNCHANGED threadVars
    BY <1>5 DEF OpenHint
  <2> HIDE DEF ThreadsOf
  <2> QED BY <2>1, <2>2
<1>6. ASSUME NEW s \in Servers, WriteHint(s) PROVE ThreadType'
  BY <1>6 DEF WriteHint
<1>7. ASSUME NEW s \in Servers, Listen(s) PROVE ThreadType'
  BY <1>7 DEF Listen
<1>8. ASSUME NEW s \in Servers, ListenFails(s) PROVE ThreadType'
  BY <1>8, EndThreads DEF ListenFails
<1>9. ASSUME NEW s \in Servers, CreateScheduler(s) PROVE ThreadType'
  <2>1. CASE End(s, "other")
    BY <2>1, EndThreads
  <2>2. CASE Goto(s, "hello") /\ UNCHANGED threadVars
    BY <1>9, <2>2 DEF CreateScheduler
  <2> QED BY <1>9, <2>1, <2>2 DEF CreateScheduler
<1>10. ASSUME NEW s \in Servers, Accept(s) PROVE ThreadType'
  BY <1>10 DEF Accept
<1>11. ASSUME NEW s \in Servers, CreateWorker(s) PROVE ThreadType'
  <2>1. worker' \in [Servers -> BOOLEAN] /\ \A o \in Servers : worker[o] => worker'[o]
    BY <1>11, ZenonT(30) DEF CreateWorker
  <2>2. \A o \in Servers : ThreadsOf(o) \subseteq ThreadsOf(o)'
    BY <1>11, <2>1 DEF CreateWorker
  <2>3. UNCHANGED <<trace, command, owner, interrupted>>
    BY <1>11 DEF CreateWorker
  <2> HIDE DEF ThreadsOf
  <2> QED BY <2>1, <2>2, <2>3
<1>12. ASSUME NEW s \in Servers, AppendTrace(s) PROVE ThreadType'
  BY <1>12 DEF AppendTrace
<1>13. ASSUME NEW s \in Servers, Fork(s) PROVE ThreadType'
  BY <1>13 DEF Fork
<1>14. ASSUME NEW s \in Servers, CommandEnds(s) PROVE ThreadType'
  BY <1>14 DEF CommandEnds
<1>15. ASSUME NEW s \in Servers, NEW t \in Threads, Lock(s, t) PROVE ThreadType'
  <2>1. t \in ThreadsOf(s) /\ owner' = [owner EXCEPT ![s] = t]
    BY <1>15 DEF Lock
  <2>2. UNCHANGED <<spc, trace, worker, command, interrupted>>
    BY <1>15 DEF Lock
  <2> QED BY <2>1, <2>2
<1>16. ASSUME NEW s \in Servers, NEW t \in Threads, Unlock(s, t) PROVE ThreadType'
  BY <1>16 DEF Unlock
<1>17. ASSUME NEW s \in Servers, Interrupt(s) PROVE ThreadType'
  <2>1. CASE End(s, "other")
    BY <2>1, EndThreads
  <2>2. CASE ~End(s, "other")
    <3>1. PICK t \in ThreadsOf(s) : interrupted' = [interrupted EXCEPT ![s] = interrupted[s] \cup {t}]
      BY <1>17, <2>2 DEF Interrupt
    <3>2. UNCHANGED <<spc, owner, trace, worker, command>>
      BY <1>17, <2>2 DEF Interrupt
    <3>3. t \in Threads
      BY <3>1
    <3> QED BY <3>1, <3>2, <3>3
  <2> QED BY <2>1, <2>2
<1>18. ASSUME NEW s \in Servers, HandlerExits(s) PROVE ThreadType'
  BY <1>18, EndThreads DEF HandlerExits
<1>19. ASSUME NEW c \in Clients, ChoosePort(c) PROVE ThreadType'
  BY <1>19 DEF ChoosePort
<1>20. ASSUME NEW c \in Clients, Connect(c) PROVE ThreadType'
  BY <1>20 DEF Connect
<1>21. ASSUME NEW c \in Clients, TimeOut(c) PROVE ThreadType'
  BY <1>21 DEF TimeOut
<1> QED BY <1>1, <1>2, <1>3, <1>4, <1>5, <1>6, <1>7, <1>8, <1>9, <1>10, <1>11, <1>12,
           <1>13, <1>14, <1>15, <1>16, <1>17, <1>18, <1>19, <1>20, <1>21 DEF Next,
           MainStep

LEMMA HintTypeStep == ASSUME ProcessInv, Next PROVE (HintType /\ WriterInv)'
<1> USE PortFacts DEF ProcessInv, TypeOK, Goto, bindVars, threadVars, hintVars,
      clientVars, MainType, HintType, StageInv, End, FlushHint, WriterInv, Up
<1>1. ASSUME NEW s \in Servers, Start(s) PROVE (HintType /\ WriterInv)'
  BY <1>1 DEF Start
<1>2. ASSUME NEW s \in Servers, Bind(s) PROVE (HintType /\ WriterInv)'
  BY <1>2 DEF Bind
<1>3. ASSUME NEW s \in Servers, BindBusy(s) PROVE (HintType /\ WriterInv)'
  BY <1>3 DEF BindBusy
<1>4. ASSUME NEW s \in Servers, GiveUp(s) PROVE (HintType /\ WriterInv)'
  BY <1>4 DEF GiveUp
<1>5. ASSUME NEW s \in Servers, OpenHint(s) PROVE (HintType /\ WriterInv)'
  BY <1>5 DEF OpenHint
<1>6. ASSUME NEW s \in Servers, WriteHint(s) PROVE (HintType /\ WriterInv)'
  BY <1>6 DEF WriteHint
<1>7. ASSUME NEW s \in Servers, Listen(s) PROVE (HintType /\ WriterInv)'
  BY <1>7 DEF Listen
<1>8. ASSUME NEW s \in Servers, ListenFails(s) PROVE (HintType /\ WriterInv)'
  BY <1>8 DEF ListenFails
<1>9. ASSUME NEW s \in Servers, CreateScheduler(s) PROVE (HintType /\ WriterInv)'
  BY <1>9 DEF CreateScheduler
<1>10. ASSUME NEW s \in Servers, Accept(s) PROVE (HintType /\ WriterInv)'
  BY <1>10 DEF Accept
<1>11. ASSUME NEW s \in Servers, CreateWorker(s) PROVE (HintType /\ WriterInv)'
  BY <1>11 DEF CreateWorker
<1>12. ASSUME NEW s \in Servers, AppendTrace(s) PROVE (HintType /\ WriterInv)'
  BY <1>12 DEF AppendTrace
<1>13. ASSUME NEW s \in Servers, Fork(s) PROVE (HintType /\ WriterInv)'
  BY <1>13 DEF Fork
<1>14. ASSUME NEW s \in Servers, CommandEnds(s) PROVE (HintType /\ WriterInv)'
  BY <1>14 DEF CommandEnds
<1>15. ASSUME NEW s \in Servers, NEW t \in Threads, Lock(s, t) PROVE (HintType /\ WriterInv)'
  BY <1>15 DEF Lock
<1>16. ASSUME NEW s \in Servers, NEW t \in Threads, Unlock(s, t) PROVE (HintType /\ WriterInv)'
  BY <1>16 DEF Unlock
<1>17. ASSUME NEW s \in Servers, Interrupt(s) PROVE (HintType /\ WriterInv)'
  BY <1>17 DEF Interrupt
<1>18. ASSUME NEW s \in Servers, HandlerExits(s) PROVE (HintType /\ WriterInv)'
  BY <1>18 DEF HandlerExits
<1>19. ASSUME NEW c \in Clients, ChoosePort(c) PROVE (HintType /\ WriterInv)'
  BY <1>19 DEF ChoosePort
<1>20. ASSUME NEW c \in Clients, Connect(c) PROVE (HintType /\ WriterInv)'
  BY <1>20 DEF Connect
<1>21. ASSUME NEW c \in Clients, TimeOut(c) PROVE (HintType /\ WriterInv)'
  BY <1>21 DEF TimeOut
<1> QED BY <1>1, <1>2, <1>3, <1>4, <1>5, <1>6, <1>7, <1>8, <1>9, <1>10, <1>11, <1>12,
           <1>13, <1>14, <1>15, <1>16, <1>17, <1>18, <1>19, <1>20, <1>21 DEF Next,
           MainStep

LEMMA ClientTypeStep == ASSUME ProcessInv, Next PROVE ClientType'
<1> USE PortFacts DEF ProcessInv, TypeOK, Goto, bindVars, threadVars, hintVars,
      clientVars, MainType, ClientType, StageInv, End, Leave, AcceptedAt, QueuedAt,
      ListenersOn, HintType, Up
<1>1. ASSUME NEW s \in Servers, Start(s) PROVE ClientType'
  BY <1>1 DEF Start
<1>2. ASSUME NEW s \in Servers, Bind(s) PROVE ClientType'
  BY <1>2 DEF Bind
<1>3. ASSUME NEW s \in Servers, BindBusy(s) PROVE ClientType'
  BY <1>3 DEF BindBusy
<1>4. ASSUME NEW s \in Servers, GiveUp(s) PROVE ClientType'
  BY <1>4 DEF GiveUp
<1>5. ASSUME NEW s \in Servers, OpenHint(s) PROVE ClientType'
  BY <1>5 DEF OpenHint
<1>6. ASSUME NEW s \in Servers, WriteHint(s) PROVE ClientType'
  BY <1>6 DEF WriteHint
<1>7. ASSUME NEW s \in Servers, Listen(s) PROVE ClientType'
  BY <1>7 DEF Listen
<1>8. ASSUME NEW s \in Servers, ListenFails(s) PROVE ClientType'
  BY <1>8 DEF ListenFails
<1>9. ASSUME NEW s \in Servers, CreateScheduler(s) PROVE ClientType'
  BY <1>9 DEF CreateScheduler
<1>10. ASSUME NEW s \in Servers, Accept(s) PROVE ClientType'
  BY <1>10 DEF Accept
<1>11. ASSUME NEW s \in Servers, CreateWorker(s) PROVE ClientType'
  BY <1>11 DEF CreateWorker
<1>12. ASSUME NEW s \in Servers, AppendTrace(s) PROVE ClientType'
  BY <1>12 DEF AppendTrace
<1>13. ASSUME NEW s \in Servers, Fork(s) PROVE ClientType'
  BY <1>13 DEF Fork
<1>14. ASSUME NEW s \in Servers, CommandEnds(s) PROVE ClientType'
  BY <1>14 DEF CommandEnds
<1>15. ASSUME NEW s \in Servers, NEW t \in Threads, Lock(s, t) PROVE ClientType'
  BY <1>15 DEF Lock
<1>16. ASSUME NEW s \in Servers, NEW t \in Threads, Unlock(s, t) PROVE ClientType'
  BY <1>16 DEF Unlock
<1>17. ASSUME NEW s \in Servers, Interrupt(s) PROVE ClientType'
  BY <1>17 DEF Interrupt
<1>18. ASSUME NEW s \in Servers, HandlerExits(s) PROVE ClientType'
  BY <1>18 DEF HandlerExits
<1>19. ASSUME NEW c \in Clients, ChoosePort(c) PROVE ClientType'
  BY <1>19 DEF ChoosePort, Hinted
<1>20. ASSUME NEW c \in Clients, Connect(c) PROVE ClientType'
  BY <1>20 DEF Connect
<1>21. ASSUME NEW c \in Clients, TimeOut(c) PROVE ClientType'
  BY <1>21 DEF TimeOut
<1> QED BY <1>1, <1>2, <1>3, <1>4, <1>5, <1>6, <1>7, <1>8, <1>9, <1>10, <1>11, <1>12,
           <1>13, <1>14, <1>15, <1>16, <1>17, <1>18, <1>19, <1>20, <1>21 DEF Next,
           MainStep

-----------------------------------------------------------------------------
(* Where main is, and who listens *)

LEMMA StageStep == ASSUME ProcessInv, Next PROVE StageInv'
<1> USE PortFacts DEF ProcessInv, TypeOK, Goto, bindVars, threadVars, hintVars,
      clientVars, MainType, ThreadType, StageInv, AfterLog, Runs, Alive, ThreadsOf,
      Threads, Up, NoOne, Candidate, HasLine, Ports, End
<1>1. ASSUME NEW s \in Servers, Start(s) PROVE StageInv'
  BY <1>1 DEF Start
<1>2. ASSUME NEW s \in Servers, Bind(s) PROVE StageInv'
  BY <1>2 DEF Bind
<1>3. ASSUME NEW s \in Servers, BindBusy(s) PROVE StageInv'
  BY <1>3 DEF BindBusy
<1>4. ASSUME NEW s \in Servers, GiveUp(s) PROVE StageInv'
  BY <1>4 DEF GiveUp
<1>5. ASSUME NEW s \in Servers, OpenHint(s) PROVE StageInv'
  BY <1>5 DEF OpenHint
<1>6. ASSUME NEW s \in Servers, WriteHint(s) PROVE StageInv'
  BY <1>6 DEF WriteHint
<1>7. ASSUME NEW s \in Servers, Listen(s) PROVE StageInv'
  BY <1>7 DEF Listen
<1>8. ASSUME NEW s \in Servers, ListenFails(s) PROVE StageInv'
  BY <1>8 DEF ListenFails
<1>9. ASSUME NEW s \in Servers, CreateScheduler(s) PROVE StageInv'
  BY <1>9 DEF CreateScheduler
<1>10. ASSUME NEW s \in Servers, Accept(s) PROVE StageInv'
  BY <1>10 DEF Accept
<1>11. ASSUME NEW s \in Servers, CreateWorker(s) PROVE StageInv'
  BY <1>11 DEF CreateWorker
<1>12. ASSUME NEW s \in Servers, AppendTrace(s) PROVE StageInv'
  BY <1>12 DEF AppendTrace
<1>13. ASSUME NEW s \in Servers, Fork(s) PROVE StageInv'
  BY <1>13 DEF Fork
<1>14. ASSUME NEW s \in Servers, CommandEnds(s) PROVE StageInv'
  BY <1>14 DEF CommandEnds
<1>15. ASSUME NEW s \in Servers, NEW t \in Threads, Lock(s, t) PROVE StageInv'
  BY <1>15 DEF Lock
<1>16. ASSUME NEW s \in Servers, NEW t \in Threads, Unlock(s, t) PROVE StageInv'
  BY <1>16 DEF Unlock
<1>17. ASSUME NEW s \in Servers, Interrupt(s) PROVE StageInv'
  BY <1>17 DEF Interrupt
<1>18. ASSUME NEW s \in Servers, HandlerExits(s) PROVE StageInv'
  BY <1>18 DEF HandlerExits
<1>19. ASSUME NEW c \in Clients, ChoosePort(c) PROVE StageInv'
  BY <1>19 DEF ChoosePort
<1>20. ASSUME NEW c \in Clients, Connect(c) PROVE StageInv'
  BY <1>20 DEF Connect
<1>21. ASSUME NEW c \in Clients, TimeOut(c) PROVE StageInv'
  BY <1>21 DEF TimeOut
<1> QED BY <1>1, <1>2, <1>3, <1>4, <1>5, <1>6, <1>7, <1>8, <1>9, <1>10, <1>11, <1>12,
           <1>13, <1>14, <1>15, <1>16, <1>17, <1>18, <1>19, <1>20, <1>21 DEF Next,
           MainStep

LEMMA ExclusiveStep == ASSUME ProcessInv, Next PROVE ExclusiveInv'
<1> USE PortFacts DEF ProcessInv, TypeOK, Goto, bindVars, threadVars, hintVars,
      clientVars, MainType, StageInv, ExclusiveInv, Open, ListenersOn, Alive, Up, Runs,
      ThreadsOf, End
<1>1. ASSUME NEW s \in Servers, Start(s) PROVE ExclusiveInv'
  BY <1>1 DEF Start
<1>2. ASSUME NEW s \in Servers, Bind(s) PROVE ExclusiveInv'
  BY <1>2 DEF Bind
<1>3. ASSUME NEW s \in Servers, BindBusy(s) PROVE ExclusiveInv'
  BY <1>3 DEF BindBusy
<1>4. ASSUME NEW s \in Servers, GiveUp(s) PROVE ExclusiveInv'
  BY <1>4 DEF GiveUp
<1>5. ASSUME NEW s \in Servers, OpenHint(s) PROVE ExclusiveInv'
  BY <1>5 DEF OpenHint
<1>6. ASSUME NEW s \in Servers, WriteHint(s) PROVE ExclusiveInv'
  BY <1>6 DEF WriteHint
<1>7. ASSUME NEW s \in Servers, Listen(s) PROVE ExclusiveInv'
  BY <1>7 DEF Listen
<1>8. ASSUME NEW s \in Servers, ListenFails(s) PROVE ExclusiveInv'
  BY <1>8 DEF ListenFails
<1>9. ASSUME NEW s \in Servers, CreateScheduler(s) PROVE ExclusiveInv'
  BY <1>9 DEF CreateScheduler
<1>10. ASSUME NEW s \in Servers, Accept(s) PROVE ExclusiveInv'
  BY <1>10 DEF Accept
<1>11. ASSUME NEW s \in Servers, CreateWorker(s) PROVE ExclusiveInv'
  BY <1>11 DEF CreateWorker
<1>12. ASSUME NEW s \in Servers, AppendTrace(s) PROVE ExclusiveInv'
  BY <1>12 DEF AppendTrace
<1>13. ASSUME NEW s \in Servers, Fork(s) PROVE ExclusiveInv'
  BY <1>13 DEF Fork
<1>14. ASSUME NEW s \in Servers, CommandEnds(s) PROVE ExclusiveInv'
  BY <1>14 DEF CommandEnds
<1>15. ASSUME NEW s \in Servers, NEW t \in Threads, Lock(s, t) PROVE ExclusiveInv'
  BY <1>15 DEF Lock
<1>16. ASSUME NEW s \in Servers, NEW t \in Threads, Unlock(s, t) PROVE ExclusiveInv'
  BY <1>16 DEF Unlock
<1>17. ASSUME NEW s \in Servers, Interrupt(s) PROVE ExclusiveInv'
  BY <1>17 DEF Interrupt
<1>18. ASSUME NEW s \in Servers, HandlerExits(s) PROVE ExclusiveInv'
  BY <1>18 DEF HandlerExits
<1>19. ASSUME NEW c \in Clients, ChoosePort(c) PROVE ExclusiveInv'
  BY <1>19 DEF ChoosePort
<1>20. ASSUME NEW c \in Clients, Connect(c) PROVE ExclusiveInv'
  BY <1>20 DEF Connect
<1>21. ASSUME NEW c \in Clients, TimeOut(c) PROVE ExclusiveInv'
  BY <1>21 DEF TimeOut
<1> QED BY <1>1, <1>2, <1>3, <1>4, <1>5, <1>6, <1>7, <1>8, <1>9, <1>10, <1>11, <1>12,
           <1>13, <1>14, <1>15, <1>16, <1>17, <1>18, <1>19, <1>20, <1>21 DEF Next,
           MainStep

-----------------------------------------------------------------------------
(* Ports given up, and the hint *)

\* What was another's stays so.
LEMMA ClaimsKept ==
  ASSUME ClaimInv, UNCHANGED <<port, tried, asked>>, \A o \in Servers : listens[o] => listens'[o]
  PROVE  ClaimInv'
<1>1. \A o \in Servers : \A p : Claimed(o, p) => Claimed(o, p)'
  BY DEF Claimed
<1> QED BY <1>1 DEF ClaimInv

LEMMA ClaimStep == ASSUME ProcessInv, Next PROVE ClaimInv'
<1> USE PortFacts DEF ProcessInv, TypeOK, Goto, bindVars, threadVars, hintVars,
      clientVars, MainType, StageInv, ClaimInv, Claimed, Busy, Candidate, ListenersOn, Up,
      End
<1>1. ASSUME NEW s \in Servers, Start(s) PROVE ClaimInv'
  BY <1>1 DEF Start
<1>2. ASSUME NEW s \in Servers, Bind(s) PROVE ClaimInv'
  BY <1>2 DEF Bind
<1>3. ASSUME NEW s \in Servers, BindBusy(s) PROVE ClaimInv'
  BY <1>3 DEF BindBusy
<1>4. ASSUME NEW s \in Servers, GiveUp(s) PROVE ClaimInv'
  <2>1. UNCHANGED <<port, tried, asked>> /\ \A o \in Servers : listens[o] => listens'[o]
    BY <1>4 DEF GiveUp
  <2> QED BY <2>1, ClaimsKept
<1>5. ASSUME NEW s \in Servers, OpenHint(s) PROVE ClaimInv'
  BY <1>5 DEF OpenHint
<1>6. ASSUME NEW s \in Servers, WriteHint(s) PROVE ClaimInv'
  BY <1>6 DEF WriteHint
<1>7. ASSUME NEW s \in Servers, Listen(s) PROVE ClaimInv'
  <2>1. UNCHANGED <<port, tried, asked>> /\ \A o \in Servers : listens[o] => listens'[o]
    BY <1>7 DEF Listen
  <2> QED BY <2>1, ClaimsKept
<1>8. ASSUME NEW s \in Servers, ListenFails(s) PROVE ClaimInv'
  <2>1. UNCHANGED <<port, tried, asked>> /\ \A o \in Servers : listens[o] => listens'[o]
    BY <1>8 DEF ListenFails
  <2> QED BY <2>1, ClaimsKept
<1>9. ASSUME NEW s \in Servers, CreateScheduler(s) PROVE ClaimInv'
  <2>1. UNCHANGED <<port, tried, asked>> /\ \A o \in Servers : listens[o] => listens'[o]
    BY <1>9 DEF CreateScheduler
  <2> QED BY <2>1, ClaimsKept
<1>10. ASSUME NEW s \in Servers, Accept(s) PROVE ClaimInv'
  BY <1>10 DEF Accept
<1>11. ASSUME NEW s \in Servers, CreateWorker(s) PROVE ClaimInv'
  BY <1>11 DEF CreateWorker
<1>12. ASSUME NEW s \in Servers, AppendTrace(s) PROVE ClaimInv'
  BY <1>12 DEF AppendTrace
<1>13. ASSUME NEW s \in Servers, Fork(s) PROVE ClaimInv'
  BY <1>13 DEF Fork
<1>14. ASSUME NEW s \in Servers, CommandEnds(s) PROVE ClaimInv'
  BY <1>14 DEF CommandEnds
<1>15. ASSUME NEW s \in Servers, NEW t \in Threads, Lock(s, t) PROVE ClaimInv'
  BY <1>15 DEF Lock
<1>16. ASSUME NEW s \in Servers, NEW t \in Threads, Unlock(s, t) PROVE ClaimInv'
  BY <1>16 DEF Unlock
<1>17. ASSUME NEW s \in Servers, Interrupt(s) PROVE ClaimInv'
  <2>1. UNCHANGED <<port, tried, asked>> /\ \A o \in Servers : listens[o] => listens'[o]
    BY <1>17 DEF Interrupt
  <2> QED BY <2>1, ClaimsKept
<1>18. ASSUME NEW s \in Servers, HandlerExits(s) PROVE ClaimInv'
  <2>1. UNCHANGED <<port, tried, asked>> /\ \A o \in Servers : listens[o] => listens'[o]
    BY <1>18 DEF HandlerExits
  <2> QED BY <2>1, ClaimsKept
<1>19. ASSUME NEW c \in Clients, ChoosePort(c) PROVE ClaimInv'
  BY <1>19 DEF ChoosePort
<1>20. ASSUME NEW c \in Clients, Connect(c) PROVE ClaimInv'
  BY <1>20 DEF Connect
<1>21. ASSUME NEW c \in Clients, TimeOut(c) PROVE ClaimInv'
  BY <1>21 DEF TimeOut
<1> QED BY <1>1, <1>2, <1>3, <1>4, <1>5, <1>6, <1>7, <1>8, <1>9, <1>10, <1>11, <1>12,
           <1>13, <1>14, <1>15, <1>16, <1>17, <1>18, <1>19, <1>20, <1>21 DEF Next,
           MainStep

LEMMA GivesUpStep == ASSUME ProcessInv, Next PROVE GivesUpForOthers'
<1> USE PortFacts DEF ProcessInv, TypeOK, Goto, bindVars, threadVars, hintVars,
      clientVars, MainType, ThreadType, StageInv, ClaimInv, GivesUpForOthers, Claimed,
      ListenersOn, Alive, Up, End
<1>1. ASSUME NEW s \in Servers, Start(s) PROVE GivesUpForOthers'
  BY <1>1, SMTT(30) DEF Start
<1>2. ASSUME NEW s \in Servers, Bind(s) PROVE GivesUpForOthers'
  BY <1>2 DEF Bind
<1>3. ASSUME NEW s \in Servers, BindBusy(s) PROVE GivesUpForOthers'
  BY <1>3 DEF BindBusy
<1>4. ASSUME NEW s \in Servers, GiveUp(s) PROVE GivesUpForOthers'
  BY <1>4 DEF GiveUp
<1>5. ASSUME NEW s \in Servers, OpenHint(s) PROVE GivesUpForOthers'
  BY <1>5 DEF OpenHint
<1>6. ASSUME NEW s \in Servers, WriteHint(s) PROVE GivesUpForOthers'
  BY <1>6 DEF WriteHint
<1>7. ASSUME NEW s \in Servers, Listen(s) PROVE GivesUpForOthers'
  BY <1>7 DEF Listen
<1>8. ASSUME NEW s \in Servers, ListenFails(s) PROVE GivesUpForOthers'
  BY <1>8 DEF ListenFails
<1>9. ASSUME NEW s \in Servers, CreateScheduler(s) PROVE GivesUpForOthers'
  BY <1>9 DEF CreateScheduler
<1>10. ASSUME NEW s \in Servers, Accept(s) PROVE GivesUpForOthers'
  BY <1>10 DEF Accept
<1>11. ASSUME NEW s \in Servers, CreateWorker(s) PROVE GivesUpForOthers'
  BY <1>11 DEF CreateWorker
<1>12. ASSUME NEW s \in Servers, AppendTrace(s) PROVE GivesUpForOthers'
  BY <1>12 DEF AppendTrace
<1>13. ASSUME NEW s \in Servers, Fork(s) PROVE GivesUpForOthers'
  BY <1>13 DEF Fork
<1>14. ASSUME NEW s \in Servers, CommandEnds(s) PROVE GivesUpForOthers'
  BY <1>14 DEF CommandEnds
<1>15. ASSUME NEW s \in Servers, NEW t \in Threads, Lock(s, t) PROVE GivesUpForOthers'
  BY <1>15 DEF Lock
<1>16. ASSUME NEW s \in Servers, NEW t \in Threads, Unlock(s, t) PROVE GivesUpForOthers'
  BY <1>16 DEF Unlock
<1>17. ASSUME NEW s \in Servers, Interrupt(s) PROVE GivesUpForOthers'
  BY <1>17 DEF Interrupt
<1>18. ASSUME NEW s \in Servers, HandlerExits(s) PROVE GivesUpForOthers'
  BY <1>18 DEF HandlerExits
<1>19. ASSUME NEW c \in Clients, ChoosePort(c) PROVE GivesUpForOthers'
  BY <1>19 DEF ChoosePort
<1>20. ASSUME NEW c \in Clients, Connect(c) PROVE GivesUpForOthers'
  BY <1>20 DEF Connect
<1>21. ASSUME NEW c \in Clients, TimeOut(c) PROVE GivesUpForOthers'
  BY <1>21 DEF TimeOut
<1> QED BY <1>1, <1>2, <1>3, <1>4, <1>5, <1>6, <1>7, <1>8, <1>9, <1>10, <1>11, <1>12,
           <1>13, <1>14, <1>15, <1>16, <1>17, <1>18, <1>19, <1>20, <1>21 DEF Next,
           MainStep

LEMMA PortHintStep == ASSUME ProcessInv, Next PROVE PortHint'
<1> USE PortFacts DEF ProcessInv, TypeOK, Goto, bindVars, threadVars, hintVars,
      clientVars, MainType, StageInv, HintType, WriterInv, HintLeadsToServer, PortHint,
      Up, End, FlushHint
<1>1. ASSUME NEW s \in Servers, Start(s) PROVE PortHint'
  BY <1>1 DEF Start
<1>2. ASSUME NEW s \in Servers, Bind(s) PROVE PortHint'
  BY <1>2 DEF Bind
<1>3. ASSUME NEW s \in Servers, BindBusy(s) PROVE PortHint'
  BY <1>3 DEF BindBusy
<1>4. ASSUME NEW s \in Servers, GiveUp(s) PROVE PortHint'
  BY <1>4 DEF GiveUp
<1>5. ASSUME NEW s \in Servers, OpenHint(s) PROVE PortHint'
  BY <1>5 DEF OpenHint
<1>6. ASSUME NEW s \in Servers, WriteHint(s) PROVE PortHint'
  BY <1>6 DEF WriteHint
<1>7. ASSUME NEW s \in Servers, Listen(s) PROVE PortHint'
  BY <1>7 DEF Listen
<1>8. ASSUME NEW s \in Servers, ListenFails(s) PROVE PortHint'
  BY <1>8 DEF ListenFails
<1>9. ASSUME NEW s \in Servers, CreateScheduler(s) PROVE PortHint'
  BY <1>9 DEF CreateScheduler
<1>10. ASSUME NEW s \in Servers, Accept(s) PROVE PortHint'
  BY <1>10 DEF Accept
<1>11. ASSUME NEW s \in Servers, CreateWorker(s) PROVE PortHint'
  BY <1>11 DEF CreateWorker
<1>12. ASSUME NEW s \in Servers, AppendTrace(s) PROVE PortHint'
  BY <1>12 DEF AppendTrace
<1>13. ASSUME NEW s \in Servers, Fork(s) PROVE PortHint'
  BY <1>13 DEF Fork
<1>14. ASSUME NEW s \in Servers, CommandEnds(s) PROVE PortHint'
  BY <1>14 DEF CommandEnds
<1>15. ASSUME NEW s \in Servers, NEW t \in Threads, Lock(s, t) PROVE PortHint'
  BY <1>15 DEF Lock
<1>16. ASSUME NEW s \in Servers, NEW t \in Threads, Unlock(s, t) PROVE PortHint'
  BY <1>16 DEF Unlock
<1>17. ASSUME NEW s \in Servers, Interrupt(s) PROVE PortHint'
  BY <1>17 DEF Interrupt
<1>18. ASSUME NEW s \in Servers, HandlerExits(s) PROVE PortHint'
  BY <1>18 DEF HandlerExits
<1>19. ASSUME NEW c \in Clients, ChoosePort(c) PROVE PortHint'
  BY <1>19 DEF ChoosePort
<1>20. ASSUME NEW c \in Clients, Connect(c) PROVE PortHint'
  BY <1>20 DEF Connect
<1>21. ASSUME NEW c \in Clients, TimeOut(c) PROVE PortHint'
  BY <1>21 DEF TimeOut
<1> QED BY <1>1, <1>2, <1>3, <1>4, <1>5, <1>6, <1>7, <1>8, <1>9, <1>10, <1>11, <1>12,
           <1>13, <1>14, <1>15, <1>16, <1>17, <1>18, <1>19, <1>20, <1>21 DEF Next,
           MainStep

LEMMA EmptyHintStep == ASSUME ProcessInv, Next PROVE EmptyHint'
<1> USE PortFacts DEF ProcessInv, TypeOK, Goto, bindVars, threadVars, hintVars,
      clientVars, MainType, StageInv, HintType, HintLeadsToServer, EmptyHint, Up, End,
      FlushHint, AfterLog
<1>1. ASSUME NEW s \in Servers, Start(s) PROVE EmptyHint'
  BY <1>1 DEF Start
<1>2. ASSUME NEW s \in Servers, Bind(s) PROVE EmptyHint'
  BY <1>2 DEF Bind
<1>3. ASSUME NEW s \in Servers, BindBusy(s) PROVE EmptyHint'
  BY <1>3 DEF BindBusy
<1>4. ASSUME NEW s \in Servers, GiveUp(s) PROVE EmptyHint'
  BY <1>4 DEF GiveUp
<1>5. ASSUME NEW s \in Servers, OpenHint(s) PROVE EmptyHint'
  BY <1>5 DEF OpenHint
<1>6. ASSUME NEW s \in Servers, WriteHint(s) PROVE EmptyHint'
  BY <1>6, ZenonT(30) DEF WriteHint
<1>7. ASSUME NEW s \in Servers, Listen(s) PROVE EmptyHint'
  BY <1>7 DEF Listen
<1>8. ASSUME NEW s \in Servers, ListenFails(s) PROVE EmptyHint'
  BY <1>8 DEF ListenFails
<1>9. ASSUME NEW s \in Servers, CreateScheduler(s) PROVE EmptyHint'
  BY <1>9 DEF CreateScheduler
<1>10. ASSUME NEW s \in Servers, Accept(s) PROVE EmptyHint'
  BY <1>10 DEF Accept
<1>11. ASSUME NEW s \in Servers, CreateWorker(s) PROVE EmptyHint'
  BY <1>11 DEF CreateWorker
<1>12. ASSUME NEW s \in Servers, AppendTrace(s) PROVE EmptyHint'
  BY <1>12 DEF AppendTrace
<1>13. ASSUME NEW s \in Servers, Fork(s) PROVE EmptyHint'
  BY <1>13 DEF Fork
<1>14. ASSUME NEW s \in Servers, CommandEnds(s) PROVE EmptyHint'
  BY <1>14 DEF CommandEnds
<1>15. ASSUME NEW s \in Servers, NEW t \in Threads, Lock(s, t) PROVE EmptyHint'
  BY <1>15 DEF Lock
<1>16. ASSUME NEW s \in Servers, NEW t \in Threads, Unlock(s, t) PROVE EmptyHint'
  BY <1>16 DEF Unlock
<1>17. ASSUME NEW s \in Servers, Interrupt(s) PROVE EmptyHint'
  BY <1>17 DEF Interrupt
<1>18. ASSUME NEW s \in Servers, HandlerExits(s) PROVE EmptyHint'
  BY <1>18 DEF HandlerExits
<1>19. ASSUME NEW c \in Clients, ChoosePort(c) PROVE EmptyHint'
  BY <1>19 DEF ChoosePort
<1>20. ASSUME NEW c \in Clients, Connect(c) PROVE EmptyHint'
  BY <1>20 DEF Connect
<1>21. ASSUME NEW c \in Clients, TimeOut(c) PROVE EmptyHint'
  BY <1>21 DEF TimeOut
<1> QED BY <1>1, <1>2, <1>3, <1>4, <1>5, <1>6, <1>7, <1>8, <1>9, <1>10, <1>11, <1>12,
           <1>13, <1>14, <1>15, <1>16, <1>17, <1>18, <1>19, <1>20, <1>21 DEF Next,
           MainStep

-----------------------------------------------------------------------------
(* The theorems *)

LEMMA HintLeadsStep == ASSUME ProcessInv, Next PROVE HintLeadsToServer'
<1>1. MainType' /\ StageInv' /\ ExclusiveInv' /\ WriterInv'
  BY MainTypeStep, StageStep, ExclusiveStep, HintTypeStep
<1>2. (hint \in Ports /\ Up(writer) => ListenersOn(hint) = {writer})'
  BY <1>1, PortHintStep DEF PortHint, MainType, StageInv, ExclusiveInv, WriterInv, ListenersOn, Open, Up, Alive
<1> QED BY <1>2, PortHintStep, EmptyHintStep DEF HintLeadsToServer, PortHint, EmptyHint

LEMMA StepInv == ASSUME ProcessInv, [Next]_vars PROVE ProcessInv'
<1>1. CASE Next
  BY <1>1, MainTypeStep, ThreadTypeStep, HintTypeStep, ClientTypeStep, StageStep, ExclusiveStep, ClaimStep,
     GivesUpStep, HintLeadsStep DEF ProcessInv, TypeOK
<1>2. CASE UNCHANGED vars
  <2> USE <1>2 DEF vars, bindVars, threadVars, hintVars, clientVars, ProcessInv
  <2>1. TypeOK'
    BY DEF TypeOK, MainType, ThreadType, HintType, ClientType, ThreadsOf, Up, Alive
  <2>2. StageInv' /\ ExclusiveInv'
    BY DEF StageInv, ExclusiveInv, Open, Up, Alive
  <2>3. ClaimInv' /\ WriterInv' /\ GivesUpForOthers'
    BY DEF ClaimInv, WriterInv, GivesUpForOthers, Claimed
  <2>4. HintLeadsToServer'
    BY DEF HintLeadsToServer, ListenersOn, Open, Up, Alive
  <2> QED BY <2>1, <2>2, <2>3, <2>4
<1> QED BY <1>1, <1>2

\* The invariant from which the properties follow.
THEOREM ProcessInvariant == Spec => []ProcessInv
BY InitInv, StepInv, PTL DEF Spec

\* Whatever fails, and whoever is interrupted, no server tries a port too
\* many, only threads that exist hold the mutex or are in the handler, and
\* only a server that listens has clients (server.c).
THEOREM TypeCorrect == Spec => []TypeOK
<1>1. ProcessInv => TypeOK
  BY DEF ProcessInv
<1> QED BY <1>1, ProcessInvariant, PTL

\* The hint file names a port of the server that wrote it, and while that
\* server is up no other process takes the clients that come there
\* (server.c, lines 161-170 and 473-475; client.c, line 42).
THEOREM HintCorrect == Spec => []HintLeadsToServer
<1>1. ProcessInv => HintLeadsToServer
  BY DEF ProcessInv
<1> QED BY <1>1, ProcessInvariant, PTL

\* No server gives up for want of a port but for other servers and programs
\* (server.c, lines 127-158 and 477).
THEOREM GivesUpCorrect == Spec => []GivesUpForOthers
<1>1. ProcessInv => GivesUpForOthers
  BY DEF ProcessInv
<1> QED BY <1>1, ProcessInvariant, PTL
=============================================================================
