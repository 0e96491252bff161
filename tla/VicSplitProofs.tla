--------------------------- MODULE VicSplitProofs ---------------------------
(***************************************************************************)
(* Proofs about VicSplit for any finite number of flows, whenever the tool *)
(* is run, whenever routines return, whatever standard input holds.        *)
(***************************************************************************)
EXTENDS VicSplit, FiniteSetTheorems, TLAPS

\* A process has a natural number of threads.
LEMMA ThreadsNat == ASSUME NEW p \in Proc PROVE ThreadsNumber(p) \in Nat
<1> DEFINE S == {v \in Vic : flow[p][v] \notin {"none", "exited"}}
<1>1. IsFiniteSet(S)
    BY VicFinite, FS_Subset
<1>2. Cardinality(S) \in Nat
    BY <1>1, FS_CardinalityType
<1> QED BY <1>2 DEF ThreadsNumber

\* Changing one entry of a two-dimensional table keeps its type.
LEMMA UpdateTyped ==
    ASSUME NEW A, NEW B, NEW S, NEW f \in [A -> [B -> S]],
           NEW a \in A, NEW b \in B, NEW s \in S
    PROVE  [f EXCEPT ![a][b] = s] \in [A -> [B -> S]]
OBVIOUS

\* The steps of the main thread keep the variables well typed.
LEMMA TypeMain == TypeOK /\ MainNext => TypeOK'
<1> SUFFICES ASSUME TypeOK, MainNext PROVE TypeOK'
    OBVIOUS
<1> USE DEF TypeOK, memory, mainVars, toolVars, FlowState, PrepState, ToolState
<1>1. ASSUME NEW v \in Vic, StartThread(v) PROVE TypeOK'
    BY <1>1 DEF StartThread, Proc
<1>2. ASSUME NEW v \in Vic, BeginWait(v) PROVE TypeOK'
    BY <1>2 DEF BeginWait
<1>3. CASE WaitLock
    BY <1>3 DEF WaitLock, Proc
<1>4. CASE WaitPoll
  <2>1. /\ main' \in {"idle", "sleeping"} /\ waitFor' \in Vic \cup {None}
        /\ joined' \in SUBSET Vic
        /\ main' = "sleeping" => waitFor' \in Vic
    BY <1>4 DEF WaitPoll
  <2>2. lock' \in [Proc -> [Proc -> {"free", "prep", "user"}]]
    BY <1>4 DEF WaitPoll, Proc
  <2>3. UNCHANGED <<flow, home, reg, abstr, sock, current, terminate, prep, todo,
                    target, count, tids, addr, launch, toolVars>>
    BY <1>4 DEF WaitPoll
  <2> QED BY <2>1, <2>2, <2>3
<1>5. CASE WaitBlock
    BY <1>5 DEF WaitBlock
<1> QED BY <1>1, <1>2, <1>3, <1>4, <1>5 DEF MainNext

\* The steps of a flow keep the variables well typed.
LEMMA TypeFlow ==
    ASSUME TypeOK, NEW p \in Proc, NEW v \in Vic, FlowNext(p, v) PROVE TypeOK'
<1> USE DEF TypeOK, mainVars, toolVars, FlowState, PrepState, FlowStep
<1>1. CASE Register(p, v)
    BY <1>1 DEF Register, Proc
<1>2. CASE Enter(p, v)
    BY <1>2 DEF Enter, Proc
<1>6. CASE Leave(p, v)
    BY <1>6 DEF Leave, Proc
<1>3. CASE Return(p, v)
    BY <1>3 DEF Return, Proc
<1>4. CASE ExitThread(p, v)
    BY <1>4 DEF ExitThread, Proc
<1>5. CASE ExitProcess(p, v)
    BY <1>5 DEF ExitProcess, memory, Proc
<1>7. CASE ReadPid(p, v)
    BY <1>7 DEF ReadPid, Proc
<1>8. CASE ReturnThread(p, v)
    BY <1>8 DEF ReturnThread, Proc
<1>9. CASE ReturnProcess(p, v)
    BY <1>9 DEF ReturnProcess, Proc
<1> QED BY <1>1, <1>2, <1>3, <1>4, <1>5, <1>6, <1>7, <1>8, <1>9 DEF FlowNext

\* The steps of a preparation thread keep the variables well typed.
LEMMA TypePrep == ASSUME TypeOK, NEW p \in Proc, PrepNext(p) PROVE TypeOK'
<1> USE DEF TypeOK, mainVars, toolVars, PrepState, PrepGoto
<1>1. CASE PrepLaunch(p) \/ PrepTerminate(p)
    BY <1>1 DEF PrepLaunch, PrepTerminate
<1>2. CASE ReceivePrepare(p)
    BY <1>2 DEF ReceivePrepare, ToolState
<1>3. CASE LockMain(p)
    BY <1>3 DEF LockMain, Proc
<1>4. ASSUME NEW v \in Vic, Check(p, v) PROVE TypeOK'
  <2>1. todo' \in [Proc -> SUBSET Vic]
    BY <1>4 DEF Check
  <2>2. UNCHANGED <<flow, home, reg, abstr, lock, sock, current, terminate,
                    count, tids, addr, mainVars, toolVars>>
    BY <1>4 DEF Check
  <2>3. \/ /\ prep' = [prep EXCEPT ![p] = "acquire"]
           /\ target' = [target EXCEPT ![p] = v]
        \/ /\ prep' = [prep EXCEPT ![p] = "check"]
           /\ target' = target
    BY <1>4 DEF Check
  <2>4. /\ prep' \in [Proc -> PrepState]
        /\ target' \in [Proc -> Vic \cup {None}]
        /\ \A q \in Proc : prep'[q] = "acquire" => target'[q] \in Vic
    <3>1. CASE /\ prep' = [prep EXCEPT ![p] = "acquire"]
               /\ target' = [target EXCEPT ![p] = v]
      BY <3>1
    <3>2. CASE /\ prep' = [prep EXCEPT ![p] = "check"]
               /\ target' = target
      BY <3>2
    <3> QED BY <2>3, <3>1, <3>2
  <2> QED BY <2>1, <2>2, <2>4
<1>5. ASSUME NEW v \in Vic, Collect(p, v) PROVE TypeOK'
    BY <1>5 DEF Collect
<1>6. ASSUME NEW v \in Vic, Reopen(p, v) PROVE TypeOK'
  <2>0. \/ sock' = sock /\ lock' = lock
        \/ \E s \in {"closed", "open"}, k \in {"free", "prep", "user"} :
             /\ sock' = [sock EXCEPT ![p][v] = s]
             /\ lock' = [lock EXCEPT ![p][v] = k]
    <3>1. v \in Proc /\ sock[p][v] \in {"closed", "open"} /\ lock[p][v] \in {"free", "prep", "user"}
      BY DEF Proc
    <3>2. CASE reg[p][v] # "executing"
      BY <1>6, <3>2 DEF Reopen
    <3>3. CASE reg[p][v] = "executing"
      <4> DEFINE s == IF p = v THEN "open" ELSE sock[p][v]
                 k == IF lock[p][v] = "prep" THEN "free" ELSE lock[p][v]
      <4>1. s \in {"closed", "open"} /\ k \in {"free", "prep", "user"}
        BY <3>1
      <4>2. sock' = [sock EXCEPT ![p][v] = s] /\ lock' = [lock EXCEPT ![p][v] = k]
        BY <1>6, <3>3 DEF Reopen
      <4> QED BY <4>1, <4>2
    <3> QED BY <3>2, <3>3
  <2>1. /\ sock' \in [Proc -> [Proc -> {"closed", "open"}]]
        /\ lock' \in [Proc -> [Proc -> {"free", "prep", "user"}]]
    <3>1. CASE sock' = sock /\ lock' = lock
      BY <3>1
    <3>2. ASSUME NEW s \in {"closed", "open"}, NEW k \in {"free", "prep", "user"},
                 sock' = [sock EXCEPT ![p][v] = s],
                 lock' = [lock EXCEPT ![p][v] = k]
          PROVE  /\ sock' \in [Proc -> [Proc -> {"closed", "open"}]]
                 /\ lock' \in [Proc -> [Proc -> {"free", "prep", "user"}]]
      <4>1. v \in Proc
        BY DEF Proc
      <4>2. /\ sock \in [Proc -> [Proc -> {"closed", "open"}]]
            /\ lock \in [Proc -> [Proc -> {"free", "prep", "user"}]]
        OBVIOUS
      <4>3. [sock EXCEPT ![p][v] = s] \in [Proc -> [Proc -> {"closed", "open"}]]
        BY <4>1, <4>2, UpdateTyped
      <4>4. [lock EXCEPT ![p][v] = k] \in [Proc -> [Proc -> {"free", "prep", "user"}]]
        BY <4>1, <4>2, UpdateTyped
      <4> QED BY <3>2, <4>3, <4>4
    <3> QED BY <2>0, <3>1, <3>2
  <2>3. todo' \in [Proc -> SUBSET Vic] /\ prep' = prep
    BY <1>6 DEF Reopen
  <2>4. UNCHANGED <<flow, home, reg, abstr, current, terminate, target, count,
                    tids, addr, mainVars, toolVars>>
    BY <1>6 DEF Reopen
  <2> QED BY <2>1, <2>3, <2>4
<1>7. CASE Acquire(p)
    BY <1>7 DEF Acquire, Proc
<1>8. CASE CountThreads(p)
    BY <1>8, ThreadsNat DEF CountThreads
<1>9. CASE Report(p)
    BY <1>9 DEF Report, ToolState
<1>10. CASE LeavePoll(p)
    BY <1>10 DEF LeavePoll
<1>14. CASE Rebind(p)
    BY <1>14 DEF Rebind
<1>11. CASE ReceiveStart(p)
    BY <1>11 DEF ReceiveStart
<1>12. CASE Convert(p)
    BY <1>12 DEF Convert
<1>13. CASE FinishSplit(p)
    BY <1>13 DEF FinishSplit, Proc
<1> QED
    BY <1>1, <1>2, <1>3, <1>4, <1>5, <1>6, <1>7, <1>8, <1>9, <1>10, <1>11, <1>12, <1>13,
       <1>14
    DEF PrepNext

\* The steps of the tool keep the variables well typed.
LEMMA TypeTool == TypeOK /\ ToolNext => TypeOK'
<1> SUFFICES ASSUME TypeOK, ToolNext PROVE TypeOK'
    OBVIOUS
<1> USE DEF TypeOK, memory, mainVars, ToolGoto, ToolState
<1>0. Main \in Proc
    BY DEF Proc
<1>1. CASE RunTool
    BY <1>1 DEF RunTool
<1>2. CASE Dump
    BY <1>0, <1>2 DEF Dump, Copied, SplitThreads, FlowState
<1>3. CASE DumpFails
    BY <1>0, <1>3 DEF DumpFails
<1>4. CASE SendStart
    BY <1>4 DEF SendStart, Proc
<1> QED BY <1>1, <1>2, <1>3, <1>4 DEF ToolNext

\* Every step keeps the variables well typed.
LEMMA TypeStep == TypeOK /\ [Next]_vars => TypeOK'
<1> SUFFICES ASSUME TypeOK, [Next]_vars PROVE TypeOK'
    OBVIOUS
<1>1. CASE UNCHANGED vars
    BY <1>1 DEF TypeOK, vars, memory, mainVars, toolVars
<1>2. CASE Next
    BY <1>2, TypeMain, TypeFlow, TypePrep, TypeTool DEF Next
<1> QED BY <1>1, <1>2

\* The program starts with every variable well typed.
LEMMA TypeInit == Init => TypeOK
<1> SUFFICES ASSUME Init PROVE TypeOK
    OBVIOUS
<1> USE DEF Init
<1>1. Main \in Proc
    BY DEF Proc
<1>2. /\ proc \in [Proc -> {"absent", "up", "exited"}]
      /\ flow \in [Proc -> [Vic -> FlowState]]
      /\ home \in [Proc -> [Vic -> Proc \cup {None}]]
      /\ reg \in [Proc -> [Vic -> {"idle", "executing", "finished"}]]
    BY DEF FlowState
<1>3. /\ abstr \in [Proc -> [Proc -> {"thread", "process"}]]
      /\ lock \in [Proc -> [Proc -> {"free", "prep", "user"}]]
      /\ sock \in [Proc -> [Proc -> {"closed", "open"}]]
      /\ current \in [Proc -> {"thread", "process"}]
    OBVIOUS
<1>4. /\ terminate \in [Proc -> BOOLEAN] /\ prep \in [Proc -> PrepState]
      /\ todo \in [Proc -> SUBSET Vic] /\ target \in [Proc -> Vic \cup {None}]
      /\ count \in [Proc -> Nat] /\ tids \in [Proc -> SUBSET Vic]
      /\ addr \in [Proc -> Proc]
    BY <1>1 DEF PrepState
<1>5. \A p \in Proc : prep[p] # "acquire"
    OBVIOUS
<1>6. /\ launch \in BOOLEAN /\ main = "starting" /\ waitFor \in Vic \cup {None}
      /\ joined \in SUBSET Vic /\ tool \in ToolState
      /\ listed \in SUBSET Vic /\ start \in SUBSET Proc /\ early \in BOOLEAN
    BY DEF ToolState
<1> QED BY <1>2, <1>3, <1>4, <1>5, <1>6 DEF TypeOK

\* Every variable keeps its type.
THEOREM TypeCorrect == Spec => []TypeOK
<1> QED BY TypeInit, TypeStep, PTL DEF Spec

-----------------------------------------------------------------------------
(* The locks and the sockets.                                              *)

\* How far the preparation threads of the running processes are, by how far
\* the tool is: until the dump there is one process; "start" is sent last.
Stage ==
    /\ tool # "failed" <=> proc[Main] = "up"
    /\ tool \notin {"start", "done"} => \A v \in Vic : proc[v] = "absent"
    /\ tool # "done" => start = {}
    /\ \A p \in Proc : proc[p] = "up" =>
         /\ tool \in {"idle", "prepare"} => prep[p] \in {"launch", "listen", "gone"}
         /\ tool = "listing" => prep[p] \in {"lockmain", "check", "acquire", "collect"}
         /\ tool \in {"dump", "start"} => prep[p] \in {"poll", "rebind", "waitstart"}
         /\ tool = "done" => prep[p] \in {"poll", "rebind", "waitstart", "convert",
                                         "reopen", "listen", "gone"}

\* A flow still inside its routine whose lock the preparation thread holds is
\* registered, will be reported while the program is one process, is at home
\* afterwards, and is among those to be unlocked.
Held(p, v) == Active(p, v) /\ lock[p][v] = "prep"

HeldIsReported ==
    \A p \in Proc, v \in Vic : Held(p, v) =>
        /\ reg[p][v] = "executing"
        /\ prep[p] \notin {"launch", "listen", "lockmain", "gone"}
        /\ prep[p] = "collect" => v \in todo[p] \cup tids[p]
        /\ prep[p] = "reopen" => v \in todo[p]
        /\ tool = "dump" => v \in listed
        /\ tool \in {"start", "done"} => p = v

\* The preparation thread locks only flows that have registered, and one that
\* is still active when the lock is taken is still registered.
TargetRegistered ==
    \A p \in Proc :
        /\ prep[p] = "acquire" =>
             /\ reg[p][target[p]] # "idle"
             /\ Active(p, target[p]) => reg[p][target[p]] = "executing"
        /\ \A v \in Vic : lock[p][v] = "prep" => reg[p][v] # "idle"

\* A thread that runs in the program's own process was started there, and ends
\* there as a thread.
HomeInMain ==
    \A v \in Vic :
        /\ home[Main][v] \in {None, Main}
        /\ flow[Main][v] \in {"running", "critical", "returned", "leaving"} =>
              home[Main][v] = Main
        /\ flow[Main][v] # "ending"

\* A flow inside its critical section holds its lock, and closed sockets are
\* behind a lock that the preparation thread holds.
LockGuardsSockets ==
    \A p \in Proc, v \in Vic : Active(p, v) =>
        /\ flow[p][v] = "critical" => lock[p][v] = "user"
        /\ sock[p][v] = "closed" => lock[p][v] = "prep"

\* The preparation thread holds the main lock from lockmain to its end.
MainLockHeld ==
    \A p \in Proc :
        proc[p] = "up" /\ prep[p] \in {"launch", "listen", "lockmain", "gone"}
            => lock[p][Main] # "prep"

IInv ==
    /\ TypeOK
    /\ Stage
    /\ HomeInMain
    /\ HeldIsReported
    /\ TargetRegistered
    /\ LockGuardsSockets
    /\ MainLockHeld

LEMMA InitIInv == Init => IInv
<1> SUFFICES ASSUME Init PROVE IInv
    OBVIOUS
<1>1. TypeOK
    BY TypeInit
<1>2. Stage /\ HomeInMain /\ MainLockHeld
    BY VicAssumption DEF Init, Stage, HomeInMain, MainLockHeld, Proc
<1>3. HeldIsReported /\ TargetRegistered /\ LockGuardsSockets
    BY DEF Init, HeldIsReported, TargetRegistered, LockGuardsSockets, Held, Active, Proc
<1> QED BY <1>1, <1>2, <1>3 DEF IInv

\* A thread of the program's own process is at home there.
LEMMA HomeStep == TypeOK /\ HomeInMain /\ [Next]_vars => HomeInMain'
<1> SUFFICES ASSUME TypeOK, HomeInMain, [Next]_vars PROVE HomeInMain'
    OBVIOUS
<1> USE DEF HomeInMain
<1>0. Main \in Proc
    BY DEF Proc
<1>1. CASE flow' = flow /\ home' = home
    BY <1>1
<1>2. ASSUME NEW v \in Vic, StartThread(v) PROVE HomeInMain'
    BY <1>0, <1>2 DEF StartThread, TypeOK
<1>3. ASSUME NEW p \in Proc, NEW v \in Vic, FlowNext(p, v) PROVE HomeInMain'
  <2>1. CASE Register(p, v)
    BY <1>0, <2>1 DEF FlowStep, Register, TypeOK
  <2>2. CASE Enter(p, v)
    BY <1>0, <2>2 DEF FlowStep, Enter, TypeOK
  <2>3. CASE Leave(p, v)
    BY <1>0, <2>3 DEF FlowStep, Leave, TypeOK
  <2>4. CASE Return(p, v)
    BY <1>0, <2>4 DEF FlowStep, Return, TypeOK
  <2>5. CASE ExitThread(p, v)
    BY <1>0, <2>5 DEF FlowStep, ExitThread, TypeOK
  <2>6. CASE ExitProcess(p, v)
    BY <1>1, <2>6 DEF ExitProcess, memory
  <2>7. CASE ReadPid(p, v)
    BY <1>0, <2>7 DEF ReadPid, TypeOK
  <2>8. CASE ReturnThread(p, v)
    BY <1>0, <2>8 DEF FlowStep, ReturnThread, TypeOK
  <2>9. CASE ReturnProcess(p, v)
    BY <1>0, <2>9 DEF FlowStep, ReturnProcess, TypeOK
  <2> QED BY <1>3, <2>1, <2>2, <2>3, <2>4, <2>5, <2>6, <2>7, <2>8, <2>9 DEF FlowNext
<1>4. CASE Dump
  <2>1. home'[Main] = home[Main]
    BY <1>0, <1>4, VicAssumption DEF Dump, Copied, TypeOK
  <2>2. \A v \in Vic : flow'[Main][v] \in {"none", flow[Main][v]}
    BY <1>0, <1>4, VicAssumption DEF Dump, SplitThreads, TypeOK
  <2> QED BY <2>1, <2>2
<1>5. CASE MainNext /\ ~\E v \in Vic : StartThread(v)
    BY <1>1, <1>5 DEF MainNext, BeginWait, WaitLock, WaitBlock, WaitPoll, memory
<1>6. ASSUME NEW p \in Proc, PrepNext(p) PROVE HomeInMain'
    BY <1>1, <1>6 DEF PrepNext, PrepLaunch, PrepTerminate, ReceivePrepare, LockMain, Check,
           Collect, Reopen, Acquire, CountThreads, Report, LeavePoll, Rebind,
           ReceiveStart, Convert, FinishSplit
<1>7. CASE ToolNext /\ ~Dump
    BY <1>1, <1>7 DEF ToolNext, RunTool, DumpFails, SendStart, memory
<1>8. CASE UNCHANGED vars
    BY <1>1, <1>8 DEF vars, memory
<1> QED BY <1>2, <1>3, <1>4, <1>5, <1>6, <1>7, <1>8 DEF Next

\* The preparation threads and the tool advance together.
LEMMA StageStep == TypeOK /\ HomeInMain /\ Stage /\ [Next]_vars => Stage'
<1> SUFFICES ASSUME TypeOK, HomeInMain, Stage, [Next]_vars PROVE Stage'
    OBVIOUS
<1>0. Main \in Proc /\ Main \notin Vic
    BY VicAssumption DEF Proc
<1>1. CASE UNCHANGED <<proc, prep, tool, start>>
    BY <1>1 DEF Stage
<1>2. CASE MainNext
    BY <1>1, <1>2 DEF MainNext, StartThread, BeginWait, WaitLock, WaitBlock, WaitPoll, memory, toolVars
<1>3. ASSUME NEW p \in Proc, NEW v \in Vic, FlowNext(p, v) PROVE Stage'
  <2>1. CASE ExitProcess(p, v)
    <3>1. p # Main
      BY <2>1 DEF ExitProcess, HomeInMain
    <3>2. /\ proc' = [proc EXCEPT ![p] = "exited"] /\ proc[p] = "up"
          /\ UNCHANGED <<prep, tool, start>>
      BY <2>1 DEF ExitProcess, memory
    <3> QED BY <1>0, <3>1, <3>2 DEF Stage, TypeOK, Proc
  <2> QED BY <1>1, <1>3, <2>1 DEF FlowNext, ReadPid, Register, Enter, Leave, Return,
              ReturnThread, ReturnProcess, ExitThread, toolVars
<1>4. ASSUME NEW p \in Proc, PrepNext(p) PROVE Stage'
  <2>1. proc' = proc /\ proc[p] = "up"
    BY <1>4 DEF PrepNext, PrepLaunch, PrepTerminate, ReceivePrepare, LockMain, Check,
           Collect, Reopen, Acquire, CountThreads, Report, LeavePoll, Rebind,
           ReceiveStart, Convert, FinishSplit, PrepGoto, toolVars
  <2>2. CASE ReceivePrepare(p)
    <3>1. /\ prep' = [prep EXCEPT ![p] = "lockmain"] /\ p = Main
          /\ tool = "prepare" /\ tool' = "listing" /\ start' = start
      BY <2>2 DEF ReceivePrepare, PrepGoto
    <3> QED BY <1>0, <2>1, <3>1 DEF Stage, TypeOK, Proc
  <2>3. CASE Report(p)
    <3>1. /\ prep' = [prep EXCEPT ![p] = "poll"]
          /\ tool = "listing" /\ tool' = "dump" /\ start' = start
      BY <2>3 DEF Report, PrepGoto
    <3>2. p = Main
      BY <2>1, <3>1 DEF Stage, Proc
    <3> QED BY <1>0, <2>1, <3>1, <3>2 DEF Stage, TypeOK, Proc
  <2>4. CASE ReceiveStart(p)
    <3>1. /\ prep' = [prep EXCEPT ![p] = "convert"] /\ prep[p] = "waitstart"
          /\ tool' = tool /\ start # {} /\ start' \subseteq start
      BY <2>4 DEF ReceiveStart, PrepGoto
    <3>2. tool = "done"
      BY <3>1 DEF Stage
    <3> QED BY <2>1, <3>1, <3>2 DEF Stage, TypeOK
  <2>5. CASE \/ PrepLaunch(p) \/ PrepTerminate(p) \/ LockMain(p)
             \/ \E v \in Vic : Check(p, v) \/ Collect(p, v)
             \/ Acquire(p) \/ CountThreads(p)
    <3>1. /\ UNCHANGED <<tool, start>>
          /\ \A q \in Proc : q # p => prep'[q] = prep[q]
      BY <2>5 DEF PrepLaunch, PrepTerminate, LockMain, Check, Collect, Acquire,
                  CountThreads, PrepGoto, toolVars, TypeOK
    <3>2. \/ prep[p] = "launch" /\ prep'[p] = "listen"
          \/ prep[p] = "listen" /\ prep'[p] = "gone"
          \/ prep[p] = "lockmain" /\ prep'[p] = "check"
          \/ prep[p] \in {"check", "acquire"} /\ prep'[p] \in {"check", "acquire", "collect"}
          \/ prep[p] = "collect" /\ prep'[p] = "collect"
      BY <2>5 DEF PrepLaunch, PrepTerminate, LockMain, Check, Collect, Acquire,
                  CountThreads, PrepGoto, TypeOK
    <3> QED BY <2>1, <3>1, <3>2 DEF Stage
  <2>6. CASE \/ \E v \in Vic : Reopen(p, v)
             \/ LeavePoll(p) \/ Rebind(p) \/ Convert(p) \/ FinishSplit(p)
    <3>1. /\ UNCHANGED <<tool, start>>
          /\ \A q \in Proc : q # p => prep'[q] = prep[q]
      BY <2>6 DEF Reopen, LeavePoll, Rebind, Convert, FinishSplit, PrepGoto, toolVars, TypeOK
    <3>2. \/ prep[p] = "poll" /\ prep'[p] = "rebind"
          \/ prep[p] = "rebind" /\ prep'[p] = "waitstart"
          \/ prep[p] = "convert" /\ prep'[p] = "reopen"
          \/ prep[p] = "reopen" /\ prep'[p] \in {"reopen", "listen"}
      BY <2>6 DEF Reopen, LeavePoll, Rebind, Convert, FinishSplit, PrepGoto, TypeOK
    <3> QED BY <2>1, <3>1, <3>2 DEF Stage
  <2> QED BY <1>4, <2>2, <2>3, <2>4, <2>5, <2>6 DEF PrepNext
<1>5. CASE ToolNext
  <2>1. CASE RunTool
    BY <2>1 DEF RunTool, ToolGoto, memory, Stage
  <2>2. CASE Dump
    <3>1. /\ tool = "dump" /\ tool' = "start" /\ start' = start
          /\ listed \subseteq Vic
          /\ proc' = [p \in Proc |-> IF p \in listed THEN "up" ELSE proc[p]]
          /\ prep' = [p \in Proc |-> IF p \in listed THEN prep[Main] ELSE prep[p]]
      BY <2>2 DEF Dump, ToolGoto, Copied, TypeOK
    <3> QED BY <1>0, <3>1 DEF Stage
  <2>3. CASE DumpFails
    <3>1. /\ tool = "dump" /\ tool' = "failed" /\ start' = start
          /\ proc' = [proc EXCEPT ![Main] = "exited"] /\ prep' = prep
      BY <2>3 DEF DumpFails, ToolGoto, memory
    <3> QED BY <1>0, <3>1 DEF Stage, TypeOK, Proc
  <2>4. CASE SendStart
    BY <2>4 DEF SendStart, ToolGoto, memory, Stage
  <2> QED BY <1>5, <2>1, <2>2, <2>3, <2>4 DEF ToolNext
<1>6. CASE UNCHANGED vars
    BY <1>1, <1>6 DEF vars, memory, toolVars
<1> QED BY <1>2, <1>3, <1>4, <1>5, <1>6 DEF Next

LockInv == HeldIsReported /\ TargetRegistered /\ LockGuardsSockets

\* The main thread touches no lock but the main one.
LEMMA LockMainThread == IInv /\ MainNext => LockInv'
<1> SUFFICES ASSUME IInv, MainNext PROVE LockInv'
    OBVIOUS
<1>0. /\ TypeOK /\ Stage /\ LockInv
      /\ Main \in Proc /\ Main \notin Vic /\ \A v \in Vic : v \in Proc
    BY VicAssumption DEF IInv, LockInv, Proc
<1> USE DEF LockInv, HeldIsReported, TargetRegistered, LockGuardsSockets, Held, Active
<1>1. ASSUME NEW v \in Vic, StartThread(v) PROVE LockInv'
  <2>1. /\ flow' = [flow EXCEPT ![Main][v] = "created"]
        /\ sock' = [sock EXCEPT ![Main][v] = "open"]
        /\ reg[Main][v] = "idle"
        /\ UNCHANGED <<proc, reg, lock, prep, todo, target, tids, tool, listed>>
    BY <1>1 DEF StartThread, toolVars
  <2>2. lock[Main][v] # "prep"
    BY <1>0, <2>1
  <2>3. \A p \in Proc, u \in Vic : ~(p = Main /\ u = v) =>
            flow'[p][u] = flow[p][u] /\ sock'[p][u] = sock[p][u]
    BY <1>0, <2>1 DEF TypeOK
  <2>4. flow'[Main][v] = "created" /\ sock'[Main][v] = "open"
    BY <1>0, <2>1 DEF TypeOK
  <2>5. HeldIsReported'
    BY <1>0, <2>1, <2>2, <2>3
  <2>6. TargetRegistered'
    BY <1>0, <2>1, <2>3, <2>4
  <2>7. LockGuardsSockets'
    BY <1>0, <2>1, <2>3, <2>4
  <2> QED BY <2>5, <2>6, <2>7
<1>2. ASSUME NEW v \in Vic, BeginWait(v) PROVE LockInv'
    BY <1>0, <1>2 DEF BeginWait, memory, toolVars
<1>3. CASE WaitLock \/ WaitPoll
  <2>1. lock' \in {[lock EXCEPT ![Main][Main] = "user"], [lock EXCEPT ![Main][Main] = "free"]}
    BY <1>3 DEF WaitLock, WaitPoll
  <2>2. \A p \in Proc, v \in Vic : lock'[p][v] = lock[p][v]
    <3>1. CASE lock' = [lock EXCEPT ![Main][Main] = "user"]
      BY <1>0, <3>1 DEF TypeOK
    <3>2. CASE lock' = [lock EXCEPT ![Main][Main] = "free"]
      BY <1>0, <3>2 DEF TypeOK
    <3> QED BY <2>1, <3>1, <3>2
  <2>3. UNCHANGED <<proc, flow, reg, sock, prep, todo, target, tids, tool, listed>>
    BY <1>3 DEF WaitLock, WaitPoll, toolVars
  <2> QED BY <1>0, <2>2, <2>3
<1>4. CASE WaitBlock
  BY <1>0, <1>4 DEF WaitBlock, memory, toolVars
<1> QED BY <1>1, <1>2, <1>3, <1>4 DEF MainNext

\* A flow enters when its lock is free, hence with its sockets open.
LEMMA LockFlow ==
    ASSUME IInv, NEW p \in Proc, NEW v \in Vic, FlowNext(p, v) PROVE LockInv'
<1>0. /\ TypeOK /\ LockInv /\ v \in Proc
      /\ \A q \in Proc : prep[q] = "acquire" => target[q] \in Vic
    BY DEF IInv, LockInv, Proc, TypeOK
<1> USE DEF LockInv, HeldIsReported, TargetRegistered, LockGuardsSockets, Held, Active
<1>1. /\ UNCHANGED <<sock, prep, todo, target, tids, tool, listed>>
      /\ \A q \in Proc, u \in Vic : ~(q = p /\ u = v) =>
            /\ flow'[q][u] = flow[q][u] /\ lock'[q][u] = lock[q][u]
            /\ reg'[q][u] = reg[q][u]
      /\ \A q \in Proc : proc'[q] = "up" => proc[q] = "up"
  <2>1. CASE Register(p, v)
    BY <1>0, <2>1 DEF FlowStep, Register, TypeOK, toolVars
  <2>2. CASE Enter(p, v)
    BY <1>0, <2>2 DEF FlowStep, Enter, TypeOK, toolVars
  <2>3. CASE Leave(p, v)
    BY <1>0, <2>3 DEF FlowStep, Leave, TypeOK, toolVars
  <2>4. CASE Return(p, v)
    BY <1>0, <2>4 DEF FlowStep, Return, TypeOK, toolVars
  <2>5. CASE ExitThread(p, v)
    BY <1>0, <2>5 DEF FlowStep, ExitThread, TypeOK, toolVars
  <2>6. CASE ExitProcess(p, v)
    BY <1>0, <2>6 DEF ExitProcess, memory, TypeOK
  <2>7. CASE ReadPid(p, v)
    BY <1>0, <2>7 DEF ReadPid, TypeOK, toolVars
  <2>8. CASE ReturnThread(p, v)
    BY <1>0, <2>8 DEF FlowStep, ReturnThread, TypeOK, toolVars
  <2>9. CASE ReturnProcess(p, v)
    BY <1>0, <2>9 DEF FlowStep, ReturnProcess, TypeOK, toolVars
  <2> QED BY <2>1, <2>2, <2>3, <2>4, <2>5, <2>6, <2>7, <2>8, <2>9 DEF FlowNext
<1>2. \/ /\ flow[p][v] = "created" /\ flow'[p][v] = "running"
         /\ lock'[p][v] = lock[p][v] /\ reg'[p][v] = "executing"
      \/ /\ flow[p][v] = "running" /\ flow'[p][v] = "critical"
         /\ lock[p][v] = "free" /\ lock'[p][v] = "user" /\ reg'[p][v] = reg[p][v]
      \/ /\ flow[p][v] = "critical" /\ flow'[p][v] = "running"
         /\ lock'[p][v] = "free" /\ reg'[p][v] = reg[p][v]
      \/ /\ flow'[p][v] = "returned"
         /\ lock'[p][v] = lock[p][v] /\ reg'[p][v] = "finished"
      \/ /\ flow'[p][v] \in {"leaving", "ending", "exited", flow[p][v]}
         /\ lock'[p][v] = lock[p][v] /\ reg'[p][v] = reg[p][v]
  <2>1. CASE Register(p, v) \/ Enter(p, v) \/ Leave(p, v)
    BY <1>0, <2>1 DEF FlowStep, Register, Enter, Leave, TypeOK
  <2>2. CASE Return(p, v) \/ ReturnThread(p, v) \/ ReturnProcess(p, v)
    BY <1>0, <2>2 DEF FlowStep, Return, ReturnThread, ReturnProcess, TypeOK
  <2>3. CASE ReadPid(p, v) \/ ExitThread(p, v) \/ ExitProcess(p, v)
    BY <1>0, <2>3 DEF FlowStep, ReadPid, ExitThread, ExitProcess, memory, TypeOK
  <2> QED BY <2>1, <2>2, <2>3 DEF FlowNext
<1>3. proc[p] = "up"
    BY DEF FlowNext, FlowStep, ReadPid, Register, Enter, Leave, Return, ReturnThread,
           ReturnProcess, ExitThread, ExitProcess
<1>4. HeldIsReported'
    BY <1>0, <1>1, <1>2, <1>3
<1>5. TargetRegistered'
  <2>1. \A q \in Proc, u \in Vic :
           Active(q, u)' => Active(q, u) /\ reg'[q][u] \in {reg[q][u], "executing"}
    BY <1>1, <1>2, <1>3
  <2>2. \A q \in Proc, u \in Vic : lock'[q][u] = "prep" => lock[q][u] = "prep"
    BY <1>1, <1>2
  <2>3. \A q \in Proc, u \in Vic : reg'[q][u] = reg[q][u] \/ reg'[q][u] \in {"executing", "finished"}
    BY <1>1, <1>2
  <2>4. \A q \in Proc, u \in Vic : lock'[q][u] = "prep" => reg'[q][u] # "idle"
    BY <1>0, <2>2, <2>3
  <2>5. \A q \in Proc : prep'[q] = "acquire" =>
           /\ reg'[q][target'[q]] # "idle"
           /\ Active(q, target[q])' => reg'[q][target'[q]] = "executing"
    BY <1>0, <1>1, <1>2, <2>1, <2>3
  <2> QED BY <1>1, <2>4, <2>5
<1>6. LockGuardsSockets'
    BY <1>0, <1>1, <1>2, <1>3
<1> QED BY <1>4, <1>5, <1>6

\* The preparation thread closes and opens sockets behind the lock.
LEMMA LockPrep == ASSUME IInv, NEW p \in Proc, PrepNext(p) PROVE LockInv'
<1>0. /\ TypeOK /\ Stage /\ LockInv
      /\ Main \in Proc /\ Main \notin Vic /\ \A v \in Vic : v \in Proc
    BY VicAssumption DEF IInv, LockInv, Proc
<1> USE DEF LockInv, HeldIsReported, TargetRegistered, LockGuardsSockets, Held, Active
<1>1. CASE PrepLaunch(p) \/ PrepTerminate(p)
  <2>1. /\ prep[p] \in {"launch", "listen"} /\ prep'[p] \in {"listen", "gone"}
        /\ \A q \in Proc : q # p => prep'[q] = prep[q]
        /\ UNCHANGED <<proc, flow, reg, lock, sock, todo, target, tids, tool, listed>>
    BY <1>0, <1>1 DEF PrepLaunch, PrepTerminate, PrepGoto, toolVars, TypeOK
  <2> QED BY <1>0, <2>1
<1>2. CASE ReceivePrepare(p)
  <2>1. /\ prep[p] = "listen" /\ prep'[p] = "lockmain" /\ tool' = "listing"
        /\ \A q \in Proc : q # p => prep'[q] = prep[q]
        /\ UNCHANGED <<proc, flow, reg, lock, sock, todo, target, tids, listed>>
    BY <1>0, <1>2 DEF ReceivePrepare, PrepGoto, TypeOK
  <2> QED BY <1>0, <2>1
<1>3. CASE LockMain(p)
  <2>1. /\ prep[p] = "lockmain" /\ prep'[p] = "check"
        /\ \A q \in Proc : q # p => prep'[q] = prep[q] /\ todo'[q] = todo[q]
        /\ \A q \in Proc, u \in Vic : lock'[q][u] = lock[q][u] /\ sock'[q][u] = sock[q][u]
        /\ UNCHANGED <<proc, flow, reg, target, tids, tool, listed>>
    BY <1>0, <1>3 DEF LockMain, PrepGoto, toolVars, TypeOK
  <2> QED BY <1>0, <2>1
<1>4. ASSUME NEW v \in Vic, Check(p, v) PROVE LockInv'
  <2>1. /\ prep[p] = "check"
        /\ \/ prep'[p] = "check"
           \/ prep'[p] = "acquire" /\ target'[p] = v /\ reg[p][v] = "executing"
        /\ \A q \in Proc : q # p => /\ prep'[q] = prep[q] /\ todo'[q] = todo[q]
                                   /\ target'[q] = target[q]
        /\ UNCHANGED <<proc, flow, reg, lock, sock, tids, tool, listed>>
    BY <1>0, <1>4 DEF Check, PrepGoto, toolVars, TypeOK
  <2> QED BY <1>0, <2>1
<1>5. ASSUME NEW v \in Vic, Collect(p, v) PROVE LockInv'
  <2>1. /\ prep[p] = "collect" /\ prep' = prep
        /\ todo'[p] = todo[p] \ {v}
        /\ tids'[p] = IF reg[p][v] = "executing" THEN tids[p] \cup {v} ELSE tids[p]
        /\ \A q \in Proc : q # p => todo'[q] = todo[q] /\ tids'[q] = tids[q]
        /\ UNCHANGED <<proc, flow, reg, lock, sock, target, tool, listed>>
    BY <1>0, <1>5 DEF Collect, PrepGoto, toolVars, TypeOK
  <2> QED BY <1>0, <2>1
<1>6. CASE CountThreads(p)
  <2>1. /\ prep[p] = "check" /\ prep'[p] = "collect" /\ todo'[p] = Vic
        /\ \A q \in Proc : q # p => /\ prep'[q] = prep[q] /\ todo'[q] = todo[q]
                                   /\ tids'[q] = tids[q]
        /\ UNCHANGED <<proc, flow, reg, lock, sock, target, tool, listed>>
    BY <1>0, <1>6 DEF CountThreads, PrepGoto, toolVars, TypeOK
  <2> QED BY <1>0, <2>1
<1>7. CASE Acquire(p)
  <2>1. /\ prep[p] = "acquire" /\ prep'[p] = "check" /\ proc[p] = "up"
        /\ target[p] \in Vic /\ lock[p][target[p]] = "free"
        /\ lock' = [lock EXCEPT ![p][target[p]] = "prep"]
        /\ sock' = [sock EXCEPT ![p][target[p]] = "closed"]
        /\ \A q \in Proc : q # p => prep'[q] = prep[q] /\ target'[q] = target[q]
        /\ UNCHANGED <<proc, flow, reg, todo, tids, tool, listed>>
    BY <1>0, <1>7 DEF Acquire, PrepGoto, toolVars, TypeOK
  <2>2. /\ lock'[p][target[p]] = "prep" /\ sock'[p][target[p]] = "closed"
        /\ \A q \in Proc, u \in Vic : ~(q = p /\ u = target[p]) =>
              lock'[q][u] = lock[q][u] /\ sock'[q][u] = sock[q][u]
    BY <1>0, <2>1 DEF TypeOK
  <2>3. tool = "listing"
    BY <1>0, <2>1 DEF Stage, ToolState, TypeOK, Proc
  <2>4. HeldIsReported'
    BY <1>0, <2>1, <2>2, <2>3
  <2>5. TargetRegistered'
    BY <1>0, <2>1, <2>2
  <2>6. LockGuardsSockets'
    BY <1>0, <2>1, <2>2
  <2> QED BY <2>4, <2>5, <2>6
<1>8. CASE Report(p)
  <2>1. /\ prep[p] = "collect" /\ prep'[p] = "poll" /\ proc[p] = "up" /\ todo[p] = {}
        /\ tool = "listing" /\ tool' = "dump" /\ listed' = tids[p]
        /\ \A q \in Proc : q # p => prep'[q] = prep[q]
        /\ UNCHANGED <<proc, flow, reg, lock, sock, todo, target, tids>>
    BY <1>0, <1>8 DEF Report, PrepGoto, TypeOK
  <2>2. \A q \in Proc : proc[q] = "up" => q = p
    BY <1>0, <2>1 DEF Stage, Proc
  <2> QED BY <1>0, <2>1, <2>2
<1>9. CASE LeavePoll(p) \/ Rebind(p) \/ ReceiveStart(p)
  <2>1. /\ prep'[p] \in {"rebind", "waitstart", "convert"}
        /\ prep[p] \in {"poll", "rebind", "waitstart"}
        /\ \A q \in Proc : q # p => prep'[q] = prep[q]
        /\ UNCHANGED <<proc, flow, reg, lock, sock, todo, target, tids, tool, listed>>
    BY <1>0, <1>9 DEF LeavePoll, Rebind, ReceiveStart, PrepGoto, toolVars, TypeOK
  <2> QED BY <1>0, <2>1
<1>10. CASE Convert(p)
  <2>1. /\ prep[p] = "convert" /\ prep'[p] = "reopen" /\ todo'[p] = Vic
        /\ \A q \in Proc : q # p => prep'[q] = prep[q] /\ todo'[q] = todo[q]
        /\ UNCHANGED <<proc, flow, reg, lock, sock, target, tids, tool, listed>>
    BY <1>0, <1>10 DEF Convert, PrepGoto, toolVars, TypeOK
  <2> QED BY <1>0, <2>1
<1>11. ASSUME NEW v \in Vic, Reopen(p, v) PROVE LockInv'
  <2>1. /\ prep[p] = "reopen" /\ prep' = prep /\ proc[p] = "up"
        /\ todo'[p] = todo[p] \ {v}
        /\ \A q \in Proc : q # p => todo'[q] = todo[q]
        /\ UNCHANGED <<proc, flow, reg, target, tids, tool, listed>>
    BY <1>0, <1>11 DEF Reopen, PrepGoto, toolVars, TypeOK
  <2>2. \A q \in Proc, u \in Vic : ~(q = p /\ u = v) =>
            lock'[q][u] = lock[q][u] /\ sock'[q][u] = sock[q][u]
    BY <1>0, <1>11 DEF Reopen, TypeOK
  <2>3. IF reg[p][v] = "executing"
        THEN /\ sock'[p][v] = IF p = v THEN "open" ELSE sock[p][v]
             /\ lock'[p][v] = IF lock[p][v] = "prep" THEN "free" ELSE lock[p][v]
        ELSE sock'[p][v] = sock[p][v] /\ lock'[p][v] = lock[p][v]
    BY <1>0, <1>11 DEF Reopen, TypeOK
  <2>4. tool = "done"
    BY <1>0, <2>1 DEF Stage, ToolState, TypeOK, Proc
  <2>5. HeldIsReported'
    BY <1>0, <2>1, <2>2, <2>3
  <2>6. \A q \in Proc, u \in Vic : lock'[q][u] = "prep" => lock[q][u] = "prep"
    BY <1>0, <2>2, <2>3
  <2>8. TargetRegistered'
    BY <1>0, <2>1, <2>6
  <2>7. LockGuardsSockets'
    BY <1>0, <2>1, <2>2, <2>3, <2>4
  <2> QED BY <2>5, <2>8, <2>7
<1>12. CASE FinishSplit(p)
  <2>1. /\ prep[p] = "reopen" /\ prep'[p] = "listen" /\ todo[p] = {}
        /\ \A q \in Proc : q # p => prep'[q] = prep[q]
        /\ \A q \in Proc, u \in Vic : lock'[q][u] = lock[q][u] /\ sock'[q][u] = sock[q][u]
        /\ UNCHANGED <<proc, flow, reg, todo, target, tids, tool, listed>>
    BY <1>0, <1>12 DEF FinishSplit, PrepGoto, toolVars, TypeOK
  <2> QED BY <1>0, <2>1
<1> QED BY <1>1, <1>2, <1>3, <1>4, <1>5, <1>6, <1>7, <1>8, <1>9, <1>10, <1>11, <1>12
        DEF PrepNext

\* The split leaves a held flow in one place: its own process.
LEMMA LockTool == IInv /\ ToolNext => LockInv'
<1> SUFFICES ASSUME IInv, ToolNext PROVE LockInv'
    OBVIOUS
<1>0. /\ TypeOK /\ Stage /\ LockInv
      /\ Main \in Proc /\ Main \notin Vic /\ \A v \in Vic : v \in Proc
    BY VicAssumption DEF IInv, LockInv, Proc
<1> USE DEF LockInv, HeldIsReported, TargetRegistered, LockGuardsSockets, Held, Active
<1>1. CASE RunTool
    BY <1>0, <1>1 DEF RunTool, ToolGoto, memory
<1>2. CASE SendStart
    BY <1>0, <1>2 DEF SendStart, ToolGoto, memory
<1>3. CASE DumpFails
  <2>1. /\ tool' = "failed" /\ proc' = [proc EXCEPT ![Main] = "exited"]
        /\ UNCHANGED <<flow, reg, lock, sock, prep, todo, target, tids, listed>>
    BY <1>3 DEF DumpFails, ToolGoto, memory
  <2>2. \A q \in Proc : proc'[q] = "up" => proc[q] = "up"
    BY <1>0, <2>1 DEF TypeOK
  <2> QED BY <1>0, <2>1, <2>2
<1>4. CASE Dump
  <2>1. /\ tool = "dump" /\ tool' = "start" /\ listed' = listed /\ Main \notin listed
        /\ proc[Main] = "up" /\ \A q \in Proc : proc[q] = "up" => q = Main
        /\ prep[Main] \in {"poll", "rebind", "waitstart"}
    BY <1>0, <1>4 DEF Dump, ToolGoto, Stage, TypeOK, Proc
  <2>2. \A q \in Proc \ listed :
           /\ UNCHANGED <<proc[q], reg[q], lock[q], sock[q], prep[q], todo[q], target[q], tids[q]>>
           /\ \A u \in Vic : flow'[q][u] = IF u \in listed THEN "none" ELSE flow[q][u]
    BY <1>0, <1>4 DEF Dump, Copied, SplitThreads
  <2>3. \A q \in listed :
           /\ reg'[q] = reg[Main] /\ lock'[q] = lock[Main] /\ sock'[q] = sock[Main]
           /\ prep'[q] = prep[Main] /\ todo'[q] = todo[Main] /\ target'[q] = target[Main]
           /\ tids'[q] = tids[Main] /\ q \in Proc /\ q # Main
           /\ \A u \in Vic : flow'[q][u] = IF u \in listed /\ u # q THEN "none" ELSE flow[Main][u]
    BY <1>0, <1>4 DEF Dump, Copied, SplitThreads, TypeOK, Proc
  <2>4. \A u \in Vic : Held(Main, u) => u \in listed /\ reg[Main][u] = "executing"
    BY <1>0, <2>1
  <2>5. \A q \in Proc, u \in Vic : Active(q, u)' => Active(Main, u)
    BY <2>1, <2>2, <2>3
  <2>6. HeldIsReported'
    BY <1>0, <2>1, <2>2, <2>3, <2>4, <2>5
  <2>7. TargetRegistered'
    BY <1>0, <2>1, <2>2, <2>3
  <2>8. LockGuardsSockets'
    BY <1>0, <2>1, <2>2, <2>3
  <2> QED BY <2>6, <2>7, <2>8
<1> QED BY <1>1, <1>2, <1>3, <1>4 DEF ToolNext

\* No preparation thread holds the main lock outside the transformation.
LEMMA MainLockStep == TypeOK /\ MainLockHeld /\ Stage /\ [Next]_vars => MainLockHeld'
<1> SUFFICES ASSUME TypeOK, MainLockHeld, Stage, [Next]_vars PROVE MainLockHeld'
    OBVIOUS
<1>0. Main \in Proc /\ Main \notin Vic /\ \A v \in Vic : v \in Proc
    BY VicAssumption DEF Proc
<1> USE DEF MainLockHeld
<1>1. CASE UNCHANGED <<proc, prep, lock>>
    BY <1>1
<1>2. CASE MainNext
  <2>1. proc' = proc /\ prep' = prep
    BY <1>2 DEF MainNext, StartThread, BeginWait, WaitLock, WaitBlock, WaitPoll, memory, toolVars
  <2>2. \/ lock' = lock
        \/ lock' = [lock EXCEPT ![Main][Main] = "user"]
        \/ lock' = [lock EXCEPT ![Main][Main] = "free"]
    BY <1>2 DEF MainNext, StartThread, BeginWait, WaitLock, WaitBlock, WaitPoll, memory
  <2>3. \A p \in Proc : lock'[p][Main] = "prep" => lock[p][Main] = "prep"
    <3>1. CASE lock' = lock
      BY <3>1
    <3>2. CASE lock' = [lock EXCEPT ![Main][Main] = "user"]
      BY <1>0, <3>2 DEF TypeOK
    <3>3. CASE lock' = [lock EXCEPT ![Main][Main] = "free"]
      BY <1>0, <3>3 DEF TypeOK
    <3> QED BY <2>2, <3>1, <3>2, <3>3
  <2> QED BY <2>1, <2>3
<1>3. ASSUME NEW p \in Proc, NEW v \in Vic, FlowNext(p, v) PROVE MainLockHeld'
  <2>1. /\ prep' = prep
        /\ \/ proc' = proc
           \/ proc' = [proc EXCEPT ![p] = "exited"]
        /\ \/ lock' = lock
           \/ lock' = [lock EXCEPT ![p][v] = "user"]
           \/ lock' = [lock EXCEPT ![p][v] = "free"]
    BY <1>3 DEF FlowNext, ReadPid, Register, Enter, Leave, Return, ReturnThread,
                ReturnProcess, ExitThread, ExitProcess, memory, toolVars
  <2>2. \A q \in Proc : lock'[q][Main] = lock[q][Main]
    <3>1. CASE lock' = lock
      BY <3>1
    <3>2. CASE lock' = [lock EXCEPT ![p][v] = "user"]
      BY <1>0, <3>2 DEF TypeOK
    <3>3. CASE lock' = [lock EXCEPT ![p][v] = "free"]
      BY <1>0, <3>3 DEF TypeOK
    <3> QED BY <2>1, <3>1, <3>2, <3>3
  <2>3. \A q \in Proc : proc'[q] = "up" => proc[q] = "up"
    BY <2>1 DEF TypeOK
  <2> QED BY <2>1, <2>2, <2>3
<1>4. ASSUME NEW p \in Proc, PrepNext(p) PROVE MainLockHeld'
  <2>1. CASE LockMain(p) \/ FinishSplit(p)
    <3>1. /\ \A q \in Proc : q # p => prep'[q] = prep[q] /\ lock'[q] = lock[q]
          /\ \/ prep'[p] = "check"
             \/ prep'[p] = "listen" /\ lock'[p][Main] = "free"
          /\ proc' = proc
      BY <1>0, <2>1 DEF LockMain, FinishSplit, PrepGoto, TypeOK, toolVars
    <3> QED BY <3>1
  <2>2. CASE Acquire(p)
    <3>1. /\ proc' = proc /\ prep' = [prep EXCEPT ![p] = "check"]
          /\ lock' = [lock EXCEPT ![p][target[p]] = "prep"] /\ target[p] \in Vic
      BY <2>2 DEF Acquire, PrepGoto, TypeOK, toolVars
    <3> QED BY <1>0, <3>1 DEF TypeOK
  <2>3. ASSUME NEW v \in Vic, Reopen(p, v) PROVE MainLockHeld'
    <3>1. proc' = proc /\ prep' = prep
      BY <2>3 DEF Reopen, PrepGoto, TypeOK, toolVars
    <3>2. \/ lock' = lock
          \/ lock' = [lock EXCEPT ![p][v] = IF @ = "prep" THEN "free" ELSE @]
      BY <2>3 DEF Reopen
    <3>3. \A q \in Proc : lock'[q][Main] = lock[q][Main]
      <4>1. lock \in [Proc -> [Proc -> {"free", "prep", "user"}]]
        BY DEF TypeOK
      <4>2. CASE lock' = lock
        BY <4>2
      <4>3. CASE lock' = [lock EXCEPT ![p][v] = IF @ = "prep" THEN "free" ELSE @]
        BY <1>0, <4>1, <4>3
      <4> QED BY <3>2, <4>2, <4>3
    <3> QED BY <3>1, <3>3
  <2>4. CASE \/ PrepLaunch(p) \/ PrepTerminate(p) \/ ReceivePrepare(p)
             \/ \E v \in Vic : Check(p, v) \/ Collect(p, v)
             \/ CountThreads(p) \/ Report(p) \/ LeavePoll(p) \/ Rebind(p)
             \/ ReceiveStart(p) \/ Convert(p)
    <3>1. /\ proc' = proc /\ lock' = lock
          /\ \A q \in Proc : q # p => prep'[q] = prep[q]
          /\ prep[p] \in {"launch", "listen"}
             \/ prep'[p] \notin {"launch", "listen", "lockmain", "gone"}
      BY <2>4 DEF PrepLaunch, PrepTerminate, ReceivePrepare, Check, Collect, CountThreads,
             Report, LeavePoll, Rebind, ReceiveStart, Convert, PrepGoto, TypeOK, toolVars
    <3>2. proc[p] = "up"
      BY <2>4 DEF PrepLaunch, PrepTerminate, ReceivePrepare, Check, Collect, CountThreads,
             Report, LeavePoll, Rebind, ReceiveStart, Convert, PrepGoto
    <3> QED BY <3>1, <3>2
  <2> QED BY <1>4, <2>1, <2>2, <2>3, <2>4 DEF PrepNext
<1>5. CASE ToolNext
  <2>1. CASE Dump
    <3>1. /\ Main \notin listed /\ tool = "dump" /\ proc[Main] = "up"
          /\ prep[Main] \in {"poll", "rebind", "waitstart"}
          /\ \A q \in Proc : IF q \in listed
                             THEN prep'[q] = prep[Main]
                             ELSE UNCHANGED <<proc[q], prep[q], lock[q]>>
      BY <1>0, <2>1 DEF Dump, ToolGoto, Copied, Stage, TypeOK
    <3> QED BY <3>1
  <2>2. CASE RunTool \/ SendStart
    BY <1>1, <2>2 DEF RunTool, SendStart, memory
  <2>3. CASE DumpFails
    BY <1>0, <2>3 DEF DumpFails, memory, TypeOK
  <2> QED BY <1>5, <2>1, <2>2, <2>3 DEF ToolNext
<1>6. CASE UNCHANGED vars
    BY <1>1, <1>6 DEF vars, memory, toolVars
<1> QED BY <1>2, <1>3, <1>4, <1>5, <1>6 DEF Next

\* Every step of the program, the preparation threads and the tool preserves
\* the inductive invariant.
LEMMA StepIInv == IInv /\ [Next]_vars => IInv'
<1> SUFFICES ASSUME IInv, [Next]_vars PROVE IInv'
    OBVIOUS
<1>1. TypeOK' /\ HomeInMain' /\ Stage' /\ MainLockHeld'
    BY TypeStep, HomeStep, StageStep, MainLockStep DEF IInv
<1>2. LockInv'
  <2>1. CASE UNCHANGED vars
    BY <2>1 DEF IInv, LockInv, HeldIsReported, TargetRegistered, LockGuardsSockets,
                Held, Active, vars, memory, toolVars
  <2>2. CASE Next
    BY <2>2, LockMainThread, LockFlow, LockPrep, LockTool DEF Next
  <2> QED BY <2>1, <2>2
<1> QED BY <1>1, <1>2 DEF IInv, LockInv

\* The inductive invariant holds of every behaviour.
THEOREM Inductive == Spec => []IInv
<1> QED BY InitIInv, StepIInv, PTL DEF Spec

\* A flow in the middle of a send or a receive always has its sockets, before,
\* during and after a split, whichever process it is in.
THEOREM SocketsOpen == Spec => []SocketsOpenInCriticalSection
<1>1. IInv => SocketsOpenInCriticalSection
  <2> SUFFICES ASSUME IInv, NEW p \in Proc, NEW v \in Vic,
                      Active(p, v), flow[p][v] = "critical"
               PROVE  sock[p][v] = "open"
    BY DEF SocketsOpenInCriticalSection
  <2>1. lock[p][v] = "user" /\ sock[p][v] # "closed"
    BY DEF IInv, LockGuardsSockets
  <2>2. v \in Proc /\ sock[p][v] \in {"closed", "open"}
    BY DEF IInv, TypeOK, Proc
  <2> QED BY <2>1, <2>2
<1> QED BY <1>1, Inductive, PTL

\* A process that is through with a split has left no running flow locked.
THEOREM NothingLeftLocked == Spec => []NoFlowLeftLocked
<1>1. IInv => NoFlowLeftLocked
    BY DEF IInv, NoFlowLeftLocked, HeldIsReported, Held, MainLockHeld
<1> QED BY <1>1, Inductive, PTL
=============================================================================
