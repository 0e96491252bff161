-------------------------- MODULE VicSplitMigration --------------------------
(***************************************************************************)
(* VicSplit implements Migration, and with it the safety properties that   *)
(* need every flow to have registered before the tool is run: for any      *)
(* finite number of flows, whenever routines return.                       *)
(***************************************************************************)
EXTENDS VicSplitProofs

-----------------------------------------------------------------------------
(* The invariant, on top of the one in VicSplitProofs.                     *)

EarlyKnown == tool = "idle" => ~early

\* The states of a thread that has left its routine.
Ended == {"returned", "leaving", "ending", "exited"}

\* A flow's entry in vic_list says what its thread in the same process does.
FlowRecord ==
    \A p \in Proc, v \in Vic :
        /\ flow[p][v] = "created" => reg[p][v] = "idle"
        /\ flow[p][v] \in {"running", "critical"} => reg[p][v] = "executing"
        /\ flow[p][v] \in Ended => reg[p][v] = "finished"

\* Until the dump all threads are Main's; only a started flow is registered,
\* and only a registered one is collected.
OneProcess ==
    tool \notin {"start", "done"} =>
        /\ \A p, v \in Vic : flow[p][v] = "none"
        /\ \A v \in Vic : flow[Main][v] = "none" => reg[Main][v] = "idle"
        /\ \A v \in tids[Main] \cup listed : flow[Main][v] # "none"

\* Unless the tool was run too early, no flow starts while it works.
AllRegistered ==
    ~early /\ tool # "idle" =>
        \A p \in Proc : proc[p] = "up" => \A v \in Vic : reg[p][v] # "idle"

\* A flow in its routine that the locking loop has passed is locked.
VisitedHeld ==
    ~early /\ tool \in {"listing", "dump"} => \A v \in Vic : Active(Main, v) =>
        \/ prep[Main] = "lockmain"
        \/ prep[Main] \in {"check", "acquire"} /\ v \in todo[Main]
        \/ prep[Main] = "acquire" /\ target[Main] = v
        \/ lock[Main][v] = "prep"

\* A process's records are those of threads until it converts them, and those
\* of processes when it is through.
Kinds ==
    \A p \in Proc : proc[p] = "up" => \A v \in Vic :
        /\ tool # "done" => abstr[p][v] = "thread"
        /\ tool = "done" /\ prep[p] \in {"reopen", "listen", "gone"} => abstr[p][v] = "process"

\* The main thread polls with the main lock, and the preparation works with it.
MainThreadLock ==
    /\ main \in {"polling", "blocked"} => lock[Main][Main] = "user"
    /\ prep[Main] \notin {"launch", "listen", "lockmain", "gone"} => lock[Main][Main] = "prep"

\* After the dump a listed flow is in its process only; the others are over.
SplitPlaces ==
    ~early /\ tool \in {"start", "done"} => \A v \in Vic :
        IF v \in listed
        THEN flow[v][v] # "none" /\ \A p \in Proc \ {v} : flow[p][v] = "none"
        ELSE flow[Main][v] # "none" /\ \A p \in Proc : flow[p][v] \in Ended \cup {"none"}

\* The thread of a process that the split made started in the program.
Strangers ==
    ~early => \A p, v \in Vic : flow[p][v] \notin {"none", "exited"} => home[p][v] = Main

\* A preparation thread is asked to terminate by the flow of its process, or by
\* a straggler.
Ending ==
    /\ ~terminate[Main]
    /\ \A p \in Proc : prep[p] = "gone" => terminate[p]
    /\ ~early /\ ~Straggler => \A p \in Proc, v \in Vic : terminate[p] => ~Active(p, v)

SplitInv ==
    /\ EarlyKnown /\ FlowRecord /\ OneProcess /\ AllRegistered /\ VisitedHeld
    /\ Kinds /\ MainThreadLock /\ SplitPlaces /\ Strangers /\ Ending

-----------------------------------------------------------------------------
\* The program starts in the invariant.
LEMMA SplitInit == Init => SplitInv
<1> SUFFICES ASSUME Init PROVE SplitInv
    OBVIOUS
<1>0. Main \in Proc /\ Main \notin Vic /\ \A v \in Vic : v \in Proc
    BY VicAssumption DEF Proc
<1>1. EarlyKnown /\ FlowRecord /\ AllRegistered /\ VisitedHeld /\ SplitPlaces
    BY DEF Init, EarlyKnown, FlowRecord, AllRegistered, VisitedHeld, SplitPlaces, Ended
<1>2. OneProcess /\ Kinds /\ MainThreadLock
    BY <1>0 DEF Init, OneProcess, Kinds, MainThreadLock
<1>3. Strangers /\ Ending
    BY <1>0 DEF Init, Strangers, Ending, Active
<1> QED BY <1>1, <1>2, <1>3 DEF SplitInv

\* What the invariant does not mention may change.
LEMMA SplitStutter ==
    ASSUME SplitInv,
           UNCHANGED <<proc, flow, home, reg, abstr, lock, terminate, prep, todo, target, tids,
                       tool, listed, early, main>>
    PROVE  SplitInv'
BY DEF SplitInv, EarlyKnown, FlowRecord, OneProcess, AllRegistered, VisitedHeld, Kinds,
       MainThreadLock, SplitPlaces, Strangers, Ending, Straggler, Active

\* A flow is started before the tool is run, or the tool was run too early.
LEMMA SplitStart ==
    ASSUME IInv, SplitInv, NEW v \in Vic, StartThread(v) PROVE SplitInv'
<1>0. /\ TypeOK /\ Stage /\ SplitInv
      /\ Main \in Proc /\ Main \notin Vic /\ \A u \in Vic : u \in Proc
    BY VicAssumption DEF IInv, Proc
<1>1. /\ flow'[Main][v] = "created" /\ flow[Main][v] = "none" /\ reg[Main][v] = "idle"
      /\ proc[Main] = "up"
      /\ \A p \in Proc, u \in Vic : ~(p = Main /\ u = v) => flow'[p][u] = flow[p][u]
      /\ UNCHANGED <<proc, home, reg, abstr, lock, terminate, prep, todo, target, tids,
                     tool, listed, early, main>>
    BY <1>0 DEF StartThread, toolVars, TypeOK
<1>2. early \/ tool = "idle"
    BY <1>0, <1>1 DEF SplitInv, AllRegistered
<1>3. EarlyKnown' /\ AllRegistered' /\ Kinds' /\ MainThreadLock'
    BY <1>0, <1>1 DEF SplitInv, EarlyKnown, AllRegistered, Kinds, MainThreadLock
<1>4. FlowRecord'
    BY <1>0, <1>1 DEF SplitInv, FlowRecord, Ended
<1>5. OneProcess'
  <2>1. tids[Main] \cup listed \subseteq Vic
    BY <1>0 DEF TypeOK
  <2>2. \A p, u \in Vic : flow'[p][u] = flow[p][u]
    BY <1>0, <1>1
  <2>3. \A u \in Vic : flow'[Main][u] = "none" => flow[Main][u] = "none"
    BY <1>0, <1>1
  <2>4. \A u \in Vic : flow[Main][u] # "none" => flow'[Main][u] # "none"
    BY <1>0, <1>1
  <2> QED BY <1>0, <1>1, <2>1, <2>2, <2>3, <2>4 DEF SplitInv, OneProcess
<1>6. VisitedHeld' /\ SplitPlaces'
    BY <1>1, <1>2 DEF VisitedHeld, SplitPlaces
<1>7. Strangers' /\ Ending'
  <2>1. \A p, u \in Vic : flow'[p][u] = flow[p][u]
    BY <1>0, <1>1
  <2>2. Straggler' <=> Straggler
    BY <2>1 DEF Straggler
  <2>3. Strangers'
    BY <1>0, <1>1, <2>1 DEF SplitInv, Strangers
  <2>4. Ending'
    BY <1>0, <1>1, <2>2 DEF SplitInv, Ending, Active
  <2> QED BY <2>3, <2>4
<1> QED BY <1>3, <1>4, <1>5, <1>6, <1>7 DEF SplitInv

\* The main thread takes and releases its own lock.
LEMMA SplitWait ==
    ASSUME IInv, SplitInv,
           \/ WaitLock \/ WaitBlock \/ WaitPoll \/ \E v \in Vic : BeginWait(v)
    PROVE  SplitInv'
<1>0. /\ TypeOK /\ SplitInv
      /\ Main \in Proc /\ Main \notin Vic /\ \A u \in Vic : u \in Proc
    BY VicAssumption DEF IInv, Proc
<1>1. UNCHANGED <<proc, flow, home, reg, abstr, terminate, prep, todo, target, tids,
                  tool, listed, early>>
    BY DEF BeginWait, WaitLock, WaitBlock, WaitPoll, memory, toolVars
<1>2. /\ \A v \in Vic : lock'[Main][v] = lock[Main][v]
      /\ MainThreadLock'
  <2>1. CASE WaitLock
    <3>1. /\ lock[Main][Main] = "free" /\ lock'[Main][Main] = "user"
          /\ \A v \in Vic : lock'[Main][v] = lock[Main][v]
      BY <1>0, <2>1 DEF WaitLock, TypeOK
    <3> QED BY <1>0, <1>1, <3>1 DEF SplitInv, MainThreadLock
  <2>2. CASE WaitPoll
    <3>1. /\ lock[Main][Main] = "user" /\ main' \in {"idle", "sleeping"}
          /\ \A v \in Vic : lock'[Main][v] = lock[Main][v]
      BY <1>0, <2>2 DEF WaitPoll, TypeOK, SplitInv, MainThreadLock
    <3> QED BY <1>0, <1>1, <3>1 DEF SplitInv, MainThreadLock
  <2>3. CASE WaitBlock
    BY <1>0, <2>3 DEF WaitBlock, memory, SplitInv, MainThreadLock
  <2>4. CASE \E v \in Vic : BeginWait(v)
    BY <1>0, <2>4 DEF BeginWait, memory, SplitInv, MainThreadLock
  <2> QED BY <2>1, <2>2, <2>3, <2>4
<1>3. EarlyKnown' /\ FlowRecord' /\ OneProcess' /\ AllRegistered' /\ Kinds' /\ SplitPlaces'
    BY <1>0, <1>1 DEF SplitInv, EarlyKnown, FlowRecord, OneProcess, AllRegistered, Kinds,
       SplitPlaces
<1>4. VisitedHeld' /\ Strangers' /\ Ending'
    BY <1>0, <1>1, <1>2 DEF SplitInv, VisitedHeld, Strangers, Ending, Straggler, Active
<1> QED BY <1>2, <1>3, <1>4 DEF SplitInv

\* What any step of a flow does: its own thread goes on, its record follows.
FlowEffect(p, v) ==
    /\ UNCHANGED <<abstr, prep, todo, target, tids, tool, listed, early, main>>
    /\ proc[p] = "up" /\ \A q \in Proc : proc'[q] = "up" => proc[q] = "up"
    /\ proc'[Main] = proc[Main]
    /\ \A q \in Proc, u \in Vic : ~(q = p /\ u = v) =>
          flow'[q][u] = flow[q][u] /\ reg'[q][u] = reg[q][u]
    /\ flow[p][v] # "none" /\ flow'[p][v] # "none"
    /\ \/ flow'[p][v] = "created" /\ flow[p][v] = "created" /\ reg'[p][v] = reg[p][v]
       \/ flow'[p][v] \in {"running", "critical"} /\ reg'[p][v] = "executing"
       \/ flow'[p][v] \in Ended /\ reg'[p][v] = "finished"
    /\ flow[p][v] \in {"created", "running", "critical"} \/ flow'[p][v] \in Ended
    /\ flow[p][v] # "exited"
    /\ flow[p][v] = "ending" => flow'[p][v] = "ending"
    /\ flow[p][v] = "returned" /\ home[p][v] # p => flow'[p][v] = "ending"
    /\ \A q \in Proc, u \in Vic :
          ~(q = p /\ u = v /\ flow[p][v] = "created") => home'[q][u] = home[q][u]
    /\ \A q \in Proc, x \in Proc : lock'[q][x] = "prep" <=> lock[q][x] = "prep"
    /\ lock'[Main][Main] = lock[Main][Main]

\* It is what every step of a flow does.
LEMMA FlowEffects ==
    ASSUME IInv, SplitInv, NEW p \in Proc, NEW v \in Vic, FlowNext(p, v)
    PROVE  FlowEffect(p, v)
<1>0. /\ TypeOK /\ v \in Proc /\ v # Main /\ Main \in Proc
      /\ flow[p][v] \in {"running", "critical"} => reg[p][v] = "executing"
      /\ flow[p][v] \in Ended => reg[p][v] = "finished"
    BY VicAssumption DEF IInv, Proc, SplitInv, FlowRecord
<1> USE DEF Ended
<1>1. CASE Register(p, v)
    BY <1>0, <1>1 DEF FlowEffect, Register, FlowStep, TypeOK, mainVars, toolVars
<1>2. CASE Enter(p, v)
    BY <1>0, <1>2 DEF FlowEffect, Enter, FlowStep, TypeOK, mainVars, toolVars
<1>3. CASE Leave(p, v)
  <2>1. lock[p][v] = "user"
    BY <1>3 DEF Leave, FlowStep, IInv, LockGuardsSockets, Active
  <2> QED BY <1>0, <1>3, <2>1 DEF FlowEffect, Leave, FlowStep, TypeOK, mainVars, toolVars
<1>4. CASE Return(p, v)
    BY <1>0, <1>4 DEF FlowEffect, Return, FlowStep, TypeOK, mainVars, toolVars
<1>5. CASE ExitThread(p, v)
    BY <1>0, <1>5 DEF FlowEffect, ExitThread, FlowStep, TypeOK, mainVars, toolVars
<1>6. CASE ExitProcess(p, v)
  <2>1. p # Main
    BY <1>6 DEF ExitProcess, IInv, HomeInMain
  <2> QED BY <1>0, <1>6, <2>1 DEF FlowEffect, ExitProcess, memory, TypeOK, mainVars
<1>7. CASE ReadPid(p, v)
    BY <1>0, <1>7 DEF FlowEffect, ReadPid, TypeOK, mainVars, toolVars
<1>8. CASE ReturnThread(p, v)
    BY <1>0, <1>8 DEF FlowEffect, ReturnThread, FlowStep, TypeOK, mainVars, toolVars
<1>9. CASE ReturnProcess(p, v)
    BY <1>0, <1>9 DEF FlowEffect, ReturnProcess, FlowStep, TypeOK, mainVars, toolVars
<1> QED BY <1>1, <1>2, <1>3, <1>4, <1>5, <1>6, <1>7, <1>8, <1>9 DEF FlowNext

\* A thread of the program that is not at home ends its process.
LEMMA StragglerFlow ==
    ASSUME IInv, SplitInv, ~early, Straggler, NEW p \in Proc, NEW v \in Vic, FlowNext(p, v)
    PROVE  Straggler'
<1>1. PICK q \in Vic, u \in Vic : u # q /\ flow[q][u] \in {"returned", "ending"}
    BY DEF Straggler
<1>2. home[q][u] # q /\ q \in Proc
    BY <1>1, VicAssumption DEF SplitInv, Strangers, Proc
<1>3. flow'[q][u] \in {"returned", "ending"}
    BY <1>1, <1>2, FlowEffects DEF FlowEffect
<1> QED BY <1>1, <1>3 DEF Straggler

\* Only the flow of a process made by the split asks for its preparation's end.
LEMMA EndingFlow ==
    ASSUME IInv, SplitInv, NEW p \in Proc, NEW v \in Vic, FlowNext(p, v)
    PROVE  Ending'
<1>0. /\ TypeOK /\ Stage /\ HomeInMain /\ Ending /\ FlowEffect(p, v)
      /\ \A q \in Proc, u \in Vic : Active(q, u)' => Active(q, u)
  <2>1. FlowEffect(p, v)
    BY FlowEffects
  <2>2. \A q \in Proc, u \in Vic : Active(q, u)' => Active(q, u)
    BY <2>1 DEF FlowEffect, Active, Ended
  <2> QED BY <2>1, <2>2 DEF IInv, SplitInv
<1>1. CASE terminate' = terminate
    BY <1>0, <1>1, StragglerFlow DEF Ending, FlowEffect
<1>2. CASE ReturnProcess(p, v)
  <2>1. /\ flow[p][v] = "returned" /\ flow'[p][v] = "ending" /\ home[p][v] # p
        /\ terminate'[p] /\ \A q \in Proc \ {p} : terminate'[q] = terminate[q]
        /\ proc[p] = "up" /\ prep' = prep /\ early' = early
    BY <1>0, <1>2 DEF ReturnProcess, FlowStep, TypeOK, toolVars
  <2>2. p # Main
    BY <2>1 DEF IInv, HomeInMain
  <2>3. p \in Vic /\ tool \in {"start", "done"}
    BY <1>0, <2>1, <2>2 DEF Stage, Proc
  <2>4. ~early /\ ~Straggler' => \A u \in Vic : ~Active(p, u)'
    <3> SUFFICES ASSUME ~early, ~Straggler', NEW u \in Vic, Active(p, u)' PROVE FALSE
      OBVIOUS
    <3>1. v = p
      BY <2>1, <2>3 DEF Straggler
    <3>2. Active(p, u)
      BY <1>0
    <3>3. u = p
      BY <2>3, <3>2 DEF Active, SplitInv, SplitPlaces, Ended
    <3> QED BY <2>1, <3>1, <3>2, <3>3 DEF Active
  <2>5. \A q \in Proc \ {p}, u \in Vic :
           ~early /\ ~Straggler' /\ terminate'[q] => ~Active(q, u)'
    BY <1>0, <2>1, StragglerFlow DEF Ending
  <2>6. ~terminate'[Main] /\ \A q \in Proc : prep'[q] = "gone" => terminate'[q]
    BY <1>0, <2>1, <2>2, VicAssumption DEF Ending, Proc
  <2> QED BY <2>1, <2>4, <2>5, <2>6 DEF Ending
<1>3. terminate' = terminate \/ ReturnProcess(p, v)
    BY DEF FlowNext, ReadPid, Register, Enter, Leave, Return, ReturnThread, ExitThread,
           ExitProcess, memory
<1> QED BY <1>1, <1>2, <1>3

\* The steps of a flow.
LEMMA SplitFlow ==
    ASSUME IInv, SplitInv, NEW p \in Proc, NEW v \in Vic, FlowNext(p, v)
    PROVE  SplitInv'
<1>0. /\ TypeOK /\ Stage /\ SplitInv /\ FlowEffect(p, v)
      /\ Main \in Proc /\ Main \notin Vic /\ \A u \in Vic : u \in Proc
    BY VicAssumption, FlowEffects DEF IInv, Proc
<1>1. EarlyKnown' /\ Kinds' /\ MainThreadLock'
    BY <1>0 DEF SplitInv, EarlyKnown, Kinds, MainThreadLock, FlowEffect
<1>2. FlowRecord'
    BY <1>0 DEF SplitInv, FlowRecord, FlowEffect, Ended
<1>3. OneProcess'
  <2> SUFFICES ASSUME tool \notin {"start", "done"} PROVE OneProcess'
    BY <1>0 DEF FlowEffect, OneProcess
  <2>1. p = Main /\ tids[Main] \cup listed \subseteq Vic
    BY <1>0 DEF SplitInv, OneProcess, FlowEffect, Proc, TypeOK
  <2>2. /\ \A q, u \in Vic : flow'[q][u] = "none"
        /\ \A u \in Vic : flow'[Main][u] = "none" => reg'[Main][u] = "idle"
    BY <1>0, <2>1 DEF SplitInv, OneProcess, FlowEffect
  <2>3. \A u \in tids[Main] \cup listed : flow'[Main][u] # "none"
    BY <1>0, <2>1 DEF SplitInv, OneProcess, FlowEffect
  <2>4. UNCHANGED <<tids, listed>>
    BY <1>0 DEF FlowEffect
  <2> QED BY <2>2, <2>3, <2>4 DEF OneProcess
<1>4. AllRegistered'
    BY <1>0 DEF SplitInv, AllRegistered, FlowEffect
<1>5. VisitedHeld'
    BY <1>0 DEF SplitInv, VisitedHeld, FlowEffect, Active, Ended
<1>6. SplitPlaces'
    BY <1>0 DEF SplitInv, SplitPlaces, FlowEffect, Ended
<1>7. Ending'
    BY EndingFlow
<1>8. Strangers'
  <2>1. ~early => p = Main \/ flow[p][v] # "created"
    <3>1. CASE tool \in {"start", "done"}
      BY <1>0, <3>1 DEF SplitInv, AllRegistered, FlowRecord, FlowEffect
    <3>2. CASE tool \notin {"start", "done"}
      BY <1>0, <3>2 DEF SplitInv, OneProcess, FlowEffect, Proc
    <3> QED BY <3>1, <3>2
  <2> QED BY <1>0, <2>1 DEF SplitInv, Strangers, FlowEffect
<1> QED BY <1>1, <1>2, <1>3, <1>4, <1>5, <1>6, <1>7, <1>8 DEF SplitInv

\* What any step of a preparation thread leaves alone, and how it moves the tool.
PrepEffect(p) ==
    /\ UNCHANGED <<proc, flow, home, reg, terminate, early, main>> /\ proc[p] = "up"
    /\ \A q \in Proc \ {p} :
          UNCHANGED <<prep[q], lock[q], abstr[q], todo[q], target[q], tids[q]>>
    /\ \A v \in tids'[p] : v \in tids[p] \/ reg[p][v] = "executing"
    /\ prep'[p] = "gone" => prep[p] = "gone" \/ terminate[p]
    /\ \/ UNCHANGED <<tool, listed>>
       \/ tool = "prepare" /\ tool' = "listing" /\ listed' = listed /\ p = Main
       \/ tool = "listing" /\ tool' = "dump" /\ listed' = tids[p] /\ tids' = tids

\* It is what every step of a preparation thread leaves alone.
LEMMA PrepEffects ==
    ASSUME IInv, NEW p \in Proc, PrepNext(p) PROVE PrepEffect(p)
<1>0. TypeOK
    BY DEF IInv
<1>1. CASE PrepLaunch(p) \/ PrepTerminate(p)
    BY <1>0, <1>1 DEF PrepEffect, PrepLaunch, PrepTerminate, PrepGoto, TypeOK, mainVars, toolVars
<1>2. CASE ReceivePrepare(p)
    BY <1>0, <1>2 DEF PrepEffect, ReceivePrepare, PrepGoto, TypeOK, mainVars
<1>3. CASE LockMain(p)
    BY <1>0, <1>3 DEF PrepEffect, LockMain, PrepGoto, TypeOK, mainVars, toolVars
<1>4. ASSUME NEW v \in Vic, Check(p, v) PROVE PrepEffect(p)
    BY <1>0, <1>4 DEF PrepEffect, Check, PrepGoto, TypeOK, mainVars, toolVars
<1>5. ASSUME NEW v \in Vic, Collect(p, v) PROVE PrepEffect(p)
    BY <1>0, <1>5 DEF PrepEffect, Collect, PrepGoto, TypeOK, mainVars, toolVars
<1>6. ASSUME NEW v \in Vic, Reopen(p, v) PROVE PrepEffect(p)
    BY <1>0, <1>6 DEF PrepEffect, Reopen, PrepGoto, TypeOK, mainVars, toolVars
<1>7. CASE Acquire(p)
    BY <1>0, <1>7 DEF PrepEffect, Acquire, PrepGoto, TypeOK, mainVars, toolVars
<1>8. CASE CountThreads(p)
    BY <1>0, <1>8 DEF PrepEffect, CountThreads, PrepGoto, TypeOK, mainVars, toolVars
<1>9. CASE Report(p)
    BY <1>0, <1>9 DEF PrepEffect, Report, PrepGoto, TypeOK, mainVars
<1>10. CASE LeavePoll(p) \/ Rebind(p) \/ ReceiveStart(p)
    BY <1>0, <1>10 DEF PrepEffect, LeavePoll, Rebind, ReceiveStart, PrepGoto, TypeOK,
       mainVars, toolVars
<1>11. CASE Convert(p)
    BY <1>0, <1>11 DEF PrepEffect, Convert, PrepGoto, TypeOK, mainVars, toolVars
<1>12. CASE FinishSplit(p)
    BY <1>0, <1>12 DEF PrepEffect, FinishSplit, PrepGoto, TypeOK, mainVars, toolVars
<1> QED BY <1>1, <1>2, <1>3, <1>4, <1>5, <1>6, <1>7, <1>8, <1>9, <1>10, <1>11, <1>12
        DEF PrepNext

\* Locks are taken in the order of the loop and kept until the dump.
LEMMA VisitedPrep ==
    ASSUME IInv, SplitInv, NEW p \in Proc, PrepNext(p) PROVE VisitedHeld'
<1>0. /\ TypeOK /\ Stage /\ VisitedHeld /\ PrepEffect(p)
      /\ Main \in Proc /\ Main \notin Vic /\ \A u \in Vic : u \in Proc
    BY VicAssumption, PrepEffects DEF IInv, SplitInv, Proc
<1> SUFFICES ASSUME ~early, tool' \in {"listing", "dump"}, NEW v \in Vic, Active(Main, v)
             PROVE  \/ prep'[Main] = "lockmain"
                    \/ prep'[Main] \in {"check", "acquire"} /\ v \in todo'[Main]
                    \/ prep'[Main] = "acquire" /\ target'[Main] = v
                    \/ lock'[Main][v] = "prep"
    BY <1>0 DEF VisitedHeld, PrepEffect, Active
<1>1. /\ p = Main /\ proc[Main] = "up"
      /\ tool \in {"prepare", "listing", "dump"}
      /\ tool = "prepare" => tool' = "listing"
      /\ reg[Main][v] = "executing" /\ abstr[Main][v] = "thread"
  <2>1. tool \in {"prepare", "listing", "dump"} /\ (tool = "prepare" => tool' = "listing")
    BY <1>0 DEF PrepEffect
  <2>2. p = Main /\ proc[Main] = "up"
    BY <1>0, <2>1 DEF Stage, PrepEffect, Proc
  <2>3. reg[Main][v] # "idle"
    BY <1>0, <2>1, <2>2 DEF SplitInv, AllRegistered
  <2>4. reg[Main][v] = "executing"
    BY <1>0, <2>3 DEF Active, SplitInv, FlowRecord
  <2>5. abstr[Main][v] = "thread"
    BY <1>0, <2>1, <2>2 DEF SplitInv, Kinds
  <2> QED BY <2>1, <2>2, <2>4, <2>5
<1>2. tool \in {"listing", "dump"} =>
        \/ prep[Main] = "lockmain"
        \/ prep[Main] \in {"check", "acquire"} /\ v \in todo[Main]
        \/ prep[Main] = "acquire" /\ target[Main] = v
        \/ lock[Main][v] = "prep"
    BY <1>0 DEF VisitedHeld
<1>3. tool \in {"listing", "dump"} =>
        prep[Main] \in {"lockmain", "check", "acquire", "collect", "poll", "rebind", "waitstart"}
    BY <1>0, <1>1 DEF Stage
<1>4. tool = "prepare" => prep[Main] \in {"launch", "listen", "gone"}
    BY <1>0, <1>1 DEF Stage
<1>5. CASE PrepLaunch(p) \/ PrepTerminate(p) \/ ReceiveStart(p) \/ Convert(p) \/ FinishSplit(p)
           \/ \E u \in Vic : Reopen(p, u)
  <2>1. tool' = tool
    BY <1>5 DEF PrepLaunch, PrepTerminate, ReceiveStart, Convert, FinishSplit, Reopen, toolVars
  <2>2. /\ prep[p] \in {"launch", "listen", "waitstart", "convert", "reopen"}
        /\ prep[p] = "waitstart" => start # {}
    BY <1>5 DEF PrepLaunch, PrepTerminate, ReceiveStart, Convert, FinishSplit, Reopen, PrepGoto
  <2>3. start = {}
    BY <1>0, <1>1 DEF Stage
  <2> QED BY <1>0, <1>1, <1>3, <2>1, <2>2, <2>3
<1>6. CASE ReceivePrepare(p)
    BY <1>0, <1>1, <1>6 DEF ReceivePrepare, PrepGoto, TypeOK
<1>7. CASE LockMain(p)
    BY <1>0, <1>1, <1>7 DEF LockMain, PrepGoto, TypeOK
<1>8. ASSUME NEW u \in Vic, Check(p, u)
      PROVE  \/ prep'[Main] \in {"check", "acquire"} /\ v \in todo'[Main]
             \/ prep'[Main] = "acquire" /\ target'[Main] = v
             \/ lock'[Main][v] = "prep"
  <2>1. /\ prep[Main] = "check" /\ lock' = lock /\ tool' = tool
        /\ prep'[Main] \in {"check", "acquire"} /\ todo'[Main] = todo[Main] \ {u}
        /\ u = v => prep'[Main] = "acquire" /\ target'[Main] = u
    BY <1>0, <1>1, <1>8 DEF Check, PrepGoto, TypeOK, toolVars
  <2> QED BY <1>1, <1>2, <2>1
<1>9. CASE Acquire(p)
  <2>1. /\ prep[Main] = "acquire" /\ prep'[Main] = "check" /\ todo' = todo /\ tool' = tool
        /\ target[Main] \in Vic /\ lock'[Main][target[Main]] = "prep"
        /\ lock[Main][v] = "prep" => lock'[Main][v] = "prep"
    BY <1>0, <1>1, <1>9 DEF Acquire, PrepGoto, TypeOK, toolVars
  <2> QED BY <1>1, <1>2, <2>1
<1>10. CASE CountThreads(p)
    BY <1>1, <1>2, <1>10 DEF CountThreads, PrepGoto, toolVars
<1>11. CASE \/ Report(p) \/ LeavePoll(p) \/ Rebind(p) \/ \E u \in Vic : Collect(p, u)
  <2>1. prep[Main] \in {"collect", "poll", "rebind"} /\ lock' = lock
    BY <1>1, <1>11 DEF Report, LeavePoll, Rebind, Collect, PrepGoto
  <2> QED BY <1>1, <1>2, <1>4, <2>1
<1> QED BY <1>5, <1>6, <1>7, <1>8, <1>9, <1>10, <1>11 DEF PrepNext

\* Records are converted before the process is through.
LEMMA KindsPrep == ASSUME IInv, SplitInv, NEW p \in Proc, PrepNext(p) PROVE Kinds'
<1>0. /\ TypeOK /\ Stage /\ Kinds /\ PrepEffect(p)
      /\ Main \notin Vic /\ \A u \in Vic : u \in Proc
    BY VicAssumption, PrepEffects DEF IInv, SplitInv, Proc
<1>1. tool' = "done" <=> tool = "done"
    BY <1>0 DEF PrepEffect
<1>2. CASE Convert(p)
  <2>1. tool = "done" /\ \A v \in Vic : abstr'[p][v] = "process"
    BY <1>0, <1>2 DEF Convert, PrepGoto, TypeOK, Stage, ToolState, Proc
  <2> QED BY <1>0, <1>1, <2>1 DEF Kinds, PrepEffect
<1>3. CASE FinishSplit(p)
  <2>1. prep[p] = "reopen" /\ \A v \in Vic : abstr'[p][v] = abstr[p][v]
    BY <1>0, <1>3 DEF FinishSplit, PrepGoto, TypeOK, Proc
  <2> QED BY <1>0, <1>1, <2>1 DEF Kinds, PrepEffect
<1>4. CASE ~Convert(p) /\ ~FinishSplit(p)
  <2>1. abstr' = abstr
    BY <1>4 DEF PrepNext, PrepLaunch, PrepTerminate, ReceivePrepare, LockMain, Check,
           Collect, Reopen, Acquire, CountThreads, Report, LeavePoll, Rebind, ReceiveStart
  <2>2. \/ prep'[p] \notin {"reopen", "listen", "gone"}
        \/ prep[p] = "launch"
        \/ prep[p] \in {"reopen", "listen", "gone"}
    BY <1>0, <1>4 DEF PrepNext, PrepLaunch, PrepTerminate, ReceivePrepare, LockMain, Check,
           Collect, Reopen, Acquire, CountThreads, Report, LeavePoll, Rebind, ReceiveStart,
           PrepGoto, TypeOK
  <2>3. tool = "done" => prep[p] # "launch"
    BY <1>0 DEF Stage, PrepEffect
  <2> QED BY <1>0, <1>1, <2>1, <2>2, <2>3 DEF Kinds, PrepEffect
<1> QED BY <1>2, <1>3, <1>4

\* The main lock is the preparation's while it works.
LEMMA MainThreadLockPrep ==
    ASSUME IInv, SplitInv, NEW p \in Proc, PrepNext(p) PROVE MainThreadLock'
<1>0. /\ TypeOK /\ MainThreadLock /\ PrepEffect(p)
      /\ Main \in Proc /\ Main \notin Vic /\ \A u \in Vic : u \in Proc
    BY VicAssumption, PrepEffects DEF IInv, SplitInv, Proc
<1>1. CASE p # Main
    BY <1>0, <1>1 DEF MainThreadLock, PrepEffect
<1>2. CASE LockMain(Main)
  <2>1. lock[Main][Main] = "free" /\ lock'[Main][Main] = "prep"
    BY <1>0, <1>2 DEF LockMain, TypeOK
  <2> QED BY <1>0, <2>1 DEF MainThreadLock, PrepEffect
<1>3. CASE FinishSplit(Main)
  <2>1. prep[Main] = "reopen" /\ prep'[Main] = "listen"
    BY <1>0, <1>3 DEF FinishSplit, PrepGoto, TypeOK
  <2> QED BY <1>0, <2>1 DEF MainThreadLock, PrepEffect
<1>4. CASE p = Main /\ ~LockMain(Main) /\ ~FinishSplit(Main)
  <2>1. lock'[Main][Main] = lock[Main][Main]
    <3>1. CASE Acquire(Main)
      BY <1>0, <3>1 DEF Acquire, PrepGoto, TypeOK
    <3>2. ASSUME NEW v \in Vic, Reopen(Main, v) PROVE lock'[Main][Main] = lock[Main][Main]
      BY <1>0, <3>2 DEF Reopen, TypeOK
    <3> QED BY <1>4, <3>1, <3>2 DEF PrepNext, PrepLaunch, PrepTerminate, ReceivePrepare,
            Check, Collect, CountThreads, Report, LeavePoll, Rebind, ReceiveStart, Convert
  <2>2. \/ prep'[Main] \in {"launch", "listen", "lockmain", "gone"}
        \/ prep[Main] \notin {"launch", "listen", "lockmain", "gone"}
    BY <1>0, <1>4 DEF PrepNext, PrepLaunch, PrepTerminate, ReceivePrepare, Check, Collect,
       Reopen, Acquire, CountThreads, Report, LeavePoll, Rebind, ReceiveStart, Convert,
       PrepGoto, TypeOK
  <2> QED BY <1>0, <2>1, <2>2 DEF MainThreadLock, PrepEffect
<1> QED BY <1>1, <1>2, <1>3, <1>4

\* The steps of a preparation thread.
LEMMA SplitPrep ==
    ASSUME IInv, SplitInv, NEW p \in Proc, PrepNext(p) PROVE SplitInv'
<1>0. /\ TypeOK /\ TypeOK' /\ Stage /\ SplitInv /\ PrepEffect(p)
      /\ Main \in Proc /\ Main \notin Vic
    BY VicAssumption, PrepEffects, TypePrep DEF IInv, Proc
<1>1. EarlyKnown' /\ FlowRecord' /\ AllRegistered'
    BY <1>0 DEF SplitInv, EarlyKnown, FlowRecord, AllRegistered, PrepEffect
<1>2. OneProcess'
  <2> SUFFICES ASSUME tool' \notin {"start", "done"} PROVE OneProcess'
    BY DEF OneProcess
  <2>1. tool \notin {"start", "done"} /\ p = Main
    BY <1>0 DEF PrepEffect, Stage, Proc
  <2>2. tids'[Main] \cup listed' \subseteq Vic
    BY <1>0 DEF TypeOK
  <2>3. \A v \in tids'[Main] \cup listed' :
            v \in tids[Main] \cup listed \/ reg[Main][v] = "executing"
    BY <1>0, <2>1 DEF PrepEffect
  <2>4. \A v \in tids'[Main] \cup listed' : flow[Main][v] # "none"
    BY <1>0, <2>1, <2>2, <2>3 DEF SplitInv, OneProcess
  <2> QED BY <1>0, <2>1, <2>4 DEF SplitInv, OneProcess, PrepEffect
<1>3. SplitPlaces'
    BY <1>0 DEF SplitInv, SplitPlaces, PrepEffect
<1>4. Strangers' /\ Ending'
    BY <1>0 DEF SplitInv, Strangers, Ending, Straggler, PrepEffect, Active
<1> QED BY <1>1, <1>2, <1>3, <1>4, VisitedPrep, KindsPrep, MainThreadLockPrep DEF SplitInv

\* What the dump and the restore make of the threads and the memory.
DumpEffect ==
    /\ tool = "dump" /\ tool' = "start" /\ proc[Main] = "up"
    /\ UNCHANGED <<listed, early, main>>
    /\ listed \subseteq Vic /\ Main \notin listed
    /\ prep[Main] \in {"poll", "rebind", "waitstart"}
    /\ \A q \in Proc \ listed :
          /\ UNCHANGED <<proc[q], home[q], reg[q], lock[q], abstr[q], prep[q], terminate[q]>>
          /\ \A u \in Vic : flow'[q][u] = IF u \in listed THEN "none" ELSE flow[q][u]
    /\ \A q \in listed :
          /\ proc'[q] = "up"
          /\ reg'[q] = reg[Main] /\ lock'[q] = lock[Main] /\ abstr'[q] = abstr[Main]
          /\ prep'[q] = prep[Main] /\ terminate'[q] = terminate[Main] /\ home'[q] = home[Main]
          /\ \A u \in Vic : flow'[q][u] = IF u \in listed /\ u # q THEN "none" ELSE flow[Main][u]

\* It is what the step does.
LEMMA DumpEffects == ASSUME IInv, Dump PROVE DumpEffect
<1>0. /\ TypeOK /\ Stage /\ Main \in Proc /\ Main \notin Vic /\ \A v \in Vic : v \in Proc
    BY VicAssumption DEF IInv, Proc
<1>1. /\ tool = "dump" /\ tool' = "start" /\ proc[Main] = "up"
      /\ UNCHANGED <<listed, early, main>> /\ listed \subseteq Vic /\ Main \notin listed
      /\ prep[Main] \in {"poll", "rebind", "waitstart"}
    BY <1>0 DEF Dump, ToolGoto, Stage, TypeOK, mainVars
<1>2. \A q \in Proc \ listed :
         /\ UNCHANGED <<proc[q], home[q], reg[q], lock[q], abstr[q], prep[q], terminate[q]>>
         /\ \A u \in Vic : flow'[q][u] = IF u \in listed THEN "none" ELSE flow[q][u]
    BY <1>0 DEF Dump, Copied, SplitThreads
<1>3. \A q \in listed :
         /\ proc'[q] = "up"
         /\ reg'[q] = reg[Main] /\ lock'[q] = lock[Main] /\ abstr'[q] = abstr[Main]
         /\ prep'[q] = prep[Main] /\ terminate'[q] = terminate[Main] /\ home'[q] = home[Main]
    BY <1>0, <1>1 DEF Dump, Copied
<1>4. \A q \in listed, u \in Vic :
         flow'[q][u] = IF u \in listed /\ u # q THEN "none" ELSE flow[Main][u]
    BY <1>0, <1>1 DEF Dump, SplitThreads
<1> QED BY <1>1, <1>2, <1>3, <1>4 DEF DumpEffect

\* At the dump every flow in its routine is held before its lock, and listed;
\* the others are over.
LEMMA AtDump ==
    ASSUME IInv, SplitInv, tool = "dump", ~early, NEW v \in Vic
    PROVE  /\ Active(Main, v) => v \in listed /\ flow[Main][v] = "running"
           /\ flow[Main][v] \in {"running", "returned", "leaving", "exited"}
<1>0. /\ TypeOK /\ Stage /\ Main \in Proc /\ proc[Main] = "up"
      /\ prep[Main] \in {"poll", "rebind", "waitstart"}
    BY DEF IInv, Stage, Proc
<1>1. reg[Main][v] # "idle" /\ flow[Main][v] \notin {"none", "created"}
    BY <1>0 DEF SplitInv, AllRegistered, OneProcess, FlowRecord
<1>5. flow[Main][v] # "ending"
    BY DEF IInv, HomeInMain
<1>2. Active(Main, v) => lock[Main][v] = "prep"
    BY <1>0 DEF SplitInv, VisitedHeld
<1>3. Active(Main, v) => v \in listed /\ flow[Main][v] # "critical"
    BY <1>0, <1>2 DEF IInv, HeldIsReported, LockGuardsSockets, Held
<1>4. flow[Main][v] \in FlowState
    BY <1>0 DEF TypeOK
<1> QED BY <1>0, <1>1, <1>3, <1>4, <1>5 DEF Active, FlowState

\* The dump.
LEMMA SplitDump == ASSUME IInv, SplitInv, Dump PROVE SplitInv'
<1>0. /\ TypeOK /\ Stage /\ SplitInv /\ DumpEffect
      /\ Main \in Proc /\ Main \notin Vic /\ \A v \in Vic : v \in Proc
    BY VicAssumption, DumpEffects DEF IInv, Proc
<1>1. EarlyKnown' /\ OneProcess' /\ VisitedHeld'
    BY <1>0 DEF DumpEffect, EarlyKnown, OneProcess, VisitedHeld
<1>2. \A p \in Proc, v \in Vic :
         \/ flow'[p][v] = "none"
         \/ p \in listed /\ flow'[p][v] = flow[Main][v] /\ reg'[p] = reg[Main]
         \/ p \notin listed /\ flow'[p][v] = flow[p][v] /\ reg'[p] = reg[p]
    BY <1>0 DEF DumpEffect
<1>3. FlowRecord'
  <2> SUFFICES ASSUME NEW p \in Proc, NEW v \in Vic
               PROVE  /\ flow'[p][v] = "created" => reg'[p][v] = "idle"
                      /\ flow'[p][v] \in {"running", "critical"} => reg'[p][v] = "executing"
                      /\ flow'[p][v] \in Ended => reg'[p][v] = "finished"
    BY DEF FlowRecord
  <2> QED BY <1>0, <1>2 DEF SplitInv, FlowRecord, Ended
<1>4. AllRegistered'
    BY <1>0 DEF SplitInv, AllRegistered, DumpEffect
<1>5. Kinds'
    BY <1>0 DEF SplitInv, Kinds, DumpEffect
<1>6. MainThreadLock'
    BY <1>0 DEF SplitInv, MainThreadLock, DumpEffect
<1>7. SplitPlaces'
  <2> SUFFICES ASSUME ~early, NEW v \in Vic
               PROVE  IF v \in listed
                      THEN flow'[v][v] # "none" /\ \A p \in Proc \ {v} : flow'[p][v] = "none"
                      ELSE /\ flow'[Main][v] # "none"
                           /\ \A p \in Proc : flow'[p][v] \in Ended \cup {"none"}
    BY <1>0 DEF SplitPlaces, DumpEffect
  <2>1. \A p \in Vic : flow[p][v] = "none"
    BY <1>0 DEF SplitInv, OneProcess, DumpEffect
  <2>2. flow[Main][v] \in {"running", "returned", "leaving", "exited"}
    BY <1>0, AtDump DEF DumpEffect
  <2>3. v \notin listed => flow[Main][v] \in Ended
    BY <1>0, <2>2, AtDump DEF DumpEffect, Active, Ended
  <2> QED BY <1>0, <2>1, <2>2, <2>3 DEF DumpEffect, Proc
<1>8. Ending'
  <2>1. ~terminate'[Main] /\ \A p \in Proc : prep'[p] = "gone" => terminate'[p]
    BY <1>0 DEF SplitInv, Ending, DumpEffect
  <2>2. ASSUME ~early, NEW p \in Proc, NEW v \in Vic, terminate'[p] PROVE ~Active(p, v)'
    <3>1. p \notin listed /\ terminate[p]
      BY <1>0, <2>2 DEF SplitInv, Ending, DumpEffect
    <3>4. ~Straggler
      BY <1>0 DEF SplitInv, OneProcess, DumpEffect, Straggler
    <3>2. ~Active(p, v)
      BY <1>0, <2>2, <3>1, <3>4 DEF SplitInv, Ending
    <3>3. proc'[p] = proc[p] /\ flow'[p][v] \in {"none", flow[p][v]}
      BY <1>0, <3>1 DEF DumpEffect
    <3> QED BY <3>2, <3>3 DEF Active
  <2> QED BY <1>0, <2>1, <2>2 DEF Ending, DumpEffect
<1>9. Strangers'
  <2> SUFFICES ASSUME ~early, NEW p \in Vic, NEW v \in Vic,
                      flow'[p][v] \notin {"none", "exited"}
               PROVE  home'[p][v] = Main
    BY <1>0 DEF Strangers, DumpEffect
  <2>1. flow[p][v] = "none"
    BY <1>0 DEF SplitInv, OneProcess, DumpEffect
  <2>2. p \in listed /\ flow'[p][v] = flow[Main][v] /\ home'[p] = home[Main]
    BY <1>0, <2>1 DEF DumpEffect
  <2>3. flow[Main][v] \in {"running", "returned", "leaving", "exited"}
    BY <1>0, AtDump DEF DumpEffect
  <2> QED BY <2>2, <2>3 DEF IInv, HomeInMain
<1> QED BY <1>1, <1>3, <1>4, <1>5, <1>6, <1>7, <1>8, <1>9 DEF SplitInv

\* The steps of the tool.
LEMMA SplitTool == ASSUME IInv, SplitInv, ToolNext PROVE SplitInv'
<1>0. /\ TypeOK /\ Stage /\ SplitInv
      /\ Main \in Proc /\ Main \notin Vic /\ \A v \in Vic : v \in Proc
    BY VicAssumption DEF IInv, Proc
<1> USE DEF SplitInv, EarlyKnown, FlowRecord, OneProcess, AllRegistered, VisitedHeld, Kinds,
            MainThreadLock, SplitPlaces, Strangers, Ending, Straggler, Active
<1>1. CASE RunTool
  <2>1. /\ tool = "idle" /\ tool' = "prepare" /\ early' = (\E v \in Vic : reg[Main][v] = "idle")
        /\ UNCHANGED <<memory, main, proc, listed>> /\ ~early
        /\ \A p \in Proc : proc[p] = "up" => p = Main
    BY <1>0, <1>1 DEF RunTool, ToolGoto, mainVars, Stage, Proc
  <2> QED BY <1>0, <2>1 DEF memory
<1>2. CASE SendStart
  <2>1. /\ tool = "start" /\ tool' = "done" /\ UNCHANGED <<memory, main, proc, listed, early>>
        /\ \A p \in Proc : proc[p] = "up" => prep[p] \in {"poll", "rebind", "waitstart"}
    BY <1>0, <1>2 DEF SendStart, ToolGoto, mainVars, Stage
  <2> QED BY <1>0, <2>1 DEF memory
<1>3. CASE DumpFails
  <2>1. /\ tool = "dump" /\ tool' = "failed" /\ UNCHANGED <<memory, main, listed, early>>
        /\ \A p \in Proc : proc'[p] = "up" => proc[p] = "up"
    BY <1>0, <1>3 DEF DumpFails, ToolGoto, mainVars, TypeOK
  <2>2. \A p \in Proc : proc'[p] # "up"
    BY <1>0, <1>3 DEF DumpFails, ToolGoto, Stage, TypeOK, Proc
  <2> QED BY <1>0, <2>1, <2>2 DEF memory
<1>4. CASE Dump
    BY <1>4, SplitDump
<1> QED BY <1>1, <1>2, <1>3, <1>4 DEF ToolNext

\* Every step preserves the invariant.
LEMMA SplitStep == IInv /\ SplitInv /\ [Next]_vars => SplitInv'
<1> SUFFICES ASSUME IInv, SplitInv, [Next]_vars PROVE SplitInv'
    OBVIOUS
<1>1. CASE UNCHANGED vars
    BY <1>1, SplitStutter DEF vars, memory, mainVars, toolVars
<1>2. CASE MainNext
    BY <1>2, SplitStart, SplitWait DEF MainNext
<1>3. CASE Next
    BY <1>2, <1>3, SplitFlow, SplitPrep, SplitTool DEF Next
<1> QED BY <1>1, <1>3

\* The invariant holds of every behaviour.
THEOREM SplitInductive == Spec => [](IInv /\ SplitInv)
<1> QED BY InitIInv, StepIInv, SplitInit, SplitStep, PTL DEF Spec

-----------------------------------------------------------------------------
(* The safety properties.                                                  *)

\* A reported flow is frozen between two operations.
THEOREM Frozen == Spec => []FrozenOutsideCriticalSection
<1>1. IInv /\ SplitInv => FrozenOutsideCriticalSection
  <2> SUFFICES ASSUME IInv, SplitInv, tool = "dump", ~early, NEW v \in Vic
               PROVE  flow[Main][v] # "critical"
    BY DEF FrozenOutsideCriticalSection, IInv, TypeOK
  <2> QED BY AtDump
<1> QED BY <1>1, SplitInductive, PTL

\* Flows run in Main before the dump, in their processes after it.
LEMMA ActiveAt ==
    ASSUME IInv, SplitInv, ~early, NEW p \in Proc, NEW v \in Vic, Active(p, v)
    PROVE  p = IF tool \in {"start", "done"} THEN v ELSE Main
<1>1. CASE tool \in {"start", "done"}
    BY <1>1 DEF SplitInv, SplitPlaces, Active, Ended
<1>2. CASE tool \notin {"start", "done"}
    BY <1>2 DEF IInv, Stage, Active, Proc
<1> QED BY <1>1, <1>2

\* No routine runs in two processes.
THEOREM RunsOnce == Spec => []FlowRunsOnce
<1>1. IInv /\ SplitInv => FlowRunsOnce
  <2> SUFFICES ASSUME IInv, SplitInv, ~early, NEW v \in Vic, NEW p \in Proc, NEW q \in Proc,
                      Active(p, v), Active(q, v)
               PROVE  p = q
    BY DEF FlowRunsOnce
  <2> QED BY ActiveAt
<1> QED BY <1>1, SplitInductive, PTL

\* The wait polls a thread before the dump and, as the preparation holds the
\* main lock until it has converted the records, a process after it.
THEOREM PollsRight == Spec => []PollsRightHandle
<1>1. IInv /\ SplitInv => PollsRightHandle
  <2> SUFFICES ASSUME IInv, SplitInv, NEW p \in Proc, main \in {"polling", "blocked"},
                      Active(p, waitFor), ~early
               PROVE  abstr[Main][waitFor] = IF p = Main THEN "thread" ELSE "process"
    BY DEF PollsRightHandle
  <2>1. waitFor \in Vic /\ Main \notin Vic /\ Main \in Proc
    BY VicAssumption DEF IInv, TypeOK, Proc
  <2>2. proc[p] = "up" /\ p = IF tool \in {"start", "done"} THEN waitFor ELSE Main
    BY <2>1, ActiveAt DEF Active
  <2>3. prep[Main] \in {"launch", "listen", "lockmain", "gone"}
    BY DEF SplitInv, MainThreadLock
  <2>4. CASE tool \in {"start", "done"}
    <3>1. proc[Main] = "up"
      BY <2>4 DEF IInv, Stage
    <3>2. tool = "done" /\ prep[Main] \in {"listen", "gone"}
      BY <2>1, <2>3, <2>4, <3>1 DEF IInv, Stage
    <3> QED BY <2>1, <2>2, <2>4, <3>1, <3>2 DEF SplitInv, Kinds
  <2>5. CASE tool \notin {"start", "done"}
    BY <2>1, <2>2, <2>5 DEF SplitInv, Kinds
  <2> QED BY <2>4, <2>5
<1> QED BY <1>1, SplitInductive, PTL

-----------------------------------------------------------------------------
(* The refinement.                                                         *)

Void == early \/ Straggler
PhaseOf == [v \in Vic |-> Phase(v)]
WhereOf == [v \in Vic |-> Where(v)]

\* Where a flow is, by how far the tool is.
LEMMA Whereabouts ==
    ASSUME IInv, SplitInv, ~early, NEW v \in Vic
    PROVE  /\ Where(v) = IF tool \in {"start", "done"} /\ v \in listed THEN v ELSE Main
           /\ tool \in {"start", "done"} /\ v \notin listed => Phase(v) = "over"
<1>0. Main \in Proc /\ v \in Proc /\ v # Main
    BY VicAssumption DEF Proc
<1>1. CASE tool \in {"start", "done"}
  <2>1. CASE v \in listed
    BY <1>0, <1>1, <2>1 DEF SplitInv, SplitPlaces, Where
  <2>2. CASE v \notin listed
    <3>1. flow[Main][v] # "none" /\ flow[Main][v] \in Ended \cup {"none"}
      BY <1>0, <1>1, <2>2 DEF SplitInv, SplitPlaces
    <3> QED BY <1>1, <2>2, <3>1 DEF Where, Phase, Ended
  <2> QED BY <2>1, <2>2
<1>2. CASE tool \notin {"start", "done"}
    BY <1>2 DEF SplitInv, OneProcess, Where
<1> QED BY <1>1, <1>2

\* A step in which one flow changes its phase, or none does.
LEMMA OnePhase ==
    ASSUME NEW v \in Vic, ~Void, ~Void',
           \A u \in Vic : Where(u)' = Where(u),
           \A u \in Vic \ {v} : Phase(u)' = Phase(u),
           \/ Phase(v)' = Phase(v)
           \/ Phase(v) = "new" /\ Phase(v)' = "out"
           \/ Phase(v) = "out" /\ Phase(v)' = "in"
           \/ Phase(v) = "in" /\ Phase(v)' = "out"
           \/ Phase(v) = "out" /\ Phase(v)' = "over"
    PROVE  [Migrating!Next]_Migrating!vars
<1>1. WhereOf' = WhereOf
    BY DEF WhereOf
<1>2. PhaseOf' = [PhaseOf EXCEPT ![v] = Phase(v)'] /\ PhaseOf[v] = Phase(v)
    BY DEF PhaseOf
<1>3. CASE Phase(v)' = Phase(v)
  <2>1. PhaseOf' = PhaseOf
    BY <1>3 DEF PhaseOf
  <2> QED BY <1>1, <2>1 DEF Migrating!vars, PhaseOf, WhereOf, Void
<1>4. ASSUME NEW a, NEW b, Phase(v) = a, Phase(v)' = b PROVE Migrating!Step(v, a, b)
    BY <1>1, <1>2, <1>4 DEF Migrating!Step, PhaseOf, WhereOf, Void
<1> QED BY <1>3, <1>4 DEF Migrating!Next, Migrating!Start, Migrating!Enter, Migrating!Leave,
        Migrating!Return

\* A step of a flow is a step of Migration.
LEMMA FlowMigrates ==
    ASSUME IInv, SplitInv, ~Void, ~Void', NEW p \in Proc, NEW v \in Vic, FlowNext(p, v)
    PROVE  [Migrating!Next]_Migrating!vars
<1>0. /\ TypeOK /\ FlowEffect(p, v) /\ Main \in Proc /\ Main \notin Vic
      /\ \A u \in Vic : u \in Proc /\ Where(u) \in {u, Main}
    BY VicAssumption, FlowEffects DEF IInv, Proc, Where
<1>1. \A u \in Vic : Where(u)' = Where(u)
    BY <1>0 DEF FlowEffect, Where
<1>2. \A q \in Proc \ {p} : proc'[q] = proc[q]
    BY <1>0 DEF FlowNext, ReadPid, Register, Enter, Leave, Return, ReturnThread,
       ReturnProcess, ExitThread, ExitProcess, TypeOK, toolVars
<1>3. ASSUME NEW u \in Vic, u # v PROVE Phase(u)' = Phase(u)
  <2>1. flow'[Where(u)][u] = flow[Where(u)][u]
    BY <1>0, <1>3 DEF FlowEffect
  <2>2. CASE proc'[Where(u)] = proc[Where(u)]
    BY <1>1, <2>1, <2>2 DEF Phase
  <2>3. CASE proc'[Where(u)] # proc[Where(u)]
    <3>1. Where(u) = p /\ ExitProcess(p, v)
      BY <1>0, <1>2, <2>3 DEF FlowNext, ReadPid, Register, Enter, Leave, Return,
         ReturnThread, ReturnProcess, ExitThread, toolVars
    <3>2. p # Main /\ proc[p] = "up" /\ proc'[p] = "exited" /\ prep[p] = "gone"
      BY <1>0, <3>1 DEF ExitProcess, IInv, HomeInMain, TypeOK
    <3>3. u = p /\ flow[p][u] # "none"
      BY <1>0, <3>1, <3>2 DEF Where
    <3>4. ~Active(p, u)
      BY <3>2 DEF SplitInv, Ending, Void
    <3>5. flow[p][u] \in Ended
      BY <1>0, <3>2, <3>3, <3>4 DEF Active, TypeOK, FlowState, Ended
    <3>6. Phase(u) = "over"
      BY <3>1, <3>5 DEF Phase, Ended
    <3>7. Where(u)' = p
      BY <1>1, <3>1
    <3>8. Phase(u)' = "over"
      BY <3>2, <3>7 DEF Phase
    <3> QED BY <3>6, <3>8
  <2> QED BY <2>2, <2>3
<1>4. CASE Where(v) # p
  <2>1. Phase(v)' = Phase(v)
    BY <1>0, <1>1, <1>2, <1>4 DEF FlowEffect, Phase
  <2> QED BY <1>1, <1>3, <2>1, OnePhase
<1>5. CASE Where(v) = p
  <2>1. \/ Phase(v)' = Phase(v)
        \/ Phase(v) = "new" /\ Phase(v)' = "out"
        \/ Phase(v) = "out" /\ Phase(v)' = "in"
        \/ Phase(v) = "in" /\ Phase(v)' = "out"
        \/ Phase(v) = "out" /\ Phase(v)' = "over"
    <3>1. \/ flow[p][v] = "created" /\ flow'[p][v] = "running" /\ proc' = proc
          \/ flow[p][v] = "running" /\ flow'[p][v] = "critical" /\ proc' = proc
          \/ flow[p][v] = "critical" /\ flow'[p][v] = "running" /\ proc' = proc
          \/ flow[p][v] = "running" /\ flow'[p][v] = "returned" /\ proc' = proc
          \/ flow[p][v] = "created" /\ flow'[p][v] = "created" /\ proc' = proc
          \/ flow[p][v] \in Ended /\ flow'[p][v] \in Ended
      <4>1. CASE Register(p, v) \/ Enter(p, v) \/ Leave(p, v) \/ Return(p, v)
        BY <1>0, <4>1 DEF Register, Enter, Leave, Return, FlowStep, TypeOK, toolVars
      <4>2. CASE ReadPid(p, v)
        BY <1>0, <4>2 DEF ReadPid, TypeOK, toolVars
      <4>3. CASE ReturnThread(p, v) \/ ReturnProcess(p, v) \/ ExitThread(p, v)
        BY <1>0, <4>3 DEF ReturnThread, ReturnProcess, ExitThread, FlowStep, TypeOK, Ended
      <4>4. CASE ExitProcess(p, v)
        BY <1>0, <4>4 DEF ExitProcess, memory, Ended
      <4> QED BY <4>1, <4>2, <4>3, <4>4 DEF FlowNext
    <3>2. proc[p] = "up"
      BY <1>0 DEF FlowEffect
    <3> QED BY <1>1, <1>5, <3>1, <3>2 DEF Phase, Ended
  <2> QED BY <1>1, <1>3, <2>1, OnePhase
<1> QED BY <1>4, <1>5

\* The dump is the split of Migration.
LEMMA DumpMigrates ==
    ASSUME IInv, SplitInv, ~Void, ~Void', Dump PROVE Migrating!Split
<1>0. /\ TypeOK /\ DumpEffect /\ IInv' /\ SplitInv' /\ ~early'
      /\ Main \in Proc /\ Main \notin Vic /\ \A v \in Vic : v \in Proc
  <2>1. DumpEffect
    BY DumpEffects
  <2>2. Next
    BY DEF Next, ToolNext
  <2>3. IInv' /\ SplitInv'
    BY <2>2, StepIInv, SplitDump
  <2> QED BY <2>1, <2>3, VicAssumption DEF IInv, Proc, DumpEffect, Void
<1> USE DEF Void
<1>1. \A v \in Vic : Where(v) = Main
    BY <1>0, Whereabouts DEF DumpEffect
<1>2. \A v \in Vic : flow[Main][v] \in {"running", "returned", "leaving", "exited"}
    BY <1>0, AtDump DEF DumpEffect
<1>3. \A v \in Vic : v \notin listed => flow[Main][v] \in Ended
    BY <1>0, <1>2, AtDump DEF DumpEffect, Active, Ended
<1>4. \A v \in Vic : v \in listed => flow[Main][v] # "exited"
    BY DEF Dump
<1>5. \A v \in Vic : Phase(v) = IF flow[Main][v] = "running" THEN "out" ELSE "over"
    BY <1>0, <1>1, <1>2 DEF Phase, DumpEffect
<1>6. \A v \in Vic : Where(v)' = IF v \in listed THEN v ELSE Main
  <2> SUFFICES ASSUME NEW v \in Vic PROVE Where(v)' = IF v \in listed THEN v ELSE Main
    OBVIOUS
  <2>1. flow'[Main][v] = IF v \in listed THEN "none" ELSE flow[Main][v]
    BY <1>0 DEF DumpEffect
  <2>2. v \in listed => flow'[v][v] = flow[Main][v]
    BY <1>0 DEF DumpEffect
  <2> QED BY <1>2, <2>1, <2>2 DEF Where
<1>7. \A v \in Vic : Phase(v)' = Phase(v)
  <2> SUFFICES ASSUME NEW v \in Vic PROVE Phase(v)' = Phase(v)
    OBVIOUS
  <2>1. CASE v \in listed
    <3>1. proc'[v] = "up" /\ flow'[v][v] = flow[Main][v] /\ Where(v)' = v
      BY <1>0, <1>6, <2>1 DEF DumpEffect
    <3> QED BY <1>2, <1>5, <3>1 DEF Phase
  <2>2. CASE v \notin listed
    <3>1. proc'[Main] = "up" /\ flow'[Main][v] = flow[Main][v] /\ Where(v)' = Main
      BY <1>0, <1>6, <2>2 DEF DumpEffect
    <3> QED BY <1>2, <1>5, <3>1 DEF Phase
  <2> QED BY <2>1, <2>2
<1>8. PhaseOf' = PhaseOf
    BY <1>7 DEF PhaseOf
<1>9. Migrating!Threads
    BY <1>1 DEF Migrating!Threads
<1>10. Migrating!Processes'
  <2> SUFFICES ASSUME NEW v \in Vic, Phase(v)' # "over" PROVE Where(v)' = v
    BY DEF Migrating!Processes
  <2>1. v \in listed
    BY <1>3, <1>5, <1>7 DEF Ended
  <2> QED BY <1>6, <2>1
<1>11. Migrating!Quiet
    BY <1>5 DEF Migrating!Quiet
<1>12. WhereOf' \in [Vic -> Vic \cup {Main}]
    BY <1>6 DEF WhereOf
<1> QED BY <1>0, <1>8, <1>9, <1>10, <1>11, <1>12
        DEF Migrating!Split, Migrating!Place, PhaseOf, WhereOf, DumpEffect

\* A dump that fails ends the program with all its flows.
LEMMA FailMigrates ==
    ASSUME IInv, SplitInv, ~Void, ~Void', DumpFails PROVE Migrating!Fail
<1>0. /\ tool = "dump" /\ proc'[Main] = "exited" /\ flow' = flow /\ early' = early
      /\ proc[Main] = "up" /\ Main \in Proc
    BY DEF DumpFails, ToolGoto, memory, IInv, Stage, TypeOK, Proc
<1> USE DEF Void
<1>1. \A v \in Vic : Where(v) = Main /\ Where(v)' = Main
    BY <1>0, Whereabouts DEF Where
<1>2. \A v \in Vic : Phase(v) # "in"
    BY <1>0, <1>1, AtDump DEF Phase
<1>3. ASSUME NEW v \in Vic PROVE Phase(v)' = "over"
  <2>1. Where(v)' = Main
    BY <1>1
  <2> QED BY <1>0, <2>1 DEF Phase
<1>4. PhaseOf' = [v \in Vic |-> "over"] /\ WhereOf' = WhereOf
    BY <1>1, <1>3 DEF PhaseOf, WhereOf
<1> QED BY <1>0, <1>2, <1>4 DEF Migrating!Fail, Migrating!Quiet, PhaseOf, WhereOf

\* What moves no thread and ends no process is no step of Migration.
LEMMA StutterMigrates ==
    ASSUME UNCHANGED <<proc, flow, early>> PROVE UNCHANGED Migrating!vars
<1>1. \A v \in Vic : Where(v)' = Where(v)
    BY DEF Where
<1>2. \A v \in Vic : Phase(v)' = Phase(v)
    BY <1>1 DEF Phase
<1>3. Straggler' = Straggler
    BY DEF Straggler
<1> QED BY <1>1, <1>2, <1>3 DEF Migrating!vars

\* Starting a flow is no step of Migration: its routine has not begun.
LEMMA StartMigrates ==
    ASSUME IInv, SplitInv, ~Void, ~Void', NEW v \in Vic, StartThread(v)
    PROVE  UNCHANGED Migrating!vars
<1>0. /\ TypeOK /\ Main \in Proc /\ Main \notin Vic /\ \A u \in Vic : u \in Proc
    BY VicAssumption DEF IInv, Proc
<1>1. /\ flow[Main][v] = "none" /\ reg[Main][v] = "idle" /\ proc[Main] = "up"
      /\ flow'[Main][v] = "created" /\ UNCHANGED <<proc, early>>
      /\ \A p \in Proc, u \in Vic : ~(p = Main /\ u = v) => flow'[p][u] = flow[p][u]
    BY <1>0 DEF StartThread, TypeOK, toolVars
<1>2. tool = "idle"
    BY <1>0, <1>1 DEF SplitInv, AllRegistered, Void
<1>3. \A u \in Vic : flow[u][u] = "none" /\ flow'[u][u] = "none"
    BY <1>0, <1>1, <1>2 DEF SplitInv, OneProcess
<1>4. \A u \in Vic : Where(u) = Main /\ Where(u)' = Main
    BY <1>3 DEF Where
<1>5. \A u \in Vic : Phase(u)' = Phase(u)
  <2> SUFFICES ASSUME NEW u \in Vic PROVE Phase(u)' = Phase(u)
    OBVIOUS
  <2>1. CASE u = v
    BY <1>1, <1>4, <2>1 DEF Phase
  <2>2. CASE u # v
    <3>1. flow'[Main][u] = flow[Main][u]
      BY <1>0, <1>1, <2>2
    <3> QED BY <1>1, <1>4, <3>1 DEF Phase
  <2> QED BY <2>1, <2>2
<1> QED BY <1>4, <1>5 DEF Migrating!vars, Void

\* What voids the claims of Migration is not undone.
LEMMA VoidStays == ASSUME IInv, SplitInv, [Next]_vars, Void PROVE Void'
<1>1. early => early'
  <2>1. CASE UNCHANGED vars \/ MainNext
    BY <2>1 DEF vars, toolVars, MainNext, StartThread, BeginWait, WaitLock, WaitBlock, WaitPoll
  <2>2. ASSUME NEW p \in Proc, NEW v \in Vic, FlowNext(p, v) PROVE early => early'
    BY <2>2, FlowEffects DEF FlowEffect
  <2>3. ASSUME NEW p \in Proc, PrepNext(p) PROVE early => early'
    BY <2>3, PrepEffects DEF PrepEffect
  <2>4. CASE ToolNext
    BY <2>4 DEF SplitInv, EarlyKnown, ToolNext, RunTool, ToolGoto, Dump, DumpFails, SendStart
  <2> QED BY <2>1, <2>2, <2>3, <2>4 DEF Next
<1>2. CASE ~early /\ Straggler
  <2>0. tool \in {"start", "done"}
    BY <1>2 DEF SplitInv, OneProcess, Straggler
  <2>1. CASE UNCHANGED flow
    BY <1>2, <2>1 DEF Straggler, Void
  <2>2. ASSUME NEW p \in Proc, NEW v \in Vic, FlowNext(p, v) PROVE Void'
    BY <1>2, <2>2, StragglerFlow DEF Void
  <2>3. ASSUME NEW v \in Vic, StartThread(v) PROVE Void'
    <3>1. \A p, u \in Vic : flow'[p][u] = flow[p][u]
      BY <2>3, VicAssumption DEF StartThread, IInv, TypeOK, Proc
    <3> QED BY <1>2, <3>1 DEF Straggler, Void
  <2>4. ASSUME NEW p \in Proc, PrepNext(p) PROVE UNCHANGED flow
    BY <2>4, PrepEffects DEF PrepEffect
  <2>5. CASE ToolNext
    BY <2>0, <2>1, <2>5 DEF ToolNext, RunTool, Dump, DumpFails, SendStart, ToolGoto, memory
  <2>6. CASE WaitLock \/ WaitBlock \/ WaitPoll \/ \E v \in Vic : BeginWait(v)
    BY <2>1, <2>6 DEF WaitLock, WaitBlock, WaitPoll, BeginWait, memory
  <2>7. CASE UNCHANGED vars
    BY <2>1, <2>7 DEF vars, memory
  <2> QED BY <2>1, <2>2, <2>3, <2>4, <2>5, <2>6, <2>7 DEF Next, MainNext
<1> QED BY <1>1, <1>2 DEF Void

\* Every step is a step of Migration or none.
LEMMA StepMigrates ==
    ASSUME IInv, SplitInv, [Next]_vars PROVE [Migrating!Next]_Migrating!vars
<1>1. CASE Void'
    BY <1>1 DEF Migrating!Next, Migrating!Break, Void
<1>2. CASE UNCHANGED <<proc, flow, early>>
    BY <1>2, StutterMigrates
<1>3. CASE ~Void /\ ~Void'
  <2>1. CASE UNCHANGED vars
    BY <1>2, <2>1 DEF vars, memory, toolVars
  <2>2. CASE MainNext
    <3>1. CASE \E v \in Vic : StartThread(v)
      BY <1>3, <3>1, StartMigrates
    <3>2. CASE WaitLock \/ WaitBlock \/ WaitPoll \/ \E v \in Vic : BeginWait(v)
      BY <1>2, <3>2 DEF WaitLock, WaitBlock, WaitPoll, BeginWait, memory, toolVars
    <3> QED BY <2>2, <3>1, <3>2 DEF MainNext
  <2>3. ASSUME NEW p \in Proc, NEW v \in Vic, FlowNext(p, v)
        PROVE  [Migrating!Next]_Migrating!vars
    BY <1>3, <2>3, FlowMigrates
  <2>4. ASSUME NEW p \in Proc, PrepNext(p) PROVE [Migrating!Next]_Migrating!vars
    BY <1>2, <2>4, PrepEffects DEF PrepEffect
  <2>5. CASE RunTool \/ SendStart
    <3>1. UNCHANGED <<proc, flow>> /\ early' = early
      BY <1>3, <2>5 DEF RunTool, SendStart, memory, IInv, TypeOK, Void
    <3> QED BY <1>2, <3>1
  <2>6. CASE Dump
    BY <1>3, <2>6, DumpMigrates DEF Migrating!Next
  <2>7. CASE DumpFails
    BY <1>3, <2>7, FailMigrates DEF Migrating!Next
  <2> QED BY <2>1, <2>2, <2>3, <2>4, <2>5, <2>6, <2>7 DEF Next, ToolNext
<1>4. Void => Void'
    BY VoidStays
<1> QED BY <1>1, <1>3, <1>4

\* The split implements Migration: unless the tool was run too early or a thread
\* was frozen between its last store and its question for the process, every
\* flow starts and ends once, all that run leave the program in one step,
\* between two operations, and none is lost unless the program ends.
THEOREM Implements == Spec => Migrates
<1>1. Init => Migrating!Init
  <2> SUFFICES ASSUME Init PROVE Migrating!Init
    OBVIOUS
  <2>1. \A v \in Vic : Where(v) = Main /\ Phase(v) = "new" /\ ~early
    BY VicAssumption DEF Init, Where, Phase, Proc
  <2>2. WhereOf \in [Vic -> Vic \cup {Main}] /\ PhaseOf \in [Vic -> {"new", "out", "in", "over"}]
    BY <2>1 DEF WhereOf, PhaseOf
  <2>3. early = FALSE /\ ~Straggler
    BY DEF Init, Straggler, Proc
  <2> QED BY <2>1, <2>2, <2>3 DEF WhereOf, PhaseOf, Migrating!Init, Migrating!TypeOK,
          Migrating!Place, Migrating!Phase, Migrating!Threads
<1> QED BY <1>1, InitIInv, StepIInv, SplitInit, SplitStep, StepMigrates, PTL
        DEF Spec, Migrates, Migrating!Spec

-----------------------------------------------------------------------------
(* What the wait for a flow says of it.                                    *)

\* The main thread waits once all flows are started, and without a time limit
\* only for a process; a flow whose wait returned is not in its routine anywhere.
JoinedAreOver ==
    /\ main = "starting" => joined = {}
    /\ main = "blocked" => tool = "done"
    /\ ~early => \A v \in joined, p \in Proc : ~Active(p, v)

\* A flow that is in its routine was in it before, or is just started.
LEMMA ActiveBefore ==
    ASSUME IInv, SplitInv, Next, NEW p \in Proc, NEW v \in Vic, Active(p, v)'
    PROVE  (\E q \in Proc : Active(q, v)) \/ StartThread(v)
<1>0. TypeOK /\ Main \in Proc /\ \A u \in Vic : u \in Proc
    BY DEF IInv, Proc
<1>1. CASE MainNext
  <2>1. ASSUME NEW u \in Vic, u # v, StartThread(u) PROVE Active(p, v)
    BY <1>0, <2>1 DEF StartThread, Active, TypeOK, toolVars
  <2>2. CASE WaitLock \/ WaitBlock \/ WaitPoll \/ \E u \in Vic : BeginWait(u)
    BY <2>2 DEF WaitLock, WaitBlock, WaitPoll, BeginWait, Active, memory, toolVars
  <2> QED BY <1>1, <2>1, <2>2 DEF MainNext
<1>2. ASSUME NEW q \in Proc, NEW u \in Vic, FlowNext(q, u) PROVE Active(p, v)
  <2>1. FlowEffect(q, u)
    BY <1>2, FlowEffects
  <2> QED BY <2>1 DEF FlowEffect, Active, Ended
<1>3. ASSUME NEW q \in Proc, PrepNext(q) PROVE Active(p, v)
  <2>1. PrepEffect(q)
    BY <1>3, PrepEffects
  <2> QED BY <2>1 DEF PrepEffect, Active
<1>4. CASE RunTool \/ SendStart
    BY <1>4 DEF RunTool, SendStart, memory, Active
<1>5. CASE DumpFails
    BY <1>0, <1>5 DEF DumpFails, memory, Active, TypeOK
<1>6. CASE Dump
  <2>1. DumpEffect
    BY <1>6, DumpEffects
  <2>2. CASE p \in listed
    BY <1>0, <2>1, <2>2 DEF DumpEffect, Active
  <2>3. CASE p \notin listed
    BY <2>1, <2>3 DEF DumpEffect, Active
  <2> QED BY <2>2, <2>3
<1> QED BY <1>1, <1>2, <1>3, <1>4, <1>5, <1>6 DEF Next, ToolNext

\* A wait returns for a flow that is over.
LEMMA PollTells ==
    ASSUME IInv, SplitInv, JoinedAreOver, WaitPoll, ~early, main' = "idle", NEW p \in Proc
    PROVE  ~Active(p, waitFor)
<1>0. /\ TypeOK /\ Stage /\ Main \in Proc /\ Main \notin Vic
      /\ proc[Main] = "up" /\ waitFor \in Vic /\ waitFor \in Proc
      /\ main \in {"polling", "blocked"}
    BY VicAssumption DEF IInv, TypeOK, Proc, WaitPoll
<1>1. main = "blocked" => tool = "done" /\ proc[waitFor] # "up"
    BY DEF WaitPoll, JoinedAreOver
<1>2. main = "polling" =>
        \/ abstr[Main][waitFor] = "thread" /\ flow[Main][waitFor] = "exited"
        \/ abstr[Main][waitFor] = "process" /\ proc[waitFor] = "exited"
    BY DEF WaitPoll, WaitDone
<1>3. CASE proc[waitFor] # "up" /\ tool \in {"start", "done"}
    BY <1>0, <1>3 DEF SplitInv, SplitPlaces, Active, Ended
<1>4. CASE flow[Main][waitFor] = "exited"
  <2>1. CASE tool \in {"start", "done"}
    BY <1>0, <1>4, <2>1 DEF SplitInv, SplitPlaces, Active, Ended
  <2>2. CASE tool \notin {"start", "done"}
    BY <1>0, <1>4, <2>2 DEF SplitInv, OneProcess, Active, Proc
  <2> QED BY <2>1, <2>2
<1>5. abstr[Main][waitFor] = "process" => tool = "done"
    BY <1>0 DEF SplitInv, Kinds
<1> QED BY <1>0, <1>1, <1>2, <1>3, <1>4, <1>5

LEMMA JoinedStep ==
    ASSUME IInv, SplitInv, JoinedAreOver, [Next]_vars PROVE JoinedAreOver'
<1>0. TypeOK /\ joined \subseteq Vic /\ Main \in Proc
    BY DEF IInv, TypeOK, Proc
<1>1. CASE UNCHANGED vars
    BY <1>1 DEF JoinedAreOver, Active, vars, memory, mainVars, toolVars
<1>2. ASSUME Next, ~early' PROVE ~early
    BY <1>2, FlowEffects, PrepEffects DEF Next, FlowEffect, PrepEffect, MainNext, StartThread,
       BeginWait, WaitLock, WaitBlock, WaitPoll, ToolNext, RunTool, ToolGoto, Dump, DumpFails,
       SendStart, SplitInv, EarlyKnown, toolVars
<1>3. ASSUME Next, NEW v \in joined, NEW p \in Proc, ~early PROVE ~Active(p, v)'
  <2>1. v \in Vic /\ ~StartThread(v) /\ \A q \in Proc : ~Active(q, v)
    BY <1>0, <1>3 DEF StartThread, JoinedAreOver
  <2> QED BY <1>3, <2>1, ActiveBefore
<1>4. CASE MainNext
  <2>0. Next /\ tool' = tool /\ early' = early
    BY <1>4 DEF Next, MainNext, StartThread, BeginWait, WaitLock, WaitBlock, WaitPoll, toolVars
  <2>1. CASE joined' = joined
    <3>1. main' = "starting" => main = "starting"
      BY <1>4 DEF MainNext, StartThread, BeginWait, WaitLock, WaitBlock, WaitPoll
    <3>2. main' = "blocked" => main = "blocked" \/ tool = "done"
      <4>1. CASE WaitBlock
        <5>1. abstr[Main][waitFor] = "process" /\ waitFor \in Vic /\ proc[Main] = "up"
          BY <1>0, <4>1 DEF WaitBlock, TypeOK
        <5> QED BY <1>0, <5>1 DEF SplitInv, Kinds
      <4>2. CASE ~WaitBlock
        BY <1>4, <4>2 DEF MainNext, StartThread, BeginWait, WaitLock, WaitPoll
      <4> QED BY <4>1, <4>2
    <3> QED BY <1>3, <2>0, <2>1, <3>1, <3>2 DEF JoinedAreOver
  <2>2. CASE joined' # joined
    <3>1. WaitPoll /\ main' = "idle" /\ joined' = joined \cup {waitFor}
      BY <1>4, <2>2 DEF MainNext, StartThread, BeginWait, WaitLock, WaitBlock, WaitPoll
    <3>2. UNCHANGED <<proc, flow>>
      BY <3>1 DEF WaitPoll, toolVars
    <3>3. ASSUME ~early, NEW p \in Proc PROVE ~Active(p, waitFor)
      BY <3>1, <3>3, PollTells
    <3> QED BY <2>0, <3>1, <3>2, <3>3 DEF JoinedAreOver, Active
  <2> QED BY <2>1, <2>2
<1>5. ASSUME Next, UNCHANGED <<main, joined>>, tool = "done" => tool' = "done"
      PROVE  JoinedAreOver'
    BY <1>2, <1>3, <1>5 DEF JoinedAreOver
<1>6. ASSUME NEW p \in Proc, NEW v \in Vic, FlowNext(p, v) PROVE JoinedAreOver'
  <2>1. FlowEffect(p, v)
    BY <1>6, FlowEffects
  <2>2. joined' = joined
    BY <1>6 DEF FlowNext, ReadPid, Register, Enter, Leave, Return, ReturnThread,
       ReturnProcess, ExitThread, ExitProcess, mainVars
  <2> QED BY <1>5, <1>6, <2>1, <2>2 DEF FlowEffect, Next
<1>7. ASSUME NEW p \in Proc, PrepNext(p) PROVE JoinedAreOver'
  <2>1. PrepEffect(p)
    BY <1>7, PrepEffects
  <2>2. joined' = joined
    BY <1>7 DEF PrepNext, PrepLaunch, PrepTerminate, ReceivePrepare, LockMain, Check, Collect,
       Reopen, Acquire, CountThreads, Report, LeavePoll, Rebind, ReceiveStart, Convert,
       FinishSplit, mainVars
  <2> QED BY <1>5, <1>7, <2>1, <2>2 DEF PrepEffect, Next
<1>8. CASE ToolNext
  <2>1. UNCHANGED <<main, joined>> /\ tool # "done"
    BY <1>8 DEF ToolNext, RunTool, Dump, DumpFails, SendStart, ToolGoto, mainVars
  <2> QED BY <1>5, <1>8, <2>1 DEF Next
<1> QED BY <1>1, <1>4, <1>6, <1>7, <1>8 DEF Next

\* "Wait for an execution flow to finish" (vic.h): a wait that returned, returned
\* for a flow that is in its routine neither as a thread nor as a process, and
\* does not start it again.
THEOREM WaitMeansOver ==
    Spec => [](~early => \A v \in joined, p \in Proc : ~Active(p, v))
<1>1. Init => JoinedAreOver
    BY DEF Init, JoinedAreOver
<1>2. JoinedAreOver => (~early => \A v \in joined, p \in Proc : ~Active(p, v))
    BY DEF JoinedAreOver
<1> QED BY <1>1, <1>2, JoinedStep, InitIInv, StepIInv, SplitInit, SplitStep, PTL DEF Spec

\* The program has one shape at any time: the flows that run are all threads of
\* the first process, or each is in a process of its own; no step of the tool or
\* of a preparation thread leaves some of them behind.
THEOREM KeepsShape == Spec => []Migrating!OneShape
<1>1. IInv /\ SplitInv => Migrating!OneShape
  <2> SUFFICES ASSUME IInv, SplitInv, ~early
               PROVE  Migrating!Threads \/ Migrating!Processes
    BY DEF Migrating!OneShape
  <2>1. CASE tool \in {"start", "done"}
    <3>1. \A v \in Vic : Phase(v) # "over" => Where(v) = v
      BY <2>1, Whereabouts
    <3> QED BY <3>1 DEF Migrating!Processes
  <2>2. CASE tool \notin {"start", "done"}
    <3>1. \A v \in Vic : Where(v) = Main
      BY <2>2, Whereabouts
    <3> QED BY <3>1 DEF Migrating!Threads
  <2> QED BY <2>1, <2>2
<1> QED BY <1>1, SplitInductive, PTL

=============================================================================
