----------------------------- MODULE VicHandover -----------------------------
(***************************************************************************)
(* VicMerge begins where VicSplit ends: a program whose flows were all     *)
(* split off satisfies VicMerge's invariant, whatever its main thread and  *)
(* its flows do at that moment, and VicMerge's initial predicate when they *)
(* do nothing.  What is proved of VicMerge therefore holds of a program    *)
(* that was split before, for any finite number of flows.                  *)
(***************************************************************************)
EXTENDS VicSplitMigration

\* The split program, seen as VicMerge sees it: a merge that was not begun.
Merging == INSTANCE VicMergeProofs WITH
    proc <- [v \in Vic |-> proc[v]],
    program <- proc[Main],
    flow <- [v \in Vic |-> flow[v][v]],
    at <- [v \in Vic |-> v],
    handler <- [v \in Vic |-> "none"],
    backtrace <- [v \in Vic |-> "none"],
    dirty <- [v \in Vic |-> FALSE],
    wprep <- [v \in Vic |-> prep[v]],
    abstr <- [v \in Vic |-> abstr[Main][v]],
    executing <- [v \in Vic |-> reg[Main][v] = "executing"],
    current <- current[Main],
    prep <- prep[Main],
    todo <- todo[Main],
    count <- 0, made <- {}, reaping <- None,
    main <- IF main = "starting" THEN "idle" ELSE main,
    tool <- "idle", unasked <- {}, asking <- None, ready <- {}, infos <- {}

\* The split is over and every flow came through it.
AllMoved == SplitDone /\ ~early /\ \A v \in Vic : Active(v, v)

-----------------------------------------------------------------------------
(* The invariant, on top of the one in VicSplitMigration.                  *)

\* Only those who use a lock have it, or the preparation.
Users ==
    /\ lock[Main][Main] = "user" => main \in {"polling", "blocked"}
    /\ ~early => \A p \in Proc, v \in Vic : lock[p][v] = "user" => flow[p][v] = "critical"

\* The preparation closes the sockets of a flow whose lock it takes.
LockedClosed ==
    ~early => \A p \in Proc, v \in Vic : lock[p][v] = "prep" => sock[p][v] = "closed"

\* The preparation of process p is through with the split.
Through(p) == tool = "done" /\ prep[p] \in {"listen", "gone"}

\* In the copies of the memory, the flows of other processes have no sockets,
\* and their locks are given back in the last loop.
OthersClosed ==
    ~early /\ tool \in {"start", "done"} => \A p \in Proc : proc[p] = "up" =>
        \A v \in listed \ {p} : reg[p][v] = "executing" =>
            /\ sock[p][v] = "closed"
            /\ Through(p) \/ (prep[p] = "reopen" /\ v \notin todo[p]) => lock[p][v] # "prep"

\* The main context is taken care of after the flows.
MainLast ==
    \A p \in Proc : proc[p] = "up" /\ Through(p) =>
        /\ sock[p][Main] = "open" /\ todo[p] = {}
        /\ IF p = Main THEN lock[p][Main] # "prep" ELSE lock[p][Main] = "free"

HandInv == Users /\ LockedClosed /\ OthersClosed /\ MainLast

-----------------------------------------------------------------------------
\* The program starts in the invariant.
LEMMA HandInit == Init => HandInv
<1> SUFFICES ASSUME Init PROVE HandInv
    OBVIOUS
<1>0. Main \in Proc /\ \A v \in Vic : v \in Proc
    BY DEF Proc
<1>1. Users /\ LockedClosed
    BY <1>0 DEF Init, Users, LockedClosed
<1>2. OthersClosed /\ MainLast
    BY DEF Init, OthersClosed, MainLast, Through
<1> QED BY <1>1, <1>2 DEF HandInv

\* A started flow has open sockets, and a lock that nobody has taken.
LEMMA HandStart ==
    ASSUME IInv, SplitInv, HandInv, NEW v \in Vic, StartThread(v) PROVE HandInv'
<1>0. /\ TypeOK /\ Main \in Proc /\ Main \notin Vic /\ \A u \in Vic : u \in Proc
      /\ flow[Main][v] = "none" /\ reg[Main][v] = "idle" /\ proc[Main] = "up"
    BY VicAssumption DEF IInv, Proc, StartThread
<1>1. /\ UNCHANGED <<proc, reg, lock, prep, todo, tool, listed, early, main>>
      /\ \A p \in Proc, u \in Vic : ~(p = Main /\ u = v) => flow'[p][u] = flow[p][u]
      /\ \A p \in Proc, x \in Proc : ~(p = Main /\ x = v) => sock'[p][x] = sock[p][x]
    BY <1>0 DEF StartThread, toolVars, TypeOK
<1>2. lock[Main][v] # "prep"
    BY <1>0 DEF IInv, TargetRegistered
<1>3. early \/ tool = "idle"
    BY <1>0 DEF SplitInv, AllRegistered
<1>4. Users'
    BY <1>0, <1>1 DEF HandInv, Users
<1>5. LockedClosed'
    BY <1>0, <1>1, <1>2 DEF HandInv, LockedClosed
<1>6. OthersClosed'
    BY <1>1, <1>3 DEF OthersClosed
<1>7. MainLast'
    BY <1>0, <1>1 DEF HandInv, MainLast, Through
<1> QED BY <1>4, <1>5, <1>6, <1>7 DEF HandInv

\* The main thread takes its own lock for the time of a poll.
LEMMA HandWait ==
    ASSUME IInv, SplitInv, HandInv,
           \/ WaitLock \/ WaitBlock \/ WaitPoll \/ \E v \in Vic : BeginWait(v)
    PROVE  HandInv'
<1>0. TypeOK /\ Main \in Proc /\ Main \notin Vic /\ \A v \in Vic : v \in Proc
    BY VicAssumption DEF IInv, Proc
<1>1. UNCHANGED <<proc, flow, reg, sock, prep, todo, tool, listed, early>>
    BY DEF BeginWait, WaitLock, WaitBlock, WaitPoll, memory, toolVars
<1>2. /\ \A p \in Proc, x \in Proc : ~(p = Main /\ x = Main) => lock'[p][x] = lock[p][x]
      /\ lock'[Main][Main] = "user" => main' \in {"polling", "blocked"}
      /\ lock'[Main][Main] = "prep" => lock[Main][Main] = "prep"
  <2>1. CASE WaitLock
    BY <1>0, <2>1 DEF WaitLock, TypeOK
  <2>2. CASE WaitPoll
    BY <1>0, <2>2 DEF WaitPoll, TypeOK
  <2>3. CASE WaitBlock
    BY <1>0, <2>3 DEF WaitBlock, memory, HandInv, Users
  <2>4. CASE \E v \in Vic : BeginWait(v)
    BY <1>0, <2>4 DEF BeginWait, memory, HandInv, Users
  <2> QED BY <2>1, <2>2, <2>3, <2>4
<1>3. Users' /\ LockedClosed'
    BY <1>0, <1>1, <1>2 DEF HandInv, Users, LockedClosed
<1>4. OthersClosed' /\ MainLast'
  <2>1. OthersClosed'
    <3> SUFFICES ASSUME ~early, tool \in {"start", "done"}, NEW p \in Proc, proc[p] = "up",
                        NEW v \in listed \ {p}, reg[p][v] = "executing"
                 PROVE  /\ sock[p][v] = "closed"
                        /\ Through(p) \/ (prep[p] = "reopen" /\ v \notin todo[p]) =>
                               lock'[p][v] # "prep"
      BY <1>1 DEF OthersClosed, Through
    <3>1. v \in Vic /\ lock'[p][v] = lock[p][v]
      BY <1>0, <1>2 DEF TypeOK
    <3> QED BY <3>1 DEF HandInv, OthersClosed
  <2>2. MainLast'
    BY <1>0, <1>1, <1>2 DEF HandInv, MainLast, Through
  <2> QED BY <2>1, <2>2
<1> QED BY <1>3, <1>4 DEF HandInv

\* A flow takes and gives back its own lock, in its own process.
LEMMA HandFlow ==
    ASSUME IInv, SplitInv, HandInv, NEW p \in Proc, NEW v \in Vic, FlowNext(p, v)
    PROVE  HandInv'
<1>0. /\ TypeOK /\ FlowEffect(p, v) /\ v \in Proc /\ v # Main /\ Main \in Proc
      /\ \A u \in Vic : u \in Proc
    BY VicAssumption, FlowEffects DEF IInv, Proc
<1>1. /\ UNCHANGED <<sock, prep, todo, tool, listed, early, main>>
      /\ \A q \in Proc : proc'[q] = "up" => proc[q] = "up"
      /\ \A q \in Proc, u \in Vic : ~(q = p /\ u = v) =>
            flow'[q][u] = flow[q][u] /\ reg'[q][u] = reg[q][u]
      /\ \A q \in Proc, x \in Proc : lock'[q][x] = "prep" <=> lock[q][x] = "prep"
      /\ lock'[Main][Main] = lock[Main][Main]
      /\ flow[p][v] # "none"
    BY <1>0 DEF FlowEffect, FlowNext, ReadPid, Register, Enter, Leave, Return, ReturnThread,
       ReturnProcess, ExitThread, ExitProcess, memory
<1>2. \A q \in Proc, x \in Proc : ~(q = p /\ x = v) => lock'[q][x] = lock[q][x]
    BY <1>0 DEF FlowNext, ReadPid, Register, Enter, Leave, Return, ReturnThread, ReturnProcess,
       ExitThread, ExitProcess, memory, TypeOK
<1>3. \/ flow'[p][v] = "critical"
      \/ flow[p][v] = "critical" /\ lock'[p][v] = "free"
      \/ flow[p][v] # "critical" /\ lock'[p][v] = lock[p][v]
    BY <1>0 DEF FlowNext, ReadPid, Register, Enter, Leave, Return, ReturnThread, ReturnProcess,
       ExitThread, ExitProcess, memory, FlowStep, TypeOK
<1>4. Users'
  <2>1. ASSUME ~early, NEW q \in Proc, NEW u \in Vic, lock'[q][u] = "user"
        PROVE  flow'[q][u] = "critical"
    <3>1. CASE q = p /\ u = v
      BY <1>3, <2>1, <3>1 DEF HandInv, Users
    <3>2. CASE ~(q = p /\ u = v)
      BY <1>0, <1>1, <1>2, <2>1, <3>2 DEF HandInv, Users
    <3> QED BY <3>1, <3>2
  <2> QED BY <1>1, <2>1 DEF HandInv, Users
<1>5. LockedClosed'
    BY <1>0, <1>1 DEF HandInv, LockedClosed
<1>6. OthersClosed'
  <2> SUFFICES ASSUME ~early, tool \in {"start", "done"}, NEW q \in Proc, proc'[q] = "up",
                      NEW u \in listed \ {q}, reg'[q][u] = "executing"
               PROVE  /\ sock[q][u] = "closed"
                      /\ Through(q) \/ (prep[q] = "reopen" /\ u \notin todo[q]) =>
                             lock'[q][u] # "prep"
    BY <1>1 DEF OthersClosed, Through
  <2>1. u \in Vic /\ u \in listed /\ u # q
    BY <1>0 DEF TypeOK
  <2>2. flow[q][u] = "none"
    BY <2>1 DEF SplitInv, SplitPlaces
  <2>3. reg[q][u] = "executing" /\ proc[q] = "up"
    BY <1>1, <2>1, <2>2
  <2>4. lock'[q][u] = "prep" <=> lock[q][u] = "prep"
    BY <1>0, <1>1, <2>1
  <2> QED BY <2>1, <2>3, <2>4 DEF HandInv, OthersClosed
<1>7. MainLast'
    BY <1>0, <1>1, <1>2 DEF HandInv, MainLast, Through
<1> QED BY <1>4, <1>5, <1>6, <1>7 DEF HandInv

\* A step of the preparation that takes no lock, and gives none back.
LEMMA HandPrepare ==
    ASSUME IInv, SplitInv, HandInv, NEW p \in Proc,
           \/ PrepLaunch(p) \/ PrepTerminate(p) \/ ReceivePrepare(p) \/ CountThreads(p)
           \/ Report(p) \/ LeavePoll(p) \/ Rebind(p) \/ ReceiveStart(p) \/ Convert(p)
           \/ \E v \in Vic : Check(p, v) \/ Collect(p, v)
    PROVE  HandInv'
<1>0. TypeOK /\ PrepEffect(p) /\ Main \in Proc /\ \A v \in Vic : v \in Proc
    BY PrepEffects DEF IInv, PrepNext, Proc
<1>1. UNCHANGED <<lock, sock, proc, flow, reg, early, main>> /\ proc[p] = "up"
    BY <1>0 DEF PrepEffect, PrepLaunch, PrepTerminate, ReceivePrepare, CountThreads, Report,
       LeavePoll, Rebind, ReceiveStart, Convert, Check, Collect
<1>2. tool' \in {"start", "done"} => UNCHANGED <<tool, listed>>
    BY <1>0 DEF PrepEffect
<1>3. \A q \in Proc \ {p} : UNCHANGED <<prep[q], todo[q]>>
    BY <1>0 DEF PrepEffect
<1>4. tool' = "done" /\ prep'[p] \in {"listen", "gone"} =>
          prep[p] = "listen" /\ todo' = todo
  <2>1. tool' = "done" => prep[p] \in {"poll", "rebind", "waitstart", "convert", "reopen",
                                       "listen", "gone"}
    BY <1>1, <1>2 DEF IInv, Stage
  <2> QED BY <1>0, <2>1 DEF PrepLaunch, PrepTerminate, ReceivePrepare, CountThreads, Report,
          LeavePoll, Rebind, ReceiveStart, Convert, Check, Collect, PrepGoto, TypeOK
<1>5. tool' \in {"start", "done"} /\ prep'[p] = "reopen" => todo'[p] = Vic
    BY <1>0 DEF PrepLaunch, PrepTerminate, ReceivePrepare, CountThreads, Report, LeavePoll,
       Rebind, ReceiveStart, Convert, Check, Collect, PrepGoto, TypeOK
<1>6. Users' /\ LockedClosed'
    BY <1>1 DEF HandInv, Users, LockedClosed
<1>7. OthersClosed'
  <2> SUFFICES ASSUME ~early, tool' \in {"start", "done"}, NEW q \in Proc, proc[q] = "up",
                      NEW u \in listed' \ {q}, reg[q][u] = "executing"
               PROVE  /\ sock[q][u] = "closed"
                      /\ Through(q)' \/ (prep'[q] = "reopen" /\ u \notin todo'[q]) =>
                             lock[q][u] # "prep"
    BY <1>1 DEF OthersClosed
  <2>1. u \in Vic /\ UNCHANGED <<tool, listed>>
    BY <1>0, <1>2 DEF TypeOK
  <2>2. Through(q)' \/ (prep'[q] = "reopen" /\ u \notin todo'[q]) =>
            Through(q) \/ (prep[q] = "reopen" /\ u \notin todo[q])
    <3>1. CASE q = p
      BY <1>4, <1>5, <2>1, <3>1 DEF Through
    <3>2. CASE q # p
      BY <1>3, <2>1, <3>2 DEF Through
    <3> QED BY <3>1, <3>2
  <2> QED BY <2>1, <2>2 DEF HandInv, OthersClosed
<1>8. MainLast'
  <2> SUFFICES ASSUME NEW q \in Proc, proc[q] = "up", Through(q)'
               PROVE  Through(q) /\ todo'[q] = todo[q]
    BY <1>1 DEF MainLast, HandInv
  <2> QED BY <1>2, <1>3, <1>4 DEF Through
<1> QED BY <1>6, <1>7, <1>8 DEF HandInv

\* The preparation takes locks before the dump ...
LEMMA HandLock ==
    ASSUME IInv, SplitInv, HandInv, NEW p \in Proc, LockMain(p) \/ Acquire(p)
    PROVE  HandInv'
<1>0. /\ TypeOK /\ Main \in Proc /\ Main \notin Vic /\ \A v \in Vic : v \in Proc
      /\ prep[p] \in {"lockmain", "acquire"} /\ proc[p] = "up"
      /\ UNCHANGED <<flow, tool, early, main>>
    BY VicAssumption DEF IInv, Proc, LockMain, Acquire, PrepGoto, mainVars, toolVars
<1>1. tool \notin {"start", "done"}
    BY <1>0 DEF IInv, Stage
<1>2. OthersClosed' /\ MainLast'
    BY <1>0, <1>1 DEF OthersClosed, MainLast, Through
<1>3. /\ lock'[Main][Main] = "user" => lock[Main][Main] = "user"
      /\ \A q \in Proc, v \in Vic :
            \/ lock'[q][v] = "prep" /\ sock'[q][v] = "closed"
            \/ UNCHANGED <<lock[q][v], sock[q][v]>>
  <2>1. CASE LockMain(p)
    BY <1>0, <2>1 DEF LockMain, TypeOK
  <2>2. CASE Acquire(p)
    BY <1>0, <2>2 DEF Acquire, TypeOK
  <2> QED BY <2>1, <2>2
<1>4. Users' /\ LockedClosed'
    BY <1>0, <1>3 DEF HandInv, Users, LockedClosed
<1> QED BY <1>2, <1>4 DEF HandInv

\* ... and gives them back after it, one flow at a time ...
LEMMA HandReopen ==
    ASSUME IInv, SplitInv, HandInv, NEW p \in Proc, NEW v \in Vic, Reopen(p, v)
    PROVE  HandInv'
<1>0. /\ TypeOK /\ Main \in Proc /\ Main \notin Vic /\ \A u \in Vic : u \in Proc
      /\ prep[p] = "reopen" /\ prep' = prep /\ proc[p] = "up"
      /\ UNCHANGED <<proc, flow, reg, tool, listed, early, main>>
    BY VicAssumption DEF IInv, Proc, Reopen, PrepGoto, TypeOK, mainVars, toolVars
<1>1. /\ \A q \in Proc, x \in Proc :
            ~(q = p /\ x = v) => UNCHANGED <<lock[q][x], sock[q][x]>>
      /\ lock'[p][v] = "user" => lock[p][v] = "user"
      /\ p # v => sock'[p][v] = sock[p][v]
      /\ reg[p][v] = "executing" => lock'[p][v] # "prep"
      /\ reg[p][v] # "executing" => UNCHANGED <<lock[p][v], sock[p][v]>>
      /\ todo'[p] = todo[p] \ {v} /\ \A q \in Proc \ {p} : todo'[q] = todo[q]
  <2>1. CASE reg[p][v] = "executing"
    BY <1>0, <2>1 DEF Reopen, TypeOK
  <2>2. CASE reg[p][v] # "executing"
    BY <1>0, <2>2 DEF Reopen, TypeOK
  <2> QED BY <2>1, <2>2
<1>2. Users'
    BY <1>0, <1>1 DEF HandInv, Users
<1>3. LockedClosed'
    BY <1>0, <1>1 DEF HandInv, LockedClosed
<1>4. OthersClosed'
  <2> SUFFICES ASSUME ~early, tool \in {"start", "done"}, NEW q \in Proc, proc[q] = "up",
                      NEW u \in listed \ {q}, reg[q][u] = "executing"
               PROVE  /\ sock'[q][u] = "closed"
                      /\ Through(q) \/ (prep[q] = "reopen" /\ u \notin todo'[q]) =>
                             lock'[q][u] # "prep"
    BY <1>0 DEF OthersClosed, Through
  <2>1. u \in Vic /\ u # q /\ u \in Proc
    BY <1>0 DEF TypeOK
  <2>2. /\ sock[q][u] = "closed"
        /\ Through(q) \/ (prep[q] = "reopen" /\ u \notin todo[q]) => lock[q][u] # "prep"
    BY <2>1 DEF HandInv, OthersClosed
  <2>3. CASE q = p /\ u = v
    BY <1>1, <2>1, <2>2, <2>3
  <2>4. CASE ~(q = p /\ u = v)
    BY <1>1, <2>1, <2>2, <2>4
  <2> QED BY <2>3, <2>4
<1>5. MainLast'
    BY <1>0, <1>1 DEF HandInv, MainLast, Through
<1> QED BY <1>2, <1>3, <1>4, <1>5 DEF HandInv

\* ... and the main one last.
LEMMA HandFinish ==
    ASSUME IInv, SplitInv, HandInv, NEW p \in Proc, FinishSplit(p) PROVE HandInv'
<1>0. /\ TypeOK /\ Main \in Proc /\ Main \notin Vic /\ \A u \in Vic : u \in Proc
      /\ prep[p] = "reopen" /\ prep'[p] = "listen" /\ todo[p] = {}
      /\ \A q \in Proc \ {p} : prep'[q] = prep[q]
      /\ UNCHANGED <<proc, flow, reg, todo, tool, listed, early, main>>
    BY VicAssumption DEF IInv, Proc, FinishSplit, PrepGoto, TypeOK, mainVars, toolVars
<1>1. /\ lock'[p][Main] = "free" /\ sock'[p][Main] = "open"
      /\ \A q \in Proc, x \in Proc :
            ~(q = p /\ x = Main) => UNCHANGED <<lock[q][x], sock[q][x]>>
    BY <1>0 DEF FinishSplit, TypeOK
<1>2. Users' /\ LockedClosed'
    BY <1>0, <1>1 DEF HandInv, Users, LockedClosed
<1>3. OthersClosed'
  <2> SUFFICES ASSUME ~early, tool \in {"start", "done"}, NEW q \in Proc, proc[q] = "up",
                      NEW u \in listed \ {q}, reg[q][u] = "executing"
               PROVE  /\ sock[q][u] = "closed"
                      /\ Through(q)' \/ (prep'[q] = "reopen" /\ u \notin todo[q]) =>
                             lock[q][u] # "prep"
    <3>1. \A u \in listed : u \in Vic /\ u \in Proc /\ u # Main
      BY <1>0 DEF TypeOK
    <3> QED BY <1>0, <1>1, <3>1 DEF OthersClosed
  <2>1. u \in Vic
    BY <1>0 DEF TypeOK
  <2>2. Through(q)' \/ (prep'[q] = "reopen" /\ u \notin todo[q]) =>
            Through(q) \/ (prep[q] = "reopen" /\ u \notin todo[q])
    BY <1>0 DEF Through
  <2> QED BY <2>1, <2>2 DEF HandInv, OthersClosed
<1>4. MainLast'
    BY <1>0, <1>1 DEF HandInv, MainLast, Through
<1> QED BY <1>2, <1>3, <1>4 DEF HandInv

\* The dump copies a memory in which every running flow is locked and closed.
LEMMA HandDump == ASSUME IInv, SplitInv, HandInv, Dump PROVE HandInv'
<1>0. /\ TypeOK /\ Stage /\ DumpEffect /\ Main \in Proc /\ Main \notin Vic
      /\ \A v \in Vic : v \in Proc
    BY VicAssumption, DumpEffects DEF IInv, Proc
<1>1. \A p \in Proc : sock'[p] = IF p \in listed THEN sock[Main] ELSE sock[p]
    BY <1>0 DEF Dump, Copied
<1>2. \A p \in Proc : lock'[p] = IF p \in listed THEN lock[Main] ELSE lock[p]
    BY <1>0 DEF DumpEffect
<1>3. ASSUME ~early, NEW p \in Proc, NEW v \in Vic PROVE lock[p][v] # "user"
  <2>1. CASE p = Main
    BY <1>0, <1>3, <2>1, AtDump DEF DumpEffect, HandInv, Users
  <2>2. CASE p # Main
    BY <1>0, <1>3, <2>2 DEF DumpEffect, HandInv, Users, SplitInv, OneProcess, Proc
  <2> QED BY <2>1, <2>2
<1>4. Users'
  <2>1. lock'[Main][Main] = lock[Main][Main] /\ main' = main /\ early' = early
    BY <1>0 DEF DumpEffect
  <2> QED BY <1>0, <1>2, <1>3, <2>1 DEF HandInv, Users
<1>5. LockedClosed'
    BY <1>0, <1>1, <1>2 DEF HandInv, LockedClosed, DumpEffect
<1>6. OthersClosed'
  <2> SUFFICES ASSUME ~early, NEW p \in Proc, proc'[p] = "up",
                      NEW v \in listed \ {p}, reg'[p][v] = "executing"
               PROVE  /\ sock'[p][v] = "closed"
                      /\ ~Through(p)' /\ prep'[p] # "reopen"
    BY <1>0 DEF OthersClosed, DumpEffect
  <2>1. v \in Vic /\ (p \in listed \/ p = Main)
    BY <1>0 DEF DumpEffect, Stage, Proc
  <2>2. reg[Main][v] = "executing" /\ sock'[p][v] = sock[Main][v] /\ prep'[p] = prep[Main]
    BY <1>0, <1>1, <2>1 DEF DumpEffect
  <2>3. Active(Main, v)
    BY <1>0, <2>1, <2>2, AtDump DEF DumpEffect, Active, SplitInv, FlowRecord, Ended
  <2>4. lock[Main][v] = "prep"
    BY <1>0, <2>1, <2>3 DEF DumpEffect, SplitInv, VisitedHeld
  <2>5. sock[Main][v] = "closed"
    BY <1>0, <2>1, <2>4 DEF HandInv, LockedClosed
  <2> QED BY <1>0, <2>2, <2>5 DEF DumpEffect, Through
<1>7. MainLast'
    BY <1>0 DEF MainLast, Through, DumpEffect
<1> QED BY <1>4, <1>5, <1>6, <1>7 DEF HandInv

\* The tool's other steps touch no memory.
LEMMA HandTool ==
    ASSUME IInv, SplitInv, HandInv, RunTool \/ SendStart \/ DumpFails PROVE HandInv'
<1>0. TypeOK /\ Stage /\ UNCHANGED <<lock, sock, flow, reg, prep, todo, main, listed>>
  <2>1. CASE RunTool
    BY <2>1 DEF RunTool, memory, mainVars, IInv
  <2>2. CASE SendStart
    BY <2>2 DEF SendStart, memory, mainVars, IInv
  <2>3. CASE DumpFails
    BY <2>3 DEF DumpFails, memory, mainVars, IInv
  <2> QED BY <2>1, <2>2, <2>3
<1>1. ~early' => ~early
    BY DEF RunTool, SendStart, DumpFails, ToolGoto, SplitInv, EarlyKnown
<1>2. Users' /\ LockedClosed'
    BY <1>0, <1>1 DEF HandInv, Users, LockedClosed
<1>3. CASE RunTool \/ DumpFails
  <2>1. tool' \notin {"start", "done"}
    BY <1>3 DEF RunTool, DumpFails, ToolGoto
  <2> QED BY <1>2, <2>1 DEF HandInv, OthersClosed, MainLast, Through
<1>4. CASE SendStart
  <2>1. tool = "start" /\ proc' = proc /\ early' = early
        /\ \A p \in Proc : proc[p] = "up" => prep[p] \in {"poll", "rebind", "waitstart"}
    BY <1>0, <1>4 DEF SendStart, ToolGoto, Stage
  <2>2. OthersClosed' /\ MainLast'
    BY <1>0, <2>1 DEF HandInv, OthersClosed, MainLast, Through
  <2> QED BY <1>2, <2>2 DEF HandInv
<1> QED BY <1>3, <1>4

\* Every step preserves the invariant.
LEMMA HandStep == IInv /\ SplitInv /\ HandInv /\ [Next]_vars => HandInv'
<1> SUFFICES ASSUME IInv, SplitInv, HandInv, [Next]_vars PROVE HandInv'
    OBVIOUS
<1>1. CASE UNCHANGED vars
    BY <1>1 DEF vars, memory, mainVars, toolVars, HandInv, Users, LockedClosed, OthersClosed,
       MainLast, Through
<1>2. CASE MainNext
    BY <1>2, HandStart, HandWait DEF MainNext
<1>3. ASSUME NEW p \in Proc, PrepNext(p) PROVE HandInv'
    BY <1>3, HandPrepare, HandLock, HandReopen, HandFinish DEF PrepNext
<1>4. CASE ToolNext
    BY <1>4, HandTool, HandDump DEF ToolNext
<1> QED BY <1>1, <1>2, <1>3, <1>4, HandFlow DEF Next

\* Of a flow that runs, every copy of the memory says so.
RecordKept ==
    ~early /\ tool \in {"start", "done"} => \A p \in Proc : proc[p] = "up" =>
        \A v \in listed \ {p} : reg[p][v] = "executing" \/ reg[v][v] = "finished"

\* Every step preserves it.
LEMMA RecordStep == ASSUME IInv, SplitInv, RecordKept, [Next]_vars PROVE RecordKept'
<1>0. /\ TypeOK /\ Stage /\ Main \in Proc /\ Main \notin Vic /\ \A v \in Vic : v \in Proc
      /\ \A v \in listed : v \in Vic
    BY VicAssumption DEF IInv, TypeOK, Proc
<1>1. ASSUME UNCHANGED <<proc, reg, tool, listed, early>> PROVE RecordKept'
    BY <1>1 DEF RecordKept
<1>2. CASE UNCHANGED vars
    BY <1>1, <1>2 DEF vars, memory, toolVars
<1>3. CASE MainNext
    BY <1>1, <1>3 DEF MainNext, StartThread, BeginWait, WaitLock, WaitBlock, WaitPoll, memory,
       toolVars
<1>4. ASSUME NEW q \in Proc, NEW u \in Vic, FlowNext(q, u) PROVE RecordKept'
  <2>0. FlowEffect(q, u)
    BY <1>4, FlowEffects DEF IInv
  <2> SUFFICES ASSUME ~early, tool \in {"start", "done"}, NEW p \in Proc, proc'[p] = "up",
                      NEW v \in listed \ {p}
               PROVE  reg'[p][v] = "executing" \/ reg'[v][v] = "finished"
    BY <2>0 DEF RecordKept, FlowEffect
  <2>1. v \in Vic /\ v \in Proc /\ v \in listed /\ v # p
    BY <1>0
  <2>2. reg'[p][v] = reg[p][v] /\ proc[p] = "up"
    BY <2>0, <2>1 DEF SplitInv, SplitPlaces, FlowEffect
  <2>3. reg[v][v] = "finished" => reg'[v][v] = "finished"
    <3>1. CASE q = v /\ u = v
      BY <2>0, <2>1, <3>1 DEF SplitInv, FlowRecord, FlowEffect, Ended
    <3>2. CASE ~(q = v /\ u = v)
      BY <2>0, <2>1, <3>2 DEF FlowEffect
    <3> QED BY <3>1, <3>2
  <2> QED BY <2>1, <2>2, <2>3 DEF RecordKept
<1>5. ASSUME NEW p \in Proc, PrepNext(p) PROVE RecordKept'
    BY <1>0, <1>5, PrepEffects DEF RecordKept, PrepEffect
<1>6. CASE RunTool \/ DumpFails
    BY <1>6 DEF RunTool, DumpFails, ToolGoto, RecordKept
<1>7. CASE SendStart
    BY <1>7 DEF SendStart, ToolGoto, RecordKept, memory
<1>8. CASE Dump
  <2>0. DumpEffect
    BY <1>8, DumpEffects
  <2> SUFFICES ASSUME ~early, NEW p \in Proc, proc'[p] = "up", NEW v \in listed \ {p}
               PROVE  reg'[p][v] = "executing" \/ reg'[v][v] = "finished"
    BY <2>0 DEF RecordKept, DumpEffect
  <2>1. v \in Vic /\ v \in listed /\ (p \in listed \/ p = Main)
    BY <1>0, <2>0 DEF DumpEffect, Stage, Proc
  <2>2. reg'[p][v] = reg[Main][v] /\ reg'[v][v] = reg[Main][v]
    BY <1>0, <2>0, <2>1 DEF DumpEffect
  <2>3. reg[Main][v] \in {"executing", "finished"}
    BY <1>0, <2>0, <2>1, AtDump DEF DumpEffect, SplitInv, FlowRecord, Ended
  <2> QED BY <2>2, <2>3
<1> QED BY <1>2, <1>3, <1>4, <1>5, <1>6, <1>7, <1>8 DEF Next, ToolNext

\* The main thread waits for a flow when it has started them all.
NoWaitYet == main = "starting" => waitFor = None

\* Every step preserves it.
LEMMA NoWaitStep == ASSUME NoWaitYet, [Next]_vars PROVE NoWaitYet'
<1>1. CASE UNCHANGED <<main, waitFor>>
    BY <1>1 DEF NoWaitYet
<1>2. CASE UNCHANGED vars
    BY <1>1, <1>2 DEF vars, mainVars
<1>3. CASE MainNext
    BY <1>3 DEF MainNext, StartThread, BeginWait, WaitLock, WaitBlock, WaitPoll, NoWaitYet
<1>4. ASSUME NEW p \in Proc, NEW v \in Vic, FlowNext(p, v) PROVE NoWaitYet'
    BY <1>1, <1>4 DEF FlowNext, ReadPid, Register, Enter, Leave, Return, ReturnThread,
       ReturnProcess, ExitThread, ExitProcess, mainVars
<1>5. ASSUME NEW p \in Proc, PrepNext(p) PROVE NoWaitYet'
    BY <1>1, <1>5 DEF PrepNext, PrepLaunch, PrepTerminate, ReceivePrepare, LockMain, Check,
       Acquire, CountThreads, Collect, Report, LeavePoll, Rebind, ReceiveStart, Convert, Reopen,
       FinishSplit, mainVars
<1>6. CASE ToolNext
    BY <1>1, <1>6 DEF ToolNext, RunTool, Dump, DumpFails, SendStart, mainVars
<1> QED BY <1>2, <1>3, <1>4, <1>5, <1>6 DEF Next

\* All of it together.
HandoverInv == IInv /\ SplitInv /\ JoinedAreOver /\ HandInv /\ RecordKept /\ NoWaitYet

\* It holds of every behaviour of the split.
THEOREM HandoverInductive == Spec => []HandoverInv
<1>1. Init => HandoverInv
  <2>1. Init => JoinedAreOver /\ RecordKept /\ NoWaitYet
    BY DEF Init, JoinedAreOver, RecordKept, NoWaitYet
  <2> QED BY <2>1, InitIInv, SplitInit, HandInit DEF HandoverInv
<1>2. HandoverInv /\ [Next]_vars => HandoverInv'
    BY StepIInv, SplitStep, JoinedStep, HandStep, RecordStep, NoWaitStep DEF HandoverInv
<1> QED BY <1>1, <1>2, PTL DEF Spec

-----------------------------------------------------------------------------
(* What the merge finds.                                                   *)

\* After the split of flows that all still run: where everybody is ...
LEMMA MovedFlows ==
    ASSUME HandoverInv, AllMoved
    PROVE  /\ listed = Vic /\ joined = {} /\ tool = "done"
           /\ proc[Main] = "up" /\ prep[Main] = "listen" /\ current[Main] = "process"
           /\ \A v \in Vic :
                 /\ proc[v] = "up" /\ prep[v] = "listen"
                 /\ flow[v][v] \in {"running", "critical"}
                 /\ reg[v][v] = "executing"
                 /\ abstr[Main][v] = "process"
<1>0. /\ TypeOK /\ Stage /\ SplitInv /\ Main \in Proc /\ Main \notin Vic
      /\ \A v \in Vic : v \in Proc
    BY VicAssumption DEF HandoverInv, IInv, Proc
<1>1. tool = "done" /\ ~early /\ proc[Main] = "up"
    BY <1>0 DEF AllMoved, SplitDone, Stage
<1>2. \A p \in Proc : proc[p] = "up" => current[p] = "process" /\ prep[p] \in {"listen", "gone"}
    BY DEF AllMoved, SplitDone
<1>3. prep[Main] = "listen" /\ current[Main] = "process"
    BY <1>0, <1>1, <1>2 DEF SplitInv, Ending
<1>4. joined = {}
    BY <1>0, <1>1 DEF AllMoved, HandoverInv, JoinedAreOver, TypeOK
<1>7. ~Straggler
  <2>1. \A v \in Vic : Active(v, v) => v \in listed
    BY <1>0, <1>1 DEF SplitInv, SplitPlaces, Active, Ended
  <2>2. \A v \in Vic : \A p \in Vic \ {v} : flow[p][v] = "none"
    BY <1>0, <1>1, <2>1 DEF SplitInv, SplitPlaces, AllMoved
  <2> QED BY <2>2 DEF Straggler
<1>5. ASSUME NEW v \in Vic
      PROVE  /\ v \in listed /\ proc[v] = "up" /\ prep[v] = "listen"
             /\ flow[v][v] \in {"running", "critical"}
             /\ reg[v][v] = "executing" /\ abstr[Main][v] = "process"
  <2>1. Active(v, v) /\ proc[v] = "up" /\ v \in Proc
    BY <1>0 DEF AllMoved, Active
  <2>2. v \in listed
    BY <1>1, <1>0, <2>1 DEF SplitInv, SplitPlaces, Active, Ended
  <2>3. prep[v] = "listen"
    BY <1>0, <1>1, <1>2, <1>7, <2>1 DEF SplitInv, Ending
  <2>4. flow[v][v] \in {"running", "critical"} /\ reg[v][v] = "executing"
    BY <1>0, <1>1, <2>1 DEF SplitInv, AllRegistered, FlowRecord, Active
  <2>5. abstr[Main][v] = "process"
    BY <1>0, <1>1, <1>3 DEF SplitInv, Kinds
  <2> QED BY <2>1, <2>2, <2>3, <2>4, <2>5
<1>6. listed = Vic
  <2>1. listed \subseteq Vic
    BY <1>0 DEF TypeOK
  <2>2. \A v \in Vic : v \in listed
    BY <1>5
  <2> QED BY <2>1, <2>2
<1> QED BY <1>1, <1>3, <1>4, <1>5, <1>6

\* ... and what became of the locks, the sockets and Main's records.
LEMMA MovedMemory ==
    ASSUME HandoverInv, AllMoved
    PROVE  /\ \A v \in Vic : reg[Main][v] = "executing"
           /\ \A p \in Proc : sock[p][Main] = "open"
           /\ \A v \in Vic : lock[v][Main] = "free"
           /\ lock[Main][Main] = IF main \in {"polling", "blocked"} THEN "user" ELSE "free"
           /\ \A p \in Proc, v \in Vic : IF p = v
                 THEN /\ sock[v][v] = "open"
                      /\ lock[v][v] = IF flow[v][v] = "critical" THEN "user" ELSE "free"
                 ELSE sock[p][v] = "closed" /\ lock[p][v] = "free"
<1>0. /\ TypeOK /\ HandInv /\ SplitInv /\ Main \in Proc /\ Main \notin Vic
      /\ \A v \in Vic : v \in Proc
      /\ ~early /\ tool = "done" /\ listed = Vic
    BY VicAssumption, MovedFlows DEF HandoverInv, IInv, AllMoved, Proc
<1>1. \A p \in Proc : proc[p] = "up" /\ prep[p] = "listen" /\ Through(p)
    BY <1>0, MovedFlows DEF Proc, Through
<1>2. \A p \in Proc, x \in Proc : lock[p][x] \in {"free", "prep", "user"}
    BY <1>0 DEF TypeOK
<1>3. \A p \in Proc : sock[p][Main] = "open"
    BY <1>0, <1>1 DEF HandInv, MainLast
<1>4. \A v \in Vic : lock[v][Main] = "free"
    BY <1>0, <1>1 DEF HandInv, MainLast
<1>5. lock[Main][Main] = IF main \in {"polling", "blocked"} THEN "user" ELSE "free"
    BY <1>0, <1>1, <1>2 DEF HandInv, MainLast, Users, SplitInv, MainThreadLock
<1>6. ASSUME NEW v \in Vic
      PROVE  /\ sock[v][v] = "open"
             /\ lock[v][v] = IF flow[v][v] = "critical" THEN "user" ELSE "free"
  <2>1. Active(v, v) /\ v \in Proc
    BY <1>0 DEF AllMoved
  <2>2. lock[v][v] # "prep"
    BY <1>0, <1>1, <2>1 DEF HandoverInv, IInv, HeldIsReported, Held
  <2>3. sock[v][v] # "closed" /\ (flow[v][v] = "critical" => lock[v][v] = "user")
    BY <2>1, <2>2 DEF HandoverInv, IInv, LockGuardsSockets
  <2>4. lock[v][v] = "user" => flow[v][v] = "critical"
    BY <1>0, <2>1 DEF HandInv, Users
  <2>5. sock[v][v] \in {"closed", "open"}
    BY <1>0, <2>1 DEF TypeOK
  <2> QED BY <1>2, <2>1, <2>2, <2>3, <2>4, <2>5
<1>7. ASSUME NEW p \in Proc, NEW v \in Vic, p # v
      PROVE  sock[p][v] = "closed" /\ lock[p][v] = "free"
  <2>1. reg[p][v] = "executing"
    BY <1>0, <1>1, <1>7, MovedFlows DEF HandoverInv, RecordKept
  <2>2. sock[p][v] = "closed" /\ lock[p][v] # "prep"
    BY <1>0, <1>1, <1>7, <2>1 DEF HandInv, OthersClosed
  <2>3. flow[p][v] = "none"
    BY <1>0, <1>7 DEF SplitInv, SplitPlaces
  <2> QED BY <1>0, <1>2, <2>2, <2>3 DEF HandInv, Users
<1>8. \A v \in Vic : reg[Main][v] = "executing"
    BY <1>0, <1>1, MovedFlows DEF HandoverInv, RecordKept
<1> QED BY <1>3, <1>4, <1>5, <1>6, <1>7, <1>8

\* Where the split of a program ends the merge may begin: at any moment after a
\* split through which every flow came, the program satisfies the invariant that
\* VicMerge's properties follow from, the one about the waits included.
THEOREM Handover == Spec => [](AllMoved => Merging!MergeInv /\ Merging!WaitInv)
<1>1. HandoverInv => (AllMoved => Merging!MergeInv /\ Merging!WaitInv)
  <2> SUFFICES ASSUME HandoverInv, AllMoved PROVE Merging!MergeInv /\ Merging!WaitInv
    OBVIOUS
  <2>0. TypeOK /\ Main \in Proc /\ Main \notin Vic /\ \A v \in Vic : v \in Proc
    BY VicAssumption DEF HandoverInv, IInv, Proc
  <2>1. Merging!TypeOK
    BY <2>0, MovedFlows
    DEF Merging!TypeOK, Merging!FlowState, Merging!WorkerPrepState, Merging!PrepState,
        Merging!ToolState, Merging!Proc, TypeOK, Proc
  <2>2. Merging!Stages /\ Merging!Places /\ Merging!Answering /\ Merging!Asked
    BY MovedFlows
    DEF Merging!Stages, Merging!Places, Merging!Answering, Merging!Asked, Merging!WorkerPrepState
  <2>3. Merging!HeldInChild
    BY MovedFlows DEF Merging!HeldInChild
  <2>4. Merging!HeldInMain
    BY <2>0, MovedFlows, MovedMemory DEF Merging!HeldInMain
  <2>5. Merging!InsideOwnLock /\ Merging!ClosedBehindLock
    BY <2>0, MovedFlows, MovedMemory DEF Merging!InsideOwnLock, Merging!ClosedBehindLock
  <2>6. Merging!Exported /\ Merging!Counted
    BY MovedFlows DEF Merging!Exported, Merging!Counted
  <2>7. Merging!WaitInv
    BY MovedFlows, MovedMemory
    DEF Merging!WaitInv, Merging!Kinds, Merging!MainThreadLock, Merging!JoinedAreOver
  <2>8. Merging!Converted /\ Merging!ExecutingKept
    BY MovedFlows, MovedMemory DEF Merging!Converted, Merging!ExecutingKept
  <2> QED BY <2>1, <2>2, <2>3, <2>4, <2>5, <2>6, <2>7, <2>8 DEF Merging!MergeInv
<1> QED BY <1>1, HandoverInductive, PTL

\* If then no flow is in its critical section and no wait was begun, that is the
\* state VicMerge starts from: its initial states are states the split reaches.
THEOREM HandoverStart ==
    Spec => [](AllMoved /\ main = "starting" /\ (\A v \in Vic : flow[v][v] = "running")
               => Merging!Init)
<1>1. HandoverInv =>
        (AllMoved /\ main = "starting" /\ (\A v \in Vic : flow[v][v] = "running")
           => Merging!Init)
  <2> SUFFICES ASSUME HandoverInv, AllMoved, main = "starting",
                      \A v \in Vic : flow[v][v] = "running"
               PROVE  Merging!Init
    OBVIOUS
  <2>0. waitFor = None /\ joined = {}
    BY MovedFlows DEF HandoverInv, NoWaitYet
  <2>1. todo[Main] = {}
    BY MovedFlows DEF HandoverInv, HandInv, MainLast, Through, Proc
  <2>2. lock = [p \in Proc |-> [x \in Proc |-> "free"]]
    <3>1. \A p \in Proc, x \in Proc : lock[p][x] = "free"
      BY MovedMemory DEF Proc
    <3> QED BY <3>1 DEF HandoverInv, IInv, TypeOK
  <2>3. sock = [p \in Proc |-> [x \in Proc |-> IF x \in {p, Main} THEN "open" ELSE "closed"]]
    <3>1. \A p \in Proc, x \in Proc : sock[p][x] = IF x \in {p, Main} THEN "open" ELSE "closed"
      BY MovedMemory DEF Proc
    <3> QED BY <3>1 DEF HandoverInv, IInv, TypeOK
  <2>4. [v \in Vic |-> reg[Main][v] = "executing"] = [v \in Vic |-> TRUE]
    <3>1. ASSUME NEW v \in Vic PROVE (reg[Main][v] = "executing") = TRUE
      BY MovedMemory
    <3> QED BY <3>1, Zenon
  <2> QED BY <2>0, <2>1, <2>2, <2>3, <2>4, MovedFlows DEF Merging!Init, Merging!Proc, Proc
<1> QED BY <1>1, HandoverInductive, PTL

=============================================================================
