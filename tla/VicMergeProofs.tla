-------------------------- MODULE VicMergeProofs --------------------------
(***************************************************************************)
(* The safety properties of VicMerge, and that it implements Migration:    *)
(* for any finite number of flows, whenever routines return and whether or *)
(* not standard input is readable.                                         *)
(***************************************************************************)
EXTENDS VicMerge, FiniteSetTheorems, TLAPS

-----------------------------------------------------------------------------
(* The invariant.                                                          *)

\* How far Main's preparation is when the tool is at a given step.
Stages ==
    /\ tool \in {"idle", "ask", "asking", "prepare"} => prep = "listen"
    /\ tool = "listing" =>
           prep \in {"lockmain", "lockall", "count", "create", "reap", "report"}
    /\ tool \in {"dump", "start", "failed"} => prep \in {"poll", "waitstart"}
    /\ tool = "done" => prep \in {"convert", "reopen", "listen"}
    /\ tool \in {"idle", "ask", "asking", "prepare", "dump"} => program = "up"

\* The tool alone moves a flow, into Main, and then no child is left.
Places == \A v \in Vic :
    /\ at[v] = v \/ (at[v] = Main /\ tool \in {"start", "done"})
    /\ tool \in {"start", "done", "failed"} => proc[v] = "gone"

\* A child works on an answer only while the tool waits for it, and ends then;
\* it answers "done" when its flow is over.
Answering ==
    /\ \A v \in Vic : wprep[v] \in WorkerPrepState \ {"listen", "gone"} => asking = v
    /\ \A v \in ready : wprep[v] = "gone"
    /\ \A v \in Vic : wprep[v] = "done" => flow[v] \notin {"running", "critical"}

\* Every living child that runs is yet to be asked, or has answered "ready".
Asked ==
    /\ tool # "idle" => \A v \in Vic :
           proc[v] = "up" /\ at[v] = v /\ flow[v] \in {"running", "critical"} =>
               v \in unasked \/ asking = v \/ v \in ready
    /\ tool \notin {"idle", "ask", "asking"} => unasked = {}

\* A child that has locked its flow keeps it locked.
HeldInChild ==
    \A v \in Vic : wprep[v] \in {"pause", "resume", "export", "ready"} \/ v \in ready =>
        lock[v][v] = "prep"

\* Main holds all its locks from before the count until the last loop, which
\* gives them back one by one, to the contexts with an executing flow.
HeldInMain ==
    /\ \A v \in Vic :
        IF prep \in {"count", "create", "reap", "report", "poll", "waitstart", "convert"}
              \/ (prep = "reopen" /\ v \in todo)
        THEN lock[Main][v] = "prep"
        ELSE prep \in {"reopen", "listen"} /\ executing[v] => lock[Main][v] # "prep"
    /\ prep = "listen" => lock[Main][Main] # "prep"

\* A flow in its critical section holds the lock of the process it is in, and
\* closed sockets are behind a lock that the preparation holds there.
InsideOwnLock == \A v \in Vic : flow[v] = "critical" => lock[at[v]][v] = "user"
ClosedBehindLock ==
    \A v \in Vic : lock[at[v]][v] # "prep" => sock[at[v]][v] = "open"

\* A suspended thread has written its backtrace; a child that exports has
\* resumed it; what it exported stays true.
Exported ==
    \A v \in Vic :
        /\ handler[v] = "suspended" => backtrace[v] = "written"
        /\ wprep[v] \in {"export", "ready"} \/ v \in ready =>
               backtrace[v] = "written" /\ handler[v] \in {"none", "resuming"}
        /\ (wprep[v] = "ready" \/ v \in ready) /\ at[v] = v => ~dirty[v]

\* The children are among those that were counted; the threads are as many.
Counted ==
    /\ tool \in {"listing", "dump"} /\ prep \notin {"lockmain", "lockall", "count"} =>
           \E C \in SUBSET Vic : Children \subseteq C /\ count = Cardinality(C)
    /\ program = "up" /\ tool \in {"listing", "dump"} /\ prep \in {"report", "poll", "waitstart"} =>
           count = Cardinality(made)
    /\ tool = "dump" => infos = made

\* The last loop finds every context a thread, and executing while its flow runs.
Converted == prep = "reopen" => \A v \in Vic : abstr[v] = "thread"
ExecutingKept == \A v \in Vic : flow[v] \in {"running", "critical"} => executing[v]

MergeInv ==
    /\ TypeOK /\ Stages /\ Places /\ Answering /\ Asked /\ HeldInChild /\ HeldInMain
    /\ InsideOwnLock /\ ClosedBehindLock /\ Exported /\ Counted /\ Converted /\ ExecutingKept

-----------------------------------------------------------------------------
LEMMA ProcFacts == Main \in Proc /\ Main \notin Vic /\ \A v \in Vic : v \in Proc /\ v # Main
BY VicAssumption DEF Proc

\* The program starts in the invariant.
LEMMA MergeInit == Init => MergeInv
<1> SUFFICES ASSUME Init PROVE MergeInv
    OBVIOUS
<1>1. TypeOK
    BY ProcFacts, VicAssumption
    DEF Init, TypeOK, Proc, FlowState, WorkerPrepState, PrepState, ToolState
<1>2. Stages /\ Places /\ Answering /\ Asked
    BY DEF Init, Stages, Places, Answering, Asked
<1>3. HeldInChild /\ HeldInMain /\ InsideOwnLock /\ ClosedBehindLock
    BY ProcFacts DEF Init, HeldInChild, HeldInMain, InsideOwnLock, ClosedBehindLock
<1>4. Exported /\ Counted /\ Converted /\ ExecutingKept
    BY DEF Init, Exported, Counted, Converted, ExecutingKept
<1> QED BY <1>1, <1>2, <1>3, <1>4 DEF MergeInv

\* What the invariant does not mention may change.
LEMMA MergeStutter ==
    ASSUME MergeInv,
           UNCHANGED <<proc, program, flow, at, handler, backtrace, dirty, wprep, lock, sock,
                       abstr, executing, prep, todo, count, made, tool, unasked, asking, ready,
                       infos>>,
           TypeOK'
    PROVE  MergeInv'
BY DEF MergeInv, Stages, Places, Answering, Asked, HeldInChild, HeldInMain, InsideOwnLock,
       ClosedBehindLock, Exported, Counted, Children, Converted, ExecutingKept

-----------------------------------------------------------------------------
(* The main thread.                                                        *)

LEMMA MainTypeOK == ASSUME TypeOK, MainNext PROVE TypeOK'
<1> USE DEF TypeOK, flowVars, memory, prepVars, toolVars
<1>1. ASSUME NEW v \in Vic, BeginWait(v) PROVE TypeOK'
    BY <1>1 DEF BeginWait
<1>2. CASE WaitLock
    BY <1>2, ProcFacts DEF WaitLock
<1>3. CASE WaitBlock
    BY <1>3 DEF WaitBlock
<1>4. CASE WaitPoll
  <2>1. /\ main' \in {"idle", "sleeping"} /\ waitFor' \in Vic \cup {None}
        /\ joined' \in SUBSET Vic
        /\ main' = "sleeping" => waitFor' \in Vic
    BY <1>4 DEF WaitPoll
  <2>2. lock' \in [Proc -> [Proc -> {"free", "prep", "user"}]]
    BY <1>4, ProcFacts DEF WaitPoll
  <2>3. proc' \in [Vic -> {"up", "exited", "gone"}]
    <3>1. waitFor \in Vic /\ (proc' = proc \/ Reap(waitFor))
      BY <1>4 DEF WaitPoll
    <3>2. ASSUME NEW w \in Vic, Reap(w) PROVE proc' \in [Vic -> {"up", "exited", "gone"}]
      BY <3>2 DEF Reap
    <3> QED BY <3>1, <3>2
  <2>4. UNCHANGED <<program, flow, at, handler, backtrace, dirty, wprep, sock, prepVars, toolVars>>
    BY <1>4 DEF WaitPoll
  <2> QED BY <2>1, <2>2, <2>3, <2>4
<1> QED BY <1>1, <1>2, <1>3, <1>4 DEF MainNext

\* The main thread takes and releases its own lock, and reaps zombies.
LEMMA MainKeeps == ASSUME MergeInv, MainNext PROVE MergeInv'
<1>0. TypeOK' /\ TypeOK
    BY MainTypeOK DEF MergeInv
<1>1. /\ UNCHANGED <<program, flow, at, handler, backtrace, dirty, wprep, sock, abstr, executing,
                     prep, todo, count, made, tool, unasked, asking, ready, infos>>
      /\ \A v \in Vic : proc'[v] = proc[v] \/ (proc[v] = "exited" /\ proc'[v] = "gone")
      /\ \A p \in Proc, v \in Vic : lock'[p][v] = lock[p][v]
      /\ lock'[Main][Main] \in {lock[Main][Main], "user", "free"}
  <2>1. CASE WaitLock
    BY <1>0, <2>1, ProcFacts DEF WaitLock, TypeOK, flowVars, prepVars, toolVars
  <2>2. CASE WaitPoll
    BY <1>0, <2>2, ProcFacts DEF WaitPoll, Reap, TypeOK, flowVars, prepVars, toolVars
  <2>3. CASE WaitBlock \/ \E v \in Vic : BeginWait(v)
    BY <2>3 DEF WaitBlock, BeginWait, flowVars, memory, prepVars, toolVars
  <2> QED BY <2>1, <2>2, <2>3 DEF MainNext
<1>2. Stages' /\ Places' /\ Answering' /\ Exported' /\ Converted' /\ ExecutingKept'
    BY <1>0, <1>1 DEF MergeInv, Stages, Places, Answering, Exported, Converted, ExecutingKept
<1>3. Asked' /\ HeldInChild'
    BY <1>0, <1>1, ProcFacts DEF MergeInv, Asked, HeldInChild
<1>4. HeldInMain' /\ InsideOwnLock' /\ ClosedBehindLock'
    BY <1>0, <1>1, ProcFacts DEF MergeInv, HeldInMain, InsideOwnLock, ClosedBehindLock, TypeOK
<1>5. Counted'
  <2>1. Children' \subseteq Children
    BY <1>1 DEF Children
  <2> QED BY <1>1, <2>1 DEF MergeInv, Counted
<1> QED BY <1>0, <1>2, <1>3, <1>4, <1>5 DEF MergeInv

-----------------------------------------------------------------------------
(* The flows.                                                              *)

\* A step of a flow's thread is one of its routine or one of its handlers.
Handles(v) == WriteBacktrace(v) \/ EndHandler(v)

LEMMA FlowTypeOK == ASSUME TypeOK, NEW v \in Vic, FlowNext(v) PROVE TypeOK'
<1>0. at[v] \in Proc /\ v \in Proc
    BY ProcFacts DEF TypeOK
<1> USE DEF TypeOK, FlowStep, FlowState, prepVars, mainVars, toolVars
<1>1. CASE Enter(v)
    BY <1>0, <1>1 DEF Enter
<1>2. CASE Leave(v)
    BY <1>0, <1>2 DEF Leave
<1>3. CASE Return(v)
    BY <1>3 DEF Return
<1>4. CASE Destroy(v)
    BY <1>4 DEF Destroy
<1>5. CASE ExitProcess(v)
    BY <1>5 DEF ExitProcess
<1>6. CASE ExitMerged(v)
    BY <1>6 DEF ExitMerged, flowVars, memory
<1>7. CASE WriteBacktrace(v)
    BY <1>7 DEF WriteBacktrace, memory
<1>8. CASE EndHandler(v)
    BY <1>8 DEF EndHandler, memory
<1>9. CASE ExitThread(v)
    BY <1>9 DEF ExitThread
<1> QED BY <1>1, <1>2, <1>3, <1>4, <1>5, <1>6, <1>7, <1>8, <1>9 DEF FlowNext

\* What a step of a flow's routine does: it takes or gives back the flow's lock
\* in its own process, or goes on outside of it.
FlowEffect(v) ==
    /\ UNCHANGED <<program, at, handler, backtrace, wprep, sock, abstr, prep, todo, count, made,
                   tool, unasked, asking, ready, infos>>
    /\ \A u \in Vic \ {v} : UNCHANGED <<proc[u], flow[u], dirty[u], executing[u]>>
    /\ executing'[v] => executing[v]
    /\ flow'[v] \in {"running", "critical"} => executing'[v] = executing[v]
    /\ proc'[v] = proc[v] \/ (proc[v] = "up" /\ at[v] = v /\ flow[v] = "destroyed" /\ proc'[v] = "exited")
    /\ Alive(v) /\ handler[v] = "none"
    /\ \/ flow[v] \in {"running", "critical"}
       \/ flow[v] \in {"returned", "destroyed"} /\ flow'[v] \in {"destroyed", "exited"}
    /\ flow[v] = "destroyed" => at[v] = v
    /\ \A p \in Proc, x \in Proc : p # at[v] \/ x # v => lock'[p][x] = lock[p][x]
    /\ \/ lock'[at[v]][v] = lock[at[v]][v] /\ dirty'[v] = dirty[v] /\ flow'[v] # "critical"
       \/ /\ lock[at[v]][v] = "free" /\ lock'[at[v]][v] = "user"
          /\ flow'[v] = "critical" /\ dirty'[v] = dirty[v]
       \/ /\ lock[at[v]][v] = "user" /\ lock'[at[v]][v] = "free"
          /\ flow'[v] = "running"

\* It is what every step of a routine does.
LEMMA FlowEffects ==
    ASSUME TypeOK, InsideOwnLock, NEW v \in Vic, FlowNext(v),
           ~Handles(v), ~ExitMerged(v)
    PROVE  FlowEffect(v)
<1>0. at[v] \in Proc /\ v \in Proc
    BY ProcFacts DEF TypeOK
<1>1. CASE Enter(v)
    BY <1>0, <1>1 DEF FlowEffect, Enter, FlowStep, TypeOK, prepVars, toolVars
<1>2. CASE Leave(v)
    BY <1>0, <1>2 DEF FlowEffect, Leave, FlowStep, TypeOK, prepVars, toolVars, InsideOwnLock
<1>3. CASE Return(v) \/ Destroy(v) \/ ExitThread(v)
    BY <1>0, <1>3 DEF FlowEffect, Return, Destroy, ExitThread, FlowStep, TypeOK, prepVars,
       toolVars
<1>4. CASE ExitProcess(v)
    BY <1>0, <1>4, ProcFacts DEF FlowEffect, ExitProcess, FlowStep, Alive, TypeOK, prepVars, toolVars
<1> QED BY <1>1, <1>2, <1>3, <1>4 DEF FlowNext, Handles

LEMMA RoutineKeeps ==
    ASSUME MergeInv, NEW v \in Vic, FlowNext(v), ~Handles(v), ~ExitMerged(v)
    PROVE  MergeInv'
<1>0. TypeOK /\ TypeOK' /\ FlowEffect(v) /\ at[v] \in Proc
    BY FlowTypeOK, FlowEffects DEF MergeInv, TypeOK
<1>1. Stages' /\ Places'
    BY <1>0 DEF MergeInv, Stages, Places, FlowEffect
<1>2. Answering'
    BY <1>0 DEF MergeInv, Answering, FlowEffect
<1>3. Asked'
  <2> SUFFICES ASSUME NEW u \in Vic, tool # "idle", proc'[u] = "up", at[u] = u,
                      flow'[u] \in {"running", "critical"}
               PROVE  u \in unasked \/ asking = u \/ u \in ready
    BY <1>0 DEF MergeInv, Asked, FlowEffect
  <2>1. proc[u] = "up" /\ flow[u] \in {"running", "critical"}
    BY <1>0 DEF FlowEffect
  <2> QED BY <2>1 DEF MergeInv, Asked
<1>4. HeldInChild'
  <2> SUFFICES ASSUME NEW u \in Vic, lock[u][u] = "prep" PROVE lock'[u][u] = "prep"
    BY <1>0 DEF MergeInv, HeldInChild, FlowEffect
  <2> QED BY <1>0, ProcFacts DEF FlowEffect
<1>5. HeldInMain'
  <2>1. \A u \in Vic : lock'[Main][u] = "prep" <=> lock[Main][u] = "prep"
    BY <1>0, ProcFacts DEF FlowEffect
  <2>2. lock'[Main][Main] = lock[Main][Main]
    BY <1>0, ProcFacts DEF FlowEffect
  <2>3. \A u \in Vic : executing'[u] => executing[u]
    BY <1>0 DEF FlowEffect
  <2>4. UNCHANGED <<prep, todo>>
    BY <1>0 DEF FlowEffect
  <2> QED BY <2>1, <2>2, <2>3, <2>4 DEF MergeInv, HeldInMain
<1>6. InsideOwnLock' /\ ClosedBehindLock'
  <2>1. ASSUME NEW u \in Vic, u # v PROVE lock'[at[u]][u] = lock[at[u]][u] /\ flow'[u] = flow[u]
    BY <1>0, <2>1, ProcFacts DEF FlowEffect, TypeOK
  <2>2. /\ flow'[v] = "critical" => lock'[at[v]][v] = "user"
        /\ lock'[at[v]][v] = "prep" <=> lock[at[v]][v] = "prep"
    BY <1>0 DEF FlowEffect
  <2>3. UNCHANGED <<at, sock>>
    BY <1>0 DEF FlowEffect
  <2> QED BY <2>1, <2>2, <2>3 DEF MergeInv, InsideOwnLock, ClosedBehindLock
<1>7. Exported'
  <2>1. \A u \in Vic : lock[at[u]][u] = "prep" => dirty'[u] = dirty[u]
    BY <1>0 DEF FlowEffect
  <2> QED BY <1>0, <2>1 DEF MergeInv, Exported, HeldInChild, FlowEffect
<1>8. Counted'
  <2>1. Children' \subseteq Children
    BY <1>0 DEF FlowEffect, Children
  <2> QED BY <1>0, <2>1 DEF MergeInv, Counted, FlowEffect
<1>9. Converted' /\ ExecutingKept'
    BY <1>0 DEF MergeInv, Converted, ExecutingKept, FlowEffect
<1> QED BY <1>0, <1>1, <1>2, <1>3, <1>4, <1>5, <1>6, <1>7, <1>8, <1>9 DEF MergeInv

\* A flow can end Main only after it was merged.
LEMMA ExitMergedKeeps ==
    ASSUME MergeInv, NEW v \in Vic, ExitMerged(v) PROVE MergeInv'
<1>0. TypeOK'
    BY FlowTypeOK DEF MergeInv, FlowNext
<1>1. /\ UNCHANGED <<proc, flow, at, handler, backtrace, dirty, wprep, lock, sock, abstr,
                     executing, prep, todo, count, made, tool, unasked, asking, ready, infos>>
      /\ program' = "ended" /\ tool \in {"start", "done"}
    BY ProcFacts DEF ExitMerged, flowVars, memory, prepVars, toolVars, MergeInv, Places
<1>2. Stages'
    BY <1>1 DEF MergeInv, Stages
<1>3. Counted'
    BY <1>1 DEF MergeInv, Counted, Children
<1> QED BY <1>0, <1>1, <1>2, <1>3 DEF MergeInv, Places, Answering, Asked, HeldInChild,
       HeldInMain, InsideOwnLock, ClosedBehindLock, Exported, Converted, ExecutingKept

\* What a step of a handler does: it writes the backtrace before it suspends the
\* thread, or lets it go on.
HandlerEffect(v) ==
    /\ UNCHANGED <<proc, program, flow, at, dirty, wprep, lock, sock, abstr, executing, prep,
                   todo, count, made, tool, unasked, asking, ready, infos>>
    /\ \A u \in Vic \ {v} : UNCHANGED <<handler[u], backtrace[u]>>
    /\ \/ handler[v] = "dumping" /\ backtrace'[v] = "written"
       \/ handler[v] = "resuming" /\ handler'[v] = "none" /\ backtrace'[v] = backtrace[v]

LEMMA HandlerEffects ==
    ASSUME TypeOK, NEW v \in Vic, Handles(v) PROVE HandlerEffect(v)
BY DEF HandlerEffect, Handles, WriteBacktrace, EndHandler, TypeOK, memory, prepVars, mainVars,
       toolVars

LEMMA HandlerKeeps ==
    ASSUME MergeInv, NEW v \in Vic, Handles(v) PROVE MergeInv'
<1>0. TypeOK /\ TypeOK' /\ HandlerEffect(v)
    BY FlowTypeOK, HandlerEffects DEF MergeInv, FlowNext, Handles
<1>1. UNCHANGED <<proc, program, flow, at, dirty, wprep, lock, sock, abstr, executing, prep,
                  todo, count, made, tool, unasked, asking, ready, infos>>
    BY <1>0 DEF HandlerEffect
<1>2. Exported'
    BY <1>0 DEF MergeInv, Exported, HandlerEffect
<1>3. Counted'
    BY <1>1 DEF MergeInv, Counted, Children
<1> QED BY <1>0, <1>1, <1>2, <1>3 DEF MergeInv, Stages, Places, Answering, Asked, HeldInChild,
       HeldInMain, InsideOwnLock, ClosedBehindLock, Converted, ExecutingKept

-----------------------------------------------------------------------------
(* The children's preparation threads.                                     *)

LEMMA WorkerTypeOK == ASSUME TypeOK, NEW v \in Vic, WorkerNext(v) PROVE TypeOK'
<1> USE DEF TypeOK, WorkerGoto, WorkerPrepState, prepVars, mainVars, memory, toolVars
<1>1. CASE WorkerTerminate(v)
    BY <1>1 DEF WorkerTerminate
<1>2. CASE WorkerReceive(v)
    BY <1>2 DEF WorkerReceive
<1>3. CASE Find(v)
    BY <1>3 DEF Find
<1>4. CASE LockFlow(v)
    BY <1>4, ProcFacts DEF LockFlow
<1>5. CASE Crash(v)
    BY <1>5 DEF Crash, FlowState
<1>6. CASE Pause(v)
    BY <1>6 DEF Pause
<1>7. CASE Resume(v)
    BY <1>7 DEF Resume
<1>8. CASE Export(v)
    BY <1>8 DEF Export
<1>9. CASE Answer(v)
  <2>1. /\ wprep' = [wprep EXCEPT ![v] = "gone"] /\ ready' \in SUBSET Vic
        /\ tool' = "ask" /\ asking' = None
    BY <1>9 DEF Answer
  <2>2. UNCHANGED <<proc, program, flow, at, handler, backtrace, dirty, lock, sock, prepVars,
                    mainVars, unasked, infos>>
    BY <1>9 DEF Answer
  <2> QED BY <2>1, <2>2 DEF ToolState
<1> QED BY <1>1, <1>2, <1>3, <1>4, <1>5, <1>6, <1>7, <1>8, <1>9 DEF WorkerNext

\* What a step of a child's preparation thread does: it goes on by itself, it
\* works on the flow, or it answers the tool.
WorkerEffect(v) ==
    /\ UNCHANGED <<program, at, abstr, executing, prep, todo, count, made, unasked, infos>>
    /\ proc[v] = "up"
    /\ \A u \in Vic \ {v} :
           /\ UNCHANGED <<proc[u], flow[u], handler[u], backtrace[u], dirty[u], wprep[u]>>
           /\ u \in ready' <=> u \in ready
    /\ \A p, x \in Proc : p # v \/ x # v => UNCHANGED <<lock[p][x], sock[p][x]>>
    /\ \/ wprep[v] = "listen" /\ wprep'[v] = "find" /\ asking = v
       \/ wprep[v] = "listen" /\ wprep'[v] = "gone" 
       \/ wprep[v] = "find" /\ wprep'[v] = "lock"
       \/ /\ wprep[v] = "find" /\ wprep'[v] = "done"
          /\ flow[v] \notin {"running", "critical"}
       \/ wprep[v] = "lock" /\ wprep'[v] = "pause" /\ lock'[v][v] = "prep"
       \/ wprep[v] = "lock" /\ wprep'[v] = "gone" /\ proc'[v] = "exited" /\ flow'[v] = "exited"
       \/ /\ wprep[v] = "pause" /\ wprep'[v] = "resume"
          /\ handler'[v] = "dumping"
       \/ /\ wprep[v] = "resume" /\ wprep'[v] = "export"
          /\ handler[v] = "suspended" /\ handler'[v] = "resuming"
       \/ wprep[v] = "export" /\ wprep'[v] = "ready" /\ dirty'[v] = FALSE
       \/ wprep[v] = "ready" /\ wprep'[v] = "gone" /\ v \in ready'
       \/ wprep[v] = "done" /\ wprep'[v] = "gone" /\ ready' = ready
    /\ (wprep[v] = "lock" /\ wprep'[v] = "pause") \/ UNCHANGED <<lock[v][v], sock[v][v]>>
    /\ wprep[v] = "lock" /\ wprep'[v] = "pause" => lock[v][v] = "free"
    /\ (wprep[v] = "lock" /\ wprep'[v] = "gone") \/ UNCHANGED <<proc[v], flow[v]>>
    /\ wprep[v] \in {"pause", "resume"} \/ handler'[v] = handler[v]
    /\ wprep[v] = "pause" \/ backtrace'[v] = backtrace[v]
    /\ wprep[v] = "export" \/ dirty'[v] = dirty[v]
    /\ IF wprep[v] \in {"ready", "done"}
       THEN tool' = "ask" /\ asking' = None
       ELSE UNCHANGED <<tool, asking, ready>>

\* It is what every step of a child's preparation thread does.
LEMMA WorkerEffects ==
    ASSUME TypeOK, NEW v \in Vic, WorkerNext(v) PROVE WorkerEffect(v)
<1>0. v \in Proc
    BY ProcFacts
<1> USE DEF WorkerEffect, WorkerGoto, TypeOK, prepVars, memory, toolVars
<1>1. CASE WorkerTerminate(v) \/ WorkerReceive(v) \/ Find(v)
    BY <1>0, <1>1 DEF WorkerTerminate, WorkerReceive, Find
<1>2. CASE LockFlow(v)
    BY <1>0, <1>2 DEF LockFlow
<1>3. CASE Crash(v)
    BY <1>0, <1>3 DEF Crash
<1>4. CASE Pause(v) \/ Resume(v) \/ Export(v)
    BY <1>0, <1>4 DEF Pause, Resume, Export
<1>5. CASE Answer(v)
    BY <1>0, <1>5 DEF Answer
<1> QED BY <1>1, <1>2, <1>3, <1>4, <1>5 DEF WorkerNext

LEMMA WorkerKeeps == ASSUME MergeInv, NEW v \in Vic, WorkerNext(v) PROVE MergeInv'
<1>0. /\ TypeOK /\ TypeOK' /\ WorkerEffect(v) /\ v \in Proc /\ v # Main
      /\ tool \notin {"start", "done", "failed"} /\ \A u \in Vic : at[u] = u
  <2>1. TypeOK /\ TypeOK' /\ WorkerEffect(v)
    BY WorkerTypeOK, WorkerEffects DEF MergeInv
  <2> QED BY <2>1, ProcFacts DEF WorkerEffect, MergeInv, Places
<1>1. wprep[v] \in {"listen", "gone"} \/ asking = v
    BY <1>0 DEF MergeInv, Answering, TypeOK
<1>2. Stages'
  <2>1. asking = v => tool = "asking"
    BY <1>0, VicAssumption DEF TypeOK
  <2> QED BY <1>0, <1>1, <2>1 DEF MergeInv, Stages, WorkerEffect
<1>3. Places'
    BY <1>0 DEF MergeInv, Places, WorkerEffect
<1>4. Answering'
  <2>1. \A u \in Vic : wprep'[u] \in WorkerPrepState \ {"listen", "gone"} => asking' = u
    BY <1>0, <1>1 DEF MergeInv, Answering, WorkerEffect, WorkerPrepState
  <2>2. \A u \in ready' : wprep'[u] = "gone"
    BY <1>0 DEF MergeInv, Answering, WorkerEffect, TypeOK
  <2>3. \A u \in Vic : wprep'[u] = "done" => flow'[u] \notin {"running", "critical"}
    BY <1>0 DEF MergeInv, Answering, WorkerEffect
  <2> QED BY <2>1, <2>2, <2>3 DEF Answering
<1>5. Asked'
  <2> SUFFICES ASSUME NEW u \in Vic, tool' # "idle", proc'[u] = "up",
                      flow'[u] \in {"running", "critical"}
               PROVE  u \in unasked \/ asking' = u \/ u \in ready'
    BY <1>0 DEF MergeInv, Asked, WorkerEffect
  <2>1. tool # "idle"
    BY <1>0, <1>1, VicAssumption DEF WorkerEffect, TypeOK
  <2>2. CASE u # v
    BY <1>0, <1>1, <2>1, <2>2 DEF MergeInv, Asked, WorkerEffect
  <2>3. CASE u = v
    BY <1>0, <1>1, <2>1, <2>3 DEF MergeInv, Asked, Answering, WorkerEffect
  <2> QED BY <2>2, <2>3
<1>6. HeldInChild'
    BY <1>0, ProcFacts DEF MergeInv, HeldInChild, WorkerEffect
<1>7. HeldInMain'
    BY <1>0, ProcFacts DEF MergeInv, HeldInMain, WorkerEffect
<1>8. InsideOwnLock' /\ ClosedBehindLock'
    BY <1>0, ProcFacts DEF MergeInv, InsideOwnLock, ClosedBehindLock, WorkerEffect
<1>9. Exported'
  <2>1. ASSUME NEW u \in Vic, u # v
        PROVE  /\ handler'[u] = "suspended" => backtrace'[u] = "written"
               /\ wprep'[u] \in {"export", "ready"} \/ u \in ready' =>
                      backtrace'[u] = "written" /\ handler'[u] \in {"none", "resuming"}
               /\ (wprep'[u] = "ready" \/ u \in ready') /\ at'[u] = u => ~dirty'[u]
    BY <1>0, <2>1 DEF MergeInv, Exported, WorkerEffect
  <2>2. v \notin ready
    BY <1>0 DEF MergeInv, Answering, WorkerEffect
  <2>3. /\ handler'[v] = "suspended" => backtrace'[v] = "written"
        /\ wprep'[v] \in {"export", "ready"} \/ v \in ready' =>
               backtrace'[v] = "written" /\ handler'[v] \in {"none", "resuming"}
        /\ wprep'[v] = "ready" \/ v \in ready' => ~dirty'[v]
    BY <1>0, <2>2 DEF MergeInv, Exported, WorkerEffect
  <2> QED BY <2>1, <2>3 DEF Exported
<1>10. Counted'
  <2>1. Children' \subseteq Children
    BY <1>0 DEF WorkerEffect, Children
  <2>2. tool' \in {"listing", "dump"} => tool' = tool
    BY <1>0 DEF WorkerEffect
  <2> QED BY <1>0, <2>1, <2>2 DEF MergeInv, Counted, WorkerEffect
<1>11. Converted' /\ ExecutingKept'
    BY <1>0 DEF MergeInv, Converted, ExecutingKept, WorkerEffect
<1> QED BY <1>0, <1>2, <1>3, <1>4, <1>5, <1>6, <1>7, <1>8, <1>9, <1>10, <1>11 DEF MergeInv

-----------------------------------------------------------------------------
(* The preparation thread of Main.                                         *)

LEMMA PrepTypeOK == ASSUME TypeOK, PrepNext PROVE TypeOK'
<1> USE DEF TypeOK, PrepGoto, PrepState, flowVars, mainVars, memory, toolVars
<1>1. CASE ReceivePrepare
    BY <1>1 DEF ReceivePrepare, ToolState
<1>2. CASE LockMain
    BY <1>2, ProcFacts DEF LockMain
<1>3. CASE LockAll
    BY <1>3, ProcFacts DEF LockAll
<1>4. CASE CountChildren
  <2>1. count' \in Nat
    <3>1. Children \subseteq Vic
      BY DEF Children
    <3> QED BY <1>4, <3>1, VicFinite, FS_Subset, FS_CardinalityType DEF CountChildren
  <2> QED BY <1>4, <2>1 DEF CountChildren
<1>5. ASSUME NEW v \in Vic, CreateThread(v) PROVE TypeOK'
    BY <1>5 DEF CreateThread, Reap
<1>6. ASSUME NEW v \in Vic, WaitChild(v) PROVE TypeOK'
    BY <1>6, VicAssumption DEF WaitChild
<1>7. ASSUME NEW v \in Vic, Reopen(v) PROVE TypeOK'
  <2>1. /\ \/ UNCHANGED <<sock, lock>>
           \/ /\ sock' = [sock EXCEPT ![Main][v] = "open"]
              /\ lock' = [lock EXCEPT ![Main][v] = "free"]
        /\ prep = "reopen" /\ prep' = "reopen" /\ todo' = todo \ {v}
        /\ UNCHANGED <<proc, program, wprep, flowVars, mainVars, abstr, executing, current, count,
                       made, reaping, toolVars>>
    BY <1>7 DEF Reopen
  <2>2. /\ sock' \in [Proc -> [Proc -> {"closed", "open"}]]
        /\ lock' \in [Proc -> [Proc -> {"free", "prep", "user"}]]
    <3>1. CASE UNCHANGED <<sock, lock>>
      BY <3>1
    <3>2. CASE /\ sock' = [sock EXCEPT ![Main][v] = "open"]
               /\ lock' = [lock EXCEPT ![Main][v] = "free"]
      BY <3>2, ProcFacts
    <3> QED BY <2>1, <3>1, <3>2
  <2> QED BY <2>1, <2>2
<1>8. CASE ReapChild
    BY <1>8 DEF ReapChild, Reap
<1>9. CASE CheckCount
    BY <1>9 DEF CheckCount
<1>10. CASE Report
    BY <1>10 DEF Report, ToolState
<1>11. CASE LeavePoll
    BY <1>11 DEF LeavePoll
<1>12. CASE ReceiveStart
    BY <1>12 DEF ReceiveStart, ToolState
<1>13. CASE Convert
    BY <1>13 DEF Convert
<1>14. CASE FinishMerge
    BY <1>14, ProcFacts DEF FinishMerge
<1> QED BY <1>1, <1>2, <1>3, <1>4, <1>5, <1>6, <1>7, <1>8, <1>9, <1>10, <1>11, <1>12,
           <1>13, <1>14 DEF PrepNext

\* What a step of Main's preparation thread does: it goes from one stage to the
\* next and reaps zombies, takes all of Main's locks in two steps, talks to the
\* tool three times, and gives the locks back.
PrepEffect ==
    /\ UNCHANGED <<flow, at, handler, backtrace, dirty, wprep, unasked, asking, ready>>
    /\ \A v \in Vic : proc'[v] = proc[v] \/ (proc[v] = "exited" /\ proc'[v] = "gone")
    /\ \A p \in Vic, x \in Proc : UNCHANGED <<lock[p][x], sock[p][x]>>
    /\ program = "up" /\ (program' = "up" \/ (prep = "create" /\ prep' = "report"))
    /\ \/ prep = "listen" /\ prep' = "lockmain" /\ tool = "prepare" /\ tool' = "listing"
       \/ prep = "lockmain" /\ prep' = "lockall" /\ lock'[Main][Main] = "prep"
       \/ /\ prep = "lockall" /\ prep' = "count"
          /\ \A v \in Vic : lock'[Main][v] = "prep"
       \/ prep = "count" /\ prep' = "create" /\ count' = Cardinality(Children)
       \/ prep \in {"create", "reap"} /\ prep' \in {"create", "reap"}
       \/ /\ prep = "create" /\ prep' = "report"
          /\ program' = "up" => count = Cardinality(made)
       \/ /\ prep = "report" /\ prep' = "poll"
          /\ tool = "listing" /\ tool' = "dump" /\ infos' = made
       \/ prep = "poll" /\ prep' = "waitstart"
       \/ prep = "waitstart" /\ prep' = "convert" /\ tool = "start" /\ tool' = "done"
       \/ /\ prep = "convert" /\ prep' = "reopen" /\ todo' = Vic
          /\ \A v \in Vic : abstr'[v] = "thread"
       \/ \E v \in todo :
             /\ prep = "reopen" /\ prep' = "reopen" /\ todo' = todo \ {v}
             /\ \/ lock'[Main][v] = "free" /\ sock'[Main][v] = "open"
                \/ ~(abstr[v] = "thread" /\ executing[v]) /\ UNCHANGED <<lock[Main][v], sock[Main][v]>>
             /\ \A u \in Proc \ {v} : UNCHANGED <<lock[Main][u], sock[Main][u]>>
       \/ prep = "reopen" /\ prep' = "listen" /\ todo = {} /\ lock'[Main][Main] = "free"
    /\ prep \notin {"lockall", "reopen"} =>
           \A v \in Vic : UNCHANGED <<lock[Main][v], sock[Main][v]>>
    /\ ~(prep = "reopen" /\ prep' = "reopen") =>
           \A v \in Vic : sock'[Main][v] = sock[Main][v]
    /\ prep = "reopen" /\ prep' = "listen" =>
           todo' = todo /\ \A v \in Vic : lock'[Main][v] = lock[Main][v]
    /\ prep \notin {"listen", "report", "waitstart"} => UNCHANGED <<tool, infos>>
    /\ prep = "waitstart" => infos' = infos
    /\ prep \notin {"count", "create", "reap"} => made' = made
    /\ prep # "count" => count' = count
    /\ prep # "convert" => abstr' = abstr
    /\ prep # "create" => executing' = executing
    /\ \A v \in Vic : executing[v] => executing'[v]
    /\ prep = "create" /\ prep' = "report" => made' = made

\* It is what every step of Main's preparation thread does.
LEMMA PrepEffects == ASSUME TypeOK, PrepNext PROVE PrepEffect
<1> USE ProcFacts DEF PrepEffect, PrepGoto, TypeOK, flowVars, memory, toolVars
<1>1. CASE ReceivePrepare
    BY <1>1 DEF ReceivePrepare
<1>2. CASE LockMain
    BY <1>2 DEF LockMain
<1>3. CASE LockAll
    BY <1>3 DEF LockAll
<1>4. CASE CountChildren
    BY <1>4 DEF CountChildren
<1>5. ASSUME NEW v \in Vic, CreateThread(v) PROVE PrepEffect
    BY <1>5 DEF CreateThread, Reap
<1>6. ASSUME NEW v \in Vic, WaitChild(v) PROVE PrepEffect
    BY <1>6 DEF WaitChild
<1>7. ASSUME NEW v \in Vic, Reopen(v) PROVE PrepEffect
  <2>1. CASE abstr[v] = "thread" /\ executing[v]
    BY <1>7, <2>1 DEF Reopen
  <2>2. CASE ~(abstr[v] = "thread" /\ executing[v])
    BY <1>7, <2>2 DEF Reopen
  <2> QED BY <2>1, <2>2
<1>8. CASE ReapChild
    BY <1>8 DEF ReapChild, Reap
<1>9. CASE CheckCount
    BY <1>9 DEF CheckCount
<1>10. CASE Report
    BY <1>10 DEF Report
<1>11. CASE LeavePoll
    BY <1>11 DEF LeavePoll
<1>12. CASE ReceiveStart
    BY <1>12 DEF ReceiveStart
<1>13. CASE Convert
    BY <1>13 DEF Convert
<1>14. CASE FinishMerge
    BY <1>14 DEF FinishMerge
<1> QED BY <1>1, <1>2, <1>3, <1>4, <1>5, <1>6, <1>7, <1>8, <1>9, <1>10, <1>11, <1>12,
           <1>13, <1>14 DEF PrepNext

LEMMA PrepKeeps == ASSUME MergeInv, PrepNext PROVE MergeInv'
<1>0. TypeOK /\ TypeOK' /\ PrepEffect
    BY PrepTypeOK, PrepEffects DEF MergeInv
<1>1. Stages'
    BY <1>0 DEF MergeInv, Stages, PrepEffect, TypeOK, ToolState, PrepState
<1>2. Places'
    BY <1>0 DEF MergeInv, Places, PrepEffect, TypeOK, ToolState
<1>3. Answering' /\ Exported'
    BY <1>0 DEF MergeInv, Answering, Exported, PrepEffect
<1>4. Asked'
    BY <1>0 DEF MergeInv, Asked, PrepEffect
<1>5. HeldInChild'
    BY <1>0, ProcFacts DEF MergeInv, HeldInChild, PrepEffect
<1>6. HeldInMain'
  <2>1. CASE prep = "reopen" /\ prep' = "reopen"
    <3>1. PICK u \in todo :
              /\ todo' = todo \ {u}
              /\ lock'[Main][u] = "free" \/ ~(abstr[u] = "thread" /\ executing[u])
              /\ \A x \in Proc \ {u} : UNCHANGED <<lock[Main][x], sock[Main][x]>>
      BY <1>0, <2>1 DEF PrepEffect
    <3>2. executing' = executing
      BY <1>0, <2>1 DEF PrepEffect
    <3>3. u \in Vic /\ (lock'[Main][u] = "free" \/ ~executing[u])
      BY <1>0, <2>1, <3>1 DEF MergeInv, Converted, TypeOK
    <3> QED BY <2>1, <3>1, <3>2, <3>3, ProcFacts DEF MergeInv, HeldInMain
  <2>2. CASE prep # "reopen"
    BY <1>0, <2>2, ProcFacts DEF MergeInv, HeldInMain, PrepEffect, TypeOK
  <2>3. CASE prep = "reopen" /\ prep' = "listen"
    BY <1>0, <2>3, ProcFacts DEF MergeInv, HeldInMain, PrepEffect, TypeOK
  <2> QED BY <1>0, <2>1, <2>2, <2>3 DEF PrepEffect
<1>7. InsideOwnLock' /\ ClosedBehindLock'
  <2> SUFFICES ASSUME NEW v \in Vic
               PROVE  /\ flow[v] = "critical" => lock'[at[v]][v] = "user"
                      /\ lock'[at[v]][v] # "prep" => sock'[at[v]][v] = "open"
    BY <1>0 DEF InsideOwnLock, ClosedBehindLock, PrepEffect
  <2>1. /\ flow[v] = "critical" => lock[at[v]][v] = "user"
        /\ lock[at[v]][v] # "prep" => sock[at[v]][v] = "open"
    BY DEF MergeInv, InsideOwnLock, ClosedBehindLock
  <2>2. CASE at[v] = v
    BY <1>0, <2>1, <2>2, ProcFacts DEF PrepEffect
  <2>3. CASE at[v] = Main /\ tool \in {"start", "done"}
    <3>1. prep # "lockall"
      BY <2>3 DEF MergeInv, Stages
    <3>2. CASE prep = "reopen" /\ prep' = "reopen"
      <4>1. \A u \in todo : lock[Main][u] = "prep"
        BY <1>0, <3>2 DEF MergeInv, HeldInMain, TypeOK
      <4>2. PICK u \in todo :
                /\ \/ lock'[Main][u] = "free" /\ sock'[Main][u] = "open"
                   \/ UNCHANGED <<lock[Main][u], sock[Main][u]>>
                /\ \A x \in Proc \ {u} : UNCHANGED <<lock[Main][x], sock[Main][x]>>
        BY <1>0, <3>2 DEF PrepEffect
      <4> QED BY <2>1, <2>3, <4>1, <4>2, ProcFacts
    <3>3. CASE ~(prep = "reopen" /\ prep' = "reopen")
      <4>1. lock'[Main][v] = lock[Main][v] /\ sock'[Main][v] = sock[Main][v]
        BY <1>0, <3>1, <3>3 DEF PrepEffect
      <4> QED BY <2>1, <2>3, <4>1
    <3> QED BY <3>2, <3>3
  <2> QED BY <2>2, <2>3 DEF MergeInv, Places
<1>8. Counted'
  <2>1. Children' \subseteq Children /\ Children \in SUBSET Vic
    BY <1>0 DEF PrepEffect, Children
  <2>2. tool' \in {"listing", "dump"} /\ prep' \notin {"lockmain", "lockall", "count"} =>
            \E C \in SUBSET Vic : Children' \subseteq C /\ count' = Cardinality(C)
    BY <1>0, <2>1 DEF MergeInv, Counted, Stages, PrepEffect
  <2>3. program' = "up" /\ tool' \in {"listing", "dump"} /\ prep' \in {"report", "poll", "waitstart"}
            => count' = Cardinality(made')
    BY <1>0 DEF MergeInv, Counted, Stages, PrepEffect
  <2>4. tool' = "dump" => infos' = made'
    BY <1>0 DEF MergeInv, Counted, Stages, PrepEffect
  <2> QED BY <2>2, <2>3, <2>4 DEF Counted
<1>9. Converted' /\ ExecutingKept'
    BY <1>0 DEF MergeInv, Converted, ExecutingKept, PrepEffect
<1> QED BY <1>0, <1>1, <1>2, <1>3, <1>4, <1>5, <1>6, <1>7, <1>8, <1>9 DEF MergeInv

-----------------------------------------------------------------------------
(* The tool.                                                               *)

LEMMA ToolTypeOK == ASSUME TypeOK, ToolNext PROVE TypeOK'
<1> USE DEF TypeOK, ToolGoto, ToolState, flowVars, memory, prepVars, mainVars
<1>1. CASE RunTool
    BY <1>1 DEF RunTool, Children
<1>2. ASSUME NEW v \in Vic, Ask(v) PROVE TypeOK'
    BY <1>2, VicAssumption DEF Ask
<1>3. CASE ReadBacktraces
    BY <1>3 DEF ReadBacktraces
<1>4. CASE Dump
    BY <1>4, ProcFacts DEF Dump
<1>5. CASE DumpFails
    BY <1>5 DEF DumpFails
<1> QED BY <1>1, <1>2, <1>3, <1>4, <1>5 DEF ToolNext

\* At the dump no child works on an answer, and the flows that still run are in
\* their own processes, kept out of their critical sections and moved to Main.
LEMMA AtDump ==
    ASSUME MergeInv, tool = "dump"
    PROVE  /\ program = "up" /\ asking = None
           /\ \A v \in Vic :
                 /\ at[v] = v /\ lock[Main][v] = "prep"
                 /\ v \in ready => flow[v] # "critical"
           /\ \A v \in Vic :
                 Active(v) => v \in ready /\ proc[v] = "up" /\ flow[v] = "running"
           /\ Mergeable => \A v \in Vic : proc[v] = "up" => v \in infos
<1>0. TypeOK /\ program = "up" /\ asking = None /\ prep \in {"poll", "waitstart"}
    BY DEF MergeInv, Stages, TypeOK
<1>1. \A v \in Vic : at[v] = v /\ lock[Main][v] = "prep"
    BY <1>0 DEF MergeInv, Places, HeldInMain
<1>2. \A v \in ready : flow[v] # "critical"
    BY <1>0, <1>1 DEF MergeInv, HeldInChild, InsideOwnLock, TypeOK
<1>3. ASSUME NEW v \in Vic, Active(v)
      PROVE  v \in ready /\ proc[v] = "up" /\ flow[v] = "running"
  <2>1. proc[v] = "up" /\ flow[v] \in {"running", "critical"}
    BY <1>1, <1>3, ProcFacts DEF Active, Alive
  <2>2. v \in ready
    BY <1>0, <1>1, <1>3, <2>1, VicAssumption DEF MergeInv, Asked
  <2> QED BY <1>2, <2>1, <2>2
<1>4. ASSUME Mergeable PROVE \A v \in Vic : proc[v] = "up" => v \in infos
  <2>1. PICK C \in SUBSET Vic : Children \subseteq C /\ count = Cardinality(C)
    BY <1>0 DEF MergeInv, Counted
  <2>2. infos \in SUBSET C
    BY <1>0, <1>4, <2>1 DEF Mergeable, Children, TypeOK
  <2>3. Cardinality(infos) = Cardinality(C)
    BY <1>0, <2>1 DEF MergeInv, Counted
  <2>4. IsFiniteSet(C)
    BY VicFinite, FS_Subset
  <2>5. infos = C
    BY <2>2, <2>3, <2>4, FS_Subset
  <2> QED BY <2>1, <2>5 DEF Children
<1> QED BY <1>0, <1>1, <1>2, <1>3, <1>4

LEMMA ToolKeeps == ASSUME MergeInv, ToolNext PROVE MergeInv'
<1>0. TypeOK /\ TypeOK' /\ UNCHANGED <<wprep, lock, sock, abstr, executing, prep, todo, count, made>>
    BY ToolTypeOK DEF MergeInv, ToolNext, RunTool, Ask, ReadBacktraces, Dump, DumpFails, ToolGoto,
       memory, prepVars
<1>1. CASE RunTool
  <2>1. /\ tool = "idle" /\ tool' = "ask" /\ program = "up" /\ unasked' = Children
        /\ UNCHANGED <<proc, program, flow, at, handler, backtrace, dirty, asking, ready, infos>>
    BY <1>1 DEF RunTool, ToolGoto, flowVars
  <2>2. Stages' /\ Places' /\ Counted'
    BY <1>0, <2>1 DEF MergeInv, Stages, Places, Counted
  <2>3. Asked'
    BY <2>1 DEF Asked, Children
  <2> QED BY <1>0, <2>1, <2>2, <2>3 DEF MergeInv, Answering, HeldInChild, HeldInMain,
          InsideOwnLock, ClosedBehindLock, Exported, Converted, ExecutingKept
<1>2. ASSUME NEW v \in Vic, Ask(v) PROVE MergeInv'
  <2>1. /\ tool = "ask" /\ tool' = "asking" /\ asking' = v /\ unasked' = unasked \ {v}
        /\ UNCHANGED <<proc, program, flow, at, handler, backtrace, dirty, ready, infos>>
    BY <1>2 DEF Ask, ToolGoto, flowVars
  <2>2. asking = None
    BY <1>0, <2>1 DEF TypeOK
  <2>3. Stages' /\ Places' /\ Counted'
    BY <1>0, <2>1 DEF MergeInv, Stages, Places, Counted
  <2>4. Asked'
    BY <2>1, <2>2, VicAssumption DEF MergeInv, Asked
  <2>5. Answering'
    BY <1>0, <2>1, <2>2, VicAssumption DEF MergeInv, Answering
  <2> QED BY <1>0, <2>1, <2>3, <2>4, <2>5 DEF MergeInv, HeldInChild, HeldInMain,
          InsideOwnLock, ClosedBehindLock, Exported, Converted, ExecutingKept
<1>3. CASE ReadBacktraces
  <2>1. /\ tool = "ask" /\ tool' = "prepare" /\ unasked = {}
        /\ UNCHANGED <<proc, program, flow, at, handler, backtrace, dirty, unasked, asking,
                       ready, infos>>
    BY <1>3 DEF ReadBacktraces, ToolGoto, flowVars
  <2>2. Stages' /\ Places' /\ Counted' /\ Asked'
    BY <1>0, <2>1 DEF MergeInv, Stages, Places, Counted, Asked
  <2> QED BY <1>0, <2>1, <2>2 DEF MergeInv, Answering, HeldInChild, HeldInMain,
          InsideOwnLock, ClosedBehindLock, Exported, Converted, ExecutingKept
<1>4. CASE Dump
  <2>1. /\ tool = "dump" /\ tool' = "start" /\ Mergeable
        /\ \A v \in Vic : proc'[v] = "gone" /\ at'[v] = IF v \in infos THEN Main ELSE at[v]
        /\ UNCHANGED <<program, flow, handler, backtrace, dirty, unasked, asking, ready, infos>>
    BY <1>4 DEF Dump, ToolGoto
  <2>2. \A v \in Vic : at[v] = v /\ lock[Main][v] = "prep" /\ (v \in ready => flow[v] # "critical")
    BY <2>1, AtDump
  <2>3. Stages' /\ Counted'
    BY <1>0, <2>1 DEF MergeInv, Stages, Counted
  <2>4. Places' /\ Asked'
    BY <1>0, <2>1, <2>2 DEF MergeInv, Places, Asked
  <2>5. InsideOwnLock' /\ ClosedBehindLock'
    BY <1>0, <2>1, <2>2 DEF MergeInv, InsideOwnLock, ClosedBehindLock, Mergeable
  <2>6. Exported'
    BY <1>0, <2>1, <2>2, ProcFacts DEF MergeInv, Exported
  <2> QED BY <1>0, <2>1, <2>3, <2>4, <2>5, <2>6 DEF MergeInv, Answering, HeldInChild, HeldInMain,
          Converted, ExecutingKept
<1>5. CASE DumpFails
  <2>1. /\ tool = "dump" /\ tool' = "failed" /\ program' = "lost"
        /\ \A v \in Vic : proc'[v] = "gone"
        /\ UNCHANGED <<flow, at, handler, backtrace, dirty, unasked, asking, ready, infos>>
    BY <1>5 DEF DumpFails, ToolGoto, flowVars
  <2>2. Stages' /\ Counted' /\ Places' /\ Asked'
    BY <1>0, <2>1 DEF MergeInv, Stages, Counted, Places, Asked
  <2> QED BY <1>0, <2>1, <2>2 DEF MergeInv, Answering, HeldInChild, HeldInMain,
          InsideOwnLock, ClosedBehindLock, Exported, Converted, ExecutingKept
<1> QED BY <1>1, <1>2, <1>3, <1>4, <1>5 DEF ToolNext

-----------------------------------------------------------------------------
\* Every step keeps the invariant.
LEMMA MergeStep == MergeInv /\ [Next]_vars => MergeInv'
<1> SUFFICES ASSUME MergeInv, [Next]_vars PROVE MergeInv'
    OBVIOUS
<1>1. CASE UNCHANGED vars
  <2>1. TypeOK'
    BY <1>1 DEF MergeInv, TypeOK, vars, flowVars, memory, prepVars, mainVars, toolVars
  <2> QED BY <1>1, <2>1, MergeStutter DEF vars, flowVars, memory, prepVars, toolVars
<1>2. CASE MainNext
    BY <1>2, MainKeeps
<1>3. ASSUME NEW v \in Vic, FlowNext(v) PROVE MergeInv'
    BY <1>3, RoutineKeeps, ExitMergedKeeps, HandlerKeeps
<1>4. ASSUME NEW v \in Vic, WorkerNext(v) PROVE MergeInv'
    BY <1>4, WorkerKeeps
<1>5. CASE PrepNext
    BY <1>5, PrepKeeps
<1>6. CASE ToolNext
    BY <1>6, ToolKeeps
<1> QED BY <1>1, <1>2, <1>3, <1>4, <1>5, <1>6 DEF Next

\* The invariant holds in every reachable state.
THEOREM MergeInductive == Spec => []MergeInv
BY MergeInit, MergeStep, PTL DEF Spec

\* The variables have their types.
THEOREM TypeCorrect == Spec => []TypeOK
<1>1. MergeInv => TypeOK
    BY DEF MergeInv
<1> QED BY <1>1, MergeInductive, PTL

\* What the invariant says of the state: the properties.
LEMMA SocketsInv == MergeInv => SocketsOpenInCriticalSection
BY DEF MergeInv, SocketsOpenInCriticalSection, InsideOwnLock, ClosedBehindLock

LEMMA BacktraceInv == MergeInv => BacktraceBeforeReady
BY DEF MergeInv, BacktraceBeforeReady, Exported

LEMMA StackInv == MergeInv => StackMatchesExport
<1> SUFFICES ASSUME MergeInv, tool = "dump", NEW v \in infos \cap ready
             PROVE  flow[v] # "critical" /\ ~dirty[v]
    BY DEF StackMatchesExport
<1>1. v \in Vic
    BY DEF MergeInv, TypeOK
<1>2. at[v] = v /\ flow[v] # "critical"
    BY <1>1, AtDump
<1> QED BY <1>1, <1>2 DEF MergeInv, Exported

LEMMA LockedInv == MergeInv => NoFlowLeftLocked
BY DEF MergeInv, NoFlowLeftLocked, MergeDone, HeldInMain, ExecutingKept, Active

\* A flow inside its lock has its sockets, before and after it is moved.
THEOREM SocketsOpen == Spec => []SocketsOpenInCriticalSection
BY SocketsInv, MergeInductive, PTL

\* A child that is ready has its complete backtrace, and its thread is suspended no
\* more: the handler of the resuming signal has confirmed it, and may yet return.
THEOREM BacktraceFirst == Spec => []BacktraceBeforeReady
BY BacktraceInv, MergeInductive, PTL

\* What the tool moves agrees with what the child exported.
THEOREM StackFits == Spec => []StackMatchesExport
BY StackInv, MergeInductive, PTL

\* The merge leaves no flow, and not the main thread, locked out.
THEOREM NothingLeftLocked == Spec => []NoFlowLeftLocked
BY LockedInv, MergeInductive, PTL

-----------------------------------------------------------------------------
(* What the merge does with the flows.                                     *)

\* Apart from the tool, nobody moves a flow or ends a child that runs.
LEMMA StaysInPlace ==
    ASSUME TypeOK, [Next]_vars, ~ToolNext
    PROVE  at' = at /\ \A v \in Vic : proc'[v] = "gone" => proc[v] # "up"
<1>1. CASE UNCHANGED vars
    BY <1>1 DEF vars, flowVars
<1>2. CASE MainNext
    BY <1>2 DEF MainNext, BeginWait, WaitLock, WaitBlock, WaitPoll, Reap, flowVars, TypeOK
<1>3. ASSUME NEW v \in Vic, FlowNext(v)
      PROVE  at' = at /\ \A u \in Vic : proc'[u] = "gone" => proc[u] # "up"
    BY <1>3 DEF FlowNext, Enter, Leave, Return, Destroy, ExitProcess, ExitMerged, ExitThread,
       WriteBacktrace, EndHandler, FlowStep, flowVars, TypeOK
<1>4. ASSUME NEW v \in Vic, WorkerNext(v)
      PROVE  at' = at /\ \A u \in Vic : proc'[u] = "gone" => proc[u] # "up"
  <2>1. WorkerEffect(v)
    BY <1>4, WorkerEffects
  <2>2. proc'[v] # "gone"
    BY <2>1 DEF WorkerEffect
  <2> QED BY <2>1, <2>2 DEF WorkerEffect
<1>5. CASE PrepNext
    BY <1>5, PrepEffects DEF PrepEffect
<1> QED BY <1>1, <1>2, <1>3, <1>4, <1>5 DEF Next

\* No flow that runs when the dump ends the processes is left out of the
\* merged program, by any step.
LEMMA NoneLostStep ==
    ASSUME MergeInv, [Next]_vars, program = "up", program' = "up",
           NEW v \in Vic, Active(v), proc'[v] = "gone"
    PROVE  at'[v] = Main
<1>1. CASE ~ToolNext
  <2>1. at' = at /\ proc[v] # "up"
    BY <1>1, StaysInPlace DEF MergeInv
  <2>2. at[v] = Main
    BY <2>1 DEF Active, Alive
  <2> QED BY <2>1, <2>2
<1>2. CASE Dump
  <2>1. /\ tool = "dump" /\ Mergeable
        /\ at'[v] = IF v \in infos THEN Main ELSE at[v]
    BY <1>2 DEF Dump, ToolGoto
  <2> QED BY <2>1, AtDump
<1>3. CASE DumpFails
  BY <1>3 DEF DumpFails
<1>4. CASE RunTool \/ ReadBacktraces \/ \E u \in Vic : Ask(u)
  <2>1. proc' = proc /\ at' = at
    BY <1>4 DEF RunTool, ReadBacktraces, Ask, flowVars
  <2>2. at[v] = Main
    BY <2>1 DEF Active, Alive
  <2> QED BY <2>1, <2>2
<1> QED BY <1>1, <1>2, <1>3, <1>4 DEF ToolNext

\* No flow is lost in a merge, in any behaviour.
THEOREM NoneLost == Spec => NoFlowLost
<1>1. MergeInv /\ [Next]_vars =>
          [program = "up" /\ program' = "up" =>
              \A v \in Vic : Active(v) /\ proc'[v] = "gone" => at'[v] = Main]_vars
    BY NoneLostStep
<1> QED BY <1>1, MergeInductive, PTL DEF Spec, NoFlowLost

-----------------------------------------------------------------------------
(* VicMerge implements Migration.                                          *)

\* One flow goes from one phase to the next, or none does.
PhaseOf == [v \in Vic |-> Phase(v)]

LEMMA OnePhase ==
    ASSUME NEW v \in Vic, at' = at, ~EndingMerged, ~EndingMerged',
           \A u \in Vic \ {v} : Phase(u)' = Phase(u),
           \/ Phase(v)' = Phase(v)
           \/ Phase(v) = "out" /\ Phase(v)' = "in"
           \/ Phase(v) = "in" /\ Phase(v)' = "out"
           \/ Phase(v) = "out" /\ Phase(v)' = "over"
    PROVE  [Migrating!Next]_Migrating!vars
<1>1. PhaseOf' = [PhaseOf EXCEPT ![v] = Phase(v)'] /\ PhaseOf[v] = Phase(v)
    BY DEF PhaseOf
<1>2. EndingMerged' = EndingMerged
    BY DEF EndingMerged
<1>3. CASE Phase(v)' = Phase(v)
  <2>1. PhaseOf' = PhaseOf
    BY <1>3 DEF PhaseOf
  <2> QED BY <1>2, <2>1 DEF Migrating!vars, PhaseOf
<1>4. ASSUME NEW a, NEW b, Phase(v) = a, Phase(v)' = b PROVE Migrating!Step(v, a, b)
    BY <1>1, <1>2, <1>4 DEF Migrating!Step, PhaseOf
<1> QED BY <1>3, <1>4 DEF Migrating!Next, Migrating!Enter, Migrating!Leave, Migrating!Return

\* What changes no phase and moves no flow is no step of Migration.
LEMMA StutterMigrates ==
    ASSUME at' = at, ~EndingMerged, ~EndingMerged', \A v \in Vic : Phase(v)' = Phase(v)
    PROVE  UNCHANGED Migrating!vars
<1>1. EndingMerged' = EndingMerged
    BY DEF EndingMerged
<1> QED BY <1>1 DEF Migrating!vars

\* The steps of a routine are those of Migration.
LEMMA FlowMigrates ==
    ASSUME MergeInv, NEW v \in Vic, FlowNext(v), ~EndingMerged, ~EndingMerged'
    PROVE  [Migrating!Next]_Migrating!vars
<1>0. TypeOK /\ ~ExitMerged(v)
    BY DEF MergeInv, EndingMerged, ExitMerged
<1>1. CASE Handles(v)
  <2>1. UNCHANGED <<proc, program, flow, at>>
    BY <1>1 DEF Handles, WriteBacktrace, EndHandler
  <2>2. \A u \in Vic : Phase(u)' = Phase(u)
    BY <2>1 DEF Phase, Alive
  <2> QED BY <2>1, <2>2, StutterMigrates
<1>2. CASE ~Handles(v)
  <2>1. FlowEffect(v)
    BY <1>0, <1>2, FlowEffects DEF MergeInv
  <2>2. at' = at /\ program' = program /\ Alive(v)
    BY <2>1 DEF FlowEffect
  <2>3. \A u \in Vic \ {v} : Phase(u)' = Phase(u)
    BY <2>1 DEF FlowEffect, Phase, Alive
  <2>4. \/ flow[v] = "running" /\ flow'[v] = "critical" /\ proc' = proc
        \/ flow[v] = "critical" /\ flow'[v] = "running" /\ proc' = proc
        \/ flow[v] = "running" /\ flow'[v] = "returned" /\ proc' = proc
        \/ flow[v] \in {"returned", "destroyed"} /\ flow'[v] \in {"destroyed", "exited"}
    BY <1>0, <1>2 DEF FlowNext, Handles, Enter, Leave, Return, Destroy, ExitProcess, ExitThread,
       FlowStep, TypeOK
  <2>5. \/ Phase(v)' = Phase(v)
        \/ Phase(v) = "out" /\ Phase(v)' = "in"
        \/ Phase(v) = "in" /\ Phase(v)' = "out"
        \/ Phase(v) = "out" /\ Phase(v)' = "over"
    BY <2>2, <2>4 DEF Phase, Alive
  <2> QED BY <2>2, <2>3, <2>5, OnePhase
<1> QED BY <1>1, <1>2

\* A dump that succeeds is the merge of Migration.
LEMMA DumpMigrates ==
    ASSUME MergeInv, Dump, ~EndingMerged, ~EndingMerged' PROVE Migrating!Merge
<1>0. /\ tool = "dump" /\ Mergeable /\ TypeOK
      /\ at' = [v \in Vic |-> IF v \in infos THEN Main ELSE at[v]]
      /\ UNCHANGED <<program, flow>> /\ \A v \in Vic : proc'[v] = "gone"
    BY DEF Dump, ToolGoto, MergeInv
<1>1. /\ program = "up" /\ \A v \in Vic : at[v] = v
      /\ \A v \in Vic : Active(v) => flow[v] = "running"
      /\ \A v \in Vic : proc[v] = "up" <=> v \in infos
    BY <1>0, AtDump DEF Mergeable
<1>2. \A v \in Vic : at'[v] = (IF v \in infos THEN Main ELSE v) /\ v # Main
    BY <1>0, <1>1, ProcFacts
<1>3. \A v \in Vic : Alive(v) <=> v \in infos
    BY <1>1, <1>2 DEF Alive
<1>4. \A v \in Vic : Alive(v)' <=> v \in infos
    BY <1>0, <1>1, <1>2 DEF Alive
<1>5. \A v \in Vic : Phase(v)' = Phase(v) /\ Phase(v) \in {"out", "over"}
  <2> SUFFICES ASSUME NEW v \in Vic PROVE Phase(v)' = Phase(v) /\ Phase(v) \in {"out", "over"}
    OBVIOUS
  <2>1. Phase(v)' = Phase(v)
    BY <1>0, <1>3, <1>4 DEF Phase
  <2>2. Phase(v) \in {"out", "over"}
    BY <1>1 DEF Phase, Active
  <2> QED BY <2>1, <2>2
<1>6. Migrating!Processes
    BY <1>1 DEF Migrating!Processes
<1>7. Migrating!Threads'
  <2> SUFFICES ASSUME NEW v \in Vic, Phase(v)' # "over" PROVE at'[v] = Main
    BY DEF Migrating!Threads
  <2>1. Alive(v)'
    BY DEF Phase
  <2> QED BY <1>2, <1>4, <2>1
<1>8. Migrating!Quiet
    BY <1>5 DEF Migrating!Quiet
<1>9. at' \in [Vic -> Vic \cup {Main}]
    BY <1>0, <1>1
<1>10. EndingMerged' = EndingMerged
    BY DEF EndingMerged
<1> QED BY <1>5, <1>6, <1>7, <1>8, <1>9, <1>10 DEF Migrating!Merge, Migrating!Place

\* A dump that fails ends the program with all its flows.
LEMMA FailMigrates ==
    ASSUME MergeInv, DumpFails, ~EndingMerged, ~EndingMerged' PROVE Migrating!Fail
<1>0. /\ tool = "dump" /\ UNCHANGED <<flow, at>> /\ \A v \in Vic : proc'[v] = "gone"
    BY DEF DumpFails, ToolGoto, flowVars
<1>1. /\ \A v \in Vic : at[v] = v /\ v # Main
      /\ \A v \in Vic : Active(v) => flow[v] = "running"
    BY <1>0, AtDump, ProcFacts
<1>2. \A v \in Vic : Phase(v) # "in"
    BY <1>1 DEF Phase, Active
<1>3. \A v \in Vic : Phase(v)' = "over"
    BY <1>0, <1>1 DEF Phase, Alive
<1>4. EndingMerged' = EndingMerged
    BY DEF EndingMerged
<1> QED BY <1>0, <1>2, <1>3, <1>4 DEF Migrating!Fail, Migrating!Quiet

\* Every step is a step of Migration or none.
LEMMA StepMigrates ==
    ASSUME MergeInv, [Next]_vars PROVE [Migrating!Next]_Migrating!vars
<1>0. TypeOK
    BY DEF MergeInv
<1>1. CASE EndingMerged'
    BY <1>1 DEF Migrating!Next, Migrating!Break
<1>2. CASE ~EndingMerged' /\ EndingMerged
  <2>1. PICK v \in Vic : at[v] = Main /\ flow[v] = "destroyed"
    BY <1>2 DEF EndingMerged
  <2>2. tool \in {"start", "done"} /\ \A u \in Vic : proc[u] = "gone"
    BY <2>1, ProcFacts DEF MergeInv, Places
  <2>3. at'[v] = Main
    BY <1>0, <2>1, <2>2, StaysInPlace DEF ToolNext, RunTool, Ask, ReadBacktraces, Dump, DumpFails,
       ToolGoto
  <2>4. flow'[v] = "destroyed"
    <3>1. CASE UNCHANGED vars \/ MainNext
      BY <2>1, <3>1 DEF vars, flowVars, MainNext, BeginWait, WaitLock, WaitBlock, WaitPoll
    <3>2. ASSUME NEW u \in Vic, FlowNext(u) PROVE flow'[v] = "destroyed"
      <4>1. CASE Handles(u) \/ ExitMerged(u)
        BY <2>1, <4>1 DEF Handles, WriteBacktrace, EndHandler, ExitMerged, flowVars
      <4>2. CASE ~Handles(u) /\ ~ExitMerged(u)
        <5>1. FlowEffect(u)
          BY <1>0, <3>2, <4>2, FlowEffects DEF MergeInv
        <5>2. u # v
          BY <2>1, <5>1, ProcFacts DEF FlowEffect
        <5> QED BY <2>1, <5>1, <5>2 DEF FlowEffect
      <4> QED BY <4>1, <4>2
    <3>3. ASSUME NEW u \in Vic, WorkerNext(u) PROVE flow'[v] = "destroyed"
      BY <1>0, <2>2, <3>3, WorkerEffects DEF WorkerEffect
    <3>4. CASE PrepNext
      BY <1>0, <2>1, <3>4, PrepEffects DEF PrepEffect
    <3>5. CASE ToolNext
      BY <2>2, <3>5 DEF ToolNext, RunTool, Ask, ReadBacktraces, Dump, DumpFails, ToolGoto
    <3> QED BY <3>1, <3>2, <3>3, <3>4, <3>5 DEF Next
  <2> QED BY <1>2, <2>3, <2>4 DEF EndingMerged
<1>3. CASE ~EndingMerged' /\ ~EndingMerged
  <2>1. ASSUME at' = at, \A v \in Vic : Phase(v)' = Phase(v)
        PROVE  [Migrating!Next]_Migrating!vars
    BY <1>3, <2>1, StutterMigrates
  <2>2. CASE UNCHANGED vars
    <3>1. UNCHANGED <<proc, program, flow, at>>
      BY <2>2 DEF vars, flowVars
    <3> QED BY <2>1, <3>1 DEF Phase, Alive
  <2>3. CASE MainNext
    <3>1. /\ UNCHANGED <<program, flow, at>>
          /\ \A v \in Vic : proc'[v] = "up" <=> proc[v] = "up"
      BY <1>0, <2>3 DEF MainNext, BeginWait, WaitLock, WaitBlock, WaitPoll, Reap, flowVars, TypeOK
    <3>2. \A v \in Vic : Phase(v)' = Phase(v)
      BY <3>1 DEF Phase, Alive
    <3> QED BY <2>1, <3>1, <3>2
  <2>4. ASSUME NEW v \in Vic, FlowNext(v) PROVE [Migrating!Next]_Migrating!vars
    BY <1>3, <2>4, FlowMigrates
  <2>5. ASSUME NEW v \in Vic, WorkerNext(v) PROVE [Migrating!Next]_Migrating!vars
    <3>1. WorkerEffect(v) /\ at[v] = v /\ v # Main
      BY <1>0, <2>5, WorkerEffects, ProcFacts DEF MergeInv, Places, WorkerEffect
    <3>2. ASSUME NEW u \in Vic, u # v PROVE Phase(u)' = Phase(u)
      BY <3>1, <3>2 DEF WorkerEffect, Phase, Alive
    <3>3. \/ UNCHANGED <<proc[v], flow[v]>>
          \/ flow[v] = "destroyed" /\ flow'[v] = "exited"
      BY <1>0, <2>5 DEF WorkerNext, WorkerTerminate, WorkerReceive, Find, LockFlow, Crash, Pause,
         Resume, Export, Answer, TypeOK
    <3>4. Phase(v)' = Phase(v)
      BY <3>1, <3>3 DEF WorkerEffect, Phase, Alive
    <3> QED BY <2>1, <3>1, <3>2, <3>4 DEF WorkerEffect
  <2>6. CASE PrepNext
    <3>1. PrepEffect
      BY <1>0, <2>6, PrepEffects
    <3>2. \A v \in Vic : at[v] = Main => program' = "up"
      BY <3>1, ProcFacts DEF MergeInv, Stages, Places, PrepEffect
    <3>3. \A v \in Vic : Alive(v)' <=> Alive(v)
      BY <3>1, <3>2 DEF PrepEffect, Alive
    <3>4. \A v \in Vic : Phase(v)' = Phase(v)
      BY <3>1, <3>3 DEF PrepEffect, Phase
    <3> QED BY <2>1, <3>1, <3>4 DEF PrepEffect
  <2>7. CASE RunTool \/ ReadBacktraces \/ \E v \in Vic : Ask(v)
    <3>1. UNCHANGED <<proc, program, flow, at>>
      BY <2>7 DEF RunTool, ReadBacktraces, Ask, flowVars
    <3>2. \A v \in Vic : Phase(v)' = Phase(v)
      BY <3>1 DEF Phase, Alive
    <3> QED BY <2>1, <3>1, <3>2
  <2>8. CASE Dump
    BY <1>3, <2>8, DumpMigrates DEF Migrating!Next
  <2>9. CASE DumpFails
    BY <1>3, <2>9, FailMigrates DEF Migrating!Next
  <2> QED BY <2>2, <2>3, <2>4, <2>5, <2>6, <2>7, <2>8, <2>9 DEF Next, ToolNext
<1> QED BY <1>1, <1>2, <1>3

\* The merge implements Migration: all flows that run come back to Main in one
\* step, between two operations, unless the program ends with all of them, and
\* none starts or ends anew.
THEOREM Implements == Spec => Migrates
<1>1. Init => Migrating!Init
  <2> SUFFICES ASSUME Init PROVE Migrating!Init
    OBVIOUS
  <2>1. \A v \in Vic : at[v] = v /\ v # Main /\ Phase(v) = "out"
    BY ProcFacts DEF Init, Phase, Alive
  <2>2. EndingMerged = FALSE
    BY <2>1 DEF EndingMerged
  <2>3. at \in [Vic -> Vic \cup {Main}] /\ PhaseOf \in [Vic -> {"new", "out", "in", "over"}]
    BY <2>1 DEF Init, PhaseOf
  <2> QED BY <2>1, <2>2, <2>3 DEF PhaseOf, Migrating!Init, Migrating!TypeOK, Migrating!Place,
          Migrating!Phase, Migrating!Processes
<1> QED BY <1>1, MergeInit, MergeStep, StepMigrates, PTL DEF Spec, Migrates, Migrating!Spec

-----------------------------------------------------------------------------
(* What the wait for a flow says of it.                                    *)

\* Main's records are those of processes until the last steps of the merge.
Kinds == \A v \in Vic :
    /\ tool # "done" => abstr[v] = "process"
    /\ tool = "done" /\ prep \in {"reopen", "listen"} => abstr[v] = "thread"

\* The main thread polls with the main lock, and the preparation works with it:
\* no wait is under way, and none without a time limit, when a flow is moved.
MainThreadLock ==
    /\ main \in {"polling", "blocked"} => lock[Main][Main] = "user"
    /\ prep \notin {"listen", "lockmain"} => lock[Main][Main] = "prep"
    /\ main = "blocked" => tool # "done"

JoinedAreOver == \A v \in joined : ~Active(v)

WaitInv == Kinds /\ MainThreadLock /\ JoinedAreOver

\* No step brings a flow back into its routine.
LEMMA ActiveBefore ==
    ASSUME MergeInv, [Next]_vars, NEW v \in Vic, Active(v)' PROVE Active(v)
<1>0. TypeOK
    BY DEF MergeInv
<1>1. CASE UNCHANGED vars
    BY <1>1 DEF vars, flowVars, Active, Alive
<1>2. CASE MainNext
  <2>1. /\ UNCHANGED <<program, flow, at>>
        /\ \A u \in Vic : proc'[u] = "up" => proc[u] = "up"
    BY <1>0, <1>2 DEF MainNext, BeginWait, WaitLock, WaitBlock, WaitPoll, Reap, flowVars, TypeOK
  <2> QED BY <2>1 DEF Active, Alive
<1>3. ASSUME NEW u \in Vic, FlowNext(u) PROVE Active(v)
  <2>1. CASE Handles(u)
    BY <2>1 DEF Handles, WriteBacktrace, EndHandler, Active, Alive
  <2>2. CASE ExitMerged(u)
    BY <2>2 DEF ExitMerged, Active, Alive, flowVars
  <2>3. CASE ~Handles(u) /\ ~ExitMerged(u)
    <3>1. FlowEffect(u)
      BY <1>0, <1>3, <2>3, FlowEffects DEF MergeInv
    <3> QED BY <3>1 DEF FlowEffect, Active, Alive
  <2> QED BY <2>1, <2>2, <2>3
<1>4. ASSUME NEW u \in Vic, WorkerNext(u) PROVE Active(v)
  <2>1. WorkerEffect(u)
    BY <1>0, <1>4, WorkerEffects
  <2>2. UNCHANGED <<program, at>> /\ (proc'[v] = "up" => proc[v] = "up")
        /\ (flow'[v] = flow[v] \/ flow'[v] = "exited")
    BY <2>1 DEF WorkerEffect
  <2> QED BY <2>2 DEF Active, Alive
<1>5. CASE PrepNext
  <2>1. PrepEffect
    BY <1>0, <1>5, PrepEffects
  <2>2. UNCHANGED <<flow, at>> /\ program = "up" /\ (proc'[v] = "up" => proc[v] = "up")
    BY <2>1 DEF PrepEffect
  <2> QED BY <2>2 DEF Active, Alive
<1>6. CASE RunTool \/ ReadBacktraces \/ \E u \in Vic : Ask(u)
    BY <1>6 DEF RunTool, ReadBacktraces, Ask, Active, Alive, flowVars
<1>7. CASE Dump
  <2>1. /\ program' = program /\ flow' = flow /\ proc'[v] = "gone"
        /\ at'[v] = IF v \in infos THEN Main ELSE at[v]
        /\ tool = "dump" /\ Mergeable
    BY <1>7 DEF Dump, ToolGoto
  <2>2. at[v] = v
    BY <2>1, AtDump
  <2> QED BY <2>1, <2>2, ProcFacts DEF Active, Alive, Mergeable
<1>8. CASE DumpFails
    BY <1>8 DEF DumpFails, Active, Alive, flowVars
<1> QED BY <1>1, <1>2, <1>3, <1>4, <1>5, <1>6, <1>7, <1>8 DEF Next, ToolNext

\* A wait returns for a flow that is over.
LEMMA PollTells ==
    ASSUME MergeInv, WaitInv, WaitPoll, main' = "idle" PROVE ~Active(waitFor)
<1>0. TypeOK /\ waitFor \in Vic /\ main \in {"polling", "blocked"}
    BY DEF MergeInv, TypeOK, WaitPoll
<1>1. prep \in {"listen", "lockmain"}
    BY <1>0 DEF WaitInv, MainThreadLock
<1>2. main = "blocked" => proc[waitFor] # "up" /\ tool \notin {"start", "done"}
    BY <1>1 DEF WaitPoll, WaitInv, MainThreadLock, MergeInv, Stages
<1>3. \/ main = "blocked"
      \/ abstr[waitFor] = "process" /\ proc[waitFor] = "exited"
      \/ abstr[waitFor] = "thread" /\ flow[waitFor] = "exited"
    BY DEF WaitPoll
<1>4. CASE proc[waitFor] # "up" /\ tool \notin {"start", "done"}
    BY <1>0, <1>4, ProcFacts DEF MergeInv, Places, Active, Alive
<1>5. CASE proc[waitFor] = "exited"
  <2>1. tool \notin {"start", "done"}
    BY <1>0, <1>5 DEF MergeInv, Places
  <2> QED BY <1>4, <1>5, <2>1
<1>6. CASE flow[waitFor] = "exited"
    BY <1>6 DEF Active
<1> QED BY <1>2, <1>3, <1>4, <1>5, <1>6

\* The records and the main lock, under the steps of the main thread ...
LEMMA WaitMain ==
    ASSUME MergeInv, WaitInv, MainNext PROVE WaitInv'
<1>0. TypeOK /\ Main \in Proc
    BY ProcFacts DEF MergeInv
<1>1. UNCHANGED <<abstr, prep, tool, program, flow, at>>
    BY DEF MainNext, BeginWait, WaitLock, WaitBlock, WaitPoll, flowVars, prepVars, toolVars
<1>2. Kinds'
    BY <1>1 DEF WaitInv, Kinds
<1>3. MainThreadLock'
  <2>1. CASE \E v \in Vic : BeginWait(v)
    BY <1>1, <2>1 DEF BeginWait, memory, WaitInv, MainThreadLock
  <2>2. CASE WaitLock
    <3>1. lock[Main][Main] = "free" /\ lock'[Main][Main] = "user" /\ main' = "polling"
      BY <1>0, <2>2 DEF WaitLock, TypeOK
    <3> QED BY <1>1, <3>1 DEF WaitInv, MainThreadLock
  <2>3. CASE WaitBlock
    <3>1. /\ main = "polling" /\ main' = "blocked" /\ lock' = lock
          /\ waitFor \in Vic /\ abstr[waitFor] = "process"
      BY <1>0, <2>3 DEF WaitBlock, memory, TypeOK
    <3>2. prep \in {"listen", "lockmain"}
      BY <3>1 DEF WaitInv, MainThreadLock
    <3>3. tool # "done"
      BY <3>1, <3>2 DEF WaitInv, Kinds, MergeInv, Stages
    <3> QED BY <1>1, <3>1, <3>3 DEF WaitInv, MainThreadLock
  <2>4. CASE WaitPoll
    <3>1. lock[Main][Main] = "user" /\ lock'[Main][Main] = "free" /\ main' \in {"idle", "sleeping"}
      BY <1>0, <2>4 DEF WaitPoll, TypeOK, WaitInv, MainThreadLock
    <3> QED BY <1>1, <3>1 DEF WaitInv, MainThreadLock
  <2> QED BY <2>1, <2>2, <2>3, <2>4 DEF MainNext
<1>4. JoinedAreOver'
  <2> SUFFICES ASSUME NEW v \in joined', Active(v)' PROVE FALSE
    BY DEF JoinedAreOver
  <2>1. joined \subseteq Vic /\ (v \in joined \/ (WaitPoll /\ main' = "idle" /\ v = waitFor))
    BY <1>0 DEF MainNext, BeginWait, WaitLock, WaitBlock, WaitPoll, TypeOK
  <2>2. v \in Vic
    BY <1>0, <2>1 DEF WaitPoll, TypeOK
  <2>3. Active(v)
    BY <2>2, ActiveBefore DEF Next
  <2> QED BY <2>1, <2>3, PollTells DEF WaitInv, JoinedAreOver
<1> QED BY <1>2, <1>3, <1>4 DEF WaitInv

\* ... and under those of Main's preparation thread.
LEMMA WaitPrep ==
    ASSUME MergeInv, WaitInv, PrepNext PROVE Kinds' /\ MainThreadLock'
<1>0. TypeOK /\ PrepEffect /\ Main \in Proc /\ Main \notin Vic /\ \A v \in Vic : v \in Proc /\ v # Main
    BY ProcFacts, PrepEffects DEF MergeInv
<1>1. main' = main
    BY DEF PrepNext, ReceivePrepare, LockMain, LockAll, CountChildren, CreateThread, WaitChild,
       Reopen, ReapChild, CheckCount, Report, LeavePoll, ReceiveStart, Convert, FinishMerge,
       PrepGoto, mainVars
<1>2. Kinds'
  <2>1. CASE Convert
    <3>1. \A v \in Vic : abstr'[v] = "thread"
      BY <2>1 DEF Convert
    <3>2. tool' = tool /\ tool = "done"
      BY <1>0, <2>1 DEF Convert, PrepGoto, toolVars, MergeInv, Stages, TypeOK, ToolState
    <3> QED BY <3>1, <3>2 DEF Kinds
  <2>2. CASE ~Convert
    <3>1. abstr' = abstr
      BY <2>2 DEF PrepNext, ReceivePrepare, LockMain, LockAll, CountChildren, CreateThread,
         WaitChild, Reopen, ReapChild, CheckCount, Report, LeavePoll, ReceiveStart, FinishMerge
    <3>2. prep # "convert" => (tool' = "done" /\ prep' \in {"reopen", "listen"} =>
              tool = "done" /\ prep \in {"reopen", "listen"})
      BY <1>0 DEF PrepEffect
    <3>3. prep # "convert"
      BY <2>2 DEF PrepNext, ReceivePrepare, LockMain, LockAll, CountChildren, CreateThread,
         WaitChild, Reopen, ReapChild, CheckCount, Report, LeavePoll, ReceiveStart, FinishMerge,
         PrepGoto
    <3>4. tool' # "done" => tool # "done"
      BY <1>0 DEF PrepEffect, MergeInv, Stages
    <3> QED BY <3>1, <3>2, <3>3, <3>4 DEF WaitInv, Kinds
  <2> QED BY <2>1, <2>2
<1>3. MainThreadLock'
  <2>1. CASE ReceivePrepare
    BY <1>0, <1>1, <2>1 DEF ReceivePrepare, PrepGoto, memory, WaitInv, MainThreadLock
  <2>2. CASE LockMain
    <3>1. lock[Main][Main] = "free" /\ lock'[Main][Main] = "prep" /\ tool' = tool
      BY <1>0, <2>2 DEF LockMain, TypeOK, toolVars
    <3> QED BY <1>0, <1>1, <3>1 DEF WaitInv, MainThreadLock
  <2>3. CASE LockAll
    <3>1. lock'[Main][Main] = "prep" /\ prep = "lockall" /\ tool' = tool
      BY <1>0, <2>3 DEF LockAll, PrepGoto, TypeOK, toolVars
    <3> QED BY <1>0, <1>1, <3>1 DEF WaitInv, MainThreadLock
  <2>4. CASE FinishMerge
    <3>1. lock'[Main][Main] = "free" /\ prep = "reopen" /\ prep' = "listen" /\ tool' = tool
      BY <1>0, <2>4 DEF FinishMerge, PrepGoto, TypeOK, toolVars
    <3> QED BY <1>0, <1>1, <3>1 DEF WaitInv, MainThreadLock
  <2>5. ASSUME NEW v \in Vic, Reopen(v) PROVE MainThreadLock'
    <3>1. lock'[Main][Main] = lock[Main][Main] /\ prep = "reopen" /\ tool' = tool
      BY <1>0, <2>5 DEF Reopen, PrepGoto, TypeOK, toolVars
    <3> QED BY <1>0, <1>1, <3>1 DEF WaitInv, MainThreadLock
  <2>6. CASE \/ CountChildren \/ ReapChild \/ CheckCount \/ Report \/ LeavePoll \/ ReceiveStart
             \/ Convert \/ \E v \in Vic : CreateThread(v) \/ WaitChild(v)
    <3>1. lock' = lock /\ prep \notin {"listen", "lockmain"}
      BY <2>6 DEF CountChildren, ReapChild, CheckCount, Report, LeavePoll, ReceiveStart,
         Convert, CreateThread, WaitChild, PrepGoto, memory
    <3> QED BY <1>1, <3>1 DEF WaitInv, MainThreadLock
  <2> QED BY <2>1, <2>2, <2>3, <2>4, <2>5, <2>6 DEF PrepNext
<1> QED BY <1>2, <1>3

LEMMA WaitStep == MergeInv /\ WaitInv /\ [Next]_vars => WaitInv'
<1> SUFFICES ASSUME MergeInv, WaitInv, [Next]_vars PROVE WaitInv'
    OBVIOUS
<1>0. TypeOK
    BY DEF MergeInv
<1>1. CASE MainNext
    BY <1>1, WaitMain
<1>2. CASE ~MainNext
  <2>1. joined' = joined /\ main' = main
    BY <1>2 DEF Next, vars, mainVars, FlowNext, Enter, Leave, Return, Destroy, ExitProcess,
       ExitMerged, ExitThread, WriteBacktrace, EndHandler, FlowStep, WorkerNext, WorkerTerminate,
       WorkerReceive, Find, LockFlow, Crash, Pause, Resume, Export, Answer, WorkerGoto,
       PrepNext, ReceivePrepare, LockMain, LockAll, CountChildren, CreateThread, WaitChild,
       Reopen, ReapChild, CheckCount, Report, LeavePoll, ReceiveStart, Convert, FinishMerge,
       PrepGoto, ToolNext, RunTool, ReadBacktraces, Dump, DumpFails, Ask, ToolGoto
  <2>2. JoinedAreOver'
    BY <1>0, <2>1, ActiveBefore DEF WaitInv, JoinedAreOver, TypeOK
  <2>3. CASE PrepNext
    BY <2>2, <2>3, WaitPrep DEF WaitInv
  <2>4. CASE ~PrepNext
    <3>1. UNCHANGED <<abstr, prep>>
      BY <1>2, <2>4 DEF Next, vars, prepVars, FlowNext, Enter, Leave, Return, Destroy,
         ExitProcess, ExitMerged, ExitThread, WriteBacktrace, EndHandler, FlowStep, WorkerNext,
         WorkerTerminate, WorkerReceive, Find, LockFlow, Crash, Pause, Resume, Export, Answer,
         WorkerGoto, ToolNext, RunTool, ReadBacktraces, Dump, DumpFails, Ask, ToolGoto
    <3>2. tool' = "done" <=> tool = "done"
      <4>1. ASSUME NEW v \in Vic, FlowNext(v) PROVE tool' = tool
        BY <4>1 DEF FlowNext, Enter, Leave, Return, Destroy, ExitProcess, ExitMerged, ExitThread,
           WriteBacktrace, EndHandler, FlowStep, toolVars
      <4>2. ASSUME NEW v \in Vic, WorkerNext(v) PROVE tool' = "done" <=> tool = "done"
        <5>1. WorkerEffect(v)
          BY <1>0, <4>2, WorkerEffects
        <5>2. wprep[v] \in {"ready", "done"} => asking = v
          BY DEF MergeInv, Answering, WorkerPrepState
        <5>3. asking = v => tool = "asking"
          <6>1. v # None /\ (tool = "asking" <=> asking # None)
            BY <1>0, VicAssumption DEF TypeOK
          <6> QED BY <6>1
        <5> QED BY <5>1, <5>2, <5>3 DEF WorkerEffect
      <4>3. CASE ToolNext \/ UNCHANGED vars
        BY <4>3 DEF vars, toolVars, ToolNext, RunTool, ReadBacktraces, Dump, DumpFails, Ask,
           ToolGoto
      <4> QED BY <1>2, <2>4, <4>1, <4>2, <4>3 DEF Next
    <3>3. lock'[Main][Main] = lock[Main][Main]
      <4>1. ASSUME NEW v \in Vic, FlowNext(v) PROVE lock'[Main][Main] = lock[Main][Main]
        <5>1. CASE ~Handles(v) /\ ~ExitMerged(v)
          BY <1>0, <4>1, <5>1, FlowEffects, ProcFacts DEF MergeInv, FlowEffect
        <5>2. CASE Handles(v) \/ ExitMerged(v)
          BY <5>2 DEF Handles, WriteBacktrace, EndHandler, ExitMerged, memory
        <5> QED BY <5>1, <5>2
      <4>2. ASSUME NEW v \in Vic, WorkerNext(v) PROVE lock'[Main][Main] = lock[Main][Main]
        BY <1>0, <4>2, WorkerEffects, ProcFacts DEF WorkerEffect
      <4>3. CASE ToolNext \/ UNCHANGED vars
        BY <4>3 DEF vars, memory, ToolNext, RunTool, ReadBacktraces, Dump, DumpFails, Ask,
           ToolGoto
      <4> QED BY <1>2, <2>4, <4>1, <4>2, <4>3 DEF Next
    <3> QED BY <2>1, <2>2, <3>1, <3>2, <3>3 DEF WaitInv, Kinds, MainThreadLock
  <2> QED BY <2>3, <2>4
<1> QED BY <1>1, <1>2

\* "Wait for an execution flow to finish" (vic.h): a wait that returned, returned
\* for a flow that is in its routine neither as a process nor, merged, as a thread.
THEOREM WaitMeansOver == Spec => [](\A v \in joined : ~Active(v))
<1>1. Init => WaitInv
    BY ProcFacts DEF Init, WaitInv, Kinds, MainThreadLock, JoinedAreOver
<1>2. WaitInv => \A v \in joined : ~Active(v)
    BY DEF WaitInv, JoinedAreOver
<1> QED BY <1>1, <1>2, WaitStep, MergeInit, MergeStep, PTL DEF Spec

-----------------------------------------------------------------------------
(* When the assertion on the number of children holds.                     *)

AllRun == \A v \in Vic : flow[v] \in {"running", "critical"}

\* A child that is dead has ended its flow, and as long as none has, every
\* context that the creating loop visited got a thread.
CreateInv ==
    /\ tool \notin {"start", "done", "failed"} =>
           \A v \in Vic : proc[v] # "up" => flow[v] = "exited"
    /\ prep = "create" /\ AllRun => count = Cardinality(Vic) /\ made = Vic \ todo

LEMMA CreateStep == MergeInv /\ CreateInv /\ [Next]_vars => CreateInv'
<1> SUFFICES ASSUME MergeInv, CreateInv, [Next]_vars PROVE CreateInv'
    OBVIOUS
<1>0. TypeOK
    BY DEF MergeInv
<1>2. CASE UNCHANGED vars
    BY <1>2 DEF vars, flowVars, prepVars, toolVars, CreateInv, AllRun
<1>3. CASE MainNext
  <2>1. UNCHANGED <<flow, prep, count, made, todo, tool>>
    BY <1>3 DEF MainNext, BeginWait, WaitLock, WaitBlock, WaitPoll, flowVars, prepVars, toolVars
  <2>2. \A v \in Vic : proc'[v] = "up" <=> proc[v] = "up"
    BY <1>0, <1>3 DEF MainNext, BeginWait, WaitLock, WaitBlock, WaitPoll, Reap, TypeOK
  <2> QED BY <2>1, <2>2 DEF CreateInv, AllRun
<1>4. ASSUME NEW v \in Vic, FlowNext(v) PROVE CreateInv'
  <2>1. CASE Handles(v)
    BY <2>1 DEF Handles, WriteBacktrace, EndHandler, prepVars, toolVars, CreateInv, AllRun
  <2>2. CASE ExitMerged(v)
    BY <2>2 DEF ExitMerged, flowVars, prepVars, toolVars, CreateInv, AllRun
  <2>3. CASE ~Handles(v) /\ ~ExitMerged(v)
    <3>1. FlowEffect(v)
      BY <1>0, <1>4, <2>3, FlowEffects DEF MergeInv
    <3>2. AllRun' => AllRun
      BY <3>1 DEF FlowEffect, AllRun
    <3>3. proc'[v] # "up" => proc[v] # "up" \/ flow'[v] = "exited"
      BY <1>0, <1>4, <2>3 DEF FlowNext, Handles, Enter, Leave, Return, Destroy, ExitProcess, ExitThread,
         FlowStep, TypeOK
    <3>4. tool \notin {"start", "done", "failed"} => (proc[v] # "up" => ~Alive(v))
      BY <1>0, ProcFacts DEF MergeInv, Places, Alive
    <3> QED BY <3>1, <3>2, <3>3, <3>4 DEF FlowEffect, CreateInv
  <2> QED BY <2>1, <2>2, <2>3
<1>5. ASSUME NEW v \in Vic, WorkerNext(v) PROVE CreateInv'
  <2>1. WorkerEffect(v)
    BY <1>0, <1>5, WorkerEffects
  <2>2. AllRun' => AllRun
    BY <1>0, <2>1 DEF WorkerEffect, AllRun
  <2>3. tool' \notin {"start", "done", "failed"} => tool \notin {"start", "done", "failed"}
    <3>1. CASE wprep[v] \in {"ready", "done"}
      <4>1. asking = v
        BY <3>1 DEF MergeInv, Answering, WorkerPrepState
      <4>2. v # None /\ (tool = "asking" <=> asking # None)
        BY <1>0, VicAssumption DEF TypeOK
      <4> QED BY <4>1, <4>2
    <3>2. CASE wprep[v] \notin {"ready", "done"}
      BY <2>1, <3>2 DEF WorkerEffect
    <3> QED BY <3>1, <3>2
  <2> QED BY <2>1, <2>2, <2>3 DEF WorkerEffect, CreateInv
<1>6. CASE ToolNext
  <2>1. UNCHANGED <<flow, prep, count, made, todo>>
    BY <1>6 DEF ToolNext, RunTool, Ask, ReadBacktraces, Dump, DumpFails, ToolGoto, flowVars,
       prepVars
  <2>2. \/ tool' \in {"start", "failed"}
        \/ proc' = proc /\ tool \notin {"start", "done", "failed"}
    BY <1>6 DEF ToolNext, RunTool, Ask, ReadBacktraces, Dump, DumpFails, ToolGoto
  <2> QED BY <2>1, <2>2 DEF CreateInv, AllRun
<1>7. CASE PrepNext
  <2>1. PrepEffect
    BY <1>0, <1>7, PrepEffects
  <2>2. flow' = flow /\ (AllRun' <=> AllRun)
    BY <2>1 DEF PrepEffect, AllRun
  <2>3. tool' \notin {"start", "done", "failed"} =>
            \A v \in Vic : proc'[v] # "up" => flow'[v] = "exited"
    BY <2>1 DEF PrepEffect, CreateInv
  <2>4. ASSUME prep' = "create", AllRun, tool = "listing"
        PROVE  count' = Cardinality(Vic) /\ made' = Vic \ todo'
    <3>0. \A v \in Vic : proc[v] = "up"
      BY <2>4 DEF CreateInv, AllRun
    <3>1. CASE CountChildren
      <4>1. Children = Vic
        BY <3>0 DEF Children
      <4> QED BY <3>1, <4>1 DEF CountChildren
    <3>2. ASSUME NEW v \in Vic, CreateThread(v)
          PROVE  count' = Cardinality(Vic) /\ made' = Vic \ todo'
      <4>1. /\ prep = "create" /\ v \in todo /\ todo' = todo \ {v} /\ count' = count
            /\ made' = made \cup {v}
        BY <3>0, <3>2 DEF CreateThread, PrepGoto
      <4> QED BY <2>4, <4>1 DEF CreateInv
    <3>3. CASE ReapChild
      <4>1. reaping \in Vic /\ proc[reaping] # "up"
        BY <1>0, <3>3 DEF ReapChild, PrepGoto, TypeOK
      <4> QED BY <3>0, <4>1
    <3>4. CountChildren \/ ReapChild \/ \E v \in Vic : CreateThread(v)
      BY <1>7, <2>4 DEF PrepNext, ReceivePrepare, LockMain, LockAll, WaitChild, Reopen,
         CheckCount, Report, LeavePoll, ReceiveStart, Convert, FinishMerge, PrepGoto
    <3> QED BY <3>1, <3>2, <3>3, <3>4
  <2>5. prep' = "create" => tool = "listing"
    BY <1>0, <2>1 DEF PrepEffect, MergeInv, Stages, TypeOK, ToolState
  <2> QED BY <2>2, <2>3, <2>4, <2>5 DEF CreateInv
<1> QED BY <1>2, <1>3, <1>4, <1>5, <1>6, <1>7 DEF Next

\* assert(cc_size(&threads_list) == processes_number), vic.c: it does not hold of
\* the code, but it fails only if a flow has returned from its routine.
THEOREM AssertionHolds ==
    Spec => []((\A v \in Vic : flow[v] \in {"running", "critical"}) => ChildrenMatchThreads)
<1>1. Init => CreateInv
    BY DEF Init, CreateInv, AllRun
<1>2. MergeInv /\ CreateInv => (AllRun => ChildrenMatchThreads)
  <2> SUFFICES ASSUME MergeInv, CreateInv, AllRun, prep = "create", todo = {}
               PROVE  Cardinality(made) = count
    BY DEF ChildrenMatchThreads
  <2>1. made = Vic /\ count = Cardinality(Vic)
    BY DEF CreateInv
  <2> QED BY <2>1
<1>3. MergeInv /\ CreateInv =>
          ((\A v \in Vic : flow[v] \in {"running", "critical"}) => ChildrenMatchThreads)
    BY <1>2 DEF AllRun
<1> QED BY <1>1, <1>3, CreateStep, MergeInit, MergeStep, PTL DEF Spec

-----------------------------------------------------------------------------
(* The shape of the program.                                               *)

\* Until the dump the flows are in their processes; after it, those are gone.
LEMMA ShapeInv == MergeInv => Migrating!OneShape
<1> SUFFICES ASSUME MergeInv PROVE Migrating!Threads \/ Migrating!Processes
    BY DEF Migrating!OneShape
<1>1. CASE tool \in {"start", "done"}
  <2>1. \A v \in Vic : Phase(v) # "over" => at[v] = Main
    BY <1>1, ProcFacts DEF MergeInv, Places, Phase, Alive
  <2> QED BY <2>1 DEF Migrating!Threads
<1>2. CASE tool \notin {"start", "done"}
  <2>1. \A v \in Vic : at[v] = v
    BY <1>2 DEF MergeInv, Places
  <2> QED BY <2>1 DEF Migrating!Processes
<1> QED BY <1>1, <1>2

\* The flows that run are each in its own process until the tool has dumped the
\* program, and all threads of one process after it: no child that still runs is
\* left out of the merge.
THEOREM KeepsShape == Spec => []Migrating!OneShape
BY ShapeInv, MergeInductive, PTL

\* A merge keeps its promises whatever the flows and the main thread do when it
\* begins: they follow from any state of the invariant, and every state in which
\* a split of all flows is over is one (VicHandover).
THEOREM AfterSplit ==
    MergeInv /\ WaitInv /\ [][Next]_vars =>
        /\ [](/\ SocketsOpenInCriticalSection /\ BacktraceBeforeReady
              /\ StackMatchesExport /\ NoFlowLeftLocked
              /\ Migrating!OneShape /\ \A v \in joined : ~Active(v))
        /\ NoFlowLost
<1>1. MergeInv /\ WaitInv =>
          /\ SocketsOpenInCriticalSection /\ BacktraceBeforeReady
          /\ StackMatchesExport /\ NoFlowLeftLocked
          /\ Migrating!OneShape /\ \A v \in joined : ~Active(v)
    BY SocketsInv, BacktraceInv, StackInv, LockedInv, ShapeInv DEF WaitInv, JoinedAreOver
<1>2. MergeInv /\ [Next]_vars =>
          [program = "up" /\ program' = "up" =>
              \A v \in Vic : Active(v) /\ proc'[v] = "gone" => at'[v] = Main]_vars
    BY NoneLostStep
<1> QED BY <1>1, <1>2, MergeStep, WaitStep, PTL DEF NoFlowLost

=============================================================================
