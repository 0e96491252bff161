------------------------------ MODULE VicMerge ------------------------------
(***************************************************************************)
(* Merging the processes of a split program back into one process with a   *)
(* thread per flow.                                                        *)
(*                                                                         *)
(* The program is the one VicSplit leaves: the process Main, whose main     *)
(* thread waits for the flows, and a child process for each flow with the  *)
(* flow's thread and a preparation thread.  The tool (merge.py,            *)
(* merge_prepare.py, merge_finish.py) asks every child to prepare: its     *)
(* preparation thread takes the flow's lock, has the flow write its        *)
(* backtrace (lib/pause_thread.c) and exports its data.  Then it asks Main, *)
(* whose preparation thread makes one thread per living child for the tool *)
(* to put the child's stack into.                                          *)
(***************************************************************************)
EXTENDS Naturals, FiniteSets

CONSTANTS
    Vic,        \* the contexts with a flow; each names the process of its flow
    Main,       \* the main context, its process and its thread
    None,
    Finish,     \* when a routine may return: "never", "after" the merge, "any" time
    StdinReady  \* the program's standard input may be readable

ASSUME VicAssumption == Main \notin Vic /\ None \notin Vic \cup {Main}
ASSUME VicFinite == IsFiniteSet(Vic)
ASSUME FlagAssumption ==
    StdinReady \in BOOLEAN /\ Finish \in {"never", "after", "any"}

Proc == Vic \cup {Main}

VARIABLES
    proc,      \* proc[v]: "up", "exited" (a zombie), "gone"
    program,   \* the process Main: "up", "aborted", "ended", "lost" (dumped, not restored)
    flow,      \* flow[v]: the thread of flow v
    at,        \* at[v]: the process that thread belongs to
    handler,   \* handler[v]: its pause handler
    backtrace, \* backtrace[v]: the file that handler writes
    dirty,     \* dirty[v]: it has changed shared data that is not exported
    wprep,     \* wprep[v]: the preparation thread of process v
    lock,      \* lock[p][x]: who holds the lock of x's flow in process p
    sock,      \* sock[p][x]: x's sockets in process p
    abstr,     \* abstr[v]: the abstraction of v in Main
    executing, \* executing[v]: the flag in v's entry of Main's vic_list
    current,   \* current_abstraction in Main
    prep,      \* the preparation thread of Main
    todo,      \* the contexts its current loop has not visited
    count,     \* processes_number
    made,      \* threads_list: the flows it made a thread for
    reaping,   \* the child it waits for without a time limit
    main,      \* the main thread
    waitFor,   \* the flow it waits for
    joined,    \* the flows whose wait has returned
    tool,      \* the tool
    unasked,   \* the children it has yet to ask
    asking,    \* the child it waits for
    ready,     \* children_pids: the children that answered "ready"
    infos      \* processes_threads_relationship

flowVars == <<flow, at, handler, backtrace, dirty>>
memory == <<lock, sock>>
prepVars == <<abstr, executing, current, prep, todo, count, made, reaping>>
mainVars == <<main, waitFor, joined>>
toolVars == <<tool, unasked, asking, ready, infos>>
vars == <<proc, program, wprep, flowVars, memory, prepVars, mainVars, toolVars>>

FlowState == {"running", "critical", "returned", "destroyed", "exited"}
WorkerPrepState == {"listen", "find", "lock", "pause", "resume", "export",
                    "ready", "done", "gone"}
PrepState == {"listen", "lockmain", "lockall", "count", "create", "reap",
              "report", "poll", "waitstart", "convert", "reopen"}
ToolState == {"idle", "ask", "asking", "prepare", "listing", "dump", "start",
              "done", "failed"}

TypeOK ==
    /\ proc \in [Vic -> {"up", "exited", "gone"}]
    /\ program \in {"up", "aborted", "ended", "lost"}
    /\ flow \in [Vic -> FlowState]
    /\ at \in [Vic -> Proc]
    /\ handler \in [Vic -> {"none", "dumping", "suspended", "resuming"}]
    /\ backtrace \in [Vic -> {"none", "partial", "written"}]
    /\ dirty \in [Vic -> BOOLEAN]
    /\ wprep \in [Vic -> WorkerPrepState]
    /\ lock \in [Proc -> [Proc -> {"free", "prep", "user"}]]
    /\ sock \in [Proc -> [Proc -> {"closed", "open"}]]
    /\ abstr \in [Vic -> {"thread", "process"}]
    /\ executing \in [Vic -> BOOLEAN]
    /\ current \in {"thread", "process"}
    /\ prep \in PrepState
    /\ todo \in SUBSET Vic
    /\ count \in Nat
    /\ made \in SUBSET Vic
    /\ reaping \in Vic \cup {None}
    /\ main \in {"idle", "sleeping", "polling", "blocked"}
    /\ waitFor \in Vic \cup {None}
    /\ joined \in SUBSET Vic
    /\ tool \in ToolState
    /\ unasked \in SUBSET Vic
    /\ asking \in Vic \cup {None}
    /\ ready \in SUBSET Vic
    /\ infos \in SUBSET Vic
    /\ main # "idle" => waitFor \in Vic
    /\ tool = "asking" <=> asking # None
    /\ prep = "reap" <=> reaping # None

\* The end of a split of running flows (VicSplit's SplitDone).
Init ==
    /\ proc = [v \in Vic |-> "up"]
    /\ program = "up"
    /\ flow = [v \in Vic |-> "running"]
    /\ executing = [v \in Vic |-> TRUE]
    /\ at = [v \in Vic |-> v]
    /\ handler = [v \in Vic |-> "none"]
    /\ backtrace = [v \in Vic |-> "none"]
    /\ dirty = [v \in Vic |-> FALSE]
    /\ wprep = [v \in Vic |-> "listen"]
    /\ lock = [p \in Proc |-> [x \in Proc |-> "free"]]
    /\ sock = [p \in Proc |-> [x \in Proc |-> IF x \in {p, Main} THEN "open" ELSE "closed"]]
    /\ abstr = [v \in Vic |-> "process"]
    /\ current = "process"
    /\ prep = "listen"
    /\ todo = {} /\ count = 0 /\ made = {} /\ reaping = None
    /\ main = "idle" /\ waitFor = None /\ joined = {}
    /\ tool = "idle" /\ asking = None
    /\ unasked = {} /\ ready = {} /\ infos = {}

-----------------------------------------------------------------------------
(* The main thread: vic_ef_wait for every flow.                            *)

BeginWait(v) ==
    /\ program = "up" /\ main = "idle"
    /\ v \notin joined
    /\ main' = "sleeping" /\ waitFor' = v
    /\ UNCHANGED <<proc, program, wprep, joined, flowVars, memory, prepVars, toolVars>>

WaitLock ==
    /\ program = "up" /\ main = "sleeping"
    /\ lock[Main][Main] = "free"
    /\ lock' = [lock EXCEPT ![Main][Main] = "user"]
    /\ main' = "polling"
    /\ UNCHANGED <<proc, program, wprep, waitFor, joined, flowVars, sock, prepVars, toolVars>>

\* waitpid reaps a zombie.
Reap(v) == proc' = [proc EXCEPT ![v] = IF @ = "exited" THEN "gone" ELSE @]

\* A poll of a process finds standard input readable: it becomes a wait
\* without a time limit.
WaitBlock ==
    /\ program = "up" /\ main = "polling"
    /\ StdinReady /\ abstr[waitFor] = "process"
    /\ main' = "blocked"
    /\ UNCHANGED <<proc, program, wprep, waitFor, joined, flowVars, memory, prepVars, toolVars>>

\* A child that was reaped before is "not done" for ever, except to the
\* blocking wait.
WaitPoll ==
    /\ program = "up" /\ main \in {"polling", "blocked"}
    /\ main = "blocked" => proc[waitFor] # "up"
    /\ IF \/ main = "blocked"
          \/ abstr[waitFor] = "process" /\ proc[waitFor] = "exited"
          \/ abstr[waitFor] = "thread" /\ flow[waitFor] = "exited"
       THEN /\ main' = "idle" /\ waitFor' = None
            /\ joined' = joined \cup {waitFor}
       ELSE main' = "sleeping" /\ UNCHANGED <<waitFor, joined>>
    /\ IF abstr[waitFor] = "process" THEN Reap(waitFor) ELSE UNCHANGED proc
    /\ lock' = [lock EXCEPT ![Main][Main] = "free"]
    /\ UNCHANGED <<program, wprep, flowVars, sock, prepVars, toolVars>>

-----------------------------------------------------------------------------
(* The thread of a flow, in its own process before the merge and in Main   *)
(* after it.                                                               *)

\* The process a flow's thread is in runs.
Alive(v) == IF at[v] = Main THEN program = "up" ELSE proc[v] = "up"

FlowStep(v, a, b) ==
    /\ Alive(v) /\ handler[v] = "none"
    /\ flow[v] = a
    /\ flow' = [flow EXCEPT ![v] = b]
    /\ UNCHANGED <<program, at, handler, backtrace, wprep, sock, abstr, current, prep, todo,
                   count, made, reaping, mainVars, toolVars>>

Enter(v) ==
    /\ FlowStep(v, "running", "critical")
    /\ lock[at[v]][v] = "free"
    /\ lock' = [lock EXCEPT ![at[v]][v] = "user"]
    /\ UNCHANGED <<proc, dirty, executing>>

\* A critical section may write to the shared data.
Leave(v) ==
    /\ FlowStep(v, "critical", "running")
    /\ lock' = [lock EXCEPT ![at[v]][v] = "free"]
    /\ dirty' = [dirty EXCEPT ![v] = TRUE]
    /\ UNCHANGED <<proc, executing>>

MergeDone == tool = "done" /\ prep = "listen" /\ current = "thread"

\* executing = false, in the list of the process that the flow is in.
Return(v) ==
    /\ Finish = "any" \/ (Finish = "after" /\ MergeDone)
    /\ FlowStep(v, "running", "returned")
    /\ executing' = [executing EXCEPT ![v] = @ /\ at[v] # Main]
    /\ UNCHANGED <<proc, lock, dirty>>

\* In a process other than the one it was started in: the flow and the context
\* are freed, the preparation thread is told to terminate ...
Destroy(v) ==
    /\ FlowStep(v, "returned", "destroyed")
    /\ at[v] = v
    /\ UNCHANGED <<proc, lock, dirty, executing>>

\* ... and, once it has, the process exits.
ExitProcess(v) ==
    /\ FlowStep(v, "destroyed", "exited")
    /\ at[v] = v
    /\ wprep[v] = "gone"
    /\ proc' = [proc EXCEPT ![v] = "exited"]
    /\ UNCHANGED <<lock, dirty, executing>>

ExitThread(v) ==
    /\ FlowStep(v, "returned", "exited")
    /\ at[v] = Main
    /\ UNCHANGED <<proc, lock, dirty, executing>>

\* Merged on its way to the exit, it goes on in Main's memory, and ends Main and
\* all of its flows, or waits for ever for Main's preparation thread.
ExitMerged(v) ==
    /\ Alive(v) /\ handler[v] = "none" /\ at[v] = Main /\ flow[v] = "destroyed"
    /\ program' = "ended"
    /\ UNCHANGED <<proc, wprep, flowVars, memory, prepVars, mainVars, toolVars>>

\* The pause handler: it confirms, then writes the backtrace file, then
\* suspends the thread.
WriteBacktrace(v) ==
    /\ proc[v] = "up" /\ handler[v] = "dumping"
    /\ handler' = [handler EXCEPT ![v] = "suspended"]
    /\ backtrace' = [backtrace EXCEPT ![v] = "written"]
    /\ UNCHANGED <<proc, program, wprep, flow, at, dirty, memory, prepVars, mainVars, toolVars>>

\* The handler of the resuming signal prints and returns, after it has confirmed
\* the signal, and the thread goes on where it was interrupted: by then the tool
\* may have moved it.
EndHandler(v) ==
    /\ Alive(v) /\ handler[v] = "resuming"
    /\ handler' = [handler EXCEPT ![v] = "none"]
    /\ UNCHANGED <<proc, program, wprep, flow, at, backtrace, dirty, memory, prepVars, mainVars,
                   toolVars>>

-----------------------------------------------------------------------------
(* The preparation thread of a flow's process.                             *)

WorkerGoto(v, a, b) ==
    /\ proc[v] = "up"
    /\ wprep[v] = a
    /\ wprep' = [wprep EXCEPT ![v] = b]
    /\ UNCHANGED <<program, at, prepVars, mainVars>>

WorkerTerminate(v) ==
    /\ WorkerGoto(v, "listen", "gone")
    /\ flow[v] = "destroyed"
    /\ UNCHANGED <<proc, flow, handler, backtrace, dirty, memory, toolVars>>

WorkerReceive(v) ==
    /\ WorkerGoto(v, "listen", "find")
    /\ asking = v
    /\ UNCHANGED <<proc, flow, handler, backtrace, dirty, memory, toolVars>>

\* The process's own context is looked for among those with an executing flow.
Find(v) ==
    /\ WorkerGoto(v, "find", IF flow[v] \in {"running", "critical"} THEN "lock" ELSE "done")
    /\ UNCHANGED <<proc, flow, handler, backtrace, dirty, memory, toolVars>>

\* Faulty variant: pthread_mutex_trylock with its result ignored.
LockFlowTry(v) ==
    /\ WorkerGoto(v, "lock", "pause")
    /\ flow[v] # "destroyed"
    /\ lock' = [lock EXCEPT ![v][v] = "prep"]
    /\ sock' = [sock EXCEPT ![v][v] = "closed"]
    /\ UNCHANGED <<proc, flow, handler, backtrace, dirty, toolVars>>

LockFlow(v) ==
    /\ WorkerGoto(v, "lock", "pause")
    /\ flow[v] # "destroyed"
    /\ lock[v][v] = "free"
    /\ lock' = [lock EXCEPT ![v][v] = "prep"]
    /\ sock' = [sock EXCEPT ![v][v] = "closed"]
    /\ UNCHANGED <<proc, flow, handler, backtrace, dirty, toolVars>>

\* The flow has returned and freed itself since it was found: its lock is read
\* through a null pointer.
Crash(v) ==
    /\ WorkerGoto(v, "lock", "gone")
    /\ flow[v] = "destroyed"
    /\ proc' = [proc EXCEPT ![v] = "exited"]
    /\ flow' = [flow EXCEPT ![v] = "exited"]
    /\ UNCHANGED <<handler, backtrace, dirty, memory, toolVars>>

\* pthread_pause returns when the handler has started, which says nothing of
\* the backtrace ...
Pause(v) ==
    /\ WorkerGoto(v, "pause", "resume")
    /\ handler' = [handler EXCEPT ![v] = "dumping"]
    /\ backtrace' = [backtrace EXCEPT ![v] = "partial"]
    /\ UNCHANGED <<proc, flow, dirty, memory, toolVars>>

\* Faulty variant: the resuming signal interrupts the handler anywhere.
ResumeAnytime(v) ==
    /\ WorkerGoto(v, "resume", "export")
    /\ handler' = [handler EXCEPT ![v] = "resuming"]
    /\ UNCHANGED <<proc, flow, backtrace, dirty, memory, toolVars>>

\* ... but the resuming signal is taken in sigsuspend only, and pthread_resume
\* returns when its handler has started.
Resume(v) ==
    /\ WorkerGoto(v, "resume", "export")
    /\ handler[v] = "suspended"
    /\ handler' = [handler EXCEPT ![v] = "resuming"]
    /\ UNCHANGED <<proc, flow, backtrace, dirty, memory, toolVars>>

\* export_dynamic_data.
Export(v) ==
    /\ WorkerGoto(v, "export", "ready")
    /\ dirty' = [dirty EXCEPT ![v] = FALSE]
    /\ UNCHANGED <<proc, flow, handler, backtrace, memory, toolVars>>

\* Faulty variant: the child that was waited for is not forgotten.
AnswerTwice(v) ==
    /\ \/ WorkerGoto(v, "ready", "gone") /\ ready' = ready \cup {v}
       \/ WorkerGoto(v, "done", "gone") /\ UNCHANGED ready
    /\ tool' = "ask"
    /\ UNCHANGED <<proc, flow, handler, backtrace, dirty, memory, unasked, asking, infos>>

\* "ready" or "done" reaches the tool; the preparation thread ends.
Answer(v) ==
    /\ \/ WorkerGoto(v, "ready", "gone") /\ ready' = ready \cup {v}
       \/ WorkerGoto(v, "done", "gone") /\ UNCHANGED ready
    /\ tool' = "ask" /\ asking' = None
    /\ UNCHANGED <<proc, flow, handler, backtrace, dirty, memory, unasked, infos>>

-----------------------------------------------------------------------------
(* The preparation thread of Main.                                         *)

PrepGoto(a, b) ==
    /\ program = "up"
    /\ prep = a /\ prep' = b
    /\ UNCHANGED <<wprep, flowVars, mainVars>>

\* "prepare" and the stack size.
ReceivePrepare ==
    /\ PrepGoto("listen", "lockmain")
    /\ tool = "prepare" /\ current = "process"
    /\ tool' = "listing"
    /\ UNCHANGED <<proc, program, memory, abstr, executing, current, todo, count, made, reaping,
                   unasked, asking, ready, infos>>

LockMain ==
    /\ PrepGoto("lockmain", "lockall")
    /\ lock[Main][Main] = "free"
    /\ lock' = [lock EXCEPT ![Main][Main] = "prep"]
    /\ sock' = [sock EXCEPT ![Main][Main] = "closed"]
    /\ UNCHANGED <<proc, program, abstr, executing, current, todo, count, made, reaping, toolVars>>

\* Main's copies of the flows' locks: no flow runs in Main, and one that is taken
\* is released first.
LockAll ==
    /\ PrepGoto("lockall", "count")
    /\ lock' = [lock EXCEPT ![Main] = [x \in Proc |-> "prep"]]
    /\ UNCHANGED <<proc, program, sock, abstr, executing, current, todo, count, made, reaping, toolVars>>

\* The children, zombies included.
Children == {v \in Vic : proc[v] \in {"up", "exited"}}

CountChildren ==
    /\ PrepGoto("count", "create")
    /\ count' = Cardinality(Children)
    /\ todo' = Vic /\ made' = {}
    /\ UNCHANGED <<proc, program, memory, abstr, executing, current, reaping, toolVars>>

\* Faulty variant: the answers of the wait exchanged.
CreateThreadDone(v) ==
    /\ PrepGoto("create", "create")
    /\ v \in todo
    /\ todo' = todo \ {v}
    /\ Reap(v)
    /\ made' = IF proc[v] = "exited" THEN made \cup {v} ELSE made
    /\ executing' = [executing EXCEPT ![v] = @ \/ v \in made']
    /\ UNCHANGED <<program, memory, abstr, current, count, reaping, toolVars>>

\* A thread for every process whose wait is not done.  The new thread registers
\* itself as v's (tid, thread, executing) and writes its own backtrace.
CreateThread(v) ==
    /\ PrepGoto("create", "create")
    /\ v \in todo
    /\ todo' = todo \ {v}
    /\ Reap(v)
    /\ made' = IF proc[v] = "exited" THEN made ELSE made \cup {v}
    /\ executing' = [executing EXCEPT ![v] = @ \/ v \in made']
    /\ UNCHANGED <<program, memory, abstr, current, count, reaping, toolVars>>

\* With standard input readable the preparation waits until the child has
\* ended, and makes no thread.
WaitChild(v) ==
    /\ PrepGoto("create", "reap")
    /\ StdinReady /\ v \in todo
    /\ todo' = todo \ {v}
    /\ reaping' = v
    /\ UNCHANGED <<proc, program, memory, abstr, executing, current, count, made, toolVars>>

ReapChild ==
    /\ PrepGoto("reap", "create")
    /\ proc[reaping] # "up"
    /\ Reap(reaping)
    /\ reaping' = None
    /\ UNCHANGED <<program, memory, abstr, executing, current, todo, count, made, toolVars>>

\* The assertion on the number of children.
CheckCount ==
    /\ todo = {}
    /\ PrepGoto("create", "report")
    /\ program' = IF Cardinality(made) = count THEN "up" ELSE "aborted"
    /\ UNCHANGED <<proc, memory, abstr, executing, current, todo, count, made, reaping, toolVars>>

\* Faulty variant: the last thread made is not sent.
ReportShort ==
    /\ PrepGoto("report", "poll")
    /\ tool = "listing"
    /\ tool' = "dump"
    /\ \E v \in made : infos' = made \ {v}
    /\ UNCHANGED <<proc, program, memory, abstr, executing, current, todo, count, made, reaping,
                   unasked, asking, ready>>

Report ==
    /\ PrepGoto("report", "poll")
    /\ tool = "listing"
    /\ tool' = "dump" /\ infos' = made
    /\ UNCHANGED <<proc, program, memory, abstr, executing, current, todo, count, made, reaping,
                   unasked, asking, ready>>

LeavePoll ==
    /\ PrepGoto("poll", "waitstart")
    /\ Cardinality(Children) # count
    /\ UNCHANGED <<proc, program, memory, abstr, executing, current, todo, count, made, reaping, toolVars>>

ReceiveStart ==
    /\ PrepGoto("waitstart", "convert")
    /\ tool = "start"
    /\ tool' = "done"
    /\ UNCHANGED <<proc, program, memory, abstr, executing, current, todo, count, made, reaping,
                   unasked, asking, ready, infos>>

\* Faulty variant: a context is converted when its thread is unlocked.
ConvertNothing ==
    /\ PrepGoto("convert", "reopen")
    /\ todo' = Vic
    /\ UNCHANGED <<proc, program, memory, abstr, executing, current, count, made, reaping, toolVars>>

\* Every process context: its exported data imported, its record made that of
\* a thread.
Convert ==
    /\ PrepGoto("convert", "reopen")
    /\ abstr' = [v \in Vic |-> "thread"]
    /\ todo' = Vic
    /\ UNCHANGED <<proc, program, memory, executing, current, count, made, reaping, toolVars>>

\* Faulty variant: unlocked before its sockets are open again.
ReopenClosed(v) ==
    /\ PrepGoto("reopen", "reopen")
    /\ v \in todo
    /\ todo' = todo \ {v}
    /\ lock' = [lock EXCEPT ![Main][v] = IF executing[v] THEN "free" ELSE @]
    /\ UNCHANGED <<proc, program, sock, abstr, executing, current, count, made, reaping, toolVars>>

\* One turn of the last loop: the contexts that are threads now, if they are
\* executing.
Reopen(v) ==
    /\ PrepGoto("reopen", "reopen")
    /\ v \in todo
    /\ todo' = todo \ {v}
    /\ IF abstr[v] = "thread" /\ executing[v]
       THEN /\ sock' = [sock EXCEPT ![Main][v] = "open"]
            /\ lock' = [lock EXCEPT ![Main][v] = "free"]
       ELSE UNCHANGED <<sock, lock>>
    /\ UNCHANGED <<proc, program, abstr, executing, current, count, made, reaping, toolVars>>

\* Faulty variant: the last loop is left before its end.
FinishMergeEarly ==
    /\ PrepGoto("reopen", "listen")
    /\ sock' = [sock EXCEPT ![Main][Main] = "open"]
    /\ lock' = [lock EXCEPT ![Main][Main] = "free"]
    /\ current' = "thread"
    /\ UNCHANGED <<proc, program, abstr, executing, todo, count, made, reaping, toolVars>>

FinishMerge ==
    /\ PrepGoto("reopen", "listen")
    /\ todo = {}
    /\ sock' = [sock EXCEPT ![Main][Main] = "open"]
    /\ lock' = [lock EXCEPT ![Main][Main] = "free"]
    /\ current' = "thread"
    /\ UNCHANGED <<proc, program, abstr, executing, todo, count, made, reaping, toolVars>>

-----------------------------------------------------------------------------
(* The tool.                                                               *)

ToolGoto(a, b) ==
    /\ tool = a /\ tool' = b
    /\ UNCHANGED <<wprep, memory, prepVars, mainVars>>

RunTool ==
    /\ ToolGoto("idle", "ask")
    /\ program = "up"
    /\ unasked' = Children
    /\ UNCHANGED <<proc, program, flowVars, asking, ready, infos>>

\* One child after the other; the tool waits for the answer of each.
Ask(v) ==
    /\ ToolGoto("ask", "asking")
    /\ v \in unasked
    /\ asking' = v /\ unasked' = unasked \ {v}
    /\ UNCHANGED <<proc, program, flowVars, ready, infos>>

\* The backtraces are read as soon as the files exist; then it is Main's turn.
ReadBacktraces ==
    /\ ToolGoto("ask", "prepare")
    /\ unasked = {}
    /\ \A v \in ready : backtrace[v] # "none"
    /\ UNCHANGED <<proc, program, flowVars, unasked, asking, ready, infos>>

\* What the merging needs of every thread it was told of: a child that is
\* ready, with its backtrace, and alive, with its registers; and at least one.
Mergeable == infos # {} /\ \A v \in infos : v \in ready /\ proc[v] = "up"

\* criu dump freezes and ends all processes; every listed child's stack goes
\* to the thread made for it; Main is restored alone.
Dump ==
    /\ ToolGoto("dump", "start")
    /\ Mergeable
    /\ proc' = [v \in Vic |-> "gone"]
    /\ at' = [v \in Vic |-> IF v \in infos THEN Main ELSE at[v]]
    /\ UNCHANGED <<program, flow, handler, backtrace, dirty, unasked, asking, ready, infos>>

\* The tool stops with the program already ended.
DumpFails ==
    /\ ToolGoto("dump", "failed")
    /\ ~Mergeable
    /\ proc' = [v \in Vic |-> "gone"]
    /\ program' = "lost"
    /\ UNCHANGED <<flowVars, unasked, asking, ready, infos>>

-----------------------------------------------------------------------------
MainNext == WaitLock \/ WaitBlock \/ WaitPoll \/ \E v \in Vic : BeginWait(v)

FlowNext(v) ==
    \/ Enter(v) \/ Leave(v) \/ Return(v) \/ Destroy(v)
    \/ ExitProcess(v) \/ ExitMerged(v) \/ ExitThread(v) \/ WriteBacktrace(v) \/ EndHandler(v)

WorkerNext(v) ==
    \/ WorkerTerminate(v) \/ WorkerReceive(v) \/ Find(v) \/ LockFlow(v)
    \/ Crash(v) \/ Pause(v) \/ Resume(v) \/ Export(v) \/ Answer(v)

PrepNext ==
    \/ ReceivePrepare \/ LockMain \/ LockAll \/ CountChildren
    \/ \E v \in Vic : CreateThread(v) \/ WaitChild(v) \/ Reopen(v)
    \/ ReapChild \/ CheckCount \/ Report \/ LeavePoll \/ ReceiveStart \/ Convert \/ FinishMerge

ToolNext ==
    RunTool \/ ReadBacktraces \/ Dump \/ DumpFails \/ \E v \in Vic : Ask(v)

Next ==
    \/ MainNext \/ PrepNext \/ ToolNext
    \/ \E v \in Vic : FlowNext(v) \/ WorkerNext(v)

Spec == Init /\ [][Next]_vars

\* As in VicSplit: weak fairness for every thread, strong fairness for the main
\* lock only, no fairness for a routine's own steps.  Nothing is assumed of the
\* handler that writes the backtrace: it may wait for a lock of the C library
\* that its own thread has (PauseThread).
Fairness ==
    /\ SF_vars(WaitLock) /\ WF_vars(WaitPoll) /\ WF_vars(\E v \in Vic : BeginWait(v))
    /\ \A v \in Vic :
        /\ WF_vars(Leave(v)) /\ WF_vars(Destroy(v)) /\ WF_vars(ExitProcess(v))
        /\ WF_vars(ExitThread(v)) /\ WF_vars(EndHandler(v)) /\ WF_vars(WorkerNext(v))
    /\ SF_vars(LockMain) /\ WF_vars(PrepNext)
    /\ WF_vars(ToolNext)

FairSpec == Spec /\ Fairness

-----------------------------------------------------------------------------
(* Properties.                                                             *)

Active(v) == Alive(v) /\ flow[v] \in {"running", "critical"}

\* A flow that is inside its lock has its sockets, in the process it is in:
\* the child's preparation closes them only while it keeps the flow out, and
\* the merged flow gets in only when they are open again.
SocketsOpenInCriticalSection ==
    \A v \in Vic : Active(v) /\ flow[v] = "critical" => sock[at[v]][v] = "open"

\* When a child says "ready" the backtrace that tells the tool where its stack
\* ends is complete, and its thread is suspended no more: it runs, or is about to
\* return from the handler of the resuming signal.  The pause alone does not give
\* that, the resume behind it does.
BacktraceBeforeReady ==
    \A v \in Vic :
        v \in ready => backtrace[v] = "written" /\ handler[v] \in {"none", "resuming"}

\* The stack the tool moves and the data that were exported belong together:
\* between the export and the dump a listed flow is kept out of its critical
\* section, and nothing it wrote is missing from the export.
StackMatchesExport ==
    tool = "dump" =>
        \A v \in infos \cap ready :
            proc[v] = "up" => flow[v] # "critical" /\ ~dirty[v]

\* After the merge no flow is shut out of its lock by the preparation, and the
\* main thread is not either.
NoFlowLeftLocked ==
    MergeDone =>
        /\ lock[Main][Main] # "prep"
        /\ \A v \in Vic : Active(v) /\ at[v] = Main => lock[Main][v] # "prep"

\* The dump ends every process; no flow that runs at that moment is left out
\* of the merged program.
NoFlowLost ==
    [][program = "up" /\ program' = "up" =>
          \A v \in Vic : Active(v) /\ proc'[v] = "gone" => at'[v] = Main]_vars

Phase(v) ==
    IF ~Alive(v) THEN "over"
    ELSE CASE flow[v] = "running" -> "out"
           [] flow[v] = "critical" -> "in"
           [] OTHER -> "over"

\* A flow was merged that had found itself in a process of its own, and had
\* begun to end that process.
EndingMerged == \E v \in Vic : at[v] = Main /\ flow[v] = "destroyed"

Migrating == INSTANCE Migration WITH
    Flow <- Vic, Home <- Main, void <- EndingMerged, phase <- [v \in Vic |-> Phase(v)]

\* The merge is a merge of Migration: a flow is moved between two operations,
\* with all others that run, and does not start or end anew.  Only a flow that
\* is ending its process at that moment can bring the others down.
Migrates == Migrating!Spec

\* assert(cc_size(&threads_list) == processes_number), vic.c.
ChildrenMatchThreads ==
    prep = "create" /\ todo = {} => Cardinality(made) = count

\* A child's preparation waits for ever for the lock of a flow that leaves its
\* critical section and enters it again for ever.
Overtaken ==
    \E v \in Vic :
        /\ <>[](wprep[v] = "lock")
        /\ []<>(flow[v] = "critical") /\ []<>(flow[v] = "running")

\* A handler never comes to the end of the backtrace.
HandlerStuck == \E v \in Vic : <>[](handler[v] = "dumping")

\* Once the children are asked the merge comes to its end, unless a flow withholds
\* its lock or a thread is stuck in its handler.
MergeCompletes == (tool = "ask" ~> MergeDone) \/ Overtaken \/ HandlerStuck

\* The wait for a flow that ends after the merge returns.
WaitReturns ==
    \A v \in Vic : (flow[v] \in {"returned", "exited"} /\ waitFor = v) ~> v \in joined
=============================================================================
