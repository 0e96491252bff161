------------------------------ MODULE VicSplit ------------------------------
(***************************************************************************)
(* Splitting a running program: every execution flow that is a thread of   *)
(* the program becomes a process of its own.                               *)
(*                                                                         *)
(* Three parties take part.  The program (lib/vic.c): its main thread      *)
(* starts the flows and waits for them, each flow runs its routine and     *)
(* enters its lock around every use of its sockets.  The preparation       *)
(* thread (vic_transform_prepare): it takes the lock of every flow, reports *)
(* their thread ids, and after the restore turns the flows' records into   *)
(* those of processes.  The tool (split.py, split_prepare.py,              *)
(* split_finish.py): it asks for the preparation, freezes the program with *)
(* criu, gives each reported thread a copy of the whole memory, restores   *)
(* the result and tells every process to go on.                            *)
(*                                                                         *)
(* A flow's thread id is its name: the tool makes the process of flow v    *)
(* with pid v.  Memory is therefore indexed by process: by Main before the *)
(* split, by Main and the flows after it.                                  *)
(***************************************************************************)
EXTENDS Naturals, FiniteSets

CONSTANTS
    Vic,        \* the contexts with a flow other than the main one
    Main,       \* the main context, its process and its thread
    None,
    EarlyTool,  \* the tool may be run before every flow has registered
    Finish,     \* when a routine may return: "before" the tool is run, "after" the
                \*   split, at "any" time, or as "ontime" says: at any time, but
                \*   only after the split if the tool was run too early
    StdinReady  \* the program's standard input may be readable

ASSUME VicAssumption == Main \notin Vic /\ None \notin Vic \cup {Main}
ASSUME VicFinite == IsFiniteSet(Vic)
ASSUME FlagAssumption ==
    /\ EarlyTool \in BOOLEAN /\ StdinReady \in BOOLEAN
    /\ Finish \in {"before", "after", "ontime", "any"}

Proc == Vic \cup {Main}

VARIABLES
    proc,      \* processes: "absent", "up", "exited"
    flow,      \* flow[p][v]: the thread of flow v in process p
    home,      \* home[p][v]: the pid that thread read when it started
    reg,       \* reg[p][v]: v's entry of vic_list (tid and executing)
    abstr,     \* abstr[p][x]: the abstraction of context x, and with it the
               \*   kind of its handle and of its wait function
    lock,      \* lock[p][x]: who holds the lock of x's flow
    sock,      \* sock[p][x]: x's sockets
    current,   \* current[p]: current_abstraction
    launch,    \* launch_preparation_thread
    terminate, \* terminate[p]: terminate_preparation_thread
    prep,      \* prep[p]: the preparation thread of process p
    todo,      \* todo[p]: the contexts its current loop has not visited
    target,    \* target[p]: the context whose lock it is about to take
    count,     \* count[p]: current_threads_number
    tids,      \* tids[p]: the thread ids it has collected
    addr,      \* addr[p]: the pid in the address it listens on for "start"
    main,      \* the main thread
    waitFor,   \* the flow it waits for
    joined,    \* the flows whose wait has returned
    tool,      \* the tool
    listed,    \* the thread ids the tool received
    start,     \* addresses with an undelivered "start"
    early      \* history: the tool was run before every flow had registered

memory == <<flow, home, reg, abstr, lock, sock, current, terminate, prep,
            todo, target, count, tids, addr>>
mainVars == <<launch, main, waitFor, joined>>
toolVars == <<proc, tool, listed, start, early>>
vars == <<memory, mainVars, toolVars>>

FlowState == {"none", "created", "running", "critical", "returned", "leaving",
              "ending", "exited"}
PrepState == {"launch", "listen", "lockmain", "check", "acquire", "collect",
              "poll", "rebind", "waitstart", "convert", "reopen", "gone"}
ToolState == {"idle", "prepare", "listing", "dump", "start", "done", "failed"}

TypeOK ==
    /\ proc \in [Proc -> {"absent", "up", "exited"}]
    /\ flow \in [Proc -> [Vic -> FlowState]]
    /\ home \in [Proc -> [Vic -> Proc \cup {None}]]
    /\ reg \in [Proc -> [Vic -> {"idle", "executing", "finished"}]]
    /\ abstr \in [Proc -> [Proc -> {"thread", "process"}]]
    /\ lock \in [Proc -> [Proc -> {"free", "prep", "user"}]]
    /\ sock \in [Proc -> [Proc -> {"closed", "open"}]]
    /\ current \in [Proc -> {"thread", "process"}]
    /\ launch \in BOOLEAN
    /\ terminate \in [Proc -> BOOLEAN]
    /\ prep \in [Proc -> PrepState]
    /\ todo \in [Proc -> SUBSET Vic]
    /\ target \in [Proc -> Vic \cup {None}]
    /\ count \in [Proc -> Nat]
    /\ tids \in [Proc -> SUBSET Vic]
    /\ addr \in [Proc -> Proc]
    /\ main \in {"starting", "idle", "sleeping", "polling", "blocked"}
    /\ waitFor \in Vic \cup {None}
    /\ joined \in SUBSET Vic
    /\ tool \in ToolState
    /\ listed \in SUBSET Vic
    /\ start \in SUBSET Proc
    /\ early \in BOOLEAN
    /\ \A p \in Proc : prep[p] = "acquire" => target[p] \in Vic
    /\ main \in {"sleeping", "polling", "blocked"} => waitFor \in Vic

\* The program after vic_init, vic_create, vic_ef_create and vic_link: every
\* context is a thread context, nothing is started.
Init ==
    /\ proc = [p \in Proc |-> IF p = Main THEN "up" ELSE "absent"]
    /\ flow = [p \in Proc |-> [v \in Vic |-> "none"]]
    /\ home = [p \in Proc |-> [v \in Vic |-> None]]
    /\ reg = [p \in Proc |-> [v \in Vic |-> "idle"]]
    /\ abstr = [p \in Proc |-> [x \in Proc |-> "thread"]]
    /\ lock = [p \in Proc |-> [x \in Proc |-> "free"]]
    /\ sock = [p \in Proc |-> [x \in Proc |-> "closed"]]
    /\ current = [p \in Proc |-> "thread"]
    /\ launch = FALSE
    /\ terminate = [p \in Proc |-> FALSE]
    /\ prep = [p \in Proc |-> "launch"]
    /\ todo = [p \in Proc |-> {}]
    /\ target = [p \in Proc |-> None]
    /\ count = [p \in Proc |-> 0]
    /\ tids = [p \in Proc |-> {}]
    /\ addr = [p \in Proc |-> Main]
    /\ main = "starting"
    /\ waitFor = None
    /\ joined = {}
    /\ tool = "idle"
    /\ listed = {}
    /\ start = {}
    /\ early = FALSE

-----------------------------------------------------------------------------
(* The main thread: vic_ef_start for every flow, then vic_ef_wait for every *)
(* flow.                                                                   *)

\* vic_ef_start on a thread context: open its sockets, create the thread.
\* With thread contexts only, every call lets the preparation thread go.
StartThread(v) ==
    /\ proc[Main] = "up" /\ main = "starting"
    /\ flow[Main][v] = "none" /\ reg[Main][v] = "idle"
    /\ abstr[Main][v] = "thread"
    /\ flow' = [flow EXCEPT ![Main][v] = "created"]
    /\ sock' = [sock EXCEPT ![Main][v] = "open"]
    /\ launch' = TRUE
    /\ UNCHANGED <<home, reg, abstr, lock, current, terminate, prep, todo,
                   target, count, tids, addr, main, waitFor, joined, toolVars>>

AllStarted == \A v \in Vic : flow[Main][v] # "none" \/ reg[Main][v] # "idle"

BeginWait(v) ==
    /\ proc[Main] = "up"
    /\ main = "idle" \/ (main = "starting" /\ AllStarted)
    /\ v \notin joined
    /\ main' = "sleeping" /\ waitFor' = v
    /\ UNCHANGED <<memory, launch, joined, toolVars>>

\* After a second's sleep the main thread takes the main flow's lock ...
WaitLock ==
    /\ proc[Main] = "up" /\ main = "sleeping"
    /\ lock[Main][Main] = "free"
    /\ lock' = [lock EXCEPT ![Main][Main] = "user"]
    /\ main' = "polling"
    /\ UNCHANGED <<flow, home, reg, abstr, sock, current, terminate, prep, todo,
                   target, count, tids, addr, launch, waitFor, joined, toolVars>>

\* A poll of a process finds standard input readable: it becomes a wait
\* without a time limit.
WaitBlock ==
    /\ proc[Main] = "up" /\ main = "polling"
    /\ StdinReady /\ abstr[Main][waitFor] = "process"
    /\ main' = "blocked"
    /\ UNCHANGED <<memory, launch, waitFor, joined, toolVars>>

\* A thread is joined if it has exited, a process is found if it is a dead
\* child; the blocking wait ends with the child and is always done.
WaitDone(v) ==
    \/ main = "blocked"
    \/ abstr[Main][v] = "thread" /\ flow[Main][v] = "exited"
    \/ abstr[Main][v] = "process" /\ proc[v] = "exited"

\* ... and asks for the flow; it releases the lock with the answer.
WaitPoll ==
    /\ proc[Main] = "up" /\ main \in {"polling", "blocked"}
    /\ main = "blocked" => proc[waitFor] # "up"
    /\ lock' = [lock EXCEPT ![Main][Main] = "free"]
    /\ IF WaitDone(waitFor)
       THEN /\ main' = "idle" /\ waitFor' = None
            /\ joined' = joined \cup {waitFor}
       ELSE main' = "sleeping" /\ UNCHANGED <<waitFor, joined>>
    /\ UNCHANGED <<flow, home, reg, abstr, sock, current, terminate, prep, todo,
                   target, count, tids, addr, launch, toolVars>>

-----------------------------------------------------------------------------
(* The thread of flow v in process p: _vic_thread_start_helper around the  *)
(* routine.                                                                *)

FlowStep(p, v, a, b) ==
    /\ proc[p] = "up"
    /\ flow[p][v] = a
    /\ flow' = [flow EXCEPT ![p][v] = b]

\* The thread remembers the process that it starts in ...
ReadPid(p, v) ==
    /\ proc[p] = "up" /\ flow[p][v] = "created" /\ home[p][v] = None
    /\ home' = [home EXCEPT ![p][v] = p]
    /\ UNCHANGED <<flow, reg, abstr, lock, sock, current, terminate, prep, todo,
                   target, count, tids, addr, mainVars, toolVars>>

\* ... and enters itself in the program's list.
Register(p, v) ==
    /\ FlowStep(p, v, "created", "running")
    /\ home[p][v] # None
    /\ reg' = [reg EXCEPT ![p][v] = "executing"]
    /\ UNCHANGED <<home, abstr, lock, sock, current, terminate, prep, todo, target,
                   count, tids, addr, mainVars, toolVars>>

\* vic_ef_send, vic_ef_recv and the operations on shared data hold the flow's
\* own lock.
Enter(p, v) ==
    /\ FlowStep(p, v, "running", "critical")
    /\ lock[p][v] = "free"
    /\ lock' = [lock EXCEPT ![p][v] = "user"]
    /\ UNCHANGED <<home, reg, abstr, sock, current, terminate, prep, todo,
                   target, count, tids, addr, mainVars, toolVars>>

Leave(p, v) ==
    /\ FlowStep(p, v, "critical", "running")
    /\ lock' = [lock EXCEPT ![p][v] = "free"]
    /\ UNCHANGED <<home, reg, abstr, sock, current, terminate, prep, todo,
                   target, count, tids, addr, mainVars, toolVars>>

\* The split is over: every process listens for the next transformation.
SplitDone ==
    /\ tool = "done"
    /\ \A p \in Proc : proc[p] = "up" =>
                          current[p] = "process" /\ prep[p] \in {"listen", "gone"}

\* The bound on the routines' ends.
MayReturn ==
    \/ Finish = "any"
    \/ Finish = "ontime" /\ ~early
    \/ Finish = "before" /\ tool = "idle"
    \/ Finish # "before" /\ SplitDone

\* The routine returns: executing = false.
Return(p, v) ==
    /\ MayReturn
    /\ FlowStep(p, v, "running", "returned")
    /\ reg' = [reg EXCEPT ![p][v] = "finished"]
    /\ UNCHANGED <<home, abstr, lock, sock, current, terminate, prep, todo,
                   target, count, tids, addr, mainVars, toolVars>>

\* The thread asks for its process again.  It is the one that it started in:
\* it will end as a thread, wherever it is by then.
ReturnThread(p, v) ==
    /\ FlowStep(p, v, "returned", "leaving")
    /\ home[p][v] = p
    /\ UNCHANGED <<home, reg, abstr, lock, sock, current, terminate, prep, todo,
                   target, count, tids, addr, mainVars, toolVars>>

\* Faulty variant: the preparation thread is not asked to terminate.
ReturnProcessSilently(p, v) ==
    /\ FlowStep(p, v, "returned", "ending")
    /\ home[p][v] # p
    /\ UNCHANGED <<home, reg, abstr, lock, sock, current, terminate, prep, todo,
                   target, count, tids, addr, mainVars, toolVars>>

\* It is another one: the flow is a process now, and asks the preparation
\* thread of it to terminate.
ReturnProcess(p, v) ==
    /\ FlowStep(p, v, "returned", "ending")
    /\ home[p][v] # p
    /\ terminate' = [terminate EXCEPT ![p] = TRUE]
    /\ UNCHANGED <<home, reg, abstr, lock, sock, current, prep, todo, target, count,
                   tids, addr, mainVars, toolVars>>

ExitThread(p, v) ==
    /\ FlowStep(p, v, "leaving", "exited")
    /\ UNCHANGED <<home, reg, abstr, lock, sock, current, terminate, prep, todo,
                   target, count, tids, addr, mainVars, toolVars>>

\* pthread_join of the preparation thread, then exit of the whole process.
ExitProcess(p, v) ==
    /\ proc[p] = "up" /\ flow[p][v] = "ending"
    /\ prep[p] = "gone"
    /\ proc' = [proc EXCEPT ![p] = "exited"]
    /\ UNCHANGED <<memory, mainVars, tool, listed, start, early>>

-----------------------------------------------------------------------------
(* The preparation thread of process p.                                    *)

PrepGoto(p, a, b) ==
    /\ proc[p] = "up"
    /\ prep[p] = a
    /\ prep' = [prep EXCEPT ![p] = b]

\* The threads of process p: its first thread (the main thread, or the flow
\* the process was made for, which is counted below), the preparation thread
\* and the flows.
ThreadsNumber(p) ==
    (IF p = Main THEN 2 ELSE 1)
      + Cardinality({v \in Vic : flow[p][v] \notin {"none", "exited"}})

PrepLaunch(p) ==
    /\ PrepGoto(p, "launch", "listen")
    /\ launch
    /\ UNCHANGED <<flow, home, reg, abstr, lock, sock, current, terminate, todo,
                   target, count, tids, addr, mainVars, toolVars>>

PrepTerminate(p) ==
    /\ PrepGoto(p, "listen", "gone")
    /\ terminate[p]
    /\ UNCHANGED <<flow, home, reg, abstr, lock, sock, current, terminate, todo,
                   target, count, tids, addr, mainVars, toolVars>>

\* "prepare" arrives at the address made from the program's own pid.
ReceivePrepare(p) ==
    /\ PrepGoto(p, "listen", "lockmain")
    /\ p = Main /\ tool = "prepare" /\ current[p] = "thread"
    /\ tool' = "listing"
    /\ UNCHANGED <<flow, home, reg, abstr, lock, sock, current, terminate, todo,
                   target, count, tids, addr, mainVars, proc, listed, start, early>>

LockMain(p) ==
    /\ PrepGoto(p, "lockmain", "check")
    /\ lock[p][Main] = "free"
    /\ lock' = [lock EXCEPT ![p][Main] = "prep"]
    /\ sock' = [sock EXCEPT ![p][Main] = "closed"]
    /\ todo' = [todo EXCEPT ![p] = Vic]
    /\ UNCHANGED <<flow, home, reg, abstr, current, terminate, target, count,
                   tids, addr, mainVars, toolVars>>

\* Faulty variant: the context to lock is not remembered.
CheckForgetful(p, v) ==
    /\ v \in todo[p]
    /\ todo' = [todo EXCEPT ![p] = @ \ {v}]
    /\ PrepGoto(p, "check", IF abstr[p][v] = "thread" /\ reg[p][v] = "executing"
                            THEN "acquire" ELSE "check")
    /\ UNCHANGED <<flow, home, reg, abstr, lock, sock, current, terminate,
                   target, count, tids, addr, mainVars, toolVars>>

\* One turn of the locking loop: the flags are read first ...
Check(p, v) ==
    /\ v \in todo[p]
    /\ todo' = [todo EXCEPT ![p] = @ \ {v}]
    /\ IF abstr[p][v] = "thread" /\ reg[p][v] = "executing"
       THEN /\ PrepGoto(p, "check", "acquire")
            /\ target' = [target EXCEPT ![p] = v]
       ELSE /\ PrepGoto(p, "check", "check")
            /\ UNCHANGED target
    /\ UNCHANGED <<flow, home, reg, abstr, lock, sock, current, terminate,
                   count, tids, addr, mainVars, toolVars>>

\* Faulty variant: pthread_mutex_trylock with its result ignored.
AcquireTry(p) ==
    /\ PrepGoto(p, "acquire", "check")
    /\ lock' = [lock EXCEPT ![p][target[p]] = "prep"]
    /\ sock' = [sock EXCEPT ![p][target[p]] = "closed"]
    /\ target' = [target EXCEPT ![p] = None]
    /\ UNCHANGED <<flow, home, reg, abstr, current, terminate, todo, count,
                   tids, addr, mainVars, toolVars>>

\* ... and the lock is taken when the flow is next outside its own.
Acquire(p) ==
    /\ PrepGoto(p, "acquire", "check")
    /\ lock[p][target[p]] = "free"
    /\ lock' = [lock EXCEPT ![p][target[p]] = "prep"]
    /\ sock' = [sock EXCEPT ![p][target[p]] = "closed"]
    /\ target' = [target EXCEPT ![p] = None]
    /\ UNCHANGED <<flow, home, reg, abstr, current, terminate, todo, count,
                   tids, addr, mainVars, toolVars>>

\* Faulty variant: the locking loop is left before its end.
CountThreadsEarly(p) ==
    /\ PrepGoto(p, "check", "collect")
    /\ count' = [count EXCEPT ![p] = ThreadsNumber(p)]
    /\ tids' = [tids EXCEPT ![p] = {}]
    /\ todo' = [todo EXCEPT ![p] = Vic]
    /\ UNCHANGED <<flow, home, reg, abstr, lock, sock, current, terminate,
                   target, addr, mainVars, toolVars>>

CountThreads(p) ==
    /\ PrepGoto(p, "check", "collect")
    /\ todo[p] = {}
    /\ count' = [count EXCEPT ![p] = ThreadsNumber(p)]
    /\ tids' = [tids EXCEPT ![p] = {}]
    /\ todo' = [todo EXCEPT ![p] = Vic]
    /\ UNCHANGED <<flow, home, reg, abstr, lock, sock, current, terminate,
                   target, addr, mainVars, toolVars>>

Collect(p, v) ==
    /\ PrepGoto(p, "collect", "collect")
    /\ v \in todo[p]
    /\ todo' = [todo EXCEPT ![p] = @ \ {v}]
    /\ tids' = [tids EXCEPT ![p] = IF reg[p][v] = "executing" THEN @ \cup {v} ELSE @]
    /\ UNCHANGED <<flow, home, reg, abstr, lock, sock, current, terminate,
                   target, count, addr, mainVars, toolVars>>

\* "ready", the number of threads and the thread ids reach the tool.
Report(p) ==
    /\ PrepGoto(p, "collect", "poll")
    /\ todo[p] = {}
    /\ tool = "listing"
    /\ tool' = "dump" /\ listed' = tids[p]
    /\ UNCHANGED <<flow, home, reg, abstr, lock, sock, current, terminate, todo,
                   target, count, tids, addr, mainVars, proc, start, early>>

\* The wait for the split to have happened: this is another process, or the
\* number of threads has changed.
LeavePoll(p) ==
    /\ PrepGoto(p, "poll", "rebind")
    /\ p # Main \/ ThreadsNumber(p) # count[p]
    /\ UNCHANGED <<flow, home, reg, abstr, lock, sock, current, terminate, todo,
                   target, count, tids, addr, mainVars, toolVars>>

Rebind(p) ==
    /\ PrepGoto(p, "rebind", "waitstart")
    /\ addr' = [addr EXCEPT ![p] = p]
    /\ UNCHANGED <<flow, home, reg, abstr, lock, sock, current, terminate, todo,
                   target, count, tids, mainVars, toolVars>>

ReceiveStart(p) ==
    /\ PrepGoto(p, "waitstart", "convert")
    /\ addr[p] \in start
    /\ start' = start \ {addr[p]}
    /\ UNCHANGED <<flow, home, reg, abstr, lock, sock, current, terminate, todo,
                   target, count, tids, addr, mainVars, proc, tool, listed, early>>

\* Faulty variant: a process converts its own context only.
ConvertOwn(p) ==
    /\ PrepGoto(p, "convert", "reopen")
    /\ abstr' = [abstr EXCEPT ![p] =
                    [x \in Proc |-> IF x \in Vic \cap {p} THEN "process" ELSE @[x]]]
    /\ todo' = [todo EXCEPT ![p] = Vic]
    /\ UNCHANGED <<flow, home, reg, lock, sock, current, terminate, target,
                   count, tids, addr, mainVars, toolVars>>

\* Every thread context becomes a process context with its thread id as pid.
Convert(p) ==
    /\ PrepGoto(p, "convert", "reopen")
    /\ abstr' = [abstr EXCEPT ![p] =
                    [x \in Proc |-> IF x \in Vic THEN "process" ELSE @[x]]]
    /\ todo' = [todo EXCEPT ![p] = Vic]
    /\ UNCHANGED <<flow, home, reg, lock, sock, current, terminate, target,
                   count, tids, addr, mainVars, toolVars>>

\* Faulty variant: the process's own flow is not unlocked.
ReopenLocked(p, v) ==
    /\ PrepGoto(p, "reopen", "reopen")
    /\ v \in todo[p]
    /\ todo' = [todo EXCEPT ![p] = @ \ {v}]
    /\ IF reg[p][v] = "executing"
       THEN /\ sock' = [sock EXCEPT ![p][v] = IF p = v THEN "open" ELSE @]
            /\ lock' = [lock EXCEPT ![p][v] =
                           IF @ = "prep" /\ p # v THEN "free" ELSE @]
       ELSE UNCHANGED <<sock, lock>>
    /\ UNCHANGED <<flow, home, reg, abstr, current, terminate, target, count,
                   tids, addr, mainVars, toolVars>>

\* One turn of the last loop: an executing flow is unlocked, the process's
\* own one with its sockets open again.  Unlocking a mutex that someone else
\* holds, or no one, has no effect.
Reopen(p, v) ==
    /\ PrepGoto(p, "reopen", "reopen")
    /\ v \in todo[p]
    /\ todo' = [todo EXCEPT ![p] = @ \ {v}]
    /\ IF reg[p][v] = "executing"
       THEN /\ sock' = [sock EXCEPT ![p][v] = IF p = v THEN "open" ELSE @]
            /\ lock' = [lock EXCEPT ![p][v] = IF @ = "prep" THEN "free" ELSE @]
       ELSE UNCHANGED <<sock, lock>>
    /\ UNCHANGED <<flow, home, reg, abstr, current, terminate, target, count,
                   tids, addr, mainVars, toolVars>>

\* The main context last, in every process.
FinishSplit(p) ==
    /\ PrepGoto(p, "reopen", "listen")
    /\ todo[p] = {}
    /\ abstr' = [abstr EXCEPT ![p][Main] = "process"]
    /\ sock' = [sock EXCEPT ![p][Main] = "open"]
    /\ lock' = [lock EXCEPT ![p][Main] = "free"]
    /\ current' = [current EXCEPT ![p] = "process"]
    /\ UNCHANGED <<flow, home, reg, terminate, todo, target, count, tids, addr,
                   mainVars, toolVars>>

-----------------------------------------------------------------------------
(* The tool.                                                               *)

ToolGoto(a, b) == tool = a /\ tool' = b

RunTool ==
    /\ ToolGoto("idle", "prepare")
    /\ early' = (\E v \in Vic : reg[Main][v] = "idle")
    /\ early' => EarlyTool
    /\ UNCHANGED <<memory, mainVars, proc, listed, start>>

\* Every listed thread gets a copy of the program's memory.
Copied(f) == [p \in Proc |-> IF p \in listed THEN f[Main] ELSE f[p]]

\* Faulty variant: the listed threads also stay in the program.
SplitThreadsTwice ==
    [p \in Proc |-> [v \in Vic |->
        IF v \in listed
        THEN IF p \in {v, Main} THEN flow[Main][v] ELSE "none"
        ELSE IF p \in listed THEN flow[Main][v] ELSE flow[p][v]]]

\* The threads of the images (pstree.img): the program keeps its main thread
\* and the threads that were not listed; the process of a listed thread has
\* that thread and a copy of every thread that was not listed.
SplitThreads ==
    [p \in Proc |-> [v \in Vic |->
        IF v \in listed
        THEN IF p = v THEN flow[Main][v] ELSE "none"
        ELSE IF p \in listed THEN flow[Main][v] ELSE flow[p][v]]]

\* criu dump freezes and ends the program; with the image of every listed
\* thread the tool restores the processes.
Dump ==
    /\ ToolGoto("dump", "start")
    /\ \A v \in listed : flow[Main][v] # "exited"
    /\ proc' = [p \in Proc |-> IF p \in listed THEN "up" ELSE proc[p]]
    /\ flow' = SplitThreads
    /\ home' = Copied(home) /\ reg' = Copied(reg) /\ abstr' = Copied(abstr)
    /\ lock' = Copied(lock) /\ sock' = Copied(sock)
    /\ current' = Copied(current) /\ terminate' = Copied(terminate)
    /\ prep' = Copied(prep) /\ todo' = Copied(todo) /\ target' = Copied(target)
    /\ count' = Copied(count) /\ tids' = Copied(tids) /\ addr' = Copied(addr)
    /\ UNCHANGED <<mainVars, listed, start, early>>

\* A listed thread that is gone has no core image: the tool stops with the
\* program already ended.
DumpFails ==
    /\ ToolGoto("dump", "failed")
    /\ \E v \in listed : flow[Main][v] = "exited"
    /\ proc' = [proc EXCEPT ![Main] = "exited"]
    /\ UNCHANGED <<memory, mainVars, listed, start, early>>

\* Faulty variant: only the program's own pid is told to start.
SendStartMain ==
    /\ ToolGoto("start", "done")
    /\ start' = {Main}
    /\ UNCHANGED <<memory, mainVars, proc, listed, early>>

SendStart ==
    /\ ToolGoto("start", "done")
    /\ start' = {Main} \cup listed
    /\ UNCHANGED <<memory, mainVars, proc, listed, early>>

-----------------------------------------------------------------------------
MainNext ==
    \/ \E v \in Vic : StartThread(v) \/ BeginWait(v)
    \/ WaitLock \/ WaitBlock \/ WaitPoll

FlowNext(p, v) ==
    \/ ReadPid(p, v) \/ Register(p, v) \/ Enter(p, v) \/ Leave(p, v) \/ Return(p, v)
    \/ ReturnThread(p, v) \/ ReturnProcess(p, v) \/ ExitThread(p, v) \/ ExitProcess(p, v)

PrepNext(p) ==
    \/ PrepLaunch(p) \/ PrepTerminate(p) \/ ReceivePrepare(p) \/ LockMain(p)
    \/ \E v \in Vic : Check(p, v) \/ Collect(p, v) \/ Reopen(p, v)
    \/ Acquire(p) \/ CountThreads(p) \/ Report(p) \/ LeavePoll(p) \/ Rebind(p)
    \/ ReceiveStart(p) \/ Convert(p) \/ FinishSplit(p)

ToolNext == RunTool \/ Dump \/ DumpFails \/ SendStart

Next ==
    \/ MainNext
    \/ \E p \in Proc, v \in Vic : FlowNext(p, v)
    \/ \E p \in Proc : PrepNext(p)
    \/ ToolNext

Spec == Init /\ [][Next]_vars

\* Every thread that can take a step takes it (weak fairness).  The main lock is
\* not withheld for ever from a thread that waits for it (strong fairness): the
\* main thread sleeps for a second between two uses of it.  Nothing of the kind
\* is assumed of a flow's lock, which vic_ef_send may release and take again at
\* once, for ever.  A routine is never forced to return, and never forced to
\* enter its critical section.
Fairness ==
    /\ WF_vars(\E v \in Vic : StartThread(v)) /\ WF_vars(\E v \in Vic : BeginWait(v))
    /\ SF_vars(WaitLock) /\ WF_vars(WaitPoll)
    /\ \A p \in Proc :
        /\ \A v \in Vic :
            /\ WF_vars(ReadPid(p, v)) /\ WF_vars(Register(p, v)) /\ WF_vars(Leave(p, v))
            /\ WF_vars(ReturnThread(p, v)) /\ WF_vars(ReturnProcess(p, v))
            /\ WF_vars(ExitThread(p, v)) /\ WF_vars(ExitProcess(p, v))
        /\ SF_vars(LockMain(p))
        /\ WF_vars(PrepNext(p))
    /\ WF_vars(ToolNext)

FairSpec == Spec /\ Fairness

-----------------------------------------------------------------------------
(* Properties.                                                             *)

\* Flow v has a thread in process p that has not left its routine.
Active(p, v) == proc[p] = "up" /\ flow[p][v] \in {"created", "running", "critical"}

\* A flow that is inside its lock, sending or receiving, has its sockets: the
\* preparation thread closes them and a restored process reopens them only
\* while the flow is kept out.
SocketsOpenInCriticalSection ==
    \A p \in Proc, v \in Vic :
        Active(p, v) /\ flow[p][v] = "critical" => sock[p][v] = "open"

\* A process that is through with the transformation has given back every
\* lock it took of a flow that still runs in it, and the main one.
NoFlowLeftLocked ==
    \A p \in Proc :
        proc[p] = "up" /\ prep[p] = "listen" =>
            /\ lock[p][Main] # "prep"
            /\ \A v \in Vic : Active(p, v) => lock[p][v] # "prep"

\* When the tool freezes the program, a reported flow is not between two
\* operations on a socket: it is held before its lock, or its routine is over.
\* (A flow that registers while the locks are being taken is reported too.)
FrozenOutsideCriticalSection ==
    tool = "dump" /\ ~early => \A v \in listed : flow[Main][v] # "critical"

\* A flow runs in one process only: the copies of the memory that the split
\* makes do not run a routine twice.  (A flow that was not reported because
\* it registered late is copied into every process.)
FlowRunsOnce ==
    ~early => \A v \in Vic, p, q \in Proc : Active(p, v) /\ Active(q, v) => p = q

\* vic_ef_wait asks for what the flow is: for the thread while the flow runs
\* in the program, for the process once it has one.
PollsRightHandle ==
    \A p \in Proc :
        main \in {"polling", "blocked"} /\ Active(p, waitFor) /\ ~early =>
            abstr[Main][waitFor] = (IF p = Main THEN "thread" ELSE "process")

\* The process that has flow v: the one made for it once its thread has left
\* the program.
Where(v) == IF flow[v][v] # "none" /\ flow[Main][v] = "none" THEN v ELSE Main

Phase(v) ==
    IF proc[Where(v)] # "up" THEN "over"
    ELSE CASE flow[Where(v)][v] \in {"none", "created"} -> "new"
           [] flow[Where(v)][v] = "running" -> "out"
           [] flow[Where(v)][v] = "critical" -> "in"
           [] OTHER -> "over"

\* The program was frozen while a thread had left its routine, so that it was
\* not reported, and had not yet asked for its process: every process of the
\* split has a copy of it, which takes that process for its own and ends it.
Straggler == \E p \in Vic : \E v \in Vic \ {p} : flow[p][v] \in {"returned", "ending"}

Migrating == INSTANCE Migration WITH
    Flow <- Vic, Home <- Main, void <- early \/ Straggler,
    at <- [v \in Vic |-> Where(v)], phase <- [v \in Vic |-> Phase(v)]

\* The split is a split of Migration: flows start and end once, all that run leave
\* the program in one step, between two operations, and none is lost unless the
\* whole program is.  There are two exceptions: the tool was run too early, and
\* a thread between its last store and its question for the process was copied.
Migrates == Migrating!Spec

\* The preparation waits for ever for the lock of a flow that leaves its critical
\* section and enters it again for ever.
Overtaken ==
    \E v \in Vic :
        /\ <>[](prep[Main] = "acquire" /\ target[Main] = v)
        /\ []<>(flow[Main][v] = "critical") /\ []<>(flow[Main][v] = "running")

\* Once the tool runs, the split comes to its end in every process and no
\* thread is left waiting in the preparation, unless a flow withholds its lock.
SplitCompletes == (tool = "prepare" ~> SplitDone) \/ Overtaken

\* "Wait for an execution flow to finish" (vic.h): the wait for a flow whose
\* routine is over returns, unless a flow withholds its lock from the
\* preparation, which keeps the main lock meanwhile.
Over(v) == reg[Main][v] # "idle" /\ \A p \in Proc : ~Active(p, v)

WaitReturns ==
    (\A v \in Vic : (Over(v) /\ waitFor = v) ~> v \in joined) \/ Overtaken
=============================================================================
