# Verification of vic-lib

vic-lib lets a C program be written against *virtual isolation contexts* (vics)
and moved, while it runs, between two shapes: one process with a thread per
execution flow, and one process per execution flow. The library prepares the
program for the move; a Python tool freezes it with criu, edits the images and
restores it in the other shape.

This directory holds TLA+ models of the program and the tool, TLC
configurations that check them on small instances, and TLAPS proofs of the
theorems that matter most.

## The system

| component | source | state it keeps | operations |
|---|---|---|---|
| thread pausing | `lib/pause_thread.c` | one semaphore; per thread: blocked signals, queued signals, the handler | `pthread_pause`, `pthread_resume`, `pthread_pause_enable`, `pthread_pause_disable`, the handler |
| contexts and flows | `lib/vic.c` | `vic_list` (tid, thread, executing), per context: abstraction, handle, wait function, links; per flow: a mutex | `vic_init`, `vic_create`, `vic_ef_create`, `vic_ef_start`, `vic_ef_wait`, `vic_ef_destroy`, `vic_destroy` |
| links | `lib/vic.c` | per context a list of addresses and sockets | `vic_link`, `vic_ef_send`, `vic_ef_recv`, disconnect, reinit |
| preparation thread | `lib/vic.c` | `current_abstraction`, `launch_preparation_thread`, `terminate_preparation_thread` | `perform_transform_threads_to_processes`, `perform_transform_processes_to_threads` |
| shared data | `lib/dynamic_allocation.c/.h` | one map per process from (tid, key) to a block | allocate, deallocate, read, write, export, import |
| split tool | `split.py`, `split_prepare.py`, `split_finish.py` | images | prepare, dump, split, restore, finish |
| merge tool | `merge.py`, `merge_prepare.py`, `merge_finish.py` | images, backtraces | the same for the way back |
| generator and build files | `generator.c`, `cmake/` | lexer state | a source file per process context |

How they interact. The main thread starts the flows and waits for each, taking
the *main flow's* lock around every poll. A flow takes its own lock around
every send, receive and access to shared data. The preparation thread waits
for the tool's message, takes all these locks in turn, closes the sockets
behind them, and reports; the tool freezes the program, moves threads and
copies memory between processes, restores, and sends "start"; the preparation
thread (now one per process) rewrites the records, opens the sockets and gives
the locks back. On the way back every child's preparation thread first has its
flow write a backtrace (by pausing and resuming it) and exports its data.

What makes it hard: a mutex whose holder is copied into other processes;
memory copied at one instant and used by several processes from then on;
flows that end at any time during a transformation; counts of threads and of
children used as signals; signals that interrupt anything.

## Modules

`PauseThread` <- `lib/pause_thread.c`. A thread is a program counter plus the
state of its innermost signal handler (the header says why one is enough). The
semaphore, both signal queues and the mask are variables; every line of
`pthread_pause`, `pthread_resume` and `pthread_pause_disable` that another
thread can interleave with is an action. `last` and `asked` are history
variables: they record steps and disable none, so that a request to a thread that
has exited is made, as the code makes it (it ignores what `pthread_kill` returns),
and is never confirmed. libc's locks are modelled because handlers take them: the
allocator's, which the handler of the pausing signal needs for the backtrace and
which its own thread may have; stdio's only keeps other threads out, since glibc
makes it recursive for its owner.

`Pausing` is what that module promises its callers: pauses and resumes are
carried out one after the other in the whole process, a call returns after its
target has obeyed, and a thread that has pausing disabled is told nothing. It knows
no semaphore, no signal and no mask. `PauseThread` implements it (`Pauses`): the
request is the one whose signal was sent and not confirmed (`asked`), and what a
thread obeys is the state of its handler (`Obeys`).

`VicSplit` <- `lib/vic.c`, `split*.py`. Memory is indexed by process, because
after the dump every process has its own copy: `reg` is `vic_list`, `abstr` a
context's abstraction with its handle and wait function, `lock` the flow's
mutex (free, held by the preparation thread, held by a thread of the program),
`sock` its links' sockets. The preparation thread's loops visit the list one
context at a time (`todo`), in any order. `Dump` is the tool's whole work
between freeze and restore: `SplitThreads` says which threads each process
gets, `Copied` gives each new process the program's memory. `early` is a
history variable. A flow's thread id is its name, since the tool makes the
flow's process with that pid. A thread reads its pid (`home`) when it starts and
compares it when its routine is over: `executing` is cleared ("returned"), then it
leaves as a thread ("leaving") or asks the preparation thread of its process to
terminate ("ending"). Between the first two a thread is not listed and
can be copied into every process (`Straggler`).

`VicMerge` <- `lib/vic.c`, `merge*.py`. It starts where `VicSplit` ends
(`SplitDone` with every flow running). A flow's thread is in its own process
(`at[v] = v`) or, after the merge, in Main. `handler` and `backtrace` are what
`PauseThread` shows a caller of pause and resume: the pause returns when the
handler has started, the resume is taken only in the suspended state and
returns when the second handler has posted; that handler prints and returns
later (`"resuming"` until `EndHandler`), possibly after the dump, in Main.
`executing` is the flag in Main's list, which the last loop tests.
A routine that ends compares `getpid()` with the pid it
started with (vic.c:721) and ends its process; if the merge moves the thread
between the comparison and the exit, the rest of that code runs in Main's
memory (`ExitMerged`).

`VicLinks` <- `lib/vic.c` (`vic_create`, `vic_link`, the starting functions,
`_vic_disconnect_links`, `_vic_reinit_links`, `_vic_transform_*`, the loops of both
transformations), `split.py`, `merge.py`. Where the other two modules follow one
transformation step by step, this one follows the links through any number of
them. `kind`, `current`, `tid`, `executing` and `transport` are what a process's
memory says of contexts and links, once per process; `sock` says what a socket
was opened with; `place` says where a flow really runs. Every process walks its
copy of the list at its own pace (`todo`), so one may be through with the end of
a split, and be asked to merge, while another still converts. Coarser than
`VicSplit`: closing, opening or converting one context is one step, locks are
left to that module, and the tool either does its work or is not run.
It assumes that contexts are created and linked before the first one is
started, as `main.c` and the generated programs do, that a name is used for one
link, that routines run for ever, and that the tool is run when every context
is started. The main context has no links. `Mixed` says whether a program may
have contexts of both kinds.

`DynamicMemory` <- `lib/dynamic_allocation.c/.h`, and the places in `lib/vic.c` that
export, import and copy the data. `table[p]` is the map of process `p`,
`initialized[p]` its flag, `counter[p]` its key counter; a pointer is a key, a
thread id with a number. An operation that inserts or erases has a beginning
and an end, so that two flows, or a flow and a transformation, can meet in the
map; a write is one step. Which lock an operation holds is what the code does:
receiving, writing and freeing hold the flow's, `allocate` holds none. A split
copies map, flag and counter; `Export`, `Merge` and `Import` are
`export_dynamic_data`, the move of the flows and `import_dynamic_data`, one child
after the other. The value of a block is the number of the write that made it.
What C leaves undefined ends the run, with the reason in `undefined`. Coarser
than the other modules: the protocol with the tool is `stage`, and routines run
for ever. `written`, `base`, `late` and `cold` are history variables.

`Migration` is the abstract specification of what the library promises: a flow
starts once, goes in and out of operations, ends once, and is moved only between
two operations, together with all flows that still run. It knows no lock, no
message, no record and no copy. `VicSplit`, `VicMerge` and `DynamicMemory`
implement it, each under its own refinement mapping (`Migrating`, at the end of
each module): in `VicSplit` a flow is where its thread's memory is; in `VicMerge` the
place is a variable; in `DynamicMemory` an operation on the map is the operation
a flow is inside of. `void` says when nothing is promised: the tool was run
before every started flow had registered (`early`), a thread was copied into every
process of a split (`Straggler`), a flow was merged that had begun to
end its process (`EndingMerged`), or two flows met in a map, or one allocated
while a transformation passed (`undefined`).

How the modules fit: `VicMerge` begins in the state in which `VicSplit` ends,
`VicLinks` and `DynamicMemory` follow one part of the state through any sequence
of both. `VicMerge` assumes of pause and resume what `PauseThread` has: a pause
returns in a handler that is not suspended yet, a resume is delivered to a
suspended thread only and returns while its handler may still run
(`HandlerNeverBlocked` and `TokenReturns` add when both return at all).
`VicHandover` proves that `VicMerge` goes on where `VicSplit` ends: it sees the
split program through
`VicMerge`'s variables (`Merging`).

`MCPauseThread`, `MCVicSplit`, `MCVicMerge`, `MCVicLinks` and `MCDynamicMemory` only
define the symmetry sets. `PauseThreadProofs`, `VicSplitProofs`,
`VicSplitMigration`, `VicMergeProofs`, `VicHandover`, `VicLinksProofs`,
`DynamicMemoryProofs` and `MigrationProofs` hold the theorems.

Definitions whose comment begins "Faulty variant" are not part of any
specification: each changes one action the way a plausible bug would, and
breaks the property it was written for.

## Runs

| run | instance | shows |
|---|---|---|
| `PauseThread` | 3 threads, all may exit, nested calls, libc locks unguarded | token (never doubled, lost only with a request to a thread that has exited, sent before or after), holder, mask, last request, dispatch before block; it implements `Pausing` |
| `PauseThreadLive` | 2 threads, none exits, libc locks only while disabled | no self-deadlock, token returns, resume takes effect |
| `PauseThreadHeap` | 2 threads, libc locks unguarded | **violation**: a handler needs malloc's lock, which its own thread has |
| `VicSplit` | 2 flows, tool at any time, routines end at any time (after the split only, if the tool was early), stdin readable or not | all safety properties of the split; it implements `Migration` |
| `VicSplitLive` | 2 flows, tool after registration, routines end after the split | the split completes, waits return, unless a flow withholds its lock |
| `VicSplitWait` | 1 flow, its routine ended before the tool is run | **violation**: a wait that never returns |
| `VicMerge` | 3 flows, routines end at any time, stdin readable or not | all safety properties of the merge; it implements `Migration` |
| `VicMergeLive` | 2 flows, routines end after the merge | the merge completes, unless a flow withholds its lock or a handler is stuck; waits return |
| `VicMergeChildren` | 2 flows, routines end at any time | **violation**: with a child that `vic_ef_wait` has reaped before, the assertion at vic.c:394 |
| `VicLinks` | 3 contexts of one kind, 2 links, any number of splits and merges | sockets only where the flow runs, both ends meet, children can be merged again, copies agree |
| `VicLinksMixed` | 2 contexts of any kinds, 1 link | **violation**: after a merge the ends of a link differ |
| `DynamicMemory` | 2 flows, routines may allocate bare, a split and a merge, with operations before, between and after | pointers stay valid, no update made since the split is lost, no block takes another's place; implements `Migration` |

Bounds. No run of `VicLinks` bounds the number of transformations: the state
returns to one it has been in. Three contexts and two names let a context have
two ends, connecting and binding, share no link with another, and let two
processes be at different steps while a third is done. Three threads let two callers race for a third, or a caller be a
target; the semaphore admits one signal at a time, so a fourth thread adds no
new kind of overlap. Two flows let one be locked while the other is inside its
lock, and one end while the other is listed (three flows were run once for
the split: same result, five minutes). Three flows in the merge let a reaped
child, a zombie and a living one be counted together. `Finish` bounds when routines
may return: in the liveness runs only after the transformation, as one that ends in
its middle makes the tool fail or wait (observations below). `VicSplitWait` needs one
flow: its end leaves none to move. No counter of these runs
needs a bound: the semaphore stays in {0, 1} and each thread's queue too.

`DynamicMemory` has four bounds, constants of the module: `MaxKey = 1` (a counter
gives out two numbers), `MaxHeld = 2` (blocks a flow has at a time), `MaxWrites = 1`
(writes to a block), `MaxMerges = 1` (splits, each with its merge). With two numbers
a flow allocates before and after the split, and two processes give out the
same number; with two blocks it keeps one across the transformation while it frees the other;
one write tells a stale copy from a fresh one; after one merge the counters go
back to Main's. The proofs are for all values of the bounds.

Deadlock is checked for `VicLinks`, where routines run for ever and another
transformation is always possible: no process is left waiting half-way. It is
not checked elsewhere: those programs stop legitimately, when all flows are
joined and the tool is done, when the tool cannot do its work (`VicLinksMixed`), or, in
`DynamicMemory`, at a bound or after undefined behaviour.

Fairness. Threads that can run do (weak fairness). `sem_wait` and the main lock are
contended and get strong fairness: the main thread sleeps for a second between
two uses of that lock. None is assumed of a flow's lock, which `vic_ef_send`
releases and retakes at once, for ever when its peer is gone; so
`SplitCompletes`, `MergeCompletes` and the split's `WaitReturns` name the exception
(`Overtaken`: the preparation waits for ever for a flow that leaves its lock and
takes it again). None is assumed of the handler that writes a backtrace in
`VicMerge`, which may wait for a lock of its own thread (the finding of
`PauseThreadHeap`; exception `HandlerStuck`), and none for a routine entering its
lock or returning. `PauseThread` assumes that a thread that disabled pausing enables
it again.

## What is proved

Every safety property that a passing run checks is also a theorem.

`PauseThreadProofs`, for any set of threads and all values of the flags:
`TypeOK`, `OneToken`, `TokenLostToExitedOnly`, `HolderNotSuspended`,
`DisabledNotInterrupted`, `LastRequestWins`, `BlockedAfterDispatch`, and
`NoSelfDeadlock` for programs that guard their use of libc (`GuardedHeap`): the handler
that allocates never interrupts its thread inside libc. The inductive
invariant says that the token of the semaphore is in one place at most: in the
semaphore, with a caller between wait and kill or post, in a queued signal, or
in a handler before its post. From it, a thread that holds the token is not in
a handler, and a signal on its way to a thread is the last one sent. For `Pauses`
the invariant also has the caller: while a request is open (`asked`), its signal is
queued or its handler is at work, unless its target has exited, its caller is before
the confirmation, and no other thread is past the semaphore; an exited thread has
nothing on the way
(`Awaited`, `ExitedQuiet`; theorem `OneRequest`). A request to an exited thread stays
open for ever; `TokenLostToExitedOnly` follows from where the token of an answered or
open request is.

`VicSplitProofs`, for any finite set of flows, any time of the tool and any end
of the routines: `TypeOK`, `SocketsOpenInCriticalSection`, `NoFlowLeftLocked`. The
first needs only that closed sockets are behind a lock the preparation holds
(`LockGuardsSockets`). The second needs to know that a lock taken before the dump
is one that will be released after it, in the process where the flow then
lives; that is `HeldIsReported` with `Stage` (how far each preparation is when
the tool is at a given step), `TargetRegistered` and `HomeInMain`.

`VicSplitMigration`, with the same generality: `FrozenOutsideCriticalSection`,
`FlowRunsOnce`, `PollsRightHandle`, and `Migrates`. Its invariant `SplitInv` says that
records and threads agree (`FlowRecord`), that there is one process before the
dump (`OneProcess`) and that each flow is in exactly one after it (`SplitPlaces`),
that no flow starts while the tool works (`AllRegistered`), and that a running
flow which the locking loop has passed is locked (`VisitedHeld`). The last two
make the dump a `Split` of `Migration`: all flows that run are listed, and none is
inside. A thread that has left its routine (`Ended`) and is not listed is copied; all
threads started in Main (`Strangers`), so a copy that asks for its process finds another,
and once there is one there always is: `StragglerFlow`, `VoidStays`. `Kinds` and `MainThreadLock` give `PollsRightHandle`: the main thread polls
under the lock that the preparation holds while it converts the records. Every
other step maps to the step of one flow or to a stutter. Two theorems state what no
run does: a wait that returned, returned for a flow that runs nowhere
(`WaitMeansOver`, with the invariant `JoinedAreOver`: the wait without a time limit is
entered after the split only, and a flow does not come back into its routine), and
flows that run are all threads or all processes in every state (`KeepsShape`).

`VicMergeProofs`, for any finite set of flows and both kinds of standard input:
`TypeOK`, `SocketsOpenInCriticalSection`, `BacktraceBeforeReady`,
`StackMatchesExport`, `NoFlowLeftLocked`, `NoFlowLost`, `Migrates`. The invariant
`MergeInv` says how far Main's preparation is when the tool is at a given step
(`Stages`), where flows can be (`Places`), that every child that still runs is yet
to be asked, being asked, or has answered "ready" (`Answering`, `Asked`), which
locks are held when, in the children and in Main (`HeldInChild`, `HeldInMain`), that
closed sockets are behind such a lock (`InsideOwnLock`, `ClosedBehindLock`), and
that what a child exported stays true (`Exported`, with the handler of the resuming
signal still on the thread), that all contexts are threads when the last loop starts
(`Converted`) and that running flows are marked as executing (`ExecutingKept`). `Counted` is the argument for
`NoFlowLost`: children only become fewer after they were counted, the program goes on only if
as many threads were made as children were counted, and a finite set that
contains the children and is not larger than the set of threads is that set; so
every flow that runs at the dump is listed. `WaitMeansOver` and `KeepsShape` are as for
the split; the first needs that a poll asks for what the flow is (`Kinds`,
`MainThreadLock`). `AssertionHolds` is the other side of the finding at vic.c:394: as
long as no flow has left its routine, as many threads are made as children are counted.

`VicHandover` joins the two. `VicMerge` starts from one state, the split of flows that
do nothing; a real program is asked to merge while flows are inside their locks
and the main thread waits. `Handover` proves that every state in which the split of
running flows is over satisfies `MergeInv` and the invariant of the waits, and
`AfterSplit` (in `VicMergeProofs`) that the merge's safety properties follow from these,
wherever it begins. `HandoverStart` proves that `VicMerge`'s initial predicate is what
the split leaves if no flow is inside its lock and the main thread has not begun to
wait. The invariant says who has each lock and socket in each of the copies
of the memory: a lock is taken by its user or the preparation (`Users`), which
closes what it locks (`LockedClosed`); in a process that is not the flow's own its
sockets stay closed and its lock is given back in the last loop (`OthersClosed`),
as the copy still says that the flow executes (`RecordKept`), and the main context
comes last (`MainLast`). `VicMerge`'s `executing` is the flag in the record that the split
leaves in Main.

`DynamicMemoryProofs`, for any set of flows and any bounds: `TypeOK`,
`OnlyBareAllocationDisturbed`, `PointersValid`, `NoUpdateLost`, `NoBlockReused`,
`Migrates`. The first part of the invariant says where flows are in each stage and that
operations under way in one map exclude each other unless the run is undefined
(`Ages`, `Places`, `Files`, `LockedImport`, `OneInside`, `RoomLeft`). The second is about the blocks: a
pointer's key has its flow's id and a number the flow's process has given out
(`Owned`), no map and no file has a key that no one has given out (`Nowhere`), a
map that was cleaned up is empty (`ColdEmpty`), the flow's process or the file it has
written knows the block with the value it should have (`Kept`), and every other
copy of it is one of the split's (`Copies`). `Copies` is what makes the
order of the imports harmless for blocks made since the split, and why older
ones are promised less. `ReceivesAreSafe` is for programs that allocate in receives
only (`~Bare`): the excuses for bare allocations (`late`, `undefined = "allocate"`) are
never used.

`MigrationProofs`: flows that run are all threads or all processes (`OneShape`);
with the three `Implements` theorems this holds of the models, and for the split and
the merge `KeepsShape` states it.

`VicLinksProofs`, for any sets of contexts and names: `TypeOK` and `SocketsAtHome`
for programs of one kind or both, `LinksConnected`, `ChildrenFindThemselves` and
`CopiesAgree` for programs of one kind (`~Mixed`). `SocketsAtHome` rests on
`LinksInv`: between transformations a process's
records say truly where flows run (`KindIsPlace`), the loop that closes leaves
nothing open behind it (`ClosedBehind`), so nothing is open at the split, and at
the end of a split or merge the thread ids and kinds converted so far tell a
process exactly which flows are its own (`AfterSplit`, `AfterMerge`).
`LinksConnected` adds `UniformInv`: in every process the contexts not yet visited
are of the current kind and the visited ones of the other (`OneKind`), records
have the transport of their context's kind (`RecordsFit`), sockets are closed
ahead of the loop that opens (`ClosedAhead`; without it a name would be bound
twice) and open as recorded behind it (`OpenFits`), and each flow's process exists
and will be able to answer (`ChildState`). `OneKind` is what a mixed program breaks.
The other two need that a child's records have its own flow at home
(`SelfKnown`) and that nothing is recorded of what does not exist (`NothingUnmade`).

The assumptions are that the main context is not among the flows, that `None`
is no context, thread or value, that the bounds are numbers, and that the set of
flows is finite where it is counted.

Only model-checked: all liveness (temporal properties under fairness, and
`ENABLED`, are out of the prover's reach). The four violations are runs, of course,
not theorems.

## Observations

Beyond the four findings that runs show, the models contain these behaviours,
which no document of the repository excludes: a listed flow that exits before
the dump leaves the program dead with no images to restore (`DumpFails`, in both
modules); a flow that registers while the tool prepares is copied into every
process; a child that finished without having been waited for never answers
the tool; a poll with readable standard input blocks with the main lock held.
In a program with contexts of both kinds the direction of the next
transformation is that of the context created last (`current_abstraction`,
vic.c:988 and 996); the split then needs that no context is a process yet, and a
merge opens the sockets of the thread contexts a second time, since they were
never closed.

A flow that has found itself in a process of its own and is merged before it has
exited goes on in Main's memory (`ExitMerged`): it destroys its context there,
asks Main's preparation thread to terminate and joins it, and calls `exit`, which ends
all flows; or it fails an assertion or waits for ever. The window is from the
comparison at vic.c:721 to the exit, and the tool has only to find the process
alive in it.

The same lines have a window in the split. A flow's thread clears `executing` (719),
and two lines later compares its process with the first one. Frozen in between it
is not listed, so `split.py` leaves it in Main and gives a copy to every new process; each
copy finds a pid that is not the first, destroys the context, and ends the process
with the flow that runs there (`Straggler`). A thread that made the comparison
before it was frozen ends as a thread, in whatever process it is; if it was listed (its
`executing` was cleared after that), the process made for it then has no flow but
goes on, with its preparation thread and no one to end it. `VicMerge` begins
with flows that run, and leaves such processes out.

A preparation can wait for ever for a flow's lock (`Overtaken`) with the main lock
held, so that the waits for other flows hang too. A child whose thread was paused
inside malloc never answers the tool. A thread that has ended and is not joined yet is
converted like the others (vic.c:254): the wait then polls for a process that does
not exist. And a request to a thread that has exited keeps the semaphore's token,
after which no pause, resume or disable returns.

In the data of the flows: an update to a block that is older than the split can
be lost in the merge, when the file of another child, which has the split's copy
of it, is imported later; a block that was freed after the split comes back the
same way. An import into a map that had been cleaned up is forgotten by the
next allocation, because the import does not set the flag. A block allocated
outside a receive while the process is behind its export is not in the file. And
the flows of one process change one map under locks of their own, which do not
exclude each other.

Outside the models: `main.c` (36-37) destroys a context whose flow has not been
destroyed, which `vic_destroy` asserts against (vic.c:649); `vic_ef_send` and
`vic_ef_recv` look a link up before they take the lock under which the conversion
frees its strings (vic.c:1128).

## Not modelled

Of the components above:

- Lifecycles: `vic_destroy` and `vic_ef_destroy` against the preparation thread's
  walks over `vic_list`, `vic_init`'s preparation thread that is never launched, forked flows
  that end, contexts that are never started. What goes wrong there is a use of
  freed memory; the models begin when flows can be started and stop before
  contexts are destroyed. The hazards name the lines.
- Images: the pure parts of the tools, thread and file ids in `split.py` and the
  relocation of a stack in `merge.py`. The models have their effect, on threads
  and memory, and their failures.
- Messages in sockets: what is dropped when a link is closed under them, the main
  context's own links (opened again in every process by the last lines of the
  split), and the lookup of a link while its address is replaced.
- The end of a program's data (`_destroy_dynamic_memory`), which frees all blocks
  after the last use, and reading a block, which changes nothing: `PointersValid` and
  `NoUpdateLost` say what a read finds. The bytes and sizes of blocks.
- `_timespec_normalise` and the sleeping functions of `lib/pause_thread.c`.

That the kernel does not give a new thread an id that an earlier thread had is
assumed: keys and process names rest on it.

Left out: the generator and the build files (text processing with no state that
outlives a run), the vendored containers and lexer, the example program, the
contents of messages, backtraces and images beyond what properties need. The
exchange between tool and program is lossless in the models; the code depends
there on time limits (a one-second sleep in `merge_prepare.py`) that only the
sockets' library could justify.
