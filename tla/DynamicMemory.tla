---------------------------- MODULE DynamicMemory ----------------------------
(***************************************************************************)
(* The data of the flows (lib/dynamic_allocation.c): a map from keys to     *)
(* blocks in every process, through splits and merges.                     *)
(*                                                                         *)
(* A pointer is a key: the id of the thread that allocated the block and a *)
(* number from the process's counter.  Flows of one process share its map; *)
(* reading, writing and freeing a block, and receiving a message into a    *)
(* new one, hold the lock of the flow, a bare allocation holds none.  A    *)
(* split copies the map and the counter into every process.  For a merge   *)
(* every child exports its whole map, and Main inserts the exported ones   *)
(* into its own, one after the other.                                      *)
(*                                                                         *)
(* The value of a block is the number of the write that made it.  A flow    *)
(* uses the blocks it allocated, with its own lock.  Routines run for ever; *)
(* the rest of a transformation is in VicSplit and VicMerge.  Operations    *)
(* of two threads on one map that are not ordered by a lock are undefined   *)
(* behaviour in C: `undefined' says why, and such a run is followed no      *)
(* further.                                                                *)
(***************************************************************************)
EXTENDS Naturals, FiniteSets

CONSTANTS
    Vic,       \* the contexts with a flow; each names the process of its flow
    Main,      \* the first process
    None,
    Bare,      \* routines may allocate outside a receive
    MaxKey,    \* bound: numbers a process's counter gives out
    MaxHeld,   \* bound: blocks a flow has at a time
    MaxWrites, \* bound: writes to a block
    MaxMerges  \* bound: splits, each with its merge

ASSUME VicAssumption == Main \notin Vic
ASSUME BareAssumption == Bare \in BOOLEAN
ASSUME BoundAssumption ==
    /\ MaxKey \in Nat /\ MaxHeld \in Nat /\ MaxWrites \in Nat /\ MaxMerges \in Nat
    /\ None \notin 0..MaxWrites

Proc == Vic \cup {Main}
Tid == Vic \X (0..MaxMerges)
Key == Tid \X (0..MaxKey)
Value == 0..MaxWrites
Table == [Key -> Value \cup {None}]

VARIABLES
    table,       \* table[p]: dynamic_memory_storage
    initialized, \* initialized[p]
    counter,     \* counter[p]: key_counter
    at,          \* at[v]: the process v's flow runs in
    age,         \* age[v]: how many threads the flow has had before this one
    lock,        \* lock[v]: who holds the flow's lock, in that process
    op,          \* op[v]: the operation on the map the flow is in
    held,        \* held[v]: the pointers the flow has
    stage,       \* the transformation
    file,        \* file[v]: what v's process has exported and Main has not imported
    written,     \* history: the last value the flow wrote to a block
    base,        \* history: a block's value in the program at the last split
    late,        \* history: blocks allocated behind the export
    cold,        \* history: an import found a map that had been cleaned up
    undefined    \* history: why the run is not followed: "no", "flows",
                 \*   "allocate", "other"

memory == <<table, initialized, counter>>
flowVars == <<at, age, op, held>>
transform == <<stage, file>>
history == <<written, base, late, cold>>
vars == <<memory, flowVars, lock, transform, history, undefined>>

Empty == [k \in Key |-> None]

TypeOK ==
    /\ table \in [Proc -> Table]
    /\ initialized \in [Proc -> BOOLEAN]
    /\ counter \in [Proc -> 0..(MaxKey + 1)]
    /\ at \in [Vic -> Proc]
    /\ age \in [Vic -> 0..MaxMerges]
    /\ lock \in [Vic -> {"free", "user", "prep"}]
    /\ op \in [Vic -> {"none", "allocate", "receive", "free"}]
    /\ held \in [Vic -> SUBSET Key]
    /\ stage \in {"threads", "split", "processes", "export", "import"}
    /\ file \in [Vic -> Table \cup {None}]
    /\ written \in [Key -> Value]
    /\ base \in Table
    /\ late \in SUBSET Key
    /\ cold \in BOOLEAN
    /\ undefined \in {"no", "flows", "allocate", "other"}
    /\ \A v \in Vic :
        /\ lock[v] = "user" <=> op[v] \in {"receive", "free"}
        /\ at[v] \in {v, Main}
        /\ file[v] # None => lock[v] = "prep"

\* vic_init has made the map; the flows are threads of Main.
Init ==
    /\ table = [p \in Proc |-> Empty]
    /\ initialized = [p \in Proc |-> TRUE]
    /\ counter = [p \in Proc |-> 0]
    /\ at = [v \in Vic |-> Main] /\ age = [v \in Vic |-> 0]
    /\ lock = [v \in Vic |-> "free"] /\ op = [v \in Vic |-> "none"]
    /\ held = [v \in Vic |-> {}]
    /\ stage = "threads" /\ file = [v \in Vic |-> None]
    /\ written = [k \in Key |-> 0] /\ base = Empty
    /\ late = {} /\ cold = FALSE /\ undefined = "no"

-----------------------------------------------------------------------------
(* The operations of a flow: those that change the map begin and end.      *)

\* Operations that insert into the map or erase from it.
Changing == {"allocate", "receive", "free"}

\* Another flow of the process is inside the map, and one of the two changes it.
Overlap(v, o) ==
    \E w \in Vic \ {v} :
        at[w] = at[v] /\ op[w] # "none" /\ {o, op[w]} \cap Changing # {}

Begin(v, o) ==
    /\ op[v] = "none"
    /\ op' = [op EXCEPT ![v] = o]
    /\ undefined' = IF Overlap(v, o) THEN "flows" ELSE undefined
    /\ UNCHANGED <<counter, at, age, held, transform, history>>

\* The first lines of _allocate and _allocate_array: a map that was cleaned up
\* is made anew.
Initialize(p) ==
    /\ initialized' = [initialized EXCEPT ![p] = TRUE]
    /\ table' = IF initialized[p] THEN table ELSE [table EXCEPT ![p] = Empty]

\* The bounds leave room for one more block of v.
Room(v) == counter[at[v]] <= MaxKey /\ Cardinality(held[v]) < MaxHeld

\* Faulty variant: allocated before the message has been waited for and the
\* lock is taken.
BeginReceiveUnlocked(v) ==
    /\ Room(v)
    /\ Begin(v, "receive")
    /\ Initialize(at[v])
    /\ UNCHANGED lock

BeginAllocate(v) ==
    /\ Bare /\ Room(v)
    /\ Begin(v, "allocate")
    /\ Initialize(at[v])
    /\ UNCHANGED lock

\* vic_ef_recv allocates inside the flow's lock (it is recursive).
BeginReceive(v) ==
    /\ lock[v] = "free" /\ Room(v)
    /\ Begin(v, "receive")
    /\ lock' = [lock EXCEPT ![v] = "user"]
    /\ Initialize(at[v])

BeginFree(v) ==
    /\ lock[v] = "free" /\ held[v] # {}
    /\ Begin(v, "free")
    /\ lock' = [lock EXCEPT ![v] = "user"]
    /\ UNCHANGED <<table, initialized>>

End(v, o) ==
    /\ op[v] = o
    /\ op' = [op EXCEPT ![v] = "none"]
    /\ lock' = [lock EXCEPT ![v] = IF @ = "user" THEN "free" ELSE @]
    /\ UNCHANGED <<at, age, transform, cold, undefined>>

NewKey(v) == <<<<v, age[v]>>, counter[at[v]]>>

\* The key of a new block: thread id and counter; the block is inserted.
Insert(v) ==
    /\ \E o \in {"allocate", "receive"} : End(v, o)
    /\ table' = [table EXCEPT ![at[v]][NewKey(v)] = 0]
    /\ counter' = [counter EXCEPT ![at[v]] = @ + 1]
    /\ held' = [held EXCEPT ![v] = @ \cup {NewKey(v)}]
    /\ written' = [written EXCEPT ![NewKey(v)] = 0]
    /\ late' = IF file[v] # None /\ op[v] = "allocate" THEN late \cup {NewKey(v)} ELSE late
    /\ UNCHANGED <<initialized, base>>

\* Faulty variant: the value is written to the map of Main.
WriteMain(v, k) ==
    /\ op[v] = "none" /\ lock[v] = "free"
    /\ k \in held[v] /\ written[k] < MaxWrites
    /\ written' = [written EXCEPT ![k] = @ + 1]
    /\ table' = [table EXCEPT ![Main][k] = IF @ = None THEN None ELSE written[k] + 1]
    /\ undefined' = IF Overlap(v, "write") THEN "flows" ELSE undefined
    /\ UNCHANGED <<initialized, counter, flowVars, lock, transform, base, late, cold>>

\* One step, with the lock; a write through a pointer the map does not know has
\* no effect.
Write(v, k) ==
    /\ op[v] = "none" /\ lock[v] = "free"
    /\ k \in held[v] /\ written[k] < MaxWrites
    /\ written' = [written EXCEPT ![k] = @ + 1]
    /\ table' = [table EXCEPT ![at[v]][k] = IF @ = None THEN None ELSE written[k] + 1]
    /\ undefined' = IF Overlap(v, "write") THEN "flows" ELSE undefined
    /\ UNCHANGED <<initialized, counter, flowVars, lock, transform, base, late, cold>>

\* The map is cleaned up when its last block is erased.
Free(v, k) ==
    /\ k \in held[v]
    /\ End(v, "free")
    /\ table' = [table EXCEPT ![at[v]][k] = None]
    /\ initialized' = [initialized EXCEPT ![at[v]] = @ /\ table'[at[v]] # Empty]
    /\ held' = [held EXCEPT ![v] = @ \ {k}]
    /\ written' = [written EXCEPT ![k] = 0] /\ base' = [base EXCEPT ![k] = None]
    /\ late' = late \ {k}
    /\ UNCHANGED counter

-----------------------------------------------------------------------------
(* The transformations.                                                    *)

\* What a step of a transformation makes of operations that are in progress in
\* the maps of P: a bare allocation is not kept out by any lock.
Disturbed(P) ==
    LET ops == {op[v] : v \in {w \in Vic : at[w] \in P}} \ {"none"} IN
    undefined' = CASE ops = {} -> undefined
                   [] ops = {"allocate"} -> "allocate"
                   [] OTHER -> "other"

\* The tool is run.
Prepare ==
    /\ \A v \in Vic : lock[v] # "prep" /\ age[v] < MaxMerges
    /\ \/ stage = "threads" /\ stage' = "split"
       \/ stage = "processes" /\ stage' = "export"
    /\ UNCHANGED <<memory, flowVars, lock, file, history, undefined>>

\* Faulty variant: pthread_mutex_trylock with its result ignored.
LockFlowTry(v) ==
    /\ stage \in {"split", "export"} /\ lock[v] # "prep" /\ file[v] = None
    /\ lock' = [lock EXCEPT ![v] = "prep"]
    /\ UNCHANGED <<memory, flowVars, transform, history, undefined>>

LockFlow(v) ==
    /\ stage \in {"split", "export"} /\ lock[v] = "free"
    /\ lock' = [lock EXCEPT ![v] = "prep"]
    /\ UNCHANGED <<memory, flowVars, transform, history, undefined>>

\* Every process gets a copy of Main's memory.
Split ==
    /\ stage = "split" /\ \A v \in Vic : lock[v] = "prep"
    /\ stage' = "processes"
    /\ table' = [p \in Proc |-> table[Main]]
    /\ initialized' = [p \in Proc |-> initialized[Main]]
    /\ counter' = [p \in Proc |-> counter[Main]]
    /\ at' = [v \in Vic |-> v]
    /\ base' = [k \in Key |-> IF \E v \in Vic : k \in held[v] THEN table[Main][k] ELSE None]
    /\ Disturbed({Main})
    /\ UNCHANGED <<age, op, held, lock, file, written, late, cold>>

\* The flow's process, or Main after the imports, gives its lock back.
UnlockFlow(v) ==
    /\ stage \in {"threads", "processes"} /\ lock[v] = "prep"
    /\ lock' = [lock EXCEPT ![v] = "free"]
    /\ UNCHANGED <<memory, flowVars, transform, history, undefined>>

\* Faulty variant: exported before the flow is locked.
ExportUnlocked(v) ==
    /\ stage = "export" /\ file[v] = None
    /\ file' = [file EXCEPT ![v] = table[v]]
    /\ Disturbed({v})
    /\ UNCHANGED <<memory, flowVars, lock, stage, history>>

\* export_dynamic_data, behind the flow's lock.
Export(v) ==
    /\ stage = "export" /\ lock[v] = "prep" /\ file[v] = None
    /\ file' = [file EXCEPT ![v] = table[v]]
    /\ Disturbed({v})
    /\ UNCHANGED <<memory, flowVars, lock, stage, history>>

\* Faulty variant: the threads made for the children get the ids of those the
\* flows had before the split.
MergeSameTid ==
    /\ stage = "export" /\ \A v \in Vic : file[v] # None /\ lock[v] = "prep"
    /\ stage' = "import"
    /\ at' = [v \in Vic |-> Main]
    /\ Disturbed(Vic)
    /\ UNCHANGED <<age, memory, op, held, lock, file, history>>

\* Only Main's memory is left; every flow goes on in a new thread of Main, with
\* Main's copy of its lock held by the preparation.
Merge ==
    /\ stage = "export" /\ \A v \in Vic : file[v] # None /\ lock[v] = "prep"
    /\ stage' = "import"
    /\ at' = [v \in Vic |-> Main]
    /\ age' = [v \in Vic |-> age[v] + 1]
    /\ Disturbed(Vic)
    /\ UNCHANGED <<memory, op, held, lock, file, history>>

\* import_dynamic_data: what the file has replaces what Main has; the flag is
\* not looked at.
Import(v) ==
    /\ stage = "import" /\ file[v] # None
    /\ file' = [file EXCEPT ![v] = None]
    /\ table' = [table EXCEPT ![Main] =
                    [k \in Key |-> IF file[v][k] = None THEN @[k] ELSE file[v][k]]]
    /\ cold' = (cold \/ ~initialized[Main])
    /\ Disturbed({Main})
    /\ UNCHANGED <<initialized, counter, flowVars, lock, stage, written, base, late>>

Imported ==
    /\ stage = "import" /\ \A v \in Vic : file[v] = None
    /\ stage' = "threads"
    /\ UNCHANGED <<memory, flowVars, lock, file, history, undefined>>

-----------------------------------------------------------------------------
FlowNext(v) ==
    \/ BeginAllocate(v) \/ BeginReceive(v) \/ BeginFree(v)
    \/ Insert(v) \/ \E k \in Key : Write(v, k) \/ Free(v, k)

TransformNext ==
    \/ Prepare \/ Split \/ Merge \/ Imported
    \/ \E v \in Vic : LockFlow(v) \/ UnlockFlow(v) \/ Export(v) \/ Import(v)

Next ==
    /\ undefined = "no"
    /\ TransformNext \/ \E v \in Vic : FlowNext(v)

Spec == Init /\ [][Next]_vars

-----------------------------------------------------------------------------
(* Properties.                                                             *)

\* The flow can use its blocks: nothing undefined has happened, and the
\* preparation does not keep it out.
Usable(v) == undefined = "no" /\ ~cold /\ lock[v] # "prep"

\* Every pointer on a flow's stack is known to the map of the process the flow
\* is in, before and after any number of transformations: reading through an
\* unknown one is a null dereference.  Not so for a block allocated behind the
\* export, and not after an import into a map that had been cleaned up, which
\* the next allocation empties.
PointersValid ==
    \A v \in Vic : Usable(v) => \A k \in held[v] \ late : table[at[v]][k] # None

\* A block that did not exist at the split has the value its flow last wrote,
\* though that flow has changed process and other flows' maps were imported
\* after its own; one that did is never older than it was at the split.
NoUpdateLost ==
    \A v \in Vic : Usable(v) =>
        \A k \in held[v] \ late :
            IF base[k] = None THEN table[at[v]][k] = written[k]
            ELSE table[at[v]][k] >= base[k]

\* A new block never takes the place of one that is in use, though every
\* process goes on from the same counter and a merge keeps only Main's.
NoBlockReused ==
    [][\A v \in Vic, k \in Key : k \in held[v] \cap held'[v] => written'[k] >= written[k]]_vars

\* No transformation copies, exports, moves or imports a map in the middle of an
\* operation on it, if routines allocate in receives only.
OnlyBareAllocationDisturbed == undefined # "other"

Migrating == INSTANCE Migration WITH
    Flow <- Vic, Home <- Main, void <- undefined \in {"flows", "allocate"},
    phase <- [v \in Vic |-> IF op[v] = "none" THEN "out" ELSE "in"]

\* The data follow the flow as Migration says: no flow is moved in the middle of
\* an operation, unless two flows have met in a map or one allocates bare.
Migrates == Migrating!Spec

=============================================================================
