------------------------------ MODULE Migration ------------------------------
(***************************************************************************)
(* What vic-lib promises of an execution flow, whatever shape the program  *)
(* is in.  A flow's routine starts once, goes in and out of operations on  *)
(* its sockets and data, ends once, and never notices that the program was *)
(* moved: a split or a merge finds every flow between two operations and   *)
(* takes all of those that still run along.                                *)
(*                                                                         *)
(* VicSplit, VicMerge and DynamicMemory implement this specification.      *)
(***************************************************************************)
CONSTANTS
    Flow, \* the execution flows; each names the process made for it
    Home  \* the program's first process

Place == Flow \cup {Home}

VARIABLES
    at,    \* at[f]: the process f's flow runs in
    phase, \* phase[f]: before, outside or inside an operation, or at the end
    void   \* nothing is promised any more

vars == <<at, phase, void>>

Phase == {"new", "out", "in", "over"}

TypeOK == at \in [Flow -> Place] /\ phase \in [Flow -> Phase] /\ void \in BOOLEAN

\* Flows that have not ended are threads of one process, or processes.
Threads == \A f \in Flow : phase[f] # "over" => at[f] = Home
Processes == \A f \in Flow : phase[f] # "over" => at[f] = f

Init ==
    /\ TypeOK /\ ~void
    /\ \A f \in Flow : phase[f] \in {"new", "out"}
    /\ Threads \/ Processes

Step(f, a, b) ==
    /\ phase[f] = a
    /\ phase' = [phase EXCEPT ![f] = b]
    /\ UNCHANGED <<at, void>>

Start(f) == Step(f, "new", "out")
Enter(f) == Step(f, "out", "in")
Leave(f) == Step(f, "in", "out")
Return(f) == Step(f, "out", "over")

Quiet == \A f \in Flow : phase[f] # "in"

Split ==
    /\ Threads /\ Processes'
    /\ Quiet
    /\ at' \in [Flow -> Place]
    /\ UNCHANGED <<phase, void>>

Merge ==
    /\ Processes /\ Threads'
    /\ Quiet
    /\ at' \in [Flow -> Place]
    /\ UNCHANGED <<phase, void>>

\* A transformation that fails ends the program: it does not go on with some of
\* its flows.
Fail ==
    /\ phase' = [f \in Flow |-> "over"]
    /\ Quiet
    /\ UNCHANGED <<at, void>>

\* The program did what the library does not support: anything may follow.
Break == void' = TRUE

Next ==
    \/ Break
    \/ \E f \in Flow : Start(f) \/ Enter(f) \/ Leave(f) \/ Return(f)
    \/ Split \/ Merge \/ Fail

Spec == Init /\ [][Next]_vars

-----------------------------------------------------------------------------
\* The program has one shape: flows that run are all threads or all processes.
OneShape == ~void => Threads \/ Processes
=============================================================================
