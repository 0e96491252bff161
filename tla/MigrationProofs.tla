--------------------------- MODULE MigrationProofs ---------------------------
(***************************************************************************)
(* What Migration implies for a program, and with it for every program     *)
(* that implements it.                                                     *)
(***************************************************************************)
EXTENDS Migration, TLAPS

Inv == ~void => TypeOK /\ (Threads \/ Processes)

\* A program that is moved has one shape at any time: the flows that run are
\* all threads of one process, or each has a process; splitting or merging some
\* of them only is not a step.
THEOREM Shape == Spec => []OneShape
  <1>1. Init => Inv
    BY DEF Init, Inv
  <1>2. Inv /\ [Next]_vars => Inv'
    <2> SUFFICES ASSUME Inv, [Next]_vars, ~void' PROVE Inv'
      BY DEF Inv
    <2>1. CASE UNCHANGED vars
      BY <2>1 DEF vars, Inv, TypeOK, Threads, Processes
    <2>2. ASSUME NEW f \in Flow, NEW a \in Phase \ {"over"}, NEW b \in Phase, Step(f, a, b)
          PROVE  Inv'
      <3>1. TypeOK /\ (Threads \/ Processes) /\ at' = at
        BY <2>2 DEF Inv, Step
      <3>2. phase' \in [Flow -> Phase] /\ \A g \in Flow : phase'[g] # "over" => phase[g] # "over"
        BY <2>2, <3>1 DEF Step, TypeOK
      <3> QED BY <2>2, <3>1, <3>2 DEF Inv, TypeOK, Threads, Processes, Step
    <2>3. CASE \E f \in Flow : Start(f) \/ Enter(f) \/ Leave(f) \/ Return(f)
      BY <2>2, <2>3 DEF Start, Enter, Leave, Return, Phase
    <2>4. CASE Split \/ Merge
      BY <2>4 DEF Split, Merge, Inv, TypeOK
    <2>5. CASE Fail
      BY <2>5 DEF Fail, Inv, TypeOK, Phase, Threads
    <2>6. CASE Break
      BY <2>6 DEF Break
    <2> QED BY <2>1, <2>3, <2>4, <2>5, <2>6 DEF Next
  <1>3. Inv => OneShape
    BY DEF Inv, OneShape
  <1> QED BY <1>1, <1>2, <1>3, PTL DEF Spec
=============================================================================
