------------------------- MODULE PauseThreadProofs -------------------------
(***************************************************************************)
(* Proofs about PauseThread for any set of threads, whichever of them may  *)
(* exit, and whether or not they nest calls or guard their use of libc.    *)
(***************************************************************************)
EXTENDS PauseThread, TLAPS

\* A signal on its way to a thread is the last one sent to it.
InFlightIsLast ==
    \A u \in Thread :
        /\ \A s \in Signal : pending[u][s] > 0 => last[u] = s
        /\ handler[u] = "stopping" => last[u] = "STOP"
        /\ handler[u] = "continuing" => last[u] = "CONT"

\* The inductive invariant: the named properties need each other, and
\* LastRequestWins needs to know which signal is on its way.
IInv ==
    /\ TypeOK
    /\ OneToken
    /\ HolderNotSuspended
    /\ DisabledNotInterrupted
    /\ InFlightIsLast
    /\ LastRequestWins

\* pthread_pause_init and the creation of the threads establish it.
LEMMA InitIInv == Init => IInv
BY ThreadAssumption
   DEF Init, IInv, TypeOK, OneToken, HolderNotSuspended, DisabledNotInterrupted,
       InFlightIsLast, LastRequestWins, Carries, InFlight, Place, Signal, Call, NoCall,
       ProgramState, HandlerState

\* What a pthread_kill does, with the target and the signal named.
KillEffect(t, u, s) ==
    /\ handler[t] = "none" /\ pc[t] = "kill"
    /\ pc' = [pc EXCEPT ![t] = "confirm"]
    /\ call' = [call EXCEPT ![t] = NoCall]
    /\ asked' = [from |-> t, to |-> u, signal |-> s]
    /\ UNCHANGED <<sem, masked, handler>>
    /\ \/ pc[u] = "exited" /\ UNCHANGED <<pending, last>>
       \/ /\ pc[u] # "exited"
          /\ pending' = [pending EXCEPT ![u] = [@ EXCEPT ![s] = pending[u][s] + 1]]
          /\ last' = [last EXCEPT ![u] = s]

\* The call of a thread about to send a signal names a thread and a signal.
LEMMA KillSends ==
    ASSUME TypeOK, NEW t \in Thread, Kill(t)
    PROVE  \E u \in Thread, s \in Signal : KillEffect(t, u, s)
<1>1. pc[t] = "kill" /\ call[t] \in [to : Thread, signal : Signal]
    BY DEF TypeOK, Kill, Goto
<1>2. call[t].to \in Thread /\ call[t].signal \in Signal
    BY <1>1
<1>3. KillEffect(t, call[t].to, call[t].signal)
    BY DEF Kill, KillEffect, Goto
<1> QED BY <1>2, <1>3

\* Sending a signal keeps the variables well typed.
LEMMA KillType == ASSUME TypeOK, NEW t \in Thread, Kill(t) PROVE TypeOK'
<1>1. PICK u \in Thread, s \in Signal : KillEffect(t, u, s)
    BY KillSends
<1>2. pending' \in [Thread -> [Signal -> Nat]]
  <2>1. pending[u] \in [Signal -> Nat] /\ pending[u][s] + 1 \in Nat
    BY DEF TypeOK
  <2>2. [pending[u] EXCEPT ![s] = pending[u][s] + 1] \in [Signal -> Nat]
    BY <2>1
  <2> QED BY <1>1, <2>2 DEF KillEffect, TypeOK
<1>3. last' \in [Thread -> Signal \cup {None}]
    BY <1>1 DEF KillEffect, TypeOK
<1>4. /\ sem' \in Nat
      /\ masked' \in [Thread -> BOOLEAN]
      /\ handler' \in [Thread -> HandlerState]
      /\ asked' \in Sent
    BY <1>1 DEF KillEffect, TypeOK, Sent
<1>5. /\ pc' \in [Thread -> ProgramState]
      /\ call' \in [Thread -> Call]
    BY <1>1 DEF KillEffect, TypeOK, ProgramState, Call, NoCall
<1>6. \A x \in Thread : pc'[x] \in {"request", "kill"} =>
                            call'[x] \in [to : Thread, signal : Signal]
    BY <1>1 DEF KillEffect, TypeOK
<1> QED BY <1>2, <1>3, <1>4, <1>5, <1>6 DEF TypeOK

\* Every step keeps the variables well typed.
LEMMA TypeStep == TypeOK /\ OneToken /\ [Next]_vars => TypeOK'
<1> SUFFICES ASSUME TypeOK, OneToken, [Next]_vars PROVE TypeOK'
    OBVIOUS
<1> USE DEF TypeOK, Signal, Call, NoCall, ProgramState, HandlerState, Goto, HandlerGoto,
            SemWait, SemPost
<1>1. CASE UNCHANGED vars
    BY <1>1 DEF vars
<1>2. ASSUME NEW t \in Thread, NEW u \in Thread, NEW s \in Signal, Request(t, u, s)
      PROVE  TypeOK'
    BY <1>2 DEF Request
<1>3. ASSUME NEW t \in Thread, TakeToken(t) PROVE TypeOK'
    BY <1>3 DEF TakeToken
<1>4. ASSUME NEW t \in Thread, Kill(t) PROVE TypeOK'
  BY <1>4, KillType
<1>5. ASSUME NEW t \in Thread, Confirm(t) PROVE TypeOK'
    BY <1>5 DEF Confirm
<1>12. ASSUME NEW t \in Thread, Drain(t) PROVE TypeOK'
    BY <1>12 DEF Drain
<1>6. ASSUME NEW t \in Thread, Release(t) PROVE TypeOK'
    BY <1>6 DEF Release
<1>13. ASSUME NEW t \in Thread, HandBack(t) PROVE TypeOK'
    BY <1>13 DEF HandBack
<1>7. ASSUME NEW t \in Thread, BeginDisable(t) \/ Block(t) \/ Enable(t) PROVE TypeOK'
  <2>1. CASE BeginDisable(t)
    BY <2>1 DEF BeginDisable
  <2>2. CASE Block(t)
    BY <2>2 DEF Block
  <2>3. CASE Enable(t)
    BY <2>3 DEF Enable
  <2> QED BY <1>7, <2>1, <2>2, <2>3
<1>8. ASSUME NEW t \in Thread, HeapEnter(t) \/ HeapLeave(t) PROVE TypeOK'
  <2>1. CASE HeapEnter(t)
    BY <2>1 DEF HeapEnter
  <2>2. CASE HeapLeave(t)
    BY <2>2 DEF HeapLeave
  <2> QED BY <1>8, <2>1, <2>2
<1>11. ASSUME NEW t \in Thread, Exit(t) PROVE TypeOK'
  <2>1. pending' \in [Thread -> [Signal -> Nat]]
    BY <1>11 DEF Exit
  <2> QED BY <1>11, <2>1 DEF Exit
<1>9. ASSUME NEW t \in Thread, Deliver(t) PROVE TypeOK'
  <2>1. PICK s \in Signal :
            /\ pending[t][s] > 0
            /\ pending' = [pending EXCEPT ![t][s] = @ - 1]
            /\ handler' = [handler EXCEPT ![t] =
                              IF s = "STOP" THEN "stopping" ELSE "continuing"]
    BY <1>9 DEF Deliver
  <2>2. pending[t][s] \in Nat /\ pending[t][s] - 1 \in Nat
    BY <2>1
  <2> QED BY <1>9, <2>1, <2>2 DEF Deliver
<1>10. ASSUME NEW t \in Thread,
              ConfirmStop(t) \/ ConfirmCont(t) \/ Suspend(t) \/ Resume(t)
       PROVE  TypeOK'
  <2>1. CASE ConfirmStop(t)
    BY <2>1 DEF ConfirmStop
  <2>2. CASE ConfirmCont(t)
    BY <2>2 DEF ConfirmCont
  <2>3. CASE Suspend(t)
    BY <2>3 DEF Suspend
  <2>4. CASE Resume(t)
    BY <2>4 DEF Resume
  <2> QED BY <1>10, <2>1, <2>2, <2>3, <2>4
<1> QED BY <1>1, <1>2, <1>3, <1>4, <1>5, <1>6, <1>7, <1>8, <1>9, <1>10, <1>11,
           <1>12, <1>13 DEF Next

\* A step that creates no carrier and leaves the semaphore alone.
LEMMA KeepToken ==
    ASSUME OneToken, sem' = sem,
           \A t \in Thread, w \in Place : Carries(t, w)' => Carries(t, w),
           \A t \in Thread, s \in Signal : pending'[t][s] \in {0, 1}
    PROVE  OneToken'
BY DEF OneToken

\* The token goes into the semaphore: its carrier was the only one.
LEMMA ReturnToken ==
    ASSUME OneToken, NEW t \in Thread, NEW w \in Place, Carries(t, w),
           sem' = sem + 1, pending' = pending,
           \A u \in Thread, x \in Place : Carries(u, x)' => Carries(u, x) /\ (u # t \/ x # w)
    PROVE  OneToken'
<1>1. sem = 0 /\ \A u \in Thread, x \in Place : Carries(u, x) => u = t /\ x = w
    BY DEF OneToken
<1>2. \A u \in Thread, x \in Place : ~Carries(u, x)'
    BY <1>1
<1> QED BY <1>1, <1>2 DEF OneToken

\* The token passes to one carrier that now holds it alone.
LEMMA PassToken ==
    ASSUME NEW t \in Thread, NEW w \in Place, sem' = 0,
           \A u \in Thread, x \in Place : Carries(u, x)' => u = t /\ x = w,
           \A u \in Thread, s \in Signal : pending'[u][s] \in {0, 1}
    PROVE  OneToken'
BY DEF OneToken

\* While t carries the token at w, nothing else carries it.
LEMMA OnlyCarrier ==
    ASSUME OneToken, NEW t \in Thread, NEW w \in Place, Carries(t, w)
    PROVE  /\ sem = 0
           /\ \A u \in Thread, x \in Place : Carries(u, x) => u = t /\ x = w
BY DEF OneToken

\* The token moves along every step and is never doubled.
LEMMA OneTokenStep == TypeOK /\ OneToken /\ [Next]_vars => OneToken'
<1> SUFFICES ASSUME TypeOK, OneToken, [Next]_vars PROVE OneToken'
    OBVIOUS
<1>0. \A u \in Thread, x \in Signal : pending[u][x] \in {0, 1}
    BY DEF OneToken
<1>1. CASE UNCHANGED vars
    BY <1>0, <1>1, KeepToken DEF vars, Carries
<1>2. ASSUME NEW t \in Thread, NEW u \in Thread, NEW s \in Signal,
             \/ Request(t, u, s) \/ BeginDisable(t) \/ Enable(t)
             \/ HeapEnter(t) \/ HeapLeave(t) \/ Block(t)
      PROVE  OneToken'
  <2>1. \A v \in Thread, x \in Place : Carries(v, x)' => Carries(v, x)
    BY <1>2 DEF Request, BeginDisable, Enable, HeapEnter, HeapLeave, Block, Goto,
                Carries, TypeOK
  <2>2. sem' = sem /\ pending' = pending
    BY <1>2 DEF Request, BeginDisable, Enable, HeapEnter, HeapLeave, Block
  <2> QED BY <1>0, <2>1, <2>2, KeepToken
<1>3. ASSUME NEW t \in Thread, TakeToken(t) \/ Confirm(t) \/ Drain(t)
      PROVE  OneToken'
  <2>1. sem = 1 /\ sem' = 0 /\ pending' = pending
    BY <1>3 DEF OneToken, TakeToken, Confirm, Drain, SemWait
  <2>2. \A u \in Thread, w \in Place : ~Carries(u, w)
    BY <2>1 DEF OneToken
  <2>3. \A u \in Thread, w \in Place : Carries(u, w)' => u = t /\ w = "program"
    BY <1>3, <2>2 DEF TakeToken, Confirm, Drain, Goto, TypeOK, Carries
  <2> QED BY <1>0, <2>1, <2>3, PassToken DEF Place
<1>4. ASSUME NEW t \in Thread, Release(t) \/ HandBack(t) PROVE OneToken'
  <2>1. Carries(t, "program") /\ sem' = sem + 1 /\ pending' = pending
    BY <1>4 DEF Release, HandBack, Goto, SemPost, Carries
  <2>2. \A u \in Thread, x \in Place :
           Carries(u, x)' => Carries(u, x) /\ (u # t \/ x # "program")
    BY <1>4 DEF Release, HandBack, Goto, TypeOK, Carries, Place, Signal
  <2> QED BY <2>1, <2>2, ReturnToken DEF Place
<1>5. ASSUME NEW t \in Thread, ConfirmStop(t) \/ ConfirmCont(t) PROVE OneToken'
  <2>1. Carries(t, "handler") /\ sem' = sem + 1 /\ pending' = pending
    BY <1>5 DEF ConfirmStop, ConfirmCont, HandlerGoto, SemPost, Carries
  <2>2. \A u \in Thread, x \in Place :
           Carries(u, x)' => Carries(u, x) /\ (u # t \/ x # "handler")
    BY <1>5 DEF ConfirmStop, ConfirmCont, HandlerGoto, TypeOK, Carries, Place, Signal
  <2> QED BY <2>1, <2>2, ReturnToken DEF Place
<1>6. ASSUME NEW t \in Thread, Suspend(t) \/ Resume(t) PROVE OneToken'
  <2>1. \A v \in Thread, x \in Place : Carries(v, x)' => Carries(v, x)
    BY <1>6 DEF Suspend, Resume, HandlerGoto, Carries, TypeOK
  <2>2. sem' = sem /\ pending' = pending
    BY <1>6 DEF Suspend, Resume
  <2> QED BY <1>0, <2>1, <2>2, KeepToken
<1>7. ASSUME NEW t \in Thread, Exit(t) PROVE OneToken'
  <2>1. \A v \in Thread, x \in Signal : pending'[v][x] \in {0, pending[v][x]}
    BY <1>7 DEF Exit, TypeOK
  <2>2. \A v \in Thread, x \in Place : Carries(v, x)' => Carries(v, x)
    BY <1>7, <2>1 DEF Exit, Goto, Carries, TypeOK
  <2>3. sem' = sem
    BY <1>7 DEF Exit
  <2> QED BY <1>0, <2>1, <2>2, <2>3, KeepToken
<1>8. ASSUME NEW t \in Thread, Kill(t) PROVE OneToken'
  <2>1. PICK u \in Thread, s \in Signal : KillEffect(t, u, s)
    BY <1>8, KillSends
  <2>2. Carries(t, "program")
    BY <2>1 DEF KillEffect, Carries
  <2>3. /\ sem = 0
        /\ \A v \in Thread, w \in Place : Carries(v, w) => v = t /\ w = "program"
    BY <2>2, OnlyCarrier DEF Place
  <2>4. \A v \in Thread, x \in Signal : pending[v][x] = 0
    BY <1>0, <2>3 DEF Carries, Signal, Place
  <2>5. \A v \in Thread, x \in Signal :
           pending'[v][x] = 0 \/ (v = u /\ x = s /\ pending'[v][x] = 1)
    <3>1. CASE pending' = pending
      BY <2>4, <3>1
    <3>2. CASE pending' = [pending EXCEPT ![u] = [@ EXCEPT ![s] = pending[u][s] + 1]]
      BY <2>4, <3>2 DEF TypeOK
    <3> QED BY <2>1, <3>1, <3>2 DEF KillEffect
  <2>6. pc' = [pc EXCEPT ![t] = "confirm"] /\ handler' = handler /\ sem' = 0
    BY <2>1, <2>3 DEF KillEffect
  <2>7. \A v \in Thread, w \in Place : Carries(v, w)' => v = u /\ w = s
    BY <2>3, <2>5, <2>6 DEF TypeOK, Carries
  <2>8. s \in Place /\ \A v \in Thread, x \in Signal : pending'[v][x] \in {0, 1}
    BY <2>5 DEF Place
  <2> QED BY <2>6, <2>7, <2>8, PassToken
<1>9. ASSUME NEW t \in Thread, Deliver(t) PROVE OneToken'
  <2>1. PICK s \in Signal :
            /\ pending[t][s] > 0
            /\ pending' = [pending EXCEPT ![t][s] = @ - 1]
            /\ handler' = [handler EXCEPT ![t] =
                              IF s = "STOP" THEN "stopping" ELSE "continuing"]
    BY <1>9 DEF Deliver
  <2>2. s \in Place /\ Carries(t, s)
    BY <2>1 DEF Place, Carries
  <2>3. sem = 0 /\ \A v \in Thread, w \in Place : Carries(v, w) => v = t /\ w = s
    BY <2>2, OnlyCarrier
  <2>4. \A v \in Thread, x \in Signal : pending'[v][x] = 0
    BY <1>0, <2>1, <2>3 DEF TypeOK, Carries, Place, Signal
  <2>5. pc' = pc /\ sem' = 0
    BY <1>9, <2>3 DEF Deliver
  <2>6. \A v \in Thread, w \in Place : Carries(v, w)' => v = t /\ w = "handler"
    BY <2>1, <2>3, <2>4, <2>5 DEF TypeOK, Carries, Signal, Place
  <2> QED BY <2>4, <2>5, <2>6, PassToken DEF Place
<1> QED
    BY <1>1, <1>2, <1>3, <1>4, <1>5, <1>6, <1>7, <1>8, <1>9 DEF Next, Signal

\* Only a thread that runs its program takes the semaphore or blocks the
\* signals, and a signal cannot reach the thread that holds the semaphore.
LEMMA HolderStep ==
    IInv /\ [Next]_vars => HolderNotSuspended' /\ DisabledNotInterrupted'
<1> SUFFICES ASSUME IInv, [Next]_vars
             PROVE  HolderNotSuspended' /\ DisabledNotInterrupted'
    OBVIOUS
<1>0. /\ TypeOK /\ OneToken
      /\ \A t \in Thread : Carries(t, "program") => handler[t] = "none"
      /\ \A t \in Thread : masked[t] => handler[t] = "none"
    BY DEF IInv, HolderNotSuspended, DisabledNotInterrupted
<1> USE DEF HolderNotSuspended, DisabledNotInterrupted, Carries, Goto, HandlerGoto
<1>1. CASE UNCHANGED vars
    BY <1>0, <1>1 DEF vars
<1>2. ASSUME NEW t \in Thread, NEW u \in Thread, NEW s \in Signal,
             \/ Request(t, u, s) \/ BeginDisable(t) \/ HeapEnter(t)
             \/ HeapLeave(t) \/ Exit(t) \/ Release(t) \/ HandBack(t)
      PROVE  HolderNotSuspended' /\ DisabledNotInterrupted'
    BY <1>0, <1>2 DEF TypeOK, Request, BeginDisable, HeapEnter, HeapLeave, Exit,
                      Release, HandBack, Signal
<1>3. ASSUME NEW t \in Thread, TakeToken(t) \/ Confirm(t) \/ Drain(t)
      PROVE  HolderNotSuspended' /\ DisabledNotInterrupted'
    BY <1>0, <1>3 DEF TypeOK, TakeToken, Confirm, Drain, Signal
<1>4. ASSUME NEW t \in Thread, Block(t) \/ Enable(t)
      PROVE  HolderNotSuspended' /\ DisabledNotInterrupted'
    BY <1>0, <1>4 DEF TypeOK, Block, Enable, Signal
<1>5. ASSUME NEW t \in Thread, Kill(t)
      PROVE  HolderNotSuspended' /\ DisabledNotInterrupted'
  <2>1. pc' = [pc EXCEPT ![t] = "confirm"] /\ handler' = handler /\ masked' = masked
    BY <1>5 DEF Kill
  <2> QED BY <1>0, <2>1 DEF TypeOK, Signal
<1>6. ASSUME NEW t \in Thread, Deliver(t)
      PROVE  HolderNotSuspended' /\ DisabledNotInterrupted'
  <2>1. PICK s \in Signal : pending[t][s] > 0
    BY <1>6 DEF Deliver
  <2>2. ~Carries(t, "program")
    BY <1>0, <2>1, OnlyCarrier DEF Place, Signal
  <2>3. ~masked[t]
    BY <1>0, <1>6 DEF Deliver
  <2>4. /\ pc' = pc /\ masked' = masked
        /\ \A v \in Thread : v # t => handler'[v] = handler[v]
    BY <1>0, <1>6 DEF Deliver, TypeOK
  <2> QED BY <1>0, <2>2, <2>3, <2>4 DEF Signal
<1>7. ASSUME NEW t \in Thread,
             ConfirmStop(t) \/ ConfirmCont(t) \/ Suspend(t) \/ Resume(t)
      PROVE  HolderNotSuspended' /\ DisabledNotInterrupted'
    BY <1>0, <1>7 DEF TypeOK, ConfirmStop, ConfirmCont, Suspend, Resume, Signal
<1> QED BY <1>1, <1>2, <1>3, <1>4, <1>5, <1>6, <1>7 DEF Next, Signal

\* The thread a signal is sent to has no other signal on its way, so what it
\* does next is what was asked last.
LEMMA LastStep == IInv /\ [Next]_vars => InFlightIsLast' /\ LastRequestWins'
<1> SUFFICES ASSUME IInv, [Next]_vars PROVE InFlightIsLast' /\ LastRequestWins'
    OBVIOUS
<1>0. TypeOK /\ OneToken /\ InFlightIsLast /\ LastRequestWins /\ DisabledNotInterrupted
    BY DEF IInv
<1> USE DEF InFlightIsLast, LastRequestWins, InFlight, Carries, Goto, HandlerGoto
<1>1. CASE UNCHANGED vars
    BY <1>0, <1>1 DEF vars
<1>2. ASSUME NEW t \in Thread, NEW u \in Thread, NEW s \in Signal,
             \/ Request(t, u, s) \/ BeginDisable(t) \/ Enable(t)
             \/ HeapEnter(t) \/ HeapLeave(t) \/ Block(t)
             \/ TakeToken(t) \/ Confirm(t) \/ Drain(t) \/ Release(t) \/ HandBack(t)
      PROVE  InFlightIsLast' /\ LastRequestWins'
  <2>1. /\ handler' = handler /\ pending' = pending /\ last' = last
        /\ \A v \in Thread : pc'[v] # "exited" => pc[v] # "exited"
    BY <1>0, <1>2 DEF TypeOK, Request, BeginDisable, Enable, HeapEnter, HeapLeave,
                      Block, TakeToken, Confirm, Drain, Release, HandBack
  <2> QED BY <1>0, <2>1
<1>3. ASSUME NEW t \in Thread, Exit(t)
      PROVE  InFlightIsLast' /\ LastRequestWins'
  <2>1. /\ handler' = handler /\ last' = last
        /\ \A v \in Thread : v # t => pending'[v] = pending[v] /\ pc'[v] = pc[v]
        /\ \A x \in Signal : pending'[t][x] = 0
        /\ pc'[t] = "exited"
    BY <1>0, <1>3 DEF Exit, TypeOK
  <2> QED BY <1>0, <2>1
<1>4. ASSUME NEW t \in Thread, Kill(t)
      PROVE  InFlightIsLast' /\ LastRequestWins'
  <2>1. PICK u \in Thread, s \in Signal : KillEffect(t, u, s)
    BY <1>0, <1>4, KillSends
  <2>2. \A v \in Thread, x \in Signal :
           /\ ~(pending[v][x] > 0)
           /\ handler[v] \notin {"stopping", "continuing"}
    <3>1. Carries(t, "program")
      BY <2>1 DEF KillEffect
    <3>2. \A v \in Thread, w \in Place : w # "program" => ~Carries(v, w)
      BY <1>0, <3>1, OnlyCarrier DEF Place
    <3> QED BY <3>2 DEF Place, Signal
  <2>3. handler' = handler /\ \A v \in Thread : pc'[v] # "exited" => pc[v] # "exited"
    BY <1>0, <2>1 DEF KillEffect, TypeOK
  <2>4. CASE pending' = pending /\ last' = last
    BY <1>0, <2>3, <2>4
  <2>5. CASE /\ pending' = [pending EXCEPT ![u] = [@ EXCEPT ![s] = pending[u][s] + 1]]
             /\ last' = [last EXCEPT ![u] = s]
    <3>1. pending[u][s] \in Nat /\ pending'[u][s] = pending[u][s] + 1
      BY <1>0, <2>5 DEF TypeOK
    <3>2. pending'[u][s] > 0 /\ last'[u] = s
      BY <1>0, <3>1, <2>5 DEF TypeOK
    <3>3. \A x \in Signal : x # s => ~(pending'[u][x] > 0)
      BY <1>0, <2>2, <2>5 DEF TypeOK
    <3>4. \A v \in Thread : v # u => pending'[v] = pending[v] /\ last'[v] = last[v]
      BY <1>0, <2>5 DEF TypeOK
    <3>5. InFlightIsLast'
      BY <1>0, <2>2, <2>3, <3>2, <3>3, <3>4
    <3>6. LastRequestWins'
      BY <1>0, <2>3, <3>2, <3>4
    <3> QED BY <3>5, <3>6
  <2> QED BY <2>1, <2>4, <2>5 DEF KillEffect
<1>5. ASSUME NEW t \in Thread, Deliver(t)
      PROVE  InFlightIsLast' /\ LastRequestWins'
  <2>1. PICK s \in Signal :
            /\ pending[t][s] > 0
            /\ pending' = [pending EXCEPT ![t][s] = @ - 1]
            /\ handler' = [handler EXCEPT ![t] =
                              IF s = "STOP" THEN "stopping" ELSE "continuing"]
    BY <1>5 DEF Deliver
  <2>2. last' = last /\ pc' = pc /\ last[t] = s
    BY <1>0, <1>5, <2>1 DEF Deliver
  <2>3. handler'[t] = IF s = "STOP" THEN "stopping" ELSE "continuing"
    BY <1>0, <2>1 DEF TypeOK
  <2>4. \A v \in Thread : v # t => pending'[v] = pending[v] /\ handler'[v] = handler[v]
    BY <1>0, <2>1 DEF TypeOK
  <2>5. \A x \in Signal : ~(pending'[t][x] > 0)
    <3>1. Carries(t, s)
      BY <2>1
    <3>2. \A x \in Signal : x # s => ~Carries(t, x)
      BY <1>0, <3>1, OnlyCarrier DEF Place
    <3>3. pending[t][s] = 1
      BY <1>0, <2>1 DEF OneToken
    <3> QED BY <1>0, <2>1, <3>2, <3>3 DEF TypeOK
  <2> QED BY <1>0, <2>2, <2>3, <2>4, <2>5 DEF Signal
<1>6. ASSUME NEW t \in Thread,
             ConfirmStop(t) \/ ConfirmCont(t) \/ Suspend(t) \/ Resume(t)
      PROVE  InFlightIsLast' /\ LastRequestWins'
  <2>1. /\ pending' = pending /\ last' = last /\ pc' = pc
        /\ \A v \in Thread : v # t => handler'[v] = handler[v]
    BY <1>0, <1>6 DEF TypeOK, ConfirmStop, ConfirmCont, Suspend, Resume
  <2>2. \/ handler[t] = "stopping" /\ handler'[t] = "dumping"
        \/ handler[t] = "continuing" /\ handler'[t] = "resuming"
        \/ handler[t] = "dumping" /\ handler'[t] = "suspended"
        \/ handler[t] = "resuming" /\ handler'[t] = "none"
    BY <1>0, <1>6 DEF TypeOK, ConfirmStop, ConfirmCont, Suspend, Resume
  <2> QED BY <1>0, <2>1, <2>2 DEF Signal
<1> QED BY <1>1, <1>2, <1>3, <1>4, <1>5, <1>6 DEF Next, Signal

\* The inductive invariant holds of every behaviour.
THEOREM Inductive == Spec => []IInv
<1>1. Init => IInv
    BY InitIInv
<1>2. IInv /\ [Next]_vars => IInv'
    BY TypeStep, OneTokenStep, HolderStep, LastStep DEF IInv
<1> QED BY <1>1, <1>2, PTL DEF Spec

\* Every variable keeps its type.
THEOREM TypeCorrect == Spec => []TypeOK
<1>1. IInv => TypeOK
    BY DEF IInv
<1> QED BY <1>1, Inductive, PTL

\* The semaphore's token is in one place: at most one signal is on its way.
THEOREM SingleToken == Spec => []OneToken
<1>1. IInv => OneToken
    BY DEF IInv
<1> QED BY <1>1, Inductive, PTL

\* No thread is stopped while it holds the semaphore.
THEOREM HolderRuns == Spec => []HolderNotSuspended
<1>1. IInv => HolderNotSuspended
    BY DEF IInv
<1> QED BY <1>1, Inductive, PTL

\* A thread that has pausing disabled is not interrupted.
THEOREM DisabledRuns == Spec => []DisabledNotInterrupted
<1>1. IInv => DisabledNotInterrupted
    BY DEF IInv
<1> QED BY <1>1, Inductive, PTL

\* Concurrent pauses and resumes of a thread leave it as the last one asked.
THEOREM LastWins == Spec => []LastRequestWins
<1>1. IInv => LastRequestWins
    BY DEF IInv
<1> QED BY <1>1, Inductive, PTL

\* pthread_pause_disable blocks the signals only when none is queued.
THEOREM DispatchedBeforeBlocked == Spec => BlockedAfterDispatch
<1> DEFINE Quiet == \A t \in Thread : masked'[t] /\ ~masked[t] => ~InFlight(t)
<1>1. IInv /\ [Next]_vars => [Quiet]_vars
  <2> SUFFICES ASSUME IInv, Next, NEW t \in Thread, masked'[t], ~masked[t]
               PROVE  ~InFlight(t)
    OBVIOUS
  <2>1. TypeOK /\ OneToken
    BY DEF IInv
  <2>2. Block(t)
    BY <2>1 DEF Next, TypeOK, Request, TakeToken, Kill, Confirm, Release, BeginDisable,
           Drain, Block, HandBack, Enable, HeapEnter, HeapLeave, Exit, Deliver,
           ConfirmStop, ConfirmCont, Suspend, Resume
  <2>3. Carries(t, "program")
    BY <2>2 DEF Block, Goto, Carries
  <2> QED BY <2>1, <2>3, OnlyCarrier DEF InFlight, Carries, Place, Signal
<1>2. Spec => [][Quiet]_vars
    BY <1>1, Inductive, PTL DEF Spec
<1> QED BY <1>2 DEF BlockedAfterDispatch


-----------------------------------------------------------------------------
(* Programs that follow the advice of the header: libc's locks are used      *)
(* only with pausing disabled.                                             *)

HeapIsDisabled == \A t \in Thread : pc[t] = "heap" => masked[t]

LEMMA HeapStep ==
    ASSUME GuardedHeap, TypeOK, HeapIsDisabled, [Next]_vars PROVE HeapIsDisabled'
<1>1. CASE UNCHANGED vars
    BY <1>1 DEF HeapIsDisabled, vars
<1>2. ASSUME NEW t \in Thread, HeapEnter(t) \/ Enable(t) PROVE HeapIsDisabled'
    BY <1>2 DEF TypeOK, HeapIsDisabled, HeapEnter, Enable, Goto
<1>3. ASSUME NEW t \in Thread, Block(t) PROVE HeapIsDisabled'
    BY <1>3 DEF TypeOK, HeapIsDisabled, Block, Goto
<1>4. ASSUME NEW t \in Thread, NEW u \in Thread, NEW s \in Signal, Request(t, u, s)
      PROVE  HeapIsDisabled'
    BY <1>4 DEF TypeOK, HeapIsDisabled, Request, Goto
<1>5. ASSUME NEW t \in Thread,
             TakeToken(t) \/ Kill(t) \/ Confirm(t) \/ Release(t) \/ BeginDisable(t)
                \/ Drain(t) \/ HandBack(t) \/ HeapLeave(t) \/ Exit(t)
      PROVE  HeapIsDisabled'
    BY <1>5 DEF TypeOK, HeapIsDisabled, TakeToken, Kill, Confirm, Release, BeginDisable,
           Drain, HandBack, HeapLeave, Exit, Goto
<1>6. ASSUME NEW t \in Thread,
             Deliver(t) \/ ConfirmStop(t) \/ ConfirmCont(t) \/ Suspend(t) \/ Resume(t)
      PROVE  HeapIsDisabled'
    BY <1>6 DEF HeapIsDisabled, Deliver, ConfirmStop, ConfirmCont, Suspend, Resume
<1> QED BY <1>1, <1>2, <1>3, <1>4, <1>5, <1>6 DEF Next

\* In such a program no handler waits for a libc lock of its own thread.
THEOREM HandlerNeverBlocked == ASSUME GuardedHeap PROVE Spec => []NoSelfDeadlock
<1>1. Init => HeapIsDisabled
    BY DEF Init, HeapIsDisabled
<1>2. Spec => []HeapIsDisabled
    BY <1>1, HeapStep, TypeCorrect, PTL DEF Spec
<1>3. HeapIsDisabled /\ DisabledNotInterrupted => NoSelfDeadlock
    BY DEF HeapIsDisabled, DisabledNotInterrupted, NoSelfDeadlock
<1> QED BY <1>2, <1>3, DisabledRuns, PTL


-----------------------------------------------------------------------------
(* PauseThread implements Pausing.                                         *)

\* A signal on its way is the one request that was sent and not obeyed; its
\* sender waits for it, and nobody has the token meanwhile.  An exited target
\* keeps both waiting for ever.
Awaited ==
    /\ \A u \in Thread : InFlight(u) => asked # None /\ asked.to = u /\ last[u] = asked.signal
    /\ asked # None =>
           /\ pc[asked.from] = "confirm"
           /\ sem = 0 /\ \A t \in Thread : ~Carries(t, "program")
           /\ InFlight(asked.to) \/ pc[asked.to] = "exited"

\* Nothing runs on a thread that has exited.
ExitedQuiet == \A t \in Thread : pc[t] = "exited" => handler[t] = "none" /\ ~InFlight(t)

\* The steps of a program before it has the semaphore, and of the heap.
LEMMA AwaitedProgram ==
    ASSUME TypeOK, Awaited, ExitedQuiet, NEW t \in Thread, NEW u \in Thread, NEW s \in Signal,
           \/ Request(t, u, s) \/ BeginDisable(t) \/ Block(t) \/ Enable(t)
           \/ HeapEnter(t) \/ HeapLeave(t)
    PROVE  Awaited' /\ ExitedQuiet'
<1>1. /\ UNCHANGED <<sem, handler, pending, last, asked>>
      /\ handler[t] = "none" /\ pc[t] \in {"user", "heap", "block"}
      /\ pc'[t] \in {"request", "drain", "handback", "user", "heap"}
      /\ pc[t] = "block" <=> pc'[t] = "handback"
      /\ \A v \in Thread : v # t => pc'[v] = pc[v]
    BY DEF TypeOK, Request, BeginDisable, Block, Enable, HeapEnter, HeapLeave, Goto
<1>2. \A v \in Thread : InFlight(v)' <=> InFlight(v)
    BY <1>1 DEF InFlight
<1>3. \A v \in Thread : Carries(v, "program")' => Carries(v, "program")
    BY <1>1 DEF Carries, Signal
<1>4. asked # None => asked.from \in Thread /\ asked.to \in Thread
    BY DEF TypeOK, Sent
<1> QED BY <1>1, <1>2, <1>3, <1>4 DEF Awaited, ExitedQuiet

\* The steps that take the token from the semaphore, or give it back.
LEMMA AwaitedToken ==
    ASSUME TypeOK, OneToken, Awaited, ExitedQuiet, NEW t \in Thread,
           TakeToken(t) \/ Confirm(t) \/ Drain(t) \/ Release(t) \/ HandBack(t)
    PROVE  asked = None /\ Awaited' /\ ExitedQuiet'
<1>1. /\ UNCHANGED <<handler, pending, last, asked>>
      /\ pc[t] # "exited" /\ pc'[t] # "exited"
      /\ \A v \in Thread : v # t => pc'[v] = pc[v]
    BY DEF TypeOK, TakeToken, Confirm, Drain, Release, HandBack, Goto
<1>2. sem > 0 \/ Carries(t, "program")
    BY DEF TakeToken, Confirm, Drain, Release, HandBack, Goto, SemWait, Carries
<1>3. asked = None
    BY <1>2 DEF Awaited, TypeOK
<1>4. \A v \in Thread : InFlight(v)' <=> InFlight(v)
    BY <1>1 DEF InFlight
<1> QED BY <1>1, <1>3, <1>4 DEF Awaited, ExitedQuiet

\* Sending a signal: nothing was on its way.
LEMMA AwaitedKill ==
    ASSUME TypeOK, OneToken, Awaited, ExitedQuiet, NEW t \in Thread, Kill(t)
    PROVE  asked = None /\ Awaited' /\ ExitedQuiet'
<1>1. PICK u \in Thread, s \in Signal : KillEffect(t, u, s)
    BY KillSends
<1>2. Carries(t, "program")
    BY <1>1 DEF KillEffect, Carries
<1>3. asked = None /\ sem = 0 /\ \A v \in Thread, w \in Place : Carries(v, w) => v = t /\ w = "program"
    BY <1>2, OnlyCarrier DEF Place, Awaited
<1>4. \A v \in Thread : ~InFlight(v)
    BY <1>3 DEF Awaited
<1>5. /\ asked' = [from |-> t, to |-> u, signal |-> s] /\ sem' = 0 /\ handler' = handler
      /\ pc'[t] = "confirm" /\ pc[t] = "kill" /\ \A v \in Thread : v # t => pc'[v] = pc[v]
    BY <1>1, <1>3 DEF KillEffect, TypeOK
<1>6. asked' # None /\ asked'.from = t /\ asked'.to = u /\ asked'.signal = s
    BY <1>5, NoneAssumption DEF Signal
<1>7. \A v \in Thread : ~Carries(v, "program")'
    BY <1>3, <1>5 DEF Carries, Place, Signal
<1>8. \A v \in Thread : v # u => ~InFlight(v)' 
  <2>1. \A v \in Thread : v # u => pending'[v] = pending[v]
    BY <1>1 DEF KillEffect, TypeOK
  <2> QED BY <1>4, <1>5, <2>1 DEF InFlight
<1>9. CASE pc[u] = "exited"
  <2>1. ~InFlight(u)' /\ pc'[u] = "exited"
    BY <1>1, <1>4, <1>5, <1>9 DEF KillEffect, InFlight
  <2> QED BY <1>3, <1>5, <1>6, <1>7, <1>8, <1>9, <2>1 DEF Awaited, ExitedQuiet
<1>10. CASE pc[u] # "exited"
  <2>1. /\ pending' = [pending EXCEPT ![u] = [@ EXCEPT ![s] = pending[u][s] + 1]]
        /\ last' = [last EXCEPT ![u] = s]
    BY <1>1, <1>10 DEF KillEffect
  <2>2. last'[u] = s /\ pending[u][s] \in Nat /\ pending'[u][s] = pending[u][s] + 1
    BY <2>1 DEF TypeOK
  <2>3. InFlight(u)'
    BY <2>2 DEF InFlight
  <2>4. pc'[u] # "exited"
    BY <1>5, <1>10
  <2>5. ExitedQuiet'
    BY <1>5, <1>8, <2>4 DEF ExitedQuiet
  <2>6. Awaited'
    BY <1>5, <1>6, <1>7, <1>8, <2>2, <2>3 DEF Awaited
  <2> QED BY <1>3, <2>5, <2>6
<1> QED BY <1>9, <1>10

\* A signal reaches its thread.
LEMMA AwaitedDeliver ==
    ASSUME TypeOK, OneToken, Awaited, ExitedQuiet, NEW t \in Thread, Deliver(t)
    PROVE  Awaited' /\ ExitedQuiet'
<1>1. PICK s \in Signal :
          /\ pending[t][s] > 0
          /\ pending' = [pending EXCEPT ![t][s] = @ - 1]
          /\ handler' = [handler EXCEPT ![t] =
                            IF s = "STOP" THEN "stopping" ELSE "continuing"]
    BY DEF Deliver
<1>2. /\ UNCHANGED <<sem, pc, last, asked>> /\ pc[t] # "exited"
      /\ InFlight(t) /\ InFlight(t)'
    BY <1>1 DEF Deliver, InFlight, TypeOK
<1>3. \A v \in Thread : v # t => UNCHANGED <<pending[v], handler[v]>>
    BY <1>1 DEF TypeOK
<1>4. \A v \in Thread : InFlight(v)' <=> InFlight(v)
    BY <1>2, <1>3 DEF InFlight
<1>5. \A v \in Thread : ~Carries(v, "program")' <=> ~Carries(v, "program")
    BY <1>2 DEF Carries, Signal
<1> QED BY <1>2, <1>3, <1>4, <1>5 DEF Awaited, ExitedQuiet

\* The handler posts: the request is obeyed.
LEMMA AwaitedConfirm ==
    ASSUME TypeOK, OneToken, Awaited, ExitedQuiet, NEW t \in Thread,
           ConfirmStop(t) \/ ConfirmCont(t)
    PROVE  Awaited' /\ ExitedQuiet'
<1>1. /\ handler[t] \in {"stopping", "continuing"} /\ handler'[t] \in {"dumping", "resuming"}
      /\ UNCHANGED <<pc, pending>> /\ asked' = None
      /\ \A v \in Thread : v # t => handler'[v] = handler[v]
    BY DEF ConfirmStop, ConfirmCont, HandlerGoto, TypeOK
<1>2. Carries(t, "handler") /\ InFlight(t)
    BY <1>1 DEF Carries, InFlight
<1>3. \A v \in Thread, w \in Place : Carries(v, w) => v = t /\ w = "handler"
    BY <1>2, OnlyCarrier DEF Place
<1>4. \A v \in Thread : ~InFlight(v)'
    BY <1>1, <1>3 DEF InFlight, Carries, Place, Signal
<1>5. pc[t] # "exited"
    BY <1>2 DEF ExitedQuiet
<1> QED BY <1>1, <1>4, <1>5 DEF Awaited, ExitedQuiet

\* The handler suspends its thread, or returns.
LEMMA AwaitedHandler ==
    ASSUME TypeOK, Awaited, ExitedQuiet, NEW t \in Thread, Suspend(t) \/ Resume(t)
    PROVE  Awaited' /\ ExitedQuiet'
<1>1. /\ UNCHANGED <<sem, pc, pending, last, asked>>
      /\ handler[t] \in {"dumping", "resuming"} /\ handler'[t] \in {"suspended", "none"}
      /\ \A v \in Thread : v # t => handler'[v] = handler[v]
    BY DEF Suspend, Resume, HandlerGoto, TypeOK
<1>2. \A v \in Thread : InFlight(v)' <=> InFlight(v)
    BY <1>1 DEF InFlight
<1>3. \A v \in Thread : Carries(v, "program")' <=> Carries(v, "program")
    BY <1>1 DEF Carries, Signal
<1>4. asked # None => asked.to \in Thread
    BY DEF TypeOK, Sent
<1> QED BY <1>1, <1>2, <1>3, <1>4 DEF Awaited, ExitedQuiet

\* An exit takes what was queued along; who sent it goes on waiting.
LEMMA AwaitedExit ==
    ASSUME TypeOK, Awaited, ExitedQuiet, NEW t \in Thread, Exit(t)
    PROVE  Awaited' /\ ExitedQuiet'
<1>1. /\ UNCHANGED <<sem, handler, last, asked>>
      /\ handler[t] = "none" /\ pc[t] = "user" /\ pc'[t] = "exited"
      /\ \A s \in Signal : pending'[t][s] = 0
      /\ \A v \in Thread : v # t => UNCHANGED <<pc[v], pending[v]>>
    BY DEF Exit, Goto, TypeOK
<1>2. ~InFlight(t)' /\ \A v \in Thread : v # t => (InFlight(v)' <=> InFlight(v))
    BY <1>1 DEF InFlight
<1>3. \A v \in Thread : Carries(v, "program")' => Carries(v, "program")
    BY <1>1 DEF Carries, Signal
<1>4. asked # None => asked.from \in Thread /\ asked.to \in Thread
    BY DEF TypeOK, Sent
<1> QED BY <1>1, <1>2, <1>3, <1>4 DEF Awaited, ExitedQuiet

\* Every step keeps the request and its signal together.
LEMMA AwaitedStep == IInv /\ Awaited /\ ExitedQuiet /\ [Next]_vars => Awaited' /\ ExitedQuiet'
<1> SUFFICES ASSUME IInv, Awaited, ExitedQuiet, [Next]_vars PROVE Awaited' /\ ExitedQuiet'
    OBVIOUS
<1>0. TypeOK /\ OneToken
    BY DEF IInv
<1>1. CASE UNCHANGED vars
    BY <1>1 DEF vars, Awaited, ExitedQuiet, InFlight, Carries
<1>2. CASE Next
    BY <1>0, <1>2, AwaitedProgram, AwaitedToken, AwaitedKill, AwaitedDeliver, AwaitedConfirm,
       AwaitedHandler, AwaitedExit DEF Next, Signal
<1> QED BY <1>1, <1>2

\* The request that was sent last is the one that is on its way.
THEOREM OneRequest == Spec => [](IInv /\ Awaited /\ ExitedQuiet)
<1>1. Init => Awaited /\ ExitedQuiet
    BY DEF Init, Awaited, ExitedQuiet, InFlight, Signal
<1> QED BY <1>1, AwaitedStep, Inductive, PTL DEF Spec

-----------------------------------------------------------------------------
(* Where the token is when no request is open.                             *)

\* Each step that takes the token from a place puts it in another; an exit is
\* that of a thread outside of a call, and a signal is not in flight without a
\* request.
LEMMA TokenStep ==
    ASSUME TypeOK, OneToken, Awaited, TypeOK', OneToken', Awaited',
           TokenLostToExitedOnly, [Next]_vars
    PROVE  TokenLostToExitedOnly'
<1>0. "program" \in Place /\ "handler" \in Place /\ Signal \subseteq Place
    BY DEF Place
<1>1. ASSUME asked' # None PROVE TokenLostToExitedOnly'
  <2>1. asked'.to \in Thread
    BY <1>1 DEF TypeOK, Sent
  <2>2. ASSUME InFlight(asked.to)' PROVE TokenLostToExitedOnly'
    <3>1. Carries(asked.to, "handler")' \/ \E s \in Signal : Carries(asked.to, s)'
      BY <2>2 DEF InFlight, Carries
    <3> QED BY <1>0, <2>1, <3>1 DEF TokenLostToExitedOnly
  <2> QED BY <1>1, <2>2 DEF Awaited, TokenLostToExitedOnly
<1>2. ASSUME asked = None PROVE sem = 1 \/ \E t \in Thread : Carries(t, "program")
  <2>1. \A t \in Thread, w \in Place : Carries(t, w) => w = "program"
    BY <1>2 DEF Awaited, InFlight, Carries, Place
  <2> QED BY <1>2, <2>1 DEF TokenLostToExitedOnly
<1>3. ASSUME asked = None, sem' = sem,
             \A v \in Thread : Carries(v, "program") => Carries(v, "program")'
      PROVE  TokenLostToExitedOnly'
    BY <1>0, <1>2, <1>3 DEF TokenLostToExitedOnly
<1>4. ASSUME asked' = None, NEW t \in Thread, NEW u \in Thread, NEW s \in Signal,
             \/ Request(t, u, s) \/ BeginDisable(t) \/ Enable(t)
             \/ HeapEnter(t) \/ HeapLeave(t) \/ Block(t) \/ Exit(t)
      PROVE  TokenLostToExitedOnly'
  <2>1. /\ pc[t] \in {"user", "heap"} \/ (pc[t] = "block" /\ pc'[t] = "handback")
        /\ \A v \in Thread : v # t => pc'[v] = pc[v]
    BY <1>4 DEF Request, BeginDisable, Enable, HeapEnter, HeapLeave, Block, Exit, Goto, TypeOK
  <2>2. \A v \in Thread : Carries(v, "program") => Carries(v, "program")'
    BY <2>1 DEF Carries, Signal
  <2>3. sem' = sem /\ asked = None
    BY <1>4 DEF Request, BeginDisable, Enable, HeapEnter, HeapLeave, Block, Exit
  <2> QED BY <1>3, <2>3, <2>2
<1>5. ASSUME NEW t \in Thread, TakeToken(t) \/ Confirm(t) \/ Drain(t)
      PROVE  TokenLostToExitedOnly'
  <2>1. Carries(t, "program")'
    BY <1>5 DEF TakeToken, Confirm, Drain, Goto, TypeOK, Carries
  <2> QED BY <1>0, <2>1 DEF TokenLostToExitedOnly
<1>6. ASSUME NEW t \in Thread,
             Release(t) \/ HandBack(t) \/ ConfirmStop(t) \/ ConfirmCont(t)
      PROVE  TokenLostToExitedOnly'
  <2>1. sem' = sem + 1
    BY <1>6 DEF Release, HandBack, ConfirmStop, ConfirmCont, SemPost
  <2>2. sem' = 1
    BY <2>1 DEF OneToken
  <2> QED BY <2>2 DEF TokenLostToExitedOnly
<1>7. ASSUME asked' = None, NEW t \in Thread, Suspend(t) \/ Resume(t)
      PROVE  TokenLostToExitedOnly'
  <2>1. \A v \in Thread : Carries(v, "program") => Carries(v, "program")'
    BY <1>7 DEF Suspend, Resume, HandlerGoto, Carries, TypeOK
  <2>2. sem' = sem /\ asked = None
    BY <1>7 DEF Suspend, Resume
  <2> QED BY <1>3, <2>1, <2>2
<1>8. ASSUME NEW t \in Thread, Kill(t) PROVE asked' # None
  <2>1. PICK u \in Thread, s \in Signal : KillEffect(t, u, s)
    BY <1>8, KillSends
  <2>2. asked' \in Sent
    BY <2>1 DEF KillEffect, Sent
  <2> QED BY <2>2, NoneAssumption DEF Sent, Signal
<1>9. ASSUME NEW t \in Thread, Deliver(t) PROVE asked' # None
  <2>1. InFlight(t) /\ asked' = asked
    BY <1>9 DEF Deliver, InFlight
  <2> QED BY <2>1 DEF Awaited
<1>10. ASSUME asked' = None, UNCHANGED vars PROVE TokenLostToExitedOnly'
    BY <1>3, <1>10 DEF vars, Carries
<1> QED
    BY <1>1, <1>4, <1>5, <1>6, <1>7, <1>8, <1>9, <1>10 DEF Next, Signal

\* Pausing stops working only when a request is made to a thread that has exited.
THEOREM TokenNotLost == Spec => []TokenLostToExitedOnly
<1>1. Init => TokenLostToExitedOnly
    BY DEF Init, TokenLostToExitedOnly
<1> QED BY <1>1, TokenStep, TypeCorrect, SingleToken, OneRequest, PTL DEF Spec

-----------------------------------------------------------------------------
\* All threads run, nothing was sent.
LEMMA PausesInit == Init => Pausing!Init
BY DEF Init, Pausing!Init, Obeys

\* A step that Pausing does not see.
LEMMA PausesStutter ==
    ASSUME asked' = asked,
           \A v \in Thread : /\ Obeys(v)' = Obeys(v) /\ (masked'[v] <=> masked[v])
                             /\ pc'[v] \in {"confirm", "release"} <=> pc[v] \in {"confirm", "release"}
    PROVE  UNCHANGED Pausing!vars
<1>1. {v \in Thread : pc[v] \in {"confirm", "release"}}' = {v \in Thread : pc[v] \in {"confirm", "release"}}
    OBVIOUS
<1>2. {v \in Thread : masked[v]}' = {v \in Thread : masked[v]}
    OBVIOUS
<1>3. [v \in Thread |-> Obeys(v)]' = [v \in Thread |-> Obeys(v)]
    OBVIOUS
<1> QED BY <1>1, <1>2, <1>3 DEF Pausing!vars

\* A request is sent while nothing else is on its way.
LEMMA KillPauses ==
    ASSUME IInv, Awaited, ExitedQuiet, NEW t \in Thread, Kill(t)
    PROVE  \E u \in Thread, s \in {"STOP", "CONT"} : Pausing!Send(t, u, s)
<1>0. TypeOK /\ OneToken
    BY DEF IInv
<1>1. PICK u \in Thread, s \in Signal : KillEffect(t, u, s)
    BY <1>0, KillSends
<1>2. asked = None /\ asked' = [from |-> t, to |-> u, signal |-> s]
    BY <1>0, <1>1, AwaitedKill DEF KillEffect
<1>3. /\ pc[t] = "kill" /\ pc'[t] = "confirm" /\ handler[t] = "none"
      /\ UNCHANGED <<handler, masked>>
      /\ \A v \in Thread : v # t => pc'[v] = pc[v]
    BY <1>0, <1>1 DEF KillEffect, TypeOK
<1>4. Obeys(t) = "CONT" /\ \A v \in Thread : Obeys(v)' = Obeys(v)
    BY <1>3 DEF Obeys
<1>5. [v \in Thread |-> Obeys(v)]' = [v \in Thread |-> Obeys(v)]
    BY <1>4
<1>6. {v \in Thread : pc[v] \in {"confirm", "release"}}'
        = {v \in Thread : pc[v] \in {"confirm", "release"}} \cup {t}
    BY <1>3
<1>7. t \notin {v \in Thread : pc[v] \in {"confirm", "release"}}
    BY <1>3
<1>8. Pausing!Send(t, u, s)
    BY <1>2, <1>3, <1>4, <1>5, <1>6, <1>7 DEF Pausing!Send, Pausing!Runs
<1> QED BY <1>8 DEF Signal

\* The signal reaches its thread: the request is at its target.
LEMMA DeliverPauses ==
    ASSUME IInv, Awaited, ExitedQuiet, NEW t \in Thread, Deliver(t)
    PROVE  Pausing!Tell(t)
<1>0. TypeOK /\ DisabledNotInterrupted
    BY DEF IInv
<1>1. /\ UNCHANGED <<pc, masked, asked>> /\ pc[t] # "exited"
      /\ handler[t] \in {"none", "suspended"} /\ handler'[t] \in {"stopping", "continuing"}
      /\ \A v \in Thread : v # t => handler'[v] = handler[v]
      /\ InFlight(t)
    BY <1>0 DEF Deliver, InFlight, TypeOK
<1>2. asked # None /\ asked.to = t
    BY <1>1 DEF Awaited
<1>3. ~masked[t]
    BY <1>0 DEF Deliver, DisabledNotInterrupted, TypeOK
<1>4. Obeys(t) \in {"CONT", "STOP"} /\ Obeys(t)' = "told"
    BY <1>1 DEF Obeys
<1>5. \A v \in Thread : v # t => Obeys(v)' = Obeys(v)
    BY <1>1 DEF Obeys
<1>6. [v \in Thread |-> Obeys(v)]' = [[v \in Thread |-> Obeys(v)] EXCEPT ![t] = "told"]
    BY <1>4, <1>5
<1> QED BY <1>1, <1>2, <1>3, <1>4, <1>6 DEF Pausing!Tell

\* The handler posts: the thread obeys the request, and no other.
LEMMA ConfirmPauses ==
    ASSUME IInv, Awaited, ExitedQuiet, NEW t \in Thread, ConfirmStop(t) \/ ConfirmCont(t)
    PROVE  Pausing!Obey(t)
<1>0. TypeOK /\ InFlightIsLast
    BY DEF IInv
<1>1. /\ UNCHANGED <<pc, masked>> /\ asked' = None
      /\ \/ handler[t] = "stopping" /\ handler'[t] = "dumping"
         \/ handler[t] = "continuing" /\ handler'[t] = "resuming"
      /\ \A v \in Thread : v # t => handler'[v] = handler[v]
    BY <1>0 DEF ConfirmStop, ConfirmCont, HandlerGoto, TypeOK
<1>2. InFlight(t)
    BY <1>1 DEF InFlight
<1>3. asked # None /\ asked.to = t /\ asked.signal = last[t] /\ pc[t] # "exited"
    BY <1>2 DEF Awaited, ExitedQuiet
<1>4. Obeys(t) = "told" /\ Obeys(t)' = asked.signal
    BY <1>0, <1>1, <1>3 DEF Obeys, InFlightIsLast
<1>5. \A v \in Thread : v # t => Obeys(v)' = Obeys(v)
    BY <1>1 DEF Obeys
<1>6. [v \in Thread |-> Obeys(v)]' = [[v \in Thread |-> Obeys(v)] EXCEPT ![t] = asked.signal]
    BY <1>4, <1>5
<1> QED BY <1>1, <1>3, <1>4, <1>6 DEF Pausing!Obey

\* A call gives the token back: its request is not on its way any more.
LEMMA ReleasePauses ==
    ASSUME IInv, Awaited, ExitedQuiet, NEW t \in Thread, Release(t)
    PROVE  Pausing!Return(t)
<1>0. TypeOK /\ OneToken
    BY DEF IInv
<1>1. /\ UNCHANGED <<handler, masked, asked>>
      /\ handler[t] = "none" /\ pc[t] = "release" /\ pc'[t] = "user"
      /\ \A v \in Thread : v # t => pc'[v] = pc[v]
    BY <1>0 DEF Release, Goto, TypeOK
<1>2. asked = None
    BY <1>0, AwaitedToken
<1>3. Obeys(t) = "CONT" /\ \A v \in Thread : Obeys(v)' = Obeys(v)
    BY <1>1 DEF Obeys
<1>4. [v \in Thread |-> Obeys(v)]' = [v \in Thread |-> Obeys(v)]
    BY <1>3
<1>5. {v \in Thread : pc[v] \in {"confirm", "release"}}'
        = {v \in Thread : pc[v] \in {"confirm", "release"}} \ {t}
    BY <1>1
<1> QED BY <1>1, <1>2, <1>3, <1>4, <1>5 DEF Pausing!Return

\* The signals are blocked, and unblocked, between two requests.
LEMMA DisablePauses ==
    ASSUME IInv, Awaited, ExitedQuiet, NEW t \in Thread, Block(t) \/ Enable(t)
    PROVE  Pausing!Disable(t) \/ Pausing!Enable(t)
<1>0. TypeOK
    BY DEF IInv
<1>1. /\ UNCHANGED <<handler, asked>>
      /\ handler[t] = "none" /\ pc[t] \in {"block", "user"} /\ pc'[t] \in {"handback", "user"}
      /\ \A v \in Thread : v # t => pc'[v] = pc[v] /\ masked'[v] = masked[v]
    BY <1>0 DEF Block, Enable, Goto, TypeOK
<1>2. Obeys(t) = "CONT" /\ \A v \in Thread : Obeys(v)' = Obeys(v)
    BY <1>1 DEF Obeys
<1>3. [v \in Thread |-> Obeys(v)]' = [v \in Thread |-> Obeys(v)]
    BY <1>2
<1>4. {v \in Thread : pc[v] \in {"confirm", "release"}}'
        = {v \in Thread : pc[v] \in {"confirm", "release"}}
    BY <1>1
<1>5. t \notin {v \in Thread : pc[v] \in {"confirm", "release"}}
    BY <1>1
<1>6. CASE Block(t)
  <2>1. masked'[t] /\ Carries(t, "program")
    BY <1>0, <1>6 DEF Block, Goto, Carries, TypeOK
  <2>2. asked = None
    BY <2>1 DEF Awaited
  <2>3. {v \in Thread : masked[v]}' = {v \in Thread : masked[v]} \cup {t}
    BY <1>1, <2>1
  <2> QED BY <1>1, <1>2, <1>3, <1>4, <1>5, <2>2, <2>3 DEF Pausing!Disable, Pausing!Runs
<1>7. CASE Enable(t)
  <2>1. ~masked'[t]
    BY <1>0, <1>7 DEF Enable, TypeOK
  <2>2. {v \in Thread : masked[v]}' = {v \in Thread : masked[v]} \ {t}
    BY <1>1, <2>1
  <2> QED BY <1>1, <1>2, <1>3, <1>4, <1>5, <2>2 DEF Pausing!Enable, Pausing!Runs
<1> QED BY <1>6, <1>7

\* A thread ends outside of a call.
LEMMA ExitPauses ==
    ASSUME IInv, NEW t \in Thread, Exit(t) PROVE Pausing!End(t)
<1>0. TypeOK
    BY DEF IInv
<1>1. /\ UNCHANGED <<handler, masked, asked>>
      /\ handler[t] = "none" /\ pc[t] = "user" /\ pc'[t] = "exited"
      /\ \A v \in Thread : v # t => pc'[v] = pc[v]
    BY <1>0 DEF Exit, Goto, TypeOK
<1>2. /\ Obeys(t) = "CONT" /\ Obeys(t)' = "gone"
      /\ \A v \in Thread : v # t => Obeys(v)' = Obeys(v)
    BY <1>1 DEF Obeys
<1>3. [v \in Thread |-> Obeys(v)]' = [[v \in Thread |-> Obeys(v)] EXCEPT ![t] = "gone"]
    BY <1>2
<1>4. {v \in Thread : pc[v] \in {"confirm", "release"}}'
        = {v \in Thread : pc[v] \in {"confirm", "release"}}
    BY <1>1
<1>5. t \notin {v \in Thread : pc[v] \in {"confirm", "release"}}
    BY <1>1
<1> QED BY <1>1, <1>2, <1>3, <1>4, <1>5 DEF Pausing!End, Pausing!Runs

\* The other steps are a thread's or a handler's own.
LEMMA OwnStepPauses ==
    ASSUME IInv, ExitedQuiet, NEW t \in Thread, NEW u \in Thread, NEW s \in Signal,
           \/ Request(t, u, s) \/ TakeToken(t) \/ Confirm(t) \/ BeginDisable(t) \/ Drain(t)
           \/ HandBack(t) \/ HeapEnter(t) \/ HeapLeave(t) \/ Suspend(t) \/ Resume(t)
    PROVE  UNCHANGED Pausing!vars
<1>0. TypeOK
    BY DEF IInv
<1>1. CASE Suspend(t) \/ Resume(t)
  <2>1. /\ UNCHANGED <<pc, masked, asked>>
        /\ \/ handler[t] = "dumping" /\ handler'[t] = "suspended"
           \/ handler[t] = "resuming" /\ handler'[t] = "none"
        /\ \A v \in Thread : v # t => handler'[v] = handler[v]
    BY <1>0, <1>1 DEF Suspend, Resume, HandlerGoto, TypeOK
  <2>2. \A v \in Thread : Obeys(v)' = Obeys(v)
    BY <2>1 DEF Obeys
  <2> QED BY <2>1, <2>2, PausesStutter
<1>2. CASE ~(Suspend(t) \/ Resume(t))
  <2>1. /\ UNCHANGED <<handler, masked, asked>>
        /\ pc[t] # "exited" /\ pc'[t] # "exited"
        /\ pc'[t] \in {"confirm", "release"} <=> pc[t] \in {"confirm", "release"}
        /\ \A v \in Thread : v # t => pc'[v] = pc[v]
    BY <1>0, <1>2 DEF Request, TakeToken, Confirm, BeginDisable, Drain, HandBack, HeapEnter,
       HeapLeave, Goto, TypeOK
  <2>2. \A v \in Thread : Obeys(v)' = Obeys(v)
    BY <2>1 DEF Obeys
  <2> QED BY <2>1, <2>2, PausesStutter
<1> QED BY <1>1, <1>2

\* Every step is one of Pausing, or one it does not see.
LEMMA StepPauses ==
    ASSUME IInv, Awaited, ExitedQuiet, [Next]_vars PROVE [Pausing!Next]_(Pausing!vars)
<1>1. CASE UNCHANGED vars
  <2>1. \A v \in Thread : Obeys(v)' = Obeys(v)
    BY <1>1 DEF vars, Obeys
  <2> QED BY <1>1, <2>1, PausesStutter DEF vars
<1>2. ASSUME NEW t \in Thread,
             \/ Kill(t) \/ Deliver(t) \/ ConfirmStop(t) \/ ConfirmCont(t) \/ Release(t)
             \/ Block(t) \/ Enable(t) \/ Exit(t)
      PROVE  Pausing!Next
    BY <1>2, KillPauses, DeliverPauses, ConfirmPauses, ReleasePauses, DisablePauses, ExitPauses
    DEF Pausing!Next
<1>3. ASSUME NEW t \in Thread, NEW u \in Thread, NEW s \in Signal,
             \/ Request(t, u, s) \/ TakeToken(t) \/ Confirm(t) \/ BeginDisable(t) \/ Drain(t)
             \/ HandBack(t) \/ HeapEnter(t) \/ HeapLeave(t) \/ Suspend(t) \/ Resume(t)
      PROVE  UNCHANGED Pausing!vars
    BY <1>3, OwnStepPauses
<1> QED BY <1>1, <1>2, <1>3 DEF Next, Signal

\* The semaphore and the two signals carry out one request after the other, and
\* a call returns after its own was obeyed.
THEOREM Implements == Spec => Pauses
<1>1. Init => Pausing!Init
    BY PausesInit
<1>2. IInv /\ Awaited /\ ExitedQuiet /\ [Next]_vars => [Pausing!Next]_(Pausing!vars)
    BY StepPauses
<1> QED BY <1>1, <1>2, OneRequest, PTL DEF Spec, Pauses, Pausing!Spec

=============================================================================
