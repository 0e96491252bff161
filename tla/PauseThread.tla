---------------------------- MODULE PauseThread ----------------------------
(***************************************************************************)
(* lib/pause_thread.c: pausing and resuming a thread with two real-time     *)
(* signals and one process-wide semaphore.                                 *)
(*                                                                         *)
(* A thread's own program is a program counter: outside the module         *)
(* ("user"), inside libc's internal lock ("heap", malloc or stdio), or at  *)
(* a step of pthread_pause / pthread_resume ("request" .. "release") or of *)
(* pthread_pause_disable ("drain" .. "handback").  On top of it runs the   *)
(* signal handler, whose state is kept apart: a thread whose handler is    *)
(* not "none" does not execute its program.                                *)
(*                                                                         *)
(* Handlers nest only at sigsuspend: sa_mask holds both signals, and       *)
(* sigsuspend restores that mask before it returns, so once the innermost  *)
(* suspension is over every outer handler returns without interruption.    *)
(* One handler state per thread is therefore enough.                       *)
(***************************************************************************)
EXTENDS Naturals

CONSTANTS
    Thread,        \* the threads of one process
    None,          \* "no thread", "no signal"
    Mortal,        \* the threads that may exit
    GuardedHeap,   \* threads use libc's locks only with pausing disabled
    NestedCalls    \* a thread may call into the module while it is disabled

ASSUME ThreadAssumption == None \notin Thread /\ None \notin {"STOP", "CONT"}
ASSUME MortalAssumption == Mortal \subseteq Thread
ASSUME NoneAssumption == None \notin [from : Thread, to : Thread, signal : {"STOP", "CONT"}]
ASSUME FlagAssumption == GuardedHeap \in BOOLEAN /\ NestedCalls \in BOOLEAN

VARIABLES
    sem,      \* pthread_pause_sem
    pc,       \* where each thread's own program is
    call,     \* the target and signal of a thread's pause or resume call
    masked,   \* the thread has blocked both signals
    pending,  \* queued signals, per thread and signal number
    handler,  \* the state of the thread's innermost handler
    last,     \* history: the last signal queued for each thread
    asked     \* history: the pause or resume that was sent and not answered

vars == <<sem, pc, call, masked, pending, handler, last, asked>>

Signal == {"STOP", "CONT"}

Call == [to : Thread \cup {None}, signal : Signal \cup {None}]

NoCall == [to |-> None, signal |-> None]

Sent == [from : Thread, to : Thread, signal : Signal]

ProgramState == {"user", "heap", "request", "kill", "confirm", "release",
                 "drain", "block", "handback", "exited"}

HandlerState == {"none", "stopping", "dumping", "suspended", "continuing",
                 "resuming"}

TypeOK ==
    /\ sem \in Nat
    /\ pc \in [Thread -> ProgramState]
    /\ call \in [Thread -> Call]
    /\ masked \in [Thread -> BOOLEAN]
    /\ pending \in [Thread -> [Signal -> Nat]]
    /\ handler \in [Thread -> HandlerState]
    /\ last \in [Thread -> Signal \cup {None}]
    /\ asked \in Sent \cup {None}
    /\ \A t \in Thread : pc[t] \in {"request", "kill"} => call[t] \in [to : Thread, signal : Signal]

Init ==
    /\ sem = 1
    /\ pc = [t \in Thread |-> "user"]
    /\ call = [t \in Thread |-> NoCall]
    /\ masked = [t \in Thread |-> FALSE]
    /\ pending = [t \in Thread |-> [s \in Signal |-> 0]]
    /\ handler = [t \in Thread |-> "none"]
    /\ last = [t \in Thread |-> None]
    /\ asked = None

-----------------------------------------------------------------------------
(* Steps of a thread's own program.                                        *)

\* The thread executes its program, not a handler, and moves from a to b.
Goto(t, a, b) ==
    /\ handler[t] = "none"
    /\ pc[t] = a
    /\ pc' = [pc EXCEPT ![t] = b]

\* Faulty variant: the count goes down without waiting for it to be positive.
SemWaitUnblocked == sem' = sem - 1

SemWait == sem > 0 /\ sem' = sem - 1
SemPost == sem' = sem + 1

\* pthread_pause(u) and pthread_resume(u) differ only in the signal.
Request(t, u, s) ==
    /\ Goto(t, "user", "request")
    /\ NestedCalls \/ ~masked[t]
    /\ call' = [call EXCEPT ![t] = [to |-> u, signal |-> s]]
    /\ UNCHANGED <<sem, masked, pending, handler, last, asked>>

\* Faulty variant: sem_trywait with its result ignored.
TakeTokenTry(t) ==
    /\ Goto(t, "request", "kill")
    /\ sem' = 0
    /\ UNCHANGED <<call, masked, pending, handler, last, asked>>

TakeToken(t) ==
    /\ Goto(t, "request", "kill")
    /\ SemWait
    /\ UNCHANGED <<call, masked, pending, handler, last, asked>>

\* pthread_kill; a retry after EAGAIN is a stuttering step.  The result is
\* not looked at: a signal for a thread that has exited goes nowhere.
Kill(t) ==
    /\ Goto(t, "kill", "confirm")
    /\ LET u == call[t].to
           s == call[t].signal
       IN  IF pc[u] = "exited"
           THEN UNCHANGED <<pending, last>>
           ELSE /\ pending' = [pending EXCEPT ![u][s] = @ + 1]
                /\ last' = [last EXCEPT ![u] = s]
    /\ asked' = [from |-> t, to |-> call[t].to, signal |-> call[t].signal]
    /\ call' = [call EXCEPT ![t] = NoCall]
    /\ UNCHANGED <<sem, masked, handler>>

\* Faulty variant: the call does not wait for the handler's token.
ConfirmUnseen(t) ==
    /\ Goto(t, "confirm", "release")
    /\ UNCHANGED <<sem, call, masked, pending, handler, last, asked>>

\* _pthread_pause_yield: wait for the token the handler posts ...
Confirm(t) ==
    /\ Goto(t, "confirm", "release")
    /\ SemWait
    /\ UNCHANGED <<call, masked, pending, handler, last, asked>>

\* ... and hand it back.
Release(t) ==
    /\ Goto(t, "release", "user")
    /\ SemPost
    /\ UNCHANGED <<call, masked, pending, handler, last, asked>>

BeginDisable(t) ==
    /\ Goto(t, "user", "drain")
    /\ NestedCalls \/ ~masked[t]
    /\ UNCHANGED <<sem, call, masked, pending, handler, last, asked>>

\* Faulty variant: blocking the signals without taking the semaphore first.
DrainNothing(t) ==
    /\ Goto(t, "drain", "block")
    /\ UNCHANGED <<sem, call, masked, pending, handler, last, asked>>

Drain(t) ==
    /\ Goto(t, "drain", "block")
    /\ SemWait
    /\ UNCHANGED <<call, masked, pending, handler, last, asked>>

Block(t) ==
    /\ Goto(t, "block", "handback")
    /\ masked' = [masked EXCEPT ![t] = TRUE]
    /\ UNCHANGED <<sem, call, pending, handler, last, asked>>

HandBack(t) ==
    /\ Goto(t, "handback", "user")
    /\ SemPost
    /\ UNCHANGED <<call, masked, pending, handler, last, asked>>

\* pthread_pause_enable once the handlers are installed: only the unblocking.
Enable(t) ==
    /\ Goto(t, "user", "user")
    /\ masked[t]
    /\ masked' = [masked EXCEPT ![t] = FALSE]
    /\ UNCHANGED <<sem, call, pending, handler, last, asked>>

\* The lock inside malloc and stdio, taken by the program.
HeapFree == \A t \in Thread : pc[t] # "heap"

HeapEnter(t) ==
    /\ Goto(t, "user", "heap")
    /\ GuardedHeap => masked[t]
    /\ HeapFree
    /\ UNCHANGED <<sem, call, masked, pending, handler, last, asked>>

HeapLeave(t) ==
    /\ Goto(t, "heap", "user")
    /\ UNCHANGED <<sem, call, masked, pending, handler, last, asked>>

\* The thread's routine returns; what is queued for it is gone.
Exit(t) ==
    /\ t \in Mortal
    /\ Goto(t, "user", "exited")
    /\ pending' = [pending EXCEPT ![t] = [s \in Signal |-> 0]]
    /\ UNCHANGED <<sem, call, masked, handler, last, asked>>

-----------------------------------------------------------------------------
(* Steps of the signal handler.                                            *)

\* Faulty variant: only the resuming signal is in the blocked set.
DeliverHalfBlocked(t) ==
    /\ pc[t] # "exited"
    /\ handler[t] \in {"none", "suspended"}
    /\ \E s \in Signal :
        /\ pending[t][s] > 0
        /\ s = "CONT" => pending[t]["STOP"] = 0
        /\ s = "CONT" /\ handler[t] = "none" => ~masked[t]
        /\ pending' = [pending EXCEPT ![t][s] = @ - 1]
        /\ handler' = [handler EXCEPT ![t] =
                          IF s = "STOP" THEN "stopping" ELSE "continuing"]
    /\ UNCHANGED <<sem, pc, call, masked, last, asked>>

\* The thread receives its lowest-numbered queued signal: from its program
\* when the signals are not blocked, from sigsuspend in any case.
Deliver(t) ==
    /\ pc[t] # "exited"
    /\ \/ handler[t] = "none" /\ ~masked[t]
       \/ handler[t] = "suspended"
    /\ \E s \in Signal :
        /\ pending[t][s] > 0
        /\ s = "CONT" => pending[t]["STOP"] = 0
        /\ pending' = [pending EXCEPT ![t][s] = @ - 1]
        /\ handler' = [handler EXCEPT ![t] =
                          IF s = "STOP" THEN "stopping" ELSE "continuing"]
    /\ UNCHANGED <<sem, pc, call, masked, last, asked>>

HandlerGoto(t, a, b) ==
    /\ handler[t] = a
    /\ handler' = [handler EXCEPT ![t] = b]

\* sem_post on the first line of the handler.
ConfirmStop(t) ==
    /\ HandlerGoto(t, "stopping", "dumping")
    /\ SemPost
    /\ asked' = None
    /\ UNCHANGED <<pc, call, masked, pending, last>>

\* Faulty variants: a resume after which the thread suspends itself again, and
\* one that is not confirmed to its caller.
ConfirmContLooping(t) ==
    /\ HandlerGoto(t, "continuing", "suspended")
    /\ SemPost
    /\ asked' = None
    /\ UNCHANGED <<pc, call, masked, pending, last>>

ConfirmContSilent(t) ==
    /\ HandlerGoto(t, "continuing", "resuming")
    /\ UNCHANGED <<sem, pc, call, masked, pending, last, asked>>

ConfirmCont(t) ==
    /\ HandlerGoto(t, "continuing", "resuming")
    /\ SemPost
    /\ asked' = None
    /\ UNCHANGED <<pc, call, masked, pending, last>>

\* The backtrace file and the printf, both under libc's locks, then
\* sigsuspend.
Suspend(t) ==
    /\ HandlerGoto(t, "dumping", "suspended")
    /\ HeapFree
    /\ UNCHANGED <<sem, pc, call, masked, pending, last, asked>>

\* The printf of a resumed thread, and the return of every nested handler.  The
\* lock of stdio lets the thread in that has it already.
Resume(t) ==
    /\ HandlerGoto(t, "resuming", "none")
    /\ \A u \in Thread \ {t} : pc[u] # "heap"
    /\ UNCHANGED <<sem, pc, call, masked, pending, last, asked>>

-----------------------------------------------------------------------------
Next ==
    \E t \in Thread :
        \/ \E u \in Thread, s \in Signal : Request(t, u, s)
        \/ TakeToken(t) \/ Kill(t) \/ Confirm(t) \/ Release(t)
        \/ BeginDisable(t) \/ Drain(t) \/ Block(t) \/ HandBack(t) \/ Enable(t)
        \/ HeapEnter(t) \/ HeapLeave(t) \/ Exit(t)
        \/ Deliver(t) \/ ConfirmStop(t) \/ ConfirmCont(t)
        \/ Suspend(t) \/ Resume(t)

Spec == Init /\ [][Next]_vars

\* A thread that is inside the module or in a handler keeps running (weak
\* fairness); sem_wait, libc's locks and the end of a disabled section are
\* contended, and each contender gets its turn (strong fairness).
Fairness ==
    \A t \in Thread :
        /\ SF_vars(TakeToken(t)) /\ SF_vars(Confirm(t)) /\ SF_vars(Drain(t))
        /\ WF_vars(Kill(t)) /\ WF_vars(Release(t))
        /\ WF_vars(Block(t)) /\ WF_vars(HandBack(t))
        /\ WF_vars(HeapLeave(t)) /\ SF_vars(Enable(t))
        /\ WF_vars(Deliver(t)) /\ WF_vars(ConfirmStop(t))
        /\ WF_vars(ConfirmCont(t)) /\ SF_vars(Suspend(t)) /\ SF_vars(Resume(t))

FairSpec == Spec /\ Fairness

-----------------------------------------------------------------------------
(* Properties.                                                             *)

\* The places the token of the semaphore can be while it is not in the
\* semaphore: with a caller between sem_wait and pthread_kill or sem_post, in
\* a queued signal, or in a handler that has not posted yet.
Place == {"program", "handler"} \cup Signal

Carries(t, w) ==
    \/ w = "program" /\ pc[t] \in {"kill", "release", "block", "handback"}
    \/ w = "handler" /\ handler[t] \in {"stopping", "continuing"}
    \/ w \in Signal /\ pending[t][w] > 0

\* The semaphore limits the signals on their way to one in the whole process
\* (the comments in the handler and in pthread_pause_enable rely on it): the
\* token is in the semaphore or in at most one place, and is never doubled.
OneToken ==
    /\ sem \in {0, 1}
    /\ \A t \in Thread, s \in Signal : pending[t][s] \in {0, 1}
    /\ \A t, u \in Thread, w, x \in Place :
         Carries(t, w) /\ Carries(u, x) => sem = 0 /\ t = u /\ w = x

\* The token is lost only with a request to a thread that has exited, whether the
\* thread took the signal along or was sent it afterwards (pthread_pause looks
\* at no result of pthread_kill): otherwise it is somewhere, whoever pauses,
\* resumes, disables or exits, and however their handlers nest.
TokenLostToExitedOnly ==
    \/ sem = 1
    \/ \E t \in Thread, w \in Place : Carries(t, w)
    \/ asked # None /\ pc[asked.to] = "exited"

\* A thread is never stopped in the middle of a pause, resume or disable that
\* has taken the semaphore: a suspended holder would block every other call,
\* the one that would resume it included.
HolderNotSuspended ==
    \A t \in Thread : Carries(t, "program") => handler[t] = "none"

\* Pausing takes effect only in threads that allow it: while a thread has
\* pausing disabled no handler runs on it.
DisabledNotInterrupted == \A t \in Thread : masked[t] => handler[t] = "none"

\* A signal is on its way to u: queued, or its handler has not confirmed yet.
InFlight(u) ==
    \/ handler[u] \in {"stopping", "continuing"}
    \/ \E s \in Signal : pending[u][s] > 0

\* Whatever the order of concurrent pauses and resumes of a thread, once no
\* signal is on its way to it the thread obeys the last one sent: after a
\* pause it stops, after a resume it runs; no resume is lost to a pause that
\* is still being handled.
LastRequestWins ==
    \A u \in Thread :
        pc[u] # "exited" =>
            \/ InFlight(u)
            \/ last[u] = "STOP" /\ handler[u] \in {"dumping", "suspended"}
            \/ last[u] = "CONT" /\ handler[u] \in {"resuming", "none"}
            \/ last[u] = None /\ handler[u] = "none"

\* "Make sure all signals are dispatched before we block them": at the
\* moment a thread blocks the signals none is queued for it.
BlockedAfterDispatch ==
    [][\A t \in Thread : masked'[t] /\ ~masked[t] => ~InFlight(t)]_vars

\* "When you want to do some signal unsafe stuff": a handler that allocates for
\* the backtrace never waits for a lock that the program it interrupted holds.
NoSelfDeadlock ==
    \A t \in Thread : handler[t] = "dumping" => pc[t] # "heap"

\* What a thread is doing, as far as pauses and resumes go.
Obeys(t) ==
    IF pc[t] = "exited" THEN "gone"
    ELSE CASE handler[t] \in {"dumping", "suspended"} -> "STOP"
           [] handler[t] \in {"stopping", "continuing"} -> "told"
           [] OTHER -> "CONT"

Pausing == INSTANCE Pausing WITH
    request <- asked,
    calling <- {t \in Thread : pc[t] \in {"confirm", "release"}},
    obeys <- [t \in Thread |-> Obeys(t)],
    closed <- {t \in Thread : masked[t]}

\* The semaphore that all pauses, resumes and disables share gives what Pausing
\* promises: a call comes back after its own request was obeyed, never on the
\* confirmation of another, and signals are blocked between two requests only.
Pauses == Pausing!Spec

\* Every pause, resume and disable terminates as far as the semaphore goes:
\* the token always comes back.
TokenReturns == sem = 0 ~> sem = 1

\* A thread that is sent a resume eventually executes its program again, even
\* when other threads keep pausing and resuming it.
ResumeTakesEffect ==
    \A u \in Thread : pending[u]["CONT"] > 0 ~> handler[u] = "none"
=============================================================================
