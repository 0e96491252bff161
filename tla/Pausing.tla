------------------------------- MODULE Pausing -------------------------------
(***************************************************************************)
(* What lib/pause_thread.c promises: pthread_pause and pthread_resume are   *)
(* carried out one after the other in the whole process, a call returns    *)
(* after its target has obeyed it, and a thread that has pausing disabled  *)
(* is not told anything until it enables it again.                         *)
(*                                                                         *)
(* PauseThread implements this specification with two signals and one      *)
(* semaphore.                                                              *)
(***************************************************************************)
CONSTANTS
    Thread, \* the threads of one process
    None    \* "no request"

VARIABLES
    request, \* the pause or resume that was sent and not obeyed yet
    calling, \* the threads whose call was sent and has not returned
    obeys,   \* obeys[t]: what t does
    closed   \* the threads that have pausing disabled

vars == <<request, calling, obeys, closed>>

\* "CONT": executes its program.  "STOP": stopped.  "told": the request is at
\* it.  "gone": it has exited.
Obedience == {"CONT", "STOP", "told", "gone"}

Init ==
    /\ request = None
    /\ calling = {}
    /\ obeys = [t \in Thread |-> "CONT"]
    /\ closed = {}

Runs(t) == obeys[t] = "CONT" /\ t \notin calling

\* pthread_pause(u) or pthread_resume(u); nobody obeys when u is gone.
Send(t, u, s) ==
    /\ Runs(t)
    /\ request = None
    /\ request' = [from |-> t, to |-> u, signal |-> s]
    /\ calling' = calling \cup {t}
    /\ UNCHANGED <<obeys, closed>>

Tell(u) ==
    /\ request # None /\ request.to = u
    /\ u \notin closed /\ obeys[u] \in {"CONT", "STOP"}
    /\ obeys' = [obeys EXCEPT ![u] = "told"]
    /\ UNCHANGED <<request, calling, closed>>

Obey(u) ==
    /\ request # None /\ request.to = u
    /\ obeys[u] = "told"
    /\ obeys' = [obeys EXCEPT ![u] = request.signal]
    /\ request' = None
    /\ UNCHANGED <<calling, closed>>

\* A call comes back when its own request is not the one that is waiting.
Return(t) ==
    /\ t \in calling /\ obeys[t] = "CONT"
    /\ request # None => request.from # t
    /\ calling' = calling \ {t}
    /\ UNCHANGED <<request, obeys, closed>>

\* pthread_pause_disable waits for the request that is being carried out.
Disable(t) ==
    /\ Runs(t)
    /\ request = None
    /\ closed' = closed \cup {t}
    /\ UNCHANGED <<request, calling, obeys>>

Enable(t) ==
    /\ Runs(t)
    /\ closed' = closed \ {t}
    /\ UNCHANGED <<request, calling, obeys>>

End(t) ==
    /\ Runs(t)
    /\ obeys' = [obeys EXCEPT ![t] = "gone"]
    /\ UNCHANGED <<request, calling, closed>>

Next ==
    \E t \in Thread :
        \/ \E u \in Thread, s \in {"STOP", "CONT"} : Send(t, u, s)
        \/ Tell(t) \/ Obey(t) \/ Return(t) \/ Disable(t) \/ Enable(t) \/ End(t)

Spec == Init /\ [][Next]_vars
=============================================================================
