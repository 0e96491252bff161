------------------------------ MODULE VicLinks ------------------------------
(***************************************************************************)
(* The links of the contexts through any number of splits and merges.      *)
(*                                                                         *)
(* A link has two ends, one that connects and one that binds.  Each is a    *)
(* record in its context's list: a transport (inproc inside a process, ipc *)
(* between processes; the zmq type goes with it) and a socket.  The         *)
(* transport is chosen when the link is made, and again by                 *)
(* _vic_reinit_links whenever the context is converted, in every process   *)
(* that has a copy of the record.                                          *)
(*                                                                         *)
(* Locks, the end of routines and the protocol with the tool are those of  *)
(* VicSplit and VicMerge; here the routines run for ever, the tool is run  *)
(* when every context is started, and closing, opening or converting one   *)
(* context is one step.                                                    *)
(***************************************************************************)

CONSTANTS
    Vic,     \* the contexts with a flow; each names the process of its flow
    Main,    \* the first process
    Name,    \* the names of links
    None,
    Mixed    \* a program may have contexts of both kinds

ASSUME VicAssumption == Main \notin Vic /\ None \notin Vic \cup {Main}
ASSUME MixedAssumption == Mixed \in BOOLEAN

Proc == Vic \cup {Main}
End == Name \X {"connect", "bind"}

VARIABLES
    created,   \* the contexts in vic_list
    owner,     \* owner[e]: the context that has end e
    kind,      \* kind[p][v]: the abstraction of v in the memory of p
    current,   \* current[p]: current_abstraction
    tid,       \* tid[p][v]: the thread recorded for v
    executing, \* executing[p]: the contexts recorded as executing
    transport, \* transport[p][e]: what the record of end e says
    sock,      \* sock[p][e]: what its socket was opened with, "none" without one
    live,      \* the processes
    place,     \* place[v]: the process that runs v's flow
    prep,      \* prep[p]: the preparation thread of p
    todo,      \* todo[p]: the contexts its current loop has not visited
    tool       \* the tool

program == <<created, owner>>
records == <<kind, current, tid, executing, transport>>
vars == <<program, records, sock, live, place, prep, todo, tool>>

TypeOK ==
    /\ created \in SUBSET Vic
    /\ owner \in [End -> Vic \cup {None}]
    /\ kind \in [Proc -> [Vic -> {"none", "thread", "process"}]]
    /\ current \in [Proc -> {"none", "thread", "process"}]
    /\ tid \in [Proc -> [Vic -> Vic \cup {None}]]
    /\ executing \in [Proc -> SUBSET Vic]
    /\ transport \in [Proc -> [End -> {"none", "inproc", "ipc"}]]
    /\ sock \in [Proc -> [End -> {"none", "inproc", "ipc", "failed"}]]
    /\ live \in SUBSET Proc
    /\ place \in [Vic -> Proc \cup {None}]
    /\ prep \in [Proc -> {"listen", "close", "ready", "gone", "made", "convert", "reopen"}]
    /\ todo \in [Proc -> SUBSET Vic]
    /\ tool \in {"idle", "split", "merge"}

Init ==
    /\ created = {} /\ owner = [e \in End |-> None]
    /\ kind = [p \in Proc |-> [v \in Vic |-> "none"]]
    /\ current = [p \in Proc |-> "none"]
    /\ tid = [p \in Proc |-> [v \in Vic |-> None]]
    /\ executing = [p \in Proc |-> {}]
    /\ transport = [p \in Proc |-> [e \in End |-> "none"]]
    /\ sock = [p \in Proc |-> [e \in End |-> "none"]]
    /\ live = {Main} /\ place = [v \in Vic |-> None]
    /\ prep = [p \in Proc |-> "listen"]
    /\ todo = [p \in Proc |-> {}]
    /\ tool = "idle"

-----------------------------------------------------------------------------
(* Helpers.                                                                *)

\* The abstraction a transformation leads to.
Other(k) == IF k = "thread" THEN "process" ELSE "thread"

\* _get_transport_params.
TransportFor(a, b) == IF "process" \in {a, b} THEN "ipc" ELSE "inproc"

\* _vic_start_helper: every end of v gets a new socket, whether it has one or
\* not.  A name inside a process cannot be bound a second time.
Opened(p, v) ==
    [e \in End |->
        CASE owner[e] # v -> sock[p][e]
          [] owner[e] = v /\ e[2] = "bind" /\ sock[p][e] = "inproc"
                /\ transport[p][e] = "inproc" -> "failed"
          [] OTHER -> transport[p][e]]

\* _vic_disconnect_links.
Closed(p, v) == [e \in End |-> IF owner[e] = v THEN "none" ELSE sock[p][e]]

\* Faulty variant: chosen before the abstraction is changed.
ReinitedOld(p, v, k) ==
    [e \in End |-> IF owner[e] = v THEN TransportFor(Other(k), Other(k)) ELSE transport[p][e]]

\* _vic_reinit_links: the transport is chosen from one end's abstraction.
Reinited(p, v, k) ==
    [e \in End |-> IF owner[e] = v THEN TransportFor(k, k) ELSE transport[p][e]]

\* The memory of Main copied into the processes P.
Copied(f, P) == [p \in Proc |-> IF p \in P THEN f[Main] ELSE f[p]]

AllStarted == created # {} /\ \A v \in created : place[v] # None

-----------------------------------------------------------------------------
(* The program: contexts, links, and then the flows are started.           *)

Create(v, k) ==
    /\ v \notin created
    /\ \A w \in created : place[w] = None /\ (Mixed \/ kind[Main][w] = k)
    /\ created' = created \cup {v}
    /\ kind' = [kind EXCEPT ![Main][v] = k]
    /\ current' = [current EXCEPT ![Main] = k]
    /\ UNCHANGED <<owner, tid, executing, transport, sock, live, place, prep, todo, tool>>

\* vic_link: v's end connects, w's binds.
Link(v, w, n) ==
    /\ {v, w} \subseteq created /\ v # w
    /\ \A x \in created : place[x] = None
    /\ owner[<<n, "connect">>] = None
    /\ owner' = [owner EXCEPT ![<<n, "connect">>] = v, ![<<n, "bind">>] = w]
    /\ LET t == TransportFor(kind[Main][v], kind[Main][w]) IN
       transport' = [transport EXCEPT ![Main] = [e \in End |-> IF e[1] = n THEN t ELSE @[e]]]
    /\ UNCHANGED <<created, kind, current, tid, executing, sock, live, place, prep, todo, tool>>

\* _vic_start_thread, to the point where the thread has registered itself.
StartThread(v) ==
    /\ v \in created /\ place[v] = None
    /\ kind[Main][v] = "thread"
    /\ sock' = [sock EXCEPT ![Main] = Opened(Main, v)]
    /\ place' = [place EXCEPT ![v] = Main]
    /\ tid' = [tid EXCEPT ![Main][v] = v]
    /\ executing' = [executing EXCEPT ![Main] = @ \cup {v}]
    /\ UNCHANGED <<program, kind, current, transport, live, prep, todo, tool>>

\* Faulty variant: the thread id is recorded by the parent.
StartProcessUnregistered(v) ==
    /\ v \in created /\ place[v] = None
    /\ kind[Main][v] = "process"
    /\ live' = live \cup {v}
    /\ place' = [place EXCEPT ![v] = v]
    /\ kind' = Copied(kind, {v}) /\ current' = Copied(current, {v})
    /\ transport' = Copied(transport, {v})
    /\ tid' = [Copied(tid, {v}) EXCEPT ![Main][v] = v]
    /\ executing' = [p \in Proc |-> IF p \in {Main, v} THEN executing[Main] \cup {v} ELSE executing[p]]
    /\ sock' = [sock EXCEPT ![v] = [e \in End |-> IF owner[e] = v THEN transport[Main][e] ELSE "none"]]
    /\ UNCHANGED <<program, prep, todo, tool>>

\* _vic_start_process: the child has a copy of the records, shuts zmq down and
\* opens its own sockets; the parent notes that the flow executes and nothing
\* of its thread.
StartProcess(v) ==
    /\ v \in created /\ place[v] = None
    /\ kind[Main][v] = "process"
    /\ live' = live \cup {v}
    /\ place' = [place EXCEPT ![v] = v]
    /\ kind' = Copied(kind, {v}) /\ current' = Copied(current, {v})
    /\ transport' = Copied(transport, {v})
    /\ tid' = [Copied(tid, {v}) EXCEPT ![v][v] = v]
    /\ executing' = [p \in Proc |-> IF p \in {Main, v} THEN executing[Main] \cup {v} ELSE executing[p]]
    /\ sock' = [sock EXCEPT ![v] = [e \in End |-> IF owner[e] = v THEN transport[Main][e] ELSE "none"]]
    /\ UNCHANGED <<program, prep, todo, tool>>

-----------------------------------------------------------------------------
(* The split, up to the restored processes.                                *)

RunSplit ==
    /\ tool = "idle" /\ AllStarted
    /\ prep[Main] = "listen" /\ current[Main] = "thread"
    /\ tool' = "split"
    /\ prep' = [prep EXCEPT ![Main] = "close"]
    /\ todo' = [todo EXCEPT ![Main] = created]
    /\ UNCHANGED <<program, records, sock, live, place>>

\* Contexts that are processes are passed over.
Disconnect(v) ==
    /\ prep[Main] = "close" /\ v \in todo[Main]
    /\ todo' = [todo EXCEPT ![Main] = @ \ {v}]
    /\ sock' = IF kind[Main][v] = "thread" /\ v \in executing[Main]
               THEN [sock EXCEPT ![Main] = Closed(Main, v)] ELSE sock
    /\ UNCHANGED <<program, records, live, place, prep, tool>>

\* The tool stops, with the program ended, if the program has children or a
\* listed thread is not one of it.  Every process restored has Main's memory.
Split ==
    /\ tool = "split" /\ prep[Main] = "close" /\ todo[Main] = {}
    /\ live = {Main} /\ \A v \in executing[Main] : tid[Main][v] = v
    /\ live' = {Main} \cup executing[Main]
    /\ place' = [v \in Vic |-> IF v \in executing[Main] THEN v ELSE place[v]]
    /\ kind' = Copied(kind, live') /\ current' = Copied(current, live')
    /\ tid' = Copied(tid, live') /\ executing' = Copied(executing, live')
    /\ transport' = Copied(transport, live') /\ sock' = Copied(sock, live')
    /\ prep' = [p \in Proc |-> IF p \in live' THEN "convert" ELSE prep[p]]
    /\ todo' = [p \in Proc |-> IF p \in live' THEN created ELSE todo[p]]
    /\ tool' = "idle"
    /\ UNCHANGED program

-----------------------------------------------------------------------------
(* The merge, up to the restored process.                                  *)

RunMerge ==
    /\ tool = "idle" /\ AllStarted
    /\ prep[Main] = "listen" /\ current[Main] = "process"
    /\ tool' = "merge"
    /\ UNCHANGED <<program, records, sock, live, place, prep, todo>>

\* A child looks for its own context and closes its sockets; one that does not
\* find it gives up.
PrepareWorker(c) ==
    /\ tool = "merge" /\ c \in live \ {Main}
    /\ prep[c] = "listen" /\ current[c] = "process"
    /\ IF \E v \in created : kind[c][v] = "process" /\ tid[c][v] = c /\ v \in executing[c]
       THEN /\ prep' = [prep EXCEPT ![c] = "ready"]
            /\ sock' = [sock EXCEPT ![c] = Closed(c, c)]
       ELSE prep' = [prep EXCEPT ![c] = "gone"] /\ UNCHANGED sock
    /\ UNCHANGED <<program, records, live, place, todo, tool>>

Processes == {v \in created : kind[Main][v] = "process"}

\* Faulty variant: the preparation thread records itself.
PrepareMainItself ==
    /\ tool = "merge" /\ prep[Main] = "listen"
    /\ \A c \in live \ {Main} : prep[c] \in {"ready", "gone"}
    /\ prep' = [prep EXCEPT ![Main] = "made"]
    /\ tid' = [tid EXCEPT ![Main] = [v \in Vic |-> IF v \in Processes THEN Main ELSE @[v]]]
    /\ executing' = [executing EXCEPT ![Main] = @ \cup Processes]
    /\ UNCHANGED <<program, kind, current, transport, sock, live, place, todo, tool>>

\* A thread of Main for every process.
PrepareMain ==
    /\ tool = "merge" /\ prep[Main] = "listen"
    /\ \A c \in live \ {Main} : prep[c] \in {"ready", "gone"}
    /\ prep' = [prep EXCEPT ![Main] = "made"]
    /\ tid' = [tid EXCEPT ![Main] = [v \in Vic |-> IF v \in Processes THEN v ELSE @[v]]]
    /\ executing' = [executing EXCEPT ![Main] = @ \cup Processes]
    /\ UNCHANGED <<program, kind, current, transport, sock, live, place, todo, tool>>

\* The tool stops, with the program ended, if a child is not ready.
Merge ==
    /\ tool = "merge" /\ prep[Main] = "made"
    /\ \A v \in Processes : v \in live /\ prep[v] = "ready"
    /\ live' = {Main}
    /\ place' = [v \in Vic |-> IF v \in Processes THEN Main ELSE place[v]]
    /\ sock' = [p \in Proc |-> IF p = Main THEN sock[p] ELSE [e \in End |-> "none"]]
    /\ prep' = [p \in Proc |-> IF p = Main THEN "convert" ELSE "listen"]
    /\ todo' = [p \in Proc |-> IF p = Main THEN created ELSE {}]
    /\ tool' = "idle"
    /\ UNCHANGED <<program, records>>

-----------------------------------------------------------------------------
(* The end of both, in every process: every context of the current kind is  *)
(* converted, then the sockets are opened.                                 *)

\* Faulty variant: a process converts the links of its own context only.
ConvertOwnLinks(p, v) ==
    /\ p \in live /\ prep[p] = "convert" /\ v \in todo[p]
    /\ todo' = [todo EXCEPT ![p] = @ \ {v}]
    /\ IF kind[p][v] = current[p]
       THEN kind' = [kind EXCEPT ![p][v] = Other(current[p])]
       ELSE UNCHANGED kind
    /\ transport' = IF p \in {v, Main}
                    THEN [transport EXCEPT ![p] = Reinited(p, v, Other(current[p]))]
                    ELSE transport
    /\ UNCHANGED <<program, current, tid, executing, sock, live, place, prep, tool>>

Convert(p, v) ==
    /\ p \in live /\ prep[p] = "convert" /\ v \in todo[p]
    /\ todo' = [todo EXCEPT ![p] = @ \ {v}]
    /\ IF kind[p][v] = current[p]
       THEN /\ kind' = [kind EXCEPT ![p][v] = Other(current[p])]
            /\ transport' = [transport EXCEPT ![p] = Reinited(p, v, Other(current[p]))]
       ELSE UNCHANGED <<kind, transport>>
    /\ UNCHANGED <<program, current, tid, executing, sock, live, place, prep, tool>>

Converted(p) ==
    /\ p \in live /\ prep[p] = "convert" /\ todo[p] = {}
    /\ prep' = [prep EXCEPT ![p] = "reopen"]
    /\ todo' = [todo EXCEPT ![p] = created]
    /\ UNCHANGED <<program, records, sock, live, place, tool>>

\* Faulty variant: the processes are not told apart.
OpensAnywhere(p, v) == v \in executing[p]

\* After the split a process opens the sockets of its own context only; after
\* the merge Main opens those of every thread.
Opens(p, v) ==
    /\ v \in executing[p]
    /\ IF current[p] = "thread"
       THEN kind[p][v] = "process" => tid[p][v] = p
       ELSE kind[p][v] = "thread"

Reopen(p, v) ==
    /\ p \in live /\ prep[p] = "reopen" /\ v \in todo[p]
    /\ todo' = [todo EXCEPT ![p] = @ \ {v}]
    /\ sock' = IF Opens(p, v) THEN [sock EXCEPT ![p] = Opened(p, v)] ELSE sock
    /\ UNCHANGED <<program, records, live, place, prep, tool>>

Finish(p) ==
    /\ p \in live /\ prep[p] = "reopen" /\ todo[p] = {}
    /\ prep' = [prep EXCEPT ![p] = "listen"]
    /\ current' = [current EXCEPT ![p] = Other(@)]
    /\ UNCHANGED <<program, kind, tid, executing, transport, sock, live, place, todo, tool>>

-----------------------------------------------------------------------------
ProgramNext ==
    \E v \in Vic :
        \/ \E k \in {"thread", "process"} : Create(v, k)
        \/ \E w \in Vic, n \in Name : Link(v, w, n)
        \/ StartThread(v)
        \/ StartProcess(v)

SplitNext == RunSplit \/ Split \/ \E v \in Vic : Disconnect(v)

MergeNext == RunMerge \/ PrepareMain \/ Merge \/ \E c \in Vic : PrepareWorker(c)

FinishNext ==
    \E p \in Proc :
        \/ \E v \in Vic : Convert(p, v) \/ Reopen(p, v)
        \/ Converted(p) \/ Finish(p)

Next == ProgramNext \/ SplitNext \/ MergeNext \/ FinishNext

Spec == Init /\ [][Next]_vars

-----------------------------------------------------------------------------
(* Properties.                                                             *)

\* A socket is open only in the process that runs its context's flow, at every
\* moment of every transformation: no process keeps or makes one for a flow
\* that is elsewhere, where it would take messages meant for that flow.
SocketsAtHome ==
    \A p \in live, e \in End :
        sock[p][e] # "none" => owner[e] \in created /\ place[owner[e]] = p

\* No transformation is under way.
Quiet == tool = "idle" /\ AllStarted /\ \A p \in live : prep[p] = "listen"

\* Both ends of a link are open where their flows run, with one transport, and
\* inside one process if it is the one that does not leave it.
Connected(n) ==
    LET a == owner[<<n, "connect">>]
        b == owner[<<n, "bind">>]
        s == sock[place[a]][<<n, "connect">>]
    IN  /\ s \in {"inproc", "ipc"}
        /\ sock[place[b]][<<n, "bind">>] = s
        /\ s = "inproc" => place[a] = place[b]

\* "some VICs now are linked which allows them to communicate with each other"
\* (main.c): before and after any number of transformations.
LinksConnected ==
    Quiet => \A n \in Name : owner[<<n, "connect">>] # None => Connected(n)

\* The next merge finds every child able to take part: it is in the state that
\* takes the merging branch, and its own context is the one it will find.
ChildrenFindThemselves ==
    Quiet => \A c \in live \ {Main} :
                /\ current[c] = "process"
                /\ kind[c][c] = "process" /\ tid[c][c] = c /\ c \in executing[c]

\* When nothing is under way all processes agree on what every context is and
\* how its links go, though each has converted a copy of its own.
CopiesAgree ==
    Quiet => \A p \in live :
                kind[p] = kind[Main] /\ transport[p] = transport[Main]
                    /\ current[p] = current[Main]
=============================================================================
