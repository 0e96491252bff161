--------------------------- MODULE VicLinksProofs ---------------------------
(***************************************************************************)
(* Proofs about VicLinks for any sets of contexts and names, programs of   *)
(* one kind or of both, and any number of splits and merges.               *)
(***************************************************************************)
EXTENDS VicLinks, TLAPS

Changing(p) == prep[p] \in {"convert", "reopen"}

\* Every context has one of the two abstractions in Main; one that is started
\* is executing; nothing is recorded of one that does not exist.
Recorded ==
    /\ executing[Main] \subseteq created
    /\ \A v \in created : kind[Main][v] # "none"
    /\ \A v \in created : place[v] # None => v \in executing[Main]
    /\ \A v \in Vic : place[v] # None => v \in created

\* Transformations begin when every context is started.
BusyStarted ==
    tool # "idle" \/ (\E p \in Proc : prep[p] # "listen") => AllStarted

\* The direction of a transformation.
Direction ==
    /\ prep[Main] = "close" => current[Main] = "thread"
    /\ tool = "merge" => current[Main] = "process"
    /\ tool = "merge" => prep[Main] \in {"listen", "made"}
    /\ Changing(Main) => current[Main] # "none"
    /\ \A c \in Vic : Changing(c) => current[c] = "thread"

\* Between transformations Main's records say where flows run.
KindIsPlace ==
    ~Changing(Main) =>
        \A v \in created : place[v] # None => (kind[Main][v] = "thread" <=> place[v] = Main)

\* While the split closes sockets: those of the contexts visited are closed.
ClosedBehind ==
    prep[Main] = "close" =>
        \A e \in End : owner[e] \notin todo[Main] => sock[Main][e] = "none"

\* A context visited by the loop that converts.
Visited(p, v) == prep[p] = "reopen" \/ v \notin todo[p]

\* The end of a split, in every process.
AfterSplit ==
    \A p \in live : Changing(p) /\ current[p] = "thread" =>
        /\ \A v \in executing[p] : v \in created /\ tid[p][v] = v /\ place[v] = v
        /\ \A v \in created : kind[p][v] # "none"
        /\ \A v \in created : Visited(p, v) => kind[p][v] = "process"

\* The end of a merge.
AfterMerge ==
    Changing(Main) /\ current[Main] = "process" =>
        \A v \in created :
            /\ place[v] = Main
            /\ Visited(Main, v) => kind[Main][v] = "thread"

LinksInv ==
    /\ TypeOK /\ SocketsAtHome /\ Main \in live
    /\ Recorded /\ BusyStarted /\ Direction /\ KindIsPlace
    /\ ClosedBehind /\ AfterSplit /\ AfterMerge
-----------------------------------------------------------------------------
(* Types.                                                                  *)

USE VicAssumption

\* The helpers return tables of the right type.
LEMMA HelperTypes ==
    ASSUME TypeOK, NEW p \in Proc, NEW v \in Vic, NEW k \in {"thread", "process"}
    PROVE  /\ Opened(p, v) \in [End -> {"none", "inproc", "ipc", "failed"}]
           /\ Closed(p, v) \in [End -> {"none", "inproc", "ipc", "failed"}]
           /\ Reinited(p, v, k) \in [End -> {"none", "inproc", "ipc"}]
<1>1. sock[p] \in [End -> {"none", "inproc", "ipc", "failed"}]
      /\ transport[p] \in [End -> {"none", "inproc", "ipc"}]
    BY DEF TypeOK
<1>2. Opened(p, v) \in [End -> {"none", "inproc", "ipc", "failed"}]
    BY <1>1 DEF Opened
<1>3. Closed(p, v) \in [End -> {"none", "inproc", "ipc", "failed"}]
    BY <1>1 DEF Closed
<1>4. Reinited(p, v, k) \in [End -> {"none", "inproc", "ipc"}]
    BY <1>1 DEF Reinited, TransportFor
<1> QED BY <1>2, <1>3, <1>4

\* A copy of Main's entry in some processes keeps a table's type.
LEMMA CopiedType ==
    ASSUME NEW S, NEW f \in [Proc -> S], NEW P
    PROVE  Copied(f, P) \in [Proc -> S]
BY DEF Copied, Proc

\* Changing one entry of a two-dimensional table keeps its type.
LEMMA UpdateTyped ==
    ASSUME NEW A, NEW B, NEW S, NEW f \in [A -> [B -> S]],
           NEW a \in A, NEW b \in B, NEW s \in S
    PROVE  [f EXCEPT ![a][b] = s] \in [A -> [B -> S]]
OBVIOUS

\* The steps before a transformation keep the variables well typed.
LEMMA TypeProgram == TypeOK /\ ProgramNext => TypeOK'
<1> SUFFICES ASSUME TypeOK, NEW v \in Vic,
                    \/ \E k \in {"thread", "process"} : Create(v, k)
                    \/ \E w \in Vic, n \in Name : Link(v, w, n)
                    \/ StartThread(v)
                    \/ StartProcess(v)
             PROVE  TypeOK'
    BY DEF ProgramNext
<1> USE DEF TypeOK, program, records
<1>1. ASSUME NEW k \in {"thread", "process"}, Create(v, k) PROVE TypeOK'
    BY <1>1 DEF Create, Proc
<1>2. ASSUME NEW w \in Vic, NEW n \in Name, Link(v, w, n) PROVE TypeOK'
  <2> DEFINE t == TransportFor(kind[Main][v], kind[Main][w])
  <2>1. t \in {"inproc", "ipc"}
    BY DEF TransportFor
  <2>2. [e \in End |-> IF e[1] = n THEN t ELSE transport[Main][e]]
            \in [End -> {"none", "inproc", "ipc"}]
    BY <2>1 DEF Proc
  <2>3. transport' \in [Proc -> [End -> {"none", "inproc", "ipc"}]]
    BY <1>2, <2>2 DEF Link
  <2>4. owner' \in [End -> Vic \cup {None}]
    BY <1>2 DEF Link
  <2> QED BY <1>2, <2>3, <2>4 DEF Link
<1>3. CASE StartThread(v)
    BY <1>3, HelperTypes DEF StartThread, Proc
<1>4. CASE StartProcess(v)
  <2>1. kind' \in [Proc -> [Vic -> {"none", "thread", "process"}]]
    BY <1>4, CopiedType DEF StartProcess
  <2>2. current' \in [Proc -> {"none", "thread", "process"}]
    BY <1>4, CopiedType DEF StartProcess
  <2>3. transport' \in [Proc -> [End -> {"none", "inproc", "ipc"}]]
    BY <1>4, CopiedType DEF StartProcess
  <2>4. tid' \in [Proc -> [Vic -> Vic \cup {None}]]
    <3>1. Copied(tid, {v}) \in [Proc -> [Vic -> Vic \cup {None}]]
        BY CopiedType
    <3> QED BY <1>4, <3>1 DEF StartProcess, Proc
  <2>5. executing' \in [Proc -> SUBSET Vic]
    BY <1>4 DEF StartProcess, Proc
  <2>6. sock' \in [Proc -> [End -> {"none", "inproc", "ipc", "failed"}]]
    <3>1. [e \in End |-> IF owner[e] = v THEN transport[Main][e] ELSE "none"]
             \in [End -> {"none", "inproc", "ipc", "failed"}]
        BY DEF Proc
    <3> QED BY <1>4, <3>1 DEF StartProcess, Proc
  <2>7. live' \in SUBSET Proc /\ place' \in [Vic -> Proc \cup {None}]
    BY <1>4 DEF StartProcess, Proc
  <2> QED BY <1>4, <2>1, <2>2, <2>3, <2>4, <2>5, <2>6, <2>7 DEF StartProcess
<1> QED BY <1>1, <1>2, <1>3, <1>4

\* So do the steps of the split ...
LEMMA TypeSplit == TypeOK /\ SplitNext => TypeOK'
<1> SUFFICES ASSUME TypeOK, SplitNext PROVE TypeOK'
    OBVIOUS
<1> USE DEF TypeOK, program, records
<1>1. CASE RunSplit
    BY <1>1 DEF RunSplit, Proc
<1>2. ASSUME NEW v \in Vic, Disconnect(v) PROVE TypeOK'
    BY <1>2, HelperTypes DEF Disconnect, Proc
<1>3. CASE Split
  <2>1. live' \in SUBSET Proc
    <3>1. executing[Main] \subseteq Vic
        BY DEF Proc
    <3> QED BY <1>3, <3>1 DEF Split, Proc
  <2>2. /\ kind' \in [Proc -> [Vic -> {"none", "thread", "process"}]]
        /\ current' \in [Proc -> {"none", "thread", "process"}]
    BY <1>3, CopiedType DEF Split
  <2>3. /\ transport' \in [Proc -> [End -> {"none", "inproc", "ipc"}]]
        /\ sock' \in [Proc -> [End -> {"none", "inproc", "ipc", "failed"}]]
    BY <1>3, CopiedType DEF Split
  <2>4. /\ tid' \in [Proc -> [Vic -> Vic \cup {None}]]
        /\ executing' \in [Proc -> SUBSET Vic]
    BY <1>3, CopiedType DEF Split
  <2>5. place' \in [Vic -> Proc \cup {None}]
    BY <1>3 DEF Split, Proc
  <2>6. /\ prep' \in [Proc -> {"listen", "close", "ready", "gone", "made", "convert", "reopen"}]
        /\ todo' \in [Proc -> SUBSET Vic]
    BY <1>3 DEF Split
  <2> QED BY <1>3, <2>1, <2>2, <2>3, <2>4, <2>5, <2>6 DEF Split
<1> QED BY <1>1, <1>2, <1>3 DEF SplitNext

\* ... of the merge ...
LEMMA TypeMerge == TypeOK /\ MergeNext => TypeOK'
<1> SUFFICES ASSUME TypeOK, MergeNext PROVE TypeOK'
    OBVIOUS
<1> USE DEF TypeOK, program, records
<1>1. CASE RunMerge
    BY <1>1 DEF RunMerge
<1>2. ASSUME NEW c \in Vic, PrepareWorker(c) PROVE TypeOK'
  <2>1. Closed(c, c) \in [End -> {"none", "inproc", "ipc", "failed"}]
    BY HelperTypes DEF Proc
  <2>2. sock' \in [Proc -> [End -> {"none", "inproc", "ipc", "failed"}]]
    BY <1>2, <2>1 DEF PrepareWorker
  <2>3. prep' \in [Proc -> {"listen", "close", "ready", "gone", "made", "convert", "reopen"}]
    <3>1. \/ prep' = [prep EXCEPT ![c] = "ready"]
          \/ prep' = [prep EXCEPT ![c] = "gone"]
        BY <1>2 DEF PrepareWorker
    <3> QED BY <3>1
  <2>4. UNCHANGED <<created, owner, kind, current, tid, executing, transport, live, place, todo, tool>>
    BY <1>2 DEF PrepareWorker
  <2> QED BY <2>2, <2>3, <2>4
<1>3. CASE PrepareMain
  <2>1. [v \in Vic |-> IF v \in Processes THEN v ELSE tid[Main][v]] \in [Vic -> Vic \cup {None}]
    BY DEF Proc
  <2> QED BY <1>3, <2>1 DEF PrepareMain, Processes, Proc
<1>4. CASE Merge
    BY <1>4 DEF Merge, Proc
<1> QED BY <1>1, <1>2, <1>3, <1>4 DEF MergeNext

\* ... and those that end both.
LEMMA TypeFinish == TypeOK /\ FinishNext => TypeOK'
<1> SUFFICES ASSUME TypeOK, NEW p \in Proc,
                    \/ \E v \in Vic : Convert(p, v) \/ Reopen(p, v)
                    \/ Converted(p) \/ Finish(p)
             PROVE  TypeOK'
    BY DEF FinishNext
<1> USE DEF TypeOK, program, records
<1>1. ASSUME NEW v \in Vic, Convert(p, v) PROVE TypeOK'
  <2> DEFINE k == Other(current[p])
  <2>1. k \in {"thread", "process"}
    BY DEF Other
  <2>2. Reinited(p, v, k) \in [End -> {"none", "inproc", "ipc"}]
    BY <2>1, HelperTypes
  <2>3. transport' \in [Proc -> [End -> {"none", "inproc", "ipc"}]]
    BY <1>1, <2>2 DEF Convert
  <2>4. kind' \in [Proc -> [Vic -> {"none", "thread", "process"}]]
    <3>1. kind' = [kind EXCEPT ![p][v] = k] \/ kind' = kind
        BY <1>1 DEF Convert
    <3>2. [kind EXCEPT ![p][v] = k] \in [Proc -> [Vic -> {"none", "thread", "process"}]]
        BY <2>1, UpdateTyped
    <3> QED BY <3>1, <3>2
  <2> QED BY <1>1, <2>3, <2>4 DEF Convert
<1>2. ASSUME NEW v \in Vic, Reopen(p, v) PROVE TypeOK'
    BY <1>2, HelperTypes DEF Reopen
<1>3. CASE Converted(p)
    BY <1>3 DEF Converted
<1>4. CASE Finish(p)
    BY <1>4 DEF Finish, Other
<1> QED BY <1>1, <1>2, <1>3, <1>4

\* Every variable keeps its type, for any contexts, names and kinds of program.
THEOREM TypeCorrect == Spec => []TypeOK
<1>1. Init => TypeOK
    BY DEF Init, TypeOK, Proc
<1>2. TypeOK /\ [Next]_vars => TypeOK'
  <2>1. TypeOK /\ UNCHANGED vars => TypeOK'
    BY DEF TypeOK, vars, program, records
  <2> QED BY <2>1, TypeProgram, TypeSplit, TypeMerge, TypeFinish DEF Next
<1> QED BY <1>1, <1>2, PTL DEF Spec
-----------------------------------------------------------------------------
(* The inductive invariant.                                                *)

\* Contexts are created, linked and started while nothing is under way.
LEMMA ProgramIdle ==
    ASSUME LinksInv, ProgramNext
    PROVE  tool = "idle" /\ \A p \in Proc : prep[p] = "listen"
<1>1. ASSUME NEW v \in Vic,
             \/ \E k \in {"thread", "process"} : Create(v, k)
             \/ \E w \in Vic, n \in Name : Link(v, w, n)
             \/ StartThread(v)
             \/ StartProcess(v)
      PROVE  ~AllStarted
    BY <1>1 DEF Create, Link, StartThread, StartProcess, AllStarted
<1>2. ~AllStarted
    BY <1>1 DEF ProgramNext
<1> QED BY <1>2 DEF LinksInv, BusyStarted

\* Then all that is said of transformations holds of nothing.
LEMMA ProgramRest ==
    ASSUME LinksInv, ProgramNext
    PROVE  BusyStarted' /\ Direction' /\ ClosedBehind' /\ AfterSplit' /\ AfterMerge' /\ Main \in live'
<1>1. tool' = "idle" /\ \A p \in Proc : prep'[p] = "listen"
    BY ProgramIdle DEF ProgramNext, Create, Link, StartThread, StartProcess
<1>2. live \subseteq live' /\ live' \subseteq Proc
  <2>1. live \subseteq Proc
    BY DEF LinksInv, TypeOK
  <2> QED BY <2>1 DEF ProgramNext, Create, Link, StartThread, StartProcess, Proc
<1>3. Main \in Proc /\ Vic \subseteq Proc
    BY DEF Proc
<1> QED BY <1>1, <1>2, <1>3 DEF LinksInv, BusyStarted, Direction, ClosedBehind, AfterSplit,
            AfterMerge, Changing

\* Creating and linking: no flow runs, so no socket is open.
LEMMA InvBuild ==
    ASSUME LinksInv, NEW v \in Vic,
           \/ \E k \in {"thread", "process"} : Create(v, k)
           \/ \E w \in Vic, n \in Name : Link(v, w, n)
    PROVE  LinksInv'
<1>1. ProgramNext
    BY DEF ProgramNext
<1>2. TypeOK'
    BY <1>1, TypeProgram DEF LinksInv
<1>3. \A w \in created : place[w] = None
    BY DEF Create, Link
<1>4. live \subseteq Proc /\ None \notin Proc /\ live' = live /\ place' = place /\ sock' = sock
    BY DEF LinksInv, TypeOK, Proc, Create, Link
<1>5. SocketsAtHome'
    BY <1>3, <1>4 DEF LinksInv, SocketsAtHome
<1>6. executing' = executing /\ created \subseteq created'
    BY DEF Create, Link
<1>7. \A w \in Vic : place'[w] = None
    BY <1>3, <1>4 DEF LinksInv, Recorded, TypeOK
<1>8. \A w \in created' : kind'[Main][w] # "none"
  <2>1. ASSUME NEW k \in {"thread", "process"}, Create(v, k)
        PROVE  \A w \in created' : kind'[Main][w] # "none"
    <3>1. kind'[Main] = [kind[Main] EXCEPT ![v] = k] /\ created' = created \cup {v}
        BY <2>1 DEF Create, LinksInv, TypeOK, Proc
    <3>2. kind[Main] \in [Vic -> {"none", "thread", "process"}]
        BY DEF LinksInv, TypeOK, Proc
    <3> QED BY <3>1, <3>2 DEF LinksInv, Recorded, TypeOK
  <2>2. ASSUME NEW w \in Vic, NEW n \in Name, Link(v, w, n)
        PROVE  created' = created /\ kind' = kind
    BY <2>2 DEF Link
  <2> QED BY <2>1, <2>2 DEF LinksInv, Recorded
<1>9. created' \subseteq Vic
    BY <1>2 DEF TypeOK
<1>10. Recorded'
    BY <1>6, <1>7, <1>8, <1>9 DEF LinksInv, Recorded
<1>11. KindIsPlace'
    BY <1>7, <1>9 DEF KindIsPlace
<1> QED BY <1>1, <1>2, <1>5, <1>10, <1>11, ProgramRest DEF LinksInv

\* Starting a thread opens its sockets in Main, where it runs.
LEMMA InvStartThread == ASSUME LinksInv, NEW v \in Vic, StartThread(v) PROVE LinksInv'
<1>1. ProgramNext
    BY DEF ProgramNext
<1>2. TypeOK'
    BY <1>1, TypeProgram DEF LinksInv
<1> USE DEF LinksInv, TypeOK
<1>3. place' = [place EXCEPT ![v] = Main] /\ live' = live /\ UNCHANGED <<created, owner, kind>>
      /\ v \in created /\ place[v] = None
    BY DEF StartThread, program
<1>4. executing'[Main] = executing[Main] \cup {v}
    BY DEF StartThread, Proc
<1>5. sock'[Main] = Opened(Main, v) /\ \A p \in Proc \ {Main} : sock'[p] = sock[p]
    BY DEF StartThread, Proc
<1>6. SocketsAtHome'
  <2> SUFFICES ASSUME NEW p \in live, NEW e \in End, sock'[p][e] # "none"
               PROVE  owner[e] \in created /\ place'[owner[e]] = p
    BY <1>3 DEF SocketsAtHome
  <2>1. CASE p = Main /\ owner[e] = v
    BY <2>1, <1>3
  <2>2. CASE ~(p = Main /\ owner[e] = v)
    <3>1. sock[p][e] # "none"
        BY <2>2, <1>5 DEF Opened
    <3>2. owner[e] \in created /\ place[owner[e]] = p
        BY <3>1 DEF SocketsAtHome
    <3>3. owner[e] # v
        BY <3>2, <1>3 DEF Proc
    <3> QED BY <3>2, <3>3, <1>3
  <2> QED BY <2>1, <2>2
<1>7. Recorded'
    BY <1>3, <1>4 DEF Recorded
<1>8. KindIsPlace'
  <2>1. prep' = prep /\ kind[Main][v] = "thread"
    BY DEF StartThread
  <2> QED BY <2>1, <1>3 DEF KindIsPlace, Changing
<1> QED BY <1>1, <1>2, <1>6, <1>7, <1>8, ProgramRest

\* Starting a process opens its sockets in the child.
LEMMA InvStartProcess == ASSUME LinksInv, NEW v \in Vic, StartProcess(v) PROVE LinksInv'
<1>1. ProgramNext
    BY DEF ProgramNext
<1>2. TypeOK'
    BY <1>1, TypeProgram DEF LinksInv
<1> USE DEF LinksInv, TypeOK
<1>3. /\ place' = [place EXCEPT ![v] = v] /\ live' = live \cup {v}
      /\ UNCHANGED <<created, owner>>
      /\ v \in created /\ place[v] = None /\ v # Main
    BY DEF StartProcess, program
<1>4. executing'[Main] = executing[Main] \cup {v}
    BY DEF StartProcess, Proc
<1>5. /\ sock'[v] = [e \in End |-> IF owner[e] = v THEN transport[Main][e] ELSE "none"]
      /\ \A p \in Proc \ {v} : sock'[p] = sock[p]
    BY DEF StartProcess, Proc
<1>6. SocketsAtHome'
  <2> SUFFICES ASSUME NEW p \in live', NEW e \in End, sock'[p][e] # "none"
               PROVE  owner[e] \in created /\ place'[owner[e]] = p
    BY <1>3 DEF SocketsAtHome
  <2>1. CASE p = v
    BY <2>1, <1>3, <1>5
  <2>2. CASE p # v
    <3>1. p \in live /\ sock[p][e] # "none"
        BY <2>2, <1>3, <1>5
    <3>2. owner[e] \in created /\ place[owner[e]] = p
        BY <3>1 DEF SocketsAtHome
    <3>3. owner[e] # v
        BY <3>1, <3>2, <1>3 DEF Proc
    <3> QED BY <3>2, <3>3, <1>3
  <2> QED BY <2>1, <2>2
<1>7. kind'[Main] = kind[Main] /\ kind[Main][v] = "process" /\ prep' = prep
    BY <1>3 DEF StartProcess, Copied, Proc
<1>8. Recorded'
    BY <1>3, <1>4, <1>7 DEF Recorded
<1>9. KindIsPlace'
    BY <1>3, <1>7 DEF KindIsPlace, Changing
<1> QED BY <1>1, <1>2, <1>6, <1>8, <1>9, ProgramRest

-----------------------------------------------------------------------------
\* The split begins: nothing is closed, nothing has to be yet.
LEMMA InvRunSplit == ASSUME LinksInv, RunSplit PROVE LinksInv'
<1>1. TypeOK'
    BY TypeSplit DEF LinksInv, SplitNext
<1> USE DEF LinksInv, TypeOK
<1>2. /\ UNCHANGED <<created, owner, kind, current, tid, executing, transport, sock, live, place>>
      /\ AllStarted /\ prep[Main] = "listen" /\ current[Main] = "thread" /\ tool' = "split"
      /\ prep' = [prep EXCEPT ![Main] = "close"] /\ todo' = [todo EXCEPT ![Main] = created]
    BY DEF RunSplit, program, records
<1>3. /\ prep'[Main] = "close" /\ todo'[Main] = created
      /\ \A p \in Proc \ {Main} : prep'[p] = prep[p] /\ todo'[p] = todo[p]
    BY <1>2 DEF Proc
<1>4. SocketsAtHome' /\ Recorded'
    BY <1>2 DEF SocketsAtHome, Recorded
<1>5. AllStarted'
    BY <1>2 DEF AllStarted
<1>6. BusyStarted' /\ Direction'
    BY <1>2, <1>3, <1>5 DEF BusyStarted, Direction, Changing, Proc
<1>7. KindIsPlace'
    BY <1>2, <1>3 DEF KindIsPlace, Changing
<1>8. ClosedBehind'
    BY <1>2, <1>3 DEF ClosedBehind, SocketsAtHome
<1>9. AfterSplit' /\ AfterMerge'
    BY <1>2, <1>3 DEF AfterSplit, AfterMerge, Changing, Visited
<1> QED BY <1>1, <1>2, <1>4, <1>6, <1>7, <1>8, <1>9

\* A context that has a socket in Main runs there, as an executing thread, so
\* the loop closes it.
LEMMA InvDisconnect == ASSUME LinksInv, NEW v \in Vic, Disconnect(v) PROVE LinksInv'
<1>1. TypeOK'
    BY TypeSplit DEF LinksInv, SplitNext
<1> USE DEF LinksInv, TypeOK
<1>2. /\ UNCHANGED <<created, owner, kind, current, tid, executing, transport, live, place, prep, tool>>
      /\ prep[Main] = "close" /\ v \in todo[Main]
      /\ todo' = [todo EXCEPT ![Main] = @ \ {v}]
    BY DEF Disconnect, program, records
<1>3. /\ todo'[Main] = todo[Main] \ {v}
      /\ \A p \in Proc \ {Main} : todo'[p] = todo[p]
    BY <1>2 DEF Proc
<1>4. /\ \A p \in Proc \ {Main} : sock'[p] = sock[p]
      /\ sock'[Main] = IF kind[Main][v] = "thread" /\ v \in executing[Main]
                       THEN Closed(Main, v) ELSE sock[Main]
    BY DEF Disconnect, Proc
<1>5. \A p \in Proc, e \in End : sock'[p][e] # "none" => sock[p][e] # "none"
  <2>1. \A e \in End : Closed(Main, v)[e] # "none" => sock[Main][e] # "none"
    BY DEF Closed
  <2>2. \A e \in End : sock'[Main][e] # "none" => sock[Main][e] # "none"
    BY <2>1, <1>4
  <2> QED BY <2>2, <1>4
<1>6. SocketsAtHome' /\ Recorded' /\ BusyStarted' /\ Direction' /\ KindIsPlace'
    BY <1>2, <1>5 DEF SocketsAtHome, Recorded, BusyStarted, Direction, KindIsPlace, Changing, AllStarted
<1>7. ClosedBehind'
  <2> SUFFICES ASSUME NEW e \in End, owner[e] \notin todo'[Main], sock'[Main][e] # "none"
               PROVE  FALSE
    BY <1>2 DEF ClosedBehind
  <2>1. sock[Main][e] # "none"
    BY <1>5 DEF Proc
  <2>2. owner[e] \in created /\ place[owner[e]] = Main
    BY <2>1 DEF SocketsAtHome
  <2>3. owner[e] = v
    BY <2>1, <1>2, <1>3 DEF ClosedBehind
  <2>4. v \in executing[Main] /\ kind[Main][v] = "thread"
    BY <2>2, <2>3, <1>2 DEF Recorded, KindIsPlace, Changing
  <2> QED BY <2>3, <2>4, <1>4 DEF Closed
<1>8. AfterSplit' /\ AfterMerge'
  <2>1. \A p \in Proc : Changing(p) => todo'[p] = todo[p]
    BY <1>2, <1>3 DEF Changing
  <2> QED BY <2>1, <1>2 DEF AfterSplit, AfterMerge, Changing, Visited
<1> QED BY <1>1, <1>2, <1>6, <1>7, <1>8

\* The program is frozen with all sockets of flows closed; every flow's process
\* starts with Main's records.
LEMMA InvSplit == ASSUME LinksInv, Split PROVE LinksInv'
<1>1. TypeOK'
    BY TypeSplit DEF LinksInv, SplitNext
<1> USE DEF LinksInv, TypeOK
<1>2. /\ UNCHANGED <<created, owner>> /\ tool = "split" /\ tool' = "idle"
      /\ prep[Main] = "close" /\ todo[Main] = {}
      /\ live = {Main} /\ \A v \in executing[Main] : tid[Main][v] = v
      /\ live' = {Main} \cup executing[Main]
      /\ place' = [v \in Vic |-> IF v \in executing[Main] THEN v ELSE place[v]]
    BY DEF Split, program
<1>3. live' \subseteq Proc /\ Main \in live'
    BY <1>1, <1>2
<1>4. \A p \in live' : /\ kind'[p] = kind[Main] /\ current'[p] = current[Main]
                       /\ tid'[p] = tid[Main] /\ executing'[p] = executing[Main]
                       /\ sock'[p] = sock[Main]
                       /\ prep'[p] = "convert" /\ todo'[p] = created
    BY <1>3 DEF Split, Copied
<1>5. \A p \in Proc \ live' : prep'[p] = prep[p] /\ current'[p] = current[p]
    BY DEF Split, Copied
<1>6. current[Main] = "thread" /\ AllStarted
    BY <1>2 DEF Direction, BusyStarted
<1>7. SocketsAtHome'
  <2>1. \A e \in End : sock[Main][e] = "none"
    BY <1>2 DEF ClosedBehind
  <2> QED BY <2>1, <1>3, <1>4 DEF SocketsAtHome
<1>8. executing[Main] \subseteq created /\ created \subseteq Vic
    BY DEF Recorded
<1>9. \A v \in created : v \in executing[Main]
    BY <1>6 DEF Recorded, AllStarted
<1>10. \A v \in created : place'[v] = v
    BY <1>2, <1>8, <1>9
<1>11. Recorded'
    BY <1>2, <1>3, <1>4, <1>8, <1>9 DEF Recorded
<1>12. BusyStarted'
    BY <1>2, <1>6, <1>8, <1>10 DEF BusyStarted, AllStarted
<1>13. Direction'
    BY <1>2, <1>3, <1>4, <1>5, <1>6 DEF Direction, Changing, Proc
<1>14. KindIsPlace' /\ ClosedBehind' /\ AfterMerge'
    BY <1>3, <1>4, <1>6 DEF KindIsPlace, ClosedBehind, AfterMerge, Changing
<1>15. AfterSplit'
  <2> SUFFICES ASSUME NEW p \in live'
               PROVE  /\ \A v \in executing'[p] : v \in created' /\ tid'[p][v] = v /\ place'[v] = v
                      /\ \A v \in created' : kind'[p][v] # "none"
                      /\ \A v \in created' : Visited(p, v)' => kind'[p][v] = "process"
    BY DEF AfterSplit
  <2>1. \A v \in executing'[p] : v \in created' /\ tid'[p][v] = v /\ place'[v] = v
    BY <1>2, <1>4, <1>8, <1>10
  <2>2. \A v \in created' : kind'[p][v] # "none"
    BY <1>2, <1>4 DEF Recorded
  <2>3. \A v \in created' : ~Visited(p, v)'
    BY <1>2, <1>4 DEF Visited
  <2> QED BY <2>1, <2>2, <2>3
<1> QED BY <1>1, <1>3, <1>7, <1>11, <1>12, <1>13, <1>14, <1>15

-----------------------------------------------------------------------------
\* The merge begins.
LEMMA InvRunMerge == ASSUME LinksInv, RunMerge PROVE LinksInv'
<1>1. TypeOK'
    BY TypeMerge DEF LinksInv, MergeNext
<1> USE DEF LinksInv
<1>2. /\ UNCHANGED <<created, owner, kind, current, tid, executing, transport, sock, live, place,
                     prep, todo>>
      /\ AllStarted /\ prep[Main] = "listen" /\ current[Main] = "process" /\ tool' = "merge"
    BY DEF RunMerge, program, records
<1>3. SocketsAtHome' /\ Recorded' /\ BusyStarted' /\ Direction' /\ KindIsPlace'
    BY <1>2 DEF SocketsAtHome, Recorded, BusyStarted, Direction, KindIsPlace, Changing, AllStarted
<1>4. ClosedBehind' /\ AfterSplit' /\ AfterMerge'
    BY <1>2 DEF ClosedBehind, AfterSplit, AfterMerge, Changing, Visited
<1> QED BY <1>1, <1>2, <1>3, <1>4

\* A child closes sockets of its own.
LEMMA InvPrepareWorker == ASSUME LinksInv, NEW c \in Vic, PrepareWorker(c) PROVE LinksInv'
<1>1. TypeOK'
    BY TypeMerge DEF LinksInv, MergeNext
<1> USE DEF LinksInv
<1>2. /\ UNCHANGED <<created, owner, kind, current, tid, executing, transport, live, place, todo, tool>>
      /\ tool = "merge" /\ prep[c] = "listen" /\ c \in Proc /\ c # Main
    BY DEF PrepareWorker, program, records, Proc
<1>3. \/ prep' = [prep EXCEPT ![c] = "ready"] /\ sock' = [sock EXCEPT ![c] = Closed(c, c)]
      \/ prep' = [prep EXCEPT ![c] = "gone"] /\ sock' = sock
    BY DEF PrepareWorker
<1>4. /\ prep'[c] \in {"ready", "gone"}
      /\ \A p \in Proc \ {c} : prep'[p] = prep[p] /\ sock'[p] = sock[p]
    BY <1>2, <1>3 DEF TypeOK
<1>5. \A p \in Proc, e \in End : sock'[p][e] # "none" => sock[p][e] # "none"
  <2>1. sock'[c] \in {Closed(c, c), sock[c]}
    BY <1>2, <1>3 DEF TypeOK
  <2> QED BY <2>1, <1>4 DEF Closed
<1>6. Main \in Proc /\ live \subseteq Proc
    BY DEF Proc, TypeOK
<1>7. SocketsAtHome' /\ Recorded'
    BY <1>2, <1>5, <1>6 DEF SocketsAtHome, Recorded
<1>8. AllStarted'
    BY <1>2 DEF BusyStarted, AllStarted
<1>9. BusyStarted' /\ Direction' /\ KindIsPlace'
    BY <1>2, <1>4, <1>6, <1>8 DEF BusyStarted, Direction, KindIsPlace, Changing, Proc
<1>10. ClosedBehind' /\ AfterSplit' /\ AfterMerge'
    BY <1>2, <1>4, <1>6 DEF ClosedBehind, AfterSplit, AfterMerge, Changing, Visited
<1> QED BY <1>1, <1>2, <1>7, <1>9, <1>10

\* Main makes its threads.
LEMMA InvPrepareMain == ASSUME LinksInv, PrepareMain PROVE LinksInv'
<1>1. TypeOK'
    BY TypeMerge DEF LinksInv, MergeNext
<1> USE DEF LinksInv
<1>2. /\ UNCHANGED <<created, owner, kind, current, transport, sock, live, place, todo, tool>>
      /\ tool = "merge" /\ prep[Main] = "listen" /\ prep' = [prep EXCEPT ![Main] = "made"]
      /\ tid' = [tid EXCEPT ![Main] = [v \in Vic |-> IF v \in Processes THEN v ELSE @[v]]]
      /\ executing' = [executing EXCEPT ![Main] = @ \cup Processes]
    BY DEF PrepareMain, program
<1>3. /\ prep'[Main] = "made" /\ executing'[Main] = executing[Main] \cup Processes
      /\ \A p \in Proc \ {Main} :
            prep'[p] = prep[p] /\ tid'[p] = tid[p] /\ executing'[p] = executing[p]
    BY <1>2 DEF TypeOK, Proc
<1>4. Main \in Proc /\ live \subseteq Proc /\ Processes \subseteq created
    BY DEF Proc, TypeOK, Processes
<1>5. SocketsAtHome' /\ Recorded'
    BY <1>2, <1>3, <1>4 DEF SocketsAtHome, Recorded
<1>6. AllStarted'
    BY <1>2 DEF BusyStarted, AllStarted
<1>7. BusyStarted' /\ Direction' /\ KindIsPlace'
    BY <1>2, <1>3, <1>4, <1>6 DEF BusyStarted, Direction, KindIsPlace, Changing, Proc
<1>8. ClosedBehind' /\ AfterSplit' /\ AfterMerge'
    BY <1>2, <1>3, <1>4 DEF ClosedBehind, AfterSplit, AfterMerge, Changing, Visited
<1> QED BY <1>1, <1>2, <1>5, <1>7, <1>8

\* Main is restored alone, with all flows.
LEMMA InvMerge == ASSUME LinksInv, Merge PROVE LinksInv'
<1>1. TypeOK'
    BY TypeMerge DEF LinksInv, MergeNext
<1> USE DEF LinksInv
<1>2. /\ UNCHANGED <<created, owner, kind, current, tid, executing>>
      /\ tool = "merge" /\ tool' = "idle" /\ prep[Main] = "made" /\ live' = {Main}
      /\ place' = [v \in Vic |-> IF v \in Processes THEN Main ELSE place[v]]
    BY DEF Merge, program, records
<1>3. /\ prep'[Main] = "convert" /\ todo'[Main] = created /\ sock'[Main] = sock[Main]
      /\ \A p \in Proc \ {Main} : prep'[p] = "listen"
    BY DEF Merge, Proc
<1>4. AllStarted /\ current[Main] = "process" /\ created \subseteq Vic
    BY <1>2 DEF BusyStarted, Direction, TypeOK
<1>5. \A v \in created : place'[v] = Main
  <2> SUFFICES ASSUME NEW v \in created, v \notin Processes PROVE place[v] = Main
    BY <1>2, <1>4
  <2>1. kind[Main][v] = "thread"
    BY <1>4 DEF Processes, Recorded, TypeOK, Proc
  <2> QED BY <2>1, <1>2, <1>4 DEF KindIsPlace, Changing, AllStarted
<1>6. SocketsAtHome'
    BY <1>2, <1>3, <1>5 DEF SocketsAtHome
<1>7. Recorded'
    BY <1>2, <1>4 DEF Recorded, Processes, AllStarted
<1>8. BusyStarted'
    BY <1>2, <1>4, <1>5 DEF BusyStarted, AllStarted, Proc
<1>9. Direction'
    BY <1>2, <1>3, <1>4 DEF Direction, Changing, Proc
<1>10. KindIsPlace' /\ ClosedBehind' /\ AfterSplit'
    BY <1>2, <1>3, <1>4 DEF KindIsPlace, ClosedBehind, AfterSplit, Changing
<1>11. AfterMerge'
    BY <1>2, <1>3, <1>5 DEF AfterMerge, Visited, Changing
<1> QED BY <1>1, <1>2, <1>6, <1>7, <1>8, <1>9, <1>10, <1>11

-----------------------------------------------------------------------------
\* A context is converted in one process.
LEMMA InvConvert == ASSUME LinksInv, NEW p \in Proc, NEW v \in Vic, Convert(p, v) PROVE LinksInv'
<1>1. TypeOK'
    BY TypeFinish DEF LinksInv, FinishNext
<1> USE DEF LinksInv
<1> DEFINE k == Other(current[p])
<1>2. /\ UNCHANGED <<created, owner, current, tid, executing, sock, live, place, prep, tool>>
      /\ p \in live /\ prep[p] = "convert" /\ v \in todo[p]
      /\ todo' = [todo EXCEPT ![p] = @ \ {v}]
    BY DEF Convert, program
<1>3. IF kind[p][v] = current[p] THEN kind' = [kind EXCEPT ![p][v] = k] ELSE kind' = kind
    BY DEF Convert
<1>4. kind[p] \in [Vic -> {"none", "thread", "process"}] /\ Main \in Proc /\ live \subseteq Proc
      /\ current[p] \in {"none", "thread", "process"} /\ k \in {"thread", "process"}
    BY DEF TypeOK, Proc, Other
<1>5. /\ kind'[p][v] = IF kind[p][v] = current[p] THEN k ELSE kind[p][v]
      /\ \A w \in Vic \ {v} : kind'[p][w] = kind[p][w]
      /\ \A q \in Proc \ {p} : kind'[q] = kind[q]
    BY <1>3, <1>4 DEF TypeOK
<1>6. todo'[p] = todo[p] \ {v} /\ \A q \in Proc \ {p} : todo'[q] = todo[q]
    BY <1>2 DEF TypeOK
<1>7. created \subseteq Vic
    BY DEF TypeOK
<1>8. SocketsAtHome' /\ BusyStarted' /\ Direction'
    BY <1>2 DEF SocketsAtHome, BusyStarted, Direction, Changing, AllStarted
<1>9. Recorded'
    BY <1>2, <1>4, <1>5, <1>7 DEF Recorded
<1>10. ClosedBehind'
    BY <1>2, <1>4, <1>6 DEF ClosedBehind
<1>11. KindIsPlace'
  <2>1. CASE p = Main
    BY <2>1, <1>2 DEF KindIsPlace, Changing
  <2>2. CASE p # Main
    BY <2>2, <1>2, <1>4, <1>5 DEF KindIsPlace, Changing
  <2> QED BY <2>1, <2>2
<1>12. AfterSplit'
  <2> SUFFICES ASSUME NEW q \in live, Changing(q), current[q] = "thread"
               PROVE  /\ \A w \in executing[q] : w \in created /\ tid[q][w] = w /\ place[w] = w
                      /\ \A w \in created : kind'[q][w] # "none"
                      /\ \A w \in created : Visited(q, w)' => kind'[q][w] = "process"
    BY <1>2 DEF AfterSplit, Changing
  <2>1. /\ \A w \in executing[q] : w \in created /\ tid[q][w] = w /\ place[w] = w
        /\ \A w \in created : kind[q][w] # "none"
        /\ \A w \in created : Visited(q, w) => kind[q][w] = "process"
    BY DEF AfterSplit
  <2>2. CASE q # p
    BY <2>1, <2>2, <1>2, <1>4, <1>5, <1>6 DEF Visited
  <2>3. CASE q = p
    <3>1. k = "process"
        BY <2>3 DEF Other
    <3>2. \A w \in created \ {v} : Visited(q, w)' => Visited(q, w)
        BY <2>3, <1>2, <1>6 DEF Visited
    <3>3. v \in created => kind'[p][v] = "process"
        BY <2>1, <2>3, <3>1, <1>4, <1>5
    <3> QED BY <2>1, <2>3, <3>2, <3>3, <1>5, <1>7
  <2> QED BY <2>2, <2>3
<1>13. AfterMerge'
  <2> SUFFICES ASSUME Changing(Main), current[Main] = "process", NEW w \in created
               PROVE  place[w] = Main /\ (Visited(Main, w)' => kind'[Main][w] = "thread")
    BY <1>2 DEF AfterMerge, Changing
  <2>1. place[w] = Main /\ (Visited(Main, w) => kind[Main][w] = "thread")
    BY DEF AfterMerge
  <2>2. CASE p # Main
    BY <2>1, <2>2, <1>2, <1>4, <1>5, <1>6 DEF Visited
  <2>3. CASE p = Main /\ w # v
    BY <2>1, <2>3, <1>2, <1>5, <1>6, <1>7 DEF Visited
  <2>4. CASE p = Main /\ w = v
    <3>1. k = "thread"
        BY <2>4 DEF Other
    <3>2. kind[Main][w] \in {"thread", "process"}
        BY <2>4, <1>4 DEF Recorded
    <3> QED BY <2>1, <2>4, <3>1, <3>2, <1>5
  <2> QED BY <2>2, <2>3, <2>4
<1> QED BY <1>1, <1>2, <1>8, <1>9, <1>10, <1>11, <1>12, <1>13

\* All contexts of a process are converted.
LEMMA InvConverted == ASSUME LinksInv, NEW p \in Proc, Converted(p) PROVE LinksInv'
<1>1. TypeOK'
    BY TypeFinish DEF LinksInv, FinishNext
<1> USE DEF LinksInv
<1>2. /\ UNCHANGED <<created, owner, kind, current, tid, executing, transport, sock, live, place, tool>>
      /\ p \in live /\ prep[p] = "convert" /\ todo[p] = {}
      /\ prep' = [prep EXCEPT ![p] = "reopen"] /\ todo' = [todo EXCEPT ![p] = created]
    BY DEF Converted, program, records
<1>3. /\ prep'[p] = "reopen"
      /\ \A q \in Proc \ {p} : prep'[q] = prep[q] /\ todo'[q] = todo[q]
    BY <1>2 DEF TypeOK
<1>4. Main \in Proc /\ Vic \subseteq Proc /\ live \subseteq Proc
    BY DEF TypeOK, Proc
<1>5. \A q \in Proc : Changing(q)' <=> Changing(q)
    BY <1>2, <1>3 DEF Changing
<1>6. \A q \in Proc, v \in Vic : Visited(q, v)' => Visited(q, v)
    BY <1>2, <1>3 DEF Visited
<1>7. AllStarted'
    BY <1>2 DEF BusyStarted, AllStarted
<1>8. SocketsAtHome' /\ Recorded' /\ BusyStarted' /\ KindIsPlace'
    BY <1>2, <1>4, <1>5, <1>7 DEF SocketsAtHome, Recorded, BusyStarted, KindIsPlace
<1>9. Direction' /\ ClosedBehind'
  <2>1. \A q \in Proc : prep'[q] # "reopen" => prep'[q] = prep[q] /\ todo'[q] = todo[q]
    BY <1>3
  <2> QED BY <1>2, <1>4, <1>5, <2>1 DEF Direction, ClosedBehind
<1>10. created \subseteq Vic
    BY DEF TypeOK
<1>11. AfterSplit' /\ AfterMerge'
    BY <1>2, <1>4, <1>5, <1>6, <1>10 DEF AfterSplit, AfterMerge
<1> QED BY <1>1, <1>2, <1>8, <1>9, <1>11

\* A process opens the sockets of flows that it runs.
LEMMA InvReopen == ASSUME LinksInv, NEW p \in Proc, NEW v \in Vic, Reopen(p, v) PROVE LinksInv'
<1>1. TypeOK'
    BY TypeFinish DEF LinksInv, FinishNext
<1> USE DEF LinksInv
<1>2. /\ UNCHANGED <<created, owner, kind, current, tid, executing, transport, live, place, prep, tool>>
      /\ p \in live /\ prep[p] = "reopen"
      /\ todo' = [todo EXCEPT ![p] = @ \ {v}]
      /\ sock' = IF Opens(p, v) THEN [sock EXCEPT ![p] = Opened(p, v)] ELSE sock
    BY DEF Reopen, program, records
<1>3. \A q \in Proc \ {p} : todo'[q] = todo[q] /\ sock'[q] = sock[q]
    BY <1>2 DEF TypeOK
<1>4. Main \in Proc /\ live \subseteq Proc /\ created \subseteq Vic
    BY DEF TypeOK, Proc
<1>5. Opens(p, v) => v \in created /\ place[v] = p
  <2> SUFFICES ASSUME Opens(p, v) PROVE v \in created /\ place[v] = p
    OBVIOUS
  <2>1. CASE current[p] = "thread"
    <3>1. v \in created /\ tid[p][v] = v /\ place[v] = v /\ kind[p][v] = "process"
        BY <2>1, <1>2 DEF AfterSplit, Changing, Visited, Opens
    <3> QED BY <2>1, <3>1 DEF Opens
  <2>2. CASE current[p] # "thread"
    <3>1. p = Main
        BY <2>2, <1>2 DEF Direction, Changing, Proc
    <3>2. v \in created
        BY <3>1 DEF Opens, Recorded
    <3>3. kind[Main][v] = "thread"
        BY <2>2, <3>1 DEF Opens
    <3>4. CASE current[Main] = "process"
        BY <3>1, <3>2, <3>4, <1>2 DEF AfterMerge, Changing
    <3>5. CASE current[Main] = "none"
        BY <3>1, <3>5, <1>2 DEF Direction, Changing
    <3> QED BY <2>2, <3>1, <3>4, <3>5 DEF TypeOK
  <2> QED BY <2>1, <2>2
<1>6. SocketsAtHome'
  <2> SUFFICES ASSUME NEW q \in live, NEW e \in End, sock'[q][e] # "none"
               PROVE  owner[e] \in created /\ place[owner[e]] = q
    BY <1>2 DEF SocketsAtHome
  <2>1. CASE q = p /\ Opens(p, v) /\ owner[e] = v
    BY <2>1, <1>5
  <2>2. CASE ~(q = p /\ Opens(p, v) /\ owner[e] = v)
    <3>1. sock[q][e] # "none"
        BY <2>2, <1>2, <1>3, <1>4 DEF Opened, TypeOK
    <3> QED BY <3>1 DEF SocketsAtHome
  <2> QED BY <2>1, <2>2
<1>7. Recorded' /\ BusyStarted' /\ Direction' /\ KindIsPlace'
    BY <1>2 DEF Recorded, BusyStarted, Direction, KindIsPlace, Changing, AllStarted
<1>8. ClosedBehind'
    BY <1>2, <1>3, <1>4 DEF ClosedBehind
<1>9. \A q \in Proc, w \in Vic : Visited(q, w)' => Visited(q, w)
    BY <1>2, <1>3 DEF Visited
<1>10. AfterSplit' /\ AfterMerge'
    BY <1>2, <1>4, <1>9 DEF AfterSplit, AfterMerge, Changing
<1> QED BY <1>1, <1>2, <1>6, <1>7, <1>8, <1>10

\* The end: from now on Main's records say again where flows run.
LEMMA InvFinish == ASSUME LinksInv, NEW p \in Proc, Finish(p) PROVE LinksInv'
<1>1. TypeOK'
    BY TypeFinish DEF LinksInv, FinishNext
<1> USE DEF LinksInv
<1>2. /\ UNCHANGED <<created, owner, kind, tid, executing, transport, sock, live, place, todo, tool>>
      /\ p \in live /\ prep[p] = "reopen"
      /\ prep' = [prep EXCEPT ![p] = "listen"]
      /\ current' = [current EXCEPT ![p] = Other(@)]
    BY DEF Finish, program
<1>3. /\ prep'[p] = "listen"
      /\ \A q \in Proc \ {p} : prep'[q] = prep[q] /\ current'[q] = current[q]
    BY <1>2 DEF TypeOK
<1>4. Main \in Proc /\ Vic \subseteq Proc /\ live \subseteq Proc /\ created \subseteq Vic
    BY DEF TypeOK, Proc
<1>5. AllStarted'
    BY <1>2 DEF BusyStarted, AllStarted
<1>6. SocketsAtHome' /\ Recorded' /\ BusyStarted'
    BY <1>2, <1>5 DEF SocketsAtHome, Recorded, BusyStarted
<1>7. p = Main => tool # "merge"
    BY <1>2 DEF Direction
<1>8. Direction'
    BY <1>2, <1>3, <1>4, <1>7 DEF Direction, Changing
<1>9. KindIsPlace'
  <2>1. CASE p # Main
    BY <2>1, <1>2, <1>3, <1>4 DEF KindIsPlace, Changing
  <2>2. CASE p = Main /\ current[Main] = "process"
    BY <2>2, <1>2 DEF KindIsPlace, AfterMerge, Changing, Visited
  <2>3. CASE p = Main /\ current[Main] = "thread"
    <3>1. \A v \in created : v \in executing[Main]
        BY <1>2 DEF Recorded, BusyStarted, AllStarted
    <3>2. \A v \in created : place[v] = v /\ kind[Main][v] = "process"
        BY <2>3, <3>1, <1>2 DEF AfterSplit, Changing, Visited
    <3> QED BY <3>2, <1>2, <1>4 DEF KindIsPlace
  <2> QED BY <2>1, <2>2, <2>3, <1>2 DEF Direction, Changing, TypeOK, Proc
<1>10. ClosedBehind' /\ AfterSplit' /\ AfterMerge'
    BY <1>2, <1>3, <1>4 DEF ClosedBehind, AfterSplit, AfterMerge, Changing, Visited
<1> QED BY <1>1, <1>2, <1>6, <1>8, <1>9, <1>10

-----------------------------------------------------------------------------
\* The invariant is inductive.
LEMMA LinksInductive == Spec => []LinksInv
<1>1. Init => LinksInv
  <2> SUFFICES ASSUME Init PROVE LinksInv
    OBVIOUS
  <2>1. TypeOK
    BY DEF Init, TypeOK, Proc
  <2> QED BY <2>1 DEF Init, LinksInv, SocketsAtHome, Recorded, BusyStarted, Direction, KindIsPlace,
                ClosedBehind, AfterSplit, AfterMerge, Changing, Proc
<1>2. LinksInv /\ [Next]_vars => LinksInv'
  <2> SUFFICES ASSUME LinksInv, [Next]_vars PROVE LinksInv'
    OBVIOUS
  <2>1. CASE ProgramNext
    BY <2>1, InvBuild, InvStartThread, InvStartProcess DEF ProgramNext
  <2>2. CASE SplitNext
    BY <2>2, InvRunSplit, InvDisconnect, InvSplit DEF SplitNext
  <2>3. CASE MergeNext
    BY <2>3, InvRunMerge, InvPrepareWorker, InvPrepareMain, InvMerge DEF MergeNext
  <2>4. CASE FinishNext
    BY <2>4, InvConvert, InvConverted, InvReopen, InvFinish DEF FinishNext
  <2>5. CASE UNCHANGED vars
    BY <2>5 DEF vars, program, records, LinksInv, TypeOK, SocketsAtHome, Recorded, BusyStarted,
            Direction, KindIsPlace, ClosedBehind, AfterSplit, AfterMerge, Changing, Visited, AllStarted
  <2> QED BY <2>1, <2>2, <2>3, <2>4, <2>5 DEF Next
<1> QED BY <1>1, <1>2, PTL DEF Spec

\* In programs of one kind or both, through any number of splits and merges, a
\* socket is open only in the process that runs its context's flow.
THEOREM SocketsStayHome == Spec => []SocketsAtHome
BY LinksInductive, PTL DEF LinksInv
-----------------------------------------------------------------------------
(* Programs whose contexts are all of one kind.                            *)

\* Both ends of a link have an owner, or none.
Owned ==
    /\ \A e \in End : owner[e] # None => owner[e] \in created
    /\ \A n \in Name : owner[<<n, "connect">>] # None => owner[<<n, "bind">>] # None

\* In every process the contexts are of the current kind or, once the loop that
\* converts has visited them, of the other.
OneKind ==
    \A p \in live, v \in created :
        kind[p][v] = IF Changing(p) /\ Visited(p, v) THEN Other(current[p]) ELSE current[p]

\* A record's transport is the one for its context's kind.
RecordsFit ==
    \A p \in live, e \in End :
        owner[e] \in created =>
            transport[p][e] = TransportFor(kind[p][owner[e]], kind[p][owner[e]])

\* An end is closed until its context is visited by the loop that opens ...
ClosedAhead ==
    \A p \in live, e \in End :
        Changing(p) /\ (prep[p] = "convert" \/ owner[e] \in todo[p]) => sock[p][e] = "none"

\* ... and then, where its flow runs, it is open as its record says.
OpenFits ==
    \A p \in live, e \in End :
        /\ owner[e] \in created /\ place[owner[e]] = p
        /\ prep[p] = "listen" \/ (prep[p] = "reopen" /\ owner[e] \notin todo[p])
        => sock[p][e] = transport[p][e]

\* Flows run in processes that exist; a child that is not being changed is one
\* that can be merged.
ChildState ==
    /\ \A v \in created : place[v] # None => place[v] \in live
    /\ \A p \in live : Changing(p) => created \subseteq executing[p]
    /\ \A c \in Vic : prep[c] \notin {"close", "made"}
    /\ \A c \in Vic \cap live :
        place[c] # None /\ (~Changing(c) => current[c] = "process")

UniformInv == Owned /\ OneKind /\ RecordsFit /\ ClosedAhead /\ OpenFits /\ ChildState

\* While contexts are created and linked there is one process and no flow.
LEMMA BuildAlone ==
    ASSUME LinksInv, UniformInv, \A w \in created : place[w] = None
    PROVE  live = {Main} /\ \A w \in Vic : place[w] = None
<1>1. \A w \in Vic : place[w] = None
    BY DEF LinksInv, Recorded
<1> QED BY <1>1 DEF LinksInv, UniformInv, ChildState, TypeOK, Proc

\* A new context has the kind that all others have.
LEMMA UniformCreate ==
    ASSUME ~Mixed, LinksInv, UniformInv, NEW v \in Vic, NEW k \in {"thread", "process"}, Create(v, k)
    PROVE  UniformInv'
<1>1. ProgramNext
    BY DEF ProgramNext
<1> USE DEF LinksInv, TypeOK
<1>2. /\ UNCHANGED <<owner, tid, executing, transport, sock, live, place, prep, todo, tool>>
      /\ v \notin created /\ created' = created \cup {v}
      /\ \A w \in created : place[w] = None /\ kind[Main][w] = k
      /\ kind' = [kind EXCEPT ![Main][v] = k] /\ current' = [current EXCEPT ![Main] = k]
    BY DEF Create
<1>3. live = {Main} /\ (\A w \in Vic : place[w] = None) /\ Main \in Proc
    BY <1>2, BuildAlone DEF Proc
<1>4. prep[Main] = "listen"
    BY <1>1, <1>3, ProgramIdle
<1>5. /\ kind'[Main][v] = k /\ current'[Main] = k
      /\ \A w \in Vic \ {v} : kind'[Main][w] = kind[Main][w]
    BY <1>2, <1>3
<1>6. Owned'
    BY <1>2 DEF UniformInv, Owned
<1>7. OneKind'
    BY <1>2, <1>3, <1>4, <1>5 DEF OneKind, Changing
<1>8. RecordsFit'
  <2>1. \A e \in End : owner[e] \in created' => owner[e] \in created
    BY <1>2, <1>6 DEF UniformInv, Owned
  <2> QED BY <2>1, <1>2, <1>3, <1>5 DEF UniformInv, RecordsFit
<1>9. ClosedAhead' /\ OpenFits'
  <2>1. \A e \in End : owner[e] \in created' => place[owner[e]] = None
    BY <1>2, <1>3
  <2> QED BY <2>1, <1>2, <1>3, <1>4 DEF ClosedAhead, OpenFits, Changing, Proc
<1>10. ChildState'
    BY <1>2, <1>3, <1>4 DEF UniformInv, ChildState, Changing
<1> QED BY <1>6, <1>7, <1>8, <1>9, <1>10 DEF UniformInv

\* A new link has the transport of its contexts' kind.
LEMMA UniformLink ==
    ASSUME LinksInv, UniformInv, NEW v \in Vic, NEW w \in Vic, NEW n \in Name, Link(v, w, n)
    PROVE  UniformInv'
<1>1. ProgramNext
    BY DEF ProgramNext
<1> USE DEF LinksInv, TypeOK
<1> DEFINE t == TransportFor(kind[Main][v], kind[Main][w])
<1>2. /\ UNCHANGED <<created, kind, current, tid, executing, sock, live, place, prep, todo, tool>>
      /\ v \in created /\ w \in created /\ \A x \in created : place[x] = None
      /\ owner' = [owner EXCEPT ![<<n, "connect">>] = v, ![<<n, "bind">>] = w]
      /\ transport' = [transport EXCEPT ![Main] = [e \in End |-> IF e[1] = n THEN t ELSE @[e]]]
    BY DEF Link
<1>3. live = {Main} /\ (\A x \in Vic : place[x] = None) /\ Main \in Proc
    BY <1>2, BuildAlone DEF Proc
<1>4. prep[Main] = "listen"
    BY <1>1, <1>3, ProgramIdle
<1>5. /\ <<n, "connect">> \in End /\ <<n, "bind">> \in End
      /\ owner'[<<n, "connect">>] = v /\ owner'[<<n, "bind">>] = w
      /\ \A e \in End : e # <<n, "connect">> /\ e # <<n, "bind">> => owner'[e] = owner[e] /\ e[1] # n
    BY <1>2 DEF End
<1>6. \A e \in End : transport'[Main][e] = IF e[1] = n THEN t ELSE transport[Main][e]
    BY <1>2, <1>3
<1>7. Owned'
  <2>1. \A e \in End : owner'[e] # None => owner'[e] \in created
    BY <1>2, <1>5 DEF UniformInv, Owned
  <2>2. ASSUME NEW m \in Name, owner'[<<m, "connect">>] # None PROVE owner'[<<m, "bind">>] # None
    <3>1. <<m, "connect">> \in End /\ <<m, "bind">> \in End
        BY DEF End
    <3>2. CASE m = n
        BY <3>2, <1>5
    <3>3. CASE m # n
        BY <3>1, <3>3, <2>2, <1>5 DEF UniformInv, Owned
    <3> QED BY <3>2, <3>3
  <2> QED BY <2>1, <2>2, <1>2 DEF Owned
<1>8. kind[Main][v] = kind[Main][w]
    BY <1>2, <1>3, <1>4 DEF UniformInv, OneKind, Changing
<1>9. OneKind'
    BY <1>2, <1>3 DEF UniformInv, OneKind, Changing, Visited
<1>10. RecordsFit'
  <2>1. transport'[Main][<<n, "connect">>] = t /\ transport'[Main][<<n, "bind">>] = t
    BY <1>5, <1>6
  <2>2. ASSUME NEW e \in End, owner'[e] \in created
        PROVE  transport'[Main][e] = TransportFor(kind[Main][owner'[e]], kind[Main][owner'[e]])
    <3>1. CASE e = <<n, "connect">>
        BY <3>1, <2>1, <1>5, <1>8
    <3>2. CASE e = <<n, "bind">>
        BY <3>2, <2>1, <1>5, <1>8
    <3>3. CASE e # <<n, "connect">> /\ e # <<n, "bind">>
        BY <2>2, <3>3, <1>3, <1>5, <1>6 DEF UniformInv, RecordsFit
    <3> QED BY <3>1, <3>2, <3>3
  <2> QED BY <2>2, <1>2, <1>3 DEF RecordsFit
<1>11. ClosedAhead' /\ OpenFits'
  <2>1. \A e \in End : owner'[e] \in created => place[owner'[e]] = None
    BY <1>3
  <2> QED BY <2>1, <1>2, <1>3, <1>4 DEF ClosedAhead, OpenFits, Changing, Proc
<1>12. ChildState'
    BY <1>2, <1>3, <1>4 DEF UniformInv, ChildState, Changing
<1> QED BY <1>7, <1>9, <1>10, <1>11, <1>12 DEF UniformInv

\* A thread's sockets open as its records say: they were closed.
LEMMA UniformStartThread ==
    ASSUME LinksInv, UniformInv, NEW v \in Vic, StartThread(v) PROVE UniformInv'
<1>1. ProgramNext
    BY DEF ProgramNext
<1>2. \A p \in Proc : prep[p] = "listen"
    BY <1>1, ProgramIdle
<1> USE DEF LinksInv, TypeOK
<1>3. /\ UNCHANGED <<created, owner, kind, current, transport, live, prep, todo, tool>>
      /\ v \in created /\ place[v] = None
      /\ place' = [place EXCEPT ![v] = Main] /\ sock' = [sock EXCEPT ![Main] = Opened(Main, v)]
    BY DEF StartThread, program
<1>4. Main \in Proc /\ Main \in live /\ live \subseteq Proc /\ Main # None
    BY DEF Proc
<1>5. sock'[Main] = Opened(Main, v) /\ \A p \in Proc \ {Main} : sock'[p] = sock[p]
    BY <1>3, <1>4
<1>6. \A e \in End : owner[e] = v => sock'[Main][e] = transport[Main][e]
  <2> SUFFICES ASSUME NEW e \in End, owner[e] = v PROVE sock'[Main][e] = transport[Main][e]
    OBVIOUS
  <2>1. sock[Main][e] = "none"
    BY <1>3, <1>4 DEF SocketsAtHome
  <2> QED BY <2>1, <1>5 DEF Opened
<1>7. \A e \in End : owner[e] # v => sock'[Main][e] = sock[Main][e]
    BY <1>5 DEF Opened
<1>8. Owned' /\ OneKind' /\ RecordsFit'
    BY <1>3 DEF UniformInv, Owned, OneKind, RecordsFit, Changing, Visited
<1>9. ClosedAhead'
    BY <1>2, <1>3, <1>4 DEF ClosedAhead, Changing
<1>10. OpenFits'
  <2> SUFFICES ASSUME NEW p \in live, NEW e \in End, owner[e] \in created, place'[owner[e]] = p
               PROVE  sock'[p][e] = transport[p][e]
    BY <1>3 DEF OpenFits
  <2>1. CASE owner[e] = v
    BY <2>1, <1>3, <1>6
  <2>2. CASE owner[e] # v
    BY <2>2, <1>2, <1>3, <1>4, <1>5, <1>7 DEF UniformInv, OpenFits
  <2> QED BY <2>1, <2>2
<1>11. ChildState'
    BY <1>2, <1>3, <1>4 DEF UniformInv, ChildState, Changing
<1> QED BY <1>8, <1>9, <1>10, <1>11 DEF UniformInv

\* A child has Main's records and its own sockets.
LEMMA UniformStartProcess ==
    ASSUME LinksInv, UniformInv, NEW v \in Vic, StartProcess(v) PROVE UniformInv'
<1>1. ProgramNext
    BY DEF ProgramNext
<1>2. \A p \in Proc : prep[p] = "listen"
    BY <1>1, ProgramIdle
<1> USE DEF LinksInv, TypeOK
<1>3. /\ UNCHANGED <<created, owner, prep, todo, tool>>
      /\ v \in created /\ place[v] = None /\ kind[Main][v] = "process"
      /\ place' = [place EXCEPT ![v] = v] /\ live' = live \cup {v}
    BY DEF StartProcess, program
<1>4. Main \in Proc /\ Main \in live /\ live \subseteq Proc /\ v \in Proc /\ v # None /\ v # Main
    BY DEF Proc
<1>5. /\ kind'[v] = kind[Main] /\ current'[v] = current[Main] /\ transport'[v] = transport[Main]
      /\ \A p \in Proc \ {v} :
            /\ kind'[p] = kind[p] /\ current'[p] = current[p] /\ transport'[p] = transport[p]
            /\ sock'[p] = sock[p]
      /\ \A e \in End : owner[e] = v => sock'[v][e] = transport[Main][e]
    BY <1>4 DEF StartProcess, Copied
<1>6. current[Main] = "process"
    BY <1>2, <1>3, <1>4 DEF UniformInv, OneKind, Changing
<1>7. \A p \in live', w \in created :
            kind'[p][w] = current'[p] /\ ~Changing(p)'
    BY <1>2, <1>3, <1>4, <1>5 DEF UniformInv, OneKind, Changing
<1>8. Owned' /\ OneKind'
    BY <1>3, <1>7 DEF UniformInv, Owned, OneKind
<1>9. RecordsFit'
    BY <1>3, <1>4, <1>5 DEF UniformInv, RecordsFit
<1>10. ClosedAhead'
    BY <1>2, <1>3, <1>4 DEF ClosedAhead, Changing
<1>11. OpenFits'
  <2> SUFFICES ASSUME NEW p \in live', NEW e \in End, owner[e] \in created, place'[owner[e]] = p
               PROVE  sock'[p][e] = transport'[p][e]
    BY <1>3 DEF OpenFits
  <2>1. CASE owner[e] = v
    BY <2>1, <1>3, <1>5
  <2>2. CASE owner[e] # v
    <3>1. place[owner[e]] = p
        BY <2>2, <1>3
    <3>2. p # v
      <4>1. CASE v \in live
        BY <4>1, <1>3 DEF UniformInv, ChildState
      <4>2. CASE v \notin live
        BY <3>1, <4>2, <1>3, <1>4 DEF UniformInv, ChildState
      <4> QED BY <4>1, <4>2
    <3> QED BY <3>1, <3>2, <1>2, <1>3, <1>4, <1>5 DEF UniformInv, OpenFits
  <2> QED BY <2>1, <2>2
<1>12. ChildState'
  <2>1. \A w \in created : place'[w] # None => place'[w] \in live'
    BY <1>3 DEF UniformInv, ChildState
  <2>2. ASSUME NEW c \in Vic \cap live' PROVE place'[c] # None /\ current'[c] = "process"
    <3>1. CASE c = v
        BY <3>1, <1>3, <1>4, <1>5, <1>6
    <3>2. CASE c # v
      <4>1. c \in live /\ c \in Proc /\ ~Changing(c)
        BY <3>2, <1>2, <1>3, <1>4 DEF Changing
      <4>2. place[c] # None /\ current[c] = "process"
        BY <4>1 DEF UniformInv, ChildState
      <4> QED BY <3>2, <4>1, <4>2, <1>3, <1>5
    <3> QED BY <3>1, <3>2
  <2>3. \A p \in live' : ~Changing(p)'
    BY <1>2, <1>3, <1>4 DEF Changing
  <2> QED BY <2>1, <2>2, <2>3, <1>3 DEF UniformInv, ChildState
<1> QED BY <1>8, <1>9, <1>10, <1>11, <1>12 DEF UniformInv

-----------------------------------------------------------------------------
\* The split begins.
LEMMA UniformRunSplit == ASSUME LinksInv, UniformInv, RunSplit PROVE UniformInv'
<1> USE DEF LinksInv, TypeOK
<1>1. /\ UNCHANGED <<created, owner, kind, current, tid, executing, transport, sock, live, place>>
      /\ prep[Main] = "listen" /\ prep' = [prep EXCEPT ![Main] = "close"]
      /\ todo' = [todo EXCEPT ![Main] = created]
    BY DEF RunSplit, program, records
<1>2. /\ prep'[Main] = "close" /\ Main \notin Vic /\ Main \in Proc /\ live \subseteq Proc /\ Vic \subseteq Proc
      /\ \A p \in Proc \ {Main} : prep'[p] = prep[p] /\ todo'[p] = todo[p]
    BY <1>1 DEF Proc
<1>3. Owned' /\ OneKind' /\ RecordsFit'
    BY <1>1, <1>2 DEF UniformInv, Owned, OneKind, RecordsFit, Changing, Visited
<1>4. ClosedAhead' /\ OpenFits'
    BY <1>1, <1>2 DEF UniformInv, ClosedAhead, OpenFits, Changing
<1>5. ChildState'
    BY <1>1, <1>2 DEF UniformInv, ChildState, Changing
<1> QED BY <1>3, <1>4, <1>5 DEF UniformInv

\* Main's sockets are closed while nothing is said of them.
LEMMA UniformDisconnect ==
    ASSUME LinksInv, UniformInv, NEW v \in Vic, Disconnect(v) PROVE UniformInv'
<1> USE DEF LinksInv, TypeOK
<1>1. /\ UNCHANGED <<created, owner, kind, current, tid, executing, transport, live, place, prep>>
      /\ prep[Main] = "close" /\ Main \in Proc /\ live \subseteq Proc
      /\ todo' = [todo EXCEPT ![Main] = @ \ {v}]
    BY DEF Disconnect, program, records, Proc
<1>2. \A p \in Proc \ {Main} : sock'[p] = sock[p] /\ todo'[p] = todo[p]
    BY <1>1 DEF Disconnect
<1>3. Owned' /\ OneKind' /\ RecordsFit' /\ ChildState'
    BY <1>1, <1>2 DEF UniformInv, Owned, OneKind, RecordsFit, ChildState, Changing, Visited
<1>4. ClosedAhead' /\ OpenFits'
    BY <1>1, <1>2 DEF UniformInv, ClosedAhead, OpenFits, Changing
<1> QED BY <1>3, <1>4 DEF UniformInv

\* Every process restored has Main's contexts, all threads yet, and no socket.
LEMMA UniformSplit == ASSUME LinksInv, UniformInv, Split PROVE UniformInv'
<1> USE DEF LinksInv, TypeOK
<1>1. /\ UNCHANGED <<created, owner>> /\ tool = "split"
      /\ prep[Main] = "close" /\ todo[Main] = {}
      /\ live = {Main} /\ live' = {Main} \cup executing[Main]
      /\ place' = [v \in Vic |-> IF v \in executing[Main] THEN v ELSE place[v]]
    BY DEF Split, program
<1>2. Main \in Proc /\ Vic \subseteq Proc /\ created \subseteq Vic /\ executing[Main] = created
  <2>1. \A v \in created : v \in executing[Main]
    BY <1>1 DEF Recorded, BusyStarted, AllStarted
  <2> QED BY <2>1 DEF Recorded, Proc
<1>3. \A p \in live' : /\ kind'[p] = kind[Main] /\ current'[p] = current[Main]
                       /\ executing'[p] = executing[Main]
                       /\ transport'[p] = transport[Main] /\ sock'[p] = sock[Main]
                       /\ prep'[p] = "convert" /\ todo'[p] = created
    BY <1>1, <1>2 DEF Split, Copied
<1>4. \A p \in Proc \ live' : prep'[p] = prep[p]
    BY DEF Split
<1>5. \A v \in created : kind[Main][v] = current[Main]
    BY <1>1 DEF UniformInv, OneKind, Changing
<1>6. Owned'
    BY <1>1 DEF UniformInv, Owned
<1>7. OneKind'
    BY <1>1, <1>3, <1>5 DEF OneKind, Changing, Visited
<1>8. RecordsFit'
    BY <1>1, <1>3 DEF UniformInv, RecordsFit
<1>9. ClosedAhead'
  <2>1. \A e \in End : sock[Main][e] = "none"
    BY <1>1 DEF ClosedBehind
  <2> QED BY <2>1, <1>3 DEF ClosedAhead
<1>10. OpenFits'
    BY <1>3 DEF OpenFits
<1>11. ChildState'
  <2>1. \A v \in created' : place'[v] \in live'
    BY <1>1, <1>2
  <2>2. \A p \in live' : created' \subseteq executing'[p] /\ Changing(p)'
    BY <1>1, <1>2, <1>3 DEF Changing
  <2>3. \A c \in Vic : prep'[c] \notin {"close", "made"}
    BY <1>2, <1>3, <1>4 DEF UniformInv, ChildState
  <2>4. \A c \in Vic \cap live' : place'[c] # None
    BY <1>1, <1>2
  <2> QED BY <2>1, <2>2, <2>3, <2>4 DEF ChildState
<1> QED BY <1>6, <1>7, <1>8, <1>9, <1>10, <1>11 DEF UniformInv

-----------------------------------------------------------------------------
\* The merge begins.
LEMMA UniformRunMerge == ASSUME UniformInv, RunMerge PROVE UniformInv'
<1>1. UNCHANGED <<created, owner, kind, current, tid, executing, transport, sock, live, place, prep, todo>>
    BY DEF RunMerge, program, records
<1>2. Owned' /\ OneKind' /\ RecordsFit'
    BY <1>1 DEF UniformInv, Owned, OneKind, RecordsFit, Changing, Visited
<1>3. ClosedAhead' /\ OpenFits' /\ ChildState'
    BY <1>1 DEF UniformInv, ClosedAhead, OpenFits, ChildState, Changing
<1> QED BY <1>2, <1>3 DEF UniformInv

\* A child that has closed its sockets does not listen any more.
LEMMA UniformPrepareWorker ==
    ASSUME LinksInv, UniformInv, NEW c \in Vic, PrepareWorker(c) PROVE UniformInv'
<1> USE DEF LinksInv, TypeOK
<1>1. /\ UNCHANGED <<created, owner, kind, current, tid, executing, transport, live, place, todo>>
      /\ prep[c] = "listen" /\ current[c] = "process" /\ c \in Proc /\ live \subseteq Proc /\ Vic \subseteq Proc
    BY DEF PrepareWorker, program, records, Proc
<1>2. \/ prep' = [prep EXCEPT ![c] = "ready"] /\ sock' = [sock EXCEPT ![c] = Closed(c, c)]
      \/ prep' = [prep EXCEPT ![c] = "gone"] /\ sock' = sock
    BY DEF PrepareWorker
<1>3. /\ prep'[c] \in {"ready", "gone"}
      /\ \A p \in Proc \ {c} : prep'[p] = prep[p] /\ sock'[p] = sock[p]
    BY <1>1, <1>2
<1>4. Owned' /\ OneKind' /\ RecordsFit'
    BY <1>1, <1>3 DEF UniformInv, Owned, OneKind, RecordsFit, Changing, Visited
<1>5. ClosedAhead' /\ OpenFits'
  <2>1. \A p \in live : prep'[p] \in {"listen", "convert", "reopen"} =>
            prep'[p] = prep[p] /\ sock'[p] = sock[p]
    BY <1>1, <1>3
  <2>2. ClosedAhead'
    BY <2>1, <1>1 DEF UniformInv, ClosedAhead, Changing
  <2>3. OpenFits'
    BY <2>1, <1>1 DEF UniformInv, OpenFits
  <2> QED BY <2>2, <2>3
<1>6. ChildState'
    BY <1>1, <1>3 DEF UniformInv, ChildState, Changing
<1> QED BY <1>4, <1>5, <1>6 DEF UniformInv

\* Main makes its threads.
LEMMA UniformPrepareMain == ASSUME LinksInv, UniformInv, PrepareMain PROVE UniformInv'
<1> USE DEF LinksInv, TypeOK
<1>1. /\ UNCHANGED <<created, owner, kind, current, transport, sock, live, place, todo>>
      /\ prep[Main] = "listen" /\ prep' = [prep EXCEPT ![Main] = "made"]
      /\ executing' = [executing EXCEPT ![Main] = @ \cup Processes]
      /\ Main \in Proc /\ Main \notin Vic /\ live \subseteq Proc /\ Vic \subseteq Proc
    BY DEF PrepareMain, program, Proc
<1>2. /\ prep'[Main] = "made"
      /\ \A p \in Proc \ {Main} : prep'[p] = prep[p] /\ executing'[p] = executing[p]
    BY <1>1
<1>3. Owned' /\ OneKind' /\ RecordsFit'
    BY <1>1, <1>2 DEF UniformInv, Owned, OneKind, RecordsFit, Changing, Visited
<1>4. ClosedAhead' /\ OpenFits'
    BY <1>1, <1>2 DEF UniformInv, ClosedAhead, OpenFits, Changing
<1>5. ChildState'
    BY <1>1, <1>2 DEF UniformInv, ChildState, Changing
<1> QED BY <1>3, <1>4, <1>5 DEF UniformInv

\* Main has had no socket of a flow: every context is a process.
LEMMA UniformMerge == ASSUME LinksInv, UniformInv, Merge PROVE UniformInv'
<1> USE DEF LinksInv, TypeOK
<1>1. /\ UNCHANGED <<created, owner, kind, current, tid, executing, transport>>
      /\ tool = "merge" /\ prep[Main] = "made" /\ live' = {Main}
      /\ place' = [v \in Vic |-> IF v \in Processes THEN Main ELSE place[v]]
    BY DEF Merge, program, records
<1>2. /\ prep'[Main] = "convert" /\ todo'[Main] = created /\ sock'[Main] = sock[Main]
      /\ \A p \in Proc \ {Main} : prep'[p] = "listen"
    BY DEF Merge, Proc
<1>3. Main \in Proc /\ Main \notin Vic /\ created \subseteq Vic /\ AllStarted /\ current[Main] = "process"
    BY <1>1 DEF BusyStarted, Direction, Proc
<1>4. \A v \in created : kind[Main][v] = "process" /\ v \in Processes
    BY <1>1, <1>3 DEF UniformInv, OneKind, Changing, Processes
<1>5. Owned' /\ RecordsFit'
    BY <1>1 DEF UniformInv, Owned, RecordsFit
<1>6. OneKind'
    BY <1>1, <1>2, <1>3, <1>4 DEF OneKind, Changing, Visited
<1>7. ClosedAhead'
  <2> SUFFICES ASSUME NEW e \in End, sock[Main][e] # "none" PROVE FALSE
    BY <1>1, <1>2 DEF ClosedAhead
  <2>1. owner[e] \in created /\ place[owner[e]] = Main
    BY DEF SocketsAtHome
  <2>2. kind[Main][owner[e]] = "thread"
    BY <2>1, <1>1, <1>3 DEF KindIsPlace, Changing, Proc
  <2> QED BY <2>1, <2>2, <1>4
<1>8. OpenFits'
    BY <1>1, <1>2 DEF OpenFits
<1>9. ChildState'
  <2>1. \A v \in created : v \in executing[Main]
    BY <1>3 DEF Recorded, AllStarted
  <2>2. \A v \in created : place'[v] = Main
    BY <1>1, <1>3, <1>4
  <2>3. \A c \in Vic : prep'[c] = "listen" /\ c \notin live'
    BY <1>1, <1>2, <1>3 DEF Proc
  <2> QED BY <2>1, <2>2, <2>3, <1>1 DEF ChildState
<1> QED BY <1>5, <1>6, <1>7, <1>8, <1>9 DEF UniformInv

-----------------------------------------------------------------------------
\* A context is converted, and its records with it.
LEMMA UniformConvert ==
    ASSUME LinksInv, UniformInv, NEW p \in Proc, NEW v \in Vic, Convert(p, v) PROVE UniformInv'
<1> USE DEF LinksInv, TypeOK
<1> DEFINE k == Other(current[p])
<1>1. /\ UNCHANGED <<created, owner, current, tid, executing, sock, live, place, prep, tool>>
      /\ p \in live /\ prep[p] = "convert" /\ v \in todo[p] /\ created \subseteq Vic /\ live \subseteq Proc
      /\ todo' = [todo EXCEPT ![p] = @ \ {v}]
    BY DEF Convert, program
<1>2. /\ todo'[p] = todo[p] \ {v}
      /\ \A q \in Proc \ {p} :
            todo'[q] = todo[q] /\ kind'[q] = kind[q] /\ transport'[q] = transport[q]
    BY <1>1 DEF Convert
<1>3. v \in created => kind[p][v] = current[p]
    BY <1>1 DEF UniformInv, OneKind, Visited
<1>4. v \in created => kind'[p][v] = k /\ transport'[p] = Reinited(p, v, k)
  <2> SUFFICES ASSUME v \in created PROVE kind'[p][v] = k /\ transport'[p] = Reinited(p, v, k)
    OBVIOUS
  <2>1. kind' = [kind EXCEPT ![p][v] = k] /\ transport' = [transport EXCEPT ![p] = Reinited(p, v, k)]
    BY <1>3 DEF Convert
  <2> QED BY <2>1
<1>5. \A w \in created : w # v => kind'[p][w] = kind[p][w]
  <2>1. kind' = [kind EXCEPT ![p][v] = k] \/ kind' = kind
    BY DEF Convert
  <2> QED BY <2>1, <1>1
<1>6. \A e \in End : owner[e] # v => transport'[p][e] = transport[p][e]
  <2>1. transport' = [transport EXCEPT ![p] = Reinited(p, v, k)] \/ transport' = transport
    BY DEF Convert
  <2> QED BY <2>1 DEF Reinited
<1>7. \A e \in End : owner[e] = v /\ v \in created => transport'[p][e] = TransportFor(k, k)
    BY <1>4 DEF Reinited
<1>8. Owned'
    BY <1>1 DEF UniformInv, Owned
<1>9. OneKind'
  <2> SUFFICES ASSUME NEW q \in live, NEW w \in created
               PROVE  kind'[q][w] = IF Changing(q)' /\ Visited(q, w)' THEN Other(current[q]) ELSE current[q]
    BY <1>1 DEF OneKind
  <2>1. CASE q # p
    BY <2>1, <1>1, <1>2 DEF UniformInv, OneKind, Changing, Visited
  <2>2. CASE q = p /\ w # v
    BY <2>2, <1>1, <1>2, <1>5 DEF UniformInv, OneKind, Changing, Visited
  <2>3. CASE q = p /\ w = v
    BY <2>3, <1>1, <1>2, <1>4 DEF Changing, Visited
  <2> QED BY <2>1, <2>2, <2>3
<1>10. RecordsFit'
  <2> SUFFICES ASSUME NEW q \in live, NEW e \in End, owner[e] \in created
               PROVE  transport'[q][e] = TransportFor(kind'[q][owner[e]], kind'[q][owner[e]])
    BY <1>1 DEF RecordsFit
  <2>1. CASE q # p
    BY <2>1, <1>1, <1>2 DEF UniformInv, RecordsFit
  <2>2. CASE q = p /\ owner[e] # v
    BY <2>2, <1>5, <1>6 DEF UniformInv, RecordsFit
  <2>3. CASE q = p /\ owner[e] = v
    BY <2>3, <1>4, <1>7
  <2> QED BY <2>1, <2>2, <2>3
<1>11. ClosedAhead' /\ OpenFits'
  <2>1. \A q \in live : q = p \/ (todo'[q] = todo[q] /\ transport'[q] = transport[q])
    BY <1>1, <1>2
  <2>2. ClosedAhead'
    BY <2>1, <1>1 DEF UniformInv, ClosedAhead, Changing
  <2>3. OpenFits'
    BY <2>1, <1>1 DEF UniformInv, OpenFits
  <2> QED BY <2>2, <2>3
<1>12. ChildState'
    BY <1>1 DEF UniformInv, ChildState, Changing
<1> QED BY <1>8, <1>9, <1>10, <1>11, <1>12 DEF UniformInv

\* All are converted, and no socket is open yet.
LEMMA UniformConverted ==
    ASSUME LinksInv, UniformInv, NEW p \in Proc, Converted(p) PROVE UniformInv'
<1> USE DEF LinksInv, TypeOK
<1>1. /\ UNCHANGED <<created, owner, kind, current, tid, executing, transport, sock, live, place>>
      /\ p \in live /\ prep[p] = "convert" /\ todo[p] = {} /\ live \subseteq Proc /\ Vic \subseteq Proc
      /\ created \subseteq Vic
      /\ prep' = [prep EXCEPT ![p] = "reopen"] /\ todo' = [todo EXCEPT ![p] = created]
    BY DEF Converted, program, records, Proc
<1>2. /\ prep'[p] = "reopen" /\ todo'[p] = created
      /\ \A q \in Proc \ {p} : prep'[q] = prep[q] /\ todo'[q] = todo[q]
    BY <1>1
<1>3. \A q \in Proc : Changing(q)' <=> Changing(q)
    BY <1>1, <1>2 DEF Changing
<1>4. \A q \in live, v \in created : Visited(q, v)' <=> Visited(q, v)
    BY <1>1, <1>2 DEF Visited
<1>5. Owned' /\ RecordsFit'
    BY <1>1 DEF UniformInv, Owned, RecordsFit
<1>6. OneKind'
    BY <1>1, <1>3, <1>4 DEF UniformInv, OneKind
<1>7. ClosedAhead'
  <2> SUFFICES ASSUME NEW q \in live, NEW e \in End, Changing(q)', prep'[q] = "convert" \/ owner[e] \in todo'[q]
               PROVE  sock[q][e] = "none"
    BY <1>1 DEF ClosedAhead
  <2>1. CASE q = p
    BY <2>1, <1>1 DEF UniformInv, ClosedAhead, Changing
  <2>2. CASE q # p
    BY <2>2, <1>1, <1>2 DEF UniformInv, ClosedAhead, Changing
  <2> QED BY <2>1, <2>2
<1>8. OpenFits'
  <2> SUFFICES ASSUME NEW q \in live, NEW e \in End, owner[e] \in created, place[owner[e]] = q,
                      prep'[q] = "listen" \/ (prep'[q] = "reopen" /\ owner[e] \notin todo'[q])
               PROVE  sock[q][e] = transport[q][e]
    BY <1>1 DEF OpenFits
  <2>1. q # p
    BY <1>1, <1>2
  <2> QED BY <2>1, <1>1, <1>2 DEF UniformInv, OpenFits
<1>9. ChildState'
  <2>1. \A c \in Vic : prep'[c] \notin {"close", "made"}
    BY <1>1, <1>2 DEF UniformInv, ChildState
  <2> QED BY <2>1, <1>1, <1>3 DEF UniformInv, ChildState
<1> QED BY <1>5, <1>6, <1>7, <1>8, <1>9 DEF UniformInv

\* Where a context's flow runs its sockets are opened, and they were closed.
LEMMA UniformReopen ==
    ASSUME LinksInv, UniformInv, NEW p \in Proc, NEW v \in Vic, Reopen(p, v) PROVE UniformInv'
<1> USE DEF LinksInv, TypeOK
<1>1. /\ UNCHANGED <<created, owner, kind, current, tid, executing, transport, live, place, prep, tool>>
      /\ p \in live /\ prep[p] = "reopen" /\ v \in todo[p] /\ live \subseteq Proc
      /\ todo' = [todo EXCEPT ![p] = @ \ {v}]
      /\ sock' = IF Opens(p, v) THEN [sock EXCEPT ![p] = Opened(p, v)] ELSE sock
    BY DEF Reopen, program, records
<1>2. /\ todo'[p] = todo[p] \ {v}
      /\ \A q \in Proc \ {p} : todo'[q] = todo[q] /\ sock'[q] = sock[q]
    BY <1>1
<1>3. \A e \in End : owner[e] # v => sock'[p][e] = sock[p][e]
    BY <1>1 DEF Opened
<1>4. v \in created /\ place[v] = p => Opens(p, v)
  <2> SUFFICES ASSUME v \in created, place[v] = p PROVE Opens(p, v)
    OBVIOUS
  <2>1. Changing(p) /\ v \in executing[p] /\ Visited(p, v)
    BY <1>1 DEF UniformInv, ChildState, Changing, Visited
  <2>2. CASE current[p] = "thread"
    BY <2>1, <2>2, <1>1 DEF AfterSplit, Opens
  <2>3. CASE current[p] # "thread"
    <3>1. p = Main /\ current[Main] = "process"
        BY <2>1, <2>3 DEF Direction, Proc
    <3> QED BY <2>1, <2>3, <3>1 DEF AfterMerge, Opens
  <2> QED BY <2>2, <2>3
<1>5. \A e \in End : owner[e] = v /\ v \in created /\ place[v] = p => sock'[p][e] = transport[p][e]
  <2> SUFFICES ASSUME NEW e \in End, owner[e] = v, v \in created, place[v] = p
               PROVE  sock'[p][e] = transport[p][e]
    OBVIOUS
  <2>1. sock[p][e] = "none"
    BY <1>1 DEF UniformInv, ClosedAhead, Changing
  <2>2. sock'[p] = Opened(p, v)
    BY <1>1, <1>4
  <2> QED BY <2>1, <2>2 DEF Opened
<1>6. Owned' /\ RecordsFit' /\ ChildState'
    BY <1>1 DEF UniformInv, Owned, RecordsFit, ChildState, Changing
<1>7. OneKind'
  <2>1. \A q \in live, w \in created : Visited(q, w)' <=> Visited(q, w)
    BY <1>1, <1>2 DEF Visited
  <2> QED BY <2>1, <1>1 DEF UniformInv, OneKind, Changing
<1>8. ClosedAhead'
  <2> SUFFICES ASSUME NEW q \in live, NEW e \in End, Changing(q), prep[q] = "convert" \/ owner[e] \in todo'[q]
               PROVE  sock'[q][e] = "none"
    BY <1>1 DEF ClosedAhead, Changing
  <2>1. CASE q = p
    BY <2>1, <1>1, <1>2, <1>3 DEF UniformInv, ClosedAhead
  <2>2. CASE q # p
    BY <2>2, <1>1, <1>2 DEF UniformInv, ClosedAhead
  <2> QED BY <2>1, <2>2
<1>9. OpenFits'
  <2> SUFFICES ASSUME NEW q \in live, NEW e \in End, owner[e] \in created, place[owner[e]] = q,
                      prep[q] = "listen" \/ (prep[q] = "reopen" /\ owner[e] \notin todo'[q])
               PROVE  sock'[q][e] = transport[q][e]
    BY <1>1 DEF OpenFits
  <2>1. CASE q # p
    BY <2>1, <1>1, <1>2 DEF UniformInv, OpenFits
  <2>2. CASE q = p /\ owner[e] = v
    BY <2>2, <1>5
  <2>3. CASE q = p /\ owner[e] # v
    BY <2>3, <1>1, <1>2, <1>3 DEF UniformInv, OpenFits
  <2> QED BY <2>1, <2>2, <2>3
<1> QED BY <1>6, <1>7, <1>8, <1>9 DEF UniformInv

\* The end: the contexts are of the new current kind.
LEMMA UniformFinish ==
    ASSUME LinksInv, UniformInv, NEW p \in Proc, Finish(p) PROVE UniformInv'
<1> USE DEF LinksInv, TypeOK
<1>1. /\ UNCHANGED <<created, owner, kind, tid, executing, transport, sock, live, place, todo, tool>>
      /\ p \in live /\ prep[p] = "reopen" /\ todo[p] = {} /\ live \subseteq Proc /\ Vic \subseteq Proc
      /\ prep' = [prep EXCEPT ![p] = "listen"]
      /\ current' = [current EXCEPT ![p] = Other(@)]
    BY DEF Finish, program, Proc
<1>2. /\ prep'[p] = "listen" /\ current'[p] = Other(current[p])
      /\ \A q \in Proc \ {p} : prep'[q] = prep[q] /\ current'[q] = current[q]
    BY <1>1
<1>3. Owned' /\ RecordsFit'
    BY <1>1 DEF UniformInv, Owned, RecordsFit
<1>4. OneKind'
  <2> SUFFICES ASSUME NEW q \in live, NEW w \in created
               PROVE  kind[q][w] = IF Changing(q)' /\ Visited(q, w)' THEN Other(current'[q]) ELSE current'[q]
    BY <1>1 DEF OneKind
  <2>1. CASE q = p
    BY <2>1, <1>1, <1>2 DEF UniformInv, OneKind, Changing, Visited
  <2>2. CASE q # p
    BY <2>2, <1>1, <1>2 DEF UniformInv, OneKind, Changing, Visited
  <2> QED BY <2>1, <2>2
<1>5. ClosedAhead'
  <2> SUFFICES ASSUME NEW q \in live, NEW e \in End, Changing(q)', prep'[q] = "convert" \/ owner[e] \in todo[q]
               PROVE  sock[q][e] = "none"
    BY <1>1 DEF ClosedAhead
  <2>1. q # p
    BY <1>2 DEF Changing
  <2> QED BY <2>1, <1>1, <1>2 DEF UniformInv, ClosedAhead, Changing
<1>6. OpenFits'
  <2> SUFFICES ASSUME NEW q \in live, NEW e \in End, owner[e] \in created, place[owner[e]] = q,
                      prep'[q] = "listen" \/ (prep'[q] = "reopen" /\ owner[e] \notin todo[q])
               PROVE  sock[q][e] = transport[q][e]
    BY <1>1 DEF OpenFits
  <2>1. CASE q = p
    BY <2>1, <1>1 DEF UniformInv, OpenFits
  <2>2. CASE q # p
    BY <2>2, <1>1, <1>2 DEF UniformInv, OpenFits
  <2> QED BY <2>1, <2>2
<1>7. ChildState'
  <2>1. \A q \in live : Changing(q)' => Changing(q)
    BY <1>1, <1>2 DEF Changing
  <2>2. \A c \in Vic : prep'[c] \notin {"close", "made"}
    BY <1>1, <1>2 DEF UniformInv, ChildState
  <2>3. ASSUME NEW c \in Vic \cap live PROVE place[c] # None /\ (~Changing(c)' => current'[c] = "process")
    <3>1. CASE c = p
        BY <3>1, <1>1, <1>2 DEF UniformInv, ChildState, Direction, Changing, Other
    <3>2. CASE c # p
        BY <3>2, <1>1, <1>2 DEF UniformInv, ChildState, Changing
    <3> QED BY <3>1, <3>2
  <2> QED BY <2>1, <2>2, <2>3, <1>1 DEF UniformInv, ChildState
<1> QED BY <1>3, <1>4, <1>5, <1>6, <1>7 DEF UniformInv

-----------------------------------------------------------------------------
\* In a program of one kind the invariant is inductive.
LEMMA UniformInductive == ASSUME ~Mixed PROVE Spec => []UniformInv
<1>1. Init => UniformInv
  <2> SUFFICES ASSUME Init PROVE UniformInv
    OBVIOUS
  <2>1. Owned /\ OneKind /\ RecordsFit
    <3>1. \A n \in Name : owner[<<n, "connect">>] = None
        BY DEF Init, End
    <3> QED BY <3>1 DEF Init, Owned, OneKind, RecordsFit
  <2>2. ClosedAhead /\ OpenFits
    BY DEF Init, ClosedAhead, OpenFits, Proc
  <2>3. ChildState
    BY DEF Init, ChildState, Changing, Proc
  <2> QED BY <2>1, <2>2, <2>3 DEF UniformInv
<1>2. LinksInv /\ UniformInv /\ [Next]_vars => UniformInv'
  <2> SUFFICES ASSUME LinksInv, UniformInv, [Next]_vars PROVE UniformInv'
    OBVIOUS
  <2>1. CASE ProgramNext
    BY <2>1, UniformCreate, UniformLink, UniformStartThread, UniformStartProcess DEF ProgramNext
  <2>2. CASE SplitNext
    BY <2>2, UniformRunSplit, UniformDisconnect, UniformSplit DEF SplitNext
  <2>3. CASE MergeNext
    BY <2>3, UniformRunMerge, UniformPrepareWorker, UniformPrepareMain, UniformMerge DEF MergeNext
  <2>4. CASE FinishNext
    BY <2>4, UniformConvert, UniformConverted, UniformReopen, UniformFinish DEF FinishNext
  <2>5. CASE UNCHANGED vars
    <3>1. Owned' /\ OneKind' /\ RecordsFit'
        BY <2>5 DEF vars, program, records, UniformInv, Owned, OneKind, RecordsFit, Changing, Visited
    <3>2. ClosedAhead' /\ OpenFits' /\ ChildState'
        BY <2>5 DEF vars, program, records, UniformInv, ClosedAhead, OpenFits, ChildState, Changing
    <3> QED BY <3>1, <3>2 DEF UniformInv
  <2> QED BY <2>1, <2>2, <2>3, <2>4, <2>5 DEF Next
<1> QED BY <1>1, <1>2, LinksInductive, PTL DEF Spec

\* When nothing is under way every flow has its sockets: inproc ones in Main,
\* or ipc ones in a process of its own.
LEMMA QuietSocket ==
    ASSUME LinksInv, UniformInv, Quiet, NEW e \in End, owner[e] \in created
    PROVE  \/ place[owner[e]] = Main /\ current[Main] = "thread" /\ sock[place[owner[e]]][e] = "inproc"
           \/ current[Main] = "process" /\ sock[place[owner[e]]][e] = "ipc"
<1> USE DEF LinksInv, TypeOK
<1> DEFINE v == owner[e]
           p == place[v]
<1>1. v \in Vic /\ p \in live /\ prep[p] = "listen" /\ ~Changing(p) /\ live \subseteq Proc
    BY DEF UniformInv, ChildState, Quiet, AllStarted, Changing
<1>2. prep[Main] = "listen" /\ ~Changing(Main) /\ Main \in Proc /\ Main \notin Vic
    BY DEF Quiet, Changing, Proc
<1>3. kind[p][v] = current[p] /\ kind[Main][v] = current[Main]
    BY <1>1, <1>2 DEF UniformInv, OneKind
<1>4. sock[p][e] = TransportFor(kind[p][v], kind[p][v])
    BY <1>1 DEF UniformInv, OpenFits, RecordsFit
<1>5. kind[Main][v] = "thread" <=> p = Main
    BY <1>1, <1>2 DEF KindIsPlace, Quiet, AllStarted
<1>6. kind[Main][v] \in {"thread", "process"}
    BY <1>1, <1>2 DEF Recorded
<1>7. CASE p = Main
    BY <1>3, <1>4, <1>5, <1>7 DEF TransportFor
<1>8. CASE p # Main
  <2>1. current[p] = "process"
    BY <1>1, <1>8 DEF UniformInv, ChildState, Proc
  <2>2. current[Main] = "process"
    BY <1>3, <1>5, <1>6, <1>8
  <2> QED BY <2>1, <2>2, <1>3, <1>4 DEF TransportFor
<1> QED BY <1>7, <1>8

\* In a program whose contexts are all of one kind both ends of every link are
\* open, with one transport that reaches both flows, before and after any number
\* of splits and merges.
THEOREM LinksStayConnected == ASSUME ~Mixed PROVE Spec => []LinksConnected
<1>1. LinksInv /\ UniformInv => LinksConnected
  <2> SUFFICES ASSUME LinksInv, UniformInv, Quiet, NEW n \in Name, owner[<<n, "connect">>] # None
               PROVE  Connected(n)
    BY DEF LinksConnected
  <2>1. /\ <<n, "connect">> \in End /\ <<n, "bind">> \in End
        /\ owner[<<n, "connect">>] \in created /\ owner[<<n, "bind">>] \in created
    BY DEF End, UniformInv, Owned
  <2>2. \/ place[owner[<<n, "connect">>]] = Main /\ current[Main] = "thread"
                /\ sock[place[owner[<<n, "connect">>]]][<<n, "connect">>] = "inproc"
        \/ current[Main] = "process"
                /\ sock[place[owner[<<n, "connect">>]]][<<n, "connect">>] = "ipc"
    BY <2>1, QuietSocket
  <2>3. \/ place[owner[<<n, "bind">>]] = Main /\ current[Main] = "thread"
                /\ sock[place[owner[<<n, "bind">>]]][<<n, "bind">>] = "inproc"
        \/ current[Main] = "process"
                /\ sock[place[owner[<<n, "bind">>]]][<<n, "bind">>] = "ipc"
    BY <2>1, QuietSocket
  <2> QED BY <2>2, <2>3 DEF Connected
<1> QED BY <1>1, LinksInductive, UniformInductive, PTL


-----------------------------------------------------------------------------
(* What the processes know of themselves and of each other.                *)

\* A child's copy of the records has its own flow in its own process.
SelfKnown ==
    \A c \in live \cap Vic :
        place[c] = c /\ tid[c][c] = c /\ c \in executing[c]

\* Nothing is recorded of contexts and links that do not exist.
NothingUnmade ==
    \A p \in live :
        /\ \A v \in Vic \ created : kind[p][v] = "none"
        /\ \A e \in End : owner[e] = None => transport[p][e] = "none"

\* A child is made by the start of its flow or by the tool, both of which
\* record its thread; afterwards only Main's records of threads change.
LEMMA SelfKnownStep ==
    ASSUME LinksInv, SelfKnown, [Next]_vars PROVE SelfKnown'
<1> USE DEF LinksInv, TypeOK
<1>0. Main \in Proc /\ Main \notin Vic /\ Vic \subseteq Proc
    BY DEF Proc
<1>1. ASSUME UNCHANGED <<live, place, tid, executing>> PROVE SelfKnown'
    BY <1>1 DEF SelfKnown
<1>2. ASSUME NEW v \in Vic, StartThread(v) PROVE SelfKnown'
  <2>1. /\ live' = live /\ place' = [place EXCEPT ![v] = Main] /\ place[v] = None
        /\ tid' = [tid EXCEPT ![Main][v] = v]
        /\ executing' = [executing EXCEPT ![Main] = @ \cup {v}]
    BY <1>2 DEF StartThread
  <2>2. v \notin live
    BY <2>1 DEF SelfKnown
  <2>3. \A c \in Vic : tid'[c] = tid[c] /\ executing'[c] = executing[c]
    BY <1>0, <2>1
  <2> QED BY <2>1, <2>2, <2>3 DEF SelfKnown
<1>3. ASSUME NEW v \in Vic, StartProcess(v) PROVE SelfKnown'
  <2>1. /\ live' = live \cup {v} /\ place' = [place EXCEPT ![v] = v]
        /\ tid' = [Copied(tid, {v}) EXCEPT ![v][v] = v]
        /\ executing' = [p \in Proc |-> IF p \in {Main, v} THEN executing[Main] \cup {v} ELSE executing[p]]
    BY <1>3 DEF StartProcess
  <2>2. tid'[v][v] = v /\ \A c \in Vic \ {v} : tid'[c] = tid[c]
    BY <1>0, <2>1 DEF Copied
  <2>3. v \in executing'[v] /\ \A c \in Vic \ {v} : executing'[c] = executing[c]
    BY <1>0, <2>1
  <2>4. ASSUME NEW c \in live' \cap Vic
        PROVE  place'[c] = c /\ tid'[c][c] = c /\ c \in executing'[c]
    <3>1. CASE c = v
        BY <3>1, <2>1, <2>2, <2>3
    <3>2. CASE c # v
      <4>1. place[c] = c /\ tid[c][c] = c /\ c \in executing[c]
        BY <3>2, <2>1 DEF SelfKnown
      <4> QED BY <3>2, <4>1, <2>1, <2>2, <2>3
    <3> QED BY <3>1, <3>2
  <2> QED BY <2>4 DEF SelfKnown
<1>4. ASSUME Split PROVE SelfKnown'
  <2>1. /\ live' = {Main} \cup executing[Main]
        /\ \A v \in executing[Main] : tid[Main][v] = v
        /\ place' = [v \in Vic |-> IF v \in executing[Main] THEN v ELSE place[v]]
        /\ tid' = Copied(tid, live') /\ executing' = Copied(executing, live')
    BY <1>4 DEF Split
  <2>2. \A c \in live' \cap Vic : tid'[c] = tid[Main] /\ executing'[c] = executing[Main]
    BY <1>0, <2>1 DEF Copied
  <2> QED BY <1>0, <2>1, <2>2 DEF SelfKnown
<1>5. ASSUME PrepareMain PROVE SelfKnown'
  <2>1. UNCHANGED <<live, place>> /\ \A c \in Vic : tid'[c] = tid[c] /\ executing'[c] = executing[c]
    BY <1>0, <1>5 DEF PrepareMain
  <2> QED BY <2>1 DEF SelfKnown
<1>6. ASSUME Merge PROVE SelfKnown'
    BY <1>0, <1>6 DEF Merge, SelfKnown
<1>7. CASE ProgramNext
    BY <1>1, <1>2, <1>3, <1>7 DEF ProgramNext, Create, Link
<1>8. CASE SplitNext
    BY <1>1, <1>4, <1>8 DEF SplitNext, RunSplit, Disconnect, records
<1>9. CASE MergeNext
    BY <1>1, <1>5, <1>6, <1>9 DEF MergeNext, RunMerge, PrepareWorker, records
<1>10. CASE FinishNext
    BY <1>1, <1>10 DEF FinishNext, Convert, Converted, Reopen, Finish, records
<1>11. CASE UNCHANGED vars
    BY <1>1, <1>11 DEF vars, records
<1> QED BY <1>7, <1>8, <1>9, <1>10, <1>11 DEF Next

\* Records are made for contexts and links that exist, and copied.
LEMMA NothingUnmadeStep ==
    ASSUME LinksInv, UniformInv, NothingUnmade, [Next]_vars PROVE NothingUnmade'
<1> USE DEF LinksInv, TypeOK
<1>0. Main \in Proc /\ Main \in live /\ live \subseteq Proc /\ created \subseteq Vic
    BY DEF Proc
<1>1. ASSUME UNCHANGED <<created, owner, kind, transport>>, live' \subseteq live PROVE NothingUnmade'
    BY <1>1 DEF NothingUnmade
<1>2. ASSUME NEW v \in Vic, NEW k \in {"thread", "process"}, Create(v, k) PROVE NothingUnmade'
  <2>1. /\ created' = created \cup {v} /\ kind' = [kind EXCEPT ![Main][v] = k]
        /\ UNCHANGED <<owner, transport, live>>
    BY <1>2 DEF Create
  <2>2. \A p \in live, w \in Vic \ {v} : kind'[p][w] = kind[p][w]
    BY <1>0, <2>1
  <2> QED BY <2>1, <2>2 DEF NothingUnmade
<1>3. ASSUME NEW v \in Vic, NEW w \in Vic, NEW n \in Name, Link(v, w, n) PROVE NothingUnmade'
  <2>1. /\ UNCHANGED <<created, kind, live>>
        /\ owner' = [owner EXCEPT ![<<n, "connect">>] = v, ![<<n, "bind">>] = w]
        /\ \E t \in {"inproc", "ipc"} :
             transport' = [transport EXCEPT ![Main] = [e \in End |-> IF e[1] = n THEN t ELSE @[e]]]
    BY <1>3 DEF Link, TransportFor
  <2>2. \A e \in End : e[1] = n => e = <<n, "connect">> \/ e = <<n, "bind">>
    BY DEF End
  <2>3. <<n, "connect">> \in End /\ <<n, "bind">> \in End /\ v # None /\ w # None
    BY DEF End
  <2>4. \A e \in End : owner'[e] = None => owner[e] = None /\ e[1] # n
    BY <2>1, <2>2, <2>3
  <2>5. \A p \in live, e \in End : e[1] # n => transport'[p][e] = transport[p][e]
    BY <1>0, <2>1
  <2>6. \A p \in live', x \in Vic \ created' : kind'[p][x] = "none"
    BY <2>1 DEF NothingUnmade
  <2>7. \A p \in live', e \in End : owner'[e] = None => transport'[p][e] = "none"
    BY <2>1, <2>4, <2>5 DEF NothingUnmade
  <2> QED BY <2>6, <2>7 DEF NothingUnmade
<1>4. ASSUME NEW v \in Vic, StartProcess(v) PROVE NothingUnmade'
  <2>1. /\ live' = live \cup {v} /\ UNCHANGED <<created, owner>>
        /\ \A p \in live' : \E q \in live : kind'[p] = kind[q] /\ transport'[p] = transport[q]
    BY <1>0, <1>4 DEF StartProcess, Copied, program, Proc
  <2> QED BY <2>1 DEF NothingUnmade
<1>5. ASSUME Split PROVE NothingUnmade'
  <2>1. /\ live' = {Main} \cup executing[Main] /\ UNCHANGED <<created, owner>>
        /\ \A p \in live' : kind'[p] = kind[Main] /\ transport'[p] = transport[Main]
    BY <1>0, <1>5 DEF Split, Copied, program, Proc
  <2> QED BY <1>0, <2>1 DEF NothingUnmade
<1>6. ASSUME Merge PROVE NothingUnmade'
  <2>1. live' \subseteq live /\ UNCHANGED <<created, owner, kind, transport>>
    BY <1>0, <1>6 DEF Merge, program, records
  <2> QED BY <1>1, <2>1
<1>7. ASSUME NEW p \in Proc, NEW v \in Vic, Convert(p, v) PROVE NothingUnmade'
  <2>1. p \in live /\ Changing(p) /\ UNCHANGED <<created, owner, live>>
    BY <1>7 DEF Convert, Changing, program
  <2>2. current[p] # "none"
    BY <1>0, <2>1 DEF Direction, Proc
  <2>3. CASE kind[p][v] # current[p]
    BY <1>1, <1>7, <2>1, <2>3 DEF Convert
  <2>4. CASE kind[p][v] = current[p]
    <3>1. /\ kind' = [kind EXCEPT ![p][v] = Other(current[p])]
          /\ transport' = [transport EXCEPT ![p] = Reinited(p, v, Other(current[p]))]
        BY <1>7, <2>4 DEF Convert
    <3>2. v \in created
        BY <2>1, <2>2, <2>4 DEF NothingUnmade
    <3>3. \A q \in live, w \in Vic \ {v} : kind'[q][w] = kind[q][w]
        BY <1>0, <3>1
    <3>4. \A q \in live, e \in End : owner[e] # v => transport'[q][e] = transport[q][e]
        BY <1>0, <3>1 DEF Reinited
    <3>5. ASSUME NEW q \in live, NEW w \in Vic \ created PROVE kind'[q][w] = "none"
      <4>1. w # v /\ kind[q][w] = "none"
        BY <3>2 DEF NothingUnmade
      <4> QED BY <3>3, <4>1
    <3>6. ASSUME NEW q \in live, NEW e \in End, owner[e] = None PROVE transport'[q][e] = "none"
      <4>1. owner[e] # v /\ transport[q][e] = "none"
        BY <3>6 DEF NothingUnmade
      <4> QED BY <3>4, <4>1
    <3> QED BY <2>1, <3>5, <3>6 DEF NothingUnmade
  <2> QED BY <2>3, <2>4
<1>8. CASE ProgramNext
    BY <1>1, <1>2, <1>3, <1>4, <1>8 DEF ProgramNext, StartThread, program
<1>9. CASE SplitNext
    BY <1>1, <1>5, <1>9 DEF SplitNext, RunSplit, Disconnect, program, records
<1>10. CASE MergeNext
    BY <1>1, <1>6, <1>10 DEF MergeNext, RunMerge, PrepareWorker, PrepareMain, program, records
<1>11. CASE FinishNext
    BY <1>1, <1>7, <1>11 DEF FinishNext, Converted, Reopen, Finish, program, records
<1>12. CASE UNCHANGED vars
    BY <1>1, <1>12 DEF vars, program, records
<1> QED BY <1>8, <1>9, <1>10, <1>11, <1>12 DEF Next

LEMMA KnownInductive == ASSUME ~Mixed PROVE Spec => [](SelfKnown /\ NothingUnmade)
<1>1. Init => SelfKnown /\ NothingUnmade
    BY DEF Init, SelfKnown, NothingUnmade, Proc
<1>2. LinksInv /\ UniformInv /\ SelfKnown /\ NothingUnmade /\ [Next]_vars
        => (SelfKnown /\ NothingUnmade)'
    BY SelfKnownStep, NothingUnmadeStep
<1> QED BY <1>1, <1>2, LinksInductive, UniformInductive, PTL DEF Spec

\* Between transformations a child is a process in its own records.
LEMMA QuietChild ==
    ASSUME LinksInv, UniformInv, SelfKnown, Quiet, NEW c \in live \ {Main}
    PROVE  /\ c \in Vic /\ c \in created
           /\ current[c] = "process" /\ kind[c][c] = "process" /\ current[Main] = "process"
<1> USE DEF LinksInv, TypeOK
<1>1. c \in Vic /\ c \in Proc /\ c # None /\ Main \in Proc
    BY DEF Proc
<1>2. ~Changing(c) /\ ~Changing(Main)
    BY DEF Quiet, Changing
<1>3. current[c] = "process" /\ place[c] = c
    BY <1>1, <1>2 DEF UniformInv, ChildState, SelfKnown
<1>4. c \in created
    BY <1>1, <1>3 DEF Recorded
<1>5. kind[c][c] = current[c] /\ kind[Main][c] = current[Main]
    BY <1>2, <1>4 DEF UniformInv, OneKind
<1>6. kind[Main][c] # "thread" /\ kind[Main][c] # "none"
    BY <1>1, <1>2, <1>3, <1>4 DEF KindIsPlace, Recorded
<1>7. kind[Main][c] \in {"none", "thread", "process"}
    BY <1>1
<1> QED BY <1>1, <1>3, <1>4, <1>5, <1>6, <1>7

\* In a program whose contexts are all of one kind every child can take part in
\* the next merge, after any number of splits and merges.
THEOREM ChildrenKnowThemselves == ASSUME ~Mixed PROVE Spec => []ChildrenFindThemselves
<1>1. LinksInv /\ UniformInv /\ SelfKnown => ChildrenFindThemselves
    BY QuietChild DEF ChildrenFindThemselves, SelfKnown
<1> QED BY <1>1, LinksInductive, UniformInductive, KnownInductive, PTL

\* In such a program the processes' records agree between transformations,
\* though each process has converted a copy of its own.
THEOREM RecordsAgree == ASSUME ~Mixed PROVE Spec => []CopiesAgree
<1>1. LinksInv /\ UniformInv /\ SelfKnown /\ NothingUnmade => CopiesAgree
  <2> SUFFICES ASSUME LinksInv, UniformInv, SelfKnown, NothingUnmade, Quiet, NEW p \in live
               PROVE  /\ kind[p] = kind[Main] /\ transport[p] = transport[Main]
                      /\ current[p] = current[Main]
    BY DEF CopiesAgree
  <2> USE DEF LinksInv, TypeOK
  <2>1. p \in Proc /\ Main \in Proc /\ Main \in live /\ ~Changing(p) /\ ~Changing(Main)
    BY DEF Quiet, Changing, Proc
  <2>2. current[p] = current[Main]
    BY QuietChild
  <2>3. \A v \in created : kind[p][v] = current[p] /\ kind[Main][v] = current[Main]
    BY <2>1 DEF UniformInv, OneKind
  <2>4. \A v \in Vic : kind[p][v] = kind[Main][v]
    BY <2>1, <2>2, <2>3 DEF NothingUnmade
  <2>5. \A e \in End : transport[p][e] = transport[Main][e]
    <3> SUFFICES ASSUME NEW e \in End PROVE transport[p][e] = transport[Main][e]
        OBVIOUS
    <3>1. CASE owner[e] = None
        BY <3>1, <2>1 DEF NothingUnmade
    <3>2. CASE owner[e] # None
        BY <3>2, <2>1, <2>2, <2>3 DEF UniformInv, Owned, RecordsFit
    <3> QED BY <3>1, <3>2
  <2>6. kind[p] \in [Vic -> {"none", "thread", "process"}] /\ kind[Main] \in [Vic -> {"none", "thread", "process"}]
    BY <2>1
  <2>7. transport[p] \in [End -> {"none", "inproc", "ipc"}] /\ transport[Main] \in [End -> {"none", "inproc", "ipc"}]
    BY <2>1
  <2> QED BY <2>2, <2>4, <2>5, <2>6, <2>7
<1> QED BY <1>1, LinksInductive, UniformInductive, KnownInductive, PTL

=============================================================================
