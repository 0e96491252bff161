------------------------- MODULE DynamicMemoryProofs -------------------------
(***************************************************************************)
(* Proofs about DynamicMemory, for any set of contexts and all bounds.     *)
(***************************************************************************)
EXTENDS DynamicMemory, TLAPS

-----------------------------------------------------------------------------
(* Where flows are and which operations can be under way.                  *)

Ages == stage \in {"split", "processes", "export"} => \A v \in Vic : age[v] < MaxMerges

Places == \A v \in Vic : at[v] = IF stage \in {"processes", "export"} THEN v ELSE Main

Files == \A v \in Vic : file[v] # None => stage \in {"export", "import"}

LockedImport == stage = "import" => \A v \in Vic : lock[v] = "prep"

\* Operations under way are in different processes, and can end as they began.
OneInside ==
    \A v, w \in Vic : v # w /\ op[v] # "none" /\ op[w] # "none" => at[v] # at[w]

RoomLeft ==
    \A v \in Vic : op[v] \in {"allocate", "receive"} =>
                        counter[at[v]] <= MaxKey /\ initialized[at[v]]

TypeInv ==
    /\ TypeOK /\ Ages /\ Places /\ Files /\ LockedImport
    /\ undefined = "no" => OneInside /\ RoomLeft

LEMMA ProcFacts ==
    /\ Main \in Proc /\ Main \notin Vic
    /\ \A v \in Vic : v \in Proc
  BY VicAssumption DEF Proc

\* The key of a new block is a key.
LEMMA NewKeyTyped ==
  ASSUME TypeInv, undefined = "no", NEW v \in Vic, op[v] \in {"allocate", "receive"}
  PROVE  /\ at[v] \in Proc
         /\ counter[at[v]] \in Nat
         /\ counter[at[v]] + 1 \in 0..(MaxKey + 1)
         /\ age[v] \in 0..MaxMerges
         /\ NewKey(v) \in Key
         /\ NewKey(v) = <<<<v, age[v]>>, counter[at[v]]>>
  <1>1. at[v] \in Proc
    BY ProcFacts DEF TypeInv, TypeOK
  <1>2. counter[at[v]] \in 0..(MaxKey + 1) /\ counter[at[v]] <= MaxKey
    BY <1>1 DEF TypeInv, TypeOK, RoomLeft
  <1>3. age[v] \in 0..MaxMerges
    BY DEF TypeInv, TypeOK
  <1>4. counter[at[v]] \in 0..MaxKey /\ counter[at[v]] + 1 \in 0..(MaxKey + 1)
    BY <1>2, BoundAssumption
  <1>5. <<v, age[v]>> \in Tid
    BY <1>3 DEF Tid
  <1>6. NewKey(v) \in Key
    BY <1>4, <1>5 DEF NewKey, Key
  <1> QED BY <1>1, <1>3, <1>4, <1>6 DEF NewKey

\* A map with one entry changed is a map.
Changed(g, f, p, k, x) ==
    /\ g \in [Proc -> Table]
    /\ \A q \in Proc, j \in Key : g[q][j] = IF q = p /\ j = k THEN x ELSE f[q][j]

LEMMA TableChanged ==
  ASSUME NEW f \in [Proc -> Table], NEW p \in Proc, NEW k \in Key,
         NEW x \in Value \cup {None}, NEW g, g = [f EXCEPT ![p][k] = x]
  PROVE  Changed(g, f, p, k, x)
  <1>1. f[p] \in Table
    OBVIOUS
  <1>2. [f[p] EXCEPT ![k] = x] \in Table
    BY <1>1 DEF Table
  <1>3. g = [f EXCEPT ![p] = [f[p] EXCEPT ![k] = x]]
    OBVIOUS
  <1>4. \A q \in Proc : g[q] = IF q = p THEN [f[p] EXCEPT ![k] = x] ELSE f[q]
    BY <1>3
  <1>5. \A j \in Key : [f[p] EXCEPT ![k] = x][j] = IF j = k THEN x ELSE f[p][j]
    BY <1>1 DEF Table
  <1>6. g \in [Proc -> Table]
    BY <1>2, <1>3
  <1> QED BY <1>4, <1>5, <1>6 DEF Changed

LEMMA EmptyTyped == Empty \in Table /\ \A k \in Key : Empty[k] = None
  BY DEF Empty, Table

\* What Disturbed says when nothing undefined has happened before.
LEMMA DisturbedFacts ==
  ASSUME undefined = "no", NEW P, Disturbed(P)
  PROVE  /\ undefined' \in {"no", "allocate", "other"}
         /\ undefined' = "no" => \A v \in Vic : at[v] \in P => op[v] = "none"
         /\ (\A v \in Vic : at[v] \in P => op[v] \in {"none", "allocate"}) => undefined' # "other"
  <1> DEFINE ops == {op[v] : v \in {w \in Vic : at[w] \in P}} \ {"none"}
  <1>1. undefined' = CASE ops = {} -> undefined [] ops = {"allocate"} -> "allocate" [] OTHER -> "other"
    BY DEF Disturbed
  <1>2. ops = {} => \A v \in Vic : at[v] \in P => op[v] = "none"
    OBVIOUS
  <1>3. (\A v \in Vic : at[v] \in P => op[v] \in {"none", "allocate"}) => ops = {} \/ ops = {"allocate"}
    OBVIOUS
  <1> HIDE DEF ops
  <1>4. ops # {} /\ ops # {"allocate"} => undefined' = "other"
    BY <1>1
  <1>5. ops = {} => undefined' = "no"
    BY <1>1
  <1>6. ops = {"allocate"} => undefined' = "allocate"
    BY <1>1
  <1> QED BY <1>2, <1>3, <1>4, <1>5, <1>6

LEMMA TypeInvInit == Init => TypeInv
  <1> SUFFICES ASSUME Init PROVE TypeInv
    OBVIOUS
  <1>1. TypeOK
    <2>1. Main \in Proc /\ 0 \in 0..(MaxKey + 1) /\ 0 \in 0..MaxMerges /\ 0 \in Value
      BY ProcFacts, BoundAssumption DEF Value
    <2> QED BY <2>1, EmptyTyped DEF Init, TypeOK, Table
  <1> QED BY <1>1 DEF Init, TypeInv, Ages, Places, Files, LockedImport, OneInside, RoomLeft

\* The operations that begin.
LEMMA BeginTyped ==
  ASSUME TypeInv, undefined = "no", NEW v \in Vic,
         NEW o \in {"allocate", "receive", "free"}, Begin(v, o),
         IF o = "free" THEN UNCHANGED <<table, initialized>> ELSE Room(v) /\ Initialize(at[v]),
         IF o = "allocate" THEN UNCHANGED lock
         ELSE lock[v] = "free" /\ lock' = [lock EXCEPT ![v] = "user"]
  PROVE  TypeInv'
  <1>1. at[v] \in Proc
    BY ProcFacts DEF TypeInv, TypeOK
  <1>2. table' \in [Proc -> Table] /\ initialized' \in [Proc -> BOOLEAN]
    <2>1. CASE o = "free"
      BY <2>1 DEF TypeInv, TypeOK
    <2>2. CASE o # "free"
      BY <2>2, <1>1, EmptyTyped DEF TypeInv, TypeOK, Initialize
    <2> QED BY <2>1, <2>2
  <1>3. \A w \in Vic : op'[w] = IF w = v THEN o ELSE op[w]
    BY DEF Begin, TypeInv, TypeOK
  <1>4. \A w \in Vic : lock'[w] = IF w = v /\ o # "allocate" THEN "user" ELSE lock[w]
    BY DEF TypeInv, TypeOK
  <1>5. op[v] = "none" /\ (o # "allocate" => lock[v] = "free")
    BY DEF Begin
  <1>6. /\ counter' = counter /\ at' = at /\ age' = age /\ held' = held /\ stage' = stage
        /\ file' = file /\ written' = written /\ base' = base /\ late' = late /\ cold' = cold
    BY DEF Begin, transform, history
  <1>7. TypeOK'
    <2>1. /\ op' \in [Vic -> {"none", "allocate", "receive", "free"}]
          /\ lock' \in [Vic -> {"free", "user", "prep"}]
      BY DEF Begin, TypeInv, TypeOK
    <2>2. undefined' \in {"no", "flows", "allocate", "other"}
      BY DEF Begin
    <2>3. \A w \in Vic : lock'[w] = "user" <=> op'[w] \in {"receive", "free"}
      BY <1>3, <1>4, <1>5 DEF TypeInv, TypeOK
    <2>4. \A w \in Vic : file[w] # None => lock'[w] = "prep"
      BY <1>4, <1>5 DEF TypeInv, TypeOK
    <2> QED BY <1>2, <1>6, <2>1, <2>2, <2>3, <2>4 DEF TypeInv, TypeOK
  <1>8. Ages' /\ Places' /\ Files'
    BY <1>6 DEF TypeInv, Ages, Places, Files
  <1>9. LockedImport'
    BY <1>4, <1>5, <1>6 DEF TypeInv, LockedImport
  <1>10. ASSUME undefined' = "no" PROVE OneInside' /\ RoomLeft'
    <2>1. ~Overlap(v, o)
      BY <1>10 DEF Begin
    <2>2. \A w \in Vic \ {v} : op[w] # "none" => at[w] # at[v]
      BY <2>1 DEF Overlap, Changing
    <2>3. OneInside'
      BY <1>3, <1>6, <2>2 DEF TypeInv, OneInside
    <2>4. \A p \in Proc : initialized[p] => initialized'[p]
      BY <1>1 DEF Initialize, TypeInv, TypeOK
    <2>5. o # "free" => counter[at[v]] <= MaxKey /\ initialized'[at[v]]
      BY <1>1 DEF Initialize, Room, TypeInv, TypeOK
    <2>6. \A w \in Vic : at[w] \in Proc
      BY ProcFacts DEF TypeInv, TypeOK
    <2>7. RoomLeft'
      BY <1>3, <1>6, <2>4, <2>5, <2>6 DEF TypeInv, RoomLeft
    <2> QED BY <2>3, <2>7
  <1> QED BY <1>7, <1>8, <1>9, <1>10 DEF TypeInv

\* The operations that end.
LEMMA EndTyped ==
  ASSUME TypeInv, undefined = "no", NEW v \in Vic, NEW o \in {"allocate", "receive", "free"},
         End(v, o), table' \in [Proc -> Table], held' \in [Vic -> SUBSET Key],
         written' \in [Key -> Value], base' \in Table, late' \in SUBSET Key,
         counter' \in [Proc -> 0..(MaxKey + 1)], initialized' \in [Proc -> BOOLEAN],
         \A p \in Proc : p # at[v] => counter'[p] = counter[p] /\ initialized'[p] = initialized[p]
  PROVE  TypeInv'
  <1>1. /\ at' = at /\ age' = age /\ stage' = stage /\ file' = file /\ cold' = cold
        /\ undefined' = undefined
    BY DEF End, transform
  <1>2. /\ \A w \in Vic : op'[w] = IF w = v THEN "none" ELSE op[w]
        /\ op' \in [Vic -> {"none", "allocate", "receive", "free"}]
    BY DEF End, TypeInv, TypeOK
  <1>3. /\ \A w \in Vic : lock'[w] = IF w = v /\ lock[v] = "user" THEN "free" ELSE lock[w]
        /\ lock' \in [Vic -> {"free", "user", "prep"}]
    BY DEF End, TypeInv, TypeOK
  <1>4. TypeOK'
    <2>1. \A w \in Vic : lock'[w] = "user" <=> op'[w] \in {"receive", "free"}
      BY <1>2, <1>3 DEF TypeInv, TypeOK
    <2>2. \A w \in Vic : file[w] # None => lock'[w] = "prep"
      BY <1>3 DEF TypeInv, TypeOK
    <2> QED BY <1>1, <1>2, <1>3, <2>1, <2>2 DEF TypeInv, TypeOK
  <1>5. Ages' /\ Places' /\ Files'
    BY <1>1 DEF TypeInv, Ages, Places, Files
  <1>6. LockedImport'
    BY <1>1, <1>3 DEF TypeInv, LockedImport
  <1>7. OneInside'
    BY <1>1, <1>2 DEF TypeInv, OneInside
  <1>8. RoomLeft'
    <2>1. \A w \in Vic : op'[w] # "none" => at[w] # at[v] /\ op'[w] = op[w]
      BY <1>2 DEF TypeInv, OneInside, End
    <2>2. \A w \in Vic : at[w] \in Proc
      BY ProcFacts DEF TypeInv, TypeOK
    <2>3. \A w \in Vic : op'[w] \in {"allocate", "receive"} =>
             counter'[at[w]] = counter[at[w]] /\ initialized'[at[w]] = initialized[at[w]]
      BY <2>1, <2>2
    <2> QED BY <1>1, <2>1, <2>3 DEF TypeInv, RoomLeft
  <1> QED BY <1>4, <1>5, <1>6, <1>7, <1>8 DEF TypeInv

\* What Insert does to the state.
LEMMA InsertFacts ==
  ASSUME TypeInv, undefined = "no", NEW v \in Vic, Insert(v)
  PROVE  /\ NewKey(v) \in Key
         /\ NewKey(v) = <<<<v, age[v]>>, counter[at[v]]>>
         /\ at[v] \in Proc /\ counter[at[v]] \in Nat
         /\ table' \in [Proc -> Table]
         /\ \A p \in Proc, k \in Key :
               table'[p][k] = IF p = at[v] /\ k = NewKey(v) THEN 0 ELSE table[p][k]
         /\ counter' \in [Proc -> 0..(MaxKey + 1)]
         /\ \A p \in Proc : counter'[p] = IF p = at[v] THEN counter[p] + 1 ELSE counter[p]
         /\ held' \in [Vic -> SUBSET Key]
         /\ \A w \in Vic : held'[w] = IF w = v THEN held[w] \cup {NewKey(v)} ELSE held[w]
         /\ written' \in [Key -> Value]
         /\ \A k \in Key : written'[k] = IF k = NewKey(v) THEN 0 ELSE written[k]
         /\ late' \in SUBSET Key /\ late \subseteq late'
         /\ late' # late => file[v] # None /\ late' = late \cup {NewKey(v)}
         /\ file[v] # None => NewKey(v) \in late'
         /\ op[v] \in {"allocate", "receive"}
  <1>1. op[v] \in {"allocate", "receive"}
    BY DEF Insert, End
  <1>2. /\ at[v] \in Proc /\ counter[at[v]] \in Nat /\ NewKey(v) \in Key
        /\ counter[at[v]] + 1 \in 0..(MaxKey + 1)
        /\ NewKey(v) = <<<<v, age[v]>>, counter[at[v]]>>
    BY <1>1, NewKeyTyped
  <1>3. 0 \in Value
    BY BoundAssumption DEF Value
  <1>4. /\ table \in [Proc -> Table] /\ counter \in [Proc -> 0..(MaxKey + 1)]
        /\ held \in [Vic -> SUBSET Key] /\ written \in [Key -> Value] /\ late \in SUBSET Key
    BY DEF TypeInv, TypeOK
  <1>5. table' = [table EXCEPT ![at[v]][NewKey(v)] = 0]
    BY DEF Insert
  <1>6. /\ table' \in [Proc -> Table]
        /\ \A p \in Proc, k \in Key :
               table'[p][k] = IF p = at[v] /\ k = NewKey(v) THEN 0 ELSE table[p][k]
    <2>1. Changed(table', table, at[v], NewKey(v), 0)
      BY <1>2, <1>3, <1>4, <1>5, TableChanged
    <2> QED BY <2>1 DEF Changed
  <1>7. counter' = [counter EXCEPT ![at[v]] = counter[at[v]] + 1]
    BY DEF Insert
  <1>8. /\ counter' \in [Proc -> 0..(MaxKey + 1)]
        /\ \A p \in Proc : counter'[p] = IF p = at[v] THEN counter[p] + 1 ELSE counter[p]
    BY <1>2, <1>4, <1>7
  <1>9. /\ held' \in [Vic -> SUBSET Key]
        /\ \A w \in Vic : held'[w] = IF w = v THEN held[w] \cup {NewKey(v)} ELSE held[w]
    BY <1>2, <1>4 DEF Insert
  <1>10. /\ written' \in [Key -> Value]
         /\ \A k \in Key : written'[k] = IF k = NewKey(v) THEN 0 ELSE written[k]
    BY <1>2, <1>3, <1>4 DEF Insert
  <1>11. late' = IF file[v] # None /\ op[v] = "allocate" THEN late \cup {NewKey(v)} ELSE late
    BY DEF Insert
  <1>12. file[v] # None => op[v] = "allocate"
    BY <1>1 DEF TypeInv, TypeOK
  <1>13. /\ late' \in SUBSET Key /\ late \subseteq late'
         /\ late' # late => file[v] # None /\ late' = late \cup {NewKey(v)}
         /\ file[v] # None => NewKey(v) \in late'
    BY <1>2, <1>4, <1>11, <1>12
  <1> QED BY <1>1, <1>2, <1>6, <1>8, <1>9, <1>10, <1>13

LEMMA InsertTyped ==
  ASSUME TypeInv, undefined = "no", NEW v \in Vic, Insert(v)
  PROVE  TypeInv'
  <1>1. /\ table' \in [Proc -> Table] /\ held' \in [Vic -> SUBSET Key]
        /\ written' \in [Key -> Value] /\ late' \in SUBSET Key
        /\ counter' \in [Proc -> 0..(MaxKey + 1)]
        /\ \A p \in Proc : p # at[v] => counter'[p] = counter[p]
    BY InsertFacts
  <1>2. base' = base /\ initialized' = initialized
    BY DEF Insert
  <1>3. base' \in Table /\ initialized' \in [Proc -> BOOLEAN]
    BY <1>2 DEF TypeInv, TypeOK
  <1>4. ASSUME NEW o \in {"allocate", "receive"}, End(v, o) PROVE TypeInv'
    BY <1>1, <1>2, <1>3, <1>4, EndTyped
  <1> QED BY <1>4 DEF Insert

\* What Free does to the state.
LEMMA FreeFacts ==
  ASSUME TypeInv, undefined = "no", NEW v \in Vic, NEW k \in Key, Free(v, k)
  PROVE  /\ at[v] \in Proc
         /\ table' \in [Proc -> Table]
         /\ \A p \in Proc, j \in Key :
               table'[p][j] = IF p = at[v] /\ j = k THEN None ELSE table[p][j]
         /\ initialized' \in [Proc -> BOOLEAN]
         /\ \A p \in Proc : p # at[v] => initialized'[p] = initialized[p]
         /\ ~initialized'[at[v]] => ~initialized[at[v]] \/ table'[at[v]] = Empty
         /\ held' \in [Vic -> SUBSET Key]
         /\ \A w \in Vic : held'[w] = IF w = v THEN held[w] \ {k} ELSE held[w]
         /\ written' \in [Key -> Value] /\ base' \in Table
         /\ \A j \in Key : j # k => written'[j] = written[j] /\ base'[j] = base[j]
         /\ base'[k] = None
  <1>1. at[v] \in Proc
    BY ProcFacts DEF TypeInv, TypeOK
  <1>2. /\ table \in [Proc -> Table] /\ initialized \in [Proc -> BOOLEAN]
        /\ held \in [Vic -> SUBSET Key] /\ written \in [Key -> Value] /\ base \in Table
    BY DEF TypeInv, TypeOK
  <1>3. table' = [table EXCEPT ![at[v]][k] = None]
    BY DEF Free
  <1>4. /\ table' \in [Proc -> Table]
        /\ \A p \in Proc, j \in Key :
               table'[p][j] = IF p = at[v] /\ j = k THEN None ELSE table[p][j]
    <2>1. Changed(table', table, at[v], k, None)
      BY <1>1, <1>2, <1>3, TableChanged
    <2> QED BY <2>1 DEF Changed
  <1>5. initialized' = [initialized EXCEPT ![at[v]] = initialized[at[v]] /\ table'[at[v]] # Empty]
    BY DEF Free
  <1>6. /\ initialized' \in [Proc -> BOOLEAN]
        /\ \A p \in Proc : p # at[v] => initialized'[p] = initialized[p]
        /\ ~initialized'[at[v]] => ~initialized[at[v]] \/ table'[at[v]] = Empty
    BY <1>1, <1>2, <1>5, Zenon
  <1>7. /\ held' \in [Vic -> SUBSET Key]
        /\ \A w \in Vic : held'[w] = IF w = v THEN held[w] \ {k} ELSE held[w]
    BY <1>2 DEF Free
  <1>8. 0 \in Value
    BY BoundAssumption DEF Value
  <1>9. /\ written' \in [Key -> Value] /\ base' \in Table
        /\ \A j \in Key : j # k => written'[j] = written[j] /\ base'[j] = base[j]
        /\ base'[k] = None
    BY <1>2, <1>8 DEF Free, Table
  <1> QED BY <1>1, <1>4, <1>6, <1>7, <1>9

LEMMA FreeTyped ==
  ASSUME TypeInv, undefined = "no", NEW v \in Vic, NEW k \in Key, Free(v, k)
  PROVE  TypeInv'
  <1>1. counter' = counter /\ late' = late \ {k} /\ End(v, "free")
    BY DEF Free
  <1>2. counter' \in [Proc -> 0..(MaxKey + 1)] /\ late' \in SUBSET Key
    BY <1>1 DEF TypeInv, TypeOK
  <1>3. /\ table' \in [Proc -> Table] /\ held' \in [Vic -> SUBSET Key]
        /\ written' \in [Key -> Value] /\ base' \in Table
        /\ initialized' \in [Proc -> BOOLEAN]
        /\ \A p \in Proc : p # at[v] => initialized'[p] = initialized[p]
    BY FreeFacts
  <1> QED BY <1>1, <1>2, <1>3, EndTyped

\* What Write does to the state.
LEMMA WriteFacts ==
  ASSUME TypeInv, undefined = "no", NEW v \in Vic, NEW k \in Key, Write(v, k)
  PROVE  /\ at[v] \in Proc
         /\ k \in held[v] /\ written[k] \in Nat /\ written[k] + 1 \in Value
         /\ table' \in [Proc -> Table]
         /\ \A p \in Proc, j \in Key :
               table'[p][j] = IF p = at[v] /\ j = k /\ table[p][j] # None
                              THEN written[k] + 1 ELSE table[p][j]
         /\ written' \in [Key -> Value]
         /\ \A j \in Key : written'[j] = IF j = k THEN written[k] + 1 ELSE written[j]
  <1> DEFINE x == IF table[at[v]][k] = None THEN None ELSE written[k] + 1
  <1>1. at[v] \in Proc /\ k \in held[v]
    BY ProcFacts DEF TypeInv, TypeOK, Write
  <1>2. table \in [Proc -> Table] /\ written \in [Key -> Value]
    BY DEF TypeInv, TypeOK
  <1>3. written[k] \in Nat /\ written[k] + 1 \in Value
    BY <1>2, BoundAssumption DEF Write, Value
  <1>4. x \in Value \cup {None}
    BY <1>3
  <1>5. table' = [table EXCEPT ![at[v]][k] = x]
    BY DEF Write
  <1>6. Changed(table', table, at[v], k, x)
    <2> HIDE DEF x
    <2> QED BY <1>1, <1>2, <1>4, <1>5, TableChanged
  <1>7. /\ written' \in [Key -> Value]
        /\ \A j \in Key : written'[j] = IF j = k THEN written[k] + 1 ELSE written[j]
    BY <1>2, <1>3 DEF Write
  <1>8. \A p \in Proc, j \in Key :
            table'[p][j] = IF p = at[v] /\ j = k /\ table[p][j] # None
                           THEN written[k] + 1 ELSE table[p][j]
    <2> TAKE p \in Proc, j \in Key
    <2>1. table'[p][j] = IF p = at[v] /\ j = k THEN x ELSE table[p][j]
      BY <1>6 DEF Changed
    <2> QED BY <2>1
  <1> QED BY <1>1, <1>3, <1>6, <1>7, <1>8 DEF Changed

LEMMA WriteTyped ==
  ASSUME TypeInv, undefined = "no", NEW v \in Vic, NEW k \in Key, Write(v, k)
  PROVE  TypeInv'
  <1>1. table' \in [Proc -> Table] /\ written' \in [Key -> Value]
    BY WriteFacts
  <1>2. /\ UNCHANGED <<initialized, counter, at, age, op, held, lock, stage, file, base, late, cold>>
        /\ undefined' \in {"no", "flows"}
    BY DEF Write, flowVars, transform
  <1>3. TypeOK'
    BY <1>1, <1>2 DEF TypeInv, TypeOK
  <1> QED BY <1>2, <1>3 DEF TypeInv, Ages, Places, Files, LockedImport, OneInside, RoomLeft

\* The steps of a transformation that move nothing.
LEMMA TransformTyped ==
  ASSUME TypeInv, undefined = "no",
         \/ Prepare \/ Imported \/ \E v \in Vic : LockFlow(v) \/ UnlockFlow(v) \/ Export(v) \/ Import(v)
  PROVE  TypeInv'
  <1>1. CASE Prepare \/ Imported
    <2>1. /\ UNCHANGED <<table, initialized, counter, at, age, op, held, lock, file, written,
                         base, late, cold, undefined>>
          /\ stage' \in {"threads", "split", "export"}
      BY <1>1 DEF Prepare, Imported, memory, flowVars, history
    <2>2. TypeOK'
      BY <2>1 DEF TypeInv, TypeOK
    <2>3. Ages'
      BY <1>1, <2>1 DEF Ages, Prepare, Imported
    <2>4. Places'
      BY <1>1, <2>1 DEF TypeInv, Places, Prepare, Imported
    <2>5. Files'
      BY <1>1, <2>1 DEF TypeInv, Files, Prepare, Imported
    <2>6. LockedImport'
      BY <2>1 DEF LockedImport
    <2> QED BY <2>1, <2>2, <2>3, <2>4, <2>5, <2>6 DEF TypeInv, OneInside, RoomLeft
  <1>2. ASSUME NEW v \in Vic, LockFlow(v) \/ UnlockFlow(v) PROVE TypeInv'
    <2>1. UNCHANGED <<table, initialized, counter, at, age, op, held, stage, file, written,
                      base, late, cold, undefined>>
      BY <1>2 DEF LockFlow, UnlockFlow, memory, flowVars, history, transform
    <2>2. /\ lock' \in [Vic -> {"free", "user", "prep"}]
          /\ \A w \in Vic \ {v} : lock'[w] = lock[w]
          /\ \/ lock[v] = "free" /\ lock'[v] = "prep" /\ stage \in {"split", "export"}
             \/ lock[v] = "prep" /\ lock'[v] = "free" /\ stage \in {"threads", "processes"}
      BY <1>2 DEF LockFlow, UnlockFlow, TypeInv, TypeOK
    <2>3. \A w \in Vic : lock'[w] = "user" <=> op[w] \in {"receive", "free"}
      BY <2>2 DEF TypeInv, TypeOK
    <2>4. \A w \in Vic : file[w] # None => lock'[w] = "prep"
      BY <2>2 DEF TypeInv, TypeOK, Files
    <2>5. TypeOK'
      BY <2>1, <2>2, <2>3, <2>4 DEF TypeInv, TypeOK
    <2>6. LockedImport'
      BY <2>1, <2>2 DEF TypeInv, LockedImport
    <2> QED BY <2>1, <2>5, <2>6 DEF TypeInv, Ages, Places, Files, OneInside, RoomLeft
  <1>3. ASSUME NEW v \in Vic, Export(v) PROVE TypeInv'
    <2>1. /\ UNCHANGED <<table, initialized, counter, at, age, op, held, lock, stage, written,
                         base, late, cold>>
          /\ stage = "export" /\ lock[v] = "prep"
          /\ file' = [file EXCEPT ![v] = table[v]]
      BY <1>3 DEF Export, memory, flowVars, history
    <2>2. undefined' \in {"no", "allocate", "other"}
      BY <1>3, DisturbedFacts DEF Export
    <2>3. table[v] \in Table
      BY ProcFacts DEF TypeInv, TypeOK
    <2>4. file' \in [Vic -> Table \cup {None}] /\ \A w \in Vic \ {v} : file'[w] = file[w]
      BY <2>1, <2>3 DEF TypeInv, TypeOK
    <2>5. TypeOK'
      BY <2>1, <2>2, <2>4 DEF TypeInv, TypeOK
    <2>6. Files'
      BY <2>1 DEF Files
    <2> QED BY <2>1, <2>5, <2>6 DEF TypeInv, Ages, Places, LockedImport, OneInside, RoomLeft
  <1>4. ASSUME NEW v \in Vic, Import(v) PROVE TypeInv'
    <2>1. /\ UNCHANGED <<initialized, counter, at, age, op, held, lock, stage, written, base, late>>
          /\ stage = "import" /\ file[v] # None /\ file' = [file EXCEPT ![v] = None]
      BY <1>4 DEF Import, flowVars
    <2>2. undefined' \in {"no", "allocate", "other"}
      BY <1>4, DisturbedFacts DEF Import
    <2>3. file[v] \in Table /\ table[Main] \in Table
      BY <2>1, ProcFacts DEF TypeInv, TypeOK
    <2>4. [k \in Key |-> IF file[v][k] = None THEN table[Main][k] ELSE file[v][k]] \in Table
      BY <2>3 DEF Table
    <2>5. table' \in [Proc -> Table]
      <3>1. table' = [table EXCEPT ![Main] =
                         [k \in Key |-> IF file[v][k] = None THEN table[Main][k] ELSE file[v][k]]]
        BY <1>4, ProcFacts DEF Import, TypeInv, TypeOK
      <3> QED BY <2>4, <3>1 DEF TypeInv, TypeOK
    <2>6. /\ file' \in [Vic -> Table \cup {None}]
          /\ \A w \in Vic : file'[w] # None => file[w] # None
      BY <2>1 DEF TypeInv, TypeOK
    <2>7. cold' \in BOOLEAN
      BY <1>4 DEF Import
    <2>8. TypeOK'
      BY <2>1, <2>2, <2>5, <2>6, <2>7 DEF TypeInv, TypeOK
    <2>9. Files'
      BY <2>1 DEF Files
    <2> QED BY <2>1, <2>8, <2>9 DEF TypeInv, Ages, Places, LockedImport, OneInside, RoomLeft
  <1> QED BY <1>1, <1>2, <1>3, <1>4

\* What a split and a merge do to the state.
LEMMA SplitFacts ==
  ASSUME TypeInv, undefined = "no", Split
  PROVE  /\ stage = "split" /\ stage' = "processes"
         /\ UNCHANGED <<age, op, held, lock, file, written, late, cold>>
         /\ \A v \in Vic : lock[v] = "prep" /\ at[v] = Main /\ at'[v] = v /\ file[v] = None
         /\ undefined' \in {"no", "allocate"}
         /\ undefined' = "no" => \A v \in Vic : op[v] = "none"
         /\ \A p \in Proc : /\ table'[p] = table[Main] /\ counter'[p] = counter[Main]
                            /\ initialized'[p] = initialized[Main]
         /\ \A k \in Key : base'[k] = IF \E v \in Vic : k \in held[v] THEN table[Main][k] ELSE None
  <1>1. \A v \in Vic : lock[v] = "prep" /\ at[v] = Main /\ at'[v] = v
    BY DEF Split, TypeInv, Places
  <1>2. \A v \in Vic : op[v] \in {"none", "allocate"}
    BY <1>1 DEF TypeInv, TypeOK
  <1>3. Disturbed({Main})
    BY DEF Split
  <1>4. /\ undefined' \in {"no", "allocate"}
        /\ undefined' = "no" => \A v \in Vic : op[v] = "none"
    BY <1>1, <1>2, <1>3, DisturbedFacts
  <1>5. \A v \in Vic : file[v] = None
    BY DEF Split, TypeInv, Files
  <1> QED BY <1>1, <1>4, <1>5 DEF Split

LEMMA MergeFacts ==
  ASSUME TypeInv, undefined = "no", Merge
  PROVE  /\ stage = "export" /\ stage' = "import"
         /\ UNCHANGED <<table, initialized, counter, op, held, lock, file, written, base, late, cold>>
         /\ \A v \in Vic : /\ lock[v] = "prep" /\ file[v] # None /\ at[v] = v /\ at'[v] = Main
                           /\ age'[v] = age[v] + 1 /\ age[v] \in Nat /\ age[v] + 1 \in 0..MaxMerges
         /\ undefined' \in {"no", "allocate"}
         /\ undefined' = "no" => \A v \in Vic : op[v] = "none"
  <1>1. \A v \in Vic : lock[v] = "prep" /\ at[v] = v /\ at'[v] = Main /\ file[v] # None
    BY DEF Merge, TypeInv, Places
  <1>2. \A v \in Vic : op[v] \in {"none", "allocate"}
    BY <1>1 DEF TypeInv, TypeOK
  <1>3. Disturbed(Vic)
    BY DEF Merge
  <1>4. /\ undefined' \in {"no", "allocate"}
        /\ undefined' = "no" => \A v \in Vic : op[v] = "none"
    BY <1>1, <1>2, <1>3, DisturbedFacts
  <1>5. \A v \in Vic : age'[v] = age[v] + 1 /\ age[v] \in Nat /\ age[v] + 1 \in 0..MaxMerges
    BY BoundAssumption DEF Merge, TypeInv, TypeOK, Ages
  <1>6. /\ stage = "export" /\ stage' = "import"
        /\ UNCHANGED <<table, initialized, counter, op, held, lock, file, written, base, late, cold>>
    BY DEF Merge, memory, history
  <1> QED BY <1>1, <1>4, <1>5, <1>6

LEMMA SplitTyped == ASSUME TypeInv, undefined = "no", Split PROVE TypeInv'
  <1>1. table' \in [Proc -> Table] /\ initialized' \in [Proc -> BOOLEAN]
        /\ counter' \in [Proc -> 0..(MaxKey + 1)]
    BY ProcFacts DEF Split, TypeInv, TypeOK
  <1>2. at' \in [Vic -> Proc] /\ \A v \in Vic : at'[v] \in {v, Main}
    BY ProcFacts DEF Split
  <1>3. base' \in Table
    <2>1. table[Main] \in Table
      BY ProcFacts DEF TypeInv, TypeOK
    <2> QED BY <2>1 DEF Split, Table
  <1>4. TypeOK'
    BY <1>1, <1>2, <1>3, SplitFacts DEF TypeInv, TypeOK
  <1>5. Ages'
    BY SplitFacts DEF TypeInv, Ages
  <1>6. Places' /\ Files' /\ LockedImport'
    BY SplitFacts DEF Places, Files, LockedImport
  <1>7. undefined' = "no" => OneInside' /\ RoomLeft'
    BY SplitFacts DEF OneInside, RoomLeft
  <1> QED BY <1>4, <1>5, <1>6, <1>7 DEF TypeInv

LEMMA MergeTyped == ASSUME TypeInv, undefined = "no", Merge PROVE TypeInv'
  <1>1. at' \in [Vic -> Proc] /\ \A v \in Vic : at'[v] \in {v, Main}
    BY ProcFacts DEF Merge
  <1>2. age' \in [Vic -> 0..MaxMerges]
    BY MergeFacts DEF Merge
  <1>3. TypeOK'
    BY <1>1, <1>2, MergeFacts DEF TypeInv, TypeOK
  <1>4. Ages' /\ Places' /\ Files' /\ LockedImport'
    BY MergeFacts DEF Ages, Places, Files, LockedImport
  <1>5. undefined' = "no" => OneInside' /\ RoomLeft'
    BY MergeFacts DEF OneInside, RoomLeft
  <1> QED BY <1>3, <1>4, <1>5 DEF TypeInv

LEMMA TypeInvNext == ASSUME TypeInv, [Next]_vars PROVE TypeInv'
  <1>1. CASE UNCHANGED vars
    BY <1>1 DEF vars, memory, flowVars, transform, history, TypeInv, TypeOK, Ages, Places,
                Files, LockedImport, OneInside, RoomLeft
  <1> SUFFICES ASSUME Next PROVE TypeInv'
    BY <1>1
  <1>2. undefined = "no"
    BY DEF Next
  <1>3. ASSUME NEW v \in Vic, BeginAllocate(v) PROVE TypeInv'
    <2>1. Begin(v, "allocate") /\ Room(v) /\ Initialize(at[v]) /\ UNCHANGED lock
      BY <1>3 DEF BeginAllocate
    <2> QED BY <1>2, <2>1, BeginTyped
  <1>4. ASSUME NEW v \in Vic, BeginReceive(v) PROVE TypeInv'
    <2>1. /\ Begin(v, "receive") /\ Room(v) /\ Initialize(at[v])
          /\ lock[v] = "free" /\ lock' = [lock EXCEPT ![v] = "user"]
      BY <1>4 DEF BeginReceive
    <2> QED BY <1>2, <2>1, BeginTyped
  <1>5. ASSUME NEW v \in Vic, BeginFree(v) PROVE TypeInv'
    <2>1. /\ Begin(v, "free") /\ UNCHANGED <<table, initialized>>
          /\ lock[v] = "free" /\ lock' = [lock EXCEPT ![v] = "user"]
      BY <1>5 DEF BeginFree
    <2> QED BY <1>2, <2>1, BeginTyped
  <1>6. CASE \E v \in Vic : FlowNext(v)
    BY <1>2, <1>3, <1>4, <1>5, <1>6, InsertTyped, WriteTyped, FreeTyped DEF FlowNext
  <1>7. CASE TransformNext
    BY <1>2, <1>7, TransformTyped, SplitTyped, MergeTyped DEF TransformNext
  <1> QED BY <1>6, <1>7 DEF Next

\* The map of every process, the exported files and the histories have their
\* types, and a flow holds its lock during a receive or a free and no other time.
THEOREM Typing == Spec => []TypeOK
  <1>1. TypeInv => TypeOK
    BY DEF TypeInv
  <1> QED BY <1>1, TypeInvInit, TypeInvNext, PTL DEF Spec

LEMMA OnlyBareStep ==
  ASSUME TypeInv, OnlyBareAllocationDisturbed, [Next]_vars
  PROVE  OnlyBareAllocationDisturbed'
  <1>1. CASE UNCHANGED vars
    BY <1>1 DEF vars, OnlyBareAllocationDisturbed
  <1> SUFFICES ASSUME Next PROVE undefined' # "other"
    BY <1>1 DEF OnlyBareAllocationDisturbed
  <1>2. undefined = "no"
    BY DEF Next
  <1>3. CASE Split \/ Merge
    BY <1>2, <1>3, SplitFacts, MergeFacts
  <1>4. ASSUME NEW v \in Vic, Export(v) PROVE undefined' # "other"
    <2>1. \A w \in Vic : at[w] \in {v} => w = v
      BY <1>4 DEF TypeInv, Places, Export
    <2>2. op[v] \in {"none", "allocate"}
      BY <1>4 DEF TypeInv, TypeOK, Export
    <2> QED BY <1>2, <1>4, <2>1, <2>2, DisturbedFacts DEF Export
  <1>5. ASSUME NEW v \in Vic, Import(v) PROVE undefined' # "other"
    <2>1. \A w \in Vic : op[w] \in {"none", "allocate"}
      BY <1>5 DEF TypeInv, TypeOK, LockedImport, Import
    <2> QED BY <1>2, <1>5, <2>1, DisturbedFacts DEF Import
  <1>6. CASE Prepare \/ Imported \/ \E v \in Vic : LockFlow(v) \/ UnlockFlow(v)
    BY <1>2, <1>6 DEF Prepare, Imported, LockFlow, UnlockFlow
  <1>7. ASSUME NEW v \in Vic, FlowNext(v) PROVE undefined' # "other"
    BY <1>2, <1>7 DEF FlowNext, BeginAllocate, BeginReceive, BeginFree, Begin, Insert, End,
                      Write, Free
  <1> QED BY <1>3, <1>4, <1>5, <1>6, <1>7 DEF Next, TransformNext

\* No transformation meets an operation that holds the flow's lock: what can be
\* under way when a map is copied, exported, moved or imported is a bare
\* allocation.
THEOREM OnlyBareDisturbed == Spec => []OnlyBareAllocationDisturbed
  <1>1. Init => OnlyBareAllocationDisturbed
    BY DEF Init, OnlyBareAllocationDisturbed
  <1> QED BY <1>1, OnlyBareStep, TypeInvInit, TypeInvNext, PTL DEF Spec

-----------------------------------------------------------------------------
(* Where blocks are and what they hold.                                    *)

\* A key of flow v that has not been given out.
Fresh(v, k) ==
    /\ k[1][1] = v
    /\ k[1][2] > age[v] \/ (k[1][2] = age[v] /\ k[2] >= counter[at[v]])

\* A flow has pointers to its own blocks.
Owned == \A v \in Vic : \A k \in held[v] : k[1][1] = v /\ ~Fresh(v, k)

Nowhere ==
    \A v \in Vic, k \in Key : Fresh(v, k) =>
        /\ base[k] = None
        /\ \A p \in Proc : table[p][k] = None
        /\ \A w \in Vic : file[w] # None => file[w][k] = None

\* Nothing has happened that the properties excuse.
Calm == undefined = "no" /\ ~cold

ColdEmpty == \A p \in Proc : ~initialized[p] => table[p] = Empty

\* The map t holds a value of k that its flow may find.
Fits(t, k) ==
    /\ t[k] \in Value /\ t[k] <= written[k]
    /\ base[k] = None => t[k] = written[k]
    /\ base[k] # None => base[k] <= t[k]

\* A flow's blocks are in its process's map; while it waits for its import, in
\* its file.
Kept ==
    \A v \in Vic : \A k \in held[v] \ late :
        /\ file[v] # None => Fits(file[v], k)
        /\ ~(stage = "import" /\ file[v] # None) => Fits(table[at[v]], k)

\* Everywhere else a block is as it was at the split.
Copies ==
    \A v \in Vic : \A k \in held[v] :
        /\ stage \in {"processes", "export"} =>
              \A p \in Proc \ {v} : table[p][k] = base[k]
        /\ \A w \in Vic \ {v} : file[w] # None => file[w][k] = base[k]
        /\ stage = "import" /\ file[v] # None /\ k \notin late => table[Main][k] = base[k]

DataInv == Owned /\ Nowhere /\ (Calm => ColdEmpty /\ Kept /\ Copies)

LEMMA DataInit == Init => DataInv
  <1> SUFFICES ASSUME Init PROVE DataInv
    OBVIOUS
  <1>1. Owned /\ Copies /\ Kept /\ ColdEmpty
    BY DEF Init, Owned, Copies, Kept, ColdEmpty
  <1>2. Nowhere
    BY EmptyTyped DEF Init, Nowhere
  <1> QED BY <1>1, <1>2 DEF DataInv

LEMMA KeyFacts ==
  ASSUME TypeInv, NEW k \in Key
  PROVE  /\ k[1][2] \in Nat /\ k[2] \in Nat
         /\ \A p \in Proc : counter[p] \in Nat
         /\ \A v \in Vic : age[v] \in Nat /\ at[v] \in Proc /\ counter[at[v]] \in Nat
  BY ProcFacts, BoundAssumption DEF Key, Tid, TypeInv, TypeOK

\* A step that changes no block.
LEMMA DataSame ==
  ASSUME TypeInv, DataInv,
         UNCHANGED <<table, counter, at, age, held, file, written, base, late>>,
         Calm' => Calm /\ \A p \in Proc : initialized[p] => initialized'[p],
         \/ stage' = stage
         \/ stage = "threads" /\ stage' = "split"
         \/ stage = "processes" /\ stage' = "export"
         \/ stage = "import" /\ stage' = "threads" /\ \A v \in Vic : file[v] = None
  PROVE  DataInv'
  <1>1. Owned' /\ Nowhere'
    BY DEF DataInv, Owned, Nowhere, Fresh
  <1>2. ASSUME Calm' PROVE ColdEmpty' /\ Kept' /\ Copies'
    <2>1. ColdEmpty /\ Kept /\ Copies
      BY <1>2 DEF DataInv
    <2>2. ColdEmpty'
      BY <1>2, <2>1 DEF ColdEmpty
    <2>3. Kept'
      BY <2>1 DEF Kept, Fits
    <2>4. Copies'
      BY <2>1 DEF Copies
    <2> QED BY <2>2, <2>3, <2>4
  <1> QED BY <1>1, <1>2 DEF DataInv

\* The beginning of an allocation makes a map anew only if it is empty.
LEMMA DataAllocate ==
  ASSUME TypeInv, DataInv, NEW v \in Vic, undefined = "no",
         NEW o \in {"allocate", "receive"}, Begin(v, o), Initialize(at[v])
  PROVE  DataInv'
  <1>1. UNCHANGED <<counter, at, age, held, stage, file, written, base, late, cold>>
    BY DEF Begin, transform, history
  <1>2. at[v] \in Proc
    BY ProcFacts DEF TypeInv, TypeOK
  <1>3. /\ table' = IF initialized[at[v]] THEN table ELSE [table EXCEPT ![at[v]] = Empty]
        /\ \A p \in Proc : initialized[p] => initialized'[p]
    BY <1>2 DEF Initialize, TypeInv, TypeOK
  <1>4. CASE Calm'
    <2>1. Calm
      BY <1>1, <1>4 DEF Calm
    <2>2. table' = table
      BY <1>2, <1>3, <2>1 DEF DataInv, ColdEmpty, TypeInv, TypeOK
    <2> QED BY <1>1, <1>3, <2>1, <2>2, DataSame
  <1>5. CASE ~Calm'
    <2>1. Owned'
      BY <1>1 DEF DataInv, Owned, Fresh
    <2>2. \A p \in Proc, k \in Key : table[p][k] = None => table'[p][k] = None
      BY <1>2, <1>3, EmptyTyped DEF TypeInv, TypeOK
    <2>3. Nowhere'
      BY <1>1, <2>2 DEF DataInv, Nowhere, Fresh
    <2> QED BY <1>5, <2>1, <2>3 DEF DataInv
  <1> QED BY <1>4, <1>5

\* A new key is fresh, so no flow has a pointer to it.
LEMMA NewKeyFresh ==
  ASSUME TypeInv, DataInv, undefined = "no", NEW v \in Vic, Insert(v)
  PROVE  Fresh(v, NewKey(v)) /\ \A w \in Vic : NewKey(v) \notin held[w]
  <1>1. /\ NewKey(v) = <<<<v, age[v]>>, counter[at[v]]>> /\ NewKey(v) \in Key
        /\ counter[at[v]] \in Nat
    BY InsertFacts
  <1>2. Fresh(v, NewKey(v))
    BY <1>1 DEF Fresh
  <1> QED BY <1>1, <1>2 DEF DataInv, Owned

LEMMA DataInsert ==
  ASSUME TypeInv, DataInv, undefined = "no", NEW v \in Vic, Insert(v)
  PROVE  DataInv'
  <1> DEFINE K == NewKey(v)
  <1>1. /\ K \in Key /\ K = <<<<v, age[v]>>, counter[at[v]]>>
        /\ at[v] \in Proc /\ counter[at[v]] \in Nat
    BY InsertFacts
  <1>2. \A p \in Proc, k \in Key : table'[p][k] = IF p = at[v] /\ k = K THEN 0 ELSE table[p][k]
    BY InsertFacts
  <1>3. \A p \in Proc : counter'[p] = IF p = at[v] THEN counter[p] + 1 ELSE counter[p]
    BY InsertFacts
  <1>4. \A w \in Vic : held'[w] = IF w = v THEN held[w] \cup {K} ELSE held[w]
    BY InsertFacts
  <1>5. \A k \in Key : written'[k] = IF k = K THEN 0 ELSE written[k]
    BY InsertFacts
  <1>6. /\ late \subseteq late' /\ late' \subseteq late \cup {K}
        /\ file[v] # None => K \in late'
        /\ op[v] \in {"allocate", "receive"}
    BY InsertFacts
  <1>7. UNCHANGED <<initialized, base, at, age, stage, file, cold, undefined>>
    BY DEF Insert, End, transform
  <1>8. Fresh(v, K) /\ \A w \in Vic : K \notin held[w]
    BY NewKeyFresh
  <1>9. \A w \in Vic : held[w] \subseteq Key /\ at[w] \in Proc
    BY ProcFacts DEF TypeInv, TypeOK
  <1> HIDE DEF K
  <1>10. \A w \in Vic : /\ counter[at[w]] \in Nat /\ counter'[at[w]] \in Nat
                        /\ counter'[at[w]] >= counter[at[w]]
                        /\ at[w] = at[v] => counter'[at[w]] = counter[at[w]] + 1
    <2> TAKE w \in Vic
    <2>1. counter[at[w]] \in Nat
      BY <1>1, KeyFacts
    <2> QED BY <1>3, <1>9, <2>1
  <1>11. \A w \in Vic, k \in Key : Fresh(w, k)' => Fresh(w, k) /\ k # K
    <2> TAKE w \in Vic, k \in Key
    <2>1. k[1][2] \in Nat /\ k[2] \in Nat /\ age[w] \in Nat
      BY KeyFacts
    <2>2. Fresh(w, k)' => Fresh(w, k)
      <3>1. /\ counter[at[w]] \in Nat /\ counter'[at'[w]] \in Nat
            /\ counter'[at'[w]] >= counter[at[w]] /\ age' = age
        BY <1>7, <1>10
      <3>2. k[2] >= counter'[at'[w]] => k[2] >= counter[at[w]]
        BY <2>1, <3>1
      <3> QED BY <3>1, <3>2 DEF Fresh
    <2>3. k = K => ~Fresh(w, k)'
      <3> SUFFICES ASSUME k = K, Fresh(w, k)' PROVE FALSE
        OBVIOUS
      <3>1. w = v
        BY <1>1 DEF Fresh
      <3>2. k[1][2] = age[v] /\ k[2] = counter[at[v]]
        BY <1>1
      <3> QED BY <1>7, <1>10, <2>1, <3>1, <3>2 DEF Fresh
    <2> QED BY <2>2, <2>3
  <1>12. Owned'
    <2>1. ASSUME NEW w \in Vic, NEW k \in held'[w] PROVE k[1][1] = w /\ ~Fresh(w, k)'
      <3>1. CASE k \in held[w]
        BY <1>9, <1>11, <3>1 DEF DataInv, Owned
      <3>2. CASE w = v /\ k = K
        BY <1>1, <1>11, <3>2
      <3> QED BY <1>4, <3>1, <3>2
    <2> QED BY <2>1 DEF Owned
  <1>13. Nowhere'
    <2>1. ASSUME NEW w \in Vic, NEW k \in Key, Fresh(w, k)'
          PROVE  /\ base[k] = None
                 /\ \A p \in Proc : table'[p][k] = None
                 /\ \A u \in Vic : file[u] # None => file[u][k] = None
      <3>1. Fresh(w, k) /\ k # K
        BY <1>11, <2>1
      <3> QED BY <1>2, <3>1 DEF DataInv, Nowhere
    <2> QED BY <1>7, <2>1 DEF Nowhere
  <1>14. ASSUME Calm' PROVE ColdEmpty' /\ Kept' /\ Copies'
    <2>1. ColdEmpty /\ Kept /\ Copies
      BY <1>7, <1>14 DEF DataInv, Calm
    <2>2. ColdEmpty'
      <3>1. initialized[at[v]]
        BY <1>6 DEF TypeInv, RoomLeft
      <3>2. \A p \in Proc : p # at[v] => table'[p] = table[p]
        <4>1. table' = [table EXCEPT ![at[v]][K] = 0]
          BY DEF Insert, K
        <4> QED BY <4>1 DEF TypeInv, TypeOK
      <3> QED BY <1>7, <2>1, <3>1, <3>2 DEF ColdEmpty
    <2>3. ASSUME NEW w \in Vic, NEW k \in held'[w] \ late'
          PROVE  /\ file[w] # None => Fits(file[w], k)'
                 /\ ~(stage = "import" /\ file[w] # None) => Fits(table[at[w]], k)'
      <3>1. CASE k \in held[w]
        <4>1. k # K /\ k \in Key /\ k \in held[w] \ late
          BY <1>6, <1>8, <1>9, <2>3, <3>1
        <4>2. written'[k] = written[k] /\ table'[at[w]][k] = table[at[w]][k]
          BY <1>2, <1>5, <1>9, <4>1
        <4>3. /\ file[w] # None => Fits(file[w], k)
              /\ ~(stage = "import" /\ file[w] # None) => Fits(table[at[w]], k)
          BY <2>1, <4>1 DEF Kept
        <4> QED BY <1>7, <4>2, <4>3 DEF Fits
      <3>2. CASE w = v /\ k = K
        <4>1. file[v] = None
          BY <1>6, <2>3, <3>2
        <4>2. base[K] = None
          BY <1>1, <1>8 DEF DataInv, Nowhere
        <4>3. table'[at[v]][K] = 0 /\ written'[K] = 0 /\ 0 \in Value
          BY <1>1, <1>2, <1>5, BoundAssumption DEF Value
        <4>4. base'[k] = None /\ table'[at'[w]][k] = 0 /\ written'[k] = 0
          BY <1>7, <3>2, <4>2, <4>3
        <4>5. Fits(table[at[w]], k)'
          BY <4>3, <4>4 DEF Fits
        <4> QED BY <1>7, <3>2, <4>1, <4>5
      <3> QED BY <1>4, <3>1, <3>2
    <2>4. Kept'
      BY <1>7, <2>3 DEF Kept
    <2>5. ASSUME NEW w \in Vic, NEW k \in held'[w]
          PROVE  /\ stage \in {"processes", "export"} =>
                       \A p \in Proc \ {w} : table'[p][k] = base[k]
                 /\ \A u \in Vic \ {w} : file[u] # None => file[u][k] = base[k]
                 /\ stage = "import" /\ file[w] # None /\ k \notin late' =>
                       table'[Main][k] = base[k]
      <3>1. CASE k \in held[w]
        <4>1. k # K /\ k \in Key
          BY <1>8, <1>9, <3>1
        <4>2. \A p \in Proc : table'[p][k] = table[p][k]
          BY <1>2, <4>1
        <4> QED BY <1>6, <2>1, <3>1, <4>2, ProcFacts DEF Copies
      <3>2. CASE w = v /\ k = K
        <4>1. /\ base[K] = None /\ \A p \in Proc : table[p][K] = None
              /\ \A u \in Vic : file[u] # None => file[u][K] = None
          BY <1>1, <1>8 DEF DataInv, Nowhere
        <4>2. stage \in {"processes", "export"} => at[v] = v
          BY DEF TypeInv, Places
        <4> QED BY <1>1, <1>2, <1>6, <3>2, <4>1, <4>2
      <3> QED BY <1>4, <3>1, <3>2
    <2>6. Copies'
      BY <1>7, <2>5 DEF Copies
    <2> QED BY <2>2, <2>4, <2>6
  <1> QED BY <1>12, <1>13, <1>14 DEF DataInv

LEMMA DataWrite ==
  ASSUME TypeInv, DataInv, undefined = "no", NEW v \in Vic, NEW k \in Key, Write(v, k)
  PROVE  DataInv'
  <1>1. /\ at[v] \in Proc /\ k \in held[v] /\ written[k] \in Nat /\ written[k] + 1 \in Value
        /\ \A p \in Proc, j \in Key :
               table'[p][j] = IF p = at[v] /\ j = k /\ table[p][j] # None
                              THEN written[k] + 1 ELSE table[p][j]
        /\ \A j \in Key : written'[j] = IF j = k THEN written[k] + 1 ELSE written[j]
    BY WriteFacts
  <1>2. UNCHANGED <<initialized, base, counter, at, age, held, stage, file, late, cold>>
    BY DEF Write, flowVars, transform
  <1>3. lock[v] = "free"
    BY DEF Write
  <1>4. k[1][1] = v /\ ~Fresh(v, k)
    BY <1>1 DEF DataInv, Owned
  <1>5. \A w \in Vic : held[w] \subseteq Key /\ at[w] \in Proc
    BY ProcFacts DEF TypeInv, TypeOK
  <1>6. \A w \in Vic : \A j \in held[w] : j = k => w = v
    BY <1>4 DEF DataInv, Owned
  <1>7. Owned'
    BY <1>2 DEF DataInv, Owned, Fresh
  <1>8. Nowhere'
    <2>1. \A w \in Vic, j \in Key : Fresh(w, j)' <=> Fresh(w, j)
      BY <1>2 DEF Fresh
    <2>2. \A w \in Vic : Fresh(w, k) => w = v
      BY <1>4 DEF Fresh
    <2>3. \A w \in Vic, j \in Key : Fresh(w, j) => j # k
      BY <1>4, <2>2
    <2> QED BY <1>1, <1>2, <2>1, <2>3 DEF DataInv, Nowhere
  <1>9. ASSUME Calm' PROVE ColdEmpty' /\ Kept' /\ Copies'
    <2>1. ColdEmpty /\ Kept /\ Copies
      BY <1>2, <1>9 DEF DataInv, Calm, Write
    <2>2. file[v] = None /\ stage # "import"
      BY <1>3 DEF TypeInv, TypeOK, LockedImport
    <2>3. table[at[v]] # Empty => ColdEmpty'
      <3>1. \A p \in Proc \ {at[v]} : table'[p] = table[p]
        BY DEF Write, TypeInv, TypeOK
      <3> QED BY <1>2, <2>1, <3>1 DEF ColdEmpty
    <2>4. table[at[v]] = Empty => ColdEmpty'
      <3>1. table[at[v]][k] = None => table' = table
        <4>1. CASE table[at[v]][k] = None
          <5>1. table' = [table EXCEPT ![at[v]][k] = None]
            BY <4>1 DEF Write
          <5>2. [table[at[v]] EXCEPT ![k] = None] = table[at[v]]
            BY <1>1, <4>1 DEF TypeInv, TypeOK, Table
          <5>3. table' = [table EXCEPT ![at[v]] = table[at[v]]]
            BY <5>1, <5>2
          <5> QED BY <5>3 DEF TypeInv, TypeOK
        <4> QED BY <4>1
      <3> QED BY <1>2, <2>1, <3>1, EmptyTyped DEF ColdEmpty
    <2>5. ASSUME NEW w \in Vic, NEW j \in held[w] \ late
          PROVE  /\ file[w] # None => Fits(file[w], j)'
                 /\ ~(stage = "import" /\ file[w] # None) => Fits(table[at[w]], j)'
      <3>1. /\ file[w] # None => Fits(file[w], j)
            /\ ~(stage = "import" /\ file[w] # None) => Fits(table[at[w]], j)
        BY <2>1 DEF Kept
      <3>2. CASE j # k
        <4>1. written'[j] = written[j] /\ table'[at[w]][j] = table[at[w]][j]
          BY <1>1, <1>5, <3>2
        <4> QED BY <1>2, <3>1, <4>1 DEF Fits
      <3>3. CASE j = k
        <4>1. w = v
          BY <1>6, <3>3
        <4>2. Fits(table[at[v]], k)
          BY <2>2, <3>1, <3>3, <4>1
        <4>3. table[at[v]][k] \in 0..MaxWrites /\ table[at[v]][k] <= written[k]
          BY <4>2 DEF Fits, Value
        <4>4. table[at[v]][k] # None
          BY <4>3, BoundAssumption
        <4>5. table'[at[v]][k] = written[k] + 1 /\ written'[k] = written[k] + 1
          BY <1>1, <4>4
        <4>6. base[k] # None => base[k] <= written[k] + 1
          <5>1. base[k] # None => base[k] \in Nat
            BY DEF TypeInv, TypeOK, Table, Value
          <5> QED BY <1>1, <4>2, <4>3, <5>1 DEF Fits
        <4>7. Fits(table[at[w]], j)'
          BY <1>1, <1>2, <3>3, <4>1, <4>5, <4>6 DEF Fits
        <4> QED BY <2>2, <4>1, <4>7
      <3> QED BY <3>2, <3>3
    <2>6. Kept'
      BY <1>2, <2>5 DEF Kept
    <2>7. Copies'
      <3>1. ASSUME NEW w \in Vic, NEW j \in held[w], stage \in {"processes", "export"},
                   NEW p \in Proc \ {w}
            PROVE  table'[p][j] = table[p][j]
        <4>1. at[v] = v
          BY <3>1 DEF TypeInv, Places
        <4> QED BY <1>1, <1>5, <1>6, <4>1
      <3> QED BY <1>2, <2>1, <2>2, <3>1 DEF Copies
    <2> QED BY <2>3, <2>4, <2>6, <2>7
  <1> QED BY <1>7, <1>8, <1>9 DEF DataInv

LEMMA DataFree ==
  ASSUME TypeInv, DataInv, undefined = "no", NEW v \in Vic, NEW k \in Key, Free(v, k)
  PROVE  DataInv'
  <1>1. at[v] \in Proc
    BY FreeFacts
  <1>2. \A p \in Proc, j \in Key : table'[p][j] = IF p = at[v] /\ j = k THEN None ELSE table[p][j]
    BY FreeFacts
  <1>3. /\ \A p \in Proc : p # at[v] => initialized'[p] = initialized[p]
        /\ ~initialized'[at[v]] => ~initialized[at[v]] \/ table'[at[v]] = Empty
    BY FreeFacts
  <1>4. \A w \in Vic : held'[w] = IF w = v THEN held[w] \ {k} ELSE held[w]
    BY FreeFacts
  <1>5. /\ \A j \in Key : j # k => written'[j] = written[j] /\ base'[j] = base[j]
        /\ base'[k] = None
    BY FreeFacts
  <1>6. UNCHANGED <<counter, at, age, stage, file, cold, undefined>> /\ late' = late \ {k}
    BY DEF Free, End, transform
  <1>7. k \in held[v]
    BY DEF Free
  <1>8. \A w \in Vic : held[w] \subseteq Key /\ at[w] \in Proc
    BY ProcFacts DEF TypeInv, TypeOK
  <1>9. \A w \in Vic : \A j \in held'[w] : j # k /\ j \in held[w] /\ j \in Key
    BY <1>4, <1>7, <1>8 DEF DataInv, Owned
  <1>10. Owned'
    BY <1>6, <1>9 DEF DataInv, Owned, Fresh
  <1>11. Nowhere'
    <2>1. ASSUME NEW w \in Vic, NEW j \in Key, Fresh(w, j)'
          PROVE  /\ base'[j] = None
                 /\ \A p \in Proc : table'[p][j] = None
                 /\ \A u \in Vic : file[u] # None => file[u][j] = None
      <3>1. Fresh(w, j)
        BY <1>6, <2>1 DEF Fresh
      <3> QED BY <1>2, <1>5, <3>1 DEF DataInv, Nowhere
    <2> QED BY <1>6, <2>1 DEF Nowhere
  <1>12. ASSUME Calm' PROVE ColdEmpty' /\ Kept' /\ Copies'
    <2>1. ColdEmpty /\ Kept /\ Copies
      BY <1>6, <1>12 DEF DataInv, Calm
    <2>2. ColdEmpty'
      <3>1. \A p \in Proc : p # at[v] => table'[p] = table[p]
        BY DEF Free, TypeInv, TypeOK
      <3>2. ~initialized[at[v]] => table'[at[v]] = Empty
        <4>1. CASE ~initialized[at[v]]
          <5>1. table[at[v]] = Empty
            BY <1>1, <2>1, <4>1 DEF ColdEmpty
          <5>2. table' \in [Proc -> Table]
            BY FreeFacts
          <5>3. \A j \in Key : table'[at[v]][j] = Empty[j]
            BY <1>1, <1>2, <5>1, EmptyTyped
          <5> QED BY <1>1, <5>2, <5>3, EmptyTyped DEF Table
        <4> QED BY <4>1
      <3> QED BY <1>3, <2>1, <3>1, <3>2 DEF ColdEmpty
    <2>3. ASSUME NEW w \in Vic, NEW j \in held'[w] \ late'
          PROVE  /\ file[w] # None => Fits(file[w], j)'
                 /\ ~(stage = "import" /\ file[w] # None) => Fits(table[at[w]], j)'
      <3>1. j # k /\ j \in held[w] \ late /\ j \in Key
        BY <1>6, <1>9, <2>3
      <3>2. /\ written'[j] = written[j] /\ base'[j] = base[j]
            /\ table'[at[w]][j] = table[at[w]][j]
        BY <1>2, <1>5, <1>8, <3>1
      <3>3. /\ file[w] # None => Fits(file[w], j)
            /\ ~(stage = "import" /\ file[w] # None) => Fits(table[at[w]], j)
        BY <2>1, <3>1 DEF Kept
      <3> QED BY <1>6, <3>2, <3>3 DEF Fits
    <2>4. Kept'
      BY <1>6, <2>3 DEF Kept
    <2>5. \A w \in Vic : \A j \in held'[w] :
             /\ base'[j] = base[j] /\ (j \notin late' => j \notin late)
             /\ \A p \in Proc : table'[p][j] = table[p][j]
      BY <1>2, <1>5, <1>6, <1>9
    <2>6. Copies'
      BY <1>6, <1>9, <2>1, <2>5, ProcFacts DEF Copies
    <2> QED BY <2>2, <2>4, <2>6
  <1> QED BY <1>10, <1>11, <1>12 DEF DataInv

LEMMA DataSplit ==
  ASSUME TypeInv, DataInv, undefined = "no", Split
  PROVE  DataInv'
  <1>1. /\ stage = "split" /\ stage' = "processes"
        /\ UNCHANGED <<age, op, held, lock, file, written, late, cold>>
    BY SplitFacts
  <1>2. \A v \in Vic : at[v] = Main /\ at'[v] = v /\ file[v] = None
    BY SplitFacts
  <1>3. \A p \in Proc : /\ table'[p] = table[Main] /\ counter'[p] = counter[Main]
                        /\ initialized'[p] = initialized[Main]
    BY SplitFacts
  <1>4. \A k \in Key : base'[k] = IF \E v \in Vic : k \in held[v] THEN table[Main][k] ELSE None
    BY SplitFacts
  <1>5. \A v \in Vic, k \in Key : Fresh(v, k)' <=> Fresh(v, k)
    <2> TAKE v \in Vic, k \in Key
    <2>1. counter'[at'[v]] = counter[at[v]] /\ age' = age
      BY <1>1, <1>2, <1>3, ProcFacts
    <2> QED BY <2>1 DEF Fresh
  <1>6. \A v \in Vic : held[v] \subseteq Key
    BY DEF TypeInv, TypeOK
  <1>7. Owned'
    BY <1>1, <1>5, <1>6 DEF DataInv, Owned
  <1>8. Nowhere'
    <2>1. ASSUME NEW v \in Vic, NEW k \in Key, Fresh(v, k)'
          PROVE  /\ base'[k] = None
                 /\ \A p \in Proc : table'[p][k] = None
                 /\ \A w \in Vic : file[w] # None => file[w][k] = None
      <3>1. table[Main][k] = None
        BY <1>5, <2>1, ProcFacts DEF DataInv, Nowhere
      <3> QED BY <1>2, <1>3, <1>4, <3>1
    <2> QED BY <1>1, <2>1 DEF Nowhere
  <1>9. ASSUME Calm' PROVE ColdEmpty' /\ Kept' /\ Copies'
    <2>1. ColdEmpty /\ Kept
      BY <1>1, <1>9 DEF DataInv, Calm
    <2>2. ColdEmpty'
      BY <1>3, <2>1, ProcFacts DEF ColdEmpty
    <2>3. ASSUME NEW v \in Vic, NEW k \in held[v] \ late PROVE Fits(table[at[v]], k)'
      <3>1. Fits(table[Main], k)
        BY <1>1, <1>2, <2>1 DEF Kept
      <3>2. table'[at'[v]][k] = table[Main][k] /\ base'[k] = table[Main][k]
        BY <1>2, <1>3, <1>4, <1>6, ProcFacts
      <3>3. table[Main][k] \in Value /\ table[Main][k] <= written[k] /\ table[Main][k] # None
        BY <3>1, BoundAssumption DEF Fits, Value
      <3>4. table[Main][k] <= table[Main][k]
        BY <3>3 DEF Value
      <3> QED BY <1>1, <3>2, <3>3, <3>4 DEF Fits
    <2>4. Kept'
      BY <1>1, <1>2, <2>3 DEF Kept
    <2>5. Copies'
      BY <1>1, <1>2, <1>3, <1>4, <1>6 DEF Copies
    <2> QED BY <2>2, <2>4, <2>5
  <1> QED BY <1>7, <1>8, <1>9 DEF DataInv

LEMMA DataMerge ==
  ASSUME TypeInv, DataInv, undefined = "no", Merge
  PROVE  DataInv'
  <1>1. /\ stage = "export" /\ stage' = "import"
        /\ UNCHANGED <<table, initialized, counter, op, held, lock, file, written, base, late, cold>>
    BY MergeFacts
  <1>2. \A v \in Vic : /\ file[v] # None /\ at[v] = v /\ at'[v] = Main
                       /\ age'[v] = age[v] + 1 /\ age[v] \in Nat
    BY MergeFacts
  <1>3. \A v \in Vic : held[v] \subseteq Key
    BY DEF TypeInv, TypeOK
  <1>4. \A v \in Vic : \A k \in held[v] : k[1][1] = v /\ k[1][2] \in Nat /\ k[1][2] <= age[v]
    <2> TAKE v \in Vic
    <2> TAKE k \in held[v]
    <2>1. k[1][1] = v /\ ~Fresh(v, k)
      BY DEF DataInv, Owned
    <2>2. k[1][2] \in Nat /\ age[v] \in Nat
      BY <1>3, KeyFacts
    <2> QED BY <2>1, <2>2 DEF Fresh
  <1>5. Owned'
    <2>1. \A v \in Vic : \A k \in held[v] : k[1][2] < age'[v] /\ age'[v] \in Nat
      BY <1>2, <1>4
    <2>2. \A v \in Vic : \A k \in held[v] : ~Fresh(v, k)'
      BY <1>4, <2>1 DEF Fresh
    <2> QED BY <1>1, <1>4, <2>2 DEF Owned
  <1>6. Nowhere'
    <2>1. ASSUME NEW v \in Vic, NEW k \in Key, Fresh(v, k)' PROVE Fresh(v, k)
      <3>1. k[1][2] \in Nat /\ k[1][2] >= age'[v]
        BY <1>2, <2>1, KeyFacts DEF Fresh
      <3>2. k[1][2] > age[v]
        BY <1>2, <3>1
      <3> QED BY <2>1, <3>2 DEF Fresh
    <2> QED BY <1>1, <2>1 DEF DataInv, Nowhere
  <1>7. ASSUME Calm' PROVE ColdEmpty' /\ Kept' /\ Copies'
    <2>1. ColdEmpty /\ Kept /\ Copies
      BY <1>1, <1>7 DEF DataInv, Calm
    <2>2. ColdEmpty'
      BY <1>1, <2>1 DEF ColdEmpty
    <2>3. Kept'
      BY <1>1, <1>2, <2>1 DEF Kept, Fits
    <2>4. Copies'
      BY <1>1, <2>1, ProcFacts DEF Copies
    <2> QED BY <2>2, <2>3, <2>4
  <1> QED BY <1>5, <1>6, <1>7 DEF DataInv

LEMMA DataExport ==
  ASSUME TypeInv, DataInv, undefined = "no", NEW v \in Vic, Export(v)
  PROVE  DataInv'
  <1>1. /\ UNCHANGED <<table, initialized, counter, at, age, held, lock, stage, written,
                       base, late, cold>>
        /\ stage = "export" /\ file[v] = None
        /\ \A w \in Vic : file'[w] = IF w = v THEN table[v] ELSE file[w]
    BY DEF Export, memory, flowVars, history, TypeInv, TypeOK
  <1>2. at[v] = v /\ v \in Proc
    BY <1>1, ProcFacts DEF TypeInv, Places
  <1>3. Owned'
    BY <1>1 DEF DataInv, Owned, Fresh
  <1>4. Nowhere'
    BY <1>1, <1>2 DEF DataInv, Nowhere, Fresh
  <1>5. ASSUME Calm' PROVE ColdEmpty' /\ Kept' /\ Copies'
    <2>1. ColdEmpty /\ Kept /\ Copies
      BY <1>1, <1>5 DEF DataInv, Calm
    <2>2. ColdEmpty'
      BY <1>1, <2>1 DEF ColdEmpty
    <2>3. Kept'
      BY <1>1, <1>2, <2>1 DEF Kept, Fits
    <2>4. Copies'
      BY <1>1, <1>2, <2>1 DEF Copies
    <2> QED BY <2>2, <2>3, <2>4
  <1> QED BY <1>3, <1>4, <1>5 DEF DataInv

LEMMA DataImport ==
  ASSUME TypeInv, DataInv, undefined = "no", NEW v \in Vic, Import(v)
  PROVE  DataInv'
  <1>1. /\ UNCHANGED <<initialized, counter, at, age, held, stage, written, base, late>>
        /\ stage = "import" /\ file[v] # None
        /\ \A w \in Vic : file'[w] = IF w = v THEN None ELSE file[w]
        /\ cold' = (cold \/ ~initialized[Main])
    BY DEF Import, flowVars, TypeInv, TypeOK
  <1>2. /\ \A p \in Proc \ {Main} : table'[p] = table[p]
        /\ \A k \in Key : table'[Main][k] = IF file[v][k] = None THEN table[Main][k] ELSE file[v][k]
    BY ProcFacts DEF Import, TypeInv, TypeOK
  <1>3. \A w \in Vic : at[w] = Main /\ held[w] \subseteq Key
    BY <1>1 DEF TypeInv, TypeOK, Places
  <1>4. Owned'
    BY <1>1 DEF DataInv, Owned, Fresh
  <1>5. Nowhere'
    <2>1. ASSUME NEW w \in Vic, NEW k \in Key, Fresh(w, k)
          PROVE  /\ base[k] = None
                 /\ \A p \in Proc : table'[p][k] = None
                 /\ \A u \in Vic : file'[u] # None => file'[u][k] = None
      BY <1>1, <1>2, <2>1 DEF DataInv, Nowhere
    <2> QED BY <1>1, <2>1 DEF Nowhere, Fresh
  <1>6. ASSUME Calm' PROVE ColdEmpty' /\ Kept' /\ Copies'
    <2>1. ColdEmpty /\ Kept /\ Copies /\ initialized[Main]
      BY <1>1, <1>6 DEF DataInv, Calm
    <2>2. ColdEmpty'
      BY <1>1, <1>2, <2>1 DEF ColdEmpty
    <2>3. ASSUME NEW w \in Vic, NEW k \in held[w] \ late, file'[w] = None
          PROVE  Fits(table[at[w]], k)'
      <3>1. k \in Key
        BY <1>3
      <3>2. CASE w = v
        <4>1. Fits(file[v], k)
          BY <1>1, <2>1, <2>3, <3>2 DEF Kept
        <4>2. file[v][k] # None
          BY <4>1, BoundAssumption DEF Fits, Value
        <4>3. table'[at'[w]][k] = file[v][k]
          BY <1>1, <1>2, <1>3, <3>1, <4>2
        <4> QED BY <1>1, <4>1, <4>3 DEF Fits
      <3>3. CASE w # v
        <4>1. file[w] = None
          BY <1>1, <2>3, <3>3
        <4>2. Fits(table[Main], k)
          BY <1>1, <1>3, <2>1, <2>3, <4>1 DEF Kept
        <4>3. file[v][k] = base[k]
          BY <1>1, <2>1, <2>3, <3>3 DEF Copies
        <4>4. CASE base[k] = None
          <5>1. table'[at'[w]][k] = table[Main][k]
            BY <1>1, <1>2, <1>3, <3>1, <4>3, <4>4
          <5> QED BY <1>1, <4>2, <5>1 DEF Fits
        <4>5. CASE base[k] # None
          <5>1. table'[at'[w]][k] = base[k]
            BY <1>1, <1>2, <1>3, <3>1, <4>3, <4>5
          <5>2. base[k] \in Value
            BY <3>1, <4>5 DEF TypeInv, TypeOK, Table
          <5>3. written[k] \in Value
            BY <3>1 DEF TypeInv, TypeOK
          <5>4. base[k] <= table[Main][k] /\ table[Main][k] <= written[k] /\ table[Main][k] \in Value
            BY <4>2, <4>5 DEF Fits
          <5>5. base[k] <= written[k] /\ base[k] <= base[k]
            BY <5>2, <5>3, <5>4 DEF Value
          <5> QED BY <1>1, <4>5, <5>1, <5>2, <5>5 DEF Fits
        <4> QED BY <4>4, <4>5
      <3> QED BY <3>2, <3>3
    <2>4. ASSUME NEW w \in Vic, NEW k \in held[w] \ late, file'[w] # None
          PROVE  Fits(file[w], k)'
      <3>1. file'[w] = file[w] /\ file[w] # None
        BY <1>1, <2>4
      <3>2. Fits(file[w], k)
        BY <2>1, <3>1 DEF Kept
      <3> QED BY <1>1, <3>1, <3>2 DEF Fits
    <2>5. Kept'
      BY <1>1, <2>3, <2>4 DEF Kept
    <2>6. ASSUME NEW w \in Vic, NEW k \in held[w], file'[w] # None, k \notin late
          PROVE  table'[Main][k] = base[k]
      <3>1. w # v /\ file[w] # None /\ k \in Key
        BY <1>1, <1>3, <2>6
      <3>2. table[Main][k] = base[k] /\ file[v][k] = base[k]
        BY <1>1, <2>1, <2>6, <3>1 DEF Copies
      <3> QED BY <1>2, <3>1, <3>2
    <2>7. Copies'
      BY <1>1, <2>1, <2>6 DEF Copies
    <2> QED BY <2>2, <2>5, <2>7
  <1> QED BY <1>4, <1>5, <1>6 DEF DataInv

LEMMA DataNext == ASSUME TypeInv, DataInv, [Next]_vars PROVE DataInv'
  <1>1. CASE UNCHANGED vars
    BY <1>1, DataSame DEF vars, memory, flowVars, transform, history, Calm
  <1> SUFFICES ASSUME Next PROVE DataInv'
    BY <1>1
  <1>2. undefined = "no"
    BY DEF Next
  <1>3. ASSUME NEW v \in Vic, BeginAllocate(v) \/ BeginReceive(v) PROVE DataInv'
    BY <1>2, <1>3, DataAllocate DEF BeginAllocate, BeginReceive
  <1>4. ASSUME NEW v \in Vic, BeginFree(v) PROVE DataInv'
    <2>1. /\ UNCHANGED <<table, initialized, counter, at, age, held, stage, file, written,
                         base, late, cold>>
      BY <1>4 DEF BeginFree, Begin, transform, history
    <2> QED BY <1>2, <2>1, DataSame DEF Calm
  <1>5. CASE \E v \in Vic : FlowNext(v)
    BY <1>2, <1>3, <1>4, <1>5, DataInsert, DataWrite, DataFree DEF FlowNext
  <1>6. CASE Prepare \/ Imported \/ \E v \in Vic : LockFlow(v) \/ UnlockFlow(v)
    <2>1. UNCHANGED <<table, initialized, counter, at, age, held, file, written, base, late,
                      cold, undefined>>
      BY <1>6 DEF Prepare, Imported, LockFlow, UnlockFlow, memory, flowVars, history, transform
    <2>2. \/ stage' = stage
          \/ stage = "threads" /\ stage' = "split"
          \/ stage = "processes" /\ stage' = "export"
          \/ stage = "import" /\ stage' = "threads" /\ \A v \in Vic : file[v] = None
      BY <1>6 DEF Prepare, Imported, LockFlow, UnlockFlow, transform
    <2> QED BY <2>1, <2>2, DataSame DEF Calm
  <1>7. CASE TransformNext
    BY <1>2, <1>6, <1>7, DataSplit, DataMerge, DataExport, DataImport DEF TransformNext
  <1> QED BY <1>5, <1>7 DEF Next

LEMMA Invariance == Spec => [](TypeInv /\ DataInv)
  BY TypeInvInit, DataInit, TypeInvNext, DataNext, PTL DEF Spec

\* What a flow may use is in the map of its process and has a value that fits.
LEMMA UsableFits ==
  ASSUME TypeInv, DataInv, NEW v \in Vic, Usable(v), NEW k \in held[v] \ late
  PROVE  k \in Key /\ Fits(table[at[v]], k)
  <1>1. Calm /\ file[v] = None
    BY DEF Usable, Calm, TypeInv, TypeOK
  <1> QED BY <1>1 DEF DataInv, Kept, TypeInv, TypeOK

\* A flow never reads through a pointer that its process does not know, after
\* any number of splits and merges: allocation, copying, export and import keep
\* every block of a flow in the map of the process the flow is in.
THEOREM Pointers == Spec => []PointersValid
  <1>1. ASSUME TypeInv, DataInv PROVE PointersValid
    <2>1. ASSUME NEW v \in Vic, Usable(v), NEW k \in held[v] \ late
          PROVE  table[at[v]][k] # None
      BY <1>1, <2>1, UsableFits, BoundAssumption DEF Fits, Value
    <2> QED BY <2>1 DEF PointersValid
  <1> QED BY <1>1, Invariance, PTL

\* A block made after the split has the value last written by its flow, though
\* other processes' maps were imported over it; one from before the split is
\* never older than it was then.
THEOREM Updates == Spec => []NoUpdateLost
  <1>1. ASSUME TypeInv, DataInv PROVE NoUpdateLost
    <2>1. ASSUME NEW v \in Vic, Usable(v), NEW k \in held[v] \ late
          PROVE  IF base[k] = None THEN table[at[v]][k] = written[k]
                 ELSE table[at[v]][k] >= base[k]
      <3>1. k \in Key /\ Fits(table[at[v]], k)
        BY <1>1, <2>1, UsableFits
      <3>2. base[k] # None => base[k] \in Nat /\ table[at[v]][k] \in Nat
        BY <1>1, <3>1 DEF Fits, TypeInv, TypeOK, Table, Value
      <3> QED BY <3>1, <3>2 DEF Fits
    <2> QED BY <2>1 DEF NoUpdateLost
  <1> QED BY <1>1, Invariance, PTL

\* A new block never gets the key of one that is in use: the thread id tells
\* apart the keys given out in different processes from the same counter.
THEOREM BlocksNotReused == Spec => NoBlockReused
  <1>1. ASSUME TypeInv, DataInv, [Next]_vars
        PROVE  [\A v \in Vic, k \in Key :
                   k \in held[v] \cap held'[v] => written'[k] >= written[k]]_vars
    <2>0. \A k \in Key : written[k] \in Nat
      BY <1>1 DEF TypeInv, TypeOK, Value
    <2>2. CASE UNCHANGED vars
      BY <2>2
    <2> SUFFICES ASSUME Next, NEW v \in Vic, NEW k \in held[v] \cap held'[v], k \in Key
                 PROVE  written'[k] >= written[k]
      BY <1>1, <2>2
    <2>3. undefined = "no"
      BY DEF Next
    <2>4. ASSUME NEW w \in Vic, Insert(w) PROVE written'[k] >= written[k]
      <3>1. k # NewKey(w)
        BY <1>1, <2>3, <2>4, NewKeyFresh
      <3>2. written'[k] = written[k]
        BY <1>1, <2>3, <2>4, <3>1, InsertFacts
      <3> QED BY <2>0, <3>2
    <2>5. ASSUME NEW w \in Vic, NEW j \in Key, Write(w, j) PROVE written'[k] >= written[k]
      <3>1. written'[k] = IF k = j THEN written[j] + 1 ELSE written[k]
        BY <1>1, <2>3, <2>5, WriteFacts
      <3> QED BY <2>0, <3>1
    <2>6. ASSUME NEW w \in Vic, NEW j \in Key, Free(w, j) PROVE written'[k] >= written[k]
      <3>1. k # j
        <4>1. \A u \in Vic : held'[u] = IF u = w THEN held[u] \ {j} ELSE held[u]
          BY <1>1, <2>6 DEF Free, TypeInv, TypeOK
        <4>2. j \in held[w]
          BY <2>6 DEF Free
        <4>3. k[1][1] = v
          BY <1>1 DEF DataInv, Owned
        <4>4. j[1][1] = w
          BY <1>1, <4>2 DEF DataInv, Owned
        <4>5. k = j => v = w
          BY <4>3, <4>4
        <4>6. held'[v] = IF v = w THEN held[v] \ {j} ELSE held[v]
          BY <4>1
        <4>7. k \in held'[v]
          OBVIOUS
        <4> QED BY <4>5, <4>6, <4>7
      <3>2. written'[k] = written[k]
        BY <1>1, <2>3, <2>6, <3>1, FreeFacts
      <3> QED BY <2>0, <3>2
    <2>7. CASE \E w \in Vic : BeginAllocate(w) \/ BeginReceive(w) \/ BeginFree(w)
      BY <2>0, <2>7 DEF BeginAllocate, BeginReceive, BeginFree, Begin, history
    <2>8. CASE TransformNext
      <3>1. written' = written
        BY <2>8 DEF TransformNext, Prepare, Split, Merge, Imported, LockFlow, UnlockFlow,
                    Export, Import, history
      <3> QED BY <2>0, <3>1
    <2> QED BY <2>4, <2>5, <2>6, <2>7, <2>8 DEF Next, FlowNext
  <1> QED BY <1>1, Invariance, PTL DEF Spec, NoBlockReused

-----------------------------------------------------------------------------
(* The refinement of Migration.                                            *)

PhaseOf == [v \in Vic |-> IF op[v] = "none" THEN "out" ELSE "in"]

LEMMA StepPhase ==
  ASSUME TypeInv, NEW v \in Vic, NEW o \in {"none", "allocate", "receive", "free"},
         op' = [op EXCEPT ![v] = o], UNCHANGED at, UNCHANGED undefined,
         op[v] = "none" <=> o # "none"
  PROVE  Migrating!Enter(v) \/ Migrating!Leave(v)
  <1>1. PhaseOf' = [PhaseOf EXCEPT ![v] = IF o = "none" THEN "out" ELSE "in"]
    BY DEF PhaseOf, TypeInv, TypeOK
  <1>2. PhaseOf[v] = IF op[v] = "none" THEN "out" ELSE "in"
    BY DEF PhaseOf
  <1> QED BY <1>1, <1>2 DEF PhaseOf, Migrating!Enter, Migrating!Leave, Migrating!Step

LEMMA MigratingStep ==
  ASSUME TypeInv, OnlyBareAllocationDisturbed, [Next]_vars
  PROVE  [Migrating!Next]_Migrating!vars
  <1>1. CASE UNCHANGED vars
    BY <1>1 DEF vars, flowVars, Migrating!vars
  <1> SUFFICES ASSUME Next PROVE [Migrating!Next]_Migrating!vars
    BY <1>1
  <1>2. undefined = "no" /\ TypeInv' /\ undefined' # "other"
    BY TypeInvNext, OnlyBareStep DEF Next, OnlyBareAllocationDisturbed
  <1>3. undefined' \in {"no", "flows", "allocate"}
    BY <1>2 DEF TypeInv, TypeOK
  <1>4. CASE undefined' # "no"
    BY <1>3, <1>4 DEF Migrating!Next, Migrating!Break
  <1> SUFFICES ASSUME undefined' = "no" PROVE [Migrating!Next]_Migrating!vars
    BY <1>4
  <1>5. ASSUME NEW v \in Vic, BeginAllocate(v) \/ BeginReceive(v) \/ BeginFree(v)
        PROVE  Migrating!Next
    <2>1. ASSUME NEW o \in {"allocate", "receive", "free"}, Begin(v, o)
          PROVE  Migrating!Next
      <3>1. op' = [op EXCEPT ![v] = o] /\ op[v] = "none" /\ at' = at
        BY <2>1 DEF Begin
      <3> QED BY <1>2, <3>1, StepPhase DEF Migrating!Next
    <2> QED BY <1>5, <2>1 DEF BeginAllocate, BeginReceive, BeginFree
  <1>6. ASSUME NEW v \in Vic, NEW o \in {"allocate", "receive", "free"}, End(v, o)
        PROVE  Migrating!Next
    <2>1. op' = [op EXCEPT ![v] = "none"] /\ op[v] = o /\ at' = at
      BY <1>6 DEF End
    <2> QED BY <1>2, <2>1, StepPhase DEF Migrating!Next
  <1>7. ASSUME UNCHANGED <<at, op>> PROVE UNCHANGED Migrating!vars
    BY <1>2, <1>7 DEF Migrating!vars
  <1>8. CASE \E v \in Vic : FlowNext(v)
    <2>1. ASSUME NEW v \in Vic, NEW k \in Key, Write(v, k) PROVE UNCHANGED <<at, op>>
      BY <2>1 DEF Write, flowVars
    <2> QED BY <1>5, <1>6, <1>7, <1>8, <2>1 DEF FlowNext, Insert, Free
  <1>9. CASE Split
    <2>1. \A v \in Vic : at[v] = Main /\ at'[v] = v /\ op[v] = "none" /\ op' = op
      BY <1>2, <1>9, SplitFacts
    <2>2. Migrating!Threads /\ Migrating!Processes' /\ Migrating!Quiet
      BY <2>1 DEF Migrating!Threads, Migrating!Processes, Migrating!Quiet
    <2>3. at' \in [Vic -> Vic \cup {Main}] /\ op' = op
      BY <1>2, <1>9, SplitFacts DEF TypeInv, TypeOK, Proc
    <2>4. Migrating!Split
      BY <1>2, <2>2, <2>3 DEF Migrating!Split, Migrating!Place
    <2> QED BY <2>4 DEF Migrating!Next
  <1>10. CASE Merge
    <2>1. \A v \in Vic : at[v] = v /\ at'[v] = Main /\ op[v] = "none" /\ op' = op
      BY <1>2, <1>10, MergeFacts
    <2>2. Migrating!Processes /\ Migrating!Threads' /\ Migrating!Quiet
      BY <2>1 DEF Migrating!Threads, Migrating!Processes, Migrating!Quiet
    <2>3. at' \in [Vic -> Vic \cup {Main}] /\ op' = op
      BY <1>2, <1>10, MergeFacts DEF TypeInv, TypeOK, Proc
    <2>4. Migrating!Merge
      BY <1>2, <2>2, <2>3 DEF Migrating!Merge, Migrating!Place
    <2> QED BY <2>4 DEF Migrating!Next
  <1>11. CASE Prepare \/ Imported \/ \E v \in Vic : LockFlow(v) \/ UnlockFlow(v) \/ Export(v) \/ Import(v)
    <2>1. UNCHANGED <<at, op>>
      BY <1>11 DEF Prepare, Imported, LockFlow, UnlockFlow, Export, Import, flowVars
    <2> QED BY <1>7, <2>1
  <1> QED BY <1>8, <1>9, <1>10, <1>11 DEF Next, TransformNext

\* The model of the data implements Migration: no flow is moved in the middle of
\* an operation on its data, unless the program does what C leaves undefined.
THEOREM Implements == Spec => Migrates
  <1>1. Init => Migrating!Init
    <2> SUFFICES ASSUME Init PROVE Migrating!Init
      OBVIOUS
    <2>1. TypeOK
      BY TypeInvInit DEF TypeInv
    <2>2. PhaseOf = [v \in Vic |-> "out"] /\ undefined = "no" /\ \A v \in Vic : at[v] = Main
      BY DEF Init, PhaseOf
    <2> QED BY <2>1, <2>2 DEF PhaseOf, TypeOK, Proc, Migrating!Init, Migrating!TypeOK,
              Migrating!Place, Migrating!Phase, Migrating!Threads
  <1>2. Init => OnlyBareAllocationDisturbed
    BY DEF Init, OnlyBareAllocationDisturbed
  <1> QED BY <1>1, <1>2, TypeInvInit, TypeInvNext, OnlyBareStep, MigratingStep, PTL
          DEF Spec, Migrates, Migrating!Spec

-----------------------------------------------------------------------------
(* Programs whose routines allocate in receives only.                      *)

\* No bare allocation was begun, and none noticed.
NothingBare ==
    late = {} /\ undefined \in {"no", "flows"} /\ \A v \in Vic : op[v] # "allocate"

LEMMA NothingBareStep ==
  ASSUME ~Bare, TypeInv, NothingBare, [Next]_vars PROVE NothingBare'
  <1>1. CASE UNCHANGED vars
    BY <1>1 DEF vars, flowVars, memory, history, NothingBare
  <1> SUFFICES ASSUME Next PROVE NothingBare'
    BY <1>1
  <1>2. undefined = "no" /\ TypeOK
    BY DEF Next, TypeInv
  <1>3. ASSUME NEW v \in Vic, NEW o \in {"receive", "free"}, Begin(v, o) PROVE NothingBare'
    <2>1. op' = [op EXCEPT ![v] = o] /\ late' = late /\ undefined' \in {"no", "flows"}
      BY <1>2, <1>3 DEF Begin, history
    <2> QED BY <1>2, <2>1 DEF NothingBare, TypeOK
  <1>4. ASSUME NEW v \in Vic, Insert(v) \/ \E k \in Key : Free(v, k) PROVE NothingBare'
    <2>1. op' = [op EXCEPT ![v] = "none"] /\ undefined' = undefined /\ late' = {}
      BY <1>4 DEF Insert, Free, End, NothingBare
    <2> QED BY <1>2, <2>1 DEF NothingBare, TypeOK
  <1>5. ASSUME NEW v \in Vic, NEW k \in Key, Write(v, k) PROVE NothingBare'
    BY <1>2, <1>5 DEF Write, flowVars, NothingBare
  <1>6. CASE \E v \in Vic : FlowNext(v)
    BY <1>3, <1>4, <1>5, <1>6 DEF FlowNext, BeginAllocate, BeginReceive, BeginFree
  <1>7. ASSUME NEW P, Disturbed(P), \A v \in Vic : at[v] \in P => lock[v] = "prep"
        PROVE  undefined' = "no"
    <2>1. \A v \in Vic : at[v] \in P => op[v] = "none"
      BY <1>2, <1>7 DEF TypeOK, NothingBare
    <2>2. {op[v] : v \in {w \in Vic : at[w] \in P}} \ {"none"} = {}
      BY <2>1
    <2> QED BY <1>2, <1>7, <2>2 DEF Disturbed
  <1>8. CASE Split
    BY <1>2, <1>7, <1>8 DEF Split, NothingBare
  <1>9. CASE Merge
    BY <1>2, <1>7, <1>9 DEF Merge, NothingBare, history
  <1>10. ASSUME NEW v \in Vic, Export(v) PROVE NothingBare'
    <2>1. \A w \in Vic : at[w] \in {v} => w = v
      BY <1>10 DEF TypeInv, Places, Export
    <2> QED BY <1>2, <1>7, <1>10, <2>1 DEF Export, NothingBare, flowVars, history
  <1>11. ASSUME NEW v \in Vic, Import(v) PROVE NothingBare'
    <2>1. \A w \in Vic : lock[w] = "prep"
      BY <1>11 DEF TypeInv, LockedImport, Import
    <2> QED BY <1>2, <1>7, <1>11, <2>1 DEF Import, NothingBare, flowVars
  <1>12. CASE Prepare \/ Imported \/ \E v \in Vic : LockFlow(v) \/ UnlockFlow(v)
    BY <1>2, <1>12 DEF Prepare, Imported, LockFlow, UnlockFlow, flowVars, history, NothingBare
  <1> QED BY <1>6, <1>8, <1>9, <1>10, <1>11, <1>12 DEF Next, TransformNext

\* In a program that allocates in vic_ef_recv only, no transformation ever meets
\* an operation on a map, and every block of a flow keeps its address and its
\* value: the exceptions of the properties above are those of a bare allocation.
THEOREM ReceivesAreSafe ==
  ASSUME ~Bare
  PROVE  Spec => [](/\ undefined \in {"no", "flows"}
                    /\ \A v \in Vic : Usable(v) => \A k \in held[v] :
                          IF base[k] = None THEN table[at[v]][k] = written[k]
                          ELSE table[at[v]][k] >= base[k])
  <1>1. Init => NothingBare
    BY DEF Init, NothingBare
  <1>2. TypeInv /\ NothingBare /\ [Next]_vars => NothingBare'
    BY NothingBareStep
  <1>3. NothingBare /\ NoUpdateLost =>
          /\ undefined \in {"no", "flows"}
          /\ \A v \in Vic : Usable(v) => \A k \in held[v] :
                IF base[k] = None THEN table[at[v]][k] = written[k]
                ELSE table[at[v]][k] >= base[k]
    BY DEF NothingBare, NoUpdateLost
  <1>4. Spec => []TypeInv
    BY TypeInvInit, TypeInvNext, PTL DEF Spec
  <1>5. Spec => []NothingBare
    BY <1>1, <1>2, <1>4, PTL DEF Spec
  <1> QED BY <1>3, <1>5, Updates, PTL

=============================================================================
