------------------------- MODULE PublicConfigProofs -------------------------
(***************************************************************************)
(* Theorems about the tables of scenes, bindings and tasks, for tables and *)
(* flash pages of any size, whatever is requested, fails or loses power.   *)
(***************************************************************************)
EXTENDS PublicConfig, FiniteSetTheorems, TLAPS

(***************************************************************************)
(* The inductive invariant.  The counted entries are the first ones, in    *)
(* RAM and in flash, and no two of them say the same; while a table is     *)
(* saved, its flash holds what has not been erased or what has been        *)
(* programmed; and a saved table is the one in RAM.                        *)
(***************************************************************************)

\* The first n entries of a table are in use, and no others.
Filled(t, table, n) == \A i \in Index(t) : i < n <=> Counts(t, table[i])

\* Two entries of table t that must not be both there.
Clash(t, e, f) ==
  \/ t = "scene" /\ e.key # Blank /\ e.key = f.key
  \/ t = "bind" /\ e.val # Blank /\ f.val # Blank /\ e.key = f.key
  \/ t = "group" /\ e.key # Blank /\ e.val # Blank /\ e = f

Once(t, table) == \A i, j \in Index(t) : i # j => ~Clash(t, table[i], table[j])

RamOK ==
  \A t \in Counted : /\ t \notin stale => Filled(t, ram[t], active[t])
                     /\ t \notin stale \/ t = "scene" => Once(t, ram[t])

FlashOK ==
  \A t \in Counted :
    /\ t \notin stale \cup gap => \E n \in 0 .. Size[t] : Filled(t, flash[t], n)
    /\ t \notin stale \cup gap \/ t = "scene" => Once(t, flash[t])

\* The pages before the one to be erased are blank; a table of one page is
\* the old one until then.
EraseOK ==
  job.kind = "erase" =>
    /\ \A i \in Index(job.table) :
         /\ Page(job.table, i, 0) < job.at => flash[job.table][i].key = Blank
         /\ Page(job.table, i, 1) < job.at => flash[job.table][i].val = Blank
    /\ job.table # "scene" => flash[job.table] = before

\* The entries before the one to be programmed are the new ones; those behind
\* it are blank.
ProgramOK ==
  job.kind = "program" =>
    \A i \in Index(job.table) :
      flash[job.table][i] = IF i < job.at THEN ram[job.table][i]
                            ELSE IF i = job.at /\ job.half THEN Entry(ram[job.table][i].key, Blank)
                            ELSE BlankEntry

\* A table that is being saved is cut until it is; one that is not cut and
\* that no deletion has touched is the same in RAM and in flash.
SavedOK ==
  /\ job.half => job.kind = "program" /\ job.table # "bind"
  /\ job.kind \in {"erase", "program"} => job.table \in cut
  /\ \A t \in Tables \ (cut \cup stale) :
       (job.kind = "delete" /\ job.table = t) \/ ram[t] = flash[t]

\* The tables are indexed by their names.
Named ==
  /\ ram = [t \in Tables |-> ram[t]] /\ flash = [t \in Tables |-> flash[t]]
  /\ active = [t \in Counted |-> active[t]]

ConfigInv == RamOK /\ FlashOK /\ EraseOK /\ ProgramOK /\ SavedOK

(***************************************************************************)
(* Sizes, pages and entries.                                               *)
(***************************************************************************)
LEMMA SizeType ==
  ASSUME NEW t \in Tables
  PROVE  Size[t] \in Nat \ {0} /\ 0 \in Index(t)
BY ConfigAssumption DEF Tables, Size, Index

LEMMA DivMono ==
  ASSUME NEW a \in Nat, NEW b \in Nat, a <= b, NEW d \in Nat \ {0}
  PROVE  a \div d \in Nat /\ b \div d \in Nat /\ a \div d <= b \div d
OBVIOUS

LEMMA PageType ==
  ASSUME NEW t \in Tables
  PROVE  /\ Pages(t) \in Nat \ {0}
         /\ \A i \in Index(t), k \in {0, 1} : Page(t, i, k) \in 0 .. Pages(t) - 1
         /\ t # "scene" => Pages(t) = 1
<1>1. CASE t # "scene"
  BY <1>1 DEF Page, Pages
<1>2. CASE t = "scene"
  <2>1. PartsPerPage \in Nat \ {0} /\ Size[t] \in Nat \ {0}
    BY SizeType, ConfigAssumption
  <2> DEFINE last == 2 * (Size[t] - 1) + 1
  <2>2. last \in Nat
    BY <2>1
  <2>3. last \div PartsPerPage \in Nat /\ Pages(t) = (last \div PartsPerPage) + 1
    BY <1>2, <2>1, <2>2, DivMono DEF Page, Pages
  <2>4. ASSUME NEW i \in Index(t), NEW k \in {0, 1}
        PROVE  Page(t, i, k) \in 0 .. Pages(t) - 1
    <3>1. 2 * i + k \in Nat /\ 2 * i + k <= last
      BY <2>1 DEF Index
    <3>2. (2 * i + k) \div PartsPerPage \in Nat
          /\ (2 * i + k) \div PartsPerPage <= last \div PartsPerPage
      BY <2>1, <2>2, <3>1, DivMono
    <3>3. Page(t, i, k) = (2 * i + k) \div PartsPerPage
      BY <1>2 DEF Page
    <3> HIDE DEF last
    <3>4. QED
      BY <2>3, <3>2, <3>3
  <2>5. QED
    BY <1>2, <2>3, <2>4
<1>3. QED
  BY <1>1, <1>2

LEMMA FieldSets ==
  ASSUME NEW S, NEW K, NEW V, S = [key : K \cup {Blank}, val : V \cup {Blank}]
  PROVE  \E A, B : S = [key : A, val : B] /\ Blank \in A /\ Blank \in B
<1>1. PICK A, B : A = K \cup {Blank} /\ B = V \cup {Blank}
  OBVIOUS
<1>2. S = [key : A, val : B] /\ Blank \in A /\ Blank \in B
  BY <1>1
<1>3. QED
  BY <1>2, Zenon

LEMMA InputsType ==
  ASSUME NEW t \in Tables
  PROVE  \E K, V : Inputs[t] = [key : K, val : V] /\ Blank \in K /\ Blank \in V
<1>1. CASE t = "scene"
  <2>1. Inputs[t] = [key : SceneIds \cup {Blank}, val : SceneSettings \cup {Blank}]
    BY <1>1 DEF Inputs, Tables
  <2>2. QED
    BY <2>1, FieldSets
<1>2. CASE t = "bind"
  <2>1. Inputs[t] = [key : Keys \cup {Blank}, val : KeyScenes \cup {Blank}]
    BY <1>2 DEF Inputs, Tables
  <2>2. QED
    BY <2>1, FieldSets
<1>3. CASE t = "group"
  <2>1. Inputs[t] = [key : GroupAddrs \cup {Blank}, val : GroupSettings \cup {Blank}]
    BY <1>3 DEF Inputs, Tables
  <2>2. QED
    BY <2>1, FieldSets
<1>4. CASE t = "task"
  <2>1. Inputs[t] = [key : TaskScenes \cup {Blank}, val : TaskSettings \cup {Blank}]
    BY <1>4 DEF Inputs, Tables
  <2>2. QED
    BY <2>1, FieldSets
<1>5. QED
  BY <1>1, <1>2, <1>3, <1>4 DEF Tables

LEMMA EntryType ==
  ASSUME NEW t \in Tables
  PROVE  /\ BlankEntry \in Inputs[t]
         /\ \A e, f \in Inputs[t] : Entry(e.key, f.val) \in Inputs[t]
         /\ \A e \in Inputs[t] : /\ e = Entry(e.key, e.val)
                                 /\ Entry(e.key, Blank) \in Inputs[t]
                                 /\ Entry(Blank, e.val) \in Inputs[t]
<1>1. PICK K, V : Inputs[t] = [key : K, val : V] /\ Blank \in K /\ Blank \in V
  BY InputsType
<1>2. QED
  BY <1>1 DEF Entry, BlankEntry

\* The fields of an entry.
LEMMA Fields ==
  ASSUME NEW k, NEW v
  PROVE  Entry(k, v).key = k /\ Entry(k, v).val = v
BY DEF Entry

LEMMA ErasedType ==
  ASSUME TypeOK, NEW t \in Tables, NEW p
  PROVE  Erased(t, p) \in [Index(t) -> Inputs[t]]
<1> SUFFICES ASSUME NEW i \in Index(t)
             PROVE  Erased(t, p)[i] \in Inputs[t]
  BY DEF Erased
<1>1. flash[t][i] \in Inputs[t]
  BY DEF TypeOK
<1>2. Erased(t, p)[i] \in {Entry(Blank, Blank), Entry(Blank, flash[t][i].val),
                           Entry(flash[t][i].key, Blank), Entry(flash[t][i].key, flash[t][i].val)}
  BY DEF Erased
<1>3. QED
  BY <1>1, <1>2, EntryType DEF BlankEntry

(***************************************************************************)
(* Type correctness.                                                       *)
(***************************************************************************)
JobType(j) ==
  /\ j.kind \in {"idle", "erase", "program", "delete"}
  /\ j.table \in Tables /\ j.half \in BOOLEAN
  /\ j.at \in IF j.kind = "program" THEN Index(j.table) ELSE 0 .. Pages(j.table) - 1

LEMMA JobTypes ==
  /\ JobType(Idle)
  /\ \A t \in Tables : /\ JobType(Erasing(t, 0)) /\ JobType(Deleting(t, 0))
                       /\ JobType(Writing(t, 0))
  /\ \A t \in Tables : \A p \in 0 .. Pages(t) - 1 :
       p + 1 < Pages(t) => JobType(Erasing(t, p + 1)) /\ JobType(Deleting(t, p + 1))
  /\ \A t \in Tables : \A i \in Index(t) :
       /\ JobType([Writing(t, i) EXCEPT !.half = TRUE])
       /\ i + 1 < Size[t] => JobType(Writing(t, i + 1))
<1>1. "task" \in Tables
  BY DEF Tables
<1>2. JobType(Idle)
  BY <1>1, PageType DEF JobType, Idle
<1>3. ASSUME NEW t \in Tables
      PROVE  JobType(Erasing(t, 0)) /\ JobType(Deleting(t, 0)) /\ JobType(Writing(t, 0))
  BY PageType, SizeType DEF JobType, Erasing, Deleting, Writing
<1>4. ASSUME NEW t \in Tables, NEW p \in 0 .. Pages(t) - 1, p + 1 < Pages(t)
      PROVE  JobType(Erasing(t, p + 1)) /\ JobType(Deleting(t, p + 1))
  BY <1>4, PageType DEF JobType, Erasing, Deleting
<1>5. ASSUME NEW t \in Tables, NEW i \in Index(t)
      PROVE  JobType([Writing(t, i) EXCEPT !.half = TRUE])
  BY DEF JobType, Writing
<1>6. ASSUME NEW t \in Tables, NEW i \in Index(t), i + 1 < Size[t]
      PROVE  JobType(Writing(t, i + 1))
  BY <1>6, SizeType DEF JobType, Writing, Index
<1>7. QED
  BY <1>2, <1>3, <1>4, <1>5, <1>6

(***************************************************************************)
(* What a request writes: an entry of its table, which is in use, leaves   *)
(* no gap and clashes with no other.                                       *)
(***************************************************************************)
Fits(t, i, e) ==
  /\ Counts(t, e)
  /\ t \notin stale => i <= active[t]
  /\ t \notin stale \/ t = "scene" =>
       \A j \in Index(t) : j # i => ~Clash(t, ram[t][j], e) /\ ~Clash(t, e, ram[t][j])

Inserting ==
  /\ job = Idle /\ deleted' \subseteq deleted
  /\ \E t \in Counted : \E i \in Index(t), e \in Inputs[t], limit \in 0 .. Size[t] :
       Insert(t, i, e, limit) /\ Fits(t, i, e)

LEMMA PlaceType ==
  ASSUME TypeOK, NEW t \in Counted, NEW limit \in 0 .. Size[t],
         NEW same \in SUBSET Index(t), NEW i \in FirstIn(same, active[t]), NEW e,
         Insert(t, i, e, limit)
  PROVE  /\ i \in Index(t)
         /\ i \in same \/ (same = {} /\ i = active[t])
<1>1. active[t] \in 0 .. Size[t] /\ Size[t] \in Nat
  BY SizeType DEF TypeOK, Counted, Tables
<1>2. CASE same = {}
  BY <1>1, <1>2 DEF FirstIn, Insert, Index
<1>3. CASE same # {}
  BY <1>3 DEF FirstIn
<1>4. QED
  BY <1>2, <1>3

LEMMA SceneInserted ==
  ASSUME TypeOK, RamOK, NEW id \in SceneIds, NEW v \in SceneSettings, SetScene(id, v)
  PROVE  Inserting
<1> DEFINE same == {i \in Index("scene") : ram["scene"][i].key = id}
           e == Entry(id, v)
<1>1. PICK i \in FirstIn(same, active["scene"]) : Insert("scene", i, e, SCENE_ID_MAX)
  BY DEF SetScene
<1>2. "scene" \in Counted /\ SCENE_ID_MAX \in 0 .. Size["scene"] /\ id # Blank
      /\ job = Idle /\ deleted' \subseteq deleted
  BY ConfigAssumption DEF Counted, Size, Tables, SetScene, TypeOK
<1>3. i \in Index("scene") /\ (i \in same \/ (same = {} /\ i = active["scene"]))
  BY <1>1, <1>2, PlaceType
<1>4. e.key = id /\ e \in Inputs["scene"]
  BY DEF Entry, Inputs, Tables
<1>5. Fits("scene", i, e)
  <2>1. Counts("scene", e)
    BY <1>2, <1>4 DEF Counts
  <2>2. ASSUME "scene" \notin stale
        PROVE  i <= active["scene"]
    <3>1. active["scene"] \in Int /\ i \in Int
      BY <1>2, <1>3 DEF TypeOK, Index
    <3>2. CASE i \in same
      <4>1. Counts("scene", ram["scene"][i])
        BY <1>2, <3>2 DEF Counts
      <4>2. QED
        BY <1>2, <1>3, <2>2, <3>1, <4>1 DEF RamOK, Filled
    <3>3. QED
      BY <1>3, <3>1, <3>2
  <2>3. ASSUME NEW j \in Index("scene"), j # i
        PROVE  ram["scene"][j].key # id
    BY <1>2, <1>3, <2>3 DEF RamOK, Once, Clash
  <2>4. QED
    BY <1>4, <2>1, <2>2, <2>3 DEF Fits, Clash
<1>6. QED
  BY <1>1, <1>2, <1>3, <1>4, <1>5 DEF Inserting

LEMMA BindInserted ==
  ASSUME TypeOK, RamOK, NEW k \in Keys, NEW v \in KeyScenes, SetBind(k, v)
  PROVE  Inserting
<1> DEFINE same == {i \in Index("bind") : i < active["bind"] /\ ram["bind"][i].key = k}
           e == Entry(k, v)
<1>1. PICK i \in FirstIn(same, active["bind"]) : Insert("bind", i, e, SCENE_ID_MAX)
  BY DEF SetBind
<1>2. "bind" \in Counted /\ SCENE_ID_MAX \in 0 .. Size["bind"] /\ v # Blank
      /\ job = Idle /\ deleted' \subseteq deleted
  BY ConfigAssumption DEF Counted, Size, Tables, SetBind, TypeOK
<1>3. i \in Index("bind") /\ (i \in same \/ (same = {} /\ i = active["bind"]))
  BY <1>1, <1>2, PlaceType
<1>4. e.key = k /\ e.val = v /\ e \in Inputs["bind"]
  BY DEF Entry, Inputs, Tables
<1>5. Fits("bind", i, e)
  <2>1. Counts("bind", e)
    BY <1>2, <1>4 DEF Counts
  <2>2. i <= active["bind"]
    BY <1>2, <1>3 DEF TypeOK, Index
  <2>3. ASSUME "bind" \notin stale, NEW j \in Index("bind"), j # i, ram["bind"][j].val # Blank
        PROVE  ram["bind"][j].key # k
    <3>1. j < active["bind"]
      BY <1>2, <2>3 DEF RamOK, Filled, Counts
    <3>2. CASE i \in same
      <4>1. ram["bind"][i].val # Blank
        BY <1>2, <1>3, <2>3, <3>2 DEF RamOK, Filled, Counts
      <4>2. QED
        BY <1>2, <1>3, <2>3, <3>2, <4>1 DEF RamOK, Once, Clash
    <3>3. QED
      BY <1>3, <3>1, <3>2
  <2>4. QED
    BY <1>4, <2>1, <2>2, <2>3 DEF Fits, Clash
<1>6. QED
  BY <1>1, <1>2, <1>3, <1>4, <1>5 DEF Inserting

LEMMA GroupInserted ==
  ASSUME TypeOK, RamOK, NEW k \in GroupAddrs, NEW v \in GroupSettings, SetGroup(k, v)
  PROVE  Inserting
<1> DEFINE same == {i \in Index("group") : i < active["group"] /\ ram["group"][i] = Entry(k, v)}
           e == Entry(k, v)
<1>1. PICK i \in FirstIn(same, active["group"]) : Insert("group", i, e, BIND_GROUP_MAX)
  BY DEF SetGroup
<1>2. "group" \in Counted /\ BIND_GROUP_MAX \in 0 .. Size["group"] /\ k # Blank
      /\ job = Idle /\ deleted' \subseteq deleted
  BY ConfigAssumption DEF Counted, Size, Tables, SetGroup, TypeOK
<1>3. i \in Index("group") /\ (i \in same \/ (same = {} /\ i = active["group"]))
  BY <1>1, <1>2, PlaceType
<1>4. e.key = k /\ e.val = v /\ e \in Inputs["group"]
  BY DEF Entry, Inputs, Tables
<1>5. Fits("group", i, e)
  <2>1. Counts("group", e)
    BY <1>2, <1>4 DEF Counts
  <2>2. i <= active["group"]
    BY <1>2, <1>3 DEF TypeOK, Index
  <2>3. ASSUME "group" \notin stale, NEW j \in Index("group"), j # i, ram["group"][j] = e, e.val # Blank
        PROVE  FALSE
    <3>1. j < active["group"]
      BY <1>2, <1>4, <2>3 DEF RamOK, Filled, Counts
    <3>2. CASE i \in same
      BY <1>2, <1>3, <1>4, <2>3, <3>2 DEF RamOK, Once, Clash
    <3>3. QED
      BY <1>3, <2>3, <3>1, <3>2
  <2>4. QED
    BY <1>4, <2>1, <2>2, <2>3 DEF Fits, Clash
<1>6. QED
  BY <1>1, <1>2, <1>3, <1>4, <1>5 DEF Inserting

\* The tables and counts after a new entry.
LEMMA AfterInsert ==
  ASSUME TypeOK, Named, NEW t \in Counted, NEW i \in Index(t), NEW e \in Inputs[t],
         NEW limit \in 0 .. Size[t], Insert(t, i, e, limit)
  PROVE  /\ Named'
         /\ ram'[t] = [ram[t] EXCEPT ![i] = e]
         /\ \A u \in Tables : u # t => ram'[u] = ram[u]
         /\ active'[t] = IF i = active[t] THEN active[t] + 1 ELSE active[t]
         /\ \A u \in Counted : u # t => active'[u] = active[u]
         /\ active'[t] \in 0 .. Size[t]
         /\ job' = Erasing(t, 0) /\ before' = flash[t] /\ cut' = cut \cup {t}
         /\ UNCHANGED <<mix, flash, gap, stale>>
<1>1. t \in Tables /\ Size[t] \in Nat /\ active[t] \in 0 .. Size[t]
  BY SizeType DEF Counted, Tables, TypeOK
<1>2. UNCHANGED <<mix, flash, gap, stale>> /\ job' = Erasing(t, 0) /\ before' = flash[t]
      /\ cut' = cut \cup {t}
  BY DEF Insert, Save
<1>3. /\ ram' = [u \in Tables |-> ram'[u]]
      /\ ram'[t] = [ram[t] EXCEPT ![i] = e]
      /\ \A u \in Tables : u # t => ram'[u] = ram[u]
  BY <1>1 DEF Insert, Named
<1>4. /\ active' = [u \in Counted |-> active'[u]]
      /\ active'[t] = IF i = active[t] THEN active[t] + 1 ELSE active[t]
      /\ \A u \in Counted : u # t => active'[u] = active[u]
  BY DEF Insert, Named
<1>5. active'[t] \in 0 .. Size[t]
  BY <1>1, <1>4 DEF Insert
<1>6. QED
  BY <1>2, <1>3, <1>4, <1>5 DEF Named

(***************************************************************************)
(* Tables that are blank, partly programmed or counted.                    *)
(***************************************************************************)
LEMMA CountedTables == Counted \subseteq Tables /\ "task" \in Tables \ Counted
BY DEF Counted, Tables

LEMMA BlankOK ==
  ASSUME NEW t \in Counted, NEW table, table = BlankTable(t)
  PROVE  Filled(t, table, 0) /\ Once(t, table)
<1>1. \A i \in Index(t) : table[i].key = Blank /\ table[i].val = Blank
  BY Fields DEF BlankTable, BlankEntry
<1>2. \A i \in Index(t) : i >= 0 /\ i \in Int
  BY SizeType, CountedTables DEF Index
<1>3. QED
  BY <1>1, <1>2 DEF Filled, Once, Clash, Counts

\* A table of which a entries are programmed, and half of the next.
Prefix(t, table, old, a, half) ==
  \A j \in Index(t) : table[j] = IF j < a THEN old[j]
                                 ELSE IF j = a /\ half THEN Entry(old[j].key, Blank)
                                 ELSE BlankEntry

LEMMA PrefixFilled ==
  ASSUME NEW t \in Counted, NEW table, NEW old, NEW a \in 0 .. Size[t], NEW half \in BOOLEAN,
         half => t # "bind", Prefix(t, table, old, a, half),
         NEW n \in 0 .. Size[t], Filled(t, old, n)
  PROVE  \E m \in 0 .. Size[t] : Filled(t, table, m)
<1>1. Size[t] \in Nat /\ \A j \in Index(t) : j \in Int /\ j >= 0
  BY SizeType, CountedTables DEF Index
<1>2. ~Counts(t, BlankEntry)
  BY Fields DEF Counts, BlankEntry
<1>3. ASSUME NEW j \in Index(t), half
      PROVE  Counts(t, Entry(old[j].key, Blank)) <=> Counts(t, old[j])
  BY <1>3, Fields DEF Counts
<1>4. CASE half /\ a < n
  <2>1. a + 1 \in 0 .. Size[t]
    BY <1>1, <1>4
  <2>2. ASSUME NEW j \in Index(t)
        PROVE  j < a + 1 <=> Counts(t, table[j])
    BY <1>1, <1>2, <1>3, <1>4 DEF Prefix, Filled
  <2>3. QED
    BY <2>1, <2>2 DEF Filled
<1>5. CASE ~half /\ a < n
  <2>1. ASSUME NEW j \in Index(t)
        PROVE  j < a <=> Counts(t, table[j])
    BY <1>1, <1>2, <1>5 DEF Prefix, Filled
  <2>2. QED
    BY <2>1 DEF Filled
<1>6. CASE ~(a < n)
  <2>1. ASSUME NEW j \in Index(t)
        PROVE  j < n <=> Counts(t, table[j])
    BY <1>1, <1>2, <1>3, <1>6 DEF Prefix, Filled
  <2>2. QED
    BY <2>1 DEF Filled
<1>7. QED
  BY <1>4, <1>5, <1>6

LEMMA PrefixOnce ==
  ASSUME NEW t \in Counted, NEW table, NEW old, NEW a \in 0 .. Size[t], NEW half \in BOOLEAN,
         half => t # "bind", Prefix(t, table, old, a, half), Once(t, old)
  PROVE  Once(t, table)
<1> SUFFICES ASSUME NEW i \in Index(t), NEW j \in Index(t), i # j, Clash(t, table[i], table[j])
             PROVE  FALSE
  BY DEF Once
<1>1. table[i].key # Blank => table[i].key = old[i].key /\ (i < a \/ (half /\ i = a))
  BY Fields DEF Prefix, BlankEntry
<1>2. table[j].key # Blank => table[j].key = old[j].key /\ (j < a \/ (half /\ j = a))
  BY Fields DEF Prefix, BlankEntry
<1>3. table[i].val # Blank => table[i] = old[i]
  BY Fields DEF Prefix, BlankEntry
<1>4. table[j].val # Blank => table[j] = old[j]
  BY Fields DEF Prefix, BlankEntry
<1>5. CASE t = "scene"
  BY <1>1, <1>2, <1>5 DEF Clash, Once
<1>6. CASE t = "bind"
  BY <1>3, <1>4, <1>6 DEF Clash, Once
<1>7. CASE t = "group"
  BY <1>3, <1>4, <1>7 DEF Clash, Once
<1>8. QED
  BY <1>5, <1>6, <1>7 DEF Counted

\* Erasing a page leaves no clash among the scenes.
LEMMA ErasedOnce ==
  ASSUME Once("scene", flash["scene"]), NEW p
  PROVE  Once("scene", Erased("scene", p))
<1>1. \A i \in Index("scene") :
        Erased("scene", p)[i].key # Blank => Erased("scene", p)[i].key = flash["scene"][i].key
  BY Fields DEF Erased
<1>2. QED
  BY <1>1 DEF Once, Clash

\* What boot counts.
LEMMA CountType ==
  ASSUME NEW t \in Counted, NEW table
  PROVE  Count(table, t) \in 0 .. Size[t]
<1>1. Size[t] \in Nat \ {0}
  BY SizeType, CountedTables
<1>2. IsFiniteSet(Index(t)) /\ Cardinality(Index(t)) = Size[t]
  <2>1. 0 \in Int /\ Size[t] - 1 \in Int /\ ~(0 > Size[t] - 1)
    BY <1>1
  <2>2. IsFiniteSet(0 .. Size[t] - 1) /\ Cardinality(0 .. Size[t] - 1) = (Size[t] - 1) - 0 + 1
    BY <2>1, FS_Interval
  <2>3. QED
    BY <1>1, <2>2 DEF Index
<1> DEFINE S == {i \in Index(t) : Counts(t, table[i])}
<1>3. IsFiniteSet(S) /\ Cardinality(S) <= Size[t]
  BY <1>2, FS_Subset
<1>4. Cardinality(S) \in Nat
  BY <1>3, FS_CardinalityType
<1>5. QED
  BY <1>1, <1>3, <1>4 DEF Count

LEMMA CountFilled ==
  ASSUME NEW t \in Counted, NEW table, NEW n \in 0 .. Size[t], Filled(t, table, n)
  PROVE  Count(table, t) = n
<1>1. Size[t] \in Nat \ {0}
  BY SizeType, CountedTables
<1>2. {i \in Index(t) : Counts(t, table[i])} = 0 .. n - 1
  BY <1>1 DEF Filled, Index
<1>3. Cardinality(0 .. n - 1) = n
  BY <1>1, FS_Interval
<1>4. QED
  BY <1>2, <1>3 DEF Count

(***************************************************************************)
(* Each step keeps the types and the invariant.                            *)
(***************************************************************************)
AllInv == TypeOK /\ Named /\ ConfigInv

LEMMA TypeIs ==
  ASSUME TypeOK, NEW t \in Tables
  PROVE  ram[t] \in [Index(t) -> Inputs[t]] /\ flash[t] \in [Index(t) -> Inputs[t]]
         /\ (t \in Counted => active[t] \in 0 .. Size[t])
BY DEF TypeOK

LEMMA InsertInv ==
  ASSUME AllInv, Inserting
  PROVE  AllInv'
<1>1. PICK t \in Counted : \E i \in Index(t), e \in Inputs[t], limit \in 0 .. Size[t] :
             Insert(t, i, e, limit) /\ Fits(t, i, e)
  BY DEF Inserting
<1>2. PICK i \in Index(t), e \in Inputs[t], limit \in 0 .. Size[t] :
             Insert(t, i, e, limit) /\ Fits(t, i, e)
  BY <1>1
<1>3. t \in Tables /\ TypeOK /\ Named /\ RamOK /\ FlashOK /\ SavedOK
  BY CountedTables DEF AllInv, ConfigInv
<1>4. /\ Named'
      /\ ram'[t] = [ram[t] EXCEPT ![i] = e]
      /\ \A u \in Tables : u # t => ram'[u] = ram[u]
      /\ active'[t] = IF i = active[t] THEN active[t] + 1 ELSE active[t]
      /\ \A u \in Counted : u # t => active'[u] = active[u]
      /\ active'[t] \in 0 .. Size[t]
      /\ job' = Erasing(t, 0) /\ before' = flash[t] /\ cut' = cut \cup {t}
      /\ UNCHANGED <<mix, flash, gap, stale>>
  BY <1>2, <1>3, AfterInsert
<1>5. ram[t] \in [Index(t) -> Inputs[t]] /\ active[t] \in 0 .. Size[t] /\ Size[t] \in Nat
  BY <1>3, TypeIs, SizeType
<1>6. TypeOK'
  <2>1. \A u \in Tables : ram'[u] \in [Index(u) -> Inputs[u]] /\ flash'[u] \in [Index(u) -> Inputs[u]]
    BY <1>3, <1>4, <1>5, TypeIs
  <2>2. \A u \in Counted : active'[u] \in 0 .. Size[u]
    BY <1>3, <1>4, TypeIs, CountedTables
  <2>3. JobType(job')
    BY <1>3, <1>4, JobTypes
  <2>4. cut' \subseteq Tables /\ gap' \subseteq Tables /\ stale' \subseteq Tables /\ deleted' \subseteq Keys \cup {Blank}
    BY <1>3, <1>4 DEF TypeOK, Inserting
  <2>5. QED
    BY <2>1, <2>2, <2>3, <2>4 DEF TypeOK, JobType
<1>7. RamOK'
  <2>1. ASSUME NEW u \in Counted, u # t
        PROVE  /\ u \notin stale' => Filled(u, ram'[u], active'[u])
               /\ u \notin stale' \/ u = "scene" => Once(u, ram'[u])
    BY <1>3, <1>4, <2>1, CountedTables DEF RamOK
  <2>2. ASSUME t \notin stale
        PROVE  Filled(t, ram'[t], active'[t])
    <3>1. \A j \in Index(t) : j \in Int
      BY <1>5 DEF Index
    <3>2. i <= active[t] /\ Counts(t, e) /\ Filled(t, ram[t], active[t])
      BY <1>2, <1>3, <2>2 DEF Fits, RamOK
    <3>3. ASSUME NEW j \in Index(t)
          PROVE  j < active'[t] <=> Counts(t, ram'[t][j])
      <4>1. CASE j = i
        BY <1>4, <1>5, <3>1, <3>2, <4>1
      <4>2. CASE j # i
        <5>1. ram'[t][j] = ram[t][j]
          BY <1>4, <1>5, <4>2
        <5>2. j < active'[t] <=> j < active[t]
          BY <1>4, <1>5, <3>1, <4>2
        <5>3. QED
          BY <3>2, <5>1, <5>2 DEF Filled
      <4>3. QED
        BY <4>1, <4>2
    <3>4. QED
      BY <3>3 DEF Filled
  <2>3. ASSUME t \notin stale \/ t = "scene"
        PROVE  Once(t, ram'[t])
    <3>1. Once(t, ram[t])
      BY <1>3, <2>3 DEF RamOK
    <3>2. \A j \in Index(t) : j # i => ~Clash(t, ram[t][j], e) /\ ~Clash(t, e, ram[t][j])
      BY <1>2, <2>3 DEF Fits
    <3>3. \A j \in Index(t) : ram'[t][j] = IF j = i THEN e ELSE ram[t][j]
      BY <1>4, <1>5
    <3>4. QED
      BY <3>1, <3>2, <3>3 DEF Once
  <2>4. QED
    BY <1>4, <2>1, <2>2, <2>3 DEF RamOK
<1>8. FlashOK'
  BY <1>3, <1>4 DEF FlashOK
<1>9. EraseOK' /\ ProgramOK'
  <2>1. job'.kind = "erase" /\ job'.table = t /\ job'.at = 0 /\ job'.half = FALSE
    BY <1>4 DEF Erasing
  <2>2. \A j \in Index(t) : ~(Page(t, j, 0) < 0) /\ ~(Page(t, j, 1) < 0)
    BY <1>3, PageType
  <2>3. QED
    BY <1>4, <2>1, <2>2 DEF EraseOK, ProgramOK
<1>10. SavedOK'
  <2>1. job.kind # "delete"
    BY DEF Inserting, Idle
  <2>2. QED
    BY <1>3, <1>4, <2>1 DEF SavedOK, Erasing
<1>11. QED
  BY <1>4, <1>6, <1>7, <1>8, <1>9, <1>10 DEF AllInv, ConfigInv

LEMMA TasksInv ==
  ASSUME AllInv, NEW D \in SUBSET Index("task"),
         NEW tasks \in [D -> {Entry(k, v) : k \in TaskScenes, v \in TaskSettings}],
         SetTasks(tasks)
  PROVE  AllInv'
<1> DEFINE new == [i \in Index("task") |-> IF i \in DOMAIN tasks THEN tasks[i] ELSE ram["task"][i]]
<1>1. TypeOK /\ Named /\ RamOK /\ FlashOK /\ SavedOK /\ "task" \in Tables
  BY CountedTables DEF AllInv, ConfigInv
<1>2. /\ ram' = [u \in Tables |-> ram'[u]] /\ ram'["task"] = new
      /\ \A u \in Tables : u # "task" => ram'[u] = ram[u]
  BY <1>1 DEF SetTasks, Named
<1>3. /\ job = Idle /\ job' = Erasing("task", 0)
      /\ before' = flash["task"] /\ cut' = cut \cup {"task"}
      /\ UNCHANGED <<mix, flash, active, gap, stale, deleted>>
  BY DEF SetTasks, Save
<1>4. new \in [Index("task") -> Inputs["task"]]
  <2> SUFFICES ASSUME NEW i \in Index("task")
               PROVE  new[i] \in Inputs["task"]
    OBVIOUS
  <2>1. CASE i \in D
    <3>1. PICK k \in TaskScenes, v \in TaskSettings : tasks[i] = Entry(k, v)
      BY <2>1
    <3>2. Entry(k, v) \in Inputs["task"]
      BY DEF Entry, Inputs, Tables
    <3>3. QED
      BY <2>1, <3>1, <3>2
  <2>2. CASE i \notin D
    BY <1>1, <2>2, TypeIs
  <2>3. QED
    BY <2>1, <2>2
<1> HIDE DEF new
<1>5. TypeOK'
  <2>1. \A u \in Tables : ram'[u] \in [Index(u) -> Inputs[u]] /\ flash'[u] \in [Index(u) -> Inputs[u]]
    BY <1>1, <1>2, <1>3, <1>4, TypeIs
  <2>2. JobType(job')
    BY <1>1, <1>3, JobTypes
  <2>3. QED
    BY <1>1, <1>3, <2>1, <2>2 DEF TypeOK, JobType
<1>6. RamOK' /\ FlashOK'
  <2>1. \A u \in Counted : ram'[u] = ram[u] /\ active'[u] = active[u]
    BY <1>2, <1>3, CountedTables
  <2>2. QED
    BY <1>1, <1>3, <2>1 DEF RamOK, FlashOK
<1>7. EraseOK' /\ ProgramOK'
  <2>1. job'.kind = "erase" /\ job'.table = "task" /\ job'.at = 0
    BY <1>3 DEF Erasing
  <2>2. \A j \in Index("task") : ~(Page("task", j, 0) < 0) /\ ~(Page("task", j, 1) < 0)
    BY <1>1, PageType
  <2>3. QED
    BY <1>3, <2>1, <2>2 DEF EraseOK, ProgramOK
<1>8. SavedOK'
  <2>1. job.kind # "delete"
    BY <1>3 DEF Idle
  <2>2. QED
    BY <1>1, <1>2, <1>3, <2>1 DEF SavedOK, Erasing
<1>9. QED
  BY <1>1, <1>2, <1>3, <1>5, <1>6, <1>7, <1>8 DEF AllInv, ConfigInv, Named

\* Steps that only end or begin a job, or none.
LEMMA SameTables ==
  ASSUME AllInv, UNCHANGED <<ram, flash, active, stale, gap, cut, deleted>>, JobType(job'),
         job'.kind \in {"idle", "delete"}, job'.half = FALSE, job.kind # "delete"
  PROVE  AllInv'
<1>1. TypeOK /\ Named /\ RamOK /\ FlashOK /\ SavedOK
  BY DEF AllInv, ConfigInv
<1>2. TypeOK' /\ Named'
  BY <1>1 DEF TypeOK, Named, JobType
<1>3. RamOK' /\ FlashOK'
  BY <1>1 DEF RamOK, FlashOK
<1>4. EraseOK' /\ ProgramOK'
  BY DEF EraseOK, ProgramOK
<1>5. SavedOK'
  BY <1>1 DEF SavedOK
<1>6. QED
  BY <1>2, <1>3, <1>4, <1>5 DEF AllInv, ConfigInv

LEMMA DeletionInv == ASSUME AllInv, DelBind \/ DelScene PROVE AllInv'
<1>1. PICK t \in {"bind", "scene"} : job = Idle /\ job' = Deleting(t, 0)
  BY DEF DelBind, DelScene
<1>2. UNCHANGED <<ram, flash, active, stale, gap, cut, deleted>>
  BY DEF DelBind, DelScene, ghosts
<1>3. JobType(job') /\ job'.kind = "delete" /\ job'.half = FALSE /\ job.kind # "delete"
  BY <1>1, JobTypes DEF Deleting, Idle, Tables
<1>4. QED
  BY <1>2, <1>3, SameTables

LEMMA SaveFailsInv == ASSUME AllInv, SaveFails PROVE AllInv'
<1>1. UNCHANGED <<ram, flash, active, stale, gap, cut, deleted>>
  BY DEF SaveFails, ghosts
<1>2. JobType(job') /\ job'.kind = "idle" /\ job'.half = FALSE /\ job.kind # "delete"
  BY JobTypes DEF SaveFails, Idle
<1>3. QED
  BY <1>1, <1>2, SameTables

\* What erasing, programming or deleting does to the flash of one table.
LEMMA FlashStep ==
  ASSUME Named, NEW t \in Tables, NEW table, flash' = [flash EXCEPT ![t] = table]
  PROVE  /\ flash' = [u \in Tables |-> flash'[u]]
         /\ flash'[t] = table
         /\ \A u \in Tables : u # t => flash'[u] = flash[u]
BY DEF Named

LEMMA ErasePageInv == ASSUME AllInv, ErasePage PROVE AllInv'
<1> DEFINE t == job.table
           p == job.at
<1>1. TypeOK /\ Named /\ RamOK /\ FlashOK /\ EraseOK /\ SavedOK
  BY DEF AllInv, ConfigInv
<1>2. t \in Tables /\ p \in 0 .. Pages(t) - 1 /\ job.kind = "erase" /\ t \in cut
  BY <1>1 DEF ErasePage, TypeOK, SavedOK
<1>3. flash' = [flash EXCEPT ![t] = Erased(t, p)]
      /\ UNCHANGED <<mix, ram, active, before, cut, stale, deleted>>
  BY DEF ErasePage
<1>4. IF p + 1 < Pages(t)
        THEN job' = Erasing(t, p + 1) /\ gap' = gap \cup {t}
        ELSE job' = Writing(t, 0) /\ gap' = gap \ {t}
  BY DEF ErasePage
<1>5. \A i \in Index(t) : /\ Page(t, i, 0) < p => flash[t][i].key = Blank
                          /\ Page(t, i, 1) < p => flash[t][i].val = Blank
  BY <1>1, <1>2 DEF EraseOK
<1> HIDE DEF t, p
<1>6. /\ flash' = [u \in Tables |-> flash'[u]] /\ flash'[t] = Erased(t, p)
      /\ \A u \in Tables : u # t => flash'[u] = flash[u]
  BY <1>1, <1>2, <1>3, FlashStep
<1>7. TypeOK' /\ Named'
  <2>1. \A u \in Tables : ram'[u] \in [Index(u) -> Inputs[u]] /\ flash'[u] \in [Index(u) -> Inputs[u]]
    BY <1>1, <1>2, <1>3, <1>6, TypeIs, ErasedType
  <2>2. JobType(job')
    BY <1>2, <1>4, JobTypes
  <2>3. gap' \subseteq Tables
    BY <1>1, <1>2, <1>4 DEF TypeOK
  <2>4. QED
    BY <1>1, <1>3, <1>6, <2>1, <2>2, <2>3 DEF TypeOK, Named, JobType
<1>8. RamOK'
  BY <1>1, <1>3 DEF RamOK
<1>9. \A i \in Index(t) :
        /\ Erased(t, p)[i].key = IF Page(t, i, 0) = p THEN Blank ELSE flash[t][i].key
        /\ Erased(t, p)[i].val = IF Page(t, i, 1) = p THEN Blank ELSE flash[t][i].val
  BY Fields DEF Erased
<1>10. \A i \in Index(t) : Page(t, i, 0) \in 0 .. Pages(t) - 1 /\ Page(t, i, 1) \in 0 .. Pages(t) - 1
  BY <1>2, PageType
<1>11. \A u \in Counted : u # t =>
         /\ u \notin stale' \cup gap' => \E n \in 0 .. Size[u] : Filled(u, flash'[u], n)
         /\ u \notin stale' \cup gap' \/ u = "scene" => Once(u, flash'[u])
  BY <1>1, <1>3, <1>4, <1>6, CountedTables DEF FlashOK
<1>12. SavedOK'
  <2>1. job'.half = FALSE /\ job'.kind \in {"erase", "program"} /\ job'.table = t
    BY <1>4 DEF Erasing, Writing
  <2>2. QED
    BY <1>1, <1>2, <1>3, <1>6, <2>1 DEF SavedOK
<1>13. CASE p + 1 < Pages(t)
  <2>1. job' = Erasing(t, p + 1) /\ gap' = gap \cup {t} /\ t = "scene"
    BY <1>2, <1>4, <1>13, PageType
  <2>2. job'.kind = "erase" /\ job'.table = t /\ job'.at = p + 1
    BY <2>1 DEF Erasing
  <2>3. FlashOK'
    <3>1. Once("scene", flash'["scene"])
      BY <1>1, <1>6, <2>1, ErasedOnce DEF FlashOK, Counted
    <3>2. QED
      BY <1>11, <2>1, <3>1 DEF FlashOK
  <2>4. EraseOK'
    <3>1. ASSUME NEW i \in Index(t)
          PROVE  /\ Page(t, i, 0) < p + 1 => flash'[t][i].key = Blank
                 /\ Page(t, i, 1) < p + 1 => flash'[t][i].val = Blank
      BY <1>2, <1>5, <1>6, <1>9, <1>10
    <3>2. QED
      BY <2>1, <2>2, <3>1 DEF EraseOK
  <2>5. ProgramOK'
    BY <2>2 DEF ProgramOK
  <2>6. QED
    BY <1>7, <1>8, <1>12, <2>3, <2>4, <2>5 DEF AllInv, ConfigInv
<1>14. CASE ~(p + 1 < Pages(t))
  <2>1. job' = Writing(t, 0) /\ gap' = gap \ {t} /\ p = Pages(t) - 1
    BY <1>2, <1>4, <1>14, PageType
  <2>2. job'.kind = "program" /\ job'.table = t /\ job'.at = 0 /\ job'.half = FALSE
    BY <2>1 DEF Writing
  <2>3. ASSUME NEW i \in Index(t)
        PROVE  Erased(t, p)[i] = BlankEntry
    <3>1. Erased(t, p)[i] \in Inputs[t]
      BY <1>1, <1>2, ErasedType
    <3>2. Erased(t, p)[i].key = Blank /\ Erased(t, p)[i].val = Blank
      BY <1>2, <1>5, <1>9, <1>10, <2>1, PageType
    <3>3. QED
      BY <1>2, <3>1, <3>2, EntryType DEF BlankEntry
  <2>4. Erased(t, p) = BlankTable(t)
    BY <1>1, <1>2, <2>3, ErasedType DEF BlankTable
  <2>5. FlashOK'
    <3>1. ASSUME t \in Counted
          PROVE  Once(t, flash'[t]) /\ \E n \in 0 .. Size[t] : Filled(t, flash'[t], n)
      <4>1. 0 \in 0 .. Size[t]
        BY <1>2, SizeType
      <4>2. QED
        BY <1>6, <2>4, <3>1, <4>1, BlankOK
    <3>2. QED
      BY <1>11, <3>1 DEF FlashOK
  <2>6. ProgramOK'
    <3>1. ASSUME NEW i \in Index(t)
          PROVE  flash'[t][i] = BlankEntry /\ ~(i < 0)
      BY <1>2, <1>6, <2>3, SizeType DEF Index
    <3>2. QED
      BY <2>2, <3>1 DEF ProgramOK
  <2>7. EraseOK'
    BY <2>2 DEF EraseOK
  <2>8. QED
    BY <1>7, <1>8, <1>12, <2>5, <2>6, <2>7 DEF AllInv, ConfigInv
<1>15. QED
  BY <1>13, <1>14

LEMMA ProgramInv == ASSUME AllInv, Program PROVE AllInv'
<1> DEFINE t == job.table
           i == job.at
           half == job.half
           full == t = "bind" \/ half
           e == IF full THEN ram[t][i] ELSE Entry(ram[t][i].key, flash[t][i].val)
<1>1. TypeOK /\ Named /\ RamOK /\ FlashOK /\ ProgramOK /\ SavedOK
  BY DEF AllInv, ConfigInv
<1>2. t \in Tables /\ i \in Index(t) /\ half \in BOOLEAN /\ job.kind = "program" /\ t \in cut
      /\ (half => t # "bind")
  BY <1>1 DEF Program, TypeOK, SavedOK
<1>3. UNCHANGED <<mix, ram, active, before, gap, stale, deleted>>
  BY DEF Program
<1>4. flash' = [flash EXCEPT ![t][i] = e]
  BY <1>1, <1>2 DEF Program, Named
<1>5. /\ full /\ i + 1 < Size[t] => job' = Writing(t, i + 1) /\ cut' = cut
      /\ full /\ ~(i + 1 < Size[t]) => job' = Idle /\ cut' = cut \ {t}
      /\ ~full => job' = [Writing(t, i) EXCEPT !.half = TRUE] /\ cut' = cut
  BY DEF Program
<1>6. Prefix(t, flash[t], ram[t], i, half)
  BY <1>1, <1>2 DEF ProgramOK, Prefix
<1>7. ram[t] \in [Index(t) -> Inputs[t]] /\ flash[t] \in [Index(t) -> Inputs[t]]
      /\ Size[t] \in Nat \ {0}
  BY <1>1, <1>2, TypeIs, SizeType
<1> HIDE DEF t, i, half
<1>8. e \in Inputs[t]
  BY <1>2, <1>7, EntryType
<1> HIDE DEF full, e
<1>9. /\ flash' = [u \in Tables |-> flash'[u]] /\ flash'[t] = [flash[t] EXCEPT ![i] = e]
      /\ \A u \in Tables : u # t => flash'[u] = flash[u]
  <2>1. flash' = [flash EXCEPT ![t] = [flash[t] EXCEPT ![i] = e]]
    BY <1>1, <1>2, <1>4 DEF Named
  <2>2. QED
    BY <1>1, <1>2, <2>1, FlashStep
<1>10. TypeOK' /\ Named'
  <2>1. \A u \in Tables : ram'[u] \in [Index(u) -> Inputs[u]] /\ flash'[u] \in [Index(u) -> Inputs[u]]
    BY <1>1, <1>2, <1>3, <1>7, <1>8, <1>9, TypeIs
  <2>2. JobType(job')
    BY <1>2, <1>5, JobTypes
  <2>3. cut' \subseteq Tables
    BY <1>1, <1>5 DEF TypeOK
  <2>4. QED
    BY <1>1, <1>3, <1>9, <2>1, <2>2, <2>3 DEF TypeOK, Named, JobType
<1>11. RamOK'
  BY <1>1, <1>3 DEF RamOK
<1> DEFINE a == IF full THEN i + 1 ELSE i
           h == ~full
<1>12. Prefix(t, flash'[t], ram[t], a, h)
  <2> SUFFICES ASSUME NEW j \in Index(t)
               PROVE  flash'[t][j] = IF j < a THEN ram[t][j]
                                     ELSE IF j = a /\ h THEN Entry(ram[t][j].key, Blank)
                                     ELSE BlankEntry
    BY DEF Prefix
  <2>1. i \in Int /\ j \in Int
    BY <1>2, <1>7 DEF Index
  <2>2. CASE j = i
    <3>1. flash'[t][j] = e
      BY <1>2, <1>7, <1>9, <2>2
    <3>2. CASE full
      BY <2>1, <2>2, <3>1, <3>2 DEF e
    <3>3. CASE ~full
      <4>1. flash[t][i] = BlankEntry
        BY <1>2, <1>6, <2>1, <3>3 DEF Prefix, full
      <4>2. flash[t][i].val = Blank
        BY <4>1, Fields DEF BlankEntry
      <4>3. QED
        BY <2>1, <2>2, <3>1, <3>3, <4>2 DEF e
    <3>4. QED
      BY <3>2, <3>3
  <2>3. CASE j # i
    <3>1. flash'[t][j] = flash[t][j]
      BY <1>7, <1>9, <2>3
    <3>2. flash[t][j] = IF j < i THEN ram[t][j] ELSE BlankEntry
      BY <1>6, <2>3 DEF Prefix
    <3>3. j < a <=> j < i
      BY <2>1, <2>3
    <3>4. j < i \/ ~(j = a /\ h)
      BY <2>1, <2>3
    <3>5. QED
      BY <3>1, <3>2, <3>3, <3>4
  <2>4. QED
    BY <2>2, <2>3
<1>13. a \in 0 .. Size[t] /\ h \in BOOLEAN /\ (h => t # "bind")
  BY <1>2, <1>7 DEF Index, full
<1> HIDE DEF a, h
<1>14. FlashOK'
  <2>1. ASSUME NEW u \in Counted, u # t
        PROVE  /\ u \notin stale' \cup gap' => \E n \in 0 .. Size[u] : Filled(u, flash'[u], n)
               /\ u \notin stale' \cup gap' \/ u = "scene" => Once(u, flash'[u])
    BY <1>1, <1>3, <1>9, <2>1, CountedTables DEF FlashOK
  <2>2. ASSUME t \in Counted, t \notin stale
        PROVE  \E n \in 0 .. Size[t] : Filled(t, flash'[t], n)
    <3>1. active[t] \in 0 .. Size[t] /\ Filled(t, ram[t], active[t])
      BY <1>1, <1>2, <2>2, TypeIs DEF RamOK
    <3>2. QED
      BY <1>12, <1>13, <2>2, <3>1, PrefixFilled
  <2>3. ASSUME t \in Counted, t \notin stale \/ t = "scene"
        PROVE  Once(t, flash'[t])
    <3>1. Once(t, ram[t])
      BY <1>1, <2>3 DEF RamOK
    <3>2. QED
      BY <1>12, <1>13, <2>3, <3>1, PrefixOnce
  <2>4. QED
    BY <1>3, <2>1, <2>2, <2>3 DEF FlashOK
<1>15. EraseOK'
  BY <1>5 DEF EraseOK, Writing, Idle
<1>16. ProgramOK'
  <2>1. CASE full /\ i + 1 < Size[t]
    <3>1. job'.kind = "program" /\ job'.table = t /\ job'.at = a /\ job'.half = FALSE /\ h = FALSE
      BY <1>5, <2>1 DEF Writing, a, h
    <3>2. QED
      BY <1>3, <1>12, <3>1 DEF ProgramOK, Prefix
  <2>2. CASE full /\ ~(i + 1 < Size[t])
    BY <1>5, <2>2 DEF ProgramOK, Idle
  <2>3. CASE ~full
    <3>1. job'.kind = "program" /\ job'.table = t /\ job'.at = a /\ job'.half = TRUE /\ h = TRUE
      BY <1>5, <2>3 DEF Writing, a, h
    <3>2. QED
      BY <1>3, <1>12, <3>1 DEF ProgramOK, Prefix
  <2>4. QED
    BY <2>1, <2>2, <2>3
<1>17. SavedOK'
  <2>1. job'.half => job'.kind = "program" /\ job'.table # "bind"
    BY <1>5 DEF Writing, Idle, full
  <2>2. job'.kind \in {"erase", "program"} => job'.table \in cut'
    BY <1>2, <1>5 DEF Writing, Idle
  <2>3. ASSUME NEW u \in Tables \ (cut \cup stale)
        PROVE  u # t /\ ram'[u] = flash'[u]
    BY <1>1, <1>2, <1>3, <1>9 DEF SavedOK
  <2>4. ASSUME full, ~(i + 1 < Size[t])
        PROVE  ram'[t] = flash'[t]
    <3>1. a = Size[t]
      BY <1>2, <1>7, <2>4 DEF a, Index
    <3>2. \A j \in Index(t) : flash'[t][j] = ram[t][j]
      BY <1>7, <1>12, <3>1 DEF Prefix, Index
    <3>3. flash'[t] \in [Index(t) -> Inputs[t]]
      BY <1>2, <1>10, TypeIs DEF TypeOK
    <3>4. QED
      BY <1>3, <1>7, <3>2, <3>3
  <2>5. QED
    BY <1>3, <1>5, <2>1, <2>2, <2>3, <2>4 DEF SavedOK
<1>18. QED
  BY <1>10, <1>11, <1>14, <1>15, <1>16, <1>17 DEF AllInv, ConfigInv

LEMMA DeletePageInv == ASSUME AllInv, DeletePage PROVE AllInv'
<1> DEFINE t == job.table
           p == job.at
<1>1. TypeOK /\ Named /\ RamOK /\ FlashOK /\ SavedOK
  BY DEF AllInv, ConfigInv
<1>2. t \in Tables /\ p \in 0 .. Pages(t) - 1 /\ job.kind = "delete"
  BY <1>1 DEF DeletePage, TypeOK
<1>3. PICK table \in {flash[t], Erased(t, p)} : flash' = [flash EXCEPT ![t] = table]
  BY <1>1, <1>2 DEF DeletePage, Named
<1>4. UNCHANGED <<mix, ram, before, cut>> /\ gap' = gap \cup {t} /\ deleted' \subseteq deleted \cup BoundKeys
      /\ (t # "bind" => deleted' = deleted)
  BY DEF DeletePage
<1>5. IF p + 1 < Pages(t)
        THEN job' = Deleting(t, p + 1) /\ active' = active /\ stale' = stale
        ELSE /\ job' = Idle /\ active' = [active EXCEPT !["bind"] = 0]
             /\ stale' = stale \cup {t, "bind"}
  BY DEF DeletePage
<1> HIDE DEF t, p
<1>6. /\ flash' = [u \in Tables |-> flash'[u]] /\ flash'[t] = table
      /\ \A u \in Tables : u # t => flash'[u] = flash[u]
  BY <1>1, <1>2, <1>3, FlashStep
<1>7. /\ active' = [u \in Counted |-> active'[u]]
      /\ \A u \in Counted : active'[u] = active[u] \/ active'[u] = 0
      /\ \A u \in Counted \ stale' : active'[u] = active[u] /\ u \notin stale
  BY <1>1, <1>5 DEF Named
<1>8. TypeOK' /\ Named'
  <2>1. \A u \in Tables : ram'[u] \in [Index(u) -> Inputs[u]] /\ flash'[u] \in [Index(u) -> Inputs[u]]
    BY <1>1, <1>2, <1>3, <1>4, <1>6, TypeIs, ErasedType
  <2>2. \A u \in Counted : active'[u] \in 0 .. Size[u]
    BY <1>1, <1>7, TypeIs, SizeType, CountedTables
  <2>3. JobType(job')
    BY <1>2, <1>5, JobTypes
  <2>4. deleted' \subseteq Keys \cup {Blank}
    <3>1. ASSUME NEW j \in Index("bind")
          PROVE  ram["bind"][j].key \in Keys \cup {Blank}
      <4>1. ram["bind"][j] \in Inputs["bind"]
        BY <1>1, TypeIs DEF Tables
      <4>2. QED
        BY <4>1 DEF Inputs, Tables
    <3>2. BoundKeys \subseteq Keys \cup {Blank}
      BY <3>1 DEF BoundKeys
    <3>3. QED
      BY <1>1, <1>4, <3>2 DEF TypeOK
  <2>5. gap' \subseteq Tables /\ stale' \subseteq Tables
    BY <1>1, <1>2, <1>4, <1>5 DEF TypeOK, Tables
  <2>6. QED
    BY <1>1, <1>4, <1>6, <1>7, <2>1, <2>2, <2>3, <2>4, <2>5 DEF TypeOK, Named, JobType
<1>9. RamOK'
  BY <1>1, <1>4, <1>7 DEF RamOK
<1>10. FlashOK'
  <2>1. ASSUME NEW u \in Counted, u # t
        PROVE  /\ u \notin stale' \cup gap' => \E n \in 0 .. Size[u] : Filled(u, flash'[u], n)
               /\ u \notin stale' \cup gap' \/ u = "scene" => Once(u, flash'[u])
    BY <1>1, <1>4, <1>6, <1>7, <2>1, CountedTables DEF FlashOK
  <2>2. t = "scene" => Once(t, flash'[t])
    BY <1>1, <1>3, <1>6, ErasedOnce DEF FlashOK, Counted
  <2>3. QED
    BY <1>4, <2>1, <2>2 DEF FlashOK
<1>11. EraseOK' /\ ProgramOK'
  BY <1>5 DEF EraseOK, ProgramOK, Deleting, Idle
<1>12. SavedOK'
  BY <1>1, <1>2, <1>4, <1>5, <1>6 DEF SavedOK, Deleting, Idle, t
<1>13. QED
  BY <1>8, <1>9, <1>10, <1>11, <1>12 DEF AllInv, ConfigInv

LEMMA BootInv == ASSUME AllInv, Boot PROVE AllInv'
<1>1. TypeOK /\ Named /\ RamOK /\ FlashOK /\ SavedOK
  BY DEF AllInv, ConfigInv
<1>2. /\ ram' = flash /\ job' = Idle /\ cut' = {} /\ UNCHANGED <<mix, flash, gap, deleted>>
      /\ active' = [t \in Counted |-> Count(flash[t], t)]
      /\ stale' = (stale \cup gap) \ {t \in Tables : flash[t] = BlankTable(t)}
  BY DEF Boot
<1>3. TypeOK' /\ Named'
  <2>1. \A u \in Tables : ram'[u] \in [Index(u) -> Inputs[u]] /\ flash'[u] \in [Index(u) -> Inputs[u]]
    BY <1>1, <1>2, TypeIs
  <2>2. \A u \in Counted : active'[u] \in 0 .. Size[u]
    BY <1>2, CountType
  <2>3. JobType(job')
    BY <1>2, JobTypes
  <2>4. cut' \subseteq Tables /\ stale' \subseteq Tables
    BY <1>1, <1>2 DEF TypeOK
  <2>5. QED
    BY <1>1, <1>2, <2>1, <2>2, <2>3, <2>4 DEF TypeOK, Named, JobType
<1>4. ASSUME NEW t \in Counted, t \notin stale'
      PROVE  Once(t, flash[t]) /\ \E n \in 0 .. Size[t] : Filled(t, flash[t], n)
  <2>1. t \in Tables /\ 0 \in 0 .. Size[t]
    BY CountedTables, SizeType
  <2>2. CASE flash[t] = BlankTable(t)
    BY <2>1, <2>2, BlankOK
  <2>3. CASE flash[t] # BlankTable(t)
    BY <1>1, <1>2, <1>4, <2>1, <2>3 DEF FlashOK
  <2>4. QED
    BY <2>2, <2>3
<1>5. RamOK'
  <2>1. ASSUME NEW t \in Counted, t \notin stale'
        PROVE  Filled(t, ram'[t], active'[t])
    <3>1. PICK n \in 0 .. Size[t] : Filled(t, flash[t], n)
      BY <1>4, <2>1
    <3>2. active'[t] = n
      BY <1>2, <3>1, CountFilled
    <3>3. QED
      BY <1>2, <3>1, <3>2
  <2>2. Once("scene", ram'["scene"])
    BY <1>1, <1>2 DEF FlashOK, Counted
  <2>3. QED
    BY <1>2, <1>4, <2>1, <2>2 DEF RamOK
<1>6. FlashOK'
  BY <1>1, <1>2, <1>4 DEF FlashOK, Counted
<1>7. EraseOK' /\ ProgramOK' /\ SavedOK'
  BY <1>2 DEF EraseOK, ProgramOK, SavedOK, Idle
<1>8. QED
  BY <1>3, <1>5, <1>6, <1>7 DEF AllInv, ConfigInv

LEMMA InitInv == Init => AllInv
<1> SUFFICES ASSUME Init PROVE AllInv
  OBVIOUS
<1>1. /\ ram = [t \in Tables |-> BlankTable(t)] /\ flash = [t \in Tables |-> BlankTable(t)]
      /\ active = [t \in Counted |-> 0] /\ job = Idle
      /\ cut = {} /\ gap = {} /\ stale = {} /\ deleted = {}
  BY DEF Init
<1>2. TypeOK
  <2>1. \A t \in Tables : BlankTable(t) \in [Index(t) -> Inputs[t]]
    BY EntryType DEF BlankTable
  <2>2. \A t \in Counted : 0 \in 0 .. Size[t]
    BY SizeType, CountedTables
  <2>3. JobType(job)
    BY <1>1, JobTypes
  <2>4. QED
    BY <1>1, <2>1, <2>2, <2>3 DEF TypeOK, JobType
<1>3. Named
  BY <1>1 DEF Named
<1>4. ASSUME NEW t \in Counted
      PROVE  /\ Filled(t, BlankTable(t), 0) /\ Once(t, BlankTable(t)) /\ 0 \in 0 .. Size[t]
             /\ ram[t] = BlankTable(t) /\ flash[t] = BlankTable(t) /\ active[t] = 0
  BY <1>1, BlankOK, SizeType, CountedTables
<1>5. RamOK /\ FlashOK
  BY <1>4 DEF RamOK, FlashOK
<1>6. EraseOK /\ ProgramOK /\ SavedOK
  BY <1>1 DEF EraseOK, ProgramOK, SavedOK, Idle
<1>7. QED
  BY <1>2, <1>3, <1>5, <1>6 DEF AllInv, ConfigInv

LEMMA NextInv == AllInv /\ [Next]_vars => AllInv'
<1> SUFFICES ASSUME AllInv, [Next]_vars PROVE AllInv'
  OBVIOUS
<1>1. TypeOK /\ RamOK
  BY DEF AllInv, ConfigInv
<1>2. CASE Request
  <2>1. CASE \E id \in SceneIds, v \in SceneSettings : SetScene(id, v)
    BY <1>1, <2>1, SceneInserted, InsertInv
  <2>2. CASE \E k \in Keys, v \in KeyScenes : SetBind(k, v)
    BY <1>1, <2>2, BindInserted, InsertInv
  <2>3. CASE \E k \in GroupAddrs, v \in GroupSettings : SetGroup(k, v)
    BY <1>1, <2>3, GroupInserted, InsertInv
  <2>4. CASE \E D \in SUBSET Index("task") :
               \E tasks \in [D -> {Entry(k, v) : k \in TaskScenes, v \in TaskSettings}] :
                 SetTasks(tasks)
    BY <2>4, TasksInv
  <2>5. CASE DelBind \/ DelScene
    BY <2>5, DeletionInv
  <2>6. QED
    BY <1>2, <2>1, <2>2, <2>3, <2>4, <2>5 DEF Request
<1>3. CASE ErasePage
  BY <1>3, ErasePageInv
<1>4. CASE Program
  BY <1>4, ProgramInv
<1>5. CASE SaveFails
  BY <1>5, SaveFailsInv
<1>6. CASE DeletePage
  BY <1>6, DeletePageInv
<1>7. CASE Boot
  BY <1>7, BootInv
<1>8. CASE UNCHANGED vars
  BY <1>8 DEF vars, ghosts, AllInv, ConfigInv, TypeOK, Named, RamOK, FlashOK, EraseOK, ProgramOK,
     SavedOK, Filled, Once
<1>9. QED
  BY <1>2, <1>3, <1>4, <1>5, <1>6, <1>7, <1>8 DEF Next

LEMMA AlwaysInv == Spec => []AllInv
BY InitInv, NextInv, PTL DEF Spec

(***************************************************************************)
(* The theorems.                                                           *)
(***************************************************************************)

(* The tables hold entries of their kind, the counts stay within them, and *)
(* the flash driver works inside its table.                                *)
THEOREM TypeCorrect == Spec => []TypeOK
<1>1. AllInv => TypeOK
  BY DEF AllInv
<1>2. QED
  BY <1>1, AlwaysInv, PTL

(* Where nothing was deleted, the counts say which entries are in use,     *)
(* after any number of requests, failed saves and power failures.          *)
THEOREM CountsRight == Spec => []CountedEntriesInUse
<1>1. AllInv => CountedEntriesInUse
  BY DEF AllInv, ConfigInv, RamOK, Filled, CountedEntriesInUse
<1>2. QED
  BY <1>1, AlwaysInv, PTL

(* A scene, a bound key and a group are in their tables once: a scene even *)
(* in tables that a deletion left behind.                                  *)
THEOREM EntriesOnce == Spec => []OneEntryEach
<1>1. ASSUME AllInv
      PROVE  OneEntryEach
  <2>1. TypeOK /\ RamOK
    BY <1>1 DEF AllInv, ConfigInv
  <2>2. ASSUME NEW i \in Index("scene"), NEW j \in Index("scene"), i # j,
               ram["scene"][i].key # Blank
        PROVE  ram["scene"][i].key # ram["scene"][j].key
    BY <2>1, <2>2 DEF RamOK, Once, Clash, Counted
  <2>3. ASSUME NEW t \in {"bind", "group"}, t \notin stale,
               NEW i \in 0 .. active[t] - 1, NEW j \in 0 .. active[t] - 1, i # j
        PROVE  /\ i \in Index(t) /\ j \in Index(t)
               /\ Counts(t, ram[t][i]) /\ Counts(t, ram[t][j])
               /\ ~Clash(t, ram[t][i], ram[t][j])
    <3>1. t \in Counted /\ t \in Tables
      BY DEF Counted, Tables
    <3>2. active[t] \in 0 .. Size[t] /\ Size[t] \in Nat
      BY <2>1, <3>1, TypeIs, SizeType
    <3>3. i \in Index(t) /\ j \in Index(t) /\ i < active[t] /\ j < active[t]
      BY <3>2 DEF Index
    <3>4. QED
      BY <2>1, <2>3, <3>1, <3>3 DEF RamOK, Filled, Once
  <2>4. ASSUME "bind" \notin stale,
               NEW i \in 0 .. active["bind"] - 1, NEW j \in 0 .. active["bind"] - 1, i # j
        PROVE  ram["bind"][i].key # ram["bind"][j].key
    BY <2>3, <2>4 DEF Clash, Counts
  <2>5. ASSUME "group" \notin stale,
               NEW i \in 0 .. active["group"] - 1, NEW j \in 0 .. active["group"] - 1, i # j,
               ram["group"][i].val # Blank
        PROVE  ram["group"][i] # ram["group"][j]
    BY <2>3, <2>5 DEF Clash, Counts
  <2>6. QED
    BY <2>2, <2>4, <2>5 DEF OneEntryEach
<1>2. QED
  BY <1>1, AlwaysInv, PTL

(* A restart in a quiet moment changes neither a table whose last save     *)
(* completed nor its count.                                                *)
THEOREM RestartHarmless == Spec => RestartChangesNothing
<1>1. ASSUME AllInv, Boot, job = Idle, NEW t \in Tables \ (cut \cup stale)
      PROVE  ram'[t] = ram[t] /\ (t \in Counted => active'[t] = active[t])
  <2>1. TypeOK /\ RamOK /\ SavedOK
    BY <1>1 DEF AllInv, ConfigInv
  <2>2. ram[t] = flash[t]
    BY <1>1, <2>1 DEF SavedOK, Idle
  <2>3. ASSUME t \in Counted
        PROVE  active'[t] = active[t]
    <3>1. active[t] \in 0 .. Size[t] /\ Filled(t, flash[t], active[t])
      BY <1>1, <2>1, <2>2, <2>3, TypeIs DEF RamOK
    <3>2. Count(flash[t], t) = active[t]
      BY <2>3, <3>1, CountFilled
    <3>3. QED
      BY <1>1, <2>3, <3>2 DEF Boot
  <2>4. QED
    BY <1>1, <2>2, <2>3 DEF Boot
<1>2. AllInv /\ [Next]_vars =>
        [(Boot /\ job = Idle) => \A t \in Tables \ (cut \cup stale) :
            ram'[t] = ram[t] /\ (t \in Counted => active'[t] = active[t])]_vars
  BY <1>1
<1>3. QED
  BY <1>2, AlwaysInv, PTL DEF Spec, RestartChangesNothing

(* A power failure during a save of bindings leaves the old table or the   *)
(* beginning of the new one.                                               *)
THEOREM OldOrPrefix == Spec => PowerFailureKeepsOldOrPrefix
<1>1. ASSUME AllInv, Boot, NEW t \in {"bind", "group"}, job.table = t,
             job.kind \in {"erase", "program"}
      PROVE  \/ ram'[t] = before
             \/ \E n \in 0 .. Size[t] : ram'[t] \in PrefixOf(ram[t], t, n)
  <2>1. TypeOK /\ EraseOK /\ ProgramOK /\ ram' = flash /\ t \in Tables
    BY <1>1 DEF AllInv, ConfigInv, Boot, Tables
  <2>2. CASE job.kind = "erase"
    BY <1>1, <2>1, <2>2 DEF EraseOK
  <2>3. CASE job.kind = "program"
    <3> DEFINE a == job.at
    <3>1. a \in Index(t) /\ flash[t] \in [Index(t) -> Inputs[t]] /\ Size[t] \in Nat \ {0}
      BY <1>1, <2>1, <2>3, TypeIs, SizeType DEF TypeOK
    <3>2. \A j \in Index(t) : flash[t][j] = IF j < a THEN ram[t][j]
             ELSE IF j = a /\ job.half THEN Entry(ram[t][j].key, Blank) ELSE BlankEntry
      BY <1>1, <2>1, <2>3 DEF ProgramOK
    <3> HIDE DEF a
    <3>3. CASE job.half
      <4>1. flash[t] = [j \in Index(t) |-> IF j < a THEN ram[t][j]
                          ELSE IF j = a THEN Entry(ram[t][j].key, Blank) ELSE BlankEntry]
        BY <3>1, <3>2, <3>3
      <4>2. QED
        BY <2>1, <3>1, <4>1 DEF PrefixOf, Index
    <3>4. CASE ~job.half
      <4>1. flash[t] = [j \in Index(t) |-> IF j < a THEN ram[t][j] ELSE BlankEntry]
        BY <3>1, <3>2, <3>4
      <4>2. QED
        BY <2>1, <3>1, <4>1 DEF PrefixOf, Index
    <3>5. QED
      BY <3>3, <3>4
  <2>4. QED
    BY <1>1, <2>2, <2>3
<1>2. AllInv /\ [Next]_vars =>
        [Boot => \A t \in {"bind", "group"} :
           (job.table = t /\ job.kind \in {"erase", "program"}) =>
             \/ ram'[t] = before
             \/ \E n \in 0 .. Size[t] : ram'[t] \in PrefixOf(ram[t], t, n)]_vars
  BY <1>1
<1>3. QED
  BY <1>2, AlwaysInv, PTL DEF Spec, PowerFailureKeepsOldOrPrefix

(***************************************************************************)
(* The key bindings are a BindingStore: each step of a table that no       *)
(* deletion has touched is a step of the store or changes nothing there.   *)
(***************************************************************************)
LEMMA BindIs ==
  ASSUME AllInv
  PROVE  /\ "bind" \in Tables \cap Counted /\ Size["bind"] \in Nat \ {0}
         /\ active["bind"] \in 0 .. Size["bind"]
         /\ ram["bind"] \in [Index("bind") -> Inputs["bind"]]
         /\ flash["bind"] \in [Index("bind") -> Inputs["bind"]]
         /\ 0 .. active["bind"] - 1 = {j \in Index("bind") : j < active["bind"]}
<1>1. "bind" \in Tables /\ "bind" \in Counted /\ TypeOK
  BY DEF Tables, Counted, AllInv
<1>2. Size["bind"] \in Nat \ {0} /\ active["bind"] \in 0 .. Size["bind"]
  BY <1>1, SizeType, TypeIs
<1>3. 0 .. active["bind"] - 1 = {j \in Index("bind") : j < active["bind"]}
  BY <1>2 DEF Index
<1>4. QED
  BY <1>1, <1>2, <1>3, TypeIs

LEMMA BindFrame ==
  ASSUME ram'["bind"] = ram["bind"], flash'["bind"] = flash["bind"],
         active'["bind"] = active["bind"], SaveStage' = SaveStage
  PROVE  UNCHANGED Bindings!vars
<1>1. InForce' = InForce
  BY DEF InForce
<1>2. Kept' = Kept
  BY DEF Kept
<1>3. QED
  BY <1>1, <1>2 DEF Bindings!vars

\* The store counts its bindings as the tables would.
LEMMA SameCardinality ==
  ASSUME NEW S
  PROVE  Bindings!Cardinality(S) = Cardinality(S)
BY DEF Cardinality, Bindings!Cardinality

\* The count bounds the number of bindings in force.
LEMMA InForceSize ==
  ASSUME AllInv
  PROVE  Cardinality(InForce) \in Nat /\ Cardinality(InForce) <= active["bind"]
<1> DEFINE a == active["bind"]
           f == [j \in 0 .. a - 1 |-> ram["bind"][j]]
<1>1. a \in Nat /\ 0 \in Int /\ a - 1 \in Int
  BY BindIs
<1>2. IsFiniteSet(0 .. a - 1) /\ Cardinality(0 .. a - 1) = a
  <2>1. IsFiniteSet(0 .. a - 1) /\ Cardinality(0 .. a - 1) = IF 0 > a - 1 THEN 0 ELSE (a - 1) - 0 + 1
    BY <1>1, FS_Interval
  <2>2. QED
    BY <1>1, <2>1
<1>3. InForce = {f[j] : j \in 0 .. a - 1}
  BY BindIs DEF InForce
<1>4. f \in Surjection(0 .. a - 1, InForce)
  BY <1>3 DEF Surjection
<1> HIDE DEF f
<1>5. IsFiniteSet(InForce) /\ Cardinality(InForce) <= Cardinality(0 .. a - 1)
  BY <1>2, <1>4, FS_Surjection
<1>6. QED
  BY <1>2, <1>5, FS_CardinalityType

\* A new entry at the end, or one in place of the only one with its key.
LEMMA BoundAnew ==
  ASSUME AllInv, "bind" \notin stale, NEW k \in Keys, NEW v \in KeyScenes, SetBind(k, v)
  PROVE  Bindings!Bind(k, v)
<1> DEFINE a == active["bind"]
           table == ram["bind"]
           same == {i \in Index("bind") : i < a /\ table[i].key = k}
           e == Entry(k, v)
<1>1. PICK i \in FirstIn(same, a) : Insert("bind", i, e, SCENE_ID_MAX)
  BY DEF SetBind
<1>2. /\ TypeOK /\ Named /\ Filled("bind", table, a) /\ Once("bind", table)
      /\ SCENE_ID_MAX \in 0 .. Size["bind"] /\ "bind" \in Counted /\ job = Idle
  BY ConfigAssumption DEF AllInv, ConfigInv, RamOK, Counted, Size, Tables, SetBind
<1>3. i \in Index("bind") /\ (i \in same \/ (same = {} /\ i = a))
  BY <1>1, <1>2, PlaceType
<1>4. e \in Inputs["bind"] /\ e.key = k /\ e.val = v /\ e = [key |-> k, val |-> v]
  BY DEF Entry, Inputs, Tables
<1>5. PICK new, b : /\ ram'["bind"] = new /\ active'["bind"] = b
                    /\ new = [table EXCEPT ![i] = e]
                    /\ b = IF i = a THEN a + 1 ELSE a
                    /\ job' = Erasing("bind", 0) /\ flash' = flash
  <2>1. /\ ram'["bind"] = [ram["bind"] EXCEPT ![i] = e]
        /\ active'["bind"] = IF i = active["bind"] THEN active["bind"] + 1 ELSE active["bind"]
        /\ job' = Erasing("bind", 0) /\ flash' = flash
    BY <1>1, <1>2, <1>3, <1>4, AfterInsert
  <2>2. QED
    BY <2>1
<1>6. /\ InForce = {table[j] : j \in {j \in Index("bind") : j < a}}
      /\ InForce' = {new[j] : j \in {j \in Index("bind") : j < b}}
  BY <1>5 DEF InForce
<1>7. a \in 0 .. Size["bind"] /\ \A j \in Index("bind") : j \in Int
  BY BindIs DEF Index
<1>8. \A j \in Index("bind") : new[j] = IF j = i THEN e ELSE table[j]
  BY <1>5, BindIs
<1> DEFINE others == {x \in InForce : x.key # k}
<1>9. (others # InForce \/ Cardinality(InForce) < SCENE_ID_MAX) /\ InForce' = others \cup {e}
  <2>1. CASE same = {}
    <3>1. i = a /\ b = a + 1 /\ a < SCENE_ID_MAX
      BY <1>1, <1>3, <1>5, <2>1 DEF Insert
    <3>2. Cardinality(InForce) < SCENE_ID_MAX
      <4>1. Cardinality(InForce) \in Nat /\ Cardinality(InForce) <= a /\ SCENE_ID_MAX \in Int
        BY <1>2, InForceSize, BindIs
      <4>2. QED
        BY <1>7, <3>1, <4>1
    <3>3. others = InForce
      BY <1>6, <2>1
    <3>4. \A j \in Index("bind") : j < b <=> (j < a \/ j = i)
      BY <1>7, <3>1
    <3>5. \A j \in Index("bind") : j < a => j # i
      BY <1>7, <3>1
    <3>6. ASSUME NEW x
          PROVE  x \in InForce' <=> x \in InForce \/ x = e
      BY <1>3, <1>6, <1>8, <3>4, <3>5
    <3>7. QED
      BY <3>2, <3>3, <3>6
  <2>2. CASE i \in same
    <3>1. i < a /\ table[i].key = k /\ b = a
      BY <1>5, <1>7, <2>2
    <3>2. ASSUME NEW j \in Index("bind"), j < a, j # i
          PROVE  table[j].key # k
      <4>1. table[i].val # Blank /\ table[j].val # Blank
        BY <1>2, <1>3, <3>1, <3>2 DEF Filled, Counts
      <4>2. QED
        BY <1>2, <1>3, <3>1, <3>2, <4>1 DEF Once, Clash
    <3>3. table[i] \in InForce /\ table[i] \notin others
      BY <1>3, <1>6, <3>1
    <3>4. ASSUME NEW x
          PROVE  x \in InForce' <=> x \in others \/ x = e
      <4>1. CASE x \in InForce'
        BY <1>6, <1>8, <3>1, <3>2, <4>1
      <4>2. CASE x \in others
        BY <1>6, <1>8, <3>1, <4>2
      <4>3. CASE x = e
        BY <1>3, <1>6, <1>8, <3>1, <4>3
      <4>4. QED
        BY <4>1, <4>2, <4>3
    <3>5. QED
      BY <3>3, <3>4
  <2>3. QED
    BY <1>3, <2>1, <2>2
<1>10. SaveStage \in {"saved", "cut"} /\ SaveStage' = "erasing" /\ Kept' = Kept
  BY <1>2, <1>5 DEF SaveStage, Idle, Erasing, Kept
<1>11. others = {x \in InForce : x.key # k} /\ e = [key |-> k, val |-> v]
  BY <1>4
<1> HIDE DEF others, e
<1>12. QED
  BY <1>9, <1>10, <1>11, SameCardinality DEF Bindings!Bind

\* A request for another table leaves the bindings and their save alone.
LEMMA OtherInsert ==
  ASSUME AllInv, NEW t \in {"scene", "group"}, NEW i \in Index(t), NEW e \in Inputs[t],
         NEW limit \in 0 .. Size[t], Insert(t, i, e, limit), job = Idle
  PROVE  UNCHANGED Bindings!vars
<1>1. t \in Counted /\ "bind" \in Counted /\ "bind" \in Tables /\ t # "bind" /\ TypeOK /\ Named
  BY DEF Counted, Tables, AllInv
<1>2. /\ \A u \in Tables : u # t => ram'[u] = ram[u]
      /\ \A u \in Counted : u # t => active'[u] = active[u]
      /\ job' = Erasing(t, 0) /\ cut' = cut \cup {t} /\ flash' = flash
  BY <1>1, AfterInsert
<1>3. SaveStage' = SaveStage
  BY <1>1, <1>2 DEF SaveStage, Erasing, Idle
<1>4. QED
  BY <1>1, <1>2, <1>3, BindFrame

LEMMA SceneApart ==
  ASSUME AllInv, NEW id \in SceneIds, NEW v \in SceneSettings, SetScene(id, v)
  PROVE  UNCHANGED Bindings!vars
<1> DEFINE same == {i \in Index("scene") : ram["scene"][i].key = id}
<1>1. PICK i \in FirstIn(same, active["scene"]) :
        Insert("scene", i, Entry(id, v), SCENE_ID_MAX)
  BY DEF SetScene
<1>2. /\ TypeOK /\ "scene" \in Counted /\ SCENE_ID_MAX \in 0 .. Size["scene"] /\ job = Idle
      /\ Entry(id, v) \in Inputs["scene"]
  BY ConfigAssumption DEF AllInv, Counted, Size, Tables, SetScene, Entry, Inputs
<1>3. i \in Index("scene")
  BY <1>1, <1>2, PlaceType
<1>4. QED
  BY <1>1, <1>2, <1>3, OtherInsert

LEMMA GroupApart ==
  ASSUME AllInv, NEW k \in GroupAddrs, NEW v \in GroupSettings, SetGroup(k, v)
  PROVE  UNCHANGED Bindings!vars
<1> DEFINE same == {i \in Index("group") : i < active["group"] /\ ram["group"][i] = Entry(k, v)}
<1>1. PICK i \in FirstIn(same, active["group"]) :
        Insert("group", i, Entry(k, v), BIND_GROUP_MAX)
  BY DEF SetGroup
<1>2. /\ TypeOK /\ "group" \in Counted /\ BIND_GROUP_MAX \in 0 .. Size["group"] /\ job = Idle
      /\ Entry(k, v) \in Inputs["group"]
  BY ConfigAssumption DEF AllInv, Counted, Size, Tables, SetGroup, Entry, Inputs
<1>3. i \in Index("group")
  BY <1>1, <1>2, PlaceType
<1>4. QED
  BY <1>1, <1>2, <1>3, OtherInsert

LEMMA RequestStore ==
  ASSUME AllInv, Request, "bind" \notin stale'
  PROVE  Bindings!Next \/ UNCHANGED Bindings!vars
<1>1. CASE \E id \in SceneIds, v \in SceneSettings : SetScene(id, v)
  BY <1>1, SceneApart
<1>2. CASE \E k \in Keys, v \in KeyScenes : SetBind(k, v)
  <2>1. PICK k \in Keys, v \in KeyScenes : SetBind(k, v)
    BY <1>2
  <2>2. stale' = stale
    BY <2>1 DEF SetBind, Insert, Save
  <2>3. QED
    BY <2>1, <2>2, BoundAnew DEF Bindings!Next
<1>3. CASE \E k \in GroupAddrs, v \in GroupSettings : SetGroup(k, v)
  BY <1>3, GroupApart
<1>4. CASE \E D \in SUBSET Index("task") :
             \E tasks \in [D -> {Entry(k, v) : k \in TaskScenes, v \in TaskSettings}] :
               SetTasks(tasks)
  <2>1. PICK tasks : SetTasks(tasks)
    BY <1>4
  <2>2. ram'["bind"] = ram["bind"]
    BY <2>1 DEF SetTasks, AllInv, Named, Tables
  <2>3. job = Idle /\ job' = Erasing("task", 0) /\ cut' = cut \cup {"task"}
        /\ flash' = flash /\ active' = active
    BY <2>1 DEF SetTasks, Save
  <2>4. SaveStage' = SaveStage
    BY <2>3 DEF SaveStage, Erasing, Idle
  <2>5. QED
    BY <2>2, <2>3, <2>4, BindFrame
<1>5. CASE DelBind \/ DelScene
  <2>1. PICK t : job = Idle /\ job' = Deleting(t, 0) /\ UNCHANGED <<ram, active, flash, cut>>
    BY <1>5 DEF DelBind, DelScene, ghosts
  <2>2. SaveStage' = SaveStage
    BY <2>1 DEF SaveStage, Deleting, Idle
  <2>3. QED
    BY <2>1, <2>2, BindFrame
<1>6. QED
  BY <1>1, <1>2, <1>3, <1>4, <1>5 DEF Request

\* The bindings take one page: erasing it empties the kept set.
LEMMA EraseStore ==
  ASSUME AllInv, ErasePage
  PROVE  Bindings!Next \/ UNCHANGED Bindings!vars
<1>1. TypeOK /\ Named /\ job.kind = "erase" /\ job.table \in Tables
  BY DEF AllInv, ErasePage, TypeOK
<1>2. UNCHANGED <<ram, active, cut>> /\ flash' = [flash EXCEPT ![job.table] = Erased(job.table, job.at)]
  BY DEF ErasePage
<1>3. CASE job.table = "bind"
  <2>1. Pages("bind") = 1 /\ job.at \in 0 .. Pages("bind") - 1
    BY <1>1, <1>3, PageType DEF TypeOK
  <2>2. job.at = 0 /\ ~(job.at + 1 < Pages("bind"))
    BY <2>1
  <2>3. job' = Writing("bind", 0)
    BY <1>3, <2>2 DEF ErasePage
  <2>4. flash'["bind"] = Erased("bind", 0)
    BY <1>1, <1>2, <1>3, <2>2, FlashStep
  <2>5. \A i \in Index("bind") : flash'["bind"][i].val = Blank
    BY <2>4, Fields DEF Erased, Page
  <2>6. Kept' = {}
    BY <2>5 DEF Kept, Counts
  <2>7. InForce' = InForce
    BY <1>2 DEF InForce
  <2>8. SaveStage = "erasing" /\ SaveStage' = "writing"
    BY <1>1, <1>3, <2>3 DEF SaveStage, Writing
  <2>9. QED
    BY <2>6, <2>7, <2>8 DEF Bindings!Next, Bindings!Erase
<1>4. CASE job.table # "bind"
  <2>1. flash'["bind"] = flash["bind"]
    BY <1>1, <1>2, <1>4, FlashStep DEF Tables
  <2>2. job'.table = job.table
    BY DEF ErasePage, Erasing, Writing
  <2>3. SaveStage' = SaveStage
    BY <1>2, <1>4, <2>2 DEF SaveStage
  <2>4. QED
    BY <1>2, <2>1, <2>3, BindFrame
<1>5. QED
  BY <1>3, <1>4

\* The entry programmed is kept if it is in use; with the last one, all are.
LEMMA ProgramStore ==
  ASSUME AllInv, Program, "bind" \notin stale'
  PROVE  Bindings!Next \/ UNCHANGED Bindings!vars
<1>1. TypeOK /\ Named /\ ProgramOK /\ SavedOK /\ RamOK /\ job.kind = "program" /\ job.table \in Tables
  BY DEF AllInv, ConfigInv, Program, TypeOK
<1>2. UNCHANGED <<ram, active, stale>>
  BY DEF Program
<1>3. CASE job.table = "bind"
  <2> DEFINE table == ram["bind"]
             old == flash["bind"]
  <2>1. PICK i : i = job.at /\ i \in Index("bind")
    BY <1>1, <1>3 DEF TypeOK
  <2>2. PICK new : new = flash'["bind"] /\ new = [old EXCEPT ![i] = table[i]]
    <3>1. flash' = [flash EXCEPT !["bind"] = [flash["bind"] EXCEPT ![i] = ram["bind"][i]]]
      BY <1>1, <1>3, <2>1 DEF Program, Named
    <3>2. QED
      BY <1>1, <1>3, <3>1, FlashStep
  <2>3. \A j \in Index("bind") : old[j] = IF j < i THEN table[j] ELSE BlankEntry
    BY <1>1, <1>3, <2>1 DEF ProgramOK, SavedOK
  <2>4. ~Counts("bind", BlankEntry)
    BY Fields DEF Counts, BlankEntry
  <2>5. Filled("bind", table, active["bind"])
    BY <1>1, <1>2, BindIs DEF RamOK
  <2>6. \A j \in Index("bind") : new[j] = IF j = i THEN table[i] ELSE old[j]
    BY <2>2, BindIs
  <2>7. InForce' = InForce /\ InForce = {table[j] : j \in {j \in Index("bind") : Counts("bind", table[j])}}
    BY <1>2, <2>5 DEF InForce, Filled
  <2>8. /\ Kept = {old[j] : j \in {j \in Index("bind") : Counts("bind", old[j])}}
        /\ Kept' = {new[j] : j \in {j \in Index("bind") : Counts("bind", new[j])}}
    BY <2>2 DEF Kept
  <2>9. SaveStage = "writing"
    BY <1>1, <1>3 DEF SaveStage
  <2>10. i \in Int /\ ~(i < i) /\ \A j \in Index("bind") : j \in Int
    BY <2>1, BindIs DEF Index
  <2>11. CASE i + 1 < Size["bind"]
    <3>1. SaveStage' = "writing"
      BY <1>3, <2>1, <2>11 DEF Program, SaveStage, Writing
    <3>2. CASE Counts("bind", table[i])
      <4>1. old[i] = BlankEntry
        BY <2>1, <2>3, <2>10
      <4>2. Kept' = Kept \cup {table[i]}
        <5>1. ASSUME NEW x
              PROVE  x \in Kept' <=> x \in Kept \/ x = table[i]
          BY <2>1, <2>4, <2>6, <2>8, <3>2, <4>1
        <5>2. QED
          BY <5>1
      <4>3. table[i] \in InForce
        BY <2>1, <2>7, <3>2
      <4>4. QED
        BY <2>7, <2>9, <3>1, <4>2, <4>3 DEF Bindings!Next, Bindings!Write
    <3>3. CASE ~Counts("bind", table[i])
      <4>1. old[i] = BlankEntry
        BY <2>1, <2>3, <2>10
      <4>2. ASSUME NEW x
            PROVE  x \in Kept' <=> x \in Kept
        BY <2>4, <2>6, <2>8, <3>3, <4>1
      <4>3. Kept' = Kept
        BY <4>2
      <4>4. QED
        BY <2>7, <2>9, <3>1, <4>3 DEF Bindings!vars
    <3>4. QED
      BY <3>2, <3>3
  <2>12. CASE ~(i + 1 < Size["bind"])
    <3>1. SaveStage' = "saved"
      BY <1>3, <2>1, <2>12 DEF Program, SaveStage, Idle
    <3>2. ASSUME NEW j \in Index("bind")
          PROVE  new[j] = table[j]
      <4>1. j = i \/ j < i
        BY <2>1, <2>12, BindIs DEF Index
      <4>2. QED
        BY <2>3, <2>6, <4>1
    <3>3. Kept' = InForce
      BY <2>7, <2>8, <3>2
    <3>4. Kept \subseteq InForce
      BY <2>3, <2>4, <2>7, <2>8
    <3>5. QED
      BY <2>7, <2>9, <3>1, <3>3, <3>4 DEF Bindings!Next, Bindings!Complete
  <2>13. QED
    BY <2>11, <2>12
<1>4. CASE job.table # "bind"
  <2>1. flash'["bind"] = flash["bind"]
    BY <1>1, <1>4 DEF Program, Named, Tables
  <2>2. job'.table # "bind" /\ ("bind" \in cut' <=> "bind" \in cut)
    BY <1>4 DEF Program, Writing, Idle
  <2>3. SaveStage' = SaveStage
    BY <1>4, <2>2 DEF SaveStage
  <2>4. QED
    BY <1>2, <2>1, <2>3, BindFrame
<1>5. QED
  BY <1>3, <1>4

LEMMA FailStore ==
  ASSUME AllInv, SaveFails
  PROVE  Bindings!Next \/ UNCHANGED Bindings!vars
<1>1. UNCHANGED <<ram, active, flash, cut>> /\ job' = Idle /\ job.kind \in {"erase", "program"}
      /\ job.table \in cut
  BY DEF SaveFails, ghosts, AllInv, ConfigInv, SavedOK
<1>2. InForce' = InForce /\ Kept' = Kept
  BY <1>1 DEF InForce, Kept
<1>3. CASE job.table = "bind"
  <2>1. SaveStage \in {"erasing", "writing"} /\ SaveStage' = "cut"
    BY <1>1, <1>3 DEF SaveStage, Idle
  <2>2. QED
    BY <1>2, <2>1 DEF Bindings!Next, Bindings!Fail
<1>4. CASE job.table # "bind"
  <2>1. SaveStage' = SaveStage
    BY <1>1, <1>4 DEF SaveStage, Idle
  <2>2. QED
    BY <1>2, <2>1 DEF Bindings!vars
<1>5. QED
  BY <1>3, <1>4

\* Only pages of other tables are erased before the deletion ends.
LEMMA DeleteStore ==
  ASSUME AllInv, DeletePage, "bind" \notin stale'
  PROVE  UNCHANGED Bindings!vars
<1>1. TypeOK /\ Named /\ job.kind = "delete" /\ job.table \in Tables /\ UNCHANGED <<ram, cut>>
  BY DEF AllInv, DeletePage, TypeOK
<1>2. job.at + 1 < Pages(job.table)
  BY DEF DeletePage
<1>3. job' = Deleting(job.table, job.at + 1) /\ active' = active
  BY <1>2 DEF DeletePage
<1>4. job.table # "bind"
  <2>1. SUFFICES ASSUME job.table = "bind" PROVE FALSE
    OBVIOUS
  <2>2. job.at \in 0 .. Pages("bind") - 1 /\ Pages("bind") = 1
    BY <1>1, <2>1, PageType DEF TypeOK
  <2>3. QED
    BY <1>2, <2>1, <2>2
<1>5. flash'["bind"] = flash["bind"]
  BY <1>1, <1>4 DEF DeletePage, Named, Tables
<1>6. SaveStage' = SaveStage
  BY <1>1, <1>3, <1>4 DEF SaveStage, Deleting
<1>7. QED
  BY <1>1, <1>3, <1>5, <1>6, BindFrame

\* Boot finds the entries in use where it looks for them.
LEMMA BootStore ==
  ASSUME AllInv, Boot, "bind" \notin stale'
  PROVE  Bindings!Restart
<1>1. ram' = flash /\ flash' = flash /\ cut' = {} /\ job' = Idle
  BY DEF Boot
<1>2. AllInv'
  BY BootInv
<1>3. Filled("bind", ram'["bind"], active'["bind"])
  BY <1>2 DEF AllInv, ConfigInv, RamOK, Counted
<1>4. InForce' = Kept /\ Kept' = Kept
  <2>1. \A j \in Index("bind") : j < active'["bind"] <=> Counts("bind", flash["bind"][j])
    BY <1>1, <1>3 DEF Filled
  <2>2. QED
    BY <1>1, <2>1 DEF InForce, Kept
<1>5. SaveStage' = "saved"
  BY <1>1 DEF SaveStage, Idle
<1>6. QED
  BY <1>4, <1>5 DEF Bindings!Restart

LEMMA InitStore == Init => Bindings!Init
<1> SUFFICES ASSUME Init PROVE Bindings!Init
  OBVIOUS
<1>1. /\ ram["bind"] = BlankTable("bind") /\ flash["bind"] = BlankTable("bind")
      /\ active["bind"] = 0 /\ job = Idle /\ cut = {} /\ "bind" \in Counted
  BY DEF Init, Tables, Counted
<1>2. Filled("bind", ram["bind"], 0)
  BY <1>1, BlankOK
<1>3. \A j \in Index("bind") : ~(j < 0) /\ j \in Int
  BY SizeType DEF Index, Tables
<1>4. InForce = {} /\ Kept = {}
  BY <1>1, <1>2, <1>3 DEF InForce, Kept, Filled
<1>5. SaveStage = "saved"
  BY <1>1 DEF SaveStage, Idle
<1>6. QED
  BY <1>4, <1>5 DEF Bindings!Init

LEMMA NextStore ==
  AllInv /\ [Next]_vars => [Bindings!Next \/ "bind" \in stale']_(Bindings!vars)
<1> SUFFICES ASSUME AllInv, [Next]_vars, "bind" \notin stale'
             PROVE  Bindings!Next \/ UNCHANGED Bindings!vars
  OBVIOUS
<1>1. CASE Request
  BY <1>1, RequestStore
<1>2. CASE ErasePage
  BY <1>2, EraseStore
<1>3. CASE Program
  BY <1>3, ProgramStore
<1>4. CASE SaveFails
  BY <1>4, FailStore
<1>5. CASE DeletePage
  BY <1>5, DeleteStore
<1>6. CASE Boot
  BY <1>6, BootStore DEF Bindings!Next
<1>7. CASE UNCHANGED vars
  BY <1>7, BindFrame DEF vars, ghosts, SaveStage
<1>8. QED
  BY <1>1, <1>2, <1>3, <1>4, <1>5, <1>6, <1>7 DEF Next

(* The table of key bindings, its count and its page of flash implement a  *)
(* set of bindings and a kept copy of it, through every request, failed    *)
(* save and power failure, until a deletion.                               *)
THEOREM BindingsAreStored == Spec => BindingsKept
BY InitStore, NextStore, AlwaysInv, PTL DEF Spec, BindingsKept

(***************************************************************************)
(* Deleted bindings.  DeletedStayUnbound fails, as a run shows; these say  *)
(* where alone: at a boot.                                                 *)
(***************************************************************************)
OnlyBootRevives == [][DeletedStayUnbound /\ ~DeletedStayUnbound' => Boot]_vars

\* A binding binds its own key only, whatever the deletion left in the table.
LEMMA BindsItsKey ==
  ASSUME AllInv, NEW k \in Keys, NEW v \in KeyScenes, SetBind(k, v)
  PROVE  BoundKeys' \subseteq BoundKeys \cup {k}
<1> DEFINE a == active["bind"]
           table == ram["bind"]
           same == {i \in Index("bind") : i < a /\ table[i].key = k}
           e == Entry(k, v)
<1>1. PICK i \in FirstIn(same, a) : Insert("bind", i, e, SCENE_ID_MAX)
  BY DEF SetBind
<1>2. /\ TypeOK /\ Named /\ SCENE_ID_MAX \in 0 .. Size["bind"] /\ "bind" \in Counted /\ job = Idle
  BY ConfigAssumption DEF AllInv, Counted, Size, Tables, SetBind
<1>3. i \in Index("bind")
  BY <1>1, <1>2, PlaceType
<1>4. e \in Inputs["bind"] /\ e.key = k
  BY DEF Entry, Inputs, Tables
<1>5. PICK new, b : /\ ram'["bind"] = new /\ active'["bind"] = b
                    /\ new = [table EXCEPT ![i] = e]
                    /\ b = IF i = a THEN a + 1 ELSE a
  <2>1. /\ ram'["bind"] = [ram["bind"] EXCEPT ![i] = e]
        /\ active'["bind"] = IF i = active["bind"] THEN active["bind"] + 1 ELSE active["bind"]
    BY <1>1, <1>2, <1>3, <1>4, AfterInsert
  <2>2. QED
    BY <2>1
<1>6. /\ BoundKeys = {table[j].key : j \in {j \in Index("bind") : j < a}}
      /\ BoundKeys' = {new[j].key : j \in {j \in Index("bind") : j < b}}
  BY <1>5 DEF BoundKeys
<1>7. a \in 0 .. Size["bind"] /\ \A j \in Index("bind") : j \in Int
  BY BindIs DEF Index
<1>8. \A j \in Index("bind") : new[j] = IF j = i THEN e ELSE table[j]
  BY <1>5, BindIs
<1>9. \A j \in Index("bind") : j < b => j = i \/ j < a
  BY <1>5, <1>7
<1> HIDE DEF e
<1>10. QED
  BY <1>4, <1>6, <1>8, <1>9

\* A request for another table leaves the bound keys alone.
LEMMA OtherBinds ==
  ASSUME UNCHANGED InForce
  PROVE  UNCHANGED BoundKeys
<1>1. BoundKeys = {x.key : x \in InForce}
  BY DEF BoundKeys, InForce
<1>2. QED
  BY <1>1, <1>1 DEF BoundKeys, InForce

(* A deleted key binding comes back only through a restart: until the next *)
(* boot it stays unbound unless its key is bound again, although the table *)
(* in RAM still holds it, whatever is bound, saved or deleted meanwhile.   *)
THEOREM RevivedByBootOnly == Spec => OnlyBootRevives
<1>1. ASSUME AllInv, [Next]_vars, ~Boot, DeletedStayUnbound
      PROVE  DeletedStayUnbound'
  <2>1. CASE Request
    <3>1. CASE \E k \in Keys, v \in KeyScenes : SetBind(k, v)
      <4>1. PICK k \in Keys, v \in KeyScenes : SetBind(k, v)
        BY <3>1
      <4>2. deleted' = deleted \ {k}
        BY <4>1 DEF SetBind
      <4>3. QED
        BY <1>1, <4>1, <4>2, BindsItsKey DEF DeletedStayUnbound
    <3>2. CASE \/ \E id \in SceneIds, v \in SceneSettings : SetScene(id, v)
               \/ \E k \in GroupAddrs, v \in GroupSettings : SetGroup(k, v)
      <4>1. UNCHANGED Bindings!vars
        BY <1>1, <3>2, SceneApart, GroupApart
      <4>2. UNCHANGED BoundKeys
        BY <4>1, OtherBinds DEF Bindings!vars
      <4>3. deleted' = deleted
        BY <3>2 DEF SetScene, SetGroup
      <4>4. QED
        BY <1>1, <4>2, <4>3 DEF DeletedStayUnbound
    <3>3. CASE \E D \in SUBSET Index("task") :
                 \E tasks \in [D -> {Entry(k, v) : k \in TaskScenes, v \in TaskSettings}] :
                   SetTasks(tasks)
      <4>1. PICK tasks : SetTasks(tasks)
        BY <3>3
      <4>2. ram'["bind"] = ram["bind"] /\ active' = active /\ deleted' = deleted
        BY <1>1, <4>1 DEF SetTasks, AllInv, Named, Tables
      <4>3. QED
        BY <1>1, <4>2 DEF DeletedStayUnbound, BoundKeys
    <3>4. CASE DelBind \/ DelScene
      BY <1>1, <3>4 DEF DelBind, DelScene, ghosts, DeletedStayUnbound, BoundKeys
    <3>5. QED
      BY <2>1, <3>1, <3>2, <3>3, <3>4 DEF Request
  <2>2. CASE ErasePage \/ Program \/ SaveFails
    <3>1. UNCHANGED <<ram, active, deleted>>
      BY <2>2 DEF ErasePage, Program, SaveFails, ghosts
    <3>2. QED
      BY <1>1, <3>1 DEF DeletedStayUnbound, BoundKeys
  <2>3. CASE DeletePage
    <3>1. job.table \in Tables /\ job.kind = "delete" /\ ram' = ram /\ Named
      BY <1>1, <2>3 DEF AllInv, TypeOK, DeletePage
    <3>2. CASE job.at + 1 < Pages(job.table)
      <4>1. job.table # "bind"
        <5>1. SUFFICES ASSUME job.table = "bind" PROVE FALSE
          OBVIOUS
        <5>2. job.at \in 0 .. Pages("bind") - 1 /\ Pages("bind") = 1
          BY <1>1, <3>1, <5>1, PageType DEF AllInv, TypeOK
        <5>3. QED
          BY <3>2, <5>1, <5>2
      <4>2. active' = active /\ deleted' = deleted
        BY <2>3, <3>2, <4>1 DEF DeletePage
      <4>3. QED
        BY <1>1, <3>1, <4>2 DEF DeletedStayUnbound, BoundKeys
    <3>3. CASE ~(job.at + 1 < Pages(job.table))
      <4>1. active'["bind"] = 0
        <5>1. active' = [active EXCEPT !["bind"] = 0] /\ "bind" \in Counted
          BY <2>3, <3>3 DEF DeletePage, Counted, Tables
        <5>2. QED
          BY <3>1, <5>1 DEF Named
      <4>2. \A j \in Index("bind") : ~(j < 0)
        BY BindIs, <1>1 DEF Index
      <4>3. BoundKeys' = {}
        BY <4>1, <4>2 DEF BoundKeys
      <4>4. QED
        BY <4>3 DEF DeletedStayUnbound
    <3>4. QED
      BY <3>2, <3>3
  <2>4. CASE UNCHANGED vars
    BY <1>1, <2>4 DEF vars, ghosts, DeletedStayUnbound, BoundKeys
  <2>5. QED
    BY <1>1, <2>1, <2>2, <2>3, <2>4 DEF Next
<1>2. AllInv /\ [Next]_vars => [DeletedStayUnbound /\ ~DeletedStayUnbound' => Boot]_vars
  BY <1>1
<1>3. QED
  BY <1>2, AlwaysInv, PTL DEF Spec, OnlyBootRevives
=============================================================================
