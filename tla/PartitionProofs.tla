--------------------------- MODULE PartitionProofs ---------------------------
(***************************************************************************)
(* Proofs about Partition, for any disk, any number of names and any       *)
(* sizes.                                                                  *)
(*                                                                         *)
(* The inductive invariant says what a worker may rely on between its look *)
(* at the disk and its write to the table or the status, while the cleanup *)
(* deletes partitions by number and the controller changes the objects.    *)
(***************************************************************************)
EXTENDS Partition, TLAPS

\* What the cleanup is about to delete by number is not somebody else's.
ForeignSafe == \A i \in clean.todo : table[i] # Foreign

\* A number in the cache is that of the name's partition.  The number 0, which
\* resizing a partition that is gone leaves behind, means that the cleanup has
\* removed it.
CacheTrue(n) ==
    /\ cache[n] \in Numbers => cache[n] \in Named(n)
    /\ cache[n] = 0 => n \in struck

\* A partition is never smaller than the claim, and only an object that was
\* created is expanded.
SizesTrue(n) ==
    /\ \A i \in Named(n) : Size(table[i]) >= Want[n]
    /\ obj[n] # None /\ ~obj[n].id => obj[n].size = Want[n]

\* The progress of a worker.
CreateTrue(n) ==
    /\ rec[n].size = Want[n] /\ ~obj[n].id
    /\ rec[n].pc = "lock" => Named(n) = {}
    /\ rec[n].pc \in {"probe", "status"} => n \in struck \/ Named(n) # {}
UpdateTrue(n) ==
    /\ rec[n].size <= obj[n].size
    /\ n \in struck \/ Named(n) # {}
    /\ rec[n].pc \in {"probe", "status"} =>
          n \in struck \/ \E i \in Named(n) : Size(table[i]) >= rec[n].size \/ n \in resized
DeleteTrue(n) ==
    /\ obj[n].deleting
    /\ rec[n].pc \in {"probe", "status"} => cache[n] = -1
WorkTrue(n) ==
    /\ rec[n].op # "none" => obj[n] # None
    /\ rec[n].op = "create" => CreateTrue(n)
    /\ rec[n].op = "update" => UpdateTrue(n)
    /\ rec[n].op = "delete" => DeleteTrue(n)

\* RawBacked for one name.
Backed(n) ==
    obj[n] # None /\ obj[n].id /\ ~obj[n].deleting /\ n \notin struck =>
        \E i \in Named(n) : Size(table[i]) >= obj[n].current \/ n \in resized

NameTrue(n) == CacheTrue(n) /\ SizesTrue(n) /\ WorkTrue(n) /\ Backed(n)

IInv == TypeOK /\ TableSound /\ ForeignSafe /\ \A n \in Names : NameTrue(n)

USE PartitionAssumption

LEMMA Constants ==
    /\ Numbers \subseteq Nat /\ 0 \notin Numbers /\ -1 \notin Numbers
    /\ Foreign \in Entries /\ Foreign # None
    /\ \A n \in Names : PartitionName(n) # Foreign.name
    /\ \A m, n \in Names : PartitionName(m) = PartitionName(n) => m = n
    /\ \A n \in Names : New(n) \in Objects
    /\ Idle \in Works /\ Zero \in [first : 0..DiskSize, last : 0..DiskSize]
    /\ None \notin Entries /\ None \notin Objects
  BY DEF Numbers, Foreign, Entries, PartitionName, New, Objects, Idle, Zero, Works

\* Two partitions of one name are the same.
LEMMA NamedUnique ==
    ASSUME TableSound, NEW n \in Names, NEW i \in Named(n), NEW j \in Named(n)
    PROVE  i = j
  BY Zenon DEF TableSound, Named

\* What is known of a name stays if nothing of that name changes.
LEMMA NameKept ==
    ASSUME NEW n \in Names, NameTrue(n), TypeOK,
           Named(n)' = Named(n), \A i \in Named(n) : table'[i] = table[i],
           cache'[n] = cache[n], obj'[n] = obj[n], rec'[n] = rec[n],
           n \in struck' <=> n \in struck, n \in resized' <=> n \in resized
    PROVE  NameTrue(n)'
  BY Zenon DEF NameTrue, CacheTrue, SizesTrue, WorkTrue, Backed, CreateTrue, UpdateTrue, DeleteTrue, Numbers

\* The table stays.
LEMMA TableKept ==
    ASSUME UNCHANGED table
    PROVE  /\ Partitions' = Partitions /\ \A n : Named(n)' = Named(n)
           /\ TableSound <=> TableSound'
  BY Zenon DEF Partitions, Named, TableSound

LEMMA InitIInv == Init => IInv
  <1> SUFFICES ASSUME Init PROVE IInv
    OBVIOUS
  <1>1. TypeOK
    BY Constants DEF Init, TypeOK, CleanIdle
  <1>2. \A i \in Partitions : i = 1 /\ table[i] = Foreign
    BY Zenon DEF Init, Partitions
  <1>3. TableSound /\ \A n \in Names : Named(n) = {}
    BY <1>2, Constants, Zenon DEF TableSound, Named
  <1>4. ForeignSafe
    BY Zenon DEF Init, ForeignSafe, CleanIdle
  <1>5. ASSUME NEW n \in Names PROVE NameTrue(n)
    BY <1>3, Constants DEF Init, NameTrue, CacheTrue, SizesTrue, WorkTrue, Backed, Idle
  <1> QED BY <1>1, <1>3, <1>4, <1>5, Zenon DEF IInv

\* A worker that starts again, and one that goes on.
LEMMA RecTypes ==
    ASSUME TypeOK, NEW n \in Names
    PROVE  /\ Requeue(n) => rec' \in [Names -> Works] /\ rec'[n] = Idle
                            /\ \A m \in Names : m # n => rec'[m] = rec[m]
           /\ \A pc \in {"probe", "status", "exhausted"} : Goto(n, pc) =>
                 /\ rec' \in [Names -> Works] /\ rec'[n].pc = pc
                 /\ rec'[n].op = rec[n].op /\ rec'[n].size = rec[n].size
                 /\ \A m \in Names : m # n => rec'[m] = rec[m]
  <1>1. Requeue(n) => rec' \in [Names -> Works] /\ rec'[n] = Idle
                      /\ \A m \in Names : m # n => rec'[m] = rec[m]
    BY Constants DEF TypeOK, Requeue
  <1>2. ASSUME NEW pc \in {"probe", "status", "exhausted"}, Goto(n, pc)
        PROVE  /\ rec' \in [Names -> Works] /\ rec'[n].pc = pc
               /\ rec'[n].op = rec[n].op /\ rec'[n].size = rec[n].size
               /\ \A m \in Names : m # n => rec'[m] = rec[m]
    <2>1. [rec[n] EXCEPT !.pc = pc, !.part = Zero] \in Works
      BY Constants, Zenon DEF TypeOK, Works
    <2>2. rec' = [rec EXCEPT ![n] = [rec[n] EXCEPT !.pc = pc, !.part = Zero]]
      BY <1>2, Zenon DEF Goto, TypeOK
    <2> QED BY <2>1, <2>2, Zenon DEF TypeOK, Works
  <1> QED BY <1>1, <1>2, Zenon

LEMMA BusyStep == ASSUME IInv, NEW n \in Names, Busy(n) PROVE IInv'
  <1>1. TypeOK'
    BY RecTypes DEF IInv, TypeOK, Busy, Fault, disk, history
  <1>2. TableSound' /\ ForeignSafe'
    BY TableKept, Zenon DEF IInv, ForeignSafe, Busy, disk
  <1>3. ASSUME NEW m \in Names PROVE NameTrue(m)'
    <2>1. CASE m = n
      BY <2>1, RecTypes, TableKept DEF IInv, NameTrue, CacheTrue, SizesTrue, WorkTrue, Backed, Busy,
            disk, history, Idle
    <2>2. CASE m # n
      BY <2>2, RecTypes, TableKept, NameKept, Zenon DEF IInv, Busy, disk, history
    <2> QED BY <2>1, <2>2, Zenon
  <1> QED BY <1>1, <1>2, <1>3, Zenon DEF IInv

LEMMA PartProbeStep == ASSUME IInv, NEW n \in Names, PartProbe(n) PROVE IInv'
  <1>1. TypeOK'
    BY RecTypes DEF IInv, TypeOK, PartProbe, Fault, disk, history
  <1>2. TableSound' /\ ForeignSafe'
    BY TableKept, Zenon DEF IInv, ForeignSafe, PartProbe, disk
  <1>3. ASSUME NEW m \in Names PROVE NameTrue(m)'
    <2>1. CASE m = n /\ Goto(n, "status")
      <3>1. rec'[n].pc = "status" /\ rec'[n].op = rec[n].op /\ rec'[n].size = rec[n].size
        BY <2>1, RecTypes, Zenon DEF IInv
      <3> QED BY <2>1, <3>1, TableKept DEF IInv, NameTrue, CacheTrue, SizesTrue, WorkTrue, Backed,
                PartProbe, disk, history, CreateTrue, UpdateTrue, DeleteTrue
    <2>2. CASE m = n /\ Requeue(n)
      BY <2>2, RecTypes, TableKept DEF IInv, NameTrue, CacheTrue, SizesTrue, WorkTrue, Backed, PartProbe,
            disk, history, Idle
    <2>3. CASE m # n
      BY <2>3, RecTypes, TableKept, NameKept, Zenon DEF IInv, PartProbe, disk, history
    <2> QED BY <2>1, <2>2, <2>3, Zenon DEF PartProbe
  <1> QED BY <1>1, <1>2, <1>3, Zenon DEF IInv

LEMMA ResetStep ==
    ASSUME IInv, Reset, UNCHANGED <<table, obj, history, ops>>, faults' \in 0..MaxFaults
    PROVE  IInv'
  <1>1. TypeOK'
    BY Constants DEF IInv, TypeOK, Reset, CleanIdle, history
  <1>2. TableSound' /\ ForeignSafe'
    BY TableKept, Zenon DEF IInv, ForeignSafe, Reset, CleanIdle
  <1>3. ASSUME NEW m \in Names PROVE NameTrue(m)'
    BY TableKept, Constants DEF IInv, NameTrue, CacheTrue, SizesTrue, WorkTrue, Backed, Reset, history, Idle
  <1> QED BY <1>1, <1>2, <1>3, Zenon DEF IInv

LEMMA ReconcileStep == ASSUME IInv, NEW n \in Names, Reconcile(n) PROVE IInv'
  <1> USE DEF Start
  <1>0. ASSUME Named(n) # {}
        PROVE  \E i \in Named(n) : GetPartition(n) = [first |-> table[i].first, last |-> table[i].last]
    BY <1>0, Zenon DEF GetPartition
  <1>1. GetPartition(n) \in [first : 0..DiskSize, last : 0..DiskSize]
    <2>1. CASE Named(n) = {}
      BY <2>1, Constants, Zenon DEF GetPartition
    <2>2. CASE Named(n) # {}
      BY <2>2, <1>0 DEF IInv, TypeOK, Named, Partitions, Entries
    <2> QED BY <2>1, <2>2, Zenon
  <1>2. obj[n] \in Objects
    BY Zenon DEF IInv, TypeOK, Reconcile
  <1>3. rec' \in [Names -> Works] /\ \A m \in Names : m # n => rec'[m] = rec[m]
    <2>1. ASSUME NEW op \in {"create", "update", "delete"}, NEW pc \in {"status", "lock"},
                 NEW part \in [first : 0..DiskSize, last : 0..DiskSize], Start(n, op, pc, part)
          PROVE  rec' \in [Names -> Works] /\ \A m \in Names : m # n => rec'[m] = rec[m]
      <3>1. [op |-> op, pc |-> pc, size |-> obj[n].size, part |-> part, old |-> FALSE] \in Works
        BY <1>2, Zenon DEF Works, Objects
      <3> QED BY <2>1, <3>1, Zenon DEF IInv, TypeOK
    <2> QED BY <2>1, <1>1, Constants, Zenon DEF Reconcile
  <1>4. TypeOK'
    BY <1>3, Zenon DEF IInv, TypeOK, Reconcile, disk, history
  <1>5. TableSound' /\ ForeignSafe'
    BY TableKept, Zenon DEF IInv, ForeignSafe, Reconcile, disk
  <1>6. UNCHANGED <<table, cache, obj, struck, resized>>
    BY Zenon DEF Reconcile, disk, history
  <1>7. WorkTrue(n)'
    <2>1. CASE Unserved(n) /\ rec'[n] = [op |-> "create", pc |-> IF AlreadyThere(n) THEN "status" ELSE "lock",
                                         size |-> obj[n].size, part |-> Zero, old |-> FALSE]
      <3>1. AlreadyThere(n) => n \in struck \/ Named(n) # {}
        BY DEF IInv, TypeOK, AlreadyThere, NameTrue, CacheTrue, Numbers
      <3> QED BY <2>1, <3>1, <1>6, TableKept DEF IInv, Unserved, AlreadyThere, WorkTrue, CreateTrue,
                NameTrue, SizesTrue
    <2>2. CASE /\ ~obj[n].deleting /\ obj[n].id
               /\ rec'[n] = [op |-> "update",
                             pc |-> IF GetPartition(n).last - GetPartition(n).first >= obj[n].size
                                      THEN "status" ELSE "lock",
                             size |-> obj[n].size, part |-> GetPartition(n), old |-> FALSE]
      <3>1. n \in struck \/ Named(n) # {}
        BY <2>2, <1>2, Constants, Zenon DEF IInv, NameTrue, Backed
      <3>2. ASSUME n \notin struck, GetPartition(n).last - GetPartition(n).first >= obj[n].size
            PROVE  \E i \in Named(n) : Size(table[i]) >= obj[n].size
        BY <3>1, <3>2, <1>0, <1>2 DEF IInv, TypeOK, Named, Partitions, Entries, Size, Objects
      <3> QED BY <2>2, <3>1, <3>2, <1>2, <1>6, TableKept, Constants DEF WorkTrue, UpdateTrue, Objects
    <2>3. CASE obj[n].deleting /\ rec'[n] = [op |-> "delete", pc |-> "lock", size |-> obj[n].size,
                                             part |-> Zero, old |-> FALSE]
      BY <2>3, <1>2, <1>6, Constants DEF WorkTrue, DeleteTrue
    <2> QED BY <2>1, <2>2, <2>3, Zenon DEF IInv, TypeOK, Reconcile
  <1>8. ASSUME NEW m \in Names PROVE NameTrue(m)'
    BY <1>3, <1>6, <1>7, TableKept, NameKept DEF IInv, NameTrue, CacheTrue, SizesTrue, Backed
  <1> QED BY <1>4, <1>5, <1>8, Zenon DEF IInv

\* The extent that createPartition takes lies in its gap and has the size that
\* was asked for, at least.
LEMMA ExtentFits ==
    ASSUME NEW size \in Nat \ {0}, NEW gap \in FreeSpacesWithMin(size)
    PROVE  LET e == Extent(gap, size)
           IN  /\ e.first \in 1..DiskSize /\ e.last \in 1..DiskSize
               /\ Size(e) >= size
               /\ e.first..e.last \cap Used = {}
  <1> DEFINE e == Extent(gap, size)
  <1>1. /\ gap.first \in 1..DiskSize /\ gap.last \in 1..DiskSize
        /\ gap.first <= gap.last /\ gap.last - gap.first + 1 >= size
        /\ gap.first..gap.last \cap Used = {}
    BY Zenon DEF FreeSpacesWithMin, Size
  <1>2. /\ e.first = gap.first
        /\ e.last = IF gap.last - gap.first > size THEN gap.first + size - 1 ELSE gap.last
    BY Zenon DEF Extent
  <1>3. e.first \in 1..DiskSize /\ e.last \in 1..DiskSize /\ e.last <= gap.last
    BY <1>1, <1>2
  <1>4. Size(e) >= size
    BY <1>1, <1>2 DEF Size
  <1>5. e.first..e.last \subseteq gap.first..gap.last
    BY <1>1, <1>2, <1>3
  <1> QED BY <1>1, <1>3, <1>4, <1>5, Zenon

LEMMA CreatePartitionStep == ASSUME IInv, NEW n \in Names, CreatePartition(n) PROVE IInv'
  <1>1. CASE PanicNoRoom(n)
    BY <1>1, ResetStep, Zenon DEF PanicNoRoom, IInv, TypeOK
  <1>2. CASE /\ Acquired(n, "create") /\ Numbers = Partitions /\ Goto(n, "exhausted")
             /\ UNCHANGED <<disk, mutex, history, obj, clean, ops, faults>>
    <2>1. TypeOK'
      BY <1>2, RecTypes, Zenon DEF IInv, TypeOK, disk, history
    <2>2. TableSound' /\ ForeignSafe'
      BY <1>2, TableKept, Zenon DEF IInv, ForeignSafe, disk
    <2>3. ASSUME NEW m \in Names, m # n PROVE NameTrue(m)'
      BY <2>3, <1>2, RecTypes, TableKept, NameKept, Zenon DEF IInv, disk, history
    <2>4. NameTrue(n)'
      <3>1. rec'[n].pc = "exhausted" /\ rec'[n].op = "create" /\ rec'[n].size = rec[n].size
        BY <1>2, RecTypes, Zenon DEF IInv, Acquired
      <3> QED BY <1>2, <3>1, TableKept, Zenon DEF IInv, NameTrue, CacheTrue, SizesTrue, WorkTrue, Backed,
                Acquired, disk, history, CreateTrue
    <2> QED BY <2>1, <2>2, <2>3, <2>4, Zenon DEF IInv
  <1>3. ASSUME NEW gap \in FreeSpacesWithMin(rec[n].size), NEW i \in Numbers \ Partitions,
               Acquired(n, "create"),
               table' = [table EXCEPT ![i] = [name |-> PartitionName(n),
                                              first |-> Extent(gap, rec[n].size).first,
                                              last |-> Extent(gap, rec[n].size).last]],
               cache' = [cache EXCEPT ![n] = i],
               mutex' = n, Goto(n, "probe"), resized' = resized \ {n}, struck' = struck \ {n},
               UNCHANGED <<obj, clean, ops, faults>>
        PROVE  IInv'
    <2> DEFINE e == Extent(gap, rec[n].size)
               p == [name |-> PartitionName(n), first |-> e.first, last |-> e.last]
    <2>1. rec[n].size = Want[n] /\ Named(n) = {} /\ ~obj[n].id /\ obj[n] # None
      BY <1>3, Zenon DEF IInv, NameTrue, WorkTrue, CreateTrue, Acquired
    <2>2. /\ e.first \in 1..DiskSize /\ e.last \in 1..DiskSize /\ Size(e) >= Want[n]
          /\ e.first..e.last \cap Used = {}
      BY <2>1, ExtentFits, Zenon
    <2> HIDE DEF e
    <2>3. p \in Entries /\ p # None
      BY <2>2, Constants DEF Entries
    <2>4. table' \in [Numbers -> {None} \cup Entries] /\ table'[i] = p
          /\ \A j \in Numbers : j # i => table'[j] = table[j]
      BY <1>3, <2>3, Zenon DEF IInv, TypeOK, e
    <2>5. TypeOK'
      BY <1>3, <2>4, RecTypes DEF IInv, TypeOK, Numbers
    <2>6. Partitions' = Partitions \cup {i}
      BY <2>3, <2>4, Zenon DEF Partitions
    <2>7. Named(n)' = {i}
      BY <2>1, <2>4, <2>6 DEF Named, Partitions
    <2>8. ASSUME NEW m \in Names, m # n
          PROVE  Named(m)' = Named(m) /\ i \notin Named(m)
      <3>1. p.name # PartitionName(m)
        BY <2>8, Constants, Zenon
      <3>2. i \notin Partitions /\ \A j \in Partitions : table'[j] = table[j]
        BY <2>4, Zenon DEF Partitions
      <3> QED BY <3>1, <3>2, <2>4, <2>6, Zenon DEF Named
    <2>9. TableSound'
      <3>1. ASSUME NEW j \in Partitions
            PROVE  j # i /\ table[j].name # p.name
                   /\ table[j].first..table[j].last \cap p.first..p.last = {}
        <4>1. table[j].first..table[j].last \subseteq Used
          BY <3>1, Zenon DEF Used
        <4> QED BY <2>1, <2>2, <4>1, Zenon DEF Named
      <3> QED BY <3>1, <2>4, <2>6 DEF IInv, TableSound, Partitions
    <2>10. ForeignSafe'
      BY <1>3, <2>4, Constants DEF IInv, TypeOK, ForeignSafe
    <2>11. NameTrue(n)'
      <3>1. rec'[n].pc = "probe" /\ rec'[n].op = "create" /\ rec'[n].size = Want[n]
        BY <1>3, <2>1, RecTypes, Zenon DEF IInv, Acquired
      <3>2. cache'[n] = i /\ i # 0
        BY <1>3, Constants, Zenon DEF IInv, TypeOK
      <3>3. Size(table'[i]) >= Want[n]
        BY <2>2, <2>4 DEF Size
      <3> QED BY <1>3, <2>1, <2>7, <3>1, <3>2, <3>3, Zenon
              DEF IInv, NameTrue, CacheTrue, SizesTrue, WorkTrue, Backed, CreateTrue
    <2>12. ASSUME NEW m \in Names, m # n PROVE NameTrue(m)'
      BY <2>12, <1>3, <2>4, <2>8, RecTypes, NameKept, Zenon DEF IInv, TypeOK, Named, Partitions
    <2> QED BY <2>5, <2>9, <2>10, <2>11, <2>12, Zenon DEF IInv
  <1> QED BY <1>1, <1>2, <1>3, Zenon DEF CreatePartition

\* A partition that is alone on the disk is resized: names stay, and it does
\* not shrink.
LEMMA ResizeTable ==
    ASSUME IInv, NEW n \in Names, NEW i \in Named(n), \A k, j \in Partitions : k = j,
           NEW size \in Nat, table[i].first + size - 1 <= DiskSize,
           ResizePart(i, table[i].first + size - 1)
    PROVE  /\ table' \in [Numbers -> {None} \cup Entries]
           /\ \A m : Named(m)' = Named(m)
           /\ Size(table'[i]) >= Size(table[i])
           /\ \A j \in Numbers : j # i => table'[j] = table[j]
           /\ table'[i] # Foreign /\ TableSound'
  <1>1. PICK end \in table[i].last..(table[i].first + size - 1) : table' = [table EXCEPT ![i].last = end]
    BY Zenon DEF ResizePart
  <1>2. /\ i \in Numbers /\ table[i] \in Entries /\ table[i] # None
        /\ table[i].name = PartitionName(n)
    BY Zenon DEF IInv, TypeOK, Named, Partitions
  <1> DEFINE p == [table[i] EXCEPT !.last = end]
  <1>3. end \in 1..DiskSize /\ end >= table[i].last
    BY <1>1, <1>2 DEF Entries
  <1>4. p \in Entries /\ p # None /\ p.name = PartitionName(n)
        /\ p.first = table[i].first /\ p.last = end
    BY <1>2, <1>3, Constants DEF Entries
  <1>5. table' = [table EXCEPT ![i] = p]
    BY <1>1, Zenon
  <1> HIDE DEF p
  <1>6. /\ table' \in [Numbers -> {None} \cup Entries] /\ table'[i] = p
        /\ \A j \in Numbers : j # i => table'[j] = table[j]
    BY <1>2, <1>4, <1>5, Zenon DEF IInv, TypeOK
  <1>7. Size(table'[i]) >= Size(table[i])
    BY <1>2, <1>3, <1>4, <1>6 DEF Size, Entries
  <1>8. table'[i] # Foreign
    BY <1>4, <1>6, Constants, Zenon
  <1>9. Partitions' = Partitions /\ \A j \in Partitions : table'[j].name = table[j].name
    BY <1>2, <1>4, <1>6, Zenon DEF Partitions
  <1>10. \A m : Named(m)' = Named(m)
    BY <1>9, Zenon DEF Named
  <1>11. TableSound'
    BY <1>9, Zenon DEF TableSound
  <1> QED BY <1>6, <1>7, <1>8, <1>10, <1>11, Zenon

LEMMA UpdatePartitionStep == ASSUME IInv, NEW n \in Names, UpdatePartition(n) PROVE IInv'
  <1>0. /\ UNCHANGED <<obj, clean, struck, ops, faults>> /\ rec[n].op = "update"
        /\ UpdateTrue(n) /\ obj[n] # None
    BY Zenon DEF UpdatePartition, Acquired, IInv, NameTrue, WorkTrue
  <1>1. CASE Requeue(n) /\ UNCHANGED <<disk, mutex, resized>>
    <2>1. TypeOK'
      BY <1>0, <1>1, RecTypes, Zenon DEF IInv, TypeOK, disk
    <2>2. TableSound' /\ ForeignSafe'
      BY <1>0, <1>1, TableKept, Zenon DEF IInv, ForeignSafe, disk
    <2>3. ASSUME NEW m \in Names, m # n PROVE NameTrue(m)'
      BY <2>3, <1>0, <1>1, RecTypes, TableKept, NameKept, Zenon DEF IInv, disk
    <2>4. NameTrue(n)'
      BY <1>0, <1>1, RecTypes, TableKept DEF IInv, NameTrue, CacheTrue, SizesTrue, WorkTrue, Backed,
            disk, Idle
    <2> QED BY <2>1, <2>2, <2>3, <2>4, Zenon DEF IInv
  <1>2. CASE /\ Named(n) = {} /\ cache' = [cache EXCEPT ![n] = 0]
             /\ mutex' = n /\ Goto(n, "probe") /\ UNCHANGED <<table, resized>>
    <2>1. TypeOK'
      BY <1>0, <1>2, RecTypes DEF IInv, TypeOK
    <2>2. TableSound' /\ ForeignSafe'
      BY <1>0, <1>2, TableKept, Zenon DEF IInv, ForeignSafe
    <2>3. ASSUME NEW m \in Names, m # n PROVE NameTrue(m)'
      BY <2>3, <1>0, <1>2, RecTypes, TableKept, NameKept, Zenon DEF IInv, TypeOK
    <2>4. NameTrue(n)'
      <3>1. n \in struck /\ cache'[n] = 0 /\ 0 \notin Numbers
        BY <1>0, <1>2, Constants, Zenon DEF UpdateTrue, IInv, TypeOK
      <3>2. rec'[n].pc = "probe" /\ rec'[n].op = "update" /\ rec'[n].size = rec[n].size
        BY <1>0, <1>2, RecTypes, Zenon DEF IInv
      <3> QED BY <1>0, <1>2, <3>1, <3>2, TableKept, Zenon DEF IInv, NameTrue, CacheTrue, SizesTrue, WorkTrue,
                Backed, UpdateTrue
    <2> QED BY <2>1, <2>2, <2>3, <2>4, Zenon DEF IInv
  <1>3. ASSUME \A k, j \in Partitions : k = j, NEW i \in Named(n),
               table[i].first + rec[n].size - 1 <= DiskSize,
               ResizePart(i, table[i].first + rec[n].size - 1),
               cache' = [cache EXCEPT ![n] = i], resized' = resized \cup {n}, mutex' = n, Goto(n, "probe")
        PROVE  IInv'
    <2>1. rec[n].size \in Nat /\ i \in Numbers
      BY Zenon DEF IInv, TypeOK, Works, Named, Partitions
    <2>2. /\ table' \in [Numbers -> {None} \cup Entries] /\ \A m : Named(m)' = Named(m)
          /\ Size(table'[i]) >= Size(table[i]) /\ \A j \in Numbers : j # i => table'[j] = table[j]
          /\ table'[i] # Foreign /\ TableSound'
      BY <1>3, <2>1, ResizeTable, Zenon
    <2>3. TypeOK'
      BY <1>0, <1>3, <2>1, <2>2, RecTypes DEF IInv, TypeOK, Numbers
    <2>4. ForeignSafe'
      BY <1>0, <2>2, Zenon DEF IInv, TypeOK, ForeignSafe
    <2>5. ASSUME NEW m \in Names, m # n PROVE NameTrue(m)'
      <3>1. i \notin Named(m) /\ Named(m) \subseteq Numbers
        BY <2>5, Constants, Zenon DEF Named, Partitions
      <3> QED BY <2>5, <1>0, <1>3, <2>2, <3>1, RecTypes, NameKept DEF IInv, TypeOK
    <2>6. NameTrue(n)'
      <3>1. rec'[n].pc = "probe" /\ rec'[n].op = "update" /\ rec'[n].size = rec[n].size
        BY <1>0, <1>3, RecTypes, Zenon DEF IInv
      <3>2. cache'[n] = i /\ i # 0
        BY <1>3, <2>1, Constants DEF IInv, TypeOK
      <3>3. \A j \in Named(n) : j = i
        BY NamedUnique, Zenon DEF IInv
      <3>4. Size(table'[i]) >= Want[n]
        BY <2>1, <2>2 DEF IInv, NameTrue, SizesTrue, TypeOK, Entries, Size, Named, Partitions
      <3> QED BY <1>0, <1>3, <2>2, <3>1, <3>2, <3>3, <3>4, Zenon
              DEF IInv, NameTrue, CacheTrue, SizesTrue, WorkTrue, Backed, UpdateTrue
    <2> QED BY <2>2, <2>3, <2>4, <2>5, <2>6, Zenon DEF IInv
  <1> QED BY <1>1, <1>2, <1>3, Zenon DEF UpdatePartition

LEMMA DeletePartitionStep == ASSUME IInv, NEW n \in Names, DeletePartition(n) PROVE IInv'
  <1>0. UNCHANGED <<obj, clean, struck, resized, ops, faults>>
    BY Zenon DEF DeletePartition, history
  <1>1. /\ table' \in [Numbers -> {None} \cup Entries]
        /\ \A i \in Numbers : i \in Named(n) => table'[i] = None
        /\ \A i \in Numbers : i \notin Named(n) => table'[i] = table[i]
    BY Zenon DEF DeletePartition, IInv, TypeOK
  <1>2. TypeOK'
    BY <1>0, <1>1, RecTypes DEF DeletePartition, IInv, TypeOK
  <1>3. Partitions' = Partitions \ Named(n) /\ \A i \in Partitions' : table'[i] = table[i]
    BY <1>1, Zenon DEF Partitions, Named
  <1>4. TableSound'
    BY <1>3 DEF IInv, TableSound
  <1>5. ForeignSafe'
    BY <1>0, <1>1, Constants, Zenon DEF IInv, TypeOK, ForeignSafe
  <1>6. ASSUME NEW m \in Names, m # n PROVE NameTrue(m)'
    <2>1. Named(m)' = Named(m) /\ \A i \in Named(m) : table'[i] = table[i]
      BY <1>3, <1>6, Constants, Zenon DEF Named
    <2> QED BY <1>0, <1>6, <2>1, RecTypes, NameKept, Zenon DEF DeletePartition, IInv, TypeOK
  <1>7. NameTrue(n)'
    <2>1. rec'[n].pc = "probe" /\ rec'[n].op = "delete" /\ cache'[n] = -1
      BY RecTypes, Zenon DEF IInv, TypeOK, DeletePartition, Acquired
    <2>2. Named(n)' = {}
      BY <1>3, Zenon DEF Named
    <2>3. obj[n].deleting /\ obj[n] # None
      BY Zenon DEF DeletePartition, Acquired, IInv, NameTrue, WorkTrue, DeleteTrue
    <2> QED BY <1>0, <2>1, <2>2, <2>3, Constants DEF IInv, NameTrue, CacheTrue, SizesTrue, WorkTrue, Backed,
              DeleteTrue
  <1> QED BY <1>2, <1>4, <1>5, <1>6, <1>7, Zenon DEF IInv

\* The status is written, or not, and the worker starts again.
LEMMA WriteStatusStep ==
    ASSUME IInv, NEW n \in Names, NEW new \in Objects, WriteStatus(n, new),
           obj[n] # None,
           new.size = obj[n].size, new.current <= new.size, ~new.id => new.size = Want[n],
           new.id /\ ~new.deleting /\ n \notin struck =>
               \E i \in Named(n) : Size(table[i]) >= new.current \/ n \in resized
    PROVE  IInv'
  <1>0. UNCHANGED <<table, cache, mutex, clean, struck, resized, ops>> /\ Requeue(n)
    BY Zenon DEF WriteStatus, disk, history
  <1>1. obj' = obj \/ obj' = [obj EXCEPT ![n] = new]
    BY Zenon DEF WriteStatus
  <1>2. /\ obj' \in [Names -> {None} \cup Objects] /\ obj'[n] \in {obj[n], new}
        /\ \A m \in Names : m # n => obj'[m] = obj[m]
    BY <1>1 DEF IInv, TypeOK
  <1>3. TypeOK'
    <2>1. \A m \in Names : obj'[m] # None =>
             obj'[m].size \in {Want[m], Want[m] + 1} /\ obj'[m].current <= obj'[m].size
      BY <1>2, Zenon DEF IInv, TypeOK
    <2>2. faults' \in 0..MaxFaults
      BY DEF WriteStatus, Fault, IInv, TypeOK
    <2> QED BY <1>0, <1>2, <2>1, <2>2, RecTypes, Zenon DEF IInv, TypeOK
  <1>4. TableSound' /\ ForeignSafe'
    BY <1>0, TableKept, Zenon DEF IInv, ForeignSafe
  <1>5. ASSUME NEW m \in Names, m # n PROVE NameTrue(m)'
    BY <1>5, <1>0, <1>2, RecTypes, TableKept, NameKept, Zenon DEF IInv
  <1>6. NameTrue(n)'
    <2>1. rec'[n].op = "none"
      BY <1>0, RecTypes DEF IInv, Idle
    <2>2. CacheTrue(n) /\ SizesTrue(n) /\ Backed(n)
      BY Zenon DEF IInv, NameTrue
    <2>3. CacheTrue(n)'
      BY <1>0, <2>2, TableKept, Zenon DEF CacheTrue
    <2>4. SizesTrue(n)'
      BY <1>0, <1>2, <2>2, TableKept, Zenon DEF SizesTrue
    <2>5. WorkTrue(n)'
      BY <2>1, Zenon DEF WorkTrue
    <2>6. Backed(n)'
      BY <1>0, <1>2, <2>2, TableKept, Zenon DEF Backed
    <2> QED BY <2>3, <2>4, <2>5, <2>6, Zenon DEF NameTrue
  <1> QED BY <1>3, <1>4, <1>5, <1>6, Zenon DEF IInv

LEMMA createLVStep == ASSUME IInv, NEW n \in Names, createLV(n) PROVE IInv'
  <1>1. obj[n] \in Objects /\ obj[n] # None /\ CreateTrue(n) /\ obj[n].size >= Want[n]
    BY DEF createLV, IInv, NameTrue, WorkTrue, TypeOK
  <1>2. CASE rec[n].pc = "status" /\ WriteStatus(n, [obj[n] EXCEPT !.id = TRUE, !.current = rec[n].size])
    <2> DEFINE new == [obj[n] EXCEPT !.id = TRUE, !.current = rec[n].size]
    <2>1. /\ new \in Objects /\ new.size = obj[n].size /\ new.current = Want[n] /\ new.id
          /\ new.deleting = obj[n].deleting
      BY <1>1, Zenon DEF Objects, CreateTrue
    <2>2. n \notin struck => \E i \in Named(n) : Size(table[i]) >= Want[n]
      BY <1>1, <1>2, Zenon DEF CreateTrue, IInv, NameTrue, SizesTrue
    <2> HIDE DEF new
    <2> QED BY <1>1, <1>2, <2>1, <2>2, WriteStatusStep, Zenon DEF new
  <1>3. CASE WriteStatus(n, [obj[n] EXCEPT !.code = "ResourceExhausted"])
    <2> DEFINE new == [obj[n] EXCEPT !.code = "ResourceExhausted"]
    <2>1. /\ new \in Objects /\ new.size = obj[n].size /\ new.current = obj[n].current /\ ~new.id
      BY <1>1, Zenon DEF Objects, CreateTrue
    <2>2. new.size = Want[n] /\ new.current <= new.size
      BY <1>1, <2>1, Zenon DEF CreateTrue, IInv, NameTrue, SizesTrue, TypeOK
    <2> HIDE DEF new
    <2> QED BY <1>1, <1>3, <2>1, <2>2, WriteStatusStep, Zenon DEF new
  <1> QED BY <1>2, <1>3, Zenon DEF createLV

LEMMA expandLVStep == ASSUME IInv, NEW n \in Names, expandLV(n) PROVE IInv'
  <1>1. obj[n] \in Objects /\ obj[n] # None /\ UpdateTrue(n) /\ rec[n].pc = "status" /\ rec[n].size \in Nat
    BY Zenon DEF expandLV, IInv, NameTrue, WorkTrue, TypeOK, Works
  <1> DEFINE new == [obj[n] EXCEPT !.current = rec[n].size]
  <1>2. /\ new \in Objects /\ new.size = obj[n].size /\ new.current = rec[n].size
        /\ new.id = obj[n].id /\ new.deleting = obj[n].deleting
    BY <1>1, Zenon DEF Objects
  <1>3. (~new.id => new.size = Want[n]) /\ new.current <= new.size
    BY <1>1, <1>2, Zenon DEF UpdateTrue, IInv, NameTrue, SizesTrue
  <1>4. n \notin struck => \E i \in Named(n) : Size(table[i]) >= new.current \/ n \in resized
    BY <1>1, <1>2, Zenon DEF UpdateTrue
  <1>5. WriteStatus(n, new)
    BY Zenon DEF expandLV
  <1> HIDE DEF new
  <1> QED BY <1>1, <1>2, <1>3, <1>4, <1>5, WriteStatusStep, Zenon

LEMMA removeLVIfExistsStep == ASSUME IInv, NEW n \in Names, removeLVIfExists(n) PROVE IInv'
  <1>0. UNCHANGED <<table, cache, mutex, clean, resized, ops>> /\ Requeue(n)
    BY Zenon DEF removeLVIfExists, disk
  <1>1. /\ \/ obj'[n] = None /\ struck' = struck \ {n}
           \/ obj'[n] = obj[n] /\ struck' = struck
        /\ obj' \in [Names -> {None} \cup Objects] /\ \A m \in Names : m # n => obj'[m] = obj[m]
    <2>1. CASE obj' = [obj EXCEPT ![n] = None] /\ struck' = struck \ {n}
      BY <2>1, Zenon DEF IInv, TypeOK
    <2>2. CASE UNCHANGED <<obj, struck>>
      BY <2>2, Zenon DEF IInv, TypeOK
    <2> QED BY <2>1, <2>2, Zenon DEF removeLVIfExists
  <1>2. TypeOK'
    <2>1. \A m \in Names : obj'[m] # None =>
             obj'[m].size \in {Want[m], Want[m] + 1} /\ obj'[m].current <= obj'[m].size
      BY <1>1, Zenon DEF IInv, TypeOK
    <2>2. faults' \in 0..MaxFaults /\ struck' \subseteq Names
      BY <1>1 DEF removeLVIfExists, Fault, IInv, TypeOK
    <2> QED BY <1>0, <1>1, <2>1, <2>2, RecTypes, Zenon DEF IInv, TypeOK
  <1>3. TableSound' /\ ForeignSafe'
    BY <1>0, TableKept, Zenon DEF IInv, ForeignSafe
  <1>4. ASSUME NEW m \in Names, m # n PROVE NameTrue(m)'
    BY <1>4, <1>0, <1>1, RecTypes, TableKept, NameKept, Zenon DEF IInv
  <1>5. NameTrue(n)'
    <2>1. rec'[n].op = "none" /\ cache[n] = -1
      BY <1>0, RecTypes DEF IInv, Idle, removeLVIfExists, NameTrue, WorkTrue, DeleteTrue
    <2>2. CacheTrue(n) /\ SizesTrue(n) /\ Backed(n)
      BY Zenon DEF IInv, NameTrue
    <2>3. CacheTrue(n)'
      BY <1>0, <2>1, Constants DEF CacheTrue
    <2>4. SizesTrue(n)'
      BY <1>0, <1>1, <2>2, TableKept, Zenon DEF SizesTrue
    <2>5. WorkTrue(n)'
      BY <2>1, Zenon DEF WorkTrue
    <2>6. Backed(n)'
      BY <1>0, <1>1, <2>2, TableKept, Zenon DEF Backed
    <2> QED BY <2>3, <2>4, <2>5, <2>6, Zenon DEF NameTrue
  <1> QED BY <1>2, <1>3, <1>4, <1>5, Zenon DEF IInv

LEMMA CleanDeleteStep == ASSUME IInv, NEW i \in Numbers, CleanDelete(i) PROVE IInv'
  <1>0. /\ UNCHANGED <<mutex, obj, rec, resized, ops, faults>> /\ clean'.todo \subseteq clean.todo
        /\ clean' \in [pc : {"idle", "scan", "delete"}, keep : SUBSET {PartitionName(n) : n \in Names},
                       todo : SUBSET Numbers]
    BY Zenon DEF CleanDelete, IInv, TypeOK
  <1>1. /\ table' \in [Numbers -> {None} \cup Entries] /\ table'[i] = None
        /\ \A j \in Numbers : j # i => table'[j] = table[j]
    BY Zenon DEF CleanDelete, DeletePartitionByPartNumber, IInv, TypeOK
  <1>2. cache' = [n \in Names |-> IF cache[n] = i THEN -1 ELSE cache[n]]
    BY Zenon DEF CleanDelete, DeletePartitionByPartNumber
  <1>3. struck' = struck \cup {n \in Names : obj[n] # None /\ i \in Named(n)}
    BY Zenon DEF CleanDelete
  <1>4. TypeOK'
    BY <1>0, <1>1, <1>2, <1>3 DEF IInv, TypeOK
  <1>5. Partitions' = Partitions \ {i} /\ \A j \in Partitions' : table'[j] = table[j]
    BY <1>1, Zenon DEF Partitions
  <1>6. TableSound'
    BY <1>5 DEF IInv, TableSound
  <1>7. ForeignSafe'
    BY <1>0, <1>1, Constants, Zenon DEF IInv, TypeOK, ForeignSafe
  <1>8. ASSUME NEW n \in Names PROVE NameTrue(n)'
    <2>1. Named(n)' = Named(n) \ {i} /\ \A j \in Named(n)' : table'[j] = table[j]
      BY <1>5, Zenon DEF Named
    <2>2. CASE i \notin Named(n)
      <3>1. cache'[n] = cache[n]
        BY <1>2, <2>2, Zenon DEF IInv, NameTrue, CacheTrue
      <3>2. n \in struck' <=> n \in struck
        BY <1>3, <2>2, Zenon
      <3> QED BY <1>0, <2>1, <2>2, <3>1, <3>2, NameKept, Zenon DEF IInv
    <2>3. CASE i \in Named(n)
      <3>1. Named(n)' = {}
        BY <2>1, <2>3, NamedUnique DEF IInv
      <3>2. cache'[n] \notin Numbers /\ (cache'[n] = 0 => cache[n] = 0)
        <4>1. cache[n] \in Numbers => cache[n] = i
          BY <2>3, NamedUnique, Zenon DEF IInv, NameTrue, CacheTrue
        <4> QED BY <1>2, <4>1, Constants
      <3>3. obj[n] # None => n \in struck'
        BY <1>3, <2>3, Zenon
      <3>4. struck \subseteq struck'
        BY <1>3, Zenon
      <3>5. CacheTrue(n)' /\ SizesTrue(n)' /\ Backed(n)'
        BY <1>0, <3>1, <3>2, <3>3, <3>4, Zenon DEF IInv, NameTrue, CacheTrue, SizesTrue, Backed
      <3>6. WorkTrue(n)'
        <4>1. cache[n] = -1 => cache'[n] = -1
          BY <1>2, Zenon
        <4> QED BY <1>0, <3>1, <3>3, <4>1, Zenon
                DEF IInv, NameTrue, WorkTrue, CreateTrue, UpdateTrue, DeleteTrue
      <3> QED BY <3>5, <3>6, Zenon DEF NameTrue
    <2> QED BY <2>2, <2>3, Zenon
  <1> QED BY <1>4, <1>6, <1>7, <1>8, Zenon DEF IInv

\* The other steps of the cleanup change only its own progress.  What it scans
\* as an orphan has a name of Carina's.
LEMMA CleanStep ==
    ASSUME IInv, ListObjects \/ ScanDisk \/ CleanDone \/ \E i \in Numbers : CleanSkip(i)
    PROVE  IInv'
  <1>1. UNCHANGED <<table, cache, mutex, obj, rec, struck, resized, ops>> /\ faults' \in 0..MaxFaults
    BY DEF ListObjects, ScanDisk, CleanDone, CleanSkip, disk, history, Fault, IInv, TypeOK
  <1>2. /\ clean' \in [pc : {"idle", "scan", "delete"}, keep : SUBSET {PartitionName(n) : n \in Names},
                       todo : SUBSET Numbers]
        /\ clean'.todo \subseteq clean.todo \cup Orphans
    <2>1. CASE ListObjects
      BY <2>1, Zenon DEF ListObjects, IInv, TypeOK
    <2>2. CASE ScanDisk
      BY <2>2, Zenon DEF ScanDisk, Orphans, Partitions
    <2>3. CASE CleanDone
      BY <2>3, Zenon DEF CleanDone, CleanIdle
    <2>4. CASE \E i \in Numbers : CleanSkip(i)
      BY <2>4 DEF CleanSkip, IInv, TypeOK
    <2> QED BY <2>1, <2>2, <2>3, <2>4, Zenon
  <1>3. TypeOK'
    BY <1>1, <1>2, Zenon DEF IInv, TypeOK
  <1>4. ForeignSafe'
    <2>1. \A i \in Orphans : table[i] # Foreign
      BY DEF Orphans, Foreign
    <2> QED BY <1>1, <1>2, <2>1, Zenon DEF IInv, ForeignSafe
  <1>5. TableSound' /\ \A n \in Names : NameTrue(n)'
    BY <1>1, TableKept, NameKept, Zenon DEF IInv
  <1> QED BY <1>3, <1>4, <1>5, Zenon DEF IInv

\* The controller makes, enlarges or deletes an object.  A worker that is at work
\* on it keeps its progress; its copy is outdated.
LEMMA ObjectStep ==
    ASSUME IInv, NEW n \in Names,
           CreateObject(n) \/ ExpandObject(n) \/ DeleteObject(n) \/ LoseObject(n)
    PROVE  IInv'
  <1>1. UNCHANGED <<table, cache, mutex, clean, struck, resized>>
        /\ ops' \in 0..MaxOps /\ faults' \in 0..MaxFaults
    BY DEF CreateObject, ExpandObject, DeleteObject, LoseObject, disk, history, Fault, IInv, TypeOK
  <1>2. /\ rec' \in [Names -> Works] /\ \A m \in Names : m # n => rec'[m] = rec[m]
        /\ rec'[n].op = rec[n].op /\ rec'[n].pc = rec[n].pc /\ rec'[n].size = rec[n].size
    <2>1. CASE rec' = [rec EXCEPT ![n].old = rec[n] # Idle]
      <3> DEFINE b == rec[n] # Idle
                 new == [rec[n] EXCEPT !.old = b]
      <3>1. b \in BOOLEAN /\ rec' = [rec EXCEPT ![n] = new]
        BY <2>1, Zenon
      <3> HIDE DEF b
      <3>2. /\ new \in Works /\ new.op = rec[n].op /\ new.pc = rec[n].pc /\ new.size = rec[n].size
        BY <3>1 DEF IInv, TypeOK, Works
      <3> HIDE DEF new
      <3> QED BY <3>1, <3>2, Zenon DEF IInv, TypeOK
    <2>2. CASE UNCHANGED rec
      BY <2>2, Zenon DEF IInv, TypeOK
    <2> QED BY <2>1, <2>2, Zenon DEF CreateObject, ExpandObject, DeleteObject, LoseObject
  <1>3. obj[n] # None => obj[n] \in Objects
    BY Zenon DEF IInv, TypeOK
  <1>4. ASSUME NEW new \in {None} \cup Objects, obj' = [obj EXCEPT ![n] = new],
               new = None => rec[n].op = "none",
               new # None => /\ new.size \in {Want[n], Want[n] + 1} /\ new.current <= new.size
                             /\ ~new.id => new.size = Want[n],
               new # None /\ obj[n] # None =>
                   /\ new.size >= obj[n].size /\ new.current = obj[n].current
                   /\ new.id = obj[n].id /\ (obj[n].deleting => new.deleting),
               new # None /\ obj[n] = None => ~new.id
        PROVE  IInv'
    <2>1. obj' \in [Names -> {None} \cup Objects] /\ obj'[n] = new
          /\ \A m \in Names : m # n => obj'[m] = obj[m]
      BY <1>4, Zenon DEF IInv, TypeOK
    <2>2. \A m \in Names : obj'[m] # None =>
             obj'[m].size \in {Want[m], Want[m] + 1} /\ obj'[m].current <= obj'[m].size
      BY <1>4, <2>1, Zenon DEF IInv, TypeOK
    <2>3. TypeOK'
      BY <1>1, <1>2, <2>1, <2>2, Zenon DEF IInv, TypeOK
    <2>4. TableSound' /\ ForeignSafe'
      BY <1>1, TableKept, Zenon DEF IInv, ForeignSafe
    <2>5. ASSUME NEW m \in Names, m # n PROVE NameTrue(m)'
      BY <2>5, <1>1, <1>2, <2>1, TableKept, NameKept, Zenon DEF IInv
    <2>6. CacheTrue(n)' /\ SizesTrue(n)'
      <3>1. CacheTrue(n) /\ SizesTrue(n)
        BY Zenon DEF IInv, NameTrue
      <3>2. CacheTrue(n)'
        BY <1>1, <3>1, TableKept, Zenon DEF CacheTrue
      <3>3. SizesTrue(n)'
        BY <1>1, <1>4, <2>1, <3>1, TableKept, Zenon DEF SizesTrue
      <3> QED BY <3>2, <3>3, Zenon
    <2>7. Backed(n)'
      <3>1. Named(n)' = Named(n) /\ \A i \in Named(n) : table'[i] = table[i]
        BY <1>1, TableKept, Zenon
      <3>2. ASSUME new # None, new.id, ~new.deleting, n \notin struck
            PROVE  \E i \in Named(n) : Size(table[i]) >= new.current \/ n \in resized
        BY <1>4, <3>2, Zenon DEF IInv, NameTrue, Backed
      <3> QED BY <1>1, <2>1, <3>1, <3>2, Zenon DEF Backed, Named
    <2>8. WorkTrue(n)'
      <3>1. WorkTrue(n) /\ Named(n)' = Named(n)
        BY <1>1, TableKept, Zenon DEF IInv, NameTrue
      <3>2. new # None /\ rec[n].op # "none" => obj[n] # None /\ rec[n].size \in Nat
               /\ new.size \in Nat /\ obj[n].size \in Nat
        BY <1>3, <3>1, Zenon DEF IInv, TypeOK, WorkTrue, Objects, Works
      <3>3. rec[n].op = "create" => CreateTrue(n)'
        BY <1>1, <1>2, <1>4, <2>1, <3>1, <3>2, Zenon DEF WorkTrue, CreateTrue
      <3>4. rec[n].op = "update" => UpdateTrue(n)'
        BY <1>1, <1>2, <1>4, <2>1, <3>1, <3>2 DEF WorkTrue, UpdateTrue
      <3>5. rec[n].op = "delete" => DeleteTrue(n)'
        BY <1>1, <1>2, <1>4, <2>1, <3>1, <3>2, Zenon DEF WorkTrue, DeleteTrue
      <3> QED BY <1>2, <1>4, <2>1, <3>1, <3>3, <3>4, <3>5, Zenon DEF WorkTrue
    <2> QED BY <2>3, <2>4, <2>5, <2>6, <2>7, <2>8, Zenon DEF IInv, NameTrue
  <1>5. CASE CreateObject(n)
    <2> DEFINE new == New(n)
    <2>1. new \in Objects /\ new # None
      BY Constants, Zenon
    <2>2. /\ new.size = Want[n] /\ new.current = 0 /\ ~new.id
      BY Zenon DEF New
    <2>3. obj' = [obj EXCEPT ![n] = new] /\ obj[n] = None /\ Want[n] \in Nat
      BY <1>5, Zenon DEF CreateObject
    <2> HIDE DEF new
    <2>4. new.size \in {Want[n], Want[n] + 1} /\ new.current <= new.size
      BY <2>2, <2>3
    <2> QED BY <1>4, <2>1, <2>2, <2>3, <2>4, Zenon
  <1>6. CASE ExpandObject(n)
    <2> DEFINE new == [obj[n] EXCEPT !.size = obj[n].size + 1]
    <2>1. obj' = [obj EXCEPT ![n] = new] /\ obj[n] # None /\ obj[n].id /\ obj[n].size = Want[n]
      BY <1>6, Zenon DEF ExpandObject
    <2>2. obj[n].size \in Nat /\ obj[n].current \in Nat /\ obj[n].current <= obj[n].size
      BY <1>3, <2>1, Zenon DEF Objects, IInv, TypeOK
    <2>3. /\ new \in Objects /\ new.size = obj[n].size + 1 /\ new.current = obj[n].current
          /\ new.id = obj[n].id /\ new.deleting = obj[n].deleting
      <3>1. obj[n].size + 1 \in Nat
        BY <2>2
      <3>2. obj[n] \in Objects
        BY <1>3, <2>1, Zenon
      <3> QED BY <3>1, <3>2, Zenon DEF Objects
    <2> HIDE DEF new
    <2>4. new # None
      BY <2>3, Constants, Zenon
    <2>5. /\ new.size \in {Want[n], Want[n] + 1} /\ new.current <= new.size
          /\ new.size >= obj[n].size
      BY <2>1, <2>2, <2>3
    <2> QED BY <1>4, <2>1, <2>3, <2>4, <2>5, Zenon
  <1>7. CASE DeleteObject(n)
    <2> DEFINE new == [obj[n] EXCEPT !.deleting = TRUE]
    <2>1. obj' = [obj EXCEPT ![n] = new] /\ obj[n] # None
      BY <1>7, Zenon DEF DeleteObject
    <2>2. /\ new \in Objects /\ new.size = obj[n].size /\ new.current = obj[n].current
          /\ new.id = obj[n].id /\ new.deleting
      BY <1>3, <2>1, Zenon DEF Objects
    <2> HIDE DEF new
    <2>3. obj[n].size \in Nat /\ (~obj[n].id => obj[n].size = Want[n])
      BY <1>3, <2>1, Zenon DEF Objects, IInv, NameTrue, SizesTrue
    <2>4. new # None
      BY <2>2, Constants, Zenon
    <2>5. /\ new.size \in {Want[n], Want[n] + 1} /\ new.current <= new.size
          /\ new.size >= obj[n].size
      BY <2>1, <2>2, <2>3 DEF IInv, TypeOK
    <2> QED BY <1>4, <2>1, <2>2, <2>3, <2>4, <2>5, Zenon
  <1>8. CASE LoseObject(n)
    <2>1. obj' = [obj EXCEPT ![n] = None] /\ rec[n].op = "none"
      BY <1>8 DEF LoseObject, Idle
    <2> QED BY <1>4, <2>1, Zenon
  <1> QED BY <1>5, <1>6, <1>7, <1>8, Zenon

LEMMA NextIInv == IInv /\ [Next]_vars => IInv'
  <1> SUFFICES ASSUME IInv, [Next]_vars PROVE IInv'
    OBVIOUS
  <1>1. CASE UNCHANGED vars
    <2>1. UNCHANGED <<table, cache, mutex, obj, rec, clean, struck, resized, ops, faults>>
      BY <1>1, Zenon DEF vars, disk, history
    <2>2. TypeOK'
      BY <2>1, Zenon DEF IInv, TypeOK
    <2>3. ForeignSafe'
      BY <2>1, Zenon DEF IInv, ForeignSafe
    <2> QED BY <2>1, <2>2, <2>3, TableKept, NameKept, Zenon DEF IInv
  <1>2. ASSUME NEW n \in Names, Worker(n) PROVE IInv'
    BY <1>2, ReconcileStep, CreatePartitionStep, UpdatePartitionStep, DeletePartitionStep, BusyStep,
       PartProbeStep, createLVStep, expandLVStep, removeLVIfExistsStep, Zenon DEF Worker
  <1>3. CASE cleanupOrphanPartition
    BY <1>3, CleanStep, CleanDeleteStep, Zenon DEF cleanupOrphanPartition
  <1>4. CASE Restart
    BY <1>4, ResetStep DEF Restart, Fault, IInv, TypeOK
  <1> QED BY <1>1, <1>2, <1>3, <1>4, ObjectStep, Zenon DEF Next

LEMMA Inductive == Spec => []IInv
  BY InitIInv, NextIInv, PTL DEF Spec

\* Only partitions of Carina's are resized or deleted, and a new one is made at a
\* free number.
LEMMA ForeignStep ==
    ASSUME IInv, [Next]_vars, NEW i \in Numbers, table[i] = Foreign
    PROVE  table'[i] = Foreign
  <1>0. i \in Partitions /\ \A n \in Names : i \notin Named(n)
    BY Constants, Zenon DEF Partitions, Named
  <1>1. CASE UNCHANGED table
    BY <1>1, Zenon
  <1>2. ASSUME NEW n \in Names, CreatePartition(n), ~UNCHANGED table PROVE table'[i] = table[i]
    <2>1. \E j \in Numbers \ Partitions : \E p : table' = [table EXCEPT ![j] = p]
      BY <1>2, Zenon DEF CreatePartition, PanicNoRoom, disk
    <2> QED BY <1>0, <2>1, Zenon DEF IInv, TypeOK
  <1>3. ASSUME NEW n \in Names, UpdatePartition(n), ~UNCHANGED table PROVE table'[i] = table[i]
    <2>1. \E j \in Named(n) : \E p : table' = [table EXCEPT ![j] = p]
      <3>1. PICK j \in Named(n) : ResizePart(j, table[j].first + rec[n].size - 1)
        BY <1>3, Zenon DEF UpdatePartition, disk
      <3>2. PICK end : table' = [table EXCEPT ![j] = [table[j] EXCEPT !.last = end]]
        BY <3>1, Zenon DEF ResizePart
      <3> QED BY <3>2, Zenon
    <2> QED BY <1>0, <2>1 DEF IInv, TypeOK
  <1>4. ASSUME NEW n \in Names, DeletePartition(n) PROVE table'[i] = table[i]
    BY <1>0, <1>4, Zenon DEF DeletePartition
  <1>5. ASSUME NEW j \in Numbers, CleanDelete(j) PROVE table'[i] = table[i]
    <2>1. j # i
      BY <1>5, Zenon DEF CleanDelete, IInv, ForeignSafe
    <2> QED BY <1>5, <2>1, Zenon DEF CleanDelete, DeletePartitionByPartNumber, IInv, TypeOK
  <1>6. ASSUME NEW n \in Names, Worker(n) PROVE table'[i] = table[i]
    BY <1>1, <1>2, <1>3, <1>4, <1>6, Zenon DEF Worker, Reconcile, Busy, PartProbe, createLV, expandLV,
       removeLVIfExists, WriteStatus, disk
  <1>7. CASE cleanupOrphanPartition
    BY <1>5, <1>7, Zenon DEF cleanupOrphanPartition, ListObjects, ScanDisk, CleanSkip, CleanDone, disk
  <1>8. ASSUME NEW n \in Names,
               CreateObject(n) \/ ExpandObject(n) \/ DeleteObject(n) \/ LoseObject(n)
        PROVE  UNCHANGED table
    BY <1>8, Zenon DEF CreateObject, ExpandObject, DeleteObject, LoseObject, disk
  <1> QED BY <1>1, <1>6, <1>7, <1>8, Zenon DEF Next, Restart, vars, disk
-----------------------------------------------------------------------------
\* The types are kept: partitions lie within the disk, and the size of an object
\* is that of its claim, or one more.
THEOREM PartitionTyped == Spec => []TypeOK
  BY Inductive, PTL DEF IInv

\* On a disk of any size, no two partitions share space or a name, whatever the
\* order in which workers create, resize and delete and the cleanup deletes.
THEOREM TableStaysSound == Spec => []TableSound
  BY Inductive, PTL DEF IInv

\* A raw volume that was reported as created has its partition, as large as
\* reported unless parted has rounded, until it is deleted or the cleanup takes the
\* partition for an orphan.
THEOREM RawStaysBacked == Spec => []RawBacked
  <1>1. IInv => RawBacked
    BY Zenon DEF IInv, NameTrue, Backed, RawBacked
  <1> QED BY <1>1, Inductive, PTL

\* No step moves, resizes or removes a partition that is not Carina's.
THEOREM ForeignStaysKept == Spec => ForeignKept
  <1>1. IInv /\ [Next]_vars => [\A i \in Numbers : table[i] = Foreign => table'[i] = Foreign]_vars
    BY ForeignStep, Zenon
  <1> QED BY <1>1, Inductive, PTL DEF Spec, ForeignKept
=============================================================================
