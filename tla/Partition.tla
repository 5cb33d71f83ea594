------------------------------ MODULE Partition ------------------------------
(***************************************************************************)
(* Raw volumes: partitions on one disk of a node.                          *)
(*                                                                         *)
(* The partition manager (pkg/devicemanager/partition/partition.go) keeps  *)
(* the numbers of the partitions it made in CacheParttionNum and changes   *)
(* the partition table under DISKMUTEX.  It is called by the raw branch of *)
(* the LogicVolume reconciler, one worker for a name at a time, and by     *)
(* cleanupOrphanPartition of runners/troubleshoot.go.  The objects are     *)
(* those in the cache of carina-node, which worker and cleanup share.      *)
(***************************************************************************)
EXTENDS Integers

CONSTANTS
    Names,      \* LogicVolumes of raw type on this disk
    Exclusive,  \* those with the annotation for a disk of their own
    Want,       \* size of the claim of each name
    DiskSize,   \* the disk has the units 1..DiskSize
    LastNumber, \* partitions are numbered 1..LastNumber, 127 in the code
    MaxOps,     \* bound on creations, expansions and deletions of objects
    MaxFaults,  \* bound on failures, restarts and lost objects
    None

VARIABLES
    table,      \* the partition at each number, or None
    cache,      \* CacheParttionNum; -1 for a name that is not in it
    mutex,      \* who holds DISKMUTEX
    obj,        \* the object of each name, or None
    rec,        \* progress of the worker on each name
    clean,      \* progress of cleanupOrphanPartition
    struck,     \* history: names whose partition the cleanup removed
                \* although they have an object
    resized,    \* history: names whose partition was resized by parted
    ops, faults

disk == <<table, cache>>
history == <<struck, resized>>
vars == <<disk, mutex, obj, rec, clean, history, ops, faults>>

Numbers == 1..LastNumber

\* The name of a partition is a prefix and the last part of the object's name.
PartitionName(n) == [prefix |-> "carina.io", part |-> n]
Foreign == [name |-> [prefix |-> "other", part |-> None], first |-> 1, last |-> 1]

\* Partitions lie within the disk.
Entries == [name : {PartitionName(n) : n \in Names} \cup {Foreign.name},
            first : 1..DiskSize, last : 1..DiskSize]
Objects == [size : Nat, id : BOOLEAN, current : Nat, code : {"OK", "ResourceExhausted"},
            deleting : BOOLEAN]
Works == [op : {"none", "create", "update", "delete"},
          pc : {"idle", "lock", "probe", "status", "exhausted"}, size : Nat,
          part : [first : 0..DiskSize, last : 0..DiskSize], old : BOOLEAN]

ASSUME PartitionAssumption ==
    /\ Exclusive \subseteq Names /\ Want \in [Names -> Nat \ {0}]
    /\ DiskSize \in Nat \ {0} /\ LastNumber \in Nat \ {0}
    /\ MaxOps \in Nat /\ MaxFaults \in Nat
    /\ None \notin Names \cup Entries \cup Objects

Zero == [first |-> 0, last |-> 0]
Idle == [op |-> "none", pc |-> "idle", size |-> 0, part |-> Zero, old |-> FALSE]
CleanIdle == [pc |-> "idle", keep |-> {}, todo |-> {}]
New(n) == [size |-> Want[n], id |-> FALSE, current |-> 0, code |-> "OK", deleting |-> FALSE]

\* The disk is empty or has a partition of somebody else.
Init ==
    /\ table \in {[i \in Numbers |-> None], [i \in Numbers |-> IF i = 1 THEN Foreign ELSE None]}
    /\ cache = [n \in Names |-> -1] /\ mutex = None
    /\ obj = [n \in Names |-> None]
    /\ rec = [n \in Names |-> Idle] /\ clean = CleanIdle
    /\ struck = {} /\ resized = {} /\ ops = 0 /\ faults = 0

Fault == faults < MaxFaults /\ faults' = faults + 1
-----------------------------------------------------------------------------
(* The partition table                                                     *)

Partitions == {i \in Numbers : table[i] # None}
Named(n) == {i \in Partitions : table[i].name = PartitionName(n)}
Size(p) == p.last - p.first + 1
Used == UNION {table[i].first..table[i].last : i \in Partitions}

\* The free spaces of the disk with a minimal size.
FreeSpacesWithMin(min) ==
    {g \in [first : 1..DiskSize, last : 1..DiskSize] :
        /\ g.first <= g.last /\ Size(g) >= min
        /\ g.first..g.last \cap Used = {}
        /\ g.first = 1 \/ g.first - 1 \in Used
        /\ g.last = DiskSize \/ g.last + 1 \in Used}

\* GetPartition: a partition without extent if there is none of that name.
GetPartition(n) ==
    IF Named(n) = {} THEN Zero
    ELSE LET p == table[CHOOSE i \in Named(n) : TRUE] IN [first |-> p.first, last |-> p.last]

Goto(n, pc) == rec' = [rec EXCEPT ![n].pc = pc, ![n].part = Zero]
Requeue(n) == rec' = [rec EXCEPT ![n] = Idle]

\* TryAcquire succeeds.  Nobody else changes the table until Release, so what
\* follows, up to partprobe, is one step.
Acquired(n, op) == rec[n].op = op /\ rec[n].pc = "lock" /\ mutex = None

\* A caller who finds the mutex taken three times, a second apart, gives up and
\* comes back with the next event for the object, at the latest the resync of
\* the informer.  The mutex is held for moments: this counts as a fault.
Busy(n) ==
    /\ rec[n].pc = "lock" /\ mutex # None /\ Fault
    /\ Requeue(n)
    /\ UNCHANGED <<disk, mutex, obj, clean, history, ops>>

\* Mutant: the mutex is released only after success.
PartProbe_KeepsMutex(n) ==
    /\ rec[n].pc = "probe"
    /\ \/ mutex' = None /\ Goto(n, "status") /\ UNCHANGED faults
       \/ UNCHANGED mutex /\ Requeue(n) /\ Fault
    /\ UNCHANGED <<disk, obj, clean, history, ops>>

\* partprobe, and the deferred Release.  What fails is done again.
PartProbe(n) ==
    /\ rec[n].pc = "probe"
    /\ mutex' = None
    /\ \/ Goto(n, "status") /\ UNCHANGED faults
       \/ Requeue(n) /\ Fault
    /\ UNCHANGED <<disk, obj, clean, history, ops>>

\* The process ends and is started again, with an empty cache.
Reset ==
    /\ cache' = [n \in Names |-> -1] /\ mutex' = None
    /\ rec' = [n \in Names |-> Idle] /\ clean' = CleanIdle

\* No room is reported through an error that is nil: the process panics.
PanicNoRoom(n) ==
    /\ Acquired(n, "create") /\ FreeSpacesWithMin(rec[n].size) = {}
    /\ Reset
    /\ UNCHANGED <<table, obj, history, ops, faults>>

\* Mutant: off by one.
Extent_TooLong(gap, size) == [first |-> gap.first, last |-> gap.first + size]

\* The first part of the gap, or all of it if it is longer by one at most.
Extent(gap, size) ==
    [first |-> gap.first,
     last |-> IF gap.last - gap.first > size THEN gap.first + size - 1 ELSE gap.last]

\* Mutant: after a restart the disk is not looked at.
AlreadyThere_InCache(n) == cache[n] # -1

\* A partition of that name, on the disk or only in the cache, is taken for
\* the one asked for.
AlreadyThere(n) == Named(n) # {} \/ cache[n] # -1

\* The partition is made in the first gap with the lowest free number.
CreatePartition(n) ==
    \/ PanicNoRoom(n)
    \/ /\ Acquired(n, "create")
       /\ \E gap \in FreeSpacesWithMin(rec[n].size) :
             /\ \A g \in FreeSpacesWithMin(rec[n].size) : gap.first <= g.first
             /\ \/ /\ \E i \in Numbers \ Partitions :
                         /\ \A j \in Numbers \ Partitions : i <= j
                         /\ LET e == Extent(gap, rec[n].size)
                            IN table' = [table EXCEPT ![i] = [name |-> PartitionName(n),
                                                              first |-> e.first, last |-> e.last]]
                         /\ cache' = [cache EXCEPT ![n] = i]
                   /\ mutex' = n /\ Goto(n, "probe")
                   /\ resized' = resized \ {n} /\ struck' = struck \ {n}
                \/ /\ Numbers = Partitions
                   /\ Goto(n, "exhausted")
                   /\ UNCHANGED <<disk, mutex, history>>
       /\ UNCHANGED <<obj, clean, ops, faults>>

\* The end that parted gives the partition: never before the old end, and not
\* after the one asked for, which is passed on in whole units.
ResizePart(i, last) ==
    \E end \in table[i].last..last : table' = [table EXCEPT ![i].last = end]

\* The partition was looked up before the mutex was taken.  It is resized only
\* if it is alone on the disk.  If it does not exist nothing is done and the
\* number 0 is cached.
UpdatePartition(n) ==
    /\ Acquired(n, "update")
    /\ LET room == FreeSpacesWithMin(rec[n].size - Size(rec[n].part)) # {}
           alone == \A i, j \in Partitions : i = j
       IN \/ /\ ~(room /\ alone) \/ \E i \in Named(n) : table[i].first + rec[n].size - 1 > DiskSize
             /\ Requeue(n)
             /\ UNCHANGED <<disk, mutex, resized>>
          \/ /\ room /\ alone /\ Named(n) = {}
             /\ cache' = [cache EXCEPT ![n] = 0]
             /\ mutex' = n /\ Goto(n, "probe")
             /\ UNCHANGED <<table, resized>>
          \/ /\ room /\ alone
             /\ \E i \in Named(n) :
                   /\ table[i].first + rec[n].size - 1 <= DiskSize
                   /\ ResizePart(i, table[i].first + rec[n].size - 1)
                   /\ cache' = [cache EXCEPT ![n] = i]
             /\ resized' = resized \cup {n}
             /\ mutex' = n /\ Goto(n, "probe")
    /\ UNCHANGED <<obj, clean, struck, ops, faults>>

\* All partitions of that name go.
DeletePartition(n) ==
    /\ Acquired(n, "delete")
    /\ table' = [i \in Numbers |-> IF i \in Named(n) THEN None ELSE table[i]]
    /\ cache' = [cache EXCEPT ![n] = -1]
    /\ mutex' = n /\ Goto(n, "probe")
    /\ UNCHANGED <<obj, clean, history, ops, faults>>

\* Mutant: the cache keeps the names.
DeletePartitionByPartNumber_KeepsCache(i) ==
    /\ table[i] # None
    /\ table' = [table EXCEPT ![i] = None]
    /\ UNCHANGED cache

\* The table is changed at a number, whatever is there now; names with that
\* number leave the cache.
DeletePartitionByPartNumber(i) ==
    /\ table[i] # None
    /\ table' = [table EXCEPT ![i] = None]
    /\ cache' = [n \in Names |-> IF cache[n] = i THEN -1 ELSE cache[n]]
-----------------------------------------------------------------------------
(* The raw branch of the LogicVolume reconciler                            *)

Start(n, op, pc, part) ==
    rec' = [rec EXCEPT ![n] = [op |-> op, pc |-> pc, size |-> obj[n].size, part |-> part,
                               old |-> FALSE]]

Unserved(n) == obj[n] # None /\ ~obj[n].deleting /\ ~obj[n].id /\ obj[n].code = "OK"

\* The object is read, and the first look is taken at the disk.
Reconcile(n) ==
    /\ rec[n] = Idle /\ obj[n] # None
    /\ \/ Unserved(n) /\ Start(n, "create", IF AlreadyThere(n) THEN "status" ELSE "lock", Zero)
       \/ /\ ~obj[n].deleting /\ obj[n].id /\ obj[n].size > obj[n].current /\ n \in Exclusive
          /\ LET p == GetPartition(n) IN
             Start(n, "update", IF p.last - p.first >= obj[n].size THEN "status" ELSE "lock", p)
       \/ obj[n].deleting /\ Start(n, "delete", "lock", Zero)
    /\ UNCHANGED <<disk, mutex, obj, clean, history, ops, faults>>

\* The status is written, unless the object has changed since it was read or
\* the write, or the wait for the capacity report before it, fails.
WriteStatus(n, new) ==
    /\ \/ ~rec[n].old /\ obj' = [obj EXCEPT ![n] = new] /\ UNCHANGED faults
       \/ rec[n].old /\ UNCHANGED <<obj, faults>>
       \/ Fault /\ UNCHANGED obj
    /\ Requeue(n)
    /\ UNCHANGED <<disk, mutex, clean, history, ops>>

createLV(n) ==
    /\ rec[n].op = "create"
    /\ \/ /\ rec[n].pc = "status"
          /\ WriteStatus(n, [obj[n] EXCEPT !.id = TRUE, !.current = rec[n].size])
       \/ /\ rec[n].pc = "exhausted"
          /\ WriteStatus(n, [obj[n] EXCEPT !.code = "ResourceExhausted"])

expandLV(n) ==
    /\ rec[n].op = "update" /\ rec[n].pc = "status"
    /\ WriteStatus(n, [obj[n] EXCEPT !.current = rec[n].size])

\* The finalizer is removed, with which the object goes.
removeLVIfExists(n) ==
    /\ rec[n].op = "delete" /\ rec[n].pc = "status"
    /\ \/ /\ obj' = [obj EXCEPT ![n] = None]
          /\ struck' = struck \ {n}
          /\ UNCHANGED faults
       \/ Fault /\ UNCHANGED <<obj, struck>>
    /\ Requeue(n)
    /\ UNCHANGED <<disk, mutex, clean, resized, ops>>

Worker(n) ==
    \/ Reconcile(n) \/ CreatePartition(n) \/ UpdatePartition(n) \/ DeletePartition(n)
    \/ Busy(n) \/ PartProbe(n) \/ createLV(n) \/ expandLV(n) \/ removeLVIfExists(n)
-----------------------------------------------------------------------------
(* cleanupOrphanPartition                                                  *)

\* The objects are listed first ...
ListObjects ==
    /\ clean.pc = "idle"
    /\ clean' = [clean EXCEPT !.pc = "scan",
                              !.keep = {PartitionName(n) : n \in {m \in Names : obj[m] # None}}]
    /\ UNCHANGED <<disk, mutex, obj, rec, history, ops, faults>>

\* Mutant: partitions of other programs are orphans, too.
Orphans_AnyPrefix == {i \in Partitions : table[i].name \notin clean.keep}

\* Mutant: only partitions that this process has made are looked at.
Orphans_InCache ==
    {i \in Partitions : /\ table[i].name.prefix = "carina.io" /\ table[i].name \notin clean.keep
                        /\ \E n \in Names : cache[n] = i}

Orphans ==
    {i \in Partitions : table[i].name.prefix = "carina.io" /\ table[i].name \notin clean.keep}

\* ... then the disk is scanned ...
ScanDisk ==
    /\ clean.pc = "scan"
    /\ clean' = [pc |-> "delete", keep |-> {}, todo |-> Orphans]
    /\ UNCHANGED <<disk, mutex, obj, rec, history, ops, faults>>

\* ... and the orphans are deleted by number, those for which the mutex is
\* free.
CleanDelete(i) ==
    /\ clean.pc = "delete" /\ i \in clean.todo /\ mutex = None
    /\ DeletePartitionByPartNumber(i)
    /\ struck' = struck \cup {n \in Names : obj[n] # None /\ i \in Named(n)}
    /\ clean' = [clean EXCEPT !.todo = @ \ {i}]
    /\ UNCHANGED <<mutex, obj, rec, resized, ops, faults>>

CleanSkip(i) ==
    /\ clean.pc = "delete" /\ i \in clean.todo
    /\ \/ mutex # None /\ Fault
       \/ table[i] = None /\ UNCHANGED faults
    /\ clean' = [clean EXCEPT !.todo = @ \ {i}]
    /\ UNCHANGED <<disk, mutex, obj, rec, history, ops>>

CleanDone ==
    /\ clean.pc = "delete" /\ clean.todo = {}
    /\ clean' = CleanIdle
    /\ UNCHANGED <<disk, mutex, obj, rec, history, ops, faults>>

cleanupOrphanPartition ==
    ListObjects \/ ScanDisk \/ CleanDone
    \/ \E i \in Numbers : CleanDelete(i) \/ CleanSkip(i)
-----------------------------------------------------------------------------
(* The controller, and failures                                            *)

CreateObject(n) ==
    /\ obj[n] = None /\ ops < MaxOps
    /\ obj' = [obj EXCEPT ![n] = New(n)]
    /\ ops' = ops + 1
    /\ UNCHANGED <<disk, mutex, rec, clean, history, faults>>

\* Writes of the controller make the worker's copy outdated.
ExpandObject(n) ==
    /\ obj[n] # None /\ obj[n].id /\ ~obj[n].deleting /\ obj[n].size = Want[n]
    /\ ops < MaxOps /\ ops' = ops + 1
    /\ obj' = [obj EXCEPT ![n].size = @ + 1]
    /\ rec' = [rec EXCEPT ![n].old = rec[n] # Idle]
    /\ UNCHANGED <<disk, mutex, clean, history, faults>>

DeleteObject(n) ==
    /\ obj[n] # None /\ ~obj[n].deleting
    /\ ops < MaxOps /\ ops' = ops + 1
    /\ obj' = [obj EXCEPT ![n].deleting = TRUE]
    /\ rec' = [rec EXCEPT ![n].old = rec[n] # Idle]
    /\ UNCHANGED <<disk, mutex, clean, history, faults>>

\* The object goes without the node, which is not at work on it: the node
\* controller has removed the finalizer.
LoseObject(n) ==
    /\ obj[n] # None /\ rec[n] = Idle /\ Fault
    /\ obj' = [obj EXCEPT ![n] = None]
    /\ UNCHANGED <<disk, mutex, rec, clean, history, ops>>

Restart ==
    /\ Fault /\ Reset
    /\ UNCHANGED <<table, obj, history, ops>>

Next ==
    \/ \E n \in Names : \/ Worker(n) \/ CreateObject(n) \/ ExpandObject(n) \/ DeleteObject(n)
                        \/ LoseObject(n)
    \/ cleanupOrphanPartition \/ Restart

Spec == Init /\ [][Next]_vars

\* Every name has its turn in the work queue, and its worker goes on.  The
\* cleanup runs every 600 s.  Who tries again and again for the mutex gets it.
FairSpec ==
    /\ Spec
    /\ \A n \in Names : SF_vars(Worker(n))
    /\ SF_vars(cleanupOrphanPartition)
-----------------------------------------------------------------------------
\* Type invariant; an object has the size of its claim, or one more.
TypeOK ==
    /\ table \in [Numbers -> {None} \cup Entries]
    /\ cache \in [Names -> -1..LastNumber] /\ mutex \in Names \cup {None}
    /\ obj \in [Names -> {None} \cup Objects]
    /\ \A n \in Names : obj[n] # None =>
          obj[n].size \in {Want[n], Want[n] + 1} /\ obj[n].current <= obj[n].size
    /\ rec \in [Names -> Works]
    /\ clean \in [pc : {"idle", "scan", "delete"}, keep : SUBSET {PartitionName(n) : n \in Names},
                  todo : SUBSET Numbers]
    /\ struck \subseteq Names /\ resized \subseteq Names
    /\ ops \in 0..MaxOps /\ faults \in 0..MaxFaults

\* No two partitions share space or a name, through any sequence of creating,
\* resizing and deleting by workers and cleanup, with restarts between.
TableSound ==
    \A i, j \in Partitions : i # j =>
        /\ table[i].name # table[j].name
        /\ table[i].first..table[i].last \cap table[j].first..table[j].last = {}

\* A volume whose status says that it was created has its partition, as large
\* as the status says unless parted has rounded.  The exception is a partition
\* that the cleanup took for an orphan.
RawBacked ==
    \A n \in Names :
        obj[n] # None /\ obj[n].id /\ ~obj[n].deleting /\ n \notin struck =>
            \E i \in Named(n) : Size(table[i]) >= obj[n].current \/ n \in resized

\* A partition that is not Carina's is left alone: created before Carina came
\* to the disk, it is never moved, resized or removed.
ForeignKept == [][\A i \in Numbers : table[i] = Foreign => table'[i] = Foreign]_vars

\* There is an object for which the disk has no room: every attempt ends the
\* process, also for the others.
CrashLoop ==
    \E n \in Names : Unserved(n) /\ ~AlreadyThere(n) /\ FreeSpacesWithMin(obj[n].size) = {}

\* A raw volume is created at last, or found impossible, or given up, unless a
\* volume without room keeps ending the process.
RawServed == \A n \in Names : Unserved(n) ~> ~Unserved(n) \/ CrashLoop

\* A partition without object goes at last, or gets an object again.
OrphanPartitionServed ==
    \A n \in Names : (obj[n] = None /\ Named(n) # {}) ~>
                     (obj[n] # None \/ Named(n) = {} \/ CrashLoop)
=============================================================================
