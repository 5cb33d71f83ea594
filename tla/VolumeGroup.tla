----------------------------- MODULE VolumeGroup -----------------------------
(***************************************************************************)
(* The LVM volume manager of carina-node: LocalVolumeImplement             *)
(* (pkg/devicemanager/volume/volume.go) over the LVM commands of           *)
(* pkg/devicemanager/lvmd/lvm.go, for one volume group.                    *)
(*                                                                         *)
(* Several goroutines call it: reconcile workers and the orphan cleaner    *)
(* create, resize and delete volumes, the device scan adds and removes     *)
(* disks.  A call takes the VOLUMEMUTEX with TryAcquire, which fails at    *)
(* once when the mutex is taken, reads the group with VGDisplay, decides   *)
(* on that reading, runs LVM commands and releases the mutex.  The device  *)
(* scan also runs two LVM commands without the mutex.  All sizes are in    *)
(* GiB, the unit in which the LVM commands are issued.                     *)
(***************************************************************************)
EXTENDS Integers, FiniteSets

CONSTANTS
    Workers,    \* goroutines that create, resize and delete volumes
    Checker,    \* the device scan goroutine
    Vols,       \* volume names
    Disks,      \* disks that match the group's selector at some time
    Sizes,      \* requested volume sizes
    PvSize,     \* size of each disk when it becomes a physical volume
    DevSize,    \* size of each disk after the device was enlarged
    Reserved,   \* carina.DefaultReservedSpace
    Edge,       \* carina.DefaultEdgeSpace
    Word,       \* number of values of an unsigned machine word
    MaxTries,   \* attempts of utils.UntilMaxRetry
    None

Procs == Workers \cup {Checker}
Keep == Reserved - Edge

\* The device scan picks disks of at least 10 GiB.
LargeDisks == \A d \in Disks : PvSize[d] >= Keep

ASSUME ConstantsAssumption ==
    /\ Checker \notin Workers
    /\ None \notin Procs
    /\ Sizes \subseteq Nat \ {0}
    /\ PvSize \in [Disks -> Nat \ {0}]
    /\ DevSize \in [Disks -> Nat]
    /\ \A d \in Disks : DevSize[d] >= PvSize[d]
    /\ Reserved \in Nat /\ Edge \in Nat /\ Edge <= Reserved
    /\ Word \in Nat
    /\ MaxTries \in Nat \ {0}

VARIABLES
    lock,       \* holder of VOLUMEMUTEX, or None
    lv,         \* size of each logical volume, 0 while it does not exist
    vgFree,     \* VG_FREE of the group
    disk,       \* state of each disk with respect to LVM
    pvSize,     \* size of each disk as LVM knows it
    pc,         \* next step of each goroutine's call
    call,       \* the call in progress
    tries,      \* attempts left
    res,        \* result of the attempt in progress
    seen,       \* what VGDisplay returned to the attempt in progress
    stale       \* history: the group changed since the holder read it

lvmVars == <<lv, vgFree, disk, pvSize>>
vars == <<lock, lv, vgFree, disk, pvSize, pc, call, tries, res, seen, stale>>

NoCall == [op |-> "none", target |-> None, size |-> 0]
VolumeCalls ==
    [op : {"create", "resize"}, target : Vols, size : Sizes]
        \cup [op : {"delete"}, target : Vols, size : {0}]
DiskCalls == [op : {"add", "remove"}, target : Disks, size : {0}]
Calls == VolumeCalls \cup DiskCalls \cup {NoCall}
Readings == [free : Nat, last : BOOLEAN, empty : BOOLEAN]
NoReading == [free |-> 0, last |-> FALSE, empty |-> TRUE]

InGroup == {d \in Disks : disk[d] \in {"member", "missing"}}
Complete == \A d \in Disks : disk[d] # "missing"

\* Subtraction of unsigned machine words: wraps around below zero.
USub(a, b) == IF a >= b THEN a - b ELSE a - b + Word

Init ==
    /\ lock = None
    /\ lv = [v \in Vols |-> 0]
    /\ vgFree = 0
    /\ disk = [d \in Disks |-> "blank"]
    /\ pvSize = PvSize
    /\ pc = [p \in Procs |-> "idle"]
    /\ call = [p \in Procs |-> NoCall]
    /\ tries = [p \in Procs |-> 0]
    /\ res = [p \in Procs |-> "none"]
    /\ seen = [p \in Procs |-> NoReading]
    /\ stale = FALSE
-----------------------------------------------------------------------------
(* The frame of every call: entry, mutex, release and retry.               *)

Goto(p, l) == pc' = [pc EXCEPT ![p] = l]

\* The attempt returns r; the deferred Release is the next step.
Finish(p, r) ==
    /\ res' = [res EXCEPT ![p] = r]
    /\ Goto(p, "release")
    /\ UNCHANGED <<lock, call, tries, seen, stale>>

\* The reconciler uses UntilMaxRetry; the orphan cleaner, which only deletes,
\* and the device scan try once.
Attempts(p, c) ==
    IF p \notin Workers THEN {1} ELSE {MaxTries} \cup {n \in {1} : c.op = "delete"}

\* A goroutine calls the volume manager.
Begin(p, c) ==
    /\ pc[p] = "idle"
    /\ Goto(p, "call")
    /\ call' = [call EXCEPT ![p] = c]
    /\ \E n \in Attempts(p, c) : tries' = [tries EXCEPT ![p] = n]
    /\ UNCHANGED <<lock, lvmVars, res, seen, stale>>

Call(p) ==
    \E c \in (IF p \in Workers THEN VolumeCalls ELSE DiskCalls) : Begin(p, c)

\* Mutant: the last attempt is not recognised.
Return_NoLimit(p, r) ==
    LET over == r = "ok" IN
    /\ Goto(p, IF over THEN "idle" ELSE "call")
    /\ tries' = [tries EXCEPT ![p] = IF over THEN 0 ELSE tries[p] - 1]
    /\ call' = IF over THEN [call EXCEPT ![p] = NoCall] ELSE call
    /\ res' = [res EXCEPT ![p] = "none"]
    /\ seen' = [seen EXCEPT ![p] = NoReading]

\* The attempt returned r: the call ends, or the next attempt begins.
Return(p, r) ==
    LET over == r = "ok" \/ tries[p] = 1 IN
    /\ Goto(p, IF over THEN "idle" ELSE "call")
    /\ tries' = [tries EXCEPT ![p] = IF over THEN 0 ELSE tries[p] - 1]
    /\ call' = IF over THEN [call EXCEPT ![p] = NoCall] ELSE call
    /\ res' = [res EXCEPT ![p] = "none"]
    /\ seen' = [seen EXCEPT ![p] = NoReading]

\* Mutant: the set of held locks is not consulted.
TryAcquire_Always(p) ==
    /\ pc[p] = "call"
    /\ lock' = p
    /\ Goto(p, "read")
    /\ UNCHANGED <<lvmVars, call, tries, res, seen, stale>>

TryAcquire(p) ==
    /\ pc[p] = "call"
    /\ \/ /\ lock = None
          /\ lock' = p
          /\ Goto(p, "read")
          /\ UNCHANGED <<call, tries, res, seen>>
       \/ /\ lock # None
          /\ Return(p, "error")
          /\ UNCHANGED lock
    /\ UNCHANGED <<lvmVars, stale>>

\* Mutant: an early error return without the deferred Release.
Release_OnSuccess(p) ==
    /\ pc[p] = "release"
    /\ lock' = IF res[p] = "ok" THEN None ELSE lock
    /\ Return(p, res[p])
    /\ stale' = FALSE
    /\ UNCHANGED lvmVars

Release(p) ==
    /\ pc[p] = "release"
    /\ lock' = None
    /\ Return(p, res[p])
    /\ stale' = FALSE
    /\ UNCHANGED lvmVars

\* VGDisplay under the mutex; d is the disk the call is about, if any.
VGDisplay(p) ==
    /\ InGroup # {}
    /\ seen' = [seen EXCEPT ![p] =
                   [free  |-> vgFree,
                    last  |-> InGroup = {call[p].target},
                    empty |-> \A v \in Vols : lv[v] = 0]]
    /\ stale' = FALSE
    /\ Goto(p, "exec")
    /\ UNCHANGED <<lock, lvmVars, call, tries, res>>

\* A command of the attempt failed: the attempt returns its error.
CommandFails(p) == Finish(p, "error") /\ UNCHANGED lvmVars

At(p, l, op) == pc[p] = l /\ call[p].op = op
-----------------------------------------------------------------------------
(* LVM commands.  lvcreate, lvresize, vgextend and pvmove refuse to work   *)
(* while a physical volume of the group is missing, and when there is not  *)
(* enough space.                                                           *)

LVCreateFromVG(v, s) ==
    /\ lv[v] = 0
    /\ Complete
    /\ s <= vgFree
    /\ lv' = [lv EXCEPT ![v] = s]
    /\ vgFree' = vgFree - s
    /\ UNCHANGED <<disk, pvSize>>

\* lvresize without -f declines to shrink a volume.
LVResize(v, s) ==
    /\ s > lv[v]
    /\ Complete
    /\ s - lv[v] <= vgFree
    /\ lv' = [lv EXCEPT ![v] = s]
    /\ vgFree' = vgFree - (s - lv[v])
    /\ UNCHANGED <<disk, pvSize>>

LVRemove(v) ==
    /\ lv[v] > 0
    /\ lv' = [lv EXCEPT ![v] = 0]
    /\ vgFree' = vgFree + lv[v]
    /\ UNCHANGED <<disk, pvSize>>

PVCreate(d) ==
    /\ disk[d] = "blank"
    /\ disk' = [disk EXCEPT ![d] = "pv"]
    /\ UNCHANGED <<lv, vgFree, pvSize>>

\* vgcreate for the first disk, vgextend for the others.
VGExtend(d) ==
    /\ disk[d] = "pv"
    /\ Complete
    /\ disk' = [disk EXCEPT ![d] = "member"]
    /\ vgFree' = vgFree + pvSize[d]
    /\ UNCHANGED <<lv, pvSize>>

\* vgremove -f removes the group with every volume in it.
VGRemove(d, after) ==
    /\ InGroup = {d}
    /\ disk' = [disk EXCEPT ![d] = after]
    /\ lv' = [v \in Vols |-> 0]
    /\ vgFree' = 0
    /\ UNCHANGED pvSize

\* pvmove, vgreduce; vgreduce refuses to remove the last disk.
VGReduce(d, after) ==
    /\ disk[d] = "member"
    /\ Complete
    /\ InGroup # {d}
    /\ pvSize[d] <= vgFree
    /\ disk' = [disk EXCEPT ![d] = after]
    /\ vgFree' = vgFree - pvSize[d]
    /\ UNCHANGED <<lv, pvSize>>
-----------------------------------------------------------------------------
(* CreateVolume                                                            *)

\* Mutant: the comparison with what is reserved is dropped.
Exhausted_NoReserve(p, need) == USub(seen[p].free, need) < Edge

\* Not enough space: what is left after the request would be below the
\* reserve, computed in unsigned arithmetic on the reading of VGDisplay.
Exhausted(p, need) == USub(seen[p].free, need) < Keep

CreateRead(p) ==
    /\ At(p, "read", "create")
    /\ VGDisplay(p) \/ CommandFails(p)

CreateVolume(p) ==
    LET v == call[p].target
        s == call[p].size
    IN
    /\ At(p, "exec", "create")
    /\ \/ Exhausted(p, s) /\ Finish(p, "exhausted") /\ UNCHANGED lvmVars
       \/ ~Exhausted(p, s) /\ lv[v] > 0 /\ Finish(p, "ok") /\ UNCHANGED lvmVars
       \/ ~Exhausted(p, s) /\ LVCreateFromVG(v, s) /\ Finish(p, "ok")
       \/ ~Exhausted(p, s) /\ CommandFails(p)

(* ResizeVolume.  LVDisplay reports a volume that does not exist as an     *)
(* error, and the function returns nil on any error of LVDisplay.          *)

ResizeRead(p) ==
    /\ At(p, "read", "resize")
    /\ VGDisplay(p) \/ CommandFails(p)

ResizeVolume(p) ==
    LET v == call[p].target
        s == call[p].size
        noSpace == Exhausted(p, USub(s, lv[v]))
    IN
    /\ At(p, "exec", "resize")
    /\ \/ Finish(p, "ok") /\ UNCHANGED lvmVars       \* LVDisplay failed
       \/ /\ lv[v] > 0
          /\ \/ s = lv[v] /\ Finish(p, "ok") /\ UNCHANGED lvmVars
             \/ /\ s # lv[v]
                /\ \/ noSpace /\ Finish(p, "exhausted") /\ UNCHANGED lvmVars
                   \/ ~noSpace /\ LVResize(v, s) /\ Finish(p, "ok")
                   \/ ~noSpace /\ CommandFails(p)

(* DeleteVolume reads only the volume, not the group.                      *)

\* Mutant: every error of LVDisplay is taken for "not found".
DeleteVolume_AnyError(p) ==
    /\ At(p, "read", "delete")
    /\ Finish(p, "ok")
    /\ UNCHANGED lvmVars

DeleteVolume(p) ==
    LET v == call[p].target IN
    /\ At(p, "read", "delete")
    /\ \/ lv[v] = 0 /\ Finish(p, "ok") /\ UNCHANGED lvmVars
       \/ LVRemove(v) /\ Finish(p, "ok")
       \/ CommandFails(p)

(* AddNewDiskToVg: make the disk a physical volume, then create or extend  *)
(* the group.  A disk that is in the group already is an error.            *)

AddPv(p) ==
    LET d == call[p].target IN
    /\ At(p, "read", "add")
    /\ \/ /\ PVCreate(d) \/ (disk[d] = "pv" /\ UNCHANGED lvmVars)
          /\ Goto(p, "exec")
          /\ UNCHANGED <<lock, call, tries, res, seen, stale>>
       \/ CommandFails(p)

AddNewDiskToVg(p) ==
    /\ At(p, "exec", "add")
    /\ \/ VGExtend(call[p].target) /\ Finish(p, "ok")
       \/ CommandFails(p)

(* RemoveDiskInVg: the last disk goes with the group, which must hold no   *)
(* volume; another disk goes when the rest of the group can take its data  *)
(* and the reserve.  A failing pvremove leaves a lone physical volume.     *)

RemoveRead(p) ==
    /\ At(p, "read", "remove")
    /\ \/ disk[call[p].target] = "member" /\ VGDisplay(p)
       \/ CommandFails(p)

NoRoomFor(p, d) == USub(seen[p].free, Keep) < pvSize[d]

\* Mutant: the count of logical volumes is not looked at.
MayRemoveGroup_AnyCount(p) == seen[p].last

MayRemoveGroup(p) == seen[p].last /\ seen[p].empty

RemoveDiskInVg(p) ==
    LET d == call[p].target IN
    /\ At(p, "exec", "remove")
    /\ \/ \E after \in {"blank", "pv"} :
             /\ \/ MayRemoveGroup(p) /\ VGRemove(d, after)
                \/ ~seen[p].last /\ ~NoRoomFor(p, d) /\ VGReduce(d, after)
             /\ Finish(p, IF after = "blank" THEN "ok" ELSE "error")
       \/ ~seen[p].last /\ NoRoomFor(p, d) /\ Finish(p, "exhausted")
             /\ UNCHANGED lvmVars
       \/ CommandFails(p)
-----------------------------------------------------------------------------
(* The device scan's commands outside the mutex, disk failures, restarts.  *)

\* A command outside the mutex invalidates the reading of the holder.
OutsideMutex ==
    /\ stale' = (stale \/ \E p \in Procs : pc[p] = "exec")
    /\ UNCHANGED <<lock, pc, call, tries, res, seen>>

\* discoverPv runs pvresize on every disk of the group.
PVResize(d) ==
    /\ pc[Checker] = "idle"
    /\ disk[d] = "member"
    /\ pvSize[d] < DevSize[d]
    /\ pvSize' = [pvSize EXCEPT ![d] = DevSize[d]]
    /\ vgFree' = vgFree + (DevSize[d] - pvSize[d])
    /\ UNCHANGED <<lv, disk>>
    /\ OutsideMutex

\* vgreduce --removemissing drops a missing disk that holds no data.
RemoveUnknownDevice(d) ==
    /\ pc[Checker] = "idle"
    /\ disk[d] = "missing"
    /\ InGroup # {d}
    /\ pvSize[d] <= vgFree
    /\ disk' = [disk EXCEPT ![d] = "gone"]
    /\ vgFree' = vgFree - pvSize[d]
    /\ UNCHANGED <<lv, pvSize>>
    /\ OutsideMutex

\* A disk of the group fails; LVM keeps it in the group as missing.
DiskFails(d) ==
    /\ disk[d] = "member"
    /\ disk' = [disk EXCEPT ![d] = "missing"]
    /\ UNCHANGED <<lv, vgFree, pvSize>>
    /\ UNCHANGED <<lock, pc, call, tries, res, seen, stale>>

\* carina-node restarts: the mutex and the calls are lost, the group is not.
Restart ==
    /\ \E p \in Procs : pc[p] # "idle"
    /\ lock' = None
    /\ pc' = [p \in Procs |-> "idle"]
    /\ call' = [p \in Procs |-> NoCall]
    /\ tries' = [p \in Procs |-> 0]
    /\ res' = [p \in Procs |-> "none"]
    /\ seen' = [p \in Procs |-> NoReading]
    /\ stale' = FALSE
    /\ UNCHANGED lvmVars

Step(p) ==
    \/ TryAcquire(p) \/ Release(p)
    \/ CreateRead(p) \/ CreateVolume(p)
    \/ ResizeRead(p) \/ ResizeVolume(p)
    \/ DeleteVolume(p)
    \/ AddPv(p) \/ AddNewDiskToVg(p)
    \/ RemoveRead(p) \/ RemoveDiskInVg(p)

Next ==
    \/ \E p \in Procs : Call(p) \/ Step(p)
    \/ \E d \in Disks : PVResize(d) \/ RemoveUnknownDevice(d) \/ DiskFails(d)
    \/ Restart

Fairness == \A p \in Procs : WF_vars(Step(p))

Spec == Init /\ [][Next]_vars
FairSpec == Spec /\ Fairness
-----------------------------------------------------------------------------
(* Properties                                                              *)

\* Type invariant; a retried call makes at most MaxTries attempts.
TypeOK ==
    /\ lock \in Procs \cup {None}
    /\ lv \in [Vols -> Nat]
    /\ vgFree \in Nat
    /\ disk \in [Disks -> {"blank", "pv", "member", "missing", "gone"}]
    /\ pvSize \in [Disks -> Nat]
    /\ pc \in [Procs -> {"idle", "call", "read", "exec", "release"}]
    /\ call \in [Procs -> Calls]
    /\ tries \in [Procs -> 0..MaxTries]
    /\ res \in [Procs -> {"none", "ok", "exhausted", "error"}]
    /\ seen \in [Procs -> Readings]
    /\ stale \in BOOLEAN

\* Between TryAcquire and Release a goroutine is the only one at work on the
\* group: the steps of CreateVolume, ResizeVolume, DeleteVolume,
\* AddNewDiskToVg and RemoveDiskInVg never interleave with one another.
MutexHeld ==
    \A p \in Procs : (pc[p] \in {"read", "exec", "release"}) <=> (lock = p)

\* A nil error is true when the caller gets it: the volume created exists,
\* the volume deleted does not, the disk added is in the group, the disk
\* removed is not.  (ResizeVolume is the exception: it also returns nil
\* when lvs cannot show the volume.)
ResultsTrue ==
    \A p \in Procs :
        pc[p] = "release" /\ res[p] = "ok" =>
            /\ call[p].op = "create" => lv[call[p].target] > 0
            /\ call[p].op = "delete" => lv[call[p].target] = 0
            /\ call[p].op = "add"    => call[p].target \in InGroup
            /\ call[p].op = "remove" => call[p].target \notin InGroup

ReserveStep ==
    \A p \in Procs :
        /\ pc[p] = "exec" /\ pc'[p] = "release"
        /\ vgFree' < vgFree /\ InGroup' # {}
        /\ ~stale
        => vgFree' >= Keep

\* No operation under the mutex draws the group below the reserve: not the
\* creation or expansion of a volume and not the removal of one of several
\* disks, in spite of the unsigned arithmetic of the checks and of the time
\* between a check and its LVM command.  Only the scan's commands outside
\* the mutex can make the reading a check relies on stale.
ReserveKept == [][ReserveStep]_vars

\* The volume manager implements the abstract store: no adding, removing or
\* losing of disks (vgremove -f included) changes a volume, space moves
\* only between a volume and the pool, and the pool is never overdrawn.
Store == INSTANCE VolumeStore WITH free <- vgFree
VolumesSafe == Store!Spec

\* The mutex is released on every path of every call.
LockReleased == \A p \in Procs : lock = p ~> lock # p
=============================================================================
