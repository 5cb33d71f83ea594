----------------------------- MODULE NodePublish -----------------------------
(***************************************************************************)
(* The CSI node service (pkg/csidriver/driver/node.go): one volume of a    *)
(* node, published at the target paths of the pods that use it.            *)
(*                                                                         *)
(* An LVM volume is reached through a device file that the service makes   *)
(* in DeviceDirectory, a raw volume through its partition, a host volume   *)
(* through a directory, a bcache volume through a device that every        *)
(* publish creates anew.  kubelet repeats a call until it succeeds, and    *)
(* does not overlap calls for one pod.  Steps that change the node are one *)
(* action each, so that an error, a restart or a reboot can come between.  *)
(***************************************************************************)
EXTENDS Integers

CONSTANTS
    Targets,    \* target paths, one for each pod
    Kinds,      \* kinds of volume: "lvm", "raw", "host", "bcache"
    Numbers,    \* device numbers (major:minor) the volume may get
    MaxPods,    \* bound on the number of pods started
    MaxFaults,  \* bound on errors, lost answers, restarts and reboots
    None

ASSUME NodePublishAssumption ==
    /\ Kinds \subseteq {"lvm", "raw", "host", "bcache"}
    /\ Numbers \subseteq Nat \ {0} /\ Numbers # {}
    /\ MaxPods \in Nat /\ MaxFaults \in Nat
    /\ None \notin Targets

VARIABLES
    vol,        \* kind and mode ("fs" or "block") of the volume
    size,       \* size of the local volume
    fs,         \* size of the filesystem on it, 0 while it is blank
    data,       \* what became of the data of the pods: "none", "written", "lost"
    num,        \* device number of the volume
    bcache,     \* superblock on the backend, device running, cache dirty
    dev,        \* number of the device file in DeviceDirectory, 0 for no file
    dir,        \* targets that are directories
    node,       \* number of the device node at each target, 0 for none
    mnt,        \* number of the device mounted at each target, 0 for none
    need,       \* what kubelet wants of each target
    grown,      \* "no", "asked" or "done": expansion of the filesystem
    call,       \* the CSI call in progress for each target
    holder,     \* who holds the lock of the volume
    pods,       \* number of pods started so far
    slips,      \* history: which unguarded cases have happened
    faults      \* number of faults so far

volumeVars == <<size, fs, data, num, bcache>>
nodeVars == <<dev, dir, node, mnt>>
kubeletVars == <<need, grown, pods>>
vars == <<vol, volumeVars, nodeVars, kubeletVars, call, holder, slips, faults>>

Idle == [op |-> "none", pc |-> "idle"]
Calls ==
    {Idle}
    \cup [op : {"publish"}, pc : {"lock", "device", "node", "make", "register", "check", "format",
                                 "mount", "chmod", "resize", "reply"}]
    \cup [op : {"unpublish"}, pc : {"lock", "stat", "umount", "rmtree", "rmdev", "rmnode", "unbcache",
                                   "reply"}]
    \cup [op : {"expand"}, pc : {"device", "lock", "resize", "reply"}]

Init ==
    /\ vol \in [kind : Kinds, mode : {"fs", "block"}]
    /\ vol.kind = "host" => vol.mode = "fs"
    /\ size = 1 /\ fs = 0 /\ data = "none" /\ num = (CHOOSE n \in Numbers : TRUE)
    /\ bcache = [sb |-> FALSE, on |-> FALSE, dirty |-> FALSE]
    /\ dev = 0 /\ dir = {}
    /\ node = [t \in Targets |-> 0] /\ mnt = [t \in Targets |-> 0]
    /\ need = [t \in Targets |-> "none"] /\ grown = "no" /\ pods = 0
    /\ call = [t \in Targets |-> Idle] /\ holder = None
    /\ slips = {} /\ faults = 0

At(t, op, pc) == call[t] = [op |-> op, pc |-> pc]
Goto(t, pc) == call' = [call EXCEPT ![t].pc = pc]

\* Mutant: the lock is released only by a call that succeeds.
Return_OnSuccess(t) ==
    /\ call' = [call EXCEPT ![t] = Idle]
    /\ holder' = IF holder = t /\ call[t].pc = "reply" THEN None ELSE holder

\* The call ends; the deferred Release frees the lock.
Return(t) ==
    /\ call' = [call EXCEPT ![t] = Idle]
    /\ holder' = IF holder = t THEN None ELSE holder

\* Data that pods have written is destroyed.
Ruined == IF data = "written" THEN "lost" ELSE data
-----------------------------------------------------------------------------
(* Device files, mounts and bcache                                         *)

\* Mutant: the minor number is off by one.
createDeviceIfNeeded_NextMinor == dev' = num + 1

\* Mutant: any device file is good enough, whatever its number.
createDeviceIfNeeded_AnyFile == dev' = IF dev = 0 THEN num ELSE dev

\* A device file with another number is replaced.
createDeviceIfNeeded == dev' = num

\* The number behind the path that is given to mount.
Mounting == IF vol.kind = "lvm" THEN dev ELSE num

\* getBcacheDevice: the backend carries a bcache superblock.
getBcacheDevice == vol.kind = "bcache" /\ bcache.sb

\* Mutant: devices are compared by number only, through the device file.
isSameDevice_ByNumber(t) == IF vol.kind = "lvm" THEN dev = mnt[t] ELSE TRUE

\* The device of the volume and the one in /proc/mounts have the same path:
\* a mount is recognised also when its device file is gone.  For a bcache
\* volume the path is known from the superblock only, and the device file
\* in DeviceDirectory has the number of the backend.
isSameDevice(t) ==
    vol.kind = "bcache" => call[t].op = "publish" \/ getBcacheDevice

IsMounted(t) == mnt[t] # 0 /\ isSameDevice(t)

\* CheckBindMountByInode: the target shows the inode of the volume.
CheckBindMountByInode(t) == mnt[t] # 0

DetectFilesystem == IF fs = 0 THEN "" ELSE "ext4"

\* FormatAndMount, first half: mkfs if the device is blank.
Format(t) ==
    /\ At(t, "publish", "format")
    /\ IF DetectFilesystem = "" THEN fs' = size /\ data' = Ruined
       ELSE UNCHANGED <<fs, data>>
    /\ Goto(t, "mount")
    /\ UNCHANGED <<vol, size, num, bcache, nodeVars, kubeletVars, holder, slips, faults>>

\* FormatAndMount, second half, or BindMount.
Mount(t) ==
    /\ At(t, "publish", "mount")
    /\ mnt' = [mnt EXCEPT ![t] = Mounting]
    /\ Goto(t, IF vol.kind = "host" THEN "reply" ELSE "chmod")
    /\ UNCHANGED <<vol, volumeVars, dev, dir, node, kubeletVars, holder, slips, faults>>

\* os.Chmod of the mounted target; a bcache volume is then resized.
Chmod(t) ==
    /\ At(t, "publish", "chmod")
    /\ Goto(t, IF vol.kind = "bcache" THEN "resize" ELSE "reply")
    /\ UNCHANGED <<vol, volumeVars, nodeVars, kubeletVars, holder, slips, faults>>

\* The target directory is made, and mounting skipped if it is mounted.
MountIfNeeded(t, mounted) ==
    /\ At(t, "publish", "check")
    /\ dir' = dir \cup {t}
    /\ Goto(t, IF mounted THEN "reply"
               ELSE IF vol.kind = "host" THEN "mount" ELSE "format")
    /\ UNCHANGED <<vol, volumeVars, dev, node, mnt, kubeletVars, holder, slips, faults>>

\* The target becomes a device node of the volume; a node with another
\* number is replaced.
MakeNode(t) ==
    /\ At(t, "publish", "node")
    /\ node' = [node EXCEPT ![t] = num]
    /\ Goto(t, "reply")
    /\ UNCHANGED <<vol, volumeVars, dev, dir, mnt, kubeletVars, holder, slips, faults>>

\* BcacheImplement.CreateBcache: wipefs, then make-bcache, which fails if
\* the device is running; whether the kernel has by then written the
\* superblock again is open.  The cache is wiped with what is dirty in it.
CreateBcache(t) ==
    /\ At(t, "publish", "make")
    /\ \/ /\ bcache.on
          /\ \E sb \in {bcache.sb, FALSE} : bcache' = [bcache EXCEPT !.sb = sb]
          /\ slips' = slips \cup {"rewiped"}
          /\ Return(t)
          /\ UNCHANGED data
       \/ /\ ~bcache.on
          /\ bcache' = [sb |-> TRUE, on |-> FALSE, dirty |-> FALSE]
          /\ slips' = IF bcache.dirty THEN slips \cup {"rewiped"} ELSE slips
          /\ data' = IF bcache.dirty THEN Ruined ELSE data
          /\ Goto(t, "register") /\ UNCHANGED holder
    /\ UNCHANGED <<vol, size, fs, num, nodeVars, kubeletVars, faults>>

\* RegisterDevice, GetDeviceBcache and SetCacheMode: the device runs.
RegisterBcache(t) ==
    /\ At(t, "publish", "register")
    /\ bcache' = [bcache EXCEPT !.on = TRUE]
    /\ Goto(t, IF vol.mode = "block" THEN "node" ELSE "check")
    /\ UNCHANGED <<vol, size, fs, data, num, nodeVars, kubeletVars, holder, slips, faults>>

\* RemoveBcache: detach (which flushes the cache), umount, stop.
RemoveBcache ==
    /\ bcache' = [bcache EXCEPT !.on = FALSE, !.dirty = FALSE]
    /\ mnt' = [t \in Targets |-> 0]

\* DeleteBcache as the last step of an unpublish.
DeleteBcache(t) ==
    /\ At(t, "unpublish", "unbcache")
    /\ \/ bcache.on /\ RemoveBcache /\ Goto(t, "reply") /\ UNCHANGED holder
       \/ ~bcache.on /\ Return(t) /\ UNCHANGED <<bcache, mnt>>
    /\ UNCHANGED <<vol, size, fs, data, num, dev, dir, node, kubeletVars, slips, faults>>
-----------------------------------------------------------------------------
(* NodePublishVolume                                                       *)

\* TryAcquire, then the branch for the kind and the mode of the volume.
NodePublishVolume(t) ==
    /\ At(t, "publish", "lock") /\ holder = None
    /\ holder' = t
    /\ Goto(t, IF vol.kind = "bcache" THEN "make"
               ELSE IF vol.mode = "block" THEN "node" ELSE "device")
    /\ UNCHANGED <<vol, volumeVars, nodeVars, kubeletVars, slips, faults>>

\* The lock is held: codes.Aborted.
Aborted(t) ==
    /\ call[t].pc = "lock" /\ holder # None
    /\ Return(t)
    /\ UNCHANGED <<vol, volumeVars, nodeVars, kubeletVars, slips, faults>>

nodePublishLvmBlockVolume(t) == vol.kind = "lvm" /\ MakeNode(t)
nodePublishRawBlockVolume(t) == vol.kind = "raw" /\ MakeNode(t)
nodePublishBcacheBlockVolume(t) == vol.kind = "bcache" /\ MakeNode(t)

nodePublishLvmFilesystemVolume(t) ==
    /\ vol.kind = "lvm"
    /\ \/ /\ At(t, "publish", "device")
          /\ createDeviceIfNeeded
          /\ Goto(t, "check")
          /\ UNCHANGED <<vol, volumeVars, dir, node, mnt, kubeletVars, holder, slips, faults>>
       \/ MountIfNeeded(t, IsMounted(t)) \/ Format(t) \/ Mount(t) \/ Chmod(t)

\* The device file of a partition is the kernel's own.
nodePublishRawFilesystemVolume(t) ==
    /\ vol.kind = "raw"
    /\ \/ /\ At(t, "publish", "device")
          /\ Goto(t, "check")
          /\ UNCHANGED <<vol, volumeVars, nodeVars, kubeletVars, holder, slips, faults>>
       \/ MountIfNeeded(t, IsMounted(t)) \/ Format(t) \/ Mount(t) \/ Chmod(t)

\* The directory of the volume is there since CreateVolume.
nodePublishHostFilesystemVolume(t) ==
    /\ vol.kind = "host"
    /\ \/ /\ At(t, "publish", "device")
          /\ Goto(t, "check")
          /\ UNCHANGED <<vol, volumeVars, nodeVars, kubeletVars, holder, slips, faults>>
       \/ MountIfNeeded(t, CheckBindMountByInode(t)) \/ Mount(t)

nodePublishBcacheVolume(t) ==
    vol.kind = "bcache" /\ (CreateBcache(t) \/ RegisterBcache(t))

nodePublishBcacheFilesystemVolume(t) ==
    /\ vol.kind = "bcache"
    /\ \/ MountIfNeeded(t, IsMounted(t)) \/ Format(t) \/ Mount(t) \/ Chmod(t)
       \/ /\ At(t, "publish", "resize")
          /\ fs' = size
          /\ Goto(t, "reply")
          /\ UNCHANGED <<vol, size, data, num, bcache, nodeVars, kubeletVars, holder, slips, faults>>

Publish(t) ==
    \/ NodePublishVolume(t)
    \/ nodePublishLvmBlockVolume(t) \/ nodePublishRawBlockVolume(t)
    \/ nodePublishBcacheBlockVolume(t)
    \/ nodePublishLvmFilesystemVolume(t) \/ nodePublishRawFilesystemVolume(t)
    \/ nodePublishHostFilesystemVolume(t)
    \/ nodePublishBcacheVolume(t) \/ nodePublishBcacheFilesystemVolume(t)
-----------------------------------------------------------------------------
(* NodeUnpublishVolume                                                     *)

Unmount(t) ==
    /\ At(t, "unpublish", "umount")
    /\ mnt' = [mnt EXCEPT ![t] = 0]
    /\ Goto(t, "rmtree")
    /\ UNCHANGED <<vol, volumeVars, dev, dir, node, kubeletVars, holder, slips, faults>>

\* os.RemoveAll of the target.  Through a mount it empties the volume and
\* then fails, because the mount point is busy.
RemoveTarget(t, next) ==
    /\ At(t, "unpublish", "rmtree")
    /\ \/ /\ mnt[t] # 0
          /\ data' = Ruined /\ Return(t) /\ UNCHANGED dir
       \/ /\ mnt[t] = 0
          /\ dir' = dir \ {t} /\ Goto(t, next) /\ UNCHANGED <<data, holder>>
    /\ UNCHANGED <<vol, size, fs, num, bcache, dev, node, mnt, kubeletVars, slips, faults>>

\* Mutant: a target that is gone is answered without a look at the device.
TargetGone_KeepsDevice(t) ==
    /\ Goto(t, "reply")
    /\ UNCHANGED <<dev, bcache, mnt>>

\* The target does not exist: what is left of the device is removed.
TargetGone(t) ==
    /\ dev' = IF vol.kind = "raw" \/ getBcacheDevice THEN dev ELSE 0
    /\ IF getBcacheDevice /\ bcache.on THEN RemoveBcache
       ELSE UNCHANGED <<bcache, mnt>>
    /\ Goto(t, "reply")

NodeUnpublishVolume(t) ==
    \/ /\ At(t, "unpublish", "lock") /\ holder = None
       /\ holder' = t
       /\ Goto(t, "stat")
       /\ UNCHANGED <<vol, volumeVars, nodeVars, kubeletVars, slips, faults>>
    \/ /\ At(t, "unpublish", "stat") /\ vol.kind # "host"
       /\ \/ t \notin dir /\ node[t] = 0 /\ TargetGone(t)
          \/ /\ t \in dir
             /\ Goto(t, IF IsMounted(t) THEN "umount" ELSE "rmtree")
             /\ UNCHANGED <<dev, bcache, mnt>>
          \/ node[t] # 0 /\ Goto(t, "rmnode") /\ UNCHANGED <<dev, bcache, mnt>>
       /\ UNCHANGED <<vol, size, fs, data, num, dir, node, kubeletVars, holder, slips, faults>>

nodeUnpublishFilesystemVolume(t) ==
    /\ vol.kind # "host" /\ ~getBcacheDevice
    /\ \/ Unmount(t)
       \/ RemoveTarget(t, IF vol.kind = "raw" THEN "reply" ELSE "rmdev")
       \/ /\ At(t, "unpublish", "rmdev")
          /\ dev' = 0
          /\ Goto(t, "reply")
          /\ UNCHANGED <<vol, volumeVars, dir, node, mnt, kubeletVars, holder, slips, faults>>

nodeUnpublishBFileSystemCacheVolume(t) ==
    getBcacheDevice /\ (Unmount(t) \/ RemoveTarget(t, "unbcache") \/ DeleteBcache(t))

RemoveNode(t, next) ==
    /\ At(t, "unpublish", "rmnode")
    /\ node' = [node EXCEPT ![t] = 0]
    /\ Goto(t, next)
    /\ UNCHANGED <<vol, volumeVars, dev, dir, mnt, kubeletVars, holder, slips, faults>>

nodeUnpublishBlockVolume(t) == ~getBcacheDevice /\ RemoveNode(t, "reply")
nodeUnpublishBlockCacheVolume(t) == getBcacheDevice /\ RemoveNode(t, "unbcache")

\* CheckBindMountByInode fails if the target does not exist.
nodeUnpublishHostVolume(t) ==
    /\ vol.kind = "host"
    /\ \/ /\ At(t, "unpublish", "stat")
          /\ \/ t \notin dir /\ Return(t) /\ slips' = slips \cup {"refused"}
             \/ /\ t \in dir /\ UNCHANGED <<holder, slips>>
                /\ Goto(t, IF CheckBindMountByInode(t) THEN "umount" ELSE "rmtree")
          /\ UNCHANGED <<vol, volumeVars, nodeVars, kubeletVars, faults>>
       \/ Unmount(t) \/ RemoveTarget(t, "reply")

Unpublish(t) ==
    \/ NodeUnpublishVolume(t)
    \/ nodeUnpublishFilesystemVolume(t) \/ nodeUnpublishBFileSystemCacheVolume(t)
    \/ nodeUnpublishBlockVolume(t) \/ nodeUnpublishBlockCacheVolume(t)
    \/ nodeUnpublishHostVolume(t)
-----------------------------------------------------------------------------
(* NodeExpandVolume                                                        *)

\* ResizeFs.Resize on the device file.  GetDiskFormat takes a missing file
\* for a blank device, which needs no resizing.  The backend of a bcache
\* volume has the unsupported format "bcache".
Resize(t) ==
    \/ /\ vol.kind = "raw" \/ (vol.kind = "lvm" /\ dev # 0)
       /\ fs' = size /\ Goto(t, "reply") /\ UNCHANGED <<holder, slips>>
    \/ /\ vol.kind \in {"lvm", "bcache"} /\ dev = 0
       /\ slips' = slips \cup {"blind"}
       /\ Goto(t, "reply") /\ UNCHANGED <<fs, holder>>
    \/ /\ vol.kind = "bcache" /\ dev # 0
       /\ Return(t) /\ UNCHANGED <<fs, slips>>

\* Mutant: the filesystem is left to the next mount.
NodeExpandVolume_NoResize(t) ==
    /\ At(t, "expand", "device")
    /\ createDeviceIfNeeded
    /\ Goto(t, "reply")
    /\ UNCHANGED <<vol, volumeVars, dir, node, mnt, kubeletVars, holder, slips, faults>>

\* The device file is made before the lock is taken.
NodeExpandVolume(t) ==
    \/ /\ At(t, "expand", "device")
       /\ IF vol.mode = "fs" /\ vol.kind \in {"lvm", "bcache"} THEN createDeviceIfNeeded
          ELSE UNCHANGED dev
       /\ Goto(t, IF vol.mode = "block" \/ vol.kind = "host" THEN "reply" ELSE "lock")
       /\ UNCHANGED <<vol, volumeVars, dir, node, mnt, kubeletVars, holder, slips, faults>>
    \/ /\ At(t, "expand", "lock") /\ holder = None
       /\ holder' = t
       /\ Goto(t, "resize")
       /\ UNCHANGED <<vol, volumeVars, nodeVars, kubeletVars, slips, faults>>
    \/ /\ At(t, "expand", "resize")
       /\ Resize(t)
       /\ UNCHANGED <<vol, size, data, num, bcache, nodeVars, kubeletVars, faults>>
-----------------------------------------------------------------------------
(* kubelet, pods and the controller side                                   *)

\* A pod comes to the node.  A bcache volume serves one pod at a time: the
\* code removes the device when the first of two pods is unpublished.
PodStart(t) ==
    /\ need[t] = "none" /\ pods < MaxPods
    /\ vol.kind = "bcache" => \A u \in Targets : need[u] = "none"
    /\ need' = [need EXCEPT ![t] = "publish"] /\ pods' = pods + 1
    /\ UNCHANGED <<vol, volumeVars, nodeVars, grown, call, holder, slips, faults>>

\* A pod goes.  kubelet unpublishes what it has tried to publish.
PodStop(t) ==
    /\ need[t] \in {"publish", "tried", "published"} /\ call[t] = Idle
    /\ need' = [need EXCEPT ![t] = IF @ = "publish" THEN "none" ELSE "unpublish"]
    /\ UNCHANGED <<vol, volumeVars, nodeVars, grown, pods, call, holder, slips, faults>>

PodWrites(t) ==
    /\ need[t] = "published" /\ vol.mode = "fs" /\ data = "none"
    /\ data' = "written"
    /\ bcache' = IF vol.kind = "bcache" THEN [bcache EXCEPT !.dirty = TRUE] ELSE bcache
    /\ UNCHANGED <<vol, size, fs, num, nodeVars, kubeletVars, call, holder, slips, faults>>

\* The local volume was enlarged, the filesystem is to follow.
Grow ==
    /\ size = 1 /\ vol.kind # "host"
    /\ size' = 2 /\ grown' = "asked"
    /\ UNCHANGED <<vol, fs, data, num, bcache, nodeVars, need, pods, call, holder, slips, faults>>

\* kubelet makes the call that is due.
Call(t) ==
    /\ call[t] = Idle
    /\ \/ /\ need[t] \in {"publish", "tried"}
          /\ need' = [need EXCEPT ![t] = "tried"]
          /\ call' = [call EXCEPT ![t] = [op |-> "publish", pc |-> "lock"]]
       \/ /\ need[t] = "unpublish"
          /\ call' = [call EXCEPT ![t] = [op |-> "unpublish", pc |-> "lock"]]
          /\ UNCHANGED need
       \/ /\ need[t] = "published" /\ grown = "asked"
          /\ call' = [call EXCEPT ![t] = [op |-> "expand", pc |-> "device"]]
          /\ UNCHANGED need
    /\ UNCHANGED <<vol, volumeVars, nodeVars, grown, pods, holder, slips, faults>>

\* The call returns OK.
Reply(t) ==
    /\ call[t].pc = "reply"
    /\ need' = [need EXCEPT ![t] = CASE call[t].op = "publish" -> "published"
                                     [] call[t].op = "unpublish" -> "none"
                                     [] OTHER -> @]
    /\ grown' = IF call[t].op = "expand" THEN "done" ELSE grown
    /\ Return(t)
    /\ UNCHANGED <<vol, volumeVars, nodeVars, pods, slips, faults>>

Fault == faults < MaxFaults /\ faults' = faults + 1

\* A step fails, or the answer is lost.
Fail(t) ==
    /\ call[t] # Idle /\ Fault
    /\ Return(t)
    /\ UNCHANGED <<vol, volumeVars, nodeVars, kubeletVars, slips>>

\* kubelet restarts and publishes again what it finds mounted.
KubeletRestart(t) ==
    /\ need[t] = "published" /\ call[t] = Idle /\ Fault
    /\ need' = [need EXCEPT ![t] = "tried"]
    /\ UNCHANGED <<vol, volumeVars, nodeVars, grown, pods, call, holder, slips>>

\* carina-node restarts: calls and locks are gone.
Crash ==
    /\ Fault
    /\ call' = [t \in Targets |-> Idle] /\ holder' = None
    /\ UNCHANGED <<vol, volumeVars, nodeVars, kubeletVars, slips>>

\* The node reboots: mounts and device files are gone, targets remain, the
\* volume may get another number, and udev may start a bcache device.
Reboot ==
    /\ Fault
    /\ call' = [t \in Targets |-> Idle] /\ holder' = None
    /\ mnt' = [t \in Targets |-> 0] /\ dev' = 0
    /\ num' \in Numbers
    /\ \E on \in {FALSE, bcache.sb} : bcache' = [bcache EXCEPT !.on = on]
    /\ need' = [t \in Targets |-> IF need[t] = "published" THEN "tried" ELSE need[t]]
    /\ UNCHANGED <<vol, size, fs, data, dir, node, grown, pods, slips>>

\* The unused volume is deactivated and activated under another number.
Reactivate ==
    /\ Fault
    /\ ~bcache.on
    /\ \A t \in Targets : call[t] = Idle /\ mnt[t] = 0 /\ need[t] # "published"
    /\ num' \in Numbers \ {num}
    /\ UNCHANGED <<vol, size, fs, data, bcache, nodeVars, kubeletVars, call, holder, slips>>

Serve(t) ==
    Call(t) \/ Aborted(t) \/ Publish(t) \/ Unpublish(t) \/ NodeExpandVolume(t) \/ Reply(t)

Next ==
    \/ \E t \in Targets : \/ Serve(t) \/ PodStart(t) \/ PodStop(t) \/ PodWrites(t)
                          \/ Fail(t) \/ KubeletRestart(t)
    \/ Grow \/ Crash \/ Reboot \/ Reactivate

\* kubelet repeats its calls and the steps of a call are taken.
Spec == Init /\ [][Next]_vars
FairSpec == Spec /\ \A t \in Targets : WF_vars(Serve(t))
-----------------------------------------------------------------------------
(* Properties                                                              *)

\* Type invariant.
TypeOK ==
    /\ vol \in [kind : Kinds, mode : {"fs", "block"}]
    /\ size \in 1..2 /\ fs \in 0..size /\ data \in {"none", "written", "lost"}
    /\ num \in Numbers /\ bcache \in [sb : BOOLEAN, on : BOOLEAN, dirty : BOOLEAN]
    /\ dev \in Numbers \cup {0} /\ dir \subseteq Targets
    /\ node \in [Targets -> Numbers \cup {0}] /\ mnt \in [Targets -> Numbers \cup {0}]
    /\ need \in [Targets -> {"none", "publish", "tried", "published", "unpublish"}]
    /\ grown \in {"no", "asked", "done"} /\ holder \in Targets \cup {None}
    /\ slips \subseteq {"rewiped", "blind", "refused"}
    /\ call \in [Targets -> Calls] /\ pods \in 0..MaxPods /\ faults \in 0..MaxFaults

\* What a pod sees at its target is the volume: NodePublishVolume answers OK
\* only then, and nothing done for another pod, no repeated call and no
\* change of device numbers takes it away.
PublishTrue ==
    \A t \in Targets : need[t] = "published" =>
        IF vol.mode = "fs" THEN t \in dir /\ mnt[t] = num ELSE node[t] = num

\* The data of the pods survives publishing and unpublishing at any number
\* of targets, with errors, restarts and reboots between any two steps: no
\* format of a volume that has a filesystem, no os.RemoveAll through a
\* mount.  The exception is a bcache volume that is published again while
\* its device runs or its cache is dirty.
DataKept == data = "lost" => "rewiped" \in slips

\* When no pod needs the volume any more, no mount, no target and no device
\* file is left, whatever was cut short before.  (NodeExpandVolume leaves
\* the device file of a bcache volume.)
UnusedClean ==
    (\A t \in Targets : need[t] = "none") =>
        /\ dir = {} /\ (vol.kind # "bcache" => dev = 0)
        /\ \A t \in Targets : mnt[t] = 0 /\ node[t] = 0

\* NodeExpandVolume answers OK for a filesystem only when it is as large as
\* its volume, unless another pod's unpublish removed the device file
\* between the check of the file and the lock.
ExpandTrue ==
    grown = "done" /\ vol.mode = "fs" /\ fs > 0 /\ "blind" \notin slips => fs = size

\* A pod gets its volume or goes, and a pod that goes has its volume unpublished
\* in the end, whatever fails on the way.  The exceptions are calls that fail
\* whenever they are repeated: making a bcache device that runs, and
\* unpublishing a host volume whose target is gone.
CallsServed ==
    \A t \in Targets :
        /\ need[t] \in {"publish", "tried"} ~> \/ need[t] \notin {"publish", "tried"}
                                             \/ slips \cap {"rewiped", "refused"} # {}
        /\ need[t] = "unpublish" ~> need[t] = "none" \/ slips \cap {"rewiped", "refused"} # {}
=============================================================================
