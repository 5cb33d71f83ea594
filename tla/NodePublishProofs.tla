-------------------------- MODULE NodePublishProofs --------------------------
(***************************************************************************)
(* Proofs about NodePublish, for any number of pods and targets, of device *)
(* numbers and of faults between any two steps.                            *)
(*                                                                         *)
(* The invariant follows every call through its steps: what the lock of    *)
(* the volume protects, what a step may rely on that an earlier one, or    *)
(* an earlier call that was cut short, has left behind.                    *)
(***************************************************************************)
EXTENDS NodePublish, TLAPS

Rewiped == "rewiped" \in slips

\* Nothing of the volume is left at the target; the pod sees the volume there.
Clean(t) == t \notin dir /\ mnt[t] = 0 /\ node[t] = 0
Shown(t) == IF vol.mode = "fs" THEN t \in dir /\ mnt[t] = num ELSE node[t] = num

\* Steps that are taken under the lock.
Locked(t) ==
    /\ call[t].pc \notin {"idle", "lock"}
    /\ call[t].op = "expand" => call[t].pc = "resize"

\* kubelet makes the call that the pod needs.
NeedTrue(t) ==
    /\ call[t].op = "publish" => need[t] = "tried"
    /\ call[t].op = "unpublish" => need[t] = "unpublish"
    /\ call[t].op = "expand" => need[t] = "published" /\ size = 2 /\ vol.kind # "host"

\* What may be at a target.  Only a device with a filesystem is mounted.
PlaceTrue(t) ==
    /\ mnt[t] \in {0, num}
    /\ mnt[t] # 0 => /\ t \in dir /\ (vol.kind # "host" => fs > 0)
                     /\ vol.kind = "bcache" => bcache.sb \/ Rewiped
    /\ IF vol.mode = "fs" THEN node[t] = 0 ELSE t \notin dir
    /\ need[t] \in {"none", "publish"} => Clean(t)
    /\ need[t] = "published" => Shown(t)

\* What the steps of a call have done so far.
PublishSteps(t) ==
    call[t].op = "publish" =>
        /\ call[t].pc \in {"device", "check", "format", "mount", "chmod", "resize"} => vol.mode = "fs"
        /\ call[t].pc = "node" => vol.mode = "block"
        /\ call[t].pc \in {"check", "format", "mount"} =>
              (vol.kind = "lvm" => dev = num) /\ (vol.kind = "bcache" => bcache.sb \/ Rewiped)
        /\ call[t].pc = "register" => bcache.sb \/ Rewiped
        /\ call[t].pc \in {"format", "mount"} => t \in dir
        /\ call[t].pc = "mount" => vol.kind = "host" \/ fs > 0
        /\ call[t].pc \in {"chmod", "resize", "reply"} => Shown(t)
UnpublishSteps(t) ==
    call[t].op = "unpublish" =>
        /\ call[t].pc \in {"umount", "rmtree"} => t \in dir
        /\ call[t].pc = "rmtree" => mnt[t] = 0 \/ Rewiped
        /\ call[t].pc = "rmnode" => vol.mode = "block"
        /\ call[t].pc \in {"rmdev", "unbcache", "reply"} => Clean(t)
ExpandSteps(t) ==
    At(t, "expand", "reply") /\ vol.mode = "fs" => fs = size \/ "blind" \in slips

TargetTrue(t) ==
    /\ Locked(t) => holder = t
    /\ NeedTrue(t) /\ PlaceTrue(t) /\ PublishSteps(t) /\ UnpublishSteps(t) /\ ExpandSteps(t)

\* The target whose unpublish is still to remove the device file.
Keeps(t) == need[t] \in {"tried", "published", "unpublish"} /\ ~At(t, "unpublish", "reply")

VolumeTrue ==
    /\ vol.kind = "bcache" => \A t, u \in Targets : need[t] # "none" /\ need[u] # "none" => t = u
    /\ data # "none" /\ vol.kind # "host" => fs > 0
    /\ dev # 0 => vol.mode = "fs" /\ vol.kind \in {"lvm", "bcache"}
    /\ vol.kind = "lvm" /\ dev # 0 => \E t \in Targets : Keeps(t)
    /\ grown # "no" => size = 2 /\ vol.kind # "host"
    /\ DataKept /\ ExpandTrue

IInv == TypeOK /\ VolumeTrue /\ \A t \in Targets : TargetTrue(t)
USE NodePublishAssumption

\* A step for one target leaves the others alone and takes nothing from the
\* volume that they rely on.
VolumeFrame(t) ==
    /\ UNCHANGED <<vol, size, num>>
    /\ fs' \in {fs, size} /\ slips \subseteq slips'
    /\ bcache.sb \/ Rewiped => bcache'.sb \/ Rewiped'
    /\ dev' \in {dev, num} \/ holder = t
Same(u) ==
    /\ node'[u] = node[u] /\ need'[u] = need[u] /\ mnt'[u] = mnt[u]
    /\ u \in dir' <=> u \in dir
Frame(t) ==
    /\ VolumeFrame(t)
    /\ \A u \in Targets \ {t} : Same(u) /\ call'[u] = call[u] /\ (holder = u => holder' = u)

LEMMA FilesystemStays ==
    ASSUME IInv, NEW t, VolumeFrame(t)
    PROVE  fs > 0 => fs' > 0
  BY DEF IInv, TypeOK, VolumeFrame

LEMMA PlaceKept ==
    ASSUME IInv, NEW t, VolumeFrame(t), NEW u \in Targets, Same(u)
    PROVE  PlaceTrue(u)' /\ (Shown(u) => Shown(u)') /\ (Clean(u) => Clean(u)')
  <1>1. PlaceTrue(u) /\ UNCHANGED <<vol, num>>
    BY Zenon DEF IInv, TargetTrue, VolumeFrame
  <1>2. (Shown(u) => Shown(u)') /\ (Clean(u) => Clean(u)')
    BY <1>1, Zenon DEF Shown, Clean, Same
  <1> QED BY <1>1, <1>2, FilesystemStays, Zenon DEF PlaceTrue, Same, VolumeFrame

LEMMA OtherTarget ==
    ASSUME IInv, NEW t \in Targets, Frame(t), NEW u \in Targets \ {t}
    PROVE  TargetTrue(u)'
  <1>1. TargetTrue(u) /\ call'[u] = call[u] /\ Same(u) /\ VolumeFrame(t)
    BY Zenon DEF IInv, Frame
  <1>2. /\ PlaceTrue(u)' /\ (Shown(u) => Shown(u)') /\ (Clean(u) => Clean(u)')
        /\ fs > 0 => fs' > 0
    BY <1>1, PlaceKept, FilesystemStays, Zenon
  <1>3. Locked(u) => holder' = u /\ dev' \in {dev, num}
    BY <1>1, Zenon DEF Frame, TargetTrue, VolumeFrame
  <1>4. (Locked(u)' => holder' = u) /\ NeedTrue(u)'
    BY <1>1, <1>3, Zenon DEF Locked, TargetTrue, NeedTrue, VolumeFrame, Same
  <1>5. PublishSteps(u)'
    <2> SUFFICES ASSUME call[u].op = "publish" PROVE PublishSteps(u)'
      BY <1>1, Zenon DEF PublishSteps
    <2>1. call[u].pc \in {"check", "format", "mount"} => dev' \in {dev, num}
      BY <1>3, Zenon DEF Locked
    <2> QED BY <1>1, <1>2, <2>1, Zenon DEF PublishSteps, TargetTrue, VolumeFrame, Same
  <1>6. UnpublishSteps(u)'
    BY <1>1, <1>2, Zenon DEF UnpublishSteps, TargetTrue, VolumeFrame, Same, Rewiped
  <1>7. ExpandSteps(u)'
    BY <1>1, Zenon DEF ExpandSteps, At, TargetTrue, VolumeFrame
  <1> QED BY <1>2, <1>4, <1>5, <1>6, <1>7, Zenon DEF TargetTrue

LEMMA Step ==
    ASSUME IInv, NEW t \in Targets, Frame(t), TypeOK', VolumeTrue', TargetTrue(t)'
    PROVE  IInv'
  BY OtherTarget, Zenon DEF IInv

\* What a step for one target may do with the volume.
LEMMA VolumeKept ==
    ASSUME IInv, NEW t \in Targets, Frame(t), TypeOK',
           \/ data' = data \/ (data' = Ruined /\ (data = "written" => Rewiped'))
           \/ data' = "written" /\ (vol.kind # "host" => fs > 0),
           \/ dev' \in {0, dev}
           \/ dev' = num /\ vol.mode = "fs" /\ vol.kind \in {"lvm", "bcache"} /\ Keeps(t)',
           Keeps(t) /\ dev' # 0 /\ vol.kind = "lvm" => Keeps(t)',
           need'[t] # "none" =>
               need[t] # "none" \/ vol.kind # "bcache" \/ \A u \in Targets : need[u] = "none",
           \/ grown' = grown
           \/ /\ size = 2 /\ vol.kind # "host" /\ fs' = fs
              /\ vol.mode = "fs" => fs = size \/ "blind" \in slips
    PROVE  VolumeTrue'
  <1>1. UNCHANGED <<vol, size, num>> /\ (fs > 0 => fs' > 0)
    BY FilesystemStays, Zenon DEF Frame, VolumeFrame
  <1>2. \A u \in Targets \ {t} : need'[u] = need[u] /\ call'[u] = call[u]
    BY Zenon DEF Frame, Same
  <1>3. vol.kind = "bcache" => \A u, w \in Targets : need'[u] # "none" /\ need'[w] # "none" => u = w
    BY <1>2 DEF IInv, VolumeTrue
  <1>4. data' # "none" /\ vol.kind # "host" => fs' > 0
    BY <1>1, Zenon DEF IInv, VolumeTrue, Ruined
  <1>5. dev' # 0 => vol.mode = "fs" /\ vol.kind \in {"lvm", "bcache"}
    BY Zenon DEF IInv, VolumeTrue
  <1>6. vol.kind = "lvm" /\ dev' # 0 => \E u \in Targets : Keeps(u)'
    <2>1. \A u \in Targets \ {t} : Keeps(u) => Keeps(u)'
      BY <1>2, Zenon DEF Keeps, At
    <2> QED BY <2>1, Zenon DEF IInv, VolumeTrue
  <1>7. DataKept'
    <2>1. Rewiped => Rewiped'
      BY Zenon DEF Frame, VolumeFrame, Rewiped
    <2> QED BY <2>1, Zenon DEF IInv, VolumeTrue, DataKept, Ruined, Rewiped, TypeOK
  <1>8. (grown' # "no" => size = 2 /\ vol.kind # "host") /\ ExpandTrue'
    BY <1>1, Zenon DEF IInv, VolumeTrue, ExpandTrue, Frame, VolumeFrame
  <1> QED BY <1>1, <1>3, <1>4, <1>5, <1>6, <1>7, <1>8, Zenon DEF VolumeTrue

\* kubelet's call for a target is at a step of publish, unpublish or expand.
LEMMA InPublish ==
    ASSUME NEW t \in Targets, call'[t].op = "publish", need'[t] = "tried",
           holder' = t \/ call'[t].pc = "lock", PlaceTrue(t)', PublishSteps(t)'
    PROVE  TargetTrue(t)'
  BY DEF TargetTrue, Locked, NeedTrue, UnpublishSteps, ExpandSteps, At

LEMMA InUnpublish ==
    ASSUME NEW t \in Targets, call'[t].op = "unpublish", need'[t] = "unpublish",
           holder' = t \/ call'[t].pc = "lock", PlaceTrue(t)', UnpublishSteps(t)'
    PROVE  TargetTrue(t)'
  BY DEF TargetTrue, Locked, NeedTrue, PublishSteps, ExpandSteps, At

LEMMA InExpand ==
    ASSUME NEW t \in Targets, call'[t].op = "expand", need'[t] = "published", (size = 2)',
           vol'.kind # "host", holder' = t \/ call'[t].pc # "resize", PlaceTrue(t)', ExpandSteps(t)'
    PROVE  TargetTrue(t)'
  BY Zenon DEF TargetTrue, Locked, NeedTrue, PublishSteps, UnpublishSteps

LEMMA InNone ==
    ASSUME NEW t \in Targets, call'[t] = Idle, PlaceTrue(t)'
    PROVE  TargetTrue(t)'
  BY DEF TargetTrue, Locked, NeedTrue, PublishSteps, UnpublishSteps, ExpandSteps, At, Idle

LEMMA Goes ==
    ASSUME IInv, NEW t \in Targets, NEW op, NEW pc, NEW next, At(t, op, pc), Goto(t, next),
           [op |-> op, pc |-> next] \in Calls
    PROVE  /\ call' \in [Targets -> Calls] /\ call'[t] = [op |-> op, pc |-> next]
           /\ \A u \in Targets \ {t} : call'[u] = call[u]
  <1>1. call' = [call EXCEPT ![t] = [op |-> op, pc |-> next]]
    <2>1. call' = [call EXCEPT ![t] = [call[t] EXCEPT !.pc = next]]
      BY Zenon DEF Goto
    <2>2. [call[t] EXCEPT !.pc = next] = [op |-> op, pc |-> next]
      BY DEF At
    <2> QED BY <2>1, <2>2, Zenon
  <1> QED BY <1>1, Zenon DEF IInv, TypeOK

LEMMA Returns ==
    ASSUME IInv, NEW t \in Targets, Return(t)
    PROVE  /\ call' \in [Targets -> Calls] /\ call'[t] = Idle
           /\ \A u \in Targets \ {t} : call'[u] = call[u] /\ (holder = u => holder' = u)
           /\ holder' \in Targets \cup {None}
  BY Zenon DEF Return, IInv, TypeOK, Calls

\* A step that only moves a call.
CallFrame(t) ==
    /\ UNCHANGED <<vol, volumeVars, nodeVars, kubeletVars>>
    /\ slips \subseteq slips' /\ slips' \subseteq {"rewiped", "blind", "refused"}
    /\ faults' \in 0..MaxFaults
    /\ call' \in [Targets -> Calls] /\ holder' \in Targets \cup {None}
    /\ \A u \in Targets \ {t} : call'[u] = call[u] /\ (holder = u => holder' = u)

LEMMA CallStep ==
    ASSUME IInv, NEW t \in Targets, CallFrame(t), Keeps(t) /\ vol.kind = "lvm" /\ dev # 0 => Keeps(t)'
    PROVE  /\ PlaceTrue(t)' /\ (Shown(t) => Shown(t)') /\ (Clean(t) => Clean(t)')
           /\ TargetTrue(t)' => IInv'
  <1>1. Frame(t) /\ Same(t)
    BY Zenon DEF CallFrame, Frame, VolumeFrame, Same, volumeVars, nodeVars, kubeletVars, Rewiped
  <1>2. TypeOK'
    BY Zenon DEF CallFrame, volumeVars, nodeVars, kubeletVars, IInv, TypeOK
  <1>3. VolumeTrue'
    BY <1>1, <1>2, VolumeKept, Zenon DEF CallFrame, volumeVars, nodeVars, kubeletVars
  <1>4. PlaceTrue(t)' /\ (Shown(t) => Shown(t)') /\ (Clean(t) => Clean(t)')
    BY <1>1, PlaceKept, Zenon DEF Frame
  <1> QED BY <1>1, <1>2, <1>3, <1>4, Step, Zenon

LEMMA ReturnStep ==
    ASSUME IInv, NEW t \in Targets, Return(t), UNCHANGED <<vol, volumeVars, nodeVars, kubeletVars>>,
           slips \subseteq slips', slips' \subseteq {"rewiped", "blind", "refused"},
           faults' \in 0..MaxFaults
    PROVE  IInv'
  <1>1. CallFrame(t) /\ call'[t] = Idle
    BY Returns, Zenon DEF CallFrame
  <1>2. Keeps(t) => Keeps(t)'
    BY <1>1 DEF Keeps, At, Idle, CallFrame, kubeletVars
  <1> QED BY <1>1, <1>2, CallStep, InNone, Zenon

LEMMA EndStep == ASSUME IInv, NEW t \in Targets, Aborted(t) \/ Fail(t) PROVE IInv'
  <1>1. slips \subseteq {"rewiped", "blind", "refused"} /\ faults \in 0..MaxFaults
    BY Zenon DEF IInv, TypeOK
  <1>2. CASE Aborted(t)
    BY <1>1, <1>2, ReturnStep, Zenon DEF Aborted
  <1>3. CASE Fail(t)
    <2>1. faults' \in 0..MaxFaults
      BY <1>1, <1>3 DEF Fail, Fault
    <2> QED BY <1>1, <1>3, <2>1, ReturnStep, Zenon DEF Fail
  <1> QED BY <1>2, <1>3, Zenon

\* A step to the next place in the code, which changes nothing else.
LEMMA GotoStep ==
    ASSUME IInv, NEW t \in Targets, NEW op, NEW pc, NEW next, At(t, op, pc), Goto(t, next),
           [op |-> op, pc |-> next] \in Calls, op # "unpublish" \/ next # "reply",
           holder' = holder \/ (holder = None /\ holder' = t),
           UNCHANGED <<vol, volumeVars, nodeVars, kubeletVars, slips, faults>>
    PROVE  /\ call'[t] = [op |-> op, pc |-> next] /\ call'[t].op = op /\ call'[t].pc = next
           /\ call[t].op = op /\ call[t].pc = pc /\ TargetTrue(t) /\ need'[t] = need[t]
           /\ PlaceTrue(t)' /\ (Shown(t) => Shown(t)') /\ (Clean(t) => Clean(t)')
           /\ TargetTrue(t)' => IInv'
  <1>1. /\ call' \in [Targets -> Calls] /\ call'[t] = [op |-> op, pc |-> next]
        /\ \A u \in Targets \ {t} : call'[u] = call[u]
    BY Goes, Zenon
  <1>2. CallFrame(t)
    BY <1>1 DEF CallFrame, IInv, TypeOK
  <1>3. call'[t].op = op /\ call'[t].pc = next /\ call[t].op = op /\ call[t].pc = pc
    BY <1>1 DEF At
  <1>4. Keeps(t) => Keeps(t)' /\ need'[t] = need[t]
    <2>1. ~At(t, "unpublish", "reply")'
      BY <1>3 DEF At
    <2> QED BY <2>1, Zenon DEF Keeps, kubeletVars
  <1>5. need'[t] = need[t] /\ TargetTrue(t)
    BY Zenon DEF kubeletVars, IInv
  <1> QED BY <1>1, <1>2, <1>3, <1>4, <1>5, CallStep, Zenon

LEMMA LockStep == ASSUME IInv, NEW t \in Targets, NodePublishVolume(t) PROVE IInv'
  <1> DEFINE next == IF vol.kind = "bcache" THEN "make"
                     ELSE IF vol.mode = "block" THEN "node" ELSE "device"
  <1>1. /\ At(t, "publish", "lock") /\ holder = None /\ holder' = t /\ Goto(t, next)
        /\ UNCHANGED <<vol, volumeVars, nodeVars, kubeletVars, slips, faults>>
    BY Zenon DEF NodePublishVolume
  <1>2. [op |-> "publish", pc |-> next] \in Calls /\ next \in {"make", "node", "device"}
    BY Zenon DEF Calls
  <1>3. (next = "node" => vol.mode = "block") /\ (next = "device" => vol.mode = "fs")
    BY Zenon DEF IInv, TypeOK
  <1> HIDE DEF next
  <1>4. /\ call'[t].op = "publish" /\ call'[t].pc = next /\ call[t].op = "publish" /\ TargetTrue(t)
        /\ need'[t] = need[t] /\ PlaceTrue(t)' /\ (TargetTrue(t)' => IInv')
    BY <1>1, <1>2, GotoStep
  <1>5. need'[t] = "tried"
    BY <1>4, Zenon DEF TargetTrue, NeedTrue
  <1>6. PublishSteps(t)'
    BY <1>1, <1>2, <1>3, <1>4, Zenon DEF PublishSteps
  <1> QED BY <1>1, <1>4, <1>5, <1>6, InPublish, Zenon

\* A step of a publish that only moves the call.
LEMMA PublishGoto ==
    ASSUME IInv, NEW t \in Targets, NEW pc, NEW next, At(t, "publish", pc), Goto(t, next),
           pc \notin {"idle", "lock"}, [op |-> "publish", pc |-> next] \in Calls,
           UNCHANGED <<vol, volumeVars, nodeVars, kubeletVars, holder, slips, faults>>
    PROVE  /\ call[t].op = "publish" /\ call[t].pc = pc /\ call'[t].op = "publish" /\ call'[t].pc = next
           /\ PublishSteps(t) /\ PlaceTrue(t)' /\ (Shown(t) => Shown(t)')
           /\ PublishSteps(t)' => IInv'
  <1>1. /\ call'[t].op = "publish" /\ call'[t].pc = next /\ call[t].op = "publish" /\ call[t].pc = pc
        /\ TargetTrue(t) /\ need'[t] = need[t] /\ PlaceTrue(t)' /\ (Shown(t) => Shown(t)')
        /\ TargetTrue(t)' => IInv'
    BY GotoStep
  <1>2. need'[t] = "tried" /\ holder' = t /\ PublishSteps(t)
    BY <1>1, Zenon DEF TargetTrue, NeedTrue, Locked
  <1> QED BY <1>1, <1>2, InPublish, Zenon

LEMMA ChmodStep == ASSUME IInv, NEW t \in Targets, Chmod(t) PROVE IInv'
  <1> DEFINE next == IF vol.kind = "bcache" THEN "resize" ELSE "reply"
  <1>1. [op |-> "publish", pc |-> next] \in Calls /\ next \in {"resize", "reply"}
    BY Zenon DEF Calls
  <1>2. /\ At(t, "publish", "chmod") /\ Goto(t, next)
        /\ UNCHANGED <<vol, volumeVars, nodeVars, kubeletVars, holder, slips, faults>>
    BY Zenon DEF Chmod
  <1> HIDE DEF next
  <1>3. /\ call[t].op = "publish" /\ call[t].pc = "chmod" /\ call'[t].pc = next
        /\ PublishSteps(t) /\ (Shown(t) => Shown(t)') /\ (PublishSteps(t)' => IInv')
    BY <1>1, <1>2, PublishGoto
  <1>4. Shown(t)' /\ vol'.mode = "fs"
    BY <1>2, <1>3, Zenon DEF PublishSteps
  <1> QED BY <1>1, <1>3, <1>4, Zenon DEF PublishSteps

LEMMA DeviceStep ==
    ASSUME IInv, NEW t \in Targets, vol.kind \in {"raw", "host"}, At(t, "publish", "device"),
           Goto(t, "check"),
           UNCHANGED <<vol, volumeVars, nodeVars, kubeletVars, holder, slips, faults>>
    PROVE  IInv'
  <1>1. [op |-> "publish", pc |-> "check"] \in Calls
    BY Zenon DEF Calls
  <1>2. /\ call[t].op = "publish" /\ call[t].pc = "device" /\ call'[t].pc = "check"
        /\ PublishSteps(t) /\ (PublishSteps(t)' => IInv')
    BY <1>1, PublishGoto
  <1>3. vol'.mode = "fs" /\ vol'.kind \notin {"lvm", "bcache"}
    BY <1>2, Zenon DEF PublishSteps
  <1> QED BY <1>2, <1>3, Zenon DEF PublishSteps

\* A step that works at one target, or on the volume for it.
LocalStep(t) ==
    /\ UNCHANGED <<vol, size, num, need, grown, pods, faults>>
    /\ fs' \in {fs, size} /\ slips \subseteq slips' /\ slips' \subseteq {"rewiped", "blind", "refused"}
    /\ bcache' \in [sb : BOOLEAN, on : BOOLEAN, dirty : BOOLEAN]
    /\ bcache.sb \/ Rewiped => bcache'.sb \/ Rewiped'
    /\ data' = data \/ (data' = Ruined /\ (data = "written" => Rewiped'))
    /\ \/ dev' \in {0, dev}
       \/ dev' = num /\ vol.mode = "fs" /\ vol.kind \in {"lvm", "bcache"} /\ Keeps(t)'
    /\ dev' \in {dev, num} \/ holder = t
    /\ dir' \subseteq Targets
    /\ node' \in [Targets -> Numbers \cup {0}] /\ mnt' \in [Targets -> Numbers \cup {0}]
    /\ call' \in [Targets -> Calls] /\ holder' \in Targets \cup {None}
    /\ \A u \in Targets \ {t} :
          /\ call'[u] = call[u] /\ node'[u] = node[u] /\ mnt'[u] = mnt[u] /\ (u \in dir' <=> u \in dir)
          /\ holder = u => holder' = u

LEMMA LocalIInv ==
    ASSUME IInv, NEW t \in Targets, LocalStep(t), Keeps(t) /\ dev' # 0 /\ vol.kind = "lvm" => Keeps(t)',
           TargetTrue(t)'
    PROVE  IInv'
  <1>1. Frame(t)
    BY Zenon DEF LocalStep, Frame, VolumeFrame, Same
  <1>2. TypeOK'
    <2>1. fs' \in 0..size /\ data' \in {"none", "written", "lost"} /\ dev' \in Numbers \cup {0}
      BY DEF LocalStep, IInv, TypeOK, Ruined
    <2> QED BY <2>1, Zenon DEF LocalStep, IInv, TypeOK
  <1>3. VolumeTrue'
    BY <1>1, <1>2, VolumeKept, Zenon DEF LocalStep
  <1> QED BY <1>1, <1>2, <1>3, Step, Zenon

\* A step of a publish, under the lock.
LEMMA PublishStep ==
    ASSUME IInv, NEW t \in Targets, NEW pc, NEW next, At(t, "publish", pc), Goto(t, next),
           pc \notin {"idle", "lock"}, [op |-> "publish", pc |-> next] \in Calls, UNCHANGED <<need, holder>>
    PROVE  /\ call[t].op = "publish" /\ call[t].pc = pc /\ call'[t].op = "publish" /\ call'[t].pc = next
           /\ holder = t /\ PublishSteps(t) /\ PlaceTrue(t) /\ need'[t] = "tried" /\ Keeps(t)'
           /\ call' \in [Targets -> Calls] /\ holder' \in Targets \cup {None}
           /\ \A u \in Targets \ {t} : call'[u] = call[u] /\ (holder = u => holder' = u)
           /\ LocalStep(t) /\ PlaceTrue(t)' /\ PublishSteps(t)' => IInv'
  <1>1. /\ call' \in [Targets -> Calls] /\ call'[t] = [op |-> "publish", pc |-> next]
        /\ \A u \in Targets \ {t} : call'[u] = call[u]
    BY Goes, Zenon
  <1>2. /\ call[t].op = "publish" /\ call[t].pc = pc /\ call'[t].op = "publish" /\ call'[t].pc = next
    BY <1>1 DEF At
  <1>3. holder = t /\ holder' = t /\ PublishSteps(t) /\ PlaceTrue(t) /\ need'[t] = "tried"
    BY <1>2, Zenon DEF IInv, TargetTrue, NeedTrue, Locked
  <1>4. Keeps(t)'
    BY <1>2, <1>3 DEF Keeps, At
  <1>5. ASSUME LocalStep(t), PlaceTrue(t)', PublishSteps(t)' PROVE IInv'
    BY <1>2, <1>3, <1>4, <1>5, LocalIInv, InPublish, Zenon
  <1> QED BY <1>1, <1>2, <1>3, <1>4, <1>5, Zenon

LEMMA LvmDeviceStep ==
    ASSUME IInv, NEW t \in Targets, vol.kind = "lvm", At(t, "publish", "device"), createDeviceIfNeeded,
           Goto(t, "check"),
           UNCHANGED <<vol, volumeVars, dir, node, mnt, kubeletVars, holder, slips, faults>>
    PROVE  IInv'
  <1>1. [op |-> "publish", pc |-> "check"] \in Calls
    BY Zenon DEF Calls
  <1>2. /\ call[t].op = "publish" /\ call[t].pc = "device" /\ call'[t].op = "publish"
        /\ call'[t].pc = "check" /\ PublishSteps(t) /\ PlaceTrue(t) /\ Keeps(t)'
        /\ call' \in [Targets -> Calls] /\ holder' \in Targets \cup {None}
        /\ \A u \in Targets \ {t} : call'[u] = call[u] /\ (holder = u => holder' = u)
        /\ LocalStep(t) /\ PlaceTrue(t)' /\ PublishSteps(t)' => IInv'
    BY <1>1, PublishStep DEF kubeletVars
  <1>3. vol.mode = "fs" /\ dev' = num
    BY <1>2, Zenon DEF PublishSteps, createDeviceIfNeeded
  <1>4. LocalStep(t)
    BY <1>2, <1>3, Zenon DEF LocalStep, volumeVars, kubeletVars, IInv, TypeOK, Rewiped
  <1>5. PlaceTrue(t)'
    BY <1>2, Zenon DEF PlaceTrue, Shown, Clean, Rewiped, volumeVars, kubeletVars
  <1>6. PublishSteps(t)'
    BY <1>2, <1>3, Zenon DEF PublishSteps, volumeVars
  <1> QED BY <1>2, <1>4, <1>5, <1>6, Zenon

\* The mount is this volume's, or the target is made ready for one.
LEMMA MountIfNeededStep ==
    ASSUME IInv, NEW t \in Targets, NEW mounted \in BOOLEAN, MountIfNeeded(t, mounted),
           mounted => mnt[t] # 0
    PROVE  IInv'
  <1> DEFINE next == IF mounted THEN "reply" ELSE IF vol.kind = "host" THEN "mount" ELSE "format"
  <1>1. /\ [op |-> "publish", pc |-> next] \in Calls /\ next \in {"reply", "mount", "format"}
        /\ (next = "reply" => mounted) /\ (next = "mount" => vol.kind = "host")
    BY Zenon DEF Calls
  <1>2. /\ At(t, "publish", "check") /\ Goto(t, next) /\ dir' = dir \cup {t}
        /\ UNCHANGED <<vol, volumeVars, dev, node, mnt, kubeletVars, holder, slips, faults>>
    BY Zenon DEF MountIfNeeded
  <1> HIDE DEF next
  <1>3. /\ call[t].op = "publish" /\ call[t].pc = "check" /\ call'[t].op = "publish"
        /\ call'[t].pc = next /\ PublishSteps(t) /\ PlaceTrue(t) /\ need'[t] = "tried"
        /\ call' \in [Targets -> Calls] /\ holder' \in Targets \cup {None}
        /\ \A u \in Targets \ {t} : call'[u] = call[u] /\ (holder = u => holder' = u)
        /\ LocalStep(t) /\ PlaceTrue(t)' /\ PublishSteps(t)' => IInv'
    BY <1>1, <1>2, PublishStep DEF kubeletVars
  <1>4. vol.mode = "fs" /\ (vol.kind = "lvm" => dev = num) /\ (vol.kind = "bcache" => bcache.sb \/ Rewiped)
    BY <1>3, Zenon DEF PublishSteps
  <1>5. LocalStep(t)
    BY <1>2, <1>3 DEF LocalStep, volumeVars, kubeletVars, IInv, TypeOK, Rewiped
  <1>6. PlaceTrue(t)' /\ (mounted => Shown(t)')
    BY <1>2, <1>3, <1>4, Zenon DEF PlaceTrue, Shown, Rewiped, volumeVars
  <1>7. PublishSteps(t)'
    BY <1>1, <1>2, <1>3, <1>4, <1>6, Zenon DEF PublishSteps, volumeVars, Rewiped
  <1> QED BY <1>3, <1>5, <1>6, <1>7, Zenon

\* Only a blank volume is formatted, and it holds no data.
LEMMA FormatStep == ASSUME IInv, NEW t \in Targets, vol.kind # "host", Format(t) PROVE IInv'
  <1>1. [op |-> "publish", pc |-> "mount"] \in Calls
    BY Zenon DEF Calls
  <1>2. /\ At(t, "publish", "format") /\ Goto(t, "mount")
        /\ UNCHANGED <<vol, size, num, bcache, nodeVars, kubeletVars, holder, slips, faults>>
        /\ IF fs = 0 THEN fs' = size /\ data' = Ruined ELSE UNCHANGED <<fs, data>>
    BY Zenon DEF Format, DetectFilesystem
  <1>3. /\ call[t].op = "publish" /\ call[t].pc = "format" /\ call'[t].op = "publish"
        /\ call'[t].pc = "mount" /\ PublishSteps(t) /\ PlaceTrue(t) /\ need'[t] = "tried"
        /\ call' \in [Targets -> Calls] /\ holder' \in Targets \cup {None}
        /\ \A u \in Targets \ {t} : call'[u] = call[u] /\ (holder = u => holder' = u)
        /\ LocalStep(t) /\ PlaceTrue(t)' /\ PublishSteps(t)' => IInv'
    BY <1>1, <1>2, PublishStep DEF kubeletVars
  <1>4. data' = data /\ fs' \in {fs, size} /\ fs' > 0
    <2>1. fs = 0 => data = "none"
      BY DEF IInv, VolumeTrue
    <2> QED BY <1>2, <2>1 DEF Ruined, IInv, TypeOK
  <1>5. LocalStep(t)
    BY <1>2, <1>3, <1>4, Zenon DEF LocalStep, nodeVars, kubeletVars, IInv, TypeOK, Rewiped
  <1>6. PlaceTrue(t)'
    BY <1>2, <1>3, <1>4, Zenon DEF PlaceTrue, Rewiped, nodeVars
  <1>7. PublishSteps(t)'
    BY <1>2, <1>3, <1>4, Zenon DEF PublishSteps, nodeVars, Rewiped
  <1> QED BY <1>3, <1>5, <1>6, <1>7, Zenon

LEMMA MountStep == ASSUME IInv, NEW t \in Targets, Mount(t) PROVE IInv'
  <1> DEFINE next == IF vol.kind = "host" THEN "reply" ELSE "chmod"
  <1>1. [op |-> "publish", pc |-> next] \in Calls /\ next \in {"reply", "chmod"}
    BY Zenon DEF Calls
  <1>2. /\ At(t, "publish", "mount") /\ Goto(t, next) /\ mnt' = [mnt EXCEPT ![t] = Mounting]
        /\ UNCHANGED <<vol, volumeVars, dev, dir, node, kubeletVars, holder, slips, faults>>
    BY Zenon DEF Mount
  <1> HIDE DEF next
  <1>3. /\ call[t].op = "publish" /\ call[t].pc = "mount" /\ call'[t].op = "publish"
        /\ call'[t].pc = next /\ PublishSteps(t) /\ PlaceTrue(t) /\ need'[t] = "tried"
        /\ call' \in [Targets -> Calls] /\ holder' \in Targets \cup {None}
        /\ \A u \in Targets \ {t} : call'[u] = call[u] /\ (holder = u => holder' = u)
        /\ LocalStep(t) /\ PlaceTrue(t)' /\ PublishSteps(t)' => IInv'
    BY <1>1, <1>2, PublishStep DEF kubeletVars
  <1>4. /\ Mounting = num /\ vol.mode = "fs" /\ t \in dir /\ (vol.kind # "host" => fs > 0)
        /\ vol.kind = "bcache" => bcache.sb \/ Rewiped
    BY <1>3, Zenon DEF PublishSteps, Mounting
  <1>5. /\ mnt' \in [Targets -> Numbers \cup {0}] /\ mnt'[t] = num
        /\ \A u \in Targets \ {t} : mnt'[u] = mnt[u]
    BY <1>2, <1>4, Zenon DEF IInv, TypeOK
  <1>6. LocalStep(t)
    BY <1>2, <1>3, <1>5, Zenon DEF LocalStep, volumeVars, kubeletVars, IInv, TypeOK, Rewiped
  <1>7. PlaceTrue(t)' /\ Shown(t)'
    BY <1>2, <1>3, <1>4, <1>5, Zenon DEF PlaceTrue, Shown, Rewiped, volumeVars
  <1>8. PublishSteps(t)'
    BY <1>1, <1>2, <1>3, <1>4, <1>7, Zenon DEF PublishSteps
  <1> QED BY <1>3, <1>6, <1>7, <1>8, Zenon

LEMMA MakeNodeStep == ASSUME IInv, NEW t \in Targets, MakeNode(t) PROVE IInv'
  <1>1. [op |-> "publish", pc |-> "reply"] \in Calls
    BY Zenon DEF Calls
  <1>2. /\ At(t, "publish", "node") /\ Goto(t, "reply") /\ node' = [node EXCEPT ![t] = num]
        /\ UNCHANGED <<vol, volumeVars, dev, dir, mnt, kubeletVars, holder, slips, faults>>
    BY Zenon DEF MakeNode
  <1>3. /\ call[t].op = "publish" /\ call[t].pc = "node" /\ call'[t].op = "publish"
        /\ call'[t].pc = "reply" /\ PublishSteps(t) /\ PlaceTrue(t) /\ need'[t] = "tried"
        /\ call' \in [Targets -> Calls] /\ holder' \in Targets \cup {None}
        /\ \A u \in Targets \ {t} : call'[u] = call[u] /\ (holder = u => holder' = u)
        /\ LocalStep(t) /\ PlaceTrue(t)' /\ PublishSteps(t)' => IInv'
    BY <1>1, <1>2, PublishStep DEF kubeletVars
  <1>4. vol.mode = "block"
    BY <1>3, Zenon DEF PublishSteps
  <1>5. /\ node' \in [Targets -> Numbers \cup {0}] /\ node'[t] = num
        /\ \A u \in Targets \ {t} : node'[u] = node[u]
    BY <1>2, Zenon DEF IInv, TypeOK
  <1>6. LocalStep(t)
    BY <1>2, <1>3, <1>5, Zenon DEF LocalStep, volumeVars, kubeletVars, IInv, TypeOK, Rewiped
  <1>7. PlaceTrue(t)' /\ Shown(t)'
    BY <1>2, <1>3, <1>4, <1>5, Zenon DEF PlaceTrue, Shown, Rewiped, volumeVars
  <1>8. PublishSteps(t)'
    BY <1>3, <1>7, Zenon DEF PublishSteps
  <1> QED BY <1>3, <1>6, <1>7, <1>8, Zenon

\* The superblock is written before the device is used, and is lost only by
\* wiping a device that runs.
LEMMA CreateBcacheStep == ASSUME IInv, NEW t \in Targets, vol.kind = "bcache", CreateBcache(t) PROVE IInv'
  <1>1. /\ At(t, "publish", "make")
        /\ UNCHANGED <<vol, size, fs, num, nodeVars, kubeletVars, faults>>
    BY Zenon DEF CreateBcache
  <1>2. bcache \in [sb : BOOLEAN, on : BOOLEAN, dirty : BOOLEAN] /\ PlaceTrue(t)
    BY Zenon DEF IInv, TypeOK, TargetTrue
  <1>3. CASE /\ \E sb \in {bcache.sb, FALSE} : bcache' = [bcache EXCEPT !.sb = sb]
             /\ slips' = slips \cup {"rewiped"} /\ Return(t) /\ UNCHANGED data
    <2>1. /\ call' \in [Targets -> Calls] /\ call'[t] = Idle
          /\ \A u \in Targets \ {t} : call'[u] = call[u] /\ (holder = u => holder' = u)
          /\ holder' \in Targets \cup {None}
      BY <1>3, Returns, Zenon
    <2>2. Rewiped' /\ bcache' \in [sb : BOOLEAN, on : BOOLEAN, dirty : BOOLEAN]
      BY <1>2, <1>3, Zenon DEF Rewiped
    <2>3. LocalStep(t)
      BY <1>1, <1>3, <2>1, <2>2, Zenon DEF LocalStep, nodeVars, kubeletVars, IInv, TypeOK
    <2>4. PlaceTrue(t)'
      BY <1>1, <1>2, <2>2, Zenon DEF PlaceTrue, Shown, Clean, nodeVars, kubeletVars
    <2>5. Keeps(t) => Keeps(t)'
      BY <1>1, <2>1 DEF Keeps, At, Idle, kubeletVars
    <2> QED BY <2>1, <2>3, <2>4, <2>5, LocalIInv, InNone, Zenon
  <1>4. CASE /\ bcache' = [sb |-> TRUE, on |-> FALSE, dirty |-> FALSE]
             /\ slips' = IF bcache.dirty THEN slips \cup {"rewiped"} ELSE slips
             /\ data' = IF bcache.dirty THEN Ruined ELSE data
             /\ Goto(t, "register") /\ UNCHANGED holder
    <2>1. [op |-> "publish", pc |-> "register"] \in Calls
      BY Zenon DEF Calls
    <2>2. /\ call[t].op = "publish" /\ call[t].pc = "make" /\ call'[t].op = "publish"
          /\ call'[t].pc = "register" /\ PublishSteps(t) /\ need'[t] = "tried"
          /\ call' \in [Targets -> Calls] /\ holder' \in Targets \cup {None}
          /\ \A u \in Targets \ {t} : call'[u] = call[u] /\ (holder = u => holder' = u)
          /\ LocalStep(t) /\ PlaceTrue(t)' /\ PublishSteps(t)' => IInv'
      <3>1. UNCHANGED <<need, holder>> /\ At(t, "publish", "make") /\ Goto(t, "register")
        BY <1>1, <1>4, Zenon DEF kubeletVars
      <3>2. "make" \notin {"idle", "lock"}
        OBVIOUS
      <3> QED BY <3>1, <3>2, <2>1, PublishStep, Zenon
    <2>3. /\ bcache'.sb /\ bcache' \in [sb : BOOLEAN, on : BOOLEAN, dirty : BOOLEAN]
          /\ slips \subseteq slips' /\ slips' \subseteq {"rewiped", "blind", "refused"}
          /\ data' = data \/ (data' = Ruined /\ Rewiped')
      BY <1>4, Zenon DEF IInv, TypeOK, Rewiped
    <2>4. LocalStep(t)
      BY <1>1, <2>2, <2>3, Zenon DEF LocalStep, nodeVars, kubeletVars, IInv, TypeOK
    <2>5. PlaceTrue(t)'
      BY <1>1, <1>2, <2>2, <2>3, Zenon DEF PlaceTrue, nodeVars
    <2>6. PublishSteps(t)'
      BY <2>2, <2>3, Zenon DEF PublishSteps
    <2> QED BY <2>2, <2>4, <2>5, <2>6, Zenon
  <1> QED BY <1>3, <1>4, Zenon DEF CreateBcache

LEMMA RegisterBcacheStep == ASSUME IInv, NEW t \in Targets, RegisterBcache(t), vol.kind = "bcache" PROVE IInv'
  <1> DEFINE next == IF vol.mode = "block" THEN "node" ELSE "check"
  <1>1. /\ [op |-> "publish", pc |-> next] \in Calls /\ next \in {"node", "check"}
        /\ (next = "node" => vol.mode = "block") /\ (next = "check" => vol.mode = "fs")
    BY Zenon DEF Calls, IInv, TypeOK
  <1>2. /\ At(t, "publish", "register") /\ Goto(t, next) /\ bcache' = [bcache EXCEPT !.on = TRUE]
        /\ UNCHANGED <<vol, size, fs, data, num, nodeVars, kubeletVars, holder, slips, faults>>
    BY Zenon DEF RegisterBcache
  <1> HIDE DEF next
  <1>3. /\ call[t].op = "publish" /\ call[t].pc = "register" /\ call'[t].op = "publish"
        /\ call'[t].pc = next /\ PublishSteps(t) /\ PlaceTrue(t) /\ need'[t] = "tried"
        /\ call' \in [Targets -> Calls] /\ holder' \in Targets \cup {None}
        /\ \A u \in Targets \ {t} : call'[u] = call[u] /\ (holder = u => holder' = u)
        /\ LocalStep(t) /\ PlaceTrue(t)' /\ PublishSteps(t)' => IInv'
    BY <1>1, <1>2, PublishStep DEF kubeletVars
  <1>4. bcache' \in [sb : BOOLEAN, on : BOOLEAN, dirty : BOOLEAN] /\ bcache'.sb = bcache.sb
    BY <1>2, Zenon DEF IInv, TypeOK
  <1>5. LocalStep(t)
    BY <1>2, <1>3, <1>4, Zenon DEF LocalStep, nodeVars, kubeletVars, IInv, TypeOK, Rewiped
  <1>6. PlaceTrue(t)'
    BY <1>2, <1>3, <1>4, Zenon DEF PlaceTrue, nodeVars, Rewiped
  <1>7. PublishSteps(t)'
    BY <1>1, <1>2, <1>3, <1>4, Zenon DEF PublishSteps, Rewiped
  <1> QED BY <1>3, <1>5, <1>6, <1>7, Zenon

LEMMA BcacheResizeStep ==
    ASSUME IInv, NEW t \in Targets, At(t, "publish", "resize"), fs' = size, Goto(t, "reply"),
           UNCHANGED <<vol, size, data, num, bcache, nodeVars, kubeletVars, holder, slips, faults>>
    PROVE  IInv'
  <1>1. [op |-> "publish", pc |-> "reply"] \in Calls
    BY Zenon DEF Calls
  <1>2. /\ call[t].op = "publish" /\ call[t].pc = "resize" /\ call'[t].op = "publish"
        /\ call'[t].pc = "reply" /\ PublishSteps(t) /\ PlaceTrue(t) /\ need'[t] = "tried"
        /\ call' \in [Targets -> Calls] /\ holder' \in Targets \cup {None}
        /\ \A u \in Targets \ {t} : call'[u] = call[u] /\ (holder = u => holder' = u)
        /\ LocalStep(t) /\ PlaceTrue(t)' /\ PublishSteps(t)' => IInv'
    <2>1. UNCHANGED <<need, holder>>
      BY Zenon DEF kubeletVars
    <2>2. "resize" \notin {"idle", "lock"}
      OBVIOUS
    <2> QED BY <1>1, <2>1, <2>2, PublishStep, Zenon
  <1>3. LocalStep(t)
    BY <1>2, Zenon DEF LocalStep, nodeVars, kubeletVars, IInv, TypeOK, Rewiped
  <1>4. PlaceTrue(t)' /\ Shown(t)'
    <2>1. Shown(t) /\ fs' > 0
      BY <1>2 DEF PublishSteps, IInv, TypeOK
    <2> QED BY <1>2, <2>1, Zenon DEF PlaceTrue, Shown, Rewiped, nodeVars
  <1>5. PublishSteps(t)'
    BY <1>2, <1>4, Zenon DEF PublishSteps
  <1> QED BY <1>2, <1>3, <1>4, <1>5, Zenon

LEMMA PublishIInv == ASSUME IInv, NEW t \in Targets, Publish(t) PROVE IInv'
  <1>1. IsMounted(t) \in BOOLEAN /\ (IsMounted(t) => mnt[t] # 0)
    BY Zenon DEF IsMounted
  <1>2. CheckBindMountByInode(t) \in BOOLEAN /\ (CheckBindMountByInode(t) => mnt[t] # 0)
    BY Zenon DEF CheckBindMountByInode
  <1>3. CASE NodePublishVolume(t)
    BY <1>3, LockStep, Zenon
  <1>4. CASE nodePublishLvmBlockVolume(t) \/ nodePublishRawBlockVolume(t) \/ nodePublishBcacheBlockVolume(t)
    BY <1>4, MakeNodeStep, Zenon
       DEF nodePublishLvmBlockVolume, nodePublishRawBlockVolume, nodePublishBcacheBlockVolume
  <1>5. CASE nodePublishLvmFilesystemVolume(t)
    BY <1>1, <1>5, LvmDeviceStep, MountIfNeededStep, FormatStep, MountStep, ChmodStep, Zenon
       DEF nodePublishLvmFilesystemVolume
  <1>6. CASE nodePublishRawFilesystemVolume(t)
    BY <1>1, <1>6, DeviceStep, MountIfNeededStep, FormatStep, MountStep, ChmodStep, Zenon
       DEF nodePublishRawFilesystemVolume
  <1>7. CASE nodePublishHostFilesystemVolume(t)
    BY <1>2, <1>7, DeviceStep, MountIfNeededStep, MountStep, Zenon DEF nodePublishHostFilesystemVolume
  <1>8. CASE nodePublishBcacheVolume(t)
    BY <1>8, CreateBcacheStep, RegisterBcacheStep, Zenon DEF nodePublishBcacheVolume
  <1>9. CASE nodePublishBcacheFilesystemVolume(t)
    BY <1>1, <1>9, MountIfNeededStep, FormatStep, MountStep, ChmodStep, BcacheResizeStep, Zenon
       DEF nodePublishBcacheFilesystemVolume
  <1> QED BY <1>3, <1>4, <1>5, <1>6, <1>7, <1>8, <1>9, Zenon DEF Publish
-----------------------------------------------------------------------------
\* A step of an unpublish, under the lock.  The last one of an LVM volume leaves
\* no device file.
LEMMA UnpublishStep ==
    ASSUME IInv, NEW t \in Targets, NEW pc, NEW next, At(t, "unpublish", pc), Goto(t, next),
           pc \notin {"idle", "lock"}, [op |-> "unpublish", pc |-> next] \in Calls,
           UNCHANGED <<need, holder>>, next = "reply" => dev' = 0 \/ vol.kind # "lvm"
    PROVE  /\ call[t].op = "unpublish" /\ call[t].pc = pc /\ call'[t].op = "unpublish"
           /\ call'[t].pc = next /\ holder = t /\ UnpublishSteps(t) /\ PlaceTrue(t)
           /\ need[t] = "unpublish" /\ need'[t] = "unpublish"
           /\ call' \in [Targets -> Calls] /\ holder' \in Targets \cup {None}
           /\ \A u \in Targets \ {t} : call'[u] = call[u] /\ (holder = u => holder' = u)
           /\ LocalStep(t) /\ PlaceTrue(t)' /\ UnpublishSteps(t)' => IInv'
  <1>1. /\ call' \in [Targets -> Calls] /\ call'[t] = [op |-> "unpublish", pc |-> next]
        /\ \A u \in Targets \ {t} : call'[u] = call[u]
    BY Goes, Zenon
  <1>2. /\ call[t].op = "unpublish" /\ call[t].pc = pc /\ call'[t].op = "unpublish" /\ call'[t].pc = next
    BY <1>1 DEF At
  <1>3. /\ holder = t /\ holder' = t /\ UnpublishSteps(t) /\ PlaceTrue(t)
        /\ need[t] = "unpublish" /\ need'[t] = "unpublish"
    BY <1>2, Zenon DEF IInv, TargetTrue, NeedTrue, Locked
  <1>4. Keeps(t) /\ dev' # 0 /\ vol.kind = "lvm" => Keeps(t)'
    BY <1>2, <1>3 DEF Keeps, At
  <1>5. ASSUME LocalStep(t), PlaceTrue(t)', UnpublishSteps(t)' PROVE IInv'
    BY <1>2, <1>3, <1>4, <1>5, LocalIInv, InUnpublish, Zenon
  <1> QED BY <1>1, <1>2, <1>3, <1>5, Zenon

LEMMA UnmountStep == ASSUME IInv, NEW t \in Targets, Unmount(t) PROVE IInv'
  <1>1. [op |-> "unpublish", pc |-> "rmtree"] \in Calls
    BY Zenon DEF Calls
  <1>2. /\ At(t, "unpublish", "umount") /\ Goto(t, "rmtree") /\ mnt' = [mnt EXCEPT ![t] = 0]
        /\ UNCHANGED <<vol, volumeVars, dev, dir, node, kubeletVars, holder, slips, faults>>
    BY Zenon DEF Unmount
  <1>3. /\ call[t].op = "unpublish" /\ call[t].pc = "umount" /\ call'[t].op = "unpublish"
        /\ call'[t].pc = "rmtree" /\ UnpublishSteps(t) /\ PlaceTrue(t) /\ need'[t] = "unpublish"
        /\ call' \in [Targets -> Calls] /\ holder' \in Targets \cup {None}
        /\ \A u \in Targets \ {t} : call'[u] = call[u] /\ (holder = u => holder' = u)
        /\ LocalStep(t) /\ PlaceTrue(t)' /\ UnpublishSteps(t)' => IInv'
    BY <1>1, <1>2, UnpublishStep DEF kubeletVars
  <1>4. /\ mnt' \in [Targets -> Numbers \cup {0}] /\ mnt'[t] = 0
        /\ \A u \in Targets \ {t} : mnt'[u] = mnt[u]
    BY <1>2, Zenon DEF IInv, TypeOK
  <1>5. LocalStep(t)
    BY <1>2, <1>3, <1>4, Zenon DEF LocalStep, volumeVars, kubeletVars, IInv, TypeOK, Rewiped
  <1>6. PlaceTrue(t)'
    BY <1>2, <1>3, <1>4, Zenon DEF PlaceTrue
  <1>7. UnpublishSteps(t)'
    BY <1>2, <1>3, <1>4, Zenon DEF UnpublishSteps
  <1> QED BY <1>3, <1>5, <1>6, <1>7, Zenon

\* The tree is removed when nothing is mounted on it any more.
LEMMA RemoveTargetStep ==
    ASSUME IInv, NEW t \in Targets, NEW next \in {"reply", "rmdev", "unbcache"}, RemoveTarget(t, next),
           next = "reply" => vol.kind # "lvm"
    PROVE  IInv'
  <1>1. /\ At(t, "unpublish", "rmtree")
        /\ UNCHANGED <<vol, size, fs, num, bcache, dev, node, mnt, kubeletVars, slips, faults>>
    BY Zenon DEF RemoveTarget
  <1>2. call[t].op = "unpublish" /\ call[t].pc = "rmtree" /\ UnpublishSteps(t) /\ PlaceTrue(t)
    BY <1>1 DEF At, IInv, TargetTrue
  <1>3. t \in dir /\ (mnt[t] = 0 \/ Rewiped) /\ node[t] = 0
    BY <1>2, Zenon DEF UnpublishSteps, PlaceTrue, IInv, TypeOK
  <1>4. CASE mnt[t] # 0 /\ data' = Ruined /\ Return(t) /\ UNCHANGED dir
    <2>1. /\ call' \in [Targets -> Calls] /\ call'[t] = Idle
          /\ \A u \in Targets \ {t} : call'[u] = call[u] /\ (holder = u => holder' = u)
          /\ holder' \in Targets \cup {None}
      BY <1>4, Returns, Zenon
    <2>2. LocalStep(t)
      BY <1>1, <1>3, <1>4, <2>1, Zenon DEF LocalStep, kubeletVars, IInv, TypeOK, Rewiped
    <2>3. PlaceTrue(t)'
      BY <1>1, <1>2, <1>4, Zenon DEF PlaceTrue, Shown, Clean, Rewiped, kubeletVars
    <2>4. Keeps(t) => Keeps(t)'
      BY <1>1, <2>1 DEF Keeps, At, Idle, kubeletVars
    <2> QED BY <2>1, <2>2, <2>3, <2>4, LocalIInv, InNone, Zenon
  <1>5. CASE mnt[t] = 0 /\ dir' = dir \ {t} /\ Goto(t, next) /\ UNCHANGED <<data, holder>>
    <2>1. [op |-> "unpublish", pc |-> next] \in Calls
      BY Zenon DEF Calls
    <2>2. /\ call'[t].op = "unpublish" /\ call'[t].pc = next /\ need'[t] = "unpublish"
          /\ call' \in [Targets -> Calls] /\ holder' \in Targets \cup {None}
          /\ \A u \in Targets \ {t} : call'[u] = call[u] /\ (holder = u => holder' = u)
          /\ LocalStep(t) /\ PlaceTrue(t)' /\ UnpublishSteps(t)' => IInv'
      BY <1>1, <1>5, <2>1, UnpublishStep DEF kubeletVars
    <2>3. LocalStep(t)
      BY <1>1, <1>5, <2>2, Zenon DEF LocalStep, kubeletVars, IInv, TypeOK, Rewiped
    <2>4. PlaceTrue(t)' /\ Clean(t)'
      BY <1>1, <1>2, <1>3, <1>5, <2>2, Zenon DEF PlaceTrue, Clean
    <2>5. UnpublishSteps(t)'
      BY <2>2, <2>4, Zenon DEF UnpublishSteps
    <2> QED BY <2>2, <2>3, <2>4, <2>5, Zenon
  <1> QED BY <1>4, <1>5, Zenon DEF RemoveTarget

LEMMA RemoveDeviceStep ==
    ASSUME IInv, NEW t \in Targets, At(t, "unpublish", "rmdev"), dev' = 0, Goto(t, "reply"),
           UNCHANGED <<vol, volumeVars, dir, node, mnt, kubeletVars, holder, slips, faults>>
    PROVE  IInv'
  <1>1. [op |-> "unpublish", pc |-> "reply"] \in Calls
    BY Zenon DEF Calls
  <1>2. /\ call[t].op = "unpublish" /\ call[t].pc = "rmdev" /\ call'[t].op = "unpublish"
        /\ call'[t].pc = "reply" /\ UnpublishSteps(t) /\ PlaceTrue(t) /\ need'[t] = "unpublish"
        /\ call' \in [Targets -> Calls] /\ holder' \in Targets \cup {None} /\ holder = t
        /\ \A u \in Targets \ {t} : call'[u] = call[u] /\ (holder = u => holder' = u)
        /\ LocalStep(t) /\ PlaceTrue(t)' /\ UnpublishSteps(t)' => IInv'
    BY <1>1, UnpublishStep DEF kubeletVars
  <1>3. LocalStep(t)
    BY <1>2, Zenon DEF LocalStep, volumeVars, kubeletVars, IInv, TypeOK, Rewiped
  <1>4. PlaceTrue(t)' /\ Clean(t)'
    BY <1>2, Zenon DEF PlaceTrue, UnpublishSteps, Clean, Rewiped, volumeVars
  <1>5. UnpublishSteps(t)'
    BY <1>2, <1>4, Zenon DEF UnpublishSteps
  <1> QED BY <1>2, <1>3, <1>4, <1>5, Zenon

\* A block volume has no device file of the driver's.
LEMMA RemoveNodeStep ==
    ASSUME IInv, NEW t \in Targets, NEW next \in {"reply", "unbcache"}, RemoveNode(t, next)
    PROVE  IInv'
  <1>1. [op |-> "unpublish", pc |-> next] \in Calls
    BY Zenon DEF Calls
  <1>2. /\ At(t, "unpublish", "rmnode") /\ Goto(t, next) /\ node' = [node EXCEPT ![t] = 0]
        /\ UNCHANGED <<vol, volumeVars, dev, dir, mnt, kubeletVars, holder, slips, faults>>
    BY Zenon DEF RemoveNode
  <1>3. call[t].op = "unpublish" /\ call[t].pc = "rmnode" /\ UnpublishSteps(t) /\ PlaceTrue(t)
    BY <1>2 DEF At, IInv, TargetTrue
  <1>4. vol.mode = "block" /\ dev = 0 /\ t \notin dir /\ mnt[t] = 0
    BY <1>3, Zenon DEF UnpublishSteps, PlaceTrue, IInv, VolumeTrue
  <1>5. /\ call'[t].op = "unpublish" /\ call'[t].pc = next /\ need'[t] = "unpublish"
        /\ call' \in [Targets -> Calls] /\ holder' \in Targets \cup {None}
        /\ \A u \in Targets \ {t} : call'[u] = call[u] /\ (holder = u => holder' = u)
        /\ LocalStep(t) /\ PlaceTrue(t)' /\ UnpublishSteps(t)' => IInv'
    BY <1>1, <1>2, <1>4, UnpublishStep DEF kubeletVars
  <1>6. /\ node' \in [Targets -> Numbers \cup {0}] /\ node'[t] = 0
        /\ \A u \in Targets \ {t} : node'[u] = node[u]
    BY <1>2, Zenon DEF IInv, TypeOK
  <1>7. LocalStep(t)
    BY <1>2, <1>5, <1>6, Zenon DEF LocalStep, volumeVars, kubeletVars, IInv, TypeOK, Rewiped
  <1>8. PlaceTrue(t)' /\ Clean(t)'
    BY <1>2, <1>4, <1>5, <1>6, Zenon DEF PlaceTrue, Clean
  <1>9. UnpublishSteps(t)'
    BY <1>5, <1>8, Zenon DEF UnpublishSteps
  <1> QED BY <1>5, <1>7, <1>8, <1>9, Zenon

\* A bcache volume serves one pod, so that removing its device unmounts no other.
LEMMA RemoveBcacheTrue ==
    ASSUME IInv, NEW t \in Targets, need[t] # "none", vol.kind = "bcache", RemoveBcache
    PROVE  /\ mnt' \in [Targets -> Numbers \cup {0}] /\ \A u \in Targets : mnt'[u] = 0
           /\ \A u \in Targets \ {t} : mnt'[u] = mnt[u]
           /\ bcache' \in [sb : BOOLEAN, on : BOOLEAN, dirty : BOOLEAN] /\ bcache'.sb = bcache.sb
  <1>1. \A u \in Targets \ {t} : mnt[u] = 0
    BY Zenon DEF IInv, VolumeTrue, TargetTrue, PlaceTrue, Clean
  <1> QED BY <1>1, Zenon DEF RemoveBcache, IInv, TypeOK

LEMMA DeleteBcacheStep == ASSUME IInv, NEW t \in Targets, vol.kind = "bcache", DeleteBcache(t) PROVE IInv'
  <1>1. /\ At(t, "unpublish", "unbcache")
        /\ UNCHANGED <<vol, size, fs, data, num, dev, dir, node, kubeletVars, slips, faults>>
    BY Zenon DEF DeleteBcache
  <1>2. CASE RemoveBcache /\ Goto(t, "reply") /\ UNCHANGED holder
    <2>1. [op |-> "unpublish", pc |-> "reply"] \in Calls
      BY Zenon DEF Calls
    <2>2. /\ call[t].op = "unpublish" /\ call[t].pc = "unbcache" /\ call'[t].op = "unpublish"
          /\ call'[t].pc = "reply" /\ UnpublishSteps(t) /\ PlaceTrue(t)
          /\ need[t] = "unpublish" /\ need'[t] = "unpublish"
          /\ call' \in [Targets -> Calls] /\ holder' \in Targets \cup {None}
          /\ \A u \in Targets \ {t} : call'[u] = call[u] /\ (holder = u => holder' = u)
          /\ LocalStep(t) /\ PlaceTrue(t)' /\ UnpublishSteps(t)' => IInv'
      BY <1>1, <1>2, <2>1, UnpublishStep DEF kubeletVars
    <2>3. /\ mnt' \in [Targets -> Numbers \cup {0}] /\ mnt'[t] = 0
          /\ \A u \in Targets \ {t} : mnt'[u] = mnt[u]
          /\ bcache' \in [sb : BOOLEAN, on : BOOLEAN, dirty : BOOLEAN] /\ bcache'.sb = bcache.sb
      BY <1>2, <2>2, RemoveBcacheTrue, Zenon
    <2>4. LocalStep(t)
      BY <1>1, <2>2, <2>3 DEF LocalStep, kubeletVars, IInv, TypeOK, Rewiped
    <2>5. PlaceTrue(t)' /\ Clean(t)'
      BY <1>1, <2>2, <2>3, Zenon DEF PlaceTrue, UnpublishSteps, Clean
    <2>6. UnpublishSteps(t)'
      BY <2>2, <2>5, Zenon DEF UnpublishSteps
    <2> QED BY <2>2, <2>4, <2>5, <2>6, Zenon
  <1>3. CASE Return(t) /\ UNCHANGED <<bcache, mnt>>
    <2>1. /\ UNCHANGED <<vol, volumeVars, nodeVars, kubeletVars, slips, faults>>
          /\ slips \subseteq {"rewiped", "blind", "refused"} /\ faults \in 0..MaxFaults
      BY <1>1, <1>3, Zenon DEF volumeVars, nodeVars, IInv, TypeOK
    <2> QED BY <1>3, <2>1, ReturnStep, Zenon
  <1> QED BY <1>2, <1>3, Zenon DEF DeleteBcache

\* A step of an unpublish that only moves the call.
LEMMA UnpublishGoto ==
    ASSUME IInv, NEW t \in Targets, NEW pc, NEW next, At(t, "unpublish", pc), Goto(t, next),
           next \in {"stat", "umount", "rmtree", "rmnode"}, holder' = t,
           (pc = "lock" /\ holder = None) \/ (pc = "stat" /\ UNCHANGED holder),
           next \in {"umount", "rmtree"} => t \in dir,
           next = "rmtree" => mnt[t] = 0 \/ Rewiped,
           next = "rmnode" => vol.mode = "block",
           UNCHANGED <<vol, volumeVars, nodeVars, kubeletVars, slips, faults>>
    PROVE  IInv'
  <1>1. [op |-> "unpublish", pc |-> next] \in Calls
    BY Zenon DEF Calls
  <1>2. /\ call'[t].op = "unpublish" /\ call'[t].pc = next /\ call[t].op = "unpublish"
        /\ TargetTrue(t) /\ need'[t] = need[t] /\ PlaceTrue(t)' /\ (TargetTrue(t)' => IInv')
    <2> DEFINE op == "unpublish"
    <2>1. op # "unpublish" \/ next # "reply"
      OBVIOUS
    <2>2. holder' = holder \/ (holder = None /\ holder' = t)
      BY Zenon
    <2>3. [op |-> op, pc |-> next] \in Calls /\ At(t, op, pc)
      BY <1>1, Zenon
    <2> HIDE DEF op
    <2>4. /\ call'[t].op = op /\ call'[t].pc = next /\ call[t].op = op
          /\ TargetTrue(t) /\ need'[t] = need[t] /\ PlaceTrue(t)' /\ (TargetTrue(t)' => IInv')
      BY <2>1, <2>2, <2>3, GotoStep
    <2> QED BY <2>4, Zenon DEF op
  <1>3. need'[t] = "unpublish"
    BY <1>2, Zenon DEF TargetTrue, NeedTrue
  <1>4. UnpublishSteps(t)'
    BY <1>2, Zenon DEF UnpublishSteps, nodeVars, Rewiped
  <1> QED BY <1>2, <1>3, <1>4, InUnpublish, Zenon

LEMMA StatHolder ==
    ASSUME IInv, NEW t \in Targets, At(t, "unpublish", "stat")
    PROVE  holder = t /\ PlaceTrue(t) /\ need[t] = "unpublish"
  BY DEF At, IInv, TargetTrue, Locked, NeedTrue

\* An earlier unpublish got as far as the target; what is left of the device goes.
LEMMA TargetGoneStep ==
    ASSUME IInv, NEW t \in Targets, vol.kind # "host", At(t, "unpublish", "stat"),
           t \notin dir, node[t] = 0, TargetGone(t),
           UNCHANGED <<vol, size, fs, data, num, dir, node, kubeletVars, holder, slips, faults>>
    PROVE  IInv'
  <1>1. [op |-> "unpublish", pc |-> "reply"] \in Calls
    BY Zenon DEF Calls
  <1>2. /\ dev' = (IF vol.kind = "raw" \/ getBcacheDevice THEN dev ELSE 0) /\ Goto(t, "reply")
        /\ IF getBcacheDevice /\ bcache.on THEN RemoveBcache ELSE UNCHANGED <<bcache, mnt>>
    BY Zenon DEF TargetGone
  <1>3. dev' = 0 \/ vol.kind # "lvm"
    BY <1>2, Zenon DEF getBcacheDevice
  <1>4. /\ call[t].op = "unpublish" /\ call'[t].op = "unpublish" /\ holder = t
        /\ call'[t].pc = "reply" /\ UnpublishSteps(t) /\ PlaceTrue(t)
        /\ need[t] = "unpublish" /\ need'[t] = "unpublish"
        /\ call' \in [Targets -> Calls] /\ holder' \in Targets \cup {None}
        /\ \A u \in Targets \ {t} : call'[u] = call[u] /\ (holder = u => holder' = u)
        /\ LocalStep(t) /\ PlaceTrue(t)' /\ UnpublishSteps(t)' => IInv'
    <2>1. UNCHANGED <<need, holder>>
      BY Zenon DEF kubeletVars
    <2>2. "stat" \notin {"idle", "lock"}
      OBVIOUS
    <2> QED BY <1>1, <1>2, <1>3, <2>1, <2>2, UnpublishStep, Zenon
  <1>5. /\ mnt' \in [Targets -> Numbers \cup {0}] /\ mnt'[t] = 0
        /\ \A u \in Targets \ {t} : mnt'[u] = mnt[u]
        /\ bcache' \in [sb : BOOLEAN, on : BOOLEAN, dirty : BOOLEAN] /\ bcache'.sb = bcache.sb
    <2>1. CASE RemoveBcache /\ getBcacheDevice
      BY <1>4, <2>1, RemoveBcacheTrue, Zenon DEF getBcacheDevice
    <2>2. CASE UNCHANGED <<bcache, mnt>>
      BY <1>4, <2>2, Zenon DEF IInv, TypeOK, PlaceTrue
    <2> QED BY <1>2, <2>1, <2>2, Zenon
  <1>6. dev' \in {0, dev}
    BY <1>2, Zenon
  <1>7. LocalStep(t)
    BY <1>4, <1>5, <1>6, Zenon DEF LocalStep, kubeletVars, IInv, TypeOK, Rewiped
  <1>8. PlaceTrue(t)' /\ Clean(t)'
    BY <1>4, <1>5, Zenon DEF PlaceTrue, Clean
  <1>9. UnpublishSteps(t)'
    BY <1>4, <1>8, Zenon DEF UnpublishSteps
  <1> QED BY <1>4, <1>7, <1>8, <1>9, Zenon

LEMMA NodeUnpublishStep == ASSUME IInv, NEW t \in Targets, NodeUnpublishVolume(t) PROVE IInv'
  <1>1. CASE /\ At(t, "unpublish", "lock") /\ holder = None /\ holder' = t /\ Goto(t, "stat")
             /\ UNCHANGED <<vol, volumeVars, nodeVars, kubeletVars, slips, faults>>
    BY <1>1, UnpublishGoto, Zenon
  <1>2. ASSUME At(t, "unpublish", "stat"), vol.kind # "host",
               UNCHANGED <<vol, size, fs, data, num, dir, node, kubeletVars, holder, slips, faults>>,
               \/ t \notin dir /\ node[t] = 0 /\ TargetGone(t)
               \/ /\ t \in dir
                  /\ Goto(t, IF IsMounted(t) THEN "umount" ELSE "rmtree")
                  /\ UNCHANGED <<dev, bcache, mnt>>
               \/ node[t] # 0 /\ Goto(t, "rmnode") /\ UNCHANGED <<dev, bcache, mnt>>
        PROVE  IInv'
    <2>1. holder = t /\ PlaceTrue(t)
      BY <1>2, StatHolder, Zenon
    <2>2. CASE t \notin dir /\ node[t] = 0 /\ TargetGone(t)
      BY <1>2, <2>2, TargetGoneStep, Zenon
    <2>3. CASE /\ t \in dir
               /\ Goto(t, IF IsMounted(t) THEN "umount" ELSE "rmtree")
               /\ UNCHANGED <<dev, bcache, mnt>>
      <3>1. UNCHANGED <<vol, volumeVars, nodeVars, kubeletVars, slips, faults>>
        BY <1>2, <2>3, Zenon DEF volumeVars, nodeVars
      <3>2. CASE IsMounted(t)
        BY <1>2, <2>1, <2>3, <3>1, <3>2, UnpublishGoto, Zenon
      <3>3. CASE ~IsMounted(t)
        <4>1. mnt[t] = 0 \/ Rewiped
          BY <1>2, <2>1, <3>3, Zenon DEF IsMounted, isSameDevice, getBcacheDevice, At, PlaceTrue
        <4> QED BY <1>2, <2>1, <2>3, <3>1, <3>3, <4>1, UnpublishGoto, Zenon
      <3> QED BY <3>2, <3>3, Zenon
    <2>4. CASE node[t] # 0 /\ Goto(t, "rmnode") /\ UNCHANGED <<dev, bcache, mnt>>
      <3>1. UNCHANGED <<vol, volumeVars, nodeVars, kubeletVars, slips, faults>>
        BY <1>2, <2>4, Zenon DEF volumeVars, nodeVars
      <3>2. vol.mode = "block"
        BY <2>1, <2>4, Zenon DEF PlaceTrue, IInv, TypeOK
      <3> QED BY <1>2, <2>1, <2>4, <3>1, <3>2, UnpublishGoto, Zenon
    <2> QED BY <1>2, <2>2, <2>3, <2>4, Zenon
  <1> QED BY <1>1, <1>2, Zenon DEF NodeUnpublishVolume

LEMMA HostStatStep ==
    ASSUME IInv, NEW t \in Targets, At(t, "unpublish", "stat"), vol.kind = "host",
           \/ t \notin dir /\ Return(t) /\ slips' = slips \cup {"refused"}
           \/ /\ t \in dir /\ UNCHANGED <<holder, slips>>
              /\ Goto(t, IF CheckBindMountByInode(t) THEN "umount" ELSE "rmtree"),
           UNCHANGED <<vol, volumeVars, nodeVars, kubeletVars, faults>>
    PROVE  IInv'
  <1>1. CASE Return(t) /\ slips' = slips \cup {"refused"}
    <2>1. /\ slips \subseteq slips' /\ slips' \subseteq {"rewiped", "blind", "refused"}
          /\ faults' \in 0..MaxFaults
      BY <1>1, Zenon DEF IInv, TypeOK
    <2> QED BY <1>1, <2>1, ReturnStep, Zenon
  <1>2. CASE /\ t \in dir /\ UNCHANGED <<holder, slips>>
             /\ Goto(t, IF CheckBindMountByInode(t) THEN "umount" ELSE "rmtree")
    <2>1. holder = t
      BY StatHolder, Zenon
    <2>2. CASE CheckBindMountByInode(t)
      BY <1>2, <2>1, <2>2, UnpublishGoto, Zenon
    <2>3. CASE ~CheckBindMountByInode(t)
      BY <1>2, <2>1, <2>3, UnpublishGoto, Zenon DEF CheckBindMountByInode
    <2> QED BY <2>2, <2>3, Zenon
  <1> QED BY <1>1, <1>2, Zenon

LEMMA UnpublishIInv == ASSUME IInv, NEW t \in Targets, Unpublish(t) PROVE IInv'
  <1>1. CASE NodeUnpublishVolume(t)
    BY <1>1, NodeUnpublishStep, Zenon
  <1>2. CASE nodeUnpublishFilesystemVolume(t)
    <2>1. ASSUME RemoveTarget(t, IF vol.kind = "raw" THEN "reply" ELSE "rmdev") PROVE IInv'
      <3>1. CASE vol.kind = "raw"
        BY <2>1, <3>1, RemoveTargetStep, Zenon
      <3>2. CASE vol.kind # "raw"
        BY <2>1, <3>2, RemoveTargetStep, Zenon
      <3> QED BY <3>1, <3>2, Zenon
    <2> QED BY <1>2, <2>1, UnmountStep, RemoveDeviceStep, Zenon DEF nodeUnpublishFilesystemVolume
  <1>3. CASE nodeUnpublishBFileSystemCacheVolume(t)
    BY <1>3, UnmountStep, RemoveTargetStep, DeleteBcacheStep, Zenon
       DEF nodeUnpublishBFileSystemCacheVolume, getBcacheDevice
  <1>4. CASE nodeUnpublishBlockVolume(t) \/ nodeUnpublishBlockCacheVolume(t)
    BY <1>4, RemoveNodeStep, Zenon DEF nodeUnpublishBlockVolume, nodeUnpublishBlockCacheVolume
  <1>5. CASE nodeUnpublishHostVolume(t)
    BY <1>5, HostStatStep, UnmountStep, RemoveTargetStep, Zenon DEF nodeUnpublishHostVolume
  <1> QED BY <1>1, <1>2, <1>3, <1>4, <1>5, Zenon DEF Unpublish
-----------------------------------------------------------------------------
LEMMA ExpandDeviceStep ==
    ASSUME IInv, NEW t \in Targets, At(t, "expand", "device"),
           IF vol.mode = "fs" /\ vol.kind \in {"lvm", "bcache"} THEN createDeviceIfNeeded
           ELSE UNCHANGED dev,
           Goto(t, IF vol.mode = "block" \/ vol.kind = "host" THEN "reply" ELSE "lock"),
           UNCHANGED <<vol, volumeVars, dir, node, mnt, kubeletVars, holder, slips, faults>>
    PROVE  IInv'
  <1>1. call[t].op = "expand" /\ TargetTrue(t) /\ need[t] = "published" /\ size = 2 /\ vol.kind # "host"
    <2>1. call[t].op = "expand" /\ call[t] # Idle /\ TargetTrue(t)
      BY DEF At, IInv, Idle
    <2> QED BY <2>1, Zenon DEF TargetTrue, NeedTrue
  <1>2. PICK next \in {"reply", "lock"} : Goto(t, next) /\ (next = "reply" => vol.mode = "block")
    BY <1>1, Zenon
  <1>3. [op |-> "expand", pc |-> next] \in Calls
    BY Zenon DEF Calls
  <1>4. /\ call' \in [Targets -> Calls] /\ call'[t].op = "expand" /\ call'[t].pc = next
        /\ \A u \in Targets \ {t} : call'[u] = call[u]
    BY <1>2, <1>3, Goes
  <1>5. Keeps(t)' /\ need'[t] = "published" /\ (size = 2)' /\ vol'.kind # "host"
    BY <1>1, <1>4 DEF Keeps, At, kubeletVars, volumeVars
  <1>6. \/ dev' = dev
        \/ dev' = num /\ vol.mode = "fs" /\ vol.kind \in {"lvm", "bcache"}
    BY Zenon DEF createDeviceIfNeeded
  <1>7. LocalStep(t)
    BY <1>4, <1>5, <1>6, Zenon DEF LocalStep, volumeVars, kubeletVars, IInv, TypeOK, Rewiped
  <1>8. PlaceTrue(t)'
    BY <1>1, Zenon DEF TargetTrue, PlaceTrue, Shown, Clean, Rewiped, volumeVars, kubeletVars
  <1>9. ExpandSteps(t)'
    BY <1>2, <1>4 DEF ExpandSteps, At
  <1> QED BY <1>4, <1>5, <1>7, <1>8, <1>9, LocalIInv, InExpand, Zenon

LEMMA ExpandLockStep ==
    ASSUME IInv, NEW t \in Targets, At(t, "expand", "lock"), holder = None, holder' = t,
           Goto(t, "resize"), UNCHANGED <<vol, volumeVars, nodeVars, kubeletVars, slips, faults>>
    PROVE  IInv'
  <1>1. [op |-> "expand", pc |-> "resize"] \in Calls
    BY Zenon DEF Calls
  <1>2. /\ call'[t].op = "expand" /\ call'[t].pc = "resize" /\ call[t].op = "expand"
        /\ TargetTrue(t) /\ need'[t] = need[t] /\ PlaceTrue(t)' /\ (TargetTrue(t)' => IInv')
    BY <1>1, GotoStep
  <1>3. need'[t] = "published" /\ (size = 2)' /\ vol'.kind # "host"
    BY <1>2, Zenon DEF TargetTrue, NeedTrue, volumeVars
  <1>4. ExpandSteps(t)'
    BY <1>2 DEF ExpandSteps, At
  <1> QED BY <1>2, <1>3, <1>4, InExpand, Zenon

LEMMA ResizeStep ==
    ASSUME IInv, NEW t \in Targets, At(t, "expand", "resize"), Resize(t),
           UNCHANGED <<vol, size, data, num, bcache, nodeVars, kubeletVars, faults>>
    PROVE  IInv'
  <1>1. call[t].op = "expand" /\ TargetTrue(t) /\ need[t] = "published" /\ size = 2 /\ vol.kind # "host"
    BY DEF At, IInv, TargetTrue, NeedTrue
  <1>2. CASE Return(t) /\ UNCHANGED <<fs, slips>>
    <2>1. /\ UNCHANGED <<vol, volumeVars, nodeVars, kubeletVars, slips, faults>>
          /\ slips \subseteq {"rewiped", "blind", "refused"} /\ faults \in 0..MaxFaults
      BY <1>2, Zenon DEF volumeVars, IInv, TypeOK
    <2> QED BY <1>2, <2>1, ReturnStep, Zenon
  <1>3. ASSUME Goto(t, "reply"), UNCHANGED holder, slips \subseteq slips',
               slips' \subseteq {"rewiped", "blind", "refused"},
               fs' = size \/ (fs' = fs /\ "blind" \in slips')
        PROVE  IInv'
    <2>1. [op |-> "expand", pc |-> "reply"] \in Calls
      BY Zenon DEF Calls
    <2>2. /\ call' \in [Targets -> Calls] /\ call'[t].op = "expand" /\ call'[t].pc = "reply"
          /\ \A u \in Targets \ {t} : call'[u] = call[u]
      BY <1>3, <2>1, Goes
    <2>3. Keeps(t)' /\ need'[t] = "published" /\ (size = 2)' /\ vol'.kind # "host"
      BY <1>1, <2>2 DEF Keeps, At, kubeletVars
    <2>4. LocalStep(t)
      BY <1>3, <2>2, Zenon DEF LocalStep, nodeVars, kubeletVars, IInv, TypeOK, Rewiped
    <2>5. VolumeFrame(t) /\ Same(t)
      BY <2>4, Zenon DEF LocalStep, VolumeFrame, Same, nodeVars
    <2>6. PlaceTrue(t)'
      BY <2>5, PlaceKept, Zenon
    <2>7. ExpandSteps(t)'
      BY <1>3, Zenon DEF ExpandSteps
    <2> QED BY <2>2, <2>3, <2>4, <2>6, <2>7, LocalIInv, InExpand, Zenon
  <1>4. slips \subseteq {"rewiped", "blind", "refused"}
    BY Zenon DEF IInv, TypeOK
  <1> QED BY <1>2, <1>3, <1>4, Zenon DEF Resize

LEMMA ExpandIInv == ASSUME IInv, NEW t \in Targets, NodeExpandVolume(t) PROVE IInv'
  BY ExpandDeviceStep, ExpandLockStep, ResizeStep, Zenon DEF NodeExpandVolume

\* The call has done what its answer says.
LEMMA ReplyStep == ASSUME IInv, NEW t \in Targets, Reply(t) PROVE IInv'
  <1> DEFINE n == CASE call[t].op = "publish" -> "published"
                    [] call[t].op = "unpublish" -> "none"
                    [] OTHER -> need[t]
  <1>1. /\ call[t].pc = "reply" /\ need' = [need EXCEPT ![t] = n]
        /\ grown' = (IF call[t].op = "expand" THEN "done" ELSE grown)
        /\ Return(t) /\ UNCHANGED <<vol, volumeVars, nodeVars, pods, slips, faults>>
    BY Zenon DEF Reply
  <1>2. TargetTrue(t) /\ call[t] \in Calls /\ need \in
            [Targets -> {"none", "publish", "tried", "published", "unpublish"}]
    BY Zenon DEF IInv, TypeOK
  <1>3. call[t].op \in {"publish", "unpublish", "expand"}
    BY <1>1, <1>2 DEF Calls, Idle
  <1>4. /\ call[t].op = "publish" => n = "published" /\ Shown(t)
        /\ call[t].op = "unpublish" => n = "none" /\ Clean(t)
        /\ call[t].op = "expand" =>
              /\ n = "published" /\ need[t] = "published" /\ size = 2 /\ vol.kind # "host"
              /\ vol.mode = "fs" => fs = size \/ "blind" \in slips
    BY <1>1, <1>2 DEF TargetTrue, NeedTrue, PublishSteps, UnpublishSteps, ExpandSteps, At, Calls, Idle
  <1>5. n \in {"published", "none"}
    BY <1>3, <1>4, Zenon
  <1> HIDE DEF n
  <1>6. /\ call' \in [Targets -> Calls] /\ call'[t] = Idle
        /\ \A u \in Targets \ {t} : call'[u] = call[u] /\ (holder = u => holder' = u)
        /\ holder' \in Targets \cup {None}
    BY <1>1, Returns, Zenon
  <1>7. /\ need' \in [Targets -> {"none", "publish", "tried", "published", "unpublish"}]
        /\ need'[t] = n /\ \A u \in Targets \ {t} : need'[u] = need[u]
    BY <1>1, <1>2, <1>5, Zenon
  <1>8. Frame(t)
    BY <1>1, <1>6, <1>7, Zenon DEF Frame, VolumeFrame, Same, volumeVars, nodeVars, Rewiped
  <1>9. TypeOK'
    BY <1>1, <1>6, <1>7, Zenon DEF IInv, TypeOK, volumeVars, nodeVars
  <1>10. Keeps(t) => Keeps(t)'
    <2>1. Keeps(t) => call[t].op # "unpublish"
      BY <1>1, <1>2 DEF Keeps, At, Calls, Idle
    <2> QED BY <1>3, <1>4, <1>6, <1>7, <2>1 DEF Keeps, At, Idle
  <1>11. need'[t] # "none" => need[t] # "none"
    BY <1>2, <1>3, <1>4, <1>7, Zenon DEF TargetTrue, NeedTrue
  <1>12. VolumeTrue'
    BY <1>1, <1>4, <1>8, <1>9, <1>10, <1>11, VolumeKept, Zenon DEF volumeVars, nodeVars
  <1>13. PlaceTrue(t)'
    <2>1. PlaceTrue(t) /\ (n = "published" => Shown(t)) /\ (n = "none" => Clean(t))
      BY <1>2, <1>3, <1>4, Zenon DEF TargetTrue, PlaceTrue
    <2> QED BY <1>1, <1>5, <1>7, <2>1, Zenon DEF PlaceTrue, Shown, Clean, volumeVars, nodeVars, Rewiped
  <1> QED BY <1>6, <1>8, <1>9, <1>12, <1>13, Step, InNone, Zenon
-----------------------------------------------------------------------------
\* kubelet changes its mind about a target, or makes a call.
LEMMA NeedStep ==
    ASSUME IInv, NEW t \in Targets,
           NEW n \in {"none", "publish", "tried", "published", "unpublish"}, need' = [need EXCEPT ![t] = n],
           UNCHANGED <<vol, volumeVars, nodeVars, grown, holder, slips>>,
           call' \in [Targets -> Calls], \A u \in Targets \ {t} : call'[u] = call[u],
           pods' \in 0..MaxPods, faults' \in 0..MaxFaults,
           call'[t].op = "none" \/ call'[t].pc = "lock" \/ call'[t] = [op |-> "expand", pc |-> "device"],
           n \in {"none", "publish"} => Clean(t), n = "published" => need[t] = "published",
           Keeps(t) => n \in {"tried", "published", "unpublish"},
           n # "none" => need[t] # "none" \/ vol.kind # "bcache" \/ \A u \in Targets : need[u] = "none",
           call'[t].op = "publish" => n = "tried",
           call'[t].op = "unpublish" => n = "unpublish",
           call'[t].op = "expand" => n = "published" /\ size = 2 /\ vol.kind # "host"
    PROVE  IInv'
  <1>1. need \in [Targets -> {"none", "publish", "tried", "published", "unpublish"}] /\ TargetTrue(t)
    BY Zenon DEF IInv, TypeOK
  <1>2. /\ need' \in [Targets -> {"none", "publish", "tried", "published", "unpublish"}]
        /\ need'[t] = n /\ \A u \in Targets \ {t} : need'[u] = need[u]
    BY <1>1, Zenon
  <1>3. Frame(t)
    BY <1>2, Zenon DEF Frame, VolumeFrame, Same, volumeVars, nodeVars, Rewiped
  <1>4. TypeOK'
    BY <1>2, SMTT(20) DEF IInv, TypeOK, volumeVars, nodeVars
  <1>5. call'[t].pc # "reply"
    <2>1. call'[t] \in Calls
      OBVIOUS
    <2> QED BY <2>1 DEF Calls, Idle
  <1>6. Keeps(t) => Keeps(t)'
    BY <1>2, <1>5 DEF Keeps, At
  <1>7. VolumeTrue'
    BY <1>2, <1>3, <1>4, <1>6, VolumeKept, Zenon DEF volumeVars, nodeVars
  <1>8. PlaceTrue(t)'
    BY <1>1, <1>2, Zenon DEF TargetTrue, PlaceTrue, Shown, Clean, volumeVars, nodeVars, Rewiped
  <1>9. NeedTrue(t)'
    BY <1>2, Zenon DEF NeedTrue, volumeVars
  <1>10. ~Locked(t)' /\ PublishSteps(t)' /\ UnpublishSteps(t)' /\ ExpandSteps(t)'
    <2>1. call'[t] \in Calls
      OBVIOUS
    <2>2. call'[t].op = "none" => call'[t].pc = "idle"
      BY <2>1 DEF Calls, Idle
    <2> QED BY <2>2 DEF Locked, PublishSteps, UnpublishSteps, ExpandSteps, At
  <1>11. TargetTrue(t)'
    BY <1>8, <1>9, <1>10, Zenon DEF TargetTrue
  <1> QED BY <1>3, <1>4, <1>7, <1>11, Step, Zenon

LEMMA CallsTyped ==
    /\ Idle \in Calls /\ Idle.op = "none"
    /\ \A op \in {"publish", "unpublish"} : /\ [op |-> op, pc |-> "lock"] \in Calls
                                            /\ [op |-> op, pc |-> "lock"].op = op
                                            /\ [op |-> op, pc |-> "lock"].pc = "lock"
    /\ [op |-> "expand", pc |-> "device"] \in Calls /\ [op |-> "expand", pc |-> "device"].op = "expand"
  BY Zenon DEF Calls, Idle

\* A pod that needs nothing yet has no call.
LEMMA NoCall ==
    ASSUME IInv, NEW t \in Targets, need[t] = "none"
    PROVE  call[t].op = "none"
  <1>1. call[t].op \in {"none", "publish", "unpublish", "expand"}
    <2>1. call[t] \in Calls
      BY Zenon DEF IInv, TypeOK
    <2> QED BY <2>1 DEF Calls, Idle
  <1> QED BY <1>1, Zenon DEF IInv, TargetTrue, NeedTrue

LEMMA KubeletStep ==
    ASSUME IInv, NEW t \in Targets, PodStart(t) \/ PodStop(t) \/ KubeletRestart(t) \/ Call(t)
    PROVE  IInv'
  <1>1. /\ pods \in 0..MaxPods /\ faults \in 0..MaxFaults /\ call \in [Targets -> Calls] /\ TargetTrue(t)
        /\ need[t] \in {"none", "publish", "tried", "published", "unpublish"}
        /\ need[t] \in {"none", "publish"} => Clean(t)
        /\ grown # "no" => size = 2 /\ vol.kind # "host"
    BY Zenon DEF IInv, TypeOK, TargetTrue, PlaceTrue, VolumeTrue
  <1>2. CASE PodStart(t)
    <2>1. /\ need' = [need EXCEPT ![t] = "publish"] /\ need[t] = "none" /\ pods' \in 0..MaxPods
          /\ UNCHANGED <<vol, volumeVars, nodeVars, grown, call, holder, slips, faults>>
          /\ vol.kind = "bcache" => \A u \in Targets : need[u] = "none"
      BY <1>1, <1>2 DEF PodStart
    <2>2. call'[t].op = "none" /\ ~Keeps(t)
      BY <2>1, NoCall, Zenon DEF Keeps
    <2> QED BY <1>1, <2>1, <2>2, NeedStep, Zenon
  <1>3. CASE PodStop(t)
    <2>1. PICK n \in {"none", "unpublish"} :
            need' = [need EXCEPT ![t] = n] /\ (n = "none" => need[t] = "publish")
      BY <1>3, Zenon DEF PodStop
    <2>2. /\ need[t] \in {"publish", "tried", "published"} /\ call[t] = Idle
          /\ UNCHANGED <<vol, volumeVars, nodeVars, grown, pods, call, holder, slips, faults>>
      BY <1>3, Zenon DEF PodStop
    <2>3. call'[t].op = "none"
      BY <2>2, CallsTyped, Zenon
    <2>4. Keeps(t) => n = "unpublish"
      BY <2>1, Zenon DEF Keeps
    <2> QED BY <1>1, <2>1, <2>2, <2>3, <2>4, NeedStep, Zenon
  <1>4. CASE KubeletRestart(t)
    <2>1. /\ need' = [need EXCEPT ![t] = "tried"] /\ need[t] = "published" /\ call[t] = Idle
          /\ UNCHANGED <<vol, volumeVars, nodeVars, grown, pods, call, holder, slips>>
          /\ faults' \in 0..MaxFaults
      BY <1>1, <1>4 DEF KubeletRestart, Fault
    <2>2. call'[t].op = "none"
      BY <2>1, CallsTyped, Zenon
    <2> QED BY <1>1, <2>1, <2>2, NeedStep, Zenon
  <1>5. CASE Call(t)
    <2>1. UNCHANGED <<vol, volumeVars, nodeVars, grown, pods, holder, slips, faults>>
      BY <1>5, Zenon DEF Call
    <2>2. ASSUME NEW c \in Calls, call' = [call EXCEPT ![t] = c]
          PROVE  call' \in [Targets -> Calls] /\ call'[t] = c /\ \A u \in Targets \ {t} : call'[u] = call[u]
      BY <1>1, <2>2, Zenon
    <2>3. UNCHANGED need => need' = [need EXCEPT ![t] = need[t]]
      BY Zenon DEF IInv, TypeOK
    <2>4. CASE /\ need[t] \in {"publish", "tried"} /\ need' = [need EXCEPT ![t] = "tried"]
               /\ call' = [call EXCEPT ![t] = [op |-> "publish", pc |-> "lock"]]
      BY <1>1, <2>1, <2>2, <2>4, CallsTyped, NeedStep, Zenon
    <2>5. CASE /\ need[t] = "unpublish" /\ UNCHANGED need
               /\ call' = [call EXCEPT ![t] = [op |-> "unpublish", pc |-> "lock"]]
      BY <1>1, <2>1, <2>2, <2>3, <2>5, CallsTyped, NeedStep
    <2>6. CASE /\ need[t] = "published" /\ grown = "asked" /\ UNCHANGED need
               /\ call' = [call EXCEPT ![t] = [op |-> "expand", pc |-> "device"]]
      BY <1>1, <2>1, <2>2, <2>3, <2>6, CallsTyped, NeedStep, Zenon
    <2> QED BY <1>5, <2>4, <2>5, <2>6, Zenon DEF Call
  <1> QED BY <1>2, <1>3, <1>4, <1>5, Zenon

\* A pod writes to what it sees, which is a volume with a filesystem.
LEMMA PodWritesStep == ASSUME IInv, NEW t \in Targets, PodWrites(t) PROVE IInv'
  <1>1. /\ need[t] = "published" /\ vol.mode = "fs" /\ data' = "written"
        /\ bcache' = (IF vol.kind = "bcache" THEN [bcache EXCEPT !.dirty = TRUE] ELSE bcache)
        /\ UNCHANGED <<vol, size, fs, num, nodeVars, kubeletVars, call, holder, slips, faults>>
    BY Zenon DEF PodWrites
  <1>2. TargetTrue(t)
    BY Zenon DEF IInv
  <1>3. vol.kind # "host" => fs > 0
    <2>1. mnt[t] = num /\ num # 0
      BY <1>1, <1>2, Zenon DEF TargetTrue, PlaceTrue, Shown, IInv, TypeOK
    <2> QED BY <1>2, <2>1, Zenon DEF TargetTrue, PlaceTrue
  <1>4. bcache' \in [sb : BOOLEAN, on : BOOLEAN, dirty : BOOLEAN] /\ bcache'.sb = bcache.sb
    BY <1>1, Zenon DEF IInv, TypeOK
  <1>5. Frame(t) /\ Same(t)
    BY <1>1, <1>4, Zenon DEF Frame, VolumeFrame, Same, nodeVars, kubeletVars, Rewiped
  <1>6. TypeOK'
    BY <1>1, <1>4, Zenon DEF IInv, TypeOK, nodeVars, kubeletVars
  <1>7. Keeps(t) => Keeps(t)'
    BY <1>1, Zenon DEF Keeps, At, kubeletVars
  <1>8. VolumeTrue'
    BY <1>1, <1>3, <1>5, <1>6, <1>7, VolumeKept, Zenon DEF nodeVars, kubeletVars
  <1>9. PlaceTrue(t)' /\ (Shown(t) => Shown(t)') /\ (Clean(t) => Clean(t)')
    BY <1>5, PlaceKept, Zenon DEF Frame
  <1>10. TargetTrue(t)'
    <2>1. (Locked(t)' => holder' = t) /\ NeedTrue(t)' /\ ExpandSteps(t)'
      BY <1>1, <1>2, Zenon DEF TargetTrue, Locked, NeedTrue, ExpandSteps, At, kubeletVars
    <2>2. PublishSteps(t)' /\ UnpublishSteps(t)'
      BY <1>1, <1>2, <1>4, <1>9, Zenon DEF TargetTrue, PublishSteps, UnpublishSteps, nodeVars, Rewiped
    <2> QED BY <1>9, <2>1, <2>2, Zenon DEF TargetTrue
  <1> QED BY <1>5, <1>6, <1>8, <1>10, Step, Zenon
-----------------------------------------------------------------------------
LEMMA GrowStep == ASSUME IInv, Grow PROVE IInv'
  <1>1. /\ size = 1 /\ vol.kind # "host" /\ size' = 2 /\ grown' = "asked"
        /\ UNCHANGED <<vol, fs, data, num, bcache, nodeVars, need, pods, call, holder, slips, faults>>
    BY Zenon DEF Grow
  <1>2. TypeOK'
    BY <1>1 DEF IInv, TypeOK, nodeVars
  <1>3. \A t : Keeps(t) <=> Keeps(t)'
    BY <1>1, Zenon DEF Keeps, At
  <1>4. VolumeTrue'
    BY <1>1, <1>3, Zenon DEF IInv, VolumeTrue, DataKept, ExpandTrue, nodeVars
  <1>5. ASSUME NEW t \in Targets PROVE TargetTrue(t)'
    <2>1. TargetTrue(t) /\ (Shown(t) <=> Shown(t)') /\ (Clean(t) <=> Clean(t)') /\ (Rewiped <=> Rewiped')
      BY <1>1, Zenon DEF IInv, Shown, Clean, Rewiped, nodeVars
    <2>2. call[t].op # "expand"
      BY <1>1, <2>1 DEF TargetTrue, NeedTrue
    <2>3. (Locked(t)' => holder' = t) /\ NeedTrue(t)'
      BY <1>1, <2>1, <2>2, Zenon DEF TargetTrue, Locked, NeedTrue, At
    <2>4. ExpandSteps(t)'
      BY <2>2, <1>1 DEF ExpandSteps, At
    <2>5. PlaceTrue(t)'
      BY <1>1, <2>1, Zenon DEF TargetTrue, PlaceTrue, nodeVars
    <2>6. PublishSteps(t)' /\ UnpublishSteps(t)'
      BY <1>1, <2>1, Zenon DEF TargetTrue, PublishSteps, UnpublishSteps, nodeVars
    <2> QED BY <2>3, <2>4, <2>5, <2>6, Zenon DEF TargetTrue
  <1> QED BY <1>2, <1>4, <1>5, Zenon DEF IInv

\* All calls have ended, and nothing that was mounted or shown is any more.
LEMMA QuietStep ==
    ASSUME IInv, UNCHANGED <<vol, size, fs, data, dir, node, grown, pods, slips>>,
           call' = [t \in Targets |-> Idle], holder' \in Targets \cup {None}, faults' \in 0..MaxFaults,
           bcache' \in [sb : BOOLEAN, on : BOOLEAN, dirty : BOOLEAN], bcache'.sb = bcache.sb,
           num' \in Numbers, dev' \in {0, dev},
           need' \in [Targets -> {"none", "publish", "tried", "published", "unpublish"}],
           \A t \in Targets : need'[t] = IF need[t] = "published" THEN need'[t] ELSE need[t],
           \A t \in Targets : need'[t] \in {need[t], "tried"},
           mnt' \in [Targets -> Numbers \cup {0}],
           \A t \in Targets : (mnt'[t] = mnt[t] /\ num' = num) \/ mnt'[t] = 0,
           \A t \in Targets : need'[t] = "published" => mnt'[t] = mnt[t] /\ num' = num
    PROVE  IInv'
  <1>1. TypeOK'
    <2>1. call' \in [Targets -> Calls]
      BY CallsTyped, Zenon
    <2>2. dev' \in Numbers \cup {0}
      BY Zenon DEF IInv, TypeOK
    <2> QED BY <2>1, <2>2, Zenon DEF IInv, TypeOK
  <1>2. \A t \in Targets : Keeps(t) => Keeps(t)'
    BY Zenon DEF Keeps, At, Idle
  <1>3. \A t \in Targets : need'[t] # "none" => need[t] # "none"
    <2> SUFFICES ASSUME NEW t \in Targets PROVE need'[t] # "none" => need[t] # "none"
      OBVIOUS
    <2>1. need'[t] = IF need[t] = "published" THEN need'[t] ELSE need[t]
      BY Zenon
    <2> QED BY <2>1, Zenon
  <1>4. VolumeTrue'
    <2>1. vol.kind = "lvm" /\ dev' # 0 => \E t \in Targets : Keeps(t)'
      BY <1>2, Zenon DEF IInv, VolumeTrue
    <2>2. vol.kind = "bcache" =>
              \A t, u \in Targets : need'[t] # "none" /\ need'[u] # "none" => t = u
      BY <1>3 DEF IInv, VolumeTrue
    <2> QED BY <2>1, <2>2, Zenon DEF IInv, VolumeTrue, DataKept, ExpandTrue
  <1>5. ASSUME NEW t \in Targets PROVE TargetTrue(t)'
    <2>1. PlaceTrue(t) /\ call'[t] = Idle
      BY Zenon DEF IInv, TargetTrue
    <2>2. PlaceTrue(t)'
      BY <2>1, Zenon DEF PlaceTrue, Shown, Clean, Rewiped
    <2> QED BY <2>1, <2>2, InNone, Zenon
  <1> QED BY <1>1, <1>4, <1>5, Zenon DEF IInv

LEMMA NodeStep == ASSUME IInv, Crash \/ Reboot \/ Reactivate PROVE IInv'
  <1>1. /\ faults \in 0..MaxFaults /\ num \in Numbers /\ holder \in Targets \cup {None}
        /\ bcache \in [sb : BOOLEAN, on : BOOLEAN, dirty : BOOLEAN]
        /\ need \in [Targets -> {"none", "publish", "tried", "published", "unpublish"}]
        /\ mnt \in [Targets -> Numbers \cup {0}] /\ call \in [Targets -> Calls]
    BY Zenon DEF IInv, TypeOK
  <1>2. faults' \in 0..MaxFaults
    BY <1>1 DEF Crash, Reboot, Reactivate, Fault
  <1>3. CASE Crash
    BY <1>1, <1>2, <1>3, QuietStep, Zenon DEF Crash, volumeVars, nodeVars, kubeletVars
  <1>4. CASE Reboot
    <2>1. /\ UNCHANGED <<vol, size, fs, data, dir, node, grown, pods, slips>>
          /\ call' = [t \in Targets |-> Idle] /\ holder' = None
          /\ mnt' = [t \in Targets |-> 0] /\ dev' = 0 /\ num' \in Numbers
          /\ need' = [t \in Targets |-> IF need[t] = "published" THEN "tried" ELSE need[t]]
      BY <1>4, Zenon DEF Reboot
    <2>2. bcache' \in [sb : BOOLEAN, on : BOOLEAN, dirty : BOOLEAN] /\ bcache'.sb = bcache.sb
      BY <1>1, <1>4, Zenon DEF Reboot
    <2>3. /\ need' \in [Targets -> {"none", "publish", "tried", "published", "unpublish"}]
          /\ \A t \in Targets : need'[t] = IF need[t] = "published" THEN "tried" ELSE need[t]
      BY <1>1, <2>1, Zenon
    <2>4. mnt' \in [Targets -> Numbers \cup {0}] /\ \A t \in Targets : mnt'[t] = 0
      BY <2>1, Zenon
    <2> QED BY <1>2, <2>1, <2>2, <2>3, <2>4, QuietStep, Zenon
  <1>5. CASE Reactivate
    <2>1. /\ \A t \in Targets : call[t] = Idle /\ mnt[t] = 0 /\ need[t] # "published"
          /\ num' \in Numbers
          /\ UNCHANGED <<vol, size, fs, data, bcache, nodeVars, kubeletVars, call, holder, slips>>
      BY <1>5, Zenon DEF Reactivate
    <2>2. call' = [t \in Targets |-> Idle]
      BY <1>1, <2>1, Zenon
    <2> QED BY <1>1, <1>2, <2>1, <2>2, QuietStep, Zenon DEF nodeVars, kubeletVars
  <1> QED BY <1>3, <1>4, <1>5, Zenon

LEMMA InitIInv == Init => IInv
  <1> SUFFICES ASSUME Init PROVE IInv
    OBVIOUS
  <1>1. num \in Numbers
    BY Zenon DEF Init
  <1>2. TypeOK
    BY <1>1, CallsTyped DEF Init, TypeOK
  <1>3. VolumeTrue
    BY Zenon DEF Init, VolumeTrue, DataKept, ExpandTrue
  <1>4. ASSUME NEW t \in Targets PROVE TargetTrue(t)
    BY Zenon DEF Init, TargetTrue, Locked, NeedTrue, PlaceTrue, Clean, PublishSteps, UnpublishSteps,
           ExpandSteps, At, Idle
  <1> QED BY <1>2, <1>3, <1>4, Zenon DEF IInv

LEMMA NextIInv == IInv /\ [Next]_vars => IInv'
  <1> SUFFICES ASSUME IInv, [Next]_vars PROVE IInv'
    OBVIOUS
  <1>1. ASSUME NEW t \in Targets, Serve(t) PROVE IInv'
    <2>1. CASE Call(t) \/ Aborted(t)
      BY <2>1, KubeletStep, EndStep, Zenon
    <2>2. CASE Publish(t) \/ Unpublish(t)
      BY <2>2, PublishIInv, UnpublishIInv, Zenon
    <2>3. CASE NodeExpandVolume(t) \/ Reply(t)
      BY <2>3, ExpandIInv, ReplyStep, Zenon
    <2> QED BY <1>1, <2>1, <2>2, <2>3, Zenon DEF Serve
  <1>2. CASE UNCHANGED vars
    <2>1. UNCHANGED <<vol, volumeVars, nodeVars, kubeletVars, call, holder, slips, faults>>
      BY <1>2, Zenon DEF vars
    <2>2. TypeOK'
      BY <2>1, Zenon DEF IInv, TypeOK, volumeVars, nodeVars, kubeletVars
    <2>3. VolumeTrue'
      BY <2>1, Zenon DEF IInv, VolumeTrue, DataKept, ExpandTrue, Keeps, At, Rewiped, volumeVars, nodeVars,
           kubeletVars
    <2>4. ASSUME NEW t \in Targets PROVE TargetTrue(t)'
      <3>1. TargetTrue(t)
        BY Zenon DEF IInv
      <3>2. (Locked(t)' => holder' = t) /\ NeedTrue(t)' /\ ExpandSteps(t)'
        BY <2>1, <3>1, Zenon DEF TargetTrue, Locked, NeedTrue, ExpandSteps, At, volumeVars, kubeletVars
      <3>3. PlaceTrue(t)'
        BY <2>1, <3>1, Zenon DEF TargetTrue, PlaceTrue, Shown, Clean, Rewiped, volumeVars,
               nodeVars, kubeletVars
      <3>4. PublishSteps(t)'
        BY <2>1, <3>1, Zenon DEF TargetTrue, PublishSteps, Shown, Rewiped, volumeVars, nodeVars
      <3>5. UnpublishSteps(t)'
        BY <2>1, <3>1, Zenon DEF TargetTrue, UnpublishSteps, Clean, Rewiped, nodeVars
      <3> QED BY <3>2, <3>3, <3>4, <3>5, Zenon DEF TargetTrue
    <2> QED BY <2>2, <2>3, <2>4, Zenon DEF IInv
  <1>3. ASSUME NEW t \in Targets,
               PodStart(t) \/ PodStop(t) \/ PodWrites(t) \/ Fail(t) \/ KubeletRestart(t)
        PROVE  IInv'
    BY <1>3, KubeletStep, PodWritesStep, EndStep, Zenon
  <1>4. CASE Grow \/ Crash \/ Reboot \/ Reactivate
    BY <1>4, GrowStep, NodeStep, Zenon
  <1> QED BY <1>1, <1>2, <1>3, <1>4, Zenon DEF Next

LEMMA Inductive == Spec => []IInv
  BY InitIInv, NextIInv, PTL DEF Spec
-----------------------------------------------------------------------------
\* The variables keep their types, and no call is at a step that its code does
\* not have.
THEOREM PublishTyped == Spec => []TypeOK
  <1>1. IInv => TypeOK
    BY Zenon DEF IInv
  <1> QED BY <1>1, Inductive, PTL

\* What a pod sees at its target after NodePublishVolume has answered OK is the
\* volume, whatever is done for other pods, fails or is repeated.
THEOREM PublishStaysTrue == Spec => []PublishTrue
  <1>1. IInv => PublishTrue
    BY Zenon DEF IInv, TargetTrue, PlaceTrue, Shown, PublishTrue
  <1> QED BY <1>1, Inductive, PTL

\* Publishing and unpublishing never destroy data, except that of a bcache volume
\* that is published again while its device runs or its cache is dirty.
THEOREM DataStaysKept == Spec => []DataKept
  <1>1. IInv => DataKept
    BY Zenon DEF IInv, VolumeTrue
  <1> QED BY <1>1, Inductive, PTL

\* After the last NodeUnpublishVolume nothing of the volume is left on the node,
\* whatever was cut short before.
THEOREM UnusedStaysClean == Spec => []UnusedClean
  <1>1. IInv => UnusedClean
    <2> SUFFICES ASSUME IInv, \A t \in Targets : need[t] = "none"
                 PROVE  /\ dir = {} /\ (vol.kind # "bcache" => dev = 0)
                        /\ \A t \in Targets : mnt[t] = 0 /\ node[t] = 0
      BY Zenon DEF UnusedClean
    <2>1. \A t \in Targets : Clean(t) /\ ~Keeps(t)
      BY Zenon DEF IInv, TargetTrue, PlaceTrue, Keeps
    <2>2. dir \subseteq Targets
      BY Zenon DEF IInv, TypeOK
    <2> QED BY <2>1, <2>2, Zenon DEF Clean, IInv, VolumeTrue
  <1> QED BY <1>1, Inductive, PTL

\* NodeExpandVolume has answered OK for a filesystem only if that is as large as
\* its volume, unless the device file was removed between its check and the lock.
THEOREM ExpandStaysTrue == Spec => []ExpandTrue
  <1>1. IInv => ExpandTrue
    BY Zenon DEF IInv, VolumeTrue
  <1> QED BY <1>1, Inductive, PTL
=============================================================================
