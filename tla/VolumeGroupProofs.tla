-------------------------- MODULE VolumeGroupProofs --------------------------
(***************************************************************************)
(* Proofs about VolumeGroup, for any number of goroutines, volumes, disks  *)
(* and sizes.                                                              *)
(*                                                                         *)
(* The inductive invariant says what the mutex protects: the goroutine     *)
(* between TryAcquire and Release is the holder; what it read is what is   *)
(* there, unless a command outside the mutex ran since; and the emptiness  *)
(* of the group that it read is always still true, because no command      *)
(* outside the mutex touches a volume.  From it follow, in this order, the *)
(* refinement of VolumeStore, the reserve of the group, and that a nil     *)
(* error is true.                                                          *)
(***************************************************************************)
EXTENDS VolumeGroup, TLAPS

\* A call that is under way has an attempt left.
TriesLeft == \A p \in Procs : pc[p] # "idle" => tries[p] >= 1

\* Physical volumes never shrink.
PvGrows == \A d \in Disks : pvSize[d] >= PvSize[d]

\* The reading of the mutex holder.
ReadingHolds ==
    \A p \in Procs :
        pc[p] = "exec" /\ call[p].op # "add" =>
            /\ ~stale => seen[p].free = vgFree
            /\ seen[p].empty => \A v \in Vols : lv[v] = 0

\* The two halves of the type invariant: the calls, and the group.
CallsOK ==
    /\ lock \in Procs \cup {None}
    /\ pc \in [Procs -> {"idle", "call", "read", "exec", "release"}]
    /\ call \in [Procs -> Calls]
    /\ tries \in [Procs -> 0..MaxTries]
    /\ res \in [Procs -> {"none", "ok", "exhausted", "error"}]
    /\ seen \in [Procs -> Readings]
    /\ stale \in BOOLEAN

LvmOK ==
    /\ lv \in [Vols -> Nat]
    /\ vgFree \in Nat
    /\ disk \in [Disks -> {"blank", "pv", "member", "missing", "gone"}]
    /\ pvSize \in [Disks -> Nat]
    /\ PvGrows

IInv == TypeOK /\ MutexHeld /\ TriesLeft /\ PvGrows /\ ReadingHolds

USE ConstantsAssumption DEF Procs

LEMMA NoTypes == NoReading \in Readings /\ NoCall \in Calls
  BY DEF NoReading, Readings, Calls

LEMMA InitIInv == Init => IInv
  <1> SUFFICES ASSUME Init PROVE IInv
    OBVIOUS
  <1>0. PvSize \in [Disks -> Nat]
    OBVIOUS
  <1>1. TypeOK
    <2>1. lock \in Procs \cup {None} /\ vgFree \in Nat /\ stale \in BOOLEAN
      BY Zenon DEF Init
    <2>2. lv \in [Vols -> Nat] /\ pvSize \in [Disks -> Nat]
      BY <1>0 DEF Init
    <2>3. disk \in [Disks -> {"blank", "pv", "member", "missing", "gone"}]
      BY DEF Init
    <2>4. /\ pc \in [Procs -> {"idle", "call", "read", "exec", "release"}]
          /\ res \in [Procs -> {"none", "ok", "exhausted", "error"}]
          /\ tries \in [Procs -> 0..MaxTries]
      BY DEF Init
    <2>5. call \in [Procs -> Calls] /\ seen \in [Procs -> Readings]
      BY NoTypes DEF Init
    <2> QED BY <2>1, <2>2, <2>3, <2>4, <2>5 DEF TypeOK
  <1>2. \A p \in Procs : pc[p] = "idle" /\ lock # p
    BY DEF Init
  <1>3. MutexHeld /\ TriesLeft /\ ReadingHolds
    BY <1>2 DEF MutexHeld, TriesLeft, ReadingHolds
  <1>4. PvGrows
    BY DEF Init, PvGrows
  <1> QED BY <1>1, <1>3, <1>4 DEF IInv

\* What Return does to the variables of its call.
LEMMA ReturnType ==
    ASSUME TypeOK, NEW p \in Procs, NEW r, tries[p] >= 1, Return(p, r)
    PROVE  /\ pc' \in [Procs -> {"idle", "call", "read", "exec", "release"}]
           /\ call' \in [Procs -> Calls]
           /\ tries' \in [Procs -> 0..MaxTries]
           /\ res' \in [Procs -> {"none", "ok", "exhausted", "error"}]
           /\ seen' \in [Procs -> Readings]
           /\ \A q \in Procs : q # p => pc'[q] = pc[q] /\ tries'[q] = tries[q]
           /\ pc'[p] \in {"idle", "call"}
           /\ pc'[p] # "idle" => tries'[p] >= 1
  <1> DEFINE over == r = "ok" \/ tries[p] = 1
  <1>1. /\ pc' = [pc EXCEPT ![p] = IF over THEN "idle" ELSE "call"]
        /\ tries' = [tries EXCEPT ![p] = IF over THEN 0 ELSE tries[p] - 1]
        /\ call' = IF over THEN [call EXCEPT ![p] = NoCall] ELSE call
        /\ res' = [res EXCEPT ![p] = "none"]
        /\ seen' = [seen EXCEPT ![p] = NoReading]
    BY DEF Return, Goto
  <1>2. (IF over THEN 0 ELSE tries[p] - 1) \in 0..MaxTries
    BY DEF TypeOK
  <1>3. ~over => tries[p] - 1 >= 1
    BY DEF TypeOK
  <1> HIDE DEF over
  <1> QED BY <1>1, <1>2, <1>3, NoTypes DEF TypeOK

\* Only the mutex holder is at "exec": once it leaves, no reading is in use.
LEMMA FinishStep ==
    ASSUME IInv, NEW p \in Procs, pc[p] \in {"read", "exec"},
           NEW r \in {"ok", "exhausted", "error"}, Finish(p, r)
    PROVE  CallsOK' /\ MutexHeld' /\ TriesLeft' /\ ReadingHolds'
  <1>1. /\ res' = [res EXCEPT ![p] = r]
        /\ pc' = [pc EXCEPT ![p] = "release"]
        /\ UNCHANGED <<lock, call, tries, seen, stale>>
    BY DEF Finish, Goto
  <1>2. CallsOK' /\ TriesLeft'
    BY <1>1 DEF IInv, TypeOK, CallsOK, TriesLeft
  <1>3. lock = p /\ MutexHeld'
    BY <1>1 DEF IInv, TypeOK, MutexHeld
  <1>4. \A q \in Procs : pc'[q] # "exec"
    BY <1>1, <1>3 DEF IInv, TypeOK, MutexHeld
  <1> QED BY <1>2, <1>3, <1>4 DEF ReadingHolds

LEMMA CallTypes ==
    ASSUME TypeOK, NEW p \in Procs
    PROVE  /\ call[p].op \in {"create", "resize"} =>
                call[p].target \in Vols /\ call[p].size \in Sizes
           /\ call[p].op = "delete" => call[p].target \in Vols
           /\ call[p].op \in {"add", "remove"} => call[p].target \in Disks
  BY DEF TypeOK, Calls, VolumeCalls, DiskCalls, NoCall

(* Each LVM command keeps the group well-formed and is a step, or no step, *)
(* of the abstract store.                                                  *)

StoreStep == Store!Next \/ UNCHANGED <<lv, vgFree>>

LEMMA LVCreateStep ==
    ASSUME LvmOK, NEW v \in Vols, NEW s \in Sizes, LVCreateFromVG(v, s)
    PROVE  LvmOK' /\ StoreStep
  <1>1. LvmOK'
    BY DEF LvmOK, PvGrows, LVCreateFromVG
  <1>2. Store!Create(v)
    <2>1. s \in 1..vgFree
      BY DEF LvmOK, LVCreateFromVG
    <2> QED BY <2>1, Zenon DEF LVCreateFromVG, Store!Create
  <1> QED BY <1>1, <1>2 DEF StoreStep, Store!Next

LEMMA LVResizeStep ==
    ASSUME LvmOK, NEW v \in Vols, NEW s \in Sizes, lv[v] > 0, LVResize(v, s)
    PROVE  LvmOK' /\ StoreStep
  <1>1. LvmOK'
    BY DEF LvmOK, PvGrows, LVResize
  <1>2. Store!Expand(v)
    <2> DEFINE k == s - lv[v]
    <2>1. k \in 1..vgFree /\ lv[v] + k = s
      BY DEF LvmOK, LVResize
    <2>2. lv' = [lv EXCEPT ![v] = lv[v] + k] /\ vgFree' = vgFree - k
      BY <2>1, Zenon DEF LVResize
    <2> HIDE DEF k
    <2> QED BY <2>1, <2>2, Zenon DEF Store!Expand, LVResize
  <1> QED BY <1>1, <1>2 DEF StoreStep, Store!Next

LEMMA LVRemoveStep ==
    ASSUME LvmOK, NEW v \in Vols, LVRemove(v)
    PROVE  LvmOK' /\ StoreStep
  <1>1. LvmOK'
    BY DEF LvmOK, PvGrows, LVRemove
  <1>2. Store!Delete(v)
    BY DEF LVRemove, Store!Delete
  <1> QED BY <1>1, <1>2 DEF StoreStep, Store!Next

LEMMA CapacityStep ==
    ASSUME LvmOK', UNCHANGED lv
    PROVE  StoreStep
  BY DEF StoreStep, Store!Next, Store!ChangeCapacity, LvmOK

LEMMA DiskCommandStep ==
    ASSUME LvmOK, NEW d \in Disks, NEW after \in {"blank", "pv"},
           PVCreate(d) \/ VGExtend(d) \/ VGReduce(d, after)
    PROVE  LvmOK' /\ StoreStep
  <1>1. LvmOK' /\ UNCHANGED lv
    BY DEF LvmOK, PvGrows, PVCreate, VGExtend, VGReduce
  <1> QED BY <1>1, CapacityStep

\* vgremove -f harms no volume when the group has none.
LEMMA VGRemoveStep ==
    ASSUME LvmOK, NEW d \in Disks, NEW after \in {"blank", "pv"},
           VGRemove(d, after), \A v \in Vols : lv[v] = 0
    PROVE  LvmOK' /\ StoreStep
  <1>1. UNCHANGED lv
    BY DEF LvmOK, VGRemove
  <1>2. LvmOK'
    BY <1>1 DEF LvmOK, PvGrows, VGRemove
  <1> QED BY <1>1, <1>2, CapacityStep

LEMMA IdleCommand ==
    ASSUME LvmOK, UNCHANGED lvmVars
    PROVE  LvmOK' /\ StoreStep
  BY DEF LvmOK, PvGrows, lvmVars, StoreStep
-----------------------------------------------------------------------------
(* Every step preserves the invariant and is a step of the abstract store. *)

Good == IInv' /\ StoreStep

LEMMA Halves == IInv <=> /\ CallsOK /\ LvmOK
                         /\ MutexHeld /\ TriesLeft /\ ReadingHolds
  BY DEF IInv, TypeOK, CallsOK, LvmOK

LEMMA FinishGood ==
    ASSUME IInv, NEW p \in Procs, pc[p] \in {"read", "exec"},
           NEW r \in {"ok", "exhausted", "error"}, Finish(p, r),
           LvmOK' /\ StoreStep
    PROVE  Good
  <1>1. CallsOK' /\ MutexHeld' /\ TriesLeft' /\ ReadingHolds'
    BY FinishStep
  <1> QED BY <1>1, Halves, PTL DEF Good

LEMMA CommandFailsGood ==
    ASSUME IInv, NEW p \in Procs, pc[p] \in {"read", "exec"}, CommandFails(p)
    PROVE  Good
  <1>1. LvmOK' /\ StoreStep
    BY IdleCommand, Halves DEF CommandFails
  <1> QED BY <1>1, FinishGood DEF CommandFails

LEMMA VGDisplayGood ==
    ASSUME IInv, NEW p \in Procs, pc[p] = "read", VGDisplay(p)
    PROVE  Good
  <1>1. /\ pc' = [pc EXCEPT ![p] = "exec"]
        /\ seen' = [seen EXCEPT ![p] =
                       [free  |-> vgFree,
                        last  |-> InGroup = {call[p].target},
                        empty |-> \A v \in Vols : lv[v] = 0]]
        /\ stale' = FALSE
        /\ UNCHANGED <<lock, lv, vgFree, disk, pvSize, call, tries, res>>
    BY DEF VGDisplay, Goto, lvmVars
  <1>2. [free  |-> vgFree,
         last  |-> InGroup = {call[p].target},
         empty |-> \A v \in Vols : lv[v] = 0] \in Readings
    BY DEF IInv, TypeOK, Readings
  <1>3. CallsOK' /\ TriesLeft'
    BY <1>1, <1>2, Zenon DEF IInv, TypeOK, CallsOK, TriesLeft
  <1>4. lock = p /\ MutexHeld'
    BY <1>1 DEF IInv, TypeOK, MutexHeld
  <1>5. \A q \in Procs : pc'[q] = "exec" => q = p
    BY <1>1, <1>4 DEF IInv, TypeOK, MutexHeld
  <1>6. /\ seen'[p].free = vgFree'
        /\ seen'[p].empty => \A v \in Vols : lv'[v] = 0
    BY <1>1 DEF IInv, TypeOK
  <1>7. ReadingHolds'
    BY <1>5, <1>6 DEF ReadingHolds
  <1>8. LvmOK' /\ StoreStep
    BY <1>1, IdleCommand, Halves DEF lvmVars
  <1> QED BY <1>3, <1>4, <1>7, <1>8, Halves, PTL DEF Good

\* The lock free steps of a call: entry, failed TryAcquire and Release move
\* only one goroutine, and never to a place where its reading matters.
LEMMA CallGood ==
    ASSUME IInv, NEW p \in Procs, Call(p)
    PROVE  Good
  <1>1. PICK c \in Calls : Begin(p, c)
    BY DEF Call, Calls
  <1>a. \A n \in Attempts(p, c) : n \in 1..MaxTries
    BY ConstantsAssumption DEF Attempts
  <1>b. PICK n \in 1..MaxTries : tries' = [tries EXCEPT ![p] = n]
    BY <1>1, <1>a, Zenon DEF Begin
  <1>2. CallsOK' /\ TriesLeft'
    BY <1>1, <1>b DEF IInv, TypeOK, CallsOK, TriesLeft, Begin, Goto
  <1>3. /\ MutexHeld'
        /\ \A q \in Procs : pc'[q] = "exec" => pc[q] = "exec" /\ q # p
    BY <1>1 DEF IInv, TypeOK, MutexHeld, Begin, Goto
  <1>4. ReadingHolds'
    BY <1>1, <1>3 DEF IInv, TypeOK, ReadingHolds, Begin, lvmVars
  <1>5. LvmOK' /\ StoreStep
    BY <1>1, IdleCommand, Halves DEF Begin
  <1> QED BY <1>2, <1>3, <1>4, <1>5, Halves, PTL DEF Good

LEMMA TryAcquireGood ==
    ASSUME IInv, NEW p \in Procs, TryAcquire(p)
    PROVE  Good
  <1>1. LvmOK' /\ StoreStep
    BY IdleCommand, Halves DEF TryAcquire
  <1>2. CASE lock = None
    <2>1. /\ lock' = p
          /\ pc' = [pc EXCEPT ![p] = "read"]
          /\ UNCHANGED <<lv, vgFree, call, tries, res, seen, stale>>
      BY <1>2 DEF TryAcquire, Goto, lvmVars
    <2>2. CallsOK' /\ TriesLeft'
      BY <2>1 DEF IInv, TypeOK, CallsOK, TriesLeft, TryAcquire
    <2>3. MutexHeld' /\ \A q \in Procs : pc'[q] # "exec"
      BY <1>2, <2>1 DEF IInv, TypeOK, MutexHeld
    <2>4. ReadingHolds'
      BY <2>3 DEF ReadingHolds
    <2> QED BY <1>1, <2>2, <2>3, <2>4, Halves, PTL DEF Good
  <1>3. CASE lock # None
    <2>1. /\ Return(p, "error")
          /\ UNCHANGED <<lock, lv, vgFree, stale>>
      BY <1>3 DEF TryAcquire, lvmVars
    <2>2. tries[p] >= 1 /\ pc[p] = "call"
      BY DEF TryAcquire, IInv, TriesLeft
    <2>3. CallsOK' /\ TriesLeft'
      BY <2>1, <2>2, ReturnType DEF IInv, TypeOK, CallsOK, TriesLeft
    <2>4. /\ pc'[p] \in {"idle", "call"}
          /\ \A q \in Procs : q # p => pc'[q] = pc[q]
      BY <2>1, <2>2, ReturnType DEF IInv
    <2>5. MutexHeld'
      BY <2>1, <2>2, <2>4 DEF IInv, MutexHeld
    <2>6. \A q \in Procs \ {p} : call'[q] = call[q] /\ seen'[q] = seen[q]
      BY <2>1 DEF Return, IInv, TypeOK
    <2>7. ReadingHolds'
      BY <2>1, <2>4, <2>6 DEF IInv, ReadingHolds
    <2> QED BY <1>1, <2>3, <2>5, <2>7, Halves, PTL DEF Good
  <1> QED BY <1>2, <1>3

LEMMA ReleaseGood ==
    ASSUME IInv, NEW p \in Procs, Release(p)
    PROVE  Good
  <1>1. LvmOK' /\ StoreStep
    BY IdleCommand, Halves DEF Release
  <1>2. /\ Return(p, res[p])
        /\ lock' = None /\ stale' = FALSE
        /\ tries[p] >= 1 /\ lock = p
    BY DEF Release, IInv, TriesLeft, MutexHeld
  <1>3. CallsOK' /\ TriesLeft'
    BY <1>2, ReturnType, Zenon DEF IInv, TypeOK, CallsOK, TriesLeft
  <1>4. /\ pc'[p] \in {"idle", "call"}
        /\ \A q \in Procs : q # p => pc'[q] = pc[q]
    BY <1>2, ReturnType DEF IInv
  <1>5. MutexHeld' /\ \A q \in Procs : pc'[q] # "exec"
    BY <1>2, <1>4 DEF IInv, MutexHeld
  <1>6. ReadingHolds'
    BY <1>5 DEF ReadingHolds
  <1> QED BY <1>1, <1>3, <1>5, <1>6, Halves, PTL DEF Good

(* The operations.                                                         *)

LEMMA CreateGood ==
    ASSUME IInv, NEW p \in Procs, CreateRead(p) \/ CreateVolume(p)
    PROVE  Good
  <1>1. CASE CreateRead(p)
    BY <1>1, VGDisplayGood, CommandFailsGood DEF CreateRead, At
  <1>2. CASE CreateVolume(p)
    <2> DEFINE v == call[p].target
               s == call[p].size
    <2>1. pc[p] = "exec" /\ v \in Vols /\ s \in Sizes
      BY <1>2, CallTypes DEF CreateVolume, At, IInv
    <2>2. CASE \E r \in {"ok", "exhausted"} :
                  Finish(p, r) /\ UNCHANGED lvmVars
      BY <2>1, <2>2, IdleCommand, FinishGood, Halves
    <2>3. CASE LVCreateFromVG(v, s) /\ Finish(p, "ok")
      BY <2>1, <2>3, LVCreateStep, FinishGood, Halves, Zenon
    <2>4. CASE CommandFails(p)
      BY <2>1, <2>4, CommandFailsGood
    <2> QED BY <1>2, <2>2, <2>3, <2>4 DEF CreateVolume
  <1> QED BY <1>1, <1>2

LEMMA ResizeGood ==
    ASSUME IInv, NEW p \in Procs, ResizeRead(p) \/ ResizeVolume(p)
    PROVE  Good
  <1>1. CASE ResizeRead(p)
    BY <1>1, VGDisplayGood, CommandFailsGood, SMTT(20) DEF ResizeRead, At
  <1>2. CASE ResizeVolume(p)
    <2> DEFINE v == call[p].target
               s == call[p].size
    <2>1. pc[p] = "exec" /\ v \in Vols /\ s \in Sizes
      BY <1>2, CallTypes DEF ResizeVolume, At, IInv
    <2>2. CASE \E r \in {"ok", "exhausted"} :
                  Finish(p, r) /\ UNCHANGED lvmVars
      BY <2>1, <2>2, IdleCommand, FinishGood, Halves
    <2>3. CASE lv[v] > 0 /\ LVResize(v, s) /\ Finish(p, "ok")
      BY <2>1, <2>3, LVResizeStep, FinishGood, Halves, Zenon
    <2>4. CASE CommandFails(p)
      BY <2>1, <2>4, CommandFailsGood
    <2> QED BY <1>2, <2>2, <2>3, <2>4, SMTT(20) DEF ResizeVolume
  <1> QED BY <1>1, <1>2

LEMMA DeleteGood ==
    ASSUME IInv, NEW p \in Procs, DeleteVolume(p)
    PROVE  Good
  <1> DEFINE v == call[p].target
  <1>1. pc[p] = "read" /\ v \in Vols
    BY CallTypes DEF DeleteVolume, At, IInv
  <1>2. CASE Finish(p, "ok") /\ UNCHANGED lvmVars
    BY <1>1, <1>2, IdleCommand, FinishGood, Halves
  <1>3. CASE LVRemove(v) /\ Finish(p, "ok")
    BY <1>1, <1>3, LVRemoveStep, FinishGood, Halves
  <1>4. CASE CommandFails(p)
    BY <1>1, <1>4, CommandFailsGood
  <1> QED BY <1>2, <1>3, <1>4 DEF DeleteVolume

LEMMA AddPvGood ==
    ASSUME IInv, NEW p \in Procs, AddPv(p)
    PROVE  Good
  <1> DEFINE d == call[p].target
  <1>1. pc[p] = "read" /\ d \in Disks /\ call[p].op = "add"
    BY CallTypes DEF AddPv, At, IInv
  <1>2. CASE CommandFails(p)
    BY <1>1, <1>2, CommandFailsGood
  <1>3. CASE /\ PVCreate(d) \/ UNCHANGED lvmVars
             /\ Goto(p, "exec")
             /\ UNCHANGED <<lock, call, tries, res, seen, stale>>
    <2>1. LvmOK' /\ StoreStep
      BY <1>1, <1>3, IdleCommand, DiskCommandStep, Halves
    <2>2. CallsOK' /\ TriesLeft'
      BY <1>3 DEF IInv, TypeOK, CallsOK, TriesLeft, Goto, AddPv, At
    <2>3. lock = p /\ MutexHeld'
      BY <1>1, <1>3 DEF IInv, TypeOK, MutexHeld, Goto
    <2>4. \A q \in Procs : pc'[q] = "exec" => q = p
      BY <1>1, <1>3, <2>3 DEF IInv, TypeOK, MutexHeld, Goto
    <2>5. call'[p].op = "add"
      BY <1>1, <1>3
    <2>6. ReadingHolds'
      BY <2>4, <2>5 DEF ReadingHolds
    <2> QED BY <2>1, <2>2, <2>3, <2>6, Halves, PTL DEF Good
  <1> QED BY <1>2, <1>3 DEF AddPv

LEMMA AddGood ==
    ASSUME IInv, NEW p \in Procs, AddNewDiskToVg(p)
    PROVE  Good
  <1> DEFINE d == call[p].target
  <1>1. pc[p] = "exec" /\ d \in Disks
    BY CallTypes DEF AddNewDiskToVg, At, IInv
  <1>2. CASE VGExtend(d) /\ Finish(p, "ok")
    BY <1>1, <1>2, DiskCommandStep, FinishGood, Halves
  <1>3. CASE CommandFails(p)
    BY <1>1, <1>3, CommandFailsGood
  <1> QED BY <1>2, <1>3 DEF AddNewDiskToVg

LEMMA RemoveGood ==
    ASSUME IInv, NEW p \in Procs, RemoveRead(p) \/ RemoveDiskInVg(p)
    PROVE  Good
  <1>1. CASE RemoveRead(p)
    BY <1>1, VGDisplayGood, CommandFailsGood, SMTT(20) DEF RemoveRead, At
  <1>2. CASE RemoveDiskInVg(p)
    <2> DEFINE d == call[p].target
               result(after) == IF after = "blank" THEN "ok" ELSE "error"
    <2>1. pc[p] = "exec" /\ d \in Disks /\ call[p].op = "remove"
      BY <1>2, CallTypes DEF RemoveDiskInVg, At, IInv
    <2>2. ASSUME NEW after \in {"blank", "pv"}, MayRemoveGroup(p),
                 VGRemove(d, after), Finish(p, result(after))
          PROVE  Good
      <3>1. \A v \in Vols : lv[v] = 0
        BY <2>1, <2>2 DEF MayRemoveGroup, IInv, ReadingHolds
      <3> QED BY <2>1, <2>2, <3>1, VGRemoveStep, FinishGood, Halves
    <2>3. ASSUME NEW after \in {"blank", "pv"}, VGReduce(d, after),
                 Finish(p, result(after))
          PROVE  Good
      BY <2>1, <2>3, DiskCommandStep, FinishGood, Halves
    <2>4. CASE Finish(p, "exhausted") /\ UNCHANGED lvmVars
      BY <2>1, <2>4, IdleCommand, FinishGood, Halves
    <2>5. CASE CommandFails(p)
      BY <2>1, <2>5, CommandFailsGood
    <2> QED BY <1>2, <2>2, <2>3, <2>4, <2>5 DEF RemoveDiskInVg
  <1> QED BY <1>1, <1>2

(* The steps outside the mutex.                                            *)

LEMMA OutsideGood ==
    ASSUME IInv, NEW d \in Disks,
           PVResize(d) \/ RemoveUnknownDevice(d) \/ DiskFails(d)
    PROVE  Good
  <1>1. LvmOK' /\ UNCHANGED lv
    BY DEF IInv, TypeOK, LvmOK, PvGrows, PVResize, RemoveUnknownDevice,
           DiskFails
  <1>2. StoreStep
    BY <1>1, CapacityStep
  <1>3. UNCHANGED <<lock, pc, call, tries, res, seen>>
    BY DEF PVResize, RemoveUnknownDevice, DiskFails, OutsideMutex
  <1>4. /\ stale' \in BOOLEAN
        /\ \A p \in Procs :
             pc[p] = "exec" /\ ~stale' => ~stale /\ UNCHANGED vgFree
    BY Zenon DEF PVResize, RemoveUnknownDevice, DiskFails, OutsideMutex, IInv, TypeOK
  <1>5. CallsOK' /\ TriesLeft'
    BY <1>3, <1>4 DEF IInv, TypeOK, CallsOK, TriesLeft
  <1>6. MutexHeld'
    BY <1>3 DEF IInv, MutexHeld
  <1>7. ReadingHolds'
    BY <1>1, <1>3, <1>4 DEF IInv, ReadingHolds
  <1> QED BY <1>1, <1>2, <1>5, <1>6, <1>7, Halves, PTL DEF Good

LEMMA RestartGood ==
    ASSUME IInv, Restart
    PROVE  Good
  <1>1. LvmOK' /\ StoreStep
    BY IdleCommand, Halves DEF Restart
  <1>2. \A p \in Procs : pc'[p] = "idle" /\ lock' # p
    BY DEF Restart
  <1>3. MutexHeld' /\ TriesLeft' /\ ReadingHolds'
    BY <1>2 DEF MutexHeld, TriesLeft, ReadingHolds
  <1>4. CallsOK'
    <2>1. lock' \in Procs \cup {None} /\ stale' \in BOOLEAN
      BY Zenon DEF Restart
    <2>2. /\ pc' \in [Procs -> {"idle", "call", "read", "exec", "release"}]
          /\ res' \in [Procs -> {"none", "ok", "exhausted", "error"}]
          /\ tries' \in [Procs -> 0..MaxTries]
      BY DEF Restart
    <2>3. call' \in [Procs -> Calls] /\ seen' \in [Procs -> Readings]
      BY NoTypes DEF Restart
    <2> QED BY <2>1, <2>2, <2>3 DEF CallsOK
  <1> QED BY <1>1, <1>3, <1>4, Halves, PTL DEF Good

LEMMA StepGood ==
    ASSUME IInv, [Next]_vars
    PROVE  Good
  <1>1. ASSUME NEW p \in Procs, Step(p) PROVE Good
    BY <1>1, TryAcquireGood, ReleaseGood, CreateGood, ResizeGood, DeleteGood,
       AddPvGood, AddGood, RemoveGood DEF Step
  <1>2. CASE UNCHANGED vars
    <2>1. IInv'
      BY <1>2 DEF vars, IInv, TypeOK, MutexHeld, TriesLeft, PvGrows,
                  ReadingHolds
    <2> QED BY <1>2, <2>1 DEF vars, Good, StoreStep
  <1> QED BY <1>1, <1>2, CallGood, OutsideGood, RestartGood DEF Next
-----------------------------------------------------------------------------
\* The inductive invariant of volume.go: besides types and the mutex, what an
\* attempt read from VGDisplay still holds unless the scan interfered.
THEOREM Invariance == Spec => []IInv
  <1>1. IInv /\ [Next]_vars => IInv'
    BY StepGood DEF Good
  <1> QED BY InitIInv, <1>1, PTL DEF Spec

\* Type correctness of the volume manager's state.
THEOREM TypeCorrect == Spec => []TypeOK
  <1>1. IInv => TypeOK
    BY DEF IInv
  <1> QED BY Invariance, <1>1, PTL

\* The steps of two operations under VOLUMEMUTEX never interleave.
THEOREM MutualExclusion == Spec => []MutexHeld
  <1>1. IInv => MutexHeld
    BY DEF IInv
  <1> QED BY Invariance, <1>1, PTL

\* volume.go over LVM implements the abstract store: whatever the number of
\* goroutines and disks, no operation harms a volume it is not about.
THEOREM Refinement == Spec => VolumesSafe
  <1>1. Init => Store!Init
    BY DEF Init, Store!Init
  <1>2. IInv /\ [Next]_vars => [Store!Next]_(Store!vars)
    BY StepGood DEF Good, StoreStep, Store!vars
  <1> QED BY <1>1, <1>2, Invariance, PTL DEF Spec, VolumesSafe, Store!Spec
-----------------------------------------------------------------------------
(* The reserve of a group: what an attempt does on a reading that is still *)
(* true leaves the reserve untouched.  Who moves the mutex holder, and by  *)
(* which step, is proved first.                                            *)

\* The steps of another goroutine do not move the mutex holder.
LEMMA OthersKeepPc ==
    ASSUME IInv, NEW p \in Procs, lock = p, NEW q \in Procs, q # p,
           Call(q) \/ Step(q)
    PROVE  pc'[p] = pc[p]
  <1>1. pc[q] \notin {"read", "exec", "release"}
    BY DEF IInv, MutexHeld
  <1>2. CASE Call(q)
    BY <1>2 DEF Call, Begin, Goto, IInv, TypeOK
  <1>3. CASE TryAcquire(q)
    BY <1>3 DEF TryAcquire, Return, Goto, IInv, TypeOK
  <1> QED BY <1>1, <1>2, <1>3
          DEF Step, Release, CreateRead, CreateVolume, ResizeRead,
              ResizeVolume, DeleteVolume, AddPv, AddNewDiskToVg, RemoveRead,
              RemoveDiskInVg, At

\* A goroutine leaves "exec" for "release" only by its own last command.
LEMMA OwnStep ==
    ASSUME IInv, [Next]_vars, NEW p \in Procs,
           pc[p] = "exec", pc'[p] = "release"
    PROVE  \/ CreateVolume(p) \/ ResizeVolume(p)
           \/ AddNewDiskToVg(p) \/ RemoveDiskInVg(p)
  <1>1. ASSUME NEW q \in Procs, q # p, Call(q) \/ Step(q) PROVE FALSE
    BY <1>1, OthersKeepPc DEF IInv, MutexHeld
  <1>2. ASSUME Call(p) \/ TryAcquire(p) \/ Release(p) \/ CreateRead(p)
               \/ ResizeRead(p) \/ DeleteVolume(p) \/ AddPv(p)
               \/ RemoveRead(p)
        PROVE  FALSE
    BY <1>2 DEF Call, Begin, TryAcquire, Release, CreateRead, ResizeRead,
                DeleteVolume, AddPv, RemoveRead, At
  <1>3. ASSUME \/ \E d \in Disks : \/ PVResize(d) \/ RemoveUnknownDevice(d)
                                   \/ DiskFails(d)
               \/ UNCHANGED vars
        PROVE  FALSE
    BY <1>3 DEF PVResize, RemoveUnknownDevice, DiskFails, OutsideMutex, vars
  <1>4. ~Restart
    BY DEF Restart
  <1> QED BY <1>1, <1>2, <1>3, <1>4 DEF Next, Step

LEMMA ReserveLemma ==
    ASSUME LargeDisks, IInv, [Next]_vars
    PROVE  ReserveStep
  <1> SUFFICES ASSUME NEW p \in Procs, pc[p] = "exec", pc'[p] = "release",
                      vgFree' < vgFree, InGroup' # {}, ~stale
               PROVE  vgFree' >= Keep
    BY DEF ReserveStep
  <1> DEFINE t == call[p].target
             s == call[p].size
  <1>1. /\ LvmOK /\ vgFree \in Nat /\ Keep \in Nat
        /\ call[p].op # "add" => seen[p].free = vgFree
    BY DEF Keep, IInv, TypeOK, LvmOK, ReadingHolds
  <1>2. ~UNCHANGED lvmVars /\ ~CommandFails(p)
    BY <1>1 DEF lvmVars, CommandFails
  <1>3. CASE CreateVolume(p)
    <2>1. LVCreateFromVG(t, s) /\ ~Exhausted(p, s)
      BY <1>2, <1>3 DEF CreateVolume
    <2>2. t \in Vols /\ s \in Nat
      BY <1>3, CallTypes, Zenon DEF CreateVolume, At, IInv
    <2>3. seen[p].free = vgFree
      BY <1>1, <1>3 DEF CreateVolume, At
    <2>4. s <= vgFree /\ vgFree' = vgFree - s
      BY <2>1 DEF LVCreateFromVG
    <2>5. ~(USub(vgFree, s) < Keep)
      BY <2>1, <2>3 DEF Exhausted
    <2> QED BY <1>1, <2>2, <2>4, <2>5 DEF USub
  <1>4. CASE ResizeVolume(p)
    <2>1. LVResize(t, s) /\ ~Exhausted(p, USub(s, lv[t]))
      BY <1>2, <1>4 DEF ResizeVolume
    <2>2. t \in Vols /\ s \in Nat /\ lv[t] \in Nat
      BY <1>4, CallTypes, Zenon DEF ResizeVolume, At, IInv, TypeOK
    <2>3. seen[p].free = vgFree
      BY <1>1, <1>4 DEF ResizeVolume, At
    <2>4. /\ s > lv[t] /\ s - lv[t] <= vgFree
          /\ vgFree' = vgFree - (s - lv[t])
      BY <2>1 DEF LVResize
    <2>5. ~(USub(vgFree, USub(s, lv[t])) < Keep)
      BY <2>1, <2>3 DEF Exhausted
    <2>6. USub(s, lv[t]) = s - lv[t]
      BY <2>2, <2>4 DEF USub
    <2>7. USub(vgFree, s - lv[t]) = vgFree - (s - lv[t])
      BY <1>1, <2>2, <2>4 DEF USub
    <2> QED BY <1>1, <2>2, <2>4, <2>5, <2>6, <2>7
  <1>5. CASE AddNewDiskToVg(p)
    <2>1. VGExtend(t) /\ t \in Disks
      BY <1>2, <1>5, CallTypes DEF AddNewDiskToVg, At, IInv
    <2> QED BY <1>1, <2>1 DEF VGExtend, LvmOK
  <1>6. CASE RemoveDiskInVg(p)
    <2>1. PICK after \in {"blank", "pv"} :
               \/ VGRemove(t, after)
               \/ ~NoRoomFor(p, t) /\ VGReduce(t, after)
      BY <1>2, <1>6 DEF RemoveDiskInVg
    <2>2. t \in Disks
      BY <1>6, CallTypes DEF RemoveDiskInVg, At, IInv
    <2>3. CASE VGRemove(t, after)
      BY <2>2, <2>3 DEF VGRemove, InGroup, LvmOK, IInv, TypeOK
    <2>4. CASE ~NoRoomFor(p, t) /\ VGReduce(t, after)
      <3>1. pvSize[t] \in Nat /\ pvSize[t] >= Keep /\ pvSize[t] <= vgFree
        BY <1>1, <2>2, <2>4 DEF LargeDisks, LvmOK, PvGrows, VGReduce
      <3> QED BY <1>1, <1>6, <2>4, <3>1
              DEF VGReduce, NoRoomFor, USub, RemoveDiskInVg, At
    <2> QED BY <2>1, <2>3, <2>4
  <1> QED BY <1>3, <1>4, <1>5, <1>6, OwnStep

\* Nothing done under the mutex draws the group below the reserve on the
\* strength of a reading that is still true.
THEOREM ReserveSafe ==
    ASSUME LargeDisks
    PROVE  Spec => ReserveKept
  <1>1. IInv /\ [Next]_vars => [ReserveStep]_vars
    BY ReserveLemma
  <1> QED BY <1>1, Invariance, PTL DEF Spec, ReserveKept
-----------------------------------------------------------------------------
(* The results of the volume manager: an operation that returns nil has    *)
(* done what it says.  From the last command until the caller has its      *)
(* result the caller holds the mutex, so that the result stays true.       *)

\* Only the device scan changes the disks of the group.
DiskCaller ==
    \A p \in Procs : call[p].op \in {"add", "remove"} => p = Checker

RInv == IInv /\ DiskCaller /\ ResultsTrue

LEMMA InitRInv == Init => RInv
  <1> SUFFICES ASSUME Init PROVE RInv
    OBVIOUS
  <1>1. DiskCaller /\ ResultsTrue
    BY DEF Init, DiskCaller, ResultsTrue, NoCall
  <1> QED BY <1>1, InitIInv DEF RInv

LEMMA DiskCallerStep ==
    ASSUME IInv, DiskCaller, [Next]_vars
    PROVE  DiskCaller'
  <1>1. ASSUME NEW p \in Procs, Call(p) PROVE DiskCaller'
    <2>1. PICK c \in Calls : /\ Begin(p, c)
                             /\ c.op \in {"add", "remove"} => p = Checker
      BY <1>1 DEF Call, Calls, VolumeCalls, DiskCalls
    <2> QED BY <2>1 DEF Begin, DiskCaller, IInv, TypeOK
  <1>2. ASSUME NEW p \in Procs, NEW r, Return(p, r) PROVE DiskCaller'
    BY <1>2 DEF Return, DiskCaller, IInv, TypeOK, NoCall
  <1>3. ASSUME UNCHANGED call PROVE DiskCaller'
    BY <1>3 DEF DiskCaller
  <1>4. ASSUME NEW p \in Procs, Step(p)
        PROVE  UNCHANGED call \/ \E r : Return(p, r)
    BY <1>4, Zenon DEF Step, TryAcquire, Release, CreateRead, CreateVolume,
                ResizeRead, ResizeVolume, DeleteVolume, AddPv,
                AddNewDiskToVg, RemoveRead, RemoveDiskInVg, VGDisplay,
                CommandFails, Finish
  <1>5. CASE Restart
    BY <1>5, SMTT(20) DEF Restart, DiskCaller, NoCall
  <1> QED BY <1>1, <1>2, <1>3, <1>4, <1>5
          DEF Next, vars, PVResize, RemoveUnknownDevice, DiskFails,
              OutsideMutex

\* While a goroutine holds its result, nobody else touches a volume, and
\* only a failure touches a disk if the goroutine is the device scan.
LEMMA ResultUndisturbed ==
    ASSUME IInv, [Next]_vars, NEW p \in Procs,
           pc[p] = "release", pc'[p] = "release"
    PROVE  /\ UNCHANGED lv /\ call'[p] = call[p] /\ res'[p] = res[p]
           /\ p = Checker => UNCHANGED disk \/ \E d \in Disks : DiskFails(d)
  <1> DEFINE Goal == /\ UNCHANGED lv /\ call'[p] = call[p] /\ res'[p] = res[p]
                     /\ p = Checker => \/ UNCHANGED disk
                                       \/ \E d \in Disks : DiskFails(d)
  <1> SUFFICES Goal
    OBVIOUS
  <1> HIDE DEF Goal
  <1>1. ASSUME NEW q \in Procs, Call(q) PROVE Goal
    <2>1. q # p
      BY <1>1 DEF Call, Begin
    <2> QED BY <1>1, <2>1 DEF Goal, Call, Begin, lvmVars, IInv, TypeOK
  <1>2. ASSUME NEW q \in Procs, TryAcquire(q) PROVE Goal
    <2>1. q # p
      BY <1>2 DEF TryAcquire
    <2> QED BY <1>2, <2>1 DEF Goal, TryAcquire, Return, lvmVars, IInv, TypeOK
  <1>3. ASSUME NEW q \in Procs, Release(q) PROVE FALSE
    <2>1. q = p
      BY <1>3 DEF Release, IInv, MutexHeld
    <2> QED BY <1>3, <2>1 DEF Release, Return, Goto, IInv, TypeOK
  <1>4. ASSUME NEW q \in Procs, pc[q] \in {"read", "exec"} PROVE FALSE
    BY <1>4 DEF IInv, MutexHeld
  <1>5. ASSUME NEW d \in Disks,
               PVResize(d) \/ RemoveUnknownDevice(d) \/ DiskFails(d)
        PROVE  Goal
    BY <1>5 DEF Goal, PVResize, RemoveUnknownDevice, DiskFails, OutsideMutex
  <1>6. ~Restart
    BY DEF Restart
  <1>7. CASE UNCHANGED vars
    BY <1>7 DEF Goal, vars
  <1> QED BY <1>1, <1>2, <1>3, <1>4, <1>5, <1>6, <1>7
          DEF Next, Step, CreateRead, CreateVolume, ResizeRead, ResizeVolume,
              DeleteVolume, AddPv, AddNewDiskToVg, RemoveRead,
              RemoveDiskInVg, At

\* A goroutine that goes from "read" to "release" with a nil error ran
\* DeleteVolume.
LEMMA OwnDelete ==
    ASSUME IInv, [Next]_vars, NEW p \in Procs,
           pc[p] = "read", pc'[p] = "release", res'[p] = "ok"
    PROVE  DeleteVolume(p)
  <1>1. ASSUME NEW q \in Procs, q # p, Call(q) \/ Step(q) PROVE FALSE
    BY <1>1, OthersKeepPc DEF IInv, MutexHeld
  <1>2. ASSUME Call(p) \/ TryAcquire(p) \/ Release(p) \/ CreateVolume(p)
               \/ ResizeVolume(p) \/ AddNewDiskToVg(p) \/ RemoveDiskInVg(p)
        PROVE  FALSE
    BY <1>2 DEF Call, Begin, TryAcquire, Release, CreateVolume, ResizeVolume,
                AddNewDiskToVg, RemoveDiskInVg, At
  <1>3. ASSUME CreateRead(p) \/ ResizeRead(p) \/ AddPv(p) \/ RemoveRead(p)
        PROVE  FALSE
    BY <1>3 DEF CreateRead, ResizeRead, AddPv, RemoveRead, VGDisplay,
                CommandFails, Finish, Goto, IInv, TypeOK
  <1>4. ASSUME \/ \E d \in Disks : \/ PVResize(d) \/ RemoveUnknownDevice(d)
                                   \/ DiskFails(d)
               \/ UNCHANGED vars
        PROVE  FALSE
    BY <1>4 DEF PVResize, RemoveUnknownDevice, DiskFails, OutsideMutex, vars
  <1>5. ~Restart
    BY DEF Restart
  <1> QED BY <1>1, <1>2, <1>3, <1>4, <1>5 DEF Next, Step

LEMMA ResultsStep ==
    ASSUME RInv, [Next]_vars
    PROVE  ResultsTrue'
  <1> SUFFICES ASSUME NEW p \in Procs, pc'[p] = "release", res'[p] = "ok"
               PROVE  /\ call'[p].op = "create" => lv'[call'[p].target] > 0
                      /\ call'[p].op = "delete" => lv'[call'[p].target] = 0
                      /\ call'[p].op = "add"    => call'[p].target \in InGroup'
                      /\ call'[p].op = "remove" => call'[p].target \notin InGroup'
    BY DEF ResultsTrue
  <1> DEFINE t == call[p].target
             s == call[p].size
  <1>0. IInv /\ TypeOK
    BY DEF RInv, IInv
  <1>1. CASE pc[p] = "release"
    <2>1. /\ UNCHANGED lv /\ call'[p] = call[p] /\ res'[p] = res[p]
          /\ p = Checker => UNCHANGED disk \/ \E d \in Disks : DiskFails(d)
      BY <1>0, <1>1, ResultUndisturbed
    <2>2. p = Checker => InGroup' = InGroup
      BY <1>0, <2>1 DEF InGroup, DiskFails, TypeOK
    <2> QED BY <1>1, <2>1, <2>2 DEF RInv, ResultsTrue, DiskCaller
  <1>2. CASE pc[p] = "read"
    <2>1. DeleteVolume(p)
      BY <1>0, <1>2, OwnDelete
    <2>2. ~CommandFails(p)
      BY <1>0 DEF CommandFails, Finish, TypeOK
    <2>3. t \in Vols /\ call[p].op = "delete"
      BY <1>0, <2>1, CallTypes DEF DeleteVolume, At
    <2>4. /\ call' = call
          /\ LVRemove(t) \/ (lv[t] = 0 /\ UNCHANGED lvmVars)
      BY <1>0, <2>1, <2>2 DEF DeleteVolume, Finish, TypeOK
    <2>5. lv'[t] = 0
      BY <1>0, <2>3, <2>4 DEF LVRemove, lvmVars, TypeOK
    <2> QED BY <2>3, <2>4, <2>5
  <1>3. CASE pc[p] = "exec"
    <2>1. ~CommandFails(p)
      BY <1>0 DEF CommandFails, Finish, TypeOK
    <2>2. CASE CreateVolume(p)
      <3>1. t \in Vols /\ s \in Sizes /\ call[p].op = "create"
        BY <1>0, <2>2, CallTypes DEF CreateVolume, At
      <3>2. /\ call' = call
            /\ LVCreateFromVG(t, s) \/ (lv[t] > 0 /\ UNCHANGED lvmVars)
        BY <1>0, <2>1, <2>2 DEF CreateVolume, Finish, TypeOK
      <3>3. s \in Nat /\ s > 0
        <4>1. \A x \in Sizes : x \in Nat /\ x > 0
          OBVIOUS
        <4> QED BY <3>1, <4>1
      <3>4. LVCreateFromVG(t, s) => lv'[t] = s
        BY <1>0, <3>1 DEF LVCreateFromVG, TypeOK
      <3>5. lv'[t] > 0
        BY <3>2, <3>3, <3>4, SMTT(20) DEF lvmVars
      <3> QED BY <3>1, <3>2, <3>5
    <2>3. CASE ResizeVolume(p)
      BY <2>3 DEF ResizeVolume, At, Finish, CommandFails
    <2>4. CASE AddNewDiskToVg(p)
      <3>1. t \in Disks /\ call[p].op = "add"
        BY <1>0, <2>4, CallTypes DEF AddNewDiskToVg, At
      <3>2. call' = call /\ VGExtend(t)
        BY <2>1, <2>4 DEF AddNewDiskToVg, Finish
      <3> QED BY <1>0, <3>1, <3>2 DEF VGExtend, InGroup, TypeOK
    <2>5. CASE RemoveDiskInVg(p)
      <3>1. t \in Disks /\ call[p].op = "remove"
        BY <1>0, <2>5, CallTypes DEF RemoveDiskInVg, At
      <3>2. /\ call' = call
            /\ \E after \in {"blank", "pv"} :
                  VGRemove(t, after) \/ VGReduce(t, after)
        BY <1>0, <2>1, <2>5 DEF RemoveDiskInVg, Finish, TypeOK
      <3>3. disk'[t] \in {"blank", "pv"}
        BY <1>0, <3>1, <3>2 DEF VGRemove, VGReduce, TypeOK
      <3> QED BY <3>1, <3>2, <3>3 DEF InGroup
    <2> QED BY <1>0, <1>3, <2>2, <2>3, <2>4, <2>5, OwnStep
  <1>4. CASE pc[p] \in {"idle", "call"}
    <2>1. ASSUME NEW q \in Procs, Call(q) \/ Step(q) PROVE FALSE
      <3>1. CASE q # p
        <4>1. CASE Step(q)
          <5>1. PICK l : Goto(q, l)
            BY <4>1, Zenon
               DEF Step, TryAcquire, Return, Release, CreateRead,
                   CreateVolume, ResizeRead, ResizeVolume, DeleteVolume,
                   AddPv, AddNewDiskToVg, RemoveRead, RemoveDiskInVg,
                   VGDisplay, CommandFails, Finish
          <5> QED BY <1>0, <1>4, <3>1, <5>1 DEF Goto, TypeOK
        <4>2. CASE Call(q)
          BY <1>0, <1>4, <3>1, <4>2, SMTT(20) DEF Call, Begin, Goto, TypeOK
        <4> QED BY <2>1, <4>1, <4>2
      <3>2. CASE q = p
        BY <1>0, <1>4, <2>1, <3>2
           DEF TypeOK, Step, Call, Begin, TryAcquire, Return, Release,
               CreateRead, CreateVolume, ResizeRead, ResizeVolume,
               DeleteVolume, AddPv, AddNewDiskToVg, RemoveRead,
               RemoveDiskInVg, Goto, At
      <3> QED BY <3>1, <3>2
    <2>2. pc' # pc /\ ~Restart
      BY <1>4 DEF Restart
    <2> QED BY <2>1, <2>2
            DEF Next, PVResize, RemoveUnknownDevice, DiskFails, OutsideMutex,
                vars
  <1> QED BY <1>0, <1>1, <1>2, <1>3, <1>4 DEF TypeOK

\* A nil error of CreateVolume, DeleteVolume, AddNewDiskToVg and
\* RemoveDiskInVg is true when the caller gets it.
THEOREM TrueResults == Spec => []ResultsTrue
  <1>1. RInv /\ [Next]_vars => RInv'
    BY StepGood, DiskCallerStep, ResultsStep DEF RInv, Good
  <1>2. RInv => ResultsTrue
    BY DEF RInv
  <1> QED BY InitRInv, <1>1, <1>2, PTL DEF Spec
=============================================================================
