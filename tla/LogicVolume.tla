----------------------------- MODULE LogicVolume -----------------------------
(***************************************************************************)
(* The life of LVM volumes as LogicVolume objects, on one node.            *)
(*                                                                         *)
(* carina-controller serves the CSI calls of the external provisioner by   *)
(* writing LogicVolume objects and waiting for their status                *)
(* (pkg/csidriver/driver/k8s/logicvolume_service.go).  carina-node         *)
(* reconciles the objects with the local volumes                           *)
(* (controllers/logicvolume_controller.go) and looks for local volumes     *)
(* that no object describes (runners/troubleshoot.go).  carina-controller  *)
(* looks for objects that no persistent volume needs                       *)
(* (controllers/node_controller.go).  Both processes read through informer *)
(* caches that lag behind the API server.                                  *)
(*                                                                         *)
(* A volume is named by a number; the API server lists objects in the      *)
(* order of their names.  CreateVolume, ResizeVolume and DeleteVolume of   *)
(* the volume manager are one step each here: VolumeGroup shows that they  *)
(* behave like steps of VolumeStore.                                       *)
(***************************************************************************)
EXTENDS Integers

CONSTANTS
    Vols,       \* names of volumes, numbers
    Sizes,      \* sizes a claim may ask for
    Capacity,   \* size of the device group
    Keep,       \* DefaultReservedSpace - DefaultEdgeSpace
    Word,       \* number of values of an unsigned machine word
    Versions,   \* resource versions, reused when nothing refers to them
    MaxFaults,  \* bound on failures, timeouts and restarts
    CtlLag,     \* TRUE: the cache of carina-controller may lag
    TsRuns,     \* TRUE: troubleshoot runs on the node
    NcRuns,     \* TRUE: the node controller's cleanup runs
    None

ASSUME LogicVolumeAssumption ==
    /\ Vols \subseteq Nat /\ None \notin Vols
    /\ \A S \in SUBSET Vols : S # {} => \E v \in S : \A w \in S : w <= v
    /\ Sizes \subseteq Nat \ {0}
    /\ Capacity \in Nat /\ Keep \in Nat /\ Word \in Nat /\ MaxFaults \in Nat
    /\ CtlLag \in BOOLEAN /\ TsRuns \in BOOLEAN /\ NcRuns \in BOOLEAN
    /\ Versions # {}
    /\ \A a, b, c, d \in Versions : \E n \in Versions : n \notin {a, b, c, d}

VARIABLES
    api,        \* LogicVolume objects in the API server, by name
    nodeSees,   \* the cache of carina-node
    ctlSees,    \* the cache of carina-controller
    lv,         \* size of each local volume, 0 while it does not exist
    free,       \* free space of the device group
    queued,     \* names in the reconciler's work queue
    rec,        \* the reconciler's progress on each name
    want,       \* size of the claim for each volume, 0 for no claim
    gone,       \* volumes whose claim was deleted
    pv,         \* capacity of each PersistentVolume, 0 while there is none
    csi,        \* CSI call in progress for each volume
    ts,         \* progress of cleanupOrphanVolume
    nc,         \* progress of getNeedRebuildVolume
    faults      \* number of faults so far

apiVars == <<api, nodeSees, ctlSees>>
localVars == <<lv, free>>
recVars == <<queued, rec>>
claimVars == <<want, gone, pv>>
vars == <<api, nodeSees, ctlSees, lv, free, queued, rec, want, gone, pv, csi,
          ts, nc, faults>>

(* A LogicVolume object.  status.volumeID and status.currentSize are set   *)
(* together, so cur > 0 stands for both.                                   *)
Objects == [ver : Versions, size : Nat, cur : Nat, code : {"OK", "Err"},
            st : {"", "Success", "Failed"}, del : BOOLEAN, fin : BOOLEAN]

\* An object on its way to the API server may have no version yet.
Drafts == [ver : Versions \cup {None}, size : Nat, cur : Nat, code : {"OK", "Err"},
           st : {"", "Success", "Failed"}, del : BOOLEAN, fin : BOOLEAN]

ASSUME ObjectAssumption == None \notin Drafts

\* Mutant: the object is created without the finalizer.
NewObject_NoFinalizer(s) == [ver |-> None, size |-> s, cur |-> 0, code |-> "OK",
                             st |-> "", del |-> FALSE, fin |-> FALSE]

NewObject(s) == [ver |-> None, size |-> s, cur |-> 0, code |-> "OK",
                 st |-> "", del |-> FALSE, fin |-> TRUE]

IdleRec == [pc |-> "idle", base |-> None, copy |-> None]
IdleCsi == [pc |-> "idle", tgt |-> None, size |-> 0]
IdleTs == [pc |-> "idle", vols |-> {}]
IdleNc == [pc |-> "idle", vols |-> {}, cur |-> None]

Init ==
    /\ api = [v \in Vols |-> None]
    /\ nodeSees = [v \in Vols |-> None]
    /\ ctlSees = [v \in Vols |-> None]
    /\ lv = [v \in Vols |-> 0]
    /\ free = Capacity
    /\ queued = {}
    /\ rec = [v \in Vols |-> IdleRec]
    /\ want = [v \in Vols |-> 0]
    /\ gone = {}
    /\ pv = [v \in Vols |-> 0]
    /\ csi = [v \in Vols |-> IdleCsi]
    /\ ts = IdleTs
    /\ nc = IdleNc
    /\ faults = 0

Fault == faults < MaxFaults /\ faults' = faults + 1
-----------------------------------------------------------------------------
(* The API server and the caches.                                          *)

\* A version that no object, cached object or pending write has.
FreshVersion(v) ==
    LET held == {api[v], nodeSees[v], ctlSees[v], rec[v].base} \ {None}
    IN CHOOSE n \in Versions : \A o \in held : o.ver # n

\* A write gives an object a new version, unless it changes nothing.
Writes(v, o) ==
    api' = [api EXCEPT ![v] =
              IF o = None \/ o = api[v] THEN o ELSE [o EXCEPT !.ver = FreshVersion(v)]]

\* Delete marks an object that has the finalizer, and removes another.
Deleted(o) == IF o.fin THEN [o EXCEPT !.del = TRUE] ELSE None

\* The merge patch that removes the finalizer: by name, with no check of
\* the version; it completes a deletion.
Stripped(o) == IF o.del THEN None ELSE [o EXCEPT !.fin = FALSE]

\* What a reader of carina-controller's cache gets.
Cached(v) == IF CtlLag THEN ctlSees[v] ELSE api[v]

\* RetryMissingGetter.Get: the cache first, the API server when not found.
Get(v) == IF Cached(v) # None THEN Cached(v) ELSE api[v]

HasId(o) == o # None /\ o.cur > 0

Last(S) == CHOOSE v \in S : \A w \in S : w <= v

\* GetByVolumeId: the name of the object with v's volume ID, from the index
\* of the cache, else from a list of the API server.  The address of the
\* loop variable is taken in the second case, which after the loop holds the
\* last object of the list.
GetByVolumeId(v) ==
    IF HasId(Cached(v)) THEN v
    ELSE IF HasId(api[v]) THEN Last({w \in Vols : api[w] # None})
    ELSE None

Found(v, t) == IF t = v /\ HasId(Cached(v)) THEN Cached(v) ELSE api[t]

\* An informer delivers the present state of an object.
SyncCtl(v) ==
    /\ CtlLag
    /\ ctlSees[v] # api[v]
    /\ ctlSees' = [ctlSees EXCEPT ![v] = api[v]]
    /\ UNCHANGED <<api, nodeSees, localVars, recVars, claimVars, csi, ts, nc,
                   faults>>

\* On carina-node the event also puts the name into the work queue.
SyncNode(v) ==
    /\ nodeSees[v] # api[v]
    /\ nodeSees' = [nodeSees EXCEPT ![v] = api[v]]
    /\ queued' = queued \cup {v}
    /\ UNCHANGED <<api, ctlSees, localVars, rec, claimVars, csi, ts, nc, faults>>
-----------------------------------------------------------------------------
(* The user, and the sidecars that turn claims into CSI calls.             *)

Claim(v) ==
    /\ want[v] = 0 /\ v \notin gone
    /\ \E s \in Sizes : want' = [want EXCEPT ![v] = s]
    /\ UNCHANGED <<apiVars, localVars, recVars, gone, pv, csi, ts, nc, faults>>

EnlargeClaim(v) ==
    /\ pv[v] > 0 /\ v \notin gone
    /\ \E s \in Sizes : s > want[v] /\ want' = [want EXCEPT ![v] = s]
    /\ UNCHANGED <<apiVars, localVars, recVars, gone, pv, csi, ts, nc, faults>>

\* Also before there is a PV, when the provisioner gives up.
DeleteClaim(v) ==
    /\ want[v] > 0 /\ v \notin gone
    /\ pv[v] > 0 \/ csi[v].pc = "idle"
    /\ gone' = gone \cup {v}
    /\ UNCHANGED <<apiVars, localVars, recVars, want, pv, csi, ts, nc, faults>>

\* The provisioner records a created volume.
CreatePv(v) ==
    /\ csi[v].pc = "created"
    /\ pv' = [pv EXCEPT ![v] = csi[v].size]
    /\ csi' = [csi EXCEPT ![v] = IdleCsi]
    /\ UNCHANGED <<apiVars, localVars, recVars, want, gone, ts, nc, faults>>

\* A call is cancelled, carina-controller restarts, or the answer is lost;
\* the sidecar will call again.
CallLost(v) ==
    /\ csi[v].pc # "idle"
    /\ Fault
    /\ csi' = [csi EXCEPT ![v] = IdleCsi]
    /\ UNCHANGED <<apiVars, localVars, recVars, claimVars, ts, nc>>
-----------------------------------------------------------------------------
(* LogicVolumeService: CreateVolume, DeleteVolume, ExpandVolume.           *)

Calls(v, p, t, s) == csi' = [csi EXCEPT ![v] = [pc |-> p, tgt |-> t, size |-> s]]
Ends(v) == csi' = [csi EXCEPT ![v] = IdleCsi]

\* Adopts an object of that name and size, or creates one.
CreateVolume(v) ==
    /\ csi[v].pc = "idle" /\ want[v] > 0 /\ v \notin gone /\ pv[v] = 0
    /\ \/ /\ Get(v) = None
          /\ Writes(v, NewObject(want[v]))
       \/ /\ Get(v) # None /\ Get(v).size = want[v]
          /\ UNCHANGED api
    /\ Calls(v, "creating", v, want[v])
    /\ UNCHANGED <<nodeSees, ctlSees, localVars, recVars, claimVars, ts, nc,
                   faults>>

\* Mutant: the answer does not wait for status.volumeID.
CreateWait_NoId(v) ==
    LET o == Get(v) IN
    /\ csi[v].pc = "creating"
    /\ o # None /\ o.code = "OK"
    /\ Calls(v, "created", v, csi[v].size)
    /\ UNCHANGED <<apiVars, localVars, recVars, claimVars, ts, nc, faults>>

\* Mutant: a failed object is left in place.
CreateWait_NoDelete(v) ==
    LET o == Get(v) IN
    /\ csi[v].pc = "creating"
    /\ \/ (o = None \/ (~HasId(o) /\ o.code # "OK")) /\ Ends(v)
       \/ HasId(o) /\ Calls(v, "created", v, csi[v].size)
    /\ UNCHANGED <<apiVars, localVars, recVars, claimVars, ts, nc, faults>>

\* The wait for status.volumeID; an object that failed is deleted.
CreateWait(v) ==
    LET o == Get(v) IN
    /\ csi[v].pc = "creating"
    /\ \/ o = None /\ Ends(v) /\ UNCHANGED api
       \/ /\ HasId(o)
          /\ Calls(v, "created", v, csi[v].size)
          /\ UNCHANGED api
       \/ /\ o # None /\ ~HasId(o) /\ o.code # "OK"
          /\ IF api[v] = None THEN UNCHANGED api ELSE Writes(v, Deleted(api[v]))
          /\ Ends(v)
    /\ UNCHANGED <<nodeSees, ctlSees, localVars, recVars, claimVars, ts, nc,
                   faults>>

\* The answer OK to DeleteVolume lets the provisioner remove the PV.
DropPv(v) ==
    /\ Ends(v)
    /\ pv' = [pv EXCEPT ![v] = 0]
    /\ want' = [want EXCEPT ![v] = 0]
    /\ UNCHANGED gone

\* Mutant: the answer does not wait for the node.
DeleteVolume_NoWait(v) ==
    LET t == GetByVolumeId(v) IN
    /\ csi[v].pc = "idle" /\ v \in gone /\ pv[v] > 0
    /\ IF t = None \/ api[t] = None THEN UNCHANGED api
                                   ELSE Writes(t, Deleted(api[t]))
    /\ DropPv(v)
    /\ UNCHANGED <<nodeSees, ctlSees, localVars, recVars, ts, nc, faults>>

\* A repeated call while the object is being deleted is an error.
DeleteVolume(v) ==
    LET t == GetByVolumeId(v) IN
    /\ csi[v].pc = "idle" /\ v \in gone /\ pv[v] > 0
    /\ \/ t = None /\ DropPv(v) /\ UNCHANGED api
       \/ /\ t # None /\ ~Found(v, t).del
          /\ \/ api[t] = None /\ DropPv(v) /\ UNCHANGED api
             \/ /\ api[t] # None
                /\ Writes(t, Deleted(api[t]))
                /\ Calls(v, "deleting", t, 0)
                /\ UNCHANGED claimVars
    /\ UNCHANGED <<nodeSees, ctlSees, localVars, recVars, ts, nc, faults>>

\* The wait for the object to disappear.
DeleteWait(v) ==
    /\ csi[v].pc = "deleting"
    /\ Get(csi[v].tgt) = None
    /\ DropPv(v)
    /\ UNCHANGED <<apiVars, localVars, recVars, ts, nc, faults>>

\* The answer OK to ControllerExpandVolume enlarges the PV.
GrowPv(v, s) ==
    /\ Ends(v)
    /\ pv' = [pv EXCEPT ![v] = s]
    /\ UNCHANGED <<want, gone>>

\* ControllerExpandVolume and ExpandVolume up to the update of spec.size and
\* of the time in an annotation, so that every update is a new version; an
\* update based on an old version is a conflict and is tried again.  The
\* capacity check reads the node's last report and may refuse.
ExpandVolume(v) ==
    LET t == GetByVolumeId(v) IN
    /\ csi[v].pc = "idle" /\ v \notin gone /\ want[v] > pv[v] /\ pv[v] > 0
    /\ t # None
    /\ \/ /\ want[v] <= Found(v, t).cur
          /\ GrowPv(v, Found(v, t).cur)
          /\ UNCHANGED api
       \/ /\ want[v] > Found(v, t).cur
          /\ Found(v, t) = api[t]
          /\ Writes(t, [api[t] EXCEPT !.size = want[v], !.ver = None])
          /\ Calls(v, "expanding", t, want[v])
          /\ UNCHANGED claimVars
    /\ UNCHANGED <<nodeSees, ctlSees, localVars, recVars, ts, nc, faults>>

\* The wait for status.currentSize to reach spec.size.
ExpandWait(v) ==
    LET o == Get(csi[v].tgt) IN
    /\ csi[v].pc = "expanding"
    /\ \/ ~HasId(o) /\ Ends(v) /\ UNCHANGED claimVars
       \/ /\ HasId(o) /\ o.cur = o.size
          /\ \/ o.code # "OK" /\ Ends(v) /\ UNCHANGED claimVars
             \/ o.code = "OK" /\ GrowPv(v, csi[v].size)
    /\ UNCHANGED <<apiVars, localVars, recVars, ts, nc, faults>>

\* The calls poll until the context's deadline.
Waits(v) ==
    LET o == Get(csi[v].tgt) IN
    \/ csi[v].pc = "creating" /\ o # None /\ ~HasId(o) /\ o.code = "OK"
    \/ csi[v].pc = "deleting" /\ o # None
    \/ csi[v].pc = "expanding" /\ HasId(o) /\ o.cur # o.size

Deadline(v) ==
    /\ Waits(v)
    /\ Ends(v)
    /\ UNCHANGED <<apiVars, localVars, recVars, claimVars, ts, nc, faults>>
-----------------------------------------------------------------------------
(* LogicVolumeReconciler.  One worker at a time works on a name.           *)

RecGoes(v, p, b, c) == rec' = [rec EXCEPT ![v] = [pc |-> p, base |-> b, copy |-> c]]
RecEnds(v) == rec' = [rec EXCEPT ![v] = IdleRec]

\* Mutant: the error is swallowed and the name not queued again.
RecFails_Forgotten(v) == RecEnds(v) /\ UNCHANGED queued

\* The worker returns an error: the name goes back into the queue.
RecFails(v) == RecEnds(v) /\ queued' = queued \cup {v}

Reconcile(v) ==
    LET o == nodeSees[v] IN
    /\ v \in queued /\ rec[v].pc = "idle"
    /\ queued' = queued \ {v}
    /\ \/ /\ \/ o = None
             \/ o # None /\ ~o.del /\ ~HasId(o) /\ o.code # "OK"
             \/ o # None /\ ~o.del /\ HasId(o) /\ o.size <= o.cur
             \/ o # None /\ o.del /\ ~o.fin
          /\ UNCHANGED rec
       \/ /\ o # None /\ ~o.del /\ ~HasId(o) /\ o.code = "OK"
          /\ RecGoes(v, "create", o, o)
       \/ /\ o # None /\ ~o.del /\ HasId(o) /\ o.size > o.cur
          /\ RecGoes(v, "expand", o, o)
       \/ /\ o # None /\ o.del /\ o.fin
          /\ RecGoes(v, "remove", o, o)
    /\ UNCHANGED <<apiVars, localVars, claimVars, csi, ts, nc, faults>>

USub(a, b) == IF a >= b THEN a - b ELSE a - b + Word
Exhausted(need) == USub(free, need) < Keep

\* The volume manager takes k from the free space for volume v.
Allocate(v, k) ==
    /\ lv' = [lv EXCEPT ![v] = lv[v] + k]
    /\ free' = free - k

Saving(v, o) == RecGoes(v, "save", rec[v].base, o)

CreateDone(o) == [o EXCEPT !.cur = o.size, !.code = "OK", !.st = "Success"]
\* Mutant: status.volumeID is set before the error is looked at.
CreateFailed_WithId(o) == [o EXCEPT !.cur = o.size, !.code = "Err", !.st = "Failed"]
CreateFailed(o) == [o EXCEPT !.code = "Err", !.st = "Failed"]

\* Mutant: no check that the volume exists.
CreateLv_Again(v) ==
    LET o == rec[v].copy IN
    /\ rec[v].pc = "create"
    /\ \/ ~Exhausted(o.size) /\ Allocate(v, o.size) /\ Saving(v, CreateDone(o))
       \/ Exhausted(o.size) /\ Saving(v, CreateFailed(o)) /\ UNCHANGED localVars
    /\ UNCHANGED <<apiVars, queued, claimVars, csi, ts, nc, faults>>

\* createLV up to the notice: the space check comes before the check that
\* the volume exists.
CreateLv(v) ==
    LET o == rec[v].copy IN
    /\ rec[v].pc = "create"
    /\ \/ /\ ~Exhausted(o.size)
          /\ \/ lv[v] > 0 /\ UNCHANGED localVars
             \/ lv[v] = 0 /\ o.size <= free /\ Allocate(v, o.size)
          /\ Saving(v, CreateDone(o))
          /\ UNCHANGED faults
       \/ /\ \/ (Exhausted(o.size) \/ (lv[v] = 0 /\ o.size > free)) /\ UNCHANGED faults
             \/ Fault
          /\ Saving(v, CreateFailed(o))
          /\ UNCHANGED localVars
    /\ UNCHANGED <<apiVars, queued, claimVars, csi, ts, nc>>

ExpandDone(o) == CreateDone(o)
ExpandFailed(o, c) == [o EXCEPT !.code = c, !.st = "Failed"]

\* expandLV up to the notice.  ResizeVolume returns nil when LVDisplay
\* fails, in particular for a volume that does not exist.
ExpandLv(v) ==
    LET o == rec[v].copy
        need == USub(o.size, lv[v])
    IN
    /\ rec[v].pc = "expand"
    /\ \/ /\ \/ lv[v] = 0 /\ UNCHANGED <<localVars, faults>>
             \/ lv[v] > 0 /\ Fault /\ UNCHANGED localVars
             \/ lv[v] = o.size /\ UNCHANGED <<localVars, faults>>
             \/ /\ lv[v] > 0 /\ lv[v] < o.size
                /\ ~Exhausted(need) /\ need <= free
                /\ Allocate(v, need)
                /\ UNCHANGED faults
          /\ Saving(v, ExpandDone(o))
       \/ /\ lv[v] > 0 /\ lv[v] # o.size
          /\ \/ /\ Exhausted(need)
                /\ Saving(v, ExpandFailed(o, "Err"))
                /\ UNCHANGED faults
             \/ /\ ~Exhausted(need)
                /\ Saving(v, ExpandFailed(o, o.code))
                /\ (need > free /\ UNCHANGED faults) \/ Fault
          /\ UNCHANGED localVars
    /\ UNCHANGED <<apiVars, queued, claimVars, csi, ts, nc>>

\* Status().Update: a conflict unless the object is the one that was read;
\* only the status is written.
SaveStatus(v) ==
    LET c == rec[v].copy IN
    /\ rec[v].pc = "save"
    /\ \/ /\ api[v] = rec[v].base
          /\ Writes(v, c)
          /\ RecEnds(v)
          /\ UNCHANGED queued
       \/ /\ api[v] # rec[v].base
          /\ RecFails(v)
          /\ UNCHANGED api
    /\ UNCHANGED <<nodeSees, ctlSees, localVars, claimVars, csi, ts, nc, faults>>

\* removeLVIfExists: delete the local volume, then take the finalizer off.
RemoveLv(v) ==
    /\ rec[v].pc = "remove"
    /\ lv' = [lv EXCEPT ![v] = 0]
    /\ free' = free + lv[v]
    /\ RecGoes(v, "patch", rec[v].base, None)
    /\ UNCHANGED <<apiVars, queued, claimVars, csi, ts, nc, faults>>

RemoveFinalizer(v) ==
    /\ rec[v].pc = "patch"
    /\ \/ api[v] = None /\ RecFails(v) /\ UNCHANGED api
       \/ /\ api[v] # None
          /\ Writes(v, Stripped(api[v]))
          /\ RecEnds(v)
          /\ UNCHANGED queued
    /\ UNCHANGED <<nodeSees, ctlSees, localVars, claimVars, csi, ts, nc, faults>>

\* The worker fails on the way: DeleteVolume fails, the capacity notice is
\* not answered within 5 seconds, or the API server refuses the write.
ReconcileFails(v) ==
    /\ rec[v].pc \in {"remove", "save", "patch"}
    /\ Fault
    /\ RecFails(v)
    /\ UNCHANGED <<apiVars, localVars, claimVars, csi, ts, nc>>

\* carina-node restarts: it lists the objects anew and queues them all.
NodeRestarts ==
    /\ Fault
    /\ nodeSees' = api
    /\ queued' = {v \in Vols : api[v] # None}
    /\ rec' = [v \in Vols |-> IdleRec]
    /\ ts' = IdleTs
    /\ UNCHANGED <<api, ctlSees, localVars, claimVars, csi, nc>>
-----------------------------------------------------------------------------
(* cleanupOrphanVolume: list the local volumes, then the objects, then     *)
(* treat the volumes that no object describes one by one.                  *)

ListLocalVolumes ==
    /\ TsRuns /\ ts.pc = "idle"
    /\ \E v \in Vols : lv[v] > 0
    /\ ts' = [pc |-> "listed", vols |-> {v \in Vols : lv[v] > 0}]
    /\ UNCHANGED <<apiVars, localVars, recVars, claimVars, csi, nc, faults>>

TsNext(S) == ts' = IF S = {} THEN IdleTs ELSE [pc |-> "clean", vols |-> S]

ListObjects ==
    /\ ts.pc = "listed"
    /\ TsNext({v \in ts.vols : nodeSees[v] = None})
    /\ UNCHANGED <<apiVars, localVars, recVars, claimVars, csi, nc, faults>>

\* Mutant: an orphan without a PV is left in place.
CleanOrphan_RepairOnly(v) ==
    /\ ts.pc = "clean" /\ v \in ts.vols
    /\ TsNext(ts.vols \ {v})
    /\ IF pv[v] > 0 /\ api[v] = None THEN Writes(v, NewObject(pv[v]))
                                     ELSE UNCHANGED api
    /\ UNCHANGED <<nodeSees, ctlSees, localVars, recVars, claimVars, csi, nc, faults>>

\* A volume with a PV gets a new object; the API server drops the status
\* that the code fills in.  A volume without is deleted.
CleanOrphan(v) ==
    /\ ts.pc = "clean" /\ v \in ts.vols
    /\ TsNext(ts.vols \ {v})
    /\ \/ /\ pv[v] > 0
          /\ IF api[v] = None THEN Writes(v, NewObject(pv[v]))
                              ELSE UNCHANGED api
          /\ UNCHANGED <<localVars, faults>>
       \/ /\ pv[v] = 0
          /\ lv' = [lv EXCEPT ![v] = 0]
          /\ free' = free + lv[v]
          /\ UNCHANGED <<api, faults>>
       \/ pv[v] = 0 /\ Fault /\ UNCHANGED <<api, localVars>>
    /\ UNCHANGED <<nodeSees, ctlSees, recVars, claimVars, csi, nc>>
-----------------------------------------------------------------------------
(* getNeedRebuildVolume, the part that removes objects without a PV: list  *)
(* the objects, then the PVs, then delete and strip one by one.            *)

\* Mutant: only objects with status Success are considered.
NcListObjects_Success ==
    /\ NcRuns /\ nc.pc = "idle"
    /\ LET S == {v \in Vols : /\ Cached(v) # None
                              /\ Cached(v).st = "Success" /\ Cached(v).fin}
       IN S # {} /\ nc' = [pc |-> "listed", vols |-> S, cur |-> None]
    /\ UNCHANGED <<apiVars, localVars, recVars, claimVars, csi, ts, faults>>

NcListObjects ==
    /\ NcRuns /\ nc.pc = "idle"
    /\ LET S == {v \in Vols : /\ Cached(v) # None
                              /\ Cached(v).st # "" /\ Cached(v).fin}
       IN S # {} /\ nc' = [pc |-> "listed", vols |-> S, cur |-> None]
    /\ UNCHANGED <<apiVars, localVars, recVars, claimVars, csi, ts, faults>>

NcNext(S) ==
    nc' = IF S = {} THEN IdleNc ELSE [pc |-> "delete", vols |-> S, cur |-> None]

NcListPvs ==
    /\ nc.pc = "listed"
    /\ NcNext({v \in nc.vols : pv[v] = 0})
    /\ UNCHANGED <<apiVars, localVars, recVars, claimVars, csi, ts, faults>>

NcDelete(v) ==
    /\ nc.pc = "delete" /\ v \in nc.vols
    /\ \/ api[v] = None /\ nc' = IdleNc /\ UNCHANGED api
       \/ /\ api[v] # None
          /\ Writes(v, Deleted(api[v]))
          /\ nc' = [pc |-> "patch", vols |-> nc.vols \ {v}, cur |-> v]
    /\ UNCHANGED <<nodeSees, ctlSees, localVars, recVars, claimVars, csi, ts,
                   faults>>

NcRemoveFinalizer ==
    LET v == nc.cur IN
    /\ nc.pc = "patch"
    /\ \/ api[v] = None /\ nc' = IdleNc /\ UNCHANGED api
       \/ /\ api[v] # None
          /\ Writes(v, Stripped(api[v]))
          /\ NcNext(nc.vols)
    /\ UNCHANGED <<nodeSees, ctlSees, localVars, recVars, claimVars, csi, ts,
                   faults>>
-----------------------------------------------------------------------------
User(v) == Claim(v) \/ EnlargeClaim(v) \/ DeleteClaim(v)

Csi(v) ==
    \/ CreateVolume(v) \/ CreateWait(v) \/ CreatePv(v)
    \/ DeleteVolume(v) \/ DeleteWait(v)
    \/ ExpandVolume(v) \/ ExpandWait(v) \/ Deadline(v)

Worker(v) ==
    \/ Reconcile(v) \/ CreateLv(v) \/ ExpandLv(v) \/ RemoveLv(v)
    \/ SaveStatus(v) \/ RemoveFinalizer(v)

TroubleShoot ==
    ListLocalVolumes \/ ListObjects \/ \E v \in Vols : CleanOrphan(v)

NodeController ==
    \/ NcListObjects \/ NcListPvs \/ NcRemoveFinalizer
    \/ \E v \in Vols : NcDelete(v)

Failures == NodeRestarts \/ \E v \in Vols : CallLost(v) \/ ReconcileFails(v)

Next ==
    \/ \E v \in Vols : User(v) \/ Csi(v) \/ Worker(v) \/ SyncCtl(v) \/ SyncNode(v)
    \/ TroubleShoot \/ NodeController \/ Failures

\* Informers deliver, sidecars call again, workers and tickers run.
Fairness ==
    /\ \A v \in Vols : /\ WF_vars(SyncCtl(v)) /\ WF_vars(SyncNode(v))
                       /\ WF_vars(Csi(v)) /\ WF_vars(Worker(v))
    /\ WF_vars(TroubleShoot)
    /\ WF_vars(NodeController)

Spec == Init /\ [][Next]_vars
FairSpec == Spec /\ Fairness

\* A cleanup round takes moments and there are ten minutes between rounds:
\* in the long run no other step falls into one.
QuietRounds ==
    <>[][ts.pc # "idle" \/ nc.pc # "idle" => TroubleShoot \/ NodeController]_vars

QuietSpec == FairSpec /\ QuietRounds
-----------------------------------------------------------------------------
(* Properties                                                              *)

\* Type invariant.  Sizes of local volumes, claims and PVs are sizes that
\* somebody asked for: creating a volume twice does not enlarge it.
TypeOK ==
    /\ api \in [Vols -> Objects \cup {None}]
    /\ nodeSees \in [Vols -> Objects \cup {None}]
    /\ ctlSees \in [Vols -> Objects \cup {None}]
    /\ lv \in [Vols -> Sizes \cup {0}] /\ free \in 0..Capacity
    /\ queued \subseteq Vols
    /\ rec \in [Vols -> [pc : {"idle", "create", "expand", "save", "remove", "patch"},
                         base : Objects \cup {None}, copy : Objects \cup {None}]]
    /\ want \in [Vols -> Sizes \cup {0}] /\ gone \subseteq Vols
    /\ pv \in [Vols -> Sizes \cup {0}]
    /\ csi \in [Vols -> [pc : {"idle", "creating", "created", "deleting", "expanding"},
                         tgt : Vols \cup {None}, size : Sizes \cup {0}]]
    /\ ts \in [pc : {"idle", "listed", "clean"}, vols : SUBSET Vols]
    /\ nc \in [pc : {"idle", "listed", "delete", "patch"}, vols : SUBSET Vols,
               cur : Vols \cup {None}]
    /\ faults \in 0..MaxFaults

\* While no cleanup runs, a PersistentVolume whose claim exists has its local
\* volume: CreateVolume answers OK only when the node has made it, and no
\* retry, lost answer or restart takes it away.
PvBacked == \A v \in Vols : pv[v] > 0 /\ v \notin gone => lv[v] > 0

\* While the node controller's cleanup does not run, a local volume always
\* has an object that holds the finalizer, so removeLVIfExists will get to
\* it: a volume is not forgotten between the API server and the node.
FinalizerGuards == \A v \in Vols : lv[v] > 0 => api[v] # None /\ api[v].fin

\* While no cleanup runs, an object whose status names a volume, and that is
\* not being deleted, has that volume: createLV writes the status after the
\* volume exists, and a stale status never lands on a newer object.
StatusTrue ==
    \A v \in Vols : HasId(api[v]) /\ ~api[v].del => lv[v] > 0

\* While no cleanup runs, DeleteVolume answers OK (and the PV goes) only
\* after the local volume is gone, over retries and lagging caches.
DeleteAcknowledged ==
    [][\A v \in Vols : pv[v] > 0 /\ pv'[v] = 0 => lv[v] = 0]_vars

\* A PV is never larger than its local volume: ExpandVolume is meant to wait
\* until the node has expanded it.
SizeTrue == \A v \in Vols : v \notin gone => pv[v] <= lv[v]

\* DeleteVolume and ExpandVolume work on the object of the volume they are
\* called for: GetByVolumeId finds the object with that volume ID.
OwnObject ==
    \A v \in Vols : csi[v].pc \in {"deleting", "expanding"} => csi[v].tgt = v

\* The node controller deletes only objects that have no PV.
OnlyUnneededDeleted ==
    [][\A v \in Vols : nc.pc = "delete" /\ nc'.cur = v => pv[v] = 0]_vars

\* While no cleanup runs and there is room, a claim gets its PV or is
\* withdrawn: a failed creation is deleted and tried again.
ClaimServed == \A v \in Vols : want[v] > 0 ~> pv[v] > 0 \/ v \in gone

Clean(v) == pv[v] = 0 /\ lv[v] = 0 /\ api[v] = None

\* While no cleanup runs, deleting a claim that has a PV ends with the PV,
\* the local volume and the object gone, whatever fails on the way.
ReleaseServed == \A v \in Vols : v \in gone /\ pv[v] > 0 ~> Clean(v)

\* With both cleanups, a claim deleted at any time, also halfway through its
\* creation, leaves nothing behind, unless a late finalizer patch of
\* removeLVIfExists hit an object created since under the same name: the
\* node controller passes over objects without the finalizer.
NothingLeft ==
    \A v \in Vols : v \in gone ~> Clean(v) \/ (api[v] # None /\ ~api[v].fin)

\* A local volume that lost its object, which the node controller's cleanup
\* can cause, is removed or gets an object again from cleanupOrphanVolume.
OrphanServed ==
    \A v \in Vols : lv[v] > 0 /\ api[v] = None ~> lv[v] = 0 \/ api[v] # None
=============================================================================
