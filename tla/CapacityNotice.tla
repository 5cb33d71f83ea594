---------------------------- MODULE CapacityNotice ----------------------------
(***************************************************************************)
(* The capacity report of a node.                                          *)
(*                                                                         *)
(* Whoever changes the local storage sends a notice on a channel           *)
(* (pkg/devicemanager/manager.go); one goroutine reads the channel and     *)
(* writes the NodeStorageResource object of the node                       *)
(* (runners/nodestorageresource.go), from which the controller and the     *)
(* scheduler place volumes.  The LogicVolume reconciler waits 5 s for its  *)
(* notice to be served before it goes on.  The device scan                 *)
(* (runners/devicecheck.go) and changes of the configuration               *)
(* (pkg/configuration/config.go) send notices too.                         *)
(*                                                                         *)
(* What is reported of a group is abstracted to the volumes in it and      *)
(* whether its second disk has been added.                                 *)
(***************************************************************************)
EXTENDS Integers, Sequences

CONSTANTS
    Workers,    \* reconciler workers, each with a volume of its own
    Cap,        \* capacity of the channel, 500 in the code
    Configs,    \* configurations: names of the disk selectors, scan interval
    Group,      \* name of the group this node has disks for
    MaxChanges, \* bound on changes of volumes, disks and the configuration
    MaxFaults,  \* bound on failures, early timeouts, stops and crashes
    None

ASSUME CapacityNoticeAssumption ==
    /\ Cap \in Nat \ {0} /\ MaxChanges \in Nat /\ MaxFaults \in Nat
    /\ None \notin Workers

VARIABLES
    vols,       \* volumes in the group, named by their workers
    disk,       \* the second disk is in the group
    config,     \* diskConfig
    watcher,    \* OnConfigChange is about to send its event
    modified,   \* events in configModifyChan, which has room for one
    nsr,        \* the status in the NodeStorageResource object
    seen,       \* the copy of the object in the cache of carina-node
    chan,       \* updateChannel: who waits for each notice, or None
    reader,     \* progress of nodeStorageResourceReconciler
    starter,    \* the goroutine of Start is about to send the first notice
    worker,     \* progress of syncNoticeUpdateCapacity
    scan,       \* progress of the device scan and what started it
    timers,     \* running timers of the device scan
    process,    \* "up", "stopping" or "down"
    slips,      \* history: workers confirmed on a copy that was out of date
    changes, faults

storage == <<vols, disk>>
settings == <<config, watcher, modified>>
objects == <<nsr, seen>>
scanVars == <<scan, timers>>
bounds == <<changes, faults>>
vars == <<storage, settings, objects, chan, reader, starter, worker, scanVars,
          process, slips, bounds>>

Blank == [known |-> FALSE, vols |-> {}, disk |-> FALSE]
Statuses == [known : BOOLEAN, vols : SUBSET Workers, disk : BOOLEAN]

\* A copy of the object is current while the object has the same version.
Copies == [status : Statuses, current : BOOLEAN]
CopyOf(status) == IF status = None THEN None ELSE [status |-> status, current |-> TRUE]
Outdated(copy) == IF copy = None THEN None ELSE [copy EXCEPT !.current = FALSE]

ASSUME NoneAssumption == None \notin Statuses /\ None \notin Copies

Readers == [pc : {"off", "select", "get", "trigger", "update", "stopped"},
            event : Workers \cup {None}, obj : Copies \cup {None}, status : Statuses]
Scans == [pc : {"start", "idle", "lvmcheck", "tick", "stopped"},
          by : {"none", "start", "tick", "config"}]

Resting == [pc |-> "select", event |-> None, obj |-> None, status |-> Blank]
ScanIdle == [pc |-> "idle", by |-> "none"]

Fault == faults < MaxFaults /\ faults' = faults + 1
Change == changes < MaxChanges /\ changes' = changes + 1
-----------------------------------------------------------------------------
(* The configuration                                                       *)

\* Names are not empty and not repeated.
validate(c) ==
    /\ \A i \in DOMAIN c.selectors : c.selectors[i] # ""
    /\ \A i, j \in DOMAIN c.selectors : c.selectors[i] = c.selectors[j] => i = j

DiskScanInterval(c) == c.interval

GetNodeDiskSelectGroup == {config.selectors[i] : i \in DOMAIN config.selectors}

\* The program does not start with a configuration that is not valid.
initConfig(c) == validate(c)

\* The first process found a configuration it could start with, and scans.
ASSUME ConfigAssumption == \E c \in Configs : initConfig(c) /\ DiskScanInterval(c) # 0

Init ==
    /\ vols = {} /\ disk = FALSE
    /\ config = (CHOOSE c \in Configs : initConfig(c) /\ DiskScanInterval(c) # 0)
    /\ watcher = FALSE /\ modified = 0
    /\ nsr = None /\ seen = None
    /\ chan = <<>> /\ reader = [Resting EXCEPT !.pc = "off"] /\ starter = FALSE
    /\ worker = [w \in Workers |-> "idle"]
    /\ scan = [ScanIdle EXCEPT !.pc = "start"] /\ timers = 0
    /\ process = "up" /\ slips = {} /\ changes = 0 /\ faults = 0

Running == process # "down"

\* OnConfigChange: the new configuration is in force before it is validated;
\* only a valid one is announced.
dynamicConfig(c) ==
    /\ Running /\ ~watcher /\ c # config /\ Change
    /\ config' = c
    /\ watcher' = validate(c)
    /\ UNCHANGED <<storage, modified, objects, chan, reader, starter, worker, scanVars,
                   process, slips, faults>>

\* c <- struct{}{}
AnnounceConfig ==
    /\ Running /\ watcher /\ modified = 0 /\ scan.pc # "stopped"
    /\ watcher' = FALSE /\ modified' = 1
    /\ UNCHANGED <<storage, config, objects, chan, reader, starter, worker, scanVars,
                   process, slips, bounds>>
-----------------------------------------------------------------------------
(* The channel of notices                                                  *)

Full == Len(chan) = Cap
Closed == reader.pc = "stopped"

\* The reader waits for room in the channel that only it empties.
SelfBlocked == reader.pc = "trigger" /\ Full

\* Mutant: the channel grows without bound.
NoticeUpdateCapacity_Unbounded(who) ==
    /\ chan' = Append(chan, who)
    /\ UNCHANGED faults

\* A notice is sent if the channel is registered; it is dropped when there is
\* no room for 10 s, in which the reader, unless it is stuck, takes one.
NoticeUpdateCapacity(who) ==
    /\ ~Closed
    /\ \/ reader.pc = "off" /\ UNCHANGED <<chan, faults>>
       \/ reader.pc # "off" /\ ~Full /\ chan' = Append(chan, who) /\ UNCHANGED faults
       \/ Full /\ UNCHANGED chan /\ (IF SelfBlocked THEN UNCHANGED faults ELSE Fault)

\* createLV, expandLV and removeLVIfExists have changed the storage.
VolumeChanges(w) ==
    /\ process = "up" /\ worker[w] = "idle" /\ Change
    /\ vols' = IF w \in vols THEN vols \ {w} ELSE vols \cup {w}
    /\ worker' = [worker EXCEPT ![w] = "send"]
    /\ slips' = slips \ {w}
    /\ UNCHANGED <<disk, settings, objects, chan, reader, starter, scanVars, process, faults>>

\* syncNoticeUpdateCapacity sends its notice ...
SendNotice(w) ==
    /\ Running /\ worker[w] = "send"
    /\ NoticeUpdateCapacity(w)
    /\ worker' = [worker EXCEPT ![w] = "wait"]
    /\ UNCHANGED <<storage, settings, objects, reader, starter, scanVars, process, slips,
                   changes>>

\* ... and gives up after 5 s.  Nobody listens to that notice any more, and
\* the reconciler comes back to the same place.
WaitTimeout(w) ==
    /\ Running /\ worker[w] = "wait"
    /\ IF reader.event = w \/ \E i \in DOMAIN chan : chan[i] = w THEN Fault ELSE UNCHANGED faults
    /\ worker' = [worker EXCEPT ![w] = "send"]
    /\ chan' = [i \in DOMAIN chan |-> IF chan[i] = w THEN None ELSE chan[i]]
    /\ reader' = IF reader.event = w THEN [reader EXCEPT !.event = None] ELSE reader
    /\ UNCHANGED <<storage, settings, objects, starter, scanVars, process, slips, changes>>
-----------------------------------------------------------------------------
(* nodeStorageResourceReconciler                                           *)

\* What the node has, as far as the configuration selects it.
generateStatus ==
    IF Group \in GetNodeDiskSelectGroup
    THEN [known |-> TRUE, vols |-> vols, disk |-> disk] ELSE Blank

\* A write gives the object a new version.
WriteNsr(status) == nsr' = status /\ seen' = Outdated(seen)

\* RetryGetter.Get: the cache first, the API server when not found.
Get == IF seen # None THEN seen ELSE CopyOf(nsr)

RegisterNoticeChan ==
    /\ process = "up" /\ reader.pc = "off"
    /\ reader' = Resting /\ starter' = TRUE
    /\ UNCHANGED <<storage, settings, objects, chan, worker, scanVars, process, slips, bounds>>

\* The goroutine of Start; it waits for room as long as it takes.
FirstTrigger ==
    /\ Running /\ starter /\ ~Full /\ ~Closed
    /\ chan' = Append(chan, None) /\ starter' = FALSE
    /\ UNCHANGED <<storage, settings, objects, reader, worker, scanVars, process, slips, bounds>>

Receive ==
    /\ Running /\ reader.pc = "select" /\ chan # <<>>
    /\ reader' = [reader EXCEPT !.pc = "get", !.event = Head(chan)]
    /\ chan' = Tail(chan)
    /\ UNCHANGED <<storage, settings, objects, starter, worker, scanVars, process, slips, bounds>>

createNodeStorageResource ==
    /\ Running /\ reader.pc = "get" /\ Get = None
    /\ \/ /\ WriteNsr(Blank)
          /\ reader' = [Resting EXCEPT !.pc = "trigger"]
          /\ UNCHANGED faults
       \/ /\ Fault
          /\ reader' = Resting
          /\ UNCHANGED objects
    /\ UNCHANGED <<storage, settings, chan, starter, worker, scanVars, process, slips,
                   changes>>

\* The reader sends itself a notice.
triggerReconcile ==
    /\ Running /\ reader.pc = "trigger" /\ ~Full
    /\ chan' = Append(chan, None)
    /\ reader' = Resting
    /\ UNCHANGED <<storage, settings, objects, starter, worker, scanVars, process, slips, bounds>>

\* The object and the storage are read.  A command that fails leaves its part
\* of the status empty.  (The copy may be old already, so nothing is lost by
\* reading both in one step.)
GetAndGenerate ==
    /\ Running /\ reader.pc = "get"
    /\ \/ /\ Get # None
          /\ \/ reader' = [reader EXCEPT !.pc = "update", !.obj = Get, !.status = generateStatus]
                /\ UNCHANGED faults
             \/ reader' = [reader EXCEPT !.pc = "update", !.obj = Get, !.status = Blank] /\ Fault
       \/ reader' = Resting /\ Fault
    /\ UNCHANGED <<storage, settings, objects, chan, starter, worker, scanVars, process, slips,
                   changes>>

\* close(ve.Done)
Confirm ==
    LET w == reader.event IN
    /\ worker' = IF w = None THEN worker ELSE [worker EXCEPT ![w] = "idle"]
    /\ slips' = IF w # None /\ ~reader.obj.current THEN slips \cup {w} ELSE slips

UpdateStatus ==
    /\ reader.obj.current
    /\ WriteNsr(reader.status)
    /\ UNCHANGED faults

\* Mutant: the wait ends whether or not the update succeeded.
reconcile_ConfirmFailed ==
    /\ Running /\ reader.pc = "update"
    /\ \/ reader.obj.status = reader.status /\ UNCHANGED <<objects, faults>>
       \/ reader.obj.status # reader.status /\ UpdateStatus
       \/ reader.obj.status # reader.status /\ Fault /\ UNCHANGED objects
    /\ Confirm
    /\ reader' = Resting
    /\ UNCHANGED <<storage, settings, chan, starter, scanVars, process, changes>>

\* Mutant: the wait does not end when there was nothing to update.
reconcile_SilentIfEqual ==
    /\ Running /\ reader.pc = "update"
    /\ \/ /\ reader.obj.status # reader.status /\ UpdateStatus /\ Confirm
       \/ /\ \/ reader.obj.status = reader.status /\ UNCHANGED faults
             \/ ~reader.obj.current /\ UNCHANGED faults
             \/ Fault
          /\ UNCHANGED <<objects, worker, slips>>
    /\ reader' = Resting
    /\ UNCHANGED <<storage, settings, chan, starter, scanVars, process, changes>>

\* The rest of reconcile: nothing to write, or the write succeeds, or it fails
\* (the object is gone, or is not the one that was read, or an error) and
\* whoever waits is left waiting.
reconcile ==
    /\ Running /\ reader.pc = "update"
    /\ \/ reader.obj.status = reader.status /\ UNCHANGED <<objects, faults>> /\ Confirm
       \/ reader.obj.status # reader.status /\ UpdateStatus /\ Confirm
       \/ /\ reader.obj.status # reader.status
          /\ IF reader.obj.current THEN Fault ELSE UNCHANGED faults
          /\ UNCHANGED <<objects, worker, slips>>
    /\ reader' = Resting
    /\ UNCHANGED <<storage, settings, chan, starter, scanVars, process, changes>>

\* ctx.Done: the object is deleted, if that succeeds, and the channel closed.
deleteNodeStorageResource ==
    /\ process = "stopping" /\ reader.pc = "select"
    /\ \/ WriteNsr(None) /\ UNCHANGED faults
       \/ Fault /\ UNCHANGED objects
    /\ reader' = [Resting EXCEPT !.pc = "stopped"]
    /\ UNCHANGED <<storage, settings, chan, starter, worker, scanVars, process, slips,
                   changes>>
-----------------------------------------------------------------------------
(* The device scan                                                         *)

\* Mutant: only a scan that changed something sends a notice.
AfterScan_Quiet(by) ==
    /\ scan' = ScanIdle
    /\ timers' = IF by = "config" THEN timers + 1 ELSE timers

\* What follows addAndRemoveDevice.
AfterScan(by) ==
    /\ scan' = IF by = "tick" THEN [pc |-> "tick", by |-> by] ELSE ScanIdle
    /\ timers' = IF by = "config" THEN timers + 1 ELSE timers

\* A disk is added or removed, or not.  If the groups have changed a notice is
\* due, unless listing them fails.
addAndRemoveDevice(by) ==
    /\ \/ UNCHANGED <<disk, bounds>> /\ AfterScan(by)
       \/ /\ Group \in GetNodeDiskSelectGroup
          /\ disk' = ~disk /\ Change
          /\ \/ scan' = [pc |-> "lvmcheck", by |-> by] /\ UNCHANGED <<timers, faults>>
             \/ Fault /\ AfterScan(by)
    /\ UNCHANGED <<vols, config, watcher, objects, chan, reader, starter, worker, process, slips>>

FirstScan ==
    /\ process = "up" /\ scan.pc = "start"
    /\ addAndRemoveDevice("start")
    /\ UNCHANGED modified

\* The timer of the next scan.  With the interval 0 nothing is done.
Tick ==
    /\ Running /\ scan.pc = "idle" /\ DiskScanInterval(config) # 0
    /\ addAndRemoveDevice("tick")
    /\ UNCHANGED modified

ConfigModified ==
    /\ Running /\ scan.pc = "idle" /\ modified = 1
    /\ modified' = 0
    /\ addAndRemoveDevice("config")

LvmCheckNotice ==
    /\ Running /\ scan.pc = "lvmcheck"
    /\ NoticeUpdateCapacity(None) /\ AfterScan(scan.by)
    /\ UNCHANGED <<storage, settings, objects, reader, starter, worker, process, slips, changes>>

TickNotice ==
    /\ Running /\ scan.pc = "tick"
    /\ NoticeUpdateCapacity(None)
    /\ scan' = ScanIdle
    /\ UNCHANGED <<storage, settings, objects, reader, starter, worker, timers, process, slips,
                   changes>>

\* time.AfterFunc, 10 s after a scan for a change of the configuration.
TimerNotice ==
    /\ Running /\ timers > 0
    /\ NoticeUpdateCapacity(None)
    /\ timers' = timers - 1
    /\ UNCHANGED <<storage, settings, objects, reader, starter, worker, scan, process, slips,
                   changes>>

\* The loop ends and closes configModifyChan.
StopScan ==
    /\ process = "stopping" /\ scan.pc = "idle"
    /\ scan' = [ScanIdle EXCEPT !.pc = "stopped"]
    /\ UNCHANGED <<storage, settings, objects, chan, reader, starter, worker, timers, process,
                   slips, bounds>>
-----------------------------------------------------------------------------
(* The process and its surroundings                                        *)

Stop ==
    /\ process = "up" /\ Fault
    /\ process' = "stopping"
    /\ UNCHANGED <<storage, settings, objects, chan, reader, starter, worker, scanVars, slips,
                   changes>>

\* A send on a closed channel panics.
SendOnClosed ==
    \/ Closed /\ \/ \E w \in Workers : worker[w] = "send"
                 \/ scan.pc \in {"lvmcheck", "tick"} \/ timers > 0 \/ starter
    \/ scan.pc = "stopped" /\ watcher

\* The process ends: all parts have stopped or their time is over, it panics,
\* or it is killed.  What it had in memory is lost.
Exit ==
    /\ Running
    /\ IF process = "stopping" \/ SendOnClosed THEN UNCHANGED faults ELSE Fault
    /\ process' = "down"
    /\ watcher' = FALSE /\ modified' = 0
    /\ seen' = CopyOf(nsr)
    /\ chan' = <<>> /\ reader' = [Resting EXCEPT !.pc = "off"] /\ starter' = FALSE
    /\ worker' = [w \in Workers |-> IF worker[w] = "wait" THEN "send" ELSE worker[w]]
    /\ scan' = [ScanIdle EXCEPT !.pc = "start"] /\ timers' = 0
    /\ UNCHANGED <<storage, config, nsr, slips, changes>>

\* A new process.  It reads the object afresh, reconciles every LogicVolume
\* again, and has a valid configuration.
Restart ==
    /\ process = "down"
    /\ process' = "up"
    /\ config' \in {c \in Configs : initConfig(c) /\ (initConfig(config) => c = config)}
    /\ seen' = CopyOf(nsr)
    /\ UNCHANGED <<storage, watcher, modified, nsr, chan, reader, starter, worker, scanVars,
                   slips, bounds>>

\* The cache of carina-node follows.
Sync ==
    /\ Running /\ seen # CopyOf(nsr)
    /\ seen' = CopyOf(nsr)
    /\ UNCHANGED <<storage, settings, nsr, chan, reader, starter, worker, scanVars, process,
                   slips, bounds>>

\* Somebody deletes the object, or the Node object that owns it.
NsrDeleted ==
    /\ nsr # None /\ Fault
    /\ WriteNsr(None)
    /\ reader' = [reader EXCEPT !.obj = Outdated(reader.obj)]
    /\ UNCHANGED <<storage, settings, chan, starter, worker, scanVars, process,
                   slips, changes>>
-----------------------------------------------------------------------------
Reader ==
    \/ RegisterNoticeChan \/ Receive \/ createNodeStorageResource \/ triggerReconcile
    \/ GetAndGenerate \/ reconcile

Scan == FirstScan \/ Tick \/ StopScan

Next ==
    \/ Reader \/ deleteNodeStorageResource \/ FirstTrigger
    \/ Scan \/ ConfigModified \/ LvmCheckNotice \/ TickNotice \/ TimerNotice
    \/ AnnounceConfig \/ \E c \in Configs : dynamicConfig(c)
    \/ \E w \in Workers : VolumeChanges(w) \/ SendNotice(w) \/ WaitTimeout(w)
    \/ Stop \/ Exit \/ Restart \/ Sync \/ NsrDeleted

Spec == Init /\ [][Next]_vars

\* A goroutine that can go on does; those that wait for room in the channel get
\* their turn; a stopped or panicking process ends and is started again.  Of
\* the first notice, the timers and the configuration nothing is assumed.
FairSpec ==
    /\ Spec
    /\ WF_vars(Reader) /\ WF_vars(Scan) /\ SF_vars(LvmCheckNotice \/ TickNotice)
    /\ \A w \in Workers : SF_vars(SendNotice(w)) /\ WF_vars(WaitTimeout(w))
    /\ WF_vars(UNCHANGED faults /\ Exit) /\ WF_vars(Restart) /\ WF_vars(Sync)
-----------------------------------------------------------------------------
\* Type invariant; the channel never holds more than its capacity.
TypeOK ==
    /\ vols \subseteq Workers /\ disk \in BOOLEAN /\ config \in Configs
    /\ watcher \in BOOLEAN /\ modified \in 0..1
    /\ nsr \in Statuses \cup {None} /\ seen \in Copies \cup {None}
    /\ chan \in Seq(Workers \cup {None}) /\ Len(chan) <= Cap
    /\ reader \in Readers
    /\ starter \in BOOLEAN /\ worker \in [Workers -> {"idle", "send", "wait"}]
    /\ scan \in Scans
    /\ timers \in Nat /\ process \in {"up", "stopping", "down"}
    /\ slips \subseteq Workers /\ changes \in 0..MaxChanges /\ faults \in 0..MaxFaults

\* While a reconciler is not at work on its volume, a report that speaks of
\* the group agrees with the storage about that volume: whoever finds the
\* LogicVolume done finds it accounted for.  The exception is a wait that was
\* ended by a comparison with an outdated copy of the object.
ConfirmedReported ==
    \A w \in Workers :
        worker[w] = "idle" /\ w \notin slips /\ nsr # None /\ nsr.known =>
            (w \in nsr.vols <=> w \in vols)

Current == nsr = generateStatus

\* While the periodic scan is on, the report agrees with storage and
\* configuration again and again, whatever notices were lost, unless the
\* reader has filled its own channel.
ReportServed == []<>(Current \/ SelfBlocked \/ DiskScanInterval(config) = 0)

\* A reconciler that waits for the report goes on at last, with or without
\* the periodic scan.
WorkerServed == \A w \in Workers : worker[w] # "idle" ~> worker[w] = "idle" \/ SelfBlocked
=============================================================================
