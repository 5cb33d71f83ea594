------------------------------ MODULE Placement ------------------------------
(***************************************************************************)
(* From a claim to a node and a device group.                              *)
(*                                                                         *)
(* The nodes report what is available (runners/nodestorageresource.go).    *)
(* The scheduler plugin (scheduler/schedulerplugin/localstorage) filters   *)
(* and scores nodes for a pod by the reports; the provisioner then calls   *)
(* CreateVolume (pkg/csidriver/driver/controller.go), which takes the      *)
(* group, and for a claim without a node also the node, from the reports   *)
(* (k8s/node_service.go), makes a LogicVolume object and waits until the   *)
(* node has made the volume or refused it.  Reports lag, calls overlap and *)
(* are repeated, so a place is chosen on what was true a moment ago.       *)
(*                                                                         *)
(* Sizes of requests and groups are in units, Gi of which are a gibibyte;  *)
(* volumes have whole gibibytes.  Names are not spelled out; which keys of *)
(* a report contain which names is a parameter (Overlaps).                 *)
(***************************************************************************)
EXTENDS Integers, Sequences, FiniteSets, FiniteSetsExt, Functions

CONSTANTS
    Nodes,      \* names of nodes, strings
    Policy,     \* the configured groups: "lvm", "raw" or "host" by name
    VgSize,     \* size of the groups of LVM type on each node, by name
    DiskSize,   \* gibibytes of the raw disks of each node, by <<group, disk>>
    Overlaps,   \* <<key, name>>: keys that contain a name besides their own
    Class,      \* the parameters of the storage class of each claim
    Bytes,      \* the request of each claim
    ClaimsOf,   \* the claims of each pod, in the order of its volumes
    Immediate,  \* claims that do not wait for a pod
    Topology,   \* the nodes that match the topology of an immediate claim
    Scenarios,  \* sets of claims and of ready nodes to start with
    Strategy,   \* the configured schedulerStrategy
    Gi, Reserved, Edge,
    MaxChanges  \* bound on expansions and deletions

Claims == DOMAIN Class
Pods == DOMAIN ClaimsOf
Names == Claims \X {"data", "cache"}
NoNode == ""
NoKey == <<"", "">>

VARIABLES
    claim,      \* phase and selected node of each claim
    call,       \* the CreateVolume call for a claim, with the place it chose
    lv,         \* LogicVolume objects by name, with what the node made of them
    pv,         \* the place that the PV of a claim names
    report,     \* status of each NodeStorageResource
    due,        \* nodes whose volumes have changed since their last report
    late,       \* objects of raw volumes that informers do not have yet
    ready,      \* nodes with condition Ready
    adopted,    \* history: claims whose call took over an object placed elsewhere
    wrapped,    \* history: claims refused because free space minus size wrapped
    shared,     \* history: disks given to two although one is exclusive,
                \* on a report or a cache that did not show it
    changes     \* expansions and deletions so far

history == <<adopted, wrapped, shared>>
vars == <<due, claim, call, lv, pv, report, late, ready, history, changes>>

Idle == [at |-> "idle", node |-> NoNode, key |-> NoKey]
Unplaced == [node |-> NoNode, key |-> NoKey]
NoLv == [node |-> NoNode, key |-> NoKey, gb |-> 0, cur |-> 0, at |-> 0,
         excl |-> FALSE, owned |-> FALSE, code |-> "none"]
Objects == {x \in Names : lv[x].code # "none"}
-----------------------------------------------------------------------------
(* Names and sizes                                                         *)

\* The names that old storage classes use.
OldName(g) == CASE g = "ssd" -> "carina-vg-ssd" [] g = "hdd" -> "carina-vg-hdd" [] OTHER -> g

GetDeviceGroup(g) == IF g \in DOMAIN Policy /\ Policy[g] # "raw" THEN g ELSE OldName(g)
CheckRawDeviceGroup(g) == OldName(g) \in DOMAIN Policy /\ Policy[OldName(g)] = "raw"
CheckHostDeviceGroup(g) == g \in DOMAIN Policy /\ Policy[g] = "host"

Kind(c) ==
    CASE CheckRawDeviceGroup(Class[c].group) -> "raw"
      [] ~CheckRawDeviceGroup(Class[c].group) /\ CheckHostDeviceGroup(Class[c].group) -> "host"
      [] OTHER -> "lvm"
Cached(c) == Class[c].ratio # 0
Exclusive(c) == Kind(c) = "raw" /\ Class[c].exclusive

\* The manager that the annotations of an object ask for: both halves of a cached
\* volume are of LVM type, whatever group the class names.
Manager(c) == IF Cached(c) THEN "lvm" ELSE Kind(c)

\* (bytes - 1) >> 30 + 1; the request is positive and within its limit.
convertRequestCapacity(bytes) == (bytes - 1) \div Gi + 1
Gb(c) == convertRequestCapacity(Bytes[c])
CacheGb(c, gb) == (gb * Class[c].ratio) \div 100

\* Each process has its own default.
SchedulerStrategy == IF Strategy \in {"binpack", "spreadout"} THEN Strategy ELSE "spreadout"
PluginStrategy == IF Strategy \in {"binpack", "spreadout"} THEN Strategy ELSE "binpack"

\* Fold from the first element of a sequence to the last.
FoldInOrder(op(_, _), base, seq) ==
    MapThenFoldSet(LAMBDA x, acc : op(acc, x), base, LAMBDA i : seq[i], LAMBDA S : Max(S), DOMAIN seq)

\* The configuration: groups have names, and what is found on the nodes is of the
\* type of its group.  The names of old classes lead to no other type: no raw
\* group is called just ssd or hdd, nor any group beside a raw one with the long
\* name.
ASSUME ConfigAssumption ==
    /\ IsFiniteSet(DOMAIN Policy)
    /\ \A g \in DOMAIN Policy :
        /\ g # "" /\ Policy[g] \in {"lvm", "raw", "host"}
        /\ CheckRawDeviceGroup(g) <=> Policy[g] = "raw"
    /\ NoNode \notin Nodes /\ IsFiniteSet(Nodes)
    /\ \A n \in Nodes :
        /\ IsFiniteSet(DOMAIN VgSize[n]) /\ DOMAIN VgSize[n] \subseteq DOMAIN Policy
        /\ \A g \in DOMAIN VgSize[n] : VgSize[n][g] \in Nat /\ Policy[g] = "lvm"
        /\ IsFiniteSet(DOMAIN DiskSize[n])
        /\ \A k \in DOMAIN DiskSize[n] :
              /\ DiskSize[n][k] \in Nat /\ k[2] # ""
              /\ k[1] \in DOMAIN Policy /\ Policy[k[1]] = "raw"

\* Units, claims and classes.
ASSUME PlacementAssumption ==
    /\ Gi \in Nat \ {0} /\ Edge \in Nat /\ Reserved \in Nat /\ Edge >= Gi /\ Reserved >= Edge
    /\ MaxChanges \in Nat /\ Immediate \subseteq Claims /\ IsFiniteSet(Claims)
    /\ \A p \in Pods : ClaimsOf[p] \in Seq(Claims)
    /\ \A s \in Scenarios : s.claims \subseteq Claims /\ s.ready \subseteq Nodes
    /\ \A c \in Claims :
        /\ Bytes[c] \in Nat \ {0}
        /\ Class[c].ratio \in 0..99 /\ Class[c].exclusive \in BOOLEAN
        /\ (Class[c].ratio = 0) <=> (Class[c].cache = "")
-----------------------------------------------------------------------------
(* The node                                                                *)

On(n, k) == {x \in Objects : lv[x].node = n /\ lv[x].key = k}
Made(n, k) == {x \in On(n, k) : lv[x].cur > 0}
VGFree(n, g) ==
    VgSize[n][g] - Gi * SumFunctionOnSet([x \in Names |-> lv[x].cur], Made(n, <<g, "">>))

\* The gibibytes of a disk that partitions occupy, and the starts of a gap.
Cells(x) == lv[x].at..(lv[x].at + lv[x].cur - 1)
Occupied(n, k) == UNION {Cells(x) : x \in Made(n, k)}
Starts(n, k, gb) ==
    {s \in 1..DiskSize[n][k] :
        s + gb - 1 <= DiskSize[n][k] /\ s..(s + gb - 1) \cap Occupied(n, k) = {}}
LargestGap(n, k) == Max({0} \cup {gb \in 1..DiskSize[n][k] : Starts(n, k, gb) # {}})

\* Mutant: rounded up without regard to the reserve.
generateLvmStatus_NoReserve(n) ==
    [k \in {<<g, "">> : g \in DOMAIN VgSize[n]} |-> VGFree(n, k[1]) \div Gi]

\* What is above the reserve, rounded up.
FreeGb(free) == IF free > Reserved THEN (free - Reserved) \div Gi + 1 ELSE 0

generateLvmStatus(n) ==
    [k \in {<<g, "">> : g \in DOMAIN VgSize[n]} |-> FreeGb(VGFree(n, k[1]))]

\* The largest gap of each disk; a disk without a gap is left out.
generateDiskStatus(n) ==
    [k \in {d \in DOMAIN DiskSize[n] : LargestGap(n, d) > 0} |-> LargestGap(n, k)]

generateStatus(n) ==
    [alloc |-> LET lvm == generateLvmStatus(n)
                   raw == generateDiskStatus(n)
               IN  [k \in DOMAIN lvm \cup DOMAIN raw |-> IF k \in DOMAIN lvm THEN lvm[k] ELSE raw[k]],
     parts |-> [k \in DOMAIN DiskSize[n] |-> Cardinality(Made(n, k))]]

\* What is reported as capacity under a key that is reported at all.
CapacityOf(n, k) == IF k[2] = "" THEN VgSize[n][k[1]] \div Gi + 1 ELSE DiskSize[n][k]

\* Mutant: the error of lvcreate is ignored.
LvmOutcome_Ignored(n, g, gb) ==
    IF VGFree(n, g) >= gb * Gi /\ VGFree(n, g) - gb * Gi < Reserved - Edge THEN "exhausted"
    ELSE "ok"

\* The volume manager asked for gb gibibytes more.  The difference is unsigned:
\* a request above the free space passes the check and then LVM refuses it.
LvmOutcome(n, g, gb) ==
    IF g \notin DOMAIN VgSize[n] \/ VGFree(n, g) < gb * Gi THEN "internal"
    ELSE IF VGFree(n, g) - gb * Gi < Reserved - Edge THEN "exhausted" ELSE "ok"

\* createLV: the volume, or a code in the status.  A partition for which there
\* is no room makes the process panic and leaves the object as it is.
createLV(x) ==
    LET o == lv[x]
        g == o.key[1]
    IN  /\ o.code = "OK" /\ o.cur = 0 /\ o.node \in Nodes
        /\ \/ /\ o.key[2] # "" /\ o.key \in DOMAIN DiskSize[o.node]
              /\ Starts(o.node, o.key, o.gb) # {}
              /\ lv' = [lv EXCEPT ![x].cur = o.gb, ![x].at = Min(Starts(o.node, o.key, o.gb))]
           \/ /\ o.key[2] = "" /\ Manager(x[1]) = "host"
              /\ lv' = [lv EXCEPT ![x].cur = o.gb]
           \/ /\ o.key[2] = "" /\ Manager(x[1]) # "host"
              /\ LET r == LvmOutcome(o.node, g, o.gb)
                 IN  lv' = IF r = "ok" THEN [lv EXCEPT ![x].cur = o.gb]
                           ELSE [lv EXCEPT ![x].code = r]
        /\ due' = due \cup {o.node}
        /\ UNCHANGED <<claim, call, pv, report, late, ready, history, changes>>

\* expandLV: what does not succeed is tried again later.  A partition grows only
\* if it is alone on its disk.
expandLV(x) ==
    LET o == lv[x]
    IN  /\ o.cur > 0 /\ o.cur < o.gb
        /\ IF o.key[2] = "" THEN LvmOutcome(o.node, o.key[1], o.gb - o.cur) = "ok"
           ELSE Made(o.node, o.key) = {x} /\ o.at + o.gb - 1 <= DiskSize[o.node][o.key]
        /\ lv' = [lv EXCEPT ![x].cur = o.gb] /\ due' = due \cup {o.node}
        /\ UNCHANGED <<claim, call, pv, report, late, ready, history, changes>>

\* The change of a volume is followed by a notice and a report; see CapacityNotice.
Report(n) ==
    /\ n \in due /\ due' = due \ {n}
    /\ report' = [report EXCEPT ![n] = generateStatus(n)]
    /\ UNCHANGED <<claim, call, lv, pv, late, ready, history, changes>>

\* An informer receives an object.
Sync(x) ==
    /\ x \in late /\ late' = late \ {x}
    /\ UNCHANGED <<due, claim, call, lv, pv, report, ready, history, changes>>
-----------------------------------------------------------------------------
(* The scheduler plugin                                                    *)

Here(n) == {x \in Objects : lv[x].node = n}
getNodeStorageResource(n) == report[n]

\* Keys that an exclusive volume holds, as the scheduler's informer knows them.
PluginExclusivityDisks(n) == {lv[x].key : x \in {y \in Here(n) \ late : lv[y].excl}}

NoRequests == [err |-> FALSE, node |-> NoNode, raw |-> FALSE, excl |-> FALSE,
               map |-> [g \in DOMAIN Policy |-> <<>>]]

\* One claim of the pod.  The requests that a group has already are kept only
\* if the claim has a cache, whose request is put down for the same group.  A
\* group that is missing or not configured fits nowhere.
AddClaim(acc, c) ==
    LET sc == Class[c]
        g == GetDeviceGroup(IF sc.group = "" THEN sc.backend ELSE sc.group)
        cached == sc.cache # ""
        excl == acc.excl \/ sc.exclusive
        half == [excl |-> FALSE, bytes |-> (Bytes[c] * sc.ratio) \div 100]
        whole == [excl |-> excl, bytes |-> Bytes[c]]
    IN  CASE acc.err -> acc
          [] ~acc.err /\ claim[c].phase = "bound" ->
                IF acc.node = NoNode THEN [acc EXCEPT !.node = pv[c].node]
                ELSE [acc EXCEPT !.err = acc.node # pv[c].node]
          [] ~acc.err /\ claim[c].phase # "bound" /\ CheckHostDeviceGroup(sc.group) -> acc
          [] OTHER ->
                IF g \notin DOMAIN Policy THEN [acc EXCEPT !.err = TRUE]
                ELSE [acc EXCEPT !.raw = @ \/ CheckRawDeviceGroup(sc.group), !.excl = excl,
                        !.map[g] = IF cached THEN @ \o <<half, whole>> ELSE <<whole>>]

getPvcRequestMap(p) == FoldInOrder(AddClaim, NoRequests, ClaimsOf[p])

\* Allocatable by key, without the disks of exclusive volumes.
getAllocatableMap(n, raw) ==
    LET alloc == getNodeStorageResource(n).alloc
        taken == IF raw THEN PluginExclusivityDisks(n) ELSE {}
    IN  [k \in {d \in DOMAIN alloc : d[2] = "" \/ d \notin taken} |-> alloc[k]]

\* Mutant: a value equal to the request does not satisfy it.
minimumValueMinus_Strict(free, req) ==
    LET gb == convertRequestCapacity(req.bytes)
        fit == {k \in DOMAIN free : free[k] > gb}
    IN  IF fit = {} THEN <<>>
        ELSE LET k == CHOOSE j \in fit : \A i \in fit : free[j] <= free[i]
             IN  [free EXCEPT ![k] = IF req.excl THEN 0 ELSE @ - gb]

\* The least value that satisfies the request is reduced by it.  No values at
\* all stands for a request that none satisfies.
minimumValueMinus(free, req) ==
    LET gb == convertRequestCapacity(req.bytes)
        fit == {k \in DOMAIN free : free[k] >= gb}
    IN  IF fit = {} THEN <<>>
        ELSE LET k == CHOOSE j \in fit : \A i \in fit : free[j] <= free[i]
             IN  [free EXCEPT ![k] = IF req.excl THEN 0 ELSE @ - gb]

\* Keys are searched for a name, not compared with it.
Contains(k, name) == name \in {k[1], k[2]} \/ <<k, name>> \in Overlaps

TotalBytes(reqs) == FoldInOrder(LAMBDA sum, r : sum + r.bytes, 0, reqs)
LvmAllocatable(alloc, g) == IF <<g, "">> \in DOMAIN alloc THEN alloc[<<g, "">>] ELSE 0
OfGroup(alloc, g) == {k \in DOMAIN alloc : Contains(k, g)}

\* The requests, the largest first.
Descending(reqs) ==
    LET orders == {f \in [DOMAIN reqs -> DOMAIN reqs] : \A i, j \in DOMAIN reqs : i # j => f[i] # f[j]}
        order == CHOOSE f \in orders : \A i, j \in DOMAIN reqs :
                     i < j => reqs[f[i]].bytes >= reqs[f[j]].bytes
    IN  [i \in DOMAIN reqs |-> reqs[order[i]]]

\* The check of one group.
GroupFits(alloc, g, reqs) ==
    IF CheckRawDeviceGroup(g)
    THEN LET free == [k \in OfGroup(alloc, g) |-> alloc[k]]
         IN  DOMAIN free # {} /\ FoldInOrder(minimumValueMinus, free, Descending(reqs)) # <<>>
    ELSE convertRequestCapacity(TotalBytes(reqs)) <= LvmAllocatable(alloc, g)

Requested(map) == {g \in DOMAIN map : map[g] # <<>>}

Filter(p, n) ==
    LET r == getPvcRequestMap(p)
        alloc == getAllocatableMap(n, r.raw)
    IN  /\ ~r.err
        /\ r.node \in {NoNode, n}
        /\ \/ Requested(r.map) = {}
           \/ DOMAIN alloc # {} /\ \A g \in Requested(r.map) : GroupFits(alloc, g, r.map[g])

MaxScore == 10

\* The mean over the groups of the share that the requests take of what is
\* allocatable, or of the share they leave; a fraction <<numerator, denominator>>.
Share(alloc, g, reqs) ==
    LET want == convertRequestCapacity(TotalBytes(reqs))
        total == IF CheckRawDeviceGroup(g)
                 THEN SumFunctionOnSet(alloc, OfGroup(alloc, g))
                 ELSE LvmAllocatable(alloc, g)
    IN  <<IF PluginStrategy = "binpack" THEN want ELSE total - want, total>>

AddShare(a, b) == <<a[1] * b[2] + b[1] * a[2], a[2] * b[2]>>

Score(p, n) ==
    LET r == getPvcRequestMap(p)
        alloc == getAllocatableMap(n, r.raw)
        groups == Requested(r.map)
        sum == FoldSet(LAMBDA g, acc : AddShare(acc, Share(alloc, g, r.map[g])), <<0, 1>>, groups)
    IN  CASE r.node = n -> MaxScore
          [] r.node # n /\ groups = {} -> 5
          [] OTHER -> (sum[1] * MaxScore) \div (sum[2] * Cardinality(groups))

\* Claims that wait for the scheduler.
Open(c) == claim[c].phase = "pending" /\ c \notin Immediate

\* The scheduler takes a node that passes, whatever other plugins say of it, and
\* writes it into the claims that are not bound.  A claim that has a node keeps
\* it, and the pod has to go there.
Schedule(p) ==
    /\ \A c \in Range(ClaimsOf[p]) : claim[c].phase # "none"
    /\ \E c \in Range(ClaimsOf[p]) : Open(c) /\ claim[c].sel = NoNode
    /\ \E n \in Nodes :
        /\ Filter(p, n)
        /\ \A c \in Range(ClaimsOf[p]) : Open(c) => claim[c].sel \in {NoNode, n}
        /\ claim' = [c \in Claims |->
              IF c \in Range(ClaimsOf[p]) /\ Open(c) THEN [claim[c] EXCEPT !.sel = n] ELSE claim[c]]
    /\ UNCHANGED <<due, call, lv, pv, report, late, ready, history, changes>>
-----------------------------------------------------------------------------
(* CreateVolume                                                            *)

\* The controller falls back to the API server if its cache has no object of
\* the node at all.
getLvExclusivityDisks(n) ==
    LET cache == Here(n) \ late
        list == IF cache = {} THEN Here(n) ELSE cache
    IN  {lv[x].key : x \in {y \in list : lv[y].excl}}

\* Mutant: the disks of exclusive volumes are not passed over.
Eligible_AnyDisk(c, n, k) ==
    /\ (Kind(c) = "raw") = CheckRawDeviceGroup(k[1])
    /\ GetDeviceGroup(Class[c].group) \in {"", k[1]}

\* A key of the report that the claim may use if there is room.
Eligible(c, n, k) ==
    /\ (Kind(c) = "raw") = CheckRawDeviceGroup(k[1])
    /\ GetDeviceGroup(Class[c].group) \in {"", k[1]}
    /\ Kind(c) = "raw" =>
        /\ k \notin getLvExclusivityDisks(n)
        /\ Exclusive(c) => \A d \in DOMAIN report[n].parts : Contains(k, d[2]) => report[n].parts[d] <= 1

Place(n, k) == [node |-> n, key |-> k]
Suitable(c, n) ==
    {Place(n, k) : k \in {d \in DOMAIN report[n].alloc :
                            report[n].alloc[d] >= Gb(c) /\ Eligible(c, n, d)}}

\* Capacity of the ready nodes for a class, as GetCapacity returns it.
GetTotalCapacity(c) ==
    LET reported == {p \in ready \X UNION {DOMAIN report[n].alloc : n \in Nodes} :
                        p[2] \in DOMAIN report[p[1]].alloc}
    IN  SumFunctionOnSet([p \in reported |-> CapacityOf(p[1], p[2])],
                         {p \in reported : Eligible(c, p[1], p[2])})

\* The smallest or the largest of the places; equal ones are in no order.
Select(places) ==
    LET size(p) == report[p.node].alloc[p.key]
    IN  {p \in places : \A q \in places :
            IF SchedulerStrategy = "binpack" THEN size(p) <= size(q) ELSE size(p) >= size(q)}

\* A group of LVM type that the class names is taken without a look at the report.
SelectDeviceGroup(c, n) ==
    IF Kind(c) = "lvm" /\ Class[c].group # ""
    THEN {Place(n, <<GetDeviceGroup(Class[c].group), "">>)}
    ELSE Select(Suitable(c, n))

SelectNode(c) == Select(UNION {Suitable(c, n) : n \in ready \cap Topology[c]})

\* Nodes with room for both halves of a cached volume.
SelectMultiVolumeNode(c) ==
    LET room(n, g, gb) == \E k \in OfGroup(report[n].alloc, g) : report[n].alloc[k] >= gb
    IN  {n \in Topology[c] : /\ room(n, Class[c].cache, CacheGb(c, Gb(c)))
                             /\ room(n, Class[c].backend, Gb(c))}

\* Mutant: the node that the scheduler selected is not looked up.
HaveSelectedNode_Never(c) == NoNode

HaveSelectedNode(c) == claim[c].sel

\* The place of the first half.  The node that SelectMultiVolumeNode finds is
\* assigned to a variable of the inner block, and the outer one stays empty.
CreateBcacheVolume(c) ==
    IF /\ Class[c].backend # "" /\ CacheGb(c, Gb(c)) > 0
       /\ HaveSelectedNode(c) # NoNode \/ SelectMultiVolumeNode(c) # {}
    THEN {Place(HaveSelectedNode(c), <<Class[c].backend, "">>)} ELSE {}

\* Every branch but the last is an early return or settles the place.
Places(c) ==
    LET n == HaveSelectedNode(c)
        host == CheckHostDeviceGroup(Class[c].group)
    IN  CASE host /\ n = NoNode -> {}
          [] ~(host /\ n = NoNode) /\ Cached(c) -> CreateBcacheVolume(c)
          [] n # NoNode /\ ~Cached(c) /\ Kind(c) = "host" -> {Place(n, <<Class[c].group, "">>)}
          [] n # NoNode /\ ~Cached(c) /\ Kind(c) # "host" -> SelectDeviceGroup(c, n)
          [] OTHER -> SelectNode(c)

NewObject(c, half, place) ==
    [node |-> place.node, key |-> IF half = "data" THEN place.key ELSE <<Class[c].cache, "">>,
     gb |-> IF half = "data" THEN Gb(c) ELSE CacheGb(c, Gb(c)), cur |-> 0, at |-> 0,
     excl |-> half = "data" /\ ~Cached(c) /\ Exclusive(c), owned |-> half = "cache", code |-> "OK"]

\* History: a disk is given to a second volume, one of the two exclusive, and
\* that could not be seen: the exclusive one is not in the cache, or the report
\* of partitions is old, or it says one, which is taken for none.
Excused(place, excl) ==
    LET there == On(place.node, place.key)
        holders == {x \in there : lv[x].excl}
        parts == report[place.node].parts[place.key]
    IN  IF holders # {} THEN holders \subseteq late
        ELSE excl /\ there # {} /\ (parts = 1 \/ parts # Cardinality(there))

\* LogicVolumeService.CreateVolume: an object of that name and size is taken for
\* the one asked for, wherever it is.
PutObject(c, half, place) ==
    LET x == <<c, half>>
        new == NewObject(c, half, place)
    IN  /\ call' = [call EXCEPT ![c] = [at |-> half, node |-> place.node, key |-> place.key]]
        /\ IF lv[x] = NoLv
           THEN /\ lv' = [lv EXCEPT ![x] = new]
                /\ late' = IF new.key[2] # "" THEN late \cup {x} ELSE late
                /\ shared' = IF new.key[2] # "" /\ Excused(place, new.excl)
                             THEN shared \cup {place} ELSE shared
                /\ UNCHANGED adopted
           ELSE /\ adopted' = IF lv[x].node = new.node /\ lv[x].key = new.key THEN adopted
                              ELSE adopted \cup {c}
                /\ UNCHANGED <<lv, late, shared>>

\* The provisioner calls for a claim; calls that return an error are repeated.
CreateVolume(c) ==
    /\ claim[c].phase = "pending" /\ call[c] = Idle
    /\ c \in Immediate \/ claim[c].sel # NoNode
    /\ \E place \in Places(c) : PutObject(c, "data", place)
    /\ UNCHANGED <<due, claim, pv, report, ready, wrapped, changes>>

Waiting(c) == call[c].at # "idle"
Awaited(c) == lv[<<c, call[c].at>>]

\* The first half is there: CreateBcacheVolume goes on with the second.
CreateCache(c) ==
    /\ Waiting(c) /\ Awaited(c).cur > 0
    /\ Cached(c) /\ call[c].at = "data"
    /\ PutObject(c, "cache", [node |-> call[c].node, key |-> call[c].key])
    /\ UNCHANGED <<due, claim, pv, report, ready, wrapped, changes>>

\* The call succeeds and the provisioner makes the PV.
Provisioned(c) ==
    /\ Waiting(c) /\ Awaited(c).cur > 0
    /\ ~Cached(c) \/ call[c].at = "cache"
    /\ claim' = [claim EXCEPT ![c].phase = "bound"]
    /\ pv' = [pv EXCEPT ![c] = Place(call[c].node, call[c].key)]
    /\ call' = [call EXCEPT ![c] = Idle]
    /\ UNCHANGED <<due, lv, report, late, ready, history, changes>>

\* Mutant: the claim keeps its node whatever the reason.
Refused_KeepsNode(c) ==
    /\ Waiting(c) /\ Awaited(c).code \in {"exhausted", "internal"}
    /\ lv' = [lv EXCEPT ![<<c, call[c].at>>] = NoLv]
    /\ late' = late \ {<<c, call[c].at>>}
    /\ wrapped' = IF Awaited(c).code = "internal" THEN wrapped \cup {c} ELSE wrapped
    /\ call' = [call EXCEPT ![c] = Idle]
    /\ UNCHANGED <<due, claim, pv, report, ready, adopted, shared, changes>>

\* The node refused: the object is deleted, and of an exhausted node the
\* provisioner tells the scheduler to choose again.
Refused(c) ==
    /\ Waiting(c) /\ Awaited(c).code \in {"exhausted", "internal"}
    /\ lv' = [lv EXCEPT ![<<c, call[c].at>>] = NoLv]
    /\ late' = late \ {<<c, call[c].at>>}
    /\ claim' = [claim EXCEPT ![c].sel = IF Awaited(c).code = "exhausted" THEN NoNode ELSE @]
    /\ wrapped' = IF Awaited(c).code = "internal" THEN wrapped \cup {c} ELSE wrapped
    /\ call' = [call EXCEPT ![c] = Idle]
    /\ UNCHANGED <<due, pv, report, ready, adopted, shared, changes>>

\* The deadline of the call passes before the node is done.
Timeout(c) ==
    /\ Waiting(c) /\ Awaited(c).cur = 0 /\ Awaited(c).code = "OK"
    /\ call' = [call EXCEPT ![c] = Idle]
    /\ UNCHANGED <<due, claim, lv, pv, report, late, ready, history, changes>>
-----------------------------------------------------------------------------
(* Expansion and deletion                                                  *)

GetCapacityByNodeName(n, k) == IF k \in DOMAIN report[n].alloc THEN report[n].alloc[k] ELSE -1

\* One gibibyte more.  The size of a directory is only noted.
ControllerExpandVolume(c) ==
    LET x == <<c, "data">>
        new == lv[x].cur + 1
    IN  /\ claim[c].phase = "bound" /\ changes < MaxChanges /\ changes' = changes + 1
        /\ Manager(c) = "raw" => lv[x].excl
        /\ \/ CheckHostDeviceGroup(lv[x].key[1]) /\ lv' = [lv EXCEPT ![x].gb = new, ![x].cur = new]
           \/ /\ ~CheckHostDeviceGroup(lv[x].key[1])
              /\ GetCapacityByNodeName(lv[x].node, lv[x].key) >= new - lv[x].cur
              /\ lv' = [lv EXCEPT ![x].gb = new]
        /\ UNCHANGED <<due, claim, call, pv, report, late, ready, history>>

\* The goroutine that expands the second half after the first; it may fail, and
\* nobody starts it again.
ExpandCache(c) ==
    LET x == <<c, "cache">>
        gb == CacheGb(c, lv[<<c, "data">>].cur)
    IN  /\ claim[c].phase = "bound" /\ lv[x].cur > 0 /\ lv[x].gb < gb
        /\ lv' = [lv EXCEPT ![x].gb = gb]
        /\ UNCHANGED <<due, claim, call, pv, report, late, ready, history, changes>>

\* The claim is deleted, and the provisioner has the volume deleted.
DeleteVolume(c) ==
    /\ claim[c].phase = "bound" /\ changes < MaxChanges /\ changes' = changes + 1
    /\ claim' = [claim EXCEPT ![c] = [phase |-> "none", sel |-> NoNode]]
    /\ pv' = [pv EXCEPT ![c] = Unplaced]
    /\ lv' = [lv EXCEPT ![<<c, "data">>] = NoLv] /\ late' = late \ {<<c, "data">>}
    /\ due' = due \cup {lv[<<c, "data">>].node}
    /\ UNCHANGED <<call, report, ready, history>>

\* The second half is owned by the first and goes with it.
Collect(c) ==
    /\ lv[<<c, "cache">>].owned /\ lv[<<c, "data">>] = NoLv
    /\ lv' = [lv EXCEPT ![<<c, "cache">>] = NoLv] /\ late' = late \ {<<c, "cache">>}
    /\ due' = due \cup {lv[<<c, "cache">>].node}
    /\ UNCHANGED <<claim, call, pv, report, ready, history, changes>>
-----------------------------------------------------------------------------
(* The specification                                                       *)

Init ==
    \E s \in Scenarios :
        /\ claim = [c \in Claims |->
                      [phase |-> IF c \in s.claims THEN "pending" ELSE "none", sel |-> NoNode]]
        /\ call = [c \in Claims |-> Idle]
        /\ lv = [x \in Names |-> NoLv] /\ pv = [c \in Claims |-> Unplaced]
        /\ report = [n \in Nodes |-> generateStatus(n)]
        /\ due = {} /\ late = {} /\ ready = s.ready
        /\ adopted = {} /\ wrapped = {} /\ shared = {}
        /\ changes = 0

Provision(c) == CreateVolume(c) \/ CreateCache(c) \/ Provisioned(c) \/ Refused(c)

Next ==
    \/ \E n \in Nodes : Report(n)
    \/ \E x \in Names : createLV(x) \/ expandLV(x) \/ Sync(x)
    \/ \E p \in Pods : Schedule(p)
    \/ \E c \in Claims : Provision(c)
    \/ \E c \in Claims : Timeout(c) \/ ControllerExpandVolume(c) \/ ExpandCache(c)
    \/ \E c \in Claims : DeleteVolume(c) \/ Collect(c)

Spec == Init /\ [][Next]_vars

\* Pods with a single claim, for a group of LVM type.
Lone == {p \in Pods : LET c == ClaimsOf[p][1]
                      IN  Len(ClaimsOf[p]) = 1 /\ Kind(c) = "lvm" /\ ~Cached(c)}

\* Report(n), by what it alone does.
Reported(n) == n \in due /\ due' = due \ {n}

\* The queues of the provisioner and of the scheduler are fair, a node works on
\* its objects and reports what changed.  It is assumed only of the reports and
\* of the claims that ClaimPlaced speaks of.
FairSpec ==
    /\ Spec
    /\ \A n \in Nodes : WF_due(Reported(n))
    /\ \A p \in Lone : WF_vars(Schedule(p))
    /\ \A p \in Lone : WF_vars(createLV(<<ClaimsOf[p][1], "data">>))
    /\ \A p \in Lone : WF_vars(Provision(ClaimsOf[p][1]))
-----------------------------------------------------------------------------
(* Properties                                                              *)

\* Each variable has a value of its kind; in particular a volume lies within
\* its disk and groups are never used beyond their size.
TypeOK ==
    /\ claim \in [Claims -> [phase : {"none", "pending", "bound"}, sel : Nodes \cup {NoNode}]]
    /\ \A c \in Claims : call[c].at \in {"idle", "data", "cache"} /\ pv[c].node \in Nodes \cup {NoNode}
    /\ \A x \in Objects : lv[x].cur <= lv[x].gb /\ lv[x].code \in {"OK", "exhausted", "internal"}
    /\ \A n \in Nodes : \A g \in DOMAIN VgSize[n] : VGFree(n, g) >= 0
    /\ \A n \in Nodes : \A k \in DOMAIN DiskSize[n] : Occupied(n, k) \subseteq 1..DiskSize[n][k]
    /\ late \subseteq Names /\ adopted \subseteq Claims /\ wrapped \subseteq Claims
    /\ ready \subseteq Nodes /\ due \subseteq Nodes /\ changes \in 0..MaxChanges

\* Reference for Filter: there is a way to put every claim of the pod that has
\* no volume into a group or on a disk of the node.
Counted(p) == {c \in Range(ClaimsOf[p]) : claim[c].phase # "bound" /\ Kind(c) # "host"}
WantGroup(c) == GetDeviceGroup(IF Class[c].group = "" THEN Class[c].backend ELSE Class[c].group)
Packable(p, n) ==
    LET alloc == getAllocatableMap(n, \E c \in Counted(p) : Kind(c) = "raw")
    IN  /\ \A c \in Range(ClaimsOf[p]) : claim[c].phase = "bound" => pv[c].node = n
        /\ \E f \in [Counted(p) -> DOMAIN alloc] :
            /\ \A c \in Counted(p) : f[c][1] = WantGroup(c)
            /\ \A k \in DOMAIN alloc :
                LET on == {c \in Counted(p) : f[c] = k}
                IN  /\ SumFunctionOnSet([c \in Claims |-> Gb(c)], on) <= alloc[k]
                    /\ (\E c \in on : Exclusive(c)) => Cardinality(on) = 1

Exact(p, n) ==
    /\ \A c, d \in Counted(p) : c # d => WantGroup(c) # WantGroup(d)
    /\ \A c \in Counted(p), k \in DOMAIN report[n].alloc : Contains(k, WantGroup(c)) => k[1] = WantGroup(c)

\* Filter (storage-plugins.go) never rejects a node that can take all volumes of
\* a pod, and never passes one that cannot if the pod has one claim for each
\* group, whose name is in no other's; a node that passes gets a score in the
\* range the scheduler allows.
\* Claims with a cache are excepted, whose cache is charged to the wrong group.
\* For two claims of one group only the last counts (line 298), so such a pod
\* may pass a node that cannot take it; and what another group offers counts if
\* its name contains that of the raw group asked for (line 123).
FilterExact ==
    \A p \in Pods, n \in Nodes :
        (\A c \in Range(ClaimsOf[p]) : claim[c].phase # "none" /\ ~Cached(c)) =>
            LET passes == Filter(p, n)
                fits == Packable(p, n)
            IN  /\ fits => passes
                /\ passes /\ Exact(p, n) => fits
                /\ passes => Score(p, n) \in 0..MaxScore

\* What generateStatus reports is really available: a volume of the size that a
\* fresh report allows is not refused by the volume manager, although the
\* report rounds up and the reserve is checked elsewhere, by other constants;
\* and GetCapacity does not return less than a claim that SelectNode can place.
ReportHonest ==
    /\ \A n \in Nodes :
        /\ LET lvm == generateLvmStatus(n)
           IN  \A k \in DOMAIN lvm : lvm[k] > 0 => LvmOutcome(n, k[1], lvm[k]) = "ok"
        /\ LET raw == generateDiskStatus(n)
           IN  \A k \in DOMAIN raw : Starts(n, k, raw[k]) # {}
    /\ \A c \in Immediate :
        (claim[c].phase = "pending" /\ SelectNode(c) # {}) => GetTotalCapacity(c) >= Gb(c)

\* A disk given to an exclusive volume has no other, before or after, unless the
\* other could not be seen: not in the cache, not in the report, or reported as
\* the only partition of the disk, which SelectDeviceGroup and SelectNode let pass.
ExclusiveAlone ==
    \A x \in Objects :
        lv[x].excl => \/ On(lv[x].node, lv[x].key) = {x}
                      \/ Place(lv[x].node, lv[x].key) \in shared

\* The PV names the place where the volume is, for a cached volume the node of
\* both halves.  A repeated CreateVolume chooses anew and takes over the object
\* of the first call without comparing places; that can happen to claims that
\* do not wait for a pod, to raw and cached volumes and if the class names no
\* group only.
PvTrue ==
    /\ \A c \in Claims :
        (claim[c].phase = "bound" /\ c \notin adopted) =>
            /\ lv[<<c, "data">>].cur > 0
            /\ Place(lv[<<c, "data">>].node, lv[<<c, "data">>].key) = pv[c]
            /\ Cached(c) => lv[<<c, "cache">>].cur > 0 /\ lv[<<c, "cache">>].node = pv[c].node
    /\ \A c \in adopted :
        c \in Immediate \/ Kind(c) = "raw" \/ Cached(c) \/ Class[c].group = ""

\* A node has room for the claim by its own account.
HasRoom(c) ==
    \E n \in Nodes : LvmAllocatable(generateLvmStatus(n), GetDeviceGroup(Class[c].group)) >= Gb(c)

Settled(c) == claim[c].phase # "pending" \/ ~HasRoom(c) \/ c \in wrapped

\* A claim that is alone in its pod and asks for a group of LVM type is bound if
\* a node has room for it by its own account, even after wrong choices on old
\* reports: an exhausted node sends it back to the scheduler.  The exception is
\* a node with less free space than the request: the difference wraps, the node
\* answers Internal instead of ResourceExhausted, and the claim stays there.
ClaimPlaced ==
    \A c \in {ClaimsOf[p][1] : p \in Lone} :
        claim[c].phase = "pending" ~> Settled(c)
=============================================================================
