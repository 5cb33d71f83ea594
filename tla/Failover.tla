------------------------------- MODULE Failover -------------------------------
(***************************************************************************)
(* Volumes of failed nodes are given up and their claims made again.       *)
(*                                                                         *)
(* The webhook (hook/mutate_pod.go) hands pods with Carina claims to       *)
(* Carina's scheduler and notes whether they may be moved.  The node       *)
(* controller (controllers/node_controller.go) looks, every 600 s and      *)
(* whenever such a pod is deleted, for volumes on nodes that are not       *)
(* ready, kills the pods that may be moved, and deletes and creates the    *)
(* claims of their volumes; scheduler and provisioner then place them      *)
(* anew.  The ticker and the work queue run their rounds side by side.     *)
(*                                                                         *)
(* A volume is its LogicVolume object and its PV together; objects without *)
(* a PV are the subject of LogicVolume.                                    *)
(***************************************************************************)
EXTENDS Integers, Sequences, FiniteSetsExt

CONSTANTS
    Nodes,
    ClaimsOf,   \* the claims of each pod, in the order of its volumes
    ClassNote,  \* the annotation of the storage class of each claim: "true",
                \* "false" or "none"
    Setups,     \* for each pod its own annotation, whether it also has a
                \* volume that is no claim, and its node at first; the rounds
                \* that take place
    MaxVolumes, \* bound on the volumes made for a claim
    MaxFails,   \* bound on failures of nodes
    MaxFaults,  \* bound on errors and stops of the controller
    None

Pods == DOMAIN ClaimsOf
Claims == DOMAIN ClassNote
Volumes == Claims \X (1..MaxVolumes)
Rounds == {"tick", "event"}
OwnerOf(c) == CHOOSE p \in Pods : c \in Range(ClaimsOf[p])

Notes == {"true", "false", "none"}
PodRecords == [node : Nodes \cup {None}, carina : BOOLEAN, note : Notes]
ClaimRecords == [vol : 0..MaxVolumes, deleting : BOOLEAN]
VolumeRecords == [node : Nodes, fin : BOOLEAN, released : BOOLEAN, failed : BOOLEAN]

\* A claim is used by one pod.
ASSUME FailoverAssumption ==
    /\ \A p \in Pods : ClaimsOf[p] \in Seq(Claims)
    /\ Setups \subseteq [pods : [Pods -> [note : Notes, extra : BOOLEAN, node : Nodes]],
                        rounds : SUBSET Rounds]
    /\ \A c \in Claims : ClassNote[c] \in Notes
    /\ \A c \in Claims : \E p \in Pods : \A q \in Pods : c \in Range(ClaimsOf[q]) <=> q = p
    /\ MaxVolumes \in Nat \ {0} /\ MaxFails \in Nat /\ MaxFaults \in Nat
    /\ None \notin Nodes \cup Volumes \cup PodRecords \cup ClaimRecords \cup VolumeRecords

VARIABLES
    setup,      \* the setup, which never changes
    node,       \* "ready", "down" or "gone"
    pod,        \* the pod: its node, who schedules it and its annotation; or None
    pvc,        \* the claim: the number of its volume, 0 if not bound; or None
    vol,        \* the volumes: node, finalizer, PV released; or None
    made,       \* volumes made for each claim
    ghosts,     \* deleted pods that the controller's cache still has
    event,      \* a request is in the work queue
    round,      \* progress of the rounds
    lost,       \* history: claims deleted by a round that ended before it
                \* created them again
    dropped,    \* history: claims whose pod was killed and that no round has
                \* come to delete
    twice,      \* history: claims collected by a round although another has
                \* them, or has made them again
    fails, faults

objects == <<setup, node, pod, pvc, vol, made>>
history == <<lost, dropped, twice>>
vars == <<objects, ghosts, event, round, history, fails, faults>>

Resting == [pc |-> "idle", todo |-> {}, map |-> {}, cur |-> None]
Unbound == [vol |-> 0, deleting |-> FALSE]
NewVolume(n) == [node |-> n, fin |-> TRUE, released |-> FALSE, failed |-> FALSE]
Ready == {n \in Nodes : node[n] = "ready"}

Fault == faults < MaxFaults /\ faults' = faults + 1
-----------------------------------------------------------------------------
(* The webhook                                                             *)

\* The places of the claims of Carina's that exist; the others are passed over.
carinaSchedulePod(p) == {i \in DOMAIN ClaimsOf[p] : pvc[ClaimsOf[p][i]] # None}

\* The pod's own annotation, or else the first that a class has.
Handle(p) ==
    LET found == carinaSchedulePod(p)
        noted == {i \in found : ClassNote[ClaimsOf[p][i]] # "none"}
    IN  [node |-> None, carina |-> found # {},
         note |-> IF setup.pods[p].note = "none" /\ noted # {}
                  THEN ClassNote[ClaimsOf[p][Min(noted)]] ELSE setup.pods[p].note]

\* Pods run and their claims are bound.
Init ==
    /\ setup \in Setups
    /\ node = [n \in Nodes |-> "ready"]
    /\ pvc = [c \in Claims |-> [vol |-> 1, deleting |-> FALSE]] /\ made = [c \in Claims |-> 1]
    /\ pod = [p \in Pods |-> [Handle(p) EXCEPT !.node = setup.pods[p].node]]
    /\ vol = [v \in Volumes |-> IF v[2] = 1 THEN NewVolume(setup.pods[OwnerOf(v[1])].node) ELSE None]
    /\ ghosts = {} /\ event = FALSE /\ round = [r \in Rounds |-> Resting]
    /\ lost = {} /\ dropped = {} /\ twice = {} /\ fails = 0 /\ faults = 0

\* The controller of the pod replaces it.
CreatePod(p) ==
    /\ pod[p] = None
    /\ pod' = [pod EXCEPT ![p] = Handle(p)]
    /\ UNCHANGED <<setup, node, pvc, vol, made, ghosts, event, round, history, fails, faults>>
-----------------------------------------------------------------------------
(* Kubernetes                                                              *)

\* A pod goes to a ready node, that of its volumes if it has any, and its other
\* claims get their volumes there.
Schedule(p) ==
    LET cs == Range(ClaimsOf[p])
        fresh == {c \in cs : pvc[c] # None /\ pvc[c].vol = 0}
    IN  /\ pod[p] # None /\ pod[p].node = None
        /\ \A c \in cs : pvc[c] # None /\ ~pvc[c].deleting
        /\ \A c \in fresh : made[c] < MaxVolumes
        /\ \E n \in Ready :
            /\ \A c \in cs \ fresh : vol[<<c, pvc[c].vol>>].node = n
            /\ pod' = [pod EXCEPT ![p].node = n]
            /\ made' = [c \in Claims |-> IF c \in fresh THEN made[c] + 1 ELSE made[c]]
            /\ pvc' = [c \in Claims |-> IF c \in fresh THEN [pvc[c] EXCEPT !.vol = made[c] + 1]
                                        ELSE pvc[c]]
            /\ vol' = [v \in Volumes |->
                  IF v[1] \in fresh /\ v[2] = made[v[1]] + 1
                  THEN NewVolume(n) ELSE vol[v]]
        /\ UNCHANGED <<setup, node, ghosts, event, round, history, fails, faults>>

Uses(p, c) == pod[p] # None /\ pod[p].node # None /\ c \in Range(ClaimsOf[p])
InUse(c) == \E p \in Pods : Uses(p, c)

\* What is left of a volume whose claim is gone.  It is deleted by the node, which
\* removes the finalizer, or at once if that has been removed; until then its PV
\* is released.
Reclaimed(v) ==
    IF vol[v].node \in Ready \/ ~vol[v].fin THEN None ELSE [vol[v] EXCEPT !.released = TRUE]

\* A deleted claim goes when no pod on a node uses it.
ClaimGone(c) ==
    /\ pvc[c] # None /\ pvc[c].deleting /\ ~InUse(c)
    /\ pvc' = [pvc EXCEPT ![c] = None]
    /\ vol' = [v \in Volumes |-> IF v = <<c, pvc[c].vol>> THEN Reclaimed(v) ELSE vol[v]]
    /\ UNCHANGED <<setup, node, pod, made, ghosts, event, round, history, fails, faults>>

NodeReturns(n) ==
    /\ node[n] = "down"
    /\ node' = [node EXCEPT ![n] = "ready"]
    /\ vol' = [v \in Volumes |->
                  IF vol[v] # None /\ vol[v].node = n /\ vol[v].released THEN None ELSE vol[v]]
    /\ UNCHANGED <<setup, pod, pvc, made, ghosts, event, round, history, fails, faults>>

Ghost(p) == [name |-> p, node |-> pod[p].node, carina |-> pod[p].carina, note |-> pod[p].note]

\* The pods of a node that is gone are removed.
CollectPod(p) ==
    /\ pod[p] # None /\ pod[p].node # None /\ node[pod[p].node] = "gone"
    /\ pod' = [pod EXCEPT ![p] = None]
    /\ ghosts' = ghosts \cup {Ghost(p)}
    /\ UNCHANGED <<setup, node, pvc, vol, made, event, round, history, fails, faults>>

\* DeleteFunc: the cache follows, and the deletion of a pod that Carina
\* scheduled starts a round.
DeleteFunc(g) ==
    /\ g \in ghosts /\ ghosts' = ghosts \ {g}
    /\ event' = (event \/ g.carina)
    /\ UNCHANGED <<objects, round, history, fails, faults>>
-----------------------------------------------------------------------------
(* The node controller                                                     *)

Pending(r) == {v[1] : v \in round[r].map}
Deleted(r) == IF round[r].pc = "create" THEN {round[r].cur[1]} ELSE {}

\* A round ends early; what it has collected is forgotten, and so are the
\* claims of the pods that it has killed.
Abandon(rs, hit) ==
    /\ round' = [r \in Rounds |-> IF r \in rs THEN Resting ELSE round[r]]
    /\ lost' = lost \cup UNION {Deleted(r) : r \in rs}
    /\ dropped' = dropped \cup hit \cup UNION {Pending(r) : r \in rs}

\* The process ends and is started again.
Crash == Abandon(Rounds, {}) /\ ghosts' = {} /\ event' = FALSE /\ UNCHANGED twice

Stop ==
    /\ Fault /\ Crash
    /\ UNCHANGED <<objects, fails>>

\* Volumes of the node have lost their node, for a time or forever.
MarkFailed(n) ==
    vol' = [v \in Volumes |->
              IF vol[v] # None /\ vol[v].node = n THEN [vol[v] EXCEPT !.failed = TRUE] ELSE vol[v]]

NodeFails(n) ==
    /\ node[n] = "ready" /\ fails < MaxFails /\ fails' = fails + 1
    /\ node' = [node EXCEPT ![n] = "down"] /\ MarkFailed(n)
    /\ UNCHANGED <<setup, pod, pvc, made, ghosts, event, round, history, faults>>

\* The filter of events takes the deleted Node for a Pod, and panics.
NodeDeleted(n) ==
    /\ node[n] # "gone" /\ fails < MaxFails /\ fails' = fails + 1
    /\ node' = [node EXCEPT ![n] = "gone"] /\ MarkFailed(n)
    /\ Crash
    /\ UNCHANGED <<setup, pod, pvc, made, faults>>

\* Mutant: the condition Ready is not looked at.
nodeStatusList_Conditionless == [n \in {m \in Nodes : node[m] # "gone"} |-> "normal"]

nodeStatusList == [n \in {m \in Nodes : node[m] # "gone"} |->
                     IF node[n] = "ready" THEN "normal" ELSE "abnormal"]
pvMap == [v \in {u \in Volumes : vol[u] # None} |-> IF vol[v].released THEN "Released" ELSE "Bound"]

\* The lists are taken.  A round for which there is nothing to do ends here.
ListVolumes(r) ==
    LET bad == {v \in DOMAIN pvMap :
                  /\ pvMap[v] = "Bound"
                  /\ ~(vol[v].node \in DOMAIN nodeStatusList /\ nodeStatusList[vol[v].node] = "normal")}
    IN  /\ r \in setup.rounds /\ round[r].pc = "idle"
        /\ IF r = "event" THEN event ELSE bad # {}
        /\ event' = IF r = "event" THEN FALSE ELSE event
        /\ round' = IF bad = {} THEN round
                    ELSE [round EXCEPT ![r] = [Resting EXCEPT !.pc = "scan",
                            !.todo = {[id |-> v, node |-> vol[v].node, fin |-> vol[v].fin] : v \in bad}]]
        /\ UNCHANGED <<objects, ghosts, history, fails, faults>>

\* The pods of Carina's scheduler on a node, as the cache has them.
PodsOn(n) ==
    {Ghost(p) : p \in {q \in Pods : pod[q] # None /\ pod[q].node = n /\ pod[q].carina}}
    \cup {g \in ghosts : g.node = n /\ g.carina}
MayMove(g) == g.note \notin {"none", "false"}

\* Mutant: the annotation counts whatever its value.
skipLv_AnyNote(n, c) ==
    LET users == {g \in PodsOn(n) : c \in Range(ClaimsOf[g.name])}
    IN  IF \E g \in users : g.note # "none" THEN {"take"} ELSE {"skip"}

\* skipLv: the first pod that uses the claim decides.  Pods come in any order,
\* and a volume that is no claim, met on the way, makes the log line panic.
skipLv(n, c) ==
    LET users == {g \in PodsOn(n) : c \in Range(ClaimsOf[g.name])}
        dirty == {g \in PodsOn(n) \ users : setup.pods[g.name].extra}
    IN  (IF \E g \in users : MayMove(g) THEN {"take"} ELSE {})
        \cup (IF \E g \in users : ~MayMove(g) THEN {"skip"} ELSE {})
        \cup (IF users = {} /\ dirty = {} THEN {"skip"} ELSE {})
        \cup (IF dirty # {} THEN {"panic"} ELSE {})

\* Every pod on the node that may be moved is killed, also those whose volumes
\* the round has not come to; a pod that only the cache has counts as killed.
Killed(n) ==
    {p \in Pods : pod[p] # None /\ pod[p].node = n /\ pod[p].carina /\ MayMove(Ghost(p))}
clearPod(n) ==
    /\ pod' = [p \in Pods |-> IF p \in Killed(n) THEN None ELSE pod[p]]
    /\ ghosts' = ghosts \cup {Ghost(p) : p \in Killed(n)}

\* An error: the work queue comes back to its request, the ticker does not.
Fails(r, hit) == event' = (event \/ r = "event") /\ Abandon({r}, hit)

\* A round goes on to the next part when it is through with one.
Advance(d) ==
    CASE d.todo = {} /\ d.map = {} /\ d.cur = None -> Resting
      [] d.pc = "scan" /\ d.todo = {} /\ d.map # {} -> [d EXCEPT !.pc = "rebuild"]
      [] OTHER -> d

SkipVolume(r) ==
    /\ round[r].pc = "scan"
    /\ \E t \in round[r].todo :
        /\ "skip" \in skipLv(t.node, t.id[1])
        /\ round' = [round EXCEPT ![r] = Advance([round[r] EXCEPT !.todo = @ \ {t}])]
    /\ UNCHANGED <<objects, ghosts, event, history, fails, faults>>

SkipPanics(r) ==
    /\ round[r].pc = "scan"
    /\ \E t \in round[r].todo : "panic" \in skipLv(t.node, t.id[1])
    /\ Crash
    /\ UNCHANGED <<objects, fails, faults>>

\* The volume is collected and its finalizer removed.  If the object is gone
\* and was listed with a finalizer, that is an error.
CollectVolume(r) ==
    /\ round[r].pc = "scan"
    /\ \E t \in round[r].todo :
        LET v == t.id
            c == v[1]
            hit == UNION {Range(ClaimsOf[p]) : p \in Killed(t.node)}
            missing == t.fin /\ vol[v] = None
            stale == \/ pvc[c] # None /\ pvc[c].vol # v[2]
                     \/ \E o \in Rounds \ {r} : c \in Pending(o) \cup Deleted(o)
        IN  /\ "take" \in skipLv(t.node, c)
            /\ clearPod(t.node)
            /\ \/ /\ ~missing
                  /\ round' = [round EXCEPT ![r] =
                        Advance([round[r] EXCEPT !.todo = @ \ {t}, !.map = @ \cup {v}])]
                  /\ vol' = IF vol[v] = None THEN vol ELSE [vol EXCEPT ![v].fin = FALSE]
                  /\ twice' = IF stale THEN twice \cup {c} ELSE twice
                  /\ dropped' = (dropped \cup (hit \ Pending(r))) \ {c}
                  /\ UNCHANGED <<event, lost, faults>>
               \/ /\ IF missing THEN UNCHANGED faults ELSE Fault
                  /\ Fails(r, hit)
                  /\ UNCHANGED <<vol, twice>>
    /\ UNCHANGED <<setup, node, pvc, made, fails>>

\* The next claim, in no order, is read and deleted; an error of the deletion
\* is only logged.
DeleteClaim(r) ==
    /\ round[r].pc = "rebuild"
    /\ \E v \in round[r].map :
        LET c == v[1]
            rest == round[r].map \ {v}
        IN  \/ /\ pvc[c] = None
               /\ round' = [round EXCEPT ![r] = Advance([round[r] EXCEPT !.map = rest])]
               /\ UNCHANGED <<pvc, dropped, faults>>
            \/ /\ pvc[c] # None
               /\ round' = [round EXCEPT ![r].pc = "create", ![r].cur = v, ![r].map = rest]
               /\ \/ pvc' = [pvc EXCEPT ![c].deleting = TRUE] /\ UNCHANGED <<dropped, faults>>
                  \/ Fault /\ dropped' = dropped \cup {c} /\ UNCHANGED pvc
    /\ UNCHANGED <<setup, node, pod, vol, made, ghosts, event, lost, twice, fails>>

\* Mutant: a claim that is being deleted counts as created.
CreateClaim_IsThere(r) ==
    /\ round[r].pc = "create"
    /\ pvc' = IF pvc[round[r].cur[1]] = None THEN [pvc EXCEPT ![round[r].cur[1]] = Unbound] ELSE pvc
    /\ round' = [round EXCEPT ![r] = Advance([round[r] EXCEPT !.pc = "rebuild", !.cur = None])]
    /\ UNCHANGED <<setup, node, pod, vol, made, ghosts, event, history, fails, faults>>

\* The claim is created as soon as the deleted one is gone; one that is there
\* and not being deleted will do.
CreateClaim(r) ==
    /\ round[r].pc = "create"
    /\ LET c == round[r].cur[1]
       IN  \/ pvc[c] = None /\ pvc' = [pvc EXCEPT ![c] = Unbound]
           \/ pvc[c] # None /\ ~pvc[c].deleting /\ UNCHANGED pvc
    /\ round' = [round EXCEPT ![r] = Advance([round[r] EXCEPT !.pc = "rebuild", !.cur = None])]
    /\ UNCHANGED <<setup, node, pod, vol, made, ghosts, event, history, fails, faults>>

\* Twelve attempts fail, because a pod uses the deleted claim or by a fault.
GiveUp(r) ==
    /\ round[r].pc = "create"
    /\ IF InUse(round[r].cur[1]) THEN UNCHANGED faults ELSE Fault
    /\ Fails(r, {})
    /\ UNCHANGED <<objects, ghosts, twice, fails>>

resourceReconcile(r) ==
    \/ ListVolumes(r) \/ SkipVolume(r) \/ SkipPanics(r) \/ CollectVolume(r)
    \/ DeleteClaim(r) \/ CreateClaim(r)
-----------------------------------------------------------------------------
Next ==
    \/ \E r \in Rounds : resourceReconcile(r) \/ GiveUp(r)
    \/ \E g \in ghosts : DeleteFunc(g)
    \/ \E p \in Pods : CreatePod(p) \/ Schedule(p) \/ CollectPod(p)
    \/ \E c \in Claims : ClaimGone(c)
    \/ \E n \in Nodes : NodeFails(n) \/ NodeReturns(n) \/ NodeDeleted(n)
    \/ Stop

Spec == Init /\ [][Next]_vars

\* The ticker keeps starting rounds and a round goes on; pods are replaced and
\* scheduled, claims and volumes go when they can.
FairSpec ==
    /\ Spec
    /\ \A r \in Rounds : WF_vars(resourceReconcile(r)) /\ WF_vars(UNCHANGED faults /\ GiveUp(r))
    /\ \A p \in Pods : WF_vars(CreatePod(p)) /\ WF_vars(Schedule(p))
    /\ \A c \in Claims : WF_vars(ClaimGone(c))
-----------------------------------------------------------------------------
(* Properties                                                              *)

\* The owner has allowed that the pod is moved, with the pod or with a class.
Consent(p) ==
    \/ setup.pods[p].note = "true"
    \/ setup.pods[p].note = "none" /\ \E c \in Range(ClaimsOf[p]) : ClassNote[c] = "true"

Discards(c) == pvc[c] # None /\ ~pvc[c].deleting /\ pvc'[c] # None /\ pvc'[c].deleting
Kills(p) == pod[p] # None /\ pod'[p] = None

\* The node controller gives up data only with consent and only of a volume
\* whose node has failed; it kills a pod only with consent.  That a claim was
\* collected and that it is deleted are far apart, and in between it may have
\* been made again on a healthy node: the exception is a claim that two rounds,
\* the ticker's and the work queue's, have collected.
OnlyFailedDiscarded ==
    [][/\ \A c \in Claims : Discards(c) =>
            /\ Consent(OwnerOf(c))
            /\ pvc[c].vol # 0 => vol[<<c, pvc[c].vol>>].failed \/ c \in twice
       /\ \A p \in Pods : Kills(p) => Consent(p) \/ node[pod[p].node] = "gone"]_vars

\* A claim is missing, or about to be, only while a round is there to create it
\* again, unless the round was stopped or gave up between the two
\* (rebuildVolume has no record of what it has deleted).
ClaimKept ==
    \A c \in Claims :
        pvc[c] = None \/ pvc[c].deleting =>
            c \in lost \/ \E r \in Rounds : c \in Deleted(r)

Stranded(p) ==
    /\ pod[p] # None /\ pod[p].carina /\ MayMove(Ghost(p))
    /\ pod[p].node # None /\ node[pod[p].node] = "down"

\* A pod on the same node lets skipLv panic.
Neighbour(p) == \E q \in Pods \ {p} : setup.pods[q].extra /\ pod[q] # None /\ pod[q].node = pod[p].node

Excused(p, c) ==
    \/ c \in lost \cup dropped \/ made[c] = MaxVolumes \/ Ready = {}
    \/ pvc[c] # None /\ pvc[c].vol # 0 /\ node[vol[<<c, pvc[c].vol>>].node] = "gone"
    \/ pod[p] # None /\ pod[p].node # None /\ Neighbour(p)

Moved(p) ==
    \/ pod[p] # None /\ pod[p].node \in Ready
    \/ \E c \in Range(ClaimsOf[p]) : Excused(p, c)

\* A pod that may be moved and whose node is not ready runs again at last, on
\* another node or because its node has come back.  Exceptions: the pod was
\* killed for the volume of another pod, or for another of its own, and its
\* volume was not come to while the cache still had the pod, or the round met
\* an error or was stopped, for no later round finds the pod; the node was
\* deleted, when the pod may be removed first; a pod with a volume that is no
\* claim is on the same node, which makes skipLv panic.
Migrated == \A p \in Pods : Stranded(p) ~> Moved(p)
=============================================================================
