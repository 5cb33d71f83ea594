---------------------------- MODULE FailoverProofs ----------------------------
(***************************************************************************)
(* Proofs about Failover, for any nodes, pods and claims, any number of    *)
(* failures and both rounds at any pace.                                   *)
(*                                                                         *)
(* A round lists the volumes of failed nodes, collects those whose pods    *)
(* may be moved and deletes their claims much later.  The inductive        *)
(* invariant says what it still knows by then.                             *)
(***************************************************************************)
EXTENDS Failover, WellFoundedInduction, TLAPS

Ghosts == [name : Pods, node : Nodes \cup {None}, carina : BOOLEAN, note : Notes]
Tasks == [id : Volumes, node : Nodes, fin : BOOLEAN]
RoundRecords == [pc : {"idle", "scan", "rebuild", "create"}, todo : SUBSET Tasks,
                 map : SUBSET Volumes, cur : Volumes \cup {None}]

TypeOK ==
    /\ setup \in Setups /\ node \in [Nodes -> {"ready", "down", "gone"}]
    /\ pod \in [Pods -> {None} \cup PodRecords]
    /\ pvc \in [Claims -> {None} \cup ClaimRecords]
    /\ vol \in [Volumes -> {None} \cup VolumeRecords]
    /\ made \in [Claims -> 1..MaxVolumes]
    /\ ghosts \subseteq Ghosts /\ event \in BOOLEAN
    /\ round \in [Rounds -> RoundRecords]
    /\ twice \subseteq Claims

\* A note that allows to move a pod goes back to its owner.
NotesTrue ==
    /\ \A p \in Pods : pod[p] # None /\ MayMove(pod[p]) => Consent(p)
    /\ \A g \in ghosts : MayMove(g) => Consent(g.name)

\* A claim is bound to a volume that was not released, and to no other.  Volumes
\* are numbered in the order they are made.  A volume on a node that is not ready
\* has failed.
BoundTo(v) == pvc[v[1]] # None /\ pvc[v[1]].vol = v[2]
VolumeTrue(v) ==
    /\ BoundTo(v) <=> vol[v] # None /\ ~vol[v].released
    /\ vol[v] # None => v[2] <= made[v[1]] /\ (node[vol[v].node] = "ready" \/ vol[v].failed)

\* What a round has listed has failed or is gone, and the number is not used again.
Outdated(v) == v[2] <= made[v[1]] /\ (vol[v] = None \/ vol[v].failed)

\* A round meets a claim once: in its list, its map or as the one it deletes.
RoundTrue(r) ==
    /\ round[r].pc = "create" <=> round[r].cur # None
    /\ round[r].pc = "idle" => round[r].map = {}
    /\ round[r].pc \in {"rebuild", "create"} => round[r].todo = {}
    /\ \A t \in round[r].todo : Outdated(t.id) /\ t.id[1] \notin Pending(r)
    /\ \A t, u \in round[r].todo : t.id[1] = u.id[1] => t = u
    /\ \A v \in round[r].map : Outdated(v) /\ Consent(OwnerOf(v[1])) /\ v[1] \notin Deleted(r)
    /\ \A v, w \in round[r].map : v[1] = w[1] => v = w

\* A collected claim that no other round has come across is still bound to the
\* volume it was collected for, if it is there at all.
Untouched(r, v) ==
    /\ pvc[v[1]] # None => BoundTo(v)
    /\ \A o \in Rounds : o # r => v[1] \notin Pending(o) \cup Deleted(o)
CollectedTrue == \A r \in Rounds : \A v \in round[r].map : v[1] \in twice \/ Untouched(r, v)

IInv ==
    /\ TypeOK /\ ClaimKept /\ NotesTrue /\ CollectedTrue
    /\ \A v \in Volumes : VolumeTrue(v)
    /\ \A r \in Rounds : RoundTrue(r)

USE FailoverAssumption

LEMMA Constants ==
    /\ Unbound \in ClaimRecords /\ Unbound.vol = 0 /\ ~Unbound.deleting
    /\ Resting \in RoundRecords /\ Resting.pc = "idle" /\ Resting.todo = {} /\ Resting.map = {}
    /\ Resting.cur = None
    /\ \A n \in Nodes : /\ NewVolume(n) \in VolumeRecords /\ NewVolume(n).node = n
                        /\ ~NewVolume(n).released /\ ~NewVolume(n).failed
    /\ None \notin ClaimRecords /\ None \notin VolumeRecords /\ None \notin PodRecords
    /\ None \notin Volumes /\ None \notin Nodes
  BY DEF Unbound, ClaimRecords, Resting, RoundRecords, NewVolume, VolumeRecords

LEMMA VolumePair ==
    ASSUME NEW v \in Volumes
    PROVE  v[1] \in Claims /\ v[2] \in 1..MaxVolumes /\ v = <<v[1], v[2]>>
  BY DEF Volumes

\* The pod that uses a claim is its owner.
LEMMA OwnerUnique ==
    ASSUME NEW c \in Claims, NEW p \in Pods, c \in Range(ClaimsOf[p])
    PROVE  p = OwnerOf(c)
  BY Zenon DEF OwnerOf

Less == {x \in Nat \X Nat : x[1] < x[2]}

LEMMA LeastPlace ==
    ASSUME NEW T \in SUBSET Nat, T # {}
    PROVE  Min(T) \in T
  <1>1. IsWellFoundedOn(Less, Nat)
    BY NatLessThanWellFounded, Zenon DEF Less, OpToRel
  <1>2. PICK x \in T : \A y \in T : ~(<<y, x>> \in Less)
    BY <1>1, WFMin, Zenon
  <1>3. \A y \in T : y < x => <<y, x>> \in Less
    BY Zenon DEF Less
  <1>4. \A y \in T : ~(y < x)
    BY <1>2, <1>3, Zenon
  <1>5. \A y \in T : x <= y
    BY <1>4
  <1> QED BY <1>5, Zenon DEF Min

\* The webhook lets a pod be moved only with the consent of its owner.
LEMMA HandleTrue ==
    ASSUME setup \in Setups, NEW p \in Pods
    PROVE  Handle(p) \in PodRecords /\ Handle(p).node = None /\ (MayMove(Handle(p)) => Consent(p))
  <1> DEFINE found == carinaSchedulePod(p)
             noted == {i \in found : ClassNote[ClaimsOf[p][i]] # "none"}
             note == IF setup.pods[p].note = "none" /\ noted # {}
                     THEN ClassNote[ClaimsOf[p][Min(noted)]] ELSE setup.pods[p].note
  <1>1. setup.pods[p].note \in Notes
    OBVIOUS
  <1>2. ClaimsOf[p] \in Seq(Claims)
    OBVIOUS
  <1>3. noted \subseteq DOMAIN ClaimsOf[p]
    BY Zenon DEF carinaSchedulePod
  <1>4. noted \subseteq Nat
    BY <1>2, <1>3
  <1>5. \A i \in noted : ClaimsOf[p][i] \in Claims /\ ClaimsOf[p][i] \in Range(ClaimsOf[p])
    BY <1>2, <1>3 DEF Range
  <1>6. ASSUME noted # {}
        PROVE  Min(noted) \in noted
    BY <1>4, <1>6, LeastPlace, Zenon
  <1>7. note \in Notes
    BY <1>1, <1>5, <1>6, Zenon
  <1>8. note \notin {"none", "false"} => Consent(p)
    <2>1. CASE setup.pods[p].note = "none" /\ noted # {}
      <3> DEFINE c == ClaimsOf[p][Min(noted)]
      <3>1. c \in Range(ClaimsOf[p]) /\ note = ClassNote[c] /\ ClassNote[c] \in Notes
        BY <2>1, <1>5, <1>6, Zenon
      <3> QED BY <2>1, <3>1, Zenon DEF Notes, Consent
    <2>2. CASE ~(setup.pods[p].note = "none" /\ noted # {})
      BY <1>1, <2>2, Zenon DEF Notes, Consent
    <2> QED BY <2>1, <2>2, Zenon
  <1>9. Handle(p) = [node |-> None, carina |-> found # {}, note |-> note]
    BY Zenon DEF Handle
  <1> HIDE DEF note
  <1>10. (found # {}) \in BOOLEAN
    OBVIOUS
  <1> HIDE DEF found
  <1> QED BY <1>7, <1>8, <1>9, <1>10 DEF PodRecords, MayMove

LEMMA InitIInv == Init => IInv
  <1> SUFFICES ASSUME Init PROVE IInv
    OBVIOUS
  <1>0. /\ setup \in Setups /\ node \in [Nodes -> {"ready", "down", "gone"}]
        /\ pvc \in [Claims -> {None} \cup ClaimRecords] /\ made \in [Claims -> 1..MaxVolumes]
        /\ \A c \in Claims : pvc[c] # None /\ pvc[c].vol = 1 /\ ~pvc[c].deleting /\ made[c] = 1
        /\ \A n \in Nodes : node[n] = "ready"
    <2>1. [vol |-> 1, deleting |-> FALSE] \in ClaimRecords
      BY DEF ClaimRecords
    <2>2. pvc \in [Claims -> {None} \cup ClaimRecords]
          /\ \A c \in Claims : pvc[c] = [vol |-> 1, deleting |-> FALSE]
      BY <2>1, Zenon DEF Init
    <2>3. \A c \in Claims : pvc[c] # None /\ pvc[c].vol = 1 /\ ~pvc[c].deleting
      <3> TAKE c \in Claims
      <3>1. pvc[c] = [vol |-> 1, deleting |-> FALSE]
        BY <2>2, Zenon
      <3>2. pvc[c] # None
        BY <2>1, <3>1, Constants, Zenon
      <3>3. pvc[c].vol = 1 /\ ~pvc[c].deleting
        BY <3>1
      <3> QED BY <3>2, <3>3, Zenon
    <2>4. made \in [Claims -> 1..MaxVolumes] /\ \A c \in Claims : made[c] = 1
      BY DEF Init
    <2> QED BY <2>2, <2>3, <2>4, Zenon DEF Init
  <1>1. \A p \in Pods : setup.pods[p].node \in Nodes
    BY <1>0, Zenon
  <1>2. \A c \in Claims : OwnerOf(c) \in Pods
    BY Zenon DEF OwnerOf
  <1>3. vol \in [Volumes -> {None} \cup VolumeRecords]
        /\ \A v \in Volumes : IF v[2] = 1 THEN \E n \in Nodes : vol[v] = NewVolume(n) ELSE vol[v] = None
    BY <1>1, <1>2, VolumePair, Constants, Zenon DEF Init
  <1>4. round \in [Rounds -> RoundRecords] /\ \A r \in Rounds : round[r] = Resting
    BY Constants, Zenon DEF Init
  <1>5. pod \in [Pods -> PodRecords] /\ \A p \in Pods : MayMove(pod[p]) => Consent(p)
    <2>1. ASSUME NEW p \in Pods
          PROVE  [Handle(p) EXCEPT !.node = setup.pods[p].node] \in PodRecords
                 /\ [Handle(p) EXCEPT !.node = setup.pods[p].node].note = Handle(p).note
      <3> DEFINE h == Handle(p)
      <3>1. h \in PodRecords
        BY <1>0, HandleTrue, Zenon
      <3> HIDE DEF h
      <3>2. [h EXCEPT !.node = setup.pods[p].node] \in PodRecords
            /\ [h EXCEPT !.node = setup.pods[p].node].note = h.note
        BY <1>1, <3>1, Zenon DEF PodRecords
      <3> QED BY <3>2, Zenon DEF h
    <2> QED BY <1>0, <2>1, HandleTrue, Zenon DEF Init, MayMove
  <1>6. TypeOK
    BY <1>0, <1>3, <1>4, <1>5, Zenon DEF TypeOK, Init
  <1>7. NotesTrue /\ ClaimKept /\ CollectedTrue
    BY <1>0, <1>4, <1>5, Constants, Zenon DEF Init, NotesTrue, ClaimKept, CollectedTrue
  <1>8. ASSUME NEW v \in Volumes PROVE VolumeTrue(v)
    BY <1>0, <1>3, VolumePair, Constants DEF VolumeTrue, BoundTo
  <1>9. \A r \in Rounds : RoundTrue(r)
    BY <1>4, Constants, Zenon DEF RoundTrue
  <1> QED BY <1>6, <1>7, <1>8, <1>9, Zenon DEF IInv

\* What is known of the volumes stays if nothing changes that it speaks of.
LEMMA VolumesKept ==
    ASSUME IInv, UNCHANGED <<node, vol, made>>,
           \A c \in Claims : (pvc'[c] = None <=> pvc[c] = None) /\ (pvc[c] # None => pvc'[c].vol = pvc[c].vol)
    PROVE  \A v \in Volumes : VolumeTrue(v)'
  BY VolumePair DEF IInv, VolumeTrue, BoundTo

\* Notes are only copied, lost or written by the webhook.
LEMMA NotesKept ==
    ASSUME IInv, UNCHANGED setup,
           \A p \in Pods : pod'[p] # None => pod'[p].note = Handle(p).note
                                             \/ (pod[p] # None /\ pod'[p].note = pod[p].note),
           \A g \in ghosts' : g \in ghosts \/ \E p \in Pods : pod[p] # None /\ g = Ghost(p)
    PROVE  NotesTrue'
  <1>1. \A p \in Pods : Consent(p) => Consent(p)'
    BY Zenon DEF Consent
  <1>2. \A p \in Pods : pod'[p] # None /\ MayMove(pod'[p]) => Consent(p)
    BY HandleTrue, Zenon DEF IInv, TypeOK, NotesTrue, MayMove
  <1>3. \A p \in Pods : Ghost(p).name = p /\ Ghost(p).note = pod[p].note
    BY Zenon DEF Ghost
  <1>4. ASSUME NEW g \in ghosts', MayMove(g) PROVE Consent(g.name)'
    <2>1. CASE g \in ghosts
      <3>1. g.name \in Pods /\ Consent(g.name)
        BY <1>4, <2>1, Zenon DEF IInv, TypeOK, Ghosts, NotesTrue
      <3> QED BY <1>1, <3>1, Zenon
    <2>2. ASSUME NEW p \in Pods, pod[p] # None, g = Ghost(p) PROVE Consent(g.name)'
      <3>1. g.name = p /\ MayMove(pod[p])
        BY <1>3, <1>4, <2>2, Zenon DEF MayMove
      <3> QED BY <1>1, <2>2, <3>1, Zenon DEF IInv, NotesTrue
    <2> QED BY <2>1, <2>2, Zenon
  <1> QED BY <1>1, <1>2, <1>4, Zenon DEF NotesTrue, MayMove

\* Claims do not go, and rounds do not let go of a claim.
LEMMA ClaimsKept ==
    ASSUME IInv, UNCHANGED <<round, lost>>,
           \A c \in Claims : pvc'[c] = None \/ pvc'[c].deleting => pvc[c] = None \/ pvc[c].deleting
    PROVE  ClaimKept'
  BY Zenon DEF IInv, ClaimKept, Deleted

\* A round goes on as before or ends, and claims keep their volumes.
LEMMA RoundsKept ==
    ASSUME IInv, UNCHANGED <<setup, twice>>,
           \A v \in Volumes : Outdated(v) => Outdated(v)',
           \A r \in Rounds : round'[r] \in {round[r], Resting},
           \A c \in Claims : pvc'[c] # None =>
               pvc[c] # None /\ (pvc'[c].vol = pvc[c].vol \/ pvc[c].vol = 0)
    PROVE  CollectedTrue' /\ \A r \in Rounds : RoundTrue(r)'
  <1>1. ASSUME NEW r \in Rounds, round'[r] = Resting
        PROVE  RoundTrue(r)' /\ Pending(r)' = {} /\ Deleted(r)' = {}
    BY <1>1, Constants, Zenon DEF RoundTrue, Pending, Deleted
  <1>2. ASSUME NEW r \in Rounds, round'[r] = round[r]
        PROVE  Pending(r)' = Pending(r) /\ Deleted(r)' = Deleted(r)
    BY <1>2, Zenon DEF Pending, Deleted
  <1>3. \A p : Consent(p)' <=> Consent(p)
    BY Zenon DEF Consent
  <1>4. ASSUME NEW r \in Rounds, round'[r] = round[r] PROVE RoundTrue(r)'
    <2>1. RoundTrue(r) /\ \A t \in round[r].todo : t.id \in Volumes
      BY DEF IInv, TypeOK, RoundRecords, Tasks
    <2>2. \A v \in round[r].map : v \in Volumes
      BY Zenon DEF IInv, TypeOK, RoundRecords
    <2> QED BY <1>2, <1>3, <1>4, <2>1, <2>2, Zenon DEF RoundTrue
  <1>5. CollectedTrue'
    <2> SUFFICES ASSUME NEW r \in Rounds, NEW v \in round'[r].map, v[1] \notin twice
                 PROVE  Untouched(r, v)'
      BY Zenon DEF CollectedTrue
    <2>1. round'[r] = round[r]
      BY Constants, Zenon
    <2>2. v \in Volumes /\ v \in round[r].map /\ Untouched(r, v)
      BY <2>1, Zenon DEF IInv, CollectedTrue, TypeOK, RoundRecords
    <2>3. v[1] \in Claims /\ v[2] # 0
      BY <2>2, VolumePair
    <2>4. pvc'[v[1]] # None => BoundTo(v)'
      BY <2>2, <2>3, Zenon DEF Untouched, BoundTo
    <2>5. \A o \in Rounds : o # r => v[1] \notin Pending(o)' \cup Deleted(o)'
      BY <1>1, <1>2, <2>2, Zenon DEF Untouched
    <2> QED BY <2>4, <2>5, Zenon DEF Untouched
  <1> QED BY <1>1, <1>4, <1>5, Zenon

\* A round that ends early leaves the claim it has deleted in the history.
LEMMA AbandonKept ==
    ASSUME IInv, NEW rs \in SUBSET Rounds, NEW hit, Abandon(rs, hit), UNCHANGED pvc
    PROVE  /\ ClaimKept' /\ round' \in [Rounds -> RoundRecords]
           /\ \A r \in Rounds : round'[r] \in {round[r], Resting}
  <1>1. round' \in [Rounds -> RoundRecords] /\ \A r \in Rounds : round'[r] \in {round[r], Resting}
    BY Constants, Zenon DEF Abandon, IInv, TypeOK
  <1>2. \A r \in Rounds : r \notin rs => round'[r] = round[r]
    BY Zenon DEF Abandon
  <1>3. \A r \in Rounds : r \notin rs => Deleted(r)' = Deleted(r)
    BY <1>2, Zenon DEF Deleted
  <1>4. lost \subseteq lost' /\ \A r \in rs : Deleted(r) \subseteq lost'
    BY Zenon DEF Abandon
  <1>5. ClaimKept'
    <2> SUFFICES ASSUME NEW c \in Claims, pvc[c] = None \/ pvc[c].deleting
                 PROVE  c \in lost' \/ \E r \in Rounds : c \in Deleted(r)'
      BY Zenon DEF ClaimKept
    <2>1. CASE c \in lost
      BY <1>4, <2>1, Zenon
    <2>2. ASSUME NEW r \in Rounds, c \in Deleted(r)
          PROVE  c \in lost' \/ c \in Deleted(r)'
      BY <1>3, <1>4, <2>2, Zenon
    <2> QED BY <2>1, <2>2, Zenon DEF IInv, ClaimKept
  <1> QED BY <1>1, <1>5, Zenon

\* Steps of the controller that touch no object and collect nothing.
LEMMA QuietStep ==
    ASSUME IInv, UNCHANGED <<objects, twice>>, ghosts' \subseteq ghosts, event' \in BOOLEAN,
           \/ UNCHANGED <<round, lost>>
           \/ \E rs \in SUBSET Rounds : \E hit : Abandon(rs, hit)
    PROVE  IInv'
  <1>1. /\ ClaimKept' /\ round' \in [Rounds -> RoundRecords]
        /\ \A r \in Rounds : round'[r] \in {round[r], Resting}
    <2>1. CASE UNCHANGED <<round, lost>>
      BY <2>1, ClaimsKept, Zenon DEF IInv, TypeOK, objects
    <2>2. CASE \E rs \in SUBSET Rounds : \E hit : Abandon(rs, hit)
      BY <2>2, AbandonKept, Zenon DEF objects
    <2> QED BY <2>1, <2>2, Zenon
  <1>2. TypeOK'
    BY <1>1, Zenon DEF IInv, TypeOK, objects
  <1>3. NotesTrue'
    BY NotesKept, Zenon DEF objects
  <1>4. \A v \in Volumes : VolumeTrue(v)'
    BY VolumesKept, Zenon DEF objects
  <1>5. CollectedTrue' /\ \A r \in Rounds : RoundTrue(r)'
    <2>1. \A v \in Volumes : Outdated(v) => Outdated(v)'
      BY Zenon DEF Outdated, objects
    <2> QED BY <1>1, <2>1, RoundsKept, Zenon DEF objects
  <1> QED BY <1>1, <1>2, <1>3, <1>4, <1>5, Zenon DEF IInv

LEMMA ControllerStops ==
    ASSUME IInv, Stop \/ (\E r \in Rounds : SkipPanics(r) \/ GiveUp(r)) \/ \E g \in ghosts : DeleteFunc(g)
    PROVE  IInv'
  <1>1. CASE Stop \/ \E r \in Rounds : SkipPanics(r)
    <2>1. Crash /\ UNCHANGED objects
      BY <1>1, Zenon DEF Stop, SkipPanics
    <2> QED BY <2>1, QuietStep, Zenon DEF Crash
  <1>2. ASSUME NEW r \in Rounds, GiveUp(r) PROVE IInv'
    <2>1. Abandon({r}, {}) /\ {r} \in SUBSET Rounds /\ event' \in BOOLEAN
          /\ UNCHANGED <<objects, ghosts, twice>>
      BY <1>2, Zenon DEF GiveUp, Fails
    <2> QED BY <2>1, QuietStep, Zenon
  <1>3. ASSUME NEW g \in ghosts, DeleteFunc(g) PROVE IInv'
    <2>1. /\ event' \in BOOLEAN /\ ghosts' \subseteq ghosts /\ UNCHANGED <<objects, round, lost, twice>>
      BY <1>3, Zenon DEF DeleteFunc, history
    <2> QED BY <2>1, QuietStep, Zenon
  <1> QED BY <1>1, <1>2, <1>3, Zenon

LEMMA PodStep ==
    ASSUME IInv, NEW p \in Pods, CreatePod(p) \/ CollectPod(p)
    PROVE  IInv'
  <1>1. /\ UNCHANGED <<setup, node, pvc, vol, made, event, round, lost, twice>>
        /\ pod' \in [Pods -> {None} \cup PodRecords] /\ ghosts' \subseteq Ghosts
        /\ \A q \in Pods : pod'[q] # None => pod'[q] \in {pod[q], Handle(q)}
        /\ \A g \in ghosts' : g \in ghosts \/ \E q \in Pods : pod[q] # None /\ g = Ghost(q)
    <2>1. CASE CreatePod(p)
      BY <2>1, HandleTrue, Zenon DEF CreatePod, history, IInv, TypeOK
    <2>2. CASE CollectPod(p)
      <3>1. Ghost(p) \in Ghosts
        BY <2>2, Zenon DEF CollectPod, Ghost, Ghosts, IInv, TypeOK, PodRecords
      <3> QED BY <2>2, <3>1, Zenon DEF CollectPod, history, IInv, TypeOK
    <2> QED BY <2>1, <2>2, Zenon
  <1>2. TypeOK'
    BY <1>1, Zenon DEF IInv, TypeOK
  <1>3. NotesTrue'
    <2>1. \A q \in Pods : pod'[q] # None => pod'[q].note = Handle(q).note
                                            \/ (pod[q] # None /\ pod'[q].note = pod[q].note)
      <3> TAKE q \in Pods
      <3>1. pod'[q] # None => pod'[q] = pod[q] \/ pod'[q] = Handle(q)
        BY <1>1, Zenon
      <3> QED BY <3>1, Zenon
    <2> QED BY <1>1, <2>1, NotesKept, Zenon
  <1>4. ClaimKept' /\ \A v \in Volumes : VolumeTrue(v)'
    BY <1>1, ClaimsKept, VolumesKept, Zenon
  <1>5. CollectedTrue' /\ \A r \in Rounds : RoundTrue(r)'
    <2>1. \A v \in Volumes : Outdated(v) => Outdated(v)'
      BY <1>1, Zenon DEF Outdated
    <2> QED BY <1>1, <2>1, RoundsKept, Zenon
  <1> QED BY <1>2, <1>3, <1>4, <1>5, Zenon DEF IInv

\* Nodes come and go; the volumes of a node that fails are marked.
LEMMA NodeStep ==
    ASSUME IInv, NEW n \in Nodes, NodeFails(n) \/ NodeReturns(n) \/ NodeDeleted(n)
    PROVE  IInv'
  <1>1. /\ UNCHANGED <<setup, pod, pvc, made, twice>> /\ ghosts' \subseteq ghosts /\ event' \in BOOLEAN
        /\ UNCHANGED <<round, lost>> \/ Abandon(Rounds, {})
    BY Zenon DEF NodeFails, NodeReturns, NodeDeleted, Crash, history, IInv, TypeOK
  <1>2. ClaimKept' /\ round' \in [Rounds -> RoundRecords]
        /\ \A r \in Rounds : round'[r] \in {round[r], Resting}
    BY <1>1, ClaimsKept, AbandonKept, Zenon DEF IInv, TypeOK
  <1>3. node' \in [Nodes -> {"ready", "down", "gone"}] /\ \A m \in Nodes : m # n => node'[m] = node[m]
    BY Zenon DEF NodeFails, NodeReturns, NodeDeleted, IInv, TypeOK
  <1>4. ASSUME NEW v \in Volumes
        PROVE  /\ vol'[v] \in {None} \cup VolumeRecords
               /\ vol'[v] # None => /\ vol[v] # None /\ vol'[v].node = vol[v].node
                                    /\ vol'[v].released = vol[v].released
                                    /\ (vol[v].failed => vol'[v].failed)
                                    /\ (vol[v].node = n /\ node'[n] # "ready" => vol'[v].failed)
               /\ vol'[v] = None => vol[v] = None \/ vol[v].released
    <2>1. vol[v] # None => vol[v] \in VolumeRecords
      BY Zenon DEF IInv, TypeOK
    <2>2. CASE MarkFailed(n)
      <3>1. CASE vol[v] # None /\ vol[v].node = n
        <4>1. vol'[v] = [vol[v] EXCEPT !.failed = TRUE]
          BY <2>2, <3>1, Zenon DEF MarkFailed
        <4>2. /\ vol'[v] \in VolumeRecords /\ vol'[v].node = vol[v].node
              /\ vol'[v].released = vol[v].released /\ vol'[v].failed
          BY <2>1, <3>1, <4>1, Zenon DEF VolumeRecords
        <4> QED BY <3>1, <4>2, Constants, Zenon
      <3>2. CASE ~(vol[v] # None /\ vol[v].node = n)
        BY <2>1, <2>2, <3>2, Zenon DEF MarkFailed
      <3> QED BY <3>1, <3>2, Zenon
    <2>3. CASE NodeReturns(n)
      <3>1. node'[n] = "ready"
        BY <2>3, Zenon DEF NodeReturns, IInv, TypeOK
      <3>2. vol'[v] = vol[v] \/ (vol'[v] = None /\ vol[v].released)
        <4>1. vol'[v] = IF vol[v] # None /\ vol[v].node = n /\ vol[v].released THEN None ELSE vol[v]
          BY <2>3, Zenon DEF NodeReturns
        <4> QED BY <4>1, Zenon
      <3> QED BY <2>1, <3>1, <3>2, Zenon
    <2> QED BY <2>2, <2>3, Zenon DEF NodeFails, NodeDeleted
  <1>5. vol' \in [Volumes -> {None} \cup VolumeRecords]
    <2>1. \E f : vol' = [v \in Volumes |-> f[v]]
      <3>1. CASE MarkFailed(n)
        <4>1. vol' = [v \in Volumes |-> vol'[v]]
          BY <3>1, Zenon DEF MarkFailed
        <4> QED BY <4>1, Zenon
      <3>2. CASE NodeReturns(n)
        <4>1. vol' = [v \in Volumes |-> vol'[v]]
          BY <3>2, Zenon DEF NodeReturns
        <4> QED BY <4>1, Zenon
      <3> QED BY <3>1, <3>2, Zenon DEF NodeFails, NodeDeleted
    <2> QED BY <1>4, <2>1, Zenon
  <1>6. TypeOK'
    BY <1>1, <1>2, <1>3, <1>5, Zenon DEF IInv, TypeOK
  <1>7. NotesTrue'
    BY <1>1, NotesKept, Zenon
  <1>8. ASSUME NEW v \in Volumes PROVE VolumeTrue(v)' /\ (Outdated(v) => Outdated(v)')
    <2>1. VolumeTrue(v) /\ (BoundTo(v)' <=> BoundTo(v))
      BY <1>1, Zenon DEF IInv, BoundTo
    <2>2. vol[v] # None => vol[v].node \in Nodes
      BY Zenon DEF IInv, TypeOK, VolumeRecords
    <2>3. BoundTo(v)' <=> vol'[v] # None /\ ~vol'[v].released
      BY <1>4, <2>1, Zenon DEF VolumeTrue
    <2>4. vol'[v] # None => v[2] <= made[v[1]] /\ (node'[vol'[v].node] = "ready" \/ vol'[v].failed)
      BY <1>3, <1>4, <2>1, <2>2 DEF VolumeTrue
    <2>5. Outdated(v) => Outdated(v)'
      BY <1>1, <1>4, Zenon DEF Outdated
    <2> QED BY <1>1, <2>3, <2>4, <2>5, Zenon DEF VolumeTrue
  <1>9. CollectedTrue' /\ \A r \in Rounds : RoundTrue(r)'
    BY <1>1, <1>2, <1>8, RoundsKept, Zenon
  <1> QED BY <1>2, <1>6, <1>7, <1>8, <1>9, Zenon DEF IInv

LEMMA ClaimGoneStep == ASSUME IInv, NEW c \in Claims, ClaimGone(c) PROVE IInv'
  <1>1. /\ UNCHANGED <<setup, node, pod, made, ghosts, event, round, lost, twice>>
        /\ pvc' \in [Claims -> {None} \cup ClaimRecords] /\ pvc'[c] = None
        /\ \A d \in Claims : d # c => pvc'[d] = pvc[d]
        /\ pvc[c] # None /\ pvc[c].deleting
    BY Zenon DEF ClaimGone, history, IInv, TypeOK
  <1> DEFINE w == <<c, pvc[c].vol>>
  <1>2. \A v \in Volumes : v # w => vol'[v] = vol[v]
    BY Zenon DEF ClaimGone
  <1>3. ASSUME w \in Volumes
        PROVE  /\ vol'[w] = None \/ /\ vol'[w] \in VolumeRecords /\ vol'[w].released
                                    /\ vol'[w].node = vol[w].node /\ vol'[w].failed = vol[w].failed
               /\ vol[w] \in VolumeRecords /\ vol[w] # None
    <2>1. vol[w] # None
      <3>1. BoundTo(w)
        BY <1>1, Zenon DEF BoundTo
      <3> QED BY <1>3, <3>1, Zenon DEF IInv, VolumeTrue
    <2>2. vol[w] \in VolumeRecords
      BY <1>3, <2>1, Zenon DEF IInv, TypeOK
    <2>3. vol'[w] = None \/ vol'[w] = [vol[w] EXCEPT !.released = TRUE]
      BY <1>3, Zenon DEF ClaimGone, Reclaimed
    <2> QED BY <2>1, <2>2, <2>3, Zenon DEF VolumeRecords
  <1>4. vol' \in [Volumes -> {None} \cup VolumeRecords]
    <2>1. vol' = [v \in Volumes |-> vol'[v]]
      BY Zenon DEF ClaimGone
    <2>2. \A v \in Volumes : vol'[v] \in {None} \cup VolumeRecords
      BY <1>2, <1>3, Zenon DEF IInv, TypeOK
    <2> QED BY <2>1, <2>2, Zenon
  <1>5. TypeOK'
    BY <1>1, <1>4, Zenon DEF IInv, TypeOK
  <1>6. NotesTrue' /\ ClaimKept'
    BY <1>1, NotesKept, ClaimsKept, Zenon
  <1>7. ASSUME NEW v \in Volumes PROVE VolumeTrue(v)' /\ (Outdated(v) => Outdated(v)')
    <2>1. VolumeTrue(v) /\ v[1] \in Claims /\ v = <<v[1], v[2]>>
      BY VolumePair, Zenon DEF IInv
    <2>2. CASE v = w
      <3>1. ~BoundTo(v)' /\ BoundTo(v)
        BY <1>1, <2>2, Zenon DEF BoundTo
      <3> QED BY <1>1, <1>3, <2>1, <2>2, <3>1, Zenon DEF VolumeTrue, Outdated
    <2>3. CASE v # w
      <3>1. BoundTo(v)' <=> BoundTo(v)
        BY <1>1, <2>1, <2>3, Zenon DEF BoundTo
      <3> QED BY <1>1, <1>2, <2>1, <2>3, <3>1, Zenon DEF VolumeTrue, Outdated
    <2> QED BY <2>2, <2>3, Zenon
  <1>8. CollectedTrue' /\ \A r \in Rounds : RoundTrue(r)'
    BY <1>1, <1>7, RoundsKept, Zenon
  <1> QED BY <1>5, <1>6, <1>7, <1>8, Zenon DEF IInv

\* A pod is placed, and its claims without volume get one.
LEMMA ScheduleStep == ASSUME IInv, NEW p \in Pods, Schedule(p) PROVE IInv'
  <1> DEFINE cs == Range(ClaimsOf[p])
             fresh == {c \in cs : pvc[c] # None /\ pvc[c].vol = 0}
  <1>0. /\ UNCHANGED <<setup, node, ghosts, event, round, lost, twice>>
        /\ pod[p] # None /\ \A c \in fresh : made[c] < MaxVolumes
    BY Zenon DEF Schedule, history
  <1>1. PICK n \in Ready :
            /\ pod' = [pod EXCEPT ![p].node = n]
            /\ made' = [c \in Claims |-> IF c \in fresh THEN made[c] + 1 ELSE made[c]]
            /\ pvc' = [c \in Claims |-> IF c \in fresh THEN [pvc[c] EXCEPT !.vol = made[c] + 1]
                                        ELSE pvc[c]]
            /\ vol' = [v \in Volumes |-> IF v[1] \in fresh /\ v[2] = made[v[1]] + 1
                                         THEN NewVolume(n) ELSE vol[v]]
    BY Zenon DEF Schedule
  <1>2. \A c \in fresh : pvc[c] # None /\ pvc[c].vol = 0
    OBVIOUS
  <1> HIDE DEF fresh
  <1>3. n \in Nodes /\ node[n] = "ready"
    BY Zenon DEF Ready
  <1>4. \A c \in Claims : made[c] \in Nat /\ made[c] >= 1 /\ made[c] <= MaxVolumes
    BY DEF IInv, TypeOK
  <1>5. made' \in [Claims -> 1..MaxVolumes]
        /\ \A c \in Claims : made'[c] = IF c \in fresh THEN made[c] + 1 ELSE made[c]
    BY <1>0, <1>1, <1>4
  <1>6. ASSUME NEW c \in Claims
        PROVE  IF c \in fresh
               THEN /\ pvc'[c] \in ClaimRecords /\ pvc'[c].vol = made[c] + 1
                    /\ pvc'[c].deleting = pvc[c].deleting
               ELSE pvc'[c] = pvc[c]
    <2>1. CASE c \in fresh
      <3>1. pvc'[c] = [pvc[c] EXCEPT !.vol = made[c] + 1] /\ pvc[c] \in ClaimRecords
        BY <1>1, <1>2, <2>1, Zenon DEF IInv, TypeOK
      <3>2. made[c] + 1 \in 0..MaxVolumes
        BY <1>0, <1>4, <2>1
      <3> QED BY <2>1, <3>1, <3>2, Zenon DEF ClaimRecords
    <2>2. CASE c \notin fresh
      BY <1>1, <2>2, Zenon
    <2> QED BY <2>1, <2>2, Zenon
  <1>7. pvc' \in [Claims -> {None} \cup ClaimRecords]
    <2>1. pvc' = [c \in Claims |-> pvc'[c]]
      BY <1>1, Zenon
    <2>2. \A c \in Claims : pvc'[c] \in {None} \cup ClaimRecords
      BY <1>6, Zenon DEF IInv, TypeOK
    <2> QED BY <2>1, <2>2, Zenon
  <1>8. /\ vol' \in [Volumes -> {None} \cup VolumeRecords]
        /\ \A v \in Volumes : vol'[v] = IF v[1] \in fresh /\ v[2] = made[v[1]] + 1
                                        THEN NewVolume(n) ELSE vol[v]
    BY <1>1, <1>3, Constants, Zenon DEF IInv, TypeOK
  <1>9. /\ pod' \in [Pods -> {None} \cup PodRecords]
        /\ \A q \in Pods : pod'[q] # None => pod[q] # None /\ pod'[q].note = pod[q].note
    <2> DEFINE new == [pod[p] EXCEPT !.node = n]
    <2>0. pod[p] \in PodRecords
      BY <1>0 DEF IInv, TypeOK
    <2>1. new \in PodRecords /\ new.note = pod[p].note
      BY <1>3, <2>0 DEF PodRecords
    <2>2. pod' = [pod EXCEPT ![p] = new]
      BY <1>1, Zenon
    <2> HIDE DEF new
    <2> QED BY <1>0, <2>1, <2>2, Zenon DEF IInv, TypeOK
  <1>10. TypeOK'
    BY <1>0, <1>5, <1>7, <1>8, <1>9, Zenon DEF IInv, TypeOK
  <1>11. NotesTrue'
    BY <1>0, <1>9, NotesKept, Zenon
  <1>12. ClaimKept'
    <2>1. \A c \in Claims : pvc'[c] = None \/ pvc'[c].deleting => pvc[c] = None \/ pvc[c].deleting
      BY <1>6, Constants, Zenon
    <2> QED BY <1>0, <2>1, ClaimsKept, Zenon
  <1>13. ASSUME NEW v \in Volumes PROVE VolumeTrue(v)' /\ (Outdated(v) => Outdated(v)')
    <2>1. VolumeTrue(v) /\ v[1] \in Claims /\ v[2] \in Nat /\ v[2] # 0 /\ made[v[1]] \in Nat
      BY <1>4, VolumePair DEF IInv
    <2>2. CASE v[1] \in fresh /\ v[2] = made[v[1]] + 1
      <3>1. BoundTo(v)' /\ vol'[v] = NewVolume(n) /\ ~Outdated(v) /\ made'[v[1]] = v[2]
        BY <1>5, <1>6, <1>8, <2>1, <2>2, Constants DEF BoundTo, Outdated
      <3> QED BY <1>0, <1>3, <2>1, <3>1, Constants DEF VolumeTrue
    <2>3. CASE v[1] \in fresh /\ v[2] # made[v[1]] + 1
      <3>1. ~BoundTo(v)' /\ ~BoundTo(v)
        BY <1>2, <1>6, <2>1, <2>3, Constants, Zenon DEF BoundTo
      <3>2. vol'[v] = vol[v] /\ made'[v[1]] = made[v[1]] + 1
        BY <1>5, <1>8, <2>1, <2>3, Zenon
      <3> QED BY <1>0, <2>1, <3>1, <3>2 DEF VolumeTrue, Outdated
    <2>4. CASE v[1] \notin fresh
      <3>1. vol'[v] = vol[v] /\ made'[v[1]] = made[v[1]] /\ pvc'[v[1]] = pvc[v[1]]
        BY <1>5, <1>6, <1>8, <2>1, <2>4, Zenon
      <3> QED BY <1>0, <2>1, <3>1, Zenon DEF VolumeTrue, BoundTo, Outdated
    <2> QED BY <2>2, <2>3, <2>4, Zenon
  <1>14. CollectedTrue' /\ \A r \in Rounds : RoundTrue(r)'
    <2>1. \A c \in Claims : pvc'[c] # None => pvc[c] # None /\ (pvc'[c].vol = pvc[c].vol \/ pvc[c].vol = 0)
      BY <1>2, <1>6, Zenon
    <2> QED BY <1>0, <1>13, <2>1, RoundsKept, Zenon
  <1> QED BY <1>10, <1>11, <1>12, <1>13, <1>14, Zenon DEF IInv

\* A round that is through with one part goes on to the next.
LEMMA AdvanceTrue ==
    ASSUME NEW d \in RoundRecords, d.pc = "create" <=> d.cur # None, d.pc # "idle"
    PROVE  /\ Advance(d) \in RoundRecords
           /\ Advance(d).todo = d.todo /\ Advance(d).map = d.map /\ Advance(d).cur = d.cur
           /\ Advance(d).pc = "create" <=> d.pc = "create"
           /\ Advance(d).pc = "idle" => d.map = {}
           /\ Advance(d).pc \in {"rebuild", "create"} => d.todo = {} \/ d.pc \in {"rebuild", "create"}
  <1>1. CASE d.todo = {} /\ d.map = {} /\ d.cur = None
    <2>1. Advance(d) = Resting
      BY <1>1, Zenon DEF Advance
    <2> QED BY <1>1, <2>1, Constants, Zenon
  <1>2. CASE d.pc = "scan" /\ d.todo = {} /\ d.map # {}
    <2>1. Advance(d) = [d EXCEPT !.pc = "rebuild"]
      BY <1>2, Zenon DEF Advance
    <2> QED BY <1>2, <2>1, Zenon DEF RoundRecords
  <1>3. CASE /\ ~(d.todo = {} /\ d.map = {} /\ d.cur = None)
             /\ ~(d.pc = "scan" /\ d.todo = {} /\ d.map # {})
    <2>1. Advance(d) = d
      BY <1>3, Zenon DEF Advance
    <2> QED BY <2>1, Zenon
  <1> QED BY <1>1, <1>2, <1>3, Zenon

\* One round changes.
LEMMA RoundChanges ==
    ASSUME IInv, NEW r \in Rounds, NEW d \in RoundRecords, round' = [round EXCEPT ![r] = d]
    PROVE  /\ round' \in [Rounds -> RoundRecords] /\ round'[r] = d
           /\ Pending(r)' = {v[1] : v \in d.map}
           /\ Deleted(r)' = IF d.pc = "create" THEN {d.cur[1]} ELSE {}
           /\ \A o \in Rounds : o # r => round'[o] = round[o] /\ Pending(o)' = Pending(o)
                                         /\ Deleted(o)' = Deleted(o)
  BY Zenon DEF IInv, TypeOK, Pending, Deleted

\* A round that changes does not change what is known of the other.
LEMMA OtherRound ==
    ASSUME IInv, UNCHANGED setup, NEW o \in Rounds, round'[o] = round[o],
           \A v \in Volumes : Outdated(v) => Outdated(v)'
    PROVE  RoundTrue(o)'
  <1>1. RoundTrue(o) /\ \A t \in round[o].todo : t.id \in Volumes
    BY DEF IInv, TypeOK, RoundRecords, Tasks
  <1>2. \A v \in round[o].map : v \in Volumes
    BY Zenon DEF IInv, TypeOK, RoundRecords
  <1>3. Pending(o)' = Pending(o) /\ Deleted(o)' = Deleted(o)
    BY Zenon DEF Pending, Deleted
  <1>4. \A p : Consent(p)' <=> Consent(p)
    BY Zenon DEF Consent
  <1> QED BY <1>1, <1>2, <1>3, <1>4, Zenon DEF RoundTrue

\* A round changes its list.
LEMMA ListStep ==
    ASSUME IInv, UNCHANGED <<objects, ghosts, history>>, event' \in BOOLEAN,
           NEW r \in Rounds, NEW d \in RoundRecords, round' = [round EXCEPT ![r] = d],
           d.map = round[r].map, d.cur = round[r].cur,
           d.pc = "create" <=> round[r].pc = "create", d.pc = "idle" => d.map = {},
           d.pc \in {"rebuild", "create"} => d.todo = {},
           \A t \in d.todo : Outdated(t.id) /\ t.id[1] \notin Pending(r),
           \A t, u \in d.todo : t.id[1] = u.id[1] => t = u
    PROVE  IInv'
  <1>1. /\ round' \in [Rounds -> RoundRecords] /\ round'[r] = d
        /\ Pending(r)' = Pending(r) /\ Deleted(r)' = Deleted(r)
        /\ \A o \in Rounds : o # r => round'[o] = round[o] /\ Pending(o)' = Pending(o)
                                      /\ Deleted(o)' = Deleted(o)
    BY RoundChanges DEF Pending, Deleted
  <1>2. TypeOK'
    BY <1>1, Zenon DEF IInv, TypeOK, objects, history
  <1>3. NotesTrue' /\ \A v \in Volumes : VolumeTrue(v)'
    BY NotesKept, VolumesKept, Zenon DEF objects
  <1>4. ClaimKept'
    <2>1. \A o \in Rounds : Deleted(o)' = Deleted(o)
      BY <1>1, Zenon
    <2> QED BY <2>1 DEF IInv, ClaimKept, objects, history
  <1>5. \A v : Outdated(v) <=> Outdated(v)'
    BY Zenon DEF Outdated, objects
  <1>6. RoundTrue(r)'
    <2>1. RoundTrue(r) /\ \A p : Consent(p)' <=> Consent(p)
      BY Zenon DEF IInv, Consent, objects
    <2>2. \A v \in round'[r].map : Outdated(v)' /\ Consent(OwnerOf(v[1]))' /\ v[1] \notin Deleted(r)'
      BY <1>1, <1>5, <2>1, Zenon DEF RoundTrue
    <2>3. \A t \in round'[r].todo : Outdated(t.id)' /\ t.id[1] \notin Pending(r)'
      BY <1>1, <1>5
    <2>4. /\ round'[r].pc = "create" <=> round'[r].cur # None
          /\ \A v, w \in round'[r].map : v[1] = w[1] => v = w
      BY <1>1, <2>1, Zenon DEF RoundTrue
    <2> QED BY <1>1, <2>2, <2>3, <2>4, Zenon DEF RoundTrue
  <1>7. \A o \in Rounds : o # r => RoundTrue(o)'
    BY <1>1, <1>5, OtherRound, Zenon DEF objects
  <1>8. CollectedTrue'
    <2>1. \A o \in Rounds : round'[o].map = round[o].map /\ Pending(o)' = Pending(o)
                            /\ Deleted(o)' = Deleted(o)
      BY <1>1, Zenon
    <2> QED BY <2>1 DEF IInv, CollectedTrue, Untouched, BoundTo, objects, history
  <1> QED BY <1>2, <1>3, <1>4, <1>6, <1>7, <1>8, Zenon DEF IInv

LEMMA SkipVolumeStep == ASSUME IInv, NEW r \in Rounds, SkipVolume(r) PROVE IInv'
  <1>1. PICK t \in round[r].todo :
        round' = [round EXCEPT ![r] = Advance([round[r] EXCEPT !.todo = @ \ {t}])]
    BY Zenon DEF SkipVolume
  <1> DEFINE d == [round[r] EXCEPT !.todo = @ \ {t}]
  <1>2. /\ round[r] \in RoundRecords /\ RoundTrue(r) /\ round[r].pc = "scan"
        /\ UNCHANGED <<objects, ghosts, event, history>> /\ event \in BOOLEAN
    BY Zenon DEF SkipVolume, IInv, TypeOK
  <1>3. /\ d \in RoundRecords /\ d.todo = round[r].todo \ {t} /\ d.map = round[r].map
        /\ d.cur = round[r].cur /\ d.pc = "scan"
    BY <1>2, Zenon DEF RoundRecords
  <1> HIDE DEF d
  <1>4. d.pc = "create" <=> d.cur # None
    BY <1>2, <1>3, Zenon DEF RoundTrue
  <1>5. /\ Advance(d) \in RoundRecords
        /\ Advance(d).todo = d.todo /\ Advance(d).map = d.map /\ Advance(d).cur = d.cur
        /\ Advance(d).pc # "create" /\ (Advance(d).pc = "idle" => d.map = {})
        /\ (Advance(d).pc \in {"rebuild", "create"} => d.todo = {})
    BY <1>3, <1>4, AdvanceTrue, Zenon
  <1>6. /\ \A u \in d.todo : Outdated(u.id) /\ u.id[1] \notin Pending(r)
        /\ \A u, w \in d.todo : u.id[1] = w.id[1] => u = w
    BY <1>2, <1>3, Zenon DEF RoundTrue
  <1>7. round' = [round EXCEPT ![r] = Advance(d)]
    BY <1>1, Zenon DEF d
  <1> QED BY <1>2, <1>3, <1>5, <1>6, <1>7, ListStep

\* The list holds volumes that are bound, no two of one claim, and that have failed.
LEMMA ListVolumesStep == ASSUME IInv, NEW r \in Rounds, ListVolumes(r) PROVE IInv'
  <1> DEFINE bad == {v \in DOMAIN pvMap :
                  /\ pvMap[v] = "Bound"
                  /\ ~(vol[v].node \in DOMAIN nodeStatusList /\ nodeStatusList[vol[v].node] = "normal")}
             list == {[id |-> v, node |-> vol[v].node, fin |-> vol[v].fin] : v \in bad}
             d == [Resting EXCEPT !.pc = "scan", !.todo = list]
  <1>1. /\ UNCHANGED <<objects, ghosts, history, fails, faults>> /\ event' \in BOOLEAN
        /\ round[r].pc = "idle"
        /\ round' = IF bad = {} THEN round ELSE [round EXCEPT ![r] = d]
    BY Zenon DEF ListVolumes, IInv, TypeOK
  <1>2. CASE round' = round
    BY <1>1, <1>2, QuietStep, Zenon DEF history
  <1>3. CASE round' = [round EXCEPT ![r] = d]
    <2>1. ASSUME NEW v \in bad
          PROVE  v \in Volumes /\ vol[v] # None /\ ~vol[v].released /\ Outdated(v)
      <3>1. v \in Volumes /\ vol[v] # None
        BY Zenon DEF pvMap
      <3>2. ~vol[v].released
        BY <3>1, Zenon DEF pvMap
      <3>3. vol[v].node \in Nodes
        BY <3>1, Zenon DEF IInv, TypeOK, VolumeRecords
      <3>4. node[vol[v].node] # "ready"
        BY <3>3, Zenon DEF nodeStatusList
      <3> QED BY <3>1, <3>2, <3>4, Zenon DEF IInv, VolumeTrue, Outdated
    <2>2. \A v, w \in bad : v[1] = w[1] => v = w
      <3>1. \A v \in bad : BoundTo(v) /\ v = <<v[1], v[2]>>
        BY <2>1, VolumePair, Zenon DEF IInv, VolumeTrue
      <3> QED BY <3>1 DEF BoundTo
    <2>3. \A v \in bad : vol[v].node \in Nodes /\ vol[v].fin \in BOOLEAN
      BY <2>1, Zenon DEF IInv, TypeOK, VolumeRecords
    <2> HIDE DEF bad
    <2>4. list \subseteq Tasks
      BY <2>1, <2>3 DEF Tasks
    <2>5. /\ \A t \in list : Outdated(t.id)
          /\ \A t, u \in list : t.id[1] = u.id[1] => t = u
      BY <2>1, <2>2
    <2> HIDE DEF list
    <2>6. /\ d \in RoundRecords /\ d.pc = "scan" /\ d.todo = list /\ d.map = {} /\ d.cur = None
      BY <2>4, Constants, Zenon DEF Resting, RoundRecords
    <2> HIDE DEF d
    <2>7. round[r].map = {} /\ round[r].cur = None /\ Pending(r) = {}
      BY <1>1, Zenon DEF IInv, RoundTrue, Pending
    <2>8. /\ d \in RoundRecords /\ d.map = round[r].map /\ d.cur = round[r].cur
          /\ d.pc = "create" <=> round[r].pc = "create"
          /\ d.pc = "idle" => d.map = {}
          /\ d.pc \in {"rebuild", "create"} => d.todo = {}
      BY <1>1, <2>6, <2>7
    <2>9. \A t \in d.todo : Outdated(t.id) /\ t.id[1] \notin Pending(r)
      BY <2>5, <2>6, <2>7
    <2> QED BY <1>1, <1>3, <2>5, <2>6, <2>8, <2>9, ListStep
  <1> QED BY <1>1, <1>2, <1>3, Zenon

\* The pods that a round kills are those that may be moved.
LEMMA ClearPodKept ==
    ASSUME IInv, NEW n, clearPod(n), UNCHANGED setup
    PROVE  /\ pod' \in [Pods -> {None} \cup PodRecords] /\ ghosts' \subseteq Ghosts /\ NotesTrue'
  <1>1. /\ pod' \in [Pods -> {None} \cup PodRecords]
        /\ \A p \in Pods : pod'[p] # None => pod[p] # None /\ pod'[p].note = pod[p].note
    <2>1. \A p \in Pods : pod'[p] = IF p \in Killed(n) THEN None ELSE pod[p]
      BY Zenon DEF clearPod
    <2> QED BY <2>1, Zenon DEF clearPod, IInv, TypeOK
  <1>2. \A g \in ghosts' : g \in ghosts \/ \E p \in Pods : pod[p] # None /\ g = Ghost(p)
    BY Zenon DEF clearPod, Killed
  <1>3. ASSUME NEW p \in Pods, pod[p] # None PROVE Ghost(p) \in Ghosts
    BY <1>3, Zenon DEF Ghost, Ghosts, IInv, TypeOK, PodRecords
  <1>4. ghosts' \subseteq Ghosts
    BY <1>2, <1>3 DEF IInv, TypeOK
  <1> QED BY <1>1, <1>2, <1>4, NotesKept, Zenon

\* A volume is taken only with the consent of the claim's owner.
LEMMA TakeTrue ==
    ASSUME IInv, NEW n, NEW c \in Claims, "take" \in skipLv(n, c)
    PROVE  Consent(OwnerOf(c))
  <1>1. PICK g \in PodsOn(n) : c \in Range(ClaimsOf[g.name]) /\ MayMove(g)
    BY Zenon DEF skipLv
  <1>2. CASE g \in ghosts
    BY <1>1, <1>2, OwnerUnique, Zenon DEF IInv, TypeOK, Ghosts, NotesTrue
  <1>3. ASSUME NEW p \in Pods, pod[p] # None, g = Ghost(p) PROVE Consent(OwnerOf(c))
    <2>1. g.name = p /\ MayMove(pod[p])
      BY <1>1, <1>3, Zenon DEF Ghost, MayMove
    <2> QED BY <1>1, <1>3, <2>1, OwnerUnique, Zenon DEF IInv, NotesTrue
  <1> QED BY <1>1, <1>2, <1>3, Zenon DEF PodsOn

LEMMA CollectVolumeStep == ASSUME IInv, NEW r \in Rounds, CollectVolume(r) PROVE IInv'
  <1>1. PICK t \in round[r].todo :
        LET v == t.id
            c == v[1]
            hit == UNION {Range(ClaimsOf[p]) : p \in Killed(t.node)}
            missing == t.fin /\ vol[v] = None
            stale == \/ pvc[c] # None /\ pvc[c].vol # v[2]
                     \/ \E o \in Rounds \ {r} : c \in Pending(o) \cup Deleted(o)
        IN  /\ "take" \in skipLv(t.node, c)
            /\ clearPod(t.node)
            /\ \/ /\ ~missing
                  /\ round' = [round EXCEPT ![r] =
                        Advance([round[r] EXCEPT !.todo = @ \ {t}, !.map = @ \cup {v}])]
                  /\ vol' = IF vol[v] = None THEN vol ELSE [vol EXCEPT ![v].fin = FALSE]
                  /\ twice' = IF stale THEN twice \cup {c} ELSE twice
                  /\ dropped' = (dropped \cup (hit \ Pending(r))) \ {c}
                  /\ UNCHANGED <<event, lost, faults>>
               \/ /\ IF missing THEN UNCHANGED faults ELSE Fault
                  /\ Fails(r, hit)
                  /\ UNCHANGED <<vol, twice>>
    BY Zenon DEF CollectVolume
  <1> DEFINE v == t.id
             c == t.id[1]
             stale == \/ pvc[c] # None /\ pvc[c].vol # v[2]
                      \/ \E o \in Rounds \ {r} : c \in Pending(o) \cup Deleted(o)
  <1>2. /\ UNCHANGED <<setup, node, pvc, made>> /\ round[r].pc = "scan"
        /\ round[r] \in RoundRecords /\ RoundTrue(r)
    BY Zenon DEF CollectVolume, IInv, TypeOK
  <1>3. v \in Volumes /\ c \in Claims /\ Outdated(v) /\ c \notin Pending(r)
    BY <1>2, VolumePair, Zenon DEF RoundRecords, Tasks, RoundTrue
  <1>4. /\ Consent(OwnerOf(c))
        /\ pod' \in [Pods -> {None} \cup PodRecords] /\ ghosts' \subseteq Ghosts /\ NotesTrue'
    BY <1>1, <1>2, <1>3, TakeTrue, ClearPodKept, Zenon
  <1>5. ASSUME NEW hit, Fails(r, hit), UNCHANGED <<vol, twice>> PROVE IInv'
    <2>1. Abandon({r}, hit) /\ {r} \in SUBSET Rounds /\ event' \in BOOLEAN
      BY <1>5, Zenon DEF Fails
    <2>2. /\ ClaimKept' /\ round' \in [Rounds -> RoundRecords]
          /\ \A o \in Rounds : round'[o] \in {round[o], Resting}
      BY <1>2, <2>1, AbandonKept, Zenon
    <2>3. TypeOK'
      BY <1>2, <1>4, <1>5, <2>1, <2>2, Zenon DEF IInv, TypeOK
    <2>4. \A u \in Volumes : VolumeTrue(u)' /\ (Outdated(u) => Outdated(u)')
      BY <1>2, <1>5, VolumesKept, Zenon DEF Outdated
    <2>5. CollectedTrue' /\ \A o \in Rounds : RoundTrue(o)'
      BY <1>2, <1>5, <2>2, <2>4, RoundsKept, Zenon
    <2> QED BY <1>4, <2>2, <2>3, <2>4, <2>5, Zenon DEF IInv
  <1>6. ASSUME round' = [round EXCEPT ![r] =
                  Advance([round[r] EXCEPT !.todo = @ \ {t}, !.map = @ \cup {v}])],
               vol' = IF vol[v] = None THEN vol ELSE [vol EXCEPT ![v].fin = FALSE],
               twice' = IF stale THEN twice \cup {c} ELSE twice, UNCHANGED <<event, lost>>
        PROVE  IInv'
    <2> DEFINE d == [round[r] EXCEPT !.todo = @ \ {t}, !.map = @ \cup {v}]
               e == Advance(d)
    <2>1. /\ d \in RoundRecords /\ d.todo = round[r].todo \ {t} /\ d.map = round[r].map \cup {v}
          /\ d.cur = round[r].cur /\ d.pc = "scan"
      BY <1>2, <1>3, Zenon DEF RoundRecords
    <2>2. round' = [round EXCEPT ![r] = e]
      BY <1>6, Zenon
    <2> HIDE DEF d
    <2>3. d.pc = "create" <=> d.cur # None
      BY <1>2, <2>1, Zenon DEF RoundTrue
    <2>4. /\ e \in RoundRecords /\ e.todo = d.todo /\ e.map = d.map /\ e.cur = d.cur
          /\ e.pc # "create" /\ e.pc # "idle" /\ (e.pc \in {"rebuild", "create"} => e.todo = {})
      BY <2>1, <2>3, AdvanceTrue, Zenon
    <2> HIDE DEF e
    <2>5. /\ round' \in [Rounds -> RoundRecords] /\ round'[r] = e
          /\ Pending(r)' = Pending(r) \cup {c} /\ Deleted(r)' = {} /\ Deleted(r) = {}
          /\ \A o \in Rounds : o # r => round'[o] = round[o] /\ Pending(o)' = Pending(o)
                                        /\ Deleted(o)' = Deleted(o)
      <3>1. /\ round' \in [Rounds -> RoundRecords] /\ round'[r] = e
            /\ Pending(r)' = {u[1] : u \in e.map}
            /\ Deleted(r)' = IF e.pc = "create" THEN {e.cur[1]} ELSE {}
            /\ \A o \in Rounds : o # r => round'[o] = round[o] /\ Pending(o)' = Pending(o)
                                          /\ Deleted(o)' = Deleted(o)
        BY <2>2, <2>4, RoundChanges, Zenon
      <3>2. Deleted(r)' = {} /\ Deleted(r) = {}
        BY <1>2, <2>4, <3>1, Zenon DEF Deleted
      <3>3. Pending(r)' = Pending(r) \cup {c}
        BY <2>1, <2>4, <3>1 DEF Pending
      <3> QED BY <3>1, <3>2, <3>3, Zenon
    <2>6. /\ vol' \in [Volumes -> {None} \cup VolumeRecords]
          /\ \A u \in Volumes : /\ vol'[u] = None <=> vol[u] = None
                                /\ vol[u] # None => /\ vol'[u].node = vol[u].node
                                                    /\ vol'[u].released = vol[u].released
                                                    /\ vol'[u].failed = vol[u].failed
      <3>1. CASE vol[v] = None
        BY <1>6, <3>1, Zenon DEF IInv, TypeOK
      <3>2. CASE vol[v] # None
        <4> DEFINE new == [vol[v] EXCEPT !.fin = FALSE]
        <4>1. /\ new \in VolumeRecords /\ new.node = vol[v].node /\ new.released = vol[v].released
              /\ new.failed = vol[v].failed
          <5>1. vol[v] \in VolumeRecords
            BY <1>3, <3>2, Zenon DEF IInv, TypeOK
          <5> QED BY <5>1, Zenon DEF VolumeRecords
        <4>2. vol' = [vol EXCEPT ![v] = new]
          BY <1>6, <3>2, Zenon
        <4> HIDE DEF new
        <4> QED BY <1>3, <3>2, <4>1, <4>2, Constants, Zenon DEF IInv, TypeOK
      <3> QED BY <3>1, <3>2, Zenon
    <2>7. twice \subseteq twice' /\ twice' \subseteq Claims /\ (stale => c \in twice')
      BY <1>3, <1>6, Zenon DEF IInv, TypeOK
    <2>8. TypeOK'
      BY <1>2, <1>4, <1>6, <2>5, <2>6, <2>7, Zenon DEF IInv, TypeOK
    <2>9. ClaimKept'
      <3>1. \A o \in Rounds : Deleted(o)' = Deleted(o)
        BY <2>5, Zenon
      <3> QED BY <1>2, <1>6, <3>1, Zenon DEF IInv, ClaimKept
    <2>10. ASSUME NEW u \in Volumes PROVE VolumeTrue(u)' /\ (Outdated(u) => Outdated(u)')
      <3>1. VolumeTrue(u) /\ (BoundTo(u)' <=> BoundTo(u))
        BY <1>2, Zenon DEF IInv, BoundTo
      <3> QED BY <1>2, <2>6, <3>1, Zenon DEF VolumeTrue, Outdated
    <2>11. \A p : Consent(p)' <=> Consent(p)
      BY <1>2, Zenon DEF Consent
    <2>12. RoundTrue(r)'
      <3>1. \A u \in e.todo : u \in round[r].todo /\ u.id \in Volumes /\ u.id[1] # c
        BY <1>2, <2>1, <2>4, Zenon DEF RoundTrue, RoundRecords, Tasks
      <3>2. \A u \in e.todo : Outdated(u.id)' /\ u.id[1] \notin Pending(r)'
        BY <1>2, <2>5, <2>10, <3>1, Zenon DEF RoundTrue
      <3>3. \A u, w \in e.todo : u.id[1] = w.id[1] => u = w
        BY <1>2, <3>1, Zenon DEF RoundTrue
      <3>4. \A u \in e.map : u \in Volumes /\ (u = v \/ u \in round[r].map)
        BY <1>2, <1>3, <2>1, <2>4, Zenon DEF RoundRecords
      <3>5. \A u \in e.map : Outdated(u)' /\ Consent(OwnerOf(u[1]))' /\ u[1] \notin Deleted(r)'
        BY <1>2, <1>3, <1>4, <2>5, <2>10, <2>11, <3>4, Zenon DEF RoundTrue
      <3>6. \A u \in round[r].map : u[1] # c
        BY <1>3, Zenon DEF Pending
      <3>7. \A u, w \in e.map : u[1] = w[1] => u = w
        BY <1>2, <3>4, <3>6, Zenon DEF RoundTrue
      <3>8. e.cur = None
        BY <2>1, <2>3, <2>4, Zenon
      <3> QED BY <2>4, <2>5, <3>2, <3>3, <3>5, <3>7, <3>8, Zenon DEF RoundTrue
    <2>13. \A o \in Rounds : o # r => RoundTrue(o)'
      BY <1>2, <2>5, <2>10, OtherRound, Zenon
    <2>14. CollectedTrue'
      <3>1. ASSUME NEW u \in e.map, u[1] \notin twice' PROVE Untouched(r, u)'
        <4>1. CASE u = v
          BY <1>2, <2>5, <2>7, <3>1, <4>1, Zenon DEF Untouched, BoundTo
        <4>2. CASE u \in round[r].map
          BY <1>2, <2>5, <2>7, <3>1, <4>2 DEF IInv, CollectedTrue, Untouched, BoundTo
        <4> QED BY <2>1, <2>4, <4>1, <4>2, Zenon
      <3>2. ASSUME NEW o \in Rounds, o # r, NEW u \in round[o].map, u[1] \notin twice'
            PROVE  Untouched(o, u)'
        <4>1. Untouched(o, u) /\ u[1] \in Pending(o)
          BY <2>7, <3>2, Zenon DEF IInv, CollectedTrue, Pending
        <4>2. u[1] # c
          BY <2>7, <3>2, <4>1, Zenon
        <4> QED BY <1>2, <2>5, <4>1, <4>2 DEF Untouched, BoundTo
      <3> QED BY <2>5, <3>1, <3>2, Zenon DEF CollectedTrue
    <2> QED BY <1>4, <2>8, <2>9, <2>10, <2>12, <2>13, <2>14, Zenon DEF IInv
  <1> QED BY <1>1, <1>5, <1>6, Zenon

\* A round that deletes and creates claims goes on with what it has collected.
LEMMA RebuildStep ==
    ASSUME IInv, UNCHANGED <<setup, node, pod, vol, made, ghosts, event, twice>>,
           NEW r \in Rounds, NEW d \in RoundRecords, round' = [round EXCEPT ![r] = d],
           d.todo = {}, d.map \subseteq round[r].map, d.pc = "idle" => d.map = {},
           d.pc = "create" <=> d.cur # None,
           d.cur # None => d.cur[1] \in Pending(r) /\ \A w \in d.map : w[1] # d.cur[1],
           pvc' \in [Claims -> {None} \cup ClaimRecords],
           \A c \in Claims :
               \/ (pvc'[c] = None <=> pvc[c] = None) /\ (pvc[c] # None => pvc'[c].vol = pvc[c].vol)
               \/ pvc[c] = None /\ pvc'[c] = Unbound /\ c \in Deleted(r),
           ClaimKept'
    PROVE  IInv'
  <1>1. /\ round' \in [Rounds -> RoundRecords] /\ round'[r] = d
        /\ Pending(r)' = {v[1] : v \in d.map}
        /\ Deleted(r)' = IF d.pc = "create" THEN {d.cur[1]} ELSE {}
        /\ \A o \in Rounds : o # r => round'[o] = round[o] /\ Pending(o)' = Pending(o)
                                      /\ Deleted(o)' = Deleted(o)
    BY RoundChanges, Zenon
  <1>2. Pending(r)' \cup Deleted(r)' \subseteq Pending(r)
    BY <1>1 DEF Pending
  <1>3. TypeOK'
    BY <1>1, Zenon DEF IInv, TypeOK
  <1>4. NotesTrue'
    BY NotesKept, Zenon
  <1>5. ASSUME NEW v \in Volumes
        PROVE  VolumeTrue(v)' /\ (Outdated(v) => Outdated(v)') /\ (BoundTo(v) => BoundTo(v)')
    <2>1. VolumeTrue(v) /\ v[1] \in Claims /\ v[2] # 0
      BY VolumePair DEF IInv
    <2>2. BoundTo(v)' <=> BoundTo(v)
      BY <2>1, Constants, Zenon DEF BoundTo
    <2> QED BY <2>1, <2>2, Zenon DEF VolumeTrue, Outdated
  <1>6. RoundTrue(r) /\ \A p : Consent(p)' <=> Consent(p)
    BY Zenon DEF IInv, Consent
  <1>7. \A v \in round[r].map : v \in Volumes
    BY Zenon DEF IInv, TypeOK, RoundRecords
  <1>8. RoundTrue(r)'
    <2>1. ASSUME NEW v \in d.map
          PROVE  Outdated(v)' /\ Consent(OwnerOf(v[1]))' /\ v[1] \notin Deleted(r)'
      <3>1. v \in round[r].map /\ v \in Volumes
        BY <1>7, <2>1, Zenon
      <3>2. Outdated(v)' /\ Consent(OwnerOf(v[1]))'
        BY <1>5, <1>6, <3>1, Zenon DEF RoundTrue
      <3> QED BY <1>1, <2>1, <3>2
    <2>2. \A v, w \in d.map : v[1] = w[1] => v = w
      BY <1>6, Zenon DEF RoundTrue
    <2> QED BY <1>1, <2>1, <2>2, Zenon DEF RoundTrue
  <1>9. \A o \in Rounds : o # r => RoundTrue(o)'
    BY <1>1, <1>5, OtherRound, Zenon
  <1>10. ASSUME NEW o \in Rounds, NEW v \in round'[o].map, v[1] \notin twice PROVE Untouched(o, v)'
    <2>1. v \in round[o].map /\ Untouched(o, v) /\ v \in Volumes /\ v[1] \in Claims
      BY <1>1, <1>10, VolumePair DEF IInv, TypeOK, RoundRecords, CollectedTrue
    <2>2. v[1] \notin Deleted(r)
      BY <1>6, <2>1, Zenon DEF RoundTrue, Untouched
    <2>3. pvc'[v[1]] # None => BoundTo(v)'
      BY <1>5, <2>1, <2>2, Zenon DEF Untouched
    <2>4. \A u \in Rounds : u # o => v[1] \notin Pending(u)' \cup Deleted(u)'
      BY <1>1, <1>2, <2>1, Zenon DEF Untouched
    <2> QED BY <2>3, <2>4, Zenon DEF Untouched
  <1>11. CollectedTrue'
    BY <1>10, Zenon DEF CollectedTrue
  <1> QED BY <1>3, <1>4, <1>5, <1>8, <1>9, <1>11, Zenon DEF IInv

LEMMA DeleteClaimStep == ASSUME IInv, NEW r \in Rounds, DeleteClaim(r) PROVE IInv'
  <1>1. PICK v \in round[r].map :
        \/ /\ pvc[v[1]] = None
           /\ round' = [round EXCEPT ![r] = Advance([round[r] EXCEPT !.map = round[r].map \ {v}])]
           /\ UNCHANGED pvc
        \/ /\ pvc[v[1]] # None
           /\ round' = [round EXCEPT ![r].pc = "create", ![r].cur = v, ![r].map = round[r].map \ {v}]
           /\ pvc' = [pvc EXCEPT ![v[1]].deleting = TRUE] \/ UNCHANGED pvc
    BY Zenon DEF DeleteClaim
  <1>2. /\ UNCHANGED <<setup, node, pod, vol, made, ghosts, event, lost, twice>>
        /\ round[r].pc = "rebuild" /\ round[r] \in RoundRecords /\ RoundTrue(r)
    BY Zenon DEF DeleteClaim, IInv, TypeOK
  <1>3. /\ round[r].todo = {} /\ round[r].cur = None /\ Deleted(r) = {}
        /\ v \in Volumes /\ v[1] \in Claims /\ v[1] \in Pending(r)
        /\ \A w \in round[r].map \ {v} : w[1] # v[1]
    BY <1>2, VolumePair, Zenon DEF RoundTrue, RoundRecords, Deleted, Pending
  <1>4. CASE /\ round' = [round EXCEPT ![r] = Advance([round[r] EXCEPT !.map = round[r].map \ {v}])]
             /\ UNCHANGED pvc
    <2> DEFINE d == [round[r] EXCEPT !.map = round[r].map \ {v}]
    <2>1. /\ d \in RoundRecords /\ d.todo = {} /\ d.map = round[r].map \ {v} /\ d.cur = None
          /\ d.pc = "rebuild"
      BY <1>2, <1>3, Zenon DEF RoundRecords
    <2>2. round' = [round EXCEPT ![r] = Advance(d)]
      BY <1>4, Zenon
    <2> HIDE DEF d
    <2>3. /\ Advance(d) \in RoundRecords
          /\ Advance(d).todo = {} /\ Advance(d).map = d.map /\ Advance(d).cur = None
          /\ Advance(d).pc # "create" /\ (Advance(d).pc = "idle" => d.map = {})
      BY <2>1, AdvanceTrue, Zenon
    <2>4. Deleted(r)' = {} /\ \A o \in Rounds : o # r => Deleted(o)' = Deleted(o)
      BY <2>2, <2>3, RoundChanges, Zenon
    <2>5. \A o \in Rounds : Deleted(o)' = Deleted(o)
      BY <1>3, <2>4, Zenon
    <2>6. ClaimKept'
      BY <1>2, <1>4, <2>5, Zenon DEF IInv, ClaimKept
    <2>7. pvc' \in [Claims -> {None} \cup ClaimRecords] /\ UNCHANGED pvc
      BY <1>4, Zenon DEF IInv, TypeOK
    <2> QED BY <1>2, <2>1, <2>2, <2>3, <2>6, <2>7, RebuildStep, Zenon
  <1>5. CASE /\ pvc[v[1]] # None
             /\ round' = [round EXCEPT ![r].pc = "create", ![r].cur = v, ![r].map = round[r].map \ {v}]
             /\ pvc' = [pvc EXCEPT ![v[1]].deleting = TRUE] \/ UNCHANGED pvc
    <2> DEFINE d == [round[r] EXCEPT !.pc = "create", !.cur = v, !.map = round[r].map \ {v}]
    <2>1. /\ d \in RoundRecords /\ d.todo = {} /\ d.map = round[r].map \ {v} /\ d.cur = v
          /\ d.pc = "create" /\ v # None
      BY <1>2, <1>3, Constants, Zenon DEF RoundRecords
    <2>2. round' = [round EXCEPT ![r] = d]
      BY <1>5, Zenon DEF IInv, TypeOK
    <2> HIDE DEF d
    <2>3. Deleted(r)' = {v[1]} /\ \A o \in Rounds : o # r => Deleted(o)' = Deleted(o)
      BY <2>1, <2>2, RoundChanges, Zenon
    <2>4. /\ pvc' \in [Claims -> {None} \cup ClaimRecords]
          /\ pvc'[v[1]] # None /\ pvc'[v[1]].vol = pvc[v[1]].vol
          /\ \A c \in Claims : c # v[1] => pvc'[c] = pvc[c]
      <3>1. CASE UNCHANGED pvc
        BY <1>5, <3>1, Zenon DEF IInv, TypeOK
      <3>2. CASE pvc' = [pvc EXCEPT ![v[1]].deleting = TRUE]
        <4> DEFINE new == [pvc[v[1]] EXCEPT !.deleting = TRUE]
        <4>1. pvc[v[1]] \in ClaimRecords
          BY <1>3, <1>5, Zenon DEF IInv, TypeOK
        <4>2. new \in ClaimRecords /\ new.vol = pvc[v[1]].vol
          BY <4>1, Zenon DEF ClaimRecords
        <4>3. pvc' = [pvc EXCEPT ![v[1]] = new]
          BY <3>2, Zenon
        <4> HIDE DEF new
        <4> QED BY <1>3, <4>2, <4>3, Constants, Zenon DEF IInv, TypeOK
      <3> QED BY <1>5, <3>1, <3>2, Zenon
    <2>5. ClaimKept'
      <3>1. \A c \in Claims : c # v[1] => (pvc'[c] = None \/ pvc'[c].deleting =>
                c \in lost' \/ \E o \in Rounds : c \in Deleted(o)')
        BY <1>2, <1>3, <2>3, <2>4 DEF IInv, ClaimKept
      <3> QED BY <2>3, <3>1, Zenon DEF ClaimKept
    <2>6. \A b \in Claims : /\ pvc'[b] = None <=> pvc[b] = None
                            /\ pvc[b] # None => pvc'[b].vol = pvc[b].vol
      BY <1>5, <2>4, Zenon
    <2>7. /\ d.map \subseteq round[r].map /\ (d.pc = "create" <=> d.cur # None)
          /\ d.pc = "idle" => d.map = {}
          /\ d.cur # None => d.cur[1] \in Pending(r) /\ \A w \in d.map : w[1] # d.cur[1]
      BY <1>3, <2>1, Zenon
    <2>8. d \in RoundRecords /\ d.todo = {}
      BY <2>1, Zenon
    <2>9. pvc' \in [Claims -> {None} \cup ClaimRecords]
      BY <2>4, Zenon
    <2> QED BY <1>2, <2>2, <2>5, <2>6, <2>7, <2>8, <2>9, RebuildStep, Zenon
  <1> QED BY <1>1, <1>4, <1>5, Zenon

LEMMA CreateClaimStep == ASSUME IInv, NEW r \in Rounds, CreateClaim(r) PROVE IInv'
  <1> DEFINE c == round[r].cur[1]
             d == [round[r] EXCEPT !.pc = "rebuild", !.cur = None]
  <1>1. /\ UNCHANGED <<setup, node, pod, vol, made, ghosts, event, lost, twice>>
        /\ round[r].pc = "create" /\ round[r] \in RoundRecords /\ RoundTrue(r)
        /\ round' = [round EXCEPT ![r] = Advance(d)]
        /\ \/ pvc[c] = None /\ pvc' = [pvc EXCEPT ![c] = Unbound]
           \/ pvc[c] # None /\ ~pvc[c].deleting /\ UNCHANGED pvc
    BY Zenon DEF CreateClaim, IInv, TypeOK, history
  <1>2. /\ d \in RoundRecords /\ d.todo = {} /\ d.map = round[r].map /\ d.cur = None
        /\ d.pc = "rebuild"
    BY <1>1, Zenon DEF RoundTrue, RoundRecords
  <1> HIDE DEF d
  <1>3. /\ Advance(d) \in RoundRecords
        /\ Advance(d).todo = {} /\ Advance(d).map = d.map /\ Advance(d).cur = None
        /\ Advance(d).pc # "create" /\ (Advance(d).pc = "idle" => d.map = {})
    BY <1>2, AdvanceTrue, Zenon
  <1>4. c \in Claims /\ Deleted(r) = {c}
    BY <1>1, VolumePair, Zenon DEF RoundTrue, RoundRecords, Deleted
  <1> HIDE DEF c
  <1>5. \A o \in Rounds : o # r => Deleted(o)' = Deleted(o)
    BY <1>1, <1>3, RoundChanges, Zenon
  <1>6. /\ pvc' \in [Claims -> {None} \cup ClaimRecords] /\ pvc'[c] # None /\ ~pvc'[c].deleting
        /\ pvc'[c] = pvc[c] \/ (pvc[c] = None /\ pvc'[c] = Unbound)
        /\ \A b \in Claims : b # c => pvc'[b] = pvc[b]
    <2>1. pvc \in [Claims -> {None} \cup ClaimRecords]
      BY DEF IInv, TypeOK
    <2> QED BY <1>1, <1>4, <2>1, Constants
  <1>7. ClaimKept'
    BY <1>1, <1>4, <1>5, <1>6 DEF IInv, ClaimKept
  <1>8. \A b \in Claims :
            \/ (pvc'[b] = None <=> pvc[b] = None) /\ (pvc[b] # None => pvc'[b].vol = pvc[b].vol)
            \/ pvc[b] = None /\ pvc'[b] = Unbound /\ b \in Deleted(r)
    BY <1>4, <1>6
  <1>9. /\ Advance(d) \in RoundRecords /\ Advance(d).todo = {} /\ Advance(d).map \subseteq round[r].map
        /\ Advance(d).pc = "idle" => Advance(d).map = {}
        /\ Advance(d).pc = "create" <=> Advance(d).cur # None
        /\ Advance(d).cur = None
    BY <1>2, <1>3
  <1> QED BY <1>1, <1>6, <1>7, <1>8, <1>9, RebuildStep

LEMMA NextIInv == IInv /\ [Next]_vars => IInv'
  <1> SUFFICES ASSUME IInv, [Next]_vars PROVE IInv'
    OBVIOUS
  <1>1. ASSUME NEW r \in Rounds, resourceReconcile(r) \/ GiveUp(r) PROVE IInv'
    BY <1>1, ListVolumesStep, SkipVolumeStep, ControllerStops, CollectVolumeStep, DeleteClaimStep,
       CreateClaimStep, Zenon DEF resourceReconcile
  <1>2. CASE UNCHANGED vars
    BY <1>2, QuietStep, Zenon DEF vars, history, IInv, TypeOK
  <1> QED BY <1>1, <1>2, ControllerStops, PodStep, ScheduleStep, ClaimGoneStep, NodeStep, Zenon DEF Next

LEMMA Inductive == Spec => []IInv
  BY InitIInv, NextIInv, PTL DEF Spec
-----------------------------------------------------------------------------
\* A claim is missing, or about to be, only while a round is there to create it
\* again or after a round ended between the two: rebuildVolume never lets a claim
\* go in any other way.
THEOREM ClaimStaysKept == Spec => []ClaimKept
  <1>1. IInv => ClaimKept
    BY Zenon DEF IInv
  <1> QED BY <1>1, Inductive, PTL

Discarded(c) ==
    Discards(c) => /\ Consent(OwnerOf(c))
                   /\ pvc[c].vol # 0 => vol[<<c, pvc[c].vol>>].failed \/ c \in twice
KilledWell(p) == Kills(p) => Consent(p) \/ node[pod[p].node] = "gone"

\* The only step that deletes a claim.
LEMMA DeleteIsAllowed ==
    ASSUME IInv, NEW r \in Rounds, DeleteClaim(r), NEW c \in Claims PROVE Discarded(c)
  <1> SUFFICES ASSUME Discards(c) PROVE Discarded(c)
    BY Zenon DEF Discarded
  <1>1. PICK v \in round[r].map :
        UNCHANGED pvc \/ (pvc[v[1]] # None /\ pvc' = [pvc EXCEPT ![v[1]].deleting = TRUE])
    BY Zenon DEF DeleteClaim
  <1>2. v \in Volumes /\ v[1] \in Claims /\ v = <<v[1], v[2]>> /\ RoundTrue(r)
    BY VolumePair, Zenon DEF IInv, TypeOK, RoundRecords
  <1>3. c = v[1]
    BY <1>1, Zenon DEF Discards, IInv, TypeOK
  <1>4. Outdated(v) /\ Consent(OwnerOf(c)) /\ VolumeTrue(v)
    BY <1>2, <1>3, Zenon DEF RoundTrue, IInv
  <1>5. ASSUME c \notin twice PROVE vol[<<c, pvc[c].vol>>].failed
    <2>1. BoundTo(v)
      BY <1>2, <1>3, <1>5, Zenon DEF IInv, CollectedTrue, Untouched, Discards
    <2>2. v = <<c, pvc[c].vol>>
      BY <1>2, <1>3, <2>1, Zenon DEF BoundTo
    <2>3. vol[v] # None
      BY <1>4, <2>1, Zenon DEF VolumeTrue
    <2> QED BY <1>4, <2>2, <2>3, Zenon DEF Outdated
  <1> QED BY <1>4, <1>5, Zenon DEF Discarded

LEMMA KillIsAllowed ==
    ASSUME IInv, NEW p \in Pods, [Next]_vars PROVE KilledWell(p)
  <1> SUFFICES ASSUME Kills(p) PROVE Consent(p) \/ node[pod[p].node] = "gone"
    BY Zenon DEF KilledWell
  <1>1. pod'[p] # pod[p] /\ pod[p] # None /\ pod'[p] = None
    BY Zenon DEF Kills
  <1>2. ASSUME NEW n, clearPod(n) PROVE Consent(p)
    <2>1. p \in Killed(n)
      BY <1>1, <1>2, Zenon DEF clearPod
    <2> QED BY <2>1, Zenon DEF Killed, Ghost, MayMove, IInv, NotesTrue
  <1>3. ASSUME NEW r \in Rounds, resourceReconcile(r) \/ GiveUp(r) PROVE Consent(p)
    <2>1. ASSUME CollectVolume(r) PROVE \E n : clearPod(n)
      BY <2>1, Zenon DEF CollectVolume
    <2> QED BY <1>1, <1>2, <1>3, <2>1, Zenon DEF resourceReconcile, ListVolumes, SkipVolume, SkipPanics,
               DeleteClaim, CreateClaim, GiveUp, objects
  <1>4. ASSUME NEW q \in Pods, CreatePod(q) \/ Schedule(q) \/ CollectPod(q)
        PROVE  node[pod[p].node] = "gone"
    <2>1. CASE CreatePod(q)
      BY <1>1, <2>1, HandleTrue, Constants, Zenon DEF CreatePod, IInv, TypeOK
    <2>2. CASE Schedule(q)
      <3>1. PICK n \in Nodes : pod[q] # None /\ pod' = [pod EXCEPT ![q].node = n]
        BY <2>2, Zenon DEF Schedule, Ready
      <3>2. p = q /\ pod[q] \in PodRecords
        BY <1>1, <3>1, Zenon DEF IInv, TypeOK
      <3>3. pod'[q] \in PodRecords
        BY <3>1, <3>2, Zenon DEF PodRecords, IInv, TypeOK
      <3> QED BY <1>1, <3>2, <3>3, Constants, Zenon
    <2>3. CASE CollectPod(q)
      BY <1>1, <2>3, Zenon DEF CollectPod, IInv, TypeOK
    <2> QED BY <1>4, <2>1, <2>2, <2>3, Zenon
  <1>5. ASSUME UNCHANGED pod PROVE FALSE
    BY <1>1, <1>5, Zenon
  <1> QED BY <1>3, <1>4, <1>5, Zenon DEF Next, DeleteFunc, ClaimGone, NodeFails, NodeReturns,
             NodeDeleted, Stop, objects, vars

LEMMA DiscardIsAllowed ==
    ASSUME IInv, NEW c \in Claims, [Next]_vars PROVE Discarded(c)
  <1> SUFFICES ASSUME Discards(c) PROVE Discarded(c)
    BY Zenon DEF Discarded
  <1>1. pvc[c] # None /\ ~pvc[c].deleting /\ pvc'[c] # None /\ pvc'[c].deleting
    BY Zenon DEF Discards
  <1>2. ASSUME UNCHANGED pvc PROVE FALSE
    BY <1>1, <1>2, Zenon
  <1>3. ASSUME NEW r \in Rounds, resourceReconcile(r) \/ GiveUp(r) PROVE Discarded(c)
    <2>1. ASSUME CreateClaim(r) PROVE FALSE
      <3>1. pvc' = [pvc EXCEPT ![round[r].cur[1]] = Unbound] \/ UNCHANGED pvc
        BY <2>1, Zenon DEF CreateClaim
      <3> QED BY <1>1, <3>1, Constants, Zenon DEF IInv, TypeOK
    <2> QED BY <1>2, <1>3, <2>1, DeleteIsAllowed, Zenon DEF resourceReconcile, ListVolumes, SkipVolume,
               SkipPanics, CollectVolume, GiveUp, objects
  <1>4. ASSUME NEW q \in Pods, Schedule(q) PROVE FALSE
    <2> DEFINE fresh == {b \in Range(ClaimsOf[q]) : pvc[b] # None /\ pvc[b].vol = 0}
    <2>1. pvc'[c] = IF c \in fresh THEN [pvc[c] EXCEPT !.vol = made[c] + 1] ELSE pvc[c]
      BY <1>4, Zenon DEF Schedule
    <2>2. pvc[c] \in ClaimRecords
      BY <1>1, Zenon DEF IInv, TypeOK
    <2> QED BY <1>1, <2>1, <2>2, Zenon DEF ClaimRecords
  <1>5. ASSUME NEW b \in Claims, ClaimGone(b) PROVE FALSE
    BY <1>1, <1>5, Zenon DEF ClaimGone, IInv, TypeOK
  <1> QED BY <1>2, <1>3, <1>4, <1>5, Zenon DEF Next, CreatePod, CollectPod, DeleteFunc, NodeFails,
             NodeReturns, NodeDeleted, Stop, objects, vars

\* The node controller deletes a claim only with its owner's consent and only if
\* the volume it is bound to has lost its node, unless two rounds have collected
\* it; it kills a pod only with consent.
THEOREM OnlyFailedGoes == Spec => OnlyFailedDiscarded
  <1>1. IInv /\ [Next]_vars =>
            [/\ \A c \in Claims : Discards(c) =>
                    /\ Consent(OwnerOf(c))
                    /\ pvc[c].vol # 0 => vol[<<c, pvc[c].vol>>].failed \/ c \in twice
             /\ \A p \in Pods : Kills(p) => Consent(p) \/ node[pod[p].node] = "gone"]_vars
    BY KillIsAllowed, DiscardIsAllowed, Zenon DEF Discarded, KilledWell
  <1> QED BY <1>1, Inductive, PTL DEF Spec, OnlyFailedDiscarded
=============================================================================
