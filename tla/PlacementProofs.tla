--------------------------- MODULE PlacementProofs ---------------------------
(***************************************************************************)
(* Proofs about Placement, for any nodes, groups, disks, classes and pods: *)
(* the place that a PV names is the place of its volume (PvTrue).          *)
(*                                                                         *)
(* PvTrue is not inductive.  What the PV is given comes from the call that *)
(* waits, so the invariant says of a waiting call that the object it waits *)
(* for exists, and is at the place of the call unless it was adopted; and  *)
(* of a claim that is not bound and cannot be adopted, that an object left *)
(* by an earlier call is where the next call would put it.  That rests on  *)
(* the node of a claim: it is changed only when the object goes with it.   *)
(*                                                                         *)
(* Two parts come before the steps because they are about one state only:  *)
(* what is used of recursion over finite sets, and the scheduler's filter. *)
(* What the filter decides is right in every state in which reports are    *)
(* for groups and disks of their nodes and the PV of a bound claim names a *)
(* node; that is about how the claims of a pod are gone through in order.  *)
(***************************************************************************)
EXTENDS Placement, FiniteSetTheorems, WellFoundedInduction, TLAPS

(* Zenon is the prover of every leaf that does not name another.           *)
USE Zenon

Somewhere == Nodes \cup {NoNode}
Labels ==
    {"", "carina-vg-ssd", "carina-vg-hdd"} \cup DOMAIN Policy
        \cup UNION {{Class[c].group, Class[c].backend, Class[c].cache} : c \in Claims}
Keys == (Labels \X {""}) \cup UNION {DOMAIN DiskSize[n] : n \in Nodes}
KeysOf(n) == {<<g, "">> : g \in DOMAIN VgSize[n]} \cup DOMAIN DiskSize[n]
Spots == [node : Somewhere, key : Keys]
Lvs == [node : Somewhere, key : Keys, gb : Nat, cur : Nat, at : Nat, excl : BOOLEAN, owned : BOOLEAN,
        code : {"none", "OK", "exhausted", "internal"}]

Types ==
    /\ claim \in [Claims -> [phase : {"none", "pending", "bound"}, sel : Somewhere]]
    /\ call \in [Claims -> [at : {"idle", "data", "cache"}, node : Somewhere, key : Keys]]
    /\ lv \in [Names -> Lvs]
    /\ pv \in [Claims -> Spots]
    /\ DOMAIN report = Nodes
    /\ \A n \in Nodes : DOMAIN report[n].alloc \subseteq KeysOf(n)
    /\ due \subseteq Nodes /\ late \subseteq Names /\ ready \subseteq Nodes
    /\ adopted \subseteq Claims /\ wrapped \subseteq Claims /\ changes \in 0..MaxChanges

Data(c) == lv[<<c, "data">>]
Cache(c) == lv[<<c, "cache">>]
At(o) == Place(o.node, o.key)

\* An object that the node has worked on has a node, only the second half of a
\* cached volume is owned, and only a raw volume has a disk.
ObjectOK(x) ==
    LET o == lv[x]
    IN  /\ o.cur <= o.gb
        /\ o.cur > 0 => o.code = "OK" /\ o.node \in Nodes
        /\ o.code = "none" => o = NoLv
        /\ o.owned => x[2] = "cache"
        /\ x[2] = "cache" /\ o.code # "none" => o.owned /\ Cached(x[1]) /\ o.node \in Nodes
        /\ o.excl \/ o.key[2] # "" =>
             /\ o.node \in Nodes /\ o.key \in DOMAIN DiskSize[o.node] /\ Manager(x[1]) = "raw"
        /\ o.code # "none" /\ Manager(x[1]) = "host" => o.key = <<Class[x[1]].group, "">>

\* Claims for which every call finds the same group on the node of the claim.
Ordinary(c) == c \notin Immediate /\ Kind(c) # "raw" /\ ~Cached(c) /\ Class[c].group # ""
TheKey(c) ==
    IF Kind(c) = "host" THEN <<Class[c].group, "">> ELSE <<GetDeviceGroup(Class[c].group), "">>

\* A call that waits.
CallOK(c) ==
    /\ call[c].at = "idle" => call[c] = Idle
    /\ call[c].at # "idle" =>
         /\ claim[c].phase = "pending" /\ Data(c).code # "none"
         /\ c \notin Immediate \/ ~Cached(c) => call[c].node \in Nodes
         /\ c \notin adopted => At(Data(c)) = Place(call[c].node, call[c].key)
    /\ call[c].at = "cache" =>
         /\ Cached(c) /\ Data(c).cur > 0 /\ Cache(c).code # "none"
         /\ c \notin adopted => Cache(c).node = call[c].node

\* A claim that has its volume.
BoundOK(c) ==
    claim[c].phase = "bound" =>
        /\ Data(c).cur > 0 /\ (Cached(c) => Cache(c).cur > 0)
        /\ ~Cached(c) => pv[c].node \in Nodes
        /\ c \notin adopted => At(Data(c)) = pv[c] /\ (Cached(c) => Cache(c).node = pv[c].node)

\* The node of a claim, and the object it has before it is bound.
NodeOK(c) ==
    /\ c \in Immediate => claim[c].sel = NoNode /\ (Cached(c) => Data(c).node = NoNode)
    /\ Ordinary(c) =>
         /\ c \notin adopted
         /\ claim[c].phase = "pending" /\ Data(c).code # "none" =>
              claim[c].sel \in Nodes /\ At(Data(c)) = Place(claim[c].sel, TheKey(c))

ClaimOK(c) == CallOK(c) /\ BoundOK(c) /\ NodeOK(c)

ObjectsOK == \A x \in Names : ObjectOK(x)
ClaimsOK == \A c \in Claims : ClaimOK(c)

\* The inductive invariant.
IInv == Types /\ ObjectsOK /\ ClaimsOK
-----------------------------------------------------------------------------
(* Names, sizes and places                                                 *)

LEMMA NodesNamed == NoNode \notin Nodes
  BY ConfigAssumption

LEMMA NamesOfClaim ==
  ASSUME NEW c \in Claims
  PROVE  <<c, "data">> \in Names /\ <<c, "cache">> \in Names
  BY DEF Names

LEMMA NameParts ==
  ASSUME NEW x \in Names
  PROVE  x[1] \in Claims /\ x[2] \in {"data", "cache"} /\ x = <<x[1], x[2]>>
  BY SMT DEF Names

LEMMA HalvesDiffer ==
  ASSUME NEW c, NEW d, NEW h, NEW i
  PROVE  <<c, h>> = <<d, i>> <=> c = d /\ h = i
  OBVIOUS

LEMMA Ratio ==
  ASSUME NEW c \in Claims
  PROVE  Class[c].ratio \in 0..99 /\ Bytes[c] \in Nat \ {0} /\ Gi \in Nat \ {0}
  BY PlacementAssumption

LEMMA GbNat ==
  ASSUME NEW c \in Claims
  PROVE  Gb(c) \in Nat /\ Gb(c) >= 1
  <1> DEFINE b == Bytes[c] - 1
  <1>1. b \in Nat /\ Gi \in Nat \ {0} BY Ratio, SMT
  <1> HIDE DEF b
  <1>2. b \div Gi \in Nat BY <1>1, SMT
  <1>3. Gb(c) = b \div Gi + 1 BY SMT DEF Gb, convertRequestCapacity, b
  <1> QED BY <1>2, <1>3, SMT

LEMMA CacheGbNat ==
  ASSUME NEW c \in Claims, NEW gb \in Nat
  PROVE  CacheGb(c, gb) \in Nat
  <1> DEFINE r == Class[c].ratio
  <1>1. r \in Nat BY Ratio, SMT
  <1> HIDE DEF r
  <1>2. gb * r \in Nat BY <1>1, SMT
  <1> DEFINE m == gb * r
  <1> HIDE DEF m
  <1>3. m \div 100 \in Nat BY <1>2, SMT DEF m
  <1> QED BY <1>3, SMT DEF CacheGb, m, r

LEMMA NamesTyped ==
  ASSUME NEW c \in Claims
  PROVE  Class[c].group \in Labels /\ Class[c].backend \in Labels /\ Class[c].cache \in Labels
  BY DEF Labels

LEMMA DeviceGroupTyped ==
  ASSUME NEW g \in Labels
  PROVE  GetDeviceGroup(g) \in Labels
  <1>1. "carina-vg-ssd" \in Labels /\ "carina-vg-hdd" \in Labels BY DEF Labels
  <1>2. OldName(g) \in Labels BY <1>1, SMT DEF OldName
  <1> QED BY <1>2 DEF GetDeviceGroup

LEMMA GroupKey ==
  ASSUME NEW g \in Labels
  PROVE  <<g, "">> \in Keys /\ <<g, "">>[1] = g /\ <<g, "">>[2] = ""
  BY DEF Keys

LEMMA NoneTyped == NoLv \in Lvs /\ Unplaced \in Spots /\ NoKey \in Keys
  <1>1. "" \in Labels BY DEF Labels
  <1>2. NoKey \in Keys BY <1>1, GroupKey DEF NoKey
  <1>3. NoNode \in Somewhere BY DEF Somewhere
  <1> QED BY <1>2, <1>3, SMT DEF NoLv, Lvs, Unplaced, Spots

\* The disks of a node are told from its groups by the name of the disk, and by
\* the type of the group.
LEMMA KeysOfNode ==
  ASSUME NEW n \in Nodes, NEW k \in KeysOf(n)
  PROVE  /\ k \in Keys
         /\ k[2] # "" <=> k \in DOMAIN DiskSize[n]
         /\ k[2] # "" <=> CheckRawDeviceGroup(k[1])
  <1>1. CASE k \in DOMAIN DiskSize[n]
    <2> USE <1>1
    <2>1. k[2] # "" /\ CheckRawDeviceGroup(k[1]) BY ConfigAssumption
    <2>2. k \in Keys BY DEF Keys
    <2> QED BY <2>1, <2>2
  <1>2. CASE k \in {<<g, "">> : g \in DOMAIN VgSize[n]}
    <2>1. PICK g \in DOMAIN VgSize[n] : k = <<g, "">> BY <1>2
    <2>2. g \in DOMAIN Policy /\ ~CheckRawDeviceGroup(g) BY ConfigAssumption
    <2> USE <2>2
    <2>3. \A d \in DOMAIN DiskSize[n] : d[2] # "" BY ConfigAssumption
    <2>4. g \in Labels BY DEF Labels
    <2>5. k[1] = g /\ k[2] = "" /\ k \in Keys BY <2>1, <2>4, GroupKey
    <2> QED BY <2>3, <2>5
  <1> QED BY <1>1, <1>2 DEF KeysOf

LEMMA Kinds ==
  ASSUME NEW c
  PROVE  /\ Kind(c) \in {"raw", "host", "lvm"}
         /\ Kind(c) = "raw" <=> CheckRawDeviceGroup(Class[c].group)
         /\ Kind(c) = "host" => CheckHostDeviceGroup(Class[c].group)
         /\ ~CheckRawDeviceGroup(Class[c].group) /\ CheckHostDeviceGroup(Class[c].group) => Kind(c) = "host"
         /\ Manager(c) # "lvm" => Manager(c) = Kind(c) /\ ~Cached(c)
         /\ ~Cached(c) => Manager(c) = Kind(c)
  <1> DEFINE R == CheckRawDeviceGroup(Class[c].group)
             H == CheckHostDeviceGroup(Class[c].group)
  <1>1. Kind(c) = CASE R -> "raw" [] ~R /\ H -> "host" [] OTHER -> "lvm" BY SMT DEF Kind
  <1> HIDE DEF R, H
  <1>2. /\ Kind(c) \in {"raw", "host", "lvm"} /\ (Kind(c) = "raw" <=> R)
        /\ (Kind(c) = "host" => H) /\ (~R /\ H => Kind(c) = "host")
    BY <1>1, SMT
  <1> QED BY <1>2, SMT DEF R, H, Manager

LEMMA PlaceFields ==
  ASSUME NEW n, NEW k
  PROVE  Place(n, k).node = n /\ Place(n, k).key = k
  BY DEF Place

LEMMA PlaceTyped ==
  ASSUME NEW n \in Somewhere, NEW k \in Keys
  PROVE  Place(n, k) \in Spots
  BY DEF Place, Spots

\* What is known of a place that CreateVolume finds.
SpotOK(c, p) ==
    /\ p \in Spots
    /\ claim[c].sel # NoNode => p.node = claim[c].sel
    /\ p.node \in Nodes \/ Cached(c)
    /\ Cached(c) => p.node = claim[c].sel /\ p.key[2] = ""
    /\ ~Cached(c) => (p.key[2] # "" <=> Kind(c) = "raw")
    /\ p.key[2] # "" => p.key \in DOMAIN DiskSize[p.node]
    /\ Manager(c) = "host" => p.key = <<Class[c].group, "">>
    /\ Ordinary(c) /\ claim[c].sel # NoNode => p.key = TheKey(c)

LEMMA SelTyped ==
  ASSUME Types, NEW c \in Claims
  PROVE  claim[c].sel \in Somewhere /\ (claim[c].sel # NoNode => claim[c].sel \in Nodes)
  BY DEF Types, Somewhere

\* A place that the reports show.
LEMMA SuitablePlace ==
  ASSUME Types, NEW c \in Claims, NEW n \in Nodes, NEW p \in Suitable(c, n)
  PROVE  /\ p \in Spots /\ p.node = n /\ p.key \in DOMAIN report[n].alloc
         /\ (p.key[2] # "" <=> Kind(c) = "raw") /\ (p.key[2] # "" => p.key \in DOMAIN DiskSize[n])
         /\ Eligible(c, n, p.key) /\ report[n].alloc[p.key] >= Gb(c)
  <1>1. PICK k \in DOMAIN report[n].alloc :
            p = Place(n, k) /\ report[n].alloc[k] >= Gb(c) /\ Eligible(c, n, k)
    BY DEF Suitable
  <1> USE <1>1
  <1>2. k \in KeysOf(n) BY DEF Types
  <1> USE <1>2
  <1>3. n \in Somewhere BY DEF Somewhere
  <1>4. p \in Spots /\ p.node = n /\ p.key = k BY <1>3, KeysOfNode, PlaceTyped, PlaceFields
  <1>5. (Kind(c) = "raw") = CheckRawDeviceGroup(k[1]) BY DEF Eligible
  <1>6. CheckRawDeviceGroup(k[1]) \in BOOLEAN BY DEF CheckRawDeviceGroup
  <1>7. Kind(c) = "raw" <=> CheckRawDeviceGroup(k[1]) BY <1>5, <1>6
  <1> QED BY <1>4, <1>7, KeysOfNode

LEMMA SelectSubset ==
  ASSUME NEW S
  PROVE  Select(S) \subseteq S
  BY DEF Select

LEMMA SelectNodePlace ==
  ASSUME Types, NEW c \in Claims, NEW p \in SelectNode(c)
  PROVE  \E n \in ready \cap Topology[c] : n \in Nodes /\ p \in Suitable(c, n)
  <1>1. p \in UNION {Suitable(c, n) : n \in ready \cap Topology[c]} BY SelectSubset DEF SelectNode
  <1>2. ready \subseteq Nodes BY DEF Types
  <1> QED BY <1>1, <1>2

LEMMA PlaceCases ==
  ASSUME NEW c \in Claims, NEW p \in Places(c)
  PROVE  \/ Cached(c) /\ p \in CreateBcacheVolume(c)
         \/ /\ ~Cached(c) /\ claim[c].sel # NoNode /\ Kind(c) = "host"
            /\ p = Place(claim[c].sel, <<Class[c].group, "">>)
         \/ /\ ~Cached(c) /\ claim[c].sel # NoNode /\ Kind(c) # "host"
            /\ p \in SelectDeviceGroup(c, claim[c].sel)
         \/ /\ ~Cached(c) /\ claim[c].sel = NoNode /\ Kind(c) # "host"
            /\ p \in SelectNode(c)
  <1> DEFINE n == claim[c].sel
             H == CheckHostDeviceGroup(Class[c].group)
             K == Kind(c)
             C == Cached(c)
             B == CreateBcacheVolume(c)
             P == {Place(n, <<Class[c].group, "">>)}
             D == SelectDeviceGroup(c, n)
             S == SelectNode(c)
  <1>1. Places(c) = CASE H /\ n = NoNode -> {}
                      [] ~(H /\ n = NoNode) /\ C -> B
                      [] n # NoNode /\ ~C /\ K = "host" -> P
                      [] n # NoNode /\ ~C /\ K # "host" -> D
                      [] OTHER -> S
    BY DEF Places, HaveSelectedNode
  <1>2. K = "host" => H BY Kinds
  <1> HIDE DEF n, H, K, C, B, P, D, S
  <1>3. \/ C /\ p \in B
        \/ ~C /\ n # NoNode /\ K = "host" /\ p \in P
        \/ ~C /\ n # NoNode /\ K # "host" /\ p \in D
        \/ ~C /\ n = NoNode /\ K # "host" /\ p \in S
    BY <1>1, <1>2, SMT
  <1> QED BY <1>3 DEF n, K, C, B, P, D, S

LEMMA PlacesFound ==
  ASSUME Types, NEW c \in Claims, NEW p \in Places(c)
  PROVE  SpotOK(c, p)
  <1>0. claim[c].sel \in Somewhere /\ (claim[c].sel # NoNode => claim[c].sel \in Nodes) BY SelTyped, SMT
  <1> USE <1>0
  <1>1. CASE Cached(c) /\ p \in CreateBcacheVolume(c)
    <2> USE <1>1
    <2>1. p = Place(claim[c].sel, <<Class[c].backend, "">>)
      BY DEF CreateBcacheVolume, HaveSelectedNode
    <2>a. <<Class[c].backend, "">> \in Keys /\ <<Class[c].backend, "">>[2] = "" BY NamesTyped, GroupKey
    <2>2. p \in Spots /\ p.node = claim[c].sel /\ p.key[2] = ""
      BY <2>1, <2>a DEF Place, Spots
    <2>3. Manager(c) # "host" /\ ~Ordinary(c) BY Kinds DEF Ordinary
    <2> QED BY <2>2, <2>3 DEF SpotOK
  <1>2. CASE /\ ~Cached(c) /\ claim[c].sel # NoNode /\ Kind(c) = "host"
             /\ p = Place(claim[c].sel, <<Class[c].group, "">>)
    <2>a. <<Class[c].group, "">> \in Keys /\ <<Class[c].group, "">>[2] = "" BY NamesTyped, GroupKey
    <2>1. p \in Spots /\ p.node = claim[c].sel /\ p.key = <<Class[c].group, "">> /\ p.key[2] = ""
      BY <1>2, <2>a DEF Place, Spots
    <2> QED BY <1>2, <2>1 DEF SpotOK, TheKey
  <1>3. CASE /\ ~Cached(c) /\ claim[c].sel # NoNode /\ Kind(c) # "host"
             /\ p \in SelectDeviceGroup(c, claim[c].sel)
    <2> USE <1>3
    <2> DEFINE n == claim[c].sel
    <2>1. n \in Nodes OBVIOUS
    <2>2. Manager(c) # "host" BY Kinds
    <2>3. CASE Kind(c) = "lvm" /\ Class[c].group # ""
      <3>1. p = Place(n, <<GetDeviceGroup(Class[c].group), "">>) BY <2>3 DEF SelectDeviceGroup
      <3> DEFINE k == <<GetDeviceGroup(Class[c].group), "">>
      <3>a. k \in Keys /\ k[2] = "" BY NamesTyped, DeviceGroupTyped, GroupKey
      <3>2. p \in Spots /\ p.node = n /\ p.key = k /\ p.key[2] = ""
        BY <3>1, <3>a DEF Place, Spots
      <3>3. Kind(c) # "raw" /\ TheKey(c) = <<GetDeviceGroup(Class[c].group), "">> BY <2>3 DEF TheKey
      <3> QED BY <2>1, <2>2, <3>2, <3>3 DEF SpotOK
    <2>4. CASE ~(Kind(c) = "lvm" /\ Class[c].group # "")
      <3>1. p \in Suitable(c, n) BY <2>4, SelectSubset DEF SelectDeviceGroup
      <3>2. ~Ordinary(c) BY <2>4, Kinds DEF Ordinary
      <3> QED BY <2>1, <2>2, <3>1, <3>2, SuitablePlace DEF SpotOK
    <2> QED BY <2>3, <2>4
  <1>4. CASE /\ ~Cached(c) /\ claim[c].sel = NoNode /\ Kind(c) # "host"
             /\ p \in SelectNode(c)
    <2> USE <1>4
    <2>1. PICK n \in Nodes : p \in Suitable(c, n) BY SelectNodePlace
    <2>2. Manager(c) # "host" BY Kinds
    <2> QED BY <2>1, <2>2, SuitablePlace DEF SpotOK
  <1> QED BY <1>1, <1>2, <1>3, <1>4, PlaceCases

-----------------------------------------------------------------------------
(* Sums over finite sets                                                   *)

Less == {x \in Nat \X Nat : x[1] < x[2]}

LEMMA LessWellFounded == IsWellFoundedOn(Less, Nat)
  BY NatLessThanWellFounded DEF Less, OpToRel

LEMMA Least ==
  ASSUME NEW T \in SUBSET Nat, T # {}
  PROVE  \E s \in T : \A t \in T : s <= t
  <1>1. PICK s \in T : \A t \in T : ~(<<t, s>> \in Less) BY LessWellFounded, WFMin
  <1>2. \A t \in T : t < s => <<t, s>> \in Less BY DEF Less
  <1>3. \A t \in T : ~(t < s) BY <1>1, <1>2
  <1>4. \A t \in T : s <= t BY <1>3, SMT
  <1> QED BY <1>4

Pick(s) == CHOOSE x \in s : TRUE

\* h has the sums of f over the subsets of S.
Sums(f, S, h) ==
    h = [s \in SUBSET S |-> IF s = {} THEN 0 ELSE f[Pick(s)] + h[s \ {Pick(s)}]]

LEMMA SumChosen ==
  ASSUME NEW f, NEW S
  PROVE  SumFunctionOnSet(f, S) = (CHOOSE h : Sums(f, S, h))[S]
  BY DEF SumFunctionOnSet, FoldFunctionOnSet, MapThenFoldSet, Sums, Pick

LEMMA PickIn ==
  ASSUME NEW s, s # {}
  PROVE  Pick(s) \in s
  BY DEF Pick

\* The size of a set without one of its elements.
LEMMA Smaller ==
  ASSUME NEW S, IsFiniteSet(S), NEW T \in SUBSET S, NEW x \in T
  PROVE  /\ T \ {x} \in SUBSET S /\ Cardinality(T) \in Nat \ {0}
         /\ Cardinality(T \ {x}) = Cardinality(T) - 1
  <1>1. IsFiniteSet(T) BY FS_Subset
  <1> USE <1>1
  <1>2. Cardinality(T) \in Nat BY FS_CardinalityType
  <1>3. Cardinality(T) # 0 BY FS_EmptySet
  <1>4. Cardinality(T \ {x}) = Cardinality(T) - 1 BY FS_RemoveElement
  <1> QED BY <1>2, <1>3, <1>4

\* Recursion over the subsets of a finite set: C[s] is the element that is taken
\* out of s, and F combines it with the value of the rest.
Folding(F, b, C, S, h, n) ==
    \A s \in SUBSET S :
        Cardinality(s) <= n => h[s] = IF s = {} THEN b ELSE F[<<C[s], h[s \ {C[s]}]>>]

FoldOf(F, b, C, S, h) ==
    \A s \in SUBSET S : h[s] = IF s = {} THEN b ELSE F[<<C[s], h[s \ {C[s]}]>>]
Combines(F, S, A) == \A x \in S, a \in A : F[<<x, a>>] \in A
Chooses(C, S) == \A s \in SUBSET S : s # {} => C[s] \in s
Foldable(F, b, C, S, A) == IsFiniteSet(S) /\ b \in A /\ Combines(F, S, A) /\ Chooses(C, S)
HasFold(F, b, C, S, A) == \E h \in [SUBSET S -> A] : FoldOf(F, b, C, S, h)

LEMMA FoldStep ==
  ASSUME NEW S, IsFiniteSet(S), NEW A, NEW b, NEW F, NEW C, Combines(F, S, A), Chooses(C, S),
         NEW n \in Nat, NEW h \in [SUBSET S -> A], Folding(F, b, C, S, h, n)
  PROVE  \E g \in [SUBSET S -> A] : Folding(F, b, C, S, g, n + 1)
  <1> DEFINE g == [s \in SUBSET S |->
                      IF Cardinality(s) <= n \/ s = {} THEN h[s] ELSE F[<<C[s], h[s \ {C[s]}]>>]]
  <1>1. ASSUME NEW s \in SUBSET S, s # {}
        PROVE  /\ s \ {C[s]} \in SUBSET S /\ F[<<C[s], h[s \ {C[s]}]>>] \in A
               /\ Cardinality(s) \in Nat /\ Cardinality(s \ {C[s]}) = Cardinality(s) - 1
    <2> DEFINE x == C[s]
    <2>1. x \in s BY <1>1 DEF Chooses
    <2> USE <2>1
    <2> HIDE DEF x
    <2>2. s \ {x} \in SUBSET S /\ Cardinality(s) \in Nat /\ Cardinality(s \ {x}) = Cardinality(s) - 1
      BY Smaller, SMT
    <2> USE <2>2
    <2>3. h[s \ {x}] \in A /\ x \in S OBVIOUS
    <2>4. F[<<x, h[s \ {x}]>>] \in A BY <2>3 DEF Combines
    <2> QED BY <2>4 DEF x
  <1>2. g \in [SUBSET S -> A] BY <1>1
  <1>3. ASSUME NEW s \in SUBSET S, Cardinality(s) <= n + 1
        PROVE  g[s] = IF s = {} THEN b ELSE F[<<C[s], g[s \ {C[s]}]>>]
    <2>1. CASE s = {}
      <3> USE <2>1
      <3>1. Cardinality(s) = 0 BY FS_EmptySet
      <3>2. Cardinality(s) <= n BY <3>1, SMT
      <3> QED BY <3>2 DEF Folding
    <2>2. CASE s # {}
      <3> USE <2>2
      <3> DEFINE t == s \ {C[s]}
      <3>1. t \in SUBSET S /\ Cardinality(s) \in Nat /\ Cardinality(t) = Cardinality(s) - 1
        BY <1>1
      <3> USE <3>1
      <3> HIDE DEF t
      <3>2. Cardinality(t) <= n BY <1>3, SMT
      <3>3. g[t] = h[t] BY <3>2
      <3> USE <3>3
      <3>4. CASE Cardinality(s) <= n
        <4>1. g[s] = h[s] /\ h[s] = F[<<C[s], h[t]>>] BY <3>4 DEF Folding, t
        <4> QED BY <4>1 DEF t
      <3>5. CASE ~(Cardinality(s) <= n)
        <4>1. g[s] = F[<<C[s], h[t]>>] BY <3>5 DEF t
        <4> QED BY <4>1 DEF t
      <3> QED BY <3>4, <3>5
    <2> QED BY <2>1, <2>2
  <1> HIDE DEF g
  <1> QED BY <1>2, <1>3 DEF Folding

LEMMA FoldToAnySize ==
  ASSUME NEW S, IsFiniteSet(S), NEW A, NEW b \in A, NEW F, NEW C, Combines(F, S, A), Chooses(C, S),
         NEW n \in Nat
  PROVE  \E h \in [SUBSET S -> A] : Folding(F, b, C, S, h, n)
  <1> DEFINE bad == {m \in Nat : ~ \E h \in [SUBSET S -> A] : Folding(F, b, C, S, h, m)}
  <1> SUFFICES ASSUME bad # {} PROVE FALSE OBVIOUS
  <1>1. PICK m \in bad : \A k \in bad : m <= k BY Least
  <1> USE <1>1
  <1>2. CASE m = 0
    <2> DEFINE h == [s \in SUBSET S |-> b]
    <2>1. h \in [SUBSET S -> A] OBVIOUS
    <2>2. ASSUME NEW s \in SUBSET S, Cardinality(s) <= 0 PROVE s = {}
      <3>1. IsFiniteSet(s) BY FS_Subset
      <3> USE <3>1
      <3>2. Cardinality(s) \in Nat BY FS_CardinalityType
      <3>3. Cardinality(s) = 0 BY <2>2, <3>2, SMT
      <3> QED BY <3>3, FS_EmptySet
    <2>3. Folding(F, b, C, S, h, 0) BY <2>2 DEF Folding
    <2> QED BY <1>2, <2>1, <2>3
  <1>3. CASE m # 0
    <2>1. m - 1 \in Nat /\ m - 1 + 1 = m /\ ~(m <= m - 1) BY <1>3, SMT
    <2> USE <2>1
    <2>2. m - 1 \notin bad OBVIOUS
    <2>3. PICK h \in [SUBSET S -> A] : Folding(F, b, C, S, h, m - 1) BY <2>2
    <2>4. \E g \in [SUBSET S -> A] : Folding(F, b, C, S, g, m - 1 + 1) BY <2>3, FoldStep
    <2> QED BY <2>4
  <1> QED BY <1>2, <1>3

LEMMA FoldExists ==
  ASSUME NEW F, NEW b, NEW C, NEW S, NEW A, Foldable(F, b, C, S, A)
  PROVE  HasFold(F, b, C, S, A)
  <1> USE DEF Foldable
  <1>1. Cardinality(S) \in Nat BY FS_CardinalityType
  <1>2. PICK h \in [SUBSET S -> A] : Folding(F, b, C, S, h, Cardinality(S)) BY <1>1, FoldToAnySize
  <1>3. \A s \in SUBSET S : Cardinality(s) <= Cardinality(S) BY FS_Subset
  <1> QED BY <1>2, <1>3 DEF Folding, FoldOf, HasFold

LEMMA SumsExist ==
  ASSUME NEW S, IsFiniteSet(S), NEW f, \A x \in S : f[x] \in Nat
  PROVE  \E h \in [SUBSET S -> Nat] : Sums(f, S, h)
  <1> DEFINE F == [z \in S \X Nat |-> f[z[1]] + z[2]]
             C == [s \in SUBSET S |-> Pick(s)]
  <1>1. ASSUME NEW x \in S, NEW a \in Nat PROVE F[<<x, a>>] = f[x] + a /\ F[<<x, a>>] \in Nat
    <2>1. <<x, a>> \in S \X Nat OBVIOUS
    <2>2. F[<<x, a>>] = f[x] + a BY <2>1, SMT
    <2> QED BY <2>2, SMT
  <1>2. \A s \in SUBSET S : C[s] = Pick(s) OBVIOUS
  <1> USE <1>2
  <1>3. Combines(F, S, Nat) BY <1>1 DEF Combines
  <1>4. Chooses(C, S) BY PickIn DEF Chooses
  <1>5. 0 \in Nat OBVIOUS
  <1> HIDE DEF F, C
  <1>6. PICK h \in [SUBSET S -> Nat] : FoldOf(F, 0, C, S, h)
    <2>1. Foldable(F, 0, C, S, Nat) BY <1>3, <1>4, <1>5 DEF Foldable
    <2>2. HasFold(F, 0, C, S, Nat) BY <2>1, FoldExists
    <2> QED BY <2>2 DEF HasFold
  <1> USE <1>6
  <1>7. ASSUME NEW s \in SUBSET S
        PROVE  h[s] = IF s = {} THEN 0 ELSE f[Pick(s)] + h[s \ {Pick(s)}]
    <2>1. CASE s = {} BY <2>1 DEF FoldOf
    <2>2. CASE s # {}
      <3> USE <2>2
      <3>1. Pick(s) \in S /\ h[s \ {Pick(s)}] \in Nat BY PickIn
      <3>2. h[s] = F[<<Pick(s), h[s \ {Pick(s)}]>>] BY DEF FoldOf
      <3> QED BY <1>1, <3>1, <3>2
    <2> QED BY <2>1, <2>2
  <1> QED BY <1>7 DEF Sums

\* Of some subsets of a finite set, one contains no other.
LEMMA LeastSet ==
  ASSUME NEW S, IsFiniteSet(S), NEW B \in SUBSET (SUBSET S), B # {}
  PROVE  \E T \in B : \A x \in T : T \ {x} \notin B
  <1>1. IsWellFoundedOn(StrictSubsetOrdering(S), SUBSET S)
    BY FS_StrictSubsetOrderingWellFounded, FS_FiniteSubsetsOfFinite
  <1>2. PICK T \in B : \A U \in B : ~(<<U, T>> \in StrictSubsetOrdering(S)) BY <1>1, WFMin
  <1>3. ASSUME NEW x \in T, T \ {x} \in B PROVE FALSE
    <2> USE <1>3
    <2>1. T \ {x} # T /\ T \ {x} \subseteq T OBVIOUS
    <2>2. <<T \ {x}, T>> \in StrictSubsetOrdering(S) BY <2>1, SMT DEF StrictSubsetOrdering
    <2> QED BY <1>2, <2>2
  <1> QED BY <1>3

\* The sums over the subsets of T do not depend on what T is part of.
LEMMA SumsAgree ==
  ASSUME NEW S, IsFiniteSet(S), NEW T \in SUBSET S, NEW f, NEW g, \A x \in T : f[x] = g[x],
         NEW h, Sums(f, S, h), NEW k, Sums(g, T, k)
  PROVE  h[T] = k[T]
  <1> DEFINE bad == {s \in SUBSET T : h[s] # k[s]}
  <1>1. \A s \in SUBSET S : h[s] = IF s = {} THEN 0 ELSE f[Pick(s)] + h[s \ {Pick(s)}] BY DEF Sums
  <1> USE <1>1
  <1>2. \A s \in SUBSET T : k[s] = IF s = {} THEN 0 ELSE g[Pick(s)] + k[s \ {Pick(s)}] BY DEF Sums
  <1> USE <1>2
  <1>3. IsFiniteSet(T) BY FS_Subset
  <1> SUFFICES ASSUME bad # {} PROVE FALSE OBVIOUS
  <1>4. PICK s \in bad : \A x \in s : s \ {x} \notin bad BY <1>3, LeastSet
  <1> USE <1>4
  <1>5. s \in SUBSET S /\ s \in SUBSET T /\ h[s] # k[s] OBVIOUS
  <1> USE <1>5
  <1>6. s # {} OBVIOUS
  <1> USE <1>6
  <1>7. Pick(s) \in s /\ Pick(s) \in T BY PickIn
  <1> USE <1>7
  <1>8. h[s \ {Pick(s)}] = k[s \ {Pick(s)}] OBVIOUS
  <1>9. h[s] = f[Pick(s)] + h[s \ {Pick(s)}] OBVIOUS
  <1>10. k[s] = g[Pick(s)] + k[s \ {Pick(s)}] OBVIOUS
  <1> QED BY <1>8, <1>9, <1>10

\* What is used of sums: they are numbers, an element more adds its value, and
\* only the values of the elements matter.
LEMMA SumNat ==
  ASSUME NEW S, IsFiniteSet(S), NEW f, \A x \in S : f[x] \in Nat
  PROVE  SumFunctionOnSet(f, S) \in Nat
  <1> DEFINE c == CHOOSE h : Sums(f, S, h)
  <1>1. PICK h \in [SUBSET S -> Nat] : Sums(f, S, h) BY SumsExist
  <1> USE <1>1
  <1>2. Sums(f, S, c) OBVIOUS
  <1> HIDE DEF c
  <1>3. S \in SUBSET S /\ \A x \in S : f[x] = f[x] OBVIOUS
  <1>4. c[S] = h[S] BY <1>2, <1>3, SumsAgree, SMT
  <1> QED BY <1>4, SumChosen DEF c

LEMMA SumRemove ==
  ASSUME NEW S, IsFiniteSet(S), NEW f, \A x \in S : f[x] \in Nat, NEW x \in S
  PROVE  SumFunctionOnSet(f, S) = f[x] + SumFunctionOnSet(f, S \ {x})
  <1> DEFINE c == CHOOSE h : Sums(f, S, h)
             d == CHOOSE h : Sums(f, S \ {x}, h)
  <1>1. PICK h \in [SUBSET S -> Nat] : Sums(f, S, h) BY SumsExist
  <1> USE <1>1
  <1>2. IsFiniteSet(S \ {x}) BY FS_Subset
  <1>3. PICK k \in [SUBSET (S \ {x}) -> Nat] : Sums(f, S \ {x}, k) BY <1>2, SumsExist
  <1>4. Sums(f, S, c) /\ Sums(f, S \ {x}, d) BY <1>3
  <1> HIDE DEF c, d
  <1>a. S \in SUBSET S /\ S \ {x} \in SUBSET S /\ \A y \in S : f[y] = f[y] OBVIOUS
  <1>5. c[S] = h[S] BY <1>4, <1>a, SumsAgree, SMT
  <1>6. h[S \ {x}] = d[S \ {x}] BY <1>4, <1>a, SumsAgree, SMT
  \* Any element may be added last.
  <1>7. h[S] = f[x] + h[S \ {x}]
    <2> DEFINE bad == {T \in SUBSET S : \E y \in T : h[T] # f[y] + h[T \ {y}]}
    <2>1. \A s \in SUBSET S : h[s] = IF s = {} THEN 0 ELSE f[Pick(s)] + h[s \ {Pick(s)}]
      BY DEF Sums
    <2> SUFFICES ASSUME bad # {} PROVE FALSE
      <3>1. S \in SUBSET S OBVIOUS
      <3> QED BY <3>1
    <2>2. PICK T \in bad : \A y \in T : T \ {y} \notin bad BY LeastSet
    <2> USE <2>2
    <2>3. T \in SUBSET S OBVIOUS
    <2> USE <2>3
    <2>4. PICK z \in T : h[T] # f[z] + h[T \ {z}] OBVIOUS
    <2> USE <2>4
    <2> DEFINE p == Pick(T)
               U == (T \ {p}) \ {z}
    <2>5. p \in T BY PickIn
    <2> USE <2>5
    <2>6. h[T] = f[p] + h[T \ {p}] BY <2>1
    <2>7. p # z BY <2>6
    <2> HIDE DEF p
    <2>8. h[T \ {p}] = f[z] + h[U]
      <3>1. T \ {p} \in SUBSET S /\ T \ {p} \notin bad /\ z \in T \ {p} BY <2>7
      <3> QED BY <3>1
    <2>9. h[T \ {z}] = f[p] + h[U]
      <3>1. T \ {z} \in SUBSET S /\ T \ {z} \notin bad /\ p \in T \ {z} BY <2>7
      <3>2. (T \ {z}) \ {p} = U OBVIOUS
      <3> QED BY <3>1, <3>2
    <2>10. f[p] \in Nat /\ f[z] \in Nat /\ h[U] \in Nat OBVIOUS
    <2> HIDE DEF U
    <2> QED BY <2>6, <2>8, <2>9, <2>10, SMT
  <1> QED BY <1>5, <1>6, <1>7, SumChosen DEF c, d

LEMMA SumSame ==
  ASSUME NEW S, IsFiniteSet(S), NEW f, NEW g, \A x \in S : f[x] \in Nat /\ g[x] = f[x]
  PROVE  SumFunctionOnSet(g, S) = SumFunctionOnSet(f, S)
  <1> DEFINE c == CHOOSE h : Sums(f, S, h)
             d == CHOOSE h : Sums(g, S, h)
  <1>1. (\E h : Sums(f, S, h)) /\ (\E h : Sums(g, S, h)) BY SumsExist
  <1>2. Sums(f, S, c) /\ Sums(g, S, d) BY <1>1
  <1> HIDE DEF c, d
  <1>3. S \in SUBSET S /\ \A x \in S : f[x] = g[x] OBVIOUS
  <1>4. c[S] = d[S] BY <1>2, <1>3, SumsAgree, SMT
  <1> QED BY <1>4, SumChosen DEF c, d

LEMMA SumEmpty ==
  ASSUME NEW f
  PROVE  SumFunctionOnSet(f, {}) = 0
  <1> DEFINE c == CHOOSE h : Sums(f, {}, h)
  <1>1. IsFiniteSet({}) BY FS_EmptySet
  <1>2. PICK h : Sums(f, {}, h) BY <1>1, SumsExist
  <1>3. Sums(f, {}, c) BY <1>2
  <1> HIDE DEF c
  <1>4. c[{}] = 0 BY <1>3 DEF Sums
  <1> QED BY <1>4, SumChosen DEF c
-----------------------------------------------------------------------------
(* The scheduler's filter                                                  *)

LEMMA Quotient ==
  ASSUME NEW G \in Nat \ {0}, NEW m \in Nat
  PROVE  m \div G \in Nat /\ G * (m \div G) <= m /\ m < G * (m \div G) + G
  BY SMT

\* A bounded set of numbers has a largest.
LEMMA Greatest ==
  ASSUME NEW d \in Nat, NEW T \in SUBSET (0..d), T # {}
  PROVE  Max(T) \in T
  <1> DEFINE R == {t \in Nat : t <= d /\ d - t \in T}
  <1>1. PICK t \in T : TRUE OBVIOUS
  <1>2. t \in Nat /\ t <= d BY SMT
  <1>3. d - t \in Nat /\ d - t <= d /\ d - (d - t) = t BY <1>2, SMT
  <1>4. d - t \in R BY <1>1, <1>3
  <1>5. R \in SUBSET Nat /\ R # {} BY <1>4
  <1>6. PICK s \in R : \A u \in R : s <= u BY <1>5, Least
  <1> USE <1>6
  <1>7. ASSUME NEW u \in T PROVE d - s >= u
    <2>1. u \in Nat /\ u <= d BY SMT
    <2> USE <2>1
    <2>2. d - u \in Nat /\ d - u <= d /\ d - (d - u) = u BY SMT
    <2>3. d - u \in R BY <2>2
    <2>4. s \in Nat /\ s <= d - u BY <2>3
    <2> QED BY <2>4, SMT
  <1>8. d - s \in T OBVIOUS
  <1>9. \E m \in T : \A u \in T : m >= u BY <1>7, <1>8
  <1> QED BY <1>9 DEF Max

\* There are finitely many keys.
LEMMA KeysFinite ==
  ASSUME NEW n \in Nodes
  PROVE  IsFiniteSet(KeysOf(n))
  <1> DEFINE S == DOMAIN VgSize[n]
             T == {<<g, "">> : g \in S}
             f == [g \in S |-> <<g, "">>]
  <1>1. IsFiniteSet(S) /\ IsFiniteSet(DOMAIN DiskSize[n]) BY ConfigAssumption
  <1> USE <1>1
  <1>2. f \in Surjection(S, T) BY DEF Surjection
  <1>3. IsFiniteSet(T) BY <1>2, FS_Surjection
  <1> QED BY <1>3, FS_Union DEF KeysOf

\* A report is for groups and disks of the node and within their capacity.
ReportOK(n, a) ==
    \A k \in DOMAIN a.alloc : k \in KeysOf(n) /\ a.alloc[k] \in Nat /\ a.alloc[k] <= CapacityOf(n, k)
ReportsOK == \A n \in Nodes : ReportOK(n, report[n])

Wishes == [excl : BOOLEAN, bytes : Nat]
Accs == [err : BOOLEAN, node : Somewhere, raw : BOOLEAN, excl : BOOLEAN,
         map : [DOMAIN Policy -> {<<>>} \cup {<<w>> : w \in Wishes}]]

\* Claims that have their volume, and those for which room is asked.
Bound(c) == claim[c].phase = "bound"
Asked(c) == claim[c].phase # "bound" /\ Kind(c) # "host"
Wish(c, e) == [excl |-> e, bytes |-> Bytes[c]]

\* The claims can go to no node: two have volumes on different ones, or one asks
\* for a group that is not configured.
Trouble(D) ==
    \/ \E c, d \in D : Bound(c) /\ Bound(d) /\ pv[c].node # pv[d].node
    \/ \E c \in D : Asked(c) /\ WantGroup(c) \notin DOMAIN Policy

\* What getPvcRequestMap has found out when it has seen the claims D.
Collected(acc, D) ==
    /\ acc \in Accs
    /\ acc.err => Trouble(D)
    /\ ~acc.err =>
        /\ \A c \in D : Bound(c) => pv[c].node = acc.node
        /\ acc.node # NoNode => \E c \in D : Bound(c) /\ pv[c].node = acc.node
        /\ acc.raw <=> \E c \in D : Asked(c) /\ Kind(c) = "raw"
        /\ \A c \in D : Asked(c) => WantGroup(c) \in DOMAIN Policy /\ acc.map[WantGroup(c)] # <<>>
        /\ \A g \in DOMAIN Policy : acc.map[g] # <<>> =>
             \E c \in D, e \in BOOLEAN : Asked(c) /\ WantGroup(c) = g /\ acc.map[g] = <<Wish(c, e)>>

LEMMA HostKind ==
  ASSUME NEW c
  PROVE  CheckHostDeviceGroup(Class[c].group) <=> Kind(c) = "host"
  <1>1. ASSUME CheckHostDeviceGroup(Class[c].group) PROVE ~CheckRawDeviceGroup(Class[c].group)
    <2>1. Class[c].group \in DOMAIN Policy /\ Policy[Class[c].group] = "host"
      BY <1>1 DEF CheckHostDeviceGroup
    <2> USE <2>1
    <2>2. CheckRawDeviceGroup(Class[c].group) => Policy[Class[c].group] = "raw"
      BY ConfigAssumption
    <2>3. "host" # "raw" OBVIOUS
    <2> QED BY <2>2, <2>3
  <1> QED BY <1>1, Kinds

\* The cases of AddClaim for a claim without a cache.
LEMMA AddCases ==
  ASSUME NEW acc, NEW c \in Claims, ~Cached(c)
  PROVE  LET g == WantGroup(c)
             e == acc.excl \/ Class[c].exclusive
         IN  /\ acc.err => AddClaim(acc, c) = acc
             /\ ~acc.err /\ Bound(c) /\ acc.node = NoNode =>
                  AddClaim(acc, c) = [acc EXCEPT !.node = pv[c].node]
             /\ ~acc.err /\ Bound(c) /\ acc.node # NoNode =>
                  AddClaim(acc, c) = [acc EXCEPT !.err = acc.node # pv[c].node]
             /\ ~acc.err /\ ~Bound(c) /\ ~Asked(c) => AddClaim(acc, c) = acc
             /\ ~acc.err /\ Asked(c) /\ g \notin DOMAIN Policy =>
                  AddClaim(acc, c) = [acc EXCEPT !.err = TRUE]
             /\ ~acc.err /\ Asked(c) /\ g \in DOMAIN Policy =>
                  AddClaim(acc, c) = [acc EXCEPT !.raw = acc.raw \/ CheckRawDeviceGroup(Class[c].group),
                                        !.excl = e, !.map[g] = <<Wish(c, e)>>]
  <1> DEFINE B == claim[c].phase = "bound"
             H == CheckHostDeviceGroup(Class[c].group)
             g == WantGroup(c)
             e == acc.excl \/ Class[c].exclusive
             one == IF acc.node = NoNode THEN [acc EXCEPT !.node = pv[c].node]
                    ELSE [acc EXCEPT !.err = acc.node # pv[c].node]
             none == [acc EXCEPT !.err = TRUE]
             more == [acc EXCEPT !.raw = acc.raw \/ CheckRawDeviceGroup(Class[c].group),
                                 !.excl = e, !.map[g] = <<Wish(c, e)>>]
  <1>1. Class[c].cache = "" BY PlacementAssumption DEF Cached
  <1>2. AddClaim(acc, c) =
          CASE acc.err -> acc [] ~acc.err /\ B -> one [] ~acc.err /\ ~B /\ H -> acc
            [] OTHER -> IF g \notin DOMAIN Policy THEN none ELSE more
    BY <1>1 DEF AddClaim, WantGroup, Wish
  <1>3. (H <=> Kind(c) = "host") /\ (B <=> Bound(c)) BY HostKind DEF Bound
  <1> HIDE DEF H, g, e, one, none, more, B
  <1>4. /\ acc.err => AddClaim(acc, c) = acc
        /\ ~acc.err /\ B => AddClaim(acc, c) = one
        /\ ~acc.err /\ ~B /\ H => AddClaim(acc, c) = acc
        /\ ~acc.err /\ ~B /\ ~H /\ g \notin DOMAIN Policy => AddClaim(acc, c) = none
        /\ ~acc.err /\ ~B /\ ~H /\ g \in DOMAIN Policy => AddClaim(acc, c) = more
    BY <1>2, SMT
  <1> QED BY <1>3, <1>4 DEF Asked, Bound, one, none, more, g, e

\* The fields of the results.
LEMMA AccFields ==
  ASSUME NEW acc \in Accs
  PROVE  /\ acc.err \in BOOLEAN /\ acc.node \in Somewhere /\ acc.raw \in BOOLEAN /\ acc.excl \in BOOLEAN
         /\ acc.map \in [DOMAIN Policy -> {<<>>} \cup {<<w>> : w \in Wishes}]
  BY DEF Accs

LEMMA AccNode ==
  ASSUME NEW acc \in Accs, NEW n \in Somewhere, NEW r, r = [acc EXCEPT !.node = n]
  PROVE  r \in Accs /\ r.err = acc.err /\ r.node = n /\ r.raw = acc.raw /\ r.map = acc.map
  BY SMT DEF Accs

LEMMA AccErr ==
  ASSUME NEW acc \in Accs, NEW b \in BOOLEAN, NEW r, r = [acc EXCEPT !.err = b]
  PROVE  r \in Accs /\ r.err = b /\ r.node = acc.node /\ r.raw = acc.raw /\ r.map = acc.map
  BY SMT DEF Accs

Adds(acc, g, w, b, e, s) ==
    /\ acc \in Accs /\ g \in DOMAIN Policy /\ w \in Wishes /\ b \in BOOLEAN /\ e \in BOOLEAN
    /\ s = [acc EXCEPT !.raw = b, !.excl = e, !.map[g] = <<w>>]
Added(acc, g, w, b, s) ==
    /\ s \in Accs /\ s.err = acc.err /\ s.node = acc.node /\ s.raw = b
    /\ s.map[g] = <<w>> /\ \A h \in DOMAIN Policy : h # g => s.map[h] = acc.map[h]

LEMMA AccMap ==
  ASSUME NEW acc, NEW g, NEW w, NEW b, NEW e, NEW s, Adds(acc, g, w, b, e, s)
  PROVE  Added(acc, g, w, b, s)
  <1> USE DEF Adds
  <1> DEFINE W == {<<>>} \cup {<<v>> : v \in Wishes}
             m == [acc.map EXCEPT ![g] = <<w>>]
  <1>1. acc.map \in [DOMAIN Policy -> W] BY AccFields
  <1> USE <1>1
  <1>2. <<w>> \in W OBVIOUS
  <1>3. m \in [DOMAIN Policy -> W] BY <1>2
  <1> DEFINE r == [acc EXCEPT !.raw = b, !.excl = e, !.map[g] = <<w>>]
  <1>4. r = [err |-> acc.err, node |-> acc.node, raw |-> b, excl |-> e, map |-> m]
    <2> DEFINE M == [DOMAIN Policy -> W]
    <2>1. acc \in [err : BOOLEAN, node : Somewhere, raw : BOOLEAN, excl : BOOLEAN, map : M] BY DEF Accs
    <2> USE <2>1
    <2> HIDE DEF M
    <2>2. r = [acc EXCEPT !.raw = b, !.excl = e, !.map = m] BY SMT
    <2> HIDE DEF m, r
    <2> QED BY <2>2
  <1> USE <1>4
  <1> HIDE DEF m, r
  <1>5. acc.err \in BOOLEAN /\ acc.node \in Somewhere BY AccFields
  <1>6. r.err = acc.err /\ r.node = acc.node /\ r.raw = b /\ r.map = m OBVIOUS
  <1>7. r \in Accs BY <1>3, <1>5 DEF Accs
  <1>8. m[g] = <<w>> /\ \A h \in DOMAIN Policy : h # g => m[h] = acc.map[h] BY DEF m
  <1>9. s = r BY DEF r
  <1> QED BY <1>6, <1>7, <1>8, <1>9 DEF Added

\* One claim more.
LEMMA CollectOne ==
  ASSUME NEW D \in SUBSET Claims, NEW c \in Claims, ~Cached(c),
         \A d \in D \cup {c} : Bound(d) => pv[d].node \in Nodes,
         NEW acc, Collected(acc, D)
  PROVE  Collected(AddClaim(acc, c), D \cup {c})
  <1> DEFINE E == D \cup {c}
             r == AddClaim(acc, c)
             g == WantGroup(c)
             e == acc.excl \/ Class[c].exclusive
  <1>1. acc \in Accs /\ acc.err \in BOOLEAN /\ acc.node \in Somewhere BY AccFields DEF Collected
  <1> USE <1>1
  <1>2. Trouble(D) => Trouble(E) BY DEF Trouble
  <1>3. CASE acc.err
    <2> USE <1>3
    <2>1. r = acc BY AddCases
    <2> QED BY <1>2, <2>1 DEF Collected
  \* A claim for which no room is asked leaves the requests as they are.
  <1>10. ASSUME ~acc.err, ~Asked(c), NEW s \in Accs, ~s.err, s.raw = acc.raw, s.map = acc.map,
                \A d \in E : Bound(d) => pv[d].node = s.node,
                s.node # NoNode => \E d \in E : Bound(d) /\ pv[d].node = s.node
         PROVE  Collected(s, E)
    <2> USE <1>10
    <2>1. s.raw <=> \E d \in E : Asked(d) /\ Kind(d) = "raw" BY DEF Collected
    <2>2. \A d \in E : Asked(d) => WantGroup(d) \in DOMAIN Policy /\ s.map[WantGroup(d)] # <<>>
      BY DEF Collected
    <2>3. ASSUME NEW h \in DOMAIN Policy, s.map[h] # <<>>
          PROVE  \E d \in E, i \in BOOLEAN : Asked(d) /\ WantGroup(d) = h /\ s.map[h] = <<Wish(d, i)>>
      <3>1. acc.map[h] # <<>> BY <2>3
      <3>2. \E d \in D, i \in BOOLEAN : Asked(d) /\ WantGroup(d) = h /\ acc.map[h] = <<Wish(d, i)>>
        BY <3>1 DEF Collected
      <3> QED BY <3>2
    <2> QED BY <2>1, <2>2, <2>3 DEF Collected
  <1>4. CASE ~acc.err /\ Bound(c) /\ acc.node = NoNode
    <2> USE <1>4
    <2>1. r = [acc EXCEPT !.node = pv[c].node] BY AddCases
    <2> HIDE DEF r
    <2>2. pv[c].node \in Somewhere /\ pv[c].node \in Nodes BY DEF Somewhere
    <2>3. r \in Accs /\ r.err = acc.err /\ r.node = pv[c].node /\ r.raw = acc.raw /\ r.map = acc.map
      BY <2>1, <2>2, AccNode, SMT
    <2> USE <2>3
    <2>4. \A d \in D : ~Bound(d) BY NodesNamed DEF Collected
    <2>5. ~Asked(c) BY DEF Asked, Bound
    <2>6. ~r.err OBVIOUS
    <2>7. (\A d \in E : Bound(d) => pv[d].node = r.node) /\ \E d \in E : Bound(d) /\ pv[d].node = r.node
      BY <2>4
    <2>8. Collected(r, E) BY <1>10, <2>5, <2>6, <2>7
    <2> QED BY <2>8 DEF r
  <1>5. CASE ~acc.err /\ Bound(c) /\ acc.node # NoNode
    <2> USE <1>5
    <2> DEFINE b == acc.node # pv[c].node
    <2>1. r = [acc EXCEPT !.err = b] BY AddCases
    <2> HIDE DEF r, b
    <2>2. b \in BOOLEAN BY DEF b
    <2>3. r \in Accs /\ r.err = b /\ r.node = acc.node /\ r.raw = acc.raw /\ r.map = acc.map
      BY <2>1, <2>2, AccErr
    <2> USE <2>3
    <2>4. ~Asked(c) BY DEF Asked, Bound
    <2>5. b => Trouble(E) BY DEF Collected, Trouble, b
    <2>6. CASE b
      <3>1. Collected(r, E) BY <2>5, <2>6 DEF Collected
      <3> QED BY <3>1 DEF r
    <2>7. CASE ~b
      <3>1. acc.node = pv[c].node /\ ~r.err BY <2>7 DEF b
      <3> USE <3>1
      <3>2. (\A d \in E : Bound(d) => pv[d].node = r.node) /\ \E d \in E : Bound(d) /\ pv[d].node = r.node
        BY DEF Collected
      <3>3. Collected(r, E) BY <1>10, <2>4, <3>2
      <3> QED BY <3>3 DEF r
    <2> QED BY <2>6, <2>7
  <1>6. CASE ~acc.err /\ ~Bound(c) /\ ~Asked(c)
    <2> USE <1>6
    <2>1. r = acc BY AddCases
    <2> HIDE DEF r
    <2>2. Collected(r, E) BY <2>1 DEF Collected
    <2> QED BY <2>2 DEF r
  <1>7. CASE ~acc.err /\ Asked(c) /\ g \notin DOMAIN Policy
    <2> USE <1>7
    <2>1. r = [acc EXCEPT !.err = TRUE] BY AddCases
    <2> HIDE DEF r
    <2>2. TRUE \in BOOLEAN OBVIOUS
    <2>3. r \in Accs /\ r.err BY <2>1, <2>2, AccErr
    <2>4. Trouble(E) BY DEF Trouble
    <2>5. Collected(r, E) BY <2>3, <2>4 DEF Collected
    <2> QED BY <2>5 DEF r
  <1>8. CASE ~acc.err /\ Asked(c) /\ g \in DOMAIN Policy
    <2> USE <1>8
    <2> DEFINE b == acc.raw \/ CheckRawDeviceGroup(Class[c].group)
               w == Wish(c, e)
    <2>1. r = [acc EXCEPT !.raw = b, !.excl = e, !.map[g] = <<w>>] BY AddCases
    <2>2. b \in BOOLEAN /\ e \in BOOLEAN OBVIOUS
    <2> USE <2>2
    <2>3. w \in Wishes BY Ratio DEF Wish, Wishes
    <2>b. acc \in Accs /\ g \in DOMAIN Policy OBVIOUS
    <2> HIDE DEF b, e, r, w, g
    <2>4. Adds(acc, g, w, b, e, r) BY <2>1, <2>3, <2>b DEF Adds
    <2>5. Added(acc, g, w, b, r) BY <2>4, AccMap
    <2>6. /\ r \in Accs /\ ~r.err /\ r.node = acc.node /\ r.raw = b
          /\ r.map[g] = <<w>> /\ \A h \in DOMAIN Policy : h # g => r.map[h] = acc.map[h]
      BY <2>5 DEF Added
    <2> USE <2>6
    <2>7. <<w>> # <<>> OBVIOUS
    <2>8. b <=> acc.raw \/ Kind(c) = "raw" BY Kinds DEF b
    <2>9. ~Bound(c) BY DEF Asked, Bound
    <2>10. \A d \in E : Asked(d) => WantGroup(d) \in DOMAIN Policy /\ r.map[WantGroup(d)] # <<>>
      BY <2>7 DEF Collected, g
    <2>11. ASSUME NEW h \in DOMAIN Policy, r.map[h] # <<>>
           PROVE  \E d \in E, i \in BOOLEAN : Asked(d) /\ WantGroup(d) = h /\ r.map[h] = <<Wish(d, i)>>
      <3>1. CASE h = g BY <3>1 DEF w, g
      <3>2. CASE h # g
        <4>1. r.map[h] = acc.map[h] BY <3>2
        <4> USE <4>1
        <4>2. acc.map[h] # <<>> BY <2>11
        <4>3. \E d \in D, i \in BOOLEAN : Asked(d) /\ WantGroup(d) = h /\ acc.map[h] = <<Wish(d, i)>>
          BY <4>2 DEF Collected
        <4> QED BY <4>3
      <3> QED BY <3>1, <3>2
    <2>12. r.raw <=> \E d \in E : Asked(d) /\ Kind(d) = "raw" BY <2>8 DEF Collected
    <2>13. Collected(r, E) BY <2>9, <2>10, <2>11, <2>12 DEF Collected
    <2> QED BY <2>13 DEF r
  <1> QED BY <1>3, <1>4, <1>5, <1>6, <1>7, <1>8

LEMMA AddTyped ==
  ASSUME NEW c \in Claims, ~Cached(c), pv[c].node \in Somewhere, NEW acc \in Accs
  PROVE  AddClaim(acc, c) \in Accs
  <1> DEFINE r == AddClaim(acc, c)
             n == pv[c].node
             b == acc.node # n
             g == WantGroup(c)
             e == acc.excl \/ Class[c].exclusive
             raw == acc.raw \/ CheckRawDeviceGroup(Class[c].group)
             w == Wish(c, e)
  <1>1. \/ r = acc
        \/ r = [acc EXCEPT !.node = n] \/ r = [acc EXCEPT !.err = b] \/ r = [acc EXCEPT !.err = TRUE]
        \/ g \in DOMAIN Policy /\ r = [acc EXCEPT !.raw = raw, !.excl = e, !.map[g] = <<w>>]
    <2>1. acc.err \in BOOLEAN BY AccFields
    <2> HIDE DEF r, n, b, g, e, raw, w
    <2>2. Bound(c) \/ Asked(c) \/ (~Bound(c) /\ ~Asked(c)) OBVIOUS
    <2>3. CASE acc.err BY <2>3, AddCases DEF r
    <2>4. CASE ~acc.err /\ Bound(c) BY <2>4, AddCases DEF r, n, b
    <2>5. CASE ~acc.err /\ Asked(c) BY <2>5, AddCases DEF r, raw, e, g, w
    <2>6. CASE ~acc.err /\ ~Bound(c) /\ ~Asked(c) BY <2>6, AddCases DEF r
    <2> QED BY <2>2, <2>3, <2>4, <2>5, <2>6
  <1>2. n \in Somewhere /\ b \in BOOLEAN /\ TRUE \in BOOLEAN /\ e \in BOOLEAN /\ raw \in BOOLEAN OBVIOUS
  <1> USE <1>2
  <1>3. w \in Wishes BY Ratio DEF Wish, Wishes
  <1> HIDE DEF r, n, b, g, e, raw, w
  <1>4. ASSUME g \in DOMAIN Policy, r = [acc EXCEPT !.raw = raw, !.excl = e, !.map[g] = <<w>>]
        PROVE  r \in Accs
    <2>1. Adds(acc, g, w, raw, e, r) BY <1>3, <1>4 DEF Adds
    <2>2. Added(acc, g, w, raw, r) BY <2>1, AccMap
    <2> QED BY <2>2 DEF Added
  <1>5. r = [acc EXCEPT !.node = n] => r \in Accs BY AccNode
  <1>6. r = [acc EXCEPT !.err = b] \/ r = [acc EXCEPT !.err = TRUE] => r \in Accs BY AccErr
  <1>7. r \in Accs BY <1>1, <1>4, <1>5, <1>6
  <1> QED BY <1>7 DEF r

\* h has what is found out from the claims at the places in s.
Collects(q, h) ==
    h = [s \in SUBSET DOMAIN q |-> IF s = {} THEN NoRequests ELSE AddClaim(h[s \ {Max(s)}], q[Max(s)])]

LEMMA CollectChosen ==
  ASSUME NEW p
  PROVE  getPvcRequestMap(p) = (CHOOSE h : Collects(ClaimsOf[p], h))[DOMAIN ClaimsOf[p]]
  BY DEF getPvcRequestMap, FoldInOrder, MapThenFoldSet, Collects

\* The last place of some.
LEMMA LastPlace ==
  ASSUME NEW T, NEW q \in Seq(T), NEW s \in SUBSET DOMAIN q, s # {}
  PROVE  Max(s) \in s
  <1>1. DOMAIN q = 1..Len(q) /\ Len(q) \in Nat BY SMT
  <1> USE <1>1
  <1>2. s \in SUBSET (0..Len(q)) BY SMT
  <1> QED BY <1>2, Greatest

LEMMA PlacesFinite ==
  ASSUME NEW T, NEW q \in Seq(T)
  PROVE  IsFiniteSet(DOMAIN q)
  <1>1. DOMAIN q = 1..Len(q) /\ Len(q) \in Nat /\ 1 \in Int /\ Len(q) \in Int BY SMT
  <1> QED BY <1>1, FS_Interval

\* The claims of a pod, none with a cache.
Uncached(p) == \A c \in Range(ClaimsOf[p]) : ~Cached(c)

LEMMA PodClaims ==
  ASSUME NEW p \in Pods
  PROVE  /\ ClaimsOf[p] \in Seq(Claims) /\ IsFiniteSet(DOMAIN ClaimsOf[p])
         /\ \A i \in DOMAIN ClaimsOf[p] : ClaimsOf[p][i] \in Claims /\ ClaimsOf[p][i] \in Range(ClaimsOf[p])
         /\ Range(ClaimsOf[p]) = {ClaimsOf[p][i] : i \in DOMAIN ClaimsOf[p]}
         /\ Range(ClaimsOf[p]) \in SUBSET Claims
  <1> DEFINE q == ClaimsOf[p]
  <1>1. q \in Seq(Claims) BY PlacementAssumption
  <1> USE <1>1
  <1>2. Range(q) = {q[i] : i \in DOMAIN q} BY DEF Range
  <1> USE <1>2
  <1> HIDE DEF q
  <1>3. \A i \in DOMAIN q : q[i] \in Claims BY SMT
  <1> USE <1>3
  <1>4. IsFiniteSet(DOMAIN q) BY PlacesFinite
  <1>5. (\A i \in DOMAIN q : q[i] \in Range(q)) /\ Range(q) \in SUBSET Claims OBVIOUS
  <1> QED BY <1>4, <1>5 DEF q

LEMMA NoRequestsTyped == NoRequests \in Accs
  <1>1. NoNode \in Somewhere BY DEF Somewhere
  <1>2. [g \in DOMAIN Policy |-> <<>>] \in [DOMAIN Policy -> {<<>>} \cup {<<w>> : w \in Wishes}] OBVIOUS
  <1> QED BY <1>1, <1>2 DEF NoRequests, Accs

LEMMA NothingCollected == Collected(NoRequests, {})
  <1>1. ~NoRequests.err /\ NoRequests.node = NoNode /\ NoRequests.raw = FALSE BY DEF NoRequests
  <1>2. \A g \in DOMAIN Policy : NoRequests.map[g] = <<>> BY DEF NoRequests
  <1> QED BY <1>1, <1>2, NoRequestsTyped DEF Collected

\* There is such a function, and what it has is what Collected says.
LEMMA CollectExists ==
  ASSUME Types, NEW p \in Pods, Uncached(p)
  PROVE  \E h : Collects(ClaimsOf[p], h)
  <1> DEFINE q == ClaimsOf[p]
             S == DOMAIN q
             F == [z \in S \X Accs |-> AddClaim(z[2], q[z[1]])]
             C == [s \in SUBSET S |-> Max(s)]
  <1>1. q \in Seq(Claims) /\ IsFiniteSet(S) /\ \A i \in S : q[i] \in Claims /\ ~Cached(q[i])
    BY PodClaims DEF Uncached
  <1> USE <1>1
  <1>2. \A c \in Claims : pv[c].node \in Somewhere BY DEF Types, Spots
  <1>3. ASSUME NEW i \in S, NEW a \in Accs
        PROVE  F[<<i, a>>] = AddClaim(a, q[i]) /\ F[<<i, a>>] \in Accs
    <2>1. <<i, a>> \in S \X Accs OBVIOUS
    <2>2. F[<<i, a>>] = AddClaim(a, q[i]) BY <2>1
    <2> HIDE DEF F, S, q
    <2>3. AddClaim(a, q[i]) \in Accs BY <1>2, AddTyped
    <2> QED BY <2>2, <2>3
  <1>4. \A s \in SUBSET S : C[s] = Max(s) OBVIOUS
  <1> USE <1>4
  <1> HIDE DEF F, C, q
  <1>5. \A s \in SUBSET S : s # {} => Max(s) \in s BY LastPlace
  <1> USE <1>5
  <1>6. Combines(F, S, Accs) BY <1>3 DEF Combines
  <1>7. Chooses(C, S) BY DEF Chooses
  <1>8. Foldable(F, NoRequests, C, S, Accs) BY <1>6, <1>7, NoRequestsTyped DEF Foldable
  <1>9. HasFold(F, NoRequests, C, S, Accs) BY <1>8, FoldExists
  <1>10. PICK h \in [SUBSET S -> Accs] : FoldOf(F, NoRequests, C, S, h) BY <1>9 DEF HasFold
  <1> USE <1>10
  <1>11. ASSUME NEW s \in SUBSET S
         PROVE  h[s] = IF s = {} THEN NoRequests ELSE AddClaim(h[s \ {Max(s)}], q[Max(s)])
    <2>1. CASE s = {} BY <2>1 DEF FoldOf
    <2>2. CASE s # {}
      <3> USE <2>2
      <3>1. Max(s) \in S /\ h[s \ {Max(s)}] \in Accs OBVIOUS
      <3>2. h[s] = F[<<Max(s), h[s \ {Max(s)}]>>] BY DEF FoldOf
      <3> QED BY <1>3, <3>1, <3>2
    <2> QED BY <2>1, <2>2
  <1>12. Collects(q, h) BY <1>11 DEF Collects
  <1> QED BY <1>12 DEF q

LEMMA PodRequests ==
  ASSUME IInv, NEW p \in Pods, Uncached(p)
  PROVE  Collected(getPvcRequestMap(p), Range(ClaimsOf[p]))
  <1> DEFINE q == ClaimsOf[p]
             h == CHOOSE k : Collects(q, k)
             S == DOMAIN q
             Of(s) == {q[i] : i \in s}
             bad == {s \in SUBSET S : ~Collected(h[s], Of(s))}
  <1>1. q \in Seq(Claims) /\ IsFiniteSet(S) /\ \A i \in S : q[i] \in Claims /\ ~Cached(q[i])
    BY PodClaims DEF Uncached
  <1> USE <1>1
  <1>2. \A c \in Claims : ~Cached(c) /\ Bound(c) => pv[c].node \in Nodes
    BY DEF IInv, ClaimsOK, ClaimOK, BoundOK, Bound
  <1>3. Collects(q, h) BY CollectExists DEF IInv
  <1>4. getPvcRequestMap(p) = h[S] /\ Range(q) = Of(S) BY CollectChosen, PodClaims
  <1> HIDE DEF q, h
  <1>5. \A s \in SUBSET S : h[s] = IF s = {} THEN NoRequests ELSE AddClaim(h[s \ {Max(s)}], q[Max(s)])
    BY <1>3 DEF Collects
  <1> USE <1>5
  <1>6. bad = {}
    <2> SUFFICES ASSUME bad # {} PROVE FALSE OBVIOUS
    <2>1. PICK s \in bad : \A x \in s : s \ {x} \notin bad BY LeastSet
    <2> USE <2>1
    <2>2. s \in SUBSET S /\ ~Collected(h[s], Of(s)) OBVIOUS
    <2> USE <2>2
    <2>3. s # {}
      <3>1. ASSUME s = {} PROVE FALSE
        <4>1. h[s] = NoRequests /\ Of(s) = {} BY <3>1
        <4> QED BY <4>1, NothingCollected
      <3> QED BY <3>1
    <2> USE <2>3
    <2> DEFINE m == Max(s)
               D == Of(s \ {m})
    <2>4. m \in s BY LastPlace
    <2> USE <2>4
    <2>5. h[s] = AddClaim(h[s \ {m}], q[m]) OBVIOUS
    <2> HIDE DEF m
    <2>6. s \ {m} \in SUBSET S /\ Collected(h[s \ {m}], D) OBVIOUS
    <2>7. Of(s) = D \cup {q[m]} BY SMT
    <2>8. D \in SUBSET Claims /\ q[m] \in Claims /\ ~Cached(q[m]) OBVIOUS
    <2>9. \A d \in D \cup {q[m]} : Bound(d) => pv[d].node \in Nodes BY <1>2
    <2> HIDE DEF D
    <2>10. Collected(AddClaim(h[s \ {m}], q[m]), D \cup {q[m]}) BY <2>6, <2>8, <2>9, CollectOne
    <2> QED BY <2>5, <2>7, <2>10
  <1>7. S \in SUBSET S OBVIOUS
  <1>8. Collected(h[S], Of(S)) BY <1>6, <1>7
  <1> QED BY <1>4, <1>8 DEF q

\* The requests of a group are one, and then they are checked as one would expect.
LEMMA OneOrder ==
  ASSUME NEW w
  PROVE  DOMAIN Descending(<<w>>) = {1} /\ Descending(<<w>>)[1] = w
  <1> DEFINE q == <<w>>
             good(f) == \A i, j \in DOMAIN q : i < j => q[f[i]].bytes >= q[f[j]].bytes
             orders == {f \in [DOMAIN q -> DOMAIN q] : \A i, j \in DOMAIN q : i # j => f[i] # f[j]}
             order == CHOOSE f \in orders : good(f)
             id == [i \in {1} |-> 1]
  <1>1. DOMAIN q = {1} /\ q[1] = w BY SMT
  <1> USE <1>1
  <1>2. Descending(q) = [i \in DOMAIN q |-> q[order[i]]] BY DEF Descending
  <1> HIDE DEF q
  <1>3. \A i, j \in {1} : ~(i < j) /\ i = j BY SMT
  <1> USE <1>3
  <1>4. good(id) OBVIOUS
  <1>5. id \in orders OBVIOUS
  <1>6. order \in orders BY <1>4, <1>5
  <1> HIDE DEF order
  <1>7. order[1] = 1 BY <1>6
  <1> QED BY <1>2, <1>7 DEF q

\* Subsets of {1}, and the function that has a value for each of the two.
LEMMA OneFold ==
  ASSUME NEW s \in SUBSET {1}, s # {}
  PROVE  s = {1} /\ Max(s) = 1 /\ s \ {Max(s)} = {}
  <1>1. s = {1} OBVIOUS
  <1>2. Max({1}) = 1 BY SMT DEF Max
  <1> QED BY <1>1, <1>2

\* h has the values that are left after the requests at the places in s, and k
\* the bytes of these.
Takes(free, q, h) ==
    h = [s \in SUBSET DOMAIN q |-> IF s = {} THEN free ELSE minimumValueMinus(h[s \ {Max(s)}], q[Max(s)])]
Totals(q, k) ==
    k = [s \in SUBSET DOMAIN q |-> IF s = {} THEN 0 ELSE k[s \ {Max(s)}] + q[Max(s)].bytes]

LEMMA TakeChosen ==
  ASSUME NEW alloc, NEW g, NEW q, CheckRawDeviceGroup(g)
  PROVE  LET free == [k \in OfGroup(alloc, g) |-> alloc[k]]
             D == Descending(q)
         IN  GroupFits(alloc, g, q) <=>
               DOMAIN free # {} /\ (CHOOSE h : Takes(free, D, h))[DOMAIN D] # <<>>
  BY DEF GroupFits, FoldInOrder, MapThenFoldSet, Takes

LEMMA BytesChosen ==
  ASSUME NEW q
  PROVE  TotalBytes(q) = (CHOOSE k : Totals(q, k))[DOMAIN q]
  BY DEF TotalBytes, FoldInOrder, MapThenFoldSet, Totals

LEMMA OneTotal ==
  ASSUME NEW w, w.bytes \in Nat
  PROVE  TotalBytes(<<w>>) = w.bytes
  <1> DEFINE q == <<w>>
             k == [s \in SUBSET {1} |-> IF s = {} THEN 0 ELSE w.bytes]
             c == CHOOSE j : Totals(q, j)
  <1>1. DOMAIN q = {1} /\ q[1] = w BY SMT
  <1> USE <1>1
  <1> HIDE DEF q
  <1>2. {} \in SUBSET {1} /\ k[{}] = 0 OBVIOUS
  <1> USE <1>2
  <1>3. 0 + w.bytes = w.bytes BY SMT
  <1> USE <1>3
  <1>4. \A s \in SUBSET {1} : k[s] = IF s = {} THEN 0 ELSE k[s \ {Max(s)}] + q[Max(s)].bytes
    BY OneFold
  <1>5. k = [s \in SUBSET {1} |-> IF s = {} THEN 0 ELSE k[s \ {Max(s)}] + q[Max(s)].bytes] BY <1>4
  <1>6. Totals(q, k) BY <1>5 DEF Totals
  <1>7. Totals(q, c) BY <1>6
  <1> HIDE DEF c, k
  <1>8. {1} \in SUBSET {1} /\ {1} # {} OBVIOUS
  <1> USE <1>8
  <1>a. \A s \in SUBSET {1} : c[s] = IF s = {} THEN 0 ELSE c[s \ {Max(s)}] + q[Max(s)].bytes
    BY <1>7 DEF Totals
  <1> USE <1>a
  <1>b. Max({1}) = 1 /\ {1} \ {Max({1})} = {} BY OneFold
  <1>c. c[{}] = 0 OBVIOUS
  <1>d. c[{1}] = c[{1} \ {Max({1})}] + q[Max({1})].bytes OBVIOUS
  <1>9. c[{1}] = 0 + w.bytes BY <1>b, <1>c, <1>d
  <1>10. c[DOMAIN q] = w.bytes BY <1>9
  <1> QED BY <1>10, BytesChosen DEF c, q

LEMMA MinusEmpty ==
  ASSUME NEW free, NEW w, \A k \in DOMAIN free : free[k] \in Nat
  PROVE  minimumValueMinus(free, w) # <<>> <=>
           \E k \in DOMAIN free : free[k] >= convertRequestCapacity(w.bytes)
  <1> DEFINE gb == convertRequestCapacity(w.bytes)
             fit == {k \in DOMAIN free : free[k] >= gb}
             j == CHOOSE k \in fit : \A i \in fit : free[k] <= free[i]
             r == [free EXCEPT ![j] = IF w.excl THEN 0 ELSE free[j] - gb]
  <1>1. minimumValueMinus(free, w) = IF fit = {} THEN <<>> ELSE r BY DEF minimumValueMinus
  <1>2. DOMAIN r = DOMAIN free OBVIOUS
  <1> HIDE DEF r, gb
  <1>3. DOMAIN <<>> = {} BY SMT
  <1>4. fit # {} => r # <<>> BY <1>2, <1>3
  <1> QED BY <1>1, <1>4 DEF gb

LEMMA OneTaken ==
  ASSUME NEW free, NEW q, DOMAIN q = {1}
  PROVE  (CHOOSE h : Takes(free, q, h))[DOMAIN q] = minimumValueMinus(free, q[1])
  <1> DEFINE h == [s \in SUBSET {1} |-> IF s = {} THEN free ELSE minimumValueMinus(free, q[1])]
             c == CHOOSE j : Takes(free, q, j)
  <1>1. {} \in SUBSET {1} /\ h[{}] = free OBVIOUS
  <1> USE <1>1
  <1>2. \A s \in SUBSET {1} : h[s] = IF s = {} THEN free ELSE minimumValueMinus(h[s \ {Max(s)}], q[Max(s)])
    BY OneFold
  <1>3. h = [s \in SUBSET {1} |-> IF s = {} THEN free ELSE minimumValueMinus(h[s \ {Max(s)}], q[Max(s)])]
    BY <1>2
  <1>4. Takes(free, q, h) BY <1>3 DEF Takes
  <1>5. Takes(free, q, c) BY <1>4
  <1> HIDE DEF c, h
  <1>6. {1} \in SUBSET {1} /\ {1} # {} OBVIOUS
  <1> USE <1>6
  <1>7. \A s \in SUBSET {1} : c[s] = IF s = {} THEN free ELSE minimumValueMinus(c[s \ {Max(s)}], q[Max(s)])
    BY <1>5 DEF Takes
  <1> USE <1>7
  <1>8. Max({1}) = 1 /\ {1} \ {Max({1})} = {} BY OneFold
  <1>9. c[{}] = free OBVIOUS
  <1>10. c[{1}] = minimumValueMinus(c[{1} \ {Max({1})}], q[Max({1})]) OBVIOUS
  <1>11. c[{1}] = minimumValueMinus(free, q[1]) BY <1>8, <1>9, <1>10
  <1> QED BY <1>11 DEF c

LEMMA OneFits ==
  ASSUME NEW alloc, \A k \in DOMAIN alloc : alloc[k] \in Nat, NEW g, NEW w, w.bytes \in Nat
  PROVE  /\ CheckRawDeviceGroup(g) =>
              (GroupFits(alloc, g, <<w>>) <=>
                 \E k \in OfGroup(alloc, g) : alloc[k] >= convertRequestCapacity(w.bytes))
         /\ ~CheckRawDeviceGroup(g) =>
              (GroupFits(alloc, g, <<w>>) <=> convertRequestCapacity(w.bytes) <= LvmAllocatable(alloc, g))
  <1>1. CASE CheckRawDeviceGroup(g)
    <2> USE <1>1
    <2> DEFINE free == [k \in OfGroup(alloc, g) |-> alloc[k]]
               D == Descending(<<w>>)
               gb == convertRequestCapacity(w.bytes)
    <2>1. GroupFits(alloc, g, <<w>>) <=>
            DOMAIN free # {} /\ (CHOOSE h : Takes(free, D, h))[DOMAIN D] # <<>>
      BY TakeChosen
    <2>2. DOMAIN D = {1} /\ D[1] = w BY OneOrder
    <2>3. /\ DOMAIN free = OfGroup(alloc, g)
          /\ \A k \in OfGroup(alloc, g) : free[k] = alloc[k] /\ alloc[k] \in Nat
      BY DEF OfGroup
    <2> USE <2>3
    <2> HIDE DEF free, D, gb
    <2>4. (CHOOSE h : Takes(free, D, h))[DOMAIN D] = minimumValueMinus(free, w) BY <2>2, OneTaken
    <2>5. minimumValueMinus(free, w) # <<>> <=> \E k \in DOMAIN free : free[k] >= gb
      BY MinusEmpty DEF gb
    <2>6. GroupFits(alloc, g, <<w>>) <=> \E k \in OfGroup(alloc, g) : alloc[k] >= gb
      BY <2>1, <2>4, <2>5
    <2> QED BY <2>6 DEF gb
  <1>2. CASE ~CheckRawDeviceGroup(g)
    <2> USE <1>2
    <2>1. TotalBytes(<<w>>) = w.bytes BY OneTotal
    <2>2. GroupFits(alloc, g, <<w>>) <=>
            convertRequestCapacity(TotalBytes(<<w>>)) <= LvmAllocatable(alloc, g)
      BY DEF GroupFits
    <2> QED BY <2>1, <2>2
  <1> QED BY <1>1, <1>2

\* What a node reports, and the names of its groups.
LEMMA AllocOK ==
  ASSUME ReportsOK, NEW n \in Nodes, NEW raw, NEW k \in DOMAIN getAllocatableMap(n, raw)
  PROVE  /\ k \in DOMAIN report[n].alloc /\ getAllocatableMap(n, raw)[k] = report[n].alloc[k]
         /\ k \in KeysOf(n) /\ getAllocatableMap(n, raw)[k] \in Nat
  <1>1. k \in DOMAIN report[n].alloc /\ getAllocatableMap(n, raw)[k] = report[n].alloc[k]
    BY DEF getAllocatableMap, getNodeStorageResource
  <1> QED BY <1>1 DEF ReportsOK, ReportOK

LEMMA KeyNames ==
  ASSUME NEW n \in Nodes, NEW k \in KeysOf(n)
  PROVE  k[1] \in DOMAIN Policy /\ (~CheckRawDeviceGroup(k[1]) => k = <<k[1], "">>)
  <1>1. CASE k \in DOMAIN DiskSize[n]
    <2>1. k[2] # "" /\ k[1] \in DOMAIN Policy BY <1>1, ConfigAssumption
    <2> QED BY <2>1, KeysOfNode
  <1>2. CASE k \in {<<g, "">> : g \in DOMAIN VgSize[n]}
    <2>1. PICK g \in DOMAIN VgSize[n] : k = <<g, "">> BY <1>2
    <2> USE <2>1
    <2>2. g \in DOMAIN Policy BY ConfigAssumption
    <2>3. k[1] = g OBVIOUS
    <2> QED BY <2>2, <2>3
  <1> QED BY <1>1, <1>2 DEF KeysOf

LEMMA SizesOfClaims ==
  ASSUME NEW on \in SUBSET Claims
  PROVE  /\ IsFiniteSet(on)
         /\ \A c \in on : [d \in Claims |-> Gb(d)][c] = Gb(c) /\ Gb(c) \in Nat
  <1>1. IsFiniteSet(on) BY PlacementAssumption, FS_Subset
  <1> QED BY <1>1, GbNat

LEMMA SumAbove ==
  ASSUME NEW S, IsFiniteSet(S), NEW f, \A x \in S : f[x] \in Nat, NEW x \in S
  PROVE  SumFunctionOnSet(f, S) >= f[x] /\ SumFunctionOnSet(f, S) \in Nat
  <1> DEFINE a == SumFunctionOnSet(f, S)
             b == SumFunctionOnSet(f, S \ {x})
  <1>1. a = f[x] + b BY SumRemove
  <1>2. IsFiniteSet(S \ {x}) BY FS_Subset
  <1>3. a \in Nat /\ b \in Nat /\ f[x] \in Nat BY <1>2, SumNat
  <1> USE <1>3
  <1> HIDE DEF a, b
  <1>4. a >= f[x] BY <1>1, SMT
  <1> QED BY <1>4 DEF a

LEMMA SumOne ==
  ASSUME NEW f, NEW x, f[x] \in Nat
  PROVE  SumFunctionOnSet(f, {x}) = f[x]
  <1>1. IsFiniteSet({x}) BY FS_Singleton
  <1>2. SumFunctionOnSet(f, {x}) = f[x] + SumFunctionOnSet(f, {x} \ {x}) BY <1>1, SumRemove
  <1>3. {x} \ {x} = {} OBVIOUS
  <1>4. SumFunctionOnSet(f, {x} \ {x}) = 0 BY <1>3, SumEmpty
  <1>5. f[x] + 0 = f[x] BY SMT
  <1> QED BY <1>2, <1>4, <1>5

\* What the plugin and the reference look at is the same.
AnyRaw(p) == \E c \in Counted(p) : Kind(c) = "raw"

LEMMA SameView ==
  ASSUME NEW p \in Pods, NEW r, Collected(r, Range(ClaimsOf[p])), ~r.err
  PROVE  /\ Counted(p) = {c \in Range(ClaimsOf[p]) : Asked(c)} /\ Counted(p) \in SUBSET Claims
         /\ r.raw = AnyRaw(p)
         /\ Requested(r.map) = {WantGroup(c) : c \in Counted(p)}
         /\ Requested(r.map) \in SUBSET DOMAIN Policy
         /\ \A g \in Requested(r.map) : \E c \in Counted(p), e \in BOOLEAN :
              WantGroup(c) = g /\ r.map[g] = <<Wish(c, e)>>
  <1> DEFINE R == Range(ClaimsOf[p])
  <1>1. Counted(p) = {c \in R : Asked(c)} BY DEF Counted, Asked
  <1> USE <1>1
  <1>2. R \in SUBSET Claims BY PodClaims
  <1>3. r \in Accs /\ r.raw \in BOOLEAN /\ DOMAIN r.map = DOMAIN Policy BY AccFields DEF Collected
  <1> USE <1>3
  <1> HIDE DEF R
  <1>4. r.raw <=> \E c \in R : Asked(c) /\ Kind(c) = "raw" BY DEF Collected, R
  <1>5. \A c \in R : Asked(c) => WantGroup(c) \in DOMAIN Policy /\ r.map[WantGroup(c)] # <<>>
    BY DEF Collected, R
  <1>6. \A g \in DOMAIN Policy : r.map[g] # <<>> =>
          \E c \in R, e \in BOOLEAN : Asked(c) /\ WantGroup(c) = g /\ r.map[g] = <<Wish(c, e)>>
    BY DEF Collected, R
  <1>7. Requested(r.map) = {g \in DOMAIN Policy : r.map[g] # <<>>} BY DEF Requested
  <1> USE <1>7
  <1>8. \A g \in Requested(r.map) : \E c \in Counted(p), e \in BOOLEAN :
          WantGroup(c) = g /\ r.map[g] = <<Wish(c, e)>>
    BY <1>6
  <1> USE <1>8
  <1>9. Requested(r.map) = {WantGroup(c) : c \in Counted(p)} BY <1>5
  <1>10. r.raw = AnyRaw(p) BY <1>4 DEF AnyRaw
  <1> QED BY <1>2, <1>9, <1>10 DEF R

\* A node that can take the volumes of a pod passes.
LEMMA FitsPasses ==
  ASSUME IInv, ReportsOK, NEW p \in Pods, Uncached(p), NEW n \in Nodes, Packable(p, n)
  PROVE  Filter(p, n)
  <1> DEFINE R == Range(ClaimsOf[p])
             r == getPvcRequestMap(p)
             alloc == getAllocatableMap(n, AnyRaw(p))
             G == [c \in Claims |-> Gb(c)]
             Goes(f, k) == {c \in Counted(p) : f[c] = k}
  <1>1. Collected(r, R) BY PodRequests
  <1> USE <1>1
  <1>2. \A c \in R : Bound(c) => pv[c].node = n BY DEF Packable, Bound
  <1>3. PICK f \in [Counted(p) -> DOMAIN alloc] :
          /\ \A c \in Counted(p) : f[c][1] = WantGroup(c)
          /\ \A k \in DOMAIN alloc : SumFunctionOnSet(G, Goes(f, k)) <= alloc[k]
    BY DEF Packable, AnyRaw
  <1>4. Counted(p) = {c \in R : Asked(c)} /\ Counted(p) \in SUBSET Claims
    <2>1. R \in SUBSET Claims BY PodClaims
    <2> QED BY <2>1 DEF Counted, Asked
  <1> HIDE DEF R, r, alloc
  <1>5. \A k \in DOMAIN alloc : k \in KeysOf(n) /\ alloc[k] \in Nat BY AllocOK DEF alloc
  <1> USE <1>5
  <1>6. \A c \in Counted(p) : WantGroup(c) \in DOMAIN Policy
    <2> TAKE c \in Counted(p)
    <2>1. f[c] \in KeysOf(n) /\ f[c][1] = WantGroup(c) BY <1>3
    <2> QED BY <2>1, KeyNames
  <1>7. ~r.err
    <2>1. ~Trouble(R) BY <1>2, <1>4, <1>6 DEF Trouble
    <2> QED BY <2>1 DEF Collected
  <1> USE <1>7
  <1>8. /\ r.raw = AnyRaw(p)
        /\ \A g \in Requested(r.map) : \E c \in Counted(p), e \in BOOLEAN :
             WantGroup(c) = g /\ r.map[g] = <<Wish(c, e)>>
    BY SameView DEF R
  <1>9. r.node \in {NoNode, n} BY <1>2 DEF Collected
  <1>10. ASSUME NEW g \in Requested(r.map)
         PROVE  DOMAIN alloc # {} /\ GroupFits(alloc, g, r.map[g])
    <2>1. PICK c \in Counted(p), e \in BOOLEAN : WantGroup(c) = g /\ r.map[g] = <<Wish(c, e)>>
      BY <1>8, <1>10
    <2> USE <2>1
    <2> DEFINE k == f[c]
               on == Goes(f, k)
               w == Wish(c, e)
               sum == SumFunctionOnSet(G, on)
    <2>2. k \in DOMAIN alloc /\ k[1] = g /\ sum <= alloc[k] BY <1>3
    <2> USE <2>2
    <2>3. on \in SUBSET Claims /\ c \in on /\ c \in Claims BY <1>4
    <2> USE <2>3
    <2>4. IsFiniteSet(on) /\ \A d \in on : G[d] = Gb(d) /\ Gb(d) \in Nat BY SizesOfClaims
    <2>5. w.bytes = Bytes[c] /\ w.bytes \in Nat BY Ratio DEF Wish
    <2> USE <2>5
    <2>6. Gb(c) = convertRequestCapacity(w.bytes) BY DEF Gb
    <2> HIDE DEF k, on, w, G, sum
    <2>7. sum >= Gb(c) /\ sum \in Nat /\ Gb(c) \in Nat
      <3>1. \A d \in on : G[d] \in Nat BY <2>4
      <3> QED BY <2>4, <3>1, SumAbove DEF sum
    <2>8. alloc[k] \in Nat /\ k \in KeysOf(n) OBVIOUS
    <2>9. alloc[k] >= Gb(c) /\ Gb(c) <= alloc[k] BY <2>7, <2>8, SMT
    <2>10. CASE CheckRawDeviceGroup(g)
      <3>1. k \in OfGroup(alloc, g) BY DEF OfGroup, Contains
      <3>2. GroupFits(alloc, g, <<w>>) BY <2>6, <2>9, <2>10, <3>1, OneFits
      <3> QED BY <3>2 DEF w
    <2>11. CASE ~CheckRawDeviceGroup(g)
      <3>1. k = <<g, "">> BY <2>8, <2>11, KeyNames
      <3>2. LvmAllocatable(alloc, g) = alloc[k] BY <3>1 DEF LvmAllocatable
      <3>3. GroupFits(alloc, g, <<w>>) BY <2>6, <2>9, <2>11, <3>2, OneFits
      <3> QED BY <3>3 DEF w
    <2> QED BY <2>10, <2>11
  <1>11. alloc = getAllocatableMap(n, r.raw) BY <1>8 DEF alloc
  <1> QED BY <1>9, <1>10, <1>11 DEF Filter, r

\* A node that passes can take them, if the requests are exact.
LEMMA PassesFits ==
  ASSUME IInv, ReportsOK, NEW p \in Pods, Uncached(p), NEW n \in Nodes, Filter(p, n), Exact(p, n)
  PROVE  Packable(p, n)
  <1> DEFINE R == Range(ClaimsOf[p])
             r == getPvcRequestMap(p)
             alloc == getAllocatableMap(n, AnyRaw(p))
             G == [c \in Claims |-> Gb(c)]
             fits(c, k) == k \in DOMAIN alloc /\ k[1] = WantGroup(c) /\ Gb(c) <= alloc[k]
             f == [c \in Counted(p) |-> CHOOSE k : fits(c, k)]
  <1>1. Collected(r, R) BY PodRequests
  <1>2. ~r.err /\ r.node \in {NoNode, n} BY DEF Filter
  <1>3. \/ Requested(r.map) = {}
        \/ \A g \in Requested(r.map) : GroupFits(getAllocatableMap(n, r.raw), g, r.map[g])
    BY DEF Filter
  <1>4. /\ Counted(p) = {c \in R : Asked(c)} /\ Counted(p) \in SUBSET Claims /\ r.raw = AnyRaw(p)
        /\ Requested(r.map) = {WantGroup(c) : c \in Counted(p)}
        /\ \A g \in Requested(r.map) : \E c \in Counted(p), e \in BOOLEAN :
             WantGroup(c) = g /\ r.map[g] = <<Wish(c, e)>>
    BY <1>1, <1>2, SameView
  <1> USE <1>4
  <1> HIDE DEF R, r, alloc
  <1>5. \A k \in DOMAIN alloc : k \in DOMAIN report[n].alloc /\ alloc[k] \in Nat BY AllocOK DEF alloc
  <1> USE <1>5
  <1>6. \A g \in Requested(r.map) : GroupFits(alloc, g, r.map[g]) BY <1>3 DEF alloc
  <1>7. ASSUME NEW c \in R, Bound(c) PROVE pv[c].node = n
    <2>1. c \in Claims /\ ~Cached(c) BY PodClaims DEF Uncached, R
    <2>2. pv[c].node \in Nodes BY <1>7, <2>1 DEF IInv, ClaimsOK, ClaimOK, BoundOK, Bound
    <2>3. pv[c].node = r.node BY <1>1, <1>2, <1>7 DEF Collected
    <2> QED BY <1>2, <2>2, <2>3, NodesNamed
  \* Every claim has a place of its own group.
  <1>8. ASSUME NEW c \in Counted(p) PROVE \E k : fits(c, k)
    <2> DEFINE g == WantGroup(c)
    <2>1. g \in Requested(r.map) BY <1>8
    <2>2. PICK d \in Counted(p), e \in BOOLEAN : WantGroup(d) = g /\ r.map[g] = <<Wish(d, e)>>
      BY <2>1
    <2>3. d = c BY <1>8, <2>2 DEF Exact
    <2> DEFINE w == Wish(c, e)
               gb == Gb(c)
    <2>4. GroupFits(alloc, g, <<w>>) BY <1>6, <2>1, <2>2, <2>3
    <2>5. c \in Claims /\ w.bytes = Bytes[c] /\ w.bytes \in Nat BY <1>8, Ratio DEF Wish
    <2>6. gb = convertRequestCapacity(w.bytes) BY <2>5 DEF Gb
    <2>7. gb \in Nat /\ gb >= 1 BY <2>5, GbNat
    <2> HIDE DEF w, g, gb
    <2>8. CASE CheckRawDeviceGroup(g)
      <3>1. PICK k \in OfGroup(alloc, g) : alloc[k] >= gb BY <2>4, <2>5, <2>6, <2>8, OneFits
      <3>2. k \in DOMAIN alloc /\ Contains(k, g) BY <3>1 DEF OfGroup
      <3>3. k[1] = g BY <1>8, <3>2 DEF Exact, g
      <3>4. gb <= alloc[k] BY <2>7, <3>1, <3>2, SMT
      <3> QED BY <3>2, <3>3, <3>4 DEF g, gb
    <2>9. CASE ~CheckRawDeviceGroup(g)
      <3> DEFINE k == <<g, "">>
      <3>1. gb <= LvmAllocatable(alloc, g) BY <2>4, <2>5, <2>6, <2>9, OneFits
      <3>2. ~(gb <= 0) BY <2>7, SMT
      <3>3. k \in DOMAIN alloc /\ gb <= alloc[k] BY <3>1, <3>2 DEF LvmAllocatable
      <3>4. k[1] = g OBVIOUS
      <3> QED BY <3>3, <3>4 DEF g, gb
    <2> QED BY <2>8, <2>9
  <1>9. \A c \in Counted(p) : fits(c, f[c]) BY <1>8
  <1> HIDE DEF f
  <1>10. f \in [Counted(p) -> DOMAIN alloc] /\ \A c \in Counted(p) : f[c][1] = WantGroup(c)
    BY <1>9 DEF f
  \* No two are at the same place.
  <1>11. ASSUME NEW k \in DOMAIN alloc
         PROVE  LET on == {c \in Counted(p) : f[c] = k}
                IN  /\ SumFunctionOnSet(G, on) <= alloc[k]
                    /\ (\E c \in on : Exclusive(c)) => Cardinality(on) = 1
    <2> DEFINE on == {c \in Counted(p) : f[c] = k}
    <2>1. alloc[k] \in Nat OBVIOUS
    <2>2. CASE on = {}
      <3>1. SumFunctionOnSet(G, on) = 0 BY <2>2, SumEmpty
      <3>2. 0 <= alloc[k] BY <2>1, SMT
      <3> QED BY <2>2, <3>1, <3>2
    <2>3. CASE on # {}
      <3>1. PICK c \in on : TRUE BY <2>3
      <3>2. ASSUME NEW d \in on PROVE d = c
        <4>1. c \in Counted(p) /\ d \in Counted(p) /\ f[c] = k /\ f[d] = k BY <3>1
        <4>2. WantGroup(d) = k[1] /\ WantGroup(c) = k[1] BY <1>10, <4>1
        <4> QED BY <4>1, <4>2 DEF Exact
      <3>3. on = {c} BY <3>1, <3>2
      <3>4. c \in Claims /\ c \in Counted(p) /\ f[c] = k BY <3>1
      <3>5. G[c] = Gb(c) /\ Gb(c) \in Nat BY <3>4, GbNat
      <3>6. Gb(c) <= alloc[k] BY <1>9, <3>4
      <3> HIDE DEF G, on
      <3>7. SumFunctionOnSet(G, on) = Gb(c) BY <3>3, <3>5, SumOne
      <3>8. Cardinality(on) = 1 BY <3>3, FS_Singleton
      <3>9. /\ SumFunctionOnSet(G, on) <= alloc[k]
            /\ (\E d \in on : Exclusive(d)) => Cardinality(on) = 1
        BY <3>6, <3>7, <3>8
      <3> QED BY <3>9 DEF on
    <2> QED BY <2>2, <2>3
  <1> QED BY <1>7, <1>10, <1>11 DEF Packable, Bound, AnyRaw, R, alloc

\* The share of a group that fits is at most one.
Fractions == Nat \X (Nat \ {0})

LEMMA ShareOK ==
  ASSUME NEW alloc, \A k \in DOMAIN alloc : alloc[k] \in Nat, IsFiniteSet(DOMAIN alloc),
         NEW g, NEW c \in Claims, NEW e, GroupFits(alloc, g, <<Wish(c, e)>>)
  PROVE  LET b == Share(alloc, g, <<Wish(c, e)>>)
         IN  b \in Fractions /\ b[1] <= b[2]
  <1> DEFINE w == Wish(c, e)
             gb == Gb(c)
             sum == SumFunctionOnSet(alloc, OfGroup(alloc, g))
             total == IF CheckRawDeviceGroup(g) THEN sum ELSE LvmAllocatable(alloc, g)
             want == convertRequestCapacity(TotalBytes(<<w>>))
             part == IF PluginStrategy = "binpack" THEN want ELSE total - want
  <1>1. w.bytes = Bytes[c] /\ w.bytes \in Nat BY Ratio DEF Wish
  <1> USE <1>1
  <1>2. want = gb /\ gb = convertRequestCapacity(w.bytes) BY OneTotal DEF Gb
  <1> USE <1>2
  <1>3. gb \in Nat /\ gb >= 1 BY GbNat
  <1> USE <1>3
  <1>4. Share(alloc, g, <<w>>) = <<part, total>> BY DEF Share
  <1>5. GroupFits(alloc, g, <<w>>) OBVIOUS
  <1> USE <1>5
  <1> HIDE DEF w, want, gb, sum
  <1>6. total \in Nat /\ gb <= total
    <2>1. CASE CheckRawDeviceGroup(g)
      <3> USE <2>1
      <3> DEFINE S == OfGroup(alloc, g)
      <3>1. PICK k \in S : alloc[k] >= gb BY OneFits
      <3> USE <3>1
      <3>2. S \subseteq DOMAIN alloc BY DEF OfGroup
      <3>3. IsFiniteSet(S) /\ \A x \in S : alloc[x] \in Nat BY <3>2, FS_Subset
      <3> HIDE DEF S
      <3>4. sum >= alloc[k] /\ sum \in Nat /\ alloc[k] \in Nat BY <3>3, SumAbove DEF sum, S
      <3> USE <3>4
      <3>5. gb <= sum BY SMT
      <3> QED BY <3>5
    <2>2. CASE ~CheckRawDeviceGroup(g)
      <3> USE <2>2
      <3>1. gb <= LvmAllocatable(alloc, g) BY OneFits
      <3>2. LvmAllocatable(alloc, g) \in Nat BY DEF LvmAllocatable
      <3> QED BY <3>1, <3>2
    <2> QED BY <2>1, <2>2
  <1> HIDE DEF total
  <1>7. part \in Nat /\ part <= total /\ total \in Nat \ {0} BY <1>6, SMT
  <1> USE <1>7
  <1> HIDE DEF part
  <1>8. <<part, total>> \in Fractions /\ <<part, total>>[1] = part /\ <<part, total>>[2] = total
    BY DEF Fractions
  <1> QED BY <1>4, <1>8 DEF w

LEMMA TimesMonotone ==
  ASSUME NEW i \in Nat, NEW j \in Nat, NEW l \in Nat, i <= j
  PROVE  i * l <= j * l
  <1>1. PICK d \in Nat : j = i + d
    <2>1. j - i \in Nat /\ j = i + (j - i) BY SMT
    <2> QED BY <2>1
  <1>2. j * l = i * l + d * l /\ d * l \in Nat /\ i * l \in Nat BY <1>1, SMT
  <1> QED BY <1>2, SMT

LEMMA AddFractions ==
  ASSUME NEW a \in Fractions, NEW b \in Fractions
  PROVE  AddShare(a, b) \in Fractions
  <1> DEFINE a1 == a[1]  a2 == a[2]  b1 == b[1]  b2 == b[2]
  <1>1. a1 \in Nat /\ b1 \in Nat /\ a2 \in Nat \ {0} /\ b2 \in Nat \ {0} BY SMT DEF Fractions
  <1> HIDE DEF a1, a2, b1, b2
  <1>2. a1 * b2 + b1 * a2 \in Nat /\ a2 * b2 \in Nat \ {0} BY <1>1, SMT
  <1>3. AddShare(a, b) = <<a1 * b2 + b1 * a2, a2 * b2>> BY DEF AddShare, a1, a2, b1, b2
  <1> DEFINE x == a1 * b2 + b1 * a2  y == a2 * b2
  <1> HIDE DEF x, y
  <1>4. x \in Nat /\ y \in Nat \ {0} /\ AddShare(a, b) = <<x, y>> BY <1>2, <1>3 DEF x, y
  <1> QED BY <1>4, SMT DEF Fractions

\* A sum of m fractions is at most m, and one more is at most m + 1.
LEMMA AddBounded ==
  ASSUME NEW a \in Fractions, NEW b \in Fractions, NEW m \in Nat, a[1] <= m * a[2], b[1] <= b[2]
  PROVE  AddShare(a, b)[1] <= (m + 1) * AddShare(a, b)[2]
  <1> DEFINE a1 == a[1]  a2 == a[2]  b1 == b[1]  b2 == b[2]
  <1>1. /\ a1 \in Nat /\ b1 \in Nat /\ a2 \in Nat \ {0} /\ b2 \in Nat \ {0}
        /\ a1 <= m * a2 /\ b1 <= b2
    BY SMT DEF Fractions
  <1> USE <1>1
  <1>2. AddShare(a, b) = <<a1 * b2 + b1 * a2, a2 * b2>> BY DEF AddShare
  <1> HIDE DEF a1, a2, b1, b2
  <1>3. AddShare(a, b)[1] = a1 * b2 + b1 * a2 /\ AddShare(a, b)[2] = a2 * b2 BY <1>2, SMT
  <1>4. a1 * b2 <= (m * a2) * b2 BY TimesMonotone, SMT
  <1>5. b1 * a2 <= b2 * a2 BY TimesMonotone, SMT
  <1>6. (m * a2) * b2 + b2 * a2 = (m + 1) * (a2 * b2) BY SMT
  <1> DEFINE x == a1 * b2  y == b1 * a2  u == (m * a2) * b2  v == b2 * a2
  <1>7. x \in Nat /\ y \in Nat /\ u \in Nat /\ v \in Nat BY SMT
  <1>8. x <= u /\ y <= v BY <1>4, <1>5
  <1> HIDE DEF x, y, u, v
  <1>9. x + y <= u + v BY <1>7, <1>8, SMT
  <1> QED BY <1>3, <1>6, <1>9 DEF x, y, u, v

\* h has the sums of the shares of the groups in s.
Shares(alloc, map, S, h) ==
    h = [s \in SUBSET S |-> IF s = {} THEN <<0, 1>>
                            ELSE AddShare(h[s \ {Pick(s)}], Share(alloc, Pick(s), map[Pick(s)]))]

LEMMA ShareChosen ==
  ASSUME NEW p, NEW n
  PROVE  LET r == getPvcRequestMap(p)
             alloc == getAllocatableMap(n, r.raw)
             groups == Requested(r.map)
             sum == (CHOOSE h : Shares(alloc, r.map, groups, h))[groups]
         IN  Score(p, n) = CASE r.node = n -> MaxScore
                             [] r.node # n /\ groups = {} -> 5
                             [] OTHER -> (sum[1] * MaxScore) \div (sum[2] * Cardinality(groups))
  BY DEF Score, FoldSet, MapThenFoldSet, Shares, Pick

LEMMA SharesBounded ==
  ASSUME NEW alloc, NEW map, NEW S, IsFiniteSet(S),
         \A g \in S : Share(alloc, g, map[g]) \in Fractions /\
                      Share(alloc, g, map[g])[1] <= Share(alloc, g, map[g])[2]
  PROVE  LET sum == (CHOOSE h : Shares(alloc, map, S, h))[S]
         IN  sum \in Fractions /\ sum[1] <= Cardinality(S) * sum[2]
  <1> DEFINE b(g) == Share(alloc, g, map[g])
             F == [z \in S \X Fractions |-> AddShare(z[2], b(z[1]))]
             C == [s \in SUBSET S |-> Pick(s)]
             zero == <<0, 1>>
             c == CHOOSE h : Shares(alloc, map, S, h)
             good(s) == c[s] \in Fractions /\ c[s][1] <= Cardinality(s) * c[s][2]
             bad == {s \in SUBSET S : ~good(s)}
  <1>1. ASSUME NEW g \in S, NEW a \in Fractions
        PROVE  F[<<g, a>>] = AddShare(a, b(g)) /\ F[<<g, a>>] \in Fractions
    <2>1. <<g, a>> \in S \X Fractions OBVIOUS
    <2>2. F[<<g, a>>] = AddShare(a, b(g)) BY <2>1
    <2> QED BY <2>2, AddFractions
  <1>2. \A s \in SUBSET S : C[s] = Pick(s) OBVIOUS
  <1> USE <1>2
  <1>3. zero \in Fractions /\ zero[1] = 0 /\ zero[2] = 1 BY SMT DEF Fractions
  <1> USE <1>3
  <1>4. \E h : Shares(alloc, map, S, h)
    <2> HIDE DEF F, C, zero
    <2>1. Combines(F, S, Fractions) BY <1>1 DEF Combines
    <2>2. Chooses(C, S) BY PickIn DEF Chooses
    <2>3. Foldable(F, zero, C, S, Fractions) BY <2>1, <2>2 DEF Foldable
    <2>4. HasFold(F, zero, C, S, Fractions) BY <2>3, FoldExists
    <2>5. PICK h \in [SUBSET S -> Fractions] : FoldOf(F, zero, C, S, h) BY <2>4 DEF HasFold
    <2> USE <2>5
    <2>6. ASSUME NEW s \in SUBSET S
          PROVE  h[s] = IF s = {} THEN zero ELSE AddShare(h[s \ {Pick(s)}], b(Pick(s)))
      <3>1. CASE s = {} BY <3>1 DEF FoldOf
      <3>2. CASE s # {}
        <4> USE <3>2
        <4>1. Pick(s) \in S /\ h[s \ {Pick(s)}] \in Fractions BY PickIn
        <4>2. h[s] = F[<<Pick(s), h[s \ {Pick(s)}]>>] BY DEF FoldOf
        <4> QED BY <1>1, <4>1, <4>2
      <3> QED BY <3>1, <3>2
    <2> QED BY <2>6 DEF Shares, zero
  <1>5. Shares(alloc, map, S, c) BY <1>4
  <1> HIDE DEF c
  <1>6. \A s \in SUBSET S : c[s] = IF s = {} THEN zero ELSE AddShare(c[s \ {Pick(s)}], b(Pick(s)))
    BY <1>5 DEF Shares
  <1> USE <1>6
  <1> HIDE DEF zero
  <1>7. bad = {}
    <2> SUFFICES ASSUME bad # {} PROVE FALSE OBVIOUS
    <2>1. PICK s \in bad : \A x \in s : s \ {x} \notin bad BY LeastSet
    <2> USE <2>1
    <2>2. s \in SUBSET S /\ ~good(s) OBVIOUS
    <2> USE <2>2
    <2>3. CASE s = {}
      <3>1. c[s] = zero /\ Cardinality(s) = 0 BY <2>3, FS_EmptySet
      <3>2. 0 <= 0 * 1 BY SMT
      <3> QED BY <3>1, <3>2
    <2>4. CASE s # {}
      <3> USE <2>4
      <3> DEFINE x == Pick(s)
                 a == c[s \ {x}]
                 m == Cardinality(s \ {x})
      <3>1. x \in s /\ x \in S BY PickIn
      <3> USE <3>1
      <3>2. c[s] = AddShare(a, b(x)) OBVIOUS
      <3> HIDE DEF x
      <3>3. good(s \ {x}) OBVIOUS
      <3>4. a \in Fractions /\ a[1] <= m * a[2] BY <3>3
      <3>5. Cardinality(s) \in Nat \ {0} /\ m = Cardinality(s) - 1 BY Smaller
      <3> DEFINE k == Cardinality(s)
                 d == b(x)
      <3> HIDE DEF a, m, k
      <3>6. m \in Nat /\ m + 1 = k BY <3>5, SMT DEF k
      <3> USE <3>6
      <3>7. d \in Fractions /\ d[1] <= d[2] OBVIOUS
      <3> HIDE DEF d
      <3>8. AddShare(a, d) \in Fractions /\ AddShare(a, d)[1] <= (m + 1) * AddShare(a, d)[2]
        BY <3>4, <3>7, AddFractions, AddBounded
      <3>9. c[s] = AddShare(a, d) BY <3>2 DEF d
      <3>10. good(s) BY <3>8, <3>9 DEF k
      <3> QED BY <3>10
    <2> QED BY <2>3, <2>4
  <1>8. S \in SUBSET S OBVIOUS
  <1>9. good(S) BY <1>7, <1>8
  <1> QED BY <1>9 DEF c

LEMMA TenAtMost ==
  ASSUME NEW i \in Nat, NEW d \in Nat \ {0}, i <= d
  PROVE  (i * 10) \div d \in 0..10
  <1> DEFINE m == i * 10
             q == m \div d
  <1>1. m \in Nat /\ m <= 10 * d BY SMT
  <1> USE <1>1
  <1> HIDE DEF m
  <1>2. q \in Nat /\ d * q <= m BY Quotient
  <1> USE <1>2
  <1> HIDE DEF q
  <1>3. ASSUME q >= 11 PROVE FALSE
    <2>1. PICK e \in Nat : q = 11 + e
      <3>1. q - 11 \in Nat /\ q = 11 + (q - 11) BY <1>3, SMT
      <3> QED BY <3>1
    <2>2. d * q = 11 * d + d * e /\ d * e \in Nat BY <2>1, SMT
    <2> QED BY <2>2, SMT
  <1>4. q \in 0..10 BY <1>3, SMT
  <1> QED BY <1>4 DEF q, m

\* A node that passes gets a score in the range.
LEMMA ScoreRange ==
  ASSUME IInv, ReportsOK, NEW p \in Pods, Uncached(p), NEW n \in Nodes, Filter(p, n)
  PROVE  Score(p, n) \in 0..MaxScore
  <1> DEFINE r == getPvcRequestMap(p)
             alloc == getAllocatableMap(n, r.raw)
             S == Requested(r.map)
             sum == (CHOOSE h : Shares(alloc, r.map, S, h))[S]
             q == (sum[1] * MaxScore) \div (sum[2] * Cardinality(S))
  <1>1. Score(p, n) = CASE r.node = n -> MaxScore [] r.node # n /\ S = {} -> 5 [] OTHER -> q
    BY ShareChosen
  <1>2. Collected(r, Range(ClaimsOf[p])) /\ ~r.err BY PodRequests DEF Filter
  <1>3. S = {} \/ \A g \in S : GroupFits(alloc, g, r.map[g]) BY DEF Filter
  <1> HIDE DEF r
  <1>4. /\ Counted(p) \in SUBSET Claims /\ S \in SUBSET DOMAIN Policy
        /\ \A g \in S : \E c \in Counted(p), e \in BOOLEAN : WantGroup(c) = g /\ r.map[g] = <<Wish(c, e)>>
    BY <1>2, SameView
  <1>5. \A k \in DOMAIN alloc : alloc[k] \in Nat /\ k \in KeysOf(n) BY AllocOK
  <1>6. IsFiniteSet(DOMAIN alloc)
    <2>1. DOMAIN alloc \subseteq KeysOf(n) BY <1>5
    <2> QED BY <2>1, KeysFinite, FS_Subset
  <1>7. IsFiniteSet(S) BY <1>4, ConfigAssumption, FS_Subset
  <1> HIDE DEF alloc, S
  <1>8. CASE S = {}
    <2>1. Score(p, n) \in {MaxScore, 5} BY <1>1, <1>8, SMT
    <2> QED BY <2>1, SMT DEF MaxScore
  <1>9. CASE S # {}
    <2>1. ASSUME NEW g \in S
          PROVE  Share(alloc, g, r.map[g]) \in Fractions
                 /\ Share(alloc, g, r.map[g])[1] <= Share(alloc, g, r.map[g])[2]
      <3>1. PICK c \in Counted(p), e \in BOOLEAN : r.map[g] = <<Wish(c, e)>> BY <1>4, <2>1
      <3>2. c \in Claims /\ GroupFits(alloc, g, <<Wish(c, e)>>) BY <1>3, <1>4, <1>9, <3>1
      <3> QED BY <1>5, <1>6, <3>1, <3>2, ShareOK
    <2>2. sum \in Fractions /\ sum[1] <= Cardinality(S) * sum[2] BY <1>7, <2>1, SharesBounded
    <2>3. Cardinality(S) \in Nat /\ Cardinality(S) # 0 BY <1>7, <1>9, FS_CardinalityType, FS_EmptySet
    <2> DEFINE i == sum[1]
               d == sum[2]
               m == Cardinality(S)
    <2>4. i \in Nat /\ d \in Nat \ {0} BY <2>2, SMT DEF Fractions
    <2>5. q = (i * 10) \div (d * m) BY DEF MaxScore
    <2>6. i <= m * d BY <2>2
    <2>7. m \in Nat \ {0} BY <2>3
    <2> HIDE DEF i, d, m, q
    <2>8. d * m \in Nat \ {0} /\ i <= d * m BY <2>4, <2>6, <2>7, SMT
    <2>9. q \in 0..10 BY <2>4, <2>5, <2>8, TenAtMost
    <2>10. Score(p, n) \in {MaxScore, q} BY <1>1, <1>9, SMT
    <2> QED BY <2>9, <2>10, SMT DEF MaxScore
  <1> QED BY <1>8, <1>9

-----------------------------------------------------------------------------
(* What a step leaves alone                                                *)

LEMMA LvFields ==
  ASSUME Types, NEW x \in Names
  PROVE  /\ lv[x] \in Lvs /\ lv[x].node \in Somewhere /\ lv[x].key \in Keys
         /\ lv[x].gb \in Nat /\ lv[x].cur \in Nat /\ lv[x].at \in Nat
         /\ lv[x].excl \in BOOLEAN /\ lv[x].owned \in BOOLEAN
         /\ lv[x].code \in {"none", "OK", "exhausted", "internal"}
  BY DEF Types, Lvs

LEMMA ClaimFields ==
  ASSUME Types, NEW c \in Claims
  PROVE  /\ claim[c].phase \in {"none", "pending", "bound"} /\ claim[c].sel \in Somewhere
         /\ call[c].at \in {"idle", "data", "cache"} /\ call[c].node \in Somewhere /\ call[c].key \in Keys
  BY DEF Types

LEMMA ObjectFrame ==
  ASSUME NEW x \in Names, ObjectOK(x), lv'[x] = lv[x]
  PROVE  ObjectOK(x)'
  BY DEF ObjectOK

LEMMA ClaimFrame ==
  ASSUME NEW c \in Claims, ClaimOK(c), claim'[c] = claim[c], call'[c] = call[c], pv'[c] = pv[c],
         Data(c)' = Data(c), Cache(c)' = Cache(c), c \in adopted' <=> c \in adopted
  PROVE  ClaimOK(c)'
  <1>1. CallOK(c)' BY DEF ClaimOK, CallOK
  <1>2. BoundOK(c)' BY DEF ClaimOK, BoundOK
  <1>3. NodeOK(c)' BY DEF ClaimOK, NodeOK
  <1> QED BY <1>1, <1>2, <1>3 DEF ClaimOK

LEMMA AllFrame ==
  ASSUME ObjectsOK, ClaimsOK, UNCHANGED <<claim, call, lv, pv, adopted>>
  PROVE  ObjectsOK' /\ ClaimsOK'
  <1>1. ObjectsOK' BY ObjectFrame DEF ObjectsOK
  <1>2. ASSUME NEW c \in Claims PROVE ClaimOK(c)'
    <2>1. ClaimOK(c) BY DEF ClaimsOK
    <2>2. Data(c)' = Data(c) /\ Cache(c)' = Cache(c) BY DEF Data, Cache
    <2> QED BY <2>1, <2>2, ClaimFrame
  <1> QED BY <1>1, <1>2 DEF ClaimsOK

\* One object changes.
LEMMA OneObject ==
  ASSUME Types, NEW x \in Names, NEW r \in Lvs, lv' = [lv EXCEPT ![x] = r]
  PROVE  /\ lv' \in [Names -> Lvs] /\ lv'[x] = r
         /\ \A y \in Names : y # x => lv'[y] = lv[y]
  BY DEF Types

LEMMA OneObjectOK ==
  ASSUME IInv, NEW x \in Names, NEW r \in Lvs, lv' = [lv EXCEPT ![x] = r], ObjectOK(x)'
  PROVE  ObjectsOK'
  <1>1. \A y \in Names : y # x => lv'[y] = lv[y] BY OneObject DEF IInv
  <1>2. ASSUME NEW y \in Names PROVE ObjectOK(y)'
    <2>1. CASE y = x BY <2>1
    <2>2. CASE y # x
      <3>1. ObjectOK(y) BY DEF IInv, ObjectsOK
      <3> QED BY <1>1, <2>2, <3>1, ObjectFrame
    <2> QED BY <2>1, <2>2
  <1> QED BY <1>2 DEF ObjectsOK

\* The objects of another claim.
LEMMA OtherHalves ==
  ASSUME NEW c \in Claims, NEW x \in Names, x[1] # c, \A y \in Names : y # x => lv'[y] = lv[y]
  PROVE  Data(c)' = Data(c) /\ Cache(c)' = Cache(c)
  <1>1. <<c, "data">> \in Names /\ <<c, "cache">> \in Names BY NamesOfClaim
  <1>2. x # <<c, "data">> /\ x # <<c, "cache">> BY SMT
  <1> QED BY <1>1, <1>2 DEF Data, Cache

\* The two objects of a claim, as the invariant has them.
LEMMA HalvesOK ==
  ASSUME IInv, NEW c \in Claims
  PROVE  /\ Data(c) \in Lvs /\ Cache(c) \in Lvs /\ Data(c).cur \in Nat /\ Cache(c).cur \in Nat
         /\ Data(c).cur > 0 => Data(c).code = "OK" /\ Data(c).node \in Nodes
         /\ Data(c).code = "none" => Data(c) = NoLv
         /\ Data(c).owned = FALSE
         /\ Cache(c).cur > 0 => Cache(c).code = "OK" /\ Cache(c).node \in Nodes
         /\ Cache(c).code = "none" => Cache(c) = NoLv
         /\ Cache(c).code # "none" => Cached(c) /\ Cache(c).node \in Nodes
  <1> DEFINE x == <<c, "data">>
             y == <<c, "cache">>
  <1>1. x \in Names /\ y \in Names /\ x[1] = c /\ y[1] = c /\ x[2] = "data" /\ y[2] = "cache"
    BY NamesOfClaim, SMT
  <1> USE <1>1
  <1>2. Data(c) = lv[x] /\ Cache(c) = lv[y] BY DEF Data, Cache
  <1>3. ObjectOK(x) /\ ObjectOK(y) BY DEF IInv, ObjectsOK
  <1> USE <1>3
  <1>4. lv[x] \in Lvs /\ lv[y] \in Lvs /\ lv[x].cur \in Nat /\ lv[y].cur \in Nat /\ lv[x].owned \in BOOLEAN
    BY LvFields DEF IInv
  <1> USE <1>4
  <1> HIDE DEF x, y
  <1>5. lv[x].owned = FALSE BY DEF ObjectOK
  <1> QED BY <1>2, <1>5 DEF ObjectOK

\* An object that the node works on, or whose size changes.
Growth(x, r) ==
    /\ r \in Lvs /\ lv' = [lv EXCEPT ![x] = r]
    /\ lv[x].code # "none" /\ r.code # "none"
    /\ r.node = lv[x].node /\ r.key = lv[x].key /\ r.excl = lv[x].excl /\ r.owned = lv[x].owned
    /\ lv[x].cur <= r.cur /\ r.cur <= r.gb
    /\ r.cur > 0 => r.code = "OK" /\ r.node \in Nodes

LEMMA Grown ==
  ASSUME IInv, NEW x \in Names, NEW r, Growth(x, r), UNCHANGED <<claim, call, pv, adopted>>
  PROVE  lv' \in [Names -> Lvs] /\ ObjectsOK' /\ ClaimsOK'
  <1>1. Types /\ ObjectOK(x) /\ r \in Lvs /\ lv' = [lv EXCEPT ![x] = r] BY DEF IInv, ObjectsOK, Growth
  <1> USE <1>1
  <1>2. lv' \in [Names -> Lvs] /\ lv'[x] = r /\ \A y \in Names : y # x => lv'[y] = lv[y]
    BY OneObject
  <1> USE <1>2
  <1>3. ObjectOK(x)'
    <2> DEFINE o == lv[x]
    <2>1. /\ r.cur <= r.gb /\ (r.cur > 0 => r.code = "OK" /\ r.node \in Nodes) /\ r.code # "none"
          /\ r.owned = o.owned /\ r.excl = o.excl /\ r.key = o.key /\ r.node = o.node /\ o.code # "none"
      BY DEF Growth
    <2> QED BY <2>1 DEF ObjectOK
  <1>4. ObjectsOK' BY <1>3, OneObjectOK
  <1>5. \A y \in Names : /\ lv'[y].node = lv[y].node /\ lv'[y].key = lv[y].key
                         /\ (lv'[y].code # "none" <=> lv[y].code # "none")
                         /\ (lv[y].cur > 0 => lv'[y].cur > 0)
    <2> SUFFICES ASSUME NEW y \in Names
                 PROVE  /\ lv'[y].node = lv[y].node /\ lv'[y].key = lv[y].key
                        /\ (lv'[y].code # "none" <=> lv[y].code # "none")
                        /\ (lv[y].cur > 0 => lv'[y].cur > 0)
      OBVIOUS
    <2>1. CASE y # x BY <2>1
    <2>2. CASE y = x
      <3>1. lv[x].cur \in Nat /\ r.cur \in Nat BY LvFields DEF Lvs
      <3>2. lv[x].cur <= r.cur BY DEF Growth
      <3>3. lv[x].cur > 0 => r.cur > 0 BY <3>1, <3>2, SMT
      <3> QED BY <2>2, <3>3 DEF Growth
    <2> QED BY <2>1, <2>2
  <1>6. ASSUME NEW c \in Claims PROVE ClaimOK(c)'
    <2>1. <<c, "data">> \in Names /\ <<c, "cache">> \in Names BY NamesOfClaim
    <2>2. /\ Data(c)'.node = Data(c).node /\ Data(c)'.key = Data(c).key
          /\ (Data(c)'.code # "none" <=> Data(c).code # "none") /\ (Data(c).cur > 0 => Data(c)'.cur > 0)
          /\ Cache(c)'.node = Cache(c).node
          /\ (Cache(c)'.code # "none" <=> Cache(c).code # "none") /\ (Cache(c).cur > 0 => Cache(c)'.cur > 0)
      BY <1>5, <2>1 DEF Data, Cache
    <2> USE <2>2
    <2>3. At(Data(c))' = At(Data(c)) BY DEF At
    <2> USE <2>3
    <2>4. ClaimOK(c) BY DEF IInv, ClaimsOK
    <2> USE <2>4
    <2>5. CallOK(c)' BY DEF ClaimOK, CallOK
    <2>6. BoundOK(c)' BY DEF ClaimOK, BoundOK
    <2>7. NodeOK(c)' BY DEF ClaimOK, NodeOK
    <2> QED BY <2>5, <2>6, <2>7 DEF ClaimOK
  <1> QED BY <1>4, <1>6 DEF ClaimsOK

-----------------------------------------------------------------------------
(* The node                                                                *)

LEMMA LeastStart ==
  ASSUME NEW T \in SUBSET Nat, T # {}
  PROVE  Min(T) \in T
  BY Least DEF Min

LEMMA StartFound ==
  ASSUME NEW n \in Nodes, NEW k \in DOMAIN DiskSize[n], NEW gb \in Nat, Starts(n, k, gb) # {}
  PROVE  Min(Starts(n, k, gb)) \in Starts(n, k, gb) /\ Min(Starts(n, k, gb)) \in Nat
  <1>1. DiskSize[n][k] \in Nat BY ConfigAssumption
  <1>2. 1..DiskSize[n][k] \subseteq Nat BY <1>1, SMT
  <1>3. Starts(n, k, gb) \subseteq 1..DiskSize[n][k] BY DEF Starts
  <1> QED BY <1>2, <1>3, LeastStart

\* What createLV makes of an object.
LEMMA CreateGrowth ==
  ASSUME IInv, NEW x \in Names, createLV(x)
  PROVE  \E r : Growth(x, r)
  <1> DEFINE o == lv[x]
  <1>1. /\ Types /\ ObjectOK(x) /\ o \in Lvs /\ o.gb \in Nat /\ o.cur = 0 /\ o.code = "OK" /\ o.node \in Nodes
    BY LvFields DEF IInv, ObjectsOK, createLV
  <1> USE <1>1
  <1>2. CASE /\ o.key \in DOMAIN DiskSize[o.node] /\ Starts(o.node, o.key, o.gb) # {}
             /\ lv' = [lv EXCEPT ![x].cur = o.gb, ![x].at = Min(Starts(o.node, o.key, o.gb))]
    <2> USE <1>2
    <2> DEFINE m == Min(Starts(o.node, o.key, o.gb))
               r == [o EXCEPT !.cur = o.gb, !.at = m]
    <2>1. m \in Nat BY StartFound
    <2>2. lv' = [lv EXCEPT ![x] = r] OBVIOUS
    <2> HIDE DEF m
    <2>3. r \in Lvs BY <2>1 DEF Lvs
    <2>4. /\ r.code = "OK" /\ r.node = o.node /\ r.key = o.key /\ r.excl = o.excl /\ r.owned = o.owned
          /\ r.cur = o.gb /\ r.gb = o.gb
      BY DEF Lvs
    <2> USE <2>4
    <2> HIDE DEF r, o
    <2>5. o.cur <= r.cur /\ r.cur <= r.gb BY SMT
    <2>6. Growth(x, r) BY <2>2, <2>3, <2>5 DEF Growth, o
    <2> QED BY <2>6
  <1>3. CASE lv' = [lv EXCEPT ![x].cur = o.gb]
    <2> DEFINE r == [o EXCEPT !.cur = o.gb]
    <2>2. lv' = [lv EXCEPT ![x] = r] BY <1>3
    <2>3. r \in Lvs BY DEF Lvs
    <2>4. /\ r.code = "OK" /\ r.node = o.node /\ r.key = o.key /\ r.excl = o.excl /\ r.owned = o.owned
          /\ r.cur = o.gb /\ r.gb = o.gb
      BY DEF Lvs
    <2> USE <2>4
    <2> HIDE DEF r, o
    <2>5. o.cur <= r.cur /\ r.cur <= r.gb BY SMT
    <2>6. Growth(x, r) BY <2>2, <2>3, <2>5 DEF Growth, o
    <2> QED BY <2>6
  <1>4. ASSUME NEW code \in {"exhausted", "internal"}, lv' = [lv EXCEPT ![x].code = code]
        PROVE  \E r : Growth(x, r)
    <2> DEFINE r == [o EXCEPT !.code = code]
    <2>2. lv' = [lv EXCEPT ![x] = r] BY <1>4
    <2>3. r \in Lvs BY DEF Lvs
    <2>4. /\ r.code = code /\ r.node = o.node /\ r.key = o.key /\ r.excl = o.excl /\ r.owned = o.owned
          /\ r.cur = 0 /\ r.gb = o.gb
      BY DEF Lvs
    <2> USE <2>4
    <2> HIDE DEF r, o
    <2>5. o.cur <= r.cur /\ r.cur <= r.gb /\ ~(r.cur > 0) /\ r.code # "none" BY SMT
    <2>6. Growth(x, r) BY <2>2, <2>3, <2>5 DEF Growth, o
    <2> QED BY <2>6
  <1>5. ASSUME NEW n, NEW g, NEW gb, LvmOutcome(n, g, gb) # "ok"
        PROVE  LvmOutcome(n, g, gb) \in {"exhausted", "internal"}
    BY <1>5 DEF LvmOutcome
  <1> DEFINE res == LvmOutcome(o.node, o.key[1], o.gb)
  <1>6. CASE lv' = IF res = "ok" THEN [lv EXCEPT ![x].cur = o.gb] ELSE [lv EXCEPT ![x].code = res]
    <2> USE <1>6
    <2>1. CASE res = "ok" BY <1>3, <2>1
    <2>2. CASE res # "ok"
      <3> USE <2>2
      <3>1. res \in {"exhausted", "internal"} BY <1>5
      <3>2. lv' = [lv EXCEPT ![x].code = res] OBVIOUS
      <3> HIDE DEF res
      <3> QED BY <1>4, <3>1, <3>2
    <2> QED BY <2>1, <2>2
  <1> QED BY <1>2, <1>3, <1>6 DEF createLV

\* A size that is set while the volume exists.
LEMMA SizeGrowth ==
  ASSUME IInv, NEW x \in Names, lv[x].cur > 0, NEW gb \in Nat, lv[x].cur <= gb,
         \/ lv' = [lv EXCEPT ![x].cur = lv[x].gb]
         \/ lv' = [lv EXCEPT ![x].gb = gb]
         \/ lv' = [lv EXCEPT ![x].gb = gb, ![x].cur = gb]
  PROVE  \E r : Growth(x, r)
  <1> DEFINE o == lv[x]
  <1>1. /\ Types /\ ObjectOK(x) /\ o \in Lvs /\ o.gb \in Nat /\ o.cur \in Nat
    BY LvFields DEF IInv, ObjectsOK
  <1> USE <1>1
  <1>2. o.code = "OK" /\ o.node \in Nodes /\ o.cur <= o.gb BY DEF ObjectOK
  <1> USE <1>2
  <1>3. ASSUME NEW r, \/ r = [o EXCEPT !.cur = o.gb]
                      \/ r = [o EXCEPT !.gb = gb]
                      \/ r = [o EXCEPT !.gb = gb, !.cur = gb],
               lv' = [lv EXCEPT ![x] = r]
        PROVE  Growth(x, r)
    <2> USE <1>3
    <2>1. r \in Lvs BY DEF Lvs
    <2>2. /\ r.code = o.code /\ r.node = o.node /\ r.key = o.key /\ r.excl = o.excl /\ r.owned = o.owned
          /\ \/ r.cur = o.gb /\ r.gb = o.gb
             \/ r.cur = o.cur /\ r.gb = gb
             \/ r.cur = gb /\ r.gb = gb
      BY DEF Lvs
    <2> USE <2>2
    <2> HIDE DEF o
    <2>3. o.cur <= gb BY SMT DEF o
    <2>4. o.cur <= r.cur /\ r.cur <= r.gb BY <2>3, SMT
    <2> QED BY <2>1, <2>4 DEF Growth, o
  <1>4. CASE lv' = [lv EXCEPT ![x].cur = o.gb]
    <2>1. lv' = [lv EXCEPT ![x] = [o EXCEPT !.cur = o.gb]] BY <1>4
    <2> QED BY <1>3, <2>1
  <1>5. CASE lv' = [lv EXCEPT ![x].gb = gb]
    <2>1. lv' = [lv EXCEPT ![x] = [o EXCEPT !.gb = gb]] BY <1>5
    <2> QED BY <1>3, <2>1
  <1>6. CASE lv' = [lv EXCEPT ![x].gb = gb, ![x].cur = gb]
    <2>1. lv' = [lv EXCEPT ![x] = [o EXCEPT !.gb = gb, !.cur = gb]] BY <1>6
    <2> QED BY <1>3, <2>1
  <1> QED BY <1>4, <1>5, <1>6

\* The variables that only have a type.
RestTyped ==
    /\ due \subseteq Nodes /\ late \subseteq Names /\ ready \subseteq Nodes
    /\ adopted \subseteq Claims /\ wrapped \subseteq Claims /\ changes \in 0..MaxChanges

LEMMA GrowthKept ==
  ASSUME IInv, NEW x \in Names, \E r : Growth(x, r), RestTyped',
         UNCHANGED <<claim, call, pv, adopted, report>>
  PROVE  IInv'
  <1>1. lv' \in [Names -> Lvs] /\ ObjectsOK' /\ ClaimsOK' BY Grown
  <1> QED BY <1>1 DEF IInv, Types, RestTyped

LEMMA RestKept ==
  ASSUME IInv
  PROVE  RestTyped
  BY DEF IInv, Types, RestTyped

LEMMA NodeWorkKept ==
  ASSUME IInv, NEW x \in Names, createLV(x) \/ expandLV(x)
  PROVE  IInv'
  <1>1. ObjectOK(x) /\ lv[x].gb \in Nat /\ lv[x].cur \in Nat BY LvFields DEF IInv, ObjectsOK
  <1> USE <1>1
  <1>2. CASE createLV(x)
    <2> USE <1>2
    <2>1. RestTyped' BY RestKept DEF createLV, RestTyped, history
    <2>2. UNCHANGED <<claim, call, pv, adopted, report>> BY DEF createLV, history
    <2> QED BY <2>1, <2>2, CreateGrowth, GrowthKept
  <1>3. CASE expandLV(x)
    <2> USE <1>3
    <2>1. lv[x].cur > 0 /\ lv[x].cur < lv[x].gb /\ lv' = [lv EXCEPT ![x].cur = lv[x].gb]
      BY DEF expandLV
    <2> USE <2>1
    <2>2. lv[x].node \in Nodes BY DEF ObjectOK
    <2>3. lv[x].cur <= lv[x].gb BY SMT
    <2>4. RestTyped' BY <2>2, RestKept DEF expandLV, RestTyped, history
    <2>5. UNCHANGED <<claim, call, pv, adopted, report>> BY DEF expandLV, history
    <2>6. \E r : Growth(x, r) BY <2>3, SizeGrowth
    <2> QED BY <2>4, <2>5, <2>6, GrowthKept
  <1> QED BY <1>2, <1>3

LEMMA MaxChangesNat == MaxChanges \in Nat
  BY PlacementAssumption

LEMMA OneMore ==
  ASSUME IInv, changes < MaxChanges, changes' = changes + 1
  PROVE  changes' \in 0..MaxChanges
  <1>1. changes \in 0..MaxChanges BY DEF IInv, Types
  <1> QED BY <1>1, MaxChangesNat, SMT

LEMMA ExpansionKept ==
  ASSUME IInv, NEW c \in Claims, ControllerExpandVolume(c) \/ ExpandCache(c)
  PROVE  IInv'
  <1>0. ClaimOK(c) /\ <<c, "data">> \in Names /\ <<c, "cache">> \in Names
    BY NamesOfClaim DEF IInv, ClaimsOK
  <1> USE <1>0
  <1>1. CASE ControllerExpandVolume(c)
    <2> USE <1>1
    <2> DEFINE x == <<c, "data">>
               new == lv[x].cur + 1
    <2>1. /\ claim[c].phase = "bound"
          /\ \/ lv' = [lv EXCEPT ![x].gb = new]
             \/ lv' = [lv EXCEPT ![x].gb = new, ![x].cur = new]
      BY DEF ControllerExpandVolume
    <2> USE <2>1
    <2>2. lv[x].cur > 0 BY DEF ClaimOK, BoundOK, Data
    <2>3. lv[x].cur \in Nat BY LvFields DEF IInv
    <2>4. new \in Nat /\ lv[x].cur <= new BY <2>3, SMT
    <2>5. changes' \in 0..MaxChanges BY OneMore DEF ControllerExpandVolume
    <2>6. RestTyped' BY <2>5, RestKept DEF ControllerExpandVolume, RestTyped, history
    <2>7. UNCHANGED <<claim, call, pv, adopted, report>> BY DEF ControllerExpandVolume, history
    <2> HIDE DEF new
    <2>8. \E r : Growth(x, r) BY <2>2, <2>4, SizeGrowth
    <2> QED BY <2>6, <2>7, <2>8, GrowthKept
  <1>2. CASE ExpandCache(c)
    <2> USE <1>2
    <2> DEFINE x == <<c, "cache">>
               gb == CacheGb(c, lv[<<c, "data">>].cur)
    <2>1. lv[x].cur > 0 /\ lv[x].gb < gb /\ lv' = [lv EXCEPT ![x].gb = gb] BY DEF ExpandCache
    <2> USE <2>1
    <2>2. /\ lv[x].cur \in Nat /\ lv[x].gb \in Nat /\ lv[<<c, "data">>].cur \in Nat
          /\ lv[x].cur <= lv[x].gb
      BY LvFields DEF IInv, ObjectsOK, ObjectOK
    <2> USE <2>2
    <2>3. gb \in Nat BY CacheGbNat
    <2> USE <2>3
    <2> HIDE DEF gb
    <2>4. lv[x].cur <= gb BY SMT
    <2>5. RestTyped' BY RestKept DEF ExpandCache, RestTyped, history
    <2>6. UNCHANGED <<claim, call, pv, adopted, report>> BY DEF ExpandCache, history
    <2>7. \E r : Growth(x, r) BY <2>4, SizeGrowth
    <2> QED BY <2>5, <2>6, <2>7, GrowthKept
  <1> QED BY <1>1, <1>2

-----------------------------------------------------------------------------
(* Reports, the scheduler and the end of a call                            *)

LEMMA StatusKeys ==
  ASSUME NEW n \in Nodes
  PROVE  DOMAIN generateStatus(n).alloc \subseteq KeysOf(n)
  <1> DEFINE lvm == generateLvmStatus(n)
             raw == generateDiskStatus(n)
  <1>1. DOMAIN lvm \subseteq KeysOf(n) BY DEF generateLvmStatus, KeysOf
  <1>2. DOMAIN raw \subseteq KeysOf(n) BY DEF generateDiskStatus, KeysOf
  <1>3. DOMAIN generateStatus(n).alloc = DOMAIN lvm \cup DOMAIN raw BY DEF generateStatus
  <1> QED BY <1>1, <1>2, <1>3

LEMMA ReportKept ==
  ASSUME IInv, NEW n \in Nodes, Report(n)
  PROVE  IInv'
  <1>1. DOMAIN report = Nodes /\ report' = [report EXCEPT ![n] = generateStatus(n)]
    BY DEF IInv, Types, Report
  <1>2. /\ DOMAIN report' = Nodes /\ report'[n] = generateStatus(n)
        /\ \A m \in Nodes : m # n => report'[m] = report[m]
    BY <1>1
  <1> USE <1>2
  <1>3. \A m \in Nodes : DOMAIN report'[m].alloc \subseteq KeysOf(m)
    BY StatusKeys DEF IInv, Types
  <1>4. RestTyped' BY RestKept DEF Report, RestTyped, history
  <1>5. UNCHANGED <<claim, call, lv, pv, adopted>> BY DEF Report, history
  <1> USE <1>5
  <1>6. ObjectsOK' /\ ClaimsOK' BY AllFrame DEF IInv
  <1> QED BY <1>3, <1>4, <1>6 DEF IInv, Types, RestTyped

LEMMA SyncKept ==
  ASSUME IInv, NEW x \in Names, Sync(x)
  PROVE  IInv'
  <1>1. RestTyped' BY RestKept DEF Sync, RestTyped, history
  <1>2. UNCHANGED <<claim, call, lv, pv, adopted, report>> BY DEF Sync, history
  <1> USE <1>2
  <1>3. ObjectsOK' /\ ClaimsOK' BY AllFrame DEF IInv
  <1> QED BY <1>1, <1>3 DEF IInv, Types, RestTyped

\* Only a claim without a node gets one, and such a claim has no object that an
\* ordinary call made.
LEMMA ScheduleKept ==
  ASSUME IInv, NEW p \in Pods, Schedule(p)
  PROVE  IInv'
  <1>1. PICK n \in Nodes :
          /\ \A c \in Range(ClaimsOf[p]) : Open(c) => claim[c].sel \in {NoNode, n}
          /\ claim' = [c \in Claims |->
                IF c \in Range(ClaimsOf[p]) /\ Open(c) THEN [claim[c] EXCEPT !.sel = n] ELSE claim[c]]
    BY DEF Schedule
  <1> USE <1>1
  <1>2. UNCHANGED <<due, call, lv, pv, report, late, ready, adopted, wrapped, changes>>
    BY DEF Schedule, history
  <1> USE <1>2
  <1>3. RestTyped' BY RestKept DEF RestTyped
  <1>4. \A c \in Claims : claim'[c] = claim[c] \/ (Open(c) /\ claim[c].sel \in {NoNode, n}
                                                    /\ claim'[c] = [claim[c] EXCEPT !.sel = n])
    OBVIOUS
  <1> USE <1>4
  <1>5. claim' \in [Claims -> [phase : {"none", "pending", "bound"}, sel : Somewhere]]
    <2>1. \A c \in Claims : claim[c] \in [phase : {"none", "pending", "bound"}, sel : Somewhere]
      BY DEF IInv, Types
    <2>2. n \in Somewhere BY DEF Somewhere
    <2>3. \A c \in Claims : claim'[c] \in [phase : {"none", "pending", "bound"}, sel : Somewhere]
      BY <2>1, <2>2
    <2> QED BY <2>3
  <1>6. ObjectsOK'
    BY ObjectFrame DEF ObjectsOK, IInv
  <1>7. ASSUME NEW c \in Claims PROVE ClaimOK(c)'
    <2>0. ClaimOK(c) /\ Data(c)' = Data(c) /\ Cache(c)' = Cache(c)
      BY DEF IInv, ClaimsOK, Data, Cache
    <2> USE <2>0
    <2>1. CASE claim'[c] = claim[c] BY <2>1, ClaimFrame
    <2>2. CASE Open(c) /\ claim[c].sel \in {NoNode, n} /\ claim'[c] = [claim[c] EXCEPT !.sel = n]
      <3> USE <2>2
      <3>1. claim[c] \in [phase : {"none", "pending", "bound"}, sel : Somewhere] BY DEF IInv, Types
      <3>2. claim'[c].phase = claim[c].phase /\ claim'[c].sel = n BY <3>1
      <3> USE <3>2
      <3>3. c \notin Immediate /\ claim[c].phase = "pending" BY DEF Open
      <3> USE <3>3
      <3>4. CallOK(c)' BY DEF ClaimOK, CallOK
      <3>5. BoundOK(c)' BY DEF ClaimOK, BoundOK
      <3>6. Ordinary(c) /\ Data(c).code # "none" => claim[c].sel = n
        BY NodesNamed DEF ClaimOK, NodeOK
      <3>7. NodeOK(c)' BY <3>6 DEF ClaimOK, NodeOK
      <3> QED BY <3>4, <3>5, <3>7 DEF ClaimOK
    <2> QED BY <2>1, <2>2
  <1> QED BY <1>3, <1>5, <1>6, <1>7 DEF IInv, Types, RestTyped, ClaimsOK

LEMMA IdleTyped == Idle \in [at : {"idle", "data", "cache"}, node : Somewhere, key : Keys] /\ Idle.at = "idle"
  <1>1. NoKey \in Keys BY NoneTyped
  <1>2. NoNode \in Somewhere BY DEF Somewhere
  <1> QED BY <1>1, <1>2 DEF Idle

\* The call of a claim ends.
LEMMA CallEnds ==
  ASSUME IInv, NEW c \in Claims, call' = [call EXCEPT ![c] = Idle]
  PROVE  /\ call' \in [Claims -> [at : {"idle", "data", "cache"}, node : Somewhere, key : Keys]]
         /\ call'[c] = Idle /\ \A d \in Claims : d # c => call'[d] = call[d]
         /\ CallOK(c)'
  <1>1. /\ call' \in [Claims -> [at : {"idle", "data", "cache"}, node : Somewhere, key : Keys]]
        /\ call'[c] = Idle /\ \A d \in Claims : d # c => call'[d] = call[d]
    BY IdleTyped DEF IInv, Types
  <1> QED BY <1>1, IdleTyped DEF CallOK

LEMMA TimeoutKept ==
  ASSUME IInv, NEW c \in Claims, Timeout(c)
  PROVE  IInv'
  <1>1. UNCHANGED <<due, claim, lv, pv, report, late, ready, adopted, wrapped, changes>>
    BY DEF Timeout, history
  <1> USE <1>1
  <1>2. /\ call' \in [Claims -> [at : {"idle", "data", "cache"}, node : Somewhere, key : Keys]]
        /\ call'[c] = Idle /\ (\A d \in Claims : d # c => call'[d] = call[d]) /\ CallOK(c)'
    BY CallEnds DEF Timeout
  <1> USE <1>2
  <1>3. ObjectsOK' BY ObjectFrame DEF ObjectsOK, IInv
  <1>4. ASSUME NEW d \in Claims PROVE ClaimOK(d)'
    <2>0. ClaimOK(d) /\ Data(d)' = Data(d) /\ Cache(d)' = Cache(d)
      BY DEF IInv, ClaimsOK, Data, Cache
    <2> USE <2>0
    <2>1. CASE d # c BY <2>1, ClaimFrame
    <2>2. CASE d = c
      <3> USE <2>2
      <3>1. BoundOK(c)' BY DEF ClaimOK, BoundOK
      <3>2. NodeOK(c)' BY DEF ClaimOK, NodeOK
      <3> QED BY <3>1, <3>2 DEF ClaimOK
    <2> QED BY <2>1, <2>2
  <1>5. RestTyped' BY RestKept DEF RestTyped
  <1> QED BY <1>3, <1>4, <1>5 DEF IInv, Types, RestTyped, ClaimsOK

\* The object that a call waits for.
LEMMA AwaitedHalf ==
  ASSUME IInv, NEW c \in Claims, Waiting(c)
  PROVE  \/ call[c].at = "data" /\ Awaited(c) = Data(c)
         \/ call[c].at = "cache" /\ Awaited(c) = Cache(c) /\ Cached(c)
  <1>1. call[c].at \in {"data", "cache"} BY ClaimFields DEF Waiting, IInv
  <1>2. CallOK(c) BY DEF IInv, ClaimsOK, ClaimOK
  <1> QED BY <1>1, <1>2 DEF Awaited, Data, Cache, CallOK

LEMMA ProvisionedKept ==
  ASSUME IInv, NEW c \in Claims, Provisioned(c)
  PROVE  IInv'
  <1>1. UNCHANGED <<due, lv, report, late, ready, adopted, wrapped, changes>>
    BY DEF Provisioned, history
  <1> USE <1>1
  <1>2. /\ call' \in [Claims -> [at : {"idle", "data", "cache"}, node : Somewhere, key : Keys]]
        /\ call'[c] = Idle /\ (\A d \in Claims : d # c => call'[d] = call[d]) /\ CallOK(c)'
    BY CallEnds DEF Provisioned
  <1> DEFINE spot == Place(call[c].node, call[c].key)
  <1>3. spot \in Spots
    BY ClaimFields, PlaceTyped DEF IInv
  <1>4. /\ pv' \in [Claims -> Spots] /\ pv'[c] = spot /\ (\A d \in Claims : d # c => pv'[d] = pv[d])
    BY <1>3 DEF Provisioned, IInv, Types
  <1>5. claim[c] \in [phase : {"none", "pending", "bound"}, sel : Somewhere] BY DEF IInv, Types
  <1>6. /\ claim' \in [Claims -> [phase : {"none", "pending", "bound"}, sel : Somewhere]]
        /\ claim'[c].phase = "bound" /\ claim'[c].sel = claim[c].sel
        /\ \A d \in Claims : d # c => claim'[d] = claim[d]
    BY <1>5 DEF Provisioned, IInv, Types
  <1>7. ObjectsOK' BY ObjectFrame DEF ObjectsOK, IInv
  <1>8. ASSUME NEW d \in Claims PROVE ClaimOK(d)'
    <2>0. ClaimOK(d) /\ Data(d)' = Data(d) /\ Cache(d)' = Cache(d)
      BY DEF IInv, ClaimsOK, Data, Cache
    <2>1. CASE d # c BY <1>2, <1>4, <1>6, <2>0, <2>1, ClaimFrame
    <2>2. CASE d = c
      <3>1. /\ Waiting(c) /\ Awaited(c).cur > 0 /\ (~Cached(c) \/ call[c].at = "cache")
        BY DEF Provisioned
      <3>2. CallOK(c) /\ call[c].at # "idle" BY <2>0, <2>2, <3>1 DEF ClaimOK, Waiting
      <3>3. Data(c).cur > 0 /\ (Cached(c) => Cache(c).cur > 0) BY <3>1, <3>2, AwaitedHalf DEF CallOK
      <3>4. c \notin adopted => At(Data(c)) = spot /\ (Cached(c) => Cache(c).node = call[c].node)
        BY <3>1, <3>2, AwaitedHalf DEF CallOK
      <3>5. spot.node = call[c].node BY PlaceFields
      <3>a. ~Cached(c) => call[c].node \in Nodes BY <3>2 DEF CallOK
      <3> HIDE DEF spot
      <3>6. BoundOK(c)' BY <1>4, <2>0, <2>2, <3>3, <3>4, <3>5, <3>a DEF BoundOK
      <3>7. NodeOK(c)' BY <1>6, <2>0, <2>2 DEF ClaimOK, NodeOK
      <3> QED BY <1>2, <2>2, <3>6, <3>7 DEF ClaimOK
    <2> QED BY <2>1, <2>2
  <1>9. RestTyped' BY RestKept DEF RestTyped
  <1> QED BY <1>2, <1>4, <1>6, <1>7, <1>8, <1>9 DEF IInv, Types, RestTyped, ClaimsOK
-----------------------------------------------------------------------------
(* Objects that go                                                         *)

LEMMA NoLvFields ==
  /\ NoLv.code = "none" /\ NoLv.cur = 0 /\ NoLv.gb = 0 /\ NoLv.owned = FALSE /\ NoLv.excl = FALSE
  /\ NoLv.node = NoNode /\ NoLv.key[2] = ""
  BY DEF NoLv, NoKey

LEMMA Removed ==
  ASSUME IInv, NEW x \in Names, lv' = [lv EXCEPT ![x] = NoLv]
  PROVE  /\ lv' \in [Names -> Lvs] /\ ObjectsOK' /\ lv'[x] = NoLv
         /\ \A y \in Names : y # x => lv'[y] = lv[y]
  <1>1. Types /\ NoLv \in Lvs BY NoneTyped DEF IInv
  <1> USE <1>1
  <1>2. lv' \in [Names -> Lvs] /\ lv'[x] = NoLv /\ \A y \in Names : y # x => lv'[y] = lv[y]
    BY OneObject
  <1> USE <1>2
  <1>3. NoLv.cur <= NoLv.gb /\ ~(NoLv.cur > 0) BY SMT DEF NoLv
  <1>4. ObjectOK(x)' BY <1>3, NoLvFields DEF ObjectOK
  <1> QED BY <1>4, OneObjectOK

LEMMA RefusedKept ==
  ASSUME IInv, NEW c \in Claims, Refused(c)
  PROVE  IInv'
  <1> DEFINE x == <<c, call[c].at>>
  <1>1. UNCHANGED <<due, pv, report, ready, adopted, changes>> BY DEF Refused
  <1> USE <1>1
  <1>2. /\ call' \in [Claims -> [at : {"idle", "data", "cache"}, node : Somewhere, key : Keys]]
        /\ call'[c] = Idle /\ (\A d \in Claims : d # c => call'[d] = call[d]) /\ CallOK(c)'
    BY CallEnds DEF Refused
  <1> USE <1>2
  <1>3. Waiting(c) /\ call[c].at \in {"data", "cache"} BY AwaitedHalf DEF Refused
  <1> USE <1>3
  <1>4. x \in Names /\ x[1] = c BY DEF Names
  <1> USE <1>4
  <1>5. /\ lv' \in [Names -> Lvs] /\ ObjectsOK' /\ lv'[x] = NoLv /\ (\A y \in Names : y # x => lv'[y] = lv[y])
    BY Removed DEF Refused
  <1> USE <1>5
  <1>6. claim[c] \in [phase : {"none", "pending", "bound"}, sel : Somewhere] /\ NoNode \in Somewhere
    BY DEF IInv, Types, Somewhere
  <1>7. /\ claim' \in [Claims -> [phase : {"none", "pending", "bound"}, sel : Somewhere]]
        /\ claim'[c].phase = claim[c].phase /\ claim'[c].sel \in {claim[c].sel, NoNode}
        /\ (\A d \in Claims : d # c => claim'[d] = claim[d])
    BY <1>6 DEF Refused, IInv, Types
  <1> USE <1>7
  <1>8. RestTyped' BY RestKept DEF RestTyped, Refused
  <1> HIDE DEF x
  <1>9. ASSUME NEW d \in Claims PROVE ClaimOK(d)'
    <2>0. ClaimOK(d) BY DEF IInv, ClaimsOK
    <2> USE <2>0
    <2>1. CASE d # c
      <3> USE <2>1
      <3>1. Data(d)' = Data(d) /\ Cache(d)' = Cache(d) BY OtherHalves
      <3> QED BY <3>1, ClaimFrame
    <2>2. CASE d = c
      <3> USE <2>2
      <3>1. CallOK(c) /\ call[c].at # "idle" BY DEF ClaimOK, Waiting
      <3> USE <3>1
      <3>2. claim'[c].phase = "pending" BY DEF CallOK
      <3>3. BoundOK(c)' BY <3>2 DEF BoundOK
      <3> USE <3>3
      <3>4. CASE call[c].at = "data"
        <4>1. Data(c)' = NoLv BY <3>4 DEF Data, x
        <4> QED BY <4>1, NoLvFields DEF ClaimOK, NodeOK
      <3>5. CASE call[c].at = "cache"
        <4> USE <3>5
        <4>1. <<c, "data">> \in Names /\ <<c, "data">> # <<c, "cache">> BY NamesOfClaim
        <4>2. Data(c)' = Data(c) BY <4>1 DEF Data, x
        <4>3. Cached(c) BY DEF CallOK
        <4> QED BY <4>2, <4>3 DEF ClaimOK, NodeOK, Ordinary
      <3> QED BY <3>4, <3>5
    <2> QED BY <2>1, <2>2
  <1> QED BY <1>8, <1>9 DEF IInv, Types, RestTyped, ClaimsOK

LEMMA DeleteVolumeKept ==
  ASSUME IInv, NEW c \in Claims, DeleteVolume(c)
  PROVE  IInv'
  <1> DEFINE x == <<c, "data">>
  <1>1. UNCHANGED <<call, report, ready, adopted, wrapped>> BY DEF DeleteVolume, history
  <1> USE <1>1
  <1>2. x \in Names /\ x[1] = c BY NamesOfClaim
  <1> USE <1>2
  <1>3. /\ lv' \in [Names -> Lvs] /\ ObjectsOK' /\ lv'[x] = NoLv /\ (\A y \in Names : y # x => lv'[y] = lv[y])
    BY Removed DEF DeleteVolume
  <1> USE <1>3
  <1> DEFINE none == [phase |-> "none", sel |-> NoNode]
  <1>4. /\ none \in [phase : {"none", "pending", "bound"}, sel : Somewhere]
        /\ none.phase = "none" /\ none.sel = NoNode
    BY DEF Somewhere
  <1>5. /\ claim' \in [Claims -> [phase : {"none", "pending", "bound"}, sel : Somewhere]]
        /\ claim'[c].phase = "none" /\ claim'[c].sel = NoNode
        /\ (\A d \in Claims : d # c => claim'[d] = claim[d])
    BY <1>4 DEF DeleteVolume, IInv, Types
  <1> USE <1>5
  <1>6. /\ pv' \in [Claims -> Spots] /\ (\A d \in Claims : d # c => pv'[d] = pv[d])
    BY NoneTyped DEF DeleteVolume, IInv, Types
  <1> USE <1>6
  <1>7. ClaimOK(c) BY DEF IInv, ClaimsOK
  <1> USE <1>7
  <1>8. claim[c].phase = "bound" BY DEF DeleteVolume
  <1> USE <1>8
  <1>9. Data(c).node \in Nodes BY HalvesOK DEF ClaimOK, BoundOK
  <1>10. RestTyped'
    <2>1. changes' \in 0..MaxChanges BY OneMore DEF DeleteVolume
    <2> QED BY <1>9, <2>1, RestKept DEF RestTyped, DeleteVolume, Data
  <1> HIDE DEF x
  <1>11. ASSUME NEW d \in Claims PROVE ClaimOK(d)'
    <2>0. ClaimOK(d) BY DEF IInv, ClaimsOK
    <2>1. CASE d # c
      <3> USE <2>1
      <3>1. Data(d)' = Data(d) /\ Cache(d)' = Cache(d) BY OtherHalves
      <3> QED BY <2>0, <3>1, ClaimFrame
    <2>2. CASE d = c
      <3>1. call[c].at = "idle" BY DEF ClaimOK, CallOK
      <3>2. CallOK(c)' BY <3>1 DEF ClaimOK, CallOK
      <3>3. BoundOK(c)' BY DEF BoundOK
      <3>4. Data(c)' = NoLv BY DEF Data, x
      <3>5. NodeOK(c)' BY <3>4, NoLvFields DEF ClaimOK, NodeOK
      <3> QED BY <2>2, <3>2, <3>3, <3>5 DEF ClaimOK
    <2> QED BY <2>1, <2>2
  <1> QED BY <1>10, <1>11 DEF IInv, Types, RestTyped, ClaimsOK

LEMMA CollectKept ==
  ASSUME IInv, NEW c \in Claims, Collect(c)
  PROVE  IInv'
  <1> DEFINE x == <<c, "cache">>
  <1>1. UNCHANGED <<claim, call, pv, report, ready, adopted, wrapped, changes>> BY DEF Collect, history
  <1> USE <1>1
  <1>2. x \in Names /\ x[1] = c /\ <<c, "data">> \in Names BY NamesOfClaim
  <1> USE <1>2
  <1>3. /\ lv' \in [Names -> Lvs] /\ ObjectsOK' /\ lv'[x] = NoLv /\ (\A y \in Names : y # x => lv'[y] = lv[y])
    BY Removed DEF Collect
  <1> USE <1>3
  <1>4. ClaimOK(c) BY DEF IInv, ClaimsOK
  <1> USE <1>4
  <1>5. Cache(c).owned /\ Data(c) = NoLv BY DEF Collect, Cache, Data
  <1> USE <1>5
  <1>6. Cache(c).node \in Nodes BY HalvesOK, NoLvFields
  <1>7. RestTyped' BY <1>6, RestKept DEF RestTyped, Collect, Cache
  <1>8. Data(c)' = Data(c)
    <2>1. <<c, "data">> # x OBVIOUS
    <2> QED BY <2>1 DEF Data
  <1> HIDE DEF x
  <1>9. ASSUME NEW d \in Claims PROVE ClaimOK(d)'
    <2>0. ClaimOK(d) BY DEF IInv, ClaimsOK
    <2>1. CASE d # c
      <3> USE <2>1
      <3>1. Data(d)' = Data(d) /\ Cache(d)' = Cache(d) BY OtherHalves
      <3> QED BY <2>0, <3>1, ClaimFrame
    <2>2. CASE d = c
      <3>1. call[c].at = "idle" BY NoLvFields DEF ClaimOK, CallOK
      <3>2. ~(Data(c).cur > 0) BY SMT DEF NoLv
      <3>3. claim[c].phase # "bound" BY <3>2 DEF ClaimOK, BoundOK
      <3>4. CallOK(c)' BY <3>1 DEF ClaimOK, CallOK
      <3>5. BoundOK(c)' BY <3>3 DEF BoundOK
      <3>6. NodeOK(c)' BY <1>8 DEF ClaimOK, NodeOK
      <3> QED BY <2>2, <3>4, <3>5, <3>6 DEF ClaimOK
    <2> QED BY <2>1, <2>2
  <1> QED BY <1>7, <1>9 DEF IInv, Types, RestTyped, ClaimsOK
-----------------------------------------------------------------------------
(* Objects that are put                                                    *)

\* The place of a call.
LEMMA CallPut ==
  ASSUME IInv, NEW c \in Claims, NEW half \in {"data", "cache"}, NEW p \in Spots,
         call' = [call EXCEPT ![c] = [at |-> half, node |-> p.node, key |-> p.key]]
  PROVE  /\ call' \in [Claims -> [at : {"idle", "data", "cache"}, node : Somewhere, key : Keys]]
         /\ call'[c].at = half /\ call'[c].node = p.node /\ call'[c].key = p.key
         /\ \A d \in Claims : d # c => call'[d] = call[d]
  <1> DEFINE new == [at |-> half, node |-> p.node, key |-> p.key]
  <1>1. p.node \in Somewhere /\ p.key \in Keys BY DEF Spots
  <1>2. new \in [at : {"idle", "data", "cache"}, node : Somewhere, key : Keys] BY <1>1
  <1>3. new.at = half /\ new.node = p.node /\ new.key = p.key OBVIOUS
  <1> HIDE DEF new
  <1>4. call' = [call EXCEPT ![c] = new] BY DEF new
  <1> USE <1>4
  <1>5. call \in [Claims -> [at : {"idle", "data", "cache"}, node : Somewhere, key : Keys]]
    BY DEF IInv, Types
  <1> USE <1>5
  <1>6. call'[c] = new /\ \A d \in Claims : d # c => call'[d] = call[d] OBVIOUS
  <1>7. call' \in [Claims -> [at : {"idle", "data", "cache"}, node : Somewhere, key : Keys]]
    BY <1>2
  <1> QED BY <1>3, <1>6, <1>7

LEMMA ExclusiveTyped ==
  ASSUME NEW c \in Claims
  PROVE  Exclusive(c) \in BOOLEAN /\ Cached(c) \in BOOLEAN /\ (Exclusive(c) => Kind(c) = "raw")
  BY PlacementAssumption DEF Exclusive, Cached

LEMMA NewTyped ==
  ASSUME NEW c \in Claims, NEW half \in {"data", "cache"}, NEW p \in Spots
  PROVE  NewObject(c, half, p) \in Lvs
  <1> DEFINE k == IF half = "data" THEN p.key ELSE <<Class[c].cache, "">>
             gb == IF half = "data" THEN Gb(c) ELSE CacheGb(c, Gb(c))
             e == half = "data" /\ ~Cached(c) /\ Exclusive(c)
             w == half = "cache"
  <1>1. p.node \in Somewhere /\ p.key \in Keys BY DEF Spots
  <1> USE <1>1
  <1>2. <<Class[c].cache, "">> \in Keys BY NamesTyped, GroupKey
  <1>3. k \in Keys BY <1>2
  <1>4. Gb(c) \in Nat /\ CacheGb(c, Gb(c)) \in Nat BY GbNat, CacheGbNat
  <1>5. gb \in Nat BY <1>4
  <1>6. e \in BOOLEAN /\ w \in BOOLEAN OBVIOUS
  <1>7. NewObject(c, half, p) = [node |-> p.node, key |-> k, gb |-> gb, cur |-> 0, at |-> 0,
                                 excl |-> e, owned |-> w, code |-> "OK"]
    BY DEF NewObject
  <1>8. 0 \in Nat OBVIOUS
  <1> HIDE DEF k, gb, e, w
  <1> QED BY <1>3, <1>5, <1>6, <1>7, <1>8, SMT DEF Lvs

LEMMA NewOK ==
  ASSUME IInv, NEW c \in Claims, NEW half \in {"data", "cache"}, NEW p \in Spots,
         half = "data" => SpotOK(c, p), half = "cache" => Cached(c) /\ p.node \in Nodes,
         lv' = [lv EXCEPT ![<<c, half>>] = NewObject(c, half, p)]
  PROVE  /\ lv' \in [Names -> Lvs] /\ ObjectsOK' /\ lv'[<<c, half>>] = NewObject(c, half, p)
         /\ \A y \in Names : y # <<c, half>> => lv'[y] = lv[y]
  <1> DEFINE x == <<c, half>>
             o == NewObject(c, half, p)
  <1>1. x \in Names /\ x[1] = c /\ x[2] = half BY DEF Names
  <1>2. Types /\ o \in Lvs BY NewTyped DEF IInv
  <1>3. lv' \in [Names -> Lvs] /\ lv'[x] = o /\ \A y \in Names : y # x => lv'[y] = lv[y]
    BY <1>1, <1>2, OneObject
  <1>4. /\ o.node = p.node /\ o.cur = 0 /\ o.code = "OK"
        /\ o.key = IF half = "data" THEN p.key ELSE <<Class[c].cache, "">>
        /\ o.excl = (half = "data" /\ ~Cached(c) /\ Exclusive(c))
        /\ o.owned = (half = "cache")
    BY DEF NewObject
  <1>5. o.gb \in Nat BY <1>2 DEF Lvs
  <1> HIDE DEF o, x
  <1>a. o.cur = 0 /\ o.code = "OK" BY <1>4
  <1>6. o.cur <= o.gb /\ ~(o.cur > 0) /\ o.code # "none" BY <1>5, <1>a, SMT
  <1>7. o.owned <=> half = "cache" BY <1>4
  <1>8. o.excl \/ o.key[2] # "" => o.node \in Nodes /\ o.key \in DOMAIN DiskSize[o.node] /\ Manager(c) = "raw"
    <2>1. CASE half = "cache"
      <3>1. half # "data" BY <2>1, SMT
      <3>2. <<Class[c].cache, "">>[2] = "" OBVIOUS
      <3> QED BY <1>4, <3>1, <3>2
    <2>2. CASE half = "data"
      <3>1. o.key = p.key /\ o.node = p.node BY <1>4, <2>2
      <3>2. o.excl => ~Cached(c) /\ Exclusive(c) BY <1>4
      <3>3. o.excl => p.key[2] # "" BY <2>2, <3>2, ExclusiveTyped DEF SpotOK
      <3>4. p.key[2] # "" => /\ p.node \in Nodes /\ p.key \in DOMAIN DiskSize[p.node]
                             /\ ~Cached(c) /\ Kind(c) = "raw"
        BY <2>2 DEF SpotOK
      <3> QED BY <3>1, <3>3, <3>4, Kinds
    <2> QED BY <2>1, <2>2
  <1>9. Manager(c) = "host" => o.key = <<Class[c].group, "">>
    <2>1. CASE half = "cache" BY <2>1, Kinds
    <2>2. CASE half = "data" BY <1>4, <2>2 DEF SpotOK
    <2> QED BY <2>1, <2>2
  <1>10. ObjectOK(x)' BY <1>1, <1>3, <1>4, <1>6, <1>7, <1>8, <1>9 DEF ObjectOK
  <1>11. lv' = [lv EXCEPT ![x] = o] BY DEF x, o
  <1>12. ObjectsOK' BY <1>1, <1>2, <1>10, <1>11, OneObjectOK
  <1> QED BY <1>3, <1>12 DEF x, o

LEMMA RestPut ==
  ASSUME IInv, NEW c \in Claims, NEW half \in {"data", "cache"}, NEW p, PutObject(c, half, p),
         UNCHANGED <<due, ready, wrapped, changes>>
  PROVE  RestTyped'
  <1>1. <<c, half>> \in Names BY DEF Names
  <1> QED BY <1>1, RestKept DEF RestTyped, PutObject

LEMMA CreateVolumeKept ==
  ASSUME IInv, NEW c \in Claims, CreateVolume(c)
  PROVE  IInv'
  <1> DEFINE x == <<c, "data">>
  <1>1. PICK p \in Places(c) : PutObject(c, "data", p) BY DEF CreateVolume
  <1> USE <1>1
  <1>2. /\ UNCHANGED <<due, claim, pv, report, ready, wrapped, changes>>
        /\ claim[c].phase = "pending" /\ (c \in Immediate \/ claim[c].sel # NoNode)
    BY DEF CreateVolume
  <1> USE <1>2
  <1>3. SpotOK(c, p) /\ p \in Spots BY PlacesFound DEF IInv, SpotOK
  <1> USE <1>3
  <1>4. /\ call' \in [Claims -> [at : {"idle", "data", "cache"}, node : Somewhere, key : Keys]]
        /\ call'[c].at = "data" /\ call'[c].node = p.node /\ call'[c].key = p.key
        /\ \A d \in Claims : d # c => call'[d] = call[d]
    BY CallPut DEF PutObject
  <1> USE <1>4
  <1>5. RestTyped' BY RestPut
  <1> USE <1>5
  <1>6. ClaimOK(c) /\ x \in Names /\ x[1] = c BY NamesOfClaim DEF IInv, ClaimsOK
  <1> USE <1>6
  <1>7. c \notin Immediate => p.node \in Nodes /\ p.node = claim[c].sel
    BY SelTyped DEF SpotOK, IInv
  <1> USE <1>7
  <1>a. ~Cached(c) => p.node \in Nodes BY DEF SpotOK
  <1> USE <1>a
  <1>8. Ordinary(c) => At(p) = Place(claim[c].sel, TheKey(c))
    BY DEF SpotOK, Ordinary, At
  <1> USE <1>8
  <1> DEFINE o == NewObject(c, "data", p)
  <1>9. o.node = p.node /\ o.key = p.key /\ o.code = "OK" /\ At(o) = At(p) BY DEF NewObject, At
  <1> USE <1>9
  <1>10. At(p) = Place(p.node, p.key) BY DEF At
  <1> USE <1>10
  <1>11. CASE lv[x] = NoLv
    <2>1. lv' = [lv EXCEPT ![x] = o] /\ adopted' = adopted BY <1>11 DEF PutObject
    <2> USE <2>1
    <2>2. /\ lv' \in [Names -> Lvs] /\ ObjectsOK' /\ lv'[x] = o /\ (\A y \in Names : y # x => lv'[y] = lv[y])
      BY NewOK
    <2> USE <2>2
    <2> HIDE DEF x, o
    <2>3. ASSUME NEW d \in Claims PROVE ClaimOK(d)'
      <3>0. ClaimOK(d) BY DEF IInv, ClaimsOK
      <3>1. CASE d # c
        <4> USE <3>1
        <4>1. Data(d)' = Data(d) /\ Cache(d)' = Cache(d) BY OtherHalves
        <4> QED BY <3>0, <4>1, ClaimFrame
      <3>2. CASE d = c
        <4>1. Data(c)' = o /\ At(Data(c))' = At(p) BY DEF Data, x, At
        <4> USE <4>1
        <4>2. CallOK(c)' BY DEF CallOK
        <4>3. BoundOK(c)' BY DEF BoundOK
        <4>4. c \in Immediate /\ Cached(c) => o.node = NoNode
          BY DEF SpotOK, ClaimOK, NodeOK
        <4>5. NodeOK(c)' BY <4>4 DEF ClaimOK, NodeOK, Ordinary
        <4> QED BY <3>2, <4>2, <4>3, <4>5 DEF ClaimOK
      <3> QED BY <3>1, <3>2
    <2> QED BY <2>3 DEF IInv, Types, RestTyped, ClaimsOK
  <1>12. CASE lv[x] # NoLv
    <2> USE <1>12
    <2>1. /\ lv' = lv
          /\ adopted' = IF lv[x].node = o.node /\ lv[x].key = o.key THEN adopted ELSE adopted \cup {c}
      BY DEF PutObject
    <2> USE <2>1
    <2>2. Data(c) # NoLv /\ Data(c).code # "none" BY HalvesOK DEF Data
    <2> USE <2>2
    <2> HIDE DEF o
    <2>3. c \notin adopted' => At(Data(c)) = At(p) BY DEF Data, At
    <2>4. ASSUME At(Data(c)) = At(p) PROVE adopted' = adopted
      <3>1. Data(c).node = p.node /\ Data(c).key = p.key BY <2>4, SMT DEF At, Place
      <3> QED BY <3>1 DEF Data
    <2>5. ObjectsOK' BY ObjectFrame DEF ObjectsOK, IInv
    <2>6. ASSUME NEW d \in Claims PROVE ClaimOK(d)'
      <3>0. ClaimOK(d) /\ Data(d)' = Data(d) /\ Cache(d)' = Cache(d)
        BY DEF IInv, ClaimsOK, Data, Cache
      <3> USE <3>0
      <3>1. CASE d # c
        <4> USE <3>1
        <4>1. d \in adopted' <=> d \in adopted OBVIOUS
        <4> QED BY <4>1, ClaimFrame
      <3>2. CASE d = c
        <4> USE <3>2
        <4>1. At(Data(c))' = At(Data(c)) BY DEF At
        <4> USE <4>1
        <4>2. CallOK(c)' BY <2>3 DEF CallOK
        <4>3. BoundOK(c)' BY DEF BoundOK
        <4>4. Ordinary(c) => At(Data(c)) = Place(claim[c].sel, TheKey(c)) /\ claim[c].sel \in Nodes
          BY DEF ClaimOK, NodeOK
        <4>5. Ordinary(c) => adopted' = adopted BY <2>4, <4>4
        <4>6. NodeOK(c)' BY <4>5 DEF ClaimOK, NodeOK
        <4> QED BY <4>2, <4>3, <4>6 DEF ClaimOK
      <3> QED BY <3>1, <3>2
    <2> QED BY <2>5, <2>6 DEF IInv, Types, RestTyped, ClaimsOK
  <1> QED BY <1>11, <1>12

\* The first half of a cached volume exists only if the claim has a node.
LEMMA CreateCacheKept ==
  ASSUME IInv, NEW c \in Claims, CreateCache(c)
  PROVE  IInv'
  <1> DEFINE x == <<c, "cache">>
             p == [node |-> call[c].node, key |-> call[c].key]
  <1>1. /\ PutObject(c, "cache", p) /\ UNCHANGED <<due, claim, pv, report, ready, wrapped, changes>>
        /\ Waiting(c) /\ call[c].at = "data" /\ Cached(c) /\ Awaited(c).cur > 0
    BY DEF CreateCache
  <1> USE <1>1
  <1>2. Data(c).cur > 0 BY DEF Awaited, Data
  <1> USE <1>2
  <1>3. p \in Spots /\ p.node = call[c].node /\ p.key = call[c].key BY ClaimFields DEF IInv, Spots
  <1> USE <1>3
  <1>4. /\ call' \in [Claims -> [at : {"idle", "data", "cache"}, node : Somewhere, key : Keys]]
        /\ call'[c].at = "cache" /\ call'[c].node = p.node /\ call'[c].key = p.key
        /\ \A d \in Claims : d # c => call'[d] = call[d]
    BY CallPut DEF PutObject
  <1> USE <1>4
  <1>5. RestTyped' BY RestPut
  <1> USE <1>5
  <1>6. ClaimOK(c) /\ x \in Names /\ x[1] = c /\ <<c, "data">> \in Names
    BY NamesOfClaim DEF IInv, ClaimsOK
  <1> USE <1>6
  <1>7. /\ claim[c].phase = "pending" /\ (c \notin adopted => At(Data(c)) = Place(p.node, p.key))
        /\ Data(c).code # "none"
    BY DEF ClaimOK, CallOK
  <1> USE <1>7
  <1>8. c \notin Immediate BY HalvesOK, NodesNamed DEF ClaimOK, NodeOK
  <1> USE <1>8
  <1>9. p.node \in Nodes BY DEF ClaimOK, CallOK
  <1> USE <1>9
  <1> DEFINE o == NewObject(c, "cache", p)
  <1>10. o.node = p.node /\ o.code = "OK" BY DEF NewObject
  <1> USE <1>10
  <1>11. CASE lv[x] = NoLv
    <2>1. lv' = [lv EXCEPT ![x] = o] /\ adopted' = adopted BY <1>11 DEF PutObject
    <2> USE <2>1
    <2> HIDE DEF p
    <2>2. /\ lv' \in [Names -> Lvs] /\ ObjectsOK' /\ lv'[x] = o /\ (\A y \in Names : y # x => lv'[y] = lv[y])
      BY NewOK
    <2> USE <2>2
    <2>3. <<c, "data">> # x OBVIOUS
    <2> HIDE DEF x, o
    <2>4. Data(c)' = Data(c) /\ Cache(c)' = o BY <2>3 DEF Data, Cache, x
    <2> USE <2>4
    <2>5. ASSUME NEW d \in Claims PROVE ClaimOK(d)'
      <3>0. ClaimOK(d) BY DEF IInv, ClaimsOK
      <3>1. CASE d # c
        <4> USE <3>1
        <4>1. Data(d)' = Data(d) /\ Cache(d)' = Cache(d) BY OtherHalves
        <4> QED BY <3>0, <4>1, ClaimFrame
      <3>2. CASE d = c
        <4>1. At(Data(c))' = At(Data(c)) BY DEF At
        <4>2. CallOK(c)' BY <4>1 DEF CallOK
        <4>3. BoundOK(c)' BY DEF BoundOK
        <4>4. NodeOK(c)' BY DEF NodeOK, Ordinary
        <4> QED BY <3>2, <4>2, <4>3, <4>4 DEF ClaimOK
      <3> QED BY <3>1, <3>2
    <2> QED BY <2>5 DEF IInv, Types, RestTyped, ClaimsOK
  <1>12. CASE lv[x] # NoLv
    <2> USE <1>12
    <2>1. /\ lv' = lv
          /\ adopted' = IF lv[x].node = o.node /\ lv[x].key = o.key THEN adopted ELSE adopted \cup {c}
      BY DEF PutObject
    <2> USE <2>1
    <2>2. Cache(c) # NoLv /\ Cache(c).code # "none" BY HalvesOK DEF Cache
    <2> HIDE DEF o, p
    <2>3. c \notin adopted' => c \notin adopted /\ Cache(c).node = p.node BY DEF Cache
    <2>4. ObjectsOK' BY ObjectFrame DEF ObjectsOK, IInv
    <2>5. ASSUME NEW d \in Claims PROVE ClaimOK(d)'
      <3>0. ClaimOK(d) /\ Data(d)' = Data(d) /\ Cache(d)' = Cache(d)
        BY DEF IInv, ClaimsOK, Data, Cache
      <3> USE <3>0
      <3>1. CASE d # c
        <4> USE <3>1
        <4>1. d \in adopted' <=> d \in adopted OBVIOUS
        <4> QED BY <4>1, ClaimFrame
      <3>2. CASE d = c
        <4> USE <3>2
        <4>1. At(Data(c))' = At(Data(c)) BY DEF At
        <4>2. CallOK(c)' BY <2>2, <2>3, <4>1 DEF CallOK
        <4>3. BoundOK(c)' BY DEF BoundOK
        <4>4. NodeOK(c)' BY DEF NodeOK, Ordinary
        <4> QED BY <4>2, <4>3, <4>4 DEF ClaimOK
      <3> QED BY <3>1, <3>2
    <2> QED BY <2>4, <2>5 DEF IInv, Types, RestTyped, ClaimsOK
  <1> QED BY <1>11, <1>12
-----------------------------------------------------------------------------
(* The theorems                                                            *)

LEMMA InitIInv == Init => IInv
  <1> SUFFICES ASSUME Init PROVE IInv OBVIOUS
  <1>1. PICK s \in Scenarios :
          /\ claim = [c \in Claims |->
                        [phase |-> IF c \in s.claims THEN "pending" ELSE "none", sel |-> NoNode]]
          /\ call = [c \in Claims |-> Idle]
          /\ lv = [x \in Names |-> NoLv] /\ pv = [c \in Claims |-> Unplaced]
          /\ report = [n \in Nodes |-> generateStatus(n)]
          /\ due = {} /\ late = {} /\ ready = s.ready
          /\ adopted = {} /\ wrapped = {} /\ shared = {}
          /\ changes = 0
    BY DEF Init
  <1> USE <1>1
  <1>2. s.ready \subseteq Nodes BY PlacementAssumption
  <1>3. \A n \in Nodes : DOMAIN report[n].alloc \subseteq KeysOf(n) BY StatusKeys
  <1>4. 0 \in 0..MaxChanges BY MaxChangesNat, SMT
  <1>5. claim \in [Claims -> [phase : {"none", "pending", "bound"}, sel : Somewhere]]
    BY DEF Somewhere
  <1>6. Types BY <1>2, <1>3, <1>4, <1>5, NoneTyped, IdleTyped DEF Types
  <1>7. ASSUME NEW x \in Names PROVE ObjectOK(x)
    <2>1. lv[x] = NoLv OBVIOUS
    <2>2. NoLv.cur <= NoLv.gb /\ ~(NoLv.cur > 0) BY SMT DEF NoLv
    <2> QED BY <2>1, <2>2, NoLvFields DEF ObjectOK
  <1>8. ASSUME NEW c \in Claims PROVE ClaimOK(c)
    <2>1. Data(c) = NoLv /\ Cache(c) = NoLv BY NamesOfClaim DEF Data, Cache
    <2>2. call[c] = Idle /\ claim[c].sel = NoNode /\ claim[c].phase # "bound" /\ c \notin adopted BY SMT
    <2> QED BY <2>1, <2>2, IdleTyped, NoLvFields DEF ClaimOK, CallOK, BoundOK, NodeOK
  <1> QED BY <1>6, <1>7, <1>8 DEF IInv, ObjectsOK, ClaimsOK

LEMMA NextIInv == IInv /\ [Next]_vars => IInv'
  <1> SUFFICES ASSUME IInv, [Next]_vars PROVE IInv' OBVIOUS
  <1>1. CASE UNCHANGED vars
    <2>1. UNCHANGED <<claim, call, lv, pv, adopted, report, due, late, ready, wrapped, changes>>
      BY <1>1 DEF vars, history
    <2> USE <2>1
    <2>2. ObjectsOK' /\ ClaimsOK' BY AllFrame DEF IInv
    <2> QED BY <2>2 DEF IInv, Types
  <1>2. ASSUME NEW n \in Nodes, Report(n) PROVE IInv' BY <1>2, ReportKept
  <1>3. ASSUME NEW x \in Names, createLV(x) \/ expandLV(x) \/ Sync(x) PROVE IInv'
    BY <1>3, NodeWorkKept, SyncKept
  <1>4. ASSUME NEW p \in Pods, Schedule(p) PROVE IInv' BY <1>4, ScheduleKept
  <1>5. ASSUME NEW c \in Claims, Provision(c) PROVE IInv'
    BY <1>5, CreateVolumeKept, CreateCacheKept, ProvisionedKept, RefusedKept DEF Provision
  <1>6. ASSUME NEW c \in Claims, Timeout(c) \/ ControllerExpandVolume(c) \/ ExpandCache(c) PROVE IInv'
    BY <1>6, TimeoutKept, ExpansionKept
  <1>7. ASSUME NEW c \in Claims, DeleteVolume(c) \/ Collect(c) PROVE IInv'
    BY <1>7, DeleteVolumeKept, CollectKept
  <1> QED BY <1>1, <1>2, <1>3, <1>4, <1>5, <1>6, <1>7 DEF Next

LEMMA IInvAlways == Spec => []IInv
  BY InitIInv, NextIInv, PTL DEF Spec

LEMMA IInvPvTrue == IInv => PvTrue
  <1> SUFFICES ASSUME IInv PROVE PvTrue OBVIOUS
  <1>1. ASSUME NEW c \in Claims, claim[c].phase = "bound", c \notin adopted
        PROVE  /\ lv[<<c, "data">>].cur > 0
               /\ Place(lv[<<c, "data">>].node, lv[<<c, "data">>].key) = pv[c]
               /\ Cached(c) => lv[<<c, "cache">>].cur > 0 /\ lv[<<c, "cache">>].node = pv[c].node
    BY <1>1 DEF IInv, ClaimsOK, ClaimOK, BoundOK, Data, Cache, At
  <1>2. ASSUME NEW c \in adopted
        PROVE  c \in Immediate \/ Kind(c) = "raw" \/ Cached(c) \/ Class[c].group = ""
    <2> USE <1>2
    <2>1. c \in Claims BY DEF IInv, Types
    <2> QED BY <2>1 DEF IInv, ClaimsOK, ClaimOK, NodeOK, Ordinary
  <1> QED BY <1>1, <1>2 DEF PvTrue

\* The PV of a claim names the place where its volume is, and for a cached
\* volume the node of both halves, whatever calls time out, are refused or
\* repeated while reports are old; a repeated CreateVolume takes over an object
\* placed elsewhere only for the claims that PvTrue excepts.
THEOREM PvNamesPlace == Spec => []PvTrue
  BY IInvAlways, IInvPvTrue, PTL
=============================================================================
