--------------------------- MODULE PlacementReports ---------------------------
(***************************************************************************)
(* Proofs about the space of the nodes and what is decided by the reports, *)
(* on top of the invariant of PlacementProofs: no group is used beyond its *)
(* size and every partition lies on its disk (TypeOK); what a node reports *)
(* can be had, and GetCapacity is not less than what SelectNode can place  *)
(* (ReportHonest); a disk of an exclusive volume has no other unless that  *)
(* could not be seen (ExclusiveAlone); and the scheduler's filter passes   *)
(* the right nodes (FilterExact).                                          *)
(*                                                                         *)
(* The space that the volumes of a group take is a sum over a finite set.  *)
(* Every step is one of few kinds of change to one object, and TypeOK is   *)
(* shown for these kinds.  FilterExact needs no step of its own.           *)
(***************************************************************************)
EXTENDS PlacementProofs

(* Zenon is the prover of every leaf that does not name another.           *)
USE Zenon

-----------------------------------------------------------------------------
(* What a step does to the objects                                         *)

\* An object becomes r.  Either r is no volume, or the object stays where it is
\* and its volume is as it was, or it is a directory, or the volume manager had
\* room for the difference, or it has a place within its disk.
Change(x, r) ==
    /\ r \in Lvs /\ lv' = [lv EXCEPT ![x] = r]
    /\ \/ r.cur = 0
       \/ /\ r.node = lv[x].node /\ r.key = lv[x].key /\ lv[x].code # "none" /\ r.code # "none"
          /\ r.node \in Nodes
          /\ \/ r.cur = lv[x].cur /\ r.at = lv[x].at
             \/ r.key[2] = "" /\ r.key[1] \notin DOMAIN VgSize[r.node]
             \/ r.key[2] = "" /\ LvmOutcome(r.node, r.key[1], r.cur - lv[x].cur) = "ok"
             \/ /\ r.key[2] # "" /\ r.at + r.cur - 1 <= DiskSize[r.node][r.key]
                /\ r.at >= 1 \/ (r.at = lv[x].at /\ lv[x].cur > 0)

\* The group of a directory is not of LVM type.
LEMMA HostGroup ==
  ASSUME NEW n \in Nodes, NEW g, CheckHostDeviceGroup(g)
  PROVE  g \notin DOMAIN VgSize[n] /\ \A k \in DOMAIN DiskSize[n] : k[1] # g
  <1>1. Policy[g] = "host" BY DEF CheckHostDeviceGroup
  <1>2. \A h \in DOMAIN VgSize[n] : Policy[h] = "lvm" BY ConfigAssumption
  <1>3. \A k \in DOMAIN DiskSize[n] : Policy[k[1]] = "raw" BY ConfigAssumption
  <1>4. "host" # "lvm" /\ "host" # "raw" OBVIOUS
  <1> QED BY <1>1, <1>2, <1>3, <1>4

LEMMA CreateChange ==
  ASSUME IInv, NEW x \in Names, createLV(x)
  PROVE  \E r : Change(x, r)
  <1> DEFINE o == lv[x]
             g == o.key[1]
  <1>1. /\ Types /\ ObjectOK(x) /\ o \in Lvs /\ o.gb \in Nat /\ o.cur = 0 /\ o.code = "OK" /\ o.node \in Nodes
    BY LvFields DEF IInv, ObjectsOK, createLV
  <1>a. o.code # "none" BY <1>1, SMT
  <1>2. CASE /\ o.key[2] # "" /\ o.key \in DOMAIN DiskSize[o.node] /\ Starts(o.node, o.key, o.gb) # {}
             /\ lv' = [lv EXCEPT ![x].cur = o.gb, ![x].at = Min(Starts(o.node, o.key, o.gb))]
    <2> DEFINE m == Min(Starts(o.node, o.key, o.gb))
               r == [o EXCEPT !.cur = o.gb, !.at = m]
    <2>1. m \in Nat /\ m \in Starts(o.node, o.key, o.gb) BY <1>1, <1>2, StartFound
    <2>2. m \in 1..DiskSize[o.node][o.key] /\ m + o.gb - 1 <= DiskSize[o.node][o.key]
      BY <2>1 DEF Starts
    <2>3. DiskSize[o.node][o.key] \in Nat BY <1>1, <1>2, ConfigAssumption
    <2>4. m >= 1 BY <2>2, <2>3, SMT
    <2>5. lv' = [lv EXCEPT ![x] = r] BY <1>2
    <2> HIDE DEF m
    <2>6. r \in Lvs BY <1>1, <2>1 DEF Lvs
    <2>7. r.code = o.code /\ r.node = o.node /\ r.key = o.key /\ r.cur = o.gb /\ r.at = m
      BY <1>1 DEF Lvs
    <2> HIDE DEF r
    <2>8. Change(x, r) BY <1>1, <1>a, <1>2, <2>2, <2>4, <2>5, <2>6, <2>7 DEF Change
    <2> QED BY <2>8
  <1>3. ASSUME lv' = [lv EXCEPT ![x].cur = o.gb], o.key[2] = "",
               g \notin DOMAIN VgSize[o.node] \/ LvmOutcome(o.node, g, o.gb) = "ok"
        PROVE  \E r : Change(x, r)
    <2> DEFINE r == [o EXCEPT !.cur = o.gb]
    <2>1. lv' = [lv EXCEPT ![x] = r] BY <1>3
    <2>2. r \in Lvs BY <1>1 DEF Lvs
    <2>3. r.code = o.code /\ r.node = o.node /\ r.key = o.key /\ r.cur = o.gb BY <1>1 DEF Lvs
    <2> HIDE DEF r
    <2>4. r.cur - o.cur = o.gb BY <1>1, <2>3, SMT
    <2>5. Change(x, r) BY <1>1, <1>a, <1>3, <2>1, <2>2, <2>3, <2>4 DEF Change
    <2> QED BY <2>5
  <1>4. CASE o.key[2] = "" /\ Manager(x[1]) = "host" /\ lv' = [lv EXCEPT ![x].cur = o.gb]
    <2>1. o.key = <<Class[x[1]].group, "">> BY <1>1, <1>a, <1>4 DEF ObjectOK
    <2>2. CheckHostDeviceGroup(Class[x[1]].group)
      <3>1. Manager(x[1]) # "lvm" BY <1>4
      <3> QED BY <1>4, <3>1, Kinds
    <2>3. g \notin DOMAIN VgSize[o.node] BY <1>1, <2>1, <2>2, HostGroup
    <2> QED BY <1>3, <1>4, <2>3
  <1> DEFINE res == LvmOutcome(o.node, g, o.gb)
  <1>5. CASE /\ o.key[2] = ""
             /\ lv' = IF res = "ok" THEN [lv EXCEPT ![x].cur = o.gb] ELSE [lv EXCEPT ![x].code = res]
    <2>1. CASE res = "ok" BY <1>3, <1>5, <2>1
    <2>2. CASE res # "ok"
      <3>1. res \in {"none", "OK", "exhausted", "internal"} BY <2>2 DEF LvmOutcome
      <3> DEFINE r == [o EXCEPT !.code = res]
      <3>2. lv' = [lv EXCEPT ![x] = r] BY <1>5, <2>2
      <3> HIDE DEF res
      <3>3. r \in Lvs /\ r.cur = 0 BY <1>1, <3>1 DEF Lvs
      <3> HIDE DEF r
      <3>4. Change(x, r) BY <3>2, <3>3 DEF Change
      <3> QED BY <3>4
    <2> QED BY <2>1, <2>2
  <1> QED BY <1>2, <1>4, <1>5 DEF createLV

LEMMA ExpandChange ==
  ASSUME IInv, NEW x \in Names, expandLV(x)
  PROVE  \E r : Change(x, r)
  <1> DEFINE o == lv[x]
             r == [o EXCEPT !.cur = o.gb]
  <1>1. /\ Types /\ ObjectOK(x) /\ o \in Lvs /\ o.gb \in Nat /\ o.cur > 0 /\ lv' = [lv EXCEPT ![x].cur = o.gb]
        /\ IF o.key[2] = "" THEN LvmOutcome(o.node, o.key[1], o.gb - o.cur) = "ok"
           ELSE Made(o.node, o.key) = {x} /\ o.at + o.gb - 1 <= DiskSize[o.node][o.key]
    BY LvFields DEF IInv, ObjectsOK, expandLV
  <1>2. o.code = "OK" /\ o.node \in Nodes BY <1>1 DEF ObjectOK
  <1>3. o.code # "none" BY <1>2, SMT
  <1>4. lv' = [lv EXCEPT ![x] = r] BY <1>1
  <1>5. r \in Lvs BY <1>1 DEF Lvs
  <1>6. r.code = o.code /\ r.node = o.node /\ r.key = o.key /\ r.cur = o.gb /\ r.at = o.at
    BY <1>1 DEF Lvs
  <1> HIDE DEF r
  <1>7. Change(x, r)
    <2>1. CASE o.key[2] = "" BY <1>1, <1>2, <1>3, <1>4, <1>5, <1>6, <2>1 DEF Change
    <2>2. CASE o.key[2] # "" BY <1>1, <1>2, <1>3, <1>4, <1>5, <1>6, <2>2 DEF Change
    <2> QED BY <2>1, <2>2
  <1> QED BY <1>7

\* A size that is only wished for, and the size of a directory.
LEMMA SizeChange ==
  ASSUME IInv, NEW c \in Claims, ControllerExpandVolume(c) \/ ExpandCache(c)
  PROVE  \E x \in Names : \E r : Change(x, r)
  <1>0. <<c, "data">> \in Names /\ <<c, "cache">> \in Names BY NamesOfClaim
  <1> USE <1>0
  <1>1. ASSUME NEW x \in Names, NEW gb \in Nat, lv[x].cur > 0, lv' = [lv EXCEPT ![x].gb = gb]
        PROVE  Change(x, [lv[x] EXCEPT !.gb = gb])
    <2> USE <1>1
    <2> DEFINE o == lv[x]
               r == [o EXCEPT !.gb = gb]
    <2>1. ObjectOK(x) /\ o \in Lvs BY LvFields DEF IInv, ObjectsOK
    <2> USE <2>1
    <2>2. o.code = "OK" /\ o.node \in Nodes BY DEF ObjectOK
    <2> USE <2>2
    <2>3. o.code # "none" BY SMT
    <2>4. lv' = [lv EXCEPT ![x] = r] OBVIOUS
    <2>5. r \in Lvs BY DEF Lvs
    <2>6. r.code = o.code /\ r.node = o.node /\ r.key = o.key /\ r.cur = o.cur /\ r.at = o.at
      BY DEF Lvs
    <2> HIDE DEF r
    <2>7. Change(x, r) BY <2>3, <2>4, <2>5, <2>6 DEF Change
    <2> QED BY <2>7 DEF r
  <1>2. CASE ControllerExpandVolume(c)
    <2> USE <1>2
    <2> DEFINE x == <<c, "data">>
               o == lv[x]
               new == o.cur + 1
               r == [o EXCEPT !.gb = new, !.cur = new]
    <2>1. ClaimOK(c) /\ claim[c].phase = "bound" BY DEF IInv, ClaimsOK, ControllerExpandVolume
    <2>2. o.cur > 0 BY <2>1 DEF ClaimOK, BoundOK, Data
    <2> USE <2>2
    <2>3. o.cur \in Nat /\ o \in Lvs /\ ObjectOK(x) BY LvFields DEF IInv, ObjectsOK
    <2> USE <2>3
    <2>4. o.code = "OK" /\ o.node \in Nodes BY DEF ObjectOK
    <2> USE <2>4
    <2>5. o.code # "none" BY SMT
    <2>6. new \in Nat BY SMT
    <2> USE <2>6
    <2>7. CASE lv' = [lv EXCEPT ![x].gb = new]
      <3> HIDE DEF new
      <3> QED BY <1>1, <2>7
    <2>8. CASE CheckHostDeviceGroup(o.key[1]) /\ lv' = [lv EXCEPT ![x].gb = new, ![x].cur = new]
      <3> USE <2>8
      <3> HIDE DEF new
      <3>1. o.key[1] \notin DOMAIN VgSize[o.node] /\ o.key \notin DOMAIN DiskSize[o.node]
        BY HostGroup
      <3> USE <3>1
      <3>2. o.key[2] = "" BY DEF ObjectOK
      <3>3. lv' = [lv EXCEPT ![x] = r] OBVIOUS
      <3>4. r \in Lvs BY DEF Lvs
      <3>5. r.code = o.code /\ r.node = o.node /\ r.key = o.key BY DEF Lvs
      <3> HIDE DEF r
      <3>6. Change(x, r) BY <2>5, <3>2, <3>3, <3>4, <3>5 DEF Change
      <3> QED BY <3>6
    <2> QED BY <2>7, <2>8 DEF ControllerExpandVolume
  <1>3. CASE ExpandCache(c)
    <2> DEFINE x == <<c, "cache">>
               gb == CacheGb(c, lv[<<c, "data">>].cur)
    <2>1. lv[x].cur > 0 /\ lv' = [lv EXCEPT ![x].gb = gb] BY <1>3 DEF ExpandCache
    <2>2. lv[<<c, "data">>].cur \in Nat BY LvFields DEF IInv
    <2>3. gb \in Nat BY <2>2, CacheGbNat
    <2> HIDE DEF gb
    <2> QED BY <1>1, <2>1, <2>3
  <1> QED BY <1>2, <1>3
LEMMA GoneChange ==
  ASSUME NEW x \in Names, lv' = [lv EXCEPT ![x] = NoLv]
  PROVE  Change(x, NoLv)
  BY NoneTyped, NoLvFields DEF Change

LEMMA PutChange ==
  ASSUME IInv, NEW c \in Claims, NEW half \in {"data", "cache"}, NEW p \in Spots, PutObject(c, half, p)
  PROVE  lv' = lv \/ Change(<<c, half>>, NewObject(c, half, p))
  <1> DEFINE o == NewObject(c, half, p)
  <1>1. o \in Lvs BY NewTyped
  <1>2. o.cur = 0 BY DEF NewObject
  <1>3. lv' = lv \/ lv' = [lv EXCEPT ![<<c, half>>] = o] BY DEF PutObject
  <1> HIDE DEF o
  <1>4. lv' = lv \/ Change(<<c, half>>, o) BY <1>1, <1>2, <1>3 DEF Change
  <1> QED BY <1>4 DEF o

\* The place of the second half is the one of the call.
LEMMA CachePut ==
  ASSUME IInv, NEW c \in Claims, CreateCache(c)
  PROVE  \E p \in Spots : PutObject(c, "cache", p)
  <1> DEFINE p == [node |-> call[c].node, key |-> call[c].key]
  <1>1. p \in Spots BY ClaimFields DEF IInv, Spots
  <1>2. PutObject(c, "cache", p) BY DEF CreateCache
  <1> HIDE DEF p
  <1> QED BY <1>1, <1>2

LEMMA ProvisionChange ==
  ASSUME IInv, NEW c \in Claims, Provision(c)
  PROVE  lv' = lv \/ \E x \in Names : \E r : Change(x, r)
  <1>0. <<c, "data">> \in Names /\ <<c, "cache">> \in Names BY NamesOfClaim
  <1> USE <1>0
  <1>1. CASE CreateVolume(c)
    <2>1. PICK p \in Places(c) : PutObject(c, "data", p) BY <1>1 DEF CreateVolume
    <2>2. p \in Spots BY PlacesFound DEF IInv, SpotOK
    <2> QED BY <2>1, <2>2, PutChange
  <1>2. CASE CreateCache(c) BY <1>2, CachePut, PutChange
  <1>3. CASE Provisioned(c) BY <1>3 DEF Provisioned
  <1>4. CASE Refused(c)
    <2> USE <1>4
    <2>1. call[c].at \in {"data", "cache"} BY AwaitedHalf DEF Refused
    <2>2. <<c, call[c].at>> \in Names BY <2>1
    <2> QED BY <2>2, GoneChange DEF Refused
  <1> QED BY <1>1, <1>2, <1>3, <1>4 DEF Provision

LEMMA NextChange ==
  ASSUME IInv, [Next]_vars
  PROVE  lv' = lv \/ \E x \in Names : \E r : Change(x, r)
  <1>1. CASE UNCHANGED vars BY <1>1 DEF vars
  <1>2. ASSUME NEW n \in Nodes, Report(n) PROVE lv' = lv BY <1>2 DEF Report
  <1>3. ASSUME NEW x \in Names, createLV(x) \/ expandLV(x) \/ Sync(x)
        PROVE  lv' = lv \/ \E r : Change(x, r)
    BY <1>3, CreateChange, ExpandChange DEF Sync
  <1>4. ASSUME NEW p \in Pods, Schedule(p) PROVE lv' = lv BY <1>4 DEF Schedule
  <1>5. ASSUME NEW c \in Claims, Provision(c) PROVE lv' = lv \/ \E x \in Names : \E r : Change(x, r)
    BY <1>5, ProvisionChange
  <1>6. ASSUME NEW c \in Claims, Timeout(c) \/ ControllerExpandVolume(c) \/ ExpandCache(c)
        PROVE  lv' = lv \/ \E x \in Names : \E r : Change(x, r)
    BY <1>6, SizeChange DEF Timeout
  <1>7. ASSUME NEW c \in Claims, DeleteVolume(c) \/ Collect(c) PROVE \E x \in Names : \E r : Change(x, r)
    BY <1>7, NamesOfClaim, GoneChange DEF DeleteVolume, Collect
  <1> QED BY <1>1, <1>2, <1>3, <1>4, <1>5, <1>6, <1>7 DEF Next

-----------------------------------------------------------------------------
(* Space                                                                   *)

Sizes == [x \in Names |-> lv[x].cur]
Used(n, g) == SumFunctionOnSet(Sizes, Made(n, <<g, "">>))

LEMMA NamesFinite == IsFiniteSet(Names)
  <1>1. IsFiniteSet(Claims) BY PlacementAssumption
  <1>2. IsFiniteSet({"data", "cache"})
    <2>1. IsFiniteSet({"data"}) BY FS_Singleton
    <2>2. IsFiniteSet({"data"} \cup {"cache"}) BY <2>1, FS_AddElement
    <2>3. {"data", "cache"} = {"data"} \cup {"cache"} OBVIOUS
    <2> QED BY <2>2, <2>3
  <1> QED BY <1>1, <1>2, FS_Product DEF Names

\* Any part of the volumes.
LEMMA PartSum ==
  ASSUME Types, NEW M \in SUBSET Names
  PROVE  /\ IsFiniteSet(M) /\ (\A y \in M : Sizes[y] \in Nat) /\ SumFunctionOnSet(Sizes, M) \in Nat
         /\ \A x \in M : SumFunctionOnSet(Sizes, M) = lv[x].cur + SumFunctionOnSet(Sizes, M \ {x})
  <1>1. IsFiniteSet(M) BY NamesFinite, FS_Subset
  <1> USE <1>1
  <1>2. \A y \in Names : Sizes[y] = lv[y].cur BY DEF Sizes
  <1> USE <1>2
  <1>3. \A y \in Names : lv[y].cur \in Nat BY LvFields
  <1>4. \A y \in M : Sizes[y] \in Nat BY <1>3
  <1> USE <1>4
  <1>5. SumFunctionOnSet(Sizes, M) \in Nat BY SumNat
  <1>6. ASSUME NEW x \in M
        PROVE  SumFunctionOnSet(Sizes, M) = lv[x].cur + SumFunctionOnSet(Sizes, M \ {x})
    <2>1. SumFunctionOnSet(Sizes, M) = Sizes[x] + SumFunctionOnSet(Sizes, M \ {x}) BY SumRemove, SMT
    <2> QED BY <2>1
  <1> QED BY <1>5, <1>6

LEMMA MadeNames ==
  ASSUME NEW n, NEW k
  PROVE  /\ Made(n, k) \in SUBSET Names
         /\ \A x \in Names : x \in Made(n, k) <=>
              lv[x].code # "none" /\ lv[x].node = n /\ lv[x].key = k /\ lv[x].cur > 0
  BY DEF Made, On, Objects

\* The space of a group but for one object, which alone changes.
LEMMA UsedRest ==
  ASSUME Types, NEW x \in Names, NEW r \in Lvs, lv' = [lv EXCEPT ![x] = r], NEW n \in Nodes, NEW g
  PROVE  \E rest \in Nat :
            /\ Used(n, g) = rest + IF x \in Made(n, <<g, "">>) THEN lv[x].cur ELSE 0
            /\ Used(n, g)' = rest + IF x \in Made(n, <<g, "">>)' THEN r.cur ELSE 0
  <1> DEFINE k == <<g, "">>
             M == Made(n, k)
             N == Made(n, k)'
             A == M \ {x}
             s == Sizes
             t == Sizes'
  <1>1. lv' \in [Names -> Lvs] /\ lv'[x] = r /\ \A y \in Names : y # x => lv'[y] = lv[y] BY OneObject
  <1> USE <1>1
  <1>2. M \in SUBSET Names /\ N \in SUBSET Names /\ A \in SUBSET Names
    BY MadeNames DEF Made, On, Objects
  <1> USE <1>2
  <1>3. N \ {x} = A BY DEF Made, On, Objects
  <1> USE <1>3
  <1>4. \A y \in Names : s[y] = lv[y].cur /\ t[y] = lv'[y].cur BY DEF Sizes
  <1> USE <1>4
  <1>5. \A y \in Names : s[y] \in Nat /\ t[y] \in Nat
    <2>1. \A y \in Names : lv[y].cur \in Nat BY LvFields
    <2>2. \A y \in Names : lv'[y].cur \in Nat BY DEF Lvs
    <2> QED BY <2>1, <2>2
  <1> USE <1>5
  <1>6. IsFiniteSet(M) /\ IsFiniteSet(N) /\ IsFiniteSet(A) BY NamesFinite, FS_Subset
  <1> USE <1>6
  <1>7. Used(n, g) = SumFunctionOnSet(s, M) /\ Used(n, g)' = SumFunctionOnSet(t, N) BY DEF Used
  <1>8. s[x] = lv[x].cur /\ t[x] = r.cur OBVIOUS
  <1>9. \A y \in A : s[y] \in Nat /\ t[y] = s[y] OBVIOUS
  <1> USE <1>9
  <1> HIDE DEF M, N, s, t
  <1> DEFINE rest == SumFunctionOnSet(s, A)
  <1>10. rest \in Nat BY SumNat
  <1> USE <1>10
  <1>11. SumFunctionOnSet(t, A) = rest BY SumSame
  <1> USE <1>11
  <1>12. \A y \in M : s[y] \in Nat OBVIOUS
  <1>13. \A y \in N : t[y] \in Nat OBVIOUS
  <1>14. SumFunctionOnSet(s, M) = rest + IF x \in M THEN s[x] ELSE 0
    <2>1. CASE x \in M
      <3> USE <2>1
      <3>1. SumFunctionOnSet(s, M) = s[x] + rest BY <1>12, SumRemove, SMT
      <3>2. s[x] \in Nat OBVIOUS
      <3> HIDE DEF rest
      <3>3. SumFunctionOnSet(s, M) = rest + s[x] BY <3>1, <3>2, SMT
      <3> QED BY <3>3
    <2>2. CASE x \notin M
      <3> USE <2>2
      <3>1. A = M OBVIOUS
      <3>2. rest = rest + 0 BY SMT
      <3> QED BY <3>1, <3>2
    <2> QED BY <2>1, <2>2
  <1>15. SumFunctionOnSet(t, N) = rest + IF x \in N THEN t[x] ELSE 0
    <2>1. CASE x \in N
      <3> USE <2>1
      <3>1. SumFunctionOnSet(t, N) = t[x] + SumFunctionOnSet(t, N \ {x}) BY <1>13, SumRemove, SMT
      <3>2. t[x] \in Nat /\ SumFunctionOnSet(t, N) = t[x] + rest BY <3>1
      <3> HIDE DEF rest
      <3>3. SumFunctionOnSet(t, N) = rest + t[x] BY <3>2, SMT
      <3> QED BY <3>3
    <2>2. CASE x \notin N
      <3> USE <2>2
      <3>1. A = N OBVIOUS
      <3>2. rest = rest + 0 BY SMT
      <3> QED BY <3>1, <3>2
    <2> QED BY <2>1, <2>2
  <1> HIDE DEF rest
  <1> QED BY <1>7, <1>8, <1>14, <1>15 DEF M, N
FreeOK == \A n \in Nodes : \A g \in DOMAIN VgSize[n] : VGFree(n, g) >= 0

LEMMA FreeIs ==
  ASSUME Types, NEW n \in Nodes, NEW g \in DOMAIN VgSize[n]
  PROVE  /\ VGFree(n, g) = VgSize[n][g] - Gi * Used(n, g)
         /\ Used(n, g) \in Nat /\ VgSize[n][g] \in Nat /\ Gi \in Nat \ {0}
  <1>1. VGFree(n, g) = VgSize[n][g] - Gi * Used(n, g) BY DEF VGFree, Used, Sizes
  <1>2. Used(n, g) \in Nat BY MadeNames, PartSum DEF Used
  <1> QED BY <1>1, <1>2, ConfigAssumption, PlacementAssumption

\* The arithmetic of a volume of a gibibytes that becomes one of b.
LEMMA Room ==
  ASSUME NEW G \in Nat, NEW v \in Nat, NEW rest \in Nat, NEW a \in Nat, NEW b \in Nat,
         v - G * (rest + a) >= 0, b = 0 \/ b = a \/ v - G * (rest + a) >= (b - a) * G
  PROVE  v - G * (rest + b) >= 0
  <1>1. G * (rest + a) = G * rest + G * a BY SMT
  <1> USE <1>1
  <1>2. G * (rest + b) = G * rest + G * b BY SMT
  <1> USE <1>2
  <1>3. (b - a) * G = G * b - G * a BY SMT
  <1>4. G * a \in Nat /\ G * b \in Nat /\ G * rest \in Nat BY SMT
  <1> USE <1>4
  <1>5. b = 0 => G * b = 0 BY SMT
  <1>6. b = a => G * b = G * a OBVIOUS
  <1> DEFINE x == G * a
             y == G * b
             z == G * rest
  <1> HIDE DEF x, y, z
  <1>7. CASE b = 0
    <2>1. y = 0 /\ v - (z + x) >= 0 BY <1>5, <1>7 DEF x, y, z
    <2>2. x \in Nat /\ y \in Nat /\ z \in Nat BY DEF x, y, z
    <2>3. v - (z + y) >= 0 BY <2>1, <2>2, SMT
    <2> QED BY <2>3 DEF y, z
  <1>8. CASE b = a BY <1>8, SMT
  <1>9. CASE v - G * (rest + a) >= (b - a) * G
    <2>1. v - (z + x) >= y - x BY <1>3, <1>9 DEF x, y, z
    <2>2. x \in Nat /\ y \in Nat /\ z \in Nat BY DEF x, y, z
    <2>3. v - (z + y) >= 0 BY <2>1, <2>2, SMT
    <2> QED BY <2>3 DEF y, z
  <1> QED BY <1>7, <1>8, <1>9

\* No group is used beyond its size.
LEMMA FreeKept ==
  ASSUME IInv, FreeOK, NEW x \in Names, NEW r, Change(x, r)
  PROVE  FreeOK'
  <1> SUFFICES ASSUME NEW n \in Nodes, NEW g \in DOMAIN VgSize[n] PROVE VGFree(n, g)' >= 0
    BY DEF FreeOK
  <1> DEFINE k == <<g, "">>
             o == lv[x]
             a == IF x \in Made(n, k) THEN o.cur ELSE 0
             b == IF x \in Made(n, k)' THEN r.cur ELSE 0
  <1>1. Types /\ r \in Lvs /\ r.cur \in Nat /\ o.cur \in Nat /\ lv' = [lv EXCEPT ![x] = r]
    BY LvFields DEF IInv, Change, Lvs
  <1>2. lv'[x] = r BY <1>1, OneObject
  <1>3. PICK rest \in Nat : Used(n, g) = rest + a /\ Used(n, g)' = rest + b BY <1>1, UsedRest
  <1>4. VGFree(n, g) = VgSize[n][g] - Gi * (rest + a) /\ VgSize[n][g] \in Nat /\ Gi \in Nat
    BY <1>1, <1>3, FreeIs
  <1>5. VGFree(n, g)' = VgSize[n][g] - Gi * (rest + b) BY <1>3 DEF VGFree, Used, Sizes
  <1>6. VGFree(n, g) >= 0 BY DEF FreeOK
  <1>7. a \in Nat /\ b \in Nat BY <1>1
  <1>8. x \in Made(n, k) <=> o.code # "none" /\ o.node = n /\ o.key = k /\ o.cur > 0 BY MadeNames
  <1>9. x \in Made(n, k)' <=> r.code # "none" /\ r.node = n /\ r.key = k /\ r.cur > 0
    BY <1>2 DEF Made, On, Objects
  <1>10. k[1] = g /\ k[2] = "" OBVIOUS
  <1>11. ~(o.cur > 0) => o.cur = 0 BY <1>1, SMT
  <1>12. ~(r.cur > 0) => r.cur = 0 BY <1>1, SMT
  <1>13. b = 0 \/ b = a \/ VGFree(n, g) >= (b - a) * Gi
    <2>1. CASE ~(x \in Made(n, k)') BY <2>1
    <2>2. CASE x \in Made(n, k)'
      <3>1. r.code # "none" /\ r.node = n /\ r.key = k /\ r.cur > 0 /\ b = r.cur BY <1>9, <2>2
      <3>a. r.cur \in Nat /\ r.cur > 0 BY <1>1, <3>1
      <3>2. r.cur # 0 BY <3>a, SMT
      <3>3. /\ r.node = o.node /\ r.key = o.key /\ o.code # "none"
            /\ \/ r.cur = o.cur
               \/ LvmOutcome(n, g, r.cur - o.cur) = "ok"
        BY <1>10, <3>1, <3>2 DEF Change
      <3>4. a = o.cur BY <1>8, <1>11, <3>1, <3>3
      <3>5. CASE r.cur = o.cur BY <3>1, <3>4, <3>5
      <3>6. CASE LvmOutcome(n, g, r.cur - o.cur) = "ok"
        <4>1. ~(VGFree(n, g) < (b - a) * Gi)
          <5>1. LvmOutcome(n, g, b - a) = "ok" BY <3>1, <3>4, <3>6
          <5>2. "internal" # "ok" OBVIOUS
          <5> HIDE DEF a, b
          <5> QED BY <5>1, <5>2 DEF LvmOutcome
        <4> HIDE DEF a, b
        <4>2. Gi * (rest + a) \in Int /\ (b - a) * Gi \in Int BY <1>4, <1>7, SMT
        <4>3. VGFree(n, g) \in Int BY <1>4, <4>2, SMT
        <4>4. VGFree(n, g) >= (b - a) * Gi BY <4>1, <4>2, <4>3, SMT
        <4> QED BY <4>4
      <3> QED BY <3>3, <3>5, <3>6
    <2> QED BY <2>1, <2>2
  <1> HIDE DEF a, b
  <1> DEFINE v == VgSize[n][g]
  <1>14. v - Gi * (rest + a) >= 0 /\ (b = 0 \/ b = a \/ v - Gi * (rest + a) >= (b - a) * Gi)
    BY <1>4, <1>6, <1>13
  <1>15. v \in Nat /\ Gi \in Nat BY <1>4
  <1> HIDE DEF v
  <1>16. v - Gi * (rest + b) >= 0 BY <1>7, <1>14, <1>15, Room
  <1> QED BY <1>5, <1>16 DEF v

\* Every partition lies on its disk.
SpaceOK(o) == o.cur > 0 /\ o.key[2] # "" => o.at >= 1 /\ o.at + o.cur - 1 <= DiskSize[o.node][o.key]
DisksOK == \A x \in Names : SpaceOK(lv[x])

LEMMA DisksKept ==
  ASSUME IInv, DisksOK, NEW x \in Names, NEW r, Change(x, r)
  PROVE  DisksOK'
  <1>1. Types /\ r \in Lvs /\ r.cur \in Nat /\ lv' = [lv EXCEPT ![x] = r] BY DEF IInv, Change, Lvs
  <1> USE <1>1
  <1>2. lv'[x] = r /\ \A y \in Names : y # x => lv'[y] = lv[y] BY OneObject
  <1>3. r.cur > 0 => r.cur # 0 BY SMT
  <1>4. SpaceOK(lv[x]) BY DEF DisksOK
  <1>5. SpaceOK(r) BY <1>3, <1>4 DEF SpaceOK, Change
  <1> QED BY <1>2, <1>5 DEF DisksOK

LEMMA DisksInside ==
  ASSUME IInv, DisksOK, NEW n \in Nodes, NEW k \in DOMAIN DiskSize[n]
  PROVE  Occupied(n, k) \subseteq 1..DiskSize[n][k]
  <1>1. k[2] # "" /\ DiskSize[n][k] \in Nat BY ConfigAssumption
  <1>2. ASSUME NEW x \in Made(n, k) PROVE Cells(x) \subseteq 1..DiskSize[n][k]
    <2>1. x \in Names /\ lv[x].node = n /\ lv[x].key = k /\ lv[x].cur > 0 BY MadeNames
    <2>2. lv[x].at >= 1 /\ lv[x].at + lv[x].cur - 1 <= DiskSize[n][k]
      BY <1>1, <2>1 DEF DisksOK, SpaceOK
    <2>3. lv[x].at \in Nat /\ lv[x].cur \in Nat BY <2>1, LvFields DEF IInv
    <2> DEFINE i == lv[x].at
               m == lv[x].cur
               d == DiskSize[n][k]
    <2>4. i >= 1 /\ i + m - 1 <= d /\ i \in Nat /\ m \in Nat /\ d \in Nat BY <1>1, <2>2, <2>3
    <2>5. Cells(x) = i..(i + m - 1) BY DEF Cells
    <2> HIDE DEF i, m, d
    <2>6. i..(i + m - 1) \subseteq 1..d BY <2>4, SMT
    <2> QED BY <2>5, <2>6 DEF d
  <1> QED BY <1>2 DEF Occupied
SpaceInv == IInv /\ FreeOK /\ DisksOK

LEMMA InitSpace == Init => SpaceInv
  <1> SUFFICES ASSUME Init PROVE SpaceInv OBVIOUS
  <1>1. IInv BY InitIInv
  <1> USE <1>1
  <1>2. \A x \in Names : lv[x] = NoLv BY DEF Init
  <1> USE <1>2
  <1>3. ASSUME NEW n \in Nodes, NEW g \in DOMAIN VgSize[n] PROVE VGFree(n, g) >= 0
    <2>1. Made(n, <<g, "">>) = {} BY NoLvFields DEF Made, On, Objects
    <2>2. Used(n, g) = 0 BY <2>1, SumEmpty DEF Used
    <2>3. VGFree(n, g) = VgSize[n][g] - Gi * 0 /\ VgSize[n][g] \in Nat /\ Gi \in Nat
      BY <2>2, FreeIs DEF IInv
    <2> QED BY <2>3, SMT
  <1>4. ~(NoLv.cur > 0) BY SMT DEF NoLv
  <1>5. DisksOK BY <1>4 DEF DisksOK, SpaceOK
  <1> QED BY <1>3, <1>5 DEF SpaceInv, FreeOK

LEMMA NextSpace == SpaceInv /\ [Next]_vars => SpaceInv'
  <1> SUFFICES ASSUME SpaceInv, [Next]_vars PROVE SpaceInv' OBVIOUS
  <1>1. IInv /\ FreeOK /\ DisksOK BY DEF SpaceInv
  <1> USE <1>1
  <1>2. IInv' BY NextIInv
  <1> USE <1>2
  <1>3. CASE lv' = lv
    <2> USE <1>3
    <2>1. FreeOK' BY DEF FreeOK, VGFree, Made, On, Objects
    <2>2. DisksOK' BY DEF DisksOK
    <2> QED BY <2>1, <2>2 DEF SpaceInv
  <1>4. ASSUME NEW x \in Names, NEW r, Change(x, r) PROVE SpaceInv'
    BY <1>4, FreeKept, DisksKept DEF SpaceInv
  <1> QED BY <1>3, <1>4, NextChange

LEMMA SpaceAlways == Spec => []SpaceInv
  BY InitSpace, NextSpace, PTL DEF Spec

LEMMA SpaceTypeOK == SpaceInv => TypeOK
  <1> SUFFICES ASSUME SpaceInv PROVE TypeOK OBVIOUS
  <1>1. IInv /\ Types /\ ObjectsOK /\ FreeOK /\ DisksOK BY DEF SpaceInv, IInv
  <1> USE <1>1
  <1>2. claim \in [Claims -> [phase : {"none", "pending", "bound"}, sel : Nodes \cup {NoNode}]]
    BY DEF Types, Somewhere
  <1>3. ASSUME NEW c \in Claims
        PROVE  call[c].at \in {"idle", "data", "cache"} /\ pv[c].node \in Nodes \cup {NoNode}
    <2>1. pv[c] \in Spots BY DEF Types
    <2> QED BY <2>1, ClaimFields DEF Spots, Somewhere
  <1>4. ASSUME NEW x \in Objects PROVE lv[x].cur <= lv[x].gb /\ lv[x].code \in {"OK", "exhausted", "internal"}
    <2>1. x \in Names /\ lv[x].code # "none" BY DEF Objects
    <2> QED BY <2>1, LvFields DEF ObjectsOK, ObjectOK
  <1>5. \A n \in Nodes : \A k \in DOMAIN DiskSize[n] : Occupied(n, k) \subseteq 1..DiskSize[n][k]
    BY DisksInside
  <1> QED BY <1>2, <1>3, <1>4, <1>5 DEF TypeOK, Types, FreeOK

\* Every variable has a value of its kind; the volumes of a group never take more
\* than its size and a partition lies on its disk, although createLV and expandLV
\* compare unsigned sizes, and although objects are put by reports that are old.
THEOREM WithinSize == Spec => []TypeOK
  BY SpaceAlways, SpaceTypeOK, PTL

-----------------------------------------------------------------------------
(* Reports                                                                 *)

LEMMA QuotientMonotone ==
  ASSUME NEW G \in Nat \ {0}, NEW l \in Nat, NEW m \in Nat, l <= m
  PROVE  l \div G <= m \div G
  <1> DEFINE p == l \div G
             q == m \div G
  <1>1. p \in Nat /\ q \in Nat /\ G * p <= l /\ m < G * q + G BY Quotient
  <1> USE <1>1
  <1> HIDE DEF p, q
  <1>2. ASSUME p >= q + 1 PROVE FALSE
    <2>1. PICK e \in Nat : p = q + 1 + e
      <3>1. p - (q + 1) \in Nat /\ p = q + 1 + (p - (q + 1)) BY <1>2, SMT
      <3> QED BY <3>1
    <2>2. G * p = G * q + G + G * e BY <2>1, SMT
    <2>3. G * e \in Nat /\ G * q \in Nat BY SMT
    <2> QED BY <2>2, <2>3, SMT
  <1>3. p <= q BY <1>2, SMT
  <1> QED BY <1>3 DEF p, q

\* A volume of the size that is reported for a group is not refused.
LEMMA RoundedUp ==
  ASSUME NEW free \in Int, free > Reserved
  PROVE  /\ FreeGb(free) \in Nat
         /\ ~(free < FreeGb(free) * Gi) /\ ~(free - FreeGb(free) * Gi < Reserved - Edge)
  <1>1. Gi \in Nat \ {0} /\ Edge \in Nat /\ Reserved \in Nat /\ Edge >= Gi /\ Reserved >= Edge
    BY PlacementAssumption
  <1> USE <1>1
  <1> DEFINE m == free - Reserved
             q == m \div Gi
  <1>2. m \in Nat BY SMT
  <1> USE <1>2
  <1> HIDE DEF m
  <1>3. q \in Nat /\ Gi * q <= m BY Quotient
  <1> USE <1>3
  <1>4. FreeGb(free) = q + 1 BY DEF FreeGb, m
  <1> HIDE DEF q
  <1>5. (q + 1) * Gi = Gi * q + Gi /\ Gi * q \in Nat BY SMT
  <1> USE <1>5
  <1>6. free = m + Reserved BY SMT DEF m
  <1> DEFINE w == Gi * q
  <1>7. w \in Nat /\ w <= m OBVIOUS
  <1> HIDE DEF w
  <1>8. ~(free < w + Gi) /\ ~(free - (w + Gi) < Reserved - Edge) BY <1>6, <1>7, SMT
  <1> QED BY <1>4, <1>8, SMT DEF w

LEMMA LvmHonest ==
  ASSUME Types, NEW n \in Nodes, NEW g \in DOMAIN VgSize[n], FreeGb(VGFree(n, g)) > 0
  PROVE  LvmOutcome(n, g, FreeGb(VGFree(n, g))) = "ok"
  <1> DEFINE free == VGFree(n, g)
  <1>1. free = VgSize[n][g] - Gi * Used(n, g) /\ Used(n, g) \in Nat /\ VgSize[n][g] \in Nat /\ Gi \in Nat
    BY FreeIs, SMT
  <1>2. free \in Int BY <1>1, SMT
  <1> HIDE DEF free
  <1>3. free > Reserved
    <2>1. ASSUME ~(free > Reserved) PROVE FALSE
      <3>1. FreeGb(free) = 0 BY <2>1 DEF FreeGb
      <3>2. FreeGb(free) > 0 BY DEF free
      <3> QED BY <3>1, <3>2, SMT
    <2> QED BY <2>1
  <1>4. ~(free < FreeGb(free) * Gi) /\ ~(free - FreeGb(free) * Gi < Reserved - Edge)
    BY <1>2, <1>3, RoundedUp
  <1> QED BY <1>4 DEF LvmOutcome, free
LEMMA GapFound ==
  ASSUME NEW n \in Nodes, NEW k \in DOMAIN DiskSize[n]
  PROVE  /\ LargestGap(n, k) \in 0..DiskSize[n][k]
         /\ LargestGap(n, k) > 0 => Starts(n, k, LargestGap(n, k)) # {}
  <1> DEFINE d == DiskSize[n][k]
             T == {0} \cup {gb \in 1..d : Starts(n, k, gb) # {}}
  <1>1. d \in Nat BY ConfigAssumption
  <1> USE <1>1
  <1>2. 0 \in T OBVIOUS
  <1>3. \A t \in T : t = 0 \/ (t \in 1..d /\ Starts(n, k, t) # {}) OBVIOUS
  <1> USE <1>3
  <1>4. LargestGap(n, k) = Max(T) BY DEF LargestGap
  <1> HIDE DEF d, T
  <1>5. 0 \in 0..d /\ 1..d \subseteq 0..d BY SMT
  <1>6. T \in SUBSET (0..d) BY <1>5
  <1> USE <1>6
  <1>7. Max(T) \in T BY <1>2, Greatest
  <1> USE <1>7
  <1>8. Max(T) \in 0..d OBVIOUS
  <1>9. ~(0 > 0) BY SMT
  <1> QED BY <1>4, <1>8, <1>9 DEF d

LEMMA CapacityNat ==
  ASSUME NEW n \in Nodes, NEW k \in KeysOf(n)
  PROVE  CapacityOf(n, k) \in Nat
  <1>1. CASE k[2] = ""
    <2>1. k \notin DOMAIN DiskSize[n] BY <1>1, KeysOfNode
    <2>2. PICK g \in DOMAIN VgSize[n] : k = <<g, "">> BY <2>1 DEF KeysOf
    <2>3. k[1] = g BY <2>2
    <2> DEFINE v == VgSize[n][g]
    <2>4. v \in Nat /\ Gi \in Nat \ {0} BY ConfigAssumption, PlacementAssumption
    <2> HIDE DEF v
    <2>5. v \div Gi \in Nat BY <2>4, Quotient
    <2>6. v \div Gi + 1 \in Nat BY <2>5, SMT
    <2>7. CapacityOf(n, k) = v \div Gi + 1 BY <1>1, <2>3 DEF CapacityOf, v
    <2> QED BY <2>6, <2>7
  <1>2. CASE k[2] # ""
    <2>1. k \in DOMAIN DiskSize[n] BY <1>2, KeysOfNode
    <2>2. DiskSize[n][k] \in Nat BY <2>1, ConfigAssumption
    <2> QED BY <1>2, <2>2 DEF CapacityOf
  <1> QED BY <1>1, <1>2

LEMMA LvmBelowCapacity ==
  ASSUME Types, NEW n \in Nodes, NEW g \in DOMAIN VgSize[n]
  PROVE  FreeGb(VGFree(n, g)) \in Nat /\ FreeGb(VGFree(n, g)) <= VgSize[n][g] \div Gi + 1
  <1> DEFINE free == VGFree(n, g)
             v == VgSize[n][g]
             u == Gi * Used(n, g)
  <1>1. free = v - u /\ Used(n, g) \in Nat /\ v \in Nat /\ Gi \in Nat \ {0} BY FreeIs
  <1> USE <1>1
  <1>2. u \in Nat BY SMT
  <1>3. Reserved \in Nat BY PlacementAssumption
  <1> HIDE DEF free, v, u
  <1>4. v \div Gi \in Nat BY Quotient
  <1> USE <1>4
  <1>5. CASE ~(free > Reserved)
    <2>1. FreeGb(free) = 0 BY <1>5 DEF FreeGb
    <2> QED BY <2>1, SMT DEF free, v
  <1>6. CASE free > Reserved
    <2> USE <1>6
    <2> DEFINE m == free - Reserved
    <2>1. m \in Nat /\ m <= v BY <1>2, <1>3, SMT
    <2>2. FreeGb(free) = m \div Gi + 1 BY DEF FreeGb
    <2> HIDE DEF m
    <2>3. m \div Gi \in Nat /\ m \div Gi <= v \div Gi BY <2>1, Quotient, QuotientMonotone
    <2> QED BY <2>2, <2>3, SMT DEF free, v
  <1> QED BY <1>5, <1>6

LEMMA StatusOK ==
  ASSUME Types, NEW n \in Nodes
  PROVE  ReportOK(n, generateStatus(n))
  <1> DEFINE lvm == generateLvmStatus(n)
             raw == generateDiskStatus(n)
             all == generateStatus(n).alloc
  <1>1. /\ DOMAIN all = DOMAIN lvm \cup DOMAIN raw
        /\ \A k \in DOMAIN all : all[k] = IF k \in DOMAIN lvm THEN lvm[k] ELSE raw[k]
    BY DEF generateStatus
  <1>2. ASSUME NEW k \in DOMAIN lvm PROVE k \in KeysOf(n) /\ lvm[k] \in Nat /\ lvm[k] <= CapacityOf(n, k)
    <2>1. k \in {<<g, "">> : g \in DOMAIN VgSize[n]} /\ lvm[k] = FreeGb(VGFree(n, k[1]))
      BY <1>2 DEF generateLvmStatus
    <2> USE <2>1
    <2>2. PICK g \in DOMAIN VgSize[n] : k = <<g, "">> OBVIOUS
    <2>3. k[1] = g /\ k[2] = "" BY <2>2
    <2>4. CapacityOf(n, k) = VgSize[n][g] \div Gi + 1 BY <2>3 DEF CapacityOf
    <2>5. k \in KeysOf(n) BY DEF KeysOf
    <2> QED BY <2>3, <2>4, <2>5, LvmBelowCapacity
  <1>3. ASSUME NEW k \in DOMAIN raw PROVE k \in KeysOf(n) /\ raw[k] \in Nat /\ raw[k] <= CapacityOf(n, k)
    <2>1. k \in DOMAIN DiskSize[n] /\ raw[k] = LargestGap(n, k) BY <1>3 DEF generateDiskStatus
    <2> USE <2>1
    <2>2. k[2] # "" /\ DiskSize[n][k] \in Nat BY ConfigAssumption
    <2>3. CapacityOf(n, k) = DiskSize[n][k] BY <2>2 DEF CapacityOf
    <2>4. LargestGap(n, k) \in 0..DiskSize[n][k] BY GapFound
    <2> DEFINE l == LargestGap(n, k)
               d == DiskSize[n][k]
    <2> HIDE DEF l, d
    <2>a. d \in Nat /\ l \in 0..d BY <2>2, <2>4 DEF l, d
    <2>b. l \in Nat /\ l <= d BY <2>a, SMT
    <2>5. LargestGap(n, k) \in Nat /\ LargestGap(n, k) <= DiskSize[n][k] BY <2>b DEF l, d
    <2>6. k \in KeysOf(n) BY DEF KeysOf
    <2> QED BY <2>3, <2>5, <2>6
  <1> HIDE DEF lvm, raw
  <1>4. \A k \in DOMAIN all : k \in KeysOf(n) /\ all[k] \in Nat /\ all[k] <= CapacityOf(n, k)
    BY <1>1, <1>2, <1>3
  <1> QED BY <1>4 DEF ReportOK
LEMMA ReportSteps ==
  ASSUME [Next]_vars
  PROVE  report' = report \/ \E n \in Nodes : report' = [report EXCEPT ![n] = generateStatus(n)]
  <1>1. CASE UNCHANGED vars BY <1>1 DEF vars
  <1>2. ASSUME NEW n \in Nodes, Report(n) PROVE report' = [report EXCEPT ![n] = generateStatus(n)]
    BY <1>2 DEF Report
  <1>3. ASSUME NEW x \in Names, createLV(x) \/ expandLV(x) \/ Sync(x) PROVE report' = report
    BY <1>3 DEF createLV, expandLV, Sync
  <1>4. ASSUME NEW p \in Pods, Schedule(p) PROVE report' = report BY <1>4 DEF Schedule
  <1>5. ASSUME NEW c \in Claims, Provision(c) PROVE report' = report
    BY <1>5 DEF Provision, CreateVolume, CreateCache, Provisioned, Refused
  <1>6. ASSUME NEW c \in Claims, Timeout(c) \/ ControllerExpandVolume(c) \/ ExpandCache(c)
        PROVE  report' = report
    BY <1>6 DEF Timeout, ControllerExpandVolume, ExpandCache
  <1>7. ASSUME NEW c \in Claims, DeleteVolume(c) \/ Collect(c) PROVE report' = report
    BY <1>7 DEF DeleteVolume, Collect
  <1> QED BY <1>1, <1>2, <1>3, <1>4, <1>5, <1>6, <1>7 DEF Next

LEMMA ReportsKept ==
  ASSUME IInv, ReportsOK, [Next]_vars
  PROVE  ReportsOK'
  <1>1. Types /\ DOMAIN report = Nodes BY DEF IInv, Types
  <1> USE <1>1
  <1>2. CASE report' = report BY <1>2 DEF ReportsOK
  <1>3. ASSUME NEW n \in Nodes, report' = [report EXCEPT ![n] = generateStatus(n)] PROVE ReportsOK'
    <2>1. report'[n] = generateStatus(n) /\ \A m \in Nodes : m # n => report'[m] = report[m]
      BY <1>3
    <2>2. \A m \in Nodes : ReportOK(m, report'[m]) BY <2>1, StatusOK DEF ReportsOK
    <2> QED BY <2>2 DEF ReportsOK
  <1> QED BY <1>2, <1>3, ReportSteps

LEMMA AllKeysFinite == IsFiniteSet(UNION {KeysOf(n) : n \in Nodes})
  <1> DEFINE T == {KeysOf(n) : n \in Nodes}
             f == [n \in Nodes |-> KeysOf(n)]
  <1>1. IsFiniteSet(Nodes) BY ConfigAssumption
  <1>2. f \in Surjection(Nodes, T) BY DEF Surjection
  <1>3. IsFiniteSet(T) BY <1>1, <1>2, FS_Surjection
  <1>4. \A t \in T : IsFiniteSet(t) BY KeysFinite
  <1> QED BY <1>3, <1>4, FS_UNION

\* The capacity that is returned counts every place that SelectNode may take.
LEMMA CapacityHonest ==
  ASSUME IInv, ReportsOK, NEW c \in Claims, NEW p \in SelectNode(c)
  PROVE  GetTotalCapacity(c) >= Gb(c)
  <1>1. Types /\ ready \subseteq Nodes BY DEF IInv, Types
  <1> USE <1>1
  <1>2. PICK n \in ready : n \in Nodes /\ p \in Suitable(c, n) BY SelectNodePlace
  <1> USE <1>2
  <1> DEFINE k == p.key
             reported == {q \in ready \X UNION {DOMAIN report[m].alloc : m \in Nodes} :
                            q[2] \in DOMAIN report[q[1]].alloc}
             f == [q \in reported |-> CapacityOf(q[1], q[2])]
             S == {q \in reported : Eligible(c, q[1], q[2])}
             z == <<n, k>>
  <1>3. k \in DOMAIN report[n].alloc /\ Eligible(c, n, k) /\ report[n].alloc[k] >= Gb(c)
    BY SuitablePlace
  <1> USE <1>3
  <1>4. GetTotalCapacity(c) = SumFunctionOnSet(f, S) BY DEF GetTotalCapacity
  <1>5. z[1] = n /\ z[2] = k OBVIOUS
  <1> USE <1>5
  <1>6. z \in ready \X UNION {DOMAIN report[m].alloc : m \in Nodes} OBVIOUS
  <1>7. z \in reported /\ z \in S BY <1>6
  <1> USE <1>7
  <1>8. \A q \in reported : q[1] \in Nodes /\ q[2] \in KeysOf(q[1])
    BY DEF Types
  <1> USE <1>8
  <1>9. IsFiniteSet(S)
    <2> DEFINE K == UNION {KeysOf(m) : m \in Nodes}
    <2>1. IsFiniteSet(Nodes) /\ IsFiniteSet(K) BY ConfigAssumption, AllKeysFinite
    <2>2. IsFiniteSet(Nodes \X K) BY <2>1, FS_Product
    <2>3. \A q \in S : q \in Nodes \X K
      <3> SUFFICES ASSUME NEW q \in S PROVE q \in Nodes \X K OBVIOUS
      <3>1. q \in ready \X UNION {DOMAIN report[m].alloc : m \in Nodes} OBVIOUS
      <3>2. q = <<q[1], q[2]>> BY <3>1, SMT
      <3>3. q[1] \in Nodes /\ q[2] \in K OBVIOUS
      <3> QED BY <3>2, <3>3
    <2>4. S \in SUBSET (Nodes \X K) BY <2>3
    <2> HIDE DEF K, S
    <2> QED BY <2>2, <2>4, FS_Subset
  <1> USE <1>9
  <1>10. \A q \in S : f[q] \in Nat
    <2>1. \A q \in S : q \in reported /\ f[q] = CapacityOf(q[1], q[2]) OBVIOUS
    <2> QED BY <2>1, CapacityNat
  <1> USE <1>10
  <1>11. f[z] = CapacityOf(n, k) OBVIOUS
  <1> HIDE DEF f, S, z, reported
  <1>12. IsFiniteSet(S \ {z}) /\ \A q \in S \ {z} : f[q] \in Nat BY FS_Subset
  <1> DEFINE rest == SumFunctionOnSet(f, S \ {z})
  <1>13. SumFunctionOnSet(f, S) = f[z] + rest BY SumRemove, SMT
  <1>14. rest \in Nat BY <1>12, SumNat
  <1>15. f[z] \in Nat OBVIOUS
  <1>16. report[n].alloc[k] \in Nat /\ report[n].alloc[k] <= f[z]
    BY <1>11 DEF ReportsOK, ReportOK
  <1>17. Gb(c) \in Nat BY GbNat
  <1> DEFINE a == report[n].alloc[k]
             total == SumFunctionOnSet(f, S)
             v == f[z]
  <1>18. a >= Gb(c) /\ a <= v /\ a \in Nat /\ v \in Nat /\ total = v + rest
    BY <1>13, <1>15, <1>16
  <1> HIDE DEF a, total, v, rest
  <1>19. total >= Gb(c) BY <1>14, <1>17, <1>18, SMT
  <1> QED BY <1>4, <1>19 DEF total

ReportInv == SpaceInv /\ ReportsOK

LEMMA ReportAlways == Spec => []ReportInv
  <1>1. Init => ReportInv
    <2> SUFFICES ASSUME Init PROVE ReportInv OBVIOUS
    <2>1. SpaceInv BY InitSpace
    <2>2. report = [n \in Nodes |-> generateStatus(n)] BY DEF Init
    <2> QED BY <2>1, <2>2, StatusOK DEF ReportInv, ReportsOK, SpaceInv, IInv
  <1>2. ReportInv /\ [Next]_vars => ReportInv'
    BY NextSpace, ReportsKept DEF ReportInv, SpaceInv
  <1> QED BY <1>1, <1>2, PTL DEF Spec

LEMMA ReportInvHonest == ReportInv => ReportHonest
  <1> SUFFICES ASSUME ReportInv PROVE ReportHonest OBVIOUS
  <1>1. IInv /\ Types /\ ReportsOK BY DEF ReportInv, SpaceInv, IInv
  <1> USE <1>1
  <1>2. ASSUME NEW n \in Nodes, NEW k \in DOMAIN generateLvmStatus(n), generateLvmStatus(n)[k] > 0
        PROVE  LvmOutcome(n, k[1], generateLvmStatus(n)[k]) = "ok"
    <2> USE <1>2
    <2>1. k \in {<<g, "">> : g \in DOMAIN VgSize[n]} /\ generateLvmStatus(n)[k] = FreeGb(VGFree(n, k[1]))
      BY DEF generateLvmStatus
    <2> USE <2>1
    <2>2. PICK g \in DOMAIN VgSize[n] : k = <<g, "">> OBVIOUS
    <2>3. k[1] = g BY <2>2
    <2> QED BY <2>3, LvmHonest
  <1>3. ASSUME NEW n \in Nodes, NEW k \in DOMAIN generateDiskStatus(n)
        PROVE  Starts(n, k, generateDiskStatus(n)[k]) # {}
    <2>1. /\ k \in DOMAIN DiskSize[n] /\ LargestGap(n, k) > 0
          /\ generateDiskStatus(n)[k] = LargestGap(n, k)
      BY <1>3 DEF generateDiskStatus
    <2> QED BY <2>1, GapFound
  <1>4. ASSUME NEW c \in Immediate, SelectNode(c) # {} PROVE GetTotalCapacity(c) >= Gb(c)
    <2>1. c \in Claims BY PlacementAssumption
    <2> QED BY <1>4, <2>1, CapacityHonest
  <1> QED BY <1>2, <1>3, <1>4 DEF ReportHonest

\* A volume of the size that a fresh report allows is not refused, for any group
\* sizes, reserve and rounding edge that the assumption admits; and GetCapacity
\* never returns less than a claim that SelectNode can place asks for.
THEOREM ReportsHonest == Spec => []ReportHonest
  BY ReportAlways, ReportInvHonest, PTL
-----------------------------------------------------------------------------
(* Exclusive disks                                                         *)

PartsOK == \A n \in Nodes : report[n].parts \in [DOMAIN DiskSize[n] -> Nat]

LEMMA StatusParts ==
  ASSUME NEW n \in Nodes
  PROVE  generateStatus(n).parts \in [DOMAIN DiskSize[n] -> Nat]
  <1>1. \A k : Cardinality(Made(n, k)) \in Nat BY MadeNames, NamesFinite, FS_Subset, FS_CardinalityType
  <1>2. generateStatus(n).parts = [k \in DOMAIN DiskSize[n] |-> Cardinality(Made(n, k))]
    BY DEF generateStatus
  <1> QED BY <1>1, <1>2

LEMMA PartsKept ==
  ASSUME IInv, PartsOK, [Next]_vars
  PROVE  PartsOK'
  <1>1. DOMAIN report = Nodes BY DEF IInv, Types
  <1>2. CASE report' = report BY <1>2 DEF PartsOK
  <1>3. ASSUME NEW n \in Nodes, report' = [report EXCEPT ![n] = generateStatus(n)] PROVE PartsOK'
    <2>1. report'[n] = generateStatus(n) /\ \A m \in Nodes : m # n => report'[m] = report[m]
      BY <1>1, <1>3
    <2>2. \A m \in Nodes : report'[m].parts \in [DOMAIN DiskSize[m] -> Nat]
      BY <2>1, StatusParts DEF PartsOK
    <2> QED BY <2>2 DEF PartsOK
  <1> QED BY <1>2, <1>3, ReportSteps

\* Objects stay where they are or go.
Staying ==
    \A y \in Names : lv'[y].code # "none" =>
        /\ lv[y].code # "none" /\ lv'[y].node = lv[y].node
        /\ lv'[y].key = lv[y].key /\ lv'[y].excl = lv[y].excl

LEMMA GrowthStays ==
  ASSUME Types, NEW x \in Names, NEW r, Growth(x, r)
  PROVE  Staying
  <1>1. r \in Lvs /\ lv' = [lv EXCEPT ![x] = r] BY DEF Growth
  <1>2. lv'[x] = r /\ \A y \in Names : y # x => lv'[y] = lv[y] BY <1>1, OneObject
  <1>3. lv[x].code # "none" /\ r.node = lv[x].node /\ r.key = lv[x].key /\ r.excl = lv[x].excl
    BY DEF Growth
  <1> QED BY <1>2, <1>3 DEF Staying

LEMMA GoneStays ==
  ASSUME IInv, NEW x \in Names, lv' = [lv EXCEPT ![x] = NoLv]
  PROVE  Staying
  <1>1. lv'[x] = NoLv /\ \A y \in Names : y # x => lv'[y] = lv[y] BY Removed
  <1> QED BY <1>1, NoLvFields DEF Staying

\* An object is put at a place that CreateVolume found, or next to the first half.
Placing(c, half, p) ==
    /\ c \in Claims /\ half \in {"data", "cache"} /\ p \in Spots
    /\ half = "data" => p \in Places(c)
    /\ lv[<<c, half>>] = NoLv /\ PutObject(c, half, p)

LEMMA PutStays ==
  ASSUME IInv, NEW c \in Claims, NEW half \in {"data", "cache"}, NEW p \in Spots, PutObject(c, half, p),
         half = "data" => p \in Places(c)
  PROVE  \/ Staying /\ shared' = shared
         \/ Placing(c, half, p)
  <1>1. CASE lv[<<c, half>>] = NoLv BY <1>1 DEF Placing
  <1>2. CASE lv[<<c, half>>] # NoLv
    <2>1. lv' = lv /\ shared' = shared BY <1>2 DEF PutObject
    <2> QED BY <2>1 DEF Staying
  <1> QED BY <1>1, <1>2

LEMMA ProvisionStays ==
  ASSUME IInv, NEW c \in Claims, Provision(c)
  PROVE  \/ Staying /\ shared' = shared
         \/ \E half, p : Placing(c, half, p)
  <1>1. CASE CreateVolume(c)
    <2>1. PICK p \in Places(c) : PutObject(c, "data", p) BY <1>1 DEF CreateVolume
    <2>2. p \in Spots BY PlacesFound DEF IInv, SpotOK
    <2> QED BY <2>1, <2>2, PutStays
  <1>2. CASE CreateCache(c)
    <2>1. PICK p \in Spots : PutObject(c, "cache", p) BY <1>2, CachePut
    <2>2. "cache" # "data" OBVIOUS
    <2> QED BY <2>1, <2>2, PutStays
  <1>3. CASE Provisioned(c) BY <1>3 DEF Provisioned, Staying, history
  <1>4. CASE Refused(c)
    <2> USE <1>4
    <2>1. call[c].at \in {"data", "cache"} BY AwaitedHalf DEF Refused
    <2>2. <<c, call[c].at>> \in Names BY <2>1, NamesOfClaim
    <2> QED BY <2>2, GoneStays DEF Refused
  <1> QED BY <1>1, <1>2, <1>3, <1>4 DEF Provision

LEMMA NodeWorkStays ==
  ASSUME IInv, NEW x \in Names, createLV(x) \/ expandLV(x) \/ Sync(x)
  PROVE  Staying /\ shared' = shared
  <1>1. shared' = shared BY DEF createLV, expandLV, Sync, history
  <1> USE <1>1
  <1>2. Types BY DEF IInv
  <1> USE <1>2
  <1>3. CASE createLV(x) BY <1>3, CreateGrowth, GrowthStays
  <1>4. CASE expandLV(x)
    <2>1. lv[x].cur > 0 /\ lv[x].cur < lv[x].gb /\ lv' = [lv EXCEPT ![x].cur = lv[x].gb]
      BY <1>4 DEF expandLV
    <2> USE <2>1
    <2>2. lv[x].gb \in Nat /\ lv[x].cur \in Nat BY LvFields
    <2> USE <2>2
    <2>3. lv[x].cur <= lv[x].gb BY SMT
    <2> QED BY <2>3, SizeGrowth, GrowthStays
  <1>5. CASE Sync(x) BY <1>5 DEF Sync, Staying
  <1> QED BY <1>3, <1>4, <1>5

LEMMA SizeStays ==
  ASSUME IInv, NEW c \in Claims, ControllerExpandVolume(c) \/ ExpandCache(c)
  PROVE  Staying /\ shared' = shared
  <1>1. shared' = shared BY DEF ControllerExpandVolume, ExpandCache, history
  <1>2. Types /\ <<c, "data">> \in Names /\ <<c, "cache">> \in Names BY NamesOfClaim DEF IInv
  <1> USE <1>2
  <1>3. \E x \in Names :
          /\ lv' = [lv EXCEPT ![x] = lv'[x]] /\ lv[x].code # "none" /\ lv'[x].node = lv[x].node
          /\ lv'[x].key = lv[x].key /\ lv'[x].excl = lv[x].excl
    <2> DEFINE x == <<c, "data">>
               y == <<c, "cache">>
    <2>1. lv \in [Names -> Lvs] /\ lv[x] \in Lvs /\ lv[y] \in Lvs BY LvFields DEF Types
    <2> USE <2>1
    <2>2. CASE ControllerExpandVolume(c)
      <3> USE <2>2
      <3>1. lv[x].cur > 0 BY DEF ControllerExpandVolume, IInv, ClaimsOK, ClaimOK, BoundOK, Data
      <3>2. lv[x].code = "OK" BY <3>1 DEF IInv, ObjectsOK, ObjectOK
      <3>3. lv[x].code # "none" BY <3>2, SMT
      <3> DEFINE new == lv[x].cur + 1
      <3>4. \/ lv' = [lv EXCEPT ![x].gb = new, ![x].cur = new]
            \/ lv' = [lv EXCEPT ![x].gb = new]
        BY DEF ControllerExpandVolume
      <3> HIDE DEF new
      <3>5. PICK r : /\ lv' = [lv EXCEPT ![x] = r]
                     /\ r = [lv[x] EXCEPT !.gb = new, !.cur = new] \/ r = [lv[x] EXCEPT !.gb = new]
        BY <3>4
      <3> USE <3>5
      <3>a. r.node = lv[x].node /\ r.key = lv[x].key /\ r.excl = lv[x].excl BY DEF Lvs
      <3>b. lv'[x] = r OBVIOUS
      <3>6. /\ lv' = [lv EXCEPT ![x] = lv'[x]] /\ lv'[x].node = lv[x].node
            /\ lv'[x].key = lv[x].key /\ lv'[x].excl = lv[x].excl
        BY <3>a, <3>b
      <3> QED BY <3>3, <3>6
    <2>3. CASE ExpandCache(c)
      <3> DEFINE gb == CacheGb(c, lv[<<c, "data">>].cur)
      <3>1. lv[y].cur > 0 /\ lv' = [lv EXCEPT ![y].gb = gb] BY <2>3 DEF ExpandCache
      <3> USE <3>1
      <3>2. lv[y].code = "OK" BY DEF IInv, ObjectsOK, ObjectOK
      <3>3. lv[y].code # "none" BY <3>2, SMT
      <3> HIDE DEF gb
      <3>4. lv' = [lv EXCEPT ![y] = [lv[y] EXCEPT !.gb = gb]] OBVIOUS
      <3>5. /\ lv' = [lv EXCEPT ![y] = lv'[y]] /\ lv'[y].node = lv[y].node
            /\ lv'[y].key = lv[y].key /\ lv'[y].excl = lv[y].excl
        BY <3>4 DEF Lvs
      <3> QED BY <3>3, <3>5
    <2> QED BY <2>2, <2>3
  <1> QED BY <1>1, <1>3 DEF Staying, Types

LEMMA NextStays ==
  ASSUME IInv, [Next]_vars
  PROVE  \/ Staying /\ shared' = shared
         \/ \E c, half, p : Placing(c, half, p) /\ report' = report
  <1>1. CASE UNCHANGED vars BY <1>1 DEF vars, history, Staying
  <1>2. ASSUME NEW n \in Nodes, Report(n) PROVE Staying /\ shared' = shared
    BY <1>2 DEF Report, Staying, history
  <1>3. ASSUME NEW p \in Pods, Schedule(p) PROVE Staying /\ shared' = shared
    BY <1>3 DEF Schedule, Staying, history
  <1>4. ASSUME NEW c \in Claims, Provision(c)
        PROVE  (Staying /\ shared' = shared) \/ \E half, p : Placing(c, half, p) /\ report' = report
    <2> USE <1>4
    <2>1. report' = report BY DEF Provision, CreateVolume, CreateCache, Provisioned, Refused
    <2> QED BY <2>1, ProvisionStays
  <1>5. ASSUME NEW c \in Claims, Timeout(c) PROVE Staying /\ shared' = shared
    BY <1>5 DEF Timeout, Staying, history
  <1>6. ASSUME NEW c \in Claims, DeleteVolume(c) \/ Collect(c) PROVE Staying /\ shared' = shared
    BY <1>6, NamesOfClaim, GoneStays DEF DeleteVolume, Collect, history
  <1> QED BY <1>1, <1>2, <1>3, <1>4, <1>5, <1>6, NodeWorkStays, SizeStays DEF Next
LEMMA StayingKept ==
  ASSUME ExclusiveAlone, Staying, shared \subseteq shared'
  PROVE  ExclusiveAlone'
  <1> SUFFICES ASSUME NEW x \in Names, lv'[x].code # "none", lv'[x].excl
               PROVE  \/ On(lv[x].node, lv[x].key)' = {x}
                      \/ Place(lv[x].node, lv[x].key)' \in shared'
    BY DEF ExclusiveAlone, Objects
  <1> DEFINE n == lv[x].node
             k == lv[x].key
  <1>1. lv[x].code # "none" /\ lv'[x].node = n /\ lv'[x].key = k /\ lv[x].excl BY DEF Staying
  <1> USE <1>1
  <1>2. Place(lv[x].node, lv[x].key)' = Place(n, k) BY DEF Place
  <1>3. CASE Place(n, k) \in shared BY <1>2, <1>3
  <1>4. CASE On(n, k) = {x}
    <2>1. ASSUME NEW y \in Names, lv'[y].code # "none", lv'[y].node = n, lv'[y].key = k PROVE y = x
      <3>1. y \in On(n, k) BY <2>1 DEF Staying, On, Objects
      <3> QED BY <1>4, <3>1
    <2>2. \A y : y \in On(lv[x].node, lv[x].key)' <=> y = x BY <2>1 DEF On, Objects
    <2> QED BY <2>2
  <1> QED BY <1>3, <1>4 DEF ExclusiveAlone, Objects

\* A disk that CreateVolume found is one that the report shows to be suitable.
LEMMA DiskPlace ==
  ASSUME Types, NEW c \in Claims, NEW p \in Places(c), p.key[2] # ""
  PROVE  /\ p.node \in Nodes /\ p.key \in DOMAIN DiskSize[p.node] /\ Eligible(c, p.node, p.key)
         /\ Kind(c) = "raw" /\ ~Cached(c)
  <1>1. SpotOK(c, p) BY PlacesFound
  <1>2. ~Cached(c) /\ Kind(c) = "raw" /\ p.node \in Nodes /\ p.key \in DOMAIN DiskSize[p.node]
    BY <1>1 DEF SpotOK
  <1> USE <1>2
  <1>3. Kind(c) # "host" /\ Kind(c) # "lvm" OBVIOUS
  <1> USE <1>3
  <1>4. CASE claim[c].sel # NoNode /\ p \in SelectDeviceGroup(c, claim[c].sel)
    <2> USE <1>4
    <2>1. p \in Suitable(c, claim[c].sel) BY SelectSubset DEF SelectDeviceGroup
    <2>2. claim[c].sel \in Nodes BY SelTyped
    <2> QED BY <2>1, <2>2, SuitablePlace
  <1>5. CASE p \in SelectNode(c)
    <2>1. PICK n \in Nodes : p \in Suitable(c, n) BY <1>5, SelectNodePlace
    <2> QED BY <2>1, SuitablePlace
  <1> QED BY <1>4, <1>5, PlaceCases

LEMMA NoneLeft ==
  ASSUME NEW i \in Nat, i # 1, i <= 1
  PROVE  i = 0
  BY SMT

\* Where the objects at a disk could be seen, a new one is put there only if none
\* is exclusive, and an exclusive one only if there is none.
LEMMA Seen ==
  ASSUME IInv, PartsOK, NEW c \in Claims, NEW p \in Places(c), p.key[2] # "", ~Excused(p, Exclusive(c))
  PROVE  /\ \A y \in On(p.node, p.key) : ~lv[y].excl
         /\ Exclusive(c) => On(p.node, p.key) = {}
  <1> DEFINE n == p.node
             k == p.key
             there == On(n, k)
             holders == {x \in there : lv[x].excl}
             parts == report[n].parts[k]
  <1>1. n \in Nodes /\ k \in DOMAIN DiskSize[n] /\ Eligible(c, n, k) /\ Kind(c) = "raw"
    BY DiskPlace DEF IInv
  <1> USE <1>1
  <1>2. k \notin getLvExclusivityDisks(n) /\ (Exclusive(c) => parts <= 1)
    <2>1. k \in DOMAIN report[n].parts /\ Contains(k, k[2]) BY DEF PartsOK, Contains
    <2> QED BY <2>1 DEF Eligible
  <1> USE <1>2
  <1>3. /\ holders # {} => ~(holders \subseteq late)
        /\ holders = {} => ~(Exclusive(c) /\ there # {} /\ (parts = 1 \/ parts # Cardinality(there)))
    BY DEF Excused
  <1> USE <1>3
  <1>4. holders = {}
    <2> SUFFICES ASSUME holders # {} PROVE FALSE OBVIOUS
    <2>1. PICK h \in holders : h \notin late OBVIOUS
    <2> USE <2>1
    <2>2. h \in Objects /\ lv[h].node = n /\ lv[h].key = k /\ lv[h].excl BY DEF On
    <2> USE <2>2
    <2>3. h \in Here(n) \ late BY DEF Here
    <2>4. k \in getLvExclusivityDisks(n) BY <2>3 DEF getLvExclusivityDisks
    <2> QED BY <2>4
  <1> USE <1>4
  <1>5. ASSUME Exclusive(c) PROVE there = {}
    <2> SUFFICES ASSUME there # {} PROVE FALSE OBVIOUS
    <2>1. parts # 1 /\ parts = Cardinality(there) /\ parts <= 1 BY <1>5
    <2> USE <2>1
    <2>2. parts \in Nat BY DEF PartsOK
    <2> HIDE DEF parts, there
    <2>a. parts \in Nat /\ parts # 1 /\ parts <= 1 BY <2>2
    <2>3. parts = 0 BY <2>a, NoneLeft
    <2>4. there \in SUBSET Names BY DEF there, On, Objects
    <2>5. IsFiniteSet(there) BY <2>4, NamesFinite, FS_Subset
    <2> QED BY <2>3, <2>5, FS_EmptySet
  <1> QED BY <1>5

LEMMA PlacingKept ==
  ASSUME IInv, IInv', PartsOK, ExclusiveAlone, NEW c, NEW half, NEW p, Placing(c, half, p)
  PROVE  ExclusiveAlone'
  <1> DEFINE x == <<c, half>>
             o == NewObject(c, half, p)
             n == o.node
             k == o.key
  <1>1. /\ c \in Claims /\ half \in {"data", "cache"} /\ p \in Spots /\ (half = "data" => p \in Places(c))
        /\ lv[x] = NoLv /\ lv' = [lv EXCEPT ![x] = o]
        /\ shared' = IF k[2] # "" /\ Excused(p, o.excl) THEN shared \cup {p} ELSE shared
    BY DEF Placing, PutObject
  <1>2. x \in Names /\ Types BY <1>1, NamesOfClaim DEF IInv
  <1>3. o \in Lvs BY <1>1, NewTyped
  <1>4. lv'[x] = o /\ \A y \in Names : y # x => lv'[y] = lv[y] BY <1>1, <1>2, <1>3, OneObject
  <1>5. /\ o.node = p.node /\ o.key = IF half = "data" THEN p.key ELSE <<Class[c].cache, "">>
        /\ o.excl = (half = "data" /\ ~Cached(c) /\ Exclusive(c)) /\ o.code = "OK"
    BY DEF NewObject
  <1>6. x \notin Objects BY <1>1, NoLvFields DEF Objects
  <1>7. shared \subseteq shared' BY <1>1
  <1>8. o.code # "none" BY <1>5
  <1>9. ObjectOK(x)' /\ \A y \in Names : ObjectOK(y) BY <1>2 DEF IInv, ObjectsOK
  <1> HIDE DEF o
  \* What is at the other places stays, and the new object joins what is at its place.
  <1>10. ASSUME NEW m, NEW d, NEW y
         PROVE  y \in On(m, d)' <=> y \in On(m, d) \/ (m = n /\ d = k /\ y = x)
    <2>1. CASE y = x BY <1>2, <1>4, <1>6, <1>8, <2>1 DEF On, Objects
    <2>2. CASE y # x BY <1>4, <2>2 DEF On, Objects
    <2> QED BY <2>1, <2>2
  <1> HIDE DEF x
  <1> SUFFICES ASSUME NEW y \in Names, lv'[y].code # "none", lv'[y].excl
               PROVE  \/ On(lv[y].node, lv[y].key)' = {y}
                      \/ Place(lv[y].node, lv[y].key)' \in shared'
    BY DEF ExclusiveAlone, Objects
  <1> DEFINE u == lv'[y]
  <1>11. Place(lv[y].node, lv[y].key)' = Place(u.node, u.key) BY DEF Place
  <1>12. IF u.node = n /\ u.key = k THEN On(lv[y].node, lv[y].key)' = On(n, k) \cup {x}
         ELSE On(lv[y].node, lv[y].key)' = On(u.node, u.key)
    <2>1. PICK m, d : m = u.node /\ d = u.key OBVIOUS
    <2>2. \A z : z \in On(lv[y].node, lv[y].key)' <=> z \in On(m, d)' BY <2>1 DEF On, Objects
    <2>3. \A z : z \in On(lv[y].node, lv[y].key)' <=> z \in On(m, d) \/ (m = n /\ d = k /\ z = x)
      BY <1>10, <2>2
    <2> DEFINE W == On(lv[y].node, lv[y].key)'
    <2> HIDE DEF W, n, k
    <2>4. CASE m = n /\ d = k
      <3>1. \A z : z \in W <=> z \in On(n, k) \cup {x} BY <2>3, <2>4 DEF W
      <3>2. W = On(n, k) \cup {x} BY <3>1
      <3> QED BY <2>1, <2>4, <3>2 DEF W
    <2>5. CASE ~(m = n /\ d = k)
      <3>1. \A z : z \in W <=> z \in On(m, d) BY <2>3, <2>5 DEF W
      <3>2. W = On(m, d) BY <3>1
      <3> QED BY <2>1, <2>5, <3>2 DEF W
    <2> QED BY <2>4, <2>5
  <1>13. u.key[2] # ""
    <2>1. ObjectOK(y)' BY DEF IInv, ObjectsOK
    <2>2. u.node \in Nodes /\ u.key \in DOMAIN DiskSize[u.node] BY <2>1 DEF ObjectOK
    <2> QED BY <2>2, ConfigAssumption
  <1>14. CASE ~(u.node = n /\ u.key = k)
    <2>1. y # x /\ u = lv[y] BY <1>4, <1>14
    <2>2. \/ On(u.node, u.key) = {y} \/ Place(u.node, u.key) \in shared
      BY <2>1 DEF ExclusiveAlone, Objects
    <2> QED BY <1>7, <1>11, <1>12, <1>14, <2>2
  <1>15. CASE u.node = n /\ u.key = k
    <2>1. k[2] # "" BY <1>13, <1>15
    <2>2. half = "data"
      <3>1. <<Class[c].cache, "">>[2] = "" OBVIOUS
      <3> QED BY <1>1, <1>5, <2>1, <3>1
    <2>3. p \in Places(c) /\ p.key = k /\ p.node = n BY <1>1, <1>5, <2>2
    <2>4. Kind(c) = "raw" /\ ~Cached(c) BY <1>1, <1>2, <2>1, <2>3, DiskPlace
    <2>5. o.excl = Exclusive(c) BY <1>1, <1>5, <2>2, <2>4, ExclusiveTyped
    <2>6. CASE Excused(p, o.excl)
      <3>1. p \in shared' BY <1>1, <2>1, <2>6
      <3>2. p = [node |-> p.node, key |-> p.key] BY <1>1 DEF Spots
      <3>3. p = Place(u.node, u.key) BY <1>15, <2>3, <3>2 DEF Place
      <3> QED BY <1>11, <3>1, <3>3
    <2>7. CASE ~Excused(p, o.excl)
      <3>1. (\A z \in On(n, k) : ~lv[z].excl) /\ (Exclusive(c) => On(n, k) = {})
        BY <1>1, <2>1, <2>3, <2>5, <2>7, Seen
      <3>2. y = x
        <4> SUFFICES ASSUME y # x PROVE FALSE OBVIOUS
        <4>1. u = lv[y] BY <1>4
        <4>2. y \in On(n, k) BY <1>15, <4>1 DEF On, Objects
        <4> QED BY <3>1, <4>1, <4>2
      <3>3. Exclusive(c) BY <1>4, <2>5, <3>2
      <3> QED BY <1>12, <1>15, <3>1, <3>2, <3>3
    <2> QED BY <2>6, <2>7
  <1> QED BY <1>14, <1>15

ExclusiveInv == IInv /\ PartsOK /\ ExclusiveAlone

LEMMA ExclusiveAlways == Spec => []ExclusiveInv
  <1>1. Init => ExclusiveInv
    <2> SUFFICES ASSUME Init PROVE ExclusiveInv OBVIOUS
    <2>1. IInv BY InitIInv
    <2>2. report = [n \in Nodes |-> generateStatus(n)] /\ \A x \in Names : lv[x] = NoLv BY DEF Init
    <2> USE <2>2
    <2>3. PartsOK BY StatusParts DEF PartsOK
    <2>4. ExclusiveAlone BY NoLvFields DEF ExclusiveAlone, Objects
    <2> QED BY <2>1, <2>3, <2>4 DEF ExclusiveInv
  <1>2. ExclusiveInv /\ [Next]_vars => ExclusiveInv'
    <2> SUFFICES ASSUME ExclusiveInv, [Next]_vars PROVE ExclusiveInv' OBVIOUS
    <2>1. IInv /\ PartsOK /\ ExclusiveAlone BY DEF ExclusiveInv
    <2> USE <2>1
    <2>2. IInv' /\ PartsOK' BY NextIInv, PartsKept
    <2> USE <2>2
    <2>3. CASE Staying /\ shared' = shared
      <3> USE <2>3
      <3>1. shared \subseteq shared' OBVIOUS
      <3> QED BY <3>1, StayingKept DEF ExclusiveInv
    <2>4. ASSUME NEW c, NEW half, NEW p, Placing(c, half, p) PROVE ExclusiveInv'
      BY <2>4, PlacingKept DEF ExclusiveInv
    <2> QED BY <2>3, <2>4, NextStays
  <1> QED BY <1>1, <1>2, PTL DEF Spec

\* A disk that is given to an exclusive volume has no other, before or after, for
\* any nodes, disks and claims; where it has, the cache did not have the holder,
\* or the report did not have the partition, or had it as the only one.
THEOREM ExclusiveDisks == Spec => []ExclusiveAlone
  <1>1. ExclusiveInv => ExclusiveAlone BY DEF ExclusiveInv
  <1> QED BY <1>1, ExclusiveAlways, PTL
-----------------------------------------------------------------------------
(* The scheduler's filter                                                  *)

LEMMA ReportInvExact == ReportInv => FilterExact
  <1> SUFFICES ASSUME ReportInv PROVE FilterExact OBVIOUS
  <1>1. IInv /\ ReportsOK BY DEF ReportInv, SpaceInv
  <1>2. ASSUME NEW p \in Pods, NEW n \in Nodes, \A c \in Range(ClaimsOf[p]) : ~Cached(c)
        PROVE  /\ Packable(p, n) => Filter(p, n)
               /\ Filter(p, n) /\ Exact(p, n) => Packable(p, n)
               /\ Filter(p, n) => Score(p, n) \in 0..MaxScore
    <2>1. Uncached(p) BY <1>2 DEF Uncached
    <2> QED BY <1>1, <2>1, FitsPasses, PassesFits, ScoreRange
  <1> QED BY <1>2 DEF FilterExact

\* For any configuration, classes and pods: Filter rejects no node that can take
\* the volumes of a pod without caches, passes none that cannot if the requests
\* are exact, and a node that passes has a score in the scheduler's range.
THEOREM FilterSound == Spec => []FilterExact
  BY ReportAlways, ReportInvExact, PTL
=============================================================================
