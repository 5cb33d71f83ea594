-------------------------- MODULE LogicVolumeProofs --------------------------
(***************************************************************************)
(* Proofs about the life of a volume, for any number of volumes: what      *)
(* holds while the two cleanups are switched off, and at the end of the    *)
(* module the types and the balance of space, with the cleanups too.       *)
(*                                                                         *)
(* Two things hold the first argument together.  An object that is being   *)
(* deleted does not change any more until removeLVIfExists takes its       *)
(* finalizer off, so the reconciler never removes a volume for an object   *)
(* that has been replaced.  And while its claim exists, an object that     *)
(* names a volume goes on naming it, so an outdated cache may be believed. *)
(***************************************************************************)
EXTENDS LogicVolume, TLAPS

\* Objects that the program writes: all hold the finalizer, and sizes are
\* sizes of claims.
Written == [ver : Versions, size : Sizes, cur : Sizes \cup {0}, code : {"OK", "Err"},
            st : {"", "Success", "Failed"}, del : BOOLEAN, fin : {TRUE}]

Typed ==
    /\ api \in [Vols -> Written \cup {None}]
    /\ nodeSees \in [Vols -> Written \cup {None}]
    /\ ctlSees \in [Vols -> Written \cup {None}]
    /\ lv \in [Vols -> Sizes \cup {0}] /\ free \in Nat
    /\ queued \subseteq Vols
    /\ rec \in [Vols -> [pc : {"idle", "create", "expand", "save", "remove", "patch"},
                         base : Written \cup {None}, copy : Written \cup {None}]]
    /\ want \in [Vols -> Sizes \cup {0}] /\ gone \subseteq Vols
    /\ pv \in [Vols -> Sizes \cup {0}]
    /\ csi \in [Vols -> [pc : {"idle", "creating", "created", "deleting", "expanding"},
                         tgt : Vols \cup {None}, size : Sizes \cup {0}]]
    /\ ts.pc = "idle" /\ nc.pc = "idle"
    /\ faults \in 0..MaxFaults

Dying(o) == o # None /\ o.del
Alive(o) == o # None /\ ~o.del
\* The node has given up on the object and waits for its deletion.
Failed(o) == o # None /\ ~HasId(o) /\ o.code = "Err"

\* The objects in the API server against the local volumes.
ApiTrue(v) ==
    /\ lv[v] > 0 => api[v] # None
    /\ HasId(api[v]) /\ Alive(api[v]) => lv[v] > 0
    /\ Dying(api[v]) /\ v \notin gone => Failed(api[v])

\* The cache of carina-node: what it shows as alive has not been removed, and
\* what it shows as dying, as long as somebody will look, is still there.
NodeTrue(v) ==
    /\ Alive(nodeSees[v]) => api[v] # None
    /\ HasId(nodeSees[v]) /\ Alive(nodeSees[v]) => lv[v] > 0
    /\ Dying(nodeSees[v]) /\ (v \in queued \/ rec[v].pc # "idle") => api[v] = nodeSees[v]

\* The reconciler.
RecTrue(v) ==
    /\ rec[v].pc \in {"create", "expand", "save"} =>
         /\ api[v] # None /\ Alive(rec[v].base) /\ Alive(rec[v].copy)
         /\ HasId(rec[v].base) => lv[v] > 0 /\ HasId(rec[v].copy)
         /\ HasId(rec[v].base) \/ rec[v].base.code = "OK"
    /\ rec[v].pc = "create" => ~HasId(rec[v].base) /\ rec[v].copy = rec[v].base
    /\ rec[v].pc = "expand" => HasId(rec[v].base) /\ rec[v].copy = rec[v].base
    /\ rec[v].pc = "save" => (HasId(rec[v].copy) => lv[v] > 0)
    /\ rec[v].pc \in {"remove", "patch"} =>
         Dying(api[v]) /\ nodeSees[v] = api[v] /\ v \notin queued
    /\ rec[v].pc = "patch" => lv[v] = 0

\* The cache of carina-controller.
CtlTrue(v) ==
    /\ ~CtlLag => ctlSees[v] = None
    /\ Failed(ctlSees[v]) => api[v] = None \/ Failed(api[v])
    /\ HasId(ctlSees[v]) /\ v \notin gone => HasId(api[v])

\* The CSI calls and the PersistentVolume.
ClaimTrue(v) ==
    /\ csi[v].pc \in {"creating", "created"} => v \notin gone /\ pv[v] = 0 /\ csi[v].size > 0
    /\ csi[v].pc = "created" => HasId(api[v])
    /\ csi[v].pc = "expanding" => pv[v] > 0 /\ csi[v].size > 0
    /\ pv[v] > 0 => HasId(api[v]) \/ (api[v] = None /\ v \in gone)

VolumeTrue(v) == ApiTrue(v) /\ NodeTrue(v) /\ RecTrue(v) /\ CtlTrue(v) /\ ClaimTrue(v)

IInv == Typed /\ \A v \in Vols : VolumeTrue(v)
------------------------------------------------------------------------------
(* Objects                                                                  *)

\* What the program hands to the API server, which gives the version.
Sent == [ver : Versions \cup {None}, size : Sizes, cur : Sizes \cup {0}, code : {"OK", "Err"},
         st : {"", "Success", "Failed"}, del : BOOLEAN, fin : {TRUE}]

LEMMA SizesPositive == \A s \in Sizes : s \in Nat /\ s > 0
  BY LogicVolumeAssumption

LEMMA NotNone == None \notin Sent /\ None \notin Written
  <1>1. Written \subseteq Sent BY Zenon DEF Written, Sent
  <1>2. Sizes \subseteq Nat /\ (Sizes \cup {0}) \subseteq Nat BY SizesPositive
  <1>3. {TRUE} \subseteq BOOLEAN BY Zenon
  <1>4. Sent \subseteq Drafts BY <1>2, <1>3, Zenon DEF Sent, Drafts
  <1> QED BY <1>1, <1>4, ObjectAssumption, Zenon

LEMMA Fields ==
  ASSUME NEW o \in Written
  PROVE  /\ o # None /\ o \in Sent /\ o.ver \in Versions
         /\ o.size \in Sizes /\ o.cur \in Sizes \cup {0} /\ o.code \in {"OK", "Err"}
         /\ o.fin /\ o.del \in BOOLEAN
         /\ HasId(o) <=> o.cur > 0
  BY NotNone, Zenon DEF Written, Sent, HasId

LEMMA FreshTyped ==
  ASSUME Typed, NEW v \in Vols
  PROVE  FreshVersion(v) \in Versions
  <1> DEFINE held == {api[v], nodeSees[v], ctlSees[v], rec[v].base} \ {None}
             ver(o) == IF o \in Written THEN o.ver ELSE CHOOSE n \in Versions : TRUE
  <1>1. held \subseteq Written
    <2>1. rec[v].base \in Written \cup {None} BY Zenon DEF Typed
    <2>2. /\ api[v] \in Written \cup {None} /\ nodeSees[v] \in Written \cup {None}
          /\ ctlSees[v] \in Written \cup {None}
      BY Zenon DEF Typed
    <2> QED BY <2>1, <2>2, Zenon
  <1>2. \A o : ver(o) \in Versions
    <2>1. (CHOOSE n \in Versions : TRUE) \in Versions BY LogicVolumeAssumption, Zenon
    <2> QED BY <2>1, Zenon DEF Written
  <1>3. \A o \in held : ver(o) = o.ver BY <1>1, Zenon
  <1> DEFINE a == ver(api[v])
             b == ver(nodeSees[v])
             c == ver(ctlSees[v])
             d == ver(rec[v].base)
  <1>4. a \in Versions /\ b \in Versions /\ c \in Versions /\ d \in Versions BY <1>2, Zenon
  <1>5. \A o \in held : o.ver \in {a, b, c, d} BY <1>3, Zenon
  <1> HIDE DEF a, b, c, d
  <1>6. PICK n \in Versions : n \notin {a, b, c, d} BY <1>4, LogicVolumeAssumption, Zenon
  <1>7. \A o \in held : o.ver # n BY <1>5, <1>6, Zenon
  <1> QED BY <1>7, Zenon DEF FreshVersion

\* What a write leaves in the API server.
LEMMA WriteTrue ==
  ASSUME Typed, NEW v \in Vols, NEW o \in Sent, Writes(v, o)
  PROVE  /\ api' \in [Vols -> Written \cup {None}]
         /\ api'[v] \in Written /\ api'[v] # None
         /\ api'[v].size = o.size /\ api'[v].cur = o.cur /\ api'[v].code = o.code
         /\ api'[v].del = o.del
         /\ \A w \in Vols \ {v} : api'[w] = api[w]
         /\ o = api[v] => api'[v] = api[v]
  <1> DEFINE n == FreshVersion(v)
             p == [o EXCEPT !.ver = n]
  <1>1. n \in Versions BY FreshTyped, Zenon
  <1>2. o # None BY NotNone, Zenon
  <1> HIDE DEF n
  <1>3. /\ p \in Written /\ p.size = o.size /\ p.cur = o.cur /\ p.code = o.code
        /\ p.del = o.del
    BY <1>1, Zenon DEF Sent, Written
  <1>4. api' = [api EXCEPT ![v] = IF o = api[v] THEN o ELSE p] BY <1>2, Zenon DEF Writes, n
  <1>5. api \in [Vols -> Written \cup {None}] BY Zenon DEF Typed
  <1> HIDE DEF p
  <1>6. CASE o = api[v]
    <2>1. o \in Written BY <1>2, <1>5, <1>6, Zenon
    <2> QED BY <2>1, <1>4, <1>5, <1>6, NotNone, Zenon
  <1>7. CASE o # api[v] BY <1>3, <1>4, <1>5, <1>7, NotNone, Zenon
  <1> QED BY <1>6, <1>7, Zenon

LEMMA NewSent ==
  ASSUME NEW s \in Sizes
  PROVE  /\ NewObject(s) \in Sent /\ NewObject(s).cur = 0 /\ NewObject(s).code = "OK"
         /\ NewObject(s).del = FALSE
  BY Zenon DEF NewObject, Sent

\* Every object has the finalizer: Delete marks it, once and for all.
LEMMA DeletedSent ==
  ASSUME NEW o \in Written
  PROVE  /\ Deleted(o) \in Sent /\ Deleted(o).cur = o.cur /\ Deleted(o).code = o.code
         /\ Deleted(o).del = TRUE
         /\ o.del => Deleted(o) = o
  <1> DEFINE p == [o EXCEPT !.del = TRUE]
  <1>1. p \in Sent /\ p.cur = o.cur /\ p.code = o.code /\ p.del = TRUE BY Zenon DEF Written, Sent
  <1>2. ASSUME o.del PROVE p = o
    <2>1. o.del = TRUE BY <1>2, Zenon DEF Written
    <2> QED BY <2>1, Zenon DEF Written
  <1>3. Deleted(o) = p BY Fields, Zenon DEF Deleted
  <1> HIDE DEF p
  <1> QED BY <1>1, <1>2, <1>3, Zenon

LEMMA StrippedGone == ASSUME NEW o, Dying(o) PROVE Stripped(o) = None
  BY Zenon DEF Dying, Stripped

\* The three outcomes of createLV and expandLV.
LEMMA DoneWritten ==
  ASSUME NEW o \in Written
  PROVE  /\ CreateDone(o) \in Written /\ CreateDone(o).cur = o.size /\ CreateDone(o).del = o.del
  BY Zenon DEF CreateDone, Written

LEMMA FailedWritten ==
  ASSUME NEW o \in Written
  PROVE  /\ CreateFailed(o) \in Written /\ CreateFailed(o).cur = o.cur
         /\ CreateFailed(o).del = o.del
  BY Zenon DEF CreateFailed, Written

LEMMA ExpandFailedWritten ==
  ASSUME NEW o \in Written, NEW c \in {"OK", "Err"}
  PROVE  /\ ExpandFailed(o, c) \in Written /\ ExpandFailed(o, c).cur = o.cur
         /\ ExpandFailed(o, c).del = o.del
  BY Zenon DEF ExpandFailed, Written

\* The values of a volume, one by one.
LEMMA Values ==
  ASSUME Typed, NEW v \in Vols
  PROVE  /\ api[v] \in Written \cup {None} /\ nodeSees[v] \in Written \cup {None}
         /\ ctlSees[v] \in Written \cup {None} /\ Cached(v) \in Written \cup {None}
         /\ rec[v].base \in Written \cup {None} /\ rec[v].copy \in Written \cup {None}
         /\ lv[v] \in Sizes \cup {0} /\ lv[v] \in Nat /\ free \in Nat
         /\ pv[v] \in Sizes \cup {0} /\ pv[v] \in Nat
         /\ want[v] \in Sizes \cup {0} /\ want[v] \in Nat
         /\ csi[v].size \in Sizes \cup {0} /\ csi[v].size \in Nat
  <1>1. rec[v].base \in Written \cup {None} /\ rec[v].copy \in Written \cup {None}
    BY Zenon DEF Typed
  <1>2. /\ api[v] \in Written \cup {None} /\ nodeSees[v] \in Written \cup {None}
        /\ ctlSees[v] \in Written \cup {None}
    BY Zenon DEF Typed
  <1>3. Cached(v) \in Written \cup {None} BY <1>2, Zenon DEF Cached
  <1>4. /\ lv[v] \in Sizes \cup {0} /\ pv[v] \in Sizes \cup {0} /\ want[v] \in Sizes \cup {0}
        /\ csi[v].size \in Sizes \cup {0} /\ free \in Nat
    BY Zenon DEF Typed
  <1> QED BY <1>1, <1>2, <1>3, <1>4, SizesPositive
------------------------------------------------------------------------------
(* What a step on one volume leaves alone                                   *)

Same(w) ==
    /\ api'[w] = api[w] /\ nodeSees'[w] = nodeSees[w] /\ ctlSees'[w] = ctlSees[w]
    /\ lv'[w] = lv[w] /\ (w \in queued' <=> w \in queued) /\ rec'[w] = rec[w]
    /\ (w \in gone' <=> w \in gone) /\ pv'[w] = pv[w] /\ csi'[w] = csi[w]

LEMMA SameTrue == ASSUME NEW w, VolumeTrue(w), Same(w) PROVE VolumeTrue(w)'
  <1>1. ApiTrue(w)' BY Zenon DEF VolumeTrue, ApiTrue, Same, HasId, Alive, Dying, Failed
  <1>2. NodeTrue(w)' BY Zenon DEF VolumeTrue, NodeTrue, Same, HasId, Alive, Dying, Failed
  <1>3. RecTrue(w)' BY Zenon DEF VolumeTrue, RecTrue, Same, HasId, Alive, Dying, Failed
  <1>4. CtlTrue(w)' BY Zenon DEF VolumeTrue, CtlTrue, Same, HasId, Alive, Dying, Failed
  <1>5. ClaimTrue(w)' BY Zenon DEF VolumeTrue, ClaimTrue, Same, HasId, Alive, Dying, Failed
  <1> QED BY <1>1, <1>2, <1>3, <1>4, <1>5, Zenon DEF VolumeTrue

LEMMA LocalIInv ==
  ASSUME IInv, NEW v \in Vols, Typed', \A w \in Vols \ {v} : Same(w),
         ApiTrue(v)', NodeTrue(v)', RecTrue(v)', CtlTrue(v)', ClaimTrue(v)'
  PROVE  IInv'
  <1> SUFFICES ASSUME NEW w \in Vols PROVE VolumeTrue(w)' BY Zenon DEF IInv
  <1>1. CASE w = v BY <1>1, Zenon DEF VolumeTrue
  <1>2. CASE w # v
    <2>1. VolumeTrue(w) /\ Same(w) BY <1>2, Zenon DEF IInv
    <2> QED BY <2>1, SameTrue, Zenon
  <1> QED BY <1>1, <1>2, Zenon

\* A step that leaves some of the state alone keeps what is said about that.
LEMMA ApiFrame ==
  ASSUME NEW v \in Vols, VolumeTrue(v), api'[v] = api[v], lv'[v] = lv[v],
         v \in gone => v \in gone'
  PROVE  ApiTrue(v)'
  BY Zenon DEF VolumeTrue, ApiTrue, HasId, Alive, Dying, Failed

LEMMA NodeFrame ==
  ASSUME NEW v \in Vols, VolumeTrue(v), api'[v] = api[v], nodeSees'[v] = nodeSees[v],
         lv'[v] = lv[v], v \in queued' => v \in queued \/ rec[v].pc # "idle",
         rec'[v].pc # "idle" => v \in queued \/ rec[v].pc # "idle"
  PROVE  NodeTrue(v)'
  BY Zenon DEF VolumeTrue, NodeTrue, HasId, Alive, Dying

LEMMA RecFrame ==
  ASSUME NEW v \in Vols, VolumeTrue(v), api'[v] = api[v], nodeSees'[v] = nodeSees[v],
         lv'[v] = lv[v], v \in queued' => v \in queued, rec'[v] = rec[v]
  PROVE  RecTrue(v)'
  BY Zenon DEF VolumeTrue, RecTrue, HasId, Alive, Dying

LEMMA RecIdle ==
  ASSUME NEW v \in Vols, rec'[v].pc = "idle"
  PROVE  RecTrue(v)'
  BY Zenon DEF RecTrue

LEMMA CtlFrame ==
  ASSUME NEW v \in Vols, VolumeTrue(v), api'[v] = api[v], ctlSees'[v] = ctlSees[v],
         v \in gone => v \in gone'
  PROVE  CtlTrue(v)'
  BY Zenon DEF VolumeTrue, CtlTrue, HasId, Failed

LEMMA ClaimFrame ==
  ASSUME NEW v \in Vols, VolumeTrue(v), api'[v] = api[v], pv'[v] = pv[v], csi'[v] = csi[v],
         v \in gone' <=> v \in gone
  PROVE  ClaimTrue(v)'
  BY Zenon DEF VolumeTrue, ClaimTrue, HasId

\* No call is in progress any more.
LEMMA ClaimEnds ==
  ASSUME NEW v \in Vols, VolumeTrue(v), api'[v] = api[v], pv'[v] > 0 => pv[v] > 0,
         csi'[v].pc = "idle", v \in gone => v \in gone'
  PROVE  ClaimTrue(v)'
  BY Zenon DEF VolumeTrue, ClaimTrue, HasId

\* The step is one of the user or of a CSI call that writes no object.
LEMMA ClaimStep ==
  ASSUME IInv, NEW v \in Vols, UNCHANGED <<apiVars, localVars, recVars, ts, nc>>,
         want' \in [Vols -> Sizes \cup {0}], pv' \in [Vols -> Sizes \cup {0}],
         csi' \in [Vols -> [pc : {"idle", "creating", "created", "deleting", "expanding"},
                            tgt : Vols \cup {None}, size : Sizes \cup {0}]],
         gone' \subseteq Vols, faults' \in 0..MaxFaults,
         \A w \in Vols \ {v} : (w \in gone' <=> w \in gone) /\ pv'[w] = pv[w] /\ csi'[w] = csi[w],
         v \in gone => v \in gone',
         ClaimTrue(v)'
  PROVE  IInv'
  <1>1. Typed' BY Zenon DEF IInv, Typed, apiVars, localVars, recVars
  <1>2. \A w \in Vols \ {v} : Same(w) BY Zenon DEF Same, apiVars, localVars, recVars
  <1>3. VolumeTrue(v) BY Zenon DEF IInv
  <1>4. ApiTrue(v)' BY <1>3, ApiFrame, Zenon DEF apiVars, localVars
  <1>5. NodeTrue(v)' BY <1>3, NodeFrame, Zenon DEF apiVars, localVars, recVars
  <1>6. RecTrue(v)' BY <1>3, RecFrame, Zenon DEF apiVars, localVars, recVars
  <1>7. CtlTrue(v)' BY <1>3, CtlFrame, Zenon DEF apiVars
  <1> QED BY <1>1, <1>2, <1>4, <1>5, <1>6, <1>7, LocalIInv, Zenon
------------------------------------------------------------------------------
(* The user and the sidecars                                                *)

LEMMA CallsTrue ==
  ASSUME Typed, NEW v \in Vols, NEW p \in {"idle", "creating", "created", "deleting", "expanding"},
         NEW t \in Vols \cup {None}, NEW s \in Sizes \cup {0}, Calls(v, p, t, s)
  PROVE  /\ csi' \in [Vols -> [pc : {"idle", "creating", "created", "deleting", "expanding"},
                               tgt : Vols \cup {None}, size : Sizes \cup {0}]]
         /\ csi'[v].pc = p /\ csi'[v].tgt = t /\ csi'[v].size = s
         /\ \A w \in Vols \ {v} : csi'[w] = csi[w]
  BY Zenon DEF Typed, Calls

LEMMA EndsTrue ==
  ASSUME Typed, NEW v \in Vols, csi' = [csi EXCEPT ![v] = IdleCsi]
  PROVE  /\ csi' \in [Vols -> [pc : {"idle", "creating", "created", "deleting", "expanding"},
                               tgt : Vols \cup {None}, size : Sizes \cup {0}]]
         /\ csi'[v].pc = "idle"
         /\ \A w \in Vols \ {v} : csi'[w] = csi[w]
  BY Zenon DEF Typed, IdleCsi

LEMMA PvTrue ==
  ASSUME Typed, NEW v \in Vols, NEW s \in Sizes \cup {0}, pv' = [pv EXCEPT ![v] = s]
  PROVE  /\ pv' \in [Vols -> Sizes \cup {0}] /\ pv'[v] = s
         /\ \A w \in Vols \ {v} : pv'[w] = pv[w]
  BY Zenon DEF Typed

LEMMA FaultTyped ==
  ASSUME Typed
  PROVE  (Fault => faults' \in 0..MaxFaults) /\ (UNCHANGED faults => faults' \in 0..MaxFaults)
  <1>1. MaxFaults \in Nat BY LogicVolumeAssumption, Zenon
  <1> QED BY <1>1 DEF Fault, Typed

LEMMA UserStep ==
  ASSUME IInv, NEW v \in Vols, User(v)
  PROVE  IInv'
  <1>1. Typed /\ VolumeTrue(v) BY Zenon DEF IInv
  <1>2. UNCHANGED <<apiVars, localVars, recVars, pv, csi, ts, nc, faults>>
    BY Zenon DEF User, Claim, EnlargeClaim, DeleteClaim
  <1>3. want' \in [Vols -> Sizes \cup {0}]
    <2>1. CASE Claim(v)
      <3>1. PICK s \in Sizes : want' = [want EXCEPT ![v] = s] BY <2>1, Zenon DEF Claim
      <3> QED BY <3>1, <1>1, Zenon DEF Typed
    <2>2. CASE EnlargeClaim(v)
      <3>1. PICK s \in Sizes : want' = [want EXCEPT ![v] = s] BY <2>2, Zenon DEF EnlargeClaim
      <3> QED BY <3>1, <1>1, Zenon DEF Typed
    <2>3. CASE DeleteClaim(v) BY <2>3, <1>1, Zenon DEF DeleteClaim, Typed
    <2> QED BY <2>1, <2>2, <2>3, Zenon DEF User
  <1>4. /\ gone' \subseteq Vols /\ (\A w \in Vols \ {v} : w \in gone' <=> w \in gone)
        /\ v \in gone => v \in gone'
    BY <1>1, Zenon DEF User, Claim, EnlargeClaim, DeleteClaim, Typed
  <1>5. ClaimTrue(v)'
    <2>1. CASE v \in gone' <=> v \in gone
      BY <2>1, <1>1, <1>2, ClaimFrame, Zenon DEF apiVars
    <2>2. CASE DeleteClaim(v)
      <3>1. csi[v].pc \notin {"creating", "created"}
        BY <2>2, <1>1, Values DEF DeleteClaim, VolumeTrue, ClaimTrue
      <3> QED BY <3>1, <2>2, <1>1, <1>2, Zenon DEF DeleteClaim, VolumeTrue, ClaimTrue, apiVars
    <2> QED BY <2>1, <2>2, Zenon DEF User, Claim, EnlargeClaim
  <1> QED
    <2>1. /\ pv' \in [Vols -> Sizes \cup {0}] /\ faults' \in 0..MaxFaults
          /\ csi' \in [Vols -> [pc : {"idle", "creating", "created", "deleting", "expanding"},
                                tgt : Vols \cup {None}, size : Sizes \cup {0}]]
      BY <1>1, <1>2, Zenon DEF Typed
    <2> QED BY <2>1, <1>2, <1>3, <1>4, <1>5, ClaimStep, Zenon

\* The call ends: it is lost, is out of time, or gets an answer that changes
\* no PersistentVolume.
LEMMA EndStep ==
  ASSUME IInv, NEW v \in Vols, csi' = [csi EXCEPT ![v] = IdleCsi], faults' \in 0..MaxFaults,
         UNCHANGED <<apiVars, localVars, recVars, claimVars, ts, nc>>
  PROVE  IInv'
  <1>1. Typed /\ VolumeTrue(v) BY Zenon DEF IInv
  <1>2. /\ csi' \in [Vols -> [pc : {"idle", "creating", "created", "deleting", "expanding"},
                              tgt : Vols \cup {None}, size : Sizes \cup {0}]]
        /\ csi'[v].pc = "idle"
        /\ \A w \in Vols \ {v} : csi'[w] = csi[w]
    BY <1>1, EndsTrue, Zenon
  <1>3. ClaimTrue(v)' BY <1>1, <1>2, ClaimEnds, Zenon DEF apiVars, claimVars
  <1>4. /\ want' \in [Vols -> Sizes \cup {0}] /\ pv' \in [Vols -> Sizes \cup {0}]
        /\ gone' \subseteq Vols
    BY <1>1, Zenon DEF Typed, claimVars
  <1> QED BY <1>2, <1>3, <1>4, ClaimStep, Zenon DEF claimVars

\* The call ends and the PersistentVolume gets a new size.
LEMMA GrowStep ==
  ASSUME IInv, NEW v \in Vols, NEW s \in Sizes, pv' = [pv EXCEPT ![v] = s],
         csi' = [csi EXCEPT ![v] = IdleCsi], pv[v] > 0 \/ HasId(api[v]),
         UNCHANGED <<apiVars, localVars, recVars, want, gone, ts, nc, faults>>
  PROVE  IInv'
  <1>1. Typed /\ VolumeTrue(v) BY Zenon DEF IInv
  <1>2. /\ csi' \in [Vols -> [pc : {"idle", "creating", "created", "deleting", "expanding"},
                              tgt : Vols \cup {None}, size : Sizes \cup {0}]]
        /\ csi'[v].pc = "idle"
        /\ \A w \in Vols \ {v} : csi'[w] = csi[w]
    BY <1>1, EndsTrue, Zenon
  <1>3. pv' \in [Vols -> Sizes \cup {0}] /\ (\A w \in Vols \ {v} : pv'[w] = pv[w])
    BY <1>1, PvTrue, Zenon
  <1>4. ClaimTrue(v)' BY <1>1, <1>2, Zenon DEF VolumeTrue, ClaimTrue, HasId, apiVars
  <1>5. want' \in [Vols -> Sizes \cup {0}] /\ gone' \subseteq Vols /\ faults' \in 0..MaxFaults
    BY <1>1, Zenon DEF Typed
  <1> QED BY <1>2, <1>3, <1>4, <1>5, ClaimStep, Zenon

\* The PersistentVolume goes.
LEMMA DropStep ==
  ASSUME IInv, NEW v \in Vols, DropPv(v),
         UNCHANGED <<apiVars, localVars, recVars, ts, nc, faults>>
  PROVE  IInv'
  <1> USE DEF DropPv, Ends
  <1>1. Typed /\ VolumeTrue(v) BY Zenon DEF IInv
  <1>2. /\ csi' \in [Vols -> [pc : {"idle", "creating", "created", "deleting", "expanding"},
                              tgt : Vols \cup {None}, size : Sizes \cup {0}]]
        /\ csi'[v].pc = "idle"
        /\ \A w \in Vols \ {v} : csi'[w] = csi[w]
    BY <1>1, EndsTrue, Zenon
  <1>3. /\ pv' \in [Vols -> Sizes \cup {0}] /\ pv'[v] = 0
        /\ \A w \in Vols \ {v} : pv'[w] = pv[w]
    BY <1>1, PvTrue, Zenon
  <1>4. ClaimTrue(v)' BY <1>1, <1>2, <1>3 DEF VolumeTrue, ClaimTrue, apiVars
  <1>5. want' \in [Vols -> Sizes \cup {0}] /\ gone' \subseteq Vols /\ faults' \in 0..MaxFaults
    BY <1>1, Zenon DEF Typed
  <1> QED BY <1>2, <1>3, <1>4, <1>5, ClaimStep, Zenon

LEMMA CreatePvStep ==
  ASSUME IInv, NEW v \in Vols, CreatePv(v)
  PROVE  IInv'
  <1>1. Typed /\ VolumeTrue(v) BY Zenon DEF IInv
  <1>2. HasId(api[v]) /\ csi[v].size > 0 BY <1>1, Zenon DEF CreatePv, VolumeTrue, ClaimTrue
  <1>3. csi[v].size \in Sizes BY <1>1, <1>2, Values
  <1> QED BY <1>2, <1>3, GrowStep, Zenon DEF CreatePv

LEMMA LostStep ==
  ASSUME IInv, NEW v \in Vols, CallLost(v) \/ Deadline(v)
  PROVE  IInv'
  <1>1. faults' \in 0..MaxFaults BY FaultTyped, Zenon DEF IInv, CallLost, Deadline
  <1> QED BY <1>1, EndStep, Zenon DEF CallLost, Deadline, Ends

LEMMA DeleteWaitStep == ASSUME IInv, NEW v \in Vols, DeleteWait(v) PROVE IInv'
  BY DropStep, Zenon DEF DeleteWait

LEMMA ExpandWaitStep ==
  ASSUME IInv, NEW v \in Vols, ExpandWait(v)
  PROVE  IInv'
  <1>1. Typed /\ VolumeTrue(v) BY Zenon DEF IInv
  <1>2. CASE Ends(v) /\ UNCHANGED claimVars
    <2>1. faults' \in 0..MaxFaults BY <1>1, FaultTyped, Zenon DEF ExpandWait
    <2> QED BY <1>2, <2>1, EndStep, Zenon DEF ExpandWait, Ends
  <1>3. CASE GrowPv(v, csi[v].size)
    <2>1. pv[v] > 0 /\ csi[v].size > 0 BY <1>1, Zenon DEF ExpandWait, VolumeTrue, ClaimTrue
    <2>2. csi[v].size \in Sizes BY <1>1, <2>1, Values
    <2> QED BY <1>3, <2>1, <2>2, GrowStep, Zenon DEF ExpandWait, GrowPv, Ends
  <1> QED BY <1>2, <1>3, Zenon DEF ExpandWait
------------------------------------------------------------------------------
(* LogicVolumeService writes an object                                      *)

\* What a write of a CSI call must respect.
LEMMA ApiStep ==
  ASSUME IInv, NEW v \in Vols, NEW o \in Sent, Writes(v, o),
         UNCHANGED <<nodeSees, ctlSees, localVars, recVars, claimVars, ts, nc, faults>>,
         csi' \in [Vols -> [pc : {"idle", "creating", "created", "deleting", "expanding"},
                            tgt : Vols \cup {None}, size : Sizes \cup {0}]],
         \A w \in Vols \ {v} : csi'[w] = csi[w],
         ~Dying(api[v]) \/ o = api[v],
         HasId(api[v]) => o.cur > 0,
         o.cur > 0 /\ ~o.del => lv[v] > 0,
         o.del /\ v \notin gone => o.cur = 0 /\ o.code = "Err",
         Failed(ctlSees[v]) => o.cur = 0 /\ o.code = "Err",
         ClaimTrue(v)'
  PROVE  IInv'
  <1>1. Typed /\ VolumeTrue(v) BY Zenon DEF IInv
  <1>2. /\ api' \in [Vols -> Written \cup {None}]
        /\ api'[v] \in Written /\ api'[v] # None
        /\ api'[v].cur = o.cur /\ api'[v].code = o.code /\ api'[v].del = o.del
        /\ \A w \in Vols \ {v} : api'[w] = api[w]
        /\ o = api[v] => api'[v] = api[v]
    BY <1>1, WriteTrue, Zenon
  <1>3. Typed' BY <1>1, <1>2, Zenon DEF Typed, localVars, recVars, claimVars
  <1>4. \A w \in Vols \ {v} : Same(w) BY <1>2, Zenon DEF Same, localVars, recVars, claimVars
  <1>5. UNCHANGED <<nodeSees, ctlSees, lv, queued, rec, gone>>
    BY Zenon DEF localVars, recVars, claimVars
  <1>6. o.cur \in Nat
    <2>1. o.cur \in Sizes \cup {0} BY Zenon DEF Sent
    <2> QED BY <2>1, SizesPositive
  <1>7. HasId(api'[v]) <=> o.cur > 0 BY <1>2, Zenon DEF HasId
  <1>8. (Alive(api'[v]) <=> ~o.del) /\ (Dying(api'[v]) <=> o.del) BY <1>2, Zenon DEF Alive, Dying
  <1>9. Failed(api'[v]) <=> o.cur = 0 /\ o.code = "Err" BY <1>2, <1>6, <1>7 DEF Failed
  <1>10. ApiTrue(v)'
    <2>1. HasId(api'[v]) /\ Alive(api'[v]) => lv[v] > 0 BY <1>7, <1>8, Zenon
    <2>2. Dying(api'[v]) /\ v \notin gone => Failed(api'[v]) BY <1>8, <1>9, Zenon
    <2> QED BY <2>1, <2>2, <1>2, <1>5, Zenon DEF ApiTrue
  <1>11. NodeTrue(v)' BY <1>1, <1>2, <1>5, Zenon DEF VolumeTrue, NodeTrue
  <1>12. RecTrue(v)' BY <1>1, <1>2, <1>5, Zenon DEF VolumeTrue, RecTrue
  <1>13. CtlTrue(v)' BY <1>1, <1>5, <1>7, <1>9, Zenon DEF VolumeTrue, CtlTrue
  <1> QED BY <1>3, <1>4, <1>10, <1>11, <1>12, <1>13, LocalIInv, Zenon

\* The cache and the API server, as Get sees them.
LEMMA GetTrue ==
  ASSUME IInv, NEW v \in Vols
  PROVE  /\ Get(v) = None => api[v] = None /\ ctlSees[v] = None
         /\ Get(v) \in Written \cup {None}
         /\ HasId(Get(v)) /\ v \notin gone => HasId(api[v])
         /\ Failed(Get(v)) => api[v] = None \/ Failed(api[v])
  <1>1. Typed /\ CtlTrue(v) BY Zenon DEF IInv, VolumeTrue
  <1>2. Get(v) \in Written \cup {None} BY <1>1, Values, Zenon DEF Get
  <1>3. Get(v) = api[v] \/ (CtlLag /\ Get(v) = ctlSees[v] /\ Get(v) # None)
    BY Zenon DEF Get, Cached
  <1>4. Get(v) = None => api[v] = None /\ ctlSees[v] = None
    BY <1>1, Zenon DEF Get, Cached, CtlTrue
  <1> QED BY <1>1, <1>2, <1>3, <1>4, Zenon DEF CtlTrue

LEMMA CreateVolumeStep ==
  ASSUME IInv, NEW v \in Vols, CreateVolume(v)
  PROVE  IInv'
  <1> USE DEF CreateVolume
  <1>1. Typed /\ VolumeTrue(v) BY Zenon DEF IInv
  <1>2. want[v] \in Sizes BY <1>1, Values
  <1>3. /\ csi' \in [Vols -> [pc : {"idle", "creating", "created", "deleting", "expanding"},
                              tgt : Vols \cup {None}, size : Sizes \cup {0}]]
        /\ csi'[v].pc = "creating" /\ csi'[v].size = want[v]
        /\ \A w \in Vols \ {v} : csi'[w] = csi[w]
    BY <1>1, <1>2, CallsTrue
  <1>4. ClaimTrue(v)' BY <1>3, SizesPositive DEF ClaimTrue, claimVars
  <1>5. CASE Get(v) = None /\ Writes(v, NewObject(want[v]))
    <2> DEFINE o == NewObject(want[v])
    <2>1. o \in Sent /\ o.cur = 0 /\ o.code = "OK" /\ o.del = FALSE BY <1>2, NewSent, Zenon
    <2>2. api[v] = None /\ ctlSees[v] = None BY <1>5, GetTrue, Zenon
    <2>3. ~Dying(api[v]) /\ ~HasId(api[v]) /\ ~Failed(ctlSees[v])
      BY <2>2, Zenon DEF Dying, HasId, Failed
    <2>4. Writes(v, o) BY <1>5, Zenon
    <2> HIDE DEF o
    <2> QED BY <2>1, <2>3, <2>4, <1>3, <1>4, ApiStep
  <1>6. CASE UNCHANGED api
    <2>1. /\ want' \in [Vols -> Sizes \cup {0}] /\ pv' \in [Vols -> Sizes \cup {0}]
          /\ gone' \subseteq Vols /\ faults' \in 0..MaxFaults
      BY <1>1, Zenon DEF Typed, claimVars
    <2>2. UNCHANGED <<apiVars, localVars, recVars, ts, nc>> BY <1>6, Zenon DEF apiVars
    <2> QED BY <2>1, <2>2, <1>3, <1>4, ClaimStep, Zenon DEF claimVars
  <1> QED BY <1>5, <1>6, Zenon

LEMMA CreateWaitStep ==
  ASSUME IInv, NEW v \in Vols, CreateWait(v)
  PROVE  IInv'
  <1> USE DEF CreateWait
  <1>1. Typed /\ VolumeTrue(v) BY Zenon DEF IInv
  <1>2. v \notin gone /\ pv[v] = 0 /\ csi[v].size > 0 BY <1>1, Zenon DEF VolumeTrue, ClaimTrue
  <1>3. faults' \in 0..MaxFaults BY <1>1, FaultTyped, Zenon
  <1>4. CASE Ends(v) /\ UNCHANGED api
    BY <1>3, <1>4, EndStep, Zenon DEF Ends, apiVars
  <1>5. CASE HasId(Get(v)) /\ Calls(v, "created", v, csi[v].size) /\ UNCHANGED api
    <2>1. HasId(api[v]) BY <1>2, <1>5, GetTrue, Zenon
    <2>2. csi[v].size \in Sizes BY <1>1, <1>2, Values
    <2>3. /\ csi' \in [Vols -> [pc : {"idle", "creating", "created", "deleting", "expanding"},
                                tgt : Vols \cup {None}, size : Sizes \cup {0}]]
          /\ csi'[v].pc = "created" /\ csi'[v].size = csi[v].size
          /\ \A w \in Vols \ {v} : csi'[w] = csi[w]
      BY <1>1, <1>5, <2>2, CallsTrue
    <2>4. ClaimTrue(v)' BY <2>1, <2>3, <1>2, <1>5, Zenon DEF ClaimTrue, claimVars, HasId
    <2>5. /\ want' \in [Vols -> Sizes \cup {0}] /\ pv' \in [Vols -> Sizes \cup {0}]
          /\ gone' \subseteq Vols
      BY <1>1, Zenon DEF Typed, claimVars
    <2>6. UNCHANGED <<apiVars, localVars, recVars, ts, nc>> BY <1>5, Zenon DEF apiVars
    <2> QED BY <1>3, <2>3, <2>4, <2>5, <2>6, ClaimStep, Zenon DEF claimVars
  <1>6. CASE /\ Get(v) # None /\ ~HasId(Get(v)) /\ Get(v).code # "OK"
             /\ api[v] # None /\ Writes(v, Deleted(api[v])) /\ Ends(v)
    <2>1. Get(v) \in Written BY <1>6, GetTrue, Zenon
    <2>2. Failed(Get(v)) BY <1>6, <2>1, Fields, Zenon DEF Failed
    <2>3. Failed(api[v]) BY <1>6, <2>2, GetTrue, Zenon
    <2>4. api[v] \in Written BY <1>1, <1>6, Values, Zenon
    <2> DEFINE o == Deleted(api[v])
    <2>5. /\ o \in Sent /\ o.cur = api[v].cur /\ o.code = api[v].code /\ o.del = TRUE
          /\ api[v].del => o = api[v]
      BY <2>4, DeletedSent, Zenon
    <2>6. api[v].cur = 0 /\ api[v].code = "Err" /\ ~HasId(api[v])
      BY <2>3, <2>4, Fields, SizesPositive, Zenon DEF Failed
    <2>7. /\ csi' \in [Vols -> [pc : {"idle", "creating", "created", "deleting", "expanding"},
                                tgt : Vols \cup {None}, size : Sizes \cup {0}]]
          /\ csi'[v].pc = "idle"
          /\ \A w \in Vols \ {v} : csi'[w] = csi[w]
      BY <1>1, <1>6, EndsTrue, Zenon DEF Ends
    <2>8. ClaimTrue(v)' BY <2>7, <1>2 DEF ClaimTrue, claimVars
    <2>9. Writes(v, o) BY <1>6, Zenon
    <2> HIDE DEF o
    <2>10. ~Dying(api[v]) \/ o = api[v] BY <2>5, Zenon DEF Dying
    <2> QED BY <2>5, <2>6, <2>7, <2>8, <2>9, <2>10, ApiStep, Zenon
  <1> QED BY <1>4, <1>5, <1>6, Zenon

\* GetByVolumeId finds the object of the volume in the cache, or some object
\* that exists.
LEMMA LookupTrue ==
  ASSUME NEW v \in Vols, NEW t, t = GetByVolumeId(v)
  PROVE  /\ t = None => ~HasId(Cached(v)) /\ ~HasId(api[v])
         /\ t # None => \/ HasId(Cached(v)) /\ t = v
                        \/ /\ ~HasId(Cached(v)) /\ HasId(api[v])
                           /\ t \in Vols /\ api[t] # None
  <1>1. None \notin Vols BY LogicVolumeAssumption, Zenon
  <1>2. CASE HasId(Cached(v)) BY <1>1, <1>2, Zenon DEF GetByVolumeId
  <1>3. CASE ~HasId(Cached(v)) /\ HasId(api[v])
    <2> DEFINE S == {w \in Vols : api[w] # None}
    <2>1. v \in S /\ S \in SUBSET Vols BY <1>3, Zenon DEF HasId
    <2>2. \E u \in S : \A w \in S : w <= u BY <2>1, LogicVolumeAssumption, Zenon
    <2>3. Last(S) \in S BY <2>2, Zenon DEF Last
    <2>4. t = Last(S) BY <1>3, Zenon DEF GetByVolumeId
    <2> QED BY <1>1, <1>3, <2>1, <2>3, <2>4, Zenon
  <1>4. CASE ~HasId(Cached(v)) /\ ~HasId(api[v]) BY <1>4, Zenon DEF GetByVolumeId
  <1> QED BY <1>2, <1>3, <1>4, Zenon

\* DeleteVolume and ExpandVolume work on the object of their volume.
LEMMA OwnTarget ==
  ASSUME Typed, NEW v \in Vols, NEW t \in Vols, NEW p \in {"deleting", "expanding"},
         NEW s \in Sizes \cup {0}, Calls(v, p, t, s), OwnObject'
  PROVE  t = v
  <1>1. csi'[v].pc = p /\ csi'[v].tgt = t BY CallsTrue
  <1> QED BY <1>1, Zenon DEF OwnObject

LEMMA DeleteVolumeStep ==
  ASSUME IInv, NEW v \in Vols, DeleteVolume(v), OwnObject'
  PROVE  IInv'
  <1> USE DEF DeleteVolume
  <1>1. Typed /\ VolumeTrue(v) BY Zenon DEF IInv
  <1>2. CASE DropPv(v) /\ UNCHANGED api BY <1>2, DropStep, Zenon DEF apiVars
  <1>3. ASSUME NEW t, t = GetByVolumeId(v), t # None, api[t] # None, UNCHANGED claimVars,
               Writes(t, Deleted(api[t])), Calls(v, "deleting", t, 0)
        PROVE  IInv'
    <2>1. t \in Vols BY <1>1, <1>3, LookupTrue, Zenon
    <2>2. t = v BY <1>1, <1>3, <2>1, OwnTarget, Zenon
    <2>3. api[v] \in Written BY <1>1, <1>3, <2>2, Values, Zenon
    <2> DEFINE o == Deleted(api[v])
    <2>4. /\ o \in Sent /\ o.cur = api[v].cur /\ o.code = api[v].code /\ o.del = TRUE
          /\ api[v].del => o = api[v]
      BY <2>3, DeletedSent, Zenon
    <2>5. /\ csi' \in [Vols -> [pc : {"idle", "creating", "created", "deleting", "expanding"},
                                tgt : Vols \cup {None}, size : Sizes \cup {0}]]
          /\ csi'[v].pc = "deleting"
          /\ \A w \in Vols \ {v} : csi'[w] = csi[w]
      BY <1>1, <1>3, <2>1, CallsTrue, Zenon
    <2>6. Writes(v, o) /\ v \in gone BY <1>3, <2>2, Zenon
    <2> HIDE DEF o
    <2>7. /\ api'[v] \in Written /\ api'[v].cur = o.cur BY <1>1, <2>4, <2>6, WriteTrue, Zenon
    <2>8. HasId(api[v]) <=> HasId(api'[v])
      BY <2>3, <2>4, <2>7, Fields, Zenon
    <2>9. ClaimTrue(v)'
      <3>1. pv[v] > 0 => HasId(api[v]) BY <1>1, <2>3, NotNone, Zenon DEF VolumeTrue, ClaimTrue
      <3> QED BY <3>1, <2>5, <2>8, <1>3, Zenon DEF ClaimTrue, claimVars, HasId
    <2>10. ~Dying(api[v]) \/ o = api[v] BY <2>4, Zenon DEF Dying
    <2>11. HasId(api[v]) => o.cur > 0 BY <2>3, <2>4, Fields, Zenon
    <2>12. Failed(ctlSees[v]) => o.cur = 0 /\ o.code = "Err"
      <3>1. Failed(ctlSees[v]) => Failed(api[v])
        BY <1>1, <2>3, NotNone, Zenon DEF VolumeTrue, CtlTrue
      <3>2. Failed(api[v]) => api[v].cur = 0 /\ api[v].code = "Err"
        BY <2>3, Fields, SizesPositive, Zenon DEF Failed
      <3> QED BY <3>1, <3>2, <2>4, Zenon
    <2> QED BY <1>3, <2>4, <2>5, <2>6, <2>9, <2>10, <2>11, <2>12, ApiStep, Zenon
  <1> QED BY <1>2, <1>3, Zenon

LEMMA ExpandVolumeStep ==
  ASSUME IInv, NEW v \in Vols, ExpandVolume(v), OwnObject'
  PROVE  IInv'
  <1> USE DEF ExpandVolume
  <1>1. Typed /\ VolumeTrue(v) BY Zenon DEF IInv
  <1>2. want[v] \in Sizes /\ pv[v] > 0 /\ v \notin gone BY <1>1, Values
  <1>3. ASSUME NEW t, t = GetByVolumeId(v), t # None, want[v] <= Found(v, t).cur,
               GrowPv(v, Found(v, t).cur), UNCHANGED api
        PROVE  IInv'
    <2>1. Found(v, t) \in Written
      <3>1. Cached(v) \in Written \cup {None} BY <1>1, Values, Zenon
      <3>2. CASE HasId(Cached(v)) /\ t = v BY <3>1, <3>2, Zenon DEF Found, HasId
      <3>3. CASE ~HasId(Cached(v)) /\ t \in Vols /\ api[t] # None
        <4>1. api[t] \in Written BY <1>1, <3>3, Values, Zenon
        <4> QED BY <3>3, <4>1, Zenon DEF Found
      <3> QED BY <1>1, <1>3, <3>2, <3>3, LookupTrue
    <2>2. Found(v, t).cur \in Sizes
      <3>1. Found(v, t).cur \in Sizes \cup {0} BY <2>1, Fields, Zenon
      <3>2. want[v] \in Nat /\ want[v] > 0 BY <1>2, SizesPositive, Zenon
      <3> QED BY <3>1, <3>2, <1>3, SizesPositive
    <2> QED BY <1>2, <1>3, <2>2, GrowStep, Zenon DEF GrowPv, Ends, apiVars
  <1>4. ASSUME NEW t, t = GetByVolumeId(v), t # None, Found(v, t) = api[t], UNCHANGED claimVars,
               Writes(t, [api[t] EXCEPT !.size = want[v], !.ver = None]),
               Calls(v, "expanding", t, want[v])
        PROVE  IInv'
    <2>1. t \in Vols BY <1>1, <1>4, LookupTrue
    <2>2. t = v BY <1>1, <1>2, <1>4, <2>1, OwnTarget, Zenon
    <2>3. HasId(api[v]) BY <1>1, <1>4, <2>2, LookupTrue, Zenon DEF Found
    <2>4. api[v] \in Written BY <1>1, <2>3, Values, Zenon DEF HasId
    <2>5. api[v].cur > 0 /\ ~Dying(api[v])
      BY <2>3, <1>1, <1>2, Zenon DEF HasId, VolumeTrue, ApiTrue, Failed
    <2> DEFINE o == [api[v] EXCEPT !.size = want[v], !.ver = None]
    <2>6. o \in Sent /\ o.cur = api[v].cur /\ o.del = api[v].del BY <1>2, <2>4, Zenon DEF Written, Sent
    <2>7. /\ csi' \in [Vols -> [pc : {"idle", "creating", "created", "deleting", "expanding"},
                                tgt : Vols \cup {None}, size : Sizes \cup {0}]]
          /\ csi'[v].pc = "expanding" /\ csi'[v].size = want[v]
          /\ \A w \in Vols \ {v} : csi'[w] = csi[w]
      BY <1>1, <1>2, <1>4, <2>1, CallsTrue
    <2>8. Writes(v, o) BY <1>4, <2>2, Zenon
    <2> HIDE DEF o
    <2>9. api'[v] \in Written /\ api'[v].cur = o.cur BY <1>1, <2>6, <2>8, WriteTrue, Zenon
    <2>10. HasId(api'[v]) BY <2>5, <2>6, <2>9, Fields, Zenon
    <2>11. ClaimTrue(v)' BY <2>7, <2>10, <1>2, <1>4, SizesPositive, Zenon DEF ClaimTrue, claimVars, HasId
    <2>12. lv[v] > 0 /\ ~o.del
      BY <1>1, <2>3, <2>4, <2>5, <2>6, NotNone, Zenon DEF VolumeTrue, ApiTrue, Alive, Dying
    <2>13. ~Failed(ctlSees[v])
      BY <1>1, <2>3, <2>4, NotNone, Zenon DEF VolumeTrue, CtlTrue, Failed
    <2> QED BY <1>4, <2>5, <2>6, <2>7, <2>8, <2>11, <2>12, <2>13, ApiStep, Zenon
  <1> QED BY <1>3, <1>4, Zenon
------------------------------------------------------------------------------
(* The caches and the reconciler                                            *)

LEMMA SyncCtlStep ==
  ASSUME IInv, NEW v \in Vols, SyncCtl(v)
  PROVE  IInv'
  <1> USE DEF SyncCtl
  <1>1. Typed /\ VolumeTrue(v) BY Zenon DEF IInv
  <1>2. /\ ctlSees' \in [Vols -> Written \cup {None}] /\ ctlSees'[v] = api[v]
        /\ \A w \in Vols \ {v} : ctlSees'[w] = ctlSees[w]
    BY <1>1, Zenon DEF Typed
  <1>3. Typed' BY <1>1, <1>2, Zenon DEF Typed, localVars, recVars, claimVars
  <1>4. \A w \in Vols \ {v} : Same(w) BY <1>2, Zenon DEF Same, localVars, recVars, claimVars
  <1>5. CtlTrue(v)' BY <1>2, Zenon DEF CtlTrue
  <1>6. ApiTrue(v)' BY <1>1, ApiFrame, Zenon DEF localVars, claimVars
  <1>7. NodeTrue(v)' BY <1>1, NodeFrame, Zenon DEF localVars, recVars
  <1>8. RecTrue(v)' BY <1>1, RecFrame, Zenon DEF localVars, recVars
  <1>9. ClaimTrue(v)' BY <1>1, ClaimFrame, Zenon DEF claimVars
  <1> QED BY <1>3, <1>4, <1>5, <1>6, <1>7, <1>8, <1>9, LocalIInv, Zenon

LEMMA SyncNodeStep ==
  ASSUME IInv, NEW v \in Vols, SyncNode(v)
  PROVE  IInv'
  <1> USE DEF SyncNode
  <1>1. Typed /\ VolumeTrue(v) BY Zenon DEF IInv
  <1>2. /\ nodeSees' \in [Vols -> Written \cup {None}] /\ nodeSees'[v] = api[v]
        /\ \A w \in Vols \ {v} : nodeSees'[w] = nodeSees[w]
    BY <1>1, Zenon DEF Typed
  <1>3. queued' \subseteq Vols /\ (\A w \in Vols \ {v} : w \in queued' <=> w \in queued)
    BY <1>1, Zenon DEF Typed
  <1>4. Typed' BY <1>1, <1>2, <1>3, Zenon DEF Typed, localVars, claimVars
  <1>5. \A w \in Vols \ {v} : Same(w) BY <1>2, <1>3, Zenon DEF Same, localVars, claimVars
  <1>6. NodeTrue(v)'
    BY <1>1, <1>2, Zenon DEF VolumeTrue, ApiTrue, NodeTrue, Alive, Dying, HasId, localVars
  <1>7. rec[v].pc \notin {"remove", "patch"} BY <1>1, Zenon DEF VolumeTrue, RecTrue
  <1>8. RecTrue(v)' BY <1>1, <1>7, Zenon DEF VolumeTrue, RecTrue, localVars
  <1>9. ApiTrue(v)' BY <1>1, ApiFrame, Zenon DEF localVars, claimVars
  <1>10. CtlTrue(v)' BY <1>1, CtlFrame, Zenon DEF claimVars
  <1>11. ClaimTrue(v)' BY <1>1, ClaimFrame, Zenon DEF claimVars
  <1> QED BY <1>4, <1>5, <1>6, <1>8, <1>9, <1>10, <1>11, LocalIInv, Zenon

LEMMA RecGoesTrue ==
  ASSUME Typed, NEW v \in Vols,
         NEW p \in {"idle", "create", "expand", "save", "remove", "patch"},
         NEW b \in Written \cup {None}, NEW c \in Written \cup {None},
         rec' = [rec EXCEPT ![v] = [pc |-> p, base |-> b, copy |-> c]]
  PROVE  /\ rec' \in [Vols -> [pc : {"idle", "create", "expand", "save", "remove", "patch"},
                               base : Written \cup {None}, copy : Written \cup {None}]]
         /\ rec'[v].pc = p /\ rec'[v].base = b /\ rec'[v].copy = c
         /\ \A w \in Vols \ {v} : rec'[w] = rec[w]
  BY Zenon DEF Typed

\* Reconcile starts to work on the object it has read.
LEMMA RecReads ==
  ASSUME Typed, NEW v \in Vols, NEW p \in {"create", "expand", "remove"},
         NEW o \in Written \cup {None}, RecGoes(v, p, o, o)
  PROVE  /\ rec' \in [Vols -> [pc : {"idle", "create", "expand", "save", "remove", "patch"},
                               base : Written \cup {None}, copy : Written \cup {None}]]
         /\ rec'[v].pc = p /\ rec'[v].base = o /\ rec'[v].copy = o
         /\ \A w \in Vols \ {v} : rec'[w] = rec[w]
  BY RecGoesTrue DEF RecGoes

LEMMA ReconcileStep ==
  ASSUME IInv, NEW v \in Vols, Reconcile(v)
  PROVE  IInv'
  <1> USE DEF Reconcile
  <1> DEFINE o == nodeSees[v]
  <1>1. Typed /\ VolumeTrue(v) BY Zenon DEF IInv
  <1>2. o \in Written \cup {None} BY <1>1, Values, Zenon
  <1>3. queued' \subseteq Vols /\ v \notin queued'
        /\ (\A w \in Vols \ {v} : w \in queued' <=> w \in queued)
    BY <1>1, Zenon DEF Typed
  <1>4. NodeTrue(v)' BY <1>1, <1>3, NodeFrame, Zenon DEF apiVars, localVars
  <1>5. ApiTrue(v)' BY <1>1, ApiFrame, Zenon DEF apiVars, localVars, claimVars
  <1>6. CtlTrue(v)' BY <1>1, CtlFrame, Zenon DEF apiVars, claimVars
  <1>7. ClaimTrue(v)' BY <1>1, ClaimFrame, Zenon DEF apiVars, claimVars
  <1> DEFINE RecStep ==
        /\ rec' \in [Vols -> [pc : {"idle", "create", "expand", "save", "remove", "patch"},
                              base : Written \cup {None}, copy : Written \cup {None}]]
        /\ \A w \in Vols \ {v} : rec'[w] = rec[w]
        /\ RecTrue(v)'
  <1>8. ASSUME UNCHANGED rec PROVE RecStep
    <2>1. RecTrue(v)' BY <1>8, RecIdle, Zenon
    <2> QED BY <1>1, <1>8, <2>1, Zenon DEF Typed
  <1>9. ASSUME o # None /\ ~o.del /\ ~HasId(o) /\ o.code = "OK" /\ RecGoes(v, "create", o, o)
        PROVE  RecStep
    <2>1. /\ rec' \in [Vols -> [pc : {"idle", "create", "expand", "save", "remove", "patch"},
                                base : Written \cup {None}, copy : Written \cup {None}]]
          /\ rec'[v].pc = "create" /\ rec'[v].base = o /\ rec'[v].copy = o
          /\ \A w \in Vols \ {v} : rec'[w] = rec[w]
      BY <1>1, <1>2, <1>9, RecReads, Zenon
    <2>2. api[v] # None BY <1>1, <1>9, Zenon DEF VolumeTrue, NodeTrue, Alive
    <2>3. RecTrue(v)' BY <2>1, <2>2, <1>9, Zenon DEF RecTrue, Alive, HasId, apiVars, localVars
    <2> QED BY <2>1, <2>3, Zenon
  <1>10. ASSUME o # None /\ ~o.del /\ HasId(o) /\ RecGoes(v, "expand", o, o)
         PROVE  RecStep
    <2>1. /\ rec' \in [Vols -> [pc : {"idle", "create", "expand", "save", "remove", "patch"},
                                base : Written \cup {None}, copy : Written \cup {None}]]
          /\ rec'[v].pc = "expand" /\ rec'[v].base = o /\ rec'[v].copy = o
          /\ \A w \in Vols \ {v} : rec'[w] = rec[w]
      BY <1>1, <1>2, <1>10, RecReads, Zenon
    <2>2. api[v] # None /\ lv[v] > 0 BY <1>1, <1>10, Zenon DEF VolumeTrue, NodeTrue, Alive
    <2>3. RecTrue(v)' BY <2>1, <2>2, <1>10, Zenon DEF RecTrue, Alive, HasId, apiVars, localVars
    <2> QED BY <2>1, <2>3, Zenon
  <1>11. ASSUME o # None /\ o.del /\ RecGoes(v, "remove", o, o) PROVE RecStep
    <2>1. /\ rec' \in [Vols -> [pc : {"idle", "create", "expand", "save", "remove", "patch"},
                                base : Written \cup {None}, copy : Written \cup {None}]]
          /\ rec'[v].pc = "remove" /\ rec'[v].base = o /\ rec'[v].copy = o
          /\ \A w \in Vols \ {v} : rec'[w] = rec[w]
      BY <1>1, <1>2, <1>11, RecReads, Zenon
    <2>2. api[v] = o BY <1>1, <1>11, Zenon DEF VolumeTrue, NodeTrue, Dying
    <2>3. RecTrue(v)' BY <2>1, <2>2, <1>3, <1>11, Zenon DEF RecTrue, Dying, apiVars, localVars
    <2> QED BY <2>1, <2>3, Zenon
  <1>12. RecStep BY <1>8, <1>9, <1>10, <1>11, Zenon
  <1>13. Typed' BY <1>1, <1>3, <1>12, Zenon DEF Typed, apiVars, localVars, claimVars
  <1>14. \A w \in Vols \ {v} : Same(w) BY <1>3, <1>12, Zenon DEF Same, apiVars, localVars, claimVars
  <1> QED BY <1>4, <1>5, <1>6, <1>7, <1>12, <1>13, <1>14, LocalIInv, Zenon

\* createLV and expandLV: the volume is there before the status that names it
\* is saved, and a volume that was there stays.
LEMMA LocalStep ==
  ASSUME IInv, NEW v \in Vols, NEW c \in Written, Saving(v, c),
         rec[v].pc \in {"create", "expand"},
         UNCHANGED <<apiVars, queued, claimVars, csi, ts, nc>>,
         lv' \in [Vols -> Sizes \cup {0}], free' \in Nat, faults' \in 0..MaxFaults,
         \A w \in Vols \ {v} : lv'[w] = lv[w],
         lv[v] > 0 => lv'[v] > 0,
         ~c.del, HasId(rec[v].base) => HasId(c), HasId(c) => lv'[v] > 0
  PROVE  IInv'
  <1> USE DEF apiVars, claimVars
  <1>1. Typed /\ VolumeTrue(v) BY Zenon DEF IInv
  <1>2. rec[v].base \in Written \cup {None} BY <1>1, Values, Zenon
  <1>3. /\ rec' \in [Vols -> [pc : {"idle", "create", "expand", "save", "remove", "patch"},
                              base : Written \cup {None}, copy : Written \cup {None}]]
        /\ rec'[v].pc = "save" /\ rec'[v].base = rec[v].base /\ rec'[v].copy = c
        /\ \A w \in Vols \ {v} : rec'[w] = rec[w]
    BY <1>1, <1>2, RecGoesTrue DEF Saving, RecGoes
  <1>4. Typed' BY <1>1, <1>3, Zenon DEF Typed
  <1>5. \A w \in Vols \ {v} : Same(w) BY <1>3, Zenon DEF Same
  <1>6. /\ api[v] # None /\ Alive(rec[v].base)
        /\ HasId(rec[v].base) \/ rec[v].base.code = "OK"
    BY <1>1, Zenon DEF VolumeTrue, RecTrue
  <1>7. ApiTrue(v)' BY <1>1, <1>6, Zenon DEF VolumeTrue, ApiTrue
  <1>8. NodeTrue(v)' BY <1>1, <1>6, Zenon DEF VolumeTrue, NodeTrue
  <1>9. Alive(c) BY NotNone, Zenon DEF Alive
  <1>10. RecTrue(v)' BY <1>3, <1>6, <1>9, Zenon DEF RecTrue
  <1>11. CtlTrue(v)' BY <1>1, CtlFrame, Zenon
  <1>12. ClaimTrue(v)' BY <1>1, ClaimFrame, Zenon
  <1> QED BY <1>4, <1>5, <1>7, <1>8, <1>10, <1>11, <1>12, LocalIInv, Zenon

\* The worker gives up; the name is in the queue again.
LEMMA RecFailsStep ==
  ASSUME IInv, NEW v \in Vols, rec[v].pc # "idle", RecFails(v), faults' \in 0..MaxFaults,
         UNCHANGED <<apiVars, localVars, claimVars, csi, ts, nc>>
  PROVE  IInv'
  <1> USE DEF apiVars, localVars, claimVars
  <1>1. Typed /\ VolumeTrue(v) BY Zenon DEF IInv
  <1>2. /\ rec' \in [Vols -> [pc : {"idle", "create", "expand", "save", "remove", "patch"},
                              base : Written \cup {None}, copy : Written \cup {None}]]
        /\ rec'[v].pc = "idle"
        /\ \A w \in Vols \ {v} : rec'[w] = rec[w]
    BY <1>1, RecGoesTrue, Zenon DEF RecFails, RecEnds, IdleRec
  <1>3. queued' \subseteq Vols /\ (\A w \in Vols \ {v} : w \in queued' <=> w \in queued)
    BY <1>1, Zenon DEF Typed, RecFails
  <1>4. Typed' BY <1>1, <1>2, <1>3, Zenon DEF Typed
  <1>5. \A w \in Vols \ {v} : Same(w) BY <1>2, <1>3, Zenon DEF Same
  <1>6. ApiTrue(v)' BY <1>1, ApiFrame, Zenon
  <1>7. NodeTrue(v)' BY <1>1, NodeFrame, Zenon
  <1>8. RecTrue(v)' BY <1>2, RecIdle, Zenon
  <1>9. CtlTrue(v)' BY <1>1, CtlFrame, Zenon
  <1>10. ClaimTrue(v)' BY <1>1, ClaimFrame, Zenon
  <1> QED BY <1>4, <1>5, <1>6, <1>7, <1>8, <1>9, <1>10, LocalIInv, Zenon

LEMMA CreateLvStep ==
  ASSUME IInv, NEW v \in Vols, CreateLv(v)
  PROVE  IInv'
  <1> USE DEF CreateLv
  <1> DEFINE o == rec[v].copy
  <1>1. Typed /\ VolumeTrue(v) BY Zenon DEF IInv
  <1>2. faults' \in 0..MaxFaults BY <1>1, FaultTyped, Zenon
  <1>3. Alive(o) /\ ~HasId(o) /\ o = rec[v].base BY <1>1, Zenon DEF VolumeTrue, RecTrue
  <1>4. o \in Written BY <1>1, <1>3, Values, Zenon DEF Alive
  <1>5. o.size \in Sizes /\ o.size \in Nat /\ o.size > 0 BY <1>4, Fields, SizesPositive, Zenon
  <1>6. lv[v] \in Nat /\ free \in Nat BY <1>1, Values, Zenon
  <1>7. CASE /\ Saving(v, CreateDone(o))
             /\ \/ lv[v] > 0 /\ UNCHANGED localVars
                \/ lv[v] = 0 /\ o.size <= free /\ Allocate(v, o.size)
    <2> DEFINE c == CreateDone(o)
    <2>1. c \in Written /\ c.cur = o.size /\ c.del = o.del BY <1>4, DoneWritten, Zenon
    <2>2. HasId(c) BY <1>5, <2>1, Fields, Zenon
    <2>3. /\ lv' \in [Vols -> Sizes \cup {0}] /\ lv'[v] > 0
          /\ \A w \in Vols \ {v} : lv'[w] = lv[w]
      BY <1>1, <1>5, <1>7 DEF Typed, localVars, Allocate
    <2>4. free' \in Nat BY <1>5, <1>6, <1>7 DEF localVars, Allocate
    <2>5. ~c.del BY <1>3, <2>1, Zenon DEF Alive
    <2>6. Saving(v, c) BY <1>7, Zenon
    <2> HIDE DEF c
    <2> QED BY <1>2, <2>1, <2>2, <2>3, <2>4, <2>5, <2>6, LocalStep, Zenon
  <1>8. CASE Saving(v, CreateFailed(o)) /\ UNCHANGED localVars
    <2> DEFINE c == CreateFailed(o)
    <2>1. c \in Written /\ c.cur = o.cur /\ c.del = o.del BY <1>4, FailedWritten, Zenon
    <2>2. ~HasId(c) BY <1>3, <1>4, <2>1, Fields, Zenon
    <2>3. /\ lv' \in [Vols -> Sizes \cup {0}] /\ free' \in Nat
          /\ \A w \in Vols : lv'[w] = lv[w]
      BY <1>1, <1>8, Zenon DEF Typed, localVars
    <2>4. ~c.del BY <1>3, <2>1, Zenon DEF Alive
    <2>5. Saving(v, c) BY <1>8, Zenon
    <2> HIDE DEF c
    <2> QED BY <1>2, <1>3, <2>1, <2>2, <2>3, <2>4, <2>5, LocalStep, Zenon
  <1> QED BY <1>7, <1>8, Zenon

LEMMA ExpandLvStep ==
  ASSUME IInv, NEW v \in Vols, ExpandLv(v)
  PROVE  IInv'
  <1> USE DEF ExpandLv
  <1> DEFINE o == rec[v].copy
             need == USub(o.size, lv[v])
  <1>1. Typed /\ VolumeTrue(v) BY Zenon DEF IInv
  <1>2. faults' \in 0..MaxFaults BY <1>1, FaultTyped, Zenon
  <1>3. Alive(o) /\ HasId(o) /\ o = rec[v].base /\ lv[v] > 0 BY <1>1, Zenon DEF VolumeTrue, RecTrue
  <1>4. o \in Written BY <1>1, <1>3, Values, Zenon DEF Alive
  <1>5. o.size \in Sizes /\ o.size \in Nat /\ o.size > 0 BY <1>4, Fields, SizesPositive, Zenon
  <1>6. lv[v] \in Nat /\ free \in Nat BY <1>1, Values, Zenon
  <1>7. CASE /\ Saving(v, ExpandDone(o))
             /\ \/ UNCHANGED localVars
                \/ lv[v] < o.size /\ need <= free /\ Allocate(v, need)
    <2> DEFINE c == CreateDone(o)
    <2>1. c \in Written /\ c.cur = o.size /\ c.del = o.del BY <1>4, DoneWritten, Zenon
    <2>2. HasId(c) BY <1>5, <2>1, Fields, Zenon
    <2>3. /\ lv' \in [Vols -> Sizes \cup {0}] /\ lv'[v] > 0 /\ free' \in Nat
          /\ \A w \in Vols \ {v} : lv'[w] = lv[w]
      <3>1. CASE UNCHANGED localVars BY <1>1, <1>3, <3>1, Zenon DEF Typed, localVars
      <3>2. CASE lv[v] < o.size /\ need <= free /\ Allocate(v, need)
        <4>1. need = o.size - lv[v] BY <1>5, <1>6, <3>2 DEF USub
        <4>2. lv[v] + need = o.size /\ free - need \in Nat BY <1>5, <1>6, <3>2, <4>1
        <4> HIDE DEF need
        <4> QED BY <1>1, <1>5, <3>2, <4>2, Zenon DEF Typed, Allocate
      <3> QED BY <1>7, <3>1, <3>2, Zenon
    <2>4. ~c.del BY <1>3, <2>1, Zenon DEF Alive
    <2>5. Saving(v, c) BY <1>7, Zenon DEF ExpandDone
    <2> HIDE DEF c
    <2> QED BY <1>2, <2>1, <2>2, <2>3, <2>4, <2>5, LocalStep, Zenon
  <1>8. ASSUME NEW d \in {"OK", "Err"}, Saving(v, ExpandFailed(o, d)), UNCHANGED localVars
        PROVE  IInv'
    <2> DEFINE c == ExpandFailed(o, d)
    <2>1. c \in Written /\ c.cur = o.cur /\ c.del = o.del BY <1>4, ExpandFailedWritten, Zenon
    <2>2. /\ lv' \in [Vols -> Sizes \cup {0}] /\ free' \in Nat
          /\ \A w \in Vols : lv'[w] = lv[w]
      BY <1>1, <1>8, Zenon DEF Typed, localVars
    <2>3. ~c.del /\ HasId(c) BY <1>3, <1>4, <2>1, Fields, Zenon DEF Alive
    <2>4. Saving(v, c) BY <1>8, Zenon
    <2> HIDE DEF c
    <2> QED BY <1>2, <1>3, <2>1, <2>2, <2>3, <2>4, LocalStep, Zenon
  <1>9. o.code \in {"OK", "Err"} BY <1>4, Fields, Zenon
  <1> QED BY <1>7, <1>8, <1>9, Zenon

LEMMA SaveStatusStep ==
  ASSUME IInv, NEW v \in Vols, SaveStatus(v)
  PROVE  IInv'
  <1> USE DEF SaveStatus
  <1> DEFINE c == rec[v].copy
  <1>1. Typed /\ VolumeTrue(v) BY Zenon DEF IInv
  <1>2. CASE api[v] = rec[v].base /\ Writes(v, c) /\ RecEnds(v) /\ UNCHANGED queued
    <2>1. /\ api[v] # None /\ Alive(api[v]) /\ Alive(c)
          /\ HasId(api[v]) => lv[v] > 0 /\ HasId(c)
          /\ HasId(api[v]) \/ api[v].code = "OK"
          /\ HasId(c) => lv[v] > 0
      BY <1>1, <1>2, Zenon DEF VolumeTrue, RecTrue
    <2>2. c \in Written BY <1>1, <2>1, Values, Zenon DEF Alive
    <2>3. c \in Sent BY <2>2, Fields, Zenon
    <2>4. /\ api' \in [Vols -> Written \cup {None}]
          /\ api'[v] \in Written /\ api'[v] # None /\ api'[v].cur = c.cur /\ api'[v].del = c.del
          /\ \A w \in Vols \ {v} : api'[w] = api[w]
      BY <1>1, <1>2, <2>3, WriteTrue, Zenon
    <2>5. /\ rec' \in [Vols -> [pc : {"idle", "create", "expand", "save", "remove", "patch"},
                                base : Written \cup {None}, copy : Written \cup {None}]]
          /\ rec'[v].pc = "idle"
          /\ \A w \in Vols \ {v} : rec'[w] = rec[w]
      BY <1>1, <1>2, RecGoesTrue, Zenon DEF RecEnds, IdleRec
    <2>6. Typed' BY <1>1, <1>2, <2>4, <2>5, Zenon DEF Typed, localVars, claimVars
    <2>7. \A w \in Vols \ {v} : Same(w) BY <1>2, <2>4, <2>5, Zenon DEF Same, localVars, claimVars
    <2>8. UNCHANGED <<nodeSees, ctlSees, lv, queued, gone, pv, csi>>
      BY <1>2, Zenon DEF localVars, claimVars
    <2>9. HasId(api'[v]) <=> HasId(c) BY <2>2, <2>4, Fields, Zenon
    <2>10. ~Dying(api'[v]) BY <2>1, <2>4, Zenon DEF Alive, Dying
    <2>11. ApiTrue(v)' BY <2>1, <2>4, <2>8, <2>9, <2>10, Zenon DEF ApiTrue
    <2>12. ~(Dying(nodeSees[v]) /\ v \in queued)
      <3>1. Dying(nodeSees[v]) => api[v] = nodeSees[v] BY <1>1, Zenon DEF VolumeTrue, NodeTrue
      <3> QED BY <3>1, <2>1, Zenon DEF Alive, Dying
    <2>13. NodeTrue(v)'
      BY <1>1, <2>4, <2>5, <2>8, <2>12, Zenon DEF VolumeTrue, NodeTrue
    <2>14. RecTrue(v)' BY <2>5, RecIdle, Zenon
    <2>15. ~Failed(ctlSees[v])
      <3>1. ~Failed(api[v]) BY <2>1, Zenon DEF Failed
      <3> QED BY <3>1, <1>1, <2>1, Zenon DEF VolumeTrue, CtlTrue
    <2>16. CtlTrue(v)' BY <1>1, <2>1, <2>8, <2>9, <2>15, Zenon DEF VolumeTrue, CtlTrue
    <2>17. ClaimTrue(v)' BY <1>1, <2>1, <2>8, <2>9, Zenon DEF VolumeTrue, ClaimTrue
    <2> QED BY <2>6, <2>7, <2>11, <2>13, <2>14, <2>16, <2>17, LocalIInv, Zenon
  <1>3. CASE RecFails(v) /\ UNCHANGED api
    <2>1. faults' \in 0..MaxFaults BY <1>1, FaultTyped, Zenon
    <2> QED BY <1>3, <2>1, RecFailsStep, Zenon DEF apiVars
  <1> QED BY <1>2, <1>3, Zenon

LEMMA RemoveLvStep ==
  ASSUME IInv, NEW v \in Vols, RemoveLv(v)
  PROVE  IInv'
  <1> USE DEF RemoveLv, apiVars, claimVars
  <1>1. Typed /\ VolumeTrue(v) BY Zenon DEF IInv
  <1>2. Dying(api[v]) /\ nodeSees[v] = api[v] /\ v \notin queued
    BY <1>1, Zenon DEF VolumeTrue, RecTrue
  <1>3. /\ rec' \in [Vols -> [pc : {"idle", "create", "expand", "save", "remove", "patch"},
                              base : Written \cup {None}, copy : Written \cup {None}]]
        /\ rec'[v].pc = "patch"
        /\ \A w \in Vols \ {v} : rec'[w] = rec[w]
    <2> DEFINE b == rec[v].base
    <2>1. b \in Written \cup {None} BY <1>1, Values, Zenon
    <2>2. rec' = [rec EXCEPT ![v] = [pc |-> "patch", base |-> b, copy |-> None]] BY Zenon DEF RecGoes
    <2> HIDE DEF b
    <2>3. None \in Written \cup {None} OBVIOUS
    <2> QED BY <1>1, <2>1, <2>2, <2>3, RecGoesTrue, Zenon
  <1>4. /\ lv' \in [Vols -> Sizes \cup {0}] /\ lv'[v] = 0
        /\ \A w \in Vols \ {v} : lv'[w] = lv[w]
    BY <1>1, Zenon DEF Typed
  <1>5. free' \in Nat BY <1>1, Values
  <1>6. Typed' BY <1>1, <1>3, <1>4, <1>5, Zenon DEF Typed
  <1>7. \A w \in Vols \ {v} : Same(w) BY <1>3, <1>4, Zenon DEF Same
  <1>8. ~Alive(api[v]) BY <1>2, Zenon DEF Alive, Dying
  <1>9. ApiTrue(v)' BY <1>1, <1>4, <1>8 DEF VolumeTrue, ApiTrue
  <1>10. NodeTrue(v)' BY <1>2, <1>8, Zenon DEF NodeTrue
  <1>11. RecTrue(v)' BY <1>2, <1>3, <1>4, Zenon DEF RecTrue
  <1>12. CtlTrue(v)' BY <1>1, CtlFrame, Zenon
  <1>13. ClaimTrue(v)' BY <1>1, ClaimFrame, Zenon
  <1> QED BY <1>6, <1>7, <1>9, <1>10, <1>11, <1>12, <1>13, LocalIInv, Zenon

LEMMA RemoveFinalizerStep ==
  ASSUME IInv, NEW v \in Vols, RemoveFinalizer(v)
  PROVE  IInv'
  <1> USE DEF RemoveFinalizer, localVars, claimVars
  <1>1. Typed /\ VolumeTrue(v) BY Zenon DEF IInv
  <1>2. Dying(api[v]) /\ nodeSees[v] = api[v] /\ v \notin queued /\ lv[v] = 0
    BY <1>1, Zenon DEF VolumeTrue, RecTrue
  <1>3. Writes(v, None) /\ RecEnds(v) /\ UNCHANGED queued BY <1>2, StrippedGone DEF Dying
  <1>4. /\ api' \in [Vols -> Written \cup {None}] /\ api'[v] = None
        /\ \A w \in Vols \ {v} : api'[w] = api[w]
    BY <1>1, <1>3, Zenon DEF Typed, Writes
  <1>5. /\ rec' \in [Vols -> [pc : {"idle", "create", "expand", "save", "remove", "patch"},
                              base : Written \cup {None}, copy : Written \cup {None}]]
        /\ rec'[v].pc = "idle"
        /\ \A w \in Vols \ {v} : rec'[w] = rec[w]
    BY <1>1, <1>3, RecGoesTrue, Zenon DEF RecEnds, IdleRec
  <1>6. Typed' BY <1>1, <1>3, <1>4, <1>5, Zenon DEF Typed
  <1>7. \A w \in Vols \ {v} : Same(w) BY <1>3, <1>4, <1>5, Zenon DEF Same
  <1>8. HasId(api[v]) => v \in gone BY <1>1, <1>2, Zenon DEF VolumeTrue, ApiTrue, Failed
  <1>9. ~HasId(api'[v]) /\ ~Alive(api'[v]) /\ ~Dying(api'[v])
    BY <1>4, Zenon DEF HasId, Alive, Dying
  <1>10. ApiTrue(v)' BY <1>2, <1>9 DEF ApiTrue
  <1>11. ~Alive(nodeSees[v]) BY <1>2, Zenon DEF Alive, Dying
  <1>12. NodeTrue(v)' BY <1>2, <1>3, <1>5, <1>11, Zenon DEF NodeTrue
  <1>13. RecTrue(v)' BY <1>5, RecIdle, Zenon
  <1>14. CtlTrue(v)' BY <1>1, <1>4, <1>8, Zenon DEF VolumeTrue, CtlTrue
  <1>15. ClaimTrue(v)'
    <2>1. pv[v] > 0 => v \in gone BY <1>1, <1>8, Zenon DEF VolumeTrue, ClaimTrue
    <2>2. csi[v].pc # "created" BY <1>1, <1>8, Zenon DEF VolumeTrue, ClaimTrue
    <2> QED BY <1>1, <1>4, <2>1, <2>2, Zenon DEF VolumeTrue, ClaimTrue
  <1> QED BY <1>6, <1>7, <1>10, <1>12, <1>13, <1>14, <1>15, LocalIInv, Zenon

LEMMA ReconcileFailsStep ==
  ASSUME IInv, NEW v \in Vols, ReconcileFails(v)
  PROVE  IInv'
  <1>1. faults' \in 0..MaxFaults BY FaultTyped, Zenon DEF IInv, ReconcileFails
  <1> QED BY <1>1, RecFailsStep, Zenon DEF ReconcileFails

LEMMA NodeRestartsStep ==
  ASSUME IInv, NodeRestarts
  PROVE  IInv'
  <1> USE DEF NodeRestarts, localVars, claimVars
  <1>1. Typed BY Zenon DEF IInv
  <1>2. faults' \in 0..MaxFaults BY <1>1, FaultTyped, Zenon
  <1>3. rec' \in [Vols -> [pc : {"idle", "create", "expand", "save", "remove", "patch"},
                           base : Written \cup {None}, copy : Written \cup {None}]]
    BY Zenon DEF IdleRec
  <1>4. queued' \subseteq Vols /\ ts'.pc = "idle" BY Zenon DEF IdleTs
  <1>5. Typed' BY <1>1, <1>2, <1>3, <1>4, Zenon DEF Typed
  <1> SUFFICES ASSUME NEW v \in Vols PROVE VolumeTrue(v)' BY <1>5, Zenon DEF IInv
  <1>6. VolumeTrue(v) BY Zenon DEF IInv
  <1>7. ApiTrue(v)' BY <1>6, ApiFrame, Zenon
  <1>8. NodeTrue(v)' BY <1>6, Zenon DEF VolumeTrue, ApiTrue, NodeTrue, Alive
  <1>9. rec'[v].pc = "idle" BY Zenon DEF IdleRec
  <1>10. RecTrue(v)' BY <1>9, RecIdle, Zenon
  <1>11. CtlTrue(v)' BY <1>6, CtlFrame, Zenon
  <1>12. ClaimTrue(v)' BY <1>6, ClaimFrame, Zenon
  <1> QED BY <1>7, <1>8, <1>10, <1>11, <1>12, Zenon DEF VolumeTrue
------------------------------------------------------------------------------
(* The inductive invariant                                                  *)

LEMMA InitIInv == Init => IInv
  <1> SUFFICES ASSUME Init PROVE IInv OBVIOUS
  <1> USE DEF Init
  <1>1. Typed
    <2>1. MaxFaults \in Nat /\ Capacity \in Nat BY LogicVolumeAssumption, Zenon
    <2>2. faults \in 0..MaxFaults /\ free \in Nat BY <2>1
    <2>3. ts.pc = "idle" /\ nc.pc = "idle" BY Zenon DEF IdleTs, IdleNc
    <2> QED BY <2>2, <2>3, Zenon DEF Typed, IdleRec, IdleCsi
  <1>2. ASSUME NEW v \in Vols PROVE VolumeTrue(v)
    <2>1. rec[v].pc = "idle" /\ csi[v].pc = "idle" BY Zenon DEF IdleRec, IdleCsi
    <2>2. api[v] = None /\ nodeSees[v] = None /\ ctlSees[v] = None /\ lv[v] = 0 /\ pv[v] = 0
      OBVIOUS
    <2> QED
      BY <2>1, <2>2 DEF VolumeTrue, ApiTrue, NodeTrue, RecTrue, CtlTrue, ClaimTrue, Alive, Dying,
                        HasId, Failed
  <1> QED BY <1>1, <1>2, Zenon DEF IInv

\* Without the cleanups, only the steps of the volumes and a restart are left.
LEMMA NoCleanup ==
  ASSUME ~TsRuns, ~NcRuns, Typed, Next
  PROVE  \/ \E v \in Vols : User(v) \/ Csi(v) \/ Worker(v) \/ SyncCtl(v) \/ SyncNode(v)
         \/ \E v \in Vols : CallLost(v) \/ ReconcileFails(v)
         \/ NodeRestarts
  <1>1. ~TroubleShoot
    BY Zenon DEF Typed, TroubleShoot, ListLocalVolumes, ListObjects, CleanOrphan
  <1>2. ~NodeController
    BY Zenon DEF Typed, NodeController, NcListObjects, NcListPvs, NcRemoveFinalizer, NcDelete
  <1> QED BY <1>1, <1>2, Zenon DEF Next, Failures

LEMMA NextIInv ==
  ASSUME ~TsRuns, ~NcRuns, IInv, OwnObject', [Next]_vars
  PROVE  IInv'
  <1>1. Typed BY Zenon DEF IInv
  <1>2. CASE UNCHANGED vars
    <2>1. Typed' BY <1>1, <1>2, Zenon DEF Typed, vars
    <2>2. \A w \in Vols : Same(w) BY <1>2, Zenon DEF Same, vars
    <2> QED BY <2>1, <2>2, SameTrue, Zenon DEF IInv
  <1>3. ASSUME NEW v \in Vols, User(v) PROVE IInv' BY <1>3, UserStep, Zenon
  <1>4. ASSUME NEW v \in Vols, Csi(v) PROVE IInv'
    BY <1>4, CreateVolumeStep, CreateWaitStep, CreatePvStep, DeleteVolumeStep, DeleteWaitStep,
       ExpandVolumeStep, ExpandWaitStep, LostStep, Zenon DEF Csi
  <1>5. ASSUME NEW v \in Vols, Worker(v) PROVE IInv'
    BY <1>5, ReconcileStep, CreateLvStep, ExpandLvStep, RemoveLvStep, SaveStatusStep,
       RemoveFinalizerStep, Zenon DEF Worker
  <1>6. ASSUME NEW v \in Vols, SyncCtl(v) \/ SyncNode(v) PROVE IInv'
    BY <1>6, SyncCtlStep, SyncNodeStep, Zenon
  <1>7. ASSUME NEW v \in Vols, CallLost(v) \/ ReconcileFails(v) PROVE IInv'
    BY <1>7, LostStep, ReconcileFailsStep, Zenon
  <1>8. CASE NodeRestarts BY <1>8, NodeRestartsStep, Zenon
  <1>9. CASE Next BY <1>1, <1>3, <1>4, <1>5, <1>6, <1>7, <1>8, <1>9, NoCleanup, Zenon
  <1> QED BY <1>2, <1>9, Zenon

LEMMA Inductive ==
  ASSUME ~TsRuns, ~NcRuns
  PROVE  Spec /\ []OwnObject => []IInv
  <1>1. Init => IInv BY InitIInv, Zenon
  <1>2. IInv /\ OwnObject' /\ [Next]_vars => IInv' BY NextIInv, Zenon
  <1> QED BY <1>1, <1>2, PTL DEF Spec

LEMMA SafeIInv ==
  ASSUME IInv
  PROVE  PvBacked /\ FinalizerGuards /\ StatusTrue
  <1>1. Typed BY Zenon DEF IInv
  <1>2. ASSUME NEW v \in Vols PROVE VolumeTrue(v) BY Zenon DEF IInv
  <1>3. StatusTrue BY <1>2, Zenon DEF StatusTrue, VolumeTrue, ApiTrue, HasId, Alive
  <1>4. FinalizerGuards
    <2> SUFFICES ASSUME NEW v \in Vols, lv[v] > 0 PROVE api[v] # None /\ api[v].fin
      BY Zenon DEF FinalizerGuards
    <2>1. api[v] # None BY <1>2, Zenon DEF VolumeTrue, ApiTrue
    <2>2. api[v] \in Written BY <1>1, <2>1, Values, Zenon
    <2> QED BY <2>1, <2>2, Fields, Zenon
  <1>5. PvBacked
    <2> SUFFICES ASSUME NEW v \in Vols, pv[v] > 0, v \notin gone PROVE lv[v] > 0
      BY Zenon DEF PvBacked
    <2>1. VolumeTrue(v) /\ HasId(api[v]) BY <1>2, Zenon DEF VolumeTrue, ClaimTrue
    <2>2. ~Dying(api[v]) BY <2>1, Zenon DEF VolumeTrue, ApiTrue, Failed
    <2> QED BY <2>1, <2>2, Zenon DEF VolumeTrue, ApiTrue, HasId, Alive, Dying
  <1> QED BY <1>3, <1>4, <1>5, Zenon
------------------------------------------------------------------------------
(* An answer OK to DeleteVolume                                             *)

LEMMA DropTrue ==
  ASSUME IInv, OwnObject, NEW v \in Vols, DeleteVolume(v) \/ DeleteWait(v),
         pv[v] > 0, pv'[v] = 0
  PROVE  lv[v] = 0
  <1>1. Typed /\ VolumeTrue(v) BY Zenon DEF IInv
  <1>2. lv[v] \in Nat BY <1>1, Values, Zenon
  <1> SUFFICES api[v] = None BY <1>1, <1>2 DEF VolumeTrue, ApiTrue
  <1>3. CASE DeleteVolume(v)
    <2> DEFINE t == GetByVolumeId(v)
    <2>1. t = None \/ (t # None /\ api[t] = None)
      BY <1>3 DEF DeleteVolume, claimVars
    <2> HIDE DEF t
    <2>2. /\ t = None => ~HasId(api[v])
          /\ t # None /\ api[t] = None => t = v
      BY LookupTrue DEF t
    <2>3. HasId(api[v]) \/ api[v] = None BY <1>1, Zenon DEF VolumeTrue, ClaimTrue
    <2> QED BY <2>1, <2>2, <2>3, Zenon
  <1>4. CASE DeleteWait(v)
    <2>1. csi[v].tgt = v /\ Get(v) = None BY <1>4, Zenon DEF DeleteWait, OwnObject
    <2> QED BY <2>1, GetTrue, Zenon
  <1> QED BY <1>3, <1>4, Zenon

\* No other step takes a PersistentVolume away.
LEMMA OthersKeepPv ==
  ASSUME IInv, NEW v \in Vols, NEW u \in Vols, pv[v] > 0,
         \/ User(u) \/ Worker(u) \/ SyncCtl(u) \/ SyncNode(u)
         \/ Csi(u) /\ (u # v \/ ~(DeleteVolume(u) \/ DeleteWait(u)))
         \/ CallLost(u) \/ ReconcileFails(u) \/ NodeRestarts
  PROVE  pv'[v] # 0
  <1>1. Typed /\ VolumeTrue(u) BY Zenon DEF IInv
  <1>2. pv \in [Vols -> Sizes \cup {0}] BY <1>1, Zenon DEF Typed
  <1>3. CASE UNCHANGED pv BY <1>3
  <1>4. ASSUME NEW s, pv' = [pv EXCEPT ![u] = s], u # v \/ s > 0 PROVE pv'[v] # 0
    BY <1>2, <1>4
  <1>5. CASE User(u) BY <1>3, <1>5, Zenon DEF User, Claim, EnlargeClaim, DeleteClaim
  <1>6. CASE Worker(u)
    BY <1>3, <1>6, Zenon DEF Worker, Reconcile, CreateLv, ExpandLv, RemoveLv, SaveStatus,
                      RemoveFinalizer, claimVars
  <1>7. CASE SyncCtl(u) \/ SyncNode(u) BY <1>3, <1>7, Zenon DEF SyncCtl, SyncNode, claimVars
  <1>8. CASE CallLost(u) \/ ReconcileFails(u) \/ NodeRestarts
    BY <1>3, <1>8, Zenon DEF CallLost, ReconcileFails, NodeRestarts, claimVars
  <1>9. CASE CreateVolume(u) \/ CreateWait(u) \/ Deadline(u)
    BY <1>3, <1>9, Zenon DEF CreateVolume, CreateWait, Deadline, claimVars
  <1>10. CASE CreatePv(u)
    <2>1. csi[u].size > 0 BY <1>1, <1>10, Zenon DEF CreatePv, VolumeTrue, ClaimTrue
    <2> QED BY <1>4, <1>10, <2>1, Zenon DEF CreatePv
  <1>11. CASE u # v /\ (DeleteVolume(u) \/ DeleteWait(u))
    BY <1>3, <1>4, <1>11, Zenon DEF DeleteVolume, DeleteWait, DropPv, claimVars
  <1>12. CASE ExpandVolume(u)
    <2>1. CASE UNCHANGED claimVars BY <1>3, <2>1, Zenon DEF claimVars
    <2>2. ASSUME NEW s, pv' = [pv EXCEPT ![u] = s], want[u] <= s PROVE pv'[v] # 0
      <3>1. want[u] \in Nat /\ pv[u] \in Nat BY <1>1, Values, Zenon
      <3>2. want[u] > 0 BY <1>12, <3>1 DEF ExpandVolume
      <3>3. s # 0 BY <2>2, <3>1, <3>2
      <3> QED BY <1>2, <2>2, <3>3
    <2> QED BY <1>12, <2>1, <2>2, Zenon DEF ExpandVolume, GrowPv
  <1>13. CASE ExpandWait(u)
    <2>1. csi[u].size > 0 BY <1>1, <1>13, Zenon DEF ExpandWait, VolumeTrue, ClaimTrue
    <2> QED BY <1>3, <1>4, <1>13, <2>1, Zenon DEF ExpandWait, GrowPv, claimVars
  <1> QED BY <1>5, <1>6, <1>7, <1>8, <1>9, <1>10, <1>11, <1>12, <1>13, Zenon DEF Csi
------------------------------------------------------------------------------
(* The object of the call                                                   *)

\* The cache of carina-controller is up to date, or there is one volume.
ExactLookup == ~CtlLag \/ \A v, w \in Vols : v = w

OwnCalls ==
    /\ csi \in [Vols -> [pc : {"idle", "creating", "created", "deleting", "expanding"},
                         tgt : Vols \cup {None}, size : Sizes \cup {0}]]
    /\ want \in [Vols -> Sizes \cup {0}]
    /\ OwnObject

\* Then GetByVolumeId never falls back on the last object of the list.
LEMMA LookupOwn ==
  ASSUME ExactLookup, NEW v \in Vols, NEW t, t = GetByVolumeId(v), t # None
  PROVE  t = v
  <1>1. t = v \/ (~HasId(Cached(v)) /\ HasId(api[v]) /\ t \in Vols)
    BY LookupTrue
  <1> QED BY <1>1, Zenon DEF ExactLookup, Cached

LEMMA OwnKept ==
  ASSUME OwnCalls, NEW v \in Vols, csi' = csi \/ Ends(v), UNCHANGED want
  PROVE  OwnCalls'
  BY DEF OwnCalls, OwnObject, Ends, IdleCsi

LEMMA OwnCalled ==
  ASSUME OwnCalls, NEW v \in Vols, NEW p \in {"creating", "created", "deleting", "expanding"},
         NEW s \in Sizes \cup {0}, Calls(v, p, v, s), UNCHANGED want
  PROVE  OwnCalls'
  BY Zenon DEF OwnCalls, OwnObject, Calls

LEMMA OwnNext ==
  ASSUME ExactLookup, OwnCalls, [Next]_vars
  PROVE  OwnCalls'
  <1>1. csi \in [Vols -> [pc : {"idle", "creating", "created", "deleting", "expanding"},
                          tgt : Vols \cup {None}, size : Sizes \cup {0}]]
        /\ want \in [Vols -> Sizes \cup {0}]
    BY Zenon DEF OwnCalls
  <1>2. CASE UNCHANGED <<csi, want>> BY <1>2, Zenon DEF OwnCalls, OwnObject
  <1>3. CASE UNCHANGED vars BY <1>2, <1>3, Zenon DEF vars
  <1>4. CASE TroubleShoot
    BY <1>2, <1>4, Zenon DEF TroubleShoot, ListLocalVolumes, ListObjects, CleanOrphan, claimVars
  <1>5. CASE NodeController
    BY <1>2, <1>5, Zenon DEF NodeController, NcListObjects, NcListPvs, NcDelete, NcRemoveFinalizer,
                      claimVars
  <1>6. CASE NodeRestarts BY <1>2, <1>6, Zenon DEF NodeRestarts, claimVars
  <1>7. ASSUME NEW v \in Vols, Worker(v) \/ ReconcileFails(v) PROVE OwnCalls'
    <2>1. UNCHANGED <<csi, claimVars>>
      BY <1>7, Zenon DEF Worker, Reconcile, CreateLv, ExpandLv, RemoveLv, SaveStatus, RemoveFinalizer,
                  ReconcileFails
    <2> QED BY <1>2, <2>1, Zenon DEF claimVars
  <1>8. ASSUME NEW v \in Vols, SyncCtl(v) \/ SyncNode(v) PROVE OwnCalls'
    BY <1>2, <1>8, Zenon DEF SyncCtl, SyncNode, claimVars
  <1>9. ASSUME NEW v \in Vols, User(v) PROVE OwnCalls'
    <2>1. UNCHANGED csi BY <1>9, Zenon DEF User, Claim, EnlargeClaim, DeleteClaim
    <2>2. want' \in [Vols -> Sizes \cup {0}]
      BY <1>1, <1>9, Zenon DEF User, Claim, EnlargeClaim, DeleteClaim
    <2> QED BY <2>1, <2>2, Zenon DEF OwnCalls, OwnObject
  <1>10. ASSUME NEW v \in Vols, CallLost(v) \/ Deadline(v) \/ CreatePv(v) PROVE OwnCalls'
    BY <1>10, OwnKept, Zenon DEF CallLost, Deadline, CreatePv, Ends, claimVars
  <1>11. ASSUME NEW v \in Vols, CreateVolume(v) \/ CreateWait(v) \/ ExpandWait(v)
         PROVE  OwnCalls'
    <2>1. want[v] \in Sizes \cup {0} /\ csi[v].size \in Sizes \cup {0} BY <1>1, Zenon
    <2>2. UNCHANGED want BY <1>11, Zenon DEF CreateVolume, CreateWait, ExpandWait, GrowPv, claimVars
    <2>3. \/ Ends(v) \/ Calls(v, "creating", v, want[v]) \/ Calls(v, "created", v, csi[v].size)
      BY <1>11, Zenon DEF CreateVolume, CreateWait, ExpandWait, GrowPv
    <2> QED BY <2>1, <2>2, <2>3, OwnKept, OwnCalled, Zenon
  <1>12. ASSUME NEW v \in Vols, DeleteVolume(v) \/ DeleteWait(v) PROVE OwnCalls'
    <2>1. CASE DropPv(v) BY <1>1, <2>1, Zenon DEF DropPv, Ends, IdleCsi, OwnCalls, OwnObject
    <2>2. CASE /\ GetByVolumeId(v) # None /\ Calls(v, "deleting", GetByVolumeId(v), 0)
               /\ UNCHANGED claimVars
      <3>1. GetByVolumeId(v) = v BY <2>2, LookupOwn, Zenon
      <3> QED BY <2>2, <3>1, OwnCalled, Zenon DEF claimVars
    <2> QED BY <1>12, <2>1, <2>2, Zenon DEF DeleteVolume, DeleteWait
  <1>13. ASSUME NEW v \in Vols, ExpandVolume(v) PROVE OwnCalls'
    <2>1. GetByVolumeId(v) = v BY <1>13, LookupOwn, Zenon DEF ExpandVolume
    <2>2. want[v] \in Sizes \cup {0} /\ UNCHANGED want
      BY <1>1, <1>13, Zenon DEF ExpandVolume, GrowPv, claimVars
    <2>3. Ends(v) \/ Calls(v, "expanding", v, want[v])
      BY <1>13, <2>1, Zenon DEF ExpandVolume, GrowPv
    <2> QED BY <2>2, <2>3, OwnKept, OwnCalled, Zenon
  <1>14. ASSUME NEW v \in Vols, Csi(v) PROVE OwnCalls'
    BY <1>10, <1>11, <1>12, <1>13, <1>14, Zenon DEF Csi
  <1> QED
    BY <1>3, <1>4, <1>5, <1>6, <1>7, <1>8, <1>9, <1>10, <1>14, Zenon DEF Next, Failures
------------------------------------------------------------------------------
(* Theorems                                                                 *)

\* DeleteVolume and ExpandVolume find the object of the volume they are called
\* for, whatever else runs, when GetByVolumeId finds it in the cache's index or
\* when there is only one object to find.
THEOREM OwnObjectFound ==
  ASSUME ExactLookup
  PROVE  Spec => []OwnObject
  <1>1. Init => OwnCalls BY DEF Init, OwnCalls, OwnObject, IdleCsi
  <1>2. OwnCalls /\ [Next]_vars => OwnCalls' BY OwnNext, Zenon
  <1>3. OwnCalls => OwnObject BY Zenon DEF OwnCalls
  <1> QED BY <1>1, <1>2, <1>3, PTL DEF Spec

\* While no cleanup runs, and as long as GetByVolumeId finds the object of the
\* volume, a PersistentVolume whose claim exists has its local volume.
THEOREM PvStaysBacked ==
  ASSUME ~TsRuns, ~NcRuns
  PROVE  Spec /\ []OwnObject => []PvBacked
  <1>1. IInv => PvBacked BY SafeIInv, Zenon
  <1> QED BY <1>1, Inductive, PTL

\* Under the same conditions a local volume always has an object that holds the
\* finalizer, so removeLVIfExists gets to it.
THEOREM FinalizerStaysOn ==
  ASSUME ~TsRuns, ~NcRuns
  PROVE  Spec /\ []OwnObject => []FinalizerGuards
  <1>1. IInv => FinalizerGuards BY SafeIInv, Zenon
  <1> QED BY <1>1, Inductive, PTL

\* Under the same conditions a status that names a volume tells the truth:
\* createLV saves it after the volume exists, and never on a newer object.
THEOREM StatusStaysTrue ==
  ASSUME ~TsRuns, ~NcRuns
  PROVE  Spec /\ []OwnObject => []StatusTrue
  <1>1. IInv => StatusTrue BY SafeIInv, Zenon
  <1> QED BY <1>1, Inductive, PTL

\* Under the same conditions DeleteVolume answers OK only after the local volume
\* is gone.
THEOREM DeleteStaysAcknowledged ==
  ASSUME ~TsRuns, ~NcRuns
  PROVE  Spec /\ []OwnObject => DeleteAcknowledged
  <1> DEFINE Acknowledged == \A v \in Vols : pv[v] > 0 /\ pv'[v] = 0 => lv[v] = 0
  <1>1. IInv /\ OwnObject /\ [Next]_vars => [Acknowledged]_vars
    <2> SUFFICES ASSUME IInv, OwnObject, Next, NEW v \in Vols, pv[v] > 0, pv'[v] = 0
                 PROVE  lv[v] = 0
      OBVIOUS
    <2>1. Typed BY Zenon DEF IInv
    <2>2. DeleteVolume(v) \/ DeleteWait(v) BY <2>1, NoCleanup, OthersKeepPv, Zenon
    <2> QED BY <2>2, DropTrue, Zenon
  <1> QED BY <1>1, Inductive, PTL DEF Spec, DeleteAcknowledged

\* Without cleanups and with an exact lookup all four hold outright.
THEOREM VolumesSafe ==
  ASSUME ~TsRuns, ~NcRuns, ExactLookup
  PROVE  Spec => /\ []PvBacked /\ []FinalizerGuards /\ []StatusTrue
                 /\ DeleteAcknowledged
  BY OwnObjectFound, PvStaysBacked, FinalizerStaysOn, StatusStaysTrue,
     DeleteStaysAcknowledged, PTL
------------------------------------------------------------------------------
(* Types and the balance of space, with the cleanups and without any        *)
(* assumption on the lookup.                                                *)

\* Objects of which the finalizer may have been stripped.
Loose == [ver : Versions, size : Sizes, cur : Sizes \cup {0}, code : {"OK", "Err"},
          st : {"", "Success", "Failed"}, del : BOOLEAN, fin : BOOLEAN]

LooseSent == [ver : Versions \cup {None}, size : Sizes, cur : Sizes \cup {0},
              code : {"OK", "Err"}, st : {"", "Success", "Failed"}, del : BOOLEAN,
              fin : BOOLEAN]

Recs == [pc : {"idle", "create", "expand", "save", "remove", "patch"},
         base : Loose \cup {None}, copy : Loose \cup {None}]
CsiCalls == [pc : {"idle", "creating", "created", "deleting", "expanding"},
             tgt : Vols \cup {None}, size : Sizes \cup {0}]
TsStates == [pc : {"idle", "listed", "clean"}, vols : SUBSET Vols]
NcStates == [pc : {"idle", "listed", "delete", "patch"}, vols : SUBSET Vols,
             cur : Vols \cup {None}]

\* The space that is free, and then with one volume after the other, ends up
\* as the whole group; s holds the sums on the way.
Running(s, l, f) ==
    /\ s \in [Nat -> Int] /\ s[0] = f
    /\ \A i \in Nat : s[i + 1] = s[i] + (IF i \in Vols THEN l[i] ELSE 0)
    /\ \A i, j \in Nat : i <= j => s[i] <= s[j]
    /\ \A i \in Nat : (\A v \in Vols : v < i) => s[i] = Capacity

Balance == free \in Nat /\ \E s \in [Nat -> Int] : Running(s, lv, free)

ApiLoose ==
    /\ api \in [Vols -> Loose \cup {None}] /\ nodeSees \in [Vols -> Loose \cup {None}]
    /\ ctlSees \in [Vols -> Loose \cup {None}]
RecLoose ==
    /\ queued \subseteq Vols /\ rec \in [Vols -> Recs]
    /\ \A v \in Vols : rec[v].pc \in {"create", "expand"} => rec[v].copy # None
ClaimLoose ==
    /\ want \in [Vols -> Sizes \cup {0}] /\ gone \subseteq Vols
    /\ pv \in [Vols -> Sizes \cup {0}] /\ csi \in [Vols -> CsiCalls]
LocalLoose == lv \in [Vols -> Sizes \cup {0}] /\ Balance
CleanLoose ==
    /\ ts \in TsStates /\ nc \in NcStates /\ (nc.pc = "patch" => nc.cur \in Vols)
    /\ faults \in 0..MaxFaults

TInv == ApiLoose /\ RecLoose /\ ClaimLoose /\ LocalLoose /\ CleanLoose

LEMMA LooseNone ==
  None \notin LooseSent /\ None \notin Loose /\ Loose \subseteq Objects /\ Loose \subseteq LooseSent
  <1>1. Loose \subseteq LooseSent BY Zenon DEF Loose, LooseSent
  <1>2. Sizes \subseteq Nat /\ (Sizes \cup {0}) \subseteq Nat BY SizesPositive
  <1>3. LooseSent \subseteq Drafts BY <1>2, Zenon DEF LooseSent, Drafts
  <1>4. Loose \subseteq Objects BY <1>2, Zenon DEF Loose, Objects
  <1> QED BY <1>1, <1>3, <1>4, ObjectAssumption, Zenon

\* Space moves between the free space and a volume.
LEMMA Moves ==
  ASSUME LocalLoose, NEW v \in Vols, NEW k \in Int, k <= free, lv[v] + k \in Sizes \cup {0},
         lv' = [lv EXCEPT ![v] = lv[v] + k], free' = free - k
  PROVE  LocalLoose'
  <1>1. PICK s \in [Nat -> Int] : Running(s, lv, free) BY Zenon DEF LocalLoose, Balance
  <1> DEFINE t == [i \in Nat |-> IF i <= v THEN s[i] - k ELSE s[i]]
  <1>2. Vols \subseteq Nat BY LogicVolumeAssumption
  <1>3. v \in Nat BY <1>2
  <1>4. lv' \in [Vols -> Sizes \cup {0}] BY Zenon DEF LocalLoose
  <1>5. lv[v] \in Nat /\ lv[v] + k \in Nat /\ free \in Nat
    BY SizesPositive DEF LocalLoose, Balance
  <1>6. free' \in Nat BY <1>5
  <1>7. t \in [Nat -> Int] BY <1>1, <1>3
  <1>8. t[0] = free' BY <1>1, <1>3 DEF Running
  <1>9. s[v + 1] = s[v] + lv[v] BY <1>1, <1>3 DEF Running
  <1>10. ASSUME NEW i \in Nat
         PROVE  t[i + 1] = t[i] + (IF i \in Vols THEN lv'[i] ELSE 0)
    <2>1. s[i + 1] = s[i] + (IF i \in Vols THEN lv[i] ELSE 0) BY <1>1 DEF Running
    <2>2. i + 1 \in Nat BY SMT
    <2>3. CASE i = v
      <3>1. lv'[i] = lv[v] + k BY <2>3, Zenon DEF LocalLoose
      <3>2. t[i + 1] = s[i + 1] /\ t[i] = s[i] - k BY <1>3, <2>2, <2>3
      <3> QED BY <1>1, <1>3, <1>5, <1>9, <2>3, <3>1, <3>2
    <2>4. CASE i # v
      <3>1. i \in Vols => lv'[i] = lv[i] /\ lv[i] \in Nat BY <2>4, SizesPositive DEF LocalLoose
      <3>2. i + 1 <= v <=> i <= v BY <1>3, <2>4
      <3>3. s[i] \in Int /\ s[i + 1] \in Int BY <1>1, <2>2
      <3>4. CASE i <= v
        <4>1. t[i + 1] = s[i + 1] - k /\ t[i] = s[i] - k BY <2>2, <3>2, <3>4
        <4> QED BY <2>1, <3>1, <3>3, <4>1
      <3>5. CASE ~(i <= v)
        <4>1. t[i + 1] = s[i + 1] /\ t[i] = s[i] BY <2>2, <3>2, <3>5
        <4> QED BY <2>1, <3>1, <4>1, Zenon
      <3> QED BY <3>4, <3>5, Zenon
    <2> QED BY <2>3, <2>4, Zenon
  <1>11. ASSUME NEW i \in Nat, NEW j \in Nat, i <= j PROVE t[i] <= t[j]
    <2>1. s[i] \in Int /\ s[j] \in Int /\ s[v] \in Int /\ s[v + 1] \in Int BY <1>1, <1>3
    <2>2. s[i] <= s[j] BY <1>1, <1>11 DEF Running
    <2>3. ASSUME i <= v PROVE s[i] <= s[v] BY <1>1, <1>3, <2>3 DEF Running
    <2>4. ASSUME ~(j <= v) PROVE s[v + 1] <= s[j]
      <3>1. v + 1 \in Nat /\ v + 1 <= j BY <1>3, <2>4
      <3> QED BY <1>1, <3>1 DEF Running
    <2>5. t[i] = (IF i <= v THEN s[i] - k ELSE s[i]) /\ t[j] = (IF j <= v THEN s[j] - k ELSE s[j])
      BY Zenon
    <2> HIDE DEF t
    <2> QED BY <1>3, <1>5, <1>9, <1>11, <2>1, <2>2, <2>3, <2>4, <2>5
  <1>12. ASSUME NEW i \in Nat, \A w \in Vols : w < i PROVE t[i] = Capacity
    <2>1. s[i] = Capacity BY <1>1, <1>12 DEF Running
    <2>2. v < i BY <1>12
    <2> QED BY <1>3, <2>1, <2>2
  <1> HIDE DEF t
  <1>13. Running(t, lv', free') BY <1>7, <1>8, <1>10, <1>11, <1>12, Zenon DEF Running
  <1> QED BY <1>4, <1>6, <1>7, <1>13, Zenon DEF LocalLoose, Balance

LEMMA FreeBounded == ASSUME LocalLoose PROVE free \in 0..Capacity
  <1>1. PICK s \in [Nat -> Int] : Running(s, lv, free) BY Zenon DEF LocalLoose, Balance
  <1>2. PICK m \in Nat : \A w \in Vols : w < m
    <2>1. CASE Vols = {} BY <2>1
    <2>2. CASE Vols # {}
      <3>1. PICK v \in Vols : \A w \in Vols : w <= v BY <2>2, LogicVolumeAssumption, Zenon
      <3>2. Vols \subseteq Nat BY LogicVolumeAssumption
      <3>3. v + 1 \in Nat /\ \A w \in Vols : w < v + 1 BY <3>1, <3>2
      <3> QED BY <3>3, Zenon
    <2> QED BY <2>1, <2>2, Zenon
  <1>3. s[0] <= s[m] /\ s[m] = Capacity /\ s[0] = free BY <1>1, <1>2 DEF Running
  <1> QED BY <1>3, LogicVolumeAssumption DEF LocalLoose, Balance

LEMMA TInvTypes == TInv => TypeOK
  <1> SUFFICES ASSUME TInv PROVE TypeOK BY Zenon
  <1>1. free \in 0..Capacity BY FreeBounded, Zenon DEF TInv
  <1>2. api \in [Vols -> Objects \cup {None}] /\ nodeSees \in [Vols -> Objects \cup {None}]
        /\ ctlSees \in [Vols -> Objects \cup {None}]
    BY LooseNone, Zenon DEF TInv, ApiLoose
  <1>3. rec \in [Vols -> [pc : {"idle", "create", "expand", "save", "remove", "patch"},
                          base : Objects \cup {None}, copy : Objects \cup {None}]]
    BY LooseNone, Zenon DEF TInv, RecLoose, Recs
  <1> QED BY <1>1, <1>2, <1>3, Zenon DEF TInv, TypeOK, LocalLoose, RecLoose, ClaimLoose, CleanLoose,
             CsiCalls, TsStates, NcStates
\* What a step does not touch keeps its type.
LEMMA Untouched ==
  ASSUME TInv
  PROVE  /\ UNCHANGED apiVars => ApiLoose'
         /\ UNCHANGED recVars => RecLoose'
         /\ UNCHANGED <<claimVars, csi>> => ClaimLoose'
         /\ UNCHANGED localVars => LocalLoose'
         /\ UNCHANGED <<ts, nc, faults>> => CleanLoose'
  <1>1. ASSUME UNCHANGED apiVars PROVE ApiLoose' BY <1>1, Zenon DEF TInv, ApiLoose, apiVars
  <1>2. ASSUME UNCHANGED recVars PROVE RecLoose' BY <1>2, Zenon DEF TInv, RecLoose, recVars
  <1>3. ASSUME UNCHANGED <<claimVars, csi>> PROVE ClaimLoose'
    BY <1>3, Zenon DEF TInv, ClaimLoose, claimVars
  <1>4. ASSUME UNCHANGED localVars PROVE LocalLoose'
    BY <1>4, Zenon DEF TInv, LocalLoose, Balance, localVars
  <1>5. ASSUME UNCHANGED <<ts, nc, faults>> PROVE CleanLoose' BY <1>5, Zenon DEF TInv, CleanLoose
  <1> QED BY <1>1, <1>2, <1>3, <1>4, <1>5, Zenon

LEMMA FaultLoose ==
  ASSUME CleanLoose, Fault, nc' = nc, ts' \in TsStates PROVE CleanLoose'
  <1>1. faults' \in 0..MaxFaults BY LogicVolumeAssumption DEF CleanLoose, Fault
  <1> QED BY <1>1, Zenon DEF CleanLoose

LEMMA FreshLoose ==
  ASSUME TInv, NEW v \in Vols
  PROVE  FreshVersion(v) \in Versions
  <1> DEFINE held == {api[v], nodeSees[v], ctlSees[v], rec[v].base} \ {None}
             ver(o) == IF o \in Loose THEN o.ver ELSE CHOOSE n \in Versions : TRUE
  <1>1. held \subseteq Loose
    <2>1. rec[v].base \in Loose \cup {None} BY Zenon DEF TInv, RecLoose, Recs
    <2>2. /\ api[v] \in Loose \cup {None} /\ nodeSees[v] \in Loose \cup {None}
          /\ ctlSees[v] \in Loose \cup {None}
      BY Zenon DEF TInv, ApiLoose
    <2> QED BY <2>1, <2>2, Zenon
  <1>2. \A o : ver(o) \in Versions
    <2>1. (CHOOSE n \in Versions : TRUE) \in Versions BY LogicVolumeAssumption, Zenon
    <2> QED BY <2>1, Zenon DEF Loose
  <1>3. \A o \in held : ver(o) = o.ver BY <1>1, Zenon
  <1> DEFINE a == ver(api[v])
             b == ver(nodeSees[v])
             c == ver(ctlSees[v])
             d == ver(rec[v].base)
  <1>4. a \in Versions /\ b \in Versions /\ c \in Versions /\ d \in Versions BY <1>2, Zenon
  <1>5. \A o \in held : o.ver \in {a, b, c, d} BY <1>3, Zenon
  <1> HIDE DEF a, b, c, d
  <1>6. PICK n \in Versions : n \notin {a, b, c, d} BY <1>4, LogicVolumeAssumption, Zenon
  <1>7. \A o \in held : o.ver # n BY <1>5, <1>6, Zenon
  <1> QED BY <1>7, Zenon DEF FreshVersion

\* A write, with the other process's cache left alone.
LEMMA WriteLoose ==
  ASSUME TInv, NEW v \in Vols, NEW o \in LooseSent \cup {None}, Writes(v, o),
         UNCHANGED <<nodeSees, ctlSees>>
  PROVE  ApiLoose'
  <1> DEFINE n == FreshVersion(v)
             p == [o EXCEPT !.ver = n]
             q == IF o = None \/ o = api[v] THEN o ELSE p
  <1>1. n \in Versions BY FreshLoose, Zenon
  <1> HIDE DEF n
  <1>2. o # None => p \in Loose BY <1>1, Zenon DEF LooseSent, Loose
  <1>3. api' = [api EXCEPT ![v] = q] BY Zenon DEF Writes, n
  <1>4. api \in [Vols -> Loose \cup {None}] BY Zenon DEF TInv, ApiLoose
  <1> HIDE DEF p
  <1>5. q \in Loose \cup {None} BY <1>2, <1>4, Zenon
  <1> HIDE DEF q
  <1>6. api' \in [Vols -> Loose \cup {None}] BY <1>3, <1>4, <1>5, Zenon
  <1> QED BY <1>6, Zenon DEF TInv, ApiLoose

LEMMA ObjectsLoose ==
  ASSUME NEW o \in Loose
  PROVE  /\ Deleted(o) \in LooseSent \cup {None} /\ Stripped(o) \in LooseSent \cup {None}
         /\ CreateDone(o) \in Loose /\ CreateFailed(o) \in Loose
         /\ \A c \in {"OK", "Err"} : ExpandFailed(o, c) \in Loose
         /\ \A s \in Sizes : NewObject(s) \in LooseSent
         /\ \A s \in Sizes : [o EXCEPT !.size = s, !.ver = None] \in LooseSent
         /\ o.size \in Sizes /\ o.cur \in Sizes \cup {0} /\ o.code \in {"OK", "Err"}
  <1>1. Deleted(o) \in LooseSent \cup {None} BY Zenon DEF Deleted, Loose, LooseSent
  <1>2. Stripped(o) \in LooseSent \cup {None} BY Zenon DEF Stripped, Loose, LooseSent
  <1>3. CreateDone(o) \in Loose /\ CreateFailed(o) \in Loose
    BY Zenon DEF CreateDone, CreateFailed, Loose
  <1>4. \A c \in {"OK", "Err"} : ExpandFailed(o, c) \in Loose BY Zenon DEF ExpandFailed, Loose
  <1>5. \A s \in Sizes : NewObject(s) \in LooseSent BY Zenon DEF NewObject, LooseSent
  <1>6. \A s \in Sizes : [o EXCEPT !.size = s, !.ver = None] \in LooseSent
    BY Zenon DEF Loose, LooseSent
  <1>7. o.size \in Sizes /\ o.cur \in Sizes \cup {0} /\ o.code \in {"OK", "Err"} BY Zenon DEF Loose
  <1> QED BY <1>1, <1>2, <1>3, <1>4, <1>5, <1>6, <1>7, Zenon

LEMMA NewLoose == ASSUME NEW s \in Sizes PROVE NewObject(s) \in LooseSent
  BY Zenon DEF NewObject, LooseSent

LEMMA LooseValues ==
  ASSUME TInv, NEW v \in Vols
  PROVE  /\ api[v] \in Loose \cup {None} /\ nodeSees[v] \in Loose \cup {None}
         /\ Cached(v) \in Loose \cup {None} /\ Get(v) \in Loose \cup {None}
         /\ rec[v].base \in Loose \cup {None} /\ rec[v].copy \in Loose \cup {None}
         /\ lv[v] \in Nat /\ free \in Nat
         /\ want[v] \in Sizes \cup {0} /\ want[v] \in Nat
         /\ pv[v] \in Sizes \cup {0} /\ pv[v] \in Nat
         /\ csi[v].size \in Sizes \cup {0} /\ csi[v].tgt \in Vols \cup {None}
  <1>1. /\ api[v] \in Loose \cup {None} /\ nodeSees[v] \in Loose \cup {None}
        /\ ctlSees[v] \in Loose \cup {None}
    BY Zenon DEF TInv, ApiLoose
  <1>2. Cached(v) \in Loose \cup {None} BY <1>1, Zenon DEF Cached
  <1>3. Get(v) \in Loose \cup {None} BY <1>1, <1>2, Zenon DEF Get
  <1>4. rec[v].base \in Loose \cup {None} /\ rec[v].copy \in Loose \cup {None}
    BY Zenon DEF TInv, RecLoose, Recs
  <1>5. /\ want[v] \in Sizes \cup {0} /\ pv[v] \in Sizes \cup {0}
        /\ csi[v].size \in Sizes \cup {0} /\ csi[v].tgt \in Vols \cup {None}
    BY Zenon DEF TInv, ClaimLoose, CsiCalls
  <1>6. lv[v] \in Sizes \cup {0} /\ free \in Nat BY Zenon DEF TInv, LocalLoose, Balance
  <1> QED BY <1>1, <1>2, <1>3, <1>4, <1>5, <1>6, SizesPositive
------------------------------------------------------------------------------
LEMMA CallsLoose ==
  ASSUME TInv, NEW v \in Vols, NEW p \in {"idle", "creating", "created", "deleting", "expanding"},
         NEW t \in Vols \cup {None}, NEW s \in Sizes \cup {0}, Calls(v, p, t, s)
  PROVE  csi' \in [Vols -> CsiCalls]
  BY Zenon DEF TInv, ClaimLoose, Calls, CsiCalls

LEMMA EndsLoose ==
  ASSUME TInv, NEW v \in Vols, Ends(v)
  PROVE  /\ csi' \in [Vols -> CsiCalls]
         /\ UNCHANGED claimVars => ClaimLoose'
         /\ \A s \in Sizes \cup {0} : GrowPv(v, s) => ClaimLoose'
         /\ DropPv(v) => ClaimLoose'
  <1>1. csi' \in [Vols -> CsiCalls] BY Zenon DEF TInv, ClaimLoose, Ends, IdleCsi, CsiCalls
  <1>2. ASSUME UNCHANGED claimVars PROVE ClaimLoose'
    BY <1>1, <1>2, Zenon DEF TInv, ClaimLoose, claimVars
  <1>3. ASSUME NEW s \in Sizes \cup {0}, GrowPv(v, s) PROVE ClaimLoose'
    BY <1>1, <1>3, Zenon DEF TInv, ClaimLoose, GrowPv
  <1>4. ASSUME DropPv(v) PROVE ClaimLoose' BY <1>1, <1>4, Zenon DEF TInv, ClaimLoose, DropPv
  <1> QED BY <1>1, <1>2, <1>3, <1>4, Zenon

LEMMA LookupLoose ==
  ASSUME TInv, NEW v \in Vols, GetByVolumeId(v) # None
  PROVE  /\ GetByVolumeId(v) \in Vols
         /\ Found(v, GetByVolumeId(v)) \in Loose
  <1> DEFINE S == {w \in Vols : api[w] # None}
             t == GetByVolumeId(v)
  <1>1. CASE HasId(Cached(v))
    <2>1. t = v BY <1>1, Zenon DEF GetByVolumeId
    <2>2. Found(v, v) = Cached(v) BY <1>1, Zenon DEF Found
    <2>3. Cached(v) # None BY <1>1, Zenon DEF HasId
    <2> QED BY <2>1, <2>2, <2>3, LooseValues, Zenon
  <1>2. CASE ~HasId(Cached(v))
    <2>1. HasId(api[v]) /\ t = Last(S) BY <1>2, Zenon DEF GetByVolumeId
    <2>2. v \in S BY <2>1, Zenon DEF HasId
    <2>3. \E w \in S : \A x \in S : x <= w BY <2>2, LogicVolumeAssumption, Zenon
    <2>4. t \in S BY <2>1, <2>3, Zenon DEF Last
    <2>5. Found(v, t) = api[t] BY <1>2, Zenon DEF Found
    <2> QED BY <2>4, <2>5, LooseValues, Zenon
  <1> QED BY <1>1, <1>2, Zenon
LEMMA UserLoose == ASSUME TInv, NEW v \in Vols, User(v) PROVE TInv'
  <1>1. CASE Claim(v)
    <2>1. ClaimLoose' BY <1>1, Zenon DEF Claim, TInv, ClaimLoose
    <2> QED BY <1>1, <2>1, Untouched, Zenon DEF Claim, TInv
  <1>2. CASE EnlargeClaim(v)
    <2>1. ClaimLoose' BY <1>2, Zenon DEF EnlargeClaim, TInv, ClaimLoose
    <2> QED BY <1>2, <2>1, Untouched, Zenon DEF EnlargeClaim, TInv
  <1>3. CASE DeleteClaim(v)
    <2>1. ClaimLoose' BY <1>3, Zenon DEF DeleteClaim, TInv, ClaimLoose
    <2> QED BY <1>3, <2>1, Untouched, Zenon DEF DeleteClaim, TInv
  <1> QED BY <1>1, <1>2, <1>3, Zenon DEF User

LEMMA CreateLoose ==
  ASSUME TInv, NEW v \in Vols, CreateVolume(v) \/ CreateWait(v) \/ CreatePv(v)
  PROVE  TInv'
  <1>1. CASE CreateVolume(v)
    <2>1. want[v] \in Sizes BY <1>1, LooseValues DEF CreateVolume
    <2>2. csi' \in [Vols -> CsiCalls]
      <3>1. Calls(v, "creating", v, want[v]) BY <1>1, Zenon DEF CreateVolume
      <3> QED BY <2>1, <3>1, CallsLoose, Zenon
    <2>3. ClaimLoose' BY <1>1, <2>2, Zenon DEF CreateVolume, TInv, ClaimLoose, claimVars
    <2>4. UNCHANGED <<nodeSees, ctlSees, localVars, recVars, ts, nc, faults>>
      BY <1>1, Zenon DEF CreateVolume
    <2>5. Writes(v, NewObject(want[v])) \/ UNCHANGED api BY <1>1, Zenon DEF CreateVolume
    <2>6. ApiLoose'
      <3>1. CASE UNCHANGED api BY <2>4, <3>1, Untouched, Zenon DEF apiVars
      <3>2. CASE Writes(v, NewObject(want[v]))
        <4>1. NewObject(want[v]) \in LooseSent \cup {None} BY <2>1, NewLoose, Zenon
        <4> QED BY <2>4, <3>2, <4>1, WriteLoose, Zenon
      <3> QED BY <2>5, <3>1, <3>2, Zenon
    <2> QED BY <2>3, <2>4, <2>6, Untouched, Zenon DEF TInv
  <1>2. CASE CreateWait(v)
    <2>1. UNCHANGED <<nodeSees, ctlSees, localVars, recVars, claimVars, ts, nc, faults>>
      BY <1>2, Zenon DEF CreateWait
    <2>2. Ends(v) \/ Calls(v, "created", v, csi[v].size) BY <1>2, Zenon DEF CreateWait
    <2>3. csi' \in [Vols -> CsiCalls] BY <2>2, CallsLoose, EndsLoose, LooseValues, Zenon
    <2>4. ClaimLoose' BY <2>1, <2>3, Zenon DEF TInv, ClaimLoose, claimVars
    <2>5. UNCHANGED api \/ (api[v] # None /\ Writes(v, Deleted(api[v])))
      BY <1>2, Zenon DEF CreateWait
    <2>6. ApiLoose'
      <3>1. CASE UNCHANGED api BY <2>1, <3>1, Untouched, Zenon DEF apiVars
      <3>2. CASE api[v] # None /\ Writes(v, Deleted(api[v]))
        <4>1. Deleted(api[v]) \in LooseSent \cup {None} BY <3>2, LooseValues, ObjectsLoose, Zenon
        <4> QED BY <2>1, <3>2, <4>1, WriteLoose, Zenon
      <3> QED BY <2>5, <3>1, <3>2, Zenon
    <2> QED BY <2>1, <2>4, <2>6, Untouched, Zenon DEF TInv
  <1>3. CASE CreatePv(v)
    <2>1. UNCHANGED <<apiVars, localVars, recVars, want, gone, ts, nc, faults>>
      BY <1>3, Zenon DEF CreatePv
    <2>2. csi' \in [Vols -> CsiCalls] BY <1>3, EndsLoose, Zenon DEF CreatePv, Ends
    <2>3. pv' \in [Vols -> Sizes \cup {0}]
      BY <1>3, LooseValues, Zenon DEF CreatePv, TInv, ClaimLoose
    <2>4. ClaimLoose' BY <2>1, <2>2, <2>3, Zenon DEF TInv, ClaimLoose
    <2> QED BY <2>1, <2>4, Untouched, Zenon DEF TInv
  <1> QED BY <1>1, <1>2, <1>3, Zenon

LEMMA DeleteLoose ==
  ASSUME TInv, NEW v \in Vols, DeleteVolume(v) \/ DeleteWait(v)
  PROVE  TInv'
  <1>1. CASE DeleteVolume(v)
    <2> DEFINE t == GetByVolumeId(v)
    <2>1. UNCHANGED <<nodeSees, ctlSees, localVars, recVars, ts, nc, faults>>
      BY <1>1, Zenon DEF DeleteVolume
    <2>2. \/ DropPv(v) /\ UNCHANGED api
          \/ /\ t # None /\ api[t] # None /\ Writes(t, Deleted(api[t]))
             /\ Calls(v, "deleting", t, 0) /\ UNCHANGED claimVars
      BY <1>1, Zenon DEF DeleteVolume
    <2> HIDE DEF t
    <2>3. CASE DropPv(v) /\ UNCHANGED api
      <3>1. ClaimLoose' BY <2>3, EndsLoose, Zenon DEF DropPv
      <3> QED BY <2>1, <2>3, <3>1, Untouched, Zenon DEF TInv, apiVars
    <2>4. CASE /\ t # None /\ api[t] # None /\ Writes(t, Deleted(api[t]))
               /\ Calls(v, "deleting", t, 0) /\ UNCHANGED claimVars
      <3>1. t \in Vols BY <2>4, LookupLoose, Zenon DEF t
      <3>2. csi' \in [Vols -> CsiCalls] BY <2>4, <3>1, CallsLoose, Zenon
      <3>3. ClaimLoose' BY <2>4, <3>2, Zenon DEF TInv, ClaimLoose, claimVars
      <3>4. Deleted(api[t]) \in LooseSent \cup {None} BY <2>4, <3>1, LooseValues, ObjectsLoose, Zenon
      <3>5. ApiLoose' BY <2>1, <2>4, <3>1, <3>4, WriteLoose, Zenon
      <3> QED BY <2>1, <3>3, <3>5, Untouched, Zenon DEF TInv
    <2> QED BY <2>2, <2>3, <2>4, Zenon
  <1>2. CASE DeleteWait(v)
    <2>1. ClaimLoose' BY <1>2, EndsLoose, Zenon DEF DeleteWait, DropPv
    <2> QED BY <1>2, <2>1, Untouched, Zenon DEF DeleteWait, TInv
  <1> QED BY <1>1, <1>2, Zenon

LEMMA ExpandLoose ==
  ASSUME TInv, NEW v \in Vols, ExpandVolume(v) \/ ExpandWait(v) \/ Deadline(v)
  PROVE  TInv'
  <1>1. CASE ExpandVolume(v)
    <2> DEFINE t == GetByVolumeId(v)
               o == [api[t] EXCEPT !.size = want[v], !.ver = None]
    <2>1. UNCHANGED <<nodeSees, ctlSees, localVars, recVars, ts, nc, faults>> /\ t # None
      BY <1>1, Zenon DEF ExpandVolume
    <2>2. want[v] \in Sizes
      <3>1. want[v] > pv[v] BY <1>1, Zenon DEF ExpandVolume
      <3> QED BY <3>1, LooseValues
    <2>3. \/ GrowPv(v, Found(v, t).cur) /\ UNCHANGED api
          \/ /\ Found(v, t) = api[t] /\ Writes(t, o) /\ Calls(v, "expanding", t, want[v])
             /\ UNCHANGED claimVars
      BY <1>1, Zenon DEF ExpandVolume
    <2>4. t \in Vols /\ Found(v, t) \in Loose BY <2>1, LookupLoose, Zenon
    <2>5. CASE GrowPv(v, Found(v, t).cur) /\ UNCHANGED api
      <3>1. Found(v, t).cur \in Sizes \cup {0} BY <2>4, ObjectsLoose, Zenon
      <3>2. ClaimLoose' BY <2>5, <3>1, EndsLoose, Zenon DEF GrowPv
      <3> QED BY <2>1, <2>5, <3>2, Untouched, Zenon DEF TInv, apiVars
    <2>6. CASE /\ Found(v, t) = api[t] /\ Writes(t, o) /\ Calls(v, "expanding", t, want[v])
               /\ UNCHANGED claimVars
      <3>1. o \in LooseSent \cup {None} BY <2>2, <2>4, <2>6, ObjectsLoose, Zenon
      <3> HIDE DEF t, o
      <3>2. csi' \in [Vols -> CsiCalls] BY <2>2, <2>4, <2>6, CallsLoose, Zenon
      <3>3. ClaimLoose' BY <2>6, <3>2, Zenon DEF TInv, ClaimLoose, claimVars
      <3>4. ApiLoose' BY <2>1, <2>4, <2>6, <3>1, WriteLoose, Zenon
      <3> QED BY <2>1, <3>3, <3>4, Untouched, Zenon DEF TInv
    <2> QED BY <2>3, <2>5, <2>6, Zenon
  <1>2. CASE ExpandWait(v)
    <2>1. Ends(v) BY <1>2, Zenon DEF ExpandWait, GrowPv
    <2>2. UNCHANGED claimVars \/ GrowPv(v, csi[v].size) BY <1>2, Zenon DEF ExpandWait
    <2>3. ClaimLoose' BY <2>1, <2>2, EndsLoose, LooseValues, Zenon
    <2> QED BY <1>2, <2>3, Untouched, Zenon DEF ExpandWait, TInv
  <1>3. CASE Deadline(v)
    <2>1. ClaimLoose' BY <1>3, EndsLoose, Zenon DEF Deadline
    <2> QED BY <1>3, <2>1, Untouched, Zenon DEF Deadline, TInv
  <1> QED BY <1>1, <1>2, <1>3, Zenon

LEMMA SyncLoose ==
  ASSUME TInv, NEW v \in Vols, SyncCtl(v) \/ SyncNode(v) \/ CallLost(v)
  PROVE  TInv'
  <1>1. CASE SyncCtl(v)
    <2>1. ApiLoose' BY <1>1, Zenon DEF SyncCtl, TInv, ApiLoose
    <2> QED BY <1>1, <2>1, Untouched, Zenon DEF SyncCtl, TInv
  <1>2. CASE SyncNode(v)
    <2>1. ApiLoose' BY <1>2, Zenon DEF SyncNode, TInv, ApiLoose
    <2>2. RecLoose' BY <1>2, Zenon DEF SyncNode, TInv, RecLoose
    <2> QED BY <1>2, <2>1, <2>2, Untouched, Zenon DEF SyncNode, TInv
  <1>3. CASE CallLost(v)
    <2>1. ClaimLoose' BY <1>3, EndsLoose, Zenon DEF CallLost, Ends
    <2>2. CleanLoose' BY <1>3, FaultLoose, Zenon DEF CallLost, TInv, CleanLoose
    <2> QED BY <1>3, <2>1, <2>2, Untouched, Zenon DEF CallLost, TInv
  <1> QED BY <1>1, <1>2, <1>3, Zenon
LEMMA RecGoesLoose ==
  ASSUME TInv, NEW v \in Vols, queued' \subseteq Vols,
         NEW p \in {"idle", "create", "expand", "save", "remove", "patch"},
         NEW b \in Loose \cup {None}, NEW c \in Loose \cup {None}, RecGoes(v, p, b, c),
         p \in {"create", "expand"} => c # None
  PROVE  RecLoose'
  <1> DEFINE r == [pc |-> p, base |-> b, copy |-> c]
  <1>1. r \in Recs BY Zenon DEF Recs
  <1>2. r.pc \in {"create", "expand"} => r.copy # None BY Zenon
  <1>3. rec' = [rec EXCEPT ![v] = r] BY Zenon DEF RecGoes
  <1> HIDE DEF r
  <1> QED BY <1>1, <1>2, <1>3, Zenon DEF TInv, RecLoose

LEMMA RecEndsLoose ==
  ASSUME TInv, NEW v \in Vols, queued' \subseteq Vols, RecEnds(v)
  PROVE  RecLoose'
  <1>1. RecGoes(v, "idle", None, None) BY Zenon DEF RecEnds, RecGoes, IdleRec
  <1> QED BY <1>1, RecGoesLoose, Zenon

LEMMA ReconcileLoose == ASSUME TInv, NEW v \in Vols, Reconcile(v) PROVE TInv'
  <1> DEFINE o == nodeSees[v]
  <1>1. UNCHANGED <<apiVars, localVars, claimVars, csi, ts, nc, faults>> /\ queued' = queued \ {v}
    BY Zenon DEF Reconcile
  <1>2. \/ UNCHANGED rec
        \/ o # None /\ \E p \in {"create", "expand", "remove"} : RecGoes(v, p, o, o)
    BY Zenon DEF Reconcile
  <1>3. queued' \subseteq Vols BY <1>1, Zenon DEF TInv, RecLoose
  <1>4. RecLoose'
    <2>1. CASE UNCHANGED rec BY <1>3, <2>1, Zenon DEF TInv, RecLoose
    <2>2. CASE o # None /\ \E p \in {"create", "expand", "remove"} : RecGoes(v, p, o, o)
      <3>1. PICK p \in {"create", "expand", "remove"} : RecGoes(v, p, o, o) BY <2>2, Zenon
      <3>2. o \in Loose \cup {None} BY LooseValues, Zenon
      <3> HIDE DEF o
      <3> QED BY <1>3, <2>2, <3>1, <3>2, RecGoesLoose, Zenon
    <2> QED BY <1>2, <2>1, <2>2, Zenon
  <1> QED BY <1>1, <1>4, Untouched, Zenon DEF TInv

\* createLV and expandLV: the space moves or stays, and the outcome is an object.
LEMMA WorkLoose ==
  ASSUME TInv, NEW v \in Vols, NEW o \in Loose, Saving(v, o),
         UNCHANGED <<apiVars, queued, claimVars, csi, ts, nc>>,
         UNCHANGED faults \/ Fault, LocalLoose'
  PROVE  TInv'
  <1>1. RecLoose'
    <2>1. RecGoes(v, "save", rec[v].base, o) BY Zenon DEF Saving
    <2>2. rec[v].base \in Loose \cup {None} BY LooseValues, Zenon
    <2>3. queued' \subseteq Vols BY Zenon DEF TInv, RecLoose
    <2> QED BY <2>1, <2>2, <2>3, RecGoesLoose, Zenon
  <1>2. CleanLoose' BY FaultLoose, Untouched, Zenon DEF TInv, CleanLoose
  <1> QED BY <1>1, <1>2, Untouched, Zenon DEF TInv

LEMMA CreateLvLoose == ASSUME TInv, NEW v \in Vols, CreateLv(v) PROVE TInv'
  <1> DEFINE o == rec[v].copy
  <1>1. rec[v].pc = "create" BY Zenon DEF CreateLv
  <1>2. o \in Loose
    <2>1. o # None BY <1>1, Zenon DEF TInv, RecLoose
    <2> QED BY <2>1, LooseValues, Zenon
  <1>3. /\ UNCHANGED <<apiVars, queued, claimVars, csi, ts, nc>>
        /\ UNCHANGED faults \/ Fault
        /\ Saving(v, CreateDone(o)) \/ Saving(v, CreateFailed(o))
        /\ UNCHANGED localVars \/ (lv[v] = 0 /\ o.size <= free /\ Allocate(v, o.size))
    BY Zenon DEF CreateLv
  <1>4. o.size \in Sizes /\ CreateDone(o) \in Loose /\ CreateFailed(o) \in Loose
    BY <1>2, ObjectsLoose, Zenon
  <1> HIDE DEF o
  <1>5. LocalLoose'
    <2>1. CASE UNCHANGED localVars BY <2>1, Untouched, Zenon
    <2>2. CASE lv[v] = 0 /\ o.size <= free /\ Allocate(v, o.size)
      <3>1. lv[v] + o.size \in Sizes \cup {0} /\ o.size \in Int BY <1>4, <2>2, SizesPositive
      <3> QED BY <2>2, <3>1, Moves, Zenon DEF TInv, Allocate
    <2> QED BY <1>3, <2>1, <2>2, Zenon
  <1> QED BY <1>3, <1>4, <1>5, WorkLoose, Zenon

LEMMA ExpandLvLoose == ASSUME TInv, NEW v \in Vols, ExpandLv(v) PROVE TInv'
  <1> DEFINE o == rec[v].copy
             need == USub(o.size, lv[v])
  <1>1. rec[v].pc = "expand" BY Zenon DEF ExpandLv
  <1>2. o \in Loose
    <2>1. o # None BY <1>1, Zenon DEF TInv, RecLoose
    <2> QED BY <2>1, LooseValues, Zenon
  <1>3. UNCHANGED <<apiVars, queued, claimVars, csi, ts, nc>> BY Zenon DEF ExpandLv
  <1>4. UNCHANGED faults \/ Fault BY Zenon DEF ExpandLv
  <1>5. \/ Saving(v, ExpandDone(o)) \/ Saving(v, ExpandFailed(o, "Err"))
        \/ Saving(v, ExpandFailed(o, o.code))
    BY Zenon DEF ExpandLv
  <1>6. UNCHANGED localVars \/ (lv[v] < o.size /\ need <= free /\ Allocate(v, need))
    BY Zenon DEF ExpandLv
  <1>7. /\ o.size \in Sizes /\ ExpandDone(o) \in Loose /\ ExpandFailed(o, "Err") \in Loose
        /\ ExpandFailed(o, o.code) \in Loose
    BY <1>2, ObjectsLoose, Zenon DEF ExpandDone
  <1>8. LocalLoose'
    <2>1. CASE UNCHANGED localVars BY <2>1, Untouched, Zenon
    <2>2. CASE lv[v] < o.size /\ need <= free /\ Allocate(v, need)
      <3>1. o.size \in Nat /\ lv[v] \in Nat BY <1>7, SizesPositive, LooseValues
      <3>2. need = o.size - lv[v] BY <2>2, <3>1 DEF USub
      <3> HIDE DEF need, o
      <3>3. lv[v] + need = o.size /\ need \in Int BY <3>1, <3>2
      <3>4. lv[v] + need \in Sizes \cup {0} BY <1>7, <3>3, Zenon
      <3> QED BY <2>2, <3>3, <3>4, Moves, Zenon DEF TInv, Allocate
    <2> QED BY <1>6, <2>1, <2>2, Zenon
  <1> HIDE DEF o
  <1> QED BY <1>3, <1>4, <1>5, <1>7, <1>8, WorkLoose, Zenon

\* The local volume is removed.
LEMMA RemovedLoose ==
  ASSUME TInv, NEW v \in Vols, lv' = [lv EXCEPT ![v] = 0], free' = free + lv[v]
  PROVE  LocalLoose'
  <1> DEFINE k == 0 - lv[v]
  <1>1. lv[v] \in Nat /\ free \in Nat BY LooseValues, Zenon
  <1>2. k \in Int /\ k <= free /\ lv[v] + k = 0 /\ free' = free - k BY <1>1
  <1> HIDE DEF k
  <1>3. lv[v] + k \in Sizes \cup {0} /\ lv' = [lv EXCEPT ![v] = lv[v] + k] BY <1>2, Zenon
  <1> QED BY <1>2, <1>3, Moves, Zenon DEF TInv

LEMMA RemoveLvLoose == ASSUME TInv, NEW v \in Vols, RemoveLv(v) PROVE TInv'
  <1>1. LocalLoose' BY RemovedLoose, Zenon DEF RemoveLv
  <1>2. RecLoose'
    <2>1. RecGoes(v, "patch", rec[v].base, None) /\ queued' = queued BY Zenon DEF RemoveLv
    <2>2. rec[v].base \in Loose \cup {None} BY LooseValues, Zenon
    <2>3. queued' \subseteq Vols BY <2>1, Zenon DEF TInv, RecLoose
    <2> QED BY <2>1, <2>2, <2>3, RecGoesLoose, Zenon
  <1> QED BY <1>1, <1>2, Untouched, Zenon DEF TInv, RemoveLv

LEMMA SaveLoose ==
  ASSUME TInv, NEW v \in Vols, SaveStatus(v) \/ RemoveFinalizer(v) \/ ReconcileFails(v)
  PROVE  TInv'
  <1>1. queued \subseteq Vols /\ queued \cup {v} \subseteq Vols BY Zenon DEF TInv, RecLoose
  <1>2. RecLoose'
    <2>1. RecEnds(v) /\ (queued' = queued \/ queued' = queued \cup {v})
      BY Zenon DEF SaveStatus, RemoveFinalizer, ReconcileFails, RecFails
    <2> QED BY <1>1, <2>1, RecEndsLoose, Zenon
  <1>3. CASE SaveStatus(v)
    <2>1. UNCHANGED <<nodeSees, ctlSees>> /\ (UNCHANGED api \/ Writes(v, rec[v].copy))
      BY <1>3, Zenon DEF SaveStatus
    <2>2. rec[v].copy \in LooseSent \cup {None} BY LooseValues, LooseNone, Zenon
    <2>3. ApiLoose' BY <2>1, <2>2, WriteLoose, Untouched, Zenon DEF apiVars
    <2> QED BY <1>2, <1>3, <2>3, Untouched, Zenon DEF TInv, SaveStatus
  <1>4. CASE RemoveFinalizer(v)
    <2>1. /\ UNCHANGED <<nodeSees, ctlSees>>
          /\ UNCHANGED api \/ (api[v] # None /\ Writes(v, Stripped(api[v])))
      BY <1>4, Zenon DEF RemoveFinalizer
    <2>2. api[v] # None => Stripped(api[v]) \in LooseSent \cup {None}
      BY LooseValues, ObjectsLoose, Zenon
    <2>3. ApiLoose' BY <2>1, <2>2, WriteLoose, Untouched, Zenon DEF apiVars
    <2> QED BY <1>2, <1>4, <2>3, Untouched, Zenon DEF TInv, RemoveFinalizer
  <1>5. CASE ReconcileFails(v)
    <2>1. CleanLoose' BY <1>5, FaultLoose, Zenon DEF TInv, CleanLoose, ReconcileFails
    <2> QED BY <1>2, <1>5, <2>1, Untouched, Zenon DEF TInv, ReconcileFails
  <1> QED BY <1>3, <1>4, <1>5, Zenon

LEMMA RestartLoose == ASSUME TInv, NodeRestarts PROVE TInv'
  <1>1. ApiLoose' BY Zenon DEF TInv, ApiLoose, NodeRestarts
  <1>2. RecLoose' BY Zenon DEF TInv, RecLoose, NodeRestarts, IdleRec, Recs
  <1>3. CleanLoose'
    <2>1. IdleTs \in TsStates BY Zenon DEF IdleTs, TsStates
    <2> QED BY <2>1, FaultLoose, Zenon DEF TInv, NodeRestarts
  <1> QED BY <1>1, <1>2, <1>3, Untouched, Zenon DEF TInv, NodeRestarts
LEMMA TsLoose ==
  ASSUME TInv, NEW S \in SUBSET Vols, TsNext(S)
  PROVE  /\ ts' \in TsStates
         /\ UNCHANGED <<nc, faults>> \/ (Fault /\ nc' = nc) => CleanLoose'
  <1>1. ts' \in TsStates BY Zenon DEF TsNext, IdleTs, TsStates
  <1>2. UNCHANGED <<nc, faults>> => CleanLoose' BY <1>1, Zenon DEF TInv, CleanLoose
  <1>3. Fault /\ nc' = nc => CleanLoose' BY <1>1, FaultLoose, Zenon DEF TInv
  <1> QED BY <1>1, <1>2, <1>3, Zenon

LEMMA TroubleShootLoose == ASSUME TInv, TroubleShoot PROVE TInv'
  <1>0. ts.vols \subseteq Vols BY Zenon DEF TInv, CleanLoose, TsStates
  <1>1. CASE ListLocalVolumes
    <2>1. ts' \in TsStates BY <1>1, Zenon DEF ListLocalVolumes, TsStates
    <2>2. CleanLoose' BY <1>1, <2>1, Zenon DEF TInv, CleanLoose, ListLocalVolumes
    <2> QED BY <1>1, <2>2, Untouched, Zenon DEF TInv, ListLocalVolumes
  <1>2. CASE ListObjects
    <2> DEFINE S == {v \in ts.vols : nodeSees[v] = None}
    <2>1. S \subseteq Vols /\ TsNext(S) BY <1>0, <1>2, Zenon DEF ListObjects
    <2> HIDE DEF S
    <2>2. CleanLoose' BY <1>2, <2>1, TsLoose, Zenon DEF ListObjects
    <2> QED BY <1>2, <2>2, Untouched, Zenon DEF TInv, ListObjects
  <1>3. ASSUME NEW v \in Vols, CleanOrphan(v) PROVE TInv'
    <2> DEFINE S == ts.vols \ {v}
    <2>1. S \subseteq Vols /\ TsNext(S) BY <1>0, <1>3, Zenon DEF CleanOrphan
    <2> HIDE DEF S
    <2>2. UNCHANGED <<nodeSees, ctlSees, recVars, claimVars, csi, nc>> BY <1>3, Zenon DEF CleanOrphan
    <2>3. CleanLoose' BY <1>3, <2>1, <2>2, TsLoose, Zenon DEF CleanOrphan
    <2>4. \/ UNCHANGED api /\ UNCHANGED localVars
          \/ pv[v] > 0 /\ Writes(v, NewObject(pv[v])) /\ UNCHANGED localVars
          \/ UNCHANGED api /\ lv' = [lv EXCEPT ![v] = 0] /\ free' = free + lv[v]
      BY <1>3, Zenon DEF CleanOrphan
    <2>5. ApiLoose'
      <3>1. CASE UNCHANGED api BY <2>2, <3>1, Untouched, Zenon DEF apiVars
      <3>2. CASE pv[v] > 0 /\ Writes(v, NewObject(pv[v]))
        <4>1. pv[v] \in Sizes BY <3>2, LooseValues
        <4>2. NewObject(pv[v]) \in LooseSent \cup {None} BY <4>1, NewLoose, Zenon
        <4> QED BY <2>2, <3>2, <4>2, WriteLoose, Zenon
      <3> QED BY <2>4, <3>1, <3>2, Zenon
    <2>6. LocalLoose' BY <2>4, RemovedLoose, Untouched, Zenon
    <2> QED BY <2>2, <2>3, <2>5, <2>6, Untouched, Zenon DEF TInv
  <1> QED BY <1>1, <1>2, <1>3, Zenon DEF TroubleShoot

LEMMA NodeControllerLoose == ASSUME TInv, NodeController PROVE TInv'
  <1>0. nc.vols \subseteq Vols BY Zenon DEF TInv, CleanLoose, NcStates
  <1>1. ASSUME NEW S \in SUBSET Vols, NcNext(S), UNCHANGED <<ts, faults>> PROVE CleanLoose'
    <2>1. nc' \in NcStates /\ nc'.pc # "patch" BY <1>1, Zenon DEF NcNext, IdleNc, NcStates
    <2> QED BY <1>1, <2>1, Zenon DEF TInv, CleanLoose
  <1>2. ASSUME nc' = IdleNc, UNCHANGED <<ts, faults>> PROVE CleanLoose'
    <2>1. IdleNc \in NcStates /\ IdleNc.pc # "patch" BY Zenon DEF IdleNc, NcStates
    <2> QED BY <1>2, <2>1, Zenon DEF TInv, CleanLoose
  <1>3. CASE NcListObjects
    <2>1. PICK S \in SUBSET Vols : nc' = [pc |-> "listed", vols |-> S, cur |-> None]
      BY <1>3, Zenon DEF NcListObjects
    <2>2. nc' \in NcStates /\ nc'.pc # "patch" BY <2>1, Zenon DEF NcStates
    <2>3. CleanLoose' BY <1>3, <2>2, Zenon DEF TInv, CleanLoose, NcListObjects
    <2> QED BY <1>3, <2>3, Untouched, Zenon DEF TInv, NcListObjects
  <1>4. CASE NcListPvs
    <2> DEFINE S == {v \in nc.vols : pv[v] = 0}
    <2>1. S \in SUBSET Vols /\ NcNext(S) BY <1>0, <1>4, Zenon DEF NcListPvs
    <2> HIDE DEF S
    <2>2. CleanLoose' BY <1>1, <1>4, <2>1, Zenon DEF NcListPvs
    <2> QED BY <1>4, <2>2, Untouched, Zenon DEF TInv, NcListPvs
  <1>5. ASSUME NEW v \in Vols, NcDelete(v) PROVE TInv'
    <2> DEFINE n == [pc |-> "patch", vols |-> nc.vols \ {v}, cur |-> v]
    <2>1. UNCHANGED <<nodeSees, ctlSees, localVars, recVars, claimVars, csi, ts, faults>>
      BY <1>5, Zenon DEF NcDelete
    <2>2. \/ nc' = IdleNc /\ UNCHANGED api
          \/ api[v] # None /\ Writes(v, Deleted(api[v])) /\ nc' = n
      BY <1>5, Zenon DEF NcDelete
    <2>3. n \in NcStates /\ n.cur \in Vols BY <1>0, Zenon DEF NcStates
    <2> HIDE DEF n
    <2>4. CleanLoose'
      <3>1. CASE nc' = IdleNc BY <1>2, <2>1, <3>1, Zenon
      <3>2. CASE nc' = n BY <2>1, <2>3, <3>2, Zenon DEF TInv, CleanLoose
      <3> QED BY <2>2, <3>1, <3>2, Zenon
    <2>5. ApiLoose'
      <3>1. CASE UNCHANGED api BY <2>1, <3>1, Untouched, Zenon DEF apiVars
      <3>2. CASE api[v] # None /\ Writes(v, Deleted(api[v]))
        <4>1. Deleted(api[v]) \in LooseSent \cup {None} BY <3>2, LooseValues, ObjectsLoose, Zenon
        <4> QED BY <2>1, <3>2, <4>1, WriteLoose, Zenon
      <3> QED BY <2>2, <3>1, <3>2, Zenon
    <2> QED BY <2>1, <2>4, <2>5, Untouched, Zenon DEF TInv
  <1>6. CASE NcRemoveFinalizer
    <2> DEFINE v == nc.cur
    <2>1. v \in Vols BY <1>6, Zenon DEF TInv, CleanLoose, NcRemoveFinalizer
    <2>2. UNCHANGED <<nodeSees, ctlSees, localVars, recVars, claimVars, csi, ts, faults>>
      BY <1>6, Zenon DEF NcRemoveFinalizer
    <2>3. \/ nc' = IdleNc /\ UNCHANGED api
          \/ api[v] # None /\ Writes(v, Stripped(api[v])) /\ NcNext(nc.vols)
      BY <1>6, Zenon DEF NcRemoveFinalizer
    <2> HIDE DEF v
    <2>4. CleanLoose' BY <1>0, <1>1, <1>2, <2>2, <2>3, Zenon
    <2>5. ApiLoose'
      <3>1. CASE UNCHANGED api BY <2>2, <3>1, Untouched, Zenon DEF apiVars
      <3>2. CASE api[v] # None /\ Writes(v, Stripped(api[v]))
        <4>1. Stripped(api[v]) \in LooseSent \cup {None}
          BY <2>1, <3>2, LooseValues, ObjectsLoose, Zenon
        <4> QED BY <2>1, <2>2, <3>2, <4>1, WriteLoose, Zenon
      <3> QED BY <2>3, <3>1, <3>2, Zenon
    <2> QED BY <2>2, <2>4, <2>5, Untouched, Zenon DEF TInv
  <1> QED BY <1>3, <1>4, <1>5, <1>6, Zenon DEF NodeController

LEMMA InitTInv == Init => TInv
  <1> SUFFICES ASSUME Init PROVE TInv BY Zenon
  <1> DEFINE s == [i \in Nat |-> Capacity]
  <1>1. Capacity \in Nat /\ MaxFaults \in Nat BY LogicVolumeAssumption
  <1>2. s \in [Nat -> Int] /\ s[0] = free BY <1>1 DEF Init
  <1>3. \A i \in Nat : s[i + 1] = s[i] + (IF i \in Vols THEN lv[i] ELSE 0)
    <2>1. ASSUME NEW i \in Nat PROVE (IF i \in Vols THEN lv[i] ELSE 0) = 0 BY Zenon DEF Init
    <2>2. ASSUME NEW i \in Nat PROVE s[i + 1] = Capacity /\ s[i] = Capacity BY SMT
    <2> QED BY <1>1, <2>1, <2>2
  <1>4. \A i, j \in Nat : i <= j => s[i] <= s[j] BY <1>1
  <1>5. \A i \in Nat : s[i] = Capacity BY Zenon
  <1> HIDE DEF s
  <1>6. Running(s, lv, free) BY <1>2, <1>3, <1>4, <1>5, Zenon DEF Running
  <1>7. LocalLoose
    <2>1. free \in Nat BY <1>1, Zenon DEF Init
    <2>2. lv \in [Vols -> Sizes \cup {0}] BY Zenon DEF Init
    <2> QED BY <1>2, <1>6, <2>1, <2>2, Zenon DEF LocalLoose, Balance
  <1>8. ApiLoose BY Zenon DEF Init, ApiLoose
  <1>9. RecLoose BY Zenon DEF Init, RecLoose, IdleRec, Recs
  <1>10. ClaimLoose BY Zenon DEF Init, ClaimLoose, IdleCsi, CsiCalls
  <1>11. CleanLoose
    <2>1. faults \in 0..MaxFaults BY <1>1 DEF Init
    <2>2. ts \in TsStates /\ nc \in NcStates /\ nc.pc # "patch"
      BY Zenon DEF Init, IdleTs, IdleNc, TsStates, NcStates
    <2> QED BY <2>1, <2>2, Zenon DEF CleanLoose
  <1> QED BY <1>7, <1>8, <1>9, <1>10, <1>11, Zenon DEF TInv

LEMMA NextTInv == TInv /\ [Next]_vars => TInv'
  <1> SUFFICES ASSUME TInv, [Next]_vars PROVE TInv' BY Zenon
  <1>1. CASE UNCHANGED vars
    <2>1. UNCHANGED <<apiVars, recVars, claimVars, csi, localVars, ts, nc, faults>>
      BY <1>1, Zenon DEF vars, apiVars, recVars, claimVars, localVars
    <2> QED BY <2>1, Untouched, Zenon DEF TInv
  <1>2. ASSUME NEW v \in Vols, Csi(v) PROVE TInv'
    BY <1>2, CreateLoose, DeleteLoose, ExpandLoose, Zenon DEF Csi
  <1>3. ASSUME NEW v \in Vols, Worker(v) PROVE TInv'
    BY <1>3, ReconcileLoose, CreateLvLoose, ExpandLvLoose, RemoveLvLoose, SaveLoose, Zenon DEF Worker
  <1>4. CASE Failures BY <1>4, RestartLoose, SyncLoose, SaveLoose, Zenon DEF Failures
  <1>5. CASE TroubleShoot \/ NodeController BY <1>5, TroubleShootLoose, NodeControllerLoose, Zenon
  <1> QED BY <1>1, <1>2, <1>3, <1>4, <1>5, UserLoose, SyncLoose, Zenon DEF Next

\* Whatever the lookup finds and also while the cleanups run: every variable has
\* a value of its kind, sizes are sizes that somebody asked for, and the free
\* space stays within the group, as createLV, expandLV, removeLVIfExists and
\* cleanupOrphanVolume give back exactly what was taken.
THEOREM TypesKept == Spec => []TypeOK
  <1>1. Spec => []TInv BY InitTInv, NextTInv, PTL DEF Spec
  <1> QED BY <1>1, TInvTypes, PTL
==============================================================================
