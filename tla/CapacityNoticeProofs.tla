------------------------- MODULE CapacityNoticeProofs -------------------------
(***************************************************************************)
(* Proofs about the capacity report: the channel of notices stays within   *)
(* its capacity, and a reconciler that is not at work finds its volume     *)
(* accounted for.                                                          *)
(*                                                                         *)
(* ConfirmedReported is not inductive: that the status the reader is about *)
(* to write agrees with the storage rests on whom it may confirm, and that *)
(* on every reconciler having at most one notice under way.                *)
(***************************************************************************)
EXTENDS CapacityNotice, TLAPS

\* A copy that is still current shows what the object holds.
CopyTrue(copy) == copy # None /\ copy.current => nsr = copy.status

\* Whoever has a notice in the channel, or served by the reader, waits for it,
\* and has no other.
NoticesTrue ==
    /\ \A i \in 1..Len(chan) : chan[i] # None => worker[chan[i]] = "wait"
    /\ \A i, j \in 1..Len(chan) : chan[i] # None /\ chan[i] = chan[j] => i = j
    /\ reader.event # None =>
         /\ worker[reader.event] = "wait"
         /\ \A i \in 1..Len(chan) : chan[i] # reader.event

\* The volumes of w are in the status as they are in the storage.
Agrees(w, status) == status.known => (w \in status.vols <=> w \in vols)

\* The status the reader has put together is right about everybody who is not
\* at work, and about the one it is about to confirm.
StatusTrue ==
    reader.pc = "update" =>
        /\ reader.obj # None
        /\ \A w \in Workers : worker[w] = "idle" \/ reader.event = w => Agrees(w, reader.status)

\* The inductive invariant.
IInv ==
    /\ TypeOK
    /\ CopyTrue(seen) /\ CopyTrue(reader.obj)
    /\ NoticesTrue
    /\ StatusTrue
    /\ ConfirmedReported
-----------------------------------------------------------------------------
(* Records and copies                                                      *)

LEMMA BlankTyped == Blank \in Statuses /\ ~Blank.known
  BY Zenon DEF Blank, Statuses

LEMMA RestingTyped ==
  ASSUME NEW p \in {"off", "select", "get", "trigger", "update", "stopped"}
  PROVE  /\ [Resting EXCEPT !.pc = p] \in Readers
         /\ [Resting EXCEPT !.pc = p].pc = p
         /\ [Resting EXCEPT !.pc = p].event = None
         /\ [Resting EXCEPT !.pc = p].obj = None
  BY BlankTyped, Zenon DEF Resting, Readers

LEMMA RestingSelects == Resting = [Resting EXCEPT !.pc = "select"]
  BY DEF Resting

\* The fields of the reader after a step that sets some of them.
LEMMA ReaderFields ==
  ASSUME reader \in Readers
  PROVE  /\ reader.event \in Workers \cup {None}
         /\ reader.obj \in Copies \cup {None}
         /\ reader.status \in Statuses
  BY Zenon DEF Readers

\* A fresh copy is right, one that is marked is no longer current.
LEMMA FreshCopy ==
  ASSUME NEW s \in Statuses \cup {None}
  PROVE  /\ CopyOf(s) \in Copies \cup {None}
         /\ CopyOf(s) # None => CopyOf(s).status = s
  BY NoneAssumption, Zenon DEF CopyOf, Copies

LEMMA OldCopy ==
  ASSUME NEW c \in Copies \cup {None}
  PROVE  /\ Outdated(c) \in Copies \cup {None}
         /\ Outdated(c) # None => ~Outdated(c).current
         /\ Outdated(c) = None <=> c = None
  <1>1. CASE c = None BY <1>1, Zenon DEF Outdated
  <1>2. CASE c # None
    <2>1. c \in Copies BY <1>2, Zenon
    <2> DEFINE d == [c EXCEPT !.current = FALSE]
    <2>2. d \in Copies /\ d.current = FALSE BY <2>1, Zenon DEF Copies
    <2>3. Outdated(c) = d BY <1>2, Zenon DEF Outdated
    <2> HIDE DEF d
    <2> QED BY <2>2, <2>3, <1>2, NoneAssumption, Zenon
  <1> QED BY <1>1, <1>2, Zenon

\* What Get finds is a copy, right if it is current.
LEMMA GetTyped ==
  ASSUME TypeOK, CopyTrue(seen)
  PROVE  Get \in Copies \cup {None} /\ CopyTrue(Get)
  <1>1. CASE seen # None BY <1>1, Zenon DEF Get, TypeOK
  <1>2. CASE seen = None
    <2>1. Get = CopyOf(nsr) BY <1>2, Zenon DEF Get
    <2>2. nsr \in Statuses \cup {None} BY Zenon DEF TypeOK
    <2> QED BY <2>1, <2>2, FreshCopy, Zenon DEF CopyTrue
  <1> QED BY <1>1, <1>2, Zenon

LEMMA GenerateTyped ==
  ASSUME TypeOK
  PROVE  /\ generateStatus \in Statuses
         /\ \A w \in Workers : Agrees(w, generateStatus)
  <1>1. CASE generateStatus = Blank BY <1>1, BlankTyped, Zenon DEF Agrees
  <1>2. CASE generateStatus = [known |-> TRUE, vols |-> vols, disk |-> disk]
    BY <1>2, Zenon DEF Agrees, TypeOK, Statuses
  <1> QED BY <1>1, <1>2, Zenon DEF generateStatus
-----------------------------------------------------------------------------
(* What a step leaves alone                                                *)

\* The copies in the cache and in the reader.
CopiesTrue == CopyTrue(seen) /\ CopyTrue(reader.obj)

LEMMA CopiesFrame ==
  ASSUME CopiesTrue, UNCHANGED objects, reader'.obj \in {reader.obj, None}
  PROVE  CopiesTrue'
  BY Zenon DEF CopiesTrue, CopyTrue, objects

LEMMA CopiesFresh ==
  ASSUME TypeOK, CopiesTrue, UNCHANGED nsr, seen' = CopyOf(nsr),
         reader'.obj \in {reader.obj, None}
  PROVE  seen' \in Copies \cup {None} /\ CopiesTrue'
  <1>1. nsr \in Statuses \cup {None} BY Zenon DEF TypeOK
  <1>2. seen' \in Copies \cup {None} /\ (seen' # None => seen'.status = nsr)
    BY <1>1, FreshCopy, Zenon
  <1> QED BY <1>2, Zenon DEF CopiesTrue, CopyTrue

\* A write makes every copy an old one.
LEMMA CopiesOld ==
  ASSUME TypeOK, NEW s, WriteNsr(s),
         reader'.obj # None => ~reader'.obj.current
  PROVE  seen' \in Copies \cup {None} /\ nsr' = s /\ CopiesTrue'
  <1>1. seen \in Copies \cup {None} BY Zenon DEF TypeOK
  <1>2. seen' = Outdated(seen) /\ nsr' = s BY Zenon DEF WriteNsr
  <1>3. seen' \in Copies \cup {None} /\ (seen' # None => ~seen'.current)
    BY <1>1, <1>2, OldCopy, Zenon
  <1> QED BY <1>2, <1>3, Zenon DEF CopiesTrue, CopyTrue

\* The notices, while nobody sends, receives or confirms one.
LEMMA NoticesFrame ==
  ASSUME NoticesTrue, UNCHANGED <<chan, worker>>, reader'.event \in {reader.event, None}
  PROVE  NoticesTrue'
  BY Zenon DEF NoticesTrue

LEMMA StatusFrame ==
  ASSUME StatusTrue, UNCHANGED <<vols, worker>>, UNCHANGED reader \/ reader'.pc # "update"
  PROVE  StatusTrue'
  BY Zenon DEF StatusTrue, Agrees

LEMMA ReportedFrame ==
  ASSUME ConfirmedReported, UNCHANGED <<vols, worker, nsr, slips>>
  PROVE  ConfirmedReported'
  BY Zenon DEF ConfirmedReported

\* A report that does not speak of the group agrees with anything.
LEMMA ReportedBlank ==
  ASSUME nsr' = None \/ ~nsr'.known
  PROVE  ConfirmedReported'
  BY Zenon DEF ConfirmedReported
-----------------------------------------------------------------------------
(* The channel                                                             *)

LEMMA ChanTyped ==
  ASSUME TypeOK
  PROVE  /\ Len(chan) \in Nat /\ DOMAIN chan = 1..Len(chan)
         /\ \A i \in 1..Len(chan) : chan[i] \in Workers \cup {None}
  BY DEF TypeOK

\* A notice is put into the channel.
LEMMA Appended ==
  ASSUME TypeOK, ~Full, NEW x \in Workers \cup {None}, chan' = Append(chan, x)
  PROVE  /\ chan' \in Seq(Workers \cup {None}) /\ Len(chan') <= Cap
         /\ Len(chan') = Len(chan) + 1
         /\ \A i \in 1..Len(chan) : chan'[i] = chan[i]
         /\ chan'[Len(chan) + 1] = x
  BY CapacityNoticeAssumption DEF TypeOK, Full

\* A notice for which nobody waits.
LEMMA AppendedNone ==
  ASSUME TypeOK, NoticesTrue, ~Full, chan' = Append(chan, None), UNCHANGED worker,
         reader'.event \in {reader.event, None}
  PROVE  NoticesTrue'
  <1> DEFINE n == Len(chan)
  <1>1. n \in Nat BY ChanTyped, Zenon
  <1>2. /\ Len(chan') = n + 1 /\ chan'[n + 1] = None
        /\ \A i \in 1..n : chan'[i] = chan[i]
    BY Appended, Zenon
  <1>3. \A i \in 1..Len(chan') : chan'[i] # None => i \in 1..n /\ chan'[i] = chan[i]
    BY <1>1, <1>2
  <1> HIDE DEF n
  <1> QED BY <1>3 DEF NoticesTrue, n

LEMMA AppendedOwn ==
  ASSUME TypeOK, NoticesTrue, ~Full, NEW w \in Workers, worker[w] = "send",
         chan' = Append(chan, w), UNCHANGED reader,
         worker' = [worker EXCEPT ![w] = "wait"]
  PROVE  NoticesTrue'
  <1> DEFINE n == Len(chan)
  <1>1. n \in Nat /\ (\A i \in 1..n : chan[i] \in Workers \cup {None}) BY ChanTyped, Zenon
  <1>2. /\ Len(chan') = n + 1 /\ chan'[n + 1] = w
        /\ \A i \in 1..n : chan'[i] = chan[i]
    BY Appended, Zenon
  <1>3. \A i \in 1..Len(chan') : i = n + 1 \/ (i \in 1..n /\ chan'[i] = chan[i])
    BY <1>1, <1>2
  <1>4. \A i \in 1..n : chan[i] # w BY CapacityNoticeAssumption, Zenon DEF NoticesTrue, n
  <1>5. worker'[w] = "wait" /\ (\A u \in Workers : u # w => worker'[u] = worker[u])
    BY Zenon DEF TypeOK
  <1>6. reader.event \in Workers \cup {None} BY ReaderFields, Zenon DEF TypeOK
  <1>7. reader.event # w BY CapacityNoticeAssumption, Zenon DEF NoticesTrue
  <1>8. \A i \in 1..Len(chan') : chan'[i] # None => worker'[chan'[i]] = "wait"
    <2> SUFFICES ASSUME NEW i \in 1..Len(chan'), chan'[i] # None
                 PROVE  worker'[chan'[i]] = "wait"
      OBVIOUS
    <2>1. CASE i = n + 1 BY <2>1, <1>2, <1>5, Zenon
    <2>2. CASE i \in 1..n /\ chan'[i] = chan[i]
      <3>1. worker[chan[i]] = "wait" BY <2>2, Zenon DEF NoticesTrue, n
      <3> QED BY <3>1, <2>2, <1>1, <1>4, <1>5, Zenon
    <2> QED BY <2>1, <2>2, <1>3, Zenon
  <1>9. \A i, j \in 1..Len(chan') : chan'[i] # None /\ chan'[i] = chan'[j] => i = j
    <2> SUFFICES ASSUME NEW i \in 1..Len(chan'), NEW j \in 1..Len(chan'),
                        chan'[i] # None, chan'[i] = chan'[j]
                 PROVE  i = j
      OBVIOUS
    <2>1. CASE chan'[i] = w BY <2>1, <1>3, <1>4, Zenon
    <2>2. CASE chan'[i] # w
      <3>1. /\ i \in 1..n /\ chan'[i] = chan[i]
            /\ j \in 1..n /\ chan'[j] = chan[j]
        BY <2>2, <1>2, <1>3, Zenon
      <3> QED BY <3>1, Zenon DEF NoticesTrue, n
    <2> QED BY <2>1, <2>2, Zenon
  <1>10. reader'.event # None =>
           /\ worker'[reader'.event] = "wait"
           /\ \A i \in 1..Len(chan') : chan'[i] # reader'.event
    <2>1. SUFFICES ASSUME reader.event # None
                   PROVE  /\ worker'[reader.event] = "wait"
                          /\ \A i \in 1..Len(chan') : chan'[i] # reader.event
      OBVIOUS
    <2>2. /\ worker[reader.event] = "wait"
          /\ \A i \in 1..n : chan[i] # reader.event
      BY <2>1, Zenon DEF NoticesTrue, n
    <2>3. worker'[reader.event] = "wait" BY <2>1, <2>2, <1>5, <1>6, <1>7, Zenon
    <2>4. \A i \in 1..Len(chan') : chan'[i] # reader.event BY <2>2, <1>2, <1>3, <1>7, Zenon
    <2> QED BY <2>3, <2>4, Zenon
  <1> QED BY <1>8, <1>9, <1>10, Zenon DEF NoticesTrue
-----------------------------------------------------------------------------
(* Notices are sent                                                        *)

LEMMA FaultTyped ==
  ASSUME TypeOK
  PROVE  (Fault => faults' \in 0..MaxFaults) /\ (UNCHANGED faults => faults' \in 0..MaxFaults)
  BY CapacityNoticeAssumption DEF Fault, TypeOK

LEMMA ChangeTyped ==
  ASSUME TypeOK
  PROVE  /\ (Change => changes' \in 0..MaxChanges)
         /\ (UNCHANGED changes => changes' \in 0..MaxChanges)
  BY CapacityNoticeAssumption DEF Change, TypeOK

\* NoticeUpdateCapacity puts the notice into the channel or leaves it.
LEMMA NoticeCases ==
  ASSUME TypeOK, NEW x \in Workers \cup {None}, NoticeUpdateCapacity(x)
  PROVE  /\ UNCHANGED chan \/ (~Full /\ chan' = Append(chan, x))
         /\ chan' \in Seq(Workers \cup {None}) /\ Len(chan') <= Cap
         /\ faults' \in 0..MaxFaults
  <1>1. UNCHANGED chan \/ (~Full /\ chan' = Append(chan, x))
    BY Zenon DEF NoticeUpdateCapacity
  <1>2. faults' \in 0..MaxFaults BY FaultTyped, Zenon DEF NoticeUpdateCapacity
  <1>3. chan' \in Seq(Workers \cup {None}) /\ Len(chan') <= Cap
    <2>1. CASE UNCHANGED chan BY <2>1, Zenon DEF TypeOK
    <2>2. CASE ~Full /\ chan' = Append(chan, x) BY <2>2, Appended, Zenon
    <2> QED BY <1>1, <2>1, <2>2, Zenon
  <1> QED BY <1>1, <1>2, <1>3, Zenon

\* A notice nobody waits for disturbs nobody.
LEMMA IdleNotice ==
  ASSUME TypeOK, NoticesTrue, NoticeUpdateCapacity(None), UNCHANGED <<reader, worker>>
  PROVE  NoticesTrue'
  <1>1. CASE UNCHANGED chan BY <1>1, NoticesFrame, Zenon
  <1>2. CASE ~Full /\ chan' = Append(chan, None) BY <1>2, AppendedNone, Zenon
  <1> QED BY <1>1, <1>2, NoticeCases, Zenon

\* Lists what is left to show when the report and the storage stay as they are.
LEMMA RestFrame ==
  ASSUME IInv, UNCHANGED <<vols, worker, objects, slips, reader>>
  PROVE  CopiesTrue' /\ StatusTrue' /\ ConfirmedReported'
  <1>1. CopiesTrue' BY CopiesFrame, Zenon DEF IInv, CopiesTrue
  <1>2. StatusTrue' BY StatusFrame, Zenon DEF IInv
  <1>3. ConfirmedReported' BY ReportedFrame, Zenon DEF IInv, objects
  <1> QED BY <1>1, <1>2, <1>3, Zenon

LEMMA FromParts ==
  ASSUME TypeOK', CopiesTrue', NoticesTrue', StatusTrue', ConfirmedReported'
  PROVE  IInv'
  BY Zenon DEF IInv, CopiesTrue

LEMMA SendNoticeStep ==
  ASSUME IInv, NEW w \in Workers, SendNotice(w)
  PROVE  IInv'
  <1> USE DEF SendNotice
  <1>1. TypeOK BY Zenon DEF IInv
  <1>2. /\ UNCHANGED chan \/ (~Full /\ chan' = Append(chan, w))
        /\ chan' \in Seq(Workers \cup {None}) /\ Len(chan') <= Cap
        /\ faults' \in 0..MaxFaults
    BY <1>1, NoticeCases, Zenon
  <1>3. worker' \in [Workers -> {"idle", "send", "wait"}] BY <1>1, Zenon DEF TypeOK
  <1>4. TypeOK' BY <1>1, <1>2, <1>3, Zenon DEF TypeOK, storage, settings, objects, scanVars
  <1>5. \A u \in Workers : u # w => worker'[u] = worker[u] BY <1>1, Zenon DEF TypeOK
  <1>6. worker[w] = "send" /\ worker'[w] = "wait" BY <1>1, Zenon DEF TypeOK
  <1>7. NoticesTrue'
    <2>1. CASE ~Full /\ chan' = Append(chan, w) BY <2>1, <1>1, AppendedOwn, Zenon DEF IInv
    <2>2. CASE UNCHANGED chan
      <3>1. \A i \in 1..Len(chan) : chan[i] \in Workers \cup {None} BY <1>1, ChanTyped, Zenon
      <3>2. reader.event \in Workers \cup {None} BY <1>1, ReaderFields, Zenon DEF TypeOK
      <3>3. NoticesTrue /\ UNCHANGED reader BY Zenon DEF IInv
      <3> QED BY <2>2, <3>1, <3>2, <3>3, <1>5, <1>6 DEF NoticesTrue
    <2> QED BY <1>2, <2>1, <2>2, Zenon
  <1>8. CopiesTrue' BY CopiesFrame, Zenon DEF IInv, CopiesTrue
  <1>9. reader.event # w
    BY <1>6, CapacityNoticeAssumption, Zenon DEF IInv, NoticesTrue
  <1>10. StatusTrue'
    <2>1. SUFFICES ASSUME reader.pc = "update"
                   PROVE  /\ reader.obj # None
                          /\ \A u \in Workers : worker'[u] = "idle" \/ reader.event = u =>
                               Agrees(u, reader.status)'
      BY Zenon DEF StatusTrue
    <2>2. UNCHANGED <<reader, vols>> BY Zenon DEF storage
    <2>3. /\ reader.obj # None
          /\ \A u \in Workers : worker[u] = "idle" \/ reader.event = u => Agrees(u, reader.status)
      BY <2>1, Zenon DEF IInv, StatusTrue
    <2> QED BY <2>2, <2>3, <1>5, <1>6, <1>9, Zenon DEF Agrees
  <1>11. ConfirmedReported'
    <2>1. UNCHANGED <<nsr, vols, slips>> BY Zenon DEF storage, objects
    <2>2. ConfirmedReported BY Zenon DEF IInv
    <2> QED BY <2>1, <2>2, <1>5, <1>6, Zenon DEF ConfirmedReported
  <1> QED BY <1>4, <1>7, <1>8, <1>10, <1>11, FromParts, Zenon

LEMMA TimeoutStep ==
  ASSUME IInv, NEW w \in Workers, WaitTimeout(w)
  PROVE  IInv'
  <1> USE DEF WaitTimeout
  <1>1. TypeOK BY Zenon DEF IInv
  <1>2. Len(chan) \in Nat /\ DOMAIN chan = 1..Len(chan)
        /\ \A i \in 1..Len(chan) : chan[i] \in Workers \cup {None}
    BY <1>1, ChanTyped, Zenon
  <1>3. chan' = [i \in 1..Len(chan) |-> IF chan[i] = w THEN None ELSE chan[i]] BY <1>2, Zenon
  <1>4. chan' \in Seq(Workers \cup {None}) /\ Len(chan') = Len(chan) BY <1>2, <1>3
  <1>5. \A i \in 1..Len(chan) : chan'[i] = IF chan[i] = w THEN None ELSE chan[i] BY <1>3, Zenon
  <1>6. faults' \in 0..MaxFaults BY <1>1, FaultTyped, Zenon
  <1>7. /\ reader' \in Readers /\ reader'.pc = reader.pc
        /\ reader'.obj = reader.obj /\ reader'.status = reader.status
        /\ reader'.event = IF reader.event = w THEN None ELSE reader.event
    <2>1. reader \in Readers BY <1>1, Zenon DEF TypeOK
    <2>2. CASE reader.event = w BY <2>1, <2>2, Zenon DEF Readers
    <2>3. CASE reader.event # w BY <2>1, <2>3, Zenon
    <2> QED BY <2>2, <2>3, Zenon
  <1>8. /\ worker' \in [Workers -> {"idle", "send", "wait"}]
        /\ worker'[w] = "send" /\ worker[w] = "wait"
        /\ \A u \in Workers : u # w => worker'[u] = worker[u]
    BY <1>1, Zenon DEF TypeOK
  <1>9. Len(chan) <= Cap BY <1>1, Zenon DEF TypeOK
  <1>10. TypeOK'
    BY <1>1, <1>4, <1>6, <1>7, <1>8, <1>9, Zenon DEF TypeOK, storage, settings, objects, scanVars
  <1>11. reader.event \in Workers \cup {None} BY <1>1, ReaderFields, Zenon DEF TypeOK
  <1>12. NoticesTrue'
    <2>1. NoticesTrue BY Zenon DEF IInv
    <2>2. \A i \in 1..Len(chan) : chan'[i] # None => chan'[i] = chan[i] /\ chan[i] # w
      BY <1>5, Zenon
    <2>3. \A i \in 1..Len(chan) : chan'[i] # None => worker'[chan'[i]] = "wait"
      BY <2>1, <2>2, <1>2, <1>8, Zenon DEF NoticesTrue
    <2>4. \A i, j \in 1..Len(chan) : chan'[i] # None /\ chan'[i] = chan'[j] => i = j
      BY <2>1, <2>2 DEF NoticesTrue
    <2>5. reader'.event # None => reader'.event = reader.event /\ reader.event # w
      BY <1>7, Zenon
    <2>6. reader'.event # None =>
            /\ worker'[reader'.event] = "wait"
            /\ \A i \in 1..Len(chan) : chan'[i] # reader'.event
      BY <2>1, <2>2, <2>5, <1>8, <1>11 DEF NoticesTrue
    <2>7. \A i \in 1..Len(chan') : i \in 1..Len(chan) BY <1>4, Zenon
    <2>8. /\ \A i \in 1..Len(chan') : chan'[i] # None => worker'[chan'[i]] = "wait"
          /\ \A i, j \in 1..Len(chan') : chan'[i] # None /\ chan'[i] = chan'[j] => i = j
          /\ reader'.event # None => \A i \in 1..Len(chan') : chan'[i] # reader'.event
      BY <2>3, <2>4, <2>6, <2>7, Zenon
    <2> QED BY <2>6, <2>8, Zenon DEF NoticesTrue
  <1>13. CopiesTrue' BY <1>7, CopiesFrame, Zenon DEF IInv, CopiesTrue
  <1>14. StatusTrue'
    <2>1. SUFFICES ASSUME reader.pc = "update"
                   PROVE  /\ reader.obj # None
                          /\ \A u \in Workers : worker'[u] = "idle" \/ reader'.event = u =>
                               Agrees(u, reader.status)'
      BY <1>7, Zenon DEF StatusTrue, Agrees
    <2>2. UNCHANGED vols BY Zenon DEF storage
    <2>3. /\ reader.obj # None
          /\ \A u \in Workers : worker[u] = "idle" \/ reader.event = u => Agrees(u, reader.status)
      BY <2>1, Zenon DEF IInv, StatusTrue
    <2>4. \A u \in Workers : worker'[u] = "idle" \/ reader'.event = u =>
              worker[u] = "idle" \/ reader.event = u
      BY <1>7, <1>8, CapacityNoticeAssumption
    <2> QED BY <2>2, <2>3, <2>4, <1>7, Zenon DEF Agrees
  <1>15. ConfirmedReported'
    <2>1. UNCHANGED <<nsr, vols, slips>> BY Zenon DEF storage, objects
    <2>2. ConfirmedReported BY Zenon DEF IInv
    <2> QED BY <2>1, <2>2, <1>8, Zenon DEF ConfirmedReported
  <1> QED BY <1>10, <1>12, <1>13, <1>14, <1>15, FromParts, Zenon
-----------------------------------------------------------------------------
(* The storage changes                                                     *)

LEMMA VolumeChangesStep ==
  ASSUME IInv, NEW w \in Workers, VolumeChanges(w)
  PROVE  IInv'
  <1> USE DEF VolumeChanges
  <1>1. TypeOK BY Zenon DEF IInv
  <1>2. vols' \subseteq Workers /\ (\A u \in Workers : u # w => (u \in vols' <=> u \in vols))
    BY <1>1, Zenon DEF TypeOK
  <1>3. /\ worker' \in [Workers -> {"idle", "send", "wait"}]
        /\ worker'[w] = "send" /\ worker[w] = "idle"
        /\ \A u \in Workers : u # w => worker'[u] = worker[u]
    BY <1>1, Zenon DEF TypeOK
  <1>4. changes' \in 0..MaxChanges BY <1>1, ChangeTyped, Zenon
  <1>5. slips' \subseteq Workers /\ (\A u \in Workers : u # w => (u \in slips' <=> u \in slips))
    BY <1>1, Zenon DEF TypeOK
  <1>6. TypeOK' BY <1>1, <1>2, <1>3, <1>4, <1>5, Zenon DEF TypeOK, settings, objects, scanVars
  <1>7. reader.event \in Workers \cup {None} BY <1>1, ReaderFields, Zenon DEF TypeOK
  <1>8. \A i \in 1..Len(chan) : chan[i] \in Workers \cup {None} BY <1>1, ChanTyped, Zenon
  <1>9. NoticesTrue'
    <2>1. NoticesTrue BY Zenon DEF IInv
    <2>2. \A u \in Workers : worker[u] = "wait" => worker'[u] = "wait" BY <1>3, Zenon
    <2> QED BY <2>1, <2>2, <1>7, <1>8, Zenon DEF NoticesTrue
  <1>10. CopiesTrue' BY CopiesFrame, Zenon DEF IInv, CopiesTrue
  <1>11. reader.event # w
    BY <1>3, CapacityNoticeAssumption, Zenon DEF IInv, NoticesTrue
  <1>12. StatusTrue'
    <2>1. SUFFICES ASSUME reader.pc = "update"
                   PROVE  /\ reader.obj # None
                          /\ \A u \in Workers : worker'[u] = "idle" \/ reader.event = u =>
                               Agrees(u, reader.status)'
      BY Zenon DEF StatusTrue
    <2>2. /\ reader.obj # None
          /\ \A u \in Workers : worker[u] = "idle" \/ reader.event = u => Agrees(u, reader.status)
      BY <2>1, Zenon DEF IInv, StatusTrue
    <2>3. \A u \in Workers : worker'[u] = "idle" \/ reader.event = u =>
              u # w /\ (worker[u] = "idle" \/ reader.event = u)
      BY <1>3, <1>11, Zenon
    <2> QED BY <2>2, <2>3, <1>2, Zenon DEF Agrees
  <1>13. ConfirmedReported'
    <2>1. UNCHANGED nsr BY Zenon DEF objects
    <2>2. ConfirmedReported BY Zenon DEF IInv
    <2> QED BY <2>1, <2>2, <1>2, <1>3, <1>5, Zenon DEF ConfirmedReported
  <1> QED BY <1>6, <1>9, <1>10, <1>12, <1>13, FromParts, Zenon
-----------------------------------------------------------------------------
(* The reader                                                              *)

LEMMA RegisterStep ==
  ASSUME IInv, RegisterNoticeChan
  PROVE  IInv'
  <1> USE DEF RegisterNoticeChan
  <1>1. TypeOK BY Zenon DEF IInv
  <1>2. reader' \in Readers /\ reader'.pc = "select" /\ reader'.event = None /\ reader'.obj = None
    BY RestingTyped, RestingSelects
  <1>3. TypeOK' BY <1>1, <1>2, Zenon DEF TypeOK, storage, settings, objects, scanVars, bounds
  <1>4. CopiesTrue' BY <1>2, CopiesFrame, Zenon DEF IInv, CopiesTrue
  <1>5. NoticesTrue' BY <1>2, NoticesFrame, Zenon DEF IInv
  <1>6. StatusTrue' BY <1>2, StatusFrame, Zenon DEF IInv, storage
  <1>7. ConfirmedReported' BY ReportedFrame, Zenon DEF IInv, storage, objects
  <1> QED BY <1>3, <1>4, <1>5, <1>6, <1>7, FromParts, Zenon

LEMMA FirstTriggerStep ==
  ASSUME IInv, FirstTrigger
  PROVE  IInv'
  <1> USE DEF FirstTrigger
  <1>1. TypeOK BY Zenon DEF IInv
  <1>2. chan' \in Seq(Workers \cup {None}) /\ Len(chan') <= Cap BY <1>1, Appended, Zenon
  <1>3. TypeOK' BY <1>1, <1>2, Zenon DEF TypeOK, storage, settings, objects, scanVars, bounds
  <1>4. NoticesTrue' BY <1>1, AppendedNone, Zenon DEF IInv
  <1>5. CopiesTrue' /\ StatusTrue' /\ ConfirmedReported' BY RestFrame, Zenon DEF storage
  <1> QED BY <1>3, <1>4, <1>5, FromParts, Zenon

LEMMA ReceiveStep ==
  ASSUME IInv, Receive
  PROVE  IInv'
  <1> USE DEF Receive
  <1>1. TypeOK BY Zenon DEF IInv
  <1>2. Len(chan) \in Nat /\ (\A i \in 1..Len(chan) : chan[i] \in Workers \cup {None})
    BY <1>1, ChanTyped, Zenon
  <1>3. /\ Len(chan) # 0 /\ Head(chan) = chan[1]
        /\ chan' \in Seq(Workers \cup {None}) /\ Len(chan') = Len(chan) - 1
        /\ \A i \in 1..Len(chan') : chan'[i] = chan[i + 1]
    BY <1>1 DEF TypeOK
  <1>4. 1 \in 1..Len(chan) /\ Len(chan') <= Cap
    BY <1>1, <1>2, <1>3, CapacityNoticeAssumption DEF TypeOK
  <1>5. \A i \in 1..Len(chan') : i + 1 \in 1..Len(chan) /\ i + 1 # 1 BY <1>2, <1>3
  <1>6. /\ reader' \in Readers /\ reader'.pc = "get"
        /\ reader'.obj = reader.obj /\ reader'.event = chan[1]
    BY <1>1, <1>2, <1>3, <1>4, Zenon DEF TypeOK, Readers
  <1>7. TypeOK'
    BY <1>1, <1>3, <1>4, <1>6, Zenon DEF TypeOK, storage, settings, objects, scanVars, bounds
  <1>8. NoticesTrue'
    <2>1. NoticesTrue BY Zenon DEF IInv
    <2>2. \A i \in 1..Len(chan') : chan'[i] # None => worker[chan'[i]] = "wait"
      BY <2>1, <1>3, <1>5 DEF NoticesTrue
    <2>3. \A i, j \in 1..Len(chan') : chan'[i] # None /\ chan'[i] = chan'[j] => i = j
      <3> SUFFICES ASSUME NEW i \in 1..Len(chan'), NEW j \in 1..Len(chan'),
                          chan'[i] # None, chan'[i] = chan'[j]
                   PROVE  i = j
        OBVIOUS
      <3>1. i + 1 = j + 1 BY <2>1, <1>3, <1>5 DEF NoticesTrue
      <3> QED BY <3>1, <1>2, <1>3
    <2>4. chan[1] # None => worker[chan[1]] = "wait" BY <2>1, <1>4, Zenon DEF NoticesTrue
    <2>5. chan[1] # None => \A i \in 1..Len(chan') : chan'[i] # chan[1]
      BY <2>1, <1>3, <1>4, <1>5 DEF NoticesTrue
    <2> QED BY <2>2, <2>3, <2>4, <2>5, <1>6, Zenon DEF NoticesTrue
  <1>9. CopiesTrue' BY <1>6, CopiesFrame, Zenon DEF IInv, CopiesTrue
  <1>10. StatusTrue' BY <1>6, StatusFrame, Zenon DEF IInv, storage
  <1>11. ConfirmedReported' BY ReportedFrame, Zenon DEF IInv, storage, objects
  <1> QED BY <1>7, <1>8, <1>9, <1>10, <1>11, FromParts, Zenon

LEMMA CreateNsrStep ==
  ASSUME IInv, createNodeStorageResource
  PROVE  IInv'
  <1> USE DEF createNodeStorageResource
  <1>1. TypeOK BY Zenon DEF IInv
  <1>2. faults' \in 0..MaxFaults BY <1>1, FaultTyped, Zenon
  <1>3. /\ reader' \in Readers /\ reader'.pc # "update"
        /\ reader'.event = None /\ reader'.obj = None
    <2>1. CASE reader' = [Resting EXCEPT !.pc = "trigger"] BY <2>1, RestingTyped, Zenon
    <2>2. CASE reader' = Resting BY <2>2, RestingTyped, RestingSelects, Zenon
    <2> QED BY <2>1, <2>2, Zenon
  <1>4. /\ nsr' \in Statuses \cup {None} /\ seen' \in Copies \cup {None}
        /\ CopiesTrue' /\ ConfirmedReported'
    <2>1. CASE WriteNsr(Blank)
      <3>1. seen' \in Copies \cup {None} /\ nsr' = Blank /\ CopiesTrue'
        BY <1>1, <1>3, <2>1, CopiesOld, Zenon
      <3>2. ConfirmedReported' BY <3>1, BlankTyped, ReportedBlank, Zenon
      <3> QED BY <3>1, <3>2, BlankTyped, Zenon
    <2>2. CASE UNCHANGED objects
      <3>1. CopiesTrue' BY <1>3, <2>2, CopiesFrame, Zenon DEF IInv, CopiesTrue
      <3>2. ConfirmedReported' BY <2>2, ReportedFrame, Zenon DEF IInv, storage, objects
      <3> QED BY <3>1, <3>2, <1>1, <2>2, Zenon DEF TypeOK, objects
    <2> QED BY <2>1, <2>2, Zenon
  <1>5. TypeOK' BY <1>1, <1>2, <1>3, <1>4, Zenon DEF TypeOK, storage, settings, scanVars
  <1>6. NoticesTrue' BY <1>3, NoticesFrame, Zenon DEF IInv
  <1>7. StatusTrue' BY <1>3, StatusFrame, Zenon DEF IInv, storage
  <1> QED BY <1>4, <1>5, <1>6, <1>7, FromParts, Zenon

LEMMA TriggerStep ==
  ASSUME IInv, triggerReconcile
  PROVE  IInv'
  <1> USE DEF triggerReconcile
  <1>1. TypeOK BY Zenon DEF IInv
  <1>2. reader' \in Readers /\ reader'.pc = "select" /\ reader'.event = None /\ reader'.obj = None
    BY RestingTyped, RestingSelects, Zenon
  <1>3. chan' \in Seq(Workers \cup {None}) /\ Len(chan') <= Cap BY <1>1, Appended, Zenon
  <1>4. TypeOK' BY <1>1, <1>2, <1>3, Zenon DEF TypeOK, storage, settings, objects, scanVars, bounds
  <1>5. NoticesTrue' BY <1>1, <1>2, AppendedNone, Zenon DEF IInv
  <1>6. CopiesTrue' BY <1>2, CopiesFrame, Zenon DEF IInv, CopiesTrue
  <1>7. StatusTrue' BY <1>2, StatusFrame, Zenon DEF IInv, storage
  <1>8. ConfirmedReported' BY ReportedFrame, Zenon DEF IInv, storage, objects
  <1> QED BY <1>4, <1>5, <1>6, <1>7, <1>8, FromParts, Zenon

LEMMA GetStep ==
  ASSUME IInv, GetAndGenerate
  PROVE  IInv'
  <1> USE DEF GetAndGenerate
  <1>1. TypeOK BY Zenon DEF IInv
  <1>2. faults' \in 0..MaxFaults BY <1>1, FaultTyped, Zenon
  <1>3. Get \in Copies \cup {None} /\ CopyTrue(Get) BY <1>1, GetTyped, Zenon DEF IInv
  <1>4. generateStatus \in Statuses /\ (\A w \in Workers : Agrees(w, generateStatus))
    BY <1>1, GenerateTyped, Zenon
  <1>5. Blank \in Statuses /\ (\A w \in Workers : Agrees(w, Blank))
    BY BlankTyped, Zenon DEF Agrees
  <1>6. reader \in Readers BY <1>1, Zenon DEF TypeOK
  <1>7. UNCHANGED <<nsr, seen, vols, chan, worker, slips>> BY Zenon DEF objects, storage
  <1>8. CopyTrue(seen) BY Zenon DEF IInv
  <1>9. /\ reader' \in Readers /\ reader'.event \in {reader.event, None}
        /\ CopiesTrue' /\ StatusTrue'
    <2>1. CASE reader' = Resting
      <3>1. reader' \in Readers /\ reader'.pc = "select" /\ reader'.event = None
            /\ reader'.obj = None
        BY <2>1, RestingTyped, RestingSelects, Zenon
      <3>2. CopiesTrue' BY <3>1, CopiesFrame, Zenon DEF IInv, CopiesTrue
      <3> QED BY <3>1, <3>2, Zenon DEF StatusTrue
    <2>2. ASSUME NEW s \in Statuses, \A w \in Workers : Agrees(w, s), Get # None,
                 reader' = [reader EXCEPT !.pc = "update", !.obj = Get, !.status = s]
          PROVE  /\ reader' \in Readers /\ reader'.event \in {reader.event, None}
                 /\ CopiesTrue' /\ StatusTrue'
      <3>1. /\ reader' \in Readers /\ reader'.event = reader.event
            /\ reader'.obj = Get /\ reader'.status = s
        BY <2>2, <1>3, <1>6, Zenon DEF Readers
      <3>2. CopyTrue(seen)' BY <1>7, <1>8, Zenon DEF CopyTrue
      <3>3. CopyTrue(reader.obj)' BY <3>1, <1>3, <1>7, Zenon DEF CopyTrue
      <3>4. StatusTrue' BY <3>1, <2>2, <1>7, Zenon DEF StatusTrue, Agrees
      <3> QED BY <3>1, <3>2, <3>3, <3>4, Zenon DEF CopiesTrue
    <2>3. CASE Get # None /\ reader' = [reader EXCEPT !.pc = "update", !.obj = Get,
                                                      !.status = generateStatus]
      BY <2>2, <2>3, <1>4, Zenon
    <2>4. CASE Get # None /\ reader' = [reader EXCEPT !.pc = "update", !.obj = Get,
                                                      !.status = Blank]
      BY <2>2, <2>4, <1>5, Zenon
    <2> QED BY <2>1, <2>3, <2>4, Zenon
  <1>10. TypeOK' BY <1>1, <1>2, <1>9, Zenon DEF TypeOK, storage, settings, objects, scanVars
  <1>11. NoticesTrue' BY <1>7, <1>9, NoticesFrame, Zenon DEF IInv
  <1>12. ConfirmedReported' BY <1>7, ReportedFrame, Zenon DEF IInv
  <1> QED BY <1>9, <1>10, <1>11, <1>12, FromParts, Zenon

\* Whoever waits is confirmed.
LEMMA ConfirmTrue ==
  ASSUME IInv, Confirm, UNCHANGED chan, reader'.event = None
  PROVE  /\ worker' \in [Workers -> {"idle", "send", "wait"}]
         /\ slips' \subseteq Workers
         /\ NoticesTrue'
         /\ \A u \in Workers : worker'[u] = "idle" => worker[u] = "idle" \/ reader.event = u
         /\ \A u \in Workers : worker'[u] = "idle" /\ u \notin slips' /\ reader.event = u =>
                                   reader.obj.current
         /\ \A u \in slips : u \in slips'
  <1>1. TypeOK /\ NoticesTrue BY Zenon DEF IInv
  <1>2. reader.event \in Workers \cup {None} BY <1>1, ReaderFields, Zenon DEF TypeOK
  <1>3. \A i \in 1..Len(chan) : chan[i] \in Workers \cup {None} BY <1>1, ChanTyped, Zenon
  <1>4. worker \in [Workers -> {"idle", "send", "wait"}] /\ slips \subseteq Workers
    BY <1>1, Zenon DEF TypeOK
  <1>5. CASE reader.event = None
    <2>1. worker' = worker /\ slips' = slips BY <1>5, Zenon DEF Confirm
    <2>2. NoticesTrue' BY <2>1, <1>1, NoticesFrame, Zenon
    <2>3. \A u \in Workers : reader.event # u BY <1>5, CapacityNoticeAssumption, Zenon
    <2> QED BY <2>1, <2>2, <2>3, <1>4, Zenon
  <1>6. CASE reader.event # None
    <2>1. worker' = [worker EXCEPT ![reader.event] = "idle"] BY <1>6, Zenon DEF Confirm
    <2>2. /\ worker' \in [Workers -> {"idle", "send", "wait"}]
          /\ \A u \in Workers : u # reader.event => worker'[u] = worker[u]
      BY <2>1, <1>4, Zenon
    <2>3. /\ slips' \subseteq Workers /\ (\A u \in slips : u \in slips')
          /\ reader.event \notin slips' => reader.obj.current
      BY <1>2, <1>4, <1>6, Zenon DEF Confirm
    <2>4. \A i \in 1..Len(chan) : chan[i] # reader.event BY <1>1, <1>6, Zenon DEF NoticesTrue
    <2>5. NoticesTrue' BY <2>2, <2>4, <1>1, <1>3, Zenon DEF NoticesTrue
    <2> QED BY <2>2, <2>3, <2>5, Zenon
  <1> QED BY <1>5, <1>6, Zenon

LEMMA ReconcileStep ==
  ASSUME IInv, reconcile
  PROVE  IInv'
  <1> USE DEF reconcile
  <1>1. TypeOK BY Zenon DEF IInv
  <1>2. faults' \in 0..MaxFaults BY <1>1, FaultTyped, Zenon DEF UpdateStatus
  <1>3. reader' \in Readers /\ reader'.pc = "select" /\ reader'.event = None /\ reader'.obj = None
    BY RestingTyped, RestingSelects
  <1>4. StatusTrue' BY <1>3, Zenon DEF StatusTrue
  <1>5. UNCHANGED <<vols, chan>> BY Zenon DEF storage
  <1>6. reader.obj # None /\ (\A w \in Workers : worker[w] = "idle" \/ reader.event = w =>
                                                     Agrees(w, reader.status))
    BY Zenon DEF IInv, StatusTrue
  <1>7. reader.obj.current => nsr = reader.obj.status BY <1>6, Zenon DEF IInv, CopyTrue
  <1>8. ConfirmedReported BY Zenon DEF IInv
  <1> DEFINE Parts == /\ nsr' \in Statuses \cup {None} /\ seen' \in Copies \cup {None}
                      /\ worker' \in [Workers -> {"idle", "send", "wait"}]
                      /\ slips' \subseteq Workers
                      /\ CopiesTrue' /\ NoticesTrue' /\ ConfirmedReported'
  <1>9. ASSUME reader.obj.status = reader.status, UNCHANGED objects, Confirm
        PROVE  Parts
    <2>1. /\ worker' \in [Workers -> {"idle", "send", "wait"}]
          /\ slips' \subseteq Workers
          /\ NoticesTrue'
          /\ \A u \in Workers : worker'[u] = "idle" => worker[u] = "idle" \/ reader.event = u
          /\ \A u \in Workers : worker'[u] = "idle" /\ u \notin slips' /\ reader.event = u =>
                                    reader.obj.current
          /\ \A u \in slips : u \in slips'
      BY <1>3, <1>5, <1>9, ConfirmTrue, Zenon
    <2>2. CopiesTrue' BY <1>3, <1>9, CopiesFrame, Zenon DEF IInv, CopiesTrue
    <2>3. UNCHANGED <<nsr, seen>> BY <1>9, Zenon DEF objects
    <2>4. ConfirmedReported'
      <3> SUFFICES ASSUME NEW u \in Workers, worker'[u] = "idle", u \notin slips',
                          nsr # None, nsr.known
                   PROVE  u \in nsr.vols <=> u \in vols
        BY <2>3, <1>5, Zenon DEF ConfirmedReported
      <3>1. CASE worker[u] = "idle" BY <3>1, <2>1, <1>8, Zenon DEF ConfirmedReported
      <3>2. CASE reader.event = u
        <4>1. nsr = reader.status BY <3>2, <2>1, <1>7, <1>9, Zenon
        <4> QED BY <4>1, <3>2, <1>6, Zenon DEF Agrees
      <3> QED BY <3>1, <3>2, <2>1, Zenon
    <2> QED BY <2>1, <2>2, <2>3, <2>4, <1>1, Zenon DEF TypeOK
  <1>10. ASSUME UpdateStatus, Confirm
         PROVE  Parts
    <2>1. /\ worker' \in [Workers -> {"idle", "send", "wait"}]
          /\ slips' \subseteq Workers
          /\ NoticesTrue'
          /\ \A u \in Workers : worker'[u] = "idle" => worker[u] = "idle" \/ reader.event = u
      BY <1>3, <1>5, <1>10, ConfirmTrue, Zenon
    <2>2. WriteNsr(reader.status) BY <1>10, Zenon DEF UpdateStatus
    <2>3. seen' \in Copies \cup {None} /\ nsr' = reader.status /\ CopiesTrue'
      BY <1>1, <1>3, <2>2, CopiesOld, Zenon
    <2>4. reader.status \in Statuses BY <1>1, ReaderFields, Zenon DEF TypeOK
    <2>5. ConfirmedReported' BY <2>1, <2>3, <1>5, <1>6, Zenon DEF ConfirmedReported, Agrees
    <2> QED BY <2>1, <2>3, <2>4, <2>5, Zenon
  <1>11. ASSUME UNCHANGED <<objects, worker, slips>>
         PROVE  Parts
    <2>1. CopiesTrue' BY <1>3, <1>11, CopiesFrame, Zenon DEF IInv, CopiesTrue
    <2>2. NoticesTrue' BY <1>3, <1>5, <1>11, NoticesFrame, Zenon DEF IInv
    <2>3. ConfirmedReported' BY <1>5, <1>8, <1>11, ReportedFrame, Zenon DEF objects
    <2> QED BY <2>1, <2>2, <2>3, <1>1, <1>11, Zenon DEF TypeOK, objects
  <1>12. Parts BY <1>9, <1>10, <1>11, Zenon
  <1>13. TypeOK' BY <1>1, <1>2, <1>3, <1>12, Zenon DEF TypeOK, storage, settings, scanVars
  <1> QED BY <1>4, <1>12, <1>13, FromParts, Zenon

LEMMA DeleteNsrStep ==
  ASSUME IInv, deleteNodeStorageResource
  PROVE  IInv'
  <1> USE DEF deleteNodeStorageResource
  <1>1. TypeOK BY Zenon DEF IInv
  <1>2. faults' \in 0..MaxFaults BY <1>1, FaultTyped, Zenon
  <1>3. /\ reader' \in Readers /\ reader'.pc # "update"
        /\ reader'.event = None /\ reader'.obj = None
    BY RestingTyped, Zenon
  <1>4. /\ nsr' \in Statuses \cup {None} /\ seen' \in Copies \cup {None}
        /\ CopiesTrue' /\ ConfirmedReported'
    <2>1. CASE WriteNsr(None)
      <3>1. seen' \in Copies \cup {None} /\ nsr' = None /\ CopiesTrue'
        BY <1>1, <1>3, <2>1, CopiesOld, Zenon
      <3> QED BY <3>1, ReportedBlank, Zenon
    <2>2. CASE UNCHANGED objects
      <3>1. CopiesTrue' BY <1>3, <2>2, CopiesFrame, Zenon DEF IInv, CopiesTrue
      <3>2. ConfirmedReported' BY <2>2, ReportedFrame, Zenon DEF IInv, storage, objects
      <3> QED BY <3>1, <3>2, <1>1, <2>2, Zenon DEF TypeOK, objects
    <2> QED BY <2>1, <2>2, Zenon
  <1>5. TypeOK' BY <1>1, <1>2, <1>3, <1>4, Zenon DEF TypeOK, storage, settings, scanVars
  <1>6. NoticesTrue' BY <1>3, NoticesFrame, Zenon DEF IInv
  <1>7. StatusTrue' BY <1>3, StatusFrame, Zenon DEF IInv, storage
  <1> QED BY <1>4, <1>5, <1>6, <1>7, FromParts, Zenon
-----------------------------------------------------------------------------
(* The configuration, the device scan and the process                      *)

LEMMA ConfigStep ==
  ASSUME IInv, (\E c \in Configs : dynamicConfig(c)) \/ AnnounceConfig
  PROVE  IInv'
  <1>1. TypeOK BY Zenon DEF IInv
  <1>2. config' \in Configs /\ watcher' \in BOOLEAN /\ modified' \in 0..1
        /\ changes' \in 0..MaxChanges /\ faults' \in 0..MaxFaults
    <2>1. CASE AnnounceConfig
      <3>1. config \in Configs /\ changes \in 0..MaxChanges /\ faults \in 0..MaxFaults
        BY <1>1, Zenon DEF TypeOK
      <3>2. /\ UNCHANGED <<config, changes, faults>>
            /\ watcher' = FALSE /\ modified' = 1
        BY <2>1, Zenon DEF AnnounceConfig, bounds
      <3>3. watcher' \in BOOLEAN BY <3>2, Zenon
      <3>4. modified' \in 0..1 BY <3>2
      <3> QED BY <3>1, <3>2, <3>3, <3>4, Zenon
    <2>2. ASSUME NEW c \in Configs, dynamicConfig(c)
          PROVE  config' \in Configs /\ watcher' \in BOOLEAN /\ modified' \in 0..1
                 /\ changes' \in 0..MaxChanges /\ faults' \in 0..MaxFaults
      <3>1. watcher' \in BOOLEAN BY <2>2, Zenon DEF dynamicConfig, validate
      <3>2. changes' \in 0..MaxChanges BY <2>2, <1>1, ChangeTyped, Zenon DEF dynamicConfig
      <3> QED BY <2>2, <3>1, <3>2, <1>1, Zenon DEF dynamicConfig, TypeOK
    <2> QED BY <2>1, <2>2, Zenon
  <1>3. UNCHANGED <<storage, objects, chan, reader, starter, worker, scanVars, process, slips>>
    BY Zenon DEF dynamicConfig, AnnounceConfig
  <1>4. TypeOK' BY <1>1, <1>2, <1>3, Zenon DEF TypeOK, storage, objects, scanVars
  <1>5. NoticesTrue' BY <1>3, NoticesFrame, Zenon DEF IInv
  <1>6. CopiesTrue' /\ StatusTrue' /\ ConfirmedReported' BY <1>3, RestFrame, Zenon DEF storage
  <1> QED BY <1>4, <1>5, <1>6, FromParts, Zenon

LEMMA AfterScanTyped ==
  ASSUME TypeOK, NEW by \in {"none", "start", "tick", "config"}, AfterScan(by)
  PROVE  scan' \in Scans /\ timers' \in Nat
  <1>1. ScanIdle \in Scans BY Zenon DEF ScanIdle, Scans
  <1>2. [pc |-> "tick", by |-> by] \in Scans BY Zenon DEF Scans
  <1>3. scan' \in Scans BY <1>1, <1>2, Zenon DEF AfterScan
  <1>4. timers' \in Nat BY DEF AfterScan, TypeOK
  <1> QED BY <1>3, <1>4, Zenon

LEMMA ScanTyped ==
  ASSUME TypeOK, NEW by \in {"none", "start", "tick", "config"}, addAndRemoveDevice(by)
  PROVE  /\ disk' \in BOOLEAN /\ scan' \in Scans /\ timers' \in Nat
         /\ changes' \in 0..MaxChanges /\ faults' \in 0..MaxFaults
         /\ UNCHANGED <<vols, config, watcher, objects, chan, reader, starter, worker,
                        process, slips>>
  <1>1. CASE UNCHANGED <<disk, bounds>> /\ AfterScan(by)
    BY <1>1, AfterScanTyped, Zenon DEF addAndRemoveDevice, TypeOK, bounds
  <1>2. CASE /\ disk' = ~disk /\ Change
             /\ \/ scan' = [pc |-> "lvmcheck", by |-> by] /\ UNCHANGED <<timers, faults>>
                \/ Fault /\ AfterScan(by)
    <2>1. changes' \in 0..MaxChanges BY <1>2, ChangeTyped, Zenon
    <2>2. faults' \in 0..MaxFaults BY <1>2, FaultTyped, Zenon
    <2>3. [pc |-> "lvmcheck", by |-> by] \in Scans BY Zenon DEF Scans
    <2>4. scan' \in Scans /\ timers' \in Nat BY <1>2, <2>3, AfterScanTyped, Zenon DEF TypeOK
    <2> QED BY <1>2, <2>1, <2>2, <2>4, Zenon DEF addAndRemoveDevice
  <1> QED BY <1>1, <1>2, Zenon DEF addAndRemoveDevice

LEMMA ScanStep ==
  ASSUME IInv, Scan \/ ConfigModified
  PROVE  IInv'
  <1>1. TypeOK BY Zenon DEF IInv
  <1>2. /\ disk' \in BOOLEAN /\ scan' \in Scans /\ timers' \in Nat /\ modified' \in 0..1
        /\ changes' \in 0..MaxChanges /\ faults' \in 0..MaxFaults
        /\ UNCHANGED <<vols, config, watcher, objects, chan, reader, starter, worker,
                       process, slips>>
    <2>1. CASE FirstScan BY <2>1, <1>1, ScanTyped, Zenon DEF FirstScan, TypeOK
    <2>2. CASE Tick BY <2>2, <1>1, ScanTyped, Zenon DEF Tick, TypeOK
    <2>3. CASE ConfigModified BY <2>3, <1>1, ScanTyped DEF ConfigModified
    <2>4. CASE StopScan
      <3>1. scan' \in Scans BY <2>4, Zenon DEF StopScan, ScanIdle, Scans
      <3> QED BY <2>4, <3>1, <1>1, Zenon DEF StopScan, TypeOK, storage, settings, bounds
    <2> QED BY <2>1, <2>2, <2>3, <2>4, Zenon DEF Scan
  <1>3. TypeOK' BY <1>1, <1>2, Zenon DEF TypeOK, objects
  <1>4. NoticesTrue' BY <1>2, NoticesFrame, Zenon DEF IInv
  <1>5. CopiesTrue' /\ StatusTrue' /\ ConfirmedReported' BY <1>2, RestFrame, Zenon
  <1> QED BY <1>3, <1>4, <1>5, FromParts, Zenon

LEMMA ScanNoticeStep ==
  ASSUME IInv, LvmCheckNotice \/ TickNotice \/ TimerNotice
  PROVE  IInv'
  <1>1. TypeOK BY Zenon DEF IInv
  <1>2. /\ NoticeUpdateCapacity(None)
        /\ UNCHANGED <<storage, settings, objects, reader, starter, worker, process, slips,
                       changes>>
    BY Zenon DEF LvmCheckNotice, TickNotice, TimerNotice
  <1>3. /\ chan' \in Seq(Workers \cup {None}) /\ Len(chan') <= Cap
        /\ faults' \in 0..MaxFaults
    BY <1>1, <1>2, NoticeCases, Zenon
  <1>4. scan' \in Scans /\ timers' \in Nat
    <2>1. CASE LvmCheckNotice
      <3>1. scan.by \in {"none", "start", "tick", "config"} BY <1>1, Zenon DEF TypeOK, Scans
      <3>2. AfterScan(scan.by) BY <2>1, Zenon DEF LvmCheckNotice
      <3> QED BY <3>1, <3>2, <1>1, AfterScanTyped, Zenon
    <2>2. CASE TickNotice BY <2>2, <1>1, Zenon DEF TickNotice, ScanIdle, Scans, TypeOK
    <2>3. CASE TimerNotice BY <2>3, <1>1 DEF TimerNotice, TypeOK
    <2> QED BY <2>1, <2>2, <2>3, Zenon
  <1>5. TypeOK' BY <1>1, <1>2, <1>3, <1>4, Zenon DEF TypeOK, storage, settings, objects
  <1>6. NoticesTrue' BY <1>1, <1>2, IdleNotice, Zenon DEF IInv
  <1>7. CopiesTrue' /\ StatusTrue' /\ ConfirmedReported' BY <1>2, RestFrame, Zenon DEF storage
  <1> QED BY <1>5, <1>6, <1>7, FromParts, Zenon

LEMMA StopStep ==
  ASSUME IInv, Stop
  PROVE  IInv'
  <1> USE DEF Stop
  <1>1. TypeOK BY Zenon DEF IInv
  <1>2. faults' \in 0..MaxFaults BY <1>1, FaultTyped, Zenon
  <1>3. TypeOK' BY <1>1, <1>2, Zenon DEF TypeOK, storage, settings, objects, scanVars
  <1>4. NoticesTrue' BY NoticesFrame, Zenon DEF IInv
  <1>5. CopiesTrue' /\ StatusTrue' /\ ConfirmedReported' BY RestFrame, Zenon DEF storage
  <1> QED BY <1>3, <1>4, <1>5, FromParts, Zenon

LEMMA ExitStep ==
  ASSUME IInv, Exit
  PROVE  IInv'
  <1> USE DEF Exit
  <1>1. TypeOK BY Zenon DEF IInv
  <1>2. faults' \in 0..MaxFaults BY <1>1, FaultTyped, Zenon
  <1>3. /\ reader' \in Readers /\ reader'.pc = "off"
        /\ reader'.event = None /\ reader'.obj = None
    BY RestingTyped, Zenon
  <1>4. seen' \in Copies \cup {None} /\ CopiesTrue'
    BY <1>1, <1>3, CopiesFresh, Zenon DEF IInv, CopiesTrue
  <1>5. /\ worker' \in [Workers -> {"idle", "send", "wait"}]
        /\ \A u \in Workers : worker'[u] = "idle" => worker[u] = "idle"
    BY <1>1, Zenon DEF TypeOK
  <1>6. scan' \in Scans BY Zenon DEF ScanIdle, Scans
  <1>7. chan' \in Seq(Workers \cup {None}) /\ Len(chan') = 0 OBVIOUS
  <1>8. Len(chan') <= Cap BY <1>7, CapacityNoticeAssumption
  <1>9. modified' \in 0..1 /\ timers' \in Nat OBVIOUS
  <1>10. TypeOK'
    BY <1>1, <1>2, <1>3, <1>4, <1>5, <1>6, <1>7, <1>8, <1>9, Zenon DEF TypeOK, storage
  <1>11. NoticesTrue' BY <1>3, <1>7 DEF NoticesTrue
  <1>12. StatusTrue' BY <1>3, Zenon DEF StatusTrue
  <1>13. ConfirmedReported' BY <1>5, Zenon DEF IInv, ConfirmedReported, storage
  <1> QED BY <1>4, <1>10, <1>11, <1>12, <1>13, FromParts, Zenon

\* The caches follow, in a running process or in a new one.
LEMMA SyncStep ==
  ASSUME IInv, Sync \/ Restart
  PROVE  IInv'
  <1>1. TypeOK BY Zenon DEF IInv
  <1>2. /\ seen' = CopyOf(nsr)
        /\ UNCHANGED <<storage, watcher, modified, nsr, chan, reader, starter, worker, scanVars,
                       slips, bounds>>
    BY Zenon DEF Sync, Restart, settings
  <1>3. config' \in Configs /\ process' \in {"up", "stopping", "down"}
    BY <1>1, Zenon DEF Sync, Restart, TypeOK, settings
  <1>4. seen' \in Copies \cup {None} /\ CopiesTrue'
    BY <1>1, <1>2, CopiesFresh, Zenon DEF IInv, CopiesTrue
  <1>5. TypeOK' BY <1>1, <1>2, <1>3, <1>4, Zenon DEF TypeOK, storage, scanVars, bounds
  <1>6. NoticesTrue' BY <1>2, NoticesFrame, Zenon DEF IInv
  <1>7. StatusTrue' BY <1>2, StatusFrame, Zenon DEF IInv, storage
  <1>8. ConfirmedReported' BY <1>2, ReportedFrame, Zenon DEF IInv, storage
  <1> QED BY <1>4, <1>5, <1>6, <1>7, <1>8, FromParts, Zenon

LEMMA NsrDeletedStep ==
  ASSUME IInv, NsrDeleted
  PROVE  IInv'
  <1> USE DEF NsrDeleted
  <1>1. TypeOK BY Zenon DEF IInv
  <1>2. faults' \in 0..MaxFaults BY <1>1, FaultTyped, Zenon
  <1>3. reader \in Readers BY <1>1, Zenon DEF TypeOK
  <1>4. reader.obj \in Copies \cup {None} BY <1>3, ReaderFields, Zenon
  <1> DEFINE old == Outdated(reader.obj)
  <1>5. old \in Copies \cup {None} /\ (old # None => ~old.current) /\ (old = None <=> reader.obj = None)
    BY <1>4, OldCopy, Zenon
  <1>6. reader' = [reader EXCEPT !.obj = old] OBVIOUS
  <1> HIDE DEF old
  <1>7. /\ reader' \in Readers /\ reader'.pc = reader.pc /\ reader'.event = reader.event
        /\ reader'.obj = old /\ reader'.status = reader.status
    BY <1>3, <1>5, <1>6, Zenon DEF Readers
  <1>8. seen' \in Copies \cup {None} /\ nsr' = None /\ CopiesTrue'
    BY <1>1, <1>5, <1>7, CopiesOld, Zenon
  <1>9. TypeOK' BY <1>1, <1>2, <1>7, <1>8, Zenon DEF TypeOK, storage, settings, scanVars
  <1>10. NoticesTrue' BY <1>7, NoticesFrame, Zenon DEF IInv
  <1>11. StatusTrue' BY <1>5, <1>7, Zenon DEF IInv, StatusTrue, Agrees, storage
  <1>12. ConfirmedReported' BY <1>8, ReportedBlank, Zenon
  <1> QED BY <1>8, <1>9, <1>10, <1>11, <1>12, FromParts, Zenon
-----------------------------------------------------------------------------
LEMMA InitIInv == Init => IInv
  <1> SUFFICES ASSUME Init PROVE IInv OBVIOUS
  <1> USE DEF Init
  <1>1. config \in Configs BY ConfigAssumption, Zenon
  <1>2. /\ reader \in Readers /\ reader.pc = "off"
        /\ reader.event = None /\ reader.obj = None
    BY RestingTyped, Zenon
  <1>3. scan \in Scans BY Zenon DEF ScanIdle, Scans
  <1>4. chan \in Seq(Workers \cup {None}) /\ Len(chan) = 0 OBVIOUS
  <1>5. Len(chan) <= Cap /\ changes \in 0..MaxChanges /\ faults \in 0..MaxFaults
    BY <1>4, CapacityNoticeAssumption
  <1>6. modified \in 0..1 /\ timers \in Nat OBVIOUS
  <1>7. worker \in [Workers -> {"idle", "send", "wait"}] OBVIOUS
  <1>8. TypeOK BY <1>1, <1>2, <1>3, <1>4, <1>5, <1>6, <1>7, Zenon DEF TypeOK
  <1>9. CopyTrue(seen) /\ CopyTrue(reader.obj) BY <1>2, Zenon DEF CopyTrue
  <1>10. NoticesTrue BY <1>2, <1>4 DEF NoticesTrue
  <1>11. StatusTrue /\ ConfirmedReported BY <1>2, Zenon DEF StatusTrue, ConfirmedReported
  <1> QED BY <1>8, <1>9, <1>10, <1>11, Zenon DEF IInv

LEMMA NextIInv == IInv /\ [Next]_vars => IInv'
  <1> SUFFICES ASSUME IInv, [Next]_vars PROVE IInv' OBVIOUS
  <1>1. CASE Reader
    BY <1>1, RegisterStep, ReceiveStep, CreateNsrStep, TriggerStep, GetStep, ReconcileStep, Zenon
       DEF Reader
  <1>2. CASE deleteNodeStorageResource BY <1>2, DeleteNsrStep, Zenon
  <1>3. CASE FirstTrigger BY <1>3, FirstTriggerStep, Zenon
  <1>4. CASE Scan \/ ConfigModified BY <1>4, ScanStep, Zenon
  <1>5. CASE LvmCheckNotice \/ TickNotice \/ TimerNotice BY <1>5, ScanNoticeStep, Zenon
  <1>6. CASE AnnounceConfig \/ \E c \in Configs : dynamicConfig(c) BY <1>6, ConfigStep, Zenon
  <1>7. ASSUME NEW w \in Workers, VolumeChanges(w) \/ SendNotice(w) \/ WaitTimeout(w)
        PROVE  IInv'
    BY <1>7, VolumeChangesStep, SendNoticeStep, TimeoutStep, Zenon
  <1>8. CASE Stop BY <1>8, StopStep, Zenon
  <1>9. CASE Exit BY <1>9, ExitStep, Zenon
  <1>10. CASE Restart \/ Sync BY <1>10, SyncStep, Zenon
  <1>11. CASE NsrDeleted BY <1>11, NsrDeletedStep, Zenon
  <1>12. CASE UNCHANGED vars
    <2>1. UNCHANGED <<storage, settings, objects, chan, reader, starter, worker, scanVars,
                      process, slips, bounds>>
      BY <1>12, Zenon DEF vars
    <2>2. TypeOK'
      BY <2>1, Zenon DEF IInv, TypeOK, storage, settings, objects, scanVars, bounds
    <2>3. NoticesTrue' BY <2>1, NoticesFrame, Zenon DEF IInv
    <2>4. CopiesTrue' /\ StatusTrue' /\ ConfirmedReported' BY <2>1, RestFrame, Zenon DEF storage
    <2> QED BY <2>2, <2>3, <2>4, FromParts, Zenon
  <1> QED
    BY <1>1, <1>2, <1>3, <1>4, <1>5, <1>6, <1>7, <1>8, <1>9, <1>10, <1>11, <1>12, Zenon DEF Next

LEMMA Inductive == Spec => []IInv
  BY InitIInv, NextIInv, PTL DEF Spec

\* The channel of notices never holds more than its capacity, whoever sends on
\* it, and every field keeps its type: NoticeUpdateCapacity, triggerReconcile
\* and the goroutine of Start wait for room or drop the notice.
THEOREM NoticeTyped == Spec => []TypeOK
  <1>1. IInv => TypeOK BY Zenon DEF IInv
  <1> QED BY <1>1, Inductive, PTL

\* Whoever finds a reconciler of a volume not at work finds the report right
\* about that volume, unless the reader compared with an outdated copy: over
\* dropped notices, early timeouts, failed writes, stops and crashes, for any
\* number of reconcilers and any capacity of the channel.
THEOREM ConfirmedStaysReported == Spec => []ConfirmedReported
  <1>1. IInv => ConfirmedReported BY Zenon DEF IInv
  <1> QED BY <1>1, Inductive, PTL
=============================================================================
