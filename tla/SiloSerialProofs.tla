-------------------------- MODULE SiloSerialProofs --------------------------
(***************************************************************************)
(* Committed transactions of SiloCC are serializable in the order in which *)
(* they loaded the global epoch, and their identifiers and their log       *)
(* records follow that order record by record, for any workers, records    *)
(* and procedures, as long as no identifier is the last of its epoch.      *)
(***************************************************************************)
EXTENDS SiloCCProofs, FiniteSetTheorems

-----------------------------------------------------------------------------
(* Every step is one of two that concern the serial order (LoadGE gives a  *)
(* place in it, CommitTid enters it), one of two that install a version,   *)
(* or leaves all that alone.                                               *)

\* Nobody enters the serial order, and who is in it only lets go of records.
Onward ==
  /\ UNCHANGED <<clock, stamp, history, mrctid>>
  /\ \A u \in Workers :
       /\ u \in InFlight' => /\ u \in InFlight
                             /\ writeSet'[u] = writeSet[u]
                             /\ readSet'[u] = readSet[u]
       /\ pc'[u] \in Installing => /\ pc[u] \in Installing
                                   /\ writeSet'[u] = writeSet[u]
                                   /\ Held(u)' \subseteq Held(u)

\* And nobody installs anything.
Calm ==
  /\ Onward
  /\ UNCHANGED val
  /\ \A k \in Keys : tidword'[k].tid = tidword[k].tid
  /\ \A u \in Workers :
       /\ pc[u] \in Installing => /\ Held(u)' = Held(u)
                                  /\ pc'[u] \in Installing \/ Held(u) = {}
       /\ "release" \in {pc[u], pc'[u]} => /\ pc'[u] = pc[u]
                                           /\ pending'[u] = pending[u]

\* Which steps are calm: all outside decision and installation.
LEMMA CalmActions ==
  ASSUME LInv, NEW w \in Workers,
         \/ UNCHANGED vars \/ AdvanceEpoch
         \/ EpochWork(w) \/ Begin(w) \/ ReadStep(w) \/ StartCommit(w)
         \/ \E k \in Keys : LockRecord(w, k) \/ LockFail(w, k) \/ UnlockRecord(w, k)
         \/ StoreThLocalEpoch(w) \/ ValidateRead(w) \/ ValidateFail(w)
         \/ Abort(w) \/ Wal(w) \/ EndTxn(w)
  PROVE  Calm
<1>1. TypeOK
  BY DEF LInv
<1>2. CASE UNCHANGED vars \/ AdvanceEpoch
  <2>1. UNCHANGED <<clock, stamp, history, mrctid, val, tidword, pc, writeSet,
                    readSet, pending>>
    BY <1>2 DEF vars, AdvanceEpoch, recVars, setVars, loopVars, histVars
  <2>2. \A u \in Workers : Held(u)' = Held(u)
    BY <2>1, HeldFrame
  <2> QED BY <2>1, <2>2 DEF Calm, Onward, InFlight
\* A step of w outside the installation.
<1>3. ASSUME UNCHANGED <<clock, stamp, history, mrctid, val>>,
             \A k \in Keys : tidword'[k].tid = tidword[k].tid,
             \A u \in Workers \ {w} :
               /\ pc'[u] = pc[u] /\ readSet'[u] = readSet[u]
               /\ writeSet'[u] = writeSet[u] /\ pending'[u] = pending[u]
               /\ Held(u)' = Held(u),
             pc[w] \notin Installing, pc'[w] \notin Installing,
             w \in InFlight' => /\ w \in InFlight
                                /\ writeSet'[w] = writeSet[w]
                                /\ readSet'[w] = readSet[w]
      PROVE  Calm
  BY <1>3 DEF Calm, Onward, InFlight, Installing
<1>4. CASE EpochWork(w) \/ Begin(w)
  <2>1. \A u \in Workers \ {w} :
          /\ pc'[u] = pc[u] /\ writeSet'[u] = writeSet[u]
          /\ pending'[u] = pending[u] /\ Held(u)' = Held(u)
    BY <1>1, <1>4, OthersFrame DEF QuietLock
  <2>2. /\ UNCHANGED <<clock, stamp, history, mrctid, val, tidword, readSet>>
        /\ pc[w] = "idle" /\ pc'[w] \in {"idle", "exec"}
    BY <1>1, <1>4 DEF EpochWork, Begin, Goto, recVars, setVars, histVars, TypeOK
  <2> QED BY <1>3, <2>1, <2>2 DEF InFlight, Installing
<1>5. CASE ReadStep(w)
  <2>1. \A u \in Workers \ {w} :
          /\ pc'[u] = pc[u] /\ writeSet'[u] = writeSet[u]
          /\ pending'[u] = pending[u] /\ Held(u)' = Held(u)
    BY <1>1, <1>5, OthersFrame DEF QuietLock
  <2>2. /\ UNCHANGED <<clock, stamp, history, mrctid, val, tidword>>
        /\ \A u \in Workers \ {w} : readSet'[u] = readSet[u]
        /\ {pc[w], pc'[w]} \subseteq {"exec", "copy", "check"}
    BY <1>1, <1>5 DEF ReadStep, LocalOp, ReadLoad, ReadCopy, ReadDone,
       ReadRetry, Executing, Goto, recVars, setVars, histVars, TypeOK
  <2> QED BY <1>3, <2>1, <2>2 DEF InFlight, Installing
<1>6. CASE StartCommit(w) \/ StoreThLocalEpoch(w)
  <2>1. \A u \in Workers \ {w} :
          /\ pc'[u] = pc[u] /\ writeSet'[u] = writeSet[u]
          /\ pending'[u] = pending[u] /\ Held(u)' = Held(u)
    BY <1>1, <1>6, OthersFrame DEF QuietLock
  <2>2. /\ UNCHANGED <<clock, stamp, history, mrctid, val, tidword, setVars>>
        /\ <<pc[w], pc'[w]>> \in {<<"exec", "lock">>, <<"storeGE", "validate">>}
    BY <1>1, <1>6 DEF StartCommit, StoreThLocalEpoch, Goto, recVars, histVars,
       TypeOK
  <2> QED BY <1>3, <2>1, <2>2 DEF InFlight, Installing, setVars
<1>7. CASE ValidateRead(w) \/ ValidateFail(w) \/ Abort(w)
  <2>1. \A u \in Workers \ {w} :
          /\ pc'[u] = pc[u] /\ writeSet'[u] = writeSet[u]
          /\ pending'[u] = pending[u] /\ Held(u)' = Held(u)
    BY <1>1, <1>7, OthersFrame DEF QuietLock
  <2>2. /\ UNCHANGED <<clock, stamp, history, mrctid, val, tidword>>
        /\ \A u \in Workers \ {w} : readSet'[u] = readSet[u]
        /\ \/ pc[w] = "validate" /\ pc'[w] = "validate" /\ UNCHANGED setVars
           \/ pc[w] = "validate" /\ pc'[w] = "unlock"
           \/ pc[w] = "unlock" /\ pc'[w] = "idle"
    BY <1>1, <1>7 DEF ValidateRead, ValidateFail, Validating, Abort, Goto,
       recVars, setVars, histVars, TypeOK
  <2> QED BY <1>3, <2>1, <2>2 DEF InFlight, Installing, setVars
<1>8. ASSUME NEW k \in Keys,
             LockRecord(w, k) \/ LockFail(w, k) \/ UnlockRecord(w, k)
      PROVE  Calm
  <2>1. \A u \in Workers \ {w} :
          /\ pc'[u] = pc[u] /\ writeSet'[u] = writeSet[u]
          /\ pending'[u] = pending[u] /\ Held(u)' = Held(u)
    BY <1>1, <1>8, OthersFrame DEF QuietLock
  <2>2. /\ UNCHANGED <<clock, stamp, history, mrctid, val, readSet>>
        /\ {pc[w], pc'[w]} \subseteq {"lock", "unlock"}
    BY <1>1, <1>8 DEF LockRecord, LockFail, UnlockRecord, Goto, recVars,
       setVars, histVars, TypeOK
  <2>3. \A j \in Keys : tidword'[j].tid = tidword[j].tid
    BY <1>1, <1>8, TidKept DEF LockFail, recVars
  <2> QED BY <1>3, <2>1, <2>2, <2>3 DEF InFlight, Installing
<1>9. CASE Wal(w) \/ EndTxn(w)
  <2>1. \A u \in Workers \ {w} :
          /\ pc'[u] = pc[u] /\ writeSet'[u] = writeSet[u]
          /\ pending'[u] = pending[u] /\ Held(u)' = Held(u)
    BY <1>1, <1>9, OthersFrame DEF QuietLock
  <2>2. Held(w)' = Held(w)
    BY <1>9, QuietLockStep DEF QuietLock, LInv
  <2>3. /\ UNCHANGED <<clock, stamp, history, mrctid, val, tidword>>
        /\ \A u \in Workers \ {w} : readSet'[u] = readSet[u]
        /\ \/ pc[w] = "wal" /\ pc'[w] = "write" /\ UNCHANGED setVars
           \/ pc[w] = "write" /\ pc'[w] = "idle" /\ Held(w) = {}
    BY <1>1, <1>9 DEF Wal, EndTxn, Goto, recVars, setVars, histVars, TypeOK,
       Held
  <2> QED BY <2>1, <2>2, <2>3 DEF Calm, Onward, InFlight, Installing, setVars
<1> QED
  BY <1>2, <1>4, <1>5, <1>6, <1>7, <1>8, <1>9

\* The two steps of the serial order.
LEMMA LoadGEAdds ==
  ASSUME TypeOK, LoopInv, NEW w \in Workers, LoadGE(w)
  PROVE  /\ UNCHANGED <<history, mrctid, val, tidword, writeSet, readSet, log,
                        pending>>
         /\ clock' = clock + 1 /\ stamp'[w] = clock + 1
         /\ pc[w] = "lock" /\ pc'[w] = "storeGE"
         /\ \A u \in Workers \ {w} : stamp'[u] = stamp[u] /\ pc'[u] = pc[u]
         /\ \A u \in Workers : Held(u)' = Held(u)
<1>1. \A u \in Workers : Held(u)' = Held(u)
  BY QuietLockStep, OthersFrame DEF QuietLock
<1> QED
  BY <1>1 DEF LoadGE, Goto, recVars, setVars, loopVars, TypeOK

\* t is the transaction worker w is committing.
IsCommitOf(t, w) ==
  /\ t.worker = w /\ t.stamp = stamp[w]
  /\ t.tid = mrctid[w] /\ t.writes = writeSet[w]

\* A decision adds one transaction to the history, with the reads of its worker.
LEMMA CommitAdds ==
  ASSUME TypeOK, LoopInv, NEW w \in Workers, CommitTid(w)
  PROVE  /\ \E t : /\ history' = history \cup {t}
                   /\ t.reads = readSet[w] /\ t.stamp = stamp[w]
                   /\ IsCommitOf(t, w)'
         /\ UNCHANGED <<clock, stamp, val, tidword, writeSet, readSet, log,
                        pending>>
         /\ pc[w] = "validate" /\ pc'[w] = "wal" /\ Held(w) = writeSet[w]
         /\ vidx[w] = Len(readSet[w]) + 1
         /\ \A u \in Workers \ {w} : mrctid'[u] = mrctid[u] /\ pc'[u] = pc[u]
         /\ \A u \in Workers : Held(u)' = Held(u)
<1>1. \A u \in Workers : Held(u)' = Held(u)
  BY QuietLockStep, OthersFrame DEF QuietLock
<1>2. /\ UNCHANGED <<clock, stamp, val, tidword, writeSet, readSet, log,
                     pending>>
      /\ pc[w] = "validate" /\ pc'[w] = "wal"
      /\ vidx[w] = Len(readSet[w]) + 1
      /\ \A u \in Workers \ {w} : mrctid'[u] = mrctid[u] /\ pc'[u] = pc[u]
  BY DEF CommitTid, Goto, recVars, setVars, loopVars, TypeOK
<1>3. PICK t : /\ history' = history \cup {t}
               /\ t = [worker |-> w, stamp |-> stamp[w],
                       epoch |-> CommitEpoch(w), tid |-> mrctid'[w],
                       reads |-> readSet[w], writes |-> writeSet[w]]
  BY DEF CommitTid, TypeOK
<1>4. t.reads = readSet[w] /\ t.stamp = stamp[w] /\ IsCommitOf(t, w)'
  BY <1>2, <1>3 DEF IsCommitOf
<1>5. Held(w) = writeSet[w]
  BY <1>2 DEF Held
<1> QED
  BY <1>1, <1>2, <1>3, <1>4, <1>5

\* The two steps of an installation.
LEMMA InstallValDoes ==
  ASSUME LInv, NEW w \in Workers, NEW k \in Keys, InstallVal(w, k)
  PROVE  /\ Onward
         /\ UNCHANGED <<tidword, pending, log, writeSet, readSet>>
         /\ val'[k] = w /\ \A j \in Keys \ {k} : val'[j] = val[j]
         /\ pc[w] = "write" /\ pc'[w] = "release" /\ IsNext(w, k)
         /\ \A u \in Workers \ {w} : pc'[u] = pc[u]
         /\ \A u \in Workers : Held(u)' = Held(u)
<1>1. \A u \in Workers : Held(u)' = Held(u)
  BY QuietLockStep, OthersFrame DEF QuietLock, LInv
<1>2. /\ UNCHANGED <<clock, stamp, history, mrctid, tidword, pending, log,
                     writeSet, readSet>>
      /\ val'[k] = w /\ \A j \in Keys \ {k} : val'[j] = val[j]
      /\ pc[w] = "write" /\ pc'[w] = "release" /\ IsNext(w, k)
      /\ \A u \in Workers \ {w} : pc'[u] = pc[u]
  BY DEF InstallVal, Goto, setVars, loopVars, histVars, LInv, TypeOK
<1> QED
  BY <1>1, <1>2 DEF Onward, InFlight, Installing

\* Installing an identifier changes the word of one held record and releases it.
LEMMA InstallTidDoes ==
  ASSUME LInv, NEW w \in Workers, NEW k \in Keys, InstallTid(w, k)
  PROVE  /\ Onward
         /\ UNCHANGED <<val, log, writeSet, readSet>>
         /\ tidword'[k].tid = mrctid[w]
         /\ \A j \in Keys \ {k} : tidword'[j] = tidword[j]
         /\ pc[w] = "release" /\ pc'[w] = "write" /\ IsNext(w, k)
         /\ k \in Held(w) /\ Held(w)' = Held(w) \ {k}
         /\ \A u \in Workers \ {w} : /\ pc'[u] = pc[u] /\ Held(u)' = Held(u)
                                     /\ pending'[u] = pending[u]
<1>1. /\ \A u \in Workers \ {w} : /\ pc'[u] = pc[u] /\ Held(u)' = Held(u)
                                  /\ pending'[u] = pending[u]
      /\ k \in Held(w) /\ Held(w)' = Held(w) \ {k}
      /\ tidword'[k].tid = mrctid[w]
      /\ \A j \in Keys \ {k} : tidword'[j] = tidword[j]
  BY LockDropped, OthersFrame DEF LInv
<1>2. /\ UNCHANGED <<clock, stamp, history, mrctid, val, log, writeSet, readSet>>
      /\ pc[w] = "release" /\ pc'[w] = "write" /\ IsNext(w, k)
  BY DEF InstallTid, Goto, setVars, histVars, LInv, TypeOK
<1> QED
  BY <1>1, <1>2 DEF Onward, InFlight, Installing

\* Every step is calm, a serialization point, a decision or an installation.
LEMMA SerialKinds ==
  ASSUME LInv, [Next]_vars
  PROVE  \/ Calm
         \/ \E w \in Workers : LoadGE(w) \/ CommitTid(w)
         \/ \E w \in Workers, k \in Keys : InstallVal(w, k) \/ InstallTid(w, k)
<1>1. CASE UNCHANGED vars \/ AdvanceEpoch
  BY <1>1, CalmActions, LeaderAssumption
<1>2. ASSUME NEW w \in Workers, EpochWork(w) \/ Begin(w) \/ TxnStep(w)
      PROVE  \/ Calm
             \/ LoadGE(w) \/ CommitTid(w)
             \/ \E k \in Keys : InstallVal(w, k) \/ InstallTid(w, k)
  BY <1>2, CalmActions DEF TxnStep, ValidationStep, WriteStep
<1> QED
  BY <1>1, <1>2 DEF Next

\* All but serialization points and decisions leave the serial order alone.
LEMMA OnwardKinds ==
  ASSUME LInv, [Next]_vars
  PROVE  Onward \/ \E w \in Workers : LoadGE(w) \/ CommitTid(w)
BY SerialKinds, InstallValDoes, InstallTidDoes DEF Calm

-----------------------------------------------------------------------------
(* The serial points, and the transactions that are being installed.       *)

\* Serial points are handed out once.
StampInv ==
  /\ \A t \in history : t.stamp <= clock
  /\ \A t, u \in history : t.stamp = u.stamp => t = u
  /\ \A w \in InFlight :
       /\ stamp[w] <= clock
       /\ \A t \in history : t.stamp # stamp[w]
       /\ \A u \in InFlight : stamp[u] = stamp[w] => u = w

\* From its identifier to its last record, a worker installs a transaction
\* of the history.
InstallInv ==
  \A w \in Workers : pc[w] \in Installing =>
    /\ Held(w) \subseteq writeSet[w]
    /\ \E t \in history : IsCommitOf(t, w)

\* Places in the serial order stay distinct and below the clock.
LEMMA StampStep ==
  ASSUME TypeOK, LInv, StampInv, [Next]_vars
  PROVE  StampInv'
<1>1. /\ clock \in Nat /\ stamp \in [Workers -> Nat]
      /\ \A t \in history : t.stamp \in Nat
  BY DEF TypeOK, Committed
<1>2. CASE Onward
  BY <1>2 DEF Onward, StampInv, InFlight
<1>3. ASSUME NEW w \in Workers, LoadGE(w) PROVE StampInv'
  <2>1. /\ history' = history /\ clock' = clock + 1 /\ stamp'[w] = clock + 1
        /\ \A u \in Workers \ {w} : stamp'[u] = stamp[u] /\ pc'[u] = pc[u]
        /\ pc'[w] = "storeGE"
    BY <1>3, LoadGEAdds DEF LInv
  <2>2. InFlight' = InFlight \cup {w}
    BY <2>1 DEF InFlight
  <2>3. /\ \A t \in history : t.stamp <= clock
        /\ \A u \in InFlight : stamp[u] <= clock /\ u \in Workers
    BY DEF StampInv, InFlight
  <2>4. \A u \in InFlight \ {w} : stamp'[u] = stamp[u] /\ stamp[u] <= clock
    BY <2>1, <2>3
  <2> QED BY <1>1, <2>1, <2>2, <2>3, <2>4 DEF StampInv
<1>4. ASSUME NEW w \in Workers, CommitTid(w) PROVE StampInv'
  <2>1. PICK t : history' = history \cup {t} /\ t.stamp = stamp[w]
    BY <1>4, CommitAdds DEF LInv
  <2>2. /\ UNCHANGED <<clock, stamp>>
        /\ \A u \in Workers \ {w} : pc'[u] = pc[u]
        /\ pc[w] = "validate" /\ pc'[w] = "wal"
    BY <1>4, CommitAdds DEF LInv
  <2>3. w \in InFlight /\ InFlight' = InFlight \ {w}
    BY <2>2 DEF InFlight
  <2> QED BY <2>1, <2>2, <2>3 DEF StampInv
<1> QED
  BY <1>2, <1>3, <1>4, OnwardKinds

\* What a worker installs remains a transaction of the history.
LEMMA InstallStep ==
  ASSUME TypeOK, LInv, InstallInv, [Next]_vars
  PROVE  InstallInv'
<1>1. CASE Onward
  BY <1>1 DEF Onward, InstallInv, IsCommitOf
<1>2. ASSUME NEW w \in Workers, LoadGE(w) PROVE InstallInv'
  <2>1. /\ UNCHANGED <<history, mrctid, writeSet>>
        /\ pc'[w] = "storeGE"
        /\ \A u \in Workers \ {w} : stamp'[u] = stamp[u] /\ pc'[u] = pc[u]
        /\ \A u \in Workers : Held(u)' = Held(u)
    BY <1>2, LoadGEAdds DEF LInv
  <2> QED BY <2>1 DEF InstallInv, IsCommitOf, Installing
<1>3. ASSUME NEW w \in Workers, CommitTid(w) PROVE InstallInv'
  <2>1. PICK t : history' = history \cup {t} /\ IsCommitOf(t, w)'
    BY <1>3, CommitAdds DEF LInv
  <2>2. /\ UNCHANGED <<stamp, writeSet>>
        /\ \A u \in Workers \ {w} : mrctid'[u] = mrctid[u] /\ pc'[u] = pc[u]
        /\ Held(w) = writeSet[w]
        /\ \A u \in Workers : Held(u)' = Held(u)
    BY <1>3, CommitAdds DEF LInv
  <2> QED BY <2>1, <2>2 DEF InstallInv, IsCommitOf
<1> QED
  BY <1>1, <1>2, <1>3, OnwardKinds

-----------------------------------------------------------------------------
(* The versions of a record.                                               *)

\* The workers that have a place in the serial order.
Serialized == {w \in Workers : w \in InFlight \/ pc[w] \in Installing}

\* Whoever holds a record is serialized after everyone who has written it.
BeforeInv ==
  \A w \in Serialized : \A k \in Held(w) : \A t \in WritersOf(k) :
    t.stamp <= stamp[w]

\* The writers of k whose version is in the table already, or was.
InProgress(t, k) ==
  \E w \in Workers : pc[w] \in Installing /\ k \in Held(w) /\ stamp[w] = t.stamp
Installed(k) == {t \in WritersOf(k) : ~InProgress(t, k)}

\* The identifier of a record is that of the last of them.
Latest(k) ==
  \/ Installed(k) = {} /\ tidword[k].tid = InitTid
  \/ \E u \in Installed(k) : /\ u.tid = tidword[k].tid
                             /\ \A v \in Installed(k) : v.stamp <= u.stamp

ChainInv ==
  /\ \A k \in Keys : Latest(k) /\ \A t \in WritersOf(k) : TidLess(InitTid, t.tid)
  /\ BeforeInv
  /\ VersionOrder

\* The fields of a committed transaction.
LEMMA HistoryType ==
  ASSUME TypeOK, NEW t \in history
  PROVE  /\ t.worker \in Workers /\ t.stamp \in Nat /\ t.tid \in Tid
         /\ t.reads \in Seq(ReadElement) /\ t.writes \subseteq Keys
BY DEF TypeOK, Committed

\* Of two versions of one record the later one has the larger identifier, and
\* an identifier names one of them.
LEMMA VersionsOrdered ==
  ASSUME TypeOK, StampInv, VersionOrder, NEW k,
         NEW u \in WritersOf(k), NEW v \in WritersOf(k)
  PROVE  /\ v.stamp <= u.stamp => TidLeq(v.tid, u.tid)
         /\ v.tid = u.tid => v = u
<1>1. /\ u \in history /\ v \in history /\ k \in u.writes \cap v.writes
      /\ u.stamp \in Nat /\ v.stamp \in Nat /\ u.tid \in Tid /\ v.tid \in Tid
  BY HistoryType DEF WritersOf
<1>2. /\ u.stamp < v.stamp => TidLess(u.tid, v.tid)
      /\ v.stamp < u.stamp => TidLess(v.tid, u.tid)
      /\ u.stamp = v.stamp => u = v
  BY <1>1 DEF VersionOrder, StampInv
<1> QED
  BY <1>1, <1>2, TidLessTotal DEF TidLeq

\* The identifier in the table bounds those of the installed versions.
LEMMA TableBound ==
  ASSUME TypeOK, StampInv, ChainInv, NEW k \in Keys
  PROVE  /\ tidword[k].tid \in Tid
         /\ TidLeq(InitTid, tidword[k].tid)
         /\ \A v \in Installed(k) : TidLeq(v.tid, tidword[k].tid)
<1>1. Latest(k) /\ \A t \in WritersOf(k) : TidLess(InitTid, t.tid)
  BY DEF ChainInv
<1>2. Installed(k) \subseteq WritersOf(k)
  BY DEF Installed
<1>3. tidword[k].tid \in Tid
  BY DEF TypeOK
<1>4. CASE Installed(k) = {} /\ tidword[k].tid = InitTid
  BY <1>3, <1>4 DEF TidLeq
<1>5. ASSUME NEW u \in Installed(k), u.tid = tidword[k].tid,
             \A v \in Installed(k) : v.stamp <= u.stamp
      PROVE  /\ TidLeq(InitTid, tidword[k].tid)
             /\ \A v \in Installed(k) : TidLeq(v.tid, tidword[k].tid)
  BY <1>1, <1>2, <1>5, VersionsOrdered DEF ChainInv, TidLeq
<1> QED
  BY <1>1, <1>3, <1>4, <1>5 DEF Latest

\* Which writers of a record count as installed depends on who holds it.
LEMMA InstalledFrame ==
  ASSUME NEW k, history' = history,
         \A u \in Workers :
           /\ pc'[u] \in Installing /\ k \in Held(u)'
                <=> pc[u] \in Installing /\ k \in Held(u)
           /\ pc[u] \in Installing => stamp'[u] = stamp[u]
  PROVE  Installed(k)' = Installed(k)
<1>1. WritersOf(k)' = WritersOf(k)
  BY DEF WritersOf
<1>2. \A t : InProgress(t, k)' <=> InProgress(t, k)
  BY DEF InProgress
<1> QED
  BY <1>1, <1>2 DEF Installed

\* The latest installed writer stays so while nobody installs.
LEMMA LatestFrame ==
  ASSUME NEW k, Latest(k), Installed(k)' = Installed(k),
         tidword'[k].tid = tidword[k].tid
  PROVE  Latest(k)'
BY DEF Latest

\* Nobody is installing a record that a worker has locked to commit.
LEMMA HeldInstalled ==
  ASSUME LInv, NEW w \in Workers, NEW k \in Held(w), pc[w] \notin Installing
  PROVE  Installed(k) = WritersOf(k)
BY DEF LInv, LockInv, Installed, InProgress

\* Writers of one record enter the serial order in the order of their locks.
LEMMA BeforeStep ==
  ASSUME TypeOK, LInv, StampInv, BeforeInv, [Next]_vars
  PROVE  BeforeInv'
<1>1. /\ clock \in Nat /\ stamp \in [Workers -> Nat]
      /\ \A t \in history : t.stamp \in Nat
  BY DEF TypeOK, Committed
<1>2. CASE Onward
  <2>1. ASSUME NEW u \in Serialized'
        PROVE  u \in Serialized /\ Held(u)' \subseteq Held(u)
    BY <1>2 DEF Onward, Serialized, InFlight, Installing, Held
  <2>2. UNCHANGED <<stamp, history>>
    BY <1>2 DEF Onward
  <2> QED BY <2>1, <2>2 DEF BeforeInv, WritersOf
<1>3. ASSUME NEW w \in Workers, LoadGE(w) PROVE BeforeInv'
  <2>1. /\ history' = history /\ stamp'[w] = clock + 1
        /\ pc'[w] = "storeGE"
        /\ \A u \in Workers \ {w} : stamp'[u] = stamp[u] /\ pc'[u] = pc[u]
        /\ \A u \in Workers : Held(u)' = Held(u)
    BY <1>3, LoadGEAdds DEF LInv
  <2>2. \A t \in history : t.stamp <= stamp'[w]
    BY <1>1, <2>1 DEF StampInv
  <2>3. Serialized' \subseteq Serialized \cup {w} /\ Serialized \subseteq Workers
    BY <2>1 DEF Serialized, InFlight
  <2> QED BY <2>1, <2>2, <2>3 DEF BeforeInv, WritersOf
<1>4. ASSUME NEW w \in Workers, CommitTid(w) PROVE BeforeInv'
  <2>1. PICK t : /\ history' = history \cup {t} /\ t.stamp = stamp[w]
                 /\ IsCommitOf(t, w)'
    BY <1>4, CommitAdds DEF LInv
  <2>2. /\ UNCHANGED <<stamp, writeSet>> /\ Held(w) = writeSet[w]
        /\ pc[w] = "validate"
        /\ \A u \in Workers \ {w} : pc'[u] = pc[u]
        /\ \A u \in Workers : Held(u)' = Held(u)
    BY <1>4, CommitAdds DEF LInv
  <2>3. t.writes = Held(w)
    BY <2>1, <2>2 DEF IsCommitOf
  <2>4. Serialized' \subseteq Serialized
    BY <2>2 DEF Serialized, InFlight
  <2> SUFFICES ASSUME NEW u \in Serialized', NEW k \in Held(u)',
                      NEW v \in WritersOf(k)'
               PROVE  v.stamp <= stamp[u]
    BY <2>2 DEF BeforeInv
  <2>5. u \in Workers /\ u \in Serialized /\ k \in Held(u)
    BY <2>2, <2>4 DEF Serialized
  <2>6. CASE v \in history
    BY <2>5, <2>6 DEF BeforeInv, WritersOf
  <2>7. CASE v = t
    <3>1. k \in Held(w)
      BY <2>3, <2>7 DEF WritersOf
    <3>2. u = w
      BY <2>5, <3>1 DEF LInv, LockInv
    <3> QED BY <1>1, <2>1, <2>7, <3>2
  <2> QED BY <2>1, <2>6, <2>7 DEF WritersOf
<1> QED
  BY <1>2, <1>3, <1>4, OnwardKinds

\* The word of a record stays that of its latest installed writer.
LEMMA ChainStep ==
  ASSUME TypeOK, TypeOK', LInv, TidInv, TidRoom, StampInv, InstallInv,
         ChainInv, [Next]_vars
  PROVE  ChainInv'
<1> USE DEF WritersOf
<1>1. /\ BeforeInv' /\ BeforeInv /\ VersionOrder
      /\ \A k \in Keys : Latest(k) /\ \A t \in WritersOf(k) : TidLess(InitTid, t.tid)
  BY BeforeStep DEF ChainInv
\* No transaction enters the history.
<1>2. ASSUME history' = history, \A k \in Keys : Latest(k)' PROVE ChainInv'
  BY <1>1, <1>2 DEF ChainInv, VersionOrder
<1>3. CASE Calm
  <2>1. ASSUME NEW k \in Keys PROVE Installed(k)' = Installed(k)
    BY <1>3, InstalledFrame DEF Calm, Onward
  <2> QED BY <1>1, <1>2, <1>3, <2>1, LatestFrame DEF Calm, Onward
<1>4. ASSUME NEW w \in Workers, LoadGE(w) PROVE ChainInv'
  <2>1. /\ UNCHANGED <<history, tidword>>
        /\ pc[w] \notin Installing /\ pc'[w] \notin Installing
        /\ \A u \in Workers \ {w} : stamp'[u] = stamp[u] /\ pc'[u] = pc[u]
        /\ \A u \in Workers : Held(u)' = Held(u)
    BY <1>4, LoadGEAdds DEF LInv, Installing
  <2>2. ASSUME NEW k \in Keys PROVE Installed(k)' = Installed(k)
    BY <2>1, InstalledFrame
  <2> QED BY <1>1, <1>2, <2>1, <2>2, LatestFrame
<1>5. ASSUME NEW w \in Workers, NEW k \in Keys, InstallVal(w, k)
      PROVE  ChainInv'
  <2>1. /\ UNCHANGED <<history, tidword, stamp>>
        /\ pc[w] \in Installing /\ pc'[w] \in Installing
        /\ \A u \in Workers \ {w} : pc'[u] = pc[u]
        /\ \A u \in Workers : Held(u)' = Held(u)
    BY <1>5, InstallValDoes DEF Onward, Installing
  <2>2. ASSUME NEW j \in Keys PROVE Installed(j)' = Installed(j)
    BY <2>1, InstalledFrame
  <2> QED BY <1>1, <1>2, <2>1, <2>2, LatestFrame
<1>6. ASSUME NEW w \in Workers, NEW k \in Keys, InstallTid(w, k)
      PROVE  ChainInv'
  <2>1. /\ UNCHANGED <<history, stamp>>
        /\ tidword'[k].tid = mrctid[w]
        /\ \A j \in Keys \ {k} : tidword'[j] = tidword[j]
        /\ pc[w] \in Installing /\ pc'[w] \in Installing
        /\ k \in Held(w) /\ Held(w)' = Held(w) \ {k}
        /\ \A u \in Workers \ {w} : pc'[u] = pc[u] /\ Held(u)' = Held(u)
    BY <1>6, InstallTidDoes DEF Onward, Installing
  <2>2. ASSUME NEW j \in Keys \ {k} PROVE Latest(j)'
    <3>1. Installed(j)' = Installed(j)
      BY <2>1, InstalledFrame
    <3> QED BY <1>1, <2>1, <3>1, LatestFrame
  <2>3. Latest(k)'
    <3>1. \A u \in Workers : k \notin Held(u)'
      BY <2>1 DEF LInv, LockInv
    <3>2. Installed(k)' = WritersOf(k)
      BY <2>1, <3>1 DEF Installed, InProgress
    <3>3. PICK t \in history : IsCommitOf(t, w)
      BY <2>1 DEF InstallInv
    <3>4. t \in WritersOf(k) /\ t.tid = mrctid[w] /\ t.stamp = stamp[w]
      BY <2>1, <3>3 DEF InstallInv, IsCommitOf
    <3>5. \A v \in WritersOf(k) : v.stamp <= t.stamp
      BY <1>1, <2>1, <3>4 DEF BeforeInv, Serialized
    <3> QED BY <2>1, <3>2, <3>4, <3>5 DEF Latest
  <2> QED BY <1>2, <2>1, <2>2, <2>3
<1>7. ASSUME NEW w \in Workers, CommitTid(w) PROVE ChainInv'
  <2>1. PICK t : /\ history' = history \cup {t} /\ t.stamp = stamp[w]
                 /\ IsCommitOf(t, w)'
    BY <1>7, CommitAdds DEF LInv
  <2>2. /\ UNCHANGED <<stamp, writeSet, tidword>> /\ Held(w) = writeSet[w]
        /\ pc[w] = "validate" /\ pc'[w] = "wal"
        /\ \A u \in Workers \ {w} : pc'[u] = pc[u]
        /\ \A u \in Workers : Held(u)' = Held(u)
    BY <1>7, CommitAdds DEF LInv
  <2>3. /\ t.writes = Held(w) /\ t.tid = mrctid'[w]
        /\ Held(w) \subseteq Keys
    BY <2>1, <2>2 DEF IsCommitOf, TypeOK
  <2>4. \A v \in history : v.stamp # t.stamp
    BY <2>1, <2>2 DEF StampInv, InFlight
  <2>5. ASSUME NEW k \in Keys PROVE Installed(k)' = Installed(k)
    <3>1. CASE k \in Held(w)
      <4>1. \A u \in Workers : k \in Held(u) => u = w
        BY <3>1 DEF LInv, LockInv
      <4>2. WritersOf(k)' = WritersOf(k) \cup {t}
        BY <2>1, <2>3, <3>1
      <4>3. Installed(k) = WritersOf(k)
        BY <2>2, <3>1, HeldInstalled DEF Installing
      <4>4. InProgress(t, k)'
        BY <2>1, <2>2, <3>1 DEF InProgress, Installing
      <4>5. \A v \in WritersOf(k) : ~InProgress(v, k)'
        BY <2>1, <2>2, <2>4, <4>1 DEF InProgress
      <4> QED BY <4>2, <4>3, <4>4, <4>5 DEF Installed
    <3>2. CASE k \notin Held(w)
      <4>1. WritersOf(k)' = WritersOf(k)
        BY <2>1, <2>3, <3>2
      <4>2. \A v : InProgress(v, k)' <=> InProgress(v, k)
        BY <2>2, <3>2 DEF InProgress
      <4> QED BY <4>1, <4>2 DEF Installed
    <3> QED BY <3>1, <3>2
  <2>6. ASSUME NEW k \in Held(w), NEW v \in WritersOf(k)
        PROVE  TidLess(v.tid, t.tid) /\ v.stamp <= t.stamp
    <3>1. TidLeq(v.tid, tidword[k].tid) /\ tidword[k].tid \in Tid
      BY <2>2, <2>3, TableBound, HeldInstalled DEF Installing
    <3>2. TidLess(tidword[k].tid, t.tid) /\ t.tid \in Tid
      BY <1>7, <2>3, CommitAbove DEF TypeOK
    <3>3. v.stamp <= t.stamp
      BY <1>1, <2>1, <2>2 DEF BeforeInv, Serialized, InFlight
    <3>4. v.tid \in Tid
      BY HistoryType
    <3> QED BY <3>1, <3>2, <3>3, <3>4, TidLessTransitive DEF TidLeq
  <2>7. ASSUME NEW k \in Held(w)
        PROVE  TidLess(InitTid, t.tid)
    <3>1. TidLeq(InitTid, tidword[k].tid) /\ tidword[k].tid \in Tid
      BY <2>3, TableBound
    <3>2. TidLess(tidword[k].tid, t.tid) /\ t.tid \in Tid
      BY <1>7, <2>3, CommitAbove DEF TypeOK
    <3> QED BY <3>1, <3>2, InitialTids, TidLessTransitive DEF TidLeq
  <2>8. \A k \in Keys : Latest(k)'
    BY <1>1, <2>2, <2>5, LatestFrame
  <2>9. \A k \in Keys : \A v \in WritersOf(k)' : TidLess(InitTid, v.tid)
    BY <1>1, <2>1, <2>3, <2>7
  <2>10. VersionOrder'
    <3> SUFFICES ASSUME NEW v \in history', NEW u \in history',
                        v.stamp < u.stamp, NEW k \in v.writes \cap u.writes
                 PROVE  TidLess(v.tid, u.tid)
      BY DEF VersionOrder
    <3>1. v.stamp \in Nat /\ u.stamp \in Nat
      BY DEF TypeOK, Committed
    <3>2. CASE v \in history /\ u \in history
      BY <1>1, <3>2 DEF VersionOrder
    <3>3. CASE v \in history /\ u = t
      BY <2>3, <2>6, <3>3
    <3>4. CASE v = t /\ u \in history
      BY <2>3, <2>6, <3>1, <3>4
    <3>5. CASE v = t /\ u = t
      BY <3>1, <3>5
    <3> QED BY <2>1, <3>2, <3>3, <3>4, <3>5
  <2> QED BY <1>1, <2>8, <2>9, <2>10 DEF ChainInv
<1> QED
  BY <1>3, <1>4, <1>5, <1>6, <1>7, SerialKinds

SerialBase == StampInv /\ InstallInv /\ ChainInv

\* The history is empty at first.
LEMMA InitBase == Init => SerialBase
<1> SUFFICES ASSUME Init PROVE SerialBase
  OBVIOUS
<1>1. /\ history = {} /\ clock = 0 /\ InFlight = {} /\ Serialized = {}
      /\ \A w \in Workers : pc[w] = "idle"
      /\ \A k \in Keys : tidword[k].tid = InitTid
  BY DEF Init, InFlight, Serialized, Installing
<1>2. StampInv /\ InstallInv /\ BeforeInv /\ VersionOrder
  BY <1>1 DEF StampInv, InstallInv, Installing, BeforeInv, VersionOrder
<1>3. \A k : WritersOf(k) = {} /\ Installed(k) = {}
  BY <1>1 DEF Installed, WritersOf
<1> QED
  BY <1>1, <1>2, <1>3 DEF SerialBase, ChainInv, Latest

\* The first half of the serial invariant, of every behaviour with room.
LEMMA BaseInvariant ==
  Spec /\ []TidRoom => [](TypeOK /\ LInv /\ TidInv /\ SerialBase)
<1>1. TypeOK /\ TypeOK' /\ LInv /\ TidInv /\ TidRoom /\ SerialBase /\ [Next]_vars
        => SerialBase'
  BY StampStep, InstallStep, ChainStep DEF SerialBase
<1>2. LInv => TypeOK
  BY DEF LInv
<1> QED
  BY <1>1, <1>2, InitBase, TidInvariant, PTL DEF Spec

\* The identifiers of the transactions that write a record grow in the serial
\* order: the largest identifier in a log is the last write.
THEOREM VersionsFollowSerialOrder == Spec /\ []TidRoom => []VersionOrder
<1>1. SerialBase => VersionOrder
  BY DEF SerialBase, ChainInv
<1> QED
  BY <1>1, BaseInvariant, PTL

-----------------------------------------------------------------------------
(* What a reader may find in a record.                                     *)

\* A payload and an identifier that belong together.
Version(k, tid, v) ==
  \/ tid = InitTid /\ v = NoWorker
  \/ \E u \in WritersOf(k) : u.tid = tid /\ u.worker = v

\* Worker u has stored its payload in k, and not yet its identifier.
Writing(u, k) == pc[u] = "release" /\ IsNext(u, k)

\* Between the two stores the payload is the writer's; otherwise payload and
\* identifier belong together.
ValInv ==
  \A k \in Keys :
    /\ \A u \in Workers : Writing(u, k) => val[k] = u
    /\ (\A u \in Workers : ~Writing(u, k)) => Version(k, tidword[k].tid, val[k])

\* What read() has seen so far is not ahead of the table, and if the second
\* look at the word finds it unchanged, the copy belongs to it.
Reading(w) ==
  LET k == ThisOp(w).key
  IN  /\ pc[w] \in {"copy", "check"} => TidLeq(expected[w], tidword[k].tid)
      /\ /\ pc[w] = "check"
         /\ expected[w] = tidword[k].tid
         /\ \A u \in Workers : ~Writing(u, k)
         => Version(k, expected[w], buf[w])

\* Read elements are versions that were committed before the serial point.
Known(r, w) ==
  \/ Initial(r)
  \/ \E u \in WritersOf(r.key) : /\ ReadsFrom(r, u)
                                 /\ w \in InFlight => u.stamp < stamp[w]

ReadInv ==
  \A w \in Workers :
    Reading(w) /\ \A i \in DOMAIN readSet[w] : Known(readSet[w][i], w)

\* A worker between payload and identifier of a record holds its lock alone.
LEMMA WritingHeld ==
  ASSUME LInv, NEW u \in Workers, NEW k \in Keys, Writing(u, k)
  PROVE  /\ k \in Held(u) /\ tidword[k].lock
         /\ \A v \in Workers : k \in Held(v) => v = u
         /\ \A j \in Keys : IsNext(u, j) => j = k
<1>1. k \in Held(u)
  BY DEF Writing, IsNext, Held
<1>2. \A j \in Keys : IsNext(u, j) => j <= k /\ k <= j
  BY DEF Writing, IsNext
<1>3. \A j \in Keys : j \in Nat
  BY KeysAssumption
<1> QED
  BY <1>1, <1>2, <1>3 DEF LInv, LockInv

\* What a step may do to a record.
LEMMA RecordKinds ==
  ASSUME LInv, TidInv, [Next]_vars, NEW k \in Keys
  PROVE  \/ /\ tidword'[k].tid = tidword[k].tid /\ val'[k] = val[k]
            /\ \A u \in Workers : Writing(u, k)' <=> Writing(u, k)
         \/ /\ tidword'[k].tid = tidword[k].tid
            /\ \E w \in Workers : /\ val'[k] = w /\ Writing(w, k)'
                                  /\ \A u \in Workers : Writing(u, k)' => u = w
         \/ /\ TidLess(tidword[k].tid, tidword'[k].tid) /\ val'[k] = val[k]
            /\ \E w \in Workers : /\ pc[w] = "release" /\ Writing(w, k)
                                  /\ tidword'[k].tid = mrctid[w]
            /\ \A u \in Workers : ~Writing(u, k)'
<1> USE DEF Writing, IsNext
<1>1. CASE Calm
  BY <1>1 DEF Calm
<1>2. ASSUME NEW w \in Workers, LoadGE(w) \/ CommitTid(w)
      PROVE  /\ tidword'[k].tid = tidword[k].tid /\ val'[k] = val[k]
             /\ \A u \in Workers : Writing(u, k)' <=> Writing(u, k)
  <2>1. /\ UNCHANGED <<tidword, val, pending>>
        /\ \A u \in Workers : pc'[u] = "release" <=> pc[u] = "release"
    BY <1>2, LoadGEAdds, CommitAdds DEF LInv
  <2> QED BY <2>1
<1>3. ASSUME NEW w \in Workers, NEW j \in Keys, InstallVal(w, j)
      PROVE  \/ /\ tidword'[k].tid = tidword[k].tid /\ val'[k] = val[k]
                /\ \A u \in Workers : Writing(u, k)' <=> Writing(u, k)
             \/ /\ tidword'[k].tid = tidword[k].tid
                /\ val'[k] = w /\ Writing(w, k)'
                /\ \A u \in Workers : Writing(u, k)' => u = w
  <2>1. /\ UNCHANGED <<tidword, pending>>
        /\ val'[j] = w /\ \A i \in Keys \ {j} : val'[i] = val[i]
        /\ pc[w] = "write" /\ pc'[w] = "release" /\ IsNext(w, j)
        /\ \A u \in Workers \ {w} : pc'[u] = pc[u]
    BY <1>3, InstallValDoes
  <2>2. \A u \in Workers \ {w} : Writing(u, k)' <=> Writing(u, k)
    BY <2>1
  <2>3. CASE j = k
    <3>1. k \in Held(w)
      BY <2>1, <2>3 DEF Held
    <3>2. \A u \in Workers \ {w} : ~Writing(u, k)
      BY <3>1, WritingHeld
    <3> QED BY <2>1, <2>2, <2>3, <3>2
  <2>4. CASE j # k
    <3>1. j \in Nat /\ k \in Nat
      BY KeysAssumption
    <3>2. ~IsNext(w, k)
      BY <2>1, <2>4, <3>1
    <3> QED BY <2>1, <2>2, <2>4, <3>2
  <2> QED BY <2>3, <2>4
<1>4. ASSUME NEW w \in Workers, NEW j \in Keys, InstallTid(w, j)
      PROVE  \/ /\ tidword'[k].tid = tidword[k].tid /\ val'[k] = val[k]
                /\ \A u \in Workers : Writing(u, k)' <=> Writing(u, k)
             \/ /\ TidLess(tidword[k].tid, tidword'[k].tid) /\ val'[k] = val[k]
                /\ pc[w] = "release" /\ Writing(w, k)
                /\ tidword'[k].tid = mrctid[w]
                /\ \A u \in Workers : ~Writing(u, k)'
  <2>1. /\ val' = val /\ tidword'[j].tid = mrctid[w]
        /\ \A i \in Keys \ {j} : tidword'[i] = tidword[i]
        /\ pc[w] = "release" /\ pc'[w] = "write" /\ IsNext(w, j)
        /\ j \in Held(w)
        /\ \A u \in Workers \ {w} : pc'[u] = pc[u] /\ pending'[u] = pending[u]
    BY <1>4, InstallTidDoes
  <2>2. \A u \in Workers \ {w} : Writing(u, k)' <=> Writing(u, k)
    BY <2>1
  <2>3. CASE j = k
    <3>1. \A u \in Workers \ {w} : ~Writing(u, k)
      BY <2>1, <2>3, WritingHeld
    <3>2. TidLess(tidword[k].tid, mrctid[w])
      BY <2>1, <2>3 DEF TidInv, Covered, Installing
    <3> QED BY <2>1, <2>2, <2>3, <3>1, <3>2
  <2>4. CASE j # k
    <3>1. ~Writing(w, k)
      BY <2>1, <2>4, WritingHeld
    <3> QED BY <2>1, <2>2, <2>4, <3>1
  <2> QED BY <2>3, <2>4
<1> QED
  BY <1>1, <1>2, <1>3, <1>4, SerialKinds

\* No committed transaction is forgotten.
LEMMA HistoryGrows ==
  ASSUME LInv, [Next]_vars
  PROVE  history \subseteq history'
BY OnwardKinds, LoadGEAdds, CommitAdds DEF Onward, LInv

\* So what was a committed version remains one.
LEMMA VersionStays ==
  ASSUME history \subseteq history', NEW k, NEW tid, NEW v, Version(k, tid, v)
  PROVE  Version(k, tid, v)'
BY DEF Version, WritersOf

\* The payload of a record stays that of its word, but for the one being written.
LEMMA ValStep ==
  ASSUME LInv, TidInv, InstallInv, ValInv, [Next]_vars
  PROVE  ValInv'
<1> SUFFICES ASSUME NEW k \in Keys
             PROVE  /\ \A u \in Workers : Writing(u, k)' => val'[k] = u
                    /\ (\A u \in Workers : ~Writing(u, k)') =>
                          Version(k, tidword[k].tid, val[k])'
  BY DEF ValInv
<1>1. CASE /\ tidword'[k].tid = tidword[k].tid /\ val'[k] = val[k]
           /\ \A u \in Workers : Writing(u, k)' <=> Writing(u, k)
  <2>1. Version(k, tidword[k].tid, val[k]) => Version(k, tidword[k].tid, val[k])'
    BY <1>1, HistoryGrows DEF Version, WritersOf
  <2> QED BY <1>1, <2>1 DEF ValInv
<1>2. CASE \E w \in Workers : /\ val'[k] = w /\ Writing(w, k)'
                              /\ \A u \in Workers : Writing(u, k)' => u = w
  BY <1>2
<1>3. ASSUME NEW w \in Workers, pc[w] = "release", Writing(w, k),
             tidword'[k].tid = mrctid[w], val'[k] = val[k],
             \A u \in Workers : ~Writing(u, k)'
      PROVE  Version(k, tidword[k].tid, val[k])'
  <2>1. val[k] = w
    BY <1>3 DEF ValInv
  <2>2. PICK t \in history : IsCommitOf(t, w)
    BY <1>3 DEF InstallInv, Installing
  <2>3. k \in t.writes
    BY <1>3, <2>2, WritingHeld DEF InstallInv, IsCommitOf, Installing
  <2> QED BY <1>3, <2>1, <2>2, <2>3, HistoryGrows DEF Version, WritersOf, IsCommitOf
<1> QED
  BY <1>1, <1>2, <1>3, RecordKinds

\* What a step may do to a read in progress.
LEMMA ReaderKinds ==
  ASSUME TInv, [Next]_vars, NEW w \in Workers
  PROVE  \/ pc'[w] \notin {"copy", "check"}
         \/ /\ pc[w] \in {"copy", "check"} /\ ThisOp(w).key \in Keys
            /\ pc'[w] = pc[w] /\ expected'[w] = expected[w]
            /\ buf'[w] = buf[w] /\ ThisOp(w)' = ThisOp(w)
         \/ /\ pc'[w] = "copy" /\ ThisOp(w)' = ThisOp(w) /\ tidword' = tidword
            /\ expected'[w] = tidword[ThisOp(w).key].tid
         \/ /\ pc[w] = "copy" /\ ThisOp(w).key \in Keys
            /\ UNCHANGED <<tidword, val, pending, history>>
            /\ \A u \in Workers : pc'[u] = "release" <=> pc[u] = "release"
            /\ ThisOp(w)' = ThisOp(w) /\ expected'[w] = expected[w]
            /\ buf'[w] = val[ThisOp(w).key]
<1> USE DEF TInv
<1>1. pc[w] \in {"copy", "check"} => ThisOp(w).key \in Keys
  BY ThisOpType DEF OpInRange
<1>2. CASE ReadLoad(w) \/ ReadRetry(w)
  BY <1>2 DEF ReadLoad, ReadRetry, Goto, ThisOp, recVars, opVars, TypeOK
<1>3. CASE ReadCopy(w)
  BY <1>1, <1>3 DEF ReadCopy, Goto, ThisOp, recVars, opVars, loopVars,
     histVars, TypeOK
<1>4. ASSUME pc'[w] = pc[w], expected'[w] = expected[w], buf'[w] = buf[w],
             pro'[w] = pro[w], opi'[w] = opi[w]
      PROVE  \/ pc'[w] \notin {"copy", "check"}
             \/ /\ pc[w] \in {"copy", "check"} /\ ThisOp(w).key \in Keys
                /\ pc'[w] = pc[w] /\ expected'[w] = expected[w]
                /\ buf'[w] = buf[w] /\ ThisOp(w)' = ThisOp(w)
  BY <1>1, <1>4 DEF ThisOp
<1>5. CASE UNCHANGED vars \/ AdvanceEpoch
  BY <1>4, <1>5 DEF vars, AdvanceEpoch, opVars, readVars
\* A step of another worker.
<1>6. ASSUME NEW u \in Workers, u # w, EpochWork(u) \/ Begin(u) \/ TxnStep(u)
      PROVE  /\ pc'[w] = pc[w] /\ expected'[w] = expected[w]
             /\ buf'[w] = buf[w] /\ pro'[w] = pro[w] /\ opi'[w] = opi[w]
  <2>1. CASE EpochWork(u) \/ Begin(u)
    BY <1>6, <2>1 DEF EpochWork, Begin, Goto, opVars, readVars, TypeOK
  <2>2. CASE ReadStep(u)
    BY <1>6, <2>2 DEF ReadStep, LocalOp, ReadLoad, ReadCopy, ReadDone,
       ReadRetry, NextOp, Goto, opVars, readVars, TypeOK
  <2>3. CASE ValidationStep(u)
    BY <1>6, <2>3 DEF ValidationStep, StartCommit, LockRecord, LockFail,
       LoadGE, StoreThLocalEpoch, ValidateRead, ValidateFail, UnlockRecord,
       Abort, Goto, opVars, readVars, TypeOK
  <2>4. CASE WriteStep(u)
    BY <1>6, <2>4 DEF WriteStep, CommitTid, Wal, InstallVal, InstallTid,
       EndTxn, Goto, opVars, readVars, TypeOK
  <2> QED BY <1>6, <2>1, <2>2, <2>3, <2>4 DEF TxnStep
\* The worker's own steps outside read().
<1>7. CASE EpochWork(w) \/ Begin(w) \/ LocalOp(w) \/ ReadDone(w)
  BY <1>7 DEF EpochWork, Begin, LocalOp, Executing, ReadDone, Goto, TypeOK
<1>8. CASE ValidationStep(w)
  BY <1>8 DEF ValidationStep, StartCommit, LockRecord, LockFail, LoadGE,
     StoreThLocalEpoch, ValidateRead, Validating, ValidateFail, UnlockRecord,
     Abort, Goto, TypeOK
<1>9. CASE WriteStep(w)
  BY <1>9 DEF WriteStep, CommitTid, Wal, InstallVal, InstallTid, EndTxn,
     Goto, TypeOK
<1> QED
  BY <1>2, <1>3, <1>4, <1>5, <1>6, <1>7, <1>8, <1>9
  DEF Next, TxnStep, ReadStep

\* A read that will pass its second look still holds what it copied.
LEMMA ReadingStep ==
  ASSUME TInv, TypeOK', LInv, TidInv, ValInv, [Next]_vars,
         NEW w \in Workers, Reading(w)
  PROVE  Reading(w)'
<1>1. expected[w] \in Tid /\ \A j \in Keys : tidword[j].tid \in Tid /\ tidword'[j].tid \in Tid
  BY DEF TInv, TypeOK
<1>2. CASE pc'[w] \notin {"copy", "check"}
  BY <1>2 DEF Reading
<1>3. CASE /\ pc[w] \in {"copy", "check"} /\ ThisOp(w).key \in Keys
           /\ pc'[w] = pc[w] /\ expected'[w] = expected[w]
           /\ buf'[w] = buf[w] /\ ThisOp(w)' = ThisOp(w)
  <2>1. PICK k \in Keys : k = ThisOp(w).key
    BY <1>3
  <2>2. TidLeq(expected[w], tidword[k].tid)
    BY <1>3, <2>1 DEF Reading
  <2>3. \/ /\ tidword'[k].tid = tidword[k].tid
           /\ (\A u \in Workers : ~Writing(u, k)') =>
                \A u \in Workers : ~Writing(u, k)
        \/ TidLess(tidword[k].tid, tidword'[k].tid)
    BY RecordKinds
  <2>4. TidLess(tidword[k].tid, tidword'[k].tid)
          => TidLess(expected[w], tidword'[k].tid)
    BY <1>1, <2>2, TidLessTransitive DEF TidLeq
  <2>5. TidLeq(expected[w], tidword'[k].tid)
    BY <2>2, <2>3, <2>4 DEF TidLeq
  <2>6. ASSUME pc[w] = "check", expected[w] = tidword'[k].tid,
               \A u \in Workers : ~Writing(u, k)'
        PROVE  Version(k, expected[w], buf[w])'
    <3>1. ~TidLess(expected[w], tidword'[k].tid)
      BY <1>1, <2>2, <2>6, TidLessTotal DEF TidLeq
    <3>2. /\ expected[w] = tidword[k].tid
          /\ \A u \in Workers : ~Writing(u, k)
      BY <2>3, <2>4, <2>6, <3>1
    <3>3. Version(k, expected[w], buf[w])
      BY <2>1, <2>6, <3>2 DEF Reading
    <3> QED BY <1>3, <3>3, HistoryGrows DEF Version, WritersOf
  <2> QED BY <1>3, <2>1, <2>5, <2>6 DEF Reading
<1>4. CASE /\ pc'[w] = "copy" /\ ThisOp(w)' = ThisOp(w) /\ tidword' = tidword
           /\ expected'[w] = tidword[ThisOp(w).key].tid
  BY <1>4 DEF Reading, TidLeq
<1>5. CASE /\ pc[w] = "copy" /\ ThisOp(w).key \in Keys
           /\ UNCHANGED <<tidword, val, pending, history>>
           /\ \A u \in Workers : pc'[u] = "release" <=> pc[u] = "release"
           /\ ThisOp(w)' = ThisOp(w) /\ expected'[w] = expected[w]
           /\ buf'[w] = val[ThisOp(w).key]
  <2>1. PICK k \in Keys : k = ThisOp(w).key
    BY <1>5
  <2>2. \A u \in Workers : Writing(u, k)' <=> Writing(u, k)
    BY <1>5 DEF Writing, IsNext
  <2>3. (\A u \in Workers : ~Writing(u, k)) => Version(k, tidword[k].tid, val[k])
    BY <1>5 DEF ValInv
  <2> QED
    BY <1>5, <2>1, <2>2, <2>3 DEF Reading, Version, WritersOf
<1> QED
  BY <1>2, <1>3, <1>4, <1>5, ReaderKinds

\* What a step may do to a read set, and to a serial point.
LEMMA ReadSetKinds ==
  ASSUME TInv, LInv, [Next]_vars, NEW w \in Workers
  PROVE  /\ \/ readSet'[w] \in {readSet[w], <<>>}
            \/ ReadDone(w)
         /\ w \in InFlight' => \/ w \in InFlight /\ stamp'[w] = stamp[w]
                               \/ stamp'[w] = clock + 1
<1>1. \/ readSet'[w] \in {readSet[w], <<>>}
      \/ ReadDone(w)
  <2>1. CASE UNCHANGED vars \/ AdvanceEpoch
    BY <2>1 DEF vars, AdvanceEpoch, setVars
  <2>2. ASSUME NEW u \in Workers, EpochWork(u) \/ Begin(u) \/ ValidationStep(u) \/ WriteStep(u)
        PROVE  readSet'[w] \in {readSet[w], <<>>}
    <3>1. UNCHANGED readSet \/ readSet' = [readSet EXCEPT ![u] = <<>>]
      BY <2>2 DEF EpochWork, Begin, ValidationStep, StartCommit, LockRecord,
         LockFail, LoadGE, StoreThLocalEpoch, ValidateRead, ValidateFail,
         UnlockRecord, Abort, WriteStep, CommitTid, Wal, InstallVal,
         InstallTid, EndTxn, setVars
    <3> QED BY <3>1 DEF TInv, TypeOK
  <2>3. ASSUME NEW u \in Workers, ReadStep(u)
        PROVE  readSet'[w] = readSet[w] \/ ReadDone(w)
    BY <2>3 DEF ReadStep, LocalOp, ReadLoad, ReadCopy, ReadDone, ReadRetry,
       setVars, TInv, TypeOK
  <2> QED BY <2>1, <2>2, <2>3 DEF Next, TxnStep
<1>2. CASE Onward
  BY <1>1, <1>2 DEF Onward
<1>3. ASSUME NEW u \in Workers, LoadGE(u)
      PROVE  w \in InFlight' => \/ w \in InFlight /\ stamp'[w] = stamp[w]
                                \/ stamp'[w] = clock + 1
  BY <1>3, LoadGEAdds DEF InFlight, LInv
<1>4. ASSUME NEW u \in Workers, CommitTid(u)
      PROVE  w \in InFlight' => \/ w \in InFlight /\ stamp'[w] = stamp[w]
                                \/ stamp'[w] = clock + 1
  BY <1>4, CommitAdds DEF InFlight, LInv
<1> QED
  BY <1>1, <1>2, <1>3, <1>4, OnwardKinds

\* A read in a read set remains one of a committed version.
LEMMA KnownStays ==
  ASSUME TypeOK, TInv, LInv, StampInv, [Next]_vars,
         NEW w \in Workers, NEW r, Known(r, w)
  PROVE  Known(r, w)'
<1>1. CASE Initial(r)
  BY <1>1 DEF Known, Initial
<1>2. ASSUME NEW u \in WritersOf(r.key), ReadsFrom(r, u),
             w \in InFlight => u.stamp < stamp[w]
      PROVE  Known(r, w)'
  <2>1. u \in WritersOf(r.key)'
    BY <1>2, HistoryGrows DEF WritersOf
  <2>2. w \in InFlight' => u.stamp < stamp'[w]
    <3>1. u.stamp <= clock /\ u.stamp \in Nat /\ clock \in Nat
      BY HistoryType DEF WritersOf, StampInv, TypeOK
    <3> QED BY <1>2, <3>1, ReadSetKinds
  <2> QED BY <1>2, <2>1, <2>2 DEF Known, ReadsFrom
<1> QED
  BY <1>1, <1>2 DEF Known

\* Reads of committed and running transactions remain those of versions.
LEMMA ReadInvStep ==
  ASSUME TypeOK, TypeOK', TInv, LInv, TidInv, StampInv, ValInv, ReadInv,
         [Next]_vars
  PROVE  ReadInv'
<1>1. ASSUME NEW w \in Workers PROVE Reading(w)'
  BY ReadingStep DEF ReadInv
<1> SUFFICES ASSUME NEW w \in Workers, NEW i \in DOMAIN readSet'[w],
                    NEW r, r = readSet'[w][i]
             PROVE  Known(r, w)'
  BY <1>1 DEF ReadInv, Known, Initial, ReadsFrom, WritersOf
<1>2. CASE readSet'[w] = readSet[w]
  BY <1>2, KnownStays DEF ReadInv
<1>3. CASE readSet'[w] = <<>>
  BY <1>3
<1>4. CASE ReadDone(w)
  <2>1. PICK k \in Keys : k = ThisOp(w).key
    BY <1>4, ThisOpType DEF ReadDone, TInv, OpInRange
  <2>2. PICK new : new = [key |-> k, val |-> buf[w], tid |-> expected[w]]
    OBVIOUS
  <2>3. /\ pc[w] = "check" /\ pc'[w] = "exec"
        /\ tidword[k].tid = expected[w] /\ ~tidword[k].lock
        /\ readSet'[w] = Append(readSet[w], new)
    BY <1>4, <2>1, <2>2, SMTT(30) DEF ReadDone, SameWord, Goto, TypeOK
  <2>4. \A u \in Workers : ~Writing(u, k)
    BY <2>3, WritingHeld
  <2>5. Version(k, expected[w], buf[w])
    BY <2>1, <2>3, <2>4 DEF ReadInv, Reading
  <2>6. w \notin InFlight
    BY <2>3 DEF InFlight
  <2>7. Known(new, w)
    BY <2>2, <2>5, <2>6 DEF Known, Version, Initial, ReadsFrom, WritersOf
  <2>8. \A j \in DOMAIN readSet[w] : Known(readSet[w][j], w)
    BY DEF ReadInv
  <2>9. readSet[w] \in Seq(ReadElement)
    BY DEF TypeOK
  <2>10. /\ i \in DOMAIN readSet[w] => r = readSet[w][i]
         /\ i \notin DOMAIN readSet[w] => r = new
    BY <2>3, <2>9
  <2> QED BY <2>7, <2>8, <2>10, KnownStays
<1> QED
  BY <1>1, <1>2, <1>3, <1>4, ReadSetKinds

-----------------------------------------------------------------------------
(* The serial order.                                                       *)

Earlier(k, s) == {u \in WritersOf(k) : u.stamp < s}

\* The read r returns the last write before the serial point s.
Explained(r, s) ==
  \/ Earlier(r.key, s) = {} /\ Initial(r)
  \/ \E u \in Earlier(r.key, s) :
       ReadsFrom(r, u) /\ \A v \in Earlier(r.key, s) : v.stamp <= u.stamp

\* And will go on to: nobody on the way to commit a write of that record has
\* an earlier serial point.
Settled(r, s) ==
  /\ Explained(r, s)
  /\ s <= clock
  /\ \A u \in InFlight : r.key \in writeSet[u] => s <= stamp[u]

SerialInv ==
  /\ \A t \in history : \A i \in DOMAIN t.reads : Settled(t.reads[i], t.stamp)
  /\ \A w \in Workers : pc[w] = "validate" =>
       \A i \in DOMAIN readSet[w] : i < vidx[w] => Settled(readSet[w][i], stamp[w])

\* A read once settled at a place in the serial order stays settled there.
LEMMA SettledStays ==
  ASSUME TypeOK, LInv, [Next]_vars, NEW r, NEW s \in Nat, Settled(r, s)
  PROVE  Settled(r, s)'
<1>1. clock \in Nat /\ stamp \in [Workers -> Nat]
  BY DEF TypeOK
<1>2. ASSUME Earlier(r.key, s)' = Earlier(r.key, s)
      PROVE  Explained(r, s)'
  BY <1>2 DEF Settled, Explained, Initial, ReadsFrom
<1>3. CASE Onward
  <2>1. Earlier(r.key, s)' = Earlier(r.key, s)
    BY <1>3 DEF Onward, Earlier, WritersOf
  <2> QED BY <1>2, <1>3, <2>1 DEF Onward, Settled, InFlight
<1>4. ASSUME NEW w \in Workers, LoadGE(w) PROVE Settled(r, s)'
  <2>1. /\ UNCHANGED <<history, writeSet>> /\ clock' = clock + 1
        /\ stamp'[w] = clock + 1
        /\ \A u \in Workers \ {w} : stamp'[u] = stamp[u] /\ pc'[u] = pc[u]
    BY <1>4, LoadGEAdds DEF LInv
  <2>2. Earlier(r.key, s)' = Earlier(r.key, s)
    BY <2>1 DEF Earlier, WritersOf
  <2> QED BY <1>1, <1>2, <2>1, <2>2 DEF Settled, InFlight
<1>5. ASSUME NEW w \in Workers, CommitTid(w) PROVE Settled(r, s)'
  <2>1. PICK t : /\ history' = history \cup {t} /\ t.stamp = stamp[w]
                 /\ IsCommitOf(t, w)'
    BY <1>5, CommitAdds DEF LInv
  <2>2. /\ UNCHANGED <<clock, stamp, writeSet>>
        /\ pc[w] = "validate" /\ pc'[w] = "wal"
        /\ \A u \in Workers \ {w} : pc'[u] = pc[u]
    BY <1>5, CommitAdds DEF LInv
  <2>3. InFlight' \subseteq InFlight /\ w \in InFlight
    BY <2>2 DEF InFlight
  <2>4. r.key \in t.writes => ~(t.stamp < s)
    BY <1>1, <2>1, <2>2, <2>3 DEF Settled, IsCommitOf
  <2>5. Earlier(r.key, s)' = Earlier(r.key, s)
    BY <2>1, <2>4 DEF Earlier, WritersOf
  <2> QED BY <1>2, <2>2, <2>3, <2>5 DEF Settled
<1> QED
  BY <1>3, <1>4, <1>5, OnwardKinds

\* A read that passes validation is settled: the record is not held by anyone
\* else, so that every write of it is in the table, and is the version read.
LEMMA ValidatedSettled ==
  ASSUME TypeOK, LInv, StampInv, ChainInv, ReadInv,
         NEW w \in Workers, ValidateRead(w)
  PROVE  Settled(readSet[w][vidx[w]], stamp[w])
<1>1. PICK r \in ReadElement :
        /\ r = readSet[w][vidx[w]] /\ Known(r, w) /\ StillValid(w, r)
  BY DEF ValidateRead, Validating, TypeOK, ReadInv
<1>2. PICK k \in Keys : k = r.key
  BY DEF ReadElement
<1>3. /\ pc[w] = "validate" /\ w \in InFlight /\ Held(w) = writeSet[w]
      /\ tidword[k].tid = r.tid /\ (tidword[k].lock => k \in writeSet[w])
  BY <1>1, <1>2 DEF ValidateRead, Validating, InFlight, Held, StillValid,
     InWriteSet
<1>4. \A u \in Workers : k \in Held(u) => u = w
  BY <1>3 DEF LInv, LockInv
<1>5. Installed(k) = WritersOf(k)
  BY <1>3, <1>4 DEF Installed, InProgress, Installing
<1>6. Latest(k) /\ \A t \in WritersOf(k) : TidLess(InitTid, t.tid)
  BY DEF ChainInv
<1>7. \/ Initial(r)
      \/ \E u \in WritersOf(k) : ReadsFrom(r, u) /\ u.stamp < stamp[w]
  BY <1>1, <1>2, <1>3 DEF Known
<1>8. ASSUME NEW t \in WritersOf(k)
      PROVE  t.tid \in Tid /\ t.stamp \in Nat /\ t.tid # InitTid
  <2>1. t.tid \in Tid /\ t.stamp \in Nat
    BY HistoryType DEF WritersOf
  <2> QED BY <1>6, <2>1, InitialTids, TidLessTotal DEF TidLeq
<1>9. Explained(r, stamp[w])
  <2>1. CASE WritersOf(k) = {}
    BY <1>2, <1>7, <2>1 DEF Explained, Earlier
  <2>2. ASSUME NEW last \in WritersOf(k), last.tid = r.tid,
               \A v \in WritersOf(k) : v.stamp <= last.stamp
        PROVE  Explained(r, stamp[w])
    <3>1. PICK u \in WritersOf(k) : ReadsFrom(r, u) /\ u.stamp < stamp[w]
      BY <1>7, <1>8, <2>2 DEF Initial
    <3>2. u = last
      BY <2>2, <3>1, VersionsOrdered DEF ReadsFrom, ChainInv
    <3>3. last \in Earlier(k, stamp[w])
      BY <3>1, <3>2 DEF Earlier
    <3> QED BY <1>2, <2>2, <3>1, <3>2, <3>3 DEF Explained, Earlier
  <2> QED BY <1>3, <1>5, <1>6, <2>1, <2>2 DEF Latest
<1>10. \A u \in InFlight : k \in writeSet[u] => stamp[w] <= stamp[u]
  <2>1. \A u \in InFlight : u \in Workers /\ Held(u) = writeSet[u]
    BY DEF InFlight, Held
  <2> QED BY <1>3, <1>4, <2>1 DEF TypeOK
<1> QED
  BY <1>1, <1>2, <1>3, <1>9, <1>10 DEF Settled, StampInv

\* What a step may do to a worker's validation loop.
LEMMA ValidateKinds ==
  ASSUME TypeOK, LInv, [Next]_vars, NEW w \in Workers, pc'[w] = "validate"
  PROVE  /\ readSet'[w] = readSet[w] /\ stamp'[w] = stamp[w]
         /\ \/ vidx'[w] = 1
            \/ pc[w] = "validate" /\ vidx'[w] = vidx[w]
            \/ ValidateRead(w) /\ vidx'[w] = vidx[w] + 1
<1>1. readSet'[w] = readSet[w] /\ stamp'[w] = stamp[w]
  <2>1. CASE Onward
    BY <2>1 DEF Onward, InFlight
  <2>2. ASSUME NEW u \in Workers, LoadGE(u) \/ CommitTid(u)
        PROVE  readSet'[w] = readSet[w] /\ stamp'[w] = stamp[w]
    BY <2>2, LoadGEAdds, CommitAdds DEF LInv
  <2> QED BY <2>1, <2>2, OnwardKinds
<1>2. \/ vidx'[w] = 1
      \/ pc[w] = "validate" /\ vidx'[w] = vidx[w]
      \/ ValidateRead(w) /\ vidx'[w] = vidx[w] + 1
  <2>1. CASE UNCHANGED vars \/ AdvanceEpoch
    BY <2>1 DEF vars, AdvanceEpoch, loopVars
  <2>2. ASSUME NEW u \in Workers, EpochWork(u) \/ Begin(u)
        PROVE  pc[w] = "validate" /\ vidx'[w] = vidx[w]
    BY <2>2 DEF EpochWork, Begin, Goto, loopVars, TypeOK
  <2>3. ASSUME NEW u \in Workers, ReadStep(u)
        PROVE  pc[w] = "validate" /\ vidx'[w] = vidx[w]
    BY <2>3 DEF ReadStep, LocalOp, Executing, ReadLoad, ReadCopy, ReadDone,
       ReadRetry, Goto, loopVars, TypeOK
  <2>4. ASSUME NEW u \in Workers, ValidationStep(u)
        PROVE  \/ vidx'[w] = 1
               \/ pc[w] = "validate" /\ vidx'[w] = vidx[w]
               \/ ValidateRead(w) /\ vidx'[w] = vidx[w] + 1
    <3>1. CASE StoreThLocalEpoch(u) \/ ValidateRead(u) \/ ValidateFail(u)
      BY <3>1 DEF StoreThLocalEpoch, ValidateRead, Validating, ValidateFail,
         Goto, TypeOK
    <3>2. CASE StartCommit(u) \/ LoadGE(u) \/ Abort(u)
      BY <3>2 DEF StartCommit, LoadGE, Abort, Goto, loopVars, TypeOK
    <3>3. ASSUME NEW k \in Keys, LockRecord(u, k) \/ LockFail(u, k) \/ UnlockRecord(u, k)
          PROVE  pc[w] = "validate" /\ vidx'[w] = vidx[w]
      BY <3>3 DEF LockRecord, LockFail, UnlockRecord, Goto, TypeOK
    <3> QED BY <2>4, <3>1, <3>2, <3>3 DEF ValidationStep
  <2>5. ASSUME NEW u \in Workers, WriteStep(u)
        PROVE  pc[w] = "validate" /\ vidx'[w] = vidx[w]
    BY <2>5 DEF WriteStep, CommitTid, Wal, InstallVal, InstallTid, EndTxn,
       Goto, loopVars, TypeOK
  <2> QED BY <2>1, <2>2, <2>3, <2>4, <2>5 DEF Next, TxnStep
<1> QED
  BY <1>1, <1>2

\* A decided transaction has read what the serial order before it has left.
LEMMA SerialStep ==
  ASSUME TypeOK, LInv, StampInv, ChainInv, ReadInv, SerialInv, [Next]_vars
  PROVE  SerialInv'
<1>1. ASSUME NEW w \in Workers, NEW i \in DOMAIN readSet[w],
             pc[w] = "validate", i < vidx[w]
      PROVE  Settled(readSet[w][i], stamp[w])
  BY <1>1 DEF SerialInv
<1>2. SUFFICES ASSUME NEW r, NEW s,
                      \/ \E t \in history' : \E i \in DOMAIN t.reads :
                           r = t.reads[i] /\ s = t.stamp
                      \/ \E w \in Workers : \E i \in DOMAIN readSet'[w] :
                           /\ pc'[w] = "validate" /\ i < vidx'[w]
                           /\ r = readSet'[w][i] /\ s = stamp'[w]
               PROVE  s \in Nat /\ Settled(r, s)
  <2>1. \A r, s : s \in Nat /\ Settled(r, s) => Settled(r, s)'
    BY SettledStays
  <2>2. \A t \in history' : \A i \in DOMAIN t.reads : Settled(t.reads[i], t.stamp)'
    BY <1>2, <2>1
  <2>3. ASSUME NEW w \in Workers, NEW i \in DOMAIN readSet'[w],
               pc'[w] = "validate", i < vidx'[w]
        PROVE  Settled(readSet[w][i], stamp[w])'
    <3>1. PICK q, p : q = readSet'[w][i] /\ p = stamp'[w]
      OBVIOUS
    <3>2. Settled(q, p)'
      BY <1>2, <2>1, <2>3, <3>1
    <3> QED
      BY <3>1, <3>2 DEF Settled, Explained, Earlier, Initial, ReadsFrom, WritersOf
  <2>4. (\A w \in Workers : pc[w] = "validate" =>
           \A i \in DOMAIN readSet[w] :
             i < vidx[w] => Settled(readSet[w][i], stamp[w]))'
    BY <2>3
  <2> QED
    BY <2>2, <2>4 DEF SerialInv
<1>3. ASSUME NEW t \in history, NEW i \in DOMAIN t.reads,
             r = t.reads[i], s = t.stamp
      PROVE  s \in Nat /\ Settled(r, s)
  BY <1>3, HistoryType DEF SerialInv
<1>4. ASSUME NEW w \in Workers, NEW i \in DOMAIN readSet'[w],
             pc'[w] = "validate", i < vidx'[w],
             r = readSet'[w][i], s = stamp'[w]
      PROVE  s \in Nat /\ Settled(r, s)
  <2>1. /\ r = readSet[w][i] /\ s = stamp[w] /\ s \in Nat
        /\ i \in DOMAIN readSet[w] /\ i \in Nat \ {0} /\ vidx[w] \in Nat
    BY <1>4, ValidateKinds, SMTT(30) DEF TypeOK
  <2>2. CASE pc[w] = "validate" /\ i < vidx[w]
    BY <1>1, <2>1, <2>2
  <2>3. CASE ValidateRead(w) /\ vidx'[w] = vidx[w] + 1
    <3>1. pc[w] = "validate"
      BY <2>3 DEF ValidateRead, Validating
    <3>2. i < vidx[w] \/ i = vidx[w]
      BY <1>4, <2>1, <2>3
    <3> QED BY <2>1, <2>2, <2>3, <3>1, <3>2, ValidatedSettled
  <2> QED BY <1>4, <2>1, <2>2, <2>3, ValidateKinds
<1>5. ASSUME NEW w \in Workers, CommitTid(w),
             NEW i \in DOMAIN readSet[w], r = readSet[w][i], s = stamp[w]
      PROVE  s \in Nat /\ Settled(r, s)
  <2>1. pc[w] = "validate" /\ i < vidx[w]
    BY <1>5, CommitAdds, SMTT(30) DEF LInv, TypeOK
  <2> QED BY <1>1, <1>5, <2>1 DEF TypeOK
<1>6. ASSUME NEW t \in history', t \notin history
      PROVE  \E w \in Workers : /\ CommitTid(w)
                                /\ t.reads = readSet[w] /\ t.stamp = stamp[w]
  <2>1. PICK w \in Workers : CommitTid(w)
    BY <1>6, OnwardKinds, LoadGEAdds DEF Onward, LInv
  <2> QED BY <1>6, <2>1, CommitAdds DEF LInv
<1> QED
  BY <1>2, <1>3, <1>4, <1>5, <1>6

-----------------------------------------------------------------------------
(* The log.                                                                *)

RecordOf(t, k) == [tid |-> t.tid, key |-> k, val |-> t.worker]

\* The log holds the writes of the history, all but those of transactions
\* that are still before wal().
LogInv ==
  /\ \A r \in log : \E t \in WritersOf(r.key) : r = RecordOf(t, r.key)
  /\ \A t \in history : \A k \in t.writes :
       \/ RecordOf(t, k) \in log
       \/ \E w \in Workers : pc[w] = "wal" /\ stamp[w] = t.stamp

\* What a step may do to the log.
LEMMA LogKinds ==
  ASSUME TypeOK, [Next]_vars
  PROVE  \/ \E w \in Workers : Wal(w)
         \/ /\ log' = log
            /\ \A u \in Workers : pc[u] = "wal" => /\ pc'[u] = "wal"
                                                   /\ stamp'[u] = stamp[u]
<1>1. CASE UNCHANGED vars \/ AdvanceEpoch
  BY <1>1 DEF vars, AdvanceEpoch, histVars
<1>2. ASSUME NEW w \in Workers, EpochWork(w) \/ Begin(w) \/ ReadStep(w)
      PROVE  /\ log' = log
             /\ \A u \in Workers : pc[u] = "wal" => /\ pc'[u] = "wal"
                                                    /\ stamp'[u] = stamp[u]
  BY <1>2 DEF EpochWork, Begin, ReadStep, LocalOp, Executing, ReadLoad,
     ReadCopy, ReadDone, ReadRetry, Goto, histVars, TypeOK
<1>3. ASSUME NEW w \in Workers, ValidationStep(w)
      PROVE  /\ log' = log
             /\ \A u \in Workers : pc[u] = "wal" => /\ pc'[u] = "wal"
                                                    /\ stamp'[u] = stamp[u]
  BY <1>3 DEF ValidationStep, StartCommit, LockRecord, LockFail, LoadGE,
     StoreThLocalEpoch, ValidateRead, ValidateFail, Validating, UnlockRecord,
     Abort, Goto, histVars, TypeOK
<1>4. ASSUME NEW w \in Workers, WriteStep(w), ~Wal(w)
      PROVE  /\ log' = log
             /\ \A u \in Workers : pc[u] = "wal" => /\ pc'[u] = "wal"
                                                    /\ stamp'[u] = stamp[u]
  BY <1>4 DEF WriteStep, CommitTid, InstallVal, InstallTid, EndTxn, Goto,
     histVars, TypeOK
<1> QED
  BY <1>1, <1>2, <1>3, <1>4 DEF Next, TxnStep

\* Records handed to the log remain those of the committed writes.
LEMMA LogStep ==
  ASSUME TypeOK, LInv, StampInv, InstallInv, LogInv, [Next]_vars
  PROVE  LogInv'
<1>1. history \subseteq history'
  BY HistoryGrows
<1>2. ASSUME NEW w \in Workers, Wal(w) PROVE LogInv'
  <2>1. /\ pc[w] = "wal" /\ pc'[w] = "write"
        /\ \A u \in Workers \ {w} : pc'[u] = pc[u]
        /\ UNCHANGED <<history, stamp>>
        /\ log' = log \cup {[tid |-> mrctid[w], key |-> k, val |-> w] :
                              k \in writeSet[w]}
    BY <1>2 DEF Wal, Goto, histVars, TypeOK
  <2>2. PICK t \in history : IsCommitOf(t, w)
    BY <2>1 DEF InstallInv, Installing
  <2>3. log' = log \cup {RecordOf(t, k) : k \in t.writes}
    BY <2>1, <2>2 DEF IsCommitOf, RecordOf
  <2>4. ASSUME NEW r \in log'
        PROVE  \E u \in WritersOf(r.key)' : r = RecordOf(u, r.key)
    <3>1. CASE r \in log
      BY <2>1, <3>1 DEF LogInv, WritersOf
    <3>2. ASSUME NEW k \in t.writes, r = RecordOf(t, k)
          PROVE  \E u \in WritersOf(r.key)' : r = RecordOf(u, r.key)
      BY <2>1, <3>2 DEF RecordOf, WritersOf
    <3> QED BY <2>3, <3>1, <3>2
  <2>5. ASSUME NEW u \in history, NEW k \in u.writes
        PROVE  \/ RecordOf(u, k) \in log'
               \/ \E v \in Workers : pc'[v] = "wal" /\ stamp'[v] = u.stamp
    <3>1. CASE RecordOf(u, k) \in log
      BY <2>1, <3>1
    <3>2. ASSUME NEW v \in Workers, pc[v] = "wal", stamp[v] = u.stamp
          PROVE  \/ RecordOf(u, k) \in log'
                 \/ \E x \in Workers : pc'[x] = "wal" /\ stamp'[x] = u.stamp
      <4>1. CASE v = w
        <5>1. u = t
          BY <2>2, <3>2, <4>1 DEF StampInv, IsCommitOf
        <5> QED BY <2>3, <5>1
      <4>2. CASE v # w
        BY <2>1, <3>2, <4>2
      <4> QED BY <4>1, <4>2
    <3> QED BY <3>1, <3>2 DEF LogInv
  <2> QED BY <2>1, <2>4, <2>5 DEF LogInv
<1>3. ASSUME log' = log,
             \A u \in Workers : pc[u] = "wal" => /\ pc'[u] = "wal"
                                                 /\ stamp'[u] = stamp[u]
      PROVE  LogInv'
  <2>1. \A r \in log' : \E t \in WritersOf(r.key)' : r = RecordOf(t, r.key)
    BY <1>1, <1>3 DEF LogInv, WritersOf
  <2>2. ASSUME NEW t \in history, NEW k \in t.writes
        PROVE  \/ RecordOf(t, k) \in log'
               \/ \E w \in Workers : pc'[w] = "wal" /\ stamp'[w] = t.stamp
    BY <1>3 DEF LogInv
  <2>3. ASSUME NEW t \in history', t \notin history
        PROVE  \E w \in Workers : pc'[w] = "wal" /\ stamp'[w] = t.stamp
    <3>1. PICK w \in Workers : CommitTid(w)
      BY <2>3, OnwardKinds, LoadGEAdds DEF Onward, LInv
    <3> QED BY <2>3, <3>1, CommitAdds DEF LInv
  <2> QED BY <2>1, <2>2, <2>3 DEF LogInv
<1> QED
  BY <1>2, <1>3, LogKinds

\* In an unlocked record, payload and identifier are those of the last writer,
\* and its log record is the one with the largest identifier.
LEMMA UnlockedRecord ==
  ASSUME TypeOK, LInv, SerialBase, ValInv, LogInv,
         NEW k \in Keys, ~tidword[k].lock
  PROVE  LET recs == {r \in log : r.key = k}
         IN  \/ recs = {} /\ tidword[k].tid = InitTid /\ val[k] = NoWorker
             \/ \E r \in recs : /\ r.tid = tidword[k].tid /\ r.val = val[k]
                                /\ \A s \in recs : TidLeq(s.tid, r.tid)
<1> DEFINE recs == {r \in log : r.key = k}
<1> USE DEF SerialBase
<1>1. \A w \in Workers : k \notin Held(w) /\ ~Writing(w, k)
  BY WritingHeld DEF LInv, LockInv
<1>2. Installed(k) = WritersOf(k)
  BY <1>1 DEF Installed, InProgress
<1>3. /\ Latest(k) /\ \A t \in WritersOf(k) : TidLess(InitTid, t.tid)
      /\ Version(k, tidword[k].tid, val[k])
  BY <1>1 DEF ChainInv, ValInv
<1>4. ASSUME NEW r \in recs
      PROVE  \E t \in WritersOf(k) : r = RecordOf(t, k)
  BY DEF LogInv
<1>5. ASSUME NEW t \in WritersOf(k)
      PROVE  RecordOf(t, k) \in recs /\ t.tid \in Tid /\ t.tid # InitTid
  <2>1. t \in history /\ k \in t.writes
    BY DEF WritersOf
  <2>2. ASSUME NEW w \in Workers, pc[w] = "wal", stamp[w] = t.stamp
        PROVE  FALSE
    <3>1. PICK u \in history : IsCommitOf(u, w)
      BY <2>2 DEF InstallInv, Installing
    <3>2. u = t
      BY <2>1, <2>2, <3>1 DEF IsCommitOf, StampInv
    <3>3. k \in Held(w)
      BY <2>1, <2>2, <3>1, <3>2 DEF IsCommitOf, Held
    <3> QED BY <1>1, <3>3
  <2>3. RecordOf(t, k) \in recs
    BY <2>1, <2>2 DEF LogInv, RecordOf
  <2>4. t.tid \in Tid /\ TidLess(InitTid, t.tid)
    BY <1>3, <2>1, HistoryType
  <2> QED BY <2>3, <2>4, InitialTids, TidLessTotal DEF TidLeq
<1>6. CASE WritersOf(k) = {}
  <2>1. recs = {}
    BY <1>4, <1>6
  <2>2. tidword[k].tid = InitTid /\ val[k] = NoWorker
    BY <1>2, <1>3, <1>6 DEF Latest, Version
  <2> QED BY <2>1, <2>2
<1>7. ASSUME NEW last \in WritersOf(k), last.tid = tidword[k].tid,
             \A v \in WritersOf(k) : v.stamp <= last.stamp
      PROVE  \E r \in recs : /\ r.tid = tidword[k].tid /\ r.val = val[k]
                             /\ \A s \in recs : TidLeq(s.tid, r.tid)
  <2>1. PICK u \in WritersOf(k) : u.tid = tidword[k].tid /\ u.worker = val[k]
    BY <1>3, <1>5, <1>7 DEF Version
  <2>2. u = last
    BY <1>7, <2>1, VersionsOrdered DEF ChainInv
  <2>3. \A s \in recs : TidLeq(s.tid, last.tid)
    BY <1>4, <1>7, VersionsOrdered DEF ChainInv, RecordOf
  <2>4. RecordOf(last, k) \in recs
    BY <1>5
  <2> QED BY <1>7, <2>1, <2>2, <2>3, <2>4 DEF RecordOf
<1> QED
  BY <1>2, <1>3, <1>6, <1>7 DEF Latest

-----------------------------------------------------------------------------
(* The theorems.                                                           *)

SerialHistory == SerialBase /\ ValInv /\ ReadInv /\ SerialInv /\ LogInv

\* The second half holds at first.
LEMMA InitHistory == Init => SerialHistory
<1> SUFFICES ASSUME Init PROVE SerialHistory
  OBVIOUS
<1>1. /\ history = {} /\ log = {}
      /\ \A w \in Workers : pc[w] = "idle" /\ readSet[w] = <<>>
      /\ \A k \in Keys : tidword[k].tid = InitTid /\ val[k] = NoWorker
  BY DEF Init
<1>2. ValInv
  BY <1>1 DEF ValInv, Writing, Version
<1>3. ReadInv
  BY <1>1 DEF ReadInv, Reading
<1>4. SerialInv /\ LogInv
  BY <1>1 DEF SerialInv, LogInv
<1> QED
  BY <1>2, <1>3, <1>4, InitBase DEF SerialHistory

\* The second half is inductive, given the first.
LEMMA HistoryStep ==
  ASSUME TypeOK, TypeOK', TInv, LInv, TidInv, TidRoom, SerialHistory,
         [Next]_vars
  PROVE  SerialHistory'
<1>1. /\ StampInv /\ InstallInv /\ ChainInv
      /\ ValInv /\ ReadInv /\ SerialInv /\ LogInv
  BY DEF SerialHistory, SerialBase
<1>2. StampInv' /\ InstallInv' /\ ChainInv'
  BY <1>1, StampStep, InstallStep, ChainStep
<1>3. ValInv' /\ ReadInv'
  BY <1>1, ValStep, ReadInvStep
<1>4. SerialInv' /\ LogInv'
  BY <1>1, SerialStep, LogStep
<1> QED BY <1>2, <1>3, <1>4 DEF SerialHistory, SerialBase

\* Both halves, of every behaviour with room.
LEMMA HistoryInvariant ==
  Spec /\ []TidRoom => [](TypeOK /\ LInv /\ SerialHistory)
<1>1. TypeOK /\ TypeOK' /\ TInv /\ LInv /\ TidInv /\ TidRoom
        /\ SerialHistory /\ [Next]_vars => SerialHistory'
  BY HistoryStep
<1>2. TInv => TypeOK
  BY DEF TInv
<1> QED
  BY <1>1, <1>2, InitHistory, TypeInvariant, TidInvariant, PTL DEF Spec

\* No read() returns a torn version: payload and identifier of every read
\* element were written together by a committed transaction, or are the
\* initial ones.
THEOREM ReadsAreVersions == Spec /\ []TidRoom => []ReadsCommittedVersion
<1>1. SerialHistory => ReadsCommittedVersion
  BY DEF SerialHistory, ReadInv, Known, ReadsCommittedVersion
<1> QED
  BY <1>1, HistoryInvariant, PTL

\* Every execution is serializable in the order of the epoch loads, as long as
\* no identifier comes to the end of its field.
THEOREM HistorySerializable == Spec /\ []TidRoom => []Serializable
<1>1. SerialHistory => Serializable
  BY DEF SerialHistory, SerialInv, Settled, Explained, Earlier, Serializable
<1> QED
  BY <1>1, HistoryInvariant, PTL

\* Write-ahead logging: the newest log record of an unlocked record is what
\* the table holds.
THEOREM LogRebuildsTable == Spec /\ []TidRoom => []LogHoldsTable
<1>1. TypeOK /\ LInv /\ SerialHistory => LogHoldsTable
  BY UnlockedRecord DEF SerialHistory, LogHoldsTable
<1> QED
  BY <1>1, HistoryInvariant, PTL
-----------------------------------------------------------------------------
(* When there is room.  Identifiers of an epoch number its commits: none    *)
(* runs out of the TID field before as many transactions have committed in  *)
(* one epoch as the field has values.                                       *)

CommitsIn(S, e) == {t \in S : t.tid.epoch = e}

FewCommits == \A e \in Nat : Cardinality(CommitsIn(history, e)) < TIDMod - 1

\* The TID of an identifier is at most the number of commits of its epoch.
Counted(id, S) == id.TID <= Cardinality(CommitsIn(S, id.epoch))

\* Every identifier a worker may take a maximum of.
Ids == {tidword[k].tid : k \in Keys}
         \cup UNION {{mrctid[w], maxW[w], maxR[w]} : w \in Workers}

CountInv == IsFiniteSet(history) /\ \A id \in Ids : Counted(id, history)

\* Commits only add to a count.
LEMMA CountMore ==
  ASSUME NEW S, NEW T, IsFiniteSet(T), S \subseteq T, NEW id \in Tid,
         Counted(id, S)
  PROVE  Counted(id, T)
<1> DEFINE s == CommitsIn(S, id.epoch)
           t == CommitsIn(T, id.epoch)
<1>1. s \subseteq t /\ t \subseteq T
  BY DEF CommitsIn
<1>2. IsFiniteSet(t)
  BY <1>1, FS_Subset
<1>3. IsFiniteSet(s) /\ Cardinality(s) <= Cardinality(t)
  BY <1>1, <1>2, FS_Subset
<1>4. Cardinality(s) \in Nat /\ Cardinality(t) \in Nat /\ id.TID \in Nat
  BY <1>2, <1>3, FS_CardinalityType, TIDModAssumption DEF Tid
<1>5. id.TID <= Cardinality(s)
  BY DEF Counted
<1> HIDE DEF s, t
<1>6. id.TID <= Cardinality(t)
  BY <1>3, <1>4, <1>5
<1> QED BY <1>6 DEF Counted, t

\* A commit that counts one from an identifier of its epoch is counted itself.
LEMMA CountOne ==
  ASSUME NEW S, IsFiniteSet(S), NEW t, t \notin S, t.tid \in Tid,
         NEW id \in Tid, Counted(id, S),
         t.tid.epoch = id.epoch, t.tid.TID <= id.TID + 1
  PROVE  Counted(t.tid, S \cup {t})
<1> DEFINE s == CommitsIn(S, id.epoch)
<1>1. s \subseteq S /\ t \notin s
  BY DEF CommitsIn
<1>2. IsFiniteSet(s) /\ Cardinality(s) \in Nat
  BY <1>1, FS_Subset, FS_CardinalityType
<1>3. CommitsIn(S \cup {t}, t.tid.epoch) = s \cup {t}
  BY DEF CommitsIn
<1>4. id.TID <= Cardinality(s)
  BY DEF Counted
<1> HIDE DEF s
<1>5. Cardinality(s \cup {t}) = Cardinality(s) + 1
  BY <1>1, <1>2, FS_AddElement
<1>6. t.tid.TID \in Nat /\ id.TID \in Nat
  BY TIDModAssumption DEF Tid
<1>7. t.tid.TID <= Cardinality(s \cup {t})
  BY <1>2, <1>4, <1>5, <1>6
<1> QED
  BY <1>3, <1>7 DEF Counted

\* The identifier chosen counts one from one of those it is chosen from, or
\* starts an epoch.
LEMMA ChooseCounts ==
  ASSUME NEW mw \in Tid, NEW mr \in Tid, NEW last \in Tid, NEW e \in Nat
  PROVE  LET n == ChooseTid(mw, mr, last, e)
         IN  \/ n.TID = 0
             \/ \E x \in {mw, mr, last} :
                  n.epoch = x.epoch /\ n.TID <= x.TID + 1
<1> DEFINE m == MaxTid(mw, mr)
           c == [epoch |-> e, TID |-> 0]
           n == ChooseTid(mw, mr, last, e)
<1>1. \A t \in Tid : /\ Bump(t).epoch = t.epoch /\ Bump(t) \in Tid
                     /\ Bump(t).TID <= t.TID + 1
  <2> SUFFICES ASSUME NEW t \in Tid PROVE Bump(t).TID <= t.TID + 1
    BY BumpGrows
  <2>1. t.TID \in 0 .. TIDMod - 1 /\ t = [epoch |-> t.epoch, TID |-> t.TID]
    BY DEF Tid
  <2>2. Bump(t).TID = (t.TID + 1) % TIDMod
    BY <2>1 DEF Bump
  <2>3. (t.TID + 1) % TIDMod <= t.TID + 1
    <3>1. CASE t.TID + 1 < TIDMod
      BY <2>1, <3>1, TIDModAssumption
    <3>2. CASE t.TID + 1 = TIDMod
      BY <2>1, <3>2, TIDModAssumption
    <3> QED BY <2>1, <3>1, <3>2, TIDModAssumption
  <2> QED BY <2>2, <2>3
<1>2. m \in {mw, mr} /\ m \in Tid /\ c \in Tid
  BY MaxTidBound, TIDModAssumption DEF Tid
<1>3. n = MaxTid(MaxTid(Bump(m), Bump(last)), c)
  BY DEF ChooseTid
<1> HIDE DEF m, n
<1>4. n \in {Bump(m), Bump(last), c}
  BY <1>3 DEF MaxTid
<1>5. c.TID = 0
  OBVIOUS
<1> HIDE DEF c
<1>6. n.TID = 0 \/ \E x \in {mw, mr, last} : n.epoch = x.epoch /\ n.TID <= x.TID + 1
  BY <1>1, <1>2, <1>4, <1>5
<1> QED BY <1>6 DEF n

\* Identifiers are passed on, start over or are chosen by a commit.
LEMMA IdsStep ==
  ASSUME LInv, [Next]_vars
  PROVE  \/ Ids' \subseteq Ids \cup {ZeroTid}
         \/ \E w \in Workers : CommitTid(w) /\ Ids' \subseteq Ids \cup {mrctid'[w]}
<1>1. /\ TypeOK
      /\ \A k \in Keys : tidword[k].tid \in Ids
      /\ \A w \in Workers : {mrctid[w], maxW[w], maxR[w]} \subseteq Ids
  BY DEF LInv, Ids
<1>2. CASE UNCHANGED <<tidword, mrctid, maxW, maxR>>
  BY <1>2 DEF Ids
<1>3. ASSUME NEW w \in Workers,
             \/ QuietLock(w)
             \/ \E k \in Keys : LockRecord(w, k) \/ UnlockRecord(w, k) \/ InstallTid(w, k)
      PROVE  \/ Ids' \subseteq Ids \cup {ZeroTid}
             \/ CommitTid(w) /\ Ids' \subseteq Ids \cup {mrctid'[w]}
  <2>1. \A u \in Workers \ {w} : /\ maxW'[u] = maxW[u] /\ maxR'[u] = maxR[u]
                                 /\ mrctid'[u] = mrctid[u]
    BY <1>1, <1>3, MaxFrame
  <2>2. ASSUME NEW x, \A k \in Keys : tidword'[k].tid \in Ids \cup {x},
               {mrctid'[w], maxW'[w], maxR'[w]} \subseteq Ids \cup {x}
        PROVE  Ids' \subseteq Ids \cup {x}
    <3> SUFFICES ASSUME NEW id \in Ids' PROVE id \in Ids \cup {x}
      OBVIOUS
    <3>1. CASE \E k \in Keys : id = tidword'[k].tid
      BY <2>2, <3>1
    <3>2. ASSUME NEW u \in Workers, id \in {mrctid'[u], maxW'[u], maxR'[u]}
          PROVE  id \in Ids \cup {x}
      BY <1>1, <2>1, <2>2, <3>2
    <3> QED BY <3>1, <3>2 DEF Ids
  <2>3. CASE QuietLock(w)
    <3>1. UNCHANGED tidword
      BY <2>3, QuietLockStep DEF LInv
    <3>2. CASE CommitTid(w)
      <4>1. UNCHANGED <<maxW, maxR>>
        BY <3>2 DEF CommitTid, maxVars
      <4>2. \A k \in Keys : tidword'[k].tid \in Ids \cup {mrctid'[w]}
        BY <1>1, <3>1
      <4>3. {mrctid'[w], maxW'[w], maxR'[w]} \subseteq Ids \cup {mrctid'[w]}
        BY <1>1, <4>1
      <4> QED BY <2>2, <3>2, <4>2, <4>3
    <3>3. CASE ~CommitTid(w)
      <4>1. UNCHANGED mrctid
        BY <1>1, <1>3, <3>3, MaxFrame
      <4>2. {maxW'[w], maxR'[w]} \subseteq Ids \cup {ZeroTid}
        <5>1. CASE Begin(w)
          BY <1>1, <5>1 DEF Begin, TypeOK
        <5>2. CASE ValidateRead(w)
          <6> DEFINE r == readSet[w][vidx[w]]
          <6>1. r \in ReadElement
            BY <1>1, <5>2 DEF ValidateRead, Validating, TypeOK
          <6>2. maxR'[w] = MaxTid(maxR[w], tidword[r.key].tid) /\ maxW' = maxW
            BY <1>1, <5>2 DEF ValidateRead, TypeOK
          <6> HIDE DEF r
          <6>3. r.key \in Keys
            BY <6>1 DEF ReadElement
          <6>4. maxR'[w] = maxR[w] \/ maxR'[w] = tidword[r.key].tid
            BY <6>2 DEF MaxTid
          <6> QED BY <1>1, <6>2, <6>3, <6>4
        <5>3. CASE EpochWork(w) \/ ReadStep(w)
          BY <1>1, <5>3 DEF EpochWork, ReadStep, LocalOp, ReadLoad, ReadCopy,
             ReadDone, ReadRetry, maxVars
        <5>4. CASE \/ StartCommit(w) \/ LoadGE(w) \/ StoreThLocalEpoch(w)
                   \/ ValidateFail(w) \/ Abort(w) \/ Wal(w) \/ EndTxn(w)
          BY <1>1, <5>4 DEF StartCommit, LoadGE, StoreThLocalEpoch, ValidateFail,
             Abort, Wal, EndTxn, maxVars
        <5>5. ASSUME NEW k \in Keys, LockFail(w, k) \/ InstallVal(w, k)
              PROVE  {maxW'[w], maxR'[w]} \subseteq Ids \cup {ZeroTid}
          BY <1>1, <5>5 DEF LockFail, InstallVal, maxVars
        <5> QED BY <2>3, <3>3, <5>1, <5>2, <5>3, <5>4, <5>5 DEF QuietLock
      <4>3. \A k \in Keys : tidword'[k].tid \in Ids \cup {ZeroTid}
        BY <1>1, <3>1
      <4> QED BY <1>1, <2>2, <4>1, <4>2, <4>3
    <3> QED BY <3>2, <3>3
  <2>4. ASSUME NEW k \in Keys, LockRecord(w, k)
        PROVE  Ids' \subseteq Ids \cup {ZeroTid}
    <3>1. \A j \in Keys : tidword'[j].tid = tidword[j].tid
      BY <1>1, <2>4, TidKept
    <3>2. /\ UNCHANGED <<mrctid, maxR>>
          /\ maxW'[w] = MaxTid(maxW[w], tidword[k].tid)
      BY <1>1, <2>4 DEF LockRecord, TypeOK
    <3>3. maxW'[w] = maxW[w] \/ maxW'[w] = tidword[k].tid
      BY <3>2 DEF MaxTid
    <3> QED BY <1>1, <2>2, <3>1, <3>2, <3>3
  <2>5. ASSUME NEW k \in Keys, UnlockRecord(w, k) \/ InstallTid(w, k)
        PROVE  Ids' \subseteq Ids \cup {ZeroTid}
    <3>1. \A j \in Keys : tidword'[j].tid \in {tidword[j].tid, mrctid[w]}
      BY <2>5, LockDropped
    <3>2. UNCHANGED <<mrctid, maxW, maxR>>
      BY <2>5 DEF UnlockRecord, InstallTid, maxVars
    <3> QED BY <1>1, <2>2, <3>1, <3>2
  <2> QED BY <1>3, <2>3, <2>4, <2>5
<1>4. UNCHANGED vars \/ AdvanceEpoch => UNCHANGED <<tidword, mrctid, maxW, maxR>>
  BY DEF vars, AdvanceEpoch, recVars, maxVars
<1> QED
  BY <1>2, <1>3, <1>4
  DEF Next, TxnStep, ValidationStep, WriteStep, QuietLock

\* All of them are identifiers.
LEMMA TypedIds ==
  ASSUME TypeOK
  PROVE  Ids \subseteq Tid
<1>1. /\ \A k \in Keys : tidword[k].tid \in Tid
      /\ \A w \in Workers : {mrctid[w], maxW[w], maxR[w]} \subseteq Tid
  BY DEF TypeOK
<1> QED BY <1>1 DEF Ids

\* The count is inductive: a commit adds one transaction, and counts one.
LEMMA CountStep ==
  ASSUME LInv, LInv', StampInv, CountInv, [Next]_vars
  PROVE  CountInv'
<1>1. TypeOK /\ TypeOK' /\ Ids \subseteq Tid
  <2>1. TypeOK /\ TypeOK'
    BY DEF LInv
  <2> QED BY <2>1, TypedIds
<1>2. history \subseteq history'
  BY HistoryGrows
<1>3. IsFiniteSet(history')
  <2>1. CASE UNCHANGED history
    BY <2>1 DEF CountInv
  <2>2. ASSUME NEW w \in Workers, CommitTid(w)
        PROVE  IsFiniteSet(history')
    <3>1. PICK t : history' = history \cup {t}
      BY <2>2, CommitAdds DEF LInv
    <3> QED BY <3>1, FS_AddElement DEF CountInv
  <2> QED BY <2>1, <2>2, OnwardKinds DEF Onward, LoadGE
<1>4. \A id \in Ids : Counted(id, history')
  BY <1>1, <1>2, <1>3, CountMore DEF CountInv
<1>5. ASSUME NEW id \in Tid, id.TID = 0 PROVE Counted(id, history')
  <2>1. CommitsIn(history', id.epoch) \subseteq history'
    BY DEF CommitsIn
  <2>2. Cardinality(CommitsIn(history', id.epoch)) \in Nat
    BY <1>3, <2>1, FS_Subset, FS_CardinalityType
  <2> QED BY <1>5, <2>2 DEF Counted
<1>6. CASE Ids' \subseteq Ids \cup {ZeroTid}
  <2>1. ZeroTid \in Tid /\ ZeroTid.TID = 0
    BY InitialTids DEF ZeroTid
  <2> QED BY <1>3, <1>4, <1>5, <1>6, <2>1 DEF CountInv
<1>7. ASSUME NEW w \in Workers, CommitTid(w),
             Ids' \subseteq Ids \cup {mrctid'[w]}
      PROVE  CountInv'
  <2>1. PICK t : /\ history' = history \cup {t} /\ t.stamp = stamp[w]
                 /\ IsCommitOf(t, w)'
    BY <1>7, CommitAdds DEF LInv
  <2>2. t.tid = mrctid'[w] /\ mrctid'[w] \in Tid
    BY <1>1, <2>1 DEF IsCommitOf, TypeOK
  <2>3. w \in InFlight
    BY <1>7 DEF CommitTid, InFlight
  <2>4. t \notin history
    BY <2>1, <2>3 DEF StampInv
  <2>5. /\ maxW[w] \in Tid /\ maxR[w] \in Tid /\ mrctid[w] \in Tid
        /\ ThLocalEpoch[w] \in Nat
        /\ {maxW[w], maxR[w], mrctid[w]} \subseteq Ids
    BY <1>1, SMTT(30) DEF TypeOK, Ids
  <2>6. mrctid'[w] = ChooseTid(maxW[w], maxR[w], mrctid[w], ThLocalEpoch[w])
    BY <1>1, <1>7 DEF CommitTid, CommitEpoch, TypeOK
  <2>7. \/ mrctid'[w].TID = 0
        \/ \E x \in {maxW[w], maxR[w], mrctid[w]} :
             mrctid'[w].epoch = x.epoch /\ mrctid'[w].TID <= x.TID + 1
    BY <2>5, <2>6, ChooseCounts
  <2>8. Counted(mrctid'[w], history')
    <3>1. CASE mrctid'[w].TID = 0
      BY <1>5, <2>2, <3>1
    <3>2. ASSUME NEW x \in Ids, mrctid'[w].epoch = x.epoch,
                 mrctid'[w].TID <= x.TID + 1
          PROVE  Counted(mrctid'[w], history')
      <4>1. x \in Tid /\ Counted(x, history) /\ IsFiniteSet(history)
        BY <1>1 DEF CountInv
      <4>2. Counted(t.tid, history \cup {t})
        BY <2>2, <2>4, <3>2, <4>1, CountOne
      <4> QED BY <2>1, <2>2, <4>2
    <3> QED BY <2>5, <2>7, <3>1, <3>2
  <2> QED BY <1>3, <1>4, <1>7, <2>8 DEF CountInv
<1> QED
  BY <1>6, <1>7, IdsStep

\* Every identifier starts an epoch at first.
LEMMA InitCount == Init => CountInv
<1> SUFFICES ASSUME Init PROVE CountInv
  OBVIOUS
<1>1. history = {} /\ IsFiniteSet({})
  BY FS_EmptySet DEF Init
<1>2. \A id \in Ids : id \in {ZeroTid, InitTid}
  BY DEF Init, Ids
<1>3. \A id \in Ids : id.TID = 0
  BY <1>2 DEF ZeroTid, InitTid
<1>4. \A e : Cardinality(CommitsIn({}, e)) = 0
  BY FS_EmptySet DEF CommitsIn
<1> QED
  BY <1>1, <1>3, <1>4 DEF CountInv, Counted

\* As long as the commits are few, no identifier is the last of its epoch.
LEMMA FewHaveRoom ==
  ASSUME TypeOK, CountInv, FewCommits
  PROVE  TidRoom
<1>1. \A id \in Ids : id.TID < TIDMod - 1
  <2> SUFFICES ASSUME NEW id \in Ids PROVE id.TID < TIDMod - 1
    OBVIOUS
  <2>1. id \in Tid
    BY DEF Ids, TypeOK
  <2>2. id.TID <= Cardinality(CommitsIn(history, id.epoch))
    BY DEF CountInv, Counted
  <2>3. Cardinality(CommitsIn(history, id.epoch)) < TIDMod - 1
    BY <2>1 DEF FewCommits, Tid
  <2>4. Cardinality(CommitsIn(history, id.epoch)) \in Nat
    <3>1. CommitsIn(history, id.epoch) \subseteq history
      BY DEF CommitsIn
    <3> QED BY <3>1, FS_Subset, FS_CardinalityType DEF CountInv
  <2>5. id.TID \in Nat
    BY <2>1, TIDModAssumption DEF Tid
  <2> QED BY <2>2, <2>3, <2>4, <2>5, TIDModAssumption
<1> QED
  BY <1>1 DEF TidRoom, Ids

\* They were as few before a step as after it.
LEMMA FewBefore ==
  ASSUME LInv, CountInv', [Next]_vars, FewCommits'
  PROVE  FewCommits
<1> SUFFICES ASSUME NEW e \in Nat
             PROVE  Cardinality(CommitsIn(history, e)) < TIDMod - 1
  BY DEF FewCommits
<1> DEFINE s == CommitsIn(history, e)
           t == CommitsIn(history', e)
<1>1. s \subseteq t /\ t \subseteq history'
  BY HistoryGrows DEF CommitsIn
<1>2. IsFiniteSet(t)
  BY <1>1, FS_Subset DEF CountInv
<1>3. /\ IsFiniteSet(s) /\ Cardinality(s) <= Cardinality(t)
      /\ Cardinality(s) \in Nat /\ Cardinality(t) \in Nat
  BY <1>1, <1>2, FS_Subset, FS_CardinalityType
<1>4. Cardinality(t) < TIDMod - 1
  BY DEF FewCommits
<1> HIDE DEF s, t
<1>5. Cardinality(s) < TIDMod - 1
  BY <1>3, <1>4, TIDModAssumption
<1> QED BY <1>5 DEF s

\* The count, of every behaviour, whatever its identifiers come to.
LEMMA CountInvariant == Spec => [](LInv /\ StampInv /\ CountInv)
<1>1. LInv /\ StampInv /\ [Next]_vars => StampInv'
  BY StampStep DEF LInv
<1>2. LInv /\ LInv' /\ StampInv /\ CountInv /\ [Next]_vars => CountInv'
  BY CountStep
<1>3. SerialBase => StampInv
  BY DEF SerialBase
<1> QED
  BY <1>1, <1>2, <1>3, InitBase, InitCount, LockInvariant, PTL DEF Spec

\* The condition of the theorems about identifiers is met as long as fewer
\* transactions have committed in any one epoch than TIDs are left to give.
THEOREM RoomWhileFew == Spec /\ []FewCommits => []TidRoom
<1>1. LInv /\ CountInv /\ FewCommits => TidRoom
  BY FewHaveRoom DEF LInv
<1> QED
  BY <1>1, CountInvariant, PTL

\* All that is proved of histories with room, of every state with few commits.
LEMMA HistoryWhileFew ==
  Spec => [](FewCommits => TypeOK /\ LInv /\ SerialHistory)
<1> DEFINE kept == FewCommits => TidInv /\ SerialHistory
<1>1. Init /\ CountInv => kept
  BY InitType, InitTids, InitHistory, FewHaveRoom
<1>2. ASSUME TInv, TypeOK', LInv, CountInv, CountInv', kept, [Next]_vars
      PROVE  kept'
  <2> SUFFICES ASSUME FewCommits' PROVE TidInv' /\ SerialHistory'
    OBVIOUS
  <2>1. FewCommits /\ TypeOK
    BY <1>2, FewBefore DEF TInv
  <2>2. TidRoom /\ TidInv /\ SerialHistory
    BY <1>2, <2>1, FewHaveRoom
  <2> QED
    BY <1>2, <2>1, <2>2, TidStep, HistoryStep
<1>3. TInv => TypeOK
  BY DEF TInv
<1> HIDE DEF kept
<1>4. Spec => []kept
  BY <1>1, <1>2, <1>3, TypeInvariant, CountInvariant, PTL DEF Spec
<1>5. kept => (FewCommits => TidInv /\ SerialHistory)
  BY DEF kept
<1> QED
  BY <1>3, <1>4, <1>5, TypeInvariant, CountInvariant, PTL

\* So in every state with fewer than TIDMod - 1 commits in each epoch the
\* history is serializable, its versions are in the serial order, all reads
\* are of committed versions and the log holds the table.
THEOREM SerializableWhileFew ==
  Spec => [](FewCommits => /\ Serializable /\ VersionOrder
                           /\ ReadsCommittedVersion /\ LogHoldsTable)
<1>1. SerialHistory => Serializable
  BY DEF SerialHistory, SerialInv, Settled, Explained, Earlier, Serializable
<1>2. SerialHistory => VersionOrder /\ ReadsCommittedVersion
  BY DEF SerialHistory, SerialBase, ChainInv, ReadInv, Known,
     ReadsCommittedVersion
<1>3. TypeOK /\ LInv /\ SerialHistory => LogHoldsTable
  BY UnlockedRecord DEF SerialHistory, LogHoldsTable
<1> QED
  BY <1>1, <1>2, <1>3, HistoryWhileFew, PTL
=============================================================================
