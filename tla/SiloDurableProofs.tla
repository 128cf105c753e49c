------------------------- MODULE SiloDurableProofs -------------------------
(***************************************************************************)
(* Transactions and their log together: SiloDurable keeps the contract of  *)
(* the write-ahead log, and so what the durable epoch covers is on disk, a *)
(* prefix of the serial order, and enough to rebuild every record, for any *)
(* workers, loggers, records and procedures.                               *)
(***************************************************************************)
EXTENDS SiloDurable, SiloSerialProofs

\* What is proved about the write-ahead log in GroupCommit.
GP == INSTANCE GroupCommitProofs
        WITH committed <- Items(log), durable <- Items(durable)

-----------------------------------------------------------------------------
(* The transaction protocol, as far as the log is concerned.               *)

\* The records of t are handed over, or its worker is just about to do it.
Logged(t) ==
  \/ RecordsOfTxn(t) \subseteq log
  \/ /\ pc[t.worker] = "wal"
     /\ t.tid = mrctid[t.worker]
     /\ t.writes = writeSet[t.worker]

\* The clock starts at 1 and so do the epochs of transactions; a transaction
\* that waits for the log is in the epoch its worker has published.
CommitInv ==
  /\ \A w \in Workers :
       /\ pc[w] = "storeGE" => loadedGE[w] >= 1
       /\ pc[w] \in {"validate", "wal"} => ThLocalEpoch[w] >= 1
       /\ pc[w] = "wal" => mrctid[w].epoch = ThLocalEpoch[w]
  /\ \A t \in history : t.epoch >= 1 /\ Logged(t)

\* A step that brings no transaction nearer to the log.
Aside ==
  /\ UNCHANGED <<ThLocalEpoch, loadedGE, mrctid, history, log>>
  /\ \A u \in Workers :
       /\ pc'[u] \in {"storeGE", "validate", "wal"} => pc'[u] = pc[u]
       /\ pc[u] = "wal" => pc'[u] = "wal" /\ writeSet'[u] = writeSet[u]

\* A step beside the commit of a transaction disturbs nothing of CommitInv.
LEMMA AsideKeeps ==
  ASSUME TypeOK, CommitInv, Aside
  PROVE  CommitInv'
<1>1. \A t \in history : t.worker \in Workers
  BY DEF TypeOK, Committed
<1>2. ASSUME NEW t \in history'
      PROVE  t.epoch >= 1 /\ Logged(t)'
  BY <1>1, <1>2 DEF CommitInv, Aside, Logged, RecordsOfTxn
<1>3. ASSUME NEW w \in Workers
      PROVE  /\ pc'[w] = "storeGE" => loadedGE'[w] >= 1
             /\ pc'[w] \in {"validate", "wal"} => ThLocalEpoch'[w] >= 1
             /\ pc'[w] = "wal" => mrctid'[w].epoch = ThLocalEpoch'[w]
  BY DEF CommitInv, Aside
<1> QED
  BY <1>2, <1>3 DEF CommitInv

\* Which steps those are.
LEMMA AsideActions ==
  ASSUME TypeOK, NEW w \in Workers,
         \/ AdvanceEpoch \/ Begin(w) \/ ReadStep(w) \/ StartCommit(w)
         \/ \E k \in Keys : LockRecord(w, k) \/ LockFail(w, k)
         \/ ValidateRead(w) \/ ValidateFail(w)
         \/ \E k \in Keys : UnlockRecord(w, k)
         \/ Abort(w) \/ EndTxn(w)
         \/ \E k \in Keys : InstallVal(w, k) \/ InstallTid(w, k)
         \/ UNCHANGED vars
  PROVE  Aside
<1>1. CASE AdvanceEpoch \/ UNCHANGED vars
  BY <1>1 DEF AdvanceEpoch, vars, epochVars, setVars, histVars, Aside
<1>2. CASE Begin(w) \/ StartCommit(w) \/ ValidateRead(w) \/ ValidateFail(w)
  BY <1>2 DEF Begin, StartCommit, ValidateRead, Validating, ValidateFail,
     Goto, epochVars, setVars, histVars, Aside, TypeOK
<1>3. CASE LocalOp(w)
  BY <1>3 DEF LocalOp, Executing, NextOp, epochVars, histVars, Aside, TypeOK
<1>4. CASE ReadLoad(w) \/ ReadCopy(w) \/ ReadRetry(w)
  BY <1>4, SMTT(30) DEF ReadLoad, Executing, ReadCopy, ReadRetry, Goto, epochVars,
     setVars, histVars, Aside, TypeOK
<1>5. CASE ReadDone(w)
  BY <1>5 DEF ReadDone, NextOp, Goto, epochVars, histVars, Aside, TypeOK
<1>6. CASE Abort(w) \/ EndTxn(w)
  BY <1>6 DEF Abort, EndTxn, Goto, epochVars, histVars, Aside, TypeOK
<1>7. ASSUME NEW k \in Keys,
             LockRecord(w, k) \/ LockFail(w, k) \/ UnlockRecord(w, k)
      PROVE  Aside
  BY <1>7 DEF LockRecord, LockFail, UnlockRecord, Goto, epochVars, setVars,
     histVars, Aside, TypeOK
<1>8. ASSUME NEW k \in Keys, InstallVal(w, k) \/ InstallTid(w, k)
      PROVE  Aside
  BY <1>8 DEF InstallVal, InstallTid, Goto, epochVars, setVars, histVars,
     Aside, TypeOK
<1> QED
  BY <1>1, <1>2, <1>3, <1>4, <1>5, <1>6, <1>7, <1>8 DEF ReadStep

\* CommitInv is inductive.
LEMMA CommitInvStep ==
  ASSUME TypeOK, TidEpochInv, CommitInv, [Next]_vars
  PROVE  CommitInv'
<1>1. \A t \in history : t.worker \in Workers
  BY DEF TypeOK, Committed
<1>2. CASE Aside
  BY <1>2, AsideKeeps
<1>3. ASSUME NEW w \in Workers, EpochWork(w) PROVE CommitInv'
  <2>1. /\ UNCHANGED <<pc, loadedGE, mrctid, history, log, writeSet>>
        /\ pc[w] = "idle"
        /\ \A u \in Workers \ {w} : ThLocalEpoch'[u] = ThLocalEpoch[u]
    BY <1>3 DEF EpochWork, setVars, histVars, TypeOK
  <2> QED
    BY <2>1 DEF CommitInv, Logged, RecordsOfTxn
<1>4. ASSUME NEW w \in Workers, LoadGE(w) PROVE CommitInv'
  <2>1. /\ UNCHANGED <<ThLocalEpoch, mrctid, history, log, writeSet>>
        /\ pc[w] = "lock" /\ pc'[w] = "storeGE" /\ loadedGE'[w] >= 1
        /\ \A u \in Workers \ {w} : pc'[u] = pc[u] /\ loadedGE'[u] = loadedGE[u]
    BY <1>4 DEF LoadGE, Goto, epochVars, setVars, TypeOK
  <2> QED
    BY <1>1, <2>1 DEF CommitInv, Logged, RecordsOfTxn
<1>5. ASSUME NEW w \in Workers, StoreThLocalEpoch(w) PROVE CommitInv'
  <2>1. /\ UNCHANGED <<mrctid, history, log, writeSet>>
        /\ pc[w] = "storeGE" /\ pc'[w] = "validate"
        /\ ThLocalEpoch'[w] = loadedGE[w]
        /\ \A u \in Workers \ {w} : /\ pc'[u] = pc[u]
                                     /\ loadedGE'[u] = loadedGE[u]
                                     /\ ThLocalEpoch'[u] = ThLocalEpoch[u]
    BY <1>5 DEF StoreThLocalEpoch, Goto, setVars, histVars, TypeOK
  <2> QED
    BY <1>1, <2>1 DEF CommitInv, Logged, RecordsOfTxn
<1>6. ASSUME NEW w \in Workers, CommitTid(w) PROVE CommitInv'
  <2> DEFINE t == [worker |-> w, stamp |-> stamp[w],
                   epoch |-> CommitEpoch(w), tid |-> mrctid'[w],
                   reads |-> readSet[w], writes |-> writeSet[w]]
  <2>1. history' = history \cup {t}
    BY <1>6 DEF CommitTid, TypeOK
  <2>2. /\ t.worker = w /\ t.epoch = ThLocalEpoch[w] /\ t.tid = mrctid'[w]
        /\ t.writes = writeSet[w]
    BY DEF CommitEpoch
  <2> HIDE DEF t
  <2>3. /\ UNCHANGED <<ThLocalEpoch, loadedGE, log, writeSet>>
        /\ pc[w] = "validate" /\ pc'[w] = "wal"
        /\ \A u \in Workers \ {w} : pc'[u] = pc[u]
    BY <1>6 DEF CommitTid, Goto, epochVars, setVars, TypeOK
  <2>4. /\ mrctid'[w].epoch = ThLocalEpoch[w]
        /\ \A u \in Workers \ {w} : mrctid'[u] = mrctid[u]
    BY <1>6, CommitInEpoch
  <2>5. ThLocalEpoch[w] >= 1
    BY <2>3 DEF CommitInv
  <2>6. ASSUME NEW x \in history' PROVE x.epoch >= 1 /\ Logged(x)'
    <3>1. CASE x = t
      BY <2>2, <2>3, <2>5, <3>1 DEF Logged
    <3>2. CASE x \in history
      BY <1>1, <2>3, <2>4, <3>2 DEF CommitInv, Logged, RecordsOfTxn
    <3> QED
      BY <2>1, <3>1, <3>2
  <2> QED
    BY <2>3, <2>4, <2>5, <2>6 DEF CommitInv
<1>7. ASSUME NEW w \in Workers, Wal(w) PROVE CommitInv'
  <2>1. /\ UNCHANGED <<ThLocalEpoch, loadedGE, mrctid, history, writeSet>>
        /\ pc[w] = "wal" /\ pc'[w] = "write"
        /\ \A u \in Workers \ {w} : pc'[u] = pc[u]
        /\ log' = log \cup {[tid |-> mrctid[w], key |-> k, val |-> w] :
                              k \in writeSet[w]}
    BY <1>7 DEF Wal, Goto, epochVars, setVars, histVars, TypeOK
  <2>2. ASSUME NEW t \in history PROVE Logged(t)'
    <3>1. CASE RecordsOfTxn(t) \subseteq log
      BY <2>1, <3>1 DEF Logged, RecordsOfTxn
    <3>2. CASE /\ t.worker = w /\ t.tid = mrctid[w] /\ t.writes = writeSet[w]
      BY <2>1, <3>2 DEF Logged, RecordsOfTxn
    <3>3. CASE /\ t.worker # w /\ pc[t.worker] = "wal"
               /\ t.tid = mrctid[t.worker] /\ t.writes = writeSet[t.worker]
      BY <1>1, <2>1, <3>3 DEF Logged
    <3> QED
      BY <3>1, <3>2, <3>3 DEF CommitInv, Logged
  <2> QED
    BY <2>1, <2>2 DEF CommitInv
<1> QED
  BY <1>2, <1>3, <1>4, <1>5, <1>6, <1>7, AsideActions, LeaderAssumption
  DEF Next, TxnStep, ValidationStep, WriteStep

\* It holds at first, when nobody is committing.
LEMMA CommitInvInit == Init => CommitInv
BY DEF Init, CommitInv

-----------------------------------------------------------------------------
(* SiloDurable is SiloCC with a log beside it.                             *)

LEMMA ProtocolStep ==
  ASSUME [DNext]_dvars
  PROVE  [Next]_vars
<1>1. ASSUME NEW w \in Workers, WorkerStep(w) PROVE [Next]_vars
  <2>1. CASE Push(w)
    BY <2>1 DEF Push, Next, TxnStep, WriteStep
  <2>2. CASE StoreCTIDW(w)
    BY <2>2 DEF StoreCTIDW
  <2>3. CASE WaitForBuffer(w)
    BY <2>3 DEF WaitForBuffer, Next
  <2>4. CASE OtherStep(w)
    BY <2>4 DEF OtherStep, Next, TxnStep, WriteStep
  <2> QED
    BY <1>1, <2>1, <2>2, <2>3, <2>4 DEF WorkerStep
<1>2. ASSUME NEW w \in Workers, Flush(w) PROVE [Next]_vars
  BY <1>2 DEF Flush
<1>3. ASSUME NEW l \in Loggers, AnnounceEpoch(l) PROVE [Next]_vars
  BY <1>3 DEF AnnounceEpoch
<1>4. CASE AdvanceEpoch \/ RaiseDurable \/ UNCHANGED dvars
  BY <1>4 DEF Next, RaiseDurable, dvars
<1> QED
  BY <1>1, <1>2, <1>3, <1>4 DEF DNext

\* Everything proved of the protocol holds of it above the log.
LEMMA ProtocolInside == DSpec => Spec
<1>1. DInit => Init
  BY DEF DInit
<1> QED
  BY <1>1, ProtocolStep, PTL DEF DSpec, Spec

ProtocolInv == TInv /\ EpochInv /\ OrderInv /\ CommitInv

\* Every invariant of the protocol holds of the composition.
LEMMA ProtocolInvariant == DSpec => []ProtocolInv
<1>1. TInv /\ OrderInv => TypeOK /\ TidEpochInv
  BY DEF TInv, OrderInv
<1>2. TypeOK /\ TidEpochInv /\ CommitInv /\ [Next]_vars => CommitInv'
  BY CommitInvStep
<1>3. Spec => []CommitInv
  BY <1>1, <1>2, CommitInvInit, OrderInvariant, PTL DEF Spec
<1> QED
  BY <1>3, OrderInvariant, ProtocolInside, PTL DEF ProtocolInv

-----------------------------------------------------------------------------
(* The contract of the write-ahead log.                                    *)

\* CTIDW follows the epoch a worker has published.
WalInv ==
  /\ floor \in [Workers -> Nat] /\ announced \in [Loggers -> Nat]
  /\ durable \subseteq log
  /\ \A w \in Workers : floor[w] <= ThLocalEpoch[w]

\* Nothing is handed over at first.
LEMMA WalInit == DInit => WalInv
BY DEF DInit, Init, G!Init, WalInv

\* The log is handed records by Push alone.
LEMMA LogFrame ==
  /\ \A w \in Workers : OtherStep(w) => UNCHANGED log
  /\ AdvanceEpoch => UNCHANGED log
BY DEF OtherStep, Begin, ReadStep, LocalOp, ReadLoad, ReadCopy, ReadDone,
   ReadRetry, ValidationStep, StartCommit, LockRecord, LockFail, LoadGE,
   StoreThLocalEpoch, ValidateRead, ValidateFail, UnlockRecord, Abort,
   CommitTid, InstallVal, InstallTid, EndTxn, AdvanceEpoch

\* The relation of protocol and log is inductive.
LEMMA WalStep ==
  ASSUME ProtocolInv, WalInv, [DNext]_dvars
  PROVE  WalInv'
<1>1. \A w \in Workers : /\ ThLocalEpoch[w] \in Nat /\ ThLocalEpoch'[w] \in Nat
                         /\ ThLocalEpoch[w] <= ThLocalEpoch'[w]
  BY ProtocolStep, EpochsGrow DEF ProtocolInv, OrderInv, TInv
<1>2. ASSUME NEW w \in Workers, StoreCTIDW(w) \/ WaitForBuffer(w)
      PROVE  WalInv'
  <2>1. /\ floor' = [floor EXCEPT ![w] = ThLocalEpoch'[w]]
        /\ UNCHANGED <<announced, durable, log>>
    BY <1>2 DEF StoreCTIDW, WaitForBuffer, EpochWork, vars, epochVars
  <2>2. floor' \in [Workers -> Nat]
    BY <1>1, <2>1 DEF WalInv
  <2>3. ASSUME NEW u \in Workers PROVE floor'[u] <= ThLocalEpoch'[u]
    <3>1. floor[u] \in Nat /\ floor[u] <= ThLocalEpoch[u]
      BY DEF WalInv
    <3>2. floor'[u] = IF u = w THEN ThLocalEpoch'[w] ELSE floor[u]
      BY <2>1 DEF WalInv
    <3> QED
      BY <1>1, <3>1, <3>2
  <2> QED
    BY <2>1, <2>2, <2>3 DEF WalInv
<1>3. ASSUME UNCHANGED floor,
             announced' \in [Loggers -> Nat], durable' \subseteq log'
      PROVE  WalInv'
  <2>1. ASSUME NEW w \in Workers PROVE floor'[w] <= ThLocalEpoch'[w]
    <3>1. floor[w] \in Nat /\ floor[w] <= ThLocalEpoch[w]
      BY DEF WalInv
    <3> QED
      BY <1>1, <1>3, <3>1
  <2> QED
    BY <1>3, <2>1 DEF WalInv
<1>4. ASSUME NEW w \in Workers, Push(w)
      PROVE  WalInv'
  BY <1>3, <1>4 DEF Push, Wal, walVars, WalInv
<1>5. ASSUME NEW w \in Workers, Flush(w)
      PROVE  WalInv'
  BY <1>3, <1>5 DEF Flush, RecordsOf, vars, WalInv
<1>6. ASSUME NEW l \in Loggers, AnnounceEpoch(l)
      PROVE  WalInv'
  <2>1. PICK e \in Nat : announced' = [announced EXCEPT ![l] = e]
    BY <1>6 DEF AnnounceEpoch, G!Announce, G!Announceable
  <2>2. UNCHANGED <<floor, durable, log>>
    BY <1>6 DEF AnnounceEpoch, G!Announce, vars
  <2> QED
    BY <1>3, <2>1, <2>2 DEF WalInv
<1>7. ASSUME UNCHANGED <<floor, announced, durable, log>>
      PROVE  WalInv'
  BY <1>3, <1>7 DEF WalInv
<1> QED
  BY <1>2, <1>4, <1>5, <1>6, <1>7, LogFrame
  DEF DNext, WorkerStep, walVars, RaiseDurable, dvars, vars

\* Each step of the composition is one the log's contract allows, or none of it.
LEMMA ContractStep ==
  ASSUME ProtocolInv, WalInv, [DNext]_dvars
  PROVE  [G!Next]_(G!vars)
<1>1. ASSUME UNCHANGED <<floor, log, durable, announced>>
      PROVE  [G!Next]_(G!vars)
  BY <1>1 DEF G!vars
<1>2. ASSUME NEW w \in Workers, Push(w)
      PROVE  [G!Next]_(G!vars)
  <2>1. ASSUME NEW x \in Items(log') \ Items(log)
        PROVE  G!Item(x) /\ x.worker = w /\ x.epoch >= floor[w]
    <3>1. PICK r \in log' \ log : x = ItemOf(r)
      BY DEF Items
    <3>2. r.tid = mrctid[w] /\ r.val = w
      BY <1>2, <3>1 DEF Push, Wal
    <3>3. /\ mrctid[w].epoch = ThLocalEpoch[w] /\ ThLocalEpoch[w] >= 1
          /\ ThLocalEpoch[w] \in Nat
      BY <1>2 DEF Push, Wal, ProtocolInv, CommitInv, TInv, TypeOK
    <3>4. floor[w] \in Nat /\ floor[w] <= ThLocalEpoch[w]
      BY DEF WalInv
    <3>5. x.worker = w /\ x.epoch = ThLocalEpoch[w]
      BY <3>1, <3>2, <3>3 DEF ItemOf
    <3> QED
      BY <3>3, <3>4, <3>5 DEF G!Item
  <2>2. Items(log') = Items(log) \cup (Items(log') \ Items(log))
    BY <1>2 DEF Push, Wal, Items
  <2>3. UNCHANGED <<floor, Items(durable), announced>>
    BY <1>2 DEF Push, walVars
  <2>4. G!Commit(w, Items(log)' \ Items(log))
    BY <2>1, <2>2, <2>3 DEF G!Commit, Items
  <2> QED
    BY <2>4 DEF G!Next
<1>3. ASSUME NEW w \in Workers, StoreCTIDW(w) \/ WaitForBuffer(w)
      PROVE  [G!Next]_(G!vars)
  <2>1. /\ floor' = [floor EXCEPT ![w] = ThLocalEpoch'[w]]
        /\ UNCHANGED <<log, durable, announced>>
    BY <1>3 DEF StoreCTIDW, WaitForBuffer, EpochWork, vars, epochVars
  <2>2. /\ ThLocalEpoch[w] \in Nat /\ ThLocalEpoch'[w] \in Nat
        /\ ThLocalEpoch[w] <= ThLocalEpoch'[w]
    BY ProtocolStep, EpochsGrow DEF ProtocolInv, OrderInv, TInv
  <2>3. floor[w] \in Nat /\ floor[w] <= ThLocalEpoch[w]
    BY DEF WalInv
  <2>4. floor'[w] = ThLocalEpoch'[w]
    BY <2>1 DEF WalInv
  <2>5. floor'[w] \in Nat /\ floor'[w] >= floor[w]
    BY <2>2, <2>3, <2>4
  <2>6. G!Advance(w, floor'[w])
    BY <2>1, <2>4, <2>5 DEF G!Advance
  <2> QED
    BY <2>6 DEF G!Next
<1>4. ASSUME NEW w \in Workers, Flush(w)
      PROVE  [G!Next]_(G!vars)
  <2>1. durable \subseteq durable' /\ durable' \subseteq log
        /\ UNCHANGED <<floor, log, announced>>
    BY <1>4 DEF Flush, RecordsOf, vars, WalInv
  <2>2. G!Flush(Items(durable)' \ Items(durable))
    BY <2>1 DEF G!Flush, Items
  <2> QED
    BY <2>2 DEF G!Next
<1>5. ASSUME NEW l \in Loggers, AnnounceEpoch(l)
      PROVE  [G!Next]_(G!vars)
  <2>1. PICK e \in 1 .. GlobalEpoch : G!Announce(l, e)
    BY <1>5 DEF AnnounceEpoch
  <2>2. announced'[l] = e
    BY <2>1 DEF G!Announce, WalInv
  <2>3. G!Announce(l, announced'[l])
    BY <2>1, <2>2
  <2> QED
    BY <2>3 DEF G!Next
<1> QED
  BY <1>1, <1>2, <1>3, <1>4, <1>5, LogFrame
  DEF DNext, WorkerStep, walVars, RaiseDurable, dvars, vars

\* Both invariants, of every behaviour of the composition.
LEMMA DurableInvariant == DSpec => [](ProtocolInv /\ WalInv)
<1>1. ProtocolInv /\ WalInv /\ [DNext]_dvars => WalInv'
  BY WalStep
<1> QED
  BY <1>1, WalInit, ProtocolInvariant, PTL DEF DSpec

\* Wherever the protocol stands, it keeps its half of the write-ahead log's
\* contract: no worker commits in an epoch before its CTIDW, and CTIDW never
\* goes back.
THEOREM ProtocolKeepsContract == DSpec => WalContract
<1>1. DInit => G!Init
  BY DEF DInit
<1>2. ProtocolInv /\ WalInv /\ [DNext]_dvars => [G!Next]_(G!vars)
  BY ContractStep
<1> QED
  BY <1>1, <1>2, DurableInvariant, PTL DEF DSpec, WalContract, G!Spec

-----------------------------------------------------------------------------
(* What is acknowledged.                                                   *)

\* By that contract, what the loggers announce is complete and on disk.
LEMMA AnnouncedInvariant == DSpec => []GP!GInv
<1>1. GP!GInv /\ [G!Next]_(G!vars) => GP!GInv'
  BY GP!GInvStep DEF G!Next, GP!Next, G!vars, GP!vars, G!Commit, GP!Commit,
     G!Item, GP!Item, G!Advance, GP!Advance, G!Flush, GP!Flush, G!Announce,
     GP!Announce, G!Announceable, GP!Announceable
<1>2. G!Init => GP!GInv
  BY GP!GInvInit DEF G!Init, GP!Init
<1> QED
  BY <1>1, <1>2, ProtocolKeepsContract, PTL DEF WalContract, G!Spec

\* The durable epoch is no more than any logger has announced.
AckInv ==
  DurableEpoch \in Nat /\ \A l \in Loggers : DurableEpoch <= announced[l]

\* The durable epoch only follows what all loggers have announced.
LEMMA AckStep ==
  ASSUME WalInv, AckInv, TypeOK, [DNext]_dvars
  PROVE  AckInv'
<1>1. CASE UNCHANGED <<DurableEpoch, announced>>
  BY <1>1 DEF AckInv
<1>2. ASSUME NEW l \in Loggers, AnnounceEpoch(l) PROVE AckInv'
  <2>1. PICK e \in Nat : /\ e > announced[l]
                         /\ announced' = [announced EXCEPT ![l] = e]
    BY <1>2 DEF AnnounceEpoch, G!Announce, G!Announceable
  <2>2. \A k \in Loggers : announced[k] \in Nat /\ announced'[k] >= announced[k]
    BY <2>1 DEF WalInv
  <2>3. \A k \in Loggers : announced'[k] \in Nat
    BY <2>1 DEF WalInv
  <2>4. DurableEpoch' = DurableEpoch
    BY <1>2 DEF AnnounceEpoch
  <2> QED
    BY <2>2, <2>3, <2>4 DEF AckInv
<1>3. CASE RaiseDurable
  <2>1. PICK e \in DurableEpoch + 1 .. GlobalEpoch :
          AllAnnounced(e) /\ DurableEpoch' = e
    BY <1>3 DEF RaiseDurable
  <2>2. e \in Nat
    BY DEF AckInv, TypeOK
  <2>3. \A l \in Loggers : announced[l] \in Nat
    BY DEF WalInv
  <2>4. announced' = announced
    BY <1>3 DEF RaiseDurable, walVars
  <2> QED
    BY <2>1, <2>2, <2>3, <2>4 DEF AckInv, AllAnnounced
<1> QED
  BY <1>1, <1>2, <1>3 DEF DNext, WorkerStep, Push, StoreCTIDW, WaitForBuffer,
     walVars, Flush, dvars

\* All invariants of the composition together.
LEMMA AckInvariant == DSpec => [](ProtocolInv /\ WalInv /\ GP!GInv /\ AckInv)
<1>1. DInit => AckInv
  BY DEF DInit, G!Init, AckInv
<1>2. ProtocolInv => TypeOK
  BY DEF ProtocolInv, TInv
<1>3. WalInv /\ AckInv /\ TypeOK /\ [DNext]_dvars => AckInv'
  BY AckStep
<1> QED
  BY <1>1, <1>2, <1>3, DurableInvariant, AnnouncedInvariant, PTL DEF DSpec

\* No transaction the durable epoch covers has a record that is not in a log
\* file, whatever its worker and its logger: neither in a buffer nor still to
\* be handed over.
THEOREM AcknowledgedDurable == DSpec => []AcknowledgedOnDisk
<1>1. ASSUME ProtocolInv, WalInv, GP!GInv, AckInv
      PROVE  AcknowledgedOnDisk
  <2> SUFFICES ASSUME NEW t \in Acknowledged
               PROVE  RecordsOfTxn(t) \subseteq durable
    BY DEF AcknowledgedOnDisk
  <2> DEFINE w == t.worker
             l == LoggerOf[w]
  <2>1. /\ t \in history /\ t.epoch <= DurableEpoch
        /\ w \in Workers /\ t.epoch \in Nat
    BY <1>1 DEF Acknowledged, ProtocolInv, TInv, TypeOK, Committed
  <2>2. l \in Loggers
    BY <2>1, DurableAssumption
  <2>3. t.epoch >= 1 /\ t.tid.epoch = t.epoch /\ Logged(t)
    BY <1>1, <2>1 DEF ProtocolInv, CommitInv, OrderInv
  <2>4. /\ announced[l] \in Nat /\ DurableEpoch \in Nat
        /\ DurableEpoch <= announced[l]
    BY <1>1, <2>2 DEF AckInv, WalInv
  <2>5. t.epoch <= announced[l]
    BY <2>1, <2>4
  <2>6. RecordsOfTxn(t) \subseteq log
    <3>1. SUFFICES ASSUME pc[w] = "wal", t.tid = mrctid[w]
                   PROVE  FALSE
      BY <2>3 DEF Logged
    <3>2. t.epoch = ThLocalEpoch[w]
      BY <1>1, <2>1, <2>3, <3>1 DEF ProtocolInv, CommitInv
    <3>3. floor[w] \in Nat /\ floor[w] <= ThLocalEpoch[w]
      BY <1>1, <2>1 DEF WalInv
    <3>4. announced[l] = 0 \/ announced[l] < floor[w]
      BY <1>1, <2>1, <2>2 DEF GP!GInv, GP!AnnouncedClosed
    <3> QED
      BY <2>1, <2>3, <2>4, <2>5, <3>2, <3>3, <3>4
  <2> SUFFICES ASSUME NEW r \in RecordsOfTxn(t) PROVE r \in durable
    OBVIOUS
  <2>7. r.val = w /\ r.tid = t.tid
    BY DEF RecordsOfTxn
  <2>8. ItemOf(r) \in Items(log)
    BY <2>6 DEF Items
  <2>9. ItemOf(r).worker = w /\ ItemOf(r).epoch = t.epoch
    BY <2>3, <2>7 DEF ItemOf
  <2>10. ItemOf(r) \in Items(durable)
    BY <1>1, <2>2, <2>5, <2>8, <2>9 DEF GP!GInv, GP!AnnouncedDurable
  <2>11. PICK q \in durable : ItemOf(r) = ItemOf(q)
    BY <2>10 DEF Items
  <2>12. q = r
    BY <2>11 DEF ItemOf
  <2> QED
    BY <2>12
<1> QED
  BY <1>1, AckInvariant, PTL

\* What the durable epoch covers is a prefix of the serial order.
THEOREM AcknowledgedPrefix == DSpec => []DurablePrefix
<1>1. ASSUME ProtocolInv, AckInv
      PROVE  DurablePrefix
  <2> SUFFICES ASSUME NEW t \in Acknowledged, NEW u \in history,
                      u.stamp <= t.stamp
               PROVE  u \in Acknowledged
    BY DEF DurablePrefix
  <2>1. t \in history /\ t.epoch <= DurableEpoch
    BY DEF Acknowledged
  <2>2. /\ t.stamp \in Nat /\ t.epoch \in Nat
        /\ u.stamp \in Nat /\ u.epoch \in Nat /\ DurableEpoch \in Nat
    BY <1>1, <2>1 DEF ProtocolInv, TInv, TypeOK, Committed, AckInv
  <2>3. IsPoint(t.stamp, t.epoch) /\ IsPoint(u.stamp, u.epoch)
    BY <2>1 DEF IsPoint
  <2>4. u.epoch <= t.epoch
    BY <1>1, <2>2, <2>3 DEF ProtocolInv, OrderInv, PointInv
  <2> QED
    BY <2>1, <2>2, <2>4 DEF Acknowledged
<1> QED
  BY <1>1, AckInvariant, PTL

\* A replay of the log files writes the last version of each record, given
\* that versions, log records and acknowledged epochs keep to the serial order.
LEMMA ReplayRebuilds ==
  ASSUME ProtocolInv, WalInv, AcknowledgedOnDisk, SerialHistory
  PROVE  RecoveryRebuilds
<1>1. StampInv /\ VersionOrder /\ LogInv
  BY DEF SerialHistory, SerialBase, ChainInv
<1>2. TypeOK /\ \A t \in history : t.tid.epoch = t.epoch
  BY <1>1 DEF ProtocolInv, TInv, OrderInv
<1> SUFFICES ASSUME NEW k \in Keys
             PROVE  LET writers == {t \in Acknowledged : k \in t.writes}
                        replayed == {r \in durable :
                                       r.key = k /\ r.tid.epoch <= DurableEpoch}
                    IN  /\ writers = {} => replayed = {}
                        /\ \A t \in writers :
                             (\A u \in writers : u.stamp <= t.stamp) =>
                               \E r \in replayed :
                                 /\ r.tid = t.tid /\ r.val = t.worker
                                 /\ \A q \in replayed : TidLeq(q.tid, r.tid)
  BY DEF RecoveryRebuilds
<1> DEFINE writers == {t \in Acknowledged : k \in t.writes}
           replayed == {r \in durable :
                          r.key = k /\ r.tid.epoch <= DurableEpoch}
<1>3. writers \subseteq WritersOf(k)
  BY DEF Acknowledged, WritersOf
<1>4. ASSUME NEW q \in replayed
      PROVE  \E u \in writers : q.tid = u.tid
  <2>1. q \in log
    BY <1>1 DEF WalInv
  <2>2. PICK u \in WritersOf(k) : q = RecordOf(u, k)
    BY <1>1, <2>1 DEF LogInv
  <2>3. q.tid = u.tid /\ u \in history /\ k \in u.writes
    BY <2>2 DEF RecordOf, WritersOf
  <2>4. u.epoch <= DurableEpoch
    BY <1>2, <2>3
  <2> QED
    BY <2>3, <2>4 DEF Acknowledged
<1>5. ASSUME NEW t \in writers, \A u \in writers : u.stamp <= t.stamp
      PROVE  \E r \in replayed : /\ r.tid = t.tid /\ r.val = t.worker
                                 /\ \A q \in replayed : TidLeq(q.tid, r.tid)
  <2> DEFINE r == RecordOf(t, k)
  <2>1. r.key = k /\ r.tid = t.tid /\ r.val = t.worker
    BY DEF RecordOf
  <2>2. t \in history /\ t.epoch <= DurableEpoch /\ k \in t.writes
    BY DEF Acknowledged
  <2>3. r \in durable
    BY <1>1, <2>2 DEF AcknowledgedOnDisk, RecordsOfTxn, RecordOf
  <2>4. r \in replayed
    BY <1>2, <2>1, <2>2, <2>3
  <2>5. ASSUME NEW q \in replayed PROVE TidLeq(q.tid, r.tid)
    <3>1. PICK u \in writers : q.tid = u.tid
      BY <1>4
    <3>2. u \in WritersOf(k) /\ t \in WritersOf(k) /\ u.stamp <= t.stamp
      BY <1>3, <1>5
    <3> QED
      BY <1>1, <1>2, <2>1, <3>1, <3>2, VersionsOrdered
  <2> HIDE DEF r
  <2> QED
    BY <2>1, <2>4, <2>5
<1> QED
  BY <1>4, <1>5

\* Replaying the log files up to the durable epoch gives every record the last
\* of its acknowledged writes: all its writers that count are on disk, nothing
\* else is below the durable epoch, and identifiers follow the serial order.
THEOREM RecoveryRebuildsTable == DSpec /\ []TidRoom => []RecoveryRebuilds
<1>1. ProtocolInv /\ WalInv /\ AcknowledgedOnDisk /\ SerialHistory
        => RecoveryRebuilds
  BY ReplayRebuilds
<1> QED
  BY <1>1, ProtocolInside, AckInvariant, AcknowledgedDurable,
     HistoryInvariant, PTL

\* The same of every state with few commits in each epoch.
THEOREM RecoveryWhileFew == DSpec => [](FewCommits => RecoveryRebuilds)
<1>1. ProtocolInv /\ WalInv /\ AcknowledgedOnDisk /\ SerialHistory
        => RecoveryRebuilds
  BY ReplayRebuilds
<1> QED
  BY <1>1, ProtocolInside, AckInvariant, AcknowledgedDurable,
     HistoryWhileFew, PTL
=============================================================================
