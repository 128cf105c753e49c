---------------------------- MODULE SiloCCProofs ----------------------------
(***************************************************************************)
(* The concurrency control for every set of workers, keys and procedures:  *)
(* the order of transaction identifiers and the identifier writePhase      *)
(* chooses; the types of SiloCC; the record locks, and what rests on them: *)
(* identifiers grow; and the epoch protocol: the clock and the published   *)
(* epochs are the abstract epoch clock, and transactions commit in a live  *)
(* epoch.                                                                  *)
(***************************************************************************)
EXTENDS SiloCCProps, TLAPS

-----------------------------------------------------------------------------
(* Transaction identifiers.                                                *)

\* The identifiers the code starts from are identifiers.
LEMMA InitialTids == ZeroTid \in Tid /\ InitTid \in Tid
BY TIDModAssumption DEF ZeroTid, InitTid, Tid

\* The order of TIDwords, lock and flag bits aside, is a strict total order.
LEMMA TidLessTransitive ==
  ASSUME NEW a \in Tid, NEW b \in Tid, NEW c \in Tid,
         TidLeq(a, b), TidLeq(b, c)
  PROVE  /\ TidLeq(a, c)
         /\ TidLess(a, b) \/ TidLess(b, c) => TidLess(a, c)
BY TIDModAssumption DEF TidLess, TidLeq, Tid

\* The order of identifiers is total and antisymmetric.
LEMMA TidLessTotal ==
  ASSUME NEW a \in Tid, NEW b \in Tid
  PROVE  /\ TidLeq(a, b) \/ TidLess(b, a)
         /\ ~ (TidLess(a, b) /\ TidLeq(b, a))
<1>1. a = [epoch |-> a.epoch, TID |-> a.TID] /\ b = [epoch |-> b.epoch, TID |-> b.TID]
  BY DEF Tid
<1>2. a.epoch \in Nat /\ a.TID \in Nat /\ b.epoch \in Nat /\ b.TID \in Nat
  BY TIDModAssumption DEF Tid
<1>3. a.epoch = b.epoch /\ a.TID = b.TID => a = b
  BY <1>1
<1> QED
  BY <1>2, <1>3 DEF TidLess, TidLeq

\* std::max returns an upper bound of its arguments, and one of them.
LEMMA MaxTidBound ==
  ASSUME NEW a \in Tid, NEW b \in Tid
  PROVE  /\ MaxTid(a, b) \in {a, b}
         /\ MaxTid(a, b) \in Tid
         /\ TidLeq(a, MaxTid(a, b))
         /\ TidLeq(b, MaxTid(a, b))
<1>1. CASE TidLess(a, b)
  BY <1>1 DEF MaxTid, TidLeq
<1>2. CASE ~TidLess(a, b)
  BY <1>2, TidLessTotal DEF MaxTid, TidLeq
<1> QED BY <1>1, <1>2

\* Incrementing the counter stays inside its field, and increases the
\* identifier as long as the counter has not reached its last value.
LEMMA BumpGrows ==
  ASSUME NEW t \in Tid
  PROVE  /\ Bump(t) \in Tid
         /\ Bump(t).epoch = t.epoch
         /\ t.TID < TIDMod - 1 => TidLess(t, Bump(t))
<1>1. t.TID \in 0 .. TIDMod - 1 /\ t.epoch \in Nat /\ t = [epoch |-> t.epoch, TID |-> t.TID]
  BY DEF Tid
<1>2. (t.TID + 1) % TIDMod \in 0 .. TIDMod - 1
  BY <1>1, TIDModAssumption
<1>3. Bump(t) = [epoch |-> t.epoch, TID |-> (t.TID + 1) % TIDMod]
  BY <1>1 DEF Bump
<1>4. t.TID < TIDMod - 1 => (t.TID + 1) % TIDMod = t.TID + 1
  BY <1>1, TIDModAssumption
<1> QED
  BY <1>1, <1>2, <1>3, <1>4 DEF Tid, TidLess

\* The identifier of a transaction is above everything it locked, everything
\* it validated and everything its worker issued, and not below its epoch.
LEMMA ChooseTidBound ==
  ASSUME NEW mw \in Tid, NEW mr \in Tid, NEW last \in Tid, NEW e \in Nat
  PROVE  /\ ChooseTid(mw, mr, last, e) \in Tid
         /\ e <= ChooseTid(mw, mr, last, e).epoch
         /\ mw.TID < TIDMod - 1 /\ mr.TID < TIDMod - 1 =>
              /\ TidLess(mw, ChooseTid(mw, mr, last, e))
              /\ TidLess(mr, ChooseTid(mw, mr, last, e))
         /\ last.TID < TIDMod - 1 => TidLess(last, ChooseTid(mw, mr, last, e))
<1> DEFINE m == MaxTid(mw, mr)
           a == Bump(m)
           b == Bump(last)
           c == [epoch |-> e, TID |-> 0]
           ab == MaxTid(a, b)
           r == MaxTid(ab, c)
<1>1. ChooseTid(mw, mr, last, e) = r
  BY DEF ChooseTid
<1>2. m \in Tid /\ m \in {mw, mr} /\ TidLeq(mw, m) /\ TidLeq(mr, m)
  BY MaxTidBound
<1>3. a \in Tid /\ b \in Tid /\ c \in Tid
  BY <1>2, BumpGrows, TIDModAssumption DEF Tid
<1> HIDE DEF m, a, b, c
<1>4. ab \in Tid /\ TidLeq(a, ab) /\ TidLeq(b, ab)
  BY <1>3, MaxTidBound
<1> HIDE DEF ab
<1>5. r \in Tid /\ TidLeq(ab, r) /\ TidLeq(c, r)
  BY <1>3, <1>4, MaxTidBound
<1> HIDE DEF r
<1>6. TidLeq(a, r) /\ TidLeq(b, r)
  BY <1>3, <1>4, <1>5, TidLessTransitive
<1>7. e <= r.epoch
  BY <1>3, <1>5 DEF TidLeq, TidLess, c, Tid
<1>8. last.TID < TIDMod - 1 => TidLess(last, r)
  <2>1. last.TID < TIDMod - 1 => TidLess(last, b)
    BY BumpGrows DEF b
  <2> QED BY <2>1, <1>3, <1>5, <1>6, TidLessTransitive DEF TidLeq
<1>9. ASSUME mw.TID < TIDMod - 1, mr.TID < TIDMod - 1
      PROVE  TidLess(mw, r) /\ TidLess(mr, r)
  <2>1. TidLess(m, a)
    BY <1>2, <1>9, BumpGrows DEF a
  <2>2. TidLess(m, r)
    BY <2>1, <1>2, <1>3, <1>5, <1>6, TidLessTransitive DEF TidLeq
  <2> QED BY <2>2, <1>2, <1>5, TidLessTransitive DEF TidLeq
<1> QED BY <1>1, <1>5, <1>7, <1>8, <1>9

\* The identifier is in the epoch of the transaction, unless something it
\* has met or issued is ahead of that.
LEMMA ChooseTidEpoch ==
  ASSUME NEW mw \in Tid, NEW mr \in Tid, NEW last \in Tid, NEW e \in Nat,
         mw.epoch <= e, mr.epoch <= e, last.epoch <= e
  PROVE  ChooseTid(mw, mr, last, e).epoch = e
<1> DEFINE m == MaxTid(mw, mr)
           a == Bump(m)
           b == Bump(last)
           c == [epoch |-> e, TID |-> 0]
           ab == MaxTid(a, b)
           r == MaxTid(ab, c)
<1>1. ChooseTid(mw, mr, last, e) = r
  BY DEF ChooseTid
<1>2. m \in Tid /\ m \in {mw, mr}
  BY MaxTidBound
<1>3. a \in Tid /\ b \in Tid /\ a.epoch <= e /\ b.epoch <= e
  BY <1>2, BumpGrows
<1>4. c \in Tid /\ c.epoch = e
  BY TIDModAssumption DEF Tid
<1> HIDE DEF m, a, b, c
<1>5. ab \in Tid /\ ab.epoch <= e
  BY <1>3, MaxTidBound
<1> HIDE DEF ab
<1>6. r \in {ab, c} /\ TidLeq(c, r) /\ r \in Tid
  BY <1>4, <1>5, MaxTidBound
<1> HIDE DEF r
<1>7. r.epoch <= e /\ r.epoch \in Nat
  BY <1>4, <1>5, <1>6 DEF Tid
<1>8. e <= r.epoch
  BY <1>4, <1>6, <1>7 DEF TidLeq, TidLess
<1> QED
  BY <1>1, <1>7, <1>8

-----------------------------------------------------------------------------
\* The workers between their serialization point and their identifier.
InFlight == {w \in Workers : pc[w] \in {"storeGE", "validate"}}

-----------------------------------------------------------------------------
(* Type correctness.                                                       *)

LEMMA InitType == Init => TypeOK
BY InitialTids, TIDModAssumption DEF Init, TypeOK, Vals, Phases

\* What an operation in progress is: the program counter stays inside the
\* procedure between the load and the end of a read.
OpInRange ==
  \A w \in Workers :
    /\ pc[w] \in {"copy", "check"} => opi[w] \in DOMAIN pro[w]
    /\ pc[w] = "exec" => opi[w] \in 1 .. Len(pro[w]) + 1

TInv == TypeOK /\ OpInRange

\* What a worker executes is a sequence of operations, perhaps empty.
LEMMA ProcIsSeq ==
  ASSUME NEW p \in Procs \cup {<<>>}
  PROVE  /\ p \in Seq(Op)
         /\ Len(p) \in Nat /\ DOMAIN p = 1 .. Len(p)
<1>1. <<>> \in Seq(Op)
  OBVIOUS
<1>2. p \in Seq(Op)
  BY <1>1, ProcsAssumption, Zenon
<1> QED
  BY <1>2

\* The operation at hand is one of the procedure.
LEMMA ThisOpType ==
  ASSUME TypeOK, NEW w \in Workers, opi[w] \in DOMAIN pro[w]
  PROVE  /\ ThisOp(w) \in Op /\ ThisOp(w).key \in Keys
         /\ ThisOp(w).ope \in Ope
         /\ WritesOf(ThisOp(w)) \subseteq Keys
<1>1. ThisOp(w) \in Op
  BY ProcIsSeq, SMTT(30) DEF ThisOp, TypeOK
<1> QED
  BY <1>1 DEF Op, WritesOf

\* Types are preserved by every step.
LEMMA TypeStep ==
  ASSUME TInv, [Next]_vars
  PROVE  TInv'
<1> USE DEF TInv
<1>1. CASE AdvanceEpoch
  BY <1>1 DEF AdvanceEpoch, TypeOK, OpInRange, recVars, opVars, setVars,
     loopVars, readVars, maxVars, histVars
<1>2. ASSUME NEW w \in Workers, EpochWork(w) PROVE TInv'
  BY <1>2 DEF EpochWork, TypeOK, OpInRange, recVars, opVars, setVars,
     loopVars, readVars, maxVars, histVars
<1>3. ASSUME NEW w \in Workers, Begin(w) PROVE TInv'
  <2>1. pro' \in [Workers -> Procs \cup {<<>>}]
    <3>1. CASE pro[w] = <<>>
      <4>1. PICK p \in Procs : pro' = [pro EXCEPT ![w] = p]
        BY <1>3, <3>1 DEF Begin
      <4> QED BY <4>1 DEF TypeOK
    <3>2. CASE pro[w] # <<>>
      BY <1>3, <3>2 DEF Begin, TypeOK
    <3> QED BY <3>1, <3>2
  <2>2. TypeOK'
    <3>1. /\ ntx' \in [Workers -> Nat] /\ opi' \in [Workers -> Nat \ {0}]
          /\ pc' \in [Workers -> Phases]
      BY <1>3 DEF Begin, Goto, Phases, TypeOK
    <3>2. maxW' \in [Workers -> Tid] /\ maxR' \in [Workers -> Tid]
      BY <1>3, InitialTids DEF Begin, TypeOK
    <3>3. UNCHANGED <<epochVars, recVars, setVars, loopVars, readVars,
                      loadedGE, mrctid, log, histVars>>
      BY <1>3 DEF Begin
    <3> QED
      BY <2>1, <3>1, <3>2, <3>3 DEF TypeOK, epochVars, recVars, setVars,
         loopVars, readVars, histVars
  <2>3. \A u \in Workers \ {w} : /\ pc'[u] = pc[u] /\ opi'[u] = opi[u]
                                 /\ pro'[u] = pro[u]
    BY <1>3 DEF Begin, Goto, TypeOK
  <2>4. pc'[w] = "exec" /\ opi'[w] = 1 /\ Len(pro'[w]) \in Nat
    BY <1>3, <2>1, ProcIsSeq DEF Begin, Goto, TypeOK
  <2>5. OpInRange'
    BY <2>3, <2>4 DEF OpInRange
  <2> QED BY <2>2, <2>5
<1>4. ASSUME NEW w \in Workers, LocalOp(w) PROVE TInv'
  <2>1. opi[w] \in 1 .. Len(pro[w]) /\ Len(pro[w]) \in Nat
    BY <1>4, ProcIsSeq DEF LocalOp, Executing, TypeOK
  <2>2. writeSet[w] \cup WritesOf(ThisOp(w)) \subseteq Keys
    BY <1>4, ThisOpType DEF LocalOp, Executing, TypeOK
  <2>3. TypeOK'
    BY <1>4, <2>1, <2>2, SMTT(30) DEF LocalOp, NextOp, TypeOK, epochVars, recVars,
       loopVars, readVars, maxVars, histVars
  <2>4. /\ pc' = pc /\ pro' = pro
        /\ opi' = [opi EXCEPT ![w] = opi[w] + 1] /\ pc[w] = "exec"
    BY <1>4 DEF LocalOp, Executing, NextOp
  <2>5. opi'[w] = opi[w] + 1 /\ \A u \in Workers \ {w} : opi'[u] = opi[u]
    BY <2>4 DEF TypeOK
  <2>6. opi[w] + 1 \in 1 .. Len(pro[w]) + 1
    BY <2>1
  <2>7. OpInRange'
    BY <2>4, <2>5, <2>6 DEF OpInRange
  <2> QED BY <2>3, <2>7
<1>5. ASSUME NEW w \in Workers, ReadLoad(w) PROVE TInv'
  BY <1>5, ThisOpType
  DEF ReadLoad, Executing, Goto, Phases, TypeOK, OpInRange, epochVars,
     recVars, opVars, setVars, loopVars, maxVars, histVars
<1>6. ASSUME NEW w \in Workers, ReadCopy(w) PROVE TInv'
  BY <1>6, ThisOpType DEF ReadCopy, Goto, Phases, TypeOK, OpInRange, epochVars,
     recVars, opVars, setVars, loopVars, maxVars, histVars
<1>7. ASSUME NEW w \in Workers, ReadDone(w) PROVE TInv'
  <2>1. opi[w] \in 1 .. Len(pro[w]) /\ Len(pro[w]) \in Nat
    BY <1>7, ProcIsSeq DEF ReadDone, OpInRange, TypeOK
  <2>2. writeSet[w] \cup WritesOf(ThisOp(w)) \subseteq Keys
    BY <1>7, ThisOpType DEF ReadDone, OpInRange, TypeOK
  <2> DEFINE r == [key |-> ThisOp(w).key, val |-> buf[w], tid |-> expected[w]]
  <2>3. r \in ReadElement
    BY <1>7, ThisOpType DEF ReadDone, OpInRange, TypeOK, ReadElement
  <2> HIDE DEF r
  <2>4. Append(readSet[w], r) \in Seq(ReadElement)
    BY <2>3 DEF TypeOK
  <2>5. readSet' = [readSet EXCEPT ![w] = Append(readSet[w], r)]
    BY <1>7 DEF ReadDone, r
  <2>6. readSet' \in [Workers -> Seq(ReadElement)]
    BY <2>4, <2>5 DEF TypeOK
  <2>7. TypeOK'
    BY <1>7, <2>1, <2>2, <2>6, SMTT(30) DEF ReadDone, NextOp, Goto, Phases, TypeOK,
       epochVars, recVars, loopVars, readVars, maxVars, histVars
  <2>8. OpInRange'
    BY <1>7, <2>1 DEF ReadDone, Goto, NextOp, OpInRange, TypeOK
  <2> QED BY <2>7, <2>8
<1>8. ASSUME NEW w \in Workers, ReadRetry(w) PROVE TInv'
  <2>1. /\ opi[w] \in 1 .. Len(pro[w]) /\ opi[w] \in DOMAIN pro[w]
        /\ Len(pro[w]) \in Nat
    BY <1>8, ProcIsSeq DEF ReadRetry, OpInRange, TypeOK
  <2>2. tidword[ThisOp(w).key].tid \in Tid
    BY <1>8, <2>1, ThisOpType DEF TypeOK
  <2>3. TypeOK'
    BY <1>8, <2>2 DEF ReadRetry, Goto, Phases, TypeOK, epochVars, recVars,
       opVars, setVars, loopVars, maxVars, histVars
  <2>4. OpInRange'
    BY <1>8, <2>1 DEF ReadRetry, Goto, opVars, OpInRange, TypeOK
  <2> QED BY <2>3, <2>4
<1>9. ASSUME NEW w \in Workers, StartCommit(w) PROVE TInv'
  BY <1>9 DEF StartCommit, Goto, Phases, TypeOK, OpInRange, epochVars, recVars,
     opVars, setVars, readVars, maxVars, histVars
<1>10. ASSUME NEW w \in Workers, NEW k \in Keys, LockRecord(w, k) PROVE TInv'
  BY <1>10, MaxTidBound DEF LockRecord, TypeOK, OpInRange, epochVars, recVars,
     opVars, setVars, readVars, histVars
<1>11. ASSUME NEW w \in Workers, NEW k \in Keys, LockFail(w, k) PROVE TInv'
  BY <1>11 DEF LockFail, Goto, Phases, TypeOK, OpInRange, epochVars, recVars,
     opVars, setVars, readVars, maxVars, histVars
<1>12. ASSUME NEW w \in Workers, LoadGE(w) PROVE TInv'
  BY <1>12, SMTT(30) DEF LoadGE, Goto, Phases, TypeOK, OpInRange, epochVars, recVars,
     opVars, setVars, loopVars, readVars, maxVars
<1>13. ASSUME NEW w \in Workers, StoreThLocalEpoch(w) PROVE TInv'
  BY <1>13 DEF StoreThLocalEpoch, Goto, Phases, TypeOK, OpInRange, recVars,
     opVars, setVars, readVars, maxVars, histVars
<1>14. ASSUME NEW w \in Workers, ValidateRead(w) PROVE TInv'
  <2> DEFINE r == readSet[w][vidx[w]]
  <2>1. readSet[w] \in Seq(ReadElement) /\ vidx[w] \in DOMAIN readSet[w]
    BY <1>14 DEF ValidateRead, Validating, TypeOK
  <2>2. r \in ReadElement
    BY <2>1
  <2>3. tidword[r.key].tid \in Tid
    BY <2>2 DEF TypeOK, ReadElement
  <2> HIDE DEF r
  <2>4. MaxTid(maxR[w], tidword[r.key].tid) \in Tid
    BY <2>3, MaxTidBound DEF TypeOK
  <2>5. maxR' = [maxR EXCEPT ![w] = MaxTid(maxR[w], tidword[r.key].tid)]
    BY <1>14 DEF ValidateRead, r
  <2> QED
    BY <1>14, <2>4, <2>5 DEF ValidateRead, TypeOK, OpInRange, epochVars,
       recVars, opVars, setVars, readVars, histVars
<1>15. ASSUME NEW w \in Workers, ValidateFail(w) PROVE TInv'
  BY <1>15 DEF ValidateFail, Goto, Phases, TypeOK, OpInRange, epochVars,
     recVars, opVars, setVars, readVars, maxVars, histVars
<1>16. ASSUME NEW w \in Workers, NEW k \in Keys, UnlockRecord(w, k) PROVE TInv'
  BY <1>16 DEF UnlockRecord, TypeOK, OpInRange, epochVars, recVars, opVars,
     setVars, readVars, maxVars, histVars
<1>17. ASSUME NEW w \in Workers, Abort(w) PROVE TInv'
  BY <1>17, SMTT(30) DEF Abort, Goto, Phases, TypeOK, OpInRange, epochVars, recVars,
     opVars, loopVars, readVars, maxVars, histVars
<1>18. ASSUME NEW w \in Workers, CommitTid(w) PROVE TInv'
  <2> DEFINE maxtid == ChooseTid(maxW[w], maxR[w], mrctid[w], CommitEpoch(w))
             t == [worker |-> w, stamp |-> stamp[w], epoch |-> CommitEpoch(w),
                   tid |-> maxtid, reads |-> readSet[w],
                   writes |-> writeSet[w]]
  <2>1. maxtid \in Tid /\ CommitEpoch(w) \in Nat
    BY ChooseTidBound DEF CommitEpoch, TypeOK
  <2>2. mrctid' = [mrctid EXCEPT ![w] = maxtid] /\ history' = history \cup {t}
    BY <1>18 DEF CommitTid
  <2> HIDE DEF maxtid
  <2>3. t \in Committed
    BY <2>1 DEF Committed, TypeOK
  <2> HIDE DEF t
  <2>4. history' \subseteq Committed /\ mrctid' \in [Workers -> Tid]
    BY <2>1, <2>2, <2>3 DEF TypeOK
  <2> QED
    BY <1>18, <2>4 DEF CommitTid, Goto, Phases, TypeOK, OpInRange, epochVars,
       recVars, opVars, setVars, loopVars, readVars, maxVars
<1>19. ASSUME NEW w \in Workers, Wal(w) PROVE TInv'
  <2>1. log' \subseteq LogRecord
    BY <1>19 DEF Wal, TypeOK, LogRecord
  <2> QED
    BY <1>19, <2>1 DEF Wal, Goto, Phases, TypeOK, OpInRange, epochVars,
       recVars, opVars, setVars, readVars, maxVars, histVars
<1>20. ASSUME NEW w \in Workers, NEW k \in Keys, InstallVal(w, k) PROVE TInv'
  BY <1>20 DEF InstallVal, Goto, Phases, Vals, TypeOK, OpInRange, epochVars,
     opVars, setVars, loopVars, readVars, maxVars, histVars
<1>21. ASSUME NEW w \in Workers, NEW k \in Keys, InstallTid(w, k) PROVE TInv'
  BY <1>21 DEF InstallTid, Goto, Phases, TypeOK, OpInRange, epochVars,
     opVars, setVars, readVars, maxVars, histVars
<1>22. ASSUME NEW w \in Workers, EndTxn(w) PROVE TInv'
  BY <1>22 DEF EndTxn, Goto, Phases, TypeOK, OpInRange, epochVars, recVars,
     loopVars, readVars, maxVars, histVars
<1>23. CASE UNCHANGED vars
  BY <1>23 DEF vars, TypeOK, OpInRange, epochVars, recVars, opVars, setVars,
     loopVars, readVars, maxVars, histVars
<1> QED
  BY <1>1, <1>2, <1>3, <1>4, <1>5, <1>6, <1>7, <1>8, <1>9, <1>10, <1>11,
     <1>12, <1>13, <1>14, <1>15, <1>16, <1>17, <1>18, <1>19, <1>20, <1>21,
     <1>22, <1>23 DEF Next, TxnStep, ReadStep, ValidationStep, WriteStep

\* Types and the place of a read in its procedure, of every behaviour.
LEMMA TypeInvariant == Spec => []TInv
<1>1. Init => TInv
  BY InitType DEF TInv, OpInRange, Init
<1> QED
  BY <1>1, TypeStep, PTL DEF Spec

\* Every variable of the protocol keeps its type, whatever the parameters.
THEOREM TypeCorrect == Spec => []TypeOK
<1>1. TInv => TypeOK
  BY DEF TInv
<1> QED
  BY <1>1, TypeInvariant, PTL

-----------------------------------------------------------------------------
(* The record locks.                                                        *)

\* While lockWriteSet runs, what it has still to visit is part of the write
\* set; without this the lock just taken would belong to nobody.
LoopInv == \A w \in Workers : pc[w] = "lock" => pending[w] \subseteq writeSet[w]

LInv == TypeOK /\ LoopInv /\ LockInv

\* The steps that neither lock nor unlock a record.
QuietLock(w) ==
  \/ EpochWork(w) \/ Begin(w) \/ ReadStep(w) \/ StartCommit(w)
  \/ \E k \in Keys : LockFail(w, k) \/ InstallVal(w, k)
  \/ LoadGE(w) \/ StoreThLocalEpoch(w) \/ ValidateRead(w) \/ ValidateFail(w)
  \/ Abort(w) \/ CommitTid(w) \/ Wal(w) \/ EndTxn(w)

\* What a worker holds depends on three of its variables.
LEMMA HeldFrame ==
  ASSUME NEW u \in Workers, pc'[u] = pc[u], writeSet'[u] = writeSet[u],
         pending'[u] = pending[u]
  PROVE  Held(u)' = Held(u)
BY DEF Held

\* A step of w leaves what concerns the locks of the other workers alone.
LEMMA OthersFrame ==
  ASSUME TypeOK, NEW w \in Workers,
         \/ QuietLock(w)
         \/ \E k \in Keys : LockRecord(w, k) \/ UnlockRecord(w, k) \/ InstallTid(w, k)
  PROVE  \A u \in Workers \ {w} :
           /\ pc'[u] = pc[u] /\ writeSet'[u] = writeSet[u]
           /\ pending'[u] = pending[u] /\ Held(u)' = Held(u)
<1> SUFFICES \A u \in Workers \ {w} : /\ pc'[u] = pc[u]
                                      /\ writeSet'[u] = writeSet[u]
                                      /\ pending'[u] = pending[u]
  BY HeldFrame
<1>1. CASE EpochWork(w) \/ Begin(w) \/ ReadStep(w)
  BY <1>1 DEF EpochWork, Begin, ReadStep, LocalOp, ReadLoad, ReadCopy,
     ReadDone, ReadRetry, NextOp, Goto, setVars, loopVars, TypeOK
<1>2. CASE StartCommit(w) \/ LoadGE(w) \/ StoreThLocalEpoch(w) \/ Abort(w)
  BY <1>2 DEF StartCommit, LoadGE, StoreThLocalEpoch, Abort, Goto, setVars,
     loopVars, TypeOK
<1>3. CASE ValidateRead(w) \/ ValidateFail(w) \/ CommitTid(w)
  BY <1>3 DEF ValidateRead, ValidateFail, CommitTid, Goto, setVars, loopVars,
     TypeOK
<1>4. CASE Wal(w) \/ EndTxn(w)
  BY <1>4 DEF Wal, EndTxn, Goto, setVars, loopVars, TypeOK
<1>5. ASSUME NEW k \in Keys,
             \/ LockFail(w, k) \/ InstallVal(w, k) \/ LockRecord(w, k)
             \/ UnlockRecord(w, k) \/ InstallTid(w, k)
      PROVE  \A u \in Workers \ {w} : /\ pc'[u] = pc[u]
                                      /\ writeSet'[u] = writeSet[u]
                                      /\ pending'[u] = pending[u]
  BY <1>5 DEF LockFail, InstallVal, LockRecord, UnlockRecord, InstallTid,
     Goto, setVars, loopVars, TypeOK
<1> QED
  BY <1>1, <1>2, <1>3, <1>4, <1>5 DEF QuietLock

\* A step that is quiet about locks leaves words and holdings alone.
LEMMA QuietLockStep ==
  ASSUME TypeOK, LoopInv, NEW w \in Workers, QuietLock(w)
  PROVE  UNCHANGED tidword /\ Held(w)' = Held(w)
<1>1. CASE EpochWork(w) \/ Begin(w)
  BY <1>1 DEF EpochWork, Begin, Goto, recVars, setVars, loopVars, TypeOK, Held
<1>2. CASE ReadStep(w)
  <2>1. UNCHANGED tidword
    BY <1>2 DEF ReadStep, LocalOp, ReadLoad, ReadCopy, ReadDone, ReadRetry,
       recVars
  <2>2. {pc[w], pc'[w]} \subseteq {"exec", "copy", "check"}
    BY <1>2 DEF ReadStep, LocalOp, ReadLoad, ReadCopy, ReadDone, ReadRetry,
       Executing, Goto, TypeOK
  <2> QED BY <2>1, <2>2 DEF Held
<1>3. CASE StartCommit(w) \/ LoadGE(w) \/ StoreThLocalEpoch(w)
  <2>1. CASE StartCommit(w)
    BY <2>1 DEF StartCommit, Goto, recVars, setVars, TypeOK, Held
  <2>2. CASE LoadGE(w)
    BY <2>2 DEF LoadGE, Goto, recVars, setVars, loopVars, TypeOK, Held
  <2>3. CASE StoreThLocalEpoch(w)
    BY <2>3 DEF StoreThLocalEpoch, Goto, recVars, setVars, TypeOK, Held
  <2> QED BY <1>3, <2>1, <2>2, <2>3
<1>4. CASE ValidateRead(w) \/ ValidateFail(w) \/ Abort(w)
  BY <1>4 DEF ValidateRead, ValidateFail, Validating, Abort, Goto, recVars,
     setVars, loopVars, TypeOK, Held
<1>5. CASE CommitTid(w) \/ Wal(w) \/ EndTxn(w)
  BY <1>5 DEF CommitTid, Wal, EndTxn, Goto, recVars, setVars, loopVars,
     TypeOK, Held
<1>6. ASSUME NEW k \in Keys, LockFail(w, k)
      PROVE  UNCHANGED tidword /\ Held(w)' = Held(w)
  BY <1>6 DEF LockFail, Goto, recVars, setVars, TypeOK, Held
<1>7. ASSUME NEW k \in Keys, InstallVal(w, k)
      PROVE  UNCHANGED tidword /\ Held(w)' = Held(w)
  BY <1>7 DEF InstallVal, Goto, setVars, loopVars, TypeOK, Held
<1> QED
  BY <1>1, <1>2, <1>3, <1>4, <1>5, <1>6, <1>7 DEF QuietLock

\* What the three other steps do to the locks.
LEMMA LockTaken ==
  ASSUME LInv, NEW w \in Workers, NEW k \in Keys, LockRecord(w, k)
  PROVE  /\ Held(w)' = Held(w) \cup {k}
         /\ \A u \in Workers : k \notin Held(u)
         /\ tidword' = [tidword EXCEPT ![k].lock = TRUE]
BY DEF LInv, LockRecord, IsNext, Goto, setVars, TypeOK, LoopInv, LockInv, Held

\* The two ways to let go of a record: unlocking it and installing its identifier.
LEMMA LockDropped ==
  ASSUME LInv, NEW w \in Workers, NEW k \in Keys,
         UnlockRecord(w, k) \/ InstallTid(w, k)
  PROVE  /\ k \in Held(w) /\ Held(w)' = Held(w) \ {k}
         /\ tidword'[k].lock = FALSE
         /\ \A j \in Keys \ {k} : tidword'[j] = tidword[j]
         /\ UnlockRecord(w, k) => tidword'[k].tid = tidword[k].tid
         /\ InstallTid(w, k) => tidword'[k].tid = mrctid[w]
<1>1. CASE UnlockRecord(w, k)
  BY <1>1 DEF LInv, UnlockRecord, InstallTid, IsNext, setVars, TypeOK, Held
<1>2. CASE InstallTid(w, k)
  BY <1>2 DEF LInv, UnlockRecord, InstallTid, IsNext, Goto, setVars, TypeOK, Held
<1> QED BY <1>1, <1>2

\* Every step is quiet, takes one lock or drops one.
LEMMA LockKinds ==
  ASSUME TypeOK, [Next]_vars
  PROVE  \/ UNCHANGED <<tidword, pc, writeSet, pending>>
         \/ \E w \in Workers : QuietLock(w)
         \/ \E w \in Workers, k \in Keys :
              LockRecord(w, k) \/ UnlockRecord(w, k) \/ InstallTid(w, k)
<1>1. CASE UNCHANGED vars
  BY <1>1 DEF vars, recVars, setVars, loopVars
<1>2. CASE AdvanceEpoch
  BY <1>2 DEF AdvanceEpoch, recVars, setVars, loopVars
<1>3. ASSUME NEW w \in Workers, EpochWork(w) \/ Begin(w) \/ TxnStep(w),
             ~QuietLock(w)
      PROVE  \E k \in Keys :
               LockRecord(w, k) \/ UnlockRecord(w, k) \/ InstallTid(w, k)
  BY <1>3 DEF TxnStep, ValidationStep, WriteStep, QuietLock
<1> QED
  BY <1>1, <1>2, <1>3 DEF Next

\* LInv is inductive.
LEMMA LockStep ==
  ASSUME LInv, TypeOK', [Next]_vars
  PROVE  LInv'
<1>1. CASE UNCHANGED <<tidword, pc, writeSet, pending>>
  BY <1>1, HeldFrame DEF LInv, LoopInv, LockInv
<1>2. ASSUME NEW w \in Workers, QuietLock(w)
      PROVE  LInv'
  <2>1. UNCHANGED tidword /\ \A u \in Workers : Held(u)' = Held(u)
    BY <1>2, QuietLockStep, OthersFrame DEF LInv
  <2>2. pc'[w] = "lock" => pending'[w] \subseteq writeSet'[w]
    <3>1. CASE StartCommit(w)
      BY <3>1 DEF LInv, StartCommit, setVars, TypeOK
    <3>2. CASE EpochWork(w) \/ Begin(w) \/ ReadStep(w)
      BY <3>2 DEF LInv, EpochWork, Begin, ReadStep, LocalOp, ReadLoad,
         ReadCopy, ReadDone, ReadRetry, Executing, Goto, TypeOK
    <3>3. CASE LoadGE(w) \/ StoreThLocalEpoch(w) \/ Abort(w) \/ CommitTid(w)
               \/ Wal(w) \/ EndTxn(w) \/ ValidateRead(w) \/ ValidateFail(w)
      BY <3>3 DEF LInv, LoadGE, StoreThLocalEpoch, ValidateRead, Validating,
         ValidateFail, Abort, CommitTid, Wal, EndTxn, Goto, TypeOK
    <3>4. ASSUME NEW k \in Keys, LockFail(w, k) \/ InstallVal(w, k)
          PROVE  pc'[w] # "lock"
      BY <3>4 DEF LInv, LockFail, InstallVal, Goto, TypeOK
    <3> QED BY <1>2, <3>1, <3>2, <3>3, <3>4 DEF QuietLock
  <2>3. LoopInv'
    BY <1>2, <2>2, OthersFrame DEF LInv, LoopInv
  <2> QED
    BY <2>1, <2>3 DEF LInv, LockInv
<1>3. ASSUME NEW w \in Workers, NEW k \in Keys, LockRecord(w, k)
      PROVE  LInv'
  <2>1. \A u \in Workers \ {w} : Held(u)' = Held(u)
    BY <1>3, OthersFrame DEF LInv
  <2>2. LockInv'
    <3>1. /\ Held(w)' = Held(w) \cup {k}
          /\ \A u \in Workers : k \notin Held(u)
      BY <1>3, LockTaken
    <3>2. /\ tidword \in [Keys -> [tid : Tid, lock : BOOLEAN]]
          /\ tidword' = [tidword EXCEPT ![k].lock = TRUE]
      BY <1>3, LockTaken DEF LInv, TypeOK
    <3>3. /\ tidword'[k].lock = TRUE
          /\ \A j \in Keys \ {k} : tidword'[j].lock = tidword[j].lock
      BY <3>2
    <3> QED BY <2>1, <3>1, <3>3 DEF LInv, LockInv
  <2>3. pc'[w] = "lock" => pending'[w] \subseteq writeSet'[w]
    BY <1>3 DEF LInv, LoopInv, LockRecord, setVars, TypeOK
  <2> QED
    BY <1>3, <2>2, <2>3, OthersFrame DEF LInv, LoopInv
<1>4. ASSUME NEW w \in Workers, NEW k \in Keys,
             UnlockRecord(w, k) \/ InstallTid(w, k)
      PROVE  LInv'
  <2>1. \A u \in Workers \ {w} : Held(u)' = Held(u)
    BY <1>4, OthersFrame DEF LInv
  <2>2. LockInv'
    <3>1. /\ k \in Held(w) /\ Held(w)' = Held(w) \ {k}
          /\ ~tidword'[k].lock
          /\ \A j \in Keys \ {k} : tidword'[j] = tidword[j]
      BY <1>4, LockDropped
    <3> QED BY <2>1, <3>1 DEF LInv, LockInv
  <2>3. pc'[w] # "lock"
    BY <1>4 DEF LInv, UnlockRecord, InstallTid, Goto, TypeOK
  <2> QED
    BY <1>4, <2>2, <2>3, OthersFrame DEF LInv, LoopInv
<1> QED
  BY <1>1, <1>2, <1>3, <1>4, LockKinds DEF LInv

\* No record is locked at first.
LEMMA InitLock == Init => LInv
BY InitType DEF Init, LInv, LoopInv, LockInv, Held

\* LInv, of every behaviour.
LEMMA LockInvariant == Spec => []LInv
<1>1. LInv /\ TypeOK' /\ [Next]_vars => LInv'
  BY LockStep
<1> QED
  BY <1>1, InitLock, TypeCorrect, PTL DEF Spec

\* A record is locked exactly when one worker holds it, whatever the
\* procedures, on every path through lockWriteSet, validation, the write
\* phase and both versions of unlockWriteSet.
THEOREM LocksAreOwned == Spec => []LockInv
BY LockInvariant, PTL DEF LInv

-----------------------------------------------------------------------------
(* Identifiers grow, as long as their counter does not come to the end of  *)
(* its field.                                                              *)

Collecting == {"lock", "storeGE", "validate"}
Installing == {"wal", "write", "release"}

(***************************************************************************)
(* The strengthening: what a worker has locked is covered by max_wset_     *)
(* until the identifier is chosen, and is below the identifier afterwards. *)
(***************************************************************************)
Covered(w) ==
  /\ pc[w] \in Collecting => \A k \in Held(w) : TidLeq(tidword[k].tid, maxW[w])
  /\ pc[w] \in Installing => \A k \in Held(w) : TidLess(tidword[k].tid, mrctid[w])
  /\ maxW[w].TID < TIDMod - 1
  /\ maxR[w].TID < TIDMod - 1

TidInv == \A w \in Workers : Covered(w)

\* A maximum of two identifiers with room has room.
LEMMA MaxRoom ==
  ASSUME NEW a \in Tid, NEW b \in Tid, a.TID < TIDMod - 1, b.TID < TIDMod - 1
  PROVE  MaxTid(a, b).TID < TIDMod - 1
BY MaxTidBound

\* So has the least identifier, once anything has.
LEMMA ZeroRoom ==
  ASSUME TypeOK, TidRoom
  PROVE  ZeroTid.TID < TIDMod - 1
<1>1. mrctid[Leader] \in Tid /\ mrctid[Leader].TID < TIDMod - 1
  BY LeaderAssumption DEF TypeOK, TidRoom
<1> QED
  BY <1>1, TIDModAssumption DEF Tid, ZeroTid

\* Nobody else's step uncovers a worker: the records it holds are its own.
LEMMA OthersCovered ==
  ASSUME LInv, TidInv, NEW w \in Workers,
         \/ QuietLock(w)
         \/ \E k \in Keys : LockRecord(w, k) \/ UnlockRecord(w, k) \/ InstallTid(w, k),
         \A u \in Workers \ {w} : /\ maxW'[u] = maxW[u] /\ maxR'[u] = maxR[u]
                                  /\ mrctid'[u] = mrctid[u]
  PROVE  \A u \in Workers \ {w} : Covered(u)'
<1> SUFFICES ASSUME NEW u \in Workers \ {w} PROVE Covered(u)'
  OBVIOUS
<1>1. /\ Held(u)' = Held(u) /\ pc'[u] = pc[u]
      /\ maxW'[u] = maxW[u] /\ maxR'[u] = maxR[u] /\ mrctid'[u] = mrctid[u]
  BY OthersFrame DEF LInv
<1>2. Held(u) \subseteq Keys
  BY DEF LInv, TypeOK, Held
<1>3. \A k \in Held(u) : tidword'[k].tid = tidword[k].tid
  <2>1. CASE QuietLock(w)
    BY <2>1, QuietLockStep DEF LInv
  <2>2. ASSUME NEW j \in Keys, LockRecord(w, j)
        PROVE  \A k \in Held(u) : tidword'[k].tid = tidword[k].tid
    BY <2>2, <1>2 DEF LockRecord, LInv, TypeOK
  <2>3. ASSUME NEW j \in Keys, UnlockRecord(w, j) \/ InstallTid(w, j)
        PROVE  \A k \in Held(u) : tidword'[k].tid = tidword[k].tid
    <3>1. j \in Held(w) /\ \A k \in Keys \ {j} : tidword'[k] = tidword[k]
      BY <2>3, LockDropped
    <3>2. j \notin Held(u)
      BY <3>1 DEF LInv, LockInv
    <3> QED BY <1>2, <3>1, <3>2
  <2> QED BY <2>1, <2>2, <2>3
<1>4. Covered(u)
  BY DEF TidInv
<1> QED
  BY <1>1, <1>3, <1>4 DEF Covered

\* Which steps touch the maxima and the worker's last identifier.
LEMMA MaxFrame ==
  ASSUME TypeOK, NEW w \in Workers,
         \/ QuietLock(w)
         \/ \E k \in Keys : LockRecord(w, k) \/ UnlockRecord(w, k) \/ InstallTid(w, k)
  PROVE  /\ \A u \in Workers \ {w} : /\ maxW'[u] = maxW[u]
                                     /\ maxR'[u] = maxR[u]
                                     /\ mrctid'[u] = mrctid[u]
         /\ ~CommitTid(w) => UNCHANGED mrctid
<1>1. CASE Begin(w) \/ EpochWork(w) \/ ReadStep(w)
  BY <1>1 DEF Begin, EpochWork, ReadStep, LocalOp, ReadLoad, ReadCopy,
     ReadDone, ReadRetry, maxVars, TypeOK
<1>2. CASE StartCommit(w) \/ LoadGE(w) \/ StoreThLocalEpoch(w) \/ Abort(w)
  BY <1>2 DEF StartCommit, LoadGE, StoreThLocalEpoch, Abort, maxVars
<1>3. CASE ValidateRead(w) \/ ValidateFail(w) \/ Wal(w) \/ EndTxn(w)
  BY <1>3 DEF ValidateRead, ValidateFail, Wal, EndTxn, maxVars, TypeOK
<1>4. CASE CommitTid(w)
  BY <1>4 DEF CommitTid, maxVars, TypeOK
<1>5. ASSUME NEW k \in Keys,
             \/ LockFail(w, k) \/ InstallVal(w, k) \/ LockRecord(w, k)
             \/ UnlockRecord(w, k) \/ InstallTid(w, k)
      PROVE  /\ \A u \in Workers \ {w} : /\ maxW'[u] = maxW[u]
                                         /\ maxR'[u] = maxR[u]
                                         /\ mrctid'[u] = mrctid[u]
             /\ UNCHANGED mrctid
  BY <1>5 DEF LockFail, InstallVal, LockRecord, UnlockRecord, InstallTid,
     maxVars, TypeOK
<1> QED
  BY <1>1, <1>2, <1>3, <1>4, <1>5 DEF QuietLock

\* The identifier chosen is above everything the worker has locked, and above
\* its previous one.
LEMMA CommitAbove ==
  ASSUME LInv, TidInv, TidRoom, NEW w \in Workers, CommitTid(w)
  PROVE  /\ TidLess(mrctid[w], mrctid'[w])
         /\ \A k \in Held(w) : TidLess(tidword[k].tid, mrctid'[w])
<1>1. mrctid'[w] = ChooseTid(maxW[w], maxR[w], mrctid[w], ThLocalEpoch[w])
  BY DEF CommitTid, CommitEpoch, LInv, TypeOK
<1>2. /\ maxW[w] \in Tid /\ maxR[w] \in Tid /\ mrctid[w] \in Tid
      /\ ThLocalEpoch[w] \in Nat
      /\ \A k \in Held(w) : tidword[k].tid \in Tid
  BY DEF LInv, TypeOK, Held
<1>3. /\ maxW[w].TID < TIDMod - 1 /\ maxR[w].TID < TIDMod - 1
      /\ mrctid[w].TID < TIDMod - 1
  BY DEF TidInv, Covered, TidRoom
<1> DEFINE new == ChooseTid(maxW[w], maxR[w], mrctid[w], ThLocalEpoch[w])
<1>4. /\ TidLess(maxW[w], mrctid'[w]) /\ TidLess(mrctid[w], mrctid'[w])
      /\ mrctid'[w] \in Tid
  <2>1. TidLess(maxW[w], new) /\ TidLess(mrctid[w], new) /\ new \in Tid
    BY <1>2, <1>3, ChooseTidBound
  <2> QED
    BY <1>1, <2>1
<1>5. \A k \in Held(w) : TidLeq(tidword[k].tid, maxW[w])
  BY DEF CommitTid, TidInv, Covered, Collecting
<1> QED
  BY <1>2, <1>4, <1>5, TidLessTransitive DEF TidLeq

\* Locking and unlocking leave the identifiers alone.
LEMMA TidKept ==
  ASSUME TypeOK, NEW w \in Workers, NEW k \in Keys,
         LockRecord(w, k) \/ UnlockRecord(w, k)
  PROVE  \A j \in Keys : tidword'[j].tid = tidword[j].tid
<1>1. /\ tidword \in [Keys -> [tid : Tid, lock : BOOLEAN]]
      /\ \E b \in BOOLEAN : tidword' = [tidword EXCEPT ![k].lock = b]
  BY DEF TypeOK, LockRecord, UnlockRecord
<1> QED BY <1>1

\* The worker's own steps keep it covered.
LEMMA OwnCovered ==
  ASSUME LInv, TidInv, TidRoom, NEW w \in Workers,
         \/ QuietLock(w)
         \/ \E k \in Keys : LockRecord(w, k) \/ UnlockRecord(w, k) \/ InstallTid(w, k)
  PROVE  Covered(w)'
<1>1. /\ Covered(w) /\ TypeOK
      /\ \A k \in Held(w) : k \in Keys /\ tidword[k].tid \in Tid
  BY DEF TidInv, LInv, TypeOK, Held
<1>2. CASE Begin(w)
  <2>1. maxW'[w] = ZeroTid /\ maxR'[w] = ZeroTid /\ pc'[w] = "exec"
    BY <1>2, <1>1 DEF Begin, Goto, TypeOK
  <2> QED BY <2>1, <1>1, ZeroRoom DEF Covered, Collecting, Installing
<1>3. CASE EpochWork(w) \/ ReadStep(w)
  <2>1. /\ UNCHANGED maxVars
        /\ pc'[w] \notin Collecting \cup Installing
    BY <1>3, <1>1 DEF EpochWork, ReadStep, LocalOp, ReadLoad, ReadCopy,
       ReadDone, ReadRetry, Executing, Goto, Collecting, Installing, TypeOK
  <2> QED BY <2>1, <1>1 DEF Covered, maxVars
<1>4. CASE StartCommit(w) \/ LoadGE(w) \/ StoreThLocalEpoch(w)
  <2>1. UNCHANGED <<maxVars, tidword, mrctid>> /\ Held(w)' = Held(w)
    BY <1>4, QuietLockStep DEF QuietLock, LInv, StartCommit, LoadGE,
       StoreThLocalEpoch
  <2>2. /\ pc'[w] \in Collecting
        /\ pc[w] \in Collecting \/ Held(w) = {}
    BY <1>4, <1>1 DEF StartCommit, LoadGE, StoreThLocalEpoch, Goto,
       Collecting, Held, TypeOK
  <2> QED BY <2>1, <2>2, <1>1 DEF Covered, Collecting, Installing, maxVars
<1>5. CASE ValidateRead(w)
  <2>1. UNCHANGED <<maxW, tidword, mrctid, pc>> /\ Held(w)' = Held(w)
    BY <1>5, QuietLockStep DEF QuietLock, LInv, ValidateRead, recVars
  <2> DEFINE r == readSet[w][vidx[w]]
  <2>2. r \in ReadElement
    BY <1>5, <1>1 DEF ValidateRead, Validating, TypeOK
  <2>3. maxR'[w] = MaxTid(maxR[w], tidword[r.key].tid)
    BY <1>5, <1>1 DEF ValidateRead, TypeOK
  <2> HIDE DEF r
  <2>4. /\ tidword[r.key].tid \in Tid
        /\ tidword[r.key].tid.TID < TIDMod - 1
        /\ maxR[w] \in Tid
    BY <2>2, <1>1 DEF ReadElement, TypeOK, TidRoom
  <2>5. maxR'[w].TID < TIDMod - 1
    BY <2>3, <2>4, <1>1, MaxRoom DEF Covered
  <2> QED BY <2>1, <2>5, <1>1 DEF Covered
<1>6. CASE ValidateFail(w) \/ Abort(w)
  <2>1. /\ UNCHANGED maxVars
        /\ pc'[w] \in {"unlock", "idle"}
    BY <1>6, <1>1 DEF ValidateFail, Abort, Goto, TypeOK
  <2> QED BY <2>1, <1>1 DEF Covered, Collecting, Installing, maxVars
<1>7. CASE CommitTid(w)
  <2>1. /\ UNCHANGED <<maxVars, tidword>> /\ Held(w)' = Held(w)
        /\ pc'[w] = "wal"
    BY <1>7, <1>1, QuietLockStep DEF QuietLock, LInv, CommitTid, Goto, TypeOK,
       recVars
  <2> QED
    BY <1>7, <2>1, <1>1, CommitAbove
    DEF Covered, Collecting, Installing, maxVars
<1>8. CASE Wal(w) \/ EndTxn(w)
  <2>1. UNCHANGED <<maxVars, tidword, mrctid>> /\ Held(w)' = Held(w)
    BY <1>8, QuietLockStep DEF QuietLock, LInv, Wal, EndTxn
  <2>2. /\ pc'[w] \notin Collecting
        /\ pc[w] \in Installing
    BY <1>8, <1>1 DEF Wal, EndTxn, Goto, Collecting, Installing, TypeOK
  <2> QED BY <2>1, <2>2, <1>1 DEF Covered, maxVars
<1>9. ASSUME NEW k \in Keys, LockFail(w, k)
      PROVE  Covered(w)'
  <2>1. UNCHANGED maxVars /\ pc'[w] = "unlock"
    BY <1>9, <1>1 DEF LockFail, Goto, TypeOK
  <2> QED BY <2>1, <1>1 DEF Covered, Collecting, Installing, maxVars
<1>10. ASSUME NEW k \in Keys, InstallVal(w, k)
      PROVE  Covered(w)'
  <2>1. UNCHANGED <<maxVars, tidword, mrctid>> /\ Held(w)' = Held(w)
    BY <1>10, QuietLockStep DEF QuietLock, LInv, InstallVal
  <2>2. pc[w] = "write" /\ pc'[w] = "release"
    BY <1>10, <1>1 DEF InstallVal, Goto, TypeOK
  <2> QED
    BY <2>1, <2>2, <1>1 DEF Covered, Collecting, Installing, maxVars
<1>11. ASSUME NEW k \in Keys, LockRecord(w, k)
       PROVE  Covered(w)'
  <2>1. /\ Held(w)' = Held(w) \cup {k}
        /\ pc[w] = "lock" /\ UNCHANGED <<pc, maxR>>
        /\ maxW'[w] = MaxTid(maxW[w], tidword[k].tid)
        /\ \A j \in Keys : tidword'[j].tid = tidword[j].tid
    <3>1. \A j \in Keys : tidword'[j].tid = tidword[j].tid
      BY <1>11, <1>1, TidKept
    <3>2. Held(w)' = Held(w) \cup {k}
      BY <1>11, LockTaken
    <3> QED BY <1>11, <1>1, <3>1, <3>2 DEF LockRecord, TypeOK
  <2>2. /\ maxW[w] \in Tid /\ tidword[k].tid \in Tid
        /\ tidword[k].tid.TID < TIDMod - 1
    BY <1>1 DEF TypeOK, TidRoom
  <2>3. /\ TidLeq(maxW[w], maxW'[w]) /\ TidLeq(tidword[k].tid, maxW'[w])
        /\ maxW'[w] \in Tid
        /\ maxW'[w].TID < TIDMod - 1
    BY <2>1, <2>2, <1>1, MaxTidBound, MaxRoom DEF Covered
  <2>4. \A j \in Held(w) : TidLeq(tidword[j].tid, maxW'[w])
    BY <2>1, <2>2, <2>3, <1>1, TidLessTransitive DEF Covered, Collecting
  <2> QED
    BY <2>1, <2>3, <2>4, <1>1 DEF Covered, Collecting, Installing
<1>12. ASSUME NEW k \in Keys, UnlockRecord(w, k) \/ InstallTid(w, k)
       PROVE  Covered(w)'
  <2>1. /\ Held(w)' = Held(w) \ {k}
        /\ \A j \in Keys \ {k} : tidword'[j] = tidword[j]
    BY <1>12, LockDropped
  <2>2. /\ UNCHANGED <<maxVars, mrctid>>
        /\ pc'[w] \notin Collecting
        /\ pc'[w] \in Installing => pc[w] \in Installing
    BY <1>12, <1>1 DEF UnlockRecord, InstallTid, Goto, Collecting, Installing,
       TypeOK
  <2> QED BY <2>1, <2>2, <1>1 DEF Covered, maxVars
<1> QED
  BY <1>2, <1>3, <1>4, <1>5, <1>6, <1>7, <1>8, <1>9, <1>10, <1>11, <1>12
  DEF QuietLock

\* TidInv is inductive while there is room.
LEMMA TidStep ==
  ASSUME LInv, TidInv, TidRoom, [Next]_vars
  PROVE  TidInv'
<1>1. CASE UNCHANGED vars
  BY <1>1, HeldFrame DEF vars, recVars, setVars, loopVars, maxVars, TidInv,
     Covered
<1>2. CASE AdvanceEpoch
  BY <1>2, HeldFrame DEF AdvanceEpoch, recVars, setVars, loopVars, maxVars,
     TidInv, Covered
<1>3. ASSUME NEW w \in Workers,
             \/ QuietLock(w)
             \/ \E k \in Keys : LockRecord(w, k) \/ UnlockRecord(w, k) \/ InstallTid(w, k)
      PROVE  TidInv'
  <2>1. Covered(w)'
    BY <1>3, OwnCovered
  <2>2. \A u \in Workers \ {w} : Covered(u)'
    BY <1>3, OthersCovered, MaxFrame DEF LInv
  <2> QED BY <2>1, <2>2 DEF TidInv
<1> QED
  BY <1>1, <1>2, <1>3 DEF Next, TxnStep, ValidationStep, WriteStep, QuietLock

\* It holds at first.
LEMMA InitTids ==
  ASSUME Init, TidRoom
  PROVE  TidInv
BY InitType, ZeroRoom DEF Init, TidInv, Covered, Held, Collecting, Installing

\* TidInv, of every behaviour in which identifiers keep their room.
LEMMA TidInvariant == Spec /\ []TidRoom => [](LInv /\ TidInv)
<1>1. Init /\ TidRoom => TidInv
  BY InitTids
<1>2. LInv /\ TidInv /\ TidRoom /\ [Next]_vars => TidInv'
  BY TidStep
<1> QED
  BY <1>1, <1>2, LockInvariant, PTL DEF Spec

\* A record's identifier only grows, which is what validation relies on to
\* tell one version from another, as long as no identifier is the last of its
\* epoch.
THEOREM TidsGrow == Spec /\ []TidRoom => TidMonotone
<1> DEFINE grows == \A k \in Keys : tidword'[k].tid # tidword[k].tid =>
                                      TidLess(tidword[k].tid, tidword'[k].tid)
<1>1. ASSUME LInv, TidInv, TidRoom, [Next]_vars
      PROVE  [grows]_vars
  <2>1. CASE UNCHANGED <<tidword, pc, writeSet, pending>>
    BY <2>1
  <2>2. ASSUME NEW w \in Workers, QuietLock(w)
        PROVE  grows
    BY <2>2, <1>1, QuietLockStep DEF LInv
  <2>3. ASSUME NEW w \in Workers, NEW k \in Keys,
               LockRecord(w, k) \/ UnlockRecord(w, k)
        PROVE  grows
    <3>1. \A j \in Keys : tidword'[j].tid = tidword[j].tid
      BY <2>3, <1>1, TidKept DEF LInv
    <3> QED BY <3>1
  <2>4. ASSUME NEW w \in Workers, NEW k \in Keys, InstallTid(w, k)
        PROVE  grows
    <3>1. /\ k \in Held(w) /\ tidword'[k].tid = mrctid[w]
          /\ \A j \in Keys \ {k} : tidword'[j] = tidword[j]
      BY <2>4, <1>1, LockDropped
    <3>2. TidLess(tidword[k].tid, mrctid[w])
      BY <2>4, <3>1, <1>1 DEF InstallTid, TidInv, Covered, Installing
    <3> QED BY <3>1, <3>2
  <2> QED BY <1>1, <2>1, <2>2, <2>3, <2>4, LockKinds DEF LInv
<1> QED
  BY <1>1, TidInvariant, PTL DEF Spec, TidMonotone

\* The identifiers of one worker grow under the same condition.
THEOREM WorkerTidsGrow == Spec /\ []TidRoom => WorkerTidMonotone
<1> DEFINE grows == \A w \in Workers : mrctid'[w] # mrctid[w] =>
                                         TidLess(mrctid[w], mrctid'[w])
<1>1. ASSUME LInv, TidInv, TidRoom, [Next]_vars
      PROVE  [grows]_vars
  <2>1. CASE UNCHANGED vars
    BY <2>1
  <2>2. CASE AdvanceEpoch
    BY <2>2 DEF AdvanceEpoch
  <2>3. ASSUME NEW w \in Workers,
               \/ QuietLock(w)
               \/ \E k \in Keys : LockRecord(w, k) \/ UnlockRecord(w, k) \/ InstallTid(w, k)
        PROVE  grows
    BY <2>3, <1>1, MaxFrame, CommitAbove DEF LInv
  <2> QED
    BY <1>1, <2>1, <2>2, <2>3
    DEF Next, TxnStep, ValidationStep, WriteStep, QuietLock
<1> QED
  BY <1>1, TidInvariant, PTL DEF Spec, WorkerTidMonotone

-----------------------------------------------------------------------------
(* The epochs.                                                              *)

(***************************************************************************)
(* The strengthening.  A worker between atomicLoadGE() and the store that  *)
(* publishes it may hold an old epoch, but only one it has published       *)
(* before; the leader holds the current one, for nobody else moves the     *)
(* clock, and holds it until it commits.                                   *)
(***************************************************************************)
EpochInv ==
  /\ EpochLag
  /\ \A w \in Workers : pc[w] = "storeGE" =>
       \/ loadedGE[w] = GlobalEpoch
       \/ w # Leader /\ loadedGE[w] = ThLocalEpoch[w]
  /\ pc[Leader] = "validate" => ThLocalEpoch[Leader] = GlobalEpoch

\* A step that neither moves an epoch nor enters the part of the validation
\* that uses one.
Quiet ==
  /\ UNCHANGED <<GlobalEpoch, ThLocalEpoch, loadedGE>>
  /\ \A u \in Workers : pc'[u] \in {"storeGE", "validate"} => pc'[u] = pc[u]

\* A step that touches no epoch keeps EpochInv.
LEMMA QuietStep ==
  ASSUME EpochInv, Quiet
  PROVE  EpochInv'
BY LeaderAssumption DEF EpochInv, Quiet, EpochLag

\* Which steps those are.
LEMMA QuietActions ==
  ASSUME TypeOK, NEW w \in Workers,
         \/ Begin(w)
         \/ ReadStep(w)
         \/ StartCommit(w)
         \/ \E k \in Keys : LockRecord(w, k) \/ LockFail(w, k)
         \/ ValidateRead(w) \/ ValidateFail(w)
         \/ \E k \in Keys : UnlockRecord(w, k)
         \/ Abort(w)
         \/ WriteStep(w)
  PROVE  Quiet
<1>1. CASE Begin(w)
  BY <1>1 DEF Begin, Goto, Quiet, TypeOK, epochVars
<1>2. CASE ReadStep(w)
  BY <1>2, SMTT(30) DEF ReadStep, LocalOp, ReadLoad, ReadCopy, ReadDone, ReadRetry,
     Goto, Quiet, TypeOK, epochVars
<1>3. CASE StartCommit(w) \/ ValidateRead(w) \/ ValidateFail(w) \/ Abort(w)
  BY <1>3 DEF StartCommit, ValidateRead, ValidateFail, Abort, Goto, Quiet,
     TypeOK, epochVars
<1>4. ASSUME NEW k \in Keys,
             LockRecord(w, k) \/ LockFail(w, k) \/ UnlockRecord(w, k)
      PROVE  Quiet
  BY <1>4 DEF LockRecord, LockFail, UnlockRecord, Goto, Quiet, TypeOK,
     epochVars
<1>5. CASE CommitTid(w) \/ Wal(w) \/ EndTxn(w)
  BY <1>5 DEF CommitTid, Wal, EndTxn, Goto, Quiet, TypeOK, epochVars
<1>6. ASSUME NEW k \in Keys, InstallVal(w, k) \/ InstallTid(w, k)
      PROVE  Quiet
  BY <1>6 DEF InstallVal, InstallTid, Goto, Quiet, TypeOK, epochVars
<1> QED
  BY <1>1, <1>2, <1>3, <1>4, <1>5, <1>6 DEF WriteStep

\* Every step of the system is quiet or one of the four that are not.
LEMMA StepKinds ==
  ASSUME TypeOK, [Next]_vars
  PROVE  \/ Quiet
         \/ AdvanceEpoch
         \/ \E w \in Workers : EpochWork(w) \/ LoadGE(w) \/ StoreThLocalEpoch(w)
<1>1. CASE UNCHANGED vars
  BY <1>1 DEF vars, epochVars, Quiet
<1> QED
  BY <1>1, QuietActions DEF Next, TxnStep, ValidationStep

\* EpochInv is inductive.
LEMMA EpochStep ==
  ASSUME TypeOK, EpochInv, [Next]_vars
  PROVE  EpochInv'
<1>1. CASE Quiet
  BY <1>1, QuietStep
<1>2. CASE AdvanceEpoch
  <2>1. /\ GlobalEpoch' = GlobalEpoch + 1 /\ GlobalEpoch \in Nat
        /\ UNCHANGED <<ThLocalEpoch, loadedGE, pc>>
        /\ pc[Leader] = "idle"
        /\ \A w \in Workers \ {Leader} : ThLocalEpoch[w] = GlobalEpoch
    BY <1>2 DEF AdvanceEpoch, EpochLoaded, TypeOK
  <2> QED
    BY <2>1, LeaderAssumption DEF EpochInv, EpochLag
<1>3. ASSUME NEW w \in Workers, EpochWork(w)
      PROVE  EpochInv'
  BY <1>3, LeaderAssumption DEF EpochWork, EpochInv, EpochLag, TypeOK
<1>4. ASSUME NEW w \in Workers, LoadGE(w)
      PROVE  EpochInv'
  BY <1>4, LeaderAssumption DEF LoadGE, Goto, epochVars, EpochInv, EpochLag,
     TypeOK
<1>5. ASSUME NEW w \in Workers, StoreThLocalEpoch(w)
      PROVE  EpochInv'
  BY <1>5, LeaderAssumption DEF StoreThLocalEpoch, Goto, EpochInv, EpochLag,
     TypeOK
<1> QED
  BY <1>1, <1>2, <1>3, <1>4, <1>5, StepKinds

\* All epochs are equal at first.
LEMMA InitEpoch == Init => EpochInv
BY LeaderAssumption DEF Init, EpochInv, EpochLag

\* EpochInv, of every behaviour.
LEMMA EpochInvariant == Spec => [](TypeOK /\ EpochInv)
<1>1. TypeOK /\ EpochInv /\ [Next]_vars => EpochInv'
  BY EpochStep
<1> QED
  BY <1>1, InitEpoch, TypeCorrect, PTL DEF Spec

\* Every worker but the leader is in the global epoch or in the one before:
\* chkEpochLoaded lets the clock tick only once everyone has caught up.
THEOREM BoundedEpochLag == Spec => []EpochLag
BY EpochInvariant, PTL DEF EpochInv

\* SiloCC implements the abstract epoch clock: each of its steps is a tick,
\* the publication of the current epoch, or nothing.
THEOREM ClockRefinement == Spec => ClockSpec
<1>1. Init => Clock!Init
  BY DEF Init, Clock!Init
<1>2. ASSUME TypeOK, EpochInv, [Next]_vars
      PROVE  [Clock!Next]_(Clock!vars)
  <2>1. CASE Quiet
    BY <2>1 DEF Quiet, Clock!vars
  <2>2. CASE AdvanceEpoch
    BY <2>2 DEF AdvanceEpoch, EpochLoaded, Clock!Next, Clock!Tick
  <2>3. ASSUME NEW w \in Workers, EpochWork(w)
        PROVE  [Clock!Next]_(Clock!vars)
    BY <2>3 DEF EpochWork, Clock!Next, Clock!Publish
  <2>4. ASSUME NEW w \in Workers, LoadGE(w)
        PROVE  [Clock!Next]_(Clock!vars)
    BY <2>4 DEF LoadGE, epochVars, Clock!vars
  <2>5. ASSUME NEW w \in Workers, StoreThLocalEpoch(w)
        PROVE  [Clock!Next]_(Clock!vars)
    <3>1. /\ ThLocalEpoch' = [ThLocalEpoch EXCEPT ![w] = loadedGE[w]]
          /\ UNCHANGED GlobalEpoch
          /\ pc[w] = "storeGE"
      BY <2>5 DEF StoreThLocalEpoch
    <3>2. CASE loadedGE[w] = GlobalEpoch
      BY <3>1, <3>2 DEF Clock!Next, Clock!Publish
    <3>3. CASE loadedGE[w] = ThLocalEpoch[w]
      BY <1>2, <3>1, <3>3 DEF Clock!vars, TypeOK
    <3> QED BY <3>1, <3>2, <3>3, <1>2 DEF EpochInv
  <2> QED
    BY <2>1, <2>2, <2>3, <2>4, <2>5, <1>2, StepKinds
<1> QED
  BY <1>1, <1>2, EpochInvariant, PTL DEF Spec, ClockSpec, Clock!Spec

\* No transaction commits in an epoch older than the last but one, so the
\* epochs behind that one are closed.
THEOREM LiveEpochs == Spec => CommitsInLiveEpoch
<1> DEFINE live == \A t \in history' \ history :
                     t.epoch \in {GlobalEpoch - 1, GlobalEpoch}
<1>1. ASSUME TypeOK, EpochInv, [Next]_vars
      PROVE  [live]_vars
  <2>1. ASSUME NEW w \in Workers, CommitTid(w)
        PROVE  live
    <3> DEFINE t == [worker |-> w, stamp |-> stamp[w],
                     epoch |-> CommitEpoch(w), tid |-> mrctid'[w],
                     reads |-> readSet[w], writes |-> writeSet[w]]
    <3>1. history' = history \cup {t}
      BY <2>1, <1>1 DEF CommitTid, TypeOK
    <3>2. t.epoch = ThLocalEpoch[w]
      BY DEF CommitEpoch
    <3> HIDE DEF t
    <3>3. ThLocalEpoch[w] \in {GlobalEpoch - 1, GlobalEpoch}
      BY <2>1, <1>1, LeaderAssumption DEF CommitTid, EpochInv, EpochLag
    <3> QED BY <3>1, <3>3, <3>2
  <2>2. ASSUME NEW w \in Workers, TxnStep(w), ~CommitTid(w)
        PROVE  UNCHANGED history
    BY <2>2 DEF TxnStep, ReadStep, LocalOp, ReadLoad, ReadCopy, ReadDone,
       ReadRetry, ValidationStep, StartCommit, LockRecord, LockFail, LoadGE,
       StoreThLocalEpoch, ValidateRead, ValidateFail, UnlockRecord, Abort,
       WriteStep, Wal, InstallVal, InstallTid, EndTxn, histVars
  <2>3. ASSUME NEW w \in Workers, EpochWork(w) \/ Begin(w) \/ AdvanceEpoch
        PROVE  UNCHANGED history
    BY <2>3 DEF EpochWork, Begin, AdvanceEpoch, histVars
  <2> QED
    BY <1>1, <2>1, <2>2, <2>3, LeaderAssumption DEF Next
<1> QED
  BY <1>1, EpochInvariant, PTL DEF Spec, CommitsInLiveEpoch

-----------------------------------------------------------------------------
(* The order of the epochs is the serial order.                            *)

(***************************************************************************)
(* A transaction has its place in the serial order, and its epoch, from    *)
(* the moment it loads the global epoch: until it commits they are in      *)
(* loadedGE, and then in the epoch its worker has published.  All these    *)
(* points are in one order, the committed ones among them, and a new one   *)
(* goes to the end.                                                        *)
(***************************************************************************)
EpochOf(w) == IF pc[w] = "storeGE" THEN loadedGE[w] ELSE ThLocalEpoch[w]

IsPoint(s, e) ==
  \/ \E t \in history : t.stamp = s /\ t.epoch = e
  \/ \E w \in InFlight : stamp[w] = s /\ EpochOf(w) = e

PointInv ==
  \A s, e \in Nat : IsPoint(s, e) =>
    /\ s <= clock /\ e <= GlobalEpoch
    /\ \A r, d \in Nat : IsPoint(r, d) /\ r <= s => d <= e

\* No identifier is ahead of the clock; those a worker has met before it took
\* its epoch are not ahead of that epoch.
Limit(w) == IF w \in InFlight THEN EpochOf(w) ELSE GlobalEpoch

TidEpochInv ==
  /\ \A k \in Keys : tidword[k].tid.epoch <= GlobalEpoch
  /\ \A w \in Workers :
       /\ ThLocalEpoch[w] <= GlobalEpoch
       /\ mrctid[w].epoch <= ThLocalEpoch[w]
       /\ expected[w].epoch <= GlobalEpoch
       /\ maxW[w].epoch <= Limit(w)
       /\ maxR[w].epoch <= Limit(w)
       /\ \A i \in DOMAIN readSet[w] : readSet[w][i].tid.epoch <= Limit(w)

OrderInv ==
  /\ PointInv
  /\ TidEpochInv
  /\ \A t \in history : t.tid.epoch = t.epoch

\* Nobody has a place in the serial order at first.
LEMMA InitOrder == Init => OrderInv
<1> SUFFICES ASSUME Init PROVE OrderInv
  OBVIOUS
<1>1. PointInv
  BY DEF Init, PointInv, IsPoint, InFlight
<1>2. TidEpochInv
  BY DEF Init, TidEpochInv, Limit, InFlight, ZeroTid, InitTid
<1> QED
  BY <1>1, <1>2 DEF Init, OrderInv

\* No epoch goes back, and none gets ahead of the clock.
LEMMA EpochsGrow ==
  ASSUME TypeOK, EpochInv, TidEpochInv, [Next]_vars
  PROVE  /\ GlobalEpoch' \in Nat /\ GlobalEpoch' >= GlobalEpoch
         /\ \A w \in Workers :
              /\ ThLocalEpoch[w] \in Nat /\ ThLocalEpoch'[w] \in Nat
              /\ ThLocalEpoch[w] <= ThLocalEpoch'[w]
              /\ ThLocalEpoch'[w] <= GlobalEpoch'
              /\ Limit(w) \in Nat /\ Limit(w)' \in Nat
              /\ Limit(w) <= Limit(w)'
<1> DEFINE Within(w) ==
             /\ ThLocalEpoch[w] \in Nat /\ loadedGE[w] \in Nat
             /\ ThLocalEpoch[w] <= GlobalEpoch
             /\ pc[w] = "storeGE" => /\ loadedGE[w] <= GlobalEpoch
                                     /\ ThLocalEpoch[w] <= loadedGE[w]
<1>1. GlobalEpoch \in Nat /\ \A w \in Workers : Within(w)
  <2>1. GlobalEpoch \in Nat
    BY DEF TypeOK
  <2>2. ASSUME NEW w \in Workers PROVE Within(w)
    <3>1. ThLocalEpoch[w] \in Nat /\ loadedGE[w] \in Nat
      BY DEF TypeOK
    <3>2. ThLocalEpoch[w] <= GlobalEpoch
      BY DEF TidEpochInv
    <3>3. pc[w] = "storeGE" => loadedGE[w] \in {GlobalEpoch, ThLocalEpoch[w]}
      BY DEF EpochInv
    <3> QED
      BY <2>1, <3>1, <3>2, <3>3
  <2> QED
    BY <2>1, <2>2
<1>2. CASE Quiet
  BY <1>1, <1>2 DEF Quiet, Limit, InFlight, EpochOf
<1>3. CASE AdvanceEpoch
  BY <1>1, <1>3 DEF AdvanceEpoch, Limit, InFlight, EpochOf
<1>4. ASSUME NEW w \in Workers, EpochWork(w)
      PROVE  /\ ThLocalEpoch' = [ThLocalEpoch EXCEPT ![w] = GlobalEpoch]
             /\ UNCHANGED <<GlobalEpoch, loadedGE, pc>> /\ pc[w] = "idle"
  BY <1>4 DEF EpochWork
<1>5. ASSUME NEW w \in Workers, LoadGE(w)
      PROVE  /\ loadedGE' = [loadedGE EXCEPT ![w] = GlobalEpoch]
             /\ UNCHANGED <<GlobalEpoch, ThLocalEpoch>>
             /\ pc' = [pc EXCEPT ![w] = "storeGE"] /\ pc[w] = "lock"
  BY <1>5 DEF LoadGE, Goto, epochVars
<1>6. ASSUME NEW w \in Workers, StoreThLocalEpoch(w)
      PROVE  /\ ThLocalEpoch' = [ThLocalEpoch EXCEPT ![w] = loadedGE[w]]
             /\ loadedGE' = [loadedGE EXCEPT ![w] = 0]
             /\ UNCHANGED GlobalEpoch
             /\ pc' = [pc EXCEPT ![w] = "validate"] /\ pc[w] = "storeGE"
  BY <1>6 DEF StoreThLocalEpoch, Goto
<1>7. ASSUME NEW w \in Workers, EpochWork(w) \/ LoadGE(w) \/ StoreThLocalEpoch(w)
      PROVE  /\ GlobalEpoch' = GlobalEpoch
             /\ \A u \in Workers :
                  /\ ThLocalEpoch'[u] \in Nat
                  /\ ThLocalEpoch[u] <= ThLocalEpoch'[u]
                  /\ ThLocalEpoch'[u] <= GlobalEpoch
                  /\ Limit(u) \in Nat /\ Limit(u)' \in Nat
                  /\ Limit(u) <= Limit(u)'
  <2> SUFFICES ASSUME NEW u \in Workers
               PROVE  /\ GlobalEpoch' = GlobalEpoch
                      /\ ThLocalEpoch'[u] \in Nat
                      /\ ThLocalEpoch[u] <= ThLocalEpoch'[u]
                      /\ ThLocalEpoch'[u] <= GlobalEpoch
                      /\ Limit(u) \in Nat /\ Limit(u)' \in Nat
                      /\ Limit(u) <= Limit(u)'
    OBVIOUS
  <2>1. CASE u # w
    <3>1. /\ ThLocalEpoch'[u] = ThLocalEpoch[u] /\ loadedGE'[u] = loadedGE[u]
          /\ pc'[u] = pc[u] /\ GlobalEpoch' = GlobalEpoch
      BY <1>4, <1>5, <1>6, <1>7, <2>1 DEF TypeOK
    <3> QED
      BY <1>1, <3>1 DEF Limit, InFlight, EpochOf
  <2>2. CASE u = w
    BY <1>1, <1>4, <1>5, <1>6, <1>7, <2>2 DEF TypeOK, Limit, InFlight, EpochOf
  <2> QED
    BY <2>1, <2>2
<1> QED
  BY <1>1, <1>2, <1>3, <1>7, StepKinds

\* Only LoadGE adds a point: CommitTid makes one permanent, and an abort
\* gives it up.
LEMMA PointsKept ==
  ASSUME TypeOK, [Next]_vars, \A w \in Workers : ~LoadGE(w)
  PROVE  /\ UNCHANGED clock
         /\ \A s, e \in Nat : IsPoint(s, e)' => IsPoint(s, e)
<1>1. ASSUME UNCHANGED histVars,
             \A w \in InFlight' : w \in InFlight /\ EpochOf(w)' = EpochOf(w)
      PROVE  /\ UNCHANGED clock
             /\ \A s, e \in Nat : IsPoint(s, e)' => IsPoint(s, e)
  BY <1>1 DEF IsPoint, histVars
<1>2. CASE Quiet /\ UNCHANGED histVars
  BY <1>1, <1>2 DEF Quiet, InFlight, EpochOf
<1>3. CASE AdvanceEpoch
  BY <1>1, <1>3 DEF AdvanceEpoch, InFlight, EpochOf
<1>4. ASSUME NEW w \in Workers, EpochWork(w)
      PROVE  /\ UNCHANGED clock
             /\ \A s, e \in Nat : IsPoint(s, e)' => IsPoint(s, e)
  <2>1. /\ UNCHANGED <<pc, loadedGE, histVars>> /\ pc[w] = "idle"
        /\ \A u \in Workers \ {w} : ThLocalEpoch'[u] = ThLocalEpoch[u]
    BY <1>4 DEF EpochWork, TypeOK
  <2> QED
    BY <1>1, <2>1 DEF InFlight, EpochOf
<1>5. ASSUME NEW w \in Workers, StoreThLocalEpoch(w)
      PROVE  /\ UNCHANGED clock
             /\ \A s, e \in Nat : IsPoint(s, e)' => IsPoint(s, e)
  <2>1. /\ UNCHANGED histVars
        /\ pc[w] = "storeGE" /\ pc'[w] = "validate"
        /\ ThLocalEpoch'[w] = loadedGE[w]
        /\ \A u \in Workers \ {w} : /\ ThLocalEpoch'[u] = ThLocalEpoch[u]
                                     /\ loadedGE'[u] = loadedGE[u]
                                     /\ pc'[u] = pc[u]
    BY <1>5 DEF StoreThLocalEpoch, Goto, TypeOK
  <2> QED
    BY <1>1, <2>1 DEF InFlight, EpochOf
<1>6. ASSUME NEW w \in Workers, CommitTid(w)
      PROVE  /\ UNCHANGED clock
             /\ \A s, e \in Nat : IsPoint(s, e)' => IsPoint(s, e)
  <2> DEFINE t == [worker |-> w, stamp |-> stamp[w],
                   epoch |-> CommitEpoch(w), tid |-> mrctid'[w],
                   reads |-> readSet[w], writes |-> writeSet[w]]
  <2>1. history' = history \cup {t}
    BY <1>6 DEF CommitTid, TypeOK
  <2>2. t.stamp = stamp[w] /\ t.epoch = ThLocalEpoch[w]
    BY DEF CommitEpoch
  <2> HIDE DEF t
  <2>3. /\ UNCHANGED <<clock, stamp, ThLocalEpoch, loadedGE>>
        /\ pc[w] = "validate" /\ pc' = [pc EXCEPT ![w] = "wal"]
    BY <1>6 DEF CommitTid, Goto, epochVars
  <2>4. w \in InFlight /\ EpochOf(w) = ThLocalEpoch[w]
    BY <2>3 DEF InFlight, EpochOf
  <2>5. \A u \in InFlight' : u \in InFlight /\ EpochOf(u)' = EpochOf(u)
    BY <2>3 DEF InFlight, EpochOf, TypeOK
  <2>6. ASSUME NEW s \in Nat, NEW e \in Nat, IsPoint(s, e)'
        PROVE  IsPoint(s, e)
    <3>1. CASE \E x \in history' : x.stamp = s /\ x.epoch = e
      BY <2>1, <2>2, <2>4, <3>1 DEF IsPoint
    <3>2. CASE \E u \in InFlight' : stamp'[u] = s /\ EpochOf(u)' = e
      BY <2>3, <2>5, <3>2 DEF IsPoint
    <3> QED
      BY <2>6, <3>1, <3>2 DEF IsPoint
  <2> QED
    BY <2>3, <2>6
<1>7. CASE UNCHANGED vars
  BY <1>1, <1>7 DEF vars, epochVars, histVars, InFlight, EpochOf
<1>8. ASSUME NEW w \in Workers, Begin(w) \/ TxnStep(w),
             ~CommitTid(w), ~LoadGE(w), ~StoreThLocalEpoch(w)
      PROVE  Quiet /\ UNCHANGED histVars
  <2>1. Quiet
    BY <1>8, QuietActions DEF TxnStep, ValidationStep
  <2>2. UNCHANGED histVars
    BY <1>8 DEF Begin, TxnStep, ReadStep, LocalOp, ReadLoad, ReadCopy,
       ReadDone, ReadRetry, ValidationStep, StartCommit, LockRecord, LockFail,
       ValidateRead, ValidateFail, UnlockRecord, Abort, WriteStep, Wal,
       InstallVal, InstallTid, EndTxn
  <2> QED
    BY <2>1, <2>2
<1> QED
  BY <1>2, <1>3, <1>4, <1>5, <1>6, <1>7, <1>8 DEF Next

\* Points in the serial order keep to the order of epochs.
LEMMA PointStep ==
  ASSUME TypeOK, EpochInv, TidEpochInv, PointInv, [Next]_vars
  PROVE  PointInv'
<1>1. /\ GlobalEpoch \in Nat /\ GlobalEpoch' \in Nat
      /\ GlobalEpoch' >= GlobalEpoch /\ clock \in Nat
  BY EpochsGrow DEF TypeOK
<1>2. CASE \A w \in Workers : ~LoadGE(w)
  <2>1. /\ clock' = clock
        /\ \A s, e \in Nat : IsPoint(s, e)' => IsPoint(s, e)
    BY <1>2, PointsKept
  <2> SUFFICES ASSUME NEW s \in Nat, NEW e \in Nat, IsPoint(s, e)'
               PROVE  /\ s <= clock' /\ e <= GlobalEpoch'
                      /\ \A r, d \in Nat : IsPoint(r, d)' /\ r <= s => d <= e
    BY DEF PointInv
  <2>2. /\ s <= clock /\ e <= GlobalEpoch
        /\ \A r, d \in Nat : IsPoint(r, d) /\ r <= s => d <= e
    BY <2>1 DEF PointInv
  <2> QED
    BY <1>1, <2>1, <2>2
<1>3. ASSUME NEW w \in Workers, LoadGE(w)
      PROVE  PointInv'
  <2>1. /\ clock' = clock + 1 /\ GlobalEpoch' = GlobalEpoch
        /\ UNCHANGED <<ThLocalEpoch, history>>
        /\ stamp'[w] = clock + 1 /\ loadedGE'[w] = GlobalEpoch
        /\ pc'[w] = "storeGE"
        /\ \A u \in Workers \ {w} : /\ stamp'[u] = stamp[u]
                                     /\ loadedGE'[u] = loadedGE[u]
                                     /\ pc'[u] = pc[u]
    BY <1>3 DEF LoadGE, Goto, epochVars, TypeOK
  <2>2. ASSUME NEW s \in Nat, NEW e \in Nat, IsPoint(s, e)'
        PROVE  IsPoint(s, e) \/ (s = clock + 1 /\ e = GlobalEpoch)
    BY <2>1, <2>2 DEF IsPoint, InFlight, EpochOf
  <2> SUFFICES ASSUME NEW s \in Nat, NEW e \in Nat, IsPoint(s, e)',
                      NEW r \in Nat, NEW d \in Nat, IsPoint(r, d)', r <= s
               PROVE  s <= clock' /\ e <= GlobalEpoch' /\ d <= e
    BY DEF PointInv
  <2>3. /\ IsPoint(s, e) => s <= clock /\ e <= GlobalEpoch
        /\ IsPoint(r, d) => r <= clock /\ d <= GlobalEpoch
        /\ IsPoint(s, e) /\ IsPoint(r, d) => d <= e
    BY DEF PointInv
  <2>4. /\ IsPoint(s, e) \/ (s = clock + 1 /\ e = GlobalEpoch)
        /\ IsPoint(r, d) \/ (r = clock + 1 /\ d = GlobalEpoch)
    BY <2>2
  <2> QED
    BY <1>1, <2>1, <2>3, <2>4
<1> QED
  BY <1>2, <1>3

\* What a worker may have met by its next step: nothing ahead of its limit.
Met(w) ==
  /\ expected'[w].epoch <= GlobalEpoch
  /\ maxW'[w].epoch <= Limit(w)
  /\ maxR'[w].epoch <= Limit(w)
  /\ \A i \in DOMAIN readSet'[w] : readSet'[w][i].tid.epoch <= Limit(w)

\* A maximum is not ahead of an epoch its arguments are not ahead of.
LEMMA MaxTidEpoch ==
  ASSUME NEW a \in Tid, NEW b \in Tid, NEW e \in Nat,
         a.epoch <= e, b.epoch <= e
  PROVE  MaxTid(a, b).epoch <= e
BY MaxTidBound

\* What a worker has met stays behind its epoch, whatever step is taken.
LEMMA StepMet ==
  ASSUME TInv, EpochInv, TidEpochInv, [Next]_vars, NEW w \in Workers
  PROVE  Met(w)
<1>1. /\ GlobalEpoch \in Nat /\ Limit(w) \in Nat /\ 0 <= Limit(w)
      /\ ZeroTid.epoch = 0
      /\ pc[w] \notin {"storeGE", "validate"} => Limit(w) = GlobalEpoch
  <2>1. GlobalEpoch \in Nat /\ Limit(w) \in Nat
    BY EpochsGrow DEF TInv, TypeOK
  <2> QED
    BY <2>1 DEF ZeroTid, Limit, InFlight
<1>2. ASSUME UNCHANGED <<expected, maxVars, readSet>>
      PROVE  Met(w)
  BY <1>2 DEF Met, TidEpochInv, maxVars
<1>3. ASSUME NEW u \in Workers, Begin(u) PROVE Met(w)
  <2>1. /\ UNCHANGED <<expected, readSet>>
        /\ maxW'[w] \in {maxW[w], ZeroTid} /\ maxR'[w] \in {maxR[w], ZeroTid}
    BY <1>3 DEF Begin, readVars, setVars, TInv, TypeOK
  <2> QED
    BY <1>1, <2>1 DEF Met, TidEpochInv
<1>4. ASSUME NEW u \in Workers, ReadLoad(u) \/ ReadRetry(u) PROVE Met(w)
  <2>1. opi[u] \in DOMAIN pro[u]
    BY <1>4 DEF ReadLoad, ReadRetry, Executing, TInv, OpInRange
  <2>2. ThisOp(u).key \in Keys
    BY <2>1, ThisOpType DEF TInv
  <2>3. /\ UNCHANGED <<readSet, maxW, maxR>>
        /\ expected' = [expected EXCEPT ![u] = tidword[ThisOp(u).key].tid]
    BY <1>4 DEF ReadLoad, ReadRetry, setVars, maxVars
  <2>4. expected'[w] \in {expected[w], tidword[ThisOp(u).key].tid}
    BY <2>3 DEF TInv, TypeOK
  <2> QED
    BY <2>2, <2>3, <2>4 DEF Met, TidEpochInv
<1>5. ASSUME NEW u \in Workers, ReadDone(u) PROVE Met(w)
  <2> DEFINE r == [key |-> ThisOp(u).key, val |-> buf[u], tid |-> expected[u]]
  <2>1. /\ UNCHANGED <<expected, maxW, maxR>> /\ pc[u] = "check"
        /\ readSet' = [readSet EXCEPT ![u] = Append(readSet[u], r)]
    BY <1>5 DEF ReadDone, readVars, maxVars
  <2>2. r.tid = expected[u]
    OBVIOUS
  <2> HIDE DEF r
  <2>3. CASE w # u
    BY <2>1, <2>3 DEF Met, TidEpochInv, TInv, TypeOK
  <2>4. CASE w = u
    <3>1. readSet[w] \in Seq(ReadElement) /\ readSet'[w] = Append(readSet[w], r)
      BY <2>1, <2>4 DEF TInv, TypeOK
    <3>2. Limit(w) = GlobalEpoch
      BY <1>1, <2>1, <2>4
    <3>3. \A i \in DOMAIN readSet[w] : readSet[w][i].tid.epoch <= Limit(w)
      BY DEF TidEpochInv
    <3>4. r.tid.epoch <= Limit(w)
      BY <2>2, <2>4, <3>2 DEF TidEpochInv
    <3>5. \A i \in DOMAIN readSet'[w] : readSet'[w][i].tid.epoch <= Limit(w)
      BY <3>1, <3>3, <3>4
    <3> QED
      BY <2>1, <3>5 DEF Met, TidEpochInv
  <2> QED
    BY <2>3, <2>4
<1>6. ASSUME NEW u \in Workers, NEW k \in Keys, LockRecord(u, k)
      PROVE  Met(w)
  <2>1. /\ UNCHANGED <<expected, readSet, maxR>> /\ pc[u] = "lock"
        /\ maxW' = [maxW EXCEPT ![u] = MaxTid(maxW[u], tidword[k].tid)]
    BY <1>6 DEF LockRecord, readVars, setVars
  <2>2. CASE w # u
    BY <2>1, <2>2 DEF Met, TidEpochInv, TInv, TypeOK
  <2>3. CASE w = u
    <3>1. maxW'[w] = MaxTid(maxW[w], tidword[k].tid)
      BY <2>1, <2>3 DEF TInv, TypeOK
    <3>2. maxW[w] \in Tid /\ tidword[k].tid \in Tid
      BY DEF TInv, TypeOK
    <3>3. maxW[w].epoch <= Limit(w) /\ tidword[k].tid.epoch <= Limit(w)
      BY <1>1, <2>1, <2>3 DEF TidEpochInv
    <3>4. maxW'[w].epoch <= Limit(w)
      BY <1>1, <3>1, <3>2, <3>3, MaxTidEpoch
    <3> QED
      BY <2>1, <3>4 DEF Met, TidEpochInv
  <2> QED
    BY <2>2, <2>3
<1>7. ASSUME NEW u \in Workers, ValidateRead(u) PROVE Met(w)
  <2> DEFINE r == readSet[u][vidx[u]]
  <2>1. /\ UNCHANGED <<expected, readSet, maxW>>
        /\ maxR' = [maxR EXCEPT ![u] = MaxTid(maxR[u], tidword[r.key].tid)]
        /\ tidword[r.key].tid = r.tid /\ vidx[u] \in DOMAIN readSet[u]
    BY <1>7 DEF ValidateRead, Validating, StillValid, readVars, setVars
  <2>2. CASE w # u
    BY <2>1, <2>2 DEF Met, TidEpochInv, TInv, TypeOK
  <2>3. CASE w = u
    <3>1. maxR'[w] = MaxTid(maxR[w], r.tid)
      BY <2>1, <2>3 DEF TInv, TypeOK
    <3>2. readSet[u] \in Seq(ReadElement) /\ maxR[w] \in Tid
      BY DEF TInv, TypeOK
    <3>3. r \in ReadElement
      BY <2>1, <3>2
    <3>4. maxR[w].epoch <= Limit(w) /\ r.tid.epoch <= Limit(w)
      BY <2>1, <2>3 DEF TidEpochInv
    <3> HIDE DEF r
    <3>5. r.tid \in Tid
      BY <3>3 DEF ReadElement
    <3>6. maxR'[w].epoch <= Limit(w)
      BY <1>1, <3>1, <3>2, <3>4, <3>5, MaxTidEpoch
    <3> QED
      BY <2>1, <3>6 DEF Met, TidEpochInv
  <2> QED
    BY <2>2, <2>3
<1>8. ASSUME NEW u \in Workers, Abort(u) \/ EndTxn(u) PROVE Met(w)
  <2>1. /\ UNCHANGED <<expected, maxW, maxR>>
        /\ readSet' = [readSet EXCEPT ![u] = <<>>]
    BY <1>8 DEF Abort, EndTxn, readVars, maxVars
  <2>2. readSet'[w] \in {readSet[w], <<>>}
    BY <2>1 DEF TInv, TypeOK
  <2> QED
    BY <2>1, <2>2 DEF Met, TidEpochInv
<1>9. ASSUME NEW u \in Workers,
             \/ AdvanceEpoch \/ EpochWork(u)
             \/ LocalOp(u) \/ ReadCopy(u) \/ StartCommit(u)
             \/ \E k \in Keys : LockFail(u, k) \/ UnlockRecord(u, k)
             \/ LoadGE(u) \/ StoreThLocalEpoch(u) \/ ValidateFail(u)
             \/ CommitTid(u) \/ Wal(u)
             \/ \E k \in Keys : InstallVal(u, k) \/ InstallTid(u, k)
      PROVE  Met(w)
  <2>1. UNCHANGED <<expected, maxVars, readSet>>
    BY <1>9 DEF AdvanceEpoch, EpochWork, LocalOp, ReadCopy, StartCommit,
       LockFail, UnlockRecord, LoadGE, StoreThLocalEpoch, ValidateFail,
       CommitTid, Wal, InstallVal, InstallTid, readVars, setVars
  <2> QED
    BY <1>2, <2>1
<1>10. CASE UNCHANGED vars
  BY <1>2, <1>10 DEF vars, readVars, setVars
<1> QED
  BY <1>3, <1>4, <1>5, <1>6, <1>7, <1>8, <1>9, <1>10
  DEF Next, TxnStep, ReadStep, ValidationStep, WriteStep

\* A worker's new identifier is in the epoch the worker has published.
LEMMA CommitInEpoch ==
  ASSUME TypeOK, TidEpochInv, NEW w \in Workers, CommitTid(w)
  PROVE  /\ mrctid'[w].epoch = ThLocalEpoch[w]
         /\ \A u \in Workers \ {w} : mrctid'[u] = mrctid[u]
<1>1. /\ mrctid' = [mrctid EXCEPT ![w] = ChooseTid(maxW[w], maxR[w], mrctid[w],
                                                  ThLocalEpoch[w])]
      /\ pc[w] = "validate"
  BY DEF CommitTid, CommitEpoch
<1>2. /\ maxW[w] \in Tid /\ maxR[w] \in Tid /\ mrctid[w] \in Tid
      /\ ThLocalEpoch[w] \in Nat
  BY DEF TypeOK
<1>3. Limit(w) = ThLocalEpoch[w]
  BY <1>1 DEF Limit, InFlight, EpochOf
<1>4. /\ maxW[w].epoch <= ThLocalEpoch[w] /\ maxR[w].epoch <= ThLocalEpoch[w]
      /\ mrctid[w].epoch <= ThLocalEpoch[w]
  BY <1>3 DEF TidEpochInv
<1>5. ChooseTid(maxW[w], maxR[w], mrctid[w], ThLocalEpoch[w]).epoch
        = ThLocalEpoch[w]
  BY <1>2, <1>4, ChooseTidEpoch
<1> QED
  BY <1>1, <1>5 DEF TypeOK

\* Identifiers come from writePhase only, into a record from its writer.
LEMMA TidOrigin ==
  ASSUME TypeOK, [Next]_vars
  PROVE  /\ UNCHANGED <<mrctid, history>> \/ \E w \in Workers : CommitTid(w)
         /\ \A k \in Keys :
              \/ tidword'[k].tid = tidword[k].tid
              \/ \E w \in Workers : tidword'[k].tid = mrctid[w]
<1>1. ASSUME NEW w \in Workers, NEW k \in Keys,
             LockRecord(w, k) \/ UnlockRecord(w, k)
      PROVE  /\ UNCHANGED <<mrctid, history>>
             /\ \A j \in Keys : tidword'[j].tid = tidword[j].tid
  <2>1. tidword \in [Keys -> [tid : Tid, lock : BOOLEAN]]
    BY DEF TypeOK
  <2>2. \E b \in BOOLEAN : tidword' = [tidword EXCEPT ![k].lock = b]
    BY <1>1 DEF LockRecord, UnlockRecord
  <2>3. \A j \in Keys : tidword'[j].tid = tidword[j].tid
    BY <2>1, <2>2
  <2>4. UNCHANGED <<mrctid, history>>
    BY <1>1 DEF LockRecord, UnlockRecord, histVars
  <2> QED
    BY <2>3, <2>4
<1>2. ASSUME NEW w \in Workers, NEW k \in Keys, InstallTid(w, k)
      PROVE  /\ UNCHANGED <<mrctid, history>>
             /\ \A j \in Keys : tidword'[j].tid \in {tidword[j].tid, mrctid[w]}
  BY <1>2 DEF InstallTid, histVars, TypeOK
<1>3. ASSUME NEW w \in Workers, CommitTid(w)
      PROVE  UNCHANGED tidword
  BY <1>3 DEF CommitTid, recVars
<1>4. ASSUME NEW w \in Workers,
             \/ AdvanceEpoch \/ EpochWork(w) \/ Begin(w) \/ ReadStep(w)
             \/ StartCommit(w) \/ LoadGE(w) \/ StoreThLocalEpoch(w)
             \/ \E k \in Keys : LockFail(w, k) \/ InstallVal(w, k)
             \/ ValidateRead(w) \/ ValidateFail(w) \/ Abort(w)
             \/ Wal(w) \/ EndTxn(w)
      PROVE  UNCHANGED <<mrctid, history, tidword>>
  BY <1>4 DEF AdvanceEpoch, EpochWork, Begin, ReadStep, LocalOp, ReadLoad,
     ReadCopy, ReadDone, ReadRetry, StartCommit, LoadGE, StoreThLocalEpoch,
     LockFail, InstallVal, ValidateRead, ValidateFail, Abort, Wal, EndTxn,
     recVars, histVars
<1>5. CASE UNCHANGED vars
  BY <1>5 DEF vars, recVars, histVars
<1>6. CASE AdvanceEpoch
  BY <1>4, <1>6, LeaderAssumption
<1>7. ASSUME NEW w \in Workers, EpochWork(w) \/ Begin(w) \/ TxnStep(w)
      PROVE  /\ UNCHANGED <<mrctid, history>> \/ CommitTid(w)
             /\ \A k \in Keys : tidword'[k].tid \in {tidword[k].tid, mrctid[w]}
  BY <1>1, <1>2, <1>3, <1>4, <1>7
  DEF TxnStep, ValidationStep, WriteStep
<1> QED
  BY <1>5, <1>6, <1>7 DEF Next

\* TidEpochInv is inductive.
LEMMA TidEpochStep ==
  ASSUME TInv, EpochInv, TidEpochInv, [Next]_vars
  PROVE  TidEpochInv'
<1>1. TypeOK
  BY DEF TInv
<1>2. TypeOK'
  BY TypeStep DEF TInv
<1>3. /\ GlobalEpoch \in Nat /\ GlobalEpoch' \in Nat
      /\ GlobalEpoch <= GlobalEpoch'
      /\ \A w \in Workers :
           /\ ThLocalEpoch[w] \in Nat /\ ThLocalEpoch'[w] \in Nat
           /\ ThLocalEpoch[w] <= ThLocalEpoch'[w]
           /\ ThLocalEpoch'[w] <= GlobalEpoch'
           /\ Limit(w) \in Nat /\ Limit(w)' \in Nat
           /\ Limit(w) <= Limit(w)'
  <2>1. GlobalEpoch \in Nat
    BY <1>1 DEF TypeOK
  <2> QED
    BY <1>1, <2>1, EpochsGrow
<1>4. ASSUME NEW k \in Keys PROVE tidword'[k].tid.epoch <= GlobalEpoch'
  <2>1. tidword'[k].tid.epoch \in Nat
    BY <1>2 DEF TypeOK, Tid
  <2>2. tidword[k].tid.epoch <= GlobalEpoch
    BY DEF TidEpochInv
  <2>3. \A w \in Workers : mrctid[w].epoch <= ThLocalEpoch[w]
    BY DEF TidEpochInv
  <2>4. \/ tidword'[k].tid = tidword[k].tid
        \/ \E w \in Workers : tidword'[k].tid = mrctid[w]
    BY <1>1, TidOrigin
  <2> QED
    BY <1>3, <2>1, <2>2, <2>3, <2>4
<1>5. ASSUME NEW w \in Workers
      PROVE  /\ ThLocalEpoch'[w] <= GlobalEpoch'
             /\ mrctid'[w].epoch <= ThLocalEpoch'[w]
             /\ expected'[w].epoch <= GlobalEpoch'
             /\ maxW'[w].epoch <= Limit(w)'
             /\ maxR'[w].epoch <= Limit(w)'
             /\ \A i \in DOMAIN readSet'[w] :
                  readSet'[w][i].tid.epoch <= Limit(w)'
  <2>1. Met(w)
    BY StepMet
  <2>2. mrctid'[w].epoch <= ThLocalEpoch'[w]
    <3>1. mrctid'[w].epoch \in Nat
      BY <1>2 DEF TypeOK, Tid
    <3>2. mrctid[w].epoch <= ThLocalEpoch[w]
      BY DEF TidEpochInv
    <3>3. mrctid'[w].epoch \in {mrctid[w].epoch, ThLocalEpoch[w]}
      BY <1>1, TidOrigin, CommitInEpoch
    <3> QED
      BY <1>3, <3>1, <3>2, <3>3
  <2>3. expected'[w].epoch \in Nat /\ maxW'[w].epoch \in Nat /\ maxR'[w].epoch \in Nat
    BY <1>2 DEF TypeOK, Tid
  <2>4. ASSUME NEW i \in DOMAIN readSet'[w]
        PROVE  readSet'[w][i].tid.epoch <= Limit(w)'
    <3>1. readSet'[w] \in Seq(ReadElement)
      BY <1>2 DEF TypeOK
    <3>2. readSet'[w][i] \in ReadElement
      BY <3>1
    <3>3. readSet'[w][i].tid.epoch \in Nat
      BY <3>2 DEF ReadElement, Tid
    <3>4. readSet'[w][i].tid.epoch <= Limit(w)
      BY <2>1 DEF Met
    <3> QED
      BY <1>3, <3>3, <3>4
  <2>5. /\ expected'[w].epoch <= GlobalEpoch
        /\ maxW'[w].epoch <= Limit(w) /\ maxR'[w].epoch <= Limit(w)
    BY <2>1 DEF Met
  <2> QED
    BY <1>3, <2>2, <2>3, <2>4, <2>5
<1> QED
  BY <1>4, <1>5 DEF TidEpochInv

\* So is the whole of OrderInv.
LEMMA OrderStep ==
  ASSUME TInv, EpochInv, OrderInv, [Next]_vars
  PROVE  OrderInv'
<1>1. PointInv'
  BY PointStep DEF OrderInv, TInv
<1>2. TidEpochInv'
  BY TidEpochStep DEF OrderInv
<1>3. \A t \in history' : t.tid.epoch = t.epoch
  <2>1. CASE history' = history
    BY <2>1 DEF OrderInv
  <2>2. ASSUME NEW w \in Workers, CommitTid(w)
        PROVE  \A t \in history' : t.tid.epoch = t.epoch
    <3> DEFINE t == [worker |-> w, stamp |-> stamp[w],
                     epoch |-> CommitEpoch(w), tid |-> mrctid'[w],
                     reads |-> readSet[w], writes |-> writeSet[w]]
    <3>1. history' = history \cup {t}
      BY <2>2 DEF CommitTid, TInv, TypeOK
    <3>2. t.tid = mrctid'[w] /\ t.epoch = ThLocalEpoch[w]
      BY DEF CommitEpoch
    <3> HIDE DEF t
    <3>3. mrctid'[w].epoch = ThLocalEpoch[w]
      BY <2>2, CommitInEpoch DEF OrderInv, TInv
    <3> QED
      BY <3>1, <3>2, <3>3 DEF OrderInv
  <2> QED
    BY <2>1, <2>2, TidOrigin DEF TInv
<1> QED
  BY <1>1, <1>2, <1>3 DEF OrderInv

\* OrderInv, of every behaviour.
LEMMA OrderInvariant == Spec => [](TInv /\ EpochInv /\ OrderInv)
<1>1. TInv /\ EpochInv /\ OrderInv /\ [Next]_vars => OrderInv'
  BY OrderStep
<1>2. TInv => TypeOK
  BY DEF TInv
<1> QED
  BY <1>1, <1>2, InitOrder, TypeInvariant, EpochInvariant, PTL DEF Spec

\* The epochs of committed transactions follow the serial order, and are the
\* epochs of their identifiers: a log cut after an epoch cuts the serial order
\* at one point.
THEOREM EpochsFollowSerialOrder == Spec => []EpochOrder
<1>1. ASSUME TypeOK, OrderInv
      PROVE  EpochOrder
  <2> SUFFICES ASSUME NEW t \in history, NEW u \in history
               PROVE  /\ t.tid.epoch = t.epoch
                      /\ t.stamp < u.stamp => t.epoch <= u.epoch
    BY DEF EpochOrder
  <2>1. /\ t.stamp \in Nat /\ t.epoch \in Nat
        /\ u.stamp \in Nat /\ u.epoch \in Nat
    BY <1>1 DEF TypeOK, Committed
  <2>2. IsPoint(t.stamp, t.epoch) /\ IsPoint(u.stamp, u.epoch)
    BY DEF IsPoint
  <2>3. t.stamp <= u.stamp => t.epoch <= u.epoch
    BY <1>1, <2>1, <2>2 DEF OrderInv, PointInv
  <2> QED
    BY <1>1, <2>1, <2>3 DEF OrderInv
<1>2. TInv => TypeOK
  BY DEF TInv
<1> QED
  BY <1>1, <1>2, OrderInvariant, PTL
=============================================================================
