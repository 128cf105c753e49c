------------------------------- MODULE SiloCC -------------------------------
(***************************************************************************)
(* The concurrency control of silo_logging: worker threads that run        *)
(* optimistic transactions with TxExecutor (transaction.cpp) over shared   *)
(* records, and the epoch machinery they share (util.cpp).                 *)
(*                                                                         *)
(* An action ends where the code touches memory that another thread reads  *)
(* or writes; thread-local work is folded into the step before it.  The    *)
(* payload of a record is the worker that wrote it: write_val_ is a        *)
(* constant of its worker.  The log buffers and the loggers are in SiloLog;*)
(* here the log is the set of records handed over by wal().                *)
(***************************************************************************)
EXTENDS SiloTid, Sequences

CONSTANTS
  Workers,      \* worker threads
  Leader,       \* thid 0, which also advances the global epoch
  Keys,         \* indices of the table
  Procs,        \* the procedures makeProcedure may produce
  NoWorker,     \* the payload partTableInit stores
  MaxEpoch,     \* bound: the leader stops the clock here
  MaxTxn        \* bound: transaction attempts of a worker

Ope == {"READ", "WRITE", "READ_MODIFY_WRITE"}
Op  == [ope : Ope, key : Keys]

ASSUME LeaderAssumption == Leader \in Workers
ASSUME KeysAssumption == Keys \subseteq Nat
ASSUME ProcsAssumption == Procs \subseteq Seq(Op)
ASSUME BoundsAssumption == MaxEpoch \in Nat /\ MaxTxn \in Nat

VARIABLES
  GlobalEpoch,   \* the global epoch
  ThLocalEpoch,  \* the epoch each worker published
  tidword,       \* per record: its identifier and lock bit
  val,           \* per record: its payload
  pc,            \* per worker: where it is
  pro,           \* pro_set_, <<>> when the next one is still to be made
  opi,           \* index of the operation being executed
  readSet,       \* read_set_
  writeSet,      \* write_set_, as the set of its keys
  pending,       \* what the loop over write_set_ has still to visit
  vidx,          \* position of the validation loop in read_set_
  expected,      \* the identifier read() compares with
  buf,           \* return_val_
  loadedGE,      \* result of atomicLoadGE() not yet stored
  maxW,          \* max_wset_
  maxR,          \* max_rset_
  mrctid,        \* mrctid_, the last identifier the worker issued
  ntx,           \* attempts begun (bounds the model)
  log,           \* records handed to the log
  clock,         \* history: number of serial points so far
  stamp,         \* history: serial point of the current transaction
  history        \* history: committed transactions

epochVars == <<GlobalEpoch, ThLocalEpoch>>
recVars   == <<tidword, val>>
opVars    == <<pro, opi, ntx>>
setVars   == <<readSet, writeSet>>
loopVars  == <<pending, vidx>>
readVars  == <<expected, buf>>
maxVars   == <<maxW, maxR>>
histVars  == <<clock, stamp, history>>
vars == <<epochVars, recVars, pc, opVars, setVars, loopVars, readVars,
          loadedGE, maxVars, mrctid, log, histVars>>

Vals == Workers \cup {NoWorker}

Phases == {"idle", "exec", "copy", "check", "lock", "loadGE", "storeGE",
           "validate", "wal", "write", "release", "unlock"}

ReadElement == [key : Keys, val : Vals, tid : Tid]
LogRecord   == [tid : Tid, key : Keys, val : Workers]
Committed   == [worker : Workers, stamp : Nat, epoch : Nat, tid : Tid,
                reads : Seq(ReadElement), writes : SUBSET Keys]

TypeOK ==
  /\ GlobalEpoch \in Nat \ {0}
  /\ ThLocalEpoch \in [Workers -> Nat]
  /\ tidword \in [Keys -> [tid : Tid, lock : BOOLEAN]]
  /\ val \in [Keys -> Vals]
  /\ pc \in [Workers -> Phases]
  /\ pro \in [Workers -> Procs \cup {<<>>}]
  /\ opi \in [Workers -> Nat \ {0}]
  /\ readSet \in [Workers -> Seq(ReadElement)]
  /\ writeSet \in [Workers -> SUBSET Keys]
  /\ pending \in [Workers -> SUBSET Keys]
  /\ vidx \in [Workers -> Nat \ {0}]
  /\ expected \in [Workers -> Tid]
  /\ buf \in [Workers -> Vals]
  /\ loadedGE \in [Workers -> Nat]
  /\ maxW \in [Workers -> Tid]
  /\ maxR \in [Workers -> Tid]
  /\ mrctid \in [Workers -> Tid]
  /\ ntx \in [Workers -> Nat]
  /\ log \subseteq LogRecord
  /\ clock \in Nat
  /\ stamp \in [Workers -> Nat]
  /\ history \subseteq Committed

Init ==
  /\ GlobalEpoch = 1
  /\ ThLocalEpoch = [w \in Workers |-> 0]
  /\ tidword = [k \in Keys |-> [tid |-> InitTid, lock |-> FALSE]]
  /\ val = [k \in Keys |-> NoWorker]
  /\ pc = [w \in Workers |-> "idle"]
  /\ pro = [w \in Workers |-> <<>>]
  /\ opi = [w \in Workers |-> 1]
  /\ readSet = [w \in Workers |-> <<>>]
  /\ writeSet = [w \in Workers |-> {}]
  /\ pending = [w \in Workers |-> {}]
  /\ vidx = [w \in Workers |-> 1]
  /\ expected = [w \in Workers |-> ZeroTid]
  /\ buf = [w \in Workers |-> NoWorker]
  /\ loadedGE = [w \in Workers |-> 0]
  /\ maxW = [w \in Workers |-> ZeroTid]
  /\ maxR = [w \in Workers |-> ZeroTid]
  /\ mrctid = [w \in Workers |-> ZeroTid]
  /\ ntx = [w \in Workers |-> 0]
  /\ log = {}
  /\ clock = 0
  /\ stamp = [w \in Workers |-> 0]
  /\ history = {}

Goto(w, label) == pc' = [pc EXCEPT ![w] = label]

-----------------------------------------------------------------------------
(* Between transactions: the epoch.                                        *)

\* Mutated: the published epochs are not looked at.
EpochUnchecked == TRUE

\* chkEpochLoaded: every worker but the leader has published the epoch.
EpochLoaded == \A w \in Workers \ {Leader} : ThLocalEpoch[w] = GlobalEpoch

\* leaderWork: only the leader, and only between two transactions.  The scan
\* is one step because no value it has already seen can change before it ends.
AdvanceEpoch ==
  /\ pc[Leader] = "idle"
  /\ GlobalEpoch < MaxEpoch
  /\ EpochLoaded
  /\ GlobalEpoch' = GlobalEpoch + 1
  /\ UNCHANGED <<ThLocalEpoch, recVars, pc, opVars, setVars, loopVars,
                 readVars, loadedGE, maxVars, mrctid, log, histVars>>

\* Mutated: also in the middle of a transaction.
EpochWorkAnywhere(w) ==
  /\ ThLocalEpoch' = [ThLocalEpoch EXCEPT ![w] = GlobalEpoch]
  /\ UNCHANGED <<GlobalEpoch, recVars, pc, opVars, setVars, loopVars,
                 readVars, loadedGE, maxVars, mrctid, log, histVars>>

\* epochWork: a worker that waits for a log buffer keeps publishing the epoch.
\* Load and store are one step: the clock cannot move between them unless the
\* stored value is the published one already.
EpochWork(w) ==
  /\ pc[w] = "idle"
  /\ ThLocalEpoch' = [ThLocalEpoch EXCEPT ![w] = GlobalEpoch]
  /\ UNCHANGED <<GlobalEpoch, recVars, pc, opVars, setVars, loopVars,
                 readVars, loadedGE, maxVars, mrctid, log, histVars>>

-----------------------------------------------------------------------------
(* Execution: begin, read, write.                                          *)

\* begin, on a new procedure or, after an abort (RETRY), on the same one.
Begin(w) ==
  /\ pc[w] = "idle"
  /\ ntx[w] < MaxTxn
  /\ IF pro[w] = <<>>
     THEN \E p \in Procs : pro' = [pro EXCEPT ![w] = p]
     ELSE pro' = pro
  /\ ntx' = [ntx EXCEPT ![w] = @ + 1]
  /\ opi' = [opi EXCEPT ![w] = 1]
  /\ maxW' = [maxW EXCEPT ![w] = ZeroTid]
  /\ maxR' = [maxR EXCEPT ![w] = ZeroTid]
  /\ Goto(w, "exec")
  /\ UNCHANGED <<epochVars, recVars, setVars, loopVars, readVars, loadedGE,
                 mrctid, log, histVars>>

Executing(w) == pc[w] = "exec" /\ opi[w] \in DOMAIN pro[w]
ThisOp(w) == pro[w][opi[w]]

InReadSet(w, k) == \E i \in DOMAIN readSet[w] : readSet[w][i].key = k
InWriteSet(w, k) == k \in writeSet[w]

\* The write half of an operation: write() adds the key once.
WritesOf(op) == IF op.ope = "READ" THEN {} ELSE {op.key}
NextOp(w) ==
  /\ writeSet' = [writeSet EXCEPT ![w] = @ \cup WritesOf(ThisOp(w))]
  /\ opi' = [opi EXCEPT ![w] = @ + 1]
  /\ UNCHANGED <<pro, ntx>>

\* An operation that touches no record: a blind write, or a read of a key
\* that is in the read or write set already.
LocalOp(w) ==
  /\ Executing(w)
  /\ \/ ThisOp(w).ope = "WRITE"
     \/ InReadSet(w, ThisOp(w).key)
     \/ InWriteSet(w, ThisOp(w).key)
  /\ NextOp(w)
  /\ UNCHANGED <<epochVars, recVars, pc, readSet, loopVars, readVars,
                 loadedGE, maxVars, mrctid, log, histVars>>

\* read (a): spin until the lock bit is clear, remember the identifier.
ReadLoad(w) ==
  /\ Executing(w)
  /\ ThisOp(w).ope # "WRITE"
  /\ ~InReadSet(w, ThisOp(w).key)
  /\ ~InWriteSet(w, ThisOp(w).key)
  /\ ~tidword[ThisOp(w).key].lock
  /\ expected' = [expected EXCEPT ![w] = tidword[ThisOp(w).key].tid]
  /\ Goto(w, "copy")
  /\ UNCHANGED <<epochVars, recVars, opVars, setVars, loopVars, buf,
                 loadedGE, maxVars, mrctid, log, histVars>>

\* read (c): copy the payload, locked or not.
ReadCopy(w) ==
  /\ pc[w] = "copy"
  /\ buf' = [buf EXCEPT ![w] = val[ThisOp(w).key]]
  /\ Goto(w, "check")
  /\ UNCHANGED <<epochVars, recVars, opVars, setVars, loopVars, expected,
                 loadedGE, maxVars, mrctid, log, histVars>>

\* Mutated: the word is not read again after the copy.
NoSecondLook(w) == TRUE

\* read (e): the whole word, lock bit included, is as it was before the copy.
SameWord(w) ==
  tidword[ThisOp(w).key] = [tid |-> expected[w], lock |-> FALSE]

ReadDone(w) ==
  /\ pc[w] = "check"
  /\ SameWord(w)
  /\ readSet' = [readSet EXCEPT ![w] =
       Append(@, [key |-> ThisOp(w).key, val |-> buf[w], tid |-> expected[w]])]
  /\ NextOp(w)
  /\ Goto(w, "exec")
  /\ UNCHANGED <<epochVars, recVars, loopVars, readVars, loadedGE, maxVars,
                 mrctid, log, histVars>>

\* The word changed: copy again, after the lock bit has cleared.
ReadRetry(w) ==
  /\ pc[w] = "check"
  /\ ~SameWord(w)
  /\ expected' = [expected EXCEPT ![w] = tidword[ThisOp(w).key].tid]
  /\ Goto(w, IF tidword[ThisOp(w).key].lock THEN "exec" ELSE "copy")
  /\ UNCHANGED <<epochVars, recVars, opVars, setVars, loopVars, buf,
                 loadedGE, maxVars, mrctid, log, histVars>>

-----------------------------------------------------------------------------
(* Validation phase 1: lock the write set in key order, without waiting.   *)

\* The element of the write set the current loop visits next.
IsNext(w, k) == k \in pending[w] /\ \A j \in pending[w] : k <= j

\* sort(write_set_), and the first iteration of lockWriteSet.
StartCommit(w) ==
  /\ pc[w] = "exec"
  /\ opi[w] = Len(pro[w]) + 1
  /\ pending' = [pending EXCEPT ![w] = writeSet[w]]
  /\ Goto(w, "lock")
  /\ UNCHANGED <<epochVars, recVars, opVars, setVars, vidx, readVars,
                 loadedGE, maxVars, mrctid, log, histVars>>

\* lockWriteSet: the compare-and-exchange loop ends with the lock taken as
\* soon as the word is seen unlocked.
LockRecord(w, k) ==
  /\ pc[w] = "lock"
  /\ IsNext(w, k)
  /\ ~tidword[k].lock
  /\ tidword' = [tidword EXCEPT ![k].lock = TRUE]
  /\ maxW' = [maxW EXCEPT ![w] = MaxTid(@, tidword[k].tid)]
  /\ pending' = [pending EXCEPT ![w] = @ \ {k}]
  /\ UNCHANGED <<epochVars, val, pc, opVars, setVars, vidx, readVars,
                 loadedGE, maxR, mrctid, log, histVars>>

\* Mutated: the whole write set is unlocked, not only the part locked so far.
LockFailUnlocksAll(w, k) ==
  /\ pc[w] = "lock"
  /\ IsNext(w, k)
  /\ tidword[k].lock
  /\ pending' = [pending EXCEPT ![w] = writeSet[w]]
  /\ Goto(w, "unlock")
  /\ UNCHANGED <<epochVars, recVars, opVars, setVars, vidx, readVars,
                 loadedGE, maxVars, mrctid, log, histVars>>

\* lockWriteSet: a locked record aborts; what is locked so far is unlocked.
LockFail(w, k) ==
  /\ pc[w] = "lock"
  /\ IsNext(w, k)
  /\ tidword[k].lock
  /\ pending' = [pending EXCEPT ![w] = writeSet[w] \ pending[w]]
  /\ Goto(w, "unlock")
  /\ UNCHANGED <<epochVars, recVars, opVars, setVars, vidx, readVars,
                 loadedGE, maxVars, mrctid, log, histVars>>

-----------------------------------------------------------------------------
(* The serialization point, and validation phase 2.                        *)

LoadGE(w) ==
  /\ pc[w] = "lock"
  /\ pending[w] = {}
  /\ loadedGE' = [loadedGE EXCEPT ![w] = GlobalEpoch]
  /\ clock' = clock + 1
  /\ stamp' = [stamp EXCEPT ![w] = clock + 1]
  /\ Goto(w, "storeGE")
  /\ UNCHANGED <<epochVars, recVars, opVars, setVars, loopVars, readVars,
                 maxVars, mrctid, log, history>>

\* Mutated: the loaded epoch is never published.
DropLoadedGE(w) ==
  /\ pc[w] = "storeGE"
  /\ loadedGE' = [loadedGE EXCEPT ![w] = 0]
  /\ vidx' = [vidx EXCEPT ![w] = 1]
  /\ Goto(w, "validate")
  /\ UNCHANGED <<epochVars, recVars, opVars, setVars, pending, readVars,
                 maxVars, mrctid, log, histVars>>

StoreThLocalEpoch(w) ==
  /\ pc[w] = "storeGE"
  /\ ThLocalEpoch' = [ThLocalEpoch EXCEPT ![w] = loadedGE[w]]
  /\ loadedGE' = [loadedGE EXCEPT ![w] = 0]
  /\ vidx' = [vidx EXCEPT ![w] = 1]
  /\ Goto(w, "validate")
  /\ UNCHANGED <<GlobalEpoch, recVars, opVars, setVars, pending, readVars,
                 maxVars, mrctid, log, histVars>>

\* Mutated: a record locked by another worker passes.
ValidWhenLocked(w, r) == tidword[r.key].tid = r.tid

\* Mutated: the identifier is not compared.
ValidWhenUnlocked(w, r) == tidword[r.key].lock => InWriteSet(w, r.key)

\* The read element still stands: same identifier, and not locked by another.
StillValid(w, r) ==
  /\ tidword[r.key].tid = r.tid
  /\ tidword[r.key].lock => InWriteSet(w, r.key)

Validating(w) == pc[w] = "validate" /\ vidx[w] \in DOMAIN readSet[w]

ValidateRead(w) ==
  /\ Validating(w)
  /\ StillValid(w, readSet[w][vidx[w]])
  /\ maxR' = [maxR EXCEPT ![w] =
                MaxTid(@, tidword[readSet[w][vidx[w]].key].tid)]
  /\ vidx' = [vidx EXCEPT ![w] = @ + 1]
  /\ UNCHANGED <<epochVars, recVars, pc, opVars, setVars, pending, readVars,
                 loadedGE, maxW, mrctid, log, histVars>>

\* Mutated: the write set stays locked.
ValidateFailKeepsLocks(w) ==
  /\ Validating(w)
  /\ ~StillValid(w, readSet[w][vidx[w]])
  /\ Goto(w, "unlock")
  /\ UNCHANGED <<epochVars, recVars, opVars, setVars, loopVars, readVars,
                 loadedGE, maxVars, mrctid, log, histVars>>

ValidateFail(w) ==
  /\ Validating(w)
  /\ ~StillValid(w, readSet[w][vidx[w]])
  /\ pending' = [pending EXCEPT ![w] = writeSet[w]]
  /\ Goto(w, "unlock")
  /\ UNCHANGED <<epochVars, recVars, opVars, setVars, vidx, readVars,
                 loadedGE, maxVars, mrctid, log, histVars>>

-----------------------------------------------------------------------------
(* Abort: unlockWriteSet, then abort().                                    *)

UnlockRecord(w, k) ==
  /\ pc[w] = "unlock"
  /\ IsNext(w, k)
  /\ tidword' = [tidword EXCEPT ![k].lock = FALSE]
  /\ pending' = [pending EXCEPT ![w] = @ \ {k}]
  /\ UNCHANGED <<epochVars, val, pc, opVars, setVars, vidx, readVars,
                 loadedGE, maxVars, mrctid, log, histVars>>

Abort(w) ==
  /\ pc[w] = "unlock"
  /\ pending[w] = {}
  /\ readSet' = [readSet EXCEPT ![w] = <<>>]
  /\ writeSet' = [writeSet EXCEPT ![w] = {}]
  /\ Goto(w, "idle")
  /\ UNCHANGED <<epochVars, recVars, opVars, loopVars, readVars, loadedGE,
                 maxVars, mrctid, log, histVars>>

-----------------------------------------------------------------------------
(* Write phase: choose the identifier, log, install and unlock.            *)

\* Mutated: the global epoch, read again.
GlobalCommitEpoch(w) == GlobalEpoch

\* tid_c.epoch: the epoch the worker published before it validated.
CommitEpoch(w) == ThLocalEpoch[w]

CommitTid(w) ==
  /\ pc[w] = "validate"
  /\ vidx[w] = Len(readSet[w]) + 1
  /\ LET maxtid == ChooseTid(maxW[w], maxR[w], mrctid[w], CommitEpoch(w))
     IN  /\ mrctid' = [mrctid EXCEPT ![w] = maxtid]
         /\ history' = history \cup
              {[worker |-> w, stamp |-> stamp[w], epoch |-> CommitEpoch(w),
                tid |-> maxtid, reads |-> readSet[w],
                writes |-> writeSet[w]]}
  /\ Goto(w, "wal")
  /\ UNCHANGED <<epochVars, recVars, opVars, setVars, loopVars, readVars,
                 loadedGE, maxVars, log, clock, stamp>>

\* wal: one log record per element of the write set.
Wal(w) ==
  /\ pc[w] = "wal"
  /\ log' = log \cup {[tid |-> mrctid[w], key |-> k, val |-> w] :
                        k \in writeSet[w]}
  /\ pending' = [pending EXCEPT ![w] = writeSet[w]]
  /\ Goto(w, "write")
  /\ UNCHANGED <<epochVars, recVars, opVars, setVars, vidx, readVars,
                 loadedGE, maxVars, mrctid, histVars>>

InstallVal(w, k) ==
  /\ pc[w] = "write"
  /\ IsNext(w, k)
  /\ val' = [val EXCEPT ![k] = w]
  /\ Goto(w, "release")
  /\ UNCHANGED <<epochVars, tidword, opVars, setVars, loopVars, readVars,
                 loadedGE, maxVars, mrctid, log, histVars>>

\* The new identifier and the cleared lock bit are one store.
InstallTid(w, k) ==
  /\ pc[w] = "release"
  /\ IsNext(w, k)
  /\ tidword' = [tidword EXCEPT ![k] = [tid |-> mrctid[w], lock |-> FALSE]]
  /\ pending' = [pending EXCEPT ![w] = @ \ {k}]
  /\ Goto(w, "write")
  /\ UNCHANGED <<epochVars, val, opVars, setVars, vidx, readVars,
                 loadedGE, maxVars, mrctid, log, histVars>>

\* The sets are cleared, and worker_th makes a new procedure next.
EndTxn(w) ==
  /\ pc[w] = "write"
  /\ pending[w] = {}
  /\ readSet' = [readSet EXCEPT ![w] = <<>>]
  /\ writeSet' = [writeSet EXCEPT ![w] = {}]
  /\ pro' = [pro EXCEPT ![w] = <<>>]
  /\ Goto(w, "idle")
  /\ UNCHANGED <<epochVars, recVars, opi, ntx, loopVars, readVars, loadedGE,
                 maxVars, mrctid, log, histVars>>

-----------------------------------------------------------------------------
ReadStep(w) ==
  LocalOp(w) \/ ReadLoad(w) \/ ReadCopy(w) \/ ReadDone(w) \/ ReadRetry(w)

ValidationStep(w) ==
  \/ StartCommit(w)
  \/ \E k \in Keys : LockRecord(w, k) \/ LockFail(w, k)
  \/ LoadGE(w) \/ StoreThLocalEpoch(w)
  \/ ValidateRead(w) \/ ValidateFail(w)
  \/ \E k \in Keys : UnlockRecord(w, k)
  \/ Abort(w)

WriteStep(w) ==
  \/ CommitTid(w) \/ Wal(w)
  \/ \E k \in Keys : InstallVal(w, k) \/ InstallTid(w, k)
  \/ EndTxn(w)

\* What worker_th does from begin() to the end of the attempt.
TxnStep(w) == ReadStep(w) \/ ValidationStep(w) \/ WriteStep(w)

Next ==
  \/ AdvanceEpoch
  \/ \E w \in Workers : EpochWork(w) \/ Begin(w) \/ TxnStep(w)

Spec == Init /\ [][Next]_vars

\* Every thread that can take a step inside a transaction takes it at last;
\* nothing forces a worker to begin one, or the leader to advance the clock.
Fairness == \A w \in Workers : WF_vars(TxnStep(w))
FairSpec == Spec /\ Fairness
=============================================================================
