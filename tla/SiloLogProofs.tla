---------------------------- MODULE SiloLogProofs ----------------------------
(***************************************************************************)
(* The logging path of SiloLog, for any workers, loggers, buffers and      *)
(* transactions: a log buffer has one owner and holds one epoch, a log     *)
(* record is in one place from wal() to the log file, the threads end in   *)
(* order, and the whole is the abstract write-ahead log GroupCommit.       *)
(***************************************************************************)
EXTENDS SiloLogProps, SequenceTheorems, WellFoundedInduction,
        FiniteSetTheorems, TLAPS

\* A set of numbers that is not empty has a least one.
LEMMA LeastNumber ==
  ASSUME NEW S, S \subseteq Nat, S # {}
  PROVE  \E m \in S : \A n \in S : m <= n
<1> DEFINE R == OpToRel(<, Nat)
<1>1. IsWellFoundedOn(R, Nat)
  BY NatLessThanWellFounded
<1>2. \A m, n \in Nat : n < m => <<n, m>> \in R
  BY DEF OpToRel
<1> HIDE DEF R
<1>3. PICK m \in S : \A n \in S : <<n, m>> \notin R
  BY <1>1, WFMin
<1>4. ASSUME NEW n \in S PROVE m <= n
  <2>1. m \in Nat /\ n \in Nat /\ <<n, m>> \notin R
    BY <1>3
  <2>2. ~(n < m)
    BY <1>2, <2>1
  <2> QED
    BY <2>1, <2>2
<1> QED
  BY <1>4

-----------------------------------------------------------------------------
(* The epochs of the workers.                                              *)

\* A worker publishes epochs of the clock, in order, and CTIDW follows what it
\* has published; its transaction is in the epoch it has published.
EpochsInv ==
  /\ GlobalEpoch \in 1 .. MaxEpoch
  /\ \A w \in Workers :
       /\ ThLocalEpoch[w] <= GlobalEpoch
       /\ CTIDW[w] = AllOnes \/ CTIDW[w] <= ThLocalEpoch[w]
       /\ wpc[w] = "storeGE" => /\ 1 <= loadedGE[w] /\ loadedGE[w] <= GlobalEpoch
                                /\ ThLocalEpoch[w] <= loadedGE[w]
       /\ wpc[w] \in {"valid", "push", "newCTIDW", "storeCTIDW", "pausedCTIDW"}
            => ThLocalEpoch[w] >= 1
       /\ wpc[w] = "push" => /\ txn[w].worker = w
                             /\ txn[w].epoch = ThLocalEpoch[w]

\* A step of a thread that leaves the epochs of the workers alone.
Timeless ==
  /\ UNCHANGED <<GlobalEpoch, ThLocalEpoch, CTIDW, loadedGE, txn>>
  /\ \A u \in Workers :
       wpc'[u] \in {"storeGE", "valid", "push", "newCTIDW", "storeCTIDW",
                    "pausedCTIDW"}
         => \/ wpc'[u] = wpc[u]
            \/ wpc[u] = "push" /\ wpc'[u] = "newCTIDW"

\* A logger changes nothing of epochs, of transactions or of current buffers.
LEMMA LoggerStepKeeps ==
  ASSUME NEW l \in Loggers, LoggerStep(l)
  PROVE  UNCHANGED <<epochVars, CTIDW, wpc, txnVars, current, quit, thid_set,
                     queue_quit>>
BY DEF LoggerStep, OpenPepoch, StoreLogp, LogWake, LogTimeout, LogQuit, Scan,
   ScanQueue, Deq, WriteBuffer, Sync, SendNid, NotifyStep, PublishDl, LoggerEnd,
   LoggerReturns, endVars, bufVars

\* Which steps move no epoch.
LEMMA TimelessActions ==
  ASSUME WorkerTypeOK, NEW w \in Workers,
         \/ UNCHANGED vars \/ Start \/ Quit
         \/ \E l \in Loggers : LoggerStep(l)
         \/ Register(w) \/ PauseCheck(w) \/ PausePublish(w) \/ PauseRecheck(w)
         \/ GetBuffer(w) \/ NotReady(w) \/ Begin(w) \/ Abort(w) \/ Push(w)
         \/ Terminate(w) \/ WorkerEnd(w) \/ Join(w)
  PROVE  Timeless
<1> USE DEF Timeless, WorkerTypeOK, epochVars, txnVars, WGoto
<1>1. CASE UNCHANGED vars \/ Start \/ Quit
  BY <1>1 DEF vars, Start, Quit, MainLoop
<1>2. CASE \E l \in Loggers : LoggerStep(l)
  BY <1>2, LoggerStepKeeps
<1>3. CASE \/ Register(w) \/ PauseCheck(w) \/ PausePublish(w) \/ PauseRecheck(w)
           \/ GetBuffer(w) \/ NotReady(w)
  BY <1>3 DEF Register, PauseCheck, PausePublish, PauseRecheck, GetBuffer,
     NotReady
<1>4. CASE \/ Begin(w) \/ Abort(w) \/ Push(w) \/ Terminate(w) \/ WorkerEnd(w)
           \/ Join(w)
  BY <1>4 DEF Begin, Abort, Push, Terminate, WorkerEnd, Join, MainLoop
<1> QED
  BY <1>1, <1>2, <1>3, <1>4

\* What a step may do to the epochs.
LEMMA EpochKinds ==
  ASSUME WorkerTypeOK, [Next]_vars
  PROVE  \/ Timeless \/ AdvanceEpoch
         \/ \E w \in Workers : \/ EpochWork(w) \/ StoreCTIDW(w) \/ LoadGE(w)
                               \/ StoreThLocalEpoch(w) \/ Commit(w)
                               \/ NewCTIDW(w)
BY TimelessActions, LogLeaderAssumption DEF Next, Joined, WorkerStep

\* Epochs and places of workers at first.
LEMMA InitEpochs == Init => WorkerTypeOK /\ EpochsInv
<1> SUFFICES ASSUME Init PROVE WorkerTypeOK /\ EpochsInv
  OBVIOUS
<1>1. NoTxn \in Txn
  BY LogLeaderAssumption, SizesAssumption DEF NoTxn, Txn
<1>2. quit \in BOOLEAN
  BY DEF Init
<1>3. WorkerTypeOK
  BY <1>1, <1>2, LogBoundsAssumption DEF Init, WorkerTypeOK, AllOnes, WorkerLabels
<1>4. EpochsInv
  BY LogBoundsAssumption DEF Init, EpochsInv
<1> QED
  BY <1>3, <1>4

\* EpochsInv is inductive.
LEMMA EpochsStep ==
  ASSUME WorkerTypeOK, EpochsInv, [Next]_vars
  PROVE  EpochsInv'
<1> USE LogBoundsAssumption DEF WorkerTypeOK, EpochsInv, epochVars, txnVars,
        WGoto, AllOnes
<1>1. CASE Timeless
  BY <1>1 DEF Timeless
<1>2. CASE AdvanceEpoch
  BY <1>2 DEF AdvanceEpoch
<1>3. ASSUME NEW w \in Workers, EpochWork(w) \/ StoreCTIDW(w) \/ NewCTIDW(w)
      PROVE  EpochsInv'
  BY <1>3 DEF EpochWork, StoreCTIDW, NewCTIDW, MainLoop
<1>4. ASSUME NEW w \in Workers, LoadGE(w) \/ StoreThLocalEpoch(w)
      PROVE  EpochsInv'
  BY <1>4 DEF LoadGE, StoreThLocalEpoch
<1>5. ASSUME NEW w \in Workers, Commit(w)
      PROVE  EpochsInv'
  BY <1>5 DEF Commit
<1> QED
  BY <1>1, <1>2, <1>3, <1>4, <1>5, EpochKinds

\* Types of the workers' variables are preserved.
LEMMA WorkerTypeStep ==
  ASSUME WorkerTypeOK, EpochsInv, [Next]_vars
  PROVE  WorkerTypeOK'
<1> USE LogBoundsAssumption DEF WorkerTypeOK, EpochsInv, epochVars, txnVars,
        WGoto, AllOnes
<1>1. CASE UNCHANGED vars \/ AdvanceEpoch
  BY <1>1 DEF vars, AdvanceEpoch, endVars
<1>2. CASE Start
  BY <1>2 DEF Start, MainLoop, endVars, WorkerLabels
<1>3. CASE Quit
  <2>1. quit' \in BOOLEAN
    BY <1>3 DEF Quit
  <2> QED
    BY <1>3, <2>1 DEF Quit
<1>4. ASSUME NEW l \in Loggers, LoggerStep(l) PROVE WorkerTypeOK'
  BY <1>4, LoggerStepKeeps
<1>5. ASSUME NEW w \in Workers,
             \/ Register(w) \/ PauseCheck(w) \/ PausePublish(w)
             \/ PauseRecheck(w) \/ GetBuffer(w) \/ NotReady(w)
      PROVE  WorkerTypeOK'
  BY <1>5 DEF Register, PauseCheck, PausePublish, PauseRecheck, GetBuffer,
     NotReady, endVars, WorkerLabels
<1>6. ASSUME NEW w \in Workers,
             \/ EpochWork(w) \/ StoreCTIDW(w) \/ Begin(w) \/ LoadGE(w)
             \/ StoreThLocalEpoch(w) \/ Abort(w)
      PROVE  WorkerTypeOK'
  BY <1>6 DEF EpochWork, StoreCTIDW, Begin, LoadGE, StoreThLocalEpoch, Abort,
     MainLoop, endVars, WorkerLabels
<1>7. ASSUME NEW w \in Workers, Commit(w)
      PROVE  WorkerTypeOK'
  <2>1. PICK n \in Sizes :
          LET t == [worker |-> w, n |-> ntx[w] + 1,
                    epoch |-> ThLocalEpoch[w], size |-> n]
          IN  txn' = [txn EXCEPT ![w] = t] /\ committed' = committed \cup {t}
    BY <1>7 DEF Commit
  <2> DEFINE t == [worker |-> w, n |-> ntx[w] + 1,
                   epoch |-> ThLocalEpoch[w], size |-> n]
  <2>2. t \in Txn /\ t.epoch >= 1
    BY <1>7, SizesAssumption DEF Commit, Txn
  <2> HIDE DEF t
  <2>3. /\ txn' \in [Workers -> Txn]
        /\ \A x \in committed' : x \in Txn /\ x.epoch >= 1
    BY <2>1, <2>2 DEF t
  <2> QED
    BY <1>7, <2>3 DEF Commit, endVars, WorkerLabels
<1>8. ASSUME NEW w \in Workers, Push(w) \/ NewCTIDW(w)
      PROVE  WorkerTypeOK'
  <2>1. NoTxn \in Txn
    BY LogLeaderAssumption, SizesAssumption DEF NoTxn, Txn
  <2>2. CASE Push(w)
    BY <2>2 DEF Push, endVars, WorkerLabels
  <2>3. CASE NewCTIDW(w)
    BY <2>1, <2>3 DEF NewCTIDW, MainLoop, endVars, WorkerLabels
  <2> QED
    BY <1>8, <2>2, <2>3
<1>9. ASSUME NEW w \in Workers, Terminate(w) \/ WorkerEnd(w) \/ Join(w)
      PROVE  WorkerTypeOK'
  BY <1>9 DEF Terminate, WorkerEnd, Join, endVars, WorkerLabels
<1> QED
  BY <1>1, <1>4, <1>5, <1>6, <1>7, <1>8, <1>9, <1>2, <1>3
  DEF Next, Joined, WorkerStep

-----------------------------------------------------------------------------
(* Loggers and buffers.                                                    *)

\* A worker has a buffer while it commits and has none while it waits for one.
HeldInv ==
  \A w \in Workers :
    /\ wpc[w] \in {"txn", "storeGE", "valid"} => current[w] # 0
    /\ wpc[w] \in {"epochWork", "storeCTIDW"} => current[w] = 0

\* min_epoch is what the step of the logger takes it for.  A logger has
\* buffers in its hands only while it writes, and has then not synced.
LoggerInv ==
  \A l \in Loggers :
    /\ lpc[l] \in {"idleScan", "logScan"} => min_epoch[l] >= 1
    /\ lpc[l] \in {"deq", "write", "send"} => min_epoch[l] \in 1 .. MaxEpoch
    /\ lpc[l] # "write" => batch[l] = {} /\ file[l] = synced[l]
    /\ synced[l] \subseteq file[l]

\* What a worker does to buffers: it takes one, fills it or not, and keeps it
\* or publishes it.
Handles(w) ==
  LET b == AtHand(w)
  IN  /\ Ready(w) /\ pool' = PoolRest(w)
      /\ \E c \in Buffer : buffer' = [buffer EXCEPT ![w][b] = c]
      /\ \/ /\ queue' = Enqueued(w, b, buffer'[w][b])
            /\ current' = [current EXCEPT ![w] = 0]
         \/ /\ queue' = queue
            /\ current' = [current EXCEPT ![w] = b]
      /\ UNCHANGED <<batch, file, synced>>

\* is_ready answers with a buffer and leaves the rest of the pool.
LEMMA AtHandType ==
  ASSUME BufferTypeOK, NEW w \in Workers, Ready(w)
  PROVE  /\ AtHand(w) \in BufIds
         /\ PoolRest(w) \in [Workers -> Seq(BufIds)]
<1>1. CASE current[w] # 0
  BY <1>1 DEF BufferTypeOK, AtHand, PoolRest
<1>2. CASE current[w] = 0 /\ pool[w] # <<>>
  <2>1. pool[w] \in Seq(BufIds) /\ Len(pool[w]) \in Nat \ {0}
    BY <1>2 DEF BufferTypeOK
  <2>2. pool[w][Len(pool[w])] \in BufIds
    BY <2>1
  <2>3. SubSeq(pool[w], 1, Len(pool[w]) - 1) \in Seq(BufIds)
    BY <2>1
  <2> QED
    BY <1>2, <2>2, <2>3 DEF BufferTypeOK, AtHand, PoolRest
<1> QED
  BY <1>1, <1>2 DEF Ready

\* enq adds an entry to one queue.
LEMMA EnqueuedType ==
  ASSUME BufferTypeOK, NEW w \in Workers, NEW b \in BufIds, NEW c \in Buffer
  PROVE  Enqueued(w, b, c) \in [Loggers -> SUBSET Queued]
<1>1. [key |-> c.min_epoch, worker |-> w, id |-> b] \in Queued
  BY DEF Buffer, Queued
<1>2. LoggerOf[w] \in Loggers
  BY LoggerOfAssumption
<1> QED
  BY <1>1, <1>2 DEF BufferTypeOK, Enqueued

\* push makes a buffer of a buffer and a transaction.
LEMMA AppendedType ==
  ASSUME NEW c \in Buffer, NEW t \in Txn, t.epoch \in 1 .. AllOnes
  PROVE  Appended(c, t) \in Buffer
<1>1. /\ c.min_epoch \in 1 .. AllOnes /\ c.max_epoch \in Nat
      /\ c.log_set_size \in Nat /\ c.txns \in SUBSET Txn
      /\ t.epoch \in Nat /\ t.size \in Nat /\ AllOnes \in Nat
  BY SizesAssumption, LogBoundsAssumption DEF Buffer, Txn, AllOnes
<1>2. /\ Least(c.min_epoch, t.epoch) \in 1 .. AllOnes
      /\ Larger(c.max_epoch, t.epoch) \in Nat
      /\ c.log_set_size + t.size \in Nat
  BY <1>1 DEF Least, Larger
<1>3. (IF t.size = 0 THEN c.txns ELSE c.txns \cup {t}) \in SUBSET Txn
  BY <1>1
<1> QED
  BY <1>2, <1>3 DEF Appended, Buffer

\* A worker that publishes the buffer it has.
LEMMA PublishHandles ==
  ASSUME BufferTypeOK, NEW w \in Workers, current[w] # 0,
         queue' = Enqueued(w, current[w], Cur(w)),
         current' = [current EXCEPT ![w] = 0],
         UNCHANGED <<buffer, pool, batch, file, synced>>
  PROVE  Handles(w)
<1>1. AtHand(w) = current[w] /\ Ready(w) /\ PoolRest(w) = pool
  BY DEF AtHand, Ready, PoolRest
<1>2. buffer[w][current[w]] \in Buffer
  BY DEF BufferTypeOK
<1>3. buffer' = [buffer EXCEPT ![w][current[w]] = buffer[w][current[w]]]
  BY DEF BufferTypeOK
<1> QED
  BY <1>1, <1>2, <1>3 DEF Handles, Cur

\* push: one buffer is written, and perhaps filed.
LEMMA PushHandles ==
  ASSUME BufferTypeOK, WorkerTypeOK, EpochsInv, NEW w \in Workers, Push(w)
  PROVE  /\ Handles(w)
         /\ buffer' = [buffer EXCEPT ![w][AtHand(w)] =
                         Appended(buffer[w][AtHand(w)], txn[w])]
<1> DEFINE b == AtHand(w)
           c == Appended(buffer[w][b], txn[w])
<1>1. /\ Ready(w) /\ pool' = PoolRest(w)
      /\ buffer' = [buffer EXCEPT ![w][b] = c]
      /\ \/ /\ queue' = Enqueued(w, b, c)
            /\ current' = [current EXCEPT ![w] = 0]
         \/ /\ queue' = queue
            /\ current' = [current EXCEPT ![w] = b]
      /\ UNCHANGED <<batch, file, synced>> /\ wpc[w] = "push"
  BY DEF Push, logVars, fileVars
<1>2. b \in BufIds
  BY <1>1, AtHandType
<1>3. buffer[w][b] \in Buffer /\ txn[w] \in Txn
  BY <1>2 DEF BufferTypeOK, WorkerTypeOK
<1>4. txn[w].epoch \in 1 .. AllOnes
  BY <1>1, LogBoundsAssumption DEF EpochsInv, WorkerTypeOK, AllOnes
<1>5. c \in Buffer
  BY <1>3, <1>4, AppendedType
<1> HIDE DEF c
<1>6. buffer'[w][b] = c
  BY <1>1, <1>2 DEF BufferTypeOK
<1>7. Handles(w)
  BY <1>1, <1>5, <1>6 DEF Handles
<1> QED
  BY <1>1, <1>7 DEF c

\* What a step may do to the buffers.
Still == UNCHANGED <<buffer, current, pool, queue, batch, file>>

\* Which steps move no buffer.
LEMMA StillActions ==
  ASSUME NEW w \in Workers, NEW l \in Loggers,
         \/ UNCHANGED vars \/ Start \/ Quit \/ AdvanceEpoch
         \/ Register(w) \/ PauseCheck(w) \/ PauseRecheck(w) \/ NotReady(w)
         \/ EpochWork(w) \/ StoreCTIDW(w) \/ Begin(w) \/ LoadGE(w)
         \/ StoreThLocalEpoch(w) \/ Abort(w) \/ NewCTIDW(w) \/ WorkerEnd(w)
         \/ Join(w)
         \/ LoggerStep(l) /\ ~Deq(l) /\ ~WriteBuffer(l)
  PROVE  Still
<1> USE DEF Still, bufVars, logVars, fileVars
<1>1. CASE UNCHANGED vars \/ Start \/ Quit \/ AdvanceEpoch
  BY <1>1 DEF vars, Start, Quit, AdvanceEpoch
<1>2. CASE \/ Register(w) \/ PauseCheck(w) \/ PauseRecheck(w) \/ NotReady(w)
           \/ EpochWork(w) \/ StoreCTIDW(w) \/ Begin(w) \/ LoadGE(w)
           \/ StoreThLocalEpoch(w) \/ Abort(w) \/ NewCTIDW(w) \/ WorkerEnd(w)
           \/ Join(w)
  BY <1>2 DEF Register, PauseCheck, PauseRecheck, NotReady, EpochWork,
     StoreCTIDW, Begin, LoadGE, StoreThLocalEpoch, Abort, NewCTIDW, WorkerEnd,
     Join
<1>3. CASE LoggerStep(l) /\ ~Deq(l) /\ ~WriteBuffer(l)
  BY <1>3 DEF LoggerStep, OpenPepoch, StoreLogp, LogWake, LogTimeout, LogQuit,
     Scan, ScanQueue, Sync, SendNid, NotifyStep, PublishDl, LoggerEnd,
     LoggerReturns
<1> QED
  BY <1>1, <1>2, <1>3

\* What a worker may do with a buffer of its own.
LEMMA WorkerHandles ==
  ASSUME BufferTypeOK, WorkerTypeOK, EpochsInv, HeldInv, NEW w \in Workers,
         \/ PausePublish(w) \/ GetBuffer(w) \/ Commit(w) \/ Push(w)
         \/ Terminate(w)
  PROVE  Still \/ Handles(w)
<1> USE DEF logVars, fileVars
<1>1. CASE PausePublish(w) \/ GetBuffer(w)
  <2> DEFINE b == AtHand(w)
  <2>1. /\ Ready(w) /\ pool' = PoolRest(w) /\ buffer' = buffer
        /\ \/ /\ queue' = Enqueued(w, b, buffer[w][b])
              /\ current' = [current EXCEPT ![w] = 0]
           \/ /\ queue' = queue
              /\ current' = [current EXCEPT ![w] = b]
        /\ UNCHANGED <<batch, file, synced>>
    BY <1>1 DEF PausePublish, GetBuffer
  <2>2. b \in BufIds
    BY <2>1, AtHandType
  <2>3. buffer[w][b] \in Buffer /\ buffer' = [buffer EXCEPT ![w][b] = buffer[w][b]]
    BY <2>1, <2>2 DEF BufferTypeOK
  <2> QED
    BY <2>1, <2>3 DEF Handles
<1>2. CASE Commit(w)
  <2>1. current[w] # 0
    BY <1>2 DEF Commit, HeldInv
  <2> QED
    BY <1>2, <2>1, PublishHandles DEF Commit, Still
<1>3. CASE Push(w)
  BY <1>3, PushHandles
<1>4. CASE Terminate(w)
  BY <1>4, PublishHandles DEF Terminate, Still
<1> QED
  BY <1>1, <1>2, <1>3, <1>4

\* Every step leaves buffers alone, is a worker's, or is the logger's deq or write.
LEMMA BufferKinds ==
  ASSUME BufferTypeOK, WorkerTypeOK, EpochsInv, HeldInv, [Next]_vars
  PROVE  \/ Still
         \/ \E w \in Workers : Handles(w)
         \/ \E l \in Loggers : Deq(l) \/ WriteBuffer(l)
<1>1. 0 \in Loggers
  BY LoggerOfAssumption DEF Loggers
<1> QED
  BY <1>1, StillActions, WorkerHandles, LogLeaderAssumption
  DEF Next, Joined, WorkerStep

\* Types of the buffers' variables are preserved.
LEMMA BufferTypeStep ==
  ASSUME BufferTypeOK, WorkerTypeOK, EpochsInv, HeldInv, [Next]_vars
  PROVE  BufferTypeOK'
<1>1. synced' \in [Loggers -> SUBSET Txn]
  <2>1. \/ UNCHANGED synced \/ \E l \in Loggers : Sync(l)
    BY DEF Next, vars, logVars, fileVars, Start, AdvanceEpoch, Quit, Joined,
       WorkerStep, Register, PauseCheck, PausePublish, PauseRecheck, GetBuffer,
       NotReady, EpochWork, StoreCTIDW, Begin, LoadGE, StoreThLocalEpoch,
       Abort, Commit, Push, NewCTIDW, Terminate, WorkerEnd, Join,
       LoggerStep, OpenPepoch, StoreLogp, LogWake, LogTimeout, LogQuit, Scan,
       ScanQueue, Deq, WriteBuffer, SendNid, NotifyStep, PublishDl, LoggerEnd,
       LoggerReturns
  <2> QED
    BY <2>1 DEF Sync, Synced, BufferTypeOK
<1>2. CASE Still
  BY <1>1, <1>2 DEF Still, BufferTypeOK
<1>3. ASSUME NEW w \in Workers, Handles(w) PROVE BufferTypeOK'
  <2>1. AtHand(w) \in BufIds /\ pool' \in [Workers -> Seq(BufIds)]
    BY <1>3, AtHandType DEF Handles
  <2>2. PICK c \in Buffer : buffer' = [buffer EXCEPT ![w][AtHand(w)] = c]
    BY <1>3 DEF Handles
  <2>3. /\ buffer' \in [Workers -> [BufIds -> Buffer]]
        /\ buffer'[w][AtHand(w)] = c
    BY <2>1, <2>2 DEF BufferTypeOK
  <2>4. queue' \in [Loggers -> SUBSET Queued]
    BY <1>3, <2>1, <2>3, EnqueuedType DEF Handles, BufferTypeOK
  <2>5. current' \in [Workers -> {0} \cup BufIds]
    BY <1>3, <2>1 DEF Handles, BufferTypeOK
  <2> QED
    BY <1>1, <1>3, <2>1, <2>3, <2>4, <2>5 DEF Handles, BufferTypeOK
<1>4. ASSUME NEW l \in Loggers, Deq(l) PROVE BufferTypeOK'
  BY <1>4 DEF Deq, BufferTypeOK, bufVars
<1>5. ASSUME NEW l \in Loggers, WriteBuffer(l) PROVE BufferTypeOK'
  <2>1. PICK q \in batch[l] :
          /\ batch' = [batch EXCEPT ![l] = @ \ {q}]
          /\ file' = [file EXCEPT ![l] = @ \cup buffer[q.worker][q.id].txns]
          /\ buffer' = [buffer EXCEPT ![q.worker][q.id] = Written(@)]
          /\ pool' = [pool EXCEPT ![q.worker] = Append(@, q.id)]
    BY <1>5 DEF WriteBuffer, Return
  <2>2. q.worker \in Workers /\ q.id \in BufIds
    BY DEF BufferTypeOK, Queued
  <2>3. buffer[q.worker][q.id] \in Buffer
    BY <2>2 DEF BufferTypeOK
  <2>4. Written(buffer[q.worker][q.id]) \in Buffer
    BY <2>3, LogBoundsAssumption
    DEF Written, EmptyBuffer, Buffer, AllOnes
  <2>5. buffer' \in [Workers -> [BufIds -> Buffer]]
    BY <2>1, <2>2, <2>4 DEF BufferTypeOK
  <2>6. Append(pool[q.worker], q.id) \in Seq(BufIds)
    BY <2>2 DEF BufferTypeOK
  <2>7. pool' \in [Workers -> Seq(BufIds)]
    BY <2>1, <2>2, <2>6 DEF BufferTypeOK
  <2>8. file' \in [Loggers -> SUBSET Txn]
    BY <2>1, <2>3 DEF BufferTypeOK, Buffer
  <2>9. batch' \in [Loggers -> SUBSET Queued]
    BY <2>1 DEF BufferTypeOK
  <2>10. UNCHANGED <<current, queue>>
    BY <1>5 DEF WriteBuffer
  <2> QED
    BY <1>1, <2>5, <2>7, <2>8, <2>9, <2>10 DEF BufferTypeOK
<1> QED
  BY <1>2, <1>3, <1>4, <1>5, BufferKinds

\* LogQueue::min_epoch is the least key of the queue.
LEMMA QueueMinimum ==
  ASSUME BufferTypeOK, NEW l \in Loggers
  PROVE  /\ QueueMinEpoch(l) \in 1 .. AllOnes
         /\ \A q \in queue[l] : QueueMinEpoch(l) <= q.key
<1> DEFINE IsMin(e) == /\ \A q \in queue[l] : e <= q.key
                       /\ e = AllOnes \/ \E q \in queue[l] : e = q.key
<1>1. \A q \in queue[l] : q.key \in 1 .. AllOnes
  BY DEF BufferTypeOK, Queued
<1>2. AllOnes \in Nat \ {0}
  BY LogBoundsAssumption DEF AllOnes
<1>3. \E e \in 1 .. AllOnes : IsMin(e)
  <2>1. CASE queue[l] = {}
    BY <1>2, <2>1
  <2>2. CASE queue[l] # {}
    <3> DEFINE keys == {q.key : q \in queue[l]}
    <3>1. keys \subseteq Nat /\ keys # {}
      BY <1>1, <2>2
    <3>2. PICK e \in keys : \A n \in keys : e <= n
      BY <3>1, LeastNumber
    <3> QED
      BY <1>1, <3>2
  <2> QED
    BY <2>1, <2>2
<1>4. QueueMinEpoch(l) = CHOOSE e \in 1 .. AllOnes : IsMin(e)
  BY DEF QueueMinEpoch
<1> HIDE DEF IsMin
<1>5. QueueMinEpoch(l) \in 1 .. AllOnes /\ IsMin(QueueMinEpoch(l))
  BY <1>3, <1>4
<1> QED
  BY <1>5 DEF IsMin

\* What find_min_epoch answers is below every CTIDW it passed and every queued key.
LEMMA FoundMinimum ==
  ASSUME BufferTypeOK, NEW l \in Loggers, min_epoch[l] \in 1 .. AllOnes
  PROVE  /\ FoundMin(l) \in 0 .. MaxEpoch
         /\ FoundMin(l) # 0 => /\ FoundMin(l) <= min_epoch[l]
                               /\ \A q \in queue[l] : FoundMin(l) <= q.key
<1>1. MaxEpoch \in Nat /\ AllOnes = MaxEpoch + 1
  BY LogBoundsAssumption DEF AllOnes
<1>2. \A q \in queue[l] : q.key \in 1 .. AllOnes
  BY DEF BufferTypeOK, Queued
<1>3. /\ QueueMinEpoch(l) \in 1 .. AllOnes
      /\ \A q \in queue[l] : QueueMinEpoch(l) <= q.key
  BY QueueMinimum
<1>4. CASE min_epoch[l] = AllOnes
  BY <1>1, <1>4 DEF FoundMin
<1>5. CASE min_epoch[l] # AllOnes
  BY <1>1, <1>2, <1>3, <1>5 DEF FoundMin, Least
<1> QED
  BY <1>4, <1>5

\* HeldInv is inductive: a committing worker has a buffer.
LEMMA HeldStep ==
  ASSUME WorkerTypeOK, BufferTypeOK, HeldInv, [Next]_vars
  PROVE  HeldInv'
<1> USE DEF WorkerTypeOK, BufferTypeOK, HeldInv, bufVars, WGoto
<1>1. CASE UNCHANGED vars \/ Start \/ Quit \/ AdvanceEpoch
  BY <1>1 DEF vars, Start, Quit, AdvanceEpoch, MainLoop
<1>2. ASSUME NEW l \in Loggers, LoggerStep(l) PROVE HeldInv'
  BY <1>2, LoggerStepKeeps
<1>3. ASSUME NEW w \in Workers,
             \/ Register(w) \/ PauseCheck(w) \/ PauseRecheck(w) \/ NotReady(w)
             \/ EpochWork(w) \/ StoreCTIDW(w)
      PROVE  HeldInv'
  BY <1>3 DEF Register, PauseCheck, PauseRecheck, NotReady, EpochWork,
     StoreCTIDW, Ready
<1>4. ASSUME NEW w \in Workers,
             \/ Begin(w) \/ LoadGE(w) \/ StoreThLocalEpoch(w) \/ Abort(w)
             \/ NewCTIDW(w) \/ WorkerEnd(w) \/ Join(w)
      PROVE  HeldInv'
  BY <1>4 DEF Begin, LoadGE, StoreThLocalEpoch, Abort, NewCTIDW, WorkerEnd,
     Join, MainLoop
<1>5. ASSUME NEW w \in Workers, PausePublish(w) \/ GetBuffer(w)
      PROVE  HeldInv'
  BY <1>5 DEF PausePublish, GetBuffer
<1>6. ASSUME NEW w \in Workers, Commit(w) \/ Push(w) \/ Terminate(w)
      PROVE  HeldInv'
  BY <1>6 DEF Commit, Push, Terminate
<1> QED
  BY <1>1, <1>2, <1>3, <1>4, <1>5, <1>6 DEF Next, Joined, WorkerStep

\* What a worker does at its two ends.
LEMMA EndKinds ==
  ASSUME [Next]_vars
  PROVE  \/ UNCHANGED <<thid_set, queue_quit>>
         \/ \E w \in Workers : Register(w) \/ WorkerEnd(w)
<1> USE DEF endVars
<1>1. CASE UNCHANGED vars \/ Start \/ Quit \/ AdvanceEpoch
  BY <1>1 DEF vars, Start, Quit, AdvanceEpoch
<1>2. ASSUME NEW w \in Workers, WorkerStep(w), ~Register(w), ~WorkerEnd(w)
      PROVE  UNCHANGED <<thid_set, queue_quit>>
  BY <1>2 DEF WorkerStep, PauseCheck, PausePublish, PauseRecheck,
     GetBuffer, NotReady, EpochWork, StoreCTIDW, Begin, LoadGE,
     StoreThLocalEpoch, Abort, Commit, Push, NewCTIDW, Terminate, Join
<1>3. ASSUME NEW l \in Loggers, LoggerStep(l)
      PROVE  UNCHANGED <<thid_set, queue_quit>>
  BY <1>3, LoggerStepKeeps
<1> QED
  BY <1>1, <1>2, <1>3 DEF Next, Joined

\* Types of the sets the end of a run goes by.
LEMMA EndSets ==
  ASSUME LoggerTypeOK, [Next]_vars
  PROVE  /\ thid_set' \in [Loggers -> SUBSET Workers]
         /\ queue_quit' \in [Loggers -> BOOLEAN]
<1> USE LoggerOfAssumption DEF LoggerTypeOK
<1>1. ASSUME NEW w \in Workers, Register(w) \/ WorkerEnd(w)
      PROVE  /\ thid_set' \in [Loggers -> SUBSET Workers]
             /\ queue_quit' \in [Loggers -> BOOLEAN]
  <2>1. thid_set' \in [Loggers -> SUBSET Workers]
    BY <1>1 DEF Register, WorkerEnd
  <2>2. (thid_set'[LoggerOf[w]] = {}) \in BOOLEAN
    OBVIOUS
  <2>3. queue_quit' \in [Loggers -> BOOLEAN]
    BY <1>1, <2>2 DEF Register, WorkerEnd
  <2> QED
    BY <2>1, <2>3
<1> QED
  BY <1>1, EndKinds

\* Between two steps of the loggers nothing of theirs changes but the queue
\* and, when a worker comes or ends, thid_set_ and the queue's quit_.
LoggersRest == UNCHANGED <<lpc, toScan, min_epoch, warm, batch, file, synced,
                           announced, notifVars>>

\* Only a logger's own step changes its place.
LEMMA RestActions ==
  ASSUME [Next]_vars
  PROVE  LoggersRest \/ \E l \in Loggers : LoggerStep(l)
<1> USE DEF LoggersRest, logVars, scanVars, fileVars
<1>1. CASE UNCHANGED vars \/ Start \/ Quit \/ AdvanceEpoch
  BY <1>1 DEF vars, Start, Quit, AdvanceEpoch
<1>2. ASSUME NEW w \in Workers, WorkerStep(w) PROVE LoggersRest
  BY <1>2 DEF WorkerStep, Register, PauseCheck, PausePublish, PauseRecheck,
     GetBuffer, NotReady, EpochWork, StoreCTIDW, Begin, LoadGE,
     StoreThLocalEpoch, Abort, Commit, Push, NewCTIDW, Terminate, WorkerEnd,
     Join
<1> QED
  BY <1>1, <1>2 DEF Next, Joined

\* Types of the loggers' variables are preserved, and LoggerInv with them.
LEMMA LoggerStepInv ==
  ASSUME WorkerTypeOK, BufferTypeOK, BufferTypeOK', LoggerTypeOK, LoggerInv,
         [Next]_vars
  PROVE  LoggerTypeOK' /\ LoggerInv'
<1> USE LogBoundsAssumption
        DEF LoggerTypeOK, LoggerInv, LoggerLabels, LGoto, AllOnes, logVars,
            scanVars, fileVars, endVars, BufferTypeOK
<1>1. CASE LoggersRest
  <2>1. LoggerInv'
    BY <1>1 DEF LoggersRest
  <2>2. /\ thid_set' \in [Loggers -> SUBSET Workers]
        /\ queue_quit' \in [Loggers -> BOOLEAN]
    BY EndSets
  <2> QED
    BY <1>1, <2>1, <2>2 DEF LoggersRest
<1>2. ASSUME NEW l \in Loggers, OpenPepoch(l) \/ StoreLogp(l) \/ LogQuit(l)
      PROVE  LoggerTypeOK' /\ LoggerInv'
  BY <1>2 DEF OpenPepoch, StoreLogp, LogQuit
<1>3. ASSUME NEW l \in Loggers, LogWake(l) \/ LogTimeout(l)
      PROVE  LoggerTypeOK' /\ LoggerInv'
  <2>1. (Registered(l) = MyWorkers(l)) \in BOOLEAN
    OBVIOUS
  <2>2. warm' \in [Loggers -> BOOLEAN]
    BY <1>3, <2>1 DEF LogWake, LogTimeout, FindMinEpoch
  <2>3. Registered(l) \subseteq Workers
    BY DEF Registered, MyWorkers
  <2>4. /\ lpc' \in [Loggers -> LoggerLabels]
        /\ UNCHANGED <<thid_set, queue_quit>>
    BY <1>3 DEF LogWake, LogTimeout, FindMinEpoch
  <2>5. /\ toScan' = [toScan EXCEPT ![l] = Registered(l)]
        /\ min_epoch' = [min_epoch EXCEPT ![l] = AllOnes]
    BY <1>3 DEF LogWake, LogTimeout, FindMinEpoch
  <2>6. toScan' \in [Loggers -> SUBSET Workers]
    BY <2>3, <2>5
  <2>7. min_epoch' \in [Loggers -> 0 .. AllOnes]
    BY <2>5
  <2>8. LoggerInv'
    BY <1>3 DEF LogWake, LogTimeout, FindMinEpoch
  <2> QED
    BY <2>2, <2>4, <2>8, <2>6, <2>7
<1>4. ASSUME NEW l \in Loggers, Scan(l)
      PROVE  LoggerTypeOK' /\ LoggerInv'
  BY <1>4 DEF Scan, WorkerTypeOK, Least
<1>5. ASSUME NEW l \in Loggers, ScanQueue(l)
      PROVE  LoggerTypeOK' /\ LoggerInv'
  <2>1. FoundMin(l) \in 0 .. MaxEpoch
    BY <1>5, FoundMinimum DEF ScanQueue
  <2> QED
    BY <1>5, <2>1 DEF ScanQueue
<1>6. ASSUME NEW l \in Loggers, Deq(l)
      PROVE  LoggerTypeOK' /\ LoggerInv'
  BY <1>6 DEF Deq
<1>7. ASSUME NEW l \in Loggers, WriteBuffer(l) \/ Sync(l)
      PROVE  LoggerTypeOK' /\ LoggerInv'
  <2>1. CASE WriteBuffer(l)
    <3>1. PICK S : file' = [file EXCEPT ![l] = @ \cup S]
      BY <2>1 DEF WriteBuffer
    <3>2. \A k \in Loggers : file[k] \subseteq file'[k]
      BY <3>1
    <3> QED
      BY <2>1, <3>2 DEF WriteBuffer
  <2>2. CASE Sync(l)
    BY <2>2 DEF Sync, Synced
  <2> QED
    BY <1>7, <2>1, <2>2
<1>8. ASSUME NEW l \in Loggers, SendNid(l) \/ NotifyStep(l) \/ PublishDl(l)
      PROVE  LoggerTypeOK' /\ LoggerInv'
  <2>1. CASE SendNid(l)
    <3>1. /\ min_epoch' = [min_epoch EXCEPT ![l] = 0] /\ lpc[l] = "send"
          /\ \E label \in {"notify", "wait"} : lpc' = [lpc EXCEPT ![l] = label]
      BY <2>1 DEF SendNid
    <3>2. UNCHANGED <<toScan, warm, thid_set, queue_quit, batch, file, synced>>
      BY <2>1 DEF SendNid
    <3>3. LoggerTypeOK'
      BY <3>1, <3>2
    <3>4. LoggerInv'
      BY <3>1, <3>2
    <3> QED
      BY <3>3, <3>4
  <2>2. CASE NotifyStep(l)
    BY <2>2 DEF NotifyStep
  <2>3. CASE PublishDl(l)
    BY <2>3 DEF PublishDl
  <2> QED
    BY <1>8, <2>1, <2>2, <2>3
<1>9. ASSUME NEW l \in Loggers, LoggerEnd(l) \/ LoggerReturns(l)
      PROVE  LoggerTypeOK' /\ LoggerInv'
  BY <1>9 DEF LoggerEnd, LoggerReturns
<1> QED
  BY <1>1, <1>2, <1>3, <1>4, <1>5, <1>6, <1>7, <1>8, <1>9, RestActions
  DEF LoggerStep

\* All of the types but those of the notifier.
ShapeInv ==
  /\ WorkerTypeOK /\ EpochsInv
  /\ BufferTypeOK /\ HeldInv
  /\ LoggerTypeOK /\ LoggerInv

\* ShapeInv holds at first.
LEMMA InitShape == Init => ShapeInv
<1> SUFFICES ASSUME Init PROVE ShapeInv
  OBVIOUS
<1> USE LogBoundsAssumption, SizesAssumption
        DEF Init, AllOnes
<1>1. EmptyBuffer \in Buffer
  BY DEF EmptyBuffer, Buffer
<1>2. \A w \in Workers : pool[w] \in Seq(BufIds)
  BY DEF BufIds
<1>3. pool \in [Workers -> Seq(BufIds)]
  BY <1>2
<1>4. BufferTypeOK
  BY <1>1, <1>3 DEF BufferTypeOK, BufIds
<1>5. warm \in [Loggers -> BOOLEAN] /\ queue_quit \in [Loggers -> BOOLEAN]
  OBVIOUS
<1>6. LoggerTypeOK
  BY <1>5 DEF LoggerTypeOK, LoggerLabels
<1>7. HeldInv /\ LoggerInv
  BY DEF HeldInv, LoggerInv
<1> QED
  BY <1>4, <1>6, <1>7, InitEpochs DEF ShapeInv

\* ShapeInv is inductive.
LEMMA ShapeStep ==
  ASSUME ShapeInv, [Next]_vars
  PROVE  ShapeInv'
<1>1. WorkerTypeOK' /\ EpochsInv'
  BY WorkerTypeStep, EpochsStep DEF ShapeInv
<1>2. BufferTypeOK' /\ HeldInv'
  BY BufferTypeStep, HeldStep DEF ShapeInv
<1>3. LoggerTypeOK' /\ LoggerInv'
  BY <1>2, LoggerStepInv DEF ShapeInv
<1> QED
  BY <1>1, <1>2, <1>3 DEF ShapeInv

\* ShapeInv, of every behaviour.
LEMMA ShapeInvariant == Spec => []ShapeInv
<1>1. ShapeInv /\ [Next]_vars => ShapeInv'
  BY ShapeStep
<1> QED
  BY <1>1, InitShape, PTL DEF Spec

-----------------------------------------------------------------------------
(* The notifier inside the loggers.                                        *)

NP == INSTANCE NotifierProofs

\* The loggers drive the notifier as its own specification allows: nothing
\* they publish is beyond the epochs of the clock.
LEMMA NotifierStep ==
  ASSUME ShapeInv, N!TypeOK, [Next]_vars
  PROVE  [N!Next]_(N!vars)
<1> USE DEF notifVars, N!vars, N!notifierVars, N!durableVars, N!checkVars
<1>1. CASE LoggersRest
  BY <1>1 DEF LoggersRest
<1>2. ASSUME NEW l \in Loggers, LoggerStep(l)
      PROVE  [N!Next]_(N!vars)
  <2>1. l \in N!Loggers
    BY DEF Loggers, N!Loggers
  <2>2. CASE OpenPepoch(l)
    BY <2>1, <2>2 DEF OpenPepoch, N!Next
  <2>3. CASE \/ StoreLogp(l) \/ LogWake(l) \/ LogTimeout(l) \/ Scan(l)
             \/ ScanQueue(l) \/ Deq(l) \/ WriteBuffer(l) \/ Sync(l)
             \/ LoggerReturns(l)
    BY <2>3 DEF StoreLogp, LogWake, LogTimeout, Scan, ScanQueue, Deq,
       WriteBuffer, Sync, LoggerReturns
  <2>4. CASE LogQuit(l)
    BY <2>1, <2>4 DEF LogQuit, N!Next
  <2>5. CASE SendNid(l)
    <3>1. CASE UNCHANGED notifVars
      BY <3>1
    <3>2. CASE N!Send(l, NewDl(l))
      <4>1. min_epoch[l] \in 1 .. MaxEpoch /\ MaxEpoch \in Nat
        BY <2>5, LogBoundsAssumption DEF SendNid, ShapeInv, LoggerInv
      <4>2. ThLocalDurableEpoch[l] \in Nat /\ ThLocalDurableEpoch[l] < NewDl(l)
        BY <2>1, <3>2 DEF N!Send, N!NewerDl, N!TypeOK, N!NotifierTypeOK
      <4>3. NewDl(l) \in 1 .. MaxEpoch
        BY <4>1, <4>2 DEF NewDl
      <4> QED
        BY <2>1, <3>2, <4>3 DEF N!Next
    <3> QED
      BY <2>5, <3>1, <3>2 DEF SendNid
  <2>6. CASE NotifyStep(l)
    BY <2>1, <2>6 DEF NotifyStep, N!Next
  <2>7. CASE PublishDl(l)
    BY <2>1, <2>7 DEF PublishDl, N!Next
  <2>8. CASE LoggerEnd(l)
    BY <2>1, <2>8 DEF LoggerEnd, N!Next
  <2> QED
    BY <1>2, <2>2, <2>3, <2>4, <2>5, <2>6, <2>7, <2>8 DEF LoggerStep
<1> QED
  BY <1>1, <1>2, RestActions

\* What SiloLog assumes of its loggers and epochs is what the notifier does.
LEMMA NotifierConstants ==
  LOGGER_NUM \in Nat \ {0} /\ MaxEpoch \in Nat
BY LoggerOfAssumption, LogBoundsAssumption

\* The notifier's invariant holds at first.
LEMMA NotifierInit == Init => NP!NInv
<1>1. Init => NP!Init
  BY DEF Init, N!Init, NP!Init, N!NotifierInit, NP!NotifierInit, N!Loggers,
     NP!Loggers
<1>2. NP!Init => NP!NInv
  BY NotifierConstants, NP!NotifierStart
<1> QED
  BY <1>1, <1>2

\* It is kept by every step of the whole system: loggers use it as they should.
LEMMA NotifierKept ==
  ASSUME ShapeInv, NP!NInv, [Next]_vars
  PROVE  /\ NP!NInv'
         /\ \A l \in Loggers :
              ThLocalDurableEpoch[l] <= ThLocalDurableEpoch'[l]
<1>1. N!TypeOK
  BY DEF NP!NInv, N!TypeOK, NP!TypeOK, N!NotifierTypeOK, NP!NotifierTypeOK,
     N!Loggers, NP!Loggers
<1>2. [N!Next]_(N!vars)
  BY <1>1, NotifierStep
<1>3. [NP!Next]_(NP!vars)
  BY <1>2
  DEF N!Next, NP!Next, N!vars, NP!vars,
     N!notifierVars, NP!notifierVars, N!durableVars, NP!durableVars,
     N!checkVars, NP!checkVars, N!Loggers, NP!Loggers, N!Send,
     NP!Send, N!SendLast, NP!SendLast, N!Open, NP!Open, N!CheckStep,
     NP!CheckStep, N!Publish, NP!Publish, N!ReturnLast, NP!ReturnLast,
     N!Truncate, NP!Truncate, N!WriteZero, NP!WriteZero, N!EnterCheck,
     NP!EnterCheck, N!ScanDl, NP!ScanDl, N!LoadDurable,
     NP!LoadDurable, N!CasDurable, NP!CasDurable, N!WritePepoch,
     NP!WritePepoch, N!LeaveCheck, NP!LeaveCheck, N!Step, NP!Step,
     N!NewerDl, NP!NewerDl, N!SmallerDl, NP!SmallerDl
<1> QED
  BY <1>3, NotifierConstants, NP!NotifierKeeps DEF Loggers, NP!Loggers

\* What the rest of this module takes for granted.
BaseInv == ShapeInv /\ NP!NInv /\ announced \in [Loggers -> Nat]

\* What it says of types and of epochs still pending.
LEMMA BaseTypes ==
  ASSUME NP!NInv
  PROVE  /\ N!TypeOK
         /\ ThLocalDurableEpoch \in [Loggers -> Nat]
         /\ new_dl \in [Loggers -> Nat]
         /\ NP!Pending
BY DEF NP!NInv, N!TypeOK, NP!TypeOK, N!NotifierTypeOK, NP!NotifierTypeOK,
   N!Loggers, NP!Loggers, Loggers

\* Only PublishDl announces.
LEMMA AnnouncedSame ==
  ASSUME [Next]_vars
  PROVE  UNCHANGED announced \/ \E l \in Loggers : PublishDl(l)
<1>1. ASSUME NEW l \in Loggers, LoggerStep(l), ~PublishDl(l)
      PROVE  UNCHANGED announced
  BY <1>1 DEF LoggerStep, OpenPepoch, StoreLogp, LogWake, LogTimeout, LogQuit,
     Scan, ScanQueue, Deq, WriteBuffer, Sync, SendNid, NotifyStep, LoggerEnd,
     LoggerReturns, logVars
<1> QED
  BY <1>1, RestActions DEF LoggersRest

\* BaseInv is inductive.
LEMMA BaseStep ==
  ASSUME BaseInv, [Next]_vars
  PROVE  BaseInv'
<1>1. ShapeInv' /\ NP!NInv'
  BY ShapeStep, NotifierKept DEF BaseInv
<1>2. ASSUME NEW l \in Loggers, PublishDl(l)
      PROVE  announced' \in [Loggers -> Nat]
  <2>1. new_dl[l] \in Nat
    BY BaseTypes DEF BaseInv
  <2> QED
    BY <1>2, <2>1 DEF BaseInv, PublishDl
<1> QED
  BY <1>1, <1>2, AnnouncedSame DEF BaseInv

\* BaseInv holds at first.
LEMMA InitBase == Init => BaseInv
BY InitShape, NotifierInit DEF Init, BaseInv

\* BaseInv, of every behaviour.
LEMMA BaseInvariant == Spec => []BaseInv
<1>1. BaseInv /\ [Next]_vars => BaseInv'
  BY BaseStep
<1> QED
  BY <1>1, InitBase, PTL DEF Spec

\* Every variable of the logging path has its type, whatever the numbers of
\* threads, buffers and log records; those of the notifier with them.
THEOREM LogTypes == Spec => []TypeOK
<1>1. BaseInv => TypeOK
  BY BaseTypes DEF BaseInv, ShapeInv, TypeOK
<1> QED
  BY <1>1, BaseInvariant, PTL

\* The loggers drive the notifier as its own specification allows, so that what
\* is proved of the notifier holds inside the program.
THEOREM NotifierInside == Spec => N!Spec
<1>1. Init => N!Init
  BY DEF Init
<1>2. BaseInv /\ [Next]_vars => [N!Next]_(N!vars)
  BY BaseTypes, NotifierStep DEF BaseInv
<1> QED
  BY <1>1, <1>2, BaseInvariant, PTL DEF Spec, N!Spec

-----------------------------------------------------------------------------
(* A log buffer has one owner.                                             *)

Places == {"current", "pool", "queue", "batch"}

At(w, b, p) ==
  \/ p = "current" /\ current[w] = b
  \/ p = "pool" /\ InPool(w, b)
  \/ p = "queue" /\ InQueue(w, b)
  \/ p = "batch" /\ InBatch(w, b)

OneOwner ==
  \A w \in Workers, b \in BufIds :
    \E p \in Places : \A q \in Places : At(w, b, q) <=> q = p

PoolUnique ==
  \A w \in Workers : \A i, j \in 1 .. Len(pool[w]) :
    pool[w][i] = pool[w][j] => i = j

\* A buffer is queued with the logger of its worker, under its min_epoch_.
FiledInv ==
  \A l \in Loggers : \A q \in queue[l] \cup batch[l] :
    LoggerOf[q.worker] = l /\ q.key = buffer[q.worker][q.id].min_epoch

OwnerInv == OneOwner /\ PoolUnique /\ FiledInv

\* The last buffer of the pool leaves it.
LEMMA ShorterPool ==
  ASSUME NEW s \in Seq(BufIds), s # <<>>,
         \A i, j \in 1 .. Len(s) : s[i] = s[j] => i = j,
         NEW t, t = SubSeq(s, 1, Len(s) - 1)
  PROVE  /\ \A i, j \in 1 .. Len(t) : t[i] = t[j] => i = j
         /\ \A b : (\E i \in 1 .. Len(t) : t[i] = b)
                     <=> (\E i \in 1 .. Len(s) : s[i] = b) /\ b # s[Len(s)]
<1>1. Len(s) \in Nat \ {0}
  OBVIOUS
<1>2. Len(t) = Len(s) - 1 /\ \A i \in 1 .. Len(s) - 1 : t[i] = s[i]
  <2> DEFINE n == Len(s) - 1
  <2>1. n \in Int /\ \A i \in 1 .. n : s[i] \in BufIds
    BY <1>1
  <2>2. /\ Len(SubSeq(s, 1, n)) = IF 1 <= n THEN n - 1 + 1 ELSE 0
        /\ \A i \in 1 .. n - 1 + 1 : SubSeq(s, 1, n)[i] = s[1 + i - 1]
    BY <2>1, SubSeqProperties
  <2>3. t = SubSeq(s, 1, n)
    OBVIOUS
  <2> HIDE DEF n
  <2>4. /\ Len(t) = IF 1 <= n THEN n - 1 + 1 ELSE 0
        /\ \A i \in 1 .. n - 1 + 1 : t[i] = s[1 + i - 1]
    BY <2>2, <2>3
  <2>5. n = Len(s) - 1
    BY DEF n
  <2>6. n \in Nat
    BY <1>1, <2>5
  <2>7. Len(t) = n
    BY <2>4, <2>6
  <2>8. \A i \in 1 .. n : t[i] = s[i]
    BY <2>4, <2>6
  <2> QED
    BY <2>5, <2>7, <2>8
<1>3. \A i, j \in 1 .. Len(t) : t[i] = t[j] => i = j
  BY <1>1, <1>2
<1>4. ASSUME NEW b, NEW i \in 1 .. Len(t), t[i] = b
      PROVE  (\E k \in 1 .. Len(s) : s[k] = b) /\ b # s[Len(s)]
  BY <1>1, <1>2, <1>4
<1>5. ASSUME NEW b, NEW i \in 1 .. Len(s), s[i] = b, b # s[Len(s)]
      PROVE  \E k \in 1 .. Len(t) : t[k] = b
  <2>1. i \in 1 .. Len(t) /\ t[i] = b
    BY <1>1, <1>2, <1>5
  <2> QED
    BY <2>1
<1> QED
  BY <1>3, <1>4, <1>5

\* A buffer that was not in the pool goes back to it.
LEMMA LongerPool ==
  ASSUME NEW s \in Seq(BufIds), NEW x \in BufIds,
         \A i, j \in 1 .. Len(s) : s[i] = s[j] => i = j,
         ~ \E i \in 1 .. Len(s) : s[i] = x,
         NEW t, t = Append(s, x)
  PROVE  /\ \A i, j \in 1 .. Len(t) : t[i] = t[j] => i = j
         /\ \A b : (\E i \in 1 .. Len(t) : t[i] = b)
                     <=> (\E i \in 1 .. Len(s) : s[i] = b) \/ b = x
<1>1. Len(s) \in Nat
  OBVIOUS
<1>2. /\ Len(t) = Len(s) + 1 /\ t[Len(t)] = x
      /\ \A i \in 1 .. Len(s) : t[i] = s[i]
  BY <1>1
<1>3. \A i \in 1 .. Len(t) : i \in 1 .. Len(s) \/ i = Len(t)
  BY <1>1, <1>2
<1>4. \A i, j \in 1 .. Len(t) : t[i] = t[j] => i = j
  BY <1>1, <1>2, <1>3
<1>5. ASSUME NEW b
      PROVE  (\E i \in 1 .. Len(t) : t[i] = b)
               <=> (\E i \in 1 .. Len(s) : s[i] = b) \/ b = x
  <2>1. 1 .. Len(s) \subseteq 1 .. Len(t) /\ Len(t) \in 1 .. Len(t)
    BY <1>1, <1>2
  <2> QED
    BY <1>2, <1>3, <2>1
<1> QED
  BY <1>4, <1>5

\* The buffer at hand is its worker's, or free.
LEMMA AtHandPlace ==
  ASSUME BufferTypeOK, NEW w \in Workers, Ready(w)
  PROVE  \/ current[w] # 0 /\ At(w, AtHand(w), "current")
         \/ current[w] = 0 /\ pool[w] # <<>> /\ At(w, AtHand(w), "pool")
<1>1. CASE current[w] # 0
  BY <1>1 DEF AtHand, At
<1>2. CASE current[w] = 0
  <2>1. pool[w] \in Seq(BufIds) /\ pool[w] # <<>>
    BY <1>2 DEF BufferTypeOK, Ready
  <2>2. Len(pool[w]) \in 1 .. Len(pool[w])
    BY <2>1
  <2> QED
    BY <1>2, <2>1, <2>2 DEF AtHand, At, InPool
<1> QED
  BY <1>1, <1>2

\* Where the buffers are after a worker has handled buffer b.
LEMMA HandlesPool ==
  ASSUME BufferTypeOK, OneOwner, PoolUnique, NEW w \in Workers, Ready(w),
         pool' = PoolRest(w)
  PROVE  /\ PoolUnique'
         /\ \A u \in Workers, x \in BufIds :
              InPool(u, x)' <=> InPool(u, x) /\ <<u, x>> # <<w, AtHand(w)>>
<1>1. CASE current[w] # 0
  <2>1. pool' = pool /\ At(w, AtHand(w), "current") /\ AtHand(w) \in BufIds
    BY <1>1, AtHandPlace, AtHandType DEF PoolRest
  <2>2. ~At(w, AtHand(w), "pool")
    BY <2>1 DEF OneOwner, Places
  <2> QED
    BY <2>1, <2>2 DEF PoolUnique, InPool, At
<1>2. CASE current[w] = 0
  <2> DEFINE s == pool[w]
             t == SubSeq(s, 1, Len(s) - 1)
  <2>1. s \in Seq(BufIds) /\ s # <<>> /\ AtHand(w) = s[Len(s)]
    BY <1>2 DEF BufferTypeOK, Ready, AtHand
  <2>2. \A i, j \in 1 .. Len(s) : s[i] = s[j] => i = j
    BY DEF PoolUnique
  <2> HIDE DEF s
  <2>3. /\ \A i, j \in 1 .. Len(t) : t[i] = t[j] => i = j
        /\ \A x : (\E i \in 1 .. Len(t) : t[i] = x)
                    <=> (\E i \in 1 .. Len(s) : s[i] = x) /\ x # AtHand(w)
    BY <2>1, <2>2, ShorterPool
  <2> HIDE DEF t
  <2>4. pool'[w] = t /\ \A u \in Workers \ {w} : pool'[u] = pool[u]
    BY <1>2 DEF PoolRest, BufferTypeOK, s, t
  <2>5. PoolUnique'
    BY <2>3, <2>4 DEF PoolUnique
  <2>6. ASSUME NEW u \in Workers, NEW x \in BufIds
        PROVE  InPool(u, x)' <=> InPool(u, x) /\ <<u, x>> # <<w, AtHand(w)>>
    <3>1. CASE u = w
      BY <2>3, <2>4, <3>1 DEF InPool, s
    <3>2. CASE u # w
      BY <2>4, <3>2 DEF InPool
    <3> QED
      BY <3>1, <3>2
  <2> QED
    BY <2>5, <2>6
<1> QED
  BY <1>1, <1>2

\* enq puts one buffer in one queue, under the key of its contents.
LEMMA EnqueuedPlace ==
  ASSUME BufferTypeOK, NEW w \in Workers, NEW b \in BufIds, NEW c,
         queue' = Enqueued(w, b, c)
  PROVE  /\ \A u \in Workers, x \in BufIds :
              InQueue(u, x)' <=> InQueue(u, x) \/ <<u, x>> = <<w, b>>
         /\ \A l \in Loggers : \A q \in queue'[l] :
              \/ q \in queue[l]
              \/ /\ l = LoggerOf[w] /\ q.worker = w /\ q.id = b
                 /\ q.key = c.min_epoch
<1> DEFINE r == [key |-> c.min_epoch, worker |-> w, id |-> b]
           k == LoggerOf[w]
<1>1. k \in Loggers
  BY LoggerOfAssumption
<1>2. queue'[k] = queue[k] \cup {r} /\ \A l \in Loggers \ {k} : queue'[l] = queue[l]
  BY <1>1 DEF Enqueued, BufferTypeOK
<1>3. r.worker = w /\ r.id = b /\ r.key = c.min_epoch
  OBVIOUS
<1> HIDE DEF r, k
<1>4. ASSUME NEW u \in Workers, NEW x \in BufIds
      PROVE  InQueue(u, x)' <=> InQueue(u, x) \/ <<u, x>> = <<w, b>>
  BY <1>1, <1>2, <1>3 DEF InQueue
<1>5. ASSUME NEW l \in Loggers, NEW q \in queue'[l]
      PROVE  \/ q \in queue[l]
             \/ /\ l = LoggerOf[w] /\ q.worker = w /\ q.id = b
                /\ q.key = c.min_epoch
  BY <1>2, <1>3 DEF k
<1> QED
  BY <1>4, <1>5

\* The worker is the owner of the buffer it handles, and of no other one.
LEMMA HandlesPlaces ==
  ASSUME BufferTypeOK, OneOwner, PoolUnique, NEW w \in Workers, Handles(w),
         NEW b \in BufIds, b = AtHand(w)
  PROVE  /\ \A u \in Workers, x \in BufIds : <<u, x>> # <<w, b>> =>
              /\ current'[u] = x <=> current[u] = x
              /\ InPool(u, x)' <=> InPool(u, x)
              /\ InQueue(u, x)' <=> InQueue(u, x)
              /\ InBatch(u, x)' <=> InBatch(u, x)
         /\ ~InPool(w, b)' /\ ~InBatch(w, b)'
         /\ InQueue(w, b)' <=> current'[w] # b
         /\ ~InQueue(w, b) /\ ~InBatch(w, b)
<1>1. Ready(w) /\ pool' = PoolRest(w) /\ UNCHANGED batch
  BY DEF Handles
<1>2. At(w, b, "current") \/ At(w, b, "pool")
  BY <1>1, AtHandPlace
<1>3. ~InQueue(w, b) /\ ~InBatch(w, b)
  BY <1>2 DEF OneOwner, Places, At
<1>4. \A x \in BufIds : current[w] = x => x = b
  BY DEF AtHand, BufIds
<1>5. \A u \in Workers, x \in BufIds :
        InPool(u, x)' <=> InPool(u, x) /\ <<u, x>> # <<w, b>>
  BY <1>1, HandlesPool
<1>6. \A u \in Workers, x \in BufIds : InBatch(u, x)' <=> InBatch(u, x)
  BY <1>1 DEF InBatch
<1>7. 0 \notin BufIds
  BY DEF BufIds
<1>8. CASE queue' = Enqueued(w, b, buffer'[w][b]) /\ current' = [current EXCEPT ![w] = 0]
  <2>1. \A u \in Workers, x \in BufIds :
          InQueue(u, x)' <=> InQueue(u, x) \/ <<u, x>> = <<w, b>>
    BY <1>8, EnqueuedPlace
  <2>2. \A u \in Workers, x \in BufIds : <<u, x>> # <<w, b>> =>
          (current'[u] = x <=> current[u] = x)
    BY <1>4, <1>7, <1>8 DEF BufferTypeOK
  <2>3. current'[w] # b
    BY <1>7, <1>8 DEF BufferTypeOK
  <2> QED
    BY <1>3, <1>5, <1>6, <2>1, <2>2, <2>3
<1>9. CASE queue' = queue /\ current' = [current EXCEPT ![w] = b]
  <2>1. \A u \in Workers, x \in BufIds : InQueue(u, x)' <=> InQueue(u, x)
    BY <1>9 DEF InQueue
  <2>2. \A u \in Workers, x \in BufIds : <<u, x>> # <<w, b>> =>
          (current'[u] = x <=> current[u] = x)
    BY <1>4, <1>9 DEF BufferTypeOK
  <2>3. current'[w] = b
    BY <1>9 DEF BufferTypeOK
  <2> QED
    BY <1>3, <1>5, <1>6, <2>1, <2>2, <2>3
<1> QED
  BY <1>8, <1>9 DEF Handles

\* What workers do with buffers keeps each in one place.
LEMMA HandlesOwner ==
  ASSUME BufferTypeOK, OwnerInv, NEW w \in Workers, Handles(w)
  PROVE  OwnerInv'
<1>1. PICK b \in BufIds : b = AtHand(w)
  BY AtHandType DEF Handles
<1>2. /\ \A u \in Workers, x \in BufIds : <<u, x>> # <<w, b>> =>
           /\ current'[u] = x <=> current[u] = x
           /\ InPool(u, x)' <=> InPool(u, x)
           /\ InQueue(u, x)' <=> InQueue(u, x)
           /\ InBatch(u, x)' <=> InBatch(u, x)
      /\ ~InPool(w, b)' /\ ~InBatch(w, b)'
      /\ InQueue(w, b)' <=> current'[w] # b
      /\ ~InQueue(w, b) /\ ~InBatch(w, b)
  BY <1>1, HandlesPlaces DEF OwnerInv
<1>3. OneOwner'
  <2> SUFFICES ASSUME NEW u \in Workers, NEW x \in BufIds
               PROVE  \E p \in Places : \A q \in Places : At(u, x, q)' <=> q = p
    BY DEF OneOwner
  <2>1. CASE <<u, x>> # <<w, b>>
    <3>1. \A q \in Places : At(u, x, q)' <=> At(u, x, q)
      BY <1>2, <2>1 DEF At
    <3> QED
      BY <3>1 DEF OwnerInv, OneOwner
  <2>2. CASE u = w /\ x = b
    BY <1>2, <2>2 DEF At, Places
  <2> QED
    BY <2>1, <2>2
<1>4. PoolUnique'
  BY HandlesPool DEF Handles, OwnerInv
<1>5. FiledInv'
  <2> SUFFICES ASSUME NEW l \in Loggers, NEW q \in queue'[l] \cup batch'[l]
               PROVE  /\ LoggerOf[q.worker] = l
                      /\ q.key = buffer'[q.worker][q.id].min_epoch
    BY DEF FiledInv
  <2>1. CASE q \in queue[l] \cup batch[l]
    <3>1. q.worker \in Workers /\ q.id \in BufIds
      BY <2>1 DEF BufferTypeOK, Queued
    <3>2. <<q.worker, q.id>> # <<w, b>>
      BY <1>2, <2>1 DEF InQueue, InBatch
    <3>3. buffer'[q.worker][q.id] = buffer[q.worker][q.id]
      BY <1>1, <3>1, <3>2 DEF Handles, BufferTypeOK
    <3> QED
      BY <2>1, <3>3 DEF OwnerInv, FiledInv
  <2>2. CASE q \in queue'[l] \ queue[l]
    <3>1. queue' = Enqueued(w, b, buffer'[w][b])
      BY <1>1, <2>2 DEF Handles
    <3>2. /\ l = LoggerOf[w] /\ q.worker = w /\ q.id = b
          /\ q.key = buffer'[w][b].min_epoch
      BY <2>2, <3>1, EnqueuedPlace
    <3> QED
      BY <3>2
  <2> QED
    BY <2>1, <2>2 DEF Handles
<1> QED
  BY <1>3, <1>4, <1>5 DEF OwnerInv

\* What a logger has queued goes into its batch.
LEMMA DeqOwner ==
  ASSUME BufferTypeOK, LoggerInv, OwnerInv, NEW l \in Loggers, Deq(l)
  PROVE  OwnerInv'
<1>1. /\ batch'[l] = queue[l] /\ queue'[l] = {} /\ batch[l] = {}
      /\ \A k \in Loggers \ {l} : batch'[k] = batch[k] /\ queue'[k] = queue[k]
      /\ UNCHANGED <<buffer, current, pool>>
  BY DEF Deq, BufferTypeOK, LoggerInv, bufVars
<1>2. \A k \in Loggers : \A q \in queue[k] \cup batch[k] : LoggerOf[q.worker] = k
  BY DEF OwnerInv, FiledInv
<1>3. ASSUME NEW u \in Workers, NEW x \in BufIds
      PROVE  \E p \in Places : \A q \in Places : At(u, x, q)' <=> q = p
  <2>1. PICK p \in Places : \A q \in Places : At(u, x, q) <=> q = p
    BY DEF OwnerInv, OneOwner
  <2>2. InPool(u, x)' <=> InPool(u, x)
    BY <1>1 DEF InPool
  <2>3. CASE LoggerOf[u] # l
    <3>1. InQueue(u, x)' <=> InQueue(u, x)
      BY <1>1, <1>2, <2>3 DEF InQueue
    <3>2. InBatch(u, x)' <=> InBatch(u, x)
      BY <1>1, <1>2, <2>3 DEF InBatch
    <3>3. \A q \in Places : At(u, x, q)' <=> At(u, x, q)
      BY <1>1, <2>2, <3>1, <3>2 DEF At
    <3> QED
      BY <2>1, <3>3
  <2>4. CASE LoggerOf[u] = l
    <3>1. ~InQueue(u, x)'
      BY <1>1, <1>2, <2>4 DEF InQueue
    <3>2. InBatch(u, x)' <=> InQueue(u, x)
      BY <1>1, <1>2, <2>4 DEF InQueue, InBatch
    <3>3. ~InBatch(u, x)
      BY <1>1, <1>2, <2>4 DEF InBatch
    <3>4. CASE p = "queue"
      BY <1>1, <2>1, <2>2, <3>1, <3>2, <3>4 DEF At, Places
    <3>5. CASE p # "queue"
      BY <1>1, <2>1, <2>2, <3>1, <3>2, <3>3, <3>5 DEF At, Places
    <3> QED
      BY <3>4, <3>5
  <2> QED
    BY <2>3, <2>4
<1>4. PoolUnique'
  BY <1>1 DEF OwnerInv, PoolUnique
<1>5. FiledInv'
  BY <1>1 DEF OwnerInv, FiledInv
<1> QED
  BY <1>3, <1>4, <1>5 DEF OwnerInv, OneOwner

\* The parts of WriteBuffer that move the buffer.
Writes(l, q) ==
  /\ q \in batch[l]
  /\ batch' = [batch EXCEPT ![l] = @ \ {q}]
  /\ file' = [file EXCEPT ![l] = @ \cup buffer[q.worker][q.id].txns]
  /\ buffer' = [buffer EXCEPT ![q.worker][q.id] = Written(@)]
  /\ pool' = [pool EXCEPT ![q.worker] = Append(@, q.id)]
  /\ UNCHANGED <<queue, current, synced>>

\* The logger writes one buffer of its batch.
LEMMA WriteBufferWrites ==
  ASSUME NEW l \in Loggers, WriteBuffer(l)
  PROVE  \E q \in batch[l] : Writes(l, q)
BY DEF WriteBuffer, Writes, Return

\* The buffer written is in the batch, and goes from there to the pool.
LEMMA WritesPlaces ==
  ASSUME BufferTypeOK, OwnerInv, NEW l \in Loggers, NEW q, Writes(l, q),
         NEW w, NEW b, w = q.worker, b = q.id
  PROVE  /\ w \in Workers /\ b \in BufIds /\ LoggerOf[w] = l
         /\ current[w] # b /\ ~InPool(w, b) /\ ~InQueue(w, b) /\ InBatch(w, b)
         /\ \A k \in Loggers : \A r \in batch'[k] :
              r \in batch[k] /\ <<r.worker, r.id>> # <<w, b>>
         /\ PoolUnique'
         /\ \A u \in Workers, x \in BufIds :
              /\ InPool(u, x)' <=> InPool(u, x) \/ <<u, x>> = <<w, b>>
              /\ InQueue(u, x)' <=> InQueue(u, x)
              /\ InBatch(u, x)' <=> InBatch(u, x) /\ <<u, x>> # <<w, b>>
<1>1. q \in Queued /\ w \in Workers /\ b \in BufIds /\ q \in batch[l]
  BY DEF BufferTypeOK, Queued, Writes
<1>2. LoggerOf[w] = l /\ InBatch(w, b)
  BY <1>1 DEF OwnerInv, FiledInv, InBatch
<1>3. current[w] # b /\ ~InPool(w, b) /\ ~InQueue(w, b)
  <2>1. At(w, b, "batch")
    BY <1>2 DEF At
  <2>2. ~At(w, b, "current") /\ ~At(w, b, "pool") /\ ~At(w, b, "queue")
    BY <1>1, <2>1 DEF OwnerInv, OneOwner, Places
  <2> QED
    BY <2>2 DEF At
<1>4. \A k \in Loggers :
        batch'[k] = IF k = l THEN batch[l] \ {q} ELSE batch[k]
  BY DEF Writes, BufferTypeOK
<1>5. ASSUME NEW k \in Loggers, NEW r \in batch[k], r.worker = w, r.id = b
      PROVE  r = q /\ k = l
  <2>1. r \in Queued
    BY DEF BufferTypeOK
  <2>2. k = l /\ r.key = q.key
    BY <1>1, <1>2, <1>5 DEF OwnerInv, FiledInv
  <2> QED
    BY <1>1, <1>5, <2>1, <2>2 DEF Queued
<1>6. \A k \in Loggers : \A r \in batch'[k] :
        r \in batch[k] /\ <<r.worker, r.id>> # <<w, b>>
  BY <1>4, <1>5
<1>7. PoolUnique' /\ \A u \in Workers, x \in BufIds :
        InPool(u, x)' <=> InPool(u, x) \/ <<u, x>> = <<w, b>>
  <2> DEFINE s == pool[w]
             t == Append(s, b)
  <2>1. s \in Seq(BufIds) /\ ~ \E i \in 1 .. Len(s) : s[i] = b
    BY <1>1, <1>3 DEF BufferTypeOK, InPool
  <2>2. \A i, j \in 1 .. Len(s) : s[i] = s[j] => i = j
    BY <1>1 DEF OwnerInv, PoolUnique
  <2> HIDE DEF s
  <2>3. /\ \A i, j \in 1 .. Len(t) : t[i] = t[j] => i = j
        /\ \A x : (\E i \in 1 .. Len(t) : t[i] = x)
                    <=> (\E i \in 1 .. Len(s) : s[i] = x) \/ x = b
    BY <1>1, <2>1, <2>2, LongerPool
  <2> HIDE DEF t
  <2>4. pool'[w] = t /\ \A u \in Workers \ {w} : pool'[u] = pool[u]
    BY <1>1 DEF Writes, BufferTypeOK, s, t
  <2>5. PoolUnique'
    BY <2>3, <2>4 DEF OwnerInv, PoolUnique
  <2>6. ASSUME NEW u \in Workers, NEW x \in BufIds
        PROVE  InPool(u, x)' <=> InPool(u, x) \/ <<u, x>> = <<w, b>>
    <3>1. CASE u = w
      <4>1. InPool(u, x)' <=> \E i \in 1 .. Len(t) : t[i] = x
        BY <2>4, <3>1 DEF InPool
      <4>2. InPool(u, x) <=> \E i \in 1 .. Len(s) : s[i] = x
        BY <3>1 DEF InPool, s
      <4> QED
        BY <2>3, <3>1, <4>1, <4>2
    <3>2. CASE u # w
      BY <2>4, <3>2 DEF InPool
    <3> QED
      BY <3>1, <3>2
  <2> QED
    BY <2>5, <2>6
<1>8. ASSUME NEW u \in Workers, NEW x \in BufIds
      PROVE  /\ InQueue(u, x)' <=> InQueue(u, x)
             /\ InBatch(u, x)' <=> InBatch(u, x) /\ <<u, x>> # <<w, b>>
  <2>1. InQueue(u, x)' <=> InQueue(u, x)
    BY DEF InQueue, Writes
  <2>2. InBatch(u, x)' => InBatch(u, x) /\ <<u, x>> # <<w, b>>
    BY <1>6 DEF InBatch
  <2>3. ASSUME InBatch(u, x), <<u, x>> # <<w, b>> PROVE InBatch(u, x)'
    <3>1. PICK k \in Loggers : \E r \in batch[k] : r.worker = u /\ r.id = x
      BY <2>3 DEF InBatch
    <3>2. PICK r \in batch[k] : r.worker = u /\ r.id = x
      BY <3>1
    <3>3. r \in batch'[k]
      BY <1>4, <2>3, <3>2
    <3> QED
      BY <3>2, <3>3 DEF InBatch
  <2> QED
    BY <2>1, <2>2, <2>3
<1> QED
  BY <1>1, <1>2, <1>3, <1>6, <1>7, <1>8

\* It goes from the batch to its worker's pool and nowhere else.
LEMMA WritesOwner ==
  ASSUME BufferTypeOK, OwnerInv, NEW l \in Loggers, NEW q, Writes(l, q)
  PROVE  OwnerInv'
<1> DEFINE w == q.worker
           b == q.id
<1>1. /\ w \in Workers /\ b \in BufIds /\ LoggerOf[w] = l
      /\ current[w] # b /\ ~InPool(w, b) /\ ~InQueue(w, b) /\ InBatch(w, b)
      /\ \A k \in Loggers : \A r \in batch'[k] :
           r \in batch[k] /\ <<r.worker, r.id>> # <<w, b>>
      /\ PoolUnique'
      /\ \A u \in Workers, x \in BufIds :
           /\ InPool(u, x)' <=> InPool(u, x) \/ <<u, x>> = <<w, b>>
           /\ InQueue(u, x)' <=> InQueue(u, x)
           /\ InBatch(u, x)' <=> InBatch(u, x) /\ <<u, x>> # <<w, b>>
  BY WritesPlaces
<1>2. UNCHANGED <<queue, current>>
  BY DEF Writes
<1>3. ASSUME NEW u \in Workers, NEW x \in BufIds
      PROVE  \E p \in Places : \A r \in Places : At(u, x, r)' <=> r = p
  <2>1. CASE <<u, x>> = <<w, b>>
    <3>1. \A r \in Places : At(u, x, r)' <=> r = "pool"
      BY <1>1, <1>2, <2>1 DEF At, Places
    <3> QED
      BY <3>1 DEF Places
  <2>2. CASE <<u, x>> # <<w, b>>
    <3>1. \A r \in Places : At(u, x, r)' <=> At(u, x, r)
      BY <1>1, <1>2, <2>2 DEF At
    <3> QED
      BY <3>1 DEF OwnerInv, OneOwner
  <2> QED
    BY <2>1, <2>2
<1>4. FiledInv'
  <2> SUFFICES ASSUME NEW k \in Loggers, NEW r \in queue'[k] \cup batch'[k]
               PROVE  /\ LoggerOf[r.worker] = k
                      /\ r.key = buffer'[r.worker][r.id].min_epoch
    BY DEF FiledInv
  <2>1. r \in queue[k] \cup batch[k] /\ <<r.worker, r.id>> # <<w, b>>
    <3>1. CASE r \in batch'[k]
      BY <1>1, <3>1
    <3>2. CASE r \in queue'[k]
      BY <1>1, <1>2, <3>2 DEF InQueue
    <3> QED
      BY <3>1, <3>2
  <2>2. r.worker \in Workers /\ r.id \in BufIds
    BY <2>1 DEF BufferTypeOK, Queued
  <2>3. buffer'[r.worker][r.id] = buffer[r.worker][r.id]
    BY <1>1, <2>1, <2>2 DEF Writes, BufferTypeOK
  <2> QED
    BY <2>1, <2>3 DEF OwnerInv, FiledInv
<1> QED
  BY <1>1, <1>3, <1>4 DEF OwnerInv, OneOwner

\* OwnerInv is inductive.
LEMMA OwnerStep ==
  ASSUME ShapeInv, OwnerInv, [Next]_vars
  PROVE  OwnerInv'
<1>1. CASE Still
  <2>1. FiledInv' /\ PoolUnique'
    BY <1>1 DEF Still, OwnerInv, FiledInv, PoolUnique
  <2>2. OneOwner'
    BY <1>1 DEF Still, OwnerInv, OneOwner, At, InPool, InQueue, InBatch
  <2> QED
    BY <2>1, <2>2 DEF OwnerInv
<1> QED
  BY <1>1, BufferKinds, HandlesOwner, DeqOwner, WriteBufferWrites, WritesOwner
  DEF ShapeInv

\* All buffers are in their pools at first.
LEMMA InitOwner == Init => OwnerInv
<1> SUFFICES ASSUME Init PROVE OwnerInv
  OBVIOUS
<1>1. BUFFER_NUM \in Nat \ {0}
  BY SizesAssumption
<1>2. /\ \A w \in Workers :
           /\ current[w] = 1 /\ Len(pool[w]) = BUFFER_NUM - 1
           /\ \A i \in 1 .. BUFFER_NUM - 1 : pool[w][i] = i + 1
      /\ \A l \in Loggers : queue[l] = {} /\ batch[l] = {}
  BY <1>1 DEF Init
<1>3. PoolUnique /\ FiledInv
  BY <1>1, <1>2 DEF PoolUnique, FiledInv
<1>4. ASSUME NEW w \in Workers, NEW b \in BufIds
      PROVE  \E p \in Places : \A q \in Places : At(w, b, q) <=> q = p
  <2>1. ~InQueue(w, b) /\ ~InBatch(w, b)
    BY <1>2 DEF InQueue, InBatch
  <2>2. InPool(w, b) <=> b # 1
    <3>1. b \in Nat /\ 1 <= b /\ b <= BUFFER_NUM
      BY <1>1 DEF BufIds
    <3>2. ASSUME b # 1 PROVE InPool(w, b)
      <4>1. b - 1 \in 1 .. Len(pool[w]) /\ pool[w][b - 1] = b
        BY <1>1, <1>2, <3>1, <3>2
      <4> QED
        BY <4>1 DEF InPool
    <3>3. ASSUME InPool(w, b) PROVE b # 1
      BY <1>1, <1>2, <3>3 DEF InPool
    <3> QED
      BY <3>2, <3>3
  <2>3. CASE b = 1
    BY <1>2, <2>1, <2>2, <2>3 DEF At, Places
  <2>4. CASE b # 1
    BY <1>2, <2>1, <2>2, <2>4 DEF At, Places
  <2> QED
    BY <2>3, <2>4
<1> QED
  BY <1>3, <1>4 DEF OwnerInv, OneOwner

\* OwnerInv, of every behaviour.
LEMMA OwnerInvariant == Spec => [](BaseInv /\ OwnerInv)
<1>1. BaseInv /\ OwnerInv /\ [Next]_vars => (BaseInv /\ OwnerInv)'
  BY BaseStep, OwnerStep DEF BaseInv
<1> QED
  BY <1>1, InitBase, InitOwner, PTL DEF Spec

\* A log buffer has one owner, whatever the number of buffers, workers and
\* loggers: the hand-over through the queue and the pool never leaves it with
\* two threads, or with none.
THEOREM BufferOwnership == Spec => []BufferOwned
<1>1. BaseInv /\ OwnerInv => BufferOwned
  <2> SUFFICES ASSUME BaseInv, OwnerInv, NEW w \in Workers, NEW b \in BufIds
               PROVE
        LET places == {p \in {"current", "pool", "queue", "batch"} :
                        \/ p = "current" /\ current[w] = b
                        \/ p = "pool" /\ InPool(w, b)
                        \/ p = "queue" /\ InQueue(w, b)
                        \/ p = "batch" /\ InBatch(w, b)}
        IN  /\ Cardinality(places) = 1
            /\ Cardinality({i \in 1 .. Len(pool[w]) : pool[w][i] = b}) <= 1
            /\ \A l \in Loggers \ {LoggerOf[w]} :
                 \A q \in queue[l] \cup batch[l] : q.worker # w
    BY DEF BufferOwned, Bufs
  <2> DEFINE places == {p \in Places : At(w, b, p)}
             slots == {i \in 1 .. Len(pool[w]) : pool[w][i] = b}
  <2>1. PICK p \in Places : \A q \in Places : At(w, b, q) <=> q = p
    BY DEF OwnerInv, OneOwner
  <2>2. places = {p}
    BY <2>1
  <2>3. Cardinality(places) = 1
    BY <2>2, FS_Singleton
  <2>4. Cardinality(slots) <= 1
    <3>1. ASSUME NEW i \in slots PROVE slots = {i}
      BY DEF OwnerInv, PoolUnique
    <3> HIDE DEF slots
    <3>2. slots = {} \/ \E i : slots = {i}
      BY <3>1
    <3>3. Cardinality(slots) = 0 \/ Cardinality(slots) = 1
      BY <3>2, FS_EmptySet, FS_Singleton
    <3> QED
      BY <3>3
  <2>5. \A l \in Loggers \ {LoggerOf[w]} :
          \A q \in queue[l] \cup batch[l] : q.worker # w
    BY DEF OwnerInv, FiledInv
  <2> QED
    BY <2>3, <2>4, <2>5 DEF At, Places
<1> QED
  BY <1>1, OwnerInvariant, PTL

-----------------------------------------------------------------------------
(* A log buffer holds one epoch and stays within its size.                 *)

\* Nothing has been pushed since the buffer was made or written.
Blank(c) ==
  /\ c.txns = {} /\ c.log_set_size = 0
  /\ c.min_epoch = AllOnes /\ c.max_epoch = 0

Uniform(c) ==
  /\ c.used /\ c.min_epoch = c.max_epoch
  /\ \A t \in c.txns : t.epoch = c.min_epoch

ContentsInv ==
  \A w \in Workers, b \in BufIds :
    /\ Blank(buffer[w][b]) \/ Uniform(buffer[w][b])
    /\ buffer[w][b].log_set_size <= LOG_BUFFER_SIZE
    /\ InPool(w, b) => Blank(buffer[w][b])

\* The epoch of the current buffer is that of CTIDW, until wal() has stored the
\* new one; a pause and the end leave no records in it; and a transaction fits
\* in it when it is pushed.
CurrentOK(w) ==
  current[w] # 0 =>
    /\ wpc[w] \in {"paused", "pausedCTIDW", "recheck", "term", "join", "done"}
         => Blank(Cur(w))
    /\ \/ Blank(Cur(w))
       \/ Cur(w).min_epoch = IF wpc[w] \in {"push", "newCTIDW"}
                             THEN ThLocalEpoch[w] ELSE CTIDW[w]
    /\ wpc[w] = "push" =>
         Cur(w).log_set_size + txn[w].size <= LOG_BUFFER_SIZE

CurrentInv == \A w \in Workers : CurrentOK(w)

\* A worker leaves the others' variables alone.
LEMMA OtherWorkers ==
  ASSUME WorkerTypeOK, BufferTypeOK, EpochsInv, NEW w \in Workers,
         WorkerStep(w), NEW u \in Workers, u # w
  PROVE  /\ wpc'[u] = wpc[u] /\ current'[u] = current[u]
         /\ pool'[u] = pool[u] /\ buffer'[u] = buffer[u]
         /\ ThLocalEpoch'[u] = ThLocalEpoch[u] /\ CTIDW'[u] = CTIDW[u]
         /\ txn'[u] = txn[u] /\ ntx'[u] = ntx[u]
<1> USE DEF WorkerTypeOK, BufferTypeOK, epochVars, txnVars, bufVars, WGoto
<1>1. CASE \/ Register(w) \/ PauseCheck(w) \/ PausePublish(w) \/ PauseRecheck(w)
           \/ GetBuffer(w) \/ NotReady(w)
  BY <1>1 DEF Register, PauseCheck, PausePublish, PauseRecheck, GetBuffer,
     NotReady, PoolRest
<1>2. CASE \/ EpochWork(w) \/ StoreCTIDW(w) \/ Begin(w) \/ LoadGE(w)
           \/ StoreThLocalEpoch(w) \/ Abort(w)
  BY <1>2 DEF EpochWork, StoreCTIDW, Begin, LoadGE, StoreThLocalEpoch, Abort
<1>3. CASE Commit(w) \/ NewCTIDW(w) \/ Terminate(w) \/ WorkerEnd(w) \/ Join(w)
  BY <1>3 DEF Commit, NewCTIDW, Terminate, WorkerEnd, Join
<1>4. CASE Push(w)
  <2>1. buffer'[u] = buffer[u]
    BY <1>4, PushHandles
  <2> QED
    BY <1>4, <2>1 DEF Push, PoolRest
<1> QED
  BY <1>1, <1>2, <1>3, <1>4 DEF WorkerStep

\* Only push() and a logger that has written it change a buffer.
LEMMA BufferSame ==
  ASSUME [Next]_vars
  PROVE  \/ UNCHANGED buffer
         \/ \E w \in Workers : Push(w)
         \/ \E l \in Loggers : WriteBuffer(l)
<1> USE DEF bufVars
<1>1. CASE UNCHANGED vars \/ Start \/ Quit \/ AdvanceEpoch
  BY <1>1 DEF vars, Start, Quit, AdvanceEpoch
<1>2. ASSUME NEW w \in Workers, WorkerStep(w), ~Push(w) PROVE UNCHANGED buffer
  BY <1>2 DEF WorkerStep, Register, PauseCheck, PausePublish, PauseRecheck,
     GetBuffer, NotReady, EpochWork, StoreCTIDW, Begin, LoadGE,
     StoreThLocalEpoch, Abort, Commit, NewCTIDW, Terminate, WorkerEnd, Join
<1>3. ASSUME NEW l \in Loggers, LoggerStep(l), ~WriteBuffer(l)
      PROVE  UNCHANGED buffer
  BY <1>3 DEF LoggerStep, OpenPepoch, StoreLogp, LogWake, LogTimeout, LogQuit,
     Scan, ScanQueue, Deq, Sync, SendNid, NotifyStep, PublishDl, LoggerEnd,
     LoggerReturns
<1> QED
  BY <1>1, <1>2, <1>3 DEF Next, Joined

\* push leaves a buffer of one epoch within its size.
LEMMA AppendedContents ==
  ASSUME NEW c \in Buffer, NEW t \in Txn, t.epoch \in 1 .. MaxEpoch,
         Blank(c) \/ (Uniform(c) /\ c.min_epoch = t.epoch),
         c.log_set_size + t.size <= LOG_BUFFER_SIZE,
         NEW n, n = Appended(c, t)
  PROVE  Uniform(n) /\ n.min_epoch = t.epoch
         /\ n.log_set_size <= LOG_BUFFER_SIZE
<1>1. /\ n.txns = (IF t.size = 0 THEN c.txns ELSE c.txns \cup {t})
      /\ n.min_epoch = Least(c.min_epoch, t.epoch)
      /\ n.max_epoch = Larger(c.max_epoch, t.epoch)
      /\ n.log_set_size = c.log_set_size + t.size /\ n.used = TRUE
  BY DEF Appended
<1>2. n.used
  BY <1>1
<1>3. MaxEpoch \in Nat /\ AllOnes = MaxEpoch + 1 /\ t.epoch \in Nat
  BY LogBoundsAssumption DEF AllOnes
<1>4. n.min_epoch = t.epoch /\ n.max_epoch = t.epoch
  BY <1>1, <1>3 DEF Blank, Uniform, Least, Larger
<1>5. \A x \in n.txns : x.epoch = t.epoch
  BY <1>1 DEF Blank, Uniform
<1> QED
  BY <1>1, <1>2, <1>4, <1>5 DEF Uniform

\* The buffer at hand is blank or of the transaction's epoch, and has room.
LEMMA PushContents ==
  ASSUME ShapeInv, OwnerInv, ContentsInv, CurrentInv, NEW w \in Workers,
         Push(w), NEW b, b = AtHand(w)
  PROVE  /\ b \in BufIds
         /\ buffer' = [buffer EXCEPT ![w][b] = Appended(@, txn[w])]
         /\ Uniform(buffer'[w][b])
         /\ buffer'[w][b].min_epoch = ThLocalEpoch[w]
         /\ buffer'[w][b].log_set_size <= LOG_BUFFER_SIZE
<1>1. /\ wpc[w] = "push" /\ Ready(w) /\ b \in BufIds
      /\ buffer' = [buffer EXCEPT ![w][b] = Appended(buffer[w][b], txn[w])]
  BY AtHandType, PushHandles DEF Push, ShapeInv
<1>2. /\ txn[w] \in Txn /\ txn[w].epoch = ThLocalEpoch[w]
      /\ txn[w].epoch \in 1 .. MaxEpoch /\ txn[w].size \in 0 .. MAX_OPE
      /\ buffer[w][b] \in Buffer
  BY <1>1, LogBoundsAssumption DEF ShapeInv, WorkerTypeOK, EpochsInv, Txn,
     BufferTypeOK
<1>3. /\ \/ Blank(buffer[w][b])
         \/ Uniform(buffer[w][b]) /\ buffer[w][b].min_epoch = txn[w].epoch
      /\ buffer[w][b].log_set_size + txn[w].size <= LOG_BUFFER_SIZE
  <2>1. CASE current[w] # 0
    <3>1. b = current[w] /\ Cur(w) = buffer[w][b]
      BY <2>1 DEF AtHand, Cur
    <3>2. CurrentOK(w) /\ (Blank(buffer[w][b]) \/ Uniform(buffer[w][b]))
      BY <1>1 DEF CurrentInv, ContentsInv
    <3> QED
      BY <1>1, <1>2, <2>1, <3>1, <3>2 DEF CurrentOK
  <2>2. CASE current[w] = 0
    <3>1. InPool(w, b)
      BY <1>1, <2>2, AtHandPlace DEF At, ShapeInv
    <3>2. Blank(buffer[w][b])
      BY <1>1, <3>1 DEF ContentsInv
    <3> QED
      BY <1>2, <3>2, SizesAssumption DEF Blank
  <2> QED
    BY <2>1, <2>2
<1>4. buffer'[w][b] = Appended(buffer[w][b], txn[w])
  BY <1>1 DEF ShapeInv, BufferTypeOK
<1>5. /\ Uniform(buffer'[w][b])
      /\ buffer'[w][b].min_epoch = txn[w].epoch
      /\ buffer'[w][b].log_set_size <= LOG_BUFFER_SIZE
  <2> DEFINE c == buffer[w][b]
             t == txn[w]
             n == buffer'[w][b]
  <2>1. /\ c \in Buffer /\ t \in Txn /\ t.epoch \in 1 .. MaxEpoch
        /\ n = Appended(c, t)
    BY <1>2, <1>4
  <2>2. /\ Blank(c) \/ (Uniform(c) /\ c.min_epoch = t.epoch)
        /\ c.log_set_size + t.size <= LOG_BUFFER_SIZE
    BY <1>3
  <2> HIDE DEF c, t, n
  <2>3. Uniform(n) /\ n.min_epoch = t.epoch /\ n.log_set_size <= LOG_BUFFER_SIZE
    BY <2>1, <2>2, AppendedContents
  <2> QED
    BY <2>3 DEF t, n
<1> QED
  BY <1>1, <1>2, <1>5

\* ContentsInv is inductive.
LEMMA ContentsStep ==
  ASSUME ShapeInv, OwnerInv, ContentsInv, CurrentInv, [Next]_vars
  PROVE  ContentsInv'
<1> SUFFICES ASSUME NEW u \in Workers, NEW x \in BufIds
             PROVE  /\ Blank(buffer'[u][x]) \/ Uniform(buffer'[u][x])
                    /\ buffer'[u][x].log_set_size <= LOG_BUFFER_SIZE
                    /\ InPool(u, x)' => Blank(buffer'[u][x])
  BY DEF ContentsInv, Blank, Uniform
<1>1. /\ Blank(buffer[u][x]) \/ Uniform(buffer[u][x])
      /\ buffer[u][x].log_set_size <= LOG_BUFFER_SIZE
      /\ InPool(u, x) => Blank(buffer[u][x])
  BY DEF ContentsInv
<1>2. ASSUME NEW l \in Loggers, NEW q, Writes(l, q)
      PROVE  /\ Blank(buffer'[u][x]) \/ Uniform(buffer'[u][x])
             /\ buffer'[u][x].log_set_size <= LOG_BUFFER_SIZE
             /\ InPool(u, x)' => Blank(buffer'[u][x])
  <2>1. /\ q.worker \in Workers /\ q.id \in BufIds
        /\ InPool(u, x)' <=> InPool(u, x) \/ <<u, x>> = <<q.worker, q.id>>
    BY <1>2, WritesPlaces DEF ShapeInv
  <2>2. CASE <<u, x>> = <<q.worker, q.id>>
    <3>1. buffer'[u][x] = Written(buffer[u][x])
      BY <1>2, <2>2 DEF Writes, ShapeInv, BufferTypeOK
    <3>2. Blank(buffer'[u][x])
      BY <3>1 DEF Written, EmptyBuffer, Blank
    <3> QED
      BY <3>2, SizesAssumption DEF Blank
  <2>3. CASE <<u, x>> # <<q.worker, q.id>>
    <3>1. buffer'[u][x] = buffer[u][x]
      BY <1>2, <2>1, <2>3 DEF Writes, ShapeInv, BufferTypeOK
    <3> QED
      BY <1>1, <2>1, <2>3, <3>1
  <2> QED
    BY <2>2, <2>3
<1>3. ASSUME NEW l \in Loggers, Deq(l) \/ Still PROVE InPool(u, x)' <=> InPool(u, x)
  BY <1>3 DEF Deq, Still, bufVars, InPool
<1>4. ASSUME NEW w \in Workers, Handles(w)
      PROVE  InPool(u, x)' => InPool(u, x) /\ <<u, x>> # <<w, AtHand(w)>>
  BY <1>4, HandlesPool DEF Handles, ShapeInv, OwnerInv
<1>5. ASSUME NEW w \in Workers, Push(w)
      PROVE  /\ Blank(buffer'[u][x]) \/ Uniform(buffer'[u][x])
             /\ buffer'[u][x].log_set_size <= LOG_BUFFER_SIZE
             /\ InPool(u, x)' => Blank(buffer'[u][x])
  <2>1. PICK b : b = AtHand(w)
    OBVIOUS
  <2>2. /\ b \in BufIds
        /\ buffer' = [buffer EXCEPT ![w][b] = Appended(@, txn[w])]
        /\ Uniform(buffer'[w][b])
        /\ buffer'[w][b].log_set_size <= LOG_BUFFER_SIZE
    BY <1>5, <2>1, PushContents
  <2>3. InPool(u, x)' => InPool(u, x) /\ <<u, x>> # <<w, b>>
    BY <1>4, <1>5, <2>1, PushHandles DEF ShapeInv
  <2>4. CASE <<u, x>> = <<w, b>>
    BY <2>2, <2>3, <2>4
  <2>5. CASE <<u, x>> # <<w, b>>
    <3>1. buffer'[u][x] = buffer[u][x]
      BY <2>2, <2>5 DEF ShapeInv, BufferTypeOK
    <3> QED
      BY <1>1, <2>3, <3>1
  <2> QED
    BY <2>4, <2>5
<1>6. CASE UNCHANGED buffer
  <2>1. \/ InPool(u, x)' => InPool(u, x)
        \/ \E l \in Loggers : WriteBuffer(l)
    BY <1>3, <1>4, BufferKinds, LoggerOfAssumption DEF ShapeInv, Still, Loggers, InPool
  <2> QED
    BY <1>1, <1>2, <1>6, <2>1, WriteBufferWrites
<1> QED
  BY <1>2, <1>5, <1>6, BufferSame, WriteBufferWrites

\* A worker keeps its current buffer as long as the others act.
LEMMA CurrentSame ==
  ASSUME NEW u \in Workers, CurrentOK(u),
         wpc'[u] = wpc[u], current'[u] = current[u], txn'[u] = txn[u],
         ThLocalEpoch'[u] = ThLocalEpoch[u], CTIDW'[u] = CTIDW[u],
         current[u] # 0 => buffer'[u][current[u]] = buffer[u][current[u]]
  PROVE  CurrentOK(u)'
BY DEF CurrentOK, Cur, Blank

\* A logger returns blank buffers and leaves the current one alone.
LEMMA LoggerCurrent ==
  ASSUME ShapeInv, OwnerInv, CurrentInv, NEW l \in Loggers, LoggerStep(l)
  PROVE  CurrentInv'
<1> SUFFICES ASSUME NEW u \in Workers PROVE CurrentOK(u)'
  BY DEF CurrentInv
<1>1. UNCHANGED <<wpc, current, txn, ThLocalEpoch, CTIDW>>
  BY LoggerStepKeeps DEF txnVars, epochVars
<1>2. ASSUME current[u] # 0
      PROVE  buffer'[u][current[u]] = buffer[u][current[u]]
  <2>1. CASE WriteBuffer(l)
    <3>1. PICK q \in batch[l] : Writes(l, q)
      BY <2>1, WriteBufferWrites
    <3>2. /\ q.worker \in Workers /\ q.id \in BufIds
          /\ current[q.worker] # q.id
      BY <3>1, WritesPlaces DEF ShapeInv
    <3>3. current[u] \in BufIds
      BY <1>2 DEF ShapeInv, BufferTypeOK
    <3> QED
      BY <3>1, <3>2, <3>3 DEF Writes, ShapeInv, BufferTypeOK
  <2>2. CASE ~WriteBuffer(l)
    BY <2>2, StillActions DEF LoggerStep, Deq, bufVars, Still
  <2> QED
    BY <2>1, <2>2
<1>3. CurrentOK(u)
  BY DEF CurrentInv
<1> QED
  BY <1>1, <1>2, <1>3, CurrentSame

\* The worker that acts.
LEMMA WorkerCurrent ==
  ASSUME ShapeInv, OwnerInv, ContentsInv, CurrentInv, NEW w \in Workers,
         WorkerStep(w)
  PROVE  CurrentOK(w)'
<1>1. CurrentOK(w)
  BY DEF CurrentInv
<1> USE <1>1 DEF CurrentOK, Cur, WGoto
<1>2. ASSUME BufferTypeOK, WorkerTypeOK,
             \/ Register(w) \/ PauseCheck(w) \/ PauseRecheck(w) \/ NotReady(w)
             \/ Begin(w) \/ LoadGE(w) \/ Abort(w)
      PROVE  CurrentOK(w)'
  BY <1>2 DEF WorkerTypeOK, Register, PauseCheck, PauseRecheck, NotReady,
     Begin, LoadGE, Abort, MainLoop, bufVars, txnVars, epochVars, Blank
<1>3. ASSUME BufferTypeOK, WorkerTypeOK, WorkerEnd(w) \/ Join(w)
      PROVE  CurrentOK(w)'
  BY <1>3 DEF WorkerTypeOK, WorkerEnd, Join, bufVars, txnVars, epochVars, Blank
<1>4. ASSUME BufferTypeOK, WorkerTypeOK, HeldInv, EpochWork(w) \/ StoreCTIDW(w)
      PROVE  CurrentOK(w)'
  BY <1>4 DEF WorkerTypeOK, HeldInv, EpochWork, StoreCTIDW, bufVars, txnVars,
     epochVars, Blank
<1>5. ASSUME BufferTypeOK, WorkerTypeOK, StoreThLocalEpoch(w) \/ NewCTIDW(w)
      PROVE  CurrentOK(w)'
  BY <1>5 DEF WorkerTypeOK, StoreThLocalEpoch, NewCTIDW, MainLoop, bufVars,
     txnVars, epochVars, Blank
<1>6. ASSUME BufferTypeOK, WorkerTypeOK, Terminate(w)
      PROVE  CurrentOK(w)'
  <2>1. CASE current[w] # 0 /\ Cur(w).used
    BY <1>6, <2>1 DEF Terminate, BufferTypeOK
  <2>2. CASE current[w] # 0 /\ ~Cur(w).used
    <3>1. Blank(Cur(w))
      BY <1>6, <2>2 DEF ContentsInv, Uniform, BufferTypeOK
    <3> QED
      BY <1>6, <2>2, <3>1 DEF Terminate, BufferTypeOK, WorkerTypeOK, txnVars,
         epochVars, Blank
  <2>3. CASE current[w] = 0
    BY <1>6, <2>3 DEF Terminate
  <2> QED
    BY <2>1, <2>2, <2>3
<1>7. ASSUME BufferTypeOK, WorkerTypeOK, PausePublish(w) \/ GetBuffer(w)
      PROVE  CurrentOK(w)'
  <2>1. PICK b \in BufIds : b = AtHand(w) /\ Ready(w)
    BY <1>7, AtHandType DEF PausePublish, GetBuffer
  <2>2. CASE current'[w] = 0
    BY <2>2
  <2>3. CASE current'[w] # 0
    <3>1. current'[w] = b /\ buffer' = buffer /\ CTIDW' = CTIDW
      BY <1>7, <2>1, <2>3 DEF PausePublish, GetBuffer, BufferTypeOK
    <3>2. Blank(buffer[w][b])
      <4>1. CASE PausePublish(w)
        <5>1. buffer[w][b].used => current' = [current EXCEPT ![w] = 0]
          BY <2>1, <4>1 DEF PausePublish
        <5>2. ~buffer[w][b].used
          BY <1>7, <2>3, <5>1 DEF BufferTypeOK
        <5> QED
          BY <5>2 DEF ContentsInv, Uniform
      <4>2. CASE GetBuffer(w)
        <5>1. InPool(w, b)
          BY <1>7, <2>1, <4>2, AtHandPlace DEF GetBuffer, At
        <5> QED
          BY <5>1 DEF ContentsInv
      <4> QED
        BY <1>7, <4>1, <4>2
    <3>3. wpc'[w] # "push"
      BY <1>7 DEF PausePublish, GetBuffer, WorkerTypeOK
    <3> QED
      BY <3>1, <3>2, <3>3 DEF Blank
  <2> QED
    BY <2>2, <2>3
<1>8. ASSUME BufferTypeOK, WorkerTypeOK, HeldInv, Commit(w)
      PROVE  CurrentOK(w)'
  <2>1. PICK n \in Sizes :
          LET t == [worker |-> w, n |-> ntx[w] + 1,
                    epoch |-> ThLocalEpoch[w], size |-> n]
          IN  /\ txn' = [txn EXCEPT ![w] = t]
              /\ IF /\ \/ Cur(w).log_set_size + n > LOG_BUFFER_SIZE
                       \/ NewEpochBegins(w)
                    /\ Cur(w).used
                 THEN current' = [current EXCEPT ![w] = 0]
                 ELSE UNCHANGED current
    BY <1>8 DEF Commit
  <2>2. CASE current'[w] = 0
    BY <2>2
  <2>3. CASE current'[w] # 0
    <3>1. /\ current'[w] = current[w] /\ current[w] \in BufIds
          /\ Blank(Cur(w)) \/ ( /\ Cur(w).log_set_size + n <= LOG_BUFFER_SIZE
                                /\ ThLocalEpoch[w] = CTIDW[w])
      <4>1. current'[w] = current[w] /\ current[w] \in BufIds
        BY <1>8, <2>1, <2>3 DEF BufferTypeOK, HeldInv, Commit
      <4>2. CASE ~Cur(w).used
        BY <4>1, <4>2 DEF ContentsInv, Uniform
      <4>3. CASE Cur(w).used
        <5>1. current' # [current EXCEPT ![w] = 0]
          BY <1>8, <2>3 DEF BufferTypeOK
        <5>2. ~(Cur(w).log_set_size + n > LOG_BUFFER_SIZE) /\ ~NewEpochBegins(w)
          BY <2>1, <4>3, <5>1
        <5>3. Cur(w).log_set_size \in Nat /\ n \in Nat /\ LOG_BUFFER_SIZE \in Nat
          BY <1>8, <4>1, SizesAssumption DEF BufferTypeOK, Buffer
        <5> QED
          BY <4>1, <5>2, <5>3 DEF NewEpochBegins
      <4> QED
        BY <4>1, <4>2, <4>3
    <3>2. /\ wpc[w] = "valid" /\ wpc'[w] = "push" /\ txn'[w].size = n
          /\ UNCHANGED <<buffer, ThLocalEpoch>>
      BY <1>8, <2>1 DEF Commit, WorkerTypeOK, epochVars
    <3>3. n <= LOG_BUFFER_SIZE /\ n \in Nat
      BY SizesAssumption
    <3> QED
      BY <1>8, <3>1, <3>2, <3>3 DEF Blank
  <2> QED
    BY <2>2, <2>3
<1>9. ASSUME BufferTypeOK, WorkerTypeOK, Push(w)
      PROVE  CurrentOK(w)'
  <2>1. PICK b : b = AtHand(w)
    OBVIOUS
  <2>2. b \in BufIds /\ buffer'[w][b].min_epoch = ThLocalEpoch[w]
    BY <1>9, <2>1, PushContents
  <2>3. /\ wpc'[w] = "newCTIDW" /\ UNCHANGED ThLocalEpoch
        /\ current'[w] = 0 \/ current'[w] = b
    BY <1>9, <2>1 DEF Push, WorkerTypeOK, BufferTypeOK, epochVars
  <2> QED
    BY <2>2, <2>3
<1> QED
  BY <1>2, <1>3, <1>4, <1>5, <1>6, <1>7, <1>8, <1>9 DEF WorkerStep, ShapeInv

\* CurrentInv is inductive.
LEMMA CurrentStep ==
  ASSUME ShapeInv, OwnerInv, ContentsInv, CurrentInv, [Next]_vars
  PROVE  CurrentInv'
<1>1. CASE UNCHANGED vars \/ Quit \/ AdvanceEpoch
  <2>1. UNCHANGED <<wpc, current, buffer, txn, ThLocalEpoch, CTIDW>>
    BY <1>1 DEF vars, Quit, AdvanceEpoch, bufVars, txnVars, epochVars
  <2> QED
    BY <2>1, CurrentSame DEF CurrentInv
<1>2. CASE Start
  <2>1. /\ UNCHANGED <<current, buffer, txn, ThLocalEpoch, CTIDW>>
        /\ \A u \in Workers : wpc[u] = "ready" /\ wpc'[u] \in {"check", "loop"}
    BY <1>2 DEF Start, MainLoop, bufVars, txnVars, epochVars
  <2> QED
    BY <2>1 DEF CurrentInv, CurrentOK, Cur, Blank
<1>3. ASSUME NEW w \in Workers, WorkerStep(w) PROVE CurrentInv'
  <2> SUFFICES ASSUME NEW u \in Workers, u # w PROVE CurrentOK(u)'
    BY <1>3, WorkerCurrent DEF CurrentInv
  <2> QED
    BY <1>3, OtherWorkers, CurrentSame DEF CurrentInv, ShapeInv
<1> QED
  BY <1>1, <1>2, <1>3, LoggerCurrent DEF Next, Joined

LogInv == OwnerInv /\ ContentsInv /\ CurrentInv

\* Buffers are blank at first.
LEMMA InitContents == Init => ContentsInv /\ CurrentInv
<1> SUFFICES ASSUME Init PROVE ContentsInv /\ CurrentInv
  OBVIOUS
<1>1. \A w \in Workers, b \in BufIds : Blank(buffer[w][b]) /\ buffer[w][b].log_set_size = 0
  BY DEF Init, EmptyBuffer, Blank
<1>2. \A w \in Workers : current[w] \in BufIds /\ wpc[w] = "new"
  BY SizesAssumption DEF Init, BufIds
<1> QED
  BY <1>1, <1>2, SizesAssumption DEF ContentsInv, CurrentInv, CurrentOK, Cur

\* Places and contents of buffers, of every behaviour.
LEMMA LogInvariant == Spec => [](BaseInv /\ LogInv)
<1>1. BaseInv /\ LogInv /\ [Next]_vars => (BaseInv /\ LogInv)'
  BY BaseStep, OwnerStep, ContentsStep, CurrentStep DEF BaseInv, LogInv
<1>2. Init => BaseInv /\ LogInv
  BY InitBase, InitOwner, InitContents DEF LogInv
<1> QED
  BY <1>1, <1>2, PTL DEF Spec

\* The records in a buffer are of one epoch, that of the buffer and of its
\* place in the queue: push() publishes the buffer first when a new epoch has
\* begun, and wal() and the pause keep CTIDW in step.
THEOREM OneEpochPerBuffer == Spec => []SingleEpochBuffers
<1>1. BaseInv /\ LogInv => SingleEpochBuffers
  <2> SUFFICES ASSUME BaseInv, LogInv, NEW w \in Workers, NEW b \in BufIds
               PROVE
        LET c == buffer[w][b]
        IN  /\ c.min_epoch <= c.max_epoch => c.min_epoch = c.max_epoch
            /\ \A t \in c.txns : t.epoch = c.min_epoch
            /\ \A l \in Loggers : \A q \in queue[l] :
                 q.worker = w /\ q.id = b => q.key = c.min_epoch
    BY DEF SingleEpochBuffers, Bufs
  <2>1. Blank(buffer[w][b]) \/ Uniform(buffer[w][b])
    BY DEF LogInv, ContentsInv
  <2>2. AllOnes \in Nat \ {0}
    BY LogBoundsAssumption DEF AllOnes
  <2>3. \A l \in Loggers : \A q \in queue[l] :
          q.key = buffer[q.worker][q.id].min_epoch
    BY DEF LogInv, OwnerInv, FiledInv
  <2> QED
    BY <2>1, <2>2, <2>3 DEF Blank, Uniform
<1> QED
  BY <1>1, LogInvariant, PTL

\* No buffer is filled past LOG_BUFFER_SIZE.
THEOREM BuffersFit == Spec => []NoOverflow
<1>1. LogInv => NoOverflow
  BY DEF LogInv, ContentsInv, NoOverflow, Bufs
<1> QED
  BY <1>1, LogInvariant, PTL

-----------------------------------------------------------------------------
(* The log records of a transaction are in one place.                      *)

Homes == {0} \cup BufIds

\* Place 0 is the worker that is about to push them.
Here(t, p) ==
  IF p = 0 THEN wpc[t.worker] = "push" /\ txn[t.worker] = t
  ELSE t \in buffer[t.worker][p].txns

HomeOK(t) ==
  IF t \in file[LoggerOf[t.worker]] THEN \A p \in Homes : ~Here(t, p)
  ELSE \E p \in Homes : \A q \in Homes : Here(t, q) <=> q = p

\* The transactions of a worker are numbered; what is in its buffers and in
\* the file of its logger is its own, and has been committed.
TxnsInv ==
  /\ \A w \in Workers : wpc[w] = "push" => txn[w] \in committed
  /\ \A t \in committed : t.n <= ntx[t.worker]
  /\ \A w \in Workers, b \in BufIds : \A t \in buffer[w][b].txns :
       t \in committed /\ t.worker = w /\ t.size > 0
  /\ \A l \in Loggers : \A t \in file[l] :
       t \in committed /\ LoggerOf[t.worker] = l /\ t.size > 0

HomeInv == TxnsInv /\ \A t \in committed : t.size > 0 => HomeOK(t)

\* A step that moves no records.
HomeSame ==
  /\ UNCHANGED <<buffer, file, committed, ntx>>
  /\ \A u \in Workers :
       /\ wpc'[u] = "push" <=> wpc[u] = "push"
       /\ wpc[u] = "push" => txn'[u] = txn[u]

\* Transactions and their records move in Commit, Push and WriteBuffer only.
LEMMA HomeKinds ==
  ASSUME WorkerTypeOK, [Next]_vars
  PROVE  \/ HomeSame
         \/ \E w \in Workers : Commit(w) \/ Push(w)
         \/ \E l \in Loggers : WriteBuffer(l)
<1> USE DEF HomeSame, WorkerTypeOK, bufVars, txnVars, logVars, fileVars, WGoto
<1>1. CASE UNCHANGED vars \/ Start \/ Quit \/ AdvanceEpoch
  BY <1>1 DEF vars, Start, Quit, AdvanceEpoch, MainLoop
<1>2. ASSUME NEW w \in Workers,
             \/ Register(w) \/ PauseCheck(w) \/ PausePublish(w)
             \/ PauseRecheck(w) \/ GetBuffer(w) \/ NotReady(w)
      PROVE  HomeSame
  BY <1>2 DEF Register, PauseCheck, PausePublish, PauseRecheck, GetBuffer,
     NotReady
<1>3. ASSUME NEW w \in Workers,
             \/ EpochWork(w) \/ StoreCTIDW(w) \/ Begin(w) \/ LoadGE(w)
             \/ StoreThLocalEpoch(w) \/ Abort(w)
      PROVE  HomeSame
  BY <1>3 DEF EpochWork, StoreCTIDW, Begin, LoadGE, StoreThLocalEpoch, Abort,
     MainLoop
<1>4. ASSUME NEW w \in Workers,
             NewCTIDW(w) \/ Terminate(w) \/ WorkerEnd(w) \/ Join(w)
      PROVE  HomeSame
  BY <1>4 DEF NewCTIDW, Terminate, Leaving, WorkerEnd, Join, MainLoop
<1>5. ASSUME NEW l \in Loggers, LoggerStep(l), ~WriteBuffer(l)
      PROVE  HomeSame
  <2>1. UNCHANGED <<wpc, txn, committed, ntx>>
    BY <1>5, LoggerStepKeeps
  <2>2. UNCHANGED <<buffer, file>>
    BY <1>5 DEF LoggerStep, OpenPepoch, StoreLogp, LogWake, LogTimeout,
       LogQuit, Scan, ScanQueue, Deq, Sync, SendNid, NotifyStep, PublishDl,
       LoggerEnd, LoggerReturns
  <2> QED
    BY <2>1, <2>2
<1> QED
  BY <1>1, <1>2, <1>3, <1>4, <1>5 DEF Next, Joined, WorkerStep

\* Every other step leaves each committed transaction where it was.
LEMMA HomeSameKeeps ==
  ASSUME WorkerTypeOK, HomeInv, HomeSame
  PROVE  HomeInv'
<1>1. TxnsInv'
  BY DEF HomeSame, HomeInv, TxnsInv
<1>2. ASSUME NEW t \in committed, NEW p \in Homes
      PROVE  Here(t, p)' <=> Here(t, p)
  BY DEF HomeSame, WorkerTypeOK, Here, Txn
<1>3. ASSUME NEW t \in committed, HomeOK(t) PROVE HomeOK(t)'
  BY <1>2, <1>3 DEF HomeSame, HomeOK
<1> QED
  BY <1>1, <1>3 DEF HomeSame, HomeInv

\* A committed transaction is at first with its worker alone.
LEMMA CommitHome ==
  ASSUME ShapeInv, HomeInv, NEW w \in Workers, Commit(w)
  PROVE  HomeInv'
<1>1. PICK n \in Sizes :
        LET t == [worker |-> w, n |-> ntx[w] + 1,
                  epoch |-> ThLocalEpoch[w], size |-> n]
        IN  txn' = [txn EXCEPT ![w] = t] /\ committed' = committed \cup {t}
  BY DEF Commit
<1>2. PICK t : t = [worker |-> w, n |-> ntx[w] + 1,
                    epoch |-> ThLocalEpoch[w], size |-> n]
  OBVIOUS
<1>3. /\ txn' = [txn EXCEPT ![w] = t] /\ committed' = committed \cup {t}
      /\ t.worker = w /\ t.n = ntx[w] + 1 /\ ntx[w] \in Nat
      /\ UNCHANGED <<buffer, file>> /\ wpc[w] = "valid"
      /\ wpc' = [wpc EXCEPT ![w] = "push"] /\ ntx' = [ntx EXCEPT ![w] = @ + 1]
  BY <1>1, <1>2 DEF Commit, WGoto, logVars, fileVars, ShapeInv, WorkerTypeOK
<1>4. t \notin committed
  BY <1>3 DEF HomeInv, TxnsInv
<1>5. /\ \A u \in Workers, b \in BufIds : t \notin buffer[u][b].txns
      /\ \A l \in Loggers : t \notin file[l]
  BY <1>4 DEF HomeInv, TxnsInv
<1>6. \A x \in committed : x \in Txn /\ x.worker \in Workers /\ x.n \in Nat
  BY DEF ShapeInv, WorkerTypeOK, Txn
<1>7. TxnsInv'
  <2>1. \A u \in Workers : wpc'[u] = "push" => txn'[u] \in committed'
    BY <1>3 DEF HomeInv, TxnsInv, ShapeInv, WorkerTypeOK
  <2>2. \A x \in committed' : x.n <= ntx'[x.worker]
    BY <1>3, <1>6 DEF HomeInv, TxnsInv, ShapeInv, WorkerTypeOK
  <2> QED
    BY <1>3, <2>1, <2>2 DEF HomeInv, TxnsInv
<1>8. ASSUME NEW x \in committed, x.size > 0 PROVE HomeOK(x)'
  <2>1. \A p \in Homes : Here(x, p)' <=> Here(x, p)
    BY <1>3, <1>4, <1>6 DEF Here, ShapeInv, WorkerTypeOK
  <2>2. HomeOK(x)
    BY <1>8 DEF HomeInv
  <2> QED
    BY <1>3, <2>1, <2>2 DEF HomeOK
<1>9. HomeOK(t)'
  <2>1. \A p \in Homes : Here(t, p)' <=> p = 0
    BY <1>3, <1>5 DEF Here, Homes, ShapeInv, WorkerTypeOK
  <2>2. t \notin file'[LoggerOf[t.worker]]
    BY <1>3, <1>5, LoggerOfAssumption
  <2>3. 0 \in Homes
    BY DEF Homes
  <2> QED
    BY <2>1, <2>2, <2>3 DEF HomeOK
<1> QED
  BY <1>3, <1>7, <1>8, <1>9 DEF HomeInv

\* push() moves the records of its transaction into the buffer at hand.
LEMMA PushHome ==
  ASSUME ShapeInv, HomeInv, NEW w \in Workers, Push(w)
  PROVE  HomeInv'
<1>1. PICK b \in BufIds : b = AtHand(w)
  BY AtHandType DEF Push, ShapeInv
<1>2. PICK t : t = txn[w]
  OBVIOUS
<1>3. /\ wpc[w] = "push" /\ wpc' = [wpc EXCEPT ![w] = "newCTIDW"]
      /\ UNCHANGED <<txn, ntx, committed, file>>
      /\ buffer' = [buffer EXCEPT ![w][b] = Appended(buffer[w][b], t)]
  BY <1>1, <1>2, PushHandles DEF Push, WGoto, txnVars, logVars, fileVars,
     ShapeInv
<1>4. t \in committed /\ t \in Txn /\ t.worker = w /\ t.size \in Nat
  BY <1>2, <1>3, SizesAssumption DEF HomeInv, TxnsInv, ShapeInv, EpochsInv,
     WorkerTypeOK, Txn
<1>5. /\ buffer'[w][b].txns =
           IF t.size = 0 THEN buffer[w][b].txns ELSE buffer[w][b].txns \cup {t}
      /\ \A u \in Workers, x \in BufIds :
           <<u, x>> # <<w, b>> => buffer'[u][x] = buffer[u][x]
  BY <1>3 DEF Appended, ShapeInv, BufferTypeOK
<1>6. TxnsInv'
  <2>1. \A u \in Workers : wpc'[u] = "push" => txn'[u] \in committed'
    BY <1>3 DEF HomeInv, TxnsInv, ShapeInv, WorkerTypeOK
  <2>2. \A u \in Workers, x \in BufIds : \A y \in buffer'[u][x].txns :
          y \in committed /\ y.worker = u /\ y.size > 0
    BY <1>4, <1>5 DEF HomeInv, TxnsInv
  <2> QED
    BY <1>3, <2>1, <2>2 DEF HomeInv, TxnsInv
<1>7. \A x \in committed : x.worker \in Workers
  BY DEF ShapeInv, WorkerTypeOK, Txn
<1>8. ASSUME NEW x \in committed, x.size > 0, x # t PROVE HomeOK(x)'
  <2>1. \A p \in Homes : Here(x, p)' <=> Here(x, p)
    BY <1>2, <1>3, <1>5, <1>7, <1>8 DEF Here, Homes, ShapeInv, WorkerTypeOK
  <2>2. HomeOK(x)
    BY <1>8 DEF HomeInv
  <2> QED
    BY <1>3, <2>1, <2>2 DEF HomeOK
<1>9. ASSUME t.size > 0 PROVE HomeOK(t)'
  <2>1. HomeOK(t) /\ Here(t, 0) /\ 0 \in Homes
    BY <1>2, <1>3, <1>4, <1>9 DEF HomeInv, Here, Homes
  <2>2. t \notin file[LoggerOf[w]] /\ \A p \in BufIds : p # 0 => ~Here(t, p)
    BY <1>4, <2>1 DEF HomeOK, Homes
  <2>3. b # 0 /\ 0 \notin BufIds
    BY DEF BufIds
  <2>4. \A p \in Homes : Here(t, p)' <=> p = b
    BY <1>3, <1>4, <1>5, <1>9, <2>2, <2>3 DEF Here, Homes, ShapeInv,
       WorkerTypeOK
  <2>5. b \in Homes
    BY DEF Homes
  <2> QED
    BY <1>3, <1>4, <2>2, <2>4, <2>5 DEF HomeOK
<1> QED
  BY <1>3, <1>6, <1>8, <1>9 DEF HomeInv

\* The logger moves the records of the buffer into its file.
LEMMA WritesHome ==
  ASSUME ShapeInv, OwnerInv, HomeInv, NEW l \in Loggers, WriteBuffer(l)
  PROVE  HomeInv'
<1>1. PICK q \in batch[l] : Writes(l, q)
  BY WriteBufferWrites
<1>2. PICK w, b : w = q.worker /\ b = q.id
  OBVIOUS
<1>3. w \in Workers /\ b \in BufIds /\ LoggerOf[w] = l
  BY <1>1, <1>2, WritesPlaces DEF ShapeInv
<1>4. /\ UNCHANGED <<wpc, txn, ntx, committed>>
      /\ file' = [file EXCEPT ![l] = @ \cup buffer[w][b].txns]
      /\ buffer' = [buffer EXCEPT ![w][b] = Written(@)]
  BY <1>1, <1>2 DEF WriteBuffer, Writes, txnVars
<1>5. /\ buffer'[w][b].txns = {}
      /\ \A u \in Workers, x \in BufIds :
           <<u, x>> # <<w, b>> => buffer'[u][x] = buffer[u][x]
  BY <1>3, <1>4 DEF Written, EmptyBuffer, ShapeInv, BufferTypeOK
<1>6. /\ file'[l] = file[l] \cup buffer[w][b].txns
      /\ \A k \in Loggers \ {l} : file'[k] = file[k]
  BY <1>4 DEF ShapeInv, BufferTypeOK
<1>7. \A t \in buffer[w][b].txns : t \in committed /\ t.worker = w /\ t.size > 0
  BY <1>3 DEF HomeInv, TxnsInv
<1>8. TxnsInv'
  <2>1. \A u \in Workers, x \in BufIds : \A y \in buffer'[u][x].txns :
          y \in committed /\ y.worker = u /\ y.size > 0
    BY <1>5 DEF HomeInv, TxnsInv
  <2>2. \A k \in Loggers : \A t \in file'[k] :
          t \in committed /\ LoggerOf[t.worker] = k /\ t.size > 0
    BY <1>3, <1>6, <1>7 DEF HomeInv, TxnsInv
  <2> QED
    BY <1>4, <2>1, <2>2 DEF HomeInv, TxnsInv
<1>9. ASSUME NEW t \in committed, t.size > 0 PROVE HomeOK(t)'
  <2>1. HomeOK(t) /\ t.worker \in Workers /\ LoggerOf[t.worker] \in Loggers
    BY <1>9, LoggerOfAssumption DEF HomeInv, ShapeInv, WorkerTypeOK, Txn
  <2>2. 0 \notin BufIds
    BY DEF BufIds
  <2>3. CASE t \in buffer[w][b].txns
    <3>1. t.worker = w /\ Here(t, b) /\ b \in Homes
      BY <1>3, <1>7, <2>2, <2>3 DEF Here, Homes
    <3>2. \A p \in Homes : Here(t, p) => p = b
      BY <2>1, <3>1 DEF HomeOK
    <3>3. \A p \in Homes : Here(t, p)' => Here(t, p) /\ p # b
      BY <1>3, <1>4, <1>5, <2>2, <3>1 DEF Here, Homes
    <3>4. t \in file'[LoggerOf[t.worker]]
      BY <1>3, <1>6, <2>3, <3>1
    <3> QED
      BY <3>2, <3>3, <3>4 DEF HomeOK
  <2>4. CASE t \notin buffer[w][b].txns
    <3>1. \A p \in Homes : Here(t, p)' <=> Here(t, p)
      BY <1>3, <1>4, <1>5, <2>1, <2>4 DEF Here, Homes
    <3>2. t \in file'[LoggerOf[t.worker]] <=> t \in file[LoggerOf[t.worker]]
      BY <1>6, <2>1, <2>4
    <3> QED
      BY <2>1, <3>1, <3>2 DEF HomeOK
  <2> QED
    BY <2>3, <2>4
<1> QED
  BY <1>4, <1>8, <1>9 DEF HomeInv

\* HomeInv is inductive.
LEMMA HomeStep ==
  ASSUME ShapeInv, OwnerInv, HomeInv, [Next]_vars
  PROVE  HomeInv'
BY HomeKinds, HomeSameKeeps, CommitHome, PushHome, WritesHome DEF ShapeInv

\* HomeInv, of every behaviour.
LEMMA HomeInvariant == Spec => [](BaseInv /\ LogInv /\ HomeInv)
<1>1. BaseInv /\ OwnerInv /\ HomeInv /\ [Next]_vars => HomeInv'
  BY HomeStep DEF BaseInv
<1>2. Init => HomeInv
  BY DEF Init, EmptyBuffer, HomeInv, TxnsInv
<1> QED
  BY <1>1, <1>2, LogInvariant, PTL DEF Spec, LogInv

\* No log record is lost or written twice between wal() and the log file: the
\* worker is about to push it, or one buffer has it, or the file of its logger.
THEOREM RecordsLoggedOnce == Spec => []LoggedOnce
<1>1. HomeInv => LoggedOnce
  <2> SUFFICES ASSUME HomeInv, NEW t \in committed, t.size > 0
               PROVE
        LET w == t.worker
            here == {p \in {0} \cup BufIds :
                       IF p = 0 THEN wpc[w] = "push" /\ txn[w] = t
                       ELSE t \in buffer[w][p].txns}
        IN  IF t \in file[LoggerOf[w]] THEN here = {}
            ELSE Cardinality(here) = 1
    BY DEF LoggedOnce
  <2> DEFINE here == {p \in Homes : Here(t, p)}
  <2>1. HomeOK(t)
    BY DEF HomeInv
  <2>2. t \in file[LoggerOf[t.worker]] => here = {}
    BY <2>1 DEF HomeOK
  <2>3. t \notin file[LoggerOf[t.worker]] => \E p : here = {p}
    BY <2>1 DEF HomeOK
  <2>4. t \notin file[LoggerOf[t.worker]] => Cardinality(here) = 1
    BY <2>3, FS_Singleton
  <2> QED
    BY <2>2, <2>4 DEF Here, Homes
<1> QED
  BY <1>1, HomeInvariant, PTL

-----------------------------------------------------------------------------
(* The threads end in order.                                               *)

\* The workers start together and leave after quit; a logger's queue is
\* stopped by the last of its workers, and the logger then ends with nothing
\* left in it, before any of them returns.
StartedInv ==
  /\ \A w, u \in Workers :
       wpc[w] \in {"new", "ready"} => wpc[u] \in {"new", "ready"}
  /\ \A w \in Workers :
       /\ wpc[w] \in {"leave", "term", "join", "done"} => quit
       /\ quit => wpc[w] \notin {"new", "ready"}

RegisteredInv ==
  \A l \in Loggers, w \in Workers :
    w \in thid_set[l]
      <=> LoggerOf[w] = l /\ wpc[w] \notin {"new", "join", "done"}

EndInv ==
  \A w \in Workers :
    /\ queue_quit[LoggerOf[w]] => wpc[w] \in {"join", "done"}
    /\ wpc[w] = "done" => lpc[LoggerOf[w]] \in {"done", "gone"}

QuitInv ==
  \A l \in Loggers : lpc[l] \in {"final", "done", "gone"} =>
    queue_quit[l] /\ queue[l] = {}

LifeInv == StartedInv /\ RegisteredInv /\ EndInv /\ QuitInv

\* A step of a worker between its start and its end.
Running(w) ==
  /\ UNCHANGED <<thid_set, queue_quit, quit, lpc>>
  /\ wpc[w] \notin {"new", "ready", "term", "join", "done"}
  /\ \E label \in WorkerLabels \ {"new", "ready", "join", "done"} :
       /\ wpc' = [wpc EXCEPT ![w] = label]
       /\ label \in {"leave", "term"} => quit
  /\ \/ UNCHANGED queue
     \/ \E b \in BufIds, c \in Buffer : queue' = Enqueued(w, b, c)

\* A worker's step adds at most one entry to a queue.
LEMMA HandlesQueue ==
  ASSUME BufferTypeOK, NEW w \in Workers, Handles(w) \/ Still
  PROVE  \/ UNCHANGED queue
         \/ \E b \in BufIds, c \in Buffer : queue' = Enqueued(w, b, c)
<1>1. CASE Still
  BY <1>1 DEF Still
<1>2. CASE Handles(w)
  <2>1. PICK b \in BufIds : b = AtHand(w)
    BY <1>2, AtHandType DEF Handles
  <2>2. PICK c \in Buffer : buffer' = [buffer EXCEPT ![w][b] = c]
    BY <1>2, <2>1 DEF Handles
  <2>3. buffer'[w][b] = c
    BY <2>2 DEF BufferTypeOK
  <2> QED
    BY <1>2, <2>1, <2>3 DEF Handles
<1> QED
  BY <1>1, <1>2

\* Which steps a worker takes between its start and its end.
LEMMA RunningSteps ==
  ASSUME ShapeInv, StartedInv, NEW w \in Workers,
         \/ PauseCheck(w) \/ PausePublish(w) \/ PauseRecheck(w)
         \/ GetBuffer(w) \/ NotReady(w) \/ EpochWork(w) \/ StoreCTIDW(w)
         \/ Begin(w) \/ LoadGE(w) \/ StoreThLocalEpoch(w) \/ Abort(w)
         \/ Commit(w) \/ Push(w) \/ NewCTIDW(w) \/ Terminate(w)
  PROVE  Running(w)
<1> USE DEF WGoto, endVars, logVars, bufVars, WorkerLabels
<1>1. ASSUME \/ PauseCheck(w) \/ PauseRecheck(w) \/ NotReady(w) \/ EpochWork(w)
             \/ StoreCTIDW(w)
      PROVE  Running(w)
  BY <1>1 DEF Running, PauseCheck, PauseRecheck, NotReady, EpochWork,
     StoreCTIDW
<1>2. ASSUME \/ Begin(w) \/ LoadGE(w) \/ StoreThLocalEpoch(w) \/ Abort(w)
             \/ NewCTIDW(w)
      PROVE  Running(w)
  BY <1>2 DEF Running, Begin, LoadGE, StoreThLocalEpoch, Abort, NewCTIDW,
     MainLoop
<1>3. ASSUME \/ PausePublish(w) \/ GetBuffer(w) \/ Commit(w) \/ Push(w)
             \/ Terminate(w)
      PROVE  Running(w)
  <2>1. \/ UNCHANGED queue
        \/ \E b \in BufIds, c \in Buffer : queue' = Enqueued(w, b, c)
    BY <1>3, WorkerHandles, HandlesQueue DEF ShapeInv
  <2>2. CASE PausePublish(w) \/ Commit(w) \/ Push(w)
    BY <2>1, <2>2 DEF Running, PausePublish, Commit, Push
  <2>3. CASE GetBuffer(w)
    <3>1. wpc' = [wpc EXCEPT ![w] = "loop"] /\ wpc[w] = "loop"
      BY <2>3 DEF GetBuffer, ShapeInv, WorkerTypeOK
    <3> QED
      BY <2>1, <2>3, <3>1 DEF Running, GetBuffer
  <2>4. CASE Terminate(w)
    <3>1. wpc[w] \in {"leave", "loop"} /\ quit
      BY <2>4 DEF Terminate, Leaving, StartedInv
    <3> QED
      BY <2>1, <2>4, <3>1 DEF Running, Terminate
  <2> QED
    BY <1>3, <2>2, <2>3, <2>4
<1> QED
  BY <1>1, <1>2, <1>3

\* None of them concerns the life of a thread.
LEMMA RunningKeeps ==
  ASSUME ShapeInv, LifeInv, NEW w \in Workers, Running(w)
  PROVE  LifeInv'
<1> USE DEF LifeInv
<1>1. wpc \in [Workers -> WorkerLabels]
  BY DEF ShapeInv, WorkerTypeOK
<1>2. PICK label \in WorkerLabels \ {"new", "ready", "join", "done"} :
        /\ wpc' = [wpc EXCEPT ![w] = label]
        /\ label \in {"leave", "term"} => quit
  BY DEF Running
<1>3. wpc[w] \notin {"new", "ready", "term", "join", "done"}
  BY DEF Running
<1>4. StartedInv'
  BY <1>1, <1>2, <1>3 DEF Running, StartedInv
<1>5. RegisteredInv'
  BY <1>1, <1>2, <1>3 DEF Running, RegisteredInv
<1>6. EndInv'
  BY <1>1, <1>2, <1>3 DEF Running, EndInv
<1>7. QuitInv'
  <2> SUFFICES ASSUME NEW l \in Loggers, lpc[l] \in {"final", "done", "gone"}
               PROVE  queue'[l] = {}
    BY DEF Running, QuitInv
  <2>1. queue[l] = {} /\ queue_quit[l]
    BY DEF QuitInv
  <2>2. LoggerOf[w] # l
    BY <1>3, <2>1 DEF EndInv
  <2> QED
    BY <2>1, <2>2 DEF Running, Enqueued, ShapeInv, BufferTypeOK
<1> QED
  BY <1>4, <1>5, <1>6, <1>7

\* worker_end: the last worker of a logger ends its queue.
LEMMA WorkerEndKeeps ==
  ASSUME ShapeInv, LifeInv, NEW w \in Workers, WorkerEnd(w)
  PROVE  LifeInv'
<1> USE DEF LifeInv
<1>1. /\ wpc \in [Workers -> WorkerLabels]
      /\ thid_set \in [Loggers -> SUBSET Workers]
      /\ queue_quit \in [Loggers -> BOOLEAN] /\ LoggerOf[w] \in Loggers
  BY LoggerOfAssumption DEF ShapeInv, WorkerTypeOK, LoggerTypeOK
<1>2. /\ wpc[w] = "term" /\ wpc' = [wpc EXCEPT ![w] = "join"]
      /\ thid_set' = [thid_set EXCEPT ![LoggerOf[w]] = @ \ {w}]
      /\ UNCHANGED <<quit, lpc, queue>>
  BY DEF WorkerEnd, WGoto, logVars
<1>3. /\ queue_quit'[LoggerOf[w]] <=> thid_set'[LoggerOf[w]] = {}
      /\ \A l \in Loggers \ {LoggerOf[w]} : queue_quit'[l] = queue_quit[l]
  BY <1>1 DEF WorkerEnd
<1>4. StartedInv'
  BY <1>1, <1>2 DEF StartedInv
<1>5. RegisteredInv'
  BY <1>1, <1>2 DEF RegisteredInv
<1>6. EndInv'
  <2> SUFFICES ASSUME NEW u \in Workers
               PROVE  /\ queue_quit'[LoggerOf[u]] => wpc'[u] \in {"join", "done"}
                      /\ wpc'[u] = "done" => lpc[LoggerOf[u]] \in {"done", "gone"}
    BY <1>2 DEF EndInv
  <2>1. LoggerOf[u] \in Loggers
    BY LoggerOfAssumption
  <2>2. wpc'[u] = "done" => lpc[LoggerOf[u]] \in {"done", "gone"}
    BY <1>1, <1>2 DEF EndInv
  <2>3. CASE LoggerOf[u] # LoggerOf[w]
    BY <1>1, <1>2, <1>3, <2>1, <2>2, <2>3 DEF EndInv
  <2>4. ASSUME LoggerOf[u] = LoggerOf[w], thid_set'[LoggerOf[w]] = {}
        PROVE  wpc'[u] \in {"join", "done"}
    <3>1. wpc'[u] \in {"new", "join", "done"}
      BY <1>1, <1>5, <2>4 DEF RegisteredInv
    <3>2. wpc'[u] # "new"
      BY <1>2, <1>1 DEF StartedInv
    <3> QED
      BY <3>1, <3>2
  <2> QED
    BY <1>3, <2>2, <2>3, <2>4
<1>7. QuitInv'
  <2>1. ~queue_quit[LoggerOf[w]]
    BY <1>2 DEF EndInv
  <2>2. lpc[LoggerOf[w]] \notin {"final", "done", "gone"}
    BY <1>1, <2>1 DEF QuitInv
  <2> QED
    BY <1>2, <1>3, <2>2 DEF QuitInv
<1> QED
  BY <1>4, <1>5, <1>6, <1>7

\* A worker registers before it starts, and returns after its logger is done.
LEMMA RegisterJoinKeeps ==
  ASSUME ShapeInv, LifeInv, NEW w \in Workers, Register(w) \/ Join(w)
  PROVE  LifeInv'
<1> USE DEF LifeInv
<1>1. /\ wpc \in [Workers -> WorkerLabels]
      /\ thid_set \in [Loggers -> SUBSET Workers] /\ LoggerOf[w] \in Loggers
  BY LoggerOfAssumption DEF ShapeInv, WorkerTypeOK, LoggerTypeOK
<1>2. UNCHANGED <<quit, lpc, queue, queue_quit>>
  BY DEF Register, Join, logVars, endVars
<1>3. CASE Register(w)
  <2>1. /\ wpc[w] = "new" /\ wpc' = [wpc EXCEPT ![w] = "ready"]
        /\ thid_set' = [thid_set EXCEPT ![LoggerOf[w]] = @ \cup {w}]
    BY <1>3 DEF Register, WGoto
  <2>2. StartedInv'
    BY <1>1, <1>2, <2>1 DEF StartedInv
  <2>3. RegisteredInv'
    BY <1>1, <2>1 DEF RegisteredInv
  <2>4. EndInv' /\ QuitInv'
    BY <1>1, <1>2, <2>1 DEF EndInv, QuitInv
  <2> QED
    BY <2>2, <2>3, <2>4
<1>4. CASE Join(w)
  <2>1. /\ wpc[w] = "join" /\ wpc' = [wpc EXCEPT ![w] = "done"]
        /\ lpc[LoggerOf[w]] \in {"done", "gone"} /\ UNCHANGED thid_set
    BY <1>4 DEF Join, WGoto, endVars
  <2>2. StartedInv'
    BY <1>1, <1>2, <2>1 DEF StartedInv
  <2>3. RegisteredInv'
    BY <1>1, <2>1 DEF RegisteredInv
  <2>4. EndInv' /\ QuitInv'
    BY <1>1, <1>2, <2>1 DEF EndInv, QuitInv
  <2> QED
    BY <2>2, <2>3, <2>4
<1> QED
  BY <1>3, <1>4

\* A logger ends after its last worker and an empty queue.
LEMMA LoggerLife ==
  ASSUME ShapeInv, LifeInv, NEW l \in Loggers, LoggerStep(l)
  PROVE  LifeInv'
<1> USE DEF LifeInv
<1>1. UNCHANGED <<wpc, quit, thid_set, queue_quit>>
  BY LoggerStepKeeps
<1>2. StartedInv' /\ RegisteredInv'
  BY <1>1 DEF StartedInv, RegisteredInv
<1>3. lpc \in [Loggers -> LoggerLabels] /\ queue \in [Loggers -> SUBSET Queued]
  BY DEF ShapeInv, LoggerTypeOK, BufferTypeOK
<1>4. /\ \A k \in Loggers \ {l} : lpc'[k] = lpc[k] /\ queue'[k] = queue[k]
      /\ lpc[l] \in {"done", "gone"} => lpc'[l] \in {"done", "gone"}
      /\ lpc'[l] \in {"final", "done", "gone"} =>
           /\ queue'[l] = queue[l]
           /\ \/ lpc[l] \in {"final", "done", "gone"}
              \/ queue[l] = {} /\ queue_quit[l]
  <2> USE <1>3 DEF LGoto, bufVars, logVars
  <2>1. CASE \/ OpenPepoch(l) \/ StoreLogp(l) \/ LogWake(l) \/ LogTimeout(l)
             \/ LogQuit(l) \/ Scan(l)
    BY <2>1 DEF OpenPepoch, StoreLogp, LogWake, LogTimeout, FindMinEpoch,
       LogQuit, Scan
  <2>2. CASE ScanQueue(l) \/ Deq(l) \/ WriteBuffer(l) \/ Sync(l) \/ SendNid(l)
    BY <2>2 DEF ScanQueue, Deq, WriteBuffer, Sync, SendNid
  <2>3. CASE NotifyStep(l) \/ PublishDl(l) \/ LoggerEnd(l) \/ LoggerReturns(l)
    BY <2>3 DEF NotifyStep, PublishDl, LoggerEnd, LoggerReturns
  <2> QED
    BY <2>1, <2>2, <2>3 DEF LoggerStep
<1>5. EndInv'
  BY <1>1, <1>4, LoggerOfAssumption DEF EndInv
<1>6. QuitInv'
  BY <1>1, <1>4 DEF QuitInv
<1> QED
  BY <1>2, <1>5, <1>6

\* LifeInv is inductive.
LEMMA LifeStep ==
  ASSUME ShapeInv, LifeInv, [Next]_vars
  PROVE  LifeInv'
<1>1. CASE UNCHANGED vars \/ AdvanceEpoch
  <2>1. UNCHANGED <<wpc, quit, thid_set, queue_quit, lpc, queue>>
    BY <1>1 DEF vars, AdvanceEpoch, endVars, logVars
  <2> QED
    BY <2>1 DEF LifeInv, StartedInv, RegisteredInv, EndInv, QuitInv
<1>2. CASE Quit
  <2>1. /\ UNCHANGED <<wpc, thid_set, queue_quit, lpc, queue>> /\ Started
        /\ quit'
    BY <1>2 DEF Quit, logVars
  <2> QED
    BY <2>1 DEF LifeInv, StartedInv, RegisteredInv, EndInv, QuitInv, Started
<1>3. CASE Start
  <2>1. /\ UNCHANGED <<quit, thid_set, queue_quit, lpc, queue>>
        /\ \A u \in Workers : wpc[u] = "ready" /\ wpc'[u] \in {"check", "loop"}
    BY <1>3 DEF Start, MainLoop, endVars, logVars
  <2> QED
    BY <2>1 DEF LifeInv, StartedInv, RegisteredInv, EndInv, QuitInv
<1> QED
  BY <1>1, <1>2, <1>3, RunningSteps, RunningKeeps, WorkerEndKeeps,
     RegisterJoinKeeps, LoggerLife
  DEF Next, Joined, WorkerStep, LifeInv

\* LifeInv, of every behaviour.
LEMMA LifeInvariant == Spec => []LifeInv
<1>1. BaseInv /\ LifeInv /\ [Next]_vars => LifeInv'
  BY LifeStep DEF BaseInv
<1>2. Init => LifeInv
  BY LoggerOfAssumption
  DEF Init, LifeInv, StartedInv, RegisteredInv, EndInv, QuitInv
<1> QED
  BY <1>1, <1>2, BaseInvariant, PTL DEF Spec

\* No thread ends while another one may still use what it owns: the logger that
\* its workers call, the buffers that the logger writes.
THEOREM ThreadsOutlive == Spec => []NoUseAfterEnd
<1>1. BaseInv /\ LogInv /\ LifeInv => NoUseAfterEnd
  <2> SUFFICES ASSUME BaseInv, LogInv, LifeInv PROVE NoUseAfterEnd
    OBVIOUS
  <2>1. ASSUME NEW l \in Loggers, lpc[l] \in {"done", "gone"},
               NEW w \in MyWorkers(l)
        PROVE  wpc[w] \in {"join", "done"}
    BY <2>1 DEF LifeInv, QuitInv, EndInv, MyWorkers
  <2>2. ASSUME NEW w \in Workers, wpc[w] = "done",
               NEW l \in Loggers, NEW q \in queue[l] \cup batch[l]
        PROVE  q.worker # w
    <3>1. LoggerOf[w] \in Loggers
      BY LoggerOfAssumption
    <3>2. lpc[LoggerOf[w]] \in {"done", "gone"}
      BY <2>2 DEF LifeInv, EndInv
    <3>3. queue[LoggerOf[w]] = {} /\ batch[LoggerOf[w]] = {}
      BY <3>1, <3>2 DEF LifeInv, QuitInv, BaseInv, ShapeInv, LoggerInv
    <3>4. LoggerOf[q.worker] = l
      BY DEF LogInv, OwnerInv, FiledInv
    <3> QED
      BY <2>2, <3>3, <3>4
  <2> QED
    BY <2>1, <2>2 DEF NoUseAfterEnd
<1> QED
  BY <1>1, LogInvariant, LifeInvariant, PTL

\* A logger ends with everything its workers have committed on disk.
THEOREM EndsFlushed == Spec => []FlushedAtEnd
<1>1. BaseInv /\ LogInv /\ HomeInv /\ LifeInv => FlushedAtEnd
  <2> SUFFICES ASSUME BaseInv, LogInv, HomeInv, LifeInv,
                      NEW l \in Loggers, lpc[l] \in {"done", "gone"},
                      NEW t \in committed, t.worker \in MyWorkers(l),
                      t.size # 0
               PROVE  t \in synced[LoggerOf[t.worker]]
    BY DEF FlushedAtEnd, Durable
  <2> DEFINE w == t.worker
  <2>1. w \in Workers /\ LoggerOf[w] = l /\ t.size > 0
    BY SizesAssumption
    DEF MyWorkers, BaseInv, ShapeInv, WorkerTypeOK, Txn
  <2>2. wpc[w] \in {"join", "done"}
    BY <2>1 DEF LifeInv, QuitInv, EndInv
  <2>3. queue[l] = {} /\ batch[l] = {} /\ file[l] = synced[l]
    BY DEF LifeInv, QuitInv, BaseInv, ShapeInv, LoggerInv
  <2>4. ASSUME NEW b \in BufIds PROVE Blank(buffer[w][b])
    <3>1. PICK p \in Places : At(w, b, p)
      BY <2>1 DEF LogInv, OwnerInv, OneOwner
    <3>2. p # "queue" /\ p # "batch"
      BY <2>1, <2>3, <3>1 DEF At, InQueue, InBatch, LogInv, OwnerInv, FiledInv
    <3>3. CASE p = "current"
      <4>1. current[w] = b /\ b # 0
        BY <3>1, <3>3 DEF At, BufIds
      <4> QED
        BY <2>1, <2>2, <4>1 DEF LogInv, CurrentInv, CurrentOK, Cur
    <3>4. CASE p = "pool"
      BY <2>1, <3>1, <3>4 DEF At, LogInv, ContentsInv
    <3> QED
      BY <3>2, <3>3, <3>4 DEF Places
  <2>5. \A p \in Homes : ~Here(t, p)
    BY <2>2, <2>4 DEF Here, Homes, Blank
  <2>6. HomeOK(t)
    BY <2>1 DEF HomeInv
  <2> QED
    BY <2>1, <2>3, <2>5, <2>6 DEF HomeOK
<1> QED
  BY <1>1, HomeInvariant, LifeInvariant, PTL

-----------------------------------------------------------------------------
(* What a logger announces is on disk.                                     *)

\* The workers of logger l commit in no epoch below e any more, ...
Floored(l, e) ==
  \A w \in MyWorkers(l) : CTIDW[w] # AllOnes /\ e <= CTIDW[w]

\* ... and what they have committed below e is on disk.
Below(l, e) ==
  \A t \in Logged : LoggerOf[t.worker] = l /\ t.epoch < e => t \in synced[l]

\* find_min_epoch on its way through the workers.
ScanOK(l) ==
  \A w \in MyWorkers(l) \ toScan[l] :
    CTIDW[w] # AllOnes /\ min_epoch[l] <= CTIDW[w]

\* What find_min_epoch has found, while it looks at the workers and as long as
\* the logger uses it; if it has met all of the workers.
FoundOK(l) ==
  /\ warm[l] /\ lpc[l] \in {"idleScan", "logScan"} => ScanOK(l)
  /\ warm[l] /\ lpc[l] \in {"deq", "write", "send"} =>
       Floored(l, min_epoch[l]) /\ Below(l, min_epoch[l])
  /\ warm[l] /\ lpc[l] = "notify" =>
       Floored(l, new_dl[l] + 1) /\ Below(l, new_dl[l] + 1)

ScanInv ==
  \A l \in Loggers : announced[l] <= ThLocalDurableEpoch[l] /\ FoundOK(l)

\* CTIDW never goes back, once it has been stored, and a worker commits in no
\* epoch below it.
LEMMA CtidwGrows ==
  ASSUME WorkerTypeOK, EpochsInv, [Next]_vars, NEW w \in Workers,
         CTIDW[w] # AllOnes
  PROVE  CTIDW'[w] # AllOnes /\ CTIDW[w] <= CTIDW'[w]
<1> USE LogBoundsAssumption DEF WorkerTypeOK, EpochsInv, epochVars, AllOnes
<1>1. CASE Timeless \/ AdvanceEpoch
  BY <1>1 DEF Timeless, AdvanceEpoch
<1>2. ASSUME NEW u \in Workers, StoreCTIDW(u) \/ NewCTIDW(u)
      PROVE  CTIDW'[w] # AllOnes /\ CTIDW[w] <= CTIDW'[w]
  BY <1>2 DEF StoreCTIDW, NewCTIDW
<1>3. ASSUME NEW u \in Workers,
             EpochWork(u) \/ LoadGE(u) \/ StoreThLocalEpoch(u) \/ Commit(u)
      PROVE  CTIDW'[w] # AllOnes /\ CTIDW[w] <= CTIDW'[w]
  BY <1>3 DEF EpochWork, LoadGE, StoreThLocalEpoch, Commit
<1> QED
  BY <1>1, <1>2, <1>3, EpochKinds

\* A transaction commits in no epoch before CTIDW.
LEMMA CommitsAbove ==
  ASSUME WorkerTypeOK, EpochsInv, [Next]_vars,
         NEW t \in committed' \ committed
  PROVE  /\ t.worker \in Workers /\ t.epoch \in Nat
         /\ CTIDW[t.worker] # AllOnes => CTIDW[t.worker] <= t.epoch
<1>1. PICK w \in Workers : Commit(w)
  <2>1. ASSUME NEW u \in Workers, WorkerStep(u), ~Commit(u)
        PROVE  UNCHANGED committed
    BY <2>1 DEF WorkerStep, Register, PauseCheck, PausePublish, PauseRecheck,
       GetBuffer, NotReady, EpochWork, StoreCTIDW, Begin, LoadGE,
       StoreThLocalEpoch, Abort, Push, NewCTIDW, Terminate, WorkerEnd, Join,
       txnVars
  <2>2. CASE UNCHANGED vars \/ Start \/ Quit \/ AdvanceEpoch
    BY <2>2 DEF vars, Start, Quit, AdvanceEpoch, txnVars
  <2>3. ASSUME NEW l \in Loggers, LoggerStep(l) PROVE UNCHANGED committed
    BY <2>3, LoggerStepKeeps DEF txnVars
  <2> QED
    BY <2>1, <2>2, <2>3 DEF Next, Joined
<1>2. t.worker = w /\ t.epoch = ThLocalEpoch[w]
  BY <1>1 DEF Commit
<1> QED
  BY <1>2 DEF WorkerTypeOK, EpochsInv

\* fsync only adds to what is on disk.
LEMMA SyncedGrows ==
  ASSUME ShapeInv, [Next]_vars, NEW l \in Loggers
  PROVE  synced[l] \subseteq synced'[l]
<1>1. CASE LoggersRest
  BY <1>1 DEF LoggersRest
<1>2. ASSUME NEW k \in Loggers, Sync(k) PROVE synced[l] \subseteq synced'[l]
  BY <1>2 DEF Sync, Synced, ShapeInv, BufferTypeOK, LoggerInv
<1>3. ASSUME NEW k \in Loggers, LoggerStep(k), ~Sync(k)
      PROVE  UNCHANGED synced
  BY <1>3 DEF LoggerStep, OpenPepoch, StoreLogp, LogWake, LogTimeout, LogQuit,
     Scan, ScanQueue, Deq, WriteBuffer, SendNid, NotifyStep, PublishDl,
     LoggerEnd, LoggerReturns, logVars, fileVars
<1> QED
  BY <1>1, <1>2, <1>3, RestActions

\* A floor holds from then on, and with it what is below it.
LEMMA FloorHolds ==
  ASSUME ShapeInv, [Next]_vars, NEW l \in Loggers, NEW e \in Nat,
         Floored(l, e), Below(l, e)
  PROVE  Floored(l, e)' /\ Below(l, e)'
<1>1. \A w \in Workers : CTIDW[w] \in Nat /\ CTIDW'[w] \in Nat
  BY ShapeStep, LogBoundsAssumption DEF ShapeInv, WorkerTypeOK, AllOnes
<1>2. Floored(l, e)'
  BY <1>1, CtidwGrows DEF Floored, MyWorkers, ShapeInv
<1>3. ASSUME NEW t \in committed', t.size > 0, LoggerOf[t.worker] = l,
             t.epoch < e
      PROVE  t \in synced'[l]
  <2>1. CASE t \in committed
    BY <1>3, <2>1, SyncedGrows DEF Below, Logged
  <2>2. CASE t \notin committed
    <3>1. /\ t.worker \in Workers /\ t.epoch \in Nat
          /\ CTIDW[t.worker] # AllOnes => CTIDW[t.worker] <= t.epoch
      BY <2>2, CommitsAbove DEF ShapeInv
    <3>2. CTIDW[t.worker] # AllOnes /\ e <= CTIDW[t.worker]
      BY <1>3, <3>1 DEF Floored, MyWorkers
    <3> QED
      BY <1>1, <1>3, <3>1, <3>2
  <2> QED
    BY <2>1, <2>2
<1>4. Below(l, e)'
  BY <1>3 DEF Below, Logged
<1> QED
  BY <1>2, <1>4

\* Once find_min_epoch has met all of the workers and looked at the queue, no
\* log record of an older epoch is on its way: a worker that is pushing one, or
\* has one in its current buffer, has not moved CTIDW past its epoch.
LEMMA FoundBelow ==
  ASSUME ShapeInv, LogInv, HomeInv, ScanInv, NEW l \in Loggers,
         lpc[l] \in {"idleScan", "logScan"}, toScan[l] = {}, warm[l],
         NEW e, e = FoundMin(l), e # 0
  PROVE  Floored(l, e) /\ Below(l, e)
<1>1. min_epoch[l] \in 1 .. AllOnes /\ batch[l] = {} /\ file[l] = synced[l]
  BY DEF ShapeInv, LoggerTypeOK, LoggerInv
<1>2. /\ e \in Nat /\ e <= min_epoch[l]
      /\ \A q \in queue[l] : e <= q.key
  BY <1>1, FoundMinimum, LogBoundsAssumption DEF ShapeInv
<1>3. AllOnes \in Nat /\ \A w \in Workers :
        CTIDW[w] \in Nat /\ ThLocalEpoch[w] \in Nat
  BY LogBoundsAssumption DEF ShapeInv, WorkerTypeOK, AllOnes
<1>4. ASSUME NEW w \in Workers, LoggerOf[w] = l
      PROVE  /\ CTIDW[w] # AllOnes /\ e <= CTIDW[w]
             /\ CTIDW[w] <= ThLocalEpoch[w]
  <2>1. CTIDW[w] # AllOnes /\ min_epoch[l] <= CTIDW[w]
    BY <1>4 DEF ScanInv, FoundOK, ScanOK, MyWorkers
  <2>2. e <= CTIDW[w]
    BY <1>1, <1>2, <1>3, <2>1
  <2> QED
    BY <2>1, <2>2 DEF ShapeInv, EpochsInv
<1>5. ASSUME NEW t \in committed, t.size > 0, LoggerOf[t.worker] = l,
             t.epoch < e, t \notin synced[l]
      PROVE  FALSE
  <2> DEFINE w == t.worker
  <2>1. w \in Workers /\ t.epoch \in Nat
    BY DEF ShapeInv, WorkerTypeOK, Txn
  <2>2. PICK p \in Homes : Here(t, p)
    <3>1. HomeOK(t) /\ t \notin file[LoggerOf[w]]
      BY <1>1, <1>5 DEF HomeInv
    <3> QED
      BY <3>1 DEF HomeOK
  <2>3. CTIDW[w] # AllOnes /\ e <= CTIDW[w] /\ CTIDW[w] <= ThLocalEpoch[w]
    BY <1>4, <1>5, <2>1
  <2>4. e <= ThLocalEpoch[w]
    BY <1>2, <1>3, <2>1, <2>3
  <2>5. CASE p = 0
    <3>1. t.epoch = ThLocalEpoch[w]
      BY <2>1, <2>2, <2>5 DEF Here, ShapeInv, EpochsInv
    <3> QED
      BY <1>2, <1>5, <2>1, <2>4, <3>1
  <2>6. CASE p # 0
    <3>1. p \in BufIds /\ t \in buffer[w][p].txns
      BY <2>2, <2>6 DEF Here, Homes
    <3>2. ~Blank(buffer[w][p]) /\ t.epoch = buffer[w][p].min_epoch
      BY <2>1, <3>1 DEF LogInv, ContentsInv, Blank, Uniform
    <3>3. PICK o \in Places : At(w, p, o)
      BY <2>1, <3>1 DEF LogInv, OwnerInv, OneOwner
    <3>4. CASE o = "current"
      <4>1. t.epoch = ThLocalEpoch[w] \/ t.epoch = CTIDW[w]
        BY <2>1, <2>6, <3>2, <3>3, <3>4
        DEF At, LogInv, CurrentInv, CurrentOK, Cur
      <4> QED
        BY <1>2, <1>3, <1>5, <2>1, <2>3, <2>4, <4>1
    <3>5. CASE o = "pool"
      BY <2>1, <3>1, <3>2, <3>3, <3>5 DEF At, LogInv, ContentsInv
    <3>6. CASE o = "queue"
      <4>1. PICK k \in Loggers : \E q \in queue[k] : q.worker = w /\ q.id = p
        BY <3>3, <3>6 DEF At, InQueue
      <4>2. PICK q \in queue[k] : q.worker = w /\ q.id = p
        BY <4>1
      <4>3. k = l /\ q.key = t.epoch
        BY <1>5, <3>2, <4>2 DEF LogInv, OwnerInv, FiledInv
      <4> QED
        BY <1>2, <1>5, <2>1, <4>2, <4>3
    <3>7. CASE o = "batch"
      BY <1>1, <1>5, <3>3, <3>7 DEF At, InBatch, LogInv, OwnerInv, FiledInv
    <3> QED
      BY <3>4, <3>5, <3>6, <3>7 DEF Places
  <2> QED
    BY <2>5, <2>6
<1> QED
  BY <1>4, <1>5 DEF Floored, Below, MyWorkers, Logged

\* Another thread's step changes nothing that logger l has found.
LEMMA ScanKept ==
  ASSUME BaseInv, ScanInv, [Next]_vars, NEW l \in Loggers,
         \/ LoggersRest
         \/ \E k \in Loggers \ {l} : LoggerStep(k)
  PROVE  /\ lpc'[l] = lpc[l] /\ toScan'[l] = toScan[l] /\ warm'[l] = warm[l]
         /\ min_epoch'[l] = min_epoch[l] /\ new_dl'[l] = new_dl[l]
         /\ announced'[l] = announced[l]
<1>1. CASE LoggersRest
  BY <1>1 DEF LoggersRest, notifVars
<1>2. ASSUME NEW k \in Loggers \ {l}, LoggerStep(k)
      PROVE  /\ lpc'[l] = lpc[l] /\ toScan'[l] = toScan[l] /\ warm'[l] = warm[l]
             /\ min_epoch'[l] = min_epoch[l] /\ new_dl'[l] = new_dl[l]
             /\ announced'[l] = announced[l]
  <2>1. LoggerTypeOK /\ new_dl \in [Loggers -> Nat] /\ announced \in [Loggers -> Nat]
    BY BaseTypes DEF BaseInv, ShapeInv
  <2> USE <1>2, <2>1 DEF LoggerTypeOK, LGoto, logVars, scanVars, notifVars
  <2>2. CASE OpenPepoch(k) \/ StoreLogp(k) \/ LogQuit(k) \/ LoggerReturns(k)
    BY <2>2 DEF OpenPepoch, StoreLogp, LogQuit, N!SendLast, LoggerReturns
  <2>3. CASE LogWake(k) \/ LogTimeout(k) \/ Scan(k) \/ ScanQueue(k)
    BY <2>3 DEF LogWake, LogTimeout, FindMinEpoch, Scan, ScanQueue
  <2>4. CASE Deq(k) \/ WriteBuffer(k) \/ Sync(k) \/ NotifyStep(k)
    BY <2>4 DEF Deq, WriteBuffer, Sync, NotifyStep
  <2>5. CASE SendNid(k)
    BY <2>5 DEF SendNid, N!Send
  <2>6. CASE PublishDl(k) \/ LoggerEnd(k)
    BY <2>6 DEF PublishDl, N!Publish, LoggerEnd, N!ReturnLast
  <2> QED
    BY <2>2, <2>3, <2>4, <2>5, <2>6 DEF LoggerStep
<1> QED
  BY <1>1, <1>2

\* What a scan has found stays true while its logger stands still.
LEMMA FoundKept ==
  ASSUME BaseInv, [Next]_vars, NEW l \in Loggers, FoundOK(l),
         lpc'[l] = lpc[l], toScan'[l] = toScan[l], warm'[l] = warm[l],
         min_epoch'[l] = min_epoch[l], new_dl'[l] = new_dl[l]
  PROVE  FoundOK(l)'
<1>1. /\ min_epoch[l] \in Nat /\ new_dl[l] + 1 \in Nat
      /\ \A w \in Workers : CTIDW[w] \in Nat /\ CTIDW'[w] \in Nat
  BY ShapeStep, BaseTypes, LogBoundsAssumption
  DEF BaseInv, ShapeInv, LoggerTypeOK, WorkerTypeOK, AllOnes
<1>2. ASSUME ScanOK(l) PROVE ScanOK(l)'
  BY <1>1, <1>2, CtidwGrows DEF ScanOK, MyWorkers, BaseInv, ShapeInv
<1>3. ASSUME NEW e \in Nat, Floored(l, e), Below(l, e)
      PROVE  Floored(l, e)' /\ Below(l, e)'
  BY <1>3, FloorHolds DEF BaseInv
<1>4. PICK m \in Nat, n \in Nat : m = min_epoch[l] /\ n = new_dl[l] + 1
  BY <1>1
<1>5. min_epoch'[l] = m /\ new_dl'[l] + 1 = n
  BY <1>4
<1>6. warm[l] /\ lpc[l] \in {"deq", "write", "send"} => Floored(l, m)' /\ Below(l, m)'
  BY <1>3, <1>4 DEF FoundOK
<1>7. warm[l] /\ lpc[l] = "notify" => Floored(l, n)' /\ Below(l, n)'
  BY <1>3, <1>4 DEF FoundOK
<1>8. warm[l] /\ lpc[l] \in {"idleScan", "logScan"} => ScanOK(l)'
  BY <1>2 DEF FoundOK
<1> QED
  BY <1>5, <1>6, <1>7, <1>8 DEF FoundOK

\* The loop of find_min_epoch.
LEMMA ScanLoop ==
  ASSUME BaseInv, NEW l \in Loggers, FoundOK(l),
         LogWake(l) \/ LogTimeout(l) \/ Scan(l)
  PROVE  FoundOK(l)'
<1>1. LoggerTypeOK /\ WorkerTypeOK /\ LoggerInv /\ UNCHANGED CTIDW
  BY LoggerStepKeeps DEF BaseInv, ShapeInv, LoggerStep
<1>2. CASE LogWake(l) \/ LogTimeout(l)
  <2>1. /\ lpc'[l] \in {"idleScan", "logScan"}
        /\ toScan'[l] = Registered(l)
    BY <1>1, <1>2 DEF LogWake, LogTimeout, FindMinEpoch, LGoto, LoggerTypeOK
  <2>2. warm' = [warm EXCEPT ![l] = Registered(l) = MyWorkers(l)]
    BY <1>2 DEF LogWake, LogTimeout, FindMinEpoch
  <2>3. warm'[l] => Registered(l) = MyWorkers(l)
    BY <1>1, <2>2 DEF LoggerTypeOK
  <2>4. warm'[l] => ScanOK(l)'
    BY <2>1, <2>3 DEF ScanOK
  <2> QED
    BY <2>1, <2>4 DEF FoundOK
<1>3. CASE Scan(l)
  <2>1. PICK w \in toScan[l] :
          /\ toScan' = [toScan EXCEPT ![l] = @ \ {w}]
          /\ min_epoch' = [min_epoch EXCEPT ![l] = Least(@, CTIDW[w])]
          /\ warm' = [warm EXCEPT ![l] = @ /\ CTIDW[w] # AllOnes]
    BY <1>3 DEF Scan
  <2>2. lpc[l] \in {"idleScan", "logScan"} /\ UNCHANGED lpc
    BY <1>3 DEF Scan
  <2>3. warm'[l] => warm[l] /\ CTIDW[w] # AllOnes
    BY <1>1, <2>1 DEF LoggerTypeOK
  <2>4. /\ toScan'[l] = toScan[l] \ {w} /\ w \in Workers
        /\ min_epoch'[l] = Least(min_epoch[l], CTIDW[w])
        /\ min_epoch[l] \in Nat
    BY <1>1, <2>1, LogBoundsAssumption DEF LoggerTypeOK, AllOnes
  <2>5. \A u \in Workers : CTIDW[u] \in Nat
    BY <1>1, LogBoundsAssumption DEF WorkerTypeOK, AllOnes
  <2>6. min_epoch'[l] <= min_epoch[l] /\ min_epoch'[l] <= CTIDW[w] /\ min_epoch'[l] \in Nat
    BY <2>4, <2>5 DEF Least
  <2>7. ASSUME warm'[l], NEW u \in MyWorkers(l) \ toScan'[l]
        PROVE  CTIDW[u] # AllOnes /\ min_epoch'[l] <= CTIDW[u]
    <3>1. CASE u = w
      BY <2>3, <2>6, <2>7, <3>1
    <3>2. CASE u # w
      <4>1. CTIDW[u] # AllOnes /\ min_epoch[l] <= CTIDW[u] /\ u \in Workers
        BY <2>2, <2>3, <2>4, <2>7, <3>2 DEF FoundOK, ScanOK, MyWorkers
      <4> QED
        BY <2>4, <2>5, <2>6, <4>1
    <3> QED
      BY <3>1, <3>2
  <2>8. warm'[l] => ScanOK(l)'
    BY <1>1, <2>7 DEF ScanOK
  <2> QED
    BY <2>2, <2>8 DEF FoundOK
<1> QED
  BY <1>2, <1>3

\* The logger on its way from find_min_epoch to the notifier.
LEMMA ScanUsed ==
  ASSUME BaseInv, LogInv, HomeInv, ScanInv, [Next]_vars, NEW l \in Loggers,
         FoundOK(l),
         ScanQueue(l) \/ Deq(l) \/ WriteBuffer(l) \/ Sync(l) \/ SendNid(l)
  PROVE  FoundOK(l)'
<1>1. LoggerTypeOK /\ ShapeInv /\ LoggerInv /\ new_dl \in [Loggers -> Nat]
  BY BaseTypes DEF BaseInv, ShapeInv
<1>2. CASE ScanQueue(l)
  <2>1. PICK e : e = FoundMin(l)
    OBVIOUS
  <2>2. /\ lpc[l] \in {"idleScan", "logScan"} /\ toScan[l] = {}
        /\ min_epoch'[l] = e /\ warm'[l] = warm[l]
        /\ lpc'[l] = IF e = 0 THEN "wait"
                     ELSE IF lpc[l] = "idleScan" THEN "send" ELSE "deq"
    BY <1>1, <1>2, <2>1 DEF ScanQueue, LGoto, LoggerTypeOK
  <2>3. e \in Nat
    BY <1>1, <2>1, <2>2, FoundMinimum DEF ShapeInv, LoggerTypeOK, LoggerInv
  <2>4. ASSUME warm[l], e # 0 PROVE Floored(l, e)' /\ Below(l, e)'
    <3>1. Floored(l, e) /\ Below(l, e)
      BY <1>1, <2>1, <2>2, <2>4, FoundBelow
    <3> QED
      BY <1>1, <2>3, <3>1, FloorHolds
  <2> QED
    BY <2>2, <2>4 DEF FoundOK
<1>3. PICK e : e = min_epoch[l]
  OBVIOUS
<1>4. e \in Nat /\ (Floored(l, e) /\ Below(l, e) => Floored(l, e)' /\ Below(l, e)')
  BY <1>1, <1>3, FloorHolds DEF LoggerTypeOK
<1>5. CASE Deq(l) \/ WriteBuffer(l) \/ Sync(l)
  <2>1. /\ lpc[l] \in {"deq", "write"} /\ lpc'[l] \in {"write", "send"}
        /\ min_epoch'[l] = e /\ warm'[l] = warm[l]
    BY <1>1, <1>3, <1>5
    DEF Deq, WriteBuffer, Sync, LGoto, LoggerTypeOK, scanVars
  <2> QED
    BY <1>3, <1>4, <2>1 DEF FoundOK
<1>6. CASE SendNid(l)
  <2>1. /\ lpc[l] = "send" /\ warm'[l] = warm[l]
        /\ \/ lpc'[l] = "wait"
           \/ lpc'[l] = "notify" /\ new_dl'[l] = e - 1
    BY <1>1, <1>3, <1>6
    DEF SendNid, N!Send, NewDl, LGoto, LoggerTypeOK
  <2>2. (e - 1) + 1 = e
    BY <1>4
  <2> QED
    BY <1>3, <1>4, <2>1, <2>2 DEF FoundOK
<1> QED
  BY <1>2, <1>5, <1>6

\* It stays true of every step, the logger's own included.
LEMMA FoundStep ==
  ASSUME BaseInv, LogInv, HomeInv, ScanInv, [Next]_vars, NEW l \in Loggers
  PROVE  FoundOK(l)'
<1>1. FoundOK(l)
  BY DEF ScanInv
<1>2. CASE LoggersRest \/ \E k \in Loggers \ {l} : LoggerStep(k)
  BY <1>1, <1>2, ScanKept, FoundKept
<1>3. ASSUME LoggerStep(l) PROVE FoundOK(l)'
  <2>1. LoggerTypeOK
    BY DEF BaseInv, ShapeInv
  <2>2. CASE LogWake(l) \/ LogTimeout(l) \/ Scan(l)
    BY <1>1, <2>2, ScanLoop
  <2>3. CASE ScanQueue(l) \/ Deq(l) \/ WriteBuffer(l) \/ Sync(l) \/ SendNid(l)
    BY <1>1, <2>3, ScanUsed
  <2>4. CASE NotifyStep(l) \/ OpenPepoch(l)
    BY <1>1, <2>4, FoundKept
    DEF NotifyStep, OpenPepoch, logVars, scanVars
  <2>5. CASE \/ StoreLogp(l) \/ LogQuit(l) \/ PublishDl(l) \/ LoggerEnd(l)
             \/ LoggerReturns(l)
    <3>1. lpc'[l] \in {"wait", "final", "done", "gone"}
      BY <2>1, <2>5 DEF StoreLogp, LogQuit, PublishDl, LoggerEnd,
         LoggerReturns, LGoto, LoggerTypeOK
    <3> QED
      BY <3>1 DEF FoundOK
  <2> QED
    BY <1>3, <2>2, <2>3, <2>4, <2>5 DEF LoggerStep
<1> QED
  BY <1>2, <1>3, RestActions

\* ScanInv is inductive.
LEMMA ScanStep ==
  ASSUME BaseInv, LogInv, HomeInv, ScanInv, [Next]_vars
  PROVE  ScanInv'
<1>1. \A l \in Loggers : FoundOK(l)'
  BY FoundStep
<1>2. ASSUME NEW l \in Loggers PROVE announced'[l] <= ThLocalDurableEpoch'[l]
  <2>1. /\ ThLocalDurableEpoch[l] \in Nat /\ announced[l] \in Nat
        /\ ThLocalDurableEpoch'[l] \in Nat /\ announced'[l] \in Nat
    BY BaseStep
    DEF BaseInv, NP!NInv, NP!TypeOK, NP!NotifierTypeOK, NP!Loggers, Loggers
  <2>2. announced[l] <= ThLocalDurableEpoch'[l]
    BY <2>1, NotifierKept DEF BaseInv, ScanInv
  <2>3. ASSUME NEW k \in Loggers, PublishDl(k)
        PROVE  announced'[l] <= ThLocalDurableEpoch'[l]
    <3>1. /\ ThLocalDurableEpoch' = [ThLocalDurableEpoch EXCEPT ![k] = new_dl[k]]
          /\ announced' = [announced EXCEPT ![k] = IF warm[k] THEN new_dl[k] ELSE @]
      BY <2>3 DEF PublishDl, N!Publish
    <3> QED
      BY <2>1, <2>2, <3>1, BaseTypes DEF BaseInv
  <2> QED
    BY <2>2, <2>3, AnnouncedSame
<1> QED
  BY <1>1, <1>2 DEF ScanInv

\* All that is proved of the logging path.
LogPathInv == BaseInv /\ LogInv /\ HomeInv /\ LifeInv /\ ScanInv

\* All invariants of the logging path, of every behaviour.
LEMMA LogPathInvariant == Spec => []LogPathInv
<1>1. BaseInv /\ LogInv /\ HomeInv /\ ScanInv /\ [Next]_vars => ScanInv'
  BY ScanStep
<1>2. Init => ScanInv
  BY DEF Init, N!Init, N!NotifierInit, N!Loggers, Loggers, ScanInv, FoundOK
<1> QED
  BY <1>1, <1>2, HomeInvariant, LifeInvariant, PTL DEF Spec, LogPathInv

-----------------------------------------------------------------------------
(* The logging path is the write-ahead log of GroupCommit.                 *)

WP == INSTANCE GroupCommitProofs
        WITH floor <- Floor, committed <- Logged, durable <- OnDisk

\* The steps that the abstract log sees.
LEMMA WalKinds ==
  ASSUME [Next]_vars
  PROVE  \/ UNCHANGED <<CTIDW, committed, synced, announced>>
         \/ \E w \in Workers : Commit(w) \/ StoreCTIDW(w) \/ NewCTIDW(w)
         \/ \E l \in Loggers : Sync(l) \/ PublishDl(l)
<1> USE DEF txnVars, logVars, fileVars
<1>1. CASE UNCHANGED vars \/ Start \/ Quit \/ AdvanceEpoch
  BY <1>1 DEF vars, Start, Quit, AdvanceEpoch
<1>2. ASSUME NEW w \in Workers, WorkerStep(w), ~Commit(w), ~StoreCTIDW(w),
             ~NewCTIDW(w)
      PROVE  UNCHANGED <<CTIDW, committed, synced, announced>>
  BY <1>2 DEF WorkerStep, Register, PauseCheck, PausePublish, PauseRecheck,
     GetBuffer, NotReady, EpochWork, Begin, LoadGE, StoreThLocalEpoch, Abort,
     Push, Terminate, WorkerEnd, Join
<1>3. ASSUME NEW l \in Loggers, LoggerStep(l), ~Sync(l), ~PublishDl(l)
      PROVE  UNCHANGED <<CTIDW, committed, synced, announced>>
  BY <1>3 DEF LoggerStep, OpenPepoch, StoreLogp, LogWake, LogTimeout, LogQuit,
     Scan, ScanQueue, Deq, WriteBuffer, SendNid, NotifyStep, LoggerEnd,
     LoggerReturns
<1> QED
  BY <1>1, <1>2, <1>3 DEF Next, Joined

\* The commit of a transaction with records is a commit of the abstract log.
LEMMA WalCommit ==
  ASSUME LogPathInv, NEW w \in Workers, Commit(w)
  PROVE  Wal!Commit(w, Logged' \ Logged)
<1>1. PICK t : /\ t.worker = w /\ t.epoch = ThLocalEpoch[w]
               /\ t.n = ntx[w] + 1 /\ committed' = committed \cup {t}
               /\ UNCHANGED <<CTIDW, synced, announced>> /\ wpc[w] = "valid"
  BY DEF Commit, logVars, fileVars
<1>2. t \notin committed
  BY <1>1 DEF LogPathInv, BaseInv, ShapeInv, WorkerTypeOK, HomeInv, TxnsInv
<1>3. /\ ThLocalEpoch[w] \in Nat \ {0}
      /\ CTIDW[w] # AllOnes => CTIDW[w] <= ThLocalEpoch[w]
      /\ CTIDW[w] \in Nat
  BY <1>1, LogBoundsAssumption
  DEF LogPathInv, BaseInv, ShapeInv, WorkerTypeOK, EpochsInv, AllOnes
<1>4. Logged \subseteq Logged' /\ Logged' \ Logged \subseteq {t}
  BY <1>1 DEF Logged
<1>5. OnDisk' = OnDisk
  <2>1. \A l \in Loggers : t \notin synced[l]
    BY <1>2 DEF LogPathInv, HomeInv, TxnsInv, BaseInv, ShapeInv, LoggerInv
  <2>2. LoggerOf[t.worker] \in Loggers
    BY <1>1, LoggerOfAssumption
  <2> QED
    BY <1>1, <2>1, <2>2 DEF OnDisk
<1>6. Floor' = Floor
  BY <1>1 DEF Floor
<1>7. \A x \in Logged' \ Logged :
        Wal!Item(x) /\ x.worker = w /\ x.epoch >= Floor[w]
  BY <1>1, <1>3, <1>4 DEF Wal!Item, Floor
<1> QED
  BY <1>1, <1>4, <1>5, <1>6, <1>7 DEF Wal!Commit

\* A store of CTIDW gives up the epochs below it.
LEMMA WalAdvance ==
  ASSUME LogPathInv, NEW w \in Workers, StoreCTIDW(w) \/ NewCTIDW(w)
  PROVE  Wal!Advance(w, Floor'[w])
<1>1. /\ CTIDW' = [CTIDW EXCEPT ![w] = ThLocalEpoch[w]]
      /\ UNCHANGED <<committed, synced, announced>>
      /\ wpc[w] \in {"storeCTIDW", "pausedCTIDW", "newCTIDW"}
  BY DEF StoreCTIDW, NewCTIDW, txnVars, logVars, fileVars
<1>2. /\ CTIDW \in [Workers -> 1 .. AllOnes] /\ AllOnes \in Nat
      /\ ThLocalEpoch[w] \in Nat /\ ThLocalEpoch[w] < AllOnes
      /\ CTIDW[w] = AllOnes \/ CTIDW[w] <= ThLocalEpoch[w]
  BY LogBoundsAssumption
  DEF LogPathInv, BaseInv, ShapeInv, WorkerTypeOK, EpochsInv, AllOnes
<1>3. Floor'[w] = ThLocalEpoch[w] /\ Floor[w] <= ThLocalEpoch[w]
  BY <1>1, <1>2 DEF Floor
<1>4. Floor' = [Floor EXCEPT ![w] = ThLocalEpoch[w]]
  BY <1>1, <1>2, <1>3 DEF Floor
<1>5. Logged' = Logged /\ OnDisk' = OnDisk
  BY <1>1 DEF Logged, OnDisk
<1>6. Floor[w] \in Nat
  BY <1>2 DEF Floor
<1> QED
  BY <1>1, <1>2, <1>3, <1>4, <1>5, <1>6 DEF Wal!Advance

\* fsync makes everything the logger has written durable.
LEMMA WalSync ==
  ASSUME LogPathInv, NEW l \in Loggers, Sync(l), [Next]_vars
  PROVE  Wal!Flush(OnDisk' \ OnDisk)
<1>1. UNCHANGED <<committed, CTIDW, announced>>
  BY DEF Sync, txnVars
<1>2. \A k \in Loggers : synced[k] \subseteq synced'[k]
  BY SyncedGrows DEF LogPathInv, BaseInv
<1>3. \A t \in committed : LoggerOf[t.worker] \in Loggers
  BY LoggerOfAssumption DEF LogPathInv, BaseInv, ShapeInv, WorkerTypeOK, Txn
<1>4. OnDisk \subseteq OnDisk' /\ OnDisk' \subseteq Logged
  BY <1>1, <1>2, <1>3 DEF OnDisk, Logged
<1>5. Logged' = Logged /\ Floor' = Floor
  BY <1>1 DEF Logged, Floor
<1> QED
  BY <1>1, <1>4, <1>5 DEF Wal!Flush

\* A logger announces what the abstract log allows, or nothing new.
LEMMA WalAnnounce ==
  ASSUME LogPathInv, NEW l \in Loggers, PublishDl(l)
  PROVE  Wal!Announce(l, announced'[l]) \/ UNCHANGED Wal!vars
<1>1. /\ UNCHANGED <<committed, CTIDW, synced>> /\ lpc[l] = "notify"
      /\ announced' = [announced EXCEPT ![l] = IF warm[l] THEN new_dl[l] ELSE @]
      /\ new_dl[l] # 0
  BY DEF PublishDl, N!Publish, txnVars, fileVars
<1>2. Logged' = Logged /\ Floor' = Floor /\ OnDisk' = OnDisk
  BY <1>1 DEF Logged, Floor, OnDisk
<1>3. announced \in [Loggers -> Nat] /\ new_dl[l] \in Nat /\ NP!Pending
      /\ ThLocalDurableEpoch[l] \in Nat
  BY BaseTypes DEF LogPathInv, BaseInv
<1>4. CASE ~warm[l]
  BY <1>1, <1>2, <1>3, <1>4 DEF Wal!vars
<1>5. CASE warm[l]
  <2>1. announced' = [announced EXCEPT ![l] = new_dl[l]] /\ announced'[l] = new_dl[l]
    BY <1>1, <1>3, <1>5
  <2>2. new_dl[l] > announced[l]
    BY <1>1, <1>3 DEF NP!Pending, NP!Loggers, Loggers, LogPathInv, ScanInv
  <2>3. Floored(l, new_dl[l] + 1) /\ Below(l, new_dl[l] + 1)
    BY <1>1, <1>5 DEF LogPathInv, ScanInv, FoundOK
  <2>4. \A w \in Workers : CTIDW[w] \in Nat
    BY LogBoundsAssumption
    DEF LogPathInv, BaseInv, ShapeInv, WorkerTypeOK, AllOnes
  <2>5. \A w \in Workers : LoggerOf[w] = l => new_dl[l] < Floor[w]
    BY <1>3, <2>3, <2>4 DEF Floored, MyWorkers, Floor
  <2>6. \A t \in Logged :
          LoggerOf[t.worker] = l /\ t.epoch <= new_dl[l] => t \in OnDisk
    <3>1. \A t \in Logged : t.epoch \in Nat
      BY DEF Logged, LogPathInv, BaseInv, ShapeInv, WorkerTypeOK, Txn
    <3> QED
      BY <1>3, <2>3, <3>1 DEF Below, Logged, OnDisk
  <2> QED
    BY <1>2, <1>3, <2>1, <2>2, <2>5, <2>6 DEF Wal!Announce, Wal!Announceable
<1> QED
  BY <1>4, <1>5

\* Every step is one of the abstract log or none of it.
LEMMA WalStep ==
  ASSUME LogPathInv, [Next]_vars
  PROVE  [Wal!Next]_(Wal!vars)
<1>1. CASE UNCHANGED <<CTIDW, committed, synced, announced>>
  BY <1>1 DEF Wal!vars, Floor, Logged, OnDisk
<1>2. ASSUME NEW w \in Workers, Commit(w) \/ StoreCTIDW(w) \/ NewCTIDW(w)
      PROVE  Wal!Next
  BY <1>2, WalCommit, WalAdvance DEF Wal!Next
<1>3. ASSUME NEW l \in Loggers, Sync(l) \/ PublishDl(l)
      PROVE  [Wal!Next]_(Wal!vars)
  BY <1>3, WalSync, WalAnnounce DEF Wal!Next
<1> QED
  BY <1>1, <1>2, <1>3, WalKinds

\* Initial states map to initial states.
LEMMA WalInit == Init => Wal!Init
<1> SUFFICES ASSUME Init PROVE Wal!Init
  OBVIOUS
<1>1. Floor = [w \in Workers |-> 0]
  BY DEF Init, Floor
<1>2. Logged = {} /\ OnDisk = {} /\ announced = [l \in Loggers |-> 0]
  BY DEF Init, Logged, OnDisk
<1> QED
  BY <1>1, <1>2 DEF Wal!Init

\* The workers, the buffers, the queues, the loggers and their files together
\* do what the write-ahead log of GroupCommit does: the floor of a worker is
\* its CTIDW, and a logger announces an epoch only below the floors of its
\* workers and when all they have committed up to it is on disk.
THEOREM LogRefinesWal == Spec => WalSpec
<1>1. LogPathInv /\ [Next]_vars => [Wal!Next]_(Wal!vars)
  BY WalStep
<1> QED
  BY <1>1, WalInit, LogPathInvariant, PTL DEF Spec, WalSpec, Wal!Spec

\* What a logger has announced is on disk, and so is all that its workers will
\* ever commit up to that epoch.
THEOREM AnnouncedOnDisk == Spec => []DurableLogged
<1>1. WalSpec => WP!Spec
  <2>1. Wal!Init => WP!Init
    BY DEF Wal!Init, WP!Init
  <2>2. [Wal!Next]_(Wal!vars) => [WP!Next]_(WP!vars)
    BY DEF Wal!Next, WP!Next, Wal!vars, WP!vars, Wal!Commit, WP!Commit,
       Wal!Item, WP!Item, Wal!Advance, WP!Advance, Wal!Flush, WP!Flush,
       Wal!Announce, WP!Announce, Wal!Announceable, WP!Announceable
  <2> QED
    BY <2>1, <2>2, PTL DEF WalSpec, Wal!Spec, WP!Spec
<1>2. WP!Spec => []WP!AnnouncedDurable
  BY WP!AnnouncedComplete
<1>3. BaseInv /\ WP!AnnouncedDurable => DurableLogged
  <2> SUFFICES ASSUME BaseInv, WP!AnnouncedDurable, NEW t \in committed,
                      t.epoch <= announced[LoggerOf[t.worker]], t.size # 0
               PROVE  t \in synced[LoggerOf[t.worker]]
    BY DEF DurableLogged, Durable
  <2>1. LoggerOf[t.worker] \in Loggers /\ t.size > 0
    BY LoggerOfAssumption, SizesAssumption
    DEF BaseInv, ShapeInv, WorkerTypeOK, Txn
  <2>2. t \in OnDisk
    BY <2>1 DEF Logged, WP!AnnouncedDurable
  <2> QED
    BY <2>2 DEF OnDisk
<1> QED
  BY <1>1, <1>2, <1>3, LogRefinesWal, BaseInvariant, PTL
=============================================================================
