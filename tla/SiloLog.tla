------------------------------- MODULE SiloLog -------------------------------
(***************************************************************************)
(* The logging path of silo_logging: TxExecutorLog (transaction.cpp), the  *)
(* log buffers (log_buffer.cpp), the queue between workers and loggers     *)
(* (log_queue.h), the loggers (logger.cpp) and, through an instance, the   *)
(* notifier; with the epochs they share, the start-up and the shutdown of  *)
(* the program.                                                            *)
(*                                                                         *)
(* A transaction is what the log needs of it: the epoch its worker         *)
(* published before validating, and how many log records it writes.  How   *)
(* it got to the write phase is SiloCC's matter.                           *)
(***************************************************************************)
EXTENDS Naturals, FiniteSets, Sequences

CONSTANTS
  Workers, Leader,
  LOGGER_NUM,
  LoggerOf,        \* the logger each worker registered with
  BUFFER_NUM,      \* log buffers of a worker
  LOG_BUFFER_SIZE, \* log records in a buffer
  MAX_OPE,         \* operations of a transaction
  EPOCH_DIFF,      \* how far a worker may be ahead of its logger; 0: no limit
  Sizes,           \* the numbers of log records transactions have
  MaxEpoch,        \* bound: the leader stops the clock here
  MaxTxn           \* bound: transactions each worker commits

Loggers == 0 .. LOGGER_NUM - 1

ASSUME LogLeaderAssumption == Leader \in Workers
ASSUME LoggerOfAssumption ==
  LOGGER_NUM \in Nat \ {0} /\ LoggerOf \in [Workers -> Loggers]
ASSUME SizesAssumption ==
  /\ BUFFER_NUM \in Nat \ {0} /\ MAX_OPE \in Nat \ {0}
  /\ EPOCH_DIFF \in Nat
  /\ LOG_BUFFER_SIZE \in Nat /\ MAX_OPE <= LOG_BUFFER_SIZE
  /\ Sizes \subseteq 0 .. MAX_OPE
ASSUME LogBoundsAssumption ==
  MaxEpoch \in Nat \ {0} /\ MaxTxn \in [Workers -> Nat]

VARIABLES
  GlobalEpoch, ThLocalEpoch,
  CTIDW,         \* epoch of CTIDW[w]; AllOnes before its first store
  wpc,           \* per worker: where it is
  loadedGE,      \* per worker: result of atomicLoadGE() not yet stored
  txn,           \* per worker: the transaction being logged
  ntx,           \* per worker: transactions committed
  buffer,        \* per worker: its log buffers
  current,       \* current_buffer_, 0 for NULL
  pool,          \* pool_, the buffers free for use
  queue,         \* per logger: queue_, buffers under their min_epoch_
  lpc,           \* per logger: where it is
  toScan,        \* workers find_min_epoch has still to look at
  min_epoch,     \* per logger: min_epoch so far
  batch,         \* per logger: dequeued buffers still to be written
  file,          \* per logger: transactions written to its log file
  synced,        \* per logger: those fsync has made durable
  quit,          \* main's quit flag
  thid_set,      \* per logger: workers registered that have not ended
  queue_quit,    \* per logger: the queue's quit_
  committed,     \* history: transactions that reached the write phase
  warm,          \* history, per logger: its last scan met all of its workers,
                 \* and no CTIDW of ~0
  announced,     \* history, per logger: the last epoch it published after
                 \* such a scan
  \* the notifier's
  ThLocalDurableEpoch, DurableEpoch, pepoch, npc, idx, min_dl, d, new_dl

N == INSTANCE Notifier

epochVars  == <<GlobalEpoch, ThLocalEpoch>>
txnVars    == <<loadedGE, txn, ntx, committed>>
bufVars    == <<buffer, current, pool>>
scanVars   == <<toScan, min_epoch, warm>>
fileVars   == <<batch, file, synced>>
logVars    == <<lpc, scanVars, fileVars, announced>>
endVars    == <<quit, thid_set, queue_quit>>
notifVars  == <<ThLocalDurableEpoch, DurableEpoch, pepoch, npc, idx, min_dl, d,
                new_dl>>
vars == <<epochVars, CTIDW, wpc, txnVars, bufVars, queue, logVars, endVars,
          notifVars>>

AllOnes == MaxEpoch + 1   \* the epoch of the TIDword ~0, above every other
BufIds  == 1 .. BUFFER_NUM
NoTxn   == [worker |-> Leader, n |-> 0, epoch |-> 0, size |-> 0]
Txn     == [worker : Workers, n : Nat, epoch : Nat, size : 0 .. MAX_OPE]
Buffer  == [txns : SUBSET Txn, log_set_size : Nat, min_epoch : 1 .. AllOnes,
            max_epoch : Nat, used : BOOLEAN]
Queued  == [key : 1 .. AllOnes, worker : Workers, id : BufIds]

\* used: nid_set_ is not empty.  It is never emptied again.
EmptyBuffer == [txns |-> {}, log_set_size |-> 0, min_epoch |-> AllOnes,
                max_epoch |-> 0, used |-> FALSE]

Least(a, b) == IF b < a THEN b ELSE a
Larger(a, b) == IF a < b THEN b ELSE a

MyWorkers(l) == {w \in Workers : LoggerOf[w] = l}

WorkerLabels ==
  {"new", "ready", "check", "publish", "paused", "pausedCTIDW", "recheck",
   "loop", "epochWork", "storeCTIDW", "txn", "storeGE", "valid", "push",
   "newCTIDW", "leave", "term", "join", "done"}
LoggerLabels ==
  {"new", "wait", "idleScan", "logScan", "deq", "write", "send", "notify",
   "final", "done", "gone"}

WorkerTypeOK ==
  /\ GlobalEpoch \in Nat
  /\ ThLocalEpoch \in [Workers -> Nat]
  /\ CTIDW \in [Workers -> 1 .. AllOnes]
  /\ wpc \in [Workers -> WorkerLabels]
  /\ loadedGE \in [Workers -> Nat]
  /\ txn \in [Workers -> Txn]
  /\ ntx \in [Workers -> Nat]
  /\ \A t \in committed : t \in Txn /\ t.epoch >= 1
  /\ quit \in BOOLEAN

BufferTypeOK ==
  /\ buffer \in [Workers -> [BufIds -> Buffer]]
  /\ current \in [Workers -> {0} \cup BufIds]
  /\ pool \in [Workers -> Seq(BufIds)]
  /\ queue \in [Loggers -> SUBSET Queued]
  /\ batch \in [Loggers -> SUBSET Queued]
  /\ file \in [Loggers -> SUBSET Txn]
  /\ synced \in [Loggers -> SUBSET Txn]

LoggerTypeOK ==
  /\ lpc \in [Loggers -> LoggerLabels]
  /\ toScan \in [Loggers -> SUBSET Workers]
  /\ min_epoch \in [Loggers -> 0 .. AllOnes]
  /\ warm \in [Loggers -> BOOLEAN]
  /\ thid_set \in [Loggers -> SUBSET Workers]
  /\ queue_quit \in [Loggers -> BOOLEAN]

TypeOK ==
  /\ WorkerTypeOK /\ BufferTypeOK /\ LoggerTypeOK
  /\ announced \in [Loggers -> Nat]
  /\ N!TypeOK

Init ==
  /\ GlobalEpoch = 1
  /\ ThLocalEpoch = [w \in Workers |-> 0]
  /\ CTIDW = [w \in Workers |-> AllOnes]
  /\ wpc = [w \in Workers |-> "new"]
  /\ loadedGE = [w \in Workers |-> 0]
  /\ txn = [w \in Workers |-> NoTxn]
  /\ ntx = [w \in Workers |-> 0]
  /\ buffer = [w \in Workers |-> [b \in BufIds |-> EmptyBuffer]]
  /\ current = [w \in Workers |-> 1]
  /\ pool = [w \in Workers |-> [i \in 1 .. BUFFER_NUM - 1 |-> i + 1]]
  /\ queue = [l \in Loggers |-> {}]
  /\ lpc = [l \in Loggers |-> "new"]
  /\ toScan = [l \in Loggers |-> {}]
  /\ min_epoch = [l \in Loggers |-> 0]
  /\ batch = [l \in Loggers |-> {}]
  /\ file = [l \in Loggers |-> {}]
  /\ synced = [l \in Loggers |-> {}]
  /\ warm = [l \in Loggers |-> TRUE]
  /\ announced = [l \in Loggers |-> 0]
  /\ quit = FALSE
  /\ thid_set = [l \in Loggers |-> {}]
  /\ queue_quit = [l \in Loggers |-> FALSE]
  /\ committed = {}
  /\ N!Init

WGoto(w, label) == wpc' = [wpc EXCEPT ![w] = label]
LGoto(l, label) == lpc' = [lpc EXCEPT ![l] = label]

-----------------------------------------------------------------------------
(* Start-up: loggers, workers and main wait for one another.               *)

\* logger_th: the constructor of Logger opens the pepoch file.
OpenPepoch(l) ==
  /\ lpc[l] = "new"
  /\ N!Open(l)
  /\ UNCHANGED <<epochVars, CTIDW, wpc, txnVars, bufVars, queue, logVars,
                 endVars, new_dl>>

\* Then logger_th stores the logger where its workers look for it (logp).
StoreLogp(l) ==
  /\ lpc[l] = "new"
  /\ npc[l] = "out"
  /\ LGoto(l, "wait")
  /\ UNCHANGED <<epochVars, CTIDW, wpc, txnVars, bufVars, queue, scanVars,
                 fileVars, announced, endVars, notifVars>>

\* Mutated: a logger that has not been stored is not waited for.
RegisterAnyway(w) ==
  /\ wpc[w] = "new"
  /\ thid_set' = IF lpc[LoggerOf[w]] = "new" THEN thid_set
                 ELSE [thid_set EXCEPT ![LoggerOf[w]] = @ \cup {w}]
  /\ WGoto(w, "ready")
  /\ UNCHANGED <<epochVars, CTIDW, txnVars, bufVars, queue, logVars, quit,
                 queue_quit, notifVars>>

\* add_tx_executor, once logp is set: thid_vec_ is the set of the workers
\* that are past this step, thid_set_ those of them that have not ended.
Register(w) ==
  /\ wpc[w] = "new"
  /\ lpc[LoggerOf[w]] # "new"
  /\ thid_set' = [thid_set EXCEPT ![LoggerOf[w]] = @ \cup {w}]
  /\ WGoto(w, "ready")
  /\ UNCHANGED <<epochVars, CTIDW, txnVars, bufVars, queue, logVars, quit,
                 queue_quit, notifVars>>

Registered(l) == {w \in MyWorkers(l) : wpc[w] # "new"}

\* Where a worker comes back to for its next attempt: durableEpochWork begins
\* with the pause only if EPOCH_DIFF is set.
MainLoop == IF EPOCH_DIFF > 0 THEN "check" ELSE "loop"

Started == \A w \in Workers : wpc[w] \notin {"new", "ready"}

\* waitForReady, then start.  The workers spin on the flag and change nothing
\* until they see it, so all of them leave the loop here.
Start ==
  /\ \A w \in Workers : wpc[w] = "ready"
  /\ wpc' = [w \in Workers |-> MainLoop]
  /\ UNCHANGED <<epochVars, CTIDW, txnVars, bufVars, queue, logVars, endVars,
                 notifVars>>

-----------------------------------------------------------------------------
(* The worker between two transactions.                                    *)

EpochLoaded == \A w \in Workers \ {Leader} : ThLocalEpoch[w] = GlobalEpoch

\* leaderWork, from the main loop or from epochWork.
AdvanceEpoch ==
  /\ wpc[Leader] \in {MainLoop, "epochWork", "paused"}
  /\ GlobalEpoch < MaxEpoch
  /\ EpochLoaded
  /\ GlobalEpoch' = GlobalEpoch + 1
  /\ UNCHANGED <<ThLocalEpoch, CTIDW, wpc, txnVars, bufVars, queue, logVars,
                 endVars, notifVars>>

Cur(w) == buffer[w][current[w]]

\* is_ready: the current buffer, or else the last one that was returned.
Ready(w) == current[w] # 0 \/ pool[w] # <<>>
AtHand(w) == IF current[w] # 0 THEN current[w] ELSE pool[w][Len(pool[w])]
PoolRest(w) ==
  IF current[w] # 0 THEN pool
  ELSE [pool EXCEPT ![w] = SubSeq(@, 1, Len(@) - 1)]

\* publish(): enqueue buffer b of w, with contents c, under its min_epoch_.
Enqueued(w, b, c) ==
  [queue EXCEPT ![LoggerOf[w]] =
     @ \cup {[key |-> c.min_epoch, worker |-> w, id |-> b]}]

PauseCondition(w) ==
  ThLocalEpoch[w] > ThLocalDurableEpoch[LoggerOf[w]] + EPOCH_DIFF

\* durableEpochWork: pause this worker until the durable epoch catches up.
PauseCheck(w) ==
  /\ wpc[w] = "check"
  /\ WGoto(w, IF PauseCondition(w) THEN "publish" ELSE "loop")
  /\ UNCHANGED <<epochVars, CTIDW, txnVars, bufVars, queue, logVars, endVars,
                 notifVars>>

\* publish() of a pausing worker, which waits for a buffer without epochWork.
PausePublish(w) ==
  /\ wpc[w] = "publish"
  /\ Ready(w)
  /\ pool' = PoolRest(w)
  /\ LET b == AtHand(w)
     IN  IF buffer[w][b].used
         THEN /\ queue' = Enqueued(w, b, buffer[w][b])
              /\ current' = [current EXCEPT ![w] = 0]
         ELSE /\ current' = [current EXCEPT ![w] = b]
              /\ UNCHANGED queue
  /\ WGoto(w, "paused")
  /\ UNCHANGED <<epochVars, CTIDW, txnVars, buffer, logVars, endVars,
                 notifVars>>

\* Mutated: a paused worker does not look at quit.
PauseRecheckOnly(w) ==
  /\ wpc[w] = "recheck"
  /\ WGoto(w, IF PauseCondition(w) THEN "paused" ELSE "loop")
  /\ UNCHANGED <<epochVars, CTIDW, txnVars, bufVars, queue, logVars, endVars,
                 notifVars>>

\* After each epochWork of the pause: quit first, then the condition again.
PauseRecheck(w) ==
  /\ wpc[w] = "recheck"
  /\ WGoto(w, IF quit THEN "leave"
              ELSE IF PauseCondition(w) THEN "paused" ELSE "loop")
  /\ UNCHANGED <<epochVars, CTIDW, txnVars, bufVars, queue, logVars, endVars,
                 notifVars>>

\* is_ready in durableEpochWork: the last buffer returned becomes current.
GetBuffer(w) ==
  /\ wpc[w] = "loop"
  /\ current[w] = 0
  /\ Ready(w)
  /\ current' = [current EXCEPT ![w] = AtHand(w)]
  /\ pool' = PoolRest(w)
  /\ UNCHANGED <<epochVars, CTIDW, wpc, txnVars, buffer, queue, logVars,
                 endVars, notifVars>>

\* is_ready finds no buffer: epochWork keeps the epochs moving meanwhile.
NotReady(w) ==
  /\ wpc[w] = "loop"
  /\ ~Ready(w)
  /\ WGoto(w, "epochWork")
  /\ UNCHANGED <<epochVars, CTIDW, txnVars, bufVars, queue, logVars, endVars,
                 notifVars>>

\* Load and store of the epoch are one step, as in SiloCC.
EpochWork(w) ==
  /\ wpc[w] \in {"epochWork", "paused"}
  /\ ThLocalEpoch' = [ThLocalEpoch EXCEPT ![w] = GlobalEpoch]
  /\ WGoto(w, IF wpc[w] = "paused" THEN "pausedCTIDW" ELSE "storeCTIDW")
  /\ UNCHANGED <<GlobalEpoch, CTIDW, txnVars, bufVars, queue, logVars, endVars,
                 notifVars>>

\* CTIDW is stored only when its epoch changes.  A worker that waits for a
\* buffer then looks at quit.
StoreCTIDW(w) ==
  /\ wpc[w] \in {"storeCTIDW", "pausedCTIDW"}
  /\ CTIDW' = [CTIDW EXCEPT ![w] = ThLocalEpoch[w]]
  /\ WGoto(w, IF wpc[w] = "pausedCTIDW" THEN "recheck"
              ELSE IF quit THEN "leave" ELSE "loop")
  /\ UNCHANGED <<epochVars, txnVars, bufVars, queue, logVars, endVars,
                 notifVars>>

-----------------------------------------------------------------------------
(* The worker's transaction, from validation to the end of wal().          *)

Begin(w) ==
  /\ wpc[w] = "loop"
  /\ ~quit
  /\ current[w] # 0
  /\ ntx[w] < MaxTxn[w]
  /\ WGoto(w, "txn")
  /\ UNCHANGED <<epochVars, CTIDW, txnVars, bufVars, queue, logVars, endVars,
                 notifVars>>

LoadGE(w) ==
  /\ wpc[w] = "txn"
  /\ loadedGE' = [loadedGE EXCEPT ![w] = GlobalEpoch]
  /\ WGoto(w, "storeGE")
  /\ UNCHANGED <<epochVars, CTIDW, txn, ntx, committed, bufVars, queue,
                 logVars, endVars, notifVars>>

\* Mutated: the loaded epoch is not stored.
DropLoadedGE(w) ==
  /\ wpc[w] = "storeGE"
  /\ loadedGE' = [loadedGE EXCEPT ![w] = 0]
  /\ WGoto(w, "valid")
  /\ UNCHANGED <<epochVars, CTIDW, txn, ntx, committed, bufVars, queue,
                 logVars, endVars, notifVars>>

StoreThLocalEpoch(w) ==
  /\ wpc[w] = "storeGE"
  /\ ThLocalEpoch' = [ThLocalEpoch EXCEPT ![w] = loadedGE[w]]
  /\ loadedGE' = [loadedGE EXCEPT ![w] = 0]
  /\ WGoto(w, "valid")
  /\ UNCHANGED <<GlobalEpoch, CTIDW, txn, ntx, committed, bufVars, queue,
                 logVars, endVars, notifVars>>

\* Validation fails: the epoch stays published, the log hears nothing.
Abort(w) ==
  /\ wpc[w] = "valid"
  /\ WGoto(w, MainLoop)
  /\ UNCHANGED <<epochVars, CTIDW, txnVars, bufVars, queue, logVars, endVars,
                 notifVars>>

\* Mutated: a new epoch is not noticed.
NeverNewEpoch(w) == FALSE

\* new_epoch_begins
NewEpochBegins(w) == CTIDW[w] # ThLocalEpoch[w]

\* The transaction is decided, with n log records: wal() calls push(), which
\* first publishes the current buffer if it is too full or of another epoch.
Commit(w) ==
  /\ wpc[w] = "valid"
  /\ \E n \in Sizes :
       LET t == [worker |-> w, n |-> ntx[w] + 1, epoch |-> ThLocalEpoch[w],
                 size |-> n]
           full == Cur(w).log_set_size + n > LOG_BUFFER_SIZE
       IN  /\ txn' = [txn EXCEPT ![w] = t]
           /\ committed' = committed \cup {t}
           /\ IF (full \/ NewEpochBegins(w)) /\ Cur(w).used
              THEN /\ queue' = Enqueued(w, current[w], Cur(w))
                   /\ current' = [current EXCEPT ![w] = 0]
              ELSE UNCHANGED <<queue, current>>
  /\ ntx' = [ntx EXCEPT ![w] = @ + 1]
  /\ WGoto(w, "push")
  /\ UNCHANGED <<epochVars, CTIDW, loadedGE, buffer, pool, logVars, endVars,
                 notifVars>>

\* LogBuffer::push: contents c after transaction t.
Appended(c, t) ==
  [txns |-> IF t.size = 0 THEN c.txns ELSE c.txns \cup {t},
   log_set_size |-> c.log_set_size + t.size,
   min_epoch |-> Least(c.min_epoch, t.epoch),
   max_epoch |-> Larger(c.max_epoch, t.epoch),
   used |-> TRUE]

\* "better full": no room for another transaction of MAX_OPE records.
Full(c) == c.log_set_size + MAX_OPE > LOG_BUFFER_SIZE

\* push() once a buffer is ready, which it waits for without epochWork.
Push(w) ==
  /\ wpc[w] = "push"
  /\ Ready(w)
  /\ pool' = PoolRest(w)
  /\ LET b == AtHand(w)
         c == Appended(buffer[w][b], txn[w])
     IN  /\ buffer' = [buffer EXCEPT ![w][b] = c]
         /\ IF Full(c)
            THEN /\ queue' = Enqueued(w, b, c)
                 /\ current' = [current EXCEPT ![w] = 0]
            ELSE /\ current' = [current EXCEPT ![w] = b]
                 /\ UNCHANGED queue
  /\ WGoto(w, "newCTIDW")
  /\ UNCHANGED <<epochVars, CTIDW, txnVars, logVars, endVars, notifVars>>

\* wal() stores CTIDW if a new epoch began; the transaction is then over, and
\* the main loop looks at quit.
NewCTIDW(w) ==
  /\ wpc[w] = "newCTIDW"
  /\ CTIDW' = [CTIDW EXCEPT ![w] = ThLocalEpoch[w]]
  /\ txn' = [txn EXCEPT ![w] = NoTxn]
  /\ WGoto(w, IF quit THEN "leave" ELSE MainLoop)
  /\ UNCHANGED <<epochVars, loadedGE, ntx, committed, bufVars, queue, logVars,
                 endVars, notifVars>>

-----------------------------------------------------------------------------
(* The end of the run: main, then the workers.                             *)

Quit ==
  /\ Started
  /\ ~quit
  /\ quit' = TRUE
  /\ UNCHANGED <<epochVars, CTIDW, wpc, txnVars, bufVars, queue, logVars,
                 thid_set, queue_quit, notifVars>>

\* The worker has seen quit, or is about to after is_ready.
Leaving(w) ==
  \/ wpc[w] = "leave"
  \/ wpc[w] = "loop" /\ current[w] # 0 /\ quit

\* Mutated: the last buffer stays with the worker.
TerminateSilently(w) ==
  /\ Leaving(w)
  /\ WGoto(w, "term")
  /\ UNCHANGED <<epochVars, CTIDW, txnVars, bufVars, queue, logVars, endVars,
                 notifVars>>

\* LogBufferPool::terminate
Terminate(w) ==
  /\ Leaving(w)
  /\ IF current[w] # 0 /\ Cur(w).used
     THEN /\ queue' = Enqueued(w, current[w], Cur(w))
          /\ current' = [current EXCEPT ![w] = 0]
     ELSE UNCHANGED <<queue, current>>
  /\ WGoto(w, "term")
  /\ UNCHANGED <<epochVars, CTIDW, txnVars, buffer, pool, logVars, endVars,
                 notifVars>>

\* Mutated: any worker that ends stops the logger.
WorkerEndFirst(w) ==
  /\ wpc[w] = "term"
  /\ thid_set' = [thid_set EXCEPT ![LoggerOf[w]] = @ \ {w}]
  /\ queue_quit' = [queue_quit EXCEPT ![LoggerOf[w]] = TRUE]
  /\ WGoto(w, "join")
  /\ UNCHANGED <<epochVars, CTIDW, txnVars, bufVars, queue, logVars, quit,
                 notifVars>>

\* Mutated: the queue is never stopped.
WorkerEndQuietly(w) ==
  /\ wpc[w] = "term"
  /\ thid_set' = [thid_set EXCEPT ![LoggerOf[w]] = @ \ {w}]
  /\ WGoto(w, "join")
  /\ UNCHANGED <<epochVars, CTIDW, txnVars, bufVars, queue, logVars, quit,
                 queue_quit, notifVars>>

\* worker_end: the last worker of a logger stops the logger's queue.
WorkerEnd(w) ==
  /\ wpc[w] = "term"
  /\ thid_set' = [thid_set EXCEPT ![LoggerOf[w]] = @ \ {w}]
  /\ queue_quit' = [queue_quit EXCEPT ![LoggerOf[w]] =
                      thid_set'[LoggerOf[w]] = {}]
  /\ WGoto(w, "join")
  /\ UNCHANGED <<epochVars, CTIDW, txnVars, bufVars, queue, logVars, quit,
                 notifVars>>

\* worker_end waits on cv_finish_ for logger_end; worker_th then returns and
\* with it go the executor and its log buffers.
Join(w) ==
  /\ wpc[w] = "join"
  /\ lpc[LoggerOf[w]] \in {"done", "gone"}
  /\ WGoto(w, "done")
  /\ UNCHANGED <<epochVars, CTIDW, txnVars, bufVars, queue, logVars, endVars,
                 notifVars>>

WorkerStep(w) ==
  \/ Register(w)
  \/ PauseCheck(w) \/ PausePublish(w) \/ PauseRecheck(w)
  \/ GetBuffer(w) \/ NotReady(w) \/ EpochWork(w) \/ StoreCTIDW(w)
  \/ Begin(w) \/ LoadGE(w) \/ StoreThLocalEpoch(w) \/ Abort(w)
  \/ Commit(w) \/ Push(w) \/ NewCTIDW(w)
  \/ Terminate(w) \/ WorkerEnd(w) \/ Join(w)

-----------------------------------------------------------------------------
(* The logger waits for a buffer, at most for the length of an epoch.      *)

FindMinEpoch(l, then) ==
  /\ toScan' = [toScan EXCEPT ![l] = Registered(l)]
  /\ min_epoch' = [min_epoch EXCEPT ![l] = AllOnes]
  /\ warm' = [warm EXCEPT ![l] = Registered(l) = MyWorkers(l)]
  /\ LGoto(l, then)

\* logging(false)
LogWake(l) ==
  /\ lpc[l] = "wait"
  /\ queue[l] # {}
  /\ FindMinEpoch(l, "logScan")
  /\ UNCHANGED <<epochVars, CTIDW, wpc, txnVars, bufVars, queue, fileVars,
                 announced, endVars, notifVars>>

\* wait_deq: the queue's wait_for runs into its timeout.
LogTimeout(l) ==
  /\ lpc[l] = "wait"
  /\ queue[l] = {} /\ ~queue_quit[l]
  /\ FindMinEpoch(l, "idleScan")
  /\ UNCHANGED <<epochVars, CTIDW, wpc, txnVars, bufVars, queue, fileVars,
                 announced, endVars, notifVars>>

\* logging(true), which finds the queue empty, calls make_durable.
LogQuit(l) ==
  /\ lpc[l] = "wait"
  /\ queue[l] = {} /\ queue_quit[l]
  /\ N!SendLast(l)
  /\ LGoto(l, "final")
  /\ UNCHANGED <<epochVars, CTIDW, wpc, txnVars, bufVars, queue, scanVars,
                 fileVars, announced, endVars>>

\* The loop of find_min_epoch over thid_vec_ as it was when the loop began.  A
\* CTIDW of ~0 is the least only if all are.
Scan(l) ==
  /\ lpc[l] \in {"idleScan", "logScan"}
  /\ \E w \in toScan[l] :
       /\ toScan' = [toScan EXCEPT ![l] = @ \ {w}]
       /\ min_epoch' = [min_epoch EXCEPT ![l] = Least(@, CTIDW[w])]
       /\ warm' = [warm EXCEPT ![l] = @ /\ CTIDW[w] # AllOnes]
  /\ UNCHANGED <<epochVars, CTIDW, wpc, txnVars, bufVars, queue, lpc,
                 fileVars, announced, endVars, notifVars>>

\* LogQueue::min_epoch
QueueMinEpoch(l) ==
  CHOOSE e \in 1 .. AllOnes :
    /\ \A q \in queue[l] : e <= q.key
    /\ e = AllOnes \/ \E q \in queue[l] : e = q.key

\* Mutated: the queue is not looked at.
CtidwOnly(l) == IF min_epoch[l] = AllOnes THEN 0 ELSE min_epoch[l]

\* What find_min_epoch returns; 0 while no worker has stored a CTIDW.
FoundMin(l) ==
  IF min_epoch[l] = AllOnes THEN 0 ELSE Least(min_epoch[l], QueueMinEpoch(l))

\* Both callers do nothing more if find_min_epoch returned 0.
ScanQueue(l) ==
  /\ lpc[l] \in {"idleScan", "logScan"}
  /\ toScan[l] = {}
  /\ min_epoch' = [min_epoch EXCEPT ![l] = FoundMin(l)]
  /\ LGoto(l, IF FoundMin(l) = 0 THEN "wait"
             ELSE IF lpc[l] = "idleScan" THEN "send" ELSE "deq")
  /\ UNCHANGED <<epochVars, CTIDW, wpc, txnVars, bufVars, queue, toScan, warm,
                 fileVars, announced, endVars, notifVars>>

-----------------------------------------------------------------------------
(* logging(false) writes the buffers out and tells the notifier.           *)

Deq(l) ==
  /\ lpc[l] = "deq"
  /\ batch' = [batch EXCEPT ![l] = queue[l]]
  /\ queue' = [queue EXCEPT ![l] = {}]
  /\ LGoto(l, "write")
  /\ UNCHANGED <<epochVars, CTIDW, wpc, txnVars, bufVars, scanVars, file,
                 synced, announced, endVars, notifVars>>

\* Mutated: the log set is not cleared.
EpochsReset(c) == [c EXCEPT !.min_epoch = AllOnes, !.max_epoch = 0]

\* The contents after write() and the reset that stands for pass_nid().
Written(c) == [EmptyBuffer EXCEPT !.used = c.used]

\* Mutated: a buffer without records is dropped.
ReturnIfUsed(q) ==
  IF buffer[q.worker][q.id].log_set_size = 0 THEN pool
  ELSE [pool EXCEPT ![q.worker] = Append(@, q.id)]

\* Mutated: no buffer goes back.
ReturnNone(q) == pool

\* LogBuffer::return_buffer
Return(q) == [pool EXCEPT ![q.worker] = Append(@, q.id)]

\* The buffers are written, and go back, one by one in the order of their keys.
WriteBuffer(l) ==
  /\ lpc[l] = "write"
  /\ \E q \in batch[l] :
       /\ \A r \in batch[l] : q.key <= r.key
       /\ batch' = [batch EXCEPT ![l] = @ \ {q}]
       /\ file' = [file EXCEPT ![l] = @ \cup buffer[q.worker][q.id].txns]
       /\ buffer' = [buffer EXCEPT ![q.worker][q.id] = Written(@)]
       /\ pool' = Return(q)
  /\ UNCHANGED <<epochVars, CTIDW, wpc, txnVars, current, queue, lpc,
                 scanVars, synced, announced, endVars, notifVars>>

\* Mutated: no fsync.
NoSync(l) == synced

Synced(l) == [synced EXCEPT ![l] = file[l]]

Sync(l) ==
  /\ lpc[l] = "write"
  /\ batch[l] = {}
  /\ synced' = Synced(l)
  /\ LGoto(l, "send")
  /\ UNCHANGED <<epochVars, CTIDW, wpc, txnVars, bufVars, queue, scanVars,
                 batch, file, announced, endVars, notifVars>>

\* new_dl in send_nid_to_notifier
NewDl(l) == min_epoch[l] - 1

SendNid(l) ==
  /\ lpc[l] = "send"
  /\ IF N!NewerDl(l, NewDl(l))
     THEN N!Send(l, NewDl(l)) /\ LGoto(l, "notify")
     ELSE UNCHANGED notifVars /\ LGoto(l, "wait")
  /\ min_epoch' = [min_epoch EXCEPT ![l] = 0]
  /\ UNCHANGED <<epochVars, CTIDW, wpc, txnVars, bufVars, queue, toScan, warm,
                 fileVars, announced, endVars>>

\* The steps of check_durable, in a call of send_nid_to_notifier or the last.
NotifyStep(l) ==
  /\ lpc[l] \in {"notify", "final"}
  /\ N!CheckStep(l)
  /\ UNCHANGED <<epochVars, CTIDW, wpc, txnVars, bufVars, queue, logVars,
                 endVars, new_dl>>

PublishDl(l) ==
  /\ lpc[l] = "notify"
  /\ N!Publish(l)
  /\ announced' = [announced EXCEPT ![l] = IF warm[l] THEN new_dl[l] ELSE @]
  /\ LGoto(l, "wait")
  /\ UNCHANGED <<epochVars, CTIDW, wpc, txnVars, bufVars, queue, scanVars,
                 fileVars, endVars>>

\* logger_end: the log file is closed and the workers are released.
LoggerEnd(l) ==
  /\ lpc[l] = "final"
  /\ N!ReturnLast(l)
  /\ LGoto(l, "done")
  /\ UNCHANGED <<epochVars, CTIDW, wpc, txnVars, bufVars, queue, scanVars,
                 fileVars, announced, endVars>>

\* logger_th returns and its Logger is destroyed.
LoggerReturns(l) ==
  /\ lpc[l] = "done"
  /\ LGoto(l, "gone")
  /\ UNCHANGED <<epochVars, CTIDW, wpc, txnVars, bufVars, queue, scanVars,
                 fileVars, announced, endVars, notifVars>>

LoggerStep(l) ==
  \/ OpenPepoch(l) \/ StoreLogp(l)
  \/ LogWake(l) \/ LogTimeout(l) \/ LogQuit(l) \/ Scan(l) \/ ScanQueue(l)
  \/ Deq(l) \/ WriteBuffer(l) \/ Sync(l) \/ SendNid(l) \/ NotifyStep(l)
  \/ PublishDl(l) \/ LoggerEnd(l) \/ LoggerReturns(l)

Ended ==
  /\ \A w \in Workers : wpc[w] = "done"
  /\ \A l \in Loggers : lpc[l] = "gone"

\* Joined threads: the program is over.
Joined == Ended /\ UNCHANGED vars

Next ==
  \/ Start \/ AdvanceEpoch \/ Quit \/ Joined
  \/ \E w \in Workers : WorkerStep(w)
  \/ \E l \in Loggers : LoggerStep(l)

Spec == Init /\ [][Next]_vars

\* Every thread is scheduled again and again.  A worker's own choice between
\* committing and aborting is not constrained, and neither is the clock.
Fairness ==
  /\ \A w \in Workers : WF_vars(WorkerStep(w))
  /\ \A l \in Loggers : WF_vars(LoggerStep(l))
FairSpec == Spec /\ Fairness
=============================================================================
