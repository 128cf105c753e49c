---------------------------- MODULE SiloLogProps ----------------------------
(***************************************************************************)
(* What the logging path of silo_logging promises.                         *)
(***************************************************************************)
EXTENDS SiloLog

Bufs == Workers \X BufIds

InPool(w, b)  == \E i \in 1 .. Len(pool[w]) : pool[w][i] = b
InQueue(w, b) ==
  \E l \in Loggers : \E q \in queue[l] : q.worker = w /\ q.id = b
InBatch(w, b) ==
  \E l \in Loggers : \E q \in batch[l] : q.worker = w /\ q.id = b

\* A log buffer has one owner: it is the current buffer of its worker, or free
\* in the pool, or in the queue of the worker's logger, or in the batch that
\* logger is writing.  LogBuffer has no lock of its own; the hand-over
\* through the queue and the pool (log_buffer.cpp) is all that protects it.
BufferOwned ==
  \A x \in Bufs :
    LET w == x[1]
        b == x[2]
        places == {p \in {"current", "pool", "queue", "batch"} :
                    \/ p = "current" /\ current[w] = b
                    \/ p = "pool" /\ InPool(w, b)
                    \/ p = "queue" /\ InQueue(w, b)
                    \/ p = "batch" /\ InBatch(w, b)}
    IN  /\ Cardinality(places) = 1
        /\ Cardinality({i \in 1 .. Len(pool[w]) : pool[w][i] = b}) <= 1
        /\ \A l \in Loggers \ {LoggerOf[w]} :
             \A q \in queue[l] \cup batch[l] : q.worker # w

\* The log records of a committed transaction are in one place: its worker is
\* about to push them, or they are in one buffer, or they are in the log file
\* of the worker's logger.  None is lost or written twice on the way through
\* the buffers, the queue and WriteBuffer.
LoggedOnce ==
  \A t \in {t \in committed : t.size > 0} :
    LET w == t.worker
        here == {p \in {0} \cup BufIds :
                   IF p = 0 THEN wpc[w] = "push" /\ txn[w] = t
                   ELSE t \in buffer[w][p].txns}
    IN  IF t \in file[LoggerOf[w]] THEN here = {} ELSE Cardinality(here) = 1

\* A buffer that holds records holds those of one epoch, and its min_epoch_,
\* under which the queue files it, is that epoch: the assertion that closes
\* LogBuffer::push, compiled out by NDEBUG.
SingleEpochBuffers ==
  \A x \in Bufs :
    LET c == buffer[x[1]][x[2]]
    IN  /\ c.min_epoch <= c.max_epoch => c.min_epoch = c.max_epoch
        /\ \A t \in c.txns : t.epoch = c.min_epoch
        /\ \A l \in Loggers : \A q \in queue[l] :
             q.worker = x[1] /\ q.id = x[2] => q.key = c.min_epoch

\* LogBuffer::push has no check of its own: the space test before it and the
\* early publication after it keep every buffer within LOG_BUFFER_SIZE.
NoOverflow ==
  \A x \in Bufs : buffer[x[1]][x[2]].log_set_size <= LOG_BUFFER_SIZE

\* On disk, synced by the logger of its worker, or with nothing to log.
Durable(t) == t.size = 0 \/ t \in synced[LoggerOf[t.worker]]

\* What a logger has published as durable is on disk: every transaction that
\* its workers ever commit up to that epoch.  The exception is an epoch found
\* while a worker's CTIDW was still ~0 or the worker had not registered, which
\* find_min_epoch passes over (see DurableComplete).  It takes the worker's
\* order of publish() and CTIDW, the logger's order of CTIDW and queue, and its
\* fsync.
DurableLogged ==
  \A t \in committed : t.epoch <= announced[LoggerOf[t.worker]] => Durable(t)

\* The logging path is the abstract write-ahead log GroupCommit.  The floor of
\* a worker is the epoch in its CTIDW, and 0 while that is ~0; read-only
\* transactions have nothing to log.
Logged == {t \in committed : t.size > 0}
OnDisk == {t \in committed : t.size > 0 /\ t \in synced[LoggerOf[t.worker]]}
Floor  == [w \in Workers |-> IF CTIDW[w] = AllOnes THEN 0 ELSE CTIDW[w]]
Wal == INSTANCE GroupCommit
         WITH floor <- Floor, committed <- Logged, durable <- OnDisk
WalSpec == Wal!Spec

\* The same without the exception: what find_min_epoch ("min_epoch of worker
\* threads") and send_nid_to_notifier ("new durable_epoch") take for granted.
DurableComplete ==
  \A t \in committed :
    t.epoch <= ThLocalDurableEpoch[LoggerOf[t.worker]] => Durable(t)

\* When a logger has ended, all its workers' committed transactions are on
\* disk.
FlushedAtEnd ==
  \A l \in Loggers : lpc[l] \in {"done", "gone"} =>
    \A t \in committed : t.worker \in MyWorkers(l) => Durable(t)

\* Lifetimes: the logger of a worker is a local variable of logger_th, the
\* buffers it writes are members of an executor local to worker_th.  A logger
\* has not ended while a worker may still call it, and an executor has not
\* ended while a logger may still write one of its buffers.
NoUseAfterEnd ==
  /\ \A l \in Loggers : lpc[l] \in {"done", "gone"} =>
       \A w \in MyWorkers(l) : wpc[w] \in {"join", "done"}
  /\ \A w \in Workers : wpc[w] = "done" =>
       \A l \in Loggers : \A q \in queue[l] \cup batch[l] : q.worker # w

\* A worker that waits for a buffer without keeping its epoch moving, in push()
\* with the locks of its transaction or in the publish() of a pause, gets one.
PushEnds ==
  \A w \in Workers :
    wpc[w] \in {"push", "publish"} ~> wpc[w] \notin {"push", "publish"}

\* main joins every thread: after quit every worker and every logger ends,
\* a paused worker included.
ThreadsEnd == quit ~> Ended
=============================================================================
