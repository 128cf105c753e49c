---------------------------- MODULE SiloCCProps ----------------------------
(***************************************************************************)
(* What the concurrency control of silo_logging must guarantee.            *)
(***************************************************************************)
EXTENDS SiloCC

\* The records worker w has locked, by where it is in its loops.
Held(w) ==
  CASE pc[w] = "lock" -> writeSet[w] \ pending[w]
    [] pc[w] \in {"storeGE", "validate", "wal"} -> writeSet[w]
    [] pc[w] \in {"write", "release", "unlock"} -> pending[w]
    [] OTHER -> {}

\* Committed transactions that write k.
WritersOf(k) == {t \in history : k \in t.writes}

\* What partTableInit left in a record was read.
Initial(r) == r.tid = InitTid /\ r.val = NoWorker

\* The read r saw the write of transaction u.
ReadsFrom(r, u) == r.key \in u.writes /\ r.tid = u.tid /\ r.val = u.worker

\* The identifiers have not come to the end of their field.
TidRoom ==
  /\ \A k \in Keys : tidword[k].tid.TID < TIDMod - 1
  /\ \A w \in Workers : mrctid[w].TID < TIDMod - 1

-----------------------------------------------------------------------------
\* A record is locked exactly when one worker is between locking it and
\* releasing it, and never two: no path of lockWriteSet, validationPhase,
\* writePhase or the two unlockWriteSet leaves a lock behind or drops the lock
\* of another worker.
LockInv ==
  /\ \A k \in Keys : tidword[k].lock <=> \E w \in Workers : k \in Held(w)
  /\ \A w, u \in Workers : w # u => Held(w) \cap Held(u) = {}

\* read() never pairs a payload with an identifier of another version, though
\* the copy takes no lock and writePhase stores payload and identifier apart.
ReadsCommittedVersion ==
  \A w \in Workers : \A i \in DOMAIN readSet[w] :
    LET r == readSet[w][i]
    IN  Initial(r) \/ \E u \in WritersOf(r.key) : ReadsFrom(r, u)

\* Committed transactions are serializable in the order in which they loaded
\* the global epoch between the two validation phases: every read returns the
\* last write before it in that order.
Serializable ==
  \A t \in history : \A i \in DOMAIN t.reads :
    LET r == t.reads[i]
        earlier == {u \in WritersOf(r.key) : u.stamp < t.stamp}
    IN  \/ earlier = {} /\ Initial(r)
        \/ \E u \in earlier : /\ ReadsFrom(r, u)
                              /\ \A v \in earlier : v.stamp <= u.stamp

\* The log's order is the serialization order where it matters: of two
\* transactions that write the same record, the one serialized later has the
\* larger identifier.
VersionOrder ==
  \A t, u \in history :
    t.stamp < u.stamp /\ t.writes \cap u.writes # {} => TidLess(t.tid, u.tid)

\* Cutting the log after an epoch cuts the serialization order at one point:
\* a transaction serialized earlier is never in a later epoch, and the epoch
\* inside its identifier is the one it loaded, whatever records it touched.
EpochOrder ==
  \A t, u \in history :
    /\ t.tid.epoch = t.epoch
    /\ t.stamp < u.stamp => t.epoch <= u.epoch

\* A transaction commits in the global epoch or in the one before, so that
\* an epoch two behind receives no more log records.
CommitsInLiveEpoch ==
  [][\A t \in history' \ history :
       t.epoch \in {GlobalEpoch - 1, GlobalEpoch}]_vars

\* Write-ahead logging: the newest log record of an unlocked record is what
\* the table holds, so replaying the log rebuilds the table.
LogHoldsTable ==
  \A k \in Keys : ~tidword[k].lock =>
    LET recs == {r \in log : r.key = k}
    IN  \/ recs = {} /\ tidword[k].tid = InitTid /\ val[k] = NoWorker
        \/ \E r \in recs : /\ r.tid = tidword[k].tid /\ r.val = val[k]
                           /\ \A s \in recs : TidLeq(s.tid, r.tid)

\* The identifier of a record only grows.
TidMonotone ==
  [][\A k \in Keys : tidword'[k].tid # tidword[k].tid =>
                       TidLess(tidword[k].tid, tidword'[k].tid)]_vars

\* The identifiers one worker issues only grow.
WorkerTidMonotone ==
  [][\A w \in Workers : mrctid'[w] # mrctid[w] =>
                          TidLess(mrctid[w], mrctid'[w])]_vars

\* The clock and the published epochs are the abstract epoch clock.
Clock == INSTANCE EpochClock
ClockSpec == Clock!Spec

\* No worker but the leader is more than one epoch behind.
EpochLag ==
  \A w \in Workers \ {Leader} :
    ThLocalEpoch[w] \in {GlobalEpoch - 1, GlobalEpoch}

\* No record stays locked: whoever locked it commits or aborts, and unlocks.
LocksReleased == \A k \in Keys : tidword[k].lock ~> ~tidword[k].lock
=============================================================================
