--------------------------- MODULE NotifierProofs ---------------------------
(***************************************************************************)
(* Proofs about the notifier, for any number of loggers and any epochs.    *)
(* All rest on one inductive invariant, NInv: what the steps of            *)
(* check_durable know of the epochs they have loaded.                      *)
(***************************************************************************)
EXTENDS Notifier, TLAPS

\* The minimum so far is below the entries already loaded, all of them once the
\* loop is over: entries only grow.
Scanned ==
  \A l \in Loggers : npc[l] \in {"scan", "cas", "pepoch", "ret"} =>
    /\ \A j \in 0 .. idx[l] - 1 : min_dl[l] <= ThLocalDurableEpoch[j]
    /\ npc[l] # "scan" => idx[l] = LOGGER_NUM

\* A compare-and-exchange that succeeds raises DurableEpoch, and what is
\* stored in the file has been a durable epoch.
Raising ==
  \A l \in Loggers :
    /\ npc[l] = "cas" => d[l] < min_dl[l]
    /\ npc[l] = "pepoch" => min_dl[l] > 0 /\ min_dl[l] <= DurableEpoch

\* Nobody else moves the entry of a logger that is about to move it, and it
\* stays 0 until the logger has opened the file.
Pending ==
  \A l \in Loggers :
    /\ new_dl[l] # 0 => ThLocalDurableEpoch[l] < new_dl[l]
    /\ npc[l] \in {"new", "opened"} =>
         ThLocalDurableEpoch[l] = 0 /\ new_dl[l] = 0

NInv == /\ TypeOK
        /\ Scanned /\ Raising /\ Pending
        /\ DurableBelowLoggers /\ PepochNotAhead

\* The notifier starts in a state of the invariant.
LEMMA NotifierStart == Init => NInv
BY LoggerNumAssumption
DEF Init, NotifierInit, NInv, TypeOK, NotifierTypeOK, Scanned, Raising,
    Pending,
    DurableBelowLoggers, PepochNotAhead, Loggers

\* check_durable reads the entry of logger 0 first.
LEMMA LoggerZero == 0 \in Loggers
BY LoggerNumAssumption DEF Loggers

\* The file is emptied and set to 0.
LEMMA OpenKeeps ==
  ASSUME NInv, NEW l \in Loggers, Open(l), UNCHANGED new_dl
  PROVE NInv'
<1>1. (TypeOK /\ Scanned)'
  BY DEF Open, Truncate, WriteZero, Step, NInv, TypeOK, NotifierTypeOK, Scanned
<1>2. (Raising /\ Pending)'
  BY DEF Open, Truncate, WriteZero, Step, NInv, TypeOK, NotifierTypeOK, Raising,
         Pending
<1>3. (DurableBelowLoggers /\ PepochNotAhead)'
  BY DEF Open, Truncate, WriteZero, NInv, TypeOK, NotifierTypeOK,
         DurableBelowLoggers, PepochNotAhead
<1> QED BY <1>1, <1>2, <1>3 DEF NInv

\* What the steps of one logger l do to the invariant, one lemma for each.
LEMMA EnterStep ==
  ASSUME NInv, NEW l \in Loggers, EnterCheck(l), NEW e \in Nat,
         new_dl' = [new_dl EXCEPT ![l] = e],
         e # 0 => ThLocalDurableEpoch[l] < e
  PROVE NInv'
<1>1. TypeOK'
  <2>1. 1 \in 0 .. LOGGER_NUM
    BY LoggerNumAssumption
  <2> QED BY <2>1, LoggerZero
    DEF EnterCheck, Step, durableVars, NInv, TypeOK, NotifierTypeOK
<1>2. Scanned'
  <2>1. \A k \in Loggers : k # l =>
           npc'[k] = npc[k] /\ idx'[k] = idx[k] /\ min_dl'[k] = min_dl[k]
    BY DEF EnterCheck, Step, NInv, TypeOK, NotifierTypeOK
  <2>2. npc'[l] = "scan" /\ idx'[l] = 1 /\ min_dl'[l] = ThLocalDurableEpoch[0]
    BY DEF EnterCheck, Step, NInv, TypeOK, NotifierTypeOK
  <2>3. ThLocalDurableEpoch[0] <= ThLocalDurableEpoch[0]
    BY LoggerZero DEF NInv, TypeOK, NotifierTypeOK
  <2>4. UNCHANGED ThLocalDurableEpoch
    BY DEF EnterCheck
  <2> QED BY <2>1, <2>2, <2>3, <2>4 DEF NInv, Scanned
<1>3. (Raising /\ Pending)'
  BY DEF EnterCheck, Step, durableVars, NInv, TypeOK, NotifierTypeOK, Raising,
         Pending
<1>4. (DurableBelowLoggers /\ PepochNotAhead)'
  BY DEF EnterCheck, durableVars, NInv, DurableBelowLoggers, PepochNotAhead
<1> QED BY <1>1, <1>2, <1>3, <1>4 DEF NInv

\* A step of the scan in check_durable: the minimum so far covers one more entry.
LEMMA ScanKeeps ==
  ASSUME NInv, NEW l \in Loggers, ScanDl(l), UNCHANGED new_dl
  PROVE NInv'
<1>1. idx[l] \in 0 .. LOGGER_NUM /\ idx[l] < LOGGER_NUM
  BY DEF ScanDl, NInv, TypeOK, NotifierTypeOK
<1>2. idx[l] \in Loggers /\ idx[l] \in Nat /\ idx[l] + 1 \in 0 .. LOGGER_NUM
  BY <1>1, LoggerNumAssumption DEF Loggers
<1>3. TypeOK'
  <2>1. SmallerDl(l, ThLocalDurableEpoch[idx[l]]) \in Nat
    BY <1>2 DEF SmallerDl, NInv, TypeOK, NotifierTypeOK
  <2> QED BY <1>2, <2>1 DEF ScanDl, durableVars, NInv, TypeOK, NotifierTypeOK
<1>4. Scanned'
  <2>1. \A k \in Loggers : k # l =>
           npc'[k] = npc[k] /\ idx'[k] = idx[k] /\ min_dl'[k] = min_dl[k]
    BY DEF ScanDl, NInv, TypeOK, NotifierTypeOK
  <2>2. /\ npc'[l] = "scan" /\ idx'[l] = idx[l] + 1
        /\ min_dl'[l] <= min_dl[l]
        /\ min_dl'[l] <= ThLocalDurableEpoch[idx[l]]
        /\ min_dl'[l] \in Nat
    BY <1>2 DEF ScanDl, SmallerDl, NInv, TypeOK, NotifierTypeOK
  <2>3. UNCHANGED ThLocalDurableEpoch
    BY DEF ScanDl
  <2>4. ASSUME NEW j \in 0 .. idx'[l] - 1
        PROVE min_dl'[l] <= ThLocalDurableEpoch[j]
    <3>1. CASE j = idx[l]
      BY <3>1, <2>2
    <3>2. CASE j # idx[l]
      <4>1. j \in 0 .. idx[l] - 1
        BY <3>2, <2>2, <1>1
      <4>2. j \in Loggers
        BY <4>1, <1>1, LoggerNumAssumption DEF Loggers
      <4>3. min_dl[l] <= ThLocalDurableEpoch[j]
        BY <4>1 DEF ScanDl, NInv, Scanned
      <4>4. min_dl[l] \in Nat /\ ThLocalDurableEpoch[j] \in Nat
        BY <4>2 DEF NInv, TypeOK, NotifierTypeOK
      <4> QED BY <4>3, <4>4, <2>2
    <3> QED BY <3>1, <3>2
  <2> QED BY <2>1, <2>2, <2>3, <2>4 DEF NInv, Scanned
<1>5. (Raising /\ Pending /\ DurableBelowLoggers /\ PepochNotAhead)'
  BY DEF ScanDl, durableVars, NInv, TypeOK, NotifierTypeOK, Raising, Pending,
         DurableBelowLoggers, PepochNotAhead
<1> QED BY <1>3, <1>4, <1>5 DEF NInv

\* Once the loop is over the minimum is below every entry.
LEMMA MinBelowAll ==
  ASSUME NInv, NEW l \in Loggers, npc[l] = "cas", idx[l] = LOGGER_NUM,
         NEW j \in Loggers
  PROVE min_dl[l] <= ThLocalDurableEpoch[j]
BY DEF NInv, Scanned, Loggers

\* The exchange of DurableEpoch finds the epoch loaded, so it raises it.
LEMMA CasKeeps ==
  ASSUME NInv, NEW l \in Loggers, CasDurable(l), UNCHANGED new_dl
  PROVE NInv'
<1>1. (TypeOK /\ Pending)'
  BY DEF CasDurable, Step, NInv, TypeOK, NotifierTypeOK, Pending
<1>2. Scanned'
  BY DEF CasDurable, Step, NInv, TypeOK, NotifierTypeOK, Scanned
<1>3. DurableEpoch <= DurableEpoch'
  BY DEF CasDurable, NInv, TypeOK, NotifierTypeOK, Raising
<1>4. Raising'
  <2>1. ASSUME NEW k \in Loggers, k # l
        PROVE /\ npc'[k] = "cas" => d'[k] < min_dl'[k]
              /\ npc'[k] = "pepoch" => min_dl'[k] > 0 /\ min_dl'[k] <= DurableEpoch'
    BY <2>1, <1>1, <1>3
    DEF CasDurable, Step, NInv, TypeOK, NotifierTypeOK, Raising
  <2>2. /\ npc'[l] # "cas"
        /\ npc'[l] = "pepoch" => min_dl'[l] > 0 /\ min_dl'[l] <= DurableEpoch'
    <3>1. /\ d[l] \in Nat /\ min_dl[l] \in Nat /\ d[l] < min_dl[l]
          /\ min_dl' = min_dl
      BY DEF CasDurable, NInv, TypeOK, NotifierTypeOK, Raising
    <3> QED BY <3>1 DEF CasDurable, Step, NInv, TypeOK, NotifierTypeOK
  <2> QED BY <2>1, <2>2 DEF Raising
<1>5. PepochNotAhead'
  BY <1>1, <1>3 DEF CasDurable, NInv, TypeOK, NotifierTypeOK, PepochNotAhead
<1>6. \A j \in Loggers : min_dl[l] <= ThLocalDurableEpoch[j]
  BY MinBelowAll DEF CasDurable, NInv, Scanned
<1>7. DurableBelowLoggers'
  BY <1>6 DEF CasDurable, NInv, DurableBelowLoggers
<1> QED BY <1>1, <1>2, <1>4, <1>5, <1>7 DEF NInv

\* Every step of check_durable keeps the invariant.
LEMMA CheckStepKeeps ==
  ASSUME NInv, NEW l \in Loggers, CheckStep(l), UNCHANGED new_dl
  PROVE NInv'
<1>1. CASE LoadDurable(l)
  <2>1. (TypeOK /\ Pending /\ DurableBelowLoggers /\ PepochNotAhead)'
    BY <1>1 DEF LoadDurable, Step, durableVars, NInv, TypeOK, NotifierTypeOK,
                Pending, DurableBelowLoggers, PepochNotAhead
  <2>2. Scanned'
    BY <1>1 DEF LoadDurable, Step, NInv, TypeOK, NotifierTypeOK, Scanned
  <2>3. Raising'
    BY <1>1 DEF LoadDurable, Step, durableVars, NInv, TypeOK, NotifierTypeOK,
                Raising
  <2> QED BY <2>1, <2>2, <2>3 DEF NInv
<1>2. CASE WritePepoch(l)
  <2>1. (TypeOK /\ Scanned /\ Raising)'
    BY <1>2 DEF WritePepoch, Step, NInv, TypeOK, NotifierTypeOK, Scanned,
                Raising
  <2>2. (Pending /\ DurableBelowLoggers /\ PepochNotAhead)'
    BY <1>2 DEF WritePepoch, Step, NInv, TypeOK, NotifierTypeOK, Raising,
                Pending, DurableBelowLoggers, PepochNotAhead
  <2> QED BY <2>1, <2>2 DEF NInv
<1> QED BY <1>1, <1>2, ScanKeeps, CasKeeps DEF CheckStep

\* A logger stores its own entry, never a smaller one.
LEMMA PublishKeeps ==
  ASSUME NInv, NEW l \in Loggers, Publish(l)
  PROVE /\ NInv'
        /\ \A k \in Loggers : ThLocalDurableEpoch[k] <= ThLocalDurableEpoch'[k]
<1>1. TypeOK'
  <2>1. 0 \in 0 .. LOGGER_NUM
    BY LoggerNumAssumption
  <2> QED BY <2>1 DEF Publish, LeaveCheck, Step, durableVars, NInv, TypeOK,
                      NotifierTypeOK
<1>2. \A k \in Loggers : ThLocalDurableEpoch[k] <= ThLocalDurableEpoch'[k]
  BY DEF Publish, NInv, TypeOK, NotifierTypeOK, Pending
<1>3. Scanned'
  <2>1. ASSUME NEW k \in Loggers, npc'[k] \in {"scan", "cas", "pepoch", "ret"}
        PROVE k # l /\ npc[k] = npc'[k] /\ idx'[k] = idx[k]
                /\ min_dl'[k] = min_dl[k]
    BY <2>1 DEF Publish, LeaveCheck, Step, NInv, TypeOK, NotifierTypeOK
  <2>2. ASSUME NEW k \in Loggers, npc'[k] \in {"scan", "cas", "pepoch", "ret"},
                 NEW j \in 0 .. idx[k] - 1
        PROVE min_dl[k] <= ThLocalDurableEpoch'[j]
    <3>1. j \in Loggers
      <4>1. idx[k] \in 0 .. LOGGER_NUM
        BY DEF NInv, TypeOK, NotifierTypeOK
      <4> QED BY <4>1, LoggerNumAssumption DEF Loggers
    <3>2. min_dl[k] <= ThLocalDurableEpoch[j]
      BY <2>1, <2>2 DEF NInv, Scanned
    <3>3. /\ min_dl[k] \in Nat /\ ThLocalDurableEpoch[j] \in Nat
          /\ ThLocalDurableEpoch'[j] \in Nat
      BY <3>1, <1>1 DEF NInv, TypeOK, NotifierTypeOK
    <3> QED BY <3>1, <3>2, <3>3, <1>2
  <2> QED BY <2>1, <2>2 DEF NInv, Scanned
<1>4. (Raising /\ Pending)'
  BY DEF Publish, LeaveCheck, Step, durableVars, NInv, TypeOK,
             NotifierTypeOK, Raising, Pending
<1>5. (DurableBelowLoggers /\ PepochNotAhead)'
  BY <1>1, <1>2 DEF Publish, LeaveCheck, durableVars, NInv, TypeOK,
             NotifierTypeOK, DurableBelowLoggers, PepochNotAhead
<1> QED BY <1>1, <1>2, <1>3, <1>4, <1>5 DEF NInv

\* The logger that leaves send_nid_to_notifier is ready for the next round.
LEMMA ReturnLastKeeps ==
  ASSUME NInv, NEW l \in Loggers, ReturnLast(l)
  PROVE NInv'
<1>1. TypeOK'
  <2>1. 0 \in 0 .. LOGGER_NUM
    BY LoggerNumAssumption
  <2> QED BY <2>1 DEF ReturnLast, LeaveCheck, Step, durableVars, NInv, TypeOK,
                      NotifierTypeOK
<1>2. Scanned'
  BY DEF ReturnLast, LeaveCheck, Step, NInv, TypeOK, NotifierTypeOK, Scanned
<1>3. (Raising /\ Pending /\ DurableBelowLoggers /\ PepochNotAhead)'
  BY DEF ReturnLast, LeaveCheck, Step, durableVars, NInv, TypeOK,
         NotifierTypeOK, Raising, Pending, DurableBelowLoggers, PepochNotAhead
<1> QED BY <1>1, <1>2, <1>3 DEF NInv

\* Every step keeps the invariant and moves the epochs forward only.
LEMMA NotifierKeeps ==
  ASSUME NInv, [Next]_vars
  PROVE /\ NInv'
        /\ DurableEpoch <= DurableEpoch'
        /\ \A k \in Loggers : ThLocalDurableEpoch[k] <= ThLocalDurableEpoch'[k]
<1>1. DurableEpoch \in Nat /\ ThLocalDurableEpoch \in [Loggers -> Nat]
  BY DEF NInv, TypeOK, NotifierTypeOK
<1>2. CASE UNCHANGED vars
  <2> USE DEF vars, notifierVars, durableVars, checkVars
  <2>1. (TypeOK /\ Scanned)'
    BY <1>2 DEF NInv, TypeOK, NotifierTypeOK, Scanned
  <2>2. (Raising /\ Pending /\ DurableBelowLoggers /\ PepochNotAhead)'
    BY <1>2 DEF NInv, Raising, Pending, DurableBelowLoggers, PepochNotAhead
  <2>3. /\ DurableEpoch <= DurableEpoch'
        /\ \A k \in Loggers : ThLocalDurableEpoch[k] <= ThLocalDurableEpoch'[k]
    BY <1>1, <1>2
  <2> QED BY <2>1, <2>2, <2>3 DEF NInv
<1>3. ASSUME NEW l \in Loggers, NEW e \in 1 .. MaxEpoch, Send(l, e)
      PROVE /\ NInv'
            /\ UNCHANGED <<DurableEpoch, ThLocalDurableEpoch>>
  <2>1. e \in Nat
    BY MaxEpochAssumption
  <2>2. EnterCheck(l) /\ new_dl' = [new_dl EXCEPT ![l] = e]
    BY <1>3 DEF Send
  <2>3. e # 0 => ThLocalDurableEpoch[l] < e
    BY <1>3 DEF Send, NewerDl
  <2> QED BY <2>1, <2>2, <2>3, EnterStep DEF EnterCheck, durableVars
<1>4. ASSUME NEW l \in Loggers, SendLast(l)
      PROVE /\ NInv'
            /\ UNCHANGED <<DurableEpoch, ThLocalDurableEpoch>>
  <2>1. new_dl' = [new_dl EXCEPT ![l] = new_dl[l]] /\ new_dl[l] \in Nat
    BY <1>4 DEF SendLast, NInv, TypeOK
  <2>2. new_dl[l] # 0 => ThLocalDurableEpoch[l] < new_dl[l]
    BY DEF NInv, Pending
  <2> QED BY <1>4, <2>1, <2>2, EnterStep DEF SendLast, EnterCheck, durableVars
<1>5. ASSUME NEW l \in Loggers, CheckStep(l), UNCHANGED new_dl
      PROVE /\ NInv'
            /\ DurableEpoch <= DurableEpoch'
            /\ UNCHANGED ThLocalDurableEpoch
  <2>1. NInv'
    BY <1>5, CheckStepKeeps
  <2>2. DurableEpoch <= DurableEpoch' /\ UNCHANGED ThLocalDurableEpoch
    BY <1>5, <1>1 DEF CheckStep, ScanDl, LoadDurable, CasDurable,
       WritePepoch, durableVars, NInv, TypeOK, NotifierTypeOK, Raising
  <2> QED BY <2>1, <2>2
<1>6. ASSUME NEW l \in Loggers, Publish(l)
      PROVE /\ NInv' /\ UNCHANGED DurableEpoch
            /\ \A k \in Loggers : ThLocalDurableEpoch[k] <= ThLocalDurableEpoch'[k]
  BY <1>6, PublishKeeps DEF Publish, LeaveCheck, durableVars
<1>7. ASSUME NEW l \in Loggers, ReturnLast(l)
      PROVE /\ NInv'
            /\ UNCHANGED <<DurableEpoch, ThLocalDurableEpoch>>
  BY <1>7, ReturnLastKeeps DEF ReturnLast, LeaveCheck, durableVars
<1>8. ASSUME NEW l \in Loggers, Open(l), UNCHANGED new_dl
       PROVE /\ NInv'
             /\ UNCHANGED <<DurableEpoch, ThLocalDurableEpoch>>
  BY <1>8, OpenKeeps DEF Open, Truncate, WriteZero
<1>9. ASSUME UNCHANGED DurableEpoch PROVE DurableEpoch <= DurableEpoch'
  BY <1>9, <1>1
<1>10. ASSUME UNCHANGED ThLocalDurableEpoch
      PROVE \A k \in Loggers : ThLocalDurableEpoch[k] <= ThLocalDurableEpoch'[k]
  BY <1>10, <1>1
<1>11. CASE Next
  BY <1>11, <1>3, <1>4, <1>5, <1>6, <1>7, <1>9, <1>10, <1>8, Zenon DEF Next
<1> QED BY <1>2, <1>11

\* The invariant holds of the notifier with any number of loggers.
LEMMA NotifierInvariant == Spec => []NInv
<1>1. NInv /\ [Next]_vars => NInv'
  BY NotifierKeeps
<1> QED BY <1>1, NotifierStart, PTL DEF Spec

\* The durable epoch never passes what some logger has published: check_durable
\* raises it only to a minimum of entries that have not gone back since.
THEOREM DurableEpochBound == Spec => []DurableBelowLoggers
<1>1. NInv => DurableBelowLoggers
  BY DEF NInv
<1> QED BY <1>1, NotifierInvariant, PTL

\* The file never gets ahead of the durable epoch, whatever the order in which
\* the loggers' stores reach it.
THEOREM PepochBound == Spec => []PepochNotAhead
<1>1. NInv => PepochNotAhead
  BY DEF NInv
<1> QED BY <1>1, NotifierInvariant, PTL

\* Opening the file late empties it of nothing: a durable epoch needs an entry
\* of every logger, and a logger has none before it has opened the file.
THEOREM OpenedInTime == Spec => []OpenedBeforeStored
<1>1. NInv => OpenedBeforeStored
  <2> SUFFICES ASSUME NInv, NEW l \in Loggers,
                      \/ pepoch > 0
                      \/ \E k \in Loggers : npc[k] \in {"cas", "pepoch"}
               PROVE  npc[l] \notin {"new", "opened"}
    BY DEF OpenedBeforeStored
  <2>1. /\ ThLocalDurableEpoch[l] \in Nat /\ DurableEpoch \in Nat
        /\ pepoch \in Nat
    BY DEF NInv, TypeOK, NotifierTypeOK
  <2>2. DurableEpoch > 0 => ThLocalDurableEpoch[l] > 0
    BY <2>1 DEF NInv, DurableBelowLoggers
  <2>3. ThLocalDurableEpoch[l] > 0
    <3>1. CASE pepoch > 0
      BY <3>1, <2>1, <2>2 DEF NInv, PepochNotAhead
    <3>2. ASSUME NEW k \in Loggers, npc[k] = "cas"
          PROVE  ThLocalDurableEpoch[l] > 0
      <4>1. idx[k] = LOGGER_NUM
        BY <3>2 DEF NInv, Scanned
      <4>2. min_dl[k] <= ThLocalDurableEpoch[l]
        BY <3>2, <4>1, MinBelowAll
      <4>3. d[k] \in Nat /\ min_dl[k] \in Nat /\ d[k] < min_dl[k]
        BY <3>2 DEF NInv, TypeOK, NotifierTypeOK, Raising
      <4> QED BY <2>1, <4>2, <4>3
    <3>3. ASSUME NEW k \in Loggers, npc[k] = "pepoch"
          PROVE  ThLocalDurableEpoch[l] > 0
      <4>1. min_dl[k] \in Nat /\ min_dl[k] > 0 /\ min_dl[k] <= DurableEpoch
        BY <3>3 DEF NInv, TypeOK, NotifierTypeOK, Raising
      <4> QED BY <2>1, <2>2, <4>1
    <3> QED BY <3>1, <3>2, <3>3
  <2> QED BY <2>3 DEF NInv, Pending
<1> QED BY <1>1, NotifierInvariant, PTL

\* Neither DurableEpoch nor the epoch of a logger ever goes back.
THEOREM DurableGrows == Spec => DurableMonotone
<1>1. NInv /\ [Next]_vars =>
        [/\ DurableEpoch' >= DurableEpoch
         /\ \A l \in Loggers :
              ThLocalDurableEpoch'[l] >= ThLocalDurableEpoch[l]]_vars
  <2> SUFFICES ASSUME NInv, [Next]_vars
               PROVE /\ DurableEpoch' >= DurableEpoch
                     /\ \A l \in Loggers :
                          ThLocalDurableEpoch'[l] >= ThLocalDurableEpoch[l]
    OBVIOUS
  <2>1. NInv'
    BY NotifierKeeps
  <2> QED BY <2>1, NotifierKeeps DEF NInv, TypeOK, NotifierTypeOK
<1> QED BY <1>1, NotifierInvariant, PTL DEF Spec, DurableMonotone
=============================================================================
