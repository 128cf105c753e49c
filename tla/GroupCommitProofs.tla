-------------------------- MODULE GroupCommitProofs --------------------------
(***************************************************************************)
(* Proofs about GroupCommit: what a logger has announced is on disk and    *)
(* complete, for any number of workers and loggers.                        *)
(***************************************************************************)
EXTENDS GroupCommit, TLAPS

\* The inductive invariant: a worker commits only above its floor, so what is
\* announced below the floor stays complete.
GInv == TypeOK /\ AnnouncedClosed /\ AnnouncedDurable

\* Nothing is committed, given up or announced at first.
LEMMA GInvInit == Init => GInv
BY DEF Init, GInv, TypeOK, AnnouncedClosed, AnnouncedDurable

\* A commit is above its worker's floor, so no announcement covers it.
LEMMA CommitKeeps ==
  ASSUME GInv, NEW w \in Workers, NEW S, Commit(w, S)
  PROVE  GInv'
<1>1. TypeOK'
  BY DEF GInv, TypeOK, Commit
<1>2. AnnouncedClosed'
  BY DEF GInv, AnnouncedClosed, Commit
<1>3. AnnouncedDurable'
  <2> SUFFICES ASSUME NEW l \in Loggers, NEW x \in committed',
                      LoggerOf[x.worker] = l, x.epoch <= announced[l]
               PROVE  x \in durable
    BY DEF AnnouncedDurable, Commit
  <2>1. CASE x \in committed
    BY <2>1 DEF GInv, AnnouncedDurable
  <2>2. CASE x \notin committed
    <3>1. x.worker = w /\ x.epoch \in Nat \ {0} /\ x.epoch >= floor[w]
      BY <2>2 DEF Commit, Item
    <3>2. announced[l] \in Nat /\ floor[w] \in Nat
      BY DEF GInv, TypeOK
    <3>3. announced[l] = 0 \/ announced[l] < floor[w]
      BY <3>1 DEF GInv, AnnouncedClosed
    <3> QED
      BY <3>1, <3>2, <3>3
  <2> QED
    BY <2>1, <2>2
<1> QED
  BY <1>1, <1>2, <1>3 DEF GInv

\* A floor only rises.
LEMMA AdvanceKeeps ==
  ASSUME GInv, NEW w \in Workers, NEW e, Advance(w, e)
  PROVE  GInv'
<1>1. TypeOK'
  BY DEF GInv, TypeOK, Advance
<1>2. AnnouncedClosed'
  <2> SUFFICES ASSUME NEW l \in Loggers, NEW u \in Workers, LoggerOf[u] = l
               PROVE  announced[l] = 0 \/ announced[l] < floor'[u]
    BY DEF AnnouncedClosed, Advance
  <2>1. announced[l] = 0 \/ announced[l] < floor[u]
    BY DEF GInv, AnnouncedClosed
  <2>2. announced[l] \in Nat /\ floor[u] \in Nat /\ floor'[u] \in Nat
    BY <1>1 DEF GInv, TypeOK
  <2>3. floor'[u] >= floor[u]
    BY <2>2 DEF Advance, GInv, TypeOK
  <2> QED
    BY <2>1, <2>2, <2>3
<1>3. AnnouncedDurable'
  BY DEF GInv, AnnouncedDurable, Advance
<1> QED
  BY <1>1, <1>2, <1>3 DEF GInv

\* A flush only adds to what is durable.
LEMMA FlushKeeps ==
  ASSUME GInv, NEW S, Flush(S)
  PROVE  GInv'
<1>1. TypeOK'
  BY DEF GInv, TypeOK, Flush
<1>2. AnnouncedClosed'
  BY DEF GInv, AnnouncedClosed, Flush
<1>3. AnnouncedDurable'
  BY DEF GInv, AnnouncedDurable, Flush
<1> QED
  BY <1>1, <1>2, <1>3 DEF GInv

\* A logger announces only what its workers have given up and is durable.
LEMMA AnnounceKeeps ==
  ASSUME GInv, NEW l \in Loggers, NEW e, Announce(l, e)
  PROVE  GInv'
<1>1. TypeOK'
  BY DEF GInv, TypeOK, Announce, Announceable
<1>2. ASSUME NEW k \in Loggers
      PROVE  announced'[k] = IF k = l THEN e ELSE announced[k]
  BY DEF GInv, TypeOK, Announce
<1>3. AnnouncedClosed'
  <2> SUFFICES ASSUME NEW k \in Loggers, NEW w \in Workers, LoggerOf[w] = k
               PROVE  announced'[k] = 0 \/ announced'[k] < floor[w]
    BY DEF AnnouncedClosed, Announce
  <2>1. CASE k = l
    BY <1>2, <2>1 DEF Announce, Announceable
  <2>2. CASE k # l
    BY <1>2, <2>2 DEF GInv, AnnouncedClosed
  <2> QED
    BY <2>1, <2>2
<1>4. AnnouncedDurable'
  <2> SUFFICES ASSUME NEW k \in Loggers, NEW x \in committed,
                      LoggerOf[x.worker] = k, x.epoch <= announced'[k]
               PROVE  x \in durable
    BY DEF AnnouncedDurable, Announce
  <2>1. CASE k = l
    BY <1>2, <2>1 DEF Announce, Announceable
  <2>2. CASE k # l
    BY <1>2, <2>2 DEF GInv, AnnouncedDurable
  <2> QED
    BY <2>1, <2>2
<1> QED
  BY <1>1, <1>3, <1>4 DEF GInv

\* The invariant is inductive.
LEMMA GInvStep == GInv /\ [Next]_vars => GInv'
<1> SUFFICES ASSUME GInv, [Next]_vars PROVE GInv'
  OBVIOUS
<1>1. ASSUME NEW w \in Workers, Commit(w, committed' \ committed) PROVE GInv'
  BY <1>1, CommitKeeps
<1>2. ASSUME NEW w \in Workers, Advance(w, floor'[w]) PROVE GInv'
  BY <1>2, AdvanceKeeps
<1>3. ASSUME Flush(durable' \ durable) PROVE GInv'
  BY <1>3, FlushKeeps
<1>4. ASSUME NEW l \in Loggers, Announce(l, announced'[l]) PROVE GInv'
  BY <1>4, AnnounceKeeps
<1>5. CASE UNCHANGED vars
  BY <1>5 DEF GInv, TypeOK, AnnouncedClosed, AnnouncedDurable, vars
<1> QED
  BY <1>1, <1>2, <1>3, <1>4, <1>5 DEF Next

\* What a logger has announced is on disk, with all that its workers have
\* committed or will ever commit up to that epoch.
THEOREM AnnouncedComplete == Spec => []AnnouncedDurable
<1>1. GInv => AnnouncedDurable
  BY DEF GInv
<1> QED
  BY <1>1, GInvInit, GInvStep, PTL DEF Spec
=============================================================================
