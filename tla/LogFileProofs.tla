----------------------------- MODULE LogFileProofs -----------------------------
(***************************************************************************)
(* The file of LogFile, for files, batches and buffers of any size and any *)
(* number of runs: what has been synced can be read back after any crash,  *)
(* and a reader takes for a package only what one run has written as one.  *)
(***************************************************************************)
EXTENDS LogFile, SequenceTheorems, WellFoundedInduction, TLAPS

\* A set of numbers that is not empty has a least one.
LEMMA LeastNumber ==
  ASSUME NEW S, S \subseteq Nat, S # {}
  PROVE  \E m \in S : \A n \in S : m <= n
<1> DEFINE R == OpToRel(<, Nat)
<1>1. IsWellFoundedOn(R, Nat)
  BY NatLessThanWellFounded
<1>2. \A m, n \in Nat : n < m => <<n, m>> \in R
  BY DEF OpToRel
<1> HIDE DEF R
<1>3. PICK m \in S : \A n \in S : <<n, m>> \notin R
  BY <1>1, WFMin
<1>4. ASSUME NEW n \in S PROVE m <= n
  <2>1. m \in Nat /\ n \in Nat /\ <<n, m>> \notin R
    BY <1>3
  <2>2. ~(n < m)
    BY <1>2, <2>1
  <2> QED
    BY <2>1, <2>2
<1> QED
  BY <1>4

\* What holds at a cell whenever it holds at all later ones holds everywhere.
LEMMA FromTheEnd ==
  ASSUME NEW n \in Nat, NEW S,
         \A p \in 1 .. n : (\A m \in p + 1 .. n : m \in S) => p \in S
  PROVE  1 .. n \subseteq S
<1> SUFFICES ASSUME NEW p \in 1 .. n, p \notin S PROVE FALSE
  OBVIOUS
<1> DEFINE D == {d \in 0 .. n : n - d \in 1 .. n /\ n - d \notin S}
<1>1. n - p \in D
  OBVIOUS
<1>2. D \subseteq Nat
  OBVIOUS
<1>3. PICK d \in D : \A e \in D : d <= e
  BY <1>1, <1>2, LeastNumber
<1>4. ASSUME NEW m \in n - d + 1 .. n PROVE m \in S
  <2>1. n - m \in 0 .. n /\ n - (n - m) = m /\ m \in 1 .. n /\ ~(d <= n - m)
    BY <1>3
  <2>2. n - m \notin D
    BY <1>3, <2>1
  <2> QED
    BY <2>1, <2>2
<1> QED
  BY <1>3, <1>4

-----------------------------------------------------------------------------
(* The reader.                                                             *)

\* What a file must be for the reader: a header counts its records.
IsFile(file) ==
  \A p \in 1 .. MaxCells : file[p].kind = "header" => file[p].logRecNum \in Nat

\* The package whose header is at p, and whether it is all there.
RecordsAt(file, p) == SubSeq(file, p + 1, p + file[p].logRecNum)

WholeAt(file, p) ==
  /\ p <= MaxCells /\ file[p].kind = "header"
  /\ p + file[p].logRecNum <= MaxCells
  /\ ToSet(RecordsAt(file, p)) = file[p].chkSum

\* What the reader finds from a cell on: a package and what follows, or nothing.
LEMMA ReadStep ==
  ASSUME NEW file, IsFile(file), NEW from, NEW p \in 1 .. MaxCells + 1
  PROVE  ReadFrom(file, from, p) =
           IF WholeAt(file, p)
           THEN <<RecordsAt(file, p)>> \o from[p + 1 + file[p].logRecNum] ELSE <<>>
<1>1. CASE p <= MaxCells /\ file[p].kind = "header"
  <2> DEFINE n    == file[p].logRecNum
             next == p + 1 + n
  <2>1. n \in Nat
    BY <1>1 DEF IsFile
  <2>2. next - 1 = p + n /\ (next > MaxCells + 1 <=> ~(p + n <= MaxCells))
    BY <2>1, FileBounds
  <2>3. ~(p > MaxCells)
    BY <1>1, FileBounds
  <2>4. WholeAt(file, p) <=>
          p + n <= MaxCells /\ ToSet(SubSeq(file, p + 1, p + n)) = file[p].chkSum
    BY <1>1 DEF WholeAt, RecordsAt
  <2>5. RecordsAt(file, p) = SubSeq(file, p + 1, p + n)
    BY DEF RecordsAt
  <2>6. ReadFrom(file, from, p) =
          IF next > MaxCells + 1 THEN <<>>
          ELSE IF ToSet(SubSeq(file, p + 1, next - 1)) # file[p].chkSum THEN <<>>
          ELSE <<SubSeq(file, p + 1, next - 1)>> \o from[next]
    BY <1>1, <2>3 DEF ReadFrom, computeChkSum
  <2> HIDE DEF n, next
  <2> QED
    BY <2>2, <2>4, <2>5, <2>6 DEF next, n
<1>2. CASE ~(p <= MaxCells /\ file[p].kind = "header")
  <2>1. p > MaxCells \/ (~(p > MaxCells) /\ file[p].kind # "header")
    BY <1>2, FileBounds
  <2>2. ~WholeAt(file, p)
    BY <1>2 DEF WholeAt
  <2> QED
    BY <2>1, <2>2 DEF ReadFrom
<1> QED
  BY <1>1, <1>2

\* The reader's function is what its recursive definition says.
LEMMA Reader ==
  ASSUME NEW file, IsFile(file)
  PROVE  PackagesFrom(file) =
           [p \in 1 .. MaxCells + 1 |-> ReadFrom(file, PackagesFrom(file), p)]
<1> DEFINE Fits(n, g) ==
      g = [p \in n .. MaxCells + 1 |-> ReadFrom(file, g, p)]
    Good == {n \in 1 .. MaxCells + 1 : \E g : Fits(n, g)}
<1>1. ASSUME NEW n \in 1 .. MaxCells + 1, \A m \in n + 1 .. MaxCells + 1 : m \in Good
      PROVE  n \in Good
  <2>1. PICK g : n < MaxCells + 1 => Fits(n + 1, g)
    <3>1. CASE n < MaxCells + 1
      <4>1. n + 1 \in Good
        BY <1>1, <3>1, FileBounds
      <4> QED
        BY <4>1
    <3> QED
      BY <3>1
  <2> DEFINE h == [p \in n .. MaxCells + 1 |->
                     IF p = n THEN ReadFrom(file, g, n) ELSE g[p]]
  <2>2. \A p \in n + 1 .. MaxCells + 1 : h[p] = g[p]
    BY FileBounds
  <2>3. ASSUME NEW p \in n .. MaxCells + 1
        PROVE  ReadFrom(file, h, p) = ReadFrom(file, g, p)
    <3>1. CASE WholeAt(file, p)
      <4>1. p + 1 + file[p].logRecNum \in n + 1 .. MaxCells + 1
        BY <3>1, FileBounds DEF WholeAt, IsFile
      <4>2. h[p + 1 + file[p].logRecNum] = g[p + 1 + file[p].logRecNum]
        BY <2>2, <4>1
      <4> HIDE DEF h
      <4>3. p \in 1 .. MaxCells + 1
        BY FileBounds
      <4> QED
        BY <3>1, <4>2, <4>3, ReadStep
    <3>2. CASE ~WholeAt(file, p)
      <4> HIDE DEF h
      <4>1. p \in 1 .. MaxCells + 1
        BY FileBounds
      <4> QED
        BY <3>2, <4>1, ReadStep
    <3> QED
      BY <3>1, <3>2
  <2>4. ASSUME NEW p \in n .. MaxCells + 1 PROVE h[p] = ReadFrom(file, h, p)
    <3>1. CASE p = n
      BY <2>3, <3>1
    <3>2. CASE p # n
      <4>1. n < MaxCells + 1 /\ p \in n + 1 .. MaxCells + 1
        BY <3>2, FileBounds
      <4>2. g[p] = ReadFrom(file, g, p)
        BY <2>1, <4>1
      <4> QED
        BY <2>2, <2>3, <4>1, <4>2
    <3> QED
      BY <3>1, <3>2
  <2>5. h = [p \in n .. MaxCells + 1 |-> h[p]]
    OBVIOUS
  <2> HIDE DEF h
  <2>6. Fits(n, h)
    BY <2>4, <2>5
  <2> QED
    BY <2>6
<1>2. 1 .. MaxCells + 1 \subseteq Good
  <2> HIDE DEF Good
  <2>1. MaxCells + 1 \in Nat
    BY FileBounds
  <2> QED
    BY <1>1, <2>1, FromTheEnd
<1>3. PICK g : Fits(1, g)
  BY <1>2, FileBounds
<1> QED
  BY <1>3 DEF PackagesFrom

\* What the reader finds from a cell on, in terms of what it finds later.
LEMMA ReadOn ==
  ASSUME NEW file, IsFile(file), NEW p \in 1 .. MaxCells + 1
  PROVE  PackagesFrom(file)[p] =
           IF WholeAt(file, p)
           THEN <<RecordsAt(file, p)>> \o PackagesFrom(file)[p + 1 + file[p].logRecNum]
           ELSE <<>>
<1> DEFINE from == PackagesFrom(file)
<1>1. from = [c \in 1 .. MaxCells + 1 |-> ReadFrom(file, from, c)]
  BY Reader
<1> HIDE DEF from
<1>2. from[p] = ReadFrom(file, from, p)
  BY <1>1
<1> QED
  BY <1>2, ReadStep DEF from

-----------------------------------------------------------------------------
(* What the logger and the machine keep.                                   *)

Records == [kind : {"record"}, run : 1 .. MaxRuns, no : Nat \X Nat]
Headers == [kind : {"header"}, logRecNum : Nat, chkSum : SUBSET Records]
Cells   == {Hole, Torn} \cup Headers \cup Records

\* Where a package begins, as its records tell, and where it ends.
At(q)    == q[1].no[1]
EndOf(q) == At(q) + 1 + Len(q)

IsPackage(q, r) ==
  /\ q \in Seq(Records) /\ q # <<>>
  /\ EndOf(q) <= MaxCells
  /\ \A i \in 1 .. Len(q) :
       q[i] = [kind |-> "record", run |-> r, no |-> <<At(q), i>>]

\* A run writes its packages one behind the other, from the beginning.
InOrder(w) ==
  /\ w # <<>> => At(w[1]) = 0
  /\ \A k \in 2 .. Len(w) : At(w[k]) = EndOf(w[k - 1])
  /\ \A j, k \in 1 .. Len(w) : j < k => EndOf(w[j]) <= At(w[k])

FileTypeOK ==
  /\ disk \in [1 .. MaxCells -> Cells] /\ cache \in [1 .. MaxCells -> Cells]
  /\ pos \in 0 .. MaxCells /\ left \in 0 .. MaxBatch
  /\ calls \in Seq(Seq(Cells))
  /\ logger \in {"waiting", "writing", "down"}
  /\ run \in 1 .. MaxRuns
  /\ written \in [1 .. MaxRuns -> Seq(Seq(Records))]
  /\ synced \in 0 .. Len(Mine)

WrittenInv ==
  \A r \in 1 .. MaxRuns :
    /\ \A k \in 1 .. Len(written[r]) : IsPackage(written[r][k], r)
    /\ InOrder(written[r])
    /\ r > run => written[r] = <<>>

\* A header is where a run has put it, a record where it says itself.
HeaderAt(w, c, x) ==
  \E r \in 1 .. MaxRuns : \E k \in 1 .. Len(w[r]) :
    x = Header(w[r][k]) /\ c = At(w[r][k]) + 1

InPlace(w, c, x) ==
  /\ x.kind = "header" => HeaderAt(w, c, x)
  /\ x.kind = "record" => c = x.no[1] + 1 + x.no[2]

CellsInv ==
  \A c \in 1 .. MaxCells : InPlace(written, c, disk[c]) /\ InPlace(written, c, cache[c])

\* The first n records of a package are in a file, behind their header.
HoldsUpTo(file, q, n) ==
  /\ file[At(q) + 1] = Header(q)
  /\ \A i \in 1 .. n : file[At(q) + 1 + i] = q[i]

Holds(file, q) == HoldsUpTo(file, q, Len(q))

SyncInv ==
  \A k \in 1 .. synced : Holds(disk, Mine[k]) /\ Holds(cache, Mine[k])

\* The offset behind the packages of a run.
Behind(w) == IF w = <<>> THEN 0 ELSE EndOf(w[Len(w)])

\* The package being written: its header is still to come, or some records.
HeaderPending(q) == pos = At(q) /\ calls = <<<<Header(q)>>, q>>

RecordsPending(q) ==
  \E n \in 0 .. Len(q) - 1 :
    /\ pos = At(q) + 1 + n
    /\ HoldsUpTo(cache, q, n)
    /\ Len(calls) = 1 /\ Len(calls[1]) = Len(q) - n
    /\ \A i \in 1 .. Len(q) - n : calls[1][i] = q[n + i]

LoggerInv ==
  /\ logger # "writing" => left = 0 /\ calls = <<>>
  /\ logger = "waiting" => synced = Len(Mine)
  /\ logger # "down" /\ calls = <<>> =>
       pos = Behind(Mine) /\ \A k \in 1 .. Len(Mine) : Holds(cache, Mine[k])
  /\ calls # <<>> =>
       /\ synced < Len(Mine)
       /\ \A k \in 1 .. Len(Mine) - 1 : Holds(cache, Mine[k])
       /\ \/ HeaderPending(Mine[Len(Mine)])
          \/ RecordsPending(Mine[Len(Mine)])

FileInv == FileTypeOK /\ WrittenInv /\ CellsInv /\ SyncInv /\ LoggerInv

\* A package has records, and its header takes a cell.
LEMMA PackageFacts ==
  ASSUME NEW q, NEW r, IsPackage(q, r)
  PROVE  /\ Len(q) \in Nat \ {0} /\ At(q) \in Nat /\ EndOf(q) \in Nat
         /\ \A i \in 1 .. Len(q) : q[i] \in Records
         /\ Header(q) \in Headers
         /\ Header(q).logRecNum = Len(q) /\ Header(q).chkSum = ToSet(q)
<1>1. q \in Seq(Records) /\ Len(q) \in Nat \ {0}
  BY EmptySeq DEF IsPackage
<1>2. \A i \in 1 .. Len(q) : q[i] \in Records
  BY <1>1, ElementOfSeq
<1>3. At(q) \in Nat
  BY <1>1, <1>2 DEF At, Records
<1>4. ToSet(q) \subseteq Records
  BY <1>1, <1>2 DEF ToSet
<1> QED
  BY <1>1, <1>2, <1>3, <1>4 DEF EndOf, Header, Headers, computeChkSum

\* A package begins before it ends.
LEMMA BeginsBeforeEnd ==
  ASSUME NEW q, NEW r, IsPackage(q, r)
  PROVE  At(q) \in Nat /\ EndOf(q) \in Nat /\ At(q) < EndOf(q)
<1>1. Len(q) \in Nat \ {0} /\ At(q) \in Nat /\ EndOf(q) = At(q) + 1 + Len(q)
  BY PackageFacts DEF EndOf
<1> QED
  BY <1>1

\* What was written and where stays known when more is written.
LEMMA InPlaceKept ==
  ASSUME NEW w, NEW v, NEW c, NEW x, InPlace(w, c, x),
         \A r \in 1 .. MaxRuns : \A k \in 1 .. Len(w[r]) :
           k \in 1 .. Len(v[r]) /\ v[r][k] = w[r][k]
  PROVE  InPlace(v, c, x)
BY DEF InPlace, HeaderAt

\* The run begun last is one of the runs, and so are its packages.
LEMMA MineFacts ==
  ASSUME FileTypeOK, WrittenInv
  PROVE  /\ Mine \in Seq(Seq(Records)) /\ Len(Mine) \in Nat /\ run \in 1 .. MaxRuns
         /\ \A k \in 1 .. Len(Mine) : IsPackage(Mine[k], run)
         /\ InOrder(Mine)
<1>1. run \in 1 .. MaxRuns /\ Mine \in Seq(Seq(Records))
  BY DEF FileTypeOK, Mine
<1> QED
  BY <1>1 DEF WrittenInv, Mine

\* The offset is in the file.
LEMMA BehindFacts ==
  ASSUME NEW w \in Seq(Seq(Records)), NEW r,
         \A k \in 1 .. Len(w) : IsPackage(w[k], r)
  PROVE  Behind(w) \in Nat
<1>1. CASE w = <<>>
  BY <1>1 DEF Behind
<1>2. CASE w # <<>>
  <2>1. Len(w) \in 1 .. Len(w)
    BY <1>2, EmptySeq
  <2> QED
    BY <1>2, <2>1, PackageFacts DEF Behind
<1> QED
  BY <1>1, <1>2

\* A package put behind the others leaves them in order.
LEMMA OrderAppend ==
  ASSUME NEW w \in Seq(Seq(Records)), NEW r, NEW q \in Seq(Records),
         \A k \in 1 .. Len(w) : IsPackage(w[k], r), InOrder(w),
         IsPackage(q, r), At(q) = Behind(w)
  PROVE  InOrder(Append(w, q))
<1> DEFINE v == Append(w, q)
           n == Len(w)
<1>1. n \in Nat /\ Len(v) = n + 1 /\ v[n + 1] = q /\ \A k \in 1 .. n : v[k] = w[k]
  BY AppendProperties
<1>2. v # <<>>
  BY <1>1
<1>3. \A k \in 1 .. n : At(w[k]) \in Nat /\ EndOf(w[k]) \in Nat /\ At(w[k]) < EndOf(w[k])
  BY BeginsBeforeEnd
<1>4. n > 0 => At(q) = EndOf(w[n])
  BY <1>1 DEF Behind
<1>5. n = 0 => At(q) = 0
  <2>1. n = 0 => w = <<>>
    BY EmptySeq
  <2> QED
    BY <2>1 DEF Behind
<1> HIDE DEF v, n
<1>6. At(v[1]) = 0
  <2>1. CASE n = 0
    BY <1>1, <1>5, <2>1
  <2>2. CASE n > 0
    <3>1. w # <<>> /\ v[1] = w[1]
      BY <1>1, <2>2, EmptySeq DEF n
    <3> QED
      BY <3>1 DEF InOrder
  <2> QED
    BY <1>1, <2>1, <2>2
<1>7. ASSUME NEW k \in 2 .. Len(v) PROVE At(v[k]) = EndOf(v[k - 1])
  <2>1. CASE k = n + 1
    <3>1. n > 0 /\ k - 1 = n /\ n \in 1 .. n /\ v[k] = q
      BY <1>1, <2>1
    <3>2. v[k - 1] = w[n]
      BY <1>1, <3>1
    <3> QED
      BY <1>4, <3>1, <3>2
  <2>2. CASE k # n + 1
    <3>1. k \in 2 .. n /\ v[k] = w[k] /\ v[k - 1] = w[k - 1]
      BY <1>1, <2>2
    <3>2. At(w[k]) = EndOf(w[k - 1])
      BY <3>1 DEF InOrder, n
    <3> QED
      BY <3>1, <3>2
  <2> QED
    BY <2>1, <2>2
<1>8. ASSUME NEW j \in 1 .. Len(v), NEW k \in 1 .. Len(v), j < k
      PROVE  EndOf(v[j]) <= At(v[k])
  <2>1. CASE k \in 1 .. n
    <3>1. j \in 1 .. n /\ v[j] = w[j] /\ v[k] = w[k]
      BY <1>1, <1>8, <2>1
    <3>2. EndOf(w[j]) <= At(w[k])
      BY <1>8, <2>1, <3>1 DEF InOrder, n
    <3> QED
      BY <3>1, <3>2
  <2>2. CASE k = n + 1
    <3>1. j \in 1 .. n /\ v[j] = w[j] /\ n \in 1 .. n /\ v[k] = q
      BY <1>1, <1>8, <2>2
    <3>2. CASE j = n
      BY <1>1, <1>3, <1>4, <3>1, <3>2
    <3>3. CASE j < n
      <4>1. EndOf(w[j]) <= At(w[n])
        BY <3>1, <3>3 DEF InOrder, n
      <4>2. At(q) = EndOf(w[n])
        BY <1>1, <1>4, <3>1
      <4>3. EndOf(w[j]) \in Nat /\ At(w[n]) \in Nat /\ EndOf(w[n]) \in Nat
             /\ At(w[n]) < EndOf(w[n])
        BY <1>3, <3>1
      <4> QED
        BY <3>1, <4>1, <4>2, <4>3
    <3> QED
      BY <1>1, <3>1, <3>2, <3>3
  <2> QED
    BY <1>1, <2>1, <2>2
<1> QED
  BY <1>2, <1>6, <1>7, <1>8 DEF InOrder, v

-----------------------------------------------------------------------------
(* The steps.                                                              *)

\* A new file holds nothing.
LEMMA FileInit == Init => FileInv
<1> SUFFICES ASSUME Init PROVE FileInv
  OBVIOUS
<1> USE DEF Init
<1>1. FileTypeOK
  <2>1. Hole \in Cells /\ 1 \in 1 .. MaxRuns
    BY FileBounds DEF Cells
  <2>2. Mine = <<>> /\ written \in [1 .. MaxRuns -> Seq(Seq(Records))]
    BY <2>1 DEF Mine
  <2> QED
    BY <2>1, <2>2, FileBounds, BatchBounds DEF FileTypeOK
<1>2. \A r \in 1 .. MaxRuns : written[r] = <<>>
  OBVIOUS
<1>3. WrittenInv
  BY <1>2 DEF WrittenInv, InOrder
<1>4. CellsInv
  BY DEF CellsInv, InPlace, Hole
<1>5. SyncInv
  BY DEF SyncInv
<1>6. LoggerInv
  <2>1. Mine = <<>>
    BY <1>1, <1>2 DEF FileTypeOK, Mine
  <2> QED
    BY <2>1 DEF LoggerInv, Behind
<1> QED
  BY <1>1, <1>3, <1>4, <1>5, <1>6 DEF FileInv

\* What a batch, the end of a run and the next run leave as it is.
LEMMA QuietSteps ==
  ASSUME FileInv, Deq \/ End
  PROVE  FileInv'
<1> USE DEF FileInv
<1>1. /\ UNCHANGED <<disk, cache, pos, run, written, synced>>
      /\ left' \in 0 .. MaxBatch /\ calls' = <<>>
  BY BatchBounds DEF Deq, End, LoggerInv
<1>2. Mine' = Mine
  BY <1>1 DEF Mine
<1>3. FileTypeOK'
  <2>1. logger' \in {"waiting", "writing", "down"} /\ calls' \in Seq(Seq(Cells))
    BY <1>1 DEF Deq, End
  <2> QED
    BY <1>1, <1>2, <2>1 DEF FileTypeOK
<1>4. WrittenInv' /\ CellsInv'
  BY <1>1 DEF WrittenInv, CellsInv
<1>5. SyncInv'
  BY <1>1, <1>2 DEF SyncInv
<1>6. LoggerInv'
  <2>1. CASE Deq
    BY <1>1, <1>2, <2>1 DEF LoggerInv, Deq
  <2>2. CASE End
    BY <1>1, <1>2, <2>2 DEF LoggerInv, End
  <2> QED
    BY <2>1, <2>2
<1> QED
  BY <1>3, <1>4, <1>5, <1>6

\* The next run starts a log of its own.
LEMMA OpenStep ==
  ASSUME FileInv, Open
  PROVE  FileInv'
<1> USE DEF FileInv
<1>1. /\ UNCHANGED <<disk, cache, left, calls, written>>
      /\ pos' = 0 /\ synced' = 0 /\ logger' = "waiting"
      /\ run' = run + 1 /\ run' \in 1 .. MaxRuns
  BY FileBounds DEF Open, FileTypeOK
<1>2. Mine' = <<>>
  <2>1. run \in 1 .. MaxRuns /\ run' > run
    BY <1>1 DEF FileTypeOK
  <2>2. written[run'] = <<>>
    BY <1>1, <2>1 DEF WrittenInv
  <2> QED
    BY <1>1, <2>2 DEF Mine
<1>3. FileTypeOK'
  BY <1>1, <1>2, FileBounds DEF FileTypeOK
<1>4. WrittenInv'
  <2>1. \A r \in 1 .. MaxRuns : r > run + 1 => r > run
    BY FileBounds DEF FileTypeOK
  <2> QED
    BY <1>1, <2>1 DEF WrittenInv
<1>5. CellsInv'
  BY <1>1 DEF CellsInv
<1>6. SyncInv'
  BY <1>1 DEF SyncInv
<1>7. LoggerInv'
  <2>1. left' = 0 /\ calls' = <<>>
    BY <1>1 DEF Open, LoggerInv
  <2> QED
    BY <1>1, <1>2, <2>1 DEF LoggerInv, Behind
<1> QED
  BY <1>3, <1>4, <1>5, <1>6, <1>7

\* A buffer without records is passed over.
LEMMA EmptyBuffer ==
  ASSUME FileInv, UNCHANGED <<disk, cache, pos, calls, logger, run, written, synced>>,
         logger = "writing", left' \in 0 .. MaxBatch
  PROVE  FileInv'
<1> USE DEF FileInv
<1>1. Mine' = Mine
  BY DEF Mine
<1>2. FileTypeOK'
  BY <1>1 DEF FileTypeOK
<1>3. WrittenInv' /\ CellsInv'
  BY DEF WrittenInv, CellsInv
<1>4. SyncInv'
  BY <1>1 DEF SyncInv
<1>5. LoggerInv'
  BY <1>1 DEF LoggerInv, HeaderPending, RecordsPending
<1> QED
  BY <1>2, <1>3, <1>4, <1>5

\* The records of a buffer about to be written are a package at the offset.
LEMMA NewPackage ==
  ASSUME FileTypeOK, NEW n \in Nat \ {0}, pos + 1 + n <= MaxCells,
         NEW q, q = [i \in 1 .. n |-> Record(i)]
  PROVE  IsPackage(q, run) /\ At(q) = pos /\ Len(q) = n
<1>1. \A i \in 1 .. n : q[i] = [kind |-> "record", run |-> run, no |-> <<pos, i>>]
  BY DEF Record
<1>2. \A i \in 1 .. n : q[i] \in Records
  BY <1>1 DEF FileTypeOK, Records
<1>3. q \in Seq(Records) /\ Len(q) = n
  BY <1>2
<1>4. At(q) = pos
  BY <1>1 DEF At
<1>5. q # <<>>
  BY <1>3
<1> QED
  BY <1>1, <1>3, <1>4, <1>5 DEF IsPackage, EndOf

\* The write calls for a package are sequences of cells.
LEMMA PackageCalls ==
  ASSUME NEW q, NEW r, IsPackage(q, r)
  PROVE  <<<<Header(q)>>, q>> \in Seq(Seq(Cells))
<1>1. Header(q) \in Cells
  BY PackageFacts DEF Cells
<1>2. q \in Seq(Cells)
  <2>1. Records \subseteq Cells
    BY DEF Cells
  <2> QED
    BY <2>1, SeqMonotonic DEF IsPackage
<1> QED
  BY <1>1, <1>2

\* LogBuffer::write puts its package behind the others of the run.
LEMMA WriteBufferStep ==
  ASSUME FileInv, WriteBuffer
  PROVE  FileInv'
<1> USE DEF FileInv
<1>1. /\ UNCHANGED <<disk, cache, pos, logger, run, synced>> /\ calls = <<>>
      /\ logger = "writing" /\ left' \in 0 .. MaxBatch
  <2>1. UNCHANGED <<disk, cache, pos, logger, run, synced>> /\ calls = <<>>
        /\ left > 0 /\ left' = left - 1
    BY DEF WriteBuffer
  <2>2. logger = "writing"
    BY <2>1 DEF LoggerInv, FileTypeOK
  <2>3. left - 1 \in 0 .. MaxBatch
    BY <2>1, BatchBounds DEF FileTypeOK
  <2> QED
    BY <2>1, <2>2, <2>3
<1>2. PICK n \in 0 .. MaxRecords :
        LET package == [i \in 1 .. n |-> Record(i)]
        IN  IF n = 0 THEN UNCHANGED <<calls, written>>
            ELSE /\ pos + 1 + n <= MaxCells
                 /\ calls' = <<<<Header(package)>>, package>>
                 /\ written' = [written EXCEPT ![run] = Append(@, package)]
  BY DEF WriteBuffer
<1>3. CASE n = 0
  BY <1>1, <1>2, <1>3, EmptyBuffer
<1>4. CASE n # 0
  <2> DEFINE q == [i \in 1 .. n |-> Record(i)]
             last == Len(Mine) + 1
  <2>1. IsPackage(q, run) /\ At(q) = pos
    BY <1>2, <1>4, BatchBounds, NewPackage
  <2>2. /\ calls' = <<<<Header(q)>>, q>>
        /\ written' = [written EXCEPT ![run] = Append(@, q)]
    BY <1>2, <1>4
  <2> HIDE DEF q
  <2>3. /\ Mine \in Seq(Seq(Records)) /\ Len(Mine) \in Nat /\ run \in 1 .. MaxRuns
        /\ \A k \in 1 .. Len(Mine) : IsPackage(Mine[k], run)
        /\ InOrder(Mine)
    BY MineFacts
  <2>4. Mine' = Append(Mine, q)
    BY <1>1, <2>2, <2>3 DEF Mine, FileTypeOK
  <2>5. q \in Seq(Records)
    BY <2>1 DEF IsPackage
  <2>6. /\ Mine' \in Seq(Seq(Records)) /\ Len(Mine') = last /\ Mine'[last] = q
        /\ \A k \in 1 .. Len(Mine) : Mine'[k] = Mine[k]
    BY <2>3, <2>4, <2>5, AppendProperties
  <2>7. \A r \in 1 .. MaxRuns : written'[r] = IF r = run THEN Mine' ELSE written[r]
    BY <2>2, <2>3, <2>4 DEF Mine, FileTypeOK
  <2>8. pos = Behind(Mine) /\ \A k \in 1 .. Len(Mine) : Holds(cache, Mine[k])
    BY <1>1 DEF LoggerInv
  <2>9. FileTypeOK'
    <3>1. calls' \in Seq(Seq(Cells))
      BY <2>1, <2>2, PackageCalls
    <3>2. written' \in [1 .. MaxRuns -> Seq(Seq(Records))]
      BY <2>2, <2>3, <2>4, <2>6 DEF FileTypeOK, Mine
    <3>3. synced' \in 0 .. Len(Mine')
      BY <1>1, <2>3, <2>6 DEF FileTypeOK
    <3> QED
      BY <1>1, <3>1, <3>2, <3>3 DEF FileTypeOK
  <2>10. WrittenInv'
    <3>1. InOrder(Mine')
      <4>1. At(q) = Behind(Mine)
        BY <2>1, <2>8
      <4>2. InOrder(Append(Mine, q))
        BY <2>1, <2>3, <2>5, <4>1, OrderAppend
      <4> QED
        BY <2>4, <4>2
    <3>2. ASSUME NEW k \in 1 .. Len(Mine') PROVE IsPackage(Mine'[k], run)
      <4>1. k = last \/ k \in 1 .. Len(Mine)
        BY <2>3, <2>6
      <4> QED
        BY <2>1, <2>3, <2>6, <4>1
    <3>3. ~(run > run)
      BY <2>3
    <3>4. \A r \in 1 .. MaxRuns :
            /\ \A k \in 1 .. Len(written'[r]) : IsPackage(written'[r][k], r)
            /\ InOrder(written'[r])
            /\ r > run => written'[r] = <<>>
      BY <2>7, <3>1, <3>2, <3>3 DEF WrittenInv
    <3> QED
      BY <1>1, <3>4 DEF WrittenInv
  <2>11. CellsInv'
    <3>1. ASSUME NEW r \in 1 .. MaxRuns, NEW k \in 1 .. Len(written[r])
          PROVE  k \in 1 .. Len(written'[r]) /\ written'[r][k] = written[r][k]
      <4>1. CASE r = run
        <5>1. written[r] = Mine /\ written'[r] = Mine'
          BY <2>7, <4>1 DEF Mine
        <5> QED
          BY <2>3, <2>6, <5>1
      <4>2. CASE r # run
        BY <2>7, <4>2
      <4> QED
        BY <4>1, <4>2
    <3>2. \A c \in 1 .. MaxCells : InPlace(written', c, disk[c])
                                   /\ InPlace(written', c, cache[c])
      BY <3>1, InPlaceKept DEF CellsInv
    <3> QED
      BY <1>1, <3>2 DEF CellsInv
  <2>12. SyncInv'
    <3>1. \A k \in 1 .. synced : k \in 1 .. Len(Mine)
      BY <2>3 DEF FileTypeOK
    <3>2. \A k \in 1 .. synced : Mine'[k] = Mine[k]
      BY <2>6, <3>1
    <3> QED
      BY <1>1, <3>2 DEF SyncInv
  <2>13. LoggerInv'
    <3>1. calls' # <<>> /\ logger' = "writing"
      BY <1>1, <2>2
    <3>2. synced' < Len(Mine')
      BY <1>1, <2>3, <2>6 DEF FileTypeOK
    <3>3. \A k \in 1 .. Len(Mine') - 1 : Holds(cache', Mine'[k])
      BY <1>1, <2>3, <2>6, <2>8
    <3>4. HeaderPending(Mine[Len(Mine)])'
      BY <1>1, <2>1, <2>2, <2>6 DEF HeaderPending
    <3> QED
      BY <3>1, <3>2, <3>3, <3>4 DEF LoggerInv
  <2> QED
    BY <2>9, <2>10, <2>11, <2>12, <2>13
<1> QED
  BY <1>2, <1>3, <1>4

\* fsync moves all of the cache to disk.
LEMMA SyncStep ==
  ASSUME FileInv, Sync
  PROVE  FileInv'
<1> USE DEF FileInv
<1>1. /\ UNCHANGED <<cache, pos, left, calls, run, written>>
      /\ disk' = cache /\ synced' = Len(Mine) /\ logger' = "waiting"
      /\ logger = "writing" /\ left = 0 /\ calls = <<>>
  BY DEF Sync
<1>2. Mine' = Mine
  BY <1>1 DEF Mine
<1>3. FileTypeOK'
  <2>1. synced' \in 0 .. Len(Mine')
    BY <1>1, <1>2, MineFacts
  <2> QED
    BY <1>1, <2>1 DEF FileTypeOK
<1>4. WrittenInv' /\ CellsInv'
  BY <1>1 DEF WrittenInv, CellsInv
<1>5. \A k \in 1 .. Len(Mine) : Holds(cache, Mine[k])
  BY <1>1 DEF LoggerInv
<1>6. SyncInv'
  BY <1>1, <1>2, <1>5 DEF SyncInv
<1>7. LoggerInv'
  BY <1>1, <1>2, <1>5 DEF LoggerInv
<1> QED
  BY <1>3, <1>4, <1>6, <1>7

\* A cell of a package is in the file.
LEMMA PackageCells ==
  ASSUME NEW q, NEW r, IsPackage(q, r)
  PROVE  /\ At(q) + 1 \in 1 .. MaxCells
         /\ \A i \in 1 .. Len(q) : At(q) + 1 + i \in 1 .. MaxCells
<1>1. Len(q) \in Nat \ {0} /\ At(q) \in Nat /\ At(q) + 1 + Len(q) <= MaxCells
  BY PackageFacts DEF IsPackage, EndOf
<1> QED
  BY <1>1, FileBounds

\* Cells on disk that differ from the cache hold nothing synced, so writing
\* them back, or tearing them, does no harm.
LEMMA WritebackStep ==
  ASSUME FileInv, Writeback
  PROVE  FileInv'
<1> USE DEF FileInv
<1>1. UNCHANGED <<cache, pos, left, calls, logger, run, written, synced>>
  BY DEF Writeback
<1>2. PICK c \in 1 .. MaxCells :
        /\ disk[c] # cache[c]
        /\ \E new \in {cache[c], Torn} : disk' = [disk EXCEPT ![c] = new]
  BY DEF Writeback, FileTypeOK
<1>3. PICK new \in {cache[c], Torn} : disk' = [disk EXCEPT ![c] = new]
  BY <1>2
<1>4. Mine' = Mine
  BY <1>1 DEF Mine
<1>5. FileTypeOK'
  <2>1. new \in Cells
    BY DEF FileTypeOK, Cells
  <2>2. disk' \in [1 .. MaxCells -> Cells]
    BY <1>3, <2>1 DEF FileTypeOK
  <2> QED
    BY <1>1, <1>4, <2>2 DEF FileTypeOK
<1>6. WrittenInv'
  BY <1>1 DEF WrittenInv
<1>7. \A d \in 1 .. MaxCells : disk'[d] = IF d = c THEN new ELSE disk[d]
  BY <1>3 DEF FileTypeOK
<1>8. CellsInv'
  <2>1. InPlace(written, c, Torn)
    BY DEF InPlace, Torn
  <2>2. InPlace(written, c, new)
    BY <2>1 DEF CellsInv
  <2> QED
    BY <1>1, <1>7, <2>2 DEF CellsInv
<1>9. SyncInv'
  <2>1. ASSUME NEW k \in 1 .. synced PROVE Holds(disk', Mine[k])
    <3> DEFINE q == Mine[k]
    <3>1. k \in 1 .. Len(Mine) /\ IsPackage(q, run)
      BY MineFacts DEF FileTypeOK
    <3>2. Holds(disk, q) /\ Holds(cache, q)
      BY DEF SyncInv
    <3>3. /\ At(q) + 1 \in 1 .. MaxCells
          /\ \A i \in 1 .. Len(q) : At(q) + 1 + i \in 1 .. MaxCells
      BY <3>1, PackageCells
    <3> HIDE DEF q
    <3>4. c # At(q) + 1 /\ \A i \in 1 .. Len(q) : c # At(q) + 1 + i
      BY <1>2, <3>2 DEF Holds, HoldsUpTo
    <3> QED
      BY <1>7, <3>2, <3>3, <3>4 DEF Holds, HoldsUpTo, q
  <2> QED
    BY <1>1, <1>4, <2>1 DEF SyncInv
<1>10. LoggerInv'
  BY <1>1, <1>4 DEF LoggerInv, HeaderPending, RecordsPending
<1> QED
  BY <1>5, <1>6, <1>8, <1>9, <1>10

\* A crash leaves what is on disk.
LEMMA CrashStep ==
  ASSUME FileInv, Crash
  PROVE  FileInv'
<1> USE DEF FileInv
<1>1. /\ UNCHANGED <<disk, pos, run, written, synced>> /\ cache' = disk
      /\ logger' = "down" /\ left' = 0 /\ calls' = <<>>
  BY DEF Crash
<1>2. Mine' = Mine
  BY <1>1 DEF Mine
<1>3. FileTypeOK'
  BY <1>1, <1>2, BatchBounds DEF FileTypeOK
<1>4. WrittenInv' /\ CellsInv'
  BY <1>1 DEF WrittenInv, CellsInv
<1>5. SyncInv'
  BY <1>1, <1>2 DEF SyncInv
<1>6. LoggerInv'
  BY <1>1 DEF LoggerInv
<1> QED
  BY <1>3, <1>4, <1>5, <1>6

\* A write takes the next cells of what is given, behind the offset.
LEMMA WriteCells ==
  ASSUME FileTypeOK, Write
  PROVE  \E r \in 1 .. Len(calls[1]) :
           /\ calls # <<>> /\ pos + r <= MaxCells /\ pos' = pos + r
           /\ cache' \in [1 .. MaxCells -> Cells]
           /\ \A c \in 1 .. pos : cache'[c] = cache[c]
           /\ \A i \in 1 .. r : cache'[pos + i] = calls[1][i]
           /\ \A c \in 1 .. MaxCells : c \notin pos + 1 .. pos + r => cache'[c] = cache[c]
           /\ calls' = LET rest == SubSeq(calls[1], r + 1, Len(calls[1]))
                       IN  IF rest = <<>> THEN Tail(calls) ELSE <<rest>> \o Tail(calls)
<1>1. calls # <<>> /\ Head(calls) = calls[1]
  BY DEF Write
<1>2. PICK r \in 1 .. Len(calls[1]) :
        /\ pos + r <= MaxCells /\ pos' = pos + r
        /\ cache' = [c \in 1 .. MaxCells |->
                       IF c \in pos + 1 .. pos + r THEN calls[1][c - pos] ELSE cache[c]]
        /\ calls' = LET rest == SubSeq(calls[1], r + 1, Len(calls[1]))
                    IN  IF rest = <<>> THEN Tail(calls) ELSE <<rest>> \o Tail(calls)
  BY <1>1 DEF Write, RestOf, FileTypeOK
<1>3. pos \in Nat /\ r \in Nat /\ MaxCells \in Nat
  <2>1. Len(calls[1]) \in Nat
    BY <1>1, EmptySeq, ElementOfSeq, LenProperties DEF FileTypeOK
  <2> QED
    BY <2>1, FileBounds DEF FileTypeOK
<1>4. cache' \in [1 .. MaxCells -> Cells]
  <2>1. \A i \in 1 .. Len(calls[1]) : calls[1][i] \in Cells
    BY <1>1, EmptySeq, ElementOfSeq DEF FileTypeOK
  <2>2. Len(calls[1]) \in Nat
    BY <1>1, EmptySeq, ElementOfSeq, LenProperties DEF FileTypeOK
  <2>3. \A c \in pos + 1 .. pos + r : c - pos \in 1 .. Len(calls[1])
    BY <1>3, <2>2
  <2> QED
    BY <1>2, <2>1, <2>3 DEF FileTypeOK
<1>5. \A c \in 1 .. pos : cache'[c] = cache[c]
  BY <1>2, <1>3
<1>6. \A i \in 1 .. r : cache'[pos + i] = calls[1][i]
  <2> SUFFICES ASSUME NEW i \in 1 .. r PROVE cache'[pos + i] = calls[1][i]
    OBVIOUS
  <2> DEFINE c == pos + i
  <2>1. c \in 1 .. MaxCells /\ c \in pos + 1 .. pos + r /\ c - pos = i
    BY <1>2, <1>3
  <2> HIDE DEF c
  <2>2. cache'[c] = calls[1][i]
    BY <1>2, <2>1
  <2> QED
    BY <2>2 DEF c
<1> QED
  BY <1>1, <1>2, <1>4, <1>5, <1>6

\* One call to write() of a sequence is left, or none, after some of it.
LEMMA RestFacts ==
  ASSUME NEW d \in Seq(Cells), NEW r \in 1 .. Len(d)
  PROVE  LET rest == SubSeq(d, r + 1, Len(d))
         IN  /\ rest \in Seq(Cells) /\ Len(rest) = Len(d) - r
             /\ rest = <<>> <=> r = Len(d)
             /\ \A i \in 1 .. Len(d) - r : rest[i] = d[r + i]
<1> DEFINE rest == SubSeq(d, r + 1, Len(d))
<1>1. \A i \in r + 1 .. Len(d) : d[i] \in Cells
  BY ElementOfSeq
<1>2. /\ rest \in Seq(Cells)
      /\ Len(rest) = IF r + 1 <= Len(d) THEN Len(d) - (r + 1) + 1 ELSE 0
      /\ \A i \in 1 .. Len(d) - (r + 1) + 1 : rest[i] = d[r + 1 + i - 1]
  BY <1>1, SubSeqProperties
<1> HIDE DEF rest
<1>3. Len(rest) = Len(d) - r
  BY <1>2
<1>4. rest = <<>> <=> r = Len(d)
  BY <1>2, <1>3, EmptySeq
<1>5. \A i \in 1 .. Len(d) - r : i \in 1 .. Len(d) - (r + 1) + 1 /\ r + 1 + i - 1 = r + i
  OBVIOUS
<1>6. \A i \in 1 .. Len(d) - r : rest[i] = d[r + i]
  BY <1>2, <1>5
<1> QED
  BY <1>2, <1>3, <1>4, <1>6 DEF rest

\* What a write leaves alone: the packages that end before the offset.
LEMMA EarlierKept ==
  ASSUME FileTypeOK, NEW q, NEW r, IsPackage(q, r), EndOf(q) <= pos, NEW new,
         \A c \in 1 .. pos : new[c] = cache[c], Holds(cache, q)
  PROVE  Holds(new, q)
<1>1. Len(q) \in Nat /\ At(q) \in Nat /\ At(q) + 1 + Len(q) <= pos /\ pos \in Nat
  BY PackageFacts DEF EndOf, FileTypeOK
<1>2. At(q) + 1 \in 1 .. pos /\ \A i \in 1 .. Len(q) : At(q) + 1 + i \in 1 .. pos
  BY <1>1
<1> QED
  BY <1>2 DEF Holds, HoldsUpTo

\* PosixWriter::write puts at the offset what belongs there.
LEMMA WriteStep ==
  ASSUME FileInv, Write
  PROVE  FileInv'
<1> USE DEF FileInv
<1> DEFINE d == calls[1]
           q == Mine[Len(Mine)]
           first == At(q) + 1
<1>1. PICK r \in 1 .. Len(d) :
        /\ calls # <<>> /\ pos + r <= MaxCells /\ pos' = pos + r
        /\ cache' \in [1 .. MaxCells -> Cells]
        /\ \A c \in 1 .. pos : cache'[c] = cache[c]
        /\ \A i \in 1 .. r : cache'[pos + i] = d[i]
        /\ \A c \in 1 .. MaxCells : c \notin pos + 1 .. pos + r => cache'[c] = cache[c]
        /\ calls' = LET rest == SubSeq(d, r + 1, Len(d))
                    IN  IF rest = <<>> THEN Tail(calls) ELSE <<rest>> \o Tail(calls)
  BY WriteCells
<1>2. UNCHANGED <<disk, left, logger, run, written, synced>> /\ Mine' = Mine
  BY DEF Write, Mine
<1>3. /\ Mine \in Seq(Seq(Records)) /\ Len(Mine) \in Nat /\ run \in 1 .. MaxRuns
      /\ \A k \in 1 .. Len(Mine) : IsPackage(Mine[k], run)
      /\ InOrder(Mine)
  BY MineFacts
<1>4. /\ synced < Len(Mine)
      /\ \A k \in 1 .. Len(Mine) - 1 : Holds(cache, Mine[k])
      /\ HeaderPending(q) \/ RecordsPending(q)
      /\ logger = "writing"
  BY <1>1 DEF LoggerInv
<1>5. Len(Mine) \in 1 .. Len(Mine) /\ IsPackage(q, run)
  BY <1>3, <1>4 DEF FileTypeOK
<1>6. /\ Len(q) \in Nat \ {0} /\ At(q) \in Nat /\ EndOf(q) = At(q) + 1 + Len(q)
      /\ Header(q) \in Cells /\ q \in Seq(Records) /\ q \in Seq(Cells)
  <2>1. Records \subseteq Cells /\ Headers \subseteq Cells
    BY DEF Cells
  <2> QED
    BY <1>5, <2>1, PackageFacts, SeqMonotonic DEF EndOf, IsPackage
<1>7. d \in Seq(Cells) /\ Len(d) \in Nat /\ pos \in Nat
  BY <1>1, EmptySeq, ElementOfSeq, LenProperties DEF FileTypeOK
<1> HIDE DEF d, q
<1>8. ASSUME NEW k \in 1 .. Len(Mine) - 1 PROVE Holds(cache', Mine[k])
  <2>1. k \in 1 .. Len(Mine) /\ k < Len(Mine)
    BY <1>3
  <2>2. EndOf(Mine[k]) <= At(q)
    BY <1>3, <1>5, <2>1 DEF InOrder, q
  <2>3. At(q) <= pos
    BY <1>4, <1>6, <1>7 DEF HeaderPending, RecordsPending
  <2>4. EndOf(Mine[k]) \in Nat
    BY <1>3, <2>1, PackageFacts
  <2>5. EndOf(Mine[k]) <= pos
    BY <1>6, <1>7, <2>2, <2>3, <2>4
  <2> QED
    BY <1>1, <1>3, <1>4, <2>1, <2>5, EarlierKept
<1>9. PICK n \in 0 .. Len(q) :
        /\ pos' = first + n /\ HoldsUpTo(cache', q, n)
        /\ \/ n = Len(q) /\ calls' = <<>>
           \/ /\ n < Len(q)
              /\ calls' \in Seq(Seq(Cells)) /\ Len(calls') = 1
              /\ Len(calls'[1]) = Len(q) - n
              /\ \A i \in 1 .. Len(q) - n : calls'[1][i] = q[n + i]
        /\ \A i \in 1 .. r : InPlace(written, pos + i, d[i])
  <2>1. CASE HeaderPending(q)
    <3>1. pos = At(q) /\ calls = <<<<Header(q)>>, q>>
      BY <2>1 DEF HeaderPending
    <3>2. d = <<Header(q)>> /\ Len(d) = 1 /\ r = 1 /\ Tail(calls) = <<q>>
      BY <1>6, <1>7, <3>1 DEF d
    <3>3. SubSeq(d, r + 1, Len(d)) = <<>>
      BY <1>7, <3>2, RestFacts
    <3>4. calls' = <<q>>
      BY <1>1, <3>2, <3>3
    <3>5. pos' = first + 0
      BY <1>1, <1>6, <3>1, <3>2
    <3>6. HoldsUpTo(cache', q, 0)
      <4>1. 1 \in 1 .. r /\ cache'[pos + 1] = d[1] /\ d[1] = Header(q)
        BY <1>1, <3>2
      <4> QED
        BY <3>1, <4>1 DEF HoldsUpTo
    <3>7. \A i \in 1 .. r : InPlace(written, pos + i, d[i])
      <4>1. HeaderAt(written, pos + 1, Header(q))
        BY <1>3, <1>5, <3>1 DEF HeaderAt, Mine, q
      <4>2. Header(q).kind = "header"
        BY DEF Header
      <4>3. InPlace(written, pos + 1, Header(q))
        BY <4>1, <4>2 DEF InPlace
      <4> QED
        BY <3>2, <4>3
    <3>8. /\ 0 < Len(q)
          /\ calls' \in Seq(Seq(Cells)) /\ Len(calls') = 1 /\ Len(calls'[1]) = Len(q) - 0
          /\ \A i \in 1 .. Len(q) - 0 : calls'[1][i] = q[0 + i]
      BY <1>6, <3>4
    <3> WITNESS 0 \in 0 .. Len(q)
    <3> QED
      BY <3>5, <3>6, <3>7, <3>8
  <2>2. CASE RecordsPending(q)
    <3>1. PICK m \in 0 .. Len(q) - 1 :
            /\ pos = first + m /\ HoldsUpTo(cache, q, m)
            /\ Len(calls) = 1 /\ Len(d) = Len(q) - m
            /\ \A i \in 1 .. Len(q) - m : d[i] = q[m + i]
      BY <2>2 DEF RecordsPending, d
    <3> DEFINE rest == SubSeq(d, r + 1, Len(d))
               n    == m + r
    <3>2. /\ rest \in Seq(Cells) /\ Len(rest) = Len(d) - r
          /\ rest = <<>> <=> r = Len(d)
          /\ \A i \in 1 .. Len(d) - r : rest[i] = d[r + i]
      BY <1>7, RestFacts
    <3>3. Tail(calls) = <<>>
      <4>1. Tail(calls) \in Seq(Seq(Cells)) /\ Len(Tail(calls)) = 0
        BY <1>1, <3>1, HeadTailProperties DEF FileTypeOK
      <4> QED
        BY <4>1, EmptySeq
    <3>4. calls' = IF rest = <<>> THEN <<>> ELSE <<rest>>
      <4>1. <<rest>> \o <<>> = <<rest>>
        OBVIOUS
      <4> QED
        BY <1>1, <3>3, <4>1
    <3> HIDE DEF rest, n
    <3>5. /\ n \in 0 .. Len(q) /\ (n = Len(q) <=> r = Len(d)) /\ r \in Nat
          /\ Len(d) - r = Len(q) - n
      BY <1>6, <1>7, <3>1 DEF n
    <3>6. pos' = first + n
      BY <1>1, <1>6, <3>1, <3>5 DEF n
    <3>7. HoldsUpTo(cache', q, n)
      <4>1. first \in 1 .. pos /\ \A i \in 1 .. m : first + i \in 1 .. pos
        BY <1>6, <1>7, <3>1
      <4>2. cache'[first] = Header(q) /\ \A i \in 1 .. m : cache'[first + i] = q[i]
        BY <1>1, <3>1, <4>1 DEF HoldsUpTo
      <4>3. ASSUME NEW i \in 1 .. n PROVE cache'[first + i] = q[i]
        <5>1. CASE i <= m
          BY <4>2, <5>1, <3>1
        <5>2. CASE ~(i <= m)
          <6>1. /\ i - m \in 1 .. r /\ i - m \in 1 .. Len(q) - m
                /\ pos + (i - m) = first + i /\ m + (i - m) = i
            BY <1>6, <3>1, <3>5, <5>2 DEF n
          <6>2. cache'[pos + (i - m)] = d[i - m] /\ d[i - m] = q[m + (i - m)]
            BY <1>1, <3>1, <6>1
          <6> QED
            BY <6>1, <6>2
        <5> QED
          BY <5>1, <5>2
      <4> QED
        BY <4>2, <4>3 DEF HoldsUpTo
    <3>8. \A i \in 1 .. r : InPlace(written, pos + i, d[i])
      <4> SUFFICES ASSUME NEW i \in 1 .. r PROVE InPlace(written, pos + i, d[i])
        OBVIOUS
      <4>1. /\ i \in 1 .. Len(q) - m /\ m + i \in 1 .. Len(q)
            /\ pos + i = At(q) + 1 + (m + i)
        <5>1. /\ Len(q) \in Nat /\ At(q) \in Nat /\ m \in Nat /\ r \in Nat
              /\ r <= Len(q) - m /\ pos = At(q) + 1 + m
          BY <1>6, <3>1, <3>5
        <5> QED
          BY <5>1
      <4>2. d[i] = q[m + i]
        BY <3>1, <4>1
      <4>3. q[m + i] = [kind |-> "record", run |-> run, no |-> <<At(q), m + i>>]
        BY <1>5, <4>1 DEF IsPackage
      <4> QED
        BY <4>1, <4>2, <4>3 DEF InPlace
    <3>9. CASE r = Len(d)
      BY <3>2, <3>4, <3>5, <3>6, <3>7, <3>8, <3>9
    <3>10. CASE r # Len(d)
      <4>1. calls' = <<rest>> /\ n < Len(q)
        BY <1>6, <3>2, <3>4, <3>5, <3>10
      <4>2. ASSUME NEW i \in 1 .. Len(q) - n PROVE rest[i] = q[n + i]
        <5>1. i \in 1 .. Len(d) - r /\ r + i \in 1 .. Len(q) - m /\ m + (r + i) = n + i
          BY <1>6, <1>7, <3>1, <3>5 DEF n
        <5>2. rest[i] = d[r + i] /\ d[r + i] = q[m + (r + i)]
          BY <3>1, <3>2, <5>1
        <5> QED
          BY <5>1, <5>2
      <4>3. calls' \in Seq(Seq(Cells)) /\ Len(calls') = 1 /\ calls'[1] = rest
        BY <3>2, <4>1
      <4> QED
        BY <3>2, <3>5, <3>6, <3>7, <3>8, <4>1, <4>2, <4>3
    <3> QED
      BY <3>9, <3>10
  <2> QED
    BY <1>4, <2>1, <2>2
<1> HIDE DEF q
<1>10. FileTypeOK'
  <2>1. pos' \in 0 .. MaxCells
    <3>1. r \in Nat
      BY <1>7
    <3>2. pos' = pos + r /\ pos + r <= MaxCells /\ pos \in Nat
      BY <1>1, <1>7
    <3> QED
      BY <3>1, <3>2, FileBounds
  <2>2. calls' = <<>> \/ calls' \in Seq(Seq(Cells))
    BY <1>9, SMTT(30)
  <2> QED
    BY <1>1, <1>2, <2>1, <2>2 DEF FileTypeOK
<1>11. WrittenInv'
  BY <1>2 DEF WrittenInv
<1>12. CellsInv'
  <2>1. ASSUME NEW c \in 1 .. MaxCells PROVE InPlace(written, c, cache'[c])
    <3>1. CASE c \notin pos + 1 .. pos + r
      BY <1>1, <3>1 DEF CellsInv
    <3>2. CASE c \in pos + 1 .. pos + r
      <4>1. c - pos \in 1 .. r /\ pos + (c - pos) = c
        BY <1>7, <3>2
      <4>2. /\ cache'[pos + (c - pos)] = d[c - pos]
            /\ InPlace(written, pos + (c - pos), d[c - pos])
        BY <1>1, <1>9, <4>1
      <4> QED
        BY <4>1, <4>2
    <3> QED
      BY <3>1, <3>2
  <2> QED
    BY <1>2, <2>1 DEF CellsInv
<1>13. SyncInv'
  <2>1. \A k \in 1 .. synced : k \in 1 .. Len(Mine) - 1
    BY <1>3, <1>4 DEF FileTypeOK
  <2> QED
    BY <1>2, <1>8, <2>1 DEF SyncInv
<1>14. LoggerInv'
  <2>1. CASE n = Len(q) /\ calls' = <<>>
    <3>1. Mine # <<>> /\ pos' = Behind(Mine)
      BY <1>5, <1>6, <1>9, <2>1 DEF Behind, q
    <3>2. Holds(cache', q)
      BY <1>9, <2>1 DEF Holds
    <3>3. ASSUME NEW k \in 1 .. Len(Mine) PROVE Holds(cache', Mine[k])
      <4>1. k = Len(Mine) \/ k \in 1 .. Len(Mine) - 1
        BY <1>3
      <4> QED
        BY <1>8, <3>2, <4>1 DEF q
    <3> QED
      BY <1>2, <1>4, <2>1, <3>1, <3>3 DEF LoggerInv
  <2>2. CASE /\ n < Len(q)
             /\ calls' \in Seq(Seq(Cells)) /\ Len(calls') = 1
             /\ Len(calls'[1]) = Len(q) - n
             /\ \A i \in 1 .. Len(q) - n : calls'[1][i] = q[n + i]
    <3>1. calls' # <<>> /\ n \in 0 .. Len(q) - 1
      <4>1. calls' # <<>>
        <5>1. Len(calls') = 1
          BY <2>2
        <5> QED
          BY <5>1
      <4>2. n \in 0 .. Len(q) - 1
        BY <1>6, <2>2
      <4> QED
        BY <4>1, <4>2
    <3>2. RecordsPending(q)'
      <4>1. q' = q
        BY <1>2 DEF q
      <4> QED
        BY <1>9, <2>2, <3>1, <4>1 DEF RecordsPending
    <3>3. Mine'[Len(Mine')] = q
      BY <1>2 DEF q
    <3> QED
      BY <1>2, <1>4, <1>8, <3>1, <3>2 DEF LoggerInv, q
  <2> QED
    BY <1>9, <2>1, <2>2
<1> QED
  BY <1>10, <1>11, <1>12, <1>13, <1>14

\* The file, the cache and the logger's calls agree, whatever the bounds.
LEMMA FileInvariant == Spec => []FileInv
<1>1. FileInv /\ [Next]_vars => FileInv'
  <2> SUFFICES ASSUME FileInv, [Next]_vars PROVE FileInv'
    OBVIOUS
  <2>1. CASE UNCHANGED vars
    <3>1. /\ UNCHANGED <<disk, cache, pos, left, calls, logger, run, written, synced>>
          /\ Mine' = Mine
      BY <2>1 DEF vars, Mine
    <3> QED
      BY <3>1 DEF FileInv, FileTypeOK, WrittenInv, CellsInv, SyncInv, LoggerInv,
         HeaderPending, RecordsPending
  <2>2. CASE Deq \/ End
    BY <2>2, QuietSteps
  <2>3. CASE WriteBuffer
    BY <2>3, WriteBufferStep
  <2>4. CASE Write
    BY <2>4, WriteStep
  <2>5. CASE Sync
    BY <2>5, SyncStep
  <2>6. CASE Open
    BY <2>6, OpenStep
  <2>7. CASE Writeback
    BY <2>7, WritebackStep
  <2>8. CASE Crash
    BY <2>8, CrashStep
  <2> QED
    BY <2>1, <2>2, <2>3, <2>4, <2>5, <2>6, <2>7, <2>8 DEF Next
<1> QED
  BY <1>1, FileInit, PTL DEF Spec

-----------------------------------------------------------------------------
(* What a reader finds.                                                    *)

\* Where the k-th package of this run ends, and the one before the first.
EndAfter(k) == IF k = 0 THEN 0 ELSE EndOf(Mine[k])

\* Packages that some run has handed to write().
Known == UNION {ToSet(written[r]) : r \in 1 .. run}

\* The disk is a file the reader can take.
LEMMA DiskIsFile ==
  ASSUME FileInv
  PROVE  /\ IsFile(disk) /\ MaxCells + 1 \in Nat
         /\ \A p \in 1 .. MaxCells : disk[p].kind = "header" => disk[p] \in Headers
<1>1. \A p \in 1 .. MaxCells : disk[p] \in Cells
  BY DEF FileInv, FileTypeOK
<1>2. \A p \in 1 .. MaxCells : disk[p].kind = "header" => disk[p] \in Headers
  BY <1>1 DEF Cells, Hole, Torn, Records
<1> QED
  BY <1>2, FileBounds DEF IsFile, Headers

\* A package whose check sum fits was written as one: each of its cells holds a
\* record of the package its header is of, and a record is only at its place.
LEMMA FoundWasWritten ==
  ASSUME FileInv, NEW p \in 1 .. MaxCells + 1, WholeAt(disk, p)
  PROVE  \E r \in 1 .. run : \E k \in 1 .. Len(written[r]) :
           LET q == written[r][k]
           IN  /\ p = At(q) + 1 /\ RecordsAt(disk, p) = q
               /\ p + 1 + disk[p].logRecNum = EndOf(q) + 1
<1> USE DEF FileInv
<1>1. p \in 1 .. MaxCells /\ disk[p].kind = "header"
  BY FileBounds DEF WholeAt
<1>2. PICK r \in 1 .. MaxRuns : \E k \in 1 .. Len(written[r]) :
        disk[p] = Header(written[r][k]) /\ p = At(written[r][k]) + 1
  BY <1>1 DEF CellsInv, InPlace, HeaderAt
<1>3. PICK k \in 1 .. Len(written[r]) :
        disk[p] = Header(written[r][k]) /\ p = At(written[r][k]) + 1
  BY <1>2
<1> DEFINE q == written[r][k]
           n == Len(q)
           found == RecordsAt(disk, p)
<1>4. r \in 1 .. run
  <2>1. ~(r > run)
    <3>1. r > run => Len(written[r]) = 0
      BY DEF WrittenInv
    <3> QED
      BY <3>1
  <2> QED
    BY <2>1 DEF FileTypeOK
<1>5. IsPackage(q, r) /\ disk[p] = Header(q) /\ p = At(q) + 1
  BY <1>3 DEF WrittenInv
<1> HIDE DEF q
<1>6. /\ n \in Nat \ {0} /\ At(q) \in Nat /\ q \in Seq(Records)
      /\ disk[p].logRecNum = n /\ disk[p].chkSum = ToSet(q)
      /\ EndOf(q) = At(q) + 1 + n
  BY <1>5, PackageFacts DEF IsPackage, EndOf
<1> HIDE DEF n
<1>7. \A i \in 1 .. n : p + i \in 1 .. MaxCells
  <2>1. p + n <= MaxCells
    BY <1>6 DEF WholeAt
  <2>2. p \in Nat /\ n \in Nat
    BY <1>1, <1>6
  <2> QED
    BY <2>1, <2>2, FileBounds
<1>8. found = SubSeq(disk, p + 1, p + n) /\ ToSet(found) = ToSet(q)
  BY <1>6 DEF RecordsAt, WholeAt
<1>9. /\ found \in Seq(Cells) /\ Len(found) = n
      /\ \A i \in 1 .. n : found[i] = disk[p + i]
  <2>1. \A c \in p + 1 .. p + n : c \in 1 .. MaxCells
    BY <1>1, <1>6, FileBounds DEF WholeAt
  <2>2. \A c \in p + 1 .. p + n : disk[c] \in Cells
    BY <2>1 DEF FileTypeOK
  <2> DEFINE a == p + 1
             b == p + n
  <2>3. a \in Int /\ b \in Int /\ a <= b /\ b - a + 1 = n
        /\ \A i \in 1 .. n : a + i - 1 = p + i
    BY <1>6
  <2>4. found = SubSeq(disk, a, b) /\ \A c \in a .. b : disk[c] \in Cells
    BY <1>8, <2>2
  <2> HIDE DEF a, b, found
  <2>5. /\ found \in Seq(Cells)
        /\ Len(found) = IF a <= b THEN b - a + 1 ELSE 0
        /\ \A i \in 1 .. b - a + 1 : found[i] = disk[a + i - 1]
    BY <2>3, <2>4, SubSeqProperties
  <2> QED
    BY <2>3, <2>5
<1> HIDE DEF found
<1>10. ASSUME NEW i \in 1 .. n PROVE found[i] = q[i]
  <2>1. DOMAIN found = 1 .. n /\ DOMAIN q = 1 .. n
    BY <1>6, <1>9, LenProperties DEF n
  <2>2. found[i] \in ToSet(q)
    BY <1>8, <2>1 DEF ToSet
  <2>3. PICK j \in 1 .. n : found[i] = q[j]
    BY <2>1, <2>2 DEF ToSet
  <2>4. q[j] = [kind |-> "record", run |-> r, no |-> <<At(q), j>>]
    BY <1>5 DEF IsPackage, n
  <2>5. InPlace(written, p + i, q[j])
    BY <1>7, <1>9, <2>3 DEF CellsInv
  <2>6. p + i = At(q) + 1 + j
    BY <2>4, <2>5 DEF InPlace
  <2>7. j = i
    BY <1>5, <1>6, <2>6
  <2> QED
    BY <2>3, <2>7
<1>11. found = q
  <2>1. q \in Seq(Cells)
    BY <1>6, SeqMonotonic DEF Cells
  <2> QED
    BY <1>9, <1>10, <2>1, SeqEqual DEF n
<1> QED
  BY <1>4, <1>5, <1>6, <1>11 DEF q, found, n

\* From any cell on, the reader finds packages that were written.
LEMMA FindsKnown ==
  ASSUME FileInv, NEW p \in 1 .. MaxCells + 1
  PROVE  PackagesFrom(disk)[p] \in Seq(Known)
<1> DEFINE from == PackagesFrom(disk)
           S == {c \in 1 .. MaxCells + 1 : from[c] \in Seq(Known)}
<1>1. ASSUME NEW c \in 1 .. MaxCells + 1, \A m \in c + 1 .. MaxCells + 1 : m \in S
      PROVE  c \in S
  <2>1. CASE WholeAt(disk, c)
    <3> DEFINE next == c + 1 + disk[c].logRecNum
    <3>1. from[c] = <<RecordsAt(disk, c)>> \o from[next]
      BY <2>1, DiskIsFile, ReadOn
    <3>2. next \in c + 1 .. MaxCells + 1
      BY <2>1, DiskIsFile, FileBounds DEF WholeAt, IsFile
    <3>3. from[next] \in Seq(Known)
      BY <1>1, <3>2
    <3>4. RecordsAt(disk, c) \in Known
      <4>1. PICK r \in 1 .. run : \E k \in 1 .. Len(written[r]) :
              RecordsAt(disk, c) = written[r][k]
        BY <2>1, FoundWasWritten
      <4>2. DOMAIN written[r] = 1 .. Len(written[r])
        BY DEF FileInv, FileTypeOK
      <4> QED
        BY <4>1, <4>2 DEF Known, ToSet
    <3> HIDE DEF from, next
    <3>5. <<RecordsAt(disk, c)>> \in Seq(Known)
      BY <3>4
    <3>6. from[c] \in Seq(Known)
      BY <3>1, <3>3, <3>5, ConcatProperties
    <3> QED
      BY <3>6
  <2>2. CASE ~WholeAt(disk, c)
    <3>1. from[c] = <<>>
      BY <2>2, DiskIsFile, ReadOn
    <3> HIDE DEF from
    <3>2. from[c] \in Seq(Known)
      BY <3>1
    <3> QED
      BY <3>2
  <2> QED
    BY <2>1, <2>2
<1> HIDE DEF S
<1>2. 1 .. MaxCells + 1 \subseteq S
  BY <1>1, DiskIsFile, FromTheEnd
<1> QED
  BY <1>2 DEF S

\* A reader takes for a package only what one run has written as one, whatever
\* was torn, left by an earlier run, or written half.
THEOREM NoPatchedPackages == Spec => []WholePackages
<1>1. FileInv => WholePackages
  <2> SUFFICES ASSUME FileInv, NEW q \in ToSet(Packages(disk))
               PROVE  \E r \in 1 .. run : q \in ToSet(written[r])
    BY DEF WholePackages
  <2>1. Packages(disk) \in Seq(Known)
    BY FindsKnown, FileBounds DEF Packages
  <2>2. q \in Known
    BY <2>1, ElementOfSeq DEF ToSet
  <2> QED
    BY <2>2 DEF Known
<1> QED
  BY <1>1, FileInvariant, PTL

\* The next package of this run begins where the ones before it end.
LEMMA NextBegins ==
  ASSUME FileInv, NEW j \in Nat, j < Len(Mine)
  PROVE  /\ j + 1 \in 1 .. Len(Mine) /\ IsPackage(Mine[j + 1], run)
         /\ At(Mine[j + 1]) = EndAfter(j) /\ EndAfter(j + 1) = EndOf(Mine[j + 1])
         /\ EndAfter(j) \in Nat /\ EndAfter(j) < EndAfter(j + 1)
         /\ EndAfter(j + 1) <= MaxCells
<1>1. /\ Mine \in Seq(Seq(Records)) /\ Len(Mine) \in Nat
      /\ \A k \in 1 .. Len(Mine) : IsPackage(Mine[k], run)
      /\ InOrder(Mine)
  BY MineFacts DEF FileInv
<1>2. j + 1 \in 1 .. Len(Mine)
  BY <1>1
<1>3. At(Mine[j + 1]) = EndAfter(j)
  <2>1. CASE j = 0
    <3>1. Mine # <<>> /\ j + 1 = 1
      BY <1>1, <2>1
    <3> QED
      BY <1>1, <2>1, <3>1 DEF InOrder, EndAfter
  <2>2. CASE j # 0
    <3> DEFINE k == j + 1
    <3>1. k \in 2 .. Len(Mine) /\ k - 1 = j
      BY <1>1, <2>2
    <3> HIDE DEF k
    <3>2. At(Mine[k]) = EndOf(Mine[k - 1])
      BY <1>1, <3>1 DEF InOrder
    <3> QED
      BY <2>2, <3>1, <3>2 DEF EndAfter, k
  <2> QED
    BY <2>1, <2>2
<1>4. IsPackage(Mine[j + 1], run) /\ j + 1 # 0
  BY <1>1, <1>2
<1>5. EndAfter(j + 1) = EndOf(Mine[j + 1])
  BY <1>4 DEF EndAfter
<1>6. /\ At(Mine[j + 1]) \in Nat /\ Len(Mine[j + 1]) \in Nat
      /\ EndOf(Mine[j + 1]) = At(Mine[j + 1]) + 1 + Len(Mine[j + 1])
      /\ EndOf(Mine[j + 1]) <= MaxCells
  BY <1>4, PackageFacts DEF EndOf, IsPackage
<1> QED
  BY <1>2, <1>3, <1>4, <1>5, <1>6

\* A package that is on disk with its header is found there.
LEMMA HeldIsFound ==
  ASSUME FileInv, NEW q, IsPackage(q, run), Holds(disk, q), NEW p, p = At(q) + 1
  PROVE  /\ p \in 1 .. MaxCells /\ WholeAt(disk, p)
         /\ RecordsAt(disk, p) = q /\ p + 1 + disk[p].logRecNum = EndOf(q) + 1
<1> DEFINE n == Len(q)
           b == p + n
<1>1. /\ n \in Nat \ {0} /\ At(q) \in Nat /\ q \in Seq(Records)
      /\ Header(q).logRecNum = n /\ Header(q).chkSum = ToSet(q)
      /\ EndOf(q) = At(q) + 1 + n /\ EndOf(q) <= MaxCells
  BY PackageFacts DEF IsPackage, EndOf
<1>2. /\ p \in 1 .. MaxCells /\ b <= MaxCells /\ p + 1 + n = EndOf(q) + 1
      /\ p \in Nat /\ n \in Nat \ {0} /\ b \in Nat /\ b = p + n
  BY <1>1, FileBounds
<1>3. disk[p] = Header(q) /\ disk[p].kind = "header"
      /\ \A i \in 1 .. n : disk[p + i] = q[i]
  BY DEF Holds, HoldsUpTo, Header
<1> HIDE DEF n, b
<1>4. ASSUME NEW c \in p + 1 .. b PROVE disk[c] = q[c - p] /\ disk[c] \in Records
  <2>1. c - p \in 1 .. n /\ p + (c - p) = c
    BY <1>2
  <2>2. disk[p + (c - p)] = q[c - p]
    BY <1>3, <2>1
  <2>3. q[c - p] \in Records
    BY <1>1, <2>1, ElementOfSeq DEF n
  <2> QED
    BY <2>1, <2>2, <2>3
<1> DEFINE found == SubSeq(disk, p + 1, b)
<1>5. /\ found \in Seq(Records)
      /\ Len(found) = IF p + 1 <= b THEN b - (p + 1) + 1 ELSE 0
      /\ \A i \in 1 .. b - (p + 1) + 1 : found[i] = disk[p + 1 + i - 1]
  <2>1. p + 1 \in Int /\ b \in Int
    BY <1>2
  <2> QED
    BY <1>4, <2>1, SubSeqProperties
<1> HIDE DEF found
<1>6. Len(found) = n
  <2>1. Len(found) = IF p + 1 <= b THEN b - (p + 1) + 1 ELSE 0
    BY <1>5
  <2> QED
    BY <1>2, <2>1
<1>7. ASSUME NEW i \in 1 .. n PROVE found[i] = q[i]
  <2>1. i \in 1 .. b - (p + 1) + 1 /\ p + 1 + i - 1 = p + i
    BY <1>2
  <2>2. found[i] = disk[p + i]
    BY <1>5, <2>1
  <2> QED
    BY <1>3, <2>2
<1>8. found = q
  BY <1>1, <1>5, <1>6, <1>7, SeqEqual DEF n
<1>9. disk[p].logRecNum = n /\ RecordsAt(disk, p) = q
  BY <1>1, <1>3, <1>8 DEF RecordsAt, found, b
<1>10. WholeAt(disk, p)
  BY <1>1, <1>2, <1>3, <1>9 DEF WholeAt, b
<1> QED
  BY <1>2, <1>9, <1>10

\* A package in front of what is found behind it.
LEMMA FirstAndRest ==
  ASSUME NEW q, NEW T, NEW rest \in Seq(T), NEW s, s = <<q>> \o rest
  PROVE  /\ Len(s) = Len(rest) + 1 /\ s[1] = q
         /\ \A i \in 2 .. Len(rest) + 1 : s[i] = rest[i - 1]
<1>1. <<q>> \in Seq(T \cup {q}) /\ rest \in Seq(T \cup {q})
      /\ Len(<<q>>) = 1 /\ <<q>>[1] = q
  BY SeqMonotonic
<1>2. /\ Len(s) = 1 + Len(rest) /\ Len(rest) \in Nat
      /\ \A i \in 1 .. 1 + Len(rest) : s[i] = IF i <= 1 THEN <<q>>[i] ELSE rest[i - 1]
  <2>1. Len(<<q>> \o rest) = Len(<<q>>) + Len(rest)
        /\ \A i \in 1 .. Len(<<q>>) + Len(rest) :
             (<<q>> \o rest)[i] = IF i <= Len(<<q>>) THEN <<q>>[i]
                                  ELSE rest[i - Len(<<q>>)]
    BY <1>1, ConcatProperties
  <2> QED
    BY <1>1, <2>1
<1> QED
  BY <1>1, <1>2

\* From the end of any synced package on, the reader finds the rest of them.
LEMMA SyncedFound ==
  ASSUME FileInv, NEW j \in 0 .. synced
  PROVE  LET found == PackagesFrom(disk)[EndAfter(j) + 1]
         IN  /\ synced - j <= Len(found)
             /\ \A i \in 1 .. synced - j : found[i] = Mine[j + i]
<1> DEFINE from == PackagesFrom(disk)
           Rest(p, k) == /\ synced - k <= Len(from[p])
                         /\ \A i \in 1 .. synced - k : from[p][i] = Mine[k + i]
           S == {p \in 1 .. MaxCells + 1 :
                   \A k \in 0 .. synced : p = EndAfter(k) + 1 => Rest(p, k)}
<1>1. synced \in Nat /\ synced <= Len(Mine) /\ Len(Mine) \in Nat
  BY MineFacts DEF FileInv, FileTypeOK
<1>2. \A p \in 1 .. MaxCells + 1 : from[p] \in Seq(Known) /\ Len(from[p]) \in Nat
  BY FindsKnown, LenProperties
<1>3. ASSUME NEW p \in 1 .. MaxCells + 1, \A m \in p + 1 .. MaxCells + 1 : m \in S
      PROVE  p \in S
  <2> SUFFICES ASSUME NEW k \in 0 .. synced, p = EndAfter(k) + 1 PROVE Rest(p, k)
    OBVIOUS
  <2>1. CASE k = synced
    BY <1>1, <1>2, <2>1
  <2>2. CASE k # synced
    <3> DEFINE q    == Mine[k + 1]
               next == EndAfter(k + 1) + 1
    <3>1. k \in Nat /\ k < Len(Mine) /\ k + 1 \in 0 .. synced /\ k + 1 \in 1 .. synced
      BY <1>1, <2>2
    <3>2. /\ IsPackage(q, run) /\ p = At(q) + 1 /\ next = EndOf(q) + 1
          /\ next \in p + 1 .. MaxCells + 1 /\ next \in 1 .. MaxCells + 1
      <4>1. /\ IsPackage(q, run) /\ At(q) = EndAfter(k)
            /\ EndAfter(k + 1) = EndOf(q)
            /\ EndAfter(k) \in Nat /\ EndAfter(k) < EndAfter(k + 1)
            /\ EndAfter(k + 1) <= MaxCells
        BY <3>1, NextBegins
      <4>2. EndOf(q) \in Nat
        BY <4>1, PackageFacts
      <4> HIDE DEF q
      <4> QED
        BY <4>1, <4>2, FileBounds
    <3>3. Holds(disk, q)
      BY <3>1 DEF FileInv, SyncInv
    <3>4. /\ WholeAt(disk, p) /\ RecordsAt(disk, p) = q
          /\ p + 1 + disk[p].logRecNum = next
      BY <3>2, <3>3, HeldIsFound
    <3>5. from[p] = <<q>> \o from[next]
      BY <3>4, DiskIsFile, ReadOn
    <3>6. Rest(next, k + 1)
      BY <1>3, <3>1, <3>2
    <3>7. from[next] \in Seq(Known) /\ Len(from[next]) \in Nat
      BY <1>2, <3>2
    <3> HIDE DEF from, next
    <3>8. /\ Len(from[p]) = Len(from[next]) + 1 /\ from[p][1] = q
          /\ \A i \in 2 .. Len(from[next]) + 1 : from[p][i] = from[next][i - 1]
      BY <3>5, <3>7, FirstAndRest
    <3>9. synced - k <= Len(from[p])
      BY <1>1, <3>1, <3>6, <3>7, <3>8
    <3>10. ASSUME NEW i \in 1 .. synced - k PROVE from[p][i] = Mine[k + i]
      <4>1. CASE i = 1
        BY <3>8, <4>1
      <4>2. CASE i # 1
        <5>1. /\ i \in 2 .. Len(from[next]) + 1 /\ i - 1 \in 1 .. synced - (k + 1)
              /\ k + 1 + (i - 1) = k + i
          BY <1>1, <3>1, <3>6, <3>7, <4>2
        <5>2. from[p][i] = from[next][i - 1]
              /\ from[next][i - 1] = Mine[k + 1 + (i - 1)]
          BY <3>6, <3>8, <5>1
        <5> QED
          BY <5>1, <5>2
      <4> QED
        BY <4>1, <4>2
    <3> QED
      BY <3>9, <3>10
  <2> QED
    BY <2>1, <2>2
<1>4. 1 .. MaxCells + 1 \subseteq S
  <2> HIDE DEF S
  <2> QED
    BY <1>3, DiskIsFile, FromTheEnd
<1>5. EndAfter(j) + 1 \in 1 .. MaxCells + 1
  <2>1. CASE j = 0
    BY <2>1, FileBounds DEF EndAfter
  <2>2. CASE j # 0
    <3>1. j \in 1 .. Len(Mine)
      BY <1>1, <2>2
    <3>2. EndOf(Mine[j]) \in Nat /\ EndOf(Mine[j]) <= MaxCells
      BY <3>1, MineFacts, PackageFacts DEF FileInv, IsPackage
    <3> QED
      BY <2>2, <3>2, FileBounds DEF EndAfter
  <2> QED
    BY <2>1, <2>2
<1> QED
  BY <1>4, <1>5

\* What has been synced can be read back, whole and in order, at any moment
\* after: after crashes, torn cells and writes behind it.
THEOREM SyncedIsReadable == Spec => []SyncedReadable
<1>1. FileInv => SyncedReadable
  <2> SUFFICES ASSUME FileInv PROVE SyncedReadable
    OBVIOUS
  <2> DEFINE found == Packages(disk)
             mine  == SubSeq(Mine, 1, synced)
  <2>1. synced \in Nat /\ synced <= Len(Mine) /\ Mine \in Seq(Seq(Records))
    BY MineFacts DEF FileInv, FileTypeOK
  <2>2. found \in Seq(Known) /\ Len(found) \in Nat
    BY FindsKnown, FileBounds, LenProperties DEF Packages
  <2>3. synced <= Len(found) /\ \A i \in 1 .. synced : found[i] = Mine[i]
    <3>1. /\ synced - 0 <= Len(found)
          /\ \A i \in 1 .. synced - 0 : found[i] = Mine[0 + i]
      <4>1. 0 \in 0 .. synced /\ EndAfter(0) + 1 = 1
        BY <2>1 DEF EndAfter
      <4> QED
        BY <4>1, SyncedFound DEF Packages
    <3> QED
      BY <2>1, <2>2, <3>1
  <2> HIDE DEF found
  <2>4. /\ mine \in Seq(Seq(Records)) /\ Len(mine) = synced
        /\ \A i \in 1 .. synced : mine[i] = Mine[i]
    BY <2>1
  <2> HIDE DEF mine
  <2>5. SubSeq(mine, 1, Len(mine)) = mine
    BY <2>4, SubSeqFull
  <2>6. SubSeq(found, 1, Len(mine)) = mine
    <3> DEFINE front == SubSeq(found, 1, synced)
    <3>1. front \in Seq(Known) /\ Len(front) = synced
          /\ \A i \in 1 .. synced : front[i] = found[i]
      BY <2>1, <2>2, <2>3
    <3> HIDE DEF front
    <3>2. front \in Seq(Known \cup Seq(Records)) /\ mine \in Seq(Known \cup Seq(Records))
      BY <2>4, <3>1, SeqMonotonic
    <3>3. front = mine
      BY <2>3, <2>4, <3>1, <3>2, SeqEqual
    <3> QED
      BY <2>4, <3>3 DEF front
  <2>7. Len(mine) <= Len(found)
    BY <2>3, <2>4
  <2>8. IsPrefix(mine, found)
    BY <2>5, <2>6, <2>7 DEF IsPrefix
  <2> QED
    BY <2>8 DEF SyncedReadable, mine, found
<1> QED
  BY <1>1, FileInvariant, PTL

\* A package of this run that begins where another ends is the next one.
LEMMA OnlyNextBegins ==
  ASSUME FileInv, NEW j \in 0 .. Len(Mine), NEW k \in 1 .. Len(Mine),
         At(Mine[k]) = EndAfter(j)
  PROVE  k = j + 1
<1>1. /\ Len(Mine) \in Nat /\ InOrder(Mine)
      /\ \A i \in 1 .. Len(Mine) : IsPackage(Mine[i], run)
  BY MineFacts DEF FileInv
<1>2. \A i \in 1 .. Len(Mine) :
        At(Mine[i]) \in Nat /\ EndOf(Mine[i]) \in Nat /\ At(Mine[i]) < EndOf(Mine[i])
  BY <1>1, BeginsBeforeEnd
<1>3. \A h, i \in 1 .. Len(Mine) : h < i => EndOf(Mine[h]) <= At(Mine[i])
  BY <1>1 DEF InOrder
<1>4. CASE k <= j
  <2>1. j \in 1 .. Len(Mine) /\ EndAfter(j) = EndOf(Mine[j])
    BY <1>1, <1>4 DEF EndAfter
  <2>2. At(Mine[k]) = EndOf(Mine[j]) /\ At(Mine[j]) < EndOf(Mine[j])
    BY <1>2, <2>1
  <2>3. CASE k = j
    BY <1>2, <2>1, <2>2, <2>3
  <2>4. CASE k < j
    <3>1. EndOf(Mine[k]) <= At(Mine[j]) /\ At(Mine[k]) < EndOf(Mine[k])
      BY <1>2, <1>3, <2>1, <2>4
    <3>2. /\ At(Mine[k]) \in Nat /\ EndOf(Mine[k]) \in Nat
          /\ At(Mine[j]) \in Nat /\ EndOf(Mine[j]) \in Nat
      BY <1>2, <2>1
    <3> QED
      BY <2>2, <3>1, <3>2
  <2> QED
    BY <1>4, <2>3, <2>4
<1>5. CASE j + 1 < k
  <2>1. j \in Nat /\ j < Len(Mine) /\ j + 1 \in 1 .. Len(Mine)
    BY <1>1, <1>5
  <2>2. At(Mine[j + 1]) = EndAfter(j)
    BY <2>1, NextBegins
  <2>3. EndOf(Mine[j + 1]) <= At(Mine[k]) /\ At(Mine[j + 1]) < EndOf(Mine[j + 1])
    BY <1>2, <1>3, <1>5, <2>1
  <2>4. At(Mine[j + 1]) \in Nat /\ EndOf(Mine[j + 1]) \in Nat
    BY <1>2, <2>1
  <2> QED
    BY <2>2, <2>3, <2>4
<1> QED
  BY <1>1, <1>4, <1>5

\* In the first run the reader finds, from the end of any package on, the
\* beginning of what was written behind it.
LEMMA OnlyMineFound ==
  ASSUME FileInv, run = 1, NEW j \in 0 .. Len(Mine)
  PROVE  LET found == PackagesFrom(disk)[EndAfter(j) + 1]
         IN  /\ Len(found) <= Len(Mine) - j
             /\ \A i \in 1 .. Len(found) : found[i] = Mine[j + i]
<1> DEFINE from == PackagesFrom(disk)
           Begins(p, k) == /\ Len(from[p]) <= Len(Mine) - k
                           /\ \A i \in 1 .. Len(from[p]) : from[p][i] = Mine[k + i]
           S == {p \in 1 .. MaxCells + 1 :
                   \A k \in 0 .. Len(Mine) : p = EndAfter(k) + 1 => Begins(p, k)}
<1>1. Len(Mine) \in Nat
  BY MineFacts DEF FileInv
<1>2. \A p \in 1 .. MaxCells + 1 : from[p] \in Seq(Known) /\ Len(from[p]) \in Nat
  BY FindsKnown, LenProperties
<1>3. ASSUME NEW p \in 1 .. MaxCells + 1, \A m \in p + 1 .. MaxCells + 1 : m \in S
      PROVE  p \in S
  <2> SUFFICES ASSUME NEW k \in 0 .. Len(Mine), p = EndAfter(k) + 1 PROVE Begins(p, k)
    OBVIOUS
  <2>1. CASE ~WholeAt(disk, p)
    <3>1. from[p] = <<>>
      BY <2>1, DiskIsFile, ReadOn
    <3> HIDE DEF from
    <3>2. Len(from[p]) = 0
      BY <3>1
    <3> QED
      BY <1>1, <3>2
  <2>2. CASE WholeAt(disk, p)
    <3>1. PICK r \in 1 .. run : \E i \in 1 .. Len(written[r]) :
            LET q == written[r][i]
            IN  /\ p = At(q) + 1 /\ RecordsAt(disk, p) = q
                /\ p + 1 + disk[p].logRecNum = EndOf(q) + 1
      BY <2>2, FoundWasWritten
    <3>2. written[r] = Mine
      BY DEF Mine
    <3>3. PICK h \in 1 .. Len(Mine) :
            /\ p = At(Mine[h]) + 1 /\ RecordsAt(disk, p) = Mine[h]
            /\ p + 1 + disk[p].logRecNum = EndOf(Mine[h]) + 1
      BY <3>1, <3>2
    <3>4. At(Mine[h]) = EndAfter(k)
      <4>1. At(Mine[h]) \in Nat
        BY MineFacts, PackageFacts DEF FileInv
      <4>2. EndAfter(k) \in Int
        <5>1. CASE k = 0
          BY <5>1 DEF EndAfter
        <5>2. CASE k # 0
          <6>1. k \in 1 .. Len(Mine)
            BY <1>1, <5>2
          <6> QED
            BY <5>2, <6>1, MineFacts, PackageFacts DEF FileInv, EndAfter
        <5> QED
          BY <5>1, <5>2
      <4> QED
        BY <3>3, <4>1, <4>2
    <3>5. h = k + 1
      BY <3>4, OnlyNextBegins
    <3> DEFINE q    == Mine[k + 1]
               next == EndAfter(k + 1) + 1
    <3>6. k \in Nat /\ k < Len(Mine) /\ k + 1 \in 0 .. Len(Mine)
      BY <1>1, <3>3, <3>5
    <3>7. /\ EndAfter(k + 1) = EndOf(q)
          /\ EndAfter(k) \in Nat /\ EndAfter(k) < EndAfter(k + 1)
          /\ EndAfter(k + 1) <= MaxCells /\ EndAfter(k + 1) \in Nat
      BY <3>6, NextBegins, PackageFacts
    <3>8. next \in p + 1 .. MaxCells + 1 /\ next \in 1 .. MaxCells + 1
      BY <3>7, FileBounds
    <3>9. from[p] = <<q>> \o from[next]
      BY <2>2, <3>3, <3>5, <3>7, DiskIsFile, ReadOn
    <3>10. Begins(next, k + 1)
      BY <1>3, <3>6, <3>8
    <3>11. from[next] \in Seq(Known) /\ Len(from[next]) \in Nat
      BY <1>2, <3>8
    <3> HIDE DEF from, next
    <3>12. /\ Len(from[p]) = Len(from[next]) + 1 /\ from[p][1] = q
           /\ \A i \in 2 .. Len(from[next]) + 1 : from[p][i] = from[next][i - 1]
      BY <3>9, <3>11, FirstAndRest
    <3>13. Len(from[p]) <= Len(Mine) - k
      BY <1>1, <3>6, <3>10, <3>11, <3>12
    <3>14. ASSUME NEW i \in 1 .. Len(from[p]) PROVE from[p][i] = Mine[k + i]
      <4>1. CASE i = 1
        BY <3>12, <4>1
      <4>2. CASE i # 1
        <5>1. /\ i \in 2 .. Len(from[next]) + 1 /\ i - 1 \in 1 .. Len(from[next])
              /\ k + 1 + (i - 1) = k + i
          <6>1. /\ Len(from[next]) \in Nat /\ k \in Nat
                /\ i \in 1 .. Len(from[next]) + 1
            BY <3>6, <3>11, <3>12
          <6> QED
            BY <4>2, <6>1
        <5>2. from[p][i] = from[next][i - 1]
              /\ from[next][i - 1] = Mine[k + 1 + (i - 1)]
          BY <3>10, <3>12, <5>1
        <5> QED
          BY <5>1, <5>2
      <4> QED
        BY <4>1, <4>2
    <3> QED
      BY <3>13, <3>14
  <2> QED
    BY <2>1, <2>2
<1>4. 1 .. MaxCells + 1 \subseteq S
  <2> HIDE DEF S
  <2> QED
    BY <1>3, DiskIsFile, FromTheEnd
<1>5. EndAfter(j) + 1 \in 1 .. MaxCells + 1
  <2>1. CASE j = 0
    BY <2>1, FileBounds DEF EndAfter
  <2>2. CASE j # 0
    <3>1. j \in 1 .. Len(Mine)
      BY <1>1, <2>2
    <3>2. EndOf(Mine[j]) \in Nat /\ EndOf(Mine[j]) <= MaxCells
      BY <3>1, MineFacts, PackageFacts DEF FileInv, IsPackage
    <3> QED
      BY <2>2, <3>2, FileBounds DEF EndAfter
  <2> QED
    BY <2>1, <2>2
<1> QED
  BY <1>4, <1>5

\* What can be read of a file that was new is the beginning of what was
\* written: no package is missing between two that are found.
THEOREM FirstRunHasNoGaps == Spec => []NoGaps
<1>1. FileInv => NoGaps
  <2> SUFFICES ASSUME FileInv, run = 1 PROVE IsPrefix(Packages(disk), Mine)
    BY DEF NoGaps
  <2> DEFINE found == Packages(disk)
             n     == Len(found)
  <2>1. Len(Mine) \in Nat /\ Mine \in Seq(Seq(Records))
    BY MineFacts DEF FileInv
  <2>2. found \in Seq(Known) /\ n \in Nat
    BY FindsKnown, FileBounds, LenProperties DEF Packages
  <2>3. n <= Len(Mine) /\ \A i \in 1 .. n : found[i] = Mine[i]
    <3>1. n <= Len(Mine) - 0 /\ \A i \in 1 .. n : found[i] = Mine[0 + i]
      <4>1. 0 \in 0 .. Len(Mine) /\ EndAfter(0) + 1 = 1
        BY <2>1 DEF EndAfter
      <4> QED
        BY <4>1, OnlyMineFound DEF Packages
    <3> QED
      BY <2>1, <2>2, <3>1
  <2> HIDE DEF found
  <2>4. SubSeq(found, 1, n) = found
    BY <2>2, SubSeqFull
  <2>5. SubSeq(Mine, 1, n) = found
    <3> DEFINE front == SubSeq(Mine, 1, n)
    <3> HIDE DEF n
    <3>1. front \in Seq(Seq(Records)) /\ Len(front) = n
          /\ \A i \in 1 .. n : front[i] = Mine[i]
      BY <2>1, <2>2, <2>3
    <3> HIDE DEF front
    <3>2. front \in Seq(Known \cup Seq(Records)) /\ found \in Seq(Known \cup Seq(Records))
      BY <2>2, <3>1, SeqMonotonic
    <3>3. front = found
      BY <2>2, <2>3, <3>1, <3>2, SeqEqual DEF n
    <3> QED
      BY <3>3 DEF front
  <2>6. IsPrefix(found, Mine)
    BY <2>3, <2>4, <2>5 DEF IsPrefix
  <2> QED
    BY <2>6 DEF found
<1> QED
  BY <1>1, FileInvariant, PTL
=============================================================================
