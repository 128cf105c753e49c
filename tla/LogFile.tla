------------------------------- MODULE LogFile -------------------------------
(***************************************************************************)
(* The file data.log of one logger, below the step "written and synced" of *)
(* SiloLog: PosixWriter (log_writer.h), the packages of LogBuffer::write   *)
(* and their check sum (log.h), the kernel's cache and the disk.           *)
(*                                                                         *)
(* A header and a record both take 16 bytes, so the file is a sequence of  *)
(* cells of one header or record each.  write() puts cells into the cache  *)
(* and may stop short or fail; the kernel moves cells of the cache to disk *)
(* whenever it likes and in any order; fsync moves them all; a crash       *)
(* leaves what is on disk.  The file is opened without O_TRUNC, and each   *)
(* run writes it from its beginning over what the runs before have left.   *)
(***************************************************************************)
EXTENDS Naturals, Sequences, SequencesExt

CONSTANTS
  MaxCells,     \* bound: the size of the file, in cells
  MaxBatch,     \* bound: buffers written between two syncs
  MaxRecords,   \* bound: records in a buffer
  MaxRuns       \* bound: runs of the program on the same directory

ASSUME FileBounds == MaxCells \in Nat /\ MaxRuns \in Nat \ {0}
ASSUME BatchBounds == MaxBatch \in Nat \ {0} /\ MaxRecords \in Nat

VARIABLES
  disk, cache,  \* the file on disk, and as a process reads it
  pos,          \* cells of the file before its offset
  left,         \* buffers of the batch that logging has still to write
  calls,        \* write() calls the logger has still to make for a buffer
  logger,       \* "waiting", "writing" (between deq and sync), "down"
  run,          \* the run of the program
  written,      \* per run: the packages handed to write(), in order
  synced        \* packages of this run before the last sync

vars == <<disk, cache, pos, left, calls, logger, run, written, synced>>

Hole == [kind |-> "hole"]     \* never written
Torn == [kind |-> "torn"]     \* partly written when the machine stopped

\* The i-th record of a buffer about to be written at the offset.
Record(i) == [kind |-> "record", run |-> run, no |-> <<pos, i>>]

\* Mutated: a sum that does not depend on the contents.
SumOfNothing(records) == Len(records)

\* The additive check sum, taken to be equal for equal sets of records only.
computeChkSum(records) == ToSet(records)

Header(records) ==
  [kind |-> "header", logRecNum |-> Len(records), chkSum |-> computeChkSum(records)]

Mine == written[run]

Init ==
  /\ disk  = [c \in 1 .. MaxCells |-> Hole]
  /\ cache = disk
  /\ pos = 0 /\ left = 0 /\ calls = <<>> /\ synced = 0
  /\ logger = "waiting"
  /\ run = 1
  /\ written = [r \in 1 .. MaxRuns |-> <<>>]

-----------------------------------------------------------------------------
(* The logger.                                                             *)

\* logging: a batch of buffers is taken from the queue.
Deq ==
  /\ logger = "waiting"
  /\ logger' = "writing"
  /\ left' \in 1 .. MaxBatch
  /\ UNCHANGED <<disk, cache, pos, calls, run, written, synced>>

\* LogBuffer::write: the header, then the records; nothing for an empty buffer.
WriteBuffer ==
  /\ left > 0 /\ calls = <<>>
  /\ left' = left - 1
  /\ \E n \in 0 .. MaxRecords :
       LET package == [i \in 1 .. n |-> Record(i)]
       IN  IF n = 0 THEN UNCHANGED <<calls, written>>
           ELSE /\ pos + 1 + n <= MaxCells
                /\ calls' = <<<<Header(package)>>, package>>
                /\ written' = [written EXCEPT ![run] = Append(@, package)]
  /\ UNCHANGED <<disk, cache, pos, logger, run, synced>>

\* Mutated: a short write is repeated from the start of its buffer.
FromTheStart(data, r) == IF r = Len(data) THEN <<>> ELSE data

\* while (s < size): the rest of the data after a write of r cells.
RestOf(data, r) == SubSeq(data, r + 1, Len(data))

\* PosixWriter::write: one write(), which may take less than it is given.
Write ==
  /\ calls # <<>>
  /\ \E r \in 1 .. Len(Head(calls)) :
       LET data == Head(calls)
           rest == RestOf(data, r)
       IN  /\ pos + r <= MaxCells
           /\ cache' = [c \in DOMAIN cache |->
                          IF c \in pos + 1 .. pos + r THEN data[c - pos] ELSE cache[c]]
           /\ pos' = pos + r
           /\ calls' = IF rest = <<>> THEN Tail(calls) ELSE <<rest>> \o Tail(calls)
  /\ UNCHANGED <<disk, left, logger, run, written, synced>>

\* PosixWriter::sync
Sync ==
  /\ logger = "writing" /\ left = 0 /\ calls = <<>>
  /\ disk' = cache
  /\ synced' = Len(Mine)
  /\ logger' = "waiting"
  /\ UNCHANGED <<cache, pos, left, calls, run, written>>

\* The program ends: write() or fsync() has failed and it aborts, or the
\* logger closes its file.  What the cache holds stays in the cache.
End ==
  /\ logger # "down"
  /\ logger' = "down"
  /\ left' = 0 /\ calls' = <<>>
  /\ UNCHANGED <<disk, cache, pos, run, written, synced>>

\* PosixWriter::open in the next run.
Open ==
  /\ logger = "down" /\ run < MaxRuns
  /\ logger' = "waiting"
  /\ run' = run + 1
  /\ pos' = 0 /\ synced' = 0
  /\ UNCHANGED <<disk, cache, left, calls, written>>

-----------------------------------------------------------------------------
(* The machine.                                                            *)

\* The kernel writes back one cell, or is caught in the middle of it.
Writeback ==
  /\ \E c \in DOMAIN disk :
       /\ disk[c] # cache[c]
       /\ \E new \in {cache[c], Torn} : disk' = [disk EXCEPT ![c] = new]
  /\ disk' # disk
  /\ UNCHANGED <<cache, pos, left, calls, logger, run, written, synced>>

Crash ==
  /\ logger' = "down"
  /\ left' = 0 /\ calls' = <<>>
  /\ cache' = disk
  /\ UNCHANGED <<disk, pos, run, written, synced>>

Next == Deq \/ WriteBuffer \/ Write \/ Sync \/ End \/ Open \/ Writeback \/ Crash

Spec == Init /\ [][Next]_vars

-----------------------------------------------------------------------------
(* What a reader finds.                                                    *)

\* The packages of a file from cell p on: a header says how many records
\* follow; one whose check sum does not fit is the end of the log.
ReadFrom(file, from, p) ==
  IF p > MaxCells THEN <<>>
  ELSE IF file[p].kind # "header" THEN <<>>
  ELSE LET next == p + 1 + file[p].logRecNum
           records == SubSeq(file, p + 1, next - 1)
       IN  IF next > MaxCells + 1 THEN <<>>
           ELSE IF computeChkSum(records) # file[p].chkSum THEN <<>>
           ELSE <<records>> \o from[next]

PackagesFrom(file) ==
  LET from[p \in 1 .. MaxCells + 1] == ReadFrom(file, from, p) IN from

Packages(file) == PackagesFrom(file)[1]

\* What has been synced can be read back, whole and in order, at any moment
\* after: whatever is written behind it, is torn, or was there before.
SyncedReadable == IsPrefix(SubSeq(Mine, 1, synced), Packages(disk))

\* A reader never takes a torn package, or one made up of what two packages
\* or two runs have left, for a package that was written.
WholePackages ==
  \A p \in ToSet(Packages(disk)) : \E r \in 1 .. run : p \in ToSet(written[r])

\* In a file that was new there are no gaps either: what can be read is the
\* beginning of what was written.
NoGaps == run = 1 => IsPrefix(Packages(disk), Mine)
=============================================================================
