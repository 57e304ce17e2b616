------------------------------- MODULE LogStore -------------------------------
(***************************************************************************)
(* The flash block log of the dongle, storage/LittleFsBlockStore.cpp, as   *)
(* operators over its value.  The log is a set of segment files; a file is *)
(* named by the seq of its first record and the RAM index keeps the files  *)
(* in that order, so the set and the index carry the same information.     *)
(***************************************************************************)
EXTENDS Integers, Sequences, FiniteSets, FiniteSetsExt

CONSTANTS SegCap,     \* kBlocksPerSegment: records in a full segment
          MaxSegs,    \* kMaxSegments: entries of the RAM index
          MaxBlocks   \* _maxBlocks: limit N of stored blocks (LogLimit.h)

(* maxBlocksFor clamps N to [2 segments, index capacity] (LogLimit.h:27-31). *)
ASSUME LogAssumption == /\ SegCap \in Nat \ {0}
                        /\ MaxSegs \in Nat \ {0, 1}
                        /\ MaxBlocks \in Nat
                        /\ MaxBlocks >= 2 * SegCap

(* A record: a data block or the BOOT marker of a boot, which declares the  *)
(* seqs from..to as never written.  good: its CRC still matches.            *)
Record == [kind : {"DATA", "BOOT"}, boot : Nat, from : Nat, to : Int, good : BOOLEAN]

(* A segment.  reach: how many records a walk from the file's start reads;  *)
(* garbage: bytes that are no record follow those; sealed: the RAM flag     *)
(* that stops appends.                                                      *)
Segment == [first : Nat \ {0}, recs : Seq(Record), reach : Nat,
            garbage : BOOLEAN, sealed : BOOLEAN]

LastSeq(s) == s.first + Len(s.recs) - 1
Covers(s, q) == s.first <= q /\ q <= LastSeq(s)
Holds(log, q) == \E s \in log : Covers(s, q)

NewestSeg(log) == CHOOSE s \in log : \A t \in log : t.first <= s.first
OldestSeg(log) == CHOOSE s \in log : \A t \in log : s.first <= t.first
NewestSeq(log) == IF log = {} THEN 0 ELSE LastSeq(NewestSeg(log))
OldestSeq(log) == IF log = {} THEN 0 ELSE OldestSeg(log).first
BlockCount(log) == Cardinality(UNION {{s} \X (1..Len(s.recs)) : s \in log})

SegmentOf(log, q) == CHOOSE s \in log : Covers(s, q)
RecordAt(log, q) == LET s == SegmentOf(log, q) IN s.recs[q - s.first + 1]

(* read: a seq outside the index is NotFound; a record the walk does not    *)
(* reach is Corrupt, and one whose CRC fails is Ok but refused by the       *)
(* caller's crcMatches, which both callers treat as Corrupt.                *)
ReadStatus(log, q) ==
  IF ~Holds(log, q) THEN "NotFound"
  ELSE LET s == SegmentOf(log, q)
       IN IF q - s.first + 1 <= s.reach /\ RecordAt(log, q).good THEN "Ok" ELSE "Corrupt"

NextStoredSeq(log, q) ==
  LET later == {s \in log : LastSeq(s) >= q}
  IN IF later = {} THEN 0 ELSE Max({q, OldestSeg(later).first})

(* What any number of discardOldest calls may leave: never less than the    *)
(* newest segment, which every loop guards with _count > 1.                 *)
From(log, s) == {t \in log : s.first <= t.first}
Remainders(log) == {log} \cup {From(log, s) : s \in log}

(* ensureSpace: block limit, or free bytes: how far the second condition    *)
(* goes is left open.                                                       *)
Fits(log) == Cardinality(log) <= 1 \/ BlockCount(log) + 1 <= MaxBlocks
EnsureSpace(log) == {kept \in Remainders(log) : Fits(kept)}

(* overflowUpTo: the highest seq discarded since boot. *)
OverflowAfter(old, before, after) ==
  Max({old} \cup {LastSeq(s) : s \in {x \in before : \A t \in after : t.first # x.first}})

(* Mutants: a segment goes with its first record; the newest goes too.      *)
DeleteUpToByFirst(log, upTo) == {s \in log : s.first > upTo \/ s = NewestSeg(log)}
DeleteUpToAll(log, upTo) == {s \in log : LastSeq(s) > upTo}

DeleteUpTo(log, upTo) == {s \in log : LastSeq(s) > upTo \/ s = NewestSeg(log)}

PushSegment(log, s) ==
  (IF Cardinality(log) = MaxSegs THEN log \ {OldestSeg(log)} ELSE log) \cup {s}

(* Mutant: a segment whose append failed is used again.                     *)
NeedsNewSegmentUnlessSealed(log, forceNew, seq) ==
  \/ log = {}
  \/ Len(NewestSeg(log).recs) >= SegCap
  \/ LastSeq(NewestSeg(log)) + 1 # seq

NeedsNewSegment(log, forceNew, seq) ==
  \/ log = {}
  \/ forceNew
  \/ NewestSeg(log).sealed
  \/ Len(NewestSeg(log).recs) >= SegCap
  \/ LastSeq(NewestSeg(log)) + 1 # seq

FreshSegment(seq, r) ==
  [first |-> seq, recs |-> <<r>>, reach |-> 1, garbage |-> FALSE, sealed |-> FALSE]

(* A segment one record longer; behind garbage no walk reaches the record. *)
Extended(s, r) ==
  [s EXCEPT !.recs = Append(@, r),
            !.reach = IF s.garbage THEN @ ELSE @ + 1,
            !.sealed = @ \/ Len(s.recs) + 1 >= SegCap]

(* append that wrote every byte. *)
AppendOk(log, newSegment, seq, r) ==
  IF newSegment THEN PushSegment(log, FreshSegment(seq, r))
  ELSE (log \ {NewestSeg(log)}) \cup {Extended(NewestSeg(log), r)}

(* append that failed: a new file is removed, an existing segment is sealed *)
(* (open failure) or sealed behind garbage (short write).                   *)
AppendFailed(log, newSegment, torn) ==
  IF newSegment THEN log
  ELSE (log \ {NewestSeg(log)})
         \cup {[NewestSeg(log) EXCEPT !.sealed = TRUE, !.garbage = @ \/ torn]}

(* The medium damages one record: its header, where a walk of the file then  *)
(* stops, or its body, whose CRC then fails.                                *)
HeaderBad(s, k) == [s EXCEPT !.reach = IF k <= @ THEN k - 1 ELSE @, !.garbage = TRUE]
BodyBad(s, k) == [s EXCEPT !.recs[k].good = FALSE]
Rotted(s) == UNION {{HeaderBad(s, k), BodyBad(s, k)} : k \in 1..Len(s.recs)}

(* begin: rescan every file, remove the ones with no valid record, then     *)
(* discard the oldest ones beyond the index and the block limit: a segment  *)
(* stays when all those from it on fit.                                     *)
Rescanned(s) ==
  [s EXCEPT !.recs = SubSeq(@, 1, s.reach), !.sealed = s.garbage \/ s.reach >= SegCap]
Valid(log) == {Rescanned(s) : s \in {x \in log : x.reach > 0}}
Mountable(log) == /\ Cardinality(log) <= MaxSegs
                  /\ Cardinality(log) <= 1 \/ BlockCount(log) <= MaxBlocks
Mount(log) == {s \in Valid(log) : Mountable(From(Valid(log), s))}
===============================================================================
