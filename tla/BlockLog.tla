------------------------------- MODULE BlockLog -------------------------------
(***************************************************************************)
(* The durable half of the dongle: BlockWriter gives a seq to every closed *)
(* block and writes it, SeqReserve keeps an upper bound of the seqs in     *)
(* NVS, LittleFsBlockStore stores the blocks, and startCollector recovers  *)
(* the three after a power loss.  The power may fail between any two steps *)
(* and in the middle of an append; NVS, the signature and the flash may    *)
(* fail; the Sync task frees confirmed blocks between the writer's calls.  *)
(***************************************************************************)
EXTENDS LogStore

CONSTANTS Step,        \* kSeqReserveStep
          LegacySeq,   \* last_seq left in NVS by the firmware before seq_rsv
          MaxSeq,      \* bound: no data block is handed over past this seq
          MaxBoots,    \* bound on power-ons
          MaxDamage    \* bound on bit rot and on formats of the partition

ASSUME WriterAssumption == /\ Step \in Nat \ {0}
                           /\ LegacySeq \in Nat
                           /\ MaxSeq \in Nat
                           /\ MaxBoots \in Nat
                           /\ MaxDamage \in Nat

VARIABLES
  seqRsv,         \* NVS seq_rsv: 0 when absent
  legacyLastSeq,  \* NVS last_seq: 0 when absent
  log,            \* flash and its RAM index (LogStore)
  pc,             \* where the writer is: off, idle, reserve, append, migrate
  next,           \* SeqReserve::_next
  reserve,        \* SeqReserve::_reserve, 0 = not yet saved in this boot
  migrated,       \* SeqRecovery::migrated of this boot
  bootPending,    \* BlockWriter::_bootPending
  bootFrom,       \* BlockWriter::_bootFrom
  bootTo,         \* BlockWriter::_bootTo
  dataWaiting,    \* write(block) was called and has not returned
  attempt,        \* append attempt of the current commit
  forceNew,       \* LittleFsBlockStore::_forceNew
  overflowUpTo,   \* LittleFsBlockStore::_overflowUpTo
  boots,          \* power-ons so far; numbers the boots in the records
  damage,         \* faults of the medium so far
  written,        \* history: <<seq, boot, kind>> of every completed append
  freed           \* history: highest seq the Sync task freed

nvs     == <<seqRsv, legacyLastSeq>>
marker  == <<bootPending, bootFrom, bootTo, migrated>>
counter == <<next, reserve>>
history == <<boots, damage, freed>>
vars == <<seqRsv, legacyLastSeq, log, pc, next, reserve, migrated, bootPending, bootFrom, bootTo,
          dataWaiting, attempt, forceNew, overflowUpTo, boots, damage, written, freed>>

WrittenSeqs == {w[1] : w \in written}

(* Every variable of the writer, the NVS and the log has its type: no seq is *)
(* 0 and no range negative.                                                  *)
TypeOK ==
  /\ seqRsv \in Nat /\ legacyLastSeq \in Nat
  /\ log \in SUBSET Segment
  /\ pc \in {"off", "idle", "reserve", "append", "migrate"}
  /\ next \in Nat /\ reserve \in Nat
  /\ migrated \in BOOLEAN /\ bootPending \in BOOLEAN
  /\ bootFrom \in Nat /\ bootTo \in Int
  /\ dataWaiting \in BOOLEAN /\ attempt \in {1, 2} /\ forceNew \in BOOLEAN
  /\ overflowUpTo \in Nat
  /\ boots \in Nat /\ damage \in Nat /\ freed \in Nat
  /\ written \in SUBSET (Nat \X Nat \X {"DATA", "BOOT"})

Init ==
  /\ seqRsv = 0 /\ legacyLastSeq = LegacySeq /\ log = {}
  /\ pc = "off" /\ next = 0 /\ reserve = 0 /\ migrated = FALSE
  /\ bootPending = FALSE /\ bootFrom = 0 /\ bootTo = 0
  /\ dataWaiting = FALSE /\ attempt = 1 /\ forceNew = FALSE /\ overflowUpTo = 0
  /\ boots = 0 /\ damage = 0 /\ written = {} /\ freed = 0

-------------------------------------------------------------------------------
(* Boot                                                                      *)

(* Mutant: the boot trusts the reserve alone.                                *)
RecoveredSeqFromReserve(rsv, legacy, newest) == rsv

(* Mutant: the boot trusts the flash alone.                                  *)
RecoveredSeqFromFlash(rsv, legacy, newest) == newest + 1

(* SeqReserve::recover: R, the seq of the BOOT.                              *)
RecoveredSeq(rsv, legacy, newest) ==
  LET r == IF rsv > 0 THEN rsv ELSE Max({legacy, newest}) + 1
  IN Max({r, newest + 1})

(* Mutant: the gap starts at the newest stored seq.                          *)
GapStartAtNewest(r, newest) == IF newest = 0 THEN r ELSE newest

(* SeqReserve::recover: first seq of the range that the BOOT declares empty. *)
GapStart(r, newest) == IF newest = 0 THEN r ELSE newest + 1

(* Fault: the medium damages what is stored, or LittleFS.begin(true) finds  *)
(* nothing it can mount and formats the partition.                           *)
MayDamage == damage < MaxDamage

(* startCollector up to the call of writeBootMarker, from the log `found`.  *)
Start(found) ==
  LET mounted == Mount(found)
      newest  == NewestSeq(mounted)
      r       == RecoveredSeq(seqRsv, legacyLastSeq, newest)
  IN /\ pc = "off" /\ boots < MaxBoots
     /\ log' = mounted
     /\ overflowUpTo' = OverflowAfter(0, Valid(found), mounted)
     /\ next' = r /\ reserve' = 0
     /\ migrated' = (seqRsv = 0)
     /\ bootPending' = TRUE /\ forceNew' = TRUE
     /\ bootFrom' = GapStart(r, newest)
     /\ bootTo' = r - 1
     /\ dataWaiting' = FALSE /\ attempt' = 1
     /\ boots' = boots + 1
     /\ pc' = "reserve"
     /\ UNCHANGED <<nvs, written, freed>>

PowerOn == Start(log) /\ UNCHANGED damage
PowerOnFormatted == MayDamage /\ Start({}) /\ damage' = damage + 1

-------------------------------------------------------------------------------
(* BlockWriter, on the Flush task                                            *)

(* write(block): a BOOT still pending goes first, in a segment of its own.   *)
Write ==
  /\ pc = "idle" /\ next <= MaxSeq
  /\ pc' = "reserve" /\ dataWaiting' = TRUE /\ attempt' = 1
  /\ forceNew' = (forceNew \/ bootPending)
  /\ UNCHANGED <<nvs, log, counter, marker, overflowUpTo, history, written>>

(* A commit that fails drops the block; the seq is not consumed.             *)
GiveUp == pc' = "idle" /\ dataWaiting' = FALSE

NeedsReserve(seq) == seq >= reserve

(* First half of commit: the reserve goes to NVS before the flash, then the  *)
(* block is stamped and signed (both attempts may fail).                     *)
Reserve ==
  /\ pc = "reserve"
  /\ \/ /\ NeedsReserve(next)
        /\ seqRsv' = next + Step /\ reserve' = next + Step
     \/ /\ ~NeedsReserve(next)
        /\ UNCHANGED <<seqRsv, reserve>>
  /\ \/ pc' = "append" /\ UNCHANGED dataWaiting
     \/ GiveUp
  /\ UNCHANGED <<legacyLastSeq, log, next, marker, attempt, forceNew, overflowUpTo, history, written>>

(* putUInt sets the value and commits it: when it reports a failure, either  *)
(* value may be the stored one.                                              *)
ReserveFails ==
  /\ pc = "reserve" /\ NeedsReserve(next)
  /\ seqRsv' \in {seqRsv, next + Step}
  /\ GiveUp
  /\ UNCHANGED <<legacyLastSeq, log, counter, marker, attempt, forceNew, overflowUpTo, history, written>>

NewRecord ==
  [kind |-> IF bootPending THEN "BOOT" ELSE "DATA", boot |-> boots,
   from |-> IF bootPending THEN bootFrom ELSE 0, to |-> IF bootPending THEN bootTo ELSE 0,
   good |-> TRUE]

(* The second attempt asks for a new segment first.                          *)
MustOpen == NeedsNewSegment(log, forceNew \/ attempt = 2, next)

(* The append that puts the record on the flash, after discarding down to    *)
(* `kept`.                                                                   *)
Store(kept) ==
  /\ log' = AppendOk(kept, MustOpen, next, NewRecord)
  /\ written' = written \cup {<<next, boots, NewRecord.kind>>}

(* append succeeded: the seq is consumed, and a data block that waited for   *)
(* the BOOT is committed next.                                               *)
AppendSucceeds ==
  /\ pc = "append"
  /\ \E kept \in EnsureSpace(log) : Store(kept)
  /\ overflowUpTo' = OverflowAfter(overflowUpTo, log, log')
  /\ next' = next + 1 /\ forceNew' = FALSE /\ attempt' = 1
  /\ bootPending' = FALSE
  /\ dataWaiting' = (bootPending /\ dataWaiting)
  /\ pc' = IF bootPending /\ dataWaiting THEN "reserve"
           ELSE IF bootPending /\ migrated THEN "migrate"
           ELSE "idle"
  /\ UNCHANGED <<nvs, reserve, bootFrom, bootTo, migrated, history>>

(* append failed: retried once, in a new segment.                            *)
AppendFails ==
  /\ pc = "append"
  /\ \E kept \in EnsureSpace(log), torn \in BOOLEAN :
       /\ log' = AppendFailed(kept, MustOpen, torn)
       /\ overflowUpTo' = OverflowAfter(overflowUpTo, log, kept)
  /\ forceNew' = TRUE
  /\ \/ attempt = 1 /\ attempt' = 2 /\ UNCHANGED <<pc, dataWaiting>>
     \/ attempt = 2 /\ attempt' = 1 /\ GiveUp
  /\ UNCHANGED <<nvs, counter, marker, history, written>>

(* startCollector, step 6: last_seq is read no more.                         *)
RemoveLegacyLastSeq ==
  /\ pc = "migrate"
  /\ legacyLastSeq' = 0 /\ pc' = "idle"
  /\ UNCHANGED <<seqRsv, log, counter, marker, dataWaiting, attempt, forceNew, overflowUpTo,
                 history, written>>

-------------------------------------------------------------------------------
(* The Sync task, the power and the medium                                   *)

(* The tasks start once startCollector is past the BOOT.                     *)
TasksRunning == pc = "idle" \/ (pc \in {"reserve", "append"} /\ dataWaiting)

(* deleteUpTo(ack): SyncEngine never passes an ack above the newest seq.     *)
Free ==
  /\ TasksRunning
  /\ \E upTo \in 0..NewestSeq(log) :
       log' = DeleteUpTo(log, upTo) /\ freed' = Max({freed, upTo})
  /\ UNCHANGED <<nvs, pc, counter, marker, dataWaiting, attempt, forceNew, overflowUpTo,
                 boots, damage, written>>

(* RAM is lost; next, reserve and the flags keep their values in the model   *)
(* only until PowerOn sets them.                                             *)
PowerLost ==
  /\ pc # "off" /\ boots < MaxBoots
  /\ pc' = "off"
  /\ UNCHANGED <<nvs, counter, marker, dataWaiting, attempt, forceNew, overflowUpTo, history>>

Crash == PowerLost /\ UNCHANGED <<log, written>>

(* The power fails inside append: after the discards, behind a torn record,  *)
(* or with the record already on the flash.                                  *)
CrashInAppend ==
  /\ pc = "append"
  /\ PowerLost
  /\ \E kept \in EnsureSpace(log) :
       \/ \E torn \in BOOLEAN : log' = AppendFailed(kept, MustOpen, torn) /\ UNCHANGED written
       \/ Store(kept)

(* One stored record goes bad.                                               *)
Rot ==
  /\ MayDamage /\ damage' = damage + 1
  /\ \E s \in log : \E e \in Rotted(s) : log' = (log \ {s}) \cup {e}
  /\ UNCHANGED <<nvs, pc, counter, marker, dataWaiting, attempt, forceNew, overflowUpTo, boots,
                 written, freed>>

Next ==
  \/ PowerOn \/ PowerOnFormatted
  \/ Write \/ Reserve \/ ReserveFails \/ AppendSucceeds \/ AppendFails \/ RemoveLegacyLastSeq
  \/ Free \/ Crash \/ CrashInAppend \/ Rot

Spec == Init /\ [][Next]_vars

-------------------------------------------------------------------------------
(* Properties                                                                *)

(* R1, SeqReserve.h:33: every seq ever put on the flash is below the         *)
(* persisted reserve, so a boot that starts at the reserve cannot reuse one. *)
SeqBelowReserve == \A q \in WrittenSeqs : q < seqRsv

(* R2: a seq names one record for ever, across power losses, failed          *)
(* appends, rotten segments and a formatted partition; and the order of the  *)
(* seqs is the order of the boots.  The seq an append is about to use is     *)
(* above all those in use.                                                   *)
NoSeqReused ==
  /\ \A v, w \in written : /\ v[1] = w[1] => v = w
                           /\ v[1] < w[1] => v[2] <= w[2]
  /\ pc = "append" => \A q \in WrittenSeqs \cup {LegacySeq} : q < next

Before(s) == {t \in log : t.first < s.first}

(* Where the seqs jump from one segment to the next, the later segment opens *)
(* with a BOOT that declares exactly the missing seqs; every BOOT on the     *)
(* flash declares exactly what separates it from the segment before.         *)
JumpsAreDeclared ==
  \A s \in log : Before(s) # {} =>
    LET p == NewestSeg(Before(s))
        r == s.recs[1]
    IN /\ LastSeq(p) + 1 < s.first => r.kind = "BOOT"
       /\ r.kind = "BOOT" => r.from = LastSeq(p) + 1 /\ r.to = s.first - 1

(* No BOOT declares as never written a seq that holds a record, at any time: *)
(* what the reader of the log takes for a gap has lost nothing.              *)
BootRangeIsUnused ==
  \A s \in log : \A k \in 1..Len(s.recs) :
    s.recs[k].kind = "BOOT" => s.recs[k].from..s.recs[k].to \cap WrittenSeqs = {}

(* BlockWriter.h:24-26: no data takes a seq before the BOOT of its boot.     *)
BootBeforeData ==
  \A w \in written : w[3] = "DATA" =>
    \E b \in written : b[3] = "BOOT" /\ b[2] = w[2] /\ b[1] < w[1]

(* What the server takes for a gap of a boot is one: each boot's data comes  *)
(* after its BOOT, and on sound flash the BOOTs declare the jumps of the     *)
(* seqs, all of them and nothing that was written.  (A rotten newest segment *)
(* is cut at start-up and the next BOOT declares its seqs unwritten.)        *)
GapsDeclared ==
  /\ BootBeforeData
  /\ damage = 0 => JumpsAreDeclared /\ BootRangeIsUnused

(* HEAD, which the server checks for regressions: once the BOOT of this boot *)
(* is written, the newest seq of the log is the last one used.               *)
HeadIsLastUsed ==
  TasksRunning /\ ~bootPending => NewestSeq(log) = next - 1 /\ WrittenSeqs \subseteq 1..next - 1

(* The segments hold disjoint ranges of seqs, and all of them were written:  *)
(* nothing the store answers for is a torn or an invented record.            *)
LogIsOrdered ==
  /\ \A s \in log : Len(s.recs) > 0 /\ s.first..LastSeq(s) \subseteq WrittenSeqs
  /\ \A s, t \in log : s # t => LastSeq(s) < t.first \/ LastSeq(t) < s.first

(* The store answers for no torn or invented record, and with sound flash    *)
(* for exactly what was written: whatever the power losses and failed writes *)
(* left behind, a seq from the oldest segment on is readable if and only if  *)
(* its append completed.                                                     *)
LogIsExact ==
  /\ LogIsOrdered
  /\ damage = 0 =>
       /\ log = {} <=> written = {}
       /\ \A q \in WrittenSeqs \cup OldestSeq(log)..NewestSeq(log) :
            q >= OldestSeq(log) => (q \in WrittenSeqs <=> ReadStatus(log, q) = "Ok")

(* A seq leaves sound flash only when the Sync task freed it or when         *)
(* overflowUpTo, which closes the session, covers it.                        *)
NothingVanishesUnreported ==
  [][pc' # "off" /\ damage' = 0 => \A s \in log : \A q \in s.first..LastSeq(s) :
       Holds(log', q) \/ q <= overflowUpTo' \/ q <= freed']_vars
===============================================================================
