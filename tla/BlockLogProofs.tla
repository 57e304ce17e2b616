---------------------------- MODULE BlockLogProofs ----------------------------
(***************************************************************************)
(* Proofs about BlockLog, for every value of its constants: the types, the *)
(* persisted reserve above every seq in use (R1), no seq used twice (R2);  *)
(* that the segments hold disjoint runs of seqs that were all written; and *)
(* that on sound flash the log holds exactly what was written and not yet  *)
(* freed, every jump of the seqs declared by a BOOT, every discard known.  *)
(***************************************************************************)
EXTENDS BlockLog, LogStoreProofs

-------------------------------------------------------------------------------
(* The inductive invariant                                                   *)

(* What the two numbers of the writer know.  next is above every seq in use  *)
(* from the moment a boot recovers it; the reserve held in RAM never exceeds *)
(* the one in NVS, and an append starts only below it.                       *)
CounterInv ==
  /\ pc # "off" => /\ LegacySeq < next
                   /\ \A q \in WrittenSeqs : q < next
                   /\ reserve <= seqRsv
  /\ pc = "append" => next < reserve

(* Until the first reserve is saved the legacy counter is still in NVS.      *)
LegacyInv ==
  /\ seqRsv = 0 => legacyLastSeq = LegacySeq
  /\ seqRsv > 0 => LegacySeq < seqRsv
  /\ pc = "migrate" => seqRsv > 0

(* Seqs and boots are handed out in the same order.                          *)
OrderInv ==
  /\ \A w \in written : w[2] <= boots
  /\ \A v, w \in written : /\ v[1] = w[1] => v = w
                           /\ v[1] < w[1] => v[2] <= w[2]

IInv ==
  /\ TypeOK
  /\ GoodLog(log)
  /\ SeqBelowReserve
  /\ CounterInv
  /\ LegacyInv
  /\ OrderInv

LEMMA RecoveredSeqBounds ==
  ASSUME NEW rsv \in Nat, NEW legacy \in Nat, NEW newest \in Nat
  PROVE  /\ RecoveredSeq(rsv, legacy, newest) \in Nat \ {0}
         /\ rsv > 0 => RecoveredSeq(rsv, legacy, newest) >= rsv
         /\ rsv = 0 => RecoveredSeq(rsv, legacy, newest) > legacy
<1> DEFINE r == IF rsv > 0 THEN rsv ELSE Max({legacy, newest}) + 1
<1>1. r \in Nat \ {0} /\ (rsv > 0 => r = rsv) /\ (rsv = 0 => r > legacy)
  <2> DEFINE m == Max({legacy, newest})
  <2>1. m \in Nat /\ m >= legacy
    BY MaxOfTwo
  <2> HIDE DEF m
  <2>2. r = IF rsv > 0 THEN rsv ELSE m + 1
    BY DEF m
  <2> QED BY <2>1, <2>2
<1>2. RecoveredSeq(rsv, legacy, newest) = Max({r, newest + 1})
  BY DEF RecoveredSeq
<1> HIDE DEF r
<1>3. Max({r, newest + 1}) >= r /\ Max({r, newest + 1}) \in {r, newest + 1}
  BY <1>1, MaxOfTwo
<1> QED
  BY <1>1, <1>2, <1>3

LEMMA InitIInv == Init => IInv
<1> SUFFICES ASSUME Init PROVE IInv
  OBVIOUS
<1> USE WriterAssumption
<1>1. TypeOK
  <2>1. log \in SUBSET Segment /\ written \in SUBSET (Nat \X Nat \X {"DATA", "BOOT"})
    BY DEF Init
  <2>2. migrated \in BOOLEAN /\ bootPending \in BOOLEAN /\ dataWaiting \in BOOLEAN
        /\ forceNew \in BOOLEAN
    BY Zenon DEF Init
  <2>3. /\ seqRsv = 0 /\ legacyLastSeq \in Nat /\ pc = "off" /\ next = 0 /\ reserve = 0
        /\ bootFrom = 0 /\ bootTo = 0 /\ attempt = 1 /\ overflowUpTo = 0
        /\ boots = 0 /\ damage = 0 /\ freed = 0
    BY DEF Init
  <2> QED BY <2>1, <2>2, <2>3 DEF TypeOK
<1>2. GoodLog(log)
  BY FS_EmptySet DEF Init, GoodLog
<1>3. SeqBelowReserve /\ CounterInv
  BY DEF Init, SeqBelowReserve, CounterInv, WrittenSeqs
<1>4. LegacyInv /\ OrderInv
  BY DEF Init, LegacyInv, OrderInv
<1> QED
  BY <1>1, <1>2, <1>3, <1>4 DEF IInv

(* A boot, whatever log it finds.                                            *)
LEMMA StartIInv ==
  ASSUME IInv, NEW found, GoodLog(found), Start(found), damage' \in Nat
  PROVE  IInv'
<1> USE WriterAssumption
<1> DEFINE mounted == Mount(found)
           newest  == NewestSeq(mounted)
           r       == RecoveredSeq(seqRsv, legacyLastSeq, newest)
<1>1. GoodLog(mounted) /\ newest \in Nat
  BY GoodMount, NewestSeqType
<1>2. seqRsv \in Nat /\ legacyLastSeq \in Nat /\ boots \in Nat /\ freed \in Nat
      /\ written \in SUBSET (Nat \X Nat \X {"DATA", "BOOT"})
  BY DEF IInv, TypeOK
<1>3. /\ r \in Nat \ {0}
      /\ seqRsv > 0 => r >= seqRsv
      /\ seqRsv = 0 => r > legacyLastSeq
  BY <1>1, <1>2, RecoveredSeqBounds
<1>4. OverflowAfter(0, Valid(found), mounted) \in Nat
  BY GoodValid, OverflowType
<1> HIDE DEF mounted, newest, r
<1>5. /\ log' = mounted /\ pc' = "reserve" /\ next' = r /\ reserve' = 0
      /\ overflowUpTo' = OverflowAfter(0, Valid(found), mounted)
      /\ migrated' = (seqRsv = 0) /\ bootPending' = TRUE /\ forceNew' = TRUE
      /\ bootFrom' = GapStart(r, newest) /\ bootTo' = r - 1
      /\ dataWaiting' = FALSE /\ attempt' = 1 /\ boots' = boots + 1
      /\ UNCHANGED <<seqRsv, legacyLastSeq, written, freed>>
  BY DEF Start, mounted, newest, r, nvs
<1>6. GapStart(r, newest) \in Nat
  BY <1>1, <1>3 DEF GapStart
<1>7. TypeOK'
  <2>1. seqRsv' \in Nat /\ legacyLastSeq' \in Nat /\ log' \in SUBSET Segment
        /\ next' \in Nat /\ reserve' \in Nat /\ bootFrom' \in Nat /\ bootTo' \in Int
        /\ overflowUpTo' \in Nat /\ boots' \in Nat /\ freed' \in Nat
    BY <1>1, <1>2, <1>3, <1>4, <1>5, <1>6 DEF GoodLog
  <2>2. pc' = "reserve" /\ dataWaiting' \in BOOLEAN /\ attempt' \in {1, 2}
        /\ bootPending' \in BOOLEAN /\ forceNew' \in BOOLEAN
    BY <1>5
  <2>3. migrated' \in BOOLEAN
    BY <1>5
  <2>4. written' \in SUBSET (Nat \X Nat \X {"DATA", "BOOT"})
    BY <1>2, <1>5
  <2> QED BY <2>1, <2>2, <2>3, <2>4 DEF TypeOK
<1>8. GoodLog(log)'
  BY <1>1, <1>5 DEF GoodLog
<1>9. SeqBelowReserve'
  BY <1>5 DEF IInv, SeqBelowReserve, WrittenSeqs
<1>10. CounterInv'
  <2>1. LegacySeq < r
    BY <1>2, <1>3 DEF IInv, LegacyInv
  <2>2. ASSUME NEW q \in WrittenSeqs PROVE q < r
    <3>1. q \in Nat /\ q < seqRsv
      BY <1>2 DEF IInv, SeqBelowReserve, WrittenSeqs
    <3> QED BY <1>2, <1>3, <3>1
  <2> QED BY <1>2, <1>5, <2>1, <2>2 DEF CounterInv, WrittenSeqs
<1>11. LegacyInv' /\ OrderInv'
  BY <1>2, <1>5 DEF IInv, LegacyInv, OrderInv
<1> QED
  BY <1>7, <1>8, <1>9, <1>10, <1>11 DEF IInv

(* The append that stores a record, as AppendSucceeds and CrashInAppend make *)
(* it: the seq is fresh and below the reserve.                               *)
LEMMA StoreKeeps ==
  ASSUME IInv, pc = "append", NEW kept \in EnsureSpace(log), Store(kept), UNCHANGED <<boots, seqRsv>>
  PROVE  /\ GoodLog(log)'
         /\ written' \in SUBSET (Nat \X Nat \X {"DATA", "BOOT"})
         /\ SeqBelowReserve'
         /\ OrderInv'
         /\ WrittenSeqs' = WrittenSeqs \cup {next}
<1> USE WriterAssumption
<1>1. /\ next \in Nat \ {0} /\ next < seqRsv /\ seqRsv \in Nat /\ boots \in Nat
      /\ \A q \in WrittenSeqs : q < next
  BY DEF IInv, TypeOK, CounterInv
<1>2. MustOpen \in BOOLEAN /\ (MustOpen \/ log # {})
  BY DEF MustOpen, NeedsNewSegment
<1>3. NewRecord \in Record /\ NewRecord.kind \in {"DATA", "BOOT"}
  BY <1>1 DEF NewRecord, Record, IInv, TypeOK
<1>4. GoodLog(kept) /\ (MustOpen \/ kept # {})
  BY <1>2, GoodEnsureSpace DEF IInv
<1>5. GoodLog(log')
  BY <1>1, <1>2, <1>3, <1>4, GoodAppend DEF Store
<1>6. /\ written' = written \cup {<<next, boots, NewRecord.kind>>}
      /\ written \in SUBSET (Nat \X Nat \X {"DATA", "BOOT"})
  BY DEF Store, IInv, TypeOK
<1>7. WrittenSeqs' = WrittenSeqs \cup {next}
  <2> DEFINE new == <<next, boots, NewRecord.kind>>
  <2>1. new[1] = next
    OBVIOUS
  <2>2. WrittenSeqs' = {w[1] : w \in written \cup {new}}
    BY <1>6 DEF WrittenSeqs
  <2> HIDE DEF new
  <2>3. {w[1] : w \in written \cup {new}} = {w[1] : w \in written} \cup {new[1]}
    OBVIOUS
  <2> QED BY <2>1, <2>2, <2>3 DEF WrittenSeqs
<1>8. SeqBelowReserve'
  BY <1>1, <1>7 DEF IInv, SeqBelowReserve
<1>9. OrderInv'
  <2>1. \A w \in written : w[1] < next /\ w[1] \in Nat /\ w[2] <= boots
    BY <1>1, <1>6 DEF IInv, OrderInv, WrittenSeqs
  <2> QED BY <1>1, <1>6, <2>1 DEF IInv, OrderInv
<1> QED
  BY <1>1, <1>3, <1>5, <1>6, <1>7, <1>8, <1>9 DEF GoodLog

(* Steps that write neither the log nor the counters of R1.                  *)
LEMMA QuietStep ==
  ASSUME IInv, TypeOK', UNCHANGED <<log, written, seqRsv, legacyLastSeq, next, reserve, boots>>,
         pc = "off" => pc' = "off", pc' \notin {"append", "migrate"}
  PROVE  IInv'
<1>1. GoodLog(log)' /\ SeqBelowReserve' /\ OrderInv'
  BY DEF IInv, GoodLog, SeqBelowReserve, WrittenSeqs, OrderInv
<1>2. CounterInv' /\ LegacyInv'
  BY DEF IInv, CounterInv, LegacyInv, WrittenSeqs
<1> QED
  BY <1>1, <1>2 DEF IInv

(* Steps that only move the log to another good one.                         *)
LEMMA LogStep ==
  ASSUME IInv, TypeOK', GoodLog(log'),
         UNCHANGED <<written, seqRsv, legacyLastSeq, next, reserve, boots>>,
         pc = "off" => pc' = "off", pc' = "append" => pc = "append",
         pc' = "migrate" => pc = "migrate"
  PROVE  IInv'
<1>1. GoodLog(log)' /\ SeqBelowReserve' /\ OrderInv'
  BY DEF IInv, GoodLog, SeqBelowReserve, WrittenSeqs, OrderInv
<1>2. CounterInv' /\ LegacyInv'
  BY DEF IInv, CounterInv, LegacyInv, WrittenSeqs
<1> QED
  BY <1>1, <1>2 DEF IInv

LEMMA ReserveIInv == IInv /\ (Reserve \/ ReserveFails) => IInv'
<1> SUFFICES ASSUME IInv, Reserve \/ ReserveFails PROVE IInv'
  OBVIOUS
<1> USE WriterAssumption
<1>1. /\ seqRsv \in Nat /\ legacyLastSeq \in Nat /\ next \in Nat /\ reserve \in Nat
      /\ LegacySeq < next /\ \A q \in WrittenSeqs : q < next
      /\ reserve <= seqRsv /\ pc = "reserve"
      /\ written \in SUBSET (Nat \X Nat \X {"DATA", "BOOT"})
  BY DEF IInv, TypeOK, CounterInv, Reserve, ReserveFails
<1>2. \/ seqRsv' = next + Step /\ reserve' = next + Step
      \/ seqRsv' = seqRsv /\ reserve' = reserve /\ next < reserve
      \/ seqRsv' \in {seqRsv, next + Step} /\ reserve' = reserve /\ reserve <= next /\ pc' = "idle"
  BY <1>1 DEF Reserve, ReserveFails, NeedsReserve, GiveUp, counter
<1>3. /\ pc' \in {"append", "idle"}
      /\ UNCHANGED <<legacyLastSeq, log, next, marker, attempt, forceNew, overflowUpTo, history, written>>
  BY DEF Reserve, ReserveFails, GiveUp, counter
<1>4. TypeOK'
  <2>1. seqRsv' \in Nat /\ reserve' \in Nat
    BY <1>1, <1>2
  <2>2. dataWaiting' = dataWaiting \/ dataWaiting' = FALSE
    BY DEF Reserve, ReserveFails, GiveUp
  <2>3. dataWaiting' \in BOOLEAN
    BY <2>2, Zenon DEF IInv, TypeOK
  <2> QED BY <1>3, <2>1, <2>3 DEF IInv, TypeOK, marker, history
<1>5. SeqBelowReserve' /\ OrderInv' /\ GoodLog(log)'
  <2>1. \A q \in WrittenSeqs : q \in Nat
    BY <1>1 DEF WrittenSeqs
  <2>2. WrittenSeqs' = WrittenSeqs
    BY <1>3 DEF WrittenSeqs
  <2>3. seqRsv' \in {seqRsv, next + Step}
    BY <1>2
  <2>4. SeqBelowReserve'
    BY <1>1, <2>1, <2>2, <2>3 DEF IInv, SeqBelowReserve
  <2>5. OrderInv' /\ GoodLog(log)'
    BY <1>3 DEF IInv, OrderInv, GoodLog, history
  <2> QED BY <2>4, <2>5
<1>6. CounterInv' /\ LegacyInv'
  BY <1>1, <1>2, <1>3 DEF IInv, CounterInv, LegacyInv, WrittenSeqs
<1> QED
  BY <1>4, <1>5, <1>6 DEF IInv

LEMMA AppendSucceedsIInv == IInv /\ AppendSucceeds => IInv'
<1> SUFFICES ASSUME IInv, AppendSucceeds PROVE IInv'
  OBVIOUS
<1> USE WriterAssumption
<1>1. PICK kept \in EnsureSpace(log) : Store(kept)
  BY DEF AppendSucceeds
<1>2. /\ pc = "append" /\ next' = next + 1
      /\ UNCHANGED <<nvs, reserve, bootFrom, bootTo, migrated, history>>
      /\ overflowUpTo' = OverflowAfter(overflowUpTo, log, log')
      /\ forceNew' = FALSE /\ attempt' = 1 /\ bootPending' = FALSE
      /\ dataWaiting' = (bootPending /\ dataWaiting)
      /\ pc' \in {"reserve", "migrate", "idle"}
  BY DEF AppendSucceeds
<1>3. /\ GoodLog(log)' /\ SeqBelowReserve' /\ OrderInv'
      /\ written' \in SUBSET (Nat \X Nat \X {"DATA", "BOOT"})
      /\ WrittenSeqs' = WrittenSeqs \cup {next}
  BY <1>1, <1>2, StoreKeeps DEF history, nvs
<1>4. TypeOK'
  <2>1. overflowUpTo' \in Nat
    BY <1>2, OverflowType DEF IInv, TypeOK
  <2>2. /\ dataWaiting' \in BOOLEAN /\ bootPending' \in BOOLEAN
        /\ forceNew' \in BOOLEAN /\ migrated' \in BOOLEAN
    BY <1>2, Zenon DEF IInv, TypeOK
  <2>3. /\ next' \in Nat /\ attempt' \in {1, 2} /\ log' \in SUBSET Segment
        /\ pc' \in {"off", "idle", "reserve", "append", "migrate"}
    BY <1>2, <1>3 DEF IInv, TypeOK, GoodLog
  <2>4. /\ seqRsv' \in Nat /\ legacyLastSeq' \in Nat /\ reserve' \in Nat
        /\ bootFrom' \in Nat /\ bootTo' \in Int
        /\ boots' \in Nat /\ damage' \in Nat /\ freed' \in Nat
    BY <1>2 DEF IInv, TypeOK, nvs, history
  <2> QED BY <1>3, <2>1, <2>2, <2>3, <2>4 DEF TypeOK
<1>5. /\ next \in Nat /\ LegacySeq < next /\ reserve <= seqRsv /\ next < reserve
      /\ \A q \in WrittenSeqs : q < next /\ q \in Nat
      /\ seqRsv \in Nat /\ reserve \in Nat
  BY <1>2 DEF IInv, TypeOK, CounterInv, WrittenSeqs
<1>6. CounterInv'
  BY <1>2, <1>3, <1>5 DEF CounterInv, nvs
<1>7. LegacyInv'
  BY <1>2, <1>5 DEF IInv, LegacyInv, nvs
<1> QED
  BY <1>3, <1>4, <1>6, <1>7 DEF IInv

LEMMA AppendFailsIInv == IInv /\ AppendFails => IInv'
<1> SUFFICES ASSUME IInv, AppendFails PROVE IInv'
  OBVIOUS
<1>1. PICK kept \in EnsureSpace(log), torn \in BOOLEAN :
        /\ log' = AppendFailed(kept, MustOpen, torn)
        /\ overflowUpTo' = OverflowAfter(overflowUpTo, log, kept)
  BY DEF AppendFails
<1>2. MustOpen \in BOOLEAN /\ (MustOpen \/ log # {})
  BY DEF MustOpen, NeedsNewSegment
<1>3. GoodLog(kept) /\ (MustOpen \/ kept # {})
  BY <1>2, GoodEnsureSpace DEF IInv
<1>4. GoodLog(log')
  BY <1>1, <1>2, <1>3, GoodAppendFailed
<1>5. overflowUpTo' \in Nat
  BY <1>1, OverflowType DEF IInv, TypeOK
<1>6. /\ UNCHANGED <<nvs, counter, marker, history, written>>
      /\ forceNew' = TRUE /\ pc = "append" /\ pc' \in {"append", "idle"}
      /\ attempt' \in {1, 2} /\ dataWaiting' \in {dataWaiting, FALSE}
  BY DEF AppendFails, GiveUp
<1>7. TypeOK'
  BY <1>4, <1>5, <1>6 DEF IInv, TypeOK, GoodLog, nvs, counter, marker, history
<1> QED
  BY <1>4, <1>6, <1>7, LogStep DEF nvs, counter, history

LEMMA FreeIInv == IInv /\ Free => IInv'
<1> SUFFICES ASSUME IInv, Free PROVE IInv'
  OBVIOUS
<1>1. PICK upTo \in 0..NewestSeq(log) :
        log' = DeleteUpTo(log, upTo) /\ freed' = Max({freed, upTo})
  BY DEF Free
<1>2. GoodLog(log')
  BY <1>1, GoodSubset DEF DeleteUpTo, IInv
<1>3. freed' \in Nat
  <2>1. freed \in Nat /\ NewestSeq(log) \in Nat
    BY NewestSeqType DEF IInv, TypeOK
  <2>2. upTo \in Nat /\ upTo \in Int /\ freed \in Int
    BY <2>1
  <2>3. Max({freed, upTo}) \in {freed, upTo}
    BY <2>2, MaxOfTwo, Zenon
  <2> QED BY <1>1, <2>1, <2>2, <2>3
<1>4. /\ UNCHANGED <<nvs, pc, counter, marker, dataWaiting, attempt, forceNew, overflowUpTo,
                     boots, damage, written>>
  BY DEF Free
<1>5. TypeOK'
  BY <1>2, <1>3, <1>4 DEF IInv, TypeOK, GoodLog, nvs, counter, marker
<1> QED
  BY <1>2, <1>4, <1>5, LogStep DEF nvs, counter

LEMMA CrashInAppendIInv == IInv /\ CrashInAppend => IInv'
<1> SUFFICES ASSUME IInv, CrashInAppend PROVE IInv'
  OBVIOUS
<1>1. /\ pc = "append" /\ pc' = "off"
      /\ UNCHANGED <<nvs, counter, marker, dataWaiting, attempt, forceNew, overflowUpTo, history>>
  BY DEF CrashInAppend, PowerLost
<1>2. ASSUME GoodLog(log'), written' \in SUBSET (Nat \X Nat \X {"DATA", "BOOT"})
      PROVE  TypeOK'
  BY <1>1, <1>2 DEF IInv, TypeOK, GoodLog, nvs, counter, marker, history
<1>3. PICK kept \in EnsureSpace(log) :
        \/ \E torn \in BOOLEAN : log' = AppendFailed(kept, MustOpen, torn) /\ UNCHANGED written
        \/ Store(kept)
  BY DEF CrashInAppend
<1>4. CASE Store(kept)
  <2>1. /\ GoodLog(log)' /\ SeqBelowReserve' /\ OrderInv'
        /\ written' \in SUBSET (Nat \X Nat \X {"DATA", "BOOT"})
    BY <1>1, <1>3, <1>4, StoreKeeps DEF nvs, history
  <2>2. TypeOK'
    BY <1>2, <2>1 DEF GoodLog
  <2>3. CounterInv' /\ LegacyInv'
    BY <1>1 DEF IInv, CounterInv, LegacyInv, nvs
  <2> QED BY <2>1, <2>2, <2>3 DEF IInv
<1>5. CASE \E torn \in BOOLEAN : log' = AppendFailed(kept, MustOpen, torn) /\ UNCHANGED written
  <2>1. MustOpen \in BOOLEAN /\ (MustOpen \/ log # {})
    BY DEF MustOpen, NeedsNewSegment
  <2>2. GoodLog(kept) /\ (MustOpen \/ kept # {})
    BY <2>1, GoodEnsureSpace DEF IInv
  <2>3. GoodLog(log')
    BY <1>5, <2>1, <2>2, GoodAppendFailed
  <2>4. TypeOK'
    BY <1>2, <1>5, <2>3 DEF IInv, TypeOK
  <2> QED BY <1>1, <1>5, <2>3, <2>4, LogStep DEF nvs, counter, history
<1> QED
  BY <1>3, <1>4, <1>5

LEMMA RotIInv == IInv /\ Rot => IInv'
<1> SUFFICES ASSUME IInv, Rot PROVE IInv'
  OBVIOUS
<1>1. PICK s \in log : \E e \in Rotted(s) : log' = (log \ {s}) \cup {e}
  BY DEF Rot
<1>2. PICK e \in Rotted(s) : log' = (log \ {s}) \cup {e}
  BY <1>1
<1>3. GoodLog(log) /\ s \in Segment /\ s.reach <= Len(s.recs)
  BY DEF IInv, GoodLog
<1>4. e \in Segment /\ e.reach <= Len(e.recs)
  BY <1>3, RottedSegment
<1>5. GoodLog(Swapped(log, s, e))
  BY <1>3, <1>4, GoodSwapped
<1>6. GoodLog(log')
  BY <1>2, <1>5 DEF Swapped
<1>7. /\ UNCHANGED <<nvs, pc, counter, marker, dataWaiting, attempt, forceNew, overflowUpTo, boots,
                     written, freed>>
      /\ damage' = damage + 1
  BY DEF Rot
<1>8. TypeOK'
  BY <1>6, <1>7 DEF IInv, TypeOK, GoodLog, nvs, counter, marker
<1> QED
  BY <1>6, <1>7, <1>8, LogStep DEF nvs, counter

LEMMA NextIInv == IInv /\ [Next]_vars => IInv'
<1> SUFFICES ASSUME IInv, [Next]_vars PROVE IInv'
  OBVIOUS
<1>1. CASE PowerOn
  <2>1. GoodLog(log) /\ Start(log) /\ damage' \in Nat
    BY <1>1 DEF PowerOn, IInv, TypeOK
  <2> QED BY <2>1, StartIInv
<1>2. CASE PowerOnFormatted
  <2>1. Start({}) /\ damage' \in Nat
    BY <1>2 DEF PowerOnFormatted, IInv, TypeOK
  <2>2. GoodLog({})
    BY FS_EmptySet DEF GoodLog
  <2> QED BY <2>1, <2>2, StartIInv
<1>3. CASE Write
  <2>1. /\ pc' = "reserve" /\ dataWaiting' = TRUE /\ attempt' = 1
        /\ forceNew' = (forceNew \/ bootPending) /\ pc = "idle"
        /\ UNCHANGED <<nvs, log, counter, marker, overflowUpTo, history, written>>
    BY <1>3 DEF Write
  <2>2. forceNew' \in BOOLEAN
    BY <2>1
  <2>3. TypeOK'
    BY <2>1, <2>2 DEF IInv, TypeOK, nvs, counter, marker, history
  <2> QED BY <2>1, <2>3, QuietStep DEF nvs, counter, history
<1>4. CASE Reserve \/ ReserveFails
  BY <1>4, ReserveIInv
<1>5. CASE AppendSucceeds
  BY <1>5, AppendSucceedsIInv
<1>6. CASE AppendFails
  BY <1>6, AppendFailsIInv
<1>7. CASE RemoveLegacyLastSeq
  <2>1. /\ legacyLastSeq' = 0 /\ pc' = "idle" /\ pc = "migrate"
        /\ UNCHANGED <<seqRsv, log, counter, marker, dataWaiting, attempt, forceNew, overflowUpTo,
                       history, written>>
    BY <1>7 DEF RemoveLegacyLastSeq
  <2>2. TypeOK'
    BY <2>1 DEF IInv, TypeOK, counter, marker, history
  <2>3. GoodLog(log)' /\ SeqBelowReserve' /\ OrderInv'
    BY <2>1 DEF IInv, GoodLog, SeqBelowReserve, WrittenSeqs, OrderInv, history
  <2>4. CounterInv' /\ LegacyInv'
    BY <2>1 DEF IInv, TypeOK, CounterInv, LegacyInv, WrittenSeqs, counter
  <2> QED BY <2>2, <2>3, <2>4 DEF IInv
<1>8. CASE Free
  BY <1>8, FreeIInv
<1>9. CASE Crash
  <2>1. /\ pc' = "off"
        /\ UNCHANGED <<nvs, counter, marker, dataWaiting, attempt, forceNew, overflowUpTo, history,
                       log, written>>
    BY <1>9 DEF Crash, PowerLost
  <2>2. TypeOK'
    BY <2>1 DEF IInv, TypeOK, nvs, counter, marker, history
  <2> QED BY <2>1, <2>2, QuietStep DEF nvs, counter, history
<1>10. CASE CrashInAppend
  BY <1>10, CrashInAppendIInv
<1>11. CASE Rot
  BY <1>11, RotIInv
<1>12. CASE UNCHANGED vars
  <2>1. TypeOK'
    BY <1>12 DEF IInv, TypeOK, vars
  <2>2. GoodLog(log)' /\ SeqBelowReserve' /\ OrderInv'
    BY <1>12 DEF IInv, GoodLog, SeqBelowReserve, WrittenSeqs, OrderInv, vars
  <2>3. CounterInv' /\ LegacyInv'
    BY <1>12 DEF IInv, CounterInv, LegacyInv, WrittenSeqs, vars
  <2> QED BY <2>1, <2>2, <2>3 DEF IInv
<1> QED
  BY <1>1, <1>2, <1>3, <1>4, <1>5, <1>6, <1>7, <1>8, <1>9, <1>10, <1>11, <1>12 DEF Next

-------------------------------------------------------------------------------
(* The theorems                                                              *)

(* The inductive invariant holds throughout: startCollector, BlockWriter,    *)
(* SeqReserve and the store keep it at every step, with the power failing    *)
(* between any two and the medium rotting or being formatted any number of   *)
(* times.                                                                    *)
THEOREM Invariance == Spec => []IInv
<1>1. Init => IInv
  BY InitIInv
<1>2. IInv /\ [Next]_vars => IInv'
  BY NextIInv
<1> QED
  BY <1>1, <1>2, PTL DEF Spec

(* Every variable of the writer, the store and the NVS keeps its type.       *)
THEOREM TypeCorrect == Spec => []TypeOK
<1>1. IInv => TypeOK
  BY DEF IInv
<1> QED
  BY <1>1, Invariance, PTL

(* R1 (SeqReserve.h:33): every seq that BlockWriter::commit put on the flash *)
(* is below the reserve in NVS, for every step, limit and number of crashes. *)
THEOREM ReserveAboveAll == Spec => []SeqBelowReserve
<1>1. IInv => SeqBelowReserve
  BY DEF IInv
<1> QED
  BY <1>1, Invariance, PTL

(* R2: SeqReserve::recover and the order of BlockWriter::commit never let    *)
(* two records have the same seq, whatever the flash still holds.            *)
THEOREM SeqsAreUnique == Spec => []NoSeqReused
<1>1. IInv => NoSeqReused
  BY WriterAssumption DEF IInv, OrderInv, CounterInv, NoSeqReused
<1> QED
  BY <1>1, Invariance, PTL

-------------------------------------------------------------------------------
(* The order of the log                                                      *)

(* After the BOOT of this boot, the newest record is the last seq used.      *)
HeadInv == pc # "off" /\ ~bootPending => log # {} /\ NewestSeq(log) = next - 1

OInv ==
  /\ IInv
  /\ WrittenSeqs \subseteq Nat \ {0}
  /\ Ordered(log)
  /\ Backed(log, WrittenSeqs)
  /\ HeadInv

LEMMA InitOInv == Init => OInv
<1> SUFFICES ASSUME Init PROVE OInv
  OBVIOUS
<1>1. IInv
  BY InitIInv
<1> QED
  BY <1>1 DEF Init, OInv, WrittenSeqs, Ordered, Backed, HeadInv

(* Steps that keep the newest seq and store nothing.                         *)
LEMMA KeepingStep ==
  ASSUME OInv, IInv', Ordered(log'), Backed(log, WrittenSeqs) => Backed(log', WrittenSeqs),
         log # {} => log' # {} /\ NewestSeq(log') = NewestSeq(log),
         UNCHANGED <<written, next, bootPending>>, pc = "off" => pc' = "off"
  PROVE  OInv'
<1>1. WrittenSeqs' = WrittenSeqs
  BY DEF WrittenSeqs
<1>2. HeadInv'
  BY DEF OInv, HeadInv
<1>3. Ordered(log)' /\ Backed(log, WrittenSeqs)'
  BY <1>1 DEF OInv, Ordered, Backed, LastSeq
<1> QED
  BY <1>1, <1>2, <1>3 DEF OInv

LEMMA StartOInv ==
  ASSUME OInv, IInv', NEW found, GoodLog(found), Ordered(found), Backed(found, WrittenSeqs), Start(found)
  PROVE  OInv'
<1>1. log' = Mount(found) /\ bootPending' = TRUE /\ written' = written
  BY DEF Start
<1>2. WrittenSeqs' = WrittenSeqs
  BY <1>1 DEF WrittenSeqs
<1>3. Ordered(Mount(found)) /\ Backed(Mount(found), WrittenSeqs)
  BY MountOrdered
<1>4. Ordered(log)' /\ Backed(log, WrittenSeqs)'
  BY <1>1, <1>2, <1>3 DEF Ordered, Backed, LastSeq
<1>5. HeadInv'
  BY <1>1 DEF HeadInv
<1> QED
  BY <1>2, <1>4, <1>5 DEF OInv

(* The append that stores a record.                                          *)
LEMMA StoreOrdered ==
  ASSUME OInv, pc = "append", NEW kept \in EnsureSpace(log), Store(kept), UNCHANGED <<boots, seqRsv>>
  PROVE  /\ WrittenSeqs' \subseteq Nat \ {0}
         /\ Ordered(log)' /\ Backed(log, WrittenSeqs)'
         /\ log' # {} /\ NewestSeq(log') = next
<1> USE WriterAssumption
<1>1. /\ next \in Nat \ {0} /\ boots \in Nat /\ \A q \in WrittenSeqs : q < next
      /\ GoodLog(log) /\ Ordered(log) /\ Backed(log, WrittenSeqs)
  BY DEF OInv, IInv, TypeOK, CounterInv
<1>2. MustOpen \in BOOLEAN /\ (~MustOpen => log # {} /\ LastSeq(NewestSeg(log)) + 1 = next)
  BY DEF MustOpen, NeedsNewSegment
<1>3. NewRecord \in Record
  BY <1>1 DEF NewRecord, Record, OInv, IInv, TypeOK
<1>4. kept \subseteq log /\ GoodLog(kept)
  BY <1>1, GoodEnsureSpace DEF EnsureSpace, Remainders, From
<1>5. Ordered(kept) /\ Backed(kept, WrittenSeqs)
  BY <1>1, <1>4, OrderedSubset
<1>6. ~MustOpen => kept # {} /\ LastSeq(NewestSeg(kept)) + 1 = next
  BY <1>1, <1>2, SpaceKeepsNewest
<1>7. WrittenSeqs' = WrittenSeqs \cup {next}
  BY StoreKeeps DEF OInv
<1>8. Follows(next, WrittenSeqs) /\ (MustOpen \/ Continues(kept, next))
  BY <1>1, <1>2, <1>6 DEF Follows, Continues
<1> DEFINE must == MustOpen
           rec  == NewRecord
           m    == AppendOk(kept, must, next, rec)
<1>9. must \in BOOLEAN /\ rec \in Record /\ (must \/ Continues(kept, next))
  BY <1>2, <1>3, <1>8
<1>10. log' = m
  BY DEF Store
<1> HIDE DEF must, rec
<1>11. Ordered(m) /\ m # {} /\ Backed(m, WrittenSeqs \cup {next}) /\ NewestSeq(m) = next
  <2>1. Ordered(kept) /\ GoodLog(kept) /\ Backed(kept, WrittenSeqs)
    BY <1>4, <1>5
  <2>2. next \in Nat \ {0} /\ Follows(next, WrittenSeqs)
    BY <1>1, <1>8
  <2> QED BY <1>9, <2>1, <2>2, AppendOrdered
<1> HIDE DEF m
<1>12. Ordered(log)' /\ Backed(log, WrittenSeqs)'
  BY <1>7, <1>10, <1>11 DEF Ordered, Backed, LastSeq
<1> QED
  BY <1>1, <1>7, <1>10, <1>12, <1>11 DEF OInv

LEMMA AppendSucceedsOInv == OInv /\ IInv' /\ AppendSucceeds => OInv'
<1> SUFFICES ASSUME OInv, IInv', AppendSucceeds PROVE OInv'
  OBVIOUS
<1>1. PICK kept \in EnsureSpace(log) : Store(kept)
  BY DEF AppendSucceeds
<1>2. pc = "append" /\ next' = next + 1 /\ UNCHANGED <<boots, seqRsv>> /\ next \in Nat
  BY DEF AppendSucceeds, history, nvs, OInv, IInv, TypeOK
<1>3. /\ WrittenSeqs' \subseteq Nat \ {0} /\ Ordered(log)' /\ Backed(log, WrittenSeqs)'
      /\ log' # {} /\ NewestSeq(log') = next
  BY <1>1, <1>2, StoreOrdered
<1>4. HeadInv'
  BY <1>2, <1>3 DEF HeadInv
<1> QED
  BY <1>3, <1>4 DEF OInv

(* What a failed append, also of a crash, leaves.                            *)
LEMMA FailedKeeps ==
  ASSUME OInv, NEW kept \in EnsureSpace(log), NEW torn \in BOOLEAN,
         log' = AppendFailed(kept, MustOpen, torn)
  PROVE  /\ Ordered(log') /\ Backed(log', WrittenSeqs)
         /\ log # {} => log' # {} /\ NewestSeq(log') = NewestSeq(log)
<1>1. GoodLog(log) /\ Ordered(log) /\ Backed(log, WrittenSeqs)
  BY DEF OInv, IInv
<1>2. MustOpen \in BOOLEAN /\ (MustOpen \/ log # {})
  BY DEF MustOpen, NeedsNewSegment
<1>3. kept \subseteq log /\ GoodLog(kept) /\ (log # {} => kept # {})
  BY <1>1, GoodEnsureSpace DEF EnsureSpace, Remainders, From
<1>4. Ordered(kept) /\ Backed(kept, WrittenSeqs)
  BY <1>1, <1>3, OrderedSubset
<1>5. log # {} => NewestSeq(kept) = NewestSeq(log)
  BY <1>1, SpaceKeepsNewest
<1> DEFINE must == MustOpen
<1> HIDE DEF must
<1>6. must \in BOOLEAN /\ (must \/ kept # {}) /\ log' = AppendFailed(kept, must, torn)
  BY <1>2, <1>3 DEF must
<1>7. /\ Ordered(log') /\ NewestSeq(log') = NewestSeq(kept) /\ (kept # {} => log' # {})
      /\ Backed(log', WrittenSeqs)
  BY <1>3, <1>4, <1>6, AppendFailedOrdered
<1> QED
  BY <1>3, <1>4, <1>5, <1>7

LEMMA AppendFailsOInv == OInv /\ IInv' /\ AppendFails => OInv'
<1> SUFFICES ASSUME OInv, IInv', AppendFails PROVE OInv'
  OBVIOUS
<1>1. PICK kept \in EnsureSpace(log), torn \in BOOLEAN : log' = AppendFailed(kept, MustOpen, torn)
  BY DEF AppendFails
<1>2. UNCHANGED <<written, next, bootPending>> /\ pc = "append"
  BY DEF AppendFails, counter, marker
<1> QED
  BY <1>1, <1>2, FailedKeeps, KeepingStep

LEMMA CrashInAppendOInv == OInv /\ IInv' /\ CrashInAppend => OInv'
<1> SUFFICES ASSUME OInv, IInv', CrashInAppend PROVE OInv'
  OBVIOUS
<1>1. pc = "append" /\ pc' = "off" /\ UNCHANGED <<next, bootPending, boots, seqRsv>>
  BY DEF CrashInAppend, PowerLost, nvs, counter, marker, history
<1>2. PICK kept \in EnsureSpace(log) :
        \/ \E torn \in BOOLEAN : log' = AppendFailed(kept, MustOpen, torn) /\ UNCHANGED written
        \/ Store(kept)
  BY DEF CrashInAppend
<1>3. CASE Store(kept)
  BY <1>1, <1>3, StoreOrdered DEF OInv, HeadInv
<1>4. CASE \E torn \in BOOLEAN : log' = AppendFailed(kept, MustOpen, torn) /\ UNCHANGED written
  BY <1>1, <1>4, FailedKeeps, KeepingStep
<1> QED
  BY <1>2, <1>3, <1>4

LEMMA FreeOInv == OInv /\ IInv' /\ Free => OInv'
<1> SUFFICES ASSUME OInv, IInv', Free PROVE OInv'
  OBVIOUS
<1>1. PICK upTo \in 0..NewestSeq(log) : log' = DeleteUpTo(log, upTo)
  BY DEF Free
<1>2. UNCHANGED <<written, next, bootPending, pc>>
  BY DEF Free, counter, marker
<1>3. GoodLog(log) /\ Ordered(log) /\ log' \subseteq log
  BY <1>1 DEF OInv, IInv, DeleteUpTo
<1>4. Ordered(log') /\ (Backed(log, WrittenSeqs) => Backed(log', WrittenSeqs))
  BY <1>3, OrderedSubset
<1>5. ASSUME log # {} PROVE log' # {} /\ NewestSeq(log') = NewestSeq(log)
  <2>1. NewestSeg(log) \in log /\ \A s \in log : s.first <= NewestSeg(log).first
    BY <1>3, <1>5, NewestExists DEF GoodLog
  <2>2. NewestSeg(log) \in log'
    BY <1>1, <2>1 DEF DeleteUpTo
  <2>3. GoodLog(log')
    BY <1>3, GoodSubset
  <2>4. NewestSeq(log') = LastSeq(NewestSeg(log))
    BY <1>3, <1>4, <2>1, <2>2, <2>3, NewestIs
  <2> QED BY <1>5, <2>2, <2>4 DEF NewestSeq
<1> QED
  BY <1>2, <1>4, <1>5, KeepingStep

LEMMA RotOInv == OInv /\ IInv' /\ Rot => OInv'
<1> SUFFICES ASSUME OInv, IInv', Rot PROVE OInv'
  OBVIOUS
<1>1. UNCHANGED <<written, next, bootPending, pc>>
  BY DEF Rot, counter, marker
<1>2. GoodLog(log) /\ Ordered(log) /\ Backed(log, WrittenSeqs)
  BY DEF OInv, IInv
<1>3. PICK s \in log : \E e \in Rotted(s) : log' = (log \ {s}) \cup {e}
  BY DEF Rot
<1>4. PICK e \in Rotted(s) : log' = (log \ {s}) \cup {e}
  BY <1>3
<1>5. s \in Segment /\ s.reach <= Len(s.recs)
  BY <1>2 DEF GoodLog
<1>6. e \in Segment /\ e.reach <= Len(e.recs) /\ SameExtent(s, e)
  BY <1>5, RottedSegment
<1>7. GoodLog(Swapped(log, s, e)) /\ log' = Swapped(log, s, e)
  BY <1>2, <1>4, <1>6, GoodSwapped DEF Swapped
<1>8. /\ Ordered(Swapped(log, s, e)) /\ Swapped(log, s, e) # {}
      /\ NewestSeq(Swapped(log, s, e)) = NewestSeq(log) /\ Backed(Swapped(log, s, e), WrittenSeqs)
  BY <1>2, <1>6, <1>7, ReplacedOrdered
<1> QED
  BY <1>1, <1>7, <1>8, KeepingStep

LEMMA NextOInv == OInv /\ [Next]_vars => OInv'
<1> SUFFICES ASSUME OInv, [Next]_vars PROVE OInv'
  OBVIOUS
<1>1. IInv'
  BY NextIInv DEF OInv
<1>2. ASSUME UNCHANGED <<log, written, next, bootPending>>, pc = "off" => pc' = "off"
      PROVE  OInv'
  <2>1. Ordered(log') /\ log' = log
    BY <1>2 DEF OInv
  <2> QED BY <1>1, <1>2, <2>1, KeepingStep
<1>3. CASE PowerOn
  <2>1. GoodLog(log) /\ Ordered(log) /\ Backed(log, WrittenSeqs) /\ Start(log)
    BY <1>3 DEF PowerOn, OInv, IInv
  <2> QED BY <1>1, <2>1, StartOInv
<1>4. CASE PowerOnFormatted
  <2>1. GoodLog({}) /\ Ordered({}) /\ Backed({}, WrittenSeqs) /\ Start({})
    BY <1>4, FS_EmptySet DEF PowerOnFormatted, GoodLog, Ordered, Backed
  <2> QED BY <1>1, <2>1, StartOInv
<1>5. CASE Write
  BY <1>2, <1>5 DEF Write, counter, marker
<1>6. CASE Reserve \/ ReserveFails
  BY <1>2, <1>6 DEF Reserve, ReserveFails, counter, marker
<1>7. CASE AppendSucceeds
  BY <1>1, <1>7, AppendSucceedsOInv
<1>8. CASE AppendFails
  BY <1>1, <1>8, AppendFailsOInv
<1>9. CASE RemoveLegacyLastSeq
  BY <1>2, <1>9 DEF RemoveLegacyLastSeq, counter, marker
<1>10. CASE Free
  BY <1>1, <1>10, FreeOInv
<1>11. CASE Crash
  BY <1>2, <1>11 DEF Crash, PowerLost, counter, marker
<1>12. CASE CrashInAppend
  BY <1>1, <1>12, CrashInAppendOInv
<1>13. CASE Rot
  BY <1>1, <1>13, RotOInv
<1>14. CASE UNCHANGED vars
  BY <1>2, <1>14 DEF vars
<1> QED
  BY <1>3, <1>4, <1>5, <1>6, <1>7, <1>8, <1>9, <1>10, <1>11, <1>12, <1>13, <1>14 DEF Next

-------------------------------------------------------------------------------
(* The theorems about the order                                              *)

(* The invariant of the contents of the log holds throughout.                *)
THEOREM OrderInvariance == Spec => []OInv
<1>1. Init => OInv
  BY InitOInv
<1>2. OInv /\ [Next]_vars => OInv'
  BY NextOInv
<1> QED
  BY <1>1, <1>2, PTL DEF Spec

(* The index of LittleFsBlockStore never answers twice for a seq, nor for    *)
(* one that was not appended: mounts, retries in a new segment, discards and *)
(* rot keep the segments apart.                                              *)
THEOREM LogKeepsItsOrder == Spec => []LogIsOrdered
<1>1. OInv => LogIsOrdered
  BY DEF OInv, Ordered, Backed, LogIsOrdered
<1> QED
  BY <1>1, OrderInvariance, PTL

(* HEAD, which respondChallenge sends and the server holds against           *)
(* regressions, is the last seq used once the BOOT of this boot is written.  *)
THEOREM HeadIsTrue == Spec => []HeadIsLastUsed
<1>1. OInv => HeadIsLastUsed
  <2> SUFFICES ASSUME OInv, TasksRunning, ~bootPending
               PROVE  NewestSeq(log) = next - 1 /\ WrittenSeqs \subseteq 1..next - 1
    BY DEF HeadIsLastUsed
  <2>1. pc # "off"
    BY DEF TasksRunning
  <2>2. next \in Nat /\ \A q \in WrittenSeqs : q < next /\ q \in Nat \ {0}
    BY <2>1 DEF OInv, IInv, TypeOK, CounterInv
  <2> QED BY <2>1, <2>2 DEF OInv, HeadInv
<1> QED
  BY <1>1, OrderInvariance, PTL

-------------------------------------------------------------------------------
(* The contents of the log on a sound medium, and the BOOT of each boot      *)

(* Until the BOOT of this boot is on the flash it declares what lies between *)
(* the newest record and the next seq.                                       *)
GapInv ==
  pc # "off" /\ bootPending =>
    /\ bootTo = next - 1 /\ bootFrom \in Nat \ {0}
    /\ log # {} => bootFrom = NewestSeq(log) + 1

(* From then on the BOOT of this boot is below the next seq.                 *)
BootFirst ==
  pc # "off" /\ ~bootPending => \E b \in written : b[3] = "BOOT" /\ b[2] = boots /\ b[1] < next

ExactInv == damage = 0 => Exact(log, WrittenSeqs)

XInv == OInv /\ GapInv /\ BootFirst /\ BootBeforeData /\ ExactInv

LEMMA ExactOf ==
  ASSUME NEW l, NEW W, Exact(l, W), log' = l, WrittenSeqs' = W
  PROVE  Exact(log, WrittenSeqs)'
BY DEF Exact, Intact, SoundSegment, NoHoles, Holds, Covers, LastSeq, JumpsIn, Neighbours,
       JumpDeclared, BootsSound, BootAt, BootsUnused, NewestSeq, NewestSeg

LEMMA InitXInv == Init => XInv
<1> SUFFICES ASSUME Init PROVE XInv
  OBVIOUS
<1>1. OInv
  BY InitOInv
<1>2. log = {} /\ written = {} /\ pc = "off" /\ WrittenSeqs = {}
  BY DEF Init, WrittenSeqs
<1>3. Exact({}, {})
  BY DEF Exact, Intact, NoHoles, JumpsIn, BootsSound, BootsUnused
<1> QED
  BY <1>1, <1>2, <1>3 DEF XInv, GapInv, BootFirst, BootBeforeData, ExactInv

(* Steps that store nothing and keep the newest seq.                         *)
LEMMA KeepingXStep ==
  ASSUME XInv, OInv', log = {} <=> log' = {}, NewestSeq(log') = NewestSeq(log),
         damage' = 0 => damage = 0 /\ (Exact(log, WrittenSeqs) => Exact(log', WrittenSeqs)),
         UNCHANGED <<written, next, bootPending, bootFrom, bootTo, boots>>,
         pc = "off" => pc' = "off"
  PROVE  XInv'
<1>1. WrittenSeqs' = WrittenSeqs
  BY DEF WrittenSeqs
<1>2. GapInv'
  BY DEF XInv, GapInv
<1>3. BootFirst' /\ BootBeforeData'
  BY DEF XInv, BootFirst, BootBeforeData
<1>4. ExactInv'
  BY <1>1, ExactOf DEF XInv, ExactInv
<1> QED
  BY <1>2, <1>3, <1>4 DEF XInv

LEMMA StartXInv ==
  ASSUME XInv, OInv', NEW found, GoodLog(found), Ordered(found), Start(found),
         damage' = 0 => damage = 0 /\ found = log
  PROVE  XInv'
<1> DEFINE mounted == Mount(found)
           newest  == NewestSeq(mounted)
           r       == RecoveredSeq(seqRsv, legacyLastSeq, newest)
<1>1. /\ log' = mounted /\ next' = r /\ bootPending' = TRUE
      /\ bootFrom' = GapStart(r, newest) /\ bootTo' = r - 1 /\ written' = written
  BY DEF Start
<1>2. WrittenSeqs' = WrittenSeqs
  BY <1>1 DEF WrittenSeqs
<1>3. GoodLog(mounted) /\ Ordered(mounted)
  BY GoodMount, MountOrdered
<1>4. newest \in Nat /\ (mounted # {} => newest # 0)
  <2>1. newest \in Nat
    BY <1>3, NewestSeqType
  <2>2. ASSUME mounted # {} PROVE newest # 0
    <3> DEFINE n == NewestSeg(mounted)
    <3>1. n \in mounted /\ newest = LastSeq(n)
      BY <1>3, <2>2, NewestExists DEF GoodLog, NewestSeq
    <3> HIDE DEF n, mounted, newest
    <3> QED BY <1>3, <3>1, SegmentFields DEF GoodLog, Ordered
  <2> QED BY <2>1, <2>2
<1>5. r \in Nat \ {0}
  <2>1. seqRsv \in Nat /\ legacyLastSeq \in Nat
    BY DEF XInv, OInv, IInv, TypeOK
  <2> HIDE DEF newest
  <2> QED BY <1>4, <2>1, RecoveredSeqBounds
<1>6. ExactInv'
  <2> SUFFICES ASSUME damage' = 0 PROVE Exact(log, WrittenSeqs)'
    BY DEF ExactInv
  <2>1. Exact(found, WrittenSeqs) /\ WrittenSeqs \in SUBSET Nat
    BY DEF XInv, ExactInv, OInv
  <2>2. Exact(mounted, WrittenSeqs)
    BY <2>1, MountExact
  <2> HIDE DEF mounted
  <2> QED BY <1>1, <1>2, <2>2, ExactOf
<1> HIDE DEF mounted, newest, r
<1>7. GapInv'
  <2>1. /\ bootFrom' \in Nat \ {0} /\ bootTo' = next' - 1
        /\ mounted # {} => bootFrom' = newest + 1
    BY <1>1, <1>4, <1>5 DEF GapStart
  <2>2. NewestSeq(log)' = newest
    BY <1>1 DEF newest, NewestSeq, NewestSeg, LastSeq
  <2> QED BY <1>1, <2>1, <2>2 DEF GapInv
<1>8. BootFirst' /\ BootBeforeData'
  BY <1>1 DEF XInv, BootFirst, BootBeforeData
<1> QED
  BY <1>6, <1>7, <1>8 DEF XInv

(* The append that stores a record.                                          *)
LEMMA StoreExact ==
  ASSUME XInv, pc = "append", NEW kept \in EnsureSpace(log), Store(kept), UNCHANGED <<boots, seqRsv>>,
         Exact(log, WrittenSeqs)
  PROVE  Exact(log, WrittenSeqs)'
<1>1. /\ next \in Nat \ {0} /\ boots \in Nat /\ Follows(next, WrittenSeqs)
      /\ GoodLog(log) /\ Ordered(log) /\ Backed(log, WrittenSeqs) /\ WrittenSeqs \in SUBSET Nat
  BY WriterAssumption DEF XInv, OInv, IInv, TypeOK, CounterInv, Follows
<1> DEFINE rec == NewRecord
<1>2. /\ rec \in Record /\ rec.good /\ (rec.kind = "BOOT" <=> bootPending)
      /\ bootPending => rec.from = bootFrom /\ rec.to = bootTo
  BY <1>1 DEF NewRecord, Record, XInv, OInv, IInv, TypeOK
<1>3. BootAt(rec, next)
  BY <1>2 DEF BootAt, XInv, GapInv
<1>4. /\ NewEnd(kept, log) /\ GoodLog(kept) /\ Ordered(kept) /\ Backed(kept, WrittenSeqs)
      /\ Exact(kept, WrittenSeqs) /\ (log # {} => kept # {})
  <2>1. NewEnd(kept, log) /\ (log # {} => kept # {})
    BY <1>1, SpaceNewEnd
  <2>2. kept \in SUBSET log
    BY <2>1 DEF NewEnd
  <2> QED BY <1>1, <2>1, <2>2, GoodSubset, OrderedSubset, NewEndExact
<1>5. ASSUME kept # {} PROVE NewestSeg(kept) = NewestSeg(log) /\ NewestSeq(kept) = NewestSeq(log)
  BY <1>1, <1>4, <1>5, NewEndKeepsNewest
<1>6. Joins(kept, next, rec)
  <2> SUFFICES ASSUME kept # {}
               PROVE  /\ NewestSeq(kept) + 1 < next => rec.kind = "BOOT"
                      /\ rec.kind = "BOOT" => rec.from = NewestSeq(kept) + 1
    BY DEF Joins
  <2>1. log # {} /\ NewestSeq(kept) = NewestSeq(log)
    BY <1>4, <1>5 DEF NewEnd
  <2>2. CASE bootPending
    BY <1>2, <2>1, <2>2 DEF XInv, GapInv
  <2>3. CASE ~bootPending
    BY <1>1, <1>2, <2>1, <2>3 DEF XInv, OInv, HeadInv
  <2> QED BY <2>2, <2>3
<1>7. WrittenSeqs' = WrittenSeqs \cup {next}
  BY StoreKeeps DEF XInv, OInv
<1> DEFINE must == MustOpen
<1>8. must \in BOOLEAN /\ log' = AppendOk(kept, must, next, rec)
  BY DEF Store, MustOpen, NeedsNewSegment
<1>9. ASSUME ~must PROVE Continues(kept, next) /\ ~NewestSeg(kept).sealed
  <2>1. log # {} /\ ~NewestSeg(log).sealed /\ LastSeq(NewestSeg(log)) + 1 = next
    BY <1>9 DEF MustOpen, NeedsNewSegment
  <2> QED BY <1>4, <1>5, <2>1 DEF Continues
<1> HIDE DEF rec, must
<1>10. Exact(log', WrittenSeqs \cup {next})
  <2>1. CASE must = TRUE
    <3>1. Exact(AppendOk(kept, TRUE, next, rec), WrittenSeqs \cup {next})
      BY <1>1, <1>2, <1>3, <1>4, <1>6, AppendNewExact
    <3> QED BY <1>8, <2>1, <3>1
  <2>2. CASE must = FALSE
    <3>1. Continues(kept, next) /\ ~NewestSeg(kept).sealed
      BY <1>9, <2>2
    <3>2. Exact(AppendOk(kept, FALSE, next, rec), WrittenSeqs \cup {next})
      BY <1>1, <1>2, <1>3, <1>4, <1>6, <3>1, AppendOnExact
    <3> QED BY <1>8, <2>2, <3>2
  <2> QED BY <1>8, <2>1, <2>2
<1> QED
  BY <1>7, <1>10, ExactOf

LEMMA StoreXInv ==
  ASSUME XInv, OInv', pc = "append", NEW kept \in EnsureSpace(log), Store(kept),
         UNCHANGED <<boots, seqRsv, damage>>,
         pc' = "off" \/ (next' = next + 1 /\ bootPending' = FALSE)
  PROVE  XInv'
<1> DEFINE new == <<next, boots, NewRecord.kind>>
<1>1. written' = written \cup {new}
  BY DEF Store
<1>2. new[1] = next /\ new[2] = boots /\ new[3] = IF bootPending THEN "BOOT" ELSE "DATA"
  BY DEF NewRecord
<1> HIDE DEF new
<1>3. next \in Nat /\ \A w \in written : w[1] \in Nat
  BY DEF XInv, OInv, IInv, TypeOK
<1>4. BootBeforeData'
  <2> SUFFICES ASSUME NEW w \in written', w[3] = "DATA"
               PROVE  \E b \in written' : b[3] = "BOOT" /\ b[2] = w[2] /\ b[1] < w[1]
    BY DEF BootBeforeData
  <2>1. CASE w \in written
    BY <1>1, <2>1 DEF XInv, BootBeforeData
  <2>2. CASE w = new
    <3>1. ~bootPending
      BY <1>2, <2>2
    <3> QED BY <1>1, <1>2, <2>2, <3>1 DEF XInv, BootFirst
  <2> QED BY <1>1, <2>1, <2>2
<1>5. BootFirst'
  <2> SUFFICES ASSUME pc' # "off"
               PROVE  \E b \in written' : b[3] = "BOOT" /\ b[2] = boots /\ b[1] < next'
    BY DEF BootFirst
  <2>1. next' = next + 1
    OBVIOUS
  <2>2. CASE bootPending
    BY <1>1, <1>2, <1>3, <2>1, <2>2
  <2>3. CASE ~bootPending
    <3>1. PICK b \in written : b[3] = "BOOT" /\ b[2] = boots /\ b[1] < next
      BY <2>3 DEF XInv, BootFirst
    <3> QED BY <1>1, <1>3, <2>1, <3>1
  <2> QED BY <2>2, <2>3
<1>6. GapInv'
  BY DEF GapInv
<1>7. ExactInv'
  BY StoreExact DEF XInv, ExactInv
<1> QED
  BY <1>4, <1>5, <1>6, <1>7 DEF XInv

(* A failed append, also of a crash.                                         *)
LEMMA FailedXInv ==
  ASSUME XInv, OInv', NEW kept \in EnsureSpace(log), NEW torn \in BOOLEAN,
         log' = AppendFailed(kept, MustOpen, torn),
         UNCHANGED <<written, next, bootPending, bootFrom, bootTo, boots, damage>>, pc # "off"
  PROVE  XInv'
<1>1. /\ GoodLog(log) /\ Ordered(log) /\ Backed(log, WrittenSeqs) /\ WrittenSeqs \in SUBSET Nat
  BY DEF XInv, OInv, IInv
<1>2. NewEnd(kept, log) /\ (log # {} => kept # {}) /\ kept \in SUBSET log
  BY <1>1, SpaceNewEnd DEF NewEnd
<1>3. GoodLog(kept) /\ Ordered(kept) /\ Backed(kept, WrittenSeqs)
  BY <1>1, <1>2, GoodSubset, OrderedSubset
<1> DEFINE must == MustOpen
<1>4. must \in BOOLEAN /\ (must \/ kept # {}) /\ log' = AppendFailed(kept, must, torn)
  BY <1>2 DEF MustOpen, NeedsNewSegment
<1> HIDE DEF must
<1>5. log # {} => log' # {} /\ NewestSeq(log') = NewestSeq(log)
  BY FailedKeeps DEF XInv
<1>6. log = {} => log' = {}
  <2> SUFFICES ASSUME log = {} PROVE log' = {}
    OBVIOUS
  <2>1. kept = {}
    BY <1>2
  <2> QED BY <1>4, <2>1 DEF AppendFailed
<1>7. Exact(log, WrittenSeqs) => Exact(log', WrittenSeqs)
  <2> SUFFICES ASSUME Exact(log, WrittenSeqs) PROVE Exact(log', WrittenSeqs)
    OBVIOUS
  <2>1. Exact(kept, WrittenSeqs)
    BY <1>1, <1>2, NewEndExact
  <2> QED BY <1>1, <1>3, <1>4, <2>1, AppendFailedExact
<1>8. NewestSeq(log') = NewestSeq(log)
  BY <1>5, <1>6 DEF NewestSeq
<1> QED
  BY <1>5, <1>6, <1>7, <1>8, KeepingXStep

LEMMA FreeXInv == XInv /\ OInv' /\ Free => XInv'
<1> SUFFICES ASSUME XInv, OInv', Free PROVE XInv'
  OBVIOUS
<1>1. GoodLog(log) /\ Ordered(log) /\ WrittenSeqs \in SUBSET Nat /\ NewestSeq(log) \in Nat
  BY NewestSeqType DEF XInv, OInv, IInv
<1>2. PICK upTo \in 0..NewestSeq(log) : log' = DeleteUpTo(log, upTo)
  BY DEF Free
<1>3. upTo \in Nat
  BY <1>1
<1>4. NewEnd(log', log) /\ (log # {} => log' # {})
  BY <1>1, <1>2, <1>3, DeleteUpToNewEnd
<1>5. log = {} <=> log' = {}
  BY <1>4 DEF NewEnd
<1>6. NewestSeq(log') = NewestSeq(log)
  <2>1. CASE log' = {}
    BY <1>5, <2>1 DEF NewestSeq
  <2>2. CASE log' # {}
    BY <1>1, <1>4, <2>2, NewEndKeepsNewest
  <2> QED BY <2>1, <2>2
<1>7. Exact(log, WrittenSeqs) => Exact(log', WrittenSeqs)
  BY <1>1, <1>4, NewEndExact
<1>8. /\ UNCHANGED <<written, next, bootPending, bootFrom, bootTo, boots, pc, damage>>
  BY DEF Free, counter, marker
<1> QED
  BY <1>5, <1>6, <1>7, <1>8, KeepingXStep

LEMMA RotXInv == XInv /\ OInv' /\ Rot => XInv'
<1> SUFFICES ASSUME XInv, OInv', Rot PROVE XInv'
  OBVIOUS
<1>1. /\ UNCHANGED <<written, next, bootPending, bootFrom, bootTo, boots, pc>>
      /\ damage' = damage + 1 /\ damage \in Nat
  BY DEF Rot, counter, marker, XInv, OInv, IInv, TypeOK
<1>2. GoodLog(log) /\ Ordered(log) /\ Backed(log, WrittenSeqs)
  BY DEF XInv, OInv, IInv
<1>3. PICK s \in log : \E e \in Rotted(s) : log' = (log \ {s}) \cup {e}
  BY DEF Rot
<1>4. PICK e \in Rotted(s) : log' = (log \ {s}) \cup {e}
  BY <1>3
<1>5. s \in Segment /\ s.reach <= Len(s.recs)
  BY <1>2 DEF GoodLog
<1>6. e \in Segment /\ e.reach <= Len(e.recs) /\ SameExtent(s, e)
  BY <1>5, RottedSegment
<1>7. GoodLog(Swapped(log, s, e)) /\ log' = Swapped(log, s, e)
  BY <1>2, <1>4, <1>6, GoodSwapped DEF Swapped
<1>8. Swapped(log, s, e) # {} /\ NewestSeq(Swapped(log, s, e)) = NewestSeq(log)
  BY <1>2, <1>6, <1>7, ReplacedOrdered
<1>9. log # {}
  BY <1>3
<1> QED
  BY <1>1, <1>7, <1>8, <1>9, KeepingXStep

LEMMA NextXInv == XInv /\ [Next]_vars => XInv'
<1> SUFFICES ASSUME XInv, [Next]_vars PROVE XInv'
  OBVIOUS
<1>1. OInv /\ OInv' /\ damage \in Nat
  BY NextOInv DEF XInv, OInv, IInv, TypeOK
<1>2. ASSUME UNCHANGED <<log, written, next, bootPending, bootFrom, bootTo, boots, damage>>,
             pc = "off" => pc' = "off"
      PROVE  XInv'
  <2>1. NewestSeq(log') = NewestSeq(log) /\ (Exact(log, WrittenSeqs) => Exact(log', WrittenSeqs))
    BY <1>2
  <2> QED BY <1>1, <1>2, <2>1, KeepingXStep
<1>3. CASE PowerOn
  <2>1. GoodLog(log) /\ Ordered(log) /\ Start(log) /\ damage' = damage
    BY <1>1, <1>3 DEF PowerOn, OInv, IInv
  <2> QED BY <1>1, <2>1, StartXInv
<1>4. CASE PowerOnFormatted
  <2>1. GoodLog({}) /\ Ordered({}) /\ Start({}) /\ damage' = damage + 1
    BY <1>4, FS_EmptySet DEF PowerOnFormatted, GoodLog, Ordered
  <2> QED BY <1>1, <2>1, StartXInv
<1>5. CASE Write
  BY <1>2, <1>5 DEF Write, counter, marker, history
<1>6. CASE Reserve \/ ReserveFails
  BY <1>2, <1>6 DEF Reserve, ReserveFails, counter, marker, history
<1>7. CASE AppendSucceeds
  <2>1. PICK kept \in EnsureSpace(log) : Store(kept)
    BY <1>7 DEF AppendSucceeds
  <2>2. /\ pc = "append" /\ next' = next + 1 /\ bootPending' = FALSE
        /\ UNCHANGED <<boots, seqRsv, damage>>
    BY <1>7 DEF AppendSucceeds, history, nvs
  <2> QED BY <1>1, <2>1, <2>2, StoreXInv
<1>8. CASE AppendFails
  <2>1. PICK kept \in EnsureSpace(log), torn \in BOOLEAN : log' = AppendFailed(kept, MustOpen, torn)
    BY <1>8 DEF AppendFails
  <2>2. /\ UNCHANGED <<written, next, bootPending, bootFrom, bootTo, boots, damage>> /\ pc # "off"
    BY <1>8 DEF AppendFails, counter, marker, history
  <2> QED BY <1>1, <2>1, <2>2, FailedXInv
<1>9. CASE RemoveLegacyLastSeq
  BY <1>2, <1>9 DEF RemoveLegacyLastSeq, counter, marker, history
<1>10. CASE Free
  BY <1>1, <1>10, FreeXInv
<1>11. CASE Crash
  BY <1>2, <1>11 DEF Crash, PowerLost, counter, marker, history
<1>12. CASE CrashInAppend
  <2>1. /\ pc = "append" /\ pc' = "off"
        /\ UNCHANGED <<next, bootPending, bootFrom, bootTo, boots, seqRsv, damage>>
    BY <1>12 DEF CrashInAppend, PowerLost, nvs, counter, marker, history
  <2>2. PICK kept \in EnsureSpace(log) :
          \/ \E torn \in BOOLEAN : log' = AppendFailed(kept, MustOpen, torn) /\ UNCHANGED written
          \/ Store(kept)
    BY <1>12 DEF CrashInAppend
  <2>3. CASE Store(kept)
    BY <1>1, <2>1, <2>3, StoreXInv
  <2>4. CASE \E torn \in BOOLEAN : log' = AppendFailed(kept, MustOpen, torn) /\ UNCHANGED written
    BY <1>1, <2>1, <2>4, FailedXInv
  <2> QED BY <2>2, <2>3, <2>4
<1>13. CASE Rot
  BY <1>1, <1>13, RotXInv
<1>14. CASE UNCHANGED vars
  BY <1>2, <1>14 DEF vars
<1> QED
  BY <1>3, <1>4, <1>5, <1>6, <1>7, <1>8, <1>9, <1>10, <1>11, <1>12, <1>13, <1>14 DEF Next

(* The invariant of the contents of a sound log, and of the BOOTs, holds     *)
(* throughout.                                                               *)
THEOREM ContentsInvariance == Spec => []XInv
<1>1. Init => XInv
  BY InitXInv
<1>2. XInv /\ [Next]_vars => XInv'
  BY NextXInv
<1> QED
  BY <1>1, <1>2, PTL DEF Spec

(* What an exact log answers.                                                *)
LEMMA ExactReads ==
  ASSUME NEW l, GoodLog(l), Intact(l), NEW q \in Nat, Holds(l, q)
  PROVE  ReadStatus(l, q) = "Ok"
<1> DEFINE s == SegmentOf(l, q)
           i == q - s.first + 1
<1>1. s \in l /\ Covers(s, q)
  BY DEF SegmentOf, Holds
<1>2. RecordAt(l, q) = s.recs[i]
  BY DEF RecordAt
<1>3. ReadStatus(l, q) = IF i <= s.reach /\ RecordAt(l, q).good THEN "Ok" ELSE "Corrupt"
  BY DEF ReadStatus
<1> HIDE DEF s
<1>4. /\ s.first \in Nat \ {0} /\ Len(s.recs) \in Nat /\ LastSeq(s) = s.first + Len(s.recs) - 1
  BY <1>1, SegmentFields DEF GoodLog
<1>5. i \in 1..Len(s.recs)
  BY <1>1, <1>4 DEF Covers
<1> HIDE DEF i
<1>6. s.reach = Len(s.recs) /\ s.recs[i].good
  BY <1>1, <1>5 DEF Intact, SoundSegment
<1>7. i <= s.reach
  BY <1>4, <1>5, <1>6
<1> QED
  BY <1>2, <1>3, <1>6, <1>7

(* The store of LittleFsBlockStore answers exactly for what was appended,    *)
(* whatever the power losses, failed writes, discards and acks left behind.  *)
THEOREM LogStaysExact == Spec => []LogIsExact
<1>1. XInv => LogIsExact
  <2> SUFFICES ASSUME XInv PROVE LogIsExact
    OBVIOUS
  <2>1. LogIsOrdered
    BY DEF XInv, OInv, Ordered, Backed, LogIsOrdered
  <2>2. GoodLog(log) /\ Ordered(log) /\ Backed(log, WrittenSeqs) /\ WrittenSeqs \in SUBSET (Nat \ {0})
    BY DEF XInv, OInv, IInv
  <2>3. ASSUME damage = 0 PROVE log = {} <=> written = {}
    BY <2>3 DEF XInv, ExactInv, Exact, WrittenSeqs
  <2>4. ASSUME damage = 0, NEW q \in WrittenSeqs \cup OldestSeq(log)..NewestSeq(log),
               q >= OldestSeq(log)
        PROVE  q \in WrittenSeqs <=> ReadStatus(log, q) = "Ok"
    <3>1. Exact(log, WrittenSeqs)
      BY <2>4 DEF XInv, ExactInv
    <3>2. OldestSeq(log) \in Nat /\ q \in Nat
      BY <2>2, <2>4, OldestSeqType
    <3>3. ASSUME q \in WrittenSeqs PROVE ReadStatus(log, q) = "Ok"
      <4>1. log # {}
        BY <3>1, <3>3 DEF Exact
      <4>2. OldestSeg(log) \in log /\ OldestSeg(log).first <= q
        BY <2>2, <2>4, <4>1, OldestExists DEF GoodLog, OldestSeq
      <4>3. Holds(log, q)
        BY <3>1, <3>3, <4>2 DEF Exact, NoHoles
      <4> QED BY <2>2, <3>1, <3>2, <4>3, ExactReads DEF Exact
    <3>4. ASSUME ReadStatus(log, q) = "Ok" PROVE q \in WrittenSeqs
      <4>1. PICK s \in log : Covers(s, q)
        BY <3>4, ReadableIsHeld DEF Holds
      <4>2. s.first \in Nat /\ LastSeq(s) \in Nat
        BY <2>2, SegmentFields DEF GoodLog
      <4> QED BY <2>2, <3>2, <4>1, <4>2 DEF Backed, Covers
    <3> QED BY <3>3, <3>4
  <2> QED BY <2>1, <2>3, <2>4 DEF LogIsExact
<1> QED
  BY <1>1, ContentsInvariance, PTL

(* BlockWriter.h:24-26 and SeqReserve::recover: no data before the BOOT of   *)
(* its boot, and on sound flash the BOOTs declare the jumps of the seqs, all *)
(* of them and nothing that was written.                                     *)
THEOREM GapsAreDeclared == Spec => []GapsDeclared
<1>1. XInv => GapsDeclared
  <2> SUFFICES ASSUME XInv PROVE GapsDeclared
    OBVIOUS
  <2>1. ASSUME damage = 0 PROVE JumpsAreDeclared
    <3> SUFFICES ASSUME NEW s \in log, Before(s) # {}
                 PROVE  JumpDeclared(NewestSeg(Before(s)), s)
      BY DEF JumpsAreDeclared, JumpDeclared
    <3> DEFINE p == NewestSeg(Before(s))
    <3>1. Before(s) \in SUBSET log /\ GoodLog(log)
      BY DEF Before, XInv, OInv, IInv
    <3>2. Before(s) \in SUBSET Segment /\ IsFiniteSet(Before(s))
      BY <3>1, FS_Subset DEF GoodLog
    <3>3. p \in Before(s) /\ \A t \in Before(s) : t.first <= p.first
      BY <3>2, NewestExists
    <3> HIDE DEF p
    <3>4. p \in log /\ Neighbours(log, p, s)
      BY <3>3 DEF Before, Neighbours
    <3>5. JumpDeclared(p, s)
      BY <2>1, <3>4 DEF XInv, ExactInv, Exact, JumpsIn
    <3> QED BY <3>5 DEF p
  <2>2. ASSUME damage = 0 PROVE BootRangeIsUnused
    BY <2>2 DEF XInv, ExactInv, Exact, BootsUnused, BootRangeIsUnused
  <2> QED BY <2>1, <2>2 DEF XInv, GapsDeclared
<1> QED
  BY <1>1, ContentsInvariance, PTL

-------------------------------------------------------------------------------
(* What a step may free                                                      *)

(* A discard or an append that loses a seq without a report does not exist;  *)
(* a mount of sound flash neither.                                           *)
LEMMA NothingVanishes ==
  ASSUME XInv, [Next]_vars, pc' # "off", damage' = 0,
         NEW s \in log, NEW q \in s.first..LastSeq(s)
  PROVE  Holds(log', q) \/ q <= overflowUpTo' \/ q <= freed'
<1>1. /\ GoodLog(log) /\ Ordered(log) /\ Backed(log, WrittenSeqs) /\ WrittenSeqs \in SUBSET Nat
      /\ damage \in Nat /\ overflowUpTo \in Nat /\ freed \in Nat
  BY DEF XInv, OInv, IInv, TypeOK
<1>2. /\ s.first \in Nat \ {0} /\ LastSeq(s) \in Nat /\ q \in Nat /\ Covers(s, q) /\ Holds(log, q)
  BY <1>1, SegmentFields DEF GoodLog, Covers, Holds
<1>3. CASE UNCHANGED log
  BY <1>2, <1>3
<1>4. CASE PowerOn
  <2>1. /\ log' = Mount(log) /\ overflowUpTo' = OverflowAfter(0, Valid(log), Mount(log))
        /\ damage = 0
    BY <1>4 DEF PowerOn, Start
  <2>2. GoodLog(Valid(log)) /\ Ordered(Valid(log)) /\ SameContents(log, Valid(log))
    BY <1>1, <2>1, ValidExact DEF XInv, ExactInv, Exact
  <2>3. PICK t \in Valid(log) : Twin(s, t)
    BY <2>2 DEF SameContents
  <2>4. Covers(t, q) /\ LastSeq(t) = LastSeq(s)
    BY <1>2, <2>3 DEF Twin, Covers, LastSeq
  <2> DEFINE m == Mount(log)
  <2>5. m \in SUBSET Valid(log) /\ log' = m
    BY <2>1 DEF Mount
  <2>6. CASE \E x \in m : x.first = t.first
    <3>1. t \in m
      BY <2>2, <2>5, <2>6, FirstsDiffer DEF GoodLog
    <3> QED BY <2>4, <2>5, <3>1 DEF Holds
  <2>7. CASE \A x \in m : x.first # t.first
    <3> DEFINE up == OverflowAfter(0, Valid(log), m)
    <3>1. LastSeq(t) <= up /\ up \in Nat
      BY <2>2, <2>7, OverflowCovers, OverflowType
    <3>2. overflowUpTo' = up
      BY <2>1
    <3> HIDE DEF up, m
    <3>3. q <= LastSeq(t)
      BY <2>4 DEF Covers
    <3> QED BY <1>2, <2>4, <3>1, <3>2, <3>3
  <2> QED BY <2>6, <2>7
<1>5. CASE AppendSucceeds
  <2>1. PICK kept \in EnsureSpace(log) : Store(kept)
    BY <1>5 DEF AppendSucceeds
  <2> DEFINE rec  == NewRecord
             must == MustOpen
             m    == AppendOk(kept, must, next, rec)
  <2>2. /\ next \in Nat \ {0} /\ boots \in Nat /\ Follows(next, WrittenSeqs)
    BY <1>5, WriterAssumption DEF AppendSucceeds, XInv, OInv, IInv, TypeOK, CounterInv, Follows
  <2>3. rec \in Record
    BY <2>2 DEF NewRecord, Record, XInv, OInv, IInv, TypeOK
  <2>4. must \in BOOLEAN /\ (must \/ log # {})
    BY DEF MustOpen, NeedsNewSegment
  <2>5. log' = m /\ overflowUpTo' = OverflowAfter(overflowUpTo, log, log')
    BY <1>5, <2>1 DEF AppendSucceeds, Store
  <2> HIDE DEF rec, must
  <2>6. Holds(m, q) \/ q <= OverflowAfter(overflowUpTo, log, m)
    BY <1>1, <1>2, <2>2, <2>3, <2>4, AppendReports
  <2> QED BY <2>5, <2>6
<1>6. CASE AppendFails
  <2>1. PICK kept \in EnsureSpace(log), torn \in BOOLEAN :
          /\ log' = AppendFailed(kept, MustOpen, torn)
          /\ overflowUpTo' = OverflowAfter(overflowUpTo, log, kept)
    BY <1>6 DEF AppendFails
  <2>2. kept \in SUBSET log /\ (log # {} => kept # {})
    BY <1>1, SpaceNewEnd DEF NewEnd
  <2>3. CASE \E x \in kept : x.first = s.first
    <3>1. s \in kept
      BY <1>1, <2>2, <2>3, FirstsDiffer DEF GoodLog
    <3>2. CASE MustOpen
      BY <1>2, <2>1, <3>1, <3>2 DEF AppendFailed, Holds
    <3>3. CASE ~MustOpen
      <4> DEFINE n == NewestSeg(kept)
                 e == [n EXCEPT !.sealed = TRUE, !.garbage = @ \/ torn]
      <4>1. n \in kept /\ n \in Segment
        BY <1>1, <2>2, <3>1, NewestExists, GoodSubset DEF GoodLog
      <4>2. log' = (kept \ {n}) \cup {e}
        BY <2>1, <3>3 DEF AppendFailed
      <4> HIDE DEF n
      <4>3. e.first = n.first /\ e.recs = n.recs
        BY <4>1 DEF Segment
      <4> HIDE DEF e
      <4>4. Covers(n, q) => Covers(e, q)
        BY <4>3 DEF Covers, LastSeq
      <4> QED BY <1>2, <3>1, <4>2, <4>4 DEF Holds
    <3> QED BY <3>2, <3>3
  <2>4. CASE \A x \in kept : x.first # s.first
    <3> DEFINE up == OverflowAfter(overflowUpTo, log, kept)
    <3>1. LastSeq(s) <= up /\ up \in Nat
      BY <1>1, <2>4, OverflowCovers, OverflowType
    <3>2. overflowUpTo' = up
      BY <2>1
    <3> HIDE DEF up
    <3>3. q <= LastSeq(s)
      BY <1>2 DEF Covers
    <3> QED BY <1>2, <3>1, <3>2, <3>3
  <2> QED BY <2>3, <2>4
<1>7. CASE Free
  <2>1. PICK upTo \in 0..NewestSeq(log) : log' = DeleteUpTo(log, upTo) /\ freed' = Max({freed, upTo})
    BY <1>7 DEF Free
  <2>2. NewestSeq(log) \in Nat
    BY <1>1, NewestSeqType
  <2>3. upTo \in Nat
    BY <2>2
  <2>4. CASE LastSeq(s) > upTo
    <3>1. s \in log'
      BY <2>1, <2>4 DEF DeleteUpTo
    <3> QED BY <1>2, <3>1 DEF Holds
  <2>5. CASE ~(LastSeq(s) > upTo)
    <3> DEFINE up == Max({freed, upTo})
    <3>1. freed' = up
      BY <2>1
    <3> DEFINE a == freed
    <3>2. a \in Nat
      BY <1>1
    <3> HIDE DEF a
    <3>3. Max({a, upTo}) \in {a, upTo} /\ Max({a, upTo}) >= upTo
      BY <2>3, <3>2, MaxOfTwo
    <3>4. Max({a, upTo}) = up
      BY DEF a
    <3> HIDE DEF up
    <3>5. up \in Nat /\ upTo <= up
      BY <2>3, <3>2, <3>3, <3>4
    <3>6. q <= LastSeq(s)
      BY <1>2 DEF Covers
    <3> QED BY <1>2, <2>3, <2>5, <3>1, <3>5, <3>6
  <2> QED BY <2>4, <2>5
<1>8. CASE PowerOnFormatted \/ Rot
  BY <1>1, <1>8 DEF PowerOnFormatted, Rot
<1>9. CASE Crash \/ CrashInAppend
  BY <1>9 DEF Crash, CrashInAppend, PowerLost
<1>10. CASE Write \/ Reserve \/ ReserveFails \/ RemoveLegacyLastSeq \/ UNCHANGED vars
  BY <1>3, <1>10 DEF Write, Reserve, ReserveFails, RemoveLegacyLastSeq, vars
<1> QED
  BY <1>4, <1>5, <1>6, <1>7, <1>8, <1>9, <1>10 DEF Next

(* LittleFsBlockStore::discardOldest and deleteUpTo: whatever the writer,    *)
(* the Sync task and a start-up on sound flash drop, SyncEngine learns of it *)
(* by overflowUpTo or asked for it itself.                                   *)
THEOREM NothingLostSilently == Spec => NothingVanishesUnreported
<1> DEFINE A == pc' # "off" /\ damage' = 0 => \A s \in log : \A q \in s.first..LastSeq(s) :
                  Holds(log', q) \/ q <= overflowUpTo' \/ q <= freed'
<1>1. XInv /\ [Next]_vars => [A]_vars
  BY NothingVanishes
<1>2. Spec => [][A]_vars
  BY <1>1, ContentsInvariance, PTL DEF Spec
<1> QED
  BY <1>2 DEF NothingVanishesUnreported
===============================================================================
