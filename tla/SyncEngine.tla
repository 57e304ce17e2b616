------------------------------ MODULE SyncEngine ------------------------------
(***************************************************************************)
(* The dongle's side of the transfer: datasync::SyncEngine as the Sync     *)
(* task runs it, one handler of a queued input at a time, over the log     *)
(* that the Flush task appends to meanwhile.  The writer and the boot are  *)
(* one action each here; module BlockLog takes them apart, and proves what *)
(* this module takes from it: a boot starts above every seq in use.        *)
(* What the engine sends is added to a set; a message in a set may reach   *)
(* the other end any number of times, in any order, or never.              *)
(***************************************************************************)
EXTENDS LogStore

CONSTANTS MaxLossRun,  \* kMaxLossRun: seqs that one LOSS marker may declare
          MaxRequest,  \* blocks the app asks for at a time
          MaxGap,      \* seqs a boot may skip (at most kSeqReserveStep)
          MaxSeq,      \* bound on the seqs in use
          MaxBoots,    \* bound on power-ons
          MaxConns,    \* bound on BLE connections
          MaxDamage    \* bound on rotten records and formats

ASSUME EngineAssumption ==
  /\ MaxLossRun \in Nat \ {0} /\ MaxRequest \in Nat \ {0} /\ MaxGap \in Nat
  /\ MaxSeq \in Nat /\ MaxBoots \in Nat /\ MaxConns \in Nat /\ MaxDamage \in Nat

VARIABLES
  log,           \* flash and its RAM index
  overflowUpTo,  \* highest seq discarded since boot
  next,          \* seq of the next record
  bootFrom,      \* _bootFrom of a BOOT not yet written, 0 = none
  boot,          \* power-ons so far, and the boot_id of this one
  conns,         \* connections so far
  damage,        \* faults of the medium so far
  written,       \* history: seqs that ever held a record
  nvsCs,         \* NVS last_cs
  link,          \* down, up (connected) or subscribed
  sessionOpen,
  ackLocal,
  cursor,
  batchEnd,      \* _batchEnd of the active batch, 0 = no batch
  lastAcceptedCs,
  respondedCs,   \* _respondedCs, 0 = ~_hasResponded
  noHsConn,      \* notice flag bit 0: no handshake on this connection
  noHsBoot,      \* notice flag bit 1: no anchored handshake in this boot
  overflowSeen,
  responses,     \* handshake responses ever sent
  sent           \* blocks ever sent

store   == <<log, overflowUpTo, next, bootFrom, boot, damage, written>>
session == <<link, sessionOpen, respondedCs, noHsConn, noHsBoot>>
batch   == <<cursor, batchEnd>>
counter == <<nvsCs, lastAcceptedCs>>
outgoing == <<responses, sent>>
engineVars == <<store, conns, session, batch, counter, ackLocal, overflowSeen, outgoing>>

(* A block as the other end sees it: the seqs a marker declares are from..to. *)
Message == [seq : Nat \ {0}, kind : {"DATA", "BOOT", "LOSS"}, from : Nat, to : Nat]
(* conn is not part of the response: the connection it was sent on.          *)
Response == [cs : Nat \ {0}, head : Nat, tail : Nat, boot : Nat, conn : Nat]

EngineTypeOK ==
  /\ log \in SUBSET Segment /\ overflowUpTo \in Nat
  /\ next \in Nat \ {0} /\ bootFrom \in Nat
  /\ boot \in Nat /\ conns \in Nat /\ damage \in Nat /\ written \in SUBSET Nat
  /\ nvsCs \in Nat /\ lastAcceptedCs \in Nat /\ respondedCs \in Nat
  /\ link \in {"down", "up", "subscribed"}
  /\ sessionOpen \in BOOLEAN /\ noHsConn \in BOOLEAN /\ noHsBoot \in BOOLEAN
  /\ ackLocal \in Nat /\ cursor \in Nat \ {0} /\ batchEnd \in Nat /\ overflowSeen \in Nat
  /\ responses \in SUBSET Response /\ sent \in SUBSET Message

EngineInit ==
  /\ log = {} /\ overflowUpTo = 0 /\ next = 1 /\ bootFrom = 0
  /\ boot = 0 /\ conns = 0 /\ damage = 0 /\ written = {}
  /\ nvsCs = 0 /\ lastAcceptedCs = 0 /\ respondedCs = 0
  /\ link = "down" /\ sessionOpen = FALSE /\ noHsConn = TRUE /\ noHsBoot = TRUE
  /\ ackLocal = 0 /\ cursor = 1 /\ batchEnd = 0 /\ overflowSeen = 0
  /\ responses = {} /\ sent = {}

-------------------------------------------------------------------------------
(* The log: writer, boot, medium                                             *)

(* Mutant: the gap that a BOOT declares is left to the server as discarded.  *)
EffectiveTailIgnoringBoot(lg) == IF lg = {} THEN 1 ELSE OldestSeq(lg)

(* A seq below this one is gone for good.                                    *)
EffectiveTail(lg) ==
  LET q == OldestSeq(lg)
      r == RecordAt(lg, q)
  IN IF lg = {} THEN 1
     ELSE IF ReadStatus(lg, q) = "Ok" /\ r.kind = "BOOT" /\ r.from <= q THEN r.from
     ELSE q

BootRecord(from, seq) ==
  [kind |-> "BOOT", boot |-> 0, from |-> from, to |-> seq - 1, good |-> TRUE]
DataRecord == [kind |-> "DATA", boot |-> 0, from |-> 0, to |-> 0, good |-> TRUE]

(* The seq goes to a record, or the append fails and it does not.            *)
Put(found, mayFail, newSegment, seq, r) ==
  \E kept \in EnsureSpace(found) :
    \/ /\ log' = AppendOk(kept, newSegment, seq, r)
       /\ written' = written \cup {seq}
       /\ next' = seq + 1 /\ bootFrom' = 0
    \/ /\ mayFail
       /\ log' = kept /\ written' = written
       /\ next' = seq /\ bootFrom' = r.from

(* Flush task: the pending BOOT, or a data block.                            *)
Write ==
  /\ boot > 0 /\ next <= MaxSeq
  /\ IF bootFrom > 0
     THEN Put(log, FALSE, TRUE, next, BootRecord(bootFrom, next))
     ELSE Put(log, FALSE, NeedsNewSegment(log, FALSE, next), next, DataRecord)
  /\ overflowUpTo' = OverflowAfter(overflowUpTo, log, log')
  /\ UNCHANGED <<boot, damage, conns, session, batch, counter, ackLocal, overflowSeen, outgoing>>

(* startCollector over the log `found`, and SyncEngine::begin: RAM starts    *)
(* anew, NVS and flash stay.  The BOOT may fail to be written.               *)
Boot(found) ==
  LET mounted == Mount(found)
      newest  == NewestSeq(mounted)
  IN /\ boot < MaxBoots /\ next <= MaxSeq
     /\ boot' = boot + 1
     /\ \E r \in next..next + (IF boot = 0 THEN 0 ELSE MaxGap) :
          Put(mounted, TRUE, TRUE, r, BootRecord(IF newest = 0 THEN r ELSE newest + 1, r))
     /\ overflowUpTo' = OverflowAfter(OverflowAfter(0, Valid(found), mounted), mounted, log')
     /\ overflowSeen' = overflowUpTo'
     /\ lastAcceptedCs' = nvsCs
     /\ ackLocal' = EffectiveTail(log') - 1
     /\ cursor' = EffectiveTail(log') /\ batchEnd' = 0
     /\ link' = "down" /\ sessionOpen' = FALSE /\ respondedCs' = 0
     /\ noHsConn' = TRUE /\ noHsBoot' = TRUE
     /\ UNCHANGED <<conns, nvsCs, outgoing>>

PowerOn == Boot(log) /\ UNCHANGED damage
PowerOnFormatted ==
  /\ boot > 0 /\ damage < MaxDamage /\ damage' = damage + 1
  /\ Boot({})

(* One stored record goes bad.                                               *)
Rot ==
  /\ damage < MaxDamage /\ damage' = damage + 1
  /\ \E s \in log : \E e \in Rotted(s) : log' = (log \ {s}) \cup {e}
  /\ UNCHANGED <<overflowUpTo, next, bootFrom, boot, written, conns, session, batch, counter,
                 ackLocal, overflowSeen, outgoing>>

-------------------------------------------------------------------------------
(* The link                                                                  *)

RestartCursor == ackLocal + 1

OnConnected ==
  /\ boot > 0 /\ conns < MaxConns
  /\ conns' = conns + 1
  /\ link' = "up" /\ sessionOpen' = FALSE /\ respondedCs' = 0 /\ noHsConn' = TRUE
  /\ batchEnd' = 0 /\ cursor' = RestartCursor
  /\ UNCHANGED <<store, noHsBoot, counter, ackLocal, overflowSeen, outgoing>>

OnDisconnected ==
  /\ link # "down"
  /\ link' = "down" /\ sessionOpen' = FALSE /\ batchEnd' = 0
  /\ UNCHANGED <<store, conns, respondedCs, noHsConn, noHsBoot, cursor, counter, ackLocal,
                 overflowSeen, outgoing>>

OnSubscribed ==
  /\ link # "down"
  /\ link' \in {"up", "subscribed"} \ {link}
  /\ UNCHANGED <<store, conns, sessionOpen, respondedCs, noHsConn, noHsBoot, batch, counter,
                 ackLocal, overflowSeen, outgoing>>

-------------------------------------------------------------------------------
(* Messages                                                                  *)

(* advanceAck: frees the flash; the cursor and the batch move past the ack.  *)
AdvanceAck(a) ==
  /\ ackLocal' = a
  /\ log' = DeleteUpTo(log, a)
  /\ cursor' = Max({cursor, a + 1})
  /\ batchEnd' = IF batchEnd < cursor' THEN 0 ELSE batchEnd

KeepAck == UNCHANGED <<ackLocal, log, batch>>

(* Mutant: the counter is kept in RAM only.                                  *)
SaveCsInRam(cs) == lastAcceptedCs' = cs /\ UNCHANGED nvsCs
SaveCs(cs) == nvsCs' = cs /\ lastAcceptedCs' = cs

(* handleChallenge: the counter of the challenge is saved before the         *)
(* response exists, then the ack it carries is used, then the response tells *)
(* HEAD and TAIL.  A failed save may or may not have changed NVS.            *)
HandleChallenge(c) ==
  /\ link # "down" /\ c.cs > lastAcceptedCs
  /\ \/ /\ SaveCs(c.cs)
        /\ IF c.ack > ackLocal /\ c.ack <= NewestSeq(log) THEN AdvanceAck(c.ack) ELSE KeepAck
        /\ responses' = responses \cup
             {[cs |-> c.cs, head |-> NewestSeq(log'), tail |-> EffectiveTail(log'),
               boot |-> boot, conn |-> conns]}
        /\ respondedCs' = c.cs
     \/ /\ nvsCs' \in {nvsCs, c.cs}
        /\ KeepAck
        /\ UNCHANGED <<lastAcceptedCs, responses, respondedCs>>
  /\ UNCHANGED <<overflowUpTo, next, bootFrom, boot, damage, written, conns, link, sessionOpen,
                 noHsConn, noHsBoot, overflowSeen, sent>>

Opens(a) == respondedCs > 0 /\ a.cConf = respondedCs

HandleAck(a) ==
  /\ link # "down" /\ ackLocal <= a.ack /\ a.ack <= NewestSeq(log)
  /\ IF a.ack > ackLocal THEN AdvanceAck(a.ack) ELSE KeepAck
  /\ \/ /\ Opens(a)
        /\ sessionOpen' = TRUE /\ noHsConn' = FALSE
        /\ noHsBoot' = (noHsBoot /\ a.anchorFailed)
     \/ /\ ~Opens(a)
        /\ UNCHANGED <<sessionOpen, noHsConn, noHsBoot>>
  /\ UNCHANGED <<overflowUpTo, next, bootFrom, boot, damage, written, conns, link, respondedCs,
                 counter, overflowSeen, outgoing>>

(* Mutant: the newest block is left for later.                               *)
PendingBlocksBelowHead == cursor < NewestSeq(log)
PendingBlocks == cursor <= NewestSeq(log)

(* handleBatchRequest; a second request replaces the batch.                  *)
HandleBatchRequest ==
  /\ link # "down" /\ sessionOpen /\ PendingBlocks
  /\ \E k \in 1..MaxRequest : batchEnd' = Min({cursor + k - 1, NewestSeq(log)})
  /\ UNCHANGED <<store, conns, session, cursor, counter, ackLocal, overflowSeen, outgoing>>

(* handleAppError, codes 0x04 and 0x07.                                      *)
HandleAppError ==
  /\ link # "down"
  /\ batchEnd' = 0 /\ cursor' = RestartCursor
  /\ UNCHANGED <<store, conns, session, counter, ackLocal, overflowSeen, outgoing>>

-------------------------------------------------------------------------------
(* Overflow                                                                  *)

LostUnconfirmed == overflowUpTo > overflowSeen /\ overflowUpTo > ackLocal

(* Mutant: the retry notice is not turned on again.                          *)
CloseSessionSilently == sessionOpen' = FALSE /\ noHsConn' = noHsConn /\ batchEnd' = 0
CloseSession == sessionOpen' = FALSE /\ noHsConn' = TRUE /\ batchEnd' = 0

(* checkOverflow, from onFlushed, from tick and before every block.          *)
CheckOverflow ==
  /\ overflowUpTo > overflowSeen
  /\ overflowSeen' = overflowUpTo
  /\ IF LostUnconfirmed THEN CloseSession ELSE UNCHANGED <<sessionOpen, noHsConn, batchEnd>>
  /\ UNCHANGED <<store, conns, link, respondedCs, noHsBoot, cursor, counter, ackLocal, outgoing>>

-------------------------------------------------------------------------------
(* Blocks                                                                    *)

(* Mutant: the run goes on over sound records.                               *)
FindLossEndBlind(s) == Min({NewestSeq(log), s + MaxLossRun - 1})

(* Last seq of the run of corrupt records that starts at s.                  *)
FindLossEnd(s) ==
  Max({to \in s..s + MaxLossRun - 1 :
         \A q \in s + 1..to : q <= NewestSeq(log) /\ ReadStatus(log, q) = "Corrupt"})

Loss(s, to) == [seq |-> s, kind |-> "LOSS", from |-> s, to |-> to]
BlockOf(s) ==
  LET r == RecordAt(log, s)
  IN IF r.kind = "BOOT" THEN [seq |-> s, kind |-> "BOOT", from |-> r.from, to |-> r.to]
     ELSE [seq |-> s, kind |-> "DATA", from |-> s, to |-> s]

(* Mutant: the cursor moves past a block that was not delivered.             *)
TransmitBlindly(m, nextCursor) ==
  \/ sent' = sent \cup {m} /\ cursor' = nextCursor /\ UNCHANGED batchEnd
  \/ batchEnd' = 0 /\ cursor' = nextCursor /\ UNCHANGED sent

(* sendTlv: delivered and the cursor moves past it, or the batch ends.       *)
Transmit(m, nextCursor) ==
  \/ sent' = sent \cup {m} /\ cursor' = nextCursor /\ UNCHANGED batchEnd
  \/ batchEnd' = 0 /\ UNCHANGED <<sent, cursor>>

(* A seq that no segment holds: the next stored record is a BOOT that        *)
(* declares it, and the cursor jumps there; or it is lost.                   *)
SkipMissing(s) ==
  LET t == NextStoredSeq(log, s)
      bootGap == /\ ReadStatus(log, t) = "Ok"
                 /\ RecordAt(log, t).kind = "BOOT" /\ RecordAt(log, t).from <= s
  IN \/ t = 0 /\ batchEnd' = 0 /\ UNCHANGED <<sent, cursor>>
     \/ t > 0 /\ bootGap /\ cursor' = t /\ batchEnd' = Max({batchEnd, t}) /\ UNCHANGED sent
     \/ /\ t > 0 /\ ~bootGap
        /\ LET to == Min({t - 1, s + MaxLossRun - 1}) IN Transmit(Loss(s, to), to + 1)

CanSend == link = "subscribed" /\ sessionOpen /\ cursor <= batchEnd

(* sendNextBlock                                                             *)
SendNextBlock ==
  /\ batchEnd > 0
  /\ \/ /\ ~CanSend
        /\ batchEnd' = 0
        /\ UNCHANGED <<cursor, sent, overflowSeen>>
     \/ /\ CanSend /\ ~LostUnconfirmed
        /\ overflowSeen' = Max({overflowSeen, overflowUpTo})
        /\ \/ ReadStatus(log, cursor) = "Ok" /\ Transmit(BlockOf(cursor), cursor + 1)
           \/ /\ ReadStatus(log, cursor) = "Corrupt"
              /\ Transmit(Loss(cursor, FindLossEnd(cursor)), FindLossEnd(cursor) + 1)
           \/ ReadStatus(log, cursor) = "NotFound" /\ SkipMissing(cursor)
  /\ UNCHANGED <<store, conns, session, counter, ackLocal, responses>>

(* The part of the dongle that needs no message from the other end.          *)
EngineNext ==
  \/ Write \/ PowerOn \/ PowerOnFormatted \/ Rot
  \/ OnConnected \/ OnDisconnected \/ OnSubscribed
  \/ HandleBatchRequest \/ HandleAppError \/ CheckOverflow \/ SendNextBlock
===============================================================================
