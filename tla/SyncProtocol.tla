----------------------------- MODULE SyncProtocol -----------------------------
(***************************************************************************)
(* The transfer end to end: the dongle's SyncEngine and the server, with   *)
(* an app between them that is not trusted with anything.  Challenges,     *)
(* responses, blocks and ACKs are authenticated, so the app cannot change  *)
(* one; it can hold each back, repeat it, deliver it late, after newer     *)
(* ones, on another connection or after a reboot of the dongle.            *)
(***************************************************************************)
EXTENDS SyncEngine, Ingestion

vars == <<engineVars, serverVars>>

(* Every variable of the dongle and of the server has its type.              *)
TypeOK == EngineTypeOK /\ ServerTypeOK

Init == EngineInit /\ ServerInit

DeliverChallenge == \E c \in challenges : HandleChallenge(c) /\ UNCHANGED serverVars
DeliverAck == \E a \in acks : HandleAck(a) /\ UNCHANGED serverVars
DeliverResponse == \E r \in responses : RespondChallenge(r) /\ UNCHANGED engineVars
DeliverBlocks == \E bs \in SeqOf(sent, MaxBatch) \ {<<>>} : ReceiveBatch(bs) /\ UNCHANGED engineVars

Next ==
  \/ EngineNext /\ UNCHANGED serverVars
  \/ IssueChallenge /\ UNCHANGED engineVars
  \/ DeliverChallenge \/ DeliverAck \/ DeliverResponse \/ DeliverBlocks

Spec == Init /\ [][Next]_vars

(* The Sync task drains its queue for ever, and a link that carries anything *)
(* carries the next block in the end; the app goes on asking for batches,    *)
(* posting what it has and returning ACKs, and asks for a resend when the    *)
(* server cannot use what it was sent.                                       *)
SendSucceeds == SendNextBlock /\ cursor' > cursor /\ UNCHANGED serverVars
RequestBatch == HandleBatchRequest /\ UNCHANGED serverVars
RequestResend == HandleAppError /\ UNCHANGED serverVars
Tick == CheckOverflow /\ UNCHANGED serverVars

FairSpec ==
  /\ Spec
  /\ WF_vars(RequestBatch) /\ SF_vars(SendSucceeds) /\ WF_vars(Tick)
  /\ WF_vars(DeliverBlocks) /\ WF_vars(DeliverAck) /\ WF_vars(RequestResend)

-------------------------------------------------------------------------------
(* Properties                                                                *)

(* One response per challenge, for ever: saved before the response exists    *)
(* (SyncEngine.cpp:199), the counter of a challenge that is delivered again, *)
(* on another connection or after a reboot, is refused.                      *)
OneResponsePerChallenge == \A r, s \in responses : r.cs = s.cs => r = s

(* A session is open only when the server accepted a response that this boot *)
(* sent on this connection: no ACK of an earlier one opens it.               *)
SessionWasAccepted ==
  sessionOpen => \E r \in responses : r.conn = conns /\ r.boot = boot /\ r.cs <= cConf

(* With the link up, either the session is open, and then the server         *)
(* accepted it, or the notice that makes the app start a handshake is        *)
(* repeated: no state waits for ever.                                        *)
SessionOrRetry ==
  /\ SessionWasAccepted
  /\ link # "down" => (sessionOpen <=> ~noHsConn)

(* The cursor never passes a record that was not sent: over disconnections,  *)
(* resends, overflows and jumps to a BOOT only seqs that never held a record *)
(* are skipped.                                                              *)
NothingSkipped ==
  \A q \in written : q \in ackLocal + 1..cursor - 1 =>
    \E m \in sent : m.from <= q /\ q <= Max({m.seq, m.to})

(* A seq leaves the flash only when the server decided it, when the discard  *)
(* of overflowUpTo covers it, or in a boot on damaged flash.                 *)
FreedOnlyConfirmed ==
  [][\A q \in written : Holds(log, q) =>
       Holds(log', q) \/ q <= contiguousSeq \/ q <= overflowUpTo' \/ boot' # boot]_vars

(* A range declared lost holds no record that the dongle can still read.     *)
LossIsReal ==
  \A g \in gaps : \A q \in g.from..g.to : ReadStatus(log, q) # "Ok"

(* The server registers as the gap of a boot only seqs that never existed.   *)
BootGapNeverWritten ==
  \A g \in gaps : g.cause = "BOOT" => g.from..g.to \cap written = {}

ReadableSeqs == {q \in written : ReadStatus(log, q) = "Ok"}

ReadableBoots ==
  {r \in {RecordAt(log, q) : q \in ReadableSeqs} : r.kind = "BOOT"}

(* The gap that a readable BOOT declares is left to that BOOT: the TAIL of a  *)
(* response never makes the server count it as discarded.                    *)
BootGapLeftToBoot ==
  \A g \in gaps : g.cause = "OVERFLOW" =>
    \A r \in ReadableBoots : g.from..g.to \cap r.from..r.to = {}

(* What the server registers as a gap of a boot or of an overflow was never  *)
(* written or is gone: no seq is declared twice or for the wrong reason.     *)
GapsAreTrue == BootGapNeverWritten /\ BootGapLeftToBoot

(* The INSERT of an accepted block never meets a stored seq, which would     *)
(* roll every later batch back (receive_batch.go:449-452).                   *)
StoreNeverConflicts == \A b \in sent : ~Conflict(Apply(<<b>>).accepted)

(* The ACK that frees the dongle's flash covers decided seqs only, each      *)
(* decided by one row, and the next batch can still be stored.               *)
EachSeqDecidedOnce == AckIsDecided /\ StoreNeverConflicts

(* While the link and the session stay up, every record that was written is  *)
(* confirmed in the end, whatever was discarded or resent meanwhile: with a  *)
(* bounded number of records, the log comes to hold confirmed ones only.     *)
EverythingConfirmed ==
  <>[](link = "subscribed" /\ sessionOpen) => <>[](\A q \in written : q <= ackLocal)

Outcome == [q \in 1..contiguousSeq |-> IF q \in StoredSeqs THEN "delivered" ELSE "given up"]
D == INSTANCE Delivery WITH readable <- ReadableSeqs, fate <- Outcome

(* Handshakes, batches and discards together implement module Delivery: the  *)
(* server decides the seqs in order and for ever, stores nothing that was    *)
(* not written and gives up nothing that the dongle can still read.          *)
PromiseKept == D!Spec

(* SyncEngine.cpp:276: the notice asks for a new handshake until the time of *)
(* this boot is anchored.                                                    *)
AnchoredOrAsking == noHsBoot \/ boot \in anchors

(* 05-firmware-handshake-e-cursor.md: after a discard of unconfirmed blocks  *)
(* the session opens again only with a response that told the new TAIL.      *)
SessionKnowsTail ==
  sessionOpen /\ overflowSeen > ackLocal =>
    \E r \in responses : r.cs = respondedCs /\ r.tail > overflowSeen
===============================================================================
