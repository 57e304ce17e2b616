------------------------------ MODULE ServerRepo ------------------------------
(***************************************************************************)
(* The repositories of the server over PostgreSQL (adapter/postgres): one  *)
(* operator per method, on a record db of the tables of ServerTable.  A    *)
(* command returns the tables it leaves, a query its answer: <<>> stands   *)
(* for "not found" and for the domain error it becomes.  Use is the use    *)
(* cases over them.                                                        *)
(***************************************************************************)
EXTENDS ServerTable

CONSTANTS MaxPending, Validity, RttMax, AllowNone, Clock32

NewDatabase ==
  [dongles |-> <<>>, states |-> <<>>, challenges |-> <<>>, boots |-> {}, anchors |-> {}, groups |-> {},
   raw |-> {}, rejected |-> <<>>, readings |-> <<>>, positions |-> <<>>, gaps |-> {}, alerts |-> <<>>,
   sent |-> <<>>]

FindByDevID(db, dev) == FindDongleByDevID(db.dongles, dev)
Register(db, dev, id, profile) ==
  [db EXCEPT !.dongles = InsertDongle(@, dev, id, profile), !.states = InsertDongleState(@, id)]

IssueRefused(db, p) ==
  ~IssueAllowed(db.states, p, Cardinality(PendingChallenges(db.challenges, p.dongle, p.s1)))
Issue(db, p) ==
  LET r == IssueChallenge(db.states, db.challenges, p)
  IN  [db EXCEPT !.states = r.states, !.challenges = r.challenges]
Issued(db, p) == IssueChallenge(db.states, db.challenges, p).row
Find(db, d, cs) == FindChallenge(db.challenges, d, cs)
ConsumeRefused(db, p) == ~Consumable(db.challenges, p)
Consume(db, p) == [db EXCEPT !.challenges = ConsumeChallenge(@, p)]
Finalize(db, d, cs, f) == [db EXCEPT !.challenges = FinalizeChallenge(@, d, cs, f)]
MarkInvalid(db, d, cs, nonce) == [db EXCEPT !.challenges = MarkInvalidTag(@, d, cs, nonce)]
Expire(db, now) == [db EXCEPT !.challenges = ExpireChallenges(@, now)]

Read(db, d) == ReadState(db.states, d)
ReadSnapshot(db, d) == ReadStateSnapshot(db.states, d)
LastAck(db, d) == ReadLastAck(db.states, d)
Progress(db, d) == ReadProgress(db.states, d)
UpdateHandshake(db, a) == [db EXCEPT !.states = UpdateHandshakeState(@, a)]
UpdateIngestion(db, a) == [db EXCEPT !.states = UpdateIngestionState(@, a)]

(* A row without data has no reference.                                    *)
LastTMs(db, d, ids, gMin, gMax) == ReadLastBootTMs(db.boots, d, ids, gMin, gMax)
EnsurePending(db, d, gen, boot, now) == [db EXCEPT !.boots = EnsurePendingBoot(@, d, gen, boot, now)]
UpdateBoots(db, d, now, aggs) == [db EXCEPT !.boots = UpdateIngestionBoots(@, d, now, aggs)]
AddAnchor(db, a) == [db EXCEPT !.anchors = InsertAnchor(@, a)]
NotifyPending(db, payload) == [db EXCEPT !.sent = NotifyPendingBoot(@, payload)]

RawRow(d, now, b) ==
  [dongle |-> d, seq |-> b.seq, boot |-> b.boot, gen |-> b.gen, t0 |-> b.t0, marker |-> b.marker,
   payload |-> b.payload, received |-> now]
StoreRaw(db, d, now, bs) == [db EXCEPT !.raw = InsertRawBlocks(@, {RawRow(d, now, b) : b \in bs})]
StoredCount(db, d, bs) == Cardinality({b \in bs : ~StoredBefore(db.raw, [dongle |-> d, seq |-> b.seq])})
AddRejected(db, x) == [db EXCEPT !.rejected = RegisterRejected(@, x)]
StoreReadings(db, rows) == [db EXCEPT !.readings = CopyReadings(@, rows)]
StorePositions(db, rows) == [db EXCEPT !.positions = CopyPositions(@, rows)]

AddGap(db, g) == [db EXCEPT !.gaps = InsertGap(@, g)]
AddAlert(db, a) == [db EXCEPT !.alerts = InsertAlert(@, a)]

Use == INSTANCE ServerUse

----------------------------------------------------------------------------
(* The boot worker.                                                        *)

TakePending(db) == TakePendingBoot(db.boots, {})
ListAnchors(db, k) == ListBootAnchors(db.anchors, k)

(* A neighbour that lacks its line or its range is as good as none.        *)
neighborFrom(found) ==
  IF found = <<>> THEN <<>>
  ELSE LET x == found[1]
       IN  IF Null \in {x.a, x.slope, x.unc, x.firstT, x.lastT} THEN <<>>
           ELSE <<[a |-> x.a, slope |-> x.slope, unc |-> x.unc, firstT |-> x.firstT, lastT |-> x.lastT]>>
PreviousAnchored(db, d, seq) == neighborFrom(PreviousAnchoredBoot(db.boots, d, seq))
NextAnchored(db, d, seq) == neighborFrom(NextAnchoredBoot(db.boots, d, seq))

NoEstimate == [a |-> Null, slope |-> Null, unc |-> Null, src |-> ""]
UpdateTime(db, k, est) == [db EXCEPT !.boots = UpdateBootTime(@, k, est)]
MarkNeighbors(db, d, seq, now) == [db EXCEPT !.boots = MarkAnchorlessNeighbors(@, d, seq, now)]
CountPending(db) == CountPendingBoots(db.boots)
Latest(db, d, boot) == Generations(db.boots, d, boot)
DeleteGroups(db, k) == [db EXCEPT !.groups = DeleteAnchorGroups(@, k)]
CopyGroups(db, k, rows) == [db EXCEPT !.groups = CopyAnchorGroups(@, k, rows)]
ListGroups(db, k) == ListBootAnchorGroups(db.groups, k)
AddAlertIfNew(db, a, now) == [db EXCEPT !.alerts = InsertAlertIfNew(@, [a EXCEPT !.at = now], now)]

(* The reprocess command.                                                  *)
ListData(db, d, from, to, limit) == ListDataBlocks(db.raw, d, from, to, limit)
Count(db, d, from, to) == CountReadings(db.readings, d, from, to)
DeleteReadings(db, d, from, to, min, max) ==
  [db EXCEPT !.readings = DeleteBlockReadings(@, d, from, to, min, max)]
DeletePositions(db, d, from, to, min, max) ==
  [db EXCEPT !.positions = DeleteBlockPositions(@, d, from, to, min, max)]

----------------------------------------------------------------------------
(* What the simulator reads back (Inspector).                              *)
InspectedGaps(db, d) ==
  LET found == VerifyListGaps(db.gaps, d)
  IN  [n \in DOMAIN found |-> [from |-> found[n].from, to |-> found[n].to, cause |-> found[n].cause]]
InspectedBoots(db, d) ==
  LET found == VerifyListBoots(db.boots, d)
  IN  [n \in DOMAIN found |-> [gen |-> found[n].gen, boot |-> found[n].boot, lastT |-> found[n].lastT]]
Inspect(db, dev) ==
  LET d == db.dongles[dev].id
      s == VerifyDongleState(db.dongles, db.states, dev)[1]
  IN  [state |-> [contiguous |-> s.contiguous, conf |-> s.conf, gen |-> s.gen, lastBoot |-> s.lastBoot],
       gaps |-> InspectedGaps(db, d), boots |-> InspectedBoots(db, d),
       readings |-> VerifyCountReadings(db.readings, d), positions |-> VerifyCountPositions(db.positions, d),
       rejected |-> VerifyCountRejected(db.rejected, d), anchors |-> VerifyCountAnchors(db.anchors, d),
       alerts |-> [type \in {"clock", "pid", "generation"} |-> VerifyCountAlerts(db.alerts, d, type)]]
=============================================================================
