----------------------------- MODULE ServerMemory -----------------------------
(***************************************************************************)
(* The same repositories in memory (adapter/memory), over which the tests  *)
(* of the use cases and of the HTTP layer run.  A store is a record mem;   *)
(* Use is the use cases over it.  It differs from the tables where a test  *)
(* has no use for the detail: the counter c_S does not follow the clock,   *)
(* HEAD is only what the last handshake reported, an invalid tag is noted  *)
(* over any result, a boot is only its last t_ms (a test of the worker     *)
(* assembles bootRows itself), anchors, gaps and refused blocks are lists  *)
(* without keys, the worker's anchors come in no order, and an alert that  *)
(* was ever raised is not raised again.                                    *)
(***************************************************************************)
EXTENDS ServerTable

CONSTANTS MaxPending, Validity, RttMax, AllowNone, Clock32

New ==
  [dongles |-> <<>>, states |-> <<>>, lastCS |-> <<>>, challenges |-> <<>>, tms |-> <<>>, seen |-> {},
   raw |-> <<>>, rejected |-> <<>>, readings |-> <<>>, positions |-> <<>>, gaps |-> <<>>, alerts |-> <<>>,
   anchors |-> <<>>, sent |-> <<>>, bootRows |-> {}, rowAnchors |-> <<>>, groups |-> <<>>, dataBlocks |-> <<>>]

----------------------------------------------------------------------------
(* memory.go                                                               *)

AddDongle(mem, dev, d) ==
  [mem EXCEPT !.dongles = Put(@, dev, d), !.lastCS = Put(@, d.id, 0),
              !.states = Put(@, d.id, [contiguous |-> 0, maxSeen |-> 0, head |-> 0, conf |-> 0, gen |-> 0,
                                       lastBoot |-> 0, lastAck |-> <<>>])]
FindByDevID(mem, dev) == IF dev \in DOMAIN mem.dongles THEN <<mem.dongles[dev]>> ELSE <<>>

IssueRefused(mem, p) ==
  Cardinality({k \in DOMAIN mem.challenges :
    k[1] = p.dongle /\ mem.challenges[k].answered = Null /\ mem.challenges[k].expires > p.s1}) >= p.max
Issue(mem, p) ==
  LET cs == mem.lastCS[p.dongle] + 1
  IN  [mem EXCEPT !.lastCS[p.dongle] = cs,
         !.challenges = Put(@, <<p.dongle, cs>>, [nonce |-> p.nonce, s1 |-> p.s1, expires |-> p.expires,
                                                  answered |-> Null, result |-> "", final |-> <<>>])]
Issued(mem, p) ==
  [cs |-> mem.lastCS[p.dongle] + 1, contiguous |-> mem.states[p.dongle].contiguous,
   conf |-> mem.states[p.dongle].conf]
Find(mem, d, cs) == IF <<d, cs>> \in DOMAIN mem.challenges THEN <<mem.challenges[<<d, cs>>]>> ELSE <<>>
ConsumeRefused(mem, p) ==
  \/ Find(mem, p.dongle, p.cs) = <<>>
  \/ LET c == mem.challenges[<<p.dongle, p.cs>>]
     IN  c.nonce # p.nonce \/ c.answered # Null \/ c.expires <= p.s2
Consume(mem, p) ==
  IF ConsumeRefused(mem, p) THEN mem ELSE [mem EXCEPT !.challenges[<<p.dongle, p.cs>>].answered = p.s2]
Finalize(mem, d, cs, f) ==
  [mem EXCEPT !.challenges[<<d, cs>>] = [@ EXCEPT !.result = f.result, !.final = <<f>>]]
MarkInvalid(mem, d, cs, nonce) ==
  IF \E c \in ToSet(Find(mem, d, cs)) : c.nonce = nonce
  THEN [mem EXCEPT !.challenges[<<d, cs>>].result = "invalid_tag"] ELSE mem

Read(mem, d) == IF d \in DOMAIN mem.states THEN <<mem.states[d]>> ELSE <<>>
ReadSnapshot(mem, d) == mem.states[d]
LastAck(mem, d) == mem.states[d].lastAck
UpdateHandshake(mem, a) ==
  [mem EXCEPT !.states[a.dongle] =
     [@ EXCEPT !.contiguous = a.contiguous, !.maxSeen = Max({@, a.contiguous}), !.head = a.head,
               !.conf = a.conf, !.lastAck = a.lastAck]]
UpdateIngestion(mem, a) ==
  [mem EXCEPT !.states[a.dongle] =
     [@ EXCEPT !.contiguous = a.contiguous, !.maxSeen = Max({@, a.maxSeen, a.contiguous}),
               !.lastAck = a.lastAck, !.gen = a.gen, !.lastBoot = a.lastBoot]]

LastTMs(mem, d, ids, gMin, gMax) ==
  {[gen |-> k[2], boot |-> k[3], t |-> mem.tms[k]] :
     k \in {x \in DOMAIN mem.tms : x[1] = d /\ x[2] \in gMin..gMax /\ x[3] \in ids}}
EnsurePending(mem, d, gen, boot, now) == mem
UpdateBoots(mem, d, now, aggs) ==
  LET end(k) == {g.end : g \in {x \in aggs : <<d, x.gen, x.boot>> = k}}
      old(k) == IF k \in DOMAIN mem.tms THEN {mem.tms[k]} ELSE {}
  IN  [mem EXCEPT !.tms =
         [k \in DOMAIN @ \cup {<<d, g.gen, g.boot>> : g \in aggs} |-> Max({0} \cup end(k) \cup old(k))]]
AddAnchor(mem, a) == [mem EXCEPT !.anchors = Append(@, a)]
NotifyPending(mem, payload) == [mem EXCEPT !.sent = Append(@, payload)]

Unseen(mem, d, bs) == {b \in bs : <<d, b.seq>> \notin mem.seen}
StoreRaw(mem, d, now, bs) ==
  [mem EXCEPT !.seen = @ \cup {<<d, b.seq>> : b \in bs},
              !.raw = @ \o SortBy(Unseen(mem, d, bs), LAMBDA x, y : x.seq < y.seq)]
StoredCount(mem, d, bs) == Cardinality(Unseen(mem, d, bs))
AddRejected(mem, x) == [mem EXCEPT !.rejected = Append(@, x)]
StoreReadings(mem, rows) == [mem EXCEPT !.readings = @ \o rows]
StorePositions(mem, rows) == [mem EXCEPT !.positions = @ \o rows]
AddGap(mem, g) == [mem EXCEPT !.gaps = Append(@, g)]
AddAlert(mem, a) == [mem EXCEPT !.alerts = Append(@, a)]

Use == INSTANCE ServerUse

----------------------------------------------------------------------------
(* worker.go                                                               *)

Register(mem, dev, profile) ==
  AddDongle(mem, dev, [id |-> Max({0} \cup {mem.dongles[x].id : x \in DOMAIN mem.dongles}) + 1,
                       profile |-> profile, active |-> TRUE])
Expire(mem, now) ==
  [mem EXCEPT !.challenges = [k \in DOMAIN @ |->
     IF @[k].answered = Null /\ @[k].result = "" /\ @[k].expires < now
     THEN [@[k] EXCEPT !.result = "expired"] ELSE @[k]]]

TakePending(mem) ==
  First(SetToSortSeq({b \in mem.bootRows : b.pending}, LAMBDA b, c : b.since < c.since))
(* As the test assembled them, in no order.                                *)
ListAnchors(mem, k) == SelectSeq(mem.rowAnchors, LAMBDA a : SameKey(a, k))

AnchoredRows(mem, d) == {b \in mem.bootRows : b.dongle = d /\ b.src = "anchors" /\ b.first # Null}
neighbor(mem, d, seq, previous) ==
  LET found == IF previous
               THEN SortBy({b \in AnchoredRows(mem, d) : b.first < seq}, LAMBDA b, c : b.first > c.first)
               ELSE SortBy({b \in AnchoredRows(mem, d) : b.first > seq}, LAMBDA b, c : b.first < c.first)
  IN  IF found = <<>> \/ Null \in {found[1].a, found[1].slope, found[1].unc, found[1].firstT, found[1].lastT}
      THEN <<>>
      ELSE <<[a |-> found[1].a, slope |-> found[1].slope, unc |-> found[1].unc,
              firstT |-> found[1].firstT, lastT |-> found[1].lastT]>>
PreviousAnchored(mem, d, seq) == neighbor(mem, d, seq, TRUE)
NextAnchored(mem, d, seq) == neighbor(mem, d, seq, FALSE)

UpdateTime(mem, k, est) ==
  [mem EXCEPT !.bootRows =
     {IF SameKey(b, k)
      THEN [b EXCEPT !.a = est.a, !.slope = est.slope, !.unc = est.unc, !.src = est.src, !.pending = FALSE]
      ELSE b : b \in @}]

(* Mutant: the nearest anchored boots are not excluded.                    *)
MarkNeighborsEqual(mem, d, seq, now) ==
  LET lo == Max({0} \cup {b.first : b \in {x \in AnchoredRows(mem, d) : x.first < seq}})
  IN  [mem EXCEPT !.bootRows =
         {IF b.dongle = d /\ ~b.pending /\ b.first # Null /\ b.src # "anchors" /\ b.first >= lo
          THEN [b EXCEPT !.pending = TRUE, !.since = now] ELSE b : b \in @}]

MarkNeighbors(mem, d, seq, now) ==
  LET lo == Max({0} \cup {b.first : b \in {x \in AnchoredRows(mem, d) : x.first < seq}})
      hi == {b.first : b \in {x \in AnchoredRows(mem, d) : x.first > seq}}
      between(b) == b.first > lo /\ \A h \in hi : b.first < h
  IN  [mem EXCEPT !.bootRows =
         {IF b.dongle = d /\ ~b.pending /\ b.first # Null /\ b.src # "anchors" /\ between(b)
          THEN [b EXCEPT !.pending = TRUE, !.since = now] ELSE b : b \in @}]

CountPending(mem) == Cardinality({b \in mem.bootRows : b.pending})
KeyOf(k) == <<k.dongle, k.gen, k.boot>>
DeleteGroups(mem, k) == [mem EXCEPT !.groups = [x \in DOMAIN @ \ {KeyOf(k)} |-> @[x]]]
ListGroups(mem, k) == IF KeyOf(k) \in DOMAIN mem.groups THEN mem.groups[KeyOf(k)] ELSE <<>>
CopyGroups(mem, k, rows) == [mem EXCEPT !.groups = Put(@, KeyOf(k), ListGroups(mem, k) \o rows)]
(* However old.                                                            *)
AddAlertIfNew(mem, a, now) ==
  IF \E n \in DOMAIN mem.alerts : SameKey(mem.alerts[n], a) /\ mem.alerts[n].type = a.type
  THEN mem ELSE [mem EXCEPT !.alerts = Append(@, a)]

ListData(mem, d, from, to, limit) ==
  LET found == IF d \in DOMAIN mem.dataBlocks
               THEN SelectSeq(mem.dataBlocks[d], LAMBDA x : x.seq \in from..to) ELSE <<>>
  IN  SubSeq(found, 1, Min({Len(found), limit}))
Count(mem, d, from, to) == Len(SelectSeq(mem.readings, LAMBDA x : x.block \in from..to))
DeleteReadings(mem, d, from, to, min, max) ==
  [mem EXCEPT !.readings = SelectSeq(@, LAMBDA x : x.block \notin from..to)]
DeletePositions(mem, d, from, to, min, max) ==
  [mem EXCEPT !.positions = SelectSeq(@, LAMBDA x : x.block \notin from..to)]
LatestGeneration(mem, d, boot) ==
  LET gens == {b.gen : b \in {x \in mem.bootRows : x.dongle = d /\ x.boot = boot}}
  IN  IF gens = {} THEN <<>> ELSE <<Max(gens)>>
=============================================================================
