----------------------------- MODULE ServerTable -----------------------------
(***************************************************************************)
(* The queries of the handshake, the ingestion, the boot worker and the    *)
(* reprocess command, one operator each: what a SELECT returns and the     *)
(* table an INSERT, UPDATE or DELETE leaves.                               *)
(*                                                                         *)
(*   dongles     from dev_id to [id, profile, active]                      *)
(*   states      dongle_state, from dongle_id to row                       *)
(*   challenges  from <<dongle_id, c_S>> to row                            *)
(*   boots, anchors, groups, raw, gaps    sets of rows of boot,            *)
(*               time_anchor, anchor_group, raw_block and gap              *)
(*   rejected    from <<dongle_id, content_hash>> to row                   *)
(*   readings, positions, alerts          rows in the order they came      *)
(*                                                                         *)
(* NULL is Null, "" for a text.  Payloads, keys and ACKs are abstract      *)
(* values; a time is a number of seconds.                                  *)
(***************************************************************************)
EXTENDS TripTable

CONSTANTS CsMax,  \* 2^32 - 1, the largest c_S
          Day     \* 24 hours, in the unit of the clock

ASSUME ServerTableAssumption == CsMax \in Nat /\ Day \in Nat

Put(f, k, row) == (k :> row) @@ f

----------------------------------------------------------------------------
(* dongle.sql                                                              *)

NewState == [contiguous |-> 0, maxSeen |-> 0, head |-> 0, tail |-> Null, lastCs |-> 0, conf |-> 0,
             gen |-> 0, lastBoot |-> 0, lastAck |-> <<>>, ackAt |-> Null]

FindDongleByDevID(dongles, dev) == IF dev \in DOMAIN dongles THEN <<dongles[dev]>> ELSE <<>>
InsertDongle(dongles, dev, id, profile) ==
  Put(dongles, dev, [id |-> id, profile |-> profile, active |-> TRUE])
InsertDongleState(states, d) == Put(states, d, NewState)

----------------------------------------------------------------------------
(* challenge.sql                                                           *)

Unanswered(c) == c.answered = Null

(* The subselect of IssueChallenge: the challenges that take a place.      *)
PendingChallenges(challenges, d, s1) ==
  {k \in DOMAIN challenges : k[1] = d /\ Unanswered(challenges[k]) /\ challenges[k].expires > s1}

NextCs(state, now) == Max({state.lastCs + 1, now})

NewChallenge(p) ==
  [nonce |-> p.nonce, s1 |-> p.s1, expires |-> p.expires, answered |-> Null, boot |-> Null,
   t |-> Null, head |-> Null, tail |-> Null, gen |-> Null, result |-> "", tries |-> 0,
   ack |-> Null, loss |-> <<>>, jti |-> Null]

(* The UPDATE of the counter and the INSERT are one statement; it returns  *)
(* no row when the dongle has its full number of challenges.               *)
IssueAllowed(states, p, pending) ==
  p.dongle \in DOMAIN states /\ NextCs(states[p.dongle], p.now) <= CsMax /\ pending < p.max
IssueChallenge(states, challenges, p) ==
  LET cs == NextCs(states[p.dongle], p.now)
  IN  [states |-> [states EXCEPT ![p.dongle].lastCs = cs],
       challenges |-> Put(challenges, <<p.dongle, cs>>, NewChallenge(p)),
       row |-> [cs |-> cs, contiguous |-> states[p.dongle].contiguous, conf |-> states[p.dongle].conf]]

FindChallenge(challenges, d, cs) ==
  IF <<d, cs>> \in DOMAIN challenges THEN <<challenges[<<d, cs>>]>> ELSE <<>>

MarkInvalidTag(challenges, d, cs, nonce) ==
  IF \E c \in {challenges[k] : k \in DOMAIN challenges \cap {<<d, cs>>}} : c.nonce = nonce /\ Unanswered(c)
  THEN [challenges EXCEPT ![<<d, cs>>] =
          [@ EXCEPT !.tries = @ + 1, !.result = IF @ = "" THEN "invalid_tag" ELSE @]]
  ELSE challenges

Consumable(challenges, p) ==
  \E k \in DOMAIN challenges \cap {<<p.dongle, p.cs>>} :
    /\ challenges[k].nonce = p.nonce
    /\ Unanswered(challenges[k]) /\ challenges[k].expires > p.s2
ConsumeChallenge(challenges, p) ==
  IF Consumable(challenges, p)
  THEN [challenges EXCEPT ![<<p.dongle, p.cs>>] =
          [@ EXCEPT !.answered = p.s2, !.boot = p.boot, !.t = p.t, !.head = p.head, !.tail = p.tail]]
  ELSE challenges

FinalizeChallenge(challenges, d, cs, f) ==
  IF <<d, cs>> \notin DOMAIN challenges THEN challenges
  ELSE [challenges EXCEPT ![<<d, cs>>] =
          [@ EXCEPT !.result = f.result, !.ack = f.ack, !.loss = f.loss, !.jti = f.jti,
                    !.t = IF f.t = Null THEN @ ELSE f.t, !.gen = IF f.gen = Null THEN @ ELSE f.gen]]

ExpireChallenges(challenges, now) ==
  [k \in DOMAIN challenges |->
     LET c == challenges[k]
     IN  IF Unanswered(c) /\ c.result = "" /\ c.expires < now THEN [c EXCEPT !.result = "expired"] ELSE c]

----------------------------------------------------------------------------
(* state.sql                                                               *)

(* The advisory lock of the dongle, held by at most one transaction.       *)
LockDongle(locks, d) == locks \cup {d}

ReadState(states, d) == IF d \in DOMAIN states THEN <<states[d]>> ELSE <<>>
ReadStateSnapshot(states, d) == states[d]
ReadLastAck(states, d) == states[d].lastAck
ReadProgress(states, d) ==
  [contiguous |-> states[d].contiguous, head |-> states[d].head, ackAt |-> states[d].ackAt]

(* Mutant: the ACK is left to the first batch.                             *)
UpdateHandshakeStateAckKept(states, a) ==
  [states EXCEPT ![a.dongle] =
     [@ EXCEPT !.contiguous = a.contiguous, !.maxSeen = Max({@, a.contiguous}), !.head = a.head,
               !.tail = a.tail, !.conf = a.conf]]

UpdateHandshakeState(states, a) ==
  [states EXCEPT ![a.dongle] =
     [@ EXCEPT !.contiguous = a.contiguous, !.maxSeen = Max({@, a.contiguous}), !.head = a.head,
               !.tail = a.tail, !.conf = a.conf, !.lastAck = a.lastAck, !.ackAt = a.now]]

UpdateIngestionState(states, a) ==
  [states EXCEPT ![a.dongle] =
     [@ EXCEPT !.contiguous = a.contiguous, !.maxSeen = Max({@, a.maxSeen, a.contiguous}),
               !.head = Max({@, a.maxSeen, a.contiguous}), !.lastAck = a.lastAck, !.ackAt = a.now,
               !.gen = a.gen, !.lastBoot = a.lastBoot]]

----------------------------------------------------------------------------
(* context.sql                                                             *)

InsertGap(gaps, g) ==
  IF \E h \in gaps : h.dongle = g.dongle /\ h.from = g.from THEN gaps ELSE gaps \cup {g}

NewBoot(d, gen, boot, now) ==
  [dongle |-> d, gen |-> gen, boot |-> boot, first |-> Null, last |-> Null, firstT |-> Null,
   lastT |-> Null, maxOff |-> Null, a |-> Null, slope |-> Null, unc |-> Null, src |-> "",
   pending |-> TRUE, since |-> now]

BootOf(boots, d, gen, boot) == {b \in boots : b.dongle = d /\ b.gen = gen /\ b.boot = boot}

(* A row that is pending keeps its place in the queue.                     *)
(* Mutant: a boot that exists is left as it is.                            *)
EnsurePendingNewBoot(boots, d, gen, boot, now) ==
  IF BootOf(boots, d, gen, boot) = {} THEN boots \cup {NewBoot(d, gen, boot, now)} ELSE boots

EnsurePendingBoot(boots, d, gen, boot, now) ==
  IF BootOf(boots, d, gen, boot) = {} THEN boots \cup {NewBoot(d, gen, boot, now)}
  ELSE {IF b \in BootOf(boots, d, gen, boot) /\ ~b.pending
        THEN [b EXCEPT !.pending = TRUE, !.since = now] ELSE b : b \in boots}

(* ON CONFLICT DO NOTHING covers every unique key of time_anchor.          *)
InsertAnchor(anchors, a) ==
  IF \E x \in anchors : \/ x.nonce = a.nonce
                        \/ x.dongle = a.dongle /\ x.gen = a.gen /\ x.boot = a.boot /\ x.t = a.t
  THEN anchors ELSE anchors \cup {a}

InsertAlert(alerts, a) == Append(alerts, a)
NotifyPendingBoot(sent, payload) == Append(sent, payload)

----------------------------------------------------------------------------
(* blocks.sql and reprocess.sql                                            *)

ReadLastBootTMs(boots, d, ids, genA, genB) ==
  {[gen |-> b.gen, boot |-> b.boot, t |-> b.lastT] :
     b \in {x \in boots : x.dongle = d /\ x.boot \in ids /\ x.gen \in {genA, genB} /\ x.lastT # Null}}

StoredBefore(raw, x) == \E y \in raw : y.dongle = x.dongle /\ y.seq = x.seq
InsertRawBlocks(raw, rows) == raw \cup {x \in rows : ~StoredBefore(raw, x)}

(* A copy of a block refused before only counts.                           *)
RegisterRejected(rejected, x) ==
  LET k == <<x.dongle, x.hash>>
  IN  IF k \in DOMAIN rejected
      THEN [rejected EXCEPT ![k] = [@ EXCEPT !.occurrences = @ + 1, !.received = x.received]]
      ELSE Put(rejected, k, [reason |-> x.reason, seq |-> x.seq, occurrences |-> 1, received |-> x.received])

CopyReadings(readings, rows) == readings \o rows
CopyPositions(positions, rows) == positions \o rows

Least(x, y) == IF x = Null THEN y ELSE Min({x, y})
Greatest(x, y) == Max({x, y})

(* Mutant: the row is that of the last batch.                              *)
AggregatedOver(b, g, now) ==
  [b EXCEPT !.first = g.from, !.last = g.to, !.firstT = g.start, !.lastT = g.end, !.maxOff = g.maxOff,
            !.pending = @ \/ b.src # "anchors", !.since = IF b.pending THEN @ ELSE now]

(* One aggregate of the batch into its boot row.                           *)
Aggregated(b, g, now) ==
  [b EXCEPT !.first = Least(@, g.from), !.last = Greatest(@, g.to), !.firstT = Least(@, g.start),
            !.lastT = Greatest(@, g.end), !.maxOff = Least(@, g.maxOff),
            !.pending = @ \/ b.src # "anchors", !.since = IF b.pending THEN @ ELSE now]
UpdateIngestionBoots(boots, d, now, aggs) ==
  LET old(g) == BootOf(boots, d, g.gen, g.boot)
      row(g) == IF old(g) = {} THEN NewBoot(d, g.gen, g.boot, now) ELSE CHOOSE b \in old(g) : TRUE
  IN  (boots \ UNION {old(g) : g \in aggs}) \cup {Aggregated(row(g), g, now) : g \in aggs}

ListDataBlocks(raw, d, from, to, limit) ==
  LET found == SortBy({x \in raw : x.dongle = d /\ x.marker = "" /\ x.seq \in from..to},
                      LAMBDA x, y : x.seq < y.seq)
  IN  SubSeq(found, 1, Min({Len(found), limit}))

OfRange(x, d, from, to) == x.dongle = d /\ x.block \in from..to
CountReadings(readings, d, from, to) == Len(SelectSeq(readings, LAMBDA x : OfRange(x, d, from, to)))
Kept(rows, d, from, to, min, max) ==
  SelectSeq(rows, LAMBDA x : ~(OfRange(x, d, from, to) /\ x.received \in min..max))

DeleteBlockReadings(readings, d, from, to, min, max) == Kept(readings, d, from, to, min, max)
DeleteBlockPositions(positions, d, from, to, min, max) == Kept(positions, d, from, to, min, max)

----------------------------------------------------------------------------
(* worker.sql                                                              *)

(* FOR UPDATE SKIP LOCKED.                                                 *)
TakePendingBoot(boots, locked) ==
  First(SetToSortSeq({b \in boots : b.pending /\ b \notin locked}, LAMBDA b, c : b.since < c.since))

ListBootAnchors(anchors, k) ==
  SortBy({a \in anchors : a.dongle = k.dongle /\ a.gen = k.gen /\ a.boot = k.boot}, LAMBDA a, b : a.t < b.t)

Anchored(boots, d) == {b \in boots : b.dongle = d /\ b.src = "anchors" /\ b.first # Null}

PreviousAnchoredBoot(boots, d, seq) ==
  First(SortBy({b \in Anchored(boots, d) : b.first < seq}, LAMBDA b, c : b.first > c.first))
NextAnchoredBoot(boots, d, seq) ==
  First(SortBy({b \in Anchored(boots, d) : b.first > seq}, LAMBDA b, c : b.first < c.first))

SameKey(b, k) == b.dongle = k.dongle /\ b.gen = k.gen /\ b.boot = k.boot

(* Without an estimate the line is cleared.                                *)
UpdateBootTime(boots, k, est) ==
  {IF SameKey(b, k)
   THEN [b EXCEPT !.a = est.a, !.slope = est.slope, !.unc = est.unc, !.src = est.src, !.pending = FALSE]
   ELSE b : b \in boots}

DeleteAnchorGroups(groups, k) == {g \in groups : ~SameKey(g, k)}
CopyAnchorGroups(groups, k, rows) ==
  groups \cup {[dongle |-> k.dongle, gen |-> k.gen, boot |-> k.boot, ordinal |-> n, group |-> rows[n]] :
                 n \in DOMAIN rows}
ListBootAnchorGroups(groups, k) ==
  LET found == SortBy({g \in groups : SameKey(g, k)}, LAMBDA g, h : g.ordinal < h.ordinal)
  IN  [n \in DOMAIN found |-> found[n].group]

(* Between the previous anchored boot, or seq 0, and the next one.         *)
BetweenAnchored(boots, d, seq) ==
  {b \in boots :
     /\ b.dongle = d /\ ~b.pending /\ b.src # "anchors" /\ b.first # Null
     /\ \A x \in Anchored(boots, d) : x.first < seq => b.first > x.first
     /\ b.first > 0
     /\ \A x \in Anchored(boots, d) : x.first > seq => b.first < x.first}

MarkAnchorlessNeighbors(boots, d, seq, now) ==
  {IF b \in BetweenAnchored(boots, d, seq) THEN [b EXCEPT !.pending = TRUE, !.since = now] ELSE b : b \in boots}

InsertAlertIfNew(alerts, a, now) ==
  IF \E n \in DOMAIN alerts :
       /\ SameKey(alerts[n], a) /\ alerts[n].type = a.type /\ alerts[n].at > now - Day
  THEN alerts ELSE Append(alerts, a)

CountPendingBoots(boots) == Cardinality({b \in boots : b.pending})

----------------------------------------------------------------------------
(* verification.sql, which the simulator reads.                            *)

VerifyDongleState(dongles, states, dev) ==
  IF dev \in DOMAIN dongles /\ dongles[dev].id \in DOMAIN states THEN <<states[dongles[dev].id]>> ELSE <<>>
VerifyListGaps(gaps, d) == SortBy({g \in gaps : g.dongle = d}, LAMBDA g, h : g.from < h.from)
VerifyCountReadings(readings, d) == Len(SelectSeq(readings, LAMBDA x : x.dongle = d))
VerifyCountPositions(positions, d) == Len(SelectSeq(positions, LAMBDA x : x.dongle = d))
VerifyCountRejected(rejected, d) == Cardinality({k \in DOMAIN rejected : k[1] = d})
VerifyCountAnchors(anchors, d) == Cardinality({a \in anchors : a.dongle = d})
VerifyCountAlerts(alerts, d, type) == Len(SelectSeq(alerts, LAMBDA a : a.dongle = d /\ a.type = type))
VerifyListBoots(boots, d) ==
  SortBy({b \in boots : b.dongle = d},
         LAMBDA b, c : \/ b.gen < c.gen
                       \/ b.gen = c.gen /\ b.boot < c.boot)
=============================================================================
