------------------------------ MODULE ServerUse ------------------------------
(***************************************************************************)
(* The handshake and the ingestion of the server (usecase/handshake,       *)
(* usecase/ingestion and their domain rules) over any repository: the      *)
(* methods of the ports are constant operators on a store m.  A handler    *)
(* that reads before its transaction is two operators, what it reads and   *)
(* the transaction; a result is [m, out].                                  *)
(*                                                                         *)
(* A block is [seq, boot, t32, dt, kind, from, to, valid]: kind is "data", *)
(* "BOOT", "LOSS", "odd_pid" (an unknown PID) or "broken".                 *)
(***************************************************************************)
EXTENDS Integers, SequencesExt, FiniteSetsExt

CONSTANTS
  FindByDevID(_, _), IssueRefused(_, _), Issue(_, _), Issued(_, _), Find(_, _, _),
  ConsumeRefused(_, _), Consume(_, _), Finalize(_, _, _, _), MarkInvalid(_, _, _, _),
  Read(_, _), ReadSnapshot(_, _), LastAck(_, _), UpdateHandshake(_, _), UpdateIngestion(_, _),
  LastTMs(_, _, _, _, _), EnsurePending(_, _, _, _, _), UpdateBoots(_, _, _, _), AddAnchor(_, _),
  NotifyPending(_, _), StoreRaw(_, _, _, _), StoredCount(_, _, _), AddRejected(_, _),
  StoreReadings(_, _), StorePositions(_, _), AddGap(_, _), AddAlert(_, _),
  Null,
  MaxPending,  \* challenges a dongle may have open
  Validity,    \* how long a challenge may be answered
  RttMax,      \* the longest round trip an anchor is taken from
  AllowNone,   \* the "none" profile is accepted
  Clock32      \* 2^32: where t_ms wraps

----------------------------------------------------------------------------
(* domain/dongle, domain/handshake and domain/timeline.                    *)

(* An answer without an ACK.                                               *)
Said(what) == [is |-> what]
RolledBack == {"invalid_challenge", "stale_c_s", "invariant"}
InTransaction(m, run) == IF run.out.is \in RolledBack THEN [run EXCEPT !.m = m] ELSE run
AckTlv(seq, conf, failed) == [is |-> "ack", seq |-> seq, conf |-> conf, failed |-> failed]

Refused(d) == IF ~d.active THEN "inactive" ELSE IF d.profile = "none" /\ ~AllowNone THEN "profile" ELSE ""

Access(m, dev) ==
  LET found == FindByDevID(m, dev)
  IN  IF found = <<>> THEN "unknown" ELSE Refused(found[1])

ApplyTail(s, tail, head) ==
  IF tail > head + 1 \/ head < s.head THEN <<>>
  ELSE <<[ack |-> Max({s.contiguous, tail - 1}),
          loss |-> IF tail > s.contiguous + 1 THEN <<s.contiguous + 1, tail - 1>> ELSE <<>>]>>

WithAnchor(s1, s2) == s2 - s1 \in 0..RttMax
ClockAlert(s1, s2) == s2 < s1

(* Mutant: the boot that was last ingested is taken for the next cycle.    *)
HandshakeGenerationOfNew(s, boot) == IF boot = 0 \/ boot > s.lastBoot THEN s.gen ELSE s.gen + 1

HandshakeGeneration(s, boot) == IF boot = 0 \/ boot >= s.lastBoot THEN s.gen ELSE s.gen + 1

(* Mutant: the upper half of the reference is kept.                        *)
UnwrapInCycle(t32, ref) == IF ref = Null THEN t32 ELSE ref - (ref % Clock32) + t32

Distance(x, y) == IF x > y THEN x - y ELSE y - x
Unwrap(t32, ref) ==
  IF ref = Null THEN t32
  ELSE LET base == ref - (ref % Clock32)
           best == CHOOSE c \in {base - Clock32 + t32, base + t32, base + Clock32 + t32} :
                     /\ \A o \in {base - Clock32 + t32, base + t32, base + Clock32 + t32} :
                          Distance(c, ref) <= Distance(o, ref)
                     /\ Distance(base + t32, ref) = Distance(c, ref) => c = base + t32
       IN  IF best < 0 THEN t32 ELSE best

----------------------------------------------------------------------------
(* IssueChallenge.                                                         *)

Issuance(m, dev, s1, now, nonce) ==
  [dongle |-> FindByDevID(m, dev)[1].id, s1 |-> s1, now |-> now, expires |-> s1 + Validity,
   nonce |-> nonce, max |-> MaxPending]
RunIssue(m, dev, s1, now, nonce) ==
  LET p == Issuance(m, dev, s1, now, nonce)
  IN  IF Access(m, dev) # "" THEN [m |-> m, out |-> Said(Access(m, dev))]
      ELSE IF IssueRefused(m, p) THEN [m |-> m, out |-> Said("pending_challenges")]
      ELSE [m |-> Issue(m, p), out |-> Said("issued")]

----------------------------------------------------------------------------
(* RespondChallenge: a response is [cs, nonce, boot, t32, head, tail], at s2. *)

(* What the handler reads before the transaction.                          *)
Precheck(m, dev, r, s2) ==
  LET d == FindByDevID(m, dev)[1].id
      found == Find(m, d, r.cs)
  IN  CASE Access(m, dev) # "" -> Access(m, dev)
        [] found = <<>> -> "invalid_challenge"
        [] \/ found[1].nonce # r.nonce \/ found[1].answered # Null
           \/ found[1].expires <= s2 -> "invalid_challenge"
        [] r.cs <= Read(m, d)[1].conf -> "stale_c_s"
        [] OTHER -> ""

(* A response whose tag does not verify.                                   *)
RunInvalidTag(m, dev, r) ==
  [m |-> MarkInvalid(m, FindByDevID(m, dev)[1].id, r.cs, r.nonce), out |-> Said("invalid_tag")]

Outcome(result) == [result |-> result, ack |-> Null, loss |-> <<>>, jti |-> Null, t |-> Null, gen |-> Null]

(* The transaction.  now is the clock inside it, jti the token's.          *)
RunRespond(m, dev, r, s2, now, jti) ==
  LET d == FindByDevID(m, dev)[1].id
      p == [dongle |-> d, cs |-> r.cs, nonce |-> r.nonce, s2 |-> s2, boot |-> r.boot, t |-> r.t32,
            head |-> r.head, tail |-> r.tail]
      s1 == Find(m, d, r.cs)[1].s1
      consumed == Consume(m, p)
      s == Read(consumed, d)[1]
      tailed == ApplyTail(s, r.tail, r.head)
      loss == tailed[1].loss
      ack == tailed[1].ack
      anchored == WithAnchor(s1, s2)
      gen == HandshakeGeneration(s, r.boot)
      declared == IF loss = <<>> THEN consumed
                  ELSE AddGap(consumed, [dongle |-> d, from |-> loss[1], to |-> loss[2], cause |-> "OVERFLOW",
                                         at |-> s2, cs |-> r.cs, block |-> Null])
      alerted == IF ~ClockAlert(s1, s2) THEN declared
                 ELSE AddAlert(declared, [dongle |-> d, gen |-> gen, boot |-> r.boot, type |-> "clock", at |-> now])
      refs == {x \in LastTMs(alerted, d, {r.boot}, gen, gen) : x.gen = gen /\ x.boot = r.boot}
      t == Unwrap(r.t32, IF refs = {} THEN Null ELSE (CHOOSE x \in refs : TRUE).t)
      pending == EnsurePending(alerted, d, gen, r.boot, now)
      timed == IF ~anchored THEN pending
               ELSE AddAnchor(pending, [dongle |-> d, gen |-> gen, boot |-> r.boot, t |-> t,
                                        nonce |-> r.nonce, s1 |-> s1, s2 |-> s2])
      tlv == AckTlv(ack, r.cs, ~anchored)
      stated == UpdateHandshake(timed, [dongle |-> d, contiguous |-> ack, head |-> r.head, tail |-> r.tail,
                                        conf |-> r.cs, lastAck |-> <<tlv>>, now |-> now])
      final == Finalize(stated, d, r.cs,
                 [result |-> IF anchored THEN "accepted" ELSE "accepted_no_anchor", ack |-> ack,
                  loss |-> loss, jti |-> jti, t |-> t, gen |-> gen])
  IN  InTransaction(m,
        IF ConsumeRefused(m, p) THEN [m |-> m, out |-> Said("invalid_challenge")]
        ELSE IF r.cs <= s.conf THEN [m |-> consumed, out |-> Said("stale_c_s")]
        ELSE IF tailed = <<>>
        THEN [m |-> Finalize(consumed, d, r.cs, Outcome("inconsistent")), out |-> Said("inconsistent")]
        ELSE [m |-> NotifyPending(final, <<d, gen, r.boot>>), out |-> tlv])

----------------------------------------------------------------------------
(* The rules of a batch (domain/ingestion).                                *)

assignGeneration(g, u, boot) ==
  IF boot = 0 THEN [gen |-> g, u |-> u]
  ELSE IF boot < u THEN [gen |-> g + 1, u |-> boot] ELSE [gen |-> g, u |-> boot]

ActionOf(reason) ==
  IF reason = "" THEN "nenhuma"
  ELSE IF reason \in {"unknown_pid", "malformed_record"} THEN "aguardar" ELSE "reler"

Stop(r, b, reason) ==
  [r EXCEPT !.reason = reason,
            !.rejected = IF reason \in {"invalid_tag", "jump"} THEN @ ELSE Append(@, [b |-> b, reason |-> reason])]
Accept(r, b, marker, next, gaps, a) ==
  [r EXCEPT !.accepted = Append(@, [b |-> b, marker |-> marker, gen |-> a.gen]), !.exp = next,
            !.gaps = @ \o gaps, !.g = a.gen, !.u = a.u]
GapOf(from, to, b, cause) ==
  IF from > to THEN <<>> ELSE <<[from |-> from, to |-> to, block |-> b.seq, cause |-> cause]>>

ApplyBlock(r, b) ==
  LET given == assignGeneration(r.g, r.u, b.boot)
  IN  IF r.reason # "" THEN r
      ELSE IF b.seq < r.exp THEN [r EXCEPT !.duplicates = @ + 1]
      ELSE IF ~b.valid THEN Stop(r, b, "invalid_tag")
      ELSE CASE b.kind = "broken" -> Stop(r, b, "malformed_record")
             [] b.kind = "BOOT" ->
                  IF b.to # b.seq - 1 \/ b.from > r.exp THEN Stop(r, b, "invalid_marker")
                  ELSE Accept(r, b, "BOOT", b.seq + 1, GapOf(r.exp, b.to, b, "BOOT"), given)
             [] b.kind = "LOSS" ->
                  IF b.from # r.exp \/ b.seq \notin b.from..b.to THEN Stop(r, b, "invalid_marker")
                  ELSE Accept(r, b, "LOSS", b.to + 1, GapOf(b.from, b.to, b, "LOSS"), [gen |-> r.g, u |-> r.u])
             [] OTHER ->
                  IF b.seq # r.exp THEN Stop(r, b, "jump")
                  ELSE IF b.kind = "odd_pid" THEN Stop(r, b, "unknown_pid")
                  ELSE Accept(r, b, "", b.seq + 1, <<>>, given)

(* verified: the seqs whose tags were checked.                             *)
ApplyFrom(exp, bs, s, verified) ==
  LET refused == SelectSeq(bs, LAMBDA b : b.seq \in verified /\ ~b.valid /\ b.seq > s.contiguous)
      start == [accepted |-> <<>>, gaps |-> <<>>, reason |-> "", exp |-> exp, g |-> s.gen,
                u |-> s.lastBoot, duplicates |-> 0,
                rejected |-> [n \in DOMAIN refused |-> [b |-> refused[n], reason |-> "invalid_tag"]]]
  IN  FoldLeft(ApplyBlock, start, bs)

(* Mutant: from where the snapshot of the checks stood.                    *)
ApplyFromSnapshot(bs, s, verified) ==
  ApplyFrom(IF verified = {} THEN s.contiguous + 1 ELSE Min(verified), bs, s, verified)

Apply(bs, s, verified) == ApplyFrom(s.contiguous + 1, bs, s, verified)
MaxSeen(bs, verified) == Max({0} \cup {b.seq : b \in {x \in ToSet(bs) : x.seq \in verified /\ x.valid}})

----------------------------------------------------------------------------
(* ReceiveBatch.                                                           *)

(* The blocks whose tags are checked: those above the snapshot.            *)
Verified(m, dev, bs) ==
  LET s == ReadSnapshot(m, FindByDevID(m, dev)[1].id) IN {b.seq : b \in {x \in ToSet(bs) : x.seq > s.contiguous}}

(* A block that was not checked is not valid.                              *)
Checked(bs, verified) == [n \in DOMAIN bs |-> [bs[n] EXCEPT !.valid = @ /\ bs[n].seq \in verified]]

(* The time of a data block follows the last one of its boot, in the batch *)
(* or before it.                                                           *)
RefAfter(refs, gen, boot, t) ==
  {x \in refs : x.gen # gen \/ x.boot # boot} \cup {[gen |-> gen, boot |-> boot, t |-> t]}
RefOf(refs, gen, boot) ==
  LET own == {x \in refs : x.gen = gen /\ x.boot = boot} IN IF own = {} THEN Null ELSE (CHOOSE x \in own : TRUE).t
TimedBlock(acc, a) ==
  LET t0 == Unwrap(a.b.t32, RefOf(acc.refs, a.gen, a.b.boot))
      row(t) == [seq |-> a.b.seq, boot |-> a.b.boot, gen |-> a.gen, t0 |-> t, marker |-> a.marker,
                 payload |-> a.b.dt]
  IN  IF a.marker # "" THEN [acc EXCEPT !.rows = Append(@, row(a.b.t32))]
      ELSE [refs |-> RefAfter(acc.refs, a.gen, a.b.boot, t0 + a.b.dt), rows |-> Append(acc.rows, row(t0))]

Aggregate(rows, now) ==
  LET data == {x \in rows : x.marker = ""}
      of(k) == {x \in data : <<x.gen, x.boot>> = k}
  IN  {[gen |-> k[1], boot |-> k[2],
        from |-> Min({x.seq : x \in of(k)}), to |-> Max({x.seq : x \in of(k)}),
        start |-> Min({x.t0 : x \in of(k)}), end |-> Max({x.t0 + x.payload : x \in of(k)}),
        maxOff |-> Min({now - (x.t0 + x.payload) : x \in of(k)})] : k \in {<<x.gen, x.boot>> : x \in data}}

(* A block that was there already.                                         *)
Conflicts(m, d, r) ==
  LET bs == {[seq |-> a.b.seq] : a \in ToSet(r.accepted)} IN StoredCount(m, d, bs) # Len(r.accepted)

RowsOf(m, d, s, r) ==
  LET ids == {a.b.boot : a \in {x \in ToSet(r.accepted) : x.marker = ""}}
  IN  FoldLeft(TimedBlock, [refs |-> LastTMs(m, d, ids, s.gen, s.gen + 1), rows |-> <<>>], r.accepted).rows
StoreRows(m, d, rows, now) ==
  LET data == SelectSeq(rows, LAMBDA x : x.marker = "")
      values == [n \in DOMAIN data |-> [dongle |-> d, block |-> data[n].seq, t |-> data[n].t0, received |-> now]]
  IN  StorePositions(StoreReadings(StoreRaw(m, d, now, ToSet(rows)), values), values)
StoreGap(m, d, now, g) ==
  AddGap(m, [dongle |-> d, from |-> g.from, to |-> g.to, cause |-> g.cause, at |-> now, cs |-> Null, block |-> g.block])
Notify(m, d, now, aggs) == IF aggs = {} THEN m ELSE NotifyPending(UpdateBoots(m, d, now, aggs), <<d>>)
Store(m, d, s, r, now) ==
  LET rows == RowsOf(m, d, s, r)
      gapped == FoldLeft(LAMBDA acc, g : StoreGap(acc, d, now, g), StoreRows(m, d, rows, now), r.gaps)
      told == IF r.g <= s.gen THEN gapped
              ELSE AddAlert(gapped, [dongle |-> d, gen |-> Null, boot |-> Null, type |-> "generation", at |-> now])
  IN  Notify(told, d, now, Aggregate(ToSet(rows), now))

Refuse(m, d, now, rej) ==
  LET noted == AddRejected(m, [dongle |-> d, hash |-> rej.b, reason |-> rej.reason, seq |-> rej.b.seq, received |-> now])
  IN  IF rej.reason # "unknown_pid" THEN noted
      ELSE AddAlert(noted, [dongle |-> d, gen |-> Null, boot |-> Null, type |-> "pid", at |-> now])

(* The transaction.                                                        *)
RunReceive(m, dev, sent, verified, now) ==
  LET d == FindByDevID(m, dev)[1].id
      bs == Checked(sent, verified)
      s == Read(m, d)[1]
      r == Apply(bs, s, verified)
      seen == MaxSeen(bs, verified)
      refused == FoldLeft(LAMBDA acc, x : Refuse(acc, d, now, x), m, r.rejected)
      stored == IF r.accepted = <<>> THEN refused ELSE Store(refused, d, s, r, now)
      tlv == AckTlv(r.exp - 1, s.conf, FALSE)
      changed == \/ r.exp - 1 # s.contiguous \/ seen > s.maxSeen \/ r.g # s.gen
                 \/ LastAck(m, d) # <<tlv>>
      out == [is |-> "batch", ack |-> tlv, action |-> ActionOf(r.reason), accepted |-> Len(r.accepted),
              duplicates |-> r.duplicates, interrupted |-> r.exp - 1 < Last(bs).seq,
              noProgress |-> r.exp - 1 = s.contiguous /\ r.reason = "invalid_tag"]
      final == IF ~changed THEN stored
               ELSE UpdateIngestion(stored, [dongle |-> d, contiguous |-> r.exp - 1, maxSeen |-> seen,
                      lastAck |-> <<tlv>>, now |-> now, gen |-> r.g, lastBoot |-> r.u])
  IN  InTransaction(m, [m |-> final, out |-> IF Conflicts(m, d, r) THEN Said("invariant") ELSE out])

(* GetConfirmation.                                                        *)
RunConfirmation(m, dev) ==
  IF Access(m, dev) # "" THEN Said(Access(m, dev))
  ELSE LET ack == LastAck(m, FindByDevID(m, dev)[1].id) IN IF ack = <<>> THEN Said("no_confirmation") ELSE ack[1]
=============================================================================
