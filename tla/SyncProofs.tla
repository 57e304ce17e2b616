------------------------------ MODULE SyncProofs ------------------------------
(***************************************************************************)
(* Proofs about SyncProtocol, for every value of its constants: what the   *)
(* server has decided is, after every batch and every handshake, exactly   *)
(* the seqs up to contiguousSeq, each by one row; the types of both ends;  *)
(* one response per challenge, and the session that opens only with an     *)
(* accepted response.  Then what the transfer promises: what the dongle    *)
(* declares lost cannot be read again, the two ends together implement     *)
(* module Delivery and, on a medium without faults, no record is skipped   *)
(* and no gap is declared for the wrong reason.                            *)
(***************************************************************************)
EXTENDS SyncProtocol, LogStoreProofs

-------------------------------------------------------------------------------
(* What the server has decided                                               *)

SeqsOf(raw) == {b.seq : b \in {x \in raw : x.kind # "LOSS"}}
RangesOf(gs) == UNION {g.from..g.to : g \in gs}

Apart(gs) == \A g, h \in gs : g # h => g.to < h.from \/ h.to < g.from
OneRow(raw) == \A a, b \in raw : a # b => a.seq # b.seq

(* The blocks and the gaps decide the seqs lo..hi, each once.                *)
Decides(lo, hi, raw, gs) ==
  /\ raw \in SUBSET Block /\ gs \in SUBSET Gap
  /\ \A b \in raw : lo <= b.seq /\ b.seq <= hi
  /\ \A g \in gs : lo <= g.from /\ g.from <= g.to /\ g.to <= hi
  /\ SeqsOf(raw) \cup RangesOf(gs) = lo..hi
  /\ SeqsOf(raw) \cap RangesOf(gs) = {}
  /\ Apart(gs) /\ OneRow(raw)

LEMMA DecidesNothing ==
  ASSUME NEW lo \in Nat, NEW hi \in Nat, hi < lo
  PROVE  Decides(lo, hi, {}, {})
BY DEF Decides, SeqsOf, RangesOf, Apart, OneRow

(* Decisions about consecutive ranges add up.                                *)
LEMMA DecidesJoin ==
  ASSUME NEW lo \in Nat, NEW mid \in Nat, NEW hi \in Nat, lo <= mid + 1, mid <= hi,
         NEW raw1, NEW gs1, NEW raw2, NEW gs2,
         Decides(lo, mid, raw1, gs1), Decides(mid + 1, hi, raw2, gs2)
  PROVE  Decides(lo, hi, raw1 \cup raw2, gs1 \cup gs2)
<1> DEFINE raw == raw1 \cup raw2
           gs  == gs1 \cup gs2
<1>1. /\ raw1 \in SUBSET Block /\ gs1 \in SUBSET Gap
      /\ raw2 \in SUBSET Block /\ gs2 \in SUBSET Gap
  BY DEF Decides
<1>2. /\ \A b \in raw1 : lo <= b.seq /\ b.seq <= mid /\ b.seq \in Nat
      /\ \A b \in raw2 : mid + 1 <= b.seq /\ b.seq <= hi /\ b.seq \in Nat
  BY <1>1 DEF Decides, Block
<1>3. /\ \A g \in gs1 : lo <= g.from /\ g.from <= g.to /\ g.to <= mid /\ g.from \in Nat /\ g.to \in Nat
      /\ \A g \in gs2 : mid + 1 <= g.from /\ g.from <= g.to /\ g.to <= hi
                        /\ g.from \in Nat /\ g.to \in Nat
  BY <1>1 DEF Decides, Gap
<1>4. \A b \in raw : lo <= b.seq /\ b.seq <= hi
  BY <1>2
<1>5. \A g \in gs : lo <= g.from /\ g.from <= g.to /\ g.to <= hi
  BY <1>3
<1>6. /\ SeqsOf(raw1) \cup RangesOf(gs1) = lo..mid /\ SeqsOf(raw1) \cap RangesOf(gs1) = {}
      /\ SeqsOf(raw2) \cup RangesOf(gs2) = mid + 1..hi /\ SeqsOf(raw2) \cap RangesOf(gs2) = {}
  BY DEF Decides
<1>7. SeqsOf(raw) = SeqsOf(raw1) \cup SeqsOf(raw2)
  BY DEF SeqsOf
<1>8. RangesOf(gs) = RangesOf(gs1) \cup RangesOf(gs2)
  BY DEF RangesOf
<1>9. (lo..mid) \cup (mid + 1..hi) = lo..hi /\ (lo..mid) \cap (mid + 1..hi) = {}
  OBVIOUS
<1>10. SeqsOf(raw) \cup RangesOf(gs) = lo..hi /\ SeqsOf(raw) \cap RangesOf(gs) = {}
  BY <1>6, <1>7, <1>8, <1>9, Zenon
<1>11. Apart(gs)
  <2> SUFFICES ASSUME NEW g \in gs, NEW h \in gs, g # h PROVE g.to < h.from \/ h.to < g.from
    BY DEF Apart
  <2>1. CASE g \in gs1 /\ h \in gs1
    BY <2>1 DEF Decides, Apart
  <2>2. CASE g \in gs2 /\ h \in gs2
    BY <2>2 DEF Decides, Apart
  <2>3. CASE g \in gs1 /\ h \in gs2
    BY <1>3, <2>3
  <2>4. CASE g \in gs2 /\ h \in gs1
    BY <1>3, <2>4
  <2> QED BY <2>1, <2>2, <2>3, <2>4
<1>12. OneRow(raw)
  <2> SUFFICES ASSUME NEW a \in raw, NEW b \in raw, a # b PROVE a.seq # b.seq
    BY DEF OneRow
  <2>1. CASE a \in raw1 /\ b \in raw1
    BY <2>1 DEF Decides, OneRow
  <2>2. CASE a \in raw2 /\ b \in raw2
    BY <2>2 DEF Decides, OneRow
  <2>3. CASE a \in raw1 /\ b \in raw2
    BY <1>2, <2>3
  <2>4. CASE a \in raw2 /\ b \in raw1
    BY <1>2, <2>4
  <2> QED BY <2>1, <2>2, <2>3, <2>4
<1> QED
  BY <1>1, <1>4, <1>5, <1>10, <1>11, <1>12 DEF Decides

LEMMA DecidesOneGap ==
  ASSUME NEW g \in Gap, g.from <= g.to
  PROVE  Decides(g.from, g.to, {}, {g})
<1>1. RangesOf({g}) = g.from..g.to /\ SeqsOf({}) = {}
  BY DEF RangesOf, SeqsOf
<1> QED
  BY <1>1 DEF Decides, Apart, OneRow, Gap

LEMMA DecidesOneBlock ==
  ASSUME NEW b \in Block, b.kind # "LOSS"
  PROVE  Decides(b.seq, b.seq, {b}, {})
<1>1. RangesOf({}) = {} /\ SeqsOf({b}) = {b.seq} /\ b.seq..b.seq = {b.seq}
  BY DEF RangesOf, SeqsOf, Block
<1> QED
  BY <1>1 DEF Decides, Apart, OneRow, Block

(* A LOSS marker lies in the range it declares.                              *)
LEMMA DecidesOneLoss ==
  ASSUME NEW b \in Block, b.kind = "LOSS", NEW g \in Gap, g.from <= b.seq, b.seq <= g.to
  PROVE  Decides(g.from, g.to, {b}, {g})
<1>1. RangesOf({g}) = g.from..g.to /\ SeqsOf({b}) = {}
  BY DEF RangesOf, SeqsOf
<1>2. Apart({g}) /\ OneRow({b})
  BY DEF Apart, OneRow
<1>3. b.seq \in Nat /\ g.from \in Nat /\ g.to \in Nat
  BY DEF Gap, Block
<1>4. g.from <= g.to
  BY <1>3
<1>5. SeqsOf({b}) \cup RangesOf({g}) = g.from..g.to /\ SeqsOf({b}) \cap RangesOf({g}) = {}
  BY <1>1
<1>6. /\ \A x \in {b} : g.from <= x.seq /\ x.seq <= g.to
      /\ \A h \in {g} : g.from <= h.from /\ h.from <= h.to /\ h.to <= g.to
  BY <1>3, <1>4
<1> QED
  BY <1>2, <1>5, <1>6 DEF Decides

-------------------------------------------------------------------------------
(* A batch                                                                   *)

(* What a batch has come to decides the seqs from the first expected one on. *)
Sound(st, first) ==
  /\ st.exp \in Nat /\ first <= st.exp
  /\ Decides(first, st.exp - 1, st.accepted, st.gaps)

LEMMA ApplyOneSound ==
  ASSUME NEW first \in Nat \ {0}, NEW st, Sound(st, first), NEW b \in Block
  PROVE  Sound(ApplyOne(st, b), first)
<1>1. CASE st.interrupted \/ b.seq < st.exp
  BY <1>1 DEF ApplyOne
<1>2. CASE ~(st.interrupted \/ b.seq < st.exp) /\ ~Acceptable(b, st.exp)
  <2>1. ApplyOne(st, b) = [st EXCEPT !.interrupted = TRUE]
    BY <1>2 DEF ApplyOne
  <2>2. /\ ApplyOne(st, b).exp = st.exp /\ ApplyOne(st, b).accepted = st.accepted
        /\ ApplyOne(st, b).gaps = st.gaps
    BY <2>1
  <2> QED BY <2>2 DEF Sound
<1>3. CASE ~(st.interrupted \/ b.seq < st.exp) /\ Acceptable(b, st.exp)
  <2> DEFINE exp  == (IF b.kind = "LOSS" THEN b.to ELSE b.seq) + 1
             new  == Declared(b, st.exp)
  <2>1. /\ ApplyOne(st, b).exp = exp /\ ApplyOne(st, b).accepted = st.accepted \cup {b}
        /\ ApplyOne(st, b).gaps = st.gaps \cup new
    BY <1>3 DEF ApplyOne
  <2>2. b.seq \in Nat /\ b.from \in Nat /\ b.to \in Nat /\ st.exp \in Nat \ {0} /\ st.exp <= b.seq
    BY <1>3 DEF Block, Sound
  <2>3. exp \in Nat /\ st.exp < exp /\ Decides(st.exp, exp - 1, {b}, new)
    <3>1. CASE b.kind = "LOSS"
      <4> DEFINE g == [from |-> b.from, to |-> b.to, cause |-> "LOSS"]
      <4>1. b.from = st.exp /\ b.from <= b.seq /\ b.seq <= b.to /\ new = {g}
        BY <1>3, <3>1 DEF Acceptable, Declared
      <4>2. g \in Gap /\ g.from = b.from /\ g.to = b.to
        BY <2>2 DEF Gap
      <4> HIDE DEF g, new
      <4>3. Decides(g.from, g.to, {b}, {g})
        BY <3>1, <4>1, <4>2, DecidesOneLoss
      <4> QED BY <2>2, <3>1, <4>1, <4>2, <4>3
    <3>2. CASE b.kind = "BOOT" /\ st.exp <= b.to
      <4> DEFINE g == [from |-> st.exp, to |-> b.to, cause |-> "BOOT"]
      <4>1. b.to = b.seq - 1 /\ new = {g}
        BY <1>3, <3>2 DEF Acceptable, Declared
      <4>2. g \in Gap /\ g.from = st.exp /\ g.to = b.to
        BY <2>2 DEF Gap
      <4> HIDE DEF g, new
      <4>3. Decides(st.exp, b.to, {}, {g})
        BY <3>2, <4>2, DecidesOneGap
      <4>4. Decides(b.seq, b.seq, {b}, {})
        BY <3>2, DecidesOneBlock
      <4>5. Decides(st.exp, b.seq, {} \cup {b}, {g} \cup {})
        BY <2>2, <3>2, <4>1, <4>3, <4>4, DecidesJoin
      <4>6. {} \cup {b} = {b} /\ {g} \cup {} = {g}
        OBVIOUS
      <4> QED BY <2>2, <3>2, <4>1, <4>5, <4>6
    <3>3. CASE b.kind # "LOSS" /\ ~(b.kind = "BOOT" /\ st.exp <= b.to)
      <4>1. b.seq = st.exp /\ new = {}
        BY <1>3, <2>2, <3>3 DEF Acceptable, Declared
      <4> HIDE DEF new
      <4>2. Decides(b.seq, b.seq, {b}, {})
        BY <3>3, DecidesOneBlock
      <4> QED BY <2>2, <3>3, <4>1, <4>2
    <3> QED BY <3>1, <3>2, <3>3
  <2> HIDE DEF exp, new
  <2>4. Decides(first, st.exp - 1, st.accepted, st.gaps) /\ first <= st.exp
    BY DEF Sound
  <2> DEFINE mid == st.exp - 1
             hi  == exp - 1
  <2>5. mid \in Nat /\ hi \in Nat /\ first <= mid + 1 /\ mid <= hi /\ mid + 1 = st.exp
    BY <2>2, <2>3, <2>4
  <2>6. Decides(first, mid, st.accepted, st.gaps) /\ Decides(mid + 1, hi, {b}, new)
    BY <2>3, <2>4, <2>5
  <2> HIDE DEF mid, hi
  <2>7. Decides(first, hi, st.accepted \cup {b}, st.gaps \cup new)
    BY <2>5, <2>6, DecidesJoin
  <2> QED BY <2>1, <2>2, <2>3, <2>4, <2>7 DEF Sound, hi
<1> QED
  BY <1>1, <1>2, <1>3

(* The recursion over the batch is defined.                                  *)
IsRun(f, bs, n) ==
  f = [i \in 0..n |-> IF i = 0 THEN NothingApplied ELSE ApplyOne(f[i - 1], bs[i])]

LEMMA RunExists ==
  ASSUME NEW bs, NEW n \in Nat
  PROVE  \E f : IsRun(f, bs, n)
<1> DEFINE S == {i \in 0..n : \E f : IsRun(f, bs, i)}
<1>1. 0 \in S
  <2> DEFINE f == [i \in 0..0 |-> NothingApplied]
  <2>1. f = [i \in 0..0 |-> IF i = 0 THEN NothingApplied ELSE ApplyOne(f[i - 1], bs[i])]
    OBVIOUS
  <2>2. IsRun(f, bs, 0)
    BY <2>1 DEF IsRun
  <2> HIDE DEF f
  <2> QED BY <2>2
<1>2. ASSUME NEW i \in 0..n, i < n, i \in S PROVE i + 1 \in S
  <2>1. PICK f : IsRun(f, bs, i)
    BY <1>2
  <2> DEFINE g == [k \in 0..i + 1 |-> IF k = i + 1 THEN ApplyOne(f[i], bs[i + 1]) ELSE f[k]]
  <2>2. \A k \in 0..i : g[k] = f[k]
    OBVIOUS
  <2>3. g[i + 1] = ApplyOne(f[i], bs[i + 1])
    OBVIOUS
  <2>4. \A k \in 0..i : f[k] = IF k = 0 THEN NothingApplied ELSE ApplyOne(f[k - 1], bs[k])
    BY <2>1 DEF IsRun
  <2>5. DOMAIN g = 0..i + 1 /\ g = [k \in 0..i + 1 |-> g[k]]
    OBVIOUS
  <2> HIDE DEF g
  <2>6. ASSUME NEW k \in 0..i + 1
        PROVE  g[k] = IF k = 0 THEN NothingApplied ELSE ApplyOne(g[k - 1], bs[k])
    <3>1. CASE k = i + 1
      <4>1. k # 0 /\ k - 1 = i /\ i \in 0..i
        BY <3>1
      <4> QED BY <2>2, <2>3, <3>1, <4>1
    <3>2. CASE k = 0
      BY <2>2, <2>4, <3>2
    <3>3. CASE k # 0 /\ k # i + 1
      <4>1. k \in 0..i /\ k - 1 \in 0..i
        BY <3>3
      <4> QED BY <2>2, <2>4, <3>3, <4>1
    <3> QED BY <3>1, <3>2, <3>3
  <2>7. IsRun(g, bs, i + 1)
    BY <2>5, <2>6, Zenon DEF IsRun
  <2> QED BY <1>2, <2>7
<1> HIDE DEF S
<1>3. \A i \in 0..n : i \in S
  BY <1>1, <1>2, IntervalInduction
<1> QED
  BY <1>3 DEF S

LEMMA ProgressSteps ==
  ASSUME NEW bs, Len(bs) \in Nat
  PROVE  /\ Progress(bs)[0] = NothingApplied
         /\ \A i \in 1..Len(bs) : Progress(bs)[i] = ApplyOne(Progress(bs)[i - 1], bs[i])
<1> DEFINE f == Progress(bs)
<1>1. f = CHOOSE st : st = [n \in 0..Len(bs) |-> IF n = 0 THEN NothingApplied ELSE ApplyOne(st[n - 1], bs[n])]
  BY DEF Progress
<1>2. f = CHOOSE st : IsRun(st, bs, Len(bs))
  BY <1>1 DEF IsRun
<1> HIDE DEF f
<1>3. IsRun(f, bs, Len(bs))
  BY <1>2, RunExists
<1> QED
  BY <1>3 DEF IsRun, f

(* A batch decides the seqs up to what its ACK will say.                     *)
LEMMA ApplySound ==
  ASSUME contiguousSeq \in Nat, NEW bs \in Seq(Block)
  PROVE  Sound(Apply(bs), contiguousSeq + 1)
<1> DEFINE first == contiguousSeq + 1
           n     == Len(bs)
           f     == Progress(bs)
           S     == {i \in 0..n : Sound(f[i], first)}
<1>1. n \in Nat /\ first \in Nat \ {0} /\ \A i \in 1..n : bs[i] \in Block
  BY LenProperties, ElementOfSeq
<1>2. f[0] = NothingApplied /\ \A i \in 1..n : f[i] = ApplyOne(f[i - 1], bs[i])
  BY <1>1, ProgressSteps
<1>3. Sound(NothingApplied, first)
  <2>1. Decides(first, contiguousSeq, {}, {})
    BY DecidesNothing
  <2> QED BY <2>1 DEF Sound, NothingApplied
<1> HIDE DEF f, first, n
<1>4. 0 \in S
  BY <1>1, <1>2, <1>3
<1>5. ASSUME NEW i \in 0..n, i < n, i \in S PROVE i + 1 \in S
  <2>1. i + 1 \in 1..n /\ (i + 1) - 1 = i /\ i + 1 \in 0..n
    BY <1>1, <1>5
  <2>2. f[i + 1] = ApplyOne(f[i], bs[i + 1]) /\ bs[i + 1] \in Block
    BY <1>1, <1>2, <2>1
  <2>3. Sound(f[i], first)
    BY <1>5
  <2>4. Sound(ApplyOne(f[i], bs[i + 1]), first)
    BY <1>1, <2>2, <2>3, ApplyOneSound
  <2> QED BY <2>1, <2>2, <2>4
<1> HIDE DEF S
<1>6. n \in S
  <2>1. \A i \in 0..n : i \in S
    BY <1>1, <1>4, <1>5, IntervalInduction
  <2> QED BY <1>1, <2>1
<1> QED
  BY <1>6 DEF S, f, n, first, Apply

-------------------------------------------------------------------------------
(* The handlers                                                              *)

(* Nothing that was ever sent to the dongle is ahead of the server's state.  *)
SentBehind ==
  /\ \A c \in challenges : c.ack <= contiguousSeq
  /\ \A a \in acks : a.ack <= contiguousSeq /\ a.cConf <= cConf

ServerInv ==
  /\ ServerTypeOK
  /\ Decides(1, contiguousSeq, rawBlocks, gaps)
  /\ SentBehind

LEMMA InitServerInv == ServerInit => ServerInv
<1> SUFFICES ASSUME ServerInit PROVE ServerInv
  OBVIOUS
<1>1. contiguousSeq = 0 /\ rawBlocks = {} /\ gaps = {} /\ challenges = {} /\ acks = {}
  BY DEF ServerInit
<1>2. Decides(1, contiguousSeq, rawBlocks, gaps)
  BY <1>1, DecidesNothing
<1> QED
  BY <1>1, <1>2 DEF ServerInit, ServerInv, ServerTypeOK, SentBehind

LEMMA IssueServerInv == ServerInv /\ IssueChallenge => ServerInv'
<1> SUFFICES ASSUME ServerInv, IssueChallenge PROVE ServerInv'
  OBVIOUS
<1> DEFINE c == [cs |-> lastCs', ack |-> contiguousSeq]
<1>1. /\ lastCs \in Nat /\ lastCs' = lastCs + 1 /\ pending' = pending \cup {lastCs'}
      /\ challenges' = challenges \cup {c} /\ contiguousSeq \in Nat
      /\ UNCHANGED <<contiguousSeq, headSeq, cConf, rawBlocks, gaps, anchors, acks>>
  BY DEF IssueChallenge, ServerInv, ServerTypeOK
<1>2. c \in Challenge /\ c.ack = contiguousSeq
  BY <1>1 DEF Challenge
<1> HIDE DEF c
<1>3. ServerTypeOK'
  BY <1>1, <1>2 DEF ServerInv, ServerTypeOK
<1>4. SentBehind'
  BY <1>1, <1>2 DEF ServerInv, SentBehind
<1>5. Decides(1, contiguousSeq, rawBlocks, gaps)'
  BY <1>1 DEF ServerInv, Decides, SeqsOf, RangesOf, Apart, OneRow
<1> QED
  BY <1>3, <1>4, <1>5 DEF ServerInv

(* The state moves ahead: what was sent before stays behind it.              *)
LEMMA SentStaysBehind ==
  ASSUME ServerInv, contiguousSeq' \in Nat, cConf' \in Nat,
         contiguousSeq <= contiguousSeq', cConf <= cConf', challenges' = challenges,
         NEW a \in Ack, a.ack <= contiguousSeq', a.cConf <= cConf',
         acks' = acks \/ acks' = acks \cup {a}
  PROVE  SentBehind' /\ acks' \in SUBSET Ack
<1>1. /\ contiguousSeq \in Nat /\ cConf \in Nat /\ acks \in SUBSET Ack
      /\ challenges \in SUBSET Challenge
  BY DEF ServerInv, ServerTypeOK
<1>2. /\ \A c \in challenges : c.ack \in Nat /\ c.ack <= contiguousSeq
      /\ \A x \in acks : /\ x.ack \in Nat /\ x.cConf \in Nat
                        /\ x.ack <= contiguousSeq /\ x.cConf <= cConf
  BY <1>1 DEF ServerInv, SentBehind, Challenge, Ack
<1>3. \A c \in challenges' : c.ack <= contiguousSeq'
  BY <1>1, <1>2
<1>4. \A x \in acks' : x.ack <= contiguousSeq' /\ x.cConf <= cConf'
  BY <1>1, <1>2
<1> QED
  BY <1>1, <1>3, <1>4 DEF SentBehind

LEMMA RespondServerInv ==
  ASSUME ServerInv, NEW r, r.cs \in Nat \ {0}, r.head \in Nat, r.tail \in Nat, r.boot \in Nat,
         RespondChallenge(r)
  PROVE  ServerInv' /\ contiguousSeq <= contiguousSeq' /\ cConf <= cConf'
<1>1. /\ contiguousSeq \in Nat /\ headSeq \in Nat /\ cConf \in Nat /\ lastCs \in Nat
      /\ pending \in SUBSET (Nat \ {0}) /\ anchors \in SUBSET Nat
      /\ rawBlocks \in SUBSET Block /\ gaps \in SUBSET Gap
      /\ challenges \in SUBSET Challenge /\ acks \in SUBSET Ack
      /\ Decides(1, contiguousSeq, rawBlocks, gaps)
  BY DEF ServerInv, ServerTypeOK
<1>2. /\ pending' = pending \ {r.cs} /\ r.cs > cConf
      /\ lastCs' = lastCs /\ rawBlocks' = rawBlocks /\ challenges' = challenges
  BY DEF RespondChallenge, Answers
<1>3. CASE UNCHANGED <<contiguousSeq, headSeq, cConf, gaps, anchors, acks>>
  <2>1. ServerTypeOK' /\ SentBehind'
    BY <1>1, <1>2, <1>3 DEF ServerInv, ServerTypeOK, SentBehind
  <2>2. Decides(1, contiguousSeq, rawBlocks, gaps)'
    BY <1>1, <1>2, <1>3 DEF Decides, SeqsOf, RangesOf, Apart, OneRow
  <2> QED BY <1>1, <1>3, <2>1, <2>2 DEF ServerInv
<1>4. CASE ~Inconsistent(r)
  <2>1. PICK failed \in BOOLEAN :
          /\ anchors' \in {anchors, anchors \cup {r.boot}}
          /\ acks' = acks \cup {[ack |-> contiguousSeq', cConf |-> r.cs, anchorFailed |-> failed]}
    <3>1. PICK anchored \in RoundTrips :
            /\ anchors' = IF anchored THEN anchors \cup {r.boot} ELSE anchors
            /\ acks' = acks \cup
                 {[ack |-> contiguousSeq', cConf |-> r.cs, anchorFailed |-> ~anchored]}
      BY <1>4 DEF RespondChallenge
    <3>2. anchors' \in {anchors, anchors \cup {r.boot}}
      BY <3>1
    <3>3. CASE anchored
      BY <3>1, <3>2, <3>3
    <3>4. CASE ~anchored
      BY <3>1, <3>2, <3>4
    <3> QED BY <3>3, <3>4
  <2>2. /\ contiguousSeq' = TailAck(r) /\ gaps' = gaps \cup TailGaps(r)
        /\ headSeq' = r.head /\ cConf' = r.cs
    BY <1>4 DEF RespondChallenge
  <2>3. /\ TailAck(r) \in Nat /\ contiguousSeq <= TailAck(r)
        /\ TailAck(r) = IF r.tail > contiguousSeq + 1 THEN r.tail - 1 ELSE contiguousSeq
    <3> DEFINE below == r.tail - 1
    <3>1. below \in Int /\ TailAck(r) = Max({contiguousSeq, below})
      BY DEF TailAck
    <3> HIDE DEF below
    <3> DEFINE ack == contiguousSeq
    <3>2. ack \in Int
      BY <1>1
    <3> HIDE DEF ack
    <3>3. /\ Max({ack, below}) \in {ack, below}
          /\ Max({ack, below}) >= ack /\ Max({ack, below}) >= below
      BY <3>1, <3>2, MaxOfTwo
    <3>4. TailAck(r) = Max({ack, below})
      BY <3>1 DEF ack
    <3> QED BY <1>1, <3>3, <3>4 DEF ack, below
  <2>4. Decides(1, TailAck(r), rawBlocks, gaps \cup TailGaps(r))
    <3>1. CASE r.tail > contiguousSeq + 1
      <4> DEFINE g == [from |-> contiguousSeq + 1, to |-> r.tail - 1, cause |-> "OVERFLOW"]
      <4>1. g \in Gap /\ g.from = contiguousSeq + 1 /\ g.to = TailAck(r) /\ g.from <= g.to
        BY <1>1, <2>3, <3>1 DEF Gap
      <4>2. TailGaps(r) = {g}
        BY <3>1 DEF TailGaps
      <4> HIDE DEF g
      <4>3. Decides(contiguousSeq + 1, TailAck(r), {}, {g})
        BY <4>1, DecidesOneGap
      <4>4. Decides(1, TailAck(r), rawBlocks \cup {}, gaps \cup {g})
        BY <1>1, <2>3, <4>3, DecidesJoin
      <4> QED BY <4>2, <4>4
    <3>2. CASE ~(r.tail > contiguousSeq + 1)
      BY <1>1, <2>3, <3>2 DEF TailGaps
    <3> QED BY <3>1, <3>2
  <2> DEFINE a == [ack |-> contiguousSeq', cConf |-> r.cs, anchorFailed |-> failed]
  <2>5. a \in Ack /\ a.ack = contiguousSeq' /\ a.cConf = cConf'
    BY <1>1, <2>2, <2>3 DEF Ack
  <2>6. acks' = acks \cup {a}
    BY <2>1
  <2> HIDE DEF a
  <2>7. SentBehind' /\ acks' \in SUBSET Ack
    BY <1>1, <1>2, <2>2, <2>3, <2>5, <2>6, SentStaysBehind
  <2>8. anchors' \in SUBSET Nat
    BY <1>1, <2>1
  <2>9. Decides(1, contiguousSeq', rawBlocks', gaps')
    BY <1>2, <2>2, <2>4
  <2>10. gaps' \in SUBSET Gap
    BY <2>9 DEF Decides
  <2>11. ServerTypeOK'
    BY <1>1, <1>2, <2>2, <2>3, <2>7, <2>8, <2>10 DEF ServerTypeOK
  <2> QED BY <1>1, <1>2, <2>2, <2>3, <2>7, <2>9, <2>11
          DEF ServerInv, Decides, SeqsOf, RangesOf, Apart, OneRow
<1> QED
  BY <1>3, <1>4 DEF RespondChallenge

LEMMA ReceiveServerInv ==
  ASSUME ServerInv, NEW bs \in Seq(Block), ReceiveBatch(bs)
  PROVE  ServerInv' /\ contiguousSeq <= contiguousSeq' /\ cConf <= cConf'
<1>1. /\ contiguousSeq \in Nat /\ headSeq \in Nat /\ cConf \in Nat /\ lastCs \in Nat
      /\ pending \in SUBSET (Nat \ {0}) /\ anchors \in SUBSET Nat
      /\ rawBlocks \in SUBSET Block /\ gaps \in SUBSET Gap
      /\ challenges \in SUBSET Challenge /\ acks \in SUBSET Ack
      /\ Decides(1, contiguousSeq, rawBlocks, gaps)
  BY DEF ServerInv, ServerTypeOK
<1> DEFINE r    == Apply(bs)
           seen == {bs[i].seq : i \in {j \in DOMAIN bs : bs[j].seq > contiguousSeq}}
           a    == [ack |-> contiguousSeq', cConf |-> cConf, anchorFailed |-> FALSE]
<1>2. /\ contiguousSeq' = r.exp - 1 /\ rawBlocks' = rawBlocks \cup r.accepted
      /\ gaps' = gaps \cup r.gaps
      /\ headSeq' = Max({headSeq, contiguousSeq'} \cup seen)
      /\ acks' = acks \cup {a}
      /\ UNCHANGED <<cConf, lastCs, pending, anchors, challenges>>
  BY DEF ReceiveBatch
<1>3. Sound(r, contiguousSeq + 1)
  BY <1>1, ApplySound
<1>4. headSeq' \in Nat
  <2> DEFINE js == {j \in DOMAIN bs : bs[j].seq > contiguousSeq}
             f  == [j \in js |-> bs[j].seq]
  <2>1. Len(bs) \in Nat /\ DOMAIN bs = 1..Len(bs) /\ \A j \in DOMAIN bs : bs[j].seq \in Nat
    <3>1. \A j \in 1..Len(bs) : bs[j] \in Block
      BY ElementOfSeq
    <3> QED BY <3>1, LenProperties DEF Block
  <2>2. IsFiniteSet(DOMAIN bs)
    BY <2>1, FS_Interval
  <2>3. IsFiniteSet(js)
    BY <2>2, FS_Subset
  <2>4. f \in Surjection(js, seen)
    BY DEF Surjection
  <2>5. IsFiniteSet(seen) /\ seen \in SUBSET Nat
    BY <2>1, <2>3, <2>4, FS_Surjection
  <2> HIDE DEF seen
  <2>6. contiguousSeq' \in Nat
    BY <1>1, <1>2, <1>3 DEF Sound
  <2> DEFINE all == (seen \cup {contiguousSeq'}) \cup {headSeq}
  <2>7. IsFiniteSet(seen \cup {contiguousSeq'})
    BY <2>5, FS_AddElement
  <2>8. IsFiniteSet(all)
    BY <2>7, FS_AddElement
  <2>9. all \in SUBSET Int /\ all \in SUBSET Nat /\ all # {}
    BY <1>1, <2>5, <2>6
  <2>10. {headSeq, contiguousSeq'} \cup seen = all
    OBVIOUS
  <2> HIDE DEF all
  <2>11. Max(all) \in all
    BY <2>8, <2>9, MaxOfFinite
  <2> QED BY <1>2, <2>9, <2>10, <2>11
<1> HIDE DEF r, seen
<1>5. /\ contiguousSeq' \in Nat /\ contiguousSeq <= contiguousSeq' /\ r.exp - 1 = contiguousSeq'
      /\ Decides(contiguousSeq + 1, contiguousSeq', r.accepted, r.gaps)
  BY <1>1, <1>2, <1>3 DEF Sound
<1>6. Decides(1, contiguousSeq', rawBlocks \cup r.accepted, gaps \cup r.gaps)
  <2> DEFINE mid == contiguousSeq
             hi  == contiguousSeq'
             acc == r.accepted
             gs  == r.gaps
  <2>1. 1 \in Nat /\ mid \in Nat /\ hi \in Nat /\ 1 <= mid + 1 /\ mid <= hi
    BY <1>1, <1>5
  <2>2. Decides(1, mid, rawBlocks, gaps) /\ Decides(mid + 1, hi, acc, gs)
    BY <1>1, <1>5
  <2> HIDE DEF mid, hi, acc, gs
  <2>3. Decides(1, hi, rawBlocks \cup acc, gaps \cup gs)
    BY <2>1, <2>2, DecidesJoin
  <2> QED BY <2>3 DEF hi, acc, gs
<1>7. a \in Ack /\ a.ack = contiguousSeq' /\ a.cConf = cConf'
  BY <1>1, <1>2, <1>5 DEF Ack
<1> HIDE DEF a
<1>8. SentBehind' /\ acks' \in SUBSET Ack
  BY <1>1, <1>2, <1>5, <1>7, SentStaysBehind
<1>9. rawBlocks' \in SUBSET Block /\ gaps' \in SUBSET Gap
  BY <1>2, <1>6 DEF Decides
<1>10. ServerTypeOK'
  BY <1>1, <1>2, <1>4, <1>5, <1>8, <1>9 DEF ServerTypeOK
<1>11. Decides(1, contiguousSeq, rawBlocks, gaps)'
  BY <1>2, <1>6 DEF Decides, SeqsOf, RangesOf, Apart, OneRow
<1> QED
  BY <1>1, <1>2, <1>5, <1>8, <1>10, <1>11 DEF ServerInv

(* What the invariant says of the rows, and that the next batch of one block *)
(* meets none of them.                                                       *)
LEMMA DecidedOnce ==
  ASSUME ServerInv
  PROVE  AckIsDecided /\ \A b \in Block : ~Conflict(Apply(<<b>>).accepted)
<1>1. contiguousSeq \in Nat /\ Decides(1, contiguousSeq, rawBlocks, gaps)
  BY DEF ServerInv, ServerTypeOK
<1>2. AckIsDecided
  BY <1>1 DEF Decides, AckIsDecided, SeqsOf, RangesOf, StoredSeqs, GapSeqs, Apart, OneRow
<1>3. ASSUME NEW b \in Block PROVE ~Conflict(Apply(<<b>>).accepted)
  <2>1. <<b>> \in Seq(Block)
    OBVIOUS
  <2> DEFINE new == Apply(<<b>>).accepted
             hi  == Apply(<<b>>).exp - 1
  <2>2. Decides(contiguousSeq + 1, hi, new, Apply(<<b>>).gaps)
    BY <1>1, <2>1, ApplySound DEF Sound
  <2> HIDE DEF new, hi
  <2>3. \A x \in new : contiguousSeq + 1 <= x.seq /\ x.seq \in Nat
    BY <2>2 DEF Decides, Block
  <2>4. \A s \in rawBlocks : s.seq <= contiguousSeq /\ s.seq \in Nat
    BY <1>1 DEF Decides, Block
  <2>5. \A x \in new, s \in rawBlocks : x.seq # s.seq
    BY <1>1, <2>3, <2>4
  <2> QED BY <2>5 DEF Conflict, new
<1> QED
  BY <1>2, <1>3

-------------------------------------------------------------------------------
(* The TAIL of a response                                                    *)

LEMMA EffectiveTailType ==
  ASSUME NEW l, GoodLog(l), BootsSound(l)
  PROVE  EffectiveTail(l) \in Nat \ {0}
<1> DEFINE q == OldestSeq(l)
           r == RecordAt(l, q)
<1>1. CASE l = {}
  BY <1>1 DEF EffectiveTail
<1>2. CASE l # {}
  <2>1. q \in Nat \ {0}
    BY <1>2, OldestSeqType
  <2>2. ReadStatus(l, q) = "Ok" /\ r.kind = "BOOT" => r.from \in Nat \ {0}
    BY <2>1, ReadableIsHeld, RecordAtHeld DEF BootAt
  <2>3. EffectiveTail(l) =
          IF ReadStatus(l, q) = "Ok" /\ r.kind = "BOOT" /\ r.from <= q THEN r.from ELSE q
    BY <1>2 DEF EffectiveTail
  <2> HIDE DEF q, r
  <2> QED BY <2>1, <2>2, <2>3
<1> QED
  BY <1>1, <1>2

-------------------------------------------------------------------------------
(* The dongle                                                                *)

(* The log holds disjoint runs of written seqs, below the next one.          *)
StoreInv ==
  /\ GoodLog(log) /\ BootsSound(log) /\ Ordered(log)
  /\ Backed(log, written) /\ Follows(next, written)

EngineInv == EngineTypeOK /\ StoreInv

LEMMA InitEngineInv == EngineInit => EngineInv
<1> SUFFICES ASSUME EngineInit PROVE EngineInv
  OBVIOUS
<1>1. EngineTypeOK
  <2>1. sessionOpen \in BOOLEAN /\ noHsConn \in BOOLEAN /\ noHsBoot \in BOOLEAN
    BY Zenon DEF EngineInit
  <2>2. /\ log = {} /\ overflowUpTo = 0 /\ next = 1 /\ bootFrom = 0
        /\ boot = 0 /\ conns = 0 /\ damage = 0 /\ written = {}
        /\ nvsCs = 0 /\ lastAcceptedCs = 0 /\ respondedCs = 0 /\ link = "down"
        /\ ackLocal = 0 /\ cursor = 1 /\ batchEnd = 0 /\ overflowSeen = 0
        /\ responses = {} /\ sent = {}
    BY DEF EngineInit
  <2> QED BY <2>1, <2>2 DEF EngineTypeOK
<1>2. log = {} /\ written = {}
  BY DEF EngineInit
<1>3. GoodLog(log)
  BY <1>2, FS_EmptySet DEF GoodLog
<1> QED
  BY <1>1, <1>2, <1>3 DEF EngineInv, StoreInv, BootsSound, Ordered, Backed, Follows

LEMMA StoreInvOf ==
  ASSUME NEW l, NEW w, NEW n, GoodLog(l), BootsSound(l), Ordered(l), Backed(l, w), Follows(n, w),
         log' = l, written' = w, next' = n
  PROVE  StoreInv'
BY DEF StoreInv, GoodLog, BootsSound, BootAt, Ordered, Backed, Follows, LastSeq

(* A step that leaves the log, or keeps a part of it.                        *)
LEMMA StoreShrinks ==
  ASSUME StoreInv, log' \in SUBSET log, written' = written, next' = next
  PROVE  StoreInv'
<1>1. GoodLog(log') /\ BootsSound(log') /\ Ordered(log') /\ Backed(log', written)
  BY GoodSubset, BootsSoundSubset, OrderedSubset DEF StoreInv
<1> QED
  BY <1>1, StoreInvOf DEF StoreInv

LEMMA PutStore ==
  ASSUME NEW found, GoodLog(found), BootsSound(found), Ordered(found), Backed(found, written),
         written \in SUBSET Nat, NEW seq \in Nat \ {0}, Follows(seq, written),
         NEW r \in Record, BootAt(r, seq), NEW new \in BOOLEAN, new \/ Continues(found, seq),
         NEW mayFail, Put(found, mayFail, new, seq, r)
  PROVE  /\ StoreInv' /\ log' \in SUBSET Segment
         /\ next' \in Nat \ {0} /\ bootFrom' \in Nat /\ written' \in SUBSET Nat
<1>1. PICK kept \in EnsureSpace(found) :
        \/ /\ log' = AppendOk(kept, new, seq, r)
           /\ written' = written \cup {seq}
           /\ next' = seq + 1 /\ bootFrom' = 0
        \/ /\ mayFail
           /\ log' = kept /\ written' = written
           /\ next' = seq /\ bootFrom' = r.from
  BY DEF Put
<1>2. kept \subseteq found /\ GoodLog(kept)
  BY GoodEnsureSpace DEF EnsureSpace, Remainders, From
<1>3. BootsSound(kept) /\ Ordered(kept) /\ Backed(kept, written)
  BY <1>2, BootsSoundSubset, OrderedSubset
<1>4. new \/ Continues(kept, seq)
  <2>1. ASSUME Continues(found, seq) PROVE Continues(kept, seq)
    <3>1. found # {} /\ LastSeq(NewestSeg(found)) + 1 = seq
      BY <2>1 DEF Continues
    <3>2. kept # {} /\ NewestSeg(kept) = NewestSeg(found)
      BY <3>1, SpaceKeepsNewest
    <3> QED BY <3>1, <3>2 DEF Continues
  <2> QED BY <2>1
<1>5. CASE /\ log' = AppendOk(kept, new, seq, r)
           /\ written' = written \cup {seq}
           /\ next' = seq + 1 /\ bootFrom' = 0
  <2> DEFINE m == AppendOk(kept, new, seq, r)
  <2>1. Ordered(m) /\ Backed(m, written \cup {seq})
    BY <1>2, <1>3, <1>4, AppendOrdered
  <2>2. BootsSound(m)
    BY <1>2, <1>3, <1>4, AppendBootsSound
  <2>3. GoodLog(m)
    BY <1>2, <1>4, GoodAppend DEF Continues
  <2>4. Follows(seq + 1, written \cup {seq})
    BY DEF Follows
  <2>5. log' = m
    BY <1>5
  <2> HIDE DEF m
  <2>6. StoreInv'
    BY <1>5, <2>1, <2>2, <2>3, <2>4, <2>5, StoreInvOf
  <2> QED BY <1>5, <2>3, <2>5, <2>6 DEF GoodLog
<1>6. CASE /\ log' = kept /\ written' = written
           /\ next' = seq /\ bootFrom' = r.from
  <2>1. StoreInv'
    BY <1>2, <1>3, <1>6, StoreInvOf
  <2>2. r.from \in Nat
    BY DEF Record
  <2> QED BY <1>2, <1>6, <2>1, <2>2 DEF GoodLog
<1> QED
  BY <1>1, <1>5, <1>6

LEMMA BootRecordType ==
  ASSUME NEW from \in Nat \ {0}, NEW seq \in Nat \ {0}
  PROVE  BootRecord(from, seq) \in Record /\ BootAt(BootRecord(from, seq), seq)
BY DEF BootRecord, Record, BootAt

LEMMA WriteEngineInv == EngineInv /\ Write => EngineInv'
<1> SUFFICES ASSUME EngineInv, Write PROVE EngineInv'
  OBVIOUS
<1>1. /\ next \in Nat \ {0} /\ bootFrom \in Nat /\ written \in SUBSET Nat /\ overflowUpTo \in Nat
      /\ GoodLog(log) /\ BootsSound(log) /\ Ordered(log) /\ Backed(log, written)
      /\ Follows(next, written)
  BY DEF EngineInv, EngineTypeOK, StoreInv
<1>2. /\ StoreInv' /\ log' \in SUBSET Segment
      /\ next' \in Nat \ {0} /\ bootFrom' \in Nat /\ written' \in SUBSET Nat
  <2>1. CASE bootFrom > 0
    <3> DEFINE r == BootRecord(bootFrom, next)
    <3>1. r \in Record /\ BootAt(r, next)
      BY <1>1, <2>1, BootRecordType
    <3>2. Put(log, FALSE, TRUE, next, r)
      BY <2>1 DEF Write
    <3> HIDE DEF r
    <3> QED BY <1>1, <3>1, <3>2, PutStore
  <2>2. CASE ~(bootFrom > 0)
    <3> DEFINE new == NeedsNewSegment(log, FALSE, next)
               r   == DataRecord
    <3>1. r \in Record /\ BootAt(r, next)
      BY DEF DataRecord, Record, BootAt
    <3>2. Put(log, FALSE, new, next, r)
      BY <2>2 DEF Write
    <3>3. new \in BOOLEAN
      BY DEF NeedsNewSegment
    <3>4. new \/ Continues(log, next)
      BY DEF NeedsNewSegment, Continues
    <3> HIDE DEF r, new
    <3>5. CASE new = TRUE
      <4>1. Put(log, FALSE, TRUE, next, r)
        BY <3>2, <3>5
      <4> QED BY <1>1, <3>1, <4>1, PutStore
    <3>6. CASE new = FALSE
      <4>1. Put(log, FALSE, FALSE, next, r) /\ Continues(log, next)
        BY <3>2, <3>4, <3>6
      <4> QED BY <1>1, <3>1, <4>1, PutStore
    <3> QED BY <3>3, <3>5, <3>6
  <2> QED BY <2>1, <2>2
<1>3. overflowUpTo' \in Nat
  BY <1>1, OverflowType DEF Write
<1>4. UNCHANGED <<boot, damage, conns, session, batch, counter, ackLocal, overflowSeen, outgoing>>
  BY DEF Write
<1>5. EngineTypeOK'
  BY <1>2, <1>3, <1>4
     DEF EngineInv, EngineTypeOK, session, batch, counter, outgoing
<1> QED
  BY <1>2, <1>5 DEF EngineInv

LEMMA BootEngineInv ==
  ASSUME EngineInv, NEW found, GoodLog(found), BootsSound(found), Ordered(found),
         Backed(found, written), Boot(found), damage' \in Nat
  PROVE  EngineInv'
<1>1. /\ next \in Nat \ {0} /\ written \in SUBSET Nat /\ boot \in Nat /\ nvsCs \in Nat
      /\ Follows(next, written) /\ MaxGap \in Nat
  BY EngineAssumption DEF EngineInv, EngineTypeOK, StoreInv
<1> DEFINE mounted == Mount(found)
           newest  == NewestSeq(mounted)
<1>2. GoodLog(mounted) /\ BootsSound(mounted) /\ Ordered(mounted) /\ Backed(mounted, written)
  BY GoodMount, MountBootsSound, MountOrdered
<1>3. newest \in Nat
  BY <1>2, NewestSeqType
<1>4. PICK r \in next..next + (IF boot = 0 THEN 0 ELSE MaxGap) :
        Put(mounted, TRUE, TRUE, r, BootRecord(IF newest = 0 THEN r ELSE newest + 1, r))
  BY DEF Boot
<1>5. overflowUpTo' = OverflowAfter(OverflowAfter(0, Valid(found), mounted), mounted, log')
  BY DEF Boot
<1> HIDE DEF mounted, newest
<1>6. r \in Nat \ {0} /\ Follows(r, written)
  BY <1>1, <1>4 DEF Follows
<1> DEFINE from == IF newest = 0 THEN r ELSE newest + 1
           b    == BootRecord(from, r)
<1>7. from \in Nat \ {0}
  BY <1>3, <1>6
<1>8. Put(mounted, TRUE, TRUE, r, b)
  BY <1>4
<1> HIDE DEF from
<1>9. b \in Record /\ BootAt(b, r)
  BY <1>6, <1>7, BootRecordType
<1> HIDE DEF b
<1>10. /\ StoreInv' /\ log' \in SUBSET Segment
       /\ next' \in Nat \ {0} /\ bootFrom' \in Nat /\ written' \in SUBSET Nat
  BY <1>1, <1>2, <1>6, <1>8, <1>9, PutStore
<1>11. overflowUpTo' \in Nat
  <2>1. GoodLog(Valid(found))
    BY GoodValid
  <2>2. OverflowAfter(0, Valid(found), mounted) \in Nat
    BY <2>1, OverflowType
  <2> QED BY <1>2, <1>5, <2>2, OverflowType
<1>12. EffectiveTail(log') \in Nat \ {0}
  <2>1. GoodLog(log') /\ BootsSound(log')
    BY <1>10 DEF StoreInv, GoodLog, BootsSound, BootAt
  <2> QED BY <2>1, EffectiveTailType
<1>13. /\ boot' = boot + 1 /\ overflowSeen' = overflowUpTo' /\ lastAcceptedCs' = nvsCs
       /\ ackLocal' = EffectiveTail(log') - 1 /\ cursor' = EffectiveTail(log') /\ batchEnd' = 0
       /\ link' = "down" /\ sessionOpen' = FALSE /\ respondedCs' = 0
       /\ noHsConn' = TRUE /\ noHsBoot' = TRUE
       /\ UNCHANGED <<conns, nvsCs, outgoing>>
  BY DEF Boot
<1>14. sessionOpen' \in BOOLEAN /\ noHsConn' \in BOOLEAN /\ noHsBoot' \in BOOLEAN
  BY <1>13
<1>15. EngineTypeOK'
  BY <1>1, <1>10, <1>11, <1>12, <1>13, <1>14 DEF EngineInv, EngineTypeOK, outgoing
<1> QED
  BY <1>10, <1>15 DEF EngineInv

LEMMA PowerOnEngineInv == EngineInv /\ (PowerOn \/ PowerOnFormatted) => EngineInv'
<1> SUFFICES ASSUME EngineInv, PowerOn \/ PowerOnFormatted PROVE EngineInv'
  OBVIOUS
<1>1. damage \in Nat
  BY DEF EngineInv, EngineTypeOK
<1>2. CASE PowerOn
  <2>1. GoodLog(log) /\ BootsSound(log) /\ Ordered(log) /\ Backed(log, written)
    BY DEF EngineInv, StoreInv
  <2>2. Boot(log) /\ damage' \in Nat
    BY <1>1, <1>2 DEF PowerOn
  <2> QED BY <2>1, <2>2, BootEngineInv
<1>3. CASE PowerOnFormatted
  <2>1. GoodLog({}) /\ BootsSound({}) /\ Ordered({}) /\ Backed({}, written)
    BY FS_EmptySet DEF GoodLog, BootsSound, Ordered, Backed
  <2>2. Boot({}) /\ damage' \in Nat
    BY <1>1, <1>3 DEF PowerOnFormatted
  <2> QED BY <2>1, <2>2, BootEngineInv
<1> QED
  BY <1>2, <1>3

LEMMA RotEngineInv == EngineInv /\ Rot => EngineInv'
<1> SUFFICES ASSUME EngineInv, Rot PROVE EngineInv'
  OBVIOUS
<1>1. /\ GoodLog(log) /\ BootsSound(log) /\ Ordered(log) /\ Backed(log, written)
      /\ Follows(next, written)
  BY DEF EngineInv, StoreInv
<1>2. PICK s \in log : \E e \in Rotted(s) : log' = (log \ {s}) \cup {e}
  BY DEF Rot
<1>3. PICK e \in Rotted(s) : log' = (log \ {s}) \cup {e}
  BY <1>2
<1>4. s \in Segment /\ s.reach <= Len(s.recs)
  BY <1>1 DEF GoodLog
<1>5. /\ e \in Segment /\ e.reach <= Len(e.recs) /\ SameExtent(s, e)
      /\ \A i \in 1..Len(s.recs) : /\ e.recs[i].kind = s.recs[i].kind
                                   /\ e.recs[i].from = s.recs[i].from
                                   /\ e.recs[i].to = s.recs[i].to
  BY <1>4, RottedSegment
<1>6. GoodLog(Swapped(log, s, e)) /\ log' = Swapped(log, s, e)
  BY <1>1, <1>3, <1>5, GoodSwapped DEF Swapped
<1>7. Ordered(Swapped(log, s, e)) /\ Backed(Swapped(log, s, e), written)
  BY <1>1, <1>5, <1>6, ReplacedOrdered
<1>8. BootsSound(Swapped(log, s, e))
  <2>1. \A i \in 1..Len(e.recs) : BootAt(e.recs[i], e.first + i - 1)
    BY <1>1, <1>5 DEF BootsSound, BootAt, SameExtent
  <2> QED BY <1>1, <2>1 DEF BootsSound, Swapped
<1>9. /\ damage' = damage + 1
      /\ UNCHANGED <<overflowUpTo, next, bootFrom, boot, written, conns, session, batch, counter,
                    ackLocal, overflowSeen, outgoing>>
  BY DEF Rot
<1>10. StoreInv'
  BY <1>1, <1>6, <1>7, <1>8, <1>9, StoreInvOf
<1>11. log' \in SUBSET Segment
  BY <1>6 DEF GoodLog
<1>12. EngineTypeOK'
  BY <1>9, <1>11 DEF EngineInv, EngineTypeOK, session, batch, counter, outgoing
<1> QED
  BY <1>10, <1>12 DEF EngineInv

(* Steps that leave the log and its history alone.                           *)
LEMMA OtherStep ==
  ASSUME EngineInv, UNCHANGED <<store, conns, counter, ackLocal, overflowSeen, outgoing>>,
         link' \in {"down", "up", "subscribed"}, sessionOpen' \in BOOLEAN, respondedCs' \in Nat,
         noHsConn' \in BOOLEAN, noHsBoot' \in BOOLEAN, cursor' \in Nat \ {0}, batchEnd' \in Nat
  PROVE  EngineInv'
<1>1. log' \in SUBSET log /\ written' = written /\ next' = next
  BY DEF store
<1>2. StoreInv'
  BY <1>1, StoreShrinks DEF EngineInv
<1>3. EngineTypeOK'
  BY DEF EngineInv, EngineTypeOK, store, counter, outgoing
<1> QED
  BY <1>2, <1>3 DEF EngineInv

LEMMA LinkEngineInv ==
  EngineInv /\ (OnDisconnected \/ OnSubscribed \/ HandleAppError) => EngineInv'
<1> SUFFICES ASSUME EngineInv, OnDisconnected \/ OnSubscribed \/ HandleAppError PROVE EngineInv'
  OBVIOUS
<1>1. /\ link \in {"down", "up", "subscribed"} /\ sessionOpen \in BOOLEAN /\ respondedCs \in Nat
      /\ noHsConn \in BOOLEAN /\ noHsBoot \in BOOLEAN /\ cursor \in Nat \ {0} /\ batchEnd \in Nat
      /\ ackLocal \in Nat
  BY DEF EngineInv, EngineTypeOK
<1>2. CASE OnDisconnected
  <2>1. /\ link' = "down" /\ batchEnd' = 0
        /\ UNCHANGED <<store, conns, respondedCs, noHsConn, noHsBoot, cursor, counter, ackLocal,
                      overflowSeen, outgoing>>
    BY <1>2 DEF OnDisconnected
  <2>2. sessionOpen' \in BOOLEAN
    BY <1>2, Zenon DEF OnDisconnected
  <2> QED BY <1>1, <2>1, <2>2, OtherStep
<1>3. CASE OnSubscribed
  <2>1. /\ link' \in {"up", "subscribed"}
        /\ UNCHANGED <<store, conns, sessionOpen, respondedCs, noHsConn, noHsBoot, cursor, batchEnd,
                      counter, ackLocal, overflowSeen, outgoing>>
    BY <1>3 DEF OnSubscribed, batch
  <2> QED BY <1>1, <2>1, OtherStep
<1>4. CASE HandleAppError
  <2>1. RestartCursor \in Nat \ {0}
    BY <1>1 DEF RestartCursor
  <2>2. /\ batchEnd' = 0 /\ cursor' = RestartCursor
        /\ UNCHANGED <<store, conns, link, sessionOpen, respondedCs, noHsConn, noHsBoot, counter,
                      ackLocal, overflowSeen, outgoing>>
    BY <1>4 DEF HandleAppError, session
  <2> QED BY <1>1, <2>1, <2>2, OtherStep
<1> QED
  BY <1>2, <1>3, <1>4

LEMMA OnConnectedEngineInv == EngineInv /\ OnConnected => EngineInv'
<1> SUFFICES ASSUME EngineInv, OnConnected PROVE EngineInv'
  OBVIOUS
<1>1. /\ conns' = conns + 1 /\ link' = "up" /\ respondedCs' = 0
      /\ batchEnd' = 0 /\ cursor' = RestartCursor
      /\ UNCHANGED <<store, noHsBoot, counter, ackLocal, overflowSeen, outgoing>>
  BY DEF OnConnected
<1>2. sessionOpen' \in BOOLEAN /\ noHsConn' \in BOOLEAN
  BY Zenon DEF OnConnected
<1>3. RestartCursor \in Nat \ {0}
  BY DEF RestartCursor, EngineInv, EngineTypeOK
<1>4. StoreInv'
  BY <1>1, StoreShrinks DEF EngineInv, store
<1>5. EngineTypeOK'
  BY <1>1, <1>2, <1>3 DEF EngineInv, EngineTypeOK, store, counter, outgoing
<1> QED
  BY <1>4, <1>5 DEF EngineInv

LEMMA MinOfTwo ==
  ASSUME NEW a \in Int, NEW b \in Int
  PROVE  Min({a, b}) \in {a, b} /\ Min({a, b}) <= a /\ Min({a, b}) <= b
<1>1. \E m \in {a, b} : \A x \in {a, b} : m <= x
  OBVIOUS
<1> QED
  BY <1>1 DEF Min

LEMMA HandleBatchRequestEngineInv == EngineInv /\ HandleBatchRequest => EngineInv'
<1> SUFFICES ASSUME EngineInv, HandleBatchRequest PROVE EngineInv'
  OBVIOUS
<1>1. PICK k \in 1..MaxRequest : batchEnd' = Min({cursor + k - 1, NewestSeq(log)})
  BY DEF HandleBatchRequest
<1>2. cursor \in Nat \ {0} /\ MaxRequest \in Nat /\ NewestSeq(log) \in Nat
  BY EngineAssumption, NewestSeqType DEF EngineInv, EngineTypeOK, StoreInv
<1> DEFINE end == cursor + k - 1
           top == NewestSeq(log)
<1>3. end \in Nat /\ top \in Nat /\ end \in Int /\ top \in Int
  BY <1>2
<1>4. batchEnd' = Min({end, top})
  BY <1>1
<1> HIDE DEF end, top
<1>5. batchEnd' \in Nat
  <2>1. Min({end, top}) \in {end, top}
    BY <1>3, MinOfTwo
  <2> QED BY <1>3, <1>4, <2>1
<1>6. /\ link' = link /\ sessionOpen' = sessionOpen /\ respondedCs' = respondedCs
      /\ noHsConn' = noHsConn /\ noHsBoot' = noHsBoot /\ cursor' = cursor
      /\ UNCHANGED <<store, conns, counter, ackLocal, overflowSeen, outgoing>>
  BY DEF HandleBatchRequest, session
<1> QED
  BY <1>5, <1>6, OtherStep DEF EngineInv, EngineTypeOK

LEMMA CheckOverflowEngineInv == EngineInv /\ CheckOverflow => EngineInv'
<1> SUFFICES ASSUME EngineInv, CheckOverflow PROVE EngineInv'
  OBVIOUS
<1>1. /\ overflowSeen' = overflowUpTo
      /\ UNCHANGED <<store, conns, link, respondedCs, noHsBoot, cursor, counter, ackLocal, outgoing>>
  BY DEF CheckOverflow
<1>2. sessionOpen' \in BOOLEAN /\ noHsConn' \in BOOLEAN /\ batchEnd' \in Nat
  <2>1. sessionOpen \in BOOLEAN /\ noHsConn \in BOOLEAN /\ batchEnd \in Nat
    BY DEF EngineInv, EngineTypeOK
  <2>2. CASE LostUnconfirmed
    <3>1. sessionOpen' \in BOOLEAN /\ noHsConn' \in BOOLEAN
      BY <2>2, Zenon DEF CheckOverflow, CloseSession
    <3>2. batchEnd' = 0
      BY <2>2 DEF CheckOverflow, CloseSession
    <3> QED BY <3>1, <3>2
  <2>3. CASE ~LostUnconfirmed
    BY <2>1, <2>3 DEF CheckOverflow
  <2> QED BY <2>2, <2>3
<1>3. StoreInv'
  BY <1>1, StoreShrinks DEF EngineInv, store
<1>4. EngineTypeOK'
  BY <1>1, <1>2 DEF EngineInv, EngineTypeOK, store, counter, outgoing
<1> QED
  BY <1>3, <1>4 DEF EngineInv

(* What an ack frees, or a kept one leaves.                                  *)
LEMMA AckTypes ==
  ASSUME EngineInv, NEW a \in Nat, AdvanceAck(a) \/ KeepAck
  PROVE  /\ log' \in SUBSET log /\ ackLocal' \in Nat
         /\ cursor' \in Nat \ {0} /\ batchEnd' \in Nat
<1>1. cursor \in Nat \ {0} /\ batchEnd \in Nat /\ ackLocal \in Nat
  BY DEF EngineInv, EngineTypeOK
<1>2. CASE AdvanceAck(a)
  <2> DEFINE c == cursor
             n == a + 1
  <2>1. c \in Nat \ {0} /\ n \in Nat \ {0} /\ cursor' = Max({c, n})
    BY <1>1, <1>2 DEF AdvanceAck
  <2> HIDE DEF c, n
  <2>2. cursor' \in {c, n}
    BY <2>1, MaxOfTwo
  <2>3. cursor' \in Nat \ {0}
    BY <2>1, <2>2
  <2>4. log' \in SUBSET log /\ ackLocal' = a
        /\ batchEnd' = IF batchEnd < cursor' THEN 0 ELSE batchEnd
    BY <1>2 DEF AdvanceAck, DeleteUpTo
  <2> QED BY <1>1, <2>3, <2>4
<1>3. CASE KeepAck
  BY <1>1, <1>3 DEF KeepAck, batch
<1> QED
  BY <1>2, <1>3

LEMMA HandleChallengeEngineInv ==
  ASSUME EngineInv, NEW c \in Challenge, HandleChallenge(c)
  PROVE  EngineInv'
<1>1. /\ c.cs \in Nat \ {0} /\ c.ack \in Nat
      /\ nvsCs \in Nat /\ lastAcceptedCs \in Nat /\ respondedCs \in Nat /\ boot \in Nat /\ conns \in Nat
      /\ responses \in SUBSET Response
  BY DEF Challenge, EngineInv, EngineTypeOK
<1>2. AdvanceAck(c.ack) \/ KeepAck
  BY DEF HandleChallenge
<1>3. /\ log' \in SUBSET log /\ ackLocal' \in Nat
      /\ cursor' \in Nat \ {0} /\ batchEnd' \in Nat
  BY <1>1, <1>2, AckTypes
<1>4. UNCHANGED <<overflowUpTo, next, bootFrom, boot, damage, written, conns, link, sessionOpen,
                  noHsConn, noHsBoot, overflowSeen, sent>>
  BY DEF HandleChallenge
<1>5. StoreInv'
  BY <1>3, <1>4, StoreShrinks DEF EngineInv
<1>6. NewestSeq(log') \in Nat /\ EffectiveTail(log') \in Nat
  <2>1. GoodLog(log') /\ BootsSound(log')
    BY <1>5 DEF StoreInv, GoodLog, BootsSound, BootAt
  <2> QED BY <2>1, NewestSeqType, EffectiveTailType
<1>7. /\ nvsCs' \in Nat /\ lastAcceptedCs' \in Nat /\ respondedCs' \in Nat
      /\ responses' \in SUBSET Response
  <2>1. CASE /\ nvsCs' \in {nvsCs, c.cs}
             /\ UNCHANGED <<lastAcceptedCs, responses, respondedCs>>
    BY <1>1, <2>1
  <2>2. CASE /\ SaveCs(c.cs)
             /\ responses' = responses \cup
                  {[cs |-> c.cs, head |-> NewestSeq(log'), tail |-> EffectiveTail(log'),
                    boot |-> boot, conn |-> conns]}
             /\ respondedCs' = c.cs
    <3> DEFINE r == [cs |-> c.cs, head |-> NewestSeq(log'), tail |-> EffectiveTail(log'),
                     boot |-> boot, conn |-> conns]
    <3>1. r \in Response
      BY <1>1, <1>6 DEF Response
    <3>2. responses' = responses \cup {r}
      BY <2>2
    <3> HIDE DEF r
    <3> QED BY <1>1, <2>2, <3>1, <3>2 DEF SaveCs
  <2> QED BY <2>1, <2>2 DEF HandleChallenge
<1>8. log' \in SUBSET Segment
  BY <1>3 DEF EngineInv, EngineTypeOK
<1>9. EngineTypeOK'
  BY <1>3, <1>4, <1>7, <1>8 DEF EngineInv, EngineTypeOK
<1> QED
  BY <1>5, <1>9 DEF EngineInv

LEMMA HandleAckEngineInv ==
  ASSUME EngineInv, NEW a \in Ack, HandleAck(a)
  PROVE  EngineInv'
<1>1. a.ack \in Nat /\ sessionOpen \in BOOLEAN /\ noHsConn \in BOOLEAN /\ noHsBoot \in BOOLEAN
  BY DEF Ack, EngineInv, EngineTypeOK
<1>2. AdvanceAck(a.ack) \/ KeepAck
  BY DEF HandleAck
<1>3. /\ log' \in SUBSET log /\ ackLocal' \in Nat
      /\ cursor' \in Nat \ {0} /\ batchEnd' \in Nat
  BY <1>1, <1>2, AckTypes
<1>4. UNCHANGED <<overflowUpTo, next, bootFrom, boot, damage, written, conns, link, respondedCs,
                  counter, overflowSeen, outgoing>>
  BY DEF HandleAck
<1>5. sessionOpen' \in BOOLEAN /\ noHsConn' \in BOOLEAN /\ noHsBoot' \in BOOLEAN
  <2>1. CASE Opens(a)
    <3>1. sessionOpen' \in BOOLEAN /\ noHsConn' \in BOOLEAN
      BY <2>1, Zenon DEF HandleAck
    <3>2. noHsBoot' = (noHsBoot /\ a.anchorFailed)
      BY <2>1 DEF HandleAck
    <3>3. noHsBoot' \in BOOLEAN
      <4>1. CASE noHsBoot /\ a.anchorFailed
        BY <3>2, <4>1
      <4>2. CASE ~(noHsBoot /\ a.anchorFailed)
        BY <3>2, <4>2
      <4> QED BY <4>1, <4>2
    <3> QED BY <3>1, <3>3
  <2>2. CASE ~Opens(a)
    BY <1>1, <2>2 DEF HandleAck
  <2> QED BY <2>1, <2>2
<1>6. StoreInv'
  BY <1>3, <1>4, StoreShrinks DEF EngineInv
<1>7. log' \in SUBSET Segment
  BY <1>3 DEF EngineInv, EngineTypeOK
<1>8. EngineTypeOK'
  BY <1>3, <1>4, <1>5, <1>7 DEF EngineInv, EngineTypeOK, counter, outgoing
<1> QED
  BY <1>6, <1>8 DEF EngineInv

-------------------------------------------------------------------------------
(* Blocks                                                                    *)

(* A LOSS declares a run of at least one seq, corrupt from the second on.    *)
LEMMA FindLossEndType ==
  ASSUME NEW s \in Nat
  PROVE  /\ FindLossEnd(s) \in Nat /\ s <= FindLossEnd(s)
         /\ \A q \in s + 1..FindLossEnd(s) : ReadStatus(log, q) = "Corrupt"
<1> DEFINE top  == s + MaxLossRun - 1
           ends == {to \in s..top :
                      \A q \in s + 1..to : q <= NewestSeq(log) /\ ReadStatus(log, q) = "Corrupt"}
<1>1. top \in Nat /\ s <= top
  BY EngineAssumption
<1>2. s \in s..top /\ \A q \in s + 1..s : FALSE
  BY <1>1
<1>3. ends \in SUBSET (s..top) /\ s \in ends
  BY <1>2
<1>4. FindLossEnd(s) = Max(ends)
  BY DEF FindLossEnd
<1> HIDE DEF ends, top
<1>5. IsFiniteSet(s..top)
  BY <1>1, FS_Interval
<1>6. IsFiniteSet(ends)
  BY <1>3, <1>5, FS_Subset
<1>7. ends \in SUBSET Int /\ ends # {}
  BY <1>1, <1>3
<1>8. Max(ends) \in ends
  BY <1>6, <1>7, MaxOfFinite
<1>9. FindLossEnd(s) \in s..top
  BY <1>3, <1>4, <1>8
<1>10. \A q \in s + 1..FindLossEnd(s) : ReadStatus(log, q) = "Corrupt"
  BY <1>4, <1>8 DEF ends
<1> QED
  BY <1>1, <1>9, <1>10

LEMMA NextStoredType ==
  ASSUME NEW l, GoodLog(l), NEW q \in Nat \ {0}
  PROVE  NextStoredSeq(l, q) \in Nat /\ (NextStoredSeq(l, q) > 0 => NextStoredSeq(l, q) >= q)
<1> DEFINE later == {s \in l : LastSeq(s) >= q}
<1>1. CASE later = {}
  BY <1>1 DEF NextStoredSeq
<1>2. CASE later # {}
  <2>1. later \in SUBSET Segment /\ IsFiniteSet(later)
    BY FS_Subset DEF GoodLog
  <2> DEFINE first == OldestSeg(later).first
  <2>2. first \in Nat
    BY <1>2, <2>1, OldestExists, SegmentFields
  <2>3. NextStoredSeq(l, q) = Max({q, first})
    BY <1>2 DEF NextStoredSeq
  <2> HIDE DEF first
  <2>4. Max({q, first}) \in {q, first} /\ Max({q, first}) >= q
    BY <2>2, MaxOfTwo
  <2> QED BY <2>2, <2>3, <2>4
<1> QED
  BY <1>1, <1>2

LEMMA LossType ==
  ASSUME NEW s \in Nat \ {0}, NEW to \in Nat
  PROVE  Loss(s, to) \in Message
BY DEF Loss, Message

LEMMA BlockOfType ==
  ASSUME EngineInv, NEW s \in Nat \ {0}, ReadStatus(log, s) = "Ok"
  PROVE  BlockOf(s) \in Message
<1> DEFINE r == RecordAt(log, s)
<1>1. r \in Record /\ BootAt(r, s)
  BY ReadableIsHeld, RecordAtHeld DEF EngineInv, StoreInv
<1>2. BlockOf(s) = IF r.kind = "BOOT" THEN [seq |-> s, kind |-> "BOOT", from |-> r.from, to |-> r.to]
                   ELSE [seq |-> s, kind |-> "DATA", from |-> s, to |-> s]
  BY DEF BlockOf
<1> HIDE DEF r
<1> QED
  BY <1>1, <1>2 DEF BootAt, Message

LEMMA SendNextBlockEngineInv == EngineInv /\ SendNextBlock => EngineInv'
<1> SUFFICES ASSUME EngineInv, SendNextBlock PROVE EngineInv'
  OBVIOUS
<1>1. /\ cursor \in Nat \ {0} /\ batchEnd \in Nat /\ overflowSeen \in Nat /\ overflowUpTo \in Nat
      /\ sent \in SUBSET Message /\ GoodLog(log)
  BY DEF EngineInv, EngineTypeOK, StoreInv
<1>2. UNCHANGED <<store, conns, session, counter, ackLocal, responses>>
  BY DEF SendNextBlock
<1>3. ASSUME NEW m \in Message, NEW n \in Nat \ {0}, Transmit(m, n)
      PROVE  cursor' \in Nat \ {0} /\ batchEnd' \in Nat /\ sent' \in SUBSET Message
  BY <1>1, <1>3 DEF Transmit
<1>4. /\ cursor' \in Nat \ {0} /\ batchEnd' \in Nat /\ sent' \in SUBSET Message
  <2>1. CASE batchEnd' = 0 /\ UNCHANGED <<cursor, sent>>
    BY <1>1, <2>1
  <2>2. CASE ReadStatus(log, cursor) = "Ok" /\ Transmit(BlockOf(cursor), cursor + 1)
    <3>1. BlockOf(cursor) \in Message /\ cursor + 1 \in Nat \ {0}
      BY <1>1, <2>2, BlockOfType
    <3> QED BY <1>3, <2>2, <3>1
  <2>3. CASE Transmit(Loss(cursor, FindLossEnd(cursor)), FindLossEnd(cursor) + 1)
    <3> DEFINE to == FindLossEnd(cursor)
    <3>1. to \in Nat
      BY <1>1, FindLossEndType
    <3> HIDE DEF to
    <3>2. Loss(cursor, to) \in Message /\ to + 1 \in Nat \ {0}
      BY <1>1, <3>1, LossType
    <3>3. Transmit(Loss(cursor, to), to + 1)
      BY <2>3 DEF to
    <3> QED BY <1>3, <3>2, <3>3
  <2>4. CASE SkipMissing(cursor)
    <3> DEFINE t == NextStoredSeq(log, cursor)
               end == t - 1
               run == cursor + MaxLossRun - 1
               to  == Min({end, run})
    <3>1. t \in Nat
      BY <1>1, NextStoredType
    <3>2. \/ batchEnd' = 0 /\ UNCHANGED <<sent, cursor>>
          \/ t > 0 /\ cursor' = t /\ batchEnd' = Max({batchEnd, t}) /\ UNCHANGED sent
          \/ t > 0 /\ Transmit(Loss(cursor, to), to + 1)
      BY <2>4 DEF SkipMissing
    <3> HIDE DEF t
    <3>3. CASE t > 0 /\ cursor' = t /\ batchEnd' = Max({batchEnd, t}) /\ UNCHANGED sent
      <4> DEFINE b == batchEnd
      <4>1. b \in Nat
        BY <1>1
      <4> HIDE DEF b
      <4>2. Max({b, t}) \in {b, t}
        BY <3>1, <4>1, MaxOfTwo
      <4>3. batchEnd' = Max({b, t})
        BY <3>3 DEF b
      <4> QED BY <1>1, <3>1, <3>3, <4>1, <4>2, <4>3
    <3>4. CASE t > 0 /\ Transmit(Loss(cursor, to), to + 1)
      <4>1. end \in Nat /\ run \in Nat
        BY <1>1, <3>1, <3>4, EngineAssumption
      <4> HIDE DEF end, run
      <4>2. to \in {end, run}
        BY <4>1, MinOfTwo
      <4>3. to \in Nat
        BY <4>1, <4>2
      <4> HIDE DEF to
      <4>4. Loss(cursor, to) \in Message /\ to + 1 \in Nat \ {0}
        BY <1>1, <4>3, LossType
      <4> QED BY <1>3, <3>4, <4>4
    <3> QED BY <1>1, <3>2, <3>3, <3>4
  <2> QED BY <2>1, <2>2, <2>3, <2>4 DEF SendNextBlock
<1>5. overflowSeen' \in Nat
  <2> DEFINE a == overflowSeen
             b == overflowUpTo
  <2>1. a \in Nat /\ b \in Nat
    BY <1>1
  <2>2. overflowSeen' = a \/ overflowSeen' = Max({a, b})
    BY DEF SendNextBlock
  <2> HIDE DEF a, b
  <2>3. Max({a, b}) \in {a, b}
    BY <2>1, MaxOfTwo
  <2> QED BY <2>1, <2>2, <2>3
<1>6. StoreInv'
  BY <1>2, StoreShrinks DEF EngineInv, store
<1>7. EngineTypeOK'
  BY <1>2, <1>4, <1>5 DEF EngineInv, EngineTypeOK, store, session, counter
<1> QED
  BY <1>6, <1>7 DEF EngineInv

-------------------------------------------------------------------------------
(* Both ends                                                                 *)

EndsInv == EngineInv /\ ServerInv

LEMMA InitEndsInv == Init => EndsInv
BY InitEngineInv, InitServerInv DEF Init, EndsInv

LEMMA EngineInvStays == EngineInv /\ UNCHANGED engineVars => EngineInv'
<1> SUFFICES ASSUME EngineInv, UNCHANGED engineVars PROVE EngineInv'
  OBVIOUS
<1>1. StoreInv'
  BY StoreShrinks DEF EngineInv, engineVars, store
<1>2. EngineTypeOK'
  BY DEF EngineInv, EngineTypeOK, engineVars, store, session, batch, counter, outgoing
<1> QED
  BY <1>1, <1>2 DEF EngineInv

LEMMA ServerInvStays == ServerInv /\ UNCHANGED serverVars => ServerInv'
<1> SUFFICES ASSUME ServerInv, UNCHANGED serverVars PROVE ServerInv'
  OBVIOUS
<1>1. ServerTypeOK' /\ SentBehind'
  BY DEF ServerInv, ServerTypeOK, SentBehind, serverVars
<1>2. Decides(1, contiguousSeq, rawBlocks, gaps)'
  BY DEF ServerInv, Decides, SeqsOf, RangesOf, Apart, OneRow, serverVars
<1> QED
  BY <1>1, <1>2 DEF ServerInv

LEMMA NextEndsInv == EndsInv /\ [Next]_vars => EndsInv'
<1> SUFFICES ASSUME EndsInv, [Next]_vars PROVE EndsInv'
  OBVIOUS
<1>1. EngineInv /\ ServerInv
  BY DEF EndsInv
<1>2. challenges \in SUBSET Challenge /\ acks \in SUBSET Ack
      /\ responses \in SUBSET Response /\ sent \in SUBSET Message
  BY <1>1 DEF ServerInv, ServerTypeOK, EngineInv, EngineTypeOK
<1>3. CASE EngineNext /\ UNCHANGED serverVars
  <2>1. EngineInv'
    BY <1>1, <1>3, WriteEngineInv, PowerOnEngineInv, RotEngineInv, LinkEngineInv,
       OnConnectedEngineInv, HandleBatchRequestEngineInv, CheckOverflowEngineInv,
       SendNextBlockEngineInv DEF EngineNext
  <2> QED BY <1>1, <1>3, <2>1, ServerInvStays DEF EndsInv
<1>4. CASE IssueChallenge /\ UNCHANGED engineVars
  BY <1>1, <1>4, IssueServerInv, EngineInvStays DEF EndsInv
<1>5. CASE DeliverChallenge
  BY <1>1, <1>2, <1>5, HandleChallengeEngineInv, ServerInvStays DEF DeliverChallenge, EndsInv
<1>6. CASE DeliverAck
  BY <1>1, <1>2, <1>6, HandleAckEngineInv, ServerInvStays DEF DeliverAck, EndsInv
<1>7. CASE DeliverResponse
  <2>1. PICK r \in responses : RespondChallenge(r) /\ UNCHANGED engineVars
    BY <1>7 DEF DeliverResponse
  <2>2. r.cs \in Nat \ {0} /\ r.head \in Nat /\ r.tail \in Nat /\ r.boot \in Nat
    BY <1>2 DEF Response
  <2> QED BY <1>1, <2>1, <2>2, RespondServerInv, EngineInvStays DEF EndsInv
<1>8. CASE DeliverBlocks
  <2>1. PICK bs \in SeqOf(sent, MaxBatch) : ReceiveBatch(bs) /\ UNCHANGED engineVars
    BY <1>8 DEF DeliverBlocks
  <2>2. PICK m \in 0..MaxBatch : bs \in [1..m -> sent]
    BY <2>1 DEF SeqOf
  <2>3. sent \subseteq Block
    BY <1>2 DEF Message, Block
  <2>4. bs \in Seq(Block)
    BY <2>2, <2>3, ServerAssumption
  <2> QED BY <1>1, <2>1, <2>4, ReceiveServerInv, EngineInvStays DEF EndsInv
<1>9. CASE UNCHANGED vars
  BY <1>1, <1>9, EngineInvStays, ServerInvStays DEF vars, EndsInv
<1> QED
  BY <1>3, <1>4, <1>5, <1>6, <1>7, <1>8, <1>9 DEF Next

THEOREM EndsInvariance == Spec => []EndsInv
<1>1. Init => EndsInv
  BY InitEndsInv
<1>2. EndsInv /\ [Next]_vars => EndsInv'
  BY NextEndsInv
<1> QED
  BY <1>1, <1>2, PTL DEF Spec

-------------------------------------------------------------------------------
(* What the runs check                                                       *)

(* Both ends keep their types: no handler of SyncEngine, challenge or batch  *)
(* leaves a counter, a seq or a message out of its range.                    *)
THEOREM TypeCorrect == Spec => []TypeOK
<1>1. EndsInv => TypeOK
  BY DEF EndsInv, EngineInv, ServerInv, TypeOK
<1> QED
  BY <1>1, EndsInvariance, PTL

(* receive_batch.go and respond_challenge.go: whatever the app delivers, in  *)
(* whatever order and however often, each seq up to the ACK is decided by    *)
(* one row, and the INSERT of the next accepted block meets no stored seq.   *)
THEOREM DecidedOnceAlways == Spec => []EachSeqDecidedOnce
<1>1. EndsInv => EachSeqDecidedOnce
  <2> SUFFICES ASSUME EndsInv PROVE EachSeqDecidedOnce
    OBVIOUS
  <2>1. AckIsDecided /\ \A b \in Block : ~Conflict(Apply(<<b>>).accepted)
    BY DecidedOnce DEF EndsInv
  <2>2. sent \subseteq Block
    BY DEF EndsInv, EngineInv, EngineTypeOK, Message, Block
  <2> QED BY <2>1, <2>2 DEF EachSeqDecidedOnce, StoreNeverConflicts
<1> QED
  BY <1>1, EndsInvariance, PTL

-------------------------------------------------------------------------------
(* One response per challenge, and the session                               *)

(* The counter of every response ever sent is at most the last one accepted, *)
(* and NVS is never behind that one.                                         *)
CounterKept ==
  /\ \A r \in responses : r.cs <= lastAcceptedCs
  /\ lastAcceptedCs <= nvsCs

(* The handshake that an ACK can open is one of this boot and connection.    *)
RespondedHere ==
  respondedCs > 0 =>
    \E r \in responses : r.cs = respondedCs /\ r.conn = conns /\ r.boot = boot

SessInv == EndsInv /\ CounterKept /\ OneResponsePerChallenge /\ RespondedHere /\ SessionOrRetry

LEMMA InitSessInv == Init => SessInv
<1> SUFFICES ASSUME Init PROVE SessInv
  OBVIOUS
<1>1. EndsInv
  BY InitEndsInv
<1>2. responses = {} /\ lastAcceptedCs = 0 /\ nvsCs = 0 /\ respondedCs = 0 /\ link = "down"
      /\ sessionOpen = FALSE
  BY DEF Init, EngineInit
<1>3. CounterKept /\ OneResponsePerChallenge /\ RespondedHere
  BY <1>2 DEF CounterKept, OneResponsePerChallenge, RespondedHere
<1>4. SessionOrRetry
  BY <1>2 DEF SessionOrRetry, SessionWasAccepted
<1> QED
  BY <1>1, <1>3, <1>4 DEF SessInv

(* A step that starts no session: responses, counters and the connection     *)
(* stay, and a session that goes on is one that was open.                    *)
LEMMA NoHandshakeStep ==
  ASSUME SessInv, EndsInv', cConf <= cConf',
         UNCHANGED <<responses, nvsCs, lastAcceptedCs, conns, boot>>,
         respondedCs' = respondedCs, sessionOpen' => sessionOpen,
         link' # "down" => (sessionOpen' <=> ~noHsConn')
  PROVE  SessInv'
<1>1. CounterKept' /\ OneResponsePerChallenge' /\ RespondedHere'
  BY DEF SessInv, CounterKept, OneResponsePerChallenge, RespondedHere
<1>2. SessionOrRetry'
  <2>1. cConf \in Nat /\ cConf' \in Nat /\ responses \in SUBSET Response
    BY DEF SessInv, EndsInv, EngineInv, EngineTypeOK, ServerInv, ServerTypeOK
  <2>2. SessionWasAccepted'
    <3> SUFFICES ASSUME sessionOpen'
                 PROVE  \E r \in responses : r.conn = conns /\ r.boot = boot /\ r.cs <= cConf'
      BY DEF SessionWasAccepted
    <3>1. PICK r \in responses : r.conn = conns /\ r.boot = boot /\ r.cs <= cConf
      BY DEF SessInv, SessionOrRetry, SessionWasAccepted
    <3>2. r.cs \in Nat
      BY <2>1 DEF Response
    <3> QED BY <2>1, <3>1, <3>2
  <2> QED BY <2>2 DEF SessionOrRetry
<1> QED
  BY <1>1, <1>2 DEF SessInv

(* A step that ends the session and the handshake.                           *)
LEMMA FreshStep ==
  ASSUME SessInv, EndsInv', UNCHANGED <<responses, nvsCs>>,
         lastAcceptedCs' \in {lastAcceptedCs, nvsCs}, respondedCs' = 0,
         sessionOpen' = FALSE, noHsConn' = TRUE
  PROVE  SessInv'
<1>1. nvsCs \in Nat /\ lastAcceptedCs \in Nat /\ responses \in SUBSET Response
  BY DEF SessInv, EndsInv, EngineInv, EngineTypeOK
<1>2. \A r \in responses : r.cs \in Nat
  BY <1>1 DEF Response
<1>3. CounterKept'
  BY <1>1, <1>2 DEF SessInv, CounterKept
<1>4. OneResponsePerChallenge' /\ RespondedHere' /\ SessionOrRetry'
  BY DEF SessInv, OneResponsePerChallenge, RespondedHere, SessionOrRetry, SessionWasAccepted
<1> QED
  BY <1>3, <1>4 DEF SessInv

LEMMA HandleChallengeSessInv ==
  ASSUME SessInv, EndsInv', NEW c \in Challenge, HandleChallenge(c), UNCHANGED serverVars
  PROVE  SessInv'
<1>1. /\ c.cs \in Nat \ {0} /\ nvsCs \in Nat /\ lastAcceptedCs \in Nat
      /\ responses \in SUBSET Response
  BY DEF Challenge, SessInv, EndsInv, EngineInv, EngineTypeOK
<1>2. \A r \in responses : r.cs \in Nat
  BY <1>1 DEF Response
<1>3. /\ c.cs > lastAcceptedCs /\ cConf' = cConf
      /\ UNCHANGED <<conns, boot, link, sessionOpen, noHsConn>>
  BY DEF HandleChallenge, serverVars
<1>4. (\A r \in responses : r.cs <= lastAcceptedCs) /\ lastAcceptedCs <= nvsCs
  BY DEF SessInv, CounterKept
<1>5. SessionOrRetry' \/ ~(responses \subseteq responses')
  BY <1>3 DEF SessInv, SessionOrRetry, SessionWasAccepted
<1>6. CASE nvsCs' \in {nvsCs, c.cs} /\ UNCHANGED <<lastAcceptedCs, responses, respondedCs>>
  <2>1. CounterKept'
    BY <1>1, <1>3, <1>4, <1>6 DEF CounterKept
  <2>2. OneResponsePerChallenge' /\ RespondedHere'
    BY <1>3, <1>6 DEF SessInv, OneResponsePerChallenge, RespondedHere
  <2> QED BY <1>5, <1>6, <2>1, <2>2 DEF SessInv
<1>7. CASE /\ SaveCs(c.cs)
           /\ responses' = responses \cup
                {[cs |-> c.cs, head |-> NewestSeq(log'), tail |-> EffectiveTail(log'),
                  boot |-> boot, conn |-> conns]}
           /\ respondedCs' = c.cs
  <2> DEFINE new == [cs |-> c.cs, head |-> NewestSeq(log'), tail |-> EffectiveTail(log'),
                     boot |-> boot, conn |-> conns]
  <2>1. responses' = responses \cup {new} /\ nvsCs' = c.cs /\ lastAcceptedCs' = c.cs
    BY <1>7 DEF SaveCs
  <2>2. new.cs = c.cs /\ new.conn = conns /\ new.boot = boot
    OBVIOUS
  <2> HIDE DEF new
  <2>3. CounterKept'
    BY <1>1, <1>2, <1>3, <1>4, <2>1, <2>2 DEF CounterKept
  <2>4. OneResponsePerChallenge'
    <3> SUFFICES ASSUME NEW r \in responses', NEW s \in responses', r.cs = s.cs PROVE r = s
      BY DEF OneResponsePerChallenge
    <3>1. \A x \in responses : x.cs # c.cs
      BY <1>1, <1>2, <1>3, <1>4
    <3>2. CASE r \in responses /\ s \in responses
      BY <3>2 DEF SessInv, OneResponsePerChallenge
    <3>3. CASE r = new \/ s = new
      BY <2>1, <2>2, <3>1, <3>3
    <3> QED BY <2>1, <3>2, <3>3
  <2>5. RespondedHere'
    BY <1>3, <1>7, <2>1, <2>2 DEF RespondedHere
  <2> QED BY <1>5, <2>1, <2>3, <2>4, <2>5 DEF SessInv
<1> QED
  BY <1>6, <1>7 DEF HandleChallenge

(* The ACK that opens the session names a handshake that the server accepted.*)
LEMMA HandleAckSessInv ==
  ASSUME SessInv, EndsInv', NEW a \in acks, HandleAck(a), UNCHANGED serverVars
  PROVE  SessInv'
<1>1. /\ UNCHANGED <<responses, nvsCs, lastAcceptedCs, conns, boot>>
      /\ respondedCs' = respondedCs /\ link' = link /\ cConf' = cConf /\ cConf \in Nat
  BY DEF HandleAck, counter, outgoing, serverVars, SessInv, EndsInv, ServerInv, ServerTypeOK
<1>2. CASE ~Opens(a)
  <2>1. UNCHANGED <<sessionOpen, noHsConn>>
    BY <1>2 DEF HandleAck
  <2> QED BY <1>1, <2>1, NoHandshakeStep DEF SessInv, SessionOrRetry
<1>3. CASE Opens(a)
  <2>1. sessionOpen' = TRUE /\ noHsConn' = FALSE
    BY <1>3 DEF HandleAck
  <2>2. a.cConf <= cConf /\ a.cConf = respondedCs /\ respondedCs > 0
    BY <1>3 DEF Opens, SessInv, EndsInv, ServerInv, SentBehind
  <2>3. PICK r \in responses : r.cs = respondedCs /\ r.conn = conns /\ r.boot = boot
    BY <2>2 DEF SessInv, RespondedHere
  <2>4. SessionOrRetry'
    BY <1>1, <2>1, <2>2, <2>3 DEF SessionOrRetry, SessionWasAccepted
  <2>5. CounterKept' /\ OneResponsePerChallenge' /\ RespondedHere'
    BY <1>1 DEF SessInv, CounterKept, OneResponsePerChallenge, RespondedHere
  <2> QED BY <2>4, <2>5 DEF SessInv
<1> QED
  BY <1>2, <1>3

LEMMA NextSessInv == SessInv /\ [Next]_vars => SessInv'
<1> SUFFICES ASSUME SessInv, [Next]_vars PROVE SessInv'
  OBVIOUS
<1>1. EndsInv /\ EndsInv'
  BY NextEndsInv DEF SessInv
<1>2. /\ challenges \in SUBSET Challenge /\ responses \in SUBSET Response
      /\ sent \in SUBSET Message /\ cConf \in Nat
      /\ link # "down" => (sessionOpen <=> ~noHsConn)
  BY <1>1 DEF EndsInv, ServerInv, ServerTypeOK, EngineInv, EngineTypeOK, SessInv, SessionOrRetry
<1>3. ASSUME EngineNext, cConf' = cConf PROVE SessInv'
  <2>1. CASE Write \/ Rot \/ OnSubscribed \/ HandleBatchRequest \/ HandleAppError \/ SendNextBlock
    <3>1. /\ UNCHANGED <<responses, nvsCs, lastAcceptedCs, conns, boot>>
          /\ respondedCs' = respondedCs /\ UNCHANGED <<sessionOpen, noHsConn>>
          /\ link' # "down" => link # "down"
      BY <2>1 DEF Write, Rot, OnSubscribed, HandleBatchRequest, HandleAppError, SendNextBlock,
                  store, session, counter, outgoing
    <3> QED BY <1>1, <1>2, <1>3, <3>1, NoHandshakeStep
  <2>2. CASE PowerOn \/ PowerOnFormatted
    <3>1. PICK found \in {log, {}} : Boot(found)
      BY <2>2 DEF PowerOn, PowerOnFormatted
    <3>2. /\ UNCHANGED <<responses, nvsCs>> /\ lastAcceptedCs' = nvsCs /\ respondedCs' = 0
          /\ sessionOpen' = FALSE /\ noHsConn' = TRUE
      BY <3>1 DEF Boot, outgoing
    <3> QED BY <1>1, <3>2, FreshStep
  <2>3. CASE OnConnected
    <3>1. /\ UNCHANGED <<responses, nvsCs, lastAcceptedCs>> /\ respondedCs' = 0
          /\ sessionOpen' = FALSE /\ noHsConn' = TRUE
      BY <2>3 DEF OnConnected, counter, outgoing
    <3> QED BY <1>1, <3>1, FreshStep
  <2>4. CASE OnDisconnected
    <3>1. /\ UNCHANGED <<responses, nvsCs, lastAcceptedCs, conns, boot>>
          /\ respondedCs' = respondedCs /\ link' = "down" /\ sessionOpen' = FALSE
      BY <2>4 DEF OnDisconnected, store, counter, outgoing
    <3> QED BY <1>1, <1>2, <1>3, <3>1, NoHandshakeStep
  <2>5. CASE CheckOverflow
    <3>1. /\ UNCHANGED <<responses, nvsCs, lastAcceptedCs, conns, boot>>
          /\ respondedCs' = respondedCs /\ link' = link
          /\ \/ sessionOpen' = FALSE /\ noHsConn' = TRUE
             \/ UNCHANGED <<sessionOpen, noHsConn>>
      BY <2>5 DEF CheckOverflow, CloseSession, store, counter, outgoing
    <3> QED BY <1>1, <1>2, <1>3, <3>1, NoHandshakeStep
  <2> QED BY <1>3, <2>1, <2>2, <2>3, <2>4, <2>5 DEF EngineNext
<1>4. CASE EngineNext /\ UNCHANGED serverVars
  BY <1>3, <1>4 DEF serverVars
<1>5. ASSUME UNCHANGED engineVars, cConf <= cConf' PROVE SessInv'
  <2>1. /\ UNCHANGED <<responses, nvsCs, lastAcceptedCs, conns, boot>>
        /\ respondedCs' = respondedCs /\ UNCHANGED <<sessionOpen, noHsConn, link>>
    BY <1>5 DEF engineVars, store, session, counter, outgoing
  <2> QED BY <1>1, <1>2, <1>5, <2>1, NoHandshakeStep
<1>6. CASE IssueChallenge /\ UNCHANGED engineVars
  BY <1>2, <1>5, <1>6 DEF IssueChallenge
<1>7. CASE DeliverChallenge
  BY <1>1, <1>2, <1>7, HandleChallengeSessInv DEF DeliverChallenge
<1>8. CASE DeliverAck
  BY <1>1, <1>8, HandleAckSessInv DEF DeliverAck
<1>9. CASE DeliverResponse
  <2>1. PICK r \in responses : RespondChallenge(r) /\ UNCHANGED engineVars
    BY <1>9 DEF DeliverResponse
  <2>2. cConf' = cConf \/ (r.cs > cConf /\ cConf' = r.cs)
    BY <2>1 DEF RespondChallenge, Answers
  <2>3. cConf <= cConf'
    BY <1>2, <2>2 DEF Response
  <2> QED BY <1>5, <2>1, <2>3
<1>10. CASE DeliverBlocks
  BY <1>2, <1>5, <1>10 DEF DeliverBlocks, ReceiveBatch
<1>11. CASE UNCHANGED vars
  BY <1>2, <1>5, <1>11 DEF vars, serverVars
<1> QED
  BY <1>4, <1>6, <1>7, <1>8, <1>9, <1>10, <1>11 DEF Next

THEOREM SessInvariance == Spec => []SessInv
<1>1. Init => SessInv
  BY InitSessInv
<1>2. SessInv /\ [Next]_vars => SessInv'
  BY NextSessInv
<1> QED
  BY <1>1, <1>2, PTL DEF Spec

(* SyncEngine::handleChallenge (SyncEngine.cpp:185-227): a challenge that is *)
(* delivered again, on another connection or after a reboot, and even after  *)
(* a save of its counter that failed, gets no second response.               *)
THEOREM AnsweredOnce == Spec => []OneResponsePerChallenge
<1>1. SessInv => OneResponsePerChallenge
  BY DEF SessInv
<1> QED
  BY <1>1, SessInvariance, PTL

(* SyncEngine::handleAck opens the session only for the handshake that the   *)
(* server accepted from this boot on this connection; on a link that is up   *)
(* the engine is in session or repeats the notice that asks for one.         *)
THEOREM OpenOrAsking == Spec => []SessionOrRetry
<1>1. SessInv => SessionOrRetry
  BY DEF SessInv
<1> QED
  BY <1>1, SessInvariance, PTL

-------------------------------------------------------------------------------
(* What a step may free                                                      *)

(* A seq still held, or lost with a report.                                  *)
LEMMA WriteReports ==
  ASSUME EngineInv, Write, NEW q \in written, Holds(log, q)
  PROVE  Holds(log', q) \/ q <= overflowUpTo'
<1>1. /\ next \in Nat \ {0} /\ bootFrom \in Nat /\ written \in SUBSET Nat /\ overflowUpTo \in Nat
      /\ GoodLog(log) /\ Ordered(log) /\ Backed(log, written) /\ Follows(next, written) /\ q \in Nat
  BY DEF EngineInv, EngineTypeOK, StoreInv
<1>2. ASSUME NEW new \in BOOLEAN, new \/ log # {}, NEW r \in Record, Put(log, FALSE, new, next, r)
      PROVE  Holds(log', q) \/ q <= overflowUpTo'
  <2>1. PICK kept \in EnsureSpace(log) : log' = AppendOk(kept, new, next, r)
    BY <1>2 DEF Put
  <2> DEFINE m == AppendOk(kept, new, next, r)
  <2>2. Holds(m, q) \/ q <= OverflowAfter(overflowUpTo, log, m)
    BY <1>1, <1>2, AppendReports
  <2>3. log' = m /\ overflowUpTo' = OverflowAfter(overflowUpTo, log, log')
    BY <2>1 DEF Write
  <2> HIDE DEF m
  <2> QED BY <2>2, <2>3
<1>3. CASE bootFrom > 0
  <2> DEFINE r == BootRecord(bootFrom, next)
  <2>1. r \in Record
    BY <1>1, <1>3, BootRecordType
  <2>2. Put(log, FALSE, TRUE, next, r)
    BY <1>3 DEF Write
  <2> HIDE DEF r
  <2> QED BY <1>2, <2>1, <2>2
<1>4. CASE ~(bootFrom > 0)
  <2> DEFINE new == NeedsNewSegment(log, FALSE, next)
             r   == DataRecord
  <2>1. r \in Record
    BY DEF DataRecord, Record
  <2>2. Put(log, FALSE, new, next, r)
    BY <1>4 DEF Write
  <2>3. new \in BOOLEAN /\ (new \/ log # {})
    BY DEF NeedsNewSegment
  <2> HIDE DEF r, new
  <2>4. CASE new = TRUE
    <3>1. Put(log, FALSE, TRUE, next, r)
      BY <2>2, <2>4
    <3> QED BY <1>2, <2>1, <3>1
  <2>5. CASE new = FALSE
    <3>1. Put(log, FALSE, FALSE, next, r) /\ log # {}
      BY <2>2, <2>3, <2>5
    <3> QED BY <1>2, <2>1, <3>1
  <2> QED BY <2>3, <2>4, <2>5
<1> QED
  BY <1>3, <1>4

(* An ack frees what is up to it, and no more.                               *)
LEMMA AckFreesConfirmed ==
  ASSUME EngineInv, NEW a \in Nat, AdvanceAck(a) \/ KeepAck,
         NEW q \in written, Holds(log, q)
  PROVE  Holds(log', q) \/ q <= a
<1>1. CASE KeepAck
  BY <1>1 DEF KeepAck
<1>2. CASE AdvanceAck(a)
  <2>1. log' = DeleteUpTo(log, a) /\ q \in Nat /\ GoodLog(log)
    BY <1>2 DEF AdvanceAck, EngineInv, EngineTypeOK, StoreInv
  <2>2. PICK s \in log : Covers(s, q)
    BY DEF Holds
  <2>3. LastSeq(s) \in Nat /\ q <= LastSeq(s)
    BY <2>1, <2>2, LastSeqType DEF GoodLog, Covers
  <2>4. CASE LastSeq(s) > a
    <3>1. s \in log'
      BY <2>1, <2>2, <2>4 DEF DeleteUpTo
    <3> QED BY <2>2, <3>1 DEF Holds
  <2>5. CASE ~(LastSeq(s) > a)
    BY <2>1, <2>3, <2>5
  <2> QED BY <2>4, <2>5
<1> QED
  BY <1>1, <1>2

(* A record that goes bad leaves its segment where it was.                   *)
LEMMA RotHolds ==
  ASSUME EngineInv, Rot, NEW q, Holds(log, q)
  PROVE  Holds(log', q)
<1>1. PICK s \in log : \E e \in Rotted(s) : log' = (log \ {s}) \cup {e}
  BY DEF Rot
<1>2. PICK e \in Rotted(s) : log' = (log \ {s}) \cup {e}
  BY <1>1
<1>3. s \in Segment /\ s.reach <= Len(s.recs)
  BY DEF GoodLog, EngineInv, StoreInv
<1>4. SameExtent(s, e)
  BY <1>3, RottedSegment
<1>5. Covers(s, q) => Covers(e, q)
  BY <1>4 DEF SameExtent, Covers, LastSeq
<1> QED
  BY <1>2, <1>5 DEF Holds

LEMMA StepFreesConfirmed ==
  ASSUME EndsInv, [Next]_vars, NEW q \in written, Holds(log, q)
  PROVE  Holds(log', q) \/ q <= contiguousSeq \/ q <= overflowUpTo' \/ boot' # boot
<1>1. /\ EngineInv /\ ServerInv /\ q \in Nat /\ boot \in Nat /\ contiguousSeq \in Nat
      /\ challenges \in SUBSET Challenge /\ acks \in SUBSET Ack
  BY DEF EndsInv, EngineInv, EngineTypeOK, ServerInv, ServerTypeOK
<1>2. CASE UNCHANGED log
  BY <1>2 DEF Holds, Covers, LastSeq
<1>3. CASE Write
  BY <1>1, <1>3, WriteReports
<1>4. CASE PowerOn \/ PowerOnFormatted
  <2>1. ASSUME NEW found, Boot(found) PROVE boot' = boot + 1
    BY <2>1, Zenon DEF Boot
  <2>2. boot' = boot + 1
    BY <1>4, <2>1 DEF PowerOn, PowerOnFormatted
  <2> QED BY <1>1, <2>2
<1>5. CASE Rot
  BY <1>1, <1>5, RotHolds
<1>6. CASE \E c \in challenges : HandleChallenge(c)
  <2>1. PICK c \in challenges : HandleChallenge(c)
    BY <1>6
  <2>2. c.ack \in Nat /\ c.ack <= contiguousSeq
    BY <1>1 DEF Challenge, ServerInv, SentBehind
  <2>3. AdvanceAck(c.ack) \/ KeepAck
    BY <2>1 DEF HandleChallenge
  <2>4. Holds(log', q) \/ q <= c.ack
    BY <1>1, <2>2, <2>3, AckFreesConfirmed
  <2> QED BY <1>1, <2>2, <2>4
<1>7. CASE \E a \in acks : HandleAck(a)
  <2>1. PICK a \in acks : HandleAck(a)
    BY <1>7
  <2>2. a.ack \in Nat /\ a.ack <= contiguousSeq
    BY <1>1 DEF Ack, ServerInv, SentBehind
  <2>3. AdvanceAck(a.ack) \/ KeepAck
    BY <2>1 DEF HandleAck
  <2>4. Holds(log', q) \/ q <= a.ack
    BY <1>1, <2>2, <2>3, AckFreesConfirmed
  <2> QED BY <1>1, <2>2, <2>4
<1>8. CASE \/ OnConnected \/ OnDisconnected \/ OnSubscribed \/ HandleBatchRequest
           \/ HandleAppError \/ CheckOverflow \/ SendNextBlock
  BY <1>2, <1>8 DEF OnConnected, OnDisconnected, OnSubscribed, HandleBatchRequest, HandleAppError,
     CheckOverflow, SendNextBlock, store
<1>9. CASE UNCHANGED engineVars
  BY <1>2, <1>9 DEF engineVars, store
<1>10. CASE EngineNext
  BY <1>3, <1>4, <1>5, <1>8, <1>10 DEF EngineNext
<1>11. CASE DeliverChallenge
  BY <1>6, <1>11 DEF DeliverChallenge
<1>12. CASE DeliverAck
  BY <1>7, <1>12 DEF DeliverAck
<1>13. CASE (IssueChallenge /\ UNCHANGED engineVars) \/ DeliverResponse \/ DeliverBlocks \/ UNCHANGED vars
  <2>1. UNCHANGED engineVars
    BY <1>13 DEF DeliverResponse, DeliverBlocks, vars
  <2> QED BY <1>9, <2>1
<1> QED
  BY <1>10, <1>11, <1>12, <1>13 DEF Next

(* SyncEngine::advanceAck and LittleFsBlockStore::discardOldest: outside a   *)
(* boot a seq leaves the flash only when the server decided it or the        *)
(* discard that overflowUpTo reports covers it.                              *)
THEOREM FreedIsConfirmed == Spec => FreedOnlyConfirmed
<1> DEFINE A == \A q \in written : Holds(log, q) =>
                  Holds(log', q) \/ q <= contiguousSeq \/ q <= overflowUpTo' \/ boot' # boot
<1>1. EndsInv /\ [Next]_vars => [A]_vars
  BY StepFreesConfirmed
<1>2. Spec => [][A]_vars
  BY <1>1, EndsInvariance, PTL DEF Spec
<1> QED
  BY <1>2 DEF FreedOnlyConfirmed

-------------------------------------------------------------------------------
(* The ends of the log                                                       *)

LEMMA HeldInside ==
  ASSUME NEW l, GoodLog(l), Ordered(l), NEW q \in Nat, Holds(l, q)
  PROVE  l # {} /\ OldestSeq(l) <= q /\ q <= NewestSeq(l)
<1>1. PICK s \in l : Covers(s, q)
  BY DEF Holds
<1>2. \A t \in l : t.first \in Nat /\ LastSeq(t) \in Nat /\ t.first <= LastSeq(t)
  BY SegmentFields DEF GoodLog, Ordered
<1> DEFINE o == OldestSeg(l)
           n == NewestSeg(l)
<1>3. o \in l /\ o.first <= s.first /\ n \in l /\ s.first <= n.first
  BY OldestExists, NewestExists DEF GoodLog
<1>4. OldestSeq(l) = o.first /\ NewestSeq(l) = LastSeq(n)
  BY DEF OldestSeq, NewestSeq
<1> HIDE DEF o, n
<1>5. s = n \/ LastSeq(s) < n.first \/ LastSeq(n) < s.first
  BY <1>3 DEF Ordered
<1> QED
  BY <1>1, <1>2, <1>3, <1>4, <1>5 DEF Covers

LEMMA GoneOutside ==
  ASSUME NEW l, GoodLog(l), Ordered(l), NEW lo \in Nat, NEW hi \in Int,
         hi < OldestSeq(l) \/ NewestSeq(l) < lo \/ l = {}
  PROVE  Gone(l, lo, hi)
<1> SUFFICES ASSUME NEW q \in lo..hi, Holds(l, q) PROVE FALSE
  BY ReadableIsHeld DEF Gone, Readable
<1>1. q \in Nat /\ lo <= q /\ q <= hi
  OBVIOUS
<1>2. l # {} /\ OldestSeq(l) <= q /\ q <= NewestSeq(l)
  BY <1>1, HeldInside
<1>3. OldestSeq(l) \in Nat /\ NewestSeq(l) \in Nat
  BY OldestSeqType, NewestSeqType
<1> QED
  BY <1>1, <1>2, <1>3

LEMMA LastBelow ==
  ASSUME NEW l, GoodLog(l), Ordered(l), NEW W, Backed(l, W), NEW n \in Nat, Follows(n, W)
  PROVE  /\ \A s \in l : LastSeq(s) < n
         /\ NewestSeq(l) < n \/ l = {}
         /\ \A q \in Nat : Holds(l, q) => q < n
<1>1. ASSUME NEW s \in l PROVE LastSeq(s) < n
  <2>1. s.first \in Nat /\ LastSeq(s) \in Nat /\ s.first <= LastSeq(s)
    BY SegmentFields DEF GoodLog, Ordered
  <2>2. LastSeq(s) \in s.first..LastSeq(s)
    BY <2>1
  <2> QED BY <2>2 DEF Backed, Follows
<1>2. NewestSeq(l) < n \/ l = {}
  <2>1. l # {} => NewestSeg(l) \in l /\ NewestSeq(l) = LastSeq(NewestSeg(l))
    BY NewestExists DEF GoodLog, NewestSeq
  <2> QED BY <1>1, <2>1
<1>3. ASSUME NEW q \in Nat, Holds(l, q) PROVE q < n
  <2>1. l # {} /\ q <= NewestSeq(l) /\ NewestSeq(l) \in Nat
    BY <1>3, HeldInside, NewestSeqType
  <2> QED BY <1>2, <2>1
<1> QED
  BY <1>1, <1>2, <1>3

(* What lies below the TAIL is gone.                                         *)
LEMMA TailIsGone ==
  ASSUME NEW l, GoodLog(l), BootsSound(l), Ordered(l)
  PROVE  /\ Gone(l, 1, EffectiveTail(l) - 1)
         /\ l # {} => EffectiveTail(l) <= OldestSeq(l)
         /\ l = {} => EffectiveTail(l) = 1
<1>1. EffectiveTail(l) \in Nat \ {0} /\ OldestSeq(l) \in Nat
  BY EffectiveTailType, OldestSeqType
<1>2. CASE l = {}
  <2>1. EffectiveTail(l) = 1
    BY <1>2 DEF EffectiveTail
  <2> QED BY <1>2, <2>1 DEF Gone
<1>3. CASE l # {}
  <2> DEFINE q == OldestSeq(l)
             r == RecordAt(l, q)
  <2>1. EffectiveTail(l) =
          IF ReadStatus(l, q) = "Ok" /\ r.kind = "BOOT" /\ r.from <= q THEN r.from ELSE q
    BY <1>3 DEF EffectiveTail
  <2>2. EffectiveTail(l) <= q
    <3>1. q \in Nat
      BY <1>1
    <3> HIDE DEF q, r
    <3> QED BY <2>1, <3>1
  <2> DEFINE hi == EffectiveTail(l) - 1
  <2>3. hi \in Int /\ hi < OldestSeq(l)
    BY <1>1, <2>2
  <2> HIDE DEF hi
  <2>4. Gone(l, 1, hi)
    BY <2>3, GoneOutside
  <2> QED BY <1>3, <2>2, <2>4 DEF hi
<1> QED
  BY <1>2, <1>3

(* Between a seq and the next stored one nothing is held.                    *)
LEMMA NextStoredGap ==
  ASSUME NEW l, GoodLog(l), Ordered(l), NEW q \in Nat \ {0}, NextStoredSeq(l, q) > 0
  PROVE  /\ NextStoredSeq(l, q) \in Nat
         /\ \E s \in l : NextStoredSeq(l, q) <= LastSeq(s)
         /\ \A x \in q..NextStoredSeq(l, q) - 1 : ~Holds(l, x)
<1> DEFINE later == {s \in l : LastSeq(s) >= q}
           o == OldestSeg(later)
           f == o.first
           t == NextStoredSeq(l, q)
<1>1. later # {} /\ t = Max({q, f})
  BY DEF NextStoredSeq
<1>2. \A s \in l : s.first \in Nat /\ LastSeq(s) \in Nat /\ s.first <= LastSeq(s)
  BY SegmentFields DEF GoodLog, Ordered
<1>3. later \in SUBSET Segment /\ IsFiniteSet(later)
  BY FS_Subset DEF GoodLog
<1>4. o \in later /\ \A s \in later : o.first <= s.first
  BY <1>1, <1>3, OldestExists
<1>5. o \in l /\ LastSeq(o) >= q /\ f \in Nat /\ f <= LastSeq(o) /\ LastSeq(o) \in Nat
  BY <1>2, <1>4
<1> HIDE DEF f
<1>6. Max({q, f}) \in {q, f}
  <2>1. q \in Int /\ f \in Int
    BY <1>5
  <2> QED BY <2>1, MaxOfTwo
<1>7. t \in {q, f}
  BY <1>1, <1>6
<1> HIDE DEF t
<1>8. t \in Nat /\ t <= LastSeq(o)
  BY <1>5, <1>7
<1>9. ASSUME NEW x \in q..t - 1, Holds(l, x) PROVE FALSE
  <2>1. PICK s \in l : s.first <= x /\ x <= LastSeq(s)
    BY <1>9 DEF Holds, Covers
  <2>2. s \in later
    BY <1>2, <1>8, <2>1
  <2>3. f <= s.first
    BY <1>4, <2>2 DEF f
  <2> QED BY <1>2, <1>5, <1>7, <2>1, <2>3
<1> QED
  BY <1>5, <1>8, <1>9 DEF t

-------------------------------------------------------------------------------
(* What is declared lost is lost                                             *)

(* The gap that a pending BOOT will declare is below the next seq, and gone. *)
LogTrue(l, n, bf) ==
  /\ ReadTo(l) /\ BootsGone(l)
  /\ bf > 0 => bf <= n /\ Gone(l, bf, n - 1)

(* A block on its way was written; a range it declares is gone.              *)
SentTrue(l, w, n, ms) ==
  \A m \in ms : /\ m.seq < n /\ m.to < n
                /\ m.kind # "LOSS" => m.seq \in w
                /\ m.kind # "DATA" => Gone(l, m.from, m.to)

(* So is what lies below the TAIL of any response.                           *)
ResponsesTrue(l, n, rs) == \A r \in rs : r.tail <= n /\ Gone(l, 1, r.tail - 1)

(* What the server decided was written or is gone.                           *)
DecidedTrue(l, w, n, c, raw, gs) ==
  /\ c < n
  /\ \A b \in raw : b.kind # "LOSS" => b.seq \in w
  /\ \A g \in gs : g.to < n /\ Gone(l, g.from, g.to)

TrueInv ==
  /\ EndsInv
  /\ LogTrue(log, next, bootFrom)
  /\ SentTrue(log, written, next, sent)
  /\ ResponsesTrue(log, next, responses)
  /\ DecidedTrue(log, written, next, contiguousSeq, rawBlocks, gaps)

LEMMA TrueInvOf ==
  ASSUME EndsInv',
         LogTrue(log', next', bootFrom'), SentTrue(log', written', next', sent'),
         ResponsesTrue(log', next', responses'),
         DecidedTrue(log', written', next', contiguousSeq', rawBlocks', gaps')
  PROVE  TrueInv'
BY DEF TrueInv, LogTrue, SentTrue, ResponsesTrue, DecidedTrue, ReadTo, BootsGone, Gone, Readable, ReadStatus, Holds, Covers,
   LastSeq, SegmentOf, RecordAt

LEMMA RangesStay ==
  ASSUME NEW l, NEW m, NEW n \in Nat, NEW k \in Nat, n <= k, NoBack(m, l, n), NEW w, NEW v, w \subseteq v,
         NEW ms \in SUBSET Message, NEW rs \in SUBSET Response, NEW c \in Nat,
         NEW raw, NEW gs \in SUBSET Gap
  PROVE  /\ SentTrue(l, w, n, ms) => SentTrue(m, v, k, ms)
         /\ ResponsesTrue(l, n, rs) => ResponsesTrue(m, k, rs)
         /\ DecidedTrue(l, w, n, c, raw, gs) => DecidedTrue(m, v, k, c, raw, gs)
<1>1. ASSUME SentTrue(l, w, n, ms), NEW x \in ms
      PROVE  /\ x.seq < k /\ x.to < k
             /\ x.kind # "LOSS" => x.seq \in v
             /\ x.kind # "DATA" => Gone(m, x.from, x.to)
  <2>1. /\ x.seq \in Nat /\ x.from \in Nat /\ x.to \in Nat /\ x.to \in Int
        /\ x.seq < n /\ x.to < n
        /\ x.kind # "LOSS" => x.seq \in w
        /\ x.kind # "DATA" => Gone(l, x.from, x.to)
    BY <1>1 DEF SentTrue, Message
  <2>2. x.kind # "DATA" => Gone(m, x.from, x.to)
    BY <2>1, GoneStays
  <2> QED BY <2>1, <2>2
<1>2. ASSUME ResponsesTrue(l, n, rs), NEW x \in rs
      PROVE  x.tail <= k /\ Gone(m, 1, x.tail - 1)
  <2> DEFINE hi == x.tail - 1
  <2>1. x.tail \in Nat /\ x.tail <= n /\ hi \in Int /\ hi < n /\ Gone(l, 1, hi)
    BY <1>2 DEF ResponsesTrue, Response
  <2> HIDE DEF hi
  <2>2. Gone(m, 1, hi)
    BY <2>1, GoneStays
  <2> QED BY <2>1, <2>2 DEF hi
<1>3. ASSUME DecidedTrue(l, w, n, c, raw, gs), NEW g \in gs
      PROVE  g.to < k /\ Gone(m, g.from, g.to)
  <2>1. g.from \in Nat /\ g.to \in Nat /\ g.to \in Int /\ g.to < n /\ Gone(l, g.from, g.to)
    BY <1>3 DEF DecidedTrue, Gap
  <2>2. Gone(m, g.from, g.to)
    BY <2>1, GoneStays
  <2> QED BY <2>1, <2>2
<1>4. SentTrue(l, w, n, ms) => SentTrue(m, v, k, ms)
  BY <1>1 DEF SentTrue
<1>5. ResponsesTrue(l, n, rs) => ResponsesTrue(m, k, rs)
  BY <1>2 DEF ResponsesTrue
<1>6. DecidedTrue(l, w, n, c, raw, gs) => DecidedTrue(m, v, k, c, raw, gs)
  BY <1>3 DEF DecidedTrue
<1> QED
  BY <1>4, <1>5, <1>6

LEMMA LogTrueStays ==
  ASSUME NEW l, GoodLog(l), Ordered(l), BootsSound(l), NEW n \in Nat, \A s \in l : LastSeq(s) < n,
         NEW bf \in Nat, LogTrue(l, n, bf),
         NEW m, GoodLog(m), Ordered(m), ReadTo(m), Adds(m, l, n, DataRecord)
  PROVE  LogTrue(m, n, bf) /\ NoBack(m, l, n)
<1>1. NoBack(m, l, n)
  BY NeverBack
<1>2. BootsGone(m)
  <2>1. DataRecord.kind # "BOOT"
    BY DEF DataRecord
  <2> QED BY <2>1, BootsStayGone DEF LogTrue
<1>3. bf > 0 => bf <= n /\ Gone(m, bf, n - 1)
  <2> DEFINE hi == n - 1
  <2>1. hi \in Int /\ hi < n /\ (bf > 0 => bf <= n /\ Gone(l, bf, hi))
    BY DEF LogTrue
  <2> HIDE DEF hi
  <2>2. bf > 0 => Gone(m, bf, hi)
    BY <1>1, <2>1, GoneStays
  <2> QED BY <2>1, <2>2 DEF hi
<1> QED
  BY <1>1, <1>2, <1>3 DEF LogTrue

(* A step of the dongle: records are added above all others, none comes back.*)
Grows ==
  /\ next <= next' /\ written \subseteq written'
  /\ \A q \in written' : q \in written \/ next <= q
  /\ NoBack(log', log, next)

LEMMA DongleTrue ==
  ASSUME TrueInv, EndsInv', Grows, LogTrue(log', next', bootFrom'),
         NEW ms, sent' \subseteq sent \cup ms, SentTrue(log', written', next', ms),
         NEW rs, responses' \subseteq responses \cup rs, ResponsesTrue(log', next', rs),
         UNCHANGED serverVars
  PROVE  TrueInv'
<1>1. /\ next \in Nat /\ sent \in SUBSET Message /\ responses \in SUBSET Response
      /\ contiguousSeq \in Nat /\ gaps \in SUBSET Gap
  BY DEF TrueInv, EndsInv, EngineInv, EngineTypeOK, ServerInv, ServerTypeOK
<1>2. next' \in Nat /\ next <= next' /\ written \subseteq written' /\ NoBack(log', log, next)
  BY DEF EndsInv, EngineInv, EngineTypeOK, Grows
<1>3. /\ SentTrue(log', written', next', sent)
      /\ ResponsesTrue(log', next', responses)
      /\ DecidedTrue(log', written', next', contiguousSeq, rawBlocks, gaps)
  BY <1>1, <1>2, RangesStay DEF TrueInv
<1>4. contiguousSeq' = contiguousSeq /\ rawBlocks' = rawBlocks /\ gaps' = gaps
  BY DEF serverVars
<1>5. SentTrue(log', written', next', sent') /\ ResponsesTrue(log', next', responses')
  BY <1>3 DEF SentTrue, ResponsesTrue
<1>6. DecidedTrue(log', written', next', contiguousSeq', rawBlocks', gaps')
  BY <1>3, <1>4
<1> QED
  BY <1>5, <1>6, TrueInvOf

LEMMA StoreFacts ==
  ASSUME TrueInv
  PROVE  /\ GoodLog(log) /\ Ordered(log) /\ BootsSound(log) /\ Backed(log, written) /\ Follows(next, written)
         /\ next \in Nat \ {0} /\ bootFrom \in Nat /\ written \in SUBSET Nat
         /\ LogTrue(log, next, bootFrom) /\ ReadTo(log) /\ BootsGone(log)
         /\ \A s \in log : LastSeq(s) < next
         /\ \A q \in Nat : Holds(log, q) => q < next
         /\ sent \in SUBSET Message /\ responses \in SUBSET Response
<1>1. /\ GoodLog(log) /\ Ordered(log) /\ BootsSound(log) /\ Backed(log, written) /\ Follows(next, written)
      /\ next \in Nat \ {0} /\ bootFrom \in Nat /\ written \in SUBSET Nat
      /\ sent \in SUBSET Message /\ responses \in SUBSET Response
  BY DEF TrueInv, EndsInv, EngineInv, EngineTypeOK, StoreInv
<1>2. LogTrue(log, next, bootFrom) /\ ReadTo(log) /\ BootsGone(log)
  BY DEF TrueInv, LogTrue
<1>3. (\A s \in log : LastSeq(s) < next) /\ \A q \in Nat : Holds(log, q) => q < next
  BY <1>1, LastBelow
<1> QED
  BY <1>1, <1>2, <1>3

LEMMA NothingSent ==
  ASSUME NEW l, NEW w, NEW n
  PROVE  SentTrue(l, w, n, {}) /\ ResponsesTrue(l, n, {})
BY DEF SentTrue, ResponsesTrue

(* A step that leaves the log, or keeps a part of it.                        *)
LEMMA KeepsGrows ==
  ASSUME TrueInv, log' \in SUBSET log, written' = written, next' = next, bootFrom' = bootFrom
  PROVE  Grows /\ LogTrue(log', next', bootFrom')
<1> DEFINE m == log'
<1>1. GoodLog(m) /\ Ordered(m)
  BY StoreFacts, GoodSubset, OrderedSubset
<1>2. ReadTo(m) /\ Adds(m, log, next, DataRecord)
  BY StoreFacts, SubsetReads
<1> HIDE DEF m
<1>3. LogTrue(m, next, bootFrom) /\ NoBack(m, log, next)
  BY <1>1, <1>2, StoreFacts, LogTrueStays
<1> QED
  BY <1>3, StoreFacts DEF m, Grows

LEMMA QuietTrue ==
  ASSUME TrueInv, EndsInv', UNCHANGED <<store, outgoing, serverVars>>
  PROVE  TrueInv' /\ Grows
<1>1. /\ log' \in SUBSET log /\ written' = written /\ next' = next /\ bootFrom' = bootFrom
      /\ sent' \subseteq sent \cup {} /\ responses' \subseteq responses \cup {}
  BY DEF store, outgoing
<1>2. Grows /\ LogTrue(log', next', bootFrom')
  BY <1>1, KeepsGrows
<1>3. SentTrue(log', written', next', {}) /\ ResponsesTrue(log', next', {})
  BY NothingSent
<1> QED
  BY <1>1, <1>2, <1>3, DongleTrue

LEMMA HandleAckTrue ==
  ASSUME TrueInv, EndsInv', NEW a \in acks, HandleAck(a), UNCHANGED serverVars
  PROVE  TrueInv' /\ Grows
<1>1. /\ written' = written /\ next' = next /\ bootFrom' = bootFrom
      /\ sent' \subseteq sent \cup {} /\ responses' \subseteq responses \cup {}
  BY DEF HandleAck, outgoing
<1>2. log' \in SUBSET log
  <2>1. AdvanceAck(a.ack) \/ KeepAck
    BY DEF HandleAck
  <2> QED BY <2>1 DEF AdvanceAck, DeleteUpTo, KeepAck
<1>3. Grows /\ LogTrue(log', next', bootFrom')
  BY <1>1, <1>2, KeepsGrows
<1>4. SentTrue(log', written', next', {}) /\ ResponsesTrue(log', next', {})
  BY NothingSent
<1> QED
  BY <1>1, <1>3, <1>4, DongleTrue

LEMMA HandleChallengeTrue ==
  ASSUME TrueInv, EndsInv', NEW c \in challenges, HandleChallenge(c), UNCHANGED serverVars
  PROVE  TrueInv' /\ Grows
<1>1. /\ written' = written /\ next' = next /\ bootFrom' = bootFrom
      /\ sent' \subseteq sent \cup {}
  BY DEF HandleChallenge
<1>2. log' \in SUBSET log
  <2>1. AdvanceAck(c.ack) \/ KeepAck
    BY DEF HandleChallenge
  <2> QED BY <2>1 DEF AdvanceAck, DeleteUpTo, KeepAck
<1>3. Grows /\ LogTrue(log', next', bootFrom')
  BY <1>1, <1>2, KeepsGrows
<1> DEFINE r  == [cs |-> c.cs, head |-> NewestSeq(log'), tail |-> EffectiveTail(log'),
                  boot |-> boot, conn |-> conns]
           m  == log'
<1>4. responses' \subseteq responses \cup {r}
  BY DEF HandleChallenge
<1>5. r.tail = EffectiveTail(m)
  OBVIOUS
<1> HIDE DEF r
<1>6. GoodLog(m) /\ Ordered(m) /\ BootsSound(m) /\ \A s \in m : LastSeq(s) < next
  BY <1>2, StoreFacts, GoodSubset, OrderedSubset, BootsSoundSubset
<1>7. r.tail <= next /\ Gone(m, 1, r.tail - 1)
  <2>1. next \in Nat \ {0}
    BY StoreFacts
  <2> HIDE DEF m
  <2>2. /\ Gone(m, 1, EffectiveTail(m) - 1) /\ EffectiveTail(m) \in Nat
        /\ m # {} => EffectiveTail(m) <= OldestSeq(m)
        /\ m = {} => EffectiveTail(m) = 1
    BY <1>6, TailIsGone, EffectiveTailType
  <2>3. m # {} => OldestSeq(m) < next /\ OldestSeq(m) \in Nat
    <3> SUFFICES ASSUME m # {} PROVE OldestSeq(m) < next /\ OldestSeq(m) \in Nat
      OBVIOUS
    <3> DEFINE o == OldestSeg(m)
    <3>1. o \in m /\ OldestSeq(m) = o.first
      BY <1>6, OldestExists DEF GoodLog, OldestSeq
    <3>2. o.first \in Nat /\ LastSeq(o) \in Nat /\ o.first <= LastSeq(o)
      BY <1>6, <3>1, SegmentFields DEF GoodLog, Ordered
    <3> HIDE DEF o
    <3> QED BY <1>6, <2>1, <3>1, <3>2
  <2> QED BY <1>5, <2>1, <2>2, <2>3
<1>8. ResponsesTrue(log', next', {r})
  BY <1>1, <1>7 DEF ResponsesTrue
<1>9. SentTrue(log', written', next', {})
  BY NothingSent
<1> QED
  BY <1>1, <1>3, <1>4, <1>8, <1>9, DongleTrue

LEMMA RotTrue ==
  ASSUME TrueInv, EndsInv', Rot, UNCHANGED serverVars
  PROVE  TrueInv' /\ Grows
<1>1. PICK s \in log : \E e \in Rotted(s) : log' = (log \ {s}) \cup {e}
  BY DEF Rot
<1>2. PICK e \in Rotted(s) : log' = (log \ {s}) \cup {e}
  BY <1>1
<1> DEFINE m == Swapped(log, s, e)
<1>3. log' = m
  BY <1>2 DEF Swapped
<1>4. /\ written' = written /\ next' = next /\ bootFrom' = bootFrom
      /\ sent' \subseteq sent \cup {} /\ responses' \subseteq responses \cup {}
  BY DEF Rot, outgoing
<1>5. s \in Segment /\ s.reach <= Len(s.recs)
  BY StoreFacts DEF GoodLog
<1>6. e \in Segment /\ e.reach <= Len(e.recs) /\ SameExtent(s, e)
  BY <1>5, RottedSegment
<1>7. GoodLog(m)
  BY <1>6, StoreFacts, GoodSwapped
<1>8. Ordered(m)
  BY <1>6, <1>7, StoreFacts, ReplacedOrdered
<1>9. ReadTo(m) /\ Adds(m, log, next, DataRecord)
  BY StoreFacts, RottedReads
<1> HIDE DEF m
<1>10. LogTrue(m, next, bootFrom) /\ NoBack(m, log, next)
  BY <1>7, <1>8, <1>9, StoreFacts, LogTrueStays
<1>11. Grows /\ LogTrue(log', next', bootFrom')
  BY <1>3, <1>4, <1>10, StoreFacts DEF Grows
<1>12. SentTrue(log', written', next', {}) /\ ResponsesTrue(log', next', {})
  BY NothingSent
<1> QED
  BY <1>4, <1>11, <1>12, DongleTrue

(* What is read is sent as it was written.                                   *)
LEMMA BlockIsTrue ==
  ASSUME TrueInv, NEW q \in Nat \ {0}, ReadStatus(log, q) = "Ok"
  PROVE  SentTrue(log, written, next, {BlockOf(q)})
<1> DEFINE r == RecordAt(log, q)
           b == BlockOf(q)
<1>1. Holds(log, q) /\ q \in Nat
  BY ReadableIsHeld
<1>2. r \in Record /\ BootAt(r, q) /\ q < next
  BY <1>1, StoreFacts, RecordAtHeld
<1>3. PICK s \in log : Covers(s, q)
  BY <1>1 DEF Holds
<1>4. q \in written
  <2>1. s.first \in Nat /\ LastSeq(s) \in Nat
    BY StoreFacts, SegmentFields DEF GoodLog
  <2>2. q \in s.first..LastSeq(s)
    BY <1>3, <2>1 DEF Covers
  <2> QED BY <2>2, StoreFacts DEF Backed
<1>5. r.kind = "BOOT" => Gone(log, r.from, r.to)
  <2> DEFINE i == q - s.first + 1
  <2>1. r = s.recs[i] /\ i \in 1..Len(s.recs)
    BY <1>3, StoreFacts, ReadableWhere
  <2> HIDE DEF i, r
  <2> QED BY <2>1, StoreFacts DEF BootsGone
<1>6. b = IF r.kind = "BOOT" THEN [seq |-> q, kind |-> "BOOT", from |-> r.from, to |-> r.to]
          ELSE [seq |-> q, kind |-> "DATA", from |-> q, to |-> q]
  BY DEF BlockOf
<1> HIDE DEF r, b
<1>7. /\ b.seq < next /\ b.to < next /\ b.seq \in written
      /\ b.kind # "DATA" => Gone(log, b.from, b.to)
  <2>1. CASE r.kind = "BOOT"
    <3>1. b.seq = q /\ b.from = r.from /\ b.to = r.to
      BY <1>6, <2>1
    <3>2. r.to = q - 1
      BY <1>2, <2>1 DEF BootAt
    <3> QED BY <1>1, <1>2, <1>4, <1>5, <2>1, <3>1, <3>2, StoreFacts
  <2>2. CASE r.kind # "BOOT"
    <3>1. b.seq = q /\ b.to = q /\ b.kind = "DATA"
      BY <1>6, <2>2
    <3> QED BY <1>2, <1>4, <3>1
  <2> QED BY <2>1, <2>2
<1> QED
  BY <1>7 DEF SentTrue, b

(* A LOSS declares what is gone, and no seq that is still to come.           *)
LEMMA LossIsTrue ==
  ASSUME TrueInv, NEW q \in Nat \ {0}, NEW to \in Nat, q < next, to < next, Gone(log, q, to)
  PROVE  SentTrue(log, written, next, {Loss(q, to)})
BY DEF SentTrue, Loss

LEMMA CorruptIsHeld ==
  ASSUME NEW l, NEW q, ReadStatus(l, q) = "Corrupt"
  PROVE  Holds(l, q) /\ ~Readable(l, q)
BY DEF ReadStatus, Readable

LEMMA SendNextBlockTrue ==
  ASSUME TrueInv, EndsInv', SendNextBlock, UNCHANGED serverVars
  PROVE  TrueInv' /\ Grows
<1>1. /\ UNCHANGED store /\ responses' \subseteq responses \cup {}
      /\ cursor \in Nat \ {0} /\ next \in Nat
  BY StoreFacts DEF SendNextBlock, TrueInv, EndsInv, EngineInv, EngineTypeOK
<1>2. ASSUME NEW m, NEW n, Transmit(m, n) PROVE sent' \subseteq sent \cup {m}
  BY <1>2 DEF Transmit
<1>3. \E ms : sent' \subseteq sent \cup ms /\ SentTrue(log, written, next, ms)
  <2>1. CASE UNCHANGED sent
    BY <2>1, NothingSent
  <2>2. CASE ReadStatus(log, cursor) = "Ok" /\ Transmit(BlockOf(cursor), cursor + 1)
    BY <1>1, <1>2, <2>2, BlockIsTrue
  <2>3. CASE /\ ReadStatus(log, cursor) = "Corrupt"
             /\ Transmit(Loss(cursor, FindLossEnd(cursor)), FindLossEnd(cursor) + 1)
    <3> DEFINE to == FindLossEnd(cursor)
    <3>1. /\ to \in Nat /\ cursor <= to
          /\ \A q \in cursor + 1..to : ReadStatus(log, q) = "Corrupt"
      BY <1>1, FindLossEndType
    <3>2. sent' \subseteq sent \cup {Loss(cursor, to)}
      BY <1>2, <2>3
    <3> HIDE DEF to
    <3>3. \A q \in cursor..to : ReadStatus(log, q) = "Corrupt"
      <4> SUFFICES ASSUME NEW q \in cursor..to PROVE ReadStatus(log, q) = "Corrupt"
        OBVIOUS
      <4>1. q = cursor \/ q \in cursor + 1..to
        BY <1>1, <3>1
      <4> QED BY <2>3, <3>1, <4>1
    <3>4. Gone(log, cursor, to)
      BY <3>3, CorruptIsHeld DEF Gone
    <3>5. cursor < next /\ to < next
      <4>1. Holds(log, cursor) /\ Holds(log, to)
        BY <1>1, <3>1, <3>3, CorruptIsHeld
      <4> QED BY <1>1, <3>1, <4>1, StoreFacts
    <3> QED BY <1>1, <3>1, <3>2, <3>4, <3>5, LossIsTrue
  <2>4. CASE ReadStatus(log, cursor) = "NotFound" /\ SkipMissing(cursor)
    <3> DEFINE t   == NextStoredSeq(log, cursor)
               end == t - 1
               run == cursor + MaxLossRun - 1
               to  == Min({end, run})
    <3>1. CASE ~(t > 0 /\ Transmit(Loss(cursor, to), to + 1))
      BY <2>1, <2>4, <3>1 DEF SkipMissing
    <3>2. CASE t > 0 /\ Transmit(Loss(cursor, to), to + 1)
      <4>1. /\ t \in Nat /\ t >= cursor
            /\ \E s \in log : t <= LastSeq(s)
            /\ \A x \in cursor..t - 1 : ~Holds(log, x)
        BY <1>1, <3>2, StoreFacts, NextStoredGap, NextStoredType
      <4>2. t < next
        <5>1. PICK s \in log : t <= LastSeq(s)
          BY <4>1
        <5>2. LastSeq(s) \in Nat /\ LastSeq(s) < next
          BY StoreFacts, SegmentFields DEF GoodLog
        <5> QED BY <1>1, <4>1, <5>1, <5>2
      <4>3. sent' \subseteq sent \cup {Loss(cursor, to)}
        BY <1>2, <3>2
      <4> HIDE DEF t
      <4>4. end \in Nat /\ run \in Nat /\ end < next /\ end \in Int /\ run \in Int
        BY <1>1, <3>2, <4>1, <4>2, EngineAssumption
      <4>5. \A x \in cursor..end : ~Holds(log, x)
        BY <4>1
      <4>6. cursor < next
        BY <1>1, <4>1, <4>2
      <4> HIDE DEF end, run
      <4>7. to \in {end, run} /\ to <= end
        BY <4>4, MinOfTwo
      <4> HIDE DEF to
      <4>8. to \in Nat /\ to < next
        BY <1>1, <4>4, <4>7
      <4>9. Gone(log, cursor, to)
        <5> SUFFICES ASSUME NEW x \in cursor..to PROVE ~Readable(log, x)
          BY DEF Gone
        <5>1. x \in cursor..end
          BY <1>1, <4>4, <4>7, <4>8
        <5> QED BY <4>5, <5>1, ReadableIsHeld DEF Readable
      <4> QED BY <1>1, <4>3, <4>6, <4>8, <4>9, LossIsTrue
    <3> QED BY <3>1, <3>2
  <2> QED BY <2>1, <2>2, <2>3, <2>4 DEF SendNextBlock
<1>4. PICK ms : sent' \subseteq sent \cup ms /\ SentTrue(log, written, next, ms)
  BY <1>3
<1>5. /\ log' = log /\ written' = written /\ next' = next /\ bootFrom' = bootFrom
  BY <1>1 DEF store
<1>6. Grows /\ LogTrue(log', next', bootFrom')
  BY <1>5, KeepsGrows
<1>7. SentTrue(log', written', next', ms) /\ ResponsesTrue(log', next', {})
  BY <1>4, <1>5, NothingSent
<1> QED
  BY <1>1, <1>4, <1>6, <1>7, DongleTrue

(* A record is written, or a BOOT fails to be and stays pending.             *)
LEMMA PutTrue ==
  ASSUME NEW found, GoodLog(found), BootsSound(found), Ordered(found), Backed(found, written),
         written \in SUBSET Nat, next \in Nat, Follows(next, written),
         NEW seq \in Nat \ {0}, next <= seq,
         ReadTo(found), BootsGone(found), NEW r \in Record, BootAt(r, seq),
         r.kind = "BOOT" => r.from <= seq /\ Gone(found, r.from, seq - 1),
         NEW new \in BOOLEAN, new \/ Continues(found, seq),
         NEW mayFail, mayFail => r.kind = "BOOT", Put(found, mayFail, new, seq, r)
  PROVE  /\ LogTrue(log', next', bootFrom') /\ NoBack(log', found, next)
         /\ next <= next' /\ written \subseteq written'
         /\ \A q \in written' : q \in written \/ next <= q
<1>1. PICK kept \in EnsureSpace(found) :
        \/ /\ log' = AppendOk(kept, new, seq, r)
           /\ written' = written \cup {seq}
           /\ next' = seq + 1 /\ bootFrom' = 0
        \/ /\ mayFail
           /\ log' = kept /\ written' = written
           /\ next' = seq /\ bootFrom' = r.from
  BY DEF Put
<1>2. kept \in SUBSET found /\ GoodLog(kept)
  BY GoodEnsureSpace DEF EnsureSpace, Remainders, From
<1>3. BootsSound(kept) /\ Ordered(kept) /\ Backed(kept, written)
  BY <1>2, BootsSoundSubset, OrderedSubset
<1>4. Follows(seq, written) /\ (\A s \in kept : LastSeq(s) < seq) /\ \A s \in found : LastSeq(s) < seq
  <2>1. Follows(seq, written)
    BY DEF Follows
  <2> QED BY <1>2, <1>3, <2>1, LastBelow
<1>5. ReadTo(kept) /\ Adds(kept, found, seq, DataRecord)
  BY <1>2, SubsetReads
<1>6. LogTrue(found, seq, 0)
  BY DEF LogTrue
<1>7. LogTrue(kept, seq, 0) /\ NoBack(kept, found, seq)
  BY <1>2, <1>3, <1>4, <1>5, <1>6, LogTrueStays
<1>8. r.kind = "BOOT" => r.from \in Nat /\ r.to = seq - 1 /\ r.to \in Int /\ r.to < seq
                         /\ Gone(kept, r.from, r.to)
  <2> SUFFICES ASSUME r.kind = "BOOT"
               PROVE  r.from \in Nat /\ r.to = seq - 1 /\ r.to \in Int /\ r.to < seq
                      /\ Gone(kept, r.from, r.to)
    OBVIOUS
  <2>1. r.from \in Nat /\ r.to = seq - 1 /\ r.to \in Int /\ r.to < seq
    BY DEF BootAt
  <2>2. Gone(found, r.from, r.to)
    BY <2>1
  <2>3. Gone(kept, r.from, r.to)
    BY <1>7, <2>1, <2>2, GoneStays
  <2> QED BY <2>1, <2>3
<1>9. CASE /\ log' = AppendOk(kept, new, seq, r)
           /\ written' = written \cup {seq}
           /\ next' = seq + 1 /\ bootFrom' = 0
  <2> DEFINE m == AppendOk(kept, new, seq, r)
  <2>1. new \/ Continues(kept, seq)
    <3>1. ASSUME Continues(found, seq) PROVE Continues(kept, seq)
      <4>1. found # {} /\ LastSeq(NewestSeg(found)) + 1 = seq
        BY <3>1 DEF Continues
      <4>2. kept # {} /\ NewestSeg(kept) = NewestSeg(found)
        BY <4>1, SpaceKeepsNewest
      <4> QED BY <4>1, <4>2 DEF Continues
    <3> QED BY <3>1
  <2>2. GoodLog(m)
    BY <1>2, <2>1, GoodAppend DEF Continues
  <2>3. Ordered(m)
    BY <1>2, <1>3, <1>4, <2>1, AppendOrdered
  <2>4. ReadTo(m) /\ Adds(m, kept, seq, r)
    BY <1>2, <1>3, <1>5, <2>1, AppendReads
  <2> HIDE DEF m
  <2>5. NoBack(m, kept, seq)
    BY <1>2, <1>3, <2>2, <2>3, <2>4, NeverBack
  <2>6. r.kind = "BOOT" => Gone(m, r.from, r.to)
    BY <1>8, <2>5, GoneStays
  <2>7. BootsGone(m)
    BY <1>2, <1>3, <1>4, <1>7, <1>8, <2>2, <2>3, <2>4, <2>6, BootsStayGone DEF LogTrue
  <2>8. LogTrue(m, seq + 1, 0)
    BY <2>4, <2>7 DEF LogTrue
  <2>9. NoBack(m, found, next)
    BY <1>7, <2>5 DEF NoBack
  <2> QED BY <1>9, <2>8, <2>9 DEF m
<1>10. CASE /\ mayFail
            /\ log' = kept /\ written' = written
            /\ next' = seq /\ bootFrom' = r.from
  <2>1. r.from <= seq /\ Gone(kept, r.from, seq - 1)
    BY <1>8, <1>10
  <2>2. LogTrue(kept, seq, r.from)
    BY <1>7, <2>1 DEF LogTrue
  <2>3. NoBack(kept, found, next)
    BY <1>7 DEF NoBack
  <2> QED BY <1>10, <2>2, <2>3
<1> QED
  BY <1>1, <1>9, <1>10

LEMMA WriteTrue ==
  ASSUME TrueInv, EndsInv', Write, UNCHANGED serverVars
  PROVE  TrueInv' /\ Grows
<1>1. /\ GoodLog(log) /\ Ordered(log) /\ BootsSound(log) /\ Backed(log, written) /\ Follows(next, written)
      /\ next \in Nat \ {0} /\ bootFrom \in Nat /\ written \in SUBSET Nat /\ next <= next
      /\ ReadTo(log) /\ BootsGone(log)
  BY StoreFacts
<1>2. LogTrue(log', next', bootFrom') /\ Grows
  <2>1. CASE bootFrom > 0
    <3> DEFINE r == BootRecord(bootFrom, next)
    <3>1. r \in Record /\ BootAt(r, next)
      BY <1>1, <2>1, BootRecordType
    <3>2. Put(log, FALSE, TRUE, next, r)
      BY <2>1 DEF Write
    <3>3. r.from = bootFrom
      BY DEF BootRecord
    <3>4. r.from <= next /\ Gone(log, r.from, next - 1)
      BY <2>1, <3>3, StoreFacts DEF LogTrue
    <3> HIDE DEF r
    <3>5. /\ LogTrue(log', next', bootFrom') /\ NoBack(log', log, next)
          /\ next <= next' /\ written \subseteq written'
          /\ \A q \in written' : q \in written \/ next <= q
      BY <1>1, <3>1, <3>2, <3>4, PutTrue
    <3> QED BY <3>5 DEF Grows
  <2>2. CASE ~(bootFrom > 0)
    <3> DEFINE new == NeedsNewSegment(log, FALSE, next)
               r   == DataRecord
    <3>1. r \in Record /\ BootAt(r, next) /\ r.kind # "BOOT"
      BY DEF DataRecord, Record, BootAt
    <3>2. Put(log, FALSE, new, next, r)
      BY <2>2 DEF Write
    <3>3. new \in BOOLEAN
      BY DEF NeedsNewSegment
    <3>4. new \/ Continues(log, next)
      BY DEF NeedsNewSegment, Continues
    <3> HIDE DEF r, new
    <3>5. /\ LogTrue(log', next', bootFrom') /\ NoBack(log', log, next)
          /\ next <= next' /\ written \subseteq written'
          /\ \A q \in written' : q \in written \/ next <= q
      <4>1. CASE new = TRUE
        <5>1. Put(log, FALSE, TRUE, next, r)
          BY <3>2, <4>1
        <5> QED BY <1>1, <3>1, <5>1, PutTrue
      <4>2. CASE new = FALSE
        <5>1. Put(log, FALSE, FALSE, next, r) /\ Continues(log, next)
          BY <3>2, <3>4, <4>2
        <5> QED BY <1>1, <3>1, <5>1, PutTrue
      <4> QED BY <3>3, <4>1, <4>2
    <3> QED BY <3>5 DEF Grows
  <2> QED BY <2>1, <2>2
<1>3. sent' \subseteq sent \cup {} /\ responses' \subseteq responses \cup {}
  BY DEF Write, outgoing
<1>4. SentTrue(log', written', next', {}) /\ ResponsesTrue(log', next', {})
  BY NothingSent
<1> QED
  BY <1>2, <1>3, <1>4, DongleTrue

LEMMA BootTrue ==
  ASSUME TrueInv, EndsInv', NEW found \in {log, {}}, Boot(found), UNCHANGED serverVars
  PROVE  TrueInv' /\ Grows
<1>1. next \in Nat \ {0} /\ written \in SUBSET Nat /\ Follows(next, written) /\ boot \in Nat
  BY StoreFacts DEF TrueInv, EndsInv, EngineInv, EngineTypeOK
<1> DEFINE mounted == Mount(found)
           newest  == NewestSeq(mounted)
<1>2. /\ GoodLog(found) /\ Ordered(found) /\ BootsSound(found) /\ Backed(found, written)
      /\ ReadTo(found) /\ BootsGone(found) /\ NoBack(found, log, next)
  <2>1. CASE found = log
    BY <2>1, StoreFacts DEF NoBack
  <2>2. CASE found = {}
    <3>1. GoodLog({}) /\ BootsSound({}) /\ Ordered({}) /\ Backed({}, written) /\ ReadTo({}) /\ BootsGone({})
      BY FS_EmptySet DEF GoodLog, BootsSound, Ordered, Backed, ReadTo, BootsGone
    <3>2. NoBack({}, log, next)
      BY ReadableIsHeld DEF NoBack, Readable, Holds
    <3> QED BY <2>2, <3>1, <3>2
  <2> QED BY <2>1, <2>2
<1>3. GoodLog(mounted) /\ BootsSound(mounted) /\ Ordered(mounted) /\ Backed(mounted, written)
  BY <1>2, GoodMount, MountBootsSound, MountOrdered
<1>4. ReadTo(mounted) /\ Adds(mounted, found, next, DataRecord)
  BY <1>2, MountReads
<1>5. newest \in Nat /\ (newest < next \/ mounted = {})
  BY <1>1, <1>3, NewestSeqType, LastBelow
<1>6. newest = 0 => mounted = {}
  <2> SUFFICES ASSUME mounted # {} PROVE newest # 0
    OBVIOUS
  <2> DEFINE n == NewestSeg(mounted)
  <2>1. n \in mounted /\ newest = LastSeq(n)
    BY <1>3, NewestExists DEF GoodLog, NewestSeq
  <2>2. n.first \in Nat \ {0} /\ LastSeq(n) \in Nat /\ n.first <= LastSeq(n)
    BY <1>3, <2>1, SegmentFields DEF GoodLog, Ordered
  <2> HIDE DEF n, newest
  <2> QED BY <2>1, <2>2
<1>7. mounted = {} => newest = 0
  BY DEF NewestSeq
<1>8. PICK seq \in next..next + (IF boot = 0 THEN 0 ELSE MaxGap) :
        Put(mounted, TRUE, TRUE, seq, BootRecord(IF newest = 0 THEN seq ELSE newest + 1, seq))
  BY DEF Boot
<1>9. sent' \subseteq sent \cup {} /\ responses' \subseteq responses \cup {}
  BY DEF Boot, outgoing
<1> HIDE DEF mounted, newest
<1>10. LogTrue(found, next, 0) /\ \A s \in found : LastSeq(s) < next
  BY <1>1, <1>2, LastBelow DEF LogTrue
<1>11. LogTrue(mounted, next, 0) /\ NoBack(mounted, found, next)
  BY <1>1, <1>2, <1>3, <1>4, <1>10, LogTrueStays
<1>12. seq \in Nat \ {0} /\ next <= seq
  BY <1>1, <1>8
<1> DEFINE from == IF newest = 0 THEN seq ELSE newest + 1
           b    == BootRecord(from, seq)
<1>13. from \in Nat \ {0} /\ from <= seq
  BY <1>1, <1>5, <1>7, <1>12
<1>14. Put(mounted, TRUE, TRUE, seq, b)
  BY <1>8
<1>15. Gone(mounted, from, seq - 1)
  <2> DEFINE hi == seq - 1
  <2>1. hi \in Int
    BY <1>12
  <2>2. newest < from
    BY <1>5, <1>12
  <2> HIDE DEF hi, from
  <2>3. NewestSeq(mounted) < from
    BY <2>2 DEF newest
  <2>4. Gone(mounted, from, hi)
    BY <1>3, <1>13, <2>1, <2>3, GoneOutside
  <2> QED BY <2>4 DEF hi
<1> HIDE DEF from
<1>16. b \in Record /\ BootAt(b, seq)
  BY <1>12, <1>13, BootRecordType
<1>17. b.kind = "BOOT" /\ b.from = from
  BY DEF BootRecord
<1> HIDE DEF b
<1>18. /\ LogTrue(log', next', bootFrom') /\ NoBack(log', mounted, next)
       /\ next <= next' /\ written \subseteq written'
       /\ \A q \in written' : q \in written \/ next <= q
  BY <1>1, <1>3, <1>4, <1>11, <1>12, <1>13, <1>14, <1>15, <1>16, <1>17, PutTrue DEF LogTrue
<1>19. NoBack(log', log, next)
  BY <1>2, <1>11, <1>18 DEF NoBack
<1>20. Grows
  BY <1>18, <1>19 DEF Grows
<1>21. SentTrue(log', written', next', {}) /\ ResponsesTrue(log', next', {})
  BY NothingSent
<1> QED
  BY <1>9, <1>18, <1>20, <1>21, DongleTrue

LEMMA InitTrue == Init => TrueInv
<1> SUFFICES ASSUME Init PROVE TrueInv
  OBVIOUS
<1>1. EndsInv
  BY InitEndsInv
<1>2. /\ log = {} /\ next = 1 /\ bootFrom = 0 /\ sent = {} /\ responses = {}
      /\ contiguousSeq = 0 /\ rawBlocks = {} /\ gaps = {}
  BY DEF Init, EngineInit, ServerInit
<1> QED
  BY <1>1, <1>2 DEF TrueInv, LogTrue, ReadTo, BootsGone, SentTrue, ResponsesTrue, DecidedTrue

(* What a batch of the blocks that were sent comes to.                       *)
RunTrue(st) ==
  /\ st.exp \in Nat /\ st.exp <= next /\ st.accepted \subseteq sent
  /\ \A g \in st.gaps : g.to < next /\ Gone(log, g.from, g.to)

LEMMA ApplyOneTrue ==
  ASSUME TrueInv, NEW st, RunTrue(st), NEW b \in sent
  PROVE  RunTrue(ApplyOne(st, b))
<1>1. /\ b.seq \in Nat /\ b.from \in Nat /\ b.to \in Nat /\ next \in Nat
      /\ b.seq < next /\ b.to < next /\ (b.kind # "DATA" => Gone(log, b.from, b.to))
  BY StoreFacts DEF TrueInv, SentTrue, Message
<1>2. /\ st.exp \in Nat /\ st.exp <= next /\ st.accepted \subseteq sent
      /\ \A g \in st.gaps : g.to < next /\ Gone(log, g.from, g.to)
  BY DEF RunTrue
<1>3. CASE st.interrupted \/ b.seq < st.exp
  BY <1>3 DEF ApplyOne
<1>4. CASE ~(st.interrupted \/ b.seq < st.exp) /\ ~Acceptable(b, st.exp)
  <2>1. ApplyOne(st, b) = [st EXCEPT !.interrupted = TRUE]
    BY <1>4 DEF ApplyOne
  <2>2. /\ ApplyOne(st, b).exp = st.exp /\ ApplyOne(st, b).accepted = st.accepted
        /\ ApplyOne(st, b).gaps = st.gaps
    BY <2>1
  <2> QED BY <1>2, <2>2 DEF RunTrue
<1>5. CASE ~(st.interrupted \/ b.seq < st.exp) /\ Acceptable(b, st.exp)
  <2> DEFINE exp == (IF b.kind = "LOSS" THEN b.to ELSE b.seq) + 1
             new == Declared(b, st.exp)
  <2>1. /\ ApplyOne(st, b).exp = exp /\ ApplyOne(st, b).accepted = st.accepted \cup {b}
        /\ ApplyOne(st, b).gaps = st.gaps \cup new
    BY <1>5 DEF ApplyOne
  <2>2. exp \in Nat /\ exp <= next
    BY <1>1
  <2>3. ASSUME NEW g \in new PROVE g.to < next /\ Gone(log, g.from, g.to)
    <3>1. CASE b.kind = "BOOT"
      <4>1. g.from = st.exp /\ g.to = b.to /\ b.from <= st.exp
        BY <1>5, <2>3, <3>1 DEF Declared, Acceptable
      <4>2. Gone(log, st.exp, b.to)
        BY <1>1, <1>2, <3>1, <4>1 DEF Gone
      <4> QED BY <1>1, <4>1, <4>2
    <3>2. CASE b.kind = "LOSS"
      <4>1. g.from = b.from /\ g.to = b.to
        BY <2>3, <3>2 DEF Declared
      <4> QED BY <1>1, <3>2, <4>1
    <3>3. CASE b.kind # "BOOT" /\ b.kind # "LOSS"
      BY <2>3, <3>3 DEF Declared
    <3> QED BY <3>1, <3>2, <3>3
  <2> HIDE DEF exp, new
  <2> QED BY <1>2, <2>1, <2>2, <2>3 DEF RunTrue
<1> QED
  BY <1>3, <1>4, <1>5

LEMMA ApplyTrue ==
  ASSUME TrueInv, NEW bs, Len(bs) \in Nat, \A i \in 1..Len(bs) : bs[i] \in sent
  PROVE  RunTrue(Apply(bs))
<1> DEFINE n == Len(bs)
           f == Progress(bs)
           S == {i \in 0..n : RunTrue(f[i])}
<1>1. n \in Nat /\ (\A i \in 1..n : bs[i] \in sent)
  OBVIOUS
<1>2. f[0] = NothingApplied /\ \A i \in 1..n : f[i] = ApplyOne(f[i - 1], bs[i])
  BY ProgressSteps
<1>3. RunTrue(NothingApplied)
  <2>1. contiguousSeq \in Nat /\ contiguousSeq < next /\ next \in Nat
    BY StoreFacts DEF TrueInv, DecidedTrue, EndsInv, ServerInv, ServerTypeOK
  <2> QED BY <2>1 DEF RunTrue, NothingApplied
<1> HIDE DEF f, n
<1>4. 0 \in S
  BY <1>1, <1>2, <1>3
<1>5. ASSUME NEW i \in 0..n, i < n, i \in S PROVE i + 1 \in S
  <2>1. i + 1 \in 1..n /\ (i + 1) - 1 = i /\ i + 1 \in 0..n
    BY <1>1, <1>5
  <2>2. f[i + 1] = ApplyOne(f[i], bs[i + 1]) /\ bs[i + 1] \in sent
    BY <1>1, <1>2, <2>1
  <2>3. RunTrue(f[i])
    BY <1>5
  <2>4. RunTrue(ApplyOne(f[i], bs[i + 1]))
    BY <2>2, <2>3, ApplyOneTrue
  <2> QED BY <2>1, <2>2, <2>4
<1> HIDE DEF S
<1>6. n \in S
  <2>1. \A i \in 0..n : i \in S
    BY <1>1, <1>4, <1>5, IntervalInduction
  <2> QED BY <1>1, <2>1
<1> QED
  BY <1>6 DEF S, f, n, Apply

LEMMA ServerTrue ==
  ASSUME TrueInv, EndsInv', UNCHANGED engineVars,
         DecidedTrue(log, written, next, contiguousSeq', rawBlocks', gaps')
  PROVE  TrueInv'
<1>1. /\ log' = log /\ written' = written /\ next' = next /\ bootFrom' = bootFrom
      /\ sent' = sent /\ responses' = responses
  BY DEF engineVars, store, outgoing
<1> QED
  BY <1>1, TrueInvOf DEF TrueInv

LEMMA RespondTrue ==
  ASSUME TrueInv, EndsInv', NEW r \in responses, RespondChallenge(r), UNCHANGED engineVars
  PROVE  TrueInv'
<1>1. DecidedTrue(log, written, next, contiguousSeq, rawBlocks, gaps) /\ rawBlocks' = rawBlocks
  BY DEF TrueInv, RespondChallenge
<1>2. CASE UNCHANGED <<contiguousSeq, gaps>>
  BY <1>1, <1>2, ServerTrue
<1>3. CASE ~Inconsistent(r)
  <2>1. contiguousSeq' = TailAck(r) /\ gaps' = gaps \cup TailGaps(r)
    BY <1>3 DEF RespondChallenge
  <2>2. /\ r.tail \in Nat /\ r.tail <= next /\ Gone(log, 1, r.tail - 1)
        /\ next \in Nat /\ contiguousSeq \in Nat /\ contiguousSeq < next
    BY <1>1, StoreFacts DEF TrueInv, ResponsesTrue, Response, DecidedTrue, EndsInv, ServerInv, ServerTypeOK
  <2> DEFINE below == r.tail - 1
             ack   == contiguousSeq
  <2>3. below \in Int /\ ack \in Int /\ below < next /\ TailAck(r) = Max({ack, below})
    BY <2>2 DEF TailAck
  <2> HIDE DEF below, ack
  <2>4. Max({ack, below}) \in {ack, below}
    BY <2>3, MaxOfTwo
  <2>5. contiguousSeq' < next
    BY <2>1, <2>2, <2>3, <2>4 DEF ack
  <2>6. ASSUME NEW g \in TailGaps(r) PROVE g.to < next /\ Gone(log, g.from, g.to)
    <3>1. g.from = contiguousSeq + 1 /\ g.to = r.tail - 1
      BY <2>6 DEF TailGaps
    <3>2. Gone(log, contiguousSeq + 1, r.tail - 1)
      BY <2>2 DEF Gone
    <3> QED BY <2>2, <3>1, <3>2
  <2>7. DecidedTrue(log, written, next, contiguousSeq', rawBlocks', gaps')
    BY <1>1, <2>1, <2>5, <2>6 DEF DecidedTrue
  <2> QED BY <2>7, ServerTrue
<1> QED
  BY <1>2, <1>3 DEF RespondChallenge

LEMMA ReceiveTrue ==
  ASSUME TrueInv, EndsInv', NEW bs, Len(bs) \in Nat, \A i \in 1..Len(bs) : bs[i] \in sent,
         ReceiveBatch(bs), UNCHANGED engineVars
  PROVE  TrueInv'
<1> DEFINE r == Apply(bs)
<1>1. RunTrue(r)
  BY ApplyTrue
<1>2. contiguousSeq' = r.exp - 1 /\ rawBlocks' = rawBlocks \cup r.accepted /\ gaps' = gaps \cup r.gaps
  BY DEF ReceiveBatch
<1> HIDE DEF r
<1>3. /\ DecidedTrue(log, written, next, contiguousSeq, rawBlocks, gaps) /\ next \in Nat
      /\ \A m \in sent : m.kind # "LOSS" => m.seq \in written
  BY StoreFacts DEF TrueInv, SentTrue
<1>4. DecidedTrue(log, written, next, contiguousSeq', rawBlocks', gaps')
  BY <1>1, <1>2, <1>3 DEF DecidedTrue, RunTrue
<1> QED
  BY <1>4, ServerTrue

LEMMA NextTrue ==
  ASSUME TrueInv, [Next]_vars
  PROVE  /\ TrueInv'
         /\ (Grows /\ UNCHANGED serverVars) \/ UNCHANGED engineVars
<1>1. EndsInv /\ EndsInv'
  BY NextEndsInv DEF TrueInv
<1>2. CASE EngineNext /\ UNCHANGED serverVars
  <2>1. CASE PowerOn \/ PowerOnFormatted
    <3>1. PICK found \in {log, {}} : Boot(found)
      BY <2>1 DEF PowerOn, PowerOnFormatted
    <3> QED BY <1>1, <1>2, <3>1, BootTrue
  <2>2. CASE \/ OnConnected \/ OnDisconnected \/ OnSubscribed \/ HandleBatchRequest
             \/ HandleAppError \/ CheckOverflow
    <3>1. UNCHANGED <<store, outgoing, serverVars>>
      BY <1>2, <2>2 DEF OnConnected, OnDisconnected, OnSubscribed, HandleBatchRequest, HandleAppError,
         CheckOverflow
    <3> QED BY <1>1, <1>2, <3>1, QuietTrue
  <2> QED BY <1>1, <1>2, <2>1, <2>2, WriteTrue, RotTrue, SendNextBlockTrue DEF EngineNext
<1>3. CASE (IssueChallenge /\ UNCHANGED engineVars) \/ UNCHANGED vars
  <2>1. UNCHANGED engineVars /\ UNCHANGED <<contiguousSeq, rawBlocks, gaps>>
    BY <1>3 DEF IssueChallenge, vars, serverVars
  <2>2. DecidedTrue(log, written, next, contiguousSeq', rawBlocks', gaps')
    BY <2>1 DEF TrueInv
  <2> QED BY <1>1, <2>1, <2>2, ServerTrue
<1>4. CASE DeliverChallenge
  BY <1>1, <1>4, HandleChallengeTrue DEF DeliverChallenge
<1>5. CASE DeliverAck
  BY <1>1, <1>5, HandleAckTrue DEF DeliverAck
<1>6. CASE DeliverResponse
  BY <1>1, <1>6, RespondTrue DEF DeliverResponse
<1>7. CASE DeliverBlocks
  <2>1. PICK bs \in SeqOf(sent, MaxBatch) : ReceiveBatch(bs) /\ UNCHANGED engineVars
    BY <1>7 DEF DeliverBlocks
  <2>2. PICK m \in 0..MaxBatch : bs \in [1..m -> sent]
    BY <2>1 DEF SeqOf
  <2>3. bs \in Seq(sent)
    BY <2>2, ServerAssumption
  <2>4. Len(bs) \in Nat /\ \A i \in 1..Len(bs) : bs[i] \in sent
    BY <2>3, LenProperties, ElementOfSeq
  <2> QED BY <1>1, <2>1, <2>4, ReceiveTrue
<1> QED
  BY <1>2, <1>3, <1>4, <1>5, <1>6, <1>7 DEF Next

THEOREM TrueInvariance == Spec => []TrueInv
<1>1. Init => TrueInv
  BY InitTrue
<1>2. TrueInv /\ [Next]_vars => TrueInv'
  BY NextTrue
<1> QED
  BY <1>1, <1>2, PTL DEF Spec

(* SyncEngine::findLossEnd and skipMissing, and the TAIL of a response: what *)
(* the server registers as lost, the dongle cannot read, then or ever after. *)
THEOREM LostIsLost == Spec => []LossIsReal
<1>1. TrueInv => LossIsReal
  BY DEF TrueInv, DecidedTrue, Gone, Readable, LossIsReal
<1> QED
  BY <1>1, TrueInvariance, PTL

-------------------------------------------------------------------------------
(* The two ends implement Delivery                                           *)

Fates == {"delivered", "given up"}
FateOf(c, S) == [q \in 1..c |-> IF q \in S THEN "delivered" ELSE "given up"]

LEMMA FateIsSeq ==
  ASSUME NEW c \in Nat, NEW S
  PROVE  /\ FateOf(c, S) \in Seq(Fates) /\ Len(FateOf(c, S)) = c
         /\ \A q \in 1..c : FateOf(c, S)[q] = IF q \in S THEN "delivered" ELSE "given up"
<1> DEFINE f == FateOf(c, S)
<1>1. f \in [1..c -> Fates]
  BY DEF FateOf, Fates
<1>2. \A q \in 1..c : f[q] = IF q \in S THEN "delivered" ELSE "given up"
  BY DEF FateOf
<1> HIDE DEF f
<1>3. f \in Seq(Fates)
  BY <1>1
<1>4. DOMAIN f = 1..Len(f) /\ Len(f) \in Nat
  BY <1>3, LenProperties
<1>5. DOMAIN f = 1..c
  BY <1>1
<1>6. Len(f) = c
  <2> DEFINE k == Len(f)
  <2>1. k \in Nat /\ 1..k = 1..c
    BY <1>4, <1>5
  <2> HIDE DEF k
  <2>2. k = c
    BY <2>1
  <2> QED BY <2>2 DEF k
<1> QED
  BY <1>2, <1>3, <1>6 DEF f

(* More decided, and what was decided stays.                                 *)
LEMMA FateGrows ==
  ASSUME NEW c \in Nat, NEW d \in Nat, c <= d, NEW S, NEW T, \A q \in 1..c : q \in S <=> q \in T
  PROVE  /\ SubSeq(FateOf(d, T), 1, Len(FateOf(c, S))) = FateOf(c, S)
         /\ c = d => FateOf(d, T) = FateOf(c, S)
<1> DEFINE f == FateOf(c, S)
           g == FateOf(d, T)
           h == SubSeq(g, 1, c)
<1>1. f \in Seq(Fates) /\ Len(f) = c
  BY FateIsSeq
<1>2. g \in Seq(Fates) /\ Len(g) = d
  BY FateIsSeq
<1>3. \A q \in 1..c : f[q] = IF q \in S THEN "delivered" ELSE "given up"
  BY FateIsSeq
<1>4. \A q \in 1..d : g[q] = IF q \in T THEN "delivered" ELSE "given up"
  BY FateIsSeq
<1> HIDE DEF f, g
<1>5. \A q \in 1..c : q \in 1..d /\ q \in 1..Len(g)
  BY <1>2
<1>6. \A q \in 1..c : g[q] \in Fates /\ g[q] = f[q]
  BY <1>3, <1>4, <1>5 DEF Fates
<1>7. h \in Seq(Fates) /\ Len(h) = c /\ \A q \in 1..c : h[q] = g[q]
  <2>1. /\ h \in Seq(Fates)
        /\ Len(h) = IF 1 <= c THEN c - 1 + 1 ELSE 0
        /\ \A q \in 1..c - 1 + 1 : h[q] = g[1 + q - 1]
    BY <1>6, SubSeqProperties
  <2>2. Len(h) = c /\ c - 1 + 1 = c
    BY <2>1
  <2>3. ASSUME NEW q \in 1..c PROVE h[q] = g[q]
    <3>1. 1 + q - 1 = q /\ q \in 1..c - 1 + 1
      BY <2>2
    <3> QED BY <2>1, <3>1
  <2> QED BY <2>1, <2>2, <2>3
<1> HIDE DEF h
<1>8. \A q \in 1..Len(h) : h[q] = f[q]
  BY <1>6, <1>7
<1>9. h = f
  BY <1>1, <1>7, <1>8, SeqEqual
<1>10. c = d => FateOf(d, T) = FateOf(c, S)
  BY DEF FateOf
<1> QED
  BY <1>1, <1>9, <1>10 DEF f, g, h

LEMMA OutcomeIs ==
  /\ Outcome = FateOf(contiguousSeq, StoredSeqs)
  /\ Outcome' = FateOf(contiguousSeq', StoredSeqs')
BY DEF Outcome, FateOf

LEMMA ReadableIs ==
  /\ ReadableSeqs = {q \in written : Readable(log, q)}
  /\ ReadableSeqs' = {q \in written' : Readable(log', q)}
BY DEF ReadableSeqs, Readable, ReadStatus, Holds, Covers, LastSeq, SegmentOf, RecordAt

LEMMA InitDelivery == Init => D!Init
<1> SUFFICES ASSUME Init PROVE D!Init
  OBVIOUS
<1>1. written = {} /\ ReadableSeqs = {}
  BY DEF Init, EngineInit, ReadableSeqs
<1>2. Outcome = << >>
  <2>1. contiguousSeq = 0
    BY DEF Init, ServerInit
  <2>2. Outcome \in Seq(Fates) /\ Len(Outcome) = 0
    BY <2>1, OutcomeIs, FateIsSeq
  <2> QED BY <2>2, EmptySeq
<1> QED
  BY <1>1, <1>2 DEF D!Init

(* The rows of the server stay.                                              *)
LEMMA RowsStay ==
  ASSUME TrueInv, [Next]_vars
  PROVE  contiguousSeq <= contiguousSeq' /\ rawBlocks \subseteq rawBlocks' /\ gaps \subseteq gaps'
<1>1. EngineInv /\ ServerInv /\ contiguousSeq \in Nat
  BY DEF TrueInv, EndsInv, ServerInv, ServerTypeOK
<1>2. ASSUME DeliverResponse
      PROVE  contiguousSeq <= contiguousSeq' /\ rawBlocks \subseteq rawBlocks' /\ gaps \subseteq gaps'
  <2>1. PICK r \in responses : RespondChallenge(r)
    BY <1>2 DEF DeliverResponse
  <2>2. r.cs \in Nat \ {0} /\ r.head \in Nat /\ r.tail \in Nat /\ r.boot \in Nat
    BY StoreFacts DEF Response
  <2>3. contiguousSeq <= contiguousSeq'
    BY <1>1, <2>1, <2>2, RespondServerInv
  <2> QED BY <2>1, <2>3 DEF RespondChallenge
<1>3. ASSUME DeliverBlocks
      PROVE  contiguousSeq <= contiguousSeq' /\ rawBlocks \subseteq rawBlocks' /\ gaps \subseteq gaps'
  <2>1. PICK bs \in SeqOf(sent, MaxBatch) : ReceiveBatch(bs)
    BY <1>3 DEF DeliverBlocks
  <2>2. PICK m \in 0..MaxBatch : bs \in [1..m -> sent]
    BY <2>1 DEF SeqOf
  <2>3. sent \subseteq Block
    BY StoreFacts DEF Message, Block
  <2>4. bs \in Seq(Block)
    BY <2>2, <2>3, ServerAssumption
  <2>5. contiguousSeq <= contiguousSeq'
    BY <1>1, <2>1, <2>4, ReceiveServerInv
  <2> QED BY <2>1, <2>5 DEF ReceiveBatch
<1>4. CASE UNCHANGED <<contiguousSeq, rawBlocks, gaps>>
  BY <1>1, <1>4
<1>5. CASE \/ (EngineNext /\ UNCHANGED serverVars) \/ (IssueChallenge /\ UNCHANGED engineVars)
           \/ DeliverChallenge \/ DeliverAck \/ UNCHANGED vars
  <2>1. UNCHANGED <<contiguousSeq, rawBlocks, gaps>>
    BY <1>5 DEF IssueChallenge, DeliverChallenge, DeliverAck, vars, serverVars
  <2> QED BY <1>4, <2>1
<1> QED
  BY <1>2, <1>3, <1>5 DEF Next

LEMMA StepDelivers ==
  ASSUME TrueInv, [Next]_vars
  PROVE  D!Next \/ UNCHANGED <<written, ReadableSeqs, Outcome>>
<1>1. /\ TrueInv' /\ ((Grows /\ UNCHANGED serverVars) \/ UNCHANGED engineVars)
  BY NextTrue
<1>2. /\ contiguousSeq \in Nat /\ contiguousSeq < next /\ next \in Nat /\ written \in SUBSET Nat
      /\ Follows(next, written)
  BY StoreFacts DEF TrueInv, DecidedTrue, EndsInv, ServerInv, ServerTypeOK
<1>3. contiguousSeq' \in Nat
  BY <1>1 DEF TrueInv, EndsInv, ServerInv, ServerTypeOK
<1>4. Len(Outcome) = contiguousSeq /\ Len(Outcome') = contiguousSeq'
  BY <1>2, <1>3, OutcomeIs, FateIsSeq
<1>5. CASE Grows /\ UNCHANGED serverVars
  <2>1. UNCHANGED Outcome
    BY <1>5 DEF Outcome, StoredSeqs, serverVars
  <2>2. written \subseteq written' /\ (\A q \in written' : q \in written \/ next <= q)
        /\ NoBack(log', log, next) /\ written' \in SUBSET Nat
    BY <1>1, <1>5 DEF Grows, TrueInv, EndsInv, EngineInv, EngineTypeOK
  <2>3. ReadableSeqs' \subseteq ReadableSeqs \cup (written' \ written)
    <3> SUFFICES ASSUME NEW q \in written', Readable(log', q), q \in written PROVE Readable(log, q)
      BY ReadableIs
    <3> QED BY <1>2, <2>2 DEF NoBack, Follows
  <2>4. \A q \in written' \ written : q > Len(Outcome) /\ \A p \in written : p < q
    BY <1>2, <1>4, <2>2 DEF Follows
  <2> QED BY <2>1, <2>2, <2>3, <2>4 DEF D!Next, D!DongleStep
<1>6. CASE UNCHANGED engineVars
  <2>1. written' = written /\ log' = log
    BY <1>6 DEF engineVars, store
  <2>2. UNCHANGED <<written, ReadableSeqs>>
    BY <2>1, ReadableIs
  <2>3. contiguousSeq <= contiguousSeq' /\ rawBlocks \subseteq rawBlocks' /\ gaps \subseteq gaps'
    BY RowsStay
  <2>4. /\ StoredSeqs \cup GapSeqs = 1..contiguousSeq
        /\ StoredSeqs' \cup GapSeqs' = 1..contiguousSeq'
        /\ StoredSeqs' \cap GapSeqs' = {}
    <3>1. ServerInv /\ ServerInv'
      BY <1>1 DEF TrueInv, EndsInv
    <3>2. StoredSeqs \cup GapSeqs = 1..contiguousSeq
      BY <3>1, DecidedOnce DEF AckIsDecided
    <3>3. Decides(1, contiguousSeq, rawBlocks, gaps)'
      BY <3>1 DEF ServerInv
    <3> QED BY <3>2, <3>3 DEF Decides, SeqsOf, RangesOf, StoredSeqs, GapSeqs
  <2>5. StoredSeqs \subseteq StoredSeqs' /\ GapSeqs \subseteq GapSeqs'
    BY <2>3 DEF StoredSeqs, GapSeqs
  <2>6. \A q \in 1..contiguousSeq : q \in StoredSeqs <=> q \in StoredSeqs'
    BY <2>4, <2>5
  <2>7. /\ SubSeq(Outcome', 1, Len(Outcome)) = Outcome
        /\ contiguousSeq = contiguousSeq' => Outcome' = Outcome
    BY <1>2, <1>3, <2>3, <2>6, OutcomeIs, FateGrows
  <2>8. ASSUME NEW q \in Len(Outcome) + 1..Len(Outcome')
        PROVE  \/ Outcome'[q] = "delivered" /\ q \in written
               \/ Outcome'[q] = "given up" /\ q \notin ReadableSeqs
    <3>1. q \in 1..contiguousSeq'
      BY <1>2, <1>3, <1>4
    <3> DEFINE c == contiguousSeq'
               S == StoredSeqs'
    <3>2. Outcome'[q] = IF q \in StoredSeqs' THEN "delivered" ELSE "given up"
      <4>1. c \in Nat /\ q \in 1..c /\ Outcome' = FateOf(c, S)
        BY <1>3, <3>1, OutcomeIs
      <4> HIDE DEF c, S
      <4>2. FateOf(c, S)[q] = IF q \in S THEN "delivered" ELSE "given up"
        BY <4>1, FateIsSeq
      <4> QED BY <4>1, <4>2 DEF S
    <3>3. DecidedTrue(log, written, next, contiguousSeq', rawBlocks', gaps')
      <4>1. DecidedTrue(log, written, next, contiguousSeq, rawBlocks, gaps)'
        BY <1>1 DEF TrueInv
      <4>2. next' = next
        BY <1>6 DEF engineVars, store
      <4> QED BY <2>1, <4>1, <4>2 DEF DecidedTrue, Gone, Readable, ReadStatus, Holds, Covers, LastSeq,
              SegmentOf, RecordAt
    <3>4. q \in StoredSeqs' => q \in written
      BY <3>3 DEF StoredSeqs, DecidedTrue
    <3>5. q \in GapSeqs' => ~Readable(log, q)
      BY <3>3 DEF GapSeqs, DecidedTrue, Gone
    <3>6. q \in StoredSeqs' \/ q \in GapSeqs'
      BY <2>4, <3>1
    <3> QED BY <3>2, <3>4, <3>5, <3>6, ReadableIs
  <2>9. CASE contiguousSeq' = contiguousSeq
    BY <2>2, <2>7, <2>9
  <2>10. CASE contiguousSeq < contiguousSeq'
    <3>1. Len(Outcome') > Len(Outcome)
      BY <1>2, <1>3, <1>4, <2>10
    <3>2. D!Decide
      BY <2>2, <2>7, <2>8, <3>1 DEF D!Decide
    <3> QED BY <3>2 DEF D!Next
  <2> QED BY <1>2, <1>3, <2>3, <2>9, <2>10
<1> QED
  BY <1>1, <1>5, <1>6

(* The two ends, with an app between them that may lose, repeat and reorder  *)
(* whatever they send, implement Delivery: SyncEngine and receive_batch.go   *)
(* decide the seqs in order and for ever, deliver only what was written and  *)
(* give up only what the dongle can no longer read.                          *)
THEOREM DeliveryImplemented == Spec => PromiseKept
<1>1. TrueInv /\ [Next]_vars => [D!Next]_<<written, ReadableSeqs, Outcome>>
  BY StepDelivers
<1> QED
  BY <1>1, InitDelivery, TrueInvariance, PTL DEF Spec, PromiseKept, D!Spec

-------------------------------------------------------------------------------
(* On a sound medium: no record is skipped, no gap has a wrong reason        *)

DeclaresAt(s, i, x, y) ==
  i \in 1..Len(s.recs) /\ s.recs[i].kind = "BOOT" /\ s.recs[i].from = x /\ s.recs[i].to = y
DeclaresIn(s, x, y) == \E i \in 1..Len(s.recs) : DeclaresAt(s, i, x, y)

(* A BOOT of the log declares the seqs x..y.                                 *)
Declares(l, x, y) == \E s \in l : DeclaresIn(s, x, y)

(* No BOOT declares seqs above its own.                                     *)
Upright(l) == \A x, y \in Nat : Declares(l, x, y) => x <= y + 1

(* The seq q is not above a range that a BOOT of the log declares.           *)
BeforeBoots(l, q) == \A x, y \in Nat : Declares(l, x, y) => q <= x

(* m follows l: no newest record goes, and a new BOOT declares newer seqs.   *)
Follow(m, l) ==
  /\ NewestSeq(l) <= NewestSeq(m)
  /\ \A x, y \in Nat : Declares(m, x, y) => Declares(l, x, y) \/ NewestSeq(l) < x

LEMMA DeclaresWhere ==
  ASSUME NEW l, GoodLog(l), BootsSound(l), NEW x, NEW y, Declares(l, x, y)
  PROVE  \E s \in l : \E i \in 1..Len(s.recs) :
           /\ DeclaresAt(s, i, x, y)
           /\ x \in Nat \ {0} /\ y = s.first + i - 2 /\ y \in Nat
<1>1. PICK s \in l : DeclaresIn(s, x, y)
  BY DEF Declares
<1>2. PICK i \in 1..Len(s.recs) : DeclaresAt(s, i, x, y)
  BY <1>1 DEF DeclaresIn
<1>3. BootAt(s.recs[i], s.first + i - 1) /\ s.first \in Nat \ {0} /\ Len(s.recs) \in Nat
  BY SegmentFields DEF BootsSound, GoodLog
<1>4. x \in Nat \ {0} /\ y = s.first + i - 1 - 1
  BY <1>2, <1>3 DEF BootAt, DeclaresAt
<1>5. y = s.first + i - 2 /\ y \in Nat
  BY <1>3, <1>4
<1> QED
  BY <1>2, <1>4, <1>5

LEMMA DeclaredUnused ==
  ASSUME NEW l, NEW W, BootsUnused(l, W), NEW x, NEW y, Declares(l, x, y)
  PROVE  x..y \cap W = {}
<1>1. PICK s \in l : DeclaresIn(s, x, y)
  BY DEF Declares
<1>2. PICK i \in 1..Len(s.recs) : DeclaresAt(s, i, x, y)
  BY <1>1 DEF DeclaresIn
<1> QED
  BY <1>2 DEF BootsUnused, DeclaresAt

(* What a step of the log adds, it adds to what the BOOTs declare.           *)
LEMMA DeclaresAdds ==
  ASSUME NEW l, NEW m, NEW n, NEW r, Adds(m, l, n, r), NEW x, NEW y, Declares(m, x, y)
  PROVE  Declares(l, x, y) \/ (r.kind = "BOOT" /\ x = r.from /\ y = r.to)
<1>1. PICK t \in m : DeclaresIn(t, x, y)
  BY DEF Declares
<1>2. PICK i \in 1..Len(t.recs) : DeclaresAt(t, i, x, y)
  BY <1>1 DEF DeclaresIn
<1>3. KeptFrom(l, t, i) \/ t.recs[i] = r
  BY DEF Adds
<1>4. CASE KeptFrom(l, t, i)
  <2>1. PICK s \in l : KeptIn(s, t, i)
    BY <1>4 DEF KeptFrom
  <2>2. DeclaresAt(s, i, x, y) /\ i \in 1..Len(s.recs)
    BY <1>2, <2>1 DEF KeptIn, DeclaresAt
  <2>3. DeclaresIn(s, x, y)
    BY <2>2 DEF DeclaresIn
  <2> QED BY <2>3 DEF Declares
<1>5. CASE t.recs[i] = r
  BY <1>2, <1>5 DEF DeclaresAt
<1> QED
  BY <1>3, <1>4, <1>5

LEMMA BeforeStays ==
  ASSUME NEW l, GoodLog(l), NEW m, GoodLog(m), Follow(m, l),
         NEW q \in Int, q <= NewestSeq(l) + 1, BeforeBoots(l, q)
  PROVE  q <= NewestSeq(m) + 1 /\ BeforeBoots(m, q)
<1>1. NewestSeq(l) \in Nat /\ NewestSeq(m) \in Nat /\ NewestSeq(l) <= NewestSeq(m)
  BY NewestSeqType DEF Follow
<1>2. ASSUME NEW x \in Nat, NEW y \in Nat, Declares(m, x, y) PROVE q <= x
  <2>1. Declares(l, x, y) \/ NewestSeq(l) < x
    BY <1>2 DEF Follow
  <2> QED BY <1>1, <2>1 DEF BeforeBoots
<1> QED
  BY <1>1, <1>2 DEF BeforeBoots

(* The oldest record can be read: the TAIL leaves its gap to every BOOT.     *)
LEMMA TailBeforeBoots ==
  ASSUME NEW l, GoodLog(l), Ordered(l), NEW W \in SUBSET Nat, Backed(l, W), Exact(l, W), Upright(l)
  PROVE  EffectiveTail(l) <= NewestSeq(l) + 1 /\ BeforeBoots(l, EffectiveTail(l))
<1> DEFINE o == OldestSeg(l)
           q == OldestSeq(l)
           r == RecordAt(l, q)
           e == EffectiveTail(l)
           n == NewestSeq(l)
<1>1. BootsSound(l) /\ Intact(l) /\ BootsUnused(l, W)
  BY DEF Exact
<1>2. e \in Nat \ {0} /\ n \in Nat
  BY <1>1, EffectiveTailType, NewestSeqType
<1>3. CASE l = {}
  <2>1. e = 1
    BY <1>3 DEF EffectiveTail
  <2>2. BeforeBoots(l, e)
    BY <1>3 DEF BeforeBoots, Declares
  <2> QED BY <1>2, <2>1, <2>2
<1>4. CASE l # {}
  <2>1. o \in l /\ q = o.first /\ \A s \in l : o.first <= s.first
    BY <1>4, OldestExists DEF GoodLog, OldestSeq
  <2>2. /\ o \in Segment /\ o.first \in Nat \ {0} /\ LastSeq(o) \in Nat /\ Len(o.recs) \in Nat
        /\ Len(o.recs) > 0 /\ LastSeq(o) = o.first + Len(o.recs) - 1
    BY <2>1, SegmentFields DEF GoodLog, Ordered
  <2>3. q \in Nat /\ Covers(o, q) /\ Holds(l, q) /\ q \in W
    <3>1. q \in Nat /\ q \in o.first..LastSeq(o)
      BY <2>1, <2>2
    <3> QED BY <2>1, <2>2, <3>1 DEF Covers, Holds, Backed
  <2>4. q <= n /\ e <= q
    BY <1>1, <1>4, <2>3, HeldInside, TailIsGone
  <2>5. /\ r = o.recs[q - o.first + 1] /\ q - o.first + 1 = 1
        /\ Readable(l, q) <=> ReadableIn(o, q - o.first + 1)
    BY <2>1, <2>2, <2>3, ReadableWhere
  <2>6. ReadableIn(o, 1)
    BY <1>1, <2>1, <2>2 DEF ReadableIn, Intact, SoundSegment
  <2>7. ReadStatus(l, q) = "Ok" /\ r = o.recs[1]
    BY <2>5, <2>6 DEF Readable
  <2>8. ASSUME NEW x \in Nat, NEW y \in Nat, Declares(l, x, y) PROVE e <= x
    <3>1. PICK s \in l : \E i \in 1..Len(s.recs) :
            /\ DeclaresAt(s, i, x, y)
            /\ x \in Nat \ {0} /\ y = s.first + i - 2 /\ y \in Nat
      BY <1>1, <2>8, DeclaresWhere
    <3>2. PICK i \in 1..Len(s.recs) :
            /\ DeclaresAt(s, i, x, y)
            /\ x \in Nat \ {0} /\ y = s.first + i - 2 /\ y \in Nat
      BY <3>1
    <3>3. /\ s.first \in Nat /\ q <= s.first /\ Len(s.recs) \in Nat
          /\ LastSeq(s) = s.first + Len(s.recs) - 1 /\ LastSeq(s) \in Nat
      BY <2>1, SegmentFields DEF GoodLog
    <3>4. CASE y >= q
      <4>1. x..y \cap W = {}
        BY <1>1, <2>8, DeclaredUnused
      <4>2. ~(x <= q)
        BY <2>3, <3>2, <3>4, <4>1
      <4> HIDE DEF q, e
      <4> QED BY <1>2, <2>3, <2>4, <4>2
    <3>5. CASE ~(y >= q)
      <4>1. i = 1 /\ s.first = o.first
        BY <2>1, <2>3, <3>2, <3>3, <3>5
      <4>2. s = o
        BY <2>1, <4>1, FirstsDiffer DEF GoodLog
      <4>3. r.kind = "BOOT" /\ r.from = x
        BY <2>7, <3>2, <4>1, <4>2 DEF DeclaresAt
      <4>4. x <= q
        <5>1. x <= y + 1
          BY <2>8 DEF Upright
        <5> QED BY <2>1, <2>3, <3>2, <4>1, <5>1
      <4>5. e = x
        BY <1>4, <2>7, <4>3, <4>4 DEF EffectiveTail
      <4> QED BY <4>5
    <3> QED BY <3>4, <3>5
  <2>9. e <= n + 1
    <3> HIDE DEF q, e, n
    <3> QED BY <1>2, <2>3, <2>4
  <2> QED BY <2>8, <2>9 DEF BeforeBoots
<1> QED
  BY <1>3, <1>4

LEMMA NothingNew ==
  ASSUME NEW l, NEW m, NEW n, Adds(m, l, n, DataRecord), NewestSeq(l) <= NewestSeq(m)
  PROVE  Follow(m, l) /\ (Upright(l) => Upright(m))
<1>1. DataRecord.kind # "BOOT"
  BY DEF DataRecord
<1>2. \A x, y \in Nat : Declares(m, x, y) => Declares(l, x, y)
  BY <1>1, DeclaresAdds
<1> QED
  BY <1>2 DEF Follow, Upright

LEMMA IntactReads ==
  ASSUME NEW l, Intact(l)
  PROVE  ReadTo(l)
BY DEF Intact, SoundSegment, ReadTo

LEMMA NewEndFollows ==
  ASSUME NEW l, GoodLog(l), Ordered(l), NEW k, NewEnd(k, l), l # {} => k # {}
  PROVE  Follow(k, l) /\ NewestSeq(k) = NewestSeq(l) /\ (Upright(l) => Upright(k))
<1>1. k \in SUBSET l
  BY DEF NewEnd
<1>2. NewestSeq(k) = NewestSeq(l)
  <2>1. CASE l = {}
    BY <1>1, <2>1
  <2>2. CASE l # {}
    BY <2>2, NewEndKeepsNewest
  <2> QED BY <2>1, <2>2
<1>3. NewestSeq(l) \in Nat
  BY NewestSeqType
<1>4. Adds(k, l, 0, DataRecord)
  BY <1>1, SubsetReads
<1>5. NewestSeq(l) <= NewestSeq(k)
  BY <1>2, <1>3
<1> QED
  BY <1>2, <1>4, <1>5, NothingNew

(* The log, the next seq and the BOOT still to be written fit together.      *)
SoundLog(l, W, n, bf) ==
  /\ Exact(l, W) /\ Upright(l)
  /\ l # {} => IF bf > 0 THEN bf = NewestSeq(l) + 1 ELSE n = NewestSeq(l) + 1

(* A record is written, or a BOOT fails to be and stays pending.             *)
LEMMA PutSound ==
  ASSUME NEW found, GoodLog(found), Ordered(found), Backed(found, written),
         written \in SUBSET Nat, Exact(found, written), Upright(found),
         NEW seq \in Nat \ {0}, Follows(seq, written),
         NEW r \in Record, BootAt(r, seq), r.good, Joins(found, seq, r),
         r.kind = "BOOT" => r.from <= seq,
         NEW new \in BOOLEAN, new \/ (Continues(found, seq) /\ ~NewestSeg(found).sealed),
         NEW mayFail, mayFail => r.kind = "BOOT", Put(found, mayFail, new, seq, r)
  PROVE  SoundLog(log', written', next', bootFrom') /\ Follow(log', found)
<1>1. PICK kept \in EnsureSpace(found) :
        \/ /\ log' = AppendOk(kept, new, seq, r)
           /\ written' = written \cup {seq}
           /\ next' = seq + 1 /\ bootFrom' = 0
        \/ /\ mayFail
           /\ log' = kept /\ written' = written
           /\ next' = seq /\ bootFrom' = r.from
  BY DEF Put
<1>2. NewEnd(kept, found) /\ (found # {} => kept # {}) /\ kept \in SUBSET found
  BY SpaceNewEnd DEF NewEnd
<1>3. GoodLog(kept) /\ Ordered(kept) /\ Backed(kept, written)
  BY <1>2, GoodSubset, OrderedSubset
<1>4. Exact(kept, written) /\ Follow(kept, found) /\ NewestSeq(kept) = NewestSeq(found) /\ Upright(kept)
  BY <1>2, NewEndExact, NewEndFollows
<1>5. NewestSeq(kept) \in Nat /\ NewestSeq(found) \in Nat
  BY <1>3, NewestSeqType
<1>6. kept # {} => found # {}
  BY <1>2
<1>7. Joins(kept, seq, r)
  BY <1>4, <1>6 DEF Joins
<1>8. CASE /\ mayFail
           /\ log' = kept /\ written' = written
           /\ next' = seq /\ bootFrom' = r.from
  <2>1. r.kind = "BOOT" /\ r.from \in Nat \ {0}
    BY <1>8 DEF BootAt
  <2>2. kept # {} => r.from = NewestSeq(kept) + 1
    BY <1>7, <2>1 DEF Joins
  <2>3. SoundLog(kept, written, seq, r.from)
    BY <1>4, <2>1, <2>2 DEF SoundLog
  <2> QED BY <1>4, <1>8, <2>3
<1>9. CASE /\ log' = AppendOk(kept, new, seq, r)
           /\ written' = written \cup {seq}
           /\ next' = seq + 1 /\ bootFrom' = 0
  <2> DEFINE m == AppendOk(kept, new, seq, r)
             W == written \cup {seq}
  <2>1. ~new => Continues(kept, seq) /\ ~NewestSeg(kept).sealed
    <3> SUFFICES ASSUME ~new PROVE Continues(kept, seq) /\ ~NewestSeg(kept).sealed
      OBVIOUS
    <3>1. Continues(found, seq) /\ ~NewestSeg(found).sealed /\ found # {}
      BY DEF Continues
    <3>2. kept # {} /\ NewestSeg(kept) = NewestSeg(found)
      BY <3>1, SpaceKeepsNewest
    <3> QED BY <3>1, <3>2 DEF Continues
  <2>2. Exact(m, W)
    <3>1. CASE new = TRUE
      BY <1>3, <1>4, <1>7, <3>1, AppendNewExact
    <3>2. CASE new = FALSE
      BY <1>3, <1>4, <1>7, <2>1, <3>2, AppendOnExact
    <3> QED BY <3>1, <3>2
  <2>3. GoodLog(m)
    BY <1>3, <2>1, GoodAppend DEF Continues
  <2>4. Ordered(m) /\ m # {} /\ NewestSeq(m) = seq
    <3>1. new \/ Continues(kept, seq)
      BY <2>1
    <3>2. CASE new = TRUE
      BY <1>3, <3>2, AppendOrdered
    <3>3. CASE new = FALSE
      BY <1>3, <3>1, <3>3, AppendOrdered
    <3> QED BY <3>2, <3>3
  <2>5. Adds(m, kept, seq, r)
    <3>1. ReadTo(kept)
      BY <1>4, IntactReads DEF Exact
    <3> QED BY <1>3, <2>1, <3>1, AppendReads
  <2>6. NewestSeq(found) < seq
    <3>1. NewestSeq(kept) < seq \/ kept = {}
      BY <1>3, LastBelow
    <3>2. kept = {} => NewestSeq(kept) = 0
      BY DEF NewestSeq
    <3> QED BY <1>4, <1>5, <3>1, <3>2
  <2> HIDE DEF m, W
  <2>7. ASSUME NEW x \in Nat, NEW y \in Nat, Declares(m, x, y)
        PROVE  x <= y + 1 /\ (Declares(found, x, y) \/ NewestSeq(found) < x)
    <3>1. Declares(kept, x, y) \/ (r.kind = "BOOT" /\ x = r.from /\ y = r.to)
      BY <2>5, <2>7, DeclaresAdds
    <3>2. CASE Declares(kept, x, y)
      BY <1>4, <3>2 DEF Upright, Follow
    <3>3. CASE r.kind = "BOOT" /\ x = r.from /\ y = r.to
      <4>1. x \in Nat \ {0} /\ y = seq - 1 /\ x <= seq
        BY <3>3 DEF BootAt
      <4>2. found # {} => x = NewestSeq(found) + 1
        BY <3>3 DEF Joins
      <4>3. found = {} => NewestSeq(found) = 0
        BY DEF NewestSeq
      <4> QED BY <1>5, <4>1, <4>2, <4>3
    <3> QED BY <3>1, <3>2, <3>3
  <2>8. Upright(m) /\ Follow(m, found)
    BY <1>5, <2>4, <2>6, <2>7 DEF Upright, Follow
  <2>9. SoundLog(m, W, seq + 1, 0)
    BY <2>2, <2>4, <2>8 DEF SoundLog
  <2> QED BY <1>9, <2>8, <2>9 DEF m, W
<1> QED
  BY <1>1, <1>8, <1>9

(* No message, gap or TAIL says of a written seq that a BOOT declared it; and*)
(* the cursor has passed only what was sent.                                 *)
SentUnused(W, ms) == \A m \in ms : m.kind = "BOOT" => m.from..m.to \cap W = {}
GapsUnused(W, gs) == \A g \in gs : g.cause = "BOOT" => g.from..g.to \cap W = {}
TailsBefore(l, rs) == \A r \in rs : r.tail <= NewestSeq(l) + 1 /\ BeforeBoots(l, r.tail)
DiscardsBefore(l, gs) ==
  \A g \in gs : g.cause = "OVERFLOW" => g.to <= NewestSeq(l) /\ BeforeBoots(l, g.to + 1)
SentFor(ms, q) == \E m \in ms : m.from <= q /\ q <= Max({m.seq, m.to})
Unskipped(W, a, c, ms) == \A q \in W : q \in a + 1..c - 1 => SentFor(ms, q)

(* The bounds of the cursor hold on any medium, the rest on a sound one.     *)
UndamagedInv ==
  /\ TrueInv
  /\ cursor <= next /\ ackLocal < next
  /\ damage = 0 =>
       /\ SoundLog(log, written, next, bootFrom)
       /\ SentUnused(written, sent) /\ GapsUnused(written, gaps)
       /\ TailsBefore(log, responses) /\ DiscardsBefore(log, gaps)
       /\ Unskipped(written, ackLocal, cursor, sent)

LEMMA UndamagedOf ==
  ASSUME TrueInv', cursor' <= next', ackLocal' < next',
         damage' = 0 =>
           /\ SoundLog(log', written', next', bootFrom')
           /\ SentUnused(written', sent') /\ GapsUnused(written', gaps')
           /\ TailsBefore(log', responses') /\ DiscardsBefore(log', gaps')
           /\ Unskipped(written', ackLocal', cursor', sent')
  PROVE  UndamagedInv'
BY DEF UndamagedInv, SoundLog, Exact, Upright, Declares, DeclaresIn, DeclaresAt, Intact, SoundSegment,
   NoHoles, JumpsIn, Neighbours, JumpDeclared, BootsSound, BootAt, BootsUnused, NewestSeq, NewestSeg,
   LastSeq, Holds, Covers, SentUnused, GapsUnused, TailsBefore, BeforeBoots, DiscardsBefore,
   Unskipped, SentFor

LEMMA UndamagedFacts ==
  ASSUME UndamagedInv
  PROVE  /\ TrueInv /\ cursor \in Nat \ {0} /\ ackLocal \in Nat /\ damage \in Nat /\ next \in Nat \ {0}
         /\ written \in SUBSET Nat /\ batchEnd \in Nat
         /\ sent \in SUBSET Message /\ responses \in SUBSET Response /\ gaps \in SUBSET Gap
         /\ \A m \in sent : m.from \in Nat /\ m.to \in Nat /\ m.seq \in Nat /\ m.to < next
         /\ \A r \in responses : r.tail \in Nat
         /\ \A g \in gaps : g.from \in Nat /\ g.to \in Nat /\ g.to < next
         /\ contiguousSeq \in Nat
<1>1. TrueInv
  BY DEF UndamagedInv
<1>2. /\ cursor \in Nat \ {0} /\ ackLocal \in Nat /\ damage \in Nat /\ next \in Nat \ {0}
      /\ written \in SUBSET Nat /\ batchEnd \in Nat
      /\ sent \in SUBSET Message /\ responses \in SUBSET Response /\ gaps \in SUBSET Gap
      /\ contiguousSeq \in Nat
  BY <1>1 DEF TrueInv, EndsInv, EngineInv, EngineTypeOK, ServerInv, ServerTypeOK
<1>3. \A m \in sent : m.from \in Nat /\ m.to \in Nat /\ m.seq \in Nat /\ m.to < next
  BY <1>1, <1>2 DEF TrueInv, SentTrue, Message
<1>4. \A r \in responses : r.tail \in Nat
  BY <1>2 DEF Response
<1>5. \A g \in gaps : g.from \in Nat /\ g.to \in Nat /\ g.to < next
  BY <1>1, <1>2 DEF TrueInv, DecidedTrue, Gap
<1> QED
  BY <1>1, <1>2, <1>3, <1>4, <1>5

LEMMA GoodNow ==
  ASSUME TrueInv'
  PROVE  GoodLog(log') /\ Ordered(log') /\ next' \in Nat /\ damage' \in Nat
BY DEF TrueInv, EndsInv, EngineInv, EngineTypeOK, StoreInv, GoodLog, Ordered, LastSeq

LEMMA UnskippedStays ==
  ASSUME NEW W \in SUBSET Nat, NEW a \in Nat, NEW c \in Nat, NEW ms, Unskipped(W, a, c, ms),
         NEW V \in SUBSET Nat, NEW n \in Nat, c <= n, \A q \in V : q \in W \/ n <= q,
         NEW b \in Nat, a <= b, NEW d \in Nat, d <= c \/ d <= b + 1, NEW ns, ms \subseteq ns
  PROVE  Unskipped(V, b, d, ns)
<1> SUFFICES ASSUME NEW q \in V, q \in b + 1..d - 1 PROVE SentFor(ns, q)
  BY DEF Unskipped
<1>1. d <= c /\ q \in W /\ q \in a + 1..c - 1
  OBVIOUS
<1>2. SentFor(ms, q)
  BY <1>1 DEF Unskipped
<1> QED
  BY <1>2 DEF SentFor

(* A step of the dongle.                                                     *)
LEMMA DongleUndamaged ==
  ASSUME UndamagedInv, TrueInv', Grows, UNCHANGED serverVars, cursor' <= next', ackLocal' < next',
         damage' \in {damage, damage + 1},
         NEW ms, sent' \subseteq sent \cup ms, NEW rs, responses' \subseteq responses \cup rs,
         damage = 0 /\ damage' = 0 =>
           /\ SoundLog(log', written', next', bootFrom') /\ Follow(log', log)
           /\ SentUnused(written', ms) /\ TailsBefore(log', rs)
           /\ Unskipped(written', ackLocal', cursor', sent')
  PROVE  UndamagedInv'
<1>1. CASE damage' # 0
  BY <1>1, UndamagedOf
<1>2. CASE damage' = 0
  <2> DEFINE l == log
             m == log'
             W == written
             V == written'
  <2>1. damage = 0
    BY <1>2, UndamagedFacts
  <2>2. /\ SoundLog(m, V, next', bootFrom') /\ Follow(m, l)
        /\ SentUnused(V, ms) /\ TailsBefore(m, rs)
        /\ Unskipped(V, ackLocal', cursor', sent')
    BY <1>2, <2>1
  <2>3. /\ SentUnused(W, sent) /\ GapsUnused(W, gaps)
        /\ TailsBefore(l, responses) /\ DiscardsBefore(l, gaps)
    BY <2>1 DEF UndamagedInv
  <2>4. GoodLog(l) /\ GoodLog(m) /\ next \in Nat
    BY GoodNow, StoreFacts, UndamagedFacts
  <2>5. \A q \in V : q \in W \/ next <= q
    BY DEF Grows
  <2>6. gaps' = gaps
    BY DEF serverVars
  <2>7. NewestSeq(l) \in Nat
    BY <2>4, NewestSeqType
  <2> HIDE DEF l, m, W, V
  <2>8. SentUnused(V, sent')
    <3> SUFFICES ASSUME NEW x \in sent, x.kind = "BOOT" PROVE x.from..x.to \cap V = {}
      BY <2>2 DEF SentUnused
    <3>1. x.from \in Nat /\ x.to \in Nat /\ x.to < next /\ x.from..x.to \cap W = {}
      BY <2>3, UndamagedFacts DEF SentUnused
    <3> QED BY <2>4, <2>5, <3>1
  <2>9. GapsUnused(V, gaps')
    <3> SUFFICES ASSUME NEW g \in gaps, g.cause = "BOOT" PROVE g.from..g.to \cap V = {}
      BY <2>6 DEF GapsUnused
    <3>1. g.from \in Nat /\ g.to \in Nat /\ g.to < next /\ g.from..g.to \cap W = {}
      BY <2>3, UndamagedFacts DEF GapsUnused
    <3> QED BY <2>4, <2>5, <3>1
  <2>10. TailsBefore(m, responses')
    <3> SUFFICES ASSUME NEW r \in responses PROVE r.tail <= NewestSeq(m) + 1 /\ BeforeBoots(m, r.tail)
      BY <2>2 DEF TailsBefore
    <3>1. r.tail \in Int /\ r.tail <= NewestSeq(l) + 1 /\ BeforeBoots(l, r.tail)
      BY <2>3, UndamagedFacts DEF TailsBefore
    <3> QED BY <2>2, <2>4, <3>1, BeforeStays
  <2>11. DiscardsBefore(m, gaps')
    <3> SUFFICES ASSUME NEW g \in gaps, g.cause = "OVERFLOW"
                 PROVE  g.to <= NewestSeq(m) /\ BeforeBoots(m, g.to + 1)
      BY <2>6 DEF DiscardsBefore
    <3> DEFINE q == g.to + 1
    <3>1. g.to \in Nat /\ g.to <= NewestSeq(l) /\ BeforeBoots(l, q)
      BY <2>3, UndamagedFacts DEF DiscardsBefore
    <3>2. q \in Int /\ q <= NewestSeq(l) + 1
      BY <2>7, <3>1
    <3> HIDE DEF q
    <3>3. q <= NewestSeq(m) + 1 /\ BeforeBoots(m, q)
      BY <2>2, <2>4, <3>1, <3>2, BeforeStays
    <3>4. NewestSeq(m) \in Nat
      BY <2>4, NewestSeqType
    <3> QED BY <3>1, <3>3, <3>4 DEF q
  <2> QED BY <2>2, <2>8, <2>9, <2>10, <2>11, UndamagedOf DEF m, V
<1> QED
  BY <1>1, <1>2

LEMMA NewestBelow ==
  ASSUME UndamagedInv
  PROVE  NewestSeq(log) \in Nat /\ NewestSeq(log) < next
<1>1. TrueInv /\ next \in Nat \ {0}
  BY UndamagedFacts
<1>2. GoodLog(log) /\ Ordered(log) /\ Backed(log, written) /\ Follows(next, written)
  BY <1>1, StoreFacts
<1>3. NewestSeq(log) < next \/ log = {}
  BY <1>1, <1>2, LastBelow
<1>4. log = {} => NewestSeq(log) = 0
  BY DEF NewestSeq
<1>5. NewestSeq(log) \in Nat
  BY <1>2, NewestSeqType
<1> QED
  BY <1>1, <1>3, <1>4, <1>5

(* A step that leaves the log and what was sent; the cursor may start again. *)
LEMMA SameLog ==
  ASSUME UndamagedInv, damage = 0, log' = log, written' = written, next' = next, bootFrom' = bootFrom
  PROVE  SoundLog(log', written', next', bootFrom') /\ Follow(log', log)
<1>1. SoundLog(log, written, next, bootFrom)
  BY DEF UndamagedInv
<1>2. Follow(log, log)
  BY NewestBelow DEF Follow
<1> QED
  BY <1>1, <1>2

LEMMA NoneSent ==
  ASSUME NEW W, NEW l
  PROVE  SentUnused(W, {}) /\ TailsBefore(l, {})
BY DEF SentUnused, TailsBefore

LEMMA QuietUndamaged ==
  ASSUME UndamagedInv, TrueInv', Grows, UNCHANGED serverVars, UNCHANGED <<store, outgoing, ackLocal>>,
         cursor' = cursor \/ cursor' = ackLocal + 1
  PROVE  UndamagedInv'
<1>1. /\ log' = log /\ written' = written /\ next' = next /\ bootFrom' = bootFrom /\ damage' = damage
      /\ sent' \subseteq sent \cup {} /\ responses' \subseteq responses \cup {} /\ sent' = sent
      /\ ackLocal' = ackLocal
  BY DEF store, outgoing
<1>2. /\ cursor \in Nat /\ ackLocal \in Nat /\ next \in Nat /\ written \in SUBSET Nat
      /\ cursor <= next /\ ackLocal < next /\ damage' \in {damage, damage + 1}
  BY <1>1, UndamagedFacts DEF UndamagedInv
<1>3. cursor' <= next' /\ ackLocal' < next' /\ cursor' \in Nat
  BY <1>1, <1>2
<1>4. ASSUME damage = 0
      PROVE  /\ SoundLog(log', written', next', bootFrom') /\ Follow(log', log)
             /\ SentUnused(written', {}) /\ TailsBefore(log', {})
             /\ Unskipped(written', ackLocal', cursor', sent')
  <2>1. Unskipped(written, ackLocal, cursor, sent)
    BY <1>4 DEF UndamagedInv
  <2> DEFINE d == cursor'
  <2>2. d \in Nat /\ (d <= cursor \/ d <= ackLocal + 1) /\ ackLocal <= ackLocal /\ sent \subseteq sent
        /\ \A q \in written : q \in written \/ next <= q
    BY <1>2, <1>3
  <2> HIDE DEF d
  <2>3. Unskipped(written, ackLocal, d, sent)
    BY <1>2, <2>1, <2>2, UnskippedStays
  <2>4. SoundLog(log', written', next', bootFrom') /\ Follow(log', log)
    BY <1>1, <1>4, SameLog
  <2> QED BY <1>1, <2>3, <2>4, NoneSent DEF d
<1> QED
  BY <1>1, <1>2, <1>3, <1>4, DongleUndamaged

(* What an ack frees.                                                        *)
LEMMA AckUndamaged ==
  ASSUME UndamagedInv, NEW a \in Nat, a <= NewestSeq(log), (a > ackLocal /\ AdvanceAck(a)) \/ KeepAck,
         written' = written, next' = next, bootFrom' = bootFrom, sent' = sent
  PROVE  /\ cursor' <= next' /\ ackLocal' < next'
         /\ damage = 0 =>
              /\ SoundLog(log', written', next', bootFrom') /\ Follow(log', log)
              /\ Unskipped(written', ackLocal', cursor', sent')
<1>1. /\ cursor \in Nat /\ ackLocal \in Nat /\ next \in Nat /\ written \in SUBSET Nat
      /\ cursor <= next /\ ackLocal < next
  BY UndamagedFacts DEF UndamagedInv
<1>2. NewestSeq(log) \in Nat /\ NewestSeq(log) < next
  BY NewestBelow
<1>3. GoodLog(log) /\ Ordered(log)
  BY UndamagedFacts, StoreFacts
<1>4. CASE KeepAck
  <2>1. log' = log /\ ackLocal' = ackLocal /\ cursor' = cursor
    BY <1>4 DEF KeepAck, batch
  <2>2. ASSUME damage = 0
        PROVE  SoundLog(log', written', next', bootFrom') /\ Follow(log', log)
    BY <2>1, <2>2, SameLog
  <2>3. damage = 0 => Unskipped(written', ackLocal', cursor', sent')
    BY <2>1 DEF UndamagedInv
  <2> QED BY <1>1, <2>1, <2>2, <2>3
<1>5. CASE a > ackLocal /\ AdvanceAck(a)
  <2> DEFINE b == a + 1
             m == DeleteUpTo(log, a)
             d == cursor'
  <2>1. ackLocal' = a /\ log' = m /\ d = Max({cursor, b})
    BY <1>5 DEF AdvanceAck
  <2>2. d \in {cursor, b}
    <3>1. b \in Int /\ cursor \in Int
      BY <1>1
    <3> HIDE DEF b, d
    <3> QED BY <2>1, <3>1, MaxOfTwo
  <2> HIDE DEF d, m
  <2>3. d \in Nat /\ (d <= cursor \/ d <= a + 1) /\ ackLocal <= a /\ sent \subseteq sent
        /\ \A q \in written : q \in written \/ next <= q
    BY <1>1, <1>5, <2>2
  <2>4. d <= next /\ a < next
    BY <1>1, <1>2, <2>2
  <2>5. NewEnd(m, log) /\ (log # {} => m # {})
    BY <1>3, DeleteUpToNewEnd DEF m
  <2>6. Follow(m, log) /\ NewestSeq(m) = NewestSeq(log) /\ (Upright(log) => Upright(m))
    BY <1>3, <2>5, NewEndFollows
  <2>7. ASSUME damage = 0 PROVE SoundLog(m, written, next, bootFrom)
    <3>1. SoundLog(log, written, next, bootFrom)
      BY <2>7 DEF UndamagedInv
    <3>2. Exact(m, written)
      BY <1>1, <1>3, <2>5, <3>1, NewEndExact DEF SoundLog
    <3>3. m # {} => log # {}
      BY <2>5 DEF NewEnd
    <3> QED BY <2>6, <3>1, <3>2, <3>3 DEF SoundLog
  <2>8. ASSUME damage = 0 PROVE Unskipped(written, a, d, sent)
    <3>1. Unskipped(written, ackLocal, cursor, sent)
      BY <2>8 DEF UndamagedInv
    <3> QED BY <1>1, <2>3, <3>1, UnskippedStays
  <2> QED BY <2>1, <2>4, <2>6, <2>7, <2>8 DEF d
<1> QED
  BY <1>4, <1>5

LEMMA HandleAckUndamaged ==
  ASSUME UndamagedInv, TrueInv', Grows, UNCHANGED serverVars, NEW a \in acks, HandleAck(a)
  PROVE  UndamagedInv'
<1>1. /\ written' = written /\ next' = next /\ bootFrom' = bootFrom /\ damage' = damage
      /\ sent' \subseteq sent \cup {} /\ responses' \subseteq responses \cup {} /\ sent' = sent
  BY DEF HandleAck, outgoing
<1>2. a.ack \in Nat
  BY DEF UndamagedInv, TrueInv, EndsInv, ServerInv, ServerTypeOK, Ack
<1>3. (a.ack > ackLocal /\ AdvanceAck(a.ack)) \/ KeepAck
  BY DEF HandleAck
<1>4. a.ack <= NewestSeq(log)
  BY DEF HandleAck
<1> DEFINE k == a.ack
<1>5. k \in Nat /\ k <= NewestSeq(log) /\ ((k > ackLocal /\ AdvanceAck(k)) \/ KeepAck)
  BY <1>2, <1>3, <1>4
<1> HIDE DEF k
<1>6. /\ cursor' <= next' /\ ackLocal' < next'
      /\ damage = 0 =>
           /\ SoundLog(log', written', next', bootFrom') /\ Follow(log', log)
           /\ Unskipped(written', ackLocal', cursor', sent')
  BY <1>1, <1>5, AckUndamaged
<1>7. damage' \in {damage, damage + 1}
  BY <1>1
<1> QED
  BY <1>1, <1>6, <1>7, NoneSent, DongleUndamaged

LEMMA HandleChallengeUndamaged ==
  ASSUME UndamagedInv, TrueInv', Grows, UNCHANGED serverVars, NEW c \in challenges, HandleChallenge(c)
  PROVE  UndamagedInv'
<1> DEFINE k == c.ack
           m == log'
           r  == [cs |-> c.cs, head |-> NewestSeq(log'), tail |-> EffectiveTail(log'),
                  boot |-> boot, conn |-> conns]
<1>1. /\ written' = written /\ next' = next /\ bootFrom' = bootFrom /\ damage' = damage
      /\ sent' \subseteq sent \cup {} /\ sent' = sent
  BY DEF HandleChallenge
<1>2. responses' \subseteq responses \cup {r}
  BY DEF HandleChallenge
<1>3. k \in Nat
  BY DEF UndamagedInv, TrueInv, EndsInv, ServerInv, ServerTypeOK, Challenge
<1>4. (k > ackLocal /\ k <= NewestSeq(log) /\ AdvanceAck(k)) \/ KeepAck
  BY DEF HandleChallenge
<1>5. r.tail = EffectiveTail(m)
  OBVIOUS
<1> HIDE DEF k, r
<1>6. /\ cursor' <= next' /\ ackLocal' < next'
      /\ damage = 0 =>
           /\ SoundLog(log', written', next', bootFrom') /\ Follow(log', log)
           /\ Unskipped(written', ackLocal', cursor', sent')
  <2>1. CASE KeepAck
    <3>1. 0 \in Nat /\ 0 <= NewestSeq(log)
      BY NewestBelow
    <3> QED BY <1>1, <2>1, <3>1, AckUndamaged
  <2>2. CASE k > ackLocal /\ k <= NewestSeq(log) /\ AdvanceAck(k)
    BY <1>1, <1>3, <2>2, AckUndamaged
  <2> QED BY <1>4, <2>1, <2>2
<1>7. damage = 0 => TailsBefore(log', {r})
  <2> SUFFICES ASSUME damage = 0 PROVE TailsBefore(m, {r})
    OBVIOUS
  <2>1. SoundLog(m, written, next, bootFrom)
    BY <1>1, <1>6
  <2>2. m \in SUBSET log
    <3>1. AdvanceAck(k) \/ KeepAck
      BY <1>4
    <3> QED BY <3>1 DEF AdvanceAck, DeleteUpTo, KeepAck
  <2>3. /\ GoodLog(log) /\ Ordered(log) /\ Backed(log, written) /\ written \in SUBSET Nat
    BY UndamagedFacts, StoreFacts
  <2> HIDE DEF m
  <2>4. GoodLog(m) /\ Ordered(m) /\ Backed(m, written)
    BY <2>2, <2>3, GoodSubset, OrderedSubset
  <2>5. EffectiveTail(m) <= NewestSeq(m) + 1 /\ BeforeBoots(m, EffectiveTail(m))
    BY <2>1, <2>3, <2>4, TailBeforeBoots DEF SoundLog
  <2> QED BY <1>5, <2>5 DEF TailsBefore
<1>8. damage' \in {damage, damage + 1}
  BY <1>1
<1> QED
  BY <1>1, <1>2, <1>6, <1>7, <1>8, NoneSent, DongleUndamaged

LEMMA ReadDeclares ==
  ASSUME NEW l, GoodLog(l), Ordered(l), BootsSound(l), NEW q \in Nat, Holds(l, q),
         RecordAt(l, q).kind = "BOOT"
  PROVE  Declares(l, RecordAt(l, q).from, RecordAt(l, q).to)
<1> DEFINE r == RecordAt(l, q)
<1>1. PICK s \in l : Covers(s, q)
  BY DEF Holds
<1> DEFINE i == q - s.first + 1
<1>2. r = s.recs[i] /\ i \in 1..Len(s.recs)
  BY <1>1, ReadableWhere
<1> HIDE DEF i, r
<1>3. r.kind = "BOOT"
  BY DEF r
<1>4. DeclaresAt(s, i, r.from, r.to)
  BY <1>2, <1>3 DEF DeclaresAt
<1>5. DeclaresIn(s, r.from, r.to)
  BY <1>2, <1>4 DEF DeclaresIn
<1> QED
  BY <1>5 DEF Declares, r

(* A BOOT that is read declares seqs below its own, and none that was written.*)
LEMMA ReadBoot ==
  ASSUME UndamagedInv, damage = 0, NEW q \in Nat, Holds(log, q), RecordAt(log, q).kind = "BOOT"
  PROVE  /\ RecordAt(log, q).from \in Nat \ {0} /\ RecordAt(log, q).from <= q
         /\ RecordAt(log, q).to = q - 1
         /\ RecordAt(log, q).from..RecordAt(log, q).to \cap written = {}
<1> DEFINE x == RecordAt(log, q).from
           y == RecordAt(log, q).to
<1>1. SoundLog(log, written, next, bootFrom)
  BY DEF UndamagedInv
<1>2. GoodLog(log) /\ Ordered(log) /\ BootsSound(log)
  BY UndamagedFacts, StoreFacts
<1>3. Declares(log, x, y)
  BY <1>2, ReadDeclares
<1>4. x \in Nat \ {0} /\ y = q - 1
  BY <1>2, RecordAtHeld DEF BootAt
<1> HIDE DEF x, y
<1>5. PICK s \in log : \E i \in 1..Len(s.recs) :
        /\ DeclaresAt(s, i, x, y)
        /\ x \in Nat \ {0} /\ y = s.first + i - 2 /\ y \in Nat
  BY <1>2, <1>3, DeclaresWhere
<1>6. x <= y + 1
  BY <1>1, <1>3, <1>4, <1>5 DEF SoundLog, Upright
<1>7. x..y \cap written = {}
  BY <1>1, <1>3, DeclaredUnused DEF SoundLog, Exact
<1> QED
  BY <1>4, <1>6, <1>7 DEF x, y

LEMMA UnskippedMore ==
  ASSUME NEW W, NEW a \in Nat, NEW c \in Nat, NEW d \in Nat, NEW ms, NEW ns, Unskipped(W, a, c, ms),
         ms \subseteq ns, \A q \in W : q \in c..d - 1 => SentFor(ns, q)
  PROVE  Unskipped(W, a, d, ns)
<1> SUFFICES ASSUME NEW q \in W, q \in a + 1..d - 1 PROVE SentFor(ns, q)
  BY DEF Unskipped
<1>1. CASE q \in c..d - 1
  BY <1>1
<1>2. CASE ~(q \in c..d - 1)
  <2>1. q \in a + 1..c - 1
    BY <1>2
  <2>2. SentFor(ms, q)
    BY <2>1 DEF Unskipped
  <2> QED BY <2>2 DEF SentFor
<1> QED
  BY <1>1, <1>2

(* The blocks ms are sent, and the cursor passes only what they cover.       *)
SendsOnly(ms) ==
  /\ sent' \subseteq sent \cup ms /\ cursor' <= next
  /\ damage = 0 => SentUnused(written, ms) /\ Unskipped(written, ackLocal, cursor', sent')

LEMMA CursorStays ==
  ASSUME UndamagedInv, UNCHANGED <<sent, cursor>>
  PROVE  SendsOnly({})
BY NoneSent DEF UndamagedInv, SendsOnly

LEMMA TransmitOnly ==
  ASSUME UndamagedInv, NEW m, NEW n \in Nat, Transmit(m, n), n <= next,
         damage = 0 => SentUnused(written, {m}),
         \A q \in cursor..n - 1 : m.from <= q /\ q <= Max({m.seq, m.to})
  PROVE  SendsOnly({m}) \/ SendsOnly({})
<1>1. CASE sent' = sent \cup {m} /\ cursor' = n
  <2> DEFINE ns == sent \cup {m}
  <2>1. ASSUME NEW q \in cursor..n - 1 PROVE SentFor(ns, q)
    BY <2>1 DEF SentFor
  <2>2. /\ cursor \in Nat /\ ackLocal \in Nat /\ sent \subseteq ns
        /\ damage = 0 => Unskipped(written, ackLocal, cursor, sent)
    BY UndamagedFacts DEF UndamagedInv
  <2>3. m \in ns /\ sent' = ns
    BY <1>1
  <2> HIDE DEF ns
  <2>4. damage = 0 => Unskipped(written, ackLocal, n, ns)
    BY <2>1, <2>2, UnskippedMore
  <2> QED BY <1>1, <2>3, <2>4 DEF SendsOnly
<1>2. CASE UNCHANGED <<sent, cursor>>
  BY <1>2, CursorStays
<1> QED
  BY <1>1, <1>2 DEF Transmit

LEMMA BlockUndamaged ==
  ASSUME UndamagedInv, NEW q \in Nat \ {0}, ReadStatus(log, q) = "Ok", damage = 0
  PROVE  /\ SentUnused(written, {BlockOf(q)})
         /\ BlockOf(q).from <= q /\ q <= Max({BlockOf(q).seq, BlockOf(q).to})
<1> DEFINE r == RecordAt(log, q)
           b == BlockOf(q)
           y == b.to
<1>1. b = IF r.kind = "BOOT" THEN [seq |-> q, kind |-> "BOOT", from |-> r.from, to |-> r.to]
          ELSE [seq |-> q, kind |-> "DATA", from |-> q, to |-> q]
  BY DEF BlockOf
<1>2. Holds(log, q) /\ q \in Nat
  BY ReadableIsHeld
<1>3. r.kind = "BOOT" => /\ r.from \in Nat \ {0} /\ r.from <= q /\ r.to = q - 1
                         /\ r.from..r.to \cap written = {}
  BY <1>2, ReadBoot
<1> HIDE DEF r, b
<1>4. CASE r.kind = "BOOT"
  <2>1. b.seq = q /\ b.from = r.from /\ y = r.to
    BY <1>1, <1>4
  <2> HIDE DEF y
  <2>2. y \in Int /\ q \in Int
    BY <1>2, <1>3, <1>4, <2>1
  <2>3. Max({q, y}) >= q
    BY <2>2, MaxOfTwo
  <2>4. Max({q, y}) \in Int
    BY <2>2, MaxOfTwo
  <2>5. b.from <= q /\ q <= Max({b.seq, y})
    BY <1>3, <1>4, <2>1, <2>2, <2>3, <2>4
  <2>6. b.from..b.to \cap written = {}
    BY <1>3, <1>4, <2>1 DEF y
  <2>7. SentUnused(written, {b})
    BY <2>6 DEF SentUnused
  <2> QED BY <2>5, <2>7 DEF b, y
<1>5. CASE r.kind # "BOOT"
  <2>1. b.seq = q /\ b.from = q /\ y = q /\ b.kind = "DATA"
    BY <1>1, <1>5
  <2> HIDE DEF y
  <2>2. q \in Int /\ y \in Int
    BY <1>2, <2>1
  <2>3. Max({q, y}) >= q /\ Max({q, y}) \in Int
    BY <2>2, MaxOfTwo
  <2>4. b.from <= q /\ q <= Max({b.seq, y})
    BY <2>1, <2>2, <2>3
  <2>5. SentUnused(written, {b})
    BY <2>1 DEF SentUnused
  <2> QED BY <2>4, <2>5 DEF b, y
<1> QED
  BY <1>4, <1>5

LEMMA LossUndamaged ==
  ASSUME NEW W, NEW s \in Nat, NEW to \in Nat
  PROVE  /\ SentUnused(W, {Loss(s, to)})
         /\ \A q \in s..to : Loss(s, to).from <= q /\ q <= Max({Loss(s, to).seq, Loss(s, to).to})
<1> DEFINE m == Loss(s, to)
<1>1. m.kind = "LOSS" /\ m.from = s /\ m.seq = s /\ m.to = to
  BY DEF Loss
<1> HIDE DEF m
<1>2. s \in Int /\ to \in Int
  OBVIOUS
<1>3. Max({s, to}) >= to /\ Max({s, to}) \in Int
  BY <1>2, MaxOfTwo
<1> DEFINE top == Max({s, to})
<1> HIDE DEF top
<1>4. top >= to /\ top \in Int
  BY <1>3 DEF top
<1>5. ASSUME NEW q \in s..to PROVE m.from <= q /\ q <= Max({m.seq, m.to})
  <2>1. s <= q /\ q <= top
    BY <1>2, <1>4, <1>5
  <2> QED BY <1>1, <2>1 DEF top
<1>6. SentUnused(W, {m})
  BY <1>1 DEF SentUnused
<1> QED
  BY <1>5, <1>6 DEF m

LEMMA SkipMissingUndamaged ==
  ASSUME UndamagedInv, SkipMissing(cursor)
  PROVE  \E ms : SendsOnly(ms)
<1> DEFINE t   == NextStoredSeq(log, cursor)
           end == t - 1
           run == cursor + MaxLossRun - 1
           to  == Min({end, run})
           atT == RecordAt(log, t)
<1>1. /\ cursor \in Nat \ {0} /\ next \in Nat /\ written \in SUBSET Nat /\ ackLocal \in Nat
      /\ TrueInv
  BY UndamagedFacts
<1>2. CASE t = 0
  <2>1. UNCHANGED <<sent, cursor>>
    BY <1>2 DEF SkipMissing
  <2> QED BY <2>1, CursorStays
<1>3. CASE t # 0
  <2>1. t \in Nat /\ t > 0 /\ t >= cursor
    BY <1>1, <1>3, StoreFacts, NextStoredType
  <2>2. /\ \E s \in log : t <= LastSeq(s)
        /\ \A x \in cursor..t - 1 : ~Holds(log, x)
    BY <1>1, <2>1, StoreFacts, NextStoredGap
  <2>3. t < next
    <3>1. PICK s \in log : t <= LastSeq(s)
      BY <2>2
    <3>2. LastSeq(s) \in Nat /\ LastSeq(s) < next
      BY <1>1, StoreFacts, SegmentFields DEF GoodLog
    <3> QED BY <1>1, <2>1, <3>1, <3>2
  <2>4. CASE /\ ReadStatus(log, t) = "Ok" /\ atT.kind = "BOOT" /\ atT.from <= cursor
             /\ cursor' = t /\ UNCHANGED sent
    <3>1. Holds(log, t)
      BY <2>4, ReadableIsHeld
    <3>2. damage = 0 => atT.from..atT.to \cap written = {} /\ atT.to = t - 1 /\ atT.from \in Nat
      BY <2>1, <2>4, <3>1, ReadBoot
    <3>3. damage = 0 => \A q \in written : q \in cursor..t - 1 => SentFor(sent, q)
      <4> SUFFICES ASSUME damage = 0, NEW q \in written, q \in cursor..t - 1 PROVE FALSE
        OBVIOUS
      <4> DEFINE x == atT.from
                 y == atT.to
      <4>1. x..y \cap written = {} /\ y = t - 1 /\ x \in Nat /\ x <= cursor
        BY <2>4, <3>2
      <4> HIDE DEF x, y, t
      <4>2. q \in x..y
        BY <1>1, <2>1, <4>1
      <4> QED BY <4>1, <4>2
    <3>4. damage = 0 => Unskipped(written, ackLocal, cursor, sent)
      BY DEF UndamagedInv
    <3>5. damage = 0 => Unskipped(written, ackLocal, t, sent)
      <4> HIDE DEF t
      <4> QED BY <1>1, <2>1, <3>3, <3>4, UnskippedMore
    <3>6. SendsOnly({})
      BY <1>1, <2>1, <2>3, <2>4, <3>5, NoneSent DEF SendsOnly
    <3> QED BY <3>6
  <2>5. CASE Transmit(Loss(cursor, to), to + 1)
    <3> HIDE DEF t
    <3>1. end \in Nat /\ run \in Nat /\ end < next /\ end \in Int /\ run \in Int
      BY <1>1, <2>1, <2>3, EngineAssumption
    <3>2. run >= cursor /\ end >= cursor - 1
      BY <1>1, <2>1, EngineAssumption
    <3> HIDE DEF end, run
    <3>3. to \in {end, run} /\ to <= end
      BY <3>1, MinOfTwo
    <3> DEFINE n == to + 1
               m == Loss(cursor, to)
    <3> HIDE DEF to
    <3>4. to \in Nat /\ n \in Nat /\ n <= next /\ n - 1 = to
      BY <1>1, <3>1, <3>3
    <3>5. /\ SentUnused(written, {m})
          /\ \A q \in cursor..to : m.from <= q /\ q <= Max({m.seq, m.to})
      BY <1>1, <3>4, LossUndamaged
    <3>6. Transmit(m, n)
      BY <2>5
    <3> HIDE DEF m, n
    <3>7. SendsOnly({m}) \/ SendsOnly({})
      BY <3>4, <3>5, <3>6, TransmitOnly
    <3> QED BY <3>7
  <2> QED BY <1>3, <2>1, <2>4, <2>5 DEF SkipMissing
<1> QED
  BY <1>2, <1>3

LEMMA SendNextBlockUndamaged ==
  ASSUME UndamagedInv, TrueInv', Grows, SendNextBlock, UNCHANGED serverVars
  PROVE  UndamagedInv'
<1>1. /\ log' = log /\ written' = written /\ next' = next /\ bootFrom' = bootFrom /\ damage' = damage
      /\ responses' \subseteq responses \cup {} /\ ackLocal' = ackLocal
  BY DEF SendNextBlock, store
<1>2. /\ cursor \in Nat \ {0} /\ ackLocal \in Nat /\ next \in Nat /\ written \in SUBSET Nat
      /\ cursor <= next /\ ackLocal < next /\ TrueInv
  BY UndamagedFacts DEF UndamagedInv
<1>3. \E ms : SendsOnly(ms)
  <2>1. CASE UNCHANGED <<sent, cursor>>
    BY <2>1, CursorStays
  <2>2. CASE ReadStatus(log, cursor) = "Ok" /\ Transmit(BlockOf(cursor), cursor + 1)
    <3> DEFINE m == BlockOf(cursor)
               n == cursor + 1
    <3>1. n \in Nat /\ n - 1 = cursor /\ n <= next
      <4>1. Holds(log, cursor)
        BY <2>2, ReadableIsHeld
      <4>2. cursor < next
        BY <1>2, <4>1, StoreFacts
      <4> QED BY <1>2, <4>2
    <3>2. CASE damage # 0
      <4>1. sent' \subseteq sent \cup {m} /\ cursor' <= next
        <5>1. cursor' \in {cursor, n} /\ sent' \subseteq sent \cup {m}
          BY <2>2 DEF Transmit
        <5> HIDE DEF m, n
        <5> QED BY <1>2, <3>1, <5>1
      <4>2. SendsOnly({m})
        BY <3>2, <4>1 DEF SendsOnly
      <4> QED BY <4>2
    <3>3. CASE damage = 0
      <4>1. SentUnused(written, {m}) /\ m.from <= cursor /\ cursor <= Max({m.seq, m.to})
        BY <1>2, <2>2, <3>3, BlockUndamaged
      <4>2. Transmit(m, n)
        BY <2>2
      <4> HIDE DEF m, n
      <4>3. \A q \in cursor..n - 1 : m.from <= q /\ q <= Max({m.seq, m.to})
        <5> SUFFICES ASSUME NEW q \in cursor..n - 1 PROVE m.from <= q /\ q <= Max({m.seq, m.to})
          OBVIOUS
        <5>1. q = cursor
          BY <1>2, <3>1
        <5> QED BY <4>1, <5>1
      <4>4. SendsOnly({m}) \/ SendsOnly({})
        BY <3>1, <4>1, <4>2, <4>3, TransmitOnly
      <4> QED BY <4>4
    <3> QED BY <3>2, <3>3
  <2>3. CASE /\ ReadStatus(log, cursor) = "Corrupt"
             /\ Transmit(Loss(cursor, FindLossEnd(cursor)), FindLossEnd(cursor) + 1)
    <3> DEFINE to == FindLossEnd(cursor)
               m  == Loss(cursor, to)
               n  == to + 1
    <3>1. /\ to \in Nat /\ cursor <= to
          /\ \A q \in cursor + 1..to : ReadStatus(log, q) = "Corrupt"
      BY <1>2, FindLossEndType
    <3>2. Transmit(m, n)
      BY <2>3
    <3> HIDE DEF to
    <3>3. ReadStatus(log, to) = "Corrupt"
      <4>1. to = cursor \/ to \in cursor + 1..to
        BY <1>2, <3>1
      <4> QED BY <2>3, <3>1, <4>1
    <3>4. to < next
      <4>1. Holds(log, to)
        BY <3>3, CorruptIsHeld
      <4> QED BY <1>2, <3>1, <4>1, StoreFacts
    <3>5. n \in Nat /\ n <= next /\ n - 1 = to
      BY <1>2, <3>1, <3>4
    <3>6. /\ SentUnused(written, {m})
          /\ \A q \in cursor..to : m.from <= q /\ q <= Max({m.seq, m.to})
      BY <1>2, <3>1, LossUndamaged
    <3> HIDE DEF m, n
    <3>7. SendsOnly({m}) \/ SendsOnly({})
      BY <3>2, <3>5, <3>6, TransmitOnly
    <3> QED BY <3>7
  <2>4. CASE ReadStatus(log, cursor) = "NotFound" /\ SkipMissing(cursor)
    BY <2>4, SkipMissingUndamaged
  <2> QED BY <2>1, <2>2, <2>3, <2>4 DEF SendNextBlock
<1>4. PICK ms : SendsOnly(ms)
  BY <1>3
<1>5. sent' \subseteq sent \cup ms /\ cursor' <= next' /\ ackLocal' < next'
  BY <1>1, <1>2, <1>4 DEF SendsOnly
<1>6. ASSUME damage = 0
      PROVE  /\ SoundLog(log', written', next', bootFrom') /\ Follow(log', log)
             /\ SentUnused(written', ms) /\ TailsBefore(log', {})
             /\ Unskipped(written', ackLocal', cursor', sent')
  <2>1. SoundLog(log', written', next', bootFrom') /\ Follow(log', log)
    BY <1>1, <1>6, SameLog
  <2>2. SentUnused(written, ms) /\ Unskipped(written, ackLocal, cursor', sent')
    BY <1>4, <1>6 DEF SendsOnly
  <2> QED BY <1>1, <2>1, <2>2, NoneSent
<1>7. damage' \in {damage, damage + 1}
  BY <1>1
<1> QED
  BY <1>1, <1>5, <1>6, <1>7, DongleUndamaged

LEMMA WriteUndamaged ==
  ASSUME UndamagedInv, TrueInv', Grows, Write, UNCHANGED serverVars
  PROVE  UndamagedInv'
<1>1. /\ damage' = damage /\ cursor' = cursor /\ ackLocal' = ackLocal /\ sent' = sent
      /\ sent' \subseteq sent \cup {} /\ responses' \subseteq responses \cup {}
  BY DEF Write, batch, outgoing
<1>2. /\ cursor \in Nat /\ ackLocal \in Nat /\ next \in Nat \ {0} /\ written \in SUBSET Nat
      /\ cursor <= next /\ ackLocal < next /\ TrueInv
  BY UndamagedFacts DEF UndamagedInv
<1>3. next' \in Nat /\ written' \in SUBSET Nat /\ next <= next'
  BY DEF TrueInv, EndsInv, EngineInv, EngineTypeOK, Grows
<1>4. cursor' <= next' /\ ackLocal' < next'
  BY <1>1, <1>2, <1>3
<1>5. /\ GoodLog(log) /\ Ordered(log) /\ Backed(log, written) /\ Follows(next, written)
      /\ bootFrom \in Nat /\ LogTrue(log, next, bootFrom)
  BY <1>2, StoreFacts
<1>6. NewestSeq(log) \in Nat
  BY NewestBelow
<1>7. ASSUME damage = 0
      PROVE  SoundLog(log', written', next', bootFrom') /\ Follow(log', log)
  <2>1. SoundLog(log, written, next, bootFrom)
    BY <1>7 DEF UndamagedInv
  <2>2. Exact(log, written) /\ Upright(log)
    BY <2>1 DEF SoundLog
  <2>3. CASE bootFrom > 0
    <3> DEFINE r == BootRecord(bootFrom, next)
    <3>1. r \in Record /\ BootAt(r, next)
      BY <1>2, <1>5, <2>3, BootRecordType
    <3>2. r.from = bootFrom /\ r.good /\ r.kind = "BOOT"
      BY DEF BootRecord
    <3>3. Put(log, FALSE, TRUE, next, r)
      BY <2>3 DEF Write
    <3>4. r.from <= next
      BY <1>5, <2>3, <3>2 DEF LogTrue
    <3>5. Joins(log, next, r)
      BY <2>1, <2>3, <3>2 DEF SoundLog, Joins
    <3> HIDE DEF r
    <3> QED BY <1>2, <1>5, <2>2, <3>1, <3>2, <3>3, <3>4, <3>5, PutSound
  <2>4. CASE ~(bootFrom > 0)
    <3> DEFINE new == NeedsNewSegment(log, FALSE, next)
               r   == DataRecord
    <3>1. r \in Record /\ BootAt(r, next) /\ r.kind # "BOOT" /\ r.good
      BY DEF DataRecord, Record, BootAt
    <3>2. Put(log, FALSE, new, next, r)
      BY <2>4 DEF Write
    <3>3. new \in BOOLEAN
      BY DEF NeedsNewSegment
    <3>4. new \/ (Continues(log, next) /\ ~NewestSeg(log).sealed)
      BY DEF NeedsNewSegment, Continues
    <3>5. Joins(log, next, r)
      BY <1>6, <2>1, <2>4, <3>1 DEF SoundLog, Joins
    <3> HIDE DEF r, new
    <3>6. CASE new = TRUE
      <4>1. Put(log, FALSE, TRUE, next, r)
        BY <3>2, <3>6
      <4> QED BY <1>2, <1>5, <2>2, <3>1, <3>5, <4>1, PutSound
    <3>7. CASE new = FALSE
      <4>1. Put(log, FALSE, FALSE, next, r) /\ Continues(log, next) /\ ~NewestSeg(log).sealed
        BY <3>2, <3>4, <3>7
      <4> QED BY <1>2, <1>5, <2>2, <3>1, <3>5, <4>1, PutSound
    <3> QED BY <3>3, <3>6, <3>7
  <2> QED BY <2>3, <2>4
<1>8. ASSUME damage = 0 PROVE Unskipped(written', ackLocal', cursor', sent')
  <2>1. Unskipped(written, ackLocal, cursor, sent)
    BY <1>8 DEF UndamagedInv
  <2>2. (\A q \in written' : q \in written \/ next <= q) /\ ackLocal <= ackLocal /\ cursor <= cursor
        /\ sent \subseteq sent /\ next \in Nat
    BY <1>2 DEF Grows
  <2>3. Unskipped(written', ackLocal, cursor, sent)
    BY <1>2, <1>3, <2>1, <2>2, UnskippedStays
  <2> QED BY <1>1, <2>3
<1>9. damage' \in {damage, damage + 1}
  BY <1>1
<1> QED
  BY <1>1, <1>4, <1>7, <1>8, <1>9, NoneSent, DongleUndamaged

LEMMA RotUndamaged ==
  ASSUME UndamagedInv, TrueInv', Rot
  PROVE  UndamagedInv'
<1>1. damage' = damage + 1 /\ cursor' = cursor /\ ackLocal' = ackLocal /\ next' = next
  BY DEF Rot, batch
<1>2. damage \in Nat /\ cursor <= next /\ ackLocal < next
  BY UndamagedFacts DEF UndamagedInv
<1>3. damage' # 0
  BY <1>1, <1>2
<1> QED
  BY <1>1, <1>2, <1>3, UndamagedOf

LEMMA TailBelow ==
  ASSUME NEW l, GoodLog(l), Ordered(l), BootsSound(l), NEW n \in Nat \ {0},
         \A s \in l : LastSeq(s) < n
  PROVE  EffectiveTail(l) \in Nat \ {0} /\ EffectiveTail(l) <= n
<1>1. /\ EffectiveTail(l) \in Nat \ {0}
      /\ l # {} => EffectiveTail(l) <= OldestSeq(l)
      /\ l = {} => EffectiveTail(l) = 1
  BY TailIsGone, EffectiveTailType
<1>2. ASSUME l # {} PROVE OldestSeq(l) < n /\ OldestSeq(l) \in Nat
  <2> DEFINE o == OldestSeg(l)
  <2>1. o \in l /\ OldestSeq(l) = o.first
    BY <1>2, OldestExists DEF GoodLog, OldestSeq
  <2>2. o.first \in Nat /\ LastSeq(o) \in Nat /\ o.first <= LastSeq(o)
    BY <2>1, SegmentFields DEF GoodLog, Ordered
  <2> HIDE DEF o
  <2> QED BY <2>1, <2>2
<1> QED
  BY <1>1, <1>2

LEMMA FollowOn ==
  ASSUME NEW l, NEW m, NEW k, GoodLog(l), GoodLog(m), GoodLog(k), Follow(m, l), Follow(k, m)
  PROVE  Follow(k, l)
<1>1. NewestSeq(l) \in Nat /\ NewestSeq(m) \in Nat /\ NewestSeq(k) \in Nat
  BY NewestSeqType
<1>2. NewestSeq(l) <= NewestSeq(m) /\ NewestSeq(m) <= NewestSeq(k)
  BY DEF Follow
<1>3. ASSUME NEW x \in Nat, NEW y \in Nat, Declares(k, x, y)
      PROVE  Declares(l, x, y) \/ NewestSeq(l) < x
  <2>1. Declares(m, x, y) \/ NewestSeq(m) < x
    BY <1>3 DEF Follow
  <2>2. Declares(m, x, y) => Declares(l, x, y) \/ NewestSeq(l) < x
    BY DEF Follow
  <2> QED BY <1>1, <1>2, <2>1, <2>2
<1> QED
  BY <1>1, <1>2, <1>3 DEF Follow

LEMMA GoodBootsNow ==
  ASSUME TrueInv'
  PROVE  BootsSound(log') /\ Backed(log', written') /\ Follows(next', written') /\ written' \in SUBSET Nat
         /\ next' \in Nat \ {0}
BY DEF TrueInv, EndsInv, EngineInv, EngineTypeOK, StoreInv, BootsSound, BootAt, Backed, LastSeq, Follows

LEMMA BootUndamaged ==
  ASSUME UndamagedInv, TrueInv', Grows, NEW found \in {log, {}}, Boot(found),
         found = log \/ damage' # 0, damage' \in {damage, damage + 1}, UNCHANGED serverVars
  PROVE  UndamagedInv'
<1> DEFINE mounted == Mount(found)
           newest  == NewestSeq(mounted)
           e == EffectiveTail(log')
<1>1. /\ sent' = sent /\ sent' \subseteq sent \cup {} /\ responses' \subseteq responses \cup {}
      /\ cursor' = e /\ ackLocal' = e - 1
  BY DEF Boot, outgoing
<1>2. /\ next \in Nat \ {0} /\ written \in SUBSET Nat /\ TrueInv /\ boot \in Nat
  BY UndamagedFacts DEF TrueInv, EndsInv, EngineInv, EngineTypeOK
<1>3. e \in Nat \ {0} /\ e <= next'
  <2> DEFINE m == log'
             n == next'
  <2>1. GoodLog(m) /\ Ordered(m) /\ BootsSound(m) /\ n \in Nat \ {0} /\ n \in Nat
        /\ Backed(m, written') /\ Follows(n, written')
    BY GoodNow, GoodBootsNow
  <2> HIDE DEF m, n
  <2>2. \A s \in m : LastSeq(s) < n
    BY <2>1, LastBelow
  <2>3. EffectiveTail(m) \in Nat \ {0} /\ EffectiveTail(m) <= n
    BY <2>1, <2>2, TailBelow
  <2> QED BY <2>3 DEF m, n
<1>4. cursor' <= next' /\ ackLocal' < next'
  <2>1. next' \in Nat
    BY GoodNow
  <2> HIDE DEF e
  <2> QED BY <1>1, <1>3, <2>1
<1>5. Unskipped(written', ackLocal', cursor', sent')
  <2> HIDE DEF e
  <2>1. ackLocal' + 1..cursor' - 1 = {}
    BY <1>1, <1>3
  <2> QED BY <2>1 DEF Unskipped
<1>6. ASSUME damage = 0, damage' = 0
      PROVE  SoundLog(log', written', next', bootFrom') /\ Follow(log', log)
  <2>1. found = log
    BY <1>6
  <2>2. /\ GoodLog(log) /\ Ordered(log) /\ BootsSound(log) /\ Backed(log, written)
        /\ Follows(next, written)
    BY <1>2, StoreFacts
  <2>3. Exact(log, written) /\ Upright(log)
    BY <1>6 DEF UndamagedInv, SoundLog
  <2>4. /\ Exact(mounted, written) /\ newest = NewestSeq(log) /\ (log = {} <=> mounted = {})
    BY <1>2, <2>1, <2>2, <2>3, MountExact
  <2>5. GoodLog(mounted) /\ Ordered(mounted) /\ Backed(mounted, written)
    BY <2>1, <2>2, GoodMount, MountOrdered
  <2>6. Follow(mounted, log) /\ Upright(mounted)
    <3>1. ReadTo(log)
      BY <2>3, IntactReads DEF Exact
    <3>2. Adds(mounted, log, 0, DataRecord)
      BY <2>1, <2>2, <3>1, MountReads
    <3>3. NewestSeq(log) \in Nat
      BY <2>2, NewestSeqType
    <3> HIDE DEF mounted
    <3>4. NewestSeq(log) <= NewestSeq(mounted)
      BY <2>4, <3>3
    <3> QED BY <2>3, <3>2, <3>4, NothingNew
  <2>7. newest \in Nat /\ (newest < next \/ mounted = {})
    BY <1>2, <2>2, <2>5, NewestSeqType, LastBelow
  <2>8. newest = 0 => mounted = {}
    <3> SUFFICES ASSUME mounted # {} PROVE newest # 0
      OBVIOUS
    <3> DEFINE n == NewestSeg(mounted)
    <3>1. n \in mounted /\ newest = LastSeq(n)
      BY <2>5, NewestExists DEF GoodLog, NewestSeq
    <3>2. n.first \in Nat \ {0} /\ LastSeq(n) \in Nat /\ n.first <= LastSeq(n)
      BY <2>5, <3>1, SegmentFields DEF GoodLog, Ordered
    <3> HIDE DEF n, newest
    <3> QED BY <3>1, <3>2
  <2>9. mounted = {} => newest = 0
    BY DEF NewestSeq
  <2>10. PICK seq \in next..next + (IF boot = 0 THEN 0 ELSE MaxGap) :
          Put(mounted, TRUE, TRUE, seq, BootRecord(IF newest = 0 THEN seq ELSE newest + 1, seq))
    BY DEF Boot
  <2> HIDE DEF mounted, newest
  <2>11. seq \in Nat \ {0} /\ next <= seq
    BY <1>2, <2>10
  <2> DEFINE from == IF newest = 0 THEN seq ELSE newest + 1
             b    == BootRecord(from, seq)
  <2>12. from \in Nat \ {0} /\ from <= seq /\ (mounted # {} => from = newest + 1)
    BY <1>2, <2>7, <2>8, <2>9, <2>11
  <2>13. Put(mounted, TRUE, TRUE, seq, b)
    BY <2>10
  <2> HIDE DEF from
  <2>14. b \in Record /\ BootAt(b, seq)
    BY <2>11, <2>12, BootRecordType
  <2>15. b.kind = "BOOT" /\ b.from = from /\ b.good
    BY DEF BootRecord
  <2> HIDE DEF b
  <2>16. Joins(mounted, seq, b)
    BY <2>12, <2>15 DEF Joins, newest
  <2>17. Follows(seq, written)
    BY <1>2, <2>2, <2>11 DEF Follows
  <2>18. SoundLog(log', written', next', bootFrom') /\ Follow(log', mounted)
    BY <1>2, <2>4, <2>5, <2>6, <2>11, <2>12, <2>13, <2>14, <2>15, <2>16, <2>17, PutSound
  <2>19. Follow(log', log)
    <3> DEFINE k == log'
    <3>1. GoodLog(k)
      BY GoodNow
    <3>2. Follow(k, mounted)
      BY <2>18
    <3> HIDE DEF k
    <3>3. Follow(k, log)
      BY <2>2, <2>5, <2>6, <3>1, <3>2, FollowOn
    <3> QED BY <3>3 DEF k
  <2> QED BY <2>18, <2>19
<1> QED
  BY <1>1, <1>4, <1>5, <1>6, NoneSent, DongleUndamaged

(* A step of the server.                                                     *)
LEMMA ServerUndamaged ==
  ASSUME UndamagedInv, TrueInv', UNCHANGED engineVars, NEW new, gaps' \subseteq gaps \cup new,
         damage = 0 => GapsUnused(written, new) /\ DiscardsBefore(log, new)
  PROVE  UndamagedInv'
<1>1. /\ log' = log /\ written' = written /\ next' = next /\ bootFrom' = bootFrom /\ damage' = damage
      /\ sent' = sent /\ responses' = responses /\ cursor' = cursor /\ ackLocal' = ackLocal
  BY DEF engineVars, store, outgoing, batch
<1>2. cursor' <= next' /\ ackLocal' < next'
  BY <1>1 DEF UndamagedInv
<1>3. ASSUME damage = 0
      PROVE  /\ SoundLog(log', written', next', bootFrom')
             /\ SentUnused(written', sent') /\ GapsUnused(written', gaps')
             /\ TailsBefore(log', responses') /\ DiscardsBefore(log', gaps')
             /\ Unskipped(written', ackLocal', cursor', sent')
  <2>1. /\ SoundLog(log, written, next, bootFrom)
        /\ SentUnused(written, sent) /\ GapsUnused(written, gaps)
        /\ TailsBefore(log, responses) /\ DiscardsBefore(log, gaps)
        /\ Unskipped(written, ackLocal, cursor, sent)
    BY <1>3 DEF UndamagedInv
  <2>2. GapsUnused(written, new) /\ DiscardsBefore(log, new)
    BY <1>3
  <2>3. GapsUnused(written, gaps')
    BY <2>1, <2>2 DEF GapsUnused
  <2>4. DiscardsBefore(log, gaps')
    BY <2>1, <2>2 DEF DiscardsBefore
  <2> QED BY <1>1, <2>1, <2>3, <2>4
<1> QED
  BY <1>1, <1>2, <1>3, UndamagedOf

LEMMA RespondUndamaged ==
  ASSUME UndamagedInv, TrueInv', NEW r \in responses, RespondChallenge(r), UNCHANGED engineVars
  PROVE  UndamagedInv'
<1>1. gaps' \subseteq gaps \cup TailGaps(r)
  BY DEF RespondChallenge
<1>2. \A g \in TailGaps(r) : g.cause = "OVERFLOW" /\ g.to = r.tail - 1
  BY DEF TailGaps
<1>3. r.tail \in Nat /\ NewestSeq(log) \in Nat
  BY UndamagedFacts, NewestBelow
<1>4. GapsUnused(written, TailGaps(r))
  BY <1>2 DEF GapsUnused
<1>5. ASSUME damage = 0 PROVE DiscardsBefore(log, TailGaps(r))
  <2>1. r.tail <= NewestSeq(log) + 1 /\ BeforeBoots(log, r.tail)
    BY <1>5 DEF UndamagedInv, TailsBefore
  <2>2. ASSUME NEW g \in TailGaps(r) PROVE g.to <= NewestSeq(log) /\ g.to + 1 = r.tail
    BY <1>2, <1>3, <2>1, <2>2
  <2> QED BY <2>1, <2>2 DEF DiscardsBefore
<1> QED
  BY <1>1, <1>4, <1>5, ServerUndamaged

(* The BOOTs of a batch declare only seqs that no record ever had.           *)
RunUnused(st) ==
  /\ st.exp \in Nat
  /\ \A g \in st.gaps : /\ g.cause # "OVERFLOW"
                        /\ g.cause = "BOOT" => g.from..g.to \cap written = {}

LEMMA ApplyOneUnused ==
  ASSUME UndamagedInv, damage = 0, NEW st, RunUnused(st), NEW b \in sent
  PROVE  RunUnused(ApplyOne(st, b))
<1>1. /\ b.seq \in Nat /\ b.from \in Nat /\ b.to \in Nat
      /\ b.kind = "BOOT" => b.from..b.to \cap written = {}
  BY UndamagedFacts DEF UndamagedInv, SentUnused
<1>2. /\ st.exp \in Nat
      /\ \A g \in st.gaps : /\ g.cause # "OVERFLOW"
                            /\ g.cause = "BOOT" => g.from..g.to \cap written = {}
  BY DEF RunUnused
<1>3. CASE st.interrupted \/ b.seq < st.exp
  BY <1>3 DEF ApplyOne
<1>4. CASE ~(st.interrupted \/ b.seq < st.exp) /\ ~Acceptable(b, st.exp)
  <2>1. ApplyOne(st, b) = [st EXCEPT !.interrupted = TRUE]
    BY <1>4 DEF ApplyOne
  <2>2. ApplyOne(st, b).exp = st.exp /\ ApplyOne(st, b).gaps = st.gaps
    BY <2>1
  <2> QED BY <1>2, <2>2 DEF RunUnused
<1>5. CASE ~(st.interrupted \/ b.seq < st.exp) /\ Acceptable(b, st.exp)
  <2> DEFINE exp == (IF b.kind = "LOSS" THEN b.to ELSE b.seq) + 1
             new == Declared(b, st.exp)
  <2>1. ApplyOne(st, b).exp = exp /\ ApplyOne(st, b).gaps = st.gaps \cup new
    BY <1>5 DEF ApplyOne
  <2>2. exp \in Nat
    BY <1>1
  <2>3. ASSUME NEW g \in new
        PROVE g.cause # "OVERFLOW" /\ (g.cause = "BOOT" => g.from..g.to \cap written = {})
    <3>1. CASE b.kind = "BOOT"
      <4>1. g.from = st.exp /\ g.to = b.to /\ b.from <= st.exp /\ g.cause = "BOOT"
        BY <1>5, <2>3, <3>1 DEF Declared, Acceptable
      <4>2. st.exp..b.to \subseteq b.from..b.to
        BY <1>1, <1>2, <4>1
      <4> QED BY <1>1, <3>1, <4>1, <4>2
    <3>2. CASE b.kind # "BOOT"
      BY <2>3, <3>2 DEF Declared
    <3> QED BY <3>1, <3>2
  <2> HIDE DEF exp, new
  <2> QED BY <1>2, <2>1, <2>2, <2>3 DEF RunUnused
<1> QED
  BY <1>3, <1>4, <1>5

LEMMA ApplyUnused ==
  ASSUME UndamagedInv, damage = 0, NEW bs, Len(bs) \in Nat, \A i \in 1..Len(bs) : bs[i] \in sent
  PROVE  RunUnused(Apply(bs))
<1> DEFINE n == Len(bs)
           f == Progress(bs)
           S == {i \in 0..n : RunUnused(f[i])}
<1>1. n \in Nat /\ (\A i \in 1..n : bs[i] \in sent)
  OBVIOUS
<1>2. f[0] = NothingApplied /\ \A i \in 1..n : f[i] = ApplyOne(f[i - 1], bs[i])
  BY ProgressSteps
<1>3. RunUnused(NothingApplied)
  BY UndamagedFacts DEF RunUnused, NothingApplied
<1> HIDE DEF f, n
<1>4. 0 \in S
  BY <1>1, <1>2, <1>3
<1>5. ASSUME NEW i \in 0..n, i < n, i \in S PROVE i + 1 \in S
  <2>1. i + 1 \in 1..n /\ (i + 1) - 1 = i /\ i + 1 \in 0..n
    BY <1>1, <1>5
  <2>2. f[i + 1] = ApplyOne(f[i], bs[i + 1]) /\ bs[i + 1] \in sent
    BY <1>1, <1>2, <2>1
  <2>3. RunUnused(f[i])
    BY <1>5
  <2>4. RunUnused(ApplyOne(f[i], bs[i + 1]))
    BY <2>2, <2>3, ApplyOneUnused
  <2> QED BY <2>1, <2>2, <2>4
<1> HIDE DEF S
<1>6. n \in S
  <2>1. \A i \in 0..n : i \in S
    BY <1>1, <1>4, <1>5, IntervalInduction
  <2> QED BY <1>1, <2>1
<1> QED
  BY <1>6 DEF S, f, n, Apply

LEMMA ReceiveUndamaged ==
  ASSUME UndamagedInv, TrueInv', NEW bs, Len(bs) \in Nat, \A i \in 1..Len(bs) : bs[i] \in sent,
         ReceiveBatch(bs), UNCHANGED engineVars
  PROVE  UndamagedInv'
<1> DEFINE r == Apply(bs)
<1>1. damage = 0 => RunUnused(r)
  BY ApplyUnused
<1>2. gaps' \subseteq gaps \cup r.gaps
  BY DEF ReceiveBatch
<1> HIDE DEF r
<1>3. damage = 0 => GapsUnused(written, r.gaps) /\ DiscardsBefore(log, r.gaps)
  BY <1>1 DEF RunUnused, GapsUnused, DiscardsBefore
<1> QED
  BY <1>2, <1>3, ServerUndamaged

LEMMA InitUndamaged == Init => UndamagedInv
<1> SUFFICES ASSUME Init PROVE UndamagedInv
  OBVIOUS
<1>1. TrueInv
  BY InitTrue
<1>2. /\ log = {} /\ next = 1 /\ bootFrom = 0 /\ written = {} /\ sent = {} /\ responses = {} /\ gaps = {}
      /\ cursor = 1 /\ ackLocal = 0
  BY DEF Init, EngineInit, ServerInit
<1>3. SoundLog(log, written, next, bootFrom)
  <2>1. Upright({})
    BY DEF Upright, Declares
  <2>2. Exact({}, {})
    BY DEF Exact, Intact, NoHoles, JumpsIn, BootsSound, BootsUnused
  <2> QED BY <1>2, <2>1, <2>2 DEF SoundLog
<1> QED
  BY <1>1, <1>2, <1>3 DEF UndamagedInv, SentUnused, GapsUnused, TailsBefore, DiscardsBefore, Unskipped

LEMMA NextUndamaged ==
  ASSUME UndamagedInv, [Next]_vars
  PROVE  UndamagedInv'
<1>1. TrueInv /\ TrueInv' /\ EndsInv /\ EndsInv'
  BY NextTrue, NextEndsInv DEF UndamagedInv, TrueInv
<1>2. CASE EngineNext /\ UNCHANGED serverVars
  <2>1. CASE PowerOn
    <3>1. Boot(log) /\ damage' = damage
      BY <2>1 DEF PowerOn
    <3>2. damage' \in {damage, damage + 1} /\ log \in {log, {}}
      BY <3>1
    <3>3. Grows
      BY <1>1, <1>2, <3>1, <3>2, BootTrue
    <3> QED BY <1>1, <1>2, <3>1, <3>2, <3>3, BootUndamaged
  <2>2. CASE PowerOnFormatted
    <3>1. Boot({}) /\ damage' = damage + 1
      BY <2>2 DEF PowerOnFormatted
    <3>2. damage' \in {damage, damage + 1} /\ {} \in {log, {}}
      BY <3>1
    <3>3. Grows
      BY <1>1, <1>2, <3>1, <3>2, BootTrue
    <3>4. damage' # 0
      BY <3>1, UndamagedFacts
    <3> QED BY <1>1, <1>2, <3>1, <3>2, <3>3, <3>4, BootUndamaged
  <2>3. CASE \/ OnConnected \/ OnDisconnected \/ OnSubscribed \/ HandleBatchRequest
             \/ HandleAppError \/ CheckOverflow
    <3>1. UNCHANGED <<store, outgoing, serverVars>> /\ UNCHANGED <<store, outgoing, ackLocal>>
      BY <1>2, <2>3 DEF OnConnected, OnDisconnected, OnSubscribed, HandleBatchRequest, HandleAppError,
         CheckOverflow
    <3>2. cursor' = cursor \/ cursor' = ackLocal + 1
      BY <2>3 DEF OnConnected, OnDisconnected, OnSubscribed, HandleBatchRequest, HandleAppError,
         CheckOverflow, RestartCursor, batch
    <3>3. Grows
      BY <1>1, <3>1, QuietTrue
    <3> QED BY <1>1, <1>2, <3>1, <3>2, <3>3, QuietUndamaged
  <2>4. CASE Write
    BY <1>1, <1>2, <2>4, WriteTrue, WriteUndamaged
  <2>5. CASE Rot
    BY <1>1, <2>5, RotUndamaged
  <2>6. CASE SendNextBlock
    BY <1>1, <1>2, <2>6, SendNextBlockTrue, SendNextBlockUndamaged
  <2> QED BY <1>2, <2>1, <2>2, <2>3, <2>4, <2>5, <2>6 DEF EngineNext
<1>3. CASE (IssueChallenge /\ UNCHANGED engineVars) \/ UNCHANGED vars
  <2>1. UNCHANGED engineVars /\ gaps' \subseteq gaps \cup {}
    BY <1>3 DEF IssueChallenge, vars, serverVars
  <2>2. GapsUnused(written, {}) /\ DiscardsBefore(log, {})
    BY DEF GapsUnused, DiscardsBefore
  <2> QED BY <1>1, <2>1, <2>2, ServerUndamaged
<1>4. CASE DeliverChallenge
  BY <1>1, <1>4, HandleChallengeTrue, HandleChallengeUndamaged DEF DeliverChallenge
<1>5. CASE DeliverAck
  BY <1>1, <1>5, HandleAckTrue, HandleAckUndamaged DEF DeliverAck
<1>6. CASE DeliverResponse
  BY <1>1, <1>6, RespondUndamaged DEF DeliverResponse
<1>7. CASE DeliverBlocks
  <2>1. PICK bs \in SeqOf(sent, MaxBatch) : ReceiveBatch(bs) /\ UNCHANGED engineVars
    BY <1>7 DEF DeliverBlocks
  <2>2. PICK m \in 0..MaxBatch : bs \in [1..m -> sent]
    BY <2>1 DEF SeqOf
  <2>3. bs \in Seq(sent)
    BY <2>2, ServerAssumption
  <2>4. Len(bs) \in Nat /\ \A i \in 1..Len(bs) : bs[i] \in sent
    BY <2>3, LenProperties, ElementOfSeq
  <2> QED BY <1>1, <2>1, <2>4, ReceiveUndamaged
<1> QED
  BY <1>2, <1>3, <1>4, <1>5, <1>6, <1>7 DEF Next

THEOREM UndamagedInvariance == Spec => []UndamagedInv
<1>1. UndamagedInv /\ [Next]_vars => UndamagedInv'
  BY NextUndamaged
<1> QED
  BY <1>1, InitUndamaged, PTL DEF Spec

(* SyncEngine::sendNextBlock and restartCursor: on a medium without faults   *)
(* the cursor passes no record that was written and not sent, over           *)
(* disconnections, resends, overflows, reboots and jumps to a BOOT.          *)
THEOREM NothingIsSkipped == Spec => [](damage = 0 => NothingSkipped)
<1>1. UndamagedInv => (damage = 0 => NothingSkipped)
  BY DEF UndamagedInv, Unskipped, SentFor, NothingSkipped
<1> QED
  BY <1>1, UndamagedInvariance, PTL

(* receive_batch.go and LittleFsBlockStore::effectiveTail: on a medium       *)
(* without faults what the server registers as the gap of a boot was never   *)
(* written, and what it registers as discarded leaves every readable BOOT    *)
(* its own gap.                                                              *)
THEOREM GapsStayTrue == Spec => [](damage = 0 => GapsAreTrue)
<1>1. ASSUME UndamagedInv, damage = 0 PROVE GapsAreTrue
  <2>1. /\ GapsUnused(written, gaps) /\ DiscardsBefore(log, gaps)
    BY <1>1 DEF UndamagedInv
  <2>2. BootGapNeverWritten
    BY <2>1 DEF GapsUnused, BootGapNeverWritten
  <2>3. ASSUME NEW g \in gaps, g.cause = "OVERFLOW", NEW r \in ReadableBoots
        PROVE  g.from..g.to \cap r.from..r.to = {}
    <3>1. PICK q \in written : ReadStatus(log, q) = "Ok" /\ r = RecordAt(log, q) /\ r.kind = "BOOT"
      BY <2>3 DEF ReadableBoots, ReadableSeqs
    <3>2. /\ q \in Nat /\ Holds(log, q) /\ GoodLog(log) /\ Ordered(log) /\ BootsSound(log)
      BY <1>1, <3>1, UndamagedFacts, StoreFacts, ReadableIsHeld
    <3>3. Declares(log, r.from, r.to)
      BY <3>1, <3>2, ReadDeclares
    <3>4. r.from \in Nat /\ r.to = q - 1 /\ r.to \in Nat
      BY <1>1, <3>1, <3>2, ReadBoot
    <3>5. BeforeBoots(log, g.to + 1) /\ g.to \in Nat /\ g.from \in Nat
      BY <1>1, <2>1, <2>3, UndamagedFacts DEF DiscardsBefore
    <3>6. g.to + 1 <= r.from
      BY <3>3, <3>4, <3>5 DEF BeforeBoots
    <3> QED BY <3>4, <3>5, <3>6
  <2> QED BY <2>2, <2>3 DEF GapsAreTrue, BootGapLeftToBoot
<1>2. UndamagedInv => (damage = 0 => GapsAreTrue)
  BY <1>1
<1> QED
  BY <1>2, UndamagedInvariance, PTL
===============================================================================
