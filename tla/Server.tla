-------------------------------- MODULE Server --------------------------------
(***************************************************************************)
(* The server of one dongle: concurrent requests for a challenge, answers  *)
(* and batches, each with what it reads before its transaction, over the   *)
(* tables db and, in step, over the memory store mem.  The dongle boots,   *)
(* records and answers honestly; its messages arrive late, twice, in any   *)
(* order or never, and a copy of a block may be damaged on the way.        *)
(*                                                                         *)
(* The clock of the server and that of the dongle run together; t32 and    *)
(* boot_id wrap, and the log remembers which boot and time it meant.       *)
(***************************************************************************)
EXTENDS ServerRepo

CONSTANTS Dev, Profile,
          BootIds,    \* boot_id counts 1..BootIds (65535 in the code)
          Bounds,     \* what may happen: sets of bounds, one of which a behavior is under
          Steps       \* how far the clock may move at once

ASSUME ServerAssumption ==
  /\ {BootIds, Clock32} \subseteq Nat \ {0, 1}
  /\ {MaxPending, Validity, RttMax} \subseteq Nat
  /\ \A b \in Bounds :
       /\ {b[k] : k \in {"boots", "log", "clock", "issued", "calls", "batches", "refused", "discarded", "ahead"}} \subseteq Nat
       /\ b.rows \in {"", "boots", "lists", "blocks"}
  /\ Steps \subseteq Nat
  /\ 2 * Validity <= Clock32

VARIABLES
  bound,   \* the bounds of this behavior; ahead: the clock of the API that asks may be ahead
  db, mem,
  apart,   \* the memory store was seen to differ where it is known to
  clock,
  dongle,  \* [n, t, log, tail, conf]: its boot, the time since, its log, the last challenge it took
  issued,  \* [cs, ahead] of each challenge, in the order issued: the nonce is the place
  made,    \* the responses the dongle has built
  calls,   \* the requests being served, with what each read so far
  same     \* both stores gave the same answers
server == <<db, mem, apart, issued, calls, same>>
vars == <<bound, server, clock, dongle, made>>

M == INSTANCE ServerMemory

d == 1
BootId(n) == ((n - 1) % BootIds) + 1
Cycle(n) == (n - 1) \div BootIds
Rec(n, t, seq, kind, from, to) == [n |-> n, t |-> t, seq |-> seq, kind |-> kind, from |-> from, to |-> to]
Seqs == DOMAIN dongle.log
Sent(x) == [seq |-> x.seq, boot |-> BootId(x.n), t32 |-> x.t % Clock32, dt |-> 0, kind |-> x.kind,
            from |-> x.from, to |-> x.to, valid |-> TRUE]

State(m) == m.states[d]
Ingested == State(db).contiguous
BootsIngested == Max({0} \cup {dongle.log[x.seq].n : x \in {y \in db.raw : y.marker # "LOSS"}})
LastHeard == Max({0} \cup {dongle.log[x.seq].t :
                x \in {y \in db.raw : y.marker = "" /\ dongle.log[y.seq].n = dongle.n}})

Init ==
  /\ bound \in Bounds
  /\ db = Register(NewDatabase, Dev, d, Profile)
  /\ mem = M!Register(M!New, Dev, Profile)
  /\ apart = FALSE /\ clock = 1
  /\ dongle = [n |-> 1, t |-> 0, log |-> <<Rec(1, 0, 1, "BOOT", 1, 0)>>, tail |-> 1, conf |-> 0]
  /\ issued = <<>> /\ made = {} /\ calls = {} /\ same = TRUE

----------------------------------------------------------------------------
(* The dongle.                                                             *)

(* It is not out of reach for a whole cycle of boot_id, nor a boot for     *)
(* half a turn of t_ms without data.                                       *)
Boots ==
  /\ dongle.n < bound.boots /\ Len(dongle.log) < bound.log
  /\ dongle.n + 1 - BootsIngested < BootIds
  /\ LET seq == Len(dongle.log) + 1
     IN  dongle' = [dongle EXCEPT !.n = @ + 1, !.t = 0,
                                  !.log = Append(@, Rec(dongle.n + 1, 0, seq, "BOOT", seq, seq - 1))]
  /\ UNCHANGED <<bound, server, clock, made>>

Records ==
  /\ Len(dongle.log) < bound.log
  /\ dongle' = [dongle EXCEPT !.log = Append(@, Rec(dongle.n, dongle.t, Len(@) + 1, "data", 0, 0))]
  /\ UNCHANGED <<bound, server, clock, made>>

(* OVERFLOW: the oldest block that the server lacks is discarded.          *)
Discards ==
  /\ dongle.tail <= Len(dongle.log) /\ dongle.tail <= bound.discarded
  /\ dongle' = [dongle EXCEPT !.tail = @ + 1]
  /\ UNCHANGED <<bound, server, clock, made>>

(* The dongle answers a challenge newer than the last one it answered.     *)
Answers(i) ==
  /\ i > dongle.conf
  /\ dongle' = [dongle EXCEPT !.conf = i]
  /\ made' = made \cup {[i |-> i, n |-> dongle.n, t |-> dongle.t, at |-> clock,
                         head |-> Len(dongle.log), tail |-> dongle.tail]}
  /\ UNCHANGED <<bound, server, clock>>

(* The time a row was written is not told apart.                           *)
Now == 0

Half == Clock32 \div 2
InTime(k) ==
  /\ dongle.t + k - LastHeard < Half
  /\ \A c \in calls : c.kind = "respond" /\ c.r.n = dongle.n => dongle.t + k - c.r.t < Half
Tick(k) ==
  /\ clock + k <= bound.clock /\ InTime(k)
  /\ clock' = clock + k
  /\ dongle' = [dongle EXCEPT !.t = @ + k]
  /\ UNCHANGED <<bound, server, made>>

----------------------------------------------------------------------------
(* The requests.  The memory store knows a challenge by its place.         *)

MayServe == Cardinality(calls) < bound.calls
InMemory(m2) == IF apart THEN mem ELSE m2
Respond(r, cs) == [cs |-> cs, nonce |-> r.i, boot |-> BootId(r.n), t32 |-> r.t % Clock32,
                   head |-> r.head, tail |-> r.tail]
Answered(c) == <<Respond(c.r, issued[c.r.i].cs), Respond(c.r, c.r.i)>>
ResultOf(m, cs) == m.challenges[<<d, cs>>].result
CsOf(i) == IF i = 0 THEN 0 ELSE issued[i].cs
Translate(out) ==
  CASE out.is = "ack" -> [out EXCEPT !.conf = CsOf(@)]
    [] out.is = "batch" -> [out EXCEPT !.ack.conf = CsOf(@)]
    [] OTHER -> out

(* The statement of Issue counts the pending challenges in its snapshot,   *)
(* then waits for the row of the dongle.                                   *)
AskArrives(ahead) ==
  /\ MayServe /\ Len(issued) + Cardinality({c \in calls : c.kind = "ask"}) < bound.issued
  /\ calls' = calls \cup {[kind |-> "ask", s1 |-> clock + ahead, ahead |-> ahead,
                           pending |-> Cardinality(PendingChallenges(db.challenges, d, clock + ahead))]}
  /\ UNCHANGED <<db, mem, apart, issued, same, bound, clock, dongle, made>>

AskCommits(c) ==
  LET p == Use!Issuance(db, Dev, c.s1, c.s1, Len(issued) + 1)
      a == IF Use!Access(db, Dev) # "" THEN [m |-> db, out |-> Use!Said(Use!Access(db, Dev))]
           ELSE IF IssueAllowed(db.states, p, c.pending) THEN [m |-> Issue(db, p), out |-> Use!Said("issued")]
           ELSE [m |-> db, out |-> Use!Said("pending_challenges")]
      b == M!Use!RunIssue(mem, Dev, c.s1, c.s1, Len(issued) + 1)
  IN  /\ c.kind = "ask"
      /\ calls' = calls \ {c}
      /\ db' = a.m /\ mem' = InMemory(b.m)
      /\ apart' = (apart \/ a.out # b.out)
      /\ issued' = IF a.out.is # "issued" THEN issued
                   ELSE Append(issued, [cs |-> Issued(db, p).cs, ahead |-> c.ahead])
      /\ UNCHANGED <<same, bound, clock, dongle, made>>

Reply(a, b) == same' = (apart' \/ a = Translate(b))

RespondArrives(r, genuine) ==
  LET p == Answered([r |-> r])
      a == Use!Precheck(db, Dev, p[1], clock)
      b == M!Use!Precheck(mem, Dev, p[2], clock)
  IN  /\ MayServe
      /\ genuine \/ db.challenges[<<d, p[1].cs>>].tries = 0 \* a bound
      /\ calls' = IF a # "" THEN calls
                  ELSE calls \cup {[kind |-> IF genuine THEN "respond" ELSE "forged", r |-> r, s2 |-> clock]}
      /\ UNCHANGED <<db, mem, apart, issued, bound, clock, dongle, made>>
      /\ Reply(Use!Said(a), Use!Said(b))

(* The tag does not verify.  Only the memory store notes it over a         *)
(* challenge that was answered meanwhile, or that expired.                 *)
RespondFails(c) ==
  LET a == Use!RunInvalidTag(db, Dev, Answered(c)[1])
      b == M!Use!RunInvalidTag(mem, Dev, Answered(c)[2])
  IN  /\ c.kind = "forged"
      /\ calls' = calls \ {c}
      /\ db' = a.m /\ mem' = InMemory(b.m)
      /\ apart' = (apart \/ ResultOf(a.m, issued[c.r.i].cs) # ResultOf(b.m, c.r.i))
      /\ UNCHANGED <<issued, bound, clock, dongle, made>>
      /\ Reply(a.out, b.out)

(* Only the tables raise HEAD with the blocks, and may find a response     *)
(* behind them.                                                            *)
RespondCommits(c) ==
  LET a == Use!RunRespond(db, Dev, Answered(c)[1], c.s2, Now, c.r.i)
      b == M!Use!RunRespond(mem, Dev, Answered(c)[2], c.s2, Now, c.r.i)
  IN  /\ c.kind = "respond"
      /\ calls' = calls \ {c}
      /\ db' = a.m /\ mem' = InMemory(b.m)
      /\ apart' = (apart \/ (a.out.is = "inconsistent" /\ b.out # a.out))
      /\ UNCHANGED <<issued, bound, clock, dongle, made>>
      /\ Reply(a.out, b.out)

(* A run of the log, one block of it damaged or not, or lost to the dongle. *)
Batches ==
  {[n \in 1..(to - from + 1) |-> Sent(dongle.log[from + n - 1])] : <<from, to>> \in
     {x \in Seqs \X Seqs : x[2] - x[1] \in 0..1}}
Damaged(bs, n, how) ==
  CASE how = "tag" -> [bs EXCEPT ![n].valid = FALSE]
    [] how \in {"odd_pid", "broken"} -> [bs EXCEPT ![n].kind = how]
    [] how = "loss" -> [bs EXCEPT ![n] = [@ EXCEPT !.kind = "LOSS", !.boot = 0, !.from = bs[n].seq, !.to = bs[n].seq]]
    [] OTHER -> bs
Refusals == FoldFunction(LAMBDA x, s : x.occurrences + s, 0, db.rejected)
BatchArrives(bs, n, how) ==
  LET sent == Damaged(bs, n, how)
  IN  /\ MayServe
      /\ Cardinality({c \in calls : c.kind = "batch"}) < bound.batches
      /\ State(db).conf > 0 \* a token comes with an accepted handshake
      /\ (how = "" /\ bs[1].seq <= Ingested + 1) \/ Refusals < bound.refused
      /\ how = "odd_pid" => bs[n].kind = "data"
      /\ calls' = calls \cup {[kind |-> "batch", bs |-> sent, verified |-> Use!Verified(db, Dev, sent)]}
      /\ UNCHANGED <<db, mem, apart, issued, same, bound, clock, dongle, made>>

BatchCommits(c) ==
  LET a == Use!RunReceive(db, Dev, c.bs, c.verified, Now)
      b == M!Use!RunReceive(mem, Dev, c.bs, c.verified, Now)
  IN  /\ c.kind = "batch"
      /\ calls' = calls \ {c}
      /\ db' = a.m /\ mem' = InMemory(b.m)
      /\ UNCHANGED <<apart, issued, bound, clock, dongle, made>>
      /\ Reply(a.out, b.out)

(* The KMS does not answer, the transaction is rolled back, the client is  *)
(* gone.                                                                   *)
CallFails(c) == calls' = calls \ {c} /\ UNCHANGED <<db, mem, apart, issued, same, bound, clock, dongle, made>>

Confirmation ==
  /\ UNCHANGED <<db, mem, apart, issued, calls, bound, clock, dongle, made>>
  /\ Reply(Use!RunConfirmation(db, Dev), M!Use!RunConfirmation(mem, Dev))

(* The hourly job of the worker.                                           *)
Expires ==
  /\ db' = Expire(db, clock) /\ mem' = M!Expire(mem, clock)
  /\ UNCHANGED <<apart, issued, calls, same, bound, clock, dongle, made>>

Serve ==
  \/ \E ahead \in {0, bound.ahead} : AskArrives(ahead)
  \/ \E c \in {x \in calls : x.kind = "ask"} : AskCommits(c)
  \/ \E r \in made, genuine \in BOOLEAN : RespondArrives(r, genuine)
  \/ \E c \in {x \in calls : x.kind = "forged"} : RespondFails(c)
  \/ \E c \in {x \in calls : x.kind = "respond"} : RespondCommits(c)
  \/ \E bs \in Batches, n \in 1..2, how \in {"", "tag", "odd_pid", "broken", "loss"} :
        n \in DOMAIN bs /\ BatchArrives(bs, n, how)
  \/ \E c \in {x \in calls : x.kind = "batch"} : BatchCommits(c)
  \/ \E c \in calls : CallFails(c)
  \/ Confirmation
  \/ Expires

Next ==
  \/ Boots \/ Records \/ Discards \/ Serve
  \/ \E i \in DOMAIN issued : Answers(i)
  \/ \E k \in Steps : Tick(k)
Spec == Init /\ [][Next]_vars

----------------------------------------------------------------------------
(* Properties.                                                             *)

Serving == bound.rows = "" \* the rows come from requests, not from a test of the worker

TypeOK ==
  /\ apart \in BOOLEAN /\ clock \in 1..bound.clock
  /\ dongle.n \in 1..bound.boots /\ dongle.t \in 0..bound.clock /\ Len(dongle.log) <= bound.log
  /\ dongle.tail \in 1..bound.log + 1 /\ dongle.conf \in 0..Len(issued)
  /\ Cardinality(calls) <= bound.calls /\ Len(issued) <= bound.issued
  /\ State(db).contiguous \in 0..bound.log /\ State(db).lastBoot \in 0..BootIds
  /\ Serving => \A b \in db.boots : b.gen \in 0..Cycle(bound.boots) /\ b.boot \in 1..BootIds /\ b.lastT \in Null..bound.clock

(* The tests run over the memory store: it answers what PostgreSQL answers *)
(* (both adapters implement port.Repositories), and what the tests read    *)
(* from it is what the simulator reads through the Inspector and what the  *)
(* tables hold.                                                            *)
SameServer ==
  LET seen == Inspect(db, Dev)
      state == State(mem)
  IN
  Serving /\ ~apart =>
    /\ same
    /\ seen.state = [contiguous |-> state.contiguous, conf |-> CsOf(state.conf), gen |-> state.gen,
                     lastBoot |-> state.lastBoot]
    /\ State(db).maxSeen = state.maxSeen
    /\ {[x EXCEPT !.conf = CsOf(@)] : x \in ToSet(state.lastAck)} = ToSet(State(db).lastAck)
    /\ \A i \in DOMAIN issued :
         /\ db.challenges[<<d, issued[i].cs>>].answered = mem.challenges[<<d, i>>].answered
         /\ ResultOf(db, issued[i].cs) = ResultOf(mem, i)
    /\ {[seq |-> x.seq, boot |-> x.boot, gen |-> x.gen, t0 |-> x.t0, marker |-> x.marker, payload |-> x.payload] :
           x \in db.raw} = ToSet(mem.raw)
    /\ {<<x.gen, x.boot, x.lastT>> : x \in {y \in ToSet(seen.boots) : y.lastT # Null}}
         = {<<k[2], k[3], mem.tms[k]>> : k \in DOMAIN mem.tms}
    /\ ToSet(seen.gaps) = {[from |-> g.from, to |-> g.to, cause |-> g.cause] : g \in ToSet(mem.gaps)}
    /\ db.anchors \subseteq ToSet(mem.anchors) /\ seen.anchors <= Len(mem.anchors)
    /\ <<db.readings, db.positions, db.sent>> = <<mem.readings, mem.positions, mem.sent>>
    /\ <<seen.readings, seen.positions>> = <<Len(mem.readings), Len(mem.positions)>>
    /\ \A type \in DOMAIN seen.alerts :
         seen.alerts[type] = Len(SelectSeq(mem.alerts, LAMBDA a : a.type = type))
    /\ seen.rejected = Cardinality({<<x.hash, x.reason>> : x \in ToSet(mem.rejected)})
    /\ Refusals = Len(mem.rejected)

(* domain/handshake/rules.go, HandshakeGeneration ("infere a geração do    *)
(* boot_id sem gravar o estado"): the boot an anchor was taken in and the  *)
(* boot its blocks are filed under are the same, whichever came first, and *)
(* it is the cycle of boot_id the dongle is in.                            *)
MadeFor(nonce) == CHOOSE r \in made : r.i = nonce
AnchorsMeetBlocks ==
  Serving =>
    /\ \A x \in db.raw : x.marker # "LOSS" => x.gen = Cycle(dongle.log[x.seq].n)
    /\ \A a \in db.anchors : a.gen = Cycle(MadeFor(a.nonce).n) /\ a.boot = BootId(MadeFor(a.nonce).n)
    /\ \A a \in db.anchors : \E b \in db.boots : SameKey(a, b)

(* Unwrap (timeline.go:10, "escolhe t32 + k*2^32 mais próximo da           *)
(* referência"): blocks and anchors get the time since the boot that the   *)
(* dongle meant, though they may arrive in either order, and s1 and s2     *)
(* enclose the moment of an anchor.                                        *)
TimesAreTrue ==
  Serving =>
    /\ \A x \in db.raw : x.marker = "" => x.t0 = dongle.log[x.seq].t
    /\ \A a \in db.anchors : a.t = MadeFor(a.nonce).t
    /\ \A a \in db.anchors : issued[a.nonce].ahead = 0 => MadeFor(a.nonce).at \in a.s1..a.s2

(* The row of a boot says what its data blocks say, whatever was sent      *)
(* twice or refused between them (UpdateIngestionBoots).                   *)
BootsCoverBlocks ==
  Serving =>
    \A b \in db.boots :
      LET data == {x \in db.raw : x.marker = "" /\ x.gen = b.gen /\ x.boot = b.boot}
      IN  IF data = {} THEN b.first = Null /\ b.lastT = Null
          ELSE /\ b.first = Min({x.seq : x \in data}) /\ b.last = Max({x.seq : x \in data})
               /\ b.firstT = Min({x.t0 : x \in data}) /\ b.lastT = Max({x.t0 + x.payload : x \in data})

(* A challenge says what became of it: an accepted one is confirmed and    *)
(* has its anchor, unless one of the same moment was there; a refused one  *)
(* left nothing (RespondChallenge.Run, the transaction).                   *)
AnchorsAreAnswers ==
  Serving =>
    /\ \A a \in db.anchors : db.challenges[<<d, issued[a.nonce].cs>>].result = "accepted"
    /\ \A i \in DOMAIN issued :
         LET c == db.challenges[<<d, issued[i].cs>>]
         IN  /\ (c.answered # Null) = (c.result \in {"accepted", "accepted_no_anchor", "inconsistent"})
             /\ c.result = "accepted" =>
                  \E a \in db.anchors : a.gen = c.gen /\ a.boot = c.boot /\ a.t = c.t
             /\ (c.jti # Null) => issued[i].cs <= State(db).conf /\ c.ack <= Ingested

(* The stored ACK, which GET confirmacao returns and a batch may send      *)
(* again without signing, is the ACK of the stored state, though handshake *)
(* and batch both write it from what they read before.                     *)
StoredAckIsCurrent ==
  \A x \in ToSet(State(db).lastAck) : x.seq = Ingested /\ x.conf = State(db).conf

(* The CHECK constraints of 00003_bronze.sql:17-19 and 00004_context.sql:  *)
(* no transaction of an honest dongle is refused by one.                   *)
ChecksHold ==
  /\ LET s == State(db)
     IN  s.contiguous <= s.head /\ s.contiguous <= s.maxSeen /\ s.conf <= s.lastCs /\ s.lastCs <= CsMax
  /\ \A a \in db.anchors : a.s2 >= a.s1
  /\ \A g \in db.gaps : g.to >= g.from /\ (g.cause = "OVERFLOW") = (g.cs # Null)

(* An anchor is true to everything else that is known of it: its challenge, *)
(* its boot, the blocks of that boot and the clock of the dongle.          *)
AnchorsAreTrue == AnchorsMeetBlocks /\ TimesAreTrue /\ AnchorsAreAnswers

(* What a request leaves in dongle_state serves the next one.              *)
StateIsSound == StoredAckIsCurrent /\ ChecksHold

(* Nothing a request read before its transaction takes the state back.     *)
Advances(s, t) ==
  /\ t.contiguous >= s.contiguous /\ t.maxSeen >= s.maxSeen /\ t.head >= s.head
  /\ t.conf >= s.conf /\ t.lastCs >= s.lastCs /\ t.gen >= s.gen
  /\ t.gen = s.gen => t.lastBoot >= s.lastBoot
StateOnlyAdvances == [][Advances(State(db), State(db)')]_vars

(* challenge.sql:2-3: "insere o desafio, só se o dongle tiver menos de     *)
(* @max_pending desafios pendentes no prazo".                              *)
PendingWithinLimit == Cardinality(PendingChallenges(db.challenges, d, clock)) <= MaxPending
=============================================================================
