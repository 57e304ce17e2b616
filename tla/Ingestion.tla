------------------------------ MODULE Ingestion ------------------------------
(***************************************************************************)
(* The server's side of the transfer, for one dongle: the handshake        *)
(* (usecase/handshake) and the ingestion of blocks (usecase/ingestion).    *)
(* Both serialise on the dongle's advisory lock, so a request is one       *)
(* action.  The challenges and ACKs it produces are added to sets: the app *)
(* that carries them may deliver each any number of times, late, or never. *)
(***************************************************************************)
EXTENDS Integers, Sequences, FiniteSets, FiniteSetsExt, SequencesExt

CONSTANTS MaxCs,      \* bound on the challenges issued
          MaxBatch,   \* blocks in one POST
          RoundTrips  \* what the round trip of a response may allow: an anchor or not

ASSUME ServerAssumption ==
  MaxCs \in Nat /\ MaxBatch \in Nat \ {0} /\ RoundTrips \in (SUBSET BOOLEAN) \ {{}}

VARIABLES
  contiguousSeq,  \* dongle_state: every seq up to it is decided
  headSeq,        \* dongle_state: highest seq reported or seen
  cConf,          \* dongle_state: c_S of the last accepted response
  lastCs,         \* dongle_state: last c_S issued
  pending,        \* challenges issued and not answered
  rawBlocks,      \* raw_block: the blocks accepted
  gaps,           \* gap: the ranges declared as holding no block
  anchors,        \* anchor: boots whose time was anchored
  challenges,     \* challenges ever sent
  acks            \* ACKs ever sent

serverVars == <<contiguousSeq, headSeq, cConf, lastCs, pending, rawBlocks, gaps, anchors,
                challenges, acks>>

Challenge == [cs : Nat \ {0}, ack : Nat]
Ack == [ack : Nat, cConf : Nat, anchorFailed : BOOLEAN]
Gap == [from : Nat, to : Nat, cause : {"BOOT", "LOSS", "OVERFLOW"}]
Block == [seq : Nat \ {0}, kind : {"DATA", "BOOT", "LOSS"}, from : Nat, to : Nat]

ServerTypeOK ==
  /\ contiguousSeq \in Nat /\ headSeq \in Nat /\ cConf \in Nat /\ lastCs \in Nat
  /\ pending \in SUBSET (Nat \ {0}) /\ anchors \in SUBSET Nat
  /\ rawBlocks \in SUBSET Block /\ gaps \in SUBSET Gap
  /\ challenges \in SUBSET Challenge /\ acks \in SUBSET Ack

ServerInit ==
  /\ contiguousSeq = 0 /\ headSeq = 0 /\ cConf = 0 /\ lastCs = 0
  /\ pending = {} /\ rawBlocks = {} /\ gaps = {} /\ anchors = {}
  /\ challenges = {} /\ acks = {}

-------------------------------------------------------------------------------
(* Handshake                                                                 *)

(* IssueChallenge: c_S only grows.  The limit of pending challenges delays a  *)
(* request; one that expires is one whose response never arrives in time.    *)
IssueChallenge ==
  /\ lastCs < MaxCs
  /\ lastCs' = lastCs + 1
  /\ pending' = pending \cup {lastCs'}
  /\ challenges' = challenges \cup {[cs |-> lastCs', ack |-> contiguousSeq]}
  /\ UNCHANGED <<contiguousSeq, headSeq, cConf, rawBlocks, gaps, anchors, acks>>

Inconsistent(r) == r.tail > r.head + 1 \/ r.head < headSeq

(* Mutants: the ack does not follow TAIL; it covers TAIL itself.             *)
TailAckKept(r) == contiguousSeq
TailAckInclusive(r) == Max({contiguousSeq, r.tail})

(* ApplyTail: what lies between the ack and TAIL was discarded.              *)
TailAck(r) == Max({contiguousSeq, r.tail - 1})
TailGaps(r) ==
  IF r.tail > contiguousSeq + 1
  THEN {[from |-> contiguousSeq + 1, to |-> r.tail - 1, cause |-> "OVERFLOW"]} ELSE {}

Answers(r) == r.cs \in pending /\ r.cs > cConf

(* RespondChallenge.  An inconsistent response uses its challenge up; the    *)
(* round trip decides whether the boot's time is anchored.                   *)
RespondChallenge(r) ==
  /\ Answers(r)
  /\ pending' = pending \ {r.cs}
  /\ \/ /\ Inconsistent(r)
        /\ UNCHANGED <<contiguousSeq, headSeq, cConf, gaps, anchors, acks>>
     \/ /\ ~Inconsistent(r)
        /\ contiguousSeq' = TailAck(r)
        /\ gaps' = gaps \cup TailGaps(r)
        /\ headSeq' = r.head
        /\ cConf' = r.cs
        /\ \E anchored \in RoundTrips :
             /\ anchors' = IF anchored THEN anchors \cup {r.boot} ELSE anchors
             /\ acks' = acks \cup
                  {[ack |-> contiguousSeq', cConf |-> r.cs, anchorFailed |-> ~anchored]}
  /\ UNCHANGED <<lastCs, rawBlocks, challenges>>

-------------------------------------------------------------------------------
(* Ingestion                                                                 *)

(* A block is taken when nothing is missing between it and what is decided:  *)
(* exp is the next seq expected.                                             *)
Acceptable(b, exp) ==
  \/ b.kind = "DATA" /\ b.seq = exp
  \/ b.kind = "BOOT" /\ b.to = b.seq - 1 /\ b.from <= exp
  \/ b.kind = "LOSS" /\ b.from = exp /\ b.from <= b.seq /\ b.seq <= b.to

(* The range that an accepted block declares as holding none.                *)
Declared(b, exp) ==
  IF b.kind = "BOOT" /\ exp <= b.to THEN {[from |-> exp, to |-> b.to, cause |-> "BOOT"]}
  ELSE IF b.kind = "LOSS" THEN {[from |-> b.from, to |-> b.to, cause |-> "LOSS"]}
  ELSE {}

(* One block of a batch; the first that cannot be taken interrupts it.       *)
ApplyOne(st, b) ==
  IF st.interrupted \/ b.seq < st.exp THEN st
  ELSE IF ~Acceptable(b, st.exp) THEN [st EXCEPT !.interrupted = TRUE]
  ELSE [exp |-> (IF b.kind = "LOSS" THEN b.to ELSE b.seq) + 1,
        accepted |-> st.accepted \cup {b},
        gaps |-> st.gaps \cup Declared(b, st.exp),
        interrupted |-> FALSE]

NothingApplied == [exp |-> contiguousSeq + 1, accepted |-> {}, gaps |-> {}, interrupted |-> FALSE]

(* What the batch has come to after its first n blocks.                      *)
Progress(bs) ==
  LET st[n \in 0..Len(bs)] == IF n = 0 THEN NothingApplied ELSE ApplyOne(st[n - 1], bs[n])
  IN st

Apply(bs) == Progress(bs)[Len(bs)]

(* ReceiveBatch, with a token of an accepted handshake.  An INSERT that      *)
(* meets a stored seq is the broken invariant of store, and rolls back.      *)
(* HEAD follows the highest seq seen, accepted or not.                       *)
Conflict(accepted) == \E b \in accepted, s \in rawBlocks : b.seq = s.seq

ReceiveBatch(bs) ==
  LET r == Apply(bs)
      seen == {bs[i].seq : i \in {j \in DOMAIN bs : bs[j].seq > contiguousSeq}}
  IN /\ cConf > 0 /\ ~Conflict(r.accepted)
     /\ contiguousSeq' = r.exp - 1
     /\ rawBlocks' = rawBlocks \cup r.accepted
     /\ gaps' = gaps \cup r.gaps
     /\ headSeq' = Max({headSeq, contiguousSeq'} \cup seen)
     /\ acks' = acks \cup {[ack |-> contiguousSeq', cConf |-> cConf, anchorFailed |-> FALSE]}
     /\ UNCHANGED <<cConf, lastCs, pending, anchors, challenges>>

-------------------------------------------------------------------------------
(* Properties of the server alone                                            *)

(* Seqs that hold a block of the dongle, and seqs of a declared range.       *)
StoredSeqs == {b.seq : b \in {x \in rawBlocks : x.kind # "LOSS"}}
GapSeqs == UNION {g.from..g.to : g \in gaps}

(* dongle_state.contiguous_seq means what the ACK tells the dongle, which    *)
(* frees its flash: every seq up to it is stored or declared, never both,    *)
(* by exactly one row, and nothing above it is.                              *)
AckIsDecided ==
  /\ StoredSeqs \cup GapSeqs = 1..contiguousSeq
  /\ StoredSeqs \cap GapSeqs = {}
  /\ \A g, h \in gaps : g # h => g.to < h.from \/ h.to < g.from
  /\ \A a, b \in rawBlocks : a # b => a.seq # b.seq
===============================================================================
