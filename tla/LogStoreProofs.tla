---------------------------- MODULE LogStoreProofs ----------------------------
(***************************************************************************)
(* Lemmas about the operators of LogStore, for the modules that prove      *)
(* something about a log: what a mount, a discard and an append keep of    *)
(* the types, of the order of the segments and of the newest of them.      *)
(***************************************************************************)
EXTENDS LogStore, IntervalProofs, SequenceTheorems, TLAPS

-------------------------------------------------------------------------------
(* The log                                                                   *)

(* What the steps of the store keep of a log, whatever it stores.            *)
GoodLog(l) == /\ l \in SUBSET Segment
              /\ IsFiniteSet(l)
              /\ \A s \in l : s.reach <= Len(s.recs)

LEMMA NewestExists ==
  ASSUME NEW l \in SUBSET Segment, l # {}, IsFiniteSet(l)
  PROVE  NewestSeg(l) \in l /\ \A s \in l : s.first <= NewestSeg(l).first
<1> DEFINE key == [s \in l |-> s.first]
<1>1. key \in [l -> Int]
  BY DEF Segment
<1> HIDE DEF key
<1>2. \E m \in l : \A s \in l : key[s] <= key[m]
  BY <1>1, LargestKeyExists
<1> QED
  BY <1>2 DEF NewestSeg, key

LEMMA LastSeqType ==
  ASSUME NEW s \in Segment
  PROVE  LastSeq(s) \in Nat
<1>1. s.first \in Nat \ {0} /\ s.recs \in Seq(Record)
  BY DEF Segment
<1>2. Len(s.recs) \in Nat
  BY <1>1, LenProperties
<1> QED
  BY <1>1, <1>2 DEF LastSeq

LEMMA NewestSeqType ==
  ASSUME NEW l, GoodLog(l)
  PROVE  NewestSeq(l) \in Nat
BY NewestExists, LastSeqType DEF NewestSeq, GoodLog

LEMMA GoodSubset ==
  ASSUME NEW l, GoodLog(l), NEW k \in SUBSET l
  PROVE  GoodLog(k)
BY FS_Subset DEF GoodLog

LEMMA OverflowType ==
  ASSUME NEW old \in Nat, NEW before, GoodLog(before), NEW after
  PROVE  OverflowAfter(old, before, after) \in Nat
<1> DEFINE gone == {x \in before : \A t \in after : t.first # x.first}
           seqs == {LastSeq(s) : s \in gone}
           f    == [s \in gone |-> LastSeq(s)]
<1>1. IsFiniteSet(gone) /\ gone \subseteq Segment
  BY FS_Subset DEF GoodLog
<1>2. \A s \in gone : LastSeq(s) \in Nat
  BY <1>1, LastSeqType
<1>3. f \in Surjection(gone, seqs)
  BY DEF Surjection
<1>4. IsFiniteSet(seqs)
  BY <1>1, <1>3, FS_Surjection
<1>5. IsFiniteSet({old} \cup seqs)
  <2>1. {old} \cup seqs = seqs \cup {old}
    OBVIOUS
  <2> QED BY <2>1, <1>4, FS_AddElement
<1>6. {old} \cup seqs \in SUBSET Nat
  BY <1>2
<1> DEFINE all == {old} \cup seqs
<1>7. all \in SUBSET Nat /\ IsFiniteSet(all) /\ all # {} /\ all \in SUBSET Int
  BY <1>5, <1>6
<1> HIDE DEF all
<1>8. Max(all) \in all
  BY <1>7, MaxOfFinite
<1> QED
  BY <1>7, <1>8 DEF OverflowAfter, all

LEMMA RescannedType ==
  ASSUME NEW s \in Segment, s.reach <= Len(s.recs)
  PROVE  Rescanned(s) \in Segment /\ Rescanned(s).reach <= Len(Rescanned(s).recs)
<1>1. s.recs \in Seq(Record) /\ s.reach \in Nat /\ s.first \in Nat \ {0} /\ s.garbage \in BOOLEAN
  BY DEF Segment
<1> DEFINE recs == SubSeq(s.recs, 1, s.reach)
<1>2. recs \in Seq(Record) /\ Len(recs) = s.reach
  <2>1. Len(s.recs) \in Nat
    BY <1>1, LenProperties
  <2>2. 1..s.reach \subseteq 1..Len(s.recs)
    BY <1>1, <2>1
  <2> QED BY <1>1, <2>2, SubSeqProperties
<1> DEFINE sealed == s.garbage \/ s.reach >= SegCap
<1>3. sealed \in BOOLEAN
  OBVIOUS
<1>4. Rescanned(s) = [s EXCEPT !.recs = recs, !.sealed = sealed]
  BY DEF Rescanned
<1> HIDE DEF recs, sealed
<1>5. [s EXCEPT !.recs = recs, !.sealed = sealed] \in Segment
  BY <1>2, <1>3 DEF Segment
<1>6. /\ [s EXCEPT !.recs = recs, !.sealed = sealed].reach = s.reach
      /\ [s EXCEPT !.recs = recs, !.sealed = sealed].recs = recs
  BY DEF Segment
<1> QED
  BY <1>1, <1>2, <1>4, <1>5, <1>6

LEMMA GoodValid ==
  ASSUME NEW l, GoodLog(l)
  PROVE  GoodLog(Valid(l))
<1> DEFINE kept == {x \in l : x.reach > 0}
           f    == [s \in kept |-> Rescanned(s)]
<1>1. IsFiniteSet(kept) /\ kept \subseteq l
  BY FS_Subset DEF GoodLog
<1>2. f \in Surjection(kept, Valid(l))
  BY DEF Surjection, Valid
<1>3. IsFiniteSet(Valid(l))
  BY <1>1, <1>2, FS_Surjection
<1>4. \A s \in kept : Rescanned(s) \in Segment /\ Rescanned(s).reach <= Len(Rescanned(s).recs)
  BY <1>1, RescannedType DEF GoodLog
<1> QED
  BY <1>3, <1>4 DEF GoodLog, Valid

LEMMA GoodMount ==
  ASSUME NEW l, GoodLog(l)
  PROVE  GoodLog(Mount(l))
BY GoodValid, GoodSubset DEF Mount

LEMMA GoodEnsureSpace ==
  ASSUME NEW l, GoodLog(l), NEW k \in EnsureSpace(l)
  PROVE  GoodLog(k) /\ (l # {} => k # {})
<1>1. k \subseteq l
  BY DEF EnsureSpace, Remainders, From
<1>2. l # {} => k # {}
  BY DEF EnsureSpace, Remainders, From, GoodLog, Segment
<1> QED
  BY <1>1, <1>2, GoodSubset

LEMMA GoodAppend ==
  ASSUME NEW l, GoodLog(l), NEW new \in BOOLEAN, new \/ l # {},
         NEW seq \in Nat \ {0}, NEW r \in Record
  PROVE  GoodLog(AppendOk(l, new, seq, r))
<1>1. CASE new
  <2> DEFINE s == FreshSegment(seq, r)
  <2>1. s \in Segment /\ s.reach <= Len(s.recs)
    BY DEF FreshSegment, Segment
  <2>2. PICK k \in SUBSET l : PushSegment(l, s) = k \cup {s}
    BY DEF PushSegment
  <2>3. GoodLog(k)
    BY <2>2, GoodSubset
  <2>4. GoodLog(k \cup {s})
    BY <2>1, <2>3, FS_AddElement DEF GoodLog
  <2> QED BY <1>1, <2>2, <2>4 DEF AppendOk
<1>2. CASE ~new
  <2> DEFINE n == NewestSeg(l)
             e == Extended(n, r)
  <2>1. n \in Segment /\ n.reach <= Len(n.recs)
    BY <1>2, NewestExists DEF GoodLog
  <2> HIDE DEF n
  <2>2. e \in Segment /\ e.reach <= Len(e.recs)
    <3>1. n.recs \in Seq(Record) /\ n.reach \in Nat /\ n.garbage \in BOOLEAN
          /\ n.sealed \in BOOLEAN /\ n.first \in Nat \ {0}
      BY <2>1 DEF Segment
    <3> DEFINE recs   == Append(n.recs, r)
               reach  == IF n.garbage THEN n.reach ELSE n.reach + 1
               sealed == n.sealed \/ Len(n.recs) + 1 >= SegCap
    <3>2. recs \in Seq(Record) /\ Len(recs) = Len(n.recs) + 1 /\ Len(n.recs) \in Nat
      BY <3>1, AppendProperties, LenProperties
    <3>3. reach \in Nat /\ reach <= Len(recs)
      BY <2>1, <3>1, <3>2
    <3>4. sealed \in BOOLEAN
      OBVIOUS
    <3>5. e = [n EXCEPT !.recs = recs, !.reach = reach, !.sealed = sealed]
      BY DEF Extended
    <3> HIDE DEF recs, reach, sealed, e
    <3>6. /\ [n EXCEPT !.recs = recs, !.reach = reach, !.sealed = sealed] \in Segment
          /\ [n EXCEPT !.recs = recs, !.reach = reach, !.sealed = sealed].reach = reach
          /\ [n EXCEPT !.recs = recs, !.reach = reach, !.sealed = sealed].recs = recs
      BY <2>1, <3>2, <3>3, <3>4 DEF Segment
    <3> QED BY <3>3, <3>5, <3>6
  <2>3. GoodLog(l \ {n})
    BY GoodSubset
  <2>4. GoodLog((l \ {n}) \cup {e})
    BY <2>2, <2>3, FS_AddElement DEF GoodLog
  <2> QED BY <1>2, <2>4 DEF AppendOk, n
<1> QED
  BY <1>1, <1>2

LEMMA GoodAppendFailed ==
  ASSUME NEW l, GoodLog(l), NEW new \in BOOLEAN, new \/ l # {}, NEW torn \in BOOLEAN
  PROVE  GoodLog(AppendFailed(l, new, torn))
<1>1. CASE new
  BY <1>1 DEF AppendFailed
<1>2. CASE ~new
  <2> DEFINE n == NewestSeg(l)
             e == [n EXCEPT !.sealed = TRUE, !.garbage = @ \/ torn]
  <2>1. n \in Segment /\ n.reach <= Len(n.recs)
    BY <1>2, NewestExists DEF GoodLog
  <2> HIDE DEF n
  <2>2. e \in Segment /\ e.reach <= Len(e.recs)
    BY <2>1 DEF Segment
  <2>3. GoodLog(l \ {n})
    BY GoodSubset
  <2>4. GoodLog((l \ {n}) \cup {e})
    BY <2>2, <2>3, FS_AddElement DEF GoodLog
  <2> QED BY <1>2, <2>4 DEF AppendFailed, n
<1> QED
  BY <1>1, <1>2

-------------------------------------------------------------------------------
(* Order                                                                     *)

Ordered(l) ==
  /\ \A s \in l : Len(s.recs) > 0
  /\ \A s, t \in l : s # t => LastSeq(s) < t.first \/ LastSeq(t) < s.first

Backed(l, seqs) == \A s \in l : s.first..LastSeq(s) \subseteq seqs

(* The log l with e in the place of its segment n.                           *)
Swapped(l, n, e) == (l \ {n}) \cup {e}
SameExtent(n, e) == e.first = n.first /\ Len(e.recs) = Len(n.recs)

(* seq comes after everything written and, unless a segment is opened for it,*)
(* continues the newest segment.                                             *)
Follows(seq, seqs) == \A q \in seqs : q < seq
Continues(l, seq) == l # {} /\ LastSeq(NewestSeg(l)) + 1 = seq

LEMMA SegmentFields ==
  ASSUME NEW s \in Segment
  PROVE  /\ s.first \in Nat \ {0} /\ s.recs \in Seq(Record) /\ Len(s.recs) \in Nat
         /\ LastSeq(s) = s.first + Len(s.recs) - 1 /\ LastSeq(s) \in Nat
<1>1. s.first \in Nat \ {0} /\ s.recs \in Seq(Record)
  BY DEF Segment
<1> QED
  BY <1>1, LenProperties, LastSeqType DEF LastSeq

(* A segment is known by its name.                                           *)
LEMMA FirstsDiffer ==
  ASSUME NEW l \in SUBSET Segment, Ordered(l), NEW s \in l, NEW t \in l, s.first = t.first
  PROVE  s = t
<1>1. /\ s.first \in Nat /\ Len(s.recs) \in Nat /\ LastSeq(s) = s.first + Len(s.recs) - 1
      /\ t.first \in Nat /\ Len(t.recs) \in Nat /\ LastSeq(t) = t.first + Len(t.recs) - 1
  BY SegmentFields
<1> QED
  BY <1>1 DEF Ordered

LEMMA NewestIs ==
  ASSUME NEW l, GoodLog(l), Ordered(l), NEW n \in l, \A s \in l : s.first <= n.first
  PROVE  NewestSeg(l) = n /\ NewestSeq(l) = LastSeq(n)
<1>1. NewestSeg(l) \in l /\ n.first <= NewestSeg(l).first /\ NewestSeg(l).first <= n.first
  BY NewestExists DEF GoodLog
<1>2. n.first \in Nat /\ NewestSeg(l).first \in Nat
  BY <1>1, SegmentFields DEF GoodLog
<1>3. NewestSeg(l).first = n.first
  BY <1>1, <1>2
<1>4. NewestSeg(l) = n
  BY <1>1, <1>3, FirstsDiffer DEF GoodLog
<1> QED
  BY <1>4 DEF NewestSeq

(* A log each segment of which is the start of a segment of an ordered one.  *)
LEMMA Narrowing ==
  ASSUME NEW l, GoodLog(l), Ordered(l), NEW m \in SUBSET Segment,
         \A s \in m : Len(s.recs) > 0 /\ \E o \in l : o.first = s.first /\ Len(s.recs) <= Len(o.recs),
         \A s, t \in m : s.first = t.first => s = t
  PROVE  Ordered(m) /\ \A W : Backed(l, W) => Backed(m, W)
<1>1. ASSUME NEW s \in m, NEW t \in m, s # t
      PROVE  LastSeq(s) < t.first \/ LastSeq(t) < s.first
  <2>1. PICK o \in l : o.first = s.first /\ Len(s.recs) <= Len(o.recs)
    OBVIOUS
  <2>2. PICK p \in l : p.first = t.first /\ Len(t.recs) <= Len(p.recs)
    OBVIOUS
  <2>3. o # p
    BY <1>1, <2>1, <2>2
  <2>4. LastSeq(o) < p.first \/ LastSeq(p) < o.first
    BY <2>3 DEF Ordered
  <2>5. o \in Segment /\ p \in Segment
    BY DEF GoodLog
  <2>6. LastSeq(s) \in Nat /\ LastSeq(o) \in Nat /\ LastSeq(s) <= LastSeq(o)
    BY <2>1, <2>5, SegmentFields
  <2>7. LastSeq(t) \in Nat /\ LastSeq(p) \in Nat /\ LastSeq(t) <= LastSeq(p)
    BY <2>2, <2>5, SegmentFields
  <2>8. s.first \in Nat /\ t.first \in Nat
    BY SegmentFields
  <2> QED BY <2>1, <2>2, <2>4, <2>6, <2>7, <2>8
<1>2. ASSUME NEW W, Backed(l, W), NEW s \in m PROVE s.first..LastSeq(s) \subseteq W
  <2>1. PICK o \in l : o.first = s.first /\ Len(s.recs) <= Len(o.recs)
    OBVIOUS
  <2>2. o \in Segment
    BY DEF GoodLog
  <2>3. s.first \in Nat /\ LastSeq(s) \in Nat /\ LastSeq(o) \in Nat /\ LastSeq(s) <= LastSeq(o)
    BY <2>1, <2>2, SegmentFields
  <2>4. s.first..LastSeq(s) \subseteq o.first..LastSeq(o)
    BY <2>1, <2>3
  <2> QED BY <1>2, <2>4 DEF Backed
<1> QED
  BY <1>1, <1>2 DEF Ordered, Backed

LEMMA OrderedSubset ==
  ASSUME NEW l, Ordered(l), NEW k \in SUBSET l
  PROVE  Ordered(k) /\ \A W : Backed(l, W) => Backed(k, W)
BY DEF Ordered, Backed

(* ensureSpace discards from the old end and keeps the newest segment.       *)
LEMMA SpaceKeepsNewest ==
  ASSUME NEW l, GoodLog(l), Ordered(l), l # {}, NEW k \in EnsureSpace(l)
  PROVE  k # {} /\ NewestSeg(k) = NewestSeg(l) /\ NewestSeq(k) = NewestSeq(l)
<1>1. GoodLog(k) /\ k # {} /\ k \subseteq l
  BY GoodEnsureSpace DEF EnsureSpace, Remainders, From
<1>2. Ordered(k)
  BY <1>1, OrderedSubset
<1>3. NewestSeg(l) \in l /\ \A s \in l : s.first <= NewestSeg(l).first
  BY NewestExists DEF GoodLog
<1>4. NewestSeg(l) \in k
  BY <1>3 DEF EnsureSpace, Remainders, From
<1>5. \A s \in k : s.first <= NewestSeg(l).first
  BY <1>1, <1>3
<1>6. NewestSeg(k) = NewestSeg(l) /\ NewestSeq(k) = LastSeq(NewestSeg(l))
  BY <1>1, <1>2, <1>4, <1>5, NewestIs
<1> QED
  BY <1>1, <1>6 DEF NewestSeq

(* begin: a mounted log is a narrowing of what lay on the flash.             *)
LEMMA MountOrdered ==
  ASSUME NEW l, GoodLog(l), Ordered(l)
  PROVE  Ordered(Mount(l)) /\ \A W : Backed(l, W) => Backed(Mount(l), W)
<1>1. GoodLog(Mount(l)) /\ Mount(l) \subseteq Valid(l)
  BY GoodMount DEF Mount
<1>2. ASSUME NEW x \in l, x.reach > 0
      PROVE  /\ Rescanned(x).first = x.first
             /\ Len(Rescanned(x).recs) = x.reach /\ x.reach <= Len(x.recs) /\ x.reach \in Nat
  <2>1. x \in Segment /\ x.reach <= Len(x.recs)
    BY DEF GoodLog
  <2>2. x.reach \in Nat /\ x.recs \in Seq(Record) /\ Len(x.recs) \in Nat
    BY <2>1, SegmentFields DEF Segment
  <2>3. 1..x.reach \subseteq 1..Len(x.recs)
    BY <2>1, <2>2
  <2>4. Len(SubSeq(x.recs, 1, x.reach)) = x.reach
    BY <2>2, <2>3, SubSeqProperties
  <2> DEFINE recs == SubSeq(x.recs, 1, x.reach)
             sealed == x.garbage \/ x.reach >= SegCap
  <2>5. Rescanned(x) = [x EXCEPT !.recs = recs, !.sealed = sealed]
    BY DEF Rescanned
  <2>6. Len(recs) = x.reach
    BY <2>4
  <2> HIDE DEF recs, sealed
  <2>7. Rescanned(x).first = x.first /\ Rescanned(x).recs = recs
    BY <2>1, <2>5 DEF Segment
  <2> QED BY <2>1, <2>2, <2>6, <2>7
<1>3. \A s \in Mount(l) : \E x \in l : x.reach > 0 /\ s = Rescanned(x)
  BY <1>1 DEF Valid
<1>4. \A s \in Mount(l) : Len(s.recs) > 0 /\ \E o \in l : o.first = s.first /\ Len(s.recs) <= Len(o.recs)
  BY <1>2, <1>3
<1>5. ASSUME NEW s \in Mount(l), NEW t \in Mount(l), s.first = t.first PROVE s = t
  <2>1. PICK x \in l : x.reach > 0 /\ s = Rescanned(x)
    BY <1>3
  <2>2. PICK y \in l : y.reach > 0 /\ t = Rescanned(y)
    BY <1>3
  <2>3. x.first = y.first
    BY <1>2, <1>5, <2>1, <2>2
  <2>4. x = y
    BY <2>3, FirstsDiffer DEF GoodLog
  <2> QED BY <2>1, <2>2, <2>4
<1>6. Mount(l) \in SUBSET Segment
  BY <1>1 DEF GoodLog
<1> QED
  BY <1>4, <1>5, <1>6, Narrowing

(* A segment that changes neither its name nor its number of records: rot,   *)
(* a failed append.                                                          *)
LEMMA ReplacedOrdered ==
  ASSUME NEW l, GoodLog(l), Ordered(l), NEW n \in l, NEW e \in Segment, SameExtent(n, e),
         GoodLog(Swapped(l, n, e)), NEW W, Backed(l, W)
  PROVE  /\ Ordered(Swapped(l, n, e)) /\ Swapped(l, n, e) # {}
         /\ NewestSeq(Swapped(l, n, e)) = NewestSeq(l) /\ Backed(Swapped(l, n, e), W)
<1> DEFINE m == Swapped(l, n, e)
<1>1. m = (l \ {n}) \cup {e} /\ GoodLog(m) /\ e.first = n.first /\ Len(e.recs) = Len(n.recs)
  BY DEF Swapped, SameExtent
<1> HIDE DEF m
<1>2. n \in Segment /\ Len(n.recs) \in Nat /\ Len(n.recs) > 0
  BY SegmentFields DEF GoodLog, Ordered
<1>3. \A s \in m : \E o \in l : o.first = s.first /\ Len(o.recs) = Len(s.recs) /\ (s = o \/ (s = e /\ o = n))
  BY <1>1
<1>4. ASSUME NEW s \in m PROVE Len(s.recs) > 0 /\ \E o \in l : o.first = s.first /\ Len(s.recs) <= Len(o.recs)
  <2>1. PICK o \in l : o.first = s.first /\ Len(o.recs) = Len(s.recs)
    BY <1>3
  <2>2. Len(o.recs) \in Nat /\ Len(o.recs) > 0
    BY SegmentFields DEF GoodLog, Ordered
  <2> QED BY <2>1, <2>2
<1>5. ASSUME NEW s \in m, NEW t \in m, s.first = t.first PROVE s = t
  <2>1. \A x, y \in l : x.first = y.first => x = y
    BY FirstsDiffer DEF GoodLog
  <2>2. CASE s = e /\ t # e
    <3>1. t \in l /\ t # n /\ t.first = n.first
      BY <1>1, <1>5, <2>2
    <3> QED BY <2>1, <3>1
  <2>3. CASE t = e /\ s # e
    <3>1. s \in l /\ s # n /\ s.first = n.first
      BY <1>1, <1>5, <2>3
    <3> QED BY <2>1, <3>1
  <2>4. CASE s # e /\ t # e
    BY <1>1, <1>5, <2>1, <2>4
  <2> QED BY <1>1, <1>5, <2>2, <2>3, <2>4
<1>6. m \in SUBSET Segment
  BY <1>1 DEF GoodLog
<1>7. Ordered(m) /\ \A V : Backed(l, V) => Backed(m, V)
  BY <1>4, <1>5, <1>6, Narrowing
<1>8. NewestSeq(m) = NewestSeq(l)
  <2>1. NewestSeg(l) \in l /\ \A s \in l : s.first <= NewestSeg(l).first
    BY NewestExists DEF GoodLog
  <2>2. NewestSeq(l) = LastSeq(NewestSeg(l))
    BY <2>1 DEF NewestSeq
  <2> DEFINE w == IF NewestSeg(l) = n THEN e ELSE NewestSeg(l)
  <2>3. w \in m /\ w.first = NewestSeg(l).first /\ LastSeq(w) = LastSeq(NewestSeg(l))
    BY <1>1, <2>1 DEF LastSeq
  <2>4. \A s \in m : s.first <= w.first
    BY <1>3, <2>1, <2>3
  <2> HIDE DEF w
  <2> QED BY <1>1, <1>7, <2>2, <2>3, <2>4, NewestIs
<1> QED
  BY <1>1, <1>7, <1>8 DEF m

(* A record that goes bad moves no other and keeps what it declared.         *)
LEMMA RottedSegment ==
  ASSUME NEW s \in Segment, s.reach <= Len(s.recs), NEW e \in Rotted(s)
  PROVE  /\ e \in Segment /\ e.reach <= Len(e.recs) /\ SameExtent(s, e)
         /\ \A i \in 1..Len(s.recs) : /\ e.recs[i].kind = s.recs[i].kind
                                      /\ e.recs[i].from = s.recs[i].from
                                      /\ e.recs[i].to = s.recs[i].to
<1>1. PICK k \in 1..Len(s.recs) : e = HeaderBad(s, k) \/ e = BodyBad(s, k)
  BY DEF Rotted
<1>2. /\ s.reach \in Nat /\ s.recs \in Seq(Record) /\ Len(s.recs) \in Nat
      /\ k \in Nat \ {0} /\ s.recs[k] \in Record
  BY SegmentFields, ElementOfSeq DEF Segment
<1>3. CASE e = HeaderBad(s, k)
  <2> DEFINE reach == IF k <= s.reach THEN k - 1 ELSE s.reach
  <2>1. reach \in Nat /\ reach <= Len(s.recs)
    BY <1>2
  <2>2. e = [s EXCEPT !.reach = reach, !.garbage = TRUE]
    BY <1>3 DEF HeaderBad
  <2> HIDE DEF reach
  <2>3. e \in Segment /\ e.first = s.first /\ e.reach = reach /\ e.recs = s.recs
    BY <1>2, <2>1, <2>2 DEF Segment
  <2> QED BY <2>1, <2>3 DEF SameExtent
<1>4. CASE e = BodyBad(s, k)
  <2> DEFINE bad  == [s.recs[k] EXCEPT !.good = FALSE]
             recs == [s.recs EXCEPT ![k] = bad]
  <2>1. /\ bad \in Record /\ bad.kind = s.recs[k].kind
        /\ bad.from = s.recs[k].from /\ bad.to = s.recs[k].to
    BY <1>2 DEF Record
  <2>2. e = [s EXCEPT !.recs = recs]
    BY <1>4 DEF BodyBad
  <2> HIDE DEF bad
  <2>3. recs \in Seq(Record) /\ Len(recs) = Len(s.recs)
        /\ \A i \in 1..Len(s.recs) : recs[i] = IF i = k THEN bad ELSE s.recs[i]
    BY <1>2, <2>1, ExceptSeq
  <2> HIDE DEF recs
  <2>4. e \in Segment /\ e.first = s.first /\ e.reach = s.reach /\ e.recs = recs
    BY <1>2, <2>2, <2>3 DEF Segment
  <2> QED BY <2>1, <2>3, <2>4 DEF SameExtent
<1> QED
  BY <1>1, <1>3, <1>4

LEMMA GoodSwapped ==
  ASSUME NEW l, GoodLog(l), NEW n \in l, NEW e \in Segment, e.reach <= Len(e.recs)
  PROVE  GoodLog(Swapped(l, n, e))
<1>1. GoodLog(l \ {n})
  BY GoodSubset
<1> QED
  BY <1>1, FS_AddElement DEF GoodLog, Swapped

LEMMA AppendFailedOrdered ==
  ASSUME NEW l, GoodLog(l), Ordered(l), NEW new \in BOOLEAN, new \/ l # {}, NEW torn \in BOOLEAN,
         NEW W, Backed(l, W)
  PROVE  /\ Ordered(AppendFailed(l, new, torn)) /\ NewestSeq(AppendFailed(l, new, torn)) = NewestSeq(l)
         /\ l # {} => AppendFailed(l, new, torn) # {}
         /\ Backed(AppendFailed(l, new, torn), W)
<1>1. CASE new
  BY <1>1 DEF AppendFailed
<1>2. CASE ~new
  <2> DEFINE n == NewestSeg(l)
             e == [n EXCEPT !.sealed = TRUE, !.garbage = @ \/ torn]
  <2>1. n \in l /\ n \in Segment
    BY <1>2, NewestExists DEF GoodLog
  <2> HIDE DEF n
  <2>2. e \in Segment /\ e.first = n.first /\ e.recs = n.recs
    BY <2>1 DEF Segment
  <2>3. AppendFailed(l, new, torn) = Swapped(l, n, e)
    BY <1>2 DEF AppendFailed, n, Swapped
  <2>4. GoodLog(AppendFailed(l, new, torn))
    BY GoodAppendFailed
  <2> HIDE DEF e
  <2>5. SameExtent(n, e) /\ GoodLog(Swapped(l, n, e))
    BY <2>2, <2>3, <2>4 DEF SameExtent
  <2>6. /\ Ordered(Swapped(l, n, e)) /\ Swapped(l, n, e) # {}
        /\ NewestSeq(Swapped(l, n, e)) = NewestSeq(l) /\ Backed(Swapped(l, n, e), W)
    BY <2>1, <2>2, <2>5, ReplacedOrdered
  <2> QED BY <2>3, <2>6
<1> QED
  BY <1>1, <1>2

(* append: the record goes behind all others.                                *)
LEMMA AppendOrdered ==
  ASSUME NEW l, GoodLog(l), Ordered(l), NEW W, Backed(l, W), NEW seq \in Nat \ {0},
         Follows(seq, W), NEW r \in Record, NEW new \in BOOLEAN, new \/ Continues(l, seq)
  PROVE  /\ Ordered(AppendOk(l, new, seq, r)) /\ AppendOk(l, new, seq, r) # {}
         /\ Backed(AppendOk(l, new, seq, r), W \cup {seq})
         /\ NewestSeq(AppendOk(l, new, seq, r)) = seq
<1> DEFINE m == AppendOk(l, new, seq, r)
<1>1. GoodLog(m)
  BY GoodAppend DEF Continues
<1>2. ASSUME NEW s \in l
      PROVE  /\ s.first \in Nat \ {0} /\ Len(s.recs) \in Nat /\ LastSeq(s) \in Nat
             /\ LastSeq(s) = s.first + Len(s.recs) - 1
             /\ s.first <= LastSeq(s) /\ LastSeq(s) < seq
  <2>1. s \in Segment /\ Len(s.recs) > 0
    BY DEF GoodLog, Ordered
  <2>2. /\ s.first \in Nat \ {0} /\ Len(s.recs) \in Nat /\ LastSeq(s) \in Nat
        /\ LastSeq(s) = s.first + Len(s.recs) - 1
    BY <2>1, SegmentFields
  <2>3. LastSeq(s) \in s.first..LastSeq(s)
    BY <2>1, <2>2
  <2>4. LastSeq(s) \in W
    BY <2>3 DEF Backed
  <2> QED BY <2>1, <2>2, <2>4 DEF Follows
<1>3. CASE new
  <2> DEFINE f == FreshSegment(seq, r)
  <2>1. f.first = seq /\ Len(f.recs) = 1 /\ LastSeq(f) = seq
    BY DEF FreshSegment, LastSeq
  <2>2. PICK k \in SUBSET l : m = k \cup {f}
    BY <1>3 DEF AppendOk, PushSegment
  <2>3. Ordered(k) /\ Backed(k, W)
    BY OrderedSubset
  <2> HIDE DEF m, f
  <2>4. Ordered(m)
    <3>1. ASSUME NEW s \in m PROVE Len(s.recs) > 0
      <4>1. s = f \/ s \in k
        BY <2>2
      <4>2. \A x \in k : Len(x.recs) > 0
        BY <2>3 DEF Ordered
      <4> QED BY <2>1, <4>1, <4>2
    <3>2. ASSUME NEW s \in m, NEW t \in m, s # t PROVE LastSeq(s) < t.first \/ LastSeq(t) < s.first
      <4>1. \A x \in k : LastSeq(x) < f.first
        BY <1>2, <2>1
      <4>2. CASE s = f \/ t = f
        BY <2>2, <3>2, <4>1, <4>2
      <4>3. CASE s # f /\ t # f
        BY <2>2, <2>3, <3>2, <4>3 DEF Ordered
      <4> QED BY <4>2, <4>3
    <3> QED BY <3>1, <3>2 DEF Ordered
  <2>5. Backed(m, W \cup {seq})
    BY <2>1, <2>2, <2>3 DEF Backed
  <2>6. f \in m /\ \A s \in m : s.first <= f.first
    BY <1>2, <2>1, <2>2
  <2>7. NewestSeq(m) = seq
    BY <1>1, <2>1, <2>4, <2>6, NewestIs
  <2> QED BY <2>4, <2>5, <2>6, <2>7 DEF m
<1>4. CASE ~new
  <2> DEFINE n == NewestSeg(l)
             e == Extended(n, r)
  <2>1. n \in l /\ n \in Segment /\ LastSeq(n) + 1 = seq /\ \A s \in l : s.first <= n.first
    BY <1>4, NewestExists DEF GoodLog, Continues
  <2>2. m = (l \ {n}) \cup {e}
    BY <1>4 DEF AppendOk
  <2> HIDE DEF n, m
  <2>3. e.first = n.first /\ Len(e.recs) = Len(n.recs) + 1 /\ LastSeq(e) = seq
    <3>1. n.recs \in Seq(Record) /\ Len(n.recs) \in Nat /\ n.first \in Nat
      BY <2>1, SegmentFields
    <3> DEFINE recs   == Append(n.recs, r)
               reach  == IF n.garbage THEN n.reach ELSE n.reach + 1
               sealed == n.sealed \/ Len(n.recs) + 1 >= SegCap
    <3>2. Len(recs) = Len(n.recs) + 1
      BY <3>1, AppendProperties
    <3>3. e = [n EXCEPT !.recs = recs, !.reach = reach, !.sealed = sealed]
      BY DEF Extended
    <3> HIDE DEF recs, reach, sealed, e
    <3>4. e.first = n.first /\ e.recs = recs
      BY <2>1, <3>3 DEF Segment
    <3> QED BY <2>1, <3>1, <3>2, <3>4 DEF LastSeq
  <2> HIDE DEF e
  <2>4. ASSUME NEW t \in l, t # n PROVE LastSeq(t) < n.first
    <3>1. LastSeq(t) < n.first \/ LastSeq(n) < t.first
      BY <2>1, <2>4 DEF Ordered
    <3> QED BY <1>2, <2>1, <3>1
  <2>5. n.first \in Nat /\ Len(n.recs) \in Nat /\ n.first <= LastSeq(n) /\ LastSeq(n) \in Nat
    BY <1>2, <2>1
  <2>6. Ordered(m)
    <3>1. \A s \in m : Len(s.recs) > 0
      BY <2>2, <2>3, <2>5 DEF Ordered
    <3>2. ASSUME NEW s \in m, NEW t \in m, s # t PROVE LastSeq(s) < t.first \/ LastSeq(t) < s.first
      <4>1. CASE s = e
        BY <2>2, <2>3, <2>4, <3>2, <4>1
      <4>2. CASE t = e
        BY <2>2, <2>3, <2>4, <3>2, <4>2
      <4>3. CASE s # e /\ t # e
        BY <2>2, <3>2, <4>3 DEF Ordered
      <4> QED BY <4>1, <4>2, <4>3
    <3> QED BY <3>1, <3>2 DEF Ordered
  <2>7. Backed(m, W \cup {seq})
    <3>1. n.first..LastSeq(n) \subseteq W
      BY <2>1 DEF Backed
    <3>2. e.first..LastSeq(e) \subseteq (n.first..LastSeq(n)) \cup {seq}
      BY <2>1, <2>3, <2>5
    <3>3. e.first..LastSeq(e) \subseteq W \cup {seq}
      BY <3>1, <3>2
    <3> QED BY <2>2, <3>3 DEF Backed
  <2>8. e \in m /\ \A s \in m : s.first <= e.first
    BY <2>1, <2>2, <2>3, <2>5
  <2>9. NewestSeq(m) = seq
    BY <1>1, <2>3, <2>6, <2>8, NewestIs
  <2> QED BY <2>6, <2>7, <2>8, <2>9 DEF m
<1> QED
  BY <1>3, <1>4

-------------------------------------------------------------------------------
(* Records                                                                   *)

(* A BOOT declares a range that ends just below its own seq.                 *)
BootAt(r, q) == r.kind = "BOOT" => r.from \in Nat \ {0} /\ r.to = q - 1
BootsSound(l) == \A s \in l : \A i \in 1..Len(s.recs) : BootAt(s.recs[i], s.first + i - 1)

LEMMA OldestExists ==
  ASSUME NEW l \in SUBSET Segment, l # {}, IsFiniteSet(l)
  PROVE  OldestSeg(l) \in l /\ \A s \in l : OldestSeg(l).first <= s.first
<1> DEFINE key == [s \in l |-> 0 - s.first]
<1>1. key \in [l -> Int] /\ \A s \in l : s.first \in Nat
  BY DEF Segment
<1>2. \A s \in l : key[s] = 0 - s.first
  OBVIOUS
<1> HIDE DEF key
<1>3. PICK m \in l : \A s \in l : key[s] <= key[m]
  BY <1>1, LargestKeyExists
<1>4. \A s \in l : m.first <= s.first
  BY <1>1, <1>2, <1>3
<1> QED
  BY <1>4 DEF OldestSeg

LEMMA OldestSeqType ==
  ASSUME NEW l, GoodLog(l)
  PROVE  OldestSeq(l) \in Nat /\ (l # {} => OldestSeq(l) \in Nat \ {0})
BY OldestExists, SegmentFields DEF OldestSeq, GoodLog

LEMMA RecordAtHeld ==
  ASSUME NEW l, GoodLog(l), BootsSound(l), NEW q \in Nat, Holds(l, q)
  PROVE  RecordAt(l, q) \in Record /\ BootAt(RecordAt(l, q), q)
<1> DEFINE s == SegmentOf(l, q)
           i == q - s.first + 1
<1>1. s \in l /\ s.first <= q /\ q <= LastSeq(s)
  BY DEF Holds, SegmentOf, Covers
<1> HIDE DEF s
<1>2. s.first \in Nat \ {0} /\ s.recs \in Seq(Record) /\ Len(s.recs) \in Nat
      /\ LastSeq(s) = s.first + Len(s.recs) - 1
  BY <1>1, SegmentFields DEF GoodLog
<1>3. i \in 1..Len(s.recs) /\ s.first + i - 1 = q
  BY <1>1, <1>2
<1>4. RecordAt(l, q) = s.recs[i]
  BY DEF RecordAt, s
<1> HIDE DEF i
<1>5. s.recs[i] \in Record
  BY <1>2, <1>3, ElementOfSeq
<1>6. BootAt(s.recs[i], s.first + i - 1)
  BY <1>1, <1>3 DEF BootsSound
<1> QED
  BY <1>3, <1>4, <1>5, <1>6

LEMMA ReadableIsHeld ==
  ASSUME NEW l, NEW q, ReadStatus(l, q) = "Ok"
  PROVE  Holds(l, q)
BY DEF ReadStatus

LEMMA BootsSoundSubset ==
  ASSUME NEW l, BootsSound(l), NEW k \in SUBSET l
  PROVE  BootsSound(k)
BY DEF BootsSound

LEMMA MountBootsSound ==
  ASSUME NEW l, GoodLog(l), BootsSound(l)
  PROVE  BootsSound(Mount(l))
<1> SUFFICES ASSUME NEW s \in Mount(l), NEW i \in 1..Len(s.recs)
             PROVE  BootAt(s.recs[i], s.first + i - 1)
  BY DEF BootsSound
<1>1. PICK x \in l : x.reach > 0 /\ s = Rescanned(x)
  BY DEF Mount, Valid
<1>2. x \in Segment /\ x.reach \in Nat /\ x.reach <= Len(x.recs) /\ x.recs \in Seq(Record)
      /\ Len(x.recs) \in Nat
  BY <1>1, SegmentFields DEF GoodLog, Segment
<1> DEFINE recs   == SubSeq(x.recs, 1, x.reach)
           sealed == x.garbage \/ x.reach >= SegCap
<1>3. Len(recs) = x.reach /\ \A j \in 1..x.reach : recs[j] = x.recs[j]
  <2>1. 1..x.reach \subseteq 1..Len(x.recs)
    BY <1>2
  <2> QED BY <1>2, <2>1, SubSeqProperties
<1>4. s = [x EXCEPT !.recs = recs, !.sealed = sealed]
  BY <1>1 DEF Rescanned
<1> HIDE DEF recs, sealed
<1>5. s.first = x.first /\ s.recs = recs
  BY <1>2, <1>4 DEF Segment
<1>6. i \in 1..Len(x.recs) /\ s.recs[i] = x.recs[i]
  BY <1>2, <1>3, <1>5
<1>7. BootAt(x.recs[i], x.first + i - 1)
  BY <1>1, <1>6 DEF BootsSound
<1> QED
  BY <1>5, <1>6, <1>7

LEMMA AppendBootsSound ==
  ASSUME NEW l, GoodLog(l), BootsSound(l), NEW seq \in Nat \ {0}, NEW r \in Record, BootAt(r, seq),
         NEW new \in BOOLEAN, new \/ Continues(l, seq)
  PROVE  BootsSound(AppendOk(l, new, seq, r))
<1>1. CASE new
  <2> DEFINE f == FreshSegment(seq, r)
  <2>1. f.first = seq /\ Len(f.recs) = 1 /\ f.recs[1] = r
    BY DEF FreshSegment
  <2>2. PICK k \in SUBSET l : AppendOk(l, new, seq, r) = k \cup {f}
    BY <1>1 DEF AppendOk, PushSegment
  <2> HIDE DEF f
  <2>3. \A i \in 1..Len(f.recs) : BootAt(f.recs[i], f.first + i - 1)
    BY <2>1
  <2> QED BY <2>2, <2>3 DEF BootsSound
<1>2. CASE ~new
  <2> DEFINE n == NewestSeg(l)
             e == Extended(n, r)
  <2>1. n \in l /\ n \in Segment /\ LastSeq(n) + 1 = seq
    BY <1>2, NewestExists DEF GoodLog, Continues
  <2>2. AppendOk(l, new, seq, r) = (l \ {n}) \cup {e}
    BY <1>2 DEF AppendOk
  <2> HIDE DEF n
  <2>3. n.recs \in Seq(Record) /\ Len(n.recs) \in Nat /\ n.first \in Nat
        /\ LastSeq(n) = n.first + Len(n.recs) - 1
    BY <2>1, SegmentFields
  <2> DEFINE recs   == Append(n.recs, r)
             reach  == IF n.garbage THEN n.reach ELSE n.reach + 1
             sealed == n.sealed \/ Len(n.recs) + 1 >= SegCap
  <2>4. /\ Len(recs) = Len(n.recs) + 1 /\ recs[Len(n.recs) + 1] = r
        /\ \A i \in 1..Len(n.recs) : recs[i] = n.recs[i]
    BY <2>3, AppendProperties
  <2>5. e = [n EXCEPT !.recs = recs, !.reach = reach, !.sealed = sealed]
    BY DEF Extended
  <2> HIDE DEF recs, reach, sealed, e
  <2>6. e.first = n.first /\ e.recs = recs
    BY <2>1, <2>5 DEF Segment
  <2>7. ASSUME NEW i \in 1..Len(e.recs) PROVE BootAt(e.recs[i], e.first + i - 1)
    <3>1. CASE i = Len(n.recs) + 1
      BY <2>1, <2>3, <2>4, <2>6, <3>1
    <3>2. CASE i # Len(n.recs) + 1
      <4>1. i \in 1..Len(n.recs)
        BY <2>3, <2>4, <2>6, <3>2
      <4> QED BY <2>1, <2>4, <2>6, <4>1 DEF BootsSound
    <3> QED BY <3>1, <3>2
  <2> QED BY <2>2, <2>7 DEF BootsSound
<1> QED
  BY <1>1, <1>2

-------------------------------------------------------------------------------
(* What a log still holds                                                    *)

LEMMA OverflowCovers ==
  ASSUME NEW old \in Nat, NEW before, GoodLog(before), NEW after, NEW s \in before,
         \A t \in after : t.first # s.first
  PROVE  LastSeq(s) <= OverflowAfter(old, before, after)
<1> DEFINE gone == {x \in before : \A t \in after : t.first # x.first}
           seqs == {LastSeq(x) : x \in gone}
           f    == [x \in gone |-> LastSeq(x)]
           all  == {old} \cup seqs
<1>1. IsFiniteSet(gone) /\ gone \subseteq Segment
  BY FS_Subset DEF GoodLog
<1>2. \A x \in gone : LastSeq(x) \in Nat
  BY <1>1, LastSeqType
<1>3. f \in Surjection(gone, seqs)
  BY DEF Surjection
<1>4. IsFiniteSet(seqs)
  BY <1>1, <1>3, FS_Surjection
<1>5. all = seqs \cup {old}
  OBVIOUS
<1>6. IsFiniteSet(all)
  BY <1>4, <1>5, FS_AddElement
<1>7. all \in SUBSET Int /\ all # {} /\ LastSeq(s) \in all
  BY <1>2
<1>8. OverflowAfter(old, before, after) = Max(all)
  BY DEF OverflowAfter
<1> HIDE DEF all
<1> QED
  BY <1>6, <1>7, <1>8, MaxOfFinite

(* A segment one record longer.                                              *)
LEMMA ExtendedSegment ==
  ASSUME NEW n \in Segment, NEW r \in Record
  PROVE  /\ Extended(n, r).first = n.first /\ Extended(n, r).garbage = n.garbage
         /\ Extended(n, r).recs = Append(n.recs, r)
         /\ Len(Extended(n, r).recs) = Len(n.recs) + 1
         /\ Extended(n, r).recs[Len(n.recs) + 1] = r
         /\ \A i \in 1..Len(n.recs) : Extended(n, r).recs[i] = n.recs[i]
         /\ Extended(n, r).reach = IF n.garbage THEN n.reach ELSE n.reach + 1
         /\ LastSeq(Extended(n, r)) = LastSeq(n) + 1
<1> DEFINE recs   == Append(n.recs, r)
           reach  == IF n.garbage THEN n.reach ELSE n.reach + 1
           sealed == n.sealed \/ Len(n.recs) + 1 >= SegCap
           e      == Extended(n, r)
<1>1. n.recs \in Seq(Record) /\ Len(n.recs) \in Nat /\ n.first \in Nat
      /\ LastSeq(n) = n.first + Len(n.recs) - 1
  BY SegmentFields
<1>2. /\ Len(recs) = Len(n.recs) + 1 /\ recs[Len(n.recs) + 1] = r
      /\ \A i \in 1..Len(n.recs) : recs[i] = n.recs[i]
  BY <1>1, AppendProperties
<1>3. e = [n EXCEPT !.recs = recs, !.reach = reach, !.sealed = sealed]
  BY DEF Extended
<1> HIDE DEF recs, reach, sealed, e
<1>4. e.first = n.first /\ e.garbage = n.garbage /\ e.recs = recs /\ e.reach = reach
  BY <1>3 DEF Segment
<1>5. LastSeq(e) = LastSeq(n) + 1
  BY <1>1, <1>2, <1>4 DEF LastSeq
<1> QED
  BY <1>2, <1>4, <1>5 DEF e, recs, reach

(* After the discards down to k and an append, a segment whose file is still *)
(* there holds what it held.                                                 *)
LEMMA AppendKeepsSegment ==
  ASSUME NEW l, GoodLog(l), Ordered(l), NEW W, Backed(l, W), NEW k \in SUBSET l,
         NEW seq \in Nat \ {0}, Follows(seq, W), NEW r \in Record, NEW new \in BOOLEAN, new \/ k # {},
         NEW s \in l, NEW t \in AppendOk(k, new, seq, r), t.first = s.first,
         NEW q \in Nat, Covers(s, q)
  PROVE  Holds(AppendOk(k, new, seq, r), q)
<1>1. /\ s.first \in Nat \ {0} /\ Len(s.recs) \in Nat /\ LastSeq(s) \in Nat
      /\ LastSeq(s) = s.first + Len(s.recs) - 1 /\ Len(s.recs) > 0
  BY SegmentFields DEF GoodLog, Ordered
<1>2. s.first < seq
  <2>1. s.first \in s.first..LastSeq(s)
    BY <1>1
  <2> QED BY <2>1 DEF Backed, Follows
<1>3. Covers(t, q)
  <2>1. CASE t \in k
    <3>1. t = s
      BY <2>1, FirstsDiffer DEF GoodLog
    <3> QED BY <3>1
  <2>2. CASE t \notin k /\ new
    <3>1. t = FreshSegment(seq, r)
      BY <2>2 DEF AppendOk, PushSegment
    <3>2. t.first = seq
      BY <3>1 DEF FreshSegment
    <3> QED BY <1>1, <1>2, <3>2
  <2>3. CASE t \notin k /\ ~new
    <3> DEFINE n == NewestSeg(k)
    <3>1. n \in k /\ n \in Segment
      BY <2>3, NewestExists, GoodSubset DEF GoodLog
    <3>2. t = Extended(n, r)
      BY <2>3 DEF AppendOk
    <3> HIDE DEF n
    <3>3. t.first = n.first /\ LastSeq(t) = LastSeq(n) + 1 /\ LastSeq(n) \in Nat
      BY <3>1, <3>2, ExtendedSegment, LastSeqType
    <3>4. n = s
      BY <3>1, <3>3, FirstsDiffer DEF GoodLog
    <3> QED BY <1>1, <3>3, <3>4 DEF Covers
  <2> QED BY <2>1, <2>2, <2>3
<1> QED
  BY <1>3 DEF Holds

(* A write loses no seq without a report: it is still held, or overflowUpTo  *)
(* covers it.                                                                *)
LEMMA AppendReports ==
  ASSUME NEW l, GoodLog(l), Ordered(l), NEW W \in SUBSET Nat, Backed(l, W), NEW k \in EnsureSpace(l),
         NEW seq \in Nat \ {0}, Follows(seq, W), NEW r \in Record, NEW new \in BOOLEAN, new \/ l # {},
         NEW q \in Nat, Holds(l, q), NEW old \in Nat
  PROVE  \/ Holds(AppendOk(k, new, seq, r), q)
         \/ q <= OverflowAfter(old, l, AppendOk(k, new, seq, r))
<1> DEFINE m == AppendOk(k, new, seq, r)
<1>1. PICK s \in l : Covers(s, q)
  BY DEF Holds
<1>2. k \in SUBSET l /\ (l # {} => k # {})
  BY GoodEnsureSpace DEF EnsureSpace, Remainders, From
<1>3. CASE \E t \in m : t.first = s.first
  BY <1>1, <1>2, <1>3, AppendKeepsSegment
<1>4. CASE \A t \in m : t.first # s.first
  <2> HIDE DEF m
  <2>1. LastSeq(s) <= OverflowAfter(old, l, m)
    BY <1>4, OverflowCovers
  <2>2. s.first <= q /\ q <= LastSeq(s) /\ LastSeq(s) \in Nat /\ OverflowAfter(old, l, m) \in Nat
    BY <1>1, LastSeqType, OverflowType DEF Covers, GoodLog
  <2> DEFINE up == OverflowAfter(old, l, m)
  <2>3. up \in Nat /\ LastSeq(s) <= up
    BY <2>1, <2>2
  <2> HIDE DEF up
  <2>4. q <= up
    BY <2>2, <2>3
  <2> QED BY <2>4 DEF m, up
<1> QED
  BY <1>3, <1>4

-------------------------------------------------------------------------------
(* The log of a sound medium                                                 *)

SoundSegment(s) ==
  s.reach = Len(s.recs) /\ (s.garbage => s.sealed) /\ \A i \in 1..Len(s.recs) : s.recs[i].good
Intact(l) == \A s \in l : SoundSegment(s)

(* From the oldest segment on, every seq of W is held.                       *)
NoHoles(l, W) == \A q \in W : \A s \in l : s.first <= q => Holds(l, q)

(* A jump of the seqs from p to the next segment s, and what declares it.    *)
Neighbours(l, p, s) == p.first < s.first /\ \A t \in l : t.first < s.first => t.first <= p.first
JumpDeclared(p, s) ==
  /\ LastSeq(p) + 1 < s.first => s.recs[1].kind = "BOOT"
  /\ s.recs[1].kind = "BOOT" => s.recs[1].from = LastSeq(p) + 1 /\ s.recs[1].to = s.first - 1
JumpsIn(l) == \A p, s \in l : Neighbours(l, p, s) => JumpDeclared(p, s)

(* No BOOT of the log declares a seq of W.                                   *)
BootsUnused(l, W) ==
  \A s \in l : \A i \in 1..Len(s.recs) :
    s.recs[i].kind = "BOOT" => s.recs[i].from..s.recs[i].to \cap W = {}

(* The log answers for exactly the seqs W that were written and not discarded*)
(* from its old end.                                                         *)
Exact(l, W) ==
  /\ l = {} <=> W = {}
  /\ \A q \in W : q <= NewestSeq(l)
  /\ Intact(l) /\ NoHoles(l, W) /\ JumpsIn(l) /\ BootsSound(l) /\ BootsUnused(l, W)

(* k is l without some of its oldest segments.                               *)
NewEnd(k, l) == k \in SUBSET l /\ \A s \in k, t \in l : s.first <= t.first => t \in k

LEMMA NewEndKeepsNewest ==
  ASSUME NEW l, GoodLog(l), Ordered(l), NEW k, NewEnd(k, l), k # {}
  PROVE  GoodLog(k) /\ Ordered(k) /\ NewestSeg(k) = NewestSeg(l) /\ NewestSeq(k) = NewestSeq(l)
<1>1. k \in SUBSET l /\ l # {}
  BY DEF NewEnd
<1>2. GoodLog(k) /\ Ordered(k)
  BY <1>1, GoodSubset, OrderedSubset
<1> DEFINE n == NewestSeg(l)
<1>3. n \in l /\ \A s \in l : s.first <= n.first
  BY <1>1, NewestExists DEF GoodLog
<1> HIDE DEF n
<1>4. n \in k
  BY <1>1, <1>3 DEF NewEnd
<1>5. NewestSeg(k) = n /\ NewestSeq(k) = LastSeq(n)
  BY <1>1, <1>2, <1>3, <1>4, NewestIs
<1> QED
  BY <1>1, <1>2, <1>5 DEF n, NewestSeq

(* What the discards leave of an exact log is exact.                         *)
LEMMA NewEndExact ==
  ASSUME NEW l, GoodLog(l), Ordered(l), NEW W \in SUBSET Nat, Exact(l, W),
         NEW k, NewEnd(k, l), l # {} => k # {}
  PROVE  Exact(k, W)
<1>1. k \in SUBSET l
  BY DEF NewEnd
<1>2. ASSUME NEW s \in l
      PROVE  /\ s.first \in Nat \ {0} /\ Len(s.recs) \in Nat /\ LastSeq(s) \in Nat
             /\ LastSeq(s) = s.first + Len(s.recs) - 1 /\ Len(s.recs) > 0
  BY SegmentFields DEF GoodLog, Ordered
<1>3. l = {} <=> k = {}
  BY <1>1
<1>4. \A q \in W : q <= NewestSeq(k)
  <2>1. CASE k = {}
    BY <1>3, <2>1 DEF Exact
  <2>2. CASE k # {}
    BY <2>2, NewEndKeepsNewest DEF Exact
  <2> QED BY <2>1, <2>2
<1>5. NoHoles(k, W)
  <2> SUFFICES ASSUME NEW q \in W, NEW s \in k, s.first <= q PROVE Holds(k, q)
    BY DEF NoHoles
  <2>1. PICK t \in l : Covers(t, q)
    BY <1>1 DEF Exact, NoHoles, Holds
  <2>2. CASE s.first <= t.first
    BY <1>1, <2>1, <2>2 DEF NewEnd, Holds
  <2>3. CASE t.first < s.first
    <3>1. s \in l /\ s # t /\ q \in Nat
      BY <1>1, <1>2, <2>1, <2>3
    <3>2. LastSeq(s) < t.first \/ LastSeq(t) < s.first
      BY <2>1, <3>1 DEF Ordered
    <3>3. t.first <= q /\ q <= LastSeq(t)
      BY <2>1 DEF Covers
    <3> QED BY <1>2, <2>1, <2>3, <3>1, <3>2, <3>3
  <2> QED BY <1>1, <1>2, <2>1, <2>2, <2>3
<1>6. JumpsIn(k)
  <2> SUFFICES ASSUME NEW p \in k, NEW s \in k, Neighbours(k, p, s) PROVE JumpDeclared(p, s)
    BY DEF JumpsIn
  <2>1. Neighbours(l, p, s)
    <3>1. ASSUME NEW t \in l, t.first < s.first PROVE t.first <= p.first
      <4>1. CASE t \in k
        BY <3>1, <4>1 DEF Neighbours
      <4>2. CASE t \notin k
        <5>1. ~(p.first <= t.first)
          BY <4>2 DEF NewEnd
        <5> QED BY <1>1, <1>2, <5>1
      <4> QED BY <4>1, <4>2
    <3> QED BY <3>1 DEF Neighbours
  <2> QED BY <1>1, <2>1 DEF Exact, JumpsIn
<1>7. Intact(k) /\ BootsSound(k) /\ BootsUnused(k, W)
  BY <1>1 DEF Exact, Intact, BootsSound, BootsUnused
<1> QED
  BY <1>3, <1>4, <1>5, <1>6, <1>7 DEF Exact

(* The same records in the same files, whatever their flags.                 *)
Twin(s, t) == t.first = s.first /\ t.recs = s.recs
SameContents(l, m) == /\ \A t \in m : \E s \in l : Twin(s, t)
                      /\ \A s \in l : \E t \in m : Twin(s, t)

LEMMA SameContentsExact ==
  ASSUME NEW l, GoodLog(l), Ordered(l), NEW W \in SUBSET Nat, Exact(l, W),
         NEW m, GoodLog(m), Ordered(m), SameContents(l, m), Intact(m)
  PROVE  Exact(m, W)
<1>1. ASSUME NEW s, NEW t, Twin(s, t)
      PROVE  /\ t.first = s.first /\ t.recs = s.recs /\ LastSeq(t) = LastSeq(s)
             /\ \A q : Covers(t, q) <=> Covers(s, q)
  BY <1>1 DEF Twin, LastSeq, Covers
<1>2. l = {} <=> m = {}
  BY DEF SameContents
<1>3. \A q \in W : q <= NewestSeq(m)
  <2>1. CASE l = {}
    BY <2>1 DEF Exact
  <2>2. CASE l # {}
    <3> DEFINE n == NewestSeg(l)
    <3>1. n \in l /\ \A s \in l : s.first <= n.first
      BY <2>2, NewestExists DEF GoodLog
    <3>2. NewestSeq(l) = LastSeq(n)
      BY <2>2 DEF NewestSeq
    <3> HIDE DEF n
    <3>3. PICK t \in m : Twin(n, t)
      BY <3>1 DEF SameContents
    <3>4. \A s \in m : s.first <= t.first
      BY <1>1, <3>1, <3>3 DEF SameContents
    <3>5. NewestSeq(m) = LastSeq(t)
      BY <3>4, NewestIs
    <3> QED BY <1>1, <3>2, <3>3, <3>5 DEF Exact
  <2> QED BY <2>1, <2>2
<1>4. NoHoles(m, W)
  <2> SUFFICES ASSUME NEW q \in W, NEW t \in m, t.first <= q PROVE Holds(m, q)
    BY DEF NoHoles
  <2>1. PICK s \in l : Twin(s, t)
    BY DEF SameContents
  <2>2. PICK x \in l : Covers(x, q)
    BY <1>1, <2>1 DEF Exact, NoHoles, Holds
  <2>3. PICK y \in m : Twin(x, y)
    BY <2>2 DEF SameContents
  <2> QED BY <1>1, <2>2, <2>3 DEF Holds
<1>5. JumpsIn(m)
  <2> SUFFICES ASSUME NEW p \in m, NEW s \in m, Neighbours(m, p, s) PROVE JumpDeclared(p, s)
    BY DEF JumpsIn
  <2>1. PICK u \in l : Twin(u, p)
    BY DEF SameContents
  <2>2. PICK v \in l : Twin(v, s)
    BY DEF SameContents
  <2>3. Neighbours(l, u, v)
    <3>1. ASSUME NEW t \in l, t.first < v.first PROVE t.first <= u.first
      <4>1. PICK x \in m : Twin(t, x)
        BY DEF SameContents
      <4> QED BY <1>1, <2>1, <2>2, <3>1, <4>1 DEF Neighbours
    <3> QED BY <1>1, <2>1, <2>2, <3>1 DEF Neighbours
  <2>4. JumpDeclared(u, v)
    BY <2>3 DEF Exact, JumpsIn
  <2> QED BY <1>1, <2>1, <2>2, <2>4 DEF JumpDeclared
<1>6. BootsSound(m) /\ BootsUnused(m, W)
  <2> SUFFICES ASSUME NEW t \in m, NEW i \in 1..Len(t.recs)
               PROVE  /\ BootAt(t.recs[i], t.first + i - 1)
                      /\ t.recs[i].kind = "BOOT" => t.recs[i].from..t.recs[i].to \cap W = {}
    BY DEF BootsSound, BootsUnused
  <2>1. PICK s \in l : Twin(s, t)
    BY DEF SameContents
  <2> QED BY <1>1, <2>1 DEF Exact, BootsSound, BootsUnused
<1> QED
  BY <1>2, <1>3, <1>4, <1>5, <1>6 DEF Exact

(* Discards                                                                  *)
LEMMA DeleteUpToNewEnd ==
  ASSUME NEW l, GoodLog(l), Ordered(l), NEW a \in Nat
  PROVE  NewEnd(DeleteUpTo(l, a), l) /\ (l # {} => DeleteUpTo(l, a) # {})
<1> DEFINE k == DeleteUpTo(l, a)
           n == NewestSeg(l)
<1>1. k = {s \in l : LastSeq(s) > a \/ s = n}
  BY DEF DeleteUpTo
<1>2. ASSUME NEW s \in l
      PROVE  s.first \in Nat \ {0} /\ LastSeq(s) \in Nat /\ s.first <= LastSeq(s)
  BY SegmentFields DEF GoodLog, Ordered
<1>3. l # {} => n \in l /\ \A s \in l : s.first <= n.first
  BY NewestExists DEF GoodLog
<1> HIDE DEF k, n
<1>4. ASSUME NEW s \in k, NEW t \in l, s.first <= t.first PROVE t \in k
  <2>1. s \in l /\ (LastSeq(s) > a \/ s = n)
    BY <1>1
  <2>2. CASE s = t
    BY <2>2
  <2>3. CASE s # t
    <3>1. s.first # t.first
      BY <2>1, <2>3, FirstsDiffer DEF GoodLog
    <3>2. s # n
      BY <1>2, <1>3, <1>4, <2>1, <3>1
    <3>3. LastSeq(s) < t.first \/ LastSeq(t) < s.first
      BY <2>1, <2>3 DEF Ordered
    <3>4. LastSeq(t) > a
      BY <1>2, <1>4, <2>1, <3>1, <3>2, <3>3
    <3> QED BY <1>1, <3>4
  <2> QED BY <2>2, <2>3
<1> QED
  BY <1>1, <1>3, <1>4 DEF NewEnd, k

LEMMA SpaceNewEnd ==
  ASSUME NEW l, GoodLog(l), NEW k \in EnsureSpace(l)
  PROVE  NewEnd(k, l) /\ (l # {} => k # {})
<1>1. k = l \/ \E s \in l : k = From(l, s)
  BY DEF EnsureSpace, Remainders
<1>2. \A s \in l : s.first \in Nat
  BY SegmentFields DEF GoodLog
<1>3. CASE k = l
  BY <1>3 DEF NewEnd
<1>4. CASE \E s \in l : k = From(l, s)
  BY <1>2, <1>4 DEF NewEnd, From
<1> QED
  BY <1>1, <1>3, <1>4

(* What makes room for a new file in a full index.                           *)
LEMMA PushNewEnd ==
  ASSUME NEW l, GoodLog(l), Ordered(l), NEW s
  PROVE  \E k : NewEnd(k, l) /\ (l # {} => k # {}) /\ PushSegment(l, s) = k \cup {s}
<1>1. CASE Cardinality(l) # MaxSegs \/ l = {}
  <2>1. PushSegment(l, s) = l \cup {s}
    BY <1>1 DEF PushSegment
  <2> QED BY <2>1 DEF NewEnd
<1>2. CASE Cardinality(l) = MaxSegs /\ l # {}
  <2> DEFINE o == OldestSeg(l)
             k == l \ {o}
  <2>1. o \in l /\ \A x \in l : o.first <= x.first
    BY <1>2, OldestExists DEF GoodLog
  <2> HIDE DEF o
  <2>2. NewEnd(k, l)
    <3> SUFFICES ASSUME NEW x \in k, NEW t \in l, x.first <= t.first PROVE t # o
      BY DEF NewEnd
    <3>1. x.first \in Nat /\ o.first \in Nat /\ x \in l /\ x # o
      BY <2>1, SegmentFields DEF GoodLog
    <3>2. x.first # o.first
      BY <2>1, <3>1, FirstsDiffer DEF GoodLog
    <3> QED BY <2>1, <3>1, <3>2
  <2>3. k # {}
    <3> SUFFICES ASSUME k = {} PROVE FALSE
      OBVIOUS
    <3>1. l = {o}
      BY <2>1
    <3>2. Cardinality(l) = 1
      BY <3>1, FS_Singleton
    <3> QED BY <1>2, <3>2, LogAssumption
  <2>4. PushSegment(l, s) = k \cup {s}
    BY <1>2 DEF PushSegment, o
  <2> QED BY <2>2, <2>3, <2>4
<1> QED
  BY <1>1, <1>2

(* Start-up                                                                  *)
LEMMA RescannedSound ==
  ASSUME NEW s \in Segment, SoundSegment(s), Len(s.recs) > 0
  PROVE  s.reach > 0 /\ Twin(s, Rescanned(s)) /\ SoundSegment(Rescanned(s))
<1>1. s.recs \in Seq(Record) /\ s.reach = Len(s.recs) /\ Len(s.recs) \in Nat
  BY SegmentFields DEF SoundSegment
<1> DEFINE recs   == SubSeq(s.recs, 1, s.reach)
           sealed == s.garbage \/ s.reach >= SegCap
           z      == Rescanned(s)
<1>2. recs = s.recs
  <2>1. /\ Len(recs) = Len(s.recs) /\ recs \in Seq(Record)
        /\ \A i \in 1..Len(s.recs) : recs[i] = s.recs[i]
    BY <1>1, SubSeqProperties
  <2> HIDE DEF recs
  <2> QED BY <1>1, <2>1, SeqEqual
<1>3. z = [s EXCEPT !.recs = recs, !.sealed = sealed]
  BY DEF Rescanned
<1>4. s.garbage => sealed
  OBVIOUS
<1> HIDE DEF recs, sealed, z
<1>5. z.first = s.first /\ z.recs = recs /\ z.reach = s.reach /\ z.garbage = s.garbage
      /\ z.sealed = sealed
  BY <1>3 DEF Segment
<1>6. Twin(s, z)
  BY <1>2, <1>5 DEF Twin
<1>7. SoundSegment(z)
  BY <1>2, <1>4, <1>5 DEF SoundSegment
<1> QED
  BY <1>1, <1>6, <1>7 DEF z

LEMMA ValidExact ==
  ASSUME NEW l, GoodLog(l), Ordered(l), Intact(l)
  PROVE  GoodLog(Valid(l)) /\ Ordered(Valid(l)) /\ SameContents(l, Valid(l)) /\ Intact(Valid(l))
<1>1. ASSUME NEW s \in l
      PROVE  /\ s \in Segment /\ Len(s.recs) > 0 /\ s.reach > 0
             /\ Twin(s, Rescanned(s)) /\ SoundSegment(Rescanned(s))
  BY RescannedSound DEF GoodLog, Ordered, Intact
<1> DEFINE m == Valid(l)
<1>2. m = {Rescanned(s) : s \in l}
  BY <1>1 DEF Valid
<1>3. GoodLog(m)
  BY GoodValid
<1> HIDE DEF m
<1>4. SameContents(l, m) /\ Intact(m)
  BY <1>1, <1>2 DEF SameContents, Intact
<1>5. Ordered(m)
  <2>1. ASSUME NEW t \in m PROVE Len(t.recs) > 0
    BY <1>1, <1>2, <2>1 DEF Twin
  <2>2. ASSUME NEW s \in m, NEW t \in m, s # t PROVE LastSeq(s) < t.first \/ LastSeq(t) < s.first
    <3>1. PICK x \in l : s = Rescanned(x)
      BY <1>2
    <3>2. PICK y \in l : t = Rescanned(y)
      BY <1>2
    <3>3. LastSeq(x) < y.first \/ LastSeq(y) < x.first
      BY <2>2, <3>1, <3>2 DEF Ordered
    <3>4. s.first = x.first /\ t.first = y.first /\ LastSeq(s) = LastSeq(x) /\ LastSeq(t) = LastSeq(y)
      BY <1>1, <3>1, <3>2 DEF Twin, LastSeq
    <3> QED BY <3>3, <3>4
  <2> QED BY <2>1, <2>2 DEF Ordered
<1> QED
  BY <1>3, <1>4, <1>5 DEF m

(* How many segments and blocks are left only falls with the discards.       *)
LEMMA FewerBlocks ==
  ASSUME NEW l, GoodLog(l), NEW k \in SUBSET l, Mountable(l)
  PROVE  Mountable(k)
<1> DEFINE Recs(x) == UNION {{s} \X (1..Len(s.recs)) : s \in x}
<1>1. IsFiniteSet(k) /\ Cardinality(k) <= Cardinality(l) /\ Cardinality(k) \in Nat
      /\ Cardinality(l) \in Nat
  BY FS_Subset, FS_CardinalityType DEF GoodLog
<1>2. IsFiniteSet(Recs(l))
  <2> DEFINE f == [s \in l |-> {s} \X (1..Len(s.recs))]
             F == {{s} \X (1..Len(s.recs)) : s \in l}
  <2>1. ASSUME NEW s \in l PROVE IsFiniteSet({s} \X (1..Len(s.recs)))
    <3>1. Len(s.recs) \in Nat
      BY SegmentFields DEF GoodLog
    <3>2. IsFiniteSet({s})
      BY FS_Singleton
    <3>3. IsFiniteSet(1..Len(s.recs))
      BY <3>1, FS_Interval
    <3> QED BY <3>2, <3>3, FS_Product
  <2>2. f \in Surjection(l, F)
    BY DEF Surjection
  <2>3. IsFiniteSet(F)
    BY <2>2, FS_Surjection DEF GoodLog
  <2> QED BY <2>1, <2>3, FS_UNION
<1>3. Recs(k) \in SUBSET Recs(l)
  OBVIOUS
<1>4. BlockCount(k) = Cardinality(Recs(k)) /\ BlockCount(l) = Cardinality(Recs(l))
  BY DEF BlockCount
<1> HIDE DEF Recs
<1>5. BlockCount(k) <= BlockCount(l) /\ BlockCount(k) \in Nat /\ BlockCount(l) \in Nat
  BY <1>2, <1>3, <1>4, FS_Subset, FS_CardinalityType
<1> QED
  BY <1>1, <1>5, LogAssumption DEF Mountable

LEMMA MountNewEnd ==
  ASSUME NEW l, GoodLog(Valid(l)), Ordered(Valid(l))
  PROVE  NewEnd(Mount(l), Valid(l)) /\ (Valid(l) # {} => Mount(l) # {})
<1> DEFINE v == Valid(l)
           k == Mount(l)
<1>1. k = {s \in v : Mountable(From(v, s))}
  BY DEF Mount
<1>2. GoodLog(v) /\ Ordered(v) /\ \A s \in v : s.first \in Nat
  BY SegmentFields DEF GoodLog
<1> HIDE DEF k, v
<1>3. ASSUME NEW s \in k, NEW t \in v, s.first <= t.first PROVE t \in k
  <2>1. From(v, t) \in SUBSET From(v, s) /\ From(v, s) \in SUBSET v /\ Mountable(From(v, s))
    BY <1>1, <1>2, <1>3 DEF From
  <2>2. GoodLog(From(v, s))
    BY <1>2, <2>1, GoodSubset
  <2>3. Mountable(From(v, t))
    BY <2>1, <2>2, FewerBlocks
  <2> QED BY <1>1, <2>3
<1>4. ASSUME v # {} PROVE k # {}
  <2> DEFINE n == NewestSeg(v)
  <2>1. n \in v /\ \A s \in v : s.first <= n.first
    BY <1>2, <1>4, NewestExists DEF GoodLog
  <2> HIDE DEF n
  <2>2. From(v, n) = {n}
    <3>1. \A t \in v : n.first <= t.first => t = n
      <4> SUFFICES ASSUME NEW t \in v, n.first <= t.first PROVE t = n
        OBVIOUS
      <4>1. t.first = n.first
        BY <1>2, <2>1
      <4> QED BY <1>2, <2>1, <4>1, FirstsDiffer DEF GoodLog
    <3> QED BY <1>2, <2>1, <3>1 DEF From
  <2>3. Cardinality(From(v, n)) = 1
    BY <2>2, FS_Singleton
  <2>4. Mountable(From(v, n))
    BY <2>3, LogAssumption DEF Mountable
  <2> QED BY <1>1, <2>1, <2>4
<1> QED
  BY <1>1, <1>3, <1>4 DEF NewEnd, k, v

(* Appends                                                                   *)

(* A record r that takes seq declares the jump from the newest seq, if any.  *)
Joins(l, seq, r) ==
  l # {} => /\ NewestSeq(l) + 1 < seq => r.kind = "BOOT"
            /\ r.kind = "BOOT" => r.from = NewestSeq(l) + 1

LEMMA AppendNewExact ==
  ASSUME NEW l, GoodLog(l), Ordered(l), NEW W \in SUBSET Nat, Backed(l, W), Exact(l, W),
         NEW seq \in Nat \ {0}, Follows(seq, W), NEW r \in Record, BootAt(r, seq), r.good,
         Joins(l, seq, r)
  PROVE  Exact(AppendOk(l, TRUE, seq, r), W \cup {seq})
<1> DEFINE m == AppendOk(l, TRUE, seq, r)
           V == W \cup {seq}
           f == FreshSegment(seq, r)
<1>1. PICK k : NewEnd(k, l) /\ (l # {} => k # {}) /\ m = k \cup {f}
  BY PushNewEnd DEF AppendOk
<1>2. f.first = seq /\ Len(f.recs) = 1 /\ LastSeq(f) = seq /\ f.recs[1] = r /\ SoundSegment(f)
  BY DEF FreshSegment, LastSeq, SoundSegment
<1>3. m # {} /\ NewestSeq(m) = seq /\ BootsSound(m)
  BY AppendOrdered, AppendBootsSound DEF Exact
<1> HIDE DEF m, f
<1>4. Exact(k, W) /\ k \in SUBSET l
  BY <1>1, NewEndExact DEF NewEnd
<1>5. ASSUME NEW s \in k
      PROVE  /\ s.first \in Nat \ {0} /\ Len(s.recs) \in Nat /\ LastSeq(s) \in Nat
             /\ LastSeq(s) = s.first + Len(s.recs) - 1 /\ Len(s.recs) > 0
             /\ s.first <= LastSeq(s) /\ LastSeq(s) < seq
  <2>1. s \in l /\ s \in Segment /\ Len(s.recs) > 0
    BY <1>4 DEF GoodLog, Ordered
  <2>2. /\ s.first \in Nat \ {0} /\ Len(s.recs) \in Nat /\ LastSeq(s) \in Nat
        /\ LastSeq(s) = s.first + Len(s.recs) - 1
    BY <2>1, SegmentFields
  <2>3. LastSeq(s) \in s.first..LastSeq(s)
    BY <2>1, <2>2
  <2>4. LastSeq(s) \in W
    BY <2>1, <2>3 DEF Backed
  <2> QED BY <2>1, <2>2, <2>4 DEF Follows
<1>6. \A q \in V : q <= NewestSeq(m)
  BY <1>3 DEF Follows
<1>7. Intact(m)
  BY <1>1, <1>2, <1>4 DEF Intact, Exact
<1>8. NoHoles(m, V)
  <2> SUFFICES ASSUME NEW q \in V, NEW s \in m, s.first <= q PROVE Holds(m, q)
    BY DEF NoHoles
  <2>1. CASE q = seq
    BY <1>1, <1>2, <2>1 DEF Holds, Covers
  <2>2. CASE q # seq
    <3>1. q \in W /\ q < seq /\ q \in Nat
      BY <2>2 DEF Follows
    <3>2. s \in k
      BY <1>1, <1>2, <3>1
    <3> QED BY <1>1, <1>4, <3>1, <3>2 DEF Exact, NoHoles, Holds
  <2> QED BY <2>1, <2>2
<1>9. JumpsIn(m)
  <2> SUFFICES ASSUME NEW p \in m, NEW s \in m, Neighbours(m, p, s) PROVE JumpDeclared(p, s)
    BY DEF JumpsIn
  <2>1. p.first < s.first /\ \A t \in m : t.first < s.first => t.first <= p.first
    BY DEF Neighbours
  <2>2. CASE s \in k
    <3>1. p \in k
      BY <1>1, <1>2, <1>5, <2>1, <2>2
    <3>2. Neighbours(k, p, s)
      BY <1>1, <2>1 DEF Neighbours
    <3> QED BY <1>4, <2>2, <3>1, <3>2 DEF Exact, JumpsIn
  <2>3. CASE s \notin k
    <3>1. s = f
      BY <1>1, <2>3
    <3>2. p \in k
      BY <1>1, <1>2, <2>1, <3>1
    <3>3. \A t \in k : t.first <= p.first
      BY <1>1, <1>2, <1>5, <2>1, <3>1
    <3>4. GoodLog(k) /\ Ordered(k) /\ NewestSeq(k) = NewestSeq(l)
      BY <1>1, <3>2, NewEndKeepsNewest
    <3>5. NewestSeq(l) = LastSeq(p) /\ l # {}
      BY <1>4, <3>2, <3>3, <3>4, NewestIs
    <3> QED BY <1>2, <3>1, <3>5 DEF JumpDeclared, Joins, BootAt
  <2> QED BY <2>2, <2>3
<1>10. BootsUnused(m, V)
  <2> SUFFICES ASSUME NEW s \in m, NEW i \in 1..Len(s.recs), s.recs[i].kind = "BOOT", NEW q \in V,
                      q \in s.recs[i].from..s.recs[i].to
               PROVE  FALSE
    BY DEF BootsUnused
  <2>1. BootAt(s.recs[i], s.first + i - 1)
    BY <1>3 DEF BootsSound
  <2>2. CASE s \in k
    <3>1. q \notin W
      BY <1>4, <2>2 DEF Exact, BootsUnused
    <3> DEFINE last == s.first + i - 1
    <3>2. q <= s.recs[i].to /\ s.recs[i].to = last - 1
      BY <2>1 DEF BootAt
    <3>3. q \in Nat /\ (q \in W \/ q = seq)
      OBVIOUS
    <3>4. last < seq /\ last \in Nat
      BY <1>5, <2>2
    <3> HIDE DEF last
    <3> QED BY <3>1, <3>2, <3>3, <3>4
  <2>3. CASE s \notin k
    <3>1. s = f /\ i = 1 /\ s.recs[i] = r
      BY <1>1, <1>2, <2>3
    <3>2. q <= seq - 1 /\ r.from <= q /\ r.from \in Nat
      BY <2>1, <1>2, <3>1 DEF BootAt
    <3>3. q \in W /\ l # {}
      BY <3>2 DEF Exact
    <3>4. r.from = NewestSeq(l) + 1 /\ q <= NewestSeq(l) /\ NewestSeq(l) \in Nat
      BY <3>1, <3>3, NewestSeqType DEF Joins, Exact
    <3> QED BY <3>2, <3>4
  <2> QED BY <2>2, <2>3
<1>11. m # {} /\ V # {}
  BY <1>3
<1> QED
  BY <1>3, <1>6, <1>7, <1>8, <1>9, <1>10, <1>11 DEF Exact, m

LEMMA AppendOnExact ==
  ASSUME NEW l, GoodLog(l), Ordered(l), NEW W \in SUBSET Nat, Backed(l, W), Exact(l, W),
         NEW seq \in Nat \ {0}, Follows(seq, W), NEW r \in Record, BootAt(r, seq), r.good,
         Joins(l, seq, r), Continues(l, seq), ~NewestSeg(l).sealed
  PROVE  Exact(AppendOk(l, FALSE, seq, r), W \cup {seq})
<1> DEFINE m == AppendOk(l, FALSE, seq, r)
           V == W \cup {seq}
           n == NewestSeg(l)
           e == Extended(n, r)
<1>1. /\ n \in l /\ n \in Segment /\ LastSeq(n) + 1 = seq /\ NewestSeq(l) = LastSeq(n) /\ ~n.sealed
      /\ \A s \in l : s.first <= n.first
  BY NewestExists DEF GoodLog, Continues, NewestSeq
<1>2. m = (l \ {n}) \cup {e}
  BY DEF AppendOk
<1>3. m # {} /\ NewestSeq(m) = seq /\ BootsSound(m)
  BY AppendOrdered, AppendBootsSound DEF Exact
<1> HIDE DEF m, n
<1>4. ASSUME NEW s \in l
      PROVE  /\ s.first \in Nat \ {0} /\ Len(s.recs) \in Nat /\ LastSeq(s) \in Nat
             /\ LastSeq(s) = s.first + Len(s.recs) - 1 /\ Len(s.recs) > 0
             /\ s.first <= LastSeq(s) /\ LastSeq(s) < seq
  <2>1. s \in Segment /\ Len(s.recs) > 0
    BY DEF GoodLog, Ordered
  <2>2. /\ s.first \in Nat \ {0} /\ Len(s.recs) \in Nat /\ LastSeq(s) \in Nat
        /\ LastSeq(s) = s.first + Len(s.recs) - 1
    BY <2>1, SegmentFields
  <2>3. LastSeq(s) \in s.first..LastSeq(s)
    BY <2>1, <2>2
  <2>4. LastSeq(s) \in W
    BY <2>3 DEF Backed
  <2> QED BY <2>1, <2>2, <2>4 DEF Follows
<1>5. /\ e.first = n.first /\ e.garbage = n.garbage /\ Len(e.recs) = Len(n.recs) + 1
      /\ e.recs[Len(n.recs) + 1] = r /\ \A i \in 1..Len(n.recs) : e.recs[i] = n.recs[i]
      /\ e.reach = IF n.garbage THEN n.reach ELSE n.reach + 1
      /\ LastSeq(e) = seq
  BY <1>1, ExtendedSegment
<1> HIDE DEF e
<1>6. \A q \in V : q <= NewestSeq(m)
  BY <1>3 DEF Follows
<1>7. Intact(m)
  <2>1. SoundSegment(n)
    BY <1>1 DEF Exact, Intact
  <2>2. SoundSegment(e)
    <3>1. ~n.garbage /\ n.reach = Len(n.recs) /\ \A i \in 1..Len(n.recs) : n.recs[i].good
      BY <1>1, <2>1 DEF SoundSegment
    <3>2. e.reach = Len(e.recs) /\ ~e.garbage
      BY <1>5, <3>1
    <3>3. ASSUME NEW i \in 1..Len(e.recs) PROVE e.recs[i].good
      <4>1. CASE i = Len(n.recs) + 1
        BY <1>5, <4>1
      <4>2. CASE i # Len(n.recs) + 1
        <5>1. i \in 1..Len(n.recs)
          BY <1>1, <1>4, <1>5, <4>2
        <5> QED BY <1>5, <3>1, <5>1
      <4> QED BY <4>1, <4>2
    <3> QED BY <3>2, <3>3 DEF SoundSegment
  <2> QED BY <1>2, <2>2 DEF Exact, Intact
<1>8. NoHoles(m, V)
  <2> SUFFICES ASSUME NEW q \in V, NEW s \in m, s.first <= q PROVE Holds(m, q)
    BY DEF NoHoles
  <2>1. CASE q = seq
    <3>1. Covers(e, q)
      BY <1>1, <1>4, <1>5, <2>1 DEF Covers
    <3> QED BY <1>2, <3>1 DEF Holds
  <2>2. CASE q # seq
    <3>1. q \in W /\ q < seq /\ q \in Nat
      BY <2>2 DEF Follows
    <3>2. \E t \in l : t.first <= q
      BY <1>1, <1>2, <1>5
    <3>3. PICK x \in l : Covers(x, q)
      BY <3>1, <3>2 DEF Exact, NoHoles, Holds
    <3>4. CASE x = n
      <4>1. Covers(e, q)
        BY <1>1, <1>4, <1>5, <3>1, <3>3, <3>4 DEF Covers
      <4> QED BY <1>2, <4>1 DEF Holds
    <3>5. CASE x # n
      BY <1>2, <3>3, <3>5 DEF Holds
    <3> QED BY <3>4, <3>5
  <2> QED BY <2>1, <2>2
<1>9. JumpsIn(m)
  <2> SUFFICES ASSUME NEW p \in m, NEW s \in m, Neighbours(m, p, s) PROVE JumpDeclared(p, s)
    BY DEF JumpsIn
  <2>1. p.first < s.first /\ \A t \in m : t.first < s.first => t.first <= p.first
    BY DEF Neighbours
  <2>2. p \in l /\ p # n /\ p # e
    BY <1>1, <1>2, <1>4, <1>5, <2>1
  <2>3. PICK o \in l : o.first = s.first /\ o.recs[1] = s.recs[1]
    <3>1. CASE s = e
      <4>1. 1 \in 1..Len(n.recs)
        BY <1>1, <1>4
      <4> QED BY <1>1, <1>5, <3>1, <4>1
    <3>2. CASE s # e
      BY <1>2, <3>2
    <3> QED BY <3>1, <3>2
  <2>4. Neighbours(l, p, o)
    <3>1. ASSUME NEW t \in l, t.first < o.first PROVE t.first <= p.first
      <4>1. t # n
        BY <1>1, <1>4, <3>1
      <4> QED BY <1>2, <2>1, <2>3, <3>1, <4>1
    <3> QED BY <2>1, <2>3, <3>1 DEF Neighbours
  <2>5. JumpDeclared(p, o)
    BY <2>2, <2>4 DEF Exact, JumpsIn
  <2> QED BY <2>3, <2>5 DEF JumpDeclared
<1>10. BootsUnused(m, V)
  <2> SUFFICES ASSUME NEW s \in m, NEW i \in 1..Len(s.recs), s.recs[i].kind = "BOOT", NEW q \in V,
                      q \in s.recs[i].from..s.recs[i].to
               PROVE  FALSE
    BY DEF BootsUnused
  <2>1. BootAt(s.recs[i], s.first + i - 1)
    BY <1>3 DEF BootsSound
  <2>2. q \in Nat /\ (q \in W \/ q = seq) /\ q <= s.recs[i].to /\ s.recs[i].from <= q
    OBVIOUS
  <2> DEFINE last == s.first + i - 1
  <2>3. s.recs[i].to = last - 1 /\ s.recs[i].from \in Nat
    BY <2>1 DEF BootAt
  <2>4. ASSUME NEW o \in l, o.first = s.first, i \in 1..Len(o.recs), o.recs[i] = s.recs[i] PROVE FALSE
    <3>1. q \notin W
      BY <2>4 DEF Exact, BootsUnused
    <3>2. last < seq /\ last \in Nat
      BY <1>4, <2>4
    <3> HIDE DEF last
    <3> QED BY <2>2, <2>3, <3>1, <3>2
  <2>5. CASE s # e
    BY <1>2, <2>4, <2>5
  <2>6. CASE s = e /\ i # Len(n.recs) + 1
    <3>1. i \in 1..Len(n.recs)
      BY <1>1, <1>4, <1>5, <2>6
    <3> QED BY <1>1, <1>5, <2>4, <2>6, <3>1
  <2>7. CASE s = e /\ i = Len(n.recs) + 1
    <3>1. s.recs[i] = r /\ s.first + i - 1 = seq
      BY <1>1, <1>4, <1>5, <2>7
    <3>2. q \in W /\ l # {}
      BY <1>1, <2>2, <2>3, <3>1
    <3>3. r.from = NewestSeq(l) + 1 /\ q <= NewestSeq(l) /\ NewestSeq(l) \in Nat
      BY <3>1, <3>2, NewestSeqType DEF Joins, Exact
    <3> QED BY <2>2, <3>1, <3>3
  <2> QED BY <2>5, <2>6, <2>7
<1>11. m # {} /\ V # {}
  BY <1>3
<1> QED
  BY <1>3, <1>6, <1>7, <1>8, <1>9, <1>10, <1>11 DEF Exact, m

LEMMA AppendFailedExact ==
  ASSUME NEW l, GoodLog(l), Ordered(l), NEW W \in SUBSET Nat, Backed(l, W), Exact(l, W),
         NEW new \in BOOLEAN, new \/ l # {}, NEW torn \in BOOLEAN
  PROVE  Exact(AppendFailed(l, new, torn), W)
<1>1. CASE new
  BY <1>1 DEF AppendFailed
<1>2. CASE ~new
  <2> DEFINE n == NewestSeg(l)
             e == [n EXCEPT !.sealed = TRUE, !.garbage = @ \/ torn]
             m == AppendFailed(l, new, torn)
  <2>1. n \in l /\ n \in Segment /\ SoundSegment(n)
    BY <1>2, NewestExists DEF GoodLog, Exact, Intact
  <2>2. GoodLog(m) /\ Ordered(m)
    BY GoodAppendFailed, AppendFailedOrdered
  <2>3. m = (l \ {n}) \cup {e}
    BY <1>2 DEF AppendFailed
  <2> HIDE DEF n, m
  <2>4. e.first = n.first /\ e.recs = n.recs /\ e.reach = n.reach /\ e.sealed = TRUE
    BY <2>1 DEF Segment
  <2> HIDE DEF e
  <2>5. Twin(n, e) /\ SoundSegment(e)
    BY <2>1, <2>4 DEF Twin, SoundSegment
  <2>6. SameContents(l, m)
    <3>1. \A s \in l : Twin(s, s)
      BY DEF Twin
    <3> QED BY <2>1, <2>3, <2>5, <3>1 DEF SameContents
  <2>7. Intact(m)
    BY <2>3, <2>5 DEF Exact, Intact
  <2> QED BY <2>2, <2>6, <2>7, SameContentsExact DEF m
<1> QED
  BY <1>1, <1>2

(* Start-up, over an exact log.                                              *)
LEMMA MountExact ==
  ASSUME NEW l, GoodLog(l), Ordered(l), NEW W \in SUBSET Nat, Exact(l, W)
  PROVE  Exact(Mount(l), W) /\ NewestSeq(Mount(l)) = NewestSeq(l) /\ (l = {} <=> Mount(l) = {})
<1> DEFINE v == Valid(l)
           k == Mount(l)
<1>1. GoodLog(v) /\ Ordered(v) /\ SameContents(l, v) /\ Intact(v)
  BY ValidExact DEF Exact
<1>2. NewEnd(k, v) /\ (v # {} => k # {})
  BY <1>1, MountNewEnd
<1> HIDE DEF v, k
<1>3. Exact(v, W)
  BY <1>1, SameContentsExact
<1>4. Exact(k, W)
  BY <1>1, <1>2, <1>3, NewEndExact
<1>5. l = {} <=> k = {}
  BY <1>4 DEF Exact
<1>6. NewestSeq(k) = NewestSeq(v)
  <2>1. CASE k = {}
    BY <1>2, <2>1 DEF NewestSeq
  <2>2. CASE k # {}
    BY <1>1, <1>2, <2>2, NewEndKeepsNewest
  <2> QED BY <2>1, <2>2
<1>7. NewestSeq(v) = NewestSeq(l)
  <2>1. CASE l = {}
    BY <1>1, <2>1 DEF NewestSeq, SameContents
  <2>2. CASE l # {}
    <3> DEFINE n == NewestSeg(l)
    <3>1. n \in l /\ (\A s \in l : s.first <= n.first) /\ NewestSeq(l) = LastSeq(n)
      BY <2>2, NewestExists DEF GoodLog, NewestSeq
    <3> HIDE DEF n
    <3>2. PICK t \in v : Twin(n, t)
      BY <1>1, <3>1 DEF SameContents
    <3>3. \A s \in v : s.first <= t.first
      BY <1>1, <3>1, <3>2 DEF SameContents, Twin
    <3>4. NewestSeq(v) = LastSeq(t)
      BY <1>1, <3>3, NewestIs
    <3> QED BY <3>1, <3>2, <3>4 DEF Twin, LastSeq
  <2> QED BY <2>1, <2>2
<1> QED
  BY <1>4, <1>5, <1>6, <1>7 DEF k

-------------------------------------------------------------------------------
(* What can still be read                                                    *)

Readable(l, q) == ReadStatus(l, q) = "Ok"
ReadableIn(s, i) == i \in 1..Len(s.recs) /\ i <= s.reach /\ s.recs[i].good

(* None of the seqs lo..hi can be read.                                      *)
Gone(l, lo, hi) == \A q \in lo..hi : ~Readable(l, q)

LEMMA ReadableWhere ==
  ASSUME NEW l, GoodLog(l), Ordered(l), NEW q \in Nat, NEW s \in l, Covers(s, q)
  PROVE  /\ RecordAt(l, q) = s.recs[q - s.first + 1] /\ q - s.first + 1 \in 1..Len(s.recs)
         /\ Readable(l, q) <=> ReadableIn(s, q - s.first + 1)
<1>1. SegmentOf(l, q) \in l /\ Covers(SegmentOf(l, q), q)
  BY DEF SegmentOf
<1>2. \A t \in l : t.first \in Nat /\ LastSeq(t) \in Nat /\ LastSeq(t) = t.first + Len(t.recs) - 1
                   /\ Len(t.recs) \in Nat
  BY SegmentFields DEF GoodLog
<1>3. SegmentOf(l, q) = s
  <2> DEFINE t == SegmentOf(l, q)
  <2>1. t \in l /\ t.first <= q /\ q <= LastSeq(t) /\ s.first <= q /\ q <= LastSeq(s)
    BY <1>1 DEF Covers
  <2> HIDE DEF t
  <2>2. t # s => LastSeq(t) < s.first \/ LastSeq(s) < t.first
    BY <2>1 DEF Ordered
  <2>3. t = s
    BY <1>2, <2>1, <2>2
  <2> QED BY <2>3 DEF t
<1>4. Holds(l, q)
  BY DEF Holds
<1>5. q - s.first + 1 \in 1..Len(s.recs)
  BY <1>2 DEF Covers
<1>6. RecordAt(l, q) = s.recs[q - s.first + 1]
  BY <1>3 DEF RecordAt
<1>7. ReadStatus(l, q) = IF q - s.first + 1 <= s.reach /\ RecordAt(l, q).good THEN "Ok" ELSE "Corrupt"
  BY <1>3, <1>4 DEF ReadStatus
<1> QED
  BY <1>5, <1>6, <1>7 DEF Readable, ReadableIn

(* Record i of t is one of l, at the same place, and is read no more.         *)
KeptIn(s, t, i) ==
  /\ t.first = s.first /\ i \in 1..Len(s.recs)
  /\ t.recs[i].kind = s.recs[i].kind
  /\ t.recs[i].from = s.recs[i].from /\ t.recs[i].to = s.recs[i].to
  /\ ReadableIn(t, i) => ReadableIn(s, i)
KeptFrom(l, t, i) == \E s \in l : KeptIn(s, t, i)

(* m holds records of l, and from seq n on the record r.                     *)
Adds(m, l, n, r) ==
  \A t \in m : \A i \in 1..Len(t.recs) :
    KeptFrom(l, t, i) \/ (t.first + i - 1 >= n /\ t.recs[i] = r)

(* Of the seqs below n, m reads none that l does not.                        *)
NoBack(m, l, n) == \A q \in Nat : q < n /\ Readable(m, q) => Readable(l, q)

LEMMA NeverBack ==
  ASSUME NEW l, GoodLog(l), Ordered(l), NEW m, GoodLog(m), Ordered(m), NEW n \in Nat,
         NEW r, Adds(m, l, n, r)
  PROVE  NoBack(m, l, n)
<1> SUFFICES ASSUME NEW q \in Nat, q < n, Readable(m, q) PROVE Readable(l, q)
  BY DEF NoBack
<1>1. PICK t \in m : Covers(t, q)
  BY ReadableIsHeld DEF Readable, Holds
<1> DEFINE i == q - t.first + 1
<1>2. ReadableIn(t, i) /\ i \in 1..Len(t.recs)
  BY <1>1, ReadableWhere
<1>3. t.first \in Nat /\ t.first <= q /\ t.first + i - 1 = q /\ i \in Nat
  BY <1>1, SegmentFields DEF Covers, GoodLog
<1>4. i = q - t.first + 1
  OBVIOUS
<1> HIDE DEF i
<1>5. KeptFrom(l, t, i)
  BY <1>2, <1>3 DEF Adds
<1>6. PICK s \in l : KeptIn(s, t, i)
  BY <1>5 DEF KeptFrom
<1>7. t.first = s.first /\ i \in 1..Len(s.recs) /\ ReadableIn(s, i)
  BY <1>2, <1>6 DEF KeptIn
<1>8. Covers(s, q) /\ i = q - s.first + 1
  <2>1. s.first \in Nat /\ Len(s.recs) \in Nat /\ LastSeq(s) = s.first + Len(s.recs) - 1
    BY SegmentFields DEF GoodLog
  <2> QED BY <1>3, <1>4, <1>7, <2>1 DEF Covers
<1> QED
  BY <1>7, <1>8, ReadableWhere

LEMMA GoneStays ==
  ASSUME NEW l, NEW m, NEW n \in Nat, NoBack(m, l, n),
         NEW lo \in Nat, NEW hi \in Int, hi < n, Gone(l, lo, hi)
  PROVE  Gone(m, lo, hi)
<1> SUFFICES ASSUME NEW q \in lo..hi, Readable(m, q) PROVE Readable(l, q)
  BY DEF Gone
<1>1. q \in Nat /\ q < n
  OBVIOUS
<1> QED
  BY <1>1 DEF NoBack

(* A file whose walk stops before its end has garbage where it stops.        *)
ReadTo(l) == \A s \in l : s.garbage \/ s.reach = Len(s.recs)

(* What a BOOT of the log declares cannot be read.                           *)
BootsGone(l) ==
  \A s \in l : \A i \in 1..Len(s.recs) :
    s.recs[i].kind = "BOOT" => Gone(l, s.recs[i].from, s.recs[i].to)

LEMMA BootsStayGone ==
  ASSUME NEW l, GoodLog(l), Ordered(l), BootsSound(l), BootsGone(l),
         NEW m, GoodLog(m), Ordered(m), NEW n \in Nat,
         \A s \in l : LastSeq(s) < n,
         NEW r, Adds(m, l, n, r),
         r.kind = "BOOT" => r.from \in Nat /\ r.to \in Int /\ Gone(m, r.from, r.to)
  PROVE  BootsGone(m)
<1> SUFFICES ASSUME NEW t \in m, NEW i \in 1..Len(t.recs), t.recs[i].kind = "BOOT"
             PROVE  Gone(m, t.recs[i].from, t.recs[i].to)
  BY DEF BootsGone
<1>1. CASE t.recs[i] = r
  BY <1>1
<1>2. CASE KeptFrom(l, t, i)
  <2>1. PICK s \in l : KeptIn(s, t, i)
    BY <1>2 DEF KeptFrom
  <2> DEFINE b == s.recs[i]
  <2>2. i \in 1..Len(s.recs) /\ b.kind = "BOOT" /\ t.recs[i].from = b.from /\ t.recs[i].to = b.to
    BY <2>1 DEF KeptIn
  <2>3. b.from \in Nat /\ b.to = (s.first + i - 1) - 1
    <3>1. BootAt(b, s.first + i - 1)
      BY <2>2 DEF BootsSound
    <3> QED BY <2>2, <3>1 DEF BootAt
  <2>4. s.first \in Nat /\ Len(s.recs) \in Nat /\ LastSeq(s) = s.first + Len(s.recs) - 1 /\ LastSeq(s) < n
    BY SegmentFields DEF GoodLog
  <2>5. Gone(l, b.from, b.to)
    BY <2>2 DEF BootsGone
  <2> HIDE DEF b
  <2>6. b.to \in Int /\ b.to < n
    BY <2>3, <2>4, <2>2
  <2>7. NoBack(m, l, n)
    BY NeverBack
  <2>8. Gone(m, b.from, b.to)
    BY <2>3, <2>5, <2>6, <2>7, GoneStays
  <2> QED BY <2>8, <2>2
<1> QED
  BY <1>1, <1>2 DEF Adds

(* A part of a log.                                                          *)
LEMMA SubsetReads ==
  ASSUME NEW l, GoodLog(l), Ordered(l), NEW k \in SUBSET l, NEW n, NEW r
  PROVE  /\ Adds(k, l, n, r)
         /\ ReadTo(l) => ReadTo(k)
BY DEF Adds, KeptFrom, KeptIn, ReadTo

LEMMA RescannedReads ==
  ASSUME NEW s \in Segment, s.reach <= Len(s.recs), s.garbage \/ s.reach = Len(s.recs)
  PROVE  /\ Rescanned(s).first = s.first
         /\ Rescanned(s).garbage \/ Rescanned(s).reach = Len(Rescanned(s).recs)
         /\ Len(Rescanned(s).recs) = s.reach
         /\ \A i \in 1..s.reach : Rescanned(s).recs[i] = s.recs[i]
         /\ \A i \in 1..Len(Rescanned(s).recs) : ReadableIn(Rescanned(s), i) => ReadableIn(s, i)
<1>1. s.reach \in Nat /\ s.recs \in Seq(Record) /\ Len(s.recs) \in Nat
  BY SegmentFields DEF Segment
<1> DEFINE recs   == SubSeq(s.recs, 1, s.reach)
           sealed == s.garbage \/ s.reach >= SegCap
           e == Rescanned(s)
<1>2. Len(recs) = s.reach /\ \A j \in 1..s.reach : recs[j] = s.recs[j]
  <2>1. 1..s.reach \subseteq 1..Len(s.recs)
    BY <1>1
  <2> QED BY <1>1, <2>1, SubSeqProperties
<1>3. e = [s EXCEPT !.recs = recs, !.sealed = sealed]
  BY DEF Rescanned
<1> HIDE DEF recs, sealed, e
<1>4. e.first = s.first /\ e.recs = recs /\ e.reach = s.reach /\ e.garbage = s.garbage
  BY <1>3 DEF Segment
<1>5. ASSUME NEW i \in 1..Len(e.recs), ReadableIn(e, i) PROVE ReadableIn(s, i)
  <2>1. i \in 1..Len(s.recs) /\ i <= s.reach
    BY <1>1, <1>2, <1>4
  <2> QED BY <1>2, <1>4, <1>5, <2>1 DEF ReadableIn
<1> QED
  BY <1>2, <1>4, <1>5 DEF e

(* A start-up.                                                               *)
LEMMA MountReads ==
  ASSUME NEW l, GoodLog(l), Ordered(l), ReadTo(l), NEW n, NEW r
  PROVE  ReadTo(Mount(l)) /\ Adds(Mount(l), l, n, r)
<1>1. ASSUME NEW t \in Mount(l)
      PROVE  /\ t.garbage \/ t.reach = Len(t.recs)
             /\ \A i \in 1..Len(t.recs) : KeptFrom(l, t, i)
  <2>1. PICK s \in l : t = Rescanned(s)
    BY DEF Mount, Valid
  <2>2. s \in Segment /\ s.reach <= Len(s.recs) /\ (s.garbage \/ s.reach = Len(s.recs))
    BY DEF GoodLog, ReadTo
  <2>3. s.reach \in Nat /\ Len(s.recs) \in Nat
    BY <2>2, SegmentFields DEF Segment
  <2>4. /\ t.first = s.first /\ (t.garbage \/ t.reach = Len(t.recs)) /\ Len(t.recs) = s.reach
        /\ \A i \in 1..s.reach : t.recs[i] = s.recs[i]
        /\ \A i \in 1..Len(t.recs) : ReadableIn(t, i) => ReadableIn(s, i)
    BY <2>1, <2>2, RescannedReads
  <2>5. \A i \in 1..Len(t.recs) : i \in 1..Len(s.recs)
    BY <2>2, <2>3, <2>4
  <2> QED BY <2>4, <2>5 DEF KeptFrom, KeptIn
<1> QED
  BY <1>1 DEF ReadTo, Adds

(* A record that goes bad.                                                   *)
LEMMA RottedReads ==
  ASSUME NEW l, GoodLog(l), Ordered(l), ReadTo(l), NEW s \in l, NEW e \in Rotted(s), NEW n, NEW r
  PROVE  ReadTo(Swapped(l, s, e)) /\ Adds(Swapped(l, s, e), l, n, r)
<1>1. s \in Segment /\ s.reach <= Len(s.recs) /\ (s.garbage \/ s.reach = Len(s.recs))
      /\ s.reach \in Nat /\ Len(s.recs) \in Nat
  BY SegmentFields DEF GoodLog, ReadTo, Segment
<1>2. /\ e.first = s.first /\ Len(e.recs) = Len(s.recs)
      /\ \A i \in 1..Len(s.recs) : /\ e.recs[i].kind = s.recs[i].kind
                                   /\ e.recs[i].from = s.recs[i].from
                                   /\ e.recs[i].to = s.recs[i].to
  BY <1>1, RottedSegment DEF SameExtent
<1>3. PICK k \in 1..Len(s.recs) : e = HeaderBad(s, k) \/ e = BodyBad(s, k)
  BY DEF Rotted
<1>4. /\ e.garbage \/ e.reach = Len(e.recs)
      /\ \A i \in 1..Len(s.recs) : ReadableIn(e, i) => ReadableIn(s, i)
  <2>1. CASE e = HeaderBad(s, k)
    <3>1. e.garbage = TRUE
      BY <1>1, <2>1, Zenon DEF HeaderBad, Segment
    <3>2. e.recs = s.recs /\ e.reach = IF k <= s.reach THEN k - 1 ELSE s.reach
      BY <1>1, <2>1 DEF HeaderBad, Segment
    <3>3. e.reach <= s.reach /\ e.reach \in Int
      BY <1>1, <3>2
    <3> QED BY <1>1, <3>1, <3>2, <3>3 DEF ReadableIn
  <2>2. CASE e = BodyBad(s, k)
    <3>1. e.garbage = s.garbage /\ e.reach = s.reach
      BY <1>1, <2>2 DEF BodyBad, Segment
    <3>2. \A i \in 1..Len(s.recs) : i # k => e.recs[i] = s.recs[i]
      BY <1>1, <2>2 DEF BodyBad, Segment
    <3>3. ~e.recs[k].good
      BY <1>1, <2>2 DEF BodyBad, Segment, Record
    <3> QED BY <1>1, <1>2, <3>1, <3>2, <3>3 DEF ReadableIn
  <2> QED BY <1>3, <2>1, <2>2
<1>5. \A i \in 1..Len(e.recs) : KeptFrom(l, e, i)
  BY <1>2, <1>4 DEF KeptFrom, KeptIn
<1>6. \A t \in l : \A i \in 1..Len(t.recs) : KeptFrom(l, t, i)
  BY DEF KeptFrom, KeptIn
<1> QED
  BY <1>4, <1>5, <1>6 DEF ReadTo, Adds, Swapped

(* An append.                                                                *)
LEMMA AppendReads ==
  ASSUME NEW l, GoodLog(l), Ordered(l), ReadTo(l), NEW n \in Nat, NEW seq \in Nat \ {0}, n <= seq,
         NEW r \in Record, NEW new \in BOOLEAN, new \/ Continues(l, seq)
  PROVE  ReadTo(AppendOk(l, new, seq, r)) /\ Adds(AppendOk(l, new, seq, r), l, n, r)
<1>1. \A t \in l : /\ t.garbage \/ t.reach = Len(t.recs)
                   /\ \A i \in 1..Len(t.recs) : KeptFrom(l, t, i)
  BY DEF KeptFrom, KeptIn, ReadTo
<1>2. CASE new = TRUE
  <2> DEFINE f == FreshSegment(seq, r)
  <2>1. f.first = seq /\ f.recs = <<r>> /\ f.reach = 1
    BY DEF FreshSegment
  <2>2. AppendOk(l, new, seq, r) \subseteq l \cup {f}
    BY <1>2 DEF AppendOk, PushSegment
  <2> HIDE DEF f
  <2>3. Len(f.recs) = 1 /\ f.recs[1] = r
    BY <2>1
  <2>4. \A i \in 1..Len(f.recs) : f.first + i - 1 >= n /\ f.recs[i] = r
    BY <2>1, <2>3
  <2> QED BY <1>1, <2>1, <2>2, <2>3, <2>4 DEF ReadTo, Adds
<1>3. CASE new = FALSE
  <2> DEFINE o == NewestSeg(l)
             e == Extended(o, r)
  <2>1. l # {} /\ LastSeq(o) + 1 = seq
    BY <1>3 DEF Continues
  <2>2. o \in l
    BY <2>1, NewestExists DEF GoodLog
  <2>3. o \in Segment /\ o.reach \in Nat /\ o.first \in Nat /\ Len(o.recs) \in Nat
        /\ LastSeq(o) = o.first + Len(o.recs) - 1 /\ o.reach <= Len(o.recs)
    BY <2>2, SegmentFields DEF GoodLog, Segment
  <2>4. AppendOk(l, new, seq, r) = (l \ {o}) \cup {e}
    BY <1>3 DEF AppendOk
  <2> HIDE DEF o
  <2>5. /\ e.first = o.first /\ e.garbage = o.garbage /\ Len(e.recs) = Len(o.recs) + 1
        /\ e.recs[Len(o.recs) + 1] = r
        /\ \A i \in 1..Len(o.recs) : e.recs[i] = o.recs[i]
        /\ e.reach = IF o.garbage THEN o.reach ELSE o.reach + 1
    BY <2>3, ExtendedSegment
  <2> HIDE DEF e
  <2>6. e.garbage \/ e.reach = Len(e.recs)
    BY <1>1, <2>2, <2>5
  <2>7. ASSUME NEW i \in 1..Len(e.recs)
        PROVE  KeptFrom(l, e, i) \/ (e.first + i - 1 >= n /\ e.recs[i] = r)
    <3>1. CASE i = Len(o.recs) + 1
      BY <2>1, <2>3, <2>5, <3>1
    <3>2. CASE i # Len(o.recs) + 1
      <4>1. i \in 1..Len(o.recs) /\ e.recs[i] = o.recs[i]
        BY <2>3, <2>5, <3>2
      <4>2. ReadableIn(e, i) => ReadableIn(o, i)
        <5>1. o.garbage \/ o.reach = Len(o.recs)
          BY <1>1, <2>2
        <5> QED BY <2>3, <2>5, <4>1, <5>1 DEF ReadableIn
      <4> QED BY <2>2, <2>5, <4>1, <4>2 DEF KeptFrom, KeptIn
    <3> QED BY <3>1, <3>2
  <2> QED BY <1>1, <2>4, <2>6, <2>7 DEF ReadTo, Adds
<1> QED
  BY <1>2, <1>3
===============================================================================
