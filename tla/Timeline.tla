------------------------------- MODULE Timeline -------------------------------
(***************************************************************************)
(* The time of a boot (domain/timeline): its real time is a + t, t the     *)
(* t_ms of the dongle.  An anchor [t, s1, s2] bounds a: the dongle read t  *)
(* between s1 and s2.  Times are integers, Ms to a millisecond, so that    *)
(* halves are exact.  The slope of the line is left to the code: it is 0   *)
(* unless the groups of a boot are SpanMin (one hour) apart.               *)
(***************************************************************************)
EXTENDS Integers, SequencesExt, FiniteSetsExt

CONSTANTS Ms,           \* units in a millisecond
          GroupWindow,  \* 10 min, counted from the first anchor of a group
          MinHalfWidth, \* 0.5 ms
          MaxDrift      \* 40 ppm: how far a clock may drift in one unit

ASSUME TimelineAssumption == Ms \in Nat \ {0} /\ {GroupWindow, MinHalfWidth, MaxDrift} \subseteq Nat

HalfUp(x) == (x + 1) \div 2
CeilMs(x) == ((x + Ms - 1) \div Ms) * Ms

----------------------------------------------------------------------------
(* Groups of anchors.                                                      *)

Center(g) == (g.lo + g.hi) \div 2
HalfWidth(g) == HalfUp(g.hi - g.lo)

Opened(x) == [lo |-> x.s1 - x.t, hi |-> x.s2 - x.t, firstT |-> x.t, sum |-> x.t, n |-> 1]
Joined(g, x) ==
  [g EXCEPT !.lo = Max({@, x.s1 - x.t}), !.hi = Min({@, x.s2 - x.t}), !.sum = @ + x.t, !.n = @ + 1]
Agree(g, x) == Joined(g, x).lo <= Joined(g, x).hi

AddAnchor(r, x) ==
  IF r.groups = <<>> THEN [r EXCEPT !.groups = <<Opened(x)>>]
  ELSE LET g == Last(r.groups)
       IN  IF x.t - g.firstT >= GroupWindow THEN [r EXCEPT !.groups = Append(@, Opened(x))]
           ELSE IF ~Agree(g, x)
           THEN [groups |-> Append(r.groups, Opened(x)), alerts |-> r.alerts \cup {"empty_intersection"}]
           ELSE [r EXCEPT !.groups = Front(@) \o <<Joined(g, x)>>]
GroupAnchors(as) ==
  FoldLeft(AddAnchor, [groups |-> <<>>, alerts |-> {}], SortSeq(as, LAMBDA a, b : a.t < b.t))

TCenter(g) == g.sum \div g.n

(* The mean of the centers, weighted by 1 / h^2.                           *)
Squared(g) == LET h == Max({HalfWidth(g), MinHalfWidth}) IN h * h
adjust(gs) ==
  LET others(n) == FoldFunction(LAMBDA x, y : x * y, 1, [k \in DOMAIN gs |-> IF k = n THEN 1 ELSE Squared(gs[k])])
      total(f) == FoldFunction(LAMBDA x, y : x + y, 0, f)
  IN  IF Len(gs) = 1 THEN Center(gs[1])
      ELSE total([n \in DOMAIN gs |-> others(n) * Center(gs[n])]) \div total([n \in DOMAIN gs |-> others(n)])

(* The lines, NoLine when there is nothing to go by.                       *)
NoLine == [a |-> 0, unc |-> 0, src |-> "", groups |-> <<>>, alerts |-> {}]
EstimateFromAnchors(as) ==
  LET r == GroupAnchors(as)
  IN  IF as = <<>> THEN NoLine
      ELSE [a |-> adjust(r.groups), unc |-> CeilMs(Min({HalfWidth(r.groups[n]) : n \in DOMAIN r.groups})),
            src |-> "anchors", groups |-> r.groups, alerts |-> r.alerts]

----------------------------------------------------------------------------
(* A boot without anchors lies between its anchored neighbours, each <<>>  *)
(* or <<[a, unc, firstT, lastT]>>, and before its data were received:      *)
(* maxOff is <<>> or the least of received - t.                            *)

Widened(x) == x.unc + MaxDrift * (x.lastT - x.firstT)

(* Mutant: the neighbour is taken to be exact.                             *)
LowestExact(prev, f) == (prev.a + prev.lastT) - f.firstT

Lowest(prev, f) == (prev.a + prev.lastT - Widened(prev)) - f.firstT
Highest(next, f) == (next.a + next.firstT + Widened(next)) - f.lastT
EstimateFromNeighbors(prev, next, f, maxOff) ==
  LET lo == Lowest(prev[1], f)
      his == {Highest(x, f) : x \in ToSet(next)} \cup ToSet(maxOff)
      hi == Min(his)
  IN  IF prev = <<>> \/ his = {} THEN NoLine
      ELSE IF lo > hi THEN [NoLine EXCEPT !.alerts = {"empty_intersection"}]
      ELSE [a |-> (lo + hi) \div 2, unc |-> CeilMs(HalfUp(hi - lo)), src |-> "neighbors",
            groups |-> <<>>, alerts |-> {}]
=============================================================================
