------------------------------- MODULE BootTime -------------------------------
(***************************************************************************)
(* The time of the boots of one dongle.  Handshakes leave anchors and the  *)
(* blocks leave ranges, in the order the link allows; the workers take the *)
(* boots that are pending and compute their lines, one statement at a time *)
(* (READ COMMITTED), under the row lock of the boot they took; a worker    *)
(* whose line changed marks the boots around in a transaction of its own.  *)
(* Here real time is known: the line of a boot may be held against it.     *)
(*                                                                         *)
(* The clocks do not drift, so the slope is 0; MaxDrift widens all the     *)
(* same.                                                                   *)
(***************************************************************************)
EXTENDS ServerTable, Timeline

CONSTANTS Workers,
          Scopes  \* sets of bounds, one of which a behavior is under

ASSUME BootTimeAssumption ==
  \A s \in Scopes : {s.clock, s.boots, s.blocks, s.anchors, s.failures} \subseteq Nat /\ s.workers \subseteq Workers

VARIABLES
  scope,
  clock,
  starts,   \* the real time each boot of the dongle started
  log,      \* its data blocks [boot, t], in order of seq
  stored,   \* how many of them the server has
  boots, anchors, groups, alerts,  \* the tables
  worker,   \* what each worker is at
  failures,
  used,     \* the neighbours the line of a boot without anchors came from
  missed    \* anchored boots whose neighbours were not all marked

tables == <<boots, anchors, groups, alerts>>
world == <<clock, starts, log, stored>>
vars == <<scope, world, tables, worker, failures, used, missed>>

d == 1
Key(n) == [dongle |-> d, gen |-> 0, boot |-> n]
Row(n) == CHOOSE b \in boots : b.boot = n
RowsOf(n) == {b \in boots : b.boot = n}
Idle == [at |-> "idle"]
Held == {worker[w].boot : w \in {v \in Workers : worker[v].at \in {"anchors", "previous", "next", "write"}}}
Locked == {b \in boots : b.boot \in Held}

Init ==
  /\ scope \in Scopes
  /\ clock = 0 /\ starts = <<0>> /\ log = <<>> /\ stored = 0
  /\ boots = {} /\ anchors = {} /\ groups = {} /\ alerts = <<>>
  /\ worker = [w \in Workers |-> Idle] /\ failures = 0
  /\ used = [n \in {} |-> <<>>] /\ missed = {}

----------------------------------------------------------------------------
(* The dongle and its link.                                                *)

Tick ==
  /\ clock + Ms <= scope.clock * Ms /\ clock' = clock + Ms
  /\ UNCHANGED <<scope, starts, log, stored, tables, worker, failures, used, missed>>
Boots ==
  /\ Len(starts) < scope.boots /\ clock > Last(starts)
  /\ starts' = Append(starts, clock)
  /\ UNCHANGED <<scope, clock, log, stored, tables, worker, failures, used, missed>>
Records ==
  /\ Len(log) < scope.blocks
  /\ log' = Append(log, [boot |-> Len(starts), t |-> clock - Last(starts)])
  /\ UNCHANGED <<scope, clock, starts, stored, tables, worker, failures, used, missed>>

(* Both transactions wait for the row of the boot while a worker has it.   *)
Uploads ==
  /\ stored < Len(log)
  /\ LET b == log[stored + 1]
     IN  /\ b.boot \notin Held
         /\ boots' = UpdateIngestionBoots(boots, d, clock,
              {[gen |-> 0, boot |-> b.boot, from |-> stored + 1, to |-> stored + 1, start |-> b.t, end |-> b.t,
                maxOff |-> clock - b.t]})
  /\ stored' = stored + 1
  /\ UNCHANGED <<scope, clock, starts, log, anchors, groups, alerts, worker, failures, used, missed>>

(* The dongle reads t at real time x, between s1 and s2; the boot may be   *)
(* over when its answer comes.  No two answers read the same millisecond.  *)
Alive(n, x) == x >= starts[n] /\ (n < Len(starts) => x < starts[n + 1])
Handshake(n, s1, x) ==
  /\ Cardinality(anchors) < scope.anchors
  /\ n \in DOMAIN starts /\ Alive(n, x) /\ s1 <= x /\ x <= clock
  /\ \A y \in anchors : <<y.boot, y.t>> # <<n, x - starts[n]>>
  /\ n \notin Held
  /\ boots' = EnsurePendingBoot(boots, d, 0, n, clock)
  /\ anchors' = InsertAnchor(anchors, [dongle |-> d, gen |-> 0, boot |-> n, t |-> x - starts[n],
                                       nonce |-> Cardinality(anchors) + 1, s1 |-> s1, s2 |-> clock])
  /\ UNCHANGED <<scope, world, groups, alerts, worker, failures, used, missed>>

----------------------------------------------------------------------------
(* ProcessOne.                                                             *)

Step(w, at) == worker' = [worker EXCEPT ![w] = at]
OnlyWorker == UNCHANGED <<scope, world, tables, failures, used, missed>>

Take(w) ==
  /\ worker[w] = Idle
  /\ LET found == TakePendingBoot(boots, Locked)
     IN  /\ found # <<>>
         /\ Step(w, [at |-> "anchors", boot |-> found[1].boot, row |-> found[1]])
  /\ OnlyWorker

Reference(x) ==
  IF x = <<>> \/ (x # <<>> /\ Null \in {x[1].a, x[1].unc, x[1].firstT, x[1].lastT}) THEN <<>>
  ELSE <<[boot |-> x[1].boot, a |-> x[1].a, unc |-> x[1].unc, firstT |-> x[1].firstT, lastT |-> x[1].lastT]>>

(* Mutant: the neighbours go before the anchors.                           *)
ReadAnchorsLast(w) ==
  /\ worker[w].at = "anchors"
  /\ Step(w, IF Null \notin {worker[w].row.first, worker[w].row.firstT, worker[w].row.lastT}
             THEN [at |-> "previous", boot |-> worker[w].boot, row |-> worker[w].row]
             ELSE [at |-> "write", boot |-> worker[w].boot, row |-> worker[w].row, used |-> <<>>,
                   est |-> EstimateFromAnchors(ListBootAnchors(anchors, worker[w].row))])
  /\ OnlyWorker

ReadAnchors(w) ==
  /\ worker[w].at = "anchors"
  /\ LET found == ListBootAnchors(anchors, worker[w].row)
         known == Null \notin {worker[w].row.first, worker[w].row.firstT, worker[w].row.lastT}
     IN  Step(w, IF found # <<>> \/ ~known
                 THEN [at |-> "write", boot |-> worker[w].boot, row |-> worker[w].row,
                       est |-> EstimateFromAnchors(found), used |-> <<>>]
                 ELSE [at |-> "previous", boot |-> worker[w].boot, row |-> worker[w].row])
  /\ OnlyWorker

ReadPrevious(w) ==
  /\ worker[w].at = "previous"
  /\ Step(w, [at |-> "next", boot |-> worker[w].boot, row |-> worker[w].row,
              prev |-> Reference(PreviousAnchoredBoot(boots, d, worker[w].row.first))])
  /\ OnlyWorker

ReadNext(w) ==
  /\ worker[w].at = "next"
  /\ LET row == worker[w].row
         next == Reference(NextAnchoredBoot(boots, d, row.first))
     IN  Step(w, [at |-> "write", boot |-> worker[w].boot, row |-> row,
                  est |-> EstimateFromNeighbors(worker[w].prev, next, row,
                            IF row.maxOff = Null THEN <<>> ELSE <<row.maxOff>>),
                  used |-> <<worker[w].prev, next>>])
  /\ OnlyWorker

Line(est) == IF est.src = "" THEN [a |-> Null, slope |-> Null, unc |-> Null, src |-> ""]
             ELSE [a |-> est.a, slope |-> 0, unc |-> est.unc, src |-> est.src]

(* Mutant: only the first line of a boot counts.                           *)
ChangedOnce(row, est) == est.src = "anchors" /\ (row.a = Null \/ row.src # "anchors")

Changed(row, est) == est.src = "anchors" /\ (row.a = Null \/ row.src # "anchors" \/ row.a # est.a)

(* The rest of the transaction, and its commit.                            *)
Write(w) ==
  /\ worker[w].at = "write"
  /\ LET row == worker[w].row
         est == worker[w].est
         n == worker[w].boot
         told == FoldSet(LAMBDA type, acc : InsertAlertIfNew(acc, Key(n) @@ [type |-> type, at |-> clock], clock),
                         alerts, est.alerts)
         cleared == DeleteAnchorGroups(groups, Key(n))
     IN  /\ boots' = UpdateBootTime(boots, Key(n), Line(est))
         /\ groups' = IF est.src = "anchors" THEN CopyAnchorGroups(cleared, Key(n), est.groups) ELSE cleared
         /\ alerts' = told
         /\ used' = (n :> worker[w].used) @@ used
         /\ missed' = IF Changed(row, est) THEN missed \cup {n} ELSE missed
         /\ Step(w, IF Changed(row, est) /\ row.first # Null THEN [at |-> "mark", boot |-> n, first |-> row.first]
                    ELSE Idle)
  /\ UNCHANGED <<scope, world, anchors, failures>>

(* The second transaction.  It passes over a boot another worker has, for  *)
(* that one is still pending.                                              *)
Overlooked(w) == \E v \in Workers \ {w} : worker[v].at \in {"next", "write"}
Mark(w) ==
  /\ worker[w].at = "mark"
  /\ boots' = MarkAnchorlessNeighbors(boots, d, worker[w].first, clock)
  /\ missed' = IF Overlooked(w) THEN missed ELSE missed \ {worker[w].boot}
  /\ Step(w, Idle)
  /\ UNCHANGED <<scope, world, anchors, groups, alerts, failures, used>>

(* A transaction that fails leaves nothing; the worker may also be gone    *)
(* between the two.                                                        *)
Fails(w) ==
  /\ worker[w] # Idle /\ failures < scope.failures
  /\ failures' = failures + 1
  /\ Step(w, Idle)
  /\ UNCHANGED <<scope, world, tables, used, missed>>

Process(w) == Take(w) \/ ReadAnchors(w) \/ ReadPrevious(w) \/ ReadNext(w) \/ Write(w) \/ Mark(w)
Moments == {Ms * k : k \in 0..(clock \div Ms)}
Next ==
  \/ Tick \/ Boots \/ Records \/ Uploads
  \/ \E n \in DOMAIN starts, x \in Moments : \E s1 \in {x, Max({0, x - Ms})} : Handshake(n, s1, x)
  \/ \E w \in scope.workers : Process(w) \/ Fails(w)
Spec == Init /\ [][Next]_vars

----------------------------------------------------------------------------
(* Properties.                                                             *)

TypeOK ==
  /\ stored \in 0..Len(log) /\ failures \in 0..scope.failures
  /\ \A b, c \in boots : b.boot = c.boot => b = c
  /\ \A b \in boots : b.boot \in DOMAIN starts /\ b.src \in {"", "anchors", "neighbors"}
  /\ missed \subseteq DOMAIN starts
  /\ \A v, w \in Workers : v # w /\ worker[v].at # "mark" /\ worker[v] # Idle => worker[w] = Idle \/ worker[w].boot # worker[v].boot \/ worker[w].at = "mark"

(* EstimateFromAnchors and EstimateFromNeighbors (timeline.go): whatever   *)
(* the workers read and when, the start of a boot lies in each of its      *)
(* groups and within the widest of them of its line (one group: within     *)
(* base_uncertainty_ms, the narrowest), and a line of neighbours that are  *)
(* of one group each is as good as its uncertainty says.                   *)
GroupsOf(n) == {g.group : g \in {x \in groups : x.boot = n}}
OneGroup(n) == Cardinality(GroupsOf(n)) <= 1
Bound(b) == IF b.src = "neighbors" \/ OneGroup(b.boot) THEN b.unc
            ELSE 1 + CeilMs(Max({HalfWidth(g) : g \in GroupsOf(b.boot)}))
LinesEncloseTruth ==
  /\ \A n \in DOMAIN starts : \A g \in GroupsOf(n) : starts[n] \in g.lo..g.hi
  /\ \A b \in boots :
       /\ b.a # Null
       /\ b.src = "anchors" \/ \A n \in DOMAIN starts : OneGroup(n)
       => starts[b.boot] - b.a \in (0 - Bound(b))..Bound(b)

(* "empty_intersection" means a wrong clock: honest clocks raise no alert, *)
(* though lines are computed from neighbours that change meanwhile.        *)
NoFalseAlarm == (\A n \in DOMAIN starts : OneGroup(n)) => alerts = <<>>

(* RespondChallenge marks the boot pending in the transaction that adds    *)
(* the anchor, while a worker may be computing it: a boot that is not      *)
(* pending has the line and the groups of all its anchors.                 *)
AnchorsAreUsed ==
  \A b \in boots :
    LET own == ListBootAnchors(anchors, b)
    IN  own # <<>> /\ ~b.pending =>
          /\ Line(EstimateFromAnchors(own)) = [a |-> b.a, slope |-> b.slope, unc |-> b.unc, src |-> b.src]
          /\ ListBootAnchorGroups(groups, b) = EstimateFromAnchors(own).groups

(* A line of anchors is never traded for a guess.                          *)
AnchorsPrevail == [][\A n \in DOMAIN starts : (\E b \in RowsOf(n) : b.src = "anchors")
                        => (\E b \in RowsOf(n)' : b.src = "anchors")]_vars

(* MarkAnchorlessNeighbors: once the queue is empty, the line of a boot    *)
(* without anchors comes from the boots that are its neighbours now and    *)
(* from their lines of now, save where a mark was not made.                *)
Quiet == worker = [w \in Workers |-> Idle] /\ \A b \in boots : ~b.pending
Same(x, y) ==
  \/ x = <<>> /\ y = <<>>
  \/ x # <<>> /\ y # <<>> /\ <<x[1].boot, x[1].a>> = <<y[1].boot, y[1].a>>
Follows(b, n, now) == Same(used[b.boot][n], now) \/ \E x \in ToSet(now) : x.boot \in missed
LinesFollowNeighbors ==
  Quiet => \A b \in {x \in boots : x.src # "anchors" /\ x.first # Null} :
             /\ Follows(b, 1, Reference(PreviousAnchoredBoot(boots, d, b.first)))
             /\ Follows(b, 2, Reference(NextAnchoredBoot(boots, d, b.first)))

(* 06-worker-assincrono.md:55 without the exception: "Se a reta por        *)
(* âncoras mudou (ou não existia), a TX2 [...] marca time_pending = true   *)
(* nos boots sem âncora entre o boot ancorado anterior e o seguinte".      *)
NeighborsAreMarked ==
  Quiet => \A b \in {x \in boots : x.src # "anchors" /\ x.first # Null} :
             /\ Same(used[b.boot][1], Reference(PreviousAnchoredBoot(boots, d, b.first)))
             /\ Same(used[b.boot][2], Reference(NextAnchoredBoot(boots, d, b.first)))
=============================================================================
