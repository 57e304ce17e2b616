------------------------------ MODULE TripTable ------------------------------
(***************************************************************************)
(* The queries of the trip worker and of the trip API, one operator each:  *)
(* what a SELECT returns and the table an INSERT, UPDATE or DELETE leaves. *)
(*                                                                         *)
(*   trips   gold.trip, a function from trip_id to row                     *)
(*   gold    its eight child tables, each a set of [id, no, row]           *)
(*   boots, blocks, readings, positions   sets of rows of boot, raw_block, *)
(*           reading and position                                          *)
(*                                                                         *)
(* SQL's NULL is Null, and every other column is at least 0.  A timestamp  *)
(* is a position on an abstract clock and the analysis kept in the child   *)
(* tables is whatever value the caller stores there.                       *)
(***************************************************************************)
EXTENDS Integers, FiniteSets, Sequences, SequencesExt, TLC

Null == -1

Waiting(t) == t.status \in {"pending", "waiting_data"}

(* ORDER BY one or more columns, of which no two rows of S agree in all:   *)
(* each row stands after the ones that come before it.                     *)
SortBy(S, Before(_, _)) ==
  [n \in 1..Cardinality(S) |-> CHOOSE x \in S : 1 + Cardinality({y \in S : Before(y, x)}) = n]
OldestFirst(trips, S) ==
  SortBy(S, LAMBDA i, j : \/ trips[i].created < trips[j].created
                          \/ trips[i].created = trips[j].created /\ i < j)

(* Where the query says ORDER BY created_at alone, the order of the ids    *)
(* stands for whatever order trips of one moment come in; any of these may *)
(* be the first.                                                           *)
OldestOf(trips, S) == {i \in S : \A j \in S : trips[i].created <= trips[j].created}

(* LIMIT 1.                                                                *)
First(s) == IF s = <<>> THEN <<>> ELSE <<s[1]>>

----------------------------------------------------------------------------
(* The queue.                                                              *)

ListWaitingTrips(trips) == OldestFirst(trips, {i \in DOMAIN trips : Waiting(trips[i])})

MarkTripWaiting(trips, i) ==
  IF i \in DOMAIN trips /\ trips[i].status = "pending"
  THEN [trips EXCEPT ![i].status = "waiting_data"] ELSE trips

SameEntry(t, e) ==
  /\ t.dongle = e.dongle /\ t.entry = e.entry
  /\ \/ e.entry = "boot" /\ t.gen # Null /\ t.gen = e.gen /\ t.boot = e.boot
     \/ e.entry = "interval" /\ t.start = e.start /\ t.end = e.end

Live(t) == ~t.excluded /\ t.status # "failed"

Generations(boots, d, b) == {x.gen : x \in {y \in boots : y.dongle = d /\ y.boot = b}}

(* The UPDATE ... RETURNING writes and returns a generation only when the  *)
(* trip has none and some boot row has the boot_id.  It fails, and writes  *)
(* nothing, when another live trip already has that boot (the unique index *)
(* trip_boot_unique, which lets trips without a generation through).       *)
ResolveRefused(trips, boots, i, d, b) ==
  /\ i \in DOMAIN trips /\ trips[i].gen = Null /\ Generations(boots, d, b) # {} /\ Live(trips[i])
  /\ \E j \in DOMAIN trips \ {i} :
       Live(trips[j]) /\ SameEntry(trips[j], [trips[i] EXCEPT !.gen = Max(Generations(boots, d, b))])
ResolveTripGeneration(trips, boots, i, d, b) ==
  IF /\ i \in DOMAIN trips /\ trips[i].gen = Null /\ Generations(boots, d, b) # {}
     /\ ~ResolveRefused(trips, boots, i, d, b)
  THEN [trips EXCEPT ![i].gen = Max(Generations(boots, d, b))] ELSE trips

(* FOR UPDATE SKIP LOCKED: a row another transaction holds is not seen.    *)
TakeTrip(trips, i, locked) ==
  IF i \in DOMAIN trips /\ Waiting(trips[i]) /\ i \notin locked THEN <<i>> ELSE <<>>

(* Mutant: a plain SELECT, that returns a row another transaction holds.   *)
TakeRecalcTripUnlocked(trips, locked) ==
  First(OldestFirst(trips, {i \in DOMAIN trips : trips[i].status = "ready" /\ trips[i].recalc}))

ToRecalculate(trips) == {i \in DOMAIN trips : trips[i].status = "ready" /\ trips[i].recalc}
TakeRecalcTrip(trips, locked) == First(OldestFirst(trips, ToRecalculate(trips) \ locked))

CountTripQueue(trips) ==
  [waiting |-> Cardinality({i \in DOMAIN trips : Waiting(trips[i])}),
   recalc  |-> Cardinality({i \in DOMAIN trips : trips[i].recalc})]

(* NOTIFY is delivered on commit: the channel of the listeners' payloads.  *)
NotifyTripPending(sent) == Append(sent, "")
NotifyTripCreated(sent, payload) == Append(sent, payload)

----------------------------------------------------------------------------
(* The result: the child tables and the state of the trip.                 *)

EmptyGold == [t \in {"part", "summary", "band", "event", "stop", "gear", "shift", "series"} |-> {}]

Without(gold, table, i) == [gold EXCEPT ![table] = {r \in @ : r.id # i}]
With(gold, table, i, n, row) == [gold EXCEPT ![table] = @ \cup {[id |-> i, no |-> n, row |-> row]}]
Rows(gold, table, i) ==
  LET sorted == SortBy({r \in gold[table] : r.id = i}, LAMBDA r, s : r.no < s.no)
  IN  [k \in DOMAIN sorted |-> sorted[k].row]

DeleteTripParts(gold, i) == Without(gold, "part", i)
DeleteTripSummary(gold, i) == Without(gold, "summary", i)
DeleteTripSpeedBands(gold, i) == Without(gold, "band", i)
DeleteTripEvents(gold, i) == Without(gold, "event", i)
DeleteTripStops(gold, i) == Without(gold, "stop", i)
DeleteTripGears(gold, i) == Without(gold, "gear", i)
DeleteTripGearShifts(gold, i) == Without(gold, "shift", i)
DeleteTripSeries(gold, i) == Without(gold, "series", i)

InsertTripPart(gold, i, n, row) == With(gold, "part", i, n, row)
InsertTripSummary(gold, i, row) == With(gold, "summary", i, 1, row)
InsertTripSpeedBand(gold, i, n, row) == With(gold, "band", i, n, row)
InsertTripEvent(gold, i, n, row) == With(gold, "event", i, n, row)
InsertTripStop(gold, i, n, row) == With(gold, "stop", i, n, row)
InsertTripGear(gold, i, n, row) == With(gold, "gear", i, n, row)
InsertTripGearShift(gold, i, n, row) == With(gold, "shift", i, n, row)
InsertTripSeries(gold, i, row) == With(gold, "series", i, 1, row)

ListTripParts(gold, i) == Rows(gold, "part", i)
GetTripSummary(gold, i) == Rows(gold, "summary", i)
ListTripSpeedBands(gold, i) == Rows(gold, "band", i)
ListTripEvents(gold, i) == Rows(gold, "event", i)
ListTripStops(gold, i) == Rows(gold, "stop", i)
ListTripGears(gold, i) == Rows(gold, "gear", i)
ListTripGearShifts(gold, i) == Rows(gold, "shift", i)
GetTripSeries(gold, i) == Rows(gold, "series", i)
ListTripRoutes(gold, ids) == {r \in gold.series : r.id \in ids}

(* Mutant: the calculation leaves the mark it has answered.                *)
SaveTripResultMarked(trips, i, c) ==
  IF i \notin DOMAIN trips THEN trips
  ELSE [trips EXCEPT ![i] = [@ EXCEPT !.status = "ready", !.first = c.first, !.last = c.last,
                                      !.through = c.through, !.provisional = c.provisional]]

SaveTripResult(trips, i, c) ==
  IF i \notin DOMAIN trips THEN trips
  ELSE [trips EXCEPT ![i] = [@ EXCEPT !.status = "ready", !.first = c.first, !.last = c.last,
                                      !.through = c.through, !.provisional = c.provisional,
                                      !.recalc = FALSE]]

(* A new trip fails and frees its driver's name; a ready one keeps its     *)
(* result.                                                                 *)
FailTrip(trips, i) ==
  IF i \notin DOMAIN trips THEN trips
  ELSE [trips EXCEPT ![i] = [@ EXCEPT !.status = IF trips[i].status = "ready" THEN "ready" ELSE "failed",
                                      !.recalc = FALSE]]

(* Mutant: a trip already marked is listed again.                          *)
ListProvisionalTripsMarked(trips) ==
  OldestFirst(trips, {i \in DOMAIN trips : trips[i].status = "ready" /\ trips[i].provisional})

ListProvisionalTrips(trips) ==
  OldestFirst(trips, {i \in DOMAIN trips : /\ trips[i].status = "ready"
                                           /\ trips[i].provisional
                                           /\ ~trips[i].recalc})

Marked(trips, S) == [i \in DOMAIN trips |-> IF i \in S THEN [trips[i] EXCEPT !.recalc = TRUE] ELSE trips[i]]

MarkTripsRecalcByID(trips, ids) ==
  Marked(trips, {i \in ids \cap DOMAIN trips : trips[i].status = "ready"})

ClearTripProvisional(trips, i) ==
  IF i \in DOMAIN trips /\ trips[i].status = "ready"
  THEN [trips EXCEPT ![i].provisional = FALSE] ELSE trips

(* The ready trips whose range of seq crosses [from, to]; a trip with no   *)
(* range (Null) never does.                                                *)
Crossing(trips, d, from, to) ==
  {i \in DOMAIN trips : /\ trips[i].dongle = d
                        /\ trips[i].status = "ready"
                        /\ trips[i].first # Null /\ trips[i].last # Null
                        /\ trips[i].first <= to /\ trips[i].last >= from}
MarkTripsRecalc(trips, d, to, from) == Marked(trips, Crossing(trips, d, from, to))

----------------------------------------------------------------------------
(* The data: boots, blocks, readings and positions.                        *)

(* a_ms + (1 + b) * t, the boot's line from its clock to the absolute one. *)
Epoch(b, t) == b.a + (1 + b.slope) * t

BySeq(S) == SortBy(S, LAMBDA x, y : x.first < y.first)

FindBootForTrip(boots, d, g, id) == {b \in boots : b.dongle = d /\ b.gen = g /\ b.boot = id}

ListIntervalBoots(boots, d, from, to) ==
  BySeq({b \in boots : /\ b.dongle = d /\ b.src # "" /\ b.first # Null
                       /\ Epoch(b, b.lastT) >= from /\ Epoch(b, b.firstT) < to})

(* Boots with no time that may fall in the interval: received after t0 and *)
(* placed by seq between the last converted boot that ends before t0 and   *)
(* the first that starts at or after t1.                                   *)
ListUnconvertedBoots(boots, d, t0, t1) ==
  LET timed  == {b \in boots : b.dongle = d /\ b.src # "" /\ b.first # Null}
      before == {b.first : b \in {x \in timed : Epoch(x, x.lastT) < t0}}
      after  == {b.first : b \in {x \in timed : Epoch(x, x.firstT) >= t1}}
  IN  BySeq({u \in boots : /\ u.dongle = d /\ u.src = "" /\ u.first # Null /\ u.maxOff # Null
                           /\ u.maxOff + u.lastT >= t0
                           /\ u.first > Max(before \cup {0})
                           /\ \A f \in after : u.first < f})

DataBlocks(blocks, d, b, first, last) ==
  {x \in blocks : /\ x.dongle = d /\ x.seq >= first /\ x.seq <= last
                  /\ x.boot = b.boot /\ x.gen = b.gen /\ ~x.marker}

(* The empty set where the query finds no row.                             *)
BootFirstReceived(blocks, d, b, first, last) ==
  LET at == {x.received : x \in DataBlocks(blocks, d, b, first, last)}
  IN  IF at = {} THEN {} ELSE {Min(at)}
BootLastReceived(blocks, d, b, first, last) ==
  LET at == {x.received : x \in DataBlocks(blocks, d, b, first, last)}
  IN  IF at = {} THEN {} ELSE {Max(at)}

Selected(rows, q) ==
  {r \in rows : /\ r.dongle = q.dongle /\ r.gen = q.gen /\ r.boot = q.boot
                /\ r.received \in q.from..q.to
                /\ r.t >= q.tFrom /\ r.t <= q.tTo}
LoadTripReadings(readings, q) ==
  SortBy({r \in Selected(readings, q) : r.pid \in q.pids /\ r.value # Null},
         LAMBDA r, s : r.pid < s.pid \/ (r.pid = s.pid /\ r.t < s.t))
LoadTripPositions(positions, q) == SortBy(Selected(positions, q), LAMBDA r, s : r.t < s.t)

NextBootFirstSeq(boots, d, after) ==
  LET starts == {b.first : b \in {x \in boots : x.dongle = d /\ x.first > after}}
  IN  IF starts = {} THEN {} ELSE {Min(starts)}

MaxConvertedBlockTime(blocks, boots, d, from, to) ==
  LET times == {Epoch(p[2], p[1].t0) :
                  p \in {q \in blocks \X boots :
                           /\ q[1].dongle = d /\ ~q[1].marker /\ q[1].seq \in from..to
                           /\ q[2].dongle = d /\ q[2].gen = q[1].gen /\ q[2].boot = q[1].boot
                           /\ q[2].src # ""}}
  IN  IF times = {} THEN {} ELSE {Max(times)}

----------------------------------------------------------------------------
(* The API.                                                                *)

FindTrip(trips, i) == IF i \in DOMAIN trips /\ ~trips[i].excluded THEN {i} ELSE {}

LatestBootGeneration(boots, d, b) ==
  LET g == Generations(boots, d, b) IN IF g = {} THEN {} ELSE {Max(g)}

(* The ready trip first, then the oldest, then the smallest trip_id.       *)
FindSameTrip(trips, e) ==
  LET same  == {i \in DOMAIN trips : Live(trips[i]) /\ SameEntry(trips[i], e)}
      ready == {i \in same : trips[i].status = "ready"}
  IN  First(OldestFirst(trips, IF ready # {} THEN ready ELSE same))

(* The unique indexes of gold.trip: which of them refuses the row.         *)
Refused(trips, e) ==
  {ix \in {"driver", "entry"} :
     \E i \in DOMAIN trips :
       /\ Live(trips[i])
       /\ \/ ix = "driver" /\ trips[i].name = e.name /\ trips[i].category = e.category
          \/ ix = "entry" /\ SameEntry(trips[i], e)}

InsertTrip(trips, i, e, now) ==
  LET row == [category |-> e.category, name |-> e.name, dongle |-> e.dongle, entry |-> e.entry,
              gen |-> e.gen, boot |-> e.boot, start |-> e.start, end |-> e.end,
              status |-> "pending", target |-> e.target, first |-> Null, last |-> Null,
              through |-> Null, provisional |-> FALSE, recalc |-> FALSE, created |-> now,
              excluded |-> FALSE]
  IN  [j \in DOMAIN trips \cup {i} |-> IF j = i THEN row ELSE trips[j]]

(* search is the set of the names that contain the text: all for ''.       *)
Matches(t, search) == ~t.excluded /\ t.name \in search

(* Mutant: the cursor has no tie-break.                                    *)
ListTripsByTime(trips, cursor, search, limit) ==
  LET page == {i \in DOMAIN trips : Matches(trips[i], search) /\ (cursor = <<>> \/ trips[i].created < cursor[1])}
      newest == Reverse(OldestFirst(trips, page))
  IN  SubSeq(newest, 1, IF limit < Len(newest) THEN limit ELSE Len(newest))

ListTrips(trips, cursor, search, limit) ==
  LET page == {i \in DOMAIN trips :
                 /\ Matches(trips[i], search)
                 /\ \/ cursor = <<>>
                    \/ trips[i].created < cursor[1]
                    \/ trips[i].created = cursor[1] /\ i < cursor[2]}
      newest == Reverse(OldestFirst(trips, page))
  IN  SubSeq(newest, 1, IF limit < Len(newest) THEN limit ELSE Len(newest))

CountTrips(trips, search) == Cardinality({i \in DOMAIN trips : Matches(trips[i], search)})
=============================================================================
