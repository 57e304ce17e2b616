------------------------------ MODULE TripMemory ------------------------------
(***************************************************************************)
(* The in-memory trip repository that the use-case and HTTP tests run on:  *)
(*                                                                         *)
(*   m = [trips, boots, blocks, readings, positions, sent]                 *)
(*                                                                         *)
(* m.trips is a sequence of rows in insertion order, each with the result  *)
(* its last Save stored (calc, a sequence of length 0 or 1); the other     *)
(* tables are sequences of the rows of TripTable.  The methods are written *)
(* over loops and stable sorts, so order in the sequences is observable.   *)
(***************************************************************************)
EXTENDS Integers, FiniteSets, Sequences, SequencesExt, TLC

LOCAL T == INSTANCE TripTable

Null == -1

(* Position of the trip, {} if there is none; ids are never repeated.      *)
TripByID(m, i) == {n \in DOMAIN m.trips : m.trips[n].id = i}

Changed(m, S, Change(_)) ==
  [m EXCEPT !.trips = [n \in DOMAIN @ |-> IF n \in S THEN Change(@[n]) ELSE @[n]]]

IdsOf(rows) == [n \in DOMAIN rows |-> rows[n].id]

(* sort.SliceStable by created_at.                                         *)
StableOldest(m, Keep(_)) ==
  LET kept == {n \in DOMAIN m.trips : Keep(m.trips[n])}
      order == SetToSortSeq(kept, LAMBDA a, b : \/ m.trips[a].created < m.trips[b].created
                                                \/ m.trips[a].created = m.trips[b].created /\ a < b)
  IN  [n \in DOMAIN order |-> m.trips[order[n]].id]

Waiting(x) == x.status \in {"pending", "waiting_data"}

ListWaiting(m) == StableOldest(m, Waiting)

MarkWaiting(m, i) ==
  Changed(m, {n \in TripByID(m, i) : m.trips[n].status = "pending"},
          LAMBDA x : [x EXCEPT !.status = "waiting_data"])

LatestGeneration(m, d, b) ==
  LET gens == {m.boots[n].gen : n \in {k \in DOMAIN m.boots : m.boots[k].dongle = d /\ m.boots[k].boot = b}}
  IN  {g \in gens : \A h \in gens : h <= g}

ResolveGeneration(m, i, d, b) ==
  IF \E n \in TripByID(m, i) : m.trips[n].gen = Null
  THEN SetToSeq(LatestGeneration(m, d, b)) ELSE <<>>
Resolved(m, i, d, b) ==
  Changed(m, {n \in TripByID(m, i) : ResolveGeneration(m, i, d, b) # <<>>},
          LAMBDA x : [x EXCEPT !.gen = ResolveGeneration(m, i, d, b)[1]])

Take(m, i) == IF \E n \in TripByID(m, i) : Waiting(m.trips[n]) THEN <<i>> ELSE <<>>

(* The first of the oldest: a later one must be strictly older to win.     *)
TakeRecalc(m) == T!First(StableOldest(m, LAMBDA x : x.status = "ready" /\ x.recalc))

Save(m, i, c) ==
  Changed(m, TripByID(m, i),
          LAMBDA x : [x EXCEPT !.status = "ready", !.first = c.first, !.last = c.last,
                               !.through = c.through, !.provisional = c.provisional,
                               !.recalc = FALSE, !.calc = <<c>>])

Fail(m, i) ==
  Changed(m, TripByID(m, i),
          LAMBDA x : [x EXCEPT !.status = IF @ = "ready" THEN @ ELSE "failed", !.recalc = FALSE])

TripOf(m, i) == m.trips[CHOOSE n \in TripByID(m, i) : TRUE]

ListProvisional(m) ==
  LET ids == StableOldest(m, LAMBDA x : x.status = "ready" /\ x.provisional /\ ~x.recalc)
      noTime(x) == IF x.calc = <<>> THEN <<>>
                   ELSE LET ws == SelectSeq(x.calc[1].result.warnings, LAMBDA w : w.code = "boot_sem_hora")
                        IN  [k \in DOMAIN ws |-> ws[k].boot]
  IN  [n \in DOMAIN ids |-> [id |-> ids[n], noTime |-> noTime(TripOf(m, ids[n]))]]

MarkRecalc(m, ids) ==
  Changed(m, {n \in DOMAIN m.trips : m.trips[n].id \in ids /\ m.trips[n].status = "ready"},
          LAMBDA x : [x EXCEPT !.recalc = TRUE])

ClearProvisional(m, i) ==
  Changed(m, {n \in TripByID(m, i) : m.trips[n].status = "ready"},
          LAMBDA x : [x EXCEPT !.provisional = FALSE])

MarkRecalcByRange(m, d, from, to) ==
  Changed(m, {n \in DOMAIN m.trips :
                LET x == m.trips[n]
                IN  /\ x.dongle = d /\ x.status = "ready"
                    /\ x.first # Null /\ x.last # Null /\ x.first <= to /\ x.last >= from},
          LAMBDA x : [x EXCEPT !.recalc = TRUE])

Notify(m) == [m EXCEPT !.sent = Append(@, "")]
NotifyTrip(m, i) == [m EXCEPT !.sent = Append(@, i)]

CountQueue(m) ==
  [waiting |-> Cardinality({n \in DOMAIN m.trips : Waiting(m.trips[n])}),
   recalc  |-> Cardinality({n \in DOMAIN m.trips : m.trips[n].recalc})]

----------------------------------------------------------------------------
(* Creating and reading trips.                                             *)

sameEntry(x, e) ==
  /\ x.status # "failed" /\ x.dongle = e.dongle /\ x.entry = e.entry
  /\ IF e.entry = "boot" THEN x.gen # Null /\ x.gen = e.gen /\ x.boot = e.boot
     ELSE x.start = e.start /\ x.end = e.end

InsertError(m, e) ==
  CASE \E n \in DOMAIN m.trips : sameEntry(m.trips[n], e) -> "ErrTripRepeated"
    [] \E n \in DOMAIN m.trips : /\ m.trips[n].status # "failed"
                                 /\ m.trips[n].category = e.category
                                 /\ m.trips[n].name = e.name   -> "ErrDriverRepeated"
    [] OTHER -> ""

Insert(m, i, e, now) ==
  IF InsertError(m, e) # "" THEN m
  ELSE [m EXCEPT !.trips =
         Append(@, [id |-> i, category |-> e.category, name |-> e.name, dongle |-> e.dongle,
                    entry |-> e.entry, gen |-> e.gen, boot |-> e.boot, start |-> e.start,
                    end |-> e.end, status |-> "pending", target |-> e.target, first |-> Null,
                    last |-> Null, through |-> Null, provisional |-> FALSE, recalc |-> FALSE,
                    created |-> now, calc |-> <<>>])]

Find(m, i) == {m.trips[n].id : n \in TripByID(m, i)}

FindSame(m, e) ==
  LET Better(x, y) == \/ x.status = "ready" /\ y.status # "ready"
                      \/ (x.status = "ready") = (y.status = "ready") /\ x.created < y.created
      pick == FoldLeftDomain(LAMBDA best, n :
                IF ~sameEntry(m.trips[n], e) THEN best
                ELSE IF best = 0 THEN n
                ELSE IF Better(m.trips[n], m.trips[best]) THEN n ELSE best, 0, m.trips)
  IN  IF pick = 0 THEN <<>> ELSE <<m.trips[pick].id>>

Analysis(m, i) ==
  IF TripByID(m, i) = {} THEN {}
  ELSE LET x == TripOf(m, i)
       IN  IF x.status # "ready" \/ x.calc = <<>> THEN {[id |-> i]}
           ELSE LET res == x.calc[1].result
                IN  {[id |-> i, rows |-> [parts |-> res.parts, bands |-> res.bands,
                                          events |-> res.events, stops |-> res.stops,
                                          gears |-> res.gears, shifts |-> res.shifts],
                      summary |-> res.summary, warnings |-> res.warnings, series |-> res.series,
                      route |-> IF res.route = <<>> THEN {} ELSE {res.route}]}

(* Newest first, then the greater id; the cursor skips to after its row.   *)
List(m, q) ==
  LET rows   == {n \in DOMAIN m.trips : m.trips[n].name \in q.search}
      Newer(a, b) == \/ m.trips[a].created > m.trips[b].created
                     \/ m.trips[a].created = m.trips[b].created /\ m.trips[a].id > m.trips[b].id
      After(n) == \/ q.cursor = <<>>
                  \/ m.trips[n].created < q.cursor[1]
                  \/ m.trips[n].created = q.cursor[1] /\ m.trips[n].id < q.cursor[2]
      sorted == SetToSortSeq({n \in rows : After(n)}, Newer)
      got    == SubSeq(sorted, 1, IF Len(sorted) < q.limit + 1 THEN Len(sorted) ELSE q.limit + 1)
      items  == SubSeq(got, 1, IF Len(got) < q.limit THEN Len(got) ELSE q.limit)
      last   == m.trips[items[Len(items)]]
      shown(x) == IF x.status = "ready" /\ x.calc # <<>> /\ x.calc[1].result.route # <<>>
                  THEN {x.calc[1].result.route} ELSE {}
  IN  [page |-> [items |-> [n \in DOMAIN items |-> m.trips[items[n]].id],
                 total |-> Cardinality(rows),
                 next  |-> IF Len(got) > q.limit THEN <<last.created, last.id>> ELSE <<>>],
       routes |-> [n \in DOMAIN items |-> shown(m.trips[items[n]])]]

----------------------------------------------------------------------------
(* The data the calculation loads.                                         *)

FindBoot(m, d, g, id) ==
  {m.boots[n] : n \in {k \in DOMAIN m.boots :
     m.boots[k].dongle = d /\ m.boots[k].gen = g /\ m.boots[k].boot = id}}

sortedBoots(m, Keep(_)) ==
  LET kept  == {n \in DOMAIN m.boots : Keep(m.boots[n])}
      order == SetToSortSeq(kept, LAMBDA a, b : \/ m.boots[a].first < m.boots[b].first
                                                \/ m.boots[a].first = m.boots[b].first /\ a < b)
  IN  [n \in DOMAIN order |-> m.boots[order[n]]]

Timed(b, d) == b.dongle = d /\ b.src # "" /\ b.first # Null

IntervalBoots(m, d, from, to) ==
  sortedBoots(m, LAMBDA b : Timed(b, d) /\ T!Epoch(b, b.lastT) >= from /\ T!Epoch(b, b.firstT) < to)

UnconvertedBoots(m, d, t0, t1) ==
  LET lo == FoldLeft(LAMBDA acc, b : IF Timed(b, d) /\ T!Epoch(b, b.lastT) < t0 /\ b.first > acc
                                     THEN b.first ELSE acc, 0, m.boots)
      Below(b) == \A n \in DOMAIN m.boots :
                    LET x == m.boots[n]
                    IN  Timed(x, d) /\ T!Epoch(x, x.firstT) >= t1 => b.first < x.first
  IN  sortedBoots(m, LAMBDA b : /\ b.dongle = d /\ b.src = "" /\ b.first # Null /\ b.maxOff # Null
                                /\ b.maxOff + b.lastT >= t0 /\ b.first > lo /\ Below(b))

(* The blocks in memory are data blocks only (SourceBlock).                *)
ReceivedRange(m, d, b) ==
  LET at == {m.blocks[n].received : n \in {k \in DOMAIN m.blocks :
               LET x == m.blocks[k]
               IN  /\ x.dongle = d /\ x.gen = b.gen /\ x.boot = b.boot
                   /\ b.first # Null /\ b.last # Null /\ x.seq >= b.first /\ x.seq <= b.last}}
  IN  {<<f, l>> \in at \X at : \A x \in at : f <= x /\ x <= l}

Rows(rows, q, Keep(_)) ==
  SelectSeq(rows, LAMBDA x : /\ x.dongle = q.dongle /\ x.gen = q.gen /\ x.boot = q.boot
                             /\ x.received >= q.from /\ x.received <= q.to
                             /\ x.t >= q.tFrom /\ x.t <= q.tTo /\ Keep(x))
LoadReadings(m, q) ==
  LET rows == SortSeq(Rows(m.readings, q, LAMBDA x : x.pid \in q.pids),
                      LAMBDA x, y : x.pid < y.pid \/ (x.pid = y.pid /\ x.t < y.t))
  IN  [n \in DOMAIN rows |-> <<rows[n].pid, rows[n].t, rows[n].value>>]
LoadPositions(m, q) ==
  LET rows == SortSeq(Rows(m.positions, q, LAMBDA x : TRUE), LAMBDA x, y : x.t < y.t)
  IN  [n \in DOMAIN rows |-> <<rows[n].t, rows[n].value>>]

NextBootStart(m, d, after) ==
  LET starts == {m.boots[n].first : n \in {k \in DOMAIN m.boots :
                   m.boots[k].dongle = d /\ m.boots[k].first # Null /\ m.boots[k].first > after}}
  IN  {s \in starts : \A x \in starts : s <= x}

MaxBlockTime(m, d, from, to) ==
  LET boot(x) == FindBoot(m, d, x.gen, x.boot)
      seen == UNION {{T!Epoch(b, x.t0) : b \in {y \in boot(x) : y.src # ""}} :
                     x \in {y \in ToSet(m.blocks) : y.dongle = d /\ y.seq >= from /\ y.seq <= to}}
  IN  {t \in seen : \A u \in seen : u <= t}
=============================================================================
