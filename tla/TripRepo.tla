------------------------------- MODULE TripRepo -------------------------------
(***************************************************************************)
(* The trip repository over PostgreSQL: its methods as operators on        *)
(*                                                                         *)
(*   db = [trips, gold, boots, blocks, readings, positions, sent]          *)
(*                                                                         *)
(* built from the queries of TripTable.  A command returns the database,   *)
(* a query its answer; "found" is a sequence of length 0 or 1.             *)
(* TripResult is the analysis the worker stores, with one row where the    *)
(* analysis has one; every row is a value the operators only carry.        *)
(***************************************************************************)
EXTENDS TripTable

NoTime == "boot_sem_hora"

(* The rows of one table, numbered by their position in the result.        *)
Numbered(Insert(_, _, _, _), gold, i, rows) ==
  FoldLeftDomain(LAMBDA g, n : Insert(g, i, n, rows[n]), gold, rows)

insertRows(gold, i, res) ==
  LET parts  == Numbered(InsertTripPart, gold, i, res.parts)
      bands  == Numbered(InsertTripSpeedBand, parts, i, res.bands)
      events == Numbered(InsertTripEvent, bands, i, res.events)
      stops  == Numbered(InsertTripStop, events, i, res.stops)
      gears  == Numbered(InsertTripGear, stops, i, res.gears)
  IN  Numbered(InsertTripGearShift, gears, i, res.shifts)

summaryParams(res) == [warnings |-> res.warnings, line |-> res.summary]
seriesParams(res) == [route |-> res.route, line |-> res.series]

Emptied(gold, i) ==
  LET rows == DeleteTripEvents(DeleteTripSpeedBands(DeleteTripSummary(DeleteTripParts(gold, i), i), i), i)
  IN  DeleteTripSeries(DeleteTripGearShifts(DeleteTripGears(DeleteTripStops(rows, i), i), i), i)

(* Swaps the child rows and updates the trip, in the caller's transaction. *)
Save(db, i, c) ==
  LET rows == insertRows(Emptied(db.gold, i), i, c.result)
      sum  == InsertTripSummary(rows, i, summaryParams(c.result))
  IN  [db EXCEPT !.gold = InsertTripSeries(sum, i, seriesParams(c.result)),
                 !.trips = SaveTripResult(@, i, c)]

ListWaiting(db) == ListWaitingTrips(db.trips)
MarkWaiting(db, i) == [db EXCEPT !.trips = MarkTripWaiting(@, i)]
Resolved(db, i, d, b) == [db EXCEPT !.trips = ResolveTripGeneration(@, db.boots, i, d, b)]
ResolveGeneration(db, i, d, b) ==
  LET after == Resolved(db, i, d, b)
  IN  IF after = db THEN <<>> ELSE <<after.trips[i].gen>>
Take(db, i) == TakeTrip(db.trips, i, {})
TakeRecalc(db) == TakeRecalcTrip(db.trips, {})
Fail(db, i) == [db EXCEPT !.trips = FailTrip(@, i)]

(* The boots of the boot_sem_hora warnings kept in the summary.            *)
noTimeBoots(summary) ==
  IF summary = <<>> THEN <<>>
  ELSE LET ws == SelectSeq(summary[1].warnings, LAMBDA w : w.code = NoTime)
       IN  [n \in DOMAIN ws |-> ws[n].boot]

ListProvisional(db) ==
  LET ids == ListProvisionalTrips(db.trips)
  IN  [n \in DOMAIN ids |-> [id |-> ids[n], noTime |-> noTimeBoots(GetTripSummary(db.gold, ids[n]))]]

MarkRecalc(db, ids) == [db EXCEPT !.trips = MarkTripsRecalcByID(@, ids)]
ClearProvisional(db, i) == [db EXCEPT !.trips = ClearTripProvisional(@, i)]
MarkRecalcByRange(db, d, from, to) == [db EXCEPT !.trips = MarkTripsRecalc(@, d, to, from)]
Notify(db) == [db EXCEPT !.sent = NotifyTripPending(@)]
NotifyTrip(db, i) == [db EXCEPT !.sent = NotifyTripCreated(@, i)]
CountQueue(db) == CountTripQueue(db.trips)

(* A unique violation names its index: the driver's, or one of the trip's. *)
(* PostgreSQL checks the indexes of a row in the order they were created.  *)
InsertError(db, e) ==
  CASE "driver" \in Refused(db.trips, e) -> "ErrDriverRepeated"
    [] Refused(db.trips, e) = {"entry"}  -> "ErrTripRepeated"
    [] OTHER                             -> ""
Insert(db, i, e, now) ==
  IF InsertError(db, e) # "" THEN db ELSE [db EXCEPT !.trips = InsertTrip(@, i, e, now)]

Find(db, i) == FindTrip(db.trips, i)
FindSame(db, e) == FindSameTrip(db.trips, e)
LatestGeneration(db, d, b) == LatestBootGeneration(db.boots, d, b)

fillRows(db, i) ==
  [parts |-> ListTripParts(db.gold, i), bands |-> ListTripSpeedBands(db.gold, i),
   events |-> ListTripEvents(db.gold, i), stops |-> ListTripStops(db.gold, i),
   gears |-> ListTripGears(db.gold, i), shifts |-> ListTripGearShifts(db.gold, i)]

routeOrNil(route) == IF route = <<>> THEN {} ELSE {route}

summaryFrom(row) == row.line

(* The trip and, once it is ready, its child tables; {} if there is none.  *)
readAnalysis(db, i) ==
  IF Find(db, i) = {} THEN {}
  ELSE IF db.trips[i].status # "ready" THEN {[id |-> i]}
  ELSE LET summary == GetTripSummary(db.gold, i)[1]
           series  == GetTripSeries(db.gold, i)[1]
       IN  {[id |-> i, rows |-> fillRows(db, i), summary |-> summaryFrom(summary),
             warnings |-> summary.warnings, series |-> series.line,
             route |-> routeOrNil(series.route)]}

(* The page is the first limit rows; one more row says that there is a     *)
(* next page, which starts after the last row kept.                        *)
PageOf(ids, trips, total, limit) ==
  IF Len(ids) > limit
  THEN [items |-> SubSeq(ids, 1, limit), total |-> total,
        next |-> <<trips[ids[limit]].created, ids[limit]>>]
  ELSE [items |-> ids, total |-> total, next |-> <<>>]

readList(db, q) ==
  LET ids == ListTrips(db.trips, q.cursor, q.search, q.limit + 1)
      shown(n) == n <= q.limit /\ db.trips[ids[n]].status = "ready"
      routes == ListTripRoutes(db.gold, {ids[n] : n \in {m \in DOMAIN ids : shown(m)}})
      page == PageOf(ids, db.trips, CountTrips(db.trips, q.search), q.limit)
  IN  [page |-> page,
       routes |-> [n \in DOMAIN page.items |->
                     UNION {routeOrNil(r.row.route) : r \in {x \in routes : x.id = page.items[n]}}]]

----------------------------------------------------------------------------
(* The data the calculation loads.                                         *)

FindBoot(db, d, g, id) == FindBootForTrip(db.boots, d, g, id)
IntervalBoots(db, d, from, to) == ListIntervalBoots(db.boots, d, from, to)
UnconvertedBoots(db, d, t0, t1) == ListUnconvertedBoots(db.boots, d, t0, t1)

(* First and last reception of the boot's data blocks; {} if none.         *)
ReceivedRange(db, d, b) ==
  IF b.first = Null \/ b.last = Null THEN {}
  ELSE BootFirstReceived(db.blocks, d, b, b.first, b.last)
         \X BootLastReceived(db.blocks, d, b, b.first, b.last)

LoadReadings(db, q) ==
  LET rows == LoadTripReadings(db.readings, q)
  IN  [n \in DOMAIN rows |-> <<rows[n].pid, rows[n].t, rows[n].value>>]
LoadPositions(db, q) ==
  LET rows == LoadTripPositions(db.positions, q)
  IN  [n \in DOMAIN rows |-> <<rows[n].t, rows[n].value>>]

NextBootStart(db, d, after) == NextBootFirstSeq(db.boots, d, after)
MaxBlockTime(db, d, from, to) == MaxConvertedBlockTime(db.blocks, db.boots, d, from, to)
=============================================================================
