--------------------------- MODULE TripWorkerProofs ---------------------------
(***************************************************************************)
(* Proofs about TripWorker, for every log of the dongle, every set of      *)
(* trips and any number of workers, crashes, reprocesses and errors: the   *)
(* result of a trip only advances, calculated_through_seq is honest, a     *)
(* trip of a boot that is final has all that the dongle recorded in it, no *)
(* trip is in two jobs, and a reprocess under a ready trip is seen.        *)
(***************************************************************************)
EXTENDS TripWorker, IntervalProofs, SequenceTheorems, TLAPS

-------------------------------------------------------------------------------
(* Queries in order                                                          *)

(* s lists the elements of S.                                                *)
Lists(s, S) ==
  /\ s \in Seq(S) /\ Len(s) = Cardinality(S)
  /\ \A x \in S : \E n \in DOMAIN s : s[n] = x

(* R orders any two elements of S.                                           *)
Orders(R, S) ==
  /\ \A x \in S : <<x, x>> \notin R
  /\ \A x, y \in S : x # y => <<x, y>> \in R \/ <<y, x>> \in R
  /\ \A x, y, z \in S : <<x, y>> \in R /\ <<y, z>> \in R => <<x, z>> \in R

(* What SortBy builds, with the order given as a relation.                   *)
Places(R, S) == [x \in S |-> 1 + Cardinality({y \in S : <<y, x>> \in R})]
Placed(S, place) == [n \in 1..Cardinality(S) |-> CHOOSE x \in S : place[x] = n]

(* In a finite set, ordered, the number of elements before it tells an       *)
(* element from the others: SortBy has an element for every place.           *)
LEMMA EveryPlaceIsTaken ==
  ASSUME NEW S, IsFiniteSet(S), NEW R, Orders(R, S), NEW place, place = Places(R, S)
  PROVE  Lists(Placed(S, place), S)
<1> DEFINE size == Cardinality(S)
           Before(x) == {y \in S : <<y, x>> \in R}
<1>1. size \in Nat
  BY FS_CardinalityType
<1>2. ASSUME NEW x \in S PROVE IsFiniteSet(Before(x)) /\ Cardinality(Before(x)) \in Nat /\ Cardinality(Before(x)) < size
  <2>1. Before(x) \in SUBSET S /\ Before(x) # S
    BY DEF Orders
  <2>2. IsFiniteSet(Before(x)) /\ Cardinality(Before(x)) <= size /\ (size = Cardinality(Before(x)) => S = Before(x))
    BY <2>1, FS_Subset
  <2>3. Cardinality(Before(x)) \in Nat
    BY <2>2, FS_CardinalityType
  <2> QED BY <2>1, <2>2, <2>3, <1>1
<1>3. ASSUME NEW x \in S, NEW y \in S, <<x, y>> \in R PROVE Cardinality(Before(x)) < Cardinality(Before(y))
  <2>1. Before(x) \in SUBSET Before(y) /\ Before(x) # Before(y)
    BY <1>3 DEF Orders
  <2>2. IsFiniteSet(Before(y))
    BY <1>2
  <2>3. Cardinality(Before(x)) <= Cardinality(Before(y)) /\ (Cardinality(Before(y)) = Cardinality(Before(x)) => Before(y) = Before(x))
    BY <2>1, <2>2, FS_Subset
  <2>4. Cardinality(Before(x)) \in Nat /\ Cardinality(Before(y)) \in Nat
    BY <1>2
  <2> QED BY <2>1, <2>3, <2>4
<1>4. place = [x \in S |-> 1 + Cardinality(Before(x))]
  BY DEF Places
<1> HIDE DEF size, Before
<1>5. place \in [S -> 1..size] /\ \A x \in S : place[x] = 1 + Cardinality(Before(x))
  BY <1>1, <1>2, <1>4
<1>6. ASSUME NEW x \in S, NEW y \in S, place[x] = place[y] PROVE x = y
  <2>1. Cardinality(Before(x)) \in Nat /\ Cardinality(Before(y)) \in Nat
    BY <1>2
  <2>2. ~(Cardinality(Before(x)) < Cardinality(Before(y))) /\ ~(Cardinality(Before(y)) < Cardinality(Before(x)))
    BY <2>1, <1>5, <1>6
  <2> QED BY <2>2, <1>3 DEF Orders
<1>7. place \in Injection(S, 1..size)
  BY <1>5, <1>6 DEF Injection, IsInjective
<1>8. IsFiniteSet(1..size) /\ Cardinality(1..size) = size
  BY <1>1, FS_Interval
<1>9. place \in Surjection(S, 1..size)
  BY <1>7, <1>8, FS_Injection DEF size
<1>10. \A k \in 1..size : \E x \in S : place[x] = k
  BY <1>9 DEF Surjection
<1>11. \A k \in 1..size : (CHOOSE x \in S : place[x] = k) \in S /\ place[CHOOSE x \in S : place[x] = k] = k
  BY <1>10
<1>12. ASSUME NEW x \in S PROVE \E k \in 1..size : (CHOOSE y \in S : place[y] = k) = x
  <2>1. place[x] \in 1..size
    BY <1>5
  <2> QED BY <2>1, <1>11, <1>6
<1> DEFINE s == [n \in 1..size |-> CHOOSE x \in S : place[x] = n]
<1>13. DOMAIN s = 1..size /\ \A k \in 1..size : s[k] = CHOOSE x \in S : place[x] = k
  OBVIOUS
<1>14. \A k \in 1..size : s[k] \in S
  BY <1>11, <1>13
<1>15. \A x \in S : \E k \in 1..size : s[k] = x
  BY <1>12, <1>13
<1>16. s \in Seq(S) /\ Len(s) = size
  <2>1. s \in [1..size -> S]
    BY <1>11
  <2> HIDE DEF s
  <2>2. s \in Seq(S)
    BY <2>1, <1>1, SeqDef
  <2> QED BY <2>1, <2>2, <1>1, LenProperties
<1> HIDE DEF s
<1>17. Lists(s, S)
  BY <1>13, <1>15, <1>16 DEF Lists, size
<1> QED
  BY <1>17 DEF s, size, Placed

(* ORDER BY created_at, trip_id.                                             *)
LEMMA OldestFirstLists ==
  ASSUME NEW T, NEW S \in SUBSET Nat, IsFiniteSet(S), \A t \in S : T[t].created \in Nat
  PROVE  Lists(OldestFirst(T, S), S)
<1> DEFINE Older(y, x) == \/ T[y].created < T[x].created
                          \/ T[y].created = T[x].created /\ y < x
           R == {p \in S \X S : Older(p[1], p[2])}
           place == [x \in S |-> 1 + Cardinality({y \in S : Older(y, x)})]
<1>1. \A x, y \in S : <<y, x>> \in R <=> Older(y, x)
  OBVIOUS
<1>2. Orders(R, S)
  <2> HIDE DEF R
  <2> QED BY <1>1 DEF Orders
<1>3. \A x \in S : {y \in S : <<y, x>> \in R} = {y \in S : Older(y, x)}
  <2> HIDE DEF R, Older
  <2> QED BY <1>1
<1>4. place = Places(R, S)
  <2> HIDE DEF R, Older
  <2> QED BY <1>3 DEF Places
<1>5. Lists(Placed(S, place), S)
  <2> HIDE DEF R, place, Older
  <2> QED BY <1>2, <1>4, EveryPlaceIsTaken
<1>6. OldestFirst(T, S) = Placed(S, place)
  <2> DEFINE nth(n) == CHOOSE x \in S : place[x] = n
             ranked(n) == CHOOSE x \in S : 1 + Cardinality({y \in S : Older(y, x)}) = n
  <2>1. \A x \in S : place[x] = 1 + Cardinality({y \in S : Older(y, x)})
    OBVIOUS
  <2>2. OldestFirst(T, S) = [n \in 1..Cardinality(S) |-> ranked(n)]
    BY Zenon DEF OldestFirst, SortBy
  <2> HIDE DEF place, Older
  <2>3. \A n : nth(n) = ranked(n)
    BY <2>1
  <2>4. Placed(S, place) = [n \in 1..Cardinality(S) |-> nth(n)]
    BY DEF Placed
  <2> HIDE DEF nth, ranked
  <2> QED BY <2>2, <2>3, <2>4
<1> HIDE DEF place
<1> QED
  BY <1>5, <1>6
-------------------------------------------------------------------------------
(* The table of trips                                                        *)

Tables == {"trips", "gold", "boots", "blocks", "readings", "positions", "sent"}
Columns == {"category", "name", "dongle", "entry", "gen", "boot", "start", "end", "status", "target",
            "first", "last", "through", "provisional", "recalc", "created", "excluded"}

(* A row of the trip t when the log has come up to top.                      *)
TripRow(t, r, top) ==
  /\ DOMAIN r = Columns
  /\ r.created \in Nat
  /\ r.entry = Entry[t].entry /\ r.boot = Entry[t].boot /\ r.dongle = Entry[t].dongle
  /\ r.start = Entry[t].start /\ r.end = Entry[t].end
  /\ r.status = "ready" => r.through \in 0..top
TripsOK(T, top) == DOMAIN T \subseteq Trips /\ \A t \in DOMAIN T : TripRow(t, T[t], top)

(* What every command but Save leaves of a row.                              *)
SameResult(r, s) ==
  /\ (s.status = "ready") = (r.status = "ready") /\ s.through = r.through
  /\ r.gen = Null \/ s.gen = r.gen
Keeps(T, T1) == \A t \in DOMAIN T : t \in DOMAIN T1 /\ SameResult(T[t], T1[t])

LEMMA MarkTripWaitingKeeps ==
  ASSUME NEW T, NEW top, TripsOK(T, top), NEW i
  PROVE  TripsOK(MarkTripWaiting(T, i), top) /\ Keeps(T, MarkTripWaiting(T, i))
<1>1. CASE i \in DOMAIN T /\ T[i].status = "pending"
  <2> DEFINE T1 == MarkTripWaiting(T, i)
  <2>1. T1 = [T EXCEPT ![i].status = "waiting_data"]
    BY <1>1 DEF MarkTripWaiting
  <2>2. DOMAIN T1 = DOMAIN T /\ \A t \in DOMAIN T : T1[t] = IF t = i THEN [T[t] EXCEPT !.status = "waiting_data"] ELSE T[t]
    BY <2>1
  <2> HIDE DEF T1
  <2>3. ASSUME NEW t \in DOMAIN T PROVE TripRow(t, T1[t], top) /\ SameResult(T[t], T1[t])
    BY <1>1, <2>2 DEF TripsOK, TripRow, SameResult, Columns
  <2> QED BY <2>2, <2>3 DEF TripsOK, Keeps, T1
<1>2. CASE ~(i \in DOMAIN T /\ T[i].status = "pending")
  BY <1>2 DEF MarkTripWaiting, Keeps, SameResult
<1> QED
  BY <1>1, <1>2

LEMMA ResolveKeeps ==
  ASSUME NEW T, NEW top, TripsOK(T, top), NEW i, NEW B, NEW d, NEW b
  PROVE  TripsOK(ResolveTripGeneration(T, B, i, d, b), top) /\ Keeps(T, ResolveTripGeneration(T, B, i, d, b))
<1> DEFINE T1 == ResolveTripGeneration(T, B, i, d, b)
           g == Max(Generations(B, d, b))
<1>1. T1 = T \/ (i \in DOMAIN T /\ T[i].gen = Null /\ T1 = [T EXCEPT ![i].gen = g])
  BY DEF ResolveTripGeneration
<1> HIDE DEF T1, g
<1>2. CASE i \in DOMAIN T /\ T[i].gen = Null /\ T1 = [T EXCEPT ![i].gen = g]
  <2>2. DOMAIN T1 = DOMAIN T /\ \A t \in DOMAIN T : T1[t] = IF t = i THEN [T[t] EXCEPT !.gen = g] ELSE T[t]
    BY <1>2
  <2>3. ASSUME NEW t \in DOMAIN T PROVE TripRow(t, T1[t], top) /\ SameResult(T[t], T1[t])
    BY <1>2, <2>2 DEF TripsOK, TripRow, SameResult, Columns
  <2> QED BY <2>2, <2>3 DEF TripsOK, Keeps, T1
<1>3. CASE T1 = T
  BY <1>3 DEF T1, Keeps, SameResult
<1> QED
  BY <1>1, <1>2, <1>3

LEMMA FailKeeps ==
  ASSUME NEW T, NEW top, TripsOK(T, top), NEW i
  PROVE  TripsOK(FailTrip(T, i), top) /\ Keeps(T, FailTrip(T, i))
<1>1. CASE i \in DOMAIN T
  <2> DEFINE T1 == FailTrip(T, i)
             s == IF T[i].status = "ready" THEN "ready" ELSE "failed"
  <2>2. (s = "ready") = (T[i].status = "ready")
    OBVIOUS
  <2>3. DOMAIN T1 = DOMAIN T /\ \A t \in DOMAIN T : T1[t] = IF t = i THEN [T[t] EXCEPT !.status = s, !.recalc = FALSE] ELSE T[t]
    BY <1>1 DEF FailTrip
  <2> HIDE DEF s
  <2> HIDE DEF T1
  <2>4. ASSUME NEW t \in DOMAIN T PROVE TripRow(t, T1[t], top) /\ SameResult(T[t], T1[t])
    <3>1. TripRow(t, T[t], top)
      BY DEF TripsOK
    <3>2. CASE t # i
      BY <2>3, <3>1, <3>2 DEF SameResult
    <3>3. CASE t = i
      <4> DEFINE x == T[t]
      <4>1. T1[t] = [x EXCEPT !.status = s, !.recalc = FALSE] /\ TripRow(t, x, top) /\ (s = "ready") = (x.status = "ready")
        BY <2>2, <2>3, <3>1, <3>3
      <4>2. s = x.status \/ s = "failed"
        BY <3>3 DEF s
      <4> HIDE DEF x, s
      <4>3. TripRow(t, T1[t], top)
        BY <4>1, <4>2 DEF TripRow, Columns
      <4>4. SameResult(x, T1[t])
        BY <4>1, <4>2 DEF TripRow, SameResult, Columns
      <4> QED BY <4>3, <4>4 DEF x
    <3> QED BY <3>2, <3>3
  <2> QED BY <2>3, <2>4 DEF TripsOK, Keeps, T1
<1>2. CASE i \notin DOMAIN T
  BY <1>2 DEF FailTrip, Keeps, SameResult
<1> QED
  BY <1>1, <1>2

LEMMA MarkedKeeps ==
  ASSUME NEW T, NEW top, TripsOK(T, top), NEW S
  PROVE  TripsOK(Marked(T, S), top) /\ Keeps(T, Marked(T, S))
<1> DEFINE T1 == Marked(T, S)
<1>1. DOMAIN T1 = DOMAIN T /\ \A t \in DOMAIN T : T1[t] = IF t \in S THEN [T[t] EXCEPT !.recalc = TRUE] ELSE T[t]
  BY DEF Marked
<1> HIDE DEF T1
<1>2. ASSUME NEW t \in DOMAIN T PROVE TripRow(t, T1[t], top) /\ SameResult(T[t], T1[t])
  BY <1>1 DEF TripsOK, TripRow, SameResult, Columns
<1> QED
  BY <1>1, <1>2 DEF TripsOK, Keeps, T1

LEMMA ClearKeeps ==
  ASSUME NEW T, NEW top, TripsOK(T, top), NEW i
  PROVE  TripsOK(ClearTripProvisional(T, i), top) /\ Keeps(T, ClearTripProvisional(T, i))
<1>1. CASE i \in DOMAIN T /\ T[i].status = "ready"
  <2> DEFINE T1 == ClearTripProvisional(T, i)
  <2>1. T1 = [T EXCEPT ![i].provisional = FALSE]
    BY <1>1 DEF ClearTripProvisional
  <2>2. DOMAIN T1 = DOMAIN T /\ \A t \in DOMAIN T : T1[t] = IF t = i THEN [T[t] EXCEPT !.provisional = FALSE] ELSE T[t]
    BY <2>1
  <2> HIDE DEF T1
  <2>3. ASSUME NEW t \in DOMAIN T PROVE TripRow(t, T1[t], top) /\ SameResult(T[t], T1[t])
    BY <2>2 DEF TripsOK, TripRow, SameResult, Columns
  <2> QED BY <2>2, <2>3 DEF TripsOK, Keeps, T1
<1>2. CASE ~(i \in DOMAIN T /\ T[i].status = "ready")
  BY <1>2 DEF ClearTripProvisional, Keeps, SameResult
<1> QED
  BY <1>1, <1>2

(* The entry of the request with its target and its generation filled in.    *)
SameEntryAs(e, t) ==
  /\ e.entry = Entry[t].entry /\ e.boot = Entry[t].boot /\ e.dongle = Entry[t].dongle
  /\ e.start = Entry[t].start /\ e.end = Entry[t].end

LEMMA InsertKeeps ==
  ASSUME NEW T, NEW top, TripsOK(T, top), NEW i \in Trips, i \notin DOMAIN T, NEW e, SameEntryAs(e, i),
         NEW now \in Nat
  PROVE  TripsOK(InsertTrip(T, i, e, now), top) /\ Keeps(T, InsertTrip(T, i, e, now))
<1> DEFINE T1 == InsertTrip(T, i, e, now)
<1>1. DOMAIN T1 = DOMAIN T \cup {i} /\ (\A t \in DOMAIN T : T1[t] = T[t])
  BY DEF InsertTrip
<1>2. TripRow(i, T1[i], top)
  <2>1. /\ T1[i].created = now /\ T1[i].entry = e.entry /\ T1[i].boot = e.boot /\ T1[i].start = e.start
        /\ T1[i].end = e.end /\ T1[i].status = "pending" /\ T1[i].dongle = e.dongle
    BY DEF InsertTrip
  <2>2. DOMAIN T1[i] = Columns
    BY DEF InsertTrip, Columns
  <2> HIDE DEF T1
  <2> QED BY <2>1, <2>2 DEF TripRow, SameEntryAs
<1> HIDE DEF T1
<1>3. \A t \in DOMAIN T1 : TripRow(t, T1[t], top)
  BY <1>1, <1>2 DEF TripsOK
<1>4. \A t \in DOMAIN T : t \in DOMAIN T1 /\ SameResult(T[t], T1[t])
  BY <1>1 DEF SameResult
<1> QED
  BY <1>1, <1>3, <1>4 DEF TripsOK, Keeps, T1

-------------------------------------------------------------------------------
(* What a step does to the database                                          *)

DbOK(D, top) == DOMAIN D = Tables /\ TripsOK(D.trips, top)

(* From D to D1 only the table of trips changes, and no result.              *)
OnlyTrips(D, D1) ==
  /\ DOMAIN D1 = Tables /\ Keeps(D.trips, D1.trips)
  /\ \A x \in Tables \ {"trips"} : D1[x] = D[x]

LEMMA KeepsTransitive ==
  ASSUME NEW T, NEW T1, NEW T2, Keeps(T, T1), Keeps(T1, T2)
  PROVE  Keeps(T, T2)
  BY DEF Keeps, SameResult

LEMMA WithTrips ==
  ASSUME NEW D, NEW top, DbOK(D, top), NEW T, TripsOK(T, top), Keeps(D.trips, T), NEW D1, D1 = [D EXCEPT !.trips = T]
  PROVE  DbOK(D1, top) /\ OnlyTrips(D, D1) /\ D1.trips = T
<1>1. DOMAIN D1 = Tables /\ D1.trips = T /\ \A x \in Tables \ {"trips"} : D1[x] = D[x]
  BY DEF DbOK, Tables
<1> QED
  BY <1>1 DEF DbOK, OnlyTrips

LEMMA OnlyTripsTransitive ==
  ASSUME NEW D, NEW D1, NEW D2, OnlyTrips(D, D1), OnlyTrips(D1, D2)
  PROVE  OnlyTrips(D, D2)
<1>1. Keeps(D.trips, D2.trips)
  BY KeepsTransitive DEF OnlyTrips
<1> QED
  BY <1>1 DEF OnlyTrips

LEMMA OnlyTripsReflexive ==
  ASSUME NEW D, DOMAIN D = Tables
  PROVE  OnlyTrips(D, D)
  BY DEF OnlyTrips, Keeps, SameResult

(* A boot that gets the generation of its row.                               *)
LEMMA ResolvedKeeps ==
  ASSUME NEW D, NEW top, DbOK(D, top), NEW i, NEW d, NEW b
  PROVE  DbOK(Resolved(D, i, d, b), top) /\ OnlyTrips(D, Resolved(D, i, d, b))
<1> DEFINE T == ResolveTripGeneration(D.trips, D.boots, i, d, b)
<1>1. TripsOK(T, top) /\ Keeps(D.trips, T)
  BY ResolveKeeps DEF DbOK
<1>2. Resolved(D, i, d, b) = [D EXCEPT !.trips = T]
  BY DEF Resolved
<1> HIDE DEF T
<1> QED
  BY <1>1, <1>2, WithTrips

LEMMA MarkWaitingKeeps ==
  ASSUME NEW D, NEW top, DbOK(D, top), NEW i
  PROVE  DbOK(MarkWaiting(D, i), top) /\ OnlyTrips(D, MarkWaiting(D, i))
<1> DEFINE T == MarkTripWaiting(D.trips, i)
<1>1. TripsOK(T, top) /\ Keeps(D.trips, T)
  BY MarkTripWaitingKeeps DEF DbOK
<1>2. MarkWaiting(D, i) = [D EXCEPT !.trips = T]
  BY DEF MarkWaiting
<1> HIDE DEF T
<1> QED
  BY <1>1, <1>2, WithTrips

LEMMA EvalOneKeeps ==
  ASSUME NEW top, DbOK(db, top), EvalOne
  PROVE  DbOK(db', top) /\ OnlyTrips(db, db')
<1> DEFINE t == Head(eval.list)
           x == db.trips[t]
           marked == MarkWaiting(db, t)
<1>1. db' = IF Unresolved(x) THEN Resolved(marked, t, 1, x.boot) ELSE marked
  BY DEF EvalOne
<1>2. DbOK(marked, top) /\ OnlyTrips(db, marked)
  BY MarkWaitingKeeps
<1> HIDE DEF marked, t, x
<1>3. DbOK(Resolved(marked, t, 1, x.boot), top) /\ OnlyTrips(marked, Resolved(marked, t, 1, x.boot))
  BY <1>2, ResolvedKeeps
<1>4. OnlyTrips(db, Resolved(marked, t, 1, x.boot))
  BY <1>2, <1>3, OnlyTripsTransitive
<1> QED
  BY <1>1, <1>2, <1>3, <1>4

LEMMA CreateTripKeeps ==
  ASSUME NEW top, DbOK(db, top), NEW t \in Trips, NEW head, CreateTrip(t, head)
  PROVE  DbOK(db', top) /\ OnlyTrips(db, db')
<1> DEFINE e == [Entry[t] EXCEPT !.target = head]
           g == LatestGeneration(db, 1, e.boot)
           d == IF e.entry = "boot" /\ e.gen = Null /\ g # {} THEN [e EXCEPT !.gen = Max(g)] ELSE e
           now == 1 + Cardinality(DOMAIN db.trips)
           T == InsertTrip(db.trips, t, d, now)
<1>1. t \notin DOMAIN db.trips /\ InsertError(db, d) = "" /\ db' = Insert(db, t, d, now)
  BY DEF CreateTrip
<1>2. db' = [db EXCEPT !.trips = T]
  BY <1>1 DEF Insert
<1>3. now \in Nat
  <2>1. IsFiniteSet(DOMAIN db.trips)
    BY FS_Subset, TripWorkerAssumption DEF DbOK, TripsOK
  <2> QED BY <2>1, FS_CardinalityType
<1>4. SameEntryAs(e, t)
  BY DEF SameEntryAs
<1>5. SameEntryAs(d, t)
  <2> HIDE DEF e, g
  <2> QED BY <1>4 DEF SameEntryAs
<1> HIDE DEF e, g, d, now
<1>6. TripsOK(T, top) /\ Keeps(db.trips, T)
  BY <1>1, <1>3, <1>5, InsertKeeps DEF DbOK
<1> HIDE DEF T
<1> QED
  BY <1>2, <1>6, WithTrips

LEMMA FailTakenKeeps ==
  ASSUME NEW top, DbOK(db, top), NEW w, FailTaken(w)
  PROVE  DbOK(db', top) /\ OnlyTrips(db, db')
<1> DEFINE T == FailTrip(db.trips, calc[w].trip)
<1>1. TripsOK(T, top) /\ Keeps(db.trips, T)
  BY FailKeeps DEF DbOK
<1>2. db' = [db EXCEPT !.trips = T]
  BY DEF FailTaken, Fail
<1> HIDE DEF T
<1> QED
  BY <1>1, <1>2, WithTrips

LEMMA CheckOneKeeps ==
  ASSUME NEW top, DbOK(db, top), CheckOne
  PROVE  DbOK(db', top) /\ OnlyTrips(db, db')
<1> DEFINE p == prov.list[1]
<1>1. db' = IF Unresolved(p.row) THEN Resolved(db, p.id, 1, p.row.boot) ELSE db
  BY DEF CheckOne
<1> HIDE DEF p
<1>2. DbOK(Resolved(db, p.id, 1, p.row.boot), top) /\ OnlyTrips(db, Resolved(db, p.id, 1, p.row.boot))
  BY ResolvedKeeps
<1>3. OnlyTrips(db, db)
  BY OnlyTripsReflexive DEF DbOK
<1> QED
  BY <1>1, <1>2, <1>3

LEMMA ClearProvisionalKeeps ==
  ASSUME NEW top, DbOK(db, top), Clear
  PROVE  DbOK(db', top) /\ OnlyTrips(db, db')
<1> DEFINE t == CHOOSE t \in prov.clear : TRUE
           T == ClearTripProvisional(db.trips, t)
<1>1. TripsOK(T, top) /\ Keeps(db.trips, T)
  BY ClearKeeps DEF DbOK
<1>2. db' = [db EXCEPT !.trips = T]
  BY DEF Clear, ClearProvisional
<1> HIDE DEF T
<1> QED
  BY <1>1, <1>2, WithTrips

LEMMA MarkKeeps ==
  ASSUME NEW top, DbOK(db, top), Mark
  PROVE  DbOK(db', top) /\ OnlyTrips(db, db')
<1> DEFINE S == {i \in prov.mark \cap DOMAIN db.trips : db.trips[i].status = "ready"}
           T == Marked(db.trips, S)
<1>1. TripsOK(T, top) /\ Keeps(db.trips, T)
  <2> HIDE DEF S
  <2> QED BY MarkedKeeps DEF DbOK
<1>2. db' = [db EXCEPT !.trips = T]
  BY DEF Mark, MarkRecalc, MarkTripsRecalcByID
<1> HIDE DEF T
<1> QED
  BY <1>1, <1>2, WithTrips

LEMMA FirstOfList ==
  ASSUME NEW S, IsFiniteSet(S), NEW s, Lists(s, S), First(s) # <<>>
  PROVE  First(s)[1] \in S
<1>1. s # <<>> /\ s \in Seq(S)
  BY DEF First, Lists
<1>2. First(s) = <<s[1]>> /\ s[1] \in S
  BY <1>1 DEF First
<1> QED
  BY <1>2

-------------------------------------------------------------------------------
(* The locks of the calculations                                             *)

CalcFields == {"pc", "kind", "trip", "byLimit", "through", "left", "boots", "rows", "warnings",
               "complete"}
Held(c) == c.pc \in {"progress", "boots", "fetch", "proof", "save"}
Reads(c) == c.pc \in {"boots", "fetch", "proof", "save"}

CalcOK(c, T, top) ==
  /\ DOMAIN c = CalcFields /\ c.pc \in {"idle", "take", "progress", "boots", "fetch", "proof", "save", "fail"}
  /\ Held(c) => c.trip \in DOMAIN T
  /\ Reads(c) => /\ c.through \in 0..top
                 /\ T[c.trip].status = "ready" => T[c.trip].through <= c.through

(* One transaction at a time holds the row of a trip, and has read a         *)
(* contiguous_seq at or after the one its trip was calculated with.          *)
LocksOK(k, T, top) ==
  /\ DOMAIN k = Workers
  /\ \A w \in Workers : CalcOK(k[w], T, top)
  /\ \A v, w \in Workers : v # w /\ Held(k[v]) /\ Held(k[w]) => k[v].trip # k[w].trip

LEMMA KeepsLocks ==
  ASSUME NEW k, NEW T, NEW T1, NEW top, LocksOK(k, T, top), Keeps(T, T1)
  PROVE  LocksOK(k, T1, top)
<1>1. ASSUME NEW w \in Workers PROVE CalcOK(k[w], T1, top)
  BY DEF LocksOK, CalcOK, Keeps, SameResult, Held, Reads
<1> QED
  BY <1>1 DEF LocksOK

LEMMA OneWorkerStep ==
  ASSUME NEW k, NEW T, NEW top, LocksOK(k, T, top), NEW w \in Workers, NEW c, CalcOK(c, T, top),
         \A v \in Workers : v # w /\ Held(k[v]) /\ Held(c) => k[v].trip # c.trip,
         NEW k1, k1 = [k EXCEPT ![w] = c]
  PROVE  LocksOK(k1, T, top)
<1>1. DOMAIN k1 = Workers /\ k1[w] = c /\ \A v \in Workers : v # w => k1[v] = k[v]
  BY DEF LocksOK
<1> QED
  BY <1>1 DEF LocksOK

(* Which row a calculation takes is not held by another.                     *)
LEMMA FoundIsFree ==
  ASSUME NEW top, TripsOK(db.trips, top), NEW c, Found(c, Locked) # <<>>
  PROVE  /\ Found(c, Locked)[1] \in DOMAIN db.trips /\ Found(c, Locked)[1] \notin Locked
         /\ c.kind = "first" => Found(c, Locked)[1] = c.trip /\ Waiting(db.trips[c.trip])
         /\ c.kind # "first" => db.trips[Found(c, Locked)[1]].status = "ready"
<1>1. CASE c.kind = "first"
  BY <1>1 DEF Found, TakeTrip
<1>2. CASE c.kind # "first"
  <2> DEFINE S == ToRecalculate(db.trips) \ Locked
             s == OldestFirst(db.trips, S)
  <2>0. \A i \in S : i \in DOMAIN db.trips /\ db.trips[i].status = "ready" /\ i \notin Locked
    BY DEF ToRecalculate
  <2>1. S \in SUBSET Trips /\ \A i \in S : db.trips[i].created \in Nat
    BY <2>0 DEF TripsOK, TripRow
  <2>2. IsFiniteSet(S) /\ S \in SUBSET Nat
    BY <2>1, FS_Subset, TripWorkerAssumption
  <2>3. Lists(s, S)
    <3> HIDE DEF S
    <3> QED BY <2>1, <2>2, OldestFirstLists
  <2>4. Found(c, Locked) = First(s)
    BY <1>2 DEF Found, TakeRecalcTrip
  <2> HIDE DEF s
  <2>5. First(s)[1] \in S
    <3> HIDE DEF S
    <3> QED BY <2>2, <2>3, <2>4, FirstOfList
  <2> QED BY <2>0, <2>4, <2>5, <1>2
<1> QED
  BY <1>1, <1>2

-------------------------------------------------------------------------------
(* The result that is saved                                                  *)

Advances(T, T1) ==
  \A t \in DOMAIN T : /\ t \in DOMAIN T1
                      /\ T[t].status = "ready" => T1[t].status = "ready" /\ T1[t].through >= T[t].through

LEMMA KeepsAdvances ==
  ASSUME NEW T, NEW T1, NEW top, TripsOK(T, top), Keeps(T, T1)
  PROVE  Advances(T, T1)
  BY DEF Keeps, SameResult, Advances, TripsOK, TripRow

(* The row that a calculation saved.                                         *)
SavedRow(T, T1, i, c) ==
  /\ DOMAIN T1 = DOMAIN T /\ \A t \in DOMAIN T : t # i => T1[t] = T[t]
  /\ DOMAIN T1[i] = DOMAIN T[i]
  /\ \A x \in DOMAIN T[i] \ {"status", "first", "last", "through", "provisional", "recalc"} : T1[i][x] = T[i][x]
  /\ T1[i].status = "ready" /\ T1[i].through = c.through /\ T1[i].provisional = c.provisional
  /\ T1[i].first = c.first /\ T1[i].last = c.last /\ T1[i].recalc = FALSE

LEMMA SaveTripResultRow ==
  ASSUME NEW T, NEW top, TripsOK(T, top), NEW i \in DOMAIN T, NEW c,
         NEW T1, T1 = SaveTripResult(T, i, c)
  PROVE  SavedRow(T, T1, i, c)
<1>1. DOMAIN T[i] = Columns
  BY DEF TripsOK, TripRow
<1>2. DOMAIN T1 = DOMAIN T /\ \A t \in DOMAIN T : t # i => T1[t] = T[t]
  BY DEF SaveTripResult
<1>3. T1[i] = [T[i] EXCEPT !.status = "ready", !.first = c.first, !.last = c.last, !.through = c.through,
                           !.provisional = c.provisional, !.recalc = FALSE]
  BY DEF SaveTripResult
<1>4. /\ T1[i].status = "ready" /\ T1[i].through = c.through /\ T1[i].provisional = c.provisional
      /\ T1[i].first = c.first /\ T1[i].last = c.last /\ T1[i].recalc = FALSE
  BY <1>1, <1>3 DEF Columns
<1>5. DOMAIN T1[i] = DOMAIN T[i]
  BY <1>3
<1>6. \A x \in DOMAIN T[i] \ {"status", "first", "last", "through", "provisional", "recalc"} : T1[i][x] = T[i][x]
  BY <1>3
<1> QED
  BY <1>2, <1>4, <1>5, <1>6 DEF SavedRow

LEMMA SavedTrips ==
  ASSUME NEW T, NEW top, TripsOK(T, top), NEW i \in DOMAIN T, NEW c, c.through \in 0..top,
         T[i].status = "ready" => T[i].through <= c.through, NEW T1, T1 = SaveTripResult(T, i, c)
  PROVE  TripsOK(T1, top) /\ Advances(T, T1)
<1>0. SavedRow(T, T1, i, c)
  BY SaveTripResultRow
<1>1. /\ SavedRow(T, T1, i, c) /\ T1[i].status = "ready" /\ T1[i].through = c.through
  BY <1>0 DEF SavedRow
<1>2. TripRow(i, T[i], top)
  BY DEF TripsOK
<1>3. DOMAIN T1[i] = Columns
  BY <1>1, <1>2 DEF SavedRow, TripRow
<1>4. \A x \in {"created", "entry", "boot", "dongle", "start", "end"} : T1[i][x] = T[i][x]
  BY <1>1, <1>2 DEF SavedRow, TripRow, Columns
<1>5. /\ T1[i].created = T[i].created /\ T1[i].entry = T[i].entry /\ T1[i].boot = T[i].boot
      /\ T1[i].start = T[i].start /\ T1[i].end = T[i].end /\ T1[i].dongle = T[i].dongle
  BY <1>4
<1>6. TripRow(i, T1[i], top)
  BY <1>1, <1>2, <1>3, <1>5 DEF TripRow
<1>7. TripsOK(T1, top)
  BY <1>1, <1>6 DEF SavedRow, TripsOK
<1>8. ASSUME NEW t \in DOMAIN T, T[t].status = "ready" PROVE T1[t].status = "ready" /\ T1[t].through >= T[t].through
  BY <1>1, <1>8 DEF SavedRow, TripsOK, TripRow
<1> QED
  BY <1>1, <1>7, <1>8 DEF SavedRow, Advances

LEMMA SaveTables ==
  ASSUME NEW D, DOMAIN D = Tables, NEW i, NEW c, NEW D1, D1 = Save(D, i, c)
  PROVE  /\ DOMAIN D1 = Tables /\ D1.trips = SaveTripResult(D.trips, i, c)
         /\ \A x \in Tables \ {"trips", "gold"} : D1[x] = D[x]
<1> DEFINE G == InsertTripSeries(InsertTripSummary(insertRows(Emptied(D.gold, i), i, c.result), i, summaryParams(c.result)),
                                 i, seriesParams(c.result))
<1>1. D1 = [D EXCEPT !.gold = G, !.trips = SaveTripResult(D.trips, i, c)]
  BY DEF Save
<1> HIDE DEF G
<1> QED
  BY <1>1 DEF Tables

-------------------------------------------------------------------------------
(* Locks, step by step                                                       *)

Table == /\ contiguous \in 0..Len(Log) /\ DbOK(db, contiguous)
Locks == Table /\ LocksOK(calc, db.trips, contiguous)

(* A transaction that ends, and one that has not begun, hold no row.         *)
LEMMA NoCalcOK ==
  ASSUME NEW T, NEW top, NEW p \in {"idle", "take", "fail"}, NEW c,
         DOMAIN c = CalcFields, c.pc = p
  PROVE  CalcOK(c, T, top) /\ ~Held(c)
  BY DEF CalcOK, Held, Reads

LEMMA NoCalcShape ==
  /\ DOMAIN NoCalc = CalcFields /\ NoCalc.pc = "idle"
  /\ \A p, k : LET c == [NoCalc EXCEPT !.pc = p, !.kind = k] IN DOMAIN c = CalcFields /\ c.pc = p /\ c.kind = k
  BY DEF NoCalc, CalcFields

(* A step of one calculation, which does not write the table of trips.       *)
LEMMA EndedKeepsLocks ==
  ASSUME Locks, NEW w \in Workers, NEW c, DOMAIN c = CalcFields, c.pc \in {"idle", "take", "fail"},
         calc' = [calc EXCEPT ![w] = c]
  PROVE  LocksOK(calc', db.trips, contiguous)
<1>1. CalcOK(c, db.trips, contiguous) /\ ~Held(c)
  BY NoCalcOK
<1> QED
  BY <1>1, OneWorkerStep DEF Locks

LEMMA TakenKeepsLocks ==
  ASSUME Locks, NEW w \in Workers, Taken(w)
  PROVE  LocksOK(calc', db.trips, contiguous)
<1>1. CASE Found(calc[w], Locked) = <<>>
  <2>1. calc' = [calc EXCEPT ![w] = NoCalc]
    BY <1>1 DEF Taken, Step
  <2> QED BY <2>1, NoCalcShape, EndedKeepsLocks
<1>2. CASE Found(calc[w], Locked) # <<>>
  <2> DEFINE i == Found(calc[w], Locked)[1]
             c == [calc[w] EXCEPT !.pc = "progress", !.trip = i]
  <2>1. calc' = [calc EXCEPT ![w] = c]
    BY <1>2 DEF Taken, Step
  <2>2. i \in DOMAIN db.trips /\ i \notin Locked
    BY <1>2, FoundIsFree DEF Locks, Table, DbOK
  <2> HIDE DEF i
  <2>3. DOMAIN c = CalcFields /\ c.pc = "progress" /\ c.trip = i
    BY DEF Locks, LocksOK, CalcOK, CalcFields
  <2> HIDE DEF c
  <2>4. CalcOK(c, db.trips, contiguous)
    BY <2>2, <2>3 DEF CalcOK, Held, Reads
  <2>5. ASSUME NEW v \in Workers, v # w, Held(calc[v]) PROVE calc[v].trip # c.trip
    BY <2>2, <2>3, <2>5 DEF Locked, Holds, Held
  <2> QED BY <2>1, <2>4, <2>5, OneWorkerStep DEF Locks
<1> QED
  BY <1>1, <1>2

(* A calculation that goes on with the trip it holds.                        *)
LEMMA SameTripKeepsLocks ==
  ASSUME Locks, NEW w \in Workers, Held(calc[w]), NEW c, CalcOK(c, db.trips, contiguous),
         c.trip = calc[w].trip, calc' = [calc EXCEPT ![w] = c]
  PROVE  LocksOK(calc', db.trips, contiguous)
<1>1. \A v \in Workers : v # w /\ Held(calc[v]) => calc[v].trip # c.trip
  BY DEF Locks, LocksOK
<1> QED
  BY <1>1, OneWorkerStep DEF Locks

LEMMA ReadProgressKeepsLocks ==
  ASSUME Locks, NEW w \in Workers, ReadProgress(w)
  PROVE  LocksOK(calc', db.trips, contiguous)
<1> DEFINE c == [calc[w] EXCEPT !.pc = "boots", !.through = contiguous]
<1>1. calc' = [calc EXCEPT ![w] = c] /\ calc[w].pc = "progress"
  BY DEF ReadProgress, Step
<1>2. CalcOK(calc[w], db.trips, contiguous) /\ Held(calc[w])
  BY <1>1 DEF Locks, LocksOK, Held
<1>3. DOMAIN c = CalcFields /\ c.pc = "boots" /\ c.trip = calc[w].trip /\ c.through = contiguous
  BY <1>2 DEF CalcOK, CalcFields
<1> HIDE DEF c
<1>4. c.trip \in DOMAIN db.trips
  BY <1>2, <1>3 DEF CalcOK
<1>5. contiguous \in Nat /\ (db.trips[c.trip].status = "ready" => db.trips[c.trip].through <= contiguous)
  BY <1>4 DEF Locks, Table, DbOK, TripsOK, TripRow
<1>6. CalcOK(c, db.trips, contiguous)
  BY <1>3, <1>4, <1>5 DEF CalcOK, Held, Reads
<1> QED
  BY <1>1, <1>2, <1>3, <1>6, SameTripKeepsLocks

(* What the calculation has loaded changes, and which statement is next.     *)
LEMMA LoadingKeepsLocks ==
  ASSUME Locks, NEW w \in Workers, calc[w].pc \in {"boots", "fetch", "proof"}, NEW c, DOMAIN c = CalcFields,
         c.pc \in {"fetch", "proof", "save"}, c.trip = calc[w].trip, c.through = calc[w].through,
         calc' = [calc EXCEPT ![w] = c]
  PROVE  LocksOK(calc', db.trips, contiguous)
<1>1. CalcOK(calc[w], db.trips, contiguous) /\ Held(calc[w]) /\ Reads(calc[w])
  BY DEF Locks, LocksOK, Held, Reads
<1>2. CalcOK(c, db.trips, contiguous)
  BY <1>1 DEF CalcOK, Held, Reads
<1> QED
  BY <1>1, <1>2, SameTripKeepsLocks

LEMMA LoadBootsShape ==
  ASSUME Locks, NEW w \in Workers, LoadBoots(w)
  PROVE  /\ calc[w].pc = "boots" /\ calc' = [calc EXCEPT ![w] = calc'[w]] /\ DOMAIN calc'[w] = CalcFields
         /\ calc'[w].pc = "fetch" /\ calc'[w].trip = calc[w].trip /\ calc'[w].through = calc[w].through
         /\ calc'[w].left = TripBoots(db.trips[calc[w].trip])
         /\ calc'[w].boots = calc[w].boots /\ calc'[w].rows = calc[w].rows /\ calc'[w].kind = calc[w].kind
<1> DEFINE c == [calc[w] EXCEPT !.pc = "fetch", !.left = TripBoots(db.trips[calc[w].trip])]
<1>1. calc' = [calc EXCEPT ![w] = c] /\ calc[w].pc = "boots"
  BY DEF LoadBoots, Step
<1>2. DOMAIN calc[w] = CalcFields /\ DOMAIN calc = Workers
  BY DEF Locks, LocksOK, CalcOK
<1>3. /\ DOMAIN c = CalcFields /\ c.pc = "fetch" /\ c.left = TripBoots(db.trips[calc[w].trip])
      /\ c.trip = calc[w].trip /\ c.through = calc[w].through
      /\ c.boots = calc[w].boots /\ c.rows = calc[w].rows /\ c.kind = calc[w].kind
  BY <1>2 DEF CalcFields
<1> HIDE DEF c
<1>4. calc'[w] = c
  BY <1>1, <1>2
<1> QED
  BY <1>1, <1>3, <1>4

LEMMA FetchShape ==
  ASSUME Locks, NEW w \in Workers, Fetch(w)
  PROVE  /\ calc[w].pc = "fetch" /\ calc[w].left # <<>>
         /\ calc' = [calc EXCEPT ![w] = calc'[w]] /\ DOMAIN calc'[w] = CalcFields
         /\ calc'[w].pc = "fetch" /\ calc'[w].trip = calc[w].trip /\ calc'[w].through = calc[w].through
         /\ calc'[w].left = Tail(calc[w].left) /\ calc'[w].kind = calc[w].kind
         /\ LET rows == BootRows(db.trips[calc[w].trip], calc[w].left[1])
            IN  /\ calc'[w].rows = calc[w].rows \cup rows
                /\ calc'[w].boots = IF rows = {} THEN calc[w].boots ELSE Append(calc[w].boots, calc[w].left[1])
<1> DEFINE b == calc[w].left[1]
           rows == BootRows(db.trips[calc[w].trip], b)
           boots == IF rows = {} THEN calc[w].boots ELSE Append(calc[w].boots, b)
           c == [calc[w] EXCEPT !.left = Tail(@), !.rows = @ \cup rows, !.boots = boots]
<1>1. calc' = [calc EXCEPT ![w] = c] /\ calc[w].pc = "fetch" /\ calc[w].left # <<>>
  BY DEF Fetch, Step
<1>2. DOMAIN calc[w] = CalcFields /\ DOMAIN calc = Workers
  BY DEF Locks, LocksOK, CalcOK
<1> HIDE DEF boots, rows
<1>3. /\ DOMAIN c = CalcFields /\ c.pc = calc[w].pc /\ c.left = Tail(calc[w].left) /\ c.rows = calc[w].rows \cup rows
      /\ c.trip = calc[w].trip /\ c.through = calc[w].through /\ c.boots = boots /\ c.kind = calc[w].kind
  BY <1>2 DEF CalcFields
<1> HIDE DEF c
<1>4. calc'[w] = c
  BY <1>1, <1>2
<1> QED
  BY <1>1, <1>3, <1>4 DEF boots, rows

LEMMA LoadUnconvertedShape ==
  ASSUME Locks, NEW w \in Workers, LoadUnconverted(w)
  PROVE  /\ calc[w].pc = "fetch" /\ calc[w].left = <<>>
         /\ calc' = [calc EXCEPT ![w] = calc'[w]] /\ DOMAIN calc'[w] = CalcFields
         /\ calc'[w].pc = "proof" /\ calc'[w].trip = calc[w].trip /\ calc'[w].through = calc[w].through
         /\ calc'[w].left = calc[w].left /\ calc'[w].boots = calc[w].boots /\ calc'[w].rows = calc[w].rows
         /\ calc'[w].kind = calc[w].kind /\ calc'[w].warnings = Warned(db.trips[calc[w].trip])
<1> DEFINE warned == Warned(db.trips[calc[w].trip])
           c == [calc[w] EXCEPT !.pc = "proof", !.warnings = warned]
<1>1. calc' = [calc EXCEPT ![w] = c] /\ calc[w].pc = "fetch" /\ calc[w].left = <<>>
  BY DEF LoadUnconverted, Step
<1>2. DOMAIN calc[w] = CalcFields /\ DOMAIN calc = Workers
  BY DEF Locks, LocksOK, CalcOK
<1> HIDE DEF warned
<1>3. /\ DOMAIN c = CalcFields /\ c.pc = "proof" /\ c.warnings = warned /\ c.left = calc[w].left /\ c.boots = calc[w].boots
      /\ c.rows = calc[w].rows /\ c.trip = calc[w].trip /\ c.through = calc[w].through /\ c.kind = calc[w].kind
  BY <1>2 DEF CalcFields
<1> HIDE DEF c
<1>4. calc'[w] = c
  BY <1>1, <1>2
<1> QED
  BY <1>1, <1>3, <1>4 DEF warned

LEMMA ReadProofShape ==
  ASSUME Locks, NEW w \in Workers, ReadProof(w)
  PROVE  /\ calc[w].pc = "proof" /\ calc' = [calc EXCEPT ![w] = calc'[w]] /\ DOMAIN calc'[w] = CalcFields
         /\ calc'[w].pc = "save" /\ calc'[w].trip = calc[w].trip /\ calc'[w].through = calc[w].through
         /\ calc'[w].left = calc[w].left /\ calc'[w].boots = calc[w].boots /\ calc'[w].rows = calc[w].rows
         /\ calc'[w].kind = calc[w].kind
         /\ calc'[w].complete = CompleteProof(calc[w].trip, calc[w].boots, calc[w].through)
<1> DEFINE proof == CompleteProof(calc[w].trip, calc[w].boots, calc[w].through)
           c == [calc[w] EXCEPT !.pc = "save", !.complete = proof]
<1>1. calc' = [calc EXCEPT ![w] = c] /\ calc[w].pc = "proof"
  BY DEF ReadProof, Step
<1>2. DOMAIN calc[w] = CalcFields /\ DOMAIN calc = Workers
  BY DEF Locks, LocksOK, CalcOK
<1> HIDE DEF proof
<1>3. /\ DOMAIN c = CalcFields /\ c.pc = "save" /\ c.complete = proof /\ c.left = calc[w].left /\ c.boots = calc[w].boots
      /\ c.rows = calc[w].rows /\ c.trip = calc[w].trip /\ c.through = calc[w].through /\ c.kind = calc[w].kind
  BY <1>2 DEF CalcFields
<1> HIDE DEF c
<1>4. calc'[w] = c
  BY <1>1, <1>2
<1> QED
  BY <1>1, <1>3, <1>4 DEF proof

LEMMA SaveShape ==
  ASSUME Locks, NEW w \in Workers, SaveResult(w)
  PROVE  /\ calc[w].pc = "save" /\ calc[w].trip \in DOMAIN db.trips
         /\ DOMAIN db' = Tables /\ \A x \in Tables \ {"trips", "gold"} : db'[x] = db[x]
         /\ SavedRow(db.trips, db'.trips, calc[w].trip, Calculation(calc[w]))
         /\ TripsOK(db'.trips, contiguous) /\ Advances(db.trips, db'.trips)
         /\ DOMAIN calc'[w] = CalcFields /\ calc'[w].pc \in {"idle", "take"} /\ calc' = [calc EXCEPT ![w] = calc'[w]]
<1> DEFINE i == calc[w].trip
           C == Calculation(calc[w])
           c == IF calc[w].kind = "first" THEN NoCalc ELSE [NoCalc EXCEPT !.pc = "take", !.kind = "recalc"]
<1>1. calc[w].pc = "save" /\ db' = Save(db, i, C) /\ calc' = [calc EXCEPT ![w] = c]
  BY DEF SaveResult, Step
<1>2. CalcOK(calc[w], db.trips, contiguous) /\ DOMAIN calc = Workers /\ DOMAIN db = Tables /\ TripsOK(db.trips, contiguous)
  BY DEF Locks, LocksOK, Table, DbOK
<1>3. /\ i \in DOMAIN db.trips /\ calc[w].through \in 0..contiguous
      /\ db.trips[i].status = "ready" => db.trips[i].through <= calc[w].through
  BY <1>1, <1>2 DEF CalcOK, Held, Reads
<1>4. C.through = calc[w].through
  BY DEF Calculation, Through
<1>5. DOMAIN c = CalcFields /\ c.pc \in {"idle", "take"}
  BY NoCalcShape
<1> HIDE DEF C, i, c
<1>6. /\ DOMAIN db' = Tables /\ db'.trips = SaveTripResult(db.trips, i, C)
      /\ \A x \in Tables \ {"trips", "gold"} : db'[x] = db[x]
  BY <1>1, <1>2, SaveTables
<1>7. SavedRow(db.trips, db'.trips, i, C)
  BY <1>2, <1>3, <1>6, SaveTripResultRow
<1>8. TripsOK(db'.trips, contiguous) /\ Advances(db.trips, db'.trips)
  BY <1>2, <1>3, <1>4, <1>6, SavedTrips
<1>9. calc'[w] = c
  BY <1>1, <1>2
<1> QED
  BY <1>1, <1>3, <1>5, <1>6, <1>7, <1>8, <1>9 DEF i, C

LEMMA SaveKeepsLocks ==
  ASSUME Locks, NEW w \in Workers, SaveResult(w)
  PROVE  LocksOK(calc', db'.trips, contiguous)
<1> DEFINE i == calc[w].trip
<1>1. /\ calc[w].pc = "save" /\ SavedRow(db.trips, db'.trips, i, Calculation(calc[w]))
      /\ DOMAIN calc'[w] = CalcFields /\ calc'[w].pc \in {"idle", "take"} /\ calc' = [calc EXCEPT ![w] = calc'[w]]
  BY SaveShape
<1>2. LocksOK(calc', db.trips, contiguous)
  BY <1>1, EndedKeepsLocks
<1>3. ~Held(calc'[w]) /\ Held(calc[w])
  BY <1>1 DEF Held
<1>4. ASSUME NEW v \in Workers, Held(calc'[v]) PROVE calc'[v].trip # i
  <2>1. v # w /\ calc'[v] = calc[v]
    BY <1>1, <1>3, <1>4 DEF Locks, LocksOK
  <2> QED BY <1>3, <1>4, <2>1 DEF Locks, LocksOK
<1> HIDE DEF i
<1>5. ASSUME NEW v \in Workers PROVE CalcOK(calc'[v], db'.trips, contiguous)
  <2>1. CalcOK(calc'[v], db.trips, contiguous)
    BY <1>2 DEF LocksOK
  <2>2. CASE Held(calc'[v])
    BY <1>1, <1>4, <2>1, <2>2 DEF CalcOK, SavedRow
  <2>3. CASE ~Held(calc'[v])
    BY <2>1, <2>3 DEF CalcOK, Held, Reads
  <2> QED BY <2>2, <2>3
<1> QED
  BY <1>2, <1>5 DEF LocksOK

LEMMA CalculatorStep ==
  ASSUME Locks, NEW w \in Workers, Calculator(w)
  PROVE  Locks' /\ Advances(db.trips, db'.trips)
<1> USE DEF Locks, Table
<1>1. contiguous' = contiguous
  BY DEF Calculator, TakeJob, DrainRecalc, Taken, ReadProgress, LoadBoots, Fetch, LoadUnconverted, ReadProof, SaveResult,
         AnalyzeFails, FailTaken, DatabaseBusy, Step, world
<1>2. ASSUME db' = db, LocksOK(calc', db.trips, contiguous) PROVE Locks' /\ Advances(db.trips, db'.trips)
  <2>1. Keeps(db.trips, db.trips)
    BY DEF Keeps, SameResult
  <2>2. Advances(db.trips, db'.trips)
    BY <1>2, <2>1, KeepsAdvances DEF DbOK
  <2> QED BY <1>1, <1>2, <2>2
<1>3. ASSUME db' = db, NEW c, DOMAIN c = CalcFields, c.pc \in {"idle", "take", "fail"}, calc' = [calc EXCEPT ![w] = c]
      PROVE  Locks' /\ Advances(db.trips, db'.trips)
  BY <1>2, <1>3, EndedKeepsLocks
<1>4. CASE TakeJob(w)
  <2> DEFINE c == [NoCalc EXCEPT !.pc = "take", !.kind = "first", !.trip = jobs[1].id, !.byLimit = jobs[1].byLimit]
  <2>1. db' = db /\ calc' = [calc EXCEPT ![w] = c]
    BY <1>4 DEF TakeJob, Step
  <2>2. DOMAIN c = CalcFields /\ c.pc = "take"
    BY DEF NoCalc, CalcFields
  <2> HIDE DEF c
  <2> QED BY <2>1, <2>2, <1>3
<1>5. CASE DrainRecalc(w)
  <2> DEFINE c == [NoCalc EXCEPT !.pc = "take", !.kind = "recalc"]
  <2>1. db' = db /\ calc' = [calc EXCEPT ![w] = c]
    BY <1>5 DEF DrainRecalc, Step
  <2>2. DOMAIN c = CalcFields /\ c.pc = "take"
    BY DEF NoCalc, CalcFields
  <2> HIDE DEF c
  <2> QED BY <2>1, <2>2, <1>3
<1>6. CASE Taken(w)
  <2>1. db' = db
    BY <1>6 DEF Taken
  <2> QED BY <1>2, <1>6, <2>1, TakenKeepsLocks
<1>7. CASE ReadProgress(w)
  <2>1. db' = db
    BY <1>7 DEF ReadProgress
  <2> QED BY <1>2, <1>7, <2>1, ReadProgressKeepsLocks
<1>8. CASE LoadBoots(w)
  <2>1. db' = db
    BY <1>8 DEF LoadBoots
  <2>2. LocksOK(calc', db.trips, contiguous)
    BY <1>8, LoadBootsShape, LoadingKeepsLocks
  <2> QED BY <1>2, <2>1, <2>2
<1>9. CASE Fetch(w)
  <2>1. db' = db
    BY <1>9 DEF Fetch
  <2>2. LocksOK(calc', db.trips, contiguous)
    BY <1>9, FetchShape, LoadingKeepsLocks
  <2> QED BY <1>2, <2>1, <2>2
<1>10. CASE LoadUnconverted(w)
  <2>1. db' = db
    BY <1>10 DEF LoadUnconverted
  <2>2. LocksOK(calc', db.trips, contiguous)
    BY <1>10, LoadUnconvertedShape, LoadingKeepsLocks
  <2> QED BY <1>2, <2>1, <2>2
<1>15. CASE ReadProof(w)
  <2>1. db' = db
    BY <1>15 DEF ReadProof
  <2>2. LocksOK(calc', db.trips, contiguous)
    BY <1>15, ReadProofShape, LoadingKeepsLocks
  <2> QED BY <1>2, <2>1, <2>2
<1>11. CASE SaveResult(w)
  BY <1>1, <1>11, SaveShape, SaveKeepsLocks DEF DbOK
<1>12. CASE AnalyzeFails(w)
  <2> DEFINE c == [NoCalc EXCEPT !.pc = "fail", !.kind = calc[w].kind, !.trip = calc[w].trip]
  <2>1. db' = db /\ calc' = [calc EXCEPT ![w] = c]
    BY <1>12 DEF AnalyzeFails, Step
  <2>2. DOMAIN c = CalcFields /\ c.pc = "fail"
    BY DEF NoCalc, CalcFields
  <2> HIDE DEF c
  <2> QED BY <2>1, <2>2, <1>3
<1>13. CASE FailTaken(w)
  <2>1. calc' = [calc EXCEPT ![w] = NoCalc]
    BY <1>13 DEF FailTaken
  <2>2. LocksOK(calc', db.trips, contiguous)
    BY <2>1, NoCalcShape, EndedKeepsLocks
  <2>3. DbOK(db', contiguous) /\ OnlyTrips(db, db')
    BY <1>13, FailTakenKeeps
  <2>4. LocksOK(calc', db'.trips, contiguous)
    BY <2>2, <2>3, KeepsLocks DEF OnlyTrips
  <2>5. Advances(db.trips, db'.trips)
    BY <2>3, KeepsAdvances DEF OnlyTrips, DbOK
  <2> QED BY <1>1, <2>3, <2>4, <2>5
<1>14. CASE DatabaseBusy(w)
  <2>1. db' = db /\ calc' = [calc EXCEPT ![w] = NoCalc]
    BY <1>14 DEF DatabaseBusy
  <2> QED BY <2>1, <1>3, NoCalcShape
<1> QED
  BY <1>4, <1>5, <1>6, <1>7, <1>8, <1>9, <1>10, <1>11, <1>12, <1>13, <1>14, <1>15 DEF Calculator

LEMMA MoreOfTheLog ==
  ASSUME NEW T, NEW top \in Nat, NEW top1 \in Nat, top <= top1, TripsOK(T, top)
  PROVE  TripsOK(T, top1) /\ \A k : LocksOK(k, T, top) => LocksOK(k, T, top1)
<1>1. 0..top \subseteq 0..top1
  OBVIOUS
<1>2. TripsOK(T, top1)
  BY <1>1 DEF TripsOK, TripRow
<1>3. ASSUME NEW c, CalcOK(c, T, top) PROVE CalcOK(c, T, top1)
  BY <1>1, <1>3 DEF CalcOK
<1> QED
  BY <1>2, <1>3 DEF LocksOK

(* What the steps of the rest of the server change.                          *)
LEMMA ServerTables ==
  ASSUME DOMAIN db = Tables, Ingest \/ (\E b \in DOMAIN Offset : ConvertBoot(b)) \/ ReprocessCommit
  PROVE  DOMAIN db' = Tables /\ db'.gold = db.gold
<1>1. CASE Ingest
  BY <1>1 DEF Ingest, Tables
<1>2. CASE \E b \in DOMAIN Offset : ConvertBoot(b)
  BY <1>2 DEF ConvertBoot, Tables
<1>3. CASE ReprocessCommit
  BY <1>3 DEF ReprocessCommit, Tables
<1> QED
  BY <1>1, <1>2, <1>3

LEMMA ReprocessTrips ==
  ASSUME DOMAIN db = Tables, ReprocessCommit
  PROVE  /\ db'.trips = Marked(db.trips, rep.trips \cap Crossing(db.trips, 1, rep.from, rep.to))
         /\ db'.boots = db.boots /\ db'.blocks = db.blocks
  BY DEF ReprocessCommit, Tables

LEMMA ServerStep ==
  ASSUME Locks, Server \/ Reprocess
  PROVE  Locks' /\ Advances(db.trips, db'.trips)
<1> USE DEF Locks, Table
<1>0. contiguous \in Nat /\ DOMAIN db = Tables
  BY DEF DbOK
<1>1. Keeps(db.trips, db.trips) /\ Advances(db.trips, db.trips)
  <2>1. Keeps(db.trips, db.trips)
    BY DEF Keeps, SameResult
  <2> QED BY <2>1, KeepsAdvances DEF DbOK
<1>2. CASE Ingest
  <2>1. contiguous' = contiguous + 1 /\ contiguous < Len(Log) /\ db'.trips = db.trips /\ calc' = calc
    BY <1>0, <1>2 DEF Ingest, volatile, Tables
  <2>2. Len(Log) \in Nat
    BY TripWorkerAssumption, LenProperties
  <2>3. contiguous' \in Nat /\ contiguous <= contiguous' /\ contiguous' \in 0..Len(Log)
    BY <1>0, <2>1, <2>2
  <2>4. TripsOK(db'.trips, contiguous') /\ LocksOK(calc', db'.trips, contiguous')
    BY <1>0, <2>1, <2>3, MoreOfTheLog DEF DbOK
  <2>5. DOMAIN db' = Tables
    BY <1>0, <1>2, ServerTables
  <2> QED BY <1>1, <2>1, <2>3, <2>4, <2>5 DEF DbOK
<1>3. CASE \E b \in DOMAIN Offset : ConvertBoot(b)
  <2>1. db'.trips = db.trips /\ calc' = calc /\ contiguous' = contiguous
    BY <1>0, <1>3 DEF ConvertBoot, volatile, world, Tables
  <2>2. DOMAIN db' = Tables
    BY <1>0, <1>3, ServerTables
  <2> QED BY <1>1, <2>1, <2>2 DEF DbOK
<1>4. CASE Silence \/ (\E t \in Trips : FinalLimit(t)) \/ (\E from, to \in 1..Len(Log) : ReprocessStart(from, to))
  <2>1. db' = db /\ calc' = calc /\ contiguous' = contiguous
    BY <1>4 DEF Silence, FinalLimit, ReprocessStart, volatile
  <2> QED BY <1>1, <2>1
<1>5. CASE \E t \in Trips : \E head \in 0..Len(Log) : CreateTrip(t, head)
  <2>1. PICK t \in Trips : \E head \in 0..Len(Log) : CreateTrip(t, head)
    BY <1>5
  <2>2. PICK head \in 0..Len(Log) : CreateTrip(t, head)
    BY <2>1
  <2>3. DbOK(db', contiguous) /\ OnlyTrips(db, db')
    BY <2>2, CreateTripKeeps
  <2>4. calc' = calc /\ contiguous' = contiguous
    BY <2>2, Zenon DEF CreateTrip, volatile, world
  <2>5. Keeps(db.trips, db'.trips)
    BY <2>3 DEF OnlyTrips
  <2>6. LocksOK(calc', db'.trips, contiguous) /\ Advances(db.trips, db'.trips)
    BY <2>4, <2>5, KeepsLocks, KeepsAdvances DEF DbOK
  <2> QED BY <2>3, <2>4, <2>6
<1>6. CASE ReprocessCommit
  <2> DEFINE S == rep.trips \cap Crossing(db.trips, 1, rep.from, rep.to)
  <2>1. db'.trips = Marked(db.trips, S) /\ calc' = calc /\ contiguous' = contiguous /\ DOMAIN db' = Tables
    BY <1>0, <1>6, ReprocessTrips, ServerTables DEF ReprocessCommit, volatile
  <2> HIDE DEF S
  <2>2. TripsOK(db'.trips, contiguous) /\ Keeps(db.trips, db'.trips)
    BY <2>1, MarkedKeeps DEF DbOK
  <2>3. LocksOK(calc', db'.trips, contiguous) /\ Advances(db.trips, db'.trips)
    BY <2>1, <2>2, KeepsLocks, KeepsAdvances DEF DbOK
  <2> QED BY <2>1, <2>2, <2>3 DEF DbOK
<1> QED
  BY <1>2, <1>3, <1>4, <1>5, <1>6 DEF Server, Reprocess

(* The evaluator and the ticker of provisional trips leave every result.     *)
LEMMA TickersKeep ==
  ASSUME Locks, Evaluator \/ Provisional
  PROVE  DbOK(db', contiguous) /\ OnlyTrips(db, db') /\ calc' = calc /\ contiguous' = contiguous
<1> USE DEF Locks, Table
<1>1. calc' = calc /\ contiguous' = contiguous
  BY DEF Evaluator, EvalStart, EvalOne, EvalError, Dispatch, EvalEnd, Provisional, ProvisionalStart, CheckOne,
         ProvisionalError, Clear, Mark, world
<1>2. OnlyTrips(db, db)
  BY OnlyTripsReflexive DEF DbOK
<1>3. CASE EvalStart \/ EvalError \/ Dispatch \/ EvalEnd \/ ProvisionalStart \/ ProvisionalError
  <2>1. db' = db
    BY <1>3 DEF EvalStart, EvalError, Dispatch, EvalEnd, ProvisionalStart, ProvisionalError
  <2> QED BY <1>1, <1>2, <2>1
<1> QED
  BY <1>1, <1>3, EvalOneKeeps, CheckOneKeeps, ClearProvisionalKeeps, MarkKeeps DEF Evaluator, Provisional

LEMMA TickersStep ==
  ASSUME Locks, Evaluator \/ Provisional
  PROVE  Locks' /\ Advances(db.trips, db'.trips)
<1>1. DbOK(db', contiguous) /\ OnlyTrips(db, db') /\ calc' = calc /\ contiguous' = contiguous
  BY TickersKeep
<1>2. Keeps(db.trips, db'.trips)
  BY <1>1 DEF OnlyTrips
<1>3. LocksOK(calc', db'.trips, contiguous) /\ Advances(db.trips, db'.trips)
  BY <1>1, <1>2, KeepsLocks, KeepsAdvances DEF Locks, Table, DbOK
<1> QED
  BY <1>1, <1>3 DEF Locks, Table

LEMMA CrashStep ==
  ASSUME Locks, Crash
  PROVE  Locks' /\ Advances(db.trips, db'.trips)
<1> USE DEF Locks, Table
<1> DEFINE c == [NoCalc EXCEPT !.pc = "take", !.kind = "recalc"]
<1>1. db' = db /\ contiguous' = contiguous /\ calc' = [w \in Workers |-> c]
  BY DEF Crash
<1>2. DOMAIN c = CalcFields /\ c.pc = "take"
  BY DEF NoCalc, CalcFields
<1> HIDE DEF c
<1>3. CalcOK(c, db.trips, contiguous) /\ ~Held(c)
  BY <1>2, NoCalcOK
<1>4. DOMAIN calc' = Workers /\ \A w \in Workers : calc'[w] = c
  BY <1>1
<1>5. LocksOK(calc', db.trips, contiguous)
  BY <1>3, <1>4 DEF LocksOK
<1>6. Keeps(db.trips, db.trips)
  BY DEF Keeps, SameResult
<1>7. Advances(db.trips, db'.trips)
  BY <1>1, <1>6, KeepsAdvances DEF DbOK
<1> QED
  BY <1>1, <1>5, <1>7

LEMMA LocksStep ==
  ASSUME Locks, [Next]_vars
  PROVE  Locks' /\ Advances(db.trips, db'.trips)
<1>1. CASE Next
  BY <1>1, CalculatorStep, ServerStep, TickersStep, CrashStep DEF Next
<1>2. CASE UNCHANGED vars
  <2>1. db' = db /\ contiguous' = contiguous /\ calc' = calc
    BY <1>2 DEF vars, volatile, world
  <2>2. Keeps(db.trips, db.trips)
    BY DEF Keeps, SameResult
  <2>3. Advances(db.trips, db.trips)
    BY <2>2, KeepsAdvances DEF DbOK, Locks, Table
  <2> QED BY <2>1, <2>3 DEF Locks, Table
<1> QED
  BY <1>1, <1>2

LEMMA LocksInit ==
  ASSUME Init
  PROVE  Locks
<1> DEFINE row(i) == InsertTrip(<<>>, i, [Entry[i] EXCEPT !.target = 1], 0)[i]
           T == [i \in Old |-> row(i)]
<1>1. DOMAIN db = Tables /\ db.trips = T /\ contiguous = 0 /\ calc = [w \in Workers |-> NoCalc]
  BY DEF Init, Tables
<1>2. ASSUME NEW i \in Old PROVE TripRow(i, row(i), 0)
  <2> DEFINE e == [Entry[i] EXCEPT !.target = 1]
             E == <<>>
  <2>1. TripsOK(E, 0) /\ i \notin DOMAIN E /\ i \in Trips /\ 0 \in Nat
    BY TripWorkerAssumption DEF TripsOK
  <2>2. SameEntryAs(e, i)
    BY DEF SameEntryAs
  <2> HIDE DEF e, E
  <2>3. TripsOK(InsertTrip(E, i, e, 0), 0)
    BY <2>1, <2>2, InsertKeeps
  <2>4. i \in DOMAIN InsertTrip(E, i, e, 0)
    BY DEF InsertTrip
  <2> QED BY <2>3, <2>4 DEF TripsOK, E, e
<1>3. DOMAIN T = Old /\ \A i \in Old : T[i] = row(i)
  OBVIOUS
<1> HIDE DEF T, row
<1>4. TripsOK(db.trips, 0)
  BY <1>1, <1>2, <1>3, TripWorkerAssumption DEF TripsOK
<1>5. LocksOK(calc, db.trips, 0)
  <2>1. DOMAIN calc = Workers /\ \A w \in Workers : calc[w] = NoCalc
    BY <1>1
  <2>2. CalcOK(NoCalc, db.trips, 0) /\ ~Held(NoCalc)
    BY NoCalcShape, NoCalcOK
  <2> QED BY <2>1, <2>2 DEF LocksOK
<1>6. contiguous \in 0..Len(Log)
  BY <1>1, TripWorkerAssumption, LenProperties
<1> QED
  BY <1>1, <1>4, <1>5, <1>6 DEF Locks, Table, DbOK

LEMMA AlwaysLocks == Spec => []Locks
<1>1. Init => Locks
  BY LocksInit
<1>2. Locks /\ [Next]_vars => Locks'
  BY LocksStep
<1> QED
  BY <1>1, <1>2, PTL DEF Spec

(* A ready trip stays ready and its calculated_through_seq only grows: of    *)
(* two calculations of a trip, the later one saves the later reading of      *)
(* contiguous_seq, because Take locks the row first.                         *)
THEOREM TripWorkerResultsOnlyAdvance == Spec => ResultsOnlyAdvance
<1> DEFINE A == \A t \in Trips : Ready(t) => Ready(t)' /\ db'.trips[t].through >= db.trips[t].through
<1>1. Locks /\ [Next]_vars => [A]_vars
  <2> SUFFICES ASSUME Locks, [Next]_vars PROVE A
    OBVIOUS
  <2>1. Advances(db.trips, db'.trips)
    BY LocksStep
  <2> QED BY <2>1 DEF Advances, Ready
<1> HIDE DEF A
<1>2. Spec => [][A]_vars
  BY <1>1, AlwaysLocks, PTL DEF Spec
<1> QED
  BY <1>2 DEF A, ResultsOnlyAdvance

-------------------------------------------------------------------------------
(* The data of the dongle                                                    *)

BootColumns == {"dongle", "gen", "boot", "first", "last", "firstT", "lastT", "maxOff", "a", "slope", "src"}
ReadingColumns == {"dongle", "gen", "boot", "pid", "t", "received", "value"}

BlockRow(n) ==
  [dongle |-> 1, seq |-> n, gen |-> 0, boot |-> Log[n].boot, t0 |-> Log[n].t, received |-> n, marker |-> FALSE]

(* The row of a boot as it was when the log had come up to top or later: its *)
(* range ends in two blocks of the boot, with the ones up to through between.*)
Encloses(b, through, top) ==
  /\ b.first \in 1..top /\ b.last \in 1..top /\ b.first <= b.last
  /\ Log[b.first].boot = b.boot /\ Log[b.last].boot = b.boot
  /\ \A n \in 1..through : Log[n].boot = b.boot => b.first <= n /\ n <= b.last

BootRow(b, top) == DOMAIN b = BootColumns /\ b.dongle = 1 /\ b.gen = 0 /\ Encloses(b, top, top)
BootsOK(B, top) ==
  /\ \A b \in B : BootRow(b, top)
  /\ \A b, c \in B : b.boot = c.boot => b = c
  /\ \A n \in 1..top : \E b \in B : b.boot = Log[n].boot

(* The reading of the block r.received.                                      *)
ReadingRow(r, top) ==
  /\ DOMAIN r = ReadingColumns /\ r.received \in 1..top /\ r.value \in Nat
  /\ r.dongle = 1 /\ r.gen = 0 /\ r.boot = Log[r.received].boot
  /\ r.t = Log[r.received].t /\ r.pid = Log[r.received].pid
ReadingsOK(R, top) ==
  /\ \A r \in R : ReadingRow(r, top)
  /\ \A r, s \in R : r.received = s.received => r = s
  /\ \A n \in 1..top : \E r \in R : r.received = n

DataOK(D, top) ==
  BootsOK(D.boots, top) /\ ReadingsOK(D.readings, top) /\ D.blocks = {BlockRow(n) : n \in 1..top}

LEMMA LogTyped ==
  /\ Len(Log) \in Nat /\ DOMAIN Log = 1..Len(Log)
  /\ \A n \in 1..Len(Log) : Log[n].boot \in Nat /\ Log[n].t \in Nat /\ Log[n].pid \in Nat
  /\ \A n \in 1..Len(Log) : Log[n] = [boot |-> Log[n].boot, t |-> Log[n].t, pid |-> Log[n].pid]
<1>1. Len(Log) \in Nat /\ DOMAIN Log = 1..Len(Log) /\ \A n \in 1..Len(Log) : Log[n] \in [boot : Nat, t : Nat, pid : Nat]
  BY TripWorkerAssumption, LenProperties, ElementOfSeq
<1> QED
  BY <1>1

LEMMA BootAfterRow ==
  ASSUME NEW top \in Nat, top + 1 <= Len(Log), BootsOK(db.boots, top), NEW n, n = top + 1
  PROVE  BootRow(BootAfter(n, Log[n]), n) /\ BootAfter(n, Log[n]).boot = Log[n].boot
<1> DEFINE x == Log[n]
           old == FindBoot(db, 1, 0, x.boot)
           b1 == BootAfter(n, x)
<1>0. n \in 1..n /\ n \in Nat
  OBVIOUS
<1>1. old = {b \in db.boots : b.boot = x.boot}
  BY DEF FindBoot, FindBootForTrip, BootsOK, BootRow
<1>2. CASE old = {}
  <2>1. /\ DOMAIN b1 = BootColumns /\ b1.dongle = 1 /\ b1.gen = 0 /\ b1.boot = x.boot /\ b1.first = n /\ b1.last = n
    BY <1>2 DEF BootAfter, BootColumns
  <2>2. \A m \in 1..n : Log[m].boot = x.boot => m = n
    BY <1>0, <1>1, <1>2 DEF BootsOK
  <2> HIDE DEF b1
  <2> QED BY <1>0, <2>1, <2>2 DEF BootRow, Encloses, b1
<1>3. CASE old # {}
  <2> DEFINE b == CHOOSE b \in old : TRUE
             ft == Min({b.firstT, x.t})
             lt == Max({b.lastT, x.t})
             mo == Min({b.maxOff, n - x.t})
  <2>1. b \in db.boots /\ b.boot = x.boot
    BY <1>1, <1>3
  <2>2. b1 = [b EXCEPT !.last = n, !.firstT = ft, !.lastT = lt, !.maxOff = mo]
    BY <1>3 DEF BootAfter
  <2>3. BootRow(b, top)
    BY <2>1 DEF BootsOK
  <2> HIDE DEF b, ft, lt, mo, b1
  <2>4. /\ DOMAIN b1 = BootColumns /\ b1.dongle = 1 /\ b1.gen = 0 /\ b1.boot = x.boot /\ b1.first = b.first /\ b1.last = n
    BY <2>1, <2>2, <2>3 DEF BootRow, BootColumns
  <2>5. b.first \in 1..top /\ Log[b.first].boot = x.boot /\ \A m \in 1..top : Log[m].boot = x.boot => b.first <= m
    BY <2>1, <2>3 DEF BootRow, Encloses
  <2>6. b.first \in 1..n /\ b.first <= n /\ \A m \in 1..n : Log[m].boot = x.boot => b.first <= m /\ m <= n
    BY <1>0, <2>5
  <2> QED BY <1>0, <2>4, <2>5, <2>6 DEF BootRow, Encloses, b1
<1> QED
  BY <1>2, <1>3

LEMMA IngestData ==
  ASSUME DOMAIN db = Tables, contiguous \in Nat, DataOK(db, contiguous), Ingest
  PROVE  DataOK(db', contiguous')
<1> DEFINE n == contiguous + 1
           x == Log[n]
           reading == [dongle |-> 1, gen |-> 0, boot |-> x.boot, pid |-> x.pid, t |-> x.t, received |-> n, value |-> 0]
<1>1. /\ contiguous' = n /\ n <= Len(Log)
      /\ db'.boots = (db.boots \ FindBoot(db, 1, 0, x.boot)) \cup {BootAfter(n, x)}
      /\ db'.readings = db.readings \cup {reading}
      /\ db'.blocks = db.blocks \cup {BlockRow(n)}
  BY LogTyped DEF Ingest, Tables, BlockRow
<1>2. n \in 1..n /\ n \in Nat /\ \A m \in 1..n : m = n \/ m \in 1..contiguous
  OBVIOUS
<1>3. 1..contiguous \subseteq 1..n
  OBVIOUS
<1>4. ReadingRow(reading, n) /\ reading.received = n
  BY <1>2 DEF ReadingRow, ReadingColumns
<1>5. BootRow(BootAfter(n, x), n) /\ BootAfter(n, x).boot = x.boot
  BY <1>1, BootAfterRow DEF DataOK
<1>6. FindBoot(db, 1, 0, x.boot) = {b \in db.boots : b.boot = x.boot}
  BY DEF FindBoot, FindBootForTrip, DataOK, BootsOK, BootRow
<1> DEFINE b1 == BootAfter(n, x)
<1> HIDE DEF n, reading, b1
<1>7. ReadingsOK(db'.readings, n)
  <2>1. \A r \in db'.readings : ReadingRow(r, n)
    BY <1>1, <1>3, <1>4 DEF DataOK, ReadingsOK, ReadingRow
  <2>2. \A r \in db.readings : r.received # n
    BY DEF DataOK, ReadingsOK, ReadingRow, n
  <2>3. \A r, s \in db'.readings : r.received = s.received => r = s
    BY <1>1, <1>4, <2>2 DEF DataOK, ReadingsOK
  <2>4. \A m \in 1..n : \E r \in db'.readings : r.received = m
    BY <1>1, <1>2, <1>4 DEF DataOK, ReadingsOK
  <2> QED BY <2>1, <2>3, <2>4 DEF ReadingsOK
<1>8. BootsOK(db'.boots, n)
  <2>1. db'.boots = {b \in db.boots : b.boot # x.boot} \cup {b1}
    BY <1>1, <1>6 DEF b1
  <2>2. BootRow(b1, n) /\ b1.boot = x.boot
    BY <1>5 DEF b1
  <2>3. ASSUME NEW b \in db.boots, b.boot # x.boot PROVE BootRow(b, n)
    BY <1>2, <1>3, <2>3 DEF DataOK, BootsOK, BootRow, Encloses
  <2>4. \A b, c \in db'.boots : b.boot = c.boot => b = c
    BY <2>1, <2>2 DEF DataOK, BootsOK
  <2>5. ASSUME NEW m \in 1..n PROVE \E b \in db'.boots : b.boot = Log[m].boot
    <3>1. CASE Log[m].boot = x.boot
      BY <2>1, <2>2, <3>1
    <3>2. CASE Log[m].boot # x.boot
      BY <1>2, <2>1, <3>2 DEF DataOK, BootsOK
    <3> QED BY <3>1, <3>2
  <2> QED BY <2>1, <2>2, <2>3, <2>4, <2>5 DEF BootsOK
<1>9. db'.blocks = {BlockRow(m) : m \in 1..n}
  BY <1>1, <1>2, <1>3 DEF DataOK
<1> QED
  BY <1>1, <1>7, <1>8, <1>9 DEF DataOK

LEMMA ConvertBootData ==
  ASSUME DOMAIN db = Tables, contiguous \in Nat, DataOK(db, contiguous), NEW k, ConvertBoot(k)
  PROVE  DataOK(db', contiguous)
<1>1. PICK row \in FindBoot(db, 1, 0, k), a \in Offset[k] \cup {Null} :
        db' = [db EXCEPT !.boots = (@ \ {row}) \cup {[row EXCEPT !.a = a, !.src = IF a = Null THEN "" ELSE "anchors"]}]
  BY DEF ConvertBoot
<1> DEFINE src == IF a = Null THEN "" ELSE "anchors"
           row1 == [row EXCEPT !.a = a, !.src = src]
<1> HIDE DEF src
<1>2. row \in db.boots /\ BootRow(row, contiguous)
  BY DEF FindBoot, FindBootForTrip, DataOK, BootsOK
<1>3. /\ DOMAIN row1 = BootColumns /\ row1.dongle = row.dongle /\ row1.gen = row.gen /\ row1.boot = row.boot
      /\ row1.first = row.first /\ row1.last = row.last
  BY <1>2 DEF BootRow, BootColumns
<1>4. db'.boots = (db.boots \ {row}) \cup {row1} /\ db'.readings = db.readings /\ db'.blocks = db.blocks
  BY <1>1 DEF Tables, src
<1> HIDE DEF row1
<1>5. BootRow(row1, contiguous)
  BY <1>2, <1>3 DEF BootRow, Encloses
<1>6. BootsOK(db'.boots, contiguous)
  <2>1. \A b \in db'.boots : BootRow(b, contiguous)
    BY <1>4, <1>5 DEF DataOK, BootsOK
  <2>2. \A b, c \in db'.boots : b.boot = c.boot => b = c
    BY <1>2, <1>3, <1>4 DEF DataOK, BootsOK
  <2>3. ASSUME NEW n \in 1..contiguous PROVE \E b \in db'.boots : b.boot = Log[n].boot
    <3>1. PICK b \in db.boots : b.boot = Log[n].boot
      BY DEF DataOK, BootsOK
    <3> QED BY <1>3, <1>4, <3>1
  <2> QED BY <2>1, <2>2, <2>3 DEF BootsOK
<1> QED
  BY <1>4, <1>6 DEF DataOK

LEMMA ReprocessData ==
  ASSUME DOMAIN db = Tables, contiguous \in Nat, DataOK(db, contiguous), ReprocessCommit
  PROVE  DataOK(db', contiguous)
<1> DEFINE hit(r) == r.received \in rep.from..rep.to
           up(r) == [r EXCEPT !.value = @ + 1]
           new == {up(r) : r \in {x \in db.readings : hit(x)}}
<1>1. db'.readings = {r \in db.readings : ~hit(r)} \cup new /\ db'.boots = db.boots /\ db'.blocks = db.blocks
  BY DEF ReprocessCommit, Tables
<1>2. ASSUME NEW r \in db.readings PROVE ReadingRow(up(r), contiguous) /\ up(r).received = r.received
  BY DEF DataOK, ReadingsOK, ReadingRow, ReadingColumns
<1> HIDE DEF hit, up
<1>3. \A s \in db'.readings : \E r \in db.readings : (s = r /\ ~hit(r)) \/ (s = up(r) /\ hit(r))
  BY <1>1
<1>4. \A r \in db.readings : IF hit(r) THEN up(r) \in db'.readings ELSE r \in db'.readings
  BY <1>1
<1> HIDE DEF new
<1>5. ReadingsOK(db'.readings, contiguous)
  <2>1. \A s \in db'.readings : ReadingRow(s, contiguous)
    BY <1>2, <1>3 DEF DataOK, ReadingsOK
  <2>2. \A s, s1 \in db'.readings : s.received = s1.received => s = s1
    BY <1>2, <1>3 DEF DataOK, ReadingsOK
  <2>3. \A n \in 1..contiguous : \E s \in db'.readings : s.received = n
    BY <1>2, <1>4 DEF DataOK, ReadingsOK
  <2> QED BY <2>1, <2>2, <2>3 DEF ReadingsOK
<1> QED
  BY <1>1, <1>5 DEF DataOK

(* Nothing else touches the data.                                            *)
LEMMA SameData ==
  ASSUME NEW D, NEW D1, NEW top, DataOK(D, top),
         \A x \in {"boots", "readings", "blocks"} : D1[x] = D[x]
  PROVE  DataOK(D1, top)
<1>1. D1.boots = D.boots /\ D1.readings = D.readings /\ D1.blocks = D.blocks
  OBVIOUS
<1> QED
  BY <1>1 DEF DataOK

Known == Locks /\ DataOK(db, contiguous)

LEMMA KnownStep ==
  ASSUME Known, [Next]_vars
  PROVE  Known' /\ Advances(db.trips, db'.trips)
<1>1. Locks' /\ Advances(db.trips, db'.trips)
  BY LocksStep DEF Known
<1>2. DOMAIN db = Tables /\ contiguous \in Nat /\ DataOK(db, contiguous) /\ DbOK(db, contiguous) /\ Locks
  BY DEF Known, Locks, Table, DbOK
<1>3. ASSUME OnlyTrips(db, db') PROVE DataOK(db', contiguous)
  BY <1>2, <1>3, SameData DEF OnlyTrips, Tables
<1>4. ASSUME db' = db PROVE DataOK(db', contiguous)
  BY <1>2, <1>4
<1>5. DataOK(db', contiguous')
  <2>1. CASE Ingest
    BY <1>2, <2>1, IngestData
  <2>2. CASE \E k \in DOMAIN Offset : ConvertBoot(k)
    <3>1. contiguous' = contiguous
      BY <2>2 DEF ConvertBoot, world
    <3> QED BY <1>2, <2>2, <3>1, ConvertBootData
  <2>3. CASE ReprocessCommit
    <3>1. contiguous' = contiguous
      BY <2>3 DEF ReprocessCommit
    <3> QED BY <1>2, <2>3, <3>1, ReprocessData
  <2>4. CASE Silence \/ (\E t \in Trips : FinalLimit(t)) \/ (\E from, to \in 1..Len(Log) : ReprocessStart(from, to)) \/ Crash
             \/ UNCHANGED vars
    <3>1. db' = db /\ contiguous' = contiguous
      BY <2>4 DEF Silence, FinalLimit, ReprocessStart, Crash, vars, world
    <3> QED BY <1>4, <3>1
  <2>5. CASE \E t \in Trips : \E head \in 0..Len(Log) : CreateTrip(t, head)
    <3>1. OnlyTrips(db, db')
      BY <1>2, <2>5, CreateTripKeeps
    <3>2. contiguous' = contiguous
      BY <2>5 DEF CreateTrip, world
    <3> QED BY <1>3, <3>1, <3>2
  <2>6. CASE Evaluator \/ Provisional
    BY <1>2, <1>3, <2>6, TickersKeep
  <2>7. CASE \E w \in Workers : Calculator(w)
    <3>1. PICK w \in Workers : Calculator(w)
      BY <2>7
    <3>2. contiguous' = contiguous
      BY <3>1 DEF Calculator, TakeJob, DrainRecalc, Taken, ReadProgress, LoadBoots, Fetch, LoadUnconverted, ReadProof, SaveResult,
             AnalyzeFails, FailTaken, DatabaseBusy, Step, world
    <3>3. CASE SaveResult(w)
      <4>1. \A x \in Tables \ {"trips", "gold"} : db'[x] = db[x]
        BY <1>2, <3>3, SaveShape
      <4> QED BY <1>2, <3>2, <4>1, SameData DEF Tables
    <3>4. CASE FailTaken(w)
      BY <1>2, <1>3, <3>2, <3>4, FailTakenKeeps
    <3>5. CASE ~SaveResult(w) /\ ~FailTaken(w)
      <4>1. db' = db
        BY <3>1, <3>5 DEF Calculator, TakeJob, DrainRecalc, Taken, ReadProgress, LoadBoots, Fetch, LoadUnconverted, ReadProof,
               AnalyzeFails, DatabaseBusy
      <4> QED BY <1>4, <3>2, <4>1
    <3> QED BY <3>3, <3>4, <3>5
  <2> QED BY <2>1, <2>2, <2>3, <2>4, <2>5, <2>6, <2>7 DEF Next, Server, Reprocess
<1> QED
  BY <1>1, <1>5 DEF Known

LEMMA KnownInit ==
  ASSUME Init
  PROVE  Known
<1>1. db.boots = {} /\ db.readings = {} /\ db.blocks = {} /\ contiguous = 0
  BY DEF Init
<1>2. 1..0 = {}
  OBVIOUS
<1>3. BootsOK({}, 0) /\ ReadingsOK({}, 0)
  BY <1>2 DEF BootsOK, ReadingsOK
<1>4. {BlockRow(n) : n \in 1..0} = {}
  BY <1>2
<1> QED
  BY <1>1, <1>3, <1>4, LocksInit DEF Known, DataOK

-------------------------------------------------------------------------------
(* What a calculation reads                                                  *)

LEMMA SetToSeqLists ==
  ASSUME NEW S, IsFiniteSet(S)
  PROVE  Lists(SetToSeq(S), S)
<1> DEFINE n == Cardinality(S)
           s == SetToSeq(S)
<1>1. n \in Nat /\ ExistsBijection(1..n, S)
  BY FS_CardinalityType
<1>2. PICK f \in Bijection(1..n, S) : TRUE
  BY <1>1 DEF ExistsBijection
<1>3. f \in [1..n -> S] /\ IsInjective(f)
  BY <1>2 DEF Bijection, Injection, IsInjective
<1>4. s \in [1..n -> S] /\ IsInjective(s)
  BY <1>3 DEF SetToSeq
<1> HIDE DEF s, n
<1>5. s \in Injection(1..n, S)
  BY <1>4 DEF Injection, IsInjective
<1>6. IsFiniteSet(1..n) /\ Cardinality(1..n) = n
  BY <1>1, FS_Interval
<1>7. s \in Surjection(1..n, S)
  BY <1>5, <1>6, FS_Injection DEF n
<1>8. s \in Seq(S) /\ Len(s) = n /\ DOMAIN s = 1..n
  <2>1. s \in Seq(S)
    BY <1>1, <1>4, SeqDef
  <2> QED BY <2>1, <1>1, <1>4, LenProperties
<1>9. \A x \in S : \E k \in DOMAIN s : s[k] = x
  BY <1>7, <1>8 DEF Surjection
<1> QED
  BY <1>8, <1>9 DEF Lists, s, n

LEMMA ReadingsFinite ==
  ASSUME NEW R, NEW top \in Nat, ReadingsOK(R, top)
  PROVE  IsFiniteSet(R)
<1> DEFINE f == [r \in R |-> r.received]
<1>1. f \in [R -> 1..top] /\ \A r \in R : f[r] = r.received
  BY DEF ReadingsOK, ReadingRow
<1> HIDE DEF f
<1>2. f \in Injection(R, 1..top)
  BY <1>1 DEF Injection, IsInjective, ReadingsOK
<1>3. IsFiniteSet(1..top)
  BY FS_Interval
<1> QED
  BY <1>2, <1>3, FS_Injection

(* ORDER BY pid, t_ms of the readings of a boot.                             *)
LEMMA ReadingsAreListed ==
  ASSUME NEW R, NEW top \in 0..Len(Log), ReadingsOK(R, top), NEW q
  PROVE  Lists(LoadTripReadings(R, q), {r \in Selected(R, q) : r.pid \in q.pids /\ r.value # Null})
<1> DEFINE S == {r \in Selected(R, q) : r.pid \in q.pids /\ r.value # Null}
           Earlier(r, s) == r.pid < s.pid \/ (r.pid = s.pid /\ r.t < s.t)
           O == {p \in S \X S : Earlier(p[1], p[2])}
           place == [x \in S |-> 1 + Cardinality({y \in S : Earlier(y, x)})]
<1>1. S \in SUBSET R /\ \A r \in S : r.boot = q.boot
  BY DEF Selected
<1>2. IsFiniteSet(S)
  BY <1>1, ReadingsFinite, FS_Subset, LogTyped
<1>3. \A x, y \in S : <<y, x>> \in O <=> Earlier(y, x)
  OBVIOUS
<1> HIDE DEF S
<1>4. \A r \in S : r.pid \in Nat /\ r.t \in Nat
  BY <1>1, LogTyped DEF ReadingsOK, ReadingRow
<1>5. ASSUME NEW r \in S, NEW s \in S, r.pid = s.pid, r.t = s.t PROVE r = s
  <2>1. ReadingRow(r, top) /\ ReadingRow(s, top) /\ r.boot = s.boot
    BY <1>1 DEF ReadingsOK
  <2>2. r.received \in 1..Len(Log) /\ s.received \in 1..Len(Log)
    BY <2>1, LogTyped DEF ReadingRow
  <2>3. Log[r.received] = Log[s.received]
    <3> DEFINE m == r.received
               n == s.received
    <3>1. Log[m].boot = Log[n].boot /\ Log[m].t = Log[n].t /\ Log[m].pid = Log[n].pid
      BY <1>5, <2>1 DEF ReadingRow
    <3>2. m \in 1..Len(Log) /\ n \in 1..Len(Log)
      BY <2>2
    <3> HIDE DEF m, n
    <3>3. /\ Log[m] = [boot |-> Log[m].boot, t |-> Log[m].t, pid |-> Log[m].pid]
          /\ Log[n] = [boot |-> Log[n].boot, t |-> Log[n].t, pid |-> Log[n].pid]
      BY <3>2, LogTyped
    <3>4. Log[m] = Log[n]
      BY <3>1, <3>3
    <3> QED BY <3>4 DEF m, n
  <2>4. r.received = s.received
    BY <2>2, <2>3, LogTyped, TripWorkerAssumption
  <2> QED BY <1>1, <2>4 DEF ReadingsOK
<1>6. Orders(O, S)
  <2> HIDE DEF O
  <2> QED BY <1>3, <1>4, <1>5 DEF Orders
<1>7. \A x \in S : {y \in S : <<y, x>> \in O} = {y \in S : Earlier(y, x)}
  <2> HIDE DEF O, Earlier
  <2> QED BY <1>3
<1>8. place = Places(O, S)
  <2> HIDE DEF O, Earlier
  <2> QED BY <1>7 DEF Places
<1>9. Lists(Placed(S, place), S)
  <2> HIDE DEF O, Earlier, place
  <2> QED BY <1>2, <1>6, <1>8, EveryPlaceIsTaken
<1>10. LoadTripReadings(R, q) = Placed(S, place)
  <2> DEFINE nth(n) == CHOOSE x \in S : place[x] = n
             ranked(n) == CHOOSE x \in S : 1 + Cardinality({y \in S : Earlier(y, x)}) = n
  <2>1. \A x \in S : place[x] = 1 + Cardinality({y \in S : Earlier(y, x)})
    OBVIOUS
  <2>2. LoadTripReadings(R, q) = [n \in 1..Cardinality(S) |-> ranked(n)]
    BY Zenon DEF LoadTripReadings, SortBy, S
  <2> HIDE DEF place, Earlier
  <2>3. \A n : nth(n) = ranked(n)
    BY <2>1
  <2>4. Placed(S, place) = [n \in 1..Cardinality(S) |-> nth(n)]
    BY DEF Placed
  <2> HIDE DEF nth, ranked
  <2> QED BY <2>2, <2>3, <2>4
<1> HIDE DEF place
<1> QED
  BY <1>9, <1>10 DEF S

LEMMA LastTBound ==
  LastT \in Nat /\ \A n \in DOMAIN Log : Log[n].t \in Nat /\ Log[n].t <= LastT
<1> DEFINE f == [n \in DOMAIN Log |-> Log[n].t]
           ts == {Log[n].t : n \in DOMAIN Log}
           S == {0} \cup ts
<1>1. f \in Surjection(DOMAIN Log, ts)
  BY DEF Surjection
<1>2. IsFiniteSet(DOMAIN Log)
  BY LogTyped, FS_Interval
<1>3. IsFiniteSet(ts)
  <2> HIDE DEF f, ts
  <2> QED BY <1>1, <1>2, FS_Surjection
<1>4. ts \in SUBSET Nat /\ \A n \in DOMAIN Log : Log[n].t \in ts
  BY LogTyped
<1>5. LastT = Max(S)
  BY Zenon DEF LastT
<1> HIDE DEF ts
<1>6. IsFiniteSet(S)
  BY <1>3, FS_Singleton, FS_Union
<1>7. S \in SUBSET Int /\ S # {} /\ S \in SUBSET Nat
  BY <1>4
<1> HIDE DEF S
<1>8. Max(S) \in S /\ \A x \in S : x <= Max(S)
  BY <1>6, <1>7, MaxOfFinite
<1> QED
  BY <1>4, <1>5, <1>7, <1>8 DEF S

(* The blocks of a boot are received in seq order: the range of its          *)
(* receptions is its range of seq.                                           *)
LEMMA ReceivedRangeIs ==
  ASSUME NEW top \in Nat, DataOK(db, top), NEW b, b.gen = 0, NEW through, Encloses(b, through, top)
  PROVE  ReceivedRange(db, 1, b) = {<<b.first, b.last>>}
<1> DEFINE at == {x.received : x \in DataBlocks(db.blocks, 1, b, b.first, b.last)}
<1>0. /\ b.first \in 1..top /\ b.last \in 1..top /\ b.first <= b.last
      /\ Log[b.first].boot = b.boot /\ Log[b.last].boot = b.boot
  BY DEF Encloses
<1>1. at = {n \in 1..top : b.first <= n /\ n <= b.last /\ Log[n].boot = b.boot}
  <2> DEFINE B == DataBlocks(db.blocks, 1, b, b.first, b.last)
  <2>1. \A n : /\ BlockRow(n).dongle = 1 /\ BlockRow(n).seq = n /\ BlockRow(n).gen = 0
               /\ BlockRow(n).boot = Log[n].boot /\ BlockRow(n).received = n /\ ~BlockRow(n).marker
    BY DEF BlockRow
  <2>2. B = {x \in {BlockRow(n) : n \in 1..top} :
               x.dongle = 1 /\ x.seq >= b.first /\ x.seq <= b.last /\ x.boot = b.boot /\ x.gen = b.gen /\ ~x.marker}
    BY DEF DataBlocks, DataOK
  <2> HIDE DEF B
  <2>3. \A n \in 1..top : BlockRow(n) \in B <=> b.first <= n /\ n <= b.last /\ Log[n].boot = b.boot
    BY <1>0, <2>1, <2>2
  <2>4. \A x \in B : \E n \in 1..top : x = BlockRow(n)
    BY <2>2
  <2>5. at = {x.received : x \in B}
    BY DEF B
  <2> HIDE DEF at
  <2>6. \A n \in at : n \in 1..top /\ BlockRow(n) \in B
    BY <2>1, <2>4, <2>5
  <2>7. \A n \in 1..top : BlockRow(n) \in B => n \in at
    BY <2>1, <2>5
  <2> QED BY <2>3, <2>6, <2>7
<1> HIDE DEF at
<1>2. at # {} /\ b.first \in at /\ b.last \in at
  BY <1>0, <1>1
<1>3. Min(at) = b.first
  <2>1. \A n \in at : b.first <= n
    BY <1>1
  <2>2. \A m \in at : (\A n \in at : m <= n) => m = b.first
    BY <1>0, <1>1, <1>2
  <2> QED BY <1>2, <2>1, <2>2 DEF Min
<1>4. Max(at) = b.last
  <2>1. \A n \in at : b.last >= n
    BY <1>0, <1>1
  <2>2. \A m \in at : (\A n \in at : m >= n) => m = b.last
    BY <1>0, <1>1, <1>2
  <2> QED BY <1>2, <2>1, <2>2 DEF Max
<1>5. BootFirstReceived(db.blocks, 1, b, b.first, b.last) = {b.first}
  BY <1>2, <1>3 DEF BootFirstReceived, at
<1>6. BootLastReceived(db.blocks, 1, b, b.first, b.last) = {b.last}
  BY <1>2, <1>4 DEF BootLastReceived, at
<1>7. b.first # Null /\ b.last # Null
  BY <1>0 DEF Null
<1> QED
  BY <1>5, <1>6, <1>7 DEF ReceivedRange

Inside(x, b, t) == x.entry = "interval" => Epoch(b, t) \in x.start..(x.end - 1)
RowOf(r) == [boot |-> r.boot, t |-> r.t, version |-> r.value]

(* The readings that a calculation takes of a boot.                          *)
InBoot(r, x, b) ==
  /\ r.boot = b.boot /\ r.pid \in Analysed /\ b.first <= r.received /\ r.received <= b.last /\ Inside(x, b, r.t)

LEMMA BootRowsAre ==
  ASSUME NEW top \in 0..Len(Log), DataOK(db, top), NEW b, b.gen = 0, NEW through, Encloses(b, through, top), NEW x
  PROVE  /\ \A r \in db.readings : InBoot(r, x, b) => RowOf(r) \in BootRows(x, b)
         /\ \A y \in BootRows(x, b) : \E r \in db.readings : InBoot(r, x, b) /\ y = RowOf(r)
<1> DEFINE q == [dongle |-> 1, gen |-> b.gen, boot |-> b.boot, pids |-> Analysed, from |-> b.first,
                 to |-> b.last, tFrom |-> 0, tTo |-> LastT]
           S == {r \in Selected(db.readings, q) : r.pid \in q.pids /\ r.value # Null}
           list == LoadTripReadings(db.readings, q)
           rows == ToSet(LoadReadings(db, q))
<1>1. /\ b.first \in 1..top /\ b.last \in 1..top /\ b.first <= b.last /\ top \in Nat
  BY LogTyped DEF Encloses
<1>2. Lists(list, S)
  <2> HIDE DEF q
  <2> QED BY ReadingsAreListed DEF DataOK
<1>3. list \in Seq(S) /\ DOMAIN list = 1..Len(list) /\ (\A k \in DOMAIN list : list[k] \in S)
      /\ (\A r \in S : \E k \in DOMAIN list : list[k] = r)
  <2>1. list \in Seq(S)
    BY <1>2 DEF Lists
  <2> HIDE DEF list, S
  <2>2. DOMAIN list = 1..Len(list) /\ \A k \in DOMAIN list : list[k] \in S
    BY <2>1, LenProperties, ElementOfSeq
  <2> QED BY <1>2, <2>1, <2>2 DEF Lists
<1>4. S = {r \in db.readings : r.boot = b.boot /\ r.pid \in Analysed /\ b.first <= r.received /\ r.received <= b.last}
  <2>1. S = {r \in db.readings : /\ r.dongle = 1 /\ r.gen = b.gen /\ r.boot = b.boot /\ r.received \in b.first..b.last
                                 /\ r.t >= 0 /\ r.t <= LastT /\ r.pid \in Analysed /\ r.value # Null}
    BY DEF Selected
  <2>2. ASSUME NEW r \in db.readings
        PROVE  /\ r.dongle = 1 /\ r.gen = b.gen /\ r.received \in Nat /\ r.t >= 0 /\ r.t <= LastT /\ r.value # Null
    <3>1. ReadingRow(r, top) /\ r.received \in DOMAIN Log
      BY LogTyped DEF DataOK, ReadingsOK, ReadingRow
    <3>2. r.t = Log[r.received].t
      BY <3>1 DEF ReadingRow
    <3>3. r.t \in Nat /\ r.t <= LastT
      BY <3>1, <3>2, LastTBound
    <3> QED BY <3>1, <3>3 DEF ReadingRow, Null
  <2> HIDE DEF S
  <2> QED BY <1>1, <2>1, <2>2
<1>5. LoadReadings(db, q) = [k \in DOMAIN list |-> <<list[k].pid, list[k].t, list[k].value>>]
  BY DEF LoadReadings
<1> HIDE DEF list, S, q
<1>6. rows = {<<r.pid, r.t, r.value>> : r \in S}
  <2>1. rows = {<<list[k].pid, list[k].t, list[k].value>> : k \in DOMAIN list}
    BY <1>5 DEF ToSet
  <2> QED BY <1>3, <2>1
<1>7. ReceivedRange(db, 1, b) = {<<b.first, b.last>>}
  BY <1>1, ReceivedRangeIs
<1>8. BootRows(x, b) = {[boot |-> b.boot, t |-> r[2], version |-> r[3]] : r \in {y \in rows : Inside(x, b, y[2])}}
  <2> DEFINE query(r) == [dongle |-> 1, gen |-> b.gen, boot |-> b.boot, pids |-> Analysed, from |-> r[1],
                          to |-> r[2], tFrom |-> 0, tTo |-> LastT]
             all == UNION {ToSet(LoadReadings(db, query(r))) : r \in ReceivedRange(db, 1, b)}
  <2>1. query(<<b.first, b.last>>) = q
    BY DEF q
  <2> HIDE DEF query
  <2>2. {ToSet(LoadReadings(db, query(r))) : r \in ReceivedRange(db, 1, b)} = {rows}
    BY <1>7, <2>1
  <2>3. all = rows
    BY <2>2
  <2> HIDE DEF rows
  <2>4. BootRows(x, b) = {[boot |-> b.boot, t |-> r[2], version |-> r[3]] : r \in {y \in all : Inside(x, b, y[2])}}
    BY Zenon DEF BootRows, Inside, query
  <2> HIDE DEF all
  <2> QED BY <2>3, <2>4
<1> HIDE DEF rows
<1>9. ASSUME NEW r \in db.readings, InBoot(r, x, b) PROVE RowOf(r) \in BootRows(x, b)
  <2>1. r \in S
    BY <1>4, <1>9 DEF InBoot
  <2> DEFINE y == <<r.pid, r.t, r.value>>
  <2>2. y \in rows /\ y[2] = r.t /\ y[3] = r.value
    BY <1>6, <2>1
  <2> HIDE DEF y
  <2>3. y \in {z \in rows : Inside(x, b, z[2])}
    BY <1>9, <2>2 DEF InBoot
  <2>4. [boot |-> b.boot, t |-> y[2], version |-> y[3]] \in BootRows(x, b)
    BY <1>8, <2>3
  <2> QED BY <1>9, <2>2, <2>4 DEF RowOf, InBoot
<1>10. ASSUME NEW y \in BootRows(x, b) PROVE \E r \in db.readings : InBoot(r, x, b) /\ y = RowOf(r)
  <2>1. PICK z \in {w \in rows : Inside(x, b, w[2])} : y = [boot |-> b.boot, t |-> z[2], version |-> z[3]]
    BY <1>8, <1>10
  <2>2. PICK r \in S : z = <<r.pid, r.t, r.value>>
    BY <1>6
  <2>3. z[2] = r.t /\ z[3] = r.value /\ Inside(x, b, z[2])
    BY <2>1, <2>2
  <2>4. r \in db.readings /\ InBoot(r, x, b)
    BY <1>4, <2>3 DEF InBoot
  <2>5. y = RowOf(r)
    BY <2>1, <2>3, <2>4 DEF RowOf, InBoot
  <2> QED BY <2>4, <2>5
<1> QED
  BY <1>9, <1>10

-------------------------------------------------------------------------------
(* What a result shows                                                       *)

GoldTables == {"part", "summary", "band", "event", "stop", "gear", "shift", "series"}

(* The analysis writes no row in the child tables of a result with none.     *)
NoChildren(result) == \A x \in {"parts", "bands", "events", "stops", "gears", "shifts"} : result[x] = <<>>

LEMMA NoChildRows ==
  ASSUME NEW gold, NEW i
  PROVE  /\ Numbered(InsertTripPart, gold, i, <<>>) = gold
         /\ Numbered(InsertTripSpeedBand, gold, i, <<>>) = gold
         /\ Numbered(InsertTripEvent, gold, i, <<>>) = gold
         /\ Numbered(InsertTripStop, gold, i, <<>>) = gold
         /\ Numbered(InsertTripGear, gold, i, <<>>) = gold
         /\ Numbered(InsertTripGearShift, gold, i, <<>>) = gold
<1> DEFINE ns == [n \in DOMAIN <<>> |-> n]
           P(it, table) == it = [s \in SUBSET (DOMAIN ns) |->
                                   IF s = {} THEN gold
                                   ELSE LET x == Max(s) IN With(it[s \ {x}], table, i, ns[x], <<>>[ns[x]])]
<1>1. DOMAIN ns = {}
  OBVIOUS
<1>2. ASSUME NEW table PROVE (CHOOSE it : P(it, table))[DOMAIN ns] = gold
  <2> DEFINE none == [s \in SUBSET (DOMAIN ns) |-> gold]
  <2>1. P(none, table)
    BY <1>1
  <2>2. P(CHOOSE it : P(it, table), table)
    BY <2>1, Zenon
  <2> QED BY <1>1, <2>2
<1>3. Numbered(InsertTripPart, gold, i, <<>>) = gold
  BY <1>2, Zenon DEF Numbered, FoldLeftDomain, FoldLeft, MapThenFoldSet, InsertTripPart
<1>4. Numbered(InsertTripSpeedBand, gold, i, <<>>) = gold
  BY <1>2, Zenon DEF Numbered, FoldLeftDomain, FoldLeft, MapThenFoldSet, InsertTripSpeedBand
<1>5. Numbered(InsertTripEvent, gold, i, <<>>) = gold
  BY <1>2, Zenon DEF Numbered, FoldLeftDomain, FoldLeft, MapThenFoldSet, InsertTripEvent
<1>6. Numbered(InsertTripStop, gold, i, <<>>) = gold
  BY <1>2, Zenon DEF Numbered, FoldLeftDomain, FoldLeft, MapThenFoldSet, InsertTripStop
<1>7. Numbered(InsertTripGear, gold, i, <<>>) = gold
  BY <1>2, Zenon DEF Numbered, FoldLeftDomain, FoldLeft, MapThenFoldSet, InsertTripGear
<1>8. Numbered(InsertTripGearShift, gold, i, <<>>) = gold
  BY <1>2, Zenon DEF Numbered, FoldLeftDomain, FoldLeft, MapThenFoldSet, InsertTripGearShift
<1> QED
  BY <1>3, <1>4, <1>5, <1>6, <1>7, <1>8

LEMMA EmptiedTables ==
  ASSUME NEW G, DOMAIN G = GoldTables, NEW i
  PROVE  DOMAIN Emptied(G, i) = GoldTables /\ Emptied(G, i)["series"] = {r \in G["series"] : r.id # i}
<1>1. ASSUME NEW G1, DOMAIN G1 = GoldTables, NEW table \in GoldTables
      PROVE  /\ DOMAIN Without(G1, table, i) = GoldTables
             /\ table # "series" => Without(G1, table, i)["series"] = G1["series"]
             /\ table = "series" => Without(G1, table, i)["series"] = {r \in G1["series"] : r.id # i}
  BY <1>1 DEF Without, GoldTables
<1> DEFINE G1 == Without(G, "part", i)
           G2 == Without(G1, "summary", i)
           G3 == Without(G2, "band", i)
           G4 == Without(G3, "event", i)
           G5 == Without(G4, "stop", i)
           G6 == Without(G5, "gear", i)
           G7 == Without(G6, "shift", i)
<1>2. Emptied(G, i) = Without(G7, "series", i)
  BY DEF Emptied, DeleteTripParts, DeleteTripSummary, DeleteTripSpeedBands, DeleteTripEvents, DeleteTripStops,
         DeleteTripGears, DeleteTripGearShifts, DeleteTripSeries
<1> DEFINE Fine(H) == DOMAIN H = GoldTables /\ H["series"] = G["series"]
<1>3. ASSUME NEW H, Fine(H), NEW table \in GoldTables \ {"series"} PROVE Fine(Without(H, table, i))
  BY <1>1, <1>3
<1>4. /\ "part" \in GoldTables \ {"series"} /\ "summary" \in GoldTables \ {"series"} /\ "band" \in GoldTables \ {"series"}
      /\ "event" \in GoldTables \ {"series"} /\ "stop" \in GoldTables \ {"series"} /\ "gear" \in GoldTables \ {"series"}
      /\ "shift" \in GoldTables \ {"series"} /\ "series" \in GoldTables
  BY DEF GoldTables
<1>5. Fine(G)
  OBVIOUS
<1> HIDE DEF Fine
<1>6. Fine(G1)
  BY <1>3, <1>4, <1>5
<1> HIDE DEF G1
<1>7. Fine(G2)
  BY <1>3, <1>4, <1>6
<1> HIDE DEF G2
<1>8. Fine(G3)
  BY <1>3, <1>4, <1>7
<1> HIDE DEF G3
<1>9. Fine(G4)
  BY <1>3, <1>4, <1>8
<1> HIDE DEF G4
<1>10. Fine(G5)
  BY <1>3, <1>4, <1>9
<1> HIDE DEF G5
<1>11. Fine(G6)
  BY <1>3, <1>4, <1>10
<1> HIDE DEF G6
<1>12. Fine(G7)
  BY <1>3, <1>4, <1>11
<1> HIDE DEF G7
<1> QED
  BY <1>1, <1>2, <1>4, <1>12 DEF Fine

(* After Save, the series of the trip is the one saved, and the series of    *)
(* the others are as they were.                                              *)
LEMMA SaveGold ==
  ASSUME NEW D, DOMAIN D = Tables, DOMAIN D.gold = GoldTables, NEW i, NEW c, NEW D1, D1 = Save(D, i, c),
         NoChildren(c.result)
  PROVE  /\ DOMAIN D1.gold = GoldTables
         /\ D1.gold["series"] = {r \in D.gold["series"] : r.id # i}
                                \cup {[id |-> i, no |-> 1, row |-> seriesParams(c.result)]}
<1> DEFINE E == Emptied(D.gold, i)
           G1 == insertRows(E, i, c.result)
           G2 == InsertTripSummary(G1, i, summaryParams(c.result))
           G3 == InsertTripSeries(G2, i, seriesParams(c.result))
<1>1. D1 = [D EXCEPT !.gold = G3, !.trips = SaveTripResult(D.trips, i, c)]
  BY DEF Save
<1>2. D1.gold = G3
  <2> HIDE DEF G3
  <2> QED BY <1>1 DEF Tables
<1>3. DOMAIN E = GoldTables /\ E["series"] = {r \in D.gold["series"] : r.id # i}
  BY EmptiedTables
<1> HIDE DEF E
<1>4. G1 = E
  <2> DEFINE parts  == Numbered(InsertTripPart, E, i, c.result.parts)
             bands  == Numbered(InsertTripSpeedBand, parts, i, c.result.bands)
             events == Numbered(InsertTripEvent, bands, i, c.result.events)
             stops  == Numbered(InsertTripStop, events, i, c.result.stops)
             gears  == Numbered(InsertTripGear, stops, i, c.result.gears)
             shifts == Numbered(InsertTripGearShift, gears, i, c.result.shifts)
  <2>1. /\ c.result.parts = <<>> /\ c.result.bands = <<>> /\ c.result.events = <<>> /\ c.result.stops = <<>>
        /\ c.result.gears = <<>> /\ c.result.shifts = <<>>
    BY DEF NoChildren
  <2>2. G1 = shifts
    BY DEF insertRows
  <2>3. parts = E
    BY <2>1, NoChildRows, Zenon
  <2>4. bands = E
    BY <2>1, <2>3, NoChildRows, Zenon
  <2>5. events = E
    BY <2>1, <2>4, NoChildRows, Zenon
  <2>6. stops = E
    BY <2>1, <2>5, NoChildRows, Zenon
  <2>7. gears = E
    BY <2>1, <2>6, NoChildRows, Zenon
  <2>8. shifts = E
    BY <2>1, <2>7, NoChildRows, Zenon
  <2> QED BY <2>2, <2>8
<1> DEFINE s == summaryParams(c.result)
           p == seriesParams(c.result)
<1>5. DOMAIN G2 = GoldTables /\ G2["series"] = E["series"]
  <2> HIDE DEF G1, s
  <2>1. G2 = [G1 EXCEPT !["summary"] = @ \cup {[id |-> i, no |-> 1, row |-> s]}]
    BY DEF InsertTripSummary, With, s
  <2> QED BY <1>3, <1>4, <2>1 DEF GoldTables
<1> HIDE DEF G2
<1>6. G3 = [G2 EXCEPT !["series"] = @ \cup {[id |-> i, no |-> 1, row |-> p]}]
  BY DEF InsertTripSeries, With
<1> HIDE DEF G3, p
<1>7. DOMAIN G3 = GoldTables /\ G3["series"] = E["series"] \cup {[id |-> i, no |-> 1, row |-> p]}
  BY <1>5, <1>6 DEF GoldTables
<1> QED
  BY <1>2, <1>3, <1>7 DEF p

ShownIn(G, t) == GetTripSeries(G, t)[1].line

(* The rows of one trip, in order.                                           *)
InOrder(S) ==
  LET sorted == SortBy(S, LAMBDA r, s : r.no < s.no) IN [k \in DOMAIN sorted |-> sorted[k].row]

LEMMA SeriesInOrder ==
  ASSUME NEW G, NEW t
  PROVE  GetTripSeries(G, t) = InOrder({r \in G["series"] : r.id = t})
  BY Zenon DEF GetTripSeries, Rows, InOrder

LEMMA OneInOrder ==
  ASSUME NEW e, e.no = 1
  PROVE  InOrder({e})[1] = e.row
<1> DEFINE S == {e}
           rank(x) == 1 + Cardinality({y \in S : y.no < x.no})
           sorted == [n \in 1..Cardinality(S) |-> CHOOSE x \in S : rank(x) = n]
<1>1. Cardinality(S) = 1
  BY FS_Singleton
<1>2. {y \in S : y.no < e.no} = {}
  OBVIOUS
<1>3. rank(e) = 1
  BY <1>2, FS_EmptySet
<1> HIDE DEF rank
<1>4. sorted[1] = e /\ DOMAIN sorted = 1..1
  BY <1>1, <1>3
<1>5. InOrder(S) = [k \in DOMAIN sorted |-> sorted[k].row]
  BY Zenon DEF InOrder, SortBy, rank
<1> HIDE DEF sorted
<1> QED
  BY <1>4, <1>5

(* What each trip shows after a calculation is saved.                        *)
OthersShown(G, G1, i) == \A t : t # i => ShownIn(G1, t) = ShownIn(G, t)

LEMMA SaveShown ==
  ASSUME NEW D, DOMAIN D = Tables, DOMAIN D.gold = GoldTables, NEW i, NEW c, NEW D1, D1 = Save(D, i, c),
         NoChildren(c.result)
  PROVE  /\ DOMAIN D1.gold = GoldTables
         /\ ShownIn(D1.gold, i) = c.result.series
         /\ OthersShown(D.gold, D1.gold, i)
<1> DEFINE e == [id |-> i, no |-> 1, row |-> seriesParams(c.result)]
           S(G, t) == {r \in G["series"] : r.id = t}
<1>1. DOMAIN D1.gold = GoldTables /\ D1.gold["series"] = {r \in D.gold["series"] : r.id # i} \cup {e}
  BY SaveGold
<1>2. e.id = i /\ e.no = 1 /\ e.row.line = c.result.series
  BY DEF seriesParams
<1> HIDE DEF e
<1>3. S(D1.gold, i) = {e}
  BY <1>1, <1>2
<1>4. \A t : t # i => S(D1.gold, t) = S(D.gold, t)
  BY <1>1, <1>2
<1>5. \A G, t : GetTripSeries(G, t) = InOrder(S(G, t))
  BY SeriesInOrder
<1> HIDE DEF S
<1>6. ShownIn(D1.gold, i) = c.result.series
  BY <1>2, <1>3, <1>5, OneInOrder DEF ShownIn
<1>7. OthersShown(D.gold, D1.gold, i)
  BY <1>4, <1>5 DEF ShownIn, OthersShown
<1> QED
  BY <1>1, <1>6, <1>7

LEMMA ResultShown ==
  ASSUME DOMAIN db = Tables, DOMAIN db.gold = GoldTables, NEW w \in Workers, SaveResult(w)
  PROVE  /\ DOMAIN db'.gold = GoldTables /\ ShownIn(db'.gold, calc[w].trip) = calc[w].rows
         /\ \A t : t # calc[w].trip => ShownIn(db'.gold, t) = ShownIn(db.gold, t)
<1> DEFINE c == calc[w]
           i == c.trip
           C == Calculation(c)
           D1 == Save(db, i, C)
<1>1. db' = D1
  BY DEF SaveResult
<1>2. C.result.series = c.rows /\ NoChildren(C.result)
  BY DEF Calculation, NoChildren
<1> HIDE DEF C, i, c
<1>3. D1 = Save(db, i, C)
  OBVIOUS
<1> HIDE DEF D1
<1>4. DOMAIN D1.gold = GoldTables
  BY <1>2, <1>3, SaveShown
<1>5. ShownIn(D1.gold, i) = C.result.series
  BY <1>2, <1>3, SaveShown
<1>6. OthersShown(db.gold, D1.gold, i)
  BY <1>2, <1>3, SaveShown
<1> QED
  BY <1>1, <1>2, <1>4, <1>5, <1>6 DEF i, c, OthersShown

-------------------------------------------------------------------------------
(* What stays of a row                                                       *)

(* No trip comes, none goes, and what a calculation found of it stays.       *)
SameFind(r, s) == s.first = r.first /\ s.last = r.last /\ s.provisional = r.provisional
Finds(T, T1) == DOMAIN T1 = DOMAIN T /\ \A t \in DOMAIN T : SameFind(T[t], T1[t])

(* So does its mark for recalculation.                                       *)
SameMark(r, s) == SameFind(r, s) /\ (r.recalc => s.recalc)
Stays(T, T1) == DOMAIN T1 = DOMAIN T /\ \A t \in DOMAIN T : SameMark(T[t], T1[t])

LEMMA StaysFinds ==
  ASSUME NEW T, NEW T1, Stays(T, T1)
  PROVE  Finds(T, T1)
  BY DEF Stays, Finds, SameMark

LEMMA StaysReflexive ==
  \A T : Stays(T, T)
  BY DEF Stays, SameFind, SameMark

LEMMA StaysTransitive ==
  ASSUME NEW T, NEW T1, NEW T2, Stays(T, T1), Stays(T1, T2)
  PROVE  Stays(T, T2)
  BY DEF Stays, SameFind, SameMark

LEMMA OneRowStays ==
  ASSUME NEW T, NEW i, NEW T1, DOMAIN T1 = DOMAIN T,
         \A t \in DOMAIN T : t # i => T1[t] = T[t], i \in DOMAIN T => SameMark(T[i], T1[i])
  PROVE  Stays(T, T1)
  BY DEF Stays, SameFind, SameMark

LEMMA MarkTripWaitingStays ==
  ASSUME NEW T, NEW top, TripsOK(T, top), NEW i
  PROVE  Stays(T, MarkTripWaiting(T, i))
<1>1. CASE i \in DOMAIN T /\ T[i].status = "pending"
  <2> DEFINE T1 == MarkTripWaiting(T, i)
             row == [T[i] EXCEPT !.status = "waiting_data"]
  <2>1. T1 = [T EXCEPT ![i] = row]
    BY <1>1 DEF MarkTripWaiting
  <2>2. SameMark(T[i], row)
    BY <1>1 DEF TripsOK, TripRow, SameFind, SameMark, Columns
  <2> HIDE DEF T1, row
  <2>3. Stays(T, T1)
    <3>1. DOMAIN T1 = DOMAIN T /\ T1[i] = row /\ \A t \in DOMAIN T : t # i => T1[t] = T[t]
      BY <1>1, <2>1
    <3> QED BY <2>2, <3>1, OneRowStays
  <2> QED BY <2>3 DEF T1
<1>2. CASE ~(i \in DOMAIN T /\ T[i].status = "pending")
  BY <1>2, StaysReflexive DEF MarkTripWaiting
<1> QED
  BY <1>1, <1>2

LEMMA ResolveStays ==
  ASSUME NEW T, NEW top, TripsOK(T, top), NEW boots, NEW i, NEW d, NEW b
  PROVE  Stays(T, ResolveTripGeneration(T, boots, i, d, b))
<1> DEFINE T1 == ResolveTripGeneration(T, boots, i, d, b)
           g == Max(Generations(boots, d, b))
           row == [T[i] EXCEPT !.gen = g]
<1>1. T1 = T \/ (i \in DOMAIN T /\ T1 = [T EXCEPT ![i] = row])
  BY DEF ResolveTripGeneration
<1> HIDE DEF T1, g
<1>2. i \in DOMAIN T => SameMark(T[i], row)
  BY DEF TripsOK, TripRow, SameFind, SameMark, Columns
<1> HIDE DEF row
<1>3. Stays(T, T1)
  BY <1>1, <1>2, OneRowStays, StaysReflexive
<1> QED
  BY <1>3 DEF T1

LEMMA FindsReflexive ==
  \A T : Finds(T, T)
  BY DEF Finds, SameFind

LEMMA OneRowFinds ==
  ASSUME NEW T, NEW i, NEW T1, DOMAIN T1 = DOMAIN T,
         \A t \in DOMAIN T : t # i => T1[t] = T[t], i \in DOMAIN T => SameFind(T[i], T1[i])
  PROVE  Finds(T, T1)
  BY DEF Finds, SameFind

LEMMA FailFinds ==
  ASSUME NEW T, NEW top, TripsOK(T, top), NEW i
  PROVE  Finds(T, FailTrip(T, i))
<1> DEFINE T1 == FailTrip(T, i)
           status == IF T[i].status = "ready" THEN "ready" ELSE "failed"
           row == [T[i] EXCEPT !.status = status, !.recalc = FALSE]
<1>1. T1 = T \/ (i \in DOMAIN T /\ T1 = [T EXCEPT ![i] = row])
  BY DEF FailTrip
<1> HIDE DEF T1, status
<1>2. i \in DOMAIN T => SameFind(T[i], row)
  BY DEF TripsOK, TripRow, SameFind, Columns
<1> HIDE DEF row
<1>3. Finds(T, T1)
  BY <1>1, <1>2, OneRowFinds, FindsReflexive
<1> QED
  BY <1>3 DEF T1

LEMMA MarkedStays ==
  ASSUME NEW T, NEW top, TripsOK(T, top), NEW S
  PROVE  /\ Stays(T, Marked(T, S))
         /\ \A t \in DOMAIN T : Marked(T, S)[t].recalc = IF t \in S THEN TRUE ELSE T[t].recalc
<1> DEFINE T1 == Marked(T, S)
<1>1. DOMAIN T1 = DOMAIN T /\ \A t \in DOMAIN T : T1[t] = IF t \in S THEN [T[t] EXCEPT !.recalc = TRUE] ELSE T[t]
  BY DEF Marked
<1> HIDE DEF T1
<1>2. ASSUME NEW t \in DOMAIN T
      PROVE  /\ SameMark(T[t], T1[t])
             /\ T1[t].recalc = IF t \in S THEN TRUE ELSE T[t].recalc
  BY <1>1 DEF TripsOK, TripRow, SameFind, SameMark, Columns
<1> QED
  BY <1>1, <1>2 DEF Stays, T1

(* The commands of the tickers and of the command line, but for Clear.       *)
LEMMA StepStays ==
  ASSUME Locks, EvalOne \/ CheckOne \/ Mark \/ ReprocessCommit
  PROVE  Stays(db.trips, db'.trips)
<1>0. DOMAIN db = Tables /\ TripsOK(db.trips, contiguous)
  BY DEF Locks, Table, DbOK
<1>1. CASE EvalOne
  <2> DEFINE t == Head(eval.list)
             x == db.trips[t]
             T == MarkTripWaiting(db.trips, t)
             T1 == ResolveTripGeneration(T, db.boots, t, 1, x.boot)
  <2>1. db' = IF Unresolved(x) THEN Resolved(MarkWaiting(db, t), t, 1, x.boot) ELSE MarkWaiting(db, t)
    BY <1>1 DEF EvalOne
  <2> HIDE DEF x, t
  <2>2. MarkWaiting(db, t) = [db EXCEPT !.trips = T]
    BY DEF MarkWaiting
  <2>3. MarkWaiting(db, t).trips = T /\ MarkWaiting(db, t).boots = db.boots /\ DOMAIN MarkWaiting(db, t) = Tables
    <3> HIDE DEF T
    <3> QED BY <1>0, <2>2 DEF Tables
  <2>4. Resolved(MarkWaiting(db, t), t, 1, x.boot).trips = T1
    <3>1. Resolved(MarkWaiting(db, t), t, 1, x.boot) = [MarkWaiting(db, t) EXCEPT !.trips = T1]
      BY <2>3, Zenon DEF Resolved
    <3> HIDE DEF T1
    <3> QED BY <2>3, <3>1 DEF Tables
  <2>5. db'.trips = T \/ db'.trips = T1
    <3> HIDE DEF T, T1
    <3> QED BY <2>1, <2>3, <2>4
  <2>6. Stays(db.trips, T) /\ TripsOK(T, contiguous)
    BY <1>0, MarkTripWaitingStays, MarkTripWaitingKeeps
  <2> HIDE DEF T
  <2>7. Stays(T, T1)
    BY <2>6, ResolveStays
  <2> HIDE DEF T1
  <2> QED BY <2>5, <2>6, <2>7, StaysTransitive
<1>2. CASE CheckOne
  <2> DEFINE p == prov.list[1]
             T == ResolveTripGeneration(db.trips, db.boots, p.id, 1, p.row.boot)
  <2>1. db' = IF Unresolved(p.row) THEN Resolved(db, p.id, 1, p.row.boot) ELSE db
    BY <1>2 DEF CheckOne
  <2> HIDE DEF p
  <2>2. Resolved(db, p.id, 1, p.row.boot) = [db EXCEPT !.trips = T]
    BY DEF Resolved
  <2>3. Stays(db.trips, T)
    BY <1>0, ResolveStays
  <2> HIDE DEF T
  <2>4. Resolved(db, p.id, 1, p.row.boot).trips = T
    BY <1>0, <2>2 DEF Tables
  <2> QED BY <2>1, <2>3, <2>4, StaysReflexive
<1>3. CASE Mark
  <2> DEFINE S == {i \in prov.mark \cap DOMAIN db.trips : db.trips[i].status = "ready"}
             T == Marked(db.trips, S)
  <2>1. db' = [db EXCEPT !.trips = T]
    BY <1>3 DEF Mark, MarkRecalc, MarkTripsRecalcByID
  <2>2. Stays(db.trips, T)
    <3> HIDE DEF S
    <3> QED BY <1>0, MarkedStays
  <2> HIDE DEF T
  <2> QED BY <1>0, <2>1, <2>2 DEF Tables
<1>4. CASE ReprocessCommit
  <2> DEFINE S == rep.trips \cap Crossing(db.trips, 1, rep.from, rep.to)
  <2>1. db'.trips = Marked(db.trips, S)
    BY <1>0, <1>4, ReprocessTrips
  <2> HIDE DEF S
  <2>2. Stays(db.trips, Marked(db.trips, S))
    BY <1>0, MarkedStays
  <2> QED BY <2>1, <2>2
<1> QED
  BY <1>1, <1>2, <1>3, <1>4

(* A trip whose analysis failed loses its mark.                              *)
LEMMA FailTakenFinds ==
  ASSUME Locks, NEW w \in Workers, FailTaken(w)
  PROVE  Finds(db.trips, db'.trips)
<1> DEFINE T == FailTrip(db.trips, calc[w].trip)
<1>0. DOMAIN db = Tables /\ TripsOK(db.trips, contiguous)
  BY DEF Locks, Table, DbOK
<1>1. db' = [db EXCEPT !.trips = T]
  BY DEF FailTaken, Fail
<1>2. Finds(db.trips, T)
  BY <1>0, FailFinds
<1> HIDE DEF T
<1> QED
  BY <1>0, <1>1, <1>2 DEF Tables

(* Clear changes one column of one trip.                                     *)
LEMMA ClearRow ==
  ASSUME Locks, Clear
  PROVE  LET i == CHOOSE t \in prov.clear : TRUE
         IN  /\ DOMAIN db' = Tables /\ db'.gold = db.gold /\ DOMAIN db'.trips = DOMAIN db.trips /\ i \in prov.clear
             /\ \A t \in DOMAIN db.trips : /\ t # i => db'.trips[t] = db.trips[t]
                                           /\ db'.trips[t].first = db.trips[t].first
                                           /\ db'.trips[t].last = db.trips[t].last
                                           /\ db'.trips[t].recalc = db.trips[t].recalc
<1> DEFINE i == CHOOSE t \in prov.clear : TRUE
           T == ClearTripProvisional(db.trips, i)
<1>0. DOMAIN db = Tables /\ TripsOK(db.trips, contiguous)
  BY DEF Locks, Table, DbOK
<1>1. db' = [db EXCEPT !.trips = T] /\ i \in prov.clear
  BY DEF Clear, ClearProvisional
<1> HIDE DEF i
<1>2. DOMAIN T = DOMAIN db.trips /\ \A t \in DOMAIN db.trips : T[t] = db.trips[t] \/ (t = i /\ T[t] = [db.trips[t] EXCEPT !.provisional = FALSE])
  BY DEF ClearTripProvisional
<1> HIDE DEF T
<1>3. DOMAIN db' = Tables /\ db'.gold = db.gold /\ db'.trips = T
  BY <1>0, <1>1 DEF Tables
<1>4. ASSUME NEW t \in DOMAIN db.trips
      PROVE  /\ t # i => T[t] = db.trips[t]
             /\ T[t].first = db.trips[t].first /\ T[t].last = db.trips[t].last /\ T[t].recalc = db.trips[t].recalc
  BY <1>0, <1>2 DEF TripsOK, TripRow, Columns
<1> QED
  BY <1>1, <1>2, <1>3, <1>4 DEF i

(* The row of a trip that is created.                                        *)
LEMMA CreatedRow ==
  ASSUME Known, NEW t \in Trips, NEW head, CreateTrip(t, head)
  PROVE  /\ t \notin DOMAIN db.trips /\ DOMAIN db'.trips = DOMAIN db.trips \cup {t} /\ db'.gold = db.gold
         /\ \A i \in DOMAIN db.trips : db'.trips[i] = db.trips[i]
         /\ db'.trips[t].status = "pending" /\ db'.trips[t].recalc = FALSE /\ db'.trips[t].first = Null
         /\ db'.trips[t].last = Null
         /\ db'.trips[t].entry = "boot" => db'.trips[t].gen # Null
<1> DEFINE e == [Entry[t] EXCEPT !.target = head]
           gens == Generations(db.boots, 1, e.boot)
           g == LatestGeneration(db, 1, e.boot)
           d == IF e.entry = "boot" /\ e.gen = Null /\ g # {} THEN [e EXCEPT !.gen = Max(g)] ELSE e
           now == 1 + Cardinality(DOMAIN db.trips)
           T == InsertTrip(db.trips, t, d, now)
<1>0. DOMAIN db = Tables /\ BootsOK(db.boots, contiguous)
  BY DEF Known, Locks, Table, DbOK, DataOK
<1>1. /\ t \notin DOMAIN db.trips /\ InsertError(db, d) = "" /\ db' = Insert(db, t, d, now)
      /\ d.entry = "boot" => g # {}
  BY DEF CreateTrip
<1>2. db' = [db EXCEPT !.trips = T]
  BY <1>1 DEF Insert
<1>3. gens \subseteq {0}
  BY <1>0 DEF Generations, BootsOK, BootRow
<1>4. g = IF gens = {} THEN {} ELSE {Max(gens)}
  BY DEF LatestGeneration, LatestBootGeneration
<1>5. Max({0}) = 0
  <2>1. 0 \in {0} /\ \A y \in {0} : 0 >= y
    OBVIOUS
  <2>2. \A m \in {0} : m = 0
    OBVIOUS
  <2> QED BY <2>1, <2>2 DEF Max
<1>6. g = {} \/ g = {0}
  <2> HIDE DEF g, gens
  <2>1. gens = {} \/ gens = {0}
    BY <1>3
  <2> QED BY <1>4, <1>5, <2>1
<1> HIDE DEF g, gens, now
<1>7. d.entry = "boot" => d.gen # Null
  <2>1. CASE e.entry = "boot" /\ e.gen = Null /\ g # {}
    <3>1. d = [e EXCEPT !.gen = Max(g)] /\ Max(g) = 0
      BY <1>5, <1>6, <2>1
    <3>2. "gen" \in DOMAIN e
      BY TripWorkerAssumption
    <3> HIDE DEF e
    <3> QED BY <3>1, <3>2 DEF Null
  <2>2. CASE ~(e.entry = "boot" /\ e.gen = Null /\ g # {})
    BY <1>1, <2>2
  <2> QED BY <2>1, <2>2
<1> HIDE DEF d
<1>8. /\ DOMAIN T = DOMAIN db.trips \cup {t} /\ (\A i \in DOMAIN db.trips : T[i] = db.trips[i])
      /\ T[t].status = "pending" /\ T[t].recalc = FALSE /\ T[t].first = Null /\ T[t].last = Null
      /\ T[t].entry = d.entry /\ T[t].gen = d.gen
  BY <1>1 DEF InsertTrip
<1> HIDE DEF T
<1>9. db'.trips = T /\ db'.gold = db.gold
  BY <1>0, <1>2 DEF Tables
<1> QED
  BY <1>1, <1>7, <1>8, <1>9

-------------------------------------------------------------------------------
(* The result of a boot                                                      *)

(* S has what the log has of the boot, up to through.                        *)
Covers(S, boot, through) ==
  \A n \in 1..through : Log[n].pid \in Analysed /\ Log[n].boot = boot => \E r \in S : r.boot = boot /\ r.t = Log[n].t

Nothing(c) == c.rows = {} /\ c.boots = <<>>

(* The row of the trip's boot, read after through was.                       *)
BootOf(b, boot, through, top) == b.gen = 0 /\ b.boot = boot /\ Encloses(b, through, top)

Whole(c, boot, top) ==
  /\ Covers(c.rows, boot, c.through)
  /\ c.boots = <<>> \/ (c.boots = <<c.boots[1]>> /\ BootOf(c.boots[1], boot, c.through, top))

(* The dongle has recorded nothing of the boot after through.                *)
Recorded(boot, through) == \A n \in DOMAIN Log : Log[n].boot = boot => n <= through

(* What a calculation of a trip of the boot has loaded.                      *)
Loaded(c, boot, top) ==
  /\ c.pc = "fetch" => \/ c.left = <<>> /\ Whole(c, boot, top)
                       \/ c.left = <<c.left[1]>> /\ BootOf(c.left[1], boot, c.through, top) /\ Nothing(c)
  /\ c.pc \in {"proof", "save"} => Whole(c, boot, top)
  /\ c.pc = "save" /\ c.complete => Recorded(boot, c.through)

OfBoot0(r) == r.entry = "boot" /\ r.gen = 0
LoadOK(c, T, top) ==
  /\ c.pc \in {"take", "progress", "boots"} => Nothing(c)
  /\ Held(c) /\ OfBoot0(T[c.trip]) => Loaded(c, T[c.trip].boot, top)
LoadsOK(k, T, top) == \A w \in Workers : LoadOK(k[w], T, top)

ResultsOK(T, G) ==
  \A t \in DOMAIN T : T[t].status = "ready" /\ OfBoot0(T[t]) => Covers(ShownIn(G, t), T[t].boot, T[t].through)
GensOK(T) == \A t \in DOMAIN T : T[t].entry = "boot" => T[t].gen # Null

(* A trip that is new has no result.                                         *)
NewRows(T, T1) ==
  \A t \in DOMAIN T1 \ DOMAIN T : T1[t].status # "ready" /\ (T1[t].entry = "boot" => T1[t].gen # Null)

LEMMA GensKept ==
  ASSUME NEW T, NEW T1, NEW top, NEW top1, TripsOK(T, top), TripsOK(T1, top1), GensOK(T), Keeps(T, T1), NewRows(T, T1)
  PROVE  /\ GensOK(T1)
         /\ \A t \in DOMAIN T : /\ T1[t].entry = T[t].entry /\ T1[t].boot = T[t].boot
                                /\ (OfBoot0(T1[t]) <=> OfBoot0(T[t]))
<1>1. ASSUME NEW t \in DOMAIN T
      PROVE  /\ T1[t].entry = T[t].entry /\ T1[t].boot = T[t].boot /\ (OfBoot0(T1[t]) <=> OfBoot0(T[t]))
             /\ T1[t].entry = "boot" => T1[t].gen # Null
  BY DEF TripsOK, TripRow, GensOK, Keeps, SameResult, OfBoot0
<1>2. GensOK(T1)
  BY <1>1 DEF GensOK, NewRows
<1> QED
  BY <1>1, <1>2

LEMMA ResultsKept ==
  ASSUME NEW T, NEW T1, NEW top, NEW top1, TripsOK(T, top), TripsOK(T1, top1), GensOK(T), Keeps(T, T1), NewRows(T, T1),
         NEW G, ResultsOK(T, G)
  PROVE  ResultsOK(T1, G)
<1>1. \A t \in DOMAIN T : /\ T1[t].boot = T[t].boot /\ (OfBoot0(T1[t]) <=> OfBoot0(T[t]))
                          /\ T1[t].status = "ready" => T[t].status = "ready"
                          /\ T1[t].through = T[t].through
  BY GensKept DEF Keeps, SameResult
<1> QED
  BY <1>1 DEF ResultsOK, NewRows

LEMMA BootOfLater ==
  ASSUME NEW b, NEW boot, NEW through, NEW top \in Nat, NEW top1 \in Nat, top <= top1, BootOf(b, boot, through, top)
  PROVE  BootOf(b, boot, through, top1)
  BY DEF BootOf, Encloses

LEMMA LoadsKept ==
  ASSUME NEW T, NEW T1, NEW top \in Nat, NEW top1 \in Nat, top <= top1, TripsOK(T, top), TripsOK(T1, top1),
         GensOK(T), Keeps(T, T1), NewRows(T, T1), NEW k, LocksOK(k, T, top), LoadsOK(k, T, top)
  PROVE  LoadsOK(k, T1, top1)
<1>1. \A t \in DOMAIN T : T1[t].boot = T[t].boot /\ (OfBoot0(T1[t]) <=> OfBoot0(T[t]))
  BY GensKept
<1>2. ASSUME NEW w \in Workers, Held(k[w]), OfBoot0(T1[k[w].trip]) PROVE Loaded(k[w], T1[k[w].trip].boot, top1)
  <2>1. k[w].trip \in DOMAIN T
    BY <1>2 DEF LocksOK, CalcOK
  <2>2. Loaded(k[w], T1[k[w].trip].boot, top)
    BY <1>1, <1>2, <2>1 DEF LoadsOK, LoadOK
  <2> QED BY <2>2, BootOfLater DEF Loaded, Whole
<1> QED
  BY <1>2 DEF LoadsOK, LoadOK

-------------------------------------------------------------------------------
(* The proof that a boot is complete                                         *)

LEMMA LogOrdered ==
  \A m, n \in DOMAIN Log : m < n => Log[m].boot <= Log[n].boot
  BY TripWorkerAssumption

(* Min returns the smallest element of a finite nonempty set of integers.    *)
LEMMA MinOfFinite ==
  ASSUME NEW S \in SUBSET Int, S # {}, IsFiniteSet(S)
  PROVE  Min(S) \in S /\ \A x \in S : Min(S) <= x
<1> DEFINE key == [x \in S |-> 0 - x]
<1>1. key \in [S -> Int] /\ \A x \in S : key[x] = 0 - x
  OBVIOUS
<1> HIDE DEF key
<1>2. PICK m \in S : \A x \in S : key[x] <= key[m]
  BY <1>1, LargestKeyExists
<1>3. \A x \in S : m <= x
  BY <1>1, <1>2
<1> QED
  BY <1>3 DEF Min

(* The rows of a boot end before the row of the boot that follows it.        *)
LEMMA NextBootEnds ==
  ASSUME NEW top \in 0..Len(Log), DataOK(db, top), NEW b, NEW boot, NEW through, BootOf(b, boot, through, top),
         NEW next \in NextBootStart(db, 1, b.last)
  PROVE  next \in 1..top /\ \A n \in DOMAIN Log : Log[n].boot = boot => n < next
<1> DEFINE starts == {y.first : y \in {x \in db.boots : x.dongle = 1 /\ x.first > b.last}}
<1>0. top \in Nat /\ 1..top \subseteq DOMAIN Log /\ DOMAIN Log \in SUBSET Nat
  BY LogTyped
<1>1. starts # {} /\ next = Min(starts)
  BY DEF NextBootStart, NextBootFirstSeq
<1>2. \A y \in db.boots : BootRow(y, top)
  BY DEF DataOK, BootsOK
<1>3. starts \in SUBSET (1..top)
  BY <1>2 DEF BootRow, Encloses
<1>4. next \in starts
  <2> HIDE DEF starts
  <2>1. starts \in SUBSET Int /\ IsFiniteSet(starts)
    <3>1. IsFiniteSet(1..top)
      BY <1>0, FS_Interval
    <3>2. IsFiniteSet(starts)
      BY <1>3, <3>1, FS_Subset
    <3> QED BY <1>0, <1>3, <3>2
  <2> QED BY <1>1, <2>1, MinOfFinite
<1>5. PICK y \in db.boots : y.first > b.last /\ next = y.first
  BY <1>4
<1>6. BootRow(y, top) /\ b.first \in 1..top /\ b.last \in 1..top /\ b.first <= b.last
      /\ Log[b.first].boot = boot /\ Log[b.last].boot = boot
  BY <1>2 DEF BootOf, Encloses
<1>7. y.first \in 1..top /\ Log[y.first].boot = y.boot /\ (\A n \in 1..top : Log[n].boot = y.boot => y.first <= n)
  BY <1>6 DEF BootRow, Encloses
<1>8. y.boot # boot
  BY <1>0, <1>5, <1>6, <1>7
<1>9. boot <= y.boot /\ boot \in Nat /\ y.boot \in Nat
  <2>1. b.last \in DOMAIN Log /\ y.first \in DOMAIN Log /\ b.last < y.first
    BY <1>0, <1>5, <1>6, <1>7
  <2>2. Log[b.last].boot <= Log[y.first].boot
    BY <2>1, LogOrdered
  <2>3. Log[b.last].boot \in Nat /\ Log[y.first].boot \in Nat
    BY <2>1, LogTyped
  <2> QED BY <1>6, <1>7, <2>2, <2>3
<1>10. ASSUME NEW n \in DOMAIN Log, Log[n].boot = boot PROVE n < next
  <2>1. ~(y.first < n)
    <3>1. y.first \in DOMAIN Log
      BY <1>0, <1>7
    <3>2. y.first < n => Log[y.first].boot <= Log[n].boot
      BY <3>1, LogOrdered
    <3> QED BY <1>7, <1>8, <1>9, <1>10, <3>2
  <2>2. n # y.first
    BY <1>7, <1>8, <1>10
  <2> QED BY <1>0, <1>5, <1>7, <2>1, <2>2
<1> QED
  BY <1>5, <1>7, <1>10

(* A calculation that is complete has the whole boot.                        *)
LEMMA ProofEnds ==
  ASSUME NEW top \in 0..Len(Log), DataOK(db, top), NEW t, db.trips[t].entry = "boot", NEW boot, NEW through,
         NEW end \in Nat, NEW boots, boots = <<>> \/ (boots = <<boots[1]>> /\ BootOf(boots[1], boot, through, top)),
         CompleteProof(t, boots, end)
  PROVE  /\ boots = <<boots[1]>> /\ BootOf(boots[1], boot, through, top)
         /\ \A n \in DOMAIN Log : Log[n].boot = boot => n < end /\ n < top
<1> DEFINE lasts == {boots[n].last : n \in DOMAIN boots}
<1>1. lasts # {} /\ \E next \in NextBootStart(db, 1, Max(lasts)) : next <= end
  BY DEF CompleteProof, EndsWithTime
<1>2. boots # <<>>
  BY <1>1
<1> DEFINE b == boots[1]
<1>3. boots = <<b>> /\ BootOf(b, boot, through, top)
  BY <1>2
<1> HIDE DEF b
<1>4. lasts = {b.last}
  BY <1>3
<1>5. b.last \in Nat
  BY <1>3, LogTyped DEF BootOf, Encloses
<1>6. Max({b.last}) = b.last
  <2>1. b.last \in {b.last} /\ \A y \in {b.last} : b.last >= y
    BY <1>5
  <2>2. \A m \in {b.last} : m = b.last
    OBVIOUS
  <2> QED BY <2>1, <2>2 DEF Max
<1> HIDE DEF lasts
<1>7. PICK next \in NextBootStart(db, 1, b.last) : next <= end
  BY <1>1, <1>4, <1>6
<1>8. next \in 1..top /\ \A n \in DOMAIN Log : Log[n].boot = boot => n < next
  BY <1>3, NextBootEnds
<1>9. DOMAIN Log \in SUBSET Nat /\ top \in Nat
  BY LogTyped
<1>10. \A n \in DOMAIN Log : Log[n].boot = boot => n < end /\ n < top
  BY <1>7, <1>8, <1>9
<1> QED
  BY <1>3, <1>10 DEF b

-------------------------------------------------------------------------------
(* What a calculation loads, step by step                                    *)

(* One calculation changes, of a row that stays.                             *)
LEMMA OneLoad ==
  ASSUME NEW k, NEW T, NEW top, DOMAIN k = Workers, LoadsOK(k, T, top), NEW w \in Workers, NEW c, LoadOK(c, T, top),
         NEW k1, k1 = [k EXCEPT ![w] = c]
  PROVE  LoadsOK(k1, T, top)
<1>1. k1[w] = c /\ \A v \in Workers : v # w => k1[v] = k[v]
  OBVIOUS
<1> QED
  BY <1>1 DEF LoadsOK

LEMMA EmptyLoad ==
  ASSUME NEW c, c.pc \in {"idle", "take", "fail"}, NEW T, NEW top, Nothing(c)
  PROVE  LoadOK(c, T, top)
  BY DEF LoadOK, Held

LEMMA LoadBootsLoads ==
  ASSUME Known, LoadsOK(calc, db.trips, contiguous), NEW w \in Workers, LoadBoots(w)
  PROVE  LoadsOK(calc', db.trips, contiguous)
<1> DEFINE c == calc[w]
           c1 == calc'[w]
           x == db.trips[c.trip]
           F == FindBoot(db, 1, 0, x.boot)
<1>0. Locks /\ DataOK(db, contiguous) /\ contiguous \in 0..Len(Log) /\ contiguous \in Nat
  BY LogTyped DEF Known, Locks, Table
<1>1. /\ c.pc = "boots" /\ calc' = [calc EXCEPT ![w] = c1] /\ c1.pc = "fetch" /\ c1.trip = c.trip
      /\ c1.through = c.through /\ c1.left = TripBoots(x) /\ c1.boots = c.boots /\ c1.rows = c.rows
  BY <1>0, LoadBootsShape
<1>2. CalcOK(c, db.trips, contiguous) /\ LoadOK(c, db.trips, contiguous) /\ DOMAIN calc = Workers
  BY <1>0 DEF Locks, LocksOK, LoadsOK
<1>3. Nothing(c1) /\ c.through \in 0..contiguous
  BY <1>1, <1>2 DEF LoadOK, Nothing, CalcOK, Reads
<1> HIDE DEF c, c1
<1>4. ASSUME OfBoot0(x) PROVE Loaded(c1, x.boot, contiguous)
  <2>1. c1.left = SetToSeq(F)
    BY <1>1, <1>4 DEF TripBoots, OfBoot0, Null
  <2>2. F = {b \in db.boots : b.boot = x.boot}
    BY <1>0 DEF FindBoot, FindBootForTrip, DataOK, BootsOK, BootRow
  <2>3. CASE F = {}
    <3>1. Lists(SetToSeq({}), {})
      BY SetToSeqLists, FS_EmptySet
    <3>2. c1.left = <<>>
      BY <2>1, <2>3, <3>1, FS_EmptySet, EmptySeq DEF Lists
    <3>3. Covers(c1.rows, x.boot, c1.through)
      <4>1. \A n \in 1..contiguous : Log[n].boot # x.boot
        BY <1>0, <2>2, <2>3 DEF DataOK, BootsOK
      <4>2. 1..c1.through \subseteq 1..contiguous
        BY <1>0, <1>1, <1>3
      <4> QED BY <4>1, <4>2 DEF Covers
    <3> QED BY <1>1, <1>3, <3>2, <3>3 DEF Loaded, Whole, Nothing
  <2>4. CASE F # {}
    <3>1. PICK b \in F : TRUE
      BY <2>4
    <3>2. F = {b}
      BY <1>0, <2>2, <3>1 DEF DataOK, BootsOK
    <3>3. Lists(SetToSeq({b}), {b}) /\ Cardinality({b}) = 1
      BY SetToSeqLists, FS_Singleton
    <3>4. c1.left \in Seq({b}) /\ Len(c1.left) = 1
      BY <2>1, <3>2, <3>3 DEF Lists
    <3>5. c1.left[1] = b
      BY <3>4, ElementOfSeq
    <3>6. c1.left = <<c1.left[1]>>
      BY <3>4, <3>5
    <3>7. BootRow(b, contiguous) /\ b.boot = x.boot
      BY <1>0, <2>2, <3>1 DEF DataOK, BootsOK
    <3>8. BootOf(b, x.boot, c1.through, contiguous)
      BY <1>0, <1>1, <1>3, <3>7 DEF BootRow, BootOf, Encloses
    <3> QED BY <1>1, <1>3, <3>5, <3>6, <3>8 DEF Loaded
  <2> QED BY <2>3, <2>4
<1>5. LoadOK(c1, db.trips, contiguous)
  BY <1>1, <1>4 DEF LoadOK
<1> QED
  BY <1>1, <1>2, <1>5, OneLoad

LEMMA FetchLoads ==
  ASSUME Known, LoadsOK(calc, db.trips, contiguous), NEW w \in Workers, Fetch(w)
  PROVE  LoadsOK(calc', db.trips, contiguous)
<1> DEFINE c == calc[w]
           c1 == calc'[w]
           x == db.trips[c.trip]
           b == c.left[1]
           rows == BootRows(x, b)
<1>0. Locks /\ DataOK(db, contiguous) /\ contiguous \in 0..Len(Log) /\ contiguous \in Nat
  BY LogTyped DEF Known, Locks, Table
<1>1. /\ c.pc = "fetch" /\ c.left # <<>> /\ calc' = [calc EXCEPT ![w] = c1] /\ c1.pc = "fetch" /\ c1.trip = c.trip
      /\ c1.through = c.through /\ c1.left = Tail(c.left) /\ c1.rows = c.rows \cup rows
      /\ c1.boots = IF rows = {} THEN c.boots ELSE Append(c.boots, b)
  BY <1>0, FetchShape
<1>2. CalcOK(c, db.trips, contiguous) /\ LoadOK(c, db.trips, contiguous) /\ DOMAIN calc = Workers
  BY <1>0 DEF Locks, LocksOK, LoadsOK
<1>3. Held(c) /\ c.through \in 0..contiguous
  BY <1>1, <1>2 DEF CalcOK, Reads, Held
<1> HIDE DEF c, c1
<1>4. ASSUME OfBoot0(x) PROVE Loaded(c1, x.boot, contiguous)
  <2>1. c.left = <<b>> /\ BootOf(b, x.boot, c.through, contiguous) /\ Nothing(c)
    BY <1>1, <1>2, <1>3, <1>4 DEF LoadOK, Loaded
  <2> HIDE DEF x, b
  <2>2. c1.left = <<>>
    BY <1>1, <2>1
  <2>3. c1.rows = rows /\ (c1.boots = <<>> \/ c1.boots = <<b>>)
    BY <1>1, <2>1 DEF Nothing
  <2>4. \A r \in db.readings : InBoot(r, x, b) => RowOf(r) \in rows
    BY <1>0, <2>1, BootRowsAre DEF BootOf
  <2> HIDE DEF rows
  <2>5. ASSUME NEW n \in 1..c.through, Log[n].pid \in Analysed, Log[n].boot = x.boot
        PROVE  \E r \in rows : r.boot = x.boot /\ r.t = Log[n].t
    <3>1. n \in 1..contiguous
      BY <1>0, <1>3
    <3>2. PICK r \in db.readings : r.received = n
      BY <1>0, <3>1 DEF DataOK, ReadingsOK
    <3>3. ReadingRow(r, contiguous)
      BY <1>0 DEF DataOK, ReadingsOK
    <3>4. InBoot(r, x, b)
      BY <1>4, <2>1, <2>5, <3>2, <3>3 DEF InBoot, Inside, OfBoot0, BootOf, Encloses, ReadingRow
    <3>5. RowOf(r) \in rows /\ RowOf(r).boot = x.boot /\ RowOf(r).t = Log[n].t
      BY <2>4, <2>5, <3>2, <3>3, <3>4 DEF RowOf, ReadingRow
    <3> QED BY <3>5
  <2>6. Covers(c1.rows, x.boot, c1.through)
    BY <1>1, <2>3, <2>5 DEF Covers
  <2>7. Whole(c1, x.boot, contiguous)
    BY <1>1, <2>1, <2>3, <2>6 DEF Whole
  <2> QED BY <1>1, <2>2, <2>7 DEF Loaded
<1>5. LoadOK(c1, db.trips, contiguous)
  BY <1>1, <1>4 DEF LoadOK
<1> QED
  BY <1>1, <1>2, <1>5, OneLoad

LEMMA LoadUnconvertedLoads ==
  ASSUME Known, LoadsOK(calc, db.trips, contiguous), NEW w \in Workers, LoadUnconverted(w)
  PROVE  LoadsOK(calc', db.trips, contiguous)
<1> DEFINE c == calc[w]
           c1 == calc'[w]
           x == db.trips[c.trip]
<1>0. Locks
  BY DEF Known
<1>1. /\ c.pc = "fetch" /\ c.left = <<>> /\ calc' = [calc EXCEPT ![w] = c1] /\ c1.pc = "proof" /\ c1.trip = c.trip
      /\ c1.through = c.through /\ c1.rows = c.rows /\ c1.boots = c.boots
  BY <1>0, LoadUnconvertedShape
<1>2. LoadOK(c, db.trips, contiguous) /\ DOMAIN calc = Workers /\ Held(c)
  BY <1>0, <1>1 DEF Locks, LocksOK, LoadsOK, Held
<1> HIDE DEF c, c1
<1>3. ASSUME OfBoot0(x) PROVE Loaded(c1, x.boot, contiguous)
  <2>1. Whole(c, x.boot, contiguous)
    BY <1>1, <1>2, <1>3 DEF LoadOK, Loaded
  <2> QED BY <1>1, <2>1 DEF Loaded, Whole
<1>4. LoadOK(c1, db.trips, contiguous)
  BY <1>1, <1>3 DEF LoadOK
<1> QED
  BY <1>1, <1>2, <1>4, OneLoad

(* completeProof reads what the boots of the trip prove.                     *)
LEMMA ReadProofLoads ==
  ASSUME Known, LoadsOK(calc, db.trips, contiguous), NEW w \in Workers, ReadProof(w)
  PROVE  LoadsOK(calc', db.trips, contiguous)
<1> DEFINE c == calc[w]
           c1 == calc'[w]
           i == c.trip
           x == db.trips[i]
<1>0. Locks /\ DataOK(db, contiguous) /\ contiguous \in 0..Len(Log) /\ contiguous \in Nat
  BY LogTyped DEF Known, Locks, Table
<1>1. /\ c.pc = "proof" /\ calc' = [calc EXCEPT ![w] = c1] /\ c1.pc = "save" /\ c1.trip = i
      /\ c1.through = c.through /\ c1.rows = c.rows /\ c1.boots = c.boots
      /\ c1.complete = CompleteProof(i, c.boots, c.through)
  BY <1>0, ReadProofShape
<1>2. LoadOK(c, db.trips, contiguous) /\ DOMAIN calc = Workers /\ Held(c) /\ c.through \in 0..contiguous
  BY <1>0, <1>1 DEF Locks, LocksOK, LoadsOK, CalcOK, Held, Reads
<1> HIDE DEF c, c1
<1>3. ASSUME OfBoot0(x) PROVE Loaded(c1, x.boot, contiguous)
  <2>1. Whole(c, x.boot, contiguous)
    BY <1>1, <1>2, <1>3 DEF LoadOK, Loaded
  <2>2. c.boots = <<>> \/ (c.boots = <<c.boots[1]>> /\ BootOf(c.boots[1], x.boot, c.through, contiguous))
    BY <2>1 DEF Whole
  <2>3. x.entry = "boot" /\ c.through \in Nat
    BY <1>0, <1>2, <1>3 DEF OfBoot0
  <2> HIDE DEF i
  <2>4. ASSUME c1.complete PROVE Recorded(x.boot, c1.through)
    <3>1. CompleteProof(i, c.boots, c.through)
      BY <1>1, <2>4
    <3>2. \A n \in DOMAIN Log : Log[n].boot = x.boot => n < c.through
      BY <1>0, <2>2, <2>3, <3>1, ProofEnds
    <3>3. DOMAIN Log \in SUBSET Nat
      BY LogTyped
    <3> QED BY <1>1, <2>3, <3>2, <3>3 DEF Recorded
  <2> QED BY <1>1, <2>1, <2>4 DEF Loaded, Whole
<1>4. LoadOK(c1, db.trips, contiguous)
  BY <1>1, <1>3 DEF LoadOK, i
<1> QED
  BY <1>1, <1>2, <1>4, OneLoad

-------------------------------------------------------------------------------
(* Every result has what the log had of its boot when it was calculated      *)

Results ==
  /\ Known /\ GensOK(db.trips) /\ DOMAIN db.gold = GoldTables
  /\ LoadsOK(calc, db.trips, contiguous) /\ ResultsOK(db.trips, db.gold)

(* A step that saves no result.                                              *)
LEMMA OthersKeepResults ==
  ASSUME Results, Known', Keeps(db.trips, db'.trips), NewRows(db.trips, db'.trips), db'.gold = db.gold,
         contiguous <= contiguous', LocksOK(calc', db.trips, contiguous), LoadsOK(calc', db.trips, contiguous)
  PROVE  Results'
<1>1. /\ contiguous \in Nat /\ contiguous' \in Nat /\ TripsOK(db.trips, contiguous) /\ TripsOK(db'.trips, contiguous')
      /\ GensOK(db.trips) /\ ResultsOK(db.trips, db.gold)
  BY LogTyped DEF Results, Known, Locks, Table, DbOK
<1>2. GensOK(db'.trips)
  BY <1>1, GensKept
<1>3. ResultsOK(db'.trips, db.gold)
  BY <1>1, ResultsKept
<1>4. LoadsOK(calc', db'.trips, contiguous')
  BY <1>1, LoadsKept
<1> QED
  BY <1>2, <1>3, <1>4 DEF Results

(* A step that writes nothing in the table of trips.                         *)
LEMMA SameTripsKeepResults ==
  ASSUME Results, Known', db'.trips = db.trips, db'.gold = db.gold, contiguous <= contiguous',
         calc' = calc \/ (contiguous' = contiguous /\ LoadsOK(calc', db.trips, contiguous))
  PROVE  Results'
<1>1. Keeps(db.trips, db'.trips) /\ NewRows(db.trips, db'.trips)
  BY DEF Keeps, SameResult, NewRows
<1>2. LocksOK(calc', db.trips, contiguous) /\ LoadsOK(calc', db.trips, contiguous)
  BY DEF Results, Known, Locks
<1> QED
  BY <1>1, <1>2, OthersKeepResults

LEMMA FindsNoNewRow ==
  ASSUME NEW T, NEW T1, Finds(T, T1)
  PROVE  NewRows(T, T1)
  BY DEF Finds, NewRows

LEMMA SaveKeepsResults ==
  ASSUME Results, Known', NEW w \in Workers, SaveResult(w)
  PROVE  Results'
<1> DEFINE c == calc[w]
           i == c.trip
           C == Calculation(c)
<1>0. Locks /\ Locks' /\ DOMAIN db = Tables /\ DOMAIN db.gold = GoldTables
  BY DEF Results, Known, Locks, Table, DbOK
<1>1. /\ c.pc = "save" /\ i \in DOMAIN db.trips /\ SavedRow(db.trips, db'.trips, i, C)
      /\ DOMAIN calc'[w] = CalcFields /\ calc'[w].pc \in {"idle", "take"} /\ calc' = [calc EXCEPT ![w] = calc'[w]]
  BY <1>0, SaveShape
<1>2. db' = Save(db, i, C) /\ contiguous' = contiguous
  BY DEF SaveResult, Step, world
<1>3. Nothing(calc'[w])
  <2> DEFINE c1 == IF c.kind = "first" THEN NoCalc ELSE [NoCalc EXCEPT !.pc = "take", !.kind = "recalc"]
  <2>1. calc' = [calc EXCEPT ![w] = c1]
    BY DEF SaveResult, Step
  <2>2. Nothing(c1)
    BY DEF NoCalc, Nothing
  <2> HIDE DEF c1
  <2> QED BY <1>0, <2>1, <2>2 DEF Locks, LocksOK
<1>4. C.through = c.through
  BY DEF Calculation, Through
<1>5. /\ DOMAIN db'.gold = GoldTables /\ ShownIn(db'.gold, i) = c.rows
      /\ \A t : t # i => ShownIn(db'.gold, t) = ShownIn(db.gold, t)
  BY <1>0, ResultShown
<1> HIDE DEF C, i, c
<1>6. Held(c) /\ LoadOK(c, db.trips, contiguous)
  BY <1>1 DEF Results, LoadsOK, Held, c
<1>7. TripRow(i, db.trips[i], contiguous)
  BY <1>0, <1>1 DEF Locks, Table, DbOK, TripsOK
<1>8. /\ db'.trips[i].entry = db.trips[i].entry /\ db'.trips[i].boot = db.trips[i].boot
      /\ db'.trips[i].gen = db.trips[i].gen /\ db'.trips[i].through = c.through
      /\ DOMAIN db'.trips = DOMAIN db.trips /\ \A t \in DOMAIN db.trips : t # i => db'.trips[t] = db.trips[t]
  <2>1. \A x \in {"entry", "boot", "gen"} : db'.trips[i][x] = db.trips[i][x]
    BY <1>1, <1>7 DEF SavedRow, TripRow, Columns
  <2>2. /\ db'.trips[i].entry = db.trips[i].entry /\ db'.trips[i].boot = db.trips[i].boot
        /\ db'.trips[i].gen = db.trips[i].gen
    BY <2>1
  <2> QED BY <1>1, <1>4, <2>2 DEF SavedRow
<1>9. GensOK(db'.trips)
  BY <1>1, <1>8 DEF Results, GensOK
<1>10. OfBoot0(db.trips[i]) => Whole(c, db.trips[i].boot, contiguous)
  BY <1>1, <1>6 DEF LoadOK, Loaded, i
<1>11. ResultsOK(db'.trips, db'.gold)
  BY <1>5, <1>8, <1>10 DEF Results, ResultsOK, OfBoot0, Whole
<1>12. LoadsOK(calc', db'.trips, contiguous)
  <2>1. ASSUME NEW v \in Workers, v # w PROVE LoadOK(calc'[v], db'.trips, contiguous)
    <3>1. calc'[v] = calc[v] /\ LoadOK(calc[v], db.trips, contiguous)
      BY <1>0, <1>1, <2>1 DEF Results, LoadsOK, Locks, LocksOK
    <3>2. Held(calc[v]) => calc[v].trip \in DOMAIN db.trips /\ calc[v].trip # i
      BY <1>0, <1>6, <2>1 DEF Locks, LocksOK, CalcOK, c, i
    <3> QED BY <1>8, <3>1, <3>2 DEF LoadOK
  <2>2. LoadOK(calc'[w], db'.trips, contiguous)
    BY <1>1, <1>3, EmptyLoad
  <2> QED BY <2>1, <2>2 DEF LoadsOK
<1> QED
  BY <1>2, <1>5, <1>9, <1>11, <1>12 DEF Results

LEMMA CalculatorKeepsResults ==
  ASSUME Results, Known', NEW w \in Workers, Calculator(w)
  PROVE  Results'
<1>0. /\ Locks /\ Known /\ DOMAIN calc = Workers /\ contiguous \in Nat /\ LoadsOK(calc, db.trips, contiguous)
      /\ LoadOK(calc[w], db.trips, contiguous) /\ DOMAIN calc[w] = CalcFields /\ DOMAIN db = Tables
  BY LogTyped DEF Results, Known, Locks, Table, LocksOK, CalcOK, LoadsOK, DbOK
<1>1. contiguous' = contiguous
  BY DEF Calculator, TakeJob, DrainRecalc, Taken, ReadProgress, LoadBoots, Fetch, LoadUnconverted, ReadProof, SaveResult,
         AnalyzeFails, FailTaken, DatabaseBusy, Step, world
<1>2. ASSUME db' = db, LoadsOK(calc', db.trips, contiguous) PROVE Results'
  BY <1>0, <1>1, <1>2, SameTripsKeepResults
<1>3. ASSUME db' = db, NEW c, LoadOK(c, db.trips, contiguous), calc' = [calc EXCEPT ![w] = c] PROVE Results'
  BY <1>0, <1>2, <1>3, OneLoad
<1>4. CASE TakeJob(w)
  <2> DEFINE c == [NoCalc EXCEPT !.pc = "take", !.kind = "first", !.trip = jobs[1].id, !.byLimit = jobs[1].byLimit]
  <2>1. db' = db /\ calc' = [calc EXCEPT ![w] = c]
    BY <1>4 DEF TakeJob, Step
  <2>2. c.pc = "take" /\ Nothing(c)
    BY DEF NoCalc, Nothing
  <2> HIDE DEF c
  <2>3. LoadOK(c, db.trips, contiguous)
    BY <2>2, EmptyLoad
  <2> QED BY <2>1, <2>3, <1>3
<1>5. CASE DrainRecalc(w)
  <2> DEFINE c == [NoCalc EXCEPT !.pc = "take", !.kind = "recalc"]
  <2>1. db' = db /\ calc' = [calc EXCEPT ![w] = c]
    BY <1>5 DEF DrainRecalc, Step
  <2>2. c.pc = "take" /\ Nothing(c)
    BY DEF NoCalc, Nothing
  <2> HIDE DEF c
  <2>3. LoadOK(c, db.trips, contiguous)
    BY <2>2, EmptyLoad
  <2> QED BY <2>1, <2>3, <1>3
<1>6. LoadOK(NoCalc, db.trips, contiguous)
  <2>1. NoCalc.pc = "idle" /\ Nothing(NoCalc)
    BY DEF NoCalc, Nothing
  <2> QED BY <2>1, EmptyLoad
<1>7. CASE Taken(w)
  <2> DEFINE i == Found(calc[w], Locked)[1]
             c == [calc[w] EXCEPT !.pc = "progress", !.trip = i]
  <2>1. db' = db /\ calc[w].pc = "take" /\ (calc' = [calc EXCEPT ![w] = NoCalc] \/ calc' = [calc EXCEPT ![w] = c])
    BY <1>7 DEF Taken, Step
  <2>2. Nothing(calc[w])
    BY <1>0, <2>1 DEF LoadOK
  <2> HIDE DEF i
  <2>3. c.pc = "progress" /\ Nothing(c)
    BY <1>0, <2>2 DEF CalcFields, Nothing
  <2> HIDE DEF c
  <2>4. LoadOK(c, db.trips, contiguous)
    BY <2>3 DEF LoadOK, Loaded
  <2> QED BY <1>3, <1>6, <2>1, <2>4
<1>8. CASE ReadProgress(w)
  <2> DEFINE c == [calc[w] EXCEPT !.pc = "boots", !.through = contiguous]
  <2>1. db' = db /\ calc[w].pc = "progress" /\ calc' = [calc EXCEPT ![w] = c]
    BY <1>8 DEF ReadProgress, Step
  <2>2. Nothing(calc[w])
    BY <1>0, <2>1 DEF LoadOK
  <2>3. c.pc = "boots" /\ Nothing(c)
    BY <1>0, <2>2 DEF CalcFields, Nothing
  <2> HIDE DEF c
  <2>4. LoadOK(c, db.trips, contiguous)
    BY <2>3 DEF LoadOK, Loaded
  <2> QED BY <1>3, <2>1, <2>4
<1>9. CASE LoadBoots(w)
  <2>1. db' = db
    BY <1>9 DEF LoadBoots
  <2> QED BY <1>0, <1>2, <1>9, <2>1, LoadBootsLoads
<1>10. CASE Fetch(w)
  <2>1. db' = db
    BY <1>10 DEF Fetch
  <2> QED BY <1>0, <1>2, <1>10, <2>1, FetchLoads
<1>11. CASE LoadUnconverted(w)
  <2>1. db' = db
    BY <1>11 DEF LoadUnconverted
  <2> QED BY <1>0, <1>2, <1>11, <2>1, LoadUnconvertedLoads
<1>16. CASE ReadProof(w)
  <2>1. db' = db
    BY <1>16 DEF ReadProof
  <2> QED BY <1>0, <1>2, <1>16, <2>1, ReadProofLoads
<1>12. CASE SaveResult(w)
  BY <1>12, SaveKeepsResults
<1>13. CASE AnalyzeFails(w)
  <2> DEFINE c == [NoCalc EXCEPT !.pc = "fail", !.kind = calc[w].kind, !.trip = calc[w].trip]
  <2>1. db' = db /\ calc' = [calc EXCEPT ![w] = c]
    BY <1>13 DEF AnalyzeFails, Step
  <2>2. c.pc = "fail" /\ Nothing(c)
    BY DEF NoCalc, Nothing
  <2> HIDE DEF c
  <2>3. LoadOK(c, db.trips, contiguous)
    BY <2>2, EmptyLoad
  <2> QED BY <2>1, <2>3, <1>3
<1>14. CASE FailTaken(w)
  <2>1. calc' = [calc EXCEPT ![w] = NoCalc]
    BY <1>14 DEF FailTaken
  <2>2. LocksOK(calc', db.trips, contiguous)
    BY <1>0, <2>1, NoCalcShape, EndedKeepsLocks
  <2>3. OnlyTrips(db, db') /\ Finds(db.trips, db'.trips)
    BY <1>0, <1>14, FailTakenKeeps, FailTakenFinds DEF Locks, Table
  <2>4. LoadsOK(calc', db.trips, contiguous)
    BY <1>0, <1>6, <2>1, OneLoad
  <2>5. Keeps(db.trips, db'.trips) /\ db'.gold = db.gold /\ NewRows(db.trips, db'.trips)
    BY <2>3, FindsNoNewRow DEF OnlyTrips, Tables
  <2> QED BY <1>0, <1>1, <2>2, <2>4, <2>5, OthersKeepResults
<1>15. CASE DatabaseBusy(w)
  <2>1. db' = db /\ calc' = [calc EXCEPT ![w] = NoCalc]
    BY <1>15 DEF DatabaseBusy
  <2> QED BY <1>3, <1>6, <2>1
<1> QED
  BY <1>4, <1>5, <1>7, <1>8, <1>9, <1>10, <1>11, <1>12, <1>13, <1>14, <1>15, <1>16 DEF Calculator

LEMMA ResultsStep ==
  ASSUME Results, [Next]_vars
  PROVE  Results'
<1>0. Known' /\ Known /\ Locks /\ DOMAIN db = Tables /\ contiguous \in Nat
  BY KnownStep, LogTyped DEF Results, Known, Locks, Table, DbOK
<1>1. ASSUME db' = db, contiguous' = contiguous, calc' = calc PROVE Results'
  BY <1>0, <1>1, SameTripsKeepResults
<1>2. CASE Evaluator \/ Provisional
  <2>1. OnlyTrips(db, db') /\ calc' = calc /\ contiguous' = contiguous
    BY <1>0, <1>2, TickersKeep
  <2>2. NewRows(db.trips, db'.trips)
    <3>1. CASE EvalOne \/ CheckOne \/ Mark
      BY <1>0, <3>1, StepStays, StaysFinds, FindsNoNewRow
    <3>2. CASE Clear
      BY <1>0, <3>2, ClearRow DEF NewRows
    <3>3. CASE EvalStart \/ EvalError \/ Dispatch \/ EvalEnd \/ ProvisionalStart \/ ProvisionalError
      <4>1. db' = db
        BY <3>3 DEF EvalStart, EvalError, Dispatch, EvalEnd, ProvisionalStart, ProvisionalError
      <4> QED BY <4>1 DEF NewRows
    <3> QED BY <1>2, <3>1, <3>2, <3>3 DEF Evaluator, Provisional
  <2>3. LocksOK(calc', db.trips, contiguous) /\ LoadsOK(calc', db.trips, contiguous)
    BY <2>1 DEF Results, Known, Locks
  <2>4. Keeps(db.trips, db'.trips) /\ db'.gold = db.gold
    BY <2>1 DEF OnlyTrips, Tables
  <2> QED BY <1>0, <2>1, <2>2, <2>3, <2>4, OthersKeepResults
<1>3. CASE Ingest \/ \E b \in DOMAIN Offset : ConvertBoot(b)
  <2>1. db'.gold = db.gold
    BY <1>0, <1>3, ServerTables
  <2>2. db'.trips = db.trips /\ contiguous <= contiguous' /\ calc' = calc
    <3>1. CASE Ingest
      BY <1>0, <3>1 DEF Ingest, Tables, volatile
    <3>2. CASE \E b \in DOMAIN Offset : ConvertBoot(b)
      <4>1. db'.trips = db.trips /\ contiguous' = contiguous /\ calc' = calc
        BY <1>0, <3>2 DEF ConvertBoot, Tables, world, volatile
      <4> QED BY <1>0, <4>1
    <3> QED BY <1>3, <3>1, <3>2
  <2> QED BY <1>0, <2>1, <2>2, SameTripsKeepResults
<1>4. CASE ReprocessCommit
  <2> DEFINE S == rep.trips \cap Crossing(db.trips, 1, rep.from, rep.to)
  <2>1. db'.trips = Marked(db.trips, S) /\ calc' = calc /\ contiguous' = contiguous /\ db'.gold = db.gold
    BY <1>0, <1>4, ReprocessTrips, ServerTables DEF ReprocessCommit, volatile
  <2> HIDE DEF S
  <2>2. Keeps(db.trips, db'.trips) /\ NewRows(db.trips, db'.trips)
    BY <1>0, <1>4, <2>1, MarkedKeeps, StepStays, StaysFinds, FindsNoNewRow DEF Locks, Table, DbOK
  <2>3. LocksOK(calc', db.trips, contiguous) /\ LoadsOK(calc', db.trips, contiguous)
    BY <2>1 DEF Results, Known, Locks
  <2> QED BY <1>0, <2>1, <2>2, <2>3, OthersKeepResults
<1>5. CASE Silence \/ (\E t \in Trips : FinalLimit(t)) \/ (\E from, to \in 1..Len(Log) : ReprocessStart(from, to))
           \/ UNCHANGED vars
  <2>1. db' = db /\ calc' = calc /\ contiguous' = contiguous
    BY <1>5 DEF Silence, FinalLimit, ReprocessStart, volatile, vars, world
  <2> QED BY <1>1, <2>1
<1>6. CASE \E t \in Trips : \E head \in 0..Len(Log) : CreateTrip(t, head)
  <2>1. PICK t \in Trips : \E head \in 0..Len(Log) : CreateTrip(t, head)
    BY <1>6
  <2>2. PICK head \in 0..Len(Log) : CreateTrip(t, head)
    BY <2>1
  <2>3. OnlyTrips(db, db')
    BY <1>0, <2>2, CreateTripKeeps DEF Locks, Table
  <2>4. calc' = calc /\ contiguous' = contiguous
    BY <2>2 DEF CreateTrip, volatile, world
  <2>5. NewRows(db.trips, db'.trips)
    BY <1>0, <2>2, CreatedRow DEF NewRows
  <2>6. LocksOK(calc', db.trips, contiguous) /\ LoadsOK(calc', db.trips, contiguous)
    BY <2>4 DEF Results, Known, Locks
  <2>7. Keeps(db.trips, db'.trips) /\ db'.gold = db.gold
    BY <2>3 DEF OnlyTrips, Tables
  <2> QED BY <1>0, <2>4, <2>5, <2>6, <2>7, OthersKeepResults
<1>7. CASE Crash
  <2> DEFINE c == [NoCalc EXCEPT !.pc = "take", !.kind = "recalc"]
  <2>1. db' = db /\ contiguous' = contiguous /\ calc' = [w \in Workers |-> c]
    BY <1>7 DEF Crash
  <2>2. c.pc = "take" /\ Nothing(c)
    BY DEF NoCalc, Nothing
  <2> HIDE DEF c
  <2>3. LoadOK(c, db.trips, contiguous)
    BY <2>2, EmptyLoad
  <2>4. LoadsOK(calc', db.trips, contiguous)
    BY <2>1, <2>3 DEF LoadsOK
  <2> QED BY <1>0, <2>1, <2>4, SameTripsKeepResults
<1>8. CASE \E w \in Workers : Calculator(w)
  BY <1>0, <1>8, CalculatorKeepsResults
<1> QED
  BY <1>2, <1>3, <1>4, <1>5, <1>6, <1>7, <1>8 DEF Next, Server, Reprocess

LEMMA ResultsInit ==
  ASSUME Init, Old = {}
  PROVE  Results
<1>1. DOMAIN db.trips = {} /\ db.gold = EmptyGold /\ calc = [w \in Workers |-> NoCalc]
  BY DEF Init
<1>2. DOMAIN db.gold = GoldTables
  BY <1>1 DEF EmptyGold, GoldTables
<1>3. LoadsOK(calc, db.trips, contiguous)
  BY <1>1 DEF LoadsOK, LoadOK, NoCalc, Held
<1> QED
  BY <1>1, <1>2, <1>3, KnownInit DEF Results, GensOK, ResultsOK

LEMMA AlwaysResults ==
  ASSUME Old = {}
  PROVE  Spec => []Results
<1>1. Init => Results
  BY ResultsInit
<1>2. Results /\ [Next]_vars => Results'
  BY ResultsStep
<1> QED
  BY <1>1, <1>2, PTL DEF Spec

(* The result of a boot has every block up to its calculated_through_seq,    *)
(* however ingestion, reprocess, crashes and other calculations interleave:  *)
(* contiguous_seq is read before the data.  A trip created with no           *)
(* generation, which the server does no more, is left out.                   *)
THEOREM TripWorkerResultReachesThrough ==
  ASSUME Old = {}
  PROVE  Spec => []ResultReachesThrough
<1>1. ASSUME Results PROVE ResultReachesThrough
  <2> SUFFICES ASSUME NEW t \in Trips, Ready(t), db.trips[t].entry = "boot", NEW n \in 1..db.trips[t].through, Wanted(t, n)
               PROVE  Has(t, n)
    BY DEF ResultReachesThrough
  <2>1. t \in DOMAIN db.trips /\ db.trips[t].status = "ready" /\ OfBoot0(db.trips[t])
        /\ Log[n].pid \in Analysed /\ Log[n].boot = db.trips[t].boot
    BY DEF Ready, Wanted, OfBoot0
  <2>2. Covers(ShownIn(db.gold, t), db.trips[t].boot, db.trips[t].through)
    BY <1>1, <2>1 DEF Results, ResultsOK
  <2> QED BY <2>1, <2>2 DEF Covers, Has, Shown, ShownIn
<1> QED
  BY <1>1, AlwaysResults, PTL

-------------------------------------------------------------------------------
(* A trip that is no longer provisional                                      *)

FinalOK(T) ==
  \A t \in DOMAIN T : T[t].status = "ready" /\ OfBoot0(T[t]) /\ ~T[t].provisional => Recorded(T[t].boot, T[t].through)

(* A trip that the ticker has listed: its row may be older than the table's. *)
ListedOK(p, T) ==
  /\ p.id \in DOMAIN T /\ T[p.id].status = "ready"
  /\ p.row.entry = T[p.id].entry /\ p.row.boot = T[p.id].boot
  /\ p.row.entry = "boot" => p.row.gen = T[p.id].gen
  /\ p.row.through \in Nat /\ p.row.through <= T[p.id].through

ClearOK(t, T) == t \in DOMAIN T /\ T[t].status = "ready" /\ (OfBoot0(T[t]) => Recorded(T[t].boot, T[t].through))

IsList(s) == s \in Seq({s[k] : k \in DOMAIN s})
ProvFields == {"pc", "mark", "clear", "list"}
ProvOK(p, T) ==
  \/ p = Idle
  \/ /\ DOMAIN p = ProvFields /\ p.pc = "check" /\ IsList(p.list)
     /\ \A k \in DOMAIN p.list : ListedOK(p.list[k], T)
     /\ \A t \in p.clear : ClearOK(t, T)

SameOrigin(T, T1) ==
  \A t \in DOMAIN T : /\ T1[t].entry = T[t].entry /\ T1[t].boot = T[t].boot
                      /\ T[t].entry = "boot" => T1[t].gen = T[t].gen

LEMMA FinalKept ==
  ASSUME NEW T, NEW T1, NEW top, NEW top1, TripsOK(T, top), TripsOK(T1, top1), GensOK(T), Keeps(T, T1), NewRows(T, T1),
         \A t \in DOMAIN T : T1[t].provisional = T[t].provisional, FinalOK(T)
  PROVE  FinalOK(T1)
<1>1. \A t \in DOMAIN T : /\ T1[t].boot = T[t].boot /\ (OfBoot0(T1[t]) <=> OfBoot0(T[t]))
                          /\ T1[t].status = "ready" => T[t].status = "ready"
                          /\ T1[t].through = T[t].through
  BY GensKept DEF Keeps, SameResult
<1> QED
  BY <1>1 DEF FinalOK, NewRows

LEMMA OriginKept ==
  ASSUME NEW T, NEW T1, NEW top, NEW top1, TripsOK(T, top), TripsOK(T1, top1), GensOK(T), Keeps(T, T1)
  PROVE  SameOrigin(T, T1)
  BY DEF SameOrigin, TripsOK, TripRow, Keeps, SameResult, GensOK

LEMMA ProvKept ==
  ASSUME NEW T, NEW T1, NEW top \in Nat, NEW top1 \in Nat, TripsOK(T, top), TripsOK(T1, top1), Advances(T, T1),
         SameOrigin(T, T1), NEW p, ProvOK(p, T)
  PROVE  ProvOK(p, T1)
<1>1. ASSUME NEW t \in DOMAIN T, T[t].status = "ready"
      PROVE  /\ t \in DOMAIN T1 /\ T1[t].status = "ready" /\ T[t].through \in Nat /\ T1[t].through \in Nat
             /\ T[t].through <= T1[t].through /\ (OfBoot0(T1[t]) <=> OfBoot0(T[t]))
  BY <1>1 DEF TripsOK, TripRow, Advances, SameOrigin, OfBoot0
<1>2. ASSUME NEW t, ClearOK(t, T) PROVE ClearOK(t, T1)
  <2>1. DOMAIN Log \in SUBSET Nat
    BY LogTyped
  <2> QED BY <1>1, <1>2, <2>1 DEF ClearOK, SameOrigin, Recorded
<1>3. ASSUME NEW q, ListedOK(q, T) PROVE ListedOK(q, T1)
  BY <1>1, <1>3 DEF ListedOK, SameOrigin
<1> QED
  BY <1>2, <1>3 DEF ProvOK

-------------------------------------------------------------------------------
(* The ticker of provisional trips, step by step                             *)

Finals == Results /\ FinalOK(db.trips) /\ ProvOK(prov, db.trips)

LEMMA StartLists ==
  ASSUME Results, ProvisionalStart
  PROVE  ProvOK(prov', db.trips)
<1> DEFINE S == {i \in DOMAIN db.trips : db.trips[i].status = "ready" /\ db.trips[i].provisional /\ ~db.trips[i].recalc}
           ids == ListProvisionalTrips(db.trips)
           found == ListProvisional(db)
           list == [n \in DOMAIN found |-> [id |-> found[n].id, noTime |-> found[n].noTime, row |-> db.trips[found[n].id]]]
<1>0. TripsOK(db.trips, contiguous) /\ contiguous \in Nat
  BY LogTyped DEF Results, Known, Locks, Table, DbOK
<1>1. S \in SUBSET (DOMAIN db.trips) /\ \A i \in S : db.trips[i].status = "ready" /\ db.trips[i].created \in Nat
  BY <1>0 DEF TripsOK, TripRow
<1>2. IsFiniteSet(S) /\ S \in SUBSET Nat
  BY <1>0, <1>1, FS_Subset, TripWorkerAssumption DEF TripsOK
<1>3. ids = OldestFirst(db.trips, S)
  BY DEF ListProvisionalTrips
<1> HIDE DEF S, ids
<1>4. Lists(ids, S)
  BY <1>1, <1>2, <1>3, OldestFirstLists
<1>5. ids \in Seq(S) /\ Len(ids) \in Nat /\ DOMAIN ids = 1..Len(ids) /\ \A n \in DOMAIN ids : ids[n] \in S
  <2>1. ids \in Seq(S)
    BY <1>4 DEF Lists
  <2> QED BY <2>1, LenProperties, ElementOfSeq
<1>6. DOMAIN found = DOMAIN ids /\ \A n \in DOMAIN ids : found[n].id = ids[n]
  BY DEF ListProvisional, ids
<1> HIDE DEF found
<1>7. /\ DOMAIN list = 1..Len(ids) /\ list = [n \in 1..Len(ids) |-> list[n]]
      /\ \A n \in DOMAIN list : list[n].id = ids[n] /\ list[n].row = db.trips[ids[n]]
  BY <1>5, <1>6
<1>8. prov' = [pc |-> "check", mark |-> {}, clear |-> {}, list |-> list]
  BY DEF ProvisionalStart, found
<1> HIDE DEF list
<1>9. ASSUME NEW n \in DOMAIN list PROVE ListedOK(list[n], db.trips)
  <2>1. ids[n] \in DOMAIN db.trips /\ db.trips[ids[n]].status = "ready"
    BY <1>1, <1>5, <1>7
  <2>2. db.trips[ids[n]].through \in Nat
    BY <1>0, <2>1 DEF TripsOK, TripRow
  <2> QED BY <1>7, <2>1, <2>2 DEF ListedOK
<1>10. IsList(list)
  <2> DEFINE E == {list[k] : k \in DOMAIN list}
  <2>1. \A k \in 1..Len(ids) : list[k] \in E
    BY <1>7
  <2> HIDE DEF E
  <2>2. list \in Seq(E)
    BY <1>5, <1>7, <2>1, IsASeq
  <2> QED BY <2>2 DEF IsList, E
<1>11. DOMAIN prov' = ProvFields /\ prov'.pc = "check" /\ prov'.list = list /\ prov'.clear = {}
  BY <1>8 DEF ProvFields
<1> QED
  BY <1>9, <1>10, <1>11 DEF ProvOK

LEMMA TailIsList ==
  ASSUME NEW s, IsList(s), s # <<>>
  PROVE  /\ 1 \in DOMAIN s /\ IsList(Tail(s))
         /\ \A k \in DOMAIN Tail(s) : k + 1 \in DOMAIN s /\ Tail(s)[k] = s[k + 1]
<1> DEFINE E == {s[k] : k \in DOMAIN s}
           t == Tail(s)
           F == {t[k] : k \in DOMAIN t}
<1>1. s \in Seq(E)
  BY DEF IsList
<1>2. 1 \in DOMAIN s /\ t \in Seq(E) /\ \A k \in DOMAIN t : k + 1 \in DOMAIN s /\ t[k] = s[k + 1]
  <2> HIDE DEF E
  <2> QED BY <1>1
<1>3. t \in Seq(F)
  <2>1. Len(t) \in Nat /\ DOMAIN t = 1..Len(t) /\ t = [k \in 1..Len(t) |-> t[k]]
    <3> HIDE DEF E, t
    <3> QED BY <1>2
  <2>2. \A k \in 1..Len(t) : t[k] \in F
    <3> HIDE DEF t
    <3> QED BY <2>1
  <2> HIDE DEF t, F
  <2> QED BY <2>1, <2>2, IsASeq
<1> QED
  BY <1>2, <1>3 DEF IsList

(* One more element at the end.                                              *)
LEMMA AppendIsList ==
  ASSUME NEW s, IsList(s), NEW b
  PROVE  /\ IsList(Append(s, b)) /\ Len(s) + 1 \in DOMAIN Append(s, b) /\ Append(s, b)[Len(s) + 1] = b
         /\ \A k \in DOMAIN s : k \in DOMAIN Append(s, b) /\ Append(s, b)[k] = s[k]
         /\ \A k \in DOMAIN Append(s, b) : Append(s, b)[k] = b \/ (k \in DOMAIN s /\ Append(s, b)[k] = s[k])
<1> DEFINE E == {s[k] : k \in DOMAIN s}
           F == E \cup {b}
           t == Append(s, b)
           D == {t[k] : k \in DOMAIN t}
<1>1. s \in Seq(E)
  BY DEF IsList
<1>2. Len(s) \in Nat /\ DOMAIN s = 1..Len(s)
  <2> HIDE DEF E
  <2> QED BY <1>1, LenProperties
<1>3. s \in Seq(F) /\ b \in F
  <2>1. \A k \in 1..Len(s) : s[k] \in E
    BY <1>2
  <2>2. s = [k \in 1..Len(s) |-> s[k]]
    <3> HIDE DEF E
    <3> QED BY <1>1, LenProperties
  <2> HIDE DEF E
  <2>3. \A k \in 1..Len(s) : s[k] \in F
    BY <2>1
  <2> HIDE DEF F
  <2>4. s \in Seq(F)
    BY <1>2, <2>2, <2>3, IsASeq
  <2> QED BY <2>4 DEF F
<1>4. t \in Seq(F) /\ Len(t) = Len(s) + 1 /\ (\A k \in 1..Len(s) : t[k] = s[k]) /\ t[Len(s) + 1] = b
  <2> HIDE DEF F
  <2> QED BY <1>3, AppendProperties
<1>5. DOMAIN t = 1..(Len(s) + 1) /\ t = [k \in 1..Len(t) |-> t[k]]
  <2> HIDE DEF F, t
  <2> QED BY <1>4, LenProperties
<1>6. \A k \in 1..(Len(s) + 1) : k \in 1..Len(s) \/ k = Len(s) + 1
  BY <1>2
<1>7. IsList(t)
  <2>1. \A k \in 1..Len(t) : t[k] \in D
    BY <1>4, <1>5
  <2> HIDE DEF D, t
  <2>2. t \in Seq(D)
    BY <1>2, <1>4, <1>5, <2>1, IsASeq
  <2> QED BY <2>2 DEF IsList, D
<1> HIDE DEF t
<1>8. Len(s) + 1 \in DOMAIN t /\ \A k \in DOMAIN s : k \in DOMAIN t
  BY <1>2, <1>5
<1>9. \A k \in DOMAIN t : t[k] = b \/ (k \in DOMAIN s /\ t[k] = s[k])
  BY <1>2, <1>4, <1>5, <1>6
<1> QED
  BY <1>2, <1>4, <1>7, <1>8, <1>9 DEF t

(* What the ticker clears has its whole boot in its result.                  *)
LEMMA CompleteIsClear ==
  ASSUME Results, NEW p, ListedOK(p, db.trips), Action(p) = "complete"
  PROVE  ClearOK(p.id, db.trips)
<1> DEFINE x == p.row
           bs == TripBoots(x)
           F == FindBoot(db, 1, 0, x.boot)
<1>0. DataOK(db, contiguous) /\ contiguous \in 0..Len(Log) /\ contiguous \in Nat /\ GensOK(db.trips) /\ TripsOK(db.trips, contiguous)
  BY LogTyped DEF Results, Known, Locks, Table, DbOK
<1>1. ~NewData(x) /\ CompleteProof(p.id, bs, contiguous)
  BY DEF Action
<1>2. /\ p.id \in DOMAIN db.trips /\ db.trips[p.id].status = "ready" /\ x.entry = db.trips[p.id].entry
      /\ x.boot = db.trips[p.id].boot /\ (x.entry = "boot" => x.gen = db.trips[p.id].gen)
      /\ x.through \in Nat /\ x.through <= db.trips[p.id].through
  BY DEF ListedOK
<1>3. db.trips[p.id].through \in Nat
  BY <1>0, <1>2 DEF TripsOK, TripRow
<1> HIDE DEF x
<1>4. ASSUME OfBoot0(db.trips[p.id]) PROVE Recorded(x.boot, x.through)
  <2>1. bs = SetToSeq(F) /\ x.entry = "boot"
    BY <1>2, <1>4 DEF TripBoots, OfBoot0, Null
  <2>2. F = {b \in db.boots : b.boot = x.boot}
    BY <1>0 DEF FindBoot, FindBootForTrip, DataOK, BootsOK, BootRow
  <2> HIDE DEF bs
  <2>3. bs = <<>> \/ (bs = <<bs[1]>> /\ BootOf(bs[1], x.boot, contiguous, contiguous))
    <3>1. CASE F = {}
      <4>1. Lists(SetToSeq({}), {})
        BY SetToSeqLists, FS_EmptySet
      <4> QED BY <2>1, <3>1, <4>1, FS_EmptySet, EmptySeq DEF Lists
    <3>2. CASE F # {}
      <4>1. PICK b \in F : TRUE
        BY <3>2
      <4>2. F = {b}
        BY <1>0, <2>2, <4>1 DEF DataOK, BootsOK
      <4>3. Lists(SetToSeq({b}), {b}) /\ Cardinality({b}) = 1
        BY SetToSeqLists, FS_Singleton
      <4>4. bs \in Seq({b}) /\ Len(bs) = 1
        BY <2>1, <4>2, <4>3 DEF Lists
      <4>5. bs[1] = b
        BY <4>4, ElementOfSeq
      <4>6. bs = <<bs[1]>>
        BY <4>4, <4>5
      <4>7. BootRow(b, contiguous) /\ b.boot = x.boot
        BY <1>0, <2>2, <4>1 DEF DataOK, BootsOK
      <4> QED BY <4>5, <4>6, <4>7 DEF BootRow, BootOf
    <3> QED BY <3>1, <3>2
  <2>4. db.trips[p.id].entry = "boot"
    BY <1>4 DEF OfBoot0
  <2>5. /\ bs = <<bs[1]>> /\ BootOf(bs[1], x.boot, contiguous, contiguous)
        /\ \A n \in DOMAIN Log : Log[n].boot = x.boot => n < contiguous
    BY <1>0, <1>1, <2>3, <2>4, ProofEnds DEF bs
  <2>6. contiguous <= x.through \/ ~(bs[1].last > x.through)
    <3>1. 1 \in DOMAIN bs
      BY <2>5
    <3> QED BY <1>0, <1>1, <1>2, <3>1 DEF NewData, bs
  <2>7. ASSUME NEW n \in DOMAIN Log, Log[n].boot = x.boot PROVE n <= x.through
    <3>1. n \in 1..contiguous /\ n \in Nat
      BY <1>0, <2>5, <2>7, LogTyped
    <3>2. n <= bs[1].last /\ bs[1].last \in 1..contiguous
      BY <2>5, <2>7, <3>1 DEF BootOf, Encloses
    <3> QED BY <1>0, <1>2, <2>6, <3>1, <3>2
  <2> QED BY <2>7 DEF Recorded
<1>5. DOMAIN Log \in SUBSET Nat
  BY LogTyped
<1> QED
  BY <1>2, <1>3, <1>4, <1>5 DEF ClearOK, Recorded

LEMMA CheckOneLists ==
  ASSUME Results, ProvOK(prov, db.trips), CheckOne
  PROVE  db' = db /\ ProvOK(prov', db.trips)
<1> DEFINE p == prov.list[1]
           marks == IF Action(p) = "recalc" THEN prov.mark \cup {p.id} ELSE prov.mark
           clears == IF Action(p) = "complete" THEN {p.id} ELSE {}
           next == [prov EXCEPT !.list = Tail(@), !.mark = marks, !.clear = clears]
<1>1. /\ prov.pc = "check" /\ prov.list # <<>>
      /\ db' = IF Unresolved(p.row) THEN Resolved(db, p.id, 1, p.row.boot) ELSE db
      /\ prov' = IF Unresolved(p.row) /\ Collides(p.id) THEN Idle ELSE next
  BY DEF CheckOne
<1>2. /\ DOMAIN prov = ProvFields /\ IsList(prov.list)
      /\ \A k \in DOMAIN prov.list : ListedOK(prov.list[k], db.trips)
  BY <1>1 DEF ProvOK, Idle
<1>3. /\ 1 \in DOMAIN prov.list /\ IsList(Tail(prov.list))
      /\ \A k \in DOMAIN Tail(prov.list) : k + 1 \in DOMAIN prov.list /\ Tail(prov.list)[k] = prov.list[k + 1]
  BY <1>1, <1>2, TailIsList
<1>4. ListedOK(p, db.trips)
  BY <1>2, <1>3
<1> HIDE DEF p
<1>5. ~Unresolved(p.row)
  BY <1>4 DEF Unresolved, ListedOK, Results, GensOK
<1>6. db' = db /\ prov' = next
  BY <1>1, <1>5
<1>7. \A t \in clears : ClearOK(t, db.trips)
  BY <1>4, CompleteIsClear
<1> HIDE DEF marks, clears
<1>8. DOMAIN next = ProvFields /\ next.pc = "check" /\ next.list = Tail(prov.list) /\ next.clear = clears
  BY <1>1, <1>2 DEF ProvFields
<1> HIDE DEF next
<1>9. ProvOK(next, db.trips)
  BY <1>2, <1>3, <1>7, <1>8 DEF ProvOK
<1> QED
  BY <1>6, <1>9

LEMMA ClearIsFinal ==
  ASSUME Finals, Results', Advances(db.trips, db'.trips), Clear
  PROVE  Finals'
<1> DEFINE i == CHOOSE t \in prov.clear : TRUE
           next == [prov EXCEPT !.clear = {}]
<1>0. /\ Locks /\ GensOK(db.trips) /\ TripsOK(db.trips, contiguous) /\ TripsOK(db'.trips, contiguous)
      /\ contiguous \in Nat /\ FinalOK(db.trips) /\ ProvOK(prov, db.trips)
  BY ClearProvisionalKeeps, LogTyped DEF Finals, Results, Known, Locks, Table, DbOK
<1>1. /\ DOMAIN db'.trips = DOMAIN db.trips /\ i \in prov.clear
      /\ \A t \in DOMAIN db.trips : t # i => db'.trips[t] = db.trips[t]
  BY <1>0, ClearRow
<1>2. prov' = next /\ prov.pc = "check" /\ Keeps(db.trips, db'.trips)
  BY <1>0, ClearProvisionalKeeps DEF Clear, Locks, Table, OnlyTrips
<1>3. /\ DOMAIN prov = ProvFields /\ IsList(prov.list)
      /\ \A k \in DOMAIN prov.list : ListedOK(prov.list[k], db.trips)
      /\ \A t \in prov.clear : ClearOK(t, db.trips)
  BY <1>0, <1>2 DEF ProvOK, Idle
<1>4. ClearOK(i, db.trips)
  BY <1>1, <1>3
<1> HIDE DEF i
<1>5. SameOrigin(db.trips, db'.trips)
  BY <1>0, <1>2, OriginKept
<1>6. FinalOK(db'.trips)
  <2>1. db'.trips[i].through = db.trips[i].through
    BY <1>2, <1>4 DEF Keeps, SameResult, ClearOK
  <2> QED BY <1>0, <1>1, <1>4, <1>5, <2>1 DEF FinalOK, ClearOK, SameOrigin, OfBoot0
<1>7. ProvOK(next, db.trips)
  <2>1. DOMAIN next = ProvFields /\ next.pc = "check" /\ next.list = prov.list /\ next.clear = {}
    BY <1>2, <1>3 DEF ProvFields
  <2> QED BY <1>3, <2>1 DEF ProvOK
<1> HIDE DEF next
<1>8. ProvOK(next, db'.trips)
  BY <1>0, <1>5, <1>7, ProvKept
<1> QED
  BY <1>2, <1>6, <1>8 DEF Finals

LEMMA SaveIsFinal ==
  ASSUME Finals, Results', Advances(db.trips, db'.trips), NEW w \in Workers, SaveResult(w)
  PROVE  Finals'
<1> DEFINE c == calc[w]
           i == c.trip
           C == Calculation(c)
<1>0. /\ Locks /\ GensOK(db.trips) /\ TripsOK(db.trips, contiguous) /\ DataOK(db, contiguous)
      /\ contiguous \in Nat /\ contiguous \in 0..Len(Log) /\ FinalOK(db.trips) /\ ProvOK(prov, db.trips)
      /\ CalcOK(c, db.trips, contiguous) /\ LoadOK(c, db.trips, contiguous)
  BY LogTyped DEF Finals, Results, Known, Locks, Table, DbOK, LocksOK, LoadsOK
<1>1. /\ c.pc = "save" /\ i \in DOMAIN db.trips /\ SavedRow(db.trips, db'.trips, i, C) /\ TripsOK(db'.trips, contiguous)
  BY <1>0, SaveShape
<1>2. prov' = prov
  BY DEF SaveResult, Step
<1>3. C.through = c.through
  BY DEF Calculation, Through
<1>4. ~C.provisional => c.complete
  BY DEF Calculation
<1> HIDE DEF C
<1>5. /\ db'.trips[i].entry = db.trips[i].entry /\ db'.trips[i].boot = db.trips[i].boot /\ db'.trips[i].gen = db.trips[i].gen
  <2>1. \A x \in {"entry", "boot", "gen"} : db'.trips[i][x] = db.trips[i][x]
    BY <1>0, <1>1 DEF SavedRow, TripsOK, TripRow, Columns
  <2> QED BY <2>1
<1>6. Held(c) /\ c.through \in Nat
  BY <1>0, <1>1 DEF CalcOK, Held, Reads
<1> HIDE DEF c
<1>7. ASSUME OfBoot0(db.trips[i]), ~C.provisional PROVE Recorded(db.trips[i].boot, c.through)
  BY <1>0, <1>1, <1>4, <1>6, <1>7 DEF LoadOK, Loaded
<1> HIDE DEF i
<1>8. SameOrigin(db.trips, db'.trips)
  BY <1>1, <1>5 DEF SavedRow, SameOrigin
<1>9. FinalOK(db'.trips)
  BY <1>0, <1>1, <1>3, <1>5, <1>7 DEF FinalOK, SavedRow, OfBoot0
<1>10. ProvOK(prov, db'.trips)
  BY <1>0, <1>1, <1>8, ProvKept
<1> QED
  BY <1>2, <1>9, <1>10 DEF Finals

(* A step that neither clears nor saves.                                     *)
LEMMA OthersKeepFinals ==
  ASSUME Finals, Results', Advances(db.trips, db'.trips), Keeps(db.trips, db'.trips), NewRows(db.trips, db'.trips),
         \A t \in DOMAIN db.trips : db'.trips[t].provisional = db.trips[t].provisional,
         ProvOK(prov', db.trips)
  PROVE  Finals'
<1>1. /\ GensOK(db.trips) /\ TripsOK(db.trips, contiguous) /\ TripsOK(db'.trips, contiguous') /\ contiguous \in Nat
      /\ contiguous' \in Nat /\ FinalOK(db.trips)
  BY LogTyped DEF Finals, Results, Known, Locks, Table, DbOK
<1>2. FinalOK(db'.trips)
  BY <1>1, FinalKept
<1>3. SameOrigin(db.trips, db'.trips)
  BY <1>1, OriginKept
<1>4. ProvOK(prov', db'.trips)
  BY <1>1, <1>3, ProvKept
<1> QED
  BY <1>2, <1>4 DEF Finals

LEMMA SameTripsKeepFinals ==
  ASSUME Finals, Results', db'.trips = db.trips, ProvOK(prov', db.trips)
  PROVE  Finals'
  BY DEF Finals

LEMMA FindsKeepsFinals ==
  ASSUME Finals, Results', Advances(db.trips, db'.trips), Keeps(db.trips, db'.trips), Finds(db.trips, db'.trips),
         prov' = prov \/ prov' = Idle
  PROVE  Finals'
<1>1. NewRows(db.trips, db'.trips) /\ \A t \in DOMAIN db.trips : db'.trips[t].provisional = db.trips[t].provisional
  BY FindsNoNewRow DEF Finds, SameFind
<1>2. ProvOK(prov', db.trips)
  BY DEF Finals, ProvOK
<1> QED
  BY <1>1, <1>2, OthersKeepFinals

LEMMA FinalsStep ==
  ASSUME Finals, [Next]_vars
  PROVE  Finals'
<1>0. /\ Results' /\ Results /\ Locks /\ DOMAIN db = Tables /\ Advances(db.trips, db'.trips)
      /\ DbOK(db, contiguous) /\ ProvOK(prov, db.trips)
  BY ResultsStep, KnownStep DEF Finals, Results, Known, Locks, Table, DbOK
<1>1. ASSUME db'.trips = db.trips, prov' = prov \/ prov' = Idle PROVE Finals'
  <2>1. ProvOK(prov', db.trips)
    BY <1>0, <1>1 DEF ProvOK
  <2> QED BY <1>0, <1>1, <2>1, SameTripsKeepFinals
<1>2. CASE EvalOne \/ Mark \/ (\E w \in Workers : FailTaken(w)) \/ ReprocessCommit
  <2>1. Finds(db.trips, db'.trips)
    BY <1>0, <1>2, StepStays, StaysFinds, FailTakenFinds
  <2>2. Keeps(db.trips, db'.trips)
    <3>1. CASE EvalOne \/ Mark
      BY <1>0, <3>1, EvalOneKeeps, MarkKeeps DEF OnlyTrips
    <3>2. CASE \E w \in Workers : FailTaken(w)
      BY <1>0, <3>2, FailTakenKeeps DEF OnlyTrips
    <3>3. CASE ReprocessCommit
      <4> DEFINE S == rep.trips \cap Crossing(db.trips, 1, rep.from, rep.to)
      <4>1. db'.trips = Marked(db.trips, S)
        BY <1>0, <3>3, ReprocessTrips
      <4> HIDE DEF S
      <4> QED BY <1>0, <4>1, MarkedKeeps DEF DbOK
    <3> QED BY <1>2, <3>1, <3>2, <3>3
  <2>3. prov' = prov \/ prov' = Idle
    BY <1>2 DEF EvalOne, Mark, FailTaken, Step, ReprocessCommit, volatile
  <2> QED BY <1>0, <2>1, <2>2, <2>3, FindsKeepsFinals
<1>3. CASE CheckOne
  <2>1. db' = db /\ ProvOK(prov', db.trips)
    BY <1>0, <1>3, CheckOneLists
  <2> QED BY <1>0, <2>1, SameTripsKeepFinals
<1>4. CASE ProvisionalStart
  <2>1. db' = db /\ ProvOK(prov', db.trips)
    BY <1>0, <1>4, StartLists DEF ProvisionalStart
  <2> QED BY <1>0, <2>1, SameTripsKeepFinals
<1>5. CASE Clear
  BY <1>0, <1>5, ClearIsFinal
<1>6. CASE EvalStart \/ EvalError \/ Dispatch \/ EvalEnd \/ ProvisionalError
  <2>1. db' = db /\ (prov' = prov \/ prov' = Idle)
    BY <1>6 DEF EvalStart, EvalError, Dispatch, EvalEnd, ProvisionalError
  <2> QED BY <1>1, <2>1
<1>7. CASE Ingest \/ \E b \in DOMAIN Offset : ConvertBoot(b)
  <2>1. CASE Ingest
    <3>1. db'.trips = db.trips /\ prov' = prov
      BY <1>0, <2>1 DEF Ingest, Tables, volatile
    <3> QED BY <1>1, <3>1
  <2>2. CASE \E b \in DOMAIN Offset : ConvertBoot(b)
    <3>1. db'.trips = db.trips /\ prov' = prov
      BY <1>0, <2>2 DEF ConvertBoot, Tables, volatile
    <3> QED BY <1>1, <3>1
  <2> QED BY <1>7, <2>1, <2>2
<1>8. CASE Silence \/ (\E t \in Trips : FinalLimit(t)) \/ (\E from, to \in 1..Len(Log) : ReprocessStart(from, to))
           \/ Crash \/ UNCHANGED vars
  <2>1. db' = db /\ (prov' = prov \/ prov' = Idle)
    BY <1>8 DEF Silence, FinalLimit, ReprocessStart, Crash, volatile, vars
  <2> QED BY <1>1, <2>1
<1>9. CASE \E t \in Trips : \E head \in 0..Len(Log) : CreateTrip(t, head)
  <2>1. PICK t \in Trips : \E head \in 0..Len(Log) : CreateTrip(t, head)
    BY <1>9
  <2>2. PICK head \in 0..Len(Log) : CreateTrip(t, head)
    BY <2>1
  <2>3. Keeps(db.trips, db'.trips)
    BY <1>0, <2>2, CreateTripKeeps DEF OnlyTrips
  <2>4. prov' = prov
    BY <2>2 DEF CreateTrip, volatile
  <2>5. Known
    BY <1>0 DEF Results
  <2>6. NewRows(db.trips, db'.trips) /\ \A i \in DOMAIN db.trips : db'.trips[i] = db.trips[i]
    BY <2>2, <2>5, CreatedRow DEF NewRows
  <2> QED BY <1>0, <2>3, <2>4, <2>6, OthersKeepFinals
<1>10. CASE \E w \in Workers : SaveResult(w)
  BY <1>0, <1>10, SaveIsFinal
<1>11. CASE \E w \in Workers : Calculator(w) /\ ~SaveResult(w) /\ ~FailTaken(w)
  <2>1. db' = db /\ prov' = prov
    BY <1>11 DEF Calculator, TakeJob, DrainRecalc, Taken, ReadProgress, LoadBoots, Fetch, LoadUnconverted, ReadProof,
           AnalyzeFails, DatabaseBusy, Step
  <2> QED BY <1>1, <2>1
<1> QED
  BY <1>2, <1>3, <1>4, <1>5, <1>6, <1>7, <1>8, <1>9, <1>10, <1>11 DEF Next, Server, Reprocess, Evaluator, Provisional

LEMMA FinalsInit ==
  ASSUME Init, Old = {}
  PROVE  Finals
<1>1. DOMAIN db.trips = {} /\ prov = Idle
  BY DEF Init
<1> QED
  BY <1>1, ResultsInit DEF Finals, FinalOK, ProvOK

LEMMA AlwaysFinals ==
  ASSUME Old = {}
  PROVE  Spec => []Finals
<1>1. Init => Finals
  BY FinalsInit
<1>2. Finals /\ [Next]_vars => Finals'
  BY FinalsStep
<1> QED
  BY <1>1, <1>2, PTL DEF Spec

(* The trip of a boot that is no longer provisional, which the ticker never  *)
(* looks at again, has everything that the dongle recorded in that boot:     *)
(* provisional is taken away only once the boot that follows has begun and   *)
(* the result was calculated past the last block of the trip's own.          *)
THEOREM TripWorkerFinalTripIsComplete ==
  ASSUME Old = {}
  PROVE  Spec => []FinalTripIsComplete
<1>1. ASSUME Finals PROVE FinalTripIsComplete
  <2> SUFFICES ASSUME NEW t \in Trips, Ready(t), db.trips[t].entry = "boot", ~db.trips[t].provisional,
                      NEW n \in DOMAIN Log, Wanted(t, n)
               PROVE  Has(t, n)
    BY DEF FinalTripIsComplete
  <2>1. t \in DOMAIN db.trips /\ db.trips[t].status = "ready" /\ OfBoot0(db.trips[t])
        /\ Log[n].pid \in Analysed /\ Log[n].boot = db.trips[t].boot
    BY DEF Ready, Wanted, OfBoot0
  <2>2. Covers(ShownIn(db.gold, t), db.trips[t].boot, db.trips[t].through) /\ db.trips[t].through \in Nat
    BY <1>1, <2>1, LogTyped DEF Finals, Results, Known, Locks, Table, DbOK, TripsOK, TripRow, ResultsOK
  <2>3. n \in 1..db.trips[t].through
    BY <1>1, <2>1, <2>2, LogTyped DEF Finals, FinalOK, Recorded
  <2> QED BY <2>1, <2>2, <2>3 DEF Covers, Has, Shown, ShownIn
<1> QED
  BY <1>1, AlwaysFinals, PTL

-------------------------------------------------------------------------------
(* A trip is in one job                                                      *)

IsFirst(c) == c.kind = "first"

(* A job that was taken is in no other place, and its trip has no result;    *)
(* a recalculation holds a trip that has one.                                *)
JobOK(c, T, inf, js) ==
  /\ IsFirst(c) => c.trip \in inf /\ \A n \in DOMAIN js : js[n].id # c.trip
  /\ IsFirst(c) /\ (Held(c) \/ c.pc = "fail") => c.trip \in DOMAIN T /\ T[c.trip].status # "ready"
  /\ ~IsFirst(c) /\ Held(c) => c.trip \in DOMAIN T /\ T[c.trip].status = "ready"
JobsOf(k, T, inf, js) ==
  /\ \A w \in Workers : JobOK(k[w], T, inf, js)
  /\ \A v, w \in Workers : v # w /\ IsFirst(k[v]) /\ IsFirst(k[w]) => k[v].trip # k[w].trip
QueueOK(js, inf) ==
  IsList(js) /\ (\A n \in DOMAIN js : js[n].id \in inf) /\ \A m, n \in DOMAIN js : m # n => js[m].id # js[n].id

OneJobEach == Locks /\ QueueOK(jobs, inflight) /\ JobsOf(calc, db.trips, inflight, jobs)

LEMMA OneJob ==
  ASSUME NEW k, DOMAIN k = Workers, NEW T, NEW inf, NEW js, JobsOf(k, T, inf, js),
         NEW w \in Workers, NEW c, NEW k1, k1 = [k EXCEPT ![w] = c], NEW T1, NEW inf1, NEW js1,
         JobOK(c, T1, inf1, js1), \A v \in Workers : v # w => JobOK(k[v], T1, inf1, js1),
         \A v \in Workers : v # w /\ IsFirst(k[v]) /\ IsFirst(c) => k[v].trip # c.trip
  PROVE  JobsOf(k1, T1, inf1, js1)
<1>1. k1[w] = c /\ \A v \in Workers : v # w => k1[v] = k[v]
  OBVIOUS
<1> QED
  BY <1>1 DEF JobsOf

LEMMA KeepsJob ==
  ASSUME NEW T, NEW T1, Keeps(T, T1), NEW c, NEW inf, NEW js, JobOK(c, T, inf, js)
  PROVE  JobOK(c, T1, inf, js)
  BY DEF JobOK, Keeps, SameResult

(* A calculation goes on with its trip.                                      *)
LEMMA SameJob ==
  ASSUME OneJobEach, NEW w \in Workers, NEW c, c.kind = calc[w].kind, c.trip = calc[w].trip,
         Held(c) \/ c.pc = "fail" => Held(calc[w]), calc' = [calc EXCEPT ![w] = c]
  PROVE  JobsOf(calc', db.trips, inflight, jobs)
<1>0. DOMAIN calc = Workers /\ JobsOf(calc, db.trips, inflight, jobs)
  BY DEF OneJobEach, Locks, LocksOK
<1>1. JobOK(c, db.trips, inflight, jobs)
  BY <1>0 DEF JobsOf, JobOK, IsFirst
<1>2. \A v \in Workers : v # w => JobOK(calc[v], db.trips, inflight, jobs)
  BY <1>0 DEF JobsOf
<1>3. \A v \in Workers : v # w /\ IsFirst(calc[v]) /\ IsFirst(c) => calc[v].trip # c.trip
  BY <1>0 DEF JobsOf, IsFirst
<1>4. calc'[w] = c /\ \A v \in Workers : v # w => calc'[v] = calc[v]
  BY <1>0
<1> QED
  BY <1>0, <1>1, <1>2, <1>3, <1>4 DEF JobsOf

(* A calculation ends, and its trip leaves inflight.                         *)
LEMMA JobEnds ==
  ASSUME OneJobEach, NEW w \in Workers, Leave(w), NEW c, ~IsFirst(c), ~Held(c), calc' = [calc EXCEPT ![w] = c],
         NEW T1, \A v \in Workers : v # w => JobOK(calc[v], T1, inflight, jobs)
  PROVE  QueueOK(jobs, inflight') /\ JobsOf(calc', T1, inflight', jobs)
<1>0. DOMAIN calc = Workers /\ JobsOf(calc, db.trips, inflight, jobs) /\ QueueOK(jobs, inflight)
      /\ JobOK(calc[w], db.trips, inflight, jobs)
  BY DEF OneJobEach, Locks, LocksOK, JobsOf
<1>1. inflight' = IF IsFirst(calc[w]) THEN inflight \ {calc[w].trip} ELSE inflight
  BY DEF Leave, IsFirst
<1>2. QueueOK(jobs, inflight')
  BY <1>0, <1>1 DEF QueueOK, JobOK
<1>3. ASSUME NEW v \in Workers, v # w PROVE JobOK(calc[v], T1, inflight', jobs)
  <2>1. JobOK(calc[v], T1, inflight, jobs)
    BY <1>3
  <2>2. IsFirst(calc[w]) /\ IsFirst(calc[v]) => calc[v].trip # calc[w].trip
    BY <1>0, <1>3 DEF JobsOf
  <2> QED BY <1>1, <2>1, <2>2 DEF JobOK
<1>4. JobOK(c, T1, inflight', jobs)
  BY DEF JobOK
<1>5. JobsOf(calc', T1, inflight', jobs)
  BY <1>0, <1>3, <1>4, OneJob
<1> QED
  BY <1>2, <1>5

LEMMA NoJob ==
  /\ ~IsFirst(NoCalc) /\ ~Held(NoCalc)
  /\ LET c == [NoCalc EXCEPT !.pc = "take", !.kind = "recalc"] IN ~IsFirst(c) /\ ~Held(c) /\ c.pc = "take"
  BY DEF NoCalc, IsFirst, Held

LEMMA SaveIsOneJob ==
  ASSUME OneJobEach, NEW w \in Workers, SaveResult(w)
  PROVE  QueueOK(jobs', inflight') /\ JobsOf(calc', db'.trips, inflight', jobs')
<1> DEFINE i == calc[w].trip
           c == IF calc[w].kind = "first" THEN NoCalc ELSE [NoCalc EXCEPT !.pc = "take", !.kind = "recalc"]
<1>0. /\ Locks /\ JobsOf(calc, db.trips, inflight, jobs) /\ LocksOK(calc, db.trips, contiguous)
      /\ JobOK(calc[w], db.trips, inflight, jobs)
  BY DEF OneJobEach, Locks, JobsOf
<1>1. calc[w].pc = "save" /\ SavedRow(db.trips, db'.trips, i, Calculation(calc[w]))
  BY <1>0, SaveShape
<1>2. calc' = [calc EXCEPT ![w] = c] /\ Leave(w) /\ jobs' = jobs
  BY DEF SaveResult, Step
<1>3. ~IsFirst(c) /\ ~Held(c)
  BY NoJob
<1> HIDE DEF c, i
<1>4. ASSUME NEW v \in Workers, v # w PROVE JobOK(calc[v], db'.trips, inflight, jobs)
  <2>1. JobOK(calc[v], db.trips, inflight, jobs)
    BY <1>0 DEF JobsOf
  <2>2. Held(calc[w])
    BY <1>1 DEF Held
  <2>3. Held(calc[v]) => calc[v].trip # i
    BY <1>0, <1>4, <2>2 DEF LocksOK, i
  <2>4. IsFirst(calc[v]) /\ calc[v].pc = "fail" => calc[v].trip # i
    BY <1>0, <1>4, <2>1, <2>2 DEF JobsOf, JobOK, i
  <2> QED BY <1>1, <2>1, <2>3, <2>4 DEF JobOK, SavedRow
<1> QED
  BY <1>2, <1>3, <1>4, JobEnds

LEMMA TakeJobIsOneJob ==
  ASSUME OneJobEach, NEW w \in Workers, TakeJob(w)
  PROVE  QueueOK(jobs', inflight') /\ JobsOf(calc', db.trips, inflight', jobs')
<1> DEFINE c == [NoCalc EXCEPT !.pc = "take", !.kind = "first", !.trip = jobs[1].id, !.byLimit = jobs[1].byLimit]
<1>0. /\ DOMAIN calc = Workers /\ JobsOf(calc, db.trips, inflight, jobs) /\ QueueOK(jobs, inflight)
  BY DEF OneJobEach, Locks, LocksOK
<1>1. calc' = [calc EXCEPT ![w] = c] /\ jobs # <<>> /\ jobs' = Tail(jobs) /\ inflight' = inflight
  BY DEF TakeJob, Step
<1>2. IsFirst(c) /\ ~Held(c) /\ c.pc = "take" /\ c.trip = jobs[1].id
  BY DEF NoCalc, IsFirst, Held
<1> HIDE DEF c
<1>3. /\ 1 \in DOMAIN jobs /\ IsList(jobs')
      /\ \A k \in DOMAIN jobs' : k + 1 \in DOMAIN jobs /\ jobs'[k] = jobs[k + 1]
  BY <1>0, <1>1, TailIsList DEF QueueOK
<1>4. \A m \in DOMAIN jobs' : m \in Nat /\ m >= 1
  <2> DEFINE E == {jobs'[k] : k \in DOMAIN jobs'}
  <2>1. jobs' \in Seq(E)
    BY <1>3 DEF IsList
  <2> HIDE DEF E
  <2>2. Len(jobs') \in Nat /\ DOMAIN jobs' = 1..Len(jobs')
    BY <2>1, LenProperties
  <2> QED BY <2>2
<1>5. \A m \in DOMAIN jobs' : m + 1 # 1 /\ jobs'[m].id # c.trip /\ jobs'[m].id \in inflight
  BY <1>0, <1>2, <1>3, <1>4 DEF QueueOK
<1>7. QueueOK(jobs', inflight')
  BY <1>0, <1>1, <1>3, <1>4 DEF QueueOK
<1>8. JobOK(c, db.trips, inflight', jobs')
  BY <1>0, <1>1, <1>2, <1>3, <1>5 DEF JobOK, QueueOK
<1>9. \A v \in Workers : v # w => JobOK(calc[v], db.trips, inflight', jobs')
  BY <1>0, <1>1, <1>3 DEF JobsOf, JobOK
<1>10. \A v \in Workers : v # w /\ IsFirst(calc[v]) /\ IsFirst(c) => calc[v].trip # c.trip
  BY <1>0, <1>2, <1>3 DEF JobsOf, JobOK
<1>11. calc'[w] = c /\ \A v \in Workers : v # w => calc'[v] = calc[v]
  BY <1>0, <1>1
<1>12. JobsOf(calc', db.trips, inflight', jobs')
  BY <1>0, <1>8, <1>9, <1>10, <1>11 DEF JobsOf
<1> QED
  BY <1>7, <1>12

LEMMA TakenIsOneJob ==
  ASSUME OneJobEach, NEW w \in Workers, Taken(w)
  PROVE  QueueOK(jobs, inflight') /\ JobsOf(calc', db.trips, inflight', jobs)
<1>0. /\ DOMAIN calc = Workers /\ Locks /\ JobsOf(calc, db.trips, inflight, jobs) /\ QueueOK(jobs, inflight)
      /\ JobOK(calc[w], db.trips, inflight, jobs) /\ TripsOK(db.trips, contiguous) /\ DOMAIN calc[w] = CalcFields
  BY DEF OneJobEach, Locks, LocksOK, CalcOK, JobsOf, Table, DbOK
<1>1. CASE Found(calc[w], Locked) = <<>>
  <2>1. calc' = [calc EXCEPT ![w] = NoCalc] /\ Leave(w)
    BY <1>1 DEF Taken, Step
  <2>2. \A v \in Workers : v # w => JobOK(calc[v], db.trips, inflight, jobs)
    BY <1>0 DEF JobsOf
  <2> QED BY <2>1, <2>2, NoJob, JobEnds
<1>2. CASE Found(calc[w], Locked) # <<>>
  <2> DEFINE i == Found(calc[w], Locked)[1]
             c == [calc[w] EXCEPT !.pc = "progress", !.trip = i]
  <2>1. calc' = [calc EXCEPT ![w] = c] /\ inflight' = inflight
    BY <1>2 DEF Taken, Step
  <2>2. /\ i \in DOMAIN db.trips /\ (IsFirst(calc[w]) => i = calc[w].trip /\ db.trips[i].status # "ready")
        /\ ~IsFirst(calc[w]) => db.trips[i].status = "ready"
    BY <1>0, <1>2, FoundIsFree DEF IsFirst, Waiting
  <2> HIDE DEF i
  <2>3. c.kind = calc[w].kind /\ c.trip = i
    BY <1>0 DEF CalcFields
  <2> HIDE DEF c
  <2>4. JobOK(c, db.trips, inflight, jobs)
    BY <1>0, <2>2, <2>3 DEF JobOK, IsFirst
  <2>5. calc'[w] = c /\ \A v \in Workers : v # w => calc'[v] = calc[v]
    BY <1>0, <2>1
  <2>6. JobsOf(calc', db.trips, inflight, jobs)
    BY <1>0, <2>2, <2>3, <2>4, <2>5 DEF JobsOf, IsFirst
  <2> QED BY <1>0, <2>1, <2>6
<1> QED
  BY <1>1, <1>2

LEMMA CalculatorIsOneJob ==
  ASSUME OneJobEach, Locks', NEW w \in Workers, Calculator(w)
  PROVE  OneJobEach'
<1>0. /\ Locks /\ DOMAIN calc = Workers /\ JobsOf(calc, db.trips, inflight, jobs) /\ QueueOK(jobs, inflight)
      /\ DOMAIN calc[w] = CalcFields
  BY DEF OneJobEach, Locks, LocksOK, CalcOK
<1>1. \A v \in Workers : v # w => JobOK(calc[v], db.trips, inflight, jobs)
  BY <1>0 DEF JobsOf
<1>2. ASSUME db' = db, jobs' = jobs, inflight' = inflight, NEW c, c.kind = calc[w].kind, c.trip = calc[w].trip,
             Held(c) \/ c.pc = "fail" => Held(calc[w]), calc' = [calc EXCEPT ![w] = c]
      PROVE  OneJobEach'
  <2>1. JobsOf(calc', db.trips, inflight, jobs)
    BY <1>2, SameJob
  <2> QED BY <1>0, <1>2, <2>1 DEF OneJobEach
<1>3. CASE TakeJob(w)
  BY <1>3, TakeJobIsOneJob DEF OneJobEach, TakeJob
<1>4. CASE DrainRecalc(w)
  <2> DEFINE c == [NoCalc EXCEPT !.pc = "take", !.kind = "recalc"]
  <2>1. db' = db /\ jobs' = jobs /\ inflight' = inflight /\ calc' = [calc EXCEPT ![w] = c]
    BY <1>4 DEF DrainRecalc, Step
  <2>2. ~IsFirst(c) /\ ~Held(c)
    BY NoJob
  <2> HIDE DEF c
  <2>3. calc'[w] = c /\ \A v \in Workers : v # w => calc'[v] = calc[v]
    BY <1>0, <2>1
  <2>4. JobsOf(calc', db.trips, inflight, jobs)
    BY <1>0, <2>2, <2>3 DEF JobsOf, JobOK
  <2> QED BY <1>0, <2>1, <2>4 DEF OneJobEach
<1>5. CASE Taken(w)
  BY <1>5, TakenIsOneJob DEF OneJobEach, Taken
<1>6. CASE ReadProgress(w)
  <2> DEFINE c == [calc[w] EXCEPT !.pc = "boots", !.through = contiguous]
  <2>1. db' = db /\ jobs' = jobs /\ inflight' = inflight /\ calc[w].pc = "progress" /\ calc' = [calc EXCEPT ![w] = c]
    BY <1>6 DEF ReadProgress, Step
  <2>2. c.kind = calc[w].kind /\ c.trip = calc[w].trip /\ Held(calc[w])
    BY <1>0, <2>1 DEF CalcFields, Held
  <2> HIDE DEF c
  <2> QED BY <1>2, <2>1, <2>2
<1>7. CASE LoadBoots(w) \/ Fetch(w) \/ LoadUnconverted(w) \/ ReadProof(w)
  <2>1. db' = db /\ jobs' = jobs /\ inflight' = inflight
    BY <1>7 DEF LoadBoots, Fetch, LoadUnconverted, ReadProof
  <2>2. /\ calc[w].pc \in {"boots", "fetch", "proof"} /\ calc' = [calc EXCEPT ![w] = calc'[w]]
        /\ calc'[w].trip = calc[w].trip /\ calc'[w].kind = calc[w].kind
    BY <1>0, <1>7, LoadBootsShape, FetchShape, LoadUnconvertedShape, ReadProofShape
  <2>3. Held(calc[w])
    BY <2>2 DEF Held
  <2> QED BY <1>2, <2>1, <2>2, <2>3
<1>8. CASE SaveResult(w)
  BY <1>8, SaveIsOneJob DEF OneJobEach
<1>9. CASE AnalyzeFails(w)
  <2> DEFINE c == [NoCalc EXCEPT !.pc = "fail", !.kind = calc[w].kind, !.trip = calc[w].trip]
  <2>1. db' = db /\ jobs' = jobs /\ inflight' = inflight /\ calc[w].pc = "proof" /\ calc' = [calc EXCEPT ![w] = c]
    BY <1>9 DEF AnalyzeFails, Step
  <2>2. c.kind = calc[w].kind /\ c.trip = calc[w].trip /\ Held(calc[w])
    BY <2>1 DEF NoCalc, Held
  <2> HIDE DEF c
  <2> QED BY <1>2, <2>1, <2>2
<1>10. CASE FailTaken(w)
  <2>1. jobs' = jobs /\ Leave(w) /\ calc' = [calc EXCEPT ![w] = NoCalc]
    BY <1>10 DEF FailTaken
  <2>2. Keeps(db.trips, db'.trips)
    BY <1>0, <1>10, FailTakenKeeps DEF Locks, Table, OnlyTrips
  <2>3. \A v \in Workers : v # w => JobOK(calc[v], db'.trips, inflight, jobs)
    BY <1>1, <2>2, KeepsJob
  <2>4. QueueOK(jobs, inflight') /\ JobsOf(calc', db'.trips, inflight', jobs)
    BY <2>1, <2>3, NoJob, JobEnds
  <2> QED BY <2>1, <2>4 DEF OneJobEach
<1>11. CASE DatabaseBusy(w)
  <2>1. db' = db /\ jobs' = jobs /\ Leave(w) /\ calc' = [calc EXCEPT ![w] = NoCalc]
    BY <1>11 DEF DatabaseBusy
  <2>2. QueueOK(jobs, inflight') /\ JobsOf(calc', db.trips, inflight', jobs)
    BY <1>1, <2>1, NoJob, JobEnds
  <2> QED BY <2>1, <2>2 DEF OneJobEach
<1> QED
  BY <1>3, <1>4, <1>5, <1>6, <1>7, <1>8, <1>9, <1>10, <1>11 DEF Calculator

LEMMA EmptyQueue ==
  QueueOK(<<>>, {})
<1> DEFINE E == {<<>>[k] : k \in DOMAIN <<>>}
<1>1. <<>> \in Seq(E)
  <2> HIDE DEF E
  <2> QED BY EmptySeq
<1>2. IsList(<<>>)
  BY <1>1 DEF IsList
<1>3. DOMAIN <<>> = {}
  OBVIOUS
<1> QED
  BY <1>2, <1>3 DEF QueueOK

LEMMA DispatchIsOneJob ==
  ASSUME OneJobEach, Locks', Dispatch
  PROVE  OneJobEach'
<1> DEFINE r == Head(eval.ready)
           full == Len(jobs) >= JobsCap
<1>0. JobsOf(calc, db.trips, inflight, jobs) /\ QueueOK(jobs, inflight)
  BY DEF OneJobEach
<1>1. db' = db /\ calc' = calc
  BY DEF Dispatch
<1>2. \/ jobs' = jobs /\ inflight' = inflight
      \/ r.id \notin inflight /\ jobs' = Append(jobs, r) /\ inflight' = inflight \cup {r.id}
  BY DEF Dispatch, InflightAfter
<1> HIDE DEF r
<1>3. CASE jobs' = jobs /\ inflight' = inflight
  BY <1>0, <1>1, <1>3 DEF OneJobEach
<1>4. CASE r.id \notin inflight /\ jobs' = Append(jobs, r) /\ inflight' = inflight \cup {r.id}
  <2> DEFINE js == Append(jobs, r)
  <2>1. IsList(jobs)
    BY <1>0 DEF QueueOK
  <2>2. /\ IsList(js) /\ \A k \in DOMAIN jobs : k \in DOMAIN js /\ js[k] = jobs[k]
        /\ \A k \in DOMAIN js : (js[k] = r /\ k = Len(jobs) + 1) \/ (k \in DOMAIN jobs /\ js[k] = jobs[k])
    BY <2>1, AppendIsList
  <2> HIDE DEF js
  <2>3. QueueOK(js, inflight')
    BY <1>0, <1>4, <2>2 DEF QueueOK
  <2>4. JobsOf(calc, db.trips, inflight', js)
    BY <1>0, <1>4, <2>2 DEF JobsOf, JobOK
  <2> QED BY <1>1, <1>4, <2>3, <2>4 DEF OneJobEach, js
<1> QED
  BY <1>2, <1>3, <1>4

LEMMA OneJobStep ==
  ASSUME OneJobEach, Known, [Next]_vars
  PROVE  OneJobEach'
<1>0. Locks /\ Locks' /\ DOMAIN db = Tables /\ JobsOf(calc, db.trips, inflight, jobs) /\ QueueOK(jobs, inflight)
  BY LocksStep DEF OneJobEach, Locks, Table, DbOK
<1>1. ASSUME Keeps(db.trips, db'.trips), calc' = calc, jobs' = jobs, inflight' = inflight PROVE OneJobEach'
  <2>1. \A w \in Workers : JobOK(calc[w], db'.trips, inflight, jobs)
    BY <1>0, <1>1, KeepsJob DEF JobsOf
  <2> QED BY <1>0, <1>1, <2>1 DEF OneJobEach, JobsOf
<1>2. ASSUME db'.trips = db.trips PROVE Keeps(db.trips, db'.trips)
  BY <1>2 DEF Keeps, SameResult
<1>3. CASE (Evaluator \/ Provisional) /\ ~Dispatch
  <2>1. Keeps(db.trips, db'.trips) /\ calc' = calc
    BY <1>0, <1>3, TickersKeep DEF OnlyTrips
  <2>2. jobs' = jobs /\ inflight' = inflight
    BY <1>3 DEF Evaluator, EvalStart, EvalOne, EvalError, EvalEnd, Provisional, ProvisionalStart, CheckOne,
                ProvisionalError, Clear, Mark
  <2> QED BY <1>1, <2>1, <2>2
<1>4. CASE Dispatch
  BY <1>0, <1>4, DispatchIsOneJob
<1>5. CASE Ingest \/ (\E b \in DOMAIN Offset : ConvertBoot(b)) \/ ReprocessCommit
  <2>1. calc' = calc /\ jobs' = jobs /\ inflight' = inflight
    BY <1>5 DEF Ingest, ConvertBoot, ReprocessCommit, volatile
  <2>2. CASE Ingest \/ \E b \in DOMAIN Offset : ConvertBoot(b)
    <3>1. db'.trips = db.trips
      BY <1>0, <2>2 DEF Ingest, ConvertBoot, Tables
    <3> QED BY <1>1, <1>2, <2>1, <3>1
  <2>3. CASE ReprocessCommit
    <3> DEFINE S == rep.trips \cap Crossing(db.trips, 1, rep.from, rep.to)
    <3>1. db'.trips = Marked(db.trips, S)
      BY <1>0, <2>3, ReprocessTrips
    <3> HIDE DEF S
    <3>2. Keeps(db.trips, db'.trips)
      BY <1>0, <3>1, MarkedKeeps DEF Locks, Table, DbOK
    <3> QED BY <1>1, <2>1, <3>2
  <2> QED BY <1>5, <2>2, <2>3
<1>6. CASE Silence \/ (\E t \in Trips : FinalLimit(t)) \/ (\E from, to \in 1..Len(Log) : ReprocessStart(from, to))
           \/ UNCHANGED vars
  <2>1. db' = db /\ calc' = calc /\ jobs' = jobs /\ inflight' = inflight
    BY <1>6 DEF Silence, FinalLimit, ReprocessStart, volatile, vars
  <2> QED BY <1>1, <1>2, <2>1
<1>7. CASE \E t \in Trips : \E head \in 0..Len(Log) : CreateTrip(t, head)
  <2>1. PICK t \in Trips : \E head \in 0..Len(Log) : CreateTrip(t, head)
    BY <1>7
  <2>2. PICK head \in 0..Len(Log) : CreateTrip(t, head)
    BY <2>1
  <2>3. OnlyTrips(db, db')
    BY <1>0, <2>2, CreateTripKeeps DEF Locks, Table
  <2>4. calc' = calc /\ jobs' = jobs /\ inflight' = inflight
    BY <2>2 DEF CreateTrip, volatile
  <2> QED BY <1>1, <2>3, <2>4 DEF OnlyTrips
<1>8. CASE Crash
  <2> DEFINE c == [NoCalc EXCEPT !.pc = "take", !.kind = "recalc"]
  <2>1. jobs' = <<>> /\ inflight' = {} /\ calc' = [w \in Workers |-> c]
    BY <1>8 DEF Crash
  <2>2. ~IsFirst(c) /\ ~Held(c)
    BY NoJob
  <2> HIDE DEF c
  <2>3. JobsOf(calc', db'.trips, inflight', jobs')
    BY <2>1, <2>2 DEF JobsOf, JobOK
  <2> QED BY <1>0, <2>1, <2>3, EmptyQueue DEF OneJobEach
<1>9. CASE \E w \in Workers : Calculator(w)
  BY <1>0, <1>9, CalculatorIsOneJob
<1> QED
  BY <1>3, <1>4, <1>5, <1>6, <1>7, <1>8, <1>9 DEF Next, Server, Reprocess

LEMMA OneJobInit ==
  ASSUME Init
  PROVE  OneJobEach
<1>1. jobs = <<>> /\ inflight = {} /\ calc = [w \in Workers |-> NoCalc]
  BY DEF Init
<1>2. JobsOf(calc, db.trips, inflight, jobs)
  BY <1>1, NoJob DEF JobsOf, JobOK
<1> QED
  BY <1>1, <1>2, LocksInit, EmptyQueue DEF OneJobEach

(* A trip that waits in the channel or that a first calculation has taken is *)
(* in inflight and in one place only, and no calculation has saved a result  *)
(* of it while the first one goes on, whatever errors and crashes come.      *)
THEOREM TripWorkerOneJobEach == Spec => []OneJobEach
<1>1. Init => OneJobEach /\ Known
  BY OneJobInit, KnownInit
<1>2. OneJobEach /\ Known /\ [Next]_vars => OneJobEach' /\ Known'
  BY OneJobStep, KnownStep
<1> QED
  BY <1>1, <1>2, PTL DEF Spec

-------------------------------------------------------------------------------
(* A reprocess under a ready trip is seen                                    *)

SameRow(y, r) == y.boot = r.boot /\ y.t = r.t
(* The block n of the log holds the row y, and the boot b reaches it.        *)
RowAt(y, n) == Log[n].pid \in Analysed /\ y.boot = Log[n].boot /\ y.t = Log[n].t
Reaches(b, n) == b.boot = Log[n].boot /\ b.first <= n /\ n <= b.last

(* A boot that a calculation reads, as it was at LoadBoots, whatever its time. *)
SourceOK(b, top) == b.gen = 0 /\ Encloses(b, 0, top)

(* A row that was read, and one that the trip shows: it is in its range.     *)
ReadRow(y, bs, top) == \E n \in 1..top : RowAt(y, n) /\ \E k \in DOMAIN bs : Reaches(bs[k], n)
ShownRow(r, x, top) ==
  \E n \in 1..top : /\ RowAt(r, n) /\ x.first \in Nat /\ x.last \in Nat
                    /\ x.first <= n /\ n <= x.last
ShownAll(T, G, top) ==
  \A t \in DOMAIN T : T[t].status = "ready" => \A r \in ShownIn(G, t) : ShownRow(r, T[t], top)

Newer(S, o) == \A y \in S : SameRow(y, o) => y.version >= o.version

(* A calculation while it reads: nothing older than what is owed to its trip. *)
Reading(c, top, O) ==
  /\ IsList(c.left) /\ \A k \in DOMAIN c.left : SourceOK(c.left[k], top)
  /\ IsList(c.boots) /\ \A k \in DOMAIN c.boots : SourceOK(c.boots[k], top)
  /\ \A y \in c.rows : ReadRow(y, c.boots, top)
  /\ \A o \in O : o.trip = c.trip => Newer(c.rows, o)
CalcSees(c, top, O) ==
  /\ c.pc \in {"take", "progress", "boots"} => Nothing(c)
  /\ c.pc \in {"fetch", "proof", "save"} => Reading(c, top, O)
CalcsSee(k, top, O) == \A w \in Workers : CalcSees(k[w], top, O)

(* The row of o was replaced; the trip is marked, or shows nothing older.    *)
OwedOK(o, T, G, R, top) ==
  /\ o.trip \in DOMAIN T /\ T[o.trip].status = "ready" /\ o.version \in Nat
  /\ \E n \in 1..top : RowAt(o, n)
  /\ \A r \in R : r.pid \in Analysed /\ SameRow(r, o) => r.value >= o.version
  /\ T[o.trip].recalc \/ Newer(ShownIn(G, o.trip), o)
OwedAll(O, T, G, R, top) == \A o \in O : OwedOK(o, T, G, R, top)

(* The trips that the command's UPDATE found.                                *)
RepOK(x, T) ==
  \/ x = Idle
  \/ /\ x.pc = "update" /\ x.from \in Nat /\ x.to \in Nat
     /\ \A t \in x.trips : t \in DOMAIN T /\ T[t].status = "ready" /\ T[t].dongle = 1

Seen ==
  /\ Known /\ DOMAIN db.gold = GoldTables /\ RepOK(rep, db.trips)
  /\ ShownAll(db.trips, db.gold, contiguous)
  /\ CalcsSee(calc, contiguous, owed)
  /\ OwedAll(owed, db.trips, db.gold, db.readings, contiguous)

(* What stays of a trip while no calculation saves its result.               *)
SameFound(x, x1) == x1.first = x.first /\ x1.last = x.last
Unsaved(T, T1) ==
  /\ \A t \in DOMAIN T : t \in DOMAIN T1 /\ (T1[t].status = "ready") = (T[t].status = "ready")
  /\ \A t \in DOMAIN T : T[t].status = "ready" => SameFound(T[t], T1[t])
  /\ \A t \in DOMAIN T1 \ DOMAIN T : T1[t].status # "ready"
(* No mark that is owed is taken away.                                       *)
MarksKept(O, T, T1) == \A o \in O : o.trip \in DOMAIN T /\ T[o.trip].recalc => T1[o.trip].recalc

LEMMA ReadingKept ==
  ASSUME NEW top \in Nat, NEW top1 \in Nat, top <= top1, NEW c, NEW O, Reading(c, top, O)
  PROVE  Reading(c, top1, O)
<1>0. \A n \in 1..top : n \in 1..top1
  OBVIOUS
<1>1. \A b : SourceOK(b, top) => SourceOK(b, top1)
  BY <1>0 DEF SourceOK, Encloses
<1>2. \A y \in c.rows : ReadRow(y, c.boots, top1)
  BY <1>0 DEF Reading, ReadRow
<1> QED
  BY <1>1, <1>2 DEF Reading

LEMMA CalcKept ==
  ASSUME NEW top \in Nat, NEW top1 \in Nat, top <= top1, NEW O, NEW O1 \in SUBSET O, NEW k, CalcsSee(k, top, O)
  PROVE  CalcsSee(k, top1, O1)
<1> SUFFICES ASSUME NEW w \in Workers, k[w].pc \in {"fetch", "proof", "save"} PROVE Reading(k[w], top1, O1)
  BY DEF CalcsSee, CalcSees
<1>1. Reading(k[w], top, O)
  BY DEF CalcsSee, CalcSees
<1>2. Reading(k[w], top1, O)
  BY <1>1, ReadingKept
<1> QED
  BY <1>2 DEF Reading

LEMMA ShownKept ==
  ASSUME NEW T, NEW T1, Unsaved(T, T1), NEW top \in Nat, NEW top1 \in Nat, top <= top1, NEW G, ShownAll(T, G, top)
  PROVE  ShownAll(T1, G, top1)
<1> SUFFICES ASSUME NEW t \in DOMAIN T1, T1[t].status = "ready", NEW r \in ShownIn(G, t)
             PROVE  ShownRow(r, T1[t], top1)
  BY DEF ShownAll
<1>1. t \in DOMAIN T /\ SameFound(T[t], T1[t]) /\ T[t].status = "ready"
  BY DEF Unsaved
<1>2. ShownRow(r, T[t], top)
  BY <1>1 DEF ShownAll
<1>3. \A n \in 1..top : n \in 1..top1
  OBVIOUS
<1> QED
  BY <1>1, <1>2, <1>3 DEF ShownRow, SameFound

LEMMA OwedKept ==
  ASSUME NEW T, NEW T1, Unsaved(T, T1), NEW G, NEW R, NEW O, NEW O1 \in SUBSET O, MarksKept(O1, T, T1),
         NEW top \in Nat, NEW top1 \in Nat, top <= top1, OwedAll(O, T, G, R, top)
  PROVE  OwedAll(O1, T1, G, R, top1)
<1> SUFFICES ASSUME NEW o \in O1 PROVE OwedOK(o, T1, G, R, top1)
  BY DEF OwedAll
<1>1. OwedOK(o, T, G, R, top)
  BY DEF OwedAll
<1>2. o.trip \in DOMAIN T1 /\ T1[o.trip].status = "ready"
  BY <1>1 DEF OwedOK, Unsaved
<1>3. \E n \in 1..top1 : RowAt(o, n)
  <2>1. \A n \in 1..top : n \in 1..top1
    OBVIOUS
  <2> QED BY <1>1, <2>1 DEF OwedOK
<1>4. T[o.trip].recalc => T1[o.trip].recalc
  BY <1>1 DEF OwedOK, MarksKept
<1> QED
  BY <1>1, <1>2, <1>3, <1>4 DEF OwedOK

LEMMA RepKept ==
  ASSUME NEW T, NEW T1, NEW top, NEW top1, TripsOK(T, top), TripsOK(T1, top1), Unsaved(T, T1), NEW y, RepOK(y, T)
  PROVE  RepOK(y, T1)
<1>1. \A t \in DOMAIN T : t \in DOMAIN T1 /\ T1[t].dongle = T[t].dongle /\ (T1[t].status = "ready") = (T[t].status = "ready")
  BY DEF TripsOK, TripRow, Unsaved
<1> QED
  BY <1>1 DEF RepOK

LEMMA KeepsUnsaved ==
  ASSUME NEW T, NEW T1, NEW top, NEW top1, TripsOK(T, top), TripsOK(T1, top1), Keeps(T, T1),
         \A t \in DOMAIN T : T[t].status = "ready" => SameFound(T[t], T1[t]), \A t \in DOMAIN T1 \ DOMAIN T : T1[t].status # "ready"
  PROVE  Unsaved(T, T1)
<1>1. ASSUME NEW t \in DOMAIN T PROVE t \in DOMAIN T1 /\ (T1[t].status = "ready") = (T[t].status = "ready")
  BY DEF TripsOK, TripRow, Keeps, SameResult
<1> QED
  BY <1>1 DEF Unsaved

LEMMA StaysUnsaved ==
  ASSUME NEW T, NEW T1, NEW top, NEW top1, TripsOK(T, top), TripsOK(T1, top1), Keeps(T, T1), Stays(T, T1), NEW O
  PROVE  Unsaved(T, T1) /\ MarksKept(O, T, T1)
<1>1. \A t \in DOMAIN T : SameFound(T[t], T1[t]) /\ (T[t].recalc => T1[t].recalc)
  BY DEF Stays, SameMark, SameFind, SameFound
<1>2. \A t \in DOMAIN T1 \ DOMAIN T : T1[t].status # "ready"
  BY DEF Stays
<1> QED
  BY <1>1, <1>2, KeepsUnsaved DEF MarksKept

LEMMA UnsavedReflexive ==
  \A T, O : Unsaved(T, T) /\ MarksKept(O, T, T)
  BY DEF Unsaved, SameFound, MarksKept

(* A step that saves no result.                                              *)
LEMMA SeenStays ==
  ASSUME Seen, Known', Unsaved(db.trips, db'.trips), db'.gold = db.gold, contiguous <= contiguous',
         RepOK(rep', db.trips), OwedAll(owed', db'.trips, db.gold, db'.readings, contiguous'),
         CalcsSee(calc', contiguous, owed')
  PROVE  Seen'
<1>1. /\ contiguous \in Nat /\ contiguous' \in Nat /\ TripsOK(db.trips, contiguous) /\ TripsOK(db'.trips, contiguous')
      /\ ShownAll(db.trips, db.gold, contiguous)
  BY LogTyped DEF Seen, Known, Locks, Table, DbOK
<1>2. ShownAll(db'.trips, db.gold, contiguous')
  BY <1>1, ShownKept
<1>3. RepOK(rep', db'.trips)
  BY <1>1, RepKept
<1>4. CalcsSee(calc', contiguous', owed')
  BY <1>1, CalcKept
<1>5. DOMAIN db'.gold = GoldTables
  BY DEF Seen
<1> QED
  BY <1>2, <1>3, <1>4, <1>5 DEF Seen

(* Nor writes a reading.                                                     *)
LEMMA SeenSameData ==
  ASSUME Seen, Known', Unsaved(db.trips, db'.trips), MarksKept(owed', db.trips, db'.trips), db'.gold = db.gold,
         contiguous' = contiguous, db'.readings = db.readings, owed' \in SUBSET owed,
         RepOK(rep', db.trips), CalcsSee(calc', contiguous, owed)
  PROVE  Seen'
<1>1. contiguous \in Nat /\ contiguous <= contiguous /\ OwedAll(owed, db.trips, db.gold, db.readings, contiguous)
  BY LogTyped DEF Seen, Known, Locks, Table
<1>2. OwedAll(owed', db'.trips, db.gold, db.readings, contiguous)
  BY <1>1, OwedKept
<1>3. CalcsSee(calc', contiguous, owed')
  BY <1>1, CalcKept
<1> QED
  BY <1>1, <1>2, <1>3, SeenStays

(* The blocks of the log differ.                                             *)
LEMMA OneBlockPerRow ==
  ASSUME NEW m \in 1..Len(Log), NEW n \in 1..Len(Log), NEW y, NEW r, SameRow(y, r), RowAt(y, m), RowAt(r, n)
  PROVE  m = n
<1>1. m \in Nat /\ n \in Nat /\ m \in DOMAIN Log /\ n \in DOMAIN Log
  BY LogTyped
<1>2. \A i, j \in DOMAIN Log : i < j => Log[i] # Log[j]
  BY TripWorkerAssumption
<1>3. Log[m].boot = Log[n].boot /\ Log[m].t = Log[n].t /\ Log[m].pid = Log[n].pid
  BY DEF RowAt, SameRow, Analysed
<1>4. Log[m] = Log[n]
  BY <1>3, LogTyped
<1> QED
  BY <1>1, <1>2, <1>4

LEMMA IngestIsSeen ==
  ASSUME Seen, Known', Ingest
  PROVE  Seen'
<1> DEFINE n == contiguous + 1
           reading == [dongle |-> 1, gen |-> 0, boot |-> Log[n].boot, pid |-> Log[n].pid, t |-> Log[n].t, received |-> n, value |-> 0]
<1>0. /\ Known /\ DOMAIN db = Tables /\ contiguous \in Nat /\ RepOK(rep, db.trips) /\ CalcsSee(calc, contiguous, owed)
      /\ OwedAll(owed, db.trips, db.gold, db.readings, contiguous)
  BY LogTyped DEF Seen, Known, Locks, Table, DbOK
<1>1. /\ db'.trips = db.trips /\ db'.gold = db.gold /\ contiguous' = n /\ n <= Len(Log) /\ calc' = calc
      /\ rep' = rep /\ owed' = owed /\ db'.readings = db.readings \cup {reading}
  BY <1>0, LogTyped DEF Ingest, Tables, volatile
<1>2. contiguous <= n /\ n \in Nat /\ Unsaved(db.trips, db'.trips) /\ MarksKept(owed, db.trips, db'.trips)
  BY <1>0, <1>1, UnsavedReflexive
<1>3. reading.boot = Log[n].boot /\ reading.t = Log[n].t /\ reading.pid = Log[n].pid
  OBVIOUS
<1> HIDE DEF reading
<1>4. ASSUME NEW o \in owed, reading.pid \in Analysed, SameRow(reading, o) PROVE FALSE
  <2>1. PICK m \in 1..contiguous : RowAt(o, m)
    BY <1>0 DEF OwedAll, OwedOK
  <2>2. RowAt(reading, n)
    BY <1>3, <1>4 DEF RowAt
  <2>3. n \in 1..Len(Log) /\ m \in 1..Len(Log) /\ m # n
    BY <1>0, <1>1, <2>1, LogTyped
  <2> HIDE DEF n
  <2> QED BY <1>4, <2>1, <2>2, <2>3, OneBlockPerRow
<1>5. OwedAll(owed, db'.trips, db.gold, db.readings, n)
  <2> HIDE DEF n
  <2> QED BY <1>0, <1>2, OwedKept
<1>6. OwedAll(owed', db'.trips, db.gold, db'.readings, contiguous')
  <2> HIDE DEF n
  <2> QED BY <1>1, <1>4, <1>5 DEF OwedAll, OwedOK
<1> QED
  BY <1>0, <1>1, <1>2, <1>6, SeenStays

(* A boot whose time moves: no calculation's rows, nor the results, change.  *)
LEMMA ConvertIsSeen ==
  ASSUME Seen, Known', NEW k \in DOMAIN Offset, ConvertBoot(k)
  PROVE  Seen'
<1>0. DOMAIN db = Tables /\ CalcsSee(calc, contiguous, owed) /\ RepOK(rep, db.trips)
  BY DEF Seen, Known, Locks, Table, DbOK
<1>1. /\ db'.trips = db.trips /\ db'.gold = db.gold /\ contiguous' = contiguous /\ calc' = calc
      /\ rep' = rep /\ owed' = owed /\ db'.readings = db.readings
  BY <1>0 DEF ConvertBoot, Tables, volatile, world
<1>2. Unsaved(db.trips, db'.trips) /\ MarksKept(owed', db.trips, db'.trips)
  BY <1>1, UnsavedReflexive
<1> QED
  BY <1>0, <1>1, <1>2, SeenSameData

LEMMA ListsIsList ==
  ASSUME NEW S, NEW s, Lists(s, S)
  PROVE  /\ IsList(s) /\ \A k \in DOMAIN s : s[k] \in S
         /\ \A x \in S : \E k \in DOMAIN s : s[k] = x
<1> DEFINE E == {s[k] : k \in DOMAIN s}
<1>1. s \in Seq(S) /\ \A x \in S : \E k \in DOMAIN s : s[k] = x
  BY DEF Lists
<1>2. Len(s) \in Nat /\ DOMAIN s = 1..Len(s) /\ s = [k \in 1..Len(s) |-> s[k]] /\ \A k \in DOMAIN s : s[k] \in S
  BY <1>1, LenProperties, ElementOfSeq
<1>3. \A k \in 1..Len(s) : s[k] \in E
  BY <1>2
<1> HIDE DEF E
<1>4. s \in Seq(E)
  BY <1>2, <1>3, IsASeq
<1> QED
  BY <1>1, <1>2, <1>4 DEF IsList, E

LEMMA BySeqLists ==
  ASSUME NEW S, IsFiniteSet(S), \A b \in S : b.first \in Nat, \A b, c \in S : b.first = c.first => b = c
  PROVE  Lists(BySeq(S), S)
<1> DEFINE Lower(y, x) == y.first < x.first
           R == {p \in S \X S : Lower(p[1], p[2])}
           place == [x \in S |-> 1 + Cardinality({y \in S : Lower(y, x)})]
<1>1. \A x, y \in S : <<y, x>> \in R <=> Lower(y, x)
  OBVIOUS
<1>2. Orders(R, S)
  <2> HIDE DEF R
  <2> QED BY <1>1 DEF Orders
<1>3. \A x \in S : {y \in S : <<y, x>> \in R} = {y \in S : Lower(y, x)}
  <2> HIDE DEF R, Lower
  <2> QED BY <1>1
<1>4. place = Places(R, S)
  <2> HIDE DEF R, Lower
  <2> QED BY <1>3 DEF Places
<1>5. Lists(Placed(S, place), S)
  <2> HIDE DEF R, place, Lower
  <2> QED BY <1>2, <1>4, EveryPlaceIsTaken
<1>6. BySeq(S) = Placed(S, place)
  <2> DEFINE nth(n) == CHOOSE x \in S : place[x] = n
             ranked(n) == CHOOSE x \in S : 1 + Cardinality({y \in S : Lower(y, x)}) = n
  <2>1. \A x \in S : place[x] = 1 + Cardinality({y \in S : Lower(y, x)})
    OBVIOUS
  <2>2. BySeq(S) = [n \in 1..Cardinality(S) |-> ranked(n)]
    BY Zenon DEF BySeq, SortBy
  <2> HIDE DEF place, Lower
  <2>3. \A n : nth(n) = ranked(n)
    BY <2>1
  <2>4. Placed(S, place) = [n \in 1..Cardinality(S) |-> nth(n)]
    BY DEF Placed
  <2> HIDE DEF nth, ranked
  <2> QED BY <2>2, <2>3, <2>4
<1> HIDE DEF place
<1> QED
  BY <1>5, <1>6

LEMMA BootsFinite ==
  ASSUME NEW B, NEW top \in Nat, BootsOK(B, top)
  PROVE  /\ IsFiniteSet(B) /\ \A b \in B : b.first \in Nat
         /\ \A b, c \in B : b.first = c.first => b = c
<1> DEFINE f == [b \in B |-> b.first]
<1>1. \A b \in B : b.first \in 1..top /\ Log[b.first].boot = b.boot
  BY DEF BootsOK, BootRow, Encloses
<1>2. \A b, c \in B : b.first = c.first => b = c
  BY <1>1 DEF BootsOK
<1>3. f \in [B -> 1..top] /\ \A b \in B : f[b] = b.first
  BY <1>1
<1> HIDE DEF f
<1>4. f \in Injection(B, 1..top)
  BY <1>2, <1>3 DEF Injection, IsInjective
<1>5. IsFiniteSet(1..top)
  BY FS_Interval
<1>6. IsFiniteSet(B)
  BY <1>4, <1>5, FS_Injection
<1> QED
  BY <1>1, <1>2, <1>6

(* What a calculation loads is boots of the table.                           *)
LEMMA TripBootsAre ==
  ASSUME Known, NEW t \in DOMAIN db.trips, NEW bs, bs = TripBoots(db.trips[t])
  PROVE  IsList(bs) /\ \A k \in DOMAIN bs : SourceOK(bs[k], contiguous)
<1> DEFINE x == db.trips[t]
           B == db.boots
<1>0. BootsOK(B, contiguous) /\ contiguous \in Nat
  BY LogTyped DEF Known, Locks, Table, DbOK, DataOK
<1>1. IsFiniteSet(B) /\ (\A b \in B : b.first \in Nat) /\ (\A b, c \in B : b.first = c.first => b = c)
  BY <1>0, BootsFinite
<1>2. ASSUME NEW b \in B PROVE SourceOK(b, contiguous)
  BY <1>0, <1>2 DEF BootsOK, BootRow, Encloses, SourceOK
<1>3. ASSUME NEW S \in SUBSET B, Lists(bs, S) PROVE IsList(bs) /\ \A k \in DOMAIN bs : SourceOK(bs[k], contiguous)
  <2>1. IsList(bs) /\ \A k \in DOMAIN bs : bs[k] \in S
    BY <1>3, ListsIsList
  <2> QED BY <1>2, <1>3, <2>1
<1>4. CASE x.entry = "interval"
  <2> DEFINE S == {b \in B : /\ b.dongle = 1 /\ b.src # "" /\ b.first # Null
                             /\ Epoch(b, b.lastT) >= x.start - Margin /\ Epoch(b, b.firstT) < x.end + Margin}
  <2>1. bs = BySeq(S)
    BY <1>4 DEF TripBoots, IntervalBoots, ListIntervalBoots
  <2>2. S \in SUBSET B
    OBVIOUS
  <2> HIDE DEF S, x
  <2>3. IsFiniteSet(S) /\ (\A b \in S : b.first \in Nat) /\ (\A b, c \in S : b.first = c.first => b = c)
    BY <1>1, <2>2, FS_Subset
  <2>4. Lists(bs, S)
    BY <2>1, <2>3, BySeqLists
  <2> QED BY <1>3, <2>2, <2>4
<1>5. CASE x.entry # "interval" /\ x.gen = Null
  <2>1. Lists(<<>>, {})
    <3>1. <<>> \in Seq({}) /\ Len(<<>>) = 0
      BY EmptySeq
    <3> QED BY <3>1, FS_EmptySet DEF Lists
  <2>2. bs = <<>>
    BY <1>5 DEF TripBoots
  <2>3. {} \in SUBSET B
    OBVIOUS
  <2> QED BY <1>3, <2>1, <2>2, <2>3
<1>6. CASE x.entry # "interval" /\ x.gen # Null
  <2> DEFINE S == FindBoot(db, 1, x.gen, x.boot)
  <2>1. bs = SetToSeq(S)
    BY <1>6 DEF TripBoots
  <2>2. S \in SUBSET B
    BY DEF FindBoot, FindBootForTrip
  <2> HIDE DEF S
  <2>3. IsFiniteSet(S)
    BY <1>1, <2>2, FS_Subset
  <2>4. Lists(bs, S)
    BY <2>1, <2>3, SetToSeqLists
  <2> QED BY <1>3, <2>2, <2>4
<1> QED
  BY <1>4, <1>5, <1>6

-------------------------------------------------------------------------------
(* What a calculation loads is seen, step by step                            *)

LEMMA OneSees ==
  ASSUME NEW k, DOMAIN k = Workers, NEW top, NEW O, CalcsSee(k, top, O),
         NEW w \in Workers, NEW c, CalcSees(c, top, O), NEW k1, k1 = [k EXCEPT ![w] = c]
  PROVE  CalcsSee(k1, top, O)
<1>1. k1[w] = c /\ \A v \in Workers : v # w => k1[v] = k[v]
  OBVIOUS
<1> QED
  BY <1>1 DEF CalcsSee

LEMMA EmptySees ==
  ASSUME NEW c, c.pc \in {"idle", "take", "progress", "boots"}, Nothing(c), NEW top, NEW O
  PROVE  CalcSees(c, top, O)
  BY DEF CalcSees

LEMMA LoadBootsSees ==
  ASSUME Seen, NEW w \in Workers, LoadBoots(w)
  PROVE  CalcsSee(calc', contiguous, owed)
<1> DEFINE c == calc[w]
           c1 == calc'[w]
<1>0. /\ Known /\ Locks /\ CalcsSee(calc, contiguous, owed) /\ DOMAIN calc = Workers
      /\ CalcSees(c, contiguous, owed) /\ CalcOK(c, db.trips, contiguous)
  BY DEF Seen, Known, Locks, LocksOK, CalcsSee
<1>1. /\ c.pc = "boots" /\ calc' = [calc EXCEPT ![w] = c1] /\ c1.pc = "fetch"
      /\ c1.left = TripBoots(db.trips[c.trip]) /\ c1.boots = c.boots /\ c1.rows = c.rows
  BY <1>0, LoadBootsShape
<1>2. c.trip \in DOMAIN db.trips /\ c1.rows = {} /\ c1.boots = <<>>
  BY <1>0, <1>1 DEF CalcOK, Held, CalcSees, Nothing
<1> HIDE DEF c, c1
<1>3. IsList(c1.left) /\ \A k \in DOMAIN c1.left : SourceOK(c1.left[k], contiguous)
  BY <1>0, <1>1, <1>2, TripBootsAre
<1>4. IsList(<<>>)
  <2> DEFINE E == {<<>>[k] : k \in DOMAIN <<>>}
  <2>1. <<>> \in Seq(E)
    <3> HIDE DEF E
    <3> QED BY EmptySeq
  <2> QED BY <2>1 DEF IsList
<1>5. \A k \in DOMAIN c1.boots : FALSE
  BY <1>2
<1>6. Reading(c1, contiguous, owed)
  BY <1>2, <1>3, <1>4, <1>5 DEF Reading, Newer
<1>7. CalcSees(c1, contiguous, owed)
  BY <1>1, <1>6 DEF CalcSees
<1> QED
  BY <1>0, <1>1, <1>7, OneSees

LEMMA FetchSees ==
  ASSUME Seen, NEW w \in Workers, Fetch(w)
  PROVE  CalcsSee(calc', contiguous, owed)
<1> DEFINE c == calc[w]
           c1 == calc'[w]
           x == db.trips[c.trip]
           b == c.left[1]
           rows == BootRows(x, b)
           top == contiguous
<1>0. /\ Known /\ Locks /\ CalcsSee(calc, top, owed) /\ DOMAIN calc = Workers
      /\ CalcSees(c, top, owed) /\ OwedAll(owed, db.trips, db.gold, db.readings, top)
      /\ DataOK(db, top) /\ top \in 0..Len(Log) /\ top \in Nat
  BY LogTyped DEF Seen, Known, Locks, Table, DbOK, LocksOK, CalcsSee
<1>1. /\ c.pc = "fetch" /\ c.left # <<>> /\ calc' = [calc EXCEPT ![w] = c1] /\ c1.pc = "fetch" /\ c1.trip = c.trip
      /\ c1.left = Tail(c.left) /\ c1.rows = c.rows \cup rows
      /\ c1.boots = IF rows = {} THEN c.boots ELSE Append(c.boots, b)
  BY <1>0, FetchShape
<1>2. Reading(c, top, owed)
  BY <1>0, <1>1 DEF CalcSees
<1> HIDE DEF c, c1, top
<1>3. /\ 1 \in DOMAIN c.left /\ IsList(Tail(c.left))
      /\ \A k \in DOMAIN Tail(c.left) : k + 1 \in DOMAIN c.left /\ Tail(c.left)[k] = c.left[k + 1]
  BY <1>1, <1>2, TailIsList DEF Reading
<1>4. SourceOK(b, top) /\ b.gen = 0 /\ Encloses(b, 0, top)
  BY <1>2, <1>3 DEF Reading, SourceOK
<1> HIDE DEF x, b
<1>5. \A y \in rows : \E r \in db.readings : InBoot(r, x, b) /\ y = RowOf(r)
  BY <1>0, <1>4, BootRowsAre
<1> HIDE DEF rows
<1>6. /\ IsList(c1.boots) /\ \A k \in DOMAIN c1.boots : SourceOK(c1.boots[k], top)
      /\ \A k \in DOMAIN c.boots : k \in DOMAIN c1.boots /\ c1.boots[k] = c.boots[k]
      /\ rows # {} => \E k \in DOMAIN c1.boots : c1.boots[k] = b
  <2>1. IsList(c.boots) /\ \A k \in DOMAIN c.boots : SourceOK(c.boots[k], top)
    BY <1>2 DEF Reading
  <2>2. CASE rows = {}
    BY <1>1, <2>1, <2>2
  <2>3. CASE rows # {}
    <3> DEFINE bs == Append(c.boots, b)
    <3>1. /\ IsList(bs) /\ Len(c.boots) + 1 \in DOMAIN bs /\ bs[Len(c.boots) + 1] = b
          /\ \A k \in DOMAIN c.boots : k \in DOMAIN bs /\ bs[k] = c.boots[k]
          /\ \A k \in DOMAIN bs : bs[k] = b \/ (k \in DOMAIN c.boots /\ bs[k] = c.boots[k])
      BY <2>1, AppendIsList
    <3>2. c1.boots = bs
      BY <1>1, <2>3
    <3> HIDE DEF bs
    <3>3. \A k \in DOMAIN bs : SourceOK(bs[k], top)
      BY <1>4, <2>1, <3>1
    <3> QED BY <3>1, <3>2, <3>3
  <2> QED BY <2>2, <2>3
<1>7. ASSUME NEW y \in rows PROVE ReadRow(y, c1.boots, top)
  <2>1. PICK r \in db.readings : InBoot(r, x, b) /\ y = RowOf(r)
    BY <1>5
  <2> DEFINE n == r.received
  <2>2. ReadingRow(r, top)
    BY <1>0 DEF DataOK, ReadingsOK
  <2>3. n \in 1..top /\ r.boot = Log[n].boot /\ r.t = Log[n].t /\ r.pid = Log[n].pid
    BY <2>2 DEF ReadingRow
  <2>4. r.boot = b.boot /\ r.pid \in Analysed /\ b.first <= n /\ n <= b.last
    BY <2>1 DEF InBoot
  <2>5. y.boot = r.boot /\ y.t = r.t
    BY <2>1 DEF RowOf
  <2> HIDE DEF n
  <2>6. RowAt(y, n) /\ Reaches(b, n)
    BY <2>3, <2>4, <2>5 DEF RowAt, Reaches
  <2>7. PICK k \in DOMAIN c1.boots : c1.boots[k] = b
    BY <1>6
  <2> QED BY <2>3, <2>6, <2>7 DEF ReadRow
<1>8. ASSUME NEW y \in c.rows PROVE ReadRow(y, c1.boots, top)
  <2>1. PICK n \in 1..top : RowAt(y, n) /\ \E k \in DOMAIN c.boots : Reaches(c.boots[k], n)
    BY <1>2 DEF Reading, ReadRow
  <2>2. \E k \in DOMAIN c1.boots : Reaches(c1.boots[k], n)
    BY <1>6, <2>1
  <2> QED BY <2>1, <2>2 DEF ReadRow
<1>9. ASSUME NEW o \in owed, o.trip = c1.trip PROVE Newer(c1.rows, o)
  <2>1. Newer(c.rows, o)
    BY <1>1, <1>2, <1>9 DEF Reading
  <2>2. ASSUME NEW y \in rows, SameRow(y, o) PROVE y.version >= o.version
    <3>1. PICK r \in db.readings : InBoot(r, x, b) /\ y = RowOf(r)
      BY <1>5
    <3>2. y.boot = r.boot /\ y.t = r.t /\ y.version = r.value /\ r.pid \in Analysed
      BY <3>1 DEF RowOf, InBoot
    <3>3. r.value >= o.version
      BY <1>0, <2>2, <3>2 DEF OwedAll, OwedOK, SameRow
    <3> QED BY <3>2, <3>3
  <2> QED BY <1>1, <2>1, <2>2 DEF Newer
<1>10. \A k \in DOMAIN c1.left : SourceOK(c1.left[k], top)
  BY <1>1, <1>2, <1>3 DEF Reading
<1>11. Reading(c1, top, owed)
  BY <1>1, <1>3, <1>6, <1>7, <1>8, <1>9, <1>10 DEF Reading
<1>12. CalcSees(c1, top, owed)
  BY <1>1, <1>11 DEF CalcSees
<1> QED
  BY <1>0, <1>1, <1>12, OneSees DEF top

LEMMA LoadUnconvertedSees ==
  ASSUME Seen, NEW w \in Workers, LoadUnconverted(w) \/ ReadProof(w)
  PROVE  CalcsSee(calc', contiguous, owed)
<1> DEFINE c == calc[w]
           c1 == calc'[w]
<1>0. /\ Locks /\ CalcsSee(calc, contiguous, owed) /\ DOMAIN calc = Workers /\ CalcSees(c, contiguous, owed)
  BY DEF Seen, Known, Locks, LocksOK, CalcsSee
<1>1. /\ c.pc \in {"fetch", "proof"} /\ calc' = [calc EXCEPT ![w] = c1] /\ c1.pc \in {"proof", "save"} /\ c1.trip = c.trip
      /\ c1.rows = c.rows /\ c1.boots = c.boots /\ c1.left = c.left
  BY <1>0, LoadUnconvertedShape, ReadProofShape
<1>2. Reading(c, contiguous, owed)
  BY <1>0, <1>1 DEF CalcSees
<1> HIDE DEF c, c1
<1>3. Reading(c1, contiguous, owed)
  BY <1>1, <1>2 DEF Reading
<1>4. CalcSees(c1, contiguous, owed)
  BY <1>1, <1>3 DEF CalcSees
<1> QED
  BY <1>0, <1>1, <1>4, OneSees

(* The range of a result encloses the one of every boot that gave a row.     *)
FirstSeq(bs) == Min({bs[n].first : n \in DOMAIN bs})
LastSeq(bs) == Max({bs[n].last : n \in DOMAIN bs})

LEMMA SpanOf ==
  ASSUME NEW bs, IsList(bs), NEW k \in DOMAIN bs, \A j \in DOMAIN bs : bs[j].first \in Nat /\ bs[j].last \in Nat
  PROVE  FirstSeq(bs) \in Nat /\ FirstSeq(bs) <= bs[k].first /\ LastSeq(bs) \in Nat /\ bs[k].last <= LastSeq(bs)
<1> DEFINE F == {bs[j].first : j \in DOMAIN bs}
           L == {bs[j].last : j \in DOMAIN bs}
           f == [j \in DOMAIN bs |-> bs[j].first]
           l == [j \in DOMAIN bs |-> bs[j].last]
<1>1. IsFiniteSet(DOMAIN bs)
  <2> DEFINE E == {bs[j] : j \in DOMAIN bs}
  <2>1. bs \in Seq(E)
    BY DEF IsList
  <2> HIDE DEF E
  <2>2. Len(bs) \in Nat /\ DOMAIN bs = 1..Len(bs)
    BY <2>1, LenProperties
  <2> QED BY <2>2, FS_Interval
<1>2. IsFiniteSet(F) /\ IsFiniteSet(L)
  <2>1. f \in Surjection(DOMAIN bs, F) /\ l \in Surjection(DOMAIN bs, L)
    BY DEF Surjection
  <2> HIDE DEF f, l, F, L
  <2> QED BY <1>1, <2>1, FS_Surjection
<1>3. F \in SUBSET Int /\ L \in SUBSET Int /\ bs[k].first \in F /\ bs[k].last \in L /\ F \in SUBSET Nat /\ L \in SUBSET Nat
  OBVIOUS
<1> HIDE DEF F, L
<1>4. Min(F) \in F /\ \A y \in F : Min(F) <= y
  BY <1>2, <1>3, MinOfFinite
<1>5. Max(L) \in L /\ \A y \in L : y <= Max(L)
  BY <1>2, <1>3, MaxOfFinite
<1>6. Min(F) \in Nat /\ Min(F) <= bs[k].first /\ Max(L) \in Nat /\ bs[k].last <= Max(L)
  BY <1>3, <1>4, <1>5
<1> QED
  BY <1>6 DEF F, L, FirstSeq, LastSeq

LEMMA SaveIsSeen ==
  ASSUME Seen, Known', NEW w \in Workers, SaveResult(w)
  PROVE  Seen'
<1> DEFINE c == calc[w]
           i == c.trip
           C == Calculation(c)
           x1 == db'.trips[i]
           top == contiguous
<1>0. /\ Locks /\ DOMAIN db = Tables /\ DOMAIN db.gold = GoldTables /\ TripsOK(db.trips, top) /\ LocksOK(calc, db.trips, top)
      /\ CalcsSee(calc, top, owed) /\ CalcSees(c, top, owed)
      /\ CalcOK(c, db.trips, top) /\ ShownAll(db.trips, db.gold, top) /\ RepOK(rep, db.trips)
      /\ OwedAll(owed, db.trips, db.gold, db.readings, top) /\ top \in Nat /\ DOMAIN calc = Workers
  BY LogTyped DEF Seen, Known, Locks, Table, DbOK, LocksOK, CalcsSee
<1>1. /\ c.pc = "save" /\ i \in DOMAIN db.trips /\ SavedRow(db.trips, db'.trips, i, C)
      /\ \A y \in Tables \ {"trips", "gold"} : db'[y] = db[y]
      /\ calc'[w].pc \in {"idle", "take"} /\ calc' = [calc EXCEPT ![w] = calc'[w]]
  BY <1>0, SaveShape
<1>2. db' = Save(db, i, C) /\ contiguous' = top /\ rep' = rep /\ owed' = owed /\ db'.readings = db.readings
  BY <1>1 DEF SaveResult, Step, world, Tables
<1>3. Nothing(calc'[w])
  <2> DEFINE c1 == IF c.kind = "first" THEN NoCalc ELSE [NoCalc EXCEPT !.pc = "take", !.kind = "recalc"]
  <2>1. calc' = [calc EXCEPT ![w] = c1]
    BY DEF SaveResult, Step
  <2>2. Nothing(c1)
    BY DEF NoCalc, Nothing
  <2> HIDE DEF c1
  <2> QED BY <1>0, <2>1, <2>2
<1>4. c.boots # <<>> => C.first = FirstSeq(c.boots) /\ C.last = LastSeq(c.boots)
  BY DEF Calculation, FirstSeq, LastSeq
<1> HIDE DEF C, i, top
<1>5. /\ DOMAIN db'.gold = GoldTables /\ ShownIn(db'.gold, i) = c.rows
      /\ \A t : t # i => ShownIn(db'.gold, t) = ShownIn(db.gold, t)
  BY <1>0, ResultShown DEF c, i
<1>6. Reading(c, top, owed)
  BY <1>0, <1>1 DEF CalcSees
<1> HIDE DEF c
<1>7. /\ x1.dongle = db.trips[i].dongle /\ x1.status = "ready" /\ x1.first = C.first /\ x1.last = C.last
      /\ DOMAIN db'.trips = DOMAIN db.trips /\ \A t \in DOMAIN db.trips : t # i => db'.trips[t] = db.trips[t]
  BY <1>0, <1>1 DEF SavedRow, TripsOK, TripRow, Columns
<1>8. ASSUME NEW r \in c.rows PROVE ShownRow(r, x1, top)
  <2>1. ReadRow(r, c.boots, top) /\ IsList(c.boots) /\ \A k \in DOMAIN c.boots : SourceOK(c.boots[k], top)
    BY <1>6 DEF Reading
  <2>2. PICK n \in 1..top : RowAt(r, n) /\ \E k \in DOMAIN c.boots : Reaches(c.boots[k], n)
    BY <2>1 DEF ReadRow
  <2>3. PICK k \in DOMAIN c.boots : Reaches(c.boots[k], n)
    BY <2>2
  <2>4. \A j \in DOMAIN c.boots : c.boots[j].first \in Nat /\ c.boots[j].last \in Nat
    BY <2>1 DEF SourceOK, Encloses
  <2>5. c.boots # <<>>
    OBVIOUS
  <2>6. x1.first \in Nat /\ x1.first <= c.boots[k].first /\ x1.last \in Nat /\ c.boots[k].last <= x1.last
    BY <1>4, <1>7, <2>1, <2>4, <2>5, SpanOf
  <2>7. c.boots[k].first <= n /\ n <= c.boots[k].last /\ n \in Nat
    BY <2>3 DEF Reaches
  <2> HIDE DEF x1
  <2>8. x1.first <= n /\ n <= x1.last
    BY <2>4, <2>6, <2>7
  <2> QED BY <2>2, <2>6, <2>8 DEF ShownRow
<1>9. ShownAll(db'.trips, db'.gold, top)
  BY <1>0, <1>5, <1>7, <1>8 DEF ShownAll
<1>10. RepOK(rep, db'.trips)
  BY <1>0, <1>7 DEF RepOK
<1>11. CalcsSee(calc', top, owed)
  <2>1. CalcSees(calc'[w], top, owed)
    BY <1>1, <1>3, EmptySees
  <2> QED BY <1>0, <1>1, <2>1, OneSees
<1>12. ASSUME NEW o \in owed PROVE OwedOK(o, db'.trips, db'.gold, db.readings, top)
  <2>1. OwedOK(o, db.trips, db.gold, db.readings, top)
    BY <1>0 DEF OwedAll
  <2>2. CASE o.trip # i
    BY <1>5, <1>7, <2>1, <2>2 DEF OwedOK
  <2>3. CASE o.trip = i
    <3>1. Newer(c.rows, o)
      BY <1>6, <2>3 DEF Reading, i
    <3> QED BY <1>1, <1>5, <1>7, <2>1, <2>3, <3>1 DEF OwedOK
  <2> QED BY <2>2, <2>3
<1> QED
  BY <1>0, <1>2, <1>5, <1>9, <1>10, <1>11, <1>12 DEF Seen, OwedAll, top

(* It has loaded nothing.                                                    *)
Fresh(c) == c.pc \in {"idle", "take", "progress", "boots"} /\ Nothing(c)

(* A calculation that fails, of a trip with a result or not: the result      *)
(* stays, unmarked, and nothing is owed to it.                               *)
LEMMA FailIsSeen ==
  ASSUME Seen, Known', NEW w \in Workers, FailTaken(w)
  PROVE  Seen'
<1> DEFINE i == calc[w].trip
           T == db.trips
           T1 == db'.trips
<1>0. /\ Known /\ Locks /\ DOMAIN db = Tables /\ TripsOK(T, contiguous) /\ DOMAIN calc = Workers /\ RepOK(rep, T)
      /\ CalcsSee(calc, contiguous, owed)
  BY DEF Seen, Known, Locks, Table, DbOK, LocksOK
<1>1. /\ calc[w].pc = "fail" /\ db' = Fail(db, i) /\ calc' = [calc EXCEPT ![w] = NoCalc]
      /\ contiguous' = contiguous /\ rep' = rep /\ owed' = {o \in owed : o.trip # i}
  BY DEF FailTaken
<1>2. OnlyTrips(db, db')
  BY <1>0, FailTakenKeeps DEF Locks, Table
<1>3. Keeps(T, T1) /\ db'.gold = db.gold /\ db'.readings = db.readings
  BY <1>2 DEF OnlyTrips, Tables
<1>4. TripsOK(T1, contiguous)
  BY <1>1 DEF Known, Locks, Table, DbOK
<1>5. T1 = FailTrip(T, i)
  <2> DEFINE F == FailTrip(T, i)
  <2>1. db' = [db EXCEPT !.trips = F]
    BY <1>1 DEF Fail
  <2> HIDE DEF F
  <2>2. db'.trips = F
    BY <1>0, <2>1 DEF Tables
  <2> QED BY <2>2 DEF F
<1>6. Finds(T, T1) /\ \A t \in DOMAIN T : t # i => T1[t] = T[t]
  <2>1. Finds(T, T1)
    BY <1>0, <1>5, FailFinds
  <2>2. \A t \in DOMAIN T : t # i => T1[t] = T[t]
    BY <1>5 DEF FailTrip
  <2> QED BY <2>1, <2>2
<1> HIDE DEF i, T, T1
<1>7. Unsaved(T, T1)
  <2>1. \A t \in DOMAIN T : SameFound(T[t], T1[t])
    BY <1>6 DEF Finds, SameFind, SameFound
  <2>2. \A t \in DOMAIN T1 \ DOMAIN T : T1[t].status # "ready"
    BY <1>6 DEF Finds
  <2> QED BY <1>0, <1>3, <1>4, <2>1, <2>2, KeepsUnsaved
<1>8. MarksKept(owed', T, T1)
  BY <1>1, <1>6 DEF MarksKept
<1>9. CalcsSee(calc', contiguous, owed)
  <2>1. CalcSees(NoCalc, contiguous, owed)
    <3>1. Fresh(NoCalc)
      BY DEF NoCalc, Fresh, Nothing
    <3> QED BY <3>1, EmptySees DEF Fresh
  <2> QED BY <1>0, <1>1, <2>1, OneSees
<1> QED
  BY <1>0, <1>1, <1>3, <1>7, <1>8, <1>9, SeenSameData DEF T, T1

LEMMA CalculatorIsSeen ==
  ASSUME Seen, Known', NEW w \in Workers, Calculator(w)
  PROVE  Seen'
<1>0. /\ Known /\ Locks /\ DOMAIN calc = Workers /\ CalcsSee(calc, contiguous, owed)
      /\ CalcSees(calc[w], contiguous, owed) /\ DOMAIN calc[w] = CalcFields /\ RepOK(rep, db.trips)
  BY DEF Seen, Known, Locks, LocksOK, CalcOK, CalcsSee
<1>1. contiguous' = contiguous /\ rep' = rep /\ (FailTaken(w) \/ owed' = owed)
  BY DEF Calculator, TakeJob, DrainRecalc, Taken, ReadProgress, LoadBoots, Fetch, LoadUnconverted, ReadProof, SaveResult,
         AnalyzeFails, FailTaken, DatabaseBusy, Step, world
<1>2. ASSUME db' = db, owed' = owed, CalcsSee(calc', contiguous, owed) PROVE Seen'
  <2>1. Unsaved(db.trips, db'.trips) /\ MarksKept(owed', db.trips, db'.trips)
    BY <1>2, UnsavedReflexive
  <2> QED BY <1>0, <1>1, <1>2, <2>1, SeenSameData
<1>3. ASSUME db' = db, owed' = owed, NEW c, Fresh(c), calc' = [calc EXCEPT ![w] = c]
      PROVE  Seen'
  <2>1. CalcSees(c, contiguous, owed)
    BY <1>3, EmptySees DEF Fresh
  <2>2. CalcsSee(calc', contiguous, owed)
    BY <1>0, <1>3, <2>1, OneSees
  <2> QED BY <1>2, <1>3, <2>2
<1>4. CASE TakeJob(w)
  <2> DEFINE c == [NoCalc EXCEPT !.pc = "take", !.kind = "first", !.trip = jobs[1].id, !.byLimit = jobs[1].byLimit]
  <2>1. db' = db /\ owed' = owed /\ calc' = [calc EXCEPT ![w] = c]
    BY <1>4 DEF TakeJob, Step, world
  <2>2. Fresh(c)
    BY DEF NoCalc, Fresh, Nothing
  <2> HIDE DEF c
  <2> QED BY <2>1, <2>2, <1>3
<1>5. CASE DrainRecalc(w)
  <2> DEFINE c == [NoCalc EXCEPT !.pc = "take", !.kind = "recalc"]
  <2>1. db' = db /\ owed' = owed /\ calc' = [calc EXCEPT ![w] = c]
    BY <1>5 DEF DrainRecalc, Step, world
  <2>2. Fresh(c)
    BY DEF NoCalc, Fresh, Nothing
  <2> HIDE DEF c
  <2> QED BY <2>1, <2>2, <1>3
<1>6. Fresh(NoCalc)
  BY DEF NoCalc, Fresh, Nothing
<1>7. CASE Taken(w)
  <2> DEFINE i == Found(calc[w], Locked)[1]
             c == [calc[w] EXCEPT !.pc = "progress", !.trip = i]
  <2>1. db' = db /\ owed' = owed /\ calc[w].pc = "take" /\ (calc' = [calc EXCEPT ![w] = NoCalc] \/ calc' = [calc EXCEPT ![w] = c])
    BY <1>7 DEF Taken, Step, world
  <2>2. Nothing(calc[w])
    BY <1>0, <2>1 DEF CalcSees
  <2> HIDE DEF i
  <2>3. Fresh(c)
    BY <1>0, <2>2 DEF CalcFields, Fresh, Nothing
  <2> HIDE DEF c
  <2> QED BY <1>3, <1>6, <2>1, <2>3
<1>8. CASE ReadProgress(w)
  <2> DEFINE c == [calc[w] EXCEPT !.pc = "boots", !.through = contiguous]
  <2>1. db' = db /\ owed' = owed /\ calc[w].pc = "progress" /\ calc' = [calc EXCEPT ![w] = c]
    BY <1>8 DEF ReadProgress, Step, world
  <2>2. Nothing(calc[w])
    BY <1>0, <2>1 DEF CalcSees
  <2>3. Fresh(c)
    BY <1>0, <2>2 DEF CalcFields, Fresh, Nothing
  <2> HIDE DEF c
  <2> QED BY <1>3, <2>1, <2>3
<1>9. CASE LoadBoots(w)
  BY <1>2, <1>9, LoadBootsSees DEF LoadBoots, Step, world
<1>10. CASE Fetch(w)
  <2>1. db' = db /\ owed' = owed
    BY <1>10 DEF Fetch, Step, world
  <2> QED BY <1>2, <1>10, <2>1, FetchSees
<1>11. CASE LoadUnconverted(w) \/ ReadProof(w)
  <2>1. db' = db /\ owed' = owed
    BY <1>11 DEF LoadUnconverted, ReadProof, Step, world
  <2> QED BY <1>2, <1>11, <2>1, LoadUnconvertedSees
<1>12. CASE SaveResult(w)
  BY <1>12, SaveIsSeen
<1>13. CASE AnalyzeFails(w)
  <2> DEFINE c == [NoCalc EXCEPT !.pc = "fail", !.kind = calc[w].kind, !.trip = calc[w].trip]
  <2>1. db' = db /\ owed' = owed /\ calc' = [calc EXCEPT ![w] = c]
    BY <1>13 DEF AnalyzeFails, Step, world
  <2>2. c.pc = "fail"
    BY DEF NoCalc
  <2> HIDE DEF c
  <2>3. CalcSees(c, contiguous, owed)
    BY <2>2 DEF CalcSees
  <2>4. CalcsSee(calc', contiguous, owed)
    BY <1>0, <2>1, <2>3, OneSees
  <2> QED BY <1>2, <2>1, <2>4
<1>14. CASE FailTaken(w)
  BY <1>14, FailIsSeen
<1>15. CASE DatabaseBusy(w)
  <2>1. db' = db /\ owed' = owed /\ calc' = [calc EXCEPT ![w] = NoCalc]
    BY <1>15 DEF DatabaseBusy
  <2> QED BY <1>3, <1>6, <2>1
<1> QED
  BY <1>4, <1>5, <1>7, <1>8, <1>9, <1>10, <1>11, <1>12, <1>13, <1>14, <1>15 DEF Calculator

-------------------------------------------------------------------------------
(* What a reprocess leaves to be seen                                        *)

LEMMA ReprocessStartIsSeen ==
  ASSUME Seen, Known', NEW from \in 1..Len(Log), NEW to \in 1..Len(Log), ReprocessStart(from, to)
  PROVE  Seen'
<1>1. /\ db' = db /\ calc' = calc /\ contiguous' = contiguous /\ owed' = owed
      /\ rep' = [pc |-> "update", from |-> from, to |-> to, trips |-> Crossing(db.trips, 1, from, to)]
  BY DEF ReprocessStart, volatile
<1>2. \A t \in Crossing(db.trips, 1, from, to) : t \in DOMAIN db.trips /\ db.trips[t].status = "ready" /\ db.trips[t].dongle = 1
  BY DEF Crossing
<1>3. from \in Nat /\ to \in Nat
  BY LogTyped
<1>4. RepOK(rep', db.trips)
  BY <1>1, <1>2, <1>3 DEF RepOK
<1>5. CalcsSee(calc', contiguous, owed)
  BY <1>1 DEF Seen
<1>6. Unsaved(db.trips, db'.trips) /\ MarksKept(owed', db.trips, db'.trips)
  BY <1>1, UnsavedReflexive
<1> QED
  BY <1>1, <1>4, <1>5, <1>6, SeenSameData

(* The reading of a block that the command replaces, one version later.      *)
Replaced(r) == [r EXCEPT !.value = @ + 1]

LEMMA ReprocessReadings ==
  ASSUME DOMAIN db = Tables, ReprocessCommit
  PROVE  /\ \A s \in db'.readings : \E r \in db.readings : s = r \/ s = Replaced(r)
         /\ \A o \in owed' \ owed :
              /\ o.trip \in rep.trips /\ \E r \in ShownIn(db.gold, o.trip) : SameRow(r, o)
              /\ \E r \in db.readings : /\ r.received \in rep.from..rep.to /\ Replaced(r) \in db'.readings
                                        /\ Replaced(r).pid \in Analysed /\ SameRow(Replaced(r), o)
                                        /\ Replaced(r).value = o.version
<1> DEFINE hit(r) == r.received \in rep.from..rep.to
           new == {Replaced(r) : r \in {x \in db.readings : hit(x)}}
           fresh == {o \in [trip : rep.trips, boot : Boots, t : 0..LastT, version : 1..MaxReprocess] :
                       /\ \E r \in new : r.pid \in Analysed /\ r.boot = o.boot /\ r.t = o.t /\ r.value = o.version
                       /\ \E r \in Shown(o.trip) : r.boot = o.boot /\ r.t = o.t}
<1>1. db'.readings = {r \in db.readings : ~hit(r)} \cup new /\ owed' = owed \cup fresh
  BY DEF ReprocessCommit, Tables, Replaced
<1>2. \A s \in new : \E r \in db.readings : s = Replaced(r) /\ hit(r)
  OBVIOUS
<1> HIDE DEF new
<1>3. ASSUME NEW o \in fresh
      PROVE  /\ o.trip \in rep.trips /\ \E r \in ShownIn(db.gold, o.trip) : SameRow(r, o)
             /\ \E s \in new : s.pid \in Analysed /\ SameRow(s, o) /\ s.value = o.version
  BY DEF Shown, ShownIn, SameRow
<1> HIDE DEF fresh
<1> QED
  BY <1>1, <1>2, <1>3

LEMMA ReprocessCommitIsSeen ==
  ASSUME Seen, Known', ReprocessCommit
  PROVE  Seen'
<1> DEFINE S == rep.trips \cap Crossing(db.trips, 1, rep.from, rep.to)
           T == db.trips
           T1 == db'.trips
           R1 == db'.readings
           top == contiguous
<1>0. /\ Known /\ Locks /\ DOMAIN db = Tables /\ TripsOK(T, top) /\ LocksOK(calc, T, top) /\ RepOK(rep, T)
      /\ CalcsSee(calc, top, owed) /\ ShownAll(T, db.gold, top)
      /\ OwedAll(owed, T, db.gold, db.readings, top) /\ top \in Nat /\ DataOK(db, top) /\ top \in 0..Len(Log)
  BY LogTyped DEF Seen, Known, Locks, Table, DbOK
<1>1. /\ T1 = Marked(T, S) /\ db'.gold = db.gold /\ calc' = calc /\ contiguous' = top /\ rep' = Idle
      /\ rep.pc = "update" /\ rep.trips \cap Locked = {}
  BY <1>0, ReprocessTrips, ServerTables DEF ReprocessCommit, volatile, WaitsFor
<1>2. TripsOK(T1, top) /\ Keeps(T, T1) /\ Stays(T, T1)
  BY <1>0, <1>1, MarkedKeeps, StepStays
<1>3. \A t \in S : t \in DOMAIN T => T1[t].recalc = TRUE
  <2> HIDE DEF S, T, T1, top
  <2> QED BY <1>0, <1>1, MarkedStays
<1>4. /\ rep.from \in Nat /\ rep.to \in Nat
      /\ \A t \in rep.trips : t \in DOMAIN T /\ T[t].status = "ready" /\ T[t].dongle = 1
  BY <1>0, <1>1 DEF RepOK, Idle
<1>5. ReadingsOK(R1, top)
  BY <1>1 DEF Known, DataOK
<1>6. \A s \in R1 : \E r \in db.readings : s = r \/ s = Replaced(r)
  BY <1>0, ReprocessReadings
<1>7. ASSUME NEW o \in owed' \ owed
      PROVE  /\ o.trip \in rep.trips /\ \E r \in ShownIn(db.gold, o.trip) : SameRow(r, o)
             /\ \E r \in db.readings : /\ r.received \in rep.from..rep.to /\ Replaced(r) \in R1
                                       /\ Replaced(r).pid \in Analysed /\ SameRow(Replaced(r), o)
                                       /\ Replaced(r).value = o.version
  BY <1>0, <1>7, ReprocessReadings
<1>8. ASSUME NEW r \in db.readings
      PROVE  /\ ReadingRow(r, top) /\ Replaced(r).boot = r.boot /\ Replaced(r).t = r.t /\ Replaced(r).pid = r.pid
             /\ Replaced(r).received = r.received /\ Replaced(r).value = r.value + 1 /\ r.value \in Nat
  BY <1>0 DEF DataOK, ReadingsOK, ReadingRow, ReadingColumns, Replaced
<1> HIDE DEF T, T1, R1, top
<1>8a. \A j \in 1..top : j \in 1..Len(Log)
  BY <1>0, LogTyped
<1>9. Unsaved(T, T1) /\ MarksKept(owed, T, T1)
  BY <1>0, <1>2, StaysUnsaved
<1>10. ASSUME NEW o \in owed PROVE OwedOK(o, T1, db.gold, R1, top)
  <2>1. OwedAll(owed, T1, db.gold, db.readings, top)
    BY <1>0, <1>9, OwedKept
  <2>2. OwedOK(o, T1, db.gold, db.readings, top)
    BY <2>1 DEF OwedAll
  <2>3. ASSUME NEW s \in R1, s.pid \in Analysed, SameRow(s, o) PROVE s.value >= o.version
    <3>1. PICK r \in db.readings : s = r \/ s = Replaced(r)
      BY <1>6
    <3>2. r.pid \in Analysed /\ SameRow(r, o)
      BY <1>8, <2>3, <3>1 DEF SameRow
    <3>3. r.value >= o.version /\ o.version \in Nat
      BY <2>2, <3>2 DEF OwedOK
    <3> QED BY <1>8, <3>1, <3>3
  <2> QED BY <2>2, <2>3 DEF OwedOK
<1>11. ASSUME NEW o \in owed' \ owed PROVE OwedOK(o, T1, db.gold, R1, top)
  <2>1. PICK r \in ShownIn(db.gold, o.trip) : SameRow(r, o)
    BY <1>7
  <2>2. PICK z \in db.readings : /\ z.received \in rep.from..rep.to /\ Replaced(z) \in R1
                                 /\ Replaced(z).pid \in Analysed /\ SameRow(Replaced(z), o)
                                 /\ Replaced(z).value = o.version
    BY <1>7
  <2> DEFINE s == Replaced(z)
             m == z.received
             t == o.trip
  <2>3. /\ s.received = m /\ s.pid \in Analysed /\ s.value = o.version /\ s \in R1 /\ SameRow(s, o) /\ o.version \in Nat
        /\ m \in 1..top /\ m >= rep.from /\ m <= rep.to /\ s.boot = Log[m].boot /\ s.t = Log[m].t /\ s.pid = Log[m].pid
    BY <1>4, <1>8, <2>2 DEF ReadingRow
  <2>4. t \in DOMAIN T /\ T[t].status = "ready" /\ T[t].dongle = 1 /\ t \in rep.trips
    BY <1>4, <1>7
  <2>5. T1[t].status = "ready" /\ t \in DOMAIN T1
    BY <1>9, <2>4 DEF Unsaved
  <2>6. ShownRow(r, T[t], top)
    BY <1>0, <2>1, <2>4 DEF ShownAll
  <2>7. PICK n \in 1..top : /\ RowAt(r, n) /\ T[t].first \in Nat /\ T[t].last \in Nat
                            /\ T[t].first <= n /\ n <= T[t].last
    BY <2>6 DEF ShownRow
  <2> HIDE DEF s, m, t
  <2>8. RowAt(s, m)
    BY <2>3 DEF RowAt
  <2>9. ASSUME NEW q \in R1, q.pid \in Analysed, SameRow(q, o) PROVE q.value >= o.version
    <3>1. RowAt(q, q.received) /\ q.received \in 1..top
      BY <1>5, <2>9 DEF ReadingsOK, ReadingRow, RowAt
    <3>2. SameRow(q, s)
      BY <2>3, <2>9 DEF SameRow
    <3>3. q.received = m
      BY <1>8a, <2>3, <2>8, <3>1, <3>2, OneBlockPerRow
    <3>4. q = s
      BY <1>5, <2>3, <3>3 DEF ReadingsOK
    <3> QED BY <2>3, <3>4
  <2>10. n = m
    <3>1. SameRow(r, s) /\ n \in 1..Len(Log) /\ m \in 1..Len(Log)
      BY <1>0, <2>1, <2>3 DEF SameRow, t
    <3> QED BY <2>7, <2>8, <3>1, OneBlockPerRow
  <2>11. t \in Crossing(T, 1, rep.from, rep.to)
    <3>1. T[t].first <= rep.to /\ T[t].last >= rep.from
      BY <1>4, <2>3, <2>7, <2>10
    <3>2. T[t].first # Null /\ T[t].last # Null
      BY <2>7 DEF Null
    <3> QED BY <2>4, <3>1, <3>2 DEF Crossing
  <2>12. T1[t].recalc
    BY <1>3, <2>4, <2>11 DEF S, T
  <2>13. RowAt(o, m)
    BY <2>3, <2>8 DEF RowAt, SameRow
  <2> QED BY <2>3, <2>5, <2>9, <2>12, <2>13 DEF OwedOK, t
<1>12. OwedAll(owed', T1, db.gold, R1, top)
  BY <1>10, <1>11 DEF OwedAll
<1>13. ASSUME NEW w \in Workers PROVE CalcSees(calc[w], top, owed')
  <2>1. CalcSees(calc[w], top, owed)
    BY <1>0 DEF CalcsSee
  <2>2. ASSUME calc[w].pc \in {"fetch", "proof", "save"}
        PROVE  Reading(calc[w], top, owed')
    <3>1. calc[w].trip \in Locked
      BY <2>2 DEF Locked, Holds
    <3>2. \A o \in owed' \ owed : o.trip # calc[w].trip
      BY <1>1, <1>7, <3>1
    <3> QED BY <2>1, <2>2, <3>2 DEF CalcSees, Reading
  <2> QED BY <2>1, <2>2 DEF CalcSees
<1>14. CalcsSee(calc', top, owed')
  BY <1>1, <1>13 DEF CalcsSee
<1>15. top <= contiguous' /\ RepOK(rep', T)
  BY <1>0, <1>1 DEF RepOK
<1> QED
  BY <1>1, <1>9, <1>12, <1>14, <1>15, SeenStays DEF T, T1, R1, top

-------------------------------------------------------------------------------
(* Every step                                                                *)

LEMMA TickersAreSeen ==
  ASSUME Seen, Known', Evaluator \/ Provisional
  PROVE  Seen'
<1>0. /\ Known /\ Locks /\ DOMAIN db = Tables /\ TripsOK(db.trips, contiguous) /\ LocksOK(calc, db.trips, contiguous)
      /\ CalcsSee(calc, contiguous, owed) /\ RepOK(rep, db.trips)
  BY DEF Seen, Known, Locks, Table, DbOK
<1>1. DbOK(db', contiguous) /\ OnlyTrips(db, db') /\ calc' = calc /\ contiguous' = contiguous
  BY <1>0, TickersKeep
<1>2. rep' = rep /\ owed' = owed
  BY DEF Evaluator, EvalStart, EvalOne, EvalError, Dispatch, EvalEnd, Provisional, ProvisionalStart, CheckOne,
         ProvisionalError, Clear, Mark, world
<1>3. /\ Keeps(db.trips, db'.trips) /\ TripsOK(db'.trips, contiguous)
      /\ db'.gold = db.gold /\ db'.readings = db.readings
  BY <1>1 DEF OnlyTrips, DbOK, Tables
<1>4. Unsaved(db.trips, db'.trips) /\ MarksKept(owed, db.trips, db'.trips)
  <2>1. CASE EvalOne \/ CheckOne \/ Mark
    BY <1>0, <1>3, <2>1, StepStays, StaysUnsaved
  <2>2. CASE Clear
    <3>1. /\ DOMAIN db'.trips = DOMAIN db.trips
          /\ \A t \in DOMAIN db.trips : SameFound(db.trips[t], db'.trips[t]) /\ (db.trips[t].recalc => db'.trips[t].recalc)
      BY <1>0, <2>2, ClearRow DEF SameFound
    <3> QED BY <1>0, <1>3, <3>1, KeepsUnsaved DEF MarksKept
  <2>3. CASE EvalStart \/ EvalError \/ Dispatch \/ EvalEnd \/ ProvisionalStart \/ ProvisionalError
    <3>1. db' = db
      BY <2>3 DEF EvalStart, EvalError, Dispatch, EvalEnd, ProvisionalStart, ProvisionalError
    <3> QED BY <3>1, UnsavedReflexive
  <2> QED BY <2>1, <2>2, <2>3 DEF Evaluator, Provisional
<1> QED
  BY <1>0, <1>1, <1>2, <1>3, <1>4, SeenSameData

LEMMA CreateTripIsSeen ==
  ASSUME Seen, Known', NEW t \in Trips, NEW head \in 0..Len(Log), CreateTrip(t, head)
  PROVE  Seen'
<1>0. /\ Known /\ Locks /\ DOMAIN db = Tables /\ TripsOK(db.trips, contiguous) /\ LocksOK(calc, db.trips, contiguous)
      /\ CalcsSee(calc, contiguous, owed) /\ RepOK(rep, db.trips)
  BY DEF Seen, Known, Locks, Table, DbOK
<1>1. calc' = calc /\ contiguous' = contiguous /\ rep' = rep /\ owed' = owed
  BY DEF CreateTrip, volatile, world
<1>2. OnlyTrips(db, db')
  BY <1>0, CreateTripKeeps DEF Locks, Table
<1>3. /\ Keeps(db.trips, db'.trips) /\ db'.gold = db.gold /\ db'.readings = db.readings
  BY <1>2 DEF OnlyTrips, Tables
<1>4. TripsOK(db'.trips, contiguous)
  BY <1>1 DEF Known, Locks, Table, DbOK
<1>5. /\ DOMAIN db'.trips = DOMAIN db.trips \cup {t} /\ \A i \in DOMAIN db.trips : db'.trips[i] = db.trips[i]
      /\ db'.trips[t].status = "pending"
  BY <1>0, CreatedRow
<1>6. /\ \A i \in DOMAIN db.trips : SameFound(db.trips[i], db'.trips[i])
      /\ \A i \in DOMAIN db'.trips \ DOMAIN db.trips : db'.trips[i].status # "ready"
  BY <1>5 DEF SameFound
<1>7. Unsaved(db.trips, db'.trips) /\ MarksKept(owed', db.trips, db'.trips)
  BY <1>0, <1>3, <1>4, <1>5, <1>6, KeepsUnsaved DEF MarksKept
<1> QED
  BY <1>0, <1>1, <1>3, <1>7, SeenSameData

LEMMA SeenStep ==
  ASSUME Seen, [Next]_vars
  PROVE  Seen'
<1>0. /\ Known' /\ Known /\ Locks /\ DOMAIN calc = Workers
      /\ CalcsSee(calc, contiguous, owed) /\ RepOK(rep, db.trips)
  BY KnownStep DEF Seen, Known, Locks, LocksOK
<1>1. ASSUME db' = db, contiguous' = contiguous, rep' = rep, owed' = owed, CalcsSee(calc', contiguous, owed)
      PROVE  Seen'
  <2>1. Unsaved(db.trips, db'.trips) /\ MarksKept(owed', db.trips, db'.trips)
    BY <1>1, UnsavedReflexive
  <2> QED BY <1>0, <1>1, <2>1, SeenSameData
<1>2. CASE Evaluator \/ Provisional
  BY <1>0, <1>2, TickersAreSeen
<1>3. CASE ReprocessCommit
  BY <1>0, <1>3, ReprocessCommitIsSeen
<1>4. CASE \E from, to \in 1..Len(Log) : ReprocessStart(from, to)
  BY <1>0, <1>4, ReprocessStartIsSeen
<1>5. CASE Ingest
  BY <1>0, <1>5, IngestIsSeen
<1>6. CASE \E b \in DOMAIN Offset : ConvertBoot(b)
  BY <1>0, <1>6, ConvertIsSeen
<1>7. CASE Silence \/ (\E t \in Trips : FinalLimit(t)) \/ UNCHANGED vars
  <2>1. db' = db /\ calc' = calc /\ contiguous' = contiguous /\ rep' = rep /\ owed' = owed
    BY <1>7 DEF Silence, FinalLimit, volatile, vars, world
  <2> QED BY <1>0, <1>1, <2>1
<1>8. CASE \E t \in Trips : \E head \in 0..Len(Log) : CreateTrip(t, head)
  BY <1>0, <1>8, CreateTripIsSeen
<1>9. CASE Crash
  <2> DEFINE c == [NoCalc EXCEPT !.pc = "take", !.kind = "recalc"]
  <2>1. db' = db /\ contiguous' = contiguous /\ rep' = rep /\ owed' = owed /\ calc' = [w \in Workers |-> c]
    BY <1>9 DEF Crash
  <2>2. c.pc = "take" /\ Nothing(c)
    BY DEF NoCalc, Nothing
  <2> HIDE DEF c
  <2>3. CalcSees(c, contiguous, owed)
    BY <2>2, EmptySees
  <2>4. CalcsSee(calc', contiguous, owed)
    BY <2>1, <2>3 DEF CalcsSee
  <2> QED BY <1>1, <2>1, <2>4
<1>10. CASE \E w \in Workers : Calculator(w)
  BY <1>0, <1>10, CalculatorIsSeen
<1> QED
  BY <1>2, <1>3, <1>4, <1>5, <1>6, <1>7, <1>8, <1>9, <1>10 DEF Next, Server, Reprocess

LEMMA SeenInit ==
  ASSUME Init
  PROVE  Seen
<1>1. /\ db.gold = EmptyGold /\ calc = [w \in Workers |-> NoCalc] /\ owed = {} /\ rep = Idle
      /\ db.trips = [i \in Old |-> InsertTrip(<<>>, i, [Entry[i] EXCEPT !.target = 1], 0)[i]]
  BY DEF Init
<1>2. DOMAIN db.gold = GoldTables
  BY <1>1 DEF EmptyGold, GoldTables
<1>3. \A t \in DOMAIN db.trips : db.trips[t].status = "pending"
  BY <1>1 DEF InsertTrip
<1>4. CalcsSee(calc, contiguous, owed)
  BY <1>1 DEF CalcsSee, CalcSees, NoCalc, Nothing
<1> QED
  BY <1>1, <1>2, <1>3, <1>4, KnownInit DEF Seen, RepOK, ShownAll, OwedAll

(* No trip shows a row that a reprocess replaced under it unless it is       *)
(* marked, whatever calculation was reading and however often the time of a  *)
(* boot moves: the command's UPDATE waits for the trips that calculations     *)
(* hold, and what a result shows is in its range of seq.  A calculation may  *)
(* fail, a recalculation too: the trip keeps its result, unmarked, and from   *)
(* then on nothing is owed to it.                                            *)
THEOREM TripWorkerReprocessIsSeen == Spec => []ReprocessIsSeen
<1>1. Init => Seen
  BY SeenInit
<1>2. Seen /\ [Next]_vars => Seen'
  BY SeenStep
<1>3. Seen => ReprocessIsSeen
  BY DEF Seen, OwedAll, OwedOK, ReprocessIsSeen, Shown, ShownIn, SameRow, Newer
<1> QED
  BY <1>1, <1>2, <1>3, PTL DEF Spec
===============================================================================
