----------------------------- MODULE TripAdapters -----------------------------
(***************************************************************************)
(* The two trip repositories run in lock-step: every call the use cases    *)
(* make goes to the PostgreSQL one (db) and to the in-memory one (mem).    *)
(* The tests of the use cases and of the HTTP routes see only the second,  *)
(* so what they show of the program holds in production only where the two *)
(* agree.  Transactions are serial, as the in-memory mutex makes them;     *)
(* trips may be created at one moment, and ids are in no order.            *)
(***************************************************************************)
EXTENDS TripRepo

CONSTANTS TripIds,     \* trips that may be created
          Entries,     \* the requests: category, name, dongle and entry
          Results,     \* calculations Save may store
          BootRows, BlockRows, ReadingRows, PositionRows,  \* data that may arrive
          MaxData      \* bound: rows of data beside no trip, one trip, two...

VARIABLES db,   \* PostgreSQL
          mem,  \* the in-memory database
          now   \* created_at of the latest trip

vars == <<db, mem, now>>

M == INSTANCE TripMemory

Init ==
  /\ db = [trips |-> <<>>, gold |-> EmptyGold, boots |-> {}, blocks |-> {}, readings |-> {},
           positions |-> {}, sent |-> <<>>]
  /\ mem = [trips |-> <<>>, boots |-> <<>>, blocks |-> <<>>, readings |-> <<>>,
            positions |-> <<>>, sent |-> <<>>]
  /\ now = 1

Data == Len(mem.boots) + Len(mem.blocks) + Len(mem.readings) + Len(mem.positions)
RoomForData == Data < MaxData[Len(mem.trips) + 1]

(* CreateTrip inserts only what FindSame does not find.                    *)
DoInsert(i, e, at) ==
  /\ M!Find(mem, i) = {} /\ FindSame(db, e) = <<>>
  /\ Data <= MaxData[Len(mem.trips) + 2]
  /\ db' = IF InsertError(db, e) = "" THEN NotifyTrip(Insert(db, i, e, at), i) ELSE db
  /\ mem' = IF M!InsertError(mem, e) = "" THEN M!NotifyTrip(M!Insert(mem, i, e, at), i) ELSE mem
  /\ now' = IF InsertError(db, e) = "" THEN at ELSE now

DoMarkWaiting(i) ==
  db' = MarkWaiting(db, i) /\ mem' = M!MarkWaiting(mem, i) /\ UNCHANGED now

(* The callers resolve the trip's own dongle and boot.  Two trips of one   *)
(* boot, one of them from before creation resolved the generation, collide *)
(* in the unique index the in-memory repository does not have here: that   *)
(* call is left to TripWorker, where its effect on the queue is seen.      *)
DoResolve(i) ==
  /\ M!Find(mem, i) # {} /\ M!TripOf(mem, i).entry = "boot"
  /\ ~ResolveRefused(db.trips, db.boots, i, 1, M!TripOf(mem, i).boot)
  /\ LET x == M!TripOf(mem, i)
     IN  /\ db' = Resolved(db, i, x.dongle, x.boot)
         /\ mem' = M!Resolved(mem, i, x.dongle, x.boot)
  /\ UNCHANGED now

(* Which of the marked trips of one moment is taken, the query leaves open. *)
DoSave(i, c) ==
  /\ Take(db, i) # <<>> \/ i \in OldestOf(db.trips, ToRecalculate(db.trips))
  /\ db' = Save(db, i, c) /\ mem' = M!Save(mem, i, c)
  /\ UNCHANGED now

DoFail(i) == db' = Fail(db, i) /\ mem' = M!Fail(mem, i) /\ UNCHANGED now

DoMarkRecalc(ids) ==
  db' = MarkRecalc(db, ids) /\ mem' = M!MarkRecalc(mem, ids) /\ UNCHANGED now

DoMarkRange(from, to) ==
  /\ db' = MarkRecalcByRange(db, 1, from, to) /\ mem' = M!MarkRecalcByRange(mem, 1, from, to)
  /\ UNCHANGED now

DoClear(i) ==
  db' = ClearProvisional(db, i) /\ mem' = M!ClearProvisional(mem, i) /\ UNCHANGED now

(* Rows of the other tables arrive; a boot row replaces the one of its key. *)
SameBoot(b, c) == b.dongle = c.dongle /\ b.gen = c.gen /\ b.boot = c.boot
AddBoot(b) ==
  /\ RoomForData
  /\ db' = [db EXCEPT !.boots = {x \in @ : ~SameBoot(x, b)} \cup {b}]
  /\ mem' = [mem EXCEPT !.boots = Append(SelectSeq(@, LAMBDA x : ~SameBoot(x, b)), b)]
  /\ UNCHANGED now
AddBlock(x) ==
  /\ RoomForData /\ \A y \in db.blocks : y.seq # x.seq
  /\ db' = [db EXCEPT !.blocks = @ \cup {x}] /\ mem' = [mem EXCEPT !.blocks = Append(@, x)]
  /\ UNCHANGED now
AddReading(x) ==
  /\ RoomForData /\ x \notin db.readings
  /\ db' = [db EXCEPT !.readings = @ \cup {x}] /\ mem' = [mem EXCEPT !.readings = Append(@, x)]
  /\ UNCHANGED now
AddPosition(x) ==
  /\ RoomForData /\ x \notin db.positions
  /\ db' = [db EXCEPT !.positions = @ \cup {x}] /\ mem' = [mem EXCEPT !.positions = Append(@, x)]
  /\ UNCHANGED now

DataArrives ==
  \/ \E b \in BootRows : AddBoot(b)
  \/ \E x \in BlockRows : AddBlock(x)
  \/ \E x \in ReadingRows : AddReading(x)
  \/ \E x \in PositionRows : AddPosition(x)

Calls ==
  \/ \E i \in TripIds : \/ \E e \in Entries, at \in {now, now + (IF mem.trips = <<>> THEN 0 ELSE 1)} : DoInsert(i, e, at)
                        \/ DoMarkWaiting(i)
                        \/ DoResolve(i)
                        \/ \E c \in Results : DoSave(i, c)
                        \/ DoFail(i)
                        \/ DoMarkRecalc({i})
                        \/ DoClear(i)
  \/ \E from, to \in 1..2 : DoMarkRange(from, to)

Next == Calls \/ DataArrives
Spec == Init /\ [][Next]_vars

----------------------------------------------------------------------------
(* gold.trip is the same table after any sequence of calls: no command has *)
(* a condition in one adapter that it lacks in the other.                  *)
SameTrips ==
  /\ DOMAIN db.trips = {mem.trips[n].id : n \in DOMAIN mem.trips}
  /\ \A n \in DOMAIN mem.trips :
       LET x == mem.trips[n]
       IN  \A f \in DOMAIN x \ {"id", "calc"} : db.trips[x.id][f] = x[f]
  /\ db.sent = mem.sent

(* The queue of the worker: what is waiting, what is taken next, what the  *)
(* provisional ticker looks at and with which boots without time.  Trips   *)
(* of one moment come in any order from the query (ORDER BY created_at     *)
(* alone), as they were inserted from memory.                              *)
Alike(s, t, Id(_)) ==
  /\ ToSet(s) = ToSet(t) /\ Len(s) = Len(t)
  /\ \A n \in DOMAIN s : db.trips[Id(s[n])].created = db.trips[Id(t[n])].created
SameQueue ==
  /\ Alike(ListWaiting(db), M!ListWaiting(mem), LAMBDA i : i)
  /\ IF TakeRecalc(db) = <<>> THEN M!TakeRecalc(mem) = <<>>
     ELSE Head(M!TakeRecalc(mem)) \in OldestOf(db.trips, ToRecalculate(db.trips))
  /\ Alike(ListProvisional(db), M!ListProvisional(mem), LAMBDA x : x.id)
  /\ CountQueue(db) = M!CountQueue(mem)
  /\ \A i \in TripIds : Take(db, i) = M!Take(mem, i)

(* What the API answers: the same trip refuses a request, with the same    *)
(* error, and the analysis read back from eight tables is the one stored.  *)
SameReads ==
  /\ \A i \in TripIds : Find(db, i) = M!Find(mem, i) /\ readAnalysis(db, i) = M!Analysis(mem, i)
  /\ \A e \in Entries :
       /\ FindSame(db, e) = M!FindSame(mem, e)
       /\ FindSame(db, e) = <<>> => InsertError(db, e) = M!InsertError(mem, e)

Names == {e.name : e \in Entries}
Queries == [cursor : {<<>>} \cup ((1..2) \X TripIds), search : (SUBSET Names) \ {{}}, limit : {1, 2}]

(* A page of the list is the same for every search, cursor and limit.      *)
SameLists == \A q \in Queries : readList(db, q) = M!List(mem, q)

(* Following the cursor of each page from the first one visits every trip  *)
(* of the search once, newest first, whatever the page size.               *)
PagesVisitAll ==
  \A limit \in {1, 2} : \A search \in (SUBSET Names) \ {{}} :
    LET page(cursor) == readList(db, [cursor |-> cursor, search |-> search, limit |-> limit]).page
        walk[k \in 0..Cardinality(DOMAIN db.trips)] ==
          IF k = 0 THEN [seen |-> page(<<>>).items, next |-> page(<<>>).next]
          ELSE IF walk[k-1].next = <<>> THEN walk[k-1]
          ELSE [seen |-> walk[k-1].seen \o page(walk[k-1].next).items, next |-> page(walk[k-1].next).next]
        end == walk[Cardinality(DOMAIN db.trips)]
    IN  /\ end.next = <<>>
        /\ end.seen = Reverse(OldestFirst(db.trips, {i \in DOMAIN db.trips : db.trips[i].name \in search}))

Instants == 0..4
ReadingQueries ==
  [dongle : {1}, gen : {0, 1}, boot : {1}, pids : {{1}, {1, 2}}, from : {1, 2}, to : {2, 3},
   tFrom : {0, 2}, tTo : {2, 4}]

(* Everything the calculation loads is the same from both: the boots of an *)
(* interval, those without time that may fall in it, the range received,   *)
(* readings, positions, the next boot and the latest block with a time.    *)
SameData ==
  /\ \A t0, t1 \in Instants : t0 < t1 =>
       /\ IntervalBoots(db, 1, t0, t1) = M!IntervalBoots(mem, 1, t0, t1)
       /\ UnconvertedBoots(db, 1, t0, t1) = M!UnconvertedBoots(mem, 1, t0, t1)
  /\ \A b \in BootRows :
       /\ FindBoot(db, 1, b.gen, b.boot) = M!FindBoot(mem, 1, b.gen, b.boot)
       /\ ReceivedRange(db, 1, b) = M!ReceivedRange(mem, 1, b)
       /\ LatestGeneration(db, 1, b.boot) = M!LatestGeneration(mem, 1, b.boot)
  /\ \A from, to \in 0..3 :
       /\ NextBootStart(db, 1, from) = M!NextBootStart(mem, 1, from)
       /\ MaxBlockTime(db, 1, from, to) = M!MaxBlockTime(mem, 1, from, to)
  /\ \A q \in ReadingQueries :
       LoadReadings(db, q) = M!LoadReadings(mem, q) /\ LoadPositions(db, q) = M!LoadPositions(mem, q)

(* A primary key of the child tables is never met twice, also after a trip *)
(* is calculated again with fewer rows.                                    *)
ChildKeysAreUnique ==
  \A t \in DOMAIN db.gold : \A r, s \in db.gold[t] : r.id = s.id /\ r.no = s.no => r = s

(* No sequence of calls tells the two adapters apart: the same table, the  *)
(* same queue of the worker, the same answers of the API, the same pages,  *)
(* the same data for a calculation, and no key PostgreSQL would refuse.    *)
AdaptersAgree ==
  /\ SameTrips /\ SameQueue /\ SameReads /\ SameLists /\ SameData
  /\ ChildKeysAreUnique
=============================================================================
