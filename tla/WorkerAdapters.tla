---------------------------- MODULE WorkerAdapters ----------------------------
(***************************************************************************)
(* The calls of the boot worker and of the reprocess command, in step over *)
(* the tables db and over the memory store mem, whose rows of boot the     *)
(* tests of the worker assemble: here a row goes to both.                  *)
(***************************************************************************)
EXTENDS Server

CONSTANTS TestRows,   \* rows of boot a test may assemble
          RowAnchors, \* and anchors of theirs
          Estimates,  \* what the worker may compute for a boot
          Blocks      \* data blocks that may be processed again

Untouched == UNCHANGED <<bound, apart, issued, calls, same, dongle, made>>
Moves == clock' = clock + 1 /\ clock < bound.clock

AddBoot(row) ==
  /\ Moves /\ \A b \in db.boots : ~SameKey(b, row)
  /\ LET b == [row EXCEPT !.since = clock]
     IN  db' = [db EXCEPT !.boots = @ \cup {b}] /\ mem' = [mem EXCEPT !.bootRows = @ \cup {b}]
  /\ Untouched

AddRowAnchor(a) ==
  /\ a \notin db.anchors /\ \E b \in db.boots : SameKey(b, a)
  /\ db' = AddAnchor(db, a) /\ mem' = [mem EXCEPT !.rowAnchors = Append(@, a)]
  /\ Untouched /\ UNCHANGED clock

(* ProcessOne, first transaction: time of the boot and its groups.         *)
ProcessBoot(est, groups) ==
  /\ TakePending(db) # <<>>
  /\ LET k == TakePending(db)[1]
         l == M!TakePending(mem)[1]
     IN  /\ db' = UpdateTime(CopyGroups(DeleteGroups(db, k), k, groups), k, est)
         /\ mem' = M!UpdateTime(M!CopyGroups(M!DeleteGroups(mem, l), l, groups), l, est)
  /\ Untouched /\ UNCHANGED clock

(* The second one.                                                         *)
MarkAround(b) ==
  /\ Moves /\ b.src = "anchors" /\ b.first # Null
  /\ db' = MarkNeighbors(db, b.dongle, b.first, clock)
  /\ mem' = M!MarkNeighbors(mem, b.dongle, b.first, clock)
  /\ Untouched

AlertOnce(b, type) ==
  /\ LET a == [dongle |-> b.dongle, gen |-> b.gen, boot |-> b.boot, type |-> type, at |-> Null]
     IN  db' = AddAlertIfNew(db, a, clock) /\ mem' = M!AddAlertIfNew(mem, a, clock)
  /\ Untouched /\ UNCHANGED clock

AddBlock(x) ==
  /\ x.seq = Cardinality(db.raw) + 1
  /\ LET value == [dongle |-> d, block |-> x.seq, t |-> x.t0, received |-> x.received]
         rows(m) == [m EXCEPT !.readings = Append(@, value), !.positions = Append(@, value)]
     IN  /\ db' = rows([db EXCEPT !.raw = @ \cup {x}])
         /\ mem' = rows([mem EXCEPT !.dataBlocks = Put(@, d, (IF d \in DOMAIN @ THEN @[d] ELSE <<>>) \o <<x>>)])
  /\ Untouched /\ UNCHANGED clock

(* reprocess.Run, one range of blocks: the rows of the blocks listed are   *)
(* deleted and derived again.                                              *)
Reprocess(from, to, limit) ==
  LET found == ListData(db, d, from, to, limit)
      times == {x.received : x \in ToSet(found)}
      again(s) == [n \in DOMAIN s |-> [dongle |-> d, block |-> s[n].seq, t |-> s[n].t0, received |-> s[n].received]]
      a == found[1].seq
      z == Last(found).seq
      clean == DeletePositions(DeleteReadings(db, d, a, z, Min(times), Max(times)), d, a, z, Min(times), Max(times))
      wiped == M!DeletePositions(M!DeleteReadings(mem, d, a, z, 0, 0), d, a, z, 0, 0)
  IN  /\ found # <<>>
      /\ db' = StorePositions(StoreReadings(clean, again(found)), again(found))
      /\ mem' = M!StorePositions(M!StoreReadings(wiped, again(M!ListData(mem, d, from, to, limit))), again(found))
      /\ Untouched /\ UNCHANGED clock

BootCalls ==
  \/ \E row \in TestRows : AddBoot(row)
  \/ \E e \in Estimates : ProcessBoot(e.est, e.groups)
  \/ \E b \in db.boots : MarkAround(b)
ListCalls ==
  \/ \E row \in TestRows : AddBoot(row)
  \/ \E a \in RowAnchors : AddRowAnchor(a)
  \/ \E b \in db.boots, type \in {"anchors"} : AlertOnce(b, type)
BlockCalls ==
  \/ \E x \in Blocks : AddBlock(x)
  \/ \E from, to, limit \in 1..Cardinality(Blocks) : from <= to /\ Reprocess(from, to, limit)

AdaptersNext ==
  \/ Serving /\ Next
  \/ bound.rows = "boots" /\ BootCalls
  \/ bound.rows = "lists" /\ ListCalls
  \/ bound.rows = "blocks" /\ BlockCalls
AdaptersSpec == Init /\ [][AdaptersNext]_vars

(* MarkAnchorlessNeighbors and the two neighbour queries agree: a boot     *)
(* whose neighbour an anchored boot is, is marked when that one changes,   *)
(* and no other boot is (06-worker-assincrono.md).                         *)
MarkedAreNeighbors ==
  \A b \in db.boots : b.src = "anchors" /\ b.first # Null =>
    LET marked == {x \in MarkNeighbors(db, d, b.first, clock).boots : x \notin db.boots}
        uses(x) == b \in ToSet(PreviousAnchoredBoot(db.boots, d, x.first))
                           \cup ToSet(NextAnchoredBoot(db.boots, d, x.first))
    IN  {x.first : x \in marked} =
          {x.first : x \in {y \in db.boots : /\ ~y.pending /\ y.src # "anchors" /\ y.first \notin {Null, b.first}
                                             /\ uses(y)}}

(* Reprocessing derives each value once.                                   *)
ValuesOnce ==
  ~Serving => \A m, n \in DOMAIN db.readings : db.readings[m].block = db.readings[n].block => m = n

(* The worker gets the same boot to work on, the same anchors (in whatever *)
(* order), neighbours and counts from both stores, and what it writes      *)
(* reads back the same.  An alert is there once in memory, in the tables   *)
(* once a day.                                                             *)
SameWorker ==
  ~Serving =>
       /\ TakePending(db) = M!TakePending(mem) /\ CountPending(db) = M!CountPending(mem)
       /\ db.boots = mem.bootRows /\ db.readings = mem.readings /\ db.positions = mem.positions
       /\ {[a EXCEPT !.at = Null] : a \in ToSet(db.alerts)} = ToSet(mem.alerts) /\ IsInjective(mem.alerts)
       /\ \A m, n \in DOMAIN db.alerts :
            m < n /\ [db.alerts[n] EXCEPT !.at = db.alerts[m].at] = db.alerts[m] =>
              db.alerts[n].at - db.alerts[m].at >= Day
       /\ \A b \in db.boots :
            /\ ListAnchors(db, b) \in SetToSeqs(ToSet(M!ListAnchors(mem, b)))
            /\ ListGroups(db, b) = M!ListGroups(mem, b)
            /\ LatestBootGeneration(db.boots, d, b.boot) = ToSet(M!LatestGeneration(mem, d, b.boot))
       /\ \A seq \in 0..Cardinality(TestRows) :
            /\ PreviousAnchored(db, d, seq) = M!PreviousAnchored(mem, d, seq)
            /\ NextAnchored(db, d, seq) = M!NextAnchored(mem, d, seq)
            /\ Count(db, d, 1, seq) = M!Count(mem, d, 1, seq)

(* The tests run over the memory store, of the API and of the worker: it   *)
(* answers what PostgreSQL answers, over both the right neighbours are     *)
(* marked, and a reprocessed block leaves each value once.                 *)
SameStores == SameServer /\ SameWorker /\ MarkedAreNeighbors /\ ValuesOnce
=============================================================================
