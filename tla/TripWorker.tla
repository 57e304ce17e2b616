------------------------------ MODULE TripWorker ------------------------------
(***************************************************************************)
(* The trip worker over one dongle: the evaluator that decides that the    *)
(* data of a trip have arrived, the goroutines that calculate, the ticker  *)
(* of provisional trips, and around them the ingestion of blocks, the      *)
(* conversion of a boot's time, trips being created and the reprocess      *)
(* command.                                                                *)
(*                                                                         *)
(* PostgreSQL is READ COMMITTED, so a calculation is a step per statement  *)
(* and each statement sees what is committed then.  A ticker may fire at   *)
(* any time, which includes every NOTIFY that arrives and every one lost.  *)
(***************************************************************************)
EXTENDS TripRepo

CONSTANTS
  Workers,      \* goroutines of calculation (WORKER_CONCORRENCIA)
  Entry,        \* trip_id -> the entry of the request
  Old,          \* trips in the table from the start, created with no generation
  Log,          \* the dongle's data blocks in seq order: [boot, t, pid]
  Offset,       \* boot -> the a_ms that its anchors, or its neighbours, may give
  Margin,       \* folgaMs, on both sides of an interval
  JobsCap,      \* capacity of the channel jobs (4 * WORKER_CONCORRENCIA)
  Failures,     \* <<trip, kind>>: the analysis of the trip may fail
  MaxTrips,     \* bound on the trips created
  MaxReprocess, MaxCrashes, MaxBusy   \* bounds on the faults

VARIABLES
  db,         \* the database of TripRepo
  contiguous, \* contiguous_seq of the dongle
  quiet,      \* VIAGEM_ESPERA_SEM_LOTE has passed since last_ack_at
  late,       \* trips past VIAGEM_LIMITE_FINAL
  jobs, inflight, eval, calc, prov, rep,
  owed,       \* history: rows that a reprocess replaced under a ready trip
  faults      \* reprocesses, crashes and busy errors so far

volatile == <<jobs, inflight, eval, calc, prov>>
world == <<contiguous, quiet, late, rep, owed, faults>>
vars == <<db, volatile, world>>

Trips == DOMAIN Entry

(* A reading is one of its boot, PID and instant, and the boots follow one *)
(* another in the log.                                                     *)
ASSUME TripWorkerAssumption ==
  /\ Trips \in SUBSET Nat /\ IsFiniteSet(Trips) /\ Old \subseteq Trips
  /\ \A t \in Trips : /\ Entry[t].entry \in {"boot", "interval"}
                      /\ {"gen", "target"} \subseteq DOMAIN Entry[t]
                      /\ Entry[t].entry = "interval" => Entry[t].start \in Int /\ Entry[t].end \in Int
  /\ \A b \in DOMAIN Offset : Offset[b] \subseteq Nat
  /\ Margin \in Nat
  /\ Log \in Seq([boot : Nat, t : Nat, pid : Nat])
  /\ \A m, n \in DOMAIN Log : m < n => /\ Log[m].boot <= Log[n].boot
                                      /\ Log[m] # Log[n]

Analysed == {1}   \* the PIDs the analysis uses
Idle == [pc |-> "idle"]
NoCalc == [pc |-> "idle", kind |-> "", trip |-> 0, byLimit |-> FALSE, through |-> 0, left |-> <<>>,
           boots |-> <<>>, rows |-> {}, warnings |-> <<>>, complete |-> FALSE]

Init ==
  /\ db = [trips |-> [i \in Old |-> InsertTrip(<<>>, i, [Entry[i] EXCEPT !.target = 1], 0)[i]],
           gold |-> EmptyGold, boots |-> {}, blocks |-> {}, readings |-> {}, positions |-> {},
           sent |-> <<>>]
  /\ contiguous = 0 /\ quiet = TRUE /\ late = {}
  /\ jobs = <<>> /\ inflight = {} /\ eval = Idle /\ prov = Idle /\ rep = Idle
  /\ calc = [w \in Workers |-> NoCalc]
  /\ owed = {} /\ faults = [rep |-> 0, crash |-> 0, busy |-> 0]

----------------------------------------------------------------------------
(* The rest of the server.                                                 *)

(* The boot's row after one more data block: range, time range and least   *)
(* reception offset, the line kept.                                        *)
BootAfter(n, x) ==
  LET old == FindBoot(db, 1, 0, x.boot)
  IN  IF old = {} THEN [dongle |-> 1, gen |-> 0, boot |-> x.boot, first |-> n, last |-> n,
                        firstT |-> x.t, lastT |-> x.t, maxOff |-> n - x.t, a |-> Null,
                        slope |-> 0, src |-> ""]
      ELSE LET b == CHOOSE b \in old : TRUE
           IN  [b EXCEPT !.last = n, !.firstT = Min({@, x.t}), !.lastT = Max({@, x.t}),
                         !.maxOff = Min({@, n - x.t})]

(* The reprocess command holds the dongle's lock meanwhile.                *)
Ingest ==
  /\ rep = Idle /\ contiguous < Len(Log)
  /\ LET n == contiguous + 1
         x == Log[n]
     IN  /\ contiguous' = n
         /\ db' = [db EXCEPT
              !.blocks = @ \cup {[dongle |-> 1, seq |-> n, gen |-> 0, boot |-> x.boot, t0 |-> x.t,
                                  received |-> n, marker |-> FALSE]},
              !.readings = @ \cup {[dongle |-> 1, gen |-> 0, boot |-> x.boot, pid |-> x.pid,
                                    t |-> x.t, received |-> n, value |-> 0]},
              !.boots = (@ \ FindBoot(db, 1, 0, x.boot)) \cup {BootAfter(n, x)}]
  /\ quiet' = FALSE
  /\ UNCHANGED <<volatile, late, rep, owed, faults>>

(* The boot worker estimates the line of a boot again, at each new anchor  *)
(* or neighbour, and without an estimate takes it away.  No trip is marked. *)
ConvertBoot(b) ==
  /\ \E row \in FindBoot(db, 1, 0, b), a \in Offset[b] \cup {Null} :
       /\ a # row.a
       /\ db' = [db EXCEPT !.boots = (@ \ {row}) \cup
                   {[row EXCEPT !.a = a, !.src = IF a = Null THEN "" ELSE "anchors"]}]
  /\ UNCHANGED <<volatile, world>>

Silence == quiet' = TRUE /\ ~quiet /\ UNCHANGED <<db, volatile, contiguous, late, rep, owed, faults>>
FinalLimit(t) ==
  /\ t \in DOMAIN db.trips \ late
  /\ late' = late \cup {t}
  /\ UNCHANGED <<db, volatile, contiguous, quiet, rep, owed, faults>>

(* CreateTrip.create; head_seq is at least contiguous_seq and the dongle   *)
(* may have announced blocks that have not come.                           *)
CreateTrip(t, head) ==
  /\ t \notin DOMAIN db.trips /\ Cardinality(DOMAIN db.trips) < MaxTrips /\ head \in contiguous..Len(Log)
  /\ LET e == [Entry[t] EXCEPT !.target = head]
         g == LatestGeneration(db, 1, e.boot)
         d == IF e.entry = "boot" /\ e.gen = Null /\ g # {} THEN [e EXCEPT !.gen = Max(g)] ELSE e
     IN  /\ d.entry = "boot" => g # {}
         /\ FindSame(db, d) = <<>> /\ InsertError(db, d) = ""
         /\ db' = Insert(db, t, d, 1 + Cardinality(DOMAIN db.trips))
  /\ UNCHANGED <<volatile, world>>

----------------------------------------------------------------------------
(* Locks.  A calculation holds the row of its trip from Take to the end of *)
(* the transaction; an UPDATE of that row waits.                           *)

Holds(w) == calc[w].pc \in {"progress", "boots", "fetch", "proof", "save"}
Locked == {calc[w].trip : w \in {v \in Workers : Holds(v)}}

----------------------------------------------------------------------------
(* The evaluator.                                                          *)

EndsWithTime(t, through) ==
  /\ db.trips[t].entry = "interval"
  /\ \E at \in MaxBlockTime(db, 1, 1, through) : at >= db.trips[t].end

Complete(t) == contiguous >= db.trips[t].target /\ (quiet \/ EndsWithTime(t, contiguous))

EvalStart ==
  /\ eval = Idle
  /\ eval' = [pc |-> "run", list |-> ListWaiting(db), ready |-> <<>>]
  /\ UNCHANGED <<db, jobs, inflight, calc, prov, world>>

(* A boot entry with no generation, and its resolution being refused.      *)
Unresolved(x) == x.entry = "boot" /\ x.gen = Null
Collides(t) == Unresolved(db.trips[t]) /\ ResolveRefused(db.trips, db.boots, t, 1, db.trips[t].boot)

(* One trip of the list: MarkWaiting, ResolveGeneration, isReady.  A trip  *)
(* that has left the queue since is asked about all the same.  Evaluate    *)
(* returns at the first error.                                             *)
EvalOne ==
  /\ eval.pc = "run" /\ eval.list # <<>>
  /\ LET t == Head(eval.list)
         x == db.trips[t]
         marked == MarkWaiting(db, t)
     IN  /\ x.status = "pending" \/ Unresolved(x) => t \notin Locked
         /\ db' = IF Unresolved(x) THEN Resolved(marked, t, 1, x.boot) ELSE marked
         /\ eval' = IF Collides(t) THEN [eval EXCEPT !.list = <<>>]
                    ELSE [eval EXCEPT !.list = Tail(@),
                           !.ready = IF Complete(t) \/ t \in late
                                     THEN Append(@, [id |-> t, byLimit |-> ~Complete(t)]) ELSE @]
  /\ UNCHANGED <<jobs, inflight, calc, prov, world>>

(* Any other error has the same effect.                                    *)
EvalError ==
  /\ eval.pc = "run" /\ eval.list # <<>> /\ faults.busy < MaxBusy
  /\ eval' = [eval EXCEPT !.list = <<>>]
  /\ faults' = [faults EXCEPT !.busy = @ + 1]
  /\ UNCHANGED <<db, jobs, inflight, calc, prov, contiguous, quiet, late, rep, owed>>

(* Mutant: a trip that found the channel full stays in inflight.           *)
InflightAfterKept(id, full) == inflight \cup {id}

InflightAfter(id, full) == IF full THEN inflight ELSE inflight \cup {id}

Dispatch ==
  /\ eval.pc = "run" /\ eval.list = <<>> /\ eval.ready # <<>>
  /\ LET r == Head(eval.ready)
         full == Len(jobs) >= JobsCap
     IN  IF r.id \in inflight THEN UNCHANGED <<jobs, inflight>>
         ELSE /\ inflight' = InflightAfter(r.id, full)
              /\ jobs' = IF full THEN jobs ELSE Append(jobs, r)
  /\ eval' = [eval EXCEPT !.ready = Tail(@)]
  /\ UNCHANGED <<db, calc, prov, world>>

EvalEnd ==
  /\ eval.pc = "run" /\ eval.list = <<>> /\ eval.ready = <<>>
  /\ eval' = Idle
  /\ UNCHANGED <<db, jobs, inflight, calc, prov, world>>

----------------------------------------------------------------------------
(* The calculation: one transaction, a step per group of statements.       *)

Step(w, c) == calc' = [calc EXCEPT ![w] = c] /\ UNCHANGED <<eval, prov, world>>

TakeJob(w) ==
  /\ calc[w].pc = "idle" /\ jobs # <<>>
  /\ Step(w, [NoCalc EXCEPT !.pc = "take", !.kind = "first", !.trip = jobs[1].id,
                            !.byLimit = jobs[1].byLimit])
  /\ jobs' = Tail(jobs)
  /\ UNCHANGED <<db, inflight>>

(* drainRecalc; with an empty queue it does nothing.                       *)
DrainRecalc(w) ==
  /\ calc[w].pc = "idle" /\ \E t \in DOMAIN db.trips : db.trips[t].recalc
  /\ Step(w, [NoCalc EXCEPT !.pc = "take", !.kind = "recalc"])
  /\ UNCHANGED <<db, jobs, inflight>>

(* Calculate returned: the trip leaves inflight.                           *)
Leave(w) == inflight' = IF calc[w].kind = "first" THEN inflight \ {calc[w].trip} ELSE inflight

Found(c, locked) ==
  IF c.kind = "first" THEN TakeTrip(db.trips, c.trip, locked) ELSE TakeRecalcTrip(db.trips, locked)

Taken(w) ==
  /\ calc[w].pc = "take"
  /\ \/ /\ Found(calc[w], Locked) # <<>>
        /\ Step(w, [calc[w] EXCEPT !.pc = "progress", !.trip = Found(calc[w], Locked)[1]])
        /\ UNCHANGED inflight
     \/ Found(calc[w], Locked) = <<>> /\ Step(w, NoCalc) /\ Leave(w)
  /\ UNCHANGED <<db, jobs>>

ReadProgress(w) ==
  /\ calc[w].pc = "progress"
  /\ Step(w, [calc[w] EXCEPT !.pc = "boots", !.through = contiguous])
  /\ UNCHANGED <<db, jobs, inflight>>

TripBoots(x) ==
  IF x.entry = "interval" THEN IntervalBoots(db, 1, x.start - Margin, x.end + Margin)
  ELSE IF x.gen = Null THEN <<>> ELSE SetToSeq(FindBoot(db, 1, x.gen, x.boot))

LoadBoots(w) ==
  /\ calc[w].pc = "boots"
  /\ Step(w, [calc[w] EXCEPT !.pc = "fetch", !.left = TripBoots(db.trips[calc[w].trip])])
  /\ UNCHANGED <<db, jobs, inflight>>

(* The rows of one boot, of the analysed PIDs and inside the interval: the *)
(* query's own bounds on t enclose them.                                   *)
LastT == Max({0} \cup {Log[n].t : n \in DOMAIN Log})
BootRows(x, b) ==
  LET query(r) == [dongle |-> 1, gen |-> b.gen, boot |-> b.boot, pids |-> Analysed, from |-> r[1],
                   to |-> r[2], tFrom |-> 0, tTo |-> LastT]
      rows == UNION {ToSet(LoadReadings(db, query(r))) : r \in ReceivedRange(db, 1, b)}
      inside(r) == x.entry = "interval" => Epoch(b, r[2]) \in x.start..(x.end - 1)
  IN  {[boot |-> b.boot, t |-> r[2], version |-> r[3]] : r \in {y \in rows : inside(y)}}

(* A boot that gives no row is no part of the trip.                        *)
Fetch(w) ==
  /\ calc[w].pc = "fetch" /\ calc[w].left # <<>>
  /\ LET b == calc[w].left[1]
         rows == BootRows(db.trips[calc[w].trip], b)
     IN  Step(w, [calc[w] EXCEPT !.left = Tail(@), !.rows = @ \cup rows,
                                 !.boots = IF rows = {} THEN @ ELSE Append(@, b)])
  /\ UNCHANGED <<db, jobs, inflight>>

Warned(x) ==
  LET us == IF x.entry = "interval" THEN UnconvertedBoots(db, 1, x.start, x.end) ELSE <<>>
  IN  [n \in DOMAIN us |-> [code |-> NoTime, boot |-> <<us[n].gen, us[n].boot>>]]

LoadUnconverted(w) ==
  /\ calc[w].pc = "fetch" /\ calc[w].left = <<>>
  /\ Step(w, [calc[w] EXCEPT !.pc = "proof", !.warnings = Warned(db.trips[calc[w].trip])])
  /\ UNCHANGED <<db, jobs, inflight>>

(* Mutant: a boot that follows is proof whatever was read.                 *)
CompleteProofAtOnce(t, boots, through) ==
  LET lasts == {boots[n].last : n \in DOMAIN boots}
  IN  lasts # {} /\ NextBootStart(db, 1, Max(lasts)) # {}

CompleteProof(t, boots, through) ==
  LET lasts == {boots[n].last : n \in DOMAIN boots}
  IN  \/ lasts # {} /\ \E next \in NextBootStart(db, 1, Max(lasts)) : next <= through
      \/ EndsWithTime(t, through)

(* Analyze passed.  The two reads of completeProof are one step: blocks    *)
(* come in order, so what it reads of the next boot does not change.       *)
ReadProof(w) ==
  /\ calc[w].pc = "proof"
  /\ LET c == calc[w]
     IN  Step(w, [c EXCEPT !.pc = "save", !.complete = CompleteProof(c.trip, c.boots, c.through)])
  /\ UNCHANGED <<db, jobs, inflight>>

(* Mutant: contiguous_seq is read after the data.                          *)
ThroughAtSave(c) == contiguous

Through(c) == c.through

Calculation(c) ==
  [first |-> IF c.boots = <<>> THEN Null ELSE Min({c.boots[n].first : n \in DOMAIN c.boots}),
   last  |-> IF c.boots = <<>> THEN Null ELSE Max({c.boots[n].last : n \in DOMAIN c.boots}),
   through |-> Through(c),
   provisional |-> ~(c.complete /\ c.warnings = <<>>),
   result |-> [parts |-> <<>>, bands |-> <<>>, events |-> <<>>, stops |-> <<>>, gears |-> <<>>,
               shifts |-> <<>>, warnings |-> c.warnings, route |-> <<>>, series |-> c.rows,
               summary |-> c.byLimit \/ c.through < db.trips[c.trip].target]]

(* Save and the commit.                                                    *)
SaveResult(w) ==
  /\ calc[w].pc = "save"
  /\ db' = Save(db, calc[w].trip, Calculation(calc[w]))
  /\ Step(w, IF calc[w].kind = "first" THEN NoCalc ELSE [NoCalc EXCEPT !.pc = "take", !.kind = "recalc"])
  /\ Leave(w)
  /\ UNCHANGED jobs

(* The analysis fails: roll back, then Fail in a transaction of its own,   *)
(* which takes the mark away, one set since the rollback too: nothing more  *)
(* is owed to the trip.                                                     *)
AnalyzeFails(w) ==
  /\ calc[w].pc = "proof" /\ <<calc[w].trip, calc[w].kind>> \in Failures
  /\ Step(w, [NoCalc EXCEPT !.pc = "fail", !.kind = calc[w].kind, !.trip = calc[w].trip])
  /\ UNCHANGED <<db, jobs, inflight>>
FailTaken(w) ==
  /\ calc[w].pc = "fail" /\ calc[w].trip \notin Locked
  /\ db' = Fail(db, calc[w].trip)
  /\ owed' = {o \in owed : o.trip # calc[w].trip}
  /\ calc' = [calc EXCEPT ![w] = NoCalc] /\ Leave(w)
  /\ UNCHANGED <<jobs, eval, prov, contiguous, quiet, late, rep, faults>>

(* ErrDatabaseBusy at any statement: roll back, the next cycle tries again. *)
DatabaseBusy(w) ==
  /\ calc[w].pc \in {"take", "progress", "proof", "save"} /\ faults.busy < MaxBusy
  /\ faults' = [faults EXCEPT !.busy = @ + 1]
  /\ calc' = [calc EXCEPT ![w] = NoCalc] /\ Leave(w)
  /\ UNCHANGED <<db, jobs, eval, prov, contiguous, quiet, late, rep, owed>>

----------------------------------------------------------------------------
(* The ticker of provisional trips.                                        *)

ProvisionalStart ==
  /\ prov = Idle
  /\ LET found == ListProvisional(db)
     IN  prov' = [pc |-> "check", mark |-> {}, clear |-> {},
                  list |-> [n \in DOMAIN found |-> [id |-> found[n].id, noTime |-> found[n].noTime,
                                                    row |-> db.trips[found[n].id]]]]
  /\ UNCHANGED <<db, jobs, inflight, eval, calc, world>>

HasTime(ref) == \E b \in FindBoot(db, 1, ref[1], ref[2]) : b.src # ""

(* checkOne, with the row of the list and the data of now.                 *)
NewData(x) ==
  /\ contiguous > x.through
  /\ \E n \in DOMAIN TripBoots(x) : TripBoots(x)[n].last > x.through
Action(p) ==
  IF Unresolved(p.row) THEN IF Resolved(db, p.id, 1, p.row.boot) # db THEN "recalc" ELSE "none"
  ELSE IF NewData(p.row) \/ \E n \in DOMAIN p.noTime : HasTime(p.noTime[n]) THEN "recalc"
  ELSE IF p.noTime = <<>> /\ CompleteProof(p.id, TripBoots(p.row), contiguous) THEN "complete"
  ELSE "none"

(* An error returns with the trips already found unmarked.                 *)
CheckOne ==
  /\ prov.pc = "check" /\ prov.list # <<>> /\ prov.clear = {}
  /\ LET p == prov.list[1]
     IN  /\ Unresolved(p.row) => p.id \notin Locked
         /\ db' = IF Unresolved(p.row) THEN Resolved(db, p.id, 1, p.row.boot) ELSE db
         /\ prov' = IF Unresolved(p.row) /\ Collides(p.id) THEN Idle
                    ELSE [prov EXCEPT !.list = Tail(@),
                                      !.mark = IF Action(p) = "recalc" THEN @ \cup {p.id} ELSE @,
                                      !.clear = IF Action(p) = "complete" THEN {p.id} ELSE {}]
  /\ UNCHANGED <<jobs, inflight, eval, calc, world>>

ProvisionalError ==
  /\ prov.pc = "check" /\ faults.busy < MaxBusy
  /\ faults' = [faults EXCEPT !.busy = @ + 1]
  /\ prov' = Idle
  /\ UNCHANGED <<db, jobs, inflight, eval, calc, contiguous, quiet, late, rep, owed>>

Clear ==
  /\ prov.pc = "check" /\ prov.clear # {} /\ prov.clear \cap Locked = {}
  /\ db' = ClearProvisional(db, CHOOSE t \in prov.clear : TRUE)
  /\ prov' = [prov EXCEPT !.clear = {}]
  /\ UNCHANGED <<jobs, inflight, eval, calc, world>>

Mark ==
  /\ prov.pc = "check" /\ prov.list = <<>> /\ prov.clear = {} /\ prov.mark \cap Locked = {}
  /\ db' = MarkRecalc(db, prov.mark)
  /\ prov' = Idle
  /\ UNCHANGED <<jobs, inflight, eval, calc, world>>

----------------------------------------------------------------------------
(* reprocess --apply over blocks from..to: one transaction that swaps the  *)
(* rows and marks the trips.  The UPDATE picks its rows from what is       *)
(* committed when it starts, waits for the ones a calculation holds and    *)
(* asks its condition again of each.                                       *)

ReprocessStart(from, to) ==
  /\ rep = Idle /\ faults.rep < MaxReprocess /\ 1 <= from /\ from <= to /\ to <= contiguous
  /\ rep' = [pc |-> "update", from |-> from, to |-> to, trips |-> Crossing(db.trips, 1, from, to)]
  /\ faults' = [faults EXCEPT !.rep = @ + 1]
  /\ UNCHANGED <<db, volatile, contiguous, quiet, late, owed>>

(* Mutant: the UPDATE does not wait for a row that is held.                *)
WaitsForNone(S) == {}

WaitsFor(S) == S \cap Locked

Shown(t) == GetTripSeries(db.gold, t)[1].line
Boots == {Log[n].boot : n \in DOMAIN Log}

ReprocessCommit ==
  /\ rep.pc = "update" /\ WaitsFor(rep.trips) = {}
  /\ LET marked == rep.trips \cap Crossing(db.trips, 1, rep.from, rep.to)
         hit(r) == r.received \in rep.from..rep.to
         new == {[r EXCEPT !.value = @ + 1] : r \in {x \in db.readings : hit(x)}}
     IN  /\ db' = [db EXCEPT !.trips = Marked(@, marked),
                             !.readings = {r \in @ : ~hit(r)} \cup new]
         /\ owed' = owed \cup {o \in [trip : rep.trips, boot : Boots, t : 0..LastT, version : 1..MaxReprocess] :
              /\ \E r \in new : r.pid \in Analysed /\ r.boot = o.boot /\ r.t = o.t /\ r.value = o.version
              /\ \E r \in Shown(o.trip) : r.boot = o.boot /\ r.t = o.t}
  /\ rep' = Idle
  /\ UNCHANGED <<volatile, contiguous, quiet, late, faults>>

----------------------------------------------------------------------------
(* The worker process dies; the next one drains recalc_pending first.      *)
Crash ==
  /\ faults.crash < MaxCrashes
  /\ faults' = [faults EXCEPT !.crash = @ + 1]
  /\ jobs' = <<>> /\ inflight' = {} /\ eval' = Idle /\ prov' = Idle
  /\ calc' = [w \in Workers |-> [NoCalc EXCEPT !.pc = "take", !.kind = "recalc"]]
  /\ UNCHANGED <<db, contiguous, quiet, late, rep, owed>>

Evaluator == EvalStart \/ EvalOne \/ EvalError \/ Dispatch \/ EvalEnd
Calculator(w) ==
  \/ TakeJob(w) \/ DrainRecalc(w) \/ Taken(w) \/ ReadProgress(w) \/ LoadBoots(w) \/ Fetch(w)
  \/ LoadUnconverted(w) \/ ReadProof(w) \/ SaveResult(w) \/ AnalyzeFails(w) \/ FailTaken(w) \/ DatabaseBusy(w)
Provisional == ProvisionalStart \/ CheckOne \/ ProvisionalError \/ Clear \/ Mark
Reprocess == ReprocessCommit \/ \E from, to \in 1..Len(Log) : ReprocessStart(from, to)
Server ==
  \/ Ingest \/ Silence \/ \E b \in DOMAIN Offset : ConvertBoot(b)
  \/ \E t \in Trips : FinalLimit(t) \/ \E head \in 0..Len(Log) : CreateTrip(t, head)

Next ==
  \/ Evaluator \/ Provisional \/ Reprocess \/ Server \/ Crash
  \/ \E w \in Workers : Calculator(w)

Spec == Init /\ [][Next]_vars

(* Tickers fire, statements return and a trip's limit comes; blocks need   *)
(* not come, nor the dongle's silence.                                     *)
FairSpec ==
  /\ Spec
  /\ WF_vars(Evaluator) /\ WF_vars(Provisional) /\ WF_vars(\E t \in Trips : FinalLimit(t))
  /\ \A w \in Workers : WF_vars(Calculator(w))

----------------------------------------------------------------------------
(* Properties.                                                             *)

TypeOK ==
  /\ DOMAIN db.trips \subseteq Trips /\ contiguous \in 0..Len(Log)
  /\ \A t \in DOMAIN db.trips :
       /\ db.trips[t].status \in {"pending", "waiting_data", "ready", "failed"}
       /\ db.trips[t].recalc \/ db.trips[t].provisional => db.trips[t].status = "ready"
  /\ inflight \subseteq Trips /\ late \subseteq Trips /\ Len(jobs) <= JobsCap
  /\ \A w \in Workers : calc[w].pc \in {"idle", "take", "progress", "boots", "fetch", "proof", "save", "fail"}

Ready(t) == t \in DOMAIN db.trips /\ db.trips[t].status = "ready"

(* What the dongle has recorded for the trip, whether it has arrived or not. *)
Wanted(t, n) ==
  LET x == db.trips[t]
  IN  /\ Log[n].pid \in Analysed
      /\ IF x.entry = "boot" THEN x.gen = 0 /\ Log[n].boot = x.boot
         ELSE \A a \in Offset[Log[n].boot] : a + Log[n].t \in x.start..(x.end - 1)
Has(t, n) == \E r \in Shown(t) : r.boot = Log[n].boot /\ r.t = Log[n].t

(* calculated_through_seq is honest: the result of a boot has every block  *)
(* up to it, however ingestion, reprocess and calculation interleave.      *)
ResultReachesThrough ==
  \A t \in Trips : Ready(t) /\ db.trips[t].entry = "boot" /\ ~db.trips[t].recalc =>
    \A n \in 1..db.trips[t].through : Wanted(t, n) => Has(t, n)

(* A trip of a boot that is no longer provisional, which nothing looks at  *)
(* again, has everything the dongle recorded in that boot.                 *)
FinalTripIsComplete ==
  \A t \in Trips : Ready(t) /\ db.trips[t].entry = "boot" /\ ~db.trips[t].provisional =>
    \A n \in DOMAIN Log : Wanted(t, n) => Has(t, n)

(* The same of a trip given by its interval, once it has no warning.       *)
FinalIntervalIsComplete ==
  \A t \in Trips : Ready(t) /\ db.trips[t].entry = "interval" /\ ~db.trips[t].provisional =>
    \A n \in DOMAIN Log : Wanted(t, n) => Has(t, n)

(* A trip shows a row that a reprocess replaced under it only while it is  *)
(* marked: the mark is not lost to a calculation that was reading the old  *)
(* rows, over boots whose time moves.  A recalculation that fails keeps    *)
(* the old result, unmarked, and ends what was owed.                       *)
ReprocessIsSeen ==
  \A o \in owed : \/ db.trips[o.trip].recalc
                  \/ \A r \in Shown(o.trip) : r.boot = o.boot /\ r.t = o.t => r.version >= o.version

(* A ready trip stays ready, and no calculation that started earlier       *)
(* replaces the result of a later one.                                     *)
ResultsOnlyAdvance ==
  [][\A t \in Trips : Ready(t) => Ready(t)' /\ db'.trips[t].through >= db.trips[t].through]_vars

(* Every trip is calculated or fails: over a full channel, jobs dropped by *)
(* a crash, busy errors and NOTIFYs that are lost.                         *)
Decided(t) == db.trips[t].status \in {"ready", "failed"}
EveryTripDecided == []<>(\A t \in DOMAIN db.trips : Decided(t))

(* Marks for recalculation do not stay: again and again none is left.      *)
MarksAreDrained == []<>(\A t \in DOMAIN db.trips : ~db.trips[t].recalc)

(* A trip of a boot that another has followed stops being provisional.     *)
Followed(t) ==
  /\ Ready(t) /\ db.trips[t].entry = "boot" /\ db.trips[t].gen # Null
  /\ \E n \in 1..contiguous : Log[n].boot > db.trips[t].boot
ProvisionalSettles == []<>(\A t \in Trips : Followed(t) => ~db.trips[t].provisional)
=============================================================================
