---------------------------- MODULE MCTripAdapters ----------------------------
(* Small instances of TripAdapters: three requests of two drivers over one   *)
(* dongle, and the data of two boots on both sides of an interval.           *)
EXTENDS TripAdapters

Request(name, entry, gen, boot, start, end) ==
  [category |-> "c", name |-> name, dongle |-> 1, entry |-> entry, gen |-> gen, boot |-> boot,
   start |-> start, end |-> end, target |-> 0]

MCMaxData == <<5, 2, 1, 0>>

MCEntries == {Request("ana", "boot", 0, 1, Null, Null), Request("bia", "boot", Null, 1, Null, Null),
              Request("bia", "interval", Null, Null, 1, 3)}

Analysed(name, events, warnings, route) ==
  [parts |-> <<name>>, bands |-> <<>>, events |-> events, stops |-> <<>>, gears |-> <<name>>,
   shifts |-> <<name, name>>, summary |-> name, warnings |-> warnings, series |-> name, route |-> route]

MCResults ==
  {[first |-> 1, last |-> 1, through |-> 1, provisional |-> TRUE,
    result |-> Analysed("x", <<"e1", "e2">>, <<[code |-> NoTime, boot |-> <<0, 1>>]>>, <<>>)],
   [first |-> Null, last |-> Null, through |-> 2, provisional |-> FALSE,
    result |-> Analysed("y", <<"e3">>, <<>>, <<"p">>)]}

Boot(gen, boot, first, last, firstT, lastT, maxOff, a, src) ==
  [dongle |-> 1, gen |-> gen, boot |-> boot, first |-> first, last |-> last, firstT |-> firstT,
   lastT |-> lastT, maxOff |-> maxOff, a |-> a, slope |-> 0, src |-> src]

MCBoots == {Boot(0, 1, 1, 1, 0, 1, 1, 0, "anchors"), Boot(1, 1, 2, 3, 0, 1, 1, Null, ""),
            Boot(1, 1, 2, 3, 0, 1, 1, 2, "neighbors"), Boot(1, 2, Null, Null, Null, Null, Null, Null, ""),
            Boot(2, 3, 3, 3, 0, 0, 3, 3, "anchors")}

Block(seq, gen, boot, t0) ==
  [dongle |-> 1, seq |-> seq, gen |-> gen, boot |-> boot, t0 |-> t0, received |-> seq, marker |-> FALSE]
MCBlocks == {Block(1, 0, 1, 0), Block(2, 1, 1, 0), Block(3, 1, 1, 1)}

Reading(gen, pid, t, received) ==
  [dongle |-> 1, gen |-> gen, boot |-> 1, pid |-> pid, t |-> t, received |-> received, value |-> 10 * pid + t]
MCReadings == {Reading(0, 1, 2, 1), Reading(0, 1, 0, 2), Reading(0, 2, 1, 3)}
MCPositions == {Reading(0, 0, 3, 2), Reading(0, 0, 1, 2)}
=============================================================================
