----------------------------- MODULE MCTripWorker -----------------------------
(* Small instances of TripWorker: a trip of a boot, two of them of which one *)
(* was created before its boot came, that one alone with a boot on each side  *)
(* of its own, and one of an interval over two boots.                        *)
EXTENDS TripWorker

OfBoot(name, b) ==
  [category |-> "c", name |-> name, dongle |-> 1, entry |-> "boot", gen |-> Null, boot |-> b,
   start |-> Null, end |-> Null, target |-> 0]
OfInterval(name, from, to) ==
  [category |-> "c", name |-> name, dongle |-> 1, entry |-> "interval", gen |-> Null, boot |-> Null,
   start |-> from, end |-> to, target |-> 0]
Block(b, t, pid) == [boot |-> b, t |-> t, pid |-> pid]

MCBootTrip == 1 :> OfBoot("ana", 1)
MCTwoTrips == 1 :> OfBoot("ana", 1) @@ 2 :> OfBoot("bia", 2)
MCEarlyTrip == 1 :> OfBoot("ana", 2)
MCIntervalTrip == 1 :> OfInterval("ana", 0, 3)
MCEitherTrip == 1 :> OfBoot("ana", 1) @@ 2 :> OfInterval("ana", 0, 2)

MCLog == <<Block(1, 0, 1), Block(1, 1, 1), Block(2, 0, 1)>>
MCShortLog == <<Block(1, 0, 1), Block(2, 0, 1)>>
MCThreeBoots == <<Block(1, 0, 1), Block(2, 0, 1), Block(3, 0, 1)>>
MCLastBoot == 2 :> {0}
MCMovingBoot == 1 :> {0, 2}
MCBothBoots == 1 :> {0} @@ 2 :> {2}
MCNoBoot == <<>>
MCFailures == {<<2, "first">>}
MCRecalcFails == {<<1, "recalc">>}
AnyWorker == Permutations(Workers)
=============================================================================
