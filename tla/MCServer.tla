------------------------------- MODULE MCServer -------------------------------
(* Instances of Server: t_ms wraps, boot_id wraps, blocks are damaged, the   *)
(* log overflows, several challenges at once; and the calls of the worker.   *)
EXTENDS WorkerAdapters

Bound(boots, log, clk, asked, served, batches, refused, discarded, ahead) ==
  [boots |-> boots, log |-> log, clock |-> clk, issued |-> asked, calls |-> served, batches |-> batches,
   refused |-> refused, discarded |-> discarded, ahead |-> ahead, rows |-> ""]
MCBounds == {Bound(1, 4, 22, 1, 2, 1, 0, 0, 0), Bound(3, 4, 1, 2, 1, 1, 0, 0, 0), Bound(3, 5, 1, 1, 1, 1, 0, 0, 0),
             Bound(1, 3, 1, 1, 2, 1, 1, 0, 0), Bound(1, 2, 1, 1, 2, 2, 1, 0, 0),
             Bound(2, 3, 1, 2, 2, 1, 0, 1, 0), Bound(2, 3, 1, 1, 2, 2, 0, 1, 0), Bound(2, 2, 1, 2, 2, 2, 0, 1, 0),
             Bound(1, 1, 15, 2, 2, 1, 0, 0, 7),
             [Bound(1, 1, 5, 0, 0, 0, 0, 0, 0) EXCEPT !.rows = "boots"],
             [Bound(1, 1, 4, 0, 0, 0, 0, 0, 0) EXCEPT !.rows = "lists"],
             [Bound(1, 1, 1, 0, 0, 0, 0, 0, 0) EXCEPT !.rows = "blocks"]}

Row(gen, boot, first, firstT) ==
  [NewBoot(1, gen, boot, 0) EXCEPT !.first = first, !.last = first, !.firstT = firstT, !.lastT = firstT]
MCRows == {Row(0, 1, 1, 0), Row(0, 2, 2, 0), Row(1, 1, 3, 0)}
MCAnchors == {[dongle |-> 1, gen |-> 0, boot |-> 1, t |-> t, nonce |-> t, s1 |-> t, s2 |-> t] : t \in {1, 2}}
Time(src, a) == [a |-> a, slope |-> a, unc |-> a, src |-> src]
MCEstimates == {[est |-> Time("anchors", 1), groups |-> <<"g">>],
                [est |-> NoEstimate, groups |-> <<>>]}
MCBlocks == {[dongle |-> 1, seq |-> q, marker |-> "", t0 |-> q, received |-> q] : q \in 1..3}
=============================================================================
