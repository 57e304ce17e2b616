------------------------------ MODULE MCBootTime ------------------------------
(* Instances of BootTime: the time and the length of the log, the anchors of *)
(* one boot, two workers at once.                                            *)
EXTENDS BootTime
CONSTANTS w1, w2

Scope(ws, clk, n, blocks, found, failed) ==
  [workers |-> ws, clock |-> clk, boots |-> n, blocks |-> blocks, anchors |-> found, failures |-> failed]
MCScopes == {Scope({w1, w2}, 1, 2, 2, 2, 1), Scope({w1}, 2, 3, 2, 2, 0), Scope({w1}, 2, 2, 1, 3, 0), Scope({w1, w2}, 2, 3, 2, 1, 0)}

MarkScopes == {Scope({w1}, 2, 3, 3, 2, 0)}
=============================================================================
