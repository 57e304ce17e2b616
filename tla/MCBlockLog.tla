------------------------------ MODULE MCBlockLog ------------------------------
(* Model-checking instance of BlockLog: the constants come from the .cfg.    *)
EXTENDS BlockLog
===============================================================================
