---------------------------- MODULE MCProcessRun ----------------------------
(* Small instances of ProcessRun for TLC.                                  *)
EXTENDS ProcessRun, TLC

(* A head of one byte and a tail of three, filled and overflowing on       *)
(* stdout; stderr only has to be able to block its writer.                 *)
SmallOutput == [s \in Streams |-> IF s = "stdout" THEN 5 ELSE 1]
TinyOutput == [s \in Streams |-> IF s = "stdout" THEN 1 ELSE 2]
=============================================================================
