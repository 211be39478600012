----------------------------- MODULE MCTestMode -----------------------------
(* A small instance of TestMode for TLC.                                   *)
EXTENDS TestMode, TLC

(* A whole file that holds other bits in the byte and beside it, a file    *)
(* that ends before the byte, an empty one, and none.                      *)
MCNvsFiles ==
  {[size |-> 4096, data |-> (0 :> {1}) @@ (127 :> {0}) @@ (128 :> {1}) @@ (129 :> {0, 1})],
   [size |-> 100, data |-> (0 :> {0, 1})], [size |-> 0, data |-> << >>],
   NoFile}
=============================================================================
