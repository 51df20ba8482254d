----------------------------- MODULE MCMempool -----------------------------
(***************************************************************************)
(* Mempool for TLC: the numbers of blocks.                                 *)
(***************************************************************************)
EXTENDS Mempool, TLC

ThreeAndTwo == ("big" :> 3) @@ ("small" :> 2)
=============================================================================
