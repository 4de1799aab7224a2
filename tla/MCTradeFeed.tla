---------------------------- MODULE MCTradeFeed ----------------------------
(***************************************************************************)
(* TradeFeed with a pool no larger than the ring.                          *)
(***************************************************************************)
EXTENDS TradeFeed, TLC

\* Slots are interchangeable: sound for the invariants, not for CatchesUp.
SlotSymmetry == Permutations(Slots)
=============================================================================
