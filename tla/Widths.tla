------------------------------- MODULE Widths -------------------------------
(***************************************************************************)
(* The widths of the Rust programs' integers.  The contracts' are uint256  *)
(* and newSwap has no upper bound on amount or timelock, so a leg that     *)
(* anybody may lock need not fit.                                          *)
(***************************************************************************)
EXTENDS Naturals

CONSTANTS
    MaxU64,    \* u64::MAX, of timelocks and clocks
    MaxU128    \* u128::MAX, of amounts

ASSUME MaxU64Assumption == MaxU64 \in Nat
ASSUME MaxU128Assumption == MaxU128 \in Nat

\* ev.timelock.to::<u64>() and ev.amount.to::<u128>() return: they are the
\* identity on what fits and panic on what does not.
Fits(id) == id.timelock <= MaxU64 /\ id.amount <= MaxU128
=============================================================================
