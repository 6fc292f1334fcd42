------------------------------- MODULE Verify -------------------------------
(***************************************************************************)
(* swapkit/src/verify.rs: when a wallet takes the counterparty's leg for   *)
(* safe.  The reasons for refusing a leg are not told apart: the state     *)
(* machine treats all of them alike.                                       *)
(***************************************************************************)
EXTENDS Widths

\* saturating_add of two u64
SatAdd(a, b) == IF a + b > MaxU64 THEN MaxU64 ELSE a + b

\* Mutants: no margin between the two legs; the clock is not looked at.
MutNoGap(my, opp, gap, now, role) ==
    /\ role = "Maker" => my < opp
    /\ role = "Taker" => opp < my
    /\ SatAdd(now, gap) <= opp

MutNoClock(my, opp, gap, now, role) ==
    /\ role = "Maker" => my < opp /\ SatAdd(my, gap) <= opp
    /\ role = "Taker" => opp < my /\ SatAdd(opp, gap) <= my

\* check_timelock_gap: the maker's leg must expire before the taker's, gap
\* apart, and the counterparty's leg not within gap from now.
TimelockGapOk(my, opp, gap, now, role) ==
    /\ role = "Maker" => my < opp /\ SatAdd(my, gap) <= opp
    /\ role = "Taker" => opp < my /\ SatAdd(opp, gap) <= my
    /\ SatAdd(now, gap) <= opp

\* Mutant: whom the leg pays is not checked.
MutAnyRecipient(expected, lock) ==
    /\ lock.hashlock = expected.hashlock
    /\ lock.token = expected.token
    /\ lock.amount = expected.amount
    /\ TimelockGapOk(expected.myTimelock, lock.timelock, expected.minGap,
                     expected.now, expected.role)

\* verify_counterparty_leg = Safe.  The caller passes only active locks, so
\* exists is true of every lock here.
Safe(expected, lock) ==
    /\ lock.hashlock = expected.hashlock
    /\ lock.token = expected.token
    /\ lock.amount = expected.amount
    /\ lock.recipient = expected.recipient
    /\ TimelockGapOk(expected.myTimelock, lock.timelock, expected.minGap,
                     expected.now, expected.role)
=============================================================================
