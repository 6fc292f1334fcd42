---------------------------- MODULE MCWalletSwap ----------------------------
(***************************************************************************)
(* Instance of WalletSwap for TLC.  The taker's leg expires at 9, the      *)
(* maker's at 5, the margin is 4 and a step takes at most 2, so every      *)
(* inequality of check_timelock_gap is met at its boundary.                *)
(***************************************************************************)
EXTENDS WalletSwap

CONSTANTS ann, bob, eve, coin, s1

Leg(chain, from, to, timelock) ==
    [chain |-> chain, sender |-> from, recipient |-> to, token |-> coin,
     amount |-> 2, hashlock |-> Sha256(s1), timelock |-> timelock]

T == Leg("A", ann, bob, 9)
M == Leg("B", bob, ann, 5)

\* A leg of the taker's one second short of the margin; legs of the maker's
\* that expire too soon after the taker's first look, or pay less; a third
\* party's decoys under the same hashlock, which pay itself, one of them as
\* long as the taker's leg lasts.
ShortT == Leg("A", ann, bob, 8)
ShortM == Leg("B", bob, ann, 4)
CheapM == [M EXCEPT !.amount = 1]
Decoy  == Leg("B", eve, eve, 5)
Late   == Leg("B", eve, eve, 9)

\* Its timelock does not fit, and stops whoever polls the taker's chain.
Wide == Leg("A", eve, eve, MaxU64 + 1)

AllOthers  == {ShortT, ShortM, CheapM, Decoy, Late, Wide}
LiveOthers == {ShortT, CheapM, Late, Wide}
Everybody  == {{ann, bob}, {ann}, {bob}}
BothStarts == {"Start", "SecretGenerated"}
NoOthers   == {}
=============================================================================
