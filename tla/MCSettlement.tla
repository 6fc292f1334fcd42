---------------------------- MODULE MCSettlement ----------------------------
(***************************************************************************)
(* Instance of Settlement for TLC: two makers with equal or different      *)
(* orders, a taker without one, a token besides the native coin, an        *)
(* address without code in the token field, one order of another chain,    *)
(* one without a valid signature, one that expires.                        *)
(***************************************************************************)
EXTENDS Settlement

CONSTANTS ann, bob, kael, htlc, coin, tok, eoa, s1

\* Ann's two orders share a nonce; bob's equals ann's first in all but maker.
Ann1 == [maker |-> ann, sellToken |-> coin, sellChainId |-> 1,
         sellAmount |-> 1, validUntil |-> 1, nonce |-> 7]
Ann2 == [Ann1 EXCEPT !.sellToken = tok]
Bob1 == [Ann1 EXCEPT !.maker = bob]
Abroad == [Bob1 EXCEPT !.sellChainId = 2, !.nonce = 8]
Forged == [Ann2 EXCEPT !.maker = bob, !.nonce = 8]
NoCode == [Ann1 EXCEPT !.sellToken = eoa, !.nonce = 8]

MCSigned == {Ann1, Ann2, Bob1, Abroad, NoCode}
MCOrders == MCSigned \cup {Forged}

Id(from, to, token, timelock) ==
    [sender |-> from, recipient |-> to, token |-> token, amount |-> 1,
     hashlock |-> Sha256(s1), timelock |-> timelock]

\* Legs of both timelocks, one paying Settlement itself, one of a token
\* without code; swaps locked in the HTLC directly; a zero amount.
MCIds == {Id(kael, bob, coin, 1), Id(kael, ann, coin, 2), Id(kael, bob, tok, 2),
          Id(kael, kael, coin, 2), Id(kael, ann, eoa, 2),
          Id(ann, bob, coin, 2), Id(bob, kael, tok, 1),
          [Id(ann, bob, coin, 1) EXCEPT !.amount = 0]}

\* Fewer ids, for the run that looks for a counterexample.
FewIds == {Id(kael, bob, coin, 1), Id(kael, ann, coin, 2), Id(kael, bob, tok, 2)}
=============================================================================
