------------------------------ MODULE MCRunner ------------------------------
(***************************************************************************)
(* Instance of Runner for TLC: the legs of MCWalletSwap, the maker's in an *)
(* ERC-20 token, one good configuration and worlds, and variants of them   *)
(* with one defect each.                                                   *)
(***************************************************************************)
EXTENDS Runner, TLC

CONSTANTS ann, bob, eve, coin, tok, s1, htlcA, htlcB, setA, setB, eoa

Leg(chain, from, to, token, timelock) ==
    [chain |-> chain, sender |-> from, recipient |-> to, token |-> token,
     amount |-> 2, hashlock |-> Sha256(s1), timelock |-> timelock]

T == Leg("A", ann, bob, coin, 9)
M == Leg("B", bob, ann, tok, 5)

\* A third party's decoys under the same hashlock, on either chain, and a leg
\* of its whose amount does not fit.
Decoys == {Leg("B", eve, eve, tok, 5),
           [Leg("A", eve, bob, coin, 9) EXCEPT !.amount = 1],
           [Leg("B", eve, eve, tok, 5) EXCEPT !.amount = MaxU128 + 1]}

Good ==
    [A |-> [rpc |-> 1, chain |-> 1, htlc |-> htlcA, settlement |-> setA,
            token |-> coin, signer |-> ann, amount |-> 2],
     B |-> [rpc |-> 2, chain |-> 2, htlc |-> htlcB, settlement |-> setB,
            token |-> tok, signer |-> bob, amount |-> 2],
     confirmed |-> TRUE, minConf |-> 2, minGap |-> 4, takerLock |-> 9,
     makerLock |-> 5, maxAmount |-> 2, minGas |-> 3]

\* Chain 9 is not on the allowlist.
MCConfigs ==
    {Good,
     [Good EXCEPT !.confirmed = FALSE],
     [Good EXCEPT !.minConf = 0],
     [Good EXCEPT !.takerLock = 8],
     [Good EXCEPT !.A.amount = 0],
     [Good EXCEPT !.B.amount = 3],
     [Good EXCEPT !.B.rpc = 1, !.B.chain = 1],
     [Good EXCEPT !.A.rpc = 2],
     [Good EXCEPT !.A.rpc = 9, !.A.chain = 9],
     [Good EXCEPT !.A.htlc = eoa],
     [Good EXCEPT !.A.htlc = coin],
     [Good EXCEPT !.B.settlement = coin],
     [Good EXCEPT !.B.settlement = eoa],
     [Good EXCEPT !.B.token = eoa]}

Rich ==
    [code |-> [c \in {1, 2, 9} |->
                 IF c = 1 THEN {htlcA, setA} ELSE IF c = 2 THEN {htlcB, setB, tok} ELSE {}],
     htlcOf |-> (setA :> htlcA @@ setB :> htlcB @@ eoa :> eoa),
     wei |-> (ann :> (1 :> 5 @@ 2 :> 3 @@ 9 :> 0) @@ bob :> (1 :> 3 @@ 2 :> 3 @@ 9 :> 0)),
     tokens |-> (ann :> 0 @@ bob :> 2)]

\* Wrong canonical HTLC; coins for the lock but not for its refund; no gas on
\* the other chain; too few tokens.
MCWorlds ==
    {Rich,
     [Rich EXCEPT !.htlcOf[setA] = htlcB],
     [Rich EXCEPT !.wei[ann][1] = 3],
     [Rich EXCEPT !.wei[ann][2] = 0],
     [Rich EXCEPT !.wei[bob][1] = 0],
     [Rich EXCEPT !.tokens[bob] = 1]}

BothParties == {{ann, bob}}
RunnersTaker == {"SecretGenerated"}
=============================================================================
