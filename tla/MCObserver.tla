----------------------------- MODULE MCObserver -----------------------------
(***************************************************************************)
(* Instance of Observer for TLC: reorganisations of one block, two         *)
(* confirmations, the right leg and another one under the same hashlock    *)
(* that expires in time to be refunded, and one whose timelock does not    *)
(* fit.                                                                    *)
(***************************************************************************)
EXTENDS Observer

CONSTANTS ann, bob, coin, s1

Right == [sender |-> ann, recipient |-> bob, token |-> coin, amount |-> 2,
          hashlock |-> Sha256(s1), timelock |-> 4]
Other == [Right EXCEPT !.timelock = 2]
Wide  == [Right EXCEPT !.timelock = MaxU64 + 1]

MCIds == {Right, Other, Wide}
=============================================================================
