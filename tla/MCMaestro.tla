----------------------------- MODULE MCMaestro -----------------------------
(***************************************************************************)
(* Instance of Maestro for TLC: a swap's two legs, a leg on the second     *)
(* chain whose contractId is that of the first one's, and one whose        *)
(* timelock does not fit.                                                  *)
(***************************************************************************)
EXTENDS Maestro

CONSTANTS ann, bob, coin, s1

T == [sender |-> ann, recipient |-> bob, token |-> coin, amount |-> 2,
      hashlock |-> Sha256(s1), timelock |-> 2]
M == [T EXCEPT !.sender = bob, !.recipient = ann, !.timelock = 1]
Wide == [T EXCEPT !.timelock = MaxU64 + 1]

MCLegs == {<<"A", T>>, <<"B", M>>, <<"B", T>>, <<"A", Wide>>}
=============================================================================
