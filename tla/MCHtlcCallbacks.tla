-------------------------- MODULE MCHtlcCallbacks --------------------------
(***************************************************************************)
(* Instance of HtlcCallbacks for TLC: two accounts locking for each other  *)
(* and for the contract itself, in the native coin, a plain token and one  *)
(* that calls back; a hashlock and an amount the contract refuses.         *)
(***************************************************************************)
EXTENDS HtlcCallbacks

CONSTANTS ann, bob, kael, htlc, coin, tok, hook, s1, s2

Id(from, to, token, amount, hashlock, timelock) ==
    [sender |-> from, recipient |-> to, token |-> token, amount |-> amount,
     hashlock |-> hashlock, timelock |-> timelock]

MCIds == {Id(ann, bob, coin, 2, Sha256(s2), 2),
          Id(bob, htlc, coin, 1, Sha256(s1), 2),
          Id(ann, bob, tok, 1, Sha256(s1), 1),
          Id(ann, bob, hook, 1, Sha256(s1), 2),
          Id(bob, htlc, hook, 1, Sha256(s2), 1),
          Id(ann, bob, coin, 0, Sha256(s1), 2),
          Id(bob, ann, coin, 1, ZeroHash, 2)}
=============================================================================
