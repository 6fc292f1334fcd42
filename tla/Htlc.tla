-------------------------------- MODULE Htlc --------------------------------
(***************************************************************************)
(* The rules of contracts/src/HashedTimelock.sol, as operators on the      *)
(* stored record of one swap.  They are shared by the contract's own state *)
(* machine (HashedTimelock), by the contract that locks through it         *)
(* (Settlement) and by the two-chain swap (WalletSwap).                    *)
(*                                                                         *)
(* keccak256 of the six parameters is injective here: a contractId IS the  *)
(* record of its parameters.  SHA-256 is injective too: Sha256 wraps.      *)
(***************************************************************************)
EXTENDS Naturals

CONSTANTS
    Native,          \* address(0) in the token field: the chain's own coin
    TokenContracts,  \* addresses with code that implement ERC-20
    ZeroHash         \* bytes32(0)

Assets == {Native} \cup TokenContracts

Sha256(preimage) == [sha256 |-> preimage]

\* The stages the record under a contractId goes through.  The six parameters
\* of a stored Swap are those of its contractId; exists is sender # address(0).
NoSwap   == [exists |-> FALSE, withdrawn |-> FALSE, refunded |-> FALSE]
Locked   == [NoSwap EXCEPT !.exists = TRUE]
Redeemed == [Locked EXCEPT !.withdrawn = TRUE]
Returned == [Locked EXCEPT !.refunded = TRUE]
SwapRecords == {NoSwap, Locked, Redeemed, Returned}

Active(s) == s.exists /\ ~s.withdrawn /\ ~s.refunded

-----------------------------------------------------------------------------
\* Mutants: the id may be used again once its swap has ended; refund is open
\* to anyone; refund waits one second too many; a redeemed swap is refunded;
\* a swap is redeemed twice; a redeem at the very timelock is accepted.
MutReuseEndedId(s, id, timestamp) ==
    /\ id.amount # 0
    /\ id.hashlock # ZeroHash
    /\ timestamp < id.timelock
    /\ ~Active(s)
    /\ id.token \in Assets

MutRefundByAnyone(s, id, msgSender, timestamp) ==
    Active(s) /\ timestamp >= id.timelock

MutRefundLate(s, id, msgSender, timestamp) ==
    Active(s) /\ timestamp > id.timelock /\ msgSender = id.sender

MutRefundRedeemed(s, id, msgSender, timestamp) ==
    /\ s.exists /\ ~s.refunded
    /\ timestamp >= id.timelock
    /\ msgSender = id.sender

MutRedeemTwice(s, id, preimage, timestamp) ==
    /\ s.exists /\ ~s.refunded
    /\ timestamp < id.timelock
    /\ Sha256(preimage) = id.hashlock

MutRedeemAtTimelock(s, id, preimage, timestamp) ==
    Active(s) /\ timestamp <= id.timelock /\ Sha256(preimage) = id.hashlock

-----------------------------------------------------------------------------
\* The revert conditions of newSwap, redeem and refund, negated.  s is
\* swaps[id], and timestamp is block.timestamp.

CanNewSwap(s, id, timestamp) ==
    /\ id.amount # 0
    /\ id.hashlock # ZeroHash
    /\ timestamp < id.timelock
    /\ ~s.exists
    /\ id.token \in Assets

CanRedeem(s, id, preimage, timestamp) ==
    /\ s.exists
    /\ ~s.withdrawn
    /\ ~s.refunded
    /\ timestamp < id.timelock
    /\ Sha256(preimage) = id.hashlock

CanRefund(s, id, msgSender, timestamp) ==
    /\ s.exists
    /\ ~s.withdrawn
    /\ ~s.refunded
    /\ timestamp >= id.timelock
    /\ msgSender = id.sender

\* The write each of them makes.
AfterNewSwap(s) == Locked
AfterRedeem(s)  == [s EXCEPT !.withdrawn = TRUE]
AfterRefund(s)  == [s EXCEPT !.refunded = TRUE]
=============================================================================
