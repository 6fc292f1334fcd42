----------------------------- MODULE Settlement -----------------------------
(***************************************************************************)
(* contracts/src/Settlement.sol on top of the contract it locks through:   *)
(* signed orders, nonces and the legs mapping, with the nested calls into  *)
(* HashedTimelock as part of each action.  The EVM runs one transaction at *)
(* a time, so an action is a whole transaction; accounts also call         *)
(* HashedTimelock directly, which the contract cannot prevent.             *)
(***************************************************************************)
EXTENDS HashedTimelock

CONSTANTS
    Orders,       \* OrderLib.Order values, the fields the contract reads
    SignedOrders, \* those whose signature OrderLib.verify accepts
    ChainId,      \* block.chainid
    NoOne,        \* address(0) in legs[id].maker
    NoOrder       \* history value: id was not locked through an order

Nonces == {o.nonce : o \in Orders}

\* Under Settlement the HTLC's sender is always this contract, so the maker
\* is not part of the id.
LegIds == {id \in Ids : id.sender = SettlementAddr}

NoLeg == [maker |-> NoOne, token |-> Native, amount |-> 0, refunded |-> FALSE]

LegRecord == [maker : Accounts \cup {NoOne}, token : Tokens,
              amount : Nat, refunded : BOOLEAN]

ASSUME SettlementConstants ==
    /\ Orders \subseteq [maker : Accounts, sellToken : Tokens,
                         sellChainId : Nat, sellAmount : Nat,
                         validUntil : Nat, nonce : Nat]
    /\ SignedOrders \subseteq Orders
    /\ NoOne \notin Addresses
    /\ NoOrder \notin Orders

VARIABLES
    consumedNonce,  \* maker -> nonce -> used
    legs,           \* contractId -> refund record
    lockedBy        \* history: the order settleLeg locked this id for

settlementVars == <<consumedNonce, legs, lockedBy>>
vars == <<swaps, balance, timestamp, consumedNonce, legs, lockedBy>>

-----------------------------------------------------------------------------
\* OrderLib.verify; a signature of the maker's is abstracted to membership.
VerifyOrder(order, nowTs) ==
    /\ order \in SignedOrders
    /\ nowTs <= order.validUntil

\* Mutant: a spent nonce is accepted again.
MutNonceNotChecked(order) == TRUE

NonceFresh(order) == ~consumedNonce[order.maker][order.nonce]

ConsumeNonce(order) ==
    consumedNonce' = [consumedNonce EXCEPT ![order.maker][order.nonce] = TRUE]

\* Any caller, and nowTs is the caller's argument, not block.timestamp.
AuthorizeLeg(order, nowTs) ==
    /\ VerifyOrder(order, nowTs)
    /\ NonceFresh(order)
    /\ ConsumeNonce(order)
    /\ UNCHANGED <<htlcVars, legs, lockedBy>>

LegId(order, recipient, hashlock, timelock) ==
    [sender |-> SettlementAddr, recipient |-> recipient,
     token |-> order.sellToken, amount |-> order.sellAmount,
     hashlock |-> hashlock, timelock |-> timelock]

\* _receiveAndLock: pull from the maker into this contract, then newSwap,
\* which pulls from this contract into the HTLC.
ReceiveAndLock(order, id) ==
    /\ CanNewSwap(swaps[id], id, timestamp)
    /\ balance[id.token][order.maker] >= order.sellAmount
    /\ swaps' = [swaps EXCEPT ![id] = AfterNewSwap(@)]
    /\ balance' = Transfer(Transfer(balance, order.sellToken, order.maker,
                                    SettlementAddr, order.sellAmount),
                           id.token, SettlementAddr, HtlcAddr, id.amount)
    /\ UNCHANGED timestamp

\* The order, its caller and its nonce; the recipient, hashlock and timelock of
\* the leg are the caller's arguments.
CanSettleLeg(msgSender, order, id) ==
    /\ id = LegId(order, id.recipient, id.hashlock, id.timelock)
    /\ VerifyOrder(order, timestamp)
    /\ order.sellChainId = ChainId
    /\ msgSender = order.maker
    /\ NonceFresh(order)

SettleLeg(msgSender, order, id) ==
    /\ CanSettleLeg(msgSender, order, id)
    /\ ConsumeNonce(order)
    /\ legs' = [legs EXCEPT ![id] =
                   [maker |-> order.maker, token |-> order.sellToken,
                    amount |-> order.sellAmount, refunded |-> FALSE]]
    /\ lockedBy' = [lockedBy EXCEPT ![id] = order]
    /\ ReceiveAndLock(order, id)

\* Mutant: the maker, not this contract, is taken for the HTLC's sender.
MutRefundAsMaker(id) ==
    /\ legs[id].maker # NoOne
    /\ ~legs[id].refunded
    /\ CanRefund(swaps[id], id, legs[id].maker, timestamp)

\* The refund HashedTimelock pays to this contract, then the transfer to the
\* recorded maker; either of them reverting reverts the whole transaction.
Received(id) ==
    Transfer(balance, id.token, HtlcAddr, SettlementAddr, id.amount)

CanRefundLeg(id) ==
    LET leg == legs[id]
    IN  /\ leg.maker # NoOne
        /\ ~leg.refunded
        /\ CanRefund(swaps[id], id, SettlementAddr, timestamp)
        /\ balance[id.token][HtlcAddr] >= id.amount
        /\ Received(id)[leg.token][SettlementAddr] >= leg.amount
        /\ CanReceive(leg.token, leg.maker)

\* Mutant: the refund is not forwarded to the maker.
MutRefundKept(id) ==
    /\ CanRefundLeg(id)
    /\ legs' = [legs EXCEPT ![id].refunded = TRUE]
    /\ swaps' = [swaps EXCEPT ![id] = AfterRefund(@)]
    /\ balance' = Received(id)
    /\ UNCHANGED <<timestamp, consumedNonce, lockedBy>>

RefundLeg(id) ==
    LET leg == legs[id]
    IN  /\ CanRefundLeg(id)
        /\ legs' = [legs EXCEPT ![id].refunded = TRUE]
        /\ swaps' = [swaps EXCEPT ![id] = AfterRefund(@)]
        /\ balance' = Transfer(Received(id), leg.token, SettlementAddr,
                               leg.maker, leg.amount)
        /\ UNCHANGED <<timestamp, consumedNonce, lockedBy>>

\* receive(), and plain token transfers: units nobody can ever move again.
Donate(from, token) ==
    /\ balance[token][from] >= 1
    /\ balance' = Transfer(balance, token, from, SettlementAddr, 1)
    /\ UNCHANGED <<swaps, timestamp, settlementVars>>

Init ==
    /\ HtlcInit
    /\ consumedNonce = [m \in Accounts |-> [n \in Nonces |-> FALSE]]
    /\ legs = [id \in LegIds |-> NoLeg]
    /\ lockedBy = [id \in LegIds |-> NoOrder]

Next ==
    \/ AccountCalls /\ UNCHANGED settlementVars
    \/ Tick /\ UNCHANGED settlementVars
    \/ \E o \in SignedOrders, ts \in 0..MaxTime : AuthorizeLeg(o, ts)
    \/ \E a \in Accounts, o \in Orders, id \in LegIds : SettleLeg(a, o, id)
    \/ \E id \in LegIds : RefundLeg(id)
    \/ \E a \in Accounts, t \in Assets : Donate(a, t)

Spec == Init /\ [][Next]_vars

\* Time passes, and somebody - anybody may - calls refundLeg when it would
\* succeed (Settlement.sol:193).
FairSpec ==
    /\ Spec
    /\ WF_vars(Tick /\ UNCHANGED settlementVars)
    /\ \A id \in LegIds : WF_vars(RefundLeg(id))

-----------------------------------------------------------------------------
\* Types of all six variables.
TypeOK ==
    /\ HtlcTypeOK
    /\ consumedNonce \in [Accounts -> [Nonces -> BOOLEAN]]
    /\ legs \in [LegIds -> LegRecord]
    /\ lockedBy \in [LegIds -> SignedOrders \cup {NoOrder}]

\* The two contracts agree on every leg: Settlement has a refund record
\* exactly for the swaps the HTLC holds under its address, for the very token
\* and amount the HTLC will return, and refunded on both sides or on neither.
\* settleLeg writes legs before newSwap, refundLeg before refund.
LegMatchesSwap ==
    \A id \in LegIds :
        /\ legs[id].maker # NoOne <=> swaps[id].exists
        /\ swaps[id].exists =>
               /\ legs[id].token = id.token
               /\ legs[id].amount = id.amount
        /\ legs[id].refunded <=> swaps[id].refunded

\* "Settlement nonces cannot be replayed": at most one leg is ever locked for
\* a (maker, nonce), it was locked under a signed order of that maker for this
\* chain, and the nonce is spent.
OneLegPerNonce ==
    \A id \in LegIds :
        lockedBy[id] # NoOrder =>
            /\ consumedNonce[lockedBy[id].maker][lockedBy[id].nonce]
            /\ lockedBy[id].maker = legs[id].maker
            /\ lockedBy[id].sellChainId = ChainId
            /\ \A other \in LegIds \ {id} :
                   lockedBy[other] # NoOrder =>
                       \/ lockedBy[other].maker # lockedBy[id].maker
                       \/ lockedBy[other].nonce # lockedBy[id].nonce

\* No leg is ever stuck: whatever accounts did before, once a leg that was
\* not redeemed reaches its timelock the whole of refundLeg would succeed.
UnredeemedIsRefundable ==
    \A id \in LegIds :
        /\ legs[id].maker # NoOne
        /\ ~legs[id].refunded
        /\ ~swaps[id].withdrawn
        /\ timestamp >= id.timelock
        => CanRefundLeg(id)

\* "Settlement orders bind ... recipient, hashlock, timelock"
\* (SECURITY_INVARIANTS.md): one signed order can be settled for one leg only,
\* as it would if the signature covered them.
OrderBindsLeg ==
    \A o \in SignedOrders, id \in LegIds, other \in LegIds :
        CanSettleLeg(o.maker, o, id) /\ CanSettleLeg(o.maker, o, other) =>
            id = other

\* Settlement keeps nothing of a leg: a transaction that writes a leg leaves
\* the balance of the contract as it was, and no transaction lowers it, so
\* units donated to it do not leak into a refund either.
KeepsNothing ==
    [][\A t \in Assets :
          /\ legs' # legs => balance'[t][SettlementAddr] = balance[t][SettlementAddr]
          /\ balance'[t][SettlementAddr] >= balance[t][SettlementAddr]]_vars

\* "refund ALWAYS goes here": the maker recorded for a leg is never replaced,
\* even by a settleLeg of another maker with the same parameters, and a
\* refunded leg is never reopened.
LegOwnerIsFixed ==
    [][\A id \in LegIds :
          legs[id].maker # NoOne =>
              /\ legs'[id].maker = legs[id].maker
              /\ legs[id].refunded => legs'[id].refunded]_vars

-----------------------------------------------------------------------------
\* The abstract agreement behind each contractId.
Stage(id) ==
    IF ~swaps[id].exists THEN "none"
    ELSE IF swaps[id].withdrawn THEN "released"
    ELSE IF swaps[id].refunded THEN "returned"
    ELSE "locked"

Owner(id) ==
    IF id.sender = SettlementAddr THEN legs[id].maker
    ELSE IF swaps[id].exists THEN id.sender ELSE NoOne

Agreement == INSTANCE Escrow WITH
    Agreements <- Ids, Parties <- Senders, LastTime <- MaxTime,
    stage <- [id \in Ids |-> Stage(id)],
    owner <- [id \in Ids |-> Owner(id)],
    funds <- [t \in Assets |-> [a \in Senders |-> balance[t][a]]],
    clock <- timestamp

\* Both contracts together implement the abstract agreement: nobody gains or
\* loses a unit except by its terms, whichever contract was called and
\* whoever called it.
ImplementsEscrow == Agreement!EscrowSpec

\* Every leg ends: redeemed by its recipient or refunded to its maker.
LegEnds ==
    \A id \in LegIds :
        swaps[id].exists ~> (swaps[id].withdrawn \/ swaps[id].refunded)
=============================================================================
