-------------------------- MODULE SettlementProofs --------------------------
(***************************************************************************)
(* Theorems about Settlement and the HashedTimelock it locks through, for  *)
(* any accounts, tokens, orders, ids and bounds.                           *)
(*                                                                         *)
(* IInv, the inductive invariant, is TypeOK, LegMatchesSwap and            *)
(* OneLegPerNonce together.  What a transaction does to the records, to    *)
(* the balances and to the refund records is stated as lemmas first.       *)
(***************************************************************************)
EXTENDS Settlement, HashedTimelockProofs

IInv == TypeOK /\ LegMatchesSwap /\ OneLegPerNonce

-----------------------------------------------------------------------------

-----------------------------------------------------------------------------
\* What settleLeg knows of the leg it locks.
LEMMA SettledLeg ==
    ASSUME NEW a, NEW order \in Orders, NEW id \in LegIds,
           SettleLeg(a, order, id)
    PROVE  /\ id \in Ids /\ id.sender = SettlementAddr
           /\ id.token = order.sellToken /\ id.amount = order.sellAmount
           /\ id.token \in Assets /\ order.sellAmount \in Nat
           /\ order.maker \in Accounts /\ order.maker # NoOne
           /\ order.sellToken \in Tokens /\ order.nonce \in Nonces
           /\ order \in SignedOrders /\ order # NoOrder
           /\ ~swaps[id].exists
BY SettlementConstants, HtlcConstants
   DEF SettleLeg, CanSettleLeg, VerifyOrder, LegId, LegIds, ReceiveAndLock,
       CanNewSwap, Nonces, Addresses, Senders

\* The maker's units pass through Settlement within the one transaction.
LEMMA SettleLegBalance ==
    ASSUME TypeOK, NEW a, NEW order \in Orders, NEW id \in LegIds,
           SettleLeg(a, order, id)
    PROVE  balance' \in [Assets -> [Addresses -> Nat]]
<1> DEFINE bal == Transfer(balance, order.sellToken, order.maker,
                           SettlementAddr, order.sellAmount)
<1>1. order.maker \in Addresses /\ SettlementAddr \in Addresses
      /\ HtlcAddr \in Addresses /\ order.maker # SettlementAddr
  BY SettledLeg, HtlcConstants DEF Addresses, Senders
<1>2. balance \in [Assets -> [Addresses -> Nat]]
      /\ balance[id.token][order.maker] >= order.sellAmount
  BY DEF TypeOK, HtlcTypeOK, SettleLeg, ReceiveAndLock
<1>3. bal \in [Assets -> [Addresses -> Nat]]
  BY <1>1, <1>2, SettledLeg, TransferType
<1>4. bal[id.token][SettlementAddr] >= id.amount
  <2>1. bal[id.token][SettlementAddr]
            = balance[id.token][SettlementAddr] + order.sellAmount
    BY <1>1, <1>2, SettledLeg DEF Transfer
  <2>2. balance[id.token][SettlementAddr] \in Nat
    BY <1>1, <1>2, SettledLeg
  <2> QED BY <2>1, <2>2, SettledLeg
<1>5. balance' = Transfer(bal, id.token, SettlementAddr, HtlcAddr, id.amount)
  BY DEF SettleLeg, ReceiveAndLock
<1> HIDE DEF bal
<1> QED BY <1>1, <1>3, <1>4, <1>5, SettledLeg, TransferType

LEMMA SettleLegType ==
    ASSUME TypeOK, NEW a, NEW order \in Orders, NEW id \in LegIds,
           SettleLeg(a, order, id)
    PROVE  TypeOK'
<1>1. swaps' \in [Ids -> SwapRecords]
  BY SettledLeg, RecordWrites DEF TypeOK, HtlcTypeOK, SettleLeg, ReceiveAndLock
<1>2. HtlcTypeOK'
  BY <1>1, SettleLegBalance DEF TypeOK, HtlcTypeOK, SettleLeg, ReceiveAndLock
<1>3. consumedNonce' \in [Accounts -> [Nonces -> BOOLEAN]]
  BY SettledLeg DEF TypeOK, SettleLeg, ConsumeNonce
<1>4. legs' \in [LegIds -> LegRecord]
  BY SettledLeg DEF TypeOK, SettleLeg, LegRecord
<1>5. lockedBy' \in [LegIds -> SignedOrders \cup {NoOrder}]
  BY SettledLeg DEF TypeOK, SettleLeg
<1> QED BY <1>2, <1>3, <1>4, <1>5 DEF TypeOK

\* What refundLeg knows of the leg it refunds.
LEMMA RefundableLeg ==
    ASSUME TypeOK, NEW id \in LegIds, CanRefundLeg(id)
    PROVE  /\ id \in Ids /\ legs[id] \in LegRecord
           /\ legs[id].maker \in Accounts
           /\ swaps[id] = Locked /\ AfterRefund(swaps[id]) = Returned
BY RecordWrites
   DEF CanRefundLeg, CanRefund, Active, TypeOK, HtlcTypeOK, LegIds, LegRecord

LEMMA RefundLegType ==
    ASSUME TypeOK, NEW id \in LegIds, RefundLeg(id)
    PROVE  TypeOK'
<1>1. CanRefundLeg(id)
  BY DEF RefundLeg
<1>2. SettlementAddr \in Addresses /\ HtlcAddr \in Addresses
      /\ legs[id].maker \in Addresses /\ legs[id].amount \in Nat
  BY <1>1, RefundableLeg DEF Addresses, Senders, LegRecord
<1>3. Received(id) \in [Assets -> [Addresses -> Nat]]
  BY <1>1, <1>2, RefundableLeg, IdFields, TransferType
     DEF TypeOK, HtlcTypeOK, CanRefundLeg, Received
<1>4. balance' \in [Assets -> [Addresses -> Nat]]
  BY <1>1, <1>2, <1>3, TransferType DEF CanRefundLeg, RefundLeg
<1>5. swaps' \in [Ids -> SwapRecords]
  BY <1>1, RefundableLeg DEF TypeOK, HtlcTypeOK, RefundLeg, SwapRecords
<1>6. legs' \in [LegIds -> LegRecord]
  BY <1>1, RefundableLeg DEF TypeOK, RefundLeg, LegRecord
<1> QED BY <1>4, <1>5, <1>6 DEF TypeOK, HtlcTypeOK, RefundLeg

LEMMA AuthorizeLegType ==
    ASSUME TypeOK, NEW order \in SignedOrders, NEW ts, AuthorizeLeg(order, ts)
    PROVE  TypeOK'
BY DEF TypeOK, HtlcTypeOK, AuthorizeLeg, ConsumeNonce, htlcVars

LEMMA DonateType ==
    ASSUME TypeOK, NEW a \in Accounts, NEW t \in Assets, Donate(a, t)
    PROVE  TypeOK'
<1>1. balance' \in [Assets -> [Addresses -> Nat]]
  BY TransferType DEF TypeOK, HtlcTypeOK, Donate, Addresses, Senders
<1> QED BY <1>1 DEF TypeOK, HtlcTypeOK, Donate, settlementVars

\* Every transaction keeps the types of all six variables.
LEMMA NextType ==
    ASSUME TypeOK, [Next]_vars
    PROVE  TypeOK'
<1>1. CASE AccountCalls /\ UNCHANGED settlementVars
  <2>1. HtlcTypeOK'
    BY <1>1, NewSwapType, RedeemType, RefundType DEF AccountCalls, TypeOK
  <2> QED BY <1>1, <2>1 DEF TypeOK, settlementVars
<1>2. CASE Tick /\ UNCHANGED settlementVars
  BY <1>2, TickType DEF TypeOK, settlementVars
<1>3. ASSUME NEW o \in SignedOrders, NEW ts \in 0..MaxTime, AuthorizeLeg(o, ts)
      PROVE  TypeOK'
  BY <1>3, AuthorizeLegType
<1>4. ASSUME NEW a \in Accounts, NEW o \in Orders, NEW id \in LegIds,
             SettleLeg(a, o, id)
      PROVE  TypeOK'
  BY <1>4, SettleLegType
<1>5. ASSUME NEW id \in LegIds, RefundLeg(id)
      PROVE  TypeOK'
  BY <1>5, RefundLegType
<1>6. ASSUME NEW a \in Accounts, NEW t \in Assets, Donate(a, t)
      PROVE  TypeOK'
  BY <1>6, DonateType
<1>7. CASE UNCHANGED vars
  BY <1>7 DEF TypeOK, HtlcTypeOK, vars
<1> QED BY <1>1, <1>2, <1>3, <1>4, <1>5, <1>6, <1>7 DEF Next

-----------------------------------------------------------------------------
\* Donations, spent nonces and the HTLC calls of accounts leave Settlement's
\* legs and the records of its swaps as they are; a redeem may end one.
LEMMA OthersKeepLegs ==
    ASSUME TypeOK,
           \/ AccountCalls /\ UNCHANGED settlementVars
           \/ Tick /\ UNCHANGED settlementVars
           \/ \E o \in SignedOrders, ts \in 0..MaxTime : AuthorizeLeg(o, ts)
           \/ \E a \in Accounts, t \in Assets : Donate(a, t)
           \/ UNCHANGED vars
    PROVE  /\ legs' = legs /\ lockedBy' = lockedBy
           /\ \A id \in LegIds :
                  /\ swaps'[id].exists = swaps[id].exists
                  /\ swaps'[id].refunded = swaps[id].refunded
<1> DEFINE Kept ==
      \A id \in LegIds : /\ swaps'[id].exists = swaps[id].exists
                         /\ swaps'[id].refunded = swaps[id].refunded
<1>1. CASE AccountCalls /\ UNCHANGED settlementVars
  <2>1. ASSUME NEW id \in Ids, id.sender \in Accounts, NewSwap(id)
        PROVE  Kept
    BY <2>1, IdFields DEF TypeOK, HtlcTypeOK, NewSwap, LegIds
  <2>2. ASSUME NEW id \in Ids, NEW p, Redeem(id, p)
        PROVE  Kept
    <3>1. swaps[id] \in SwapRecords /\ Active(swaps[id])
      BY <2>2 DEF TypeOK, HtlcTypeOK, Redeem, CanRedeem, Active
    <3>2. swaps' = [swaps EXCEPT ![id] = Redeemed] /\ swaps[id] = Locked
      BY <2>2, <3>1, RecordWrites DEF Redeem
    <3>3. Redeemed.exists = Locked.exists /\ Redeemed.refunded = Locked.refunded
      BY DEF Redeemed, Locked, NoSwap
    <3> QED BY <3>2, <3>3 DEF TypeOK, HtlcTypeOK
  <2>3. ASSUME NEW id \in Ids, NEW a \in Accounts, Refund(a, id)
        PROVE  Kept
    <3>1. id \notin LegIds
      BY <2>3, IdFields DEF Refund, CanRefund, LegIds
    <3> QED BY <2>3, <3>1 DEF TypeOK, HtlcTypeOK, Refund, LegIds
  <2>4. Kept
    BY <1>1, <2>1, <2>2, <2>3 DEF AccountCalls
  <2> QED BY <1>1, <2>4 DEF settlementVars
<1>2. CASE Tick /\ UNCHANGED settlementVars
  BY <1>2 DEF Tick, settlementVars
<1>3. CASE \E o \in SignedOrders, ts \in 0..MaxTime : AuthorizeLeg(o, ts)
  BY <1>3 DEF AuthorizeLeg, htlcVars
<1>4. CASE \E a \in Accounts, t \in Assets : Donate(a, t)
  BY <1>4 DEF Donate, settlementVars
<1>5. CASE UNCHANGED vars
  BY <1>5 DEF vars
<1> QED BY <1>1, <1>2, <1>3, <1>4, <1>5

\* Both contracts record a settleLeg and a refundLeg alike.
LEMMA NextLegMatchesSwap ==
    ASSUME TypeOK, LegMatchesSwap, [Next]_vars
    PROVE  LegMatchesSwap'
<1>1. ASSUME NEW a \in Accounts, NEW o \in Orders, NEW id \in LegIds,
             SettleLeg(a, o, id)
      PROVE  LegMatchesSwap'
  <2>1. swaps' = [swaps EXCEPT ![id] = Locked]
    BY <1>1, RecordWrites, SettledLeg
       DEF TypeOK, HtlcTypeOK, SettleLeg, ReceiveAndLock
  <2>2. Locked.exists /\ ~Locked.refunded
    BY DEF Locked, NoSwap
  <2>3. legs' = [legs EXCEPT ![id] =
                    [maker |-> o.maker, token |-> id.token,
                     amount |-> id.amount, refunded |-> FALSE]]
    BY <1>1, SettledLeg DEF SettleLeg
  <2> QED BY <1>1, <2>1, <2>2, <2>3, SettledLeg
             DEF LegMatchesSwap, TypeOK, HtlcTypeOK
<1>2. ASSUME NEW id \in LegIds, RefundLeg(id)
      PROVE  LegMatchesSwap'
  <2>1. swaps[id] = Locked /\ id \in Ids /\ legs[id] \in LegRecord
    BY <1>2, RefundableLeg DEF RefundLeg
  <2>2. swaps' = [swaps EXCEPT ![id] = Returned]
    BY <1>2, RefundableLeg DEF RefundLeg
  <2>3. Returned.exists /\ Returned.refunded /\ Locked.exists
    BY DEF Returned, Locked, NoSwap
  <2>4. legs' = [legs EXCEPT ![id].refunded = TRUE]
    BY <1>2 DEF RefundLeg
  <2>5. /\ legs'[id].maker = legs[id].maker /\ legs'[id].token = legs[id].token
        /\ legs'[id].amount = legs[id].amount /\ legs'[id].refunded
    BY <1>2, <2>1, <2>4 DEF TypeOK, LegRecord
  <2>6. /\ swaps'[id].exists /\ swaps'[id].refunded /\ swaps[id].exists
        /\ \A other \in LegIds \ {id} :
               swaps'[other] = swaps[other] /\ legs'[other] = legs[other]
    BY <1>2, <2>1, <2>2, <2>3, <2>4 DEF TypeOK, HtlcTypeOK
  <2> QED BY <1>2, <2>5, <2>6 DEF LegMatchesSwap
<1>3. ASSUME legs' = legs,
             \A id \in LegIds : /\ swaps'[id].exists = swaps[id].exists
                                /\ swaps'[id].refunded = swaps[id].refunded
      PROVE  LegMatchesSwap'
  BY <1>3 DEF LegMatchesSwap
<1> QED BY <1>1, <1>2, <1>3, OthersKeepLegs DEF Next

\* A nonce that settles is fresh, so no earlier leg was locked under it.
LEMMA NextOneLegPerNonce ==
    ASSUME TypeOK, OneLegPerNonce, [Next]_vars
    PROVE  OneLegPerNonce'
<1>1. ASSUME NEW a \in Accounts, NEW o \in Orders, NEW id \in LegIds,
             SettleLeg(a, o, id)
      PROVE  OneLegPerNonce'
  <2>1. lockedBy' = [lockedBy EXCEPT ![id] = o] /\ o.sellChainId = ChainId
    BY <1>1 DEF SettleLeg, CanSettleLeg
  <2>2. /\ ~consumedNonce[o.maker][o.nonce]
        /\ consumedNonce' = [consumedNonce EXCEPT ![o.maker][o.nonce] = TRUE]
    BY <1>1 DEF SettleLeg, CanSettleLeg, NonceFresh, ConsumeNonce
  <2>3. o.maker \in Accounts /\ o.nonce \in Nonces
    BY <1>1, SettledLeg
  <2>4. /\ legs'[id].maker = o.maker
        /\ \A other \in LegIds \ {id} : legs'[other] = legs[other]
    BY <1>1 DEF SettleLeg, TypeOK
  <2>5. consumedNonce'[o.maker][o.nonce]
    BY <2>2, <2>3 DEF TypeOK
  <2>6. \A m \in Accounts, n \in Nonces :
            consumedNonce[m][n] => consumedNonce'[m][n]
    BY <2>2, <2>3 DEF TypeOK
  <2>7. \A other \in LegIds : lockedBy[other] # NoOrder =>
            lockedBy[other].maker \in Accounts /\ lockedBy[other].nonce \in Nonces
    BY SettlementConstants DEF TypeOK, Nonces
  <2>8. lockedBy'[id] = o
        /\ \A other \in LegIds \ {id} : lockedBy'[other] = lockedBy[other]
    BY <1>1, <2>1 DEF TypeOK
  <2>9. \A other \in LegIds \ {id} : lockedBy[other] # NoOrder =>
            lockedBy[other].maker # o.maker \/ lockedBy[other].nonce # o.nonce
    BY <2>2 DEF OneLegPerNonce
  <2>10. ASSUME NEW leg \in LegIds, lockedBy'[leg] # NoOrder
         PROVE  /\ consumedNonce'[lockedBy'[leg].maker][lockedBy'[leg].nonce]
                /\ lockedBy'[leg].maker = legs'[leg].maker
                /\ lockedBy'[leg].sellChainId = ChainId
    <3>1. CASE leg = id
      BY <2>1, <2>4, <2>5, <2>8, <3>1
    <3>2. CASE leg # id
      BY <2>10, <2>4, <2>6, <2>7, <2>8, <3>2 DEF OneLegPerNonce
    <3> QED BY <3>1, <3>2
  <2>11. ASSUME NEW leg \in LegIds, NEW other \in LegIds \ {leg},
                lockedBy'[leg] # NoOrder, lockedBy'[other] # NoOrder
         PROVE  \/ lockedBy'[other].maker # lockedBy'[leg].maker
                \/ lockedBy'[other].nonce # lockedBy'[leg].nonce
    <3>1. CASE leg = id
      BY <2>8, <2>9, <2>11, <3>1
    <3>2. CASE other = id
      BY <2>8, <2>9, <2>11, <3>2
    <3>3. CASE leg # id /\ other # id
      BY <2>8, <2>11, <3>3 DEF OneLegPerNonce
    <3> QED BY <3>1, <3>2, <3>3
  <2> QED BY <2>10, <2>11 DEF OneLegPerNonce
<1>2. ASSUME NEW id \in LegIds, RefundLeg(id)
      PROVE  OneLegPerNonce'
  <2>1. legs[id] \in LegRecord
    BY <1>2 DEF TypeOK
  <2>2. \A leg \in LegIds : legs'[leg].maker = legs[leg].maker
    BY <1>2, <2>1 DEF RefundLeg, TypeOK, LegRecord
  <2> QED BY <1>2, <2>2 DEF OneLegPerNonce, RefundLeg
<1>3. ASSUME NEW o \in SignedOrders, NEW ts, AuthorizeLeg(o, ts)
      PROVE  OneLegPerNonce'
  <2>1. \A m \in Accounts, n \in Nonces :
            consumedNonce[m][n] => consumedNonce'[m][n]
    BY <1>3 DEF AuthorizeLeg, ConsumeNonce, TypeOK
  <2>2. \A leg \in LegIds : lockedBy[leg] # NoOrder =>
            lockedBy[leg].maker \in Accounts /\ lockedBy[leg].nonce \in Nonces
    BY SettlementConstants DEF TypeOK, Nonces
  <2>3. legs' = legs /\ lockedBy' = lockedBy
    BY <1>3 DEF AuthorizeLeg
  <2> QED BY <2>1, <2>2, <2>3 DEF OneLegPerNonce
<1>4. ASSUME UNCHANGED <<consumedNonce, legs, lockedBy>>
      PROVE  OneLegPerNonce'
  BY <1>4 DEF OneLegPerNonce
<1>5. CASE UNCHANGED vars
  BY <1>4, <1>5 DEF vars
<1> QED BY <1>1, <1>2, <1>3, <1>4, <1>5 DEF Next, Donate, settlementVars

-----------------------------------------------------------------------------
LEMMA InitIInv ==
    ASSUME Init
    PROVE  IInv
<1>1. TypeOK
  <2>1. NoLeg \in LegRecord
    BY HtlcConstants DEF NoLeg, LegRecord, Assets
  <2> QED BY <2>1, HtlcInitType DEF Init, TypeOK
<1>2. LegMatchesSwap
  BY DEF Init, HtlcInit, LegMatchesSwap, LegIds, NoLeg, NoSwap
<1>3. OneLegPerNonce
  BY DEF Init, OneLegPerNonce
<1> QED BY <1>1, <1>2, <1>3 DEF IInv

\* The inductive invariant: types, agreement of the two contracts on every
\* leg, and one leg per nonce hold after any sequence of transactions.
THEOREM IInvCorrect == Spec => []IInv
<1>1. Init => IInv
  BY InitIInv
<1>2. IInv /\ [Next]_vars => IInv'
  BY NextType, NextLegMatchesSwap, NextOneLegPerNonce DEF IInv
<1> QED BY <1>1, <1>2, PTL DEF Spec

\* Types of all variables of both contracts (Settlement.sol, HashedTimelock.sol).
THEOREM TypeCorrect == Spec => []TypeOK
<1>1. IInv => TypeOK
  BY DEF IInv
<1> QED BY <1>1, IInvCorrect, PTL

\* Settlement's refund record of a leg is what the HTLC will give back for it,
\* and both are open or both are closed (settleLeg, refundLeg).
THEOREM LegsMatchSwaps == Spec => []LegMatchesSwap
<1>1. IInv => LegMatchesSwap
  BY DEF IInv
<1> QED BY <1>1, IInvCorrect, PTL

\* A nonce of a maker settles at most one leg, under an order the maker signed
\* for this chain (settleLeg, authorizeLeg, consumedNonce).
THEOREM NoncesSettleOnce == Spec => []OneLegPerNonce
<1>1. IInv => OneLegPerNonce
  BY DEF IInv
<1> QED BY <1>1, IInvCorrect, PTL

\* The maker recorded for a leg stays the one refundLeg pays, whatever orders
\* other makers settle with the same parameters.
THEOREM LegOwnersAreFixed == Spec => LegOwnerIsFixed
<1> DEFINE Fixed ==
      \A id \in LegIds :
          legs[id].maker # NoOne =>
              /\ legs'[id].maker = legs[id].maker
              /\ legs[id].refunded => legs'[id].refunded
<1>1. IInv /\ [Next]_vars => [Fixed]_vars
  <2> SUFFICES ASSUME IInv, Next
               PROVE  Fixed
    OBVIOUS
  <2>1. TypeOK /\ LegMatchesSwap
    BY DEF IInv
  <2>2. ASSUME NEW a \in Accounts, NEW o \in Orders, NEW id \in LegIds,
               SettleLeg(a, o, id)
        PROVE  Fixed
    <3>1. legs[id].maker = NoOne
      BY <2>1, <2>2, SettledLeg DEF LegMatchesSwap
    <3>2. \A other \in LegIds \ {id} : legs'[other] = legs[other]
      BY <2>1, <2>2 DEF SettleLeg, TypeOK
    <3> QED BY <3>1, <3>2
  <2>3. ASSUME NEW id \in LegIds, RefundLeg(id)
        PROVE  Fixed
    <3>1. legs[id] \in LegRecord
      BY <2>1, <2>3 DEF TypeOK
    <3>2. legs' = [legs EXCEPT ![id].refunded = TRUE]
      BY <2>3 DEF RefundLeg
    <3>3. legs'[id].maker = legs[id].maker /\ legs'[id].refunded
      BY <2>1, <3>1, <3>2 DEF TypeOK, LegRecord
    <3>4. \A other \in LegIds \ {id} : legs'[other] = legs[other]
      BY <2>1, <3>2 DEF TypeOK
    <3> QED BY <3>3, <3>4
  <2>4. CASE legs' = legs
    BY <2>4
  <2> QED BY <2>1, <2>2, <2>3, <2>4, OthersKeepLegs DEF Next
<1> QED BY <1>1, IInvCorrect, PTL DEF Spec, LegOwnerIsFixed

-----------------------------------------------------------------------------
(* Where the units are *)

\* settleLeg takes the amount from the maker and gives it to the HTLC; nothing
\* is left with Settlement.
LEMMA SettleLegEffect ==
    ASSUME TypeOK, NEW a, NEW order \in Orders, NEW id \in LegIds,
           SettleLeg(a, order, id), NEW t \in Assets, NEW x \in Addresses
    PROVE  balance'[t][x] =
               balance[t][x] - At(t, x, id.token, order.maker, id.amount)
                             + At(t, x, id.token, HtlcAddr, id.amount)
<1> DEFINE bal == Transfer(balance, order.sellToken, order.maker,
                           SettlementAddr, order.sellAmount)
<1>1. order.maker \in Addresses /\ SettlementAddr \in Addresses
      /\ HtlcAddr \in Addresses /\ order.maker # SettlementAddr
      /\ SettlementAddr # HtlcAddr /\ order.maker # HtlcAddr
  BY SettledLeg, HtlcConstants DEF Addresses, Senders
<1>2. /\ balance \in [Assets -> [Addresses -> Nat]]
      /\ balance[id.token][order.maker] >= order.sellAmount
      /\ id.token \in Assets /\ id.amount \in Nat
      /\ order.sellToken = id.token /\ order.sellAmount = id.amount
  BY SettledLeg DEF TypeOK, HtlcTypeOK, SettleLeg, ReceiveAndLock
<1>3. bal \in [Assets -> [Addresses -> Nat]]
  BY <1>1, <1>2, TransferType
<1>4. \A u \in Assets, y \in Addresses : bal[u][y] =
          balance[u][y] - At(u, y, id.token, order.maker, id.amount)
                        + At(u, y, id.token, SettlementAddr, id.amount)
  <2>1. bal = Transfer(balance, id.token, order.maker, SettlementAddr, id.amount)
    BY <1>2
  <2>2. Payable(balance, id.token, order.maker, SettlementAddr, id.amount)
    BY <1>1, <1>2 DEF Payable
  <2> HIDE DEF bal
  <2>3. Moved(balance, bal, id.token, order.maker, SettlementAddr, id.amount)
    BY <2>1, <2>2, TransferMoves
  <2> QED BY <2>3 DEF Moved
<1>5. bal[id.token][SettlementAddr] = balance[id.token][SettlementAddr] + id.amount
  <2>1. balance[id.token][SettlementAddr] \in Nat
    BY <1>1, <1>2
  <2> HIDE DEF bal
  <2> QED BY <1>1, <1>2, <1>4, <2>1 DEF At
<1>6. bal[id.token][SettlementAddr] >= id.amount
  <2>1. balance[id.token][SettlementAddr] \in Nat
    BY <1>1, <1>2
  <2> HIDE DEF bal
  <2> QED BY <1>1, <1>2, <1>5, <2>1
<1>7. balance' = Transfer(bal, id.token, SettlementAddr, HtlcAddr, id.amount)
  BY DEF SettleLeg, ReceiveAndLock
<1> HIDE DEF bal
<1>8. balance'[t][x] =
          bal[t][x] - At(t, x, id.token, SettlementAddr, id.amount)
                    + At(t, x, id.token, HtlcAddr, id.amount)
  BY <1>1, <1>2, <1>3, <1>6, <1>7, TransferEffect
<1>9. balance[t][x] \in Nat
  BY <1>2
<1> QED BY <1>1, <1>2, <1>4, <1>8, <1>9 DEF At

\* refundLeg takes it out of the HTLC and gives it to the recorded maker.
LEMMA RefundLegEffect ==
    ASSUME TypeOK, LegMatchesSwap, LocksAreAssets, NEW id \in LegIds,
           RefundLeg(id), NEW t \in Assets, NEW x \in Addresses
    PROVE  /\ id.token \in Assets
           /\ balance'[t][x] =
                  balance[t][x] - At(t, x, id.token, HtlcAddr, id.amount)
                                + At(t, x, id.token, legs[id].maker, id.amount)
<1>1. /\ id \in Ids /\ legs[id].maker \in Accounts /\ swaps[id].exists
  BY RefundableLeg DEF RefundLeg, Locked, NoSwap
<1>2. /\ id.token \in Assets /\ id.amount \in Nat
      /\ legs[id].token = id.token /\ legs[id].amount = id.amount
  BY <1>1, IdFields DEF LegMatchesSwap, LocksAreAssets
<1>3. SettlementAddr \in Addresses /\ HtlcAddr \in Addresses
      /\ legs[id].maker \in Addresses
      /\ legs[id].maker # SettlementAddr /\ SettlementAddr # HtlcAddr
  BY <1>1, HtlcConstants DEF Addresses, Senders
<1>4. /\ balance \in [Assets -> [Addresses -> Nat]]
      /\ balance[id.token][HtlcAddr] >= id.amount
      /\ Received(id)[id.token][SettlementAddr] >= id.amount
      /\ balance' = Transfer(Received(id), id.token, SettlementAddr,
                             legs[id].maker, id.amount)
  BY <1>2 DEF TypeOK, HtlcTypeOK, RefundLeg, CanRefundLeg
<1>5. Received(id) \in [Assets -> [Addresses -> Nat]]
  BY <1>2, <1>3, <1>4, TransferType DEF Received
<1>6. Received(id)[t][x] =
          balance[t][x] - At(t, x, id.token, HtlcAddr, id.amount)
                        + At(t, x, id.token, SettlementAddr, id.amount)
  BY <1>2, <1>3, <1>4, TransferEffect DEF Received
<1>7. Transfer(Received(id), id.token, SettlementAddr, legs[id].maker, id.amount)[t][x] =
          Received(id)[t][x]
            - At(t, x, id.token, SettlementAddr, id.amount)
            + At(t, x, id.token, legs[id].maker, id.amount)
  <2>1. ASSUME NEW bal \in [Assets -> [Addresses -> Nat]], NEW to \in Addresses,
               bal[id.token][SettlementAddr] >= id.amount
        PROVE  Transfer(bal, id.token, SettlementAddr, to, id.amount)[t][x] =
                   bal[t][x] - At(t, x, id.token, SettlementAddr, id.amount)
                             + At(t, x, id.token, to, id.amount)
    BY <1>2, <1>3, <2>1, TransferEffect
  <2>2. Received(id)[id.token][SettlementAddr] >= id.amount
    BY <1>4
  <2> QED BY <1>3, <1>5, <2>1, <2>2
<1>8. balance[t][x] \in Nat
  BY <1>4
<1> QED BY <1>2, <1>3, <1>4, <1>6, <1>7, <1>8 DEF At

LEMMA DonateEffect ==
    ASSUME TypeOK, NEW a \in Accounts, NEW u \in Assets, Donate(a, u),
           NEW t \in Assets, NEW x \in Addresses
    PROVE  balance'[t][x] =
               balance[t][x] - At(t, x, u, a, 1)
                             + At(t, x, u, SettlementAddr, 1)
<1>1. /\ balance \in [Assets -> [Addresses -> Nat]] /\ balance[u][a] >= 1
      /\ a \in Addresses /\ SettlementAddr \in Addresses
      /\ balance' = Transfer(balance, u, a, SettlementAddr, 1)
  BY DEF TypeOK, HtlcTypeOK, Donate, Addresses, Senders
<1>2. Payable(balance, u, a, SettlementAddr, 1)
  BY <1>1 DEF Payable
<1>3. Moved(balance, balance', u, a, SettlementAddr, 1)
  BY <1>1, <1>2, TransferMoves
<1> QED BY <1>3 DEF Moved

-----------------------------------------------------------------------------
(* Solvency, and what it gives the maker of a leg *)

SInv == IInv /\ Solvent /\ LocksAreAssets

LEMMA SettleLegSolvent ==
    ASSUME SInv, IInv', NEW a, NEW order \in Orders, NEW id \in LegIds,
           SettleLeg(a, order, id)
    PROVE  Solvent' /\ LocksAreAssets'
<1>1. TypeOK /\ HtlcTypeOK /\ HtlcTypeOK' /\ Solvent /\ LocksAreAssets
  BY DEF SInv, IInv, TypeOK
<1>2. id \in Ids /\ id.token \in Assets /\ ~swaps[id].exists /\ id.amount \in Nat
      /\ order.maker # HtlcAddr /\ HtlcAddr \in Addresses
  BY SettledLeg, HtlcConstants DEF Addresses, Senders
<1>3. ~Active(swaps[id]) /\ swaps' = [swaps EXCEPT ![id] = Locked]
  BY <1>2 DEF SettleLeg, ReceiveAndLock, Active, AfterNewSwap
<1>4. ASSUME NEW t \in Assets
      PROVE  balance'[t][HtlcAddr] =
                 balance[t][HtlcAddr] + (IF t = id.token THEN id.amount ELSE 0)
  <2>1. balance[t][HtlcAddr] \in Nat
    BY <1>1, <1>2 DEF HtlcTypeOK
  <2>2. balance'[t][HtlcAddr] =
            balance[t][HtlcAddr]
              - At(t, HtlcAddr, id.token, order.maker, id.amount)
              + At(t, HtlcAddr, id.token, HtlcAddr, id.amount)
    BY <1>1, <1>2, SettleLegEffect
  <2> QED BY <1>2, <2>1, <2>2 DEF At
<1> QED BY <1>1, <1>2, <1>3, <1>4, LockKeepsSolvent, LockedAreAssets

LEMMA RefundLegSolvent ==
    ASSUME SInv, IInv', NEW id \in LegIds, RefundLeg(id)
    PROVE  Solvent' /\ LocksAreAssets'
<1>1. /\ TypeOK /\ HtlcTypeOK /\ HtlcTypeOK' /\ LegMatchesSwap
      /\ Solvent /\ LocksAreAssets
  BY DEF SInv, IInv, TypeOK
<1>2. /\ id \in Ids /\ swaps[id] = Locked /\ HtlcAddr \in Addresses
      /\ swaps' = [swaps EXCEPT ![id] = Returned] /\ legs[id].maker # HtlcAddr
  BY <1>1, RefundableLeg, HtlcConstants DEF RefundLeg, Addresses, Senders
<1>3. Active(swaps[id]) /\ ~Active(Returned) /\ id.token \in Assets
  BY <1>1, <1>2 DEF Active, Returned, Locked, NoSwap, LocksAreAssets
<1>4. ASSUME NEW t \in Assets
      PROVE  balance'[t][HtlcAddr] >=
                 balance[t][HtlcAddr] - (IF t = id.token THEN id.amount ELSE 0)
  <2>1. balance[t][HtlcAddr] \in Nat /\ id.amount \in Nat
    BY <1>1, <1>2, IdFields DEF HtlcTypeOK
  <2>2. balance'[t][HtlcAddr] =
            balance[t][HtlcAddr]
              - At(t, HtlcAddr, id.token, HtlcAddr, id.amount)
              + At(t, HtlcAddr, id.token, legs[id].maker, id.amount)
    BY <1>1, <1>2, RefundLegEffect
  <2> QED BY <1>2, <2>1, <2>2 DEF At
<1> QED BY <1>1, <1>2, <1>3, <1>4, EndKeepsSolvent, LockedAreAssets

LEMMA DonateSolvent ==
    ASSUME SInv, NEW a \in Accounts, NEW u \in Assets, Donate(a, u)
    PROVE  Solvent' /\ LocksAreAssets'
<1>1. TypeOK /\ Solvent /\ LocksAreAssets /\ swaps' = swaps
  BY DEF SInv, IInv, Donate
<1>2. HtlcAddr \in Addresses /\ HtlcAddr # a /\ HtlcAddr # SettlementAddr
  BY HtlcConstants DEF Addresses, Senders
<1>3. ASSUME NEW t \in Assets
      PROVE  balance'[t][HtlcAddr] = balance[t][HtlcAddr]
  <2>1. balance[t][HtlcAddr] \in Nat
    BY <1>1, <1>2 DEF TypeOK, HtlcTypeOK
  <2>2. balance'[t][HtlcAddr] =
            balance[t][HtlcAddr] - At(t, HtlcAddr, u, a, 1)
                                 + At(t, HtlcAddr, u, SettlementAddr, 1)
    BY <1>1, <1>2, DonateEffect
  <2> QED BY <1>2, <2>1, <2>2 DEF At
<1> QED BY <1>1, <1>3 DEF Solvent, LocksAreAssets, Open, Owed

LEMMA NextSInv == SInv /\ [Next]_vars => SInv'
<1> SUFFICES ASSUME SInv, [Next]_vars
             PROVE  SInv'
  OBVIOUS
<1>0. IInv'
  BY NextType, NextLegMatchesSwap, NextOneLegPerNonce DEF IInv, SInv
<1>1. HInv
  BY DEF SInv, IInv, TypeOK, HInv
<1>2. CASE AccountCalls /\ UNCHANGED settlementVars
  <2>1. HInv'
    BY <1>1, <1>2, NewSwapHInv, RedeemHInv, RefundHInv DEF AccountCalls
  <2> QED BY <1>0, <2>1 DEF SInv, HInv
<1>3. CASE Tick /\ UNCHANGED settlementVars
  BY <1>0, <1>1, <1>3, TickHInv DEF SInv, HInv
<1>4. ASSUME NEW a \in Accounts, NEW o \in Orders, NEW id \in LegIds,
             SettleLeg(a, o, id)
      PROVE  SInv'
  BY <1>0, <1>4, SettleLegSolvent DEF SInv
<1>5. ASSUME NEW id \in LegIds, RefundLeg(id)
      PROVE  SInv'
  BY <1>0, <1>5, RefundLegSolvent DEF SInv
<1>6. ASSUME NEW a \in Accounts, NEW t \in Assets, Donate(a, t)
      PROVE  SInv'
  BY <1>0, <1>6, DonateSolvent DEF SInv
<1>7. ASSUME UNCHANGED <<swaps, balance>>
      PROVE  SInv'
  BY <1>0, <1>7 DEF SInv, Solvent, LocksAreAssets, Open, Owed
<1> QED BY <1>2, <1>3, <1>4, <1>5, <1>6, <1>7
           DEF Next, AuthorizeLeg, htlcVars, vars

\* HashedTimelock stays solvent under any mix of Settlement's transactions and
\* those that accounts send to it directly.
THEOREM BothContractsAreSolvent == Spec => []SInv
<1>1. Init => SInv
  BY InitIInv, HtlcInitHInv DEF Init, SInv, HInv
<1> QED BY <1>1, NextSInv, PTL DEF Spec

\* Whatever accounts did before, refundLeg of a leg that was not redeemed
\* succeeds in full from its timelock on: the HTLC has the units to give back,
\* Settlement the units to pass on, and the maker can receive them.
THEOREM UnredeemedLegsAreRefundable == Spec => []UnredeemedIsRefundable
<1>1. SInv => UnredeemedIsRefundable
  <2> SUFFICES ASSUME SInv, NEW id \in LegIds,
                      legs[id].maker # NoOne, ~legs[id].refunded,
                      ~swaps[id].withdrawn, timestamp >= id.timelock
               PROVE  CanRefundLeg(id)
    BY DEF UnredeemedIsRefundable
  <2>1. TypeOK /\ HtlcTypeOK /\ LegMatchesSwap /\ Solvent /\ LocksAreAssets
    BY DEF SInv, IInv, TypeOK
  <2>2. /\ id \in Ids /\ id.sender = SettlementAddr
        /\ swaps[id].exists /\ ~swaps[id].refunded /\ Active(swaps[id])
        /\ legs[id].token = id.token /\ legs[id].amount = id.amount
    BY <2>1 DEF LegMatchesSwap, LegIds, Active
  <2>3. CanRefund(swaps[id], id, SettlementAddr, timestamp)
    BY <2>2 DEF CanRefund
  <2>4. id.token \in Assets /\ id.amount \in Nat /\ legs[id].maker \in Accounts
    BY <2>1, <2>2, IdFields DEF LocksAreAssets, TypeOK, LegRecord
  <2>5. balance[id.token][HtlcAddr] >= id.amount
    <3>1. /\ IsFiniteSet(Open(id.token))
          /\ balance[id.token][HtlcAddr] >= Owed(id.token)
      BY <2>1, <2>4 DEF Solvent
    <3>2. Owed(id.token) \in Nat /\ id.amount <= Owed(id.token)
      BY <2>1, <2>2, <3>1, OpenIsOwed
    <3>3. balance[id.token][HtlcAddr] \in Nat
      BY <2>1, <2>4 DEF HtlcTypeOK, Addresses
    <3> QED BY <2>4, <3>1, <3>2, <3>3 DEF At
  <2>6. Received(id)[id.token][SettlementAddr] >= id.amount
    <3>1. /\ balance \in [Assets -> [Addresses -> Nat]]
          /\ HtlcAddr \in Addresses /\ SettlementAddr \in Addresses
          /\ HtlcAddr # SettlementAddr
      BY <2>1, HtlcConstants DEF HtlcTypeOK, Addresses, Senders
    <3>2. Received(id)[id.token][SettlementAddr] =
              balance[id.token][SettlementAddr]
                - At(id.token, SettlementAddr, id.token, HtlcAddr, id.amount)
                + At(id.token, SettlementAddr, id.token, SettlementAddr, id.amount)
      BY <2>4, <2>5, <3>1, TransferEffect DEF Received
    <3>3. balance[id.token][SettlementAddr] \in Nat
      BY <2>4, <3>1
    <3> QED BY <2>4, <3>1, <3>2, <3>3 DEF At
  <2>7. CanReceive(id.token, legs[id].maker)
    BY <2>4, HtlcConstants DEF CanReceive, Senders
  <2> QED BY <2>2, <2>3, <2>5, <2>6, <2>7 DEF CanRefundLeg
<1> QED BY <1>1, BothContractsAreSolvent, PTL

-----------------------------------------------------------------------------
(* Every transaction that locks or ends a swap moves its amount once *)

Moves(id, from, to) ==
    \A t \in Assets, x \in Addresses :
        balance'[t][x] = balance[t][x] - At(t, x, id.token, from, id.amount)
                                       + At(t, x, id.token, to, id.amount)

LEMMA OneTransferMoves ==
    ASSUME HtlcTypeOK, NEW id \in Ids, id.token \in Assets,
           NEW from \in Addresses, NEW to \in Addresses,
           balance[id.token][from] >= id.amount,
           balance' = Transfer(balance, id.token, from, to, id.amount)
    PROVE  Moves(id, from, to)
<1>1. balance \in [Assets -> [Addresses -> Nat]] /\ id.amount \in Nat
  BY IdFields DEF HtlcTypeOK
<1> SUFFICES ASSUME NEW t \in Assets, NEW x \in Addresses
             PROVE  Transfer(balance, id.token, from, to, id.amount)[t][x] =
                        balance[t][x] - At(t, x, id.token, from, id.amount)
                                      + At(t, x, id.token, to, id.amount)
  BY DEF Moves
<1> QED BY <1>1, TransferEffect

LEMMA NewSwapMoves ==
    ASSUME SInv, NEW id \in Ids, NewSwap(id)
    PROVE  Moves(id, id.sender, HtlcAddr)
<1>1. HtlcTypeOK /\ id.token \in Assets /\ id.sender \in Addresses /\ HtlcAddr \in Addresses
  BY IdFields DEF SInv, IInv, TypeOK, NewSwap, CanNewSwap, Addresses
<1> QED BY <1>1, OneTransferMoves DEF NewSwap

LEMMA RedeemMoves ==
    ASSUME SInv, NEW id \in Ids, NEW p, Redeem(id, p)
    PROVE  Moves(id, HtlcAddr, id.recipient)
<1>1. HtlcTypeOK /\ id.token \in Assets /\ id.recipient \in Addresses /\ HtlcAddr \in Addresses
  BY IdFields DEF SInv, IInv, TypeOK, LocksAreAssets, Redeem, CanRedeem, Addresses
<1> QED BY <1>1, OneTransferMoves DEF Redeem

LEMMA RefundMoves ==
    ASSUME SInv, NEW id \in Ids, NEW a, Refund(a, id)
    PROVE  Moves(id, HtlcAddr, id.sender)
<1>1. HtlcTypeOK /\ id.token \in Assets /\ id.sender \in Addresses /\ HtlcAddr \in Addresses
  BY IdFields DEF SInv, IInv, TypeOK, LocksAreAssets, Refund, CanRefund, Addresses
<1> QED BY <1>1, OneTransferMoves DEF Refund

LEMMA SettleLegMoves ==
    ASSUME SInv, NEW a, NEW order \in Orders, NEW id \in LegIds, SettleLeg(a, order, id)
    PROVE  Moves(id, order.maker, HtlcAddr)
<1>1. TypeOK
  BY DEF SInv, IInv
<1> QED BY <1>1, SettleLegEffect DEF Moves

LEMMA RefundLegMoves ==
    ASSUME SInv, NEW id \in LegIds, RefundLeg(id)
    PROVE  Moves(id, HtlcAddr, legs[id].maker)
<1>1. TypeOK /\ LegMatchesSwap /\ LocksAreAssets
  BY DEF SInv, IInv
<1> QED BY <1>1, RefundLegEffect DEF Moves

\* A transaction that writes a leg leaves Settlement's own balances as they
\* were, and none lowers them: what was donated to it never leaks into a
\* refund (settleLeg, refundLeg, _receiveAndLock).
THEOREM SettlementKeepsNothing == Spec => KeepsNothing
<1> DEFINE Keeps ==
      \A t \in Assets :
          /\ legs' # legs => balance'[t][SettlementAddr] = balance[t][SettlementAddr]
          /\ balance'[t][SettlementAddr] >= balance[t][SettlementAddr]
<1>1. SInv /\ [Next]_vars => [Keeps]_vars
  <2> SUFFICES ASSUME SInv, Next
               PROVE  Keeps
    OBVIOUS
  <2>1. /\ TypeOK
        /\ \A t \in Assets : balance[t][SettlementAddr] \in Nat
        /\ SettlementAddr \in Addresses /\ SettlementAddr # HtlcAddr
    <3>1. SettlementAddr \in Addresses /\ SettlementAddr # HtlcAddr
      BY HtlcConstants DEF Addresses, Senders
    <3>2. TypeOK /\ balance \in [Assets -> [Addresses -> Nat]]
      BY DEF SInv, IInv, TypeOK, HtlcTypeOK
    <3> QED BY <3>1, <3>2
  <2>2. ASSUME NEW id \in Ids, NEW from, Moves(id, from, HtlcAddr), from # SettlementAddr
        PROVE  Keeps
    <3>1. ASSUME NEW t \in Assets
          PROVE  /\ At(t, SettlementAddr, id.token, from, id.amount) = 0
                 /\ At(t, SettlementAddr, id.token, HtlcAddr, id.amount) = 0
      BY <2>1, <2>2 DEF At
    <3> QED BY <2>1, <2>2, <3>1 DEF Moves
  <2>3. ASSUME NEW id \in Ids, NEW to, Moves(id, HtlcAddr, to), to # SettlementAddr
        PROVE  Keeps
    BY <2>1, <2>3 DEF Moves, At
  <2>4. ASSUME NEW id \in Ids, id.sender \in Accounts, NewSwap(id)
        PROVE  Keeps
    BY <2>2, <2>4, NewSwapMoves, IdFields
  <2>5. ASSUME NEW id \in Ids, NEW p, Redeem(id, p), UNCHANGED settlementVars
        PROVE  Keeps
    <3>1. Moves(id, HtlcAddr, id.recipient) /\ id.amount \in Nat /\ legs' = legs
      BY <2>5, RedeemMoves, IdFields DEF settlementVars
    <3> QED BY <2>1, <3>1 DEF Moves, At
  <2>6. ASSUME NEW id \in Ids, NEW a \in Accounts, Refund(a, id)
        PROVE  Keeps
    <3>1. id.sender # SettlementAddr
      BY <2>6, HtlcConstants DEF Refund, CanRefund
    <3> QED BY <2>3, <2>6, <3>1, RefundMoves
  <2>7. ASSUME NEW a \in Accounts, NEW o \in Orders, NEW id \in LegIds,
               SettleLeg(a, o, id)
        PROVE  Keeps
    <3>1. id \in Ids /\ o.maker # SettlementAddr
      BY <2>7, SettledLeg, HtlcConstants
    <3> QED BY <2>2, <2>7, <3>1, SettleLegMoves
  <2>8. ASSUME NEW id \in LegIds, RefundLeg(id)
        PROVE  Keeps
    <3>1. id \in Ids /\ legs[id].maker # SettlementAddr
      BY <2>1, <2>8, RefundableLeg, HtlcConstants DEF RefundLeg
    <3> QED BY <2>3, <2>8, <3>1, RefundLegMoves
  <2>9. ASSUME NEW a \in Accounts, NEW u \in Assets, Donate(a, u)
        PROVE  Keeps
    <3>1. ASSUME NEW t \in Assets
          PROVE  balance'[t][SettlementAddr] >= balance[t][SettlementAddr]
      <4>1. balance'[t][SettlementAddr] =
                balance[t][SettlementAddr] - At(t, SettlementAddr, u, a, 1)
                    + At(t, SettlementAddr, u, SettlementAddr, 1)
        BY <2>1, <2>9, DonateEffect
      <4> QED BY <2>1, <4>1, HtlcConstants DEF At
    <3>2. legs' = legs
      BY <2>9 DEF Donate, settlementVars
    <3> QED BY <3>1, <3>2
  <2>10. ASSUME UNCHANGED <<balance, legs>>
         PROVE  Keeps
    BY <2>1, <2>10
  <2>11. ASSUME NEW o, NEW ts, AuthorizeLeg(o, ts)
         PROVE  Keeps
    BY <2>10, <2>11 DEF AuthorizeLeg, htlcVars
  <2>12. CASE Tick /\ UNCHANGED settlementVars
    BY <2>10, <2>12 DEF Tick, settlementVars
  <2> QED BY <2>4, <2>5, <2>6, <2>7, <2>8, <2>9, <2>11, <2>12 DEF Next, AccountCalls
<1> QED BY <1>1, BothContractsAreSolvent, PTL DEF Spec, KeepsNothing

-----------------------------------------------------------------------------
(* The refinement: each transaction is a step of the agreement, or none *)

stageBar == [id \in Ids |-> Stage(id)]
ownerBar == [id \in Ids |-> Owner(id)]
fundsBar == [t \in Assets |-> [a \in Senders |-> balance[t][a]]]

\* A transaction that writes one record changes the stage of one agreement.
LEMMA StageOfOne ==
    ASSUME HtlcTypeOK, NEW id \in Ids, NEW r, swaps' = [swaps EXCEPT ![id] = r]
    PROVE  stageBar' = [stageBar EXCEPT ![id] = Stage(id)']
BY DEF HtlcTypeOK, stageBar, Stage

LEMMA Stages ==
    ASSUME NEW id
    PROVE  /\ ~swaps[id].exists => Stage(id) = "none"
           /\ swaps[id] = Locked => Stage(id) = "locked"
           /\ swaps'[id] = Locked => Stage(id)' = "locked"
           /\ swaps'[id] = Redeemed => Stage(id)' = "released"
           /\ swaps'[id] = Returned => Stage(id)' = "returned"
BY DEF Stage, Locked, Redeemed, Returned, NoSwap

\* Units that go into the HTLC are given from one watched party.
LEMMA FundsDebited ==
    ASSUME HtlcTypeOK, HtlcTypeOK', NEW id \in Ids, id.token \in Assets,
           NEW party \in Senders, Moves(id, party, HtlcAddr)
    PROVE  fundsBar' = [fundsBar EXCEPT ![id.token][party] = @ - id.amount]
<1>1. HtlcAddr \notin Senders /\ Senders \subseteq Addresses /\ id.amount \in Nat
  BY HtlcConstants, IdFields DEF Addresses
<1>2. \A t \in Assets, a \in Senders : balance[t][a] \in Nat
  BY <1>1 DEF HtlcTypeOK
<1>3. ASSUME NEW t \in Assets, NEW a \in Senders
      PROVE  balance'[t][a] = balance[t][a]
                 - (IF t = id.token /\ a = party THEN id.amount ELSE 0)
  BY <1>1, <1>2 DEF Moves, At
<1> DEFINE after == [fundsBar EXCEPT ![id.token][party] = @ - id.amount]
<1>4. ASSUME NEW t \in Assets
      PROVE  after[t] = [a \in Senders |-> balance'[t][a]]
  <2>1. after[t] = IF t = id.token THEN [fundsBar[t] EXCEPT ![party] = @ - id.amount]
                   ELSE fundsBar[t]
    BY DEF fundsBar
  <2>2. fundsBar[t] = [a \in Senders |-> balance[t][a]]
    BY DEF fundsBar
  <2> HIDE DEF after
  <2>3. ASSUME NEW a \in Senders
        PROVE  after[t][a] = balance'[t][a]
    BY <1>2, <1>3, <2>1, <2>2
  <2>4. after[t] = [a \in Senders |-> after[t][a]]
    BY <2>1, <2>2
  <2> QED BY <2>3, <2>4
<1>5. after = [t \in Assets |-> after[t]]
  BY DEF fundsBar
<1>6. fundsBar' = [t \in Assets |-> [a \in Senders |-> balance'[t][a]]]
  BY DEF fundsBar
<1> HIDE DEF after
<1>7. fundsBar' = after
  BY <1>4, <1>5, <1>6
<1> QED BY <1>7 DEF after

\* Units that leave it are credited to one party, if that one is watched.
LEMMA FundsCredited ==
    ASSUME HtlcTypeOK, HtlcTypeOK', NEW id \in Ids, id.token \in Assets,
           NEW party \in Addresses, Moves(id, HtlcAddr, party)
    PROVE  fundsBar' = Agreement!Credit(fundsBar, id.token, party, id.amount)
<1>1. HtlcAddr \notin Senders /\ Senders \subseteq Addresses /\ id.amount \in Nat
  BY HtlcConstants, IdFields DEF Addresses
<1>2. \A t \in Assets, a \in Senders : balance[t][a] \in Nat
  BY <1>1 DEF HtlcTypeOK
<1>3. ASSUME NEW t \in Assets, NEW a \in Senders
      PROVE  balance'[t][a] = balance[t][a]
                 + (IF t = id.token /\ a = party THEN id.amount ELSE 0)
  BY <1>1, <1>2 DEF Moves, At
<1>6. fundsBar' = [t \in Assets |-> [a \in Senders |-> balance'[t][a]]]
  BY DEF fundsBar
<1>7. CASE party \in Senders
  <2> DEFINE after == [fundsBar EXCEPT ![id.token][party] = @ + id.amount]
  <2>1. ASSUME NEW t \in Assets
        PROVE  after[t] = [a \in Senders |-> balance'[t][a]]
    <3>1. after[t] = IF t = id.token THEN [fundsBar[t] EXCEPT ![party] = @ + id.amount]
                     ELSE fundsBar[t]
      BY DEF fundsBar
    <3>2. fundsBar[t] = [a \in Senders |-> balance[t][a]]
      BY DEF fundsBar
    <3> HIDE DEF after
    <3>3. ASSUME NEW a \in Senders
          PROVE  after[t][a] = balance'[t][a]
      BY <1>2, <1>3, <1>7, <3>1, <3>2
    <3>4. after[t] = [a \in Senders |-> after[t][a]]
      BY <3>1, <3>2
    <3> QED BY <3>3, <3>4
  <2>2. after = [t \in Assets |-> after[t]]
    BY DEF fundsBar
  <2>3. Agreement!Credit(fundsBar, id.token, party, id.amount) = after
    BY <1>7 DEF Agreement!Credit
  <2> HIDE DEF after
  <2> QED BY <1>6, <2>1, <2>2, <2>3
<1>8. CASE party \notin Senders
  <2>1. \A t \in Assets, a \in Senders : balance'[t][a] = balance[t][a]
    BY <1>2, <1>3, <1>8
  <2>2. fundsBar' = fundsBar
    BY <1>6, <2>1 DEF fundsBar
  <2> QED BY <1>8, <2>2 DEF Agreement!Credit
<1> QED BY <1>7, <1>8

\* The agreement's variables under the mapping, as its actions name them.
EscrowLock(id, party) ==
    /\ stageBar[id] = "none"
    /\ timestamp < id.timelock
    /\ id.token \in Assets
    /\ 0 < id.amount /\ id.amount <= fundsBar[id.token][party]
    /\ stageBar' = [stageBar EXCEPT ![id] = "locked"]
    /\ ownerBar' = [ownerBar EXCEPT ![id] = party]
    /\ fundsBar' = [fundsBar EXCEPT ![id.token][party] = @ - id.amount]
    /\ timestamp' = timestamp

EscrowEnd(id, stage, party) ==
    /\ stageBar[id] = "locked"
    /\ stageBar' = [stageBar EXCEPT ![id] = stage]
    /\ fundsBar' = Agreement!Credit(fundsBar, id.token, party, id.amount)
    /\ ownerBar' = ownerBar /\ timestamp' = timestamp

LEMMA NewSwapLocks ==
    ASSUME SInv, SInv', NEW id \in Ids, id.sender \in Accounts, NewSwap(id),
           UNCHANGED settlementVars
    PROVE  EscrowLock(id, id.sender)
<1>1. HtlcTypeOK /\ HtlcTypeOK' /\ id.sender \in Senders /\ id.amount \in Nat
      /\ id.sender # SettlementAddr
  BY IdFields DEF SInv, IInv, TypeOK
<1>2. /\ ~swaps[id].exists /\ timestamp < id.timelock /\ id.token \in Assets
      /\ id.amount # 0 /\ balance[id.token][id.sender] >= id.amount
      /\ swaps' = [swaps EXCEPT ![id] = Locked] /\ timestamp' = timestamp
  BY DEF NewSwap, CanNewSwap, AfterNewSwap
<1>3. stageBar[id] = "none" /\ stageBar' = [stageBar EXCEPT ![id] = "locked"]
  <2>1. swaps'[id] = Locked
    BY <1>1, <1>2 DEF HtlcTypeOK
  <2>2. Stage(id) = "none" /\ Stage(id)' = "locked"
    BY <1>2, <2>1, Stages
  <2> QED BY <1>1, <1>2, <2>2, StageOfOne DEF stageBar
<1>4. ownerBar' = [ownerBar EXCEPT ![id] = id.sender]
  <2>1. Locked.exists /\ legs' = legs
    BY DEF Locked, NoSwap, settlementVars
  <2> QED BY <1>1, <1>2, <2>1 DEF ownerBar, Owner, HtlcTypeOK
<1>5. fundsBar' = [fundsBar EXCEPT ![id.token][id.sender] = @ - id.amount]
  BY <1>1, <1>2, NewSwapMoves, FundsDebited
<1>6. 0 < id.amount /\ id.amount <= fundsBar[id.token][id.sender]
  BY <1>1, <1>2 DEF fundsBar, HtlcTypeOK, Addresses
<1> QED BY <1>2, <1>3, <1>4, <1>5, <1>6 DEF EscrowLock

LEMMA SettleLegLocks ==
    ASSUME SInv, SInv', NEW a, NEW o \in Orders, NEW id \in LegIds, SettleLeg(a, o, id)
    PROVE  EscrowLock(id, o.maker)
<1>1. /\ TypeOK /\ HtlcTypeOK /\ HtlcTypeOK' /\ id \in Ids /\ id.amount \in Nat
      /\ id.sender = SettlementAddr /\ o.maker \in Senders
  BY SettledLeg DEF SInv, IInv, TypeOK, Senders
<1>2. /\ ~swaps[id].exists /\ timestamp < id.timelock /\ id.token \in Assets
      /\ id.amount # 0 /\ balance[id.token][o.maker] >= id.amount
      /\ swaps' = [swaps EXCEPT ![id] = Locked] /\ timestamp' = timestamp
  BY SettledLeg DEF SettleLeg, ReceiveAndLock, CanNewSwap, AfterNewSwap
<1>3. stageBar[id] = "none" /\ stageBar' = [stageBar EXCEPT ![id] = "locked"]
  <2>1. swaps'[id] = Locked
    BY <1>1, <1>2 DEF HtlcTypeOK
  <2>2. Stage(id) = "none" /\ Stage(id)' = "locked"
    BY <1>2, <2>1, Stages
  <2> QED BY <1>1, <1>2, <2>2, StageOfOne DEF stageBar
<1>4. ownerBar' = [ownerBar EXCEPT ![id] = o.maker]
  <2>1. legs' = [legs EXCEPT ![id] =
                    [maker |-> o.maker, token |-> o.sellToken,
                     amount |-> o.sellAmount, refunded |-> FALSE]]
    BY DEF SettleLeg
  <2>2. /\ legs'[id].maker = o.maker
        /\ \A other \in LegIds \ {id} : legs'[other] = legs[other]
    BY <1>1, <2>1 DEF TypeOK
  <2>3. \A other \in Ids \ {id} : swaps'[other] = swaps[other]
    BY <1>1, <1>2 DEF HtlcTypeOK
  <2>4. \A other \in Ids : other.sender = SettlementAddr => other \in LegIds
    BY DEF LegIds
  <2>5. \A other \in Ids :
            Owner(other)' = IF other = id THEN o.maker ELSE Owner(other)
    BY <1>1, <2>2, <2>3, <2>4 DEF Owner
  <2> QED BY <1>1, <2>5 DEF ownerBar
<1>5. fundsBar' = [fundsBar EXCEPT ![id.token][o.maker] = @ - id.amount]
  BY <1>1, <1>2, SettleLegMoves, FundsDebited
<1>6. 0 < id.amount /\ id.amount <= fundsBar[id.token][o.maker]
  BY <1>1, <1>2 DEF fundsBar, HtlcTypeOK, Addresses
<1> QED BY <1>2, <1>3, <1>4, <1>5, <1>6 DEF EscrowLock

\* The owner of an agreement does not change when it ends.
LEMMA EndKeepsOwner ==
    ASSUME HtlcTypeOK, NEW id \in Ids, swaps[id] = Locked, NEW r, r.exists,
           swaps' = [swaps EXCEPT ![id] = r],
           \A leg \in LegIds : legs'[leg].maker = legs[leg].maker
    PROVE  ownerBar' = ownerBar
<1>1. \A other \in Ids : swaps'[other].exists = swaps[other].exists
  BY DEF HtlcTypeOK, Locked, NoSwap
<1>2. \A other \in Ids : other.sender = SettlementAddr => other \in LegIds
  BY DEF LegIds
<1>3. \A other \in Ids : Owner(other)' = Owner(other)
  BY <1>1, <1>2 DEF Owner
<1> QED BY <1>3 DEF ownerBar

LEMMA EndsAgreement ==
    ASSUME HtlcTypeOK, HtlcTypeOK', LocksAreAssets,
           NEW id \in Ids, swaps[id] = Locked, NEW r \in {Redeemed, Returned},
           swaps' = [swaps EXCEPT ![id] = r], timestamp' = timestamp,
           NEW party \in Addresses, Moves(id, HtlcAddr, party),
           \A leg \in LegIds : legs'[leg].maker = legs[leg].maker
    PROVE  EscrowEnd(id, IF r = Redeemed THEN "released" ELSE "returned", party)
<1>1. Redeemed.exists /\ Returned.exists /\ Locked.exists /\ Redeemed # Returned
  BY DEF Redeemed, Returned, Locked, NoSwap
<1>2. id.token \in Assets
  BY <1>1 DEF LocksAreAssets
<1>3. swaps'[id] = r
  BY DEF HtlcTypeOK
<1>4. Stage(id) = "locked" /\ Stage(id)' = IF r = Redeemed THEN "released" ELSE "returned"
  BY <1>1, <1>3, Stages
<1>5. stageBar' = [stageBar EXCEPT ![id] = Stage(id)'] /\ stageBar[id] = Stage(id)
  BY StageOfOne DEF stageBar
<1>6. ownerBar' = ownerBar
  BY <1>1, EndKeepsOwner
<1>7. fundsBar' = Agreement!Credit(fundsBar, id.token, party, id.amount)
  BY <1>2, FundsCredited
<1> QED BY <1>4, <1>5, <1>6, <1>7 DEF EscrowEnd

LEMMA RedeemReleases ==
    ASSUME SInv, SInv', NEW id \in Ids, NEW p, Redeem(id, p), UNCHANGED settlementVars
    PROVE  timestamp < id.timelock /\ EscrowEnd(id, "released", id.recipient)
<1>1. /\ HtlcTypeOK /\ HtlcTypeOK' /\ LocksAreAssets /\ swaps[id] \in SwapRecords
      /\ Active(swaps[id]) /\ id.recipient \in Addresses
  BY IdFields DEF SInv, IInv, TypeOK, HtlcTypeOK, Redeem, CanRedeem, Active
<1>2. swaps[id] = Locked /\ swaps' = [swaps EXCEPT ![id] = Redeemed]
  BY <1>1, RecordWrites DEF Redeem
<1>3. timestamp < id.timelock /\ timestamp' = timestamp /\ legs' = legs
  BY DEF Redeem, CanRedeem, settlementVars
<1> QED BY <1>1, <1>2, <1>3, RedeemMoves, EndsAgreement

LEMMA RefundReturns ==
    ASSUME SInv, SInv', NEW id \in Ids, NEW a \in Accounts, Refund(a, id),
           UNCHANGED settlementVars
    PROVE  timestamp >= id.timelock /\ EscrowEnd(id, "returned", ownerBar[id])
<1>1. /\ HtlcTypeOK /\ HtlcTypeOK' /\ LocksAreAssets /\ swaps[id] \in SwapRecords
      /\ Active(swaps[id]) /\ id.sender \in Addresses /\ swaps[id].exists
  BY IdFields DEF SInv, IInv, TypeOK, HtlcTypeOK, Refund, CanRefund, Active, Addresses
<1>2. swaps[id] = Locked /\ swaps' = [swaps EXCEPT ![id] = Returned]
  BY <1>1, RecordWrites DEF Refund
<1>3. timestamp >= id.timelock /\ timestamp' = timestamp /\ legs' = legs
  BY DEF Refund, CanRefund, settlementVars
<1>4. ownerBar[id] = id.sender
  BY <1>1, HtlcConstants DEF ownerBar, Owner, Refund, CanRefund
<1>5. Redeemed # Returned
  BY DEF Redeemed, Returned, Locked, NoSwap
<1> QED BY <1>1, <1>2, <1>3, <1>4, <1>5, RefundMoves, EndsAgreement

LEMMA RefundLegReturns ==
    ASSUME SInv, SInv', NEW id \in LegIds, RefundLeg(id)
    PROVE  /\ id \in Ids
           /\ timestamp >= id.timelock /\ EscrowEnd(id, "returned", ownerBar[id])
<1>1. TypeOK /\ HtlcTypeOK /\ HtlcTypeOK' /\ LocksAreAssets
  BY DEF SInv, IInv, TypeOK
<1>2. /\ id \in Ids /\ swaps[id] = Locked /\ legs[id].maker \in Addresses
      /\ swaps' = [swaps EXCEPT ![id] = Returned]
  BY <1>1, RefundableLeg DEF RefundLeg, Addresses, Senders
<1>3. timestamp >= id.timelock /\ timestamp' = timestamp
  BY DEF RefundLeg, CanRefundLeg, CanRefund
<1>4. ownerBar[id] = legs[id].maker
  BY <1>2 DEF ownerBar, Owner, LegIds
<1>5. \A leg \in LegIds : legs'[leg].maker = legs[leg].maker
  BY <1>1 DEF RefundLeg, TypeOK, LegRecord
<1>6. Redeemed # Returned
  BY DEF Redeemed, Returned, Locked, NoSwap
<1> QED BY <1>1, <1>2, <1>3, <1>4, <1>5, <1>6, RefundLegMoves, EndsAgreement

LEMMA DonateGives ==
    ASSUME SInv, NEW a \in Accounts, NEW u \in Assets, Donate(a, u)
    PROVE  /\ fundsBar[u][a] >= 1
           /\ LET given == [fundsBar EXCEPT ![u][a] = @ - 1]
              IN  fundsBar' = [given EXCEPT ![u][SettlementAddr] = @ + 1]
           /\ stageBar' = stageBar /\ ownerBar' = ownerBar /\ timestamp' = timestamp
<1>1. TypeOK /\ a \in Senders /\ SettlementAddr \in Senders /\ a # SettlementAddr
  BY HtlcConstants DEF SInv, IInv, Senders
<1>2. fundsBar[u][a] >= 1
  BY <1>1 DEF fundsBar, Donate
<1>3. stageBar' = stageBar /\ ownerBar' = ownerBar /\ timestamp' = timestamp
  BY DEF Donate, settlementVars, stageBar, ownerBar, Stage, Owner
<1>4. \A t \in Assets, x \in Senders : balance[t][x] \in Nat
  BY <1>1 DEF TypeOK, HtlcTypeOK, Addresses
<1>5. ASSUME NEW t \in Assets, NEW x \in Senders
      PROVE  balance'[t][x] = balance[t][x] - (IF t = u /\ x = a THEN 1 ELSE 0)
                                + (IF t = u /\ x = SettlementAddr THEN 1 ELSE 0)
  BY <1>1, DonateEffect DEF At, Addresses
<1>6. fundsBar' = [t \in Assets |-> [x \in Senders |-> balance'[t][x]]]
  BY DEF fundsBar
<1> DEFINE given == [fundsBar EXCEPT ![u][a] = @ - 1]
           after == [given EXCEPT ![u][SettlementAddr] = @ + 1]
<1>7. /\ given = [t \in Assets |-> given[t]]
      /\ \A t \in Assets : given[t] = [x \in Senders |->
             balance[t][x] - (IF t = u /\ x = a THEN 1 ELSE 0)]
  <2>1. given = [t \in Assets |-> given[t]]
    BY DEF fundsBar
  <2>2. ASSUME NEW t \in Assets
        PROVE  given[t] = [x \in Senders |->
                   balance[t][x] - (IF t = u /\ x = a THEN 1 ELSE 0)]
    BY <1>1, <1>4 DEF fundsBar
  <2> QED BY <2>1, <2>2
<1> HIDE DEF given
<1>8. /\ after = [t \in Assets |-> after[t]]
      /\ \A t \in Assets : after[t] = [x \in Senders |-> balance'[t][x]]
  <2>1. after = [t \in Assets |-> after[t]]
    BY <1>7
  <2>2. ASSUME NEW t \in Assets
        PROVE  after[t] = [x \in Senders |-> balance'[t][x]]
    <3>1. after[t] = IF t = u THEN [given[t] EXCEPT ![SettlementAddr] = @ + 1]
                     ELSE given[t]
      BY <1>7
    <3> HIDE DEF after
    <3>2. after[t] = [x \in Senders |-> after[t][x]]
      BY <1>7, <3>1
    <3>3. ASSUME NEW x \in Senders PROVE after[t][x] = balance'[t][x]
      BY <1>1, <1>4, <1>5, <1>7, <3>1
    <3> QED BY <3>2, <3>3
  <2> QED BY <2>1, <2>2
<1> HIDE DEF after
<1>9. fundsBar' = after
  BY <1>6, <1>8
<1> QED BY <1>2, <1>3, <1>9 DEF after, given

\* Each transaction is a step of the agreement under the mapping; authorizeLeg
\* only spends a nonce, which the agreement does not see.
LEMMA EscrowStep ==
    ASSUME SInv, SInv', [Next]_vars
    PROVE  [Agreement!EscrowNext]_(Agreement!escrowVars)
<1> DEFINE Step == [Agreement!EscrowNext]_(Agreement!escrowVars)
<1>1. ASSUME NEW id \in Ids, NEW party \in Senders, EscrowLock(id, party)
      PROVE  Step
  <2>1. Agreement!Lock(id, party)
    BY <1>1 DEF EscrowLock, Agreement!Lock, stageBar, ownerBar, fundsBar
  <2> QED BY <2>1 DEF Agreement!EscrowNext
<1>2. ASSUME NEW id \in Ids, timestamp < id.timelock,
             EscrowEnd(id, "released", id.recipient)
      PROVE  Step
  <2>1. Agreement!Release(id)
    BY <1>2 DEF EscrowEnd, Agreement!Release, stageBar, ownerBar, fundsBar
  <2> QED BY <2>1 DEF Agreement!EscrowNext
<1>3. ASSUME NEW id \in Ids, timestamp >= id.timelock,
             EscrowEnd(id, "returned", ownerBar[id])
      PROVE  Step
  <2>1. Agreement!Return(id)
    BY <1>3 DEF EscrowEnd, Agreement!Return, stageBar, ownerBar, fundsBar
  <2> QED BY <2>1 DEF Agreement!EscrowNext
<1>4. CASE AccountCalls /\ UNCHANGED settlementVars
  <2>1. ASSUME NEW id \in Ids, id.sender \in Accounts, NewSwap(id)
        PROVE  Step
    <3>1. EscrowLock(id, id.sender) /\ id.sender \in Senders
      BY <1>4, <2>1, NewSwapLocks, IdFields
    <3> QED BY <1>1, <3>1
  <2>2. ASSUME NEW id \in Ids, NEW p, Redeem(id, p)
        PROVE  Step
    BY <1>2, <1>4, <2>2, RedeemReleases
  <2>3. ASSUME NEW id \in Ids, NEW a \in Accounts, Refund(a, id)
        PROVE  Step
    BY <1>3, <1>4, <2>3, RefundReturns
  <2> QED BY <1>4, <2>1, <2>2, <2>3 DEF AccountCalls
<1>5. CASE Tick /\ UNCHANGED settlementVars
  <2>1. Agreement!Advance
    BY <1>5 DEF Tick, settlementVars, Agreement!Advance, Stage, Owner
  <2> QED BY <2>1 DEF Agreement!EscrowNext
<1>6. ASSUME UNCHANGED <<swaps, balance, timestamp, legs>>
      PROVE  Step
  BY <1>6 DEF Agreement!escrowVars, Stage, Owner
<1>7. ASSUME NEW o, NEW ts, AuthorizeLeg(o, ts)
      PROVE  Step
  BY <1>6, <1>7 DEF AuthorizeLeg, htlcVars
<1>8. ASSUME NEW a \in Accounts, NEW o \in Orders, NEW id \in LegIds,
             SettleLeg(a, o, id)
      PROVE  Step
  <2>1. id \in Ids /\ o.maker \in Senders /\ EscrowLock(id, o.maker)
    BY <1>8, SettledLeg, SettleLegLocks DEF Senders
  <2> QED BY <1>1, <2>1
<1>9. ASSUME NEW id \in LegIds, RefundLeg(id)
      PROVE  Step
  BY <1>3, <1>9, RefundLegReturns
<1>10. ASSUME NEW a \in Accounts, NEW u \in Assets, Donate(a, u)
       PROVE  Step
  <2>1. Agreement!Give(u, a, SettlementAddr)
    BY <1>10, DonateGives DEF Agreement!Give, stageBar, ownerBar, fundsBar
  <2> QED BY <2>1 DEF Agreement!EscrowNext, Senders
<1>11. CASE UNCHANGED vars
  BY <1>6, <1>11 DEF vars
<1> QED BY <1>4, <1>5, <1>7, <1>8, <1>9, <1>10, <1>11 DEF Next

\* Both contracts together implement the abstract agreement: an owner pays
\* once, and its units are released to the recipient before the timelock or
\* returned to that owner from the timelock on, and nobody's funds change
\* otherwise, whichever contract is called and whoever calls it.
THEOREM ContractsImplementEscrow == Spec => ImplementsEscrow
<1>1. Init => Agreement!EscrowInit
  <2> SUFFICES ASSUME Init
               PROVE  Agreement!EscrowInit
    OBVIOUS
  <2>1. \A id \in Ids : Stage(id) = "none"
    BY DEF Init, HtlcInit, Stage, NoSwap
  <2>2. \A id \in Ids : Owner(id) = NoOne
    BY DEF Init, HtlcInit, Owner, NoSwap, NoLeg, LegIds
  <2>3. [t \in Assets |-> [a \in Senders |-> balance[t][a]]]
            \in [Assets -> [Senders -> Nat]]
    BY HtlcInitType DEF Init, HtlcTypeOK, Addresses
  <2> QED BY <2>1, <2>2, <2>3 DEF Init, HtlcInit, Agreement!EscrowInit
<1>2. SInv /\ SInv' /\ [Next]_vars => [Agreement!EscrowNext]_(Agreement!escrowVars)
  BY EscrowStep
<1> QED BY <1>1, <1>2, BothContractsAreSolvent, PTL
           DEF Spec, ImplementsEscrow, Agreement!EscrowSpec
=============================================================================
