--------------------------- MODULE HashedTimelock ---------------------------
(***************************************************************************)
(* contracts/src/HashedTimelock.sol as a state machine: the swaps mapping, *)
(* the balances the contract and the accounts hold, and block.timestamp.   *)
(* One action is one successful transaction; a transaction that reverts    *)
(* changes nothing and is a stuttering step.                               *)
(***************************************************************************)
EXTENDS Htlc, Functions

CONSTANTS
    Accounts,        \* externally owned accounts and their contracts
    SettlementAddr,  \* the Settlement contract: a sender like any other here
    HtlcAddr,        \* this contract's own address
    Tokens,          \* values the token parameter takes, code or not
    Preimages,       \* secrets that exist
    Ids,             \* the contractIds callers try to use
    MaxTime,         \* bound on block.timestamp
    Supply           \* units of each asset every account starts with

Senders   == Accounts \cup {SettlementAddr}
Addresses == Senders \cup {HtlcAddr}
Hashlocks == {Sha256(p) : p \in Preimages} \cup {ZeroHash}

\* contractId = keccak256(sender, recipient, token, amount, hashlock, timelock)
ContractId == [sender : Senders, recipient : Addresses, token : Tokens,
               amount : Nat, hashlock : Hashlocks, timelock : Nat]

ASSUME HtlcConstants ==
    /\ Ids \subseteq ContractId
    /\ MaxTime \in Nat
    /\ Supply \in Nat
    /\ SettlementAddr \notin Accounts
    /\ HtlcAddr \notin Senders
    /\ Assets \subseteq Tokens

VARIABLES
    swaps,      \* contractId -> stored record
    balance,    \* asset -> address -> units held
    timestamp   \* block.timestamp

htlcVars == <<swaps, balance, timestamp>>

-----------------------------------------------------------------------------
\* A plain ERC-20 or native transfer.  Both helpers of the contract revert
\* when the token does, so a transfer either happens in full or not at all.
Transfer(bal, token, from, to, amount) ==
    LET debited == [bal EXCEPT ![token][from] = @ - amount]
    IN  [debited EXCEPT ![token][to] = @ + amount]

\* HashedTimelock has no receive function: a native payout to itself reverts.
CanReceive(token, to) == token = Native => to # HtlcAddr

\* newSwap called by msgSender, which pays: value for the native coin, a
\* transferFrom against its approval for a token.
NewSwap(id) ==
    /\ CanNewSwap(swaps[id], id, timestamp)
    /\ balance[id.token][id.sender] >= id.amount
    /\ swaps' = [swaps EXCEPT ![id] = AfterNewSwap(@)]
    /\ balance' = Transfer(balance, id.token, id.sender, HtlcAddr, id.amount)
    /\ UNCHANGED timestamp

\* redeem pays the recipient whoever sends the transaction.
Redeem(id, preimage) ==
    /\ CanRedeem(swaps[id], id, preimage, timestamp)
    /\ balance[id.token][HtlcAddr] >= id.amount
    /\ CanReceive(id.token, id.recipient)
    /\ swaps' = [swaps EXCEPT ![id] = AfterRedeem(@)]
    /\ balance' = Transfer(balance, id.token, HtlcAddr, id.recipient, id.amount)
    /\ UNCHANGED timestamp

Refund(msgSender, id) ==
    /\ CanRefund(swaps[id], id, msgSender, timestamp)
    /\ balance[id.token][HtlcAddr] >= id.amount
    /\ swaps' = [swaps EXCEPT ![id] = AfterRefund(@)]
    /\ balance' = Transfer(balance, id.token, HtlcAddr, id.sender, id.amount)
    /\ UNCHANGED timestamp

Tick ==
    /\ timestamp < MaxTime
    /\ timestamp' = timestamp + 1
    /\ UNCHANGED <<swaps, balance>>

HtlcInit ==
    /\ swaps = [id \in Ids |-> NoSwap]
    /\ balance = [t \in Assets |-> [a \in Addresses |->
                     IF a \in Accounts THEN Supply ELSE 0]]
    /\ timestamp = 0

\* Here only accounts call; Settlement adds the calls its contract makes.
AccountCalls ==
    \/ \E id \in Ids : id.sender \in Accounts /\ NewSwap(id)
    \/ \E id \in Ids, p \in Preimages : Redeem(id, p)
    \/ \E id \in Ids, a \in Accounts : Refund(a, id)

HtlcNext == AccountCalls \/ Tick

HtlcSpec == HtlcInit /\ [][HtlcNext]_htlcVars

-----------------------------------------------------------------------------
\* Types of the three variables.  A stored record is in one of four stages,
\* never both withdrawn and refunded; no balance goes below zero.
HtlcTypeOK ==
    /\ swaps \in [Ids -> SwapRecords]
    /\ balance \in [Assets -> [Addresses -> Nat]]
    /\ timestamp \in 0..MaxTime

\* What the contract owes in one asset: the amounts of its active swaps.
Owed(t) ==
    SumFunctionOnSet([id \in Ids |-> id.amount],
                     {id \in Ids : id.token = t /\ Active(swaps[id])})

\* "A redeemed swap cannot be refunded", "a refunded swap cannot be redeemed",
\* no double redeem or refund, and no id is ever used a second time: the
\* record of an ended swap is frozen, and an existing swap never unexists.
EndedIsFinal ==
    [][\A id \in Ids :
          /\ swaps[id].exists => swaps'[id].exists
          /\ swaps[id].exists /\ ~Active(swaps[id]) => swaps'[id] = swaps[id]]_htlcVars
=============================================================================
