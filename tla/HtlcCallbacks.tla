---------------------------- MODULE HtlcCallbacks ----------------------------
(***************************************************************************)
(* HashedTimelock when the code it calls calls it back: a token may run    *)
(* its sender's or recipient's code before or after it moves the units,    *)
(* and a native payout runs the recipient's.  newSwap takes the units      *)
(* before it writes the record, redeem and refund write before they pay.   *)
(*                                                                         *)
(* The steps between a Begin and its Return belong to one transaction;     *)
(* time stands still until the outermost call has returned.  A transaction *)
(* that reverts in the end leaves no trace and is not followed further.    *)
(***************************************************************************)
EXTENDS HashedTimelock, SequencesExt

CONSTANTS
    CallbackTokens,  \* the tokens that call back
    MaxDepth         \* bound on nested calls

ASSUME CallbackConstants == CallbackTokens \subseteq TokenContracts /\ MaxDepth \in Nat

VARIABLE calls   \* the external calls in progress, the innermost last

callVars == <<swaps, balance, timestamp, calls>>

\* A call that moves id.amount; what is written to swaps[id] when it returns
\* is a set of no or one record.
Call(id, from, to, paid, writes) ==
    [id |-> id, from |-> from, to |-> to, paid |-> paid, writes |-> writes]

Enter(call) ==
    /\ Len(calls) < MaxDepth
    /\ calls' = Append(calls, call)

-----------------------------------------------------------------------------
\* newSwap up to _safeTransferFrom: all checks are made, nothing is written.
BeginNewSwap(id) ==
    /\ id.sender \in Accounts /\ id.token \in CallbackTokens
    /\ CanNewSwap(swaps[id], id, timestamp)
    /\ Enter(Call(id, id.sender, HtlcAddr, FALSE, {AfterNewSwap(swaps[id])}))
    /\ UNCHANGED htlcVars

\* _payout after the record was written.  The native coin moves before the
\* recipient's code runs.
BeginPayout(id, to, record) ==
    /\ swaps' = [swaps EXCEPT ![id] = record]
    /\ UNCHANGED timestamp
    /\ \/ /\ id.token \in CallbackTokens
          /\ Enter(Call(id, HtlcAddr, to, FALSE, {}))
          /\ UNCHANGED balance
       \/ /\ id.token = Native
          /\ CanReceive(id.token, to)
          /\ balance[id.token][HtlcAddr] >= id.amount
          /\ balance' = Transfer(balance, id.token, HtlcAddr, to, id.amount)
          /\ Enter(Call(id, HtlcAddr, to, TRUE, {}))

\* Mutant: redeem pays first and sets withdrawn afterwards.
MutBeginRedeem(id, preimage) ==
    /\ CanRedeem(swaps[id], id, preimage, timestamp)
    /\ id.token \in CallbackTokens
    /\ Enter(Call(id, HtlcAddr, id.recipient, FALSE, {AfterRedeem(swaps[id])}))
    /\ UNCHANGED htlcVars

BeginRedeem(id, preimage) ==
    /\ CanRedeem(swaps[id], id, preimage, timestamp)
    /\ BeginPayout(id, id.recipient, AfterRedeem(swaps[id]))

BeginRefund(msgSender, id) ==
    /\ CanRefund(swaps[id], id, msgSender, timestamp)
    /\ BeginPayout(id, id.sender, AfterRefund(swaps[id]))

\* The token that was called moves the units.
MoveUnits ==
    /\ calls # <<>>
    /\ LET call == Last(calls)
           id   == call.id
       IN  /\ ~call.paid
           /\ balance[id.token][call.from] >= id.amount
           /\ balance' = Transfer(balance, id.token, call.from, call.to, id.amount)
           /\ calls' = [calls EXCEPT ![Len(calls)].paid = TRUE]
    /\ UNCHANGED <<swaps, timestamp>>

\* The innermost call returns to the function that made it, which ends.
Return ==
    /\ calls # <<>>
    /\ LET call == Last(calls)
       IN  /\ call.paid
           /\ swaps' = [swaps EXCEPT ![call.id] =
                  IF call.writes = {} THEN @ ELSE CHOOSE r \in call.writes : TRUE]
    /\ calls' = Front(calls)
    /\ UNCHANGED <<balance, timestamp>>

\* A call of a function whose payment calls nobody back.
Atomic(id) == id.token \notin CallbackTokens

CallbackInit == HtlcInit /\ calls = <<>>

CallbackNext ==
    \/ \E id \in Ids : BeginNewSwap(id)
    \/ \E id \in Ids, p \in Preimages : BeginRedeem(id, p)
    \/ \E id \in Ids, a \in Accounts : BeginRefund(a, id)
    \/ MoveUnits
    \/ Return
    \/ \E id \in Ids : Atomic(id) /\ id.sender \in Accounts /\ NewSwap(id) /\ UNCHANGED calls
    \/ \E id \in Ids, p \in Preimages : Atomic(id) /\ Redeem(id, p) /\ UNCHANGED calls
    \/ \E id \in Ids, a \in Accounts : Atomic(id) /\ Refund(a, id) /\ UNCHANGED calls
    \/ calls = <<>> /\ Tick /\ UNCHANGED calls

CallbackSpec == CallbackInit /\ [][CallbackNext]_callVars

-----------------------------------------------------------------------------
CallAmounts == [i \in DOMAIN calls |-> calls[i].id.amount]

\* What newSwap was promised and has in hand but not yet recorded.
Taken(t) ==
    SumFunctionOnSet(CallAmounts,
        {i \in DOMAIN calls : calls[i].id.token = t /\ calls[i].paid
                              /\ calls[i].to = HtlcAddr /\ calls[i].writes # {}})

\* What a payout has been written off for and has not left yet.
Due(t) ==
    SumFunctionOnSet(CallAmounts,
        {i \in DOMAIN calls : calls[i].id.token = t /\ ~calls[i].paid
                              /\ calls[i].from = HtlcAddr /\ calls[i].writes = {}})

\* In the middle of any nest of calls the contract holds what its active
\* swaps, the locks about to be recorded and the payouts under way add up to:
\* no call back takes what belongs to another swap, although newSwap writes
\* its record last and there is no reentrancy lock.
SolventInCalls == \A t \in Assets : balance[t][HtlcAddr] >= Owed(t) + Taken(t) + Due(t)

\* Swaps of the native coin and of tokens that do not call back stay as they
\* ended, whatever is called from within the payments of others.
FinalDespiteCallbacks ==
    [][\A id \in Ids : Atomic(id) =>
          /\ swaps[id].exists => swaps'[id].exists
          /\ swaps[id].exists /\ ~Active(swaps[id]) => swaps'[id] = swaps[id]]_callVars
=============================================================================
