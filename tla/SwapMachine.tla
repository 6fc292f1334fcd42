---------------------------- MODULE SwapMachine ----------------------------
(***************************************************************************)
(* swapkit/src/sm.rs: the decision a wallet takes from its state and its   *)
(* context, and the state an event leads to.  Both are pure functions in   *)
(* the code and operators here.                                            *)
(*                                                                         *)
(* A context is a record with role, now, myTimelock, minGap, the expected  *)
(* hashlock, token, amount and recipient of the opposite leg (the fields   *)
(* verify.rs compares), knowsHash and knowsSecret (hashlock and secret are *)
(* Some), lock (counterparty_lock, or NoLock) and revealed                 *)
(* (revealed_secret is Some).                                              *)
(***************************************************************************)
EXTENDS Verify

CONSTANT NoLock   \* counterparty_lock = None

SwapStates == {"Start", "SecretGenerated", "MyLegLocked", "WaitingForSecret",
               "SecretLearned", "CounterpartyRedeemed", "Done", "Refunding",
               "Refunded", "Aborted"}

SwapEvents == {"SecretGenerated", "MyLegConfirmed", "CounterpartyLockObserved",
               "VerificationFailed", "SecretObserved", "TimelockExpired",
               "RedeemConfirmed", "RefundConfirmed"}

NextActions == {"GenerateSecret", "LockMyLeg", "RedeemCounterpartyLeg",
                "WaitForCounterpartyLock", "WaitForSecretReveal", "Refund",
                "Done", "Abort"}

-----------------------------------------------------------------------------
Expired(ctx) == ctx.now >= ctx.myTimelock

\* Mutant: a lock that is seen but unsafe is waited on, never refunded.
MutTakerNeverRefundsUnsafe(state, ctx) ==
    CASE state = "Start" -> "GenerateSecret"
      [] state = "SecretGenerated" -> "LockMyLeg"
      [] state = "MyLegLocked" /\ ctx.lock = NoLock ->
            IF Expired(ctx) THEN "Refund" ELSE "WaitForCounterpartyLock"
      [] state = "MyLegLocked" /\ ctx.lock # NoLock ->
            IF Safe(ctx, ctx.lock) THEN "RedeemCounterpartyLeg"
            ELSE "WaitForCounterpartyLock"
      [] OTHER -> "Abort"

TakerNext(state, ctx) ==
    CASE state = "Start" -> "GenerateSecret"
      [] state = "SecretGenerated" ->
            IF ctx.knowsHash THEN "LockMyLeg" ELSE "Abort"
      [] state = "MyLegLocked" /\ ctx.lock = NoLock ->
            IF Expired(ctx) THEN "Refund" ELSE "WaitForCounterpartyLock"
      [] state = "MyLegLocked" /\ ctx.lock # NoLock ->
            IF ~Safe(ctx, ctx.lock) THEN "Refund"
            ELSE IF ctx.knowsSecret THEN "RedeemCounterpartyLeg" ELSE "Abort"
      [] OTHER -> "Abort"

\* Mutant: the maker looks at its own deadline before the revealed secret.
MutMakerRefundsFirst(state, ctx) ==
    CASE state = "Start" ->
            IF ctx.lock = NoLock THEN "WaitForCounterpartyLock"
            ELSE IF ~Safe(ctx, ctx.lock) THEN "Abort" ELSE "LockMyLeg"
      [] state = "WaitingForSecret" ->
            IF Expired(ctx) THEN "Refund"
            ELSE IF ctx.revealed THEN "RedeemCounterpartyLeg"
            ELSE "WaitForSecretReveal"
      [] OTHER -> "Abort"

MakerNext(state, ctx) ==
    CASE state = "Start" ->
            IF ctx.lock = NoLock THEN "WaitForCounterpartyLock"
            ELSE IF ~Safe(ctx, ctx.lock) THEN "Abort"
            ELSE IF ctx.knowsHash THEN "LockMyLeg" ELSE "Abort"
      [] state = "WaitingForSecret" ->
            IF ctx.revealed THEN "RedeemCounterpartyLeg"
            ELSE IF Expired(ctx) THEN "Refund" ELSE "WaitForSecretReveal"
      [] state = "SecretLearned" ->
            IF ctx.revealed THEN "RedeemCounterpartyLeg" ELSE "Abort"
      [] OTHER -> "Abort"

NextAction(state, ctx) ==
    CASE state = "Aborted" -> "Abort"
      [] state \in {"Done", "Refunded", "CounterpartyRedeemed"} -> "Done"
      [] state = "Refunding" -> "Refund"
      [] OTHER -> IF ctx.role = "Taker" THEN TakerNext(state, ctx)
                  ELSE MakerNext(state, ctx)

-----------------------------------------------------------------------------
\* The rows of advance: <<state, event, next state>>.
Transitions ==
    {<<"Start", "SecretGenerated", "SecretGenerated">>,
     <<"SecretGenerated", "MyLegConfirmed", "MyLegLocked">>,
     <<"SecretGenerated", "TimelockExpired", "Refunding">>,
     <<"MyLegLocked", "CounterpartyLockObserved", "MyLegLocked">>,
     <<"MyLegLocked", "RedeemConfirmed", "CounterpartyRedeemed">>,
     <<"MyLegLocked", "VerificationFailed", "Refunding">>,
     <<"MyLegLocked", "TimelockExpired", "Refunding">>,
     <<"Start", "CounterpartyLockObserved", "Start">>,
     <<"Start", "MyLegConfirmed", "WaitingForSecret">>,
     <<"Start", "VerificationFailed", "Aborted">>,
     <<"WaitingForSecret", "SecretObserved", "SecretLearned">>,
     <<"WaitingForSecret", "TimelockExpired", "Refunding">>,
     <<"SecretLearned", "RedeemConfirmed", "CounterpartyRedeemed">>,
     <<"Refunding", "RefundConfirmed", "Refunded">>}
    \cup {<<"CounterpartyRedeemed", e, "Done">> : e \in SwapEvents}

Absorbing == {"Done", "Refunded", "Aborted"}

\* Every other combination is invalid and aborts.
Advance(state, event) ==
    IF state \in Absorbing THEN state
    ELSE IF \E t \in Transitions : t[1] = state /\ t[2] = event
         THEN (CHOOSE t \in Transitions : t[1] = state /\ t[2] = event)[3]
         ELSE "Aborted"
=============================================================================
