----------------------------- MODULE Handshake -----------------------------
(***************************************************************************)
(* swapkit/src/handshake.rs: from two matched orders each party derives,   *)
(* on its own and at its own time, its role and the context it swaps with. *)
(***************************************************************************)
EXTENDS SwapMachine

CONSTANTS
    DigestRank(_),   \* the byte order of the orders' EIP-712 digests
    TakerLock,       \* policy.taker_lock_secs
    MakerLock,       \* policy.maker_lock_secs
    MinGap           \* policy.min_gap

\* Mutant: without the tie-breaker both are makers.
MutAssignRole(self, cp) ==
    IF self.createdAt <= cp.createdAt THEN "Maker" ELSE "Taker"

AssignRole(self, cp) ==
    CASE self.createdAt < cp.createdAt -> "Maker"
      [] self.createdAt > cp.createdAt -> "Taker"
      [] OTHER -> IF DigestRank(self) < DigestRank(cp) THEN "Maker" ELSE "Taker"

LockOf(role) == IF role = "Taker" THEN TakerLock ELSE MakerLock

\* derive_context: what the party expects of the opposite leg, as SwapMachine
\* takes it, together with the leg it will lock itself (my_recipient,
\* my_token, my_amount, my_timelock).
DeriveContext(self, cp, role, hashlock, knowsSecret, now) ==
    [role |-> role,
     now |-> now,
     myToken |-> self.sellToken,
     myAmount |-> self.sellAmount,
     myTimelock |-> SatAdd(now, LockOf(role)),
     myRecipient |-> cp.maker,
     minGap |-> MinGap,
     hashlock |-> hashlock,
     token |-> cp.sellToken,
     amount |-> cp.sellAmount,
     recipient |-> self.maker,
     knowsHash |-> TRUE,
     knowsSecret |-> knowsSecret,
     lock |-> NoLock,
     revealed |-> FALSE]

\* The LockMyLeg of a context, as the other party observes it.
LegOf(ctx) ==
    [hashlock |-> ctx.hashlock, token |-> ctx.myToken, amount |-> ctx.myAmount,
     recipient |-> ctx.myRecipient, timelock |-> ctx.myTimelock]
=============================================================================
