----------------------------- MODULE WalletSwap -----------------------------
(***************************************************************************)
(* A whole swap: two wallets running the executor of swapkit/src/exec over *)
(* the HTLCs of two chains, with a counterparty and third parties who may  *)
(* call the contracts as they like.                                        *)
(*                                                                         *)
(* One step() of an executor is cut at its awaits:                         *)
(*                                                                         *)
(*   idle --ReadClock--> observe --Plan--> reread --ReadClock-->           *)
(*     reobserve --Send--> sent --Mine--> idle                             *)
(*                                                                         *)
(* and every other step of every other actor may fall in between; at       *)
(* observe and reobserve a wallet may panic, and stays so.  The            *)
(* refresh before the plan and the one before the broadcast read the clock *)
(* first and the chains afterwards, as refresh_observations does.          *)
(***************************************************************************)
EXTENDS Htlc, SwapMachine, FiniteSets

CONSTANTS
    Taker, Maker,  \* the two parties' addresses
    Secret,        \* the preimage the taker generates
    TakerLeg,      \* the leg the taker's wallet locks, on chain "A"
    MakerLeg,      \* the leg the maker's wallet locks, on chain "B"
    OtherLegs,     \* legs under the same hashlock that others may lock
    HonestSets,    \* who may be running the executor: a set of sets
    TakerStarts,   \* states the taker's executor may be configured with
    TakerKnowsHash,\* whether it is configured with its secret and hashlock
    LostReceipts,  \* whether a receipt may get lost after the broadcast
    MinGap,        \* min_gap, the same for both
    MinConf,       \* min_confirmations
    Lag,           \* time within which a wallet that runs ends a step
    MaxTime        \* bound on the clock

Parties == {Taker, Maker}
Chains  == {"A", "B"}
Legs    == {TakerLeg, MakerLeg} \cup OtherLegs

Terminal == {"Done", "Refunded", "CounterpartyRedeemed", "Aborted"}

Peer(p)     == IF p = Taker THEN Maker ELSE Taker
OwnLeg(p)   == IF p = Taker THEN TakerLeg ELSE MakerLeg
PeerChain(p) == OwnLeg(Peer(p)).chain

ASSUME AgreedTerms ==
    /\ Taker # Maker
    /\ TakerLeg.chain = "A" /\ TakerLeg.sender = Taker /\ TakerLeg.recipient = Maker
    /\ MakerLeg.chain = "B" /\ MakerLeg.sender = Maker /\ MakerLeg.recipient = Taker
    /\ \A id \in Legs : id.hashlock = Sha256(Secret) /\ id.timelock \in Nat
    /\ NoLock \notin Legs
    \* closed-testnet-swap.rs refuses other timelocks
    /\ TakerLeg.timelock >= MakerLeg.timelock + MinGap

\* The wallets' configurations; a wallet's own amount and timelock are a u128
\* and a u64, and the clock is far from u64::MAX, where the sums of verify.rs
\* would saturate.
ASSUME WalletConstants ==
    /\ HonestSets \subseteq SUBSET Parties
    /\ TakerStarts \subseteq SwapStates \ Terminal
    /\ TakerKnowsHash \in BOOLEAN
    /\ MinGap \in Nat /\ MinConf \in Nat /\ MaxTime \in Nat
    /\ MaxTime + MinGap <= MaxU64
    /\ Fits(TakerLeg) /\ Fits(MakerLeg)

\* What lets the maker see the secret and still redeem in time.
ASSUME Responsive == LostReceipts \in BOOLEAN /\ Lag \in Nat \ {0} /\ 2 * Lag <= MinGap

VARIABLES
    honest,       \* the parties that run the executor
    swap,         \* the two HTLCs' records, leg -> record
    first,        \* chain -> first leg ever locked there under the hashlock
    depth,        \* chain -> that leg's confirmations, counted up to MinConf
    clock,        \* block.timestamp of both chains and the wallets' clock
    secretPublic, \* a transaction carrying the preimage was broadcast
    exec,         \* party -> executor
    age           \* party -> time since its last step began

chainVars == <<swap, depth, first>>
vars == <<honest, swap, depth, first, clock, secretPublic, exec, age>>

Panicked(p) == exec[p].pc = "panicked"

Running(p) ==
    p \in honest /\ exec[p].hash /\ exec[p].state \notin Terminal /\ ~Panicked(p)

\* An executor between two steps; now and plan are scratch, written before
\* they are read again.
Idle(e) == [e EXCEPT !.pc = "idle", !.now = 0, !.plan = "Done"]

-----------------------------------------------------------------------------
(* The chains *)

Exists(id) == swap[id].exists

\* A block with the first leg of chain c in it or below it.  Nobody asks for
\* the depth of another leg.
Deepen(c) == [depth EXCEPT ![c] = IF @ < MinConf THEN @ + 1 ELSE @]

LockEffect(id) ==
    /\ swap' = [swap EXCEPT ![id] = AfterNewSwap(@)]
    /\ first' = [first EXCEPT ![id.chain] = IF @ = NoLock THEN id ELSE @]
    /\ depth' = Deepen(id.chain)

EndEffect(id, record) ==
    /\ swap' = [swap EXCEPT ![id] = record]
    /\ depth' = Deepen(id.chain)
    /\ UNCHANGED first

EmptyBlock(c) ==
    /\ first[c] # NoLock
    /\ depth' = Deepen(c)
    /\ depth' # depth
    /\ UNCHANGED <<honest, swap, first, clock, secretPublic, exec, age>>

\* Time passes only while every running wallet keeps up.
Tick ==
    /\ clock < MaxTime
    /\ \A p \in honest : Running(p) => age[p] < Lag
    /\ clock' = clock + 1
    /\ age' = [p \in Parties |-> IF Running(p) THEN age[p] + 1 ELSE age[p]]
    /\ UNCHANGED <<honest, chainVars, secretPublic, exec>>

-----------------------------------------------------------------------------
(* Parties that do not run the executor, and third parties *)

OtherLocks(id) ==
    /\ id.sender \notin honest
    /\ CanNewSwap(swap[id], id, clock)
    /\ LockEffect(id)
    /\ UNCHANGED <<honest, clock, secretPublic, exec, age>>

\* Anyone who has the preimage may redeem any leg for its recipient.
OtherRedeems(id) ==
    /\ secretPublic \/ Taker \notin honest
    /\ CanRedeem(swap[id], id, Secret, clock)
    /\ EndEffect(id, AfterRedeem(swap[id]))
    /\ secretPublic' = TRUE
    /\ UNCHANGED <<honest, clock, exec, age>>

\* refundLeg is open to anyone; without Settlement only the sender calls.
OtherRefunds(id) ==
    /\ CanRefund(swap[id], id, id.sender, clock)
    /\ EndEffect(id, AfterRefund(swap[id]))
    /\ UNCHANGED <<honest, clock, secretPublic, exec, age>>

-----------------------------------------------------------------------------
(* One wallet *)

\* Mutant: a lock is taken for confirmed at any depth.
MutShallow(p) ==
    LET id == first[PeerChain(p)]
    IN  IF id # NoLock /\ Active(swap[id]) THEN id ELSE NoLock

\* Every refresh_observations polls the HTLCs of both chains, for all the logs
\* since the last poll and before anything is decided.  A log that does not fit
\* is not behind any cursor: a poll that met it panicked.
Readable == \A id \in Legs : Exists(id) => Fits(id)

\* observe: the counterparty lock that passes the gate.  The tracker keeps
\* legs in the order of their events, and discover_contract_id takes the
\* first one of the hashlock; only an active and deep enough one is Confirmed.
\* It fits, so that observe_lock's own conversions do not fail.
ObservedLock(p) ==
    LET id == first[PeerChain(p)]
    IN  IF id # NoLock /\ Active(swap[id]) /\ depth[PeerChain(p)] >= MinConf
        THEN id ELSE NoLock

\* revealed_secret: a LogRedeem of this hashlock on the wallet's own chain.
SecretRevealed(p) ==
    \E id \in Legs : id.chain = OwnLeg(p).chain /\ swap[id].withdrawn

Context(p) ==
    [role |-> IF p = Taker THEN "Taker" ELSE "Maker",
     now |-> exec[p].now,
     myTimelock |-> OwnLeg(p).timelock,
     minGap |-> MinGap,
     hashlock |-> Sha256(Secret),
     token |-> OwnLeg(Peer(p)).token,
     amount |-> OwnLeg(Peer(p)).amount,
     recipient |-> p,
     knowsHash |-> exec[p].hash,
     knowsSecret |-> p = Taker /\ exec[p].hash,
     lock |-> ObservedLock(p),
     revealed |-> SecretRevealed(p)]

Decision(p) == NextAction(exec[p].state, Context(p))

\* refresh_observations: MissingHashlock stops it before any read.
ReadClock(p) ==
    /\ p \in honest
    /\ exec[p].hash
    /\ \/ /\ exec[p].pc = "idle"
          /\ exec[p].state \notin Terminal
          /\ exec' = [exec EXCEPT ![p].pc = "observe", ![p].now = clock]
          /\ age' = [age EXCEPT ![p] = 0]
       \/ /\ exec[p].pc = "reread"
          /\ exec' = [exec EXCEPT ![p].pc = "reobserve", ![p].now = clock]
          /\ UNCHANGED age
    /\ UNCHANGED <<honest, chainVars, clock, secretPublic>>

OnlyExec == UNCHANGED <<honest, chainVars, clock, secretPublic, age>>

\* refresh_observations returns.
Observed(p, here) == exec[p].pc = here /\ Readable

\* It panics in poll_into_tracker, and the process ends.  The executor keeps
\* nothing, and a new process that were given its state would poll from block 0
\* and panic again: this wallet takes no step any more.
Panic(p) ==
    /\ exec[p].pc \in {"observe", "reobserve"}
    /\ ~Readable
    /\ exec' = [exec EXCEPT ![p] = [Idle(@) EXCEPT !.pc = "panicked"]]
    /\ OnlyExec

GenerateSecret(p) ==
    /\ Observed(p, "observe")
    /\ Decision(p) = "GenerateSecret"
    /\ LET state == Advance(exec[p].state, "SecretGenerated")
       IN  exec' = [exec EXCEPT ![p] = Idle([@ EXCEPT !.state = state, !.hash = TRUE])]
    /\ OnlyExec

\* WaitForCounterpartyLock, WaitForSecretReveal, a Refund that is not due or
\* has no contract id, and a refund whose simulation reverts.
CanSendRefund(p) ==
    /\ exec[p].now >= OwnLeg(p).timelock
    /\ exec[p].own
    /\ CanRefund(swap[OwnLeg(p)], OwnLeg(p), OwnLeg(p).sender, clock)

Wait(p) ==
    /\ Observed(p, "observe")
    /\ \/ Decision(p) \in {"WaitForCounterpartyLock", "WaitForSecretReveal"}
       \/ Decision(p) = "Refund" /\ ~CanSendRefund(p)
    /\ exec' = [exec EXCEPT ![p] = Idle(@)]
    /\ OnlyExec

AbortSwap(p) ==
    /\ Observed(p, "observe")
    /\ Decision(p) = "Abort"
    /\ exec' = [exec EXCEPT ![p] = Idle([@ EXCEPT !.state = "Aborted"])]
    /\ OnlyExec

\* A refund is broadcast on the first observation, without a second one.
SendRefund(p) ==
    /\ Observed(p, "observe")
    /\ Decision(p) = "Refund"
    /\ CanSendRefund(p)
    /\ exec' = [exec EXCEPT ![p].pc = "sent", ![p].plan = "Refund", ![p].now = 0]
    /\ OnlyExec

Plan(p) ==
    /\ Observed(p, "observe")
    /\ Decision(p) \in {"LockMyLeg", "RedeemCounterpartyLeg"}
    /\ exec' = [exec EXCEPT ![p].pc = "reread", ![p].plan = Decision(p)]
    /\ OnlyExec

\* send() simulates the call against the latest block and fails if it reverts.
SimulationOk(p) ==
    LET target == first[PeerChain(p)]
    IN  \/ /\ exec[p].plan = "LockMyLeg"
           /\ CanNewSwap(swap[OwnLeg(p)], OwnLeg(p), clock)
        \/ /\ exec[p].plan = "RedeemCounterpartyLeg"
           /\ target # NoLock
           /\ CanRedeem(swap[target], target, Secret, clock)

\* The second observation still asks for the planned action: broadcast.  A
\* redeem makes the preimage public here, before it is mined.
Send(p) ==
    /\ Observed(p, "reobserve")
    /\ Decision(p) = exec[p].plan
    /\ SimulationOk(p)
    /\ exec' = [exec EXCEPT ![p].pc = "sent", ![p].now = 0]
    /\ secretPublic' = (secretPublic \/ exec[p].plan = "RedeemCounterpartyLeg")
    /\ UNCHANGED <<honest, chainVars, clock, age>>

\* The second observation disagrees, or the call would revert: try again.
GiveUpStep(p) ==
    /\ Observed(p, "reobserve")
    /\ Decision(p) # exec[p].plan \/ ~SimulationOk(p)
    /\ exec' = [exec EXCEPT ![p] = Idle(@)]
    /\ OnlyExec

\* The broadcast transaction is included and runs then: it may revert by now.
Included(p) ==
    LET own    == OwnLeg(p)
        target == first[PeerChain(p)]
    IN  CASE exec[p].plan = "LockMyLeg" ->
               IF CanNewSwap(swap[own], own, clock)
               THEN LockEffect(own) ELSE UNCHANGED chainVars
          [] exec[p].plan = "RedeemCounterpartyLeg" ->
               IF CanRedeem(swap[target], target, Secret, clock)
               THEN EndEffect(target, AfterRedeem(swap[target]))
               ELSE UNCHANGED chainVars
          [] exec[p].plan = "Refund" ->
               IF CanRefund(swap[own], own, own.sender, clock)
               THEN EndEffect(own, AfterRefund(swap[own]))
               ELSE UNCHANGED chainVars

\* get_receipt returns; its status is not looked at.
AfterReceipt(e) ==
    CASE e.plan = "LockMyLeg" ->
           [e EXCEPT !.own = TRUE, !.state = Advance(@, "MyLegConfirmed")]
      [] e.plan = "RedeemCounterpartyLeg" ->
           LET learned == IF e.state = "WaitingForSecret"
                          THEN Advance(e.state, "SecretObserved") ELSE e.state
           IN  [e EXCEPT !.state = Advance(learned, "RedeemConfirmed")]
      [] e.plan = "Refund" ->
           [e EXCEPT !.state = Advance("Refunding", "RefundConfirmed")]

Mine(p) ==
    /\ exec[p].pc = "sent"
    /\ Included(p)
    /\ exec' = [exec EXCEPT ![p] = Idle(AfterReceipt(@))]
    /\ UNCHANGED <<honest, clock, secretPublic, age>>

\* The transaction is included but get_receipt fails: step() returns an error
\* and own_contract_id and the state stay as they were.
LoseReceipt(p) ==
    /\ LostReceipts
    /\ exec[p].pc = "sent"
    /\ Included(p)
    /\ exec' = [exec EXCEPT ![p] = Idle(@)]
    /\ UNCHANGED <<honest, clock, secretPublic, age>>

-----------------------------------------------------------------------------
Step(p) ==
    \/ ReadClock(p)
    \/ Panic(p)
    \/ GenerateSecret(p)
    \/ Wait(p)
    \/ AbortSwap(p)
    \/ SendRefund(p)
    \/ Plan(p)
    \/ Send(p)
    \/ GiveUpStep(p)
    \/ Mine(p)

StartOf(p, state) ==
    [state |-> state, hash |-> p = Maker \/ TakerKnowsHash, own |-> FALSE,
     pc |-> "idle", now |-> 0, plan |-> "Done"]

Init ==
    /\ honest \in HonestSets
    /\ swap = [id \in Legs |-> NoSwap]
    /\ first = [c \in Chains |-> NoLock]
    /\ depth = [c \in Chains |-> 0]
    /\ clock = 0
    /\ secretPublic = FALSE
    /\ \E s \in TakerStarts :
           exec = [p \in Parties |-> StartOf(p, IF p = Taker THEN s ELSE "Start")]
    /\ age = [p \in Parties |-> 0]

Next ==
    \/ \E p \in Parties : Step(p)
    \/ \E p \in Parties : LoseReceipt(p)
    \/ \E id \in Legs : OtherLocks(id)
    \/ \E id \in Legs : OtherRedeems(id)
    \/ \E id \in Legs : OtherRefunds(id)
    \/ \E c \in Chains : EmptyBlock(c)
    \/ Tick

Spec == Init /\ [][Next]_vars

\* The executors keep stepping (run, and the runner's loop), blocks keep
\* coming and time passes.  Nothing is assumed of the others, who may also
\* lock a leg that makes every step panic.
FairSpec ==
    /\ Spec
    /\ \A p \in Parties : WF_vars(Step(p))
    /\ \A c \in Chains : WF_vars(EmptyBlock(c))
    /\ WF_vars(Tick)

-----------------------------------------------------------------------------
\* Types of the eight variables.
TypeOK ==
    /\ honest \subseteq Parties
    /\ swap \in [Legs -> SwapRecords]
    /\ first \in [Chains -> Legs \cup {NoLock}]
    /\ depth \in [Chains -> 0..MinConf]
    /\ clock \in 0..MaxTime
    /\ secretPublic \in BOOLEAN
    /\ exec \in [Parties ->
           [state : SwapStates, hash : BOOLEAN, own : BOOLEAN,
            pc : {"idle", "observe", "reread", "reobserve", "sent", "panicked"},
            now : 0..MaxTime, plan : NextActions]]
    /\ age \in [Parties -> 0..Lag]

\* The terms p agreed to, in the leg that p's wallet redeems.
Right(p, id) ==
    /\ id # NoLock
    /\ id.recipient = p
    /\ id.token = OwnLeg(Peer(p)).token
    /\ id.amount = OwnLeg(Peer(p)).amount

\* The leg p redeems, which was right for p, and pays or is still sure to pay.
Paid(p) ==
    LET id == first[PeerChain(p)]
    IN  /\ Right(p, id)
        /\ \/ swap[id].withdrawn
           \/ Active(swap[id]) /\ clock < id.timelock

\* "Never redeem or reveal the secret against an Unsafe counterparty leg":
\* once a wallet of the taker has broadcast the preimage, a leg of the agreed
\* token, amount and recipient has paid it, or its redeem is under way and the
\* leg has not expired.  (SECURITY_INVARIANTS.md, sm.rs taker_next.)
SecretSafe ==
    Taker \in honest /\ secretPublic =>
        /\ Paid(Taker)
        /\ \/ swap[first["B"]].withdrawn
           \/ exec[Taker].pc = "sent" /\ exec[Taker].plan = "RedeemCounterpartyLeg"

\* Once the maker's leg has been taken, the taker's leg has paid the maker or
\* its wallet can still redeem it: the gap between the timelocks covers the
\* time the maker needs to see the secret and use it (check_timelock_gap).
\* A wallet that lost the receipt of its own lock does not look for the secret,
\* nor does one that a log that does not fit has stopped.
MakerPaid ==
    Maker \in honest /\ ~Panicked(Maker) /\ exec[Maker].own /\ swap[MakerLeg].withdrawn
        => Paid(Maker)

\* What a wallet reports is what the chain holds, although step() does not
\* look at the status of a receipt: Refunded means its own leg came back, and
\* CounterpartyRedeemed with its own leg gone or still locked means that the
\* opposite leg paid it.  (A maker whose lock reverted, or whose refund's
\* receipt got lost, waits past its timelock, and a third leg under the hashlock
\* may then show the secret too late: that redeem reverts unnoticed.)
ReportsAreTrue ==
    \A p \in honest :
        /\ exec[p].state = "CounterpartyRedeemed"
           /\ Exists(OwnLeg(p)) /\ ~swap[OwnLeg(p)].refunded =>
               /\ Right(p, first[PeerChain(p)])
               /\ swap[first[PeerChain(p)]].withdrawn
        /\ exec[p].state = "Refunded" => swap[OwnLeg(p)].refunded

\* The preimage goes out only while the maker's leg stays open for at least
\* the margin, the duration of one step subtracted: the absolute time window
\* of check_timelock_gap, at the broadcast and not at the observation.
RevealLeavesRoom ==
    [][~secretPublic /\ secretPublic' /\ Taker \in honest =>
          clock + MinGap - Lag <= first["B"].timelock]_vars

\* "Never lock against an Unsafe counterparty leg", "Enforce minimum
\* confirmations before action": whenever the maker's lock is mined, the taker's
\* leg has the agreed terms, is that deep, has not been taken back, and
\* outlives the maker's by the margin.
NeverLocksUnsafe ==
    [][~Exists(MakerLeg) /\ swap'[MakerLeg].exists /\ Maker \in honest =>
          LET id == first["A"]
          IN  /\ Right(Maker, id)
              /\ depth["A"] >= MinConf
              /\ Exists(id) /\ ~swap[id].refunded
              /\ MakerLeg.timelock + MinGap <= id.timelock]_vars

\* A taker's wallet that locked ends with its leg back or with the agreed leg
\* of the maker, whatever legs the others lock ("If Unsafe after locking, it
\* refunds after expiry", ARCHITECTURE.md), unless it is stopped by a leg that
\* somebody locked on either chain and whose log does not fit.
TakerEnds ==
    Taker \in honest /\ Exists(TakerLeg) ~>
        \/ Panicked(Taker)
        \/ swap[TakerLeg].refunded
        \/ Right(Taker, first["B"]) /\ swap[first["B"]].withdrawn

\* The same of the maker's wallet: its leg comes back or the taker's pays it.
MakerEnds ==
    Maker \in honest /\ Exists(MakerLeg) ~>
        \/ Panicked(Maker)
        \/ swap[MakerLeg].refunded
        \/ Right(Maker, first["A"]) /\ swap[first["A"]].withdrawn

\* "Own leg is locked", "Maker has locked" (sm.rs, SwapState): a wallet in
\* these states has its leg in the contract.  The receipt of the lock is not
\* checked for failure, so a lock that reverts when mined breaks it.
LockedStateMeansLocked ==
    \A p \in honest :
        exec[p].state \in {"MyLegLocked", "WaitingForSecret"} => Exists(OwnLeg(p))

\* "Taker should generate a secret" (sm.rs, NextAction): a taker started
\* without a hashlock gets as far as having one.
TakerGetsSecret ==
    Taker \in honest ~> exec[Taker].hash
=============================================================================
