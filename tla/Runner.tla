------------------------------- MODULE Runner -------------------------------
(***************************************************************************)
(* The closed-testnet runner: one process checks its configuration, builds *)
(* both parties' executors and steps them in turn, the taker first, until  *)
(* both have redeemed, a step returns an error or max_steps is reached.    *)
(* The executors, the chains and the third parties are those of            *)
(* WalletSwap; here a step that fails ends everything, and transactions    *)
(* cost gas, which only the preflight (run before, or not) looks at.       *)
(***************************************************************************)
EXTENDS WalletSwap, Preflight

CONSTANTS
    Configs,   \* what the environment variables may say
    Worlds,    \* what the endpoints may answer
    Gas,       \* the most one transaction costs
    MaxSteps   \* max_steps

VARIABLES
    config, world, \* see Preflight; world.wei and world.tokens change
    preflighted,   \* the preflight was run and printed OK
    phase,         \* "idle", "loop" or "stopped"
    turn,          \* whose step() the loop is in
    step,          \* the loop's counter
    result         \* how the runner ended

runnerVars == <<config, world, preflighted, phase, turn, step, result>>
allVars == <<vars, runnerVars>>
control == <<phase, turn, step, result>>

LegOf(p) == IF p = Taker THEN config.A ELSE config.B

\* The legs of WalletSwap are the ones run() makes of an accepted config, the
\* clock starting when run() reads it; min_gas_balance pays for what a signer
\* may send on one chain, which is an approval, a lock and a refund.
ASSUME ConfigsGiveTheLegs ==
    \A c \in Configs, w \in Worlds :
        /\ Accepts(w, c) =>
              /\ c.A.token = TakerLeg.token /\ c.A.amount = TakerLeg.amount
              /\ c.B.token = MakerLeg.token /\ c.B.amount = MakerLeg.amount
              /\ c.takerLock = TakerLeg.timelock /\ c.makerLock = MakerLeg.timelock
              /\ c.minGap = MinGap /\ c.minConf = MinConf
        /\ c.A.signer = Taker /\ c.B.signer = Maker
        /\ c.minGas >= 3 * Gas
        \* nothing is deployed at the zero address
        /\ {c.A.rpc, c.B.rpc} \subseteq DOMAIN w.code
        /\ \A chain \in DOMAIN w.code : Zero \notin w.code[chain]

ASSUME OneRunner ==
    HonestSets = {Parties} /\ TakerStarts = {"SecretGenerated"} /\ TakerKnowsHash

\* Amounts, prices, balances and max_steps are unsigned integers.
ASSUME RunnerNumbers ==
    /\ Gas \in Nat /\ MaxSteps \in Nat
    /\ \A c \in Configs :
          /\ c.A.amount \in Nat /\ c.B.amount \in Nat
          /\ c.minGas \in Nat /\ c.minConf \in Nat
    /\ \A w \in Worlds :
          /\ w = [code |-> w.code, htlcOf |-> w.htlcOf, wei |-> w.wei, tokens |-> w.tokens]
          /\ w.wei \in [Parties -> [DOMAIN w.code -> Nat]]
          /\ w.tokens \in [Parties -> Nat]

-----------------------------------------------------------------------------
(* Before the loop *)

\* A preflight that refuses leaves everything as it is.
RunPreflight ==
    /\ phase = "idle"
    /\ ~preflighted
    /\ PreflightOk(world, config)
    /\ preflighted' = TRUE
    /\ UNCHANGED <<vars, config, world, control>>

\* The runner's own checks; with max_steps = 0 the loop ends before a step.
RunSwap ==
    /\ phase = "idle"
    /\ phase' = IF Accepts(world, config) /\ MaxSteps > 0 THEN "loop" ELSE "stopped"
    /\ result' = IF ~Accepts(world, config) THEN "refused"
                 ELSE IF MaxSteps > 0 THEN "none" ELSE "limit"
    /\ UNCHANGED <<vars, config, world, preflighted, turn, step>>

-----------------------------------------------------------------------------
(* The loop *)

MyTurn(p) == phase = "loop" /\ turn = p

Stop(why) ==
    /\ phase' = "stopped"
    /\ result' = why
    /\ UNCHANGED <<turn, step>>

\* Mutant: two executors that have ended are enough.
MutBothRedeemed(executors) ==
    \A p \in Parties : executors[p].state \in Terminal

BothRedeemed(executors) ==
    \A p \in Parties : executors[p].state \in {"CounterpartyRedeemed", "Done"}

\* The end of an iteration.
Iterate ==
    IF BothRedeemed(exec') THEN Stop("ok")
    ELSE IF step + 1 = MaxSteps THEN Stop("limit")
    ELSE /\ step' = step + 1
         /\ turn' = Taker
         /\ UNCHANGED <<phase, result>>

EndTurn(p) ==
    IF p = Taker
    THEN turn' = Maker /\ UNCHANGED <<phase, step, result>>
    ELSE Iterate

\* What a broadcast costs its signer, and on which endpoint's chain.
Chain(p, plan) ==
    IF plan = "RedeemCounterpartyLeg" THEN LegOf(Peer(p)).rpc ELSE LegOf(p).rpc

Price(p, plan) ==
    IF plan = "LockMyLeg"
    THEN (IF LegOf(p).token = Zero THEN Gas ELSE 2 * Gas) + NativeValueRequired(LegOf(p))
    ELSE Gas

TokensDue(p, plan) ==
    IF plan = "LockMyLeg" /\ LegOf(p).token # Zero THEN LegOf(p).amount ELSE 0

\* Mutant: the node takes transactions nobody can pay for.
MutCanPay(p, plan) == plan \in NextActions

CanPay(p, plan) ==
    /\ world.wei[p][Chain(p, plan)] >= Price(p, plan)
    /\ world.tokens[p] >= TokensDue(p, plan)

Pay(p, plan) ==
    world' = [world EXCEPT !.wei[p][Chain(p, plan)] = @ - Price(p, plan),
                           !.tokens[p] = @ - TokensDue(p, plan)]

\* step() gets as far as its decision, or its second observation.
Observe(p) ==
    /\ MyTurn(p)
    /\ ReadClock(p) \/ Plan(p)
    /\ UNCHANGED runnerVars

Broadcast(p) ==
    /\ MyTurn(p)
    /\ Send(p) \/ SendRefund(p)
    /\ CanPay(p, exec'[p].plan)
    /\ Pay(p, exec'[p].plan)
    /\ UNCHANGED <<config, preflighted, control>>

\* A refund that is due but has no contract id, or would revert, is an error;
\* so is a planned call that would revert.
RefundFails(p) == Decision(p) = "Refund" /\ exec[p].now >= OwnLeg(p).timelock

CallReverts(p) == Decision(p) = exec[p].plan

\* step() of a party that has ended observes and returns.
EndedStep(p) ==
    /\ exec[p].state \in Terminal
    /\ Readable
    /\ UNCHANGED vars

StepReturns(p) ==
    /\ MyTurn(p)
    /\ \/ Wait(p) /\ ~RefundFails(p)
       \/ AbortSwap(p)
       \/ GiveUpStep(p) /\ ~CallReverts(p)
       \/ Mine(p)
       \/ EndedStep(p)
    /\ EndTurn(p)
    /\ UNCHANGED <<config, world, preflighted>>

\* A read of an endpoint that fails, or a log that does not fit and panics,
\* wherever step() has one: the process with both executors ends.
ReadFails(p) ==
    /\ exec[p].pc \in {"observe", "reobserve"} \/ exec[p].state \in Terminal
    /\ UNCHANGED vars

StepFails(p) ==
    /\ MyTurn(p)
    /\ \/ ReadFails(p)
       \/ Wait(p) /\ RefundFails(p)
       \/ GiveUpStep(p) /\ CallReverts(p)
       \/ LoseReceipt(p)
    /\ Stop("error")
    /\ UNCHANGED <<config, world, preflighted>>

\* The node refuses a transaction the signer cannot pay for.
BroadcastFails(p) ==
    /\ MyTurn(p)
    /\ \/ /\ exec[p].pc = "reobserve"
          /\ CallReverts(p) /\ SimulationOk(p)
          /\ ~CanPay(p, exec[p].plan)
       \/ /\ exec[p].pc = "observe"
          /\ Decision(p) = "Refund" /\ CanSendRefund(p)
          /\ ~CanPay(p, "Refund")
    /\ Stop("unfunded")
    /\ UNCHANGED <<vars, config, world, preflighted>>

\* Everything else that happens while the runner runs.
Outside ==
    /\ phase = "loop"
    /\ \/ \E id \in Legs : OtherLocks(id)
       \/ \E id \in Legs : OtherRedeems(id)
       \/ \E id \in Legs : OtherRefunds(id)
       \/ \E c \in Chains : EmptyBlock(c)
       \/ Tick
    /\ UNCHANGED runnerVars

-----------------------------------------------------------------------------
RunnerInit ==
    /\ Init
    /\ config \in Configs
    /\ world \in Worlds
    /\ preflighted = FALSE
    /\ phase = "idle"
    /\ turn = Taker
    /\ step = 0
    /\ result = "none"

RunnerNext ==
    \/ RunPreflight
    \/ RunSwap
    \/ \E p \in Parties : Observe(p)
    \/ \E p \in Parties : Broadcast(p)
    \/ \E p \in Parties : StepReturns(p)
    \/ \E p \in Parties : StepFails(p)
    \/ \E p \in Parties : BroadcastFails(p)
    \/ Outside

RunnerSpec == RunnerInit /\ [][RunnerNext]_allVars

-----------------------------------------------------------------------------
\* Types of the runner's variables and the executors'; no balance is negative.
RunnerTypeOK ==
    /\ TypeOK
    /\ config \in Configs
    /\ preflighted \in BOOLEAN
    /\ phase \in {"idle", "loop", "stopped"}
    /\ turn \in Parties
    /\ step \in 0 .. MaxSteps
    /\ result \in {"none", "refused", "error", "unfunded", "limit", "ok"}
    /\ \A p \in Parties :
          /\ world.tokens[p] \in Nat
          /\ \A c \in DOMAIN world.wei[p] : world.wei[p][c] \in Nat

\* "CLOSED TESTNET SWAP OK" is printed only after each party got the leg it
\* agreed to, although the loop looks at nothing but the executors' states and
\* those do not look at the status of a receipt.
OkMeansSwapped ==
    result = "ok" =>
        \A p \in Parties :
            /\ Right(p, first[PeerChain(p)])
            /\ swap[first[PeerChain(p)]].withdrawn

\* Whatever p's leg is now, p has it back, has been paid, or holds a key and
\* the gas for the call that gets one of them: the refund of its own leg, or
\* the redeem of the other with the preimage that is public, in time.
WayOut(p) ==
    \/ swap[OwnLeg(p)].refunded
    \/ Active(swap[OwnLeg(p)]) /\ CanPay(p, "Refund")
    \/ /\ Paid(p)
       /\ \/ swap[first[PeerChain(p)]].withdrawn
          \/ secretPublic /\ CanPay(p, "RedeemCounterpartyLeg")

\* The runner stops at the first error of either party, or when its steps are
\* used up, with legs still locked.  After a preflight that passed, nobody has
\* lost anything at that moment, and both can still pay for their way out.
StopLosesNothing ==
    phase = "stopped" /\ preflighted =>
        \A p \in Parties : Exists(OwnLeg(p)) => WayOut(p)

\* After a preflight that passed no step fails for lack of coins or tokens:
\* check_cross_chain_balances asks for all that both signers may need.
PreflightFundsTheSwap == preflighted => result # "unfunded"

\* The two programs check the contracts in code of their own; the runner
\* refuses nothing the preflight let pass, except for what only it reads: the
\* confirmation to send, the amounts and the timelocks.
PreflightForetellsTheRunner ==
    preflighted /\ config.confirmed /\ AmountsOk(config) /\ TimelocksOk(config) =>
        result # "refused"
=============================================================================
