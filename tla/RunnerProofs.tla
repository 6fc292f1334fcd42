---------------------------- MODULE RunnerProofs ----------------------------
(***************************************************************************)
(* The closed-testnet programs for every configuration, every answer of    *)
(* the endpoints and every set of legs: the preflight foretells and funds  *)
(* the run, its OK is true, and where it stops nobody has lost anything.   *)
(***************************************************************************)
EXTENDS Runner, WalletSwapProofs

\* What only the runner reads.
RunnerOnly(c) == c.confirmed /\ AmountsOk(c) /\ TimelocksOk(c)

\* A preflight that passed still describes the world when run() starts: the
\* preflight sends nothing, and nothing is sent before the loop.
Foretold ==
    /\ phase = "idle" => /\ result # "refused"
                         /\ config \in Configs /\ world \in Worlds
                         /\ preflighted => PreflightOk(world, config)
    /\ PreflightForetellsTheRunner

\* The contract checks of the preflight imply those of the runner.
LEMMA PreflightImpliesAccepts ==
    ASSUME NEW c \in Configs, NEW w \in Worlds, PreflightOk(w, c), RunnerOnly(c)
    PROVE  Accepts(w, c)
  <1>1. Zero \notin w.code[c.A.rpc] /\ Zero \notin w.code[c.B.rpc]
    BY ConfigsGiveTheLegs
  <1>2. CheckLeg(w, c.A) /\ CheckSettlement(w, c.A) /\ CheckToken(w, c.A)
    BY DEF PreflightOk
  <1>3. CheckLeg(w, c.B) /\ CheckSettlement(w, c.B) /\ CheckToken(w, c.B)
    BY DEF PreflightOk
  <1>4. /\ ValidateHtlcContract(w, c.A)
        /\ ValidateSettlementContract(w, c.A)
        /\ ValidateTokenContract(w, c.A)
    BY <1>1, <1>2 DEF CheckLeg, CheckSettlement, CheckToken, HasCode,
       ValidateHtlcContract, ValidateSettlementContract, ValidateTokenContract
  <1>5. /\ ValidateHtlcContract(w, c.B)
        /\ ValidateSettlementContract(w, c.B)
        /\ ValidateTokenContract(w, c.B)
    BY <1>1, <1>3 DEF CheckLeg, CheckSettlement, CheckToken, HasCode,
       ValidateHtlcContract, ValidateSettlementContract, ValidateTokenContract
  <1>6. SignersOk(c)
    BY <1>2, <1>3 DEF CheckLeg, SignersOk
  <1> QED BY <1>4, <1>5, <1>6 DEF Accepts, PreflightOk, RunnerOnly

LEMMA ForetoldInit == RunnerInit => Foretold
  BY DEF RunnerInit, Foretold, PreflightForetellsTheRunner

\* Once in the loop the runner never refuses.
LEMMA LoopNeverRefuses ==
    ASSUME Foretold, phase = "loop",
           UNCHANGED <<config, preflighted>>,
           phase' \in {"loop", "stopped"},
           result' \in {result, "ok", "limit", "error", "unfunded"}
    PROVE  Foretold'
  BY DEF Foretold, PreflightForetellsTheRunner, AmountsOk, TimelocksOk

LEMMA ForetoldNext == Foretold /\ [RunnerNext]_allVars => Foretold'
  <1> SUFFICES ASSUME Foretold, [RunnerNext]_allVars PROVE Foretold' OBVIOUS
  <1>1. CASE RunPreflight
    BY <1>1 DEF RunPreflight, Foretold, PreflightForetellsTheRunner, control, AmountsOk, TimelocksOk
  <1>2. CASE RunSwap
    <2>1. CASE Accepts(world, config)
      BY <1>2, <2>1 DEF RunSwap, Foretold, PreflightForetellsTheRunner, AmountsOk, TimelocksOk
    <2>2. CASE ~Accepts(world, config)
      <3>1. ~(preflighted /\ RunnerOnly(config))
        BY <1>2, <2>2, PreflightImpliesAccepts DEF RunSwap, Foretold
      <3> QED BY <1>2, <2>2, <3>1
          DEF RunSwap, Foretold, PreflightForetellsTheRunner, RunnerOnly, AmountsOk, TimelocksOk
    <2> QED BY <2>1, <2>2
  <1>3. ASSUME NEW p \in Parties,
               Observe(p) \/ Broadcast(p) \/ StepReturns(p) \/ StepFails(p) \/ BroadcastFails(p)
        PROVE  Foretold'
    <2>1. phase = "loop" /\ UNCHANGED <<config, preflighted>>
      BY <1>3 DEF Observe, Broadcast, StepReturns, StepFails, BroadcastFails, MyTurn, runnerVars
    <2>2. phase' \in {"loop", "stopped"} /\ result' \in {result, "ok", "limit", "error", "unfunded"}
      BY <1>3, <2>1 DEF Observe, Broadcast, StepReturns, StepFails, BroadcastFails,
         runnerVars, control, EndTurn, Iterate, Stop
    <2> QED BY <2>1, <2>2, LoopNeverRefuses
  <1>4. CASE Outside
    BY <1>4 DEF Outside, runnerVars, Foretold, PreflightForetellsTheRunner, AmountsOk, TimelocksOk
  <1>5. CASE UNCHANGED allVars
    BY <1>5 DEF allVars, runnerVars, Foretold, PreflightForetellsTheRunner, AmountsOk, TimelocksOk
  <1> QED BY <1>1, <1>2, <1>3, <1>4, <1>5 DEF RunnerNext

\* The preflight foretells the runner (closed-testnet-preflight.rs and
\* closed-testnet-swap.rs): whatever the environment and the endpoints say,
\* the runner refuses nothing the preflight let pass except for what only it
\* reads.
THEOREM PreflightForetells == RunnerSpec => []PreflightForetellsTheRunner
  <1>1. Foretold => PreflightForetellsTheRunner
    BY DEF Foretold
  <1> QED BY <1>1, ForetoldInit, ForetoldNext, PTL DEF RunnerSpec

-----------------------------------------------------------------------------
(* The runner's steps are steps of the swap *)

LEMMA RunnerSteps ==
    ASSUME RunnerNext \/ UNCHANGED allVars
    PROVE  [Next]_vars
  <1>1. CASE UNCHANGED allVars \/ RunPreflight \/ RunSwap
    BY <1>1 DEF allVars, RunPreflight, RunSwap, vars
  <1>2. ASSUME NEW p \in Parties, Observe(p) \/ Broadcast(p)
        PROVE  Next
    BY <1>2 DEF Observe, Broadcast, Step, Next
  <1>3. ASSUME NEW p \in Parties, StepReturns(p)
        PROVE  [Next]_vars
    BY <1>3 DEF StepReturns, EndedStep, Step, Next
  <1>4. ASSUME NEW p \in Parties, StepFails(p) \/ BroadcastFails(p)
        PROVE  [Next]_vars
    BY <1>4 DEF StepFails, BroadcastFails, ReadFails, Step, Next
  <1>5. CASE Outside
    BY <1>5 DEF Outside, Next
  <1> QED BY <1>1, <1>2, <1>3, <1>4, <1>5 DEF RunnerNext

\* A taker started with its secret locks once, then redeems or refunds once.
TakerStages ==
    /\ exec[Taker].hash
    /\ exec[Taker].state \in {"SecretGenerated", "MyLegLocked", "CounterpartyRedeemed",
                              "Refunded", "Aborted"}
    /\ exec[Taker].state = "SecretGenerated" =>
           (exec[Taker].pc \in {"reread", "reobserve", "sent"} =>
                exec[Taker].plan = "LockMyLeg")
    /\ exec[Taker].state = "MyLegLocked" =>
           /\ exec[Taker].pc \in {"reread", "reobserve"} =>
                  exec[Taker].plan = "RedeemCounterpartyLeg"
           /\ exec[Taker].pc = "sent" =>
                  exec[Taker].plan \in {"RedeemCounterpartyLeg", "Refund"}

LEMMA TakerDecides ==
    /\ exec[Taker].state = "SecretGenerated" /\ exec[Taker].hash =>
           Decision(Taker) = "LockMyLeg"
    /\ exec[Taker].state = "MyLegLocked" =>
           Decision(Taker) \in {"Refund", "WaitForCounterpartyLock",
                               "RedeemCounterpartyLeg", "Abort"}
  <1> DEFINE ctx == Context(Taker)
  <1>1. ctx.role = "Taker" /\ ctx.knowsHash = exec[Taker].hash
    BY DEF Context
  <1>2. Decision(Taker) = NextAction(exec[Taker].state, ctx)
    BY DEF Decision
  <1> HIDE DEF ctx
  <1>3. exec[Taker].state \in {"SecretGenerated", "MyLegLocked"} =>
            Decision(Taker) = TakerNext(exec[Taker].state, ctx)
    BY <1>1, <1>2 DEF NextAction
  <1> QED BY <1>1, <1>3 DEF TakerNext

LEMMA TakerRows ==
    /\ Advance("SecretGenerated", "MyLegConfirmed") = "MyLegLocked"
    /\ Advance("MyLegLocked", "RedeemConfirmed") = "CounterpartyRedeemed"
  <1>1. /\ <<"SecretGenerated", "MyLegConfirmed", "MyLegLocked">> \in Transitions
        /\ <<"MyLegLocked", "RedeemConfirmed", "CounterpartyRedeemed">> \in Transitions
    BY DEF Transitions
  <1>2. \A t \in Transitions :
            /\ t[1] = "SecretGenerated" /\ t[2] = "MyLegConfirmed" => t[3] = "MyLegLocked"
            /\ t[1] = "MyLegLocked" /\ t[2] = "RedeemConfirmed" =>
                   t[3] = "CounterpartyRedeemed"
    BY DEF Transitions
  <1>3. "SecretGenerated" \notin Absorbing /\ "MyLegLocked" \notin Absorbing
    BY DEF Absorbing
  <1>4. Advance("SecretGenerated", "MyLegConfirmed") = "MyLegLocked"
    <2>1. \E t \in Transitions : t[1] = "SecretGenerated" /\ t[2] = "MyLegConfirmed"
      BY <1>1
    <2> QED BY <1>2, <1>3, <2>1 DEF Advance
  <1>5. Advance("MyLegLocked", "RedeemConfirmed") = "CounterpartyRedeemed"
    <2>1. \E t \in Transitions : t[1] = "MyLegLocked" /\ t[2] = "RedeemConfirmed"
      BY <1>1
    <2> QED BY <1>2, <1>3, <2>1 DEF Advance
  <1> QED BY <1>4, <1>5

LEMMA TakerStagesStay ==
    ASSUME IInv, [Next]_vars, TakerStages
    PROVE  TakerStages'
  <1> DEFINE e == exec[Taker]
  <1> DEFINE f == exec'[Taker]
  <1>1. CASE f = e
    BY <1>1 DEF TakerStages
  <1>2. CASE Step(Taker) \/ LoseReceipt(Taker)
    <2>1. e.pc # "idle" => e.state \in {"SecretGenerated", "MyLegLocked"}
      BY TwoParties DEF IInv, StepsAreRuns, TakerStages, Terminal
    <2>2. /\ e.state = "SecretGenerated" => Decision(Taker) = "LockMyLeg"
          /\ e.state = "MyLegLocked" =>
                 Decision(Taker) \in {"Refund", "WaitForCounterpartyLock",
                                     "RedeemCounterpartyLeg", "Abort"}
      BY TakerDecides DEF TakerStages
    <2>3. /\ ~GenerateSecret(Taker)
          /\ AbortSwap(Taker) => e.pc = "observe"
          /\ SendRefund(Taker) => e.pc = "observe" /\ Decision(Taker) = "Refund"
          /\ Plan(Taker) => e.pc = "observe" /\
                 Decision(Taker) \in {"LockMyLeg", "RedeemCounterpartyLeg"}
          /\ Send(Taker) => e.pc = "reobserve"
          /\ Mine(Taker) => e.pc = "sent"
      BY <2>1, <2>2 DEF GenerateSecret, AbortSwap, SendRefund, Plan, Send, Mine, Observed
    <2>4. \/ /\ ReadClock(Taker) /\ SameRun(e, f) /\ f.plan = e.plan
             /\ \/ e.pc = "idle" /\ f.pc = "observe"
                \/ e.pc = "reread" /\ f.pc = "reobserve"
          \/ SameRun(e, f) /\ f.pc = "idle"
          \/ /\ AbortSwap(Taker) /\ f.pc = "idle" /\ f.own = e.own /\ f.hash = e.hash
             /\ f.state = "Aborted"
          \/ SendRefund(Taker) /\ SameRun(e, f) /\ f.pc = "sent" /\ f.plan = "Refund"
          \/ Plan(Taker) /\ SameRun(e, f) /\ f.pc = "reread" /\ f.plan = Decision(Taker)
          \/ Send(Taker) /\ SameRun(e, f) /\ f.pc = "sent" /\ f.plan = e.plan
          \/ Mine(Taker) /\ f.pc = "idle" /\ f.hash = e.hash /\ Received(Taker)
          \/ SameRun(e, f) /\ f.pc = "panicked"
      BY <1>2, <2>3, TwoParties, StepRecords
    <2>5. Mine(Taker) /\ Received(Taker) =>
              f.state \in {"MyLegLocked", "CounterpartyRedeemed", "Refunded"}
      BY <2>1, <2>3, TakerRows, AdvanceRows DEF Received, TakerStages
    <2>6. /\ e.hash
          /\ e.state \in {"SecretGenerated", "MyLegLocked", "CounterpartyRedeemed",
                          "Refunded", "Aborted"}
          /\ e.state = "SecretGenerated" =>
                 (e.pc \in {"reread", "reobserve", "sent"} => e.plan = "LockMyLeg")
          /\ e.state = "MyLegLocked" =>
                 /\ e.pc \in {"reread", "reobserve"} => e.plan = "RedeemCounterpartyLeg"
                 /\ e.pc = "sent" => e.plan \in {"RedeemCounterpartyLeg", "Refund"}
      BY DEF TakerStages
    <2> DEFINE Stages(r) ==
          /\ r.hash
          /\ r.state \in {"SecretGenerated", "MyLegLocked", "CounterpartyRedeemed",
                          "Refunded", "Aborted"}
          /\ r.state = "SecretGenerated" =>
                 (r.pc \in {"reread", "reobserve", "sent"} => r.plan = "LockMyLeg")
          /\ r.state = "MyLegLocked" =>
                 /\ r.pc \in {"reread", "reobserve"} => r.plan = "RedeemCounterpartyLeg"
                 /\ r.pc = "sent" => r.plan \in {"RedeemCounterpartyLeg", "Refund"}
    <2> HIDE DEF e, f
    <2>7. Stages(f)
      BY <2>1, <2>2, <2>3, <2>4, <2>5, <2>6 DEF SameRun
    <2> QED BY <2>7 DEF TakerStages, e, f
  <1> QED BY <1>1, <1>2, WhoMoves, TwoParties

-----------------------------------------------------------------------------
(* What the swap keeps whoever drives it *)

\* A maker whose lock was mined, even if it reverted, answered a leg with the
\* agreed terms and the margin.
AnswersHold ==
    exec[Maker].own =>
        /\ Opposite \in Legs /\ Right(Maker, Opposite) /\ Exists(Opposite)
        /\ swap[Opposite].refunded => clock >= Opposite.timelock
        /\ MakerLeg.timelock + MinGap <= Opposite.timelock

\* The step of a lock under way began before its timelock.
LockInTime == LockSent => clock < MakerLeg.timelock + age[Maker]

SwapInv ==
    /\ IInv /\ LockIsSafe /\ MInv /\ TakerStages /\ AnswersHold /\ LockInTime
    /\ honest = Parties

LEMMA SwapInvInit ==
    ASSUME Init
    PROVE  SwapInv
  <1>1. IInv /\ MInv
    BY InitHolds, MakerInit
  <1>2. exec = [p \in Parties |-> StartOf(p, IF p = Taker THEN "SecretGenerated" ELSE "Start")]
    BY OneRunner DEF Init
  <1>3. exec[Maker].pc = "idle" /\ ~exec[Maker].own /\ TakerStages
    BY <1>2, TwoParties, OneRunner DEF StartOf, TakerStages
  <1>4. LockIsSafe /\ AnswersHold /\ LockInTime
    BY <1>3 DEF LockIsSafe, LockSent, AnswersHold, LockInTime
  <1>5. honest = Parties
    BY OneRunner DEF Init
  <1> QED BY <1>1, <1>3, <1>4, <1>5 DEF SwapInv

\* The contract id of the maker's lock is set when the lock is mined.
LEMMA OwnIsMined ==
    ASSUME IInv, [Next]_vars, exec'[Maker].own, ~exec[Maker].own
    PROVE  Mine(Maker) /\ LockSent
  <1>1. Step(Maker) \/ LoseReceipt(Maker)
    BY WhoMoves, TwoParties
  <1>2. Mine(Maker) /\ Received(Maker)
    BY <1>1, TwoParties, StepRecords DEF SameRun
  <1> QED BY <1>2 DEF Received, Mine, LockSent

LEMMA AnswersStay ==
    ASSUME IInv, LockIsSafe, AnswersHold, [Next]_vars, honest = Parties
    PROVE  AnswersHold'
  <1> SUFFICES ASSUME exec'[Maker].own PROVE AnswersHold'
    BY DEF AnswersHold
  <1> DEFINE id == first["A"]
  <1>1. /\ id \in Legs /\ Right(Maker, id) /\ Exists(id)
        /\ swap[id].refunded => clock >= id.timelock
        /\ MakerLeg.timelock + MinGap <= id.timelock
    BY OwnIsMined, TwoParties DEF AnswersHold, LockIsSafe, Opposite
  <1>2. id # NoLock
    BY <1>1, AgreedTerms
  <1>3. first'["A"] = id
    BY <1>2, ChainPart DEF ChainKeeps, Chains
  <1>4. /\ swap'[id].exists
        /\ swap'[id].refunded => swap[id].refunded \/ clock >= id.timelock
    BY <1>1, ChainPart DEF LegsStay
  <1>5. /\ clock \in Nat /\ clock' \in Nat /\ clock <= clock' /\ id.timelock \in Nat
    BY <1>1, ChainPart
  <1>6. swap'[id].refunded => clock' >= id.timelock
    BY <1>1, <1>4, <1>5
  <1> QED BY <1>1, <1>3, <1>4, <1>6 DEF AnswersHold, Opposite, Right, Exists

LEMMA LockInTimeStays ==
    ASSUME IInv, LockInTime, [Next]_vars
    PROVE  LockInTime'
  <1> SUFFICES ASSUME LockSent' PROVE clock' < MakerLeg.timelock + age'[Maker]
    BY DEF LockInTime
  <1>1. /\ clock \in Nat /\ age[Maker] \in Nat /\ MakerLeg.timelock \in Nat
    BY TwoParties, Responsive, AgreedTerms DEF IInv, TypeOK, Legs
  <1>2. LockSent \/ Send(Maker)
    BY NextShape
  <1>3. CASE Send(Maker)
    <2>1. exec[Maker].plan = "LockMyLeg"
      BY <1>3, TwoParties, StepRecords DEF LockSent, Step, Send, Mine, GiveUpStep, Plan,
         ReadClock, SendRefund
    <2>2. clock < MakerLeg.timelock
      BY <1>3, <2>1, TwoParties DEF Send, SimulationOk, CanNewSwap
    <2>3. clock' = clock /\ age' = age
      BY <1>3 DEF Send
    <2> QED BY <1>1, <2>2, <2>3
  <1>4. CASE LockSent /\ ~Send(Maker)
    <2>1. clock < MakerLeg.timelock + age[Maker]
      BY <1>4 DEF LockInTime
    <2>2. CASE exec'[Maker] = exec[Maker] /\ age'[Maker] = age[Maker] /\ clock' = clock
      BY <2>1, <2>2
    <2>3. CASE Tick
      <3>1. Running(Maker)
        BY <1>4, TwoParties DEF LockSent, IInv, StepsAreRuns, Running, Panicked
      <3>2. clock' = clock + 1 /\ age'[Maker] = age[Maker] + 1
        BY <2>3, <3>1, TwoParties DEF Tick
      <3> QED BY <1>1, <2>1, <3>2
    <2>4. ~(Step(Maker) \/ LoseReceipt(Maker))
      BY <1>4, TwoParties, StepRecords DEF LockSent, Send, SendRefund, Plan, ReadClock,
         SameRun, Mine, Observed
    <2> QED BY <2>2, <2>3, <2>4, WhoMoves, TwoParties
  <1> QED BY <1>2, <1>3, <1>4

LEMMA SwapInvStays ==
    ASSUME SwapInv, [Next]_vars
    PROVE  SwapInv'
  <1>1. honest' = honest
    BY ChainPart DEF SwapInv
  <1> QED BY <1>1, NextKeepsIInv, NextKeepsLockIsSafe, NextKeepsMInv, TakerStagesStay,
      AnswersStay, LockInTimeStays DEF SwapInv

-----------------------------------------------------------------------------
(* What the signers pay *)

\* The balances of both signers on all chains, one of which each leg is on.
WorldOK ==
    /\ world = [code |-> world.code, htlcOf |-> world.htlcOf,
                wei |-> world.wei, tokens |-> world.tokens]
    /\ world.wei \in [Parties -> [DOMAIN world.code -> Nat]]
    /\ world.tokens \in [Parties -> Nat]
    /\ config \in Configs
    /\ config.A.rpc \in DOMAIN world.code /\ config.B.rpc \in DOMAIN world.code

LEMMA WorldsAreOK ==
    ASSUME config \in Configs, world \in Worlds
    PROVE  WorldOK
  <1>1. {config.A.rpc, config.B.rpc} \subseteq DOMAIN world.code
    BY ConfigsGiveTheLegs
  <1> QED BY <1>1, RunnerNumbers DEF WorldOK

LEMMA LegTypes ==
    ASSUME WorldOK, NEW p \in Parties
    PROVE  /\ LegOf(p).amount \in Nat /\ LegOf(p).rpc \in DOMAIN world.code
           /\ NativeValueRequired(LegOf(p)) \in Nat
           /\ Peer(p) \in Parties
           /\ LegOf(Peer(p)).rpc \in DOMAIN world.code
  <1>1. LegOf(p).amount \in Nat /\ LegOf(p).rpc \in DOMAIN world.code
        /\ LegOf(Peer(p)).rpc \in DOMAIN world.code
    BY RunnerNumbers DEF WorldOK, LegOf
  <1>2. Peer(p) \in Parties
    BY TwoParties DEF Peer
  <1> QED BY <1>1, <1>2 DEF NativeValueRequired

LEMMA PriceTypes ==
    ASSUME WorldOK, NEW p \in Parties, NEW plan
    PROVE  /\ Chain(p, plan) \in DOMAIN world.code
           /\ Price(p, plan) \in Nat /\ TokensDue(p, plan) \in Nat
  <1>1. /\ LegOf(p).amount \in Nat /\ LegOf(p).rpc \in DOMAIN world.code
        /\ NativeValueRequired(LegOf(p)) \in Nat
        /\ LegOf(Peer(p)).rpc \in DOMAIN world.code
        /\ Gas \in Nat
    BY LegTypes, RunnerNumbers
  <1>2. Chain(p, plan) \in DOMAIN world.code
    BY <1>1 DEF Chain
  <1> HIDE DEF NativeValueRequired
  <1>3. Price(p, plan) \in Nat
    BY <1>1 DEF Price
  <1> QED BY <1>1, <1>2, <1>3 DEF TokensDue

LEMMA PayEffect ==
    ASSUME WorldOK, NEW p \in Parties, NEW plan,
           CanPay(p, plan), Pay(p, plan), UNCHANGED config
    PROVE  /\ WorldOK'
           /\ \A q \in Parties, c \in DOMAIN world.code :
                 world'.wei[q][c] = IF q = p /\ c = Chain(p, plan)
                                    THEN world.wei[q][c] - Price(p, plan)
                                    ELSE world.wei[q][c]
           /\ \A q \in Parties :
                 world'.tokens[q] = IF q = p THEN world.tokens[q] - TokensDue(p, plan)
                                    ELSE world.tokens[q]
  <1> DEFINE c0 == Chain(p, plan)
  <1> DEFINE cost == Price(p, plan)
  <1> DEFINE due == TokensDue(p, plan)
  <1>1. c0 \in DOMAIN world.code /\ cost \in Nat /\ due \in Nat
    BY PriceTypes
  <1>2. world.wei[p][c0] >= cost /\ world.tokens[p] >= due
    BY DEF CanPay
  <1>3. world' = [world EXCEPT !.wei[p][c0] = @ - cost, !.tokens[p] = @ - due]
    BY DEF Pay
  <1> HIDE DEF c0, cost, due
  <1> DEFINE wei == [world.wei EXCEPT ![p] = [world.wei[p] EXCEPT ![c0] = world.wei[p][c0] - cost]]
  <1> DEFINE tokens == [world.tokens EXCEPT ![p] = world.tokens[p] - due]
  <1>4. world' = [code |-> world.code, htlcOf |-> world.htlcOf, wei |-> wei, tokens |-> tokens]
    BY <1>3 DEF WorldOK
  <1>5. world'.code = world.code /\ world'.wei = wei /\ world'.tokens = tokens
        /\ world'.htlcOf = world.htlcOf
    BY <1>4
  <1>6. world.wei[p][c0] - cost \in Nat /\ world.tokens[p] - due \in Nat
    BY <1>1, <1>2 DEF WorldOK
  <1>7. /\ wei \in [Parties -> [DOMAIN world.code -> Nat]]
        /\ \A q \in Parties, c \in DOMAIN world.code :
              wei[q][c] = IF q = p /\ c = c0 THEN world.wei[q][c] - cost ELSE world.wei[q][c]
    BY <1>1, <1>6 DEF WorldOK
  <1>8. /\ tokens \in [Parties -> Nat]
        /\ \A q \in Parties :
              tokens[q] = IF q = p THEN world.tokens[q] - due ELSE world.tokens[q]
    BY <1>6 DEF WorldOK
  <1> HIDE DEF wei, tokens
  <1> QED BY <1>4, <1>5, <1>7, <1>8 DEF WorldOK, c0, cost, due

-----------------------------------------------------------------------------
(* Types *)

LEMMA OthersStand ==
    ASSUME IInv, NEW p \in Parties, Step(p) \/ LoseReceipt(p), NEW q \in Parties, q # p
    PROVE  exec'[q] = exec[q] /\ age'[q] = age[q]
  <1>1. exec \in [Parties -> ExecRecords] /\ age \in [Parties -> 0..Lag]
    BY DEF IInv, TypeOK, ExecRecords
  <1> QED BY <1>1 DEF Step, ReadClock, Panic, GenerateSecret, Wait, AbortSwap, SendRefund, Plan,
      Send, GiveUpStep, Mine, LoseReceipt, OnlyExec

\* A log that does not fit ends the runner's process with an error: no
\* executor of it goes on panicked.
LEMMA NobodyPanics ==
    ASSUME SwapInv, RunnerNext, \A p \in Parties : ~Panicked(p)
    PROVE  \A p \in Parties : ~Panicked(p)'
  <1>1. IInv
    BY DEF SwapInv
  <1>2. ASSUME NEW q \in Parties,
               Observe(q) \/ Broadcast(q) \/ StepReturns(q) \/ StepFails(q)
        PROVE  \/ UNCHANGED vars
               \/ (Step(q) \/ LoseReceipt(q)) /\ ~Panic(q)
    <2>1. Panic(q) => exec[q].pc \in {"observe", "reobserve"} /\ ~Readable
      BY DEF Panic
    <2>2. CASE Observe(q)
      <3>1. ReadClock(q) => exec[q].pc \notin {"observe", "reobserve"}
        BY DEF ReadClock
      <3>2. Plan(q) => Readable
        BY DEF Plan, Observed
      <3> QED BY <2>1, <2>2, <3>1, <3>2 DEF Observe, Step
    <2>3. CASE Broadcast(q)
      <3>1. Send(q) \/ SendRefund(q) => Readable
        BY DEF Send, SendRefund, Observed
      <3> QED BY <2>1, <2>3, <3>1 DEF Broadcast, Step
    <2>4. CASE StepReturns(q) \/ StepFails(q)
      <3>1. Wait(q) \/ AbortSwap(q) \/ GiveUpStep(q) => Readable
        BY DEF Wait, AbortSwap, GiveUpStep, Observed
      <3>2. Mine(q) \/ LoseReceipt(q) => exec[q].pc \notin {"observe", "reobserve"}
        BY DEF Mine, LoseReceipt
      <3> QED BY <2>1, <2>4, <3>1, <3>2 DEF StepReturns, StepFails, EndedStep, ReadFails, Step
    <2> QED BY <1>2, <2>2, <2>3, <2>4
  <1>3. ASSUME NEW q \in Parties, Step(q) \/ LoseReceipt(q), ~Panic(q)
        PROVE  \A p \in Parties : ~Panicked(p)'
    <2>1. exec'[q].pc # "panicked"
      BY <1>1, <1>3, StepRecords
    <2>2. \A p \in Parties \ {q} : exec'[p] = exec[p]
      BY <1>1, <1>3, OthersStand
    <2> QED BY <2>1, <2>2 DEF Panicked
  <1>4. ASSUME exec' = exec
        PROVE  \A p \in Parties : ~Panicked(p)'
    BY <1>4 DEF Panicked
  <1>5. RunPreflight \/ RunSwap \/ Outside \/ (\E q \in Parties : BroadcastFails(q))
            => exec' = exec
    BY DEF RunPreflight, RunSwap, Outside, BroadcastFails, vars, OtherLocks, OtherRedeems,
       OtherRefunds, EmptyBlock, Tick
  <1> QED BY <1>2, <1>3, <1>4, <1>5 DEF RunnerNext, vars

RunnerTypes ==
    /\ SwapInv /\ WorldOK /\ RunnerTypeOK
    /\ \A p \in Parties : ~Panicked(p)
    /\ phase = "loop" => step < MaxSteps
    /\ phase = "idle" => step = 0 /\ turn = Taker /\ Init

LEMMA TypesInit ==
    ASSUME RunnerInit
    PROVE  RunnerTypes
  <1>1. SwapInv /\ WorldOK
    BY SwapInvInit, WorldsAreOK DEF RunnerInit
  <1>2. TypeOK
    BY <1>1 DEF SwapInv, IInv
  <1>3. \A p \in Parties : /\ world.tokens[p] \in Nat
                           /\ \A c \in DOMAIN world.wei[p] : world.wei[p][c] \in Nat
    BY <1>1 DEF WorldOK
  <1>4. 0 \in 0..MaxSteps /\ Taker \in Parties
    BY RunnerNumbers, TwoParties
  <1>5. \A p \in Parties : ~Panicked(p)
    BY DEF RunnerInit, Init, StartOf, Panicked
  <1> QED BY <1>1, <1>2, <1>3, <1>4, <1>5 DEF RunnerTypes, RunnerTypeOK, RunnerInit

LEMMA TurnTypes ==
    ASSUME RunnerTypes, phase = "loop", NEW p \in Parties, EndTurn(p)
    PROVE  /\ phase' \in {"loop", "stopped"} /\ turn' \in Parties
           /\ step' \in 0..MaxSteps /\ (phase' = "loop" => step' < MaxSteps)
           /\ result' \in {"limit", "ok", result}
  <1>1. step \in 0..MaxSteps /\ step < MaxSteps /\ MaxSteps \in Nat /\ turn \in Parties
    BY RunnerNumbers DEF RunnerTypes, RunnerTypeOK
  <1>2. CASE p = Taker
    BY <1>1, <1>2, TwoParties DEF EndTurn
  <1>3. CASE p # Taker
    BY <1>1, <1>3, TwoParties DEF EndTurn, Iterate, Stop
  <1> QED BY <1>2, <1>3

LEMMA TypesNext ==
    ASSUME RunnerTypes, RunnerNext \/ UNCHANGED allVars
    PROVE  RunnerTypes'
  <1>1. SwapInv'
    BY RunnerSteps, SwapInvStays DEF RunnerTypes
  <1>2. WorldOK' /\ config' = config
    <2>1. CASE UNCHANGED <<config, world>>
      BY <2>1 DEF RunnerTypes, WorldOK
    <2>2. ASSUME NEW p \in Parties, Broadcast(p)
          PROVE  WorldOK' /\ config' = config
      BY <2>2, PayEffect DEF Broadcast, RunnerTypes
    <2> QED BY <2>1, <2>2 DEF RunnerNext, RunPreflight, RunSwap, Observe, StepReturns,
            StepFails, BroadcastFails, Outside, allVars, runnerVars
  <1>3. TypeOK'
    BY <1>1 DEF SwapInv, IInv
  <1>4. \A p \in Parties : /\ world'.tokens[p] \in Nat
                           /\ \A c \in DOMAIN world'.wei[p] : world'.wei[p][c] \in Nat
    BY <1>2 DEF WorldOK
  <1>5. /\ phase \in {"idle", "loop", "stopped"} /\ turn \in Parties
        /\ step \in 0..MaxSteps /\ (phase = "loop" => step < MaxSteps)
        /\ result \in {"none", "refused", "error", "unfunded", "limit", "ok"}
        /\ preflighted \in BOOLEAN
    BY DEF RunnerTypes, RunnerTypeOK
  <1>6. /\ phase' \in {"idle", "loop", "stopped"} /\ turn' \in Parties
        /\ step' \in 0..MaxSteps /\ (phase' = "loop" => step' < MaxSteps)
        /\ result' \in {"none", "refused", "error", "unfunded", "limit", "ok"}
        /\ preflighted' \in BOOLEAN
    <2>1. CASE UNCHANGED <<preflighted, control>>
      BY <1>5, <2>1 DEF control
    <2>2. CASE RunPreflight
      BY <1>5, <2>2 DEF RunPreflight, control
    <2>3. CASE RunSwap
      <3>1. step = 0
        BY <2>3 DEF RunSwap, RunnerTypes
      <3> QED BY <1>5, <2>3, <3>1, RunnerNumbers DEF RunSwap
    <2>4. ASSUME NEW p \in Parties, StepReturns(p)
          PROVE  <1>6!:
      BY <1>5, <2>4, TurnTypes DEF StepReturns, MyTurn
    <2>5. ASSUME NEW p \in Parties, StepFails(p) \/ BroadcastFails(p)
          PROVE  <1>6!:
      BY <1>5, <2>5 DEF StepFails, BroadcastFails, Stop
    <2> QED BY <2>1, <2>2, <2>3, <2>4, <2>5 DEF RunnerNext, Observe, Broadcast,
            Outside, allVars, runnerVars, control
  <1>7. phase' = "idle" => step' = 0 /\ turn' = Taker /\ Init'
    <2>1. CASE UNCHANGED allVars
      BY <2>1 DEF RunnerTypes, allVars, runnerVars, vars, Init
    <2>2. CASE RunPreflight
      BY <2>2 DEF RunnerTypes, RunPreflight, control, vars, Init
    <2>3. CASE RunSwap \/ Outside
      BY <2>3 DEF RunSwap, Outside, runnerVars
    <2>4. ASSUME NEW p \in Parties,
                 \/ Observe(p) \/ Broadcast(p) \/ StepReturns(p)
                 \/ StepFails(p) \/ BroadcastFails(p)
          PROVE  phase' # "idle"
      BY <2>4, TurnTypes DEF Observe, Broadcast, StepReturns, StepFails, BroadcastFails,
         MyTurn, Stop, control, runnerVars
    <2> QED BY <2>1, <2>2, <2>3, <2>4 DEF RunnerNext
  <1>8. \A p \in Parties : ~Panicked(p)'
    BY NobodyPanics DEF RunnerTypes, allVars, vars, Panicked
  <1> QED BY <1>1, <1>2, <1>3, <1>4, <1>6, <1>7, <1>8 DEF RunnerTypes, RunnerTypeOK, WorldOK

-----------------------------------------------------------------------------
(* The loop *)

\* One party steps at a time, and the runner stops between transactions.
TurnsHold ==
    /\ phase # "stopped" =>
          /\ result = "none"
          /\ \A p \in Parties : p # turn => exec[p].pc = "idle"
    /\ phase = "stopped" => \A p \in Parties : exec[p].pc # "sent"
    /\ result = "ok" => BothRedeemed(exec)

\* The maker's step began in time for the secret to be used.
WaitsInTime ==
    phase # "stopped" /\ exec[Maker].state = "WaitingForSecret" =>
        clock < MakerLeg.timelock + age[Maker]
                  + (IF exec[Maker].pc = "idle" THEN 0 ELSE Lag)

\* A maker that reports its redeem has been paid, with a leg of its own or not.
MakerGot == exec[Maker].state = "CounterpartyRedeemed" => swap[Opposite] = Redeemed

\* Only the last step of a run may lock and not know.
LocksAreKnown ==
    Exists(MakerLeg) => exec[Maker].own \/ (phase = "stopped" /\ swap[MakerLeg] = Locked)

LoopInv == TurnsHold /\ WaitsInTime /\ MakerGot /\ LocksAreKnown

LEMMA LoopInit ==
    ASSUME Init, phase # "stopped", result = "none"
    PROVE  LoopInv
  <1>1. exec = [p \in Parties |-> StartOf(p, IF p = Taker THEN "SecretGenerated" ELSE "Start")]
    BY OneRunner DEF Init
  <1>2. /\ \A p \in Parties : exec[p].pc = "idle"
        /\ exec[Maker].state = "Start"
    BY <1>1, TwoParties DEF StartOf
  <1>3. ~Exists(MakerLeg)
    BY DEF Init, Exists, Legs, NoSwap
  <1> QED BY <1>2, <1>3 DEF LoopInv, TurnsHold, WaitsInTime, MakerGot, LocksAreKnown

\* What a turn that ends leaves.
LEMMA TurnEnds ==
    ASSUME SwapInv, NEW p \in Parties,
           Wait(p) \/ AbortSwap(p) \/ GiveUpStep(p) \/ Mine(p) \/ EndedStep(p) \/ LoseReceipt(p)
    PROVE  /\ exec'[p].pc = "idle"
           /\ \A q \in Parties : q # p => exec'[q] = exec[q]
  <1>1. CASE EndedStep(p)
    BY <1>1 DEF EndedStep, SwapInv, IInv, StepsAreRuns, vars
  <1>2. CASE Wait(p) \/ AbortSwap(p) \/ GiveUpStep(p) \/ Mine(p) \/ LoseReceipt(p)
    <2>1. Step(p) \/ LoseReceipt(p)
      BY <1>2 DEF Step
    <2>2. ~ReadClock(p) /\ ~SendRefund(p) /\ ~Plan(p) /\ ~Send(p) /\ ~Panic(p)
      BY <1>2 DEF Wait, AbortSwap, GiveUpStep, Mine, LoseReceipt, ReadClock, SendRefund,
         Plan, Send, Panic, Observed
    <2>3. exec'[p].pc = "idle"
      BY <2>1, <2>2, StepRecords DEF SwapInv
    <2> QED BY <2>1, <2>3, OthersStand DEF SwapInv
  <1> QED BY <1>1, <1>2

LEMMA TurnsStay ==
    ASSUME RunnerTypes, TurnsHold, RunnerNext
    PROVE  TurnsHold'
  <1>1. SwapInv /\ IInv
    BY DEF RunnerTypes, SwapInv
  <1>2. CASE RunPreflight
    BY <1>2 DEF RunPreflight, TurnsHold, control, vars, BothRedeemed
  <1>3. CASE RunSwap
    <2>1. \A p \in Parties : exec[p].pc = "idle"
      BY <1>3 DEF RunSwap, RunnerTypes, Init, StartOf
    <2> QED BY <1>3, <2>1 DEF RunSwap, TurnsHold, vars
  <1>4. CASE Outside
    <2>1. exec' = exec
      BY <1>4 DEF Outside, OtherLocks, OtherRedeems, OtherRefunds, EmptyBlock, Tick
    <2> QED BY <1>4, <2>1 DEF Outside, TurnsHold, runnerVars, BothRedeemed
  <1>5. ASSUME NEW p \in Parties, Observe(p) \/ Broadcast(p)
        PROVE  TurnsHold'
    <2>1. Step(p) /\ phase = "loop" /\ turn = p
      BY <1>5 DEF Observe, Broadcast, Step, MyTurn
    <2>2. UNCHANGED control
      BY <1>5 DEF Observe, Broadcast, runnerVars, control
    <2>3. \A q \in Parties : q # p => exec'[q] = exec[q]
      BY <1>1, <2>1, OthersStand
    <2> QED BY <2>1, <2>2, <2>3 DEF TurnsHold, control
  <1>6. ASSUME NEW p \in Parties, StepReturns(p)
        PROVE  TurnsHold'
    <2>1. phase = "loop" /\ turn = p /\ EndTurn(p) /\ result = "none"
      BY <1>6 DEF StepReturns, MyTurn, TurnsHold
    <2>2. /\ exec'[p].pc = "idle"
          /\ \A q \in Parties : q # p => exec'[q] = exec[q]
      BY <1>1, <1>6, TurnEnds DEF StepReturns
    <2>3. \A q \in Parties : exec'[q].pc = "idle"
      BY <2>1, <2>2 DEF TurnsHold
    <2> QED BY <2>1, <2>3 DEF TurnsHold, EndTurn, Iterate, Stop
  <1>7. ASSUME NEW p \in Parties, StepFails(p)
        PROVE  TurnsHold'
    <2>1. phase = "loop" /\ turn = p /\ Stop("error")
      BY <1>7 DEF StepFails, MyTurn
    <2>2. CASE ReadFails(p)
      <3>1. exec' = exec /\ exec[p].pc # "sent"
        BY <1>1, <2>2 DEF ReadFails, vars, IInv, StepsAreRuns
      <3> QED BY <2>1, <3>1 DEF TurnsHold, Stop
    <2>3. CASE Wait(p) \/ GiveUpStep(p) \/ LoseReceipt(p)
      <3>1. /\ exec'[p].pc = "idle"
            /\ \A q \in Parties : q # p => exec'[q] = exec[q]
        BY <1>1, <2>3, TurnEnds
      <3> QED BY <2>1, <3>1 DEF TurnsHold, Stop
    <2> QED BY <1>7, <2>2, <2>3 DEF StepFails
  <1>8. ASSUME NEW p \in Parties, BroadcastFails(p)
        PROVE  TurnsHold'
    BY <1>8 DEF BroadcastFails, MyTurn, Stop, TurnsHold, vars
  <1> QED BY <1>2, <1>3, <1>4, <1>5, <1>6, <1>7, <1>8 DEF RunnerNext

\* The leg a waiting maker looks at has paid it or is open to its redeem.
LEMMA OppositeIsOpen ==
    ASSUME SwapInv, WaitsInTime, phase # "stopped", exec[Maker].state = "WaitingForSecret"
    PROVE  /\ Opposite \in Legs /\ Opposite = first[PeerChain(Maker)]
           /\ swap[Opposite] \in {Locked, Redeemed}
           /\ clock < Opposite.timelock
  <1>1. MakerStages
    BY TwoParties DEF SwapInv, MInv
  <1>2. exec[Maker].own
    BY <1>1 DEF MakerStages
  <1>3. /\ Opposite \in Legs /\ Exists(Opposite)
        /\ swap[Opposite].refunded => clock >= Opposite.timelock
        /\ MakerLeg.timelock + MinGap <= Opposite.timelock
    BY <1>2 DEF SwapInv, AnswersHold
  <1>4. /\ clock \in Nat /\ age[Maker] \in Nat /\ age[Maker] <= Lag /\ Lag \in Nat
        /\ MinGap \in Nat /\ 2 * Lag <= MinGap
        /\ MakerLeg.timelock \in Nat /\ Opposite.timelock \in Nat
        /\ swap[Opposite] \in SwapRecords
    BY <1>3, TwoParties, WalletConstants, Responsive, AgreedTerms DEF SwapInv, IInv, TypeOK, Legs
  <1>5. clock < MakerLeg.timelock + age[Maker]
                  + (IF exec[Maker].pc = "idle" THEN 0 ELSE Lag)
    BY DEF WaitsInTime
  <1>6. clock < Opposite.timelock
    BY <1>3, <1>4, <1>5
  <1>7. ~swap[Opposite].refunded
    BY <1>3, <1>4, <1>6
  <1>8. ~NoSwap.exists /\ Returned.refunded
    BY DEF NoSwap, Returned, Locked
  <1>9. swap[Opposite] \in {Locked, Redeemed}
    BY <1>3, <1>4, <1>7, <1>8 DEF SwapRecords, Exists
  <1> QED BY <1>3, <1>6, <1>9, TwoParties DEF Opposite

\* A redeem that the maker's wallet broadcasts pays, whether or not it hears so.
LEMMA MakerRedeemPays ==
    ASSUME SwapInv, WaitsInTime, phase # "stopped", RedeemSent(Maker),
           Mine(Maker) \/ LoseReceipt(Maker)
    PROVE  Opposite \in Legs /\ swap'[Opposite] = Redeemed
  <1>1. /\ IInv /\ MakerStages /\ Maker \in Parties /\ exec[Maker].pc = "sent"
        /\ exec[Maker].plan = "RedeemCounterpartyLeg" /\ Included(Maker)
        /\ [Next]_vars
    BY TwoParties DEF SwapInv, MInv, RedeemSent, Mine, LoseReceipt, Next, Step
  <1>2. exec[Maker].state = "WaitingForSecret"
    BY <1>1, TwoParties, MakerInStep DEF SwapInv, MakerStages
  <1>3. /\ Opposite \in Legs /\ Opposite = first[PeerChain(Maker)]
        /\ swap[Opposite] \in {Locked, Redeemed}
        /\ clock < Opposite.timelock
    BY <1>2, OppositeIsOpen
  <1>4. CASE swap[Opposite] = Redeemed
    BY <1>1, <1>3, <1>4, ChainPart DEF ChainKeeps
  <1>5. CASE swap[Opposite] = Locked
    BY <1>1, <1>3, <1>5, RedeemMined
  <1> QED BY <1>3, <1>4, <1>5

LEMMA OppositeStays ==
    ASSUME SwapInv, [Next]_vars, Opposite \in Legs
    PROVE  /\ first'["A"] = Opposite
           /\ swap[Opposite] = Redeemed => swap'[Opposite] = Redeemed
  <1>1. Opposite # NoLock
    BY AgreedTerms
  <1> QED BY <1>1, ChainPart DEF ChainKeeps, Chains, Opposite, SwapInv

LEMMA MakerGotStays ==
    ASSUME RunnerTypes, WaitsInTime, MakerGot, RunnerNext
    PROVE  MakerGot'
  <1>1. SwapInv /\ IInv /\ [Next]_vars /\ MakerStages
    BY RunnerSteps, TwoParties DEF RunnerTypes, SwapInv, MInv
  <1> SUFFICES ASSUME exec'[Maker].state = "CounterpartyRedeemed"
               PROVE  swap'[first'["A"]] = Redeemed
    BY DEF MakerGot, Opposite
  <1>2. CASE exec[Maker].state = "CounterpartyRedeemed"
    <2>1. exec[Maker].own
      BY <1>1, <1>2 DEF MakerStages
    <2>2. Opposite \in Legs /\ swap[Opposite] = Redeemed
      BY <1>1, <1>2, <2>1 DEF MakerGot, SwapInv, AnswersHold
    <2> QED BY <1>1, <2>2, OppositeStays
  <1>3. CASE exec[Maker].state # "CounterpartyRedeemed"
    <2>1. Step(Maker) \/ LoseReceipt(Maker)
      BY <1>1, <1>3, WhoMoves, TwoParties
    <2>2. Mine(Maker) /\ RedeemSent(Maker)
      BY <1>1, <1>3, <2>1, NewReports, TwoParties DEF RedeemSent, Mine
    <2>3. phase # "stopped"
      <3>1. exec' # exec
        BY <1>3
      <3> QED BY <3>1 DEF RunnerNext, RunPreflight, RunSwap, Observe, Broadcast, StepReturns,
              StepFails, BroadcastFails, Outside, MyTurn
    <2>4. Opposite \in Legs /\ swap'[Opposite] = Redeemed
      BY <1>1, <2>2, <2>3, MakerRedeemPays
    <2> QED BY <1>1, <2>4, OppositeStays
  <1> QED BY <1>2, <1>3

\* Who moves in the loop, and what a transaction under way becomes.
LEMMA TurnOf ==
    ASSUME RunnerTypes, RunnerNext, NEW p \in Parties, exec'[p] # exec[p]
    PROVE  /\ phase = "loop" /\ turn = p
           /\ Observe(p) \/ Broadcast(p) \/ StepReturns(p) \/ StepFails(p)
           /\ exec[p].pc = "sent" =>
                  \/ StepReturns(p) /\ Mine(p)
                  \/ StepFails(p) /\ LoseReceipt(p)
  <1>1. IInv
    BY DEF RunnerTypes, SwapInv
  <1>2. ~RunPreflight /\ ~RunSwap /\ ~Outside
    BY DEF RunPreflight, RunSwap, Outside, vars, OtherLocks, OtherRedeems, OtherRefunds,
       EmptyBlock, Tick
  <1>3. ASSUME NEW q \in Parties, BroadcastFails(q)
        PROVE  FALSE
    BY <1>3 DEF BroadcastFails, vars
  <1>4. ASSUME NEW q \in Parties, q # p,
               Observe(q) \/ Broadcast(q) \/ StepReturns(q) \/ StepFails(q)
        PROVE  FALSE
    <2>1. Step(q) \/ LoseReceipt(q) \/ UNCHANGED vars
      BY <1>4 DEF Observe, Broadcast, StepReturns, StepFails, Step, EndedStep, ReadFails
    <2> QED BY <1>1, <1>4, <2>1, OthersStand DEF vars
  <1>5. Observe(p) \/ Broadcast(p) \/ StepReturns(p) \/ StepFails(p)
    BY <1>2, <1>3, <1>4 DEF RunnerNext
  <1>6. ASSUME exec[p].pc = "sent"
        PROVE  \/ StepReturns(p) /\ Mine(p)
               \/ StepFails(p) /\ LoseReceipt(p)
    BY <1>5, <1>6 DEF Observe, Broadcast, StepReturns, StepFails, ReadClock, Plan, Send,
       SendRefund, Wait, AbortSwap, GiveUpStep, EndedStep, ReadFails, Observed, vars
  <1> QED BY <1>5, <1>6 DEF Observe, Broadcast, StepReturns, StepFails, MyTurn

\* A receipt of the lock that arrives sets the contract id.
LEMMA MinedLockIsKnown ==
    ASSUME IInv, Mine(Maker), LockSent
    PROVE  exec'[Maker].own
  <1>1. exec[Maker] \in ExecRecords /\ exec \in [Parties -> ExecRecords]
    BY TwoParties DEF IInv, TypeOK, ExecRecords
  <1> DEFINE r == AfterReceipt(exec[Maker])
  <1>2. r \in ExecRecords /\ r.own
    BY <1>1, ReceiptType, ReceiptFields DEF LockSent
  <1>3. exec'[Maker] = Idle(r)
    BY <1>1, TwoParties DEF Mine
  <1> HIDE DEF r
  <1> QED BY <1>2, <1>3, RecordsWritten DEF SameRun

LEMMA MinedLockIsLocked ==
    ASSUME IInv, LockSent, Included(Maker), ~Exists(MakerLeg), swap'[MakerLeg].exists
    PROVE  swap'[MakerLeg] = Locked
  <1>1. ChainTypeOK /\ MakerLeg \in Legs /\ OwnLeg(Maker) = MakerLeg
    BY TwoParties DEF IInv, TypeOK, ChainTypeOK, Legs
  <1>2. IF CanNewSwap(swap[MakerLeg], MakerLeg, clock)
        THEN LockEffect(MakerLeg) ELSE UNCHANGED chainVars
    BY <1>1, Zenon DEF Included, LockSent
  <1>3. CASE ~CanNewSwap(swap[MakerLeg], MakerLeg, clock)
    BY <1>2, <1>3 DEF chainVars, Exists
  <1>4. CASE CanNewSwap(swap[MakerLeg], MakerLeg, clock)
    BY <1>1, <1>2, <1>4, LockSteps DEF ChainTypeOK
  <1> QED BY <1>3, <1>4

LEMMA LocksStayKnown ==
    ASSUME RunnerTypes, LocksAreKnown, RunnerNext
    PROVE  LocksAreKnown'
  <1>1. SwapInv /\ IInv /\ [Next]_vars /\ MakerStages
    BY RunnerSteps, TwoParties DEF RunnerTypes, SwapInv, MInv
  <1> SUFFICES ASSUME swap'[MakerLeg].exists, ~exec'[Maker].own
               PROVE  phase' = "stopped" /\ swap'[MakerLeg] = Locked
    BY DEF LocksAreKnown, Exists
  <1>2. ~exec[Maker].own
    <2>1. CASE exec'[Maker] = exec[Maker]
      BY <2>1
    <2>2. CASE Step(Maker) \/ LoseReceipt(Maker)
      <3>1. exec'[Maker].own = exec[Maker].own \/ exec'[Maker].own
        BY <1>1, <2>2, TwoParties, StepRecords DEF SameRun, Received
      <3> QED BY <3>1
    <2> QED BY <1>1, <2>1, <2>2, WhoMoves, TwoParties
  <1>3. CASE Exists(MakerLeg)
    <2>1. phase = "stopped" /\ swap[MakerLeg] = Locked
      BY <1>2, <1>3 DEF LocksAreKnown
    <2> QED BY <2>1 DEF RunnerNext, RunPreflight, RunSwap, Observe, Broadcast, StepReturns,
            StepFails, BroadcastFails, Outside, MyTurn
  <1>4. CASE ~Exists(MakerLeg)
    <2>1. LockSent /\ exec'[Maker].pc = "idle"
      BY <1>1, <1>4, NextShape, TwoParties DEF SwapInv
    <2>2. Step(Maker) \/ LoseReceipt(Maker)
      BY <1>1, <2>1, WhoMoves, TwoParties DEF LockSent
    <2>3. ~Mine(Maker)
      BY <1>1, <2>1, MinedLockIsKnown
    <2>4. StepFails(Maker) /\ LoseReceipt(Maker)
      BY <2>1, <2>3, TurnOf, TwoParties DEF LockSent
    <2>5. swap'[MakerLeg] = Locked
      BY <1>1, <1>4, <2>1, <2>4, MinedLockIsLocked DEF LoseReceipt
    <2> QED BY <2>4, <2>5 DEF StepFails, Stop
  <1> QED BY <1>3, <1>4

LEMMA StoppedStays ==
    ASSUME RunnerNext
    PROVE  phase # "stopped"
  BY DEF RunnerNext, RunPreflight, RunSwap, Observe, Broadcast, StepReturns, StepFails,
     BroadcastFails, Outside, MyTurn

\* A wallet that returns from a step to wait for the secret once more, or that
\* has just locked, began that step before its timelock: later it asks for a
\* refund, and if that cannot be had the runner stops.
LEMMA ReturnsInTime ==
    ASSUME SwapInv, StepReturns(Maker), exec'[Maker].state = "WaitingForSecret"
    PROVE  ~EndedStep(Maker) => clock < MakerLeg.timelock + age[Maker]
  <1>1. IInv /\ MakerStages /\ MakerKnows /\ LockInTime
    BY TwoParties DEF SwapInv, MInv
  <1>2. CASE Wait(Maker) /\ ~RefundFails(Maker)
    <2>1. exec[Maker].pc = "observe" /\ exec[Maker].state = "WaitingForSecret"
      <3>1. exec'[Maker].state = exec[Maker].state
        BY <1>1, <1>2, TwoParties, StepRecords DEF SameRun, Step, Wait, ReadClock,
           GenerateSecret, AbortSwap, SendRefund, Plan, Send, Mine, Observed, Panic
      <3> QED BY <1>2, <3>1 DEF Wait, Observed
    <2>2. Decision(Maker) = "WaitForSecretReveal"
      BY <1>2, <2>1, MakerDecides, TwoParties DEF Wait, RefundFails
    <2>3. ~(exec[Maker].now >= MakerLeg.timelock)
      BY <2>1, <2>2, MakerDecides
    <2>4. /\ exec[Maker].now \in Nat /\ clock <= exec[Maker].now + age[Maker]
          /\ clock \in Nat /\ age[Maker] \in Nat /\ MakerLeg.timelock \in Nat
      BY <1>1, <2>1, TwoParties, AgreedTerms DEF IInv, ClockIsRecent, TypeOK, Legs
    <2> QED BY <2>3, <2>4
  <1>3. CASE GiveUpStep(Maker) /\ ~CallReverts(Maker)
    <2>1. exec[Maker].pc = "reobserve" /\ exec[Maker].state = "WaitingForSecret"
      <3>1. exec'[Maker].state = exec[Maker].state
        BY <1>1, <1>3, TwoParties, StepRecords DEF SameRun, Step, GiveUpStep, ReadClock,
           GenerateSecret, AbortSwap, SendRefund, Plan, Send, Mine, Observed, Panic
      <3> QED BY <1>3, <3>1 DEF GiveUpStep, Observed
    <2>2. exec[Maker].own /\ exec[Maker].plan = "RedeemCounterpartyLeg"
      BY <1>1, <2>1 DEF MakerStages
    <2>3. Decision(Maker) = "RedeemCounterpartyLeg"
      BY <1>1, <2>1, <2>2, MakerDecides DEF MakerKnows
    <2> QED BY <1>3, <2>2, <2>3 DEF CallReverts
  <1>4. CASE AbortSwap(Maker)
    <2>1. exec'[Maker].state = "Aborted"
      BY <1>1, <1>4, TwoParties, StepRecords DEF SameRun, Step, AbortSwap, ReadClock, Wait,
         GiveUpStep, LoseReceipt, GenerateSecret, SendRefund, Plan, Send, Mine, Observed, Panic
    <2> QED BY <2>1
  <1>5. CASE Mine(Maker)
    <2>1. exec[Maker].pc = "sent"
      BY <1>5 DEF Mine
    <2>2. exec[Maker].plan = "LockMyLeg"
      <3>1. exec[Maker].plan \in {"LockMyLeg", "RedeemCounterpartyLeg", "Refund"}
            /\ exec[Maker] \in ExecRecords /\ exec \in [Parties -> ExecRecords]
        BY <1>1, <2>1, TwoParties DEF IInv, StepsAreRuns, TypeOK, ExecRecords
      <3> DEFINE r == AfterReceipt(exec[Maker])
      <3>2. r \in ExecRecords /\ exec'[Maker] = Idle(r)
        BY <1>5, <3>1, ReceiptType, TwoParties DEF Mine
      <3>3. exec'[Maker].state = r.state
        <4> HIDE DEF r
        <4> QED BY <3>2, RecordsWritten DEF SameRun
      <3>4. /\ exec[Maker].plan = "Refund" => r.state = "Refunded"
            /\ exec[Maker].plan = "RedeemCounterpartyLeg" => r.state = "CounterpartyRedeemed"
        BY <1>1, <2>1, <3>1, TwoParties, ReceiptFields, AdvanceRows, MakerInStep
           DEF MakerStages, SwapInv
      <3> QED BY <3>1, <3>3, <3>4
    <2> QED BY <1>1, <2>1, <2>2 DEF LockInTime, LockSent
  <1> QED BY <1>2, <1>3, <1>4, <1>5 DEF StepReturns

LEMMA WaitsStayInTime ==
    ASSUME RunnerTypes, WaitsInTime, RunnerNext
    PROVE  WaitsInTime'
  <1>1. SwapInv /\ IInv /\ [Next]_vars /\ MakerStages /\ phase # "stopped"
    BY RunnerSteps, StoppedStays, TwoParties DEF RunnerTypes, SwapInv, MInv
  <1> SUFFICES ASSUME phase' # "stopped", exec'[Maker].state = "WaitingForSecret"
               PROVE  clock' < MakerLeg.timelock + age'[Maker]
                                 + (IF exec'[Maker].pc = "idle" THEN 0 ELSE Lag)
    BY DEF WaitsInTime
  <1>2. /\ clock \in Nat /\ age[Maker] \in Nat /\ age[Maker] <= Lag /\ Lag \in Nat
        /\ MakerLeg.timelock \in Nat
    BY <1>1, TwoParties, Responsive, AgreedTerms DEF IInv, TypeOK, Legs
  <1>3. exec[Maker].state = "WaitingForSecret" =>
            clock < MakerLeg.timelock + age[Maker]
                      + (IF exec[Maker].pc = "idle" THEN 0 ELSE Lag)
    BY <1>1 DEF WaitsInTime
  <1>4. CASE exec'[Maker] = exec[Maker] /\ age'[Maker] = age[Maker] /\ clock' = clock
    BY <1>3, <1>4
  <1>5. CASE exec'[Maker] = exec[Maker] /\ Tick
    <2>1. Running(Maker)
      BY <1>1, <1>5, TwoParties DEF Running, MakerStages, Terminal, SwapInv, RunnerTypes
    <2>2. clock' = clock + 1 /\ age'[Maker] = age[Maker] + 1
      BY <1>5, <2>1, TwoParties DEF Tick
    <2> QED BY <1>2, <1>3, <1>5, <2>2
  <1>6. CASE (Step(Maker) \/ LoseReceipt(Maker)) /\ exec'[Maker] # exec[Maker]
    <2> DEFINE e == exec[Maker]
    <2> DEFINE f == exec'[Maker]
    <2>1. Observe(Maker) \/ Broadcast(Maker) \/ StepReturns(Maker)
      BY <1>6, TurnOf, TwoParties DEF StepFails, Stop
    <2>2. CASE Observe(Maker) \/ Broadcast(Maker)
      <3>1. ReadClock(Maker) \/ Plan(Maker) \/ Send(Maker) \/ SendRefund(Maker)
        BY <2>2 DEF Observe, Broadcast
      <3>2. /\ clock' = clock /\ f.state = e.state
            /\ \/ e.pc = "idle" /\ f.pc # "idle" /\ age'[Maker] = 0
               \/ e.pc # "idle" /\ f.pc # "idle" /\ age'[Maker] = age[Maker]
        BY <1>1, <3>1, TwoParties, StepRecords DEF SameRun, Step, ReadClock, Plan, Send,
           SendRefund, Wait, GiveUpStep, LoseReceipt, GenerateSecret, AbortSwap, Mine,
           Observed, Panic
      <3> QED BY <1>2, <1>3, <3>2
    <2>3. CASE StepReturns(Maker)
      <3>1. ~EndedStep(Maker)
        BY <1>6 DEF EndedStep, vars
      <3>2. clock < MakerLeg.timelock + age[Maker]
        BY <1>1, <2>3, <3>1, ReturnsInTime
      <3>3. clock' = clock /\ age' = age
        BY <2>3, <3>1 DEF StepReturns, Wait, AbortSwap, GiveUpStep, Mine, OnlyExec
      <3>4. f.pc = "idle"
        BY <1>1, <2>3, TurnEnds, TwoParties DEF StepReturns
      <3> QED BY <1>2, <3>2, <3>3, <3>4
    <2> QED BY <2>1, <2>2, <2>3
  <1>7. Step(Maker) \/ LoseReceipt(Maker) => exec'[Maker] # exec[Maker]
    BY <1>1, TwoParties, StepRecords DEF ReadClock, Wait, GiveUpStep, LoseReceipt,
       GenerateSecret, AbortSwap, SendRefund, Plan, Send, Mine, Observed, Panic
  <1> QED BY <1>1, <1>4, <1>5, <1>6, <1>7, WhoMoves, TwoParties

-----------------------------------------------------------------------------
(* Coins and tokens *)

RefundUnderWay(p) == exec[p].pc = "sent" /\ exec[p].plan = "Refund"

Before(p) == IF p = Taker THEN "SecretGenerated" ELSE "Start"

\* What a party still needs: the value and the gas of its lock while that is to
\* be sent, the gas of a refund until one is under way or has succeeded, and
\* that of a redeem likewise.
FundsLock(p) ==
    /\ world.wei[p][LegOf(p).rpc] >= 3 * Gas + NativeValueRequired(LegOf(p))
    /\ LegOf(p).token # Zero => world.tokens[p] >= LegOf(p).amount

FundsRefund(p) == world.wei[p][LegOf(p).rpc] >= Gas

FundsRedeem(p) == world.wei[p][LegOf(Peer(p)).rpc] >= Gas

PaidFor(p) ==
    LET id == first[PeerChain(p)] IN id \in Legs /\ swap[id] = Redeemed

Budget(p) ==
    /\ phase # "stopped" /\ exec[p].state = Before(p) /\ exec[p].pc # "sent" => FundsLock(p)
    /\ swap[OwnLeg(p)] = Returned \/ RefundUnderWay(p) \/ FundsRefund(p)
    /\ PaidFor(p) \/ RedeemSent(p) \/ FundsRedeem(p)

BudgetInv ==
    /\ preflighted => config.A.rpc # config.B.rpc /\ \A p \in Parties : Budget(p)
    /\ phase = "idle" => world \in Worlds
    /\ preflighted => result # "unfunded"

\* What check_cross_chain_balances asks for is what the swap needs.
LEMMA PreflightFunds ==
    ASSUME config \in Configs, world \in Worlds, PreflightOk(world, config), WorldOK
    PROVE  /\ config.A.rpc # config.B.rpc
           /\ \A p \in Parties : FundsLock(p) /\ FundsRefund(p) /\ FundsRedeem(p)
  <1>1. /\ config.A.signer = Taker /\ config.B.signer = Maker /\ config.minGas >= 3 * Gas
        /\ config.minGas \in Nat /\ Gas \in Nat
    BY ConfigsGiveTheLegs, RunnerNumbers
  <1>2. config.A.rpc # config.B.rpc
    BY DEF PreflightOk, CheckLeg
  <1>3. CheckCrossChainBalances(world, config.A, config.B, config.minGas)
    BY DEF PreflightOk
  <1> DEFINE a == world.wei[Taker][config.A.rpc]
  <1> DEFINE b == world.wei[Taker][config.B.rpc]
  <1> DEFINE c == world.wei[Maker][config.A.rpc]
  <1> DEFINE d == world.wei[Maker][config.B.rpc]
  <1>4. /\ a >= config.minGas + NativeValueRequired(config.A) /\ b >= config.minGas
        /\ c >= config.minGas /\ d >= config.minGas + NativeValueRequired(config.B)
        /\ config.A.token = Zero \/ world.tokens[Taker] >= config.A.amount
        /\ config.B.token = Zero \/ world.tokens[Maker] >= config.B.amount
    BY <1>1, <1>3 DEF CheckCrossChainBalances, CheckBalance, CheckTokenBalance
  <1>5. a \in Nat /\ b \in Nat /\ c \in Nat /\ d \in Nat
    BY TwoParties DEF WorldOK
  <1>6. NativeValueRequired(config.A) \in Nat /\ NativeValueRequired(config.B) \in Nat
    BY RunnerNumbers DEF NativeValueRequired
  <1> DEFINE m == NativeValueRequired(config.A)
  <1> DEFINE n == NativeValueRequired(config.B)
  <1> HIDE DEF a, b, c, d, m, n
  <1>7. /\ a >= 3 * Gas + m /\ a >= Gas /\ b >= Gas
        /\ d >= 3 * Gas + n /\ d >= Gas /\ c >= Gas
    BY <1>1, <1>4, <1>5, <1>6 DEF m, n
  <1>8. /\ LegOf(Taker) = config.A /\ LegOf(Maker) = config.B
        /\ Peer(Taker) = Maker /\ Peer(Maker) = Taker
    BY TwoParties DEF LegOf, Peer
  <1>9. FundsLock(Taker) /\ FundsLock(Maker)
    BY <1>4, <1>7, <1>8 DEF FundsLock, a, d, m, n
  <1>10. FundsRefund(Taker) /\ FundsRefund(Maker) /\ FundsRedeem(Taker) /\ FundsRedeem(Maker)
    BY <1>7, <1>8 DEF FundsRefund, FundsRedeem, a, b, c, d
  <1> QED BY <1>2, <1>9, <1>10, TwoParties

\* A step that moves no coins keeps the budget of a party if what it has under
\* way either stays so or has succeeded.
LEMMA BudgetWithoutPay ==
    ASSUME NEW p \in Parties, Budget(p), UNCHANGED <<config, world>>,
           phase = "stopped" => phase' = "stopped",
           phase' # "stopped" /\ exec'[p].state = Before(p) /\ exec'[p].pc # "sent" =>
               exec[p].state = Before(p) /\ exec[p].pc # "sent",
           swap[OwnLeg(p)] = Returned => swap'[OwnLeg(p)] = Returned,
           RefundUnderWay(p) => RefundUnderWay(p)' \/ swap'[OwnLeg(p)] = Returned,
           PaidFor(p) => PaidFor(p)',
           RedeemSent(p) => RedeemSent(p)' \/ PaidFor(p)'
    PROVE  Budget(p)'
  BY DEF Budget, FundsLock, FundsRefund, FundsRedeem, LegOf

\* A transaction that is planned or sent as a lock is the first.
LEMMA LocksComeFirst ==
    ASSUME SwapInv, NEW p \in Parties
    PROVE  /\ exec[p].pc \in {"reread", "reobserve"} /\ exec[p].plan = "LockMyLeg" =>
                  exec[p].state = Before(p)
           /\ exec[p].pc = "sent" =>
                  \/ exec[p].state = Before(p) /\ exec[p].plan = "LockMyLeg"
                  \/ /\ exec[p].state = IF p = Taker THEN "MyLegLocked" ELSE "WaitingForSecret"
                     /\ exec[p].plan \in {"RedeemCounterpartyLeg", "Refund"}
           /\ exec[p].pc = "observe" /\ Decision(p) = "Refund" => exec[p].state # Before(p)
  <1>1. exec[p].pc # "idle" => exec[p].state \notin Terminal
    BY DEF SwapInv, IInv, StepsAreRuns, Running
  <1>2. CASE p = Taker
    BY <1>1, <1>2, TakerDecides DEF SwapInv, TakerStages, Terminal, Before
  <1>3. CASE p = Maker
    <2>1. MakerStages /\ Taker # Maker
      BY TwoParties DEF SwapInv, MInv
    <2>2. exec[Maker].pc # "idle" =>
              /\ exec[Maker].own => exec[Maker].state = "WaitingForSecret"
              /\ ~exec[Maker].own => exec[Maker].state = "Start"
      BY <2>1, MakerInStep, TwoParties DEF SwapInv
    <2> QED BY <1>3, <2>1, <2>2, MakerDecides DEF MakerStages, Before
  <1> QED BY <1>2, <1>3, TwoParties

LEMMA MinedStates ==
    ASSUME SwapInv, NEW p \in Parties, Mine(p)
    PROVE  exec'[p].state # Before(p)
  <1>1. /\ exec[p].pc = "sent" /\ exec[p] \in ExecRecords
        /\ exec \in [Parties -> ExecRecords]
        /\ exec[p].plan \in {"LockMyLeg", "RedeemCounterpartyLeg", "Refund"}
    BY DEF Mine, SwapInv, IInv, TypeOK, StepsAreRuns, ExecRecords
  <1> DEFINE r == AfterReceipt(exec[p])
  <1>2. r \in ExecRecords /\ exec'[p] = Idle(r)
    BY <1>1, ReceiptType DEF Mine
  <1>3. exec'[p].state = r.state
    <2> HIDE DEF r
    <2> QED BY <1>2, RecordsWritten DEF SameRun
  <1>4. r.state \in {"MyLegLocked", "WaitingForSecret", "CounterpartyRedeemed", "Refunded"}
    BY <1>1, LocksComeFirst, ReceiptFields, AdvanceRows, TakerRows DEF Before
  <1> QED BY <1>3, <1>4 DEF Before

\* What a party has under way stays so until it has succeeded.
LEMMA UnderWay ==
    ASSUME RunnerTypes, WaitsInTime, RunnerNext, NEW p \in Parties
    PROVE  /\ phase' # "stopped" /\ exec'[p].state = Before(p) /\ exec'[p].pc # "sent" =>
                  exec[p].state = Before(p) /\ exec[p].pc # "sent"
           /\ swap[OwnLeg(p)] = Returned => swap'[OwnLeg(p)] = Returned
           /\ RefundUnderWay(p) => RefundUnderWay(p)' \/ swap'[OwnLeg(p)] = Returned
           /\ PaidFor(p) => PaidFor(p)'
           /\ RedeemSent(p) => RedeemSent(p)' \/ PaidFor(p)'
  <1>1. /\ SwapInv /\ IInv /\ [Next]_vars /\ phase # "stopped" /\ SwapInv'
    BY RunnerSteps, SwapInvStays, StoppedStays DEF RunnerTypes, SwapInv
  <1>2. OwnLeg(p) \in Legs /\ PeerChain(p) \in Chains
    BY TwoParties
  <1>3. swap[OwnLeg(p)] = Returned => swap'[OwnLeg(p)] = Returned
    BY <1>1, <1>2, ChainPart
  <1>4. PaidFor(p) => PaidFor(p)'
    BY <1>1, <1>2, ChainPart, AgreedTerms DEF PaidFor, ChainKeeps
  <1>5. CASE exec'[p] = exec[p]
    BY <1>3, <1>4, <1>5 DEF RefundUnderWay, RedeemSent
  <1>6. CASE exec'[p] # exec[p]
    <2>1. /\ Observe(p) \/ Broadcast(p) \/ StepReturns(p) \/ StepFails(p)
          /\ exec[p].pc = "sent" =>
                 \/ StepReturns(p) /\ Mine(p)
                 \/ StepFails(p) /\ LoseReceipt(p)
      BY <1>6, TurnOf
    <2>2. ASSUME phase' # "stopped", exec'[p].state = Before(p)
          PROVE  exec[p].state = Before(p) /\ exec[p].pc # "sent"
      <3>1. ~StepFails(p)
        BY <2>2 DEF StepFails, Stop
      <3>2. ~Mine(p)
        BY <1>1, <2>2, MinedStates
      <3>3. exec[p].pc # "sent"
        BY <2>1, <3>1, <3>2
      <3>4. Step(p) /\ ~GenerateSecret(p)
        <4>1. Step(p)
          BY <1>6, <2>1, <3>1 DEF Observe, Broadcast, StepReturns, Step, EndedStep, vars
        <4>2. ~GenerateSecret(p)
          BY <2>1, <1>6, <3>1, <3>2 DEF Observe, Broadcast, StepReturns, GenerateSecret, ReadClock,
             Plan, Send, SendRefund, Wait, AbortSwap, GiveUpStep, EndedStep, Observed, vars
        <4> QED BY <4>1, <4>2
      <3>5. exec'[p].state = exec[p].state \/ exec'[p].state = "Aborted"
        BY <1>1, <3>2, <3>4, StepRecords DEF SameRun
      <3> QED BY <2>2, <3>3, <3>5 DEF Before
    <2>3. ASSUME RefundUnderWay(p)
          PROVE  swap'[OwnLeg(p)] = Returned
      <3>1. exec[p].pc = "sent" /\ exec[p].plan = "Refund" /\ Included(p)
        BY <2>1, <2>3 DEF RefundUnderWay, Mine, LoseReceipt
      <3>2. swap[OwnLeg(p)] \in {Locked, Returned} /\ clock >= OwnLeg(p).timelock
        BY <1>1, <3>1 DEF SwapInv, MInv, RefundsAreDue
      <3> QED BY <1>1, <3>1, <3>2, RefundMined
    <2>4. ASSUME RedeemSent(p)
          PROVE  PaidFor(p)'
      <3>1. Mine(p) \/ LoseReceipt(p)
        BY <2>1, <2>4 DEF RedeemSent
      <3>2. CASE p = Maker
        <4>1. Opposite \in Legs /\ swap'[Opposite] = Redeemed
          BY <1>1, <2>4, <3>1, <3>2, MakerRedeemPays
        <4>2. first'["A"] = Opposite
          BY <1>1, <4>1, OppositeStays
        <4> QED BY <3>2, <4>1, <4>2, TwoParties DEF PaidFor
      <3>3. CASE p = Taker
        <4>1. secretPublic /\ secretPublic' = secretPublic
          BY <1>1, <2>4, <3>1 DEF IInv, RedeemsArePublic, Mine, LoseReceipt
        <4>2. exec'[p].pc = "idle"
          BY <1>1, <3>1, TurnEnds
        <4>3. first'["B"] \in Legs /\ swap'[first'["B"]] = Redeemed
          BY <1>1, <3>3, <4>1, <4>2, TwoParties DEF SwapInv, IInv, RevealPays, RedeemSent
        <4> QED BY <3>3, <4>3, TwoParties DEF PaidFor
      <3> QED BY <3>2, <3>3, TwoParties
    <2> QED BY <1>3, <1>4, <2>2, <2>3, <2>4
  <1> QED BY <1>5, <1>6

\* What each transaction costs, and where.
LEMMA Costs ==
    ASSUME WorldOK, NEW p \in Parties
    PROVE  /\ Chain(p, "LockMyLeg") = LegOf(p).rpc
           /\ Price(p, "LockMyLeg") <= 2 * Gas + NativeValueRequired(LegOf(p))
           /\ Chain(p, "RedeemCounterpartyLeg") = LegOf(Peer(p)).rpc
           /\ Price(p, "RedeemCounterpartyLeg") = Gas
           /\ TokensDue(p, "RedeemCounterpartyLeg") = 0
           /\ Chain(p, "Refund") = LegOf(p).rpc
           /\ Price(p, "Refund") = Gas /\ TokensDue(p, "Refund") = 0
           /\ TokensDue(p, "LockMyLeg") = IF LegOf(p).token # Zero THEN LegOf(p).amount ELSE 0
  <1>1. Gas \in Nat /\ NativeValueRequired(LegOf(p)) \in Nat
    BY LegTypes, RunnerNumbers
  <1> HIDE DEF NativeValueRequired
  <1> QED BY <1>1 DEF Chain, Price, TokensDue

\* A party with its budget can pay for what its step has decided to send.
LEMMA CanAfford ==
    ASSUME SwapInv, WorldOK, phase # "stopped", NEW p \in Parties, Budget(p)
    PROVE  /\ exec[p].pc = "reobserve" /\ SimulationOk(p) => CanPay(p, exec[p].plan)
           /\ exec[p].pc = "observe" /\ CanSendRefund(p) => CanPay(p, "Refund")
  <1>1. /\ Gas \in Nat /\ NativeValueRequired(LegOf(p)) \in Nat
        /\ world.wei[p][LegOf(p).rpc] \in Nat /\ world.wei[p][LegOf(Peer(p)).rpc] \in Nat
        /\ world.tokens[p] \in Nat /\ LegOf(p).amount \in Nat
    BY LegTypes, RunnerNumbers DEF WorldOK
  <1>2. ChainTypeOK /\ OwnLeg(p) \in Legs /\ PeerChain(p) \in Chains
    BY TwoParties DEF SwapInv, IInv, TypeOK, ChainTypeOK
  <1>3. ASSUME exec[p].pc = "reobserve", SimulationOk(p), exec[p].plan = "LockMyLeg"
        PROVE  CanPay(p, "LockMyLeg")
    <2>1. FundsLock(p)
      BY <1>3, LocksComeFirst DEF Budget
    <2>2. world.wei[p][LegOf(p).rpc] >= 3 * Gas + NativeValueRequired(LegOf(p))
      BY <2>1 DEF FundsLock
    <2>3. LegOf(p).token # Zero => world.tokens[p] >= LegOf(p).amount
      BY <2>1 DEF FundsLock
    <2> HIDE DEF NativeValueRequired
    <2>4. Price(p, "LockMyLeg") \in Nat
      BY PriceTypes
    <2>5. world.wei[p][LegOf(p).rpc] >= Price(p, "LockMyLeg")
      BY <1>1, <2>2, <2>4, Costs
    <2> QED BY <1>1, <2>3, <2>5, Costs DEF CanPay
  <1>4. ASSUME exec[p].pc = "reobserve", SimulationOk(p),
               exec[p].plan = "RedeemCounterpartyLeg"
        PROVE  CanPay(p, "RedeemCounterpartyLeg")
    <2> DEFINE id == first[PeerChain(p)]
    <2>1. id \in Legs /\ swap[id] # Redeemed
      <3>1. id \in Legs /\ ~swap[id].withdrawn
        BY <1>2, <1>4 DEF SimulationOk, CanRedeem, ChainTypeOK
      <3> QED BY <1>2, <3>1, RecordStages DEF ChainTypeOK
    <2>2. FundsRedeem(p)
      BY <1>4, <2>1 DEF Budget, PaidFor, RedeemSent
    <2> QED BY <1>1, <2>2, Costs DEF CanPay, FundsRedeem
  <1>5. ASSUME exec[p].pc = "observe", CanSendRefund(p)
        PROVE  CanPay(p, "Refund")
    <2>1. swap[OwnLeg(p)] # Returned
      <3>1. ~swap[OwnLeg(p)].refunded /\ Returned.refunded
        BY <1>5 DEF CanSendRefund, CanRefund, Returned, Locked, NoSwap
      <3> QED BY <3>1
    <2>2. FundsRefund(p)
      BY <1>5, <2>1 DEF Budget, RefundUnderWay
    <2> QED BY <1>1, <2>2, Costs DEF CanPay, FundsRefund
  <1>6. SimulationOk(p) => exec[p].plan \in {"LockMyLeg", "RedeemCounterpartyLeg"}
    BY DEF SimulationOk
  <1> QED BY <1>3, <1>4, <1>5, <1>6

LEMMA BudgetAfterPay ==
    ASSUME RunnerTypes, phase # "stopped", NEW p \in Parties, Broadcast(p),
           config.A.rpc # config.B.rpc, \A q \in Parties : Budget(q)
    PROVE  \A q \in Parties : Budget(q)'
  <1>1. SwapInv /\ IInv /\ WorldOK /\ Step(p)
    BY DEF RunnerTypes, SwapInv, Broadcast, Step
  <1>2. UNCHANGED <<config, phase, swap, first>>
    BY DEF Broadcast, control, Send, SendRefund, OnlyExec, chainVars
  <1> DEFINE plan == exec'[p].plan
  <1>3. /\ \A q \in Parties, c \in DOMAIN world.code :
              world'.wei[q][c] = IF q = p /\ c = Chain(p, plan)
                                 THEN world.wei[q][c] - Price(p, plan)
                                 ELSE world.wei[q][c]
        /\ \A q \in Parties :
              world'.tokens[q] = IF q = p THEN world.tokens[q] - TokensDue(p, plan)
                                 ELSE world.tokens[q]
    BY <1>1, <1>2, PayEffect DEF Broadcast
  <1>4. /\ exec'[p].pc = "sent" /\ exec[p].pc # "sent"
        /\ \/ Send(p) /\ plan = exec[p].plan
           \/ SendRefund(p) /\ plan = "Refund"
    BY <1>1, StepRecords DEF Broadcast, Send, SendRefund, ReadClock, Wait, GiveUpStep,
       LoseReceipt, GenerateSecret, AbortSwap, Plan, Mine, Observed, Panic
  <1> HIDE DEF plan
  <1>5. ASSUME NEW q \in Parties, q # p
        PROVE  Budget(q)'
    <2>1. exec'[q] = exec[q]
      BY <1>1, <1>5, OthersStand
    <2>2. /\ LegOf(q).rpc \in DOMAIN world.code /\ LegOf(Peer(q)).rpc \in DOMAIN world.code
          /\ LegOf(q)' = LegOf(q) /\ LegOf(Peer(q))' = LegOf(Peer(q))
      BY <1>1, <1>2, LegTypes DEF LegOf
    <2>3. /\ world'.wei[q][LegOf(q).rpc] = world.wei[q][LegOf(q).rpc]
          /\ world'.wei[q][LegOf(Peer(q)).rpc] = world.wei[q][LegOf(Peer(q)).rpc]
          /\ world'.tokens[q] = world.tokens[q]
      BY <1>3, <1>5, <2>2
    <2>4. /\ FundsLock(q) => FundsLock(q)'
          /\ FundsRefund(q) => FundsRefund(q)'
          /\ FundsRedeem(q) => FundsRedeem(q)'
      BY <2>2, <2>3 DEF FundsLock, FundsRefund, FundsRedeem
    <2>5. /\ RefundUnderWay(q)' = RefundUnderWay(q) /\ RedeemSent(q)' = RedeemSent(q)
          /\ PaidFor(q)' = PaidFor(q)
      BY <1>2, <2>1 DEF RefundUnderWay, RedeemSent, PaidFor
    <2>6. Budget(q)
      OBVIOUS
    <2> HIDE DEF FundsLock, FundsRefund, FundsRedeem, PaidFor
    <2> QED BY <1>2, <2>1, <2>4, <2>5, <2>6 DEF Budget
  <1>6. Budget(p)'
    <2> DEFINE own == LegOf(p).rpc
    <2> DEFINE peer == LegOf(Peer(p)).rpc
    <2> DEFINE n == NativeValueRequired(LegOf(p))
    <2>1. /\ own \in DOMAIN world.code /\ peer \in DOMAIN world.code
          /\ LegOf(p)' = LegOf(p) /\ LegOf(Peer(p))' = LegOf(Peer(p))
          /\ own # peer
      BY <1>1, <1>2, LegTypes, TwoParties DEF LegOf, Peer
    <2>2. /\ Gas \in Nat /\ n \in Nat /\ Price(p, "LockMyLeg") \in Nat
          /\ world.wei[p][own] \in Nat /\ world.wei[p][peer] \in Nat
      BY <1>1, <2>1, LegTypes, PriceTypes, RunnerNumbers DEF WorldOK
    <2>3. Budget(p)
      OBVIOUS
    <2>4. PaidFor(p)' = PaidFor(p)
      BY <1>2 DEF PaidFor
    <2>5. CASE plan = "LockMyLeg"
      <3>1. Send(p) /\ exec[p].pc = "reobserve" /\ exec[p].plan = "LockMyLeg"
        BY <1>4, <2>5 DEF Send, Observed
      <3>2. world.wei[p][own] >= 3 * Gas + n
        BY <1>1, <2>3, <3>1, LocksComeFirst DEF Budget, FundsLock
      <3>3. world'.wei[p][own] = world.wei[p][own] - Price(p, "LockMyLeg")
            /\ world'.wei[p][peer] = world.wei[p][peer]
        BY <1>1, <1>3, <2>1, <2>5, Costs
      <3>4. Price(p, "LockMyLeg") <= 2 * Gas + n
        BY <1>1, Costs
      <3> HIDE DEF n, own, peer
      <3>5. world'.wei[p][own] >= Gas
        BY <2>2, <3>2, <3>3, <3>4
      <3>6. FundsRefund(p)'
        BY <2>1, <3>5 DEF FundsRefund, own
      <3>7. FundsRedeem(p) => FundsRedeem(p)'
        BY <2>1, <3>3 DEF FundsRedeem, peer
      <3>8. ~RedeemSent(p)
        BY <3>1 DEF RedeemSent
      <3> HIDE DEF FundsLock, FundsRefund, FundsRedeem, PaidFor
      <3> QED BY <1>4, <2>3, <2>4, <3>6, <3>7, <3>8 DEF Budget
    <2>6. CASE plan = "RedeemCounterpartyLeg"
      <3>1. RedeemSent(p)' /\ exec'[p].pc = "sent"
        BY <1>4, <2>6 DEF RedeemSent, plan
      <3>2. world'.wei[p][own] = world.wei[p][own]
        BY <1>1, <1>3, <2>1, <2>6, Costs
      <3>3. FundsRefund(p) => FundsRefund(p)'
        BY <2>1, <3>2 DEF FundsRefund
      <3>4. ~RefundUnderWay(p)
        BY <1>4 DEF RefundUnderWay
      <3> HIDE DEF FundsLock, FundsRefund, FundsRedeem, PaidFor
      <3> QED BY <1>2, <2>3, <3>1, <3>3, <3>4 DEF Budget
    <2>7. CASE plan = "Refund"
      <3>1. RefundUnderWay(p)' /\ exec'[p].pc = "sent"
        BY <1>4, <2>7 DEF RefundUnderWay, plan
      <3>2. world'.wei[p][peer] = world.wei[p][peer]
        BY <1>1, <1>3, <2>1, <2>7, Costs
      <3>3. FundsRedeem(p) => FundsRedeem(p)'
        BY <2>1, <3>2 DEF FundsRedeem
      <3>4. ~RedeemSent(p)
        BY <1>4 DEF RedeemSent
      <3> HIDE DEF FundsLock, FundsRefund, FundsRedeem, PaidFor
      <3> QED BY <2>3, <2>4, <3>1, <3>3, <3>4 DEF Budget
    <2>8. plan \in {"LockMyLeg", "RedeemCounterpartyLeg", "Refund"}
      BY <1>4 DEF Send, SimulationOk
    <2> QED BY <2>5, <2>6, <2>7, <2>8
  <1> QED BY <1>5, <1>6

LEMMA BudgetStays ==
    ASSUME RunnerTypes, LoopInv, BudgetInv, RunnerNext
    PROVE  BudgetInv'
  <1>1. SwapInv /\ WorldOK /\ phase # "stopped" /\ WaitsInTime /\ result = "none"
    BY StoppedStays DEF RunnerTypes, LoopInv, TurnsHold
  <1>2. CASE RunPreflight
    <2>1. world \in Worlds /\ config \in Configs /\ PreflightOk(world, config)
      BY <1>2 DEF RunPreflight, BudgetInv, RunnerTypes, RunnerTypeOK
    <2>2. /\ config.A.rpc # config.B.rpc
          /\ \A p \in Parties : FundsLock(p) /\ FundsRefund(p) /\ FundsRedeem(p)
      BY <1>1, <2>1, PreflightFunds
    <2>3. UNCHANGED <<config, world, phase, result>>
      BY <1>2 DEF RunPreflight, control
    <2>4. ASSUME NEW p \in Parties
          PROVE  Budget(p)'
      <3>1. FundsLock(p)' /\ FundsRefund(p)' /\ FundsRedeem(p)'
        BY <2>2, <2>3 DEF FundsLock, FundsRefund, FundsRedeem, LegOf
      <3> QED BY <3>1 DEF Budget
    <2> QED BY <1>1, <2>1, <2>2, <2>3, <2>4 DEF BudgetInv
  <1>3. ASSUME UNCHANGED <<config, world, preflighted>>, preflighted,
               phase = "stopped" => phase' = "stopped"
        PROVE  config'.A.rpc # config'.B.rpc /\ \A p \in Parties : Budget(p)'
    <2>1. ASSUME NEW p \in Parties PROVE Budget(p)'
      BY <1>1, <1>3, <2>1, UnderWay, BudgetWithoutPay DEF BudgetInv
    <2> QED BY <1>3, <2>1 DEF BudgetInv
  <1>4. CASE RunSwap
    BY <1>1, <1>3, <1>4 DEF RunSwap, BudgetInv
  <1>5. CASE Outside
    BY <1>1, <1>3, <1>5 DEF Outside, runnerVars, BudgetInv
  <1>6. ASSUME NEW p \in Parties, Observe(p) \/ StepReturns(p) \/ StepFails(p)
        PROVE  BudgetInv'
    <2>1. phase = "loop" /\ UNCHANGED <<config, world, preflighted>>
      BY <1>6 DEF Observe, StepReturns, StepFails, MyTurn, runnerVars
    <2>2. phase' # "idle" /\ result' # "unfunded"
      BY <1>1, <1>6, <2>1, TurnTypes DEF Observe, StepReturns, StepFails, Stop, runnerVars
    <2> QED BY <1>1, <1>3, <2>1, <2>2 DEF BudgetInv
  <1>7. ASSUME NEW p \in Parties, Broadcast(p)
        PROVE  BudgetInv'
    <2>1. phase = "loop" /\ UNCHANGED <<config, preflighted, phase, result>>
      BY <1>7 DEF Broadcast, MyTurn, control
    <2> QED BY <1>1, <1>7, <2>1, BudgetAfterPay DEF BudgetInv
  <1>8. ASSUME NEW p \in Parties, BroadcastFails(p)
        PROVE  BudgetInv'
    <2>1. ~preflighted
      BY <1>1, <1>8, CanAfford DEF BroadcastFails, BudgetInv
    <2>2. UNCHANGED preflighted /\ phase' = "stopped"
      BY <1>8 DEF BroadcastFails, Stop
    <2> QED BY <2>1, <2>2 DEF BudgetInv
  <1> QED BY <1>2, <1>4, <1>5, <1>6, <1>7, <1>8 DEF RunnerNext

-----------------------------------------------------------------------------
(* The theorems *)

RInv == RunnerTypes /\ LoopInv /\ BudgetInv

LEMMA RInvStays ==
    ASSUME RInv, [RunnerNext]_allVars
    PROVE  RInv'
  <1>1. CASE RunnerNext
    <2>1. RunnerTypes'
      BY <1>1, TypesNext DEF RInv
    <2>2. LoopInv'
      BY <1>1, TurnsStay, WaitsStayInTime, MakerGotStays, LocksStayKnown DEF RInv, LoopInv
    <2>3. BudgetInv'
      BY <1>1, BudgetStays DEF RInv
    <2> QED BY <2>1, <2>2, <2>3 DEF RInv
  <1>2. CASE UNCHANGED allVars
    <2>1. RunnerTypes'
      BY <1>2, TypesNext DEF RInv
    <2>2. UNCHANGED <<swap, first, clock, exec, age, config, world, preflighted, phase, turn,
                      result>>
      BY <1>2 DEF allVars, vars, runnerVars
    <2>3. LoopInv'
      BY <2>2 DEF RInv, LoopInv, TurnsHold, BothRedeemed, WaitsInTime, MakerGot, Opposite,
         LocksAreKnown, Exists
    <2>4. BudgetInv'
      <3>1. \A p \in Parties : Budget(p)' = Budget(p)
        BY <2>2 DEF Budget, FundsLock, FundsRefund, FundsRedeem, PaidFor, RefundUnderWay,
           RedeemSent, LegOf
      <3> QED BY <2>2, <3>1 DEF RInv, BudgetInv
    <2> QED BY <2>1, <2>3, <2>4 DEF RInv
  <1> QED BY <1>1, <1>2

LEMMA RunnerInvariance == RunnerSpec => []RInv
  <1>1. RunnerInit => RInv
    <2> SUFFICES ASSUME RunnerInit PROVE RInv
      OBVIOUS
    <2>1. RunnerTypes
      BY TypesInit
    <2>2. LoopInv
      BY LoopInit DEF RunnerInit
    <2>3. BudgetInv
      BY DEF RunnerInit, BudgetInv
    <2> QED BY <2>1, <2>2, <2>3 DEF RInv
  <1>2. RInv /\ [RunnerNext]_allVars => RInv'
    BY RInvStays
  <1> QED BY <1>1, <1>2, PTL DEF RunnerSpec

\* The runner of closed-testnet-swap.rs only drives the executors: whatever it
\* does is a behaviour of WalletSwap, so that all that is proved of the two
\* wallets (SecretSafe, MakerPaid, NeverLocksUnsafe...) holds while it runs.
THEOREM RunnerDrivesTheSwap == RunnerSpec => Spec
  <1>1. RunnerInit => Init
    BY DEF RunnerInit
  <1>2. [RunnerNext]_allVars => [Next]_vars
    BY RunnerSteps
  <1> QED BY <1>1, <1>2, PTL DEF RunnerSpec, Spec

\* The variables of closed-testnet-swap.rs keep their types and no balance
\* becomes negative, for any configurations, answers and legs.
THEOREM RunnerTypeCorrect == RunnerSpec => []RunnerTypeOK
  <1>1. RInv => RunnerTypeOK
    BY DEF RInv, RunnerTypes
  <1> QED BY <1>1, RunnerInvariance, PTL

\* "CLOSED TESTNET SWAP OK" means that both parties got their legs
\* (OkMeansSwapped), although a maker whose lock reverted goes on and no
\* receipt is looked at: the runner's loop stops at a refund that is due and
\* cannot be had, before a redeem could come too late.
THEOREM OkIsSwapped == RunnerSpec => []OkMeansSwapped
  <1>1. RInv => OkMeansSwapped
    <2> SUFFICES ASSUME RInv, result = "ok", NEW p \in Parties
                 PROVE  Right(p, first[PeerChain(p)]) /\ swap[first[PeerChain(p)]].withdrawn
      BY DEF OkMeansSwapped
    <2>1. exec[p].state \in {"CounterpartyRedeemed", "Done"} /\ SwapInv /\ MakerGot
      BY DEF RInv, LoopInv, TurnsHold, BothRedeemed, RunnerTypes
    <2>2. Redeemed.withdrawn
      BY DEF Redeemed, Locked, NoSwap
    <2>3. CASE p = Taker
      <3>1. exec[Taker].state = "CounterpartyRedeemed"
        BY <2>1, <2>3 DEF SwapInv, TakerStages
      <3>2. secretPublic
        BY <2>1, <3>1, TwoParties DEF SwapInv, MInv, TakerReports
      <3>3. ~RedeemSent(Taker)
        BY <2>1, <3>1, TwoParties DEF SwapInv, IInv, StepsAreRuns, Running, RedeemSent, Terminal
      <3>4. Right(Taker, first["B"]) /\ swap[first["B"]] = Redeemed
        BY <2>1, <3>2, <3>3, TwoParties DEF SwapInv, IInv, RevealPays
      <3> QED BY <2>2, <2>3, <3>4, TwoParties
    <2>4. CASE p = Maker
      <3>1. MakerStages
        BY <2>1, TwoParties DEF SwapInv, MInv
      <3>2. exec[Maker].own /\ exec[Maker].state = "CounterpartyRedeemed"
        BY <2>1, <2>4, <3>1 DEF MakerStages
      <3>3. Right(Maker, Opposite) /\ swap[Opposite] = Redeemed
        BY <2>1, <3>2 DEF SwapInv, AnswersHold, MakerGot
      <3> QED BY <2>2, <2>4, <3>3, TwoParties DEF Opposite
    <2> QED BY <2>3, <2>4, TwoParties
  <1> QED BY <1>1, RunnerInvariance, PTL

\* After a preflight that passed no transaction fails for lack of coins or
\* tokens (PreflightFundsTheSwap): minGas on both chains and the leg's value pay
\* for an approval, a lock and a refund on one and a redeem on the other, none
\* of which is sent twice.
THEOREM PreflightFundsAll == RunnerSpec => []PreflightFundsTheSwap
  <1>1. RInv => PreflightFundsTheSwap
    BY DEF RInv, BudgetInv, PreflightFundsTheSwap
  <1> QED BY <1>1, RunnerInvariance, PTL

\* The runner stops at the first error or when its steps are used up; after a
\* preflight that passed, both parties then have, or can still pay for, their
\* own leg or the other's (StopLosesNothing).
THEOREM StopsLoseNothing == RunnerSpec => []StopLosesNothing
  <1>1. RInv => StopLosesNothing
    <2> SUFFICES ASSUME RInv, phase = "stopped", preflighted, NEW p \in Parties,
                        Exists(OwnLeg(p))
                 PROVE  WayOut(p)
      BY DEF StopLosesNothing
    <2>1. SwapInv /\ IInv /\ WorldOK /\ Budget(p) /\ LocksAreKnown
      BY DEF RInv, RunnerTypes, SwapInv, BudgetInv, LoopInv
    <2>2. exec[p].pc # "sent"
      BY DEF RInv, LoopInv, TurnsHold
    <2>3. /\ OwnLeg(p) \in Legs /\ swap[OwnLeg(p)] \in SwapRecords
          /\ world.wei[p][LegOf(p).rpc] \in Nat /\ world.wei[p][LegOf(Peer(p)).rpc] \in Nat
          /\ world.tokens[p] \in Nat
      BY <2>1, TwoParties, LegTypes DEF IInv, TypeOK, WorldOK
    <2>4. ~NoSwap.exists /\ Returned.refunded /\ Redeemed.withdrawn
      BY DEF NoSwap, Returned, Redeemed, Locked
    <2>5. CASE swap[OwnLeg(p)] = Returned
      BY <2>4, <2>5 DEF WayOut
    <2>6. CASE swap[OwnLeg(p)] = Locked
      <3>1. FundsRefund(p)
        BY <2>1, <2>2, <2>6, StagesDiffer DEF Budget, RefundUnderWay
      <3>2. CanPay(p, "Refund")
        BY <2>1, <2>3, <3>1, Costs DEF CanPay, FundsRefund
      <3>3. Active(swap[OwnLeg(p)])
        BY <2>3, <2>6, RecordStages DEF Active
      <3> QED BY <3>2, <3>3 DEF WayOut
    <2>7. CASE swap[OwnLeg(p)] = Redeemed
      <3>1. swap[OwnLeg(p)].withdrawn
        BY <2>4, <2>7
      <3>2. secretPublic
        BY <2>1, <2>3, <3>1, TwoParties DEF SwapInv, IInv, RedeemsArePublic
      <3>3. Paid(p)
        <4>1. CASE p = Taker
          <5>1. /\ first["B"] \in Legs /\ Right(Taker, first["B"])
                /\ swap[first["B"]] = Redeemed
            BY <2>1, <2>2, <3>2, <4>1, TwoParties DEF SwapInv, IInv, RevealPays, RedeemSent
          <5> QED BY <2>4, <4>1, <5>1, TwoParties DEF Paid
        <4>2. CASE p = Maker
          <5>1. exec[Maker].own
            BY <2>1, <2>7, <4>2, StagesDiffer, TwoParties DEF LocksAreKnown
          <5>2. MakerPaid /\ Maker \in honest /\ ~Panicked(Maker)
            BY <2>1, TwoParties, MakerPaidHolds DEF SwapInv, RInv, RunnerTypes
          <5> QED BY <3>1, <4>2, <5>1, <5>2, TwoParties DEF MakerPaid
        <4> QED BY <4>1, <4>2, TwoParties
      <3>4. CASE PaidFor(p)
        BY <2>4, <3>3, <3>4 DEF PaidFor, WayOut
      <3>5. CASE FundsRedeem(p)
        <4>1. CanPay(p, "RedeemCounterpartyLeg")
          BY <2>1, <2>3, <3>5, Costs DEF CanPay, FundsRedeem
        <4> QED BY <3>2, <3>3, <4>1 DEF WayOut
      <3> QED BY <2>1, <2>2, <3>4, <3>5 DEF Budget, RedeemSent
    <2> QED BY <2>3, <2>4, <2>5, <2>6, <2>7 DEF SwapRecords, Exists
  <1> QED BY <1>1, RunnerInvariance, PTL
=============================================================================
