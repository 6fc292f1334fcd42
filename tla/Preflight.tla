------------------------------ MODULE Preflight ------------------------------
(***************************************************************************)
(* What the two closed-testnet programs check before anything is sent:     *)
(* closed-testnet-preflight, which only reads, and the start of            *)
(* closed-testnet-swap, which repeats the contract checks in code of its   *)
(* own and leaves the balances to the preflight.                           *)
(*                                                                         *)
(* A config is what the environment variables say.  A leg of it is         *)
(*   [rpc, chain, htlc, settlement, token, signer, amount]                 *)
(* where rpc stands for the endpoint by the chain id it answers with, and  *)
(* an amount that is not given is 0.  A world is what the endpoints know:  *)
(*   [code: chain -> addresses with bytecode, htlcOf: Settlement -> HTLC,  *)
(*    wei: signer -> chain -> Nat, tokens: signer -> Nat]                  *)
(***************************************************************************)
EXTENDS Verify

CONSTANTS
    AllowedChains, \* ALLOWED_TEST_CHAINS
    Zero           \* the zero address; as a token, the native coin

AssertChainAllowed(chain) == chain \in AllowedChains

HasCode(world, leg, address) == address \in world.code[leg.rpc]

-----------------------------------------------------------------------------
(* closed-testnet-preflight *)

CheckLeg(world, leg) ==
    /\ leg.rpc = leg.chain
    /\ AssertChainAllowed(leg.rpc)
    /\ HasCode(world, leg, leg.htlc)

CheckSettlement(world, leg) ==
    /\ leg.settlement # Zero
    /\ HasCode(world, leg, leg.settlement)
    /\ world.htlcOf[leg.settlement] = leg.htlc

\* Mutant: an address without bytecode passes for a token.
MutCheckToken(world, leg) == TRUE

CheckToken(world, leg) ==
    leg.token = Zero \/ HasCode(world, leg, leg.token)

NativeValueRequired(leg) == IF leg.token = Zero THEN leg.amount ELSE 0

CheckBalance(world, signer, leg, required) ==
    world.wei[signer][leg.rpc] >= required

CheckTokenBalance(world, leg) ==
    leg.token = Zero \/ world.tokens[leg.signer] >= leg.amount

\* Mutant: each signer's balance is looked at on its own chain only.
MutOwnChainOnly(world, a, b, minGas) ==
    /\ CheckBalance(world, a.signer, a, minGas + NativeValueRequired(a))
    /\ CheckBalance(world, b.signer, b, minGas + NativeValueRequired(b))
    /\ CheckTokenBalance(world, a)
    /\ CheckTokenBalance(world, b)

\* Mutant: gas alone is asked for, not the coins the leg locks.
MutGasOnly(world, a, b, minGas) ==
    /\ \A leg \in {a, b}, signer \in {a.signer, b.signer} :
          CheckBalance(world, signer, leg, minGas)
    /\ CheckTokenBalance(world, a)
    /\ CheckTokenBalance(world, b)

\* Both signers pay gas on both chains: one locks and the other redeems there.
CheckCrossChainBalances(world, a, b, minGas) ==
    /\ CheckBalance(world, a.signer, a, minGas + NativeValueRequired(a))
    /\ CheckBalance(world, a.signer, b, minGas)
    /\ CheckBalance(world, b.signer, a, minGas)
    /\ CheckBalance(world, b.signer, b, minGas + NativeValueRequired(b))
    /\ CheckTokenBalance(world, a)
    /\ CheckTokenBalance(world, b)

PreflightOk(world, config) ==
    LET a == config.A
        b == config.B
    IN  /\ config.minConf # 0
        /\ a.chain # b.chain
        /\ CheckLeg(world, a)        /\ CheckLeg(world, b)
        /\ CheckSettlement(world, a) /\ CheckSettlement(world, b)
        /\ CheckToken(world, a)      /\ CheckToken(world, b)
        /\ CheckCrossChainBalances(world, a, b, config.minGas)

-----------------------------------------------------------------------------
(* The start of closed-testnet-swap *)

\* read_config: amounts are given, not zero, and not above the maximum.
AmountsOk(config) ==
    \A leg \in {config.A, config.B} : leg.amount \in 1..config.maxAmount

TimelocksOk(config) ==
    config.takerLock >= SatAdd(config.makerLock, config.minGap)

ValidateHtlcContract(world, leg) ==
    /\ leg.htlc # Zero
    /\ leg.rpc = leg.chain
    /\ AssertChainAllowed(leg.rpc)
    /\ HasCode(world, leg, leg.htlc)

ValidateSettlementContract(world, leg) ==
    /\ leg.settlement # Zero
    /\ leg.rpc = leg.chain
    /\ AssertChainAllowed(leg.rpc)
    /\ HasCode(world, leg, leg.settlement)
    /\ world.htlcOf[leg.settlement] = leg.htlc

ValidateTokenContract(world, leg) ==
    \/ leg.token = Zero
    \/ /\ leg.rpc = leg.chain
       /\ AssertChainAllowed(leg.rpc)
       /\ HasCode(world, leg, leg.token)

\* Signer::from_key_str asks each endpoint again; all four signers must be on
\* the configured chains.
SignersOk(config) ==
    \A leg \in {config.A, config.B} :
        AssertChainAllowed(leg.rpc) /\ leg.rpc = leg.chain

\* run() up to the loop.
Accepts(world, config) ==
    LET a == config.A
        b == config.B
    IN  /\ config.confirmed
        /\ AmountsOk(config)
        /\ a.chain # b.chain
        /\ config.minConf # 0
        /\ TimelocksOk(config)
        /\ ValidateHtlcContract(world, a)       /\ ValidateHtlcContract(world, b)
        /\ ValidateSettlementContract(world, a) /\ ValidateSettlementContract(world, b)
        /\ ValidateTokenContract(world, a)      /\ ValidateTokenContract(world, b)
        /\ SignersOk(config)
=============================================================================
