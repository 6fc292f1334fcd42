------------------------------- MODULE Escrow -------------------------------
(***************************************************************************)
(* What the two contracts of one chain promise together, with neither of   *)
(* them visible: an agreement takes units from one owner and, exactly      *)
(* once, either gives them to its recipient before the timelock or gives   *)
(* them back to that same owner from the timelock on.  Nobody's funds      *)
(* change in any other way, donations apart.                               *)
(***************************************************************************)
EXTENDS Naturals

CONSTANTS
    Agreements,  \* records with recipient, token, amount, timelock
    Assets,
    Parties,     \* whose funds are watched
    NoOne,
    LastTime     \* bound on the clock

VARIABLES
    stage,   \* agreement -> "none", "locked", "released", "returned"
    owner,   \* agreement -> who paid for it
    funds,   \* asset -> party -> units
    clock

escrowVars == <<stage, owner, funds, clock>>

\* Credits a party that is watched; others hold what they get out of sight.
Credit(f, token, party, amount) ==
    IF party \in Parties THEN [f EXCEPT ![token][party] = @ + amount] ELSE f

Lock(id, party) ==
    /\ stage[id] = "none"
    /\ clock < id.timelock
    /\ id.token \in Assets
    /\ 0 < id.amount /\ id.amount <= funds[id.token][party]
    /\ stage' = [stage EXCEPT ![id] = "locked"]
    /\ owner' = [owner EXCEPT ![id] = party]
    /\ funds' = [funds EXCEPT ![id.token][party] = @ - id.amount]
    /\ UNCHANGED clock

Release(id) ==
    /\ stage[id] = "locked"
    /\ clock < id.timelock
    /\ stage' = [stage EXCEPT ![id] = "released"]
    /\ funds' = Credit(funds, id.token, id.recipient, id.amount)
    /\ UNCHANGED <<owner, clock>>

Return(id) ==
    /\ stage[id] = "locked"
    /\ clock >= id.timelock
    /\ stage' = [stage EXCEPT ![id] = "returned"]
    /\ funds' = Credit(funds, id.token, owner[id], id.amount)
    /\ UNCHANGED <<owner, clock>>

Give(token, from, to) ==
    /\ funds[token][from] >= 1
    /\ LET given == [funds EXCEPT ![token][from] = @ - 1]
       IN  funds' = [given EXCEPT ![token][to] = @ + 1]
    /\ UNCHANGED <<stage, owner, clock>>

Advance ==
    /\ clock < LastTime
    /\ clock' = clock + 1
    /\ UNCHANGED <<stage, owner, funds>>

EscrowInit ==
    /\ stage = [id \in Agreements |-> "none"]
    /\ owner = [id \in Agreements |-> NoOne]
    /\ funds \in [Assets -> [Parties -> Nat]]
    /\ clock = 0

EscrowNext ==
    \/ \E id \in Agreements, p \in Parties : Lock(id, p)
    \/ \E id \in Agreements : Release(id) \/ Return(id)
    \/ \E t \in Assets, from \in Parties, to \in Parties : Give(t, from, to)
    \/ Advance

EscrowSpec == EscrowInit /\ [][EscrowNext]_escrowVars
=============================================================================
