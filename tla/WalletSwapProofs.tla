-------------------------- MODULE WalletSwapProofs --------------------------
(***************************************************************************)
(* WalletSwap for any legs, timelocks, margins and third parties.  First   *)
(* the taker's side: the preimage goes out only against a leg that pays    *)
(* (IInv).  Then the maker's: once its leg is taken it is paid in time,    *)
(* and what either wallet reports is what the chains hold (MInv).          *)
(***************************************************************************)
EXTENDS WalletSwap, TLAPS

RedeemSent(p) == exec[p].pc = "sent" /\ exec[p].plan = "RedeemCounterpartyLeg"

\* A step under way, or one that panicked, is of a party that ran, with a plan
\* to send.
StepsAreRuns ==
    \A p \in Parties :
        /\ exec[p].pc # "idle" =>
               p \in honest /\ exec[p].hash /\ exec[p].state \notin Terminal
        /\ exec[p].pc \in {"reread", "reobserve"} =>
               exec[p].plan \in {"LockMyLeg", "RedeemCounterpartyLeg"}
        /\ exec[p].pc = "sent" =>
               exec[p].plan \in {"LockMyLeg", "RedeemCounterpartyLeg", "Refund"}

\* The clock a step read is at most as old as the step.
ClockIsRecent ==
    \A p \in Parties :
        exec[p].pc \in {"observe", "reobserve"} =>
            exec[p].now <= clock /\ clock <= exec[p].now + age[p]

\* Nobody but the taker's wallet shows the preimage first, and a redeem that
\* is under way has a leg.
RedeemsArePublic ==
    /\ \A p \in Parties :
           RedeemSent(p) => secretPublic /\ first[PeerChain(p)] # NoLock
    /\ Taker \in honest /\ ~secretPublic => \A id \in Legs : ~swap[id].withdrawn

\* Once it is shown, the leg is redeemed or the redeem is on its way with
\* time to spare, whatever is left of its step.
RevealPays ==
    Taker \in honest /\ secretPublic =>
        LET id == first["B"]
        IN  /\ id \in Legs /\ Right(Taker, id)
            /\ \/ swap[id] = Redeemed
               \/ /\ swap[id] = Locked
                  /\ RedeemSent(Taker)
                  /\ clock + Lag < id.timelock + age[Taker]

IInv == TypeOK /\ StepsAreRuns /\ ClockIsRecent /\ RedeemsArePublic /\ RevealPays

-----------------------------------------------------------------------------
(* The operators *)

LEMMA AdvanceType ==
    ASSUME NEW state \in SwapStates, NEW event
    PROVE  Advance(state, event) \in SwapStates
  <1>1. \A t \in Transitions : t[3] \in SwapStates
    BY DEF Transitions, SwapStates
  <1>2. CASE \E t \in Transitions : t[1] = state /\ t[2] = event
    <2>1. (CHOOSE t \in Transitions : t[1] = state /\ t[2] = event) \in Transitions
      BY <1>2
    <2> QED BY <1>1, <1>2, <2>1 DEF Advance
  <1>3. CASE ~(\E t \in Transitions : t[1] = state /\ t[2] = event)
    BY <1>3 DEF Advance, SwapStates
  <1> QED BY <1>2, <1>3

\* The taker's wallet redeems only a leg that it has observed and that is safe.
LEMMA TakerRedeemsSafe ==
    ASSUME exec[Taker].state \in SwapStates,
           Decision(Taker) = "RedeemCounterpartyLeg"
    PROVE  /\ ObservedLock(Taker) # NoLock
           /\ Safe(Context(Taker), ObservedLock(Taker))
  <1> DEFINE ctx == Context(Taker)
  <1>1. ctx.role = "Taker" /\ ctx.lock = ObservedLock(Taker)
    BY DEF Context
  <1>2. NextAction(exec[Taker].state, ctx) = "RedeemCounterpartyLeg"
    BY DEF Decision
  <1> HIDE DEF ctx
  <1>3. TakerNext(exec[Taker].state, ctx) = "RedeemCounterpartyLeg"
    BY <1>1, <1>2 DEF NextAction
  <1>4. ctx.lock # NoLock /\ Safe(ctx, ctx.lock)
    BY <1>3 DEF TakerNext
  <1> QED BY <1>1, <1>4 DEF ctx

\* The maker's redeems only what somebody has redeemed on its own chain.
LEMMA MakerRedeemsRevealed ==
    ASSUME exec[Maker].state \in SwapStates,
           Decision(Maker) = "RedeemCounterpartyLeg"
    PROVE  \E id \in Legs : swap[id].withdrawn
  <1> DEFINE ctx == Context(Maker)
  <1>1. ctx.role = "Maker" /\ ctx.revealed = SecretRevealed(Maker)
    BY AgreedTerms DEF Context
  <1>2. NextAction(exec[Maker].state, ctx) = "RedeemCounterpartyLeg"
    BY DEF Decision
  <1> HIDE DEF ctx
  <1>3. MakerNext(exec[Maker].state, ctx) = "RedeemCounterpartyLeg"
    BY <1>1, <1>2 DEF NextAction
  <1>4. ctx.revealed
    BY <1>3 DEF MakerNext
  <1> QED BY <1>1, <1>4 DEF SecretRevealed

LEMMA TwoParties ==
    /\ Taker \in Parties /\ Maker \in Parties /\ Taker # Maker
    /\ \A p \in Parties : p = Taker \/ p = Maker
    /\ PeerChain(Taker) = "B" /\ PeerChain(Maker) = "A"
    /\ OwnLeg(Taker) = TakerLeg /\ OwnLeg(Maker) = MakerLeg
    /\ \A p \in Parties : OwnLeg(p) \in Legs /\ PeerChain(p) \in Chains
    /\ \A p \in Parties : OwnLeg(p).chain \in Chains
  BY AgreedTerms DEF Parties, PeerChain, OwnLeg, Peer, Chains, Legs

-----------------------------------------------------------------------------
(* The chains *)

\* What a block does to the HTLCs when nobody redeems in it, and when
\* somebody may.
QuietStep ==
    \/ UNCHANGED chainVars
    \/ \E c \in Chains : depth' = Deepen(c) /\ UNCHANGED <<swap, first>>
    \/ \E id \in Legs : CanNewSwap(swap[id], id, clock) /\ LockEffect(id)
    \/ \E id \in Legs : /\ CanRefund(swap[id], id, id.sender, clock)
                        /\ EndEffect(id, AfterRefund(swap[id]))

RedeemStep ==
    \E id \in Legs : /\ CanRedeem(swap[id], id, Secret, clock)
                     /\ EndEffect(id, AfterRedeem(swap[id]))

ChainTypeOK ==
    /\ swap \in [Legs -> SwapRecords]
    /\ depth \in [Chains -> 0..MinConf]
    /\ first \in [Chains -> Legs \cup {NoLock}]

LEMMA RecordStages ==
    ASSUME NEW s \in SwapRecords
    PROVE  /\ s.exists /\ ~s.withdrawn /\ ~s.refunded =>
                  s = Locked /\ AfterRedeem(s) = Redeemed /\ AfterRefund(s) = Returned
           /\ ~s.exists => s = NoSwap
           /\ s.withdrawn => s = Redeemed
           /\ s = Redeemed => s.withdrawn
           /\ s = Locked => s.exists /\ ~s.withdrawn /\ ~s.refunded
  <1>2. /\ [Locked EXCEPT !.withdrawn = TRUE] = Redeemed
        /\ [Locked EXCEPT !.refunded = TRUE] = Returned
    BY DEF Redeemed, Returned
  <1>3. /\ ~NoSwap.exists /\ ~NoSwap.withdrawn
        /\ Locked.exists /\ ~Locked.withdrawn /\ ~Locked.refunded
        /\ Redeemed.exists /\ Redeemed.withdrawn
        /\ Returned.exists /\ ~Returned.withdrawn /\ Returned.refunded
    BY DEF NoSwap, Locked, Redeemed, Returned
  <1>4. s = NoSwap \/ s = Locked \/ s = Redeemed \/ s = Returned
    BY DEF SwapRecords
  <1> QED BY <1>2, <1>3, <1>4, Zenon DEF AfterRedeem, AfterRefund

LEMMA StagesDiffer ==
    /\ {NoSwap, Locked, Redeemed, Returned} = SwapRecords
    /\ NoSwap # Locked /\ NoSwap # Redeemed /\ NoSwap # Returned
    /\ Locked # Redeemed /\ Locked # Returned /\ Redeemed # Returned
  BY DEF SwapRecords, NoSwap, Locked, Redeemed, Returned

LEMMA DeepenType ==
    ASSUME ChainTypeOK, NEW c
    PROVE  Deepen(c) \in [Chains -> 0..MinConf]
  <1>1. depth \in [Chains -> 0..MinConf] /\ MinConf \in Nat
    BY WalletConstants DEF ChainTypeOK
  <1>2. CASE c \in Chains
    <2>1. (IF depth[c] < MinConf THEN depth[c] + 1 ELSE depth[c]) \in 0..MinConf
      BY <1>1, <1>2
    <2> QED BY <1>1, <2>1 DEF Deepen
  <1>3. CASE c \notin Chains
    BY <1>1, <1>3 DEF Deepen
  <1> QED BY <1>2, <1>3

LEMMA LockSteps ==
    ASSUME ChainTypeOK, NEW id \in Legs, CanNewSwap(swap[id], id, clock), LockEffect(id)
    PROVE  /\ ChainTypeOK'
           /\ swap[id] = NoSwap /\ swap' = [swap EXCEPT ![id] = Locked]
           /\ \A c \in Chains : first[c] # NoLock => first'[c] = first[c]
  <1>1. swap[id] = NoSwap
    BY RecordStages DEF ChainTypeOK, CanNewSwap
  <1>2. swap' = [swap EXCEPT ![id] = Locked]
    BY DEF LockEffect, AfterNewSwap
  <1>3. swap' \in [Legs -> SwapRecords]
    BY <1>2, StagesDiffer DEF ChainTypeOK
  <1>4. depth' \in [Chains -> 0..MinConf]
    BY DeepenType DEF LockEffect
  <1>5. first' \in [Chains -> Legs \cup {NoLock}]
        /\ \A c \in Chains : first[c] # NoLock => first'[c] = first[c]
    BY DEF LockEffect, ChainTypeOK
  <1> QED BY <1>1, <1>2, <1>3, <1>4, <1>5 DEF ChainTypeOK

LEMMA EndSteps ==
    ASSUME ChainTypeOK, NEW id \in Legs, NEW record \in SwapRecords, EndEffect(id, record)
    PROVE  /\ ChainTypeOK'
           /\ swap' = [swap EXCEPT ![id] = record]
           /\ first' = first
  <1>1. swap' = [swap EXCEPT ![id] = record] /\ first' = first
    BY DEF EndEffect
  <1>2. depth' \in [Chains -> 0..MinConf]
    BY DeepenType DEF EndEffect
  <1> QED BY <1>1, <1>2 DEF ChainTypeOK

\* A redeemed leg stays redeemed, a locked one is not refunded before its
\* timelock, and the first leg of a chain stays the first.
ChainKeeps ==
    /\ ChainTypeOK'
    /\ \A c \in Chains : first[c] # NoLock => first'[c] = first[c]
    /\ \A id \in Legs :
          /\ swap[id] = Redeemed => swap'[id] = Redeemed
          /\ swap[id] = Locked /\ ~(clock >= id.timelock) =>
                 swap'[id] \in {Locked, Redeemed}

LEMMA QuietSteps ==
    ASSUME ChainTypeOK, QuietStep
    PROVE  /\ ChainKeeps
           /\ \A id \in Legs : swap'[id].withdrawn => swap[id].withdrawn
  <1>1. CASE UNCHANGED chainVars
    BY <1>1 DEF chainVars, ChainKeeps, ChainTypeOK
  <1>2. ASSUME NEW c \in Chains, depth' = Deepen(c), UNCHANGED <<swap, first>>
        PROVE  ChainKeeps /\ \A id \in Legs : swap'[id].withdrawn => swap[id].withdrawn
    <2>1. depth' \in [Chains -> 0..MinConf]
      BY <1>2, DeepenType
    <2> QED BY <1>2, <2>1 DEF ChainKeeps, ChainTypeOK
  <1>3. ASSUME NEW id \in Legs, CanNewSwap(swap[id], id, clock), LockEffect(id)
        PROVE  ChainKeeps /\ \A x \in Legs : swap'[x].withdrawn => swap[x].withdrawn
    <2>1. /\ ChainTypeOK' /\ swap[id] = NoSwap /\ swap' = [swap EXCEPT ![id] = Locked]
          /\ \A c \in Chains : first[c] # NoLock => first'[c] = first[c]
      BY <1>3, LockSteps
    <2>2. \A x \in Legs : swap'[x] = IF x = id THEN Locked ELSE swap[x]
      BY <2>1 DEF ChainTypeOK
    <2>3. ~Locked.withdrawn
      BY DEF Locked, NoSwap
    <2> QED BY <2>1, <2>2, <2>3, StagesDiffer DEF ChainKeeps
  <1>4. ASSUME NEW id \in Legs, CanRefund(swap[id], id, id.sender, clock),
               EndEffect(id, AfterRefund(swap[id]))
        PROVE  ChainKeeps /\ \A x \in Legs : swap'[x].withdrawn => swap[x].withdrawn
    <2>1. swap[id] = Locked /\ AfterRefund(swap[id]) = Returned /\ clock >= id.timelock
      BY <1>4, RecordStages DEF ChainTypeOK, CanRefund
    <2>2. ChainTypeOK' /\ swap' = [swap EXCEPT ![id] = Returned] /\ first' = first
      BY <1>4, <2>1, EndSteps, StagesDiffer
    <2>3. \A x \in Legs : swap'[x] = IF x = id THEN Returned ELSE swap[x]
      BY <2>2 DEF ChainTypeOK
    <2>4. ~Returned.withdrawn
      BY DEF Returned, Locked, NoSwap
    <2> QED BY <2>1, <2>2, <2>3, <2>4, StagesDiffer DEF ChainKeeps
  <1> QED BY <1>1, <1>2, <1>3, <1>4 DEF QuietStep

LEMMA RedeemSteps ==
    ASSUME ChainTypeOK, NEW id \in Legs,
           CanRedeem(swap[id], id, Secret, clock), EndEffect(id, AfterRedeem(swap[id]))
    PROVE  ChainKeeps /\ swap'[id] = Redeemed
  <1>1. swap[id] = Locked /\ AfterRedeem(swap[id]) = Redeemed
    BY RecordStages DEF ChainTypeOK, CanRedeem
  <1>2. ChainTypeOK' /\ swap' = [swap EXCEPT ![id] = Redeemed] /\ first' = first
    BY <1>1, EndSteps, StagesDiffer
  <1>3. \A x \in Legs : swap'[x] = IF x = id THEN Redeemed ELSE swap[x]
    BY <1>2 DEF ChainTypeOK
  <1> QED BY <1>2, <1>3 DEF ChainKeeps

-----------------------------------------------------------------------------
(* The steps *)

ExecRecords ==
    [state : SwapStates, hash : BOOLEAN, own : BOOLEAN,
     pc : {"idle", "observe", "reread", "reobserve", "sent", "panicked"},
     now : 0..MaxTime, plan : NextActions]

Pcs == {"idle", "observe", "reread", "reobserve", "sent", "panicked"}

\* The records that the steps write, and their fields.
Observing(r, pc, now) == [r EXCEPT !.pc = pc, !.now = now]
Planned(r, plan)      == [r EXCEPT !.pc = "reread", !.plan = plan]
Sent(r)               == [r EXCEPT !.pc = "sent", !.now = 0]
RefundSent(r)         == [r EXCEPT !.pc = "sent", !.plan = "Refund", !.now = 0]
Stopped(r)            == [Idle(r) EXCEPT !.pc = "panicked"]

SameRun(r, s) ==
    s \in ExecRecords /\ s.hash = r.hash /\ s.state = r.state /\ s.own = r.own

LEMMA RecordsWritten ==
    ASSUME NEW r \in ExecRecords
    PROVE  /\ \A plan \in NextActions :
                 LET s == Planned(r, plan)
                 IN  SameRun(r, s) /\ s.pc = "reread" /\ s.plan = plan
           /\ SameRun(r, Sent(r)) /\ Sent(r).pc = "sent" /\ Sent(r).plan = r.plan
           /\ SameRun(r, RefundSent(r))
           /\ RefundSent(r).pc = "sent" /\ RefundSent(r).plan = "Refund"
           /\ Idle(r) \in ExecRecords /\ Idle(r).pc = "idle" /\ SameRun(r, Idle(r))
           /\ SameRun(r, Stopped(r)) /\ Stopped(r).pc = "panicked"
  <1>1. 0 \in 0..MaxTime /\ "Done" \in NextActions /\ "Refund" \in NextActions
    BY WalletConstants DEF NextActions
  <1>3. ASSUME NEW plan \in NextActions
        PROVE  LET s == Planned(r, plan)
               IN  SameRun(r, s) /\ s.pc = "reread" /\ s.plan = plan
    BY DEF Planned, SameRun, ExecRecords
  <1>4. SameRun(r, Sent(r)) /\ Sent(r).pc = "sent" /\ Sent(r).plan = r.plan
    BY <1>1 DEF Sent, SameRun, ExecRecords
  <1>5. /\ SameRun(r, RefundSent(r))
        /\ RefundSent(r).pc = "sent" /\ RefundSent(r).plan = "Refund"
    BY <1>1 DEF RefundSent, SameRun, ExecRecords
  <1>6. Idle(r) \in ExecRecords /\ Idle(r).pc = "idle" /\ SameRun(r, Idle(r))
    BY <1>1 DEF Idle, SameRun, ExecRecords
  <1>7. SameRun(r, Stopped(r)) /\ Stopped(r).pc = "panicked"
    BY <1>6 DEF Stopped, SameRun, ExecRecords
  <1> QED BY <1>3, <1>4, <1>5, <1>6, <1>7

LEMMA RecordsObserving ==
    ASSUME NEW r \in ExecRecords, NEW pc \in Pcs, NEW now \in 0..MaxTime
    PROVE  /\ SameRun(r, Observing(r, pc, now)) /\ Observing(r, pc, now).pc = pc
           /\ Observing(r, pc, now).now = now /\ Observing(r, pc, now).plan = r.plan
  BY DEF Observing, SameRun, ExecRecords, Pcs

\* Steps of the counterparty, of third parties and of the chains: only a
\* preimage that is public already is used while the taker is honest.
LEMMA OutsideKeepsIInv ==
    ASSUME IInv, UNCHANGED <<honest, clock, exec, age>>, secretPublic' \in BOOLEAN,
           secretPublic => secretPublic',
           Taker \in honest => secretPublic' = secretPublic,
           QuietStep \/ (RedeemStep /\ (Taker \in honest => secretPublic))
    PROVE  IInv'
  <1>1. ChainTypeOK
    BY DEF IInv, TypeOK, ChainTypeOK
  <1>2. ChainKeeps
    BY <1>1, QuietSteps, RedeemSteps DEF RedeemStep
  <1>3. TypeOK'
    BY <1>2 DEF IInv, TypeOK, ChainKeeps, ChainTypeOK
  <1>4. StepsAreRuns' /\ ClockIsRecent'
    BY DEF IInv, StepsAreRuns, ClockIsRecent, Running
  <1>5. RedeemsArePublic'
    <2>1. \A p \in Parties :
              RedeemSent(p)' => secretPublic' /\ first'[PeerChain(p)] # NoLock
      BY <1>2, TwoParties DEF IInv, RedeemsArePublic, RedeemSent, ChainKeeps
    <2>2. ASSUME Taker \in honest', ~secretPublic', NEW id \in Legs
          PROVE  ~swap'[id].withdrawn
      <3>1. QuietStep /\ ~swap[id].withdrawn
        BY <2>2 DEF IInv, RedeemsArePublic
      <3> QED BY <1>1, <3>1, QuietSteps
    <2> QED BY <2>1, <2>2 DEF RedeemsArePublic
  <1>6. RevealPays'
    <2> SUFFICES ASSUME Taker \in honest, secretPublic PROVE RevealPays'
      BY DEF RevealPays
    <2> DEFINE id == first["B"]
    <2>1. /\ id \in Legs /\ Right(Taker, id) /\ id # NoLock
          /\ \/ swap[id] = Redeemed
             \/ /\ swap[id] = Locked /\ RedeemSent(Taker)
                /\ clock + Lag < id.timelock + age[Taker]
      BY AgreedTerms DEF IInv, RevealPays
    <2>2. first'["B"] = id
      BY <1>2, <2>1 DEF ChainKeeps, Chains
    <2>3. age[Taker] <= Lag /\ age[Taker] \in Nat /\ Lag \in Nat /\ clock \in Nat
      BY TwoParties, Responsive DEF IInv, TypeOK
    <2>4. id.timelock \in Nat
      BY <2>1, AgreedTerms
    <2> HIDE DEF id
    <2>5. swap[id] # Redeemed => ~(clock >= id.timelock)
      BY <2>1, <2>3, <2>4
    <2>6. \/ swap'[id] = Redeemed
          \/ swap'[id] = Locked /\ RedeemSent(Taker)
             /\ clock + Lag < id.timelock + age[Taker]
      BY <1>2, <2>1, <2>5 DEF ChainKeeps
    <2> QED BY <2>1, <2>2, <2>6 DEF RevealPays, RedeemSent, Right
  <1> QED BY <1>3, <1>4, <1>5, <1>6 DEF IInv

LEMMA TickKeepsIInv ==
    ASSUME IInv, Tick
    PROVE  IInv'
  <1>1. /\ clock \in Nat /\ clock < MaxTime /\ clock' = clock + 1 /\ MaxTime \in Nat
        /\ Lag \in Nat
        /\ UNCHANGED <<honest, swap, depth, first, secretPublic, exec>>
        /\ \A p \in Parties : age[p] \in Nat /\ age[p] <= Lag
    BY WalletConstants, Responsive DEF IInv, TypeOK, Tick, chainVars
  <1>2. \A p \in Parties : age'[p] = IF Running(p) THEN age[p] + 1 ELSE age[p]
    BY DEF Tick
  <1>3. \A p \in Parties : Running(p) => age[p] < Lag
    BY DEF Tick, Running
  <1>4. TypeOK'
    <2>1. age' \in [Parties -> 0..Lag]
      <3>1. age' = [p \in Parties |-> age'[p]]
        BY DEF Tick
      <3>2. \A p \in Parties : age'[p] \in 0..Lag
        BY <1>1, <1>2, <1>3
      <3> QED BY <3>1, <3>2
    <2>2. clock' \in 0..MaxTime
      BY <1>1
    <2> QED BY <1>1, <2>1, <2>2 DEF IInv, TypeOK
  <1>5. StepsAreRuns'
    BY <1>1 DEF IInv, StepsAreRuns, Running
  <1>6. ClockIsRecent'
    <2> SUFFICES ASSUME NEW p \in Parties, exec[p].pc \in {"observe", "reobserve"}
                 PROVE  exec[p].now <= clock' /\ clock' <= exec[p].now + age'[p]
      BY <1>1 DEF ClockIsRecent
    <2>1. Running(p)
      BY DEF IInv, StepsAreRuns, Running, Panicked
    <2>2. exec[p].now <= clock /\ clock <= exec[p].now + age[p] /\ exec[p].now \in Nat
      BY DEF IInv, ClockIsRecent, TypeOK
    <2> QED BY <1>1, <1>2, <2>1, <2>2
  <1>7. RedeemsArePublic'
    BY <1>1 DEF IInv, RedeemsArePublic, RedeemSent
  <1>8. RevealPays'
    <2> SUFFICES ASSUME Taker \in honest, secretPublic PROVE RevealPays'
      BY <1>1 DEF RevealPays
    <2>1. RedeemSent(Taker) => Running(Taker)
      BY TwoParties DEF IInv, StepsAreRuns, RedeemSent, Running, Panicked
    <2>2. ASSUME clock + Lag < first["B"].timelock + age[Taker], RedeemSent(Taker),
                 first["B"] \in Legs
          PROVE  clock' + Lag < first["B"].timelock + age'[Taker]
      <3>1. first["B"].timelock \in Nat
        BY <2>2, AgreedTerms
      <3> QED BY <1>1, <1>2, <2>1, <2>2, <3>1, TwoParties
    <2> QED BY <1>1, <2>2 DEF IInv, RevealPays, RedeemSent, Right
  <1> QED BY <1>4, <1>5, <1>6, <1>7, <1>8 DEF IInv

\* A party's record that fits the invariant, whatever its step has done.
Consistent(p, e, a) ==
    /\ e \in ExecRecords /\ a \in 0..Lag
    /\ e.pc # "idle" => p \in honest /\ e.hash /\ e.state \notin Terminal
    /\ e.pc \in {"reread", "reobserve"} =>
           e.plan \in {"LockMyLeg", "RedeemCounterpartyLeg"}
    /\ e.pc = "sent" => e.plan \in {"LockMyLeg", "RedeemCounterpartyLeg", "Refund"}
    /\ e.pc \in {"observe", "reobserve"} => e.now <= clock /\ clock <= e.now + a

LEMMA ExecIsConsistent ==
    ASSUME IInv, NEW p \in Parties
    PROVE  Consistent(p, exec[p], age[p])
  BY DEF IInv, TypeOK, StepsAreRuns, Running, ClockIsRecent, Consistent, ExecRecords

\* A step changes one party's record and perhaps its age.
LEMMA OneChanges ==
    ASSUME IInv, NEW p \in Parties, NEW e, NEW a, Consistent(p, e, a),
           exec' = [exec EXCEPT ![p] = e], age' = [age EXCEPT ![p] = a],
           UNCHANGED <<honest, clock>>
    PROVE  /\ exec' \in [Parties -> ExecRecords] /\ age' \in [Parties -> 0..Lag]
           /\ StepsAreRuns' /\ ClockIsRecent'
           /\ exec'[p] = e /\ \A q \in Parties \ {p} : exec'[q] = exec[q] /\ age'[q] = age[q]
  <1>1. exec \in [Parties -> ExecRecords] /\ age \in [Parties -> 0..Lag]
    BY DEF IInv, TypeOK, ExecRecords
  <1>2. /\ exec'[p] = e /\ age'[p] = a
        /\ \A q \in Parties \ {p} : exec'[q] = exec[q] /\ age'[q] = age[q]
        /\ exec' \in [Parties -> ExecRecords] /\ age' \in [Parties -> 0..Lag]
    BY <1>1 DEF Consistent
  <1>3. \A q \in Parties : Consistent(q, exec'[q], age'[q])
    BY <1>2, ExecIsConsistent
  <1>4. StepsAreRuns'
    BY <1>3 DEF StepsAreRuns, Running, Consistent
  <1>5. ClockIsRecent'
    BY <1>3 DEF ClockIsRecent, Consistent
  <1> QED BY <1>2, <1>4, <1>5

\* Steps that leave the chains alone and show nothing new.
LEMMA ExecKeepsIInv ==
    ASSUME IInv, NEW p \in Parties, NEW e, NEW a, Consistent(p, e, a),
           exec' = [exec EXCEPT ![p] = e], age' = [age EXCEPT ![p] = a],
           UNCHANGED <<honest, swap, depth, first, clock, secretPublic>>,
           exec[p].pc # "sent",
           e.pc = "sent" /\ e.plan = "RedeemCounterpartyLeg" =>
               secretPublic /\ first[PeerChain(p)] # NoLock
    PROVE  IInv'
  <1>1. /\ exec' \in [Parties -> ExecRecords] /\ age' \in [Parties -> 0..Lag]
        /\ StepsAreRuns' /\ ClockIsRecent'
        /\ exec'[p] = e /\ \A q \in Parties \ {p} : exec'[q] = exec[q] /\ age'[q] = age[q]
    BY OneChanges
  <1>2. TypeOK'
    BY <1>1 DEF IInv, TypeOK, ExecRecords
  <1>3. RedeemsArePublic'
    BY <1>1 DEF IInv, RedeemsArePublic, RedeemSent
  <1>4. RevealPays'
    <2>1. RedeemSent(Taker) => Taker # p /\ RedeemSent(Taker)' /\ age'[Taker] = age[Taker]
      BY <1>1, TwoParties DEF RedeemSent
    <2> QED BY <2>1 DEF IInv, RevealPays, Right
  <1> QED BY <1>1, <1>2, <1>3, <1>4 DEF IInv

\* The one step that shows the preimage: the leg was observed active and safe
\* less than a step ago, and the simulation found it redeemable now.
LEMMA RevealKeepsIInv ==
    ASSUME IInv, Send(Taker), exec[Taker].plan = "RedeemCounterpartyLeg"
    PROVE  /\ IInv'
           /\ first["B"] \in Legs /\ clock + MinGap - Lag <= first["B"].timelock
  <1> DEFINE id == first["B"]
  <1> DEFINE e == Sent(exec[Taker])
  <1>1. /\ exec[Taker].pc = "reobserve" /\ Decision(Taker) = "RedeemCounterpartyLeg"
        /\ SimulationOk(Taker)
        /\ secretPublic'
        /\ UNCHANGED <<honest, swap, depth, first, clock, age>>
    BY DEF Send, Observed, chainVars
  <1>2. /\ exec[Taker] \in ExecRecords /\ exec \in [Parties -> ExecRecords]
        /\ age[Taker] \in 0..Lag /\ age \in [Parties -> 0..Lag]
        /\ clock \in Nat /\ exec[Taker].now \in 0..MaxTime
        /\ exec[Taker].state \in SwapStates
    BY TwoParties DEF IInv, TypeOK, ExecRecords
  <1>3. ObservedLock(Taker) # NoLock /\ Safe(Context(Taker), ObservedLock(Taker))
    BY <1>1, <1>2, TakerRedeemsSafe
  <1>4. ObservedLock(Taker) = id /\ id # NoLock
    BY <1>3, TwoParties DEF ObservedLock
  <1>5. id \in Legs
    BY <1>4 DEF IInv, TypeOK, Chains
  <1>6. Right(Taker, id) /\ SatAdd(exec[Taker].now, MinGap) <= id.timelock
    BY <1>3, <1>4, TwoParties DEF Safe, Context, Right, TimelockGapOk, Peer, OwnLeg
  <1>7. swap[id] = Locked
    BY <1>1, <1>5, TwoParties, RecordStages DEF SimulationOk, CanRedeem, IInv, TypeOK
  <1>8. id.timelock \in Nat
    BY <1>5, AgreedTerms
  <1> HIDE DEF id
  <1>9. exec[Taker].now + MinGap <= id.timelock
    BY <1>2, <1>6, <1>8, WalletConstants, MaxU64Assumption DEF SatAdd
  <1>10. clock <= exec[Taker].now + age[Taker]
    BY <1>1, TwoParties DEF IInv, ClockIsRecent
  <1>11. /\ clock + MinGap - Lag <= id.timelock
         /\ clock + Lag < id.timelock + age[Taker]
    BY <1>2, <1>8, <1>9, <1>10, WalletConstants, Responsive
  <1>12. exec' = [exec EXCEPT ![Taker] = e]
    BY <1>1, <1>2, TwoParties DEF Send, Sent
  <1>13. e \in ExecRecords /\ e.pc = "sent" /\ e.plan = "RedeemCounterpartyLeg"
         /\ e.hash = exec[Taker].hash /\ e.state = exec[Taker].state
    BY <1>2, RecordsWritten DEF SameRun
  <1> HIDE DEF e
  <1>14. Consistent(Taker, e, age[Taker])
    BY <1>1, <1>2, <1>13, ExecIsConsistent, TwoParties DEF Consistent
  <1>15. age' = [age EXCEPT ![Taker] = age[Taker]]
    BY <1>1, <1>2
  <1>16. /\ exec' \in [Parties -> ExecRecords] /\ age' \in [Parties -> 0..Lag]
         /\ StepsAreRuns' /\ ClockIsRecent' /\ exec'[Taker] = e
    BY <1>1, <1>12, <1>14, <1>15, OneChanges, TwoParties
  <1>17. TypeOK'
    BY <1>1, <1>16 DEF IInv, TypeOK, ExecRecords, Send
  <1>18. RedeemsArePublic'
    <2>1. \A p \in Parties \ {Taker} : exec'[p] = exec[p]
      BY <1>1, <1>12, <1>14, <1>15, OneChanges, TwoParties
    <2>2. \A p \in Parties : RedeemSent(p)' => first[PeerChain(p)] # NoLock
      BY <1>4, <2>1, TwoParties DEF IInv, RedeemsArePublic, RedeemSent, id
    <2> QED BY <1>1, <2>2 DEF RedeemsArePublic
  <1>19. RevealPays'
    BY <1>1, <1>5, <1>6, <1>7, <1>11, <1>13, <1>16 DEF RevealPays, RedeemSent, Right, id
  <1> QED BY <1>5, <1>11, <1>16, <1>17, <1>18, <1>19 DEF IInv, id

-----------------------------------------------------------------------------
(* One lemma per step of a wallet *)

\* A step that goes back to idle without a transaction under way.
LEMMA IdleKeepsIInv ==
    ASSUME IInv, NEW p \in Parties, NEW r \in ExecRecords, exec[p].pc # "sent",
           exec' = [exec EXCEPT ![p] = Idle(r)], OnlyExec
    PROVE  IInv'
  <1>1. age' = [age EXCEPT ![p] = age[p]] /\ age[p] \in 0..Lag
    BY DEF OnlyExec, IInv, TypeOK
  <1>2. Consistent(p, Idle(r), age[p])
    BY <1>1, RecordsWritten DEF Consistent
  <1>3. Idle(r).pc # "sent"
    BY RecordsWritten
  <1> QED BY <1>1, <1>2, <1>3, ExecKeepsIInv DEF OnlyExec, chainVars

LEMMA ReadClockKeepsIInv ==
    ASSUME IInv, NEW p \in Parties, ReadClock(p)
    PROVE  IInv'
  <1>1. /\ exec[p] \in ExecRecords /\ exec \in [Parties -> ExecRecords]
        /\ age[p] \in 0..Lag /\ age \in [Parties -> 0..Lag]
        /\ clock \in 0..MaxTime /\ clock \in Nat /\ 0 \in 0..Lag /\ Lag \in Nat
    BY WalletConstants, Responsive DEF IInv, TypeOK, ExecRecords
  <1>2. p \in honest /\ exec[p].hash
        /\ UNCHANGED <<honest, swap, depth, first, clock, secretPublic>>
    BY DEF ReadClock, chainVars
  <1>3. CASE exec[p].pc = "idle"
    <2> DEFINE e == Observing(exec[p], "observe", clock)
    <2>1. exec' = [exec EXCEPT ![p] = e] /\ age' = [age EXCEPT ![p] = 0]
          /\ exec[p].state \notin Terminal
      BY <1>1, <1>3 DEF ReadClock, Observing
    <2>2. SameRun(exec[p], e) /\ e.pc = "observe" /\ e.now = clock
      <3>1. "observe" \in Pcs
        BY DEF Pcs
      <3> QED BY <1>1, <3>1, RecordsObserving
    <2> HIDE DEF e
    <2>3. Consistent(p, e, 0)
      BY <1>1, <1>2, <2>1, <2>2 DEF Consistent, SameRun
    <2> QED BY <1>2, <1>3, <2>1, <2>2, <2>3, ExecKeepsIInv
  <1>4. CASE exec[p].pc = "reread"
    <2> DEFINE e == Observing(exec[p], "reobserve", clock)
    <2>1. exec' = [exec EXCEPT ![p] = e] /\ age' = [age EXCEPT ![p] = age[p]]
      BY <1>1, <1>4 DEF ReadClock, Observing
    <2>2. SameRun(exec[p], e) /\ e.pc = "reobserve" /\ e.now = clock /\ e.plan = exec[p].plan
      <3>1. "reobserve" \in Pcs
        BY DEF Pcs
      <3> QED BY <1>1, <3>1, RecordsObserving
    <2>3. Consistent(p, exec[p], age[p])
      BY ExecIsConsistent
    <2> HIDE DEF e
    <2>4. Consistent(p, e, age[p])
      BY <1>1, <1>2, <1>4, <2>1, <2>2, <2>3 DEF Consistent, SameRun
    <2> QED BY <1>2, <1>4, <2>1, <2>2, <2>4, ExecKeepsIInv
  <1> QED BY <1>3, <1>4 DEF ReadClock

\* The steps that end without a transaction: GenerateSecret, Wait, AbortSwap
\* and GiveUpStep.
LEMMA QuietEnds ==
    ASSUME IInv, NEW p \in Parties,
           GenerateSecret(p) \/ Wait(p) \/ AbortSwap(p) \/ GiveUpStep(p)
    PROVE  /\ exec[p].pc # "sent" /\ OnlyExec
           /\ \E r \in ExecRecords : exec' = [exec EXCEPT ![p] = Idle(r)]
  <1>1. exec[p] \in ExecRecords
    BY DEF IInv, TypeOK, ExecRecords
  <1>2. CASE GenerateSecret(p)
    <2> DEFINE r == [exec[p] EXCEPT !.state = Advance(exec[p].state, "SecretGenerated"),
                                    !.hash = TRUE]
    <2>1. Advance(exec[p].state, "SecretGenerated") \in SwapStates
      BY <1>1, AdvanceType DEF ExecRecords
    <2>2. r \in ExecRecords
      BY <1>1, <2>1 DEF ExecRecords
    <2>3. exec' = [exec EXCEPT ![p] = Idle(r)] /\ exec[p].pc # "sent" /\ OnlyExec
      BY <1>2 DEF GenerateSecret, Observed
    <2> QED BY <2>2, <2>3
  <1>3. CASE Wait(p) \/ GiveUpStep(p)
    <2>1. exec' = [exec EXCEPT ![p] = Idle(exec[p])] /\ exec[p].pc # "sent" /\ OnlyExec
      BY <1>3 DEF Wait, GiveUpStep, Observed
    <2> QED BY <1>1, <2>1
  <1>4. CASE AbortSwap(p)
    <2> DEFINE r == [exec[p] EXCEPT !.state = "Aborted"]
    <2>1. "Aborted" \in SwapStates
      BY DEF SwapStates
    <2>2. r \in ExecRecords
      BY <1>1, <2>1 DEF ExecRecords
    <2>3. exec' = [exec EXCEPT ![p] = Idle(r)] /\ exec[p].pc # "sent" /\ OnlyExec
      BY <1>4 DEF AbortSwap, Observed
    <2> QED BY <2>2, <2>3
  <1> QED BY <1>2, <1>3, <1>4

LEMMA PanicKeepsIInv ==
    ASSUME IInv, NEW p \in Parties, Panic(p)
    PROVE  IInv'
  <1> DEFINE e == Stopped(exec[p])
  <1>1. /\ exec[p] \in ExecRecords /\ exec \in [Parties -> ExecRecords]
        /\ age' = [age EXCEPT ![p] = age[p]] /\ age[p] \in 0..Lag
        /\ exec[p].pc # "idle" /\ exec[p].pc # "sent"
        /\ UNCHANGED <<honest, swap, depth, first, clock, secretPublic>>
    BY DEF IInv, TypeOK, ExecRecords, Panic, OnlyExec, chainVars
  <1>2. exec' = [exec EXCEPT ![p] = e]
    BY <1>1 DEF Panic, Stopped
  <1>3. SameRun(exec[p], e) /\ e.pc = "panicked"
    BY <1>1, RecordsWritten
  <1>4. Consistent(p, exec[p], age[p])
    BY ExecIsConsistent
  <1> HIDE DEF e
  <1>5. Consistent(p, e, age[p])
    BY <1>1, <1>3, <1>4 DEF Consistent, SameRun
  <1> QED BY <1>1, <1>2, <1>3, <1>5, ExecKeepsIInv

LEMMA PlanKeepsIInv ==
    ASSUME IInv, NEW p \in Parties, Plan(p) \/ SendRefund(p)
    PROVE  IInv'
  <1>1. /\ exec[p] \in ExecRecords /\ exec \in [Parties -> ExecRecords]
        /\ age' = [age EXCEPT ![p] = age[p]] /\ age[p] \in 0..Lag
        /\ exec[p].pc = "observe"
        /\ UNCHANGED <<honest, swap, depth, first, clock, secretPublic>>
    BY DEF IInv, TypeOK, ExecRecords, Plan, SendRefund, Observed, OnlyExec, chainVars
  <1>2. Consistent(p, exec[p], age[p])
    BY ExecIsConsistent
  <1>3. CASE Plan(p)
    <2> DEFINE e == Planned(exec[p], Decision(p))
    <2>1. /\ Decision(p) \in {"LockMyLeg", "RedeemCounterpartyLeg"}
          /\ Decision(p) \in NextActions
      BY <1>3 DEF Plan, NextActions
    <2>2. exec' = [exec EXCEPT ![p] = e]
      BY <1>1, <1>3 DEF Plan, Planned
    <2>3. SameRun(exec[p], e) /\ e.pc = "reread" /\ e.plan = Decision(p)
      BY <1>1, <2>1, RecordsWritten
    <2> HIDE DEF e
    <2>4. Consistent(p, e, age[p])
      BY <1>1, <1>2, <2>1, <2>3 DEF Consistent, SameRun
    <2> QED BY <1>1, <2>2, <2>3, <2>4, ExecKeepsIInv
  <1>4. CASE SendRefund(p)
    <2> DEFINE e == RefundSent(exec[p])
    <2>1. exec' = [exec EXCEPT ![p] = e]
      BY <1>1, <1>4 DEF SendRefund, RefundSent
    <2>2. SameRun(exec[p], e) /\ e.pc = "sent" /\ e.plan = "Refund"
      BY <1>1, RecordsWritten
    <2> HIDE DEF e
    <2>3. Consistent(p, e, age[p])
      BY <1>1, <1>2, <2>2 DEF Consistent, SameRun
    <2> QED BY <1>1, <2>1, <2>2, <2>3, ExecKeepsIInv
  <1> QED BY <1>3, <1>4

\* Sends that show nothing new: a lock, or a redeem by the maker's wallet,
\* which has seen a LogRedeem.
LEMMA SendKeepsIInv ==
    ASSUME IInv, NEW p \in Parties, Send(p),
           ~(p = Taker /\ exec[p].plan = "RedeemCounterpartyLeg")
    PROVE  IInv' /\ (Taker \in honest => secretPublic' = secretPublic)
  <1> DEFINE e == Sent(exec[p])
  <1>1. /\ exec[p].pc = "reobserve" /\ Decision(p) = exec[p].plan
        /\ secretPublic' = (secretPublic \/ exec[p].plan = "RedeemCounterpartyLeg")
        /\ UNCHANGED <<honest, swap, depth, first, clock, age>>
    BY DEF Send, Observed, chainVars
  <1>2. /\ exec[p] \in ExecRecords /\ exec \in [Parties -> ExecRecords]
        /\ exec[p].state \in SwapStates
        /\ age' = [age EXCEPT ![p] = age[p]] /\ secretPublic \in BOOLEAN
    BY <1>1 DEF IInv, TypeOK, ExecRecords
  <1>3. exec' = [exec EXCEPT ![p] = e]
    BY <1>2 DEF Send, Sent
  <1>4. SameRun(exec[p], e) /\ e.pc = "sent" /\ e.plan = exec[p].plan
    BY <1>2, RecordsWritten
  <1>5. Consistent(p, exec[p], age[p])
    BY ExecIsConsistent
  <1> HIDE DEF e
  <1>6. Consistent(p, e, age[p])
    BY <1>1, <1>4, <1>5 DEF Consistent, SameRun
  <1>7. ASSUME exec[p].plan = "RedeemCounterpartyLeg", Taker \in honest
        PROVE  secretPublic
    <2>1. p = Maker
      BY <1>7, TwoParties
    <2>2. \E id \in Legs : swap[id].withdrawn
      BY <1>1, <1>2, <1>7, <2>1, MakerRedeemsRevealed
    <2> QED BY <1>7, <2>2 DEF IInv, RedeemsArePublic
  <1>8. exec[p].plan = "RedeemCounterpartyLeg" => first[PeerChain(p)] # NoLock
    BY DEF Send, SimulationOk
  <1>9. CASE secretPublic \/ exec[p].plan # "RedeemCounterpartyLeg"
    <2>1. secretPublic' = secretPublic
      BY <1>1, <1>2, <1>9
    <2>2. e.pc = "sent" /\ e.plan = "RedeemCounterpartyLeg" =>
              secretPublic /\ first[PeerChain(p)] # NoLock
      BY <1>4, <1>9, <1>8
    <2>3. UNCHANGED <<honest, swap, depth, first, clock, secretPublic>> /\ exec[p].pc # "sent"
      BY <1>1, <2>1
    <2> QED BY <1>2, <1>3, <1>6, <2>1, <2>2, <2>3, ExecKeepsIInv
  <1>10. CASE ~secretPublic /\ exec[p].plan = "RedeemCounterpartyLeg"
    <2>1. Taker \notin honest /\ secretPublic'
      BY <1>1, <1>7, <1>10
    <2>2. /\ exec' \in [Parties -> ExecRecords] /\ age' \in [Parties -> 0..Lag]
          /\ StepsAreRuns' /\ ClockIsRecent'
      BY <1>1, <1>2, <1>3, <1>6, OneChanges
    <2>3. TypeOK'
      BY <1>1, <1>2, <2>1, <2>2 DEF IInv, TypeOK, ExecRecords
    <2>4. RedeemsArePublic' /\ RevealPays'
      <3>1. exec'[p] = e /\ \A q \in Parties \ {p} : exec'[q] = exec[q]
        BY <1>1, <1>2, <1>3, <1>6, OneChanges
      <3>2. \A q \in Parties : RedeemSent(q)' => first[PeerChain(q)] # NoLock
        BY <1>4, <1>8, <3>1 DEF IInv, RedeemsArePublic, RedeemSent
      <3> QED BY <1>1, <2>1, <3>2 DEF RedeemsArePublic, RevealPays
    <2> QED BY <1>1, <2>1, <2>2, <2>3, <2>4 DEF IInv
  <1> QED BY <1>2, <1>9, <1>10

\* The receipt writes a record of the right type, whatever the plan was.
LEMMA ReceiptType ==
    ASSUME NEW r \in ExecRecords,
           r.plan \in {"LockMyLeg", "RedeemCounterpartyLeg", "Refund"}
    PROVE  AfterReceipt(r) \in ExecRecords
  <1>1. \A s \in SwapStates : [r EXCEPT !.state = s] \in ExecRecords
    BY DEF ExecRecords
  <1>2. r.state \in SwapStates /\ "Refunding" \in SwapStates
    BY DEF ExecRecords, SwapStates
  <1>3. CASE r.plan = "LockMyLeg"
    <2>1. Advance(r.state, "MyLegConfirmed") \in SwapStates
      BY <1>2, AdvanceType
    <2>2. AfterReceipt(r) =
              [r EXCEPT !.own = TRUE, !.state = Advance(r.state, "MyLegConfirmed")]
      BY <1>3, Zenon DEF AfterReceipt
    <2> HIDE DEF AfterReceipt
    <2> QED BY <2>1, <2>2 DEF ExecRecords
  <1>4. CASE r.plan = "RedeemCounterpartyLeg"
    <2> DEFINE learned == IF r.state = "WaitingForSecret"
                          THEN Advance(r.state, "SecretObserved") ELSE r.state
    <2>1. learned \in SwapStates
      BY <1>2, AdvanceType
    <2>2. AfterReceipt(r) = [r EXCEPT !.state = Advance(learned, "RedeemConfirmed")]
      BY <1>4, Zenon DEF AfterReceipt
    <2> HIDE DEF learned
    <2>3. Advance(learned, "RedeemConfirmed") \in SwapStates
      BY <2>1, AdvanceType
    <2> QED BY <1>1, <2>2, <2>3
  <1>5. CASE r.plan = "Refund"
    <2>1. Advance("Refunding", "RefundConfirmed") \in SwapStates
      BY <1>2, AdvanceType
    <2>2. AfterReceipt(r) = [r EXCEPT !.state = Advance("Refunding", "RefundConfirmed")]
      BY <1>5, Zenon DEF AfterReceipt
    <2> QED BY <1>1, <2>1, <2>2
  <1> QED BY <1>3, <1>4, <1>5

\* What the inclusion of a transaction does to the chains, plan by plan.
LEMMA InclusionSteps ==
    ASSUME IInv, NEW p \in Parties, exec[p].pc = "sent", Included(p)
    PROVE  /\ QuietStep \/ (RedeemStep /\ RedeemSent(p))
           /\ LET id == first[PeerChain(p)]
              IN  RedeemSent(p) /\ CanRedeem(swap[id], id, Secret, clock) =>
                      EndEffect(id, AfterRedeem(swap[id]))
  <1> DEFINE own == OwnLeg(p)
  <1> DEFINE id == first[PeerChain(p)]
  <1>1. own \in Legs
    BY TwoParties
  <1>2. exec[p].plan \in {"LockMyLeg", "RedeemCounterpartyLeg", "Refund"}
    BY DEF IInv, StepsAreRuns
  <1>3. CASE exec[p].plan = "LockMyLeg"
    <2>1. IF CanNewSwap(swap[own], own, clock) THEN LockEffect(own) ELSE UNCHANGED chainVars
      BY <1>3, Zenon DEF Included
    <2>2. QuietStep
      BY <1>1, <2>1, Zenon DEF QuietStep
    <2> QED BY <1>3, <2>2 DEF RedeemSent
  <1>4. CASE exec[p].plan = "RedeemCounterpartyLeg"
    <2>1. IF CanRedeem(swap[id], id, Secret, clock)
          THEN EndEffect(id, AfterRedeem(swap[id])) ELSE UNCHANGED chainVars
      BY <1>4, Zenon DEF Included
    <2>2. CASE ~CanRedeem(swap[id], id, Secret, clock)
      BY <2>1, <2>2, Zenon DEF QuietStep
    <2>3. CASE CanRedeem(swap[id], id, Secret, clock)
      <3>1. first[PeerChain(p)] # NoLock
        BY <1>4 DEF IInv, RedeemsArePublic, RedeemSent
      <3>2. id \in Legs
        BY <3>1, TwoParties DEF IInv, TypeOK
      <3>3. RedeemStep
        BY <2>1, <2>3, <3>2, Zenon DEF RedeemStep
      <3> QED BY <1>4, <2>1, <2>3, <3>3 DEF RedeemSent
    <2> QED BY <2>2, <2>3
  <1>5. CASE exec[p].plan = "Refund"
    <2>1. IF CanRefund(swap[own], own, own.sender, clock)
          THEN EndEffect(own, AfterRefund(swap[own])) ELSE UNCHANGED chainVars
      BY <1>5, Zenon DEF Included
    <2>2. QuietStep
      BY <1>1, <2>1, Zenon DEF QuietStep
    <2> QED BY <1>5, <2>2 DEF RedeemSent
  <1> QED BY <1>2, <1>3, <1>4, <1>5

LEMMA MineEnds ==
    ASSUME IInv, NEW p \in Parties, Mine(p) \/ LoseReceipt(p)
    PROVE  /\ exec[p].pc = "sent" /\ Included(p)
           /\ UNCHANGED <<honest, clock, secretPublic, age>>
           /\ \E r \in ExecRecords : exec' = [exec EXCEPT ![p] = Idle(r)]
  <1>1. /\ exec[p].pc = "sent" /\ Included(p)
        /\ UNCHANGED <<honest, clock, secretPublic, age>>
    BY DEF Mine, LoseReceipt
  <1>2. exec[p] \in ExecRecords
    BY DEF IInv, TypeOK, ExecRecords
  <1>3. AfterReceipt(exec[p]) \in ExecRecords
    BY <1>1, <1>2, ReceiptType DEF IInv, StepsAreRuns
  <1>4. \/ exec' = [exec EXCEPT ![p] = Idle(AfterReceipt(exec[p]))]
        \/ exec' = [exec EXCEPT ![p] = Idle(exec[p])]
    BY DEF Mine, LoseReceipt
  <1> QED BY <1>1, <1>2, <1>3, <1>4

LEMMA MineKeepsIInv ==
    ASSUME IInv, NEW p \in Parties, NEW r \in ExecRecords,
           exec[p].pc = "sent", Included(p), exec' = [exec EXCEPT ![p] = Idle(r)],
           UNCHANGED <<honest, clock, secretPublic, age>>
    PROVE  IInv'
  <1>1. ChainTypeOK
    BY DEF IInv, TypeOK, ChainTypeOK
  <1>2. QuietStep \/ (RedeemStep /\ secretPublic)
    BY InclusionSteps DEF IInv, RedeemsArePublic
  <1>3. ChainKeeps
    BY <1>1, <1>2, QuietSteps, RedeemSteps DEF RedeemStep
  <1>4. age' = [age EXCEPT ![p] = age[p]] /\ age[p] \in 0..Lag
    BY DEF IInv, TypeOK
  <1>5. Consistent(p, Idle(r), age[p])
    BY <1>4, RecordsWritten DEF Consistent
  <1>6. /\ exec' \in [Parties -> ExecRecords] /\ age' \in [Parties -> 0..Lag]
        /\ StepsAreRuns' /\ ClockIsRecent'
        /\ exec'[p] = Idle(r) /\ \A q \in Parties \ {p} : exec'[q] = exec[q]
    BY <1>4, <1>5, OneChanges
  <1>7. TypeOK'
    BY <1>3, <1>6 DEF IInv, TypeOK, ExecRecords, ChainKeeps, ChainTypeOK
  <1>8. RedeemsArePublic'
    <2>1. Idle(r).pc # "sent"
      BY RecordsWritten
    <2>2. \A q \in Parties :
              RedeemSent(q)' => secretPublic' /\ first'[PeerChain(q)] # NoLock
      BY <1>3, <1>6, <2>1, TwoParties DEF IInv, RedeemsArePublic, RedeemSent, ChainKeeps
    <2>3. ASSUME Taker \in honest', ~secretPublic', NEW id \in Legs
          PROVE  ~swap'[id].withdrawn
      <3>1. QuietStep /\ ~swap[id].withdrawn
        BY <1>2, <2>3 DEF IInv, RedeemsArePublic
      <3> QED BY <1>1, <3>1, QuietSteps
    <2> QED BY <2>2, <2>3 DEF RedeemsArePublic
  <1>9. RevealPays'
    <2> SUFFICES ASSUME Taker \in honest, secretPublic PROVE RevealPays'
      BY DEF RevealPays
    <2> DEFINE id == first["B"]
    <2>1. /\ id \in Legs /\ Right(Taker, id) /\ id # NoLock
          /\ \/ swap[id] = Redeemed
             \/ /\ swap[id] = Locked /\ RedeemSent(Taker)
                /\ clock + Lag < id.timelock + age[Taker]
      BY AgreedTerms DEF IInv, RevealPays
    <2>2. first'["B"] = id
      BY <1>3, <2>1 DEF ChainKeeps, Chains
    <2>3. age[Taker] <= Lag /\ age[Taker] \in Nat /\ Lag \in Nat /\ clock \in Nat
      BY TwoParties, Responsive DEF IInv, TypeOK
    <2>4. id.timelock \in Nat /\ id.hashlock = Sha256(Secret)
      BY <2>1, AgreedTerms
    <2> HIDE DEF id
    <2>5. swap[id] # Redeemed => clock < id.timelock /\ ~(clock >= id.timelock)
      BY <2>1, <2>3, <2>4
    <2>6. CASE swap[id] = Redeemed
      <3>1. swap'[id] = Redeemed
        BY <1>3, <2>1, <2>6 DEF ChainKeeps
      <3> QED BY <2>1, <2>2, <3>1 DEF RevealPays, Right
    <2>7. CASE swap[id] # Redeemed /\ p = Taker
      <3>1. CanRedeem(swap[id], id, Secret, clock)
        BY <2>1, <2>4, <2>5, <2>7, RecordStages, StagesDiffer DEF CanRedeem
      <3>2. id = first[PeerChain(p)] /\ RedeemSent(p)
        BY <2>1, <2>7, TwoParties DEF id
      <3>3. EndEffect(id, AfterRedeem(swap[id]))
        BY <3>1, <3>2, InclusionSteps
      <3>4. swap'[id] = Redeemed
        BY <1>1, <2>1, <3>1, <3>3, RedeemSteps
      <3> QED BY <2>1, <2>2, <3>4 DEF RevealPays, Right
    <2>8. CASE swap[id] # Redeemed /\ p # Taker
      <3>1. swap'[id] \in {Locked, Redeemed}
        BY <1>3, <2>1, <2>5, <2>8 DEF ChainKeeps
      <3>2. RedeemSent(Taker)' /\ age'[Taker] = age[Taker]
        BY <1>6, <2>1, <2>8, TwoParties DEF RedeemSent
      <3> QED BY <2>1, <2>2, <2>8, <3>1, <3>2 DEF RevealPays, Right
    <2> QED BY <2>6, <2>7, <2>8
  <1> QED BY <1>6, <1>7, <1>8, <1>9 DEF IInv

-----------------------------------------------------------------------------
(* The theorems *)

LEMMA InitHolds ==
    ASSUME Init
    PROVE  IInv
  <1>1. PICK s \in TakerStarts :
            exec = [p \in Parties |-> StartOf(p, IF p = Taker THEN s ELSE "Start")]
    BY DEF Init
  <1>2. /\ 0 \in 0..MaxTime /\ 0 \in 0..MinConf /\ 0 \in 0..Lag
        /\ s \in SwapStates /\ "Start" \in SwapStates /\ "Done" \in NextActions
    BY WalletConstants, Responsive DEF SwapStates, NextActions
  <1>3. ASSUME NEW p \in Parties, NEW state \in SwapStates
        PROVE  /\ StartOf(p, state) \in ExecRecords
               /\ StartOf(p, state).pc = "idle"
    BY <1>2, <1>3, WalletConstants DEF StartOf, ExecRecords
  <1>4. \A p \in Parties : exec[p] \in ExecRecords /\ exec[p].pc = "idle"
    BY <1>1, <1>2, <1>3
  <1>5. exec \in [Parties -> ExecRecords]
    BY <1>1, <1>4
  <1>6. TypeOK
    BY <1>2, <1>5, WalletConstants, StagesDiffer DEF Init, TypeOK, ExecRecords
  <1>7. ~NoSwap.withdrawn
    BY DEF NoSwap
  <1>8. StepsAreRuns /\ ClockIsRecent
    BY <1>4 DEF StepsAreRuns, ClockIsRecent
  <1>9. RedeemsArePublic /\ RevealPays
    BY <1>4, <1>7 DEF Init, RedeemsArePublic, RevealPays, RedeemSent
  <1> QED BY <1>6, <1>8, <1>9 DEF IInv

\* Whoever moves, the invariant is kept, and only the taker's wallet makes the
\* preimage public while it runs.
LEMMA NextKeepsIInv ==
    ASSUME IInv, [Next]_vars
    PROVE  /\ IInv'
           /\ ~secretPublic /\ secretPublic' /\ Taker \in honest =>
                  first["B"] \in Legs /\ clock + MinGap - Lag <= first["B"].timelock
  <1> DEFINE Room == ~secretPublic /\ secretPublic' /\ Taker \in honest =>
                  first["B"] \in Legs /\ clock + MinGap - Lag <= first["B"].timelock
  <1>1. CASE UNCHANGED vars
    <2>1. UNCHANGED <<honest, swap, depth, first, clock, secretPublic, exec, age>>
      BY <1>1 DEF vars
    <2> QED BY <2>1 DEF IInv, TypeOK, StepsAreRuns, ClockIsRecent, RedeemsArePublic,
                        RevealPays, Running, RedeemSent, Right
  <1>2. ASSUME NEW p \in Parties, Step(p)
        PROVE  IInv' /\ Room
    <2>1. CASE ReadClock(p)
      BY <2>1, ReadClockKeepsIInv DEF ReadClock
    <2>2. CASE GenerateSecret(p) \/ Wait(p) \/ AbortSwap(p) \/ GiveUpStep(p)
      <3>1. secretPublic' = secretPublic
        BY <2>2, QuietEnds DEF OnlyExec
      <3> QED BY <2>2, <3>1, QuietEnds, IdleKeepsIInv
    <2>3. CASE Plan(p) \/ SendRefund(p)
      <3>1. secretPublic' = secretPublic
        BY <2>3 DEF Plan, SendRefund, OnlyExec
      <3> QED BY <2>3, <3>1, PlanKeepsIInv
    <2>4. CASE Send(p)
      <3>1. CASE p = Taker /\ exec[p].plan = "RedeemCounterpartyLeg"
        BY <2>4, <3>1, RevealKeepsIInv
      <3>2. CASE ~(p = Taker /\ exec[p].plan = "RedeemCounterpartyLeg")
        BY <2>4, <3>2, SendKeepsIInv
      <3> QED BY <3>1, <3>2
    <2>5. CASE Mine(p)
      BY <2>5, MineEnds, MineKeepsIInv
    <2>6. CASE Panic(p)
      <3>1. secretPublic' = secretPublic
        BY <2>6 DEF Panic, OnlyExec
      <3> QED BY <2>6, <3>1, PanicKeepsIInv
    <2> QED BY <1>2, <2>1, <2>2, <2>3, <2>4, <2>5, <2>6 DEF Step
  <1>3. ASSUME NEW p \in Parties, LoseReceipt(p)
        PROVE  IInv' /\ Room
    BY <1>3, MineEnds, MineKeepsIInv
  <1>4. ASSUME NEW id \in Legs, OtherLocks(id) \/ OtherRefunds(id)
        PROVE  IInv' /\ Room
    <2>1. UNCHANGED <<honest, clock, secretPublic, exec, age>> /\ QuietStep
      BY <1>4 DEF OtherLocks, OtherRefunds, QuietStep
    <2> QED BY <2>1, OutsideKeepsIInv DEF IInv, TypeOK
  <1>5. ASSUME NEW id \in Legs, OtherRedeems(id)
        PROVE  IInv' /\ Room
    <2>1. /\ UNCHANGED <<honest, clock, exec, age>> /\ secretPublic' = TRUE /\ RedeemStep
          /\ secretPublic \/ Taker \notin honest
      BY <1>5 DEF OtherRedeems, RedeemStep
    <2>2. Taker \in honest => secretPublic' = secretPublic
      BY <2>1 DEF IInv, TypeOK
    <2> QED BY <2>1, <2>2, OutsideKeepsIInv
  <1>6. ASSUME NEW c \in Chains, EmptyBlock(c)
        PROVE  IInv' /\ Room
    <2>1. UNCHANGED <<honest, clock, secretPublic, exec, age>> /\ QuietStep
      BY <1>6 DEF EmptyBlock, QuietStep
    <2> QED BY <2>1, OutsideKeepsIInv DEF IInv, TypeOK
  <1>7. CASE Tick
    BY <1>7, TickKeepsIInv DEF Tick
  <1> QED BY <1>1, <1>2, <1>3, <1>4, <1>5, <1>6, <1>7 DEF Next

LEMMA Invariance == Spec => []IInv
  <1>1. Init => IInv
    BY InitHolds
  <1>2. IInv /\ [Next]_vars => IInv'
    BY NextKeepsIInv
  <1> QED BY <1>1, <1>2, PTL DEF Spec

\* The variables keep their types, for any legs, states and bounds: the
\* executors of exec/mod.rs leave their states only for states of sm.rs.
THEOREM TypeCorrect == Spec => []TypeOK
  <1>1. IInv => TypeOK
    BY DEF IInv
  <1> QED BY <1>1, Invariance, PTL

\* Once the wallet of an honest taker has broadcast the preimage, a leg of the
\* agreed terms has paid it or is sure to (SecretSafe), whatever the maker and
\* any number of third parties lock, redeem or refund in between, with lost
\* receipts or without.
THEOREM SecretIsSafe == Spec => []SecretSafe
  <1>1. IInv => SecretSafe
    <2> SUFFICES ASSUME IInv, Taker \in honest, secretPublic
                 PROVE  /\ Paid(Taker)
                        /\ swap[first["B"]].withdrawn \/ RedeemSent(Taker)
      BY DEF SecretSafe, RedeemSent
    <2> DEFINE id == first["B"]
    <2>1. /\ id \in Legs /\ Right(Taker, id)
          /\ \/ swap[id] = Redeemed
             \/ /\ swap[id] = Locked /\ RedeemSent(Taker)
                /\ clock + Lag < id.timelock + age[Taker]
      BY DEF IInv, RevealPays
    <2>2. /\ age[Taker] <= Lag /\ age[Taker] \in Nat /\ Lag \in Nat /\ clock \in Nat
          /\ swap[id] \in SwapRecords
      BY <2>1, TwoParties, Responsive DEF IInv, TypeOK
    <2>3. id.timelock \in Nat
      BY <2>1, AgreedTerms
    <2>4. PeerChain(Taker) = "B"
      BY TwoParties
    <2> HIDE DEF id
    <2>5. swap[id].withdrawn \/ (Active(swap[id]) /\ clock < id.timelock /\ RedeemSent(Taker))
      BY <2>1, <2>2, <2>3, RecordStages DEF Active
    <2> QED BY <2>1, <2>4, <2>5 DEF Paid, id
  <1> QED BY <1>1, Invariance, PTL

\* The broadcast that first shows the preimage leaves the margin less one step
\* (RevealLeavesRoom), for every margin and lag the assumptions allow.
THEOREM RevealsLeaveRoom == Spec => RevealLeavesRoom
  <1>1. IInv /\ [Next]_vars =>
            [~secretPublic /\ secretPublic' /\ Taker \in honest =>
                clock + MinGap - Lag <= first["B"].timelock]_vars
    BY NextKeepsIInv
  <1> QED BY <1>1, Invariance, PTL DEF Spec, RevealLeavesRoom

-----------------------------------------------------------------------------
(* The maker's lock *)

LockSent == exec[Maker].pc = "sent" /\ exec[Maker].plan = "LockMyLeg"

\* While the maker's lock is under way, the leg it answers has the terms, the
\* depth and the margin; it can only be taken back once it has expired.
LockIsSafe ==
    Maker \in honest /\ LockSent =>
        LET id == first["A"]
        IN  /\ id \in Legs /\ Right(Maker, id)
            /\ depth["A"] >= MinConf /\ Exists(id)
            /\ swap[id].refunded => clock >= id.timelock
            /\ MakerLeg.timelock + MinGap <= id.timelock

\* The maker's wallet locks only against a leg it has observed and that is safe.
LEMMA MakerLocksSafe ==
    ASSUME exec[Maker].state \in SwapStates, Decision(Maker) = "LockMyLeg"
    PROVE  /\ ObservedLock(Maker) # NoLock
           /\ Safe(Context(Maker), ObservedLock(Maker))
  <1> DEFINE ctx == Context(Maker)
  <1>1. ctx.role = "Maker" /\ ctx.lock = ObservedLock(Maker)
    BY AgreedTerms DEF Context
  <1>2. NextAction(exec[Maker].state, ctx) = "LockMyLeg"
    BY DEF Decision
  <1> HIDE DEF ctx
  <1>3. MakerNext(exec[Maker].state, ctx) = "LockMyLeg"
    BY <1>1, <1>2 DEF NextAction
  <1>4. ctx.lock # NoLock /\ Safe(ctx, ctx.lock)
    BY <1>3 DEF MakerNext
  <1> QED BY <1>1, <1>4 DEF ctx

\* A leg that exists stays, gets no shallower, and goes back only when due.
LegsStay ==
    /\ \A id \in Legs :
           Exists(id) =>
               /\ swap'[id].exists
               /\ swap'[id].refunded => swap[id].refunded \/ clock >= id.timelock
    /\ \A c \in Chains : depth'[c] >= depth[c]

LEMMA DeepenGrows ==
    ASSUME ChainTypeOK, NEW c
    PROVE  \A x \in Chains : Deepen(c)[x] >= depth[x]
  <1>1. \A x \in Chains : depth[x] \in Nat
    BY WalletConstants DEF ChainTypeOK
  <1> QED BY <1>1 DEF Deepen, ChainTypeOK

LEMMA ChainStepsKeepLegs ==
    ASSUME ChainTypeOK, QuietStep \/ RedeemStep
    PROVE  LegsStay
  <1>1. \A c \in Chains : depth[c] \in Nat
    BY WalletConstants DEF ChainTypeOK
  <1>2. CASE UNCHANGED chainVars
    BY <1>1, <1>2 DEF LegsStay, chainVars, Exists
  <1>3. ASSUME NEW c \in Chains, depth' = Deepen(c), UNCHANGED <<swap, first>>
        PROVE  LegsStay
    BY <1>3, DeepenGrows DEF LegsStay, Exists
  <1>4. ASSUME NEW id \in Legs, CanNewSwap(swap[id], id, clock), LockEffect(id)
        PROVE  LegsStay
    <2>1. swap' = [swap EXCEPT ![id] = Locked] /\ ~Exists(id)
      BY <1>4, LockSteps DEF CanNewSwap, Exists
    <2>2. \A x \in Legs \ {id} : swap'[x] = swap[x]
      BY <2>1 DEF ChainTypeOK
    <2>3. \A c \in Chains : depth'[c] >= depth[c]
      BY <1>4, DeepenGrows DEF LockEffect
    <2> QED BY <2>1, <2>2, <2>3 DEF LegsStay, Exists
  <1>5. ASSUME NEW id \in Legs, CanRefund(swap[id], id, id.sender, clock),
               EndEffect(id, AfterRefund(swap[id]))
        PROVE  LegsStay
    <2>1. swap[id] = Locked /\ AfterRefund(swap[id]) = Returned /\ clock >= id.timelock
      BY <1>5, RecordStages DEF ChainTypeOK, CanRefund
    <2>2. swap' = [swap EXCEPT ![id] = Returned] /\ depth' = Deepen(id.chain)
      BY <1>5, <2>1 DEF EndEffect
    <2>3. \A x \in Legs : swap'[x] = IF x = id THEN Returned ELSE swap[x]
      BY <2>2 DEF ChainTypeOK
    <2>4. Returned.exists
      BY DEF Returned, Locked, NoSwap
    <2> QED BY <2>1, <2>2, <2>3, <2>4, DeepenGrows DEF LegsStay, Exists
  <1>6. ASSUME NEW id \in Legs, CanRedeem(swap[id], id, Secret, clock),
               EndEffect(id, AfterRedeem(swap[id]))
        PROVE  LegsStay
    <2>1. swap[id] = Locked /\ AfterRedeem(swap[id]) = Redeemed
      BY <1>6, RecordStages DEF ChainTypeOK, CanRedeem
    <2>2. swap' = [swap EXCEPT ![id] = Redeemed] /\ depth' = Deepen(id.chain)
      BY <1>6, <2>1 DEF EndEffect
    <2>3. \A x \in Legs : swap'[x] = IF x = id THEN Redeemed ELSE swap[x]
      BY <2>2 DEF ChainTypeOK
    <2>4. Redeemed.exists /\ ~Redeemed.refunded
      BY DEF Redeemed, Locked, NoSwap
    <2> QED BY <2>1, <2>2, <2>3, <2>4, DeepenGrows DEF LegsStay, Exists
  <1> QED BY <1>2, <1>3, <1>4, <1>5, <1>6 DEF QuietStep, RedeemStep

\* A wallet's step starts the maker's lock only by sending it.
LEMMA LocksAreSent ==
    ASSUME IInv, NEW p \in Parties, Step(p) \/ LoseReceipt(p), LockSent'
    PROVE  LockSent \/ Send(Maker)
  <1>1. exec \in [Parties -> ExecRecords] /\ Maker \in Parties /\ exec[p] \in ExecRecords
    BY TwoParties DEF IInv, TypeOK, ExecRecords
  <1>2. CASE p = Taker
    <2>1. exec'[Maker] = exec[Maker]
      BY <1>1, <1>2, TwoParties DEF Step, ReadClock, Panic, GenerateSecret, Wait, AbortSwap,
         SendRefund, Plan, Send, GiveUpStep, Mine, LoseReceipt
    <2> QED BY <2>1 DEF LockSent
  <1>3. CASE p = Maker
    <2>1. CASE ReadClock(p)
      <3>1. exec'[Maker].pc \in {"observe", "reobserve"}
        BY <1>1, <1>3, <2>1 DEF ReadClock, ExecRecords
      <3> QED BY <3>1 DEF LockSent
    <2>2. CASE Plan(p)
      <3>1. exec'[Maker].pc = "reread"
        BY <1>1, <1>3, <2>2 DEF Plan, ExecRecords
      <3> QED BY <3>1 DEF LockSent
    <2>3. CASE SendRefund(p)
      <3>1. exec'[Maker].plan = "Refund"
        BY <1>1, <1>3, <2>3 DEF SendRefund, ExecRecords
      <3> QED BY <3>1 DEF LockSent
    <2>4. CASE Send(p)
      BY <1>3, <2>4
    <2>5. CASE \/ GenerateSecret(p) \/ Wait(p) \/ AbortSwap(p) \/ GiveUpStep(p)
               \/ Mine(p) \/ LoseReceipt(p)
      <3>1. PICK r : exec' = [exec EXCEPT ![p] = Idle(r)] /\ r \in ExecRecords
        BY <2>5, QuietEnds, MineEnds
      <3>2. exec'[Maker].pc = "idle"
        BY <1>1, <1>3, <3>1, RecordsWritten
      <3> QED BY <3>2 DEF LockSent
    <2>6. CASE Panic(p)
      <3>1. exec'[Maker] = Stopped(exec[Maker])
        BY <1>1, <1>3, <2>6 DEF Panic, Stopped
      <3>2. exec'[Maker].pc = "panicked"
        BY <1>1, <1>3, <3>1, RecordsWritten
      <3> QED BY <3>2 DEF LockSent
    <2> QED BY <2>1, <2>2, <2>3, <2>4, <2>5, <2>6 DEF Step
  <1> QED BY <1>2, <1>3, TwoParties

NoneLocked == \A id \in Legs : swap'[id].exists => Exists(id)

LEMMA EndsLockNothing ==
    ASSUME ChainTypeOK, NEW id \in Legs, NEW record, EndEffect(id, record), Exists(id)
    PROVE  NoneLocked
  <1>1. \A x \in Legs \ {id} : swap'[x] = swap[x]
    BY DEF EndEffect, ChainTypeOK
  <1> QED BY <1>1 DEF NoneLocked, Exists

\* Only the maker's wallet creates the maker's leg while it runs.
LEMMA InclusionLocks ==
    ASSUME IInv, NEW p \in Parties, exec[p].pc = "sent", Included(p),
           ~Exists(MakerLeg), swap'[MakerLeg].exists
    PROVE  p = Maker /\ LockSent /\ clock < MakerLeg.timelock
  <1> DEFINE own == OwnLeg(p)
  <1>1. ChainTypeOK /\ own \in Legs /\ MakerLeg \in Legs
    BY TwoParties DEF IInv, TypeOK, ChainTypeOK, Legs
  <1>2. exec[p].plan \in {"LockMyLeg", "RedeemCounterpartyLeg", "Refund"}
    BY DEF IInv, StepsAreRuns
  <1>3. CASE exec[p].plan = "LockMyLeg"
    <2>1. IF CanNewSwap(swap[own], own, clock) THEN LockEffect(own) ELSE UNCHANGED chainVars
      BY <1>3, Zenon DEF Included
    <2>2. CASE ~CanNewSwap(swap[own], own, clock)
      BY <2>1, <2>2 DEF chainVars, Exists
    <2>3. CASE CanNewSwap(swap[own], own, clock)
      <3>1. swap' = [swap EXCEPT ![own] = Locked]
        BY <1>1, <2>1, <2>3, LockSteps
      <3>2. own = MakerLeg
        BY <1>1, <3>1 DEF ChainTypeOK, Exists
      <3>3. p = Maker
        BY <3>2, TwoParties, AgreedTerms
      <3> QED BY <1>3, <2>3, <3>2, <3>3 DEF LockSent, CanNewSwap
    <2> QED BY <2>2, <2>3
  <1>4. CASE exec[p].plan # "LockMyLeg"
    <2>1. CASE exec[p].plan = "RedeemCounterpartyLeg"
      <3> DEFINE id == first[PeerChain(p)]
      <3>1. IF CanRedeem(swap[id], id, Secret, clock)
            THEN EndEffect(id, AfterRedeem(swap[id])) ELSE UNCHANGED chainVars
        BY <2>1, Zenon DEF Included
      <3>2. id \in Legs
        BY <2>1, TwoParties DEF IInv, RedeemsArePublic, RedeemSent, TypeOK
      <3> HIDE DEF id
      <3>3. CASE CanRedeem(swap[id], id, Secret, clock)
        BY <1>1, <3>1, <3>2, <3>3, EndsLockNothing DEF CanRedeem, Exists, NoneLocked
      <3>4. CASE ~CanRedeem(swap[id], id, Secret, clock)
        BY <3>1, <3>4 DEF chainVars, Exists
      <3> QED BY <3>3, <3>4
    <2>2. CASE exec[p].plan = "Refund"
      <3>1. IF CanRefund(swap[own], own, own.sender, clock)
            THEN EndEffect(own, AfterRefund(swap[own])) ELSE UNCHANGED chainVars
        BY <2>2, Zenon DEF Included
      <3> HIDE DEF own
      <3>2. CASE CanRefund(swap[own], own, own.sender, clock)
        BY <1>1, <3>1, <3>2, EndsLockNothing DEF CanRefund, Exists, NoneLocked
      <3>3. CASE ~CanRefund(swap[own], own, own.sender, clock)
        BY <3>1, <3>3 DEF chainVars, Exists
      <3> QED BY <3>2, <3>3
    <2> QED BY <1>2, <1>4, <2>1, <2>2
  <1> QED BY <1>3, <1>4

\* What any step does to the chains, who starts the maker's lock and whose
\* transaction creates the maker's leg.
LEMMA NextShape ==
    ASSUME IInv, [Next]_vars
    PROVE  /\ QuietStep \/ RedeemStep
           /\ honest' = honest /\ clock <= clock'
           /\ LockSent' => LockSent \/ Send(Maker)
           /\ ~Exists(MakerLeg) /\ swap'[MakerLeg].exists /\ Maker \in honest =>
                  LockSent /\ clock < MakerLeg.timelock /\ exec'[Maker].pc = "idle"
  <1> DEFINE Shape ==
           /\ QuietStep \/ RedeemStep
           /\ honest' = honest /\ clock <= clock'
           /\ LockSent' => LockSent \/ Send(Maker)
           /\ ~Exists(MakerLeg) /\ swap'[MakerLeg].exists /\ Maker \in honest =>
                  LockSent /\ clock < MakerLeg.timelock /\ exec'[Maker].pc = "idle"
  <1>1. ChainTypeOK /\ clock \in Nat /\ MakerLeg \in Legs
    BY DEF IInv, TypeOK, ChainTypeOK, Legs
  <1>2. ASSUME UNCHANGED <<honest, swap, depth, first, clock>>,
               LockSent' => LockSent \/ Send(Maker)
        PROVE  Shape
    BY <1>1, <1>2 DEF QuietStep, chainVars, Exists
  <1>3. CASE UNCHANGED vars
    <2>1. LockSent' => LockSent
      BY <1>3 DEF vars, LockSent
    <2> QED BY <1>2, <1>3, <2>1 DEF vars
  <1>4. ASSUME NEW p \in Parties, Step(p) \/ LoseReceipt(p)
        PROVE  Shape
    <2>1. LockSent' => LockSent \/ Send(Maker)
      BY <1>4, LocksAreSent
    <2>2. CASE Mine(p) \/ LoseReceipt(p)
      <3>1. /\ exec[p].pc = "sent" /\ Included(p)
            /\ UNCHANGED <<honest, clock, secretPublic, age>>
        BY <2>2, MineEnds
      <3>2. QuietStep \/ RedeemStep
        BY <3>1, InclusionSteps
      <3>3. ~Exists(MakerLeg) /\ swap'[MakerLeg].exists =>
                LockSent /\ clock < MakerLeg.timelock /\ exec'[Maker].pc = "idle"
        <4>1. PICK r \in ExecRecords : exec' = [exec EXCEPT ![p] = Idle(r)]
          BY <2>2, MineEnds
        <4>2. exec'[p].pc = "idle"
          BY <4>1, RecordsWritten DEF IInv, TypeOK
        <4> QED BY <3>1, <4>2, InclusionLocks
      <3>4. clock <= clock' /\ honest' = honest
        BY <1>1, <3>1
      <3> QED BY <2>1, <3>2, <3>3, <3>4
    <2>3. CASE ~(Mine(p) \/ LoseReceipt(p))
      <3>1. UNCHANGED <<honest, swap, depth, first, clock>>
        BY <1>4, <2>3 DEF Step, ReadClock, Panic, GenerateSecret, Wait, AbortSwap, SendRefund,
           Plan, Send, GiveUpStep, OnlyExec, chainVars
      <3> QED BY <1>2, <2>1, <3>1
    <2> QED BY <2>2, <2>3
  <1>5. ASSUME NEW id \in Legs, OtherLocks(id)
        PROVE  Shape
    <2>1. /\ QuietStep /\ honest' = honest /\ clock <= clock' /\ (LockSent' => LockSent)
      BY <1>1, <1>5 DEF OtherLocks, QuietStep, LockSent
    <2>2. swap' = [swap EXCEPT ![id] = Locked] /\ id.sender \notin honest
      BY <1>1, <1>5, LockSteps DEF OtherLocks
    <2>3. ~Exists(MakerLeg) /\ swap'[MakerLeg].exists => Maker \notin honest
      BY <1>1, <2>2, AgreedTerms DEF ChainTypeOK, Exists
    <2> QED BY <2>1, <2>3
  <1>6. ASSUME NEW id \in Legs, OtherRedeems(id) \/ OtherRefunds(id)
        PROVE  Shape
    <2>1. /\ QuietStep \/ RedeemStep
          /\ honest' = honest /\ clock <= clock' /\ (LockSent' => LockSent)
      BY <1>1, <1>6 DEF OtherRedeems, OtherRefunds, QuietStep, RedeemStep, LockSent
    <2>2. NoneLocked
      BY <1>1, <1>6, EndsLockNothing DEF OtherRedeems, OtherRefunds, CanRedeem, CanRefund, Exists
    <2> QED BY <1>1, <2>1, <2>2 DEF NoneLocked
  <1>7. ASSUME NEW c \in Chains, EmptyBlock(c)
        PROVE  Shape
    <2>1. /\ QuietStep
          /\ honest' = honest /\ clock <= clock' /\ (LockSent' => LockSent) /\ swap' = swap
      BY <1>1, <1>7 DEF EmptyBlock, QuietStep, LockSent
    <2> QED BY <2>1 DEF Exists
  <1>8. CASE Tick
    <2>1. /\ QuietStep
          /\ honest' = honest /\ clock <= clock' /\ (LockSent' => LockSent) /\ swap' = swap
      BY <1>1, <1>8 DEF Tick, chainVars, QuietStep, LockSent
    <2> QED BY <2>1 DEF Exists
  <1> QED BY <1>3, <1>4, <1>5, <1>6, <1>7, <1>8 DEF Next

\* The broadcast of the maker's lock: the second observation found the leg
\* active, deep enough and safe.
LEMMA SendLockIsSafe ==
    ASSUME IInv, Send(Maker), LockSent'
    PROVE  LockIsSafe'
  <1> DEFINE id == first["A"]
  <1>1. /\ exec[Maker].pc = "reobserve" /\ Decision(Maker) = exec[Maker].plan
        /\ UNCHANGED <<honest, swap, depth, first, clock>>
    BY DEF Send, Observed, chainVars
  <1>2. exec[Maker] \in ExecRecords /\ exec[Maker].state \in SwapStates
        /\ exec \in [Parties -> ExecRecords]
    BY TwoParties DEF IInv, TypeOK, ExecRecords
  <1>3. exec'[Maker] = Sent(exec[Maker])
    BY <1>2, TwoParties DEF Send, Sent
  <1>4. exec[Maker].plan = "LockMyLeg"
    BY <1>2, <1>3, RecordsWritten DEF LockSent
  <1>5. ObservedLock(Maker) # NoLock /\ Safe(Context(Maker), ObservedLock(Maker))
    BY <1>1, <1>2, <1>4, MakerLocksSafe
  <1>6. id # NoLock /\ ObservedLock(Maker) = id /\ Active(swap[id]) /\ depth["A"] >= MinConf
    BY <1>5, TwoParties DEF ObservedLock
  <1>7. id \in Legs
    BY <1>6 DEF IInv, TypeOK, Chains
  <1>8. Right(Maker, id) /\ SatAdd(MakerLeg.timelock, MinGap) <= id.timelock
    BY <1>5, <1>6, TwoParties DEF Safe, Context, Right, TimelockGapOk, Peer, OwnLeg
  <1>9. id.timelock \in Nat /\ MakerLeg.timelock \in Nat /\ TakerLeg.timelock \in Nat
    BY <1>7, AgreedTerms DEF Legs
  <1> HIDE DEF id
  <1>10. MakerLeg.timelock + MinGap <= id.timelock
    BY <1>8, <1>9, AgreedTerms, WalletConstants, MaxU64Assumption DEF SatAdd, Fits
  <1>11. swap[id].exists /\ ~swap[id].refunded
    BY <1>6, <1>7 DEF Active
  <1> QED BY <1>1, <1>6, <1>7, <1>8, <1>10, <1>11 DEF LockIsSafe, Right, Exists, id

LEMMA NextKeepsLockIsSafe ==
    ASSUME IInv, LockIsSafe, [Next]_vars
    PROVE  LockIsSafe'
  <1> DEFINE id == first["A"]
  <1>1. /\ honest' = honest /\ clock <= clock' /\ clock \in Nat /\ clock' \in Nat
        /\ LockSent' => LockSent \/ Send(Maker)
        /\ QuietStep \/ RedeemStep
    BY NextShape, NextKeepsIInv DEF IInv, TypeOK
  <1>2. ChainTypeOK
    BY DEF IInv, TypeOK, ChainTypeOK
  <1>3. ChainKeeps /\ LegsStay
    BY <1>1, <1>2, QuietSteps, RedeemSteps, ChainStepsKeepLegs DEF RedeemStep
  <1>4. CASE Send(Maker)
    BY <1>4, SendLockIsSafe DEF LockIsSafe
  <1>5. ASSUME Maker \in honest, LockSent
        PROVE  LockIsSafe'
    <2>1. /\ id \in Legs /\ Right(Maker, id) /\ id # NoLock
          /\ depth["A"] >= MinConf /\ Exists(id)
          /\ swap[id].refunded => clock >= id.timelock
          /\ MakerLeg.timelock + MinGap <= id.timelock
      BY <1>5, AgreedTerms DEF LockIsSafe
    <2>2. first'["A"] = id
      BY <1>3, <2>1 DEF ChainKeeps, Chains
    <2>3. /\ swap'[id].exists /\ depth'["A"] >= depth["A"]
          /\ swap'[id].refunded => swap[id].refunded \/ clock >= id.timelock
      BY <1>3, <2>1 DEF LegsStay, Chains
    <2>4. /\ depth["A"] \in Nat /\ depth'["A"] \in Nat /\ MinConf \in Nat
          /\ id.timelock \in Nat
      BY <1>2, <1>3, <2>1, WalletConstants, AgreedTerms DEF ChainTypeOK, ChainKeeps, Chains
    <2> HIDE DEF id
    <2>5. depth'["A"] >= MinConf /\ (swap'[id].refunded => clock' >= id.timelock)
      BY <1>1, <2>1, <2>3, <2>4
    <2> QED BY <2>1, <2>2, <2>3, <2>5 DEF LockIsSafe, Right, Exists
  <1> QED BY <1>1, <1>4, <1>5 DEF LockIsSafe

LEMMA LockInvariance == Spec => []LockIsSafe
  <1>1. Init => LockIsSafe
    <2>1. ASSUME Init PROVE exec[Maker].pc = "idle"
      BY <2>1, TwoParties DEF Init, StartOf
    <2> QED BY <2>1 DEF LockIsSafe, LockSent
  <1>2. IInv /\ LockIsSafe /\ [Next]_vars => LockIsSafe'
    BY NextKeepsLockIsSafe
  <1> QED BY <1>1, <1>2, Invariance, PTL DEF Spec

\* Whenever the maker's lock is mined, the taker's leg has the agreed terms,
\* the depth and the margin and was not taken back (NeverLocksUnsafe), whatever
\* happened between the second observation and the block.
THEOREM MakerLocksAreSafe == Spec => NeverLocksUnsafe
  <1>1. IInv /\ LockIsSafe /\ [Next]_vars =>
            [~Exists(MakerLeg) /\ swap'[MakerLeg].exists /\ Maker \in honest =>
                LET id == first["A"]
                IN  /\ Right(Maker, id)
                    /\ depth["A"] >= MinConf
                    /\ Exists(id) /\ ~swap[id].refunded
                    /\ MakerLeg.timelock + MinGap <= id.timelock]_vars
    <2> SUFFICES ASSUME IInv, LockIsSafe, [Next]_vars,
                        ~Exists(MakerLeg), swap'[MakerLeg].exists, Maker \in honest
                 PROVE  LET id == first["A"]
                        IN  /\ Right(Maker, id)
                            /\ depth["A"] >= MinConf
                            /\ Exists(id) /\ ~swap[id].refunded
                            /\ MakerLeg.timelock + MinGap <= id.timelock
      OBVIOUS
    <2> DEFINE id == first["A"]
    <2>1. LockSent /\ clock < MakerLeg.timelock /\ clock \in Nat
      BY NextShape DEF IInv, TypeOK
    <2>2. /\ id \in Legs /\ Right(Maker, id) /\ depth["A"] >= MinConf /\ Exists(id)
          /\ swap[id].refunded => clock >= id.timelock
          /\ MakerLeg.timelock + MinGap <= id.timelock
      BY <2>1 DEF LockIsSafe
    <2>3. id.timelock \in Nat /\ MakerLeg.timelock \in Nat
      BY <2>2, AgreedTerms DEF Legs
    <2> HIDE DEF id
    <2>4. ~swap[id].refunded
      BY <2>1, <2>2, <2>3, WalletConstants
    <2> QED BY <2>2, <2>4 DEF id
  <1> QED BY <1>1, Invariance, LockInvariance, PTL DEF Spec, NeverLocksUnsafe

-----------------------------------------------------------------------------
(* The maker's side *)

Opposite == first["A"]

\* A maker that has locked waits for the secret and then redeems or refunds;
\* one that has not is at the start.
MakerStages ==
    /\ exec[Maker].hash
    /\ exec[Maker].own =>
           /\ exec[Maker].state \in {"WaitingForSecret", "CounterpartyRedeemed", "Refunded"}
           /\ exec[Maker].pc \in {"reread", "reobserve"} =>
                  exec[Maker].plan = "RedeemCounterpartyLeg"
           /\ exec[Maker].pc = "sent" =>
                  exec[Maker].plan \in {"RedeemCounterpartyLeg", "Refund"}
    /\ ~exec[Maker].own =>
           /\ exec[Maker].state \in {"Start", "Aborted"}
           /\ exec[Maker].pc \in {"reread", "reobserve", "sent"} =>
                  exec[Maker].plan = "LockMyLeg"
    /\ LockSent => ~Exists(MakerLeg)

\* A planned redeem has its secret on the maker's chain.
MakerKnows ==
    exec[Maker].own /\ exec[Maker].pc \in {"reread", "reobserve"} => SecretRevealed(Maker)

\* A maker's leg answers a leg with the agreed terms and the margin.
Answered ==
    Exists(MakerLeg) =>
        /\ Opposite \in Legs /\ Right(Maker, Opposite) /\ Exists(Opposite)
        /\ swap[Opposite].refunded => clock >= Opposite.timelock
        /\ MakerLeg.timelock + MinGap <= Opposite.timelock

\* While its leg is out and the opposite one has not paid, the maker is within
\* one step of looking (the step that has ended began before its timelock) or
\* in a step that began at most Lag after its timelock, unless it panicked.
MakerInTime ==
    ~Panicked(Maker) /\ exec[Maker].own /\ Exists(MakerLeg) /\ ~swap[MakerLeg].refunded
    /\ swap[Opposite] # Redeemed =>
        /\ exec[Maker].state = "WaitingForSecret"
        /\ clock < MakerLeg.timelock + age[Maker]
                     + (IF exec[Maker].pc = "idle" THEN 0 ELSE Lag)

\* A refund under way is due, and no redeem can come before it.
RefundsAreDue ==
    \A p \in honest :
        /\ exec[p].pc = "sent" /\ exec[p].plan = "Refund" =>
               swap[OwnLeg(p)] \in {Locked, Returned} /\ clock >= OwnLeg(p).timelock
        /\ exec[p].state = "Refunded" => swap[OwnLeg(p)] = Returned

TakerReports ==
    Taker \in honest /\ exec[Taker].state = "CounterpartyRedeemed" => secretPublic

MInv ==
    /\ RefundsAreDue /\ TakerReports
    /\ Maker \in honest => MakerStages /\ MakerKnows /\ Answered /\ MakerInTime

-----------------------------------------------------------------------------
(* The operators *)

\* The rows of advance that the receipts and the secret ask for.
LEMMA AdvanceRows ==
    /\ Advance("Start", "MyLegConfirmed") = "WaitingForSecret"
    /\ Advance("WaitingForSecret", "SecretObserved") = "SecretLearned"
    /\ Advance("SecretLearned", "RedeemConfirmed") = "CounterpartyRedeemed"
    /\ Advance("Refunding", "RefundConfirmed") = "Refunded"
  <1>1. /\ <<"Start", "MyLegConfirmed", "WaitingForSecret">> \in Transitions
        /\ <<"WaitingForSecret", "SecretObserved", "SecretLearned">> \in Transitions
        /\ <<"SecretLearned", "RedeemConfirmed", "CounterpartyRedeemed">> \in Transitions
        /\ <<"Refunding", "RefundConfirmed", "Refunded">> \in Transitions
    BY DEF Transitions
  <1>2. \A t \in Transitions :
            /\ t[1] = "Start" /\ t[2] = "MyLegConfirmed" => t[3] = "WaitingForSecret"
            /\ t[1] = "WaitingForSecret" /\ t[2] = "SecretObserved" => t[3] = "SecretLearned"
            /\ t[1] = "SecretLearned" /\ t[2] = "RedeemConfirmed" =>
                   t[3] = "CounterpartyRedeemed"
            /\ t[1] = "Refunding" /\ t[2] = "RefundConfirmed" => t[3] = "Refunded"
    BY DEF Transitions
  <1>3. ASSUME NEW a, NEW b, NEW c, a \notin Absorbing, <<a, b, c>> \in Transitions,
               \A t \in Transitions : t[1] = a /\ t[2] = b => t[3] = c
        PROVE  Advance(a, b) = c
    <2>1. \E t \in Transitions : t[1] = a /\ t[2] = b
      BY <1>3
    <2>2. PICK u : u = CHOOSE t \in Transitions : t[1] = a /\ t[2] = b
      OBVIOUS
    <2>3. u \in Transitions /\ u[1] = a /\ u[2] = b
      BY <2>1, <2>2
    <2> QED BY <1>3, <2>1, <2>2, <2>3 DEF Advance
  <1>4. {"Start", "WaitingForSecret", "SecretLearned", "Refunding"} \cap Absorbing = {}
    BY DEF Absorbing
  <1> QED BY <1>1, <1>2, <1>3, <1>4

\* Which events lead to a report.
LEMMA AdvanceReports ==
    ASSUME NEW state, state \notin Terminal, NEW event
    PROVE  /\ Advance(state, event) = "CounterpartyRedeemed" => event = "RedeemConfirmed"
           /\ Advance(state, event) = "Refunded" => event = "RefundConfirmed"
  <1>1. \A t \in Transitions : /\ t[3] = "CounterpartyRedeemed" => t[2] = "RedeemConfirmed"
                               /\ t[3] = "Refunded" => t[2] = "RefundConfirmed"
    BY DEF Transitions
  <1>2. state \notin Absorbing
    BY DEF Absorbing, Terminal
  <1>3. CASE \E t \in Transitions : t[1] = state /\ t[2] = event
    <2>1. PICK u : u = CHOOSE t \in Transitions : t[1] = state /\ t[2] = event
      OBVIOUS
    <2>2. u \in Transitions /\ u[1] = state /\ u[2] = event
      BY <1>3, <2>1
    <2> QED BY <1>1, <1>2, <1>3, <2>1, <2>2 DEF Advance
  <1>4. CASE ~\E t \in Transitions : t[1] = state /\ t[2] = event
    BY <1>2, <1>4 DEF Advance
  <1> QED BY <1>3, <1>4

\* What the maker's wallet decides, by the state it is in.
LEMMA MakerDecides ==
    /\ exec[Maker].state = "Start" =>
           Decision(Maker) \in {"WaitForCounterpartyLock", "Abort", "LockMyLeg"}
    /\ exec[Maker].state = "WaitingForSecret" =>
           Decision(Maker) = IF SecretRevealed(Maker) THEN "RedeemCounterpartyLeg"
                             ELSE IF exec[Maker].now >= MakerLeg.timelock
                             THEN "Refund" ELSE "WaitForSecretReveal"
  <1> DEFINE ctx == Context(Maker)
  <1>1. /\ ctx.role = "Maker" /\ ctx.revealed = SecretRevealed(Maker)
        /\ Expired(ctx) = (exec[Maker].now >= MakerLeg.timelock)
    BY AgreedTerms, TwoParties DEF Context, Expired
  <1>2. Decision(Maker) = NextAction(exec[Maker].state, ctx)
    BY DEF Decision
  <1> HIDE DEF ctx
  <1>3. exec[Maker].state \in {"Start", "WaitingForSecret"} =>
            Decision(Maker) = MakerNext(exec[Maker].state, ctx)
    BY <1>1, <1>2, Zenon DEF NextAction
  <1>4. exec[Maker].state = "Start" => MakerNext(exec[Maker].state, ctx)
            \in {"WaitForCounterpartyLock", "Abort", "LockMyLeg"}
    BY DEF MakerNext
  <1>5. exec[Maker].state = "WaitingForSecret" => MakerNext(exec[Maker].state, ctx) =
            IF ctx.revealed THEN "RedeemCounterpartyLeg"
            ELSE IF Expired(ctx) THEN "Refund" ELSE "WaitForSecretReveal"
    BY DEF MakerNext
  <1> QED BY <1>1, <1>3, <1>4, <1>5

-----------------------------------------------------------------------------
(* What a step does to a party's record *)

Received(p) ==
    LET e == exec[p]
        f == exec'[p]
    IN  \/ /\ e.plan = "LockMyLeg" /\ f.own
           /\ f.state = Advance(e.state, "MyLegConfirmed")
        \/ /\ e.plan = "RedeemCounterpartyLeg" /\ f.own = e.own
           /\ f.state = Advance(IF e.state = "WaitingForSecret"
                                THEN Advance(e.state, "SecretObserved") ELSE e.state,
                                "RedeemConfirmed")
        \/ /\ e.plan = "Refund" /\ f.own = e.own
           /\ f.state = Advance("Refunding", "RefundConfirmed")

LEMMA ReceiptFields ==
    ASSUME NEW r \in ExecRecords,
           r.plan \in {"LockMyLeg", "RedeemCounterpartyLeg", "Refund"}
    PROVE  LET f == AfterReceipt(r)
           IN  /\ f.hash = r.hash
               /\ r.plan = "LockMyLeg" =>
                      f.own /\ f.state = Advance(r.state, "MyLegConfirmed")
               /\ r.plan = "RedeemCounterpartyLeg" =>
                      /\ f.own = r.own
                      /\ f.state = Advance(IF r.state = "WaitingForSecret"
                                           THEN Advance(r.state, "SecretObserved")
                                           ELSE r.state, "RedeemConfirmed")
               /\ r.plan = "Refund" =>
                      f.own = r.own /\ f.state = Advance("Refunding", "RefundConfirmed")
  <1>1. \A s : LET f == [r EXCEPT !.state = s]
               IN  f.hash = r.hash /\ f.own = r.own /\ f.state = s
    BY DEF ExecRecords
  <1>2. \A s : LET f == [r EXCEPT !.own = TRUE, !.state = s]
               IN  f.hash = r.hash /\ f.own /\ f.state = s
    BY DEF ExecRecords
  <1>3. CASE r.plan = "LockMyLeg"
    <2>1. AfterReceipt(r) =
              [r EXCEPT !.own = TRUE, !.state = Advance(r.state, "MyLegConfirmed")]
      BY <1>3, Zenon DEF AfterReceipt
    <2> HIDE DEF AfterReceipt, Advance
    <2> QED BY <1>2, <1>3, <2>1
  <1>4. CASE r.plan = "RedeemCounterpartyLeg"
    <2> DEFINE learned == IF r.state = "WaitingForSecret"
                          THEN Advance(r.state, "SecretObserved") ELSE r.state
    <2>1. AfterReceipt(r) = [r EXCEPT !.state = Advance(learned, "RedeemConfirmed")]
      BY <1>4, Zenon DEF AfterReceipt
    <2> HIDE DEF AfterReceipt, Advance
    <2> QED BY <1>1, <1>4, <2>1
  <1>5. CASE r.plan = "Refund"
    <2>1. AfterReceipt(r) = [r EXCEPT !.state = Advance("Refunding", "RefundConfirmed")]
      BY <1>5, Zenon DEF AfterReceipt
    <2> HIDE DEF AfterReceipt, Advance
    <2> QED BY <1>1, <1>5, <2>1
  <1> QED BY <1>3, <1>4, <1>5

LEMMA StepRecords ==
    ASSUME IInv, NEW p \in Parties, Step(p) \/ LoseReceipt(p)
    PROVE  LET e == exec[p]
               f == exec'[p]
           IN  /\ clock' = clock
               /\ ~ReadClock(p) => age'[p] = age[p]
               /\ \/ /\ ReadClock(p) /\ SameRun(e, f) /\ f.plan = e.plan
                     /\ \/ e.pc = "idle" /\ f.pc = "observe" /\ age'[p] = 0
                        \/ e.pc = "reread" /\ f.pc = "reobserve" /\ age'[p] = age[p]
                  \/ /\ Wait(p) \/ GiveUpStep(p) \/ LoseReceipt(p)
                     /\ SameRun(e, f) /\ f.pc = "idle"
                  \/ /\ GenerateSecret(p) /\ f.pc = "idle" /\ f.own = e.own
                     /\ f.state = Advance(e.state, "SecretGenerated")
                  \/ /\ AbortSwap(p) /\ f.pc = "idle" /\ f.own = e.own /\ f.hash = e.hash
                     /\ f.state = "Aborted"
                  \/ /\ SendRefund(p) /\ SameRun(e, f)
                     /\ f.pc = "sent" /\ f.plan = "Refund"
                  \/ /\ Plan(p) /\ SameRun(e, f)
                     /\ f.pc = "reread" /\ f.plan = Decision(p)
                  \/ /\ Send(p) /\ SameRun(e, f) /\ f.pc = "sent" /\ f.plan = e.plan
                  \/ Mine(p) /\ f.pc = "idle" /\ f.hash = e.hash /\ Received(p)
                  \/ Panic(p) /\ SameRun(e, f) /\ f.pc = "panicked"
  <1> DEFINE e == exec[p]
  <1> DEFINE f == exec'[p]
  <1>1. e \in ExecRecords /\ exec \in [Parties -> ExecRecords] /\ clock \in 0..MaxTime
        /\ age \in [Parties -> 0..Lag]
    BY DEF IInv, TypeOK, ExecRecords
  <1>2. clock' = clock
    BY DEF Step, ReadClock, Panic, GenerateSecret, Wait, AbortSwap, SendRefund, Plan, Send,
       GiveUpStep, Mine, LoseReceipt, OnlyExec
  <1>3. ~ReadClock(p) => age'[p] = age[p]
    BY DEF Step, Panic, GenerateSecret, Wait, AbortSwap, SendRefund, Plan, Send,
       GiveUpStep, Mine, LoseReceipt, OnlyExec
  <1>4. ASSUME ReadClock(p)
        PROVE  /\ SameRun(e, f) /\ f.plan = e.plan
               /\ \/ e.pc = "idle" /\ f.pc = "observe" /\ age'[p] = 0
                  \/ e.pc = "reread" /\ f.pc = "reobserve" /\ age'[p] = age[p]
    <2>1. "observe" \in Pcs /\ "reobserve" \in Pcs
      BY DEF Pcs
    <2>2. CASE e.pc = "idle"
      <3>1. f = Observing(e, "observe", clock) /\ age'[p] = 0
        BY <1>1, <1>4, <2>2 DEF ReadClock, Observing
      <3> HIDE DEF e, f
      <3> QED BY <1>1, <2>1, <2>2, <3>1, RecordsObserving
    <2>3. CASE e.pc = "reread"
      <3>1. f = Observing(e, "reobserve", clock) /\ age'[p] = age[p]
        BY <1>1, <1>4, <2>3 DEF ReadClock, Observing
      <3> HIDE DEF e, f
      <3> QED BY <1>1, <2>1, <2>3, <3>1, RecordsObserving
    <2> QED BY <1>4, <2>2, <2>3 DEF ReadClock
  <1>5. ASSUME Wait(p) \/ GiveUpStep(p) \/ LoseReceipt(p)
        PROVE  SameRun(e, f) /\ f.pc = "idle"
    <2>1. f = Idle(e)
      BY <1>1, <1>5 DEF Wait, GiveUpStep, LoseReceipt
    <2> HIDE DEF e, f
    <2> QED BY <1>1, <2>1, RecordsWritten
  <1>6. ASSUME GenerateSecret(p)
        PROVE  /\ f.pc = "idle" /\ f.own = e.own
               /\ f.state = Advance(e.state, "SecretGenerated")
    <2> DEFINE state == Advance(e.state, "SecretGenerated")
    <2>1. state \in SwapStates
      BY <1>1, AdvanceType DEF ExecRecords
    <2>2. f = Idle([e EXCEPT !.state = state, !.hash = TRUE])
      BY <1>1, <1>6 DEF GenerateSecret
    <2> HIDE DEF e, f, state
    <2>3. LET r == [e EXCEPT !.state = state, !.hash = TRUE]
          IN  r \in ExecRecords /\ r.own = e.own /\ r.state = state
      BY <1>1, <2>1 DEF ExecRecords
    <2>4. f.pc = "idle" /\ f.own = e.own /\ f.state = state
      BY <2>2, <2>3, RecordsWritten DEF SameRun
    <2> QED BY <2>4 DEF state
  <1>7. ASSUME AbortSwap(p)
        PROVE  f.pc = "idle" /\ f.own = e.own /\ f.hash = e.hash /\ f.state = "Aborted"
    <2>1. f = Idle([e EXCEPT !.state = "Aborted"])
      BY <1>1, <1>7 DEF AbortSwap
    <2>2. "Aborted" \in SwapStates
      BY DEF SwapStates
    <2> HIDE DEF e, f
    <2>3. LET r == [e EXCEPT !.state = "Aborted"]
          IN  r \in ExecRecords /\ r.own = e.own /\ r.hash = e.hash /\ r.state = "Aborted"
      BY <1>1, <2>2 DEF ExecRecords
    <2> QED BY <2>1, <2>3, RecordsWritten DEF SameRun
  <1>8. ASSUME SendRefund(p)
        PROVE  SameRun(e, f) /\ f.pc = "sent" /\ f.plan = "Refund"
    <2>1. f = RefundSent(e)
      BY <1>1, <1>8 DEF SendRefund, RefundSent
    <2> HIDE DEF e, f
    <2> QED BY <1>1, <2>1, RecordsWritten
  <1>9. ASSUME Plan(p)
        PROVE  SameRun(e, f) /\ f.pc = "reread" /\ f.plan = Decision(p)
    <2>1. f = Planned(e, Decision(p)) /\ Decision(p) \in NextActions
      BY <1>1, <1>9 DEF Plan, Planned, NextActions
    <2> HIDE DEF e, f
    <2> QED BY <1>1, <2>1, RecordsWritten
  <1>10. ASSUME Send(p)
         PROVE  SameRun(e, f) /\ f.pc = "sent" /\ f.plan = e.plan
    <2>1. f = Sent(e)
      BY <1>1, <1>10 DEF Send, Sent
    <2> HIDE DEF e, f
    <2> QED BY <1>1, <2>1, RecordsWritten
  <1>11. ASSUME Mine(p)
         PROVE  f.pc = "idle" /\ f.hash = e.hash /\ Received(p)
    <2>1. f = Idle(AfterReceipt(e)) /\ e.pc = "sent"
      BY <1>1, <1>11 DEF Mine
    <2>2. e.plan \in {"LockMyLeg", "RedeemCounterpartyLeg", "Refund"}
      BY <2>1 DEF IInv, StepsAreRuns
    <2> HIDE DEF e, f
    <2>3. AfterReceipt(e) \in ExecRecords
      BY <1>1, <2>2, ReceiptType
    <2>4. /\ f.pc = "idle" /\ f.hash = AfterReceipt(e).hash
          /\ f.own = AfterReceipt(e).own /\ f.state = AfterReceipt(e).state
      BY <2>1, <2>3, RecordsWritten DEF SameRun
    <2> QED BY <1>1, <2>2, <2>4, ReceiptFields DEF Received, e, f
  <1>12. ASSUME Panic(p)
         PROVE  SameRun(e, f) /\ f.pc = "panicked"
    <2>1. f = Stopped(e)
      BY <1>1, <1>12 DEF Panic, Stopped
    <2> HIDE DEF e, f
    <2> QED BY <1>1, <2>1, RecordsWritten
  <1> HIDE DEF e, f
  <1>13. QED BY <1>2, <1>3, <1>4, <1>5, <1>6, <1>7, <1>8, <1>9, <1>10, <1>11, <1>12
            DEF Step, e, f

\* A step moves one wallet, or none.
LEMMA WhoMoves ==
    ASSUME IInv, [Next]_vars, NEW p \in Parties
    PROVE  \/ Step(p) \/ LoseReceipt(p)
           \/ exec'[p] = exec[p] /\ age'[p] = age[p] /\ clock' = clock
           \/ exec'[p] = exec[p] /\ Tick
  <1>1. exec \in [Parties -> ExecRecords] /\ age \in [Parties -> 0..Lag]
    BY DEF IInv, TypeOK, ExecRecords
  <1>2. ASSUME NEW q \in Parties, q # p, Step(q) \/ LoseReceipt(q)
        PROVE  exec'[p] = exec[p] /\ age'[p] = age[p] /\ clock' = clock
    BY <1>1, <1>2 DEF Step, ReadClock, Panic, GenerateSecret, Wait, AbortSwap, SendRefund, Plan,
       Send, GiveUpStep, Mine, LoseReceipt, OnlyExec
  <1>3. CASE UNCHANGED vars
    BY <1>3 DEF vars
  <1>4. ASSUME NEW id \in Legs, OtherLocks(id) \/ OtherRedeems(id) \/ OtherRefunds(id)
        PROVE  exec'[p] = exec[p] /\ age'[p] = age[p] /\ clock' = clock
    BY <1>4 DEF OtherLocks, OtherRedeems, OtherRefunds
  <1>5. ASSUME NEW c \in Chains, EmptyBlock(c)
        PROVE  exec'[p] = exec[p] /\ age'[p] = age[p] /\ clock' = clock
    BY <1>5 DEF EmptyBlock
  <1>6. CASE Tick
    BY <1>6 DEF Tick
  <1> QED BY <1>2, <1>3, <1>4, <1>5, <1>6 DEF Next

\* A leg that came back stays back, and one that has expired is not redeemed.
LEMMA ExpiredLegs ==
    ASSUME ChainTypeOK, QuietStep \/ RedeemStep, NEW id \in Legs, clock \in Nat
    PROVE  /\ swap[id] = Returned => swap'[id] = Returned
           /\ swap[id] = Locked /\ clock >= id.timelock => swap'[id] \in {Locked, Returned}
  <1>1. CASE UNCHANGED chainVars
    BY <1>1 DEF chainVars
  <1>2. ASSUME NEW c \in Chains, depth' = Deepen(c), UNCHANGED <<swap, first>>
        PROVE  swap'[id] = swap[id]
    BY <1>2
  <1>3. ASSUME NEW x \in Legs, CanNewSwap(swap[x], x, clock), LockEffect(x)
        PROVE  swap'[id] = IF id = x THEN Locked ELSE swap[id]
    BY <1>3, LockSteps DEF ChainTypeOK
  <1>4. ASSUME NEW x \in Legs, CanNewSwap(swap[x], x, clock), LockEffect(x)
        PROVE  swap[x] = NoSwap
    BY <1>4, LockSteps
  <1>5. ASSUME NEW x \in Legs, CanRefund(swap[x], x, x.sender, clock),
               EndEffect(x, AfterRefund(swap[x]))
        PROVE  swap[x] = Locked /\ swap'[id] = IF id = x THEN Returned ELSE swap[id]
    <2>1. swap[x] = Locked /\ AfterRefund(swap[x]) = Returned
      BY <1>5, RecordStages DEF ChainTypeOK, CanRefund
    <2> QED BY <1>5, <2>1 DEF EndEffect, ChainTypeOK
  <1>6. ASSUME NEW x \in Legs, CanRedeem(swap[x], x, Secret, clock),
               EndEffect(x, AfterRedeem(swap[x]))
        PROVE  /\ swap[x] = Locked /\ ~(clock >= x.timelock)
               /\ id # x => swap'[id] = swap[id]
    <2>1. swap[x] = Locked /\ clock < x.timelock
      BY <1>6, RecordStages DEF ChainTypeOK, CanRedeem
    <2>2. x.timelock \in Nat
      BY AgreedTerms
    <2> QED BY <1>6, <2>1, <2>2 DEF EndEffect, ChainTypeOK
  <1> QED BY <1>1, <1>2, <1>3, <1>4, <1>5, <1>6, StagesDiffer DEF QuietStep, RedeemStep

\* The chain part of any step.
LEMMA ChainPart ==
    ASSUME IInv, [Next]_vars
    PROVE  /\ QuietStep \/ RedeemStep
           /\ ChainTypeOK /\ ChainKeeps /\ LegsStay
           /\ clock \in Nat /\ clock' \in Nat /\ clock <= clock' /\ honest' = honest
           /\ \A id \in Legs :
                  /\ id.timelock \in Nat
                  /\ swap[id] = Returned => swap'[id] = Returned
                  /\ swap[id] = Locked /\ clock >= id.timelock =>
                         swap'[id] \in {Locked, Returned}
  <1>1. /\ QuietStep \/ RedeemStep
        /\ clock \in Nat /\ clock' \in Nat /\ clock <= clock' /\ honest' = honest
    BY NextShape, NextKeepsIInv DEF IInv, TypeOK
  <1>2. ChainTypeOK
    BY DEF IInv, TypeOK, ChainTypeOK
  <1>3. ChainKeeps /\ LegsStay
    BY <1>1, <1>2, QuietSteps, RedeemSteps, ChainStepsKeepLegs DEF RedeemStep
  <1> QED BY <1>1, <1>2, <1>3, ExpiredLegs, AgreedTerms

\* A refund that is due, and a redeem that is in time, work when mined.
LEMMA RefundMined ==
    ASSUME IInv, NEW p \in Parties, exec[p].pc = "sent", exec[p].plan = "Refund", Included(p),
           swap[OwnLeg(p)] \in {Locked, Returned}, clock >= OwnLeg(p).timelock
    PROVE  swap'[OwnLeg(p)] = Returned
  <1> DEFINE own == OwnLeg(p)
  <1>1. own \in Legs /\ ChainTypeOK
    BY TwoParties DEF IInv, TypeOK, ChainTypeOK
  <1>2. IF CanRefund(swap[own], own, own.sender, clock)
        THEN EndEffect(own, AfterRefund(swap[own])) ELSE UNCHANGED chainVars
    BY Zenon DEF Included
  <1> HIDE DEF own
  <1>3. CASE swap[own] = Locked
    <2>1. CanRefund(swap[own], own, own.sender, clock) /\ AfterRefund(swap[own]) = Returned
      BY <1>3, RecordStages, StagesDiffer DEF CanRefund, own
    <2> QED BY <1>1, <1>2, <2>1 DEF EndEffect, ChainTypeOK, own
  <1>4. CASE swap[own] = Returned
    <2>1. ~CanRefund(swap[own], own, own.sender, clock)
      BY <1>4 DEF CanRefund, Returned, Locked, NoSwap
    <2> QED BY <1>2, <1>4, <2>1 DEF chainVars, own
  <1> QED BY <1>3, <1>4 DEF own

LEMMA RedeemMined ==
    ASSUME IInv, NEW p \in Parties, exec[p].pc = "sent",
           exec[p].plan = "RedeemCounterpartyLeg", Included(p),
           NEW id \in Legs, id = first[PeerChain(p)],
           swap[id] = Locked, clock < id.timelock
    PROVE  swap'[id] = Redeemed
  <1>1. ChainTypeOK
    BY DEF IInv, TypeOK, ChainTypeOK
  <1>2. CanRedeem(swap[id], id, Secret, clock)
    BY RecordStages, StagesDiffer, AgreedTerms DEF CanRedeem
  <1>3. EndEffect(id, AfterRedeem(swap[id]))
    BY <1>2, InclusionSteps DEF RedeemSent
  <1> QED BY <1>1, <1>2, <1>3, RedeemSteps

-----------------------------------------------------------------------------
(* The reports *)

\* A wallet's report changes only with the receipt that it is about.
LEMMA NewReports ==
    ASSUME IInv, NEW p \in Parties, Step(p) \/ LoseReceipt(p), exec'[p].state # exec[p].state
    PROVE  /\ exec'[p].state = "Refunded" => Mine(p) /\ exec[p].plan = "Refund"
           /\ exec'[p].state = "CounterpartyRedeemed" =>
                  Mine(p) /\ exec[p].plan = "RedeemCounterpartyLeg"
  <1>1. CASE GenerateSecret(p) /\ exec'[p].state = Advance(exec[p].state, "SecretGenerated")
    <2>1. exec[p].state \notin Terminal
      BY <1>1 DEF GenerateSecret, Observed, IInv, StepsAreRuns
    <2> QED BY <1>1, <2>1, AdvanceReports
  <1>2. CASE exec'[p].state = "Aborted"
    BY <1>2
  <1>3. CASE Mine(p) /\ Received(p)
    <2>1. exec[p].state \notin Terminal
      BY <1>3 DEF Mine, IInv, StepsAreRuns
    <2> DEFINE learned == IF exec[p].state = "WaitingForSecret"
                          THEN Advance(exec[p].state, "SecretObserved") ELSE exec[p].state
    <2>2. learned \notin Terminal
      BY <2>1, AdvanceRows DEF Terminal
    <2>3. "Refunding" \notin Terminal
      BY DEF Terminal
    <2>4. CASE exec[p].plan = "LockMyLeg"
          /\ exec'[p].state = Advance(exec[p].state, "MyLegConfirmed")
      BY <2>1, <2>4, AdvanceReports
    <2>5. CASE exec[p].plan = "RedeemCounterpartyLeg"
          /\ exec'[p].state = Advance(learned, "RedeemConfirmed")
      BY <1>3, <2>2, <2>5, AdvanceReports
    <2>6. CASE exec[p].plan = "Refund"
          /\ exec'[p].state = Advance("Refunding", "RefundConfirmed")
      BY <1>3, <2>3, <2>6, AdvanceReports
    <2> QED BY <1>3, <2>4, <2>5, <2>6 DEF Received
  <1> QED BY <1>1, <1>2, <1>3, StepRecords DEF SameRun

LEMMA RefundsStayDue ==
    ASSUME IInv, RefundsAreDue, [Next]_vars
    PROVE  RefundsAreDue'
  <1> SUFFICES ASSUME NEW p \in honest
               PROVE  /\ exec'[p].pc = "sent" /\ exec'[p].plan = "Refund" =>
                             /\ swap'[OwnLeg(p)] \in {Locked, Returned}
                             /\ clock' >= OwnLeg(p).timelock
                      /\ exec'[p].state = "Refunded" => swap'[OwnLeg(p)] = Returned
    BY ChainPart DEF RefundsAreDue
  <1> DEFINE own == OwnLeg(p)
  <1>1. p \in Parties /\ own \in Legs
    BY TwoParties DEF IInv, TypeOK
  <1>2. /\ clock \in Nat /\ clock' \in Nat /\ clock <= clock' /\ own.timelock \in Nat
        /\ swap[own] = Returned => swap'[own] = Returned
        /\ swap[own] = Locked /\ clock >= own.timelock => swap'[own] \in {Locked, Returned}
    BY <1>1, ChainPart
  <1>3. /\ exec[p].pc = "sent" /\ exec[p].plan = "Refund" =>
               swap[own] \in {Locked, Returned} /\ clock >= own.timelock
        /\ exec[p].state = "Refunded" => swap[own] = Returned
    BY DEF RefundsAreDue
  <1>4. CASE exec'[p] = exec[p]
    BY <1>2, <1>3, <1>4
  <1>5. CASE Step(p) \/ LoseReceipt(p)
    <2>1. ASSUME exec'[p].pc = "sent", exec'[p].plan = "Refund"
          PROVE  swap'[own] \in {Locked, Returned} /\ clock' >= own.timelock
      <3>1. SendRefund(p) \/ (Send(p) /\ exec[p].plan = "Refund")
        BY <1>1, <1>5, <2>1, StepRecords
      <3>2. ~(Send(p) /\ exec[p].plan = "Refund")
        BY <1>1 DEF Send, SimulationOk
      <3>3. swap[own] = Locked /\ clock >= own.timelock
        BY <1>1, <3>1, <3>2, RecordStages DEF SendRefund, CanSendRefund, CanRefund, IInv, TypeOK
      <3> QED BY <1>2, <3>3
    <2>2. ASSUME exec'[p].state = "Refunded"
          PROVE  swap'[own] = Returned
      <3>1. CASE exec[p].state = "Refunded"
        BY <1>2, <1>3, <3>1
      <3>2. CASE exec[p].state # "Refunded"
        <4>1. Mine(p) /\ exec[p].plan = "Refund"
          BY <1>1, <1>5, <2>2, <3>2, NewReports
        <4>2. exec[p].pc = "sent" /\ Included(p)
          BY <4>1 DEF Mine
        <4>3. swap[own] \in {Locked, Returned} /\ clock >= own.timelock
          BY <1>3, <4>1, <4>2
        <4> QED BY <1>1, <4>1, <4>2, <4>3, RefundMined
      <3> QED BY <3>1, <3>2
    <2> QED BY <2>1, <2>2
  <1> QED BY <1>1, <1>4, <1>5, WhoMoves

LEMMA TakerReportsStay ==
    ASSUME IInv, TakerReports, [Next]_vars
    PROVE  TakerReports'
  <1> SUFFICES ASSUME Taker \in honest, exec'[Taker].state = "CounterpartyRedeemed"
               PROVE  secretPublic'
    BY ChainPart DEF TakerReports
  <1>1. secretPublic => secretPublic'
    BY DEF Next, vars, Step, ReadClock, Panic, GenerateSecret, Wait, AbortSwap, SendRefund, Plan,
       Send, GiveUpStep, Mine, LoseReceipt, OnlyExec, OtherLocks, OtherRedeems,
       OtherRefunds, EmptyBlock, Tick
  <1>2. CASE exec[Taker].state = "CounterpartyRedeemed"
    BY <1>1, <1>2 DEF TakerReports
  <1>3. CASE exec[Taker].state # "CounterpartyRedeemed"
    <2>1. Step(Taker) \/ LoseReceipt(Taker)
      BY <1>3, TwoParties, WhoMoves
    <2>2. Mine(Taker) /\ exec[Taker].plan = "RedeemCounterpartyLeg"
      BY <1>3, <2>1, TwoParties, NewReports
    <2>3. secretPublic
      BY <2>2, TwoParties DEF Mine, IInv, RedeemsArePublic, RedeemSent
    <2> QED BY <1>1, <2>3
  <1> QED BY <1>2, <1>3

-----------------------------------------------------------------------------
(* The maker *)

LEMMA AnsweredStays ==
    ASSUME IInv, LockIsSafe, [Next]_vars, Maker \in honest, Answered
    PROVE  Answered'
  <1> SUFFICES ASSUME swap'[MakerLeg].exists PROVE Answered'
    BY DEF Answered, Exists
  <1> DEFINE id == first["A"]
  <1>1. /\ id \in Legs /\ Right(Maker, id) /\ Exists(id)
        /\ swap[id].refunded => clock >= id.timelock
        /\ MakerLeg.timelock + MinGap <= id.timelock
    BY NextShape DEF Answered, LockIsSafe, Opposite
  <1>2. id # NoLock
    BY <1>1, AgreedTerms
  <1>3. first'["A"] = id
    BY <1>2, ChainPart DEF ChainKeeps, Chains
  <1>4. /\ swap'[id].exists
        /\ swap'[id].refunded => swap[id].refunded \/ clock >= id.timelock
        /\ clock \in Nat /\ clock' \in Nat /\ clock <= clock' /\ id.timelock \in Nat
    BY <1>1, ChainPart DEF LegsStay
  <1> HIDE DEF id
  <1>5. swap'[id].refunded => clock' >= id.timelock
    BY <1>1, <1>4
  <1> QED BY <1>1, <1>3, <1>4, <1>5 DEF Answered, Opposite, Right, Exists

LEMMA MakerInStep ==
    ASSUME IInv, Maker \in honest, MakerStages, exec[Maker].pc # "idle"
    PROVE  /\ exec[Maker].own => exec[Maker].state = "WaitingForSecret"
           /\ ~exec[Maker].own => exec[Maker].state = "Start"
  <1>1. exec[Maker].state \notin Terminal
    BY TwoParties DEF IInv, StepsAreRuns
  <1> QED BY <1>1 DEF MakerStages, Terminal

LEMMA MakerStagesStay ==
    ASSUME IInv, [Next]_vars, Maker \in honest, MakerStages
    PROVE  MakerStages'
  <1>1. LockSent' => ~swap'[MakerLeg].exists
    <2> SUFFICES ASSUME LockSent' PROVE ~swap'[MakerLeg].exists
      OBVIOUS
    <2>1. LockSent \/ Send(Maker)
      BY NextShape
    <2>2. exec'[Maker].pc # "idle"
      BY DEF LockSent
    <2>3. ~Exists(MakerLeg)
      <3>1. CASE Send(Maker)
        <4>1. exec[Maker].plan = "LockMyLeg"
          BY <3>1, TwoParties, StepRecords DEF LockSent, Step, Send, Mine, GiveUpStep, Plan,
             ReadClock, SendRefund
        <4> QED BY <3>1, <4>1, TwoParties DEF Send, SimulationOk, CanNewSwap, Exists
      <3> QED BY <2>1, <3>1 DEF MakerStages
    <2> QED BY <2>2, <2>3, NextShape
  <1>2. CASE exec'[Maker] = exec[Maker]
    BY <1>1, <1>2 DEF MakerStages, Exists
  <1>3. CASE Step(Maker) \/ LoseReceipt(Maker)
    <2> DEFINE e == exec[Maker]
    <2> DEFINE f == exec'[Maker]
    <2>1. /\ e.pc # "idle" /\ e.own => e.state = "WaitingForSecret"
          /\ e.pc # "idle" /\ ~e.own => e.state = "Start"
      BY MakerInStep
    <2>2. /\ e.state = "Start" =>
                 Decision(Maker) \in {"WaitForCounterpartyLock", "Abort", "LockMyLeg"}
          /\ e.state = "WaitingForSecret" =>
                 Decision(Maker) \in {"RedeemCounterpartyLeg", "Refund", "WaitForSecretReveal"}
      BY MakerDecides
    <2>3. /\ e.hash
          /\ e.own =>
                /\ e.state \in {"WaitingForSecret", "CounterpartyRedeemed", "Refunded"}
                /\ e.pc \in {"reread", "reobserve"} => e.plan = "RedeemCounterpartyLeg"
                /\ e.pc = "sent" => e.plan \in {"RedeemCounterpartyLeg", "Refund"}
          /\ ~e.own =>
                /\ e.state \in {"Start", "Aborted"}
                /\ e.pc \in {"reread", "reobserve", "sent"} => e.plan = "LockMyLeg"
      BY DEF MakerStages
    <2> DEFINE Stages(r) ==
          /\ r.hash
          /\ r.own =>
                /\ r.state \in {"WaitingForSecret", "CounterpartyRedeemed", "Refunded"}
                /\ r.pc \in {"reread", "reobserve"} => r.plan = "RedeemCounterpartyLeg"
                /\ r.pc = "sent" => r.plan \in {"RedeemCounterpartyLeg", "Refund"}
          /\ ~r.own =>
                /\ r.state \in {"Start", "Aborted"}
                /\ r.pc \in {"reread", "reobserve", "sent"} => r.plan = "LockMyLeg"
    <2>4. \/ /\ ReadClock(Maker) /\ SameRun(e, f) /\ f.plan = e.plan
             /\ \/ e.pc = "idle" /\ f.pc = "observe"
                \/ e.pc = "reread" /\ f.pc = "reobserve"
          \/ SameRun(e, f) /\ f.pc = "idle"
          \/ GenerateSecret(Maker)
          \/ /\ AbortSwap(Maker) /\ f.pc = "idle" /\ f.own = e.own /\ f.hash = e.hash
             /\ f.state = "Aborted"
          \/ SendRefund(Maker) /\ SameRun(e, f) /\ f.pc = "sent" /\ f.plan = "Refund"
          \/ Plan(Maker) /\ SameRun(e, f) /\ f.pc = "reread" /\ f.plan = Decision(Maker)
          \/ Send(Maker) /\ SameRun(e, f) /\ f.pc = "sent" /\ f.plan = e.plan
          \/ Mine(Maker) /\ f.pc = "idle" /\ f.hash = e.hash /\ Received(Maker)
          \/ SameRun(e, f) /\ f.pc = "panicked"
      BY <1>3, TwoParties, StepRecords
    <2>5. /\ GenerateSecret(Maker) => e.pc = "observe" /\ Decision(Maker) = "GenerateSecret"
          /\ AbortSwap(Maker) => e.pc = "observe" /\ Decision(Maker) = "Abort"
          /\ SendRefund(Maker) => e.pc = "observe" /\ Decision(Maker) = "Refund"
          /\ Plan(Maker) => e.pc = "observe" /\
                 Decision(Maker) \in {"LockMyLeg", "RedeemCounterpartyLeg"}
          /\ Send(Maker) => e.pc = "reobserve"
          /\ Mine(Maker) => e.pc = "sent"
      BY DEF GenerateSecret, AbortSwap, SendRefund, Plan, Send, Mine, Observed
    <2>6. Mine(Maker) /\ Received(Maker) =>
             /\ f.own
             /\ f.state \in {"WaitingForSecret", "CounterpartyRedeemed", "Refunded"}
      BY <2>1, <2>3, <2>5, AdvanceRows DEF Received
    <2> HIDE DEF e, f
    <2>7. Stages(f)
      BY <2>1, <2>2, <2>3, <2>4, <2>5, <2>6 DEF SameRun
    <2> QED BY <1>1, <2>7 DEF MakerStages, Exists, e, f
  <1> QED BY <1>2, <1>3, WhoMoves, TwoParties

LEMMA MakerKnowsStays ==
    ASSUME IInv, [Next]_vars, Maker \in honest, MakerStages, MakerKnows
    PROVE  MakerKnows'
  <1> SUFFICES ASSUME exec'[Maker].own, exec'[Maker].pc \in {"reread", "reobserve"}
               PROVE  SecretRevealed(Maker)'
    BY DEF MakerKnows
  <1>1. SecretRevealed(Maker) => SecretRevealed(Maker)'
    <2> SUFFICES ASSUME NEW id \in Legs, id.chain = OwnLeg(Maker).chain, swap[id].withdrawn
                 PROVE  swap'[id].withdrawn
      BY DEF SecretRevealed
    <2>1. swap[id] = Redeemed
      BY RecordStages DEF IInv, TypeOK
    <2>2. swap'[id] = Redeemed
      BY <2>1, ChainPart DEF ChainKeeps
    <2>3. Redeemed.withdrawn
      BY RecordStages, StagesDiffer
    <2> QED BY <2>2, <2>3
  <1>2. CASE exec'[Maker] = exec[Maker]
    BY <1>1, <1>2 DEF MakerKnows
  <1>3. CASE Step(Maker) \/ LoseReceipt(Maker)
    <2>1. \/ /\ ReadClock(Maker) /\ exec'[Maker].own = exec[Maker].own
             /\ exec[Maker].pc = "reread"
          \/ Plan(Maker) /\ exec'[Maker].own = exec[Maker].own
      BY <1>3, TwoParties, StepRecords DEF SameRun
    <2>2. CASE Plan(Maker) /\ exec[Maker].own
      <3>1. exec[Maker].state = "WaitingForSecret"
        BY <2>2, MakerInStep DEF Plan, Observed
      <3> QED BY <1>1, <2>2, <3>1, MakerDecides DEF Plan
    <2> QED BY <1>1, <2>1, <2>2 DEF MakerKnows
  <1> QED BY <1>2, <1>3, WhoMoves, TwoParties

\* While the bound holds, the opposite leg is there to be redeemed.
LEMMA StillRedeemable ==
    ASSUME IInv, Answered, MakerInTime, ~Panicked(Maker), exec[Maker].own,
           Exists(MakerLeg), ~swap[MakerLeg].refunded, swap[Opposite] # Redeemed
    PROVE  swap[Opposite] = Locked /\ clock < Opposite.timelock
  <1>1. /\ Opposite \in Legs /\ Exists(Opposite)
        /\ swap[Opposite].refunded => clock >= Opposite.timelock
        /\ MakerLeg.timelock + MinGap <= Opposite.timelock
    BY DEF Answered
  <1>2. /\ clock \in Nat /\ age[Maker] \in Nat /\ age[Maker] <= Lag /\ Lag \in Nat
        /\ MinGap \in Nat /\ 2 * Lag <= MinGap
        /\ MakerLeg.timelock \in Nat /\ Opposite.timelock \in Nat
    BY <1>1, TwoParties, WalletConstants, Responsive, AgreedTerms DEF IInv, TypeOK
  <1>3. clock < MakerLeg.timelock + age[Maker]
                  + (IF exec[Maker].pc = "idle" THEN 0 ELSE Lag)
    BY DEF MakerInTime
  <1>4. clock < Opposite.timelock
    BY <1>1, <1>2, <1>3
  <1>5. ~(clock >= Opposite.timelock)
    BY <1>2, <1>4
  <1>6. swap[Opposite] \in SwapRecords
    BY <1>1 DEF IInv, TypeOK
  <1> QED BY <1>1, <1>4, <1>5, <1>6, RecordStages DEF Exists

\* A step that goes back to idle with the maker's leg out and the opposite one
\* unpaid has read a clock before the maker's timelock.
LEMMA IdleMaker ==
    ASSUME IInv, [Next]_vars, Maker \in honest, MakerStages, MakerKnows, Answered,
           MakerInTime, RefundsAreDue, ~Panicked(Maker),
           exec[Maker].own, Exists(MakerLeg), ~swap[MakerLeg].refunded,
           swap[Opposite] # Redeemed,
           ~swap'[MakerLeg].refunded, swap'[Opposite] # Redeemed,
           \/ Wait(Maker) \/ GiveUpStep(Maker) \/ LoseReceipt(Maker) \/ Mine(Maker)
    PROVE  Wait(Maker) /\ clock < MakerLeg.timelock + age[Maker]
  <1>1. swap[Opposite] = Locked /\ clock < Opposite.timelock
    BY StillRedeemable
  <1>2. Opposite \in Legs /\ Opposite = first[PeerChain(Maker)] /\ Opposite # NoLock
        /\ OwnLeg(Maker) = MakerLeg /\ MakerLeg \in Legs
    BY TwoParties, AgreedTerms DEF Answered, Opposite, Legs
  <1>3. exec[Maker].state = "WaitingForSecret"
    BY DEF MakerInTime
  <1>4. CASE LoseReceipt(Maker) \/ Mine(Maker)
    <2>1. exec[Maker].pc = "sent" /\ Included(Maker)
      BY <1>4 DEF LoseReceipt, Mine
    <2>2. exec[Maker].plan \in {"RedeemCounterpartyLeg", "Refund"}
      BY <2>1 DEF MakerStages
    <2>3. CASE exec[Maker].plan = "RedeemCounterpartyLeg"
      BY <1>1, <1>2, <2>1, <2>3, TwoParties, RedeemMined
    <2>4. CASE exec[Maker].plan = "Refund"
      <3>1. swap[MakerLeg] \in {Locked, Returned} /\ clock >= MakerLeg.timelock
        BY <1>2, <2>1, <2>4 DEF RefundsAreDue
      <3>2. swap'[MakerLeg] = Returned
        BY <1>2, <2>1, <2>4, <3>1, TwoParties, RefundMined
      <3>3. Returned.refunded
        BY DEF Returned, Locked, NoSwap
      <3> QED BY <3>2, <3>3
    <2> QED BY <2>2, <2>3, <2>4
  <1>5. CASE GiveUpStep(Maker)
    <2>1. exec[Maker].pc = "reobserve" /\ exec[Maker].plan = "RedeemCounterpartyLeg"
      BY <1>5 DEF GiveUpStep, Observed, MakerStages
    <2>2. Decision(Maker) = "RedeemCounterpartyLeg"
      BY <1>3, <2>1, MakerDecides DEF MakerKnows
    <2>3. CanRedeem(swap[Opposite], Opposite, Secret, clock)
      BY <1>1, <1>2, RecordStages, StagesDiffer, AgreedTerms DEF CanRedeem
    <2>4. SimulationOk(Maker)
      BY <1>2, <2>1, <2>3 DEF SimulationOk
    <2> QED BY <1>5, <2>1, <2>2, <2>4 DEF GiveUpStep
  <1>6. CASE Wait(Maker)
    <2>1. /\ exec[Maker].pc = "observe" /\ exec[Maker].now \in Nat
          /\ exec[Maker].now <= clock /\ clock <= exec[Maker].now + age[Maker]
          /\ clock \in Nat /\ age[Maker] \in Nat /\ MakerLeg.timelock \in Nat
      BY <1>2, <1>6, TwoParties, AgreedTerms DEF Wait, Observed, IInv, ClockIsRecent, TypeOK
    <2>2. CASE SecretRevealed(Maker)
      BY <1>3, <1>6, <2>2, MakerDecides DEF Wait
    <2>3. CASE ~SecretRevealed(Maker) /\ exec[Maker].now >= MakerLeg.timelock
      <3>1. Decision(Maker) = "Refund"
        BY <1>3, <2>3, MakerDecides
      <3>2. ~swap[MakerLeg].withdrawn
        BY <1>2, <2>3 DEF SecretRevealed
      <3>3. clock >= MakerLeg.timelock
        BY <2>1, <2>3
      <3>4. CanSendRefund(Maker)
        BY <1>2, <2>3, <3>2, <3>3 DEF CanSendRefund, CanRefund, Exists
      <3> QED BY <1>6, <3>1, <3>4 DEF Wait
    <2>4. CASE ~(exec[Maker].now >= MakerLeg.timelock)
      BY <1>6, <2>1, <2>4
    <2> QED BY <2>2, <2>3, <2>4
  <1> QED BY <1>4, <1>5, <1>6

LEMMA MakerInTimeStays ==
    ASSUME IInv, LockIsSafe, [Next]_vars, Maker \in honest, MakerStages, MakerKnows,
           Answered, MakerInTime, RefundsAreDue
    PROVE  MakerInTime'
  <1> SUFFICES ASSUME exec'[Maker].pc # "panicked", exec'[Maker].own,
                      swap'[MakerLeg].exists, ~swap'[MakerLeg].refunded,
                      swap'[first'["A"]] # Redeemed
               PROVE  /\ exec'[Maker].state = "WaitingForSecret"
                      /\ clock' < MakerLeg.timelock + age'[Maker]
                                   + (IF exec'[Maker].pc = "idle" THEN 0 ELSE Lag)
    BY DEF MakerInTime, Exists, Opposite, Panicked
  <1>1. /\ clock \in Nat /\ age[Maker] \in Nat /\ age[Maker] <= Lag /\ Lag \in Nat
        /\ MakerLeg.timelock \in Nat /\ MakerLeg \in Legs
    BY TwoParties, Responsive, AgreedTerms DEF IInv, TypeOK, Legs
  <1>4. ~Panicked(Maker)
    <2>1. Step(Maker) \/ LoseReceipt(Maker) => exec[Maker].pc # "panicked"
      BY DEF Step, ReadClock, Panic, GenerateSecret, Wait, AbortSwap, SendRefund, Plan,
         Send, GiveUpStep, Mine, LoseReceipt, Observed
    <2> QED BY <2>1, WhoMoves, TwoParties DEF Panicked
  <1>2. CASE ~Exists(MakerLeg)
    <2>1. LockSent /\ clock < MakerLeg.timelock /\ exec'[Maker].pc = "idle"
      BY <1>2, NextShape
    <2>2. ~exec[Maker].own /\ exec[Maker].state = "Start"
      BY <2>1, MakerInStep DEF MakerStages, LockSent
    <2>3. Step(Maker) \/ LoseReceipt(Maker)
      BY <2>1, WhoMoves, TwoParties DEF LockSent
    <2>4. Mine(Maker) /\ Received(Maker) /\ age'[Maker] = age[Maker] /\ clock' = clock
      BY <2>1, <2>2, <2>3, StepRecords, TwoParties
         DEF SameRun, LockSent, GenerateSecret, AbortSwap, ReadClock, Mine, Observed
    <2>5. exec'[Maker].state = "WaitingForSecret"
      BY <2>1, <2>2, <2>4, AdvanceRows DEF Received, LockSent
    <2> QED BY <1>1, <2>1, <2>4, <2>5
  <1>3. CASE Exists(MakerLeg)
    <2>1. Opposite \in Legs /\ Opposite # NoLock
      BY <1>3, AgreedTerms DEF Answered
    <2>2. first'["A"] = Opposite
      BY <2>1, ChainPart DEF ChainKeeps, Chains, Opposite
    <2>3. swap[Opposite] # Redeemed /\ swap'[Opposite] # Redeemed
      BY <2>1, <2>2, ChainPart DEF ChainKeeps
    <2>4. ~swap[MakerLeg].refunded
      <3>1. swap[MakerLeg] \in SwapRecords /\ swap'[MakerLeg] \in SwapRecords
        BY <1>1, NextKeepsIInv DEF IInv, TypeOK
      <3>2. Returned.refunded /\ ~Locked.refunded /\ ~Redeemed.refunded /\ ~NoSwap.refunded
        BY DEF Returned, Redeemed, Locked, NoSwap
      <3>3. swap[MakerLeg].refunded => swap[MakerLeg] = Returned
        BY <3>1, <3>2 DEF SwapRecords
      <3> QED BY <1>1, <3>2, <3>3, ChainPart
    <2>5. exec[Maker].own
      <3>1. CASE exec'[Maker] = exec[Maker]
        BY <3>1
      <3>2. CASE Step(Maker) \/ LoseReceipt(Maker)
        <4>1. exec'[Maker].own = exec[Maker].own \/ (Mine(Maker) /\ exec[Maker].plan = "LockMyLeg")
          BY <3>2, TwoParties, StepRecords DEF SameRun, Received
        <4>2. ~(Mine(Maker) /\ exec[Maker].plan = "LockMyLeg")
          BY <1>3 DEF Mine, MakerStages, LockSent
        <4> QED BY <4>1, <4>2
      <3> QED BY <3>1, <3>2, WhoMoves, TwoParties
    <2>6. /\ exec[Maker].state = "WaitingForSecret"
          /\ clock < MakerLeg.timelock + age[Maker]
                       + (IF exec[Maker].pc = "idle" THEN 0 ELSE Lag)
      BY <1>3, <1>4, <2>3, <2>4, <2>5 DEF MakerInTime
    <2>7. CASE exec'[Maker] = exec[Maker] /\ age'[Maker] = age[Maker] /\ clock' = clock
      BY <2>6, <2>7
    <2>8. CASE exec'[Maker] = exec[Maker] /\ Tick
      <3>1. Running(Maker)
        BY <1>4, <2>6 DEF Running, MakerStages, Terminal
      <3>2. clock' = clock + 1 /\ age'[Maker] = age[Maker] + 1
        BY <2>8, <3>1, TwoParties DEF Tick
      <3> QED BY <1>1, <2>6, <2>8, <3>2
    <2>9. CASE Step(Maker) \/ LoseReceipt(Maker)
      <3> DEFINE e == exec[Maker]
      <3> DEFINE f == exec'[Maker]
      <3>1. /\ clock' = clock
            /\ ~ReadClock(Maker) => age'[Maker] = age[Maker]
            /\ \/ /\ ReadClock(Maker) /\ f.state = e.state
                  /\ \/ e.pc = "idle" /\ f.pc = "observe" /\ age'[Maker] = 0
                     \/ e.pc = "reread" /\ f.pc = "reobserve" /\ age'[Maker] = age[Maker]
               \/ /\ Wait(Maker) \/ GiveUpStep(Maker) \/ LoseReceipt(Maker)
                  /\ f.state = e.state /\ f.pc = "idle"
               \/ GenerateSecret(Maker) \/ AbortSwap(Maker)
               \/ /\ SendRefund(Maker) \/ Plan(Maker) \/ Send(Maker)
                  /\ f.state = e.state /\ f.pc # "idle"
               \/ Mine(Maker)
        BY <2>9, TwoParties, StepRecords DEF SameRun
      <3>2. Decision(Maker) \in {"RedeemCounterpartyLeg", "Refund", "WaitForSecretReveal"}
        BY <2>6, MakerDecides
      <3>3. ~GenerateSecret(Maker) /\ ~AbortSwap(Maker)
        BY <3>2 DEF GenerateSecret, AbortSwap
      <3>4. Wait(Maker) \/ GiveUpStep(Maker) \/ LoseReceipt(Maker) \/ Mine(Maker) =>
                Wait(Maker) /\ clock < MakerLeg.timelock + age[Maker]
        BY <1>3, <1>4, <2>3, <2>4, <2>5, IdleMaker
      <3>5. /\ SendRefund(Maker) \/ Plan(Maker) \/ Send(Maker) => e.pc # "idle"
            /\ SendRefund(Maker) \/ Plan(Maker) \/ Send(Maker) \/ Wait(Maker) =>
                   ~ReadClock(Maker)
            /\ Wait(Maker) => ~Mine(Maker)
        BY DEF SendRefund, Plan, Send, Wait, ReadClock, Mine, Observed
      <3>6. CASE ReadClock(Maker) /\ e.pc = "idle" /\ f.pc = "observe" /\ age'[Maker] = 0
                 /\ f.state = e.state
        BY <1>1, <2>6, <3>1, <3>6
      <3>7. CASE ReadClock(Maker) /\ e.pc = "reread" /\ f.pc = "reobserve"
                 /\ age'[Maker] = age[Maker] /\ f.state = e.state
        BY <1>1, <2>6, <3>1, <3>7
      <3>8. CASE Wait(Maker) /\ f.state = e.state /\ f.pc = "idle"
        BY <1>1, <2>6, <3>1, <3>4, <3>5, <3>8
      <3>9. CASE /\ SendRefund(Maker) \/ Plan(Maker) \/ Send(Maker)
                 /\ f.state = e.state /\ f.pc # "idle"
        BY <1>1, <2>6, <3>1, <3>5, <3>9
      <3> QED BY <3>1, <3>3, <3>4, <3>5, <3>6, <3>7, <3>8, <3>9
    <2> QED BY <2>7, <2>8, <2>9, WhoMoves, TwoParties
  <1> QED BY <1>2, <1>3

-----------------------------------------------------------------------------
(* The theorems *)

LEMMA MakerInit ==
    ASSUME Init
    PROVE  MInv
  <1>1. PICK s \in TakerStarts :
            exec = [p \in Parties |-> StartOf(p, IF p = Taker THEN s ELSE "Start")]
    BY DEF Init
  <1>2. /\ exec[Maker].state = "Start" /\ exec[Maker].hash /\ ~exec[Maker].own
        /\ exec[Taker].state = s
        /\ \A p \in Parties : exec[p].pc = "idle"
    BY <1>1, TwoParties DEF StartOf
  <1>3. s # "Refunded" /\ s # "CounterpartyRedeemed"
    BY WalletConstants DEF Terminal
  <1>4. honest \subseteq Parties
    BY WalletConstants DEF Init
  <1>5. RefundsAreDue
    BY <1>2, <1>3, <1>4, TwoParties DEF RefundsAreDue
  <1>6. TakerReports
    BY <1>2, <1>3 DEF TakerReports
  <1>7. ~Exists(MakerLeg)
    BY DEF Init, Exists, Legs, NoSwap
  <1>8. MakerStages /\ MakerKnows /\ Answered /\ MakerInTime
    BY <1>2, <1>7, TwoParties DEF MakerStages, MakerKnows, Answered, MakerInTime, LockSent
  <1> QED BY <1>5, <1>6, <1>8 DEF MInv

LEMMA NextKeepsMInv ==
    ASSUME IInv, LockIsSafe, MInv, [Next]_vars
    PROVE  MInv'
  <1>1. RefundsAreDue' /\ TakerReports'
    BY RefundsStayDue, TakerReportsStay DEF MInv
  <1>2. honest' = honest
    BY ChainPart
  <1>3. ASSUME Maker \in honest
        PROVE  MakerStages' /\ MakerKnows' /\ Answered' /\ MakerInTime'
    <2>1. MakerStages /\ MakerKnows /\ Answered /\ MakerInTime /\ RefundsAreDue
      BY <1>3 DEF MInv
    <2> QED BY <1>3, <2>1, MakerStagesStay, MakerKnowsStays, AnsweredStays, MakerInTimeStays
  <1> QED BY <1>1, <1>2, <1>3 DEF MInv

LEMMA MakerInvariance == Spec => []MInv
  <1>1. Init => MInv
    BY MakerInit
  <1>2. IInv /\ LockIsSafe /\ MInv /\ [Next]_vars => MInv'
    BY NextKeepsMInv
  <1> QED BY <1>1, <1>2, Invariance, LockInvariance, PTL DEF Spec

LEMMA MakerPaidHolds ==
    ASSUME IInv, MInv
    PROVE  MakerPaid
  <1> SUFFICES ASSUME Maker \in honest, ~Panicked(Maker), exec[Maker].own,
                      swap[MakerLeg].withdrawn
               PROVE  Paid(Maker)
    BY DEF MakerPaid
  <1>1. swap[MakerLeg] = Redeemed /\ MakerLeg \in Legs
    BY RecordStages DEF IInv, TypeOK, Legs
  <1>2. Exists(MakerLeg) /\ ~swap[MakerLeg].refunded
    BY <1>1 DEF Exists, Redeemed, Locked, NoSwap
  <1>3. Answered /\ MakerInTime
    BY DEF MInv
  <1>4. /\ Opposite \in Legs /\ Right(Maker, Opposite)
        /\ Opposite = first[PeerChain(Maker)]
    BY <1>2, <1>3, TwoParties DEF Answered, Opposite
  <1>5. CASE swap[Opposite] = Redeemed
    <2>1. swap[Opposite].withdrawn
      BY <1>4, <1>5, RecordStages, StagesDiffer
    <2> QED BY <1>4, <2>1 DEF Paid
  <1>6. CASE swap[Opposite] # Redeemed
    <2>1. swap[Opposite] = Locked /\ clock < Opposite.timelock
      BY <1>2, <1>3, <1>6, StillRedeemable
    <2>2. Active(swap[Opposite])
      BY <2>1, RecordStages, StagesDiffer DEF Active
    <2> QED BY <1>4, <2>1, <2>2 DEF Paid
  <1> QED BY <1>5, <1>6

\* Once the maker's leg has been taken, the opposite leg has paid the maker's
\* wallet or is still open to it (MakerPaid): a margin of two steps is enough
\* for any legs that others put under the hashlock, with lost receipts and
\* reverted transactions.
THEOREM MakerIsPaid == Spec => []MakerPaid
  BY MakerPaidHolds, Invariance, MakerInvariance, PTL

\* What either wallet reports is what the chains hold (ReportsAreTrue), although
\* no receipt is checked for failure.
THEOREM ReportsHold == Spec => []ReportsAreTrue
  <1>1. IInv /\ MInv => ReportsAreTrue
    <2> SUFFICES ASSUME IInv, MInv, NEW p \in honest
                 PROVE  /\ exec[p].state = "CounterpartyRedeemed"
                           /\ Exists(OwnLeg(p)) /\ ~swap[OwnLeg(p)].refunded =>
                               /\ Right(p, first[PeerChain(p)])
                               /\ swap[first[PeerChain(p)]].withdrawn
                        /\ exec[p].state = "Refunded" => swap[OwnLeg(p)].refunded
      BY DEF ReportsAreTrue
    <2>1. p \in Parties
      BY DEF IInv, TypeOK
    <2>2. Redeemed.withdrawn /\ Returned.refunded
      BY DEF Redeemed, Returned, Locked, NoSwap
    <2>3. exec[p].state = "Refunded" => swap[OwnLeg(p)].refunded
      BY <2>2 DEF MInv, RefundsAreDue
    <2>4. ASSUME p = Taker, exec[p].state = "CounterpartyRedeemed"
          PROVE  Right(p, first[PeerChain(p)]) /\ swap[first[PeerChain(p)]].withdrawn
      <3>1. secretPublic
        BY <2>4 DEF MInv, TakerReports
      <3>2. ~RedeemSent(Taker)
        BY <2>4, TwoParties DEF IInv, StepsAreRuns, RedeemSent, Terminal
      <3>3. Right(Taker, first["B"]) /\ swap[first["B"]] = Redeemed
        BY <2>4, <3>1, <3>2 DEF IInv, RevealPays
      <3> QED BY <2>2, <2>4, <3>3, TwoParties
    <2>5. ASSUME p = Maker, exec[p].state = "CounterpartyRedeemed",
                 Exists(OwnLeg(p)), ~swap[OwnLeg(p)].refunded
          PROVE  Right(p, first[PeerChain(p)]) /\ swap[first[PeerChain(p)]].withdrawn
      <3>1. MakerStages /\ Answered /\ MakerInTime /\ Exists(MakerLeg)
            /\ ~swap[MakerLeg].refunded
        BY <2>5, TwoParties DEF MInv
      <3>2. exec[Maker].own
        BY <2>5, <3>1 DEF MakerStages
      <3>3. ~Panicked(Maker)
        BY <2>5, TwoParties DEF Panicked, IInv, StepsAreRuns, Terminal
      <3>4. swap[Opposite] = Redeemed /\ Right(Maker, Opposite)
        BY <2>5, <3>1, <3>2, <3>3 DEF MakerInTime, Answered
      <3> QED BY <2>2, <2>5, <3>4, TwoParties DEF Opposite
    <2> QED BY <2>1, <2>3, <2>4, <2>5, TwoParties
  <1> QED BY <1>1, Invariance, MakerInvariance, PTL
=============================================================================
