--------------------------- MODULE ObserverProofs ---------------------------
(***************************************************************************)
(* What the confirmation depth buys, for every number of confirmations     *)
(* above the depth of the reorganisations: a lock that was ever reported   *)
(* as Confirmed cannot be removed any more.  And what the cursor buys: the *)
(* tracker knows the lock, the preimage and the end of every leg in the    *)
(* blocks below it, but for those that were mined again after it passed.   *)
(***************************************************************************)
EXTENDS Observer, TrackerProofs

\* The head was read off this chain, which never was higher than its peak.
HeadsAreSeen ==
    /\ chain \in Seq(Events)
    /\ peak \in Nat /\ Height <= peak
    /\ head \in Nat /\ head <= peak
    /\ Final <= Height

IInv == HeadsAreSeen /\ ConfirmedIsFinal

\* Final never goes down: peak does not.
LEMMA FinalIsMonotone ==
    ASSUME NEW p \in Nat, NEW q \in Nat, p <= q
    PROVE  (IF p > MaxReorg THEN p - MaxReorg ELSE 0)
              <= (IF q > MaxReorg THEN q - MaxReorg ELSE 0)
  BY ObserverConstants

LEMMA FinalIsNat ==
    ASSUME NEW p \in Nat
    PROVE  (IF p > MaxReorg THEN p - MaxReorg ELSE 0) \in Nat
  BY ObserverConstants

\* The depth gate: a block with min_confirmations, counted from a head that
\* was the chain's at some time, is among the final ones.
LEMMA DeepIsFinal ==
    ASSUME HeadsAreSeen, NEW b \in 1..Height, Confirmations(b) >= MinConf
    PROVE  b <= Final
  <1>1. Height \in Nat
    BY DEF HeadsAreSeen, Height
  <1>2. CASE head > b
    <2>1. head - b + 1 > MaxReorg
      BY <1>1, <1>2, DeeperThanReorgs, ObserverConstants DEF Confirmations, HeadsAreSeen
    <2>2. peak > MaxReorg /\ b <= peak - MaxReorg
      BY <1>1, <2>1, ObserverConstants DEF HeadsAreSeen
    <2> QED BY <2>2 DEF Final
  <1>3. CASE ~(head > b)
    <2>1. MaxReorg = 0
      BY <1>1, <1>3, DeeperThanReorgs, ObserverConstants DEF Confirmations, HeadsAreSeen
    <2> QED BY <1>1, <2>1 DEF Final, HeadsAreSeen
  <1> QED BY <1>2, <1>3

\* A final block stays where it is when the chain grows or drops blocks.
LEMMA FinalStays ==
    ASSUME HeadsAreSeen, HeadsAreSeen', peak <= peak',
           ConfirmedIsFinal, UNCHANGED confirmed,
           \A b \in 1..Height : b <= Final => b <= Height' /\ chain'[b] = chain[b]
    PROVE  ConfirmedIsFinal'
  <1>1. Height \in Nat /\ Height' \in Nat
    BY DEF HeadsAreSeen, Height
  <1>2. Final <= Final' /\ Final \in Nat /\ Final' \in Nat
    BY FinalIsMonotone, FinalIsNat DEF Final, HeadsAreSeen
  <1>3. SUFFICES ASSUME NEW id \in confirmed
                 PROVE  \E b \in 1..Height' : b <= Final' /\ chain'[b] = LogNewSwap(id)
    BY DEF ConfirmedIsFinal, LogNewSwap
  <1>4. PICK b \in 1..Height : b <= Final /\ chain[b] = LogNewSwap(id)
    BY DEF ConfirmedIsFinal
  <1>5. b \in 1..Height' /\ b <= Final' /\ chain'[b] = LogNewSwap(id)
    BY <1>1, <1>2, <1>4
  <1> QED BY <1>5

LEMMA InitIInv == Init => IInv
  <1> SUFFICES ASSUME Init PROVE IInv OBVIOUS
  <1>1. chain \in Seq(Events) /\ Height = 0
    BY DEF Init, Height
  <1>2. Final = 0
    BY ObserverConstants DEF Init, Final
  <1>3. HeadsAreSeen
    BY <1>1, <1>2 DEF Init, HeadsAreSeen
  <1>4. ConfirmedIsFinal
    BY DEF Init, ConfirmedIsFinal
  <1> QED BY <1>3, <1>4 DEF IInv

LEMMA MineKeepsIInv ==
    ASSUME IInv, NEW event \in Events, Mine(event)
    PROVE  IInv'
  <1> USE DEF IInv
  <1>1. Height \in Nat /\ Height' = Height + 1 /\ chain' \in Seq(Events)
    BY DEF Mine, HeadsAreSeen, Height
  <1>2. \A b \in 1..Height : chain'[b] = chain[b]
    BY DEF Mine, HeadsAreSeen, Height
  <1>3. peak' \in Nat /\ peak <= peak' /\ Height' <= peak'
    BY <1>1 DEF Mine, HeadsAreSeen
  <1>4. Final' <= Height'
    BY <1>1, <1>3, ObserverConstants DEF Mine, HeadsAreSeen, Final
  <1>5. HeadsAreSeen'
    BY <1>1, <1>3, <1>4 DEF Mine, HeadsAreSeen
  <1>6. \A b \in 1..Height : b <= Final => b <= Height' /\ chain'[b] = chain[b]
    BY <1>1, <1>2
  <1>7. UNCHANGED confirmed
    BY DEF Mine
  <1>8. ConfirmedIsFinal'
    BY <1>3, <1>5, <1>6, <1>7, FinalStays
  <1> QED BY <1>5, <1>8

LEMMA ReorgKeepsIInv ==
    ASSUME IInv, NEW b \in 0..MaxHeight, Reorg(b)
    PROVE  IInv'
  <1> USE DEF IInv
  <1>1. Height \in Nat /\ b \in Nat /\ b < Height /\ Final <= b
    BY ObserverConstants, FinalIsNat DEF Reorg, HeadsAreSeen, Height, Final
  <1>2. chain' \in Seq(Events) /\ Height' = b /\ \A i \in 1..b : chain'[i] = chain[i]
    BY <1>1 DEF Reorg, HeadsAreSeen, Height
  <1>3. peak' = peak /\ head' = head /\ Final' = Final /\ confirmed' = confirmed
    BY DEF Reorg, Final
  <1>4. HeadsAreSeen'
    BY <1>1, <1>2, <1>3 DEF HeadsAreSeen
  <1>5. Final \in Nat
    BY FinalIsNat DEF Final, HeadsAreSeen
  <1>6. \A i \in 1..Height : i <= Final => i <= Height' /\ chain'[i] = chain[i]
    BY <1>1, <1>2, <1>5
  <1>7. ConfirmedIsFinal'
    BY <1>3, <1>4, <1>6, FinalStays DEF HeadsAreSeen
  <1> QED BY <1>4, <1>7

\* Every step of the observer itself leaves the chain alone.
LEMMA SameChainKeepsIInv ==
    ASSUME IInv, UNCHANGED chainVars, UNCHANGED confirmed, head' \in {head, Height}
    PROVE  IInv'
  <1> USE DEF IInv
  <1>1. Height \in Nat /\ Height' = Height /\ Final' = Final
    BY DEF chainVars, HeadsAreSeen, Height, Final
  <1>2. HeadsAreSeen'
    BY <1>1 DEF chainVars, HeadsAreSeen
  <1>3. ConfirmedIsFinal'
    BY <1>1 DEF chainVars, ConfirmedIsFinal, LogNewSwap
  <1> QED BY <1>2, <1>3

LEMMA ReadCreationKeepsIInv ==
    ASSUME IInv, ReadCreation
    PROVE  IInv'
  <1> USE DEF IInv
  <1>1. Height' = Height /\ Final' = Final /\ chain' = chain
    BY DEF ReadCreation, chainVars, Height, Final
  <1>2. HeadsAreSeen'
    BY <1>1 DEF ReadCreation, chainVars, HeadsAreSeen
  <1>3. CASE DeepEnough
    <2>1. PICK b \in CreationBlocks : Confirmations(b) >= MinConf
      BY <1>3, DeeperThanReorgs, ObserverConstants DEF DeepEnough
    <2>2. b \in 1..Height /\ chain[b] = LogNewSwap(target)
      BY <2>1 DEF CreationBlocks, At, Height, HeadsAreSeen
    <2>3. b <= Final
      BY <2>1, <2>2, DeepIsFinal
    <2>4. confirmed' = confirmed \cup {target}
      BY <1>3 DEF ReadCreation
    <2>5. SUFFICES ASSUME NEW id \in confirmed \cup {target}
                   PROVE  \E d \in 1..Height : d <= Final /\ chain[d] = LogNewSwap(id)
      BY <1>1, <1>2, <2>4, Zenon DEF ConfirmedIsFinal, LogNewSwap
    <2>6. CASE id = target
      BY <2>2, <2>3, <2>6
    <2>7. CASE id \in confirmed
      BY <2>7 DEF ConfirmedIsFinal
    <2> QED BY <2>6, <2>7
  <1>4. CASE ~DeepEnough
    BY <1>1, <1>4, <1>2 DEF ReadCreation, ConfirmedIsFinal, LogNewSwap
  <1> QED BY <1>2, <1>3, <1>4

LEMMA NextKeepsIInv == IInv /\ [Next]_vars => IInv'
  <1> SUFFICES ASSUME IInv, [Next]_vars PROVE IInv' OBVIOUS
  <1>1. ASSUME NEW event \in Events, Mine(event) PROVE IInv'
    BY <1>1, MineKeepsIInv
  <1>2. ASSUME NEW b \in 0..MaxHeight, Reorg(b) PROVE IInv'
    BY <1>2, ReorgKeepsIInv
  <1>3. CASE ReadHead \/ ReadLogs \/ GetSwap \/ ReadHeadAgain
    <2>1. UNCHANGED chainVars /\ UNCHANGED confirmed /\ head' \in {head, Height}
      BY <1>3 DEF ReadHead, ReadLogs, GetSwap, ReadHeadAgain
    <2> QED BY <2>1, SameChainKeepsIInv
  <1>4. CASE ReadCreation
    BY <1>4, ReadCreationKeepsIInv
  <1>5. CASE ReadFails \/ ReadLogsPanics \/ Restart
    <2>1. UNCHANGED chainVars /\ UNCHANGED confirmed /\ head' \in {head, Height}
      BY <1>5 DEF ReadFails, ReadLogsPanics, Restart
    <2> QED BY <2>1, SameChainKeepsIInv
  <1>6. CASE UNCHANGED vars
    <2>1. UNCHANGED chainVars /\ UNCHANGED confirmed /\ head' \in {head, Height}
      BY <1>6 DEF vars, chainVars
    <2> QED BY <2>1, SameChainKeepsIInv
  <1> QED BY <1>1, <1>2, <1>3, <1>4, <1>5, <1>6 DEF Next, Read

\* A lock that observe() ever reported as Confirmed stays on the chain, for
\* every min_confirmations above the deepest reorganisation.
THEOREM ConfirmedIsFinalForever == Spec => []ConfirmedIsFinal
  <1>1. Init => IInv
    BY InitIInv
  <1>2. IInv /\ [Next]_vars => IInv'
    BY NextKeepsIInv
  <1>3. IInv => ConfirmedIsFinal
    BY DEF IInv
  <1> QED BY <1>1, <1>2, <1>3, PTL DEF Spec

-----------------------------------------------------------------------------
(* What the tracker has heard of *)

OurTrackers == Trackers({Hashlock}, {Chain}, Ids, {Secret})

\* The leg of the event is known, with the mark the event puts on it.
Heard(t, event) ==
    \E leg \in Held(t[Hashlock]) :
        /\ IsLeg(leg, Chain, event.id)
        /\ event.kind = "LogRedeem" => leg.redeemed /\ t[Hashlock].preimage = Secret
        /\ event.kind = "LogRefund" => leg.refunded

LEMMA EventKinds ==
    ASSUME NEW event \in Events
    PROVE  \/ event = NoEvent
           \/ /\ event.id \in Ids /\ event.id.hashlock = Hashlock
              /\ \/ event = LogNewSwap(event.id) /\ event.kind = "LogNewSwap"
                 \/ event = LogRedeem(event.id, Secret) /\ event.kind = "LogRedeem"
                 \/ event = LogRefund(event.id) /\ event.kind = "LogRefund"
  <1>1. CASE event \in {LogNewSwap(id) : id \in Ids}
    BY <1>1, ObserverConstants DEF LogNewSwap
  <1>2. CASE event \in {LogRedeem(id, Secret) : id \in Ids}
    BY <1>2, ObserverConstants DEF LogRedeem
  <1>3. CASE event \in {LogRefund(id) : id \in Ids}
    BY <1>3, ObserverConstants DEF LogRefund
  <1> QED BY <1>1, <1>2, <1>3 DEF Events

LEMMA NoEventDoesNothing ==
    ASSUME NEW t
    PROVE  OnLog(t, Chain, NoEvent) = t
  BY Zenon DEF OnLog, NoEvent

\* The three events, as the tracker of one hashlock on one chain sees them.
LEMMA OurNewSwap ==
    ASSUME NEW t \in OurTrackers, NEW id \in Ids,
           NEW after, after = OnLog(t, Chain, LogNewSwap(id))
    PROVE  /\ after \in OurTrackers
           /\ after[Hashlock].preimage = t[Hashlock].preimage
           /\ Held(t[Hashlock]) \subseteq Held(after[Hashlock])
           /\ \E leg \in Held(after[Hashlock]) : IsLeg(leg, Chain, id)
  <1> DEFINE H == {Hashlock}
             C == {Chain}
             P == {Secret}
  <1>1. id.hashlock = Hashlock /\ Hashlock \in H /\ Chain \in C
    BY ObserverConstants
  <1>2. t \in Trackers(H, C, Ids, P)
    BY DEF OurTrackers
  <1> HIDE DEF H, C, P
  <1>3. IsLeg(NewLeg(Chain, id), Chain, id)
    BY DEF IsLeg, NewLeg
  <1>4. /\ after \in Trackers(H, C, Ids, P)
        /\ \A h \in H : after[h].preimage = t[h].preimage
        /\ LockSeen(t, after, Hashlock, Chain, id)
    BY <1>1, <1>2, NewSwapHeld
  <1>5. after \in OurTrackers
    BY <1>4 DEF OurTrackers, H, C, P
  <1> QED BY <1>1, <1>3, <1>4, <1>5, Zenon DEF LockSeen

LEMMA OurRedeem ==
    ASSUME NEW t \in OurTrackers, NEW id \in Ids,
           NEW after, after = OnLog(t, Chain, LogRedeem(id, Secret))
    PROVE  /\ after \in OurTrackers
           /\ Held(t[Hashlock]) # {} =>
                 /\ after[Hashlock].preimage = Secret
                 /\ Held(after[Hashlock]) =
                       {SeeRedeem(leg, Chain, id) : leg \in Held(t[Hashlock])}
  <1> DEFINE H == {Hashlock}
             C == {Chain}
             P == {Secret}
  <1>1. Hashlock = Sha256(Secret) /\ Hashlock \in H /\ Secret \in P /\ Chain \in C
    BY DEF Hashlock
  <1>2. t \in Trackers(H, C, Ids, P)
    BY DEF OurTrackers
  <1> HIDE DEF H, C, P
  <1>3. /\ after \in Trackers(H, C, Ids, P)
        /\ RedeemSeen(t, after, Hashlock, Chain, id, Secret)
    BY <1>1, <1>2, RedeemHeld
  <1>4. after \in OurTrackers
    BY <1>3 DEF OurTrackers, H, C, P
  <1> QED BY <1>3, <1>4 DEF RedeemSeen

LEMMA OurRefund ==
    ASSUME NEW t \in OurTrackers, NEW id \in Ids,
           NEW after, after = OnLog(t, Chain, LogRefund(id))
    PROVE  /\ after \in OurTrackers
           /\ after[Hashlock].preimage = t[Hashlock].preimage
           /\ Held(after[Hashlock]) = {SeeRefund(leg, Chain, id) : leg \in Held(t[Hashlock])}
  <1> DEFINE H == {Hashlock}
             C == {Chain}
             P == {Secret}
  <1>1. Hashlock \in H /\ Chain \in C /\ t \in Trackers(H, C, Ids, P)
    BY DEF OurTrackers
  <1> HIDE DEF H, C, P
  <1>2. /\ after \in Trackers(H, C, Ids, P)
        /\ RefundSeen(t, after, Hashlock, Chain, id)
    BY <1>1, RefundHeld
  <1> QED BY <1>2 DEF OurTrackers, H, C, P, RefundSeen

LEMMA OurLegs ==
    ASSUME NEW t \in OurTrackers, NEW leg \in Held(t[Hashlock]), NEW id
    PROVE  /\ LET new == SeeRedeem(leg, Chain, id)
              IN  /\ new.chain = leg.chain /\ new.id = leg.id
                  /\ leg.redeemed => new.redeemed
                  /\ IsLeg(leg, Chain, id) => new.redeemed
                  /\ new.refunded = leg.refunded
           /\ LET new == SeeRefund(leg, Chain, id)
              IN  /\ new.chain = leg.chain /\ new.id = leg.id
                  /\ leg.refunded => new.refunded
                  /\ IsLeg(leg, Chain, id) => new.refunded
                  /\ new.redeemed = leg.redeemed
  <1>1. leg \in LegsOn({Chain}, Ids)
    BY DEF OurTrackers, Held, ToSet, Trackers
  <1> QED BY <1>1 DEF SeeRedeem, SeeRefund, LegsOn

\* A leg stays, and so do its marks and the preimage.
LEMMA HeardStays ==
    ASSUME NEW t \in OurTrackers, NEW log \in Events,
           NEW after, after = OnLog(t, Chain, log)
    PROVE  after \in OurTrackers /\ \A event : Heard(t, event) => Heard(after, event)
  <1>1. CASE log = NoEvent
    BY <1>1, NoEventDoesNothing
  <1>2. ASSUME NEW id \in Ids, log = LogNewSwap(id)
        PROVE  after \in OurTrackers /\ \A event : Heard(t, event) => Heard(after, event)
    <2>1. /\ after \in OurTrackers
          /\ after[Hashlock].preimage = t[Hashlock].preimage
          /\ Held(t[Hashlock]) \subseteq Held(after[Hashlock])
      BY <1>2, OurNewSwap, Zenon
    <2> QED BY <2>1, Zenon DEF Heard
  <1>3. ASSUME NEW id \in Ids, log = LogRedeem(id, Secret)
        PROVE  after \in OurTrackers /\ \A event : Heard(t, event) => Heard(after, event)
    <2>1. /\ after \in OurTrackers
          /\ Held(t[Hashlock]) # {} =>
                 /\ after[Hashlock].preimage = Secret
                 /\ Held(after[Hashlock]) =
                       {SeeRedeem(leg, Chain, id) : leg \in Held(t[Hashlock])}
      BY <1>3, OurRedeem, Zenon
    <2>2. ASSUME NEW event, NEW leg \in Held(t[Hashlock]),
                 IsLeg(leg, Chain, event.id),
                 event.kind = "LogRedeem" => leg.redeemed /\ t[Hashlock].preimage = Secret,
                 event.kind = "LogRefund" => leg.refunded
          PROVE  Heard(after, event)
      <3> DEFINE new == SeeRedeem(leg, Chain, id)
      <3>1. new \in Held(after[Hashlock]) /\ after[Hashlock].preimage = Secret
        BY <2>1
      <3>2. /\ new.chain = leg.chain /\ new.id = leg.id
            /\ leg.redeemed => new.redeemed
            /\ new.refunded = leg.refunded
        BY OurLegs, Zenon
      <3> HIDE DEF new
      <3> QED BY <2>2, <3>1, <3>2, Zenon DEF Heard, IsLeg
    <2> QED BY <2>1, <2>2, Zenon DEF Heard
  <1>4. ASSUME NEW id \in Ids, log = LogRefund(id)
        PROVE  after \in OurTrackers /\ \A event : Heard(t, event) => Heard(after, event)
    <2>1. /\ after \in OurTrackers
          /\ after[Hashlock].preimage = t[Hashlock].preimage
          /\ Held(after[Hashlock]) = {SeeRefund(leg, Chain, id) : leg \in Held(t[Hashlock])}
      BY <1>4, OurRefund, Zenon
    <2>2. ASSUME NEW event, NEW leg \in Held(t[Hashlock]),
                 IsLeg(leg, Chain, event.id),
                 event.kind = "LogRedeem" => leg.redeemed /\ t[Hashlock].preimage = Secret,
                 event.kind = "LogRefund" => leg.refunded
          PROVE  Heard(after, event)
      <3> DEFINE new == SeeRefund(leg, Chain, id)
      <3>1. new \in Held(after[Hashlock])
        BY <2>1
      <3>2. /\ new.chain = leg.chain /\ new.id = leg.id
            /\ leg.refunded => new.refunded
            /\ new.redeemed = leg.redeemed
        BY OurLegs, Zenon
      <3> HIDE DEF new
      <3> QED BY <2>1, <2>2, <3>1, <3>2, Zenon DEF Heard, IsLeg
    <2> QED BY <2>1, <2>2, Zenon DEF Heard
  <1> QED BY <1>1, <1>2, <1>3, <1>4, EventKinds, Zenon

\* An event of a leg that is known is heard at once, and every lock is.
LEMMA HeardNow ==
    ASSUME NEW t \in OurTrackers, NEW log \in Events, log # NoEvent,
           log.kind = "LogNewSwap" \/ Heard(t, LogNewSwap(log.id)),
           NEW after, after = OnLog(t, Chain, log)
    PROVE  Heard(after, log)
  <1>1. ASSUME NEW id \in Ids, log = LogNewSwap(id)
        PROVE  Heard(after, log)
    <2>1. \E leg \in Held(after[Hashlock]) : IsLeg(leg, Chain, id)
      BY <1>1, OurNewSwap, Zenon
    <2>2. log.id = id /\ log.kind = "LogNewSwap"
      BY <1>1 DEF LogNewSwap
    <2> QED BY <2>1, <2>2 DEF Heard
  <1>2. ASSUME log.kind # "LogNewSwap"
        PROVE  \E leg \in Held(t[Hashlock]) : IsLeg(leg, Chain, log.id)
    <2>1. Heard(t, LogNewSwap(log.id)) /\ LogNewSwap(log.id).id = log.id
      BY <1>2 DEF LogNewSwap
    <2> QED BY <2>1, Zenon DEF Heard
  <1>3. ASSUME NEW id \in Ids, log = LogRedeem(id, Secret)
        PROVE  Heard(after, log)
    <2>1. log.id = id /\ log.kind = "LogRedeem"
      BY <1>3 DEF LogRedeem
    <2>2. PICK leg \in Held(t[Hashlock]) : IsLeg(leg, Chain, id)
      BY <1>2, <2>1
    <2>3. /\ after[Hashlock].preimage = Secret
          /\ SeeRedeem(leg, Chain, id) \in Held(after[Hashlock])
      BY <1>3, <2>2, OurRedeem
    <2>4. IsLeg(SeeRedeem(leg, Chain, id), Chain, id) /\ SeeRedeem(leg, Chain, id).redeemed
      BY <2>2, OurLegs, Zenon DEF IsLeg
    <2> QED BY <2>1, <2>3, <2>4 DEF Heard
  <1>4. ASSUME NEW id \in Ids, log = LogRefund(id)
        PROVE  Heard(after, log)
    <2>1. log.id = id /\ log.kind = "LogRefund"
      BY <1>4 DEF LogRefund
    <2>2. PICK leg \in Held(t[Hashlock]) : IsLeg(leg, Chain, id)
      BY <1>2, <2>1
    <2>3. SeeRefund(leg, Chain, id) \in Held(after[Hashlock])
      BY <1>4, <2>2, OurRefund
    <2>4. IsLeg(SeeRefund(leg, Chain, id), Chain, id) /\ SeeRefund(leg, Chain, id).refunded
      BY <2>2, OurLegs, Zenon DEF IsLeg
    <2> QED BY <2>1, <2>3, <2>4 DEF Heard
  <1> QED BY <1>1, <1>3, <1>4, EventKinds, Zenon

LEMMA PollHears ==
    ASSUME NEW t \in OurTrackers, NEW logs \in Seq(Events),
           NEW after, after = PollIntoTracker(t, Chain, logs)
    PROVE  /\ after \in OurTrackers
           /\ \A event : Heard(t, event) => Heard(after, event)
           /\ \A j \in 1..Len(logs) :
                 /\ logs[j] # NoEvent
                 /\ \/ logs[j].kind = "LogNewSwap"
                    \/ Heard(t, LogNewSwap(logs[j].id))
                    \/ \E i \in 1..j - 1 : logs[i] = LogNewSwap(logs[j].id)
                 => Heard(after, logs[j])
  <1>1. PICK run : IsPoll(run, t, Chain, logs) /\ after = run[Len(logs)]
    BY PollRuns
  <1> DEFINE n == Len(logs)
  <1>2. n \in Nat /\ \A k \in 1..n : logs[k] \in Events
    OBVIOUS
  <1>3. run[0] = t /\ \A k \in 1..n : run[k] = OnLog(run[k - 1], Chain, logs[k])
    BY <1>1 DEF IsPoll
  <1> HIDE DEF n
  <1>4. \A k \in 0..n : run[k] \in OurTrackers
    <2> DEFINE Bad == {k \in 0..n : run[k] \notin OurTrackers}
    <2> SUFFICES ASSUME Bad # {} PROVE FALSE
      OBVIOUS
    <2>1. Bad \subseteq Nat
      BY <1>2
    <2>2. PICK k \in Bad : \A m \in Bad : k <= m
      <3> HIDE DEF Bad
      <3> QED BY <2>1, LeastNat
    <2>3. k # 0
      BY <1>3
    <2>4. k \in 1..n /\ k - 1 \in 0..n /\ k - 1 \notin Bad
      BY <1>2, <2>2, <2>3
    <2>5. run[k - 1] \in OurTrackers /\ run[k] = OnLog(run[k - 1], Chain, logs[k])
      BY <1>3, <2>4
    <2>6. run[k] \in OurTrackers
      BY <1>2, <2>4, <2>5, HeardStays
    <2> QED BY <2>6
  <1>5. \A k \in 1..n : /\ run[k - 1] \in OurTrackers /\ logs[k] \in Events
                        /\ run[k] = OnLog(run[k - 1], Chain, logs[k])
    BY <1>2, <1>3, <1>4
  <1>6. \A k \in 1..n : \A event : Heard(run[k - 1], event) => Heard(run[k], event)
    BY <1>5, HeardStays, Zenon
  <1>7. ASSUME NEW i \in 0..n, NEW event, Heard(run[i], event)
        PROVE  \A k \in i..n : Heard(run[k], event)
    <2> DEFINE Bad == {k \in i..n : ~Heard(run[k], event)}
    <2> SUFFICES ASSUME Bad # {} PROVE FALSE
      OBVIOUS
    <2>1. Bad \subseteq Nat
      BY <1>2
    <2>2. PICK k \in Bad : \A m \in Bad : k <= m
      <3> HIDE DEF Bad
      <3> QED BY <2>1, LeastNat
    <2>3. k # i
      BY <1>7
    <2>4. k \in 1..n /\ k - 1 \in i..n /\ k - 1 \notin Bad
      BY <1>2, <2>2, <2>3
    <2>5. Heard(run[k - 1], event)
      BY <2>4
    <2>6. Heard(run[k], event)
      BY <1>6, <2>4, <2>5
    <2> QED BY <2>6
  <1>8. after \in OurTrackers /\ after = run[n] /\ n \in 0..n /\ 0 \in 0..n
    BY <1>1, <1>2, <1>4 DEF n
  <1>9. \A event : Heard(t, event) => Heard(after, event)
    BY <1>2, <1>3, <1>7, <1>8
  <1>10. ASSUME NEW j \in 1..n, logs[j] # NoEvent,
                \/ logs[j].kind = "LogNewSwap"
                \/ Heard(t, LogNewSwap(logs[j].id))
                \/ \E i \in 1..j - 1 : logs[i] = LogNewSwap(logs[j].id)
         PROVE  Heard(after, logs[j])
    <2>1. logs[j].kind = "LogNewSwap" \/ Heard(run[j - 1], LogNewSwap(logs[j].id))
      <3>1. CASE Heard(t, LogNewSwap(logs[j].id))
        <4>1. 0 \in 0..n /\ j - 1 \in 0..n
          BY <1>2
        <4> QED BY <1>3, <1>7, <3>1, <4>1
      <3>2. ASSUME NEW i \in 1..j - 1, logs[i] = LogNewSwap(logs[j].id)
            PROVE  Heard(run[j - 1], LogNewSwap(logs[j].id))
        <4>1. i \in 1..n /\ i \in 0..n /\ j - 1 \in i..n
          BY <1>2
        <4>2. logs[i] # NoEvent /\ logs[i].kind = "LogNewSwap"
          BY <3>2 DEF LogNewSwap, NoEvent
        <4>3. Heard(run[i], logs[i])
          BY <1>5, <4>1, <4>2, HeardNow, Zenon
        <4> QED BY <1>7, <3>2, <4>1, <4>3
      <3> QED BY <1>10, <3>1, <3>2
    <2>2. Heard(run[j], logs[j])
      BY <1>5, <1>10, <2>1, HeardNow, Zenon
    <2>3. j \in 0..n /\ n \in j..n
      BY <1>2
    <2> QED BY <1>7, <1>8, <2>2, <2>3
  <1> QED BY <1>8, <1>9, <1>10 DEF n

-----------------------------------------------------------------------------
(* The cursor *)

\* What the contract's own rules say of any chain: an event of a swap comes
\* after its lock, and an id is locked once.
LocksComeFirst ==
    \A b \in DOMAIN chain : chain[b] # NoEvent =>
        \E a \in 1..b : chain[a] = LogNewSwap(chain[b].id)

LocksAreUnique ==
    \A a, b \in DOMAIN chain : \A id \in Ids :
        chain[a] = LogNewSwap(id) /\ chain[b] = LogNewSwap(id) => a = b

OnTime(b) ==
    /\ b < nextBlock /\ b \notin late
    /\ chain[b] # NoEvent
    /\ At(LogNewSwap(chain[b].id)) \cap late = {}

HeardOnTime == \A b \in DOMAIN chain : OnTime(b) => Heard(tracker, chain[b])

CursorInv ==
    /\ TypeOK
    /\ tracker \in OurTrackers
    /\ LocksComeFirst /\ LocksAreUnique
    /\ HeardOnTime

\* The contract's guards: a lock only where there is none, an end only after it.
LEMMA PossibleLocks ==
    ASSUME NEW event \in Events, event # NoEvent, Possible(event)
    PROVE  IF event.kind = "LogNewSwap" THEN At(LogNewSwap(event.id)) = {}
           ELSE At(LogNewSwap(event.id)) # {}
  <1>1. CASE event.kind = "LogNewSwap"
    <2>1. CanNewSwap(Stored(event.id), event.id, Height + 1)
      BY <1>1, Zenon DEF Possible
    <2> QED BY <1>1, <2>1 DEF CanNewSwap, Stored
  <1>2. CASE event.kind = "LogRedeem"
    <2>1. CanRedeem(Stored(event.id), event.id, Secret, Height + 1)
      BY <1>2, Zenon DEF Possible
    <2> QED BY <1>2, <2>1 DEF CanRedeem, Stored
  <1>3. CASE event.kind = "LogRefund"
    <2>1. CanRefund(Stored(event.id), event.id, event.id.sender, Height + 1)
      BY <1>3, Zenon DEF Possible
    <2> QED BY <1>3, <2>1 DEF CanRefund, Stored
  <1> QED BY <1>1, <1>2, <1>3, EventKinds

LEMMA LockEvents ==
    ASSUME NEW id, NEW b \in DOMAIN chain, chain \in Seq(Events), chain[b] = LogNewSwap(id)
    PROVE  id \in Ids /\ chain[b] # NoEvent /\ chain[b].id = id /\ chain[b].kind = "LogNewSwap"
  <1>1. chain[b] \in Events
    OBVIOUS
  <1>2. chain[b] # NoEvent /\ chain[b].id = id /\ chain[b].kind = "LogNewSwap"
    BY DEF LogNewSwap, NoEvent
  <1> QED BY <1>1, <1>2, EventKinds

LEMMA InitCursor == Init => CursorInv
  <1> SUFFICES ASSUME Init PROVE CursorInv OBVIOUS
  <1>1. chain = <<>> /\ DOMAIN chain = {} /\ chain \in Seq(Events) /\ Height = 0
    BY DEF Init, Height
  <1>2. tracker \in OurTrackers /\ DOMAIN tracker = {Hashlock}
    BY DEF Init, NewTracker, NoEntry, OurTrackers, Trackers
  <1>3. TypeOK
    BY <1>1, <1>2, ObserverConstants DEF Init, TypeOK
  <1>4. LocksComeFirst /\ LocksAreUnique /\ HeardOnTime
    BY <1>1 DEF LocksComeFirst, LocksAreUnique, HeardOnTime
  <1> QED BY <1>2, <1>3, <1>4 DEF CursorInv

LEMMA WiderRange ==
    ASSUME NEW p \in Nat, NEW q \in Nat, p <= q
    PROVE  (\A x \in 0..p : x \in 0..q) /\ (\A x \in 0..p+1 : x \in 0..q+1)
  OBVIOUS

LEMMA MineKeepsCursor ==
    ASSUME IInv, CursorInv, NEW event \in Events, Mine(event)
    PROVE  CursorInv'
  <1>1. /\ chain \in Seq(Events) /\ chain' = Append(chain, event)
        /\ Height \in Nat /\ DOMAIN chain = 1..Height /\ DOMAIN chain' = 1..Height+1
        /\ chain' \in Seq(Events) /\ Height' = Height + 1
    BY DEF CursorInv, TypeOK, Mine, Height
  <1>2. (\A b \in 1..Height : chain'[b] = chain[b]) /\ chain'[Height+1] = event
    BY <1>1 DEF Height
  <1>3. \A b \in 1..Height+1 : b \in 1..Height \/ b = Height+1
    BY <1>1
  <1>4. UNCHANGED <<pc, head, target, tracker, nextBlock, confirmed>> /\ Possible(event)
    BY DEF Mine
  <1>5. late \subseteq late' /\ late' \subseteq Nat /\ (Height+1 < nextBlock => Height+1 \in late')
    BY <1>1 DEF Mine, CursorInv, TypeOK
  <1>6. TypeOK'
    <2>1. Height' <= MaxHeight
      BY <1>1, ObserverConstants DEF Mine
    <2>2. peak \in Nat /\ peak' \in Nat /\ peak <= peak'
      BY <1>1 DEF Mine, IInv, HeadsAreSeen
    <2>3. head \in 0..peak /\ nextBlock \in 0..peak+1
      BY DEF CursorInv, TypeOK
    <2>4. head \in 0..peak' /\ nextBlock \in 0..peak'+1
      BY <2>2, <2>3, WiderRange
    <2> QED BY <1>1, <1>4, <1>5, <2>1, <2>2, <2>4 DEF CursorInv, TypeOK
  <1>7. tracker' \in OurTrackers
    BY <1>4 DEF CursorInv
  <1>8. LocksComeFirst'
    <2> SUFFICES ASSUME NEW b \in 1..Height+1, chain'[b] # NoEvent
                 PROVE  \E a \in 1..b : chain'[a] = LogNewSwap(chain'[b].id)
      BY <1>1 DEF LocksComeFirst, LogNewSwap, NoEvent
    <2>1. CASE b \in 1..Height
      <3>1. PICK a \in 1..b : chain[a] = LogNewSwap(chain[b].id)
        BY <1>1, <1>2, <2>1 DEF CursorInv, LocksComeFirst
      <3>2. a \in 1..Height
        BY <1>1, <2>1
      <3> QED BY <1>2, <2>1, <3>1, <3>2
    <2>2. CASE b = Height+1 /\ event.kind = "LogNewSwap"
      <3>1. event = LogNewSwap(event.id)
        BY <1>2, <2>2, EventKinds DEF LogRedeem, LogRefund
      <3> QED BY <1>1, <1>2, <2>2, <3>1
    <2>3. CASE b = Height+1 /\ event.kind # "LogNewSwap"
      <3>1. PICK a \in 1..Height : chain[a] = LogNewSwap(event.id)
        BY <1>1, <1>2, <1>4, <2>3, PossibleLocks DEF At
      <3>2. a \in 1..b
        BY <1>1, <2>3
      <3> QED BY <1>2, <2>3, <3>1, <3>2
    <2> QED BY <1>3, <2>1, <2>2, <2>3
  <1>9. LocksAreUnique'
    <2> SUFFICES ASSUME NEW a \in 1..Height+1, NEW b \in 1..Height+1, NEW id \in Ids,
                        chain'[a] = LogNewSwap(id), chain'[b] = LogNewSwap(id)
                 PROVE  a = b
      BY <1>1 DEF LocksAreUnique, LogNewSwap
    <2>1. ASSUME event = LogNewSwap(id) PROVE \A i \in 1..Height : chain[i] # LogNewSwap(id)
      <3>1. event # NoEvent /\ event.kind = "LogNewSwap" /\ event.id = id
        BY <2>1 DEF LogNewSwap, NoEvent
      <3>2. At(LogNewSwap(id)) = {}
        BY <1>4, <3>1, PossibleLocks
      <3> QED BY <1>1, <3>2 DEF At
    <2>2. CASE a \in 1..Height /\ b \in 1..Height
      BY <1>1, <1>2, <2>2 DEF CursorInv, LocksAreUnique
    <2> QED BY <1>2, <1>3, <2>1, <2>2
  <1>10. HeardOnTime'
    <2> SUFFICES ASSUME NEW b \in 1..Height+1, OnTime(b)'
                 PROVE  Heard(tracker, chain'[b])
      BY <1>1, <1>4 DEF HeardOnTime, Heard
    <2>1. b < nextBlock /\ b \notin late' /\ chain'[b] # NoEvent
          /\ {a \in DOMAIN chain' : chain'[a] = LogNewSwap(chain'[b].id)} \cap late' = {}
      BY <1>4 DEF OnTime, At, LogNewSwap, NoEvent
    <2>2. b \in 1..Height
      BY <1>3, <1>5, <2>1
    <2>3. OnTime(b)
      BY <1>1, <1>2, <1>5, <2>1, <2>2 DEF OnTime, At
    <2> QED BY <1>1, <1>2, <2>2, <2>3 DEF CursorInv, HeardOnTime
  <1> QED BY <1>6, <1>7, <1>8, <1>9, <1>10 DEF CursorInv

LEMMA ReorgKeepsCursor ==
    ASSUME IInv, CursorInv, NEW d \in 0..MaxHeight, Reorg(d)
    PROVE  CursorInv'
  <1>1. chain \in Seq(Events) /\ Height \in Nat /\ d \in Nat /\ d < Height
    BY ObserverConstants DEF CursorInv, TypeOK, Reorg, Height
  <1>2. /\ chain' \in Seq(Events) /\ Height' = d /\ DOMAIN chain' = 1..d /\ DOMAIN chain = 1..Height
        /\ \A i \in 1..d : chain'[i] = chain[i] /\ i \in 1..Height
    BY <1>1 DEF Reorg, Height
  <1>3. UNCHANGED <<peak, pc, head, target, tracker, nextBlock, confirmed>>
        /\ late' = {h \in late : h <= d}
    BY DEF Reorg
  <1>4. TypeOK'
    <2>1. d <= MaxHeight
      BY ObserverConstants
    <2>2. late' \subseteq Nat
      BY <1>3 DEF CursorInv, TypeOK
    <2> QED BY <1>2, <1>3, <2>1, <2>2 DEF CursorInv, TypeOK
  <1>5. tracker' \in OurTrackers
    BY <1>3 DEF CursorInv
  <1>6. ASSUME NEW b \in 1..d, chain[b] # NoEvent
        PROVE  \E a \in 1..b : a \in 1..d /\ chain[a] = LogNewSwap(chain[b].id)
    <2>1. PICK a \in 1..b : chain[a] = LogNewSwap(chain[b].id)
      BY <1>2, <1>6 DEF CursorInv, LocksComeFirst
    <2>2. a \in 1..d
      BY <1>1
    <2> QED BY <2>1, <2>2
  <1>7. LocksComeFirst'
    <2> SUFFICES ASSUME NEW b \in 1..d, chain'[b] # NoEvent
                 PROVE  \E a \in 1..b : chain'[a] = LogNewSwap(chain'[b].id)
      BY <1>2 DEF LocksComeFirst, LogNewSwap, NoEvent
    <2> QED BY <1>2, <1>6
  <1>8. LocksAreUnique'
    <2> SUFFICES ASSUME NEW a \in 1..d, NEW b \in 1..d, NEW id \in Ids,
                        chain'[a] = LogNewSwap(id), chain'[b] = LogNewSwap(id)
                 PROVE  a = b
      BY <1>2 DEF LocksAreUnique, LogNewSwap
    <2> QED BY <1>2 DEF CursorInv, LocksAreUnique
  <1>9. HeardOnTime'
    <2> SUFFICES ASSUME NEW b \in 1..d, OnTime(b)'
                 PROVE  Heard(tracker, chain'[b])
      BY <1>2, <1>3 DEF HeardOnTime, Heard
    <2>1. b < nextBlock /\ b \notin late' /\ chain'[b] # NoEvent
          /\ {a \in DOMAIN chain' : chain'[a] = LogNewSwap(chain'[b].id)} \cap late' = {}
      BY <1>3 DEF OnTime, At, LogNewSwap, NoEvent
    <2>2. b \notin late /\ chain[b] # NoEvent /\ chain'[b] = chain[b]
      BY <1>1, <1>2, <1>3, <2>1
    <2>3. PICK a \in 1..d : chain[a] = LogNewSwap(chain[b].id)
      BY <1>6, <2>2
    <2>4. a \notin late
      <3>1. a \notin late'
        BY <1>2, <2>1, <2>2, <2>3
      <3> QED BY <1>3, <3>1, <1>1
    <2>5. chain[b].id \in Ids
      BY <1>1, <1>2, <2>3, LockEvents
    <2>6. \A c \in At(LogNewSwap(chain[b].id)) : c = a
      BY <1>2, <2>3, <2>5 DEF CursorInv, LocksAreUnique, At
    <2>7. OnTime(b)
      BY <2>1, <2>2, <2>4, <2>6 DEF OnTime
    <2> QED BY <1>2, <2>2, <2>7 DEF CursorInv, HeardOnTime
  <1> QED BY <1>4, <1>5, <1>7, <1>8, <1>9 DEF CursorInv

\* A step that touches neither the chain nor the tracker and its cursor.
LEMMA SameCursorKeeps ==
    ASSUME CursorInv, TypeOK', UNCHANGED chainVars, UNCHANGED <<tracker, nextBlock, late>>
    PROVE  CursorInv'
  <1>1. chain' = chain
    BY DEF chainVars
  <1>2. LocksComeFirst' /\ LocksAreUnique'
    BY <1>1 DEF CursorInv, LocksComeFirst, LocksAreUnique, LogNewSwap, NoEvent
  <1>3. HeardOnTime'
    BY <1>1 DEF CursorInv, HeardOnTime, OnTime, Heard, At, LogNewSwap, NoEvent
  <1> QED BY <1>2, <1>3 DEF CursorInv

\* eth_getLogs for next_block..head: what was heard stays heard, the blocks up
\* to the head that are on the chain are read in their order, and a block that
\* comes up to the head later on will be late.
LEMMA ReadLogsKeepsCursor ==
    ASSUME IInv, CursorInv, ReadLogs
    PROVE  CursorInv'
  <1> DEFINE from == IF nextBlock = 0 THEN 1 ELSE nextBlock
             to == IF head < Height THEN head ELSE Height
             logs == SubSeq(chain, from, to)
  <1>1. /\ chain \in Seq(Events) /\ Height \in Nat /\ DOMAIN chain = 1..Height
        /\ head \in Nat /\ peak \in Nat /\ head <= peak /\ nextBlock \in Nat
        /\ tracker \in OurTrackers
    BY DEF IInv, HeadsAreSeen, CursorInv, TypeOK, Height
  <1>2. /\ chain' = chain /\ peak' = peak /\ late' = late /\ nextBlock' = head + 1
        /\ UNCHANGED <<head, target, confirmed>> /\ pc' = "getSwap"
        /\ tracker' = PollIntoTracker(tracker, Chain, logs)
    BY DEF ReadLogs, chainVars, LogsBetween
  <1>3. from \in Nat /\ from >= 1 /\ to \in Nat /\ to <= Height /\ nextBlock <= from
    BY <1>1
  <1>4. \A b \in 1..Height : b <= head => b <= to
    BY <1>1
  <1>5. \A b \in 1..Height : ~(b < nextBlock) => from <= b
    BY <1>1
  <1> HIDE DEF from, to
  <1>6. logs \in Seq(Events)
    BY <1>1, <1>3 DEF Height
  <1>7. \A b \in from..to : b - from + 1 \in 1..Len(logs) /\ logs[b - from + 1] = chain[b]
    BY <1>1, <1>3 DEF Height
  <1> HIDE DEF logs
  <1>8. /\ tracker' \in OurTrackers
        /\ \A event : Heard(tracker, event) => Heard(tracker', event)
        /\ \A j \in 1..Len(logs) :
              /\ logs[j] # NoEvent
              /\ \/ logs[j].kind = "LogNewSwap"
                 \/ Heard(tracker, LogNewSwap(logs[j].id))
                 \/ \E i \in 1..j - 1 : logs[i] = LogNewSwap(logs[j].id)
              => Heard(tracker', logs[j])
    BY <1>1, <1>2, <1>6, PollHears, Zenon
  <1>9. TypeOK'
    <2>1. head + 1 \in 0..peak+1 /\ DOMAIN tracker' = {Hashlock}
      BY <1>1, <1>8 DEF OurTrackers, Trackers
    <2>2. Height' = Height
      BY <1>2 DEF Height
    <2> QED BY <1>2, <2>1, <2>2 DEF CursorInv, TypeOK
  <1>10. LocksComeFirst' /\ LocksAreUnique'
    BY <1>2 DEF CursorInv, LocksComeFirst, LocksAreUnique, LogNewSwap, NoEvent
  <1>11. HeardOnTime'
    <2> SUFFICES ASSUME NEW b \in 1..Height, OnTime(b)'
                 PROVE  Heard(tracker', chain[b])
      BY <1>1, <1>2 DEF HeardOnTime, Heard
    <2>1. b < head + 1 /\ b \notin late /\ chain[b] # NoEvent
          /\ At(LogNewSwap(chain[b].id)) \cap late = {}
      BY <1>2 DEF OnTime, At, LogNewSwap, NoEvent
    <2>2. CASE b < nextBlock
      <3>1. OnTime(b)
        BY <2>1, <2>2 DEF OnTime
      <3> QED BY <1>1, <1>8, <3>1 DEF CursorInv, HeardOnTime
    <2>3. CASE ~(b < nextBlock)
      <3>1. b \in from..to
        <4>1. b \in Nat /\ b <= head
          BY <1>1, <2>1
        <4>2. b <= to /\ from <= b
          BY <1>4, <1>5, <2>3, <4>1
        <4> QED BY <1>3, <4>1, <4>2
      <3> DEFINE j == b - from + 1
      <3>2. j \in 1..Len(logs) /\ logs[j] = chain[b]
        BY <1>7, <3>1
      <3>3. PICK a \in 1..b : chain[a] = LogNewSwap(chain[b].id)
        BY <1>1, <2>1 DEF CursorInv, LocksComeFirst
      <3>4. a \in 1..Height
        BY <1>1
      <3>5. chain[a] # NoEvent /\ chain[a].id = chain[b].id /\ chain[a].kind = "LogNewSwap"
        BY <1>1, <3>3, <3>4, LockEvents
      <3>6. CASE a < nextBlock
        <4>1. a \notin late
          BY <1>1, <2>1, <3>3, <3>4 DEF At
        <4>2. OnTime(a)
          BY <2>1, <3>5, <3>6, <4>1 DEF OnTime
        <4>3. Heard(tracker, LogNewSwap(chain[b].id))
          BY <1>1, <3>3, <3>4, <4>2 DEF CursorInv, HeardOnTime
        <4> HIDE DEF j
        <4> QED BY <1>8, <2>1, <3>2, <4>3
      <3>7. CASE ~(a < nextBlock) /\ a # b
        <4>1. a \in from..to /\ a < b
          BY <1>1, <1>3, <1>5, <3>1, <3>4, <3>7
        <4>2. a - from + 1 \in 1..j-1 /\ logs[a - from + 1] = chain[a]
          BY <1>3, <1>7, <3>1, <4>1
        <4> HIDE DEF j
        <4> QED BY <1>8, <2>1, <3>2, <3>3, <4>2
      <3>8. CASE a = b
        <4> HIDE DEF j
        <4> QED BY <1>8, <2>1, <3>2, <3>5, <3>8
      <3> QED BY <3>6, <3>7, <3>8
    <2> QED BY <2>2, <2>3
  <1> QED BY <1>8, <1>9, <1>10, <1>11 DEF CursorInv

\* getSwap answers for a contractId that was locked, so for one of Ids.
LEMMA OtherReadsKeepTypes ==
    ASSUME IInv, CursorInv, ReadHead \/ GetSwap \/ ReadHeadAgain \/ ReadCreation \/ ReadFails
    PROVE  TypeOK'
  <1>1. chain \in Seq(Events) /\ Height \in 0..peak /\ Height' = Height /\ UNCHANGED chainVars
    BY DEF IInv, HeadsAreSeen, Height, ReadHead, GetSwap, ReadHeadAgain, ReadCreation,
           ReadFails, chainVars
  <1>2. \A id : At(LogNewSwap(id)) # {} => id \in Ids
    BY <1>1, LockEvents DEF At
  <1>3. CASE ReadHead \/ ReadHeadAgain \/ ReadFails
    BY <1>1, <1>3 DEF ReadHead, ReadHeadAgain, ReadFails, chainVars, CursorInv, TypeOK
  <1>4. CASE GetSwap
    <2>1. target' = target \/ target' \in Ids
      <3>1. \A id : Active(Stored(id)) => At(LogNewSwap(id)) # {}
        BY DEF Active, Stored
      <3> QED BY <1>2, <1>4, <3>1 DEF GetSwap
    <2> QED BY <1>1, <1>4, <2>1 DEF GetSwap, chainVars, CursorInv, TypeOK
  <1>5. CASE ReadCreation
    <2>1. DeepEnough => target \in Ids
      BY <1>2, ObserverConstants, DeeperThanReorgs DEF DeepEnough, CreationBlocks
    <2> QED BY <1>1, <1>5, <2>1 DEF ReadCreation, chainVars, CursorInv, TypeOK
  <1> QED BY <1>3, <1>4, <1>5

LEMMA NextKeepsCursor == IInv /\ CursorInv /\ [Next]_vars => CursorInv'
  <1> SUFFICES ASSUME IInv, CursorInv, [Next]_vars PROVE CursorInv' OBVIOUS
  <1>1. ASSUME NEW event \in Events, Mine(event) PROVE CursorInv'
    BY <1>1, MineKeepsCursor
  <1>2. ASSUME NEW b \in 0..MaxHeight, Reorg(b) PROVE CursorInv'
    BY <1>2, ReorgKeepsCursor
  <1>3. CASE ReadLogs
    BY <1>3, ReadLogsKeepsCursor
  <1>4. CASE ReadHead \/ GetSwap \/ ReadHeadAgain \/ ReadCreation \/ ReadFails
    <2>1. UNCHANGED chainVars /\ UNCHANGED <<tracker, nextBlock, late>>
      BY <1>4 DEF ReadHead, GetSwap, ReadHeadAgain, ReadCreation, ReadFails
    <2> QED BY <1>4, <2>1, OtherReadsKeepTypes, SameCursorKeeps
  <1>5. CASE Restart
    <2>1. chain' = chain /\ peak' = peak /\ nextBlock' = 0 /\ late' = {} /\ pc' = "idle"
          /\ UNCHANGED <<head, target, confirmed>> /\ Height' = Height
      BY <1>5 DEF Restart, chainVars, Height
    <2>2. tracker' \in OurTrackers /\ DOMAIN tracker' = {Hashlock}
      BY <1>5 DEF Restart, NewTracker, NoEntry, OurTrackers, Trackers
    <2>3. TypeOK'
      BY <2>1, <2>2 DEF CursorInv, TypeOK
    <2>4. LocksComeFirst' /\ LocksAreUnique'
      BY <2>1 DEF CursorInv, LocksComeFirst, LocksAreUnique, LogNewSwap, NoEvent
    <2>5. \A b \in DOMAIN chain : ~(b < 0)
      BY DEF CursorInv, TypeOK
    <2>6. HeardOnTime'
      BY <2>1, <2>5 DEF HeardOnTime, OnTime
    <2> QED BY <2>2, <2>3, <2>4, <2>6 DEF CursorInv
  <1>6. CASE UNCHANGED vars
    <2>1. UNCHANGED chainVars /\ UNCHANGED <<tracker, nextBlock, late>>
      BY <1>6 DEF vars, chainVars
    <2>2. TypeOK'
      BY <1>6 DEF vars, CursorInv, TypeOK, Height
    <2> QED BY <2>1, <2>2, SameCursorKeeps
  <1>7. ReadLogsPanics => Restart
    BY DEF ReadLogsPanics
  <1> QED BY <1>1, <1>2, <1>3, <1>4, <1>5, <1>6, <1>7 DEF Next, Read

LEMMA NothingMissedIn == CursorInv => NothingMissed
  <1> SUFFICES ASSUME CursorInv, NEW b \in DOMAIN chain, OnTime(b)
               PROVE  \E leg \in ToSet(tracker[Hashlock].legs) :
                         /\ IsLeg(leg, Chain, chain[b].id)
                         /\ CASE chain[b].kind = "LogNewSwap" -> TRUE
                              [] chain[b].kind = "LogRedeem" ->
                                    leg.redeemed /\ tracker[Hashlock].preimage = Secret
                              [] chain[b].kind = "LogRefund" -> leg.refunded
    BY Zenon DEF NothingMissed, OnTime
  <1>1. chain[b] \in Events /\ chain[b] # NoEvent
    BY DEF CursorInv, TypeOK, OnTime
  <1>2. chain[b].kind \in {"LogNewSwap", "LogRedeem", "LogRefund"}
    BY <1>1, EventKinds
  <1>3. PICK leg \in ToSet(tracker[Hashlock].legs) :
            /\ IsLeg(leg, Chain, chain[b].id)
            /\ chain[b].kind = "LogRedeem" => leg.redeemed /\ tracker[Hashlock].preimage = Secret
            /\ chain[b].kind = "LogRefund" => leg.refunded
    BY DEF CursorInv, HeardOnTime, Heard, Held
  <1> QED BY <1>2, <1>3

LEMMA CursorHolds == Spec => []CursorInv
  <1>1. Init => IInv /\ CursorInv
    BY InitIInv, InitCursor
  <1>2. (IInv /\ CursorInv) /\ [Next]_vars => (IInv /\ CursorInv)'
    BY NextKeepsIInv, NextKeepsCursor
  <1> QED BY <1>1, <1>2, PTL DEF Spec

\* The variables of the observer keep their types, and neither the head it
\* has read nor its cursor is ahead of the highest block there ever was.
THEOREM ObserverTypeCorrect == Spec => []TypeOK
  <1>1. CursorInv => TypeOK
    BY DEF CursorInv
  <1> QED BY CursorHolds, <1>1, PTL

\* No event of the chain escapes the cursor, whatever reads fail, whatever
\* restarts and reorganisations come in between, but for the blocks that
\* replace others behind it: for any chain, ids and depths.
THEOREM CursorMissesNothing == Spec => []NothingMissed
  BY CursorHolds, NothingMissedIn, PTL
=============================================================================
