--------------------------- MODULE MaestroProofs ---------------------------
(***************************************************************************)
(* The watchdog is exact, for any set of legs on two chains and any        *)
(* interleaving of the chains, the polls and the restarts.  The inductive  *)
(* invariant says what the tracker holds in terms of the set of logs that  *)
(* the cursors have passed (Exact), and what the contract's rules say of   *)
(* the chains: nothing ends on them before it was locked.                  *)
(***************************************************************************)
EXTENDS Maestro, TrackerProofs, FiniteSetTheorems

LegIds == {leg[2] : leg \in Legs}
OurTrackers == Trackers(Hashlocks, Chains, LegIds, Preimages)

RedeemLog(id) == LogRedeem(id, PreimageOf(id))

\* The logs that chain c may hold.
LogsOf(c) == UNION {{LogNewSwap(leg[2]), RedeemLog(leg[2]), LogRefund(leg[2])} :
                    leg \in {l \in Legs : l[1] = c}}

\* Tracker t is what the logs saw[c] of each chain c come to.
LegsExact(t, saw) ==
    \A h \in Hashlocks : \A leg \in Held(t[h]) :
        /\ leg.id.hashlock = h
        /\ LogNewSwap(leg.id) \in saw[leg.chain]
        /\ leg.redeemed <=> RedeemLog(leg.id) \in saw[leg.chain]
        /\ leg.refunded <=> LogRefund(leg.id) \in saw[leg.chain]

LocksHeld(t, saw) ==
    \A c \in Chains, id \in LegIds :
        LogNewSwap(id) \in saw[c] => \E leg \in Held(t[id.hashlock]) : IsLeg(leg, c, id)

PreimagesExact(t, saw) ==
    \A h \in Hashlocks :
        t[h].preimage # NoPreimage <=>
            \E c \in Chains, id \in LegIds : id.hashlock = h /\ RedeemLog(id) \in saw[c]

EndsAreOfLocks(saw) ==
    \A c \in Chains, id \in LegIds :
        RedeemLog(id) \in saw[c] \/ LogRefund(id) \in saw[c] => LogNewSwap(id) \in saw[c]

Exact(t, saw) ==
    LegsExact(t, saw) /\ LocksHeld(t, saw) /\ PreimagesExact(t, saw) /\ EndsAreOfLocks(saw)

Saw == [c \in Chains |-> {blocks[c][i] : i \in 1..last[c] - 1}]

EndsFollowLocks ==
    \A c \in Chains : \A k \in DOMAIN blocks[c] :
        \E j \in 1..k : blocks[c][j] = LogNewSwap(blocks[c][k].id)

WatchInv ==
    /\ TypeOK
    /\ \A c \in Chains : blocks[c] \in Seq(LogsOf(c)) /\ heads[c] <= Len(blocks[c])
    /\ EndsFollowLocks
    /\ tracker \in OurTrackers
    /\ Exact(tracker, Saw)

-----------------------------------------------------------------------------
(* One log more *)

LEMMA IdFacts ==
    ASSUME NEW id \in LegIds
    PROVE  /\ id.hashlock \in Hashlocks
           /\ PreimageOf(id) \in Preimages /\ Sha256(PreimageOf(id)) = id.hashlock
  <1>1. id.hashlock \in Hashlocks
    BY MaestroConstants DEF LegIds
  <1>2. \E p \in Preimages : Sha256(p) = id.hashlock
    BY <1>1 DEF Hashlocks
  <1> QED BY <1>1, <1>2 DEF PreimageOf

LEMMA LogFacts ==
    ASSUME NEW id, NEW other
    PROVE  /\ LogNewSwap(id) # RedeemLog(other) /\ LogNewSwap(id) # LogRefund(other)
           /\ RedeemLog(id) # LogRefund(other)
           /\ LogNewSwap(id) = LogNewSwap(other) => id = other
           /\ RedeemLog(id) = RedeemLog(other) => id = other
           /\ LogRefund(id) = LogRefund(other) => id = other
           /\ LogNewSwap(id).id = id /\ RedeemLog(id).id = id /\ LogRefund(id).id = id
  BY DEF LogNewSwap, RedeemLog, LogRedeem, LogRefund

LEMMA LogKinds ==
    ASSUME NEW c, NEW log \in LogsOf(c)
    PROVE  \E leg \in Legs :
              /\ leg[1] = c /\ leg[2] \in LegIds /\ log.id = leg[2]
              /\ log \in {LogNewSwap(leg[2]), RedeemLog(leg[2]), LogRefund(leg[2])}
  <1>1. PICK leg \in Legs :
            leg[1] = c /\ log \in {LogNewSwap(leg[2]), RedeemLog(leg[2]), LogRefund(leg[2])}
    BY DEF LogsOf
  <1> QED BY <1>1, LogFacts DEF LegIds

LEMMA HeldTypes ==
    ASSUME NEW t \in OurTrackers, NEW h \in Hashlocks, NEW leg \in Held(t[h])
    PROVE  leg \in LegsOn(Chains, LegIds) /\ leg.chain \in Chains /\ leg.id \in LegIds
           /\ leg.redeemed \in BOOLEAN /\ leg.refunded \in BOOLEAN
  <1>1. leg \in LegsOn(Chains, LegIds)
    BY DEF OurTrackers, Trackers, Held, ToSet
  <1> QED BY <1>1 DEF LegsOn

\* The logs of chain c with one more.
More(saw, c, log) == [saw EXCEPT ![c] = @ \cup {log}]

LEMMA MoreIs ==
    ASSUME NEW S, NEW saw \in [Chains -> S], NEW c \in Chains, NEW log
    PROVE  \A d \in Chains : \A x : x \in More(saw, c, log)[d] <=> x \in saw[d] \/ (d = c /\ x = log)
  BY DEF More

LEMMA LockIsExact ==
    ASSUME NEW t \in OurTrackers, NEW S, NEW saw \in [Chains -> S], Exact(t, saw),
           NEW c \in Chains, NEW id \in LegIds,
           NEW after, after = OnLog(t, c, LogNewSwap(id))
    PROVE  after \in OurTrackers /\ Exact(after, More(saw, c, LogNewSwap(id)))
  <1> DEFINE now == More(saw, c, LogNewSwap(id))
  <1>1. id.hashlock \in Hashlocks
    BY IdFacts
  <1>2. /\ after \in OurTrackers
        /\ \A h \in Hashlocks : after[h].preimage = t[h].preimage
        /\ \A h \in Hashlocks : h # id.hashlock => after[h] = t[h]
        /\ Held(after[id.hashlock]) =
              IF \E leg \in Held(t[id.hashlock]) : IsLeg(leg, c, id)
              THEN Held(t[id.hashlock])
              ELSE Held(t[id.hashlock]) \cup {NewLeg(c, id)}
    <2> DEFINE h0 == id.hashlock
    <2> HIDE DEF h0
    <2>1. h0 \in Hashlocks /\ h0 = id.hashlock
      BY <1>1 DEF h0
    <2>2. /\ after \in OurTrackers
          /\ \A h \in Hashlocks : after[h].preimage = t[h].preimage
          /\ \A h \in Hashlocks : h # h0 => after[h] = t[h]
          /\ LockSeen(t, after, h0, c, id)
      BY <2>1, NewSwapHeld DEF OurTrackers
    <2> QED BY <2>2 DEF h0, LockSeen
  <1>3. \A d \in Chains : \A x : x \in now[d] <=> x \in saw[d] \/ (d = c /\ x = LogNewSwap(id))
    BY MoreIs
  <1> HIDE DEF now
  <1>4. \A d \in Chains : \A other :
            /\ RedeemLog(other) \in now[d] <=> RedeemLog(other) \in saw[d]
            /\ LogRefund(other) \in now[d] <=> LogRefund(other) \in saw[d]
    BY <1>3, LogFacts
  <1>5. LegsExact(after, now)
    <2> SUFFICES ASSUME NEW h \in Hashlocks, NEW leg \in Held(after[h])
                 PROVE  /\ leg.id.hashlock = h
                        /\ LogNewSwap(leg.id) \in now[leg.chain]
                        /\ leg.redeemed <=> RedeemLog(leg.id) \in now[leg.chain]
                        /\ leg.refunded <=> LogRefund(leg.id) \in now[leg.chain]
      BY DEF LegsExact
    <2>1. CASE leg \in Held(t[h])
      <3>1. leg.chain \in Chains
        BY <2>1, HeldTypes
      <3>2. /\ leg.id.hashlock = h
            /\ LogNewSwap(leg.id) \in saw[leg.chain]
            /\ leg.redeemed <=> RedeemLog(leg.id) \in saw[leg.chain]
            /\ leg.refunded <=> LogRefund(leg.id) \in saw[leg.chain]
        BY <2>1 DEF Exact, LegsExact
      <3> QED BY <1>3, <1>4, <3>1, <3>2
    <2>2. CASE /\ h = id.hashlock /\ leg = NewLeg(c, id)
               /\ ~\E l \in Held(t[id.hashlock]) : IsLeg(l, c, id)
      <3>1. leg.chain = c /\ leg.id = id /\ leg.redeemed = FALSE /\ leg.refunded = FALSE
        BY <2>2 DEF NewLeg
      <3>2. RedeemLog(id) \notin saw[c] /\ LogRefund(id) \notin saw[c]
        BY <2>2 DEF Exact, EndsAreOfLocks, LocksHeld
      <3> QED BY <1>3, <1>4, <2>2, <3>1, <3>2
    <2> QED BY <1>2, <2>1, <2>2
  <1>6. LocksHeld(after, now)
    <2> SUFFICES ASSUME NEW d \in Chains, NEW other \in LegIds, LogNewSwap(other) \in now[d]
                 PROVE  \E leg \in Held(after[other.hashlock]) : IsLeg(leg, d, other)
      BY DEF LocksHeld
    <2>1. other.hashlock \in Hashlocks
      BY IdFacts
    <2>2. CASE d = c /\ other = id
      <3>1. IsLeg(NewLeg(c, id), c, id)
        BY DEF IsLeg, NewLeg
      <3> QED BY <1>2, <2>2, <3>1, Zenon
    <2>3. CASE LogNewSwap(other) \in saw[d]
      <3>1. PICK leg \in Held(t[other.hashlock]) : IsLeg(leg, d, other)
        BY <2>3 DEF Exact, LocksHeld
      <3>2. leg \in Held(after[other.hashlock])
        BY <1>2, <2>1, <3>1
      <3> QED BY <3>1, <3>2
    <2> QED BY <1>3, <2>2, <2>3, LogFacts
  <1>7. PreimagesExact(after, now)
    BY <1>2, <1>4 DEF Exact, PreimagesExact
  <1>8. EndsAreOfLocks(now)
    BY <1>3, <1>4 DEF Exact, EndsAreOfLocks
  <1> QED BY <1>2, <1>5, <1>6, <1>7, <1>8 DEF Exact, now

LEMMA RedeemIsExact ==
    ASSUME NEW t \in OurTrackers, NEW S, NEW saw \in [Chains -> S], Exact(t, saw),
           NEW c \in Chains, NEW id \in LegIds, LogNewSwap(id) \in saw[c],
           NEW after, after = OnLog(t, c, RedeemLog(id))
    PROVE  after \in OurTrackers /\ Exact(after, More(saw, c, RedeemLog(id)))
  <1> DEFINE now == More(saw, c, RedeemLog(id))
             h0 == id.hashlock
             p0 == PreimageOf(id)
  <1>1. h0 \in Hashlocks /\ p0 \in Preimages /\ h0 = Sha256(p0)
    BY IdFacts
  <1>2. after = OnLog(t, c, LogRedeem(id, p0))
    BY DEF RedeemLog
  <1>3. \A d \in Chains : \A x : x \in now[d] <=> x \in saw[d] \/ (d = c /\ x = RedeemLog(id))
    BY MoreIs
  <1>4. \E leg \in Held(t[h0]) : IsLeg(leg, c, id)
    BY DEF Exact, LocksHeld
  <1> HIDE DEF now, h0, p0
  <1>5. /\ after \in OurTrackers
        /\ \A h \in Hashlocks : h # h0 => after[h] = t[h]
        /\ RedeemSeen(t, after, h0, c, id, p0)
    BY <1>1, <1>2, RedeemHeld DEF OurTrackers
  <1>6. /\ after[h0].preimage = p0
        /\ Held(after[h0]) = {SeeRedeem(leg, c, id) : leg \in Held(t[h0])}
    BY <1>4, <1>5 DEF RedeemSeen
  <1>7. \A d \in Chains : \A other :
            /\ LogNewSwap(other) \in now[d] <=> LogNewSwap(other) \in saw[d]
            /\ LogRefund(other) \in now[d] <=> LogRefund(other) \in saw[d]
            /\ RedeemLog(other) \in now[d] <=>
                  RedeemLog(other) \in saw[d] \/ (d = c /\ other = id)
    BY <1>3, LogFacts
  <1>8. \A h \in Hashlocks : \A leg \in Held(t[h]) :
            /\ leg.chain \in Chains
            /\ leg.id.hashlock = h
            /\ LogNewSwap(leg.id) \in saw[leg.chain]
            /\ leg.redeemed <=> RedeemLog(leg.id) \in saw[leg.chain]
            /\ leg.refunded <=> LogRefund(leg.id) \in saw[leg.chain]
    BY HeldTypes DEF Exact, LegsExact
  <1>9. ASSUME NEW leg \in Held(t[h0])
        PROVE  LET new == SeeRedeem(leg, c, id)
               IN  /\ new.chain = leg.chain /\ new.id = leg.id
                   /\ new.refunded = leg.refunded
                   /\ new.redeemed <=> leg.redeemed \/ (leg.chain = c /\ leg.id = id)
    <2>1. leg \in LegsOn(Chains, LegIds)
      BY <1>1, HeldTypes
    <2> QED BY <2>1 DEF SeeRedeem, LegsOn, IsLeg
  <1>10. LegsExact(after, now)
    <2> SUFFICES ASSUME NEW h \in Hashlocks, NEW new \in Held(after[h])
                 PROVE  /\ new.id.hashlock = h
                        /\ LogNewSwap(new.id) \in now[new.chain]
                        /\ new.redeemed <=> RedeemLog(new.id) \in now[new.chain]
                        /\ new.refunded <=> LogRefund(new.id) \in now[new.chain]
      BY DEF LegsExact
    <2>1. CASE h = h0
      <3>1. PICK leg \in Held(t[h0]) : new = SeeRedeem(leg, c, id)
        BY <1>6, <2>1
      <3>2. /\ new.chain = leg.chain /\ new.id = leg.id
            /\ new.refunded = leg.refunded
            /\ new.redeemed <=> leg.redeemed \/ (leg.chain = c /\ leg.id = id)
        BY <1>9, <3>1
      <3> QED BY <1>1, <1>7, <1>8, <2>1, <3>2
    <2>2. CASE h # h0
      <3>1. new \in Held(t[h])
        BY <1>5, <2>2
      <3>2. new.id # id
        BY <1>8, <2>2, <3>1 DEF h0
      <3> QED BY <1>7, <1>8, <3>1, <3>2
    <2> QED BY <2>1, <2>2
  <1>11. LocksHeld(after, now)
    <2> SUFFICES ASSUME NEW d \in Chains, NEW other \in LegIds, LogNewSwap(other) \in saw[d]
                 PROVE  \E leg \in Held(after[other.hashlock]) : IsLeg(leg, d, other)
      BY <1>7 DEF LocksHeld
    <2>1. PICK leg \in Held(t[other.hashlock]) : IsLeg(leg, d, other)
      BY DEF Exact, LocksHeld
    <2>2. CASE other.hashlock = h0
      <3>1. SeeRedeem(leg, c, id) \in Held(after[h0])
        BY <1>6, <2>1, <2>2
      <3>2. IsLeg(SeeRedeem(leg, c, id), d, other)
        BY <1>9, <2>1, <2>2 DEF IsLeg
      <3> QED BY <2>2, <3>1, <3>2
    <2>3. CASE other.hashlock # h0
      BY <1>5, <2>1, <2>3, IdFacts
    <2> QED BY <2>2, <2>3
  <1>12. PreimagesExact(after, now)
    <2> SUFFICES ASSUME NEW h \in Hashlocks
                 PROVE  after[h].preimage # NoPreimage <=>
                          \E d \in Chains, other \in LegIds :
                              other.hashlock = h /\ RedeemLog(other) \in now[d]
      BY DEF PreimagesExact
    <2>1. CASE h = h0
      <3>1. p0 # NoPreimage
        BY <1>1, MaestroConstants
      <3>2. id.hashlock = h /\ RedeemLog(id) \in now[c]
        BY <1>7, <2>1 DEF h0
      <3> QED BY <1>6, <2>1, <3>1, <3>2
    <2>2. CASE h # h0
      <3>1. after[h].preimage = t[h].preimage
        BY <1>5, <2>2
      <3>2. \A d \in Chains, other \in LegIds :
                other.hashlock = h => (RedeemLog(other) \in now[d] <=> RedeemLog(other) \in saw[d])
        BY <1>7, <2>2 DEF h0
      <3> QED BY <3>1, <3>2 DEF Exact, PreimagesExact
    <2> QED BY <2>1, <2>2
  <1>13. EndsAreOfLocks(now)
    BY <1>7 DEF Exact, EndsAreOfLocks
  <1> QED BY <1>5, <1>10, <1>11, <1>12, <1>13 DEF Exact, now

LEMMA RefundIsExact ==
    ASSUME NEW t \in OurTrackers, NEW S, NEW saw \in [Chains -> S], Exact(t, saw),
           NEW c \in Chains, NEW id \in LegIds, LogNewSwap(id) \in saw[c],
           NEW after, after = OnLog(t, c, LogRefund(id))
    PROVE  after \in OurTrackers /\ Exact(after, More(saw, c, LogRefund(id)))
  <1> DEFINE now == More(saw, c, LogRefund(id))
  <1>1. /\ after \in OurTrackers
        /\ \A h \in Hashlocks : /\ after[h].preimage = t[h].preimage
                                /\ Held(after[h]) = {SeeRefund(leg, c, id) : leg \in Held(t[h])}
    <2>1. after \in OurTrackers /\ \A h \in Hashlocks : RefundSeen(t, after, h, c, id)
      BY RefundHeld DEF OurTrackers
    <2> QED BY <2>1 DEF RefundSeen
  <1>2. \A d \in Chains : \A x : x \in now[d] <=> x \in saw[d] \/ (d = c /\ x = LogRefund(id))
    BY MoreIs
  <1> HIDE DEF now
  <1>3. \A d \in Chains : \A other :
            /\ LogNewSwap(other) \in now[d] <=> LogNewSwap(other) \in saw[d]
            /\ RedeemLog(other) \in now[d] <=> RedeemLog(other) \in saw[d]
            /\ LogRefund(other) \in now[d] <=>
                  LogRefund(other) \in saw[d] \/ (d = c /\ other = id)
    BY <1>2, LogFacts
  <1>4. ASSUME NEW h \in Hashlocks, NEW leg \in Held(t[h])
        PROVE  LET new == SeeRefund(leg, c, id)
               IN  /\ new.chain = leg.chain /\ new.id = leg.id
                   /\ new.redeemed = leg.redeemed
                   /\ new.refunded <=> leg.refunded \/ (leg.chain = c /\ leg.id = id)
    <2>1. leg \in LegsOn(Chains, LegIds)
      BY HeldTypes
    <2> QED BY <2>1 DEF SeeRefund, LegsOn, IsLeg
  <1>5. LegsExact(after, now)
    <2> SUFFICES ASSUME NEW h \in Hashlocks, NEW new \in Held(after[h])
                 PROVE  /\ new.id.hashlock = h
                        /\ LogNewSwap(new.id) \in now[new.chain]
                        /\ new.redeemed <=> RedeemLog(new.id) \in now[new.chain]
                        /\ new.refunded <=> LogRefund(new.id) \in now[new.chain]
      BY DEF LegsExact
    <2>1. PICK leg \in Held(t[h]) : new = SeeRefund(leg, c, id)
      BY <1>1
    <2>2. /\ new.chain = leg.chain /\ new.id = leg.id
          /\ new.redeemed = leg.redeemed
          /\ new.refunded <=> leg.refunded \/ (leg.chain = c /\ leg.id = id)
      BY <1>4, <2>1
    <2>3. /\ leg.chain \in Chains
          /\ leg.id.hashlock = h
          /\ LogNewSwap(leg.id) \in saw[leg.chain]
          /\ leg.redeemed <=> RedeemLog(leg.id) \in saw[leg.chain]
          /\ leg.refunded <=> LogRefund(leg.id) \in saw[leg.chain]
      BY HeldTypes DEF Exact, LegsExact
    <2> QED BY <1>3, <2>2, <2>3
  <1>6. LocksHeld(after, now)
    <2> SUFFICES ASSUME NEW d \in Chains, NEW other \in LegIds, LogNewSwap(other) \in saw[d]
                 PROVE  \E leg \in Held(after[other.hashlock]) : IsLeg(leg, d, other)
      BY <1>3 DEF LocksHeld
    <2>1. other.hashlock \in Hashlocks
      BY IdFacts
    <2>2. PICK leg \in Held(t[other.hashlock]) : IsLeg(leg, d, other)
      BY DEF Exact, LocksHeld
    <2>3. SeeRefund(leg, c, id) \in Held(after[other.hashlock])
      BY <1>1, <2>1, <2>2
    <2>4. IsLeg(SeeRefund(leg, c, id), d, other)
      BY <1>4, <2>1, <2>2 DEF IsLeg
    <2> QED BY <2>3, <2>4
  <1>7. PreimagesExact(after, now)
    BY <1>1, <1>3 DEF Exact, PreimagesExact
  <1>8. EndsAreOfLocks(now)
    BY <1>3 DEF Exact, EndsAreOfLocks
  <1> QED BY <1>1, <1>5, <1>6, <1>7, <1>8 DEF Exact, now

LEMMA LogIsExact ==
    ASSUME NEW t \in OurTrackers, NEW S, NEW saw \in [Chains -> S], Exact(t, saw),
           NEW c \in Chains, NEW log \in LogsOf(c),
           log = LogNewSwap(log.id) \/ LogNewSwap(log.id) \in saw[c],
           NEW after, after = OnLog(t, c, log)
    PROVE  after \in OurTrackers /\ Exact(after, More(saw, c, log))
  <1>1. PICK leg \in Legs : /\ leg[2] \in LegIds /\ log.id = leg[2]
                            /\ log \in {LogNewSwap(leg[2]), RedeemLog(leg[2]), LogRefund(leg[2])}
    BY LogKinds
  <1>2. CASE log = LogNewSwap(leg[2])
    BY <1>1, <1>2, LockIsExact
  <1>3. CASE log = RedeemLog(leg[2])
    <2>1. LogNewSwap(leg[2]) \in saw[c]
      BY <1>1, <1>3, LogFacts
    <2> QED BY <1>1, <1>3, <2>1, RedeemIsExact
  <1>4. CASE log = LogRefund(leg[2])
    <2>1. LogNewSwap(leg[2]) \in saw[c]
      BY <1>1, <1>4, LogFacts
    <2> QED BY <1>1, <1>4, <2>1, RefundIsExact
  <1> QED BY <1>1, <1>2, <1>3, <1>4

\* The logs of the first k blocks of a chain.
FirstLogs(log, k) == {log[i] : i \in 1..k}

\* A poll of blocks from..to after all those before from is exact again.
LEMMA PollIsExact ==
    ASSUME NEW t \in OurTrackers, NEW S, NEW saw \in [Chains -> S], Exact(t, saw),
           NEW c \in Chains, NEW log \in Seq(LogsOf(c)),
           \A k \in 1..Len(log) : \E j \in 1..k : log[j] = LogNewSwap(log[k].id),
           NEW from \in Nat \ {0}, NEW to \in Nat, to <= Len(log), from <= to + 1,
           saw[c] = FirstLogs(log, from - 1),
           NEW after, after = PollIntoTracker(t, c, SubSeq(log, from, to))
    PROVE  after \in OurTrackers /\ Exact(after, [saw EXCEPT ![c] = FirstLogs(log, to)])
  <1> DEFINE logs == SubSeq(log, from, to)
             n == Len(logs)
             now(k) == [saw EXCEPT ![c] = FirstLogs(log, from - 1 + k)]
  <1>1. logs \in Seq(LogsOf(c)) /\ n = to - from + 1 /\ n \in Nat
    OBVIOUS
  <1>2. \A k \in 1..n : logs[k] = log[from - 1 + k] /\ from - 1 + k \in 1..Len(log)
    OBVIOUS
  <1>3. PICK run : IsPoll(run, t, c, logs) /\ after = run[n]
    <2>1. after = PollIntoTracker(t, c, logs)
      OBVIOUS
    <2> HIDE DEF logs
    <2> QED BY <1>1, <2>1, PollRuns
  <1>4. run[0] = t /\ \A k \in 1..n : run[k] = OnLog(run[k - 1], c, logs[k])
    BY <1>3 DEF IsPoll
  <1> HIDE DEF logs, n
  <1>5. now(0) = saw
    <2>1. from - 1 + 0 = from - 1
      OBVIOUS
    <2> QED BY <2>1
  <1>6. ASSUME NEW k \in 1..n, run[k - 1] \in OurTrackers, Exact(run[k - 1], now(k - 1))
        PROVE  run[k] \in OurTrackers /\ Exact(run[k], now(k))
    <2> DEFINE m == from - 1 + k
    <2>1. m \in 1..Len(log) /\ m - 1 \in Nat /\ logs[k] = log[m] /\ from - 1 + (k - 1) = m - 1
      BY <1>2
    <2>2. log[m] \in LogsOf(c)
      BY <2>1
    <2>3. PICK j \in 1..m : log[j] = LogNewSwap(log[m].id)
      BY <2>1
    <2> HIDE DEF m
    <2>4. 1..m = (1..m - 1) \cup {m}
      BY <2>1
    <2>5. FirstLogs(log, m) = FirstLogs(log, m - 1) \cup {log[m]}
      BY <2>4 DEF FirstLogs
    <2>6. now(k) = [saw EXCEPT ![c] = FirstLogs(log, m)]
          /\ now(k - 1) = [saw EXCEPT ![c] = FirstLogs(log, m - 1)]
      BY <2>1 DEF m
    <2> DEFINE before == now(k - 1)
               R == S \cup {FirstLogs(log, m - 1)}
    <2>7. before[c] = FirstLogs(log, m - 1) /\ before \in [Chains -> R]
      BY <2>6
    <2>8. now(k) = More(before, c, log[m])
      BY <2>5, <2>6, <2>7 DEF More
    <2>9. log[m] = LogNewSwap(log[m].id) \/ LogNewSwap(log[m].id) \in before[c]
      <3>1. j \in 1..m - 1 \/ j = m
        BY <2>4
      <3> QED BY <2>3, <2>7, <3>1 DEF FirstLogs
    <2>10. run[k] = OnLog(run[k - 1], c, log[m]) /\ Exact(run[k - 1], before)
      BY <1>4, <1>6, <2>1
    <2> HIDE DEF before, now, R
    <2>11. run[k] \in OurTrackers /\ Exact(run[k], More(before, c, log[m]))
      BY <1>6, <2>2, <2>7, <2>9, <2>10, LogIsExact
    <2> QED BY <2>8, <2>11
  <1>7. \A k \in 0..n : run[k] \in OurTrackers /\ Exact(run[k], now(k))
    <2> DEFINE Bad == {k \in 0..n : ~(run[k] \in OurTrackers /\ Exact(run[k], now(k)))}
    <2> SUFFICES ASSUME Bad # {} PROVE FALSE
      OBVIOUS
    <2>1. Bad \subseteq Nat
      BY <1>1
    <2>2. PICK k \in Bad : \A m \in Bad : k <= m
      <3> HIDE DEF Bad
      <3> QED BY <2>1, LeastNat
    <2> HIDE DEF now
    <2>3. k # 0
      BY <1>4, <1>5
    <2>4. k \in 1..n /\ k - 1 \in 0..n /\ k - 1 \notin Bad
      BY <1>1, <2>2, <2>3
    <2>5. run[k - 1] \in OurTrackers /\ Exact(run[k - 1], now(k - 1))
      BY <2>4
    <2> QED BY <1>6, <2>4, <2>5
  <1>8. from - 1 + n = to /\ n \in 0..n
    BY <1>1
  <1>9. now(n) = [saw EXCEPT ![c] = FirstLogs(log, to)]
    BY <1>8
  <1> HIDE DEF now
  <1> QED BY <1>3, <1>7, <1>8, <1>9

-----------------------------------------------------------------------------
(* The invariant *)

LEMMA EmptyIsExact ==
    ASSUME NEW saw, \A c \in Chains : saw[c] = {}
    PROVE  NewTracker \in OurTrackers /\ Exact(NewTracker, saw)
  <1>1. NewTracker \in OurTrackers
    BY DEF NewTracker, NoEntry, OurTrackers, Trackers
  <1>2. \A h \in Hashlocks : Held(NewTracker[h]) = {} /\ NewTracker[h].preimage = NoPreimage
    BY DEF NewTracker, NoEntry, Held, ToSet
  <1>3. LegsExact(NewTracker, saw)
    BY <1>2 DEF LegsExact
  <1>4. LocksHeld(NewTracker, saw) /\ EndsAreOfLocks(saw)
    BY DEF LocksHeld, EndsAreOfLocks
  <1>5. PreimagesExact(NewTracker, saw)
    BY <1>2 DEF PreimagesExact
  <1> QED BY <1>1, <1>3, <1>4, <1>5 DEF Exact

LEMMA InitWatch == Init => WatchInv
  <1> SUFFICES ASSUME Init PROVE WatchInv OBVIOUS
  <1>1. \A c \in Chains : blocks[c] = <<>> /\ blocks[c] \in Seq(LogsOf(c)) /\ Len(blocks[c]) = 0
                         /\ heads[c] = 0 /\ last[c] = 0 /\ DOMAIN blocks[c] = {}
    BY DEF Init, NoHeads
  <1>2. TypeOK
    BY <1>1, MaestroConstants DEF Init, TypeOK, NoHeads, NewTracker
  <1>3. EndsFollowLocks
    BY <1>1 DEF EndsFollowLocks
  <1>4. NewTracker \in OurTrackers /\ Exact(NewTracker, Saw)
    <2>1. \A c \in Chains : Saw[c] = {}
      BY <1>1 DEF Saw
    <2> QED BY <2>1, EmptyIsExact
  <1> QED BY <1>1, <1>2, <1>3, <1>4 DEF WatchInv, Init

\* Some contract emits a log on chain c: what the cursors passed stays.
LEMMA EmitKeepsWatch ==
    ASSUME WatchInv, NEW c \in Chains, NEW log \in LogsOf(c), Emit(c, log),
           log = LogNewSwap(log.id) \/ Contains(blocks[c], LogNewSwap(log.id))
    PROVE  WatchInv'
  <1>1. blocks' = [blocks EXCEPT ![c] = Append(@, log)]
        /\ UNCHANGED <<clock, pc, heads, last, tracker, alarms>>
    BY DEF Emit
  <1>2. \A d \in Chains : blocks[d] \in Seq(LogsOf(d)) /\ Len(blocks[d]) \in Nat
                         /\ DOMAIN blocks[d] = 1..Len(blocks[d])
    BY DEF WatchInv
  <1>3. DOMAIN blocks = Chains /\ blocks'[c] = Append(blocks[c], log)
        /\ \A d \in Chains : d # c => blocks'[d] = blocks[d]
    BY <1>1 DEF WatchInv, TypeOK
  <1>4. \A d \in Chains :
            /\ blocks'[d] \in Seq(LogsOf(d)) /\ Len(blocks'[d]) \in Nat
            /\ Len(blocks[d]) <= Len(blocks'[d])
            /\ \A i \in 1..Len(blocks[d]) : blocks'[d][i] = blocks[d][i]
    <2> SUFFICES ASSUME NEW d \in Chains
                 PROVE  /\ blocks'[d] \in Seq(LogsOf(d)) /\ Len(blocks'[d]) \in Nat
                        /\ Len(blocks[d]) <= Len(blocks'[d])
                        /\ \A i \in 1..Len(blocks[d]) : blocks'[d][i] = blocks[d][i]
      OBVIOUS
    <2>1. CASE d # c
      BY <1>2, <1>3, <2>1
    <2>2. CASE d = c
      <3> DEFINE s == blocks[c]
                 L == LogsOf(c)
      <3>1. s \in Seq(L) /\ log \in L
        BY <1>2
      <3> HIDE DEF s, L
      <3>2. /\ Append(s, log) \in Seq(L) /\ Len(Append(s, log)) \in Nat
            /\ Len(s) <= Len(Append(s, log))
            /\ \A i \in 1..Len(s) : Append(s, log)[i] = s[i]
        BY <3>1
      <3> QED BY <1>3, <2>2, <3>2 DEF s, L
    <2> QED BY <2>1, <2>2
  <1>5. \A d \in Chains : heads[d] \in Nat /\ last[d] \in Nat
                         /\ heads[d] <= Len(blocks[d]) /\ last[d] <= Len(blocks[d]) + 1
    BY DEF WatchInv, TypeOK
  <1>6. \A d \in Chains : heads[d] <= Len(blocks'[d]) /\ last[d] <= Len(blocks'[d]) + 1
    BY <1>2, <1>4, <1>5
  <1>7. TypeOK'
    <2>1. DOMAIN blocks' = Chains
      BY <1>1, <1>3
    <2> QED BY <1>1, <1>6, <2>1 DEF WatchInv, TypeOK
  <1>8. EndsFollowLocks'
    <2> SUFFICES ASSUME NEW d \in Chains, NEW k \in DOMAIN blocks'[d]
                 PROVE  \E j \in 1..k : blocks'[d][j] = LogNewSwap(blocks'[d][k].id)
      BY DEF EndsFollowLocks, LogNewSwap
    <2>1. CASE k \in 1..Len(blocks[d])
      <3>1. PICK j \in 1..k : blocks[d][j] = LogNewSwap(blocks[d][k].id)
        BY <1>2, <2>1 DEF WatchInv, EndsFollowLocks
      <3>2. j \in 1..Len(blocks[d])
        BY <1>2, <2>1
      <3> QED BY <1>4, <2>1, <3>1, <3>2
    <2>2. CASE k \notin 1..Len(blocks[d])
      <3>1. d = c
        BY <1>2, <1>3, <2>2
      <3>2. k = Len(blocks[c]) + 1 /\ blocks'[c][k] = log
        BY <1>2, <1>3, <2>2, <3>1
      <3>3. CASE log = LogNewSwap(log.id)
        <4>1. k \in 1..k
          BY <1>2, <3>2
        <4> QED BY <3>1, <3>2, <3>3, <4>1
      <3>4. CASE Contains(blocks[c], LogNewSwap(log.id))
        <4>1. PICK j \in 1..Len(blocks[c]) : blocks[c][j] = LogNewSwap(log.id)
          BY <3>4 DEF Contains
        <4>2. j \in 1..k
          BY <1>2, <3>2
        <4> QED BY <1>4, <3>1, <3>2, <4>1, <4>2
      <3> QED BY <3>3, <3>4
    <2> QED BY <2>1, <2>2
  <1>9. Saw' = Saw
    <2>1. ASSUME NEW d \in Chains
          PROVE  {blocks'[d][i] : i \in 1..last[d] - 1} = {blocks[d][i] : i \in 1..last[d] - 1}
      <3>1. \A i \in 1..last[d] - 1 : i \in 1..Len(blocks[d])
        BY <1>2, <1>5
      <3> QED BY <1>4, <3>1
    <2> QED BY <1>1, <2>1 DEF Saw
  <1>10. tracker' \in OurTrackers /\ Exact(tracker', Saw')
    BY <1>1, <1>9 DEF WatchInv
  <1> QED BY <1>1, <1>4, <1>6, <1>7, <1>8, <1>10 DEF WatchInv

\* A step that leaves the chains alone.
LEMMA SameBlocksKeep ==
    ASSUME WatchInv, TypeOK', blocks' = blocks,
           \A c \in Chains : heads'[c] <= Len(blocks[c]),
           tracker' \in OurTrackers, Exact(tracker', Saw')
    PROVE  WatchInv'
  <1>1. EndsFollowLocks'
    BY DEF WatchInv, EndsFollowLocks, LogNewSwap
  <1> QED BY <1>1 DEF WatchInv

LEMMA PollKeepsWatch ==
    ASSUME WatchInv, NEW c \in Chains, NEW here,
           NEW next \in {"headA", "headB", "pollA", "pollB", "report"}, Poll(c, here, next)
    PROVE  WatchInv'
  <1>1. blocks' = blocks /\ clock' = clock /\ heads' = heads /\ alarms' = alarms /\ pc' = next
    BY DEF Poll, chainVars
  <1>2. \A d \in Chains : /\ heads[d] \in Nat /\ last[d] \in Nat
                         /\ heads[d] <= Len(blocks[d]) /\ Len(blocks[d]) \in Nat
                         /\ blocks[d] \in Seq(LogsOf(d)) /\ DOMAIN blocks[d] = 1..Len(blocks[d])
    BY DEF WatchInv, TypeOK
  <1>3. CASE heads[c] >= last[c]
    <2> DEFINE from == IF last[c] = 0 THEN 1 ELSE last[c]
               to == heads[c]
               log == blocks[c]
               S == {Saw[d] : d \in Chains}
    <2>1. /\ tracker' = PollIntoTracker(tracker, c, SubSeq(log, from, to))
          /\ last' = [last EXCEPT ![c] = to + 1]
      BY <1>3 DEF Poll, Fetched, LogsBetween
    <2>2. from \in Nat \ {0} /\ to \in Nat /\ to <= Len(log) /\ from <= to + 1
      BY <1>2, <1>3
    <2>3. 1..last[c] - 1 = 1..from - 1
      BY <1>2
    <2>4. Saw \in [Chains -> S]
      BY DEF Saw
    <2>5. Saw[c] = FirstLogs(log, from - 1)
      BY <2>3 DEF Saw, FirstLogs
    <2>6. \A k \in 1..Len(log) : \E j \in 1..k : log[j] = LogNewSwap(log[k].id)
      BY <1>2 DEF WatchInv, EndsFollowLocks
    <2>7. log \in Seq(LogsOf(c)) /\ tracker \in OurTrackers /\ Exact(tracker, Saw)
      BY <1>2 DEF WatchInv
    <2> HIDE DEF from, to, log, S
    <2>8. tracker' \in OurTrackers /\ Exact(tracker', [Saw EXCEPT ![c] = FirstLogs(log, to)])
      BY <2>1, <2>2, <2>4, <2>5, <2>6, <2>7, PollIsExact
    <2>9. Saw' = [Saw EXCEPT ![c] = FirstLogs(log, to)]
      <3>1. to + 1 - 1 = to
        BY <2>2
      <3>2. last \in [Chains -> Nat]
        BY DEF WatchInv, TypeOK
      <3>3. \A d \in Chains : last'[d] = IF d = c THEN to + 1 ELSE last[d]
        BY <2>1, <3>2
      <3>4. \A d \in Chains : {blocks[d][i] : i \in 1..last'[d] - 1} =
                                IF d = c THEN FirstLogs(log, to) ELSE Saw[d]
        <4> TAKE d \in Chains
        <4>1. CASE d = c
          <5>1. last'[d] = to + 1
            BY <3>3, <4>1
          <5>2. last'[d] - 1 = to
            BY <2>2, <5>1
          <5> QED BY <4>1, <5>2 DEF FirstLogs, log
        <4>2. CASE d # c
          BY <3>3, <4>2 DEF Saw
        <4> QED BY <4>1, <4>2
      <3> QED BY <1>1, <3>4 DEF Saw
    <2>10. TypeOK'
      <3>1. last' \in [Chains -> Nat] /\ \A d \in Chains : last'[d] <= Len(blocks[d]) + 1
        BY <1>2, <2>1, <2>2 DEF WatchInv, TypeOK, log
      <3>2. DOMAIN tracker' = Hashlocks
        BY <2>8 DEF OurTrackers, Trackers
      <3> QED BY <1>1, <3>1, <3>2 DEF WatchInv, TypeOK
    <2> QED BY <1>1, <1>2, <2>8, <2>9, <2>10, SameBlocksKeep
  <1>4. CASE ~(heads[c] >= last[c])
    <2>1. tracker' = tracker /\ last' = last
      BY <1>4 DEF Poll
    <2>2. TypeOK'
      BY <1>1, <2>1 DEF WatchInv, TypeOK
    <2>3. Saw' = Saw
      BY <1>1, <2>1 DEF Saw
    <2> QED BY <1>1, <1>2, <2>1, <2>2, <2>3, SameBlocksKeep DEF WatchInv
  <1> QED BY <1>3, <1>4

LEMMA AlarmTypes ==
    ASSUME WatchInv, NEW now
    PROVE  TimedOut(tracker, now) \subseteq (Hashlocks \X Chains \X LegIds)
  <1> SUFFICES ASSUME NEW alarm \in TimedOut(tracker, now)
               PROVE  alarm \in Hashlocks \X Chains \X LegIds
    OBVIOUS
  <1>1. tracker \in OurTrackers /\ DOMAIN tracker = Hashlocks
    BY DEF WatchInv, TypeOK
  <1>2. PICK h \in Hashlocks : \E leg \in Held(tracker[h]) : alarm = <<h, leg.chain, leg.id>>
    BY <1>1 DEF TimedOut, Held
  <1>3. PICK leg \in Held(tracker[h]) : alarm = <<h, leg.chain, leg.id>>
    BY <1>2
  <1>4. leg.chain \in Chains /\ leg.id \in LegIds
    BY <1>1, <1>3, HeldTypes
  <1> QED BY <1>3, <1>4

LEMMA NextKeepsWatch == WatchInv /\ [Next]_vars => WatchInv'
  <1> SUFFICES ASSUME WatchInv, [Next]_vars PROVE WatchInv' OBVIOUS
  <1>1. ASSUME NEW leg \in Legs
        PROVE  /\ leg[1] \in Chains
               /\ LogNewSwap(leg[2]) \in LogsOf(leg[1]) /\ RedeemLog(leg[2]) \in LogsOf(leg[1])
               /\ LogRefund(leg[2]) \in LogsOf(leg[1])
    BY MaestroConstants DEF LogsOf
  <1>2. ASSUME NEW leg \in Legs, Lock(leg[1], leg[2]) PROVE WatchInv'
    BY <1>1, <1>2, LogFacts, EmitKeepsWatch DEF Lock
  <1>3. ASSUME NEW leg \in Legs, RedeemLeg(leg[1], leg[2]) PROVE WatchInv'
    <2>1. Emit(leg[1], RedeemLog(leg[2])) /\ Contains(blocks[leg[1]], LogNewSwap(leg[2]))
      BY <1>3 DEF RedeemLeg, RedeemLog, CanRedeem, StoredBy
    <2> QED BY <1>1, <2>1, LogFacts, EmitKeepsWatch
  <1>4. ASSUME NEW leg \in Legs, RefundLeg(leg[1], leg[2]) PROVE WatchInv'
    <2>1. Emit(leg[1], LogRefund(leg[2])) /\ Contains(blocks[leg[1]], LogNewSwap(leg[2]))
      BY <1>4 DEF RefundLeg, CanRefund, StoredBy
    <2> QED BY <1>1, <2>1, LogFacts, EmitKeepsWatch
  <1>5. \A c \in Chains : heads[c] <= Len(blocks[c]) /\ Len(blocks[c]) \in Nat
    BY DEF WatchInv
  <1>6. tracker \in OurTrackers /\ Exact(tracker, Saw)
    BY DEF WatchInv
  <1>7. CASE Tick
    <2>1. blocks' = blocks /\ UNCHANGED <<pc, heads, last, tracker, alarms>> /\ Saw' = Saw
      BY <1>7 DEF Tick, Saw
    <2>2. clock' \in 0..MaxTime
      BY <1>7, MaestroConstants DEF Tick, WatchInv, TypeOK
    <2>3. TypeOK'
      BY <2>1, <2>2 DEF WatchInv, TypeOK
    <2> QED BY <1>5, <1>6, <2>1, <2>3, SameBlocksKeep
  <1>8. ASSUME NEW c \in Chains, NEW here,
               NEW next \in {"headA", "headB", "pollA", "pollB", "report"},
               ReadHead(c, here, next)
        PROVE  WatchInv'
    <2>1. blocks' = blocks /\ clock' = clock /\ last' = last /\ tracker' = tracker
          /\ pc' = next /\ alarms' = {} /\ Saw' = Saw
          /\ heads' = [heads EXCEPT ![c] = Len(blocks[c])]
      BY <1>8 DEF ReadHead, chainVars, Saw
    <2>2. heads' \in [Chains -> Nat] /\ \A d \in Chains : heads'[d] <= Len(blocks[d])
      BY <1>5, <2>1 DEF WatchInv, TypeOK
    <2>3. TypeOK'
      BY <2>1, <2>2 DEF WatchInv, TypeOK
    <2> QED BY <1>6, <2>1, <2>2, <2>3, SameBlocksKeep
  <1>9. CASE Report
    <2>1. blocks' = blocks /\ clock' = clock /\ last' = last /\ tracker' = tracker
          /\ pc' = "headA" /\ alarms' = TimedOut(tracker, clock) /\ Saw' = Saw /\ heads' = NoHeads
      BY <1>9 DEF Report, chainVars, Saw
    <2>2. alarms' \subseteq (Hashlocks \X Chains \X {leg[2] : leg \in Legs})
      BY <2>1, AlarmTypes DEF LegIds
    <2>3. heads' \in [Chains -> Nat] /\ \A d \in Chains : heads'[d] <= Len(blocks[d])
      BY <1>5, <2>1 DEF NoHeads
    <2>4. TypeOK'
      BY <2>1, <2>2, <2>3 DEF WatchInv, TypeOK
    <2> QED BY <1>6, <2>1, <2>3, <2>4, SameBlocksKeep
  <1>10. CASE Restart
    <2>1. blocks' = blocks /\ clock' = clock /\ tracker' = NewTracker /\ alarms' = {}
          /\ pc' = "headA" /\ heads' = NoHeads /\ last' = [c \in Chains |-> 0]
      BY <1>10 DEF Restart, chainVars
    <2>2. heads' \in [Chains -> Nat] /\ \A d \in Chains : heads'[d] <= Len(blocks[d])
      BY <1>5, <2>1 DEF NoHeads
    <2>3. \A c \in Chains : Saw'[c] = {}
      BY <2>1 DEF Saw
    <2>4. tracker' \in OurTrackers /\ Exact(tracker', Saw')
      BY <2>1, <2>3, EmptyIsExact
    <2>5. last' \in [Chains -> Nat] /\ \A c \in Chains : last'[c] <= Len(blocks[c]) + 1
      BY <1>5, <2>1
    <2>6. TypeOK'
      BY <2>1, <2>2, <2>4, <2>5 DEF WatchInv, TypeOK, OurTrackers, Trackers
    <2> QED BY <2>1, <2>2, <2>4, <2>6, SameBlocksKeep
  <1>11. CASE UNCHANGED vars
    <2>1. UNCHANGED <<blocks, clock, pc, heads, last, tracker, alarms>> /\ Saw' = Saw
      BY <1>11 DEF vars, Saw
    <2>2. TypeOK'
      BY <2>1 DEF WatchInv, TypeOK
    <2> QED BY <1>5, <1>6, <2>1, <2>2, SameBlocksKeep
  <1>12. ASSUME NEW c \in Chains, NEW here,
                NEW next \in {"headA", "headB", "pollA", "pollB", "report"}, Poll(c, here, next)
         PROVE  WatchInv'
    BY <1>12, PollKeepsWatch
  <1>13. CASE ReadHeadA \/ ReadHeadB
    BY <1>8, <1>13 DEF ReadHeadA, ReadHeadB, Chains
  <1>14. CASE PollA \/ PollB
    BY <1>12, <1>14 DEF PollA, PollB, Chains
  <1>15. PollPanics("A", "pollA") \/ PollPanics("B", "pollB") => Restart
    BY DEF PollPanics
  <1> QED BY <1>2, <1>3, <1>4, <1>7, <1>9, <1>10, <1>11, <1>13, <1>14, <1>15 DEF Next

-----------------------------------------------------------------------------
(* What the reports say *)

\* What StoredBy reads off the polled blocks is what the cursors saw.
LEMMA KnownIs ==
    ASSUME WatchInv, NEW leg \in Legs
    PROVE  /\ Known(leg).exists <=> LogNewSwap(leg[2]) \in Saw[leg[1]]
           /\ Known(leg).withdrawn <=> RedeemLog(leg[2]) \in Saw[leg[1]]
           /\ Known(leg).refunded <=> LogRefund(leg[2]) \in Saw[leg[1]]
  <1> DEFINE c == leg[1]
             past == Polled(c)
  <1>1. c \in Chains
    BY MaestroConstants
  <1>2. blocks[c] \in Seq(LogsOf(c)) /\ Len(blocks[c]) \in Nat
        /\ last[c] \in Nat /\ last[c] <= Len(blocks[c]) + 1
    BY <1>1 DEF WatchInv, TypeOK
  <1>3. ASSUME NEW log PROVE Contains(past, log) <=> log \in Saw[c]
    <2>1. CASE last[c] = 0
      <3>1. past = <<>> /\ 1..last[c] - 1 = {}
        BY <1>2, <2>1 DEF Polled
      <3>2. ~Contains(past, log)
        BY <3>1 DEF Contains
      <3> QED BY <1>1, <3>1, <3>2 DEF Saw
    <2>2. CASE last[c] # 0
      <3>1. Len(past) = last[c] - 1 /\ \A i \in 1..last[c] - 1 : past[i] = blocks[c][i]
        BY <1>2, <2>2 DEF Polled
      <3> HIDE DEF past
      <3> QED BY <1>1, <3>1 DEF Contains, Saw
    <2> QED BY <2>1, <2>2
  <1> QED BY <1>3 DEF Known, StoredBy, RedeemLog

\* What was seen of a chain is about its legs.
LEMMA SawLegs ==
    ASSUME WatchInv, NEW c \in Chains, NEW id,
           LogNewSwap(id) \in Saw[c] \/ RedeemLog(id) \in Saw[c]
    PROVE  \E leg \in Legs : leg[1] = c /\ leg[2] = id
  <1>1. PICK log \in Saw[c] : log \in {LogNewSwap(id), RedeemLog(id)}
    OBVIOUS
  <1>2. PICK i \in 1..last[c] - 1 : log = blocks[c][i]
    BY <1>1 DEF Saw
  <1>3. i \in 1..Len(blocks[c]) /\ blocks[c] \in Seq(LogsOf(c))
    BY DEF WatchInv, TypeOK
  <1>4. log \in LogsOf(c)
    BY <1>2, <1>3
  <1>5. PICK leg \in Legs : leg[1] = c /\ log.id = leg[2]
    BY <1>4, LogKinds
  <1> QED BY <1>1, <1>5, LogFacts

LEMMA WatchdogIn == WatchInv => WatchdogExact
  <1> SUFFICES ASSUME WatchInv PROVE WatchdogExact OBVIOUS
  <1> DEFINE expected == {<<leg[2].hashlock, leg[1], leg[2]>> :
                 leg \in {l \in Legs : Active(Known(l)) /\ clock >= l[2].timelock}}
  <1>1. tracker \in OurTrackers /\ DOMAIN tracker = Hashlocks /\ Exact(tracker, Saw)
    BY DEF WatchInv, TypeOK
  <1>2. ASSUME NEW alarm \in TimedOut(tracker, clock) PROVE alarm \in expected
    <2>0. PICK h \in Hashlocks : \E leg \in Held(tracker[h]) :
              /\ alarm = <<h, leg.chain, leg.id>> /\ clock >= leg.id.timelock
              /\ ~leg.redeemed /\ ~leg.refunded
      BY <1>1, <1>2 DEF TimedOut, Held
    <2>1. PICK leg \in Held(tracker[h]) :
              /\ alarm = <<h, leg.chain, leg.id>> /\ clock >= leg.id.timelock
              /\ ~leg.redeemed /\ ~leg.refunded
      BY <2>0
    <2>2. leg.chain \in Chains /\ leg.id.hashlock = h
          /\ LogNewSwap(leg.id) \in Saw[leg.chain]
          /\ RedeemLog(leg.id) \notin Saw[leg.chain] /\ LogRefund(leg.id) \notin Saw[leg.chain]
      BY <1>1, <2>1, HeldTypes DEF Exact, LegsExact
    <2>3. PICK l \in Legs : l[1] = leg.chain /\ l[2] = leg.id
      BY <2>2, SawLegs
    <2>4. Active(Known(l))
      BY <2>2, <2>3, KnownIs DEF Active
    <2> QED BY <2>1, <2>2, <2>3, <2>4
  <1>3. ASSUME NEW l \in Legs, Active(Known(l)), clock >= l[2].timelock
        PROVE  <<l[2].hashlock, l[1], l[2]>> \in TimedOut(tracker, clock)
    <2>1. l[1] \in Chains /\ l[2] \in LegIds /\ l[2].hashlock \in Hashlocks
      BY MaestroConstants DEF LegIds
    <2>2. LogNewSwap(l[2]) \in Saw[l[1]] /\ RedeemLog(l[2]) \notin Saw[l[1]]
          /\ LogRefund(l[2]) \notin Saw[l[1]]
      BY <1>3, KnownIs DEF Active
    <2>3. PICK leg \in Held(tracker[l[2].hashlock]) : leg.chain = l[1] /\ leg.id = l[2]
      BY <1>1, <2>1, <2>2 DEF Exact, LocksHeld, IsLeg
    <2>4. ~leg.redeemed /\ ~leg.refunded
      BY <1>1, <2>1, <2>2, <2>3 DEF Exact, LegsExact
    <2> QED BY <1>1, <1>3, <2>1, <2>3, <2>4 DEF TimedOut, Held
  <1>4. TimedOut(tracker, clock) = expected
    BY <1>2, <1>3
  <1> QED BY <1>4 DEF WatchdogExact

\* Two legs on two chains, and two chains among at most two.
LEMMA CorrelatedIs ==
    ASSUME NEW t \in OurTrackers, NEW h \in Hashlocks
    PROVE  h \in CorrelatedHashlocks(t) <=> {leg.chain : leg \in Held(t[h])} = Chains
  <1> DEFINE legs == t[h].legs
             on == {leg.chain : leg \in Held(t[h])}
  <1>1. legs \in Seq(LegsOn(Chains, LegIds)) /\ DOMAIN t = Hashlocks
    BY DEF OurTrackers, Trackers
  <1>2. ChainsOf(t[h]) = on
    BY DEF ChainsOf, Held, ToSet
  <1>3. on \subseteq {"A", "B"}
    BY HeldTypes DEF Chains
  <1>4. Cardinality(on) >= 2 <=> on = {"A", "B"}
    <2>1. IsFiniteSet({"A"}) /\ Cardinality({"A"}) = 1 /\ IsFiniteSet({"B"}) /\ Cardinality({"B"}) = 1
      BY FS_Singleton
    <2>2. Cardinality({"A"} \cup {"B"}) = 2
      BY <2>1, FS_AddElement
    <2>3. {"A"} \cup {"B"} = {"A", "B"}
      OBVIOUS
    <2>4. Cardinality({}) = 0
      BY FS_EmptySet
    <2> HIDE DEF on
    <2>5. on = {} \/ on = {"A"} \/ on = {"B"} \/ on = {"A", "B"}
      BY <1>3
    <2>6. CASE on = {}
      BY <2>4, <2>6
    <2>7. CASE on = {"A"}
      BY <2>1, <2>7
    <2>8. CASE on = {"B"}
      BY <2>1, <2>8
    <2>9. CASE on = {"A", "B"}
      BY <2>2, <2>3, <2>9
    <2> QED BY <2>5, <2>6, <2>7, <2>8, <2>9
  <1>5. on = {"A", "B"} => Len(legs) >= 2
    <2> SUFFICES ASSUME on = {"A", "B"} PROVE Len(legs) >= 2
      OBVIOUS
    <2>0. (\E leg \in Held(t[h]) : leg.chain = "A") /\ (\E leg \in Held(t[h]) : leg.chain = "B")
      <3>1. "A" \in on /\ "B" \in on
        OBVIOUS
      <3> QED BY <3>1, Zenon
    <2>1. PICK i \in 1..Len(legs) : legs[i].chain = "A"
      BY <1>1, <2>0 DEF Held, ToSet
    <2>2. PICK j \in 1..Len(legs) : legs[j].chain = "B"
      BY <1>1, <2>0 DEF Held, ToSet
    <2>3. i # j /\ Len(legs) \in Nat
      BY <1>1, <2>1, <2>2
    <2> QED BY <2>3
  <1>6. h \in CorrelatedHashlocks(t) <=> Len(legs) >= 2 /\ Cardinality(on) >= 2
    BY <1>1, <1>2 DEF CorrelatedHashlocks, Correlated
  <1> QED BY <1>4, <1>5, <1>6 DEF Chains

LEMMA CorrelationIn == WatchInv => CorrelationExact
  <1> SUFFICES ASSUME WatchInv, NEW h \in Hashlocks
               PROVE  LET under == {leg \in Legs : leg[2].hashlock = h /\ Known(leg).exists}
                      IN  /\ h \in CorrelatedHashlocks(tracker) <=> {leg[1] : leg \in under} = Chains
                          /\ tracker[h].preimage # NoPreimage
                                <=> \E leg \in under : Known(leg).withdrawn
    BY DEF CorrelationExact
  <1> DEFINE under == {leg \in Legs : leg[2].hashlock = h /\ Known(leg).exists}
  <1>1. tracker \in OurTrackers /\ Exact(tracker, Saw)
    BY DEF WatchInv
  <1>2. \A leg \in Legs : leg[1] \in Chains /\ leg[2] \in LegIds
    BY MaestroConstants DEF LegIds
  <1>3. {leg.chain : leg \in Held(tracker[h])} = {leg[1] : leg \in under}
    <2>1. ASSUME NEW leg \in Held(tracker[h])
          PROVE  \E l \in under : l[1] = leg.chain
      <3>1. leg.chain \in Chains /\ leg.id.hashlock = h /\ LogNewSwap(leg.id) \in Saw[leg.chain]
        BY <1>1, HeldTypes DEF Exact, LegsExact
      <3>2. PICK l \in Legs : l[1] = leg.chain /\ l[2] = leg.id
        BY <3>1, SawLegs
      <3> QED BY <3>1, <3>2, KnownIs
    <2>2. ASSUME NEW l \in under
          PROVE  \E leg \in Held(tracker[h]) : leg.chain = l[1]
      <3>1. LogNewSwap(l[2]) \in Saw[l[1]]
        BY KnownIs
      <3> QED BY <1>1, <1>2, <3>1 DEF Exact, LocksHeld, IsLeg
    <2> QED BY <2>1, <2>2
  <1>4. tracker[h].preimage # NoPreimage <=> \E leg \in under : Known(leg).withdrawn
    <2>1. tracker[h].preimage # NoPreimage <=>
              \E c \in Chains, id \in LegIds : id.hashlock = h /\ RedeemLog(id) \in Saw[c]
      BY <1>1 DEF Exact, PreimagesExact
    <2>2. ASSUME NEW c \in Chains, NEW id \in LegIds, id.hashlock = h, RedeemLog(id) \in Saw[c]
          PROVE  \E leg \in under : Known(leg).withdrawn
      <3>1. LogNewSwap(id) \in Saw[c]
        BY <1>1, <2>2 DEF Exact, EndsAreOfLocks
      <3>2. PICK leg \in Legs : leg[1] = c /\ leg[2] = id
        BY <2>2, SawLegs
      <3> QED BY <2>2, <3>1, <3>2, KnownIs
    <2>3. ASSUME NEW leg \in under, Known(leg).withdrawn
          PROVE  leg[2].hashlock = h /\ RedeemLog(leg[2]) \in Saw[leg[1]]
      BY <2>3, KnownIs
    <2> QED BY <1>2, <2>1, <2>2, <2>3
  <1>5. h \in CorrelatedHashlocks(tracker) <=> {leg[1] : leg \in under} = Chains
    BY <1>1, <1>3, CorrelatedIs
  <1> QED BY <1>4, <1>5

LEMMA WatchHolds == Spec => []WatchInv
  <1>1. Init => WatchInv
    BY InitWatch
  <1>2. WatchInv /\ [Next]_vars => WatchInv'
    BY NextKeepsWatch
  <1> QED BY <1>1, <1>2, PTL DEF Spec

\* The watchdog's variables keep their types: no cursor passes the end of its
\* chain, and it only warns of legs that exist.
THEOREM MaestroTypeCorrect == Spec => []TypeOK
  <1>1. WatchInv => TypeOK
    BY DEF WatchInv
  <1> QED BY WatchHolds, <1>1, PTL

\* The watchdog warns of exactly the legs that the polled blocks left active
\* past their timelock, for any legs, hashlocks and preimages.
THEOREM WatchdogIsExact == Spec => []WatchdogExact
  BY WatchHolds, WatchdogIn, PTL

\* Legs are joined, and preimages filed, by exactly the logs the cursors have
\* passed, in whatever order the two chains were polled.
THEOREM CorrelationIsExact == Spec => []CorrelationExact
  BY WatchHolds, CorrelationIn, PTL
=============================================================================
