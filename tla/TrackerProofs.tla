--------------------------- MODULE TrackerProofs ---------------------------
(***************************************************************************)
(* Lemmas about the tracker that the proofs of Observer and of Maestro     *)
(* share: what polling a sequence of logs comes to, one log at a time.     *)
(***************************************************************************)
EXTENDS Tracker, Integers, WellFoundedInduction, NaturalsInduction, TLAPS

\* Induction: a set of natural numbers that is not empty has a least one.
LEMMA LeastNat ==
    ASSUME NEW T, T \subseteq Nat, T # {}
    PROVE  \E n \in T : \A m \in T : n <= m
  <1>1. IsWellFoundedOn(OpToRel(<, Nat), Nat)
    BY NatLessThanWellFounded
  <1>2. PICK n \in T : \A m \in T : <<m, n>> \notin OpToRel(<, Nat)
    BY <1>1, WFMin
  <1>3. \A m \in T : ~(m < n)
    BY <1>2 DEF OpToRel
  <1> QED BY <1>3

(* The fold over a sequence of logs *)

IsFold(g, tracker, chain, logs, S) ==
    g = [s \in SUBSET S |-> IF s = {} THEN tracker
                            ELSE OnLog(g[s \ {Max(s)}], chain, logs[Max(s)])]

LEMMA PollIsChosen ==
    ASSUME NEW tracker, NEW chain, NEW logs
    PROVE  PollIntoTracker(tracker, chain, logs) =
              (CHOOSE g : IsFold(g, tracker, chain, logs, DOMAIN logs))[DOMAIN logs]
  BY DEF PollIntoTracker, FoldLeft, MapThenFoldSet, IsFold

LEMMA MaxIn ==
    ASSUME NEW n \in Nat, NEW s \in SUBSET (1..n), s # {}
    PROVE  Max(s) \in s /\ \A x \in s : x <= Max(s)
  <1> DEFINE T == {n - x : x \in s}
  <1>0. \A x \in s : x \in Nat /\ x <= n /\ n - x \in Nat
    OBVIOUS
  <1>1. T \subseteq Nat /\ T # {}
    BY <1>0
  <1>2. \A y \in s : n - y \in T /\ y \in Nat
    OBVIOUS
  <1>3. \A d \in T : \E x \in s : d = n - x
    OBVIOUS
  <1> HIDE DEF T
  <1>4. PICK d \in T : \A m \in T : d <= m
    BY <1>1, LeastNat
  <1>5. PICK x \in s : d = n - x
    BY <1>3
  <1>6. \A y \in s : n - x <= n - y
    BY <1>2, <1>4, <1>5
  <1>7. \A y \in s : x >= y
    BY <1>2, <1>6
  <1> QED BY <1>7 DEF Max

FoldUpTo(g, tracker, chain, logs, k) ==
    \A s \in SUBSET (1..k) :
        g[s] = IF s = {} THEN tracker
               ELSE OnLog(g[s \ {Max(s)}], chain, logs[Max(s)])

LEMMA FoldExtends ==
    ASSUME NEW tracker, NEW chain, NEW logs, NEW n \in Nat, NEW k \in 0..n-1,
           \E g : FoldUpTo(g, tracker, chain, logs, k)
    PROVE  \E g : FoldUpTo(g, tracker, chain, logs, k + 1)
  <1> PICK g : FoldUpTo(g, tracker, chain, logs, k)
    OBVIOUS
  <1> DEFINE h == [s \in SUBSET (1..k+1) |->
                      IF s = {} THEN tracker
                      ELSE OnLog(g[s \ {Max(s)}], chain, logs[Max(s)])]
  <1> SUFFICES FoldUpTo(h, tracker, chain, logs, k + 1)
    OBVIOUS
  <1>1. ASSUME NEW s \in SUBSET (1..k) PROVE h[s] = g[s]
    <2>1. s \in SUBSET (1..k+1)
      OBVIOUS
    <2> QED BY <2>1, Zenon DEF FoldUpTo
  <1> SUFFICES ASSUME NEW s \in SUBSET (1..k+1), s # {}
               PROVE  h[s] = OnLog(h[s \ {Max(s)}], chain, logs[Max(s)])
    BY Zenon DEF FoldUpTo
  <1>2. s \ {Max(s)} \in SUBSET (1..k)
    <2>1. k + 1 \in Nat /\ k \in Nat
      OBVIOUS
    <2>2. Max(s) \in s /\ \A x \in s : x <= Max(s)
      BY <2>1, MaxIn
    <2>3. \A x \in s : x \in 1..k+1
      OBVIOUS
    <2> DEFINE top == Max(s)
    <2>4. top \in 1..k+1
      BY <2>2, <2>3
    <2>5. \A x \in s : x <= top /\ x \in 1..k+1
      BY <2>2, <2>3
    <2> HIDE DEF top
    <2>6. \A x \in s \ {top} : x \in 1..k
      BY <2>1, <2>4, <2>5
    <2> QED BY <2>6 DEF top
  <1>3. h[s \ {Max(s)}] = g[s \ {Max(s)}]
    BY <1>1, <1>2
  <1> QED BY <1>3

LEMMA FoldExists ==
    ASSUME NEW tracker, NEW chain, NEW logs, NEW n \in Nat
    PROVE  \E g : IsFold(g, tracker, chain, logs, 1..n)
  <1> DEFINE Missing == {k \in 0..n : ~\E g : FoldUpTo(g, tracker, chain, logs, k)}
  <1>1. \A k \in 0..n : \E g : FoldUpTo(g, tracker, chain, logs, k)
    <2> SUFFICES ASSUME Missing # {} PROVE FALSE
      OBVIOUS
    <2>1. PICK k \in Missing : \A m \in Missing : k <= m
      <3>1. Missing \subseteq Nat
        OBVIOUS
      <3> HIDE DEF Missing
      <3> QED BY <3>1, LeastNat
    <2>2. k # 0
      <3> DEFINE none == [s \in SUBSET (1..0) |-> tracker]
      <3>1. \A s \in SUBSET (1..0) : s = {}
        OBVIOUS
      <3>2. FoldUpTo(none, tracker, chain, logs, 0)
        BY <3>1 DEF FoldUpTo
      <3> QED BY <3>2
    <2>3. k - 1 \in 0..n-1 /\ k - 1 \notin Missing /\ k - 1 \in 0..n
      BY <2>1, <2>2
    <2>4. \E g : FoldUpTo(g, tracker, chain, logs, k - 1)
      BY <2>3
    <2>5. \E g : FoldUpTo(g, tracker, chain, logs, (k - 1) + 1)
      BY <2>3, <2>4, FoldExtends
    <2>6. (k - 1) + 1 = k
      BY <2>3
    <2> QED BY <2>5, <2>6
  <1>2. PICK g : FoldUpTo(g, tracker, chain, logs, n)
    BY <1>1
  <1> DEFINE h == [s \in SUBSET (1..n) |-> g[s]]
  <1>3. \A s \in SUBSET (1..n) : s # {} => s \ {Max(s)} \in SUBSET (1..n)
    OBVIOUS
  <1>4. h = [s \in SUBSET (1..n) |-> IF s = {} THEN tracker
                 ELSE OnLog(h[s \ {Max(s)}], chain, logs[Max(s)])]
    BY <1>2, <1>3 DEF FoldUpTo
  <1> QED BY <1>4 DEF IsFold

\* The trackers that polling goes through, from the first to the last.
IsPoll(run, tracker, chain, logs) ==
    /\ run[0] = tracker
    /\ \A k \in 1..Len(logs) : run[k] = OnLog(run[k - 1], chain, logs[k])

LEMMA PollRuns ==
    ASSUME NEW L, NEW logs \in Seq(L), NEW tracker, NEW chain
    PROVE  \E run : /\ IsPoll(run, tracker, chain, logs)
                    /\ PollIntoTracker(tracker, chain, logs) = run[Len(logs)]
  <1> DEFINE n == Len(logs)
             g == CHOOSE f : IsFold(f, tracker, chain, logs, 1..n)
             run == [k \in 0..n |-> g[1..k]]
  <1>1. n \in Nat /\ DOMAIN logs = 1..n
    OBVIOUS
  <1>2. IsFold(g, tracker, chain, logs, 1..n)
    BY <1>1, FoldExists
  <1>3. PollIntoTracker(tracker, chain, logs) = g[1..n]
    BY <1>1, PollIsChosen
  <1> HIDE DEF g, n
  <1>4. \A s \in SUBSET (1..n) :
            g[s] = IF s = {} THEN tracker
                   ELSE OnLog(g[s \ {Max(s)}], chain, logs[Max(s)])
    BY <1>2 DEF IsFold
  <1>5. run[0] = tracker
    <2>1. 1..0 = {} /\ 1..0 \in SUBSET (1..n)
      OBVIOUS
    <2>2. g[1..0] = tracker
      BY <1>4, <2>1
    <2> QED BY <1>1, <2>2
  <1>6. ASSUME NEW k \in 1..n PROVE run[k] = OnLog(run[k - 1], chain, logs[k])
    <2>1. 1..k \in SUBSET (1..n) /\ 1..k # {} /\ k \in Nat /\ k \in 1..k
      BY <1>1
    <2>2. Max(1..k) \in 1..k /\ \A x \in 1..k : x <= Max(1..k)
      BY <2>1, MaxIn
    <2>3. Max(1..k) = k
      BY <2>1, <2>2
    <2>4. (1..k) \ {k} = 1..k-1
      BY <2>1
    <2>5. g[1..k] = OnLog(g[1..k-1], chain, logs[k])
      BY <1>4, <2>1, <2>3, <2>4
    <2>6. k \in 0..n /\ k - 1 \in 0..n
      BY <1>1
    <2> QED BY <2>5, <2>6
  <1>7. IsPoll(run, tracker, chain, logs)
    BY <1>5, <1>6 DEF IsPoll, n
  <1>8. run[n] = g[1..n]
    BY <1>1
  <1> HIDE DEF run
  <1> QED BY <1>3, <1>7, <1>8 DEF n

-----------------------------------------------------------------------------
(* What one log does to the legs of an entry, as a set *)

LegsOn(C, I) == [chain : C, id : I, redeemed : BOOLEAN, refunded : BOOLEAN]

Trackers(H, C, I, P) ==
    [H -> [legs : Seq(LegsOn(C, I)), preimage : P \cup {NoPreimage}]]

Held(entry) == ToSet(entry.legs)

NewLeg(c, id) == [chain |-> c, id |-> id, redeemed |-> FALSE, refunded |-> FALSE]

SeeRedeem(leg, c, id) == IF IsLeg(leg, c, id) THEN [leg EXCEPT !.redeemed = TRUE] ELSE leg
SeeRefund(leg, c, id) == IF IsLeg(leg, c, id) THEN [leg EXCEPT !.refunded = TRUE] ELSE leg

LEMMA AppendToSet ==
    ASSUME NEW S, NEW s \in Seq(S), NEW x \in S
    PROVE  ToSet(Append(s, x)) = ToSet(s) \cup {x}
  <1>1. /\ DOMAIN s = 1..Len(s) /\ Len(s) \in Nat /\ DOMAIN Append(s, x) = 1..Len(s)+1
        /\ \A i \in 1..Len(s) : Append(s, x)[i] = s[i]
        /\ Append(s, x)[Len(s)+1] = x
    OBVIOUS
  <1>2. \A i \in 1..Len(s)+1 : i \in 1..Len(s) \/ i = Len(s)+1
    BY <1>1
  <1>3. \A i \in 1..Len(s) : i \in 1..Len(s)+1
    BY <1>1
  <1>4. Len(s)+1 \in 1..Len(s)+1
    BY <1>1
  <1> QED BY <1>1, <1>2, <1>3, <1>4, Zenon DEF ToSet

LEMMA EmptyToSet ==
    ASSUME NEW S, NEW s \in Seq(S)
    PROVE  s = <<>> <=> ToSet(s) = {}
  <1>1. CASE s = <<>>
    <2>1. DOMAIN s = {}
      BY <1>1
    <2> QED BY <1>1, <2>1 DEF ToSet
  <1>2. CASE s # <<>>
    <2>1. 1 \in DOMAIN s
      BY <1>2
    <2> QED BY <1>2, <2>1 DEF ToSet
  <1> QED BY <1>1, <1>2

\* A lock is one leg more, unless the entry has that leg.
LockSeen(t, after, h, c, id) ==
    Held(after[h]) = IF \E leg \in Held(t[h]) : IsLeg(leg, c, id) THEN Held(t[h])
                     ELSE Held(t[h]) \cup {NewLeg(c, id)}

LEMMA NewSwapHeld ==
    ASSUME NEW H, NEW C, NEW I, NEW P, NEW t \in Trackers(H, C, I, P),
           NEW c \in C, NEW id \in I, NEW h0 \in H, h0 = id.hashlock,
           NEW after, after = OnLog(t, c, LogNewSwap(id))
    PROVE  /\ after \in Trackers(H, C, I, P)
           /\ \A h \in H : after[h].preimage = t[h].preimage
           /\ \A h \in H : h # h0 => after[h] = t[h]
           /\ LockSeen(t, after, h0, c, id)
  <1> DEFINE legs == t[h0].legs
             more == IF HasLeg(t[h0], c, id) THEN legs ELSE Append(legs, NewLeg(c, id))
  <1>1. after = [t EXCEPT ![h0].legs = more]
    BY DEF OnLog, LogNewSwap, OnNewSwap, NewLeg
  <1>2. legs \in Seq(LegsOn(C, I)) 
    BY DEF Trackers
  <1>3. NewLeg(c, id) \in LegsOn(C, I)
    BY DEF NewLeg, LegsOn
  <1>4. HasLeg(t[h0], c, id) <=> \E leg \in Held(t[h0]) : IsLeg(leg, c, id)
    BY DEF HasLeg, Held, ToSet
  <1>5. more \in Seq(LegsOn(C, I))
    BY <1>2, <1>3
  <1>6. ToSet(more) = IF HasLeg(t[h0], c, id) THEN ToSet(legs)
                      ELSE ToSet(legs) \cup {NewLeg(c, id)}
    <2>1. ToSet(Append(legs, NewLeg(c, id))) = ToSet(legs) \cup {NewLeg(c, id)}
      BY <1>2, <1>3, AppendToSet
    <2> QED BY <2>1, Zenon
  <1> HIDE DEF more
  <1>7. after \in Trackers(H, C, I, P) /\ after[h0].legs = more
    BY <1>1, <1>2, <1>5 DEF Trackers
  <1>8. \A h \in H : after[h].preimage = t[h].preimage /\ (h # h0 => after[h] = t[h])
    BY <1>1 DEF Trackers
  <1> QED BY <1>4, <1>6, <1>7, <1>8 DEF Held, LockSeen

\* An entry without legs ignores a preimage; any other one files it.
RedeemSeen(t, after, h, c, id, p) ==
    IF Held(t[h]) = {} THEN after = t
    ELSE /\ after[h].preimage = p
         /\ Held(after[h]) = {SeeRedeem(leg, c, id) : leg \in Held(t[h])}

LEMMA RedeemHeld ==
    ASSUME NEW H, NEW C, NEW I, NEW P, NEW t \in Trackers(H, C, I, P),
           NEW c \in C, NEW id \in I, NEW p \in P,
           NEW h0 \in H, h0 = Sha256(p),
           NEW after, after = OnLog(t, c, LogRedeem(id, p))
    PROVE  /\ after \in Trackers(H, C, I, P)
           /\ \A h \in H : h # h0 => after[h] = t[h]
           /\ RedeemSeen(t, after, h0, c, id, p)
  <1> DEFINE legs == t[h0].legs
             seen == [i \in DOMAIN legs |-> SeeRedeem(legs[i], c, id)]
  <1>1. after = IF legs = <<>> THEN t
                ELSE [t EXCEPT ![h0].preimage = p, ![h0].legs = seen]
    BY DEF OnLog, LogRedeem, OnRedeem, SeeRedeem, Trackers
  <1>2. legs \in Seq(LegsOn(C, I)) 
    BY DEF Trackers
  <1>3. \A leg \in LegsOn(C, I) : SeeRedeem(leg, c, id) \in LegsOn(C, I)
    BY DEF LegsOn, SeeRedeem
  <1>4. seen \in Seq(LegsOn(C, I))
    BY <1>2, <1>3
  <1>5. ToSet(seen) = {SeeRedeem(leg, c, id) : leg \in ToSet(legs)}
    BY DEF ToSet
  <1>6. legs = <<>> <=> ToSet(legs) = {}
    BY <1>2, EmptyToSet
  <1> HIDE DEF seen
  <1>7. after \in Trackers(H, C, I, P) /\ \A h \in H : h # h0 => after[h] = t[h]
    <2>1. CASE legs = <<>>
      BY <1>1, <2>1
    <2>2. CASE legs # <<>>
      <3> DEFINE entry == [t[h0] EXCEPT !.preimage = p, !.legs = seen]
      <3>1. entry \in [legs : Seq(LegsOn(C, I)), preimage : P \cup {NoPreimage}]
        BY <1>4 DEF Trackers
      <3>2. after = [t EXCEPT ![h0] = entry]
        BY <1>1, <2>2 DEF Trackers
      <3> HIDE DEF entry
      <3> QED BY <3>1, <3>2 DEF Trackers
    <2> QED BY <2>1, <2>2
  <1>8. legs # <<>> => after[h0].preimage = p /\ after[h0].legs = seen
    BY <1>1, <1>2 DEF Trackers
  <1> QED BY <1>1, <1>5, <1>6, <1>7, <1>8 DEF Held, RedeemSeen

RefundSeen(t, after, h, c, id) ==
    /\ after[h].preimage = t[h].preimage
    /\ Held(after[h]) = {SeeRefund(leg, c, id) : leg \in Held(t[h])}

LEMMA RefundHeld ==
    ASSUME NEW H, NEW C, NEW I, NEW P, NEW t \in Trackers(H, C, I, P),
           NEW c \in C, NEW id \in I,
           NEW after, after = OnLog(t, c, LogRefund(id))
    PROVE  /\ after \in Trackers(H, C, I, P)
           /\ \A h \in H : RefundSeen(t, after, h, c, id)
  <1> DEFINE seen(h) == [i \in DOMAIN t[h].legs |-> SeeRefund(t[h].legs[i], c, id)]
  <1>1. after = [h \in H |-> [t[h] EXCEPT !.legs = seen(h)]]
    BY DEF OnLog, LogRefund, OnRefund, SeeRefund, Trackers
  <1>3. \A leg \in LegsOn(C, I) : SeeRefund(leg, c, id) \in LegsOn(C, I)
    BY DEF LegsOn, SeeRefund
  <1>4. ASSUME NEW h \in H
        PROVE  /\ seen(h) \in Seq(LegsOn(C, I))
               /\ ToSet(seen(h)) = {SeeRefund(leg, c, id) : leg \in ToSet(t[h].legs)}
    <2>1. t[h].legs \in Seq(LegsOn(C, I))
      BY DEF Trackers
    <2>2. seen(h) \in Seq(LegsOn(C, I))
      BY <1>3, <2>1
    <2>3. ToSet(seen(h)) = {SeeRefund(leg, c, id) : leg \in ToSet(t[h].legs)}
      BY DEF ToSet
    <2> QED BY <2>2, <2>3
  <1> HIDE DEF seen
  <1>5. ASSUME NEW h \in H
        PROVE  /\ after[h] \in [legs : Seq(LegsOn(C, I)), preimage : P \cup {NoPreimage}]
               /\ after[h].preimage = t[h].preimage /\ after[h].legs = seen(h)
    BY <1>1, <1>4 DEF Trackers
  <1>6. after \in Trackers(H, C, I, P)
    BY <1>1, <1>5 DEF Trackers
  <1> QED BY <1>4, <1>5, <1>6 DEF Held, RefundSeen
=============================================================================
