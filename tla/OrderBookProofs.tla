-------------------------- MODULE OrderBookProofs --------------------------
(***************************************************************************)
(* The deals that come out of the order book, for every set of orders,     *)
(* every policy that keeps the documented inequality with room for the     *)
(* skew, and every interleaving of requests; and the ranking of the        *)
(* matches that the book serves.                                           *)
(***************************************************************************)
EXTENDS OrderBook, Integers, FiniteSetTheorems, WellFoundedInduction,
        NaturalsInduction, TLAPS

IInv == TypeOK /\ NoDuplicates

LEMMA IntoOrderKeepsDto ==
    ASSUME NEW dto \in Dto, NEW t \in Nat
    PROVE  /\ Signed(IntoOrder(dto, t)) = dto
           /\ IntoOrder(dto, t).createdAt = t
  BY DEF Signed, IntoOrder, Dto

LEMMA OrderFields ==
    ASSUME NEW o \in Orders
    PROVE  /\ o.createdAt \in Nat
           /\ o.sellAmount \in Nat
           /\ o.buyAmount \in Nat
  <1>1. PICK post \in Posts, t \in 0..MaxTime : o = IntoOrder(post.dto, t)
    BY DEF Orders
  <1>2. post.dto \in Dto /\ t \in Nat
    BY BookConstants
  <1> QED BY <1>1, <1>2 DEF IntoOrder, Dto

LEMMA InitIInv == Init => IInv
  BY BookConstants DEF Init, IInv, TypeOK, NoDuplicates

LEMMA SubmitKeepsIInv ==
    ASSUME IInv, NEW r \in Requests, Submit(r)
    PROVE  IInv'
  <1> DEFINE order == IntoOrder(inflight[r].post.dto, inflight[r].now)
  <1>1. inflight[r] \in [post : Posts, now : 0..MaxTime] /\ inflight[r].now <= clock
    BY DEF IInv, TypeOK, Submit
  <1>2. order \in Orders
    BY <1>1 DEF Orders
  <1>3. order.createdAt <= clock
    BY <1>1 DEF IntoOrder
  <1>4. /\ clock' = clock /\ clock \in 0..MaxTime
        /\ inflight' = [inflight EXCEPT ![r] = NoRequest]
        /\ (book' = Append(book, order) /\ ~Seen(order)) \/ book' = book
    BY DEF Submit, IInv, TypeOK
  <1>5. /\ inflight' \in [Requests -> [post : Posts, now : 0..MaxTime] \cup {NoRequest}]
        /\ \A q \in Requests : inflight'[q] # NoRequest => inflight'[q].now <= clock'
    BY <1>4 DEF IInv, TypeOK
  <1>6. CASE book' = book
    BY <1>4, <1>5, <1>6 DEF IInv, TypeOK, NoDuplicates
  <1>7. CASE book' = Append(book, order) /\ ~Seen(order)
    <2> HIDE DEF order
    <2>1. book \in Seq(Orders) /\ Len(book) \in Nat
      BY DEF IInv, TypeOK
    <2>2. book' \in Seq(Orders) /\ DOMAIN book' = 1..Len(book) + 1 /\ DOMAIN book = 1..Len(book)
      BY <1>2, <1>7, <2>1
    <2>3. \A i \in DOMAIN book : book'[i] = book[i]
      BY <1>2, <1>7, <2>1
    <2>4. book'[Len(book) + 1] = order
      BY <1>2, <1>7, <2>1
    <2>5. \A i \in DOMAIN book' : i \in DOMAIN book \/ i = Len(book) + 1
      BY <2>1, <2>2
    <2>6. \A i \in DOMAIN book' : book'[i].createdAt <= clock'
      BY <1>3, <1>4, <2>3, <2>4, <2>5 DEF IInv, TypeOK
    <2>7. NoDuplicates'
      <3>1. SUFFICES ASSUME NEW i \in DOMAIN book', NEW j \in DOMAIN book',
                            Signed(book'[i]) = Signed(book'[j])
                     PROVE  i = j
        BY DEF NoDuplicates, Signed
      <3>2. \A k \in DOMAIN book : Signed(book[k]) # Signed(order)
        BY <1>7 DEF Seen
      <3>3. CASE i \in DOMAIN book /\ j \in DOMAIN book
        BY <2>3, <3>1, <3>3 DEF IInv, NoDuplicates
      <3>4. CASE ~(i \in DOMAIN book /\ j \in DOMAIN book)
        BY <2>3, <2>4, <2>5, <3>1, <3>2, <3>4
      <3> QED BY <3>3, <3>4
    <2> QED BY <1>4, <1>5, <2>2, <2>6, <2>7 DEF IInv, TypeOK
  <1> QED BY <1>4, <1>6, <1>7

LEMMA NextKeepsIInv == IInv /\ [Next]_vars => IInv'
  <1> SUFFICES ASSUME IInv, [Next]_vars PROVE IInv' OBVIOUS
  <1>1. ASSUME NEW r \in Requests, NEW post \in Posts, Arrive(r, post) PROVE IInv'
    <2>1. book' = book /\ clock' = clock /\ clock \in 0..MaxTime
      BY <1>1 DEF Arrive, IInv, TypeOK
    <2>2. inflight' = [inflight EXCEPT ![r] = [post |-> post, now |-> clock]]
      BY <1>1 DEF Arrive
    <2>3. [post |-> post, now |-> clock] \in [post : Posts, now : 0..MaxTime]
      BY <2>1
    <2>4. inflight' \in [Requests -> [post : Posts, now : 0..MaxTime] \cup {NoRequest}]
      BY <2>2, <2>3 DEF IInv, TypeOK
    <2>5. \A q \in Requests : inflight'[q] # NoRequest => inflight'[q].now <= clock'
      BY <2>1, <2>2 DEF IInv, TypeOK
    <2> QED BY <2>1, <2>4, <2>5 DEF IInv, TypeOK, NoDuplicates
  <1>2. ASSUME NEW r \in Requests, Submit(r) PROVE IInv'
    BY <1>2, SubmitKeepsIInv
  <1>3. CASE Tick
    <2>1. clock' \in 0..MaxTime /\ clock <= clock' /\ clock \in Nat
      BY <1>3, BookConstants DEF Tick, IInv, TypeOK
    <2>2. book' = book /\ inflight' = inflight
      BY <1>3 DEF Tick
    <2>3. \A i \in DOMAIN book : book[i] \in Orders
      BY DEF IInv, TypeOK
    <2>4. \A i \in DOMAIN book : book[i].createdAt \in Nat
      BY <2>3, OrderFields
    <2>5. \A i \in DOMAIN book : book[i].createdAt <= clock'
      BY <2>1, <2>4 DEF IInv, TypeOK
    <2>6. \A q \in Requests : inflight[q] # NoRequest => inflight[q].now <= clock'
      BY <2>1 DEF IInv, TypeOK
    <2> QED BY <2>1, <2>2, <2>5, <2>6 DEF IInv, TypeOK, NoDuplicates
  <1>4. CASE UNCHANGED vars
    BY <1>4 DEF vars, IInv, TypeOK, NoDuplicates
  <1> QED BY <1>1, <1>2, <1>3, <1>4 DEF Next

-----------------------------------------------------------------------------
\* The order of stamps and digests gives the two parties opposite roles.
LEMMA RolesComplement ==
    ASSUME NEW a \in Orders, NEW b \in Orders, Signed(a) # Signed(b)
    PROVE  \/ AssignRole(a, b) = "Taker" /\ AssignRole(b, a) = "Maker"
           \/ AssignRole(a, b) = "Maker" /\ AssignRole(b, a) = "Taker"
  <1>1. a.createdAt \in Nat /\ b.createdAt \in Nat
    BY OrderFields
  <1>2. DigestRank(a) \in Nat /\ DigestRank(b) \in Nat /\ DigestRank(a) # DigestRank(b)
    BY DigestsDiffer
  <1> QED BY <1>1, <1>2 DEF AssignRole

\* Below the bound, saturating_add adds.
LEMMA SatAddAdds ==
    ASSUME NEW m \in Nat, NEW n \in Nat, m + n <= MaxU64
    PROVE  SatAdd(m, n) = m + n
  BY MaxU64Assumption DEF SatAdd

\* Timelocks derived Skew apart at most keep the gap and the window.
LEMMA GapHolds ==
    ASSUME NEW role \in {"Taker", "Maker"}, NEW other \in {"Taker", "Maker"},
           role # other,
           NEW s \in Nat, NEW t \in Nat, s <= t + Skew, t <= s + Skew,
           s <= MaxTime + Skew, t <= MaxTime + Skew
    PROVE  TimelockGapOk(SatAdd(s, LockOf(role)), SatAdd(t, LockOf(other)),
                         MinGap, Later(s, t), role)
  <1> USE Policy, BookConstants, MaxU64Assumption
  <1>1. LockOf(role) \in Nat /\ LockOf(other) \in Nat
        /\ LockOf(role) <= TakerLock /\ LockOf(other) <= TakerLock
    BY DEF LockOf
  <1>2. SatAdd(s, LockOf(role)) = s + LockOf(role)
    BY <1>1, SatAddAdds
  <1>3. SatAdd(t, LockOf(other)) = t + LockOf(other)
    BY <1>1, SatAddAdds
  <1>4. Later(s, t) \in Nat /\ Later(s, t) <= MaxTime + Skew
        /\ Later(s, t) <= s + Skew /\ Later(s, t) <= t + Skew
    BY DEF Later
  <1>5. SatAdd(Later(s, t), MinGap) = Later(s, t) + MinGap
    BY <1>4, SatAddAdds
  <1>6. SatAdd(Later(s, t), MinGap) <= t + LockOf(other)
    BY <1>4, <1>5 DEF LockOf
  <1>7. CASE role = "Maker"
    <2>1. LockOf(role) = MakerLock /\ LockOf(other) = TakerLock
      BY <1>7 DEF LockOf
    <2>2. SatAdd(s + MakerLock, MinGap) = s + MakerLock + MinGap
      BY SatAddAdds
    <2>3. s + MakerLock + MinGap <= t + TakerLock /\ s + MakerLock < t + TakerLock
      OBVIOUS
    <2> QED BY <1>2, <1>3, <1>6, <1>7, <2>1, <2>2, <2>3 DEF TimelockGapOk
  <1>8. CASE role = "Taker"
    <2>1. LockOf(role) = TakerLock /\ LockOf(other) = MakerLock
      BY <1>8 DEF LockOf
    <2>2. SatAdd(t + MakerLock, MinGap) = t + MakerLock + MinGap
      BY SatAddAdds
    <2>3. t + MakerLock + MinGap <= s + TakerLock /\ t + MakerLock < s + TakerLock
      OBVIOUS
    <2> QED BY <1>2, <1>3, <1>6, <1>8, <2>1, <2>2, <2>3 DEF TimelockGapOk
  <1> QED BY <1>7, <1>8

\* Two parties of the same role are never the gap apart.
LEMMA SameRoleFails ==
    ASSUME NEW role \in {"Taker", "Maker"}, NEW s \in Nat, NEW t \in Nat, NEW now \in Nat,
           s <= t + Skew, t <= s + Skew, s <= MaxTime + Skew, t <= MaxTime + Skew
    PROVE  ~TimelockGapOk(SatAdd(s, LockOf(role)), SatAdd(t, LockOf(role)),
                          MinGap, now, role)
  <1> USE Policy, BookConstants, MaxU64Assumption
  <1>1. LockOf(role) \in Nat /\ LockOf(role) <= TakerLock
    BY DEF LockOf
  <1>2. SatAdd(s, LockOf(role)) = s + LockOf(role)
        /\ SatAdd(t, LockOf(role)) = t + LockOf(role)
    BY <1>1, SatAddAdds
  <1>3. SatAdd(s + LockOf(role), MinGap) = s + LockOf(role) + MinGap
        /\ SatAdd(t + LockOf(role), MinGap) = t + LockOf(role) + MinGap
    BY <1>1, SatAddAdds
  <1> QED BY <1>1, <1>2, <1>3 DEF TimelockGapOk

LEMMA DealIsSoundIn == IInv => DealIsSound
  <1> SUFFICES ASSUME IInv,
                      NEW i \in DOMAIN book, NEW j \in DOMAIN book, i # j,
                      Compatible(book[i], book[j], clock),
                      NEW s \in clock..clock + Skew, NEW t \in clock..clock + Skew
               PROVE  LET a  == book[i]
                          b  == book[j]
                          ca == Derived(a, b, AssignRole(a, b), s)
                          cb == Derived(b, a, AssignRole(b, a), t)
                      IN  /\ {ca.role, cb.role} = {"Taker", "Maker"}
                          /\ Safe([ca EXCEPT !.now = Later(s, t)], LegOf(cb))
                          /\ ca.amount >= a.buyAmount
    BY DEF DealIsSound
  <1> DEFINE a == book[i]
             b == book[j]
             ra == AssignRole(a, b)
             rb == AssignRole(b, a)
             ca == Derived(a, b, ra, s)
             cb == Derived(b, a, rb, t)
  <1>1. a \in Orders /\ b \in Orders
    BY DEF IInv, TypeOK
  <1>2. Signed(a) # Signed(b)
    BY DEF IInv, NoDuplicates
  <1>3. \/ ra = "Taker" /\ rb = "Maker"
        \/ ra = "Maker" /\ rb = "Taker"
    BY <1>1, <1>2, RolesComplement
  <1>4. /\ s \in Nat /\ t \in Nat /\ s <= t + Skew /\ t <= s + Skew
        /\ s <= MaxTime + Skew /\ t <= MaxTime + Skew
    BY BookConstants DEF IInv, TypeOK
  <1> HIDE DEF a, b, ra, rb
  <1>5. ca.role = ra /\ cb.role = rb
    BY DEF Derived, DeriveContext
  <1>6. TimelockGapOk(SatAdd(s, LockOf(ra)), SatAdd(t, LockOf(rb)), MinGap, Later(s, t), ra)
    BY <1>3, <1>4, GapHolds
  <1>7. Safe([ca EXCEPT !.now = Later(s, t)], LegOf(cb))
    BY <1>6 DEF Safe, LegOf, Derived, DeriveContext
  <1>8. ca.amount >= a.buyAmount
    BY DEF Derived, DeriveContext, Compatible, Crosses, a, b
  <1> QED BY <1>3, <1>5, <1>7, <1>8 DEF a, b, ra, rb

\* Of the two states, neither is terminal nor Refunding.
LEMMA NextActionByRole ==
    ASSUME NEW ctx, NEW state \in {"MyLegLocked", "Start"}
    PROVE  NextAction(state, ctx) = IF ctx.role = "Taker" THEN TakerNext(state, ctx)
                                    ELSE MakerNext(state, ctx)
  <1>1. CASE state = "MyLegLocked"
    BY <1>1 DEF NextAction
  <1>2. CASE state = "Start"
    BY <1>2 DEF NextAction
  <1> QED BY <1>1, <1>2

LEMMA DivergenceIn == IInv => DivergenceNeverReveals
  <1> SUFFICES ASSUME IInv,
                      NEW i \in DOMAIN book, NEW j \in DOMAIN book,
                      NEW role \in {"Taker", "Maker"},
                      NEW s \in clock..clock + Skew, NEW t \in clock..clock + Skew,
                      NEW now \in 0..MaxTime
               PROVE  LET ca == Derived(book[i], book[j], role, s)
                          cb == Derived(book[j], book[i], role, t)
                          view == [ca EXCEPT !.lock = LegOf(cb), !.now = now]
                      IN  /\ NextAction("MyLegLocked", view) # "RedeemCounterpartyLeg"
                          /\ NextAction("Start", view) # "LockMyLeg"
    BY DEF DivergenceNeverReveals
  <1> DEFINE ca == Derived(book[i], book[j], role, s)
             cb == Derived(book[j], book[i], role, t)
             view == [ca EXCEPT !.lock = LegOf(cb), !.now = now]
  <1>1. /\ s \in Nat /\ t \in Nat /\ s <= t + Skew /\ t <= s + Skew
        /\ s <= MaxTime + Skew /\ t <= MaxTime + Skew
    BY BookConstants DEF IInv, TypeOK
  <1>2. ~TimelockGapOk(SatAdd(s, LockOf(role)), SatAdd(t, LockOf(role)), MinGap, now, role)
    BY <1>1, SameRoleFails
  <1>3. /\ view.role = role /\ view.lock = LegOf(cb) /\ view.minGap = MinGap
        /\ view.now = now /\ view.myTimelock = SatAdd(s, LockOf(role))
    BY DEF Derived, DeriveContext
  <1>4. LegOf(cb).timelock = SatAdd(t, LockOf(role))
    BY DEF Derived, DeriveContext, LegOf
  <1> HIDE DEF view
  <1>5. ~Safe(view, view.lock)
    BY <1>2, <1>3, <1>4 DEF Safe
  <1>6. CASE role = "Taker"
    <2> view.role = "Taker"
      BY <1>3, <1>6
    <2>0. NextAction("MyLegLocked", view) = TakerNext("MyLegLocked", view)
      BY NextActionByRole, Zenon
    <2>1. NextAction("Start", view) = TakerNext("Start", view)
      BY NextActionByRole, Zenon
    <2>2. TakerNext("Start", view) = "GenerateSecret"
      BY DEF TakerNext
    <2>3. TakerNext("MyLegLocked", view) \in {"Refund", "WaitForCounterpartyLock"}
      BY <1>5 DEF TakerNext
    <2> QED BY <2>0, <2>1, <2>2, <2>3 DEF view
  <1>7. CASE role = "Maker"
    <2> view.role = "Maker"
      BY <1>3, <1>7
    <2>0. NextAction("MyLegLocked", view) = MakerNext("MyLegLocked", view)
      BY NextActionByRole, Zenon
    <2>1. NextAction("Start", view) = MakerNext("Start", view)
      BY NextActionByRole, Zenon
    <2>2. MakerNext("MyLegLocked", view) = "Abort"
      BY DEF MakerNext
    <2>3. MakerNext("Start", view) \in {"Abort", "WaitForCounterpartyLock"}
      BY <1>5 DEF MakerNext
    <2> QED BY <2>0, <2>1, <2>2, <2>3 DEF view
  <1> QED BY <1>6, <1>7 DEF view

-----------------------------------------------------------------------------
(* Matching: the scan for the best candidate, and the sorted candidates *)

\* Induction: a set of natural numbers that is not empty has a least one.
LEMMA LeastNat ==
    ASSUME NEW T, T \subseteq Nat, T # {}
    PROVE  \E n \in T : \A m \in T : n <= m
  <1>1. IsWellFoundedOn(OpToRel(<, Nat), Nat)
    BY NatLessThanWellFounded
  <1>2. PICK n \in T : \A m \in T : <<m, n>> \notin OpToRel(<, Nat)
    BY <1>1, WFMin
  <1>3. \A m \in T : ~(m < n)
    BY <1>2 DEF OpToRel
  <1> QED BY <1>3

\* The fields that rank an order are numbers.
Ranked(orders) ==
    \A x \in DOMAIN orders : /\ orders[x].sellAmount \in Nat
                             /\ orders[x].createdAt \in Nat
                             /\ orders[x].nonce \in Nat

\* A book: a sequence of orders whose ranks are numbers.
IsBook(orders) ==
    /\ Len(orders) \in Nat /\ DOMAIN orders = 1..Len(orders)
    /\ Ranked(orders)

\* The stable sort sorts by a strict total order on the indices of the book.
LEMMA SortsBeforeIsTotal ==
    ASSUME NEW orders, IsBook(orders),
           NEW x \in DOMAIN orders, NEW y \in DOMAIN orders, NEW z \in DOMAIN orders
    PROVE  /\ ~SortsBefore(orders, x, x)
           /\ x # y => SortsBefore(orders, x, y) \/ SortsBefore(orders, y, x)
           /\ SortsBefore(orders, x, y) /\ SortsBefore(orders, y, z) => SortsBefore(orders, x, z)
  <1>1. x \in Nat /\ y \in Nat /\ z \in Nat
    BY DEF IsBook
  <1>2. /\ orders[x].sellAmount \in Nat /\ orders[x].createdAt \in Nat /\ orders[x].nonce \in Nat
        /\ orders[y].sellAmount \in Nat /\ orders[y].createdAt \in Nat /\ orders[y].nonce \in Nat
        /\ orders[z].sellAmount \in Nat /\ orders[z].createdAt \in Nat /\ orders[z].nonce \in Nat
    BY DEF IsBook, Ranked
  <1> QED BY <1>1, <1>2 DEF SortsBefore, RanksBefore

\* One step of the scan.
Scan(orders, E, best, j) ==
    IF j \in E /\ (best = 0 \/ RanksBefore(orders[j], orders[best])) THEN j ELSE best

IsScan(g, orders, E, S) ==
    g = [s \in SUBSET S |-> IF s = {} THEN 0 ELSE Scan(orders, E, g[s \ {Max(s)}], Indices(orders)[Max(s)])]

LEMMA BestIsChosen ==
    ASSUME NEW orders, NEW E
    PROVE  BestOf(orders, E) =
              (CHOOSE g : IsScan(g, orders, E, DOMAIN Indices(orders)))[DOMAIN Indices(orders)]
  BY DEF BestOf, FoldLeft, MapThenFoldSet, IsScan, Scan

LEMMA MaxIn ==
    ASSUME NEW n \in Nat, NEW s \in SUBSET (1..n), s # {}
    PROVE  Max(s) \in s /\ \A x \in s : x <= Max(s)
  <1> DEFINE T == {n - x : x \in s}
  <1>0. \A x \in s : x \in Nat /\ x <= n /\ n - x \in Nat
    OBVIOUS
  <1>1. T \subseteq Nat /\ T # {}
    BY <1>0
  <1>2. \A y \in s : n - y \in T /\ y \in Nat
    OBVIOUS
  <1>3. \A d \in T : \E x \in s : d = n - x
    OBVIOUS
  <1> HIDE DEF T
  <1>4. PICK d \in T : \A m \in T : d <= m
    BY <1>1, LeastNat
  <1>5. PICK x \in s : d = n - x
    BY <1>3
  <1>6. \A y \in s : n - x <= n - y
    BY <1>2, <1>4, <1>5
  <1>7. \A y \in s : x >= y
    BY <1>2, <1>6
  <1> QED BY <1>7 DEF Max

\* The scan of the candidates among the first k orders.
ScanUpTo(g, orders, E, k) ==
    \A s \in SUBSET (1..k) :
        g[s] = IF s = {} THEN 0 ELSE Scan(orders, E, g[s \ {Max(s)}], Indices(orders)[Max(s)])

LEMMA ScanExtends ==
    ASSUME NEW orders, NEW E, NEW k \in Nat, \E g : ScanUpTo(g, orders, E, k)
    PROVE  \E g : ScanUpTo(g, orders, E, k + 1)
  <1> PICK g : ScanUpTo(g, orders, E, k)
    OBVIOUS
  <1> DEFINE h == [s \in SUBSET (1..k+1) |->
                      IF s = {} THEN 0
                      ELSE Scan(orders, E, g[s \ {Max(s)}], Indices(orders)[Max(s)])]
  <1> SUFFICES ScanUpTo(h, orders, E, k + 1)
    OBVIOUS
  <1>1. ASSUME NEW s \in SUBSET (1..k) PROVE h[s] = g[s]
    <2>1. s \in SUBSET (1..k+1)
      OBVIOUS
    <2> QED BY <2>1, Zenon DEF ScanUpTo
  <1> SUFFICES ASSUME NEW s \in SUBSET (1..k+1), s # {}
               PROVE  h[s] = Scan(orders, E, h[s \ {Max(s)}], Indices(orders)[Max(s)])
    BY Zenon DEF ScanUpTo
  <1> DEFINE top == Max(s)
  <1>2. top \in s /\ \A x \in s : x <= top
    BY MaxIn
  <1> HIDE DEF top
  <1>3. \A x \in s : x \in 1..k+1
    OBVIOUS
  <1>4. \A x \in s \ {top} : x \in 1..k
    BY <1>2, <1>3
  <1>5. h[s \ {top}] = g[s \ {top}]
    BY <1>1, <1>4
  <1> QED BY <1>5 DEF top

LEMMA ScanExists ==
    ASSUME NEW orders, NEW E, NEW n \in Nat
    PROVE  \E g : IsScan(g, orders, E, 1..n)
  <1> DEFINE Missing == {k \in Nat : ~\E g : ScanUpTo(g, orders, E, k)}
  <1>1. \A k \in Nat : \E g : ScanUpTo(g, orders, E, k)
    <2> SUFFICES ASSUME Missing # {} PROVE FALSE
      OBVIOUS
    <2>1. PICK k \in Missing : \A m \in Missing : k <= m
      <3>1. Missing \subseteq Nat
        OBVIOUS
      <3> HIDE DEF Missing
      <3> QED BY <3>1, LeastNat
    <2>2. k # 0
      <3> DEFINE none == [s \in SUBSET (1..0) |-> 0]
      <3>1. \A s \in SUBSET (1..0) : s = {}
        OBVIOUS
      <3>2. ScanUpTo(none, orders, E, 0)
        BY <3>1 DEF ScanUpTo
      <3> QED BY <3>2
    <2>3. k - 1 \in Nat /\ k - 1 \notin Missing
      BY <2>1, <2>2
    <2>4. \E g : ScanUpTo(g, orders, E, (k - 1) + 1)
      BY <2>3, ScanExtends
    <2>5. (k - 1) + 1 = k
      BY <2>3
    <2> QED BY <2>4, <2>5
  <1>2. PICK g : ScanUpTo(g, orders, E, n)
    BY <1>1
  <1> DEFINE h == [s \in SUBSET (1..n) |-> g[s]]
  <1>3. \A s \in SUBSET (1..n) : s # {} => s \ {Max(s)} \in SUBSET (1..n)
    OBVIOUS
  <1>4. h = [s \in SUBSET (1..n) |-> IF s = {} THEN 0
                 ELSE Scan(orders, E, h[s \ {Max(s)}], Indices(orders)[Max(s)])]
    BY <1>2, <1>3 DEF ScanUpTo
  <1> QED BY <1>4 DEF IsScan

\* What the scan has found among the first k orders.
LeastUpTo(orders, E, best, k) ==
    /\ best = 0 => \A y \in E : y > k
    /\ best # 0 => /\ best \in E /\ best <= k
                   /\ \A y \in E : y <= k /\ y # best => SortsBefore(orders, best, y)

LEMMA ScanStep ==
    ASSUME NEW orders, IsBook(orders), NEW E \in SUBSET DOMAIN orders,
           NEW k \in Nat, k + 1 \in DOMAIN orders, NEW best, LeastUpTo(orders, E, best, k)
    PROVE  LeastUpTo(orders, E, Scan(orders, E, best, k + 1), k + 1)
  <1>1. \A y \in E : y \in Nat /\ y \in DOMAIN orders
    BY DEF IsBook
  <1>2. \A y \in E : y <= k + 1 => y <= k \/ y = k + 1
    BY <1>1
  <1>3. CASE k + 1 \notin E
    BY <1>1, <1>2, <1>3 DEF Scan, LeastUpTo
  <1>4. CASE k + 1 \in E /\ best = 0
    BY <1>1, <1>2, <1>4 DEF Scan, LeastUpTo
  <1>5. CASE k + 1 \in E /\ best # 0 /\ RanksBefore(orders[k + 1], orders[best])
    <2>1. best \in E /\ best \in DOMAIN orders /\ SortsBefore(orders, k + 1, best)
      BY <1>1, <1>5 DEF SortsBefore, LeastUpTo
    <2>2. \A y \in E : y <= k /\ y # best => SortsBefore(orders, best, y)
      BY <1>5 DEF LeastUpTo
    <2>3. \A y \in E : y <= k => SortsBefore(orders, k + 1, y)
      BY <1>1, <2>1, <2>2, SortsBeforeIsTotal
    <2>4. Scan(orders, E, best, k + 1) = k + 1 /\ k + 1 # 0
      BY <1>5 DEF Scan
    <2> QED BY <1>1, <1>2, <1>5, <2>3, <2>4 DEF LeastUpTo
  <1>6. CASE k + 1 \in E /\ best # 0 /\ ~RanksBefore(orders[k + 1], orders[best])
    <2>1. best \in E /\ best <= k /\ best \in Nat
      BY <1>1, <1>6 DEF LeastUpTo
    <2>2. SortsBefore(orders, best, k + 1)
      BY <1>6, <2>1 DEF SortsBefore
    <2>3. Scan(orders, E, best, k + 1) = best
      BY <1>6 DEF Scan
    <2> QED BY <1>1, <1>2, <1>6, <2>1, <2>2, <2>3 DEF LeastUpTo
  <1> QED BY <1>3, <1>4, <1>5, <1>6

\* The scan finds the candidate that the stable sort puts first, if any.
LEMMA BestIsLeast ==
    ASSUME NEW orders, IsBook(orders), NEW E \in SUBSET DOMAIN orders
    PROVE  /\ E = {} => BestOf(orders, E) = 0
           /\ E # {} => /\ BestOf(orders, E) \in E
                        /\ \A y \in E : y # BestOf(orders, E) =>
                               SortsBefore(orders, BestOf(orders, E), y)
  <1> DEFINE n == Len(orders)
             g == CHOOSE f : IsScan(f, orders, E, 1..n)
  <1>1. n \in Nat /\ DOMAIN orders = 1..n /\ DOMAIN Indices(orders) = 1..n
    BY DEF IsBook, Indices
  <1>2. IsScan(g, orders, E, 1..n)
    BY <1>1, ScanExists
  <1>3. BestOf(orders, E) = g[1..n]
    BY <1>1, BestIsChosen
  <1> HIDE DEF g, n
  <1>4. \A s \in SUBSET (1..n) :
            g[s] = IF s = {} THEN 0
                   ELSE Scan(orders, E, g[s \ {Max(s)}], Indices(orders)[Max(s)])
    BY <1>2 DEF IsScan
  <1> DEFINE Wrong == {k \in 0..n : ~LeastUpTo(orders, E, g[1..k], k)}
  <1>5. Wrong = {}
    <2> SUFFICES ASSUME Wrong # {} PROVE FALSE
      OBVIOUS
    <2>1. PICK k \in Wrong : \A m \in Wrong : k <= m
      <3>1. Wrong \subseteq Nat
        OBVIOUS
      <3> HIDE DEF Wrong
      <3> QED BY <3>1, LeastNat
    <2>2. k # 0
      <3>1. 1..0 = {} /\ 1..0 \in SUBSET (1..n)
        OBVIOUS
      <3>2. g[1..0] = 0
        BY <1>4, <3>1
      <3>3. \A y \in E : y > 0
        BY <1>1
      <3>4. LeastUpTo(orders, E, g[1..0], 0)
        BY <3>2, <3>3 DEF LeastUpTo
      <3> QED BY <3>4
    <2>3. k - 1 \in 0..n /\ k - 1 \notin Wrong /\ k \in 1..n
      BY <1>1, <2>1, <2>2
    <2>4. LeastUpTo(orders, E, g[1..k-1], k - 1)
      BY <2>3
    <2>5. 1..k \in SUBSET (1..n) /\ 1..k # {} /\ k \in Nat /\ k \in 1..k
      <3>1. k \in Nat /\ k \in 1..k /\ k <= n
        BY <1>1, <2>3
      <3>2. \A x \in 1..k : x \in 1..n
        BY <1>1, <3>1
      <3> QED BY <3>1, <3>2
    <2>6. Max(1..k) \in 1..k /\ \A x \in 1..k : x <= Max(1..k)
      BY <2>5, MaxIn
    <2>7. Max(1..k) = k
      BY <2>5, <2>6
    <2>8. (1..k) \ {k} = 1..k-1
      BY <2>5
    <2>9. Indices(orders)[k] = k
      BY <1>1, <2>3 DEF Indices
    <2>10. g[1..k] = Scan(orders, E, g[1..k-1], k)
      BY <1>4, <2>5, <2>7, <2>8, <2>9
    <2>11. k - 1 \in Nat /\ (k - 1) + 1 = k /\ k \in DOMAIN orders
      BY <1>1, <2>3
    <2>12. LeastUpTo(orders, E, Scan(orders, E, g[1..k-1], (k - 1) + 1), (k - 1) + 1)
      BY <2>4, <2>11, ScanStep
    <2> QED BY <2>1, <2>10, <2>11, <2>12
  <1>6. LeastUpTo(orders, E, g[1..n], n)
    BY <1>1, <1>5
  <1>7. \A y \in E : y \in 1..n /\ y <= n /\ y # 0
    BY <1>1
  <1> QED BY <1>1, <1>3, <1>6, <1>7 DEF LeastUpTo

IsRanked(orders, S, s) ==
    /\ s \in SetToSeqs(S)
    /\ \A m, n \in DOMAIN s : m < n => SortsBefore(orders, s[m], s[n])

LEMMA IndicesAreFinite ==
    ASSUME NEW orders, IsBook(orders), NEW S \in SUBSET DOMAIN orders
    PROVE  IsFiniteSet(S) /\ Cardinality(S) \in Nat
  <1>1. IsFiniteSet(DOMAIN orders)
    BY FS_Interval DEF IsBook
  <1> QED BY <1>1, FS_Subset, FS_CardinalityType

\* The best candidate before the sorted others.
LEMMA SortedExtends ==
    ASSUME NEW orders, IsBook(orders), NEW S \in SUBSET DOMAIN orders, S # {},
           NEW best \in S, \A y \in S : y # best => SortsBefore(orders, best, y),
           \E t : IsRanked(orders, S \ {best}, t)
    PROVE  \E s : IsRanked(orders, S, s)
  <1> DEFINE c == Cardinality(S)
             R == S \ {best}
  <1>1. IsFiniteSet(S) /\ c \in Nat /\ R \in SUBSET DOMAIN orders
    BY IndicesAreFinite
  <1>2. Cardinality(R) = c - 1 /\ c - 1 \in Nat
    <2>1. Cardinality(R) = c - 1
      BY <1>1, FS_RemoveElement
    <2>2. Cardinality(R) \in Nat
      BY <1>1, IndicesAreFinite
    <2> QED BY <2>1, <2>2
  <1>3. PICK t : IsRanked(orders, R, t)
    OBVIOUS
  <1> HIDE DEF c
  <1>4. /\ t \in [1..c-1 -> R]
        /\ \A m, n \in 1..c-1 : m # n => t[m] # t[n]
        /\ \A m, n \in 1..c-1 : m < n => SortsBefore(orders, t[m], t[n])
    BY <1>2, <1>3 DEF IsRanked, SetToSeqs
  <1> DEFINE s == [k \in 1..c |-> IF k = 1 THEN best ELSE t[k - 1]]
  <1>5. DOMAIN s = 1..c /\ \A k \in 1..c : k # 1 => k - 1 \in 1..c-1
    BY <1>1
  <1>6. \A k \in 1..c : k # 1 => s[k] = t[k - 1] /\ s[k] \in R
    BY <1>4, <1>5
  <1>7. \A k \in 1..c : k = 1 => s[k] = best
    BY <1>5
  <1>8. s \in [1..c -> S]
    BY <1>6, <1>7
  <1> HIDE DEF s
  <1>9. ASSUME NEW m \in 1..c, NEW n \in 1..c, m < n
        PROVE  SortsBefore(orders, s[m], s[n]) /\ s[m] # s[n]
    <2>1. n # 1 /\ n - 1 \in 1..c-1 /\ s[n] = t[n - 1] /\ s[n] \in R
      BY <1>5, <1>6, <1>9
    <2>2. CASE m = 1
      BY <1>7, <2>1, <2>2
    <2>3. CASE m # 1
      <3>1. m - 1 \in 1..c-1 /\ s[m] = t[m - 1] /\ m - 1 < n - 1 /\ m - 1 # n - 1
        BY <1>5, <1>6, <1>9, <2>3
      <3> QED BY <1>4, <2>1, <3>1
    <2> QED BY <2>2, <2>3
  <1>10. \A m, n \in 1..c : m # n => s[m] # s[n]
    <2>1. \A m, n \in 1..c : m # n => m < n \/ n < m
      OBVIOUS
    <2> QED BY <1>9, <2>1
  <1>11. s \in SetToSeqs(S)
    BY <1>8, <1>10 DEF SetToSeqs, c
  <1>12. IsRanked(orders, S, s)
    BY <1>5, <1>9, <1>11 DEF IsRanked
  <1> QED BY <1>12

\* Every set of candidates can be sorted.
LEMMA SortedExists ==
    ASSUME NEW orders, IsBook(orders), NEW S \in SUBSET DOMAIN orders
    PROVE  \E s : IsRanked(orders, S, s)
  <1> DEFINE Unsorted == {U \in SUBSET DOMAIN orders : ~\E s : IsRanked(orders, U, s)}
             Sizes == {Cardinality(U) : U \in Unsorted}
  <1> SUFFICES ASSUME Unsorted # {} PROVE FALSE
    OBVIOUS
  <1>1. \A U \in Unsorted : U \in SUBSET DOMAIN orders /\ Cardinality(U) \in Nat /\ IsFiniteSet(U)
    BY IndicesAreFinite
  <1>2. Sizes \subseteq Nat /\ Sizes # {}
    BY <1>1
  <1>3. \A U \in Unsorted : Cardinality(U) \in Sizes
    OBVIOUS
  <1>4. PICK c \in Sizes : \A d \in Sizes : c <= d
    <2> HIDE DEF Sizes
    <2> QED BY <1>2, LeastNat
  <1>5. PICK U \in Unsorted : c = Cardinality(U)
    OBVIOUS
  <1>6. U # {}
    <2> SUFFICES ASSUME U = {} PROVE FALSE
      OBVIOUS
    <2> DEFINE none == [k \in 1..0 |-> 0]
    <2>1. 1..0 = {} /\ Cardinality(U) = 0
      BY FS_EmptySet
    <2>2. none \in SetToSeqs(U) /\ DOMAIN none = {}
      BY <2>1 DEF SetToSeqs
    <2>3. IsRanked(orders, U, none)
      BY <2>2 DEF IsRanked
    <2> QED BY <2>3
  <1> DEFINE best == BestOf(orders, U)
  <1>7. best \in U /\ \A y \in U : y # best => SortsBefore(orders, best, y)
    BY <1>1, <1>6, BestIsLeast
  <1> HIDE DEF best
  <1>8. U \ {best} \in SUBSET DOMAIN orders /\ Cardinality(U \ {best}) = c - 1 /\ c \in Nat
    BY <1>1, <1>5, <1>7, FS_RemoveElement
  <1>9. U \ {best} \notin Unsorted
    <2> HIDE DEF Unsorted, Sizes
    <2> QED BY <1>3, <1>4, <1>8
  <1>10. \E t : IsRanked(orders, U \ {best}, t)
    BY <1>8, <1>9
  <1>11. \E s : IsRanked(orders, U, s)
    <2>1. U \in SUBSET DOMAIN orders
      BY <1>1
    <2> HIDE DEF Unsorted
    <2> QED BY <1>6, <1>7, <1>10, <2>1, SortedExtends
  <1> QED BY <1>11

\* The served candidates are the partners, and the best is the first.
LEMMA CandidatesAreSorted ==
    ASSUME NEW orders, IsBook(orders), NEW i \in DOMAIN orders, NEW now
    PROVE  LET P == Partners(orders, i, now)
               s == Candidates(orders, i, now)
           IN  /\ s \in Seq(DOMAIN orders)
               /\ \A k \in DOMAIN s : s[k] \in P
               /\ \A y \in P : \E k \in DOMAIN s : s[k] = y
               /\ P # {} => 1 \in DOMAIN s /\ s[1] = BestOf(orders, P)
  <1> DEFINE P == Partners(orders, i, now)
             s == Candidates(orders, i, now)
             c == Cardinality(P)
  <1>1. P \in SUBSET DOMAIN orders
    BY DEF Partners
  <1>2. IsFiniteSet(P) /\ c \in Nat
    BY <1>1, IndicesAreFinite
  <1>3. IsRanked(orders, P, s)
    <2>1. \E t \in SetToSeqs(P) :
            \A m, n \in DOMAIN t : m < n => SortsBefore(orders, t[m], t[n])
      BY <1>1, SortedExists DEF IsRanked
    <2> QED BY <2>1 DEF IsRanked, Candidates
  <1> HIDE DEF s, P, c
  <1>4. /\ s \in [1..c -> P]
        /\ \A m, n \in 1..c : m # n => s[m] # s[n]
        /\ \A m, n \in 1..c : m < n => SortsBefore(orders, s[m], s[n])
    BY <1>3 DEF IsRanked, SetToSeqs, c
  <1>5. s \in Surjection(1..c, P)
    <2>1. s \in Injection(1..c, P)
      BY <1>4 DEF Injection, IsInjective
    <2>2. Cardinality(1..c) = c
      BY <1>2, FS_Interval
    <2> QED BY <1>2, <2>1, <2>2, FS_Injection DEF c
  <1>6. \A y \in P : \E k \in 1..c : s[k] = y
    BY <1>5 DEF Surjection
  <1>7. s \in Seq(DOMAIN orders)
    BY <1>1, <1>2, <1>4
  <1>8. ASSUME P # {} PROVE 1 \in 1..c /\ s[1] = BestOf(orders, P)
    <2> DEFINE best == BestOf(orders, P)
    <2>1. best \in P /\ \A y \in P : y # best => SortsBefore(orders, best, y)
      BY <1>1, <1>8, BestIsLeast
    <2> HIDE DEF best
    <2>2. PICK k \in 1..c : s[k] = best
      BY <1>6, <2>1
    <2>3. 1 \in 1..c /\ s[1] \in P
      BY <1>2, <1>4, <2>2
    <2>4. CASE k = 1
      BY <2>2, <2>3, <2>4 DEF best
    <2>5. CASE k # 1
      <3>1. SortsBefore(orders, s[1], best) /\ s[1] # best
        BY <1>4, <2>2, <2>3, <2>5
      <3>2. SortsBefore(orders, best, s[1])
        BY <2>1, <2>3, <3>1
      <3>3. s[1] \in DOMAIN orders /\ best \in DOMAIN orders
        BY <1>1, <2>1, <2>3
      <3> QED BY <3>1, <3>2, <3>3, SortsBeforeIsTotal
    <2> QED BY <2>4, <2>5
  <1> QED BY <1>4, <1>6, <1>7, <1>8 DEF P, s

-----------------------------------------------------------------------------
(* matches_for: the candidates of all orders of a maker, one after another *)

IsFlat(f, seqs) ==
    f = [i \in 1..Len(seqs) |-> IF i = 1 THEN seqs[i] ELSE f[i-1] \o seqs[i]]

LEMMA FlattenIsChosen ==
    ASSUME NEW seqs, Len(seqs) # 0
    PROVE  FlattenSeq(seqs) = (CHOOSE f : IsFlat(f, seqs))[Len(seqs)]
  BY DEF FlattenSeq, IsFlat

FlatUpTo(f, seqs, k) ==
    \A i \in 1..k : f[i] = IF i = 1 THEN seqs[i] ELSE f[i-1] \o seqs[i]

LEMMA FlatExtends ==
    ASSUME NEW seqs, NEW k \in Nat, \E f : FlatUpTo(f, seqs, k)
    PROVE  \E f : FlatUpTo(f, seqs, k + 1)
  <1> PICK f : FlatUpTo(f, seqs, k)
    OBVIOUS
  <1> DEFINE h == [i \in 1..k+1 |-> IF i = 1 THEN seqs[i] ELSE f[i-1] \o seqs[i]]
  <1> SUFFICES FlatUpTo(h, seqs, k + 1)
    OBVIOUS
  <1>1. ASSUME NEW i \in 1..k PROVE h[i] = f[i]
    <2>1. i \in 1..k+1
      OBVIOUS
    <2> QED BY <2>1, Zenon DEF FlatUpTo
  <1>2. ASSUME NEW i \in 1..k+1, i # 1 PROVE h[i] = h[i-1] \o seqs[i]
    <2>1. i - 1 \in 1..k
      BY <1>2
    <2>2. h[i-1] = f[i-1]
      BY <1>1, <2>1
    <2> QED BY <1>2, <2>2
  <1>3. ASSUME NEW i \in 1..k+1, i = 1 PROVE h[i] = seqs[i]
    BY <1>3
  <1> HIDE DEF h
  <1> QED BY <1>2, <1>3 DEF FlatUpTo

LEMMA FlatExists ==
    ASSUME NEW seqs, Len(seqs) \in Nat
    PROVE  \E f : IsFlat(f, seqs)
  <1> DEFINE Missing == {k \in Nat : ~\E f : FlatUpTo(f, seqs, k)}
             n == Len(seqs)
  <1>1. \A k \in Nat : \E f : FlatUpTo(f, seqs, k)
    <2> SUFFICES ASSUME Missing # {} PROVE FALSE
      OBVIOUS
    <2>1. PICK k \in Missing : \A m \in Missing : k <= m
      <3>1. Missing \subseteq Nat
        OBVIOUS
      <3> HIDE DEF Missing
      <3> QED BY <3>1, LeastNat
    <2>2. k # 0
      <3>1. \A f : FlatUpTo(f, seqs, 0)
        BY DEF FlatUpTo
      <3> QED BY <3>1
    <2>3. k - 1 \in Nat /\ k - 1 \notin Missing
      BY <2>1, <2>2
    <2>4. \E f : FlatUpTo(f, seqs, (k - 1) + 1)
      BY <2>3, FlatExtends
    <2>5. (k - 1) + 1 = k
      BY <2>3
    <2> QED BY <2>4, <2>5
  <1>2. PICK f : FlatUpTo(f, seqs, n)
    BY <1>1
  <1> DEFINE h == [i \in 1..n |-> f[i]]
  <1>3. \A i \in 1..n : i # 1 => i - 1 \in 1..n
    OBVIOUS
  <1>4. h = [i \in 1..n |-> IF i = 1 THEN seqs[i] ELSE h[i-1] \o seqs[i]]
    BY <1>2, <1>3 DEF FlatUpTo
  <1> QED BY <1>4 DEF IsFlat

\* Entry m of sequence a is in flat, behind nothing but entries that precede it.
Placed(flat, seqs, a, m) ==
    \E p \in DOMAIN flat :
        /\ flat[p] = seqs[a][m]
        /\ \A q \in 1..p-1 : \E c \in 1..a : \E l \in DOMAIN seqs[c] :
               flat[q] = seqs[c][l] /\ (c < a \/ l < m)

\* The entries of flat are those of the first k sequences, each at its place.
Lists(flat, seqs, k) ==
    /\ \A p \in DOMAIN flat :
           \E a \in 1..k : \E m \in DOMAIN seqs[a] : flat[p] = seqs[a][m]
    /\ \A a \in 1..k : \A m \in DOMAIN seqs[a] : Placed(flat, seqs, a, m)

LEMMA ListsFirst ==
    ASSUME NEW A, NEW seqs \in Seq(Seq(A)), 1 \in DOMAIN seqs
    PROVE  Lists(seqs[1], seqs, 1)
  <1>1. seqs[1] \in Seq(A)
    OBVIOUS
  <1>2. ASSUME NEW m \in DOMAIN seqs[1], NEW q \in 1..m-1
        PROVE  q \in DOMAIN seqs[1] /\ q < m
    BY <1>1
  <1>3. \A a \in 1..1 : a = 1
    OBVIOUS
  <1> QED BY <1>2, <1>3 DEF Lists, Placed

LEMMA ListsNext ==
    ASSUME NEW A, NEW seqs \in Seq(Seq(A)), NEW k \in Nat, k + 1 \in DOMAIN seqs,
           k # 0, NEW flat \in Seq(A), Lists(flat, seqs, k)
    PROVE  Lists(flat \o seqs[k + 1], seqs, k + 1)
  <1> DEFINE t == seqs[k + 1]
             new == flat \o t
             n == Len(flat)
  <1>1. t \in Seq(A) /\ n \in Nat /\ Len(t) \in Nat /\ DOMAIN flat = 1..n /\ DOMAIN t = 1..Len(t)
    OBVIOUS
  <1>2. DOMAIN new = 1..n + Len(t)
    BY <1>1
  <1>3. \A p \in 1..n : p \in DOMAIN new /\ new[p] = flat[p]
    BY <1>1
  <1>4. \A m \in 1..Len(t) : n + m \in DOMAIN new /\ new[n + m] = t[m]
    BY <1>1
  <1>5. \A p \in DOMAIN new : p \in 1..n \/ (p - n \in 1..Len(t) /\ p = n + (p - n))
    BY <1>1, <1>2
  <1> HIDE DEF new, t, n
  <1>6. ASSUME NEW p \in DOMAIN new
        PROVE  \E a \in 1..k+1 : \E m \in DOMAIN seqs[a] : new[p] = seqs[a][m]
    <2>1. CASE p \in 1..n
      <3>1. PICK a \in 1..k : \E m \in DOMAIN seqs[a] : flat[p] = seqs[a][m]
        BY <1>1, <2>1 DEF Lists
      <3>2. a \in 1..k+1
        OBVIOUS
      <3> QED BY <1>3, <2>1, <3>1, <3>2
    <2>2. CASE p - n \in 1..Len(t) /\ p = n + (p - n)
      <3>1. new[p] = seqs[k + 1][p - n] /\ p - n \in DOMAIN seqs[k + 1] /\ k + 1 \in 1..k+1
        BY <1>1, <1>4, <2>2 DEF t
      <3> QED BY <3>1
    <2> QED BY <1>5, <2>1, <2>2
  <1>7. ASSUME NEW a \in 1..k, NEW m \in DOMAIN seqs[a]
        PROVE  Placed(new, seqs, a, m)
    <2>1. PICK p \in DOMAIN flat :
                 /\ flat[p] = seqs[a][m]
                 /\ \A q \in 1..p-1 : \E c \in 1..a : \E l \in DOMAIN seqs[c] :
                        flat[q] = seqs[c][l] /\ (c < a \/ l < m)
      BY DEF Lists, Placed
    <2>2. p \in 1..n /\ \A q \in 1..p-1 : q \in 1..n
      BY <1>1
    <2>3. p \in DOMAIN new /\ new[p] = seqs[a][m] /\ \A q \in 1..p-1 : new[q] = flat[q]
      BY <1>3, <2>1, <2>2
    <2>4. \A q \in 1..p-1 : \E c \in 1..a : \E l \in DOMAIN seqs[c] :
              new[q] = seqs[c][l] /\ (c < a \/ l < m)
      BY <2>1, <2>3, Zenon
    <2> QED BY <2>3, <2>4, Zenon DEF Placed
  <1>8. ASSUME NEW m \in DOMAIN seqs[k + 1]
        PROVE  Placed(new, seqs, k + 1, m)
    <2>1. m \in 1..Len(t) /\ n + m \in DOMAIN new /\ new[n + m] = seqs[k + 1][m]
      BY <1>1, <1>4 DEF t
    <2>2. ASSUME NEW q \in 1..(n + m)-1
          PROVE  \E c \in 1..k+1 : \E l \in DOMAIN seqs[c] :
                        new[q] = seqs[c][l] /\ (c < k + 1 \/ l < m)
      <3>1. CASE q \in 1..n
        <4>1. PICK c \in 1..k : \E l \in DOMAIN seqs[c] : flat[q] = seqs[c][l]
          BY <1>1, <3>1 DEF Lists
        <4>2. c \in 1..k+1 /\ c < k + 1
          OBVIOUS
        <4>3. PICK l \in DOMAIN seqs[c] : flat[q] = seqs[c][l]
          BY <4>1
        <4>4. new[q] = seqs[c][l]
          BY <1>3, <3>1, <4>3
        <4> QED BY <4>2, <4>4, Zenon
      <3>2. CASE q \notin 1..n
        <4>1. q - n \in 1..Len(t) /\ q = n + (q - n) /\ q - n < m
          BY <1>1, <2>1, <3>2
        <4>2. new[q] = seqs[k + 1][q - n] /\ q - n \in DOMAIN seqs[k + 1] /\ k + 1 \in 1..k+1
          BY <1>1, <1>4, <4>1 DEF t
        <4> QED BY <4>1, <4>2
      <3> QED BY <3>1, <3>2
    <2> QED BY <2>1, <2>2 DEF Placed
  <1>9. \A a \in 1..k+1 : a \in 1..k \/ a = k + 1
    OBVIOUS
  <1>10. Lists(new, seqs, k + 1)
    BY <1>6, <1>7, <1>8, <1>9 DEF Lists
  <1> QED BY <1>10 DEF new, t

\* Flattening lists all sequences, one after another.
LEMMA FlattenLists ==
    ASSUME NEW A, NEW seqs \in Seq(Seq(A)), seqs # <<>>
    PROVE  FlattenSeq(seqs) \in Seq(A) /\ Lists(FlattenSeq(seqs), seqs, Len(seqs))
  <1> DEFINE n == Len(seqs)
             f == CHOOSE h : IsFlat(h, seqs)
  <1>1. n \in Nat /\ n # 0 /\ DOMAIN seqs = 1..n
    OBVIOUS
  <1>2. IsFlat(f, seqs)
    BY <1>1, FlatExists
  <1>3. FlattenSeq(seqs) = f[n]
    BY <1>1, FlattenIsChosen
  <1> HIDE DEF f
  <1>4. \A i \in 1..n : f[i] = IF i = 1 THEN seqs[i] ELSE f[i-1] \o seqs[i]
    BY <1>2 DEF IsFlat
  <1> HIDE DEF n
  <1> DEFINE Good(k) == f[k] \in Seq(A) /\ Lists(f[k], seqs, k)
             Wrong == {k \in 1..n : ~Good(k)}
  <1>5. Wrong = {}
    <2> SUFFICES ASSUME Wrong # {} PROVE FALSE
      OBVIOUS
    <2>1. PICK k \in Wrong : \A m \in Wrong : k <= m
      <3>1. Wrong \subseteq Nat
        OBVIOUS
      <3> HIDE DEF Wrong
      <3> QED BY <3>1, LeastNat
    <2>2. k # 1
      <3>1. 1 \in 1..n /\ f[1] = seqs[1]
        BY <1>1, <1>4
      <3>2. seqs[1] \in Seq(A) /\ Lists(seqs[1], seqs, 1)
        BY <1>1, <3>1, ListsFirst
      <3>3. Good(1)
        BY <3>1, <3>2
      <3> QED BY <3>3
    <2>3. k - 1 \in 1..n /\ k - 1 \notin Wrong /\ k \in 1..n
      BY <1>1, <2>1, <2>2
    <2>4. f[k-1] \in Seq(A) /\ Lists(f[k-1], seqs, k - 1)
      BY <2>3
    <2>5. f[k] = f[k-1] \o seqs[k]
      BY <1>4, <2>2, <2>3
    <2>6. k - 1 \in Nat /\ k - 1 # 0 /\ (k - 1) + 1 = k /\ k \in DOMAIN seqs /\ seqs[k] \in Seq(A)
      BY <1>1, <2>3
    <2>7. Lists(f[k-1] \o seqs[(k - 1) + 1], seqs, (k - 1) + 1)
      BY <2>4, <2>6, ListsNext
    <2>8. f[k] \in Seq(A)
      BY <2>4, <2>5, <2>6
    <2>9. Good(k)
      BY <2>5, <2>6, <2>7, <2>8
    <2> QED BY <2>9
  <1>6. Good(n)
    BY <1>1, <1>5
  <1> QED BY <1>3, <1>6 DEF n

\* The partners of order a, as pairs with a.
Deals(orders, a, now) == {<<a, b>> : b \in Partners(orders, a, now)}

\* What a maker is served: the deals of its orders, and of each order the best
\* before the others.
Serves(served, orders, maker, now) ==
    /\ served \in Seq(Nat \X Nat)
    /\ \A p \in DOMAIN served :
           \E a \in DOMAIN orders :
               orders[a].maker = maker /\ served[p] \in Deals(orders, a, now)
    /\ \A a \in DOMAIN orders : orders[a].maker = maker =>
           /\ \A d \in Deals(orders, a, now) : \E p \in DOMAIN served : served[p] = d
           /\ Deals(orders, a, now) # {} =>
                  \E p \in DOMAIN served :
                      /\ served[p] = <<a, BestOf(orders, Partners(orders, a, now))>>
                      /\ \A q \in 1..p-1 : served[q][1] # a

LEMMA MatchesAreServed ==
    ASSUME NEW orders, IsBook(orders), DOMAIN orders # {}, NEW maker, NEW now
    PROVE  Serves(MatchesFor(orders, maker, now), orders, maker, now)
  <1> DEFINE A == Nat \X Nat
             n == Len(orders)
             Cands(a) == Candidates(orders, a, now)
             List(a) == [k \in DOMAIN Cands(a) |-> <<a, Cands(a)[k]>>]
             seqs == [a \in DOMAIN orders |-> IF orders[a].maker # maker THEN <<>> ELSE List(a)]
             served == MatchesFor(orders, maker, now)
  <1>1. n \in Nat /\ DOMAIN orders = 1..n /\ n # 0
    BY DEF IsBook
  <1>2. ASSUME NEW a \in DOMAIN orders
        PROVE  /\ List(a) \in Seq(A) /\ DOMAIN List(a) = DOMAIN Cands(a)
               /\ \A k \in DOMAIN List(a) : List(a)[k] \in Deals(orders, a, now) /\ List(a)[k][1] = a
               /\ \A d \in Deals(orders, a, now) : \E k \in DOMAIN List(a) : List(a)[k] = d
               /\ Deals(orders, a, now) # {} =>
                      /\ 1 \in DOMAIN List(a)
                      /\ List(a)[1] = <<a, BestOf(orders, Partners(orders, a, now))>>
    <2> DEFINE s == Cands(a)
               P == Partners(orders, a, now)
    <2>1. /\ s \in Seq(DOMAIN orders)
          /\ \A k \in DOMAIN s : s[k] \in P
          /\ \A y \in P : \E k \in DOMAIN s : s[k] = y
          /\ P # {} => 1 \in DOMAIN s /\ s[1] = BestOf(orders, P)
      BY CandidatesAreSorted
    <2>2. Deals(orders, a, now) = {<<a, b>> : b \in P}
      BY DEF Deals
    <2> HIDE DEF s, P
    <2>3. DOMAIN s = 1..Len(s) /\ Len(s) \in Nat /\ a \in Nat
      BY <1>1, <2>1
    <2>4. \A k \in DOMAIN s : <<a, s[k]>> \in A
      BY <1>1, <2>1, <2>3
    <2> DEFINE t == [k \in DOMAIN s |-> <<a, s[k]>>]
    <2>5. t \in Seq(A) /\ DOMAIN t = DOMAIN s
      BY <2>3, <2>4
    <2>6. \A k \in DOMAIN s : t[k] = <<a, s[k]>> /\ t[k][1] = a
      OBVIOUS
    <2>7. List(a) = t
      BY DEF s
    <2> HIDE DEF t, List
    <2>8. \A k \in DOMAIN t : t[k] \in Deals(orders, a, now) /\ t[k][1] = a
      BY <2>1, <2>2, <2>5, <2>6
    <2>9. ASSUME NEW d \in Deals(orders, a, now) PROVE \E k \in DOMAIN t : t[k] = d
      <3>1. PICK b \in P : d = <<a, b>>
        BY <2>2
      <3>2. PICK k \in DOMAIN s : s[k] = b
        BY <2>1
      <3> QED BY <2>5, <2>6, <3>1, <3>2
    <2>10. Deals(orders, a, now) # {} => 1 \in DOMAIN t /\ t[1] = <<a, BestOf(orders, P)>>
      BY <2>1, <2>2, <2>5, <2>6
    <2> QED BY <2>5, <2>7, <2>8, <2>9, <2>10 DEF s, P
  <1>3. served = FlattenSeq(seqs)
    BY DEF MatchesFor
  <1> HIDE DEF List, served
  <1>4. \A a \in DOMAIN orders :
            seqs[a] = (IF orders[a].maker # maker THEN <<>> ELSE List(a)) /\ seqs[a] \in Seq(A)
    BY <1>2
  <1>5. seqs \in Seq(Seq(A)) /\ Len(seqs) = n /\ seqs # <<>> /\ DOMAIN seqs = 1..n
    BY <1>1, <1>4
  <1> HIDE DEF seqs, n, A
  <1>6. served \in Seq(A) /\ Lists(served, seqs, n)
    BY <1>3, <1>5, FlattenLists
  <1>7. \A a \in 1..n : \A m \in DOMAIN seqs[a] :
            orders[a].maker = maker /\ seqs[a] = List(a) /\ m \in DOMAIN List(a)
    BY <1>1, <1>4
  <1>8. ASSUME NEW p \in DOMAIN served
        PROVE  \E a \in DOMAIN orders :
                   orders[a].maker = maker /\ served[p] \in Deals(orders, a, now)
    <2>1. PICK a \in 1..n : \E m \in DOMAIN seqs[a] : served[p] = seqs[a][m]
      BY <1>6 DEF Lists
    <2>2. PICK m \in DOMAIN seqs[a] : served[p] = seqs[a][m]
      BY <2>1
    <2> QED BY <1>1, <1>2, <1>7, <2>2
  <1>9. ASSUME NEW a \in DOMAIN orders, orders[a].maker = maker, NEW d \in Deals(orders, a, now)
        PROVE  \E p \in DOMAIN served : served[p] = d
    <2>1. PICK k \in DOMAIN List(a) : List(a)[k] = d
      BY <1>2
    <2>2. seqs[a] = List(a) /\ a \in 1..n
      BY <1>1, <1>4, <1>9
    <2>3. Placed(served, seqs, a, k)
      BY <1>6, <2>2 DEF Lists
    <2> QED BY <2>1, <2>2, <2>3 DEF Placed
  <1>10. ASSUME NEW a \in DOMAIN orders, orders[a].maker = maker, Deals(orders, a, now) # {}
         PROVE  \E p \in DOMAIN served :
                    /\ served[p] = <<a, BestOf(orders, Partners(orders, a, now))>>
                    /\ \A q \in 1..p-1 : served[q][1] # a
    <2>1. 1 \in DOMAIN List(a) /\ List(a)[1] = <<a, BestOf(orders, Partners(orders, a, now))>>
      BY <1>2, <1>10
    <2>2. seqs[a] = List(a) /\ a \in 1..n
      BY <1>1, <1>4, <1>10
    <2>3. Placed(served, seqs, a, 1)
      BY <1>6, <2>1, <2>2 DEF Lists
    <2>4. PICK p \in DOMAIN served :
              /\ served[p] = seqs[a][1]
              /\ \A q \in 1..p-1 : \E c \in 1..a : \E l \in DOMAIN seqs[c] :
                     served[q] = seqs[c][l] /\ (c < a \/ l < 1)
      BY <2>3 DEF Placed
    <2>5. ASSUME NEW q \in 1..p-1 PROVE served[q][1] # a
      <3>1. PICK c \in 1..a : \E l \in DOMAIN seqs[c] :
                     served[q] = seqs[c][l] /\ (c < a \/ l < 1)
        BY <2>4
      <3>2. PICK l \in DOMAIN seqs[c] : served[q] = seqs[c][l] /\ (c < a \/ l < 1)
        BY <3>1
      <3>3. c \in 1..n /\ c \in DOMAIN orders /\ seqs[c] \in Seq(A)
        BY <1>1, <1>4, <2>2
      <3>4. l \in 1..Len(seqs[c])
        BY <3>3
      <3>5. c < a
        BY <3>2, <3>4
      <3>6. served[q][1] = c
        BY <1>2, <1>7, <3>2, <3>3
      <3> QED BY <2>2, <3>3, <3>5, <3>6
    <2> QED BY <2>1, <2>2, <2>4, <2>5
  <1>11. Serves(served, orders, maker, now)
    BY <1>6, <1>8, <1>9, <1>10 DEF Serves, A
  <1> QED BY <1>11 DEF served

\* The index of the first pair of order i.
First(seq, i) == SelectInSeq(seq, LAMBDA pair : pair[1] = i)

LEMMA FirstPair ==
    ASSUME NEW seq, Len(seq) \in Nat, NEW i
    PROVE  /\ (\A p \in 1..Len(seq) : seq[p][1] # i) => First(seq, i) = 0
           /\ \A p \in 1..Len(seq) :
                  seq[p][1] = i /\ (\A q \in 1..p-1 : seq[q][1] # i) => First(seq, i) = p
  <1> DEFINE I == {p \in 1..Len(seq) : seq[p][1] = i}
             first == First(seq, i)
  <1>1. first = IF I # {} THEN Min(I) ELSE 0
    BY DEF First, SelectInSeq
  <1>2. I \subseteq Nat /\ \A p \in I : p # 0
    OBVIOUS
  <1>3. \A p \in 1..Len(seq) : p \in I <=> seq[p][1] = i
    OBVIOUS
  <1>4. \A p \in I : p \in 1..Len(seq)
    OBVIOUS
  <1> HIDE DEF I, first
  <1>5. I # {} => Min(I) \in I /\ \A p \in I : Min(I) <= p
    BY <1>2, LeastNat DEF Min
  <1>6. (\A p \in 1..Len(seq) : seq[p][1] # i) => first = 0
    BY <1>1, <1>3, <1>4
  <1>7. ASSUME NEW p \in 1..Len(seq), seq[p][1] = i, \A q \in 1..p-1 : seq[q][1] # i
        PROVE  first = p
    <2>1. p \in I /\ first \in I /\ first <= p
      BY <1>1, <1>3, <1>5, <1>7
    <2>2. first \in 1..Len(seq) /\ seq[first][1] = i
      BY <1>3, <1>4, <2>1
    <2>3. first \notin 1..p-1
      BY <1>7, <2>2
    <2> QED BY <2>1, <2>2, <2>3
  <1> QED BY <1>6, <1>7 DEF first

\* find_match's pair is an order with partners and its best one.
LEMMA FoundIsBest ==
    ASSUME NEW orders, IsBook(orders), NEW now, FindMatch(orders, now) # <<>>
    PROVE  \E i \in DOMAIN orders :
               /\ Partners(orders, i, now) # {}
               /\ FindMatch(orders, now) = <<i, BestOf(orders, Partners(orders, i, now))>>
  <1> DEFINE Best(i) == BestOf(orders, Partners(orders, i, now))
             n == Len(orders)
             I == {i \in 1..n : Best(Indices(orders)[i]) # 0}
             first == SelectInSeq(Indices(orders), LAMBDA i : Best(i) # 0)
  <1>1. n \in Nat /\ DOMAIN orders = 1..n
    BY DEF IsBook
  <1>2. Len(Indices(orders)) = n /\ \A i \in 1..n : Indices(orders)[i] = i
    BY <1>1 DEF Indices
  <1>3. first = IF I # {} THEN Min(I) ELSE 0
    BY <1>2 DEF SelectInSeq
  <1>4. FindMatch(orders, now) = IF first = 0 THEN <<>> ELSE <<first, Best(first)>>
    BY DEF FindMatch
  <1> HIDE DEF first
  <1>5. first # 0 /\ I # {} /\ I \subseteq Nat
    BY <1>3, <1>4
  <1>6. Min(I) \in I
    <2> HIDE DEF I
    <2> QED BY <1>5, LeastNat DEF Min
  <1>7. first \in 1..n /\ Best(first) # 0
    BY <1>2, <1>3, <1>5, <1>6
  <1>8. Partners(orders, first, now) # {}
    BY <1>1, <1>7, BestIsLeast
  <1> QED BY <1>1, <1>4, <1>5, <1>7, <1>8

LEMMA BookIsRanked == TypeOK => IsBook(book)
  <1> SUFFICES ASSUME TypeOK PROVE IsBook(book)
    OBVIOUS
  <1>1. Len(book) \in Nat /\ DOMAIN book = 1..Len(book) /\ \A x \in DOMAIN book : book[x] \in Orders
    BY DEF TypeOK
  <1>2. ASSUME NEW o \in Orders PROVE o.sellAmount \in Nat /\ o.createdAt \in Nat /\ o.nonce \in Nat
    <2>1. PICK post \in Posts, t \in 0..MaxTime : o = IntoOrder(post.dto, t)
      BY DEF Orders
    <2>2. post.dto \in Dto /\ t \in Nat
      BY BookConstants
    <2> QED BY <2>1, <2>2 DEF IntoOrder, Dto
  <1> QED BY <1>1, <1>2 DEF IsBook, Ranked

LEMMA ServedIn == IInv => ServedAsRanked
  <1> SUFFICES ASSUME IInv PROVE ServedAsRanked
    OBVIOUS
  <1> DEFINE Served(i) == MatchesFor(book, book[i].maker, clock)
             FirstFor(i) == First(Served(i), i)
             Best(i) == BestOf(book, Partners(book, i, clock))
             found == FindMatch(book, clock)
  <1>1. IsBook(book) /\ DOMAIN book = 1..Len(book)
    BY BookIsRanked DEF IInv, IsBook
  <1>2. \A i \in DOMAIN book : Serves(Served(i), book, book[i].maker, clock)
    BY <1>1, MatchesAreServed
  <1>3. \A i \in DOMAIN book : Deals(book, i, clock) = {} <=> Partners(book, i, clock) = {}
    BY DEF Deals
  <1>4. ASSUME NEW i \in DOMAIN book, Partners(book, i, clock) # {}
        PROVE  FirstFor(i) # 0 /\ Served(i)[FirstFor(i)] = <<i, Best(i)>>
    <2> DEFINE seq == Served(i)
    <2>1. PICK p \in DOMAIN seq : seq[p] = <<i, Best(i)>> /\ \A q \in 1..p-1 : seq[q][1] # i
      BY <1>2, <1>3, <1>4 DEF Serves
    <2>2. seq \in Seq(Nat \X Nat)
      BY <1>2 DEF Serves
    <2> HIDE DEF seq
    <2>3. Len(seq) \in Nat /\ p \in 1..Len(seq) /\ p # 0 /\ seq[p][1] = i
      BY <2>1, <2>2
    <2>4. First(seq, i) = p
      BY <2>1, <2>3, FirstPair
    <2> QED BY <2>1, <2>3, <2>4 DEF seq
  <1>5. ASSUME NEW i \in DOMAIN book, Partners(book, i, clock) = {}
        PROVE  FirstFor(i) = 0 /\ Best(i) = 0
    <2> DEFINE seq == Served(i)
    <2>1. Best(i) = 0
      BY <1>1, <1>5, BestIsLeast
    <2>2. Serves(seq, book, book[i].maker, clock)
      BY <1>2
    <2> HIDE DEF seq
    <2>3. ASSUME NEW p \in 1..Len(seq) PROVE seq[p][1] # i
      <3>1. p \in DOMAIN seq
        BY <2>2 DEF Serves
      <3>2. PICK a \in DOMAIN book : seq[p] \in Deals(book, a, clock)
        BY <2>2, <3>1 DEF Serves
      <3> QED BY <1>3, <1>5, <3>2 DEF Deals
    <2>4. Len(seq) \in Nat
      BY <2>2 DEF Serves
    <2> QED BY <2>1, <2>3, <2>4, FirstPair DEF seq
  <1>6. ASSUME found # <<>>
        PROVE  FirstFor(found[1]) # 0 /\ Served(found[1])[FirstFor(found[1])] = found
    <2>1. PICK i \in DOMAIN book : Partners(book, i, clock) # {} /\ found = <<i, Best(i)>>
      BY <1>1, <1>6, FoundIsBest
    <2>2. found[1] = i
      BY <2>1
    <2> HIDE DEF found, FirstFor, Served
    <2> QED BY <1>4, <2>1, <2>2
  <1>7. ASSUME NEW i \in DOMAIN book, NEW k \in DOMAIN Served(i)
        PROVE  \E m \in DOMAIN Served(Served(i)[k][2]) :
                   Served(Served(i)[k][2])[m] = <<Served(i)[k][2], Served(i)[k][1]>>
    <2>1. PICK a \in DOMAIN book : Served(i)[k] \in Deals(book, a, clock)
      BY <1>2 DEF Serves
    <2>2. PICK b \in Partners(book, a, clock) : Served(i)[k] = <<a, b>>
      BY <2>1 DEF Deals
    <2>3. b \in DOMAIN book /\ a # b /\ Compatible(book[a], book[b], clock)
      BY DEF Partners
    <2>4. Compatible(book[b], book[a], clock)
      BY <2>3 DEF Compatible, Mirrors, Crosses
    <2>5. <<b, a>> \in Deals(book, b, clock)
      BY <2>3, <2>4 DEF Partners, Deals
    <2>6. \E m \in DOMAIN Served(b) : Served(b)[m] = <<b, a>>
      BY <1>2, <2>3, <2>5 DEF Serves
    <2> HIDE DEF Served
    <2>7. Served(i)[k][2] = b /\ Served(i)[k][1] = a
      BY <2>2
    <2> QED BY <2>6, <2>7
  <1>8. \A i \in DOMAIN book :
            IF FirstFor(i) = 0 THEN Best(i) = 0
            ELSE Served(i)[FirstFor(i)] = <<i, Best(i)>>
    BY <1>4, <1>5
  <1> QED BY <1>6, <1>7, <1>8, Zenon DEF ServedAsRanked, First

-----------------------------------------------------------------------------
\* No interleaving of requests puts one signed order into the book twice.
THEOREM OrdersAreUnique == Spec => [](TypeOK /\ NoDuplicates)
  <1>1. Init => IInv
    BY InitIInv
  <1>2. IInv /\ [Next]_vars => IInv'
    BY NextKeepsIInv
  <1> QED BY <1>1, <1>2, PTL DEF Spec, IInv

\* The book holds parsed orders alone, none stamped later than the clock, and a
\* request that waits for the lock keeps the time at which it came.
THEOREM BookTypeCorrect == Spec => []TypeOK
  BY OrdersAreUnique, PTL

\* The path that serves matches keeps the ranking: in any book, the first pair
\* served for an order is the one the scan finds, find_match's pair is served
\* first, and both makers of a match are served it.
THEOREM MatchesAreServedAsRanked == Spec => []ServedAsRanked
  BY OrdersAreUnique, ServedIn, PTL DEF IInv

\* Any two orders that match give a deal both parties' checks accept.
THEOREM DealsAreSound == Spec => []DealIsSound
  BY OrdersAreUnique, DealIsSoundIn, PTL DEF IInv

\* Parties whose roles diverge neither redeem nor lock against each other.
THEOREM DivergenceIsHarmless == Spec => []DivergenceNeverReveals
  BY OrdersAreUnique, DivergenceIn, PTL DEF IInv
=============================================================================
