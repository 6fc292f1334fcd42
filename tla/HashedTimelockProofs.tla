------------------------ MODULE HashedTimelockProofs ------------------------
(***************************************************************************)
(* Theorems about HashedTimelock by itself and when it is called back from *)
(* within its own payments, and the lemmas about it that the proofs of     *)
(* Settlement use too: what a transfer leaves at each address, what the    *)
(* three writes do to a record, and what they do to the sum the contract   *)
(* owes.                                                                   *)
(*                                                                         *)
(* With callbacks the inductive invariant is CInv.  It adds to the         *)
(* solvency what a call in progress looks like: newSwap is waiting for     *)
(* units from somebody else and will write Locked, a payout is waiting for *)
(* the contract's own units to leave and writes nothing any more.          *)
(*                                                                         *)
(* The library's induction theorems take a predicate, which the provers    *)
(* cannot instantiate.  What a sum computes is shown by looking at the     *)
(* least counterexample instead, a member of a set, which they can.        *)
(***************************************************************************)
EXTENDS HtlcCallbacks, Integers, FiniteSetTheorems, SequenceTheorems, TLAPS

(* Sums *)

First(s) == CHOOSE x \in s : TRUE

IsSum(g, f, S) ==
    g = [s \in SUBSET S |-> IF s = {} THEN 0 ELSE f[First(s)] + g[s \ {First(s)}]]

LEMMA SumIsChosen ==
    ASSUME NEW f, NEW S
    PROVE  SumFunctionOnSet(f, S) = (CHOOSE g : IsSum(g, f, S))[S]
  BY DEF SumFunctionOnSet, FoldFunctionOnSet, MapThenFoldSet, IsSum, First

\* Induction: a set of natural numbers that is not empty has a least one.
LEMMA LeastNat ==
    ASSUME NEW T, T \subseteq Nat, T # {}
    PROVE  \E n \in T : \A m \in T : n <= m
  <1>1. IsWellFoundedOn(OpToRel(<, Nat), Nat)
    BY NatLessThanWellFounded
  <1>2. PICK n \in T : \A m \in T : <<m, n>> \notin OpToRel(<, Nat)
    BY <1>1, WFMin
  <1>3. \A m \in T : ~(m < n)
    BY <1>2 DEF OpToRel
  <1> QED BY <1>3

\* The equation of a sum, up to sets of n elements.
SumUpTo(g, f, S, n) ==
    \A s \in SUBSET S : Cardinality(s) <= n =>
        g[s] = IF s = {} THEN 0 ELSE f[First(s)] + g[s \ {First(s)}]

LEMMA FirstIn == ASSUME NEW s, s # {} PROVE First(s) \in s
  BY DEF First

LEMMA SmallerSets ==
    ASSUME NEW S, IsFiniteSet(S), NEW s \in SUBSET S, NEW x \in s
    PROVE  /\ Cardinality(s) \in Nat /\ Cardinality(s) # 0
           /\ s \ {x} \in SUBSET S
           /\ Cardinality(s \ {x}) = Cardinality(s) - 1
  BY FS_Subset, FS_CardinalityType, FS_RemoveElement, FS_EmptySet

LEMMA SumExtends ==
    ASSUME NEW f, NEW S, IsFiniteSet(S), NEW n \in Nat,
           \E g : SumUpTo(g, f, S, n)
    PROVE  \E g : SumUpTo(g, f, S, n + 1)
  <1> PICK g : SumUpTo(g, f, S, n)
    OBVIOUS
  <1> DEFINE h == [s \in SUBSET S |-> IF s = {} THEN 0
                                      ELSE f[First(s)] + g[s \ {First(s)}]]
  <1> SUFFICES SumUpTo(h, f, S, n + 1)
    OBVIOUS
  <1>1. ASSUME NEW s \in SUBSET S, Cardinality(s) <= n PROVE h[s] = g[s]
    BY <1>1 DEF SumUpTo
  <1> SUFFICES ASSUME NEW s \in SUBSET S, Cardinality(s) <= n + 1, s # {}
               PROVE  h[s] = f[First(s)] + h[s \ {First(s)}]
    BY DEF SumUpTo
  <1>2. Cardinality(s \ {First(s)}) <= n /\ s \ {First(s)} \in SUBSET S
    BY FirstIn, SmallerSets
  <1>3. h[s \ {First(s)}] = g[s \ {First(s)}]
    BY <1>1, <1>2
  <1> QED BY <1>3

LEMMA SumExists ==
    ASSUME NEW f, NEW S, IsFiniteSet(S)
    PROVE  \E g : IsSum(g, f, S)
  <1> DEFINE Missing == {n \in Nat : ~\E g : SumUpTo(g, f, S, n)}
  <1>1. \A n \in Nat : \E g : SumUpTo(g, f, S, n)
    <2> SUFFICES ASSUME Missing # {} PROVE FALSE
      OBVIOUS
    <2>1. PICK n \in Missing : \A m \in Missing : n <= m
      BY LeastNat
    <2>2. n # 0
      <3> DEFINE zero == [s \in SUBSET S |-> 0]
      <3>1. \A s \in SUBSET S : Cardinality(s) <= 0 => s = {}
        BY FS_Subset, FS_CardinalityType, FS_EmptySet
      <3>2. SumUpTo(zero, f, S, 0)
        BY <3>1 DEF SumUpTo
      <3> QED BY <3>2
    <2>3. n - 1 \in Nat /\ n - 1 \notin Missing
      BY <2>1, <2>2
    <2>4. \E g : SumUpTo(g, f, S, n - 1)
      BY <2>3
    <2>5. \E g : SumUpTo(g, f, S, (n - 1) + 1)
      BY <2>3, <2>4, SumExtends
    <2> QED BY <2>1, <2>5
  <1>2. PICK g : SumUpTo(g, f, S, Cardinality(S))
    BY <1>1, FS_CardinalityType
  <1>3. \A s \in SUBSET S : g[s] = IF s = {} THEN 0 ELSE f[First(s)] + g[s \ {First(s)}]
    BY <1>2, FS_Subset DEF SumUpTo
  <1> DEFINE h == [s \in SUBSET S |-> g[s]]
  <1>4. \A s \in SUBSET S : s # {} => s \ {First(s)} \in SUBSET S
    OBVIOUS
  <1>5. h = [s \in SUBSET S |-> IF s = {} THEN 0 ELSE f[First(s)] + h[s \ {First(s)}]]
    BY <1>3, <1>4
  <1> QED BY <1>5 DEF IsSum

LEMMA ChosenSum ==
    ASSUME NEW f, NEW S, IsFiniteSet(S)
    PROVE  \E g : IsSum(g, f, S) /\ SumFunctionOnSet(f, S) = g[S]
  <1>1. IsSum(CHOOSE g : IsSum(g, f, S), f, S)
    BY SumExists
  <1> QED BY <1>1, SumIsChosen

LEMMA SumAt ==
    ASSUME NEW f, NEW S, NEW g, IsSum(g, f, S), NEW s \in SUBSET S
    PROVE  g[s] = IF s = {} THEN 0 ELSE f[First(s)] + g[s \ {First(s)}]
  BY DEF IsSum

-----------------------------------------------------------------------------
\* Two sums agree where their summands do, whatever else they are sums of.
LEMMA SumsAgree ==
    ASSUME NEW f, NEW S, NEW g, IsSum(g, f, S),
           NEW e, NEW R, NEW h, IsSum(h, e, R), IsFiniteSet(S),
           NEW s \in SUBSET S, s \in SUBSET R,
           \A x \in s : f[x] = e[x]
    PROVE  g[s] = h[s]
  <1>8. \A r \in SUBSET S : g[r] = IF r = {} THEN 0 ELSE f[First(r)] + g[r \ {First(r)}]
    BY DEF IsSum
  <1>9. \A r \in SUBSET R : h[r] = IF r = {} THEN 0 ELSE e[First(r)] + h[r \ {First(r)}]
    BY DEF IsSum
  <1> DEFINE Bad(n) == \E r \in SUBSET s : Cardinality(r) = n /\ g[r] # h[r]
             T == {n \in Nat : Bad(n)}
  <1> SUFFICES ASSUME T # {} PROVE FALSE
    <2>1. s \in SUBSET s /\ Cardinality(s) \in Nat
      BY FS_Subset, FS_CardinalityType
    <2> QED BY <2>1
  <1>1. PICK n \in T : \A m \in T : n <= m
    BY LeastNat
  <1>2. PICK r \in SUBSET s : Cardinality(r) = n /\ g[r] # h[r]
    OBVIOUS
  <1>3. r \in SUBSET S /\ r \in SUBSET R
    OBVIOUS
  <1>6. g[r] = IF r = {} THEN 0 ELSE f[First(r)] + g[r \ {First(r)}]
    BY <1>3, <1>8, Zenon
  <1>7. h[r] = IF r = {} THEN 0 ELSE e[First(r)] + h[r \ {First(r)}]
    BY <1>3, <1>9, Zenon
  <1>4. CASE r = {}
    BY <1>2, <1>4, <1>6, <1>7, Zenon
  <1>5. CASE r # {}
    <2> DEFINE x == First(r)
               q == r \ {First(r)}
    <2>1. x \in r /\ q \in SUBSET s
      BY <1>5, FirstIn
    <2>2. /\ Cardinality(r) \in Nat /\ Cardinality(r) # 0
          /\ Cardinality(r \ {First(r)}) = Cardinality(r) - 1
      BY <1>3, <2>1, SmallerSets
    <2>3. Cardinality(q) \in Nat /\ Cardinality(q) < n
      BY <1>2, <2>2
    <2>4. g[q] = h[q]
      BY <1>1, <2>1, <2>3
    <2>5. g[r] = f[x] + g[q] /\ h[r] = e[x] + h[q]
      BY <1>5, <1>6, <1>7, Zenon
    <2>6. f[x] = e[x]
      BY <2>1
    <2> QED BY <1>2, <2>4, <2>5, <2>6
  <1> QED BY <1>4, <1>5

\* A sum of natural numbers is one.
LEMMA SumAtNat ==
    ASSUME NEW f, NEW S, NEW g, IsSum(g, f, S), IsFiniteSet(S),
           \A x \in S : f[x] \in Nat
    PROVE  \A s \in SUBSET S : g[s] \in Nat
  <1> DEFINE Bad(n) == \E r \in SUBSET S : Cardinality(r) = n /\ g[r] \notin Nat
             T == {n \in Nat : Bad(n)}
  <1> SUFFICES ASSUME T # {} PROVE FALSE
    BY FS_Subset, FS_CardinalityType
  <1>1. PICK n \in T : \A m \in T : n <= m
    BY LeastNat
  <1>2. PICK r \in SUBSET S : Cardinality(r) = n /\ g[r] \notin Nat
    OBVIOUS
  <1>3. r # {}
    <2>1. g[{}] = 0
      BY SumAt
    <2> QED BY <1>2, <2>1
  <1> DEFINE x == First(r)
             q == r \ {First(r)}
  <1>4. x \in r /\ q \in SUBSET S
    BY <1>3, FirstIn
  <1>5. Cardinality(q) \in Nat /\ Cardinality(q) < n
    <2>1. /\ Cardinality(r) \in Nat /\ Cardinality(r) # 0
          /\ Cardinality(r \ {First(r)}) = Cardinality(r) - 1
      BY <1>4, SmallerSets
    <2> QED BY <1>2, <2>1
  <1>6. g[q] \in Nat
    BY <1>1, <1>4, <1>5
  <1>7. g[r] = f[x] + g[q]
    BY <1>3, SumAt
  <1> QED BY <1>2, <1>4, <1>6, <1>7

\* The order in which elements are taken does not matter.
LEMMA SumAtAny ==
    ASSUME NEW f, NEW S, NEW g, IsSum(g, f, S), IsFiniteSet(S),
           \A x \in S : f[x] \in Nat
    PROVE  \A s \in SUBSET S : \A a \in s : g[s] = f[a] + g[s \ {a}]
  <1>0. \A s \in SUBSET S :
            g[s] = IF s = {} THEN 0 ELSE f[First(s)] + g[s \ {First(s)}]
    BY SumAt
  <1> DEFINE Bad(n) == \E r \in SUBSET S : Cardinality(r) = n
                         /\ \E a \in r : g[r] # f[a] + g[r \ {a}]
             T == {n \in Nat : Bad(n)}
  <1> SUFFICES ASSUME T # {} PROVE FALSE
    BY FS_Subset, FS_CardinalityType
  <1>1. PICK n \in T : \A m \in T : n <= m
    BY LeastNat
  <1>2. PICK r \in SUBSET S : Cardinality(r) = n
                              /\ \E a \in r : g[r] # f[a] + g[r \ {a}]
    OBVIOUS
  <1>3. PICK a \in r : g[r] # f[a] + g[r \ {a}]
    BY <1>2
  <1> DEFINE x == First(r)
             rx == r \ {x}
             ra == r \ {a}
             rest == r \ {a, x}
  <1>4. x \in r /\ g[r] = f[x] + g[rx]
    <2>1. x \in r
      BY <1>3, FirstIn
    <2>2. g[r] = IF r = {} THEN 0 ELSE f[First(r)] + g[r \ {First(r)}]
      BY <1>0
    <2> QED BY <2>1, <2>2
  <1>5. a # x
    BY <1>3, <1>4
  <1>6. /\ rx \in SUBSET S /\ ra \in SUBSET S /\ rest \in SUBSET S
        /\ a \in rx /\ x \in ra /\ rx \ {a} = rest /\ ra \ {x} = rest
    BY <1>4, <1>5
  <1>7. /\ Cardinality(rx) \in Nat /\ Cardinality(rx) < n
        /\ Cardinality(ra) \in Nat /\ Cardinality(ra) < n
    BY <1>2, <1>3, <1>4, SmallerSets
  <1> HIDE DEF x, rx, ra, rest
  <1>8. g[rx] = f[a] + g[rest] /\ g[ra] = f[x] + g[rest]
    <2>1. ~Bad(Cardinality(rx)) /\ ~Bad(Cardinality(ra))
      BY <1>1, <1>7
    <2>2. g[rx] = f[a] + g[rx \ {a}]
      BY <1>6, <2>1
    <2>3. g[ra] = f[x] + g[ra \ {x}]
      BY <1>6, <2>1
    <2> QED BY <1>6, <2>2, <2>3
  <1>9. f[a] \in Nat /\ f[x] \in Nat /\ g[rest] \in Nat
    BY <1>4, <1>6, SumAtNat
  <1>10. g[r] = f[a] + g[ra]
    BY <1>4, <1>8, <1>9
  <1> QED BY <1>3, <1>10 DEF ra

-----------------------------------------------------------------------------
\* What the other proofs use: a sum over no element, a sum of natural numbers,
\* one summand more or less, and equal summands.
LEMMA SumOfNone ==
    ASSUME NEW f
    PROVE  SumFunctionOnSet(f, {}) = 0
  <1>1. IsFiniteSet({}) /\ {} \in SUBSET {}
    BY FS_EmptySet
  <1> QED BY <1>1, ChosenSum, SumAt

LEMMA SumIsNat ==
    ASSUME NEW f, NEW S, IsFiniteSet(S), \A x \in S : f[x] \in Nat
    PROVE  SumFunctionOnSet(f, S) \in Nat
  <1>1. S \in SUBSET S
    OBVIOUS
  <1> QED BY <1>1, ChosenSum, SumAtNat

LEMMA SumIsLocal ==
    ASSUME NEW f, NEW e, NEW S, IsFiniteSet(S), \A x \in S : f[x] = e[x]
    PROVE  SumFunctionOnSet(f, S) = SumFunctionOnSet(e, S)
  <1>1. PICK g : IsSum(g, f, S) /\ SumFunctionOnSet(f, S) = g[S]
    BY ChosenSum
  <1>2. PICK h : IsSum(h, e, S) /\ SumFunctionOnSet(e, S) = h[S]
    BY ChosenSum
  <1>3. S \in SUBSET S
    OBVIOUS
  <1>4. g[S] = h[S]
    BY <1>1, <1>2, <1>3, SumsAgree
  <1> QED BY <1>1, <1>2, <1>4

LEMMA SumWithOneMore ==
    ASSUME NEW f, NEW S, IsFiniteSet(S), NEW a, a \notin S,
           \A x \in S \cup {a} : f[x] \in Nat
    PROVE  SumFunctionOnSet(f, S \cup {a}) = SumFunctionOnSet(f, S) + f[a]
  <1> DEFINE R == S \cup {a}
  <1>1. IsFiniteSet(R)
    BY FS_AddElement
  <1>2. PICK g : IsSum(g, f, S) /\ SumFunctionOnSet(f, S) = g[S]
    BY ChosenSum
  <1>3. PICK h : IsSum(h, f, R) /\ SumFunctionOnSet(f, R) = h[R]
    BY <1>1, ChosenSum
  <1>4. S \in SUBSET S /\ S \in SUBSET R /\ R \in SUBSET R /\ a \in R /\ R \ {a} = S
    OBVIOUS
  <1> HIDE DEF R
  <1>5. g[S] = h[S]
    BY <1>2, <1>3, <1>4, SumsAgree
  <1>6. h[R] = f[a] + h[S]
    <2>1. \A x \in R : f[x] \in Nat
      BY DEF R
    <2> QED BY <1>1, <1>3, <1>4, <2>1, SumAtAny
  <1>7. h[S] \in Nat /\ f[a] \in Nat
    BY <1>2, <1>4, <1>5, SumAtNat
  <1> QED BY <1>2, <1>3, <1>5, <1>6, <1>7 DEF R
-----------------------------------------------------------------------------
(* Records and transfers *)

\* No transfer takes a balance below zero when its payer has the amount; one
\* of a token that is not an asset leaves every balance alone.
LEMMA TransferType ==
    ASSUME NEW bal \in [Assets -> [Addresses -> Nat]],
           NEW token, NEW from \in Addresses, NEW to \in Addresses,
           NEW amount \in Nat,
           token \in Assets => bal[token][from] >= amount
    PROVE  Transfer(bal, token, from, to, amount)
               \in [Assets -> [Addresses -> Nat]]
<1> DEFINE debited == [bal EXCEPT ![token][from] = @ - amount]
<1>1. debited \in [Assets -> [Addresses -> Nat]]
  <2>1. CASE token \in Assets
    <3>1. bal[token] \in [Addresses -> Nat]
      BY <2>1
    <3>2. bal[token][from] - amount \in Nat
      BY <2>1, <3>1
    <3>3. [bal[token] EXCEPT ![from] = @ - amount] \in [Addresses -> Nat]
      BY <3>1, <3>2
    <3> QED BY <2>1, <3>3
  <2>2. CASE token \notin Assets
    BY <2>2
  <2> QED BY <2>1, <2>2
<1>2. [debited EXCEPT ![token][to] = @ + amount] \in [Assets -> [Addresses -> Nat]]
  <2> HIDE DEF debited
  <2>1. CASE token \in Assets
    <3>1. debited[token] \in [Addresses -> Nat]
      BY <1>1, <2>1
    <3>2. [debited[token] EXCEPT ![to] = @ + amount] \in [Addresses -> Nat]
      BY <3>1
    <3> QED BY <1>1, <2>1, <3>2
  <2>2. CASE token \notin Assets
    BY <1>1, <2>2
  <2> QED BY <2>1, <2>2
<1> QED BY <1>2 DEF Transfer

\* A record stays in one of its four stages under each of the three writes.
LEMMA RecordWrites ==
    ASSUME NEW s \in SwapRecords
    PROVE  /\ AfterNewSwap(s) = Locked
           /\ Locked \in SwapRecords
           /\ Active(s) => /\ s = Locked
                           /\ AfterRedeem(s) = Redeemed
                           /\ AfterRefund(s) = Returned
BY DEF SwapRecords, NoSwap, Locked, Redeemed, Returned, Active,
       AfterNewSwap, AfterRedeem, AfterRefund

\* What the fields of an id are.
LEMMA IdFields ==
    ASSUME NEW id \in Ids
    PROVE  /\ id.sender \in Senders
           /\ id.recipient \in Addresses
           /\ id.amount \in Nat
           /\ id.token \in Tokens
           /\ id.sender \in Accounts => id.sender # SettlementAddr
BY HtlcConstants DEF ContractId, Senders

-----------------------------------------------------------------------------
\* The transactions an account may send to HashedTimelock keep the types of
\* its variables.
LEMMA NewSwapType ==
    ASSUME HtlcTypeOK, NEW id \in Ids, NewSwap(id)
    PROVE  HtlcTypeOK'
<1>1. swaps' \in [Ids -> SwapRecords]
  BY RecordWrites DEF HtlcTypeOK, NewSwap
<1>2. balance' \in [Assets -> [Addresses -> Nat]]
  BY IdFields, TransferType DEF HtlcTypeOK, NewSwap, Addresses
<1> QED BY <1>1, <1>2 DEF HtlcTypeOK, NewSwap

LEMMA RedeemType ==
    ASSUME HtlcTypeOK, NEW id \in Ids, NEW p, Redeem(id, p)
    PROVE  HtlcTypeOK'
<1>1. swaps[id] \in SwapRecords /\ Active(swaps[id])
  BY DEF HtlcTypeOK, Redeem, CanRedeem, Active
<1>2. Redeemed \in SwapRecords
  BY DEF SwapRecords
<1>3. swaps' \in [Ids -> SwapRecords]
  BY <1>1, <1>2, RecordWrites DEF HtlcTypeOK, Redeem
<1>4. balance' \in [Assets -> [Addresses -> Nat]]
  BY IdFields, TransferType DEF HtlcTypeOK, Redeem, Addresses
<1> QED BY <1>3, <1>4 DEF HtlcTypeOK, Redeem

LEMMA RefundType ==
    ASSUME HtlcTypeOK, NEW id \in Ids, NEW a, Refund(a, id)
    PROVE  HtlcTypeOK'
<1>1. swaps[id] \in SwapRecords /\ Active(swaps[id])
  BY DEF HtlcTypeOK, Refund, CanRefund, Active
<1>2. Returned \in SwapRecords
  BY DEF SwapRecords
<1>3. swaps' \in [Ids -> SwapRecords]
  BY <1>1, <1>2, RecordWrites DEF HtlcTypeOK, Refund
<1>4. balance' \in [Assets -> [Addresses -> Nat]]
  BY IdFields, TransferType DEF HtlcTypeOK, Refund, Addresses
<1> QED BY <1>3, <1>4 DEF HtlcTypeOK, Refund

LEMMA TickType ==
    ASSUME HtlcTypeOK, Tick
    PROVE  HtlcTypeOK'
BY HtlcConstants DEF HtlcTypeOK, Tick

LEMMA HtlcInitType ==
    ASSUME HtlcInit
    PROVE  HtlcTypeOK
BY HtlcConstants DEF HtlcInit, HtlcTypeOK, SwapRecords

\* HashedTimelock by itself, called by accounts in any order: its records and
\* balances keep their types, so no swap is both withdrawn and refunded.
THEOREM HtlcTypeCorrect == HtlcSpec => []HtlcTypeOK
<1>1. HtlcInit => HtlcTypeOK
  BY HtlcInitType
<1>2. HtlcTypeOK /\ [HtlcNext]_htlcVars => HtlcTypeOK'
  <2> SUFFICES ASSUME HtlcTypeOK, [HtlcNext]_htlcVars
               PROVE  HtlcTypeOK'
    OBVIOUS
  <2>1. CASE AccountCalls
    BY <2>1, NewSwapType, RedeemType, RefundType DEF AccountCalls
  <2>2. CASE Tick
    BY <2>2, TickType
  <2>3. CASE UNCHANGED htlcVars
    BY <2>3 DEF HtlcTypeOK, htlcVars
  <2> QED BY <2>1, <2>2, <2>3 DEF HtlcNext
<1> QED BY <1>1, <1>2, PTL DEF HtlcSpec

\* The record of a swap that was redeemed or refunded never changes again, and
\* no id is used twice, whatever accounts call (HashedTimelock.sol newSwap,
\* redeem, refund).
THEOREM EndedSwapsAreFinal == HtlcSpec => EndedIsFinal
<1> DEFINE Final ==
      \A id \in Ids :
          /\ swaps[id].exists => swaps'[id].exists
          /\ swaps[id].exists /\ ~Active(swaps[id]) => swaps'[id] = swaps[id]
<1>1. HtlcTypeOK /\ [HtlcNext]_htlcVars => [Final]_htlcVars
  <2> SUFFICES ASSUME HtlcTypeOK, HtlcNext
               PROVE  Final
    OBVIOUS
  <2>1. ASSUME NEW id \in Ids, NewSwap(id)
        PROVE  Final
    BY <2>1 DEF HtlcTypeOK, NewSwap, CanNewSwap
  <2>2. ASSUME NEW id \in Ids, NEW p, Redeem(id, p)
        PROVE  Final
    <3>1. swaps[id] \in SwapRecords /\ Active(swaps[id])
      BY <2>2 DEF HtlcTypeOK, Redeem, CanRedeem, Active
    <3>2. swaps' = [swaps EXCEPT ![id] = Redeemed]
      BY <2>2, <3>1, RecordWrites DEF Redeem
    <3>3. Redeemed.exists
      BY DEF Redeemed, Locked, NoSwap
    <3> QED BY <3>1, <3>2, <3>3 DEF HtlcTypeOK
  <2>3. ASSUME NEW id \in Ids, NEW a, Refund(a, id)
        PROVE  Final
    <3>1. swaps[id] \in SwapRecords /\ Active(swaps[id])
      BY <2>3 DEF HtlcTypeOK, Refund, CanRefund, Active
    <3>2. swaps' = [swaps EXCEPT ![id] = Returned]
      BY <2>3, <3>1, RecordWrites DEF Refund
    <3>3. Returned.exists
      BY DEF Returned, Locked, NoSwap
    <3> QED BY <3>1, <3>2, <3>3 DEF HtlcTypeOK
  <2>4. CASE Tick
    BY <2>4 DEF Tick
  <2> QED BY <2>1, <2>2, <2>3, <2>4 DEF HtlcNext, AccountCalls
<1> QED BY <1>1, HtlcTypeCorrect, PTL DEF HtlcSpec, EndedIsFinal

-----------------------------------------------------------------------------
(* What HashedTimelock holds *)

\* The part of an amount of token at address that is in t at a.
At(t, a, token, address, amount) ==
    IF t = token /\ a = address THEN amount ELSE 0

Payable(bal, token, from, to, amount) ==
    /\ bal \in [Assets -> [Addresses -> Nat]]
    /\ token \in Assets /\ from \in Addresses /\ to \in Addresses
    /\ amount \in Nat /\ bal[token][from] >= amount

Moved(bal, after, token, from, to, amount) ==
    \A t \in Assets, a \in Addresses :
        after[t][a] = bal[t][a] - At(t, a, token, from, amount)
                                + At(t, a, token, to, amount)

\* What a transfer leaves at each address, also one from an address to itself.
LEMMA TransferMoves ==
    ASSUME NEW bal, NEW token, NEW from, NEW to, NEW amount,
           Payable(bal, token, from, to, amount)
    PROVE  Moved(bal, Transfer(bal, token, from, to, amount), token, from, to, amount)
<1> SUFFICES ASSUME NEW t \in Assets, NEW a \in Addresses
             PROVE  Transfer(bal, token, from, to, amount)[t][a] =
                        bal[t][a] - At(t, a, token, from, amount)
                                  + At(t, a, token, to, amount)
  BY DEF Moved
<1> USE DEF Payable
<1> DEFINE debited == [bal EXCEPT ![token][from] = @ - amount]
<1>1. debited[t][a] = bal[t][a] - At(t, a, token, from, amount)
  BY DEF At
<1>2. [debited EXCEPT ![token][to] = @ + amount][t][a]
          = debited[t][a] + At(t, a, token, to, amount)
  <2>1. t \in DOMAIN debited /\ a \in DOMAIN debited[t] /\ token \in DOMAIN debited
        /\ debited[t][a] \in Int
    OBVIOUS
  <2> HIDE DEF debited
  <2> QED BY <2>1 DEF At
<1> QED BY <1>1, <1>2 DEF Transfer

LEMMA TransferEffect ==
    ASSUME NEW bal \in [Assets -> [Addresses -> Nat]],
           NEW token \in Assets, NEW from \in Addresses, NEW to \in Addresses,
           NEW amount \in Nat, bal[token][from] >= amount,
           NEW t \in Assets, NEW a \in Addresses
    PROVE  Transfer(bal, token, from, to, amount)[t][a] =
               bal[t][a] - At(t, a, token, from, amount)
                         + At(t, a, token, to, amount)
<1>1. Payable(bal, token, from, to, amount)
  BY DEF Payable
<1>2. Moved(bal, Transfer(bal, token, from, to, amount), token, from, to, amount)
  BY <1>1, TransferMoves
<1> QED BY <1>2 DEF Moved

\* The swaps of one asset that are open.
Open(t) == {id \in Ids : id.token = t /\ Active(swaps[id])}

Amounts == [id \in Ids |-> id.amount]

\* A lock adds the amount of its swap to what is owed.
LEMMA OwedAfterLock ==
    ASSUME HtlcTypeOK, NEW t, IsFiniteSet(Open(t)),
           NEW id \in Ids, ~Active(swaps[id]), swaps' = [swaps EXCEPT ![id] = Locked]
    PROVE  /\ IsFiniteSet(Open(t)')
           /\ Owed(t) \in Nat
           /\ Owed(t)' = Owed(t) + (IF id.token = t THEN id.amount ELSE 0)
<1>1. Active(Locked)
  BY DEF Active, Locked, NoSwap
<1>2. Open(t)' = IF id.token = t THEN Open(t) \cup {id} ELSE Open(t)
  BY <1>1 DEF Open, HtlcTypeOK
<1>3. id \notin Open(t) /\ \A x \in Open(t) \cup {id} : Amounts[x] \in Nat
  BY IdFields DEF Open, Amounts
<1>4. Owed(t) = SumFunctionOnSet(Amounts, Open(t))
  BY DEF Owed, Open, Amounts
<1>5. Owed(t)' = SumFunctionOnSet(Amounts, Open(t)')
  BY DEF Owed, Open, Amounts
<1>6. Owed(t) \in Nat
  BY <1>3, <1>4, SumIsNat
<1>7. SumFunctionOnSet(Amounts, Open(t) \cup {id}) = Owed(t) + Amounts[id]
  BY <1>3, <1>4, SumWithOneMore
<1>8. IsFiniteSet(Open(t) \cup {id})
  BY FS_AddElement
<1> QED BY <1>2, <1>4, <1>5, <1>6, <1>7, <1>8 DEF Amounts

\* A redeem or a refund takes it off.
LEMMA OwedAfterEnd ==
    ASSUME HtlcTypeOK, NEW t, IsFiniteSet(Open(t)),
           NEW id \in Ids, Active(swaps[id]),
           NEW r, ~Active(r), swaps' = [swaps EXCEPT ![id] = r]
    PROVE  /\ IsFiniteSet(Open(t)')
           /\ Owed(t) \in Nat /\ Owed(t)' \in Nat
           /\ Owed(t)' = Owed(t) - (IF id.token = t THEN id.amount ELSE 0)
<1>1. Open(t)' = Open(t) \ {id}
  BY DEF Open, HtlcTypeOK
<1>2. \A x \in Open(t) : Amounts[x] \in Nat
  BY IdFields DEF Open, Amounts
<1>3. Owed(t) = SumFunctionOnSet(Amounts, Open(t))
  BY DEF Owed, Open, Amounts
<1>4. Owed(t)' = SumFunctionOnSet(Amounts, Open(t)')
  BY DEF Owed, Open, Amounts
<1>5. IsFiniteSet(Open(t)')
  BY <1>1, FS_RemoveElement
<1>6. Owed(t) \in Nat /\ Owed(t)' \in Nat
  BY <1>1, <1>2, <1>3, <1>4, <1>5, SumIsNat
<1>7. CASE id.token = t
  <2>1. id \in Open(t) /\ id \notin Open(t)' /\ Open(t) = Open(t)' \cup {id}
    BY <1>1, <1>7 DEF Open
  <2>2. SumFunctionOnSet(Amounts, Open(t)' \cup {id}) = Owed(t)' + Amounts[id]
    BY <1>2, <1>4, <1>5, <2>1, SumWithOneMore
  <2>3. Amounts[id] = id.amount /\ id.amount \in Nat
    BY IdFields DEF Amounts
  <2> QED BY <1>3, <1>5, <1>6, <1>7, <2>1, <2>2, <2>3
<1>8. CASE id.token # t
  <2>1. Open(t)' = Open(t)
    BY <1>1, <1>8 DEF Open
  <2> QED BY <1>3, <1>4, <1>5, <1>6, <1>8, <2>1
<1> QED BY <1>7, <1>8

\* What is owed for one open swap is part of it.
LEMMA OpenIsOwed ==
    ASSUME HtlcTypeOK, NEW t, IsFiniteSet(Open(t)),
           NEW id \in Ids, Active(swaps[id]), id.token = t
    PROVE  Owed(t) \in Nat /\ id.amount <= Owed(t)
<1> DEFINE rest == Open(t) \ {id}
<1>1. /\ IsFiniteSet(rest) /\ id \notin rest /\ Open(t) = rest \cup {id}
      /\ \A x \in rest \cup {id} : Amounts[x] \in Nat
  BY FS_RemoveElement, IdFields DEF Open, Amounts
<1>2. Owed(t) = SumFunctionOnSet(Amounts, Open(t))
  BY DEF Owed, Open, Amounts
<1> HIDE DEF rest
<1>3. SumFunctionOnSet(Amounts, rest) \in Nat
  BY <1>1, SumIsNat
<1>4. Owed(t) = SumFunctionOnSet(Amounts, rest) + Amounts[id]
  BY <1>1, <1>2, SumWithOneMore
<1>5. Amounts[id] = id.amount /\ id.amount \in Nat
  BY IdFields DEF Amounts
<1> QED BY <1>3, <1>4, <1>5

-----------------------------------------------------------------------------
(* Solvency *)

\* The contract holds what it owes in every asset.  Only finitely many swaps
\* are ever open, so that what it owes is a sum even when Ids is not finite.
Solvent ==
    \A t \in Assets : IsFiniteSet(Open(t)) /\ balance[t][HtlcAddr] >= Owed(t)

\* Only assets are locked.
LocksAreAssets == \A id \in Ids : swaps[id].exists => id.token \in Assets

HInv == HtlcTypeOK /\ Solvent /\ LocksAreAssets

LEMMA LockKeepsSolvent ==
    ASSUME HtlcTypeOK, Solvent, HtlcTypeOK',
           NEW id \in Ids, ~Active(swaps[id]), swaps' = [swaps EXCEPT ![id] = Locked],
           \A t \in Assets : balance'[t][HtlcAddr] =
               balance[t][HtlcAddr] + (IF t = id.token THEN id.amount ELSE 0)
    PROVE  Solvent'
<1> SUFFICES ASSUME NEW t \in Assets
             PROVE  IsFiniteSet(Open(t)') /\ balance'[t][HtlcAddr] >= Owed(t)'
  BY DEF Solvent
<1>1. IsFiniteSet(Open(t)) /\ balance[t][HtlcAddr] >= Owed(t)
  BY DEF Solvent
<1>2. /\ IsFiniteSet(Open(t)') /\ Owed(t) \in Nat
      /\ Owed(t)' = Owed(t) + (IF id.token = t THEN id.amount ELSE 0)
  BY <1>1, OwedAfterLock
<1>3. balance[t][HtlcAddr] \in Nat /\ id.amount \in Nat
  BY IdFields DEF HtlcTypeOK, Addresses
<1> QED BY <1>1, <1>2, <1>3

LEMMA EndKeepsSolvent ==
    ASSUME HtlcTypeOK, Solvent, HtlcTypeOK',
           NEW id \in Ids, Active(swaps[id]),
           NEW r, ~Active(r), swaps' = [swaps EXCEPT ![id] = r],
           \A t \in Assets : balance'[t][HtlcAddr] >=
               balance[t][HtlcAddr] - (IF t = id.token THEN id.amount ELSE 0)
    PROVE  Solvent'
<1> SUFFICES ASSUME NEW t \in Assets
             PROVE  IsFiniteSet(Open(t)') /\ balance'[t][HtlcAddr] >= Owed(t)'
  BY DEF Solvent
<1>1. IsFiniteSet(Open(t)) /\ balance[t][HtlcAddr] >= Owed(t)
  BY DEF Solvent
<1>2. /\ IsFiniteSet(Open(t)') /\ Owed(t) \in Nat /\ Owed(t)' \in Nat
      /\ Owed(t)' = Owed(t) - (IF id.token = t THEN id.amount ELSE 0)
  BY <1>1, OwedAfterEnd
<1>3. balance[t][HtlcAddr] \in Nat /\ balance'[t][HtlcAddr] \in Nat /\ id.amount \in Nat
  BY IdFields DEF HtlcTypeOK, Addresses
<1> QED BY <1>1, <1>2, <1>3

LEMMA LockedAreAssets ==
    ASSUME HtlcTypeOK, LocksAreAssets, NEW id \in Ids, id.token \in Assets,
           NEW r, swaps' = [swaps EXCEPT ![id] = r]
    PROVE  LocksAreAssets'
BY DEF HtlcTypeOK, LocksAreAssets

\* The units a lock brings into the contract.
LEMMA DepositEffect ==
    ASSUME HtlcTypeOK, NEW id \in Ids, NEW from \in Addresses, from # HtlcAddr,
           id.token \in Assets, balance[id.token][from] >= id.amount,
           balance' = Transfer(balance, id.token, from, HtlcAddr, id.amount),
           NEW t \in Assets
    PROVE  balance'[t][HtlcAddr] =
               balance[t][HtlcAddr] + (IF t = id.token THEN id.amount ELSE 0)
<1>1. /\ balance \in [Assets -> [Addresses -> Nat]] /\ id.amount \in Nat
      /\ HtlcAddr \in Addresses
  BY IdFields DEF HtlcTypeOK, Addresses
<1>2. balance'[t][HtlcAddr] =
          balance[t][HtlcAddr]
            - At(t, HtlcAddr, id.token, from, id.amount)
            + At(t, HtlcAddr, id.token, HtlcAddr, id.amount)
  BY <1>1, TransferEffect
<1>3. balance[t][HtlcAddr] \in Nat
  BY <1>1
<1> QED BY <1>1, <1>2, <1>3 DEF At

LEMMA NewSwapHInv ==
    ASSUME HInv, NEW id \in Ids, NewSwap(id)
    PROVE  HInv'
<1>1. HtlcTypeOK /\ HtlcTypeOK' /\ id.token \in Assets
  BY NewSwapType DEF HInv, NewSwap, CanNewSwap
<1>2. ~Active(swaps[id]) /\ swaps' = [swaps EXCEPT ![id] = Locked]
  BY DEF NewSwap, CanNewSwap, Active, AfterNewSwap
<1>3. id.sender \in Addresses /\ id.sender # HtlcAddr
  BY IdFields, HtlcConstants DEF Addresses
<1>4. \A t \in Assets : balance'[t][HtlcAddr] =
          balance[t][HtlcAddr] + (IF t = id.token THEN id.amount ELSE 0)
  BY <1>1, <1>3, DepositEffect DEF NewSwap
<1> QED BY <1>1, <1>2, <1>4, LockKeepsSolvent, LockedAreAssets DEF HInv

\* The units a payout takes out of the contract.
LEMMA PayoutEffect ==
    ASSUME HtlcTypeOK, NEW id \in Ids, NEW to \in Addresses, id.token \in Assets,
           balance[id.token][HtlcAddr] >= id.amount,
           balance' = Transfer(balance, id.token, HtlcAddr, to, id.amount),
           NEW t \in Assets
    PROVE  balance'[t][HtlcAddr] >=
               balance[t][HtlcAddr] - (IF t = id.token THEN id.amount ELSE 0)
<1>1. /\ balance \in [Assets -> [Addresses -> Nat]] /\ id.amount \in Nat
      /\ HtlcAddr \in Addresses
  BY IdFields DEF HtlcTypeOK, Addresses
<1>2. balance'[t][HtlcAddr] =
          balance[t][HtlcAddr]
            - At(t, HtlcAddr, id.token, HtlcAddr, id.amount)
            + At(t, HtlcAddr, id.token, to, id.amount)
  BY <1>1, TransferEffect
<1>3. balance[t][HtlcAddr] \in Nat
  BY <1>1
<1> QED BY <1>1, <1>2, <1>3 DEF At

LEMMA RedeemHInv ==
    ASSUME HInv, NEW id \in Ids, NEW p, Redeem(id, p)
    PROVE  HInv'
<1>1. /\ HtlcTypeOK /\ HtlcTypeOK' /\ swaps[id] \in SwapRecords
      /\ Active(swaps[id]) /\ id.token \in Assets /\ id.recipient \in Addresses
  BY RedeemType, IdFields DEF HInv, HtlcTypeOK, LocksAreAssets, Redeem, CanRedeem, Active
<1>2. swaps' = [swaps EXCEPT ![id] = Redeemed] /\ ~Active(Redeemed)
  BY <1>1, RecordWrites DEF Redeem, Active, Redeemed, Locked, NoSwap
<1>3. \A t \in Assets : balance'[t][HtlcAddr] >=
          balance[t][HtlcAddr] - (IF t = id.token THEN id.amount ELSE 0)
  BY <1>1, PayoutEffect DEF Redeem
<1> QED BY <1>1, <1>2, <1>3, EndKeepsSolvent, LockedAreAssets DEF HInv

LEMMA RefundHInv ==
    ASSUME HInv, NEW id \in Ids, NEW a, Refund(a, id)
    PROVE  HInv'
<1>1. /\ HtlcTypeOK /\ HtlcTypeOK' /\ swaps[id] \in SwapRecords
      /\ Active(swaps[id]) /\ id.token \in Assets /\ id.sender \in Addresses
  BY RefundType, IdFields
     DEF HInv, HtlcTypeOK, LocksAreAssets, Refund, CanRefund, Active, Addresses
<1>2. swaps' = [swaps EXCEPT ![id] = Returned] /\ ~Active(Returned)
  BY <1>1, RecordWrites DEF Refund, Active, Returned, Locked, NoSwap
<1>3. \A t \in Assets : balance'[t][HtlcAddr] >=
          balance[t][HtlcAddr] - (IF t = id.token THEN id.amount ELSE 0)
  BY <1>1, PayoutEffect DEF Refund
<1> QED BY <1>1, <1>2, <1>3, EndKeepsSolvent, LockedAreAssets DEF HInv

LEMMA TickHInv ==
    ASSUME HInv, Tick
    PROVE  HInv'
BY TickType DEF HInv, Tick, Solvent, LocksAreAssets, Open, Owed

LEMMA HtlcInitHInv ==
    ASSUME HtlcInit
    PROVE  HInv
<1>1. \A id \in Ids : ~swaps[id].exists /\ ~Active(swaps[id])
  BY DEF HtlcInit, NoSwap, Active
<1>2. ASSUME NEW t \in Assets
      PROVE  IsFiniteSet(Open(t)) /\ balance[t][HtlcAddr] >= Owed(t)
  <2>1. Open(t) = {}
    BY <1>1 DEF Open
  <2>2. Owed(t) = 0
    BY <2>1, SumOfNone DEF Open, Owed
  <2>3. balance[t][HtlcAddr] \in Nat
    BY HtlcInitType DEF HtlcTypeOK, Addresses
  <2> QED BY <2>1, <2>2, <2>3, FS_EmptySet
<1>3. Solvent
  BY <1>2 DEF Solvent
<1> QED BY <1>1, <1>3, HtlcInitType DEF HInv, LocksAreAssets

\* Called by accounts in any order, the contract holds in every asset at least
\* what its active swaps add up to (newSwap, redeem, refund, _payout).
THEOREM HtlcIsSolvent == HtlcSpec => []Solvent
<1>1. HtlcInit => HInv
  BY HtlcInitHInv
<1>2. HInv /\ [HtlcNext]_htlcVars => HInv'
  <2> SUFFICES ASSUME HInv, [HtlcNext]_htlcVars
               PROVE  HInv'
    OBVIOUS
  <2>1. CASE AccountCalls
    BY <2>1, NewSwapHInv, RedeemHInv, RefundHInv DEF AccountCalls
  <2>2. CASE Tick
    BY <2>2, TickHInv
  <2>3. CASE UNCHANGED htlcVars
    BY <2>3 DEF HInv, HtlcTypeOK, Solvent, LocksAreAssets, Open, Owed, htlcVars
  <2> QED BY <2>1, <2>2, <2>3 DEF HtlcNext
<1>3. HInv => Solvent
  BY DEF HInv
<1> QED BY <1>1, <1>2, <1>3, PTL DEF HtlcSpec

-----------------------------------------------------------------------------
(* Called back from within its payments, to any depth *)

CallRecords == [id : Ids, from : Addresses, to : Addresses, paid : BOOLEAN,
                writes : {{}, {Locked}}]

PendingCalls ==
    {c \in CallRecords :
        /\ c.id.token \in Assets
        /\ c.writes = {} => c.from = HtlcAddr
        /\ c.writes # {} => /\ c.from # HtlcAddr /\ c.to = HtlcAddr
                            /\ c.id.token \in CallbackTokens}

CInv ==
    /\ HtlcTypeOK
    /\ LocksAreAssets
    /\ calls \in Seq(PendingCalls)
    /\ \A t \in Assets : IsFiniteSet(Open(t))
    /\ SolventInCalls

-----------------------------------------------------------------------------
(* What one call more, or one less, does to the two sums *)

IsTaken(c, t) == c.id.token = t /\ c.paid /\ c.to = HtlcAddr /\ c.writes # {}
IsDue(c, t)   == c.id.token = t /\ ~c.paid /\ c.from = HtlcAddr /\ c.writes = {}

AmountsOf(cs) == [i \in DOMAIN cs |-> cs[i].id.amount]

SumTaken(cs, t) == SumFunctionOnSet(AmountsOf(cs), {i \in DOMAIN cs : IsTaken(cs[i], t)})
SumDue(cs, t)   == SumFunctionOnSet(AmountsOf(cs), {i \in DOMAIN cs : IsDue(cs[i], t)})

LEMMA TakenAndDue ==
    ASSUME NEW t
    PROVE  /\ Taken(t) = SumTaken(calls, t) /\ Taken(t)' = SumTaken(calls', t)
           /\ Due(t) = SumDue(calls, t) /\ Due(t)' = SumDue(calls', t)
BY DEF Taken, Due, CallAmounts, SumTaken, SumDue, AmountsOf, IsTaken, IsDue

\* A sum over some of the first calls does not see the one on top of them, and
\* with that one it is larger by its amount.
LEMMA SumOfCalls ==
    ASSUME NEW cs \in Seq(PendingCalls), NEW ds \in Seq(PendingCalls),
           Len(ds) = Len(cs) + 1, \A i \in 1..Len(cs) : ds[i] = cs[i],
           NEW T, T \subseteq DOMAIN cs
    PROVE  /\ SumFunctionOnSet(AmountsOf(cs), T) \in Nat
           /\ SumFunctionOnSet(AmountsOf(ds), T) = SumFunctionOnSet(AmountsOf(cs), T)
           /\ SumFunctionOnSet(AmountsOf(ds), T \cup {Len(ds)})
                  = SumFunctionOnSet(AmountsOf(cs), T) + ds[Len(ds)].id.amount
<1>1. /\ DOMAIN cs = 1..Len(cs) /\ DOMAIN ds = 1..Len(ds) /\ Len(cs) \in Nat
      /\ Len(ds) \in DOMAIN ds /\ Len(ds) \notin T
  OBVIOUS
<1>2. IsFiniteSet(T)
  <2>1. \A a \in Int, b \in Int : IsFiniteSet(a..b)
    BY FS_Interval
  <2>2. IsFiniteSet(1..Len(cs))
    BY <1>1, <2>1
  <2> QED BY <1>1, <2>2, FS_Subset
<1>3. /\ \A i \in DOMAIN cs : cs[i].id.amount \in Nat
      /\ \A i \in DOMAIN ds : ds[i].id.amount \in Nat
  <2>1. \A c \in PendingCalls : c.id.amount \in Nat
    BY IdFields DEF PendingCalls, CallRecords
  <2>2. \A i \in DOMAIN cs : cs[i] \in PendingCalls
    BY <1>1, ElementOfSeq
  <2>3. \A i \in DOMAIN ds : ds[i] \in PendingCalls
    BY <1>1, ElementOfSeq
  <2> QED BY <2>1, <2>2, <2>3
<1>4. /\ \A i \in T : AmountsOf(cs)[i] \in Nat
      /\ \A i \in T \cup {Len(ds)} : AmountsOf(ds)[i] \in Nat
      /\ \A i \in T : AmountsOf(ds)[i] = AmountsOf(cs)[i]
      /\ AmountsOf(ds)[Len(ds)] = ds[Len(ds)].id.amount
  BY <1>1, <1>3 DEF AmountsOf
<1>5. SumFunctionOnSet(AmountsOf(cs), T) \in Nat
  BY <1>2, <1>4, SumIsNat
<1>6. SumFunctionOnSet(AmountsOf(ds), T) = SumFunctionOnSet(AmountsOf(cs), T)
  BY <1>2, <1>4, SumIsLocal
<1>7. SumFunctionOnSet(AmountsOf(ds), T \cup {Len(ds)})
          = SumFunctionOnSet(AmountsOf(ds), T) + AmountsOf(ds)[Len(ds)]
  BY <1>1, <1>2, <1>4, SumWithOneMore
<1> QED BY <1>4, <1>5, <1>6, <1>7

LEMMA OneMoreCall ==
    ASSUME NEW cs \in Seq(PendingCalls), NEW ds \in Seq(PendingCalls),
           Len(ds) = Len(cs) + 1, \A i \in 1..Len(cs) : ds[i] = cs[i],
           NEW t
    PROVE  /\ SumTaken(cs, t) \in Nat /\ SumDue(cs, t) \in Nat
           /\ SumTaken(ds, t) = SumTaken(cs, t)
                  + (IF IsTaken(ds[Len(ds)], t) THEN ds[Len(ds)].id.amount ELSE 0)
           /\ SumDue(ds, t) = SumDue(cs, t)
                  + (IF IsDue(ds[Len(ds)], t) THEN ds[Len(ds)].id.amount ELSE 0)
<1> DEFINE takenC == {i \in DOMAIN cs : IsTaken(cs[i], t)}
           takenD == {i \in DOMAIN ds : IsTaken(ds[i], t)}
           dueC == {i \in DOMAIN cs : IsDue(cs[i], t)}
           dueD == {i \in DOMAIN ds : IsDue(ds[i], t)}
<1>1. /\ DOMAIN cs = 1..Len(cs) /\ DOMAIN ds = 1..Len(ds) /\ Len(cs) \in Nat
      /\ \A i \in DOMAIN ds : i \in DOMAIN cs \/ i = Len(ds)
      /\ Len(ds) \in DOMAIN ds /\ Len(ds) \notin DOMAIN cs
  OBVIOUS
<1>2. takenD = IF IsTaken(ds[Len(ds)], t) THEN takenC \cup {Len(ds)} ELSE takenC
  BY <1>1
<1>3. dueD = IF IsDue(ds[Len(ds)], t) THEN dueC \cup {Len(ds)} ELSE dueC
  BY <1>1
<1>4. takenC \subseteq DOMAIN cs /\ dueC \subseteq DOMAIN cs
  OBVIOUS
<1>5. /\ SumTaken(cs, t) = SumFunctionOnSet(AmountsOf(cs), takenC)
      /\ SumTaken(ds, t) = SumFunctionOnSet(AmountsOf(ds), takenD)
      /\ SumDue(cs, t) = SumFunctionOnSet(AmountsOf(cs), dueC)
      /\ SumDue(ds, t) = SumFunctionOnSet(AmountsOf(ds), dueD)
  BY DEF SumTaken, SumDue
<1> HIDE DEF takenC, takenD, dueC, dueD
<1>6. /\ SumFunctionOnSet(AmountsOf(cs), takenC) \in Nat
      /\ SumFunctionOnSet(AmountsOf(ds), takenC) = SumFunctionOnSet(AmountsOf(cs), takenC)
      /\ SumFunctionOnSet(AmountsOf(ds), takenC \cup {Len(ds)})
             = SumFunctionOnSet(AmountsOf(cs), takenC) + ds[Len(ds)].id.amount
  BY <1>4, SumOfCalls
<1>7. /\ SumFunctionOnSet(AmountsOf(cs), dueC) \in Nat
      /\ SumFunctionOnSet(AmountsOf(ds), dueC) = SumFunctionOnSet(AmountsOf(cs), dueC)
      /\ SumFunctionOnSet(AmountsOf(ds), dueC \cup {Len(ds)})
             = SumFunctionOnSet(AmountsOf(cs), dueC) + ds[Len(ds)].id.amount
  BY <1>4, SumOfCalls
<1>8. SumTaken(ds, t) = SumTaken(cs, t)
          + (IF IsTaken(ds[Len(ds)], t) THEN ds[Len(ds)].id.amount ELSE 0)
  BY <1>2, <1>5, <1>6
<1>9. SumDue(ds, t) = SumDue(cs, t)
          + (IF IsDue(ds[Len(ds)], t) THEN ds[Len(ds)].id.amount ELSE 0)
  BY <1>3, <1>5, <1>7
<1> QED BY <1>5, <1>6, <1>7, <1>8, <1>9

\* Entering a call.
LEMMA EnterCall ==
    ASSUME calls \in Seq(PendingCalls), NEW c \in PendingCalls,
           calls' = Append(calls, c), NEW t
    PROVE  /\ calls' \in Seq(PendingCalls)
           /\ Taken(t) \in Nat /\ Due(t) \in Nat
           /\ Taken(t)' = Taken(t) + (IF IsTaken(c, t) THEN c.id.amount ELSE 0)
           /\ Due(t)' = Due(t) + (IF IsDue(c, t) THEN c.id.amount ELSE 0)
<1> DEFINE ds == Append(calls, c)
<1>1. /\ ds \in Seq(PendingCalls) /\ Len(ds) = Len(calls) + 1
      /\ \A i \in 1..Len(calls) : ds[i] = calls[i]
      /\ ds[Len(ds)] = c
  BY AppendProperties
<1> HIDE DEF ds
<1>2. /\ SumTaken(calls, t) \in Nat /\ SumDue(calls, t) \in Nat
      /\ SumTaken(ds, t) = SumTaken(calls, t)
             + (IF IsTaken(ds[Len(ds)], t) THEN ds[Len(ds)].id.amount ELSE 0)
      /\ SumDue(ds, t) = SumDue(calls, t)
             + (IF IsDue(ds[Len(ds)], t) THEN ds[Len(ds)].id.amount ELSE 0)
  BY <1>1, OneMoreCall
<1>3. calls' = ds
  BY DEF ds
<1> QED BY <1>1, <1>2, <1>3, TakenAndDue

\* The innermost call and those below it.
LEMMA InnermostCall ==
    ASSUME calls \in Seq(PendingCalls), calls # <<>>
    PROVE  /\ Front(calls) \in Seq(PendingCalls) /\ Last(calls) \in PendingCalls
           /\ Len(calls) = Len(Front(calls)) + 1 /\ Len(calls) \in 1..Len(calls)
           /\ \A i \in 1..Len(Front(calls)) : calls[i] = Front(calls)[i]
<1>1. Len(calls) \in Nat /\ Len(calls) # 0
  OBVIOUS
<1>2. PICK n \in Nat : Len(calls) = n + 1
  BY <1>1
<1>5. /\ SubSeq(calls, 1, n) \in Seq(PendingCalls)
      /\ Len(SubSeq(calls, 1, n)) = n
      /\ \A i \in 1..n : SubSeq(calls, 1, n)[i] = calls[i]
  BY <1>2
<1>6. Front(calls) = SubSeq(calls, 1, n)
  BY <1>2 DEF Front
<1>3. Len(calls) \in 1..Len(calls)
  BY <1>1
<1>4. calls[Len(calls)] \in PendingCalls
  BY <1>3, ElementOfSeq
<1> QED BY <1>2, <1>3, <1>4, <1>5, <1>6 DEF Last

LEMMA SumsWithoutInnermost ==
    ASSUME calls \in Seq(PendingCalls), calls # <<>>, NEW t
    PROVE  /\ SumTaken(Front(calls), t) \in Nat /\ SumDue(Front(calls), t) \in Nat
           /\ Taken(t) = SumTaken(Front(calls), t)
                  + (IF IsTaken(Last(calls), t) THEN Last(calls).id.amount ELSE 0)
           /\ Due(t) = SumDue(Front(calls), t)
                  + (IF IsDue(Last(calls), t) THEN Last(calls).id.amount ELSE 0)
<1>1. Last(calls) = calls[Len(calls)]
  BY DEF Last
<1> QED BY <1>1, InnermostCall, OneMoreCall, TakenAndDue

LEMMA SumsAreNat ==
    ASSUME calls \in Seq(PendingCalls), NEW t
    PROVE  Taken(t) \in Nat /\ Due(t) \in Nat
<1>1. CASE calls = <<>>
  <2>1. \A i \in DOMAIN calls : FALSE
    BY <1>1
  <2>2. /\ {i \in DOMAIN calls : IsTaken(calls[i], t)} = {}
        /\ {i \in DOMAIN calls : IsDue(calls[i], t)} = {}
    BY <2>1
  <2>3. SumTaken(calls, t) = 0 /\ SumDue(calls, t) = 0
    BY <2>2, SumOfNone DEF SumTaken, SumDue
  <2> QED BY <2>3, TakenAndDue
<1>2. CASE calls # <<>>
  <2>1. Last(calls).id.amount \in Nat
    BY <1>2, InnermostCall, IdFields DEF PendingCalls, CallRecords
  <2> QED BY <1>2, <2>1, SumsWithoutInnermost
<1> QED BY <1>1, <1>2

-----------------------------------------------------------------------------
(* Each step keeps CInv *)

LEMMA CInitCInv ==
    ASSUME CallbackInit
    PROVE  CInv
<1>1. HInv /\ calls = <<>>
  BY HtlcInitHInv DEF CallbackInit
<1>2. calls \in Seq(PendingCalls)
  BY <1>1
<1>3. ASSUME NEW t \in Assets
      PROVE  Taken(t) = 0 /\ Due(t) = 0
  <2>1. \A i \in DOMAIN calls : FALSE
    BY <1>1
  <2>2. /\ {i \in DOMAIN calls : IsTaken(calls[i], t)} = {}
        /\ {i \in DOMAIN calls : IsDue(calls[i], t)} = {}
    BY <2>1
  <2> QED BY <2>2, SumOfNone, TakenAndDue DEF SumTaken, SumDue
<1>4. ASSUME NEW t \in Assets
      PROVE  Owed(t) \in Nat
  <2>1. /\ IsFiniteSet(Open(t)) /\ Owed(t) = SumFunctionOnSet(Amounts, Open(t))
        /\ \A x \in Open(t) : Amounts[x] \in Nat
    BY <1>1, IdFields DEF HInv, Solvent, Open, Owed, Amounts
  <2> QED BY <2>1, SumIsNat
<1>5. SolventInCalls
  <2> SUFFICES ASSUME NEW t \in Assets
               PROVE  balance[t][HtlcAddr] >= Owed(t) + Taken(t) + Due(t)
    BY DEF SolventInCalls
  <2> QED BY <1>1, <1>3, <1>4 DEF HInv, Solvent
<1> QED BY <1>1, <1>2, <1>5 DEF CInv, HInv, Solvent

LEMMA OwedIsNat ==
    ASSUME HtlcTypeOK, NEW t, IsFiniteSet(Open(t))
    PROVE  Owed(t) \in Nat
<1>1. /\ Owed(t) = SumFunctionOnSet(Amounts, Open(t))
      /\ \A x \in Open(t) : Amounts[x] \in Nat
  BY IdFields DEF Open, Owed, Amounts
<1> QED BY <1>1, SumIsNat

LEMMA BalanceIsNat ==
    ASSUME HtlcTypeOK, NEW t \in Assets
    PROVE  balance[t][HtlcAddr] \in Nat
BY DEF HtlcTypeOK, Addresses

LEMMA BeginNewSwapCInv ==
    ASSUME CInv, NEW id \in Ids, BeginNewSwap(id)
    PROVE  CInv'
<1> DEFINE c == Call(id, id.sender, HtlcAddr, FALSE, {AfterNewSwap(swaps[id])})
<1>1. calls' = Append(calls, c) /\ UNCHANGED htlcVars
  BY DEF BeginNewSwap, Enter
<1>2. /\ c \in PendingCalls /\ \A t : ~IsTaken(c, t) /\ ~IsDue(c, t)
  <2>1. id.sender \in Addresses /\ id.sender # HtlcAddr /\ HtlcAddr \in Addresses
        /\ id.token \in Assets /\ id.token \in CallbackTokens
    BY IdFields, HtlcConstants DEF Addresses, BeginNewSwap, CanNewSwap
  <2> QED BY <2>1 DEF PendingCalls, CallRecords, Call, AfterNewSwap, IsTaken, IsDue
<1> HIDE DEF c
<1>3. calls' \in Seq(PendingCalls)
  BY <1>1, <1>2, EnterCall DEF CInv
<1>4. ASSUME NEW t \in Assets
      PROVE  Taken(t)' = Taken(t) /\ Due(t)' = Due(t)
  BY <1>1, <1>2, EnterCall DEF CInv
<1>5. SolventInCalls'
  BY <1>1, <1>4 DEF CInv, SolventInCalls, Owed, htlcVars
<1> QED BY <1>1, <1>3, <1>5 DEF CInv, HtlcTypeOK, LocksAreAssets, Open, htlcVars

\* A payout writes off an active swap before the call that pays.
LEMMA BeginPayoutCInv ==
    ASSUME CInv, NEW id \in Ids, NEW to \in Addresses, NEW r \in SwapRecords,
           Active(swaps[id]), ~Active(r), BeginPayout(id, to, r)
    PROVE  CInv'
<1>1. /\ HtlcTypeOK /\ LocksAreAssets /\ calls \in Seq(PendingCalls)
      /\ swaps' = [swaps EXCEPT ![id] = r] /\ timestamp' = timestamp
      /\ id.token \in Assets /\ id.amount \in Nat /\ HtlcAddr \in Addresses
  BY IdFields DEF CInv, BeginPayout, LocksAreAssets, Active, Addresses
<1>2. LocksAreAssets' /\ swaps' \in [Ids -> SwapRecords]
  BY <1>1, LockedAreAssets DEF HtlcTypeOK
<1>3. \A t \in Assets :
          /\ IsFiniteSet(Open(t)') /\ Owed(t) \in Nat /\ Owed(t)' \in Nat
          /\ Owed(t)' = Owed(t) - (IF id.token = t THEN id.amount ELSE 0)
  BY <1>1, OwedAfterEnd DEF CInv
<1>4. CASE id.token \in CallbackTokens /\ UNCHANGED balance
           /\ calls' = Append(calls, Call(id, HtlcAddr, to, FALSE, {}))
  <2> DEFINE c == Call(id, HtlcAddr, to, FALSE, {})
  <2>1. /\ c \in PendingCalls /\ c.id = id
        /\ \A t : ~IsTaken(c, t) /\ (IsDue(c, t) <=> id.token = t)
    BY <1>1 DEF PendingCalls, CallRecords, Call, IsTaken, IsDue
  <2> HIDE DEF c
  <2>2. calls' = Append(calls, c)
    BY <1>4 DEF c
  <2>3. calls' \in Seq(PendingCalls)
    BY <1>1, <2>1, <2>2, EnterCall
  <2>4. ASSUME NEW t \in Assets
        PROVE  balance'[t][HtlcAddr] >= Owed(t)' + Taken(t)' + Due(t)'
    <3>1. /\ Taken(t) \in Nat /\ Due(t) \in Nat /\ Taken(t)' = Taken(t)
          /\ Due(t)' = Due(t) + (IF id.token = t THEN id.amount ELSE 0)
      BY <1>1, <2>1, <2>2, EnterCall
    <3>2. balance[t][HtlcAddr] >= Owed(t) + Taken(t) + Due(t) /\ balance[t][HtlcAddr] \in Nat
      BY <1>1, BalanceIsNat DEF CInv, SolventInCalls
    <3> QED BY <1>1, <1>3, <1>4, <3>1, <3>2
  <2> QED BY <1>1, <1>2, <1>3, <1>4, <2>3, <2>4 DEF CInv, HtlcTypeOK, SolventInCalls
<1>5. CASE balance[id.token][HtlcAddr] >= id.amount
           /\ balance' = Transfer(balance, id.token, HtlcAddr, to, id.amount)
           /\ calls' = Append(calls, Call(id, HtlcAddr, to, TRUE, {}))
  <2> DEFINE c == Call(id, HtlcAddr, to, TRUE, {})
  <2>1. c \in PendingCalls /\ \A t : ~IsTaken(c, t) /\ ~IsDue(c, t)
    BY <1>1 DEF PendingCalls, CallRecords, Call, IsTaken, IsDue
  <2> HIDE DEF c
  <2>2. calls' = Append(calls, c)
    BY <1>5 DEF c
  <2>3. calls' \in Seq(PendingCalls)
    BY <1>1, <2>1, <2>2, EnterCall
  <2>4. balance' \in [Assets -> [Addresses -> Nat]]
    BY <1>1, <1>5, TransferType DEF HtlcTypeOK
  <2>5. ASSUME NEW t \in Assets
        PROVE  balance'[t][HtlcAddr] >= Owed(t)' + Taken(t)' + Due(t)'
    <3>1. /\ Taken(t) \in Nat /\ Due(t) \in Nat
          /\ Taken(t)' = Taken(t) /\ Due(t)' = Due(t)
      BY <1>1, <2>1, <2>2, EnterCall
    <3>2. balance[t][HtlcAddr] >= Owed(t) + Taken(t) + Due(t) /\ balance[t][HtlcAddr] \in Nat
      BY <1>1, BalanceIsNat DEF CInv, SolventInCalls
    <3>3. balance'[t][HtlcAddr] >=
              balance[t][HtlcAddr] - (IF t = id.token THEN id.amount ELSE 0)
      BY <1>1, <1>5, PayoutEffect
    <3>4. balance'[t][HtlcAddr] \in Nat
      BY <1>1, <2>4
    <3>5. Owed(t) \in Nat /\ Owed(t)' = Owed(t) - (IF id.token = t THEN id.amount ELSE 0)
      BY <1>3
    <3>8. id.amount \in Nat
      BY <1>1
    <3>6. CASE id.token = t
      <4>1. balance'[t][HtlcAddr] >= balance[t][HtlcAddr] - id.amount
        BY <3>3, <3>6
      <4>2. Owed(t)' = Owed(t) - id.amount
        BY <3>5, <3>6
      <4> QED BY <3>1, <3>2, <3>4, <3>5, <3>8, <4>1, <4>2
    <3>7. CASE id.token # t
      <4>1. balance'[t][HtlcAddr] >= balance[t][HtlcAddr] /\ Owed(t)' = Owed(t)
        BY <3>2, <3>3, <3>5, <3>7
      <4> QED BY <3>1, <3>2, <3>4, <3>5, <4>1
    <3> QED BY <3>6, <3>7
  <2> QED BY <1>1, <1>2, <1>3, <2>3, <2>4, <2>5 DEF CInv, HtlcTypeOK, SolventInCalls
<1> QED BY <1>4, <1>5 DEF BeginPayout, Enter

LEMMA BeginRedeemCInv ==
    ASSUME CInv, NEW id \in Ids, NEW p, BeginRedeem(id, p)
    PROVE  CInv'
<1>1. /\ swaps[id] \in SwapRecords /\ Active(swaps[id]) /\ id.recipient \in Addresses
  BY IdFields DEF CInv, HtlcTypeOK, BeginRedeem, CanRedeem, Active
<1>2. /\ AfterRedeem(swaps[id]) = Redeemed /\ Redeemed \in SwapRecords /\ ~Active(Redeemed)
  BY <1>1, RecordWrites DEF SwapRecords, Active, Redeemed, Locked, NoSwap
<1> QED BY <1>1, <1>2, BeginPayoutCInv DEF BeginRedeem

LEMMA BeginRefundCInv ==
    ASSUME CInv, NEW id \in Ids, NEW a, BeginRefund(a, id)
    PROVE  CInv'
<1>1. /\ swaps[id] \in SwapRecords /\ Active(swaps[id]) /\ id.sender \in Addresses
  BY IdFields DEF CInv, HtlcTypeOK, BeginRefund, CanRefund, Active, Addresses
<1>2. /\ AfterRefund(swaps[id]) = Returned /\ Returned \in SwapRecords /\ ~Active(Returned)
  BY <1>1, RecordWrites DEF SwapRecords, Active, Returned, Locked, NoSwap
<1> QED BY <1>1, <1>2, BeginPayoutCInv DEF BeginRefund

\* The units of the innermost call move: a lock's into the contract, a
\* payout's out of it.
LEMMA MoveUnitsCInv ==
    ASSUME CInv, MoveUnits
    PROVE  CInv'
<1> DEFINE c == Last(calls)
           d == [c EXCEPT !.paid = TRUE]
           rest == Front(calls)
<1>1. /\ HtlcTypeOK /\ calls \in Seq(PendingCalls) /\ calls # <<>>
      /\ swaps' = swaps /\ timestamp' = timestamp
      /\ ~c.paid /\ balance[c.id.token][c.from] >= c.id.amount
      /\ balance' = Transfer(balance, c.id.token, c.from, c.to, c.id.amount)
      /\ calls' = [calls EXCEPT ![Len(calls)].paid = TRUE]
  BY DEF CInv, MoveUnits
<1>2. /\ rest \in Seq(PendingCalls) /\ c \in PendingCalls
      /\ Len(calls) = Len(rest) + 1 /\ Len(calls) \in 1..Len(calls)
      /\ \A i \in 1..Len(rest) : calls[i] = rest[i]
      /\ c = calls[Len(calls)]
  BY <1>1, InnermostCall DEF Last
<1>3. /\ c.id \in Ids /\ c.id.token \in Assets /\ c.from \in Addresses
      /\ c.to \in Addresses /\ c.id.amount \in Nat
      /\ c.writes = {} => c.from = HtlcAddr
      /\ c.writes # {} => c.from # HtlcAddr /\ c.to = HtlcAddr
  BY <1>2, IdFields DEF PendingCalls, CallRecords
<1>4. /\ d \in PendingCalls /\ d.id = c.id /\ d.from = c.from /\ d.to = c.to
      /\ d.writes = c.writes /\ d.paid
  BY <1>2 DEF PendingCalls, CallRecords
<1> HIDE DEF c, d, rest
<1>5. /\ calls' \in Seq(PendingCalls) /\ Len(calls') = Len(rest) + 1
      /\ \A i \in 1..Len(rest) : calls'[i] = rest[i]
      /\ calls'[Len(calls')] = d
  <2>1. calls' = [calls EXCEPT ![Len(calls)] = d]
    BY <1>1, <1>2 DEF d
  <2>2. calls' \in Seq(PendingCalls) /\ Len(calls') = Len(calls)
    BY <1>1, <1>2, <1>4, <2>1, ExceptSeq
  <2>3. /\ \A i \in 1..Len(rest) : calls'[i] = calls[i]
        /\ calls'[Len(calls)] = d
    BY <1>1, <1>2, <2>1
  <2> QED BY <1>2, <2>2, <2>3
<1>6. balance' \in [Assets -> [Addresses -> Nat]]
  BY <1>1, <1>3, TransferType DEF HtlcTypeOK
<1>7. ASSUME NEW t \in Assets
      PROVE  balance'[t][HtlcAddr] >= Owed(t)' + Taken(t)' + Due(t)'
  <2>1. /\ SumTaken(rest, t) \in Nat /\ SumDue(rest, t) \in Nat
        /\ Taken(t) = SumTaken(rest, t) + (IF IsTaken(c, t) THEN c.id.amount ELSE 0)
        /\ Due(t) = SumDue(rest, t) + (IF IsDue(c, t) THEN c.id.amount ELSE 0)
    BY <1>1, SumsWithoutInnermost DEF c, rest
  <2>2. /\ Taken(t)' = SumTaken(rest, t) + (IF IsTaken(d, t) THEN c.id.amount ELSE 0)
        /\ Due(t)' = SumDue(rest, t) + (IF IsDue(d, t) THEN c.id.amount ELSE 0)
    <3>1. /\ SumTaken(calls', t) = SumTaken(rest, t)
                 + (IF IsTaken(calls'[Len(calls')], t) THEN calls'[Len(calls')].id.amount ELSE 0)
          /\ SumDue(calls', t) = SumDue(rest, t)
                 + (IF IsDue(calls'[Len(calls')], t) THEN calls'[Len(calls')].id.amount ELSE 0)
      BY <1>2, <1>5, OneMoreCall
    <3> QED BY <1>4, <1>5, <3>1, TakenAndDue
  <2>3. Owed(t)' = Owed(t) /\ Owed(t) \in Nat
    <3>1. Owed(t) \in Nat
      BY <1>1, OwedIsNat DEF CInv
    <3> QED BY <1>1, <3>1 DEF Owed
  <2>4. /\ balance[t][HtlcAddr] >= Owed(t) + Taken(t) + Due(t)
        /\ balance[t][HtlcAddr] \in Nat /\ balance'[t][HtlcAddr] \in Nat
    BY <1>1, <1>6, BalanceIsNat DEF CInv, SolventInCalls, Addresses
  <2>5. CASE c.writes = {}
    <3>1. /\ ~IsTaken(c, t) /\ ~IsTaken(d, t) /\ ~IsDue(d, t)
          /\ (IsDue(c, t) <=> c.id.token = t)
      BY <1>1, <1>3, <1>4, <2>5 DEF IsTaken, IsDue
    <3>2. balance'[t][HtlcAddr] >=
              balance[t][HtlcAddr] - (IF t = c.id.token THEN c.id.amount ELSE 0)
      BY <1>1, <1>3, <2>5, PayoutEffect
    <3>3. CASE c.id.token = t
      BY <1>3, <2>1, <2>2, <2>3, <2>4, <3>1, <3>2, <3>3
    <3>4. CASE c.id.token # t
      BY <1>3, <2>1, <2>2, <2>3, <2>4, <3>1, <3>2, <3>4
    <3> QED BY <3>3, <3>4
  <2>6. CASE c.writes # {}
    <3>1. /\ ~IsTaken(c, t) /\ ~IsDue(c, t) /\ ~IsDue(d, t)
          /\ (IsTaken(d, t) <=> c.id.token = t)
      BY <1>1, <1>3, <1>4, <2>6 DEF IsTaken, IsDue
    <3>2. balance'[t][HtlcAddr] =
              balance[t][HtlcAddr] + (IF t = c.id.token THEN c.id.amount ELSE 0)
      BY <1>1, <1>3, <2>6, DepositEffect
    <3>3. CASE c.id.token = t
      BY <1>3, <2>1, <2>2, <2>3, <2>4, <3>1, <3>2, <3>3
    <3>4. CASE c.id.token # t
      BY <1>3, <2>1, <2>2, <2>3, <2>4, <3>1, <3>2, <3>4
    <3> QED BY <3>3, <3>4
  <2> QED BY <2>5, <2>6
<1> QED BY <1>1, <1>5, <1>6, <1>7
           DEF CInv, HtlcTypeOK, LocksAreAssets, Open, SolventInCalls

\* A payout returns and leaves everything as it is; newSwap writes its record.
LEMMA ReturnCInv ==
    ASSUME CInv, Return
    PROVE  CInv'
<1> DEFINE c == Last(calls)
<1>1. /\ HtlcTypeOK /\ LocksAreAssets /\ calls \in Seq(PendingCalls) /\ calls # <<>>
      /\ c.paid /\ UNCHANGED <<balance, timestamp>> /\ calls' = Front(calls)
      /\ swaps' = [swaps EXCEPT ![c.id] =
             IF c.writes = {} THEN @ ELSE CHOOSE r \in c.writes : TRUE]
  BY DEF CInv, Return
<1>2. c \in PendingCalls /\ calls' \in Seq(PendingCalls)
  BY <1>1, InnermostCall
<1>3. /\ c.id \in Ids /\ c.id.token \in Assets /\ c.id.amount \in Nat
      /\ c.writes = {} \/ c.writes = {Locked}
      /\ c.writes # {} => c.to = HtlcAddr
  BY <1>2, IdFields DEF PendingCalls, CallRecords
<1>4. ASSUME NEW t \in Assets
      PROVE  /\ Taken(t)' \in Nat /\ Due(t)' \in Nat
             /\ Taken(t) = Taken(t)' + (IF IsTaken(c, t) THEN c.id.amount ELSE 0)
             /\ Due(t) = Due(t)' + (IF IsDue(c, t) THEN c.id.amount ELSE 0)
  BY <1>1, SumsWithoutInnermost, TakenAndDue
<1> HIDE DEF c
<1>5. ASSUME NEW t \in Assets
      PROVE  /\ IsFiniteSet(Open(t)) /\ Owed(t) \in Nat
             /\ balance[t][HtlcAddr] >= Owed(t) + Taken(t) + Due(t)
             /\ balance[t][HtlcAddr] \in Nat
  BY <1>1, BalanceIsNat, OwedIsNat DEF CInv, SolventInCalls
<1>6. CASE swaps' = swaps
  <2>1. ASSUME NEW t \in Assets
        PROVE  balance'[t][HtlcAddr] >= Owed(t)' + Taken(t)' + Due(t)'
    <3>1. Owed(t)' = Owed(t)
      BY <1>6 DEF Owed
    <3>2. Owed(t) + Taken(t) + Due(t) >= Owed(t) + Taken(t)' + Due(t)'
      BY <1>3, <1>4, <1>5
    <3>3. Taken(t) \in Nat /\ Due(t) \in Nat
      BY <1>1, SumsAreNat
    <3> QED BY <1>1, <1>4, <1>5, <3>1, <3>2, <3>3
  <2>2. HtlcTypeOK' /\ LocksAreAssets'
    BY <1>1, <1>6 DEF CInv, HtlcTypeOK, LocksAreAssets
  <2>3. \A t \in Assets : IsFiniteSet(Open(t)')
    <3>1. \A t \in Assets : Open(t)' = Open(t)
      BY <1>6 DEF Open
    <3> QED BY <1>5, <3>1
  <2> QED BY <1>2, <2>1, <2>2, <2>3 DEF CInv, SolventInCalls
<1>7. CASE c.writes = {}
  BY <1>1, <1>3, <1>6, <1>7 DEF HtlcTypeOK
<1>8. CASE c.writes = {Locked}
  <2>1. swaps' = [swaps EXCEPT ![c.id] = Locked]
    BY <1>1, <1>8
  <2>2. CASE Active(swaps[c.id])
    <3>1. swaps[c.id] = Locked
      BY <1>1, <1>3, <2>2, RecordWrites DEF HtlcTypeOK
    <3> QED BY <1>1, <1>3, <1>6, <2>1, <3>1 DEF HtlcTypeOK
  <2>3. CASE ~Active(swaps[c.id])
    <3>1. LocksAreAssets' /\ swaps' \in [Ids -> SwapRecords]
      BY <1>1, <1>3, <2>1, LockedAreAssets DEF HtlcTypeOK, SwapRecords
    <3>2. ASSUME NEW t \in Assets
          PROVE  /\ IsFiniteSet(Open(t)')
                 /\ balance'[t][HtlcAddr] >= Owed(t)' + Taken(t)' + Due(t)'
      <4>1. /\ IsFiniteSet(Open(t)')
            /\ Owed(t)' = Owed(t) + (IF c.id.token = t THEN c.id.amount ELSE 0)
        BY <1>1, <1>3, <1>5, <2>1, <2>3, OwedAfterLock
      <4>2. (IsTaken(c, t) <=> c.id.token = t) /\ ~IsDue(c, t)
        BY <1>1, <1>3, <1>8 DEF IsTaken, IsDue, c
      <4>3. CASE c.id.token = t
        BY <1>1, <1>3, <1>4, <1>5, <4>1, <4>2, <4>3
      <4>4. CASE c.id.token # t
        BY <1>1, <1>4, <1>5, <4>1, <4>2, <4>4
      <4> QED BY <4>1, <4>3, <4>4
    <3> QED BY <1>1, <1>2, <3>1, <3>2 DEF CInv, HtlcTypeOK, SolventInCalls
  <2> QED BY <2>2, <2>3
<1> QED BY <1>3, <1>7, <1>8

\* A call that nobody calls back from moves the balance by as much as it
\* changes what is owed.
LEMMA AtomicCInv ==
    ASSUME CInv, HtlcTypeOK', LocksAreAssets', UNCHANGED calls,
           \A t \in Assets :
               /\ IsFiniteSet(Open(t)') /\ Owed(t)' \in Nat
               /\ balance'[t][HtlcAddr] + Owed(t) >= balance[t][HtlcAddr] + Owed(t)'
    PROVE  CInv'
<1>1. ASSUME NEW t \in Assets
      PROVE  balance'[t][HtlcAddr] >= Owed(t)' + Taken(t)' + Due(t)'
  <2>1. Taken(t)' = Taken(t) /\ Due(t)' = Due(t)
    BY TakenAndDue
  <2>2. Taken(t) \in Nat /\ Due(t) \in Nat /\ Owed(t) \in Nat
    BY SumsAreNat, OwedIsNat DEF CInv
  <2>3. balance[t][HtlcAddr] >= Owed(t) + Taken(t) + Due(t)
    BY DEF CInv, SolventInCalls
  <2>4. balance[t][HtlcAddr] \in Nat /\ balance'[t][HtlcAddr] \in Nat
    BY DEF CInv, HtlcTypeOK, Addresses
  <2> QED BY <2>1, <2>2, <2>3, <2>4
<1> QED BY <1>1 DEF CInv, SolventInCalls

LEMMA AtomicNewSwapCInv ==
    ASSUME CInv, NEW id \in Ids, NewSwap(id), UNCHANGED calls
    PROVE  CInv'
<1>1. /\ HtlcTypeOK /\ HtlcTypeOK' /\ LocksAreAssets /\ id.token \in Assets
      /\ id.amount \in Nat /\ id.sender \in Addresses /\ id.sender # HtlcAddr
  BY NewSwapType, IdFields, HtlcConstants DEF CInv, NewSwap, CanNewSwap, Addresses
<1>2. ~Active(swaps[id]) /\ swaps' = [swaps EXCEPT ![id] = Locked]
  BY DEF NewSwap, CanNewSwap, Active, AfterNewSwap
<1>3. LocksAreAssets'
  BY <1>1, <1>2, LockedAreAssets
<1>4. ASSUME NEW t \in Assets
      PROVE  /\ IsFiniteSet(Open(t)') /\ Owed(t)' \in Nat
             /\ balance'[t][HtlcAddr] + Owed(t) >= balance[t][HtlcAddr] + Owed(t)'
  <2>1. balance'[t][HtlcAddr] =
            balance[t][HtlcAddr] + (IF t = id.token THEN id.amount ELSE 0)
    BY <1>1, DepositEffect DEF NewSwap
  <2>2. /\ IsFiniteSet(Open(t)') /\ Owed(t) \in Nat
        /\ Owed(t)' = Owed(t) + (IF id.token = t THEN id.amount ELSE 0)
    BY <1>1, <1>2, OwedAfterLock DEF CInv
  <2>3. balance[t][HtlcAddr] \in Nat
    BY <1>1, BalanceIsNat
  <2> QED BY <1>1, <2>1, <2>2, <2>3
<1> QED BY <1>1, <1>3, <1>4, AtomicCInv

\* The same for the two calls that end a swap.
LEMMA AtomicEndCInv ==
    ASSUME CInv, HtlcTypeOK', NEW id \in Ids, Active(swaps[id]),
           NEW r, ~Active(r), swaps' = [swaps EXCEPT ![id] = r],
           NEW to \in Addresses, balance[id.token][HtlcAddr] >= id.amount,
           balance' = Transfer(balance, id.token, HtlcAddr, to, id.amount),
           UNCHANGED calls
    PROVE  CInv'
<1>1. HtlcTypeOK /\ LocksAreAssets /\ id.token \in Assets /\ id.amount \in Nat
  BY IdFields DEF CInv, LocksAreAssets, Active
<1>2. LocksAreAssets'
  BY <1>1, LockedAreAssets
<1>3. ASSUME NEW t \in Assets
      PROVE  /\ IsFiniteSet(Open(t)') /\ Owed(t)' \in Nat
             /\ balance'[t][HtlcAddr] + Owed(t) >= balance[t][HtlcAddr] + Owed(t)'
  <2>1. balance'[t][HtlcAddr] >=
            balance[t][HtlcAddr] - (IF t = id.token THEN id.amount ELSE 0)
    BY <1>1, PayoutEffect
  <2>2. /\ IsFiniteSet(Open(t)') /\ Owed(t) \in Nat /\ Owed(t)' \in Nat
        /\ Owed(t)' = Owed(t) - (IF id.token = t THEN id.amount ELSE 0)
    BY <1>1, OwedAfterEnd DEF CInv
  <2>3. balance[t][HtlcAddr] \in Nat /\ balance'[t][HtlcAddr] \in Nat
    BY DEF CInv, HtlcTypeOK, Addresses
  <2>4. CASE id.token = t
    BY <1>1, <2>1, <2>2, <2>3, <2>4
  <2>5. CASE id.token # t
    BY <2>1, <2>2, <2>3, <2>5
  <2> QED BY <2>4, <2>5
<1> QED BY <1>2, <1>3, AtomicCInv

LEMMA AtomicRedeemCInv ==
    ASSUME CInv, NEW id \in Ids, NEW p, Redeem(id, p), UNCHANGED calls
    PROVE  CInv'
<1>1. /\ HtlcTypeOK' /\ swaps[id] \in SwapRecords
      /\ Active(swaps[id]) /\ id.recipient \in Addresses
  BY RedeemType, IdFields DEF CInv, HtlcTypeOK, Redeem, CanRedeem, Active
<1>2. swaps' = [swaps EXCEPT ![id] = Redeemed] /\ ~Active(Redeemed)
  BY <1>1, RecordWrites DEF Redeem, Active, Redeemed, Locked, NoSwap
<1> QED BY <1>1, <1>2, AtomicEndCInv DEF Redeem

LEMMA AtomicRefundCInv ==
    ASSUME CInv, NEW id \in Ids, NEW a, Refund(a, id), UNCHANGED calls
    PROVE  CInv'
<1>1. /\ HtlcTypeOK' /\ swaps[id] \in SwapRecords
      /\ Active(swaps[id]) /\ id.sender \in Addresses
  BY RefundType, IdFields DEF CInv, HtlcTypeOK, Refund, CanRefund, Active, Addresses
<1>2. swaps' = [swaps EXCEPT ![id] = Returned] /\ ~Active(Returned)
  BY <1>1, RecordWrites DEF Refund, Active, Returned, Locked, NoSwap
<1> QED BY <1>1, <1>2, AtomicEndCInv DEF Refund

LEMMA TickCInv ==
    ASSUME CInv, Tick, UNCHANGED calls
    PROVE  CInv'
<1>1. HtlcTypeOK' /\ swaps' = swaps /\ balance' = balance
  BY TickType DEF CInv, Tick
<1> QED BY <1>1 DEF CInv, LocksAreAssets, Open, SolventInCalls, Owed, Taken, Due, CallAmounts

LEMMA NextCInv == CInv /\ [CallbackNext]_callVars => CInv'
<1> SUFFICES ASSUME CInv, [CallbackNext]_callVars
             PROVE  CInv'
  OBVIOUS
<1>1. CASE UNCHANGED callVars
  BY <1>1 DEF callVars, CInv, HtlcTypeOK, LocksAreAssets, Open,
              SolventInCalls, Owed, Taken, Due, CallAmounts
<1> QED BY <1>1, BeginNewSwapCInv, BeginRedeemCInv, BeginRefundCInv, MoveUnitsCInv,
           ReturnCInv, AtomicNewSwapCInv, AtomicRedeemCInv, AtomicRefundCInv, TickCInv
           DEF CallbackNext

LEMMA AlwaysCInv == CallbackSpec => []CInv
<1>1. CallbackInit => CInv
  BY CInitCInv
<1> QED BY <1>1, NextCInv, PTL DEF CallbackSpec

\* In the middle of any nest of calls back the contract holds what its active
\* swaps, the locks about to be recorded and the payouts under way add up to,
\* for tokens that call back before or after they move the units
\* (HashedTimelock.sol newSwap, redeem, refund, _payout).
THEOREM SolventDespiteCallbacks == CallbackSpec => []SolventInCalls
<1>1. CInv => SolventInCalls
  BY DEF CInv
<1> QED BY <1>1, AlwaysCInv, PTL

\* Called back, the contract still never has a record that is both withdrawn
\* and refunded, nor a balance below zero.
THEOREM CallbackTypeCorrect == CallbackSpec => []HtlcTypeOK
<1>1. CInv => HtlcTypeOK
  BY DEF CInv
<1> QED BY <1>1, AlwaysCInv, PTL

\* A swap of the native coin or of a token that does not call back stays as it
\* ended, and its id is not used again, whatever is called from within the
\* payments of other swaps: only newSwap of a token that calls back writes a
\* record it checked earlier.
THEOREM FinalDespiteCalls == CallbackSpec => FinalDespiteCallbacks
<1> DEFINE Final ==
      \A id \in Ids : Atomic(id) =>
          /\ swaps[id].exists => swaps'[id].exists
          /\ swaps[id].exists /\ ~Active(swaps[id]) => swaps'[id] = swaps[id]
<1>1. CInv /\ [CallbackNext]_callVars => [Final]_callVars
  <2> SUFFICES ASSUME CInv, CallbackNext
               PROVE  Final
    OBVIOUS
  <2>1. HtlcTypeOK /\ calls \in Seq(PendingCalls)
    BY DEF CInv
  <2>2. ASSUME NEW id \in Ids, NEW r, r.exists, swaps' = [swaps EXCEPT ![id] = r],
               Active(swaps[id]) \/ ~swaps[id].exists \/ ~Atomic(id)
        PROVE  Final
    BY <2>1, <2>2 DEF HtlcTypeOK
  <2>3. Locked.exists /\ Redeemed.exists /\ Returned.exists
    BY DEF Locked, Redeemed, Returned, NoSwap
  <2>4. CASE swaps' = swaps
    BY <2>4
  <2>5. ASSUME NEW id \in Ids, NEW p, BeginRedeem(id, p) \/ Redeem(id, p)
        PROVE  Final
    <3>1. swaps[id] \in SwapRecords /\ Active(swaps[id])
      BY <2>1, <2>5 DEF HtlcTypeOK, BeginRedeem, Redeem, CanRedeem, Active
    <3>2. swaps' = [swaps EXCEPT ![id] = Redeemed]
      BY <2>5, <3>1, RecordWrites DEF BeginRedeem, BeginPayout, Redeem
    <3> QED BY <2>2, <2>3, <3>1, <3>2
  <2>6. ASSUME NEW id \in Ids, NEW a, BeginRefund(a, id) \/ Refund(a, id)
        PROVE  Final
    <3>1. swaps[id] \in SwapRecords /\ Active(swaps[id])
      BY <2>1, <2>6 DEF HtlcTypeOK, BeginRefund, Refund, CanRefund, Active
    <3>2. swaps' = [swaps EXCEPT ![id] = Returned]
      BY <2>6, <3>1, RecordWrites DEF BeginRefund, BeginPayout, Refund
    <3> QED BY <2>2, <2>3, <3>1, <3>2
  <2>7. ASSUME NEW id \in Ids, NewSwap(id)
        PROVE  Final
    BY <2>2, <2>3, <2>7 DEF NewSwap, CanNewSwap, AfterNewSwap
  <2>8. CASE Return
    <3> DEFINE c == Last(calls)
    <3>1. /\ c \in PendingCalls
          /\ swaps' = [swaps EXCEPT ![c.id] =
                 IF c.writes = {} THEN @ ELSE CHOOSE r \in c.writes : TRUE]
      BY <2>1, <2>8, InnermostCall DEF Return
    <3>2. /\ c.id \in Ids /\ (c.writes = {} \/ c.writes = {Locked})
          /\ c.writes # {} => ~Atomic(c.id)
      BY <3>1 DEF PendingCalls, CallRecords, Atomic
    <3> HIDE DEF c
    <3>3. CASE c.writes = {}
      BY <2>1, <2>4, <3>1, <3>2, <3>3 DEF HtlcTypeOK
    <3>4. CASE c.writes = {Locked}
      <4>1. swaps' = [swaps EXCEPT ![c.id] = Locked]
        BY <3>1, <3>4
      <4> QED BY <2>2, <2>3, <3>2, <3>4, <4>1
    <3> QED BY <3>2, <3>3, <3>4
  <2> QED BY <2>4, <2>5, <2>6, <2>7, <2>8
             DEF CallbackNext, BeginNewSwap, MoveUnits, Tick, htlcVars
<1> QED BY <1>1, AlwaysCInv, PTL DEF CallbackSpec, FinalDespiteCallbacks
=============================================================================
