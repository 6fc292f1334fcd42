------------------------------ MODULE Matching ------------------------------
(***************************************************************************)
(* orderbook/src/matching.rs and order.rs: which orders match, and how the *)
(* candidates are ranked.  An order is a record with the fields of Order;  *)
(* indices into the book count from 1, and 0 is None.                      *)
(***************************************************************************)
EXTENDS Naturals, SequencesExt

IsExpired(order, now) == order.validUntil < now

\* Tokens and chains mirrored between the two orders.
Mirrors(a, b) ==
    /\ a.sellToken = b.buyToken /\ a.sellChain = b.buyChain
    /\ a.buyToken = b.sellToken /\ a.buyChain = b.sellChain

Crosses(a, b) == a.sellAmount >= b.buyAmount /\ b.sellAmount >= a.buyAmount

Compatible(a, b, now) ==
    ~IsExpired(a, now) /\ ~IsExpired(b, now) /\ Mirrors(a, b) /\ Crosses(a, b)

\* cmp_makers_for_taker = Less: more for the taker, then older, then by nonce.
RanksBefore(a, b) ==
    \/ a.sellAmount > b.sellAmount
    \/ a.sellAmount = b.sellAmount /\ a.createdAt < b.createdAt
    \/ a.sellAmount = b.sellAmount /\ a.createdAt = b.createdAt /\ a.nonce < b.nonce

Indices(s) == [i \in DOMAIN s |-> i]

-----------------------------------------------------------------------------
\* The orders that i may be matched with.
Partners(orders, i, now) ==
    {j \in DOMAIN orders \ {i} : Compatible(orders[i], orders[j], now)}

\* Mutant: a later candidate of the same rank takes over.
MutBestOf(orders, eligible) ==
    FoldLeft(LAMBDA best, j :
                 IF j \in eligible /\ (best = 0 \/ ~RanksBefore(orders[best], orders[j]))
                 THEN j ELSE best,
             0, Indices(orders))

\* The scan of best_match_for and find_match: the first best candidate.
BestOf(orders, eligible) ==
    FoldLeft(LAMBDA best, j :
                 IF j \in eligible /\ (best = 0 \/ RanksBefore(orders[j], orders[best]))
                 THEN j ELSE best,
             0, Indices(orders))

\* find_match: the first order of the book that has a match, with its best.
FindMatch(orders, now) ==
    LET Best(i) == BestOf(orders, Partners(orders, i, now))
        first   == SelectInSeq(Indices(orders), LAMBDA i : Best(i) # 0)
    IN  IF first = 0 THEN <<>> ELSE <<first, Best(first)>>

\* What the stable sort of matches_for puts first: equals keep their order.
SortsBefore(orders, x, y) ==
    \/ RanksBefore(orders[x], orders[y])
    \/ ~RanksBefore(orders[y], orders[x]) /\ x < y

\* The candidates of one order, sorted.
Candidates(orders, i, now) ==
    CHOOSE found \in SetToSeqs(Partners(orders, i, now)) :
        \A m, n \in DOMAIN found : m < n => SortsBefore(orders, found[m], found[n])

\* Book::matches_for: for each order of the maker its candidates, as pairs
\* <<index of the maker's order, index of the other>>.
MatchesFor(orders, maker, now) ==
    FlattenSeq([i \in DOMAIN orders |->
        IF orders[i].maker # maker THEN <<>>
        ELSE LET found == Candidates(orders, i, now)
             IN  [k \in DOMAIN found |-> <<i, found[k]>>]])
=============================================================================
