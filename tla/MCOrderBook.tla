---------------------------- MODULE MCOrderBook ----------------------------
(***************************************************************************)
(* Instance of OrderBook for TLC: an order with two counterparts of equal  *)
(* price and one of a better price that expires; each may be sent again,   *)
(* and one of them also under another party's signature.                   *)
(***************************************************************************)
EXTENDS OrderBook

CONSTANTS ann, bob, cat, x, y, r1, r2

A == [maker |-> ann, sellToken |-> x, sellChain |-> 1, sellAmount |-> 2,
      buyToken |-> y, buyChain |-> 2, buyAmount |-> 1, validUntil |-> 9, nonce |-> 1]
B == [maker |-> bob, sellToken |-> y, sellChain |-> 2, sellAmount |-> 1,
      buyToken |-> x, buyChain |-> 1, buyAmount |-> 2, validUntil |-> 9, nonce |-> 1]
C == [B EXCEPT !.maker = cat]
D == [C EXCEPT !.sellAmount = 2, !.buyAmount = 1, !.validUntil = 1]

Post(dto, signer) == [dto |-> dto, signer |-> signer, parsed |-> TRUE]

MCPosts == {Post(A, ann), Post(B, bob), Post(C, cat), Post(D, cat), Post(B, cat),
            [Post(B, bob) EXCEPT !.parsed = FALSE]}

\* B's digest is the lowest one.
MCRank(order) == CASE Signed(order) = A -> 2 [] Signed(order) = B -> 1
                   [] Signed(order) = C -> 3 [] Signed(order) = D -> 4

Symmetry == Permutations(Requests)
=============================================================================
