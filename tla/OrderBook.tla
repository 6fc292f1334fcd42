----------------------------- MODULE OrderBook -----------------------------
(***************************************************************************)
(* The order book service (orderbook/src/book.rs, server.rs, wire.rs,      *)
(* eip712.rs) with the requests it serves at the same time, and what two   *)
(* parties derive from a match it served (handshake.rs).                   *)
(*                                                                         *)
(* A POST reads the clock and stamps created_at before it waits for the    *)
(* write lock, so orders enter the book in another order than their        *)
(* stamps.  created_at is not signed, and no answer of the service carries *)
(* it.                                                                     *)
(***************************************************************************)
EXTENDS Matching, Handshake

CONSTANTS
    Makers,      \* addresses
    Tokens,      \* token addresses
    ChainIds,    \* chain ids
    Posts,       \* requests clients may send, each any number of times
    Requests,    \* slots for the requests in progress
    NoRequest,   \* an empty slot
    Skew,        \* how far apart two parties of one swap derive their contexts
    MaxTime      \* bound on the clock

\* The nine fields of an OrderDto; its strings are parsed.
Dto == [maker : Makers, sellToken : Tokens, sellChain : ChainIds,
        sellAmount : Nat, buyToken : Tokens, buyChain : ChainIds,
        buyAmount : Nat, validUntil : Nat, nonce : Nat]

\* signer is the address that a low-s signature of 65 bytes recovers to, or
\* none of Makers; parsed is false of a body with a bad address or amount.
ASSUME BookConstants ==
    /\ \A post \in Posts : post.dto \in Dto /\ post.parsed \in BOOLEAN
    /\ MaxTime \in Nat /\ Skew \in Nat
    /\ NoRequest \notin [post : Posts, now : Nat]

\* Mutant: the client's own time is taken for the arrival.
MutIntoOrder(dto, createdAt) == [f \in DOMAIN dto \cup {"createdAt"} |->
    IF f = "createdAt" THEN dto.validUntil ELSE dto[f]]

\* into_order.
IntoOrder(dto, createdAt) ==
    [maker |-> dto.maker, sellToken |-> dto.sellToken,
     sellChain |-> dto.sellChain, sellAmount |-> dto.sellAmount,
     buyToken |-> dto.buyToken, buyChain |-> dto.buyChain,
     buyAmount |-> dto.buyAmount, validUntil |-> dto.validUntil,
     nonce |-> dto.nonce, createdAt |-> createdAt]

\* hash_struct covers the signed fields alone, and keccak256 is injective.
Signed(order) ==
    [maker |-> order.maker, sellToken |-> order.sellToken,
     sellChain |-> order.sellChain, sellAmount |-> order.sellAmount,
     buyToken |-> order.buyToken, buyChain |-> order.buyChain,
     buyAmount |-> order.buyAmount, validUntil |-> order.validUntil,
     nonce |-> order.nonce]

Orders == {IntoOrder(post.dto, t) : post \in Posts, t \in 0..MaxTime}

ASSUME DigestsDiffer ==
    \A a, b \in Orders :
        /\ DigestRank(a) \in Nat
        /\ DigestRank(a) = DigestRank(b) <=> Signed(a) = Signed(b)

\* "taker_lock_secs >= maker_lock_secs + min_gap", with room for the time
\* between the two derivations; the clock is far from u64::MAX.
ASSUME Policy ==
    /\ TakerLock \in Nat /\ MakerLock \in Nat /\ MinGap \in Nat
    /\ TakerLock >= MakerLock + MinGap + Skew
    /\ MakerLock >= MinGap + Skew
    /\ MinGap > Skew
    /\ MaxTime + Skew + TakerLock + MinGap <= MaxU64

VARIABLES
    book,      \* the orders, in the order in which they were inserted
    inflight,  \* slot -> a request that waits for the write lock
    clock      \* the service's clock

vars == <<book, inflight, clock>>

-----------------------------------------------------------------------------
\* eip712::verify, with the time read when the request came in.
Verified(post, now) == post.signer = post.dto.maker /\ now <= post.dto.validUntil

\* Mutant: the stamp is part of what is hashed.
MutSeen(order) == \E i \in DOMAIN book : book[i] = order

Seen(order) == \E i \in DOMAIN book : Signed(book[i]) = Signed(order)

\* submit_order up to the lock: a body that does not parse is answered 400.
Arrive(r, post) ==
    /\ inflight[r] = NoRequest
    /\ post.parsed
    /\ inflight' = [inflight EXCEPT ![r] = [post |-> post, now |-> clock]]
    /\ UNCHANGED <<book, clock>>

\* Under the write lock: refused by verify (422), a duplicate (409) or taken.
Submit(r) ==
    /\ inflight[r] # NoRequest
    /\ LET post  == inflight[r].post
           order == IntoOrder(post.dto, inflight[r].now)
       IN  book' = IF Verified(post, inflight[r].now) /\ ~Seen(order)
                   THEN Append(book, order) ELSE book
    /\ inflight' = [inflight EXCEPT ![r] = NoRequest]
    /\ UNCHANGED clock

Tick ==
    /\ clock < MaxTime
    /\ clock' = clock + 1
    /\ UNCHANGED <<book, inflight>>

Init ==
    /\ book = <<>>
    /\ inflight = [r \in Requests |-> NoRequest]
    /\ clock = 0

Next ==
    \/ \E r \in Requests, post \in Posts : Arrive(r, post)
    \/ \E r \in Requests : Submit(r)
    \/ Tick

Spec == Init /\ [][Next]_vars

-----------------------------------------------------------------------------
\* Types of the three variables; no stamp is ahead of the clock.
TypeOK ==
    /\ book \in Seq(Orders)
    /\ clock \in 0..MaxTime
    /\ inflight \in [Requests -> [post : Posts, now : 0..MaxTime] \cup {NoRequest}]
    /\ \A r \in Requests : inflight[r] # NoRequest => inflight[r].now <= clock
    /\ \A i \in DOMAIN book : book[i].createdAt <= clock

\* An order is in the book once, however often it is sent, at whatever times,
\* and however its requests interleave ("order-hash anti-replay", book.rs): a
\* second entry would have a stamp, and so a rank and a role, of its own.
NoDuplicates ==
    \A i, j \in DOMAIN book : Signed(book[i]) = Signed(book[j]) => i = j

\* "The served orderbook path preserves that ranking" (README.md): the first
\* candidate that matches_for serves for an order is the one best_match_for
\* scans for, and find_match's pair is the first of its maker's; two orders
\* that match are served to both makers.
ServedAsRanked ==
    LET Served(i) == MatchesFor(book, book[i].maker, clock)
        FirstFor(i) == SelectInSeq(Served(i), LAMBDA pair : pair[1] = i)
        found == FindMatch(book, clock)
    IN  /\ \A i \in DOMAIN book :
               LET best == BestOf(book, Partners(book, i, clock))
               IN  IF FirstFor(i) = 0 THEN best = 0
                   ELSE Served(i)[FirstFor(i)] = <<i, best>>
        /\ found # <<>> => /\ FirstFor(found[1]) # 0
                           /\ Served(found[1])[FirstFor(found[1])] = found
        /\ \A i \in DOMAIN book : \A k \in DOMAIN Served(i) :
               LET pair == Served(i)[k]
               IN  \E m \in DOMAIN Served(pair[2]) :
                       Served(pair[2])[m] = <<pair[2], pair[1]>>

\* The context of the maker of a, matched with b, if it takes their stamps
\* for the two given orders'; both know the hashlock of the swap.
Derived(a, b, role, now) == DeriveContext(a, b, role, "H", role = "Taker", now)

Later(s, t) == IF s < t THEN t ELSE s

\* Two parties that derive from one match, with the same stamps and within
\* Skew of each other, take opposite roles; each one's leg passes the other's
\* verification when the later of the two has derived, and gives the other at
\* least what its order asks for (handshake.rs, verify.rs).
DealIsSound ==
    \A i, j \in DOMAIN book :
        i # j /\ Compatible(book[i], book[j], clock) =>
        \A s, t \in clock..clock + Skew :
            LET a  == book[i]
                b  == book[j]
                ca == Derived(a, b, AssignRole(a, b), s)
                cb == Derived(b, a, AssignRole(b, a), t)
            IN  /\ {ca.role, cb.role} = {"Taker", "Maker"}
                /\ Safe([ca EXCEPT !.now = Later(s, t)], LegOf(cb))
                /\ ca.amount >= a.buyAmount

\* "The secret is never revealed under role divergence" (handshake.rs, the
\* test divergence_both_taker_secret_never_revealed): two parties that saw
\* other stamps and both act as taker, or both as maker, never redeem or lock
\* against each other's leg, at any later time, though they share a hashlock.
DivergenceNeverReveals ==
    \A i, j \in DOMAIN book :
        i # j /\ Compatible(book[i], book[j], clock) =>
        \A role \in {"Taker", "Maker"}, s, t \in clock..clock + Skew, now \in 0..MaxTime :
            LET ca == Derived(book[i], book[j], role, s)
                cb == Derived(book[j], book[i], role, t)
                view == [ca EXCEPT !.lock = LegOf(cb), !.now = now]
            IN  /\ NextAction("MyLegLocked", view) # "RedeemCounterpartyLeg"
                /\ NextAction("Start", view) # "LockMyLeg"
=============================================================================
