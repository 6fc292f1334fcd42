------------------------------ MODULE Maestro ------------------------------
(***************************************************************************)
(* The watchdog (maestro/src/bin/maestro.rs): it polls the HTLCs of two    *)
(* chains into one tracker and reports the hashlocks with legs on both,    *)
(* their preimages, and the legs that expired without being ended.         *)
(*                                                                         *)
(* One round is cut at its awaits, and the chains go on in between:        *)
(*                                                                         *)
(*   headA --> headB --> pollA --> pollB --> report --> headA              *)
(*                                                                         *)
(* Both heads are read before the first poll.  Chains only grow here: what *)
(* a reorganisation does to a cursor is in Observer.                       *)
(***************************************************************************)
EXTENDS Tracker

CONSTANTS
    Legs,        \* pairs <<chain, contractId>> that somebody may lock
    Preimages,   \* secrets that exist
    MaxTime,     \* bound on the clock
    MaxBlocks    \* bound on the events of one chain

Chains == {"A", "B"}
Hashlocks == {Sha256(p) : p \in Preimages}

ASSUME MaestroConstants ==
    /\ MaxTime \in Nat /\ MaxBlocks \in Nat
    /\ NoPreimage \notin Preimages
    /\ \A leg \in Legs : leg[1] \in Chains /\ leg[2].hashlock \in Hashlocks
                         /\ leg[2].timelock \in Nat

VARIABLES
    blocks,     \* chain -> its blocks from 1 on, one event each
    clock,      \* block.timestamp of both chains and the watchdog's clock
    pc,         \* where the loop stands
    heads,      \* head_a and head_b as read in this round
    last,       \* last_a and last_b: the first block not polled yet
    tracker,    \* the SwapTracker
    alarms      \* what the report just made warned of

chainVars == <<blocks, clock>>
vars == <<blocks, clock, pc, heads, last, tracker, alarms>>

-----------------------------------------------------------------------------
(* The chains *)

PreimageOf(id) == CHOOSE p \in Preimages : Sha256(p) = id.hashlock

\* swaps[id] after the given blocks of one chain.
StoredBy(logs, id) ==
    [exists    |-> Contains(logs, LogNewSwap(id)),
     withdrawn |-> Contains(logs, LogRedeem(id, PreimageOf(id))),
     refunded  |-> Contains(logs, LogRefund(id))]

Emit(chain, log) ==
    /\ Len(blocks[chain]) < MaxBlocks
    /\ blocks' = [blocks EXCEPT ![chain] = Append(@, log)]
    /\ UNCHANGED <<clock, pc, heads, last, tracker, alarms>>

Lock(chain, id) ==
    /\ CanNewSwap(StoredBy(blocks[chain], id), id, clock)
    /\ Emit(chain, LogNewSwap(id))

RedeemLeg(chain, id) ==
    /\ CanRedeem(StoredBy(blocks[chain], id), id, PreimageOf(id), clock)
    /\ Emit(chain, LogRedeem(id, PreimageOf(id)))

RefundLeg(chain, id) ==
    /\ CanRefund(StoredBy(blocks[chain], id), id, id.sender, clock)
    /\ Emit(chain, LogRefund(id))

Tick ==
    /\ clock < MaxTime
    /\ clock' = clock + 1
    /\ UNCHANGED <<blocks, pc, heads, last, tracker, alarms>>

-----------------------------------------------------------------------------
(* The watchdog *)

NewTracker == [h \in Hashlocks |-> NoEntry]

\* Scratch: written before they are read again.
NoHeads == [c \in Chains |-> 0]

ReadHead(chain, here, next) ==
    /\ pc = here
    /\ heads' = [heads EXCEPT ![chain] = Len(blocks[chain])]
    /\ pc' = next
    /\ alarms' = {}
    /\ UNCHANGED <<chainVars, last, tracker>>

\* Block 0 holds no event.
LogsBetween(chain, from, to) ==
    SubSeq(blocks[chain], IF from = 0 THEN 1 ELSE from, to)

\* What eth_getLogs returns; nothing is asked for below the cursor.
Fetched(chain) == LogsBetween(chain, last[chain], heads[chain])

\* Mutant: the cursor moves two past the head.
MutPoll(chain, here, next) ==
    /\ pc = here
    /\ AllDecode(Fetched(chain))
    /\ IF heads[chain] >= last[chain]
       THEN /\ tracker' = PollIntoTracker(tracker, chain, Fetched(chain))
            /\ last' = [last EXCEPT ![chain] = heads[chain] + 2]
       ELSE UNCHANGED <<tracker, last>>
    /\ pc' = next
    /\ UNCHANGED <<chainVars, heads, alarms>>

Poll(chain, here, next) ==
    /\ pc = here
    /\ AllDecode(Fetched(chain))
    /\ IF heads[chain] >= last[chain]
       THEN /\ tracker' = PollIntoTracker(tracker, chain, Fetched(chain))
            /\ last' = [last EXCEPT ![chain] = heads[chain] + 1]
       ELSE UNCHANGED <<tracker, last>>
    /\ pc' = next
    /\ UNCHANGED <<chainVars, heads, alarms>>

\* The correlated swaps and their preimages, which it logs as well, are
\* functions of the tracker and not kept.
Report ==
    /\ pc = "report"
    /\ alarms' = TimedOut(tracker, clock)
    /\ heads' = NoHeads
    /\ pc' = "headA"
    /\ UNCHANGED <<chainVars, last, tracker>>

\* A call fails, and main returns the error, or the process is stopped; it is
\* started anew.
Restart ==
    /\ pc' = "headA"
    /\ heads' = NoHeads
    /\ last' = [c \in Chains |-> 0]
    /\ tracker' = NewTracker
    /\ alarms' = {}
    /\ UNCHANGED chainVars

\* A log does not fit: poll_into_tracker panics before the cursor moves.  A
\* new process reads the same log again, and ends there again.
PollPanics(chain, here) ==
    /\ pc = here
    /\ ~AllDecode(Fetched(chain))
    /\ Restart

-----------------------------------------------------------------------------
Init ==
    /\ blocks = [c \in Chains |-> <<>>]
    /\ clock = 0
    /\ pc = "headA"
    /\ heads = NoHeads
    /\ last = [c \in Chains |-> 0]
    /\ tracker = NewTracker
    /\ alarms = {}

ReadHeadA == ReadHead("A", "headA", "headB")
ReadHeadB == ReadHead("B", "headB", "pollA")
PollA == Poll("A", "pollA", "pollB")
PollB == Poll("B", "pollB", "report")

Next ==
    \/ \E leg \in Legs : Lock(leg[1], leg[2])
    \/ \E leg \in Legs : RedeemLeg(leg[1], leg[2])
    \/ \E leg \in Legs : RefundLeg(leg[1], leg[2])
    \/ Tick
    \/ ReadHeadA \/ ReadHeadB \/ PollA \/ PollB \/ Report
    \/ PollPanics("A", "pollA") \/ PollPanics("B", "pollB")
    \/ Restart

Spec == Init /\ [][Next]_vars

\* Time passes, the loop goes on, the process is started again whenever it has
\* ended, and no call to an endpoint fails every time.  A log that does not
\* fit disables the poll of its chain.
FairSpec ==
    /\ Spec
    /\ WF_vars(Tick)
    /\ SF_vars(ReadHeadA) /\ SF_vars(ReadHeadB)
    /\ SF_vars(PollA) /\ SF_vars(PollB) /\ SF_vars(Report)

-----------------------------------------------------------------------------
\* Types of the seven variables; no cursor is past the end of its chain.
TypeOK ==
    /\ DOMAIN blocks = Chains
    /\ clock \in 0..MaxTime
    /\ pc \in {"headA", "headB", "pollA", "pollB", "report"}
    /\ heads \in [Chains -> Nat] /\ last \in [Chains -> Nat]
    /\ \A c \in Chains : last[c] <= Len(blocks[c]) + 1
    /\ DOMAIN tracker = Hashlocks
    /\ alarms \subseteq (Hashlocks \X Chains \X {leg[2] : leg \in Legs})

\* What the cursors have passed of a chain.
Polled(chain) == SubSeq(blocks[chain], 1, last[chain] - 1)

\* The leg with this id on this chain, as those blocks left it.
Known(leg) == StoredBy(Polled(leg[1]), leg[2])

\* "WATCHDOG: leg expired without redeem" (maestro.rs): in whatever order the
\* legs of the two chains were locked, ended and polled, with several legs on
\* one chain or one contractId on both, the legs that time out
\* are exactly those that the polled blocks left active past their timelock.
WatchdogExact ==
    TimedOut(tracker, clock) =
        {<<leg[2].hashlock, leg[1], leg[2]>> :
            leg \in {l \in Legs : Active(Known(l)) /\ clock >= l[2].timelock}}

\* A swap is reported once both chains hold a leg of its hashlock, and with
\* its preimage once either chain has shown it: the two event streams are
\* joined by the hash alone.
CorrelationExact ==
    \A h \in Hashlocks :
        LET under == {leg \in Legs : leg[2].hashlock = h /\ Known(leg).exists}
        IN  /\ h \in CorrelatedHashlocks(tracker) <=> {leg[1] : leg \in under} = Chains
            /\ tracker[h].preimage # NoPreimage <=> \E leg \in under : Known(leg).withdrawn

\* A leg that expired and is never ended is in the end warned of, unless either
\* chain holds a log that does not fit: no round gets past its poll any more,
\* and no leg of either chain is warned of.
ExpiredLegAlarms ==
    \A leg \in Legs :
        LET stored == StoredBy(blocks[leg[1]], leg[2])
        IN  Active(stored) /\ clock >= leg[2].timelock ~>
                \/ <<leg[2].hashlock, leg[1], leg[2]>> \in alarms
                \/ ~Active(stored)
                \/ \E c \in Chains : ~AllDecode(blocks[c])
=============================================================================
