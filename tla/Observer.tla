------------------------------ MODULE Observer ------------------------------
(***************************************************************************)
(* The CounterpartyObserver of a wallet (swapkit/src/exec/observe.rs) with *)
(* its RpcVerifier (swapkit/src/chain.rs), reading a chain that grows and  *)
(* may drop its last blocks while the observer is between two reads.       *)
(*                                                                         *)
(* One observe() is cut at its awaits:                                     *)
(*                                                                         *)
(*   idle --ReadHead--> logs --ReadLogs--> getSwap --GetSwap--> head       *)
(*     --ReadHeadAgain--> creation --ReadCreation--> idle                  *)
(*                                                                         *)
(* Block b of the chain is chain[b] and block.timestamp there is b; a      *)
(* block holds one event of the HTLC or none.                              *)
(***************************************************************************)
EXTENDS Tracker

CONSTANTS
    Chain,       \* cp_chain_id
    Secret,      \* the preimage of the one hashlock that is watched
    Ids,         \* contractIds under that hashlock
    MinConf,     \* min_confirmations
    MaxReorg,    \* the deepest reorganisation: blocks a chain may drop
    MaxHeight    \* bound on the height

Hashlock == Sha256(Secret)

ASSUME ObserverConstants ==
    /\ MinConf \in Nat /\ MaxReorg \in Nat /\ MaxHeight \in Nat
    /\ \A id \in Ids : id.hashlock = Hashlock /\ id.timelock \in Nat

\* What min_confirmations is chosen for.
ASSUME DeeperThanReorgs == MinConf > MaxReorg

VARIABLES
    chain,      \* the blocks, a sequence of events
    peak,       \* the greatest height the chain has had
    pc,         \* where observe() stands
    head,       \* the last get_block_number it read
    target,     \* the contractId it discovered
    tracker,    \* the observer's SwapTracker
    nextBlock,  \* next_block
    confirmed,  \* ids for which observe() ever returned Confirmed
    late        \* heights whose block was mined when next_block was past them

chainVars == <<chain, peak>>
vars == <<chain, peak, pc, head, target, tracker, nextBlock, confirmed, late>>

NoEvent == [kind |-> "none"]
NoTarget == [kind |-> "noTarget"]

Events == {NoEvent} \cup {LogNewSwap(id) : id \in Ids}
                    \cup {LogRedeem(id, Secret) : id \in Ids}
                    \cup {LogRefund(id) : id \in Ids}

-----------------------------------------------------------------------------
(* The chain *)

At(event) == {b \in DOMAIN chain : chain[b] = event}
Height == Len(chain)

\* swaps[id], as the blocks of the chain left it.
Stored(id) == [exists    |-> At(LogNewSwap(id)) # {},
               withdrawn |-> At(LogRedeem(id, Secret)) # {},
               refunded  |-> At(LogRefund(id)) # {}]

\* Blocks up to here stay for ever.
Final == IF peak > MaxReorg THEN peak - MaxReorg ELSE 0

Possible(event) ==
    LET timestamp == Height + 1
    IN  CASE event.kind = "none" -> TRUE
          [] event.kind = "LogNewSwap" ->
                CanNewSwap(Stored(event.id), event.id, timestamp)
          [] event.kind = "LogRedeem" ->
                CanRedeem(Stored(event.id), event.id, Secret, timestamp)
          [] event.kind = "LogRefund" ->
                CanRefund(Stored(event.id), event.id, event.id.sender, timestamp)

Mine(event) ==
    /\ Height < MaxHeight
    /\ Possible(event)
    /\ chain' = Append(chain, event)
    /\ peak' = IF Height + 1 > peak THEN Height + 1 ELSE peak
    /\ late' = IF Height + 1 < nextBlock THEN late \cup {Height + 1} ELSE late
    /\ UNCHANGED <<pc, head, target, tracker, nextBlock, confirmed>>

\* A reorganisation: the blocks above b are gone; others will take their place.
Reorg(b) ==
    /\ b >= Final /\ b < Height
    /\ chain' = SubSeq(chain, 1, b)
    /\ late' = {h \in late : h <= b}
    /\ UNCHANGED <<peak, pc, head, target, tracker, nextBlock, confirmed>>

-----------------------------------------------------------------------------
(* The observer *)

NewTracker == [h \in {Hashlock} |-> NoEntry]

\* What eth_getLogs finds in blocks from..to, as far as there are any; the
\* NoEvent of an empty block is none of the three events and is skipped.
LogsBetween(from, to) ==
    SubSeq(chain, IF from = 0 THEN 1 ELSE from, IF to < Height THEN to ELSE Height)

\* poll(): nothing new below next_block.
ReadHead ==
    /\ pc = "idle"
    /\ head' = Height
    /\ pc' = IF Height < nextBlock THEN "getSwap" ELSE "logs"
    /\ UNCHANGED <<chainVars, target, tracker, nextBlock, confirmed, late>>

\* Mutant: the cursor skips a block.
MutReadLogs ==
    /\ pc = "logs"
    /\ AllDecode(LogsBetween(nextBlock, head))
    /\ tracker' = PollIntoTracker(tracker, Chain, LogsBetween(nextBlock, head))
    /\ nextBlock' = head + 2
    /\ pc' = "getSwap"
    /\ UNCHANGED <<chainVars, head, target, confirmed, late>>

ReadLogs ==
    /\ pc = "logs"
    /\ AllDecode(LogsBetween(nextBlock, head))
    /\ tracker' = PollIntoTracker(tracker, Chain, LogsBetween(nextBlock, head))
    /\ nextBlock' = head + 1
    /\ pc' = "getSwap"
    /\ UNCHANGED <<chainVars, head, target, confirmed, late>>

\* discover_contract_id: the first leg of the hashlock on this chain.
Discovered ==
    LET mine == SelectSeq(tracker[Hashlock].legs, LAMBDA leg : leg.chain = Chain)
    IN  IF mine = <<>> THEN NoTarget ELSE mine[1].id

\* observe() answers Absent at once without a contractId, and when getSwap
\* shows no active lock.
GetSwap ==
    /\ pc = "getSwap"
    /\ LET id == Discovered
       IN  IF id # NoTarget /\ Active(Stored(id))
           THEN pc' = "head" /\ target' = id
           ELSE pc' = "idle" /\ UNCHANGED target
    /\ UNCHANGED <<chainVars, head, tracker, nextBlock, confirmed, late>>

ReadHeadAgain ==
    /\ pc = "head"
    /\ head' = Height
    /\ pc' = "creation"
    /\ UNCHANGED <<chainVars, target, tracker, nextBlock, confirmed, late>>

\* creation_block: the first LogNewSwap of the id, or None.  confirmations
\* saturates at a block above the head; None counts as 0.
CreationBlocks == At(LogNewSwap(target))

\* Mutants: one confirmation too many; one more than min_confirmations needed.
MutConfirmations(b) == (IF head > b THEN head - b ELSE 0) + 2

Confirmations(b) == (IF head > b THEN head - b ELSE 0) + 1

MutDeepEnough == \E b \in CreationBlocks : Confirmations(b) > MinConf

DeepEnough ==
    IF CreationBlocks = {} THEN MinConf = 0
    ELSE \E b \in CreationBlocks : Confirmations(b) >= MinConf

\* Confirmed or Shallow.
ReadCreation ==
    /\ pc = "creation"
    /\ confirmed' = IF DeepEnough THEN confirmed \cup {target} ELSE confirmed
    /\ pc' = "idle"
    /\ UNCHANGED <<chainVars, head, target, tracker, nextBlock, late>>

\* An RPC call fails: observe() returns the error where it stands.
ReadFails ==
    /\ pc # "idle"
    /\ pc' = "idle"
    /\ UNCHANGED <<chainVars, head, target, tracker, nextBlock, confirmed, late>>

\* The process ends; a new one starts with an empty tracker at block 0.
Restart ==
    /\ pc' = "idle"
    /\ tracker' = NewTracker
    /\ nextBlock' = 0
    /\ late' = {}
    /\ UNCHANGED <<chainVars, head, target, confirmed>>

\* A log does not fit: poll_into_tracker panics before next_block moves, and
\* so does the next process as long as that log is on the chain.
ReadLogsPanics ==
    /\ pc = "logs"
    /\ ~AllDecode(LogsBetween(nextBlock, head))
    /\ Restart

-----------------------------------------------------------------------------
Init ==
    /\ chain = <<>> /\ peak = 0
    /\ pc = "idle" /\ head = 0 /\ target = NoTarget
    /\ tracker = NewTracker /\ nextBlock = 0
    /\ confirmed = {} /\ late = {}

Read == ReadHead \/ ReadLogs \/ GetSwap \/ ReadHeadAgain \/ ReadCreation

Next ==
    \/ \E event \in Events : Mine(event)
    \/ \E b \in 0..MaxHeight : Reorg(b)
    \/ Read
    \/ ReadFails
    \/ ReadLogsPanics
    \/ Restart

Spec == Init /\ [][Next]_vars

\* The wallet keeps stepping, also after a panic, and no call to the endpoint
\* fails every time it is made.  A log that does not fit disables ReadLogs.
FairSpec ==
    /\ Spec
    /\ SF_vars(ReadHead) /\ SF_vars(ReadLogs) /\ SF_vars(GetSwap)
    /\ SF_vars(ReadHeadAgain) /\ SF_vars(ReadCreation)

-----------------------------------------------------------------------------
\* Types of the nine variables; the cursor is never past a block there was.
TypeOK ==
    /\ chain \in Seq(Events) /\ Height <= MaxHeight
    /\ peak \in Nat
    /\ pc \in {"idle", "logs", "getSwap", "head", "creation"}
    /\ head \in 0..peak
    /\ target \in Ids \cup {NoTarget}
    /\ DOMAIN tracker = {Hashlock}
    /\ nextBlock \in 0 .. peak + 1
    /\ confirmed \subseteq Ids
    /\ late \subseteq Nat

\* "Confirmation depth against reorgs" (ESTADO.md): a lock that observe()
\* reported as Confirmed, from a head and a creation block that it read at
\* different times, is in a block that no reorganisation removes any more.
ConfirmedIsFinal ==
    \A id \in confirmed :
        \E b \in 1..Height : b <= Final /\ chain[b] = LogNewSwap(id)

\* The cursor misses nothing: every event below next_block has reached the
\* tracker, unless its block, or the one that created its swap, replaced
\* another one after the cursor had passed (poll reads no block twice).
NothingMissed ==
    \A b \in DOMAIN chain :
        LET event  == chain[b]
            OnTime == b < nextBlock /\ b \notin late
                      /\ event # NoEvent
                      /\ At(LogNewSwap(event.id)) \cap late = {}
            Entry  == tracker[Hashlock]
            Marked(leg) ==
                CASE event.kind = "LogNewSwap" -> TRUE
                  [] event.kind = "LogRedeem" -> leg.redeemed /\ Entry.preimage = Secret
                  [] event.kind = "LogRefund" -> leg.refunded
        IN  OnTime => \E leg \in ToSet(Entry.legs) :
                          IsLeg(leg, Chain, event.id) /\ Marked(leg)

\* A lock that stays active and deep enough, that the cursor did not miss and
\* that no other leg of the hashlock came before, on a chain without a log
\* that does not fit.
Settled(id) ==
    /\ Active(Stored(id))
    /\ \E b \in At(LogNewSwap(id)) \ late : Height - b + 1 >= MinConf
    /\ Discovered \in {NoTarget, id}
    /\ AllDecode(chain)

\* Such a lock is in the end reported as Confirmed, through any failed reads,
\* restarts and reorganisations: the maker gets to lock, the taker to redeem.
\* Also through panics, if a reorganisation drops the log that does not fit;
\* as long as one stays, no poll gets past it.
SettledLockIsConfirmed ==
    \A id \in {i \in Ids : Fits(i)} : <>[]Settled(id) => <>(id \in confirmed)
=============================================================================
