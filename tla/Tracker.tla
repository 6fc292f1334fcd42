------------------------------ MODULE Tracker ------------------------------
(***************************************************************************)
(* The maestro's swap tracker (maestro/src/correlate.rs) and the function  *)
(* that feeds it the logs of one chain (maestro/src/watcher.rs), as        *)
(* operators.  The wallets' observers and the watchdog both run it.        *)
(*                                                                         *)
(* A contractId does not contain the chain it lives on: the same           *)
(* parameters give the same id on two chains, and the tracker tells their  *)
(* legs apart by chain_id.  Hence chain is never a field of an id here.    *)
(***************************************************************************)
EXTENDS Htlc, Widths, SequencesExt

CONSTANT NoPreimage   \* preimage = None

\* The three events of the HTLC that poll_into_tracker decodes.
LogNewSwap(id)          == [kind |-> "LogNewSwap", id |-> id]
LogRedeem(id, preimage) == [kind |-> "LogRedeem", id |-> id, preimage |-> preimage]
LogRefund(id)           == [kind |-> "LogRefund", id |-> id]

\* An entry of the map; a hashlock that is not in it has no legs.
NoEntry == [legs |-> <<>>, preimage |-> NoPreimage]

IsLeg(leg, chain, id) == leg.chain = chain /\ leg.id = id
HasLeg(entry, chain, id) == \E i \in DOMAIN entry.legs : IsLeg(entry.legs[i], chain, id)

-----------------------------------------------------------------------------
OnNewSwap(tracker, chain, id) ==
    [tracker EXCEPT ![id.hashlock].legs =
        IF HasLeg(tracker[id.hashlock], chain, id) THEN @
        ELSE Append(@, [chain |-> chain, id |-> id,
                        redeemed |-> FALSE, refunded |-> FALSE])]

\* The preimage is filed under its own hash, whatever leg the log names, and
\* only if some leg of that hash is known.
OnRedeem(tracker, chain, id, preimage) ==
    LET h == Sha256(preimage)
    IN  IF h \notin DOMAIN tracker \/ tracker[h].legs = <<>> THEN tracker
        ELSE [tracker EXCEPT
                ![h].preimage = preimage,
                ![h].legs = [i \in DOMAIN @ |->
                    IF IsLeg(@[i], chain, id)
                    THEN [@[i] EXCEPT !.redeemed = TRUE] ELSE @[i]]]

\* hashlock_of and on_refund: a leg that is not known stays unmarked.
OnRefund(tracker, chain, id) ==
    [h \in DOMAIN tracker |->
        [tracker[h] EXCEPT !.legs = [i \in DOMAIN @ |->
            IF IsLeg(@[i], chain, id)
            THEN [@[i] EXCEPT !.refunded = TRUE] ELSE @[i]]]]

\* The fields of a LogNewSwap are converted before on_new_swap is called: one
\* that does not fit panics, which ends the poll and the process.
Decodes(log) == log.kind = "LogNewSwap" => Fits(log.id)
AllDecode(logs) == \A i \in DOMAIN logs : Decodes(logs[i])

\* decode_log tries the three events in turn; any other log is skipped.  This
\* is for a log that decodes, so the leg's timelock is the one in the log.
OnLog(tracker, chain, log) ==
    CASE log.kind = "LogNewSwap" -> OnNewSwap(tracker, chain, log.id)
      [] log.kind = "LogRedeem"  -> OnRedeem(tracker, chain, log.id, log.preimage)
      [] log.kind = "LogRefund"  -> OnRefund(tracker, chain, log.id)
      [] OTHER -> tracker

\* logs is what eth_getLogs returned, in the order of the chain.  It comes to
\* this only if AllDecode(logs): the callers' actions have that guard, and
\* another action for the panic.
PollIntoTracker(tracker, chain, logs) ==
    FoldLeft(LAMBDA t, log : OnLog(t, chain, log), tracker, logs)

-----------------------------------------------------------------------------
ChainsOf(entry) == {entry.legs[i].chain : i \in DOMAIN entry.legs}

\* Mutant: two legs are enough, on one chain or on two.
MutCorrelated(entry) == Len(entry.legs) >= 2

\* Two legs, on distinct chains.
Correlated(entry) == Len(entry.legs) >= 2 /\ Cardinality(ChainsOf(entry)) >= 2

CorrelatedHashlocks(tracker) == {h \in DOMAIN tracker : Correlated(tracker[h])}

\* Mutant: a leg that was taken back still alarms.
MutTimedOut(tracker, now) ==
    UNION {{<<h, leg.chain, leg.id>> :
               leg \in {l \in ToSet(tracker[h].legs) :
                           now >= l.id.timelock /\ ~l.redeemed}} :
           h \in DOMAIN tracker}

\* timed_out: the legs that expired and, as far as is known, were not ended.
TimedOut(tracker, now) ==
    UNION {{<<h, leg.chain, leg.id>> :
               leg \in {l \in ToSet(tracker[h].legs) :
                           now >= l.id.timelock /\ ~l.redeemed /\ ~l.refunded}} :
           h \in DOMAIN tracker}
=============================================================================
