---------------------------- MODULE ReorgRescan ----------------------------
(***************************************************************************)
(* Block anchors and the cron job that compares them with the chain.  An   *)
(* anchor is the block a transfer was seen in; the reconciliation sweep    *)
(* writes it when it confirms a payment, the rescan writes the missing     *)
(* ones.  Every ten minutes the rescan reads the anchored attempts, oldest *)
(* update first, and looks for each of them whether the chain still has    *)
(* that block.  Its statements are three separate ones; the second of them *)
(* names payment_intents.updated_at, a column no migration creates, so it  *)
(* throws, and the exception ends the rescan.                              *)
(***************************************************************************)
EXTENDS Integers, FiniteSets, SequencesExt

CONSTANTS
    Transfers,    \* payment intents with a transaction, one attempt each
    Rescans,      \* instances of the cron job that may overlap
    Sweep,        \* the reconciliation cron job
    ScanLimit,    \* LIMIT of the anchored rows (100)
    MaxHeight,    \* bound of the chain
    MaxReorgs,    \* bound of reorganizations
    MaxOutages    \* bound of RPC errors and crashes

ASSUME ReorgAssumption ==
    /\ IsFiniteSet(Transfers) /\ Sweep \notin Rescans
    /\ ScanLimit \in Nat /\ MaxHeight \in Nat \ {0} /\ MaxReorgs \in Nat /\ MaxOutages \in Nat

VARIABLES
    block,     \* the canonical chain: the fork each height was produced on
    fork,      \* reorganizations so far
    mined,     \* the height a transfer is mined at, 0 while it is not
    paid,      \* payment_intents.status
    attempt,   \* execution_attempts: status and block anchor
    updated,   \* the attempts in the order of execution_attempts.updated_at
    job,       \* locals of the cron jobs
    orphaned,  \* history: transfers a reorganization removed from their block
    outages    \* RPC errors and crashes left

chainVars == <<block, fork, mined, orphaned>>
reorgVars == <<block, fork, mined, paid, attempt, updated, job, orphaned, outages>>

Jobs == Rescans \cup {Sweep}
Anchor == [number: 0..MaxHeight, hash: 0..MaxReorgs]
NoAnchor == [number |-> 0, hash |-> 0]
Item == [transfer: Transfers, anchor: Anchor, place: Nat]    \* a row, and how many rows come before it
IdleJob == [pc |-> "idle", todo |-> {}, missing |-> {}, item |-> {}]

\* "submitted" stands for every status the sweep takes up; "unknown", one of
\* them, is what the rewind would write.  Statuses no job looks at are left out.
RowStatus == {"submitted", "unknown", "confirmed"}

ReorgTypeOK ==
    /\ block \in Seq(0..MaxReorgs) /\ Len(block) <= MaxHeight
    /\ fork \in 0..MaxReorgs
    /\ mined \in [Transfers -> 0..MaxHeight]
    /\ paid \in [Transfers -> RowStatus]
    /\ attempt \in [Transfers -> [status: {"SUBMITTED", "UNKNOWN"}, anchor: Anchor]]
    /\ ToSet(updated) = Transfers /\ Len(updated) = Cardinality(Transfers)
    /\ \A j \in Jobs :
        /\ job[j].pc \in {"idle", "scan", "mark", "rewind", "missing", "read", "write", "confirm"}
        /\ job[j].todo \subseteq Item
        /\ job[j].missing \subseteq Transfers
        /\ job[j].item \subseteq Item /\ Cardinality(job[j].item) <= 1
    /\ orphaned \subseteq Transfers
    /\ outages \in 0..MaxOutages

ReorgInit ==
    /\ block = <<0>>
    /\ fork = 0
    /\ mined = [t \in Transfers |-> 0]
    /\ paid = [t \in Transfers |-> "submitted"]
    /\ attempt = [t \in Transfers |-> [status |-> "SUBMITTED", anchor |-> NoAnchor]]
    /\ updated = SetToSeq(Transfers)
    /\ job = [j \in Jobs |-> IdleJob]
    /\ orphaned = {}
    /\ outages = MaxOutages
-----------------------------------------------------------------------------
(***************************************************************************)
(* The chain.                                                              *)
(***************************************************************************)
\* A new block, with some of the transfers that wait for one.
Extend(S) ==
    /\ Len(block) < MaxHeight
    /\ \A t \in S : mined[t] = 0
    /\ block' = Append(block, fork)
    /\ mined' = [t \in Transfers |-> IF t \in S THEN Len(block) + 1 ELSE mined[t]]
    /\ UNCHANGED <<fork, paid, attempt, updated, job, orphaned, outages>>

\* The blocks from height h on are replaced.  S is in the first of the new
\* blocks; the other transfers of the old ones wait again.
Reorganize(h, S) ==
    /\ fork < MaxReorgs
    /\ \A t \in S : mined[t] = 0 \/ mined[t] >= h
    /\ fork' = fork + 1
    /\ block' = [k \in DOMAIN block |-> IF k < h THEN block[k] ELSE fork + 1]
    /\ mined' = [t \in Transfers |->
                   IF t \in S THEN h ELSE IF mined[t] < h THEN mined[t] ELSE 0]
    /\ orphaned' = orphaned \cup {t \in Transfers : mined[t] >= h}
    /\ UNCHANGED <<paid, attempt, updated, job, outages>>

\* The node's answer about a height: the hash of its block.
HashAt(n) == block[n]

\* The block a receipt names; a transfer that is not mined has no receipt,
\* and asking for it throws.
HasReceipt(t) == mined[t] # 0
ReceiptAnchor(t) == [number |-> mined[t], hash |-> HashAt(mined[t])]
-----------------------------------------------------------------------------
Anchored(t) == attempt[t].anchor # NoAnchor
InScope(t) == paid[t] \in {"submitted", "unknown", "confirmed"}

\* An attempt's place in the order of the updates.
PlaceOf(t) == CHOOSE n \in DOMAIN updated : updated[n] = t

\* The rows of the first query: those with the oldest updates.
AnchoredRows ==
    LET rows == {t \in Transfers : Anchored(t) /\ InScope(t)}
        older(t) == Cardinality({u \in rows : PlaceOf(u) < PlaceOf(t)})
    IN  {[transfer |-> t, anchor |-> attempt[t].anchor, place |-> older(t)] :
            t \in {t \in rows : older(t) < ScanLimit}}

\* Every UPDATE of an attempt but the anchor's own sets updated_at.
TouchedNever(t) == updated
Touched(t) == Append(RemoveAt(updated, PlaceOf(t)), t)

Go(j, pc) == job' = [job EXCEPT ![j].pc = pc]
End(j) == job' = [job EXCEPT ![j] = IdleJob]
IsNext(j, row) == row \in job[j].todo /\ \A other \in job[j].todo : row.place <= other.place
ItemOf(j) == CHOOSE i \in job[j].item : TRUE

RescanStart(j) ==
    /\ j \in Rescans /\ job[j].pc = "idle"
    /\ job' = [job EXCEPT ![j] = [IdleJob EXCEPT !.pc = "scan", !.todo = AnchoredRows]]
    /\ UNCHANGED <<chainVars, paid, attempt, updated, outages>>

\* scanBlockAnchor: what the comparison of an anchor with the chain says.
OutcomeAtParent(a) == IF a.number = 1 \/ HashAt(a.number - 1) = a.hash THEN "ok" ELSE "reorg_detected"
Outcome(a) == IF HashAt(a.number) = a.hash THEN "ok" ELSE "reorg_detected"

ScanBlock(j) ==
    /\ job[j].pc = "scan"
    /\ \E row \in job[j].todo :
        /\ IsNext(j, row)
        /\ IF Outcome(row.anchor) = "reorg_detected"
           THEN job' = [job EXCEPT ![j].todo = @ \ {row}, ![j].item = {row}, ![j].pc = "mark"]
           ELSE job' = [job EXCEPT ![j].todo = @ \ {row}]
    /\ UNCHANGED <<chainVars, paid, attempt, updated, outages>>

\* getBlock throws: the outcome is "block_unavailable" and the row is skipped.
ScanUnavailable(j) ==
    /\ job[j].pc = "scan" /\ outages > 0
    /\ outages' = outages - 1
    /\ \E row \in job[j].todo : IsNext(j, row) /\ job' = [job EXCEPT ![j].todo = @ \ {row}]
    /\ UNCHANGED <<chainVars, paid, attempt, updated>>

MarkAttempt(j) ==
    /\ job[j].pc = "mark"
    /\ attempt' = [attempt EXCEPT ![ItemOf(j).transfer].status = "UNKNOWN"]
    /\ updated' = Touched(ItemOf(j).transfer)
    /\ Go(j, "rewind")
    /\ UNCHANGED <<chainVars, paid, outages>>

\* UPDATE payment_intents SET ..., updated_at = NOW(): there is no such
\* column.  The statement has no effect, the exception ends the rescan, and
\* neither the mirror in financial_intents nor the missing anchors are reached.
RewindPayment(j) ==
    /\ job[j].pc = "rewind"
    /\ End(j)
    /\ UNCHANGED <<chainVars, paid, attempt, updated, outages>>

RescanMissing(j) ==
    /\ job[j].pc = "scan" /\ job[j].todo = {}
    /\ job' = [job EXCEPT ![j] = [IdleJob EXCEPT !.pc = "missing",
                  !.missing = {t \in Transfers : ~Anchored(t) /\ InScope(t)}]]
    /\ UNCHANGED <<chainVars, paid, attempt, updated, outages>>

NextMissing(j) ==
    /\ job[j].pc = "missing"
    /\ \/ /\ job[j].missing = {}
          /\ End(j)
       \/ \E t \in job[j].missing :
            job' = [job EXCEPT ![j].pc = "read", ![j].missing = @ \ {t},
                               ![j].item = {[transfer |-> t, anchor |-> NoAnchor, place |-> 0]}]
    /\ UNCHANGED <<chainVars, paid, attempt, updated, outages>>
-----------------------------------------------------------------------------
(***************************************************************************)
(* attachBlockAnchorForPaymentIntent, in both jobs.  The sweep swallows    *)
(* its exception and goes on to confirm; the rescan ends with it.          *)
(***************************************************************************)
AfterAttach(j) == IF j = Sweep THEN "confirm" ELSE "missing"

AttachRead(j) ==
    /\ job[j].pc = "read" /\ HasReceipt(ItemOf(j).transfer)
    /\ job' = [job EXCEPT ![j].pc = "write",
                  ![j].item = {[i EXCEPT !.anchor = ReceiptAnchor(i.transfer)] : i \in @}]
    /\ UNCHANGED <<chainVars, paid, attempt, updated, outages>>

AttachThrows(j) ==
    /\ job[j].pc = "read"
    /\ IF HasReceipt(ItemOf(j).transfer)
       THEN outages > 0 /\ outages' = outages - 1
       ELSE UNCHANGED outages
    /\ IF j = Sweep THEN Go(j, "confirm") ELSE End(j)
    /\ UNCHANGED <<chainVars, paid, attempt, updated>>

AttachWrite(j) ==
    /\ job[j].pc = "write"
    /\ attempt' = [attempt EXCEPT ![ItemOf(j).transfer].anchor = ItemOf(j).anchor]
    /\ Go(j, AfterAttach(j))
    /\ UNCHANGED <<chainVars, paid, updated, outages>>
-----------------------------------------------------------------------------
(***************************************************************************)
(* Who confirms: the sweep, which anchors first, and the handler, which    *)
(* does not anchor.  Verification waits for the receipt.                   *)
(***************************************************************************)
Candidate(t) == paid[t] \in {"submitted", "unknown"}

SweepVerify(t) ==
    /\ job[Sweep].pc = "idle" /\ Candidate(t) /\ HasReceipt(t)
    /\ job' = [job EXCEPT ![Sweep] = [IdleJob EXCEPT !.pc = "read",
                  !.item = {[transfer |-> t, anchor |-> NoAnchor, place |-> 0]}]]
    /\ UNCHANGED <<chainVars, paid, attempt, updated, outages>>

SweepConfirm ==
    /\ job[Sweep].pc = "confirm"
    /\ paid' = [paid EXCEPT ![ItemOf(Sweep).transfer] = "confirmed"]
    /\ End(Sweep)
    /\ UNCHANGED <<chainVars, attempt, updated, outages>>

HandlerConfirm(t) ==
    /\ paid[t] = "submitted" /\ HasReceipt(t)
    /\ paid' = [paid EXCEPT ![t] = "confirmed"]
    /\ UNCHANGED <<chainVars, attempt, updated, job, outages>>

CrashJob(j) ==
    /\ job[j].pc # "idle" /\ outages > 0
    /\ outages' = outages - 1
    /\ End(j)
    /\ UNCHANGED <<chainVars, paid, attempt, updated>>

RescanStep(j) ==
    \/ RescanStart(j) \/ ScanBlock(j) \/ MarkAttempt(j) \/ RewindPayment(j)
    \/ RescanMissing(j) \/ NextMissing(j) \/ AttachRead(j) \/ AttachThrows(j) \/ AttachWrite(j)

ReorgNext ==
    \/ \E S \in SUBSET Transfers : Extend(S)
    \/ \E h \in DOMAIN block, S \in SUBSET Transfers : Reorganize(h, S)
    \/ \E j \in Rescans : RescanStep(j) \/ ScanUnavailable(j)
    \/ AttachRead(Sweep) \/ AttachThrows(Sweep) \/ AttachWrite(Sweep) \/ SweepConfirm
    \/ \E t \in Transfers : SweepVerify(t) \/ HandlerConfirm(t)
    \/ \E j \in Jobs : CrashJob(j)

\* A job that runs goes on, and the schedule starts the next one.
ReorgFairness == \A j \in Rescans : WF_reorgVars(RescanStep(j))

ReorgSpec == ReorgInit /\ [][ReorgNext]_reorgVars /\ ReorgFairness
-----------------------------------------------------------------------------
\* An attempt is marked UNKNOWN by the rescan (reorgRescan.ts:52) only if
\* a reorganization did remove its transfer from a block, although rescan,
\* sweep and chain move between the reading of the anchor, the comparison
\* and the write.
MarkedOnlyIfOrphaned ==
    \A t \in Transfers : attempt[t].status = "UNKNOWN" => t \in orphaned

\* The block a transfer is anchored in is gone and its attempt not yet marked.
LostAnchor(t) ==
    Anchored(t) /\ Outcome(attempt[t].anchor) = "reorg_detected" /\ attempt[t].status = "SUBMITTED"

\* Every anchor the chain lost is noticed in the end, although the first one
\* a rescan notices ends it: what it marked moves to the end of the order
\* (reorgRescan.ts:41 and :55), so that the next rescan comes to another one.
LostAnchorsAreMarked ==
    \A t \in Transfers : LostAnchor(t) ~> ~LostAnchor(t)

\* "Detect EVM reorgs and rewind payment state" (reorgRescan.ts:117): a payment
\* whose attempt is marked is rewound to unknown.
ReorgRewinds ==
    \A t \in Transfers : attempt[t].status = "UNKNOWN" ~> paid[t] = "unknown"
=============================================================================
