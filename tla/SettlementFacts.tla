--------------------------- MODULE SettlementFacts ---------------------------
(***************************************************************************)
(* What a verdict about a transaction is made of: its receipt, then the    *)
(* number of the latest block, asked of RPC nodes of which some lag, while *)
(* blocks are mined and reorganized.  verifySettlement waits for the       *)
(* receipt, the verification of the registered chains asks once per URL.   *)
(***************************************************************************)
EXTENDS Integers, FiniteSets

CONSTANTS
    Readers,      \* verifications
    Depths,       \* requiredConfirmations
    MaxHead,      \* bound of the block number
    MaxBranches   \* bound of reorganizations

ASSUME FactsAssumption ==
    /\ IsFiniteSet(Readers) /\ Depths \subseteq Nat \ {0}
    /\ MaxHead \in Nat /\ MaxBranches \in Nat

VARIABLES
    head,       \* the latest block
    mined,      \* the transaction: its block, 0 for none, status and logs
    branches,   \* reorganizations so far
    reader      \* locals of a verification

factsVars == <<head, mined, branches, reader>>

\* The expected transfer, one with another token, party or amount, and a log
\* that is no ERC-20 Transfer or lacks topics or data.
Log == {"expected", "other", "noise"}
Unmined == [at |-> 0, ok |-> FALSE, logs |-> {}]
Included(b) == {[at |-> b, ok |-> TRUE, logs |-> L] : L \in SUBSET Log}
               \cup {[at |-> b, ok |-> FALSE, logs |-> {}]}
Expectation == {"none", "this_chain", "other_chain"}
Verdict == {"none", "CONFIRMED", "REVERTED", "PENDING", "RECONCILIATION_REQUIRED", "threw"}
NoReader == [at |-> "idle", waits |-> FALSE, need |-> 1, expects |-> "none", urls |-> 0,
             receipt |-> Unmined, verdict |-> "none", stale |-> FALSE]

FactsTypeOK ==
    /\ head \in 0..MaxHead /\ branches \in 0..MaxBranches
    /\ mined.at \in 0..head /\ mined.logs \subseteq Log
    /\ \A r \in Readers :
        /\ reader[r].at \in {"idle", "receipt", "head", "done"}
        /\ reader[r].need \in Depths \cup {1} /\ reader[r].expects \in Expectation
        /\ reader[r].urls \in 0..2 /\ reader[r].verdict \in Verdict
        /\ reader[r].waits \in BOOLEAN /\ reader[r].stale \in BOOLEAN

FactsInit ==
    /\ head = 0
    /\ mined = Unmined
    /\ branches = 0
    /\ reader = [r \in Readers |-> NoReader]
-----------------------------------------------------------------------------
Mine ==
    /\ head < MaxHead
    /\ head' = head + 1
    /\ mined' \in {mined} \cup (IF mined.at = 0 THEN Included(head + 1) ELSE {})
    /\ UNCHANGED <<branches, reader>>

\* The blocks from b on are replaced; a receipt read before is history.
Reorganize(b) ==
    /\ branches < MaxBranches /\ b <= head
    /\ branches' = branches + 1
    /\ mined' \in IF mined.at < b THEN {mined} ELSE {Unmined} \cup UNION {Included(k) : k \in b..head}
    /\ reader' = [r \in Readers |-> [reader[r] EXCEPT !.stale = @ \/ reader[r].receipt.at >= b]]
    /\ UNCHANGED head
-----------------------------------------------------------------------------
\* A verification reads the receipt on one of its URLs; one that waits reads
\* it when the transaction has the depth asked for.
Verify(r, waits, need, expects, urls) ==
    /\ reader[r].at = "idle"
    /\ reader' = [reader EXCEPT ![r] = [at |-> "receipt", waits |-> waits, need |-> need,
                     expects |-> expects, urls |-> urls, receipt |-> Unmined,
                     verdict |-> "none", stale |-> FALSE]]
    /\ UNCHANGED <<head, mined, branches>>

\* The payment's own: the expected facts name its own chain.
VerifyLiveSettlement(r, need, expects) ==
    expects # "other_chain" /\ Verify(r, TRUE, need, expects, 1)

\* The chains of the registry: the first URL of a chain and no other.
VerifyEvmChainTx(r, need, expects) == Verify(r, FALSE, need, expects, 1)

GetEvmChainThrows(r) ==
    /\ reader[r].at = "idle"
    /\ reader' = [reader EXCEPT ![r].at = "done", ![r].verdict = "threw"]
    /\ UNCHANGED <<head, mined, branches>>

\* A URL of the caller's, or all those of the chain's definition.
FetchSettlementFromTx(r, need, expects, urls) == Verify(r, FALSE, need, expects, urls)

ReadReceipt(r) ==
    /\ reader[r].at = "receipt" /\ mined.at # 0
    /\ reader' = [reader EXCEPT ![r].at = "head", ![r].receipt = mined]
    /\ UNCHANGED <<head, mined, branches>>

\* No receipt, or no answer: withRpcFallback starts over with the next URL, the
\* last one's error is the verification's.
Fails(r) ==
    /\ reader[r].at \in {"receipt", "head"}
    /\ reader' = [reader EXCEPT ![r] =
          IF reader[r].urls > 1
          THEN [reader[r] EXCEPT !.at = "receipt", !.urls = @ - 1, !.receipt = Unmined, !.stale = FALSE]
          ELSE [reader[r] EXCEPT !.at = "done", !.verdict = "threw"]]
    /\ UNCHANGED <<head, mined, branches>>

ParseErc20TransferLogs(logs) == logs \ {"noise"}

\* verifyTransferFacts, and what is said of a receipt when nothing is expected.
VerdictOn(r, confirmations) ==
    LET receipt == reader[r].receipt
        transfers == ParseErc20TransferLogs(receipt.logs)
    IN  CASE ~receipt.ok -> "REVERTED"
          [] receipt.ok /\ reader[r].expects = "none" -> "CONFIRMED"
          [] receipt.ok /\ reader[r].expects = "other_chain" -> "RECONCILIATION_REQUIRED"
          [] receipt.ok /\ reader[r].expects = "this_chain" ->
               IF confirmations < reader[r].need THEN "PENDING"
               ELSE IF "expected" \in transfers THEN "CONFIRMED" ELSE "RECONCILIATION_REQUIRED"

ConfirmationsSince(at, latest) == latest - at + 2
Confirmations(at, latest) == latest - at + 1

\* The node that answers may be a block behind; whoever waits has seen the
\* depth on another one.  (No node still serves the receipt of a block that
\* was replaced: such a reader is one whose receipt is stale at once.)
ReadLatest(r, latest) ==
    LET receipt == reader[r].receipt
    IN  /\ reader[r].at = "head" /\ latest \in {head - 1, head}
        /\ reader[r].waits => head - receipt.at + 1 >= reader[r].need
        /\ reader' = [reader EXCEPT ![r].at = "done",
              ![r].verdict = VerdictOn(r, Confirmations(receipt.at, latest))]
        /\ UNCHANGED <<head, mined, branches>>

FactsNext ==
    \/ Mine
    \/ \E b \in 1..MaxHead : Reorganize(b)
    \/ \E r \in Readers :
        \/ \E need \in Depths, expects \in Expectation :
              \/ VerifyLiveSettlement(r, need, expects) \/ VerifyEvmChainTx(r, need, expects)
              \/ \E urls \in 1..2 : FetchSettlementFromTx(r, need, expects, urls)
        \/ GetEvmChainThrows(r)
        \/ ReadReceipt(r) \/ Fails(r)
        \/ \E latest \in 0..MaxHead : ReadLatest(r, latest)

FactsSpec == FactsInit /\ [][FactsNext]_factsVars
-----------------------------------------------------------------------------
\* createSettlementVerifyRail's observe, which expects nothing.
Observation(r) == CASE reader[r].verdict = "CONFIRMED" -> "INCLUDED"
                    [] reader[r].verdict \in {"PENDING", "threw"} -> "UNOBSERVED"
                    [] OTHER -> "MISMATCH"

\* INV-002 in time: when a verdict is pronounced, and no reorganization
\* replaced its block between the readings, a confirmed transaction is on the
\* chain with the expected transfer at the depth asked for, whatever node
\* lagged, whatever URL failed half-way; one called a mismatch is on the chain
\* without it.
VerdictsAreTrue ==
    [][\A r \in Readers :
         reader[r].at = "head" /\ reader'[r].at = "done" /\ ~reader[r].stale =>
            /\ reader'[r].verdict = "CONFIRMED" =>
                 /\ mined.at # 0 /\ mined.ok
                 /\ reader[r].expects # "none" =>
                      "expected" \in mined.logs /\ head - mined.at + 1 >= reader[r].need
            /\ reader[r].expects = "this_chain" /\ Observation(r)' = "MISMATCH" =>
                 mined.at # 0 /\ "expected" \notin mined.logs]_factsVars
=============================================================================
