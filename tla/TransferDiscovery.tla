-------------------------- MODULE TransferDiscovery --------------------------
(***************************************************************************)
(* discoverRecentUsdcTransfer: the newest USDC transfer within the         *)
(* lookback, asked for in windows of blocks from the latest one down,      *)
(* because nodes limit the range of a query.  It reads the latest block    *)
(* once; blocks mined meanwhile are not searched.  Base and Arbitrum       *)
(* Sepolia have the same code, and evidence of a settlement is generated   *)
(* from the transaction found, or from one that is asked for by its hash.  *)
(***************************************************************************)
EXTENDS Integers

CONSTANTS
    Blocks,         \* the highest block number
    Lookbacks,      \* lookbackBlocks
    BlockRanges     \* maxBlockRange

ASSUME DiscoveryAssumption ==
    Blocks \in Nat /\ Lookbacks \subseteq Nat /\ BlockRanges \subseteq Nat \ {0}

VARIABLES
    latest,      \* the latest block when the search begins
    usdc,        \* blocks with a Transfer log of the token
    lookback, blockRange,
    toBlock,     \* end of the next window
    found,       \* the block of the transaction; -1 while searching, -2 for null
    asked,       \* whether the transaction was asked for by its hash
    evidence     \* what has become of the evidence

discoveryVars == <<latest, usdc, lookback, blockRange, toBlock, found, asked, evidence>>

Searching == -1
Null == -2
Evidence == {"none", "expected", "threw", "PENDING", "CONFIRMED"}

DiscoveryTypeOK ==
    /\ latest \in 0..Blocks /\ usdc \subseteq 0..Blocks
    /\ lookback \in Lookbacks /\ blockRange \in BlockRanges
    /\ toBlock \in Int /\ found \in {Searching, Null} \cup 0..Blocks
    /\ asked \in BOOLEAN /\ evidence \in Evidence

DiscoveryInit ==
    /\ latest \in 0..Blocks
    /\ usdc \in SUBSET (0..latest)
    /\ lookback \in Lookbacks /\ blockRange \in BlockRanges
    /\ toBlock = latest
    /\ asked \in BOOLEAN
    /\ found \in IF asked THEN 0..latest ELSE {Searching}
    /\ evidence = "none"
-----------------------------------------------------------------------------
Start == IF latest > lookback THEN latest - lookback ELSE 0
FromBlock == IF toBlock > blockRange THEN toBlock - blockRange + 1 ELSE Start
Hits == usdc \cap (FromBlock..toBlock)

NewestHit(blocks) == {b \in blocks : \A other \in blocks : other <= b}

NextWindowPast == toBlock - blockRange - 1
NextWindow == toBlock - blockRange

SearchWindow ==
    /\ found = Searching /\ evidence = "none"
    /\ toBlock >= Start /\ FromBlock <= toBlock
    /\ IF Hits = {}
       THEN toBlock' = NextWindow /\ UNCHANGED found
       ELSE found' \in NewestHit(Hits) /\ UNCHANGED toBlock
    /\ UNCHANGED <<latest, usdc, lookback, blockRange, asked, evidence>>

GiveUp ==
    /\ found = Searching /\ evidence = "none"
    /\ toBlock < Start \/ FromBlock > toBlock
    /\ found' = Null
    /\ UNCHANGED <<latest, usdc, lookback, blockRange, toBlock, asked, evidence>>
-----------------------------------------------------------------------------
\* What is expected is the transaction's own transfer of the token: without
\* one, or without a transaction, there is no evidence.
Because(outcome) ==
    /\ evidence' = outcome
    /\ UNCHANGED <<latest, usdc, lookback, blockRange, toBlock, found, asked>>

OwnTransfer == {found} \cap usdc

NothingFound == found = Null /\ evidence = "none" /\ Because("threw")

ExpectOwnTransfer ==
    /\ found \in 0..Blocks /\ evidence = "none"
    /\ Because(IF OwnTransfer # {} THEN "expected" ELSE "threw")

\* One confirmation is required; the node that answers may be a block behind
\* the one that answered first, or ahead of it.
VerifyOwnTransfer ==
    /\ evidence = "expected"
    /\ \E seen \in latest - 1 .. latest + 1 :
          Because(IF seen - found + 1 < 1 THEN "PENDING" ELSE "CONFIRMED")

RpcFails == evidence \in {"none", "expected"} /\ Because("threw")

DiscoveryNext == SearchWindow \/ GiveUp \/ NothingFound \/ ExpectOwnTransfer \/ VerifyOwnTransfer \/ RpcFails

DiscoverySpec == DiscoveryInit /\ [][DiscoveryNext]_discoveryVars
-----------------------------------------------------------------------------
\* The windows leave no block out, whatever their size, the lookback and the
\* height of the chain: what is found is the newest transfer of all, null
\* means that there is none from Start on, and evidence of a settlement is
\* about a transfer that was mined (base-sepolia.ts:55).
DiscoveryFindsNewest ==
    /\ ~asked /\ found \in 0..Blocks => found \in NewestHit(usdc)
    /\ found = Null => usdc \cap (Start..latest) = {}
    /\ evidence \in {"PENDING", "CONFIRMED"} => found \in usdc
=============================================================================
