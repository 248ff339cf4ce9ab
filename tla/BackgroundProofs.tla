---------------------------- MODULE BackgroundProofs ----------------------------
(***************************************************************************)
(* Theorems about the work behind the payment calls, each for every value  *)
(* of its own constants: the reorg rescan, the purchases, the queues.  The *)
(* parts share no variable, so every section stands on its own; the last   *)
(* is about the parts side by side, as MCBackground has them.              *)
(***************************************************************************)
EXTENDS MCBackground, SumLemmas, SequenceTheorems, TLAPS

------------------------------------------------------------------------------
(***************************************************************************)
(* The rescan, for any number of transfers and of overlapping rescans, any *)
(* limit, and reorganizations of any depth.                                *)
(***************************************************************************)

JobStep == {"idle", "scan", "mark", "rewind", "missing", "read", "write", "confirm"}
BlockRef == [number: Nat, hash: Nat]
Row == [transfer: Transfers, anchor: BlockRef, place: Nat]
JobState == [pc: JobStep, todo: SUBSET Row, missing: SUBSET Transfers, item: SUBSET Row]

RescanTyped ==
    /\ block \in Seq(Nat) /\ fork \in Nat
    /\ mined \in [Transfers -> Nat] /\ \A t \in Transfers : mined[t] <= Len(block)
    /\ attempt \in [Transfers -> [status: {"SUBMITTED", "UNKNOWN"}, anchor: BlockRef]]
    /\ job \in [Jobs -> JobState]

\* A block a transfer was seen in is still its block, or was taken from it.
Seen(t, a) ==
    \/ t \in orphaned
    \/ a.number = mined[t] /\ a.number \in DOMAIN block /\ block[a.number] = a.hash

\* That holds of every anchor, in the table and in the hands of a job; a row
\* to be marked belongs to a transfer that lost its block.
HandsTrue(s) ==
    /\ \A i \in s.todo : Seen(i.transfer, i.anchor)
    /\ \A i, k \in s.item : i = k
    /\ s.pc \in {"mark", "read", "write"} => s.item # {}
    /\ s.pc = "mark" => \A i \in s.item : i.transfer \in orphaned
    /\ s.pc = "write" => \A i \in s.item : Seen(i.transfer, i.anchor)

AnchorsTrue ==
    /\ \A t \in Transfers : Anchored(t) => Seen(t, attempt[t].anchor)
    /\ \A j \in Jobs : HandsTrue(job[j])

RescanInv == RescanTyped /\ AnchorsTrue /\ MarkedOnlyIfOrphaned

LEMMA IdleJobTyped == IdleJob \in JobState /\ HandsTrue(IdleJob)
BY DEF IdleJob, JobState, JobStep, HandsTrue

LEMMA RescanStarts == ReorgInit => RescanInv
<1> SUFFICES ASSUME ReorgInit PROVE RescanInv
  OBVIOUS
<1>1. RescanTyped
  BY IdleJobTyped DEF ReorgInit, RescanTyped, NoAnchor, BlockRef
<1>2. AnchorsTrue
  BY IdleJobTyped DEF ReorgInit, AnchorsTrue, Anchored, NoAnchor
<1>3. MarkedOnlyIfOrphaned
  BY DEF ReorgInit, MarkedOnlyIfOrphaned
<1> QED BY <1>1, <1>2, <1>3 DEF RescanInv

\* A step of one job, while the chain stands still.
LEMMA JobMoves ==
  ASSUME RescanInv, UNCHANGED <<block, fork, mined, orphaned, attempt>>,
         NEW j \in Jobs, NEW s \in JobState, HandsTrue(s), job' = [job EXCEPT ![j] = s]
  PROVE  RescanInv'
<1>1. job' \in [Jobs -> JobState] /\ job'[j] = s /\ \A i \in Jobs \ {j} : job'[i] = job[i]
  BY DEF RescanInv, RescanTyped
<1>2. \A i \in Jobs : HandsTrue(job'[i])
  BY <1>1 DEF RescanInv, AnchorsTrue
<1>3. \A t, a : Seen(t, a)' <=> Seen(t, a)
  BY DEF Seen
<1>4. \A i \in Jobs : HandsTrue(job[i])'
  BY <1>2 DEF HandsTrue, Seen
<1> QED BY <1>1, <1>3, <1>4 DEF RescanInv, RescanTyped, AnchorsTrue, Anchored, MarkedOnlyIfOrphaned

\* The chain moves: what was seen stays true of the transfers that keep their block.
LEMMA ChainMoves ==
  ASSUME RescanInv, RescanTyped', UNCHANGED <<attempt, job>>, orphaned \subseteq orphaned',
         \A t \in Transfers, a \in BlockRef : Seen(t, a) => Seen(t, a)'
  PROVE  RescanInv'
<1>1. \A t \in Transfers : Anchored(t)' => Seen(t, attempt[t].anchor)'
  BY DEF RescanInv, RescanTyped, AnchorsTrue, Anchored
<1>2. ASSUME NEW j \in Jobs PROVE HandsTrue(job[j])'
  <2>1. job[j] \in JobState /\ HandsTrue(job[j])
    BY DEF RescanInv, RescanTyped, AnchorsTrue
  <2>2. \A i \in job[j].todo \cup job[j].item : i.transfer \in Transfers /\ i.anchor \in BlockRef
    BY <2>1 DEF JobState, Row
  <2> QED BY <2>1, <2>2 DEF HandsTrue
<1>3. MarkedOnlyIfOrphaned'
  BY DEF RescanInv, MarkedOnlyIfOrphaned
<1> QED BY <1>1, <1>2, <1>3 DEF RescanInv, AnchorsTrue, Anchored

LEMMA ExtendKeeps ==
  ASSUME RescanInv, NEW S \in SUBSET Transfers, Extend(S)
  PROVE  RescanInv'
<1>0. /\ block \in Seq(Nat) /\ Len(block) \in Nat /\ fork \in Nat /\ mined \in [Transfers -> Nat]
      /\ DOMAIN block = 1..Len(block) /\ \A t \in Transfers : mined[t] <= Len(block)
  BY DEF RescanInv, RescanTyped
<1>1. /\ block' = Append(block, fork) /\ UNCHANGED <<fork, orphaned, attempt, job>>
      /\ mined' = [t \in Transfers |-> IF t \in S THEN Len(block) + 1 ELSE mined[t]]
      /\ \A t \in S : mined[t] = 0
  BY DEF Extend
<1>2. /\ block' \in Seq(Nat) /\ Len(block') = Len(block) + 1 /\ DOMAIN block' = 1..(Len(block) + 1)
      /\ \A k \in DOMAIN block : block'[k] = block[k]
  BY <1>0, <1>1
<1>3. RescanTyped'
  BY <1>0, <1>1, <1>2 DEF RescanInv, RescanTyped
<1>4. \A t \in Transfers, a \in BlockRef : Seen(t, a) => Seen(t, a)'
  BY <1>0, <1>1, <1>2 DEF Seen
<1> QED BY <1>1, <1>3, <1>4, ChainMoves

LEMMA ReorganizeMoves ==
  ASSUME RescanInv, NEW h \in DOMAIN block, NEW S \in SUBSET Transfers, Reorganize(h, S)
  PROVE  RescanInv'
<1>0. /\ block \in Seq(Nat) /\ Len(block) \in Nat /\ fork \in Nat /\ mined \in [Transfers -> Nat]
      /\ DOMAIN block = 1..Len(block) /\ h \in Nat /\ h <= Len(block)
      /\ \A t \in Transfers : mined[t] <= Len(block)
  BY DEF RescanInv, RescanTyped
<1>1. /\ fork' = fork + 1 /\ UNCHANGED <<attempt, job>>
      /\ block' = [k \in DOMAIN block |-> IF k < h THEN block[k] ELSE fork + 1]
      /\ mined' = [t \in Transfers |-> IF t \in S THEN h ELSE IF mined[t] < h THEN mined[t] ELSE 0]
      /\ orphaned' = orphaned \cup {t \in Transfers : mined[t] >= h}
      /\ \A t \in S : mined[t] = 0 \/ mined[t] >= h
  BY DEF Reorganize
<1>2. /\ block' \in Seq(Nat) /\ Len(block') = Len(block) /\ DOMAIN block' = DOMAIN block
      /\ \A k \in DOMAIN block : k < h => block'[k] = block[k]
  <2>1. block' \in [1..Len(block) -> Nat]
    BY <1>0, <1>1
  <2> QED BY <1>0, <1>1, <2>1
<1>3. RescanTyped'
  BY <1>0, <1>1, <1>2 DEF RescanInv, RescanTyped
<1>4. ASSUME NEW t \in Transfers, NEW a \in BlockRef, Seen(t, a) PROVE Seen(t, a)'
  <2>1. CASE t \in orphaned \/ mined[t] >= h
    BY <1>1, <2>1 DEF Seen
  <2>2. CASE t \notin orphaned /\ mined[t] < h
    <3>1. a.number = mined[t] /\ a.number \in DOMAIN block /\ block[a.number] = a.hash
      BY <1>4, <2>2 DEF Seen
    <3>2. t \notin S /\ mined'[t] = mined[t]
      BY <1>0, <1>1, <2>2, <3>1
    <3> QED BY <1>2, <2>2, <3>1, <3>2 DEF Seen
  <2> QED BY <1>0, <2>1, <2>2
<1> QED BY <1>1, <1>3, <1>4, ChainMoves

\* The rows of the first query are anchored attempts.
LEMMA RowsSeen ==
  ASSUME RescanInv
  PROVE  /\ AnchoredRows \in SUBSET Row
         /\ \A i \in AnchoredRows : Seen(i.transfer, i.anchor) /\ i.anchor = attempt[i.transfer].anchor
<1> DEFINE rows == {t \in Transfers : Anchored(t) /\ InScope(t)}
           before(t) == {u \in rows : PlaceOf(u) < PlaceOf(t)}
           first == {t \in rows : Cardinality(before(t)) < ScanLimit}
<1>1. IsFiniteSet(rows)
  BY ReorgAssumption, FS_Subset
<1>2. ASSUME NEW t \in rows PROVE Cardinality(before(t)) \in Nat
  <2>1. before(t) \subseteq rows
    OBVIOUS
  <2> HIDE DEF before, rows
  <2> QED BY <1>1, <2>1, FS_Subset, FS_CardinalityType
<1>3. AnchoredRows = {[transfer |-> t, anchor |-> attempt[t].anchor, place |-> Cardinality(before(t))] : t \in first}
  BY DEF AnchoredRows
<1>4. \A t \in first : t \in rows
  OBVIOUS
<1>5. \A t \in rows : t \in Transfers /\ attempt[t].anchor \in BlockRef /\ Seen(t, attempt[t].anchor)
  BY DEF RescanInv, RescanTyped, AnchorsTrue
<1> HIDE DEF first, before, rows
<1>6. ASSUME NEW i \in AnchoredRows
      PROVE  i \in Row /\ Seen(i.transfer, i.anchor) /\ i.anchor = attempt[i.transfer].anchor
  <2>1. PICK t \in first : i = [transfer |-> t, anchor |-> attempt[t].anchor, place |-> Cardinality(before(t))]
    BY <1>3
  <2> QED BY <1>2, <1>4, <1>5, <2>1 DEF Row
<1> QED BY <1>6

\* The chain still has the block of a transfer that was not orphaned.
LEMMA DetectedIsOrphaned ==
  ASSUME RescanInv, NEW i \in Row, Seen(i.transfer, i.anchor), Outcome(i.anchor) = "reorg_detected"
  PROVE  i.transfer \in orphaned
BY DEF Seen, Outcome, HashAt

LEMMA JobInHand ==
  ASSUME RescanInv, NEW j \in Jobs
  PROVE  /\ job \in [Jobs -> JobState] /\ job[j] \in JobState /\ HandsTrue(job[j])
         /\ job[j].item # {} => ItemOf(j) \in job[j].item
BY DEF RescanInv, RescanTyped, AnchorsTrue, ItemOf

\* Steps of a job that keep to the chain and the table.
LEMMA ReadingStep ==
  ASSUME RescanInv, NEW j \in Jobs,
         \/ RescanStart(j) \/ ScanBlock(j) \/ ScanUnavailable(j) \/ RewindPayment(j)
         \/ RescanMissing(j) \/ NextMissing(j) \/ AttachRead(j) \/ AttachThrows(j)
  PROVE  RescanInv'
<1>0. job \in [Jobs -> JobState] /\ job[j] \in JobState /\ HandsTrue(job[j])
  BY JobInHand
<1> DEFINE mine == job[j]
           Over == job' = [job EXCEPT ![j] = IdleJob]
           Becomes(s) == job' = [job EXCEPT ![j] = s]
<1>1. UNCHANGED <<block, fork, mined, orphaned, attempt>>
  BY DEF RescanStart, ScanBlock, ScanUnavailable, RewindPayment, RescanMissing, NextMissing,
         AttachRead, AttachThrows, chainVars
<1>2. ASSUME NEW s \in JobState, HandsTrue(s), Becomes(s) PROVE RescanInv'
  BY <1>1, <1>2, JobMoves
<1>3. CASE Over
  BY <1>2, <1>3, IdleJobTyped
<1>4. CASE RescanStart(j)
  <2> DEFINE s == [IdleJob EXCEPT !.pc = "scan", !.todo = AnchoredRows]
  <2>1. s \in JobState /\ s.pc = "scan" /\ s.todo = AnchoredRows /\ s.item = {}
    BY RowsSeen DEF IdleJob, JobState, JobStep
  <2>2. HandsTrue(s)
    BY <2>1, RowsSeen DEF HandsTrue
  <2>3. Becomes(s)
    BY <1>4 DEF RescanStart
  <2> QED BY <1>2, <2>1, <2>2, <2>3
<1>5. ASSUME NEW row \in mine.todo, Becomes([mine EXCEPT !.todo = @ \ {row}]), mine.pc = "scan"
      PROVE  RescanInv'
  <2> DEFINE s == [mine EXCEPT !.todo = @ \ {row}]
  <2>1. s \in JobState /\ s.pc = "scan" /\ s.todo \subseteq mine.todo
    BY <1>0, <1>5 DEF JobState
  <2>2. HandsTrue(s)
    BY <1>0, <2>1 DEF HandsTrue
  <2> QED BY <1>2, <1>5, <2>1, <2>2
<1>6. CASE ScanBlock(j)
  <2>1. PICK row \in mine.todo :
          IF Outcome(row.anchor) = "reorg_detected"
          THEN job' = [job EXCEPT ![j].todo = @ \ {row}, ![j].item = {row}, ![j].pc = "mark"]
          ELSE job' = [job EXCEPT ![j].todo = @ \ {row}]
    BY <1>6 DEF ScanBlock
  <2>2. mine.pc = "scan" /\ row \in Row /\ Seen(row.transfer, row.anchor)
    BY <1>0, <1>6 DEF ScanBlock, JobState, HandsTrue
  <2>3. CASE Outcome(row.anchor) = "reorg_detected"
    <3> DEFINE s == [mine EXCEPT !.todo = @ \ {row}, !.item = {row}, !.pc = "mark"]
    <3>1. s \in JobState /\ s.pc = "mark" /\ s.item = {row} /\ s.todo \subseteq mine.todo
      BY <1>0, <2>2 DEF JobState, JobStep
    <3>2. HandsTrue(s)
      BY <1>0, <2>2, <2>3, <3>1, DetectedIsOrphaned DEF HandsTrue
    <3>3. Becomes(s)
      BY <1>0, <2>1, <2>3
    <3> QED BY <1>2, <3>1, <3>2, <3>3
  <2>4. CASE Outcome(row.anchor) # "reorg_detected"
    <3>1. Becomes([mine EXCEPT !.todo = @ \ {row}])
      BY <1>0, <2>1, <2>4
    <3> QED BY <1>5, <2>2, <3>1
  <2> QED BY <2>3, <2>4
<1>7. CASE ScanUnavailable(j)
  <2>1. PICK row \in mine.todo : job' = [job EXCEPT ![j].todo = @ \ {row}]
    BY <1>7 DEF ScanUnavailable
  <2>2. Becomes([mine EXCEPT !.todo = @ \ {row}]) /\ mine.pc = "scan"
    BY <1>0, <1>7, <2>1 DEF ScanUnavailable
  <2> QED BY <1>5, <2>2
<1>8. CASE RewindPayment(j)
  BY <1>3, <1>8 DEF RewindPayment, End
<1>9. CASE RescanMissing(j)
  <2> DEFINE without == {t \in Transfers : ~Anchored(t) /\ InScope(t)}
             s == [IdleJob EXCEPT !.pc = "missing", !.missing = without]
  <2>1. s \in JobState /\ s.pc = "missing" /\ s.todo = {} /\ s.item = {}
    BY DEF IdleJob, JobState, JobStep
  <2>2. HandsTrue(s)
    BY <2>1 DEF HandsTrue
  <2>3. Becomes(s)
    BY <1>9 DEF RescanMissing
  <2> QED BY <1>2, <2>1, <2>2, <2>3
<1>10. CASE NextMissing(j)
  <2>1. CASE End(j)
    BY <1>3, <2>1 DEF End
  <2>2. CASE ~End(j)
    <3>1. PICK t \in mine.missing :
            job' = [job EXCEPT ![j].pc = "read", ![j].missing = @ \ {t},
                               ![j].item = {[transfer |-> t, anchor |-> NoAnchor, place |-> 0]}]
      BY <1>10, <2>2 DEF NextMissing
    <3> DEFINE row == [transfer |-> t, anchor |-> NoAnchor, place |-> 0]
               s == [mine EXCEPT !.pc = "read", !.missing = @ \ {t}, !.item = {row}]
    <3>2. row \in Row
      BY <1>0 DEF JobState, Row, NoAnchor, BlockRef
    <3> HIDE DEF row
    <3>3. s \in JobState /\ s.pc = "read" /\ s.item = {row} /\ s.todo = mine.todo
      BY <1>0, <3>2 DEF JobState, JobStep
    <3>4. HandsTrue(s)
      BY <1>0, <3>3 DEF HandsTrue
    <3>5. Becomes(s)
      BY <1>0, <3>1 DEF row
    <3> QED BY <1>2, <3>3, <3>4, <3>5
  <2> QED BY <2>1, <2>2
<1>11. CASE AttachRead(j)
  <2> DEFINE filled(i) == [i EXCEPT !.anchor = ReceiptAnchor(i.transfer)]
             items == {filled(i) : i \in mine.item}
             s == [mine EXCEPT !.pc = "write", !.item = items]
  <2>1. mine.pc = "read" /\ Becomes(s) /\ mine.item # {} /\ HasReceipt(ItemOf(j).transfer)
    BY <1>0, <1>11 DEF AttachRead, HandsTrue
  <2>2. PICK i \in mine.item : mine.item = {i} /\ ItemOf(j) = i
    BY <1>0, <2>1 DEF HandsTrue, ItemOf
  <2>3. i \in Row /\ mined[i.transfer] # 0
    BY <1>0, <2>1, <2>2 DEF JobState, HasReceipt
  <2>4. ReceiptAnchor(i.transfer) \in BlockRef /\ Seen(i.transfer, ReceiptAnchor(i.transfer))
    <3>1. i.transfer \in Transfers /\ mined[i.transfer] \in DOMAIN block
          /\ mined[i.transfer] \in Nat /\ block[mined[i.transfer]] \in Nat
      BY <2>3 DEF Row, RescanInv, RescanTyped
    <3> QED BY <3>1 DEF ReceiptAnchor, HashAt, BlockRef, Seen
  <2>5. filled(i) \in Row /\ filled(i).transfer = i.transfer /\ filled(i).anchor = ReceiptAnchor(i.transfer)
    BY <2>3, <2>4 DEF Row
  <2>6. items = {filled(i)}
    BY <2>2
  <2> HIDE DEF items, filled
  <2>7. s \in JobState /\ s.pc = "write" /\ s.item = {filled(i)} /\ s.todo = mine.todo
    BY <1>0, <2>5, <2>6 DEF JobState, JobStep
  <2>8. HandsTrue(s)
    BY <1>0, <2>4, <2>5, <2>7 DEF HandsTrue
  <2> QED BY <1>2, <2>1, <2>7, <2>8
<1>12. CASE AttachThrows(j)
  <2>1. CASE End(j)
    BY <1>3, <2>1 DEF End
  <2>2. CASE ~End(j)
    <3>1. job' = [job EXCEPT ![j].pc = "confirm"]
      BY <1>12, <2>2 DEF AttachThrows, Go
    <3> DEFINE s == [mine EXCEPT !.pc = "confirm"]
    <3>2. s \in JobState /\ HandsTrue(s)
      BY <1>0 DEF JobState, JobStep, HandsTrue
    <3>3. Becomes(s)
      BY <1>0, <3>1
    <3> QED BY <1>2, <3>2, <3>3
  <2> QED BY <2>1, <2>2
<1> QED BY <1>4, <1>6, <1>7, <1>8, <1>9, <1>10, <1>11, <1>12

\* The rescan marks the attempt of a transfer that lost its block.
LEMMA MarkKeeps ==
  ASSUME RescanInv, NEW j \in Jobs, MarkAttempt(j)
  PROVE  RescanInv'
<1>0. job \in [Jobs -> JobState] /\ job[j] \in JobState /\ HandsTrue(job[j]) /\ job[j].pc = "mark"
      /\ ItemOf(j) \in job[j].item
  BY JobInHand DEF MarkAttempt, HandsTrue
<1>t. PICK t \in Transfers : t = ItemOf(j).transfer /\ t \in orphaned
  BY <1>0 DEF HandsTrue, JobState, Row
<1> DEFINE s == [job[j] EXCEPT !.pc = "rewind"]
<1>1. /\ attempt' = [attempt EXCEPT ![t].status = "UNKNOWN"] /\ UNCHANGED <<block, fork, mined, orphaned>>
      /\ job' = [job EXCEPT ![j] = s]
  BY <1>0, <1>t DEF MarkAttempt, chainVars, Go
<1>2. s \in JobState /\ HandsTrue(s)
  BY <1>0 DEF JobState, JobStep, HandsTrue
<1> HIDE DEF s
<1>3. /\ attempt' \in [Transfers -> [status: {"SUBMITTED", "UNKNOWN"}, anchor: BlockRef]]
      /\ \A u \in Transfers : attempt'[u].anchor = attempt[u].anchor
      /\ \A u \in Transfers : attempt'[u].status = "UNKNOWN" => attempt[u].status = "UNKNOWN" \/ u = t
  BY <1>1 DEF RescanInv, RescanTyped
<1>4. job' \in [Jobs -> JobState] /\ job'[j] = s /\ \A i \in Jobs \ {j} : job'[i] = job[i]
  BY <1>0, <1>1, <1>2
<1>5. \A i \in Jobs : HandsTrue(job'[i])
  BY <1>2, <1>4 DEF RescanInv, AnchorsTrue
<1>6. \A i \in Jobs : HandsTrue(job[i])'
  BY <1>1, <1>5 DEF HandsTrue, Seen
<1>7. RescanTyped'
  BY <1>1, <1>3, <1>4 DEF RescanInv, RescanTyped
<1>8. \A u \in Transfers : Anchored(u)' => Seen(u, attempt[u].anchor)'
  BY <1>1, <1>3 DEF RescanInv, AnchorsTrue, Anchored, Seen
<1>9. MarkedOnlyIfOrphaned'
  BY <1>1, <1>3, <1>t DEF RescanInv, MarkedOnlyIfOrphaned
<1> QED BY <1>6, <1>7, <1>8, <1>9 DEF RescanInv, AnchorsTrue

\* An anchor is written as it was seen.
LEMMA WriteKeeps ==
  ASSUME RescanInv, NEW j \in Jobs, AttachWrite(j)
  PROVE  RescanInv'
<1>0. job \in [Jobs -> JobState] /\ job[j] \in JobState /\ HandsTrue(job[j]) /\ job[j].pc = "write"
      /\ ItemOf(j) \in job[j].item
  BY JobInHand DEF AttachWrite, HandsTrue
<1>i. PICK i \in Row : i = ItemOf(j) /\ Seen(i.transfer, i.anchor)
  BY <1>0 DEF HandsTrue, JobState
<1>t. PICK t \in Transfers, a \in BlockRef : t = i.transfer /\ a = i.anchor /\ Seen(t, a)
  BY <1>i DEF Row
<1>1. /\ attempt' = [attempt EXCEPT ![t].anchor = a] /\ UNCHANGED <<block, fork, mined, orphaned>>
      /\ \E pc \in {"confirm", "missing"} : job' = [job EXCEPT ![j].pc = pc]
  BY <1>0, <1>i, <1>t DEF AttachWrite, chainVars, Go, AfterAttach
<1>p. PICK pc \in {"confirm", "missing"} : job' = [job EXCEPT ![j].pc = pc]
  BY <1>1
<1> DEFINE s == [job[j] EXCEPT !.pc = pc]
<1>2. s \in JobState /\ HandsTrue(s) /\ job' = [job EXCEPT ![j] = s]
  BY <1>0, <1>p DEF JobState, JobStep, HandsTrue
<1> HIDE DEF s
<1>3. /\ attempt' \in [Transfers -> [status: {"SUBMITTED", "UNKNOWN"}, anchor: BlockRef]]
      /\ attempt'[t].anchor = a
      /\ \A u \in Transfers \ {t} : attempt'[u] = attempt[u]
      /\ \A u \in Transfers : attempt'[u].status = attempt[u].status
  BY <1>1 DEF RescanInv, RescanTyped
<1>4. job' \in [Jobs -> JobState] /\ job'[j] = s /\ \A k \in Jobs \ {j} : job'[k] = job[k]
  BY <1>0, <1>2
<1>5. \A k \in Jobs : HandsTrue(job'[k])
  BY <1>2, <1>4 DEF RescanInv, AnchorsTrue
<1>6. \A k \in Jobs : HandsTrue(job[k])'
  BY <1>1, <1>5 DEF HandsTrue, Seen
<1>7. RescanTyped'
  BY <1>1, <1>3, <1>4 DEF RescanInv, RescanTyped
<1>8. \A u \in Transfers : Anchored(u)' => Seen(u, attempt[u].anchor)'
  <2> SUFFICES ASSUME NEW u \in Transfers, Anchored(u)' PROVE Seen(u, attempt'[u].anchor)
    BY <1>1 DEF Seen
  <2>1. CASE u = t
    BY <1>3, <1>t, <2>1
  <2>2. CASE u # t
    BY <1>3, <2>2 DEF RescanInv, AnchorsTrue, Anchored
  <2> QED BY <2>1, <2>2
<1>9. MarkedOnlyIfOrphaned'
  BY <1>1, <1>3 DEF RescanInv, MarkedOnlyIfOrphaned
<1> QED BY <1>6, <1>7, <1>8, <1>9 DEF RescanInv, AnchorsTrue

LEMMA RescanKeeps == RescanInv /\ [ReorgNext]_reorgVars => RescanInv'
<1> SUFFICES ASSUME RescanInv, [ReorgNext]_reorgVars PROVE RescanInv'
  OBVIOUS
<1>0. Rescans \subseteq Jobs /\ Sweep \in Jobs /\ job \in [Jobs -> JobState]
  BY DEF Jobs, RescanInv, RescanTyped
<1>1. ASSUME NEW j \in Jobs, RescanStep(j) PROVE RescanInv'
  BY <1>1, ReadingStep, MarkKeeps, WriteKeeps DEF RescanStep
<1>2. ASSUME NEW j \in Jobs, ScanUnavailable(j) \/ AttachRead(j) \/ AttachThrows(j) PROVE RescanInv'
  BY <1>2, ReadingStep
<1>3. ASSUME NEW j \in Jobs, End(j), UNCHANGED <<block, fork, mined, orphaned, attempt>> PROVE RescanInv'
  BY <1>3, JobMoves, IdleJobTyped DEF End
<1>4. CASE SweepConfirm
  BY <1>0, <1>3, <1>4 DEF SweepConfirm, chainVars
<1>5. ASSUME NEW t \in Transfers, SweepVerify(t) PROVE RescanInv'
  <2> DEFINE row == [transfer |-> t, anchor |-> NoAnchor, place |-> 0]
             s == [IdleJob EXCEPT !.pc = "read", !.item = {row}]
  <2>1. row \in Row
    BY DEF Row, NoAnchor, BlockRef
  <2>2. UNCHANGED <<block, fork, mined, orphaned, attempt>> /\ job' = [job EXCEPT ![Sweep] = s]
    BY <1>5 DEF SweepVerify, chainVars
  <2> HIDE DEF row
  <2>3. s \in JobState /\ s.pc = "read" /\ s.todo = {} /\ s.item = {row}
    BY <2>1 DEF IdleJob, JobState, JobStep
  <2>4. HandsTrue(s)
    BY <2>3 DEF HandsTrue
  <2> QED BY <1>0, <2>2, <2>3, <2>4, JobMoves
<1>6. ASSUME UNCHANGED <<block, fork, mined, orphaned, attempt, job>> PROVE RescanInv'
  <2>1. RescanTyped' /\ \A t \in Transfers, a \in BlockRef : Seen(t, a) => Seen(t, a)'
    BY <1>6 DEF RescanInv, RescanTyped, Seen
  <2> QED BY <1>6, <2>1, ChainMoves
<1>7. ASSUME NEW t \in Transfers, HandlerConfirm(t) PROVE RescanInv'
  BY <1>6, <1>7 DEF HandlerConfirm, chainVars
<1>8. ASSUME NEW j \in Jobs, CrashJob(j) PROVE RescanInv'
  BY <1>3, <1>8 DEF CrashJob, chainVars
<1>9. CASE UNCHANGED reorgVars
  BY <1>6, <1>9 DEF reorgVars
<1>10. ASSUME NEW S \in SUBSET Transfers, Extend(S) PROVE RescanInv'
  BY <1>10, ExtendKeeps
<1>11. ASSUME NEW h \in DOMAIN block, NEW S \in SUBSET Transfers, Reorganize(h, S) PROVE RescanInv'
  BY <1>11, ReorganizeMoves
<1>12. CASE AttachWrite(Sweep)
  BY <1>0, <1>12, WriteKeeps
<1> QED
  BY <1>0, <1>1, <1>2, <1>4, <1>5, <1>7, <1>8, <1>9, <1>10, <1>11, <1>12 DEF ReorgNext

\* The rescan marks an attempt (reorgRescan.ts:52) only if a reorganization
\* did take its transfer's block, however chain, rescans and sweep interleave.
THEOREM OnlyOrphansAreMarked == ReorgSpec => []MarkedOnlyIfOrphaned
<1>1. RescanInv => MarkedOnlyIfOrphaned
  BY DEF RescanInv
<1> QED BY <1>1, RescanStarts, RescanKeeps, PTL DEF ReorgSpec

------------------------------------------------------------------------------
(***************************************************************************)
(* The purchases, for any number of business keys, calls and settlers,     *)
(* whatever dies between two statements.                                   *)
(***************************************************************************)

WorkerState == [pc: Position, key: Keys, version: Nat]

WorkersTyped ==
    /\ quotes \in [Keys -> Seq(QuoteStatus)]
    /\ worker \in [Workers -> WorkerState]

NoneActive(qs) == \A v \in DOMAIN qs : qs[v] # "ACTIVE"
OneActive(qs) == \A u, v \in DOMAIN qs : qs[u] = "ACTIVE" /\ qs[v] = "ACTIVE" => u = v

\* A call that computed its version never sees a shorter list again; when its
\* version is still the next one, nobody inserted since it superseded.
VersionsInOrder ==
    \A w \in Workers :
        LET qs == quotes[worker[w].key]
        IN  /\ worker[w].pc \in {"supersede", "insert"} => worker[w].version <= Len(qs) + 1
            /\ worker[w].pc = "insert" /\ worker[w].version = Len(qs) + 1 => NoneActive(qs)

QuotesInv == WorkersTyped /\ VersionsInOrder /\ \A k \in Keys : OneActive(quotes[k])

LEMMA QuotesStart == PurchaseInit => QuotesInv
<1> SUFFICES ASSUME PurchaseInit PROVE QuotesInv
  OBVIOUS
<1>1. (CHOOSE k \in Keys : TRUE) \in Keys
  BY PurchasesAssumption
<1>2. WorkersTyped
  BY <1>1 DEF PurchaseInit, WorkersTyped, WorkerState, Position
<1>3. VersionsInOrder
  BY DEF PurchaseInit, VersionsInOrder
<1>4. \A k \in Keys : OneActive(quotes[k])
  BY DEF PurchaseInit, OneActive
<1> QED BY <1>2, <1>3, <1>4 DEF QuotesInv

\* A step of a call or a settler away from its quote.
LEMMA AwayFromQuote ==
  ASSUME QuotesInv, quotes' = quotes, NEW w \in Workers, NEW s \in WorkerState,
         s.pc \notin {"supersede", "insert"}, worker' = [worker EXCEPT ![w] = s]
  PROVE  QuotesInv'
<1>1. worker' \in [Workers -> WorkerState] /\ worker'[w] = s
      /\ \A v \in Workers \ {w} : worker'[v] = worker[v]
  BY DEF QuotesInv, WorkersTyped
<1>2. VersionsInOrder'
  BY <1>1 DEF QuotesInv, VersionsInOrder, NoneActive
<1> QED BY <1>1, <1>2 DEF QuotesInv, WorkersTyped, OneActive

LEMMA AwayTo ==
  ASSUME QuotesInv, quotes' = quotes, NEW w \in Workers,
         NEW pc \in Position \ {"supersede", "insert"}, To(w, pc)
  PROVE  QuotesInv'
<1> DEFINE s == [worker[w] EXCEPT !.pc = pc]
<1>1. worker[w] \in WorkerState /\ worker \in [Workers -> WorkerState]
  BY DEF QuotesInv, WorkersTyped
<1>2. s \in WorkerState /\ s.pc = pc
  BY <1>1 DEF WorkerState
<1>3. worker' = [worker EXCEPT ![w] = s]
  BY <1>1 DEF To
<1> HIDE DEF s
<1> QED BY <1>2, <1>3, AwayFromQuote

LEMMA NextVersionKeeps ==
  ASSUME QuotesInv, NEW c \in Callers, NextVersion(c)
  PROVE  QuotesInv'
<1>1. /\ worker \in [Workers -> WorkerState] /\ c \in Workers /\ worker[c] \in WorkerState
      /\ quotes \in [Keys -> Seq(QuoteStatus)]
  BY DEF QuotesInv, WorkersTyped, Workers
<1> DEFINE n == Len(quotes[worker[c].key]) + 1
           s == [worker[c] EXCEPT !.pc = "supersede", !.version = n]
<1>2. n \in Nat /\ quotes' = quotes
  BY <1>1 DEF WorkerState, NextVersion
<1>3. s \in WorkerState /\ s.pc = "supersede" /\ s.version = n /\ s.key = worker[c].key
  BY <1>1, <1>2 DEF WorkerState, Position
<1>4. worker' = [worker EXCEPT ![c] = s]
  BY <1>1 DEF NextVersion, KeyOf
<1> HIDE DEF s
<1>5. worker' \in [Workers -> WorkerState] /\ worker'[c] = s
      /\ \A v \in Workers \ {c} : worker'[v] = worker[v]
  BY <1>1, <1>3, <1>4
<1>6. ASSUME NEW w \in Workers
      PROVE  /\ worker'[w].pc \in {"supersede", "insert"} =>
                  worker'[w].version <= Len(quotes[worker'[w].key]) + 1
             /\ worker'[w].pc = "insert" /\ worker'[w].version = Len(quotes[worker'[w].key]) + 1 =>
                  NoneActive(quotes[worker'[w].key])
  <2>1. CASE w = c
    BY <1>2, <1>3, <1>5, <2>1
  <2>2. CASE w # c
    BY <1>5, <2>2 DEF QuotesInv, VersionsInOrder
  <2> QED BY <2>1, <2>2
<1> QED BY <1>2, <1>5, <1>6 DEF QuotesInv, WorkersTyped, VersionsInOrder, NoneActive, OneActive

LEMMA SupersedeKeeps ==
  ASSUME QuotesInv, NEW c \in Callers, Supersede(c)
  PROVE  QuotesInv'
<1>1. /\ worker \in [Workers -> WorkerState] /\ c \in Workers /\ worker[c] \in WorkerState
      /\ quotes \in [Keys -> Seq(QuoteStatus)] /\ VersionsInOrder /\ worker[c].pc = "supersede"
  BY DEF QuotesInv, WorkersTyped, Workers, Supersede, At
<1>k. PICK k \in Keys : k = worker[c].key
  BY <1>1 DEF WorkerState
<1> DEFINE s == [worker[c] EXCEPT !.pc = "insert"]
<1>2. quotes' = [quotes EXCEPT ![k] = Superseded(quotes[k])]
  BY <1>1, <1>k DEF Supersede, KeyOf
<1>3. /\ Superseded(quotes[k]) \in Seq(QuoteStatus) /\ Len(Superseded(quotes[k])) = Len(quotes[k])
      /\ NoneActive(Superseded(quotes[k]))
  BY <1>1 DEF Superseded, QuoteStatus, NoneActive
<1>4. quotes' \in [Keys -> Seq(QuoteStatus)] /\ quotes'[k] = Superseded(quotes[k])
      /\ \A l \in Keys \ {k} : quotes'[l] = quotes[l]
  BY <1>1, <1>2, <1>3
<1>5. s \in WorkerState /\ s.pc = "insert" /\ s.version = worker[c].version /\ s.key = k
  BY <1>1, <1>k DEF WorkerState, Position
<1>6. worker' = [worker EXCEPT ![c] = s]
  BY <1>1 DEF Supersede, To
<1> HIDE DEF s
<1>7. worker' \in [Workers -> WorkerState] /\ worker'[c] = s
      /\ \A v \in Workers \ {c} : worker'[v] = worker[v]
  BY <1>1, <1>5, <1>6
<1>8. ASSUME NEW w \in Workers
      PROVE  /\ worker'[w].pc \in {"supersede", "insert"} =>
                  worker'[w].version <= Len(quotes'[worker'[w].key]) + 1
             /\ worker'[w].pc = "insert" /\ worker'[w].version = Len(quotes'[worker'[w].key]) + 1 =>
                  NoneActive(quotes'[worker'[w].key])
  <2>1. worker'[w].key = worker[w].key /\ worker'[w].version = worker[w].version
        /\ worker[w].key \in Keys
    BY <1>1, <1>k, <1>5, <1>7 DEF WorkerState
  <2>2. Len(quotes'[worker[w].key]) = Len(quotes[worker[w].key])
    BY <1>3, <1>4, <2>1
  <2>3. CASE worker[w].key = k
    <3>1. NoneActive(quotes'[worker'[w].key])
      BY <1>3, <1>4, <2>1, <2>3
    <3>2. worker'[w].pc \in {"supersede", "insert"} => worker[w].pc \in {"supersede", "insert"}
      BY <1>1, <1>7
    <3> QED BY <1>1, <2>1, <2>2, <3>1, <3>2 DEF VersionsInOrder
  <2>4. CASE worker[w].key # k
    <3>1. worker'[w] = worker[w] /\ quotes'[worker[w].key] = quotes[worker[w].key]
      BY <1>k, <1>4, <1>7, <2>1, <2>4
    <3> QED BY <1>1, <3>1 DEF VersionsInOrder
  <2> QED BY <2>3, <2>4
<1>9. ASSUME NEW l \in Keys PROVE OneActive(quotes'[l])
  BY <1>3, <1>4 DEF QuotesInv, OneActive, NoneActive
<1> QED BY <1>4, <1>7, <1>8, <1>9 DEF QuotesInv, WorkersTyped, VersionsInOrder, NoneActive, OneActive

LEMMA InsertQuoteKeeps ==
  ASSUME QuotesInv, NEW c \in Callers, InsertQuote(c), VersionFree(c)
  PROVE  QuotesInv'
<1>1. /\ worker \in [Workers -> WorkerState] /\ c \in Workers /\ worker[c] \in WorkerState
      /\ quotes \in [Keys -> Seq(QuoteStatus)] /\ VersionsInOrder /\ worker[c].pc = "insert"
  BY DEF QuotesInv, WorkersTyped, Workers, InsertQuote, At
<1>k. PICK k \in Keys : k = worker[c].key
  BY <1>1 DEF WorkerState
<1> DEFINE qs == Append(quotes[k], "ACTIVE")
           s == [worker[c] EXCEPT !.pc = "quoted"]
<1>2. quotes' = [quotes EXCEPT ![k] = qs] /\ worker[c].version = Len(quotes[k]) + 1
  BY <1>1, <1>k DEF InsertQuote, VersionFree, KeyOf
<1>3. NoneActive(quotes[k]) /\ quotes[k] \in Seq(QuoteStatus)
  BY <1>1, <1>2, <1>k DEF VersionsInOrder
<1>4. qs \in Seq(QuoteStatus) /\ Len(qs) = Len(quotes[k]) + 1 /\ OneActive(qs)
  BY <1>3 DEF QuoteStatus, OneActive, NoneActive
<1>5. quotes' \in [Keys -> Seq(QuoteStatus)] /\ quotes'[k] = qs
      /\ \A l \in Keys \ {k} : quotes'[l] = quotes[l]
  BY <1>1, <1>2, <1>4
<1>6. s \in WorkerState /\ s.pc = "quoted"
  BY <1>1 DEF WorkerState, Position
<1>7. worker' = [worker EXCEPT ![c] = s]
  BY <1>1 DEF InsertQuote, To
<1> HIDE DEF s, qs
<1>8. worker' \in [Workers -> WorkerState] /\ worker'[c] = s
      /\ \A v \in Workers \ {c} : worker'[v] = worker[v]
  BY <1>1, <1>6, <1>7
<1>9. ASSUME NEW w \in Workers
      PROVE  /\ worker'[w].pc \in {"supersede", "insert"} =>
                  worker'[w].version <= Len(quotes'[worker'[w].key]) + 1
             /\ worker'[w].pc = "insert" /\ worker'[w].version = Len(quotes'[worker'[w].key]) + 1 =>
                  NoneActive(quotes'[worker'[w].key])
  <2>1. CASE w = c
    BY <1>6, <1>8, <2>1
  <2>2. CASE w # c
    <3>1. worker'[w] = worker[w] /\ worker[w].key \in Keys /\ worker[w].version \in Nat
      BY <1>1, <1>8, <2>2 DEF WorkerState
    <3>2. Len(quotes[worker[w].key]) \in Nat
      BY <1>1, <3>1
    <3>3. CASE worker[w].key = k
      BY <1>1, <1>4, <1>5, <3>1, <3>2, <3>3 DEF VersionsInOrder
    <3>4. CASE worker[w].key # k
      BY <1>1, <1>5, <3>1, <3>4 DEF VersionsInOrder
    <3> QED BY <3>3, <3>4
  <2> QED BY <2>1, <2>2
<1>10. ASSUME NEW l \in Keys PROVE OneActive(quotes'[l])
  BY <1>4, <1>5 DEF QuotesInv
<1> QED BY <1>5, <1>8, <1>9, <1>10 DEF QuotesInv, WorkersTyped, VersionsInOrder, NoneActive, OneActive

LEMMA QuotesStep == QuotesInv /\ [PurchaseNext]_purchaseVars => QuotesInv'
<1> SUFFICES ASSUME QuotesInv, [PurchaseNext]_purchaseVars PROVE QuotesInv'
  OBVIOUS
<1> USE DEF Position
<1>0. Callers \subseteq Workers /\ Settlers \subseteq Workers
  BY DEF Workers
<1>1. ASSUME UNCHANGED <<quotes, worker>> PROVE QuotesInv'
  BY <1>1 DEF QuotesInv, WorkersTyped, VersionsInOrder, NoneActive, OneActive
<1>2. ASSUME quotes' = quotes, NEW w \in Workers, NEW pc \in {"find", "done", "paid"}, NEW k \in Keys,
             worker' = [worker EXCEPT ![w] = [pc |-> pc, key |-> k, version |-> 0]]
      PROVE  QuotesInv'
  <2> DEFINE s == [pc |-> pc, key |-> k, version |-> 0]
  <2>1. s \in WorkerState /\ s.pc \notin {"supersede", "insert"}
    BY DEF WorkerState
  <2> HIDE DEF s
  <2>2. worker' = [worker EXCEPT ![w] = s]
    BY <1>2 DEF s
  <2> QED BY <1>2, <2>1, <2>2, AwayFromQuote
<1>3. ASSUME NEW c \in Callers, NEW k \in Keys, Begin(c, k) PROVE QuotesInv'
  <2>1. quotes' = quotes
    BY <1>3 DEF Begin
  <2>2. PICK pc \in {"find", "done"} : worker' = [worker EXCEPT ![c] = [pc |-> pc, key |-> k, version |-> 0]]
    BY <1>3 DEF Begin
  <2> QED BY <1>0, <1>2, <2>1, <2>2
<1>4. ASSUME NEW s \in Settlers, NEW k \in Keys, BeginFulfilment(s, k) PROVE QuotesInv'
  BY <1>0, <1>2, <1>4 DEF BeginFulfilment
<1>5. ASSUME NEW c \in Callers, CallerStep(c) PROVE QuotesInv'
  <2>1. CASE NextVersion(c)
    BY <2>1, NextVersionKeeps
  <2>2. CASE Supersede(c)
    BY <2>2, SupersedeKeeps
  <2>3. CASE InsertQuote(c) /\ VersionFree(c)
    BY <2>3, InsertQuoteKeeps
  <2>4. CASE InsertQuote(c) /\ ~VersionFree(c)
    BY <1>0, <2>4, AwayTo DEF InsertQuote
  <2>5. CASE FindPurchase(c) \/ InsertPurchase(c) \/ EnqueueCreated(c) \/ MarkQuoted(c) \/ Prepare(c)
    <3>1. quotes' = quotes
      BY <2>5 DEF FindPurchase, InsertPurchase, EnqueueCreated, MarkQuoted, Prepare
    <3>2. PICK pc \in {"create", "version", "created", "done", "prepare"} : To(c, pc)
      BY <2>5 DEF FindPurchase, InsertPurchase, EnqueueCreated, MarkQuoted, Prepare
    <3> QED BY <1>0, <3>1, <3>2, AwayTo
  <2> QED BY <1>5, <2>1, <2>2, <2>3, <2>4, <2>5 DEF CallerStep
<1>6. ASSUME NEW s \in Settlers, SettlerStep(s) PROVE QuotesInv'
  <2>1. quotes' = quotes
    BY <1>6 DEF SettlerStep, MarkPaid, FindFulfilment, InsertFulfilment, MarkFulfilled, EnqueueFulfilled
  <2>2. PICK pc \in {"lookup", "done", "record", "fulfilled", "event"} : To(s, pc)
    BY <1>6 DEF SettlerStep, MarkPaid, FindFulfilment, InsertFulfilment, MarkFulfilled, EnqueueFulfilled
  <2> QED BY <1>0, <2>1, <2>2, AwayTo
<1>7. ASSUME NEW w \in Workers, StopWorker(w) PROVE QuotesInv'
  BY <1>7, AwayTo DEF StopWorker
<1>8. ASSUME NEW k \in Keys, Settle(k) PROVE QuotesInv'
  BY <1>1, <1>8 DEF Settle
<1>9. CASE PollOutbox \/ UNCHANGED purchaseVars
  BY <1>1, <1>9 DEF PollOutbox, purchaseVars
<1> QED BY <1>3, <1>4, <1>5, <1>6, <1>7, <1>8, <1>9 DEF PurchaseNext

\* A purchase has at most one active quote, although superseding and inserting
\* are two statements (purchaseService.ts:73 and :78): the unique version
\* refuses every call that was overtaken.
THEOREM OneQuoteIsActive == PurchaseSpec => []AtMostOneActiveQuote
<1>1. ASSUME QuotesInv, NEW k \in Keys PROVE Cardinality(ActiveQuotes(k)) <= 1
  <2>1. \A u, v \in ActiveQuotes(k) : u = v
    BY <1>1 DEF QuotesInv, OneActive, ActiveQuotes
  <2> HIDE DEF ActiveQuotes
  <2>2. CASE ActiveQuotes(k) = {}
    BY <2>2, FS_EmptySet
  <2>3. CASE ActiveQuotes(k) # {}
    <3>1. PICK v : ActiveQuotes(k) = {v}
      BY <2>1, <2>3
    <3> QED BY <3>1, FS_Singleton
  <2> QED BY <2>2, <2>3
<1>2. QuotesInv => AtMostOneActiveQuote
  BY <1>1 DEF AtMostOneActiveQuote
<1> QED BY <1>2, QuotesStart, QuotesStep, PTL DEF PurchaseSpec

Finishing == {"fulfilled", "event"}
Completes(e, k) == e.type = "fulfilment.completed" /\ e.key = k
Announced(k) == \E n \in DOMAIN outbox : Completes(outbox[n], k)

\* A settler between the row of a fulfilment and its event is the only one for
\* this purchase, and the event is not there yet.
FulfilInv ==
    /\ outbox \in Seq(OutboxEvent)
    /\ intents \in [Keys -> {"none", "prepared", "confirmed"}]
    /\ \A s \in Settlers : worker[s].pc \notin {"idle", "done"} => intents[worker[s].key] = "confirmed"
    /\ \A s \in Settlers : worker[s].pc \in Finishing =>
         /\ worker[s].key \in fulfilments /\ ~Announced(worker[s].key)
         /\ \A r \in Settlers \ {s} : worker[r].pc \in Finishing => worker[r].key # worker[s].key
    /\ \A k \in Keys : Announced(k) => k \in fulfilments /\ intents[k] = "confirmed"
    /\ \A k \in Keys, m, n \in DOMAIN outbox : Completes(outbox[m], k) /\ Completes(outbox[n], k) => m = n

LEMMA FulfilStarts == PurchaseInit => FulfilInv
BY DEF PurchaseInit, FulfilInv, Finishing, Announced, Workers

\* A settler stays where it is, ends, goes on with a settled payment, or goes
\* on with the fulfilment it has recorded.
GoesOn(s) ==
    \/ worker'[s] = worker[s]
    \/ worker'[s].pc = "done"
    \/ worker'[s].pc \notin Finishing /\ intents[worker'[s].key] = "confirmed"
    \/ worker[s].pc \in Finishing /\ worker'[s].key = worker[s].key

LEMMA NothingAnnounced ==
  ASSUME FulfilInv, WorkersTyped', \A s \in Settlers : GoesOn(s),
         intents' \in [Keys -> {"none", "prepared", "confirmed"}],
         \A k \in Keys : intents[k] = "confirmed" => intents'[k] = "confirmed",
         fulfilments \subseteq fulfilments',
         outbox' \in Seq(OutboxEvent),
         \A n \in DOMAIN outbox', k \in Keys :
            Completes(outbox'[n], k) => n \in DOMAIN outbox /\ Completes(outbox[n], k)
  PROVE  FulfilInv'
<1>1. \A s \in Settlers : worker'[s].key \in Keys
  BY DEF WorkersTyped, WorkerState, Workers
<1>2. \A k \in Keys : Announced(k)' => Announced(k)
  BY DEF Announced
<1>3. ASSUME NEW s \in Settlers, worker'[s].pc \notin {"idle", "done"}
      PROVE  intents'[worker'[s].key] = "confirmed"
  <2>1. intents[worker'[s].key] = "confirmed"
    BY <1>3 DEF GoesOn, FulfilInv, Finishing
  <2> QED BY <1>1, <2>1
<1>4. ASSUME NEW s \in Settlers, worker'[s].pc \in Finishing
      PROVE  worker[s].pc \in Finishing /\ worker'[s].key = worker[s].key
  BY <1>4 DEF GoesOn, Finishing
<1>5. ASSUME NEW s \in Settlers, worker'[s].pc \in Finishing
      PROVE  /\ worker'[s].key \in fulfilments' /\ ~Announced(worker[s].key)'
             /\ \A r \in Settlers \ {s} : worker'[r].pc \in Finishing => worker'[r].key # worker'[s].key
  <2>1. worker[s].pc \in Finishing /\ worker'[s].key = worker[s].key
    BY <1>4, <1>5
  <2>2. worker[s].key \in fulfilments /\ ~Announced(worker[s].key)
    BY <2>1 DEF FulfilInv
  <2>3. ~Announced(worker[s].key)'
    BY <1>1, <2>1, <2>2 DEF Announced
  <2>4. ASSUME NEW r \in Settlers \ {s}, worker'[r].pc \in Finishing PROVE worker'[r].key # worker'[s].key
    BY <1>4, <2>1, <2>4 DEF FulfilInv
  <2> QED BY <2>1, <2>2, <2>3, <2>4
<1>6. \A k \in Keys : Announced(k)' => k \in fulfilments' /\ intents'[k] = "confirmed"
  BY <1>2 DEF FulfilInv
<1>7. \A k \in Keys, m, n \in DOMAIN outbox' : Completes(outbox'[m], k) /\ Completes(outbox'[n], k) => m = n
  BY DEF FulfilInv
<1> QED BY <1>3, <1>5, <1>6, <1>7 DEF FulfilInv, Completes

\* The row is new: nobody has finished this purchase, nobody is about to.
LEMMA InsertFulfilmentKeeps ==
  ASSUME FulfilInv, WorkersTyped, WorkersTyped', NEW s \in Settlers, InsertFulfilment(s), FulfilmentFree(KeyOf(s))
  PROVE  FulfilInv'
<1>0. s \in Workers /\ worker \in [Workers -> WorkerState] /\ worker[s] \in WorkerState /\ Settlers \subseteq Workers
  BY DEF WorkersTyped, Workers
<1>k. PICK k \in Keys : k = worker[s].key
  BY <1>0 DEF WorkerState
<1>1. /\ k \notin fulfilments /\ fulfilments' = fulfilments \cup {k} /\ UNCHANGED <<intents, outbox>>
      /\ worker[s].pc = "record" /\ worker' = [worker EXCEPT ![s].pc = "fulfilled"]
  BY <1>k DEF InsertFulfilment, FulfilmentFree, KeyOf, At, To
<1>2. worker'[s].pc = "fulfilled" /\ worker'[s].key = k /\ \A r \in Settlers \ {s} : worker'[r] = worker[r]
  BY <1>0, <1>k, <1>1 DEF WorkerState
<1>3. intents[k] = "confirmed" /\ ~Announced(k)
  BY <1>k, <1>1 DEF FulfilInv
<1>4. \A r \in Settlers : worker[r].pc \in Finishing => worker[r].key # k
  BY <1>1 DEF FulfilInv
<1>5. \A l : Announced(l)' <=> Announced(l)
  BY <1>1 DEF Announced
<1>6. ASSUME NEW r \in Settlers, worker'[r].pc \notin {"idle", "done"}
      PROVE  intents'[worker'[r].key] = "confirmed"
  BY <1>1, <1>2, <1>3, <1>6 DEF FulfilInv
<1>7. ASSUME NEW r \in Settlers, worker'[r].pc \in Finishing
      PROVE  /\ worker'[r].key \in fulfilments' /\ ~Announced(worker'[r].key)
             /\ \A q \in Settlers \ {r} : worker'[q].pc \in Finishing => worker'[q].key # worker'[r].key
  <2>1. CASE r = s
    BY <1>1, <1>2, <1>3, <1>4, <2>1
  <2>2. CASE r # s
    BY <1>1, <1>2, <1>4, <1>7, <2>2 DEF FulfilInv
  <2> QED BY <2>1, <2>2
<1>8. \A l \in Keys : Announced(l) => l \in fulfilments' /\ intents'[l] = "confirmed"
  BY <1>1 DEF FulfilInv
<1> QED BY <1>1, <1>6, <1>7, <1>8 DEF FulfilInv, Announced

\* The event of the one that recorded the fulfilment is the first.
LEMMA EnqueueFulfilledKeeps ==
  ASSUME FulfilInv, WorkersTyped, WorkersTyped', NEW s \in Settlers, EnqueueFulfilled(s)
  PROVE  FulfilInv'
<1>0. s \in Workers /\ worker \in [Workers -> WorkerState] /\ worker[s] \in WorkerState /\ Settlers \subseteq Workers
      /\ \A r \in Settlers : worker[r].key \in Keys
  BY DEF WorkersTyped, Workers, WorkerState
<1>k. PICK k \in Keys : k = worker[s].key
  BY <1>0 DEF WorkerState
<1> DEFINE e == Event("fulfilment.completed", k)
<1>1. /\ outbox' = Append(outbox, e) /\ UNCHANGED <<intents, fulfilments>>
      /\ worker[s].pc = "event" /\ worker' = [worker EXCEPT ![s].pc = "done"]
  BY <1>k DEF EnqueueFulfilled, Enqueue, KeyOf, At, To
<1>2. worker'[s].pc = "done" /\ \A r \in Settlers \ {s} : worker'[r] = worker[r]
  BY <1>0, <1>1 DEF WorkerState
<1>3. e \in OutboxEvent /\ \A l : Completes(e, l) <=> l = k
  BY DEF Event, OutboxEvent, Completes
<1> HIDE DEF e
<1>4. /\ outbox \in Seq(OutboxEvent) /\ outbox' \in Seq(OutboxEvent) /\ Len(outbox) \in Nat
      /\ DOMAIN outbox' = 1..(Len(outbox) + 1) /\ DOMAIN outbox = 1..Len(outbox)
      /\ outbox'[Len(outbox) + 1] = e /\ \A n \in DOMAIN outbox : outbox'[n] = outbox[n]
  BY <1>1, <1>3 DEF FulfilInv
<1>5. k \in fulfilments /\ ~Announced(k) /\ intents[k] = "confirmed"
      /\ \A r \in Settlers \ {s} : worker[r].pc \in Finishing => worker[r].key # k
  BY <1>k, <1>1 DEF FulfilInv, Finishing
<1>6. ASSUME NEW l \in Keys, NEW n \in DOMAIN outbox', Completes(outbox'[n], l)
      PROVE  \/ n = Len(outbox) + 1 /\ l = k
             \/ n \in DOMAIN outbox /\ Completes(outbox[n], l)
  <2>1. CASE n = Len(outbox) + 1
    BY <1>3, <1>4, <1>6, <2>1
  <2>2. CASE n # Len(outbox) + 1
    BY <1>4, <1>6, <2>2
  <2> QED BY <2>1, <2>2
<1>7. \A l \in Keys : Announced(l)' => Announced(l) \/ l = k
  BY <1>6 DEF Announced
<1>8. ASSUME NEW r \in Settlers, worker'[r].pc \notin {"idle", "done"}
      PROVE  intents'[worker'[r].key] = "confirmed"
  BY <1>1, <1>2, <1>8 DEF FulfilInv
<1>9. ASSUME NEW r \in Settlers, worker'[r].pc \in Finishing
      PROVE  /\ worker'[r].key \in fulfilments' /\ ~Announced(worker[r].key)'
             /\ \A q \in Settlers \ {r} : worker'[q].pc \in Finishing => worker'[q].key # worker'[r].key
  <2>1. r # s /\ worker'[r] = worker[r] /\ worker[r].key \in Keys
    BY <1>0, <1>2, <1>9 DEF Finishing
  <2>2. worker[r].key # k /\ ~Announced(worker[r].key) /\ worker[r].key \in fulfilments
    BY <1>5, <1>9, <2>1 DEF FulfilInv
  <2>3. ~Announced(worker[r].key)'
    BY <1>6, <2>1, <2>2 DEF Announced
  <2>4. ASSUME NEW q \in Settlers \ {r}, worker'[q].pc \in Finishing PROVE worker'[q].key # worker'[r].key
    BY <1>2, <1>9, <2>1, <2>4 DEF FulfilInv, Finishing
  <2> QED BY <1>1, <2>1, <2>2, <2>3, <2>4
<1>10. \A l \in Keys : Announced(l)' => l \in fulfilments' /\ intents'[l] = "confirmed"
  BY <1>1, <1>5, <1>7 DEF FulfilInv
<1>11. ASSUME NEW l \in Keys, NEW m \in DOMAIN outbox', NEW n \in DOMAIN outbox',
              Completes(outbox'[m], l), Completes(outbox'[n], l)
       PROVE  m = n
  <2>1. CASE l = k
    <3>1. \A i \in DOMAIN outbox : ~Completes(outbox[i], k)
      BY <1>5 DEF Announced
    <3> QED BY <1>6, <1>11, <2>1, <3>1
  <2>2. CASE l # k
    BY <1>6, <1>11, <2>2 DEF FulfilInv
  <2> QED BY <2>1, <2>2
<1> QED BY <1>1, <1>4, <1>8, <1>9, <1>10, <1>11 DEF FulfilInv, Completes

LEMMA FulfilStep ==
  WorkersTyped /\ WorkersTyped' /\ FulfilInv /\ [PurchaseNext]_purchaseVars => FulfilInv'
<1> SUFFICES ASSUME WorkersTyped, WorkersTyped', FulfilInv, [PurchaseNext]_purchaseVars PROVE FulfilInv'
  OBVIOUS
<1>0. /\ outbox \in Seq(OutboxEvent) /\ intents \in [Keys -> {"none", "prepared", "confirmed"}]
      /\ worker \in [Workers -> WorkerState] /\ Settlers \subseteq Workers /\ Callers \subseteq Workers
      /\ \A s \in Settlers : worker[s] \in WorkerState
      /\ \A s \in Settlers : worker[s].pc \notin {"idle", "done"} => intents[worker[s].key] = "confirmed"
  BY DEF FulfilInv, WorkersTyped, Workers
<1>c. \A c \in Callers, s \in Settlers : c # s
  BY PurchasesAssumption
<1>1. ASSUME \A s \in Settlers : GoesOn(s), UNCHANGED <<intents, fulfilments, outbox>> PROVE FulfilInv'
  BY <1>0, <1>1, NothingAnnounced
<1>2. ASSUME NEW c \in Callers, NEW k \in Keys, Begin(c, k) PROVE FulfilInv'
  <2>1. \A s \in Settlers : worker'[s] = worker[s]
    BY <1>0, <1>c, <1>2 DEF Begin
  <2>2. UNCHANGED <<intents, fulfilments, outbox>>
    BY <1>2 DEF Begin
  <2> QED BY <1>1, <2>1, <2>2 DEF GoesOn
<1>3. ASSUME NEW c \in Callers, CallerStep(c) PROVE FulfilInv'
  <2>1. PICK s : worker' = [worker EXCEPT ![c] = s]
    BY <1>3 DEF CallerStep, FindPurchase, InsertPurchase, EnqueueCreated, NextVersion, Supersede,
                InsertQuote, MarkQuoted, Prepare, To
  <2>2. \A t \in Settlers : GoesOn(t)
    BY <1>0, <1>c, <2>1 DEF GoesOn
  <2>3. fulfilments' = fulfilments
    BY <1>3 DEF CallerStep, FindPurchase, InsertPurchase, EnqueueCreated, NextVersion, Supersede,
                InsertQuote, MarkQuoted, Prepare
  <2>4. CASE EnqueueCreated(c)
    <3> DEFINE e == Event("purchase.created", worker[c].key)
    <3>1. intents' = intents /\ outbox' = Append(outbox, e)
      BY <2>4 DEF EnqueueCreated, Enqueue, KeyOf
    <3>2. e \in OutboxEvent /\ \A k : ~Completes(e, k)
      BY <1>0 DEF Event, OutboxEvent, Completes, WorkerState
    <3> HIDE DEF e
    <3>3. outbox' \in Seq(OutboxEvent)
      BY <1>0, <3>1, <3>2
    <3>4. ASSUME NEW n \in DOMAIN outbox', NEW k \in Keys, Completes(outbox'[n], k)
          PROVE  n \in DOMAIN outbox /\ Completes(outbox[n], k)
      BY <1>0, <3>1, <3>2, <3>4
    <3> QED BY <1>0, <2>2, <2>3, <3>1, <3>3, <3>4, NothingAnnounced
  <2>5. CASE Prepare(c)
    <3>1. outbox' = outbox /\ intents' = [intents EXCEPT ![worker[c].key] = IF @ = "none" THEN "prepared" ELSE @]
      BY <2>5 DEF Prepare, KeyOf
    <3>2. intents' \in [Keys -> {"none", "prepared", "confirmed"}]
          /\ \A k \in Keys : intents[k] = "confirmed" => intents'[k] = "confirmed"
      BY <1>0, <3>1
    <3> QED BY <1>0, <2>2, <2>3, <3>1, <3>2, NothingAnnounced
  <2>6. ~EnqueueCreated(c) /\ ~Prepare(c) => UNCHANGED <<intents, outbox>>
    BY <1>3 DEF CallerStep, FindPurchase, InsertPurchase, NextVersion, Supersede, InsertQuote, MarkQuoted
  <2> QED BY <1>1, <2>2, <2>3, <2>4, <2>5, <2>6
<1>4. ASSUME NEW k \in Keys, Settle(k) PROVE FulfilInv'
  <2>1. /\ intents' = [intents EXCEPT ![k] = "confirmed"] /\ UNCHANGED <<fulfilments, outbox, worker>>
    BY <1>4 DEF Settle
  <2>2. intents' \in [Keys -> {"none", "prepared", "confirmed"}]
        /\ \A l \in Keys : intents[l] = "confirmed" => intents'[l] = "confirmed"
    BY <1>0, <2>1
  <2> QED BY <1>0, <2>1, <2>2, NothingAnnounced DEF GoesOn
<1>5. ASSUME NEW s \in Settlers, NEW k \in Keys, BeginFulfilment(s, k) PROVE FulfilInv'
  <2>1. /\ worker' = [worker EXCEPT ![s] = [pc |-> "paid", key |-> k, version |-> 0]]
        /\ intents[k] = "confirmed" /\ UNCHANGED <<intents, fulfilments, outbox>>
    BY <1>5 DEF BeginFulfilment
  <2> QED BY <1>0, <1>1, <2>1 DEF GoesOn, Finishing
<1>6. ASSUME NEW s \in Settlers, NEW pc, To(s, pc), UNCHANGED <<intents, fulfilments, outbox>>,
             \/ pc = "done"
             \/ pc \notin Finishing /\ worker[s].pc \notin {"idle", "done"}
             \/ worker[s].pc \in Finishing
      PROVE  FulfilInv'
  <2>1. worker'[s].pc = pc /\ worker'[s].key = worker[s].key /\ \A r \in Settlers \ {s} : worker'[r] = worker[r]
    BY <1>0, <1>6 DEF To, WorkerState
  <2> QED BY <1>0, <1>1, <1>6, <2>1 DEF GoesOn
<1>7. ASSUME NEW s \in Settlers, SettlerStep(s) PROVE FulfilInv'
  <2>1. CASE MarkPaid(s)
    BY <1>6, <2>1 DEF MarkPaid, At, Finishing
  <2>2. CASE FindFulfilment(s)
    BY <1>6, <2>2 DEF FindFulfilment, At, Finishing
  <2>3. CASE InsertFulfilment(s) /\ FulfilmentFree(KeyOf(s))
    BY <2>3, InsertFulfilmentKeeps
  <2>4. CASE InsertFulfilment(s) /\ ~FulfilmentFree(KeyOf(s))
    <3>1. UNCHANGED <<intents, fulfilments, outbox>> /\ To(s, "done")
      BY <2>4 DEF InsertFulfilment, FulfilmentFree
    <3> QED BY <1>6, <3>1
  <2>5. CASE MarkFulfilled(s)
    BY <1>6, <2>5 DEF MarkFulfilled, At, Finishing
  <2>6. CASE EnqueueFulfilled(s)
    BY <2>6, EnqueueFulfilledKeeps
  <2> QED BY <1>7, <2>1, <2>2, <2>3, <2>4, <2>5, <2>6 DEF SettlerStep
<1>8. ASSUME NEW w \in Workers, StopWorker(w) PROVE FulfilInv'
  <2>1. UNCHANGED <<intents, fulfilments, outbox>> /\ To(w, "done")
    BY <1>8 DEF StopWorker
  <2>2. \A s \in Settlers : GoesOn(s)
    BY <1>0, <2>1 DEF To, GoesOn, WorkerState
  <2> QED BY <1>1, <2>1, <2>2
<1>9. CASE PollOutbox \/ UNCHANGED purchaseVars
  <2>1. UNCHANGED <<intents, fulfilments, outbox, worker>>
    BY <1>9 DEF PollOutbox, purchaseVars
  <2> QED BY <1>1, <2>1 DEF GoesOn
<1> QED BY <1>2, <1>3, <1>4, <1>5, <1>7, <1>8, <1>9 DEF PurchaseNext

\* The completion of a purchase is announced at most once, and only for a
\* recorded fulfilment of a settled payment, whoever fulfils it at the same
\* time (fulfilmentService.ts:28).
THEOREM OneCompletion == PurchaseSpec => []CompletionAnnouncedOnce
<1>1. ASSUME FulfilInv, NEW k \in Keys
      PROVE  /\ Cardinality(Completions(k)) <= 1
             /\ Completions(k) # {} => k \in fulfilments /\ intents[k] = "confirmed"
  <2>1. \A m, n \in Completions(k) : m = n
    BY <1>1 DEF FulfilInv, Completes, Completions
  <2>2. Completions(k) # {} => Announced(k)
    BY DEF Completions, Announced, Completes
  <2> HIDE DEF Completions
  <2>3. CASE Completions(k) = {}
    BY <2>3, FS_EmptySet
  <2>4. CASE Completions(k) # {}
    <3>1. PICK n : Completions(k) = {n}
      BY <2>1, <2>4
    <3>2. Cardinality(Completions(k)) <= 1
      BY <3>1, FS_Singleton
    <3> QED BY <1>1, <2>2, <3>2 DEF FulfilInv
  <2> QED BY <2>3, <2>4
<1>2. FulfilInv => CompletionAnnouncedOnce
  BY <1>1 DEF CompletionAnnouncedOnce
<1>3. QuotesInv => WorkersTyped
  BY DEF QuotesInv
<1> QED BY <1>2, <1>3, QuotesStart, QuotesStep, FulfilStarts, FulfilStep, PTL DEF PurchaseSpec

------------------------------------------------------------------------------
(***************************************************************************)
(* The queues, for any number of uploads, exports and deliveries, however  *)
(* often a message is repeated and a handler throws or dies.               *)
(***************************************************************************)

DeliveryState ==
    [pc: Step, of: SUBSET Message, vendor: SUBSET Vendors, invoice: Nat, verdict: InvoiceStatus]
InvoiceRow == [upload: Uploads, vendor: Vendors, status: InvoiceStatus]

DeliveriesTyped ==
    /\ topic \subseteq Message
    /\ invoices \in Seq(InvoiceRow)
    /\ delivery \in [Deliverers -> DeliveryState]
    /\ \A d \in Deliverers :
        /\ delivery[d].invoice <= Len(invoices)
        /\ delivery[d].pc \in {"link", "judge", "status"} => delivery[d].invoice # NoInvoice

Passing == {"needs_approval", "ready"}

\* An invoice has passed the policy, or is about to: the verdict is reached
\* and the UPDATE of its row is the next statement of the delivery.
Passes(n) ==
    \/ invoices[n].status \in Passing
    \/ \E d \in Deliverers :
         delivery[d].pc = "status" /\ delivery[d].invoice = n /\ delivery[d].verdict \in Passing

Same(m, n) == invoices[m].upload = invoices[n].upload /\ invoices[m].vendor = invoices[n].vendor

OnePasses == \A m, n \in DOMAIN invoices : m # n /\ Same(m, n) => ~(Passes(m) /\ Passes(n))

JudgedInv == DeliveriesTyped /\ OnePasses

LEMMA IdleDeliveryTyped == IdleDelivery \in DeliveryState
BY DEF IdleDelivery, DeliveryState, NoInvoice, Step, InvoiceStatus

LEMMA JudgedStarts == DeliveryInit => JudgedInv
<1> SUFFICES ASSUME DeliveryInit PROVE JudgedInv
  OBVIOUS
<1>1. invoices = <<>> /\ delivery = [d \in Deliverers |-> IdleDelivery] /\ topic = {}
  BY DEF DeliveryInit
<1>2. \A d \in Deliverers : delivery[d].invoice = 0 /\ delivery[d].pc = "idle"
  BY <1>1 DEF IdleDelivery, NoInvoice
<1> QED BY <1>1, <1>2, IdleDeliveryTyped DEF JudgedInv, DeliveriesTyped, OnePasses

\* What a delivery may go on to: anything but a verdict, with its invoice.
Quiet(s) ==
    /\ s \in DeliveryState /\ s.pc # "status" /\ s.invoice <= Len(invoices)
    /\ s.pc \in {"link", "judge"} => s.invoice # NoInvoice

LEMMA QuietMoves ==
  ASSUME DeliveriesTyped, NEW d \in Deliverers,
         NEW pc \in Step \ {"status"}, Proceed(d, pc),
         pc = "link" => delivery[d].pc = "link",
         pc = "judge" => delivery[d].pc \in {"link", "judge"}
  PROVE  \E s : Quiet(s) /\ delivery' = [delivery EXCEPT ![d] = s]
<1> DEFINE s == [delivery[d] EXCEPT !.pc = pc]
<1>1. delivery[d] \in DeliveryState /\ delivery \in [Deliverers -> DeliveryState]
  BY DEF DeliveriesTyped
<1>2. s \in DeliveryState /\ s.pc = pc /\ s.invoice = delivery[d].invoice
  BY <1>1 DEF DeliveryState
<1>3. delivery' = [delivery EXCEPT ![d] = s]
  BY <1>1 DEF Proceed
<1>4. Quiet(s)
  BY <1>2 DEF Quiet, DeliveriesTyped
<1> QED BY <1>3, <1>4

LEMMA IdleQuiet ==
  ASSUME DeliveriesTyped
  PROVE  Quiet(IdleDelivery)
<1>1. Len(invoices) \in Nat
  BY DEF DeliveriesTyped
<1> QED BY <1>1, IdleDeliveryTyped DEF Quiet, IdleDelivery, NoInvoice

QuietStep == /\ invoices' = invoices
             /\ \/ delivery' = delivery
                \/ \E d \in Deliverers, s \in DeliveryState :
                     Quiet(s) /\ delivery' = [delivery EXCEPT ![d] = s]

LEMMA QuietKeeps ==
  ASSUME JudgedInv, QuietStep,
         topic' \subseteq Message
  PROVE  JudgedInv'
<1>1. DeliveriesTyped /\ OnePasses /\ invoices' = invoices /\ topic' \subseteq Message
  BY DEF JudgedInv, QuietStep
<1>2. CASE delivery' = delivery
  BY <1>1, <1>2 DEF JudgedInv, DeliveriesTyped, OnePasses, Passes, Same
<1>3. CASE delivery' # delivery
  <2>1. PICK d \in Deliverers, s \in DeliveryState : Quiet(s) /\ delivery' = [delivery EXCEPT ![d] = s]
    BY <1>3 DEF QuietStep
  <2>2. delivery' \in [Deliverers -> DeliveryState] /\ delivery'[d] = s
        /\ \A e \in Deliverers \ {d} : delivery'[e] = delivery[e]
    BY <1>1, <2>1 DEF DeliveriesTyped
  <2>3. DeliveriesTyped'
    BY <1>1, <2>1, <2>2 DEF DeliveriesTyped, Quiet
  <2>4. \A n \in DOMAIN invoices : Passes(n)' => Passes(n)
    BY <1>1, <2>1, <2>2 DEF Passes, Quiet
  <2> QED BY <1>1, <2>3, <2>4 DEF JudgedInv, OnePasses, Same
<1> QED BY <1>2, <1>3

\* A new invoice is received: nobody has judged it yet.
LEMMA PersistKeeps ==
  ASSUME JudgedInv, NEW d \in Deliverers, NEW u \in Uploads, PersistInvoice(d, u),
         topic' \subseteq Message
  PROVE  JudgedInv'
<1>0. /\ invoices \in Seq(InvoiceRow) /\ Len(invoices) \in Nat /\ DOMAIN invoices = 1..Len(invoices)
      /\ delivery \in [Deliverers -> DeliveryState]
      /\ \A e \in Deliverers : delivery[e].invoice \in Nat /\ delivery[e].invoice <= Len(invoices)
      /\ OnePasses
  BY DEF JudgedInv, DeliveriesTyped, DeliveryState
<1>n. PICK n \in Nat : n = Len(invoices) + 1
  BY <1>0
<1> DEFINE s == [delivery[d] EXCEPT !.pc = "link", !.invoice = n]
<1>1. PICK v \in delivery[d].vendor : invoices' = Append(invoices, NewInvoice(u, v))
  BY DEF PersistInvoice
<1>2. NewInvoice(u, v) \in InvoiceRow /\ NewInvoice(u, v).status = "received"
  <2>1. v \in Vendors
    BY <1>0 DEF DeliveryState
  <2> QED BY <2>1 DEF NewInvoice, InvoiceRow, InvoiceStatus
<1>3. /\ invoices' \in Seq(InvoiceRow) /\ Len(invoices') = n /\ invoices'[n] = NewInvoice(u, v)
      /\ DOMAIN invoices' = 1..n /\ \A k \in DOMAIN invoices : invoices'[k] = invoices[k]
  BY <1>0, <1>n, <1>1, <1>2
<1>4. s \in DeliveryState /\ s.pc = "link" /\ s.invoice = n
  <2>1. delivery[d] \in DeliveryState /\ n \in Nat /\ "link" \in Step
    BY <1>0 DEF Step
  <2> QED BY <2>1 DEF DeliveryState
<1>5. delivery' = [delivery EXCEPT ![d] = s]
  BY <1>0, <1>n DEF PersistInvoice
<1> HIDE DEF s
<1>6. delivery' \in [Deliverers -> DeliveryState] /\ delivery'[d] = s
      /\ \A e \in Deliverers \ {d} : delivery'[e] = delivery[e]
  BY <1>0, <1>4, <1>5
<1>7. DeliveriesTyped'
  BY <1>0, <1>n, <1>3, <1>4, <1>6 DEF DeliveriesTyped, JudgedInv, NoInvoice
<1>8. ~Passes(n)'
  <2>1. invoices'[n].status = "received"
    BY <1>2, <1>3
  <2>2. ASSUME NEW e \in Deliverers PROVE ~(delivery'[e].pc = "status" /\ delivery'[e].invoice = n)
    BY <1>0, <1>n, <1>4, <1>6
  <2> QED BY <2>1, <2>2 DEF Passes, Passing
<1>9. \A k \in DOMAIN invoices : Passes(k)' => Passes(k)
  BY <1>0, <1>n, <1>3, <1>4, <1>6 DEF Passes
<1>10. OnePasses'
  <2>1. ASSUME NEW k \in DOMAIN invoices', NEW m \in DOMAIN invoices', k # m, Same(k, m)', Passes(k)', Passes(m)'
        PROVE  FALSE
    <3>1. k \in DOMAIN invoices /\ m \in DOMAIN invoices
      BY <1>0, <1>n, <1>3, <1>8, <2>1
    <3>2. Same(k, m) /\ Passes(k) /\ Passes(m)
      BY <1>3, <1>9, <2>1, <3>1 DEF Same
    <3> QED BY <1>0, <2>1, <3>1, <3>2 DEF OnePasses
  <2> QED BY <2>1 DEF OnePasses
<1> QED BY <1>7, <1>10 DEF JudgedInv

\* A verdict that lets an invoice pass is reached while it is the only one.
LEMMA JudgeKeeps ==
  ASSUME JudgedInv, NEW d \in Deliverers, NEW u \in Uploads, JudgeInvoice(d, u),
         topic' \subseteq Message
  PROVE  JudgedInv'
<1>0. /\ invoices \in Seq(InvoiceRow) /\ delivery \in [Deliverers -> DeliveryState]
      /\ DeliveriesTyped /\ OnePasses /\ invoices' = invoices
  BY DEF JudgedInv, DeliveriesTyped, JudgeInvoice, tables
<1>1. PICK verdict \in {"blocked", "needs_approval", "ready"} :
        /\ Duplicate(delivery[d].invoice) => verdict = "blocked"
        /\ delivery' = [delivery EXCEPT ![d].pc = "status", ![d].verdict = verdict]
  BY DEF JudgeInvoice
<1> DEFINE n == delivery[d].invoice
           s == [delivery[d] EXCEPT !.pc = "status", !.verdict = verdict]
<1>2. s \in DeliveryState /\ s.pc = "status" /\ s.invoice = n /\ s.verdict = verdict
  BY <1>0 DEF DeliveryState, Step, InvoiceStatus
<1>3. delivery' = [delivery EXCEPT ![d] = s]
  BY <1>0, <1>1
<1> HIDE DEF s
<1>4. delivery' \in [Deliverers -> DeliveryState] /\ delivery'[d] = s
      /\ \A e \in Deliverers \ {d} : delivery'[e] = delivery[e]
  BY <1>0, <1>2, <1>3
<1>5. delivery[d].pc = "judge"
  BY DEF JudgeInvoice, Doing
<1>6. DeliveriesTyped'
  BY <1>0, <1>2, <1>4, <1>5 DEF DeliveriesTyped
<1>7. \A k \in DOMAIN invoices : Passes(k)' => Passes(k) \/ (k = n /\ verdict # "blocked")
  BY <1>0, <1>2, <1>4 DEF Passes, Passing
<1>8. verdict # "blocked" => \A k \in DOMAIN invoices \ {n} : ~Same(k, n)
  BY <1>1 DEF Duplicate, Same
<1>9. OnePasses'
  BY <1>0, <1>7, <1>8 DEF OnePasses, Same
<1> QED BY <1>6, <1>9 DEF JudgedInv

\* Writing a verdict lets nothing pass that was not about to.
LEMMA SetStatusKeeps ==
  ASSUME JudgedInv, NEW d \in Deliverers, NEW u \in Uploads, SetInvoiceStatus(d, u),
         topic' \subseteq Message
  PROVE  JudgedInv'
<1>0. /\ invoices \in Seq(InvoiceRow) /\ delivery \in [Deliverers -> DeliveryState]
      /\ DeliveriesTyped /\ OnePasses /\ delivery[d] \in DeliveryState /\ delivery[d].pc = "status"
  BY DEF JudgedInv, DeliveriesTyped, SetInvoiceStatus, Doing
<1> DEFINE n == delivery[d].invoice
<1>1. n \in DOMAIN invoices
  BY <1>0 DEF DeliveriesTyped, DeliveryState, NoInvoice
<1>2. invoices' = [invoices EXCEPT ![n].status = delivery[d].verdict]
  BY DEF SetInvoiceStatus
<1>3. /\ invoices' \in Seq(InvoiceRow) /\ Len(invoices') = Len(invoices) /\ DOMAIN invoices' = DOMAIN invoices
      /\ invoices'[n].status = delivery[d].verdict
      /\ \A k \in DOMAIN invoices : invoices'[k].upload = invoices[k].upload /\ invoices'[k].vendor = invoices[k].vendor
      /\ \A k \in DOMAIN invoices \ {n} : invoices'[k] = invoices[k]
  <2>1. invoices[n] \in InvoiceRow /\ delivery[d].verdict \in InvoiceStatus
    BY <1>0, <1>1 DEF DeliveryState
  <2>2. [invoices[n] EXCEPT !.status = delivery[d].verdict] \in InvoiceRow
    BY <2>1 DEF InvoiceRow
  <2>3. invoices' = [invoices EXCEPT ![n] = [invoices[n] EXCEPT !.status = delivery[d].verdict]]
    BY <1>2
  <2> QED BY <1>0, <1>1, <2>1, <2>2, <2>3 DEF InvoiceRow
<1>4. PICK pc \in {"ack", "publish"} : Proceed(d, pc)
  BY DEF SetInvoiceStatus
<1>5. PICK s : Quiet(s) /\ delivery' = [delivery EXCEPT ![d] = s]
  BY <1>0, <1>4, QuietMoves DEF Step
<1>6. delivery' \in [Deliverers -> DeliveryState] /\ delivery'[d] = s
      /\ \A e \in Deliverers \ {d} : delivery'[e] = delivery[e]
  BY <1>0, <1>5 DEF Quiet
<1>7. DeliveriesTyped'
  BY <1>0, <1>3, <1>5, <1>6 DEF DeliveriesTyped, Quiet
<1>8. \A k \in DOMAIN invoices : Passes(k)' => Passes(k)
  BY <1>0, <1>3, <1>5, <1>6 DEF Passes, Quiet
<1>9. OnePasses'
  BY <1>0, <1>3, <1>8 DEF OnePasses, Same
<1> QED BY <1>7, <1>9 DEF JudgedInv

LEMMA TopicTyped ==
  ASSUME DeliveriesTyped, [DeliveryNext]_deliveryVars
  PROVE  topic' \subseteq Message
<1>0. topic \subseteq Message /\ \A d \in Deliverers : delivery[d].invoice \in Nat
  BY DEF DeliveriesTyped, DeliveryState
<1>1. ASSUME NEW u \in Uploads, StoreUpload(u) \/ PublishUpload(u) PROVE topic' \subseteq Message
  BY <1>0, <1>1 DEF StoreUpload, PublishUpload, messages, Message, Asked
<1>2. ASSUME NEW e \in Exports, StoreExport(e) \/ PublishExport(e) PROVE topic' \subseteq Message
  BY <1>0, <1>2 DEF StoreExport, PublishExport, messages, Message, Asked
<1>3. ASSUME NEW d \in Deliverers, Reject(d) \/ Die(d) \/ Acknowledge(d) \/ Catch(d) \/ Notify(d)
      PROVE  topic' \subseteq Message
  BY <1>0, <1>3 DEF Reject, Die, Acknowledge, Catch, Notify, messages
<1>4. ASSUME NEW d \in Deliverers, NEW m \in topic, Deliver(d, m) PROVE topic' \subseteq Message
  BY <1>0, <1>4 DEF Deliver, messages
<1>5. ASSUME NEW d \in Deliverers, NEW u \in Uploads, ExtractionStep(d, u) PROVE topic' \subseteq Message
  <2>1. CASE PublishNotifications(d, u)
    BY <1>0, <2>1 DEF PublishNotifications, Message
  <2>2. CASE topic' = topic
    BY <1>0, <2>2
  <2>3. ~PublishNotifications(d, u) => topic' = topic
    BY <1>5 DEF ExtractionStep, ReadUpload, MarkExtracting, Extract, PersistInvoice, LinkInvoice,
                JudgeInvoice, SetInvoiceStatus, FailUpload, messages
  <2> QED BY <2>1, <2>2, <2>3
<1>6. ASSUME NEW d \in Deliverers, NEW e \in Exports, ExportStep(d, e) PROVE topic' \subseteq Message
  BY <1>0, <1>6 DEF ExportStep, ReadExport, MarkExporting, UploadExport, CompleteExport, AuditExport,
                    FailExport, messages
<1>7. CASE UNCHANGED deliveryVars
  BY <1>0, <1>7 DEF deliveryVars
<1> QED BY <1>1, <1>2, <1>3, <1>4, <1>5, <1>6, <1>7 DEF DeliveryNext, HandlerStep

LEMMA JudgedStep == JudgedInv /\ [DeliveryNext]_deliveryVars => JudgedInv'
<1> SUFFICES ASSUME JudgedInv, [DeliveryNext]_deliveryVars PROVE JudgedInv'
  OBVIOUS
<1>0. DeliveriesTyped /\ delivery \in [Deliverers -> DeliveryState]
      /\ (\A d \in Deliverers : delivery[d] \in DeliveryState) /\ Len(invoices) \in Nat
      /\ topic \subseteq Message /\ topic' \subseteq Message
  BY TopicTyped DEF JudgedInv, DeliveriesTyped
<1>1. ASSUME invoices' = invoices, NEW d \in Deliverers, NEW s, Quiet(s), delivery' = [delivery EXCEPT ![d] = s]
      PROVE  JudgedInv'
  BY <1>0, <1>1, QuietKeeps DEF QuietStep, Quiet
<1>2. ASSUME invoices' = invoices, NEW d \in Deliverers, NEW pc \in Step \ {"status", "link"}, Proceed(d, pc),
             pc = "judge" => delivery[d].pc = "link"
      PROVE  JudgedInv'
  BY <1>0, <1>1, <1>2, QuietMoves
<1>3. ASSUME invoices' = invoices, NEW d \in Deliverers, delivery' = [delivery EXCEPT ![d] = IdleDelivery]
      PROVE  JudgedInv'
  BY <1>0, <1>1, <1>3, IdleQuiet
<1>4. ASSUME UNCHANGED <<invoices, delivery>> PROVE JudgedInv'
  BY <1>0, <1>4, QuietKeeps DEF QuietStep
<1>5. ASSUME NEW u \in Uploads, StoreUpload(u) \/ PublishUpload(u) PROVE JudgedInv'
  BY <1>4, <1>5 DEF StoreUpload, PublishUpload
<1>6. ASSUME NEW e \in Exports, StoreExport(e) \/ PublishExport(e) PROVE JudgedInv'
  BY <1>4, <1>6 DEF StoreExport, PublishExport
<1>7. ASSUME NEW d \in Deliverers, Reject(d) \/ Die(d) \/ Acknowledge(d) PROVE JudgedInv'
  BY <1>3, <1>7 DEF Reject, Die, Acknowledge, tables
<1>8. ASSUME NEW d \in Deliverers, Catch(d) PROVE JudgedInv'
  <2>1. "fail" \in Step
    BY DEF Step
  <2> QED BY <1>2, <1>8, <2>1 DEF Catch, tables
<1>9. ASSUME NEW d \in Deliverers, NEW m \in topic, Deliver(d, m) PROVE JudgedInv'
  <2> DEFINE s == [IdleDelivery EXCEPT !.of = {m}, !.pc = IF m \in Asked THEN "read" ELSE "notify"]
  <2>1. delivery' = [delivery EXCEPT ![d] = s] /\ invoices' = invoices
    BY <1>9 DEF Deliver, tables
  <2>2. s \in DeliveryState /\ s.pc \in {"read", "notify"} /\ s.invoice = 0
    BY <1>0, IdleDeliveryTyped DEF IdleDelivery, DeliveryState, Step, NoInvoice
  <2>3. Quiet(s)
    BY <1>0, <2>2 DEF Quiet
  <2> QED BY <1>1, <2>1, <2>3
<1>10. ASSUME NEW d \in Deliverers, NEW u \in Uploads, ExtractionStep(d, u) PROVE JudgedInv'
  <2> USE DEF Step
  <2>1. CASE ReadUpload(d, u)
    BY <1>2, <2>1 DEF ReadUpload, tables
  <2>2. CASE MarkExtracting(d, u)
    BY <1>2, <2>2 DEF MarkExtracting
  <2>3. ASSUME NEW v \in Vendors, Extract(d, u, v) PROVE JudgedInv'
    <3> DEFINE s == [delivery[d] EXCEPT !.pc = "persist", !.vendor = {v}]
    <3>1. s \in DeliveryState /\ s.pc = "persist" /\ s.invoice = delivery[d].invoice
      BY <1>0 DEF DeliveryState
    <3>2. delivery' = [delivery EXCEPT ![d] = s] /\ invoices' = invoices
      BY <1>0, <2>3 DEF Extract
    <3>3. Quiet(s)
      BY <1>0, <3>1 DEF Quiet, DeliveriesTyped
    <3> QED BY <1>1, <3>2, <3>3
  <2>4. CASE PersistInvoice(d, u)
    BY <1>0, <2>4, PersistKeeps
  <2>5. CASE LinkInvoice(d, u)
    BY <1>2, <2>5 DEF LinkInvoice, Doing
  <2>6. CASE JudgeInvoice(d, u)
    BY <1>0, <2>6, JudgeKeeps
  <2>7. CASE SetInvoiceStatus(d, u)
    BY <1>0, <2>7, SetStatusKeeps
  <2>8. CASE PublishNotifications(d, u)
    BY <1>2, <2>8 DEF PublishNotifications, tables
  <2>9. CASE FailUpload(d, u)
    BY <1>2, <2>9 DEF FailUpload
  <2> QED BY <1>10, <2>1, <2>2, <2>3, <2>4, <2>5, <2>6, <2>7, <2>8, <2>9 DEF ExtractionStep
<1>11. ASSUME NEW d \in Deliverers, NEW e \in Exports, ExportStep(d, e) PROVE JudgedInv'
  <2>1. invoices' = invoices
    BY <1>11 DEF ExportStep, ReadExport, MarkExporting, UploadExport, CompleteExport, AuditExport,
                 FailExport, tables
  <2>2. PICK pc \in {"ack", "processing", "build", "complete", "audit"} : Proceed(d, pc)
    BY <1>11 DEF ExportStep, ReadExport, MarkExporting, UploadExport, CompleteExport, AuditExport,
                 FailExport
  <2> QED BY <1>2, <2>1, <2>2 DEF Step
<1>12. ASSUME NEW d \in Deliverers, Notify(d) PROVE JudgedInv'
  BY <1>2, <1>12 DEF Notify, tables, Step
<1>13. CASE UNCHANGED deliveryVars
  BY <1>4, <1>13 DEF deliveryVars
<1> QED
  BY <1>5, <1>6, <1>7, <1>8, <1>9, <1>10, <1>11, <1>12, <1>13 DEF DeliveryNext, HandlerStep

\* Of the invoices one document becomes for one vendor, at most one comes out
\* of the policy as anything but blocked, however deliveries interleave, die
\* and repeat (findDuplicateInvoice, called at api.ts:1544).
THEOREM DuplicatesAreCaught == DeliverySpec => []DuplicatesCaught
<1>1. JudgedInv => DuplicatesCaught
  BY DEF JudgedInv, OnePasses, Passes, Passing, Same, DuplicatesCaught
<1> QED BY <1>1, JudgedStarts, JudgedStep, PTL DEF DeliverySpec

\* The key of an export is written for an object that is there, by a delivery
\* that put it there.
Uploaded ==
    /\ export \in [Exports -> ExportRecord]
    /\ \A e \in Exports : export[e].key => e \in objects
    /\ \A d \in Deliverers, e \in Exports :
         delivery[d].pc = "complete" /\ delivery[d].of = {e} => e \in objects

LEMMA UploadedStarts == DeliveryInit => Uploaded
BY DEF DeliveryInit, Uploaded, ExportRecord, ExtractionStatus, IdleDelivery

\* A delivery that goes on to anything but the UPDATE of its export.
LEMMA Onwards ==
  ASSUME Uploaded, DeliveriesTyped, UNCHANGED <<export, objects>>, NEW d \in Deliverers,
         NEW s, s.pc # "complete", delivery' = [delivery EXCEPT ![d] = s]
  PROVE  Uploaded'
BY DEF Uploaded, DeliveriesTyped

LEMMA OnwardsTo ==
  ASSUME Uploaded, DeliveriesTyped, UNCHANGED <<export, objects>>, NEW d \in Deliverers,
         NEW pc, pc # "complete", Proceed(d, pc)
  PROVE  Uploaded'
<1> DEFINE s == [delivery[d] EXCEPT !.pc = pc]
<1>1. delivery' = [delivery EXCEPT ![d] = s] /\ s.pc = pc
  BY DEF Proceed, DeliveriesTyped, DeliveryState
<1> HIDE DEF s
<1> QED BY <1>1, Onwards

LEMMA ExportKeeps ==
  ASSUME Uploaded, DeliveriesTyped, NEW d \in Deliverers, NEW e \in Exports, ExportStep(d, e)
  PROVE  Uploaded'
<1>0. /\ delivery \in [Deliverers -> DeliveryState] /\ export \in [Exports -> ExportRecord]
      /\ export[e] \in ExportRecord /\ delivery[d] \in DeliveryState
  BY DEF DeliveriesTyped, Uploaded
<1>1. CASE ReadExport(d, e) \/ AuditExport(d, e)
  <2>1. PICK pc \in {"ack", "processing"} : Proceed(d, pc)
    BY <1>1 DEF ReadExport, AuditExport
  <2>2. UNCHANGED <<export, objects>>
    BY <1>1 DEF ReadExport, AuditExport, tables
  <2> QED BY <2>1, <2>2, OnwardsTo
<1>2. ASSUME NEW status \in ExtractionStatus, export' = [export EXCEPT ![e].status = status],
             NEW pc \in {"build", "ack"}, Proceed(d, pc), objects' = objects
      PROVE  Uploaded'
  <2>1. export' \in [Exports -> ExportRecord] /\ \A x \in Exports : export'[x].key = export[x].key
    BY <1>0, <1>2 DEF ExportRecord
  <2>2. delivery' = [delivery EXCEPT ![d].pc = pc]
    BY <1>2 DEF Proceed
  <2> QED BY <1>0, <1>2, <2>1, <2>2 DEF Uploaded, DeliveryState
<1>3. CASE MarkExporting(d, e)
  BY <1>2, <1>3 DEF MarkExporting, ExtractionStatus
<1>4. CASE FailExport(d, e)
  BY <1>2, <1>4 DEF FailExport, ExtractionStatus
<1>5. CASE UploadExport(d, e)
  <2>1. /\ export' = export /\ objects' = objects \cup {e} /\ delivery[d].of = {e}
        /\ delivery' = [delivery EXCEPT ![d].pc = "complete"]
    BY <1>5 DEF UploadExport, Stored, Proceed, Handles
  <2> QED BY <1>0, <2>1 DEF Uploaded, DeliveryState
<1>6. CASE CompleteExport(d, e)
  <2>1. /\ export' = [export EXCEPT ![e] = [status |-> "completed", key |-> TRUE]]
        /\ objects' = objects /\ delivery[d].of = {e} /\ delivery[d].pc = "complete"
        /\ delivery' = [delivery EXCEPT ![d].pc = "audit"]
    BY <1>6 DEF CompleteExport, Proceed, Handles, Doing
  <2>2. export' \in [Exports -> ExportRecord]
    BY <1>0, <2>1 DEF ExportRecord, ExtractionStatus
  <2>3. e \in objects
    BY <2>1 DEF Uploaded
  <2>4. \A x \in Exports \ {e} : export'[x] = export[x]
    BY <1>0, <2>1
  <2>5. \A x \in Exports : export'[x].key => x \in objects'
    BY <1>0, <2>1, <2>3, <2>4 DEF Uploaded
  <2>6. ASSUME NEW c \in Deliverers, NEW x \in Exports, delivery'[c].pc = "complete", delivery'[c].of = {x}
        PROVE  x \in objects'
    BY <1>0, <2>1, <2>6 DEF Uploaded, DeliveryState
  <2> QED BY <2>2, <2>5, <2>6 DEF Uploaded
<1> QED BY <1>1, <1>3, <1>4, <1>5, <1>6 DEF ExportStep

LEMMA UploadedStep == DeliveriesTyped /\ Uploaded /\ [DeliveryNext]_deliveryVars => Uploaded'
<1> SUFFICES ASSUME DeliveriesTyped, Uploaded, [DeliveryNext]_deliveryVars PROVE Uploaded'
  OBVIOUS
<1>1. ASSUME UNCHANGED <<export, objects, delivery>> PROVE Uploaded'
  BY <1>1 DEF Uploaded
<1>2. ASSUME NEW u \in Uploads, StoreUpload(u) \/ PublishUpload(u) PROVE Uploaded'
  BY <1>1, <1>2 DEF StoreUpload, PublishUpload
<1>3. ASSUME NEW e \in Exports, StoreExport(e) \/ PublishExport(e) PROVE Uploaded'
  <2>1. PICK status \in ExtractionStatus : export' = [export EXCEPT ![e].status = status]
    BY <1>3 DEF StoreExport, PublishExport, ExtractionStatus
  <2>2. UNCHANGED <<objects, delivery>>
    BY <1>3 DEF StoreExport, PublishExport
  <2> QED BY <2>1, <2>2 DEF Uploaded, ExportRecord
<1>4. ASSUME NEW d \in Deliverers, Reject(d) \/ Die(d) \/ Acknowledge(d) PROVE Uploaded'
  <2>1. delivery' = [delivery EXCEPT ![d] = IdleDelivery] /\ UNCHANGED <<export, objects>>
    BY <1>4 DEF Reject, Die, Acknowledge, tables
  <2> QED BY <2>1, Onwards DEF IdleDelivery
<1>5. ASSUME NEW d \in Deliverers, Catch(d) \/ Notify(d) PROVE Uploaded'
  <2>1. UNCHANGED <<export, objects>>
    BY <1>5 DEF Catch, Notify, tables
  <2>2. PICK pc \in {"fail", "ack"} : Proceed(d, pc)
    BY <1>5 DEF Catch, Notify
  <2> QED BY <2>1, <2>2, OnwardsTo
<1>6. ASSUME NEW d \in Deliverers, NEW m \in topic, Deliver(d, m) PROVE Uploaded'
  <2> DEFINE s == [IdleDelivery EXCEPT !.of = {m}, !.pc = IF m \in Asked THEN "read" ELSE "notify"]
  <2>1. s.pc # "complete"
    BY DEF IdleDelivery
  <2>2. delivery' = [delivery EXCEPT ![d] = s] /\ UNCHANGED <<export, objects>>
    BY <1>6 DEF Deliver, tables
  <2> HIDE DEF s
  <2> QED BY <2>1, <2>2, Onwards
<1>7. ASSUME NEW d \in Deliverers, NEW u \in Uploads, ExtractionStep(d, u) PROVE Uploaded'
  <2>1. UNCHANGED <<export, objects>>
    BY <1>7 DEF ExtractionStep, ReadUpload, MarkExtracting, Extract, PersistInvoice, LinkInvoice,
                JudgeInvoice, SetInvoiceStatus, PublishNotifications, FailUpload, tables
  <2>2. CASE \E pc \in Step \ {"complete"} : Proceed(d, pc)
    BY <2>1, <2>2, OnwardsTo
  <2>3. ReadUpload(d, u) \/ MarkExtracting(d, u) \/ LinkInvoice(d, u) \/ SetInvoiceStatus(d, u)
        \/ PublishNotifications(d, u) \/ FailUpload(d, u) => \E pc \in Step \ {"complete"} : Proceed(d, pc)
    BY DEF ReadUpload, MarkExtracting, LinkInvoice, SetInvoiceStatus, PublishNotifications, FailUpload, Step
  <2>4. ASSUME NEW s, s.pc # "complete", delivery' = [delivery EXCEPT ![d] = s] PROVE Uploaded'
    BY <2>1, <2>4, Onwards
  <2>5. delivery \in [Deliverers -> DeliveryState] /\ delivery[d] \in DeliveryState
    BY DEF DeliveriesTyped
  <2>6. ASSUME NEW v \in Vendors, Extract(d, u, v) PROVE Uploaded'
    <3> DEFINE s == [delivery[d] EXCEPT !.pc = "persist", !.vendor = {v}]
    <3>1. s.pc # "complete" /\ delivery' = [delivery EXCEPT ![d] = s]
      BY <2>5, <2>6 DEF Extract, DeliveryState
    <3> HIDE DEF s
    <3> QED BY <2>4, <3>1
  <2>7. CASE PersistInvoice(d, u)
    <3> DEFINE s == [delivery[d] EXCEPT !.pc = "link", !.invoice = Len(invoices) + 1]
    <3>1. s.pc # "complete" /\ delivery' = [delivery EXCEPT ![d] = s]
      BY <2>5, <2>7 DEF PersistInvoice, DeliveryState
    <3> HIDE DEF s
    <3> QED BY <2>4, <3>1
  <2>8. CASE JudgeInvoice(d, u)
    <3>1. PICK verdict : delivery' = [delivery EXCEPT ![d].pc = "status", ![d].verdict = verdict]
      BY <2>8 DEF JudgeInvoice
    <3> DEFINE s == [delivery[d] EXCEPT !.pc = "status", !.verdict = verdict]
    <3>2. s.pc # "complete" /\ delivery' = [delivery EXCEPT ![d] = s]
      BY <2>5, <3>1 DEF DeliveryState
    <3> HIDE DEF s
    <3> QED BY <2>4, <3>2
  <2> QED BY <1>7, <2>2, <2>3, <2>6, <2>7, <2>8 DEF ExtractionStep
<1>8. ASSUME NEW d \in Deliverers, NEW e \in Exports, ExportStep(d, e) PROVE Uploaded'
  BY <1>8, ExportKeeps
<1>9. CASE UNCHANGED deliveryVars
  BY <1>1, <1>9 DEF deliveryVars
<1> QED
  BY <1>2, <1>3, <1>4, <1>5, <1>6, <1>7, <1>8, <1>9 DEF DeliveryNext, HandlerStep

\* What is offered for download exists (api.ts:1634), although an export is
\* handled again after a crash and by two deliveries at the same time.
THEOREM DownloadsExist == DeliverySpec => []DownloadIsReal
<1>1. JudgedInv => DeliveriesTyped
  BY DEF JudgedInv
<1>2. Uploaded => DownloadIsReal
  BY DEF Uploaded, DownloadIsReal, Downloadable
<1> QED BY <1>1, <1>2, JudgedStarts, JudgedStep, UploadedStarts, UploadedStep, PTL DEF DeliverySpec
------------------------------------------------------------------------------
(***************************************************************************)
(* Types.  Beside the invariants above, what the type invariants still ask *)
(* for is inductive as it stands for the rescan and the purchases; for the *)
(* queues it needs to be known where the number of an invoice comes from.  *)
(***************************************************************************)

\* The order of the updates holds every attempt, in as many places.
OrderKept == updated \in [1..Cardinality(Transfers) -> Transfers] /\ ToSet(updated) = Transfers

ChainBounded ==
    /\ Len(block) <= MaxHeight /\ fork <= MaxReorgs
    /\ \A n \in DOMAIN block : block[n] <= MaxReorgs
    /\ orphaned \subseteq Transfers

RowsBounded ==
    /\ paid \in [Transfers -> RowStatus]
    /\ \A t \in Transfers : attempt[t].anchor \in Anchor

HandsBounded(s) == \A i \in s.todo \cup s.item : i.anchor \in Anchor

RescanShape ==
    /\ ChainBounded /\ RowsBounded /\ OrderKept
    /\ \A j \in Jobs : HandsBounded(job[j])
    /\ outages \in 0..MaxOutages

LEMMA NoAnchorTyped == NoAnchor \in Anchor /\ HandsBounded(IdleJob)
BY ReorgAssumption DEF NoAnchor, Anchor, HandsBounded, IdleJob

LEMMA OrderStarts == ReorgInit => OrderKept
<1> SUFFICES ASSUME ReorgInit PROVE OrderKept
  OBVIOUS
<1> DEFINE n == Cardinality(Transfers)
<1>1. n \in Nat /\ ExistsBijection(1..n, Transfers) /\ IsFiniteSet(Transfers)
  BY ReorgAssumption, FS_CardinalityType
<1>2. \E f \in [1..n -> Transfers] : IsInjective(f)
  BY <1>1 DEF ExistsBijection, Bijection, Injection
<1>3. updated \in [1..n -> Transfers] /\ IsInjective(updated)
  BY <1>2 DEF ReorgInit, SetToSeq
<1>4. updated \in Injection(1..n, Transfers)
  BY <1>3 DEF Injection
<1>5. IsFiniteSet(1..n) /\ Cardinality(1..n) = n
  BY <1>1, FS_Interval
<1>6. updated \in Surjection(1..n, Transfers)
  BY <1>1, <1>4, <1>5, FS_Injection
<1> QED BY <1>3, <1>6 DEF OrderKept, Surjection, ToSet

LEMMA RescanShapeStarts == ReorgInit => RescanShape
<1> SUFFICES ASSUME ReorgInit PROVE RescanShape
  OBVIOUS
<1>1. ChainBounded
  BY ReorgAssumption DEF ReorgInit, ChainBounded
<1>2. RowsBounded
  BY NoAnchorTyped DEF ReorgInit, RowsBounded, RowStatus
<1>3. \A j \in Jobs : HandsBounded(job[j])
  BY NoAnchorTyped DEF ReorgInit
<1>4. outages \in 0..MaxOutages
  BY ReorgAssumption DEF ReorgInit
<1> QED BY <1>1, <1>2, <1>3, <1>4, OrderStarts DEF RescanShape

LEMMA ChainStaysBounded ==
  ASSUME RescanInv, RescanShape, [ReorgNext]_reorgVars
  PROVE  ChainBounded'
<1>0. block \in Seq(Nat) /\ fork \in Nat /\ Len(block) \in Nat /\ DOMAIN block = 1..Len(block)
  BY DEF RescanInv, RescanTyped
<1>1. ASSUME NEW S \in SUBSET Transfers, Extend(S) PROVE ChainBounded'
  <2>1. block' = Append(block, fork) /\ fork' = fork /\ orphaned' = orphaned /\ Len(block) < MaxHeight
    BY <1>1 DEF Extend
  <2> QED BY <1>0, <2>1, ReorgAssumption DEF RescanShape, ChainBounded
<1>2. ASSUME NEW h \in DOMAIN block, NEW S \in SUBSET Transfers, Reorganize(h, S) PROVE ChainBounded'
  <2>1. /\ fork < MaxReorgs /\ fork' = fork + 1 /\ orphaned' \subseteq orphaned \cup Transfers
        /\ block' = [k \in 1..Len(block) |-> IF k < h THEN block[k] ELSE fork + 1]
    BY <1>0, <1>2 DEF Reorganize
  <2>2. Len(block') = Len(block) /\ DOMAIN block' = DOMAIN block
    BY <1>0, <2>1
  <2>3. fork' <= MaxReorgs
    BY <1>0, <2>1, ReorgAssumption
  <2>4. \A k \in DOMAIN block : block'[k] <= MaxReorgs
    BY <1>0, <2>1, <2>3 DEF RescanShape, ChainBounded
  <2> QED BY <2>1, <2>2, <2>3, <2>4 DEF RescanShape, ChainBounded
<1>3. ASSUME UNCHANGED chainVars PROVE ChainBounded'
  BY <1>3 DEF chainVars, RescanShape, ChainBounded
<1>4. ASSUME NEW j, RescanStep(j) \/ ScanUnavailable(j) PROVE UNCHANGED chainVars
  BY <1>4 DEF RescanStep, RescanStart, ScanBlock, MarkAttempt, RewindPayment, RescanMissing, NextMissing,
              AttachRead, AttachThrows, AttachWrite, ScanUnavailable
<1>5. ASSUME NEW j, CrashJob(j) PROVE UNCHANGED chainVars
  BY <1>5 DEF CrashJob
<1>6. ASSUME NEW t, SweepVerify(t) \/ HandlerConfirm(t) PROVE UNCHANGED chainVars
  BY <1>6 DEF SweepVerify, HandlerConfirm
<1>7. CASE SweepConfirm
  BY <1>3, <1>7 DEF SweepConfirm
<1>8. CASE AttachRead(Sweep) \/ AttachThrows(Sweep) \/ AttachWrite(Sweep)
  BY <1>3, <1>4, <1>8 DEF RescanStep
<1>9. CASE UNCHANGED reorgVars
  BY <1>3, <1>9 DEF reorgVars, chainVars
<1> QED BY <1>1, <1>2, <1>3, <1>4, <1>5, <1>6, <1>7, <1>8, <1>9 DEF ReorgNext

\* What was touched last comes last; nothing is lost from the order.
LEMMA OrderIsKept ==
  ASSUME OrderKept, NEW t \in Transfers
  PROVE  /\ Touched(t) \in [1..Cardinality(Transfers) -> Transfers]
         /\ ToSet(Touched(t)) = Transfers
<1>n. PICK n \in Nat : n = Cardinality(Transfers)
  BY ReorgAssumption, FS_CardinalityType
<1>1. updated \in [1..n -> Transfers] /\ updated \in Seq(Transfers) /\ Len(updated) = n /\ DOMAIN updated = 1..n
      /\ \A u \in Transfers : \E k \in 1..n : updated[k] = u
  BY <1>n DEF OrderKept, ToSet
<1>2. PICK p \in 1..n : p = PlaceOf(t) /\ updated[p] = t
  BY <1>1 DEF PlaceOf
<1> DEFINE front == SubSeq(updated, 1, p - 1)
           back == SubSeq(updated, p + 1, n)
           rest == front \o back
           order == Append(rest, t)
<1>p. p \in Nat /\ p >= 1 /\ p <= n /\ p - 1 \in Nat /\ p + 1 \in Nat /\ n - p \in Nat
  BY <1>1, <1>2
<1>3. /\ front \in Seq(Transfers) /\ Len(front) = p - 1 /\ \A k \in 1..(p - 1) : front[k] = updated[k]
  <2>1. front \in Seq(Transfers) /\ Len(front) = p - 1
    BY <1>1, <1>p
  <2>2. ASSUME NEW k \in 1..(p - 1) PROVE front[k] = updated[k]
    BY <1>1, <1>p, <2>1
  <2> QED BY <2>1, <2>2
<1>4. /\ back \in Seq(Transfers) /\ Len(back) = n - p /\ \A k \in 1..(n - p) : back[k] = updated[p + k]
  <2>1. back \in Seq(Transfers) /\ Len(back) = n - p
    BY <1>1, <1>p
  <2>2. ASSUME NEW k \in 1..(n - p) PROVE back[k] = updated[p + k]
    BY <1>1, <1>p, <2>1
  <2> QED BY <2>1, <2>2
<1> HIDE DEF front, back
<1>5. /\ rest \in Seq(Transfers) /\ Len(rest) = n - 1
      /\ \A k \in 1..(p - 1) : rest[k] = updated[k]
      /\ \A k \in 1..(n - p) : rest[p - 1 + k] = updated[p + k]
  <2>1. /\ rest \in Seq(Transfers) /\ Len(rest) = (p - 1) + (n - p)
        /\ \A k \in 1..((p - 1) + (n - p)) : rest[k] = IF k <= p - 1 THEN front[k] ELSE back[k - (p - 1)]
    BY <1>3, <1>4, ConcatProperties
  <2>2. (p - 1) + (n - p) = n - 1
    BY <1>p
  <2>3. ASSUME NEW k \in 1..(p - 1) PROVE rest[k] = updated[k]
    BY <1>p, <1>3, <2>1
  <2>4. ASSUME NEW k \in 1..(n - p) PROVE rest[p - 1 + k] = updated[p + k]
    <3>1. p - 1 + k \in 1..((p - 1) + (n - p)) /\ ~(p - 1 + k <= p - 1) /\ (p - 1 + k) - (p - 1) = k
      BY <1>p
    <3> QED BY <1>4, <2>1, <3>1
  <2> QED BY <2>1, <2>2, <2>3, <2>4
<1> HIDE DEF rest
<1>6. /\ order \in Seq(Transfers) /\ Len(order) = n /\ order[n] = t
      /\ \A k \in 1..(n - 1) : order[k] = rest[k]
  BY <1>1, <1>5
<1>7. Touched(t) = order
  BY <1>1, <1>2 DEF Touched, RemoveAt, front, back, rest
<1> HIDE DEF order
<1>8. order \in [1..n -> Transfers]
  BY <1>6
<1>9. ASSUME NEW u \in Transfers PROVE \E k \in 1..n : order[k] = u
  <2>1. PICK k \in 1..n : updated[k] = u
    BY <1>1
  <2>2. CASE k < p
    <3>1. k \in 1..(p - 1) /\ k \in 1..(n - 1)
      BY <1>p, <2>1, <2>2
    <3> QED BY <1>5, <1>6, <2>1, <3>1
  <2>3. CASE k = p
    BY <1>2, <1>6, <2>1, <2>3
  <2>4. CASE k > p
    <3>1. k - p \in 1..(n - p) /\ p - 1 + (k - p) = k - 1 /\ p + (k - p) = k /\ k - 1 \in 1..(n - 1)
      BY <1>2, <2>1, <2>4
    <3>2. order[k - 1] = u
      BY <1>5, <1>6, <2>1, <3>1
    <3> QED BY <1>n, <3>1, <3>2
  <2> QED BY <1>2, <2>1, <2>2, <2>3, <2>4
<1> QED BY <1>n, <1>7, <1>8, <1>9 DEF ToSet

\* The row a job holds when it comes to mark or to write.
LEMMA ItemBounded ==
  ASSUME RescanInv, RescanShape, NEW j \in Jobs, job[j].pc \in {"mark", "read", "write"}
  PROVE  ItemOf(j).transfer \in Transfers /\ ItemOf(j).anchor \in Anchor
<1>1. job[j] \in JobState /\ HandsTrue(job[j]) /\ HandsBounded(job[j])
  BY JobInHand DEF RescanShape
<1>2. ItemOf(j) \in job[j].item
  BY <1>1, JobInHand DEF HandsTrue
<1> QED BY <1>1, <1>2 DEF HandsBounded, JobState, Row

LEMMA RowsStayBounded ==
  ASSUME RescanInv, RescanShape, [ReorgNext]_reorgVars
  PROVE  RowsBounded'
<1>0. /\ RowsBounded /\ attempt \in [Transfers -> [status: {"SUBMITTED", "UNKNOWN"}, anchor: BlockRef]]
      /\ paid \in [Transfers -> RowStatus] /\ Rescans \subseteq Jobs /\ Sweep \in Jobs
  BY DEF RescanInv, RescanTyped, RescanShape, RowsBounded, Jobs
<1>1. ASSUME UNCHANGED <<paid, attempt>> PROVE RowsBounded'
  BY <1>0, <1>1 DEF RowsBounded
<1>2. ASSUME attempt' = attempt, NEW t, paid' = [paid EXCEPT ![t] = "confirmed"] PROVE RowsBounded'
  BY <1>0, <1>2 DEF RowsBounded, RowStatus
<1>3. ASSUME NEW j \in Jobs, MarkAttempt(j) PROVE RowsBounded'
  <2>1. PICK t : attempt' = [attempt EXCEPT ![t].status = "UNKNOWN"] /\ paid' = paid
    BY <1>3 DEF MarkAttempt
  <2>2. \A u \in Transfers : attempt'[u].anchor = attempt[u].anchor
    BY <1>0, <2>1
  <2> QED BY <1>0, <2>1, <2>2 DEF RowsBounded
<1>4. ASSUME NEW j \in Jobs, AttachWrite(j) PROVE RowsBounded'
  <2>1. PICK t, a : /\ t = ItemOf(j).transfer /\ a = ItemOf(j).anchor
                    /\ attempt' = [attempt EXCEPT ![t].anchor = a] /\ paid' = paid
    BY <1>4 DEF AttachWrite
  <2>a. a \in Anchor
    BY <1>4, <2>1, ItemBounded DEF AttachWrite
  <2>2. \A u \in Transfers : attempt'[u].anchor \in {a, attempt[u].anchor}
    BY <1>0, <2>1
  <2> QED BY <1>0, <2>1, <2>2, <2>a DEF RowsBounded
<1>5. ASSUME NEW j, \/ RescanStart(j) \/ ScanBlock(j) \/ ScanUnavailable(j) \/ RewindPayment(j)
                    \/ RescanMissing(j) \/ NextMissing(j) \/ AttachRead(j) \/ AttachThrows(j) \/ CrashJob(j)
      PROVE  UNCHANGED <<paid, attempt>>
  BY <1>5 DEF RescanStart, ScanBlock, RewindPayment, RescanMissing, NextMissing,
              AttachRead, AttachThrows, ScanUnavailable, CrashJob
<1>6. ASSUME NEW j \in Rescans, RescanStep(j) PROVE RowsBounded'
  BY <1>0, <1>1, <1>3, <1>4, <1>5, <1>6 DEF RescanStep
<1>7. ASSUME NEW t, SweepVerify(t) \/ HandlerConfirm(t) PROVE RowsBounded'
  BY <1>1, <1>2, <1>7 DEF SweepVerify, HandlerConfirm
<1>8. CASE SweepConfirm
  BY <1>2, <1>8 DEF SweepConfirm
<1>9. CASE UNCHANGED reorgVars
  BY <1>1, <1>9 DEF reorgVars
<1>10. ASSUME NEW S, Extend(S) PROVE RowsBounded'
  BY <1>1, <1>10 DEF Extend
<1>11. ASSUME NEW h, NEW S, Reorganize(h, S) PROVE RowsBounded'
  BY <1>1, <1>11 DEF Reorganize
<1> QED BY <1>0, <1>1, <1>4, <1>5, <1>6, <1>7, <1>8, <1>9, <1>10, <1>11 DEF ReorgNext

LEMMA OrderStaysKept ==
  ASSUME RescanInv, RescanShape, [ReorgNext]_reorgVars
  PROVE  OrderKept'
<1>0. OrderKept /\ Rescans \subseteq Jobs
  BY DEF RescanShape, Jobs
<1>1. ASSUME updated' = updated PROVE OrderKept'
  BY <1>0, <1>1 DEF OrderKept
<1>2. ASSUME NEW j \in Jobs, MarkAttempt(j) PROVE OrderKept'
  <2>1. PICK t \in Transfers : updated' = Touched(t)
    BY <1>2, ItemBounded DEF MarkAttempt
  <2> QED BY <1>0, <2>1, OrderIsKept DEF OrderKept
<1>3. ASSUME NEW j, \/ RescanStart(j) \/ ScanBlock(j) \/ ScanUnavailable(j) \/ RewindPayment(j)
                    \/ RescanMissing(j) \/ NextMissing(j) \/ AttachRead(j) \/ AttachThrows(j)
                    \/ AttachWrite(j) \/ CrashJob(j)
      PROVE  updated' = updated
  BY <1>3 DEF RescanStart, ScanBlock, RewindPayment, RescanMissing, NextMissing,
              AttachRead, AttachThrows, AttachWrite, ScanUnavailable, CrashJob
<1>4. ASSUME NEW t, SweepVerify(t) \/ HandlerConfirm(t) PROVE updated' = updated
  BY <1>4 DEF SweepVerify, HandlerConfirm
<1>5. CASE SweepConfirm \/ UNCHANGED reorgVars
  BY <1>1, <1>5 DEF SweepConfirm, reorgVars
<1>6. ASSUME NEW S, Extend(S) PROVE updated' = updated
  BY <1>6 DEF Extend
<1>7. ASSUME NEW h, NEW S, Reorganize(h, S) PROVE updated' = updated
  BY <1>7 DEF Reorganize
<1> QED BY <1>0, <1>1, <1>2, <1>3, <1>4, <1>5, <1>6, <1>7 DEF ReorgNext, RescanStep

\* The rows of the first query carry anchors of the table.
LEMMA AnchoredRowsBounded ==
  ASSUME RescanInv, RescanShape
  PROVE  \A i \in AnchoredRows : i.anchor \in Anchor
BY RowsSeen DEF Row, RescanShape, RowsBounded

LEMMA HandsStayBounded ==
  ASSUME RescanInv, RescanShape, [ReorgNext]_reorgVars, NEW i \in Jobs
  PROVE  HandsBounded(job'[i])
<1>0. /\ job \in [Jobs -> JobState] /\ Rescans \subseteq Jobs /\ Sweep \in Jobs
      /\ \A j \in Jobs : HandsBounded(job[j]) /\ job[j] \in JobState
  BY DEF RescanInv, RescanTyped, RescanShape, Jobs
<1>1. ASSUME job' = job PROVE HandsBounded(job'[i])
  BY <1>0, <1>1
<1>2. ASSUME NEW j \in Jobs, NEW s, HandsBounded(s), job' = [job EXCEPT ![j] = s] PROVE HandsBounded(job'[i])
  BY <1>0, <1>2
<1>3. ASSUME NEW j \in Jobs, End(j) PROVE HandsBounded(job'[i])
  BY <1>2, <1>3, NoAnchorTyped DEF End
<1>4. ASSUME NEW j \in Jobs, NEW pc, Go(j, pc) PROVE HandsBounded(job'[i])
  <2> DEFINE s == [job[j] EXCEPT !.pc = pc]
  <2>1. s.todo = job[j].todo /\ s.item = job[j].item /\ job' = [job EXCEPT ![j] = s]
    BY <1>0, <1>4 DEF Go, JobState
  <2>2. HandsBounded(s)
    BY <1>0, <2>1 DEF HandsBounded
  <2> HIDE DEF s
  <2> QED BY <1>2, <2>1, <2>2
<1>5. ASSUME NEW j \in Jobs, RescanStart(j) PROVE HandsBounded(job'[i])
  <2> DEFINE s == [IdleJob EXCEPT !.pc = "scan", !.todo = AnchoredRows]
  <2>1. s.todo = AnchoredRows /\ s.item = {}
    BY DEF IdleJob
  <2>2. HandsBounded(s) /\ job' = [job EXCEPT ![j] = s]
    BY <1>5, <2>1, AnchoredRowsBounded DEF HandsBounded, RescanStart
  <2> QED BY <1>2, <2>2
<1>6. ASSUME NEW j \in Jobs, NEW row \in job[j].todo, NEW s, s.todo = job[j].todo \ {row},
             s.item \in {job[j].item, {row}}, job' = [job EXCEPT ![j] = s]
      PROVE  HandsBounded(job'[i])
  <2>1. HandsBounded(s)
    BY <1>0, <1>6 DEF HandsBounded
  <2> QED BY <1>2, <1>6, <2>1
<1>7. ASSUME NEW j \in Jobs, ScanBlock(j) \/ ScanUnavailable(j) PROVE HandsBounded(job'[i])
  <2>1. PICK row \in job[j].todo :
          \/ job' = [job EXCEPT ![j].todo = @ \ {row}, ![j].item = {row}, ![j].pc = "mark"]
          \/ job' = [job EXCEPT ![j].todo = @ \ {row}]
    BY <1>7 DEF ScanBlock, ScanUnavailable
  <2>2. CASE job' = [job EXCEPT ![j].todo = @ \ {row}, ![j].item = {row}, ![j].pc = "mark"]
    <3> DEFINE s == [job[j] EXCEPT !.todo = @ \ {row}, !.item = {row}, !.pc = "mark"]
    <3>1. s.todo = job[j].todo \ {row} /\ s.item = {row} /\ job' = [job EXCEPT ![j] = s]
      BY <1>0, <2>2 DEF JobState
    <3> HIDE DEF s
    <3> QED BY <1>6, <3>1
  <2>3. CASE job' = [job EXCEPT ![j].todo = @ \ {row}]
    <3> DEFINE s == [job[j] EXCEPT !.todo = @ \ {row}]
    <3>1. s.todo = job[j].todo \ {row} /\ s.item = job[j].item /\ job' = [job EXCEPT ![j] = s]
      BY <1>0, <2>3 DEF JobState
    <3> HIDE DEF s
    <3> QED BY <1>6, <3>1
  <2> QED BY <2>1, <2>2, <2>3
<1>8. ASSUME NEW j \in Jobs, RescanMissing(j) PROVE HandsBounded(job'[i])
  <2> DEFINE s == [IdleJob EXCEPT !.pc = "missing", !.missing = {t \in Transfers : ~Anchored(t) /\ InScope(t)}]
  <2>1. s.todo = {} /\ s.item = {} /\ job' = [job EXCEPT ![j] = s]
    BY <1>8 DEF IdleJob, RescanMissing
  <2>2. HandsBounded(s)
    BY <2>1 DEF HandsBounded
  <2> HIDE DEF s
  <2> QED BY <1>2, <2>1, <2>2
<1>9. ASSUME NEW j \in Jobs, NextMissing(j) PROVE HandsBounded(job'[i])
  <2>1. CASE End(j)
    BY <1>3, <2>1
  <2>2. CASE ~End(j)
    <3>1. PICK t : job' = [job EXCEPT ![j].pc = "read", ![j].missing = @ \ {t},
                             ![j].item = {[transfer |-> t, anchor |-> NoAnchor, place |-> 0]}]
      BY <1>9, <2>2 DEF NextMissing
    <3> DEFINE row == [transfer |-> t, anchor |-> NoAnchor, place |-> 0]
               s == [job[j] EXCEPT !.pc = "read", !.missing = @ \ {t}, !.item = {row}]
    <3>2. row.anchor \in Anchor
      BY NoAnchorTyped
    <3>3. job' = [job EXCEPT ![j] = s] /\ s.todo = job[j].todo /\ s.item = {row}
      BY <1>0, <3>1 DEF JobState
    <3> HIDE DEF s, row
    <3>4. HandsBounded(s)
      BY <1>0, <3>2, <3>3 DEF HandsBounded
    <3> QED BY <1>2, <3>3, <3>4
  <2> QED BY <2>1, <2>2
<1>10. ASSUME NEW t \in Transfers, HasReceipt(t) PROVE ReceiptAnchor(t) \in Anchor
  <2>1. /\ mined[t] \in Nat /\ mined[t] # 0 /\ mined[t] <= Len(block) /\ block \in Seq(Nat)
        /\ Len(block) \in Nat /\ Len(block) <= MaxHeight /\ \A n \in DOMAIN block : block[n] <= MaxReorgs
    BY <1>10 DEF HasReceipt, RescanInv, RescanTyped, RescanShape, ChainBounded
  <2>2. mined[t] \in DOMAIN block /\ mined[t] \in 0..MaxHeight
    BY <2>1, ReorgAssumption
  <2>3. block[mined[t]] \in 0..MaxReorgs
    BY <2>1, <2>2, ReorgAssumption
  <2> QED BY <2>2, <2>3 DEF ReceiptAnchor, HashAt, Anchor
<1>11. ASSUME NEW j \in Jobs, AttachRead(j) PROVE HandsBounded(job'[i])
  <2> DEFINE filled(x) == [x EXCEPT !.anchor = ReceiptAnchor(x.transfer)]
             items == {filled(x) : x \in job[j].item}
             s == [job[j] EXCEPT !.pc = "write", !.item = items]
  <2>1. job[j].pc = "read" /\ HasReceipt(ItemOf(j).transfer) /\ job' = [job EXCEPT ![j] = s]
    BY <1>0, <1>11 DEF AttachRead
  <2>2. s.todo = job[j].todo /\ s.item = items
    BY <1>0 DEF JobState
  <2>3. ASSUME NEW x \in job[j].item PROVE filled(x).anchor \in Anchor
    <3>1. x \in Row /\ x = ItemOf(j)
      BY <1>0, JobInHand DEF JobState, HandsTrue
    <3>2. x.transfer \in Transfers /\ filled(x).anchor = ReceiptAnchor(x.transfer)
      BY <3>1 DEF Row
    <3> QED BY <1>10, <2>1, <3>1, <3>2
  <2>4. \A x \in items : x.anchor \in Anchor
    BY <2>3
  <2> HIDE DEF s, items
  <2>5. HandsBounded(s)
    BY <1>0, <2>2, <2>4 DEF HandsBounded
  <2> QED BY <1>2, <2>1, <2>5
<1>12. ASSUME NEW j \in Jobs, MarkAttempt(j) \/ AttachWrite(j) PROVE HandsBounded(job'[i])
  BY <1>4, <1>12 DEF MarkAttempt, AttachWrite
<1>13. ASSUME NEW j \in Jobs, RewindPayment(j) \/ CrashJob(j) \/ AttachThrows(j) PROVE HandsBounded(job'[i])
  BY <1>3, <1>4, <1>13 DEF RewindPayment, CrashJob, AttachThrows
<1>14. ASSUME NEW t \in Transfers, SweepVerify(t) PROVE HandsBounded(job'[i])
  <2> DEFINE row == [transfer |-> t, anchor |-> NoAnchor, place |-> 0]
             s == [IdleJob EXCEPT !.pc = "read", !.item = {row}]
  <2>1. row.anchor \in Anchor
    BY NoAnchorTyped
  <2>2. s.todo = {} /\ s.item = {row} /\ job' = [job EXCEPT ![Sweep] = s]
    BY <1>14 DEF SweepVerify, IdleJob
  <2> HIDE DEF s, row
  <2>3. HandsBounded(s)
    BY <2>1, <2>2 DEF HandsBounded
  <2> QED BY <1>0, <1>2, <2>2, <2>3
<1>15. CASE SweepConfirm
  BY <1>0, <1>3, <1>15 DEF SweepConfirm
<1>16. ASSUME NEW t, HandlerConfirm(t) PROVE job' = job
  BY <1>16 DEF HandlerConfirm
<1>17. ASSUME NEW S, Extend(S) PROVE job' = job
  BY <1>17 DEF Extend
<1>18. ASSUME NEW h, NEW S, Reorganize(h, S) PROVE job' = job
  BY <1>18 DEF Reorganize
<1>19. CASE UNCHANGED reorgVars
  BY <1>1, <1>19 DEF reorgVars
<1>20. ASSUME NEW j \in Rescans, RescanStep(j) \/ ScanUnavailable(j) PROVE HandsBounded(job'[i])
  BY <1>0, <1>5, <1>7, <1>8, <1>9, <1>11, <1>12, <1>13, <1>20 DEF RescanStep
<1>21. CASE AttachRead(Sweep) \/ AttachThrows(Sweep) \/ AttachWrite(Sweep)
  BY <1>0, <1>11, <1>12, <1>13, <1>21
<1> QED BY <1>1, <1>13, <1>14, <1>15, <1>16, <1>17, <1>18, <1>19, <1>20, <1>21 DEF ReorgNext

LEMMA OutagesBounded ==
  ASSUME RescanInv, RescanShape, [ReorgNext]_reorgVars
  PROVE  outages' \in 0..MaxOutages
<1>0. outages \in 0..MaxOutages /\ MaxOutages \in Nat
  BY ReorgAssumption DEF RescanShape
<1>1. ASSUME NEW j, \/ RescanStart(j) \/ ScanBlock(j) \/ ScanUnavailable(j) \/ RewindPayment(j)
                    \/ RescanMissing(j) \/ NextMissing(j) \/ AttachRead(j) \/ AttachThrows(j)
                    \/ AttachWrite(j) \/ MarkAttempt(j) \/ CrashJob(j)
      PROVE  outages' = outages \/ (outages > 0 /\ outages' = outages - 1)
  BY <1>1 DEF RescanStart, ScanBlock, RewindPayment, RescanMissing, NextMissing, AttachRead,
              AttachThrows, AttachWrite, MarkAttempt, ScanUnavailable, CrashJob
<1>2. ASSUME NEW t, SweepVerify(t) \/ HandlerConfirm(t) PROVE outages' = outages
  BY <1>2 DEF SweepVerify, HandlerConfirm
<1>3. ASSUME NEW S, Extend(S) PROVE outages' = outages
  BY <1>3 DEF Extend
<1>4. ASSUME NEW h, NEW S, Reorganize(h, S) PROVE outages' = outages
  BY <1>4 DEF Reorganize
<1>5. ASSUME SweepConfirm \/ UNCHANGED reorgVars PROVE outages' = outages
  BY <1>5 DEF SweepConfirm, reorgVars
<1>6. outages' = outages \/ (outages > 0 /\ outages' = outages - 1)
  BY <1>1, <1>2, <1>3, <1>4, <1>5 DEF ReorgNext, RescanStep
<1> QED BY <1>0, <1>6

LEMMA RescanShapeKept == RescanInv /\ RescanShape /\ [ReorgNext]_reorgVars => RescanShape'
<1> SUFFICES ASSUME RescanInv, RescanShape, [ReorgNext]_reorgVars PROVE RescanShape'
  OBVIOUS
<1>1. \A j \in Jobs : HandsBounded(job'[j])
  BY HandsStayBounded
<1>2. \A j \in Jobs : HandsBounded(job[j])'
  BY <1>1 DEF HandsBounded
<1> QED BY <1>2, ChainStaysBounded, RowsStayBounded, OrderStaysKept, OutagesBounded DEF RescanShape

LEMMA RescanTypes == RescanInv /\ RescanShape => ReorgTypeOK
<1> SUFFICES ASSUME RescanInv, RescanShape PROVE ReorgTypeOK
  OBVIOUS
<1>0. MaxReorgs \in Nat /\ MaxHeight \in Nat /\ Len(block) \in Nat
  BY ReorgAssumption DEF RescanInv, RescanTyped
<1>1. block \in Seq(0..MaxReorgs) /\ Len(block) <= MaxHeight
  <2>1. block \in Seq(Nat) /\ DOMAIN block = 1..Len(block)
    BY DEF RescanInv, RescanTyped
  <2>2. block \in [1..Len(block) -> 0..MaxReorgs]
    BY <1>0, <2>1 DEF RescanShape, ChainBounded
  <2>3. block \in Seq(0..MaxReorgs)
    BY <1>0, <2>2
  <2> QED BY <2>3 DEF RescanShape, ChainBounded
<1>2. fork \in 0..MaxReorgs /\ mined \in [Transfers -> 0..MaxHeight] /\ orphaned \subseteq Transfers
  <2>1. \A t \in Transfers : mined[t] \in 0..MaxHeight
    BY <1>0, <1>1 DEF RescanInv, RescanTyped
  <2> QED BY <1>0, <2>1 DEF RescanInv, RescanTyped, RescanShape, ChainBounded
<1>3. attempt \in [Transfers -> [status: {"SUBMITTED", "UNKNOWN"}, anchor: Anchor]]
  BY DEF RescanInv, RescanTyped, RescanShape, RowsBounded
<1>4. ToSet(updated) = Transfers /\ Len(updated) = Cardinality(Transfers)
  <2>1. Cardinality(Transfers) \in Nat
    BY ReorgAssumption, FS_CardinalityType
  <2> QED BY <2>1 DEF RescanShape, OrderKept
<1>5. ASSUME NEW j \in Jobs
      PROVE  /\ job[j].pc \in JobStep /\ job[j].todo \subseteq Item /\ job[j].missing \subseteq Transfers
             /\ job[j].item \subseteq Item /\ Cardinality(job[j].item) <= 1
  <2>1. job[j] \in JobState /\ HandsTrue(job[j]) /\ HandsBounded(job[j])
    BY JobInHand DEF RescanShape
  <2>2. ASSUME NEW x \in Row, x.anchor \in Anchor PROVE x \in Item
    BY <2>2 DEF Row, Item
  <2>3. Cardinality(job[j].item) <= 1
    BY <2>1, SingleCardinality DEF HandsTrue, Single
  <2> QED BY <2>1, <2>2, <2>3 DEF JobState, HandsBounded
<1> QED BY <1>1, <1>2, <1>3, <1>4, <1>5 DEF ReorgTypeOK, RescanShape, RowsBounded, JobStep

------------------------------------------------------------------------------
PurchaseShape ==
    /\ purchases \in [Keys -> PurchaseStatus]
    /\ fulfilments \subseteq Keys
    /\ stops \in 0..MaxStops

LEMMA PurchaseShapeStarts == PurchaseInit => PurchaseShape
BY PurchasesAssumption DEF PurchaseInit, PurchaseShape, PurchaseStatus

LEMMA PurchaseShapeKept ==
  WorkersTyped /\ FulfilInv /\ PurchaseShape /\ [PurchaseNext]_purchaseVars => PurchaseShape'
<1> SUFFICES ASSUME WorkersTyped, FulfilInv, PurchaseShape, [PurchaseNext]_purchaseVars PROVE PurchaseShape'
  OBVIOUS
<1>0. /\ purchases \in [Keys -> PurchaseStatus] /\ fulfilments \subseteq Keys
      /\ stops \in 0..MaxStops /\ MaxStops \in Nat /\ \A w \in Workers : KeyOf(w) \in Keys
      /\ Callers \subseteq Workers /\ Settlers \subseteq Workers
  BY PurchasesAssumption DEF PurchaseShape, WorkersTyped, WorkerState, KeyOf, Workers
<1>1. ASSUME NEW k, NEW status \in PurchaseStatus, purchases' = [purchases EXCEPT ![k] = status]
      PROVE  purchases' \in [Keys -> PurchaseStatus]
  BY <1>0, <1>1
<1>2. ASSUME NEW c \in Callers, NEW k, Begin(c, k) PROVE PurchaseShape'
  BY <1>2 DEF Begin, PurchaseShape
<1>3. ASSUME NEW c \in Callers, CallerStep(c) PROVE PurchaseShape'
  <2>1. UNCHANGED <<fulfilments, stops>>
    BY <1>3 DEF CallerStep, FindPurchase, InsertPurchase, EnqueueCreated, NextVersion, Supersede,
                InsertQuote, MarkQuoted, Prepare
  <2>2. \/ purchases' = purchases
        \/ \E status \in {"CREATED", "QUOTED"} : purchases' = [purchases EXCEPT ![KeyOf(c)] = status]
    BY <1>3 DEF CallerStep, FindPurchase, InsertPurchase, EnqueueCreated, NextVersion, Supersede,
                InsertQuote, MarkQuoted, Prepare
  <2> QED BY <1>0, <1>1, <2>1, <2>2 DEF PurchaseShape, PurchaseStatus
<1>4. ASSUME NEW k, Settle(k) PROVE PurchaseShape'
  BY <1>4 DEF Settle, PurchaseShape
<1>5. ASSUME NEW s \in Settlers, NEW k, BeginFulfilment(s, k) PROVE PurchaseShape'
  BY <1>5 DEF BeginFulfilment, PurchaseShape
<1>6. ASSUME NEW s \in Settlers, SettlerStep(s) PROVE PurchaseShape'
  <2>1. UNCHANGED stops
    BY <1>6 DEF SettlerStep, MarkPaid, FindFulfilment, InsertFulfilment, MarkFulfilled, EnqueueFulfilled
  <2>2. fulfilments' \in {fulfilments, fulfilments \cup {KeyOf(s)}}
    BY <1>6 DEF SettlerStep, MarkPaid, FindFulfilment, InsertFulfilment, MarkFulfilled, EnqueueFulfilled
  <2>3. CASE MarkPaid(s)
    <3>1. purchases' \in [Keys -> PurchaseStatus]
      BY <1>0, <2>3 DEF MarkPaid, PurchaseStatus
    <3> QED BY <1>0, <2>1, <2>2, <3>1 DEF PurchaseShape
  <2>4. CASE MarkFulfilled(s)
    <3>1. purchases' \in [Keys -> PurchaseStatus]
      BY <1>1, <2>4 DEF MarkFulfilled, PurchaseStatus
    <3> QED BY <1>0, <2>1, <2>2, <3>1 DEF PurchaseShape
  <2>5. CASE purchases' = purchases
    BY <1>0, <2>1, <2>2, <2>5 DEF PurchaseShape
  <2> QED BY <1>6, <2>3, <2>4, <2>5 DEF SettlerStep, FindFulfilment, InsertFulfilment, EnqueueFulfilled
<1>7. ASSUME NEW w, StopWorker(w) PROVE PurchaseShape'
  BY <1>0, <1>7 DEF StopWorker, PurchaseShape
<1>8. CASE PollOutbox \/ UNCHANGED purchaseVars
  BY <1>8 DEF PollOutbox, purchaseVars, PurchaseShape
<1> QED BY <1>2, <1>3, <1>4, <1>5, <1>6, <1>7, <1>8 DEF PurchaseNext

LEMMA PurchaseTypes == WorkersTyped /\ FulfilInv /\ PurchaseShape => PurchaseTypeOK
BY DEF WorkersTyped, WorkerState, FulfilInv, PurchaseShape, PurchaseTypeOK

------------------------------------------------------------------------------
\* Where the number of an invoice comes from: a message that is no upload and
\* no export is the number of an invoice that was inserted, in the topic and
\* in the hands of the delivery that notifies; who publishes one has its own.
NumbersReal == topic \subseteq Asked \cup DOMAIN invoices /\ sent \subseteq DOMAIN invoices

HandReal(s) ==
    /\ Single(s.of)
    /\ s.pc = "notify" => s.of \subseteq DOMAIN invoices
    /\ s.pc = "publish" => s.invoice # NoInvoice

TablesTyped ==
    /\ upload \in [Uploads -> UploadRecord] /\ \A u \in Uploads : upload[u].invoice <= Len(invoices)
    /\ objects \subseteq Exports
    /\ vendors \in [Vendors -> {"approved", "pending"}]

DeliveryShape ==
    /\ NumbersReal /\ TablesTyped
    /\ \A d \in Deliverers : HandReal(delivery[d])
    /\ troubles \in 0..MaxTroubles

LEMMA DeliveryShapeStarts == DeliveryInit => DeliveryShape
<1> SUFFICES ASSUME DeliveryInit PROVE DeliveryShape
  OBVIOUS
<1>1. TablesTyped
  BY DEF DeliveryInit, TablesTyped, UploadRecord, ExtractionStatus, NoInvoice
<1>2. NumbersReal /\ \A d \in Deliverers : HandReal(delivery[d])
  BY DEF DeliveryInit, NumbersReal, HandReal, IdleDelivery, Single
<1>3. troubles \in 0..MaxTroubles
  BY DeliveriesAssumption DEF DeliveryInit
<1> QED BY <1>1, <1>2, <1>3 DEF DeliveryShape

\* Invoices are only added.
LEMMA InvoicesGrow ==
  ASSUME DeliveriesTyped, [DeliveryNext]_deliveryVars
  PROVE  Len(invoices) \in Nat /\ Len(invoices') \in Nat /\ Len(invoices) <= Len(invoices')
         /\ DOMAIN invoices = 1..Len(invoices) /\ DOMAIN invoices' = 1..Len(invoices')
<1>0. invoices \in Seq(InvoiceRow) /\ Len(invoices) \in Nat /\ DOMAIN invoices = 1..Len(invoices)
  BY DEF DeliveriesTyped
<1>1. ASSUME NEW d, NEW u, PersistInvoice(d, u)
      PROVE  Len(invoices') = Len(invoices) + 1 /\ DOMAIN invoices' = 1..(Len(invoices) + 1)
  <2>1. PICK row : invoices' = Append(invoices, row)
    BY <1>1 DEF PersistInvoice
  <2> QED BY <1>0, <2>1
<1>2. ASSUME NEW d, NEW u, SetInvoiceStatus(d, u)
      PROVE  Len(invoices') = Len(invoices) /\ DOMAIN invoices' = 1..Len(invoices)
  <2>1. PICK n, status : invoices' = [invoices EXCEPT ![n].status = status]
    BY <1>2 DEF SetInvoiceStatus
  <2>2. DOMAIN invoices' = DOMAIN invoices /\ invoices' = [k \in 1..Len(invoices) |-> invoices'[k]]
    BY <1>0, <2>1
  <2> QED BY <1>0, <2>2
<1>3. ASSUME NEW d, NEW u, ExtractionStep(d, u), ~PersistInvoice(d, u), ~SetInvoiceStatus(d, u)
      PROVE  invoices' = invoices
  BY <1>3 DEF ExtractionStep, ReadUpload, MarkExtracting, Extract, LinkInvoice, JudgeInvoice,
              PublishNotifications, FailUpload, tables
<1>4. ASSUME NEW d, NEW e, ExportStep(d, e) PROVE invoices' = invoices
  BY <1>4 DEF ExportStep, ReadExport, MarkExporting, UploadExport, CompleteExport, AuditExport,
              FailExport, tables
<1>5. ASSUME NEW d, Notify(d) \/ Acknowledge(d) \/ Reject(d) \/ Catch(d) \/ Die(d) PROVE invoices' = invoices
  BY <1>5 DEF Notify, Acknowledge, Reject, Catch, Die, tables
<1>6. ASSUME NEW d, NEW m, Deliver(d, m) PROVE invoices' = invoices
  BY <1>6 DEF Deliver, tables
<1>7. ASSUME NEW x, StoreUpload(x) \/ PublishUpload(x) \/ StoreExport(x) \/ PublishExport(x)
      PROVE  invoices' = invoices
  BY <1>7 DEF StoreUpload, PublishUpload, StoreExport, PublishExport
<1>8. ASSUME UNCHANGED deliveryVars PROVE invoices' = invoices
  BY <1>8 DEF deliveryVars
<1>9. ASSUME invoices' = invoices
      PROVE  Len(invoices') = Len(invoices) /\ DOMAIN invoices' = 1..Len(invoices)
  BY <1>0, <1>9
<1>10. \/ Len(invoices') = Len(invoices) /\ DOMAIN invoices' = 1..Len(invoices)
       \/ Len(invoices') = Len(invoices) + 1 /\ DOMAIN invoices' = 1..(Len(invoices) + 1)
  BY <1>1, <1>2, <1>3, <1>4, <1>5, <1>6, <1>7, <1>8, <1>9 DEF DeliveryNext, HandlerStep
<1> QED BY <1>0, <1>10

LEMMA TablesStayTyped ==
  ASSUME DeliveriesTyped, DeliveryShape, [DeliveryNext]_deliveryVars
  PROVE  TablesTyped'
<1>0. /\ upload \in [Uploads -> UploadRecord] /\ objects \subseteq Exports
      /\ vendors \in [Vendors -> {"approved", "pending"}]
      /\ Len(invoices) \in Nat /\ Len(invoices') \in Nat /\ Len(invoices) <= Len(invoices')
      /\ \A u \in Uploads : upload[u].invoice \in Nat /\ upload[u].invoice <= Len(invoices')
  BY InvoicesGrow DEF DeliveryShape, TablesTyped, UploadRecord
<1>1. ASSUME UNCHANGED <<upload, objects, vendors>> PROVE TablesTyped'
  BY <1>0, <1>1 DEF TablesTyped
<1>2. ASSUME NEW u, NEW status \in ExtractionStatus, upload' = [upload EXCEPT ![u].status = status],
             UNCHANGED <<objects, vendors>>
      PROVE  TablesTyped'
  <2>1. upload' \in [Uploads -> UploadRecord] /\ \A x \in Uploads : upload'[x].invoice = upload[x].invoice
    BY <1>0, <1>2 DEF UploadRecord
  <2> QED BY <1>0, <1>2, <2>1 DEF TablesTyped
<1>3. ASSUME NEW u \in Uploads, StoreUpload(u) \/ PublishUpload(u) PROVE TablesTyped'
  <2>1. PICK status \in ExtractionStatus : upload' = [upload EXCEPT ![u].status = status]
    BY <1>3 DEF StoreUpload, PublishUpload, ExtractionStatus
  <2> QED BY <1>2, <1>3, <2>1 DEF StoreUpload, PublishUpload
<1>4. ASSUME NEW e \in Exports, StoreExport(e) \/ PublishExport(e) PROVE TablesTyped'
  BY <1>1, <1>4 DEF StoreExport, PublishExport
<1>5. ASSUME NEW d \in Deliverers, Notify(d) \/ Acknowledge(d) \/ Reject(d) \/ Catch(d) \/ Die(d)
      PROVE  TablesTyped'
  BY <1>1, <1>5 DEF Notify, Acknowledge, Reject, Catch, Die, tables
<1>6. ASSUME NEW d, NEW m, Deliver(d, m) PROVE TablesTyped'
  BY <1>1, <1>6 DEF Deliver, tables
<1>7. ASSUME NEW d \in Deliverers, NEW e \in Exports, ExportStep(d, e) PROVE TablesTyped'
  <2>1. UNCHANGED <<upload, vendors>> /\ objects' \in {objects, objects \cup {e}}
    BY <1>7 DEF ExportStep, ReadExport, MarkExporting, UploadExport, CompleteExport, AuditExport,
                FailExport, tables, Stored
  <2> QED BY <1>0, <2>1 DEF TablesTyped
<1>8. ASSUME NEW d \in Deliverers, NEW u \in Uploads, ExtractionStep(d, u) PROVE TablesTyped'
  <2>1. CASE MarkExtracting(d, u) \/ FailUpload(d, u)
    <3>1. PICK status \in ExtractionStatus : upload' = [upload EXCEPT ![u].status = status]
      BY <2>1 DEF MarkExtracting, FailUpload, ExtractionStatus
    <3> QED BY <1>2, <2>1, <3>1 DEF MarkExtracting, FailUpload
  <2>2. ASSUME NEW v \in Vendors, Extract(d, u, v) PROVE TablesTyped'
    <3>1. vendors' \in [Vendors -> {"approved", "pending"}] /\ UNCHANGED <<upload, objects>>
      BY <1>0, <2>2 DEF Extract, UpsertVendor
    <3> QED BY <1>0, <3>1 DEF TablesTyped
  <2>3. CASE LinkInvoice(d, u)
    <3>1. PICK n : n = delivery[d].invoice /\ upload' = [upload EXCEPT ![u] = [status |-> "completed", invoice |-> n]]
      BY <2>3 DEF LinkInvoice
    <3>2. n \in Nat /\ n <= Len(invoices') /\ UNCHANGED <<objects, vendors>>
      BY <1>0, <2>3, <3>1 DEF LinkInvoice, DeliveriesTyped, DeliveryState
    <3>3. [status |-> "completed", invoice |-> n] \in UploadRecord
      BY <3>2 DEF UploadRecord, ExtractionStatus
    <3>4. upload' \in [Uploads -> UploadRecord] /\ \A x \in Uploads : upload'[x].invoice <= Len(invoices')
      BY <1>0, <3>1, <3>2, <3>3
    <3> QED BY <1>0, <3>2, <3>4 DEF TablesTyped
  <2>4. CASE ReadUpload(d, u) \/ PersistInvoice(d, u) \/ JudgeInvoice(d, u) \/ SetInvoiceStatus(d, u)
             \/ PublishNotifications(d, u)
    BY <1>1, <2>4 DEF ReadUpload, PersistInvoice, JudgeInvoice, SetInvoiceStatus, PublishNotifications, tables
  <2> QED BY <1>8, <2>1, <2>2, <2>3, <2>4 DEF ExtractionStep
<1>9. CASE UNCHANGED deliveryVars
  BY <1>1, <1>9 DEF deliveryVars
<1> QED BY <1>3, <1>4, <1>5, <1>6, <1>7, <1>8, <1>9 DEF DeliveryNext, HandlerStep

LEMMA NumbersStayReal ==
  ASSUME DeliveriesTyped, DeliveryShape, [DeliveryNext]_deliveryVars
  PROVE  NumbersReal'
<1>0. /\ topic \subseteq Asked \cup DOMAIN invoices' /\ sent \subseteq DOMAIN invoices'
      /\ DOMAIN invoices \subseteq DOMAIN invoices' /\ DOMAIN invoices = 1..Len(invoices)
      /\ \A d \in Deliverers : HandReal(delivery[d])
  BY InvoicesGrow DEF DeliveryShape, NumbersReal
<1>1. ASSUME topic' \subseteq topic \cup Asked, sent' = sent PROVE NumbersReal'
  BY <1>0, <1>1 DEF NumbersReal
<1>2. ASSUME NEW u \in Uploads, StoreUpload(u) \/ PublishUpload(u) PROVE NumbersReal'
  BY <1>1, <1>2 DEF StoreUpload, PublishUpload, messages, Asked
<1>3. ASSUME NEW e \in Exports, StoreExport(e) \/ PublishExport(e) PROVE NumbersReal'
  BY <1>1, <1>3 DEF StoreExport, PublishExport, messages, Asked
<1>4. ASSUME NEW d, Acknowledge(d) \/ Reject(d) \/ Catch(d) \/ Die(d) PROVE NumbersReal'
  BY <1>1, <1>4 DEF Acknowledge, Reject, Catch, Die, messages
<1>5. ASSUME NEW d, NEW m, Deliver(d, m) PROVE NumbersReal'
  BY <1>1, <1>5 DEF Deliver, messages
<1>6. ASSUME NEW d \in Deliverers, Notify(d) PROVE NumbersReal'
  <2>1. sent' = sent \cup delivery[d].of /\ topic' = topic /\ delivery[d].pc = "notify"
    BY <1>6 DEF Notify, SendNotification, Doing
  <2>2. delivery[d].of \subseteq DOMAIN invoices
    BY <1>0, <2>1 DEF HandReal
  <2> QED BY <1>0, <2>1, <2>2 DEF NumbersReal
<1>7. ASSUME NEW d, NEW e, ExportStep(d, e) PROVE NumbersReal'
  BY <1>1, <1>7 DEF ExportStep, ReadExport, MarkExporting, UploadExport, CompleteExport, AuditExport,
                    FailExport, messages
<1>8. ASSUME NEW d \in Deliverers, NEW u, PublishNotifications(d, u) PROVE NumbersReal'
  <2>1. topic' = topic \cup {delivery[d].invoice} /\ sent' = sent /\ delivery[d].pc = "publish"
    BY <1>8 DEF PublishNotifications, Doing
  <2>2. delivery[d].invoice \in DOMAIN invoices
    <3>1. delivery[d].invoice \in Nat /\ delivery[d].invoice <= Len(invoices) /\ Len(invoices) \in Nat
      BY DEF DeliveriesTyped, DeliveryState
    <3>2. delivery[d].invoice # 0
      BY <1>0, <2>1 DEF HandReal, NoInvoice
    <3> QED BY <1>0, <3>1, <3>2
  <2> QED BY <1>0, <2>1, <2>2 DEF NumbersReal
<1>9. ASSUME NEW d, NEW u, ExtractionStep(d, u), ~PublishNotifications(d, u) PROVE NumbersReal'
  BY <1>1, <1>9 DEF ExtractionStep, ReadUpload, MarkExtracting, Extract, PersistInvoice, LinkInvoice,
                    JudgeInvoice, SetInvoiceStatus, FailUpload, messages
<1>10. CASE UNCHANGED deliveryVars
  BY <1>1, <1>10 DEF deliveryVars
<1> QED BY <1>2, <1>3, <1>4, <1>5, <1>6, <1>7, <1>8, <1>9, <1>10 DEF DeliveryNext, HandlerStep

LEMMA HandsStayReal ==
  ASSUME DeliveriesTyped, DeliveryShape, [DeliveryNext]_deliveryVars, NEW x \in Deliverers
  PROVE  HandReal(delivery'[x])
<1>0. /\ delivery \in [Deliverers -> DeliveryState] /\ \A d \in Deliverers : delivery[d] \in DeliveryState
      /\ \A d \in Deliverers : HandReal(delivery[d])
  BY DEF DeliveriesTyped, DeliveryShape
<1>1. ASSUME delivery' = delivery PROVE HandReal(delivery'[x])
  BY <1>0, <1>1
<1>2. ASSUME NEW d \in Deliverers, NEW s, HandReal(s), delivery' = [delivery EXCEPT ![d] = s]
      PROVE  HandReal(delivery'[x])
  BY <1>0, <1>2
<1>3. ASSUME NEW d \in Deliverers, delivery' = [delivery EXCEPT ![d] = IdleDelivery]
      PROVE  HandReal(delivery'[x])
  <2>1. HandReal(IdleDelivery)
    BY DEF HandReal, IdleDelivery, Single
  <2> QED BY <1>2, <1>3, <2>1
<1>4. ASSUME NEW d \in Deliverers, NEW s, s.of = delivery[d].of, s.pc # "notify",
             s.pc = "publish" => s.invoice # NoInvoice, delivery' = [delivery EXCEPT ![d] = s]
      PROVE  HandReal(delivery'[x])
  <2>1. HandReal(s)
    BY <1>0, <1>4 DEF HandReal
  <2> QED BY <1>2, <1>4, <2>1
<1>5. ASSUME NEW d \in Deliverers, NEW pc, Proceed(d, pc), pc # "notify",
             pc = "publish" => delivery[d].invoice # NoInvoice
      PROVE  HandReal(delivery'[x])
  <2> DEFINE s == [delivery[d] EXCEPT !.pc = pc]
  <2>1. s.of = delivery[d].of /\ s.pc = pc /\ s.invoice = delivery[d].invoice
    BY <1>0 DEF DeliveryState
  <2>2. delivery' = [delivery EXCEPT ![d] = s]
    BY <1>0, <1>5 DEF Proceed
  <2> HIDE DEF s
  <2> QED BY <1>4, <1>5, <2>1, <2>2
<1>6. ASSUME NEW d \in Deliverers, NEW m \in topic, Deliver(d, m) PROVE HandReal(delivery'[x])
  <2> DEFINE s == [IdleDelivery EXCEPT !.of = {m}, !.pc = IF m \in Asked THEN "read" ELSE "notify"]
  <2>1. s.of = {m} /\ s.pc = (IF m \in Asked THEN "read" ELSE "notify")
    BY DEF IdleDelivery
  <2>2. m \notin Asked => m \in DOMAIN invoices
    BY DEF DeliveryShape, NumbersReal
  <2>3. delivery' = [delivery EXCEPT ![d] = s]
    BY <1>6 DEF Deliver
  <2> HIDE DEF s
  <2>4. HandReal(s)
    BY <2>1, <2>2 DEF HandReal, Single
  <2> QED BY <1>2, <2>3, <2>4
<1>7. ASSUME NEW d \in Deliverers, Acknowledge(d) \/ Reject(d) \/ Die(d) PROVE HandReal(delivery'[x])
  BY <1>3, <1>7 DEF Acknowledge, Reject, Die
<1>8. ASSUME NEW d \in Deliverers, Notify(d) \/ Catch(d) PROVE HandReal(delivery'[x])
  BY <1>5, <1>8 DEF Notify, Catch
<1>9. ASSUME NEW d \in Deliverers, NEW e, ExportStep(d, e) PROVE HandReal(delivery'[x])
  <2>1. PICK pc \in {"ack", "processing", "build", "complete", "audit"} : Proceed(d, pc)
    BY <1>9 DEF ExportStep, ReadExport, MarkExporting, UploadExport, CompleteExport, AuditExport, FailExport
  <2> QED BY <1>5, <2>1
<1>10. ASSUME NEW d \in Deliverers, NEW u, ExtractionStep(d, u) PROVE HandReal(delivery'[x])
  <2>1. CASE ReadUpload(d, u) \/ MarkExtracting(d, u) \/ LinkInvoice(d, u) \/ PublishNotifications(d, u)
             \/ FailUpload(d, u)
    <3>1. PICK pc \in {"ack", "processing", "extract", "judge", "fail"} : Proceed(d, pc)
      BY <2>1 DEF ReadUpload, MarkExtracting, LinkInvoice, PublishNotifications, FailUpload
    <3> QED BY <1>5, <3>1
  <2>2. CASE SetInvoiceStatus(d, u)
    <3>1. delivery[d].invoice # NoInvoice /\ \E pc \in {"ack", "publish"} : Proceed(d, pc)
      BY <2>2 DEF SetInvoiceStatus, Doing, DeliveriesTyped
    <3> QED BY <1>5, <3>1
  <2>3. CASE \E v \in Vendors : Extract(d, u, v)
    <3>1. PICK v : delivery' = [delivery EXCEPT ![d].pc = "persist", ![d].vendor = {v}]
      BY <2>3 DEF Extract
    <3> DEFINE s == [delivery[d] EXCEPT !.pc = "persist", !.vendor = {v}]
    <3>2. s.of = delivery[d].of /\ s.pc = "persist" /\ delivery' = [delivery EXCEPT ![d] = s]
      BY <1>0, <3>1 DEF DeliveryState
    <3> HIDE DEF s
    <3> QED BY <1>4, <3>2
  <2>4. CASE PersistInvoice(d, u)
    <3>1. PICK n : delivery' = [delivery EXCEPT ![d].pc = "link", ![d].invoice = n]
      BY <2>4 DEF PersistInvoice
    <3> DEFINE s == [delivery[d] EXCEPT !.pc = "link", !.invoice = n]
    <3>2. s.of = delivery[d].of /\ s.pc = "link" /\ delivery' = [delivery EXCEPT ![d] = s]
      BY <1>0, <3>1 DEF DeliveryState
    <3> HIDE DEF s
    <3> QED BY <1>4, <3>2
  <2>5. CASE JudgeInvoice(d, u)
    <3>1. PICK verdict : delivery' = [delivery EXCEPT ![d].pc = "status", ![d].verdict = verdict]
      BY <2>5 DEF JudgeInvoice
    <3> DEFINE s == [delivery[d] EXCEPT !.pc = "status", !.verdict = verdict]
    <3>2. s.of = delivery[d].of /\ s.pc = "status" /\ delivery' = [delivery EXCEPT ![d] = s]
      BY <1>0, <3>1 DEF DeliveryState
    <3> HIDE DEF s
    <3> QED BY <1>4, <3>2
  <2> QED BY <1>10, <2>1, <2>2, <2>3, <2>4, <2>5 DEF ExtractionStep
<1>11. ASSUME NEW y, StoreUpload(y) \/ PublishUpload(y) \/ StoreExport(y) \/ PublishExport(y)
       PROVE  delivery' = delivery
  BY <1>11 DEF StoreUpload, PublishUpload, StoreExport, PublishExport
<1>12. CASE UNCHANGED deliveryVars
  BY <1>1, <1>12 DEF deliveryVars
<1> QED BY <1>1, <1>6, <1>7, <1>8, <1>9, <1>10, <1>11, <1>12 DEF DeliveryNext, HandlerStep

LEMMA TroublesBounded ==
  ASSUME DeliveryShape, [DeliveryNext]_deliveryVars
  PROVE  troubles' \in 0..MaxTroubles
<1>0. troubles \in 0..MaxTroubles /\ MaxTroubles \in Nat
  BY DeliveriesAssumption DEF DeliveryShape
<1> DEFINE Counted == troubles' = troubles \/ Trouble
<1>1. ASSUME NEW d, NEW u, ExtractionStep(d, u) PROVE Counted
  BY <1>1 DEF ExtractionStep, ReadUpload, MarkExtracting, Extract, PersistInvoice, LinkInvoice,
              JudgeInvoice, SetInvoiceStatus, PublishNotifications, FailUpload
<1>2. ASSUME NEW d, NEW e, ExportStep(d, e) PROVE Counted
  BY <1>2 DEF ExportStep, ReadExport, MarkExporting, UploadExport, CompleteExport, AuditExport, FailExport
<1>3. ASSUME NEW d, Notify(d) \/ Acknowledge(d) \/ Reject(d) \/ Catch(d) \/ Die(d) PROVE Counted
  BY <1>3 DEF Notify, Acknowledge, Reject, Catch, Die
<1>4. ASSUME NEW d, NEW m, Deliver(d, m) PROVE Counted
  BY <1>4 DEF Deliver
<1>5. ASSUME NEW y, StoreUpload(y) \/ PublishUpload(y) \/ StoreExport(y) \/ PublishExport(y) PROVE Counted
  BY <1>5 DEF StoreUpload, PublishUpload, StoreExport, PublishExport
<1>6. ASSUME UNCHANGED deliveryVars PROVE Counted
  BY <1>6 DEF deliveryVars
<1> HIDE DEF Counted
<1>7. Counted
  BY <1>1, <1>2, <1>3, <1>4, <1>5, <1>6 DEF DeliveryNext, HandlerStep
<1> QED BY <1>0, <1>7 DEF Counted, Trouble

LEMMA DeliveryShapeKept ==
  DeliveriesTyped /\ DeliveryShape /\ [DeliveryNext]_deliveryVars => DeliveryShape'
<1> SUFFICES ASSUME DeliveriesTyped, DeliveryShape, [DeliveryNext]_deliveryVars PROVE DeliveryShape'
  OBVIOUS
<1>1. DOMAIN invoices \subseteq DOMAIN invoices'
  BY InvoicesGrow
<1>2. \A d \in Deliverers : HandReal(delivery'[d])
  BY HandsStayReal
<1>3. \A d \in Deliverers : HandReal(delivery[d])'
  BY <1>1, <1>2 DEF HandReal
<1> QED BY <1>3, NumbersStayReal, TablesStayTyped, TroublesBounded DEF DeliveryShape

LEMMA DeliveryTypes == DeliveriesTyped /\ Uploaded /\ DeliveryShape => DeliveryTypeOK
<1> SUFFICES ASSUME DeliveriesTyped, Uploaded, DeliveryShape PROVE DeliveryTypeOK
  OBVIOUS
<1>1. invoices \in Seq([upload: Uploads, vendor: Vendors, status: InvoiceStatus]) /\ Len(invoices) \in Nat
  BY DEF DeliveriesTyped, InvoiceRow
<1>2. ASSUME NEW d \in Deliverers
      PROVE  /\ delivery[d].pc \in Step
             /\ delivery[d].of \subseteq Message /\ Cardinality(delivery[d].of) <= 1
             /\ delivery[d].vendor \subseteq Vendors
             /\ delivery[d].invoice \in 0..Len(invoices)
             /\ delivery[d].verdict \in InvoiceStatus
  <2>1. delivery[d] \in DeliveryState /\ delivery[d].invoice <= Len(invoices)
    BY DEF DeliveriesTyped
  <2>2. Cardinality(delivery[d].of) <= 1
    BY SingleCardinality DEF DeliveryShape, HandReal
  <2> QED BY <1>1, <2>1, <2>2 DEF DeliveryState
<1> QED BY <1>1, <1>2 DEF DeliveryTypeOK, DeliveriesTyped, Uploaded, DeliveryShape, NumbersReal, TablesTyped

------------------------------------------------------------------------------
LEMMA RescanTyping == ReorgInit /\ [][ReorgNext]_reorgVars => []ReorgTypeOK
BY RescanStarts, RescanKeeps, RescanShapeStarts, RescanShapeKept, RescanTypes, PTL

LEMMA PurchaseTyping == PurchaseInit /\ [][PurchaseNext]_purchaseVars => []PurchaseTypeOK
<1>1. QuotesInv => WorkersTyped
  BY DEF QuotesInv
<1> QED
  BY <1>1, QuotesStart, QuotesStep, FulfilStarts, FulfilStep, PurchaseShapeStarts, PurchaseShapeKept,
     PurchaseTypes, PTL

LEMMA DeliveryTyping == DeliveryInit /\ [][DeliveryNext]_deliveryVars => []DeliveryTypeOK
<1>1. JudgedInv => DeliveriesTyped
  BY DEF JudgedInv
<1> QED
  BY <1>1, JudgedStarts, JudgedStep, UploadedStarts, UploadedStep, DeliveryShapeStarts, DeliveryShapeKept,
     DeliveryTypes, PTL

\* One of the parts moves in a behaviour of MCBackground and the others stand
\* still, so that it is a behaviour of each of them, fairness aside.
LEMMA PartsKeepToThemselves ==
  Spec => /\ ReorgInit /\ [][ReorgNext]_reorgVars
          /\ PurchaseInit /\ [][PurchaseNext]_purchaseVars
          /\ DeliveryInit /\ [][DeliveryNext]_deliveryVars
<1>1. Init => ReorgInit /\ PurchaseInit /\ DeliveryInit
  BY DEF Init
<1>2. [Next]_<<part, reorgVars, purchaseVars, deliveryVars>> =>
        /\ [ReorgNext]_reorgVars /\ [PurchaseNext]_purchaseVars /\ [DeliveryNext]_deliveryVars
  BY DEF Next
<1> QED BY <1>1, <1>2, PTL DEF Spec

\* Every variable of the work behind the payment calls keeps its type, for
\* every size of every part: the order of the updates lists every attempt once
\* (reorgRescan.ts:41), a job holds one row at a time, a purchase's worker its
\* key, a delivery one message, and no notification goes out about an invoice
\* that was never inserted (api.ts:1560).
THEOREM BackgroundWellTyped == Spec => []BackgroundTypeOK
<1>1. ReorgTypeOK /\ PurchaseTypeOK /\ DeliveryTypeOK => BackgroundTypeOK
  BY DEF BackgroundTypeOK
<1> QED BY <1>1, RescanTyping, PurchaseTyping, DeliveryTyping, PartsKeepToThemselves, PTL
================================================================================
