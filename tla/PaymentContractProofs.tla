------------------------ MODULE PaymentContractProofs ------------------------
(***************************************************************************)
(* Theorems about a guarded system that hears back what it asked for: no   *)
(* accepted transfer's answer is lost and no database call throws.  Then a *)
(* reservation stays while its transfer is on the chain, and the system    *)
(* keeps PaymentContract.                                                  *)
(***************************************************************************)
EXTENDS PaymentBudgetProofs

\* The guard is steady, and an accepted transfer is never taken for a refused one.
AnswersKept == SteadyGuard /\ "lost_response" \notin Faults /\ "store_fault" \notin Faults

\* Calls that hold a reservation nobody has resolved, and calls that have paid
\* nothing, or nothing yet.
Holding == {"claim", "reread", "attempt", "transfer", "record_submitted", "record_unknown",
            "record_rejected", "rescue_dropped", "mark_submitted"}
Unpaid == {"claim", "reread", "attempt", "transfer", "record_rejected", "mark_failed"}

\* A call without a hash in the row is the only one to resolve its reservation,
\* and it gives it back only when nothing was sent.
CallHolds(q) ==
    /\ req[q].tx = None \/ req[q].pc = "mark_submitted" => \A i \in Intents : row[i].tx # q
    /\ req[q].pc \in Holding => auth[q] = "reserved"
    /\ req[q].pc \in Unpaid => chain[q] = "none"
    /\ req[q].pc = "rescue" /\ req[q].tx = None => chain[q] = "none" /\ auth[q] = "reserved"
    /\ req[q].pc = "mark_failed" => auth[q] = "released"
    /\ auth[q] = "released" => chain[q] \in {"none", "reverted"}

HoldsTrue == \A q \in Requests : CallHolds(q)
-----------------------------------------------------------------------------
(* Reservations. *)

\* How a call gets to where it holds a reservation, has paid nothing, gives up
\* or knows a hash.
LEMMA HoldingFlow ==
  ASSUME AnswersKept, TypeOK, NEW q \in Requests, Moved(q)
  PROVE  /\ req'[q].pc \in Holding =>
              req[q].pc \in Holding \/ (GuardReserve(q) /\ auth'[q] = "reserved")
         /\ req'[q].pc \in Unpaid =>
              req[q].pc \in Unpaid \/ GuardReserve(q) \/ RescueRelease(q)
         /\ req'[q].pc = "mark_failed" => RescueRelease(q)
         /\ req'[q].pc = "rescue" =>
              req[q].pc \in {"record_rejected"} \cup (Hashed \ {"mark_submitted"})
         /\ req'[q].pc = "mark_submitted" => req[q].pc \in {"attempt", "record_submitted"}
         /\ req'[q].tx # req[q].tx => req'[q].pc = "mark_submitted"
<1> DEFINE To(label) == req'[q].pc = label /\ req'[q].tx = req[q].tx
<1> req \in [Requests -> RequestState] /\ req[q] \in RequestState
  BY DEF TypeOK
<1>0. ASSUME NEW label, Goto(q, label)
      PROVE  To(label)
  BY <1>0 DEF Goto, RequestState
<1> HIDE DEF To
<1> USE DEF Holding, Unpaid, Hashed
<1>1. CASE LookupKey(q) \/ LookupIntent(q) \/ GuardClaim(q)
  <2>1. /\ req[q].pc \in {"lookup_key", "lookup_intent", "guard_claim"}
        /\ \E label \in {"failed", "returned", "lookup_intent", "guard_claim",
                         "guard_reserve"} : To(label)
    BY <1>0, <1>1 DEF LookupKey, LookupIntent, GuardClaim, AnswersKept, SteadyGuard
  <2> QED
    BY <2>1 DEF To
<1>2. CASE GuardReserve(q)
  <2>1. To("failed") \/ (To("claim") /\ auth'[q] = "reserved")
    BY <1>0, <1>2 DEF GuardReserve, TypeOK
  <2> QED
    BY <1>2, <2>1 DEF To
<1>3. CASE Claim(q) \/ Reread(q)
  <2>1. req[q].pc \in {"claim", "reread"}
    BY <1>3 DEF Claim, Reread
  <2>2. To("attempt") \/ To("failed") \/ To("reread")
    BY <1>0, <1>3 DEF To, Claim, Reread, RequestState
  <2> QED
    BY <2>1, <2>2 DEF To
<1>4. CASE Attempt(q) \/ RecordSubmitted(q)
  <2>1. /\ req[q].pc \in {"attempt", "record_submitted"}
        /\ \/ req'[q].pc = "mark_submitted"
           \/ req[q].pc = "attempt" /\ To("transfer")
    BY <1>4 DEF To, Attempt, RecordSubmitted, RequestState
  <2> QED
    BY <2>1 DEF To
<1>5. CASE Transfer(q) \/ RecordRejected(q) \/ RecordUnknown(q) \/ MarkSubmitted(q)
  <2>1. \/ /\ req[q].pc = "transfer"
           /\ To("record_submitted") \/ To("record_rejected") \/ To("record_unknown")
        \/ req[q].pc = "record_rejected" /\ To("rescue")
        \/ req[q].pc = "record_unknown" /\ To("rescue_dropped")
        \/ req[q].pc = "mark_submitted" /\ To("verify")
    BY <1>0, <1>5 DEF Transfer, RecordRejected, RecordUnknown, MarkSubmitted
  <2> QED
    BY <2>1 DEF To
<1>6. CASE Verify(q)
  <2>1. /\ req[q].pc = "verify"
        /\ \/ \E v : req' = [req EXCEPT ![q].pc = AfterVerdict(v), ![q].verdict = v]
           \/ To("rescue")
    BY <1>0, <1>6 DEF Verify
  <2>2. ASSUME NEW v, req' = [req EXCEPT ![q].pc = AfterVerdict(v), ![q].verdict = v]
        PROVE  \E label \in {"commit", "mark_confirmed", "release_reverted",
                             "mark_unsettled"} : To(label)
    <3>1. AfterVerdict(v) \in {"commit", "mark_confirmed", "release_reverted", "mark_unsettled"}
      BY DEF AfterVerdict
    <3> QED
      BY <2>2, <3>1 DEF RequestState, To
  <2> QED
    BY <2>1, <2>2 DEF To
<1>7. CASE \/ ReleaseReverted(q) \/ MarkUnsettled(q) \/ Commit(q) \/ MarkConfirmed(q)
           \/ SettleInvoice(q) \/ Fulfil(q)
  <2>1. /\ req[q].pc \in {"release_reverted", "mark_unsettled", "commit", "mark_confirmed",
                          "settle_invoice", "fulfil"}
        /\ \E label \in {"mark_unsettled", "rescue", "mark_confirmed", "settle_invoice",
                         "fulfil", "returned"} : To(label)
    BY <1>0, <1>7 DEF ReleaseReverted, MarkUnsettled, Commit, MarkConfirmed, SettleInvoice, Fulfil
  <2> QED
    BY <2>1 DEF To
<1>8. CASE RescueDropped(q) \/ RescueBroadcast(q) \/ RescueRelease(q) \/ MarkFailed(q)
  <2>1. To("failed") \/ (RescueRelease(q) /\ To("mark_failed"))
    BY <1>0, <1>8 DEF RescueDropped, RescueBroadcast, RescueRelease, MarkFailed
  <2> QED
    BY <2>1 DEF To
<1>9. CASE StoreFault(q) \/ CrashRequest(q)
  <2>1. To("failed")
    BY <1>0, <1>9 DEF StoreFault, CrashRequest, Inject, AnswersKept
  <2> QED
    BY <2>1 DEF To
<1> QED
  BY <1>1, <1>2, <1>3, <1>4, <1>5, <1>6, <1>7, <1>8, <1>9 DEF Moved, RequestStep

\* A call that is bound to no execution has paid nothing.
LEMMA UnboundUnpaid ==
  ASSUME Truth, NEW q \in Requests, req[q].pc \in Unbound
  PROVE  chain[q] = "none"
<1>1. req[q].exec = None
  BY DEF Truth, GuardTrue, CallGuarded
<1>2. ASSUME NEW i \in Intents, row[i].execId = q
      PROVE  FALSE
  BY <1>1, <1>2, NoneAssumption DEF Truth, GuardTrue, RowGuarded
<1> QED
  BY <1>2 DEF Truth, IInv, ExecutionOwned

\* A transfer is put on the chain by its own call, which then knows of it.
LEMMA PayMoves ==
  ASSUME AnswersKept, Truth, [Next]_vars, NEW q \in Requests,
         chain[q] = "none", chain'[q] # "none"
  PROVE  /\ Transfer(q) /\ req[q].pc = "transfer"
         /\ req'[q].pc \in {"record_submitted", "record_unknown"}
<1> TypeOK /\ req \in [Requests -> RequestState]
  BY DEF Truth, IInv, TypeOK
<1>1. PICK p \in Requests : Transfer(p) /\ req[p].exec = q
  BY ChainMoves
<1>2. p = q
  BY <1>1, NoneAssumption DEF Truth, GuardTrue, CallGuarded
<1>3. ASSUME NEW label, Goto(q, label)
      PROVE  req'[q].pc = label
  BY <1>3 DEF Goto, RequestState
<1> QED
  BY <1>1, <1>2, <1>3 DEF Transfer, Inject, AnswersKept

\* A reservation whose hash no row has yet is resolved by its own call only.
LEMMA HeldMoves ==
  ASSUME AnswersKept, Truth, HoldsTrue, [Next]_vars, NEW q \in Requests,
         req[q].tx = None \/ req[q].pc = "mark_submitted"
  PROVE  auth'[q] = auth[q] \/ GuardReserve(q) \/ RescueRelease(q)
<1> TypeOK /\ IInv /\ OutcomesTrue
  BY DEF Truth, IInv
<1>1. ASSUME Commit(q) \/ ReleaseReverted(q)
      PROVE  FALSE
  BY <1>1 DEF Commit, ReleaseReverted, OutcomesTrue, CallTrue, Hashed
<1>2. ASSUME NEW s \in Sweeps, SweepCommit(s) \/ SweepRelease(s), SeenRow(s).guardAuth = q
      PROVE  FALSE
  <2>1. Todo(s) # {}
    BY <1>2 DEF SweepCommit, SweepRelease, IInv, SweepHasWork
  <2>2. SeenRow(s).tx = q /\ SeenRow(s) = sweep[s].seen[Current(s)]
    BY <1>2, <2>1, SeenAuth DEF SeenRow
  <2>3. Current(s) \in Intents /\ Current(s) \in Todo(s)
    BY <2>1, SeenHash
  <2>4. row[Current(s)].tx = q
    BY <2>2, <2>3 DEF OutcomesTrue, SeenTrue
  <2> QED
    BY <2>3, <2>4 DEF HoldsTrue, CallHolds
<1> QED
  BY <1>1, <1>2, AuthMoves

LEMMA HoldsStep ==
  ASSUME AnswersKept, Truth, HoldsTrue, [Next]_vars
  PROVE  HoldsTrue'
<1> SUFFICES ASSUME NEW q \in Requests PROVE CallHolds(q)'
  BY DEF HoldsTrue
<1> /\ TypeOK /\ IInv /\ OutcomesTrue /\ SteadyGuard /\ CallHolds(q) /\ CallTrue(q)
    /\ auth \in [Requests -> {"none", "reserved", "committed", "released"}]
  BY DEF Truth, IInv, TypeOK, HoldsTrue, OutcomesTrue, AnswersKept
<1>0. \/ Moved(q)
      \/ req'[q] = req[q]
      \/ req[q].pc = "idle" /\ req'[q].pc = "lookup_key" /\ req'[q].tx = req[q].tx
  BY CallMoves
<1>1. ASSUME req'[q].tx = None \/ req'[q].pc = "mark_submitted", NEW i \in Intents
      PROVE  row'[i].tx # q
  <2>1. req[q].tx = None \/ (req[q].pc = "mark_submitted" /\ req'[q] = req[q])
    BY <1>0, <1>1, HoldingFlow DEF CallTrue, Hashed
  <2>2. CASE row'[i].tx = row[i].tx
    BY <2>1, <2>2 DEF CallHolds
  <2>3. ASSUME row'[i].tx # row[i].tx, row'[i].tx = q
        PROVE  FALSE
    <3>1. PICK p \in Requests :
             /\ req[p].pc \in {"mark_submitted", "mark_confirmed", "rescue"}
             /\ req[p].pc = "rescue" => req[p].tx # None
             /\ req[p].intent = i /\ row'[i].tx = req[p].tx
             /\ req'[p].tx = req[p].tx /\ req'[p].pc # "mark_submitted"
      BY <2>3, HashMoves
    <3>2. req[p].tx # None \/ req[p].pc \in Hashed
      BY <3>1 DEF Hashed
    <3>3. req[p].tx \in Requests /\ req[p].tx = req[p].exec
      BY <3>2, HashKnown
    <3>4. p = q
      BY <2>3, <3>1, <3>3, NoneAssumption DEF Truth, GuardTrue, CallGuarded
    <3> QED
      BY <1>1, <3>1, <3>3, <3>4, NoneAssumption
  <2> QED
    BY <2>2, <2>3
<1>2. ASSUME req'[q].pc \in Holding
      PROVE  auth'[q] = "reserved"
  <2>1. CASE GuardReserve(q) /\ auth'[q] = "reserved"
    BY <2>1
  <2>2. CASE req[q].pc \in Holding
    <3>1. req[q].tx = None \/ req[q].pc = "mark_submitted"
      BY <2>2 DEF CallTrue, Holding, Hashed
    <3>2. auth'[q] = auth[q]
      BY <2>2, <3>1, HeldMoves DEF GuardReserve, RescueRelease, Holding
    <3> QED
      BY <2>2, <3>2 DEF CallHolds
  <2> QED
    BY <1>0, <1>2, <2>1, <2>2, HoldingFlow DEF Holding
<1>3. ASSUME req'[q].pc \in Unpaid
      PROVE  chain'[q] = "none"
  <2>1. req[q].pc \in Unpaid \/ GuardReserve(q) \/ RescueRelease(q)
    BY <1>0, <1>3, HoldingFlow DEF Unpaid
  <2>2. GuardReserve(q) => chain[q] = "none"
    BY UnboundUnpaid DEF GuardReserve, Unbound, Early
  <2>3. RescueRelease(q) => chain[q] = "none"
    BY DEF RescueRelease, Broadcast, CallHolds
  <2>4. chain[q] = "none"
    BY <2>1, <2>2, <2>3 DEF CallHolds
  <2> QED
    BY <1>3, <2>4, PayMoves DEF Unpaid
<1>4. ASSUME req'[q].pc = "rescue", req'[q].tx = None
      PROVE  chain'[q] = "none" /\ auth'[q] = "reserved"
  <2>1. req[q].tx = None
    BY <1>0, <1>4, HoldingFlow
  <2>2. \/ req'[q] = req[q]
        \/ Moved(q) /\ req[q].pc = "record_rejected"
    BY <1>0, <1>4, <2>1, HoldingFlow DEF CallTrue
  <2>3. chain[q] = "none" /\ auth[q] = "reserved"
    BY <1>4, <2>2 DEF CallHolds, Holding, Unpaid
  <2>4. chain'[q] = "none"
    BY <1>4, <2>3, PayMoves
  <2>5. auth'[q] = auth[q]
    <3>1. CASE req'[q] = req[q]
      <4>1. ~GuardReserve(q)
        BY <1>4, <3>1 DEF GuardReserve
      <4>2. ~RescueRelease(q)
        BY <1>4, <3>1 DEF RescueRelease, Goto, TypeOK, RequestState
      <4> QED
        BY <2>1, <4>1, <4>2, HeldMoves
    <3>2. CASE req[q].pc = "record_rejected"
      BY <2>1, <3>2, HeldMoves DEF GuardReserve, RescueRelease
    <3> QED
      BY <2>2, <3>1, <3>2
  <2> QED
    BY <2>3, <2>4, <2>5
<1>5. ASSUME req'[q].pc = "mark_failed"
      PROVE  auth'[q] = "released"
  <2>1. CASE RescueRelease(q)
    <3>1. auth[q] = "reserved" /\ auth' = Released(q)
      BY <2>1 DEF RescueRelease, Broadcast, CallHolds
    <3> QED
      BY <3>1 DEF Released
  <2>2. CASE req'[q] = req[q]
    BY <1>5, <2>2, AuthDurable DEF CallHolds
  <2> QED
    BY <1>0, <1>5, <2>1, <2>2, HoldingFlow
<1>6. ASSUME auth'[q] = "released"
      PROVE  chain'[q] \in {"none", "reverted"}
  <2>1. CASE auth[q] = "released"
    <3>1. req[q].pc # "transfer"
      BY <2>1 DEF CallHolds, Holding
    <3> QED
      BY <2>1, <3>1, PayMoves, Durable DEF CallHolds
  <2>2. CASE ReleaseReverted(q)
    <3>1. req[q].pc = "release_reverted"
      BY <2>2 DEF ReleaseReverted
    <3>2. req[q].tx \in Requests /\ req[q].tx = req[q].exec /\ chain[req[q].tx] = "reverted"
      BY <3>1, HashKnown DEF CallTrue, Hashed
    <3>3. req[q].exec = q
      BY <3>2, NoneAssumption DEF Truth, GuardTrue, CallGuarded
    <3> QED
      BY <3>2, <3>3, Durable
  <2>3. CASE RescueRelease(q)
    <3>1. chain[q] = "none" /\ req[q].pc = "rescue"
      BY <2>3 DEF RescueRelease, Broadcast, CallHolds
    <3> QED
      BY <3>1, PayMoves
  <2>4. ASSUME NEW s \in Sweeps, SweepRelease(s), SeenRow(s).guardAuth = q
        PROVE  chain'[q] = "reverted"
    <3>1. Todo(s) # {} /\ chain[SeenRow(s).tx] = "reverted"
      BY <2>4 DEF SweepRelease, IInv, SweepHasWork, OutcomesTrue, SweepTrue
    <3>2. SeenRow(s).tx = q
      BY <2>4, <3>1, SeenAuth
    <3> QED
      BY <3>1, <3>2, Durable
  <2> QED
    BY <1>6, <2>1, <2>2, <2>3, <2>4, AuthMoves
<1> QED
  BY <1>1, <1>2, <1>3, <1>4, <1>5, <1>6 DEF CallHolds

LEMMA InitHolds == Init => HoldsTrue
<1> SUFFICES ASSUME Init, NEW q \in Requests PROVE CallHolds(q)
  BY DEF HoldsTrue
<1>1. \A i \in Intents : row[i].tx # q
  BY NoneAssumption DEF Init, NewRow
<1> QED
  BY <1>1 DEF Init, CallHolds, Holding, Unpaid

LEMMA HoldsInvariant ==
  ASSUME AnswersKept
  PROVE  Spec => [](Truth /\ HoldsTrue)
<1> SteadyGuard
  BY DEF AnswersKept
<1>1. Init => HoldsTrue
  BY InitHolds
<1>2. Truth /\ HoldsTrue /\ [Next]_vars => HoldsTrue'
  BY HoldsStep
<1>3. Spec => []Truth
  BY TruthInvariant
<1> QED
  BY <1>1, <1>2, <1>3, PTL DEF Spec

\* INV-001: while its transfer is on the chain and not reverted, an intent's
\* reservation is not released, whoever resolves it and whatever crashes.
THEOREM HeldWhileOnChain ==
  ASSUME AnswersKept
  PROVE  Spec => []NoReleaseWhileOnChain
<1>1. Truth /\ HoldsTrue => NoReleaseWhileOnChain
  <2> SUFFICES ASSUME Truth, HoldsTrue, NEW i \in Intents, row[i].guardAuth # None,
                      auth[row[i].guardAuth] = "released"
               PROVE  chain[row[i].execId] \in {"none", "reverted"}
    BY DEF NoReleaseWhileOnChain
  <2>1. row[i].guardAuth = row[i].execId /\ row[i].execId \in Requests \cup {None}
    BY DEF Truth, GuardTrue, RowGuarded, IInv, TypeOK, Row
  <2> QED
    BY <2>1 DEF HoldsTrue, CallHolds
<1> QED
  BY <1>1, HoldsInvariant, PTL
-----------------------------------------------------------------------------
(* What is recorded agrees with the chain and the budget. *)

\* Besides, the node always reports enough confirmations.
Reliable == AnswersKept /\ "lagging_rpc" \notin Faults

\* Calls that execute an intent whose row still says so.
Working == {"attempt", "transfer", "record_submitted", "record_rejected", "record_unknown",
            "rescue_dropped", "mark_submitted", "mark_failed"}

CallWorks(q) ==
    /\ req[q].pc \in Working => row[req[q].intent].status = "executing"
    /\ req[q].pc = "rescue" /\ req[q].tx = None => row[req[q].intent].status = "executing"
    /\ req[q].pc = "transfer" \/ chain[q] # "none" => attempt[q] # "none"
    /\ req[q].pc = "mark_unsettled" /\ req[q].verdict # "REVERTED" => chain[q] = "mismatch"

\* What a closed row says is so, of the chain and of the budget.
ClosedTrue(i) ==
    LET e == row[i].execId
    IN  /\ row[i].status \in {"confirmed", "reverted", "failed"} => e # None
        /\ row[i].status = "confirmed" => chain[e] = "success" /\ auth[e] = "committed"
        /\ row[i].status = "reverted" => chain[e] = "reverted" /\ auth[e] = "released"
        /\ row[i].status = "failed" => chain[e] = "none" /\ auth[e] = "released"

\* A sweep that will not close the row has seen a transfer that does not match.
SweepWorks(s) ==
    sweep[s].pc = "update" /\ sweep[s].verdict \notin {"CONFIRMED", "REVERTED"} =>
        chain[SeenRow(s).tx] = "mismatch"

WorksTrue ==
    /\ \A q \in Requests : CallWorks(q)
    /\ \A i \in Intents : ClosedTrue(i)
    /\ \A s \in Sweeps : SweepWorks(s)

Agreement == Truth /\ HoldsTrue /\ WorksTrue

\* A call past the claim works for its own execution, which its intent records.
LEMMA BoundToItself ==
  ASSUME Truth, NEW q \in Requests, req[q].pc \in Bound \/ req[q].exec # None
  PROVE  /\ req[q].exec = q /\ req[q].intent \in Intents
         /\ row[req[q].intent].execId = q /\ row[req[q].intent].guardAuth = q
<1>1. req[q].exec = q
  BY DEF Truth, IInv, ExecutionOwned, GuardTrue, CallGuarded
<1>2. req[q].intent \in Intents
  BY <1>1, NoneAssumption DEF Truth, IInv, Started
<1>3. row[req[q].intent].execId = q
  BY <1>1, NoneAssumption DEF Truth, IInv, ExecutionOwned
<1> QED
  BY <1>1, <1>2, <1>3 DEF Truth, GuardTrue, RowGuarded

\* The intent a row's execution was claimed for is that row's.
LEMMA OwnerOf ==
  ASSUME Truth, NEW i \in Intents, row[i].execId # None
  PROVE  /\ row[i].execId \in Requests /\ req[row[i].execId].intent = i
         /\ req[row[i].execId].exec = row[i].execId
         /\ row[i].guardAuth = row[i].execId /\ auth[row[i].execId] # "none"
BY DEF Truth, IInv, TypeOK, Row, ExecutionOwned, GuardTrue, RowGuarded

\* Who writes which status.
LEMMA StatusMoves ==
  ASSUME Truth, [Next]_vars, NEW i \in Intents, row'[i].status # row[i].status
  PROVE  \/ \E q \in Requests :
              /\ req[q].intent = i
              /\ \/ Claim(q) /\ row[i].status = "prepared" /\ row'[i].status = "executing"
                 \/ MarkSubmitted(q) /\ row'[i].status = "submitted"
                 \/ MarkUnsettled(q) /\ row'[i].status = StatusOf(req[q].verdict)
                 \/ MarkConfirmed(q) /\ row'[i].status = "confirmed"
                 \/ /\ RescueBroadcast(q) /\ row'[i].status = "unknown"
                    /\ row[i].status \in {"executing", "submitted"}
                 \/ /\ MarkFailed(q) /\ row'[i].status = "failed"
                    /\ row[i].status = "executing"
         \/ \E s \in Sweeps :
              /\ SweepUpdate(s) /\ Current(s) = i
              /\ row'[i].status = StatusOf(sweep[s].verdict)
<1> row \in [Intents -> Row] /\ row[i] \in Row
  BY DEF Truth, IInv, TypeOK
<1>1. ASSUME NEW q \in Requests, Claim(q)
      PROVE  req[q].intent = i /\ row[i].status = "prepared" /\ row'[i].status = "executing"
  BY <1>1 DEF Claim, Claimable, Correlated
<1>2. ASSUME NEW q \in Requests, MarkSubmitted(q)
      PROVE  req[q].intent = i /\ row'[i].status = "submitted"
  BY <1>2 DEF MarkSubmitted, Row
<1>3. ASSUME NEW q \in Requests, MarkUnsettled(q)
      PROVE  req[q].intent = i /\ row'[i].status = StatusOf(req[q].verdict)
  BY <1>3 DEF MarkUnsettled, Row
<1>4. ASSUME NEW q \in Requests, MarkConfirmed(q)
      PROVE  req[q].intent = i /\ row'[i].status = "confirmed"
  BY <1>4 DEF MarkConfirmed, Row
<1>5. ASSUME NEW q \in Requests, RescueBroadcast(q)
      PROVE  /\ req[q].intent = i /\ row'[i].status = "unknown"
             /\ row[i].status \in {"executing", "submitted"}
  BY <1>5 DEF RescueBroadcast, Row
<1>6. ASSUME NEW q \in Requests, MarkFailed(q)
      PROVE  req[q].intent = i /\ row'[i].status = "failed" /\ row[i].status = "executing"
  BY <1>6 DEF MarkFailed, Row
<1>7. ASSUME NEW q \in Requests, RescueDropped(q)
      PROVE  FALSE
  BY <1>7 DEF RescueDropped, Row
<1>8. ASSUME NEW s \in Sweeps, SweepUpdate(s)
      PROVE  Current(s) = i /\ row'[i].status = StatusOf(sweep[s].verdict)
  BY <1>8 DEF SweepUpdate, Row
<1> QED
  BY <1>1, <1>2, <1>3, <1>4, <1>5, <1>6, <1>7, <1>8, RowWriters

\* What the writer of a status knows.
LEMMA WriterKnows ==
  ASSUME Truth, HoldsTrue, WorksTrue, NEW q \in Requests
  PROVE  /\ MarkSubmitted(q) => row[req[q].intent].status = "executing"
         /\ MarkConfirmed(q) => chain[q] = "success" /\ auth[q] = "committed"
         /\ MarkUnsettled(q) =>
              \/ /\ req[q].verdict = "REVERTED" /\ StatusOf(req[q].verdict) = "reverted"
                 /\ chain[q] = "reverted" /\ auth[q] = "released"
              \/ /\ StatusOf(req[q].verdict) = "reconciliation_required"
                 /\ chain[q] = "mismatch"
         /\ MarkFailed(q) => chain[q] = "none" /\ auth[q] = "released"
<1> IInv /\ OutcomesTrue /\ CallTrue(q) /\ CallGuarded(q) /\ CallHolds(q) /\ CallWorks(q)
  BY DEF Truth, OutcomesTrue, GuardTrue, HoldsTrue, WorksTrue
<1>1. MarkSubmitted(q) => row[req[q].intent].status = "executing"
  BY DEF MarkSubmitted, CallWorks, Working
<1>2. ASSUME req[q].pc \in Hashed
      PROVE  req[q].tx = q
  BY <1>2, HashKnown, NoneAssumption DEF CallGuarded
<1>3. ASSUME MarkConfirmed(q)
      PROVE  chain[q] = "success" /\ auth[q] = "committed"
  BY <1>2, <1>3 DEF MarkConfirmed, Hashed, CallTrue, CallGuarded, Judged, Closing
<1>4. ASSUME MarkUnsettled(q)
      PROVE  \/ /\ req[q].verdict = "REVERTED" /\ StatusOf(req[q].verdict) = "reverted"
                /\ chain[q] = "reverted" /\ auth[q] = "released"
             \/ /\ StatusOf(req[q].verdict) = "reconciliation_required"
                /\ chain[q] = "mismatch"
  <2>1. req[q].pc = "mark_unsettled" /\ req[q].tx = q /\ req[q].verdict # "CONFIRMED"
    BY <1>2, <1>4 DEF MarkUnsettled, Hashed, CallTrue
  <2>2. CASE req[q].verdict = "REVERTED"
    <3>1. chain[q] = "reverted" /\ auth[q] = "released"
      BY <2>1, <2>2 DEF CallTrue, CallGuarded
    <3> QED
      BY <2>2, <3>1 DEF StatusOf
  <2>3. CASE req[q].verdict # "REVERTED"
    <3>1. chain[q] = "mismatch"
      BY <2>1, <2>3 DEF CallWorks
    <3> QED
      BY <2>1, <2>3, <3>1 DEF StatusOf
  <2> QED
    BY <2>2, <2>3
<1>5. MarkFailed(q) => chain[q] = "none" /\ auth[q] = "released"
  BY DEF MarkFailed, CallHolds, Unpaid
<1> QED
  BY <1>1, <1>3, <1>4, <1>5

LEMMA SweepKnows ==
  ASSUME Truth, HoldsTrue, WorksTrue, NEW s \in Sweeps, SweepUpdate(s)
  PROVE  LET e == row[Current(s)].execId
         IN  /\ Current(s) \in Intents /\ e \in Requests /\ e # None
             /\ row[Current(s)].tx = e
             /\ \/ /\ StatusOf(sweep[s].verdict) = "confirmed"
                   /\ chain[e] = "success" /\ auth[e] = "committed"
                \/ /\ StatusOf(sweep[s].verdict) = "reverted"
                   /\ chain[e] = "reverted" /\ auth[e] = "released"
                \/ /\ StatusOf(sweep[s].verdict) = "reconciliation_required"
                   /\ chain[e] = "mismatch"
<1> DEFINE e == row[Current(s)].execId
<1> IInv /\ OutcomesTrue /\ SweepTrue(s) /\ SweepGuarded(s) /\ SweepWorks(s)
  BY DEF Truth, OutcomesTrue, GuardTrue, WorksTrue
<1>1. Todo(s) # {} /\ sweep[s].pc = "update"
  BY DEF SweepUpdate, IInv, SweepHasWork
<1>2. /\ Current(s) \in Intents /\ SeenRow(s).tx = e /\ SeenRow(s).guardAuth = e
      /\ e \in Requests /\ row[Current(s)].tx = e
  BY <1>1, SeenHash, SeenAuth
<1>3. CASE sweep[s].verdict = "CONFIRMED"
  <2>1. chain[e] = "success" /\ auth[e] = "committed"
    BY <1>1, <1>2, <1>3 DEF SweepTrue, SweepGuarded
  <2> QED
    BY <1>2, <1>3, <2>1, NoneAssumption DEF StatusOf
<1>4. CASE sweep[s].verdict = "REVERTED"
  <2>1. chain[e] = "reverted" /\ auth[e] = "released"
    BY <1>1, <1>2, <1>4 DEF SweepTrue, SweepGuarded
  <2> QED
    BY <1>2, <1>4, <2>1, NoneAssumption DEF StatusOf
<1>5. CASE sweep[s].verdict \notin {"CONFIRMED", "REVERTED"}
  <2>1. chain[e] = "mismatch"
    BY <1>1, <1>2, <1>5 DEF SweepWorks
  <2> QED
    BY <1>2, <1>5, <2>1, NoneAssumption DEF StatusOf
<1> QED
  BY <1>3, <1>4, <1>5

\* A closed row is final: whoever writes it again writes what it says.
LEMMA ClosedStays ==
  ASSUME Truth, HoldsTrue, WorksTrue, [Next]_vars, NEW i \in Intents,
         row[i].status \in {"confirmed", "reverted", "failed"}
  PROVE  row'[i].status = row[i].status
<1> SUFFICES ASSUME row'[i].status # row[i].status PROVE FALSE
  OBVIOUS
<1> ClosedTrue(i)
  BY DEF WorksTrue
<1>1. ASSUME NEW q \in Requests, req[q].intent = i,
             MarkSubmitted(q) \/ MarkUnsettled(q) \/ MarkConfirmed(q)
      PROVE  row[i].execId = q
  BY <1>1, BoundToItself DEF MarkSubmitted, MarkUnsettled, MarkConfirmed, Bound
<1>2. ASSUME NEW q \in Requests, req[q].intent = i
      PROVE  /\ ~MarkSubmitted(q)
             /\ ~(MarkUnsettled(q) /\ row'[i].status = StatusOf(req[q].verdict))
             /\ ~(MarkConfirmed(q) /\ row'[i].status = "confirmed")
  BY <1>1, <1>2, WriterKnows DEF ClosedTrue
<1>3. ASSUME NEW s \in Sweeps, SweepUpdate(s), Current(s) = i,
             row'[i].status = StatusOf(sweep[s].verdict)
      PROVE  FALSE
  BY <1>3, SweepKnows DEF ClosedTrue
<1> QED
  BY <1>2, <1>3, StatusMoves

LEMMA ClosedStep ==
  ASSUME Reliable, Truth, HoldsTrue, WorksTrue, [Next]_vars, NEW i \in Intents
  PROVE  ClosedTrue(i)'
<1> /\ IInv /\ OutcomesTrue /\ AnswersKept /\ SteadyGuard /\ ClosedTrue(i)
  BY DEF Truth, Reliable, AnswersKept, WorksTrue
<1>1. ASSUME NEW e \in Requests, row'[i].execId = e,
             \/ row'[i].status = "confirmed" /\ chain[e] = "success" /\ auth[e] = "committed"
             \/ row'[i].status = "reverted" /\ chain[e] = "reverted" /\ auth[e] = "released"
             \/ row'[i].status = "failed" /\ chain'[e] = "none" /\ auth[e] = "released"
      PROVE  ClosedTrue(i)'
  BY <1>1, Durable, AuthDurable, NoneAssumption DEF ClosedTrue
<1>2. CASE row'[i].status \notin {"confirmed", "reverted", "failed"}
  BY <1>2 DEF ClosedTrue
<1>3. ASSUME row[i].status # "prepared", row[i].execId # None
      PROVE  row'[i].execId = row[i].execId /\ row[i].execId \in Requests
  BY <1>3, BindingMoves, OwnerOf
<1>4. CASE row[i].status \in {"confirmed", "reverted", "failed"}
  <2>1. row[i].execId # None /\ row'[i].status = row[i].status
    BY <1>4, ClosedStays DEF ClosedTrue
  <2>2. row[i].execId \in Requests /\ row'[i].execId = row[i].execId
    BY <1>3, <1>4, <2>1
  <2>3. ASSUME row[i].status = "failed"
        PROVE  chain'[row[i].execId] = "none"
    <3>1. chain[row[i].execId] = "none" /\ req[row[i].execId].intent = i
      BY <2>1, <2>3, OwnerOf DEF ClosedTrue
    <3>2. req[row[i].execId].pc # "transfer"
      BY <2>2, <2>3, <3>1 DEF WorksTrue, CallWorks, Working
    <3> QED
      BY <2>2, <3>1, <3>2, PayMoves
  <2> QED
    BY <1>1, <1>4, <2>1, <2>2, <2>3 DEF ClosedTrue
<1>5. ASSUME row'[i].status # row[i].status, NEW q \in Requests, req[q].intent = i,
             \/ MarkUnsettled(q) /\ row'[i].status = StatusOf(req[q].verdict)
             \/ MarkConfirmed(q) /\ row'[i].status = "confirmed"
             \/ /\ MarkFailed(q) /\ row'[i].status = "failed"
                /\ row[i].status = "executing"
             \/ MarkSubmitted(q) /\ row'[i].status = "submitted"
      PROVE  ClosedTrue(i)'
  <2>1. row[i].execId = q
    BY <1>5, BoundToItself DEF MarkUnsettled, MarkConfirmed, MarkFailed, MarkSubmitted, Bound
  <2>2. row'[i].execId = q
    BY <2>1, BindingMoves, NoneAssumption
  <2>3. ASSUME MarkFailed(q)
        PROVE  chain'[q] = "none"
    BY <2>3, WriterKnows, PayMoves DEF MarkFailed
  <2> QED
    BY <1>1, <1>2, <1>5, <2>2, <2>3, WriterKnows
<1>6. ASSUME NEW s \in Sweeps, SweepUpdate(s), Current(s) = i,
             row'[i].status = StatusOf(sweep[s].verdict)
      PROVE  ClosedTrue(i)'
  <2>1. row[i].execId \in Requests /\ row'[i].execId = row[i].execId
    BY <1>6, SweepKnows, BindingMoves
  <2> QED
    BY <1>1, <1>2, <1>6, <2>1, SweepKnows
<1>7. CASE row'[i].status = row[i].status
  BY <1>2, <1>4, <1>7
<1> QED
  BY <1>2, <1>5, <1>6, <1>7, StatusMoves

\* An attempt once made stays one.
LEMMA AttemptMoves ==
  ASSUME TypeOK, [Next]_vars, NEW e \in Requests, attempt[e] # "none"
  PROVE  attempt'[e] # "none"
<1> attempt \in [Requests -> AttemptStatus]
  BY DEF TypeOK
<1>1. ASSUME NEW q \in Requests, Attempt(q)
      PROVE  attempt'[e] # "none"
  BY <1>1 DEF Attempt, GetOrCreate, PrepareExecutionAttempt
<1>2. ASSUME NEW q \in Requests, RecordSubmitted(q) \/ RecordRejected(q) \/ RecordUnknown(q)
      PROVE  attempt'[e] # "none"
  <2>1. /\ attempt' = AfterBroadcast(q)
        /\ req[q].pc \in {"record_submitted", "record_unknown", "record_rejected"}
    BY <1>2 DEF RecordSubmitted, RecordRejected, RecordUnknown
  <2>2. StatusAfterBroadcast(req[q].pc) # "none"
    BY <2>1 DEF StatusAfterBroadcast
  <2> QED
    BY <2>1, <2>2 DEF AfterBroadcast
<1> QED
  BY <1>1, <1>2, AttemptWriters

\* How a call gets to work for an intent, to send its transfer, and to leave
\* it unsettled.
LEMMA WorkingFlow ==
  ASSUME Reliable, TypeOK, NEW q \in Requests, Moved(q)
  PROVE  /\ req'[q].pc \in Working =>
              req[q].pc \in Working \/ Claim(q) \/ Reread(q) \/ RescueRelease(q)
         /\ req'[q].pc = "transfer" => Attempt(q)
         /\ req'[q].pc = "mark_unsettled" => Verify(q) \/ ReleaseReverted(q)
         /\ MarkSubmitted(q) \/ MarkFailed(q) \/ MarkConfirmed(q) \/ RescueBroadcast(q) =>
              req'[q].pc \notin Working \cup {"rescue"}
         /\ MarkUnsettled(q) => req'[q].pc = "rescue" /\ req'[q].tx = req[q].tx
<1> DEFINE To(label) == req'[q].pc = label /\ req'[q].tx = req[q].tx
<1> req \in [Requests -> RequestState] /\ req[q] \in RequestState
  BY DEF TypeOK
<1>0. ASSUME NEW label, Goto(q, label)
      PROVE  To(label)
  BY <1>0 DEF Goto, RequestState
<1> HIDE DEF To
<1> USE DEF Working
<1>1. ASSUME LookupKey(q) \/ LookupIntent(q) \/ GuardClaim(q) \/ GuardReserve(q)
      PROVE  req'[q].pc \notin Working \cup {"transfer", "mark_unsettled"}
  <2>1. \E label \in {"failed", "returned", "lookup_intent", "guard_claim",
                      "guard_reserve", "claim"} : To(label)
    BY <1>0, <1>1 DEF LookupKey, LookupIntent, GuardClaim, GuardReserve
  <2> QED
    BY <2>1 DEF To
<1>2. ASSUME Claim(q) \/ Reread(q)
      PROVE  req'[q].pc \notin {"transfer", "mark_unsettled"}
  <2>1. To("attempt") \/ To("failed") \/ To("reread")
    BY <1>0, <1>2 DEF To, Claim, Reread, RequestState
  <2> QED
    BY <2>1 DEF To
<1>3. ASSUME Attempt(q) \/ RecordSubmitted(q)
      PROVE  /\ req[q].pc \in Working /\ req'[q].pc # "mark_unsettled"
             /\ req'[q].pc = "transfer" => Attempt(q)
  BY <1>3 DEF Attempt, RecordSubmitted, RequestState
<1>4. ASSUME Transfer(q) \/ RecordRejected(q) \/ RecordUnknown(q)
      PROVE  req[q].pc \in Working /\ req'[q].pc \notin {"transfer", "mark_unsettled"}
  <2>1. /\ req[q].pc \in {"transfer", "record_rejected", "record_unknown"}
        /\ \E label \in {"record_submitted", "record_rejected", "record_unknown", "rescue",
                         "rescue_dropped"} : To(label)
    BY <1>0, <1>4 DEF Transfer, RecordRejected, RecordUnknown
  <2> QED
    BY <2>1 DEF To
<1>5. ASSUME Verify(q)
      PROVE  req'[q].pc \notin Working \cup {"transfer"}
  <2>1. \/ \E v : req' = [req EXCEPT ![q].pc = AfterVerdict(v), ![q].verdict = v]
        \/ To("rescue")
    BY <1>0, <1>5 DEF Verify
  <2>2. ASSUME NEW v, req' = [req EXCEPT ![q].pc = AfterVerdict(v), ![q].verdict = v]
        PROVE  req'[q].pc \in {"commit", "mark_confirmed", "release_reverted", "mark_unsettled"}
    <3>1. AfterVerdict(v) \in {"commit", "mark_confirmed", "release_reverted", "mark_unsettled"}
      BY DEF AfterVerdict
    <3> QED
      BY <2>2, <3>1 DEF RequestState
  <2> QED
    BY <2>1, <2>2 DEF To
<1>6. ASSUME ReleaseReverted(q) \/ Commit(q)
      PROVE  /\ req'[q].pc \notin Working \cup {"transfer"}
             /\ req'[q].pc = "mark_unsettled" => ReleaseReverted(q)
  BY <1>0, <1>6 DEF To, ReleaseReverted, Commit
<1>7. ASSUME \/ MarkSubmitted(q) \/ MarkConfirmed(q) \/ SettleInvoice(q) \/ Fulfil(q)
             \/ RescueDropped(q) \/ RescueBroadcast(q) \/ MarkFailed(q)
      PROVE  req'[q].pc \notin Working \cup {"transfer", "mark_unsettled", "rescue"}
  <2>1. \E label \in {"verify", "settle_invoice", "fulfil", "returned", "failed"} : To(label)
    BY <1>0, <1>7 DEF MarkSubmitted, MarkConfirmed, SettleInvoice, Fulfil, RescueDropped,
                      RescueBroadcast, MarkFailed
  <2> QED
    BY <2>1 DEF To
<1>8. ASSUME MarkUnsettled(q)
      PROVE  To("rescue")
  BY <1>0, <1>8 DEF MarkUnsettled
<1>9. ASSUME RescueRelease(q)
      PROVE  To("mark_failed")
  BY <1>0, <1>9 DEF RescueRelease
<1>10. ASSUME StoreFault(q) \/ CrashRequest(q)
       PROVE  To("failed")
  BY <1>0, <1>10 DEF StoreFault, CrashRequest, Inject, Reliable, AnswersKept
<1> QED
  BY <1>1, <1>2, <1>3, <1>4, <1>5, <1>6, <1>7, <1>8, <1>9, <1>10 DEF Moved, RequestStep, To

\* While a call without a hash in its row works, nobody else writes the row's status.
LEMMA WorkUndisturbed ==
  ASSUME Reliable, Agreement, [Next]_vars, NEW q \in Requests,
         req[q].pc \in Bound, req[q].tx = None \/ req[q].pc = "mark_submitted",
         row[req[q].intent].status = "executing",
         req'[q].pc \in Working \/ (req'[q].pc = "rescue" /\ req'[q].tx = None)
  PROVE  row'[req[q].intent].status = "executing"
<1> DEFINE i == req[q].intent
<1> TypeOK /\ IInv /\ OutcomesTrue /\ Truth /\ HoldsTrue /\ WorksTrue
  BY DEF Agreement, Truth, IInv
<1>0. /\ row[i].execId = q /\ i \in Intents
  BY BoundToItself
<1> SUFFICES ASSUME row'[i].status # row[i].status PROVE FALSE
  BY <1>0
<1>1. ASSUME NEW p \in Requests, req[p].intent = i,
             \/ MarkSubmitted(p) \/ MarkUnsettled(p) \/ MarkConfirmed(p)
             \/ RescueBroadcast(p) \/ MarkFailed(p)
      PROVE  FALSE
  <2>1. req[p].pc \in Bound
    BY <1>1 DEF MarkSubmitted, MarkUnsettled, MarkConfirmed, RescueBroadcast, MarkFailed, Bound
  <2>2. p = q
    BY <1>0, <1>1, <2>1, BoundToItself
  <2>3. Moved(q)
    BY <1>1, <2>2 DEF Moved, RequestStep
  <2>4. CASE MarkUnsettled(q)
    <3>1. req[q].pc = "mark_unsettled"
      BY <2>4 DEF MarkUnsettled
    <3>2. req[q].tx # None
      BY <3>1 DEF OutcomesTrue, CallTrue, Hashed
    <3> QED
      BY <3>1, <3>2
  <2> QED
    BY <1>1, <2>2, <2>3, <2>4, WorkingFlow
<1>2. ASSUME NEW s \in Sweeps, SweepUpdate(s), Current(s) = i
      PROVE  FALSE
  <2>1. row[i].tx = q
    BY <1>0, <1>2, SweepKnows
  <2> QED
    BY <1>0, <2>1 DEF HoldsTrue, CallHolds
<1>3. row[i].status # "prepared"
  OBVIOUS
<1> QED
  BY <1>0, <1>1, <1>2, <1>3, StatusMoves

\* With the right seed, only a transfer that does not match is left unsettled.
LEMMA VerdictMismatch ==
  ASSUME TypeOK, DemoTrue, GuardEnabled, NEW e \in Requests, chain[e] # "none",
         NEW v \in Verdicts(e, e), v \notin {"CONFIRMED", "REVERTED"}
  PROVE  chain[e] = "mismatch"
<1> chain[e] \in {"none", "pending", "success", "mismatch", "reverted"}
  BY DEF TypeOK
<1>1. Live
  BY DEF Verdicts, VerifyDemoSettlement
<1>2. CASE chain[e] = "reverted"
  BY <1>1, <1>2 DEF Verdicts, MatchesExpected
<1>3. CASE MatchesExpected(e)
  BY <1>1, <1>3 DEF Verdicts, MatchesExpected
<1>4. CASE chain[e] = "pending"
  BY <1>1, <1>4 DEF Verdicts, MatchesExpected
<1> QED
  BY <1>2, <1>3, <1>4 DEF MatchesExpected

LEMMA CallWorksStep ==
  ASSUME Reliable, Agreement, [Next]_vars, NEW q \in Requests
  PROVE  CallWorks(q)'
<1> /\ TypeOK /\ IInv /\ OutcomesTrue /\ Truth /\ HoldsTrue /\ WorksTrue
    /\ AnswersKept /\ SteadyGuard /\ GuardEnabled /\ DemoTrue
    /\ CallTrue(q) /\ CallHolds(q) /\ CallWorks(q)
    /\ req \in [Requests -> RequestState] /\ req[q] \in RequestState
  BY DEF Agreement, Truth, IInv, TypeOK, OutcomesTrue, HoldsTrue, WorksTrue, Reliable,
         AnswersKept, SteadyGuard
<1>0. \/ Moved(q)
      \/ req'[q] = req[q]
      \/ req[q].pc = "idle" /\ req'[q].pc = "lookup_key"
  BY CallMoves
<1>1. (Moved(q) \/ req'[q] = req[q]) /\ req[q].pc # "idle" => req'[q].intent = req[q].intent
  BY Durable
<1>2. ASSUME req'[q].pc \in Working
      PROVE  row'[req'[q].intent].status = "executing"
  <2>1. CASE Claim(q)
    <3>1. req[q].intent \in Intents /\ req[q].pc = "claim"
      BY <2>1 DEF Claim, IInv, Started
    <3>2. row' = [row EXCEPT ![req[q].intent] = Correlated(q)]
      BY <1>2, <2>1 DEF Claim, Goto, RequestState, Working
    <3>3. row'[req[q].intent].status = "executing"
      BY <3>1, <3>2 DEF Correlated, TypeOK
    <3> QED
      BY <3>1, <3>3, Durable
  <2>2. CASE Reread(q)
    BY <1>2, <2>2, NoJoin DEF Goto, RequestState, Working
  <2>3. CASE req[q].pc \in Working \/ RescueRelease(q)
    <3>1. /\ req[q].pc \in Bound /\ req[q].pc # "idle"
          /\ req[q].tx = None \/ req[q].pc = "mark_submitted"
      BY <2>3 DEF Working, Bound, CallTrue, Hashed, RescueRelease, Broadcast
    <3>2. row[req[q].intent].status = "executing"
      BY <2>3 DEF CallWorks, RescueRelease, Broadcast
    <3> QED
      BY <1>2, <3>1, <3>2, WorkUndisturbed, Durable
  <2> QED
    BY <1>0, <1>2, <2>1, <2>2, <2>3, WorkingFlow DEF Working
<1>3. ASSUME req'[q].pc = "rescue", req'[q].tx = None
      PROVE  row'[req'[q].intent].status = "executing"
  <2>1. req[q].tx = None /\ (req[q].pc = "rescue" \/ req[q].pc = "record_rejected")
    BY <1>0, <1>3, HoldingFlow DEF CallTrue
  <2>2. row[req[q].intent].status = "executing" /\ req[q].pc \in Bound /\ req[q].pc # "idle"
    BY <2>1 DEF CallWorks, Working, Bound
  <2> QED
    BY <1>3, <2>1, <2>2, WorkUndisturbed, Durable
<1>4. ASSUME req'[q].pc = "transfer" \/ chain'[q] # "none"
      PROVE  attempt'[q] # "none"
  <2>1. CASE Attempt(q)
    <3>1. req[q].exec = q /\ attempt' = GetOrCreate(q)
      BY <2>1, BoundToItself DEF Attempt, Bound
    <3> QED
      BY <3>1 DEF GetOrCreate, PrepareExecutionAttempt, TypeOK
  <2>2. ASSUME ~Attempt(q)
        PROVE  attempt[q] # "none"
    <3>1. CASE chain'[q] # "none"
      BY <3>1, PayMoves DEF CallWorks
    <3>2. CASE req'[q].pc = "transfer"
      BY <1>0, <2>2, <3>2, WorkingFlow DEF CallWorks
    <3> QED
      BY <1>4, <3>1, <3>2
  <2> QED
    BY <2>1, <2>2, AttemptMoves
<1>5. ASSUME req'[q].pc = "mark_unsettled", req'[q].verdict # "REVERTED"
      PROVE  chain'[q] = "mismatch"
  <2>1. CASE req'[q] = req[q]
    BY <1>5, <2>1, Durable DEF CallWorks
  <2>2. CASE ReleaseReverted(q)
    BY <1>5, <2>2 DEF ReleaseReverted, Goto, RequestState, CallTrue
  <2>3. CASE Verify(q)
    <3>1. req[q].pc = "verify" /\ req[q].exec = q /\ req[q].tx = q /\ chain[q] # "none"
      <4>1. req[q].pc = "verify"
        BY <2>3 DEF Verify
      <4> QED
        BY <4>1, BoundToItself, HashKnown DEF Bound, Hashed
    <3>2. PICK v \in Verdicts(q, q) :
                 req' = [req EXCEPT ![q].pc = AfterVerdict(v), ![q].verdict = v]
      BY <1>5, <2>3, <3>1 DEF Verify, Inject, Reliable, Goto, RequestState
    <3>3. req'[q].verdict = v /\ AfterVerdict(v) = "mark_unsettled"
      BY <1>5, <3>2 DEF RequestState
    <3>4. v \notin {"CONFIRMED", "REVERTED"}
      BY <1>5, <3>3 DEF AfterVerdict
    <3>5. chain[q] = "mismatch"
      BY <3>1, <3>4, VerdictMismatch
    <3> QED
      BY <3>5, Durable
  <2> QED
    BY <1>0, <1>5, <2>1, <2>2, <2>3, WorkingFlow
<1> QED
  BY <1>2, <1>3, <1>4, <1>5 DEF CallWorks

LEMMA SweepWorksStep ==
  ASSUME Reliable, Agreement, [Next]_vars, NEW s \in Sweeps
  PROVE  SweepWorks(s)'
<1> /\ TypeOK /\ IInv /\ OutcomesTrue /\ Truth /\ WorksTrue
    /\ SteadyGuard /\ GuardEnabled /\ DemoTrue /\ SweepTrue(s) /\ SweepWorks(s)
    /\ sweep \in [Sweeps -> SweepState]
  BY DEF Agreement, Truth, IInv, TypeOK, OutcomesTrue, WorksTrue, Reliable, AnswersKept,
         SteadyGuard
<1> SUFFICES ASSUME sweep'[s].pc = "update", sweep'[s].verdict \notin {"CONFIRMED", "REVERTED"}
             PROVE  chain'[SeenRow(s)'.tx] = "mismatch"
  BY DEF SweepWorks
<1>1. /\ sweep[s].pc # "idle" /\ sweep'[s].seen = sweep[s].seen
      /\ \/ sweep'[s] = sweep[s]
         \/ SweepVerify(s) \/ SweepCommit(s) \/ SweepRelease(s) \/ SweepUpdate(s)
      /\ sweep'[s] # Abort /\ sweep'[s] # Forget(s)
  BY WritingMoves
<1>2. Todo(s) # {} /\ SeenRow(s)' = SeenRow(s)
  BY <1>1, SameCurrent DEF IInv, SweepHasWork
<1>3. SeenRow(s).tx \in Requests /\ chain[SeenRow(s).tx] # "none"
      /\ SeenRow(s).tx = row[Current(s)].execId
  BY <1>2, SeenHash
<1>4. chain[SeenRow(s).tx] = "mismatch" => chain'[SeenRow(s)'.tx] = "mismatch"
  BY <1>2, <1>3, Durable
<1>5. CASE sweep'[s] = sweep[s]
  BY <1>4, <1>5 DEF SweepWorks
<1>6. CASE SweepCommit(s) \/ SweepRelease(s) \/ SweepUpdate(s)
  <2>1. CASE sweep[s].pc \in {"commit", "release"} /\ sweep' = [sweep EXCEPT ![s].pc = "update"]
    BY <2>1 DEF SweepTrue, SweepState
  <2>2. CASE sweep' = [sweep EXCEPT ![s].pc = "fulfil"]
    BY <2>2 DEF SweepState
  <2>3. CASE \E w \in {Forget(s), Abort} : sweep' = [sweep EXCEPT ![s] = w]
    BY <1>1, <2>3
  <2> QED
    BY <1>6, <2>1, <2>2, <2>3 DEF SweepCommit, SweepRelease, SweepUpdate
<1>7. CASE SweepVerify(s)
  <2>1. PICK v \in Verdicts(SeenRow(s).tx, DemoSeed(Current(s))) :
               sweep' = [sweep EXCEPT ![s].pc = AfterSweepVerdict(s, v), ![s].verdict = v]
    BY <1>1, <1>7 DEF SweepVerify
  <2>2. v \notin {"CONFIRMED", "REVERTED"}
    BY <2>1 DEF SweepState
  <2>3. DemoSeed(Current(s)) = SeenRow(s).tx
    BY <1>3 DEF DemoSeed, WorksTrue, CallWorks
  <2>4. chain[SeenRow(s).tx] = "mismatch"
    BY <1>3, <2>1, <2>2, <2>3, VerdictMismatch
  <2> QED
    BY <1>4, <2>4
<1> QED
  BY <1>1, <1>5, <1>6, <1>7

LEMMA InitWorks == Init => WorksTrue
<1> SUFFICES ASSUME Init PROVE WorksTrue
  OBVIOUS
<1>1. \A i \in Intents : row[i] = NewRow
  BY DEF Init
<1>2. \A q \in Requests : CallWorks(q)
  BY DEF Init, CallWorks, Working
<1>3. \A i \in Intents : ClosedTrue(i)
  BY <1>1 DEF NewRow, ClosedTrue
<1>4. \A s \in Sweeps : SweepWorks(s)
  BY DEF Init, SweepWorks
<1> QED
  BY <1>2, <1>3, <1>4 DEF WorksTrue

LEMMA AgreementInvariant ==
  ASSUME Reliable
  PROVE  Spec => []Agreement
<1> AnswersKept
  BY DEF Reliable
<1>1. Init => WorksTrue
  BY InitWorks
<1>2. Truth /\ HoldsTrue /\ WorksTrue /\ [Next]_vars => WorksTrue'
  BY CallWorksStep, ClosedStep, SweepWorksStep DEF Agreement, WorksTrue
<1>3. Spec => [](Truth /\ HoldsTrue)
  BY HoldsInvariant
<1>4. Truth /\ HoldsTrue /\ WorksTrue => Agreement
  BY DEF Agreement
<1> QED
  BY <1>1, <1>2, <1>3, <1>4, PTL DEF Spec
-----------------------------------------------------------------------------
(* The contract: a step of the system moves one payment, by one action. *)

\* A step writes one row, one authorization or the fate of one transfer.
LEMMA OneAtATime ==
  ASSUME TypeOK, [Next]_vars
  PROVE  \/ /\ UNCHANGED <<auth, chain>>
            /\ \A i, j \in Intents : row'[i] # row[i] /\ row'[j] # row[j] => i = j
         \/ /\ UNCHANGED <<row, chain>>
            /\ \A a, b \in Requests : auth'[a] # auth[a] /\ auth'[b] # auth[b] => a = b
         \/ /\ UNCHANGED <<row, auth>>
            /\ \A d, e \in Requests : chain'[d] # chain[d] /\ chain'[e] # chain[e] => d = e
<1> /\ row \in [Intents -> Row]
    /\ auth \in [Requests -> {"none", "reserved", "committed", "released"}]
    /\ chain \in [Requests -> {"none", "pending", "success", "mismatch", "reverted"}]
  BY DEF TypeOK
<1>1. ASSUME NEW q \in Requests,
             \/ Claim(q) \/ MarkConfirmed(q) \/ RescueBroadcast(q) \/ MarkFailed(q)
             \/ MarkSubmitted(q) \/ MarkUnsettled(q) \/ RescueDropped(q)
      PROVE  /\ UNCHANGED <<auth, chain>>
             /\ \A i \in Intents : row'[i] # row[i] => i = req[q].intent
  <2>1. CASE Claim(q)
    BY <2>1 DEF Claim
  <2>2. CASE MarkConfirmed(q)
    BY <2>2 DEF MarkConfirmed
  <2>3. CASE RescueBroadcast(q)
    BY <2>3 DEF RescueBroadcast
  <2>4. CASE MarkFailed(q)
    BY <2>4 DEF MarkFailed
  <2>5. CASE MarkSubmitted(q)
    BY <2>5 DEF MarkSubmitted
  <2>6. CASE MarkUnsettled(q)
    BY <2>6 DEF MarkUnsettled
  <2>7. CASE RescueDropped(q)
    BY <2>7 DEF RescueDropped
  <2> QED
    BY <1>1, <2>1, <2>2, <2>3, <2>4, <2>5, <2>6, <2>7
<1>2. ASSUME NEW s \in Sweeps, SweepUpdate(s)
      PROVE  /\ UNCHANGED <<auth, chain>>
             /\ \A i \in Intents : row'[i] # row[i] => i = Current(s)
  BY <1>2 DEF SweepUpdate
<1>3. ASSUME NEW q \in Requests,
             \/ GuardReserve(q)
             \/ (ReleaseReverted(q) \/ RescueRelease(q)) /\ auth' = Released(q)
             \/ Commit(q) /\ auth' = Committed(q)
      PROVE  /\ UNCHANGED <<row, chain>>
             /\ \A a \in Requests : auth'[a] # auth[a] => a = q
  <2>1. UNCHANGED <<row, chain>>
    BY <1>3 DEF GuardReserve, ReleaseReverted, RescueRelease, Commit
  <2>2. \/ auth' = [auth EXCEPT ![q] = "reserved"] \/ auth' = auth
        \/ auth' = Released(q) \/ auth' = Committed(q)
    BY <1>3 DEF GuardReserve
  <2> QED
    BY <2>1, <2>2 DEF Released, Committed
<1>4. ASSUME NEW s \in Sweeps,
             \/ SweepRelease(s) /\ auth' = Released(SeenRow(s).guardAuth)
             \/ SweepCommit(s) /\ auth' = Committed(SeenRow(s).guardAuth)
      PROVE  /\ UNCHANGED <<row, chain>>
             /\ \A a \in Requests : auth'[a] # auth[a] => a = SeenRow(s).guardAuth
  BY <1>4 DEF SweepRelease, SweepCommit, Released, Committed
<1>5. ASSUME NEW q \in Requests, Transfer(q)
      PROVE  /\ UNCHANGED <<row, auth>>
             /\ \A e \in Requests : chain'[e] # chain[e] => e = req[q].exec
  BY <1>5 DEF Transfer
<1>6. ASSUME NEW d \in Requests, Mine(d)
      PROVE  /\ UNCHANGED <<row, auth>>
             /\ \A e \in Requests : chain'[e] # chain[e] => e = d
  BY <1>6 DEF Mine
<1>7. CASE UNCHANGED <<auth, chain>>
  <2>1. \/ UNCHANGED row
        \/ \E k : \A i \in Intents : row'[i] # row[i] => i = k
    BY <1>1, <1>2, RowWriters
  <2> QED
    BY <1>7, <2>1
<1>8. CASE ~UNCHANGED auth
  <2>1. UNCHANGED <<row, chain>> /\ \E k : \A a \in Requests : auth'[a] # auth[a] => a = k
    BY <1>3, <1>4, <1>8, AuthWriters
  <2> QED
    BY <2>1
<1>9. CASE ~UNCHANGED chain
  <2>1. UNCHANGED <<row, auth>> /\ \E k : \A e \in Requests : chain'[e] # chain[e] => e = k
    BY <1>5, <1>6, <1>9, ChainWriters
  <2> QED
    BY <2>1
<1> QED
  BY <1>7, <1>8, <1>9

Transfers == [i \in Intents |-> TransferOf(i)]
Books == [i \in Intents |-> BooksOf(i)]
Holds == [i \in Intents |-> HoldOf(i)]

\* The three faces of a payment, when its intent is bound.
LEMMA Faces ==
  ASSUME Truth, NEW i \in Intents
  PROVE  /\ row[i].execId = None => TransferOf(i) = "none" /\ HoldOf(i) = "free"
         /\ row[i].execId # None =>
              /\ TransferOf(i) = chain[row[i].execId]
              /\ auth[row[i].execId] = "reserved" => HoldOf(i) = "held"
              /\ auth[row[i].execId] = "committed" => HoldOf(i) = "spent"
              /\ auth[row[i].execId] = "released" => HoldOf(i) = "returned"
<1> row[i].guardAuth = row[i].execId
  BY DEF Truth, GuardTrue, RowGuarded
<1> QED
  BY DEF TransferOf, HoldOf

\* Claiming an intent holds the budget its call has reserved.
LEMMA ClaimHolds ==
  ASSUME Reliable, Agreement, Agreement', [Next]_vars, UNCHANGED <<auth, chain>>,
         \A i, j \in Intents : row'[i] # row[i] /\ row'[j] # row[j] => i = j,
         NEW i \in Intents, row'[i].execId # row[i].execId
  PROVE  Contract!Hold(i)
<1> Truth /\ HoldsTrue /\ Truth' /\ GuardEnabled
  BY DEF Agreement, Reliable, AnswersKept, SteadyGuard
<1>1. PICK q \in Requests :
              /\ req[q].pc = "claim" /\ row[i].execId = None /\ row[i].status = "prepared"
              /\ row'[i].execId = q /\ row'[i].status = "executing"
  BY BindingMoves DEF Reliable, AnswersKept
<1>2. chain[q] = "none" /\ auth[q] = "reserved"
  BY <1>1 DEF HoldsTrue, CallHolds, Holding, Unpaid
<1>3. ASSUME NEW j \in Intents, j # i
      PROVE  TransferOf(j)' = TransferOf(j) /\ BooksOf(j)' = BooksOf(j) /\ HoldOf(j)' = HoldOf(j)
  <2>1. row'[j] = row[j]
    BY <1>3
  <2> QED
    BY <2>1 DEF TransferOf, BooksOf, HoldOf
<1>4. /\ TransferOf(i) = "none" /\ HoldOf(i) = "free" /\ BooksOf(i) = "open"
      /\ TransferOf(i)' = "none" /\ BooksOf(i)' = "open"
  BY <1>1, <1>2, NoneAssumption DEF TransferOf, BooksOf, HoldOf, Truth, GuardTrue, RowGuarded
<1>5. HoldOf(i)' = "held"
  BY <1>1, <1>2, NoneAssumption DEF HoldOf, Truth, GuardTrue, RowGuarded
<1>6. /\ Holds[i] = "free" /\ Transfers[i] = "none" /\ Books[i] = "open"
      /\ Transfers' = Transfers /\ Books' = Books
      /\ Holds' = [Holds EXCEPT ![i] = "held"]
  BY <1>3, <1>4, <1>5 DEF Transfers, Books, Holds
<1> QED
  BY <1>6 DEF Contract!Hold, Transfers, Books, Holds

\* Writing a bound row closes the books of its payment at most, truthfully.
LEMMA WriteCloses ==
  ASSUME Reliable, Agreement, Agreement', [Next]_vars, UNCHANGED <<auth, chain>>,
         \A i, j \in Intents : row'[i] # row[i] /\ row'[j] # row[j] => i = j,
         NEW i \in Intents, \A j \in Intents : row'[j].execId = row[j].execId,
         BooksOf(i)' # BooksOf(i)
  PROVE  Contract!Close(i)
<1> /\ Truth /\ HoldsTrue /\ WorksTrue /\ WorksTrue' /\ Truth' /\ IInv /\ GuardEnabled
  BY DEF Agreement, Truth, Reliable, AnswersKept, SteadyGuard
<1>1. \A j \in Intents : TransferOf(j)' = TransferOf(j) /\ HoldOf(j)' = HoldOf(j)
  BY DEF TransferOf, HoldOf, Truth, GuardTrue, RowGuarded
<1>2. ASSUME NEW j \in Intents, j # i
      PROVE  BooksOf(j)' = BooksOf(j)
  <2>1. row'[i] # row[i]
    BY DEF BooksOf
  <2>2. row'[j] = row[j]
    BY <1>2, <2>1
  <2> QED
    BY <2>2 DEF BooksOf
<1>3. row[i].status \notin {"confirmed", "reverted", "failed"}
  BY ClosedStays DEF BooksOf
<1>4. BooksOf(i) = "open"
  BY <1>3 DEF BooksOf
<1>5. /\ row'[i].status \in {"confirmed", "reverted", "failed"}
      /\ BooksOf(i)' = row'[i].status
  BY <1>4 DEF BooksOf
<1>6. ClosedTrue(i)'
  BY DEF WorksTrue
<1>7. /\ row[i].execId # None
      /\ row'[i].status = "confirmed" =>
            chain[row[i].execId] = "success" /\ auth[row[i].execId] = "committed"
      /\ row'[i].status = "reverted" =>
            chain[row[i].execId] = "reverted" /\ auth[row[i].execId] = "released"
      /\ row'[i].status = "failed" =>
            chain[row[i].execId] = "none" /\ auth[row[i].execId] = "released"
  BY <1>5, <1>6 DEF ClosedTrue
<1>8. /\ TransferOf(i) = chain[row[i].execId] /\ HoldOf(i) \in {"spent", "returned"}
  BY <1>5, <1>7, Faces
<1>9. /\ Books[i] = "open" /\ Holds[i] # "held"
      /\ Transfers' = Transfers /\ Holds' = Holds
      /\ Books' = [Books EXCEPT ![i] = row'[i].status]
      /\ \/ Transfers[i] = "success" /\ row'[i].status = "confirmed"
         \/ Transfers[i] = "reverted" /\ row'[i].status = "reverted"
         \/ Transfers[i] = "none" /\ row'[i].status = "failed"
  BY <1>1, <1>2, <1>4, <1>5, <1>7, <1>8 DEF Transfers, Books, Holds
<1> QED
  BY <1>9 DEF Contract!Close, Transfers, Books, Holds

\* Resolving a row's authorization resolves the hold of its payment.
LEMMA AuthResolves ==
  ASSUME Reliable, Agreement, Agreement', [Next]_vars, UNCHANGED <<row, chain>>,
         \A a, b \in Requests : auth'[a] # auth[a] /\ auth'[b] # auth[b] => a = b,
         NEW i \in Intents, HoldOf(i)' # HoldOf(i)
  PROVE  Contract!Resolve(i)
<1> DEFINE a == row[i].execId
<1> /\ Truth /\ HoldsTrue /\ Truth' /\ HoldsTrue' /\ IInv /\ TypeOK
  BY DEF Agreement, Truth, IInv
<1>1. \A j \in Intents : TransferOf(j)' = TransferOf(j) /\ BooksOf(j)' = BooksOf(j)
  BY DEF TransferOf, BooksOf
<1>2. a # None
  BY DEF HoldOf, Truth, GuardTrue, RowGuarded
<1>3. a \in Requests /\ auth[a] # "none" /\ req[a].exec = a /\ req[a].intent = i
  BY <1>2, OwnerOf
<1>4. auth'[a] # auth[a]
  BY <1>2 DEF HoldOf, Truth, GuardTrue, RowGuarded
<1>5. ASSUME NEW j \in Intents, j # i
      PROVE  HoldOf(j)' = HoldOf(j)
  <2>1. CASE row[j].execId = None
    BY <2>1 DEF HoldOf, Truth, GuardTrue, RowGuarded
  <2>2. CASE row[j].execId # None
    <3>1. row[j].execId \in Requests /\ row[j].execId # a
      BY <1>3, <1>5, <2>2, OwnerOf
    <3>2. auth'[row[j].execId] = auth[row[j].execId]
      BY <1>3, <1>4, <3>1
    <3> QED
      BY <3>2 DEF HoldOf, Truth, GuardTrue, RowGuarded
  <2> QED
    BY <2>1, <2>2
<1>6. auth[a] = "reserved" /\ auth'[a] \in {"committed", "released"}
  <2>1. ~GuardReserve(a)
    BY <1>3 DEF GuardReserve, IInv, NotYetReserved, Early
  <2> QED
    BY <1>3, <1>4, <2>1, AuthMoves
<1>7. /\ auth'[a] = "committed" => chain[a] = "success"
      /\ auth'[a] = "released" => chain[a] \in {"none", "reverted"}
  <2>1. /\ auth'[a] = "committed" => chain'[a] = "success"
        /\ auth'[a] = "released" => chain'[a] \in {"none", "reverted"}
    BY <1>3 DEF Truth, GuardTrue, CallGuarded, HoldsTrue, CallHolds
  <2> QED
    BY <2>1
<1>8. /\ TransferOf(i) = chain[a] /\ HoldOf(i) = "held"
      /\ HoldOf(i)' = IF auth'[a] = "committed" THEN "spent" ELSE "returned"
  <2>1. HoldOf(i)' = IF auth'[a] = "committed" THEN "spent" ELSE "returned"
    BY <1>2, <1>6 DEF HoldOf, Truth, GuardTrue, RowGuarded
  <2> QED
    BY <1>2, <1>6, <2>1, Faces
<1>9. /\ Holds[i] = "held" /\ Transfers' = Transfers /\ Books' = Books
      /\ \/ Transfers[i] = "success" /\ Holds' = [Holds EXCEPT ![i] = "spent"]
         \/ Transfers[i] \in {"none", "reverted"} /\ Holds' = [Holds EXCEPT ![i] = "returned"]
  BY <1>1, <1>5, <1>6, <1>7, <1>8 DEF Transfers, Books, Holds
<1> QED
  BY <1>9 DEF Contract!Resolve, Transfers, Books, Holds

\* The provider and the chain move a payment's money as the contract says.
LEMMA ChainPays ==
  ASSUME Reliable, Agreement, [Next]_vars, UNCHANGED <<row, auth>>,
         \A d, e \in Requests : chain'[d] # chain[d] /\ chain'[e] # chain[e] => d = e,
         NEW i \in Intents, TransferOf(i)' # TransferOf(i)
  PROVE  Contract!Pay(i) \/ Contract!Decide(i)
<1> DEFINE e == row[i].execId
<1> /\ Truth /\ HoldsTrue /\ WorksTrue /\ IInv /\ TypeOK /\ AnswersKept
  BY DEF Agreement, Truth, IInv, Reliable
<1>1. \A j \in Intents : HoldOf(j)' = HoldOf(j) /\ BooksOf(j)' = BooksOf(j)
  BY DEF HoldOf, BooksOf
<1>2. e # None /\ chain'[e] # chain[e]
  BY DEF TransferOf
<1>3. e \in Requests /\ req[e].intent = i
  BY <1>2, OwnerOf
<1>4. ASSUME NEW j \in Intents, j # i
      PROVE  TransferOf(j)' = TransferOf(j)
  <2>1. CASE row[j].execId = None
    BY <2>1 DEF TransferOf
  <2>2. CASE row[j].execId # None
    <3>1. row[j].execId \in Requests /\ row[j].execId # e
      BY <1>3, <1>4, <2>2, OwnerOf
    <3>2. chain'[row[j].execId] = chain[row[j].execId]
      BY <1>2, <1>3, <3>1
    <3> QED
      BY <3>2 DEF TransferOf
  <2> QED
    BY <2>1, <2>2
<1>5. TransferOf(i) = chain[e] /\ TransferOf(i)' = chain'[e]
  BY <1>2 DEF TransferOf
<1>6. /\ Transfers[i] = chain[e] /\ Books' = Books /\ Holds' = Holds
      /\ Transfers' = [Transfers EXCEPT ![i] = chain'[e]]
      /\ Books[i] = BooksOf(i) /\ Holds[i] = HoldOf(i)
  BY <1>1, <1>4, <1>5 DEF Transfers, Books, Holds
<1>7. CASE chain[e] = "none"
  <2>1. chain'[e] \in {"pending", "success"}
    BY <1>2, <1>3, <1>7, ChainMoves
  <2>2. req[e].pc = "transfer"
    BY <1>2, <1>3, <1>7, PayMoves
  <2>3. auth[e] = "reserved" /\ row[i].status = "executing"
    BY <1>3, <2>2 DEF HoldsTrue, CallHolds, Holding, WorksTrue, CallWorks, Working
  <2>4. HoldOf(i) = "held" /\ BooksOf(i) = "open"
    BY <1>2, <2>3, Faces DEF BooksOf
  <2> QED
    BY <1>6, <1>7, <2>1, <2>4 DEF Contract!Pay, Transfers, Books, Holds
<1>8. CASE chain[e] # "none"
  <2>1. chain[e] = "pending" /\ chain'[e] \in {"success", "mismatch", "reverted"}
    BY <1>2, <1>3, <1>8, ChainMoves
  <2> QED
    BY <1>6, <2>1 DEF Contract!Decide, Transfers, Books, Holds
<1> QED
  BY <1>7, <1>8

LEMMA ContractInit == Init => Contract!Init
<1> SUFFICES ASSUME Init PROVE Contract!Init
  OBVIOUS
<1>1. \A i \in Intents : row[i] = NewRow
  BY DEF Init
<1>2. \A i \in Intents : TransferOf(i) = "none" /\ BooksOf(i) = "open" /\ HoldOf(i) = "free"
  BY <1>1 DEF NewRow, TransferOf, BooksOf, HoldOf
<1> QED
  BY <1>2 DEF Contract!Init

LEMMA ContractStep ==
  ASSUME Reliable
  PROVE  Agreement /\ Agreement' /\ [Next]_vars => [Contract!Next]_(Contract!contractVars)
<1> SUFFICES ASSUME Agreement, Agreement', [Next]_vars
             PROVE  [Contract!Next]_(Contract!contractVars)
  OBVIOUS
<1> TypeOK
  BY DEF Agreement, Truth, IInv
<1>1. ASSUME \A i \in Intents : /\ TransferOf(i)' = TransferOf(i)
                                /\ BooksOf(i)' = BooksOf(i) /\ HoldOf(i)' = HoldOf(i)
      PROVE  UNCHANGED Contract!contractVars
  BY <1>1 DEF Contract!contractVars
<1>2. ASSUME NEW i \in Intents,
             \/ Contract!Hold(i) \/ Contract!Pay(i) \/ Contract!Decide(i)
             \/ Contract!Resolve(i) \/ Contract!Close(i)
      PROVE  Contract!Next
  BY <1>2 DEF Contract!Next
<1>3. CASE /\ UNCHANGED <<auth, chain>>
           /\ \A i, j \in Intents : row'[i] # row[i] /\ row'[j] # row[j] => i = j
  <2>1. CASE \E i \in Intents : row'[i].execId # row[i].execId
    BY <1>2, <1>3, <2>1, ClaimHolds
  <2>2. CASE \A i \in Intents : row'[i].execId = row[i].execId
    <3>1. CASE \E i \in Intents : BooksOf(i)' # BooksOf(i)
      BY <1>2, <1>3, <2>2, <3>1, WriteCloses
    <3>2. CASE \A i \in Intents : BooksOf(i)' = BooksOf(i)
      <4>1. \A i \in Intents : TransferOf(i)' = TransferOf(i) /\ HoldOf(i)' = HoldOf(i)
        BY <1>3, <2>2 DEF TransferOf, HoldOf, Agreement, Truth, GuardTrue, RowGuarded
      <4> QED
        BY <1>1, <3>2, <4>1
    <3> QED
      BY <3>1, <3>2
  <2> QED
    BY <2>1, <2>2
<1>4. CASE /\ UNCHANGED <<row, chain>>
           /\ \A a, b \in Requests : auth'[a] # auth[a] /\ auth'[b] # auth[b] => a = b
  <2>1. CASE \E i \in Intents : HoldOf(i)' # HoldOf(i)
    BY <1>2, <1>4, <2>1, AuthResolves
  <2>2. CASE \A i \in Intents : HoldOf(i)' = HoldOf(i)
    BY <1>1, <1>4, <2>2 DEF TransferOf, BooksOf
  <2> QED
    BY <2>1, <2>2
<1>5. CASE /\ UNCHANGED <<row, auth>>
           /\ \A d, e \in Requests : chain'[d] # chain[d] /\ chain'[e] # chain[e] => d = e
  <2>1. CASE \E i \in Intents : TransferOf(i)' # TransferOf(i)
    BY <1>2, <1>5, <2>1, ChainPays
  <2>2. CASE \A i \in Intents : TransferOf(i)' = TransferOf(i)
    BY <1>1, <1>5, <2>2 DEF HoldOf, BooksOf
  <2> QED
    BY <2>1, <2>2
<1> QED
  BY <1>3, <1>4, <1>5, OneAtATime

\* The system implements PaymentContract: at every step the record, the chain
\* and the budget of a payment move as it allows, one of them at a time.
THEOREM KeepsContract ==
  ASSUME Reliable
  PROVE  Spec => ImplementsContract
<1>1. Init => Contract!Init
  BY ContractInit
<1>2. Agreement /\ Agreement' /\ [Next]_vars => [Contract!Next]_(Contract!contractVars)
  BY ContractStep
<1>3. Spec => []Agreement
  BY AgreementInvariant
<1> QED
  BY <1>1, <1>2, <1>3, PTL DEF Spec, ImplementsContract, Contract!Spec
-----------------------------------------------------------------------------
(***************************************************************************)
(* What the contract itself promises, and so the system that keeps it.     *)
(***************************************************************************)
\* A budgeted payment is held before it is paid, and a hold is spent only over
\* a settled transfer.
HoldLeads(i) ==
    /\ ~GuardEnabled => Holds[i] = "free"
    /\ GuardEnabled /\ Transfers[i] # "none" => Holds[i] # "free"
    /\ Holds[i] = "spent" => Transfers[i] = "success"
    /\ Holds[i] = "returned" => Transfers[i] \in {"none", "reverted"}
    /\ Holds[i] \in {"free", "held", "spent", "returned"}
    /\ Books[i] \in {"open", "confirmed", "reverted", "failed"}

\* Closed books agree with the chain, and leave no hold behind.
BooksClosed(i) ==
    /\ Books[i] # "open" => Holds[i] # "held"
    /\ Books[i] = "confirmed" => Transfers[i] = "success"
    /\ Books[i] = "reverted" => Transfers[i] = "reverted"
    /\ Books[i] = "failed" => Transfers[i] = "none"

Promise == \A i \in Intents : HoldLeads(i) /\ BooksClosed(i)

LEMMA PromiseStarts == Contract!Init => Promise
BY DEF Contract!Init, Promise, HoldLeads, BooksClosed, Transfers, Books, Holds

\* What one step of the contract does to one payment.
LEMMA ContractMoves ==
  ASSUME NEW p \in Intents, NEW i \in Intents,
         Contract!Hold(p) \/ Contract!Pay(p) \/ Contract!Decide(p) \/ Contract!Resolve(p) \/ Contract!Close(p)
  PROVE  \/ /\ Transfers'[i] = Transfers[i] /\ Books'[i] = Books[i] /\ Holds'[i] = Holds[i]
         \/ /\ GuardEnabled /\ Holds[i] = "free" /\ Transfers[i] = "none" /\ Books[i] = "open"
            /\ Holds'[i] = "held" /\ Transfers'[i] = "none" /\ Books'[i] = "open"
         \/ /\ Transfers[i] = "none" /\ Books[i] = "open" /\ (GuardEnabled => Holds[i] = "held")
            /\ Transfers'[i] \in {"pending", "success"} /\ Books'[i] = "open" /\ Holds'[i] = Holds[i]
         \/ /\ Transfers[i] = "pending" /\ Transfers'[i] \in {"success", "mismatch", "reverted"}
            /\ Books'[i] = Books[i] /\ Holds'[i] = Holds[i]
         \/ /\ Holds[i] = "held" /\ Transfers'[i] = Transfers[i] /\ Books'[i] = Books[i]
            /\ \/ Transfers[i] = "success" /\ Holds'[i] = "spent"
               \/ Transfers[i] \in {"none", "reverted"} /\ Holds'[i] = "returned"
         \/ /\ Books[i] = "open" /\ Holds[i] # "held"
            /\ Holds'[i] = Holds[i] /\ Transfers'[i] = Transfers[i]
            /\ \/ Transfers[i] = "success" /\ Books'[i] = "confirmed"
               \/ Transfers[i] = "reverted" /\ Books'[i] = "reverted"
               \/ Transfers[i] = "none" /\ Books'[i] = "failed"
<1>0. /\ Transfers = [j \in Intents |-> TransferOf(j)] /\ Books = [j \in Intents |-> BooksOf(j)]
      /\ Holds = [j \in Intents |-> HoldOf(j)]
      /\ Transfers' = [j \in Intents |-> TransferOf(j)]' /\ Books' = [j \in Intents |-> BooksOf(j)]'
      /\ Holds' = [j \in Intents |-> HoldOf(j)]'
      /\ DOMAIN Transfers = Intents /\ DOMAIN Books = Intents /\ DOMAIN Holds = Intents
  BY DEF Transfers, Books, Holds
<1>1. CASE Contract!Hold(p)
  BY <1>0, <1>1 DEF Contract!Hold
<1>2. CASE Contract!Pay(p)
  BY <1>0, <1>2 DEF Contract!Pay
<1>3. CASE Contract!Decide(p)
  BY <1>0, <1>3 DEF Contract!Decide
<1>4. CASE Contract!Resolve(p)
  BY <1>0, <1>4 DEF Contract!Resolve
<1>5. CASE Contract!Close(p)
  BY <1>0, <1>5 DEF Contract!Close
<1> QED
  BY <1>1, <1>2, <1>3, <1>4, <1>5

LEMMA PromiseStep ==
  ASSUME Promise, [Contract!Next]_(Contract!contractVars)
  PROVE  /\ Promise'
         /\ \A i \in Intents : Books[i] # "open" =>
                Transfers'[i] = Transfers[i] /\ Books'[i] = Books[i] /\ Holds'[i] = Holds[i]
<1>1. CASE UNCHANGED Contract!contractVars
  <2>1. Transfers' = Transfers /\ Books' = Books /\ Holds' = Holds
    BY <1>1 DEF Contract!contractVars, Transfers, Books, Holds
  <2> QED
    BY <2>1 DEF Promise, HoldLeads, BooksClosed
<1>2. CASE Contract!Next
  <2>1. PICK p \in Intents :
          Contract!Hold(p) \/ Contract!Pay(p) \/ Contract!Decide(p) \/ Contract!Resolve(p) \/ Contract!Close(p)
    BY <1>2 DEF Contract!Next
  <2>2. ASSUME NEW i \in Intents
        PROVE  /\ HoldLeads(i)' /\ BooksClosed(i)'
               /\ Books[i] # "open" =>
                    Transfers'[i] = Transfers[i] /\ Books'[i] = Books[i] /\ Holds'[i] = Holds[i]
    <3>1. HoldLeads(i) /\ BooksClosed(i)
      BY DEF Promise
    <3> QED
      BY <2>1, <3>1, ContractMoves DEF HoldLeads, BooksClosed
  <2> QED
    BY <2>2 DEF Promise
<1> QED
  BY <1>1, <1>2

\* Whoever keeps the contract keeps true books: what is closed as confirmed
\* was paid over a budget spent, what is closed as reverted gave it back, and
\* closed books are never opened, nor anything of the payment moved again.
THEOREM ContractPromises == Contract!Spec => []Contract!BooksTrue /\ Contract!ClosedForGood
<1>1. Promise => Contract!BooksTrue
  <2> SUFFICES ASSUME Promise, NEW p \in Intents
               PROVE  /\ Books[p] = "confirmed" =>
                            Transfers[p] = "success" /\ (GuardEnabled <=> Holds[p] = "spent")
                      /\ Books[p] = "reverted" =>
                            Transfers[p] = "reverted" /\ (GuardEnabled <=> Holds[p] = "returned")
                      /\ Books[p] = "failed" =>
                            Transfers[p] = "none" /\ Holds[p] \in {"free", "returned"}
    BY DEF Contract!BooksTrue, Transfers, Books, Holds
  <2>1. HoldLeads(p) /\ BooksClosed(p)
    BY DEF Promise
  <2> QED
    BY <2>1 DEF HoldLeads, BooksClosed
<1>2. Promise /\ [Contract!Next]_(Contract!contractVars) => Promise'
  BY PromiseStep
<1>3. Promise /\ [Contract!Next]_(Contract!contractVars) =>
        [\A p \in Intents : [i \in Intents |-> BooksOf(i)][p] # "open" =>
              UNCHANGED <<[i \in Intents |-> TransferOf(i)][p], [i \in Intents |-> BooksOf(i)][p],
                          [i \in Intents |-> HoldOf(i)][p]>>]_(Contract!contractVars)
  BY PromiseStep DEF Transfers, Books, Holds
<1> QED
  BY <1>1, <1>2, <1>3, PromiseStarts, PTL DEF Contract!Spec, Contract!ClosedForGood

\* So the whole system does, with a provider, a store and nodes that answer:
\* INV-002 and INV-005 together, of a payment that is over.
THEOREM ClosedBooksAreTrue ==
  ASSUME Reliable
  PROVE  Spec => []Contract!BooksTrue /\ Contract!ClosedForGood
BY KeepsContract, ContractPromises DEF ImplementsContract
=============================================================================
