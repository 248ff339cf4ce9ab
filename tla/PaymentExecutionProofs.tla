----------------------- MODULE PaymentExecutionProofs -----------------------
(***************************************************************************)
(* Theorems about PaymentExecution, for every set of intents, keys,        *)
(* requests and sweeps, with the guard on or off, in both payment modes    *)
(* and under every kind of fault, any number of times.                     *)
(***************************************************************************)
EXTENDS PaymentExecution, WellFoundedInduction, TLAPS

\* A call that has started knows its intent and its key; one that has not has
\* no execution.
Started ==
    \A q \in Requests :
        IF req[q].pc = "idle" THEN req[q].exec = None
        ELSE req[q].intent \in Intents /\ req[q].key \in Keys

\* A call that has not been past the guard has no authorization.
Early == {"idle", "lookup_key", "lookup_intent", "guard_claim", "guard_reserve"}
NotYetReserved == \A q \in Requests : req[q].pc \in Early => auth[q] = "none"

\* A running sweep has a row left to deal with.
SweepHasWork == \A s \in Sweeps : sweep[s].pc # "idle" => Todo(s) # {}
-----------------------------------------------------------------------------
(* Typing of the pieces the actions put together. *)

LEMMA GotoType ==
  ASSUME req \in [Requests -> RequestState], NEW q \in Requests,
         NEW label \in RequestPc, Goto(q, label)
  PROVE  req' \in [Requests -> RequestState]
BY DEF Goto, RequestState

LEMMA RequestUpdate ==
  ASSUME req \in [Requests -> RequestState], NEW q \in Requests, NEW label \in RequestPc
  PROVE  /\ \A x \in Requests \cup {None} :
              [req EXCEPT ![q].pc = label, ![q].exec = x] \in [Requests -> RequestState]
         /\ \A x \in Requests \cup {None} :
              [req EXCEPT ![q].pc = label, ![q].tx = x] \in [Requests -> RequestState]
         /\ \A v \in Verdict :
              [req EXCEPT ![q].pc = label, ![q].verdict = v] \in [Requests -> RequestState]
         /\ \A i \in Intents, k \in Keys :
              [req EXCEPT ![q].pc = label, ![q].intent = i, ![q].key = k]
                \in [Requests -> RequestState]
<1>1. /\ \A x \in Requests \cup {None} : [req[q] EXCEPT !.pc = label, !.exec = x] \in RequestState
      /\ \A x \in Requests \cup {None} : [req[q] EXCEPT !.pc = label, !.tx = x] \in RequestState
      /\ \A v \in Verdict : [req[q] EXCEPT !.pc = label, !.verdict = v] \in RequestState
      /\ \A i \in Intents, k \in Keys :
            [req[q] EXCEPT !.pc = label, !.intent = i, !.key = k] \in RequestState
  BY DEF RequestState
<1> QED
  BY <1>1

LEMMA RowFields ==
  ASSUME NEW r \in Row
  PROVE  /\ \A v \in Status : [r EXCEPT !.status = v] \in Row
         /\ \A v \in Keys \cup {None} : [r EXCEPT !.key = v] \in Row
         /\ \A v \in Requests \cup {None} : [r EXCEPT !.tx = v] \in Row
         /\ \A v \in GuardStatus : [r EXCEPT !.guardStatus = v] \in Row
         /\ \A v \in Settlement : [r EXCEPT !.settlement = v] \in Row
BY DEF Row

LEMMA RowUpdate ==
  ASSUME NEW f \in [Intents -> Row], NEW i \in Intents, NEW r \in Row
  PROVE  [f EXCEPT ![i] = r] \in [Intents -> Row]
OBVIOUS

LEMMA SweepUpdated ==
  ASSUME sweep \in [Sweeps -> SweepState], NEW s \in Sweeps, NEW w \in SweepState
  PROVE  [sweep EXCEPT ![s] = w] \in [Sweeps -> SweepState]
OBVIOUS

LEMMA SweepVerdictUpdate ==
  ASSUME sweep \in [Sweeps -> SweepState], NEW s \in Sweeps,
         NEW label \in SweepPc, NEW v \in Verdict
  PROVE  [sweep EXCEPT ![s].pc = label, ![s].verdict = v] \in [Sweeps -> SweepState]
<1>1. [sweep[s] EXCEPT !.pc = label, !.verdict = v] \in SweepState
  BY DEF SweepState
<1> QED
  BY <1>1

\* The row a sweep deals with is one it has not dealt with yet.
LEMMA CurrentChosen ==
  ASSUME NEW s, Todo(s) # {}
  PROVE  Current(s) \in Todo(s) /\ Todo(s) \subseteq Intents
<1>1. Todo(s) \subseteq Nat /\ Todo(s) \subseteq Intents
  BY IntentsAssumption DEF Todo
<1>2. \A a, b \in Nat : a < b => <<a, b>> \in OpToRel(<, Nat)
  <2>1. \A a, b \in Nat : a < b => <<a, b>> \in {ss \in Nat \X Nat : ss[1] < ss[2]}
    OBVIOUS
  <2> QED
    BY <2>1, Zenon DEF OpToRel
<1>3. \E i \in Todo(s) : \A j \in Todo(s) : ~(<<j, i>> \in OpToRel(<, Nat))
  BY <1>1, NatLessThanWellFounded, WFMin, Zenon
<1>4. \E i \in Todo(s) : \A j \in Todo(s) : ~(j < i)
  BY <1>1, <1>2, <1>3, Zenon
<1>5. \E i \in Todo(s) : \A j \in Todo(s) : i <= j
  BY <1>1, <1>4
<1> QED
  BY <1>1, <1>5 DEF Current

LEMMA NewRowType == NewRow \in Row
BY DEF NewRow, Row, Status, GuardStatus, Settlement

LEMMA AbortType == Abort \in SweepState
BY NewRowType DEF Abort, SweepState, SweepPc, Verdict

LEMMA ForgetType ==
  ASSUME sweep \in [Sweeps -> SweepState], NEW s \in Sweeps
  PROVE  Forget(s) \in SweepState
<1>1. {"idle", "verify"} \subseteq SweepPc /\ "none" \in Verdict
  BY DEF SweepPc, Verdict
<1> QED
  BY <1>1, NewRowType DEF Forget, SweepState

LEMMA VerdictType ==
  /\ \A e, seed : Verdicts(e, seed) \subseteq Verdict
  /\ \A v : StatusOf(v) \in Status \ {"prepared", "executing"}
  /\ \A v : SettlementOf(v) \in Settlement
  /\ \A v : GuardLabelOf(v) \in GuardStatus
BY DEF Verdicts, VerifyDemoSettlement, Verdict, StatusOf, SettlementOf, GuardLabelOf, Status, Settlement, GuardStatus

LEMMA AttemptType ==
  ASSUME attempt \in [Requests -> AttemptStatus], NEW e, NEW q \in Requests
  PROVE  /\ GetOrCreate(e) \in [Requests -> AttemptStatus]
         /\ req[q].pc \in {"record_submitted", "record_unknown", "record_rejected"} =>
                AfterBroadcast(q) \in [Requests -> AttemptStatus]
<1>1. e \in Requests => PrepareExecutionAttempt(e) \in AttemptStatus
  BY DEF PrepareExecutionAttempt, AttemptStatus
<1>2. ASSUME NEW pc \in {"record_submitted", "record_unknown", "record_rejected"}
      PROVE  StatusAfterBroadcast(pc) \in AttemptStatus
  BY DEF StatusAfterBroadcast, AttemptStatus
<1> QED
  BY <1>1, <1>2 DEF GetOrCreate, AfterBroadcast

LEMMA GuardedType == \A label \in GuardStatus : Guarded(label) \in GuardStatus
BY DEF Guarded, GuardStatus

LEMMA Literals ==
  /\ {"executing", "submitted", "confirmed", "failed", "unknown"} \subseteq Status
  /\ {"pending", "confirmed"} \subseteq Settlement
  /\ {"reserved", "frozen", "committed"} \subseteq GuardStatus
  /\ {"verify", "commit", "release", "update", "fulfil"} \subseteq SweepPc
BY DEF Status, Settlement, GuardStatus, SweepPc
-----------------------------------------------------------------------------
(* Every step keeps the types. *)
LEMMA TypeStep ==
  ASSUME TypeOK, Started, SweepHasWork, [Next]_vars
  PROVE  TypeOK'
<1> USE NoneAssumption, ModeAssumption, FaultAssumption
<1> USE DEF Inject
<1>1. ASSUME NEW q \in Requests, NEW i \in Intents, NEW k \in Keys, Start(q, i, k)
      PROVE  TypeOK'
  <2>1. req' \in [Requests -> RequestState]
    <3>1. "lookup_key" \in RequestPc
      BY DEF RequestPc
    <3> QED
      BY <1>1, <3>1, RequestUpdate DEF TypeOK, Start
  <2> QED
    BY <1>1, <2>1 DEF TypeOK, Start
<1>2. ASSUME NEW q \in Requests, LookupKey(q)
      PROVE  TypeOK'
  <2>1. req' \in [Requests -> RequestState]
    BY <1>2, GotoType DEF TypeOK, LookupKey, RequestPc
  <2> QED
    BY <1>2, <2>1 DEF TypeOK, LookupKey
<1>3. ASSUME NEW q \in Requests, LookupIntent(q)
      PROVE  TypeOK'
  <2>1. req' \in [Requests -> RequestState]
    BY <1>3, GotoType DEF TypeOK, LookupIntent, RequestPc
  <2> QED
    BY <1>3, <2>1 DEF TypeOK, LookupIntent
<1>4. ASSUME NEW q \in Requests, GuardClaim(q)
      PROVE  TypeOK'
  <2>1. req' \in [Requests -> RequestState]
    BY <1>4, GotoType DEF TypeOK, GuardClaim, RequestPc
  <2> QED
    BY <1>4, <2>1 DEF TypeOK, GuardClaim, Fresh
<1>5. ASSUME NEW q \in Requests, GuardReserve(q)
      PROVE  TypeOK'
  <2>1. req' \in [Requests -> RequestState]
    BY <1>5, GotoType DEF TypeOK, GuardReserve, RequestPc
  <2> QED
    BY <1>5, <2>1 DEF TypeOK, GuardReserve
<1>6. ASSUME NEW q \in Requests, Claim(q)
      PROVE  TypeOK'
  <2> DEFINE i == req[q].intent
             r == Correlated(q)
  <2>1. i \in Intents
    BY <1>6 DEF Started, Claim
  <2>2. r \in Row
    BY <2>1, GuardedType, Literals DEF TypeOK, Row, RequestState, OwnAuth, Correlated
  <2>3. row' = row \/ row' = [row EXCEPT ![i] = r]
    BY <1>6 DEF Claim
  <2>4. row' \in [Intents -> Row]
    BY <2>1, <2>2, <2>3, RowUpdate DEF TypeOK
  <2>5. req' \in [Requests -> RequestState]
    <3>1. CASE Claimable(i) /\ req' = [req EXCEPT ![q].pc = "attempt", ![q].exec = q]
      BY <3>1, RequestUpdate DEF TypeOK, RequestPc
    <3>2. CASE \E label \in {"failed", "reread"} : Goto(q, label)
      BY <3>2, GotoType DEF TypeOK, RequestPc
    <3> QED
      BY <1>6, <3>1, <3>2 DEF Claim
  <2> QED
    BY <1>6, <2>4, <2>5 DEF TypeOK, Claim
<1>7. ASSUME NEW q \in Requests, Reread(q)
      PROVE  TypeOK'
  <2>1. req[q].intent \in Intents
    BY <1>7 DEF Started, Reread
  <2>2. row[req[q].intent].execId \in Requests \cup {None}
    BY <2>1 DEF TypeOK, Row
  <2>3. req' \in [Requests -> RequestState]
    <3>1. CASE req' = [req EXCEPT ![q].pc = "attempt", ![q].exec = row[req[q].intent].execId]
      <4>1. "attempt" \in RequestPc
        BY DEF RequestPc
      <4> QED
        BY <2>2, <3>1, <4>1, RequestUpdate DEF TypeOK
    <3>2. CASE Goto(q, "failed")
      BY <3>2, GotoType DEF TypeOK, RequestPc
    <3> QED
      BY <1>7, <3>1, <3>2 DEF Reread, Joined
  <2> QED
    BY <1>7, <2>3 DEF TypeOK, Reread
<1>8. ASSUME NEW q \in Requests, Attempt(q)
      PROVE  TypeOK'
  <2>1. req \in [Requests -> RequestState] /\ req[q].exec \in Requests \cup {None}
    BY DEF TypeOK, RequestState
  <2>2. req' \in [Requests -> RequestState]
    <3>1. "mark_submitted" \in RequestPc /\ "transfer" \in RequestPc
      BY DEF RequestPc
    <3>2. CASE req' = [req EXCEPT ![q].pc = "mark_submitted", ![q].tx = req[q].exec]
      BY <2>1, <3>1, <3>2, RequestUpdate
    <3>3. CASE Goto(q, "transfer")
      BY <2>1, <3>1, <3>3, GotoType
    <3>4. req' = IF attempt[req[q].exec] = "SUBMITTED"
                   THEN [req EXCEPT ![q].pc = "mark_submitted", ![q].tx = req[q].exec]
                   ELSE [req EXCEPT ![q].pc = "transfer"]
      BY <1>8, Zenon DEF Attempt
    <3> QED
      BY <3>2, <3>3, <3>4, Zenon DEF Goto
  <2> QED
    BY <1>8, <2>2, AttemptType DEF TypeOK, Attempt
<1>9. ASSUME NEW q \in Requests, Transfer(q)
      PROVE  TypeOK'
  <2>1. req' \in [Requests -> RequestState]
    BY <1>9, GotoType DEF TypeOK, Transfer, RequestPc
  <2> QED
    BY <1>9, <2>1 DEF TypeOK, Transfer, Accepted
<1>10. ASSUME NEW q \in Requests, RecordSubmitted(q)
      PROVE  TypeOK'
  <2>1. req[q].exec \in Requests \cup {None}
    BY DEF TypeOK, RequestState
  <2>2. req' \in [Requests -> RequestState]
    <3>1. "mark_submitted" \in RequestPc
      BY DEF RequestPc
    <3> QED
      BY <1>10, <2>1, <3>1, RequestUpdate DEF TypeOK, RecordSubmitted
  <2> QED
    BY <1>10, <2>2, AttemptType DEF TypeOK, RecordSubmitted
<1>11. ASSUME NEW q \in Requests, RecordRejected(q)
      PROVE  TypeOK'
  <2>1. req' \in [Requests -> RequestState]
    BY <1>11, GotoType DEF TypeOK, RecordRejected, RequestPc
  <2> QED
    BY <1>11, <2>1, AttemptType DEF TypeOK, RecordRejected
<1>12. ASSUME NEW q \in Requests, RecordUnknown(q)
      PROVE  TypeOK'
  <2>1. req' \in [Requests -> RequestState]
    BY <1>12, GotoType DEF TypeOK, RecordUnknown, RequestPc
  <2> QED
    BY <1>12, <2>1, AttemptType DEF TypeOK, RecordUnknown
<1>13. ASSUME NEW q \in Requests, MarkSubmitted(q)
      PROVE  TypeOK'
  <2> DEFINE r == [row[req[q].intent] EXCEPT !.status = "submitted",
                                             !.tx = req[q].tx,
                                             !.guardStatus = Guarded("frozen")]
  <2>1. req[q].intent \in Intents
    BY <1>13 DEF Started, MarkSubmitted
  <2>2. r \in Row
    <3>1. row[req[q].intent] \in Row
      BY <2>1 DEF TypeOK
    <3>2. req[q].key \in Keys \cup {None} /\ req[q].tx \in Requests \cup {None}
      BY DEF TypeOK, RequestState
    <3> QED
      BY <3>1, <3>2, RowFields, GuardedType, VerdictType, Literals
  <2>3. row' = [row EXCEPT ![req[q].intent] = r]
    BY <1>13 DEF TypeOK, MarkSubmitted
  <2>4. row' \in [Intents -> Row]
    BY <2>1, <2>2, <2>3, RowUpdate DEF TypeOK
  <2>5. req' \in [Requests -> RequestState]
    BY <1>13, GotoType DEF TypeOK, MarkSubmitted, RequestPc
  <2> QED
    BY <1>13, <2>4, <2>5 DEF TypeOK, MarkSubmitted
<1>14. ASSUME NEW q \in Requests, Verify(q)
      PROVE  TypeOK'
  <2>1. req' \in [Requests -> RequestState]
    <3>1. CASE \E v \in Verdict :
                  req' = [req EXCEPT ![q].pc = AfterVerdict(v), ![q].verdict = v]
      <4>1. PICK v \in Verdict : req' = [req EXCEPT ![q].pc = AfterVerdict(v), ![q].verdict = v]
        BY <3>1
      <4>2. AfterVerdict(v) \in RequestPc
        BY DEF AfterVerdict, RequestPc
      <4> QED
        BY <4>1, <4>2, RequestUpdate DEF TypeOK
    <3>2. CASE Goto(q, "rescue")
      BY <3>2, GotoType DEF TypeOK, RequestPc
    <3>3. "PENDING" \in Verdict
      BY DEF Verdict
    <3> QED
      BY <1>14, <3>1, <3>2, <3>3, VerdictType DEF Verify
  <2> QED
    BY <1>14, <2>1 DEF TypeOK, Verify
<1>15. ASSUME NEW q \in Requests, ReleaseReverted(q)
      PROVE  TypeOK'
  <2>1. req' \in [Requests -> RequestState]
    BY <1>15, GotoType DEF TypeOK, ReleaseReverted, RequestPc
  <2> QED
    BY <1>15, <2>1 DEF TypeOK, ReleaseReverted, Released
<1>16. ASSUME NEW q \in Requests, MarkUnsettled(q)
      PROVE  TypeOK'
  <2> DEFINE r == [row[req[q].intent] EXCEPT !.status = StatusOf(req[q].verdict),
                                             !.settlement = SettlementOf(req[q].verdict),
                                             !.guardStatus = Guarded(GuardLabelOf(req[q].verdict))]
  <2>1. req[q].intent \in Intents
    BY <1>16 DEF Started, MarkUnsettled
  <2>2. r \in Row
    <3>1. row[req[q].intent] \in Row
      BY <2>1 DEF TypeOK
    <3>2. req[q].key \in Keys \cup {None} /\ req[q].tx \in Requests \cup {None}
      BY DEF TypeOK, RequestState
    <3> QED
      BY <3>1, <3>2, RowFields, GuardedType, VerdictType, Literals
  <2>3. row' = [row EXCEPT ![req[q].intent] = r]
    BY <1>16 DEF TypeOK, MarkUnsettled
  <2>4. row' \in [Intents -> Row]
    BY <2>1, <2>2, <2>3, RowUpdate DEF TypeOK
  <2>5. req' \in [Requests -> RequestState]
    BY <1>16, GotoType DEF TypeOK, MarkUnsettled, RequestPc
  <2> QED
    BY <1>16, <2>4, <2>5 DEF TypeOK, MarkUnsettled
<1>17. ASSUME NEW q \in Requests, Commit(q)
      PROVE  TypeOK'
  <2>1. req' \in [Requests -> RequestState]
    BY <1>17, GotoType DEF TypeOK, Commit, RequestPc
  <2> QED
    BY <1>17, <2>1 DEF TypeOK, Commit, Committed
<1>18. ASSUME NEW q \in Requests, MarkConfirmed(q)
      PROVE  TypeOK'
  <2> DEFINE r == [row[req[q].intent] EXCEPT !.status = "confirmed",
                                             !.tx = req[q].tx,
                                             !.key = req[q].key,
                                             !.settlement = "confirmed",
                                             !.guardStatus = Guarded("committed")]
  <2>1. req[q].intent \in Intents
    BY <1>18 DEF Started, MarkConfirmed
  <2>2. r \in Row
    <3>1. row[req[q].intent] \in Row
      BY <2>1 DEF TypeOK
    <3>2. req[q].key \in Keys \cup {None} /\ req[q].tx \in Requests \cup {None}
      BY DEF TypeOK, RequestState
    <3> QED
      BY <3>1, <3>2, RowFields, GuardedType, VerdictType, Literals
  <2>3. row' = [row EXCEPT ![req[q].intent] = r]
    BY <1>18 DEF TypeOK, MarkConfirmed
  <2>4. row' \in [Intents -> Row]
    BY <2>1, <2>2, <2>3, RowUpdate DEF TypeOK
  <2>5. req' \in [Requests -> RequestState]
    BY <1>18, GotoType DEF TypeOK, MarkConfirmed, RequestPc
  <2> QED
    BY <1>18, <2>4, <2>5 DEF TypeOK, MarkConfirmed
<1>19. ASSUME NEW q \in Requests, SettleInvoice(q)
      PROVE  TypeOK'
  <2>1. req' \in [Requests -> RequestState]
    BY <1>19, GotoType DEF TypeOK, SettleInvoice, RequestPc
  <2> QED
    BY <1>19, <2>1 DEF TypeOK, SettleInvoice
<1>20. ASSUME NEW q \in Requests, Fulfil(q)
      PROVE  TypeOK'
  <2>1. req' \in [Requests -> RequestState]
    BY <1>20, GotoType DEF TypeOK, Fulfil, RequestPc
  <2>2. req[q].intent \in Intents
    BY <1>20 DEF Started, Fulfil
  <2> QED
    BY <1>20, <2>1, <2>2 DEF TypeOK, Fulfil
<1>21. ASSUME NEW q \in Requests, RescueDropped(q)
      PROVE  TypeOK'
  <2> DEFINE r == [row[req[q].intent] EXCEPT !.guardStatus = Guarded("frozen"),
                                             !.settlement = "pending"]
  <2>1. req[q].intent \in Intents
    BY <1>21 DEF Started, RescueDropped
  <2>2. r \in Row
    <3>1. row[req[q].intent] \in Row
      BY <2>1 DEF TypeOK
    <3>2. req[q].key \in Keys \cup {None} /\ req[q].tx \in Requests \cup {None}
      BY DEF TypeOK, RequestState
    <3> QED
      BY <3>1, <3>2, RowFields, GuardedType, VerdictType, Literals
  <2>3. row' = row \/ row' = [row EXCEPT ![req[q].intent] = r]
    BY <1>21 DEF TypeOK, RescueDropped
  <2>4. row' \in [Intents -> Row]
    BY <2>1, <2>2, <2>3, RowUpdate DEF TypeOK
  <2>5. req' \in [Requests -> RequestState]
    BY <1>21, GotoType DEF TypeOK, RescueDropped, RequestPc
  <2> QED
    BY <1>21, <2>4, <2>5 DEF TypeOK, RescueDropped
<1>22. ASSUME NEW q \in Requests, RescueBroadcast(q)
      PROVE  TypeOK'
  <2> DEFINE r == [row[req[q].intent] EXCEPT !.status = "unknown",
                                             !.tx = req[q].tx,
                                             !.key = req[q].key,
                                             !.guardStatus = Guarded("frozen"),
                                             !.settlement = "pending"]
  <2>1. req[q].intent \in Intents
    BY <1>22 DEF Started, RescueBroadcast
  <2>2. r \in Row
    <3>1. row[req[q].intent] \in Row
      BY <2>1 DEF TypeOK
    <3>2. req[q].key \in Keys \cup {None} /\ req[q].tx \in Requests \cup {None}
      BY DEF TypeOK, RequestState
    <3> QED
      BY <3>1, <3>2, RowFields, GuardedType, VerdictType, Literals
  <2>3. row' = row \/ row' = [row EXCEPT ![req[q].intent] = r]
    BY <1>22 DEF TypeOK, RescueBroadcast
  <2>4. row' \in [Intents -> Row]
    BY <2>1, <2>2, <2>3, RowUpdate DEF TypeOK
  <2>5. req' \in [Requests -> RequestState]
    BY <1>22, GotoType DEF TypeOK, RescueBroadcast, RequestPc
  <2> QED
    BY <1>22, <2>4, <2>5 DEF TypeOK, RescueBroadcast
<1>23. ASSUME NEW q \in Requests, RescueRelease(q)
      PROVE  TypeOK'
  <2>1. req' \in [Requests -> RequestState]
    BY <1>23, GotoType DEF TypeOK, RescueRelease, RequestPc
  <2> QED
    BY <1>23, <2>1 DEF TypeOK, RescueRelease, Released
<1>24. ASSUME NEW q \in Requests, MarkFailed(q)
      PROVE  TypeOK'
  <2> DEFINE r == [row[req[q].intent] EXCEPT !.status = "failed",
                                             !.key = req[q].key]
  <2>1. req[q].intent \in Intents
    BY <1>24 DEF Started, MarkFailed
  <2>2. r \in Row
    <3>1. row[req[q].intent] \in Row
      BY <2>1 DEF TypeOK
    <3>2. req[q].key \in Keys \cup {None} /\ req[q].tx \in Requests \cup {None}
      BY DEF TypeOK, RequestState
    <3> QED
      BY <3>1, <3>2, RowFields, GuardedType, VerdictType, Literals
  <2>3. row' = row \/ row' = [row EXCEPT ![req[q].intent] = r]
    BY <1>24 DEF TypeOK, MarkFailed
  <2>4. row' \in [Intents -> Row]
    BY <2>1, <2>2, <2>3, RowUpdate DEF TypeOK
  <2>5. req' \in [Requests -> RequestState]
    BY <1>24, GotoType DEF TypeOK, MarkFailed, RequestPc
  <2> QED
    BY <1>24, <2>4, <2>5 DEF TypeOK, MarkFailed
<1>25. ASSUME NEW q \in Requests, StoreFault(q)
      PROVE  TypeOK'
  <2>1. req' \in [Requests -> RequestState]
    BY <1>25, GotoType DEF TypeOK, StoreFault, RequestPc
  <2> QED
    BY <1>25, <2>1 DEF TypeOK, StoreFault
<1>26. ASSUME NEW q \in Requests, CrashRequest(q)
      PROVE  TypeOK'
  <2>1. req' \in [Requests -> RequestState]
    BY <1>26, GotoType DEF TypeOK, CrashRequest, RequestPc
  <2> QED
    BY <1>26, <2>1 DEF TypeOK, CrashRequest
<1>27. ASSUME NEW s \in Sweeps, SweepStart(s)
      PROVE  TypeOK'
  <2>1. \E w \in SweepState : sweep' = [sweep EXCEPT ![s] = w]
    <3> DEFINE candidates == {i \in Intents :
                                row[i].status \in ReconcileCandidates /\ row[i].tx # None}
               batch == {i \in candidates :
                           Cardinality({j \in candidates : j < i}) < BatchSize}
               w == [pc |-> IF batch = {} THEN "idle" ELSE "verify", verdict |-> "none",
                     seen |-> [i \in Intents |-> IF i \in batch THEN row[i] ELSE NewRow]]
    <3>1. w.seen \in [Intents -> Row]
      <4> HIDE DEF batch
      <4> QED BY NewRowType DEF TypeOK
    <3>2. w \in SweepState
      <4> HIDE DEF batch
      <4> QED BY <3>1 DEF SweepState, SweepPc, Verdict
    <3>3. sweep' = [sweep EXCEPT ![s] = w]
      BY <1>27 DEF SweepStart, IsReconcileCandidate
    <3> QED
      BY <3>2, <3>3
  <2> QED
    BY <1>27, <2>1, SweepUpdated DEF TypeOK, SweepStart
<1>28. ASSUME NEW s \in Sweeps, SweepVerify(s)
      PROVE  TypeOK'
  <2>1. sweep' \in [Sweeps -> SweepState]
    <3>1. CASE \E v \in Verdict :
                  sweep' = [sweep EXCEPT ![s].pc = AfterSweepVerdict(s, v), ![s].verdict = v]
      <4>1. PICK v \in Verdict :
                   sweep' = [sweep EXCEPT ![s].pc = AfterSweepVerdict(s, v), ![s].verdict = v]
        BY <3>1
      <4>2. AfterSweepVerdict(s, v) \in SweepPc
        BY DEF AfterSweepVerdict, SweepPc
      <4> QED
        BY <4>1, <4>2, SweepVerdictUpdate DEF TypeOK
    <3>2. CASE \E w \in {Forget(s), Abort} : sweep' = [sweep EXCEPT ![s] = w]
      BY <3>2, ForgetType, AbortType DEF TypeOK
    <3> QED
      BY <1>28, <3>1, <3>2, VerdictType DEF SweepVerify
  <2> QED
    BY <1>28, <2>1 DEF TypeOK, SweepVerify
<1>29. ASSUME NEW s \in Sweeps, SweepCommit(s)
      PROVE  TypeOK'
  <2>1. sweep' \in [Sweeps -> SweepState]
    <3>1. CASE sweep' = [sweep EXCEPT ![s].pc = "update"]
      BY <3>1, Literals DEF TypeOK, SweepState
    <3>2. CASE sweep' = [sweep EXCEPT ![s] = Abort]
      BY <3>2, AbortType DEF TypeOK
    <3> QED
      BY <1>29, <3>1, <3>2 DEF SweepCommit
  <2> QED
    BY <1>29, <2>1 DEF TypeOK, SweepCommit, Committed
<1>30. ASSUME NEW s \in Sweeps, SweepRelease(s)
      PROVE  TypeOK'
  <2>1. sweep' \in [Sweeps -> SweepState]
    BY <1>30, Literals DEF TypeOK, SweepRelease, SweepState
  <2> QED
    BY <1>30, <2>1 DEF TypeOK, SweepRelease, Released
<1>31. ASSUME NEW s \in Sweeps, SweepUpdate(s)
      PROVE  TypeOK'
  <2>1. row' \in [Intents -> Row]
    <3> DEFINE r == [row[Current(s)] EXCEPT !.status = StatusOf(sweep[s].verdict),
                                            !.settlement = SettlementOf(sweep[s].verdict),
                                            !.guardStatus = SweepLabel(s)]
    <3>1. row' = [row EXCEPT ![Current(s)] = r]
      BY <1>31 DEF TypeOK, SweepUpdate
    <3>2. CASE Current(s) \in Intents
      <4>1. SweepLabel(s) \in GuardStatus
        BY <3>2, VerdictType DEF SweepLabel, TypeOK, Row
      <4>2. r \in Row
        BY <3>2, <4>1, VerdictType, RowFields DEF TypeOK
      <4> HIDE DEF r
      <4> QED
        BY <3>1, <3>2, <4>2 DEF TypeOK
    <3>3. CASE Current(s) \notin Intents
      <4> HIDE DEF r
      <4> QED
        BY <3>1, <3>3 DEF TypeOK
    <3> QED
      BY <3>2, <3>3
  <2>2. sweep' \in [Sweeps -> SweepState]
    <3>1. CASE sweep[s].verdict = "CONFIRMED"
      BY <1>31, <3>1, Literals DEF TypeOK, SweepUpdate, SweepState
    <3>2. CASE sweep[s].verdict # "CONFIRMED"
      BY <1>31, <3>2, ForgetType DEF TypeOK, SweepUpdate
    <3> QED
      BY <3>1, <3>2
  <2> QED
    BY <1>31, <2>1, <2>2 DEF TypeOK, SweepUpdate
<1>32. ASSUME NEW s \in Sweeps, SweepFulfil(s)
      PROVE  TypeOK'
  <2>1. sweep' \in [Sweeps -> SweepState]
    BY <1>32, ForgetType DEF TypeOK, SweepFulfil
  <2>2. Current(s) \in Intents
    BY <1>32, CurrentChosen DEF SweepHasWork, SweepFulfil
  <2> QED
    BY <1>32, <2>1, <2>2 DEF TypeOK, SweepFulfil
<1>33. ASSUME NEW s \in Sweeps, CrashSweep(s)
      PROVE  TypeOK'
  <2>1. sweep' \in [Sweeps -> SweepState]
    BY <1>33, AbortType DEF TypeOK, CrashSweep
  <2> QED
    BY <1>33, <2>1 DEF TypeOK, CrashSweep
<1>34. ASSUME NEW e \in Requests, Mine(e)
      PROVE  TypeOK'
  BY <1>34 DEF TypeOK, Mine
<1>35. ASSUME NEW p \in Intents \X Keys, ReplayExpires(p)
      PROVE  TypeOK'
  BY <1>35 DEF TypeOK, ReplayExpires
<1>36. CASE UNCHANGED vars
  BY <1>36 DEF TypeOK, vars
<1> QED
  BY <1>1, <1>2, <1>3, <1>4, <1>5, <1>6, <1>7, <1>8, <1>9, <1>10, <1>11, <1>12, <1>13, <1>14, <1>15, <1>16, <1>17, <1>18, <1>19, <1>20, <1>21, <1>22, <1>23, <1>24, <1>25, <1>26, <1>27, <1>28, <1>29, <1>30, <1>31, <1>32, <1>33, <1>34, <1>35, <1>36
  DEF Next, RequestStep, SweepStep
-----------------------------------------------------------------------------
(* What a step of a call may touch. *)

\* A step of call q touches no other call, never its own intent and key, and
\* binds it to an execution only by claiming the intent or by reading it again.
LEMMA RequestEffect ==
  ASSUME TypeOK, NEW q \in Requests, RequestStep(q) \/ StoreFault(q) \/ CrashRequest(q)
  PROVE  /\ \A p \in Requests \ {q} : req'[p] = req[p]
         /\ req[q].pc # "idle" /\ req'[q].pc # "idle"
         /\ req'[q].intent = req[q].intent /\ req'[q].key = req[q].key
         /\ req'[q].pc \in Early => req[q].pc \in Early
         /\ \/ Claim(q) \/ Reread(q)
            \/ /\ req'[q].exec = req[q].exec
               /\ req'[q].pc \in Bound => req[q].pc \in Bound
<1> req \in [Requests -> RequestState]
  BY DEF TypeOK
<1> DEFINE Kept == /\ \A p \in Requests \ {q} : req'[p] = req[p]
                   /\ req[q].pc # "idle" /\ req'[q].pc # "idle"
                   /\ req'[q].intent = req[q].intent /\ req'[q].key = req[q].key
                   /\ req'[q].exec = req[q].exec
                   /\ req'[q].pc \in Early => req[q].pc \in Early
                   /\ req'[q].pc \in Bound => req[q].pc \in Bound
<1>early. ASSUME NEW label \in RequestPc \ (Bound \cup {"idle"}), Goto(q, label),
                 req[q].pc \in Early \ {"idle"}
          PROVE  Kept
  BY <1>early DEF Goto, RequestState, Bound, Early
<1>bound. ASSUME NEW label \in RequestPc \ Early, Goto(q, label), req[q].pc \in Bound
          PROVE  Kept
  BY <1>bound DEF Goto, RequestState, Bound, Early
<1>tx. ASSUME req[q].pc \in Bound,
              req' = [req EXCEPT ![q].pc = "mark_submitted", ![q].tx = req[q].exec]
       PROVE  Kept
  BY <1>tx DEF RequestState, Bound, Early
<1>1. CASE LookupKey(q) \/ LookupIntent(q) \/ GuardClaim(q) \/ GuardReserve(q)
  <2>1. \E label \in RequestPc \ (Bound \cup {"idle"}) : Goto(q, label)
    BY <1>1 DEF LookupKey, LookupIntent, GuardClaim, GuardReserve, RequestPc, Bound
  <2>2. req[q].pc \in Early \ {"idle"}
    BY <1>1 DEF LookupKey, LookupIntent, GuardClaim, GuardReserve, Early
  <2> QED
    BY <1>early, <2>1, <2>2
<1>2. CASE Claim(q) \/ Reread(q)
  BY <1>2 DEF Claim, Reread, Goto, RequestState, Early
<1>3. CASE Attempt(q) \/ RecordSubmitted(q)
  <2>1. req[q].pc \in Bound
    BY <1>3 DEF Attempt, RecordSubmitted, Bound
  <2>2. \/ Goto(q, "transfer")
        \/ req' = [req EXCEPT ![q].pc = "mark_submitted", ![q].tx = req[q].exec]
    BY <1>3 DEF Attempt, RecordSubmitted, Goto
  <2>3. "transfer" \in RequestPc \ Early
    BY DEF RequestPc, Early
  <2> QED
    BY <1>bound, <1>tx, <2>1, <2>2, <2>3
<1>4. CASE \/ Transfer(q) \/ RecordRejected(q) \/ RecordUnknown(q) \/ MarkSubmitted(q)
           \/ ReleaseReverted(q) \/ MarkUnsettled(q) \/ Commit(q) \/ MarkConfirmed(q)
  <2>1. \E label \in RequestPc \ Early : Goto(q, label)
    BY <1>4 DEF Transfer, RecordRejected, RecordUnknown, MarkSubmitted,
                ReleaseReverted, MarkUnsettled, Commit, MarkConfirmed, RequestPc, Early
  <2>2. req[q].pc \in Bound
    BY <1>4 DEF Transfer, RecordRejected, RecordUnknown, MarkSubmitted,
                ReleaseReverted, MarkUnsettled, Commit, MarkConfirmed, Bound
  <2> QED
    BY <1>bound, <2>1, <2>2
<1>5. CASE Verify(q)
  <2>1. PICK label \in Bound : \/ req' = [req EXCEPT ![q].pc = label]
                              \/ \E v : req' = [req EXCEPT ![q].pc = label, ![q].verdict = v]
    BY <1>5 DEF Verify, AfterVerdict, Goto, Bound
  <2>2. req[q].pc \in Bound
    BY <1>5 DEF Verify, Bound
  <2> QED
    BY <2>1, <2>2 DEF RequestState, Bound, Early
<1>6. CASE \/ SettleInvoice(q) \/ Fulfil(q) \/ RescueDropped(q) \/ RescueBroadcast(q)
           \/ RescueRelease(q) \/ MarkFailed(q)
  <2>1. \E label \in RequestPc \ Early : Goto(q, label)
    BY <1>6 DEF SettleInvoice, Fulfil, RescueDropped, RescueBroadcast,
                RescueRelease, MarkFailed, RequestPc, Early
  <2>2. req[q].pc \in Bound
    BY <1>6 DEF SettleInvoice, Fulfil, RescueDropped, RescueBroadcast,
                RescueRelease, MarkFailed, Bound
  <2> QED
    BY <1>bound, <2>1, <2>2
<1>7. CASE StoreFault(q) \/ CrashRequest(q)
  <2>1. \/ Goto(q, "failed")
        \/ Goto(q, "rescue") /\ req[q].pc \in TryBlock
    BY <1>7 DEF StoreFault, CrashRequest
  <2>2. req[q].pc # "idle"
    BY <1>7 DEF StoreFault, CrashRequest, TryBlock, OutsideTry
  <2> QED
    BY <2>1, <2>2 DEF TryBlock, Goto, RequestState, Bound, Early
<1> QED
  BY <1>1, <1>2, <1>3, <1>4, <1>5, <1>6, <1>7 DEF RequestStep

\* No step but a claim changes what a row is claimed for, and none makes it
\* claimable again.
LEMMA RowEffect ==
  ASSUME TypeOK, Started, ExecutionOwned, [Next]_vars, NEW i \in Intents
  PROVE  \/ \E q \in Requests :
              /\ Claim(q) /\ req[q].intent = i /\ row[i].status = "prepared"
              /\ row'[i].execId = q /\ row'[i].key = req[q].key
              /\ row'[i].status = "executing"
         \/ /\ row'[i].execId = row[i].execId
            /\ row'[i].key = row[i].key
            /\ row'[i].guardAuth = row[i].guardAuth
            /\ row'[i].status = row[i].status \/ row'[i].status \notin {"prepared", "executing"}
<1> DEFINE Kept == /\ row'[i].execId = row[i].execId
                   /\ row'[i].key = row[i].key
                   /\ row'[i].guardAuth = row[i].guardAuth
                   /\ \/ row'[i].status = row[i].status
                      \/ row'[i].status \notin {"prepared", "executing"}
<1> row \in [Intents -> Row] /\ row[i] \in Row
  BY DEF TypeOK
<1>1. ASSUME NEW q \in Requests, Claim(q), ~Kept
      PROVE  /\ req[q].intent = i /\ row[i].status = "prepared"
             /\ row'[i].execId = q /\ row'[i].key = req[q].key
             /\ row'[i].status = "executing"
  BY <1>1 DEF Claim, Claimable, Correlated
<1>2. ASSUME NEW q \in Requests,
             MarkConfirmed(q) \/ RescueBroadcast(q) \/ MarkFailed(q)
      PROVE  Kept
  <2>1. /\ req[q].intent \in Intents
        /\ row[req[q].intent].key = req[q].key
    BY <1>2 DEF MarkConfirmed, RescueBroadcast, MarkFailed, Started, ExecutionOwned, Bound
  <2>2. CASE MarkConfirmed(q)
    BY <2>1, <2>2 DEF MarkConfirmed, Row
  <2>3. CASE RescueBroadcast(q)
    BY <2>1, <2>3 DEF RescueBroadcast, Row
  <2>4. CASE MarkFailed(q)
    BY <2>1, <2>4 DEF MarkFailed, Row
  <2> QED
    BY <1>2, <2>2, <2>3, <2>4
<1>3. ASSUME NEW q \in Requests,
             MarkSubmitted(q) \/ MarkUnsettled(q) \/ RescueDropped(q)
      PROVE  Kept
  <2>1. CASE MarkSubmitted(q)
    BY <2>1, VerdictType DEF MarkSubmitted, Row
  <2>2. CASE MarkUnsettled(q)
    BY <2>2, VerdictType DEF MarkUnsettled, Row
  <2>3. CASE RescueDropped(q)
    BY <2>3, VerdictType DEF RescueDropped, Row
  <2> QED
    BY <1>3, <2>1, <2>2, <2>3
<1>4. ASSUME NEW s \in Sweeps, SweepUpdate(s)
      PROVE  Kept
  BY <1>4, VerdictType DEF SweepUpdate, Row
<1>5. CASE UNCHANGED row
  BY <1>5
<1>6. \/ UNCHANGED row
      \/ \E q \in Requests : \/ Claim(q) \/ MarkConfirmed(q) \/ RescueBroadcast(q)
                             \/ MarkFailed(q) \/ MarkSubmitted(q) \/ MarkUnsettled(q)
                             \/ RescueDropped(q)
      \/ \E s \in Sweeps : SweepUpdate(s)
  BY DEF Next, RequestStep, SweepStep, vars, Start, StoreFault, CrashRequest, CrashSweep,
         Mine, ReplayExpires, LookupKey, LookupIntent, GuardClaim, GuardReserve, Reread,
         Attempt, Transfer, RecordSubmitted, RecordRejected, RecordUnknown, Verify,
         ReleaseReverted, Commit, SettleInvoice, Fulfil, RescueRelease, SweepStart,
         SweepVerify, SweepCommit, SweepRelease, SweepFulfil
<1> QED
  BY <1>1, <1>2, <1>3, <1>4, <1>5, <1>6

\* Only the provider's acceptance puts a transfer on the chain.
LEMMA ChainEffect ==
  ASSUME TypeOK, [Next]_vars, NEW e \in Requests, chain'[e] # "none"
  PROVE  chain[e] # "none" \/ \E q \in Requests : Transfer(q) /\ req[q].exec = e
<1>1. ASSUME NEW q \in Requests, Transfer(q)
      PROVE  req[q].exec = e \/ chain[e] # "none"
  BY <1>1 DEF Transfer, TypeOK
<1>2. ASSUME NEW d \in Requests, Mine(d)
      PROVE  chain[e] # "none"
  BY <1>2 DEF Mine, TypeOK
<1>3. ASSUME NEW q \in Requests, RequestStep(q) \/ StoreFault(q) \/ CrashRequest(q)
      PROVE  UNCHANGED chain \/ Transfer(q)
  BY <1>3
  DEF RequestStep, StoreFault, CrashRequest, LookupKey, LookupIntent, GuardClaim,
      GuardReserve, Claim, Reread, Attempt, RecordSubmitted, RecordRejected, RecordUnknown,
      MarkSubmitted, Verify, ReleaseReverted, MarkUnsettled, Commit, MarkConfirmed,
      SettleInvoice, Fulfil, RescueDropped, RescueBroadcast, RescueRelease, MarkFailed
<1>4. ASSUME NEW s \in Sweeps, SweepStep(s) \/ CrashSweep(s)
      PROVE  UNCHANGED chain
  BY <1>4 DEF SweepStep, CrashSweep, SweepStart, SweepVerify, SweepCommit, SweepRelease,
              SweepUpdate, SweepFulfil
<1>5. ASSUME \/ \E q \in Requests, i \in Intents, k \in Keys : Start(q, i, k)
             \/ \E p \in Intents \X Keys : ReplayExpires(p)
             \/ UNCHANGED vars
      PROVE  UNCHANGED chain
  BY <1>5 DEF Start, ReplayExpires, vars
<1> QED
  BY <1>1, <1>2, <1>3, <1>4, <1>5 DEF Next
-----------------------------------------------------------------------------
(* The inductive invariant. *)

IInv == TypeOK /\ Started /\ SweepHasWork /\ ExecutionOwned /\ NotYetReserved

LEMMA InitIInv == Init => IInv
<1> SUFFICES ASSUME Init PROVE IInv
  OBVIOUS
<1> USE DEF Init
<1>0. row \in [Intents -> Row]
  BY NewRowType
<1>1. sweep \in [Sweeps -> SweepState]
  <2>1. [i \in Intents |-> NewRow] \in [Intents -> Row]
    BY NewRowType
  <2> QED
    BY <2>1 DEF SweepState, SweepPc, Verdict
<1> USE NoneAssumption
<1>2. req \in [Requests -> RequestState]
  BY DEF RequestState, RequestPc, Verdict
<1>3. TypeOK
  <2>1. /\ attempt \in [Requests -> AttemptStatus]
        /\ auth \in [Requests -> {"none", "reserved", "committed", "released"}]
        /\ replay \in [Intents \X Keys -> {"free", "claimed", "expired"}]
        /\ chain \in [Requests -> {"none", "pending", "success", "mismatch", "reverted"}]
        /\ invoice \in [Intents -> {"approved", "executed"}]
    BY DEF AttemptStatus
  <2>2. fulfilled \subseteq Intents /\ faultsLeft \in 0..MaxFaults
    BY FaultAssumption
  <2> QED
    BY <1>0, <1>1, <1>2, <2>1, <2>2 DEF TypeOK
<1>4. Started /\ SweepHasWork /\ NotYetReserved
  BY DEF Started, SweepHasWork, NotYetReserved
<1>5. ExecutionOwned
  BY DEF ExecutionOwned, NewRow, Bound
<1> QED
  BY <1>3, <1>4, <1>5 DEF IInv

\* How the calls move: a call starts, takes a step, or stays as it is.
LEMMA RequestsMove ==
  ASSUME [Next]_vars
  PROVE  \/ \E q \in Requests : RequestStep(q) \/ StoreFault(q) \/ CrashRequest(q)
         \/ \E q \in Requests, i \in Intents, k \in Keys : Start(q, i, k)
         \/ UNCHANGED req
BY DEF Next, vars, SweepStep, CrashSweep, SweepStart, SweepVerify, SweepCommit, SweepRelease,
       SweepUpdate, SweepFulfil, Mine, ReplayExpires

LEMMA StartedStep ==
  ASSUME TypeOK, Started, [Next]_vars
  PROVE  Started'
<1>1. ASSUME NEW q \in Requests, RequestStep(q) \/ StoreFault(q) \/ CrashRequest(q)
      PROVE  Started'
  BY <1>1, RequestEffect DEF Started
<1>2. ASSUME NEW q \in Requests, NEW i \in Intents, NEW k \in Keys, Start(q, i, k)
      PROVE  Started'
  BY <1>2 DEF Started, Start, TypeOK, RequestState
<1>3. CASE UNCHANGED req
  BY <1>3 DEF Started
<1> QED
  BY <1>1, <1>2, <1>3, RequestsMove

LEMMA SweepStepKeepsWork ==
  ASSUME TypeOK, SweepHasWork, [Next]_vars
  PROVE  SweepHasWork'
<1> DEFINE Work(w) == w.pc # "idle" =>
                        {i \in Intents : w.seen[i].status \in ReconcileCandidates} # {}
<1> SUFFICES ASSUME NEW s \in Sweeps PROVE Work(sweep[s])'
  BY DEF SweepHasWork, Todo
<1>0. sweep \in [Sweeps -> SweepState] /\ Work(sweep[s])
  BY DEF TypeOK, SweepHasWork, Todo
<1>1. Work(Abort)
  BY DEF Abort
<1>2. ASSUME sweep[s].pc # "idle"
      PROVE  Work(Forget(s))
  <2>1. Current(s) \in Todo(s) /\ Todo(s) \subseteq Intents
    BY <1>2, CurrentChosen DEF SweepHasWork
  <2>2. /\ Forget(s).pc # "idle" => Todo(s) # {Current(s)}
        /\ \A i \in Intents \ {Current(s)} : Forget(s).seen[i] = sweep[s].seen[i]
    BY <1>0 DEF Forget, SweepState
  <2> QED
    BY <2>1, <2>2 DEF Todo
<1>3. ASSUME SweepStart(s) PROVE Work(sweep'[s])
  BY <1>0, <1>3 DEF SweepStart, IsReconcileCandidate
<1>4. ASSUME SweepVerify(s) \/ SweepCommit(s) \/ SweepRelease(s) \/ SweepUpdate(s)
             \/ SweepFulfil(s) \/ CrashSweep(s)
      PROVE  Work(sweep'[s])
  <2>1. sweep[s].pc # "idle"
    BY <1>4 DEF SweepVerify, SweepCommit, SweepRelease, SweepUpdate, SweepFulfil, CrashSweep
  <2>2. \/ sweep'[s].seen = sweep[s].seen
        \/ sweep'[s] = Abort
        \/ sweep'[s] = Forget(s)
    <3>1. CASE SweepVerify(s)
      <4>1. CASE \E label, v : sweep' = [sweep EXCEPT ![s].pc = label, ![s].verdict = v]
        BY <1>0, <4>1 DEF SweepState
      <4>2. CASE \E w \in {Forget(s), Abort} : sweep' = [sweep EXCEPT ![s] = w]
        BY <1>0, <4>2
      <4> QED
        BY <3>1, <4>1, <4>2 DEF SweepVerify
    <3>2. CASE SweepCommit(s) \/ SweepRelease(s) \/ SweepUpdate(s)
      BY <1>0, <3>2 DEF SweepCommit, SweepRelease, SweepUpdate, SweepState
    <3>3. CASE SweepFulfil(s) \/ CrashSweep(s)
      BY <1>0, <3>3 DEF SweepFulfil, CrashSweep
    <3> QED
      BY <1>4, <3>1, <3>2, <3>3
  <2> QED
    BY <1>0, <1>1, <1>2, <2>1, <2>2
<1>5. ASSUME NEW r \in Sweeps \ {s}, SweepStep(r) \/ CrashSweep(r)
      PROVE  sweep'[s] = sweep[s]
  BY <1>0, <1>5 DEF SweepStep, SweepStart, SweepVerify, SweepCommit, SweepRelease,
                    SweepUpdate, SweepFulfil, CrashSweep
<1>6. ASSUME NEW q \in Requests, RequestStep(q) \/ StoreFault(q) \/ CrashRequest(q)
      PROVE  UNCHANGED sweep
  BY <1>6
  DEF RequestStep, StoreFault, CrashRequest, LookupKey, LookupIntent, GuardClaim,
      GuardReserve, Claim, Reread, Attempt, Transfer, RecordSubmitted, RecordRejected,
      RecordUnknown, MarkSubmitted, Verify, ReleaseReverted, MarkUnsettled, Commit,
      MarkConfirmed, SettleInvoice, Fulfil, RescueDropped, RescueBroadcast, RescueRelease,
      MarkFailed
<1>7. ASSUME \/ \E q \in Requests, i \in Intents, k \in Keys : Start(q, i, k)
             \/ \E e \in Requests : Mine(e)
             \/ \E p \in Intents \X Keys : ReplayExpires(p)
             \/ UNCHANGED vars
      PROVE  UNCHANGED sweep
  BY <1>7 DEF Start, Mine, ReplayExpires, vars
<1> QED
  BY <1>0, <1>3, <1>4, <1>5, <1>6, <1>7 DEF Next, SweepStep

\* The heart of the argument, one conjunct of ExecutionOwned at a time.
LEMMA OwnedStep ==
  ASSUME TypeOK, Started, ExecutionOwned, [Next]_vars
  PROVE  ExecutionOwned'
<1> DEFINE Moved(q) == RequestStep(q) \/ StoreFault(q) \/ CrashRequest(q)
<1> USE NoneAssumption
<1>0. /\ req \in [Requests -> RequestState] /\ row \in [Intents -> Row]
      /\ \A q \in Requests : Claim(q) \/ Reread(q) => Moved(q)
  BY DEF TypeOK, RequestStep
\* A call that started never becomes idle, and keeps its intent and its key.
<1>1. \A q \in Requests : req[q].pc # "idle" =>
        req'[q].pc # "idle" /\ req'[q].intent = req[q].intent /\ req'[q].key = req[q].key
  <2> SUFFICES ASSUME NEW q \in Requests, req[q].pc # "idle"
               PROVE  /\ req'[q].pc # "idle"
                      /\ req'[q].intent = req[q].intent /\ req'[q].key = req[q].key
    OBVIOUS
  <2>1. ASSUME NEW p \in Requests, Moved(p)
        PROVE  /\ req'[q].pc # "idle"
               /\ req'[q].intent = req[q].intent /\ req'[q].key = req[q].key
    BY <2>1, RequestEffect
  <2>2. ASSUME NEW p \in Requests, NEW i \in Intents, NEW k \in Keys, Start(p, i, k)
        PROVE  req'[q] = req[q]
    BY <1>0, <2>2 DEF Start
  <2> QED
    BY <2>1, <2>2, RequestsMove
\* A row keeps its execution, unless it is claimed while it has none.
<1>2. \A i \in Intents : row[i].execId # None =>
        row'[i].execId = row[i].execId /\ row'[i].key = row[i].key
  BY RowEffect DEF ExecutionOwned
<1>3. ASSUME NEW i \in Intents
      PROVE  /\ row'[i].status = "prepared" => row'[i].execId = None
             /\ row'[i].status = "executing" => row'[i].execId # None
             /\ row'[i].execId # None =>
                  req'[row'[i].execId].pc # "idle" /\ req'[row'[i].execId].intent = i
  <2>1. CASE \E q \in Requests :
                /\ Claim(q) /\ req[q].intent = i
                /\ row'[i].execId = q /\ row'[i].status = "executing"
    <3>1. PICK q \in Requests : /\ Claim(q) /\ req[q].intent = i
                                /\ row'[i].execId = q /\ row'[i].status = "executing"
      BY <2>1
    <3>2. req[q].pc # "idle"
      BY <3>1 DEF Claim
    <3> QED
      BY <1>1, <3>1, <3>2
  <2>2. CASE /\ row'[i].execId = row[i].execId
             /\ row'[i].status = row[i].status \/ row'[i].status \notin {"prepared", "executing"}
    <3>1. row[i].execId \in Requests \cup {None}
      BY <1>0 DEF Row
    <3> QED
      BY <1>1, <2>2, <3>1 DEF ExecutionOwned
  <2> QED
    BY <2>1, <2>2, RowEffect
<1>4. ASSUME NEW q \in Requests
      PROVE  /\ req'[q].pc \in Bound => req'[q].exec # None
             /\ req'[q].exec # None => /\ row'[req'[q].intent].execId = req'[q].exec
                                     /\ row'[req'[q].intent].key = req'[q].key
  \* A call that keeps its execution: the row kept it too.
  <2>1. CASE /\ req'[q].exec = req[q].exec
             /\ req'[q].pc \in Bound => req[q].pc \in Bound
    <3>1. CASE req[q].exec = None
      BY <2>1, <3>1 DEF ExecutionOwned
    <3>2. CASE req[q].exec # None
      <4>1. req[q].pc # "idle" /\ req[q].intent \in Intents
        BY <3>2 DEF Started
      <4> QED
        BY <1>1, <1>2, <2>1, <3>2, <4>1 DEF ExecutionOwned
    <3> QED
      BY <3>1, <3>2
  \* A call that claims its intent, or fails to.
  <2>2. CASE Claim(q)
    <3>1. req[q].intent \in Intents /\ req[q].pc = "claim"
      BY <2>2 DEF Started, Claim
    <3>2. CASE req' = [req EXCEPT ![q].pc = "attempt", ![q].exec = q]
      <4>0. ~Goto(q, "failed") /\ ~Goto(q, "reread")
        BY <1>0, <3>2 DEF Goto, RequestState
      <4>1. row'[req[q].intent].execId = q /\ row'[req[q].intent].key = req[q].key
        BY <1>0, <2>2, <3>1, <4>0 DEF Claim, Correlated
      <4>2. req'[q].exec = q /\ req'[q].intent = req[q].intent /\ req'[q].key = req[q].key
        BY <1>0, <3>2 DEF RequestState
      <4> QED
        BY <4>1, <4>2
    <3>3. CASE \E label \in {"failed", "reread"} : Goto(q, label)
      <4>1. req'[q].exec = req[q].exec /\ req'[q].pc \notin Bound
        BY <1>0, <3>3 DEF Goto, RequestState, Bound
      <4> QED
        BY <2>1, <4>1
    <3> QED
      BY <2>2, <3>2, <3>3 DEF Claim
  \* A call that joins the execution it reads, or fails.
  <2>3. CASE Reread(q)
    <3>1. req[q].intent \in Intents /\ row' = row
      BY <2>3 DEF Started, Reread
    <3>2. CASE /\ req' = [req EXCEPT ![q].pc = "attempt", ![q].exec = row[req[q].intent].execId]
               /\ row[req[q].intent].status = "executing"
               /\ row[req[q].intent].key = req[q].key
      <4>1. /\ req'[q].exec = row[req[q].intent].execId
            /\ req'[q].intent = req[q].intent /\ req'[q].key = req[q].key
        BY <1>0, <3>2 DEF RequestState
      <4>2. row[req[q].intent].execId # None
        BY <3>1, <3>2 DEF ExecutionOwned
      <4> QED
        BY <3>1, <3>2, <4>1, <4>2
    <3>3. CASE Goto(q, "failed")
      <4>1. req'[q].exec = req[q].exec /\ req'[q].pc \notin Bound
        BY <1>0, <3>3 DEF Goto, RequestState, Bound
      <4> QED
        BY <2>1, <4>1
    <3> QED
      BY <2>3, <3>2, <3>3 DEF Reread, Joined
  <2>4. CASE \E p \in Requests : Moved(p)
    BY <2>1, <2>2, <2>3, <2>4, RequestEffect
  <2>5. CASE \E p \in Requests, i \in Intents, k \in Keys : Start(p, i, k)
    <3>1. req'[q].exec = req[q].exec /\ (req'[q].pc \in Bound => req[q].pc \in Bound)
      BY <1>0, <2>5 DEF Start, RequestState, Bound
    <3> QED
      BY <2>1, <3>1
  <2> QED
    BY <2>1, <2>4, <2>5, RequestsMove
\* What is on the chain was sent by a call for the execution of its intent.
<1>5. ASSUME NEW e \in Requests, chain'[e] # "none"
      PROVE  \E i \in Intents : row'[i].execId = e
  <2>1. \E i \in Intents : row[i].execId = e
    <3>1. CASE chain[e] # "none"
      BY <3>1 DEF ExecutionOwned
    <3>2. ASSUME NEW q \in Requests, Transfer(q), req[q].exec = e
          PROVE  \E i \in Intents : row[i].execId = e
      BY <3>2 DEF ExecutionOwned, Started, Transfer
    <3> QED
      BY <1>5, <3>1, <3>2, ChainEffect
  <2> QED
    BY <1>2, <2>1
<1> QED
  BY <1>3, <1>4, <1>5 DEF ExecutionOwned

\* An authorization changes by its own reservation, or by the commit or the
\* release of a reserved one.
LEMMA AuthEffect ==
  ASSUME TypeOK, [Next]_vars, NEW a \in Requests
  PROVE  \/ auth'[a] = auth[a]
         \/ GuardReserve(a)
         \/ auth[a] = "reserved" /\ auth'[a] \in {"committed", "released"}
<1> auth \in [Requests -> {"none", "reserved", "committed", "released"}]
  BY DEF TypeOK
<1>1. ASSUME NEW q \in Requests, GuardReserve(q)
      PROVE  auth'[a] = auth[a] \/ GuardReserve(a)
  BY <1>1 DEF GuardReserve
<1>2. ASSUME NEW b, auth' = Released(b)
      PROVE  auth'[a] = auth[a] \/ (auth[a] = "reserved" /\ auth'[a] = "released")
  BY <1>2 DEF Released
<1>3. ASSUME NEW b, Committable(b), auth' = Committed(b)
      PROVE  auth'[a] = auth[a] \/ (auth[a] = "reserved" /\ auth'[a] = "committed")
  BY <1>3 DEF Committable, Committed
<1>4. ASSUME NEW q \in Requests, RequestStep(q) \/ StoreFault(q) \/ CrashRequest(q)
      PROVE  \/ UNCHANGED auth \/ GuardReserve(q) \/ auth' = Released(q)
             \/ Committable(q) /\ auth' = Committed(q)
  BY <1>4
  DEF RequestStep, StoreFault, CrashRequest, LookupKey, LookupIntent, GuardClaim, Claim,
      Reread, Attempt, Transfer, RecordSubmitted, RecordRejected, RecordUnknown,
      MarkSubmitted, Verify, ReleaseReverted, MarkUnsettled, Commit, MarkConfirmed,
      SettleInvoice, Fulfil, RescueDropped, RescueBroadcast, RescueRelease, MarkFailed
<1>5. ASSUME NEW s \in Sweeps, SweepStep(s) \/ CrashSweep(s)
      PROVE  \/ UNCHANGED auth
             \/ \E b : \/ auth' = Released(b)
                       \/ Committable(b) /\ auth' = Committed(b)
  BY <1>5 DEF SweepStep, CrashSweep, SweepStart, SweepVerify, SweepCommit, SweepRelease,
              SweepUpdate, SweepFulfil
<1>6. ASSUME \/ \E q \in Requests, i \in Intents, k \in Keys : Start(q, i, k)
             \/ \E e \in Requests : Mine(e)
             \/ \E p \in Intents \X Keys : ReplayExpires(p)
             \/ UNCHANGED vars
      PROVE  UNCHANGED auth
  BY <1>6 DEF Start, Mine, ReplayExpires, vars
<1> QED
  BY <1>1, <1>2, <1>3, <1>4, <1>5, <1>6 DEF Next

LEMMA ReservedStep ==
  ASSUME TypeOK, NotYetReserved, [Next]_vars
  PROVE  NotYetReserved'
<1> SUFFICES ASSUME NEW q \in Requests, req'[q].pc \in Early PROVE auth'[q] = "none"
  BY DEF NotYetReserved
<1> req \in [Requests -> RequestState]
  BY DEF TypeOK
<1>1. ~GuardReserve(q)
  BY DEF GuardReserve, Goto, RequestState, Early
<1>2. req[q].pc \in Early
  <2>1. ASSUME NEW p \in Requests, RequestStep(p) \/ StoreFault(p) \/ CrashRequest(p)
        PROVE  req[q].pc \in Early
    BY <2>1, RequestEffect
  <2>2. ASSUME NEW p \in Requests, NEW i \in Intents, NEW k \in Keys, Start(p, i, k)
        PROVE  req[q].pc \in Early
    BY <2>2 DEF Start, RequestState, Early
  <2> QED
    BY <2>1, <2>2, RequestsMove
<1> QED
  BY <1>1, <1>2, AuthEffect DEF NotYetReserved
-----------------------------------------------------------------------------
(* The theorems. *)

LEMMA IInvStep == IInv /\ [Next]_vars => IInv'
<1> SUFFICES ASSUME IInv, [Next]_vars PROVE IInv'
  OBVIOUS
<1> QED
  BY TypeStep, StartedStep, SweepStepKeepsWork, OwnedStep, ReservedStep DEF IInv

LEMMA Invariance == Spec => []IInv
<1> QED
  BY InitIInv, IInvStep, PTL DEF Spec

\* Every value the program stores has the type its column or local allows.
THEOREM TypeCorrect == Spec => []TypeOK
<1>1. IInv => TypeOK
  BY DEF IInv
<1> QED
  BY <1>1, Invariance, PTL

\* Intents, running calls and the chain always agree on who executes what.
THEOREM ExecutionsOwned == Spec => []ExecutionOwned
<1>1. IInv => ExecutionOwned
  BY DEF IInv
<1> QED
  BY <1>1, Invariance, PTL

\* INV-003: no payment intent is ever paid twice, for any number of concurrent
\* calls, keys, sweeps and faults, with or without the guard.
THEOREM NoSecondTransfer == Spec => []AtMostOneTransfer
<1>1. IInv => AtMostOneTransfer
  <2> SUFFICES ASSUME IInv, NEW d \in Requests, NEW e \in Requests,
                      chain[d] # "none", chain[e] # "none", req[d].intent = req[e].intent
               PROVE  d = e
    BY DEF AtMostOneTransfer
  <2>1. PICK i \in Intents : row[i].execId = d
    BY DEF IInv, ExecutionOwned
  <2>2. PICK j \in Intents : row[j].execId = e
    BY DEF IInv, ExecutionOwned
  <2>3. i = j
    BY <2>1, <2>2, NoneAssumption DEF IInv, ExecutionOwned
  <2> QED
    BY <2>1, <2>2, <2>3
<1> QED
  BY <1>1, Invariance, PTL

\* Once an intent is claimed, its execution id, its key and its authorization
\* are what every later reader finds.
THEOREM CorrelationKept == Spec => CorrelationDurable
<1>1. IInv /\ [Next]_vars =>
        [\A i \in Intents : row[i].execId # None =>
            /\ row'[i].execId = row[i].execId
            /\ row'[i].key = row[i].key
            /\ row'[i].guardAuth = row[i].guardAuth]_vars
  <2> SUFFICES ASSUME IInv, [Next]_vars, NEW i \in Intents, row[i].execId # None
               PROVE  /\ row'[i].execId = row[i].execId
                      /\ row'[i].key = row[i].key
                      /\ row'[i].guardAuth = row[i].guardAuth
    OBVIOUS
  <2>1. row[i].status # "prepared"
    BY DEF IInv, ExecutionOwned
  <2> QED
    BY <2>1, RowEffect DEF IInv
<1> QED
  BY <1>1, Invariance, PTL DEF Spec, CorrelationDurable

\* INV-005: a committed or released authorization stays what it is: no commit
\* after a release, no release after a commit, no commit twice.
THEOREM AuthorizationsFinal == Spec => AuthorizationFinal
<1>1. IInv /\ [Next]_vars =>
        [\A q \in Requests : auth[q] \in {"committed", "released"} => auth'[q] = auth[q]]_vars
  <2> SUFFICES ASSUME IInv, [Next]_vars, NEW q \in Requests,
                      auth[q] \in {"committed", "released"}
               PROVE  auth'[q] = auth[q]
    OBVIOUS
  <2>1. ~GuardReserve(q)
    BY DEF GuardReserve, IInv, NotYetReserved, Early
  <2> QED
    BY <2>1, AuthEffect DEF IInv
<1> QED
  BY <1>1, Invariance, PTL DEF Spec, AuthorizationFinal
-----------------------------------------------------------------------------
(***************************************************************************)
(* What PaymentExecution records of a transfer: an intent is confirmed     *)
(* only over a settled transfer of its own, in every mode and under every  *)
(* fault.                                                                  *)
(***************************************************************************)
\* Calls that know the hash of their transfer, and those past a good verdict.
Hashed == {"mark_submitted", "verify", "release_reverted", "mark_unsettled",
           "commit", "mark_confirmed", "settle_invoice", "fulfil"}
Judged == {"commit", "mark_confirmed", "settle_invoice", "fulfil"}

\* The hash a call knows is its execution's, on the chain and, from
\* mark_submitted on, in the row; its verdict is what the chain decided.
CallTrue(q) ==
    /\ req[q].tx # None => req[q].tx = req[q].exec /\ chain[req[q].tx] # "none"
    /\ req[q].pc \in Hashed => req[q].tx # None
    /\ req[q].tx # None => req[q].pc \in Hashed \cup {"rescue", "returned", "failed"}
    /\ req[q].pc = "record_submitted" => chain[req[q].exec] # "none"
    /\ req[q].pc \in Hashed \ {"mark_submitted"} => row[req[q].intent].tx = req[q].tx
    /\ req[q].pc \in Judged => chain[req[q].tx] = "success"
    /\ req[q].pc = "release_reverted" => req[q].verdict = "REVERTED"
    /\ req[q].pc = "mark_unsettled" => req[q].verdict # "CONFIRMED"
    /\ req[q].verdict = "REVERTED" => req[q].tx # None /\ chain[req[q].tx] = "reverted"

\* The hash a row holds is that of its own execution, and on the chain.
RowTrue(i) == row[i].tx # None => row[i].tx = row[i].execId /\ chain[row[i].tx] # "none"

\* A submitted attempt was accepted by the provider.
AttemptTrue(e) == attempt[e] = "SUBMITTED" => chain[e] # "none"

\* The snapshot of a sweep may be stale, but its hashes are the rows'.
SeenTrue(s) ==
    \A i \in Todo(s) : sweep[s].seen[i].tx # None /\ sweep[s].seen[i].tx = row[i].tx

\* The verdict of a sweep is what the chain decided.
SweepTrue(s) ==
    /\ sweep[s].pc \in {"commit", "fulfil"} => sweep[s].verdict = "CONFIRMED"
    /\ sweep[s].pc = "release" => sweep[s].verdict = "REVERTED"
    /\ sweep[s].verdict = "CONFIRMED" => Todo(s) # {} /\ chain[SeenRow(s).tx] = "success"
    /\ sweep[s].verdict = "REVERTED" => Todo(s) # {} /\ chain[SeenRow(s).tx] = "reverted"

\* In demo mode a transfer succeeds at once.
DemoTrue == ~Live => \A e \in Requests : chain[e] \in {"none", "success"}

OutcomesTrue ==
    /\ \A q \in Requests : CallTrue(q) /\ AttemptTrue(q)
    /\ \A i \in Intents : RowTrue(i)
    /\ \A s \in Sweeps : SeenTrue(s) /\ SweepTrue(s)
    /\ DemoTrue
    /\ ConfirmedIsSettled

Moved(q) == RequestStep(q) \/ StoreFault(q) \/ CrashRequest(q)
-----------------------------------------------------------------------------
(* What a step may do to the chain, to a row's hash and to a call's binding. *)

\* The chain changes when the provider accepts a transfer or a block decides one.
LEMMA ChainWriters ==
  ASSUME [Next]_vars
  PROVE  \/ UNCHANGED chain
         \/ \E q \in Requests : Transfer(q)
         \/ \E e \in Requests : Mine(e)
<1>1. ASSUME NEW q \in Requests, Moved(q)
      PROVE  UNCHANGED chain \/ Transfer(q)
  BY <1>1
  DEF Moved, RequestStep, StoreFault, CrashRequest, LookupKey, LookupIntent, GuardClaim,
      GuardReserve, Claim, Reread, Attempt, RecordSubmitted, RecordRejected, RecordUnknown,
      MarkSubmitted, Verify, ReleaseReverted, MarkUnsettled, Commit, MarkConfirmed,
      SettleInvoice, Fulfil, RescueDropped, RescueBroadcast, RescueRelease, MarkFailed
<1>2. ASSUME NEW s \in Sweeps, SweepStep(s) \/ CrashSweep(s)
      PROVE  UNCHANGED chain
  BY <1>2 DEF SweepStep, CrashSweep, SweepStart, SweepVerify, SweepCommit, SweepRelease,
              SweepUpdate, SweepFulfil
<1>3. ASSUME \/ \E q \in Requests, i \in Intents, k \in Keys : Start(q, i, k)
             \/ \E p \in Intents \X Keys : ReplayExpires(p)
             \/ UNCHANGED vars
      PROVE  UNCHANGED chain
  BY <1>3 DEF Start, ReplayExpires, vars
<1> QED
  BY <1>1, <1>2, <1>3 DEF Next, Moved

\* A transfer appears when it is accepted, and is decided once.
LEMMA ChainMoves ==
  ASSUME TypeOK, [Next]_vars, NEW e \in Requests
  PROVE  \/ chain'[e] = chain[e]
         \/ /\ chain[e] = "none" /\ chain'[e] = (IF Live THEN "pending" ELSE "success")
            /\ \E q \in Requests : Transfer(q) /\ req[q].exec = e
         \/ chain[e] = "pending" /\ chain'[e] \in {"success", "mismatch", "reverted"}
<1> chain \in [Requests -> {"none", "pending", "success", "mismatch", "reverted"}]
  BY DEF TypeOK
<1>1. ASSUME NEW q \in Requests, Transfer(q)
      PROVE  \/ chain'[e] = chain[e]
             \/ /\ chain[e] = "none" /\ chain'[e] = (IF Live THEN "pending" ELSE "success")
                /\ req[q].exec = e
  BY <1>1 DEF Transfer, Accepted
<1>2. ASSUME NEW d \in Requests, Mine(d)
      PROVE  \/ chain'[e] = chain[e]
             \/ chain[e] = "pending" /\ chain'[e] \in {"success", "mismatch", "reverted"}
  BY <1>2 DEF Mine
<1> QED
  BY <1>1, <1>2, ChainWriters

\* The statements that write payment_intents.
LEMMA RowWriters ==
  ASSUME [Next]_vars
  PROVE  \/ UNCHANGED row
         \/ \E q \in Requests : \/ Claim(q) \/ MarkConfirmed(q) \/ RescueBroadcast(q)
                                \/ MarkFailed(q) \/ MarkSubmitted(q) \/ MarkUnsettled(q)
                                \/ RescueDropped(q)
         \/ \E s \in Sweeps : SweepUpdate(s)
<1>1. ASSUME NEW q \in Requests, Moved(q)
      PROVE  \/ UNCHANGED row
             \/ Claim(q) \/ MarkConfirmed(q) \/ RescueBroadcast(q) \/ MarkFailed(q)
             \/ MarkSubmitted(q) \/ MarkUnsettled(q) \/ RescueDropped(q)
  BY <1>1
  DEF Moved, RequestStep, StoreFault, CrashRequest, LookupKey, LookupIntent, GuardClaim,
      GuardReserve, Reread, Attempt, Transfer, RecordSubmitted, RecordRejected, RecordUnknown,
      Verify, ReleaseReverted, Commit, SettleInvoice, Fulfil, RescueRelease
<1>2. ASSUME NEW s \in Sweeps, SweepStep(s) \/ CrashSweep(s)
      PROVE  UNCHANGED row \/ SweepUpdate(s)
  BY <1>2 DEF SweepStep, CrashSweep, SweepStart, SweepVerify, SweepCommit, SweepRelease,
              SweepFulfil
<1>3. ASSUME \/ \E q \in Requests, i \in Intents, k \in Keys : Start(q, i, k)
             \/ \E d \in Requests : Mine(d)
             \/ \E p \in Intents \X Keys : ReplayExpires(p)
             \/ UNCHANGED vars
      PROVE  UNCHANGED row
  BY <1>3 DEF Start, Mine, ReplayExpires, vars
<1> QED
  BY <1>1, <1>2, <1>3 DEF Next, Moved

\* A row's hash is written by a call for that row that knows one.
LEMMA HashMoves ==
  ASSUME TypeOK, [Next]_vars, NEW i \in Intents, row'[i].tx # row[i].tx
  PROVE  \E q \in Requests :
            /\ req[q].pc \in {"mark_submitted", "mark_confirmed", "rescue"}
            /\ req[q].pc = "rescue" => req[q].tx # None
            /\ req[q].intent = i /\ row'[i].tx = req[q].tx
            /\ req'[q].tx = req[q].tx /\ req'[q].pc # "mark_submitted"
<1> /\ row \in [Intents -> Row] /\ row[i] \in Row
    /\ req \in [Requests -> RequestState]
  BY DEF TypeOK
<1>0. ASSUME NEW q \in Requests, NEW label, Goto(q, label)
      PROVE  req'[q].tx = req[q].tx /\ req'[q].pc = label
  BY <1>0 DEF Goto, RequestState
<1>1. ASSUME NEW q \in Requests, MarkConfirmed(q) \/ MarkSubmitted(q) \/ RescueBroadcast(q)
      PROVE  /\ req[q].pc \in {"mark_submitted", "mark_confirmed", "rescue"}
             /\ req[q].pc = "rescue" => req[q].tx # None
             /\ req[q].intent = i /\ row'[i].tx = req[q].tx
             /\ req'[q].tx = req[q].tx /\ req'[q].pc # "mark_submitted"
  <2>1. CASE MarkConfirmed(q)
    BY <1>0, <2>1 DEF MarkConfirmed, Row
  <2>2. CASE MarkSubmitted(q)
    BY <1>0, <2>2 DEF MarkSubmitted, Row
  <2>3. CASE RescueBroadcast(q)
    BY <1>0, <2>3 DEF RescueBroadcast, Row, Broadcast
  <2> QED
    BY <1>1, <2>1, <2>2, <2>3
<1>2. ASSUME NEW q \in Requests,
             Claim(q) \/ MarkFailed(q) \/ MarkUnsettled(q) \/ RescueDropped(q)
      PROVE  row'[i].tx = row[i].tx
  <2>1. CASE Claim(q)
    BY <2>1 DEF Claim, Correlated, Row
  <2>2. CASE MarkFailed(q)
    BY <2>2 DEF MarkFailed, Row
  <2>3. CASE MarkUnsettled(q)
    BY <2>3 DEF MarkUnsettled, Row
  <2>4. CASE RescueDropped(q)
    BY <2>4 DEF RescueDropped, Row
  <2> QED
    BY <1>2, <2>1, <2>2, <2>3, <2>4
<1>3. ASSUME NEW s \in Sweeps, SweepUpdate(s)
      PROVE  row'[i].tx = row[i].tx
  BY <1>3 DEF SweepUpdate, Row
<1> QED
  BY <1>1, <1>2, <1>3, RowWriters

\* What stays true once it is: the chain's decisions, the hash of a row, the
\* intent of a call.
LEMMA Durable ==
  ASSUME IInv, OutcomesTrue, [Next]_vars
  PROVE  /\ \A e \in Requests : chain[e] # "none" => chain'[e] # "none"
         /\ \A e \in Requests :
                chain[e] \in {"success", "mismatch", "reverted"} => chain'[e] = chain[e]
         /\ \A i \in Intents : row[i].tx # None => row'[i].tx = row[i].tx
         /\ \A q \in Requests : req[q].pc # "idle" => req'[q].intent = req[q].intent
<1> TypeOK
  BY DEF IInv
<1>1. ASSUME NEW e \in Requests
      PROVE  /\ chain[e] # "none" => chain'[e] # "none"
             /\ chain[e] \in {"success", "mismatch", "reverted"} => chain'[e] = chain[e]
  BY ChainMoves
<1>2. ASSUME NEW i \in Intents, row[i].tx # None, row'[i].tx # row[i].tx
      PROVE  FALSE
  <2>1. PICK q \in Requests : /\ req[q].pc \in {"mark_submitted", "mark_confirmed", "rescue"}
                              /\ req[q].pc = "rescue" => req[q].tx # None
                              /\ req[q].intent = i /\ row'[i].tx = req[q].tx
    BY <1>2, HashMoves
  <2>2. req[q].tx # None /\ req[q].tx = req[q].exec
    BY <2>1 DEF OutcomesTrue, CallTrue, Hashed
  <2>3. row[i].execId = req[q].exec
    BY <2>1, <2>2 DEF IInv, ExecutionOwned
  <2> QED
    BY <1>2, <2>1, <2>2, <2>3 DEF OutcomesTrue, RowTrue
<1>3. ASSUME NEW q \in Requests, req[q].pc # "idle"
      PROVE  req'[q].intent = req[q].intent
  <2>1. ASSUME NEW p \in Requests, RequestStep(p) \/ StoreFault(p) \/ CrashRequest(p)
        PROVE  req'[q].intent = req[q].intent
    BY <2>1, RequestEffect
  <2>2. ASSUME NEW p \in Requests, NEW i \in Intents, NEW k \in Keys, Start(p, i, k)
        PROVE  req'[q] = req[q]
    BY <1>3, <2>2 DEF Start, TypeOK
  <2> QED
    BY <2>1, <2>2, RequestsMove
<1> QED
  BY <1>1, <1>2, <1>3

\* A call that knows a hash: the hash is a call's, and its intent is known.
LEMMA HashKnown ==
  ASSUME IInv, OutcomesTrue, NEW q \in Requests, req[q].tx # None \/ req[q].pc \in Hashed
  PROVE  /\ req[q].tx \in Requests /\ req[q].tx = req[q].exec
         /\ req[q].pc # "idle" /\ req[q].intent \in Intents
         /\ row[req[q].intent].execId = req[q].tx
         /\ chain[req[q].tx] # "none"
<1> /\ req[q] \in RequestState
    /\ CallTrue(q)
  BY DEF IInv, TypeOK, OutcomesTrue
<1>1. req[q].tx \in Requests /\ req[q].tx = req[q].exec /\ chain[req[q].tx] # "none"
  BY DEF CallTrue, RequestState
<1>2. req[q].pc # "idle" /\ req[q].intent \in Intents
  BY <1>1, NoneAssumption DEF IInv, Started
<1> QED
  BY <1>1, <1>2, NoneAssumption DEF IInv, ExecutionOwned

\* A call that takes no step stays truthful, whatever the others do.
LEMMA CallBystander ==
  ASSUME IInv, OutcomesTrue, [Next]_vars, NEW p \in Requests, req'[p] = req[p]
  PROVE  CallTrue(p)'
<1>1. CASE req[p].tx # None \/ req[p].pc \in Hashed
  BY <1>1, HashKnown, Durable, NoneAssumption DEF OutcomesTrue, CallTrue, Hashed, Judged
<1>2. CASE req[p].tx = None /\ req[p].pc \notin Hashed
  <2>1. req[p].pc = "record_submitted" => req[p].exec \in Requests
    BY DEF IInv, ExecutionOwned, Bound, TypeOK, RequestState
  <2> QED
    BY <1>2, <2>1, Durable DEF OutcomesTrue, CallTrue, Hashed, Judged
<1> QED
  BY <1>1, <1>2

\* A verdict on a transfer that was made is what the chain decided.
LEMMA VerdictSound ==
  ASSUME TypeOK, DemoTrue, NEW e \in Requests, chain[e] # "none",
         NEW seed, NEW v \in Verdicts(e, seed)
  PROVE  /\ v = "CONFIRMED" => chain[e] = "success"
         /\ v = "REVERTED" => chain[e] = "reverted"
         /\ v \in {"CONFIRMED", "REVERTED", "RECONCILIATION_REQUIRED"}
<1> chain[e] \in {"none", "pending", "success", "mismatch", "reverted"}
  BY DEF TypeOK
<1>1. CASE ~Live
  BY <1>1 DEF Verdicts, VerifyDemoSettlement, DemoTrue
<1>2. CASE Live /\ chain[e] = "reverted"
  BY <1>2 DEF Verdicts, MatchesExpected
<1>3. CASE Live /\ MatchesExpected(e)
  BY <1>3 DEF Verdicts, MatchesExpected
<1>4. CASE Live /\ chain[e] \in {"success", "mismatch"} /\ ~MatchesExpected(e)
  BY <1>4 DEF Verdicts, MatchesExpected
<1>5. CASE Live /\ chain[e] = "pending"
  BY <1>5 DEF Verdicts, MatchesExpected
<1> QED
  BY <1>1, <1>2, <1>3, <1>4, <1>5


\* A call whose hash, execution and verdict stay as they are.
LEMMA CallQuiet ==
  ASSUME IInv, OutcomesTrue, [Next]_vars, NEW q \in Requests, Moved(q),
         req'[q].tx = req[q].tx, req'[q].verdict = req[q].verdict,
         req'[q].tx # None => req'[q].exec = req[q].exec,
         req'[q].tx # None => req'[q].pc \in {"rescue", "returned", "failed"},
         req'[q].pc \notin Hashed \cup {"record_submitted"}
  PROVE  CallTrue(q)'
<1>1. CallTrue(q)
  BY DEF OutcomesTrue
<1>2. CASE req[q].tx = None
  BY <1>1, <1>2 DEF CallTrue, Hashed, Judged
<1>3. CASE req[q].tx # None
  BY <1>1, <1>3, HashKnown, Durable DEF CallTrue, Hashed, Judged
<1> QED
  BY <1>2, <1>3

\* The step of a call keeps it truthful.
LEMMA CallStep ==
  ASSUME IInv, OutcomesTrue, [Next]_vars, NEW q \in Requests, Moved(q)
  PROVE  CallTrue(q)'
<1> USE NoneAssumption
<1> /\ TypeOK /\ DemoTrue /\ CallTrue(q)
    /\ req \in [Requests -> RequestState] /\ req[q] \in RequestState
    /\ row \in [Intents -> Row]
  BY DEF IInv, TypeOK, OutcomesTrue
<1>a. req[q].pc # "idle" /\ req[q].intent \in Intents /\ req'[q].intent = req[q].intent
  BY RequestEffect DEF Moved, IInv, Started
<1>b. req[q].pc \in Bound => req[q].exec \in Requests
  BY DEF IInv, ExecutionOwned, RequestState
<1>c. req[q].pc \in Hashed \cup {"record_submitted"} => req[q].pc \in Bound
  BY DEF Hashed, Bound
\* Before the hash is known.
<1>1. CASE LookupKey(q) \/ LookupIntent(q) \/ GuardClaim(q) \/ GuardReserve(q)
  BY <1>1, CallQuiet
  DEF LookupKey, LookupIntent, GuardClaim, GuardReserve, Goto, RequestState, Hashed, CallTrue
<1>2. CASE Claim(q) \/ Reread(q)
  BY <1>2, CallQuiet DEF Claim, Reread, Goto, RequestState, Hashed, CallTrue
<1>3. CASE Attempt(q)
  <2>1. CASE attempt[req[q].exec] = "SUBMITTED"
    <3>1. chain[req[q].exec] # "none" /\ req[q].tx = None /\ req[q].exec \in Requests
      BY <1>3, <1>b, <2>1 DEF OutcomesTrue, AttemptTrue, Attempt, Bound, CallTrue, Hashed
    <3>2. /\ req'[q].pc = "mark_submitted" /\ req'[q].tx = req[q].exec
          /\ req'[q].exec = req[q].exec /\ req'[q].verdict = req[q].verdict
      BY <1>3, <2>1 DEF Attempt, RequestState
    <3> QED
      BY <3>1, <3>2, Durable DEF CallTrue, Hashed, Judged
  <2>2. CASE attempt[req[q].exec] # "SUBMITTED"
    BY <1>3, <2>2, CallQuiet DEF Attempt, RequestState, Hashed, CallTrue
  <2> QED
    BY <2>1, <2>2
<1>4. CASE Transfer(q)
  <2>1. /\ req'[q].tx = None /\ req[q].tx = None
        /\ req'[q].exec = req[q].exec /\ req'[q].verdict = req[q].verdict
        /\ req'[q].pc \in {"record_submitted", "record_rejected", "record_unknown"}
    BY <1>4 DEF Transfer, Goto, RequestState, CallTrue, Hashed
  <2>2. CASE req'[q].pc = "record_submitted"
    <3>1. req[q].exec \in Requests
      BY <1>4, <1>b DEF Transfer, Bound
    <3>2. chain' = [chain EXCEPT ![req[q].exec] = Accepted(req[q].exec)]
      BY <1>4, <2>2 DEF Transfer, Goto, RequestState
    <3>3. chain'[req[q].exec] # "none"
      BY <3>1, <3>2 DEF TypeOK, Accepted
    <3> QED
      BY <2>1, <2>2, <3>3 DEF CallTrue, Hashed, Judged
  <2>3. CASE req'[q].pc # "record_submitted"
    BY <2>1, <2>3, CallQuiet DEF Hashed
  <2> QED
    BY <2>2, <2>3
<1>5. CASE RecordSubmitted(q)
  <2>1. /\ chain[req[q].exec] # "none" /\ req[q].exec \in Requests
        /\ req[q].tx = None
    BY <1>5, <1>b DEF RecordSubmitted, Bound, CallTrue, Hashed
  <2>2. /\ req'[q].pc = "mark_submitted" /\ req'[q].tx = req[q].exec
        /\ req'[q].exec = req[q].exec /\ req'[q].verdict = req[q].verdict
    BY <1>5 DEF RecordSubmitted, RequestState
  <2> QED
    BY <2>1, <2>2, Durable DEF CallTrue, Hashed, Judged
<1>6. CASE RecordRejected(q) \/ RecordUnknown(q)
  BY <1>6, CallQuiet DEF RecordRejected, RecordUnknown, Goto, RequestState, Hashed, CallTrue
\* From the hash to the verdict.
<1>7. CASE MarkSubmitted(q)
  <2>1. /\ req'[q].pc = "verify" /\ req'[q].tx = req[q].tx
        /\ req'[q].exec = req[q].exec /\ req'[q].verdict = req[q].verdict
    BY <1>7 DEF MarkSubmitted, Goto, RequestState
  <2>2. row'[req[q].intent].tx = req[q].tx
    BY <1>7, <1>a DEF MarkSubmitted, Row
  <2> QED
    BY <1>7, <1>a, <2>1, <2>2, HashKnown, Durable DEF MarkSubmitted, CallTrue, Hashed, Judged
<1>8. CASE Verify(q)
  <2>0. /\ req[q].tx \in Requests /\ chain[req[q].tx] # "none"
        /\ row[req[q].intent].tx = req[q].tx
    BY <1>8, HashKnown DEF Verify, Hashed, CallTrue
  <2>1. CASE \E v \in Verdicts(req[q].tx, req[q].exec) :
                req' = [req EXCEPT ![q].pc = AfterVerdict(v), ![q].verdict = v]
    <3>1. PICK v \in Verdicts(req[q].tx, req[q].exec) :
                 req' = [req EXCEPT ![q].pc = AfterVerdict(v), ![q].verdict = v]
      BY <2>1
    <3>2. /\ req'[q].pc = AfterVerdict(v) /\ req'[q].verdict = v
          /\ req'[q].tx = req[q].tx /\ req'[q].exec = req[q].exec
      BY <3>1 DEF RequestState
    <3>3. /\ v = "CONFIRMED" => chain[req[q].tx] = "success"
          /\ v = "REVERTED" => chain[req[q].tx] = "reverted"
          /\ v \in {"CONFIRMED", "REVERTED", "RECONCILIATION_REQUIRED"}
      BY <2>0, VerdictSound
    <3>4. /\ AfterVerdict(v) \in {"commit", "mark_confirmed", "release_reverted", "mark_unsettled"}
          /\ AfterVerdict(v) \in Judged <=> v = "CONFIRMED"
          /\ AfterVerdict(v) = "release_reverted" => v = "REVERTED"
      BY <3>3 DEF AfterVerdict, Judged
    <3> QED
      BY <1>a, <2>0, <3>2, <3>3, <3>4, Durable, HashKnown DEF CallTrue, Hashed, Judged
  <2>2. CASE req' = [req EXCEPT ![q].pc = AfterVerdict("PENDING"), ![q].verdict = "PENDING"]
    <3>1. /\ req'[q].pc = "mark_unsettled" /\ req'[q].verdict = "PENDING"
          /\ req'[q].tx = req[q].tx /\ req'[q].exec = req[q].exec
      BY <2>2 DEF RequestState, AfterVerdict
    <3> QED
      BY <1>a, <2>0, <3>1, Durable, HashKnown DEF CallTrue, Hashed, Judged
  <2>3. CASE Goto(q, "rescue")
    BY <2>3, CallQuiet DEF Goto, RequestState, Hashed
  <2> QED
    BY <1>8, <2>1, <2>2, <2>3 DEF Verify
\* From the verdict to the end.
<1>9. ASSUME NEW label \in Hashed \ {"release_reverted"}, Goto(q, label),
             req[q].pc \in Hashed \ {"mark_submitted"},
             label \in Judged => req[q].pc \in Judged,
             label = "mark_unsettled" => req[q].pc = "release_reverted"
      PROVE  CallTrue(q)'
  <2>1. /\ req'[q].pc = label
        /\ req'[q].tx = req[q].tx /\ req'[q].exec = req[q].exec
        /\ req'[q].verdict = req[q].verdict
    BY <1>9 DEF Goto, RequestState
  <2>2. /\ req[q].tx \in Requests /\ chain[req[q].tx] # "none"
        /\ row[req[q].intent].tx = req[q].tx /\ row'[req[q].intent].tx = req[q].tx
    BY <1>9, <1>a, HashKnown, Durable DEF CallTrue
  <2> QED
    BY <1>9, <1>a, <2>1, <2>2, HashKnown, Durable DEF CallTrue, Hashed, Judged
<1>10. CASE ReleaseReverted(q)
  BY <1>10, <1>9 DEF ReleaseReverted, Hashed, Judged
<1>11. CASE Commit(q)
  <2>1. CASE Goto(q, "mark_confirmed")
    BY <1>11, <1>9, <2>1 DEF Commit, Hashed, Judged
  <2>2. CASE Goto(q, "rescue")
    BY <2>2, CallQuiet DEF Goto, RequestState, Hashed
  <2> QED
    BY <1>11, <2>1, <2>2 DEF Commit
<1>12. CASE MarkConfirmed(q) \/ SettleInvoice(q)
  BY <1>12, <1>9 DEF MarkConfirmed, SettleInvoice, Hashed, Judged
<1>13. CASE Fulfil(q) \/ MarkUnsettled(q)
  BY <1>13, CallQuiet DEF Fulfil, MarkUnsettled, Goto, RequestState, Hashed
<1>14. CASE RescueDropped(q) \/ RescueBroadcast(q) \/ RescueRelease(q) \/ MarkFailed(q)
  <2>1. CASE RescueDropped(q) \/ RescueBroadcast(q)
    BY <2>1, CallQuiet DEF RescueDropped, RescueBroadcast, Goto, RequestState, Hashed
  <2>2. CASE RescueRelease(q)
    BY <2>2, CallQuiet DEF RescueRelease, Broadcast, Goto, RequestState, Hashed
  <2>3. CASE MarkFailed(q)
    BY <2>3, CallQuiet DEF MarkFailed, Goto, RequestState, Hashed
  <2> QED
    BY <1>14, <2>1, <2>2, <2>3
<1>15. CASE StoreFault(q) \/ CrashRequest(q)
  BY <1>15, CallQuiet DEF StoreFault, CrashRequest, Goto, RequestState, Hashed
<1> QED
  BY <1>1, <1>2, <1>3, <1>4, <1>5, <1>6, <1>7, <1>8, <1>10, <1>11, <1>12, <1>13, <1>14, <1>15
  DEF Moved, RequestStep
-----------------------------------------------------------------------------
(* How the sweeps move. *)

\* A sweep forgets, aborts, reads a new batch, or goes on over the same one.
LEMMA SweepMoves ==
  ASSUME TypeOK, [Next]_vars, NEW s \in Sweeps
  PROVE  \/ sweep'[s] = sweep[s]
         \/ sweep'[s] = Abort
         \/ sweep[s].pc # "idle" /\ sweep'[s] = Forget(s)
         \/ SweepStart(s)
         \/ /\ SweepVerify(s) \/ SweepCommit(s) \/ SweepRelease(s) \/ SweepUpdate(s)
            /\ sweep'[s].seen = sweep[s].seen
<1> sweep \in [Sweeps -> SweepState]
  BY DEF TypeOK
<1>1. CASE SweepVerify(s)
  <2>1. CASE \E label, v : sweep' = [sweep EXCEPT ![s].pc = label, ![s].verdict = v]
    BY <1>1, <2>1 DEF SweepState
  <2>2. CASE \E w \in {Forget(s), Abort} : sweep' = [sweep EXCEPT ![s] = w]
    BY <1>1, <2>2 DEF SweepVerify
  <2> QED
    BY <1>1, <2>1, <2>2 DEF SweepVerify
<1>2. CASE SweepCommit(s) \/ SweepRelease(s) \/ SweepUpdate(s)
  BY <1>2 DEF SweepCommit, SweepRelease, SweepUpdate, SweepState
<1>3. CASE SweepFulfil(s) \/ CrashSweep(s)
  BY <1>3 DEF SweepFulfil, CrashSweep
<1>4. ASSUME NEW r \in Sweeps \ {s}, SweepStep(r) \/ CrashSweep(r)
      PROVE  sweep'[s] = sweep[s]
  BY <1>4 DEF SweepStep, SweepStart, SweepVerify, SweepCommit, SweepRelease,
              SweepUpdate, SweepFulfil, CrashSweep
<1>5. ASSUME NEW q \in Requests, Moved(q)
      PROVE  UNCHANGED sweep
  BY <1>5
  DEF Moved, RequestStep, StoreFault, CrashRequest, LookupKey, LookupIntent, GuardClaim,
      GuardReserve, Claim, Reread, Attempt, Transfer, RecordSubmitted, RecordRejected,
      RecordUnknown, MarkSubmitted, Verify, ReleaseReverted, MarkUnsettled, Commit,
      MarkConfirmed, SettleInvoice, Fulfil, RescueDropped, RescueBroadcast, RescueRelease,
      MarkFailed
<1>6. ASSUME \/ \E q \in Requests, i \in Intents, k \in Keys : Start(q, i, k)
             \/ \E e \in Requests : Mine(e)
             \/ \E p \in Intents \X Keys : ReplayExpires(p)
             \/ UNCHANGED vars
      PROVE  UNCHANGED sweep
  BY <1>6 DEF Start, Mine, ReplayExpires, vars
<1> QED
  BY <1>1, <1>2, <1>3, <1>4, <1>5, <1>6 DEF Next, SweepStep, Moved

\* A row still to be dealt with is one it read before, or one it just read.
LEMMA SeenMoves ==
  ASSUME TypeOK, [Next]_vars, NEW s \in Sweeps, NEW i \in Todo(s)'
  PROVE  \/ i \in Todo(s) /\ sweep'[s].seen[i] = sweep[s].seen[i]
         \/ /\ sweep'[s].seen[i] = row[i] /\ row' = row /\ SweepStart(s)
            /\ row[i].tx # None /\ row[i].status \in ReconcileCandidates
<1> /\ sweep \in [Sweeps -> SweepState] /\ sweep[s] \in SweepState
    /\ i \in Intents /\ sweep'[s].seen[i].status \in ReconcileCandidates
  BY DEF TypeOK, Todo
<1> "prepared" \notin ReconcileCandidates
  BY DEF ReconcileCandidates
<1>1. CASE sweep'[s] = sweep[s] \/ sweep'[s].seen = sweep[s].seen
  BY <1>1 DEF Todo
<1>2. sweep'[s] # Abort
  BY DEF Abort, NewRow
<1>3. CASE sweep'[s] = Forget(s)
  <2>1. sweep'[s].seen = [sweep[s].seen EXCEPT ![Current(s)] = NewRow]
    BY <1>3 DEF Forget, SweepState
  <2>2. sweep'[s].seen[i] = IF i = Current(s) THEN NewRow ELSE sweep[s].seen[i]
    BY <2>1 DEF SweepState
  <2> QED
    BY <2>2 DEF Todo, NewRow
<1>4. CASE SweepStart(s)
  <2> DEFINE candidates == {j \in Intents : IsReconcileCandidate(j)}
             batch == {j \in candidates : Cardinality({k \in candidates : k < j}) < BatchSize}
  <2>1. /\ sweep'[s].seen = [j \in Intents |-> IF j \in batch THEN row[j] ELSE NewRow]
        /\ row' = row
    BY <1>4 DEF SweepStart
  <2>2. i \in batch => IsReconcileCandidate(i)
    OBVIOUS
  <2> HIDE DEF batch
  <2> QED
    BY <1>4, <2>1, <2>2 DEF NewRow, IsReconcileCandidate
<1> QED
  BY <1>1, <1>2, <1>3, <1>4, SweepMoves

\* While a sweep keeps its snapshot, it deals with the same row.
LEMMA SameCurrent ==
  ASSUME NEW s, sweep'[s].seen = sweep[s].seen
  PROVE  Todo(s)' = Todo(s) /\ Current(s)' = Current(s) /\ SeenRow(s)' = SeenRow(s)
<1> DEFINE Least(T) == CHOOSE i \in T : \A j \in T : i <= j
<1>1. Todo(s)' = Todo(s)
  BY DEF Todo
<1>2. Current(s) = Least(Todo(s)) /\ Current(s)' = Least(Todo(s)')
  BY DEF Current
<1> QED
  BY <1>1, <1>2 DEF SeenRow

\* The row a sweep deals with has a transfer of its own on the chain.
LEMMA SeenHash ==
  ASSUME IInv, OutcomesTrue, NEW s \in Sweeps, Todo(s) # {}
  PROVE  /\ Current(s) \in Intents /\ Current(s) \in Todo(s)
         /\ SeenRow(s).tx \in Requests /\ chain[SeenRow(s).tx] # "none"
         /\ SeenRow(s).tx = row[Current(s)].tx /\ SeenRow(s).tx = row[Current(s)].execId
<1>1. Current(s) \in Intents /\ Current(s) \in Todo(s)
  BY CurrentChosen
<1>2. SeenRow(s).tx # None /\ SeenRow(s).tx = row[Current(s)].tx
  BY <1>1 DEF OutcomesTrue, SeenTrue, SeenRow
<1>3. row[Current(s)] \in Row
  BY <1>1 DEF IInv, TypeOK
<1> QED
  BY <1>1, <1>2, <1>3 DEF OutcomesTrue, RowTrue, Row

LEMMA SeenStep ==
  ASSUME IInv, OutcomesTrue, [Next]_vars, NEW s \in Sweeps
  PROVE  SeenTrue(s)'
<1> SUFFICES ASSUME NEW i \in Todo(s)'
             PROVE  sweep'[s].seen[i].tx # None /\ sweep'[s].seen[i].tx = row'[i].tx
  BY DEF SeenTrue
<1>1. i \in Intents /\ TypeOK
  BY DEF Todo, IInv
<1> QED
  BY <1>1, SeenMoves, Durable DEF OutcomesTrue, SeenTrue

LEMMA SweepVerdictStep ==
  ASSUME IInv, OutcomesTrue, [Next]_vars, NEW s \in Sweeps
  PROVE  SweepTrue(s)'
<1> /\ TypeOK /\ DemoTrue /\ SweepTrue(s)
    /\ sweep \in [Sweeps -> SweepState]
  BY DEF IInv, TypeOK, OutcomesTrue
<1>1. CASE sweep'[s].verdict = "none" /\ sweep'[s].pc \in {"idle", "verify"}
  BY <1>1 DEF SweepTrue
<1>2. CASE sweep'[s] = Abort \/ sweep'[s] = Forget(s) \/ SweepStart(s)
  <2>1. CASE sweep'[s] = Abort
    BY <1>1, <2>1 DEF Abort
  <2>2. CASE sweep'[s] = Forget(s)
    BY <1>1, <2>2 DEF Forget, SweepState
  <2>3. CASE SweepStart(s)
    <3>1. sweep'[s].verdict = "none" /\ sweep'[s].pc \in {"idle", "verify"}
      BY <2>3 DEF SweepStart
    <3> QED
      BY <1>1, <3>1
  <2> QED
    BY <1>2, <2>1, <2>2, <2>3
\* Over the same snapshot, the same row and the same hash.
<1>3. ASSUME sweep'[s].seen = sweep[s].seen
      PROVE  /\ Todo(s)' = Todo(s) /\ SeenRow(s)' = SeenRow(s)
             /\ Todo(s) # {} =>
                  /\ chain[SeenRow(s).tx] = "success" => chain'[SeenRow(s).tx] = "success"
                  /\ chain[SeenRow(s).tx] = "reverted" => chain'[SeenRow(s).tx] = "reverted"
  BY <1>3, SameCurrent, SeenHash, Durable
<1>4. CASE /\ sweep'[s].seen = sweep[s].seen /\ sweep'[s].verdict = sweep[s].verdict
           /\ sweep'[s].pc \in {"commit", "fulfil"} => sweep[s].verdict = "CONFIRMED"
           /\ sweep'[s].pc = "release" => sweep[s].verdict = "REVERTED"
  BY <1>3, <1>4 DEF SweepTrue
<1>5. CASE SweepVerify(s) /\ sweep'[s].seen = sweep[s].seen
  <2>1. Todo(s) # {}
    BY <1>5 DEF SweepVerify, IInv, SweepHasWork
  <2>2. CASE \E v \in Verdicts(SeenRow(s).tx, DemoSeed(Current(s))) :
               sweep' = [sweep EXCEPT ![s].pc = AfterSweepVerdict(s, v), ![s].verdict = v]
    <3>1. PICK v \in Verdicts(SeenRow(s).tx, DemoSeed(Current(s))) :
                 sweep' = [sweep EXCEPT ![s].pc = AfterSweepVerdict(s, v), ![s].verdict = v]
      BY <2>2
    <3>2. sweep'[s].verdict = v /\ sweep'[s].pc = AfterSweepVerdict(s, v)
      BY <3>1 DEF SweepState
    <3>3. /\ v = "CONFIRMED" => chain[SeenRow(s).tx] = "success"
          /\ v = "REVERTED" => chain[SeenRow(s).tx] = "reverted"
      BY <2>1, SeenHash, VerdictSound
    <3>4. /\ AfterSweepVerdict(s, v) \in {"commit", "release", "update"}
          /\ AfterSweepVerdict(s, v) = "commit" => v = "CONFIRMED"
          /\ AfterSweepVerdict(s, v) = "release" => v = "REVERTED"
      BY DEF AfterSweepVerdict
    <3> QED
      BY <1>3, <1>5, <2>1, <3>2, <3>3, <3>4 DEF SweepTrue
  <2>3. CASE sweep' = [sweep EXCEPT ![s] = Forget(s)] \/ sweep' = [sweep EXCEPT ![s] = Abort]
    BY <1>2, <2>3
  <2> QED
    BY <1>5, <2>2, <2>3 DEF SweepVerify
<1>6. CASE SweepCommit(s) \/ SweepRelease(s) \/ SweepUpdate(s)
  <2>1. CASE sweep' = [sweep EXCEPT ![s].pc = "update"]
    BY <1>4, <2>1 DEF SweepState
  <2>2. CASE sweep' = [sweep EXCEPT ![s].pc = "fulfil"] /\ sweep[s].verdict = "CONFIRMED"
    BY <1>4, <2>2 DEF SweepState
  <2>3. CASE sweep' = [sweep EXCEPT ![s] = Forget(s)] \/ sweep' = [sweep EXCEPT ![s] = Abort]
    BY <1>2, <2>3
  <2> QED
    BY <1>6, <2>1, <2>2, <2>3 DEF SweepCommit, SweepRelease, SweepUpdate
<1>7. CASE sweep'[s] = sweep[s]
  BY <1>4, <1>7 DEF SweepTrue
<1> QED
  BY <1>2, <1>5, <1>6, <1>7, SweepMoves

\* The statements that write execution_attempts.
LEMMA AttemptWriters ==
  ASSUME [Next]_vars
  PROVE  \/ UNCHANGED attempt
         \/ \E q \in Requests : \/ Attempt(q) \/ RecordSubmitted(q)
                                \/ RecordRejected(q) \/ RecordUnknown(q)
<1>1. ASSUME NEW q \in Requests, Moved(q)
      PROVE  \/ UNCHANGED attempt
             \/ Attempt(q) \/ RecordSubmitted(q) \/ RecordRejected(q) \/ RecordUnknown(q)
  BY <1>1
  DEF Moved, RequestStep, StoreFault, CrashRequest, LookupKey, LookupIntent, GuardClaim,
      GuardReserve, Claim, Reread, Transfer, MarkSubmitted, Verify, ReleaseReverted,
      MarkUnsettled, Commit, MarkConfirmed, SettleInvoice, Fulfil, RescueDropped,
      RescueBroadcast, RescueRelease, MarkFailed
<1>2. ASSUME NEW s \in Sweeps, SweepStep(s) \/ CrashSweep(s)
      PROVE  UNCHANGED attempt
  BY <1>2 DEF SweepStep, CrashSweep, SweepStart, SweepVerify, SweepCommit, SweepRelease,
              SweepUpdate, SweepFulfil
<1>3. ASSUME \/ \E q \in Requests, i \in Intents, k \in Keys : Start(q, i, k)
             \/ \E d \in Requests : Mine(d)
             \/ \E p \in Intents \X Keys : ReplayExpires(p)
             \/ UNCHANGED vars
      PROVE  UNCHANGED attempt
  BY <1>3 DEF Start, Mine, ReplayExpires, vars
<1> QED
  BY <1>1, <1>2, <1>3 DEF Next, Moved

\* An attempt becomes submitted when its call knows that the provider accepted.
LEMMA AttemptStep ==
  ASSUME IInv, OutcomesTrue, [Next]_vars, NEW e \in Requests
  PROVE  AttemptTrue(e)'
<1> attempt \in [Requests -> AttemptStatus] /\ AttemptTrue(e)
  BY DEF IInv, TypeOK, OutcomesTrue
<1>1. CASE attempt'[e] = attempt[e]
  BY <1>1, Durable DEF AttemptTrue
<1>2. ASSUME NEW q \in Requests, Attempt(q) \/ RecordRejected(q) \/ RecordUnknown(q)
      PROVE  attempt'[e] = attempt[e] \/ attempt'[e] # "SUBMITTED"
  <2>1. CASE Attempt(q)
    BY <2>1 DEF Attempt, GetOrCreate, PrepareExecutionAttempt
  <2>2. CASE RecordRejected(q)
    BY <2>2 DEF RecordRejected, AfterBroadcast, StatusAfterBroadcast
  <2>3. CASE RecordUnknown(q)
    BY <2>3 DEF RecordUnknown, AfterBroadcast, StatusAfterBroadcast
  <2> QED
    BY <1>2, <2>1, <2>2, <2>3
<1>3. ASSUME NEW q \in Requests, RecordSubmitted(q)
      PROVE  attempt'[e] = attempt[e] \/ chain[e] # "none"
  BY <1>3 DEF RecordSubmitted, AfterBroadcast, OutcomesTrue, CallTrue
<1>4. attempt'[e] = attempt[e] \/ attempt'[e] # "SUBMITTED" \/ chain[e] # "none"
  BY <1>2, <1>3, AttemptWriters
<1> QED
  BY <1>1, <1>4, Durable DEF AttemptTrue

\* The hash of a row is written once, with the execution it belongs to.
LEMMA RowStep ==
  ASSUME IInv, OutcomesTrue, [Next]_vars, NEW i \in Intents
  PROVE  RowTrue(i)'
<1> /\ TypeOK /\ Started /\ ExecutionOwned /\ RowTrue(i)
    /\ row \in [Intents -> Row] /\ row[i] \in Row
  BY DEF IInv, TypeOK, OutcomesTrue
<1>0. row[i].execId # None => row'[i].execId = row[i].execId
  BY RowEffect DEF ExecutionOwned
<1> SUFFICES ASSUME row'[i].tx # None
             PROVE  row'[i].tx = row'[i].execId /\ chain'[row'[i].tx] # "none"
  BY DEF RowTrue
<1>1. CASE row'[i].tx = row[i].tx
  BY <1>0, <1>1, Durable DEF RowTrue, Row
<1>2. CASE row'[i].tx # row[i].tx
  <2>1. PICK q \in Requests : /\ req[q].pc \in {"mark_submitted", "mark_confirmed", "rescue"}
                              /\ req[q].pc = "rescue" => req[q].tx # None
                              /\ req[q].intent = i /\ row'[i].tx = req[q].tx
    BY <1>2, HashMoves
  <2>2. /\ req[q].tx \in Requests /\ row[i].execId = req[q].tx
        /\ chain[req[q].tx] # "none"
    BY <2>1, HashKnown DEF Hashed
  <2> QED
    BY <1>0, <2>1, <2>2, Durable, NoneAssumption
<1> QED
  BY <1>1, <1>2

LEMMA DemoStep ==
  ASSUME TypeOK, DemoTrue, [Next]_vars
  PROVE  DemoTrue'
BY ChainMoves DEF DemoTrue
-----------------------------------------------------------------------------
(* Confirmation. *)

\* The intent's own transfer succeeded, and its row says which one it is.
Paid(i) == row[i].tx # None /\ chain[row[i].tx] = "success"

LEMMA PaidStays ==
  ASSUME IInv, OutcomesTrue, [Next]_vars, NEW i \in Intents, Paid(i)
  PROVE  Paid(i)'
<1>1. row[i].tx \in Requests
  BY DEF Paid, IInv, TypeOK, Row
<1> QED
  BY <1>1, Durable DEF Paid

\* Only a call or a sweep with a good verdict confirms an intent.
LEMMA ConfirmMoves ==
  ASSUME IInv, OutcomesTrue, [Next]_vars, NEW i \in Intents,
         row'[i].status = "confirmed", row[i].status # "confirmed"
  PROVE  Paid(i)'
<1> /\ TypeOK /\ row \in [Intents -> Row] /\ row[i] \in Row
  BY DEF IInv, TypeOK
<1>1. ASSUME NEW q \in Requests, MarkConfirmed(q)
      PROVE  Paid(i)'
  <2>1. req[q].intent = i /\ row'[i].tx = req[q].tx
    BY <1>1 DEF MarkConfirmed, Row
  <2>2. req[q].tx \in Requests /\ chain[req[q].tx] = "success"
    BY <1>1, HashKnown DEF MarkConfirmed, OutcomesTrue, CallTrue, Hashed, Judged
  <2> QED
    BY <2>1, <2>2, Durable, NoneAssumption DEF Paid
<1>2. ASSUME NEW q \in Requests, MarkUnsettled(q)
      PROVE  FALSE
  <2>1. req[q].verdict # "CONFIRMED"
    BY <1>2 DEF MarkUnsettled, OutcomesTrue, CallTrue
  <2>2. StatusOf(req[q].verdict) # "confirmed"
    BY <2>1 DEF StatusOf
  <2> QED
    BY <1>2, <2>2 DEF MarkUnsettled, Row
<1>3. ASSUME NEW q \in Requests,
             Claim(q) \/ MarkSubmitted(q) \/ RescueDropped(q) \/ RescueBroadcast(q) \/ MarkFailed(q)
      PROVE  FALSE
  <2>1. CASE Claim(q)
    BY <2>1 DEF Claim, Correlated
  <2>2. CASE MarkSubmitted(q)
    BY <2>2 DEF MarkSubmitted, Row
  <2>3. CASE RescueDropped(q)
    BY <2>3 DEF RescueDropped, Row
  <2>4. CASE RescueBroadcast(q)
    BY <2>4 DEF RescueBroadcast, Row
  <2>5. CASE MarkFailed(q)
    BY <2>5 DEF MarkFailed, Row
  <2> QED
    BY <1>3, <2>1, <2>2, <2>3, <2>4, <2>5
<1>4. ASSUME NEW s \in Sweeps, SweepUpdate(s)
      PROVE  Paid(i)'
  <2>1. Current(s) = i /\ StatusOf(sweep[s].verdict) = "confirmed"
    BY <1>4 DEF SweepUpdate, Row
  <2>2. Todo(s) # {} /\ sweep[s].verdict = "CONFIRMED"
    BY <1>4, <2>1 DEF SweepUpdate, IInv, SweepHasWork, StatusOf
  <2>3. chain[SeenRow(s).tx] = "success"
    BY <2>2 DEF OutcomesTrue, SweepTrue
  <2> QED
    BY <2>1, <2>2, <2>3, SeenHash, PaidStays, NoneAssumption DEF Paid
<1> QED
  BY <1>1, <1>2, <1>3, <1>4, RowWriters

\* An invoice is executed, and a purchase fulfilled, after the confirmation.
LEMMA FulfilMoves ==
  ASSUME IInv, OutcomesTrue, [Next]_vars, NEW i \in Intents,
         \/ invoice'[i] = "executed" /\ invoice[i] # "executed"
         \/ i \in fulfilled' /\ i \notin fulfilled
  PROVE  Paid(i)
<1> /\ TypeOK /\ invoice \in [Intents -> {"approved", "executed"}]
  BY DEF IInv, TypeOK
<1>1. ASSUME NEW q \in Requests, SettleInvoice(q) \/ Fulfil(q)
      PROVE  Paid(i)
  <2>1. req[q].intent = i /\ req[q].pc \in Judged \cap (Hashed \ {"mark_submitted"})
    BY <1>1 DEF SettleInvoice, Fulfil, Judged, Hashed
  <2>2. /\ req[q].tx \in Requests /\ chain[req[q].tx] = "success"
        /\ row[i].tx = req[q].tx
    BY <2>1, HashKnown DEF OutcomesTrue, CallTrue
  <2> QED
    BY <2>2, NoneAssumption DEF Paid
<1>2. ASSUME NEW s \in Sweeps, SweepFulfil(s)
      PROVE  Paid(i)
  <2>1. Current(s) = i /\ sweep[s].verdict = "CONFIRMED"
    BY <1>2 DEF SweepFulfil, OutcomesTrue, SweepTrue
  <2>2. Todo(s) # {} /\ chain[SeenRow(s).tx] = "success"
    BY <2>1 DEF OutcomesTrue, SweepTrue
  <2> QED
    BY <2>1, <2>2, SeenHash, NoneAssumption DEF Paid
<1>3. ASSUME NEW q \in Requests, Moved(q)
      PROVE  UNCHANGED <<invoice, fulfilled>> \/ SettleInvoice(q) \/ Fulfil(q)
  BY <1>3
  DEF Moved, RequestStep, StoreFault, CrashRequest, LookupKey, LookupIntent, GuardClaim,
      GuardReserve, Claim, Reread, Attempt, Transfer, RecordSubmitted, RecordRejected,
      RecordUnknown, MarkSubmitted, Verify, ReleaseReverted, MarkUnsettled, Commit,
      MarkConfirmed, RescueDropped, RescueBroadcast, RescueRelease, MarkFailed
<1>4. ASSUME NEW s \in Sweeps, SweepStep(s) \/ CrashSweep(s)
      PROVE  UNCHANGED <<invoice, fulfilled>> \/ SweepFulfil(s)
  BY <1>4 DEF SweepStep, CrashSweep, SweepStart, SweepVerify, SweepCommit, SweepRelease,
              SweepUpdate
<1>5. ASSUME \/ \E q \in Requests, j \in Intents, k \in Keys : Start(q, j, k)
             \/ \E d \in Requests : Mine(d)
             \/ \E p \in Intents \X Keys : ReplayExpires(p)
             \/ UNCHANGED vars
      PROVE  UNCHANGED <<invoice, fulfilled>>
  BY <1>5 DEF Start, Mine, ReplayExpires, vars
<1> QED
  BY <1>1, <1>2, <1>3, <1>4, <1>5 DEF Next, Moved

LEMMA ConfirmedStep ==
  ASSUME IInv, OutcomesTrue, [Next]_vars, IInv', \A i \in Intents : RowTrue(i)'
  PROVE  ConfirmedIsSettled'
<1> SUFFICES ASSUME NEW i \in Intents,
                    row'[i].status = "confirmed" \/ invoice'[i] = "executed" \/ i \in fulfilled'
             PROVE  /\ row'[i].tx # None /\ chain'[row'[i].tx] = "success"
                    /\ req'[row'[i].tx].intent = i
  BY DEF ConfirmedIsSettled
<1>1. Paid(i)'
  <2>1. CASE row[i].status = "confirmed" \/ invoice[i] = "executed" \/ i \in fulfilled
    BY <2>1, PaidStays DEF OutcomesTrue, ConfirmedIsSettled, Paid
  <2>2. CASE row[i].status # "confirmed" /\ invoice[i] # "executed" /\ i \notin fulfilled
    BY <2>2, ConfirmMoves, FulfilMoves, PaidStays
  <2> QED
    BY <2>1, <2>2
<1>2. row'[i].tx = row'[i].execId
  BY <1>1 DEF Paid, RowTrue
<1> QED
  BY <1>1, <1>2 DEF Paid, IInv, ExecutionOwned

LEMMA InitOutcomes == Init => OutcomesTrue
<1> SUFFICES ASSUME Init PROVE OutcomesTrue
  OBVIOUS
<1>1. \A q \in Requests : CallTrue(q) /\ AttemptTrue(q)
  BY DEF Init, CallTrue, AttemptTrue, Hashed, Judged
<1>2. (\A i \in Intents : RowTrue(i)) /\ ConfirmedIsSettled /\ DemoTrue
  BY DEF Init, RowTrue, NewRow, ConfirmedIsSettled, DemoTrue
<1>3. \A s \in Sweeps : Todo(s) = {} /\ sweep[s].verdict = "none" /\ sweep[s].pc = "idle"
  BY DEF Init, Todo, NewRow, ReconcileCandidates
<1> QED
  BY <1>1, <1>2, <1>3 DEF OutcomesTrue, SeenTrue, SweepTrue

LEMMA OutcomesStep == IInv /\ OutcomesTrue /\ [Next]_vars => OutcomesTrue'
<1> SUFFICES ASSUME IInv, OutcomesTrue, [Next]_vars PROVE OutcomesTrue'
  OBVIOUS
<1> TypeOK /\ IInv'
  BY IInvStep DEF IInv
<1>1. \A q \in Requests : CallTrue(q)'
  <2> SUFFICES ASSUME NEW q \in Requests PROVE CallTrue(q)'
    OBVIOUS
  <2>1. ASSUME NEW p \in Requests, Moved(p)
        PROVE  CallTrue(q)'
    BY <2>1, CallStep, CallBystander, RequestEffect DEF Moved
  <2>2. ASSUME NEW p \in Requests, NEW i \in Intents, NEW k \in Keys, Start(p, i, k)
        PROVE  CallTrue(q)'
    <3>1. CASE q = p
      <4>1. /\ req[q].pc = "idle" /\ CallTrue(q)
            /\ req'[q].pc = "lookup_key" /\ req'[q].tx = req[q].tx
            /\ req'[q].verdict = req[q].verdict
        BY <2>2, <3>1 DEF Start, TypeOK, RequestState, OutcomesTrue
      <4> QED
        BY <4>1 DEF CallTrue, Hashed, Judged
    <3>2. CASE q # p
      BY <2>2, <3>2, CallBystander DEF Start, TypeOK
    <3> QED
      BY <3>1, <3>2
  <2>3. CASE UNCHANGED req
    BY <2>3, CallBystander
  <2> QED
    BY <2>1, <2>2, <2>3, RequestsMove DEF Moved
<1>2. \A e \in Requests : AttemptTrue(e)'
  BY AttemptStep
<1>3. \A i \in Intents : RowTrue(i)'
  BY RowStep
<1>4. \A s \in Sweeps : SeenTrue(s)' /\ SweepTrue(s)'
  BY SeenStep, SweepVerdictStep
<1>5. DemoTrue'
  BY DemoStep DEF OutcomesTrue
<1>6. ConfirmedIsSettled'
  BY <1>3, ConfirmedStep
<1> QED
  BY <1>1, <1>2, <1>3, <1>4, <1>5, <1>6 DEF OutcomesTrue

LEMMA OutcomesInvariant == Spec => [](IInv /\ OutcomesTrue)
<1> QED
  BY InitIInv, IInvStep, InitOutcomes, OutcomesStep, PTL DEF Spec

\* INV-002: an intent is confirmed, its invoice executed and its purchase
\* fulfilled only over a transfer of its own that the chain executed as
\* expected: with the guard on or off, live or in demo mode, under any faults.
THEOREM ConfirmationsSettled == Spec => []ConfirmedIsSettled
<1>1. OutcomesTrue => ConfirmedIsSettled
  BY DEF OutcomesTrue
<1> QED
  BY <1>1, OutcomesInvariant, PTL
=============================================================================
