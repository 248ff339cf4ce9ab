------------------------- MODULE PaymentBudgetProofs -------------------------
(***************************************************************************)
(* Theorems about the budget a guarded payment holds: what is spent,       *)
(* released and labelled, and that the system keeps PaymentContract.  They *)
(* hold while a replay claim does not expire during a call; the claim then *)
(* keeps two calls from working for one execution.  The last section, on   *)
(* the interface of the guard's store, assumes nothing of the kind.        *)
(***************************************************************************)
EXTENDS PaymentExecutionProofs

\* The guard is on and no replay claim expires while calls run.
SteadyGuard == GuardEnabled /\ "replay_expiry" \notin Faults

\* A call the guard has let in: it is about to reserve, or it has reserved.
Admitted(q) == req[q].pc = "guard_reserve" \/ auth[q] # "none"
PastGuard == Bound \cup {"claim", "reread"}
Unbound == Early \cup {"claim", "reread"}
Closing == {"mark_confirmed", "settle_invoice", "fulfil"}

\* One call at most is let in for an intent and a key.
ReplayTrue ==
    /\ \A p \in Intents \X Keys : replay[p] # "expired"
    /\ \A q \in Requests : Admitted(q) => replay[PaymentIdentifier(q)] = "claimed"
    /\ \A p, q \in Requests :
        Admitted(p) /\ Admitted(q) /\ PaymentIdentifier(p) = PaymentIdentifier(q) => p = q

\* A call executes for itself, over a reservation of its own, which it spends
\* when its transfer has settled and gives back when it was reverted.
CallGuarded(q) ==
    /\ req[q].pc \in PastGuard => auth[q] # "none"
    /\ req[q].pc \in Unbound => req[q].exec = None
    /\ req[q].exec \in {q, None}
    /\ auth[q] = "committed" => req[q].exec = q /\ chain[q] = "success"
    /\ req[q].pc \in Closing => auth[q] = "committed"
    /\ req[q].pc = "mark_unsettled" /\ req[q].verdict = "REVERTED" => auth[q] = "released"

\* A row's authorization is that of the call it is claimed by, and its label true.
RowGuarded(i) ==
    /\ row[i].guardAuth = row[i].execId
    /\ row[i].execId # None => req[row[i].execId].exec = row[i].execId
                               /\ auth[row[i].execId] # "none"
    /\ row[i].guardStatus \in {"committed", "released"} =>
            row[i].guardAuth # None /\ auth[row[i].guardAuth] = row[i].guardStatus

\* A sweep resolves the reservation before it writes the row.
SweepGuarded(s) ==
    /\ \A i \in Todo(s) :
        /\ sweep[s].seen[i].guardAuth = row[i].guardAuth
        /\ sweep[s].seen[i].guardStatus = "committed" => auth[row[i].guardAuth] = "committed"
    /\ sweep[s].pc \in {"update", "fulfil"} =>
        /\ sweep[s].verdict = "CONFIRMED" => auth[SeenRow(s).guardAuth] = "committed"
        /\ sweep[s].verdict = "REVERTED" => auth[SeenRow(s).guardAuth] = "released"

GuardTrue ==
    /\ ReplayTrue
    /\ \A q \in Requests : CallGuarded(q)
    /\ \A i \in Intents : RowGuarded(i)
    /\ \A s \in Sweeps : SweepGuarded(s)

\* The invariant of a guarded system.
Truth == IInv /\ OutcomesTrue /\ GuardTrue
-----------------------------------------------------------------------------
(* What a step may do. *)

\* The statements of a call that write an authorization or a replay claim.
LEMMA CallWrites ==
  ASSUME NEW q \in Requests, Moved(q)
  PROVE  /\ \/ UNCHANGED auth
            \/ GuardReserve(q)
            \/ (ReleaseReverted(q) \/ RescueRelease(q)) /\ auth' = Released(q)
            \/ Commit(q) /\ Committable(q) /\ auth' = Committed(q)
         /\ UNCHANGED replay \/ GuardClaim(q)
BY DEF Moved, RequestStep, StoreFault, CrashRequest, LookupKey, LookupIntent, GuardClaim,
    GuardReserve, Claim, Reread, Attempt, Transfer, RecordSubmitted, RecordRejected,
    RecordUnknown, MarkSubmitted, Verify, ReleaseReverted, MarkUnsettled, Commit,
    MarkConfirmed, SettleInvoice, Fulfil, RescueDropped, RescueBroadcast, RescueRelease,
    MarkFailed

\* The statements that write an authorization: each one row of the table.
LEMMA AuthWriters ==
  ASSUME [Next]_vars
  PROVE  \/ UNCHANGED auth
         \/ \E q \in Requests :
              \/ GuardReserve(q)
              \/ (ReleaseReverted(q) \/ RescueRelease(q)) /\ auth' = Released(q)
              \/ Commit(q) /\ Committable(q) /\ auth' = Committed(q)
         \/ \E s \in Sweeps :
              \/ SweepRelease(s) /\ auth' = Released(SeenRow(s).guardAuth)
              \/ /\ SweepCommit(s) /\ Committable(SeenRow(s).guardAuth)
                 /\ auth' = Committed(SeenRow(s).guardAuth)
<1>1. ASSUME NEW q \in Requests, Moved(q)
      PROVE  \/ UNCHANGED auth
             \/ GuardReserve(q)
             \/ (ReleaseReverted(q) \/ RescueRelease(q)) /\ auth' = Released(q)
             \/ Commit(q) /\ Committable(q) /\ auth' = Committed(q)
  BY <1>1, CallWrites
<1>2. ASSUME NEW s \in Sweeps, SweepStep(s) \/ CrashSweep(s)
      PROVE  \/ UNCHANGED auth
             \/ SweepRelease(s) /\ auth' = Released(SeenRow(s).guardAuth)
             \/ /\ SweepCommit(s) /\ Committable(SeenRow(s).guardAuth)
                /\ auth' = Committed(SeenRow(s).guardAuth)
  BY <1>2 DEF SweepStep, CrashSweep, SweepStart, SweepVerify, SweepCommit, SweepRelease,
              SweepUpdate, SweepFulfil
<1>3. ASSUME \/ \E q \in Requests, i \in Intents, k \in Keys : Start(q, i, k)
             \/ \E e \in Requests : Mine(e)
             \/ \E p \in Intents \X Keys : ReplayExpires(p)
             \/ UNCHANGED vars
      PROVE  UNCHANGED auth
  BY <1>3 DEF Start, Mine, ReplayExpires, vars
<1> QED
  BY <1>1, <1>2, <1>3 DEF Next, Moved

\* An authorization is reserved by its call, and resolved by its call or by a
\* sweep that saw it in a row.
LEMMA AuthMoves ==
  ASSUME TypeOK, [Next]_vars, NEW a \in Requests, auth'[a] # auth[a]
  PROVE  \/ GuardReserve(a) /\ auth'[a] = "reserved"
         \/ /\ auth[a] = "reserved" /\ auth'[a] = "committed"
            /\ Commit(a) \/ \E s \in Sweeps : SweepCommit(s) /\ SeenRow(s).guardAuth = a
         \/ /\ auth[a] = "reserved" /\ auth'[a] = "released"
            /\ \/ ReleaseReverted(a) \/ RescueRelease(a)
               \/ \E s \in Sweeps : SweepRelease(s) /\ SeenRow(s).guardAuth = a
<1> auth \in [Requests -> {"none", "reserved", "committed", "released"}]
  BY DEF TypeOK
<1>1. ASSUME NEW q \in Requests, GuardReserve(q)
      PROVE  q = a /\ auth'[a] = "reserved"
  BY <1>1 DEF GuardReserve
<1>2. ASSUME NEW b, auth' = Released(b)
      PROVE  a = b /\ auth[a] = "reserved" /\ auth'[a] = "released"
  BY <1>2 DEF Released
<1>3. ASSUME NEW b, Committable(b), auth' = Committed(b)
      PROVE  a = b /\ auth[a] = "reserved" /\ auth'[a] = "committed"
  BY <1>3 DEF Committable, Committed
<1> QED
  BY <1>1, <1>2, <1>3, AuthWriters

\* A reservation once made stays one, and its resolution is final.
LEMMA AuthDurable ==
  ASSUME IInv, [Next]_vars, NEW a \in Requests
  PROVE  /\ auth[a] # "none" => auth'[a] # "none"
         /\ auth[a] \in {"committed", "released"} => auth'[a] = auth[a]
<1>1. GuardReserve(a) => auth[a] = "none"
  BY DEF GuardReserve, IInv, NotYetReserved, Early
<1> QED
  BY <1>1, AuthMoves DEF IInv

\* How a guarded call gets where it is.
LEMMA GuardedFlow ==
  ASSUME GuardEnabled, TypeOK, NEW q \in Requests, Moved(q)
  PROVE  /\ req'[q].pc \in PastGuard =>
              req[q].pc \in PastGuard \/ (GuardReserve(q) /\ auth'[q] = "reserved")
         /\ req'[q].pc \in Unbound => req[q].pc \in Unbound /\ req'[q].exec = req[q].exec
         /\ req'[q].pc \in Closing =>
              req[q].pc \in Closing \/ (Commit(q) /\ auth'[q] = "committed")
         /\ req'[q].pc = "mark_unsettled" => ReleaseReverted(q) \/ req'[q].verdict # "REVERTED"
         /\ req'[q].pc = "guard_reserve" =>
              GuardClaim(q) /\ Fresh(PaymentIdentifier(q))
              /\ replay' = [replay EXCEPT ![PaymentIdentifier(q)] = "claimed"]
<1> DEFINE To(label) == /\ req'[q].pc = label
                        /\ req'[q].exec = req[q].exec /\ req'[q].verdict = req[q].verdict
<1> req \in [Requests -> RequestState] /\ req[q] \in RequestState
  BY DEF TypeOK
<1>0. ASSUME NEW label, Goto(q, label)
      PROVE  To(label)
  BY <1>0 DEF Goto, RequestState
<1> HIDE DEF To
<1>1. CASE LookupKey(q) \/ LookupIntent(q)
  <2>1. /\ req[q].pc \in {"lookup_key", "lookup_intent"}
        /\ \E label \in {"failed", "returned", "lookup_intent", "guard_claim"} : To(label)
    BY <1>0, <1>1 DEF LookupKey, LookupIntent
  <2> QED
    BY <2>1 DEF To, PastGuard, Bound, Unbound, Early, Closing
<1>2. CASE GuardClaim(q)
  <2>1. \/ To("failed")
        \/ /\ To("guard_reserve") /\ Fresh(PaymentIdentifier(q))
           /\ replay' = [replay EXCEPT ![PaymentIdentifier(q)] = "claimed"]
    BY <1>0, <1>2 DEF GuardClaim, GuardInput
  <2>2. req[q].pc = "guard_claim"
    BY <1>2 DEF GuardClaim
  <2> QED
    BY <1>2, <2>1, <2>2 DEF To, PastGuard, Bound, Unbound, Early, Closing
<1>3. CASE GuardReserve(q)
  <2>1. To("failed") \/ (To("claim") /\ auth'[q] = "reserved")
    BY <1>0, <1>3 DEF GuardReserve, TypeOK
  <2>2. req[q].pc = "guard_reserve"
    BY <1>3 DEF GuardReserve
  <2> QED
    BY <1>3, <2>1, <2>2 DEF To, PastGuard, Bound, Unbound, Early, Closing
<1>4. CASE Claim(q) \/ Reread(q)
  <2>1. req[q].pc \in {"claim", "reread"}
    BY <1>4 DEF Claim, Reread
  <2>2. req'[q].pc = "attempt" \/ \E label \in {"failed", "reread"} : To(label)
    BY <1>0, <1>4 DEF Claim, Reread, RequestState
  <2> QED
    BY <2>1, <2>2 DEF To, PastGuard, Bound, Unbound, Early, Closing
<1>5. CASE Verify(q)
  <2>1. /\ req[q].pc = "verify"
        /\ \/ \E v : req' = [req EXCEPT ![q].pc = AfterVerdict(v), ![q].verdict = v]
           \/ To("rescue")
    BY <1>0, <1>5 DEF Verify
  <2>2. ASSUME NEW v, req' = [req EXCEPT ![q].pc = AfterVerdict(v), ![q].verdict = v]
        PROVE  /\ req'[q].pc \in {"commit", "release_reverted", "mark_unsettled"}
               /\ req'[q].pc = "mark_unsettled" => req'[q].verdict # "REVERTED"
    <3>1. /\ AfterVerdict(v) \in {"commit", "release_reverted", "mark_unsettled"}
          /\ AfterVerdict(v) = "mark_unsettled" => v # "REVERTED"
      BY DEF AfterVerdict
    <3> QED
      BY <2>2, <3>1 DEF RequestState
  <2> QED
    BY <2>1, <2>2 DEF To, PastGuard, Bound, Unbound, Early, Closing
<1>6. CASE Commit(q)
  <2>1. To("rescue") \/ (To("mark_confirmed") /\ auth'[q] = "committed")
    BY <1>0, <1>6 DEF Commit, Committed, TypeOK
  <2>2. req[q].pc = "commit"
    BY <1>6 DEF Commit
  <2> QED
    BY <1>6, <2>1, <2>2 DEF To, PastGuard, Bound, Unbound, Early, Closing
<1>7. CASE Attempt(q) \/ RecordSubmitted(q)
  <2>1. /\ req[q].pc \in {"attempt", "record_submitted"}
        /\ req'[q].pc \in {"transfer", "mark_submitted"}
    BY <1>7 DEF Attempt, RecordSubmitted, RequestState
  <2> QED
    BY <2>1 DEF PastGuard, Bound, Unbound, Early, Closing
<1>8. CASE ReleaseReverted(q)
  <2>1. req[q].pc = "release_reverted" /\ To("mark_unsettled")
    BY <1>0, <1>8 DEF ReleaseReverted
  <2> QED
    BY <1>8, <2>1 DEF To, PastGuard, Bound, Unbound, Early, Closing
\* Every other step of the try block goes on inside it, or leaves the call.
<1>9. ASSUME NEW label \in (PastGuard \cup {"failed", "returned"})
                           \ (Unbound \cup {"mark_unsettled"}),
             To(label), req[q].pc \in PastGuard, label \in Closing => req[q].pc \in Closing
      PROVE  /\ req'[q].pc \in PastGuard => req[q].pc \in PastGuard
             /\ req'[q].pc \notin Unbound
             /\ req'[q].pc \in Closing => req[q].pc \in Closing
             /\ req'[q].pc # "mark_unsettled" /\ req'[q].pc # "guard_reserve"
  BY <1>9 DEF To, Unbound, Early
<1>10. CASE Transfer(q) \/ RecordRejected(q) \/ RecordUnknown(q) \/ MarkSubmitted(q)
  <2>1. /\ req[q].pc \in {"transfer", "record_rejected", "record_unknown", "mark_submitted"}
        /\ \E label \in {"record_submitted", "record_rejected", "record_unknown", "rescue",
                         "rescue_dropped", "verify"} : To(label)
    BY <1>0, <1>10 DEF Transfer, RecordRejected, RecordUnknown, MarkSubmitted
  <2> QED
    BY <1>9, <2>1 DEF PastGuard, Bound, Unbound, Early, Closing
<1>11. CASE MarkUnsettled(q) \/ MarkConfirmed(q) \/ SettleInvoice(q) \/ Fulfil(q)
  <2>1. /\ req[q].pc \in {"mark_unsettled", "mark_confirmed", "settle_invoice", "fulfil"}
        /\ \E label \in {"rescue", "settle_invoice", "fulfil", "returned"} :
              To(label) /\ (label \in Closing => req[q].pc \in Closing)
    BY <1>0, <1>11 DEF MarkUnsettled, MarkConfirmed, SettleInvoice, Fulfil, Closing
  <2> QED
    BY <1>9, <2>1 DEF PastGuard, Bound, Unbound, Early, Closing
<1>12. CASE RescueDropped(q) \/ RescueBroadcast(q) \/ RescueRelease(q) \/ MarkFailed(q)
  <2>1. /\ req[q].pc \in {"rescue_dropped", "rescue", "mark_failed"}
        /\ To("failed") \/ To("mark_failed")
    BY <1>0, <1>12 DEF RescueDropped, RescueBroadcast, RescueRelease, MarkFailed
  <2> QED
    BY <1>9, <2>1 DEF PastGuard, Bound, Unbound, Early, Closing
<1>13. CASE StoreFault(q) \/ CrashRequest(q)
  <2>1. /\ To("failed") \/ To("rescue")
        /\ To("rescue") => req[q].pc \in TryBlock \/ To("failed")
    BY <1>0, <1>13 DEF StoreFault, CrashRequest
  <2> QED
    BY <2>1 DEF To, TryBlock, PastGuard, Bound, Unbound, Early, Closing
<1> QED
  BY <1>1, <1>2, <1>3, <1>4, <1>5, <1>6, <1>7, <1>8, <1>9, <1>10, <1>11, <1>12, <1>13
  DEF Moved, RequestStep

\* A call that is let in has started, so its identifier names a replay claim.
LEMMA AdmittedStarted ==
  ASSUME IInv, NEW q \in Requests, Admitted(q)
  PROVE  /\ req[q].pc # "idle" /\ PaymentIdentifier(q) \in Intents \X Keys
         /\ PaymentIdentifier(q) = <<req[q].intent, req[q].key>>
<1>1. req[q].pc # "idle"
  BY DEF Admitted, IInv, NotYetReserved, Early
<1> QED
  BY <1>1 DEF IInv, Started, PaymentIdentifier

\* A call that has started keeps what names its payment.
LEMMA IdentifierKept ==
  ASSUME IInv, [Next]_vars, NEW q \in Requests, req[q].pc # "idle"
  PROVE  req'[q].pc # "idle" /\ PaymentIdentifier(q)' = PaymentIdentifier(q)
<1> TypeOK
  BY DEF IInv
<1>1. ASSUME NEW p \in Requests, RequestStep(p) \/ StoreFault(p) \/ CrashRequest(p)
      PROVE  /\ req'[q].pc # "idle"
             /\ req'[q].intent = req[q].intent /\ req'[q].key = req[q].key
  BY <1>1, RequestEffect
<1>2. ASSUME NEW p \in Requests, NEW i \in Intents, NEW k \in Keys, Start(p, i, k)
      PROVE  req'[q] = req[q]
  BY <1>2 DEF Start, TypeOK
<1> QED
  BY <1>1, <1>2, RequestsMove DEF PaymentIdentifier

\* A call moves by its own step, by starting, or not at all.
LEMMA CallMoves ==
  ASSUME TypeOK, [Next]_vars, NEW q \in Requests
  PROVE  \/ Moved(q)
         \/ req'[q] = req[q]
         \/ /\ req[q].pc = "idle" /\ req'[q].pc = "lookup_key"
            /\ req'[q].exec = req[q].exec /\ req'[q].tx = req[q].tx
            /\ req'[q].verdict = req[q].verdict
<1>1. ASSUME NEW p \in Requests, RequestStep(p) \/ StoreFault(p) \/ CrashRequest(p)
      PROVE  Moved(q) \/ req'[q] = req[q]
  BY <1>1, RequestEffect DEF Moved
<1>2. ASSUME NEW p \in Requests, NEW i \in Intents, NEW k \in Keys, Start(p, i, k)
      PROVE  \/ req'[q] = req[q]
             \/ /\ req[q].pc = "idle" /\ req'[q].pc = "lookup_key"
                /\ req'[q].exec = req[q].exec /\ req'[q].tx = req[q].tx
                /\ req'[q].verdict = req[q].verdict
  BY <1>2 DEF Start, TypeOK, RequestState
<1> QED
  BY <1>1, <1>2, RequestsMove

\* A call is let in by taking the replay claim of its identifier.
LEMMA AdmittedMoves ==
  ASSUME SteadyGuard, IInv, [Next]_vars, NEW q \in Requests, Admitted(q)', ~Admitted(q)
  PROVE  /\ GuardClaim(q) /\ req[q].pc # "idle" /\ Fresh(PaymentIdentifier(q))
         /\ replay' = [replay EXCEPT ![PaymentIdentifier(q)] = "claimed"]
<1> TypeOK /\ GuardEnabled
  BY DEF IInv, SteadyGuard
<1>1. auth'[q] = auth[q]
  BY AuthMoves DEF Admitted, GuardReserve
<1>2. req'[q].pc = "guard_reserve" /\ req[q].pc # "guard_reserve"
  BY <1>1 DEF Admitted
<1>3. Moved(q)
  BY <1>2, CallMoves
<1> QED
  BY <1>2, <1>3, GuardedFlow DEF GuardClaim

\* While the guard is steady, a replay claim is only ever made.
LEMMA ReplayMoves ==
  ASSUME SteadyGuard, TypeOK, [Next]_vars, NEW p \in Intents \X Keys
  PROVE  replay'[p] = replay[p] \/ replay'[p] = "claimed"
<1> replay \in [Intents \X Keys -> {"free", "claimed", "expired"}]
  BY DEF TypeOK
<1>1. ASSUME NEW q \in Requests, GuardClaim(q)
      PROVE  replay'[p] = replay[p] \/ replay'[p] = "claimed"
  BY <1>1 DEF GuardClaim, GuardInput
<1>2. ASSUME NEW q \in Requests, Moved(q)
      PROVE  UNCHANGED replay \/ GuardClaim(q)
  BY <1>2, CallWrites
<1>3. ASSUME NEW s \in Sweeps, SweepStep(s) \/ CrashSweep(s)
      PROVE  UNCHANGED replay
  BY <1>3 DEF SweepStep, CrashSweep, SweepStart, SweepVerify, SweepCommit, SweepRelease,
              SweepUpdate, SweepFulfil
<1>4. ASSUME \/ \E q \in Requests, i \in Intents, k \in Keys : Start(q, i, k)
             \/ \E e \in Requests : Mine(e)
             \/ UNCHANGED vars
      PROVE  UNCHANGED replay
  BY <1>4 DEF Start, Mine, vars
<1>5. ASSUME NEW c \in Intents \X Keys, ReplayExpires(c)
      PROVE  FALSE
  BY <1>5 DEF ReplayExpires, Inject, SteadyGuard
<1> QED
  BY <1>1, <1>2, <1>3, <1>4, <1>5 DEF Next, Moved

LEMMA ReplayStep ==
  ASSUME SteadyGuard, IInv, ReplayTrue, [Next]_vars
  PROVE  ReplayTrue'
<1> TypeOK
  BY DEF IInv
<1>1. ASSUME NEW p \in Intents \X Keys
      PROVE  replay'[p] # "expired"
  BY ReplayMoves DEF ReplayTrue
<1>2. ASSUME NEW q \in Requests, Admitted(q)
      PROVE  replay'[PaymentIdentifier(q)] = "claimed" /\ req[q].pc # "idle"
  BY <1>2, AdmittedStarted, ReplayMoves DEF ReplayTrue
<1>3. ASSUME NEW q \in Requests, Admitted(q)'
      PROVE  /\ req[q].pc # "idle" /\ PaymentIdentifier(q)' = PaymentIdentifier(q)
             /\ replay'[PaymentIdentifier(q)] = "claimed"
  <2>1. CASE Admitted(q)
    BY <1>2, <2>1, IdentifierKept
  <2>2. CASE ~Admitted(q)
    <3>1. /\ req[q].pc # "idle"
          /\ replay' = [replay EXCEPT ![PaymentIdentifier(q)] = "claimed"]
      BY <1>3, <2>2, AdmittedMoves
    <3>2. PaymentIdentifier(q) \in Intents \X Keys
      BY <3>1 DEF IInv, Started, PaymentIdentifier
    <3> QED
      BY <3>1, <3>2, IdentifierKept DEF TypeOK
  <2> QED
    BY <2>1, <2>2
<1>4. ASSUME NEW p \in Requests, NEW q \in Requests, Admitted(p)', Admitted(q)',
             PaymentIdentifier(p)' = PaymentIdentifier(q)', p # q
      PROVE  FALSE
  <2>1. PaymentIdentifier(p) = PaymentIdentifier(q)
    BY <1>3, <1>4
  <2>2. Admitted(p) => replay[PaymentIdentifier(q)] = "claimed"
    BY <2>1 DEF ReplayTrue
  <2>3. Admitted(q) => replay[PaymentIdentifier(q)] = "claimed"
    BY DEF ReplayTrue
  <2>4. ~Admitted(p) \/ ~Admitted(q)
    BY <1>4, <2>1 DEF ReplayTrue
  <2>5. ASSUME ~Admitted(p), ~Admitted(q)
        PROVE  FALSE
    <3>1. GuardClaim(p) /\ GuardClaim(q) /\ req[p].pc # "idle" /\ req[q].pc # "idle"
          /\ (Admitted(p))' /\ (Admitted(q))'
      BY <1>4, <2>5, AdmittedMoves
    <3>2. req[q].pc = "guard_claim" /\ req[p].pc = "guard_claim"
      BY <3>1 DEF GuardClaim
    <3>3. req'[q] = req[q] \/ req'[p] = req[p]
      BY <1>4, <3>1 DEF GuardClaim, Goto, TypeOK
    <3>4. auth[p] = "none" /\ auth[q] = "none" /\ auth' = auth
      BY <3>1, <3>2 DEF IInv, NotYetReserved, Early, GuardClaim
    <3> QED
      BY <1>4, <3>2, <3>3, <3>4 DEF Admitted
  <2>6. CASE Admitted(p) /\ ~Admitted(q)
    BY <1>4, <2>2, <2>6, AdmittedMoves DEF Fresh
  <2>7. CASE Admitted(q) /\ ~Admitted(p)
    BY <1>4, <2>1, <2>3, <2>7, AdmittedMoves DEF Fresh
  <2> QED
    BY <2>4, <2>5, <2>6, <2>7
<1> QED
  BY <1>1, <1>3, <1>4 DEF ReplayTrue
-----------------------------------------------------------------------------
(* Calls. *)

\* A guarded call never joins an execution of another call: the replay claim
\* of their common intent and key went to that one.
LEMMA NoJoin ==
  ASSUME SteadyGuard, Truth, NEW q \in Requests, Reread(q)
  PROVE  Goto(q, "failed")
<1> DEFINE i == req[q].intent
           d == row[i].execId
<1> TypeOK /\ ExecutionOwned /\ Started
  BY DEF Truth, IInv
<1> SUFFICES ASSUME row[i].status = "executing", row[i].key = req[q].key PROVE FALSE
  BY DEF Reread
<1>1. i \in Intents /\ req[q].pc = "reread"
  BY DEF Reread, Started
<1>2. d \in Requests /\ d # None
  BY <1>1 DEF ExecutionOwned, TypeOK, Row
<1>3. /\ req[d].intent = i /\ req[d].exec = d /\ auth[d] # "none"
  BY <1>1, <1>2 DEF ExecutionOwned, Truth, GuardTrue, RowGuarded
<1>4. req[d].key = row[i].key
  BY <1>2, <1>3 DEF ExecutionOwned
<1>5. PaymentIdentifier(d) = PaymentIdentifier(q)
  BY <1>3, <1>4 DEF PaymentIdentifier
<1>6. Admitted(d) /\ Admitted(q) /\ req[q].exec = None
  BY <1>1, <1>3 DEF Admitted, Truth, GuardTrue, CallGuarded, PastGuard, Unbound
<1>7. d = q
  BY <1>2, <1>5, <1>6 DEF Truth, GuardTrue, ReplayTrue
<1> QED
  BY <1>2, <1>3, <1>6, <1>7

\* A call is bound to its own execution, by claiming its intent.
LEMMA ExecMoves ==
  ASSUME SteadyGuard, Truth, [Next]_vars, NEW q \in Requests
  PROVE  \/ req'[q].exec = req[q].exec
         \/ /\ Claim(q) /\ req[q].pc = "claim" /\ req[q].exec = None /\ req'[q].exec = q
            /\ row'[req[q].intent].execId = q
<1> TypeOK /\ req \in [Requests -> RequestState]
  BY DEF Truth, IInv, TypeOK
<1>1. CASE Claim(q)
  <2>1. req[q].pc = "claim" /\ req[q].exec = None /\ req[q].intent \in Intents
    BY <1>1 DEF Claim, Truth, GuardTrue, CallGuarded, Unbound, IInv, Started
  <2>2. CASE \E label \in {"failed", "reread"} : Goto(q, label)
    BY <2>2 DEF Goto, RequestState
  <2>3. CASE /\ req' = [req EXCEPT ![q].pc = "attempt", ![q].exec = q]
             /\ row' = [row EXCEPT ![req[q].intent] = Correlated(q)]
    BY <1>1, <2>1, <2>3 DEF RequestState, Correlated, TypeOK
  <2> QED
    BY <1>1, <2>2, <2>3 DEF Claim
<1>2. CASE Reread(q)
  BY <1>2, NoJoin DEF Goto, RequestState
<1>3. CASE Moved(q) /\ ~Claim(q) /\ ~Reread(q)
  BY <1>3, RequestEffect DEF Moved
<1> QED
  BY <1>1, <1>2, <1>3, CallMoves

\* The reservation of a row a sweep deals with is that of its execution.
LEMMA SeenAuth ==
  ASSUME Truth, NEW s \in Sweeps, Todo(s) # {}
  PROVE  /\ SeenRow(s).guardAuth \in Requests
         /\ SeenRow(s).guardAuth = SeenRow(s).tx
         /\ SeenRow(s).guardAuth = row[Current(s)].guardAuth
         /\ SeenRow(s).guardAuth = row[Current(s)].execId
         /\ auth[SeenRow(s).guardAuth] # "none"
         /\ req[SeenRow(s).guardAuth].exec = SeenRow(s).guardAuth
         /\ SeenRow(s).guardStatus = "committed" => auth[SeenRow(s).guardAuth] = "committed"
<1>1. /\ Current(s) \in Intents /\ Current(s) \in Todo(s)
      /\ SeenRow(s).tx \in Requests /\ SeenRow(s).tx = row[Current(s)].execId
  BY SeenHash DEF Truth
<1>2. RowGuarded(Current(s)) /\ SweepGuarded(s)
  BY <1>1 DEF Truth, GuardTrue
<1>3. SeenRow(s) = sweep[s].seen[Current(s)]
  BY DEF SeenRow
<1> QED
  BY <1>1, <1>2, <1>3, NoneAssumption DEF RowGuarded, SweepGuarded

\* Budget is spent by a call for itself, over its settled transfer.
LEMMA SpendMoves ==
  ASSUME SteadyGuard, Truth, [Next]_vars, NEW a \in Requests, auth'[a] = "committed"
  PROVE  req[a].exec = a /\ chain[a] = "success"
<1> TypeOK /\ IInv /\ OutcomesTrue
  BY DEF Truth, IInv
<1>1. CASE auth[a] = "committed"
  BY <1>1 DEF Truth, GuardTrue, CallGuarded
<1>2. CASE Commit(a)
  <2>1. req[a].pc = "commit"
    BY <1>2 DEF Commit
  <2>2. /\ req[a].tx \in Requests /\ req[a].tx = req[a].exec
        /\ chain[req[a].tx] = "success"
    BY <2>1, HashKnown DEF OutcomesTrue, CallTrue, Hashed, Judged
  <2>3. req[a].exec \in {a, None}
    BY DEF Truth, GuardTrue, CallGuarded
  <2> QED
    BY <2>2, <2>3, NoneAssumption
<1>3. ASSUME NEW s \in Sweeps, SweepCommit(s), SeenRow(s).guardAuth = a
      PROVE  req[a].exec = a /\ chain[a] = "success"
  <2>1. Todo(s) # {} /\ sweep[s].verdict = "CONFIRMED"
    BY <1>3 DEF SweepCommit, IInv, SweepHasWork, OutcomesTrue, SweepTrue
  <2>2. chain[SeenRow(s).tx] = "success"
    BY <2>1 DEF OutcomesTrue, SweepTrue
  <2> QED
    BY <1>3, <2>1, <2>2, SeenAuth
<1> QED
  BY <1>1, <1>2, <1>3, AuthMoves

\* A reservation whose transfer was reverted is given back by whoever resolves it.
LEMMA RevertedNotSpent ==
  ASSUME Truth, NEW a \in Requests, chain[a] = "reverted"
  PROVE  auth[a] # "committed"
BY DEF Truth, GuardTrue, CallGuarded

LEMMA CallGuardedStep ==
  ASSUME SteadyGuard, Truth, [Next]_vars, NEW q \in Requests
  PROVE  CallGuarded(q)'
<1> /\ TypeOK /\ IInv /\ OutcomesTrue /\ GuardEnabled /\ CallGuarded(q)
    /\ auth \in [Requests -> {"none", "reserved", "committed", "released"}]
  BY DEF Truth, IInv, TypeOK, SteadyGuard, GuardTrue
<1>1. req'[q].pc \in PastGuard => auth'[q] # "none"
  <2>1. CASE req[q].pc \in PastGuard
    BY <2>1, AuthDurable DEF CallGuarded
  <2>2. CASE req[q].pc \notin PastGuard
    BY <2>2, CallMoves, GuardedFlow DEF PastGuard, Bound
  <2> QED
    BY <2>1, <2>2
<1>2. req'[q].pc \in Unbound => req'[q].exec = None
  <2>1. req'[q].pc \in Unbound => req[q].pc \in Unbound /\ req'[q].exec = req[q].exec
    BY CallMoves, GuardedFlow DEF Unbound, Early
  <2> QED
    BY <2>1 DEF CallGuarded
<1>3. req'[q].exec \in {q, None}
  BY ExecMoves DEF CallGuarded
<1>4. auth'[q] = "committed" => req'[q].exec = q /\ chain'[q] = "success"
  BY SpendMoves, ExecMoves, Durable, NoneAssumption
<1>5. req'[q].pc \in Closing => auth'[q] = "committed"
  <2>1. req'[q].pc \in Closing => req[q].pc \in Closing \/ auth'[q] = "committed"
    BY CallMoves, GuardedFlow DEF Closing
  <2> QED
    BY <2>1, AuthDurable DEF CallGuarded
<1>6. ASSUME req'[q].pc = "mark_unsettled", req'[q].verdict = "REVERTED"
      PROVE  auth'[q] = "released"
  <2>1. CASE req'[q] = req[q]
    BY <1>6, <2>1, AuthDurable DEF CallGuarded
  <2>2. CASE ReleaseReverted(q)
    <3>1. req[q].pc = "release_reverted" /\ auth' = Released(q)
      BY <2>2 DEF ReleaseReverted
    <3>2. /\ req[q].tx \in Requests /\ req[q].tx = req[q].exec
          /\ chain[req[q].tx] = "reverted"
      BY <3>1, HashKnown DEF OutcomesTrue, CallTrue, Hashed
    <3>3. chain[q] = "reverted"
      BY <3>2, NoneAssumption DEF CallGuarded
    <3>4. auth[q] \in {"reserved", "released"}
      BY <3>1, <3>3, RevertedNotSpent DEF CallGuarded, PastGuard, Bound
    <3> QED
      BY <3>1, <3>4 DEF Released
  <2> QED
    BY <1>6, <2>1, <2>2, CallMoves, GuardedFlow
<1> QED
  BY <1>1, <1>2, <1>3, <1>4, <1>5, <1>6 DEF CallGuarded
-----------------------------------------------------------------------------
(* Rows. *)

\* An intent's binding is made once, by the call that claims it for itself.
LEMMA BindingMoves ==
  ASSUME SteadyGuard, Truth, [Next]_vars, NEW i \in Intents
  PROVE  \/ /\ row'[i].execId = row[i].execId /\ row'[i].guardAuth = row[i].guardAuth
         \/ \E q \in Requests :
              /\ Claim(q) /\ req[q].intent = i /\ row[i].execId = None
              /\ row[i].status = "prepared"
              /\ row'[i].execId = q /\ row'[i].guardAuth = q /\ row'[i].guardStatus = "reserved"
              /\ row'[i].status = "executing"
              /\ req'[q].exec = q /\ req[q].pc = "claim" /\ req'[q].pc = "attempt"
<1> TypeOK /\ IInv /\ Started /\ ExecutionOwned /\ req \in [Requests -> RequestState]
  BY DEF Truth, IInv, TypeOK
<1>1. ASSUME NEW q \in Requests, Claim(q), req[q].intent = i, row[i].status = "prepared",
             row'[i].execId = q
      PROVE  \/ /\ row'[i].execId = row[i].execId /\ row'[i].guardAuth = row[i].guardAuth
             \/ /\ row[i].execId = None
                /\ row'[i].guardAuth = q /\ row'[i].guardStatus = "reserved"
                /\ row'[i].status = "executing"
                /\ req'[q].exec = q /\ req[q].pc = "claim" /\ req'[q].pc = "attempt"
  <2>1. CASE /\ row' = [row EXCEPT ![i] = Correlated(q)]
             /\ req' = [req EXCEPT ![q].pc = "attempt", ![q].exec = q]
    <3>1. row'[i] = Correlated(q)
      BY <2>1 DEF TypeOK
    <3>2. req'[q].exec = q /\ req'[q].pc = "attempt"
      BY <2>1 DEF RequestState
    <3> QED
      BY <1>1, <3>1, <3>2 DEF Correlated, OwnAuth, Guarded, SteadyGuard, Claim, ExecutionOwned
  <2>2. CASE row' = row
    BY <2>2
  <2> QED
    BY <1>1, <2>1, <2>2 DEF Claim
<1> QED
  BY <1>1, RowEffect

\* Who writes which guard label.
LEMMA LabelMoves ==
  ASSUME SteadyGuard, Truth, [Next]_vars, NEW i \in Intents,
         row'[i].guardStatus # row[i].guardStatus,
         row'[i].guardStatus \in {"committed", "released"}
  PROVE  row[i].execId \in Requests /\ auth[row[i].execId] = row'[i].guardStatus
<1> /\ TypeOK /\ IInv /\ OutcomesTrue /\ row \in [Intents -> Row] /\ row[i] \in Row
    /\ \A label : Guarded(label) = label
  BY DEF Truth, IInv, TypeOK, SteadyGuard, Guarded
<1>1. ASSUME NEW q \in Requests,
             Claim(q) \/ MarkSubmitted(q) \/ RescueDropped(q) \/ RescueBroadcast(q) \/ MarkFailed(q)
      PROVE  FALSE
  <2>1. CASE Claim(q)
    BY <2>1 DEF Claim, Correlated
  <2>2. CASE MarkSubmitted(q)
    BY <2>2 DEF MarkSubmitted, Row
  <2>3. CASE RescueDropped(q)
    BY <2>3 DEF RescueDropped, Row
  <2>4. CASE RescueBroadcast(q)
    BY <2>4 DEF RescueBroadcast, Row
  <2>5. CASE MarkFailed(q)
    BY <2>5 DEF MarkFailed, Row
  <2> QED
    BY <1>1, <2>1, <2>2, <2>3, <2>4, <2>5
<1>2. ASSUME NEW q \in Requests, req[q].pc \in Hashed, req[q].intent = i
      PROVE  row[i].execId = q
  BY <1>2, HashKnown, NoneAssumption DEF Truth, GuardTrue, CallGuarded
<1>3. ASSUME NEW q \in Requests, MarkConfirmed(q)
      PROVE  row[i].execId = q /\ auth[q] = "committed" /\ row'[i].guardStatus = "committed"
  <2>1. req[q].pc = "mark_confirmed" /\ req[q].intent = i /\ row'[i].guardStatus = "committed"
    BY <1>3 DEF MarkConfirmed, Row
  <2> QED
    BY <1>2, <2>1 DEF Truth, GuardTrue, CallGuarded, Closing, Hashed
<1>4. ASSUME NEW q \in Requests, MarkUnsettled(q)
      PROVE  row[i].execId = q /\ auth[q] = "released" /\ row'[i].guardStatus = "released"
  <2>1. /\ req[q].pc = "mark_unsettled" /\ req[q].intent = i
        /\ row'[i].guardStatus = GuardLabelOf(req[q].verdict)
    BY <1>4 DEF MarkUnsettled, Row
  <2>2. req[q].verdict # "CONFIRMED"
    BY <2>1 DEF OutcomesTrue, CallTrue
  <2>3. req[q].verdict = "REVERTED" /\ row'[i].guardStatus = "released"
    BY <2>1, <2>2 DEF GuardLabelOf
  <2> QED
    BY <1>2, <2>1, <2>3 DEF Truth, GuardTrue, CallGuarded, Hashed
<1>5. ASSUME NEW s \in Sweeps, SweepUpdate(s)
      PROVE  row[i].execId \in Requests /\ auth[row[i].execId] = row'[i].guardStatus
  <2>1. i = Current(s) /\ row'[i].guardStatus = SweepLabel(s) /\ sweep[s].pc = "update"
    BY <1>5 DEF SweepUpdate, Row
  <2>2. Todo(s) # {}
    BY <2>1 DEF IInv, SweepHasWork
  <2>3. /\ SeenRow(s).guardAuth \in Requests /\ SeenRow(s).guardAuth = row[i].execId
    BY <2>1, <2>2, SeenAuth
  <2>4. SweepLabel(s) = GuardLabelOf(sweep[s].verdict)
    BY <2>1 DEF SweepLabel
  <2>5. \/ sweep[s].verdict = "CONFIRMED" /\ row'[i].guardStatus = "committed"
        \/ sweep[s].verdict = "REVERTED" /\ row'[i].guardStatus = "released"
    BY <2>1, <2>4 DEF GuardLabelOf
  <2> QED
    BY <2>1, <2>3, <2>5 DEF Truth, GuardTrue, SweepGuarded
<1> QED
  BY <1>1, <1>3, <1>4, <1>5, RowWriters

LEMMA RowGuardedStep ==
  ASSUME SteadyGuard, Truth, [Next]_vars, NEW i \in Intents
  PROVE  RowGuarded(i)'
<1> /\ TypeOK /\ IInv /\ RowGuarded(i) /\ row[i].execId \in Requests \cup {None}
  BY DEF Truth, IInv, TypeOK, GuardTrue, Row
<1>1. CASE \E q \in Requests :
              /\ row'[i].execId = q /\ row'[i].guardAuth = q /\ row'[i].guardStatus = "reserved"
              /\ req'[q].exec = q /\ req[q].pc = "claim"
  <2>1. PICK q \in Requests :
               /\ row'[i].execId = q /\ row'[i].guardAuth = q /\ row'[i].guardStatus = "reserved"
               /\ req'[q].exec = q /\ req[q].pc = "claim"
    BY <1>1
  <2>2. auth'[q] # "none"
    BY <2>1, AuthDurable DEF Truth, GuardTrue, CallGuarded, PastGuard
  <2> QED
    BY <2>1, <2>2 DEF RowGuarded
<1>2. CASE row'[i].execId = row[i].execId /\ row'[i].guardAuth = row[i].guardAuth
  <2>1. row'[i].execId # None => /\ req'[row'[i].execId].exec = row'[i].execId
                                 /\ auth'[row'[i].execId] # "none"
    BY <1>2, ExecMoves, AuthDurable DEF RowGuarded
  <2>2. ASSUME row'[i].guardStatus \in {"committed", "released"}
        PROVE  row'[i].guardAuth # None /\ auth'[row'[i].guardAuth] = row'[i].guardStatus
    <3>1. CASE row'[i].guardStatus = row[i].guardStatus
      BY <1>2, <2>2, <3>1, AuthDurable DEF RowGuarded
    <3>2. CASE row'[i].guardStatus # row[i].guardStatus
      BY <1>2, <2>2, <3>2, LabelMoves, AuthDurable, NoneAssumption DEF RowGuarded
    <3> QED
      BY <3>1, <3>2
  <2> QED
    BY <1>2, <2>1, <2>2 DEF RowGuarded
<1> QED
  BY <1>1, <1>2, BindingMoves
-----------------------------------------------------------------------------
(* Sweeps. *)

\* A sweep that writes is still working on what it had read.
LEMMA WritingMoves ==
  ASSUME TypeOK, [Next]_vars, NEW s \in Sweeps, sweep'[s].pc \in {"update", "fulfil"}
  PROVE  /\ sweep'[s] # Abort /\ sweep'[s] # Forget(s)
         /\ sweep[s].pc # "idle" /\ sweep'[s].seen = sweep[s].seen
         /\ \/ sweep'[s] = sweep[s]
            \/ SweepVerify(s) \/ SweepCommit(s) \/ SweepRelease(s) \/ SweepUpdate(s)
<1> sweep \in [Sweeps -> SweepState]
  BY DEF TypeOK
<1>1. sweep'[s] # Abort
  BY DEF Abort
<1>2. sweep'[s] # Forget(s)
  BY DEF Forget, SweepState
<1>3. ~SweepStart(s)
  BY DEF SweepStart
<1>4. SweepVerify(s) \/ SweepCommit(s) \/ SweepRelease(s) \/ SweepUpdate(s) => sweep[s].pc # "idle"
  BY DEF SweepVerify, SweepCommit, SweepRelease, SweepUpdate
<1> QED
  BY <1>1, <1>2, <1>3, <1>4, SweepMoves

LEMMA SweepGuardedStep ==
  ASSUME SteadyGuard, Truth, [Next]_vars, NEW s \in Sweeps
  PROVE  SweepGuarded(s)'
<1> /\ TypeOK /\ IInv /\ OutcomesTrue /\ GuardEnabled /\ SweepGuarded(s) /\ SweepTrue(s)
    /\ sweep \in [Sweeps -> SweepState]
    /\ auth \in [Requests -> {"none", "reserved", "committed", "released"}]
  BY DEF Truth, IInv, TypeOK, OutcomesTrue, SteadyGuard, GuardTrue
\* What it has still to deal with.
<1>1. ASSUME NEW i \in Todo(s)'
      PROVE  /\ sweep'[s].seen[i].guardAuth = row'[i].guardAuth
             /\ sweep'[s].seen[i].guardStatus = "committed" => auth'[row'[i].guardAuth] = "committed"
  <2>1. i \in Intents
    BY DEF Todo
  <2>2. CASE i \in Todo(s) /\ sweep'[s].seen[i] = sweep[s].seen[i]
    <3>1. row[i].tx # None
      BY <2>1, <2>2 DEF OutcomesTrue, SeenTrue
    <3>2. row[i].execId # None /\ row[i].execId \in Requests /\ row[i].guardAuth = row[i].execId
      BY <2>1, <3>1 DEF OutcomesTrue, RowTrue, Truth, GuardTrue, RowGuarded, TypeOK, Row
    <3>3. row'[i].guardAuth = row[i].guardAuth
      BY <2>1, <3>2, BindingMoves
    <3> QED
      BY <2>2, <3>2, <3>3, AuthDurable DEF SweepGuarded
  <2>3. CASE sweep'[s].seen[i] = row[i] /\ row' = row
    <3>1. RowGuarded(i) /\ row[i].guardAuth \in Requests \cup {None}
      BY <2>1 DEF Truth, GuardTrue, TypeOK, Row
    <3> QED
      BY <2>3, <3>1, AuthDurable DEF RowGuarded
  <2> QED
    BY <2>2, <2>3, SeenMoves
\* How it came to write.
<1>2. ASSUME sweep'[s].pc \in {"update", "fulfil"}
      PROVE  /\ sweep'[s].verdict = "CONFIRMED" => auth'[SeenRow(s)'.guardAuth] = "committed"
             /\ sweep'[s].verdict = "REVERTED" => auth'[SeenRow(s)'.guardAuth] = "released"
  <2>1. sweep[s].pc # "idle" /\ sweep'[s].seen = sweep[s].seen
    BY <1>2, WritingMoves
  <2>2. /\ SeenRow(s)' = SeenRow(s) /\ Todo(s) # {}
    BY <2>1, SameCurrent DEF IInv, SweepHasWork
  <2>3. /\ SeenRow(s).guardAuth \in Requests /\ auth[SeenRow(s).guardAuth] # "none"
        /\ SeenRow(s).guardAuth = SeenRow(s).tx
        /\ SeenRow(s).guardStatus = "committed" => auth[SeenRow(s).guardAuth] = "committed"
    BY <2>2, SeenAuth
  <2>4. CASE sweep'[s] = sweep[s]
    BY <1>2, <2>2, <2>3, <2>4, AuthDurable DEF SweepGuarded
  <2>5. CASE SweepVerify(s)
    <3>1. PICK v : sweep' = [sweep EXCEPT ![s].pc = AfterSweepVerdict(s, v), ![s].verdict = v]
      BY <1>2, <2>5, WritingMoves DEF SweepVerify
    <3>2. sweep'[s].verdict = v /\ sweep'[s].pc = AfterSweepVerdict(s, v)
      BY <3>1 DEF SweepState
    <3>3. v = "CONFIRMED" /\ SeenRow(s).guardStatus # "committed" => AfterSweepVerdict(s, v) = "commit"
      BY <2>3, NoneAssumption DEF AfterSweepVerdict
    <3>4. v = "REVERTED" => AfterSweepVerdict(s, v) = "release"
      BY <2>3, NoneAssumption DEF AfterSweepVerdict
    <3> QED
      BY <1>2, <2>2, <2>3, <3>2, <3>3, <3>4, AuthDurable
  <2>6. CASE SweepCommit(s)
    <3>1. sweep[s].verdict = "CONFIRMED" /\ sweep' = [sweep EXCEPT ![s].pc = "update"]
          /\ auth' = Committed(SeenRow(s).guardAuth)
      BY <1>2, <2>6, WritingMoves DEF SweepCommit, SweepTrue
    <3> QED
      BY <2>2, <2>3, <3>1 DEF Committed, SweepState
  <2>7. CASE SweepRelease(s)
    <3>1. sweep[s].verdict = "REVERTED" /\ sweep' = [sweep EXCEPT ![s].pc = "update"]
          /\ auth' = Released(SeenRow(s).guardAuth)
      BY <2>7 DEF SweepRelease, SweepTrue
    <3>2. chain[SeenRow(s).guardAuth] = "reverted"
      BY <2>3, <3>1 DEF SweepTrue
    <3>3. auth[SeenRow(s).guardAuth] # "committed"
      BY <2>3, <3>2, RevertedNotSpent
    <3> QED
      BY <2>2, <2>3, <3>1, <3>3 DEF Released, SweepState
  <2>8. CASE SweepUpdate(s)
    <3>1. /\ sweep[s].pc = "update" /\ auth' = auth
          /\ sweep' = [sweep EXCEPT ![s].pc = "fulfil"]
      BY <1>2, <2>8, WritingMoves DEF SweepUpdate
    <3> QED
      BY <2>2, <3>1 DEF SweepGuarded, SweepState
  <2> QED
    BY <1>2, <2>4, <2>5, <2>6, <2>7, <2>8, WritingMoves
<1> QED
  BY <1>1, <1>2 DEF SweepGuarded
-----------------------------------------------------------------------------
(* The theorems about spending and labels. *)

LEMMA InitGuardTrue == Init => GuardTrue
<1> SUFFICES ASSUME Init PROVE GuardTrue
  OBVIOUS
<1>1. ReplayTrue
  BY DEF Init, ReplayTrue, Admitted
<1>2. \A q \in Requests : CallGuarded(q)
  BY DEF Init, CallGuarded, PastGuard, Bound, Closing
<1>3. \A i \in Intents : RowGuarded(i)
  <2>1. \A i \in Intents : row[i] = NewRow
    BY DEF Init
  <2> QED
    BY <2>1, NoneAssumption DEF NewRow, RowGuarded
<1>4. \A s \in Sweeps : Todo(s) = {} /\ sweep[s].pc = "idle"
  BY DEF Init, Todo, NewRow, ReconcileCandidates
<1> QED
  BY <1>1, <1>2, <1>3, <1>4 DEF GuardTrue, SweepGuarded

LEMMA TruthStep ==
  ASSUME SteadyGuard
  PROVE  Truth /\ [Next]_vars => Truth'
<1> SUFFICES ASSUME Truth, [Next]_vars PROVE Truth'
  OBVIOUS
<1>1. IInv' /\ OutcomesTrue'
  BY IInvStep, OutcomesStep DEF Truth
<1>2. ReplayTrue'
  BY ReplayStep DEF Truth, GuardTrue
<1> QED
  BY <1>1, <1>2, CallGuardedStep, RowGuardedStep, SweepGuardedStep DEF Truth, GuardTrue

LEMMA TruthInvariant ==
  ASSUME SteadyGuard
  PROVE  Spec => []Truth
<1>1. Init => Truth
  BY InitIInv, InitOutcomes, InitGuardTrue DEF Truth
<1>2. Truth /\ [Next]_vars => Truth'
  BY TruthStep
<1> QED
  BY <1>1, <1>2, PTL DEF Spec

\* INV-005: budget is consumed only by a settled transfer, and an intent
\* consumes it once, however many calls and sweeps try to commit it.
THEOREM BudgetSpentOnce ==
  ASSUME SteadyGuard
  PROVE  Spec => []SpendIsSettledOnce
<1>1. Truth => SpendIsSettledOnce
  <2> SUFFICES ASSUME Truth, NEW p \in Requests, auth[p] = "committed"
               PROVE  /\ req[p].exec # None /\ chain[req[p].exec] = "success"
                      /\ \A q \in Requests :
                            auth[q] = "committed" /\ req[q].intent = req[p].intent => p = q
    BY DEF SpendIsSettledOnce
  <2>1. \A q \in Requests : auth[q] = "committed" => req[q].exec = q /\ chain[q] = "success"
    BY DEF Truth, GuardTrue, CallGuarded
  <2>2. \A q \in Requests : auth[q] = "committed" => row[req[q].intent].execId = q
    BY <2>1, NoneAssumption DEF Truth, IInv, ExecutionOwned
  <2> QED
    BY <2>1, <2>2, NoneAssumption
<1> QED
  BY <1>1, TruthInvariant, PTL

\* guard_status never claims a commit or a release that did not happen.
THEOREM LabelsTrue ==
  ASSUME SteadyGuard
  PROVE  Spec => []GuardLabelTrue
<1>1. Truth => GuardLabelTrue
  BY DEF Truth, GuardTrue, RowGuarded, GuardLabelTrue
<1> QED
  BY <1>1, TruthInvariant, PTL
-----------------------------------------------------------------------------
(***************************************************************************)
(* The store's interface.  This needs no steady guard: each step moves one *)
(* call by one stage, or none, whatever fault occurs and whether or not    *)
(* the guard is on.                                                        *)
(***************************************************************************)
PrintOf(q) == IF StageOf(q) \in {"new", "refused"} THEN None ELSE GuardInput(q)
LiveClaims == {p \in Intents \X Keys : replay[p] = "claimed"}
BeforeGuard == {"idle", "lookup_key", "lookup_intent", "guard_claim"}

\* A step that moves one call, and no claim.
LEMMA StageMoves ==
  ASSUME NEW q \in Requests, LiveClaims' = LiveClaims,
         \A p \in Requests \ {q} : StageOf(p)' = StageOf(p) /\ PrintOf(p)' = PrintOf(p)
  PROVE  /\ StageOf(q)' = StageOf(q) /\ PrintOf(q)' = PrintOf(q) => UNCHANGED Store!storeVars
         /\ StageOf(q) \in {"new", "claimed"} /\ StageOf(q)' = "refused" => Store!Refuse(q)
         /\ PrintOf(q)' = PrintOf(q) =>
              /\ StageOf(q) = "claimed" /\ StageOf(q)' = "reserved" => Store!ReserveBudget(q)
              /\ StageOf(q) = "reserved" /\ StageOf(q)' = "committed" => Store!CommitAuthorization(q)
              /\ StageOf(q) = "reserved" /\ StageOf(q)' = "released" => Store!ReleaseAuthorization(q)
<1> DEFINE stages == [p \in Requests |-> StageOf(p)]
           prints == [p \in Requests |-> PrintOf(p)]
<1>1. /\ stages' = [stages EXCEPT ![q] = StageOf(q)'] /\ stages[q] = StageOf(q)
      /\ prints' = [prints EXCEPT ![q] = PrintOf(q)']
  OBVIOUS
<1>2. StageOf(q)' = "refused" => PrintOf(q)' = None
  BY DEF PrintOf
<1>3. StageOf(q)' = StageOf(q) /\ PrintOf(q)' = PrintOf(q) => stages' = stages /\ prints' = prints
  OBVIOUS
<1>4. PrintOf(q)' = PrintOf(q) => prints' = prints
  OBVIOUS
<1> QED
  BY <1>1, <1>2, <1>3, <1>4
  DEF Store!storeVars, Store!Refuse, Store!ReserveBudget, Store!CommitAuthorization,
      Store!ReleaseAuthorization, Store!Move, PrintOf, LiveClaims

\* A call comes before the guard only from before it, and is about to reserve
\* only after its claim.
LEMMA GuardOrder ==
  ASSUME TypeOK, NEW q \in Requests, Moved(q)
  PROVE  /\ req'[q].pc \in BeforeGuard => req[q].pc \in BeforeGuard
         /\ req'[q].pc = "guard_reserve" => GuardClaim(q)
<1> req \in [Requests -> RequestState]
  BY DEF TypeOK
<1>0. ASSUME NEW label, Goto(q, label)
      PROVE  req'[q].pc = label
  BY <1>0 DEF Goto, RequestState
<1>1. CASE LookupKey(q) \/ LookupIntent(q)
  <2>1. /\ req[q].pc \in BeforeGuard
        /\ \E label \in {"failed", "returned", "lookup_intent", "guard_claim", "claim"} :
                Goto(q, label)
    BY <1>1 DEF LookupKey, LookupIntent, BeforeGuard
  <2> QED
    BY <1>0, <2>1
<1>2. CASE GuardClaim(q)
  <2>1. req[q].pc \in BeforeGuard
    BY <1>2 DEF GuardClaim, BeforeGuard
  <2> QED
    BY <1>2, <2>1
<1>3. CASE GuardReserve(q) \/ StoreFault(q) \/ CrashRequest(q)
  <2>1. \E label \in {"failed", "claim", "rescue"} : Goto(q, label)
    BY <1>3 DEF GuardReserve, StoreFault, CrashRequest
  <2> QED
    BY <1>0, <2>1 DEF BeforeGuard
<1>4. CASE \/ Claim(q) \/ Reread(q) \/ Attempt(q) \/ Transfer(q) \/ RecordSubmitted(q)
           \/ RecordRejected(q) \/ RecordUnknown(q) \/ MarkSubmitted(q) \/ Verify(q)
           \/ ReleaseReverted(q) \/ MarkUnsettled(q) \/ Commit(q) \/ MarkConfirmed(q)
           \/ SettleInvoice(q) \/ Fulfil(q) \/ RescueDropped(q) \/ RescueBroadcast(q)
           \/ RescueRelease(q) \/ MarkFailed(q)
  <2>1. req[q].pc \notin Early
    BY <1>4 DEF Claim, Reread, Attempt, Transfer, RecordSubmitted, RecordRejected,
                RecordUnknown, MarkSubmitted, Verify, ReleaseReverted, MarkUnsettled, Commit,
                MarkConfirmed, SettleInvoice, Fulfil, RescueDropped, RescueBroadcast,
                RescueRelease, MarkFailed, Early
  <2>2. req'[q].pc \notin Early
    BY <2>1, RequestEffect DEF Moved
  <2> QED
    BY <2>2 DEF BeforeGuard, Early
<1> QED
  BY <1>1, <1>2, <1>3, <1>4 DEF Moved, RequestStep

\* A step of a call leaves every other call where it is.
LEMMA OthersStay ==
  ASSUME IInv, NEW q \in Requests, Moved(q), NEW p \in Requests \ {q}
  PROVE  StageOf(p)' = StageOf(p) /\ PrintOf(p)' = PrintOf(p)
<1>1. req'[p] = req[p]
  BY RequestEffect DEF IInv, Moved
<1>2. auth'[p] = auth[p]
  BY CallWrites DEF IInv, TypeOK, GuardReserve, Released, Committed
<1> QED
  BY <1>1, <1>2 DEF StageOf, PrintOf, GuardInput, PaymentIdentifier

\* What a step of a call that claims nothing does to it.
LEMMA CallStages ==
  ASSUME IInv, [Next]_vars, NEW q \in Requests, Moved(q), UNCHANGED replay
  PROVE  Store!Next \/ UNCHANGED Store!storeVars
<1>0. /\ \A p \in Requests \ {q} : StageOf(p)' = StageOf(p) /\ PrintOf(p)' = PrintOf(p)
      /\ LiveClaims' = LiveClaims /\ GuardInput(q)' = GuardInput(q)
      /\ auth \in [Requests -> {"none", "reserved", "committed", "released"}]
  <2>1. req[q].pc # "idle"
    BY RequestEffect DEF IInv, Moved
  <2> QED
    BY <2>1, OthersStay, IdentifierKept DEF LiveClaims, GuardInput, IInv, TypeOK
<1>1. CASE auth'[q] = auth[q] /\ auth[q] # "none"
  <2>1. StageOf(q)' = StageOf(q) /\ PrintOf(q)' = PrintOf(q)
    BY <1>0, <1>1 DEF StageOf, PrintOf
  <2> QED
    BY <1>0, <2>1, StageMoves
<1>2. CASE auth'[q] = auth[q] /\ auth[q] = "none"
  <2>1. /\ req'[q].pc \in BeforeGuard => req[q].pc \in BeforeGuard
        /\ req'[q].pc = "guard_reserve" => GuardClaim(q)
    BY GuardOrder DEF IInv
  <2>2. ~(req'[q].pc = "guard_reserve")
    <3> SUFFICES ASSUME GuardClaim(q) PROVE req'[q].pc = "failed"
      BY <2>1
    <3>1. req[q].pc = "guard_claim" /\ GuardInput(q) \in Intents \X Keys
      BY DEF GuardClaim, GuardInput, PaymentIdentifier, IInv, Started
    <3>2. ~(Fresh(GuardInput(q)) /\ replay' = [replay EXCEPT ![GuardInput(q)] = "claimed"])
      BY <3>1 DEF Fresh, IInv, TypeOK
    <3>3. Goto(q, "failed")
      BY <3>2 DEF GuardClaim
    <3> QED
      BY <3>3 DEF Goto, IInv, TypeOK, RequestState
  <2>3. /\ StageOf(q) = IF req[q].pc \in BeforeGuard THEN "new"
                        ELSE IF req[q].pc = "guard_reserve" THEN "claimed" ELSE "refused"
        /\ StageOf(q)' = IF req'[q].pc \in BeforeGuard THEN "new" ELSE "refused"
    BY <1>2, <2>2 DEF StageOf, BeforeGuard
  <2>4. CASE StageOf(q)' = StageOf(q)
    <3>1. PrintOf(q)' = PrintOf(q)
      BY <1>0, <2>4 DEF PrintOf
    <3> QED
      BY <1>0, <2>4, <3>1, StageMoves
  <2>5. CASE StageOf(q)' # StageOf(q)
    <3>1. StageOf(q) \in {"new", "claimed"} /\ StageOf(q)' = "refused"
      BY <2>1, <2>3, <2>5
    <3> QED
      BY <1>0, <3>1, StageMoves DEF Store!Next
  <2> QED
    BY <2>4, <2>5
<1>3. CASE auth'[q] # auth[q]
  <2>1. \/ /\ auth[q] = "none" /\ req[q].pc = "guard_reserve" /\ auth'[q] = "reserved"
        \/ auth[q] = "reserved" /\ auth'[q] \in {"committed", "released"}
    <3>1. GuardReserve(q) => req[q].pc = "guard_reserve" /\ auth[q] = "none"
      BY DEF GuardReserve, IInv, NotYetReserved, Early
    <3> QED
      BY <1>3, <3>1, AuthMoves DEF IInv
  <2>2. CASE auth[q] = "none"
    <3>1. StageOf(q) = "claimed" /\ StageOf(q)' = "reserved"
      BY <2>1, <2>2 DEF StageOf
    <3>2. PrintOf(q)' = PrintOf(q)
      BY <1>0, <3>1 DEF PrintOf
    <3> QED
      BY <1>0, <3>1, <3>2, StageMoves DEF Store!Next
  <2>3. CASE auth[q] = "reserved"
    <3>1. StageOf(q) = "reserved" /\ StageOf(q)' = auth'[q] /\ auth'[q] \in {"committed", "released"}
      BY <2>1, <2>3 DEF StageOf
    <3>2. PrintOf(q)' = PrintOf(q)
      BY <1>0, <3>1 DEF PrintOf
    <3> QED
      BY <1>0, <3>1, <3>2, StageMoves DEF Store!Next
  <2> QED
    BY <2>1, <2>2, <2>3
<1> QED
  BY <1>1, <1>2, <1>3

\* A claim is taken where none is live, for the payment of the call.
LEMMA ClaimStages ==
  ASSUME IInv, [Next]_vars, NEW q \in Requests, GuardClaim(q)
  PROVE  Store!Next \/ UNCHANGED Store!storeVars
<1>0. Moved(q)
  BY DEF Moved, RequestStep
<1>1. CASE UNCHANGED replay
  BY <1>0, <1>1, CallStages
<1>2. CASE /\ Fresh(GuardInput(q)) /\ replay' = [replay EXCEPT ![GuardInput(q)] = "claimed"]
           /\ Goto(q, "guard_reserve")
  <2> DEFINE stages == [p \in Requests |-> StageOf(p)]
             prints == [p \in Requests |-> PrintOf(p)]
  <2>1. req[q].pc = "guard_claim" /\ auth[q] = "none" /\ auth' = auth
    BY DEF GuardClaim, IInv, NotYetReserved, Early
  <2>2. PICK f \in Intents \X Keys : f = GuardInput(q)
    BY <2>1 DEF GuardInput, PaymentIdentifier, IInv, Started
  <2>3. req'[q].pc = "guard_reserve" /\ GuardInput(q)' = GuardInput(q)
    BY <1>2, <2>1, IdentifierKept DEF Goto, GuardInput, IInv, TypeOK, RequestState
  <2>4. StageOf(q) = "new" /\ StageOf(q)' = "claimed"
    BY <2>1, <2>3 DEF StageOf
  <2>5. PrintOf(q)' = f
    BY <2>2, <2>3, <2>4 DEF PrintOf
  <2>6. /\ stages' = [stages EXCEPT ![q] = "claimed"] /\ stages[q] = "new"
        /\ prints' = [prints EXCEPT ![q] = f]
    BY <1>0, <2>4, <2>5, OthersStay
  <2>7. f \notin LiveClaims /\ LiveClaims' = LiveClaims \cup {f}
    BY <1>2, <2>2 DEF LiveClaims, Fresh, IInv, TypeOK
  <2>8. Store!ClaimReplay(q, f)
    BY <2>6, <2>7 DEF Store!ClaimReplay, Store!Move, LiveClaims, PrintOf
  <2> QED
    BY <2>2, <2>8 DEF Store!Next
<1> QED
  BY <1>1, <1>2 DEF GuardClaim

\* A sweep resolves what a call has reserved, and nothing else.
LEMMA SweepStages ==
  ASSUME IInv, [Next]_vars, NEW s \in Sweeps, SweepStep(s) \/ CrashSweep(s)
  PROVE  Store!Next \/ UNCHANGED Store!storeVars
<1>0. /\ UNCHANGED <<req, replay>>
      /\ \/ UNCHANGED auth
         \/ \E b : \/ auth' = Released(b)
                   \/ Committable(b) /\ auth' = Committed(b)
  BY DEF SweepStep, CrashSweep, SweepStart, SweepVerify, SweepCommit, SweepRelease,
         SweepUpdate, SweepFulfil
<1>1. /\ auth \in [Requests -> {"none", "reserved", "committed", "released"}]
      /\ LiveClaims' = LiveClaims /\ \A q \in Requests : GuardInput(q)' = GuardInput(q)
  BY <1>0 DEF LiveClaims, GuardInput, PaymentIdentifier, IInv, TypeOK
<1>2. ASSUME NEW p \in Requests, auth'[p] = auth[p]
      PROVE  StageOf(p)' = StageOf(p) /\ PrintOf(p)' = PrintOf(p)
  BY <1>0, <1>1, <1>2 DEF StageOf, PrintOf
<1>3. CASE \A p \in Requests : auth'[p] = auth[p]
  <2>1. /\ [p \in Requests |-> StageOf(p)]' = [p \in Requests |-> StageOf(p)]
        /\ [p \in Requests |-> PrintOf(p)]' = [p \in Requests |-> PrintOf(p)]
    BY <1>2, <1>3
  <2> QED
    BY <1>1, <2>1 DEF Store!storeVars, LiveClaims, PrintOf
<1>4. ASSUME NEW q \in Requests, auth'[q] # auth[q]
      PROVE  Store!Next
  <2>1. /\ \A p \in Requests \ {q} : auth'[p] = auth[p]
        /\ auth[q] = "reserved" /\ auth'[q] \in {"committed", "released"}
    BY <1>0, <1>1, <1>4 DEF Released, Committable, Committed
  <2>2. StageOf(q) = "reserved" /\ StageOf(q)' = auth'[q] /\ auth'[q] \in {"committed", "released"}
    BY <2>1 DEF StageOf
  <2>3. PrintOf(q)' = PrintOf(q)
    BY <1>1, <2>2 DEF PrintOf
  <2> QED
    BY <1>1, <1>2, <2>1, <2>2, <2>3, StageMoves DEF Store!Next
<1> QED
  BY <1>3, <1>4

LEMMA StoreStep ==
  ASSUME IInv, [Next]_vars
  PROVE  [Store!Next]_Store!storeVars
<1>1. ASSUME NEW q \in Requests, Moved(q)
      PROVE  [Store!Next]_Store!storeVars
  BY <1>1, CallWrites, CallStages, ClaimStages
<1>2. ASSUME NEW s \in Sweeps, SweepStep(s) \/ CrashSweep(s)
      PROVE  [Store!Next]_Store!storeVars
  BY <1>2, SweepStages
<1>3. ASSUME NEW q \in Requests, NEW i \in Intents, NEW k \in Keys, Start(q, i, k)
      PROVE  UNCHANGED Store!storeVars
  <2>1. /\ req \in [Requests -> RequestState] /\ auth[q] = "none" /\ UNCHANGED <<auth, replay>>
        /\ req[q].pc = "idle" /\ req'[q].pc = "lookup_key"
        /\ \A p \in Requests \ {q} : req'[p] = req[p]
    BY <1>3 DEF Start, IInv, TypeOK, RequestState, NotYetReserved, Early
  <2>2. \A p \in Requests : StageOf(p)' = StageOf(p) /\ PrintOf(p)' = PrintOf(p)
    BY <2>1 DEF StageOf, PrintOf, GuardInput, PaymentIdentifier
  <2>3. LiveClaims' = LiveClaims
    BY <2>1 DEF LiveClaims
  <2> QED
    BY <2>2, <2>3, StageMoves
<1>4. ASSUME \/ \E e \in Requests : Mine(e)
             \/ \E p \in Intents \X Keys : ReplayExpires(p)
             \/ UNCHANGED vars
      PROVE  [Store!Next]_Store!storeVars
  <2>1. UNCHANGED <<req, auth>>
    BY <1>4 DEF Mine, ReplayExpires, vars
  <2>2. UNCHANGED replay \/ \E p \in Intents \X Keys : replay' = [replay EXCEPT ![p] = "expired"]
    BY <1>4 DEF Mine, ReplayExpires, vars
  <2>3. LiveClaims' \subseteq LiveClaims
    BY <2>2 DEF LiveClaims, IInv, TypeOK
  <2>4. \A p \in Requests : StageOf(p)' = StageOf(p) /\ PrintOf(p)' = PrintOf(p)
    BY <2>1 DEF StageOf, PrintOf, GuardInput, PaymentIdentifier
  <2>5. Store!Lapse
    BY <2>3, <2>4 DEF Store!Lapse, LiveClaims, PrintOf
  <2> QED
    BY <2>5 DEF Store!Next
<1> QED
  BY <1>1, <1>2, <1>3, <1>4 DEF Next, Moved

\* INV-005: concurrent calls, sweeps and faults of every kind, in whatever
\* order, with the guard on or off, drive the guard's store as its interface
\* has it: a reservation follows a claim of the call's own, taken where none
\* is live, is committed or released once and stays so.
THEOREM StoreKept == Spec => KeepsToStore
<1>1. Init => Store!Init
  <2> SUFFICES ASSUME Init PROVE Store!Init
    OBVIOUS
  <2>1. \A q \in Requests : StageOf(q) = "new"
    BY DEF Init, StageOf
  <2> QED
    BY <2>1 DEF Init, Store!Init
<1> QED
  BY <1>1, Invariance, IInvStep, StoreStep, PTL DEF Spec, KeepsToStore, Store!Spec
=============================================================================
