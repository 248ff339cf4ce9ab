------------------------------ MODULE EdgeProofs ------------------------------
(***************************************************************************)
(* Theorems about the parts around the payment calls, each for every value *)
(* of its own constants: the audit log, the financial intents, the guard   *)
(* as a library, the facts of a settlement verdict and the search for a    *)
(* transfer, the limits in front of an execution and the web session.      *)
(* The parts share no variable, so every section stands on its own; the    *)
(* last is about the parts side by side, as MCEdges has them.              *)
(***************************************************************************)
EXTENDS MCEdges, SumLemmas, TLAPS

------------------------------------------------------------------------------
(*****************************************************************************)
(* The audit log is one chain per organization, for any number of            *)
(* organizations, concurrent appends and events from before the head table,  *)
(* however appends fail.                                                     *)
(*****************************************************************************)

\* A transaction that reads or inserts holds its organization's lock.
Locked ==
    \A w \in Writers :
        /\ tx[w].pc \in {"lock", "read", "insert"} => tx[w].org \in Organizations
        /\ tx[w].pc \in {"read", "insert"} => chainLock[tx[w].org] = w

\* What it read is still the end of the chain when it inserts.
ReadHolds ==
    \A w \in Writers : tx[w].pc = "insert" => tx[w].previous = Previous(tx[w].org)

\* Only a call that is done has an event.
OwnEvent == \A e \in events : e.id \in Writers => tx[e.id].pc = "done"

AuditInv == AuditTypeOK /\ Locked /\ ReadHolds /\ OwnEvent /\ OneChain /\ HeadIsTip

LEMMA AuditStarts == AuditInit => AuditInv
<1> SUFFICES ASSUME AuditInit PROVE AuditInv
  OBVIOUS
<1> USE NoEventAssumption, LegacyAssumption, TimeAssumption
<1>1. AuditTypeOK
  BY DEF AuditInit, AuditTypeOK, Transaction
<1>2. Locked /\ ReadHolds
  BY DEF AuditInit, Locked, ReadHolds
<1>3. OwnEvent
  BY DEF AuditInit, OwnEvent
<1>4. OneChain /\ HeadIsTip
  BY DEF AuditInit, OneChain, HeadIsTip, Previous
<1> QED
  BY <1>1, <1>2, <1>3, <1>4 DEF AuditInv

\* The end of the chain is an event's id, or there is none yet.
LEMMA PreviousType ==
  ASSUME AuditTypeOK, HeadIsTip, NEW o \in Organizations
  PROVE  Previous(o) \in {e.id : e \in events} \cup {NoEvent}
BY DEF HeadIsTip, IsTip

\* Steps that leave events and heads alone leave chains and ends alone.
LEMMA ChainsKept ==
  ASSUME events' = events, heads' = heads
  PROVE  /\ OneChain => OneChain'
         /\ HeadIsTip => HeadIsTip'
         /\ \A o : Previous(o)' = Previous(o)
<1>1. \A o : Previous(o)' = Previous(o)
  BY DEF Previous
<1> QED
  BY <1>1 DEF OneChain, HeadIsTip, Links, IsTip

\* The step that matters: an append adds the successor of the chain's end.
LEMMA AppendStep ==
  ASSUME AuditInv, NEW w \in Writers, AppendEvent(w)
  PROVE  /\ AuditInv'
         /\ \A e \in events' \ events : IsTip(events, e.org, e.previous)
<1>0. PICK o \in Organizations : o = tx[w].org
  BY DEF AuditInv, Locked, AppendEvent
<1> DEFINE n == [id |-> w, org |-> o, previous |-> tx[w].previous, at |-> tx[w].at]
<1> USE NoEventAssumption DEF AuditInv
<1>1. /\ chainLock[o] = w
      /\ tx[w].previous = Previous(o)
      /\ tx[w].previous \in Ids \cup {NoEvent} /\ tx[w].at \in 0..MaxClock
  BY <1>0 DEF AppendEvent, Locked, ReadHolds, AuditTypeOK, Transaction
<1>2. events' = events \cup {n} /\ heads' = [heads EXCEPT ![o] = w]
  BY <1>0 DEF AppendEvent, HeadsAfter
<1>3. w # NoEvent /\ n \in Event
  BY <1>1 DEF Event, Ids
<1>4. \A e \in events : e.id # w /\ e.previous # w
  <2>1. \A e \in events : e.id # w
    BY DEF OwnEvent, AppendEvent
  <2>2. ASSUME NEW e \in events, e.previous = w PROVE FALSE
    <3>1. e.org \in Organizations
      BY DEF AuditTypeOK, Event
    <3> QED
      BY <2>1, <2>2, <3>1, <1>3 DEF OneChain, Links
  <2> QED
    BY <2>1, <2>2
<1>5. IsTip(events, o, n.previous)
  BY <1>1 DEF HeadIsTip
<1>6. n.previous # w
  BY <1>3, <1>4, <1>5 DEF IsTip
<1>7. OneChain'
  <2> SUFFICES ASSUME NEW p \in Organizations PROVE Links(events', p)
    BY DEF OneChain, Links
  <2>1. Links(events, p)
    BY DEF OneChain
  <2> HIDE DEF n
  <2>2. n.id = w /\ n.org = o
    BY DEF n
  <2> QED
    BY <1>2, <1>4, <1>5, <1>6, <2>1, <2>2 DEF Links, IsTip
<1>8. \A p \in Organizations \ {o} : Previous(p)' = Previous(p)
  <2> TAKE p \in Organizations \ {o}
  <2>1. {e \in events' : e.org = p} = {e \in events : e.org = p}
    BY <1>2
  <2>2. heads'[p] = heads[p]
    BY <1>2 DEF AuditTypeOK
  <2>3. Latest(events', p) = Latest(events, p)
    BY <2>1 DEF Latest
  <2> QED
    BY <2>2, <2>3 DEF Previous
<1>9. Previous(o)' = w
  <2>1. heads'[o] = w
    BY <1>1, <1>2 DEF AuditTypeOK
  <2> QED
    BY <2>1, <1>3 DEF Previous
<1>10. HeadIsTip'
  <2> SUFFICES ASSUME NEW p \in Organizations PROVE IsTip(events', p, Previous(p)')
    BY DEF HeadIsTip, IsTip
  <2>1. CASE p = o
    <3>1. n \in events' /\ n.id = w /\ n.org = o
      BY <1>2
    <3>2. \A e \in events' : e.previous # w
      BY <1>2, <1>4, <1>6
    <3> HIDE DEF n
    <3> QED
      BY <1>3, <1>9, <2>1, <3>1, <3>2 DEF IsTip
  <2>2. CASE p # o
    BY <1>2, <1>8, <2>2 DEF HeadIsTip, IsTip
  <2> QED
    BY <2>1, <2>2
<1>11. AuditTypeOK'
  BY <1>0, <1>1, <1>2, <1>3 DEF AuditTypeOK, AppendEvent, Transaction, Ids
<1>12. \A v \in Writers \ {w} : tx'[v] = tx[v] /\ (tx[v].pc \in {"read", "insert"} => tx[v].org # o)
  BY <1>0, <1>1 DEF AppendEvent, AuditTypeOK, Locked
<1>13. tx'[w].pc = "done"
  BY DEF AppendEvent, AuditTypeOK
<1>14. Locked'
  BY <1>12, <1>13 DEF Locked, AppendEvent, AuditTypeOK
<1>15. ReadHolds'
  BY <1>8, <1>12, <1>13 DEF ReadHolds, Locked
<1>16. OwnEvent'
  BY <1>2, <1>12, <1>13 DEF OwnEvent
<1> QED
  BY <1>2, <1>5, <1>7, <1>10, <1>11, <1>14, <1>15, <1>16

LEMMA AuditStep ==
  ASSUME AuditInv, [AuditNext]_auditVars
  PROVE  /\ AuditInv'
         /\ events \subseteq events'
         /\ \A e \in events' \ events : IsTip(events, e.org, e.previous)
<1> USE NoEventAssumption DEF AuditInv
<1>1. ASSUME NEW w \in Writers, AppendEvent(w)
      PROVE  /\ AuditInv'
             /\ events \subseteq events'
             /\ \A e \in events' \ events : IsTip(events, e.org, e.previous)
  BY <1>1, AppendStep DEF AppendEvent
<1>2. ASSUME events' = events, heads' = heads, AuditTypeOK', Locked', ReadHolds', OwnEvent'
      PROVE  AuditInv'
  BY <1>2, ChainsKept
<1>3. ASSUME NEW w \in Writers, NEW o \in Organizations, BeginAppend(w, o)
      PROVE  AuditInv' /\ events' = events
  <2>1. AuditTypeOK'
    BY <1>3, TimeAssumption DEF AuditTypeOK, BeginAppend, Transaction
  <2>2. Locked' /\ ReadHolds' /\ OwnEvent'
    BY <1>3, ChainsKept DEF Locked, ReadHolds, OwnEvent, BeginAppend, AuditTypeOK
  <2> QED
    BY <1>2, <1>3, <2>1, <2>2 DEF BeginAppend
<1>4. ASSUME NEW w \in Writers, LockChain(w)
      PROVE  AuditInv' /\ events' = events
  <2>1. AuditTypeOK'
    BY <1>4 DEF AuditTypeOK, LockChain, Transaction
  <2>2. Locked'
    <3>1. \A v \in Writers \ {w} : tx'[v] = tx[v]
      BY <1>4 DEF LockChain, AuditTypeOK
    <3>2. tx'[w].pc = "read" /\ tx'[w].org = tx[w].org /\ tx[w].org \in Organizations
      BY <1>4 DEF LockChain, AuditTypeOK, Transaction, Locked
    <3>3. /\ chainLock[tx[w].org] = NoEvent /\ chainLock'[tx[w].org] = w
          /\ \A p \in Organizations \ {tx[w].org} : chainLock'[p] = chainLock[p]
      BY <1>4, <3>2 DEF LockChain, ChainLockFree, AuditTypeOK
    <3> QED
      BY <3>1, <3>2, <3>3 DEF Locked, Ids
  <2>3. ReadHolds' /\ OwnEvent'
    BY <1>4, ChainsKept DEF ReadHolds, OwnEvent, LockChain, AuditTypeOK, Transaction
  <2> QED
    BY <1>2, <1>4, <2>1, <2>2, <2>3 DEF LockChain
<1>5. ASSUME NEW w \in Writers, ReadHead(w)
      PROVE  AuditInv' /\ events' = events
  <2>1. tx[w].org \in Organizations
    BY <1>5 DEF ReadHead, Locked
  <2>2. Previous(tx[w].org) \in Ids \cup {NoEvent}
    BY <2>1, PreviousType DEF AuditTypeOK, Event
  <2>3. AuditTypeOK'
    BY <1>5, <2>2 DEF AuditTypeOK, ReadHead, Transaction
  <2>4. Locked' /\ OwnEvent'
    BY <1>5 DEF Locked, OwnEvent, ReadHead, AuditTypeOK, Transaction
  <2>5. ReadHolds'
    BY <1>5, ChainsKept DEF ReadHolds, ReadHead, AuditTypeOK, Transaction
  <2> QED
    BY <1>2, <1>5, <2>3, <2>4, <2>5 DEF ReadHead
<1>6. ASSUME NEW w \in Writers, Rollback(w)
      PROVE  AuditInv' /\ events' = events
  <2>1. AuditTypeOK'
    BY <1>6 DEF AuditTypeOK, Rollback, Transaction
  <2>2. Locked'
    BY <1>6 DEF Locked, Rollback, AuditTypeOK, Transaction
  <2>3. ReadHolds' /\ OwnEvent'
    BY <1>6, ChainsKept DEF ReadHolds, OwnEvent, Rollback, AuditTypeOK, Transaction
  <2> QED
    BY <1>2, <1>6, <2>1, <2>2, <2>3 DEF Rollback
<1>7. ASSUME ClockTick \/ UNCHANGED auditVars
      PROVE  AuditInv' /\ events' = events
  <2>1. AuditTypeOK'
    BY <1>7, TimeAssumption DEF AuditTypeOK, ClockTick, auditVars
  <2>2. Locked' /\ ReadHolds' /\ OwnEvent'
    BY <1>7, ChainsKept DEF Locked, ReadHolds, OwnEvent, ClockTick, auditVars
  <2> QED
    BY <1>2, <1>7, <2>1, <2>2 DEF ClockTick, auditVars
<1> QED
  BY <1>1, <1>3, <1>4, <1>5, <1>6, <1>7 DEF AuditNext
-----------------------------------------------------------------------------
LEMMA AuditInvariant == AuditSpec => []AuditInv
<1>1. AuditInv /\ [AuditNext]_auditVars => AuditInv'
  BY AuditStep
<1> QED
  BY <1>1, AuditStarts, PTL DEF AuditSpec

\* Every organization's audit events form one chain, in every reachable state.
THEOREM NoFork == AuditSpec => []OneChain
<1>1. AuditInv => OneChain
  BY DEF AuditInv
<1> QED
  BY <1>1, AuditInvariant, PTL

\* The recorded head is always the end of the chain.
THEOREM HeadIsAlwaysTip == AuditSpec => []HeadIsTip
<1>1. AuditInv => HeadIsTip
  BY DEF AuditInv
<1> QED
  BY <1>1, AuditInvariant, PTL

\* Nothing is rewritten or lost, and every new event follows the last one.
THEOREM AppendOnly == AuditSpec => GrowsAtTip
<1>1. AuditInv /\ [AuditNext]_auditVars =>
        [/\ events \subseteq events'
         /\ \A e \in events' \ events : IsTip(events, e.org, e.previous)]_auditVars
  BY AuditStep
<1> QED
  BY <1>1, AuditInvariant, PTL DEF AuditSpec, GrowsAtTip

------------------------------------------------------------------------------
(*****************************************************************************)
(* The financial intents, for any number of calls, intents and payments,     *)
(* with the guard on or off.                                                 *)
(*****************************************************************************)

RowState == [status: IntentStatus, payment: Linked, execution: Nat, evidence: SUBSET Envelope]

\* A decision is one of the guard's, never a settlement.
RequestState ==
    [at: Stage, op: Operation, key: SUBSET Keys, payment: Linked,
     decision: {"none", "AUTHORIZED", "REFUSED"}, execution: Nat, envelope: SUBSET Envelope]

Confirmed(p) == p \in Payments /\ payment[p] = "confirmed"
TrueOf(envelopes) == \A v \in envelopes : v.settlement = "FINALIZED" => Confirmed(v.payment)

TrueRow(row) == (row.status = "SETTLED" => Confirmed(row.payment)) /\ TrueOf(row.evidence)

\* A call that syncs was made for a payment that is confirmed; an envelope on
\* its way to the row was true when it was built.
TrueRequest(r) ==
    /\ r.at \in {"find", "settle"} => Confirmed(r.payment)
    /\ r.at = "load" => r.key # {}
    /\ TrueOf(r.envelope)

RowsTrue == intent \in [Keys -> RowState] /\ \A k \in Keys : TrueRow(intent[k])
RequestsTrue == request \in [Calls -> RequestState] /\ \A c \in Calls : TrueRequest(request[c])
Counted == executions \in Nat /\ payment \in [Payments -> {"open", "confirmed"}]

FinancialInv == RowsTrue /\ RequestsTrue /\ Counted

LEMMA NoRequestIsTrue == NoRequest \in RequestState /\ TrueRequest(NoRequest)
BY DEF NoRequest, RequestState, TrueRequest, TrueOf, Stage, Operation, Linked, NoExecution

LEMMA FinancialStarts == FinancialInit => FinancialInv
<1> SUFFICES ASSUME FinancialInit PROVE FinancialInv
  OBVIOUS
<1>1. NoRow \in RowState /\ TrueRow(NoRow)
  BY DEF NoRow, RowState, TrueRow, TrueOf, IntentStatus, Linked, NoExecution
<1>2. RowsTrue
  BY <1>1 DEF FinancialInit, RowsTrue
<1>3. RequestsTrue
  BY NoRequestIsTrue DEF FinancialInit, RequestsTrue
<1>4. Counted
  BY DEF FinancialInit, Counted
<1> QED
  BY <1>2, <1>3, <1>4 DEF FinancialInv
-----------------------------------------------------------------------------
(* How a step may change a row and a call; payments stay as they are.      *)

LEMMA SameTruth ==
  ASSUME payment' = payment
  PROVE  /\ \A p : Confirmed(p)' <=> Confirmed(p)
         /\ \A row : TrueRow(row)' <=> TrueRow(row)
         /\ \A r : TrueRequest(r)' <=> TrueRequest(r)
BY DEF Confirmed, TrueRow, TrueRequest, TrueOf

LEMMA RequestMoves ==
  ASSUME RequestsTrue, payment' = payment, NEW c \in Calls, NEW r \in RequestState,
         TrueRequest(r), request' = [request EXCEPT ![c] = r]
  PROVE  RequestsTrue'
<1>1. request' \in [Calls -> RequestState]
  BY DEF RequestsTrue
<1>2. \A d \in Calls : request'[d] = IF d = c THEN r ELSE request[d]
  BY DEF RequestsTrue
<1>3. \A d \in Calls : TrueRequest(request'[d])
  BY <1>2 DEF RequestsTrue
<1>4. \A d \in Calls : TrueRequest(request[d])'
  BY <1>3 DEF TrueRequest, TrueOf, Confirmed
<1> QED
  BY <1>1, <1>4 DEF RequestsTrue

LEMMA CallTurns ==
  ASSUME RequestsTrue, payment' = payment, NEW c \in Calls,
         NEW stage \in Stage \ {"find", "settle", "load"}, Turn(c, stage)
  PROVE  RequestsTrue'
<1> DEFINE over == [NoRequest EXCEPT !.at = "done"]
           next == [request[c] EXCEPT !.at = stage]
<1>1. over \in RequestState /\ TrueRequest(over)
  BY DEF NoRequest, RequestState, TrueRequest, TrueOf, Stage, Operation, Linked, NoExecution
<1>2. next \in RequestState /\ TrueRequest(next)
  BY DEF RequestsTrue, RequestState, TrueRequest
<1>3. request' = [request EXCEPT ![c] = IF stage = "done" THEN over ELSE next]
  BY DEF Turn
<1> QED
  BY <1>1, <1>2, <1>3, RequestMoves

LEMMA RowMoves ==
  ASSUME RowsTrue, payment' = payment, NEW k, NEW row,
         k \in Keys => row \in RowState /\ TrueRow(row), intent' = [intent EXCEPT ![k] = row]
  PROVE  RowsTrue'
<1>1. intent' \in [Keys -> RowState]
  BY DEF RowsTrue
<1>2. \A j \in Keys : intent'[j] = IF j = k THEN row ELSE intent[j]
  BY DEF RowsTrue
<1>3. \A j \in Keys : TrueRow(intent'[j])
  BY <1>2 DEF RowsTrue
<1>4. \A j \in Keys : TrueRow(intent[j])'
  BY <1>3 DEF TrueRow, TrueOf, Confirmed
<1> QED
  BY <1>1, <1>4 DEF RowsTrue

LEMMA RowsStay ==
  ASSUME RowsTrue, intent' = intent, payment' = payment
  PROVE  RowsTrue'
BY DEF RowsTrue, TrueRow, TrueOf, Confirmed

LEMMA CallsStay ==
  ASSUME RequestsTrue, request' = request, payment' = payment
  PROVE  RequestsTrue'
BY DEF RequestsTrue, TrueRequest, TrueOf, Confirmed
-----------------------------------------------------------------------------
(* The actions. *)

LEMMA CallsBegin ==
  ASSUME FinancialInv, NEW c \in Calls, NEW op \in Operation, NEW stage \in Stage,
         NEW keys \in SUBSET Keys, NEW p \in Linked, NEW e \in Nat,
         stage \in {"find", "settle"} => Confirmed(p), stage = "load" => keys # {},
         Accept(c, op, stage, keys, p, e)
  PROVE  FinancialInv'
<1> USE DEF FinancialInv
<1> DEFINE r == [NoRequest EXCEPT !.at = stage, !.op = op, !.key = keys, !.payment = p, !.execution = e]
<1>1. r \in RequestState /\ TrueRequest(r)
  BY DEF NoRequest, RequestState, TrueRequest, TrueOf
<1>2. request' = [request EXCEPT ![c] = r] /\ UNCHANGED <<intent, payment, executions>>
  BY DEF Accept
<1> QED
  BY <1>1, <1>2, RequestMoves, RowsStay DEF Counted

LEMMA CallBegins ==
  ASSUME FinancialInv, NEW c \in Calls,
         \/ \E k \in Keys : CallCreate(c, k) \/ CallAuthorize(c, k) \/ CallEvidence(c, k) \/ CallVerify(c, k)
         \/ \E k \in Keys, p \in Payments : CallBridge(c, k, p)
         \/ \E k \in Keys, p \in Linked : CallExecute(c, k, p)
         \/ \E p \in Payments : CallSync(c, p)
  PROVE  FinancialInv'
<1>0. /\ NoPayment \in Linked /\ Payments \subseteq Linked /\ NoExecution \in Nat
      /\ {"lookup", "guard", "load", "find", "serve", "done"} \subseteq Stage
      /\ \A k \in Keys : intent[k].execution \in Nat
  BY DEF Linked, NoExecution, Stage, FinancialInv, RowsTrue, RowState
<1>1. ASSUME NEW k \in Keys, CallCreate(c, k) PROVE FinancialInv'
  BY <1>0, <1>1, CallsBegin DEF CallCreate, Operation
<1>2. ASSUME NEW k \in Keys, CallAuthorize(c, k) PROVE FinancialInv'
  BY <1>0, <1>2, CallsBegin DEF CallAuthorize, Operation
<1>3. ASSUME NEW k \in Keys, CallEvidence(c, k) PROVE FinancialInv'
  BY <1>0, <1>3, CallsBegin DEF CallEvidence, Operation
<1>4. ASSUME NEW k \in Keys, CallVerify(c, k) PROVE FinancialInv'
  <2>1. CASE StoredExecutionByIntent(k).execution = NoExecution
    <3>1. Turn(c, "done") /\ UNCHANGED <<intent, payment, executions>>
      BY <1>4, <2>1 DEF CallVerify
    <3>2. RequestsTrue'
      BY <1>0, <3>1, CallTurns DEF FinancialInv
    <3> QED
      BY <3>1, <3>2, RowsStay DEF FinancialInv, Counted
  <2>2. CASE StoredExecutionByIntent(k).execution # NoExecution
    <3>1. Accept(c, "evidence", "serve", {}, NoPayment, intent[k].execution)
      BY <1>4, <2>2 DEF CallVerify, StoredExecutionByIntent
    <3> QED
      BY <1>0, <3>1, CallsBegin DEF Operation
  <2> QED
    BY <2>1, <2>2
<1>5. ASSUME NEW k \in Keys, NEW p \in Payments, CallBridge(c, k, p) PROVE FinancialInv'
  BY <1>0, <1>5, CallsBegin DEF CallBridge, Operation
<1>6. ASSUME NEW k \in Keys, NEW p \in Linked, CallExecute(c, k, p) PROVE FinancialInv'
  BY <1>0, <1>6, CallsBegin DEF CallExecute, Operation
<1>7. ASSUME NEW p \in Payments, CallSync(c, p) PROVE FinancialInv'
  <2>1. Confirmed(p) /\ Accept(c, "sync", "find", {}, p, NoExecution)
    BY <1>7 DEF CallSync, Confirmed
  <2> QED
    BY <1>0, <2>1, CallsBegin DEF Operation
<1> QED
  BY <1>1, <1>2, <1>3, <1>4, <1>5, <1>6, <1>7

\* Steps that read, insert or ask the guard, and move only the call.
LEMMA CallTakesItsTurn ==
  ASSUME FinancialInv, NEW c \in Calls,
         \/ Lookup(c) \/ Insert(c) \/ GuardRefuses(c) \/ GuardClaims(c) \/ GuardAbsent(c)
         \/ ServeEvidence(c) \/ Abort(c)
  PROVE  FinancialInv'
<1> USE DEF FinancialInv
<1>0. {"insert", "guard", "snapshot", "done"} \subseteq Stage \ {"find", "settle", "load"}
  BY DEF Stage
<1>1. ASSUME NEW d \in {"AUTHORIZED", "REFUSED"}, Decided(c, d), UNCHANGED <<intent, payment, executions>>
      PROVE  FinancialInv'
  <2> DEFINE r == [request[c] EXCEPT !.at = "decide", !.decision = d]
  <2>1. r \in RequestState /\ TrueRequest(r)
    BY DEF RequestsTrue, RequestState, TrueRequest, Stage
  <2>2. request' = [request EXCEPT ![c] = r]
    BY <1>1 DEF Decided
  <2> QED
    BY <1>1, <2>1, <2>2, RequestMoves, RowsStay DEF Counted
<1>2. ASSUME NEW stage \in Stage \ {"find", "settle", "load"}, Turn(c, stage),
             UNCHANGED <<intent, payment, executions>>
      PROVE  FinancialInv'
  BY <1>2, CallTurns, RowsStay DEF Counted
<1>3. CASE Lookup(c)
  <2>1. (\E stage \in {"insert", "guard", "done"} : Turn(c, stage)) /\ UNCHANGED <<intent, payment, executions>>
    BY <1>3 DEF Lookup
  <2> QED
    BY <1>0, <1>2, <2>1
<1>4. CASE Insert(c)
  <2>1. (\E stage \in {"guard", "done"} : Turn(c, stage)) /\ UNCHANGED <<payment, executions>>
    BY <1>4 DEF Insert
  <2>2. RequestsTrue'
    BY <1>0, <2>1, CallTurns
  <2>3. CASE intent' = intent
    BY <2>1, <2>2, <2>3, RowsStay DEF Counted
  <2>4. CASE intent' = [intent EXCEPT ![RowKey(c)] = CreatedRow]
    <3>1. CreatedRow \in RowState /\ TrueRow(CreatedRow)
      BY DEF CreatedRow, NoRow, RowState, TrueRow, TrueOf, IntentStatus, Linked, NoExecution
    <3> QED
      BY <2>1, <2>2, <2>4, <3>1, RowMoves DEF Counted
  <2> QED
    BY <1>4, <2>3, <2>4 DEF Insert
<1>5. CASE GuardRefuses(c)
  BY <1>1, <1>5 DEF GuardRefuses
<1>6. CASE GuardClaims(c)
  <2>1. CASE RowKey(c) \in claimed
    BY <1>0, <1>2, <1>6, <2>1 DEF GuardClaims
  <2>2. CASE RowKey(c) \notin claimed
    BY <1>1, <1>6, <2>2 DEF GuardClaims
  <2> QED
    BY <2>1, <2>2
<1>7. CASE GuardAbsent(c)
  BY <1>1, <1>7 DEF GuardAbsent
<1>8. CASE ServeEvidence(c)
  <2>1. (\E stage \in {"snapshot", "done"} : Turn(c, stage)) /\ UNCHANGED <<intent, payment, executions>>
    BY <1>8 DEF ServeEvidence
  <2> QED
    BY <1>0, <1>2, <2>1
<1>9. CASE Abort(c)
  BY <1>0, <1>2, <1>9 DEF Abort
<1> QED
  BY <1>3, <1>4, <1>5, <1>6, <1>7, <1>8, <1>9

LEMMA DecideKeeps ==
  ASSUME FinancialInv, NEW c \in Calls, Decide(c)
  PROVE  FinancialInv'
<1> USE DEF FinancialInv
<1> DEFINE k == RowKey(c)
           row == [intent[k] EXCEPT !.status = request[c].decision]
<1>1. request[c].decision \in {"none", "AUTHORIZED", "REFUSED"}
  BY DEF RequestsTrue, RequestState
<1>2. k \in Keys => row \in RowState /\ TrueRow(row)
  BY <1>1 DEF RowsTrue, RowState, IntentStatus, TrueRow
<1>3. intent' = [intent EXCEPT ![k] = row] /\ payment' = payment /\ executions' = executions
  BY DEF Decide
<1>4. RowsTrue'
  BY <1>2, <1>3, RowMoves
<1>5. RequestsTrue'
  BY CallTurns DEF Decide, Stage
<1> QED
  BY <1>3, <1>4, <1>5 DEF Counted

LEMMA LoadKeeps ==
  ASSUME FinancialInv, NEW c \in Calls, Load(c)
  PROVE  FinancialInv'
<1> USE DEF FinancialInv
<1> DEFINE row == StoredExecutionByIntent(RowKey(c))
           p == IF request[c].payment # NoPayment THEN request[c].payment ELSE row.payment
           r == [request[c] EXCEPT !.at = "link", !.payment = p]
<1>1. UNCHANGED <<intent, payment, executions>>
  BY DEF Load
<1>2. CASE Turn(c, "done")
  <2>1. RequestsTrue'
    BY <1>1, <1>2, CallTurns DEF Stage
  <2> QED
    BY <1>1, <2>1, RowsStay DEF Counted
<1>3. CASE ~Turn(c, "done")
  <2>1. request' = [request EXCEPT ![c] = r]
    BY <1>3 DEF Load
  <2>2. CASE p \in Linked
    <3>1. r \in RequestState /\ TrueRequest(r)
      BY <2>2 DEF RequestsTrue, RequestState, TrueRequest, Stage
    <3> QED
      BY <1>1, <2>1, <3>1, RequestMoves, RowsStay DEF Counted
  <2>3. CASE p \notin Linked
    <3>1. request[c].key \in SUBSET Keys /\ request[c].key # {} /\ request[c].payment \in Linked
      BY DEF Load, Stands, RequestsTrue, RequestState, TrueRequest
    <3>2. RowKey(c) \in Keys
      BY <3>1 DEF RowKey
    <3> QED
      BY <2>3, <3>1, <3>2 DEF RowsTrue, RowState, StoredExecutionByIntent
  <2> QED
    BY <2>2, <2>3
<1> QED
  BY <1>2, <1>3

\* A link takes the mirror out of SETTLED.
LEMMA LinkKeeps ==
  ASSUME FinancialInv, NEW c \in Calls, Link(c)
  PROVE  FinancialInv'
<1> USE DEF FinancialInv
<1> DEFINE k == RowKey(c)
           status == IF request[c].op = "bridge" THEN "AUTHORIZED" ELSE "EXECUTING"
           row == [intent[k] EXCEPT !.payment = request[c].payment, !.execution = executions + 1,
                                    !.status = status]
<1>1. request[c].payment \in Linked /\ executions + 1 \in Nat
  BY DEF RequestsTrue, RequestState, Counted
<1>2. status \in IntentStatus /\ status # "SETTLED"
  BY DEF IntentStatus
<1>3. k \in Keys => row \in RowState /\ TrueRow(row)
  <2> HIDE DEF status, k
  <2> QED
    BY <1>1, <1>2 DEF RowsTrue, RowState, TrueRow
<1>4. intent' = [intent EXCEPT ![k] = row] /\ payment' = payment /\ executions' = executions + 1
  BY DEF Link, MapLegacy
<1>5. RowsTrue'
  <2> HIDE DEF row, k
  <2> QED
    BY <1>3, <1>4, RowMoves
<1>6. RequestsTrue'
  BY CallTurns DEF Link, Stage
<1> QED
  BY <1>1, <1>4, <1>5, <1>6 DEF Counted

\* The payment a sync is for stays confirmed, whichever mirror it finds.
LEMMA FindKeeps ==
  ASSUME FinancialInv, NEW c \in Calls, FindMirror(c)
  PROVE  FinancialInv'
<1> USE DEF FinancialInv
<1>1. UNCHANGED <<intent, payment, executions>> /\ request[c].at = "find"
  BY DEF FindMirror, Stands
<1>2. CASE RowsOf(request[c].payment) = {}
  <2>1. RequestsTrue'
    BY <1>1, <1>2, CallTurns DEF FindMirror, Stage
  <2> QED
    BY <1>1, <2>1, RowsStay DEF Counted
<1>3. CASE RowsOf(request[c].payment) # {}
  <2>1. PICK k \in RowsOf(request[c].payment) :
            request' = [request EXCEPT ![c].at = "settle", ![c].key = {k}, ![c].execution = intent[k].execution]
    BY <1>3 DEF FindMirror
  <2> DEFINE r == [request[c] EXCEPT !.at = "settle", !.key = {k}, !.execution = intent[k].execution]
  <2>2. k \in Keys /\ intent[k].execution \in Nat
    BY DEF RowsOf, RowsTrue, RowState
  <2>3. r \in RequestState /\ TrueRequest(r)
    BY <1>1, <2>2 DEF RequestsTrue, RequestState, TrueRequest, Stage
  <2>4. request' = [request EXCEPT ![c] = r]
    BY <2>1
  <2> QED
    BY <1>1, <2>3, <2>4, RequestMoves, RowsStay DEF Counted
<1> QED
  BY <1>2, <1>3

\* Whatever is linked to the payment by now is settled with it.
LEMMA SettleKeeps ==
  ASSUME FinancialInv, NEW c \in Calls, SettleMirror(c)
  PROVE  FinancialInv'
<1> USE DEF FinancialInv
<1>1. payment' = payment /\ executions' = executions /\ Confirmed(request[c].payment)
  BY DEF SettleMirror, Stands, RequestsTrue, TrueRequest
<1>2. \A k \in Keys : intent'[k] = IF intent[k].payment = request[c].payment
                                 THEN [intent[k] EXCEPT !.status = "SETTLED"] ELSE intent[k]
  BY DEF SettleMirror, Mirrors, RowsOf, MapLegacy
<1>3. \A k \in Keys : intent'[k] \in RowState /\ TrueRow(intent'[k])
  <2> SUFFICES ASSUME NEW k \in Keys PROVE intent'[k] \in RowState /\ TrueRow(intent'[k])
    OBVIOUS
  <2>1. intent[k] \in RowState /\ TrueRow(intent[k])
    BY DEF RowsTrue
  <2>2. CASE intent[k].payment = request[c].payment
    BY <1>1, <1>2, <2>1, <2>2 DEF RowState, TrueRow, IntentStatus
  <2>3. CASE intent[k].payment # request[c].payment
    BY <1>2, <2>1, <2>3
  <2> QED
    BY <2>2, <2>3
<1>4. intent' = [k \in Keys |-> intent'[k]]
  BY DEF SettleMirror
<1>5. \A k \in Keys : TrueRow(intent[k])'
  BY <1>1, <1>3 DEF TrueRow, TrueOf, Confirmed
<1>6. RowsTrue'
  BY <1>3, <1>4, <1>5 DEF RowsTrue
<1>7. RequestsTrue'
  BY CallTurns DEF SettleMirror, Stage
<1> QED
  BY <1>1, <1>6, <1>7 DEF Counted

\* An envelope says FINALIZED of a row that is settled, and so for its payment.
LEMMA SnapshotKeeps ==
  ASSUME FinancialInv, NEW c \in Calls, Snapshot(c)
  PROVE  FinancialInv'
<1> USE DEF FinancialInv
<1> DEFINE rows == RowsAt(request[c].execution)
<1>1. UNCHANGED <<intent, payment, executions>>
  BY DEF Snapshot
<1>2. CASE rows = {}
  <2>1. RequestsTrue'
    BY <1>1, <1>2, CallTurns DEF Snapshot, Stage
  <2> QED
    BY <1>1, <2>1, RowsStay DEF Counted
<1>3. CASE rows # {}
  <2> DEFINE built == {EnvelopeOf(intent[k]) : k \in rows}
             r == [request[c] EXCEPT !.at = "store", !.key = rows, !.envelope = built]
  <2>1. request' = [request EXCEPT ![c] = r]
    BY <1>3 DEF Snapshot
  <2>2. rows \subseteq Keys
    BY DEF RowsAt
  <2>3. \A k \in Keys : EnvelopeOf(intent[k]) \in Envelope /\ TrueOf({EnvelopeOf(intent[k])})
    BY DEF EnvelopeOf, Envelope, RowsTrue, RowState, TrueRow, TrueOf
  <2>4. built \in SUBSET Envelope /\ TrueOf(built)
    BY <2>2, <2>3 DEF TrueOf
  <2>5. r \in RequestState /\ TrueRequest(r)
    <3> HIDE DEF rows, built
    <3> QED
      BY <2>2, <2>4 DEF RequestsTrue, RequestState, TrueRequest, Stage
  <2> QED
    BY <1>1, <2>1, <2>5, RequestMoves, RowsStay DEF Counted
<1> QED
  BY <1>2, <1>3

LEMMA StoreKeeps ==
  ASSUME FinancialInv, NEW c \in Calls, StoreEvidence(c)
  PROVE  FinancialInv'
<1> USE DEF FinancialInv
<1> DEFINE k == RowKey(c)
           row == [intent[k] EXCEPT !.evidence = request[c].envelope]
<1>1. request[c].envelope \in SUBSET Envelope /\ TrueOf(request[c].envelope)
  BY DEF RequestsTrue, RequestState, TrueRequest
<1>2. k \in Keys => row \in RowState /\ TrueRow(row)
  <2> HIDE DEF k
  <2> QED
    BY <1>1 DEF RowsTrue, RowState, TrueRow
<1>3. intent' = [intent EXCEPT ![k] = row] /\ payment' = payment /\ executions' = executions
  BY DEF StoreEvidence, EnvelopeBuilt
<1>4. RowsTrue'
  BY <1>2, <1>3, RowMoves
<1>5. RequestsTrue'
  BY CallTurns DEF StoreEvidence, Stage
<1> QED
  BY <1>3, <1>4, <1>5 DEF Counted

\* A payment that is confirmed stays confirmed.
LEMMA PaymentSettles ==
  ASSUME FinancialInv, NEW p \in Payments, SettlePayment(p)
  PROVE  FinancialInv'
<1> USE DEF FinancialInv
<1>1. UNCHANGED <<intent, request, executions>> /\ payment' \in [Payments -> {"open", "confirmed"}]
  BY DEF SettlePayment, Counted
<1>2. \A q : Confirmed(q) => Confirmed(q)'
  BY DEF SettlePayment, Counted, Confirmed
<1>3. RowsTrue' /\ RequestsTrue'
  BY <1>1, <1>2 DEF RowsTrue, RequestsTrue, TrueRow, TrueRequest, TrueOf
<1> QED
  BY <1>1, <1>3 DEF Counted

LEMMA FinancialStep == FinancialInv /\ [FinancialNext]_financialVars => FinancialInv'
<1> SUFFICES ASSUME FinancialInv, [FinancialNext]_financialVars PROVE FinancialInv'
  OBVIOUS
<1>1. CASE UNCHANGED <<intent, payment, executions, request>>
  BY <1>1, RowsStay, CallsStay DEF FinancialInv, Counted
<1>2. CASE \E p \in Payments : SettlePayment(p)
  BY <1>2, PaymentSettles
<1>3. CASE \E k \in Keys : ClaimExpires(k)
  BY <1>1, <1>3 DEF ClaimExpires
<1>4. ASSUME NEW c \in Calls,
             \/ Lookup(c) \/ Insert(c) \/ GuardRefuses(c) \/ GuardClaims(c) \/ GuardAbsent(c) \/ Decide(c)
             \/ Load(c) \/ Link(c) \/ FindMirror(c) \/ SettleMirror(c)
             \/ ServeEvidence(c) \/ Snapshot(c) \/ StoreEvidence(c) \/ Abort(c)
      PROVE  FinancialInv'
  BY <1>4, CallTakesItsTurn, DecideKeeps, LoadKeeps, LinkKeeps, FindKeeps, SettleKeeps, SnapshotKeeps,
     StoreKeeps
<1>5. ASSUME NEW c \in Calls,
             \/ \E k \in Keys : CallCreate(c, k) \/ CallAuthorize(c, k) \/ CallEvidence(c, k) \/ CallVerify(c, k)
             \/ \E k \in Keys, p \in Payments : CallBridge(c, k, p)
             \/ \E k \in Keys, p \in Linked : CallExecute(c, k, p)
             \/ \E p \in Payments : CallSync(c, p)
      PROVE  FinancialInv'
  BY <1>5, CallBegins
<1> QED
  BY <1>1, <1>2, <1>3, <1>4, <1>5 DEF FinancialNext, financialVars
-----------------------------------------------------------------------------
\* A financial intent that says SETTLED is linked to a confirmed payment,
\* however many calls link, sync and execute it at once (v5Bridge.ts:83).
THEOREM MirrorIsTrue == FinancialSpec => []SettledMirrorIsTrue
<1>1. FinancialInv => SettledMirrorIsTrue
  BY DEF FinancialInv, RowsTrue, TrueRow, Confirmed, SettledMirrorIsTrue
<1> QED
  BY FinancialStarts, FinancialStep, <1>1, PTL DEF FinancialSpec

\* A charge is explained as verified only for a confirmed payment, whenever
\* the evidence was built and whoever stored it (v5Store.ts:212).
THEOREM EvidenceIsTrue == FinancialSpec => []FinalEvidenceIsTrue
<1>1. FinancialInv => FinalEvidenceIsTrue
  <2> SUFFICES ASSUME FinancialInv, NEW k \in Keys, NEW v \in BuildExplainCharge(intent[k]),
                      ExplainCharge(v) = "VERIFIED"
               PROVE  v.payment \in Payments /\ payment[v.payment] = "confirmed"
    BY DEF FinalEvidenceIsTrue
  <2>1. intent[k].evidence \subseteq Envelope /\ TrueOf(intent[k].evidence)
    BY DEF FinancialInv, RowsTrue, RowState, TrueRow
  <2>2. v.settlement \in {"UNOBSERVED", "FINALIZED"}
    BY <2>1 DEF BuildExplainCharge, Envelope
  <2>3. v.settlement = "FINALIZED"
    BY <2>2 DEF ExplainCharge
  <2>4. v \in intent[k].evidence
    BY <2>3 DEF BuildExplainCharge
  <2> QED
    BY <2>1, <2>3, <2>4 DEF TrueOf, Confirmed
<1> QED
  BY FinancialStarts, FinancialStep, <1>1, PTL DEF FinancialSpec

------------------------------------------------------------------------------
(*****************************************************************************)
(* The facts of a verdict, for any number of verifications, every depth      *)
(* asked for, and nodes that lag and fail as often as they like.             *)
(*****************************************************************************)

\* A transaction that failed left no logs.
ChainTransaction == {x \in [at: Nat, ok: BOOLEAN, logs: SUBSET Log] : x.ok \/ x.logs = {}}

ReaderState ==
    [at: {"idle", "receipt", "head", "done"}, waits: BOOLEAN, need: Depths \cup {1},
     expects: Expectation, urls: 0..2, receipt: ChainTransaction, verdict: Verdict, stale: BOOLEAN]

ReadersTyped ==
    /\ head \in Nat /\ branches \in Nat
    /\ mined \in ChainTransaction /\ mined.at <= head
    /\ reader \in [Readers -> ReaderState]

\* The receipt of a verification that goes on is the transaction's as it is,
\* or a reorganization has replaced its block.
ReceiptCurrent ==
    \A r \in Readers : reader[r].at = "head" /\ ~reader[r].stale =>
        mined.at # 0 /\ reader[r].receipt = mined

FactsInv == ReadersTyped /\ ReceiptCurrent

LEMMA Transactions == Unmined \in ChainTransaction /\ \A b \in Nat : Included(b) \subseteq ChainTransaction
<1>1. Unmined \in ChainTransaction
  BY DEF Unmined, ChainTransaction
<1>2. ASSUME NEW b \in Nat, NEW x \in Included(b) PROVE x \in ChainTransaction
  <2>1. \/ x = [at |-> b, ok |-> FALSE, logs |-> {}]
        \/ \E L \in SUBSET Log : x = [at |-> b, ok |-> TRUE, logs |-> L]
    BY DEF Included
  <2>2. CASE x = [at |-> b, ok |-> FALSE, logs |-> {}]
    BY <2>2 DEF ChainTransaction
  <2>3. CASE \E L \in SUBSET Log : x = [at |-> b, ok |-> TRUE, logs |-> L]
    BY <2>3 DEF ChainTransaction
  <2> QED
    BY <2>1, <2>2, <2>3
<1> QED
  BY <1>1, <1>2

LEMMA FactsStart == FactsInit => FactsInv
<1> SUFFICES ASSUME FactsInit PROVE FactsInv
  OBVIOUS
<1>1. NoReader \in ReaderState
  BY Transactions DEF NoReader, ReaderState, Expectation, Verdict
<1>2. mined.at = 0 /\ head = 0
  BY DEF FactsInit, Unmined
<1>3. ReadersTyped
  BY <1>1, <1>2, Transactions DEF FactsInit, ReadersTyped
<1>4. \A r \in Readers : reader[r].at = "idle"
  BY DEF FactsInit, NoReader
<1> QED
  BY <1>3, <1>4 DEF FactsInv, ReceiptCurrent
-----------------------------------------------------------------------------
(* The chain. *)

LEMMA MineKeeps ==
  ASSUME FactsInv, Mine
  PROVE  FactsInv'
<1> USE DEF FactsInv
<1>1. head + 1 \in Nat /\ head' = head + 1 /\ reader' = reader /\ branches' = branches
  BY DEF ReadersTyped, Mine
<1>2. mined' = mined \/ (mined.at = 0 /\ mined' \in Included(head + 1))
  BY DEF Mine
<1>3. \A x \in Included(head + 1) : x.at = head + 1
  BY DEF Included
<1>4. mined' \in ChainTransaction /\ mined'.at <= head'
  BY <1>1, <1>2, <1>3, Transactions DEF ReadersTyped, ChainTransaction
<1>5. ReadersTyped'
  BY <1>1, <1>4 DEF ReadersTyped
<1>6. ReceiptCurrent'
  BY <1>1, <1>2 DEF ReceiptCurrent
<1> QED
  BY <1>5, <1>6

LEMMA ReorganizeKeeps ==
  ASSUME FactsInv, NEW b \in 1..MaxHead, Reorganize(b)
  PROVE  FactsInv'
<1> USE DEF FactsInv
<1>1. head' = head /\ b \in Nat /\ b <= head /\ branches' \in Nat
  BY DEF ReadersTyped, Reorganize
<1>2. IF mined.at < b THEN mined' = mined ELSE mined' = Unmined \/ \E k \in b..head : mined' \in Included(k)
  BY DEF Reorganize
<1>3. mined' \in ChainTransaction /\ mined'.at <= head'
  <2>1. CASE mined.at < b
    BY <1>1, <1>2, <2>1 DEF ReadersTyped
  <2>2. CASE ~(mined.at < b)
    <3>1. CASE mined' = Unmined
      BY <1>1, <3>1, Transactions DEF Unmined, ReadersTyped
    <3>2. CASE \E k \in b..head : mined' \in Included(k)
      <4>1. PICK k \in b..head : mined' \in Included(k)
        BY <3>2
      <4>2. k \in Nat /\ k <= head
        BY <1>1, <4>1 DEF ReadersTyped
      <4>3. mined'.at = k
        BY <4>1 DEF Included
      <4> QED
        BY <1>1, <4>1, <4>2, <4>3, Transactions
    <3> QED
      BY <1>2, <2>2, <3>1, <3>2
  <2> QED
    BY <2>1, <2>2
<1>4. \A r \in Readers :
         reader'[r] = [reader[r] EXCEPT !.stale = @ \/ reader[r].receipt.at >= b]
  BY DEF Reorganize
<1>5. \A r \in Readers : (reader[r].stale \/ reader[r].receipt.at >= b) \in BOOLEAN
  OBVIOUS
<1>6. reader' \in [Readers -> ReaderState]
  <2>0. \A x \in ReaderState : \A v \in BOOLEAN : [x EXCEPT !.stale = v] \in ReaderState
    BY DEF ReaderState
  <2>1. \A r \in Readers : reader'[r] \in ReaderState
    <3> SUFFICES ASSUME NEW r \in Readers PROVE reader'[r] \in ReaderState
      OBVIOUS
    <3>1. PICK v \in BOOLEAN : v = (reader[r].stale \/ reader[r].receipt.at >= b)
      BY <1>5, Zenon
    <3>2. reader'[r] = [reader[r] EXCEPT !.stale = v]
      BY <1>4, <3>1, Zenon
    <3> QED
      BY <2>0, <3>2 DEF ReadersTyped
  <2>2. reader' = [r \in Readers |-> reader'[r]]
    BY DEF Reorganize
  <2> QED
    BY <2>1, <2>2
<1>7. ReceiptCurrent'
  <2> SUFFICES ASSUME NEW r \in Readers, reader'[r].at = "head", ~reader'[r].stale
               PROVE  mined'.at # 0 /\ reader'[r].receipt = mined'
    BY DEF ReceiptCurrent
  <2>1. reader[r].at = "head" /\ ~reader[r].stale /\ ~(reader[r].receipt.at >= b)
        /\ reader'[r].receipt = reader[r].receipt
    <3>1. PICK v \in BOOLEAN : v = (reader[r].stale \/ reader[r].receipt.at >= b)
      BY <1>5, Zenon
    <3>2. reader'[r] = [reader[r] EXCEPT !.stale = v]
      BY <1>4, <3>1, Zenon
    <3>3. reader[r] \in ReaderState
      BY DEF ReadersTyped
    <3>4. /\ reader'[r].at = reader[r].at /\ reader'[r].receipt = reader[r].receipt
          /\ reader'[r].stale = v
      BY <3>2, <3>3 DEF ReaderState
    <3>5. ~v
      BY <3>4, Zenon
    <3> QED
      BY <3>1, <3>4, <3>5, Zenon
  <2>2. reader[r].receipt = mined /\ mined.at # 0
    BY <2>1 DEF ReceiptCurrent
  <2>3. mined.at < b
    BY <1>1, <2>1, <2>2 DEF ReadersTyped, ChainTransaction
  <2> QED
    BY <1>2, <2>1, <2>2, <2>3
<1> QED
  BY <1>1, <1>3, <1>6, <1>7 DEF ReadersTyped
-----------------------------------------------------------------------------
(* The verifications. *)

\* A step of one verification that leaves the chain alone.
LEMMA ReaderKeeps ==
  ASSUME FactsInv, NEW r \in Readers, NEW s \in ReaderState,
         reader' = [reader EXCEPT ![r] = s], UNCHANGED <<head, mined, branches>>,
         s.at = "head" /\ ~s.stale => mined.at # 0 /\ s.receipt = mined
  PROVE  FactsInv'
<1> USE DEF FactsInv
<1>1. reader' \in [Readers -> ReaderState]
  BY DEF ReadersTyped
<1>2. ReadersTyped'
  BY <1>1 DEF ReadersTyped
<1>3. \A q \in Readers : reader'[q] = IF q = r THEN s ELSE reader[q]
  BY DEF ReadersTyped
<1>4. ReceiptCurrent'
  BY <1>3 DEF ReceiptCurrent
<1> QED
  BY <1>2, <1>4

LEMMA VerifyKeeps ==
  ASSUME FactsInv, NEW r \in Readers, NEW waits \in BOOLEAN, NEW need \in Depths,
         NEW expects \in Expectation, NEW urls \in 1..2, Verify(r, waits, need, expects, urls)
  PROVE  FactsInv'
<1> DEFINE s == [at |-> "receipt", waits |-> waits, need |-> need, expects |-> expects,
                 urls |-> urls, receipt |-> Unmined, verdict |-> "none", stale |-> FALSE]
<1>1. s \in ReaderState /\ s.at = "receipt"
  <2>1. "none" \in Verdict /\ urls \in 0..2 /\ need \in Depths \cup {1}
    BY DEF Verdict
  <2> QED
    BY <2>1, Transactions DEF ReaderState
<1>2. reader' = [reader EXCEPT ![r] = s] /\ UNCHANGED <<head, mined, branches>>
  BY DEF Verify
<1> QED
  BY <1>1, <1>2, ReaderKeeps

LEMMA VerdictTyped ==
  ASSUME FactsInv, NEW r \in Readers, NEW n \in Int
  PROVE  VerdictOn(r, n) \in Verdict
BY DEF FactsInv, ReadersTyped, ReaderState, VerdictOn, Verdict, Expectation, ChainTransaction

LEMMA OtherStepKeeps ==
  ASSUME FactsInv, NEW r \in Readers,
         \/ GetEvmChainThrows(r) \/ ReadReceipt(r) \/ Fails(r)
         \/ \E seen \in 0..MaxHead : ReadLatest(r, seen)
  PROVE  FactsInv'
<1> USE DEF FactsInv
<1>0. reader[r] \in ReaderState
  BY DEF ReadersTyped
<1>1. CASE GetEvmChainThrows(r)
  <2> DEFINE s == [reader[r] EXCEPT !.at = "done", !.verdict = "threw"]
  <2>1. s \in ReaderState /\ s.at = "done"
    BY <1>0 DEF ReaderState, Verdict
  <2>2. reader' = [reader EXCEPT ![r] = s] /\ UNCHANGED <<head, mined, branches>>
    BY <1>1 DEF GetEvmChainThrows
  <2> QED
    BY <2>1, <2>2, ReaderKeeps
<1>2. CASE ReadReceipt(r)
  <2> DEFINE s == [reader[r] EXCEPT !.at = "head", !.receipt = mined]
  <2>1. s \in ReaderState /\ s.receipt = mined /\ mined.at # 0
    BY <1>0, <1>2 DEF ReaderState, ReadReceipt, ReadersTyped
  <2>2. reader' = [reader EXCEPT ![r] = s] /\ UNCHANGED <<head, mined, branches>>
    BY <1>2 DEF ReadReceipt
  <2> QED
    BY <2>1, <2>2, ReaderKeeps
<1>3. CASE Fails(r)
  <2> DEFINE again == [reader[r] EXCEPT !.at = "receipt", !.urls = @ - 1, !.receipt = Unmined, !.stale = FALSE]
             over == [reader[r] EXCEPT !.at = "done", !.verdict = "threw"]
  <2>1. over \in ReaderState /\ over.at = "done"
    BY <1>0 DEF ReaderState, Verdict
  <2>2. reader[r].urls > 1 => again \in ReaderState /\ again.at = "receipt"
    <3> SUFFICES ASSUME reader[r].urls > 1 PROVE again \in ReaderState /\ again.at = "receipt"
      OBVIOUS
    <3>1. reader[r].urls - 1 \in 0..2
      BY <1>0 DEF ReaderState
    <3>2. \A x \in ReaderState : \A n \in 0..2 : \A y \in ChainTransaction :
            /\ [x EXCEPT !.at = "receipt", !.urls = n, !.receipt = y, !.stale = FALSE] \in ReaderState
            /\ [x EXCEPT !.at = "receipt", !.urls = n, !.receipt = y, !.stale = FALSE].at = "receipt"
      BY DEF ReaderState
    <3> QED
      BY <1>0, <3>1, <3>2, Transactions
  <2>3. reader' = [reader EXCEPT ![r] = IF reader[r].urls > 1 THEN again ELSE over]
        /\ UNCHANGED <<head, mined, branches>>
    BY <1>3 DEF Fails, ReadersTyped
  <2>4. CASE reader[r].urls > 1
    <3> HIDE DEF again
    <3> QED
      BY <2>2, <2>3, <2>4, ReaderKeeps
  <2>5. CASE ~(reader[r].urls > 1)
    <3> HIDE DEF over
    <3> QED
      BY <2>1, <2>3, <2>5, ReaderKeeps
  <2> QED
    BY <2>4, <2>5
<1>4. CASE \E seen \in 0..MaxHead : ReadLatest(r, seen)
  <2>1. PICK seen \in 0..MaxHead : ReadLatest(r, seen)
    BY <1>4
  <2> DEFINE v == VerdictOn(r, Confirmations(reader[r].receipt.at, seen))
             s == [reader[r] EXCEPT !.at = "done", !.verdict = v]
  <2>2. v \in Verdict
    <3>1. Confirmations(reader[r].receipt.at, seen) \in Int
      BY <1>0 DEF Confirmations, ReaderState, ChainTransaction
    <3> QED
      BY <3>1, VerdictTyped
  <2>3. s \in ReaderState /\ s.at = "done"
    BY <1>0, <2>2 DEF ReaderState
  <2>4. reader' = [reader EXCEPT ![r] = s] /\ UNCHANGED <<head, mined, branches>>
    BY <2>1 DEF ReadLatest
  <2> QED
    BY <2>3, <2>4, ReaderKeeps
<1> QED
  BY <1>1, <1>2, <1>3, <1>4

LEMMA FactsStep == FactsInv /\ [FactsNext]_factsVars => FactsInv'
<1> SUFFICES ASSUME FactsInv, [FactsNext]_factsVars PROVE FactsInv'
  OBVIOUS
<1>1. CASE Mine
  BY <1>1, MineKeeps
<1>2. CASE \E b \in 1..MaxHead : Reorganize(b)
  BY <1>2, ReorganizeKeeps
<1>3. CASE \E r \in Readers, need \in Depths, expects \in Expectation :
              \/ VerifyLiveSettlement(r, need, expects) \/ VerifyEvmChainTx(r, need, expects)
              \/ \E urls \in 1..2 : FetchSettlementFromTx(r, need, expects, urls)
  <2>1. PICK r \in Readers, need \in Depths, expects \in Expectation :
              \/ VerifyLiveSettlement(r, need, expects) \/ VerifyEvmChainTx(r, need, expects)
              \/ \E urls \in 1..2 : FetchSettlementFromTx(r, need, expects, urls)
    BY <1>3
  <2>2. \E waits \in BOOLEAN, urls \in 1..2 : Verify(r, waits, need, expects, urls)
    <3>1. 1 \in 1..2
      OBVIOUS
    <3> QED
      BY <2>1, <3>1, Zenon DEF VerifyLiveSettlement, VerifyEvmChainTx, FetchSettlementFromTx
  <2> QED
    BY <2>2, VerifyKeeps
<1>4. CASE \E r \in Readers :
              \/ GetEvmChainThrows(r) \/ ReadReceipt(r) \/ Fails(r)
              \/ \E seen \in 0..MaxHead : ReadLatest(r, seen)
  BY <1>4, OtherStepKeeps
<1>5. CASE UNCHANGED factsVars
  BY <1>5 DEF factsVars, FactsInv, ReadersTyped, ReceiptCurrent
<1> QED
  BY <1>1, <1>2, <1>3, <1>4, <1>5 DEF FactsNext
-----------------------------------------------------------------------------
\* Only two steps end a verification that has its receipt: the failure of the
\* last URL, and the reading of the seen block.
LEMMA Pronounced ==
  ASSUME FactsInv, [FactsNext]_factsVars, NEW r \in Readers,
         reader[r].at = "head", reader'[r].at = "done"
  PROVE  \/ reader'[r].verdict = "threw" /\ reader'[r].expects = reader[r].expects
         \/ \E seen \in {head - 1, head} : reader'[r].verdict =
               VerdictOn(r, Confirmations(reader[r].receipt.at, seen))
<1>0. reader \in [Readers -> ReaderState]
  BY DEF FactsInv, ReadersTyped
<1>1. CASE Mine
  BY <1>1 DEF Mine
<1>2. ASSUME NEW b \in 1..MaxHead, Reorganize(b) PROVE FALSE
  BY <1>0, <1>2 DEF Reorganize, ReaderState
<1>3. ASSUME NEW q \in Readers, NEW waits, NEW need, NEW expects, NEW urls,
             Verify(q, waits, need, expects, urls)
      PROVE  FALSE
  <2>1. CASE q = r
    BY <1>3, <2>1 DEF Verify
  <2>2. CASE q # r
    BY <1>0, <1>3, <2>2 DEF Verify
  <2> QED
    BY <2>1, <2>2
<1>4. ASSUME NEW q \in Readers, GetEvmChainThrows(q) \/ ReadReceipt(q) PROVE FALSE
  <2>1. CASE q = r
    BY <1>0, <1>4, <2>1 DEF GetEvmChainThrows, ReadReceipt
  <2>2. CASE q # r
    BY <1>0, <1>4, <2>2 DEF GetEvmChainThrows, ReadReceipt
  <2> QED
    BY <2>1, <2>2
<1>5. ASSUME NEW q \in Readers, Fails(q)
      PROVE  reader'[r].verdict = "threw" /\ reader'[r].expects = reader[r].expects
  <2>1. q = r
    BY <1>0, <1>5 DEF Fails
  <2>2. reader[r].urls > 1 => reader'[r].at = "receipt"
    BY <1>0, <1>5, <2>1 DEF Fails, ReaderState
  <2> QED
    BY <1>0, <1>5, <2>1, <2>2 DEF Fails, ReaderState
<1>6. ASSUME NEW q \in Readers, NEW seen \in 0..MaxHead, ReadLatest(q, seen)
      PROVE  seen \in {head - 1, head} /\ reader'[r].verdict =
               VerdictOn(r, Confirmations(reader[r].receipt.at, seen))
  <2>1. q = r
    BY <1>0, <1>6 DEF ReadLatest
  <2> QED
    BY <1>0, <1>6, <2>1 DEF ReadLatest, ReaderState
<1>7. CASE UNCHANGED factsVars
  BY <1>7 DEF factsVars
<1> QED
  BY <1>1, <1>2, <1>3, <1>4, <1>5, <1>6, <1>7
     DEF FactsNext, VerifyLiveSettlement, VerifyEvmChainTx, FetchSettlementFromTx

\* What a verdict says is so when it is pronounced, unless a reorganization
\* came between its two readings (INV-002).
THEOREM VerdictsTrue == FactsSpec => VerdictsAreTrue
<1>1. FactsInv /\ [FactsNext]_factsVars =>
        [\A r \in Readers :
           reader[r].at = "head" /\ reader'[r].at = "done" /\ ~reader[r].stale =>
              /\ reader'[r].verdict = "CONFIRMED" =>
                   /\ mined.at # 0 /\ mined.ok
                   /\ reader[r].expects # "none" =>
                        "expected" \in mined.logs /\ head - mined.at + 1 >= reader[r].need
              /\ reader[r].expects = "this_chain" /\ Observation(r)' = "MISMATCH" =>
                   mined.at # 0 /\ "expected" \notin mined.logs]_factsVars
  <2> SUFFICES ASSUME FactsInv, [FactsNext]_factsVars, NEW r \in Readers,
                      reader[r].at = "head", reader'[r].at = "done", ~reader[r].stale
               PROVE  /\ reader'[r].verdict = "CONFIRMED" =>
                           /\ mined.at # 0 /\ mined.ok
                           /\ reader[r].expects # "none" =>
                                "expected" \in mined.logs /\ head - mined.at + 1 >= reader[r].need
                      /\ reader[r].expects = "this_chain" /\ Observation(r)' = "MISMATCH" =>
                           mined.at # 0 /\ "expected" \notin mined.logs
    OBVIOUS
  <2>1. reader[r] \in ReaderState /\ mined \in ChainTransaction /\ head \in Nat
        /\ mined.at # 0 /\ reader[r].receipt = mined
    BY DEF FactsInv, ReadersTyped, ReceiptCurrent
  <2>2. reader[r].need \in Nat
    <3>1. reader[r].need \in Depths \cup {1}
      BY <2>1 DEF ReaderState
    <3>2. \A d \in Depths \cup {1} : d \in Nat
      <4>1. Depths \subseteq Nat
        BY FactsAssumption, Zenon
      <4>2. 1 \in Nat
        OBVIOUS
      <4> QED
        BY <4>1, <4>2, Zenon
    <3> QED
      BY <3>1, <3>2, Zenon
  <2>3. CASE reader'[r].verdict = "threw"
    BY <2>3 DEF Observation
  <2>4. CASE \E seen \in {head - 1, head} : reader'[r].verdict =
               VerdictOn(r, Confirmations(mined.at, seen))
    <3>1. PICK seen \in {head - 1, head} : reader'[r].verdict =
               VerdictOn(r, Confirmations(mined.at, seen))
      BY <2>4
    <3> DEFINE n == Confirmations(mined.at, seen)
    <3>2. n \in Int /\ n <= head - mined.at + 1
      BY <2>1 DEF Confirmations, ChainTransaction
    <3> HIDE DEF n
    <3>3. CASE ~mined.ok
      <4>1. reader'[r].verdict = "REVERTED" /\ mined.logs = {}
        BY <2>1, <3>1, <3>3 DEF n, VerdictOn, ChainTransaction
      <4> QED
        BY <2>1, <4>1
    <3>4. CASE mined.ok /\ reader[r].expects = "none"
      BY <2>1, <3>4
    <3>5. CASE mined.ok /\ reader[r].expects = "other_chain"
      <4>1. reader'[r].verdict = "RECONCILIATION_REQUIRED"
        BY <2>1, <3>1, <3>5 DEF n, VerdictOn
      <4> QED
        BY <3>5, <4>1
    <3>6. CASE mined.ok /\ reader[r].expects = "this_chain"
      <4>1. reader'[r].verdict = IF n < reader[r].need THEN "PENDING"
               ELSE IF "expected" \in mined.logs THEN "CONFIRMED" ELSE "RECONCILIATION_REQUIRED"
        BY <2>1, <3>1, <3>6 DEF n, VerdictOn, ParseErc20TransferLogs
      <4>2. CASE n < reader[r].need
        BY <4>1, <4>2 DEF Observation
      <4>3. CASE ~(n < reader[r].need) /\ "expected" \in mined.logs
        <5>1. head - mined.at + 1 >= reader[r].need
          BY <2>1, <2>2, <3>2, <4>3 DEF ChainTransaction
        <5> QED
          BY <2>1, <3>6, <4>1, <4>3, <5>1 DEF Observation
      <4>4. CASE ~(n < reader[r].need) /\ "expected" \notin mined.logs
        BY <2>1, <4>1, <4>4
      <4> QED
        BY <4>2, <4>3, <4>4
    <3> QED
      BY <2>1, <3>3, <3>4, <3>5, <3>6 DEF ReaderState, Expectation
  <2> QED
    BY <2>1, <2>3, <2>4, Pronounced
<1> QED
  BY FactsStart, FactsStep, <1>1, PTL DEF FactsSpec, VerdictsAreTrue

------------------------------------------------------------------------------
(*****************************************************************************)
(* The search for a transfer, for every height of the chain, every           *)
(* lookback, every size of the windows and every set of transfers.           *)
(*****************************************************************************)

\* What has been searched has no transfer, down to the lookback; evidence is
\* only sought for a transaction with a transfer of its own.
Searched ==
    /\ usdc \subseteq 0..latest
    /\ asked => found \in 0..Blocks
    /\ found = Searching => toBlock <= latest /\ \A b \in usdc : b > toBlock => b < Start
    /\ evidence \in {"expected", "PENDING", "CONFIRMED"} => found \in usdc

DiscoveryInv == DiscoveryTypeOK /\ Searched /\ DiscoveryFindsNewest

LEMMA DiscoveryRanges ==
  ASSUME DiscoveryTypeOK
  PROVE  /\ latest \in Nat /\ usdc \subseteq Nat /\ toBlock \in Int
         /\ lookback \in Nat /\ blockRange \in Nat \ {0}
         /\ Start \in Nat /\ Start <= latest /\ FromBlock \in Int
         /\ Searching \notin Nat /\ Null \notin Nat /\ Null # Searching
BY DiscoveryAssumption DEF DiscoveryTypeOK, Start, FromBlock, Searching, Null

LEMMA DiscoveryStarts == DiscoveryInit => DiscoveryInv
<1> SUFFICES ASSUME DiscoveryInit PROVE DiscoveryInv
  OBVIOUS
<1> USE DiscoveryAssumption DEF DiscoveryInit
<1>1. usdc \subseteq 0..latest /\ latest <= Blocks /\ evidence = "none" /\ toBlock = latest
  OBVIOUS
<1>2. found \in {Searching} \cup 0..Blocks /\ (asked => found \in 0..Blocks)
  <2>1. CASE asked
    BY <2>1, <1>1
  <2>2. CASE ~asked
    BY <2>2
  <2> QED
    BY <2>1, <2>2
<1>3. DiscoveryTypeOK
  BY <1>1, <1>2 DEF DiscoveryTypeOK, Evidence
<1>4. Searched
  BY <1>1, <1>2, <1>3, DiscoveryRanges DEF Searched
<1>5. DiscoveryFindsNewest
  BY <1>1, <1>2 DEF DiscoveryFindsNewest, Searching, Null
<1> QED
  BY <1>3, <1>4, <1>5 DEF DiscoveryInv

\* A window without a transfer is passed over, and the first with one holds
\* the newest of all.
LEMMA WindowKept ==
  ASSUME DiscoveryInv, SearchWindow
  PROVE  DiscoveryInv'
<1> USE DEF SearchWindow, DiscoveryInv
<1>1. /\ found = Searching /\ ~asked /\ evidence = "none" /\ evidence' = "none"
      /\ toBlock >= Start /\ FromBlock <= toBlock /\ toBlock <= latest
      /\ \A b \in usdc : b > toBlock => b < Start
  BY DiscoveryRanges DEF Searched, Searching
<1>2. Start' = Start
  BY DEF Start
<1>3. CASE Hits = {}
  <2>1. toBlock' = toBlock - blockRange /\ found' = Searching
    BY <1>1, <1>3 DEF NextWindow
  <2>2. toBlock' <= latest /\ toBlock' \in Int
    BY <1>1, <2>1, DiscoveryRanges
  <2>3. \A b \in usdc : b > toBlock' => b < Start
    <3> SUFFICES ASSUME NEW b \in usdc, b > toBlock', b >= Start PROVE FALSE
      BY DiscoveryRanges
    <3>1. b <= toBlock /\ b \in Nat
      BY <1>1, DiscoveryRanges
    <3>2. b >= FromBlock
      BY <2>1, DiscoveryRanges DEF FromBlock
    <3> QED
      BY <1>3, <3>1, <3>2, DiscoveryRanges DEF Hits
  <2>4. DiscoveryTypeOK'
    BY <2>1, <2>2 DEF DiscoveryTypeOK
  <2>5. Searched'
    BY <1>1, <1>2, <2>1, <2>2, <2>3 DEF Searched
  <2>6. DiscoveryFindsNewest'
    BY <1>1, <2>1, DiscoveryRanges DEF DiscoveryFindsNewest
  <2> QED
    BY <2>4, <2>5, <2>6
<1>4. CASE Hits # {}
  <2>1. found' \in Hits /\ (\A b \in Hits : b <= found') /\ toBlock' = toBlock
    BY <1>4 DEF NewestHit
  <2>2. found' \in usdc /\ found' \in 0..Blocks /\ found' \in Nat /\ found' >= FromBlock
    BY <2>1, DiscoveryRanges DEF Hits, DiscoveryTypeOK
  <2>3. \A b \in usdc : b <= found'
    <3> SUFFICES ASSUME NEW b \in usdc, b > found' PROVE FALSE
      BY <2>2, DiscoveryRanges
    <3>1. b <= toBlock /\ b >= FromBlock
      BY <1>1, <2>2, DiscoveryRanges
    <3> QED
      BY <2>1, <2>2, <3>1, DiscoveryRanges DEF Hits
  <2>4. DiscoveryTypeOK'
    BY <2>1, <2>2 DEF DiscoveryTypeOK
  <2>5. Searched'
    BY <1>1, <2>1, <2>2, DiscoveryRanges DEF Searched
  <2>6. DiscoveryFindsNewest'
    BY <1>1, <2>2, <2>3, DiscoveryRanges DEF DiscoveryFindsNewest, NewestHit
  <2> QED
    BY <2>4, <2>5, <2>6
<1> QED
  BY <1>3, <1>4

\* Null is said when every block from Start on has been searched.
LEMMA GiveUpKept ==
  ASSUME DiscoveryInv, GiveUp
  PROVE  DiscoveryInv'
<1> USE DEF GiveUp, DiscoveryInv
<1>1. ~asked /\ toBlock <= latest /\ \A b \in usdc : b > toBlock => b < Start
  BY DiscoveryRanges DEF Searched, Searching
<1>2. toBlock < Start
  BY DiscoveryRanges DEF FromBlock
<1>3. usdc \cap (Start..latest) = {}
  <2> SUFFICES ASSUME NEW b \in usdc, b >= Start PROVE FALSE
    BY DiscoveryRanges
  <2> QED
    BY <1>1, <1>2, DiscoveryRanges
<1>4. (usdc \cap (Start..latest))' = usdc \cap (Start..latest)
  BY DEF Start
<1>5. DiscoveryTypeOK'
  BY DEF DiscoveryTypeOK
<1>6. Searched' /\ DiscoveryFindsNewest'
  BY <1>1, <1>3, <1>4, DiscoveryRanges DEF Searched, DiscoveryFindsNewest, DiscoveryTypeOK
<1> QED
  BY <1>5, <1>6

\* Nothing is searched any more, and evidence follows the transaction's logs.
LEMMA EvidenceKept ==
  ASSUME DiscoveryInv, NothingFound \/ ExpectOwnTransfer \/ VerifyOwnTransfer \/ RpcFails
  PROVE  DiscoveryInv'
<1> USE DEF DiscoveryInv
<1>1. UNCHANGED <<latest, usdc, lookback, blockRange, toBlock, found, asked>>
  BY DEF NothingFound, ExpectOwnTransfer, VerifyOwnTransfer, RpcFails, Because
<1>2. evidence' \in Evidence /\ (evidence' \in {"expected", "PENDING", "CONFIRMED"} => found \in usdc)
  BY DEF NothingFound, ExpectOwnTransfer, VerifyOwnTransfer, RpcFails, Because, Evidence,
         OwnTransfer, Searched
<1>3. Start' = Start
  BY <1>1 DEF Start
<1>4. DiscoveryTypeOK' /\ Searched' /\ DiscoveryFindsNewest'
  BY <1>1, <1>2, <1>3 DEF DiscoveryTypeOK, Searched, DiscoveryFindsNewest, NewestHit
<1> QED
  BY <1>4

LEMMA DiscoveryStep == DiscoveryInv /\ [DiscoveryNext]_discoveryVars => DiscoveryInv'
<1> SUFFICES ASSUME DiscoveryInv, [DiscoveryNext]_discoveryVars PROVE DiscoveryInv'
  OBVIOUS
<1>1. CASE SearchWindow
  BY <1>1, WindowKept
<1>2. CASE GiveUp
  BY <1>2, GiveUpKept
<1>3. CASE NothingFound \/ ExpectOwnTransfer \/ VerifyOwnTransfer \/ RpcFails
  BY <1>3, EvidenceKept
<1>4. CASE UNCHANGED discoveryVars
  BY <1>4 DEF discoveryVars, DiscoveryInv, DiscoveryTypeOK, Searched, DiscoveryFindsNewest,
              NewestHit, Start
<1> QED
  BY <1>1, <1>2, <1>3, <1>4 DEF DiscoveryNext

\* What the search finds is the newest transfer of all, null means there is
\* none within the lookback, and evidence is about a transfer that was mined:
\* for every chain, lookback and size of the windows (base-sepolia.ts:55).
THEOREM NewestIsFound == DiscoverySpec => []DiscoveryFindsNewest
<1>1. DiscoveryInv => DiscoveryFindsNewest
  BY DEF DiscoveryInv
<1> QED
  BY DiscoveryStarts, DiscoveryStep, <1>1, PTL DEF DiscoverySpec

------------------------------------------------------------------------------
(***************************************************************************)
(* The guard as a library, for any number of calls and payments, whatever  *)
(* the rules and the budget are.                                           *)
(***************************************************************************)

PayerState == [at: PayerStage, for: SUBSET Prints, receipt: Nat, threw: BOOLEAN]

\* What the stage of a call says of its reservation, its receipt and the money.
Tells(c) ==
    LET at == payer[c].at
    IN  /\ at # "idle" => payer[c].for # {}
        /\ at \in {"idle", "escalated", "claim", "reserve"} => reservation[c] = "none"
        /\ at \in {"record", "callback", "commit", "release"} => reservation[c] = "reserved"
        /\ at \in {"idle", "escalated", "claim", "reserve", "record", "callback", "release"} => c \notin moved
        /\ at = "commit" => c \in moved
        /\ at # "over" => ~payer[c].threw
        /\ at \in {"callback", "commit"} =>
             payer[c].receipt \in DOMAIN pending /\ pending[payer[c].receipt] = c
        /\ at = "over" /\ reservation[c] # "none" =>
             IF payer[c].threw THEN reservation[c] = "reserved"
             ELSE reservation[c] = IF c \in moved THEN "committed" ELSE "released"

GuardInv ==
    /\ payer \in [Payers -> PayerState]
    /\ reservation \in [Payers -> {"none", "reserved", "committed", "released"}]
    /\ ledger \in Seq(Receipt)
    /\ DOMAIN pending \subseteq 1..Len(ledger)
    /\ \A c \in Payers : Tells(c)

LEMMA GuardStarts == GuardInit => GuardInv
<1> SUFFICES ASSUME GuardInit PROVE GuardInv
  OBVIOUS
<1>1. payer \in [Payers -> PayerState] /\ ledger \in Seq(Receipt) /\ DOMAIN pending \subseteq 1..Len(ledger)
  BY DEF GuardInit, PayerState, PayerStage
<1>2. ASSUME NEW c \in Payers PROVE Tells(c)
  BY DEF GuardInit, Tells
<1> QED BY <1>1, <1>2 DEF GuardInit, GuardInv

LEMMA AskedForPrint ==
  ASSUME GuardInv, NEW c \in Payers, payer[c].at # "idle"
  PROVE  AskedFor(c) \in Prints
<1>1. payer[c].for \subseteq Prints /\ payer[c].for # {}
  BY DEF GuardInv, Tells, PayerState
<1> QED BY <1>1 DEF AskedFor

\* A receipt is recorded at the end of the ledger.
LEMMA Recorded ==
  ASSUME GuardInv, NEW decision \in Decision, NEW f \in Prints, Record(decision, f)
  PROVE  ledger' \in Seq(Receipt) /\ Len(ledger') = Len(ledger) + 1
<1>1. ledger \in Seq(Receipt) /\ Len(ledger) \in Nat
  BY DEF GuardInv
<1>2. NewReceipt(decision, f) \in Receipt
  BY <1>1 DEF NewReceipt, LastHash, Receipt
<1> QED BY <1>1, <1>2 DEF Record

\* A step of one call that touches only what is its own.
LEMMA OneCall ==
  ASSUME GuardInv, NEW c \in Payers, NEW s \in PayerState, payer' = [payer EXCEPT ![c] = s],
         NEW r \in {"none", "reserved", "committed", "released"},
         reservation' = [reservation EXCEPT ![c] = r],
         moved' \ {c} = moved \ {c},
         ledger' \in Seq(Receipt), DOMAIN pending' \subseteq 1..Len(ledger'),
         \A n \in DOMAIN pending : pending[n] # c => n \in DOMAIN pending' /\ pending'[n] = pending[n],
         Tells(c)'
  PROVE  GuardInv'
<1>1. payer' \in [Payers -> PayerState]
      /\ reservation' \in [Payers -> {"none", "reserved", "committed", "released"}]
  BY DEF GuardInv
<1>2. ASSUME NEW d \in Payers \ {c} PROVE Tells(d)'
  <2>1. payer'[d] = payer[d] /\ reservation'[d] = reservation[d] /\ (d \in moved' <=> d \in moved)
    BY DEF GuardInv
  <2>2. payer[d].receipt \in DOMAIN pending /\ pending[payer[d].receipt] = d =>
          payer[d].receipt \in DOMAIN pending' /\ pending'[payer[d].receipt] = d
    OBVIOUS
  <2>3. Tells(d)
    BY DEF GuardInv
  <2> QED BY <2>1, <2>2, <2>3 DEF Tells
<1> QED BY <1>1, <1>2 DEF GuardInv

LEMMA RefuseKeeps ==
  ASSUME GuardInv, NEW c \in Payers, NEW decision \in Decision, Refuse(c, decision),
         payer[c].at \in {"escalated", "claim", "reserve"},
         UNCHANGED <<reservation, pending, moved>>
  PROVE  GuardInv'
<1> DEFINE s == [payer[c] EXCEPT !.at = "over"]
<1>1. payer \in [Payers -> PayerState] /\ payer[c] \in PayerState /\ Tells(c)
      /\ reservation \in [Payers -> {"none", "reserved", "committed", "released"}]
      /\ ledger \in Seq(Receipt) /\ DOMAIN pending \subseteq 1..Len(ledger)
  BY DEF GuardInv
<1>2. s \in PayerState /\ payer' = [payer EXCEPT ![c] = s]
  BY <1>1 DEF Refuse, Pass, PayerState, PayerStage
<1>3. ledger' \in Seq(Receipt) /\ Len(ledger') = Len(ledger) + 1
  BY AskedForPrint, Recorded DEF Refuse
<1>4. DOMAIN pending' \subseteq 1..Len(ledger')
  BY <1>1, <1>3
<1>5. reservation[c] = "none" /\ reservation' = [reservation EXCEPT ![c] = "none"]
  BY <1>1 DEF Tells
<1>6. Tells(c)'
  BY <1>1, <1>2, <1>5 DEF Tells, PayerState
<1> QED BY <1>2, <1>3, <1>4, <1>5, <1>6, OneCall

LEMMA GuardStep == GuardInv /\ [GuardNext]_guardVars => GuardInv'
<1> SUFFICES ASSUME GuardInv, [GuardNext]_guardVars PROVE GuardInv'
  OBVIOUS
<1>0. /\ payer \in [Payers -> PayerState] /\ \A c \in Payers : payer[c] \in PayerState /\ Tells(c)
      /\ reservation \in [Payers -> {"none", "reserved", "committed", "released"}]
      /\ ledger \in Seq(Receipt) /\ Len(ledger) \in Nat /\ DOMAIN pending \subseteq 1..Len(ledger)
  BY DEF GuardInv
<1> DEFINE Stays(c) == reservation' = [reservation EXCEPT ![c] = reservation[c]]
<1>1. ASSUME NEW c \in Payers, NEW f \in Prints, Evaluate(c, f) PROVE GuardInv'
  <2>1. PICK stage \in {"over", "escalated", "claim"} :
          payer' = [payer EXCEPT ![c].at = stage, ![c].for = {f}]
    BY <1>1 DEF Evaluate
  <2> DEFINE s == [payer[c] EXCEPT !.at = stage, !.for = {f}]
  <2>2. s \in PayerState /\ payer' = [payer EXCEPT ![c] = s]
    BY <1>0, <2>1 DEF PayerState, PayerStage
  <2>3. UNCHANGED <<reservation, pending, moved>> /\ payer[c].at = "idle"
    BY <1>1 DEF Evaluate, Reached
  <2>4. ledger' \in Seq(Receipt) /\ DOMAIN pending' \subseteq 1..Len(ledger')
    <3>1. CASE ledger' = ledger
      BY <1>0, <2>3, <3>1
    <3>2. CASE Record("block", f)
      <4>1. ledger' \in Seq(Receipt) /\ Len(ledger') = Len(ledger) + 1
        BY <3>2, Recorded DEF Decision
      <4> QED BY <1>0, <2>3, <4>1
    <3> QED BY <1>1, <3>1, <3>2 DEF Evaluate
  <2>5. Tells(c)'
    BY <1>0, <2>2, <2>3 DEF Tells, PayerState
  <2>6. Stays(c)
    BY <1>0, <2>3
  <2> HIDE DEF s
  <2> QED BY <1>0, <2>2, <2>3, <2>4, <2>5, <2>6, OneCall
<1>2. ASSUME NEW c \in Payers, AfterEscalation(c) PROVE GuardInv'
  BY <1>2, RefuseKeeps DEF AfterEscalation, Reached, Decision
<1>3. ASSUME NEW c \in Payers, ClaimFingerprint(c) PROVE GuardInv'
  <2>1. CASE Refuse(c, "block")
    BY <1>3, <2>1, RefuseKeeps DEF ClaimFingerprint, Reached, Decision
  <2>2. CASE Pass(c, "reserve") /\ UNCHANGED ledger
    <3> DEFINE s == [payer[c] EXCEPT !.at = "reserve"]
    <3>1. s \in PayerState /\ payer' = [payer EXCEPT ![c] = s]
      BY <1>0, <2>2 DEF Pass, PayerState, PayerStage
    <3>2. UNCHANGED <<reservation, pending, moved, ledger>> /\ payer[c].at = "claim"
      BY <1>3, <2>2 DEF ClaimFingerprint, Reached
    <3>3. s.at = "reserve" /\ s.for = payer[c].for /\ s.threw = payer[c].threw
      BY <1>0 DEF PayerState
    <3> HIDE DEF s
    <3>4. payer'[c] = s /\ Tells(c)
      BY <1>0, <3>1
    <3>5. Tells(c)'
      BY <3>2, <3>3, <3>4 DEF Tells
    <3>6. Stays(c)
      BY <1>0, <3>2
    <3> QED BY <1>0, <3>1, <3>2, <3>5, <3>6, OneCall
  <2> QED BY <1>3, <2>1, <2>2 DEF ClaimFingerprint
<1>4. ASSUME NEW c \in Payers, ReserveAmount(c) PROVE GuardInv'
  <2>1. CASE Refuse(c, "block") /\ UNCHANGED reservation
    BY <1>4, <2>1, RefuseKeeps DEF ReserveAmount, Reached, Decision
  <2>2. CASE /\ reservation' = [reservation EXCEPT ![c] = "reserved"]
             /\ Pass(c, "record") /\ UNCHANGED ledger
    <3> DEFINE s == [payer[c] EXCEPT !.at = "record"]
    <3>1. s \in PayerState /\ payer' = [payer EXCEPT ![c] = s]
      BY <1>0, <2>2 DEF Pass, PayerState, PayerStage
    <3>2. UNCHANGED <<pending, moved, ledger>> /\ payer[c].at = "reserve"
      BY <1>4, <2>2 DEF ReserveAmount, Reached
    <3>3. Tells(c)'
      BY <1>0, <2>2, <3>1, <3>2 DEF Tells, PayerState
    <3> HIDE DEF s
    <3> QED BY <1>0, <2>2, <3>1, <3>2, <3>3, OneCall
  <2> QED BY <1>4, <2>1, <2>2 DEF ReserveAmount
<1>5. ASSUME NEW c \in Payers, RecordAllow(c) PROVE GuardInv'
  <2> DEFINE n == Len(ledger) + 1
             s == [payer[c] EXCEPT !.at = "callback", !.receipt = n]
  <2>1. s \in PayerState /\ payer' = [payer EXCEPT ![c] = s]
    <3>1. payer[c] \in PayerState /\ n \in Nat /\ "callback" \in PayerStage
      BY <1>0 DEF PayerStage
    <3>2. s \in PayerState
      BY <3>1 DEF PayerState
    <3>3. payer' = [payer EXCEPT ![c] = s]
      BY <1>0, <1>5 DEF RecordAllow
    <3> QED BY <3>2, <3>3
  <2>2. UNCHANGED <<reservation, moved>> /\ payer[c].at = "record"
    BY <1>5 DEF RecordAllow, Reached
  <2>3. ledger' \in Seq(Receipt) /\ Len(ledger') = n
    BY <1>5, <2>2, AskedForPrint, Recorded DEF RecordAllow, Decision
  <2>4. n \notin DOMAIN pending /\ DOMAIN pending' = DOMAIN pending \cup {n} /\ pending'[n] = c
        /\ \A k \in DOMAIN pending : pending'[k] = pending[k]
    BY <1>0, <1>5 DEF RecordAllow
  <2>5. DOMAIN pending' \subseteq 1..Len(ledger')
    BY <1>0, <2>3, <2>4
  <2>6. payer'[c].at = "callback" /\ payer'[c].receipt = n /\ payer'[c].for = payer[c].for
        /\ payer'[c].threw = payer[c].threw
    BY <1>0, <2>1 DEF PayerState
  <2>7. Tells(c)'
    BY <1>0, <2>2, <2>4, <2>6 DEF Tells
  <2>8. Stays(c)
    BY <1>0, <2>2
  <2> HIDE DEF s, n
  <2> QED BY <1>0, <2>1, <2>2, <2>3, <2>4, <2>5, <2>7, <2>8, OneCall
<1>6. ASSUME NEW c \in Payers, NEW ok \in BOOLEAN, CallbackAnswers(c, ok) PROVE GuardInv'
  <2> DEFINE s == [payer[c] EXCEPT !.at = IF ok THEN "commit" ELSE "release"]
  <2>1. s \in PayerState /\ payer' = [payer EXCEPT ![c] = s]
    BY <1>0, <1>6 DEF CallbackAnswers, Pass, PayerState, PayerStage
  <2>2. UNCHANGED <<reservation, pending, ledger>> /\ payer[c].at = "callback"
        /\ moved' = IF ok THEN moved \cup {c} ELSE moved
    BY <1>6 DEF CallbackAnswers, Reached
  <2>3. Tells(c)'
    BY <1>0, <2>1, <2>2 DEF Tells, PayerState
  <2>4. Stays(c) /\ moved' \ {c} = moved \ {c}
    BY <1>0, <2>2
  <2> HIDE DEF s
  <2> QED BY <1>0, <2>1, <2>2, <2>3, <2>4, OneCall
<1>7. ASSUME NEW c \in Payers, CallbackThrows(c) PROVE GuardInv'
  <2> DEFINE s == [payer[c] EXCEPT !.at = "over", !.threw = TRUE]
  <2>1. s \in PayerState /\ payer' = [payer EXCEPT ![c] = s]
    BY <1>0, <1>7 DEF CallbackThrows, PayerState, PayerStage
  <2>2. UNCHANGED <<reservation, pending, ledger>> /\ payer[c].at = "callback"
        /\ moved' \ {c} = moved \ {c}
    BY <1>7 DEF CallbackThrows, Reached
  <2>3. Tells(c)'
    BY <1>0, <2>1, <2>2 DEF Tells, PayerState
  <2>4. Stays(c)
    BY <1>0, <2>2
  <2> HIDE DEF s
  <2> QED BY <1>0, <2>1, <2>2, <2>3, <2>4, OneCall
<1>8. ASSUME NEW c \in Payers, CommitAllowedSpend(c) PROVE GuardInv'
  <2> DEFINE s == [payer[c] EXCEPT !.at = "over"]
             n == payer[c].receipt
  <2>1. s \in PayerState /\ payer' = [payer EXCEPT ![c] = s]
    BY <1>0, <1>8 DEF CommitAllowedSpend, Pass, PayerState, PayerStage
  <2>2. UNCHANGED <<ledger, moved>> /\ payer[c].at = "commit"
    BY <1>8 DEF CommitAllowedSpend, Reached
  <2>3. n \in DOMAIN pending /\ pending[n] = c /\ c \in moved /\ ~payer[c].threw
    BY <1>0, <2>2 DEF Tells
  <2>4. reservation' = [reservation EXCEPT ![c] = "committed"]
        /\ pending' = [k \in DOMAIN pending \ {n} |-> pending[k]]
    BY <1>8, <2>3 DEF CommitAllowedSpend, OwnReceipt
  <2>5. Tells(c)'
    BY <1>0, <2>1, <2>2, <2>3, <2>4 DEF Tells, PayerState
  <2>6. DOMAIN pending' \subseteq 1..Len(ledger')
        /\ \A k \in DOMAIN pending : pending[k] # c => k \in DOMAIN pending' /\ pending'[k] = pending[k]
    BY <1>0, <2>2, <2>3, <2>4
  <2> HIDE DEF s, n
  <2> QED BY <1>0, <2>1, <2>2, <2>4, <2>5, <2>6, OneCall
<1>9. ASSUME NEW c \in Payers, ReleaseReservation(c) PROVE GuardInv'
  <2> DEFINE s == [payer[c] EXCEPT !.at = "over"]
  <2>1. s \in PayerState /\ payer' = [payer EXCEPT ![c] = s]
    BY <1>0, <1>9 DEF ReleaseReservation, Pass, PayerState, PayerStage
  <2>2. UNCHANGED <<pending, ledger, moved>> /\ payer[c].at = "release"
        /\ reservation' = [reservation EXCEPT ![c] = "released"]
    BY <1>9 DEF ReleaseReservation, Reached
  <2>3. Tells(c)'
    BY <1>0, <2>1, <2>2 DEF Tells, PayerState
  <2> HIDE DEF s
  <2> QED BY <1>0, <2>1, <2>2, <2>3, OneCall
<1>10. ASSUME UNCHANGED <<reservation, pending, payer, moved>>, ledger' \in Seq(Receipt),
              Len(ledger) <= Len(ledger')
       PROVE  GuardInv'
  BY <1>0, <1>10 DEF GuardInv, Tells
<1>11. ASSUME NEW n \in DOMAIN ledger, Settlement(n) PROVE GuardInv'
  <2>1. SettledReceipt(n) \in Receipt
    <3>1. ledger[n] \in Receipt /\ n \in Nat
      BY <1>0
    <3> QED BY <3>1 DEF SettledReceipt, Receipt
  <2>2. ledger' \in Seq(Receipt) /\ Len(ledger') = Len(ledger) + 1
    BY <1>0, <1>11, <2>1 DEF Settlement
  <2> QED BY <1>0, <1>10, <1>11, <2>2 DEF Settlement
<1>12. ASSUME NEW fingerprint \in claims, ExpireClaim(fingerprint) PROVE GuardInv'
  BY <1>0, <1>10, <1>12 DEF ExpireClaim
<1>13. CASE UNCHANGED guardVars
  BY <1>0, <1>10, <1>13 DEF guardVars
<1> QED
  BY <1>1, <1>2, <1>3, <1>4, <1>5, <1>6, <1>7, <1>8, <1>9, <1>11, <1>12, <1>13 DEF GuardNext

\* When a guarded call is over its own reservation tells what it did
\* (middleware index.ts:108): committed, released, or held after a throw.
THEOREM OwnReservationSettled == GuardSpec => []ReservationTellsPayment
<1>1. GuardInv => ReservationTellsPayment
  BY DEF GuardInv, Tells, ReservationTellsPayment, Reached
<1> QED BY <1>1, GuardStarts, GuardStep, PTL DEF GuardSpec

\* The store's interface: which payment a call holds its authorization for.
PayerPrint(c) ==
    IF StageOfPayer(c) \in {"new", "refused"} THEN "nobody" ELSE Fingerprint(Context[AskedFor(c)])

\* A step that moves one call, and no claim.
LEMMA PayerMoves ==
  ASSUME NEW c \in Payers, UNCHANGED claims,
         \A d \in Payers \ {c} : StageOfPayer(d)' = StageOfPayer(d) /\ PayerPrint(d)' = PayerPrint(d)
  PROVE  /\ StageOfPayer(c)' = StageOfPayer(c) /\ PayerPrint(c)' = PayerPrint(c) =>
              UNCHANGED Store!storeVars
         /\ StageOfPayer(c) \in {"new", "claimed"} /\ StageOfPayer(c)' = "refused" => Store!Refuse(c)
         /\ PayerPrint(c)' = PayerPrint(c) =>
              /\ StageOfPayer(c) = "claimed" /\ StageOfPayer(c)' = "reserved" => Store!ReserveBudget(c)
              /\ StageOfPayer(c) = "reserved" /\ StageOfPayer(c)' = "committed" =>
                    Store!CommitAuthorization(c)
              /\ StageOfPayer(c) = "reserved" /\ StageOfPayer(c)' = "released" =>
                    Store!ReleaseAuthorization(c)
<1> DEFINE stages == [d \in Payers |-> StageOfPayer(d)]
           prints == [d \in Payers |-> PayerPrint(d)]
<1>1. /\ stages' = [stages EXCEPT ![c] = StageOfPayer(c)'] /\ stages[c] = StageOfPayer(c)
      /\ prints' = [prints EXCEPT ![c] = PayerPrint(c)']
  OBVIOUS
<1>2. StageOfPayer(c)' = "refused" => PayerPrint(c)' = "nobody"
  BY DEF PayerPrint
<1>3. StageOfPayer(c)' = StageOfPayer(c) /\ PayerPrint(c)' = PayerPrint(c) =>
        stages' = stages /\ prints' = prints
  OBVIOUS
<1>4. PayerPrint(c)' = PayerPrint(c) => prints' = prints
  OBVIOUS
<1> QED
  BY <1>1, <1>2, <1>3, <1>4
  DEF Store!storeVars, Store!Refuse, Store!ReserveBudget, Store!CommitAuthorization,
      Store!ReleaseAuthorization, Store!Move, PayerPrint

\* A call moves from one place to another, its reservation from one status to
\* another, and nothing else of the store does.
LEMMA PayerSteps ==
  ASSUME GuardInv, NEW c \in Payers, NEW s, payer' = [payer EXCEPT ![c] = s],
         NEW r, reservation' = [reservation EXCEPT ![c] = r], UNCHANGED claims,
         s.for = payer[c].for \/ (payer[c].at = "idle" /\ s.at \in {"over", "escalated", "claim"}),
         \/ r = reservation[c] /\ r # "none"
         \/ /\ r = reservation[c] /\ payer[c].at \in {"idle", "escalated", "claim"}
            /\ s.at \in {"over", "escalated", "claim"}
         \/ r = reservation[c] /\ payer[c].at = "reserve" /\ s.at = "over"
         \/ payer[c].at = "reserve" /\ r = "reserved"
         \/ reservation[c] = "reserved" /\ r \in {"committed", "released"}
  PROVE  [Store!Next]_Store!storeVars
<1>0. /\ payer'[c] = s /\ reservation'[c] = r /\ Tells(c)
      /\ \A d \in Payers \ {c} : payer'[d] = payer[d] /\ reservation'[d] = reservation[d]
  BY DEF GuardInv
<1>1. \A d \in Payers \ {c} : StageOfPayer(d)' = StageOfPayer(d) /\ PayerPrint(d)' = PayerPrint(d)
  BY <1>0 DEF StageOfPayer, PayerPrint, AskedFor
<1>2. s.for = payer[c].for => AskedFor(c)' = AskedFor(c)
  BY <1>0 DEF AskedFor
<1>3. CASE r = reservation[c] /\ r # "none"
  <2>1. StageOfPayer(c)' = StageOfPayer(c) /\ payer[c].at # "idle"
    BY <1>0, <1>3 DEF StageOfPayer, Tells
  <2>2. PayerPrint(c)' = PayerPrint(c)
    BY <1>2, <2>1 DEF PayerPrint
  <2> QED BY <1>1, <2>1, <2>2, PayerMoves
<1>4. CASE /\ r = reservation[c] /\ payer[c].at \in {"idle", "escalated", "claim"}
           /\ s.at \in {"over", "escalated", "claim"}
  <2>1. StageOfPayer(c) = "new" /\ StageOfPayer(c)' = IF s.at = "over" THEN "refused" ELSE "new"
    BY <1>0, <1>4 DEF StageOfPayer, Tells
  <2>2. s.at # "over" => PayerPrint(c)' = PayerPrint(c)
    BY <2>1 DEF PayerPrint
  <2> QED BY <1>1, <2>1, <2>2, PayerMoves DEF Store!Next
<1>5. CASE r = reservation[c] /\ payer[c].at = "reserve" /\ s.at = "over"
  <2>1. StageOfPayer(c) = "claimed" /\ StageOfPayer(c)' = "refused"
    BY <1>0, <1>5 DEF StageOfPayer, Tells
  <2> QED BY <1>1, <2>1, PayerMoves DEF Store!Next
<1>6. CASE payer[c].at = "reserve" /\ r = "reserved"
  <2>1. StageOfPayer(c) = "claimed" /\ StageOfPayer(c)' = "reserved"
    BY <1>0, <1>6 DEF StageOfPayer, Tells
  <2>2. PayerPrint(c)' = PayerPrint(c)
    BY <1>2, <1>6, <2>1 DEF PayerPrint
  <2> QED BY <1>1, <2>1, <2>2, PayerMoves DEF Store!Next
<1>7. CASE reservation[c] = "reserved" /\ r \in {"committed", "released"}
  <2>1. StageOfPayer(c) = "reserved" /\ StageOfPayer(c)' = r /\ payer[c].at # "idle"
    BY <1>0, <1>7 DEF StageOfPayer, Tells
  <2>2. PayerPrint(c)' = PayerPrint(c)
    BY <1>2, <1>7, <2>1 DEF PayerPrint
  <2> QED BY <1>1, <1>7, <2>1, <2>2, PayerMoves DEF Store!Next
<1> QED BY <1>3, <1>4, <1>5, <1>6, <1>7

LEMMA PayerStoreStep ==
  ASSUME GuardInv, [GuardNext]_guardVars
  PROVE  [Store!Next]_Store!storeVars
<1>0. /\ payer \in [Payers -> PayerState] /\ \A c \in Payers : payer[c] \in PayerState /\ Tells(c)
      /\ reservation \in [Payers -> {"none", "reserved", "committed", "released"}]
  BY DEF GuardInv
<1> DEFINE To(c, stage) ==
      \E s : /\ payer' = [payer EXCEPT ![c] = s] /\ s.at = stage
             /\ s.for = payer[c].for \/ payer[c].at = "idle"
           Same(c) == reservation' = [reservation EXCEPT ![c] = reservation[c]]
<1>a. ASSUME NEW c \in Payers, NEW stage, Pass(c, stage) PROVE To(c, stage)
  <2>1. PICK s : s = [payer[c] EXCEPT !.at = stage]
    OBVIOUS
  <2>2. payer' = [payer EXCEPT ![c] = s] /\ s.at = stage /\ s.for = payer[c].for
    BY <1>0, <1>a, <2>1 DEF Pass, PayerState
  <2> QED BY <2>2
<1>b. ASSUME NEW c \in Payers, UNCHANGED reservation PROVE Same(c)
  BY <1>0, <1>b
<1>1. ASSUME NEW c \in Payers, NEW f \in Prints, Evaluate(c, f) PROVE [Store!Next]_Store!storeVars
  <2>1. PICK stage \in {"over", "escalated", "claim"} :
          payer' = [payer EXCEPT ![c].at = stage, ![c].for = {f}]
    BY <1>1 DEF Evaluate
  <2>2. PICK s : s = [payer[c] EXCEPT !.at = stage, !.for = {f}]
    OBVIOUS
  <2>3. payer' = [payer EXCEPT ![c] = s] /\ s.at = stage
    BY <1>0, <2>1, <2>2 DEF PayerState
  <2>4. payer[c].at = "idle" /\ UNCHANGED <<claims, reservation>>
    BY <1>1 DEF Evaluate, Reached
  <2> QED BY <1>b, <2>3, <2>4, PayerSteps
<1>2. ASSUME NEW c \in Payers, payer[c].at \in {"escalated", "claim", "reserve"}, To(c, "over"),
             UNCHANGED <<claims, reservation>>
      PROVE  [Store!Next]_Store!storeVars
  BY <1>b, <1>2, PayerSteps
<1>3. ASSUME NEW c \in Payers, AfterEscalation(c) PROVE [Store!Next]_Store!storeVars
  BY <1>2, <1>3, <1>a DEF AfterEscalation, Reached, Refuse
<1>4. ASSUME NEW c \in Payers, ClaimFingerprint(c) PROVE [Store!Next]_Store!storeVars
  <2>1. CASE Refuse(c, "block") /\ UNCHANGED claims
    BY <1>2, <1>4, <1>a, <2>1 DEF ClaimFingerprint, Reached, Refuse
  <2>2. CASE /\ Fingerprint(Context[AskedFor(c)]) \notin claims
             /\ claims' = claims \cup {Fingerprint(Context[AskedFor(c)])}
             /\ Pass(c, "reserve")
    <3> DEFINE stages == [d \in Payers |-> StageOfPayer(d)]
               prints == [d \in Payers |-> PayerPrint(d)]
    <3>1. payer[c].at = "claim" /\ UNCHANGED reservation /\ reservation[c] = "none"
      BY <1>0, <1>4 DEF ClaimFingerprint, Reached, Tells
    <3>2. PICK f \in {Fingerprint(Context[g]) : g \in Prints} : f = Fingerprint(Context[AskedFor(c)])
      BY <3>1, AskedForPrint
    <3>3. /\ payer'[c].at = "reserve" /\ payer'[c].for = payer[c].for
          /\ \A d \in Payers \ {c} : payer'[d] = payer[d] /\ reservation'[d] = reservation[d]
      BY <1>0, <2>2, <3>1 DEF Pass, PayerState
    <3>4. \A d \in Payers \ {c} : StageOfPayer(d)' = StageOfPayer(d) /\ PayerPrint(d)' = PayerPrint(d)
      <4> SUFFICES ASSUME NEW d \in Payers \ {c}
                   PROVE  StageOfPayer(d)' = StageOfPayer(d) /\ PayerPrint(d)' = PayerPrint(d)
        OBVIOUS
      <4>1. payer'[d] = payer[d] /\ reservation'[d] = reservation[d]
        BY <3>3
      <4> QED BY <4>1 DEF StageOfPayer, PayerPrint, AskedFor
    <3>5. StageOfPayer(c) = "new" /\ StageOfPayer(c)' = "claimed"
      BY <3>1, <3>3 DEF StageOfPayer
    <3>6. PayerPrint(c)' = f
      BY <3>2, <3>3, <3>5 DEF PayerPrint, AskedFor
    <3>7. /\ stages' = [stages EXCEPT ![c] = "claimed"] /\ stages[c] = "new"
          /\ prints' = [prints EXCEPT ![c] = f]
      BY <3>4, <3>5, <3>6
    <3>8. Store!ClaimReplay(c, f)
      BY <2>2, <3>2, <3>7 DEF Store!ClaimReplay, Store!Move, PayerPrint
    <3> QED BY <3>2, <3>8 DEF Store!Next
  <2> QED BY <1>4, <2>1, <2>2 DEF ClaimFingerprint
<1>5. ASSUME NEW fingerprint \in claims, ExpireClaim(fingerprint) PROVE Store!Next
  <2>1. claims' \subseteq claims /\ UNCHANGED <<reservation, payer>>
    BY <1>5 DEF ExpireClaim
  <2>2. \A c \in Payers : StageOfPayer(c)' = StageOfPayer(c) /\ PayerPrint(c)' = PayerPrint(c)
    BY <2>1 DEF StageOfPayer, PayerPrint, AskedFor
  <2>3. Store!Lapse
    BY <2>1, <2>2 DEF Store!Lapse, PayerPrint
  <2> QED BY <2>3 DEF Store!Next
<1>6. ASSUME NEW c \in Payers, ReserveAmount(c) PROVE [Store!Next]_Store!storeVars
  <2>1. payer[c].at = "reserve" /\ UNCHANGED claims
    BY <1>6 DEF ReserveAmount, Reached
  <2>2. CASE Refuse(c, "block") /\ UNCHANGED reservation
    BY <1>2, <1>a, <2>1, <2>2 DEF Refuse
  <2>3. CASE reservation' = [reservation EXCEPT ![c] = "reserved"] /\ Pass(c, "record")
    BY <1>a, <2>1, <2>3, PayerSteps
  <2> QED BY <1>6, <2>2, <2>3 DEF ReserveAmount
<1>7. ASSUME NEW c \in Payers, NEW stage, To(c, stage), UNCHANGED <<claims, reservation>>,
             payer[c].at \in {"record", "callback"}
      PROVE  [Store!Next]_Store!storeVars
  <2>1. reservation[c] = "reserved"
    BY <1>0, <1>7 DEF Tells
  <2> QED BY <1>b, <1>7, <2>1, PayerSteps
<1>8. ASSUME NEW c \in Payers, RecordAllow(c) PROVE [Store!Next]_Store!storeVars
  <2>1. PICK s : s = [payer[c] EXCEPT !.at = "callback", !.receipt = Len(ledger) + 1]
    OBVIOUS
  <2>2. payer' = [payer EXCEPT ![c] = s] /\ s.at = "callback" /\ s.for = payer[c].for
    BY <1>0, <1>8, <2>1 DEF RecordAllow, PayerState
  <2> QED BY <1>7, <1>8, <2>2 DEF RecordAllow, Reached
<1>9. ASSUME NEW c \in Payers, NEW ok \in BOOLEAN, CallbackAnswers(c, ok)
      PROVE  [Store!Next]_Store!storeVars
  BY <1>7, <1>9, <1>a DEF CallbackAnswers, Reached
<1>10. ASSUME NEW c \in Payers, CallbackThrows(c) PROVE [Store!Next]_Store!storeVars
  <2>1. PICK s : s = [payer[c] EXCEPT !.at = "over", !.threw = TRUE]
    OBVIOUS
  <2>2. payer' = [payer EXCEPT ![c] = s] /\ s.at = "over" /\ s.for = payer[c].for
    BY <1>0, <1>10, <2>1 DEF CallbackThrows, PayerState
  <2> QED BY <1>7, <1>10, <2>2 DEF CallbackThrows, Reached
<1>11. ASSUME NEW c \in Payers, CommitAllowedSpend(c) PROVE [Store!Next]_Store!storeVars
  <2>1. reservation' = [reservation EXCEPT ![c] = "committed"] /\ reservation[c] = "reserved"
    BY <1>0, <1>11 DEF CommitAllowedSpend, OwnReceipt, Reached, Tells
  <2>2. To(c, "over") /\ UNCHANGED claims
    BY <1>11, <1>a DEF CommitAllowedSpend
  <2>3. payer[c].at # "idle"
    BY <1>11 DEF CommitAllowedSpend, Reached
  <2> QED BY <2>1, <2>2, <2>3, PayerSteps
<1>12. ASSUME NEW c \in Payers, ReleaseReservation(c) PROVE [Store!Next]_Store!storeVars
  <2>1. reservation' = [reservation EXCEPT ![c] = "released"] /\ reservation[c] = "reserved"
    BY <1>0, <1>12 DEF ReleaseReservation, Reached, Tells
  <2>2. To(c, "over") /\ UNCHANGED claims
    BY <1>12, <1>a DEF ReleaseReservation
  <2>3. payer[c].at # "idle"
    BY <1>12 DEF ReleaseReservation, Reached
  <2> QED BY <2>1, <2>2, <2>3, PayerSteps
<1>13. ASSUME UNCHANGED <<claims, reservation, payer>> PROVE UNCHANGED Store!storeVars
  <2>1. \A c \in Payers : StageOfPayer(c)' = StageOfPayer(c) /\ PayerPrint(c)' = PayerPrint(c)
    BY <1>13 DEF StageOfPayer, PayerPrint, AskedFor
  <2> QED BY <1>13, <2>1 DEF Store!storeVars, PayerPrint
<1>14. ASSUME (\E n \in DOMAIN ledger : Settlement(n)) \/ UNCHANGED guardVars
       PROVE  UNCHANGED <<claims, reservation, payer>>
  BY <1>14 DEF Settlement, guardVars
<1> QED
  BY <1>1, <1>3, <1>4, <1>5, <1>6, <1>8, <1>9, <1>10, <1>11, <1>12, <1>13, <1>14 DEF GuardNext

\* The middleware drives the store in memory as GuardStateStore has it
\* (storage.ts:16), however its calls interleave and its callbacks end.
THEOREM MemoryStoreKept == GuardSpec => MiddlewareKeepsToStore
<1>1. GuardInit => Store!Init
  <2> SUFFICES ASSUME GuardInit PROVE Store!Init
    OBVIOUS
  <2>1. \A c \in Payers : StageOfPayer(c) = "new"
    BY DEF GuardInit, StageOfPayer
  <2> QED BY <2>1 DEF GuardInit, Store!Init
<1> QED
  BY <1>1, GuardStarts, GuardStep, PayerStoreStep, PTL
  DEF GuardSpec, MiddlewareKeepsToStore, Store!Spec

\* The reservations that count against the budget.  Each is of a call that was
\* asked for a positive amount and keeps what it was asked for, so that their
\* sum changes with the reservations only.
GrantedCalls == {c \in Payers : reservation[c] \in {"reserved", "committed"}}
Priced == \A c \in Payers : payer[c].at # "idle" => AmountAsked[c] \in Nat

GrantsInv ==
    /\ Priced
    /\ moved \subseteq GrantedCalls
    /\ Total(GrantedCalls) <= Budget

LEMMA GrantedPriced ==
  ASSUME GuardInv, Priced
  PROVE  IsFiniteSet(GrantedCalls) /\ \A c \in GrantedCalls : AmountAsked[c] \in Nat
<1>1. IsFiniteSet(GrantedCalls)
  BY GuardAssumption, FS_Subset DEF GrantedCalls
<1>2. ASSUME NEW c \in GrantedCalls PROVE payer[c].at # "idle"
  BY DEF GuardInv, Tells, GrantedCalls
<1> QED BY <1>1, <1>2 DEF Priced, GrantedCalls

\* Spent and held are apart, and together they are what was granted.
LEMMA SpentAndHeld ==
  ASSUME GuardInv, Priced
  PROVE  Total(GrantedCalls) = Total(Spent) + Total(Held)
<1>1. Spent \cup Held = GrantedCalls /\ Spent \cap Held = {}
  BY DEF Spent, Held, GrantedCalls
<1>2. Spent \in SUBSET GrantedCalls /\ Held \in SUBSET GrantedCalls
  BY <1>1
<1>3. IsFiniteSet(Spent) /\ IsFiniteSet(Held)
  BY <1>2, GrantedPriced, FS_Subset
<1>4. \A c \in Spent \cup Held : AmountAsked[c] \in Int
  BY <1>1, GrantedPriced
<1>5. SumFunctionOnSet(AmountAsked, Spent \cup Held) =
        SumFunctionOnSet(AmountAsked, Spent) + SumFunctionOnSet(AmountAsked, Held)
  BY <1>1, <1>3, <1>4, SumUnion
<1> QED BY <1>1, <1>5 DEF Total

LEMMA GrantsStart == GuardInit => GrantsInv
<1> SUFFICES ASSUME GuardInit PROVE GrantsInv
  OBVIOUS
<1>1. Priced /\ moved = {} /\ GrantedCalls = {}
  BY DEF GuardInit, Priced, GrantedCalls
<1>2. Total(GrantedCalls) = 0
  BY <1>1, SumEmpty DEF Total
<1> QED BY <1>1, <1>2, GuardAssumption DEF GrantsInv

LEMMA SameAsked ==
  ASSUME NEW c, payer'[c].for = payer[c].for
  PROVE  AskedFor(c)' = AskedFor(c)
<1>1. AskedFor(c) = First(payer[c].for) /\ AskedFor(c)' = First(payer'[c].for)
  BY DEF AskedFor, First
<1> QED BY <1>1

\* A step that grants nothing new.
LEMMA NothingGranted ==
  ASSUME GuardInv, GrantsInv, Priced', GrantedCalls' \subseteq GrantedCalls,
         moved' \subseteq GrantedCalls',
         \A c \in GrantedCalls : payer'[c].for = payer[c].for
  PROVE  GrantsInv'
<1>1. IsFiniteSet(GrantedCalls) /\ \A c \in GrantedCalls : AmountAsked[c] \in Nat
  BY GrantedPriced DEF GrantsInv
<1>2. ASSUME NEW c \in GrantedCalls' PROVE AmountAsked'[c] = AmountAsked[c]
  <2>1. c \in GrantedCalls /\ c \in Payers
    BY <1>2 DEF GrantedCalls
  <2>2. AskedFor(c)' = AskedFor(c)
    BY <2>1, SameAsked
  <2> QED BY <2>1, <2>2 DEF AmountAsked
<1>3. IsFiniteSet(GrantedCalls') /\ \A c \in GrantedCalls' : AmountAsked[c] \in Nat
  <2>1. GrantedCalls' \in SUBSET GrantedCalls
    OBVIOUS
  <2> QED BY <1>1, <2>1, FS_Subset
<1>4. SumFunctionOnSet(AmountAsked', GrantedCalls') = SumFunctionOnSet(AmountAsked, GrantedCalls')
  BY <1>2, <1>3, SumSame
<1>5. SumFunctionOnSet(AmountAsked, GrantedCalls') <= SumFunctionOnSet(AmountAsked, GrantedCalls)
  BY <1>1, SumMonotone
<1>6. SumFunctionOnSet(AmountAsked, GrantedCalls') \in Nat
      /\ SumFunctionOnSet(AmountAsked, GrantedCalls) \in Nat
  BY <1>1, <1>3, SumNatural
<1>7. SumFunctionOnSet(AmountAsked', GrantedCalls') <= Budget
  BY <1>4, <1>5, <1>6, GuardAssumption DEF GrantsInv, Total
<1> QED BY <1>7 DEF GrantsInv, Total

\* The reservation: there was room for it beside all that was granted.
LEMMA GrantFits ==
  ASSUME GuardInv, GrantsInv, NEW c \in Payers, ReserveAmount(c), c \notin GrantedCalls,
         GrantedCalls' = GrantedCalls \cup {c}
  PROVE  GrantsInv'
<1>1. payer \in [Payers -> PayerState] /\ payer[c].at = "reserve"
      /\ AmountAsked[c] \in Nat /\ AmountAsked[c] = Context[AskedFor(c)].amount
  BY DEF GuardInv, GrantsInv, Priced, ReserveAmount, Reached, AmountAsked
<1>2. reservation' # reservation
  BY DEF GrantedCalls
<1>3. Room(AmountAsked[c]) /\ Pass(c, "record") /\ UNCHANGED moved
  BY <1>1, <1>2 DEF ReserveAmount
<1>4. AmountAsked' = AmountAsked /\ Priced'
  <2>1. \A d \in Payers : payer'[d].for = payer[d].for
    BY <1>1, <1>3 DEF Pass, PayerState
  <2>2. \A d \in Payers : payer'[d].at # "idle" => payer[d].at # "idle"
    BY <1>1, <1>3 DEF Pass, PayerState
  <2>3. AmountAsked' = AmountAsked
    <3>1. \A d \in Payers : AskedFor(d)' = AskedFor(d)
      BY <2>1, SameAsked
    <3> QED BY <3>1 DEF AmountAsked
  <2> QED BY <2>2, <2>3 DEF Priced, GrantsInv
<1>5. IsFiniteSet(GrantedCalls) /\ \A d \in GrantedCalls : AmountAsked[d] \in Nat
  BY GrantedPriced DEF GrantsInv
<1>6. SumFunctionOnSet(AmountAsked, GrantedCalls \cup {c}) =
        SumFunctionOnSet(AmountAsked, GrantedCalls) + AmountAsked[c]
  BY <1>1, <1>5, SumAdd
<1>7. Policy.maxAmount = Budget
  BY DEF Policy, DefaultDevPolicy
<1>8. Total(GrantedCalls) + AmountAsked[c] <= Budget
  BY <1>3, <1>7, SpentAndHeld DEF Room, GrantsInv
<1>9. Total(GrantedCalls)' <= Budget
  BY <1>4, <1>6, <1>8 DEF Total
<1> QED BY <1>3, <1>4, <1>9 DEF GrantsInv

\* A step that starts no call.
NothingNew ==
  \A c \in Payers : /\ payer'[c].for = payer[c].for
                    /\ payer'[c].at # "idle" => payer[c].at # "idle"

\* A step that grants nothing new and asks for nothing new.
LEMMA NothingAsked ==
  ASSUME GuardInv, GrantsInv, GrantedCalls' \subseteq GrantedCalls,
         moved' \subseteq GrantedCalls',
         NothingNew
  PROVE  GrantsInv'
<1>1. \A c \in Payers : AskedFor(c)' = AskedFor(c)
  BY SameAsked DEF NothingNew
<1>2. Priced'
  BY <1>1 DEF GrantsInv, Priced, AmountAsked, NothingNew
<1>3. \A c \in GrantedCalls : payer'[c].for = payer[c].for
  BY DEF GrantedCalls, NothingNew
<1> QED BY <1>2, <1>3, NothingGranted

LEMMA GrantsStep == GuardInv /\ GrantsInv /\ [GuardNext]_guardVars => GrantsInv'
<1> SUFFICES ASSUME GuardInv, GrantsInv, [GuardNext]_guardVars PROVE GrantsInv'
  OBVIOUS
<1>1. /\ payer \in [Payers -> PayerState] /\ \A c \in Payers : Tells(c)
      /\ reservation \in [Payers -> {"none", "reserved", "committed", "released"}]
      /\ moved \subseteq GrantedCalls
  BY DEF GuardInv, GrantsInv
<1>2. ASSUME NEW c \in Payers, NEW f \in Prints, Evaluate(c, f) PROVE GrantsInv'
  <2>1. PICK stage : payer' = [payer EXCEPT ![c].at = stage, ![c].for = {f}]
    BY <1>2 DEF Evaluate
  <2>2. UNCHANGED <<reservation, moved>> /\ payer[c].at = "idle" /\ ValidContext(Context[f])
    BY <1>2 DEF Evaluate, Reached
  <2>3. c \notin GrantedCalls /\ GrantedCalls' = GrantedCalls
    BY <1>1, <2>2 DEF Tells, GrantedCalls
  <2>4. \A d \in Payers \ {c} : payer'[d] = payer[d]
    BY <1>1, <2>1
  <2>5. payer'[c].for = {f}
    BY <1>1, <2>1 DEF PayerState
  <2>6. AskedFor(c)' = f
    BY <2>5 DEF AskedFor
  <2>7. Context[f].amount \in Nat
    <3>1. Context[f].amount \in Int
      BY GuardAssumption
    <3>2. Context[f].amount > 0
      BY <2>2, Zenon DEF ValidContext
    <3> QED BY <3>1, <3>2
  <2>8. \A d \in Payers \ {c} : AskedFor(d)' = AskedFor(d)
    BY <2>4, SameAsked
  <2>9. Priced'
    BY <2>4, <2>6, <2>7, <2>8 DEF GrantsInv, Priced, AmountAsked
  <2>10. \A d \in GrantedCalls : payer'[d].for = payer[d].for
    BY <2>3, <2>4 DEF GrantedCalls
  <2> QED BY <1>1, <2>2, <2>3, <2>9, <2>10, NothingGranted
<1>3. ASSUME NEW c \in Payers, AfterEscalation(c) \/ ClaimFingerprint(c) \/ RecordAllow(c)
      PROVE  GrantsInv'
  <2>1. UNCHANGED <<reservation, moved>> /\ payer[c].at # "idle"
    BY <1>3 DEF AfterEscalation, ClaimFingerprint, RecordAllow, Reached
  <2>2. NothingNew
    BY <1>1, <1>3, <2>1 DEF NothingNew, AfterEscalation, ClaimFingerprint, RecordAllow, Refuse, Pass, PayerState
  <2> QED BY <1>1, <2>1, <2>2, NothingAsked DEF GrantedCalls
<1>4. ASSUME NEW c \in Payers, ReserveAmount(c) PROVE GrantsInv'
  <2>1. UNCHANGED moved /\ payer[c].at = "reserve" /\ c \notin GrantedCalls
    BY <1>1, <1>4 DEF ReserveAmount, Reached, Tells, GrantedCalls
  <2>2. NothingNew
    BY <1>1, <1>4, <2>1 DEF NothingNew, ReserveAmount, Refuse, Pass, PayerState
  <2>3. \/ UNCHANGED reservation
        \/ reservation' = [reservation EXCEPT ![c] = "reserved"]
    BY <1>4 DEF ReserveAmount
  <2>4. CASE UNCHANGED reservation
    BY <1>1, <2>1, <2>2, <2>4, NothingAsked DEF GrantedCalls
  <2>5. CASE reservation' = [reservation EXCEPT ![c] = "reserved"]
    <3>1. GrantedCalls' = GrantedCalls \cup {c}
      BY <1>1, <2>5 DEF GrantedCalls
    <3> QED BY <1>4, <2>1, <3>1, GrantFits
  <2> QED BY <2>3, <2>4, <2>5
<1>5. ASSUME NEW c \in Payers, CallbackThrows(c) \/ \E ok \in BOOLEAN : CallbackAnswers(c, ok)
      PROVE  GrantsInv'
  <2>1. UNCHANGED reservation /\ moved' \subseteq moved \cup {c} /\ payer[c].at = "callback"
    BY <1>5 DEF CallbackThrows, CallbackAnswers, Reached
  <2>2. c \in GrantedCalls /\ GrantedCalls' = GrantedCalls
    BY <1>1, <2>1 DEF Tells, GrantedCalls
  <2>3. NothingNew
    BY <1>1, <1>5, <2>1 DEF NothingNew, CallbackThrows, CallbackAnswers, Pass, PayerState
  <2> QED BY <1>1, <2>1, <2>2, <2>3, NothingAsked
<1>6. ASSUME NEW c \in Payers, CommitAllowedSpend(c) PROVE GrantsInv'
  <2>1. UNCHANGED moved /\ payer[c].at = "commit" /\ Pass(c, "over")
        /\ payer[c].receipt \in DOMAIN pending /\ pending[payer[c].receipt] = c
    BY <1>1, <1>6 DEF CommitAllowedSpend, Reached, Tells
  <2>2. reservation' = [reservation EXCEPT ![c] = "committed"] /\ c \in GrantedCalls
    BY <1>1, <1>6, <2>1 DEF CommitAllowedSpend, OwnReceipt, Tells, GrantedCalls
  <2>3. GrantedCalls' = GrantedCalls
    BY <1>1, <2>2 DEF GrantedCalls
  <2>4. NothingNew
    BY <1>1, <2>1 DEF NothingNew, Pass, PayerState
  <2> QED BY <1>1, <2>1, <2>3, <2>4, NothingAsked
<1>7. ASSUME NEW c \in Payers, ReleaseReservation(c) PROVE GrantsInv'
  <2>1. UNCHANGED moved /\ payer[c].at = "release" /\ Pass(c, "over")
        /\ reservation' = [reservation EXCEPT ![c] = "released"] /\ c \notin moved
    BY <1>1, <1>7 DEF ReleaseReservation, Reached, Tells
  <2>2. GrantedCalls' = GrantedCalls \ {c}
    BY <1>1, <2>1 DEF GrantedCalls
  <2>3. NothingNew
    BY <1>1, <2>1 DEF NothingNew, Pass, PayerState
  <2> QED BY <1>1, <2>1, <2>2, <2>3, NothingAsked
<1>8. ASSUME UNCHANGED <<reservation, payer, moved>> PROVE GrantsInv'
  BY <1>1, <1>8, NothingAsked DEF GrantedCalls, NothingNew
<1>9. ASSUME NEW n \in DOMAIN ledger, Settlement(n) PROVE GrantsInv'
  BY <1>8, <1>9 DEF Settlement
<1>10. ASSUME NEW fingerprint \in claims, ExpireClaim(fingerprint) PROVE GrantsInv'
  BY <1>8, <1>10 DEF ExpireClaim
<1>11. CASE UNCHANGED guardVars
  BY <1>8, <1>11 DEF guardVars
<1> QED
  BY <1>2, <1>3, <1>4, <1>5, <1>6, <1>7, <1>9, <1>10, <1>11 DEF GuardNext

\* What moves money stays within the agent's budget (middleware index.ts:70),
\* for any number of calls of any amounts, whichever of them pay twice, are
\* refused, or throw after they paid.
THEOREM BudgetBoundsPayments == GuardSpec => []PaidWithinBudget
<1>1. GuardInv /\ GrantsInv => PaidWithinBudget
  <2> SUFFICES ASSUME GuardInv, GrantsInv PROVE PaidWithinBudget
    OBVIOUS
  <2>1. IsFiniteSet(GrantedCalls) /\ \A c \in GrantedCalls : AmountAsked[c] \in Nat
    BY GrantedPriced DEF GrantsInv
  <2>2. PICK m \in Nat : m = SumFunctionOnSet(AmountAsked, moved)
    <3>1. moved \in SUBSET GrantedCalls
      BY DEF GrantsInv
    <3>2. IsFiniteSet(moved)
      BY <2>1, <3>1, FS_Subset
    <3> QED BY <2>1, <3>1, <3>2, SumNatural
  <2>3. PICK n \in Nat : n = SumFunctionOnSet(AmountAsked, GrantedCalls)
    BY <2>1, SumNatural
  <2>4. m <= n
    BY <2>1, <2>2, <2>3, SumMonotone DEF GrantsInv
  <2>5. n <= Budget
    BY <2>3 DEF GrantsInv, Total
  <2> QED BY <2>2, <2>4, <2>5, GuardAssumption DEF PaidWithinBudget, Total
<1>2. GuardInit => GuardInv /\ GrantsInv
  BY GuardStarts, GrantsStart
<1>3. GuardInv /\ GrantsInv /\ [GuardNext]_guardVars => (GuardInv /\ GrantsInv)'
  BY GuardStep, GrantsStep
<1> QED BY <1>1, <1>2, <1>3, PTL DEF GuardSpec

------------------------------------------------------------------------------
(***************************************************************************)
(* The limits in front of an execution, for any number of processes and    *)
(* organizations, every rate, and restarts as often as they happen.        *)
(***************************************************************************)

\* The positions of the executions that begin a window, and those inside it.
Within(h, n) == {k \in DOMAIN h : h[k] >= h[n] /\ h[k] < h[n] + Hour}
Capped(h) == \A n \in DOMAIN h : Cardinality(Within(h, n)) <= MaxPerHour

LimitsInv ==
    /\ instant \in Nat
    /\ history \in [Processes -> [Orgs -> Seq(Nat)]]
    /\ \A p \in Processes, o \in Orgs : Capped(history[p][o])

LEMMA NoHistory == <<>> \in Seq(Nat) /\ Capped(<<>>)
BY DEF Capped

LEMMA LimitsStart == LimitsInit => LimitsInv
BY NoHistory DEF LimitsInit, LimitsInv

\* One more execution, while fewer than MaxPerHour are younger than an hour:
\* a window that holds the new one holds nothing but those and itself.
LEMMA OneMoreFits ==
  ASSUME NEW h \in Seq(Nat), NEW t \in Nat, Capped(h),
         Cardinality({k \in DOMAIN h : t - h[k] < Hour}) < MaxPerHour
  PROVE  Append(h, t) \in Seq(Nat) /\ Capped(Append(h, t))
<1> DEFINE g == Append(h, t)
           last == Len(h) + 1
           recent == {k \in DOMAIN h : t - h[k] < Hour}
<1> USE LimitsAssumption
<1>1. g \in Seq(Nat) /\ Len(h) \in Nat /\ DOMAIN h = 1..Len(h) /\ DOMAIN g = 1..last /\ g[last] = t
      /\ \A k \in DOMAIN h : (g[k] = h[k] /\ h[k] \in Nat)
  OBVIOUS
<1>2. IsFiniteSet(recent) /\ last \notin recent /\ Cardinality(recent) \in Nat
  <2>1. IsFiniteSet(1..Len(h))
    BY <1>1, FS_Interval
  <2>2. IsFiniteSet(recent)
    BY <1>1, <2>1, FS_Subset
  <2> QED BY <1>1, <2>2, FS_CardinalityType
<1>3. IsFiniteSet(recent \cup {last}) /\ Cardinality(recent \cup {last}) <= MaxPerHour
  <2>1. Cardinality(recent) < MaxPerHour
    OBVIOUS
  <2> HIDE DEF recent, last
  <2>2. IsFiniteSet(recent \cup {last}) /\ Cardinality(recent \cup {last}) = Cardinality(recent) + 1
    BY <1>2, FS_AddElement
  <2> QED BY <1>2, <2>1, <2>2
<1>4. ASSUME NEW n \in DOMAIN g
      PROVE  Cardinality(Within(g, n)) <= MaxPerHour
  <2>1. CASE t < g[n] + Hour
    <3>1. Within(g, n) \subseteq recent \cup {last}
      BY <1>1, <2>1 DEF Within
    <3>2. Cardinality(Within(g, n)) <= Cardinality(recent \cup {last})
      BY <1>3, <3>1, FS_Subset
    <3>3. Cardinality(Within(g, n)) \in Nat /\ Cardinality(recent \cup {last}) \in Nat
      BY <1>3, <3>1, FS_Subset, FS_CardinalityType
    <3> QED BY <1>3, <3>2, <3>3
  <2>2. CASE t >= g[n] + Hour
    <3>1. n \in DOMAIN h /\ g[n] = h[n]
      BY <1>1, <2>2
    <3>2. Within(g, n) = Within(h, n)
      BY <1>1, <2>2, <3>1 DEF Within
    <3> QED BY <3>1, <3>2 DEF Capped
  <2> QED BY <1>1, <2>1, <2>2
<1> QED BY <1>1, <1>4 DEF Capped

LEMMA AllowedIsBelow ==
  ASSUME NEW p \in Processes, NEW o \in Orgs, NEW acknowledged \in BOOLEAN,
         Cardinality(Recent(p, o)) \in Nat, Violation(p, o, acknowledged) = "allowed"
  PROVE  Cardinality(Recent(p, o)) < MaxPerHour
BY LimitsAssumption DEF Violation

LEMMA LimitsStep == LimitsInv /\ [LimitsNext]_limitVars => LimitsInv'
<1> SUFFICES ASSUME LimitsInv, [LimitsNext]_limitVars PROVE LimitsInv'
  OBVIOUS
<1>0. instant \in Nat /\ history \in [Processes -> [Orgs -> Seq(Nat)]]
      /\ \A p \in Processes, o \in Orgs : Capped(history[p][o])
  BY DEF LimitsInv
<1>1. ASSUME NEW p \in Processes, NEW o \in Orgs, NEW acknowledged \in BOOLEAN,
             AssertExecutionAllowed(p, o, acknowledged)
      PROVE  LimitsInv'
  <2>1. instant' = instant
    BY <1>1 DEF AssertExecutionAllowed
  <2>2. CASE history' = history
    BY <1>0, <2>1, <2>2 DEF LimitsInv
  <2>3. CASE history' # history
    <3>1. Violation(p, o, acknowledged) = "allowed"
          /\ history' = [history EXCEPT ![p][o] = Append(@, instant)]
      BY <1>1, <2>3 DEF AssertExecutionAllowed
    <3> DEFINE h == history[p][o]
    <3>2. h \in Seq(Nat) /\ Capped(h) /\ Recent(p, o) = {k \in DOMAIN h : instant - h[k] < Hour}
      BY <1>0 DEF Recent
    <3>3. IsFiniteSet(DOMAIN h)
      <4>1. 0 \in Int /\ 1 \in Int /\ Len(h) \in Int /\ DOMAIN h = 1..Len(h)
        BY <3>2
      <4>2. IsFiniteSet(1..Len(h))
        BY <4>1, FS_Interval, Zenon
      <4> QED BY <4>1, <4>2
    <3>4. Cardinality(Recent(p, o)) \in Nat
      BY <3>2, <3>3, FS_Subset, FS_CardinalityType
    <3>5. Append(h, instant) \in Seq(Nat) /\ Capped(Append(h, instant))
      BY <1>0, <3>1, <3>2, <3>4, AllowedIsBelow, OneMoreFits
    <3> HIDE DEF h
    <3>6. history' = [history EXCEPT ![p] = [history[p] EXCEPT ![o] = Append(h, instant)]]
      BY <3>1 DEF h
    <3>7. history' \in [Processes -> [Orgs -> Seq(Nat)]]
      BY <1>0, <3>5, <3>6
    <3>8. ASSUME NEW q \in Processes, NEW r \in Orgs PROVE Capped(history'[q][r])
      BY <1>0, <3>5, <3>6
    <3> QED BY <1>0, <2>1, <3>7, <3>8 DEF LimitsInv, Capped, Within
  <2> QED BY <2>2, <2>3
<1>2. ASSUME NEW p \in Processes, Restart(p) PROVE LimitsInv'
  <2>1. instant' = instant /\ history' = [history EXCEPT ![p] = [o \in Orgs |-> <<>>]]
    BY <1>2 DEF Restart
  <2>2. history' \in [Processes -> [Orgs -> Seq(Nat)]]
    BY <1>0, <2>1, NoHistory
  <2>3. ASSUME NEW q \in Processes, NEW o \in Orgs PROVE Capped(history'[q][o])
    BY <1>0, <2>1, NoHistory
  <2> QED BY <1>0, <2>1, <2>2, <2>3 DEF LimitsInv, Capped, Within
<1>3. ASSUME Later PROVE LimitsInv'
  BY <1>0, <1>3 DEF Later, LimitsInv
<1>4. ASSUME UNCHANGED limitVars PROVE LimitsInv'
  BY <1>0, <1>4 DEF limitVars, LimitsInv
<1> QED BY <1>1, <1>2, <1>3, <1>4 DEF LimitsNext

\* Execution safety limits (executionSafety.ts:41): no process lets an
\* organization execute more often than the limit in any stretch of time
\* shorter than an hour, whatever the limit, the hour and the clock.
THEOREM RateIsCapped == LimitsSpec => []HourlyCap
<1>1. LimitsInv => HourlyCap
  BY DEF LimitsInv, HourlyCap, Capped, Within
<1> QED BY <1>1, LimitsStart, LimitsStep, PTL DEF LimitsSpec

------------------------------------------------------------------------------
(*****************************************************************************)
(* The web session, for any number of tabs, calls and tokens.                *)
(*****************************************************************************)

FlightState == [at: {"none", "asked", "answered", "stuck"}, token: Nat, answer: Nat]
FetchState ==
    [at: {"idle", "early", "send", "sent", "late", "resend", "resent"}, tab: SUBSET Tabs,
     token: Nat, status: {0, 401, 500}]

SessionTyped ==
    /\ session \in Nat /\ issued \in Nat /\ session <= issued
    /\ flight \in [Tabs -> FlightState]
    /\ fetching \in [ApiCalls -> FetchState] /\ \A c \in ApiCalls : fetching[c].token <= issued

\* An answer on its way is a pair that was issued for this refresh: it is not
\* stored yet, no call carries it, and no other tab waits for it.
AnswersAreNew ==
    \A t \in Tabs : flight[t].answer # 0 =>
        /\ flight[t].answer <= issued /\ flight[t].answer # session
        /\ \A c \in ApiCalls : fetching[c].token # flight[t].answer
        /\ \A u \in Tabs \ {t} : flight[u].answer # flight[t].answer

\* The token a call was refused with is no longer stored when it is sent again.
RefusedIsGone ==
    \A c \in ApiCalls : fetching[c].at = "resend" /\ fetching[c].token # 0 => fetching[c].token # session

SessionInv == SessionTyped /\ AnswersAreNew /\ RefusedIsGone

LEMMA AuthStarts == AuthInit => SessionInv
BY DEF AuthInit, SessionInv, SessionTyped, AnswersAreNew, RefusedIsGone, FlightState, FetchState,
       NoFlight, NoFetch
-----------------------------------------------------------------------------
\* A step that stores nothing but a pair issued in it, brings no answer on its
\* way and sends no call, or sends none again.
LEMMA QuietStep ==
  ASSUME SessionInv,
         flight' \in [Tabs -> FlightState], fetching' \in [ApiCalls -> FetchState],
         \/ issued' = issued /\ session' \in {0, session}
         \/ issued' = issued + 1 /\ session' \in {0, session, issued + 1},
         \A t \in Tabs : flight'[t].answer \in {0, flight[t].answer},
         \A c \in ApiCalls : fetching'[c].token \in {0, fetching[c].token}
                             /\ (fetching'[c].at = "resend" => fetching[c].at = "resend")
  PROVE  SessionInv'
<1>1. issued' \in Nat /\ issued <= issued' /\ session' \in Nat /\ session' <= issued'
  BY DEF SessionInv, SessionTyped
<1>2. \A c \in ApiCalls : fetching'[c].token <= issued'
  BY <1>1 DEF SessionInv, SessionTyped, FetchState
<1>3. SessionTyped'
  BY <1>1, <1>2 DEF SessionTyped
<1>4. AnswersAreNew'
  <2> SUFFICES ASSUME NEW t \in Tabs, flight'[t].answer # 0
               PROVE  /\ flight'[t].answer <= issued' /\ flight'[t].answer # session'
                      /\ \A c \in ApiCalls : fetching'[c].token # flight'[t].answer
                      /\ \A u \in Tabs \ {t} : flight'[u].answer # flight'[t].answer
    BY DEF AnswersAreNew
  <2>1. flight'[t].answer = flight[t].answer /\ flight[t].answer \in Nat /\ flight[t].answer # 0
    BY DEF SessionInv, SessionTyped, FlightState
  <2>2. flight[t].answer <= issued /\ flight[t].answer # session
    BY <2>1 DEF SessionInv, AnswersAreNew
  <2>3. flight[t].answer <= issued' /\ flight[t].answer # session'
    BY <1>1, <2>1, <2>2 DEF SessionInv, SessionTyped
  <2>4. \A c \in ApiCalls : fetching'[c].token # flight[t].answer
    BY <2>1 DEF SessionInv, AnswersAreNew
  <2>5. \A u \in Tabs \ {t} : flight'[u].answer # flight[t].answer
    BY <2>1 DEF SessionInv, AnswersAreNew
  <2> QED
    BY <2>1, <2>3, <2>4, <2>5
<1>5. RefusedIsGone'
  <2> SUFFICES ASSUME NEW c \in ApiCalls, fetching'[c].at = "resend", fetching'[c].token # 0
               PROVE  fetching'[c].token # session'
    BY DEF RefusedIsGone
  <2>1. fetching'[c].token = fetching[c].token /\ fetching[c].at = "resend"
    OBVIOUS
  <2>2. fetching[c].token # session /\ fetching[c].token <= issued /\ fetching[c].token \in Nat
    BY <2>1 DEF SessionInv, RefusedIsGone, SessionTyped, FetchState
  <2> QED
    BY <2>1, <2>2 DEF SessionInv, SessionTyped
<1> QED
  BY <1>3, <1>4, <1>5 DEF SessionInv

LEMMA SameFlights ==
  ASSUME SessionInv, flight' = flight
  PROVE  flight' \in [Tabs -> FlightState] /\ \A t \in Tabs : flight'[t].answer \in {0, flight[t].answer}
BY DEF SessionInv, SessionTyped

LEMMA SameCalls ==
  ASSUME SessionInv, fetching' = fetching
  PROVE  /\ fetching' \in [ApiCalls -> FetchState]
         /\ \A c \in ApiCalls : fetching'[c].token \in {0, fetching[c].token}
                                /\ (fetching'[c].at = "resend" => fetching[c].at = "resend")
BY DEF SessionInv, SessionTyped

\* A refresh that is asked for has no answer yet.
LEMMA FlightAsked ==
  ASSUME SessionInv, NEW t \in Tabs, AskRefresh(t)
  PROVE  flight' \in [Tabs -> FlightState] /\ \A u \in Tabs : flight'[u].answer \in {0, flight[u].answer}
<1>1. Asked(t) \in FlightState /\ Asked(t).answer \in {0, flight[t].answer}
  BY DEF Asked, Stuck, NoFlight, FlightState, SessionInv, SessionTyped
<1>2. flight' = [flight EXCEPT ![t] = Asked(t)]
  BY DEF AskRefresh
<1> QED
  BY <1>1, <1>2 DEF SessionInv, SessionTyped

LEMMA TabLeft ==
  ASSUME SessionInv, NEW t \in Tabs, Leave(t)
  PROVE  /\ flight' \in [Tabs -> FlightState] /\ \A u \in Tabs : flight'[u].answer \in {0, flight[u].answer}
         /\ fetching' \in [ApiCalls -> FetchState]
         /\ \A c \in ApiCalls : fetching'[c].token \in {0, fetching[c].token}
                                /\ (fetching'[c].at = "resend" => fetching[c].at = "resend")
BY DEF Leave, SessionInv, SessionTyped, NoFlight, NoFetch, FlightState, FetchState

\* One call moves and keeps its token, or is over.
LEMMA CallMoved ==
  ASSUME SessionInv, NEW c \in ApiCalls, NEW f \in FetchState, fetching' = [fetching EXCEPT ![c] = f],
         f.token \in {0, fetching[c].token}, f.at # "resend"
  PROVE  /\ fetching' \in [ApiCalls -> FetchState]
         /\ \A d \in ApiCalls : fetching'[d].token \in {0, fetching[d].token}
                                /\ (fetching'[d].at = "resend" => fetching[d].at = "resend")
BY DEF SessionInv, SessionTyped
-----------------------------------------------------------------------------
(* Signing in and out, tokens that expire, tabs that leave.                *)

LEMMA SignInKeeps ==
  ASSUME SessionInv, Issue({}), Admit, UNCHANGED <<flight, fetching>>
  PROVE  SessionInv'
<1>1. issued' = issued + 1 /\ session' \in {session, issued + 1}
  BY DEF Issue, Admit, PersistSession, SetAuthSession
<1> QED
  BY <1>1, QuietStep, SameFlights, SameCalls

LEMMA OutsideKeeps ==
  ASSUME SessionInv,
         \/ \E n \in Pair : Expire(n) \/ Bind(n)
         \/ PasswordSignIn \/ SignOut
         \/ \E t \in Tabs : GoToGoogle(t) \/ Callback(t) \/ Reload(t)
  PROVE  SessionInv'
<1>1. CASE \E n \in Pair : Expire(n)
  <2>1. UNCHANGED <<session, issued, flight, fetching>>
    BY <1>1 DEF Expire, workosVars
  <2> QED
    BY <2>1, QuietStep, SameFlights, SameCalls
<1>2. CASE \E n \in Pair : Bind(n)
  <2>1. UNCHANGED <<session, flight, fetching>> /\ issued' \in {issued, issued + 1}
    BY <1>2 DEF Bind, Issue
  <2> QED
    BY <2>1, QuietStep, SameFlights, SameCalls
<1>3. CASE PasswordSignIn
  BY <1>3, SignInKeeps DEF PasswordSignIn, AuthenticatePassword, Authenticated
<1>4. CASE SignOut
  <2>1. UNCHANGED <<issued, flight, fetching>> /\ session' = 0
    BY <1>4 DEF SignOut, SetAuthSession, workosVars
  <2> QED
    BY <2>1, QuietStep, SameFlights, SameCalls
<1>5. ASSUME NEW t \in Tabs, GoToGoogle(t) \/ Reload(t) PROVE SessionInv'
  <2>1. Leave(t) /\ UNCHANGED <<session, issued>>
    BY <1>5 DEF GoToGoogle, Reload, workosVars
  <2> QED
    BY <2>1, TabLeft, QuietStep
<1>6. ASSUME NEW t \in Tabs, Callback(t) PROVE SessionInv'
  <2>1. CASE Exchange
    BY <1>6, <2>1, SignInKeeps DEF Callback, Exchange, ExchangeCode, Authenticated
  <2>2. CASE UNCHANGED <<session, workosVars>>
    <3>1. UNCHANGED <<session, issued, flight, fetching>>
      BY <1>6, <2>2 DEF Callback, workosVars
    <3> QED
      BY <3>1, QuietStep, SameFlights, SameCalls
  <2> QED
    BY <1>6, <2>1, <2>2 DEF Callback
<1> QED
  BY <1>1, <1>2, <1>3, <1>4, <1>5, <1>6
-----------------------------------------------------------------------------
(* Refreshing.                                                             *)

LEMMA RefreshedCall ==
  ASSUME NEW x \in FetchState, NEW ok \in BOOLEAN
  PROVE  /\ AfterRefresh(x, ok) \in FetchState /\ AfterRefresh(x, ok).token \in {0, x.token}
         /\ ~ok => AfterRefresh(x, ok).at # "resend"
<1>1. CASE x.at = "early"
  BY <1>1 DEF AfterRefresh, FetchState
<1>2. CASE x.at # "early" /\ ok
  BY <1>2 DEF AfterRefresh, FetchState
<1>3. CASE x.at # "early" /\ ~ok
  BY <1>3 DEF AfterRefresh, NoFetch, FetchState
<1> QED
  BY <1>1, <1>2, <1>3

LEMMA BackendKeeps ==
  ASSUME SessionInv, NEW t \in Tabs, BackendRefresh(t)
  PROVE  SessionInv'
<1> DEFINE dropped == [flight[t] EXCEPT !.at = "answered"]
           brought == [at |-> "answered", token |-> flight[t].token, answer |-> issued + 1]
<1>1. fetching' = fetching /\ session' = session /\ flight[t] \in FlightState /\ issued \in Nat
  BY DEF BackendRefresh, SessionInv, SessionTyped
<1>2. dropped \in FlightState /\ dropped.answer = flight[t].answer
      /\ brought \in FlightState /\ brought.answer = issued + 1
  <2>1. \A x \in FlightState : [x EXCEPT !.at = "answered"] \in FlightState /\ [x EXCEPT !.at = "answered"].answer = x.answer
    BY DEF FlightState
  <2>2. brought \in FlightState /\ brought.answer = issued + 1
    BY <1>1 DEF FlightState
  <2> QED
    BY <1>1, <2>1, <2>2
<1>3. \/ issued' \in {issued, issued + 1} /\ flight' = [flight EXCEPT ![t] = dropped]
      \/ issued' = issued + 1 /\ flight' = [flight EXCEPT ![t] = brought]
  BY DEF BackendRefresh, Issue, workosVars
<1>4. CASE issued' \in {issued, issued + 1} /\ flight' = [flight EXCEPT ![t] = dropped]
  <2>1. flight' \in [Tabs -> FlightState] /\ \A u \in Tabs : flight'[u].answer \in {0, flight[u].answer}
    BY <1>2, <1>4 DEF SessionInv, SessionTyped
  <2> QED
    BY <1>1, <1>4, <2>1, QuietStep, SameCalls
<1>5. CASE issued' = issued + 1 /\ flight' = [flight EXCEPT ![t] = brought]
  <2>1. flight' \in [Tabs -> FlightState] /\ flight'[t].answer = issued + 1
        /\ \A u \in Tabs \ {t} : flight'[u] = flight[u]
    BY <1>2, <1>5 DEF SessionInv, SessionTyped
  <2>2. session <= issued /\ session \in Nat
        /\ \A c \in ApiCalls : fetching[c].token <= issued /\ fetching[c].token \in Nat
    BY DEF SessionInv, SessionTyped, FetchState
  <2>3. \A u \in Tabs \ {t} : flight[u].answer # 0 => flight[u].answer <= issued /\ flight[u].answer \in Nat
    BY DEF SessionInv, SessionTyped, FlightState, AnswersAreNew
  <2>4. SessionTyped'
    BY <1>1, <1>5, <2>1, <2>2 DEF SessionInv, SessionTyped
  <2>5. \A u \in Tabs \ {t} : flight'[u].answer # issued + 1
    BY <1>1, <2>1, <2>3
  <2>6. AnswersAreNew'
    <3> SUFFICES ASSUME NEW u \in Tabs, flight'[u].answer # 0
                 PROVE  /\ flight'[u].answer <= issued' /\ flight'[u].answer # session'
                        /\ \A c \in ApiCalls : fetching'[c].token # flight'[u].answer
                        /\ \A v \in Tabs \ {u} : flight'[v].answer # flight'[u].answer
      BY DEF AnswersAreNew
    <3>1. CASE u = t
      BY <1>1, <1>5, <2>1, <2>2, <2>5, <3>1
    <3>2. CASE u # t
      <4>1. flight'[u] = flight[u] /\ flight[u].answer <= issued /\ flight[u].answer \in Nat
        BY <2>1, <2>3, <3>2
      <4>2. /\ flight[u].answer # session /\ \A c \in ApiCalls : fetching[c].token # flight[u].answer
            /\ \A v \in Tabs \ {u} : flight[v].answer # flight[u].answer
        BY <4>1 DEF SessionInv, AnswersAreNew
      <4> QED
        <5>1. flight'[u].answer = flight[u].answer /\ flight[u].answer <= issued'
          BY <1>1, <1>5, <4>1
        <5>2. \A v \in Tabs \ {u} : flight'[v].answer # flight[u].answer
          <6>1. flight'[t].answer # flight[u].answer
            BY <1>1, <2>1, <4>1
          <6> QED
            BY <2>1, <4>2, <6>1
        <5> QED
          BY <1>1, <4>2, <5>1, <5>2
    <3> QED
      BY <3>1, <3>2
  <2>7. RefusedIsGone'
    BY <1>1 DEF SessionInv, RefusedIsGone
  <2> QED
    BY <2>4, <2>6, <2>7 DEF SessionInv
<1> QED
  BY <1>3, <1>4, <1>5

\* The answer is stored and its flight is over; the calls that waited carry
\* older tokens.
LEMMA EndKeeps ==
  ASSUME SessionInv, NEW t \in Tabs, EndRefresh(t)
  PROVE  SessionInv'
<1> DEFINE answer == flight[t].answer
<1>1. /\ issued' = issued /\ flight' = [flight EXCEPT ![t] = NoFlight]
      /\ IF answer # 0 THEN session' = answer ELSE session' \in {0, session}
  BY DEF EndRefresh, SetAuthSession, workosVars
<1>2. \A c \in ApiCalls :
         fetching'[c] = IF c \in Waiting(t) THEN AfterRefresh(fetching[c], answer # 0) ELSE fetching[c]
  BY DEF EndRefresh, SetAuthSession
<1>3. \A c \in ApiCalls :
         /\ fetching'[c] \in FetchState /\ fetching'[c].token \in {0, fetching[c].token}
         /\ answer = 0 /\ fetching'[c].at = "resend" => fetching[c].at = "resend"
  <2> SUFFICES ASSUME NEW c \in ApiCalls
               PROVE  /\ fetching'[c] \in FetchState /\ fetching'[c].token \in {0, fetching[c].token}
                      /\ answer = 0 /\ fetching'[c].at = "resend" => fetching[c].at = "resend"
    OBVIOUS
  <2>1. fetching[c] \in FetchState
    BY DEF SessionInv, SessionTyped
  <2> QED
    BY <1>2, <2>1, RefreshedCall
<1>4. fetching' \in [ApiCalls -> FetchState]
  <2>1. fetching' = [c \in ApiCalls |-> fetching'[c]]
    BY DEF EndRefresh, SetAuthSession
  <2> QED
    BY <1>3, <2>1
<1>5. NoFlight \in FlightState /\ NoFlight.answer = 0
  BY DEF NoFlight, FlightState
<1>6. flight' \in [Tabs -> FlightState] /\ flight'[t].answer = 0
      /\ \A u \in Tabs \ {t} : flight'[u] = flight[u]
  BY <1>1, <1>5 DEF SessionInv, SessionTyped
<1>7. CASE answer = 0
  BY <1>1, <1>3, <1>4, <1>6, <1>7, QuietStep
<1>8. CASE answer # 0
  <2>1. /\ answer <= issued /\ answer \in Nat /\ session' = answer
        /\ \A c \in ApiCalls : fetching[c].token # answer
        /\ \A u \in Tabs \ {t} : flight[u].answer # answer
    BY <1>1, <1>8 DEF SessionInv, SessionTyped, FlightState, AnswersAreNew
  <2>2. SessionTyped'
    BY <1>1, <1>3, <1>4, <1>6, <2>1 DEF SessionInv, SessionTyped
  <2>3. AnswersAreNew'
    <3> SUFFICES ASSUME NEW u \in Tabs, flight'[u].answer # 0
                 PROVE  /\ flight'[u].answer <= issued' /\ flight'[u].answer # session'
                        /\ \A c \in ApiCalls : fetching'[c].token # flight'[u].answer
                        /\ \A v \in Tabs \ {u} : flight'[v].answer # flight'[u].answer
      BY DEF AnswersAreNew
    <3>1. u # t /\ flight'[u] = flight[u]
      BY <1>6
    <3>2. /\ flight[u].answer <= issued
          /\ \A c \in ApiCalls : fetching[c].token # flight[u].answer
          /\ \A v \in Tabs \ {u} : flight[v].answer # flight[u].answer
      BY <3>1 DEF SessionInv, AnswersAreNew
    <3>3. \A v \in Tabs \ {u} : flight'[v].answer # flight[u].answer
      BY <1>6, <3>1, <3>2
    <3> QED
      BY <1>1, <1>3, <2>1, <3>1, <3>2, <3>3
  <2>4. RefusedIsGone'
    BY <1>3, <2>1 DEF RefusedIsGone
  <2> QED
    BY <2>2, <2>3, <2>4 DEF SessionInv
<1> QED
  BY <1>7, <1>8
-----------------------------------------------------------------------------
(* Calls.                                                                  *)

LEMMA SendKeeps ==
  ASSUME SessionInv, NEW c \in ApiCalls, SendCall(c)
  PROVE  SessionInv'
<1>1. UNCHANGED <<session, issued, flight>>
  BY DEF SendCall, workosVars
<1>2. fetching' \in [ApiCalls -> FetchState] /\ fetching'[c].token = session /\ fetching'[c].at # "resend"
      /\ \A d \in ApiCalls \ {c} : fetching'[d] = fetching[d]
  BY DEF SendCall, TokenStored, SessionInv, SessionTyped, FetchState
<1>3. SessionTyped'
  BY <1>1, <1>2 DEF SessionInv, SessionTyped
<1>4. AnswersAreNew'
  BY <1>1, <1>2 DEF SessionInv, AnswersAreNew
<1>5. RefusedIsGone'
  BY <1>1, <1>2 DEF SessionInv, RefusedIsGone
<1> QED
  BY <1>3, <1>4, <1>5 DEF SessionInv

LEMMA CallKeeps ==
  ASSUME SessionInv, NEW c \in ApiCalls,
         \/ \E t \in Tabs : BeginCall(c, t) \/ \E status \in {401, 500} : Refused(c, t, status)
         \/ Answered(c)
         \/ \E status \in {401, 500} : RefusedAgain(c, status)
  PROVE  SessionInv'
<1>0. fetching[c] \in FetchState /\ NoFetch \in FetchState /\ NoFetch.token \in {0, fetching[c].token} /\ NoFetch.at # "resend"
  BY DEF SessionInv, SessionTyped, NoFetch, FetchState
<1>1. ASSUME NEW t \in Tabs, BeginCall(c, t) PROVE SessionInv'
  <2> DEFINE at == IF age[session] # "fresh" /\ flight[t] # Stuck THEN "early" ELSE "send"
             f == [at |-> at, tab |-> {t}, token |-> 0, status |-> 0]
  <2>1. at \in {"early", "send"}
    OBVIOUS
  <2>2. f \in FetchState /\ f.token \in {0, fetching[c].token} /\ f.at # "resend"
    <3> HIDE DEF at
    <3> QED
      BY <2>1 DEF FetchState
  <2>3. fetching' = [fetching EXCEPT ![c] = f] /\ UNCHANGED <<session, issued>>
        /\ (AskRefresh(t) \/ flight' = flight)
    BY <1>1 DEF BeginCall, workosVars
  <2> HIDE DEF f
  <2>4. /\ fetching' \in [ApiCalls -> FetchState]
        /\ \A d \in ApiCalls : fetching'[d].token \in {0, fetching[d].token}
                               /\ (fetching'[d].at = "resend" => fetching[d].at = "resend")
    BY <2>2, <2>3 DEF SessionInv, SessionTyped
  <2>5. flight' \in [Tabs -> FlightState] /\ \A u \in Tabs : flight'[u].answer \in {0, flight[u].answer}
    BY <2>3, FlightAsked, SameFlights
  <2> QED
    BY <2>3, <2>4, <2>5, QuietStep
<1>2. ASSUME NEW t \in Tabs, NEW status \in {401, 500}, Refused(c, t, status) PROVE SessionInv'
  <2> DEFINE f == [at |-> "late", tab |-> {t}, token |-> fetching[c].token, status |-> status]
  <2>1. f \in FetchState /\ f.token = fetching[c].token /\ f.at # "resend"
    BY <1>0 DEF FetchState
  <2>2. /\ fetching' = [fetching EXCEPT ![c] = f] \/ fetching' = [fetching EXCEPT ![c] = NoFetch]
        /\ AskRefresh(t) /\ issued' = issued /\ session' \in {0, session}
    BY <1>2 DEF Refused, workosVars
  <2> HIDE DEF f
  <2> QED
    BY <1>0, <2>1, <2>2, CallMoved, FlightAsked, QuietStep
<1>3. CASE Answered(c) \/ \E status \in {401, 500} : RefusedAgain(c, status)
  <2>1. /\ fetching' = [fetching EXCEPT ![c] = NoFetch]
        /\ UNCHANGED <<issued, flight>> /\ session' \in {0, session}
    BY <1>3 DEF Answered, RefusedAgain, workosVars
  <2>2. /\ fetching' \in [ApiCalls -> FetchState]
        /\ \A d \in ApiCalls : fetching'[d].token \in {0, fetching[d].token}
                               /\ (fetching'[d].at = "resend" => fetching[d].at = "resend")
    BY <1>0, <2>1 DEF SessionInv, SessionTyped
  <2> QED
    BY <2>1, <2>2, SameFlights, QuietStep
<1> QED
  BY <1>1, <1>2, <1>3

LEMMA AuthStep == SessionInv /\ [AuthNext]_authVars => SessionInv'
<1> SUFFICES ASSUME SessionInv, [AuthNext]_authVars PROVE SessionInv'
  OBVIOUS
<1>1. CASE UNCHANGED authVars
  BY <1>1, QuietStep, SameFlights, SameCalls DEF authVars, workosVars
<1>2. CASE AuthNext
  BY <1>2, OutsideKeeps, BackendKeeps, EndKeeps, SendKeeps, CallKeeps DEF AuthNext
<1> QED
  BY <1>1, <1>2

\* Only SendCall sends a call, with the pair that is stored.
LEMMA SentAgain ==
  ASSUME SessionInv, [AuthNext]_authVars, NEW c \in ApiCalls,
         fetching[c].at = "resend", fetching'[c].at = "resent"
  PROVE  fetching'[c].token = session
<1>0. fetching \in [ApiCalls -> FetchState]
  BY DEF SessionInv, SessionTyped
<1>1. ASSUME NEW d \in ApiCalls, SendCall(d) PROVE fetching'[c].token = session
  <2>1. d = c
    BY <1>0, <1>1 DEF SendCall
  <2> QED
    BY <1>0, <1>1, <2>1 DEF SendCall, TokenStored, FetchState
<1>2. CASE fetching' = fetching
  BY <1>2
<1>3. ASSUME NEW t \in Tabs, Leave(t) PROVE FALSE
  BY <1>3 DEF Leave, NoFetch
<1>4. ASSUME NEW t \in Tabs, EndRefresh(t) PROVE FALSE
  BY <1>0, <1>4 DEF EndRefresh, SetAuthSession, Waiting
<1>5. ASSUME NEW d \in ApiCalls, NEW f \in FetchState, f.at \in {"idle", "early", "send", "late"},
             fetching' = [fetching EXCEPT ![d] = f]
      PROVE  FALSE
  BY <1>0, <1>5
<1>6. ASSUME NEW d \in ApiCalls, NEW t \in Tabs, BeginCall(d, t) PROVE FALSE
  BY <1>0, <1>6 DEF BeginCall, FetchState
<1>7. ASSUME NEW d \in ApiCalls, NEW t \in Tabs, NEW status \in {401, 500}, Refused(d, t, status) PROVE FALSE
  BY <1>0, <1>7 DEF Refused, NoFetch, FetchState
<1>8. ASSUME NEW d \in ApiCalls, Answered(d) \/ \E status \in {401, 500} : RefusedAgain(d, status) PROVE FALSE
  BY <1>0, <1>8 DEF Answered, RefusedAgain, NoFetch
<1>9. CASE \/ \E n \in Pair : Expire(n) \/ Bind(n)
           \/ PasswordSignIn \/ SignOut \/ UNCHANGED authVars
           \/ \E t \in Tabs : Callback(t) \/ BackendRefresh(t)
  BY <1>2, <1>9 DEF Expire, Bind, PasswordSignIn, SignOut, Callback, BackendRefresh, authVars
<1> QED
  BY <1>1, <1>3, <1>4, <1>6, <1>7, <1>8, <1>9 DEF AuthNext, GoToGoogle, Reload

\* The second try of a call never carries the token the first was refused
\* with, whatever tabs and calls do to the session meanwhile (api.ts:121).
THEOREM RetryIsNew == AuthSpec => RetryCarriesNewToken
<1>1. SessionInv /\ [AuthNext]_authVars =>
        [\A c \in ApiCalls :
           fetching[c].at = "resend" /\ fetching'[c].at = "resent"
             /\ fetching[c].status = 401 /\ fetching[c].token # 0
             => fetching'[c].token # fetching[c].token]_authVars
  BY SentAgain DEF SessionInv, RefusedIsGone
<1> QED
  BY AuthStarts, AuthStep, <1>1, PTL DEF AuthSpec, RetryCarriesNewToken

------------------------------------------------------------------------------
(*****************************************************************************)
(* The types of all the parts.  What the invariants above say of a part      *)
(* leaves its bounds out and what no property of it turns on: a shape each,  *)
(* preserved beside the invariant, completes it to the type invariant.       *)
(*****************************************************************************)

FactsShape == head <= MaxHead /\ branches <= MaxBranches

LEMMA FactsShapeStarts == FactsInit => FactsShape
BY FactsAssumption DEF FactsInit, FactsShape

LEMMA FactsShapeKept == FactsInv /\ FactsShape /\ [FactsNext]_factsVars => FactsShape'
<1> SUFFICES ASSUME FactsInv, FactsShape, [FactsNext]_factsVars PROVE FactsShape'
  OBVIOUS
<1>0. head \in Nat /\ branches \in Nat /\ head <= MaxHead /\ branches <= MaxBranches
  BY DEF FactsInv, ReadersTyped, FactsShape
<1>1. CASE Mine
  BY <1>0, <1>1, FactsAssumption DEF Mine, FactsShape
<1>2. CASE \E b \in 1..MaxHead : Reorganize(b)
  BY <1>0, <1>2, FactsAssumption DEF Reorganize, FactsShape
<1>3. CASE UNCHANGED <<head, branches>>
  BY <1>3 DEF FactsShape
<1>4. \A r \in Readers :
         /\ \A need \in Depths, expects \in Expectation :
              /\ VerifyLiveSettlement(r, need, expects) => UNCHANGED <<head, branches>>
              /\ VerifyEvmChainTx(r, need, expects) => UNCHANGED <<head, branches>>
              /\ \A urls \in 1..2 : FetchSettlementFromTx(r, need, expects, urls) => UNCHANGED <<head, branches>>
         /\ GetEvmChainThrows(r) \/ ReadReceipt(r) \/ Fails(r) => UNCHANGED <<head, branches>>
         /\ \A seen \in 0..MaxHead : ReadLatest(r, seen) => UNCHANGED <<head, branches>>
  BY DEF VerifyLiveSettlement, VerifyEvmChainTx, FetchSettlementFromTx, Verify, GetEvmChainThrows,
         ReadReceipt, Fails, ReadLatest
<1> QED
  BY <1>1, <1>2, <1>3, <1>4 DEF FactsNext, factsVars

LEMMA FactsTypes == FactsInv /\ FactsShape => FactsTypeOK
<1> SUFFICES ASSUME FactsInv, FactsShape PROVE FactsTypeOK
  OBVIOUS
<1>1. head \in 0..MaxHead /\ branches \in 0..MaxBranches /\ mined.at \in 0..head /\ mined.logs \subseteq Log
  BY FactsAssumption DEF FactsInv, ReadersTyped, FactsShape, ChainTransaction
<1>2. \A r \in Readers : reader[r] \in ReaderState
  BY DEF FactsInv, ReadersTyped
<1> QED
  BY <1>1, <1>2 DEF FactsTypeOK, ReaderState
-----------------------------------------------------------------------------
LimitsShape ==
    /\ instant <= LastTick /\ restarts \in 0..MaxRestarts
    /\ settings \in [Processes -> Settings]
    /\ answered \in [Processes -> [Orgs -> Answer]]
    /\ \A p \in Processes, o \in Orgs : \A n \in DOMAIN history[p][o] : history[p][o][n] <= instant

LEMMA LimitsShapeStarts == LimitsInit => LimitsShape
BY LimitsAssumption DEF LimitsInit, LimitsShape, Answer

LEMMA AssertKeepsShape ==
  ASSUME LimitsInv, LimitsShape, NEW p \in Processes, NEW o \in Orgs, NEW acknowledged \in BOOLEAN,
         AssertExecutionAllowed(p, o, acknowledged)
  PROVE  LimitsShape'
<1> DEFINE answer == Violation(p, o, acknowledged)
<1>0. instant \in Nat /\ history \in [Processes -> [Orgs -> Seq(Nat)]]
  BY DEF LimitsInv
<1>1. answer \in Answer
  BY DEF Violation, Answer
<1>2. /\ answered' = [answered EXCEPT ![p][o] = answer]
      /\ history' = history \/ history' = [history EXCEPT ![p][o] = Append(@, instant)]
      /\ UNCHANGED <<instant, settings, restarts>>
  BY DEF AssertExecutionAllowed
<1> HIDE DEF answer
<1>3. answered' \in [Processes -> [Orgs -> Answer]]
  BY <1>1, <1>2 DEF LimitsShape
<1>4. ASSUME NEW q \in Processes, NEW r \in Orgs, NEW n \in DOMAIN history'[q][r]
      PROVE  history'[q][r][n] <= instant
  <2>1. history[q][r] \in Seq(Nat) /\ history[p][o] \in Seq(Nat)
    BY <1>0
  <2>2. \A k \in DOMAIN history[q][r] : history[q][r][k] <= instant
    BY DEF LimitsShape
  <2>3. history'[q][r] = history[q][r] \/ history'[q][r] = Append(history[q][r], instant)
    <3>1. CASE q = p /\ r = o
      BY <1>0, <1>2, <3>1
    <3>2. CASE ~(q = p /\ r = o)
      BY <1>0, <1>2, <3>2
    <3> QED BY <3>1, <3>2
  <2>4. CASE history'[q][r] = history[q][r]
    BY <2>2, <2>4
  <2>5. CASE history'[q][r] = Append(history[q][r], instant)
    <3>1. \A h \in Seq(Nat) : \A k \in DOMAIN Append(h, instant) :
             Append(h, instant)[k] = instant \/ (k \in DOMAIN h /\ Append(h, instant)[k] = h[k])
      BY <1>0
    <3> QED BY <1>0, <2>1, <2>2, <2>5, <3>1
  <2> QED BY <2>3, <2>4, <2>5
<1> QED BY <1>2, <1>3, <1>4 DEF LimitsShape

LEMMA RestartKeepsShape ==
  ASSUME LimitsInv, LimitsShape, NEW p \in Processes, Restart(p)
  PROVE  LimitsShape'
<1>0. history \in [Processes -> [Orgs -> Seq(Nat)]] /\ instant \in Nat
  BY DEF LimitsInv
<1>1. restarts' \in 0..MaxRestarts /\ instant' = instant
  BY LimitsAssumption DEF Restart, LimitsShape
<1>2. settings' \in [Processes -> Settings]
  <2>1. PICK s \in Settings : settings' = [settings EXCEPT ![p] = s]
    BY DEF Restart
  <2> QED BY <2>1 DEF LimitsShape
<1>3. answered' \in [Processes -> [Orgs -> Answer]]
  <2>1. [o \in Orgs |-> "none"] \in [Orgs -> Answer]
    BY DEF Answer
  <2> QED BY <2>1 DEF Restart, LimitsShape
<1>4. ASSUME NEW q \in Processes, NEW o \in Orgs, NEW n \in DOMAIN history'[q][o]
      PROVE  history'[q][o][n] <= instant
  BY <1>0, <1>4 DEF Restart, LimitsShape
<1> QED BY <1>1, <1>2, <1>3, <1>4 DEF LimitsShape

LEMMA LimitsShapeKept == LimitsInv /\ LimitsShape /\ [LimitsNext]_limitVars => LimitsShape'
<1> SUFFICES ASSUME LimitsInv, LimitsShape, [LimitsNext]_limitVars PROVE LimitsShape'
  OBVIOUS
<1>1. CASE Later
  <2>1. instant \in Nat /\ history \in [Processes -> [Orgs -> Seq(Nat)]]
    BY DEF LimitsInv
  <2>2. instant' <= LastTick /\ UNCHANGED <<settings, history, answered, restarts>> /\ instant <= instant'
    BY <1>1, <2>1, LimitsAssumption DEF Later, LimitsShape
  <2>3. ASSUME NEW p \in Processes, NEW o \in Orgs, NEW n \in DOMAIN history[p][o]
        PROVE  history[p][o][n] <= instant'
    <3>1. history[p][o][n] \in Nat /\ history[p][o][n] <= instant
      <4>1. history[p][o] \in Seq(Nat)
        BY <2>1
      <4> QED BY <4>1 DEF LimitsShape
    <3> QED BY <1>1, <2>1, <2>2, <3>1 DEF Later
  <2> QED BY <2>2, <2>3 DEF LimitsShape
<1>2. CASE UNCHANGED limitVars
  BY <1>2 DEF limitVars, LimitsShape
<1> QED BY <1>1, <1>2, AssertKeepsShape, RestartKeepsShape DEF LimitsNext

LEMMA LimitsTypes == LimitsInv /\ LimitsShape => LimitsTypeOK
<1> SUFFICES ASSUME LimitsInv, LimitsShape PROVE LimitsTypeOK
  OBVIOUS
<1>1. ASSUME NEW p \in Processes, NEW o \in Orgs
      PROVE  /\ \A n \in DOMAIN history[p][o] : history[p][o][n] \in 0..instant
             /\ answered[p][o] \in Answer
  <2>1. history[p][o] \in Seq(Nat) /\ instant \in Nat
    BY DEF LimitsInv
  <2> QED BY <2>1 DEF LimitsShape
<1> QED BY <1>1, LimitsAssumption DEF LimitsInv, LimitsShape, LimitsTypeOK
-----------------------------------------------------------------------------
SessionShape ==
    /\ issued <= MaxTokens
    /\ live \subseteq 1..issued /\ binding \subseteq 1..issued
    /\ away \subseteq Tabs /\ defaultOrg \in BOOLEAN
    /\ age \in [Pair -> {"fresh", "soon", "expired"}]
    /\ \A t \in Tabs : flight[t].token <= issued

LEMMA SessionShapeStarts == AuthInit => SessionShape
BY AuthAssumption DEF AuthInit, SessionShape, NoFlight

\* What a step may do to the pairs WorkOS issues and the backend binds.
PairsMoved ==
    \/ UNCHANGED workosVars
    \/ UNCHANGED <<issued, live>> /\ binding' \subseteq binding
    \/ /\ \E used \in SUBSET (1..issued) : Issue(used)
       /\ binding' \subseteq binding \cup {issued + 1}

\* Pairs are only issued, up to the bound, and flights carry what is stored.
LEMMA SessionGrows ==
  ASSUME SessionInv, SessionShape, PairsMoved,
         away' \subseteq Tabs, defaultOrg' = defaultOrg, age' \in [Pair -> {"fresh", "soon", "expired"}],
         \A t \in Tabs : flight'[t].token \in {0, session, flight[t].token}
  PROVE  SessionShape'
<1>0. issued \in Nat /\ session \in Nat /\ session <= issued /\ \A t \in Tabs : flight[t].token \in Nat
  BY DEF SessionInv, SessionTyped, FlightState
<1>1. /\ issued' \in {issued, issued + 1} /\ issued' <= MaxTokens
      /\ live' \subseteq 1..issued' /\ binding' \subseteq 1..issued'
  <2>1. CASE UNCHANGED workosVars
    BY <1>0, <2>1 DEF workosVars, SessionShape
  <2>2. CASE UNCHANGED <<issued, live>> /\ binding' \subseteq binding
    BY <1>0, <2>2 DEF SessionShape
  <2>3. CASE /\ \E used \in SUBSET (1..issued) : Issue(used)
             /\ binding' \subseteq binding \cup {issued + 1}
    <3>1. issued' = issued + 1 /\ issued < MaxTokens
          /\ live' \subseteq live \cup 1..issued \cup {issued + 1}
      BY <2>3 DEF Issue
    <3>2. 1..issued \subseteq 1..(issued + 1) /\ issued + 1 \in 1..(issued + 1) /\ issued + 1 <= MaxTokens
      BY <1>0, <3>1, AuthAssumption
    <3> QED BY <2>3, <3>1, <3>2 DEF SessionShape
  <2> QED BY <2>1, <2>2, <2>3 DEF PairsMoved
<1>2. ASSUME NEW t \in Tabs PROVE flight'[t].token <= issued'
  BY <1>0, <1>1 DEF SessionShape
<1> QED BY <1>1, <1>2 DEF SessionShape

LEMMA FlightsCarryStored ==
  ASSUME SessionInv, [AuthNext]_authVars, NEW t \in Tabs
  PROVE  flight'[t].token \in {0, session, flight[t].token}
<1>0. flight \in [Tabs -> FlightState]
  BY DEF SessionInv, SessionTyped
<1>1. ASSUME NEW u \in Tabs, flight' = [flight EXCEPT ![u] = NoFlight]
      PROVE  flight'[t].token \in {0, session, flight[t].token}
  BY <1>0, <1>1 DEF NoFlight
<1>2. ASSUME NEW u \in Tabs, AskRefresh(u)
      PROVE  flight'[t].token \in {0, session, flight[t].token}
  <2>1. Asked(u).token \in {0, session, flight[u].token}
    BY DEF Asked, Stuck, NoFlight
  <2> QED BY <1>0, <1>2, <2>1 DEF AskRefresh
<1>3. ASSUME NEW u \in Tabs, BackendRefresh(u)
      PROVE  flight'[t].token \in {0, session, flight[t].token}
  <2>1. \/ flight' = [flight EXCEPT ![u] = [at |-> "answered", token |-> flight[u].token, answer |-> issued + 1]]
        \/ flight' = [flight EXCEPT ![u] = [flight[u] EXCEPT !.at = "answered"]]
    BY <1>3 DEF BackendRefresh
  <2>2. [flight[u] EXCEPT !.at = "answered"].token = flight[u].token
    BY <1>0 DEF FlightState
  <2>3. PICK x : x.token = flight[u].token /\ flight' = [flight EXCEPT ![u] = x]
    BY <2>1, <2>2
  <2> QED BY <1>0, <2>3
<1>4. CASE flight' = flight
  BY <1>4
<1>5. CASE \/ \E n \in Pair : Expire(n) \/ Bind(n)
           \/ PasswordSignIn \/ SignOut \/ UNCHANGED authVars
           \/ \E u \in Tabs : Callback(u)
           \/ \E c \in ApiCalls : \/ SendCall(c) \/ Answered(c)
                                  \/ \E status \in {401, 500} : RefusedAgain(c, status)
  BY <1>4, <1>5 DEF Expire, Bind, PasswordSignIn, SignOut, Callback, SendCall, Answered, RefusedAgain, authVars
<1>6. ASSUME NEW u \in Tabs, GoToGoogle(u) \/ Reload(u) \/ EndRefresh(u)
      PROVE  flight'[t].token \in {0, session, flight[t].token}
  BY <1>1, <1>6 DEF GoToGoogle, Reload, Leave, EndRefresh
<1>7. ASSUME NEW c \in ApiCalls, NEW u \in Tabs, NEW status \in {401, 500},
             BeginCall(c, u) \/ Refused(c, u, status)
      PROVE  flight'[t].token \in {0, session, flight[t].token}
  BY <1>2, <1>4, <1>7 DEF BeginCall, Refused
<1>8. 401 \in {401, 500}
  OBVIOUS
<1> QED BY <1>3, <1>5, <1>6, <1>7, <1>8 DEF AuthNext

LEMMA PairsMove ==
  ASSUME SessionInv, SessionShape, [AuthNext]_authVars
  PROVE  PairsMoved
<1>1. {} \in SUBSET (1..issued) /\ \A n \in live : {n} \in SUBSET (1..issued)
  BY DEF SessionShape
<1>2. FinalizeSession \/ UNCHANGED binding => binding' \subseteq binding \cup {issued + 1}
  BY DEF FinalizeSession
<1>3. Issue({}) /\ Admit => PairsMoved
  BY <1>1, <1>2 DEF Admit, PairsMoved
<1>4. ASSUME NEW n \in Pair, Bind(n) PROVE PairsMoved
  <2>1. CASE n \in live
    BY <1>1, <1>4, <2>1 DEF Bind, PairsMoved
  <2>2. CASE n \notin live
    BY <1>4, <2>2 DEF Bind, PairsMoved
  <2> QED BY <2>1, <2>2
<1>5. CASE PasswordSignIn
  BY <1>3, <1>5 DEF PasswordSignIn, AuthenticatePassword, Authenticated
<1>6. ASSUME NEW t \in Tabs, Callback(t) PROVE PairsMoved
  BY <1>3, <1>6 DEF Callback, Exchange, ExchangeCode, Authenticated, PairsMoved
<1>7. ASSUME NEW t \in Tabs, BackendRefresh(t) PROVE PairsMoved
  <2>1. CASE flight[t].token \in live
    BY <1>1, <1>2, <1>7, <2>1 DEF BackendRefresh, PairsMoved
  <2>2. CASE flight[t].token \notin live
    BY <1>7, <2>2 DEF BackendRefresh, PairsMoved
  <2> QED BY <2>1, <2>2
<1>8. CASE (\E n \in Pair : Expire(n)) \/ SignOut
  BY <1>8 DEF Expire, SignOut, PairsMoved
<1>9. ASSUME NEW t \in Tabs, GoToGoogle(t) \/ Reload(t) \/ EndRefresh(t) PROVE PairsMoved
  BY <1>9 DEF GoToGoogle, Reload, EndRefresh, PairsMoved
<1>10. ASSUME NEW c \in ApiCalls, NEW t \in Tabs,
              BeginCall(c, t) \/ \E status \in {401, 500} : Refused(c, t, status)
       PROVE  PairsMoved
  BY <1>10 DEF BeginCall, Refused, PairsMoved
<1>11. ASSUME NEW c \in ApiCalls,
              SendCall(c) \/ Answered(c) \/ \E status \in {401, 500} : RefusedAgain(c, status)
       PROVE  PairsMoved
  BY <1>11 DEF SendCall, Answered, RefusedAgain, PairsMoved
<1>12. CASE UNCHANGED authVars
  BY <1>12 DEF authVars, PairsMoved
<1>13. CASE AuthNext
  BY <1>4, <1>5, <1>6, <1>7, <1>8, <1>9, <1>10, <1>11, <1>13 DEF AuthNext
<1> QED BY <1>12, <1>13

LEMMA SessionShapeKept == SessionInv /\ SessionShape /\ [AuthNext]_authVars => SessionShape'
<1> SUFFICES ASSUME SessionInv, SessionShape, [AuthNext]_authVars PROVE SessionShape'
  OBVIOUS
<1>1. defaultOrg' = defaultOrg
  BY DEF AuthNext, authVars, Expire, Bind, PasswordSignIn, SignOut, GoToGoogle, Callback, Reload,
         BackendRefresh, EndRefresh, BeginCall, Refused, SendCall, Answered, RefusedAgain
<1>2. away' \subseteq Tabs
  BY DEF AuthNext, authVars, Expire, Bind, PasswordSignIn, SignOut, GoToGoogle, Callback, Reload,
         BackendRefresh, EndRefresh, BeginCall, Refused, SendCall, Answered, RefusedAgain,
         AuthorizationURL, SessionShape
<1>3. age' \in [Pair -> {"fresh", "soon", "expired"}]
  <2>1. CASE \E n \in Pair : Expire(n)
    BY <2>1 DEF Expire, SessionShape
  <2>2. CASE age' = age
    BY <2>2 DEF SessionShape
  <2>3. (\E n \in Pair : Expire(n)) \/ age' = age
    BY DEF AuthNext, authVars, Bind, PasswordSignIn, SignOut, GoToGoogle, Callback, Reload,
           BackendRefresh, EndRefresh, BeginCall, Refused, SendCall, Answered, RefusedAgain
  <2> QED BY <2>1, <2>2, <2>3
<1> QED BY <1>1, <1>2, <1>3, PairsMove, FlightsCarryStored, SessionGrows

LEMMA SessionTypes == SessionInv /\ SessionShape => AuthTypeOK
<1> SUFFICES ASSUME SessionInv, SessionShape PROVE AuthTypeOK
  OBVIOUS
<1>1. session \in 0..issued /\ issued \in 0..MaxTokens
  BY AuthAssumption DEF SessionInv, SessionTyped, SessionShape
<1>2. ASSUME NEW t \in Tabs
      PROVE  /\ flight[t].at \in {"none", "asked", "answered", "stuck"}
             /\ flight[t].token \in 0..issued /\ flight[t].answer \in 0..issued
  <2>1. flight[t] \in FlightState
    BY DEF SessionInv, SessionTyped
  <2>2. flight[t].answer # 0 => flight[t].answer <= issued
    BY DEF SessionInv, AnswersAreNew
  <2> QED BY <1>1, <2>1, <2>2 DEF FlightState, SessionShape
<1>3. ASSUME NEW c \in ApiCalls
      PROVE  /\ fetching[c].at \in {"idle", "early", "send", "sent", "late", "resend", "resent"}
             /\ fetching[c].tab \subseteq Tabs /\ fetching[c].token \in 0..issued
             /\ fetching[c].status \in {0, 401, 500}
  <2>1. fetching[c] \in FetchState /\ fetching[c].token <= issued
    BY DEF SessionInv, SessionTyped
  <2> QED BY <1>1, <2>1 DEF FetchState
<1> QED BY <1>1, <1>2, <1>3 DEF AuthTypeOK, SessionShape
-----------------------------------------------------------------------------
FingerprintOf(f) == Fingerprint(Context[f])

GuardShape ==
    /\ claims \subseteq {FingerprintOf(f) : f \in Prints} /\ moved \subseteq Payers
    /\ \A n \in DOMAIN pending : pending[n] \in Payers
    /\ \A c \in Payers : /\ payer[c].for = {} \/ \E f \in Prints : payer[c].for = {f}
                         /\ payer[c].receipt <= Len(ledger)

LEMMA GuardShapeStarts == GuardInit => GuardShape
BY DEF GuardInit, GuardShape

LEMMA LedgerGrows ==
  ASSUME GuardInv, [GuardNext]_guardVars
  PROVE  Len(ledger) <= Len(ledger')
<1>0. ledger \in Seq(Receipt) /\ Len(ledger) \in Nat
  BY DEF GuardInv
<1>1. ASSUME NEW r, ledger' = Append(ledger, r) PROVE Len(ledger) <= Len(ledger')
  BY <1>0, <1>1
<1>2. ASSUME NEW c \in Payers, NEW decision, Refuse(c, decision) PROVE Len(ledger) <= Len(ledger')
  BY <1>1, <1>2 DEF Refuse, Record
<1>3. ASSUME NEW decision, NEW f, Record(decision, f) PROVE Len(ledger) <= Len(ledger')
  BY <1>1, <1>3 DEF Record
<1>4. CASE ledger' = ledger
  BY <1>0, <1>4
<1>5. ASSUME NEW c \in Payers, NEW f \in Prints, Evaluate(c, f) PROVE Len(ledger) <= Len(ledger')
  BY <1>3, <1>4, <1>5 DEF Evaluate
<1>6. ASSUME NEW c \in Payers,
             AfterEscalation(c) \/ ClaimFingerprint(c) \/ ReserveAmount(c) \/ RecordAllow(c)
      PROVE  Len(ledger) <= Len(ledger')
  BY <1>2, <1>3, <1>4, <1>6 DEF AfterEscalation, ClaimFingerprint, ReserveAmount, RecordAllow
<1>7. ASSUME NEW c \in Payers,
             \/ CallbackThrows(c) \/ CommitAllowedSpend(c) \/ ReleaseReservation(c)
             \/ \E ok \in BOOLEAN : CallbackAnswers(c, ok)
      PROVE  Len(ledger) <= Len(ledger')
  BY <1>4, <1>7 DEF CallbackThrows, CommitAllowedSpend, ReleaseReservation, CallbackAnswers
<1>8. ASSUME NEW n \in DOMAIN ledger, Settlement(n) PROVE Len(ledger) <= Len(ledger')
  BY <1>1, <1>8 DEF Settlement
<1>9. ASSUME NEW fingerprint \in claims, ExpireClaim(fingerprint) PROVE Len(ledger) <= Len(ledger')
  BY <1>4, <1>9 DEF ExpireClaim
<1>10. CASE UNCHANGED guardVars
  BY <1>4, <1>10 DEF guardVars
<1> QED BY <1>5, <1>6, <1>7, <1>8, <1>9, <1>10 DEF GuardNext

\* What a call asks for is decided once; its receipt is the last one recorded.
LEMMA PayerFieldsMove ==
  ASSUME GuardInv, [GuardNext]_guardVars, NEW c \in Payers
  PROVE  /\ payer'[c].for = payer[c].for \/ \E f \in Prints : payer'[c].for = {f}
         /\ payer'[c].receipt = payer[c].receipt \/ payer'[c].receipt = Len(ledger')
<1> DEFINE OK == /\ payer'[c].for = payer[c].for \/ \E f \in Prints : payer'[c].for = {f}
                 /\ payer'[c].receipt = payer[c].receipt \/ payer'[c].receipt = Len(ledger')
<1>0. payer \in [Payers -> PayerState] /\ ledger \in Seq(Receipt)
  BY DEF GuardInv
<1>1. ASSUME NEW d \in Payers, NEW stage, Pass(d, stage) PROVE OK
  BY <1>0, <1>1 DEF Pass, PayerState
<1>2. CASE payer' = payer
  BY <1>2
<1>3. ASSUME NEW d \in Payers, NEW f \in Prints, Evaluate(d, f) PROVE OK
  <2>1. PICK stage : payer' = [payer EXCEPT ![d].at = stage, ![d].for = {f}]
    BY <1>3 DEF Evaluate
  <2> QED BY <1>0, <2>1 DEF PayerState
<1>4. ASSUME NEW d \in Payers, RecordAllow(d) PROVE OK
  <2>1. payer' = [payer EXCEPT ![d].at = "callback", ![d].receipt = Len(ledger) + 1]
    BY <1>4 DEF RecordAllow
  <2>2. Len(ledger') = Len(ledger) + 1
    BY <1>0, <1>4 DEF RecordAllow, Record
  <2> QED BY <1>0, <2>1, <2>2 DEF PayerState
<1>5. ASSUME NEW d \in Payers, CallbackThrows(d) PROVE OK
  <2>1. payer' = [payer EXCEPT ![d].at = "over", ![d].threw = TRUE]
    BY <1>5 DEF CallbackThrows
  <2> QED BY <1>0, <2>1 DEF PayerState
<1>6. ASSUME NEW d \in Payers, NEW decision, Refuse(d, decision) PROVE OK
  BY <1>1, <1>6 DEF Refuse
<1>7. ASSUME NEW d \in Payers,
             \/ AfterEscalation(d) \/ ClaimFingerprint(d) \/ ReserveAmount(d)
             \/ CommitAllowedSpend(d) \/ ReleaseReservation(d)
             \/ \E ok \in BOOLEAN : CallbackAnswers(d, ok)
      PROVE  OK
  BY <1>1, <1>6, <1>7 DEF AfterEscalation, ClaimFingerprint, ReserveAmount, CommitAllowedSpend,
                          ReleaseReservation, CallbackAnswers
<1>8. CASE \/ \E n \in DOMAIN ledger : Settlement(n)
           \/ \E fingerprint \in claims : ExpireClaim(fingerprint)
           \/ UNCHANGED guardVars
  BY <1>2, <1>8 DEF Settlement, ExpireClaim, guardVars
<1> QED BY <1>3, <1>4, <1>5, <1>7, <1>8 DEF GuardNext

LEMMA GuardSetsMove ==
  ASSUME GuardInv, GuardShape, [GuardNext]_guardVars
  PROVE  /\ claims' \subseteq {FingerprintOf(f) : f \in Prints} /\ moved' \subseteq Payers
         /\ \A n \in DOMAIN pending' : pending'[n] \in Payers
<1> DEFINE PendingTyped == \A n \in DOMAIN pending' : pending'[n] \in Payers
<1>1. ASSUME NEW c \in Payers, ClaimFingerprint(c) PROVE claims' \subseteq {FingerprintOf(f) : f \in Prints}
  <2>1. AskedFor(c) \in Prints
    BY <1>1, AskedForPrint DEF ClaimFingerprint, Reached
  <2>2. claims' \subseteq claims \cup {FingerprintOf(AskedFor(c))}
    BY <1>1 DEF ClaimFingerprint, FingerprintOf
  <2> QED BY <2>1, <2>2 DEF GuardShape
<1>2. (\E c \in Payers : ClaimFingerprint(c)) \/ claims' \subseteq claims
  BY DEF GuardNext, guardVars, Evaluate, AfterEscalation, ReserveAmount, RecordAllow, CallbackAnswers,
         CallbackThrows, CommitAllowedSpend, ReleaseReservation, ExpireClaim, Settlement
<1>3. moved' = moved \/ \E c \in Payers : moved' \subseteq moved \cup {c}
  BY DEF GuardNext, guardVars, Evaluate, AfterEscalation, ClaimFingerprint, ReserveAmount, RecordAllow,
         CallbackAnswers, CallbackThrows, CommitAllowedSpend, ReleaseReservation, ExpireClaim, Settlement
<1>4. ASSUME NEW c \in Payers, RecordAllow(c) PROVE PendingTyped
  BY <1>4 DEF RecordAllow, GuardShape
<1>5. ASSUME NEW c \in Payers, CommitAllowedSpend(c) PROVE PendingTyped
  BY <1>5 DEF CommitAllowedSpend, GuardShape
<1>6. (\E c \in Payers : RecordAllow(c) \/ CommitAllowedSpend(c)) \/ pending' = pending
  BY DEF GuardNext, guardVars, Evaluate, AfterEscalation, ClaimFingerprint, ReserveAmount,
         CallbackAnswers, CallbackThrows, ReleaseReservation, ExpireClaim, Settlement
<1>7. PendingTyped
  BY <1>4, <1>5, <1>6 DEF GuardShape
<1>8. claims' \subseteq {FingerprintOf(f) : f \in Prints}
  BY <1>1, <1>2 DEF GuardShape
<1>9. moved' \subseteq Payers
  BY <1>3 DEF GuardShape
<1> QED BY <1>7, <1>8, <1>9

LEMMA GuardShapeKept == GuardInv /\ GuardShape /\ [GuardNext]_guardVars => GuardShape'
<1> SUFFICES ASSUME GuardInv, GuardShape, [GuardNext]_guardVars PROVE GuardShape'
  OBVIOUS
<1>1. GuardInv'
  BY GuardStep
<1>2. Len(ledger) \in Nat /\ Len(ledger') \in Nat /\ \A c \in Payers : payer[c].receipt \in Nat
  BY <1>1 DEF GuardInv, PayerState
<1>3. ASSUME NEW c \in Payers
      PROVE  /\ payer'[c].for = {} \/ \E f \in Prints : payer'[c].for = {f}
             /\ payer'[c].receipt <= Len(ledger')
  <2>1. payer'[c].receipt <= Len(ledger')
    BY <1>2, LedgerGrows, PayerFieldsMove DEF GuardShape
  <2>2. payer'[c].for = {} \/ \E f \in Prints : payer'[c].for = {f}
    BY PayerFieldsMove DEF GuardShape
  <2> QED BY <2>1, <2>2
<1>4. /\ claims' \subseteq {FingerprintOf(f) : f \in Prints} /\ moved' \subseteq Payers
      /\ \A n \in DOMAIN pending' : pending'[n] \in Payers
  BY GuardSetsMove
<1> QED BY <1>3, <1>4 DEF GuardShape, FingerprintOf

LEMMA GuardTypes == GuardInv /\ GuardShape => GuardTypeOK
<1> SUFFICES ASSUME GuardInv, GuardShape PROVE GuardTypeOK
  OBVIOUS
<1>1. /\ claims \subseteq {Fingerprint(Context[f]) : f \in Prints} /\ moved \subseteq Payers
      /\ reservation \in [Payers -> {"none", "reserved", "committed", "released"}]
      /\ DOMAIN pending \subseteq 1..Len(ledger) /\ \A n \in DOMAIN pending : pending[n] \in Payers
      /\ ledger \in Seq(Receipt)
  BY DEF GuardInv, GuardShape, FingerprintOf
<1>2. ASSUME NEW c \in Payers
      PROVE  /\ payer[c].at \in PayerStage /\ payer[c].for \subseteq Prints
             /\ Cardinality(payer[c].for) <= 1 /\ payer[c].receipt \in Number
             /\ payer[c].threw \in BOOLEAN
  <2>1. payer[c] \in PayerState
    BY DEF GuardInv
  <2>2. Single(payer[c].for)
    BY DEF GuardShape, Single
  <2>3. payer[c].receipt \in Number
    BY <1>1, <2>1 DEF GuardShape, PayerState, Number
  <2> QED BY <2>1, <2>2, <2>3, SingleCardinality DEF PayerState
<1> QED BY <1>1, <1>2 DEF GuardTypeOK
-----------------------------------------------------------------------------
\* A row is linked under an execution of its own; its evidence is one envelope.
RowShape(row) ==
    /\ row.payment # NoPayment => row.status # "none" /\ row.execution # NoExecution
    /\ row.execution <= executions
    /\ Single(row.evidence)

RowsShaped ==
    /\ \A k \in Keys : RowShape(intent[k])
    /\ \A j, k \in Keys :
         intent[j].execution = intent[k].execution /\ intent[j].execution # NoExecution => j = k

\* A call that writes to a row has found it stored, and what it decided.
RequestShape(r) ==
    /\ Single(r.key) /\ Single(r.envelope)
    /\ r.execution <= executions
    /\ r.at \in {"lookup", "insert", "guard", "decide", "load", "link"} => r.key # {}
    /\ r.at \in {"guard", "decide", "load", "link"} => \A k \in r.key : Stored(k)
    /\ r.at = "decide" => r.decision # "none"
    /\ r.at \in {"serve", "settle", "snapshot"} => r.execution # NoExecution

RequestsShaped == \A c \in Calls : RequestShape(request[c])

\* An execution is given out by a call that is over with it.
Over == {c \in Calls : Stands(c, "done")}
ExecutionsCounted == executions <= Cardinality(Over)

BornOnce ==
    /\ born \in Seq(Keys) /\ IsInjective(born)
    /\ ToSet(born) = {k \in Keys : Stored(k)}

FinancialShape ==
    /\ RowsShaped /\ RequestsShaped /\ ExecutionsCounted /\ BornOnce
    /\ claimed \subseteq Keys /\ guardOn \in BOOLEAN

LEMMA FinancialShapeStarts == FinancialInit => FinancialShape
<1> SUFFICES ASSUME FinancialInit PROVE FinancialShape
  OBVIOUS
<1>1. RowsShaped
  BY DEF FinancialInit, RowsShaped, RowShape, NoRow, NoExecution, Single
<1>2. RequestsShaped
  BY DEF FinancialInit, RequestsShaped, RequestShape, NoRequest, NoExecution, Single
<1>3. ExecutionsCounted
  <2>1. Over = {}
    BY DEF FinancialInit, Over, Stands, NoRequest
  <2> QED BY <2>1, FS_EmptySet DEF FinancialInit, ExecutionsCounted
<1>4. BornOnce
  <2>1. born = <<>> /\ \A k \in Keys : ~Stored(k)
    BY DEF FinancialInit, Stored, NoRow
  <2> QED BY <2>1 DEF BornOnce, IsInjective, ToSet
<1> QED BY <1>1, <1>2, <1>3, <1>4 DEF FinancialInit, FinancialShape

\* Rows only become stored, and executions are only given out.
Forward == /\ \A k \in Keys : Stored(k) => Stored(k)'
           /\ executions' \in Nat /\ executions <= executions'

LEMMA RequestShapeMoves ==
  ASSUME FinancialInv, RequestsShaped, Forward, NEW c \in Calls, NEW r,
         request' = [request EXCEPT ![c] = r], RequestShape(r)'
  PROVE  RequestsShaped'
<1>1. \A d \in Calls : request[d] \in RequestState
  BY DEF FinancialInv, RequestsTrue
<1>2. ASSUME NEW d \in Calls PROVE RequestShape(request[d])'
  <2>1. CASE d = c
    <3>1. request'[d] = r
      BY <2>1 DEF FinancialInv, RequestsTrue
    <3> QED BY <3>1 DEF RequestShape
  <2>2. CASE d # c
    <3>1. request'[d] = request[d] /\ request[d] \in RequestState /\ RequestShape(request[d])
      BY <1>1, <2>2 DEF FinancialInv, RequestsTrue, RequestsShaped
    <3>2. request[d].execution <= executions' /\ request[d].key \subseteq Keys
      BY <3>1 DEF RequestShape, RequestState, Forward, FinancialInv, Counted
    <3> QED BY <3>1, <3>2 DEF RequestShape, Forward
  <2> QED BY <2>1, <2>2
<1> QED BY <1>2 DEF RequestsShaped

\* A call that moves on, or ends, with what it has.
LEMMA TurnKeepsShape ==
  ASSUME FinancialInv, RequestsShaped, Forward, NEW c \in Calls, NEW stage, Turn(c, stage),
         request[c].at # "idle",
         \/ stage = "done"
         \/ stage = "insert" /\ request[c].at = "lookup"
         \/ stage = "snapshot" /\ request[c].at \in {"serve", "settle"}
         \/ /\ stage \in {"guard", "link"} /\ request[c].key # {}
            /\ \A k \in request[c].key : Stored(k)'
  PROVE  RequestsShaped'
<1>0. request[c] \in RequestState /\ RequestShape(request[c]) /\ executions \in Nat
  BY DEF FinancialInv, RequestsTrue, RequestsShaped, Counted
<1>1. CASE stage = "done"
  <2>1. PICK r : r = [NoRequest EXCEPT !.at = "done"]
    OBVIOUS
  <2>2. RequestShape(r)'
    BY <2>1 DEF RequestShape, NoRequest, Single, NoExecution, Forward
  <2>3. request' = [request EXCEPT ![c] = r]
    BY <1>1, <2>1 DEF Turn
  <2> QED BY <2>2, <2>3, RequestShapeMoves
<1>2. CASE stage # "done"
  <2>1. PICK r : r = [request[c] EXCEPT !.at = stage]
    OBVIOUS
  <2>2. /\ r.at = stage /\ r.key = request[c].key /\ r.envelope = request[c].envelope
        /\ r.execution = request[c].execution
    BY <1>0, <2>1 DEF RequestState
  <2>3. r.execution <= executions' /\ r.key \subseteq Keys /\ Single(r.key) /\ Single(r.envelope)
    BY <1>0, <2>2 DEF RequestShape, RequestState, Forward
  <2>4. RequestShape(r)'
    BY <1>0, <1>2, <2>2, <2>3 DEF RequestShape
  <2>5. request' = [request EXCEPT ![c] = r]
    BY <1>2, <2>1 DEF Turn
  <2> QED BY <2>4, <2>5, RequestShapeMoves
<1> QED BY <1>1, <1>2

LEMMA KeyInHand ==
  ASSUME FinancialInv, RequestsShaped, NEW c \in Calls, request[c].key # {}
  PROVE  RowKey(c) \in Keys /\ RowKey(c) \in request[c].key /\ request[c].key = {RowKey(c)}
<1>1. request[c].key \subseteq Keys /\ Single(request[c].key)
  BY DEF FinancialInv, RequestsTrue, RequestState, RequestsShaped, RequestShape
<1>2. RowKey(c) \in request[c].key
  BY DEF RowKey
<1> QED BY <1>1, <1>2 DEF Single

\* The five steps that write to a row.
LEMMA RowsMove ==
  ASSUME [FinancialNext]_financialVars
  PROVE  \/ UNCHANGED <<intent, born, executions>>
         \/ \E c \in Calls : Insert(c) \/ Decide(c) \/ Link(c) \/ SettleMirror(c) \/ StoreEvidence(c)
<1>1. ASSUME NEW c \in Calls, NEW op, NEW stage, NEW keys, NEW p, NEW e, Accept(c, op, stage, keys, p, e)
      PROVE  UNCHANGED <<intent, born, executions>>
  BY <1>1 DEF Accept
<1>2. ASSUME NEW c \in Calls,
             \/ \E k \in Keys : CallCreate(c, k) \/ CallAuthorize(c, k) \/ CallEvidence(c, k) \/ CallVerify(c, k)
             \/ \E k \in Keys, p \in Payments : CallBridge(c, k, p)
             \/ \E k \in Keys, p \in Linked : CallExecute(c, k, p)
             \/ \E p \in Payments : CallSync(c, p)
      PROVE  UNCHANGED <<intent, born, executions>>
  BY <1>1, <1>2 DEF CallCreate, CallAuthorize, CallEvidence, CallVerify, CallBridge, CallExecute, CallSync
<1>3. ASSUME NEW c \in Calls,
             \/ Lookup(c) \/ GuardRefuses(c) \/ GuardClaims(c) \/ GuardAbsent(c) \/ Load(c)
             \/ FindMirror(c) \/ ServeEvidence(c) \/ Snapshot(c) \/ Abort(c)
      PROVE  UNCHANGED <<intent, born, executions>>
  BY <1>3 DEF Lookup, GuardRefuses, GuardClaims, GuardAbsent, Load, FindMirror, ServeEvidence, Snapshot, Abort
<1>4. CASE (\E k \in Keys : ClaimExpires(k)) \/ (\E p \in Payments : SettlePayment(p)) \/ UNCHANGED financialVars
  BY <1>4 DEF ClaimExpires, SettlePayment, financialVars
<1> QED BY <1>2, <1>3, <1>4 DEF FinancialNext

\* A write to one row that gives it no execution but its own, or a new one.
LEMMA RowShapeMoves ==
  ASSUME FinancialInv, RowsShaped, NEW k \in Keys, NEW row, intent' = [intent EXCEPT ![k] = row],
         executions' \in Nat, executions <= executions', RowShape(row)',
         row.execution \in {NoExecution, intent[k].execution} \/ row.execution = executions + 1,
         Stored(k) => row.status # "none"
  PROVE  RowsShaped' /\ Forward
<1>0. executions \in Nat /\ intent \in [Keys -> RowState] /\ intent'[k] = row
      /\ \A j \in Keys : intent[j].execution \in Nat /\ intent[j].execution <= executions
  BY DEF FinancialInv, Counted, RowsTrue, RowState, RowsShaped, RowShape
<1>1. \A j \in Keys \ {k} : intent'[j] = intent[j]
  BY <1>0
<1>2. ASSUME NEW j \in Keys PROVE RowShape(intent[j])'
  <2>1. CASE j = k
    BY <1>0, <2>1 DEF RowShape
  <2>2. CASE j # k
    <3>1. RowShape(intent[j]) /\ intent'[j] = intent[j] /\ intent[j].execution <= executions'
      BY <1>0, <1>1, <2>2 DEF RowsShaped
    <3> QED BY <3>1 DEF RowShape
  <2> QED BY <2>1, <2>2
<1>3. ASSUME NEW i \in Keys, NEW j \in Keys, intent'[i].execution = intent'[j].execution,
             intent'[i].execution # NoExecution
      PROVE  i = j
  <2>1. \A m, n \in Keys : intent[m].execution = intent[n].execution /\ intent[m].execution # NoExecution => m = n
    BY DEF RowsShaped
  <2>2. \A m \in Keys : intent[m].execution # executions + 1
    BY <1>0
  <2> QED BY <1>0, <1>1, <1>3, <2>1, <2>2
<1>4. \A j \in Keys : Stored(j) => Stored(j)'
  BY <1>0, <1>1 DEF Stored
<1> QED BY <1>2, <1>3, <1>4 DEF RowsShaped, Forward

LEMMA RowsShapedStay ==
  ASSUME FinancialInv, RowsShaped, UNCHANGED <<intent, executions>>
  PROVE  RowsShaped' /\ Forward
BY DEF FinancialInv, Counted, RowsShaped, RowShape, Forward, Stored

LEMMA InsertKeepsRows ==
  ASSUME FinancialInv, RowsShaped, RequestsShaped, NEW c \in Calls, Insert(c)
  PROVE  RowsShaped' /\ Forward
<1>1. executions' = executions /\ request[c].key # {} /\ executions \in Nat
  BY DEF Insert, Stands, RequestsShaped, RequestShape, FinancialInv, Counted
<1>2. RowKey(c) \in Keys
  BY <1>1, KeyInHand
<1>3. CASE intent' = intent
  BY <1>1, <1>3, RowsShapedStay
<1>4. CASE intent' = [intent EXCEPT ![RowKey(c)] = CreatedRow]
  <2>1. RowShape(CreatedRow)' /\ CreatedRow.execution = NoExecution /\ CreatedRow.status # "none"
    BY <1>1 DEF RowShape, CreatedRow, NoRow, NoExecution, Single
  <2>2. executions' \in Nat /\ executions <= executions'
    BY <1>1
  <2> QED BY <1>2, <1>4, <2>1, <2>2, RowShapeMoves, Zenon
<1> QED BY <1>3, <1>4 DEF Insert

LEMMA DecideKeepsRows ==
  ASSUME FinancialInv, RowsShaped, RequestsShaped, NEW c \in Calls, Decide(c)
  PROVE  RowsShaped' /\ Forward
<1>1. executions' = executions /\ request[c].key # {} /\ executions \in Nat /\ request[c].decision # "none"
  BY DEF Decide, Stands, RequestsShaped, RequestShape, FinancialInv, Counted
<1>2. RowKey(c) \in Keys
  BY <1>1, KeyInHand
<1>3. intent[RowKey(c)] \in RowState /\ RowShape(intent[RowKey(c)])
  BY <1>2 DEF FinancialInv, RowsTrue, RowsShaped
<1>4. PICK row : row = [intent[RowKey(c)] EXCEPT !.status = request[c].decision]
  OBVIOUS
<1>5. /\ row.status # "none" /\ row.payment = intent[RowKey(c)].payment
      /\ row.execution = intent[RowKey(c)].execution /\ row.evidence = intent[RowKey(c)].evidence
  BY <1>1, <1>3, <1>4 DEF RowState
<1>6. RowShape(row)'
  BY <1>1, <1>3, <1>5 DEF RowShape
<1>7. intent' = [intent EXCEPT ![RowKey(c)] = row]
  BY <1>4 DEF Decide
<1>8. executions' \in Nat /\ executions <= executions'
  BY <1>1
<1> QED BY <1>2, <1>5, <1>6, <1>7, <1>8, RowShapeMoves, Zenon

LEMMA LinkKeepsRows ==
  ASSUME FinancialInv, RowsShaped, RequestsShaped, NEW c \in Calls, Link(c)
  PROVE  RowsShaped' /\ Forward
<1>1. executions' = executions + 1 /\ request[c].key # {} /\ executions \in Nat
  BY DEF Link, Stands, RequestsShaped, RequestShape, FinancialInv, Counted
<1>2. RowKey(c) \in Keys
  BY <1>1, KeyInHand
<1>3. intent[RowKey(c)] \in RowState /\ RowShape(intent[RowKey(c)])
  BY <1>2 DEF FinancialInv, RowsTrue, RowsShaped
<1>4. PICK status : status = IF request[c].op = "bridge" THEN "AUTHORIZED" ELSE "EXECUTING"
  OBVIOUS
<1>5. PICK row : row = [intent[RowKey(c)] EXCEPT !.payment = request[c].payment,
                                                 !.execution = executions + 1, !.status = status]
  OBVIOUS
<1>6. /\ row.status # "none" /\ row.execution = executions + 1
      /\ row.evidence = intent[RowKey(c)].evidence
  BY <1>3, <1>4, <1>5 DEF RowState
<1>7. RowShape(row)'
  BY <1>1, <1>3, <1>6 DEF RowShape, NoExecution
<1>8. intent' = [intent EXCEPT ![RowKey(c)] = row]
  BY <1>4, <1>5 DEF Link, MapLegacy
<1>9. executions' \in Nat /\ executions <= executions'
  BY <1>1
<1> QED BY <1>2, <1>6, <1>7, <1>8, <1>9, RowShapeMoves, Zenon

LEMMA StoreKeepsRows ==
  ASSUME FinancialInv, RowsShaped, RequestsShaped, NEW c \in Calls, StoreEvidence(c)
  PROVE  RowsShaped' /\ Forward
<1>1. executions' = executions /\ executions \in Nat /\ Single(request[c].envelope)
      /\ intent \in [Keys -> RowState]
  BY DEF StoreEvidence, RequestsShaped, RequestShape, FinancialInv, Counted, RowsTrue
<1>2. CASE RowKey(c) \notin Keys
  <2>1. intent' = intent
    BY <1>1, <1>2 DEF StoreEvidence
  <2> QED BY <1>1, <2>1, RowsShapedStay
<1>3. CASE RowKey(c) \in Keys
  <2>1. intent[RowKey(c)] \in RowState /\ RowShape(intent[RowKey(c)])
    BY <1>1, <1>3 DEF RowsShaped
  <2>2. PICK row : row = [intent[RowKey(c)] EXCEPT !.evidence = request[c].envelope]
    OBVIOUS
  <2>3. /\ row.status = intent[RowKey(c)].status /\ row.payment = intent[RowKey(c)].payment
        /\ row.execution = intent[RowKey(c)].execution /\ row.evidence = request[c].envelope
    BY <2>1, <2>2 DEF RowState
  <2>4. RowShape(row)'
    BY <1>1, <2>1, <2>3 DEF RowShape
  <2>5. intent' = [intent EXCEPT ![RowKey(c)] = row]
    BY <2>2 DEF StoreEvidence, EnvelopeBuilt
  <2>6. executions' \in Nat /\ executions <= executions'
    BY <1>1
  <2>7. Stored(RowKey(c)) => row.status # "none"
    BY <2>3 DEF Stored
  <2> QED BY <1>3, <2>3, <2>4, <2>5, <2>6, <2>7, RowShapeMoves, Zenon
<1> QED BY <1>2, <1>3

\* The rows that are settled have their payments, so they are stored.
LEMMA SettleKeepsRows ==
  ASSUME FinancialInv, RowsShaped, RequestsShaped, NEW c \in Calls, SettleMirror(c)
  PROVE  RowsShaped' /\ Forward
<1>1. executions' = executions /\ executions \in Nat /\ intent \in [Keys -> RowState]
  BY DEF SettleMirror, FinancialInv, Counted, RowsTrue
<1>2. ASSUME NEW k \in Keys
      PROVE  /\ intent'[k].payment = intent[k].payment /\ intent'[k].execution = intent[k].execution
             /\ intent'[k].evidence = intent[k].evidence
             /\ intent[k].status # "none" => intent'[k].status # "none"
  <2>1. intent[k] \in RowState
    BY <1>1
  <2>2. intent'[k] = intent[k] \/ intent'[k] = [intent[k] EXCEPT !.status = "SETTLED"]
    BY DEF SettleMirror, MapLegacy
  <2> QED BY <2>1, <2>2 DEF RowState
<1>3. ASSUME NEW k \in Keys PROVE RowShape(intent[k])'
  <2>1. RowShape(intent[k])
    BY DEF RowsShaped
  <2> QED BY <1>1, <1>2, <2>1 DEF RowShape
<1>4. ASSUME NEW j \in Keys, NEW k \in Keys, intent'[j].execution = intent'[k].execution,
             intent'[j].execution # NoExecution
      PROVE  j = k
  BY <1>2, <1>4 DEF RowsShaped
<1> QED BY <1>1, <1>2, <1>3, <1>4 DEF RowsShaped, Forward, Stored

LEMMA RowsShapedKept ==
  ASSUME FinancialInv, RowsShaped, RequestsShaped, [FinancialNext]_financialVars
  PROVE  RowsShaped' /\ Forward
BY RowsMove, RowsShapedStay, InsertKeepsRows, DecideKeepsRows, LinkKeepsRows, StoreKeepsRows, SettleKeepsRows

LEMMA BeginKeepsShape ==
  ASSUME FinancialInv, RequestsShaped, Forward, NEW c \in Calls, NEW op, NEW stage, NEW keys, NEW p, NEW e \in Nat,
         Accept(c, op, stage, keys, p, e), Single(keys), e <= executions,
         \/ stage = "lookup" /\ keys # {}
         \/ stage \in {"guard", "load"} /\ keys # {} /\ \A k \in keys : Stored(k)
         \/ stage = "find"
         \/ stage = "serve" /\ e # NoExecution
  PROVE  RequestsShaped'
<1>0. executions \in Nat /\ UNCHANGED <<intent, executions>>
  BY DEF FinancialInv, Counted, Accept
<1>1. PICK r : r = [NoRequest EXCEPT !.at = stage, !.op = op, !.key = keys, !.payment = p, !.execution = e]
  OBVIOUS
<1>2. r.at = stage /\ r.key = keys /\ r.envelope = {} /\ r.execution = e /\ Single({})
  BY <1>1 DEF NoRequest, Single
<1>3. RequestShape(r)'
  BY <1>0, <1>2 DEF RequestShape, Stored
<1>4. request' = [request EXCEPT ![c] = r]
  BY <1>1 DEF Accept
<1> QED BY <1>3, <1>4, RequestShapeMoves

LEMMA CallKeepsShape ==
  ASSUME FinancialInv, RowsShaped, RequestsShaped, Forward, NEW c \in Calls,
         \/ \E k \in Keys : CallCreate(c, k) \/ CallAuthorize(c, k) \/ CallEvidence(c, k) \/ CallVerify(c, k)
         \/ \E k \in Keys, p \in Payments : CallBridge(c, k, p)
         \/ \E k \in Keys, p \in Linked : CallExecute(c, k, p)
         \/ \E p \in Payments : CallSync(c, p)
  PROVE  RequestsShaped'
<1>0. /\ NoExecution \in Nat /\ NoExecution <= executions /\ executions \in Nat
      /\ \A k \in Keys : intent[k].execution \in Nat /\ intent[k].execution <= executions
      /\ Single({}) /\ \A k : Single({k}) /\ {k} # {}
  BY DEF FinancialInv, Counted, RowsTrue, RowState, RowsShaped, RowShape, Single, NoExecution
<1>1. ASSUME NEW k \in Keys, CallCreate(c, k) PROVE RequestsShaped'
  BY <1>0, <1>1, BeginKeepsShape DEF CallCreate
<1>2. ASSUME NEW k \in Keys, CallAuthorize(c, k) PROVE RequestsShaped'
  BY <1>0, <1>2, BeginKeepsShape DEF CallAuthorize
<1>3. ASSUME NEW k \in Keys, Accept(c, "evidence", "serve", {}, NoPayment, intent[k].execution),
             intent[k].execution # NoExecution
      PROVE  RequestsShaped'
  <2>1. PICK e \in Nat : e = intent[k].execution
    BY <1>0
  <2> QED BY <1>0, <1>3, <2>1, BeginKeepsShape
<1>4. ASSUME NEW k \in Keys, CallVerify(c, k) PROVE RequestsShaped'
  <2>1. CASE intent[k].execution # NoExecution
    BY <1>3, <1>4, <2>1 DEF CallVerify, StoredExecutionByIntent
  <2>2. CASE intent[k].execution = NoExecution
    <3>1. PICK r : r = [NoRequest EXCEPT !.at = "done"]
      OBVIOUS
    <3>2. RequestShape(r)'
      BY <3>1 DEF RequestShape, NoRequest, Single, NoExecution, Forward
    <3>3. request' = [request EXCEPT ![c] = r]
      BY <1>4, <2>2, <3>1 DEF CallVerify, StoredExecutionByIntent, Turn
    <3> QED BY <3>2, <3>3, RequestShapeMoves
  <2> QED BY <2>1, <2>2
<1>5. ASSUME NEW k \in Keys, NEW p \in Payments, CallBridge(c, k, p) PROVE RequestsShaped'
  BY <1>0, <1>5, BeginKeepsShape DEF CallBridge
<1>6. ASSUME NEW k \in Keys, NEW p \in Linked, CallExecute(c, k, p) PROVE RequestsShaped'
  BY <1>0, <1>6, BeginKeepsShape DEF CallExecute
<1>7. ASSUME NEW p \in Payments, CallSync(c, p) PROVE RequestsShaped'
  BY <1>0, <1>7, BeginKeepsShape DEF CallSync
<1>8. ASSUME NEW k \in Keys, CallEvidence(c, k) PROVE RequestsShaped'
  BY <1>3, <1>8 DEF CallEvidence
<1> QED BY <1>1, <1>2, <1>4, <1>5, <1>6, <1>7, <1>8

\* Looking up, inserting, deciding: whoever goes on has a stored row in hand.
LEMMA LookupKeepsShape ==
  ASSUME FinancialInv, RequestsShaped, Forward, NEW c \in Calls, Lookup(c) \/ Insert(c) \/ Decide(c)
  PROVE  RequestsShaped'
<1>0. request[c].at \in {"lookup", "insert", "decide"} /\ RequestShape(request[c])
      /\ intent \in [Keys -> RowState]
  BY DEF Lookup, Insert, Decide, Stands, RequestsShaped, FinancialInv, RowsTrue
<1>1. RowKey(c) \in Keys /\ request[c].key = {RowKey(c)} /\ request[c].at # "idle" /\ request[c].key # {}
  BY <1>0, KeyInHand DEF RequestShape
<1>2. Turn(c, "done") => RequestsShaped'
  BY <1>1, TurnKeepsShape
<1>3. ASSUME NEW stage \in {"guard", "link"}, Turn(c, stage), intent'[RowKey(c)].status # "none"
      PROVE  RequestsShaped'
  <2>1. \A k \in request[c].key : Stored(k)'
    BY <1>1, <1>3 DEF Stored
  <2> QED BY <1>1, <1>3, <2>1, TurnKeepsShape
<1>4. CASE Lookup(c)
  <2>1. intent' = intent /\ request[c].at = "lookup"
    BY <1>4 DEF Lookup, Stands
  <2>2. CASE ~Stored(RowKey(c))
    <3>1. Turn(c, "insert")
      BY <1>4, <2>2 DEF Lookup
    <3> QED BY <1>1, <2>1, <3>1, TurnKeepsShape
  <2>3. CASE Stored(RowKey(c))
    <3>1. intent'[RowKey(c)].status # "none"
      BY <2>1, <2>3 DEF Stored
    <3>2. Turn(c, "guard") \/ Turn(c, "done")
      BY <1>4, <2>3 DEF Lookup
    <3> QED BY <1>2, <1>3, <3>1, <3>2
  <2> QED BY <2>2, <2>3
<1>5. CASE Insert(c)
  <2>1. CASE Stored(RowKey(c))
    BY <1>2, <1>5, <2>1 DEF Insert
  <2>2. CASE ~Stored(RowKey(c))
    <3>1. intent' = [intent EXCEPT ![RowKey(c)] = CreatedRow]
      BY <1>5, <2>2 DEF Insert
    <3>2. intent'[RowKey(c)].status # "none"
      BY <1>0, <1>1, <3>1 DEF CreatedRow, NoRow
    <3>3. Turn(c, "guard") \/ Turn(c, "done")
      BY <1>5, <2>2 DEF Insert
    <3> QED BY <1>2, <1>3, <3>2, <3>3
  <2> QED BY <2>1, <2>2
<1>6. CASE Decide(c)
  <2>1. request[c].decision # "none" /\ request[c].at = "decide"
    BY <1>0, <1>6 DEF Decide, Stands, RequestShape
  <2>2. intent[RowKey(c)] \in RowState /\ intent' = [intent EXCEPT ![RowKey(c)].status = request[c].decision]
    BY <1>0, <1>1, <1>6 DEF Decide
  <2>3. intent'[RowKey(c)].status # "none"
    BY <1>0, <1>1, <2>1, <2>2 DEF RowState
  <2>4. Turn(c, "link") \/ Turn(c, "done")
    BY <1>6 DEF Decide
  <2> QED BY <1>2, <1>3, <2>3, <2>4
<1> QED BY <1>4, <1>5, <1>6

\* The guard's answer is a decision; a call that ends has nothing in hand.
LEMMA GuardKeepsShape ==
  ASSUME FinancialInv, RequestsShaped, Forward, NEW c \in Calls,
         GuardRefuses(c) \/ GuardClaims(c) \/ GuardAbsent(c)
  PROVE  RequestsShaped'
<1>0. request[c].at = "guard" /\ RequestShape(request[c]) /\ request[c] \in RequestState /\ intent' = intent
      /\ request[c].execution <= executions' /\ executions \in Nat
  BY DEF GuardRefuses, GuardClaims, GuardAbsent, Stands, RequestsShaped, FinancialInv, RequestsTrue,
         RequestShape, RequestState, Forward, Counted
<1>1. ASSUME NEW d \in {"AUTHORIZED", "REFUSED"}, Decided(c, d) PROVE RequestsShaped'
  <2>1. PICK r : r = [request[c] EXCEPT !.at = "decide", !.decision = d]
    OBVIOUS
  <2>2. /\ r.at = "decide" /\ r.decision = d /\ r.key = request[c].key
        /\ r.envelope = request[c].envelope /\ r.execution = request[c].execution
    BY <1>0, <2>1 DEF RequestState
  <2>3. RequestShape(r)'
    BY <1>0, <2>2 DEF RequestShape, Stored
  <2>4. request' = [request EXCEPT ![c] = r]
    BY <1>1, <2>1 DEF Decided
  <2> QED BY <2>3, <2>4, RequestShapeMoves
<1>2. Turn(c, "done") => RequestsShaped'
  BY <1>0, TurnKeepsShape
<1> QED BY <1>1, <1>2 DEF GuardRefuses, GuardClaims, GuardAbsent

LEMMA LoadKeepsShape ==
  ASSUME FinancialInv, RequestsShaped, Forward, NEW c \in Calls, Load(c)
  PROVE  RequestsShaped'
<1>0. request[c].at = "load" /\ RequestShape(request[c]) /\ request[c] \in RequestState /\ intent' = intent
      /\ request[c].execution <= executions' /\ executions \in Nat
  BY DEF Load, Stands, RequestsShaped, FinancialInv, RequestsTrue, RequestShape, RequestState, Forward, Counted
<1>1. CASE Turn(c, "done")
  BY <1>0, <1>1, TurnKeepsShape
<1>2. CASE ~Turn(c, "done")
  <2>1. PICK p : request' = [request EXCEPT ![c].at = "link", ![c].payment = p]
    BY <1>2 DEF Load
  <2>2. PICK r : r = [request[c] EXCEPT !.at = "link", !.payment = p]
    OBVIOUS
  <2>3. /\ r.at = "link" /\ r.key = request[c].key
        /\ r.envelope = request[c].envelope /\ r.execution = request[c].execution
    BY <1>0, <2>2 DEF RequestState
  <2>4. RequestShape(r)'
    BY <1>0, <2>3 DEF RequestShape, Stored
  <2>5. request' = [request EXCEPT ![c] = r]
    BY <2>1, <2>2
  <2> QED BY <2>4, <2>5, RequestShapeMoves
<1> QED BY <1>1, <1>2

\* The mirror found is linked, so it has an execution.
LEMMA FindKeepsShape ==
  ASSUME FinancialInv, RowsShaped, RequestsShaped, Forward, NEW c \in Calls, FindMirror(c)
  PROVE  RequestsShaped'
<1>0. request[c].at = "find" /\ RequestShape(request[c]) /\ request[c] \in RequestState /\ executions' = executions
      /\ request[c].payment # NoPayment
  BY FinancialAssumption DEF FindMirror, Stands, RequestsShaped, FinancialInv, RequestsTrue, TrueRequest, Confirmed
<1>1. CASE RowsOf(request[c].payment) = {}
  BY <1>0, <1>1, TurnKeepsShape DEF FindMirror
<1>2. CASE RowsOf(request[c].payment) # {}
  <2>1. PICK k \in RowsOf(request[c].payment) :
            request' = [request EXCEPT ![c].at = "settle", ![c].key = {k}, ![c].execution = intent[k].execution]
    BY <1>2 DEF FindMirror
  <2>2. intent[k].execution # NoExecution /\ intent[k].execution <= executions
    BY <1>0, <2>1 DEF RowsOf, RowsShaped, RowShape
  <2>3. PICK r : r = [request[c] EXCEPT !.at = "settle", !.key = {k}, !.execution = intent[k].execution]
    OBVIOUS
  <2>4. r.at = "settle" /\ r.key = {k} /\ r.envelope = request[c].envelope /\ r.execution = intent[k].execution
    BY <1>0, <2>3 DEF RequestState
  <2>5. RequestShape(r)'
    BY <1>0, <2>2, <2>4 DEF RequestShape, Single
  <2>6. request' = [request EXCEPT ![c] = r]
    BY <2>1, <2>3
  <2> QED BY <2>5, <2>6, RequestShapeMoves
<1> QED BY <1>1, <1>2

\* One row at most has the execution a snapshot is taken of.
LEMMA SnapshotKeepsShape ==
  ASSUME FinancialInv, RowsShaped, RequestsShaped, Forward, NEW c \in Calls, Snapshot(c)
  PROVE  RequestsShaped'
<1>0. request[c].at = "snapshot" /\ RequestShape(request[c]) /\ request[c] \in RequestState
      /\ executions' = executions /\ request[c].execution # NoExecution
  BY DEF Snapshot, Stands, RequestsShaped, FinancialInv, RequestsTrue, RequestShape
<1> DEFINE rows == RowsAt(request[c].execution)
           envelopes == {EnvelopeOf(intent[k]) : k \in rows}
<1>1. CASE rows = {}
  BY <1>0, <1>1, TurnKeepsShape DEF Snapshot
<1>2. CASE rows # {}
  <2>1. Single(rows) /\ Single(envelopes)
    <3>1. \A j, k \in rows : j = k
      BY <1>0 DEF RowsAt, RowsShaped
    <3> QED BY <3>1 DEF Single
  <2>2. PICK r : r = [request[c] EXCEPT !.at = "store", !.key = rows, !.envelope = envelopes]
    OBVIOUS
  <2>3. request' = [request EXCEPT ![c] = r]
    BY <1>2, <2>2 DEF Snapshot
  <2> HIDE DEF rows, envelopes
  <2>4. r.at = "store" /\ r.key = rows /\ r.envelope = envelopes /\ r.execution = request[c].execution
    BY <1>0, <2>2 DEF RequestState
  <2>5. Single(r.key) /\ Single(r.envelope) /\ r.execution <= executions'
    BY <1>0, <2>1, <2>4 DEF RequestShape
  <2>6. RequestShape(r)'
    BY <2>4, <2>5 DEF RequestShape
  <2> QED BY <2>3, <2>6, RequestShapeMoves
<1> QED BY <1>1, <1>2

LEMMA RequestsShapedKept ==
  ASSUME FinancialInv, RowsShaped, RequestsShaped, Forward, [FinancialNext]_financialVars
  PROVE  RequestsShaped'
<1>1. CASE request' = request
  <2>1. ASSUME NEW d \in Calls PROVE RequestShape(request[d])'
    <3>1. request[d] \in RequestState /\ RequestShape(request[d])
      BY DEF FinancialInv, RequestsTrue, RequestsShaped
    <3>2. request[d].execution <= executions' /\ request[d].key \subseteq Keys
      BY <3>1 DEF RequestShape, RequestState, Forward, FinancialInv, Counted
    <3> QED BY <1>1, <3>1, <3>2 DEF RequestShape, Forward
  <2> QED BY <2>1 DEF RequestsShaped
<1>2. ASSUME NEW c \in Calls,
             Link(c) \/ ServeEvidence(c) \/ StoreEvidence(c) \/ SettleMirror(c) \/ Abort(c)
      PROVE  RequestsShaped'
  <2>1. request[c].at # "idle"
    BY <1>2 DEF Link, ServeEvidence, StoreEvidence, SettleMirror, Abort, Stands
  <2>2. \/ Turn(c, "done")
        \/ Turn(c, "snapshot") /\ request[c].at \in {"serve", "settle"}
    BY <1>2 DEF Link, ServeEvidence, StoreEvidence, SettleMirror, Abort, Stands
  <2> QED BY <2>1, <2>2, TurnKeepsShape
<1>3. CASE (\E k \in Keys : ClaimExpires(k)) \/ (\E p \in Payments : SettlePayment(p)) \/ UNCHANGED financialVars
  BY <1>1, <1>3 DEF ClaimExpires, SettlePayment, financialVars
<1>4. ASSUME NEW c \in Calls,
             \/ \E k \in Keys : CallCreate(c, k) \/ CallAuthorize(c, k) \/ CallEvidence(c, k) \/ CallVerify(c, k)
             \/ \E k \in Keys, p \in Payments : CallBridge(c, k, p)
             \/ \E k \in Keys, p \in Linked : CallExecute(c, k, p)
             \/ \E p \in Payments : CallSync(c, p)
      PROVE  RequestsShaped'
  BY <1>4, CallKeepsShape
<1>5. ASSUME NEW c \in Calls,
             \/ Lookup(c) \/ Insert(c) \/ GuardRefuses(c) \/ GuardClaims(c) \/ GuardAbsent(c) \/ Decide(c)
             \/ Load(c) \/ FindMirror(c) \/ Snapshot(c)
      PROVE  RequestsShaped'
  BY <1>5, LookupKeepsShape, GuardKeepsShape, LoadKeepsShape, FindKeepsShape, SnapshotKeepsShape
<1> QED BY <1>2, <1>3, <1>4, <1>5 DEF FinancialNext

LEMMA OverIsFinal ==
  ASSUME FinancialInv, [FinancialNext]_financialVars, NEW d \in Over
  PROVE  d \in Over'
<1>0. request \in [Calls -> RequestState] /\ d \in Calls /\ request[d].at = "done"
  BY DEF FinancialInv, RequestsTrue, Over, Stands
<1>1. ASSUME NEW c \in Calls, c # d, NEW r, request' = [request EXCEPT ![c] = r] PROVE d \in Over'
  BY <1>0, <1>1 DEF Over, Stands
<1>2. ASSUME NEW c \in Calls, NEW stage, Turn(c, stage), c # d PROVE d \in Over'
  BY <1>1, <1>2 DEF Turn
<1>3. ASSUME NEW c \in Calls, NEW op, NEW stage, NEW keys, NEW p, NEW e, Accept(c, op, stage, keys, p, e)
      PROVE  d \in Over'
  <2>1. c # d
    BY <1>0, <1>3 DEF Accept, Stands
  <2> QED BY <1>1, <1>3, <2>1 DEF Accept
<1>4. ASSUME NEW c \in Calls,
             \/ \E k \in Keys : CallCreate(c, k) \/ CallAuthorize(c, k) \/ CallEvidence(c, k) \/ CallVerify(c, k)
             \/ \E k \in Keys, p \in Payments : CallBridge(c, k, p)
             \/ \E k \in Keys, p \in Linked : CallExecute(c, k, p)
             \/ \E p \in Payments : CallSync(c, p)
      PROVE  d \in Over'
  <2>1. ASSUME NEW k \in Keys, CallVerify(c, k) PROVE d \in Over'
    <3>1. CASE StoredExecutionByIntent(k).execution = NoExecution
      <4>1. Turn(c, "done") /\ c # d
        BY <1>0, <2>1, <3>1 DEF CallVerify, Stands
      <4> QED BY <1>2, <4>1
    <3>2. CASE StoredExecutionByIntent(k).execution # NoExecution
      <4>1. \E e : Accept(c, "evidence", "serve", {}, NoPayment, e)
        BY <2>1, <3>2 DEF CallVerify
      <4> QED BY <1>3, <4>1
    <3> QED BY <3>1, <3>2
  <2> QED BY <1>3, <1>4, <2>1 DEF CallCreate, CallAuthorize, CallEvidence, CallBridge, CallExecute, CallSync
<1>5. ASSUME NEW c \in Calls,
             \/ Lookup(c) \/ Insert(c) \/ GuardRefuses(c) \/ GuardClaims(c) \/ GuardAbsent(c) \/ Decide(c)
             \/ Load(c) \/ Link(c) \/ FindMirror(c) \/ SettleMirror(c)
             \/ ServeEvidence(c) \/ Snapshot(c) \/ StoreEvidence(c) \/ Abort(c)
      PROVE  d \in Over'
  <2>1. c # d
    BY <1>0, <1>5 DEF Lookup, Insert, GuardRefuses, GuardClaims, GuardAbsent, Decide, Load, Link, FindMirror,
                      SettleMirror, ServeEvidence, Snapshot, StoreEvidence, Abort, Stands
  <2>2. (\E stage : Turn(c, stage)) \/ (\E r : request' = [request EXCEPT ![c] = r])
    BY <1>5 DEF Lookup, Insert, GuardRefuses, GuardClaims, GuardAbsent, Decide, Load, Link, FindMirror,
                SettleMirror, ServeEvidence, Snapshot, StoreEvidence, Abort, Decided
  <2> QED BY <1>1, <1>2, <2>1, <2>2
<1>6. CASE (\E k \in Keys : ClaimExpires(k)) \/ (\E p \in Payments : SettlePayment(p)) \/ UNCHANGED financialVars
  BY <1>0, <1>6 DEF ClaimExpires, SettlePayment, financialVars, Over, Stands
<1> QED BY <1>4, <1>5, <1>6 DEF FinancialNext

LEMMA ExecutionsCountedKept ==
  ASSUME FinancialInv, ExecutionsCounted, [FinancialNext]_financialVars
  PROVE  ExecutionsCounted'
<1>0. /\ IsFiniteSet(Over) /\ IsFiniteSet(Over') /\ Over \subseteq Over'
      /\ Cardinality(Over) \in Nat /\ Cardinality(Over') \in Nat /\ executions \in Nat
  <2>1. Over \subseteq Calls /\ Over' \subseteq Calls
    BY DEF Over
  <2>2. IsFiniteSet(Over) /\ IsFiniteSet(Over')
    BY <2>1, FinancialAssumption, FS_Subset
  <2> QED BY <2>2, OverIsFinal, FS_CardinalityType DEF FinancialInv, Counted
<1>1. Cardinality(Over) <= Cardinality(Over')
  BY <1>0, FS_Subset
<1>2. CASE executions' = executions
  BY <1>0, <1>1, <1>2 DEF ExecutionsCounted
<1>3. ASSUME NEW c \in Calls, Link(c) PROVE ExecutionsCounted'
  <2>1. c \notin Over /\ c \in Over' /\ executions' = executions + 1
    BY <1>3 DEF Link, Turn, Over, Stands, FinancialInv, RequestsTrue
  <2>2. Cardinality(Over \cup {c}) = Cardinality(Over) + 1 /\ IsFiniteSet(Over \cup {c})
    BY <1>0, <2>1, FS_AddElement
  <2>3. Over \cup {c} \subseteq Over'
    BY <1>0, <2>1
  <2>4. Cardinality(Over \cup {c}) <= Cardinality(Over')
    BY <1>0, <2>3, FS_Subset
  <2> QED BY <1>0, <2>1, <2>2, <2>4 DEF ExecutionsCounted
<1>4. ASSUME NEW c \in Calls, Insert(c) \/ Decide(c) \/ SettleMirror(c) \/ StoreEvidence(c)
      PROVE  executions' = executions
  BY <1>4 DEF Insert, Decide, SettleMirror, StoreEvidence
<1> QED BY <1>2, <1>3, <1>4, RowsMove

LEMMA BornOnceKept ==
  ASSUME FinancialInv, RowsShaped, RequestsShaped, BornOnce, [FinancialNext]_financialVars
  PROVE  BornOnce'
<1>0. intent \in [Keys -> RowState] /\ \A k \in Keys : Stored(k) => Stored(k)'
  BY RowsShapedKept DEF Forward, FinancialInv, RowsTrue
<1>1. ASSUME born' = born, \A k \in Keys : Stored(k)' => Stored(k) PROVE BornOnce'
  BY <1>0, <1>1 DEF BornOnce
<1>2. CASE UNCHANGED <<intent, born>>
  BY <1>1, <1>2 DEF Stored
<1>3. ASSUME NEW c \in Calls, Insert(c) PROVE BornOnce'
  <2>1. RowKey(c) \in Keys
    BY <1>3, KeyInHand DEF Insert, Stands, RequestsShaped, RequestShape
  <2>2. CASE Stored(RowKey(c))
    BY <1>2, <1>3, <2>2 DEF Insert
  <2>3. CASE ~Stored(RowKey(c))
    <3>1. PICK k \in Keys : k = RowKey(c)
      BY <2>1
    <3>2. intent' = [intent EXCEPT ![k] = CreatedRow] /\ born' = Append(born, k)
      BY <1>3, <2>3, <3>1 DEF Insert
    <3>3. born \in Seq(Keys) /\ IsInjective(born) /\ k \notin ToSet(born)
      BY <2>3, <3>1 DEF BornOnce
    <3>4. born' \in Seq(Keys) /\ IsInjective(born') /\ ToSet(born') = ToSet(born) \cup {k}
      <4>1. /\ born' \in Seq(Keys) /\ Len(born') = Len(born) + 1 /\ born'[Len(born) + 1] = k
            /\ \A n \in 1..Len(born) : born'[n] = born[n] /\ born[n] # k
        BY <3>2, <3>3 DEF ToSet
      <4>2. DOMAIN born = 1..Len(born) /\ DOMAIN born' = 1..(Len(born) + 1) /\ Len(born) \in Nat
        BY <3>3, <4>1
      <4>3. IsInjective(born')
        BY <3>3, <4>1, <4>2 DEF IsInjective
      <4>4. ToSet(born') = ToSet(born) \cup {k}
        BY <4>1, <4>2 DEF ToSet
      <4> QED BY <4>1, <4>3, <4>4
    <3>5. {j \in Keys : Stored(j)}' = {j \in Keys : Stored(j)} \cup {k}
      BY <1>0, <3>2 DEF Stored, CreatedRow, NoRow
    <3> QED BY <3>4, <3>5 DEF BornOnce
  <2> QED BY <2>2, <2>3
<1>4. ASSUME NEW c \in Calls, Decide(c) \/ Link(c) PROVE BornOnce'
  <2>1. request[c].at \in {"decide", "link"} /\ RequestShape(request[c]) /\ born' = born
    BY <1>4 DEF Decide, Link, Stands, RequestsShaped
  <2>2. Stored(RowKey(c))
    BY <2>1, KeyInHand DEF RequestShape
  <2>3. \A k \in Keys : k # RowKey(c) => intent'[k] = intent[k]
    BY <1>0, <1>4 DEF Decide, Link
  <2>4. ASSUME NEW k \in Keys PROVE Stored(k)' => Stored(k)
    BY <2>2, <2>3 DEF Stored
  <2> QED BY <1>1, <2>1, <2>4
<1>5. ASSUME NEW c \in Calls, StoreEvidence(c) PROVE BornOnce'
  <2>1. \A k \in Keys : intent'[k].status = intent[k].status
    BY <1>0, <1>5 DEF StoreEvidence, RowState
  <2> QED BY <1>1, <1>5, <2>1 DEF StoreEvidence, Stored
<1>6. ASSUME NEW c \in Calls, SettleMirror(c) PROVE BornOnce'
  <2>1. request[c].payment # NoPayment
    BY <1>6, FinancialAssumption DEF SettleMirror, Stands, FinancialInv, RequestsTrue, TrueRequest, Confirmed
  <2>2. ASSUME NEW k \in Keys, k \in Mirrors(c) PROVE Stored(k)
    BY <2>1, <2>2 DEF Mirrors, RowsOf, RowsShaped, RowShape, Stored
  <2>3. \A k \in Keys : k \notin Mirrors(c) => intent'[k] = intent[k]
    BY <1>6 DEF SettleMirror
  <2>4. ASSUME NEW k \in Keys PROVE Stored(k)' => Stored(k)
    BY <2>2, <2>3 DEF Stored
  <2> QED BY <1>1, <1>6, <2>4 DEF SettleMirror
<1> QED BY <1>2, <1>3, <1>4, <1>5, <1>6, RowsMove

LEMMA FinancialShapeKept == FinancialInv /\ FinancialShape /\ [FinancialNext]_financialVars => FinancialShape'
<1> SUFFICES ASSUME FinancialInv, FinancialShape, [FinancialNext]_financialVars PROVE FinancialShape'
  OBVIOUS
<1> USE DEF FinancialShape
<1>1. RowsShaped' /\ Forward
  BY RowsShapedKept
<1>2. RequestsShaped'
  BY <1>1, RequestsShapedKept
<1>3. ExecutionsCounted' /\ BornOnce'
  BY ExecutionsCountedKept, BornOnceKept
<1>4. guardOn' = guardOn
  BY DEF FinancialNext, financialVars, CallCreate, CallAuthorize, CallEvidence, CallVerify, CallBridge,
         CallExecute, CallSync, Accept, Lookup, Insert, GuardRefuses, GuardClaims, GuardAbsent, Decide, Load,
         Link, FindMirror, SettleMirror, ServeEvidence, Snapshot, StoreEvidence, Abort, ClaimExpires, SettlePayment
<1>5. claimed' \subseteq claimed \/ \E c \in Calls : GuardClaims(c)
  BY DEF FinancialNext, financialVars, CallCreate, CallAuthorize, CallEvidence, CallVerify, CallBridge,
         CallExecute, CallSync, Accept, Lookup, Insert, GuardRefuses, GuardAbsent, Decide, Load,
         Link, FindMirror, SettleMirror, ServeEvidence, Snapshot, StoreEvidence, Abort, ClaimExpires, SettlePayment
<1>6. ASSUME NEW c \in Calls, GuardClaims(c) PROVE claimed' \subseteq Keys
  <2>1. RowKey(c) \in Keys
    BY <1>6, KeyInHand DEF GuardClaims, Stands, RequestsShaped, RequestShape
  <2>2. claimed' \subseteq claimed \cup {RowKey(c)}
    BY <1>6 DEF GuardClaims
  <2> QED BY <2>1, <2>2
<1> QED BY <1>1, <1>2, <1>3, <1>4, <1>5, <1>6

LEMMA FinancialTypes == FinancialInv /\ FinancialShape => FinancialTypeOK
<1> SUFFICES ASSUME FinancialInv, FinancialShape PROVE FinancialTypeOK
  OBVIOUS
<1>1. executions \in Nat /\ executions <= Cardinality(Calls) /\ Cardinality(Calls) \in Nat
  <2>1. Over \subseteq Calls
    BY DEF Over
  <2>2. IsFiniteSet(Over) /\ Cardinality(Over) <= Cardinality(Calls)
    BY <2>1, FinancialAssumption, FS_Subset
  <2>3. Cardinality(Over) \in Nat /\ Cardinality(Calls) \in Nat
    BY <2>2, FinancialAssumption, FS_CardinalityType
  <2> QED BY <2>2, <2>3 DEF FinancialInv, Counted, FinancialShape, ExecutionsCounted
<1>2. ASSUME NEW k \in Keys
      PROVE  /\ intent[k].status \in IntentStatus
             /\ intent[k].payment \in Linked /\ intent[k].execution \in Execution
             /\ intent[k].evidence \subseteq Envelope /\ Cardinality(intent[k].evidence) <= 1
  <2>1. intent[k] \in RowState /\ RowShape(intent[k])
    BY DEF FinancialInv, RowsTrue, FinancialShape, RowsShaped
  <2>2. intent[k].execution \in Execution
    BY <1>1, <2>1 DEF RowState, RowShape, Execution
  <2> QED BY <2>1, <2>2, SingleCardinality DEF RowState, RowShape
<1>3. ASSUME NEW c \in Calls
      PROVE  /\ request[c].at \in Stage /\ request[c].op \in Operation
             /\ request[c].key \subseteq Keys /\ Cardinality(request[c].key) <= 1
             /\ request[c].payment \in Linked /\ request[c].execution \in Execution
             /\ request[c].decision \in IntentStatus /\ request[c].envelope \subseteq Envelope
  <2>1. request[c] \in RequestState /\ RequestShape(request[c])
    BY DEF FinancialInv, RequestsTrue, FinancialShape, RequestsShaped
  <2>2. request[c].execution \in Execution /\ request[c].decision \in IntentStatus
    BY <1>1, <2>1 DEF RequestState, RequestShape, Execution, IntentStatus
  <2> QED BY <2>1, <2>2, SingleCardinality DEF RequestState, RequestShape
<1>4. executions \in Execution
  BY <1>1 DEF Execution
<1>5. ToSet(born) = {k \in Keys : intent[k].status # "none"} /\ IsInjective(born)
  BY DEF FinancialShape, BornOnce, Stored
<1> QED BY <1>2, <1>3, <1>4, <1>5 DEF FinancialTypeOK, FinancialShape, FinancialInv, Counted
-----------------------------------------------------------------------------
LEMMA FactsTyped == FactsSpec => []FactsTypeOK
BY FactsStart, FactsStep, FactsShapeStarts, FactsShapeKept, FactsTypes, PTL DEF FactsSpec

LEMMA LimitsTyped == LimitsSpec => []LimitsTypeOK
BY LimitsStart, LimitsStep, LimitsShapeStarts, LimitsShapeKept, LimitsTypes, PTL DEF LimitsSpec

LEMMA AuthTyped == AuthSpec => []AuthTypeOK
BY AuthStarts, AuthStep, SessionShapeStarts, SessionShapeKept, SessionTypes, PTL DEF AuthSpec

LEMMA GuardTyped == GuardSpec => []GuardTypeOK
BY GuardStarts, GuardStep, GuardShapeStarts, GuardShapeKept, GuardTypes, PTL DEF GuardSpec

LEMMA FinancialTyped == FinancialSpec => []FinancialTypeOK
BY FinancialStarts, FinancialStep, FinancialShapeStarts, FinancialShapeKept, FinancialTypes, PTL DEF FinancialSpec

LEMMA AuditTyped == AuditSpec => []AuditTypeOK
<1>1. AuditInv => AuditTypeOK
  BY DEF AuditInv
<1> QED BY <1>1, AuditInvariant, PTL

LEMMA DiscoveryTyped == DiscoverySpec => []DiscoveryTypeOK
<1>1. DiscoveryInv => DiscoveryTypeOK
  BY DEF DiscoveryInv
<1> QED BY <1>1, DiscoveryStarts, DiscoveryStep, PTL DEF DiscoverySpec

\* The parts side by side: each keeps to its own specification, so that what
\* is proved of a part is true of them together.
LEMMA EachPart ==
  Spec => /\ AuditSpec /\ FinancialSpec /\ GuardSpec /\ FactsSpec
          /\ DiscoverySpec /\ LimitsSpec /\ AuthSpec
<1>1. Init => /\ AuditInit /\ FinancialInit /\ GuardInit /\ FactsInit
              /\ DiscoveryInit /\ LimitsInit /\ AuthInit
  BY DEF Init
<1>2. [Next]_edgeVars =>
        /\ [AuditNext]_auditVars /\ [FinancialNext]_financialVars /\ [GuardNext]_guardVars
        /\ [FactsNext]_factsVars /\ [DiscoveryNext]_discoveryVars
        /\ [LimitsNext]_limitVars /\ [AuthNext]_authVars
  BY DEF Next, edgeVars
<1> QED BY <1>1, <1>2, PTL DEF Spec, AuditSpec, FinancialSpec, GuardSpec, FactsSpec, DiscoverySpec, LimitsSpec, AuthSpec

\* Every variable of the parts around the payment calls keeps its type, for
\* every size of every part: a call holds one row at a time, an execution id
\* is on one row and no call gives out a second, intents are listed once in
\* the order they were created in (v5Store.ts), the pairs of the session are
\* ones that were issued (AuthProvider.tsx), the rate's timestamps are past.
THEOREM EdgesWellTyped == Spec => []EdgesTypeOK
<1>1. /\ AuditTypeOK /\ FinancialTypeOK /\ GuardTypeOK /\ FactsTypeOK
      /\ DiscoveryTypeOK /\ LimitsTypeOK /\ AuthTypeOK
      => EdgesTypeOK
  BY DEF EdgesTypeOK
<1> QED BY <1>1, EachPart, AuditTyped, FinancialTyped, GuardTyped, FactsTyped, DiscoveryTyped, LimitsTyped, AuthTyped, PTL
==============================================================================
