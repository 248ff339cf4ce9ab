-------------------------- MODULE BudgetGuardProofs --------------------------
(***************************************************************************)
(* Theorems about BudgetGuard, for any calls, payments, amounts, windows   *)
(* and times.                                                              *)
(***************************************************************************)
EXTENDS BudgetGuard, SumLemmas, TLAPS

Running(q) == call[q].pc \in {"claim", "lock", "check"}
\* The calls that hold a replay claim for what they are doing or have done.
Claimed(q) == call[q].pc \in {"lock", "check"} \/ auths[q].status # "none"

\* What a call asks for is known while it runs, and its clock has been read.
CallsKnown ==
    \A q \in Requests :
        /\ call[q].at <= now
        /\ Running(q) => call[q].fingerprint \in Fingerprints /\ call[q].amount \in Amounts

\* An authorization is what its call asked for; the call is over.
AuthsKnown ==
    \A q \in Requests : auths[q].status # "none" =>
        /\ call[q].pc = "done" /\ auths[q].amount \in Amounts
        /\ auths[q].fingerprint \in Fingerprints
        /\ auths[q].fingerprint = call[q].fingerprint /\ auths[q].at = call[q].at

\* A claim lasts a TTL from the clock reading of every call that made it.
ClaimsLast ==
    \A q \in Requests : Claimed(q) =>
        /\ replays[call[q].fingerprint] # None
        /\ call[q].at + ReplayTtl <= replays[call[q].fingerprint]

ClaimsApart ==
    \A p, q \in Requests :
        p # q /\ Claimed(p) /\ Claimed(q) /\ call[p].fingerprint = call[q].fingerprint
        => call[p].at + ReplayTtl <= call[q].at \/ call[q].at + ReplayTtl <= call[p].at

BudgetInv ==
    TypeOK /\ CallsKnown /\ AuthsKnown /\ ClaimsLast /\ ClaimsApart /\ SpendsMatchCommits

LEMMA BudgetStarts == Init => BudgetInv
<1> SUFFICES ASSUME Init PROVE BudgetInv
  OBVIOUS
<1> USE TimesAssumption, NoneAssumption DEF Init, NoAuth, NoCall
<1>1. TypeOK
  BY DEF TypeOK, Authorization, AuthStatus, Spend, Call
<1>2. CallsKnown /\ AuthsKnown /\ ClaimsLast /\ ClaimsApart
  BY DEF CallsKnown, AuthsKnown, ClaimsLast, ClaimsApart, Running, Claimed
<1>3. SpendsMatchCommits
  BY DEF SpendsMatchCommits
<1> QED
  BY <1>1, <1>2, <1>3 DEF BudgetInv
-----------------------------------------------------------------------------
(* authorizePayment.                                                       *)

\* A call that claims nothing and reserves nothing keeps what is known.
LEMMA CallMoves ==
  ASSUME BudgetInv, NEW q \in Requests, NEW c \in Call, call' = [call EXCEPT ![q] = c],
         c.at <= now, c.pc \in {"claim", "lock", "check"} => c.fingerprint \in Fingerprints /\ c.amount \in Amounts,
         c.pc \in {"lock", "check"} => call[q].pc \in {"lock", "check"}
                                       /\ c.fingerprint = call[q].fingerprint /\ c.at = call[q].at,
         auths[q].status = "none",
         UNCHANGED <<now, replays, auths, spends>>, lock' \in Requests \cup {None}
  PROVE  BudgetInv'
<1>1. call' \in [Requests -> Call] /\ call'[q] = c /\ \A p \in Requests \ {q} : call'[p] = call[p]
  BY DEF BudgetInv, TypeOK
<1>2. TypeOK'
  BY <1>1 DEF BudgetInv, TypeOK
<1>3. CallsKnown' /\ AuthsKnown'
  BY <1>1 DEF BudgetInv, CallsKnown, AuthsKnown, Running
<1>4. \A p \in Requests : Claimed(p)' =>
         Claimed(p) /\ call'[p].fingerprint = call[p].fingerprint /\ call'[p].at = call[p].at
  BY <1>1 DEF Claimed
<1>5. ClaimsLast' /\ ClaimsApart'
  BY <1>4 DEF BudgetInv, ClaimsLast, ClaimsApart
<1>6. SpendsMatchCommits'
  BY DEF BudgetInv, SpendsMatchCommits
<1> QED
  BY <1>2, <1>3, <1>5, <1>6 DEF BudgetInv

LEMMA CallsMoveOn ==
  ASSUME BudgetInv, NEW q \in Requests,
         \/ \E f \in Fingerprints, a \in Amounts : Authorize(q, f, a)
         \/ TakeLock(q) \/ Crash(q) \/ \E w \in Windows : CheckWindow(q, w)
  PROVE  BudgetInv'
<1>0. /\ call[q] \in Call /\ now \in 0..MaxTime /\ lock \in Requests \cup {None} /\ call[q].at <= now
      /\ Running(q) => call[q].fingerprint \in Fingerprints /\ call[q].amount \in Amounts
      /\ call[q].pc # "done" => auths[q].status = "none"
  BY DEF BudgetInv, TypeOK, CallsKnown, AuthsKnown
<1>1. ASSUME NEW f \in Fingerprints, NEW a \in Amounts, Authorize(q, f, a) PROVE BudgetInv'
  <2> DEFINE c == [pc |-> "claim", fingerprint |-> f, amount |-> a, at |-> now, checked |-> {}]
  <2>1. c \in Call /\ c.at <= now /\ c.fingerprint \in Fingerprints /\ c.amount \in Amounts /\ c.pc = "claim"
    BY <1>0, TimesAssumption DEF Call
  <2>2. call' = [call EXCEPT ![q] = c] /\ UNCHANGED <<now, replays, auths, spends, lock>> /\ auths[q].status = "none"
    BY <1>0, <1>1 DEF Authorize
  <2> HIDE DEF c
  <2> QED
    BY <1>0, <2>1, <2>2, CallMoves
<1>2. ASSUME NEW pc \in {"lock", "check", "done"}, call' = [call EXCEPT ![q].pc = pc], Running(q),
             pc \in {"lock", "check"} => call[q].pc \in {"lock", "check"},
             UNCHANGED <<now, replays, auths, spends>>, lock' \in Requests \cup {None}
      PROVE  BudgetInv'
  <2> DEFINE c == [call[q] EXCEPT !.pc = pc]
  <2>1. c \in Call /\ c.at = call[q].at /\ c.fingerprint = call[q].fingerprint /\ c.amount = call[q].amount /\ c.pc = pc
    BY <1>0 DEF Call
  <2>2. call' = [call EXCEPT ![q] = c] /\ auths[q].status = "none"
    BY <1>0, <1>2 DEF Running
  <2> HIDE DEF c
  <2> QED
    BY <1>0, <1>2, <2>1, <2>2, CallMoves
<1>3. CASE TakeLock(q)
  BY <1>0, <1>2, <1>3 DEF TakeLock, Running
<1>4. CASE Crash(q)
  BY <1>0, <1>2, <1>4 DEF Crash, Running
<1>5. ASSUME NEW w \in Windows, CheckWindow(q, w) PROVE BudgetInv'
  <2>0. call[q].pc = "check" /\ UNCHANGED <<now, replays, auths, spends>>
    BY <1>5 DEF CheckWindow
  <2>1. CASE EndTransaction(q)
    BY <1>0, <1>2, <2>0, <2>1 DEF EndTransaction, Running
  <2>2. CASE call' = [call EXCEPT ![q].checked = @ \cup {w}] /\ UNCHANGED lock
    <3> DEFINE c == [call[q] EXCEPT !.checked = @ \cup {w}]
    <3>1. c \in Call /\ c.at = call[q].at /\ c.fingerprint = call[q].fingerprint /\ c.amount = call[q].amount /\ c.pc = call[q].pc
      BY <1>0 DEF Call
    <3>2. call' = [call EXCEPT ![q] = c] /\ auths[q].status = "none"
      BY <1>0, <2>0, <2>2
    <3> HIDE DEF c
    <3> QED
      BY <1>0, <2>0, <2>2, <3>1, <3>2, CallMoves DEF Running
  <2> QED
    BY <1>5, <2>1, <2>2 DEF CheckWindow
<1> QED
  BY <1>1, <1>3, <1>4, <1>5

\* A claim is made only over one that has ended at the caller's clock reading.
LEMMA ClaimKeeps ==
  ASSUME BudgetInv, NEW q \in Requests, ClaimReplay(q)
  PROVE  BudgetInv'
<1> DEFINE f == call[q].fingerprint
<1>0. /\ call \in [Requests -> Call] /\ replays \in [Fingerprints -> Nat \cup {None}]
      /\ f \in Fingerprints /\ call[q].amount \in Amounts /\ call[q].at \in Nat /\ call[q].at <= now
      /\ auths[q].status = "none" /\ UNCHANGED <<now, auths, spends, lock>>
  BY TimesAssumption DEF ClaimReplay, BudgetInv, TypeOK, CallsKnown, AuthsKnown, Running, Call
<1>1. CASE call' = [call EXCEPT ![q].pc = "done"] /\ UNCHANGED replays
  <2> DEFINE c == [call[q] EXCEPT !.pc = "done"]
  <2>1. c \in Call /\ c.at = call[q].at /\ c.pc = "done"
    BY <1>0 DEF Call
  <2>2. call' = [call EXCEPT ![q] = c] /\ lock' \in Requests \cup {None}
    BY <1>0, <1>1 DEF BudgetInv, TypeOK
  <2> HIDE DEF c
  <2> QED
    BY <1>0, <1>1, <2>1, <2>2, CallMoves
<1>2. CASE /\ ~LiveReplay(f, call[q].at)
           /\ replays' = [replays EXCEPT ![f] = call[q].at + ReplayTtl]
           /\ call' = [call EXCEPT ![q].pc = "lock"]
  <2>1. /\ call' \in [Requests -> Call] /\ call'[q].pc = "lock"
        /\ \A p \in Requests : call'[p].at = call[p].at /\ call'[p].fingerprint = call[p].fingerprint
                               /\ call'[p].amount = call[p].amount /\ (p # q => call'[p] = call[p])
    BY <1>0, <1>2 DEF Call
  <2>2. replays' \in [Fingerprints -> Nat \cup {None}] /\ replays'[f] = call[q].at + ReplayTtl
        /\ \A g \in Fingerprints : g # f => replays'[g] = replays[g]
    BY <1>0, <1>2, TimesAssumption
  <2>3. \A p \in Requests : Claimed(p) => p # q /\ call[p].at \in Nat /\ call[p].fingerprint \in Fingerprints
    BY <1>0 DEF ClaimReplay, Claimed, BudgetInv, TypeOK, Call, CallsKnown, AuthsKnown, Running
  <2>4. \A p \in Requests : Claimed(p) /\ call[p].fingerprint = f => call[p].at + ReplayTtl <= call[q].at
    BY <1>0, <1>2, <2>3, TimesAssumption DEF LiveReplay, BudgetInv, ClaimsLast
  <2>5. \A p \in Requests : Claimed(p)' => Claimed(p) \/ p = q
    BY <1>0, <2>1 DEF Claimed
  <2>6. TypeOK'
    BY <1>0, <2>1, <2>2 DEF BudgetInv, TypeOK
  <2>7. CallsKnown' /\ AuthsKnown'
    BY <1>0, <2>1 DEF BudgetInv, CallsKnown, AuthsKnown, Running
  <2>8. ClaimsLast'
    <3> SUFFICES ASSUME NEW p \in Requests, Claimed(p)'
                 PROVE  /\ replays'[call[p].fingerprint] # None
                        /\ call[p].at + ReplayTtl <= replays'[call[p].fingerprint]
      BY <2>1 DEF ClaimsLast
    <3>1. CASE p = q
      BY <1>0, <2>2, <3>1, TimesAssumption, NoneAssumption
    <3>2. CASE Claimed(p) /\ call[p].fingerprint = f
      BY <1>0, <2>2, <2>3, <2>4, <3>2, TimesAssumption, NoneAssumption
    <3>3. CASE Claimed(p) /\ call[p].fingerprint # f
      BY <2>2, <2>3, <3>3 DEF BudgetInv, ClaimsLast
    <3> QED
      BY <2>5, <3>1, <3>2, <3>3
  <2>9. ClaimsApart'
    BY <2>1, <2>4, <2>5 DEF BudgetInv, ClaimsApart
  <2>10. SpendsMatchCommits'
    BY <1>0 DEF BudgetInv, SpendsMatchCommits
  <2> QED
    BY <2>6, <2>7, <2>8, <2>9, <2>10 DEF BudgetInv
<1> QED
  BY <1>1, <1>2 DEF ClaimReplay

LEMMA ReserveKeeps ==
  ASSUME BudgetInv, NEW q \in Requests, Reserve(q)
  PROVE  BudgetInv'
<1>0. /\ call \in [Requests -> Call] /\ auths \in [Requests -> Authorization]
      /\ call[q].fingerprint \in Fingerprints /\ call[q].amount \in Amounts
      /\ call[q].pc = "check" /\ auths[q].status = "none"
      /\ UNCHANGED <<now, replays, spends>> /\ lock' = None
  BY DEF Reserve, EndTransaction, BudgetInv, TypeOK, CallsKnown, AuthsKnown, Running
<1>1. /\ call' \in [Requests -> Call] /\ call'[q].pc = "done"
      /\ \A p \in Requests : call'[p].at = call[p].at /\ call'[p].fingerprint = call[p].fingerprint
                             /\ call'[p].amount = call[p].amount /\ (p # q => call'[p] = call[p])
  BY <1>0 DEF Reserve, EndTransaction, Call
<1>2. Reservation(q) \in Authorization /\ Reservation(q).status = "reserved" /\ Reservation(q).amount = call[q].amount
      /\ Reservation(q).at = call[q].at /\ Reservation(q).fingerprint = call[q].fingerprint
  BY <1>0 DEF Reservation, CreatedAt, Authorization, AuthStatus, Call
<1>3. auths' \in [Requests -> Authorization] /\ auths'[q] = Reservation(q)
      /\ \A p \in Requests \ {q} : auths'[p] = auths[p]
  BY <1>0, <1>2 DEF Reserve
<1>4. TypeOK'
  BY <1>0, <1>1, <1>3 DEF BudgetInv, TypeOK
<1>5. CallsKnown' /\ AuthsKnown'
  BY <1>0, <1>1, <1>2, <1>3 DEF BudgetInv, CallsKnown, AuthsKnown, Running
<1>6. \A p \in Requests : Claimed(p)' => Claimed(p)
  BY <1>0, <1>1, <1>3 DEF Claimed
<1>7. ClaimsLast' /\ ClaimsApart'
  BY <1>0, <1>1, <1>6 DEF BudgetInv, ClaimsLast, ClaimsApart
<1>8. SpendsMatchCommits'
  BY <1>0, <1>2, <1>3 DEF BudgetInv, SpendsMatchCommits
<1> QED
  BY <1>4, <1>5, <1>7, <1>8 DEF BudgetInv
-----------------------------------------------------------------------------
(* Settlement of an authorization, and time.                               *)

\* An authorization that changes its status and nothing else.
LEMMA ResolutionKeeps ==
  ASSUME BudgetInv, NEW q \in Requests, NEW status \in {"committed", "released"},
         auths[q].status = "reserved", auths' = [auths EXCEPT ![q].status = status],
         UNCHANGED <<now, replays, lock, call>>
  PROVE  /\ auths' \in [Requests -> Authorization] /\ auths'[q].status = status
         /\ \A p \in Requests : auths'[p].amount = auths[p].amount /\ auths'[p].at = auths[p].at
                                /\ auths'[p].fingerprint = auths[p].fingerprint
                                /\ (p # q => auths'[p] = auths[p])
         /\ CallsKnown' /\ AuthsKnown' /\ ClaimsLast' /\ ClaimsApart'
<1>1. auths \in [Requests -> Authorization]
  BY DEF BudgetInv, TypeOK
<1>2. /\ auths' \in [Requests -> Authorization] /\ auths'[q].status = status
      /\ \A p \in Requests : auths'[p].amount = auths[p].amount /\ auths'[p].at = auths[p].at
                             /\ auths'[p].fingerprint = auths[p].fingerprint
                             /\ (p # q => auths'[p] = auths[p])
  BY <1>1 DEF Authorization, AuthStatus
<1>3. \A p \in Requests : auths'[p].status # "none" => auths[p].status # "none"
  BY <1>2
<1>4. CallsKnown' /\ AuthsKnown'
  BY <1>2, <1>3 DEF BudgetInv, CallsKnown, AuthsKnown, Running
<1>5. ClaimsLast' /\ ClaimsApart'
  BY <1>3 DEF BudgetInv, ClaimsLast, ClaimsApart, Claimed
<1> QED
  BY <1>2, <1>4, <1>5

LEMMA CommitKeeps ==
  ASSUME BudgetInv, NEW q \in Requests, Commit(q)
  PROVE  BudgetInv'
<1>0. /\ auths[q].status = "reserved" /\ auths' = [auths EXCEPT ![q].status = "committed"]
      /\ UNCHANGED <<now, replays, lock, call>> /\ spends' = spends \cup {SpendOf(q)}
  BY DEF Commit, Committable
<1>1. /\ auths' \in [Requests -> Authorization] /\ auths'[q].status = "committed"
      /\ \A p \in Requests : auths'[p].amount = auths[p].amount /\ auths'[p].at = auths[p].at
                             /\ auths'[p].fingerprint = auths[p].fingerprint
                             /\ (p # q => auths'[p] = auths[p])
      /\ CallsKnown' /\ AuthsKnown' /\ ClaimsLast' /\ ClaimsApart'
  BY <1>0, ResolutionKeeps
<1>2. auths[q].amount \in Amounts /\ auths[q].at <= now /\ now \in 0..MaxTime
  BY <1>0 DEF BudgetInv, TypeOK, CallsKnown, AuthsKnown
<1>3. SpendOf(q) \in Spend /\ SpendOf(q).auth = q /\ SpendOf(q).amount = auths[q].amount /\ SpendOf(q).at = now
  BY <1>2 DEF SpendOf, Spend
<1>4. TypeOK'
  BY <1>0, <1>1, <1>3 DEF BudgetInv, TypeOK
<1>5. SpendsMatchCommits'
  <2> SUFFICES ASSUME NEW p \in Requests
               PROVE  IF auths'[p].status = "committed"
                      THEN \E s \in {x \in spends' : x.auth = p} :
                             /\ {x \in spends' : x.auth = p} = {s}
                             /\ s.amount = auths'[p].amount /\ s.at >= auths'[p].at
                      ELSE {x \in spends' : x.auth = p} = {}
    BY DEF SpendsMatchCommits
  <2>1. CASE p = q
    <3>1. {x \in spends : x.auth = q} = {}
      BY <1>0 DEF BudgetInv, SpendsMatchCommits
    <3>2. {x \in spends' : x.auth = q} = {SpendOf(q)}
      BY <1>0, <1>3, <3>1
    <3> QED
      BY <1>1, <1>2, <1>3, <2>1, <3>2
  <2>2. CASE p # q
    <3>1. {x \in spends' : x.auth = p} = {x \in spends : x.auth = p} /\ auths'[p] = auths[p]
      BY <1>0, <1>1, <1>3, <2>2
    <3> QED
      BY <3>1 DEF BudgetInv, SpendsMatchCommits
  <2> QED
    BY <2>1, <2>2
<1> QED
  BY <1>1, <1>4, <1>5 DEF BudgetInv

LEMMA ReleaseKeeps ==
  ASSUME BudgetInv, NEW q \in Requests, Release(q)
  PROVE  BudgetInv'
<1>0. /\ auths[q].status = "reserved" /\ auths' = [auths EXCEPT ![q].status = "released"]
      /\ UNCHANGED <<now, replays, lock, call, spends>>
  BY DEF Release
<1>1. /\ auths' \in [Requests -> Authorization] /\ auths'[q].status = "released"
      /\ \A p \in Requests : p # q => auths'[p] = auths[p]
      /\ CallsKnown' /\ AuthsKnown' /\ ClaimsLast' /\ ClaimsApart'
  BY <1>0, ResolutionKeeps
<1>2. TypeOK'
  BY <1>0, <1>1 DEF BudgetInv, TypeOK
<1>3. SpendsMatchCommits'
  BY <1>0, <1>1 DEF BudgetInv, SpendsMatchCommits
<1> QED
  BY <1>1, <1>2, <1>3 DEF BudgetInv

LEMMA TickKeeps == BudgetInv /\ Tick => BudgetInv'
<1> SUFFICES ASSUME BudgetInv, Tick PROVE BudgetInv'
  OBVIOUS
<1>1. now' = now + 1 /\ now' \in 0..MaxTime /\ now \in Nat /\ UNCHANGED <<replays, auths, spends, lock, call>>
  BY TimesAssumption DEF Tick, BudgetInv, TypeOK
<1>2. \A q \in Requests : call[q].at \in Nat
  BY TimesAssumption DEF BudgetInv, TypeOK, Call
<1>3. TypeOK'
  BY <1>1 DEF BudgetInv, TypeOK
<1>4. CallsKnown' /\ AuthsKnown'
  BY <1>1, <1>2 DEF BudgetInv, CallsKnown, AuthsKnown, Running
<1>5. ClaimsLast' /\ ClaimsApart' /\ SpendsMatchCommits'
  BY <1>1 DEF BudgetInv, ClaimsLast, ClaimsApart, SpendsMatchCommits, Claimed
<1> QED
  BY <1>3, <1>4, <1>5 DEF BudgetInv

LEMMA BudgetStep == BudgetInv /\ [Next]_vars => BudgetInv'
<1> SUFFICES ASSUME BudgetInv, [Next]_vars PROVE BudgetInv'
  OBVIOUS
<1>1. CASE UNCHANGED vars
  BY <1>1 DEF vars, BudgetInv, TypeOK, CallsKnown, AuthsKnown, ClaimsLast, ClaimsApart,
              SpendsMatchCommits, Running, Claimed
<1>2. CASE Next
  BY <1>2, CallsMoveOn, ClaimKeeps, ReserveKeeps, CommitKeeps, ReleaseKeeps, TickKeeps DEF Next
<1> QED
  BY <1>1, <1>2
-----------------------------------------------------------------------------
\* Rows, claims and the locals of calls stay within their tables and types,
\* whichever calls crash and however the clock moves between their statements.
THEOREM LedgerTyped == Spec => []TypeOK
<1>1. BudgetInv => TypeOK
  BY DEF BudgetInv
<1> QED
  BY BudgetStarts, BudgetStep, <1>1, PTL DEF Spec

\* Two authorizations of one payment fingerprint lie a replay TTL apart
\* (storage.ts claimReplay), however late a call runs after its clock reading.
THEOREM AuthorizationsApart == Spec => []ReplayWindow
<1>1. BudgetInv => ReplayWindow
  BY DEF BudgetInv, AuthsKnown, ClaimsApart, ReplayWindow, Claimed
<1> QED
  BY BudgetStarts, BudgetStep, <1>1, PTL DEF Spec

\* A committed authorization has exactly one spend, of its amount and not
\* dated before it, and no other authorization has any (commitAuthorization).
THEOREM LedgerAgrees == Spec => []SpendsMatchCommits
<1>1. BudgetInv => SpendsMatchCommits
  BY DEF BudgetInv
<1> QED
  BY BudgetStarts, BudgetStep, <1>1, PTL DEF Spec

\* A committed or released authorization never changes again (INV-005).
THEOREM ResolvedOnce == Spec => AuthorizationFinal
<1>1. BudgetInv /\ [Next]_vars =>
        [\A q \in Requests : auths[q].status \in {"committed", "released"} => auths'[q] = auths[q]]_vars
  <2> SUFFICES ASSUME BudgetInv, Next, NEW q \in Requests, auths[q].status \in {"committed", "released"}
               PROVE  auths'[q] = auths[q]
    BY DEF vars
  <2>1. auths \in [Requests -> Authorization] /\ call[q].pc = "done"
    BY DEF BudgetInv, TypeOK, AuthsKnown
  <2>2. ASSUME NEW p \in Requests, Reserve(p) \/ Commit(p) \/ Release(p) PROVE auths'[q] = auths[q]
    <3>1. p # q
      BY <2>1, <2>2 DEF Reserve, Commit, Committable, Release
    <3> QED
      BY <2>1, <2>2, <3>1 DEF Reserve, Commit, Release
  <2> QED
    BY <2>2 DEF Next, Authorize, ClaimReplay, TakeLock, CheckWindow, Crash, Tick
<1> QED
  BY BudgetStarts, BudgetStep, <1>1, PTL DEF Spec, AuthorizationFinal
-----------------------------------------------------------------------------
(***************************************************************************)
(* The windows.  A call under the lock has seen, for each window it has    *)
(* checked, what was granted since its cutoff; until it reserves or gives  *)
(* up nobody else can be granted anything, while what commits meanwhile    *)
(* only moves from the reservations to the spends.  So the room it found   *)
(* is still there when it reserves, and the reservation, whose time is the *)
(* call's clock reading, lies in no stretch the cutoff leaves out.         *)
(***************************************************************************)
AmountOf == [q \in Requests |-> auths[q].amount]

GrantedSince(cutoff) == {p \in Granted : auths[p].at >= cutoff}
Stretch(q, w) == {p \in Granted : /\ auths[p].at >= auths[q].at
                                  /\ auths[p].at <= auths[q].at + w.seconds}

RoomSeen(q, w) == AuthTotal(GrantedSince(call[q].at - w.seconds)) + call[q].amount <= w.max

WindowInv ==
    /\ IsFiniteSet(Granted) /\ IsFiniteSet(spends)
    /\ \A q \in Requests :
          /\ call[q].pc \in {"claim", "lock"} => call[q].checked = {}
          /\ call[q].pc = "check" => lock = q /\ \A w \in call[q].checked : RoomSeen(q, w)
    /\ WindowGrantsCapped

LEMMA GrantedAmounts ==
  ASSUME BudgetInv
  PROVE  /\ \A q \in Requests : AmountOf[q] \in Nat /\ auths[q].at \in Nat
         /\ Granted \subseteq Requests
<1>1. \A q \in Requests : auths[q] \in Authorization
  BY DEF BudgetInv, TypeOK
<1>2. Amounts \cup {0} \subseteq Nat /\ 0 .. MaxTime \subseteq Nat
  BY AmountsAssumption, TimesAssumption
<1> QED
  BY <1>1, <1>2 DEF Authorization, AmountOf, Granted

\* The totals are natural numbers, and no part of what is granted adds up to
\* more than the whole.
LEMMA GrantedTotals ==
  ASSUME BudgetInv, WindowInv, NEW T, T \subseteq Granted, NEW S, S \subseteq T
  PROVE  /\ IsFiniteSet(T) /\ AuthTotal(S) \in Nat /\ AuthTotal(T) \in Nat
         /\ AuthTotal(S) <= AuthTotal(T)
<1>1. T \in SUBSET Granted /\ S \in SUBSET T /\ IsFiniteSet(Granted)
  BY DEF WindowInv
<1>2. IsFiniteSet(T) /\ IsFiniteSet(S)
  BY <1>1, FS_Subset
<1>3. (\A q \in T : AmountOf[q] \in Nat) /\ (\A q \in S : AmountOf[q] \in Nat)
  BY GrantedAmounts
<1>4. /\ SumFunctionOnSet(AmountOf, S) \in Nat /\ SumFunctionOnSet(AmountOf, T) \in Nat
      /\ SumFunctionOnSet(AmountOf, S) <= SumFunctionOnSet(AmountOf, T)
  BY <1>1, <1>2, <1>3, SumNatural, SumMonotone
<1> QED
  BY <1>2, <1>4 DEF AuthTotal, AmountOf

LEMMA WindowsStart == Init => WindowInv
<1> SUFFICES ASSUME Init PROVE WindowInv
  OBVIOUS
<1>1. Granted = {} /\ spends = {}
  BY DEF Init, NoAuth, Granted
<1>2. IsFiniteSet(Granted) /\ IsFiniteSet(spends)
  BY <1>1, FS_EmptySet
<1>3. \A q \in Requests : call[q].pc = "idle"
  BY DEF Init, NoCall
<1>4. WindowGrantsCapped
  BY <1>1 DEF WindowGrantsCapped
<1> QED
  BY <1>2, <1>3, <1>4 DEF WindowInv

\* What the calls know stays known when nothing new is granted.
LEMMA NothingGranted ==
  ASSUME BudgetInv, WindowInv, BudgetInv', IsFiniteSet(spends'),
         Granted' \subseteq Granted,
         \A p \in Granted' : auths'[p].amount = auths[p].amount /\ auths'[p].at = auths[p].at
  PROVE  /\ IsFiniteSet(Granted')
         /\ WindowGrantsCapped'
         /\ \A cutoff \in Int : /\ AuthTotal(GrantedSince(cutoff))' \in Nat
                                 /\ AuthTotal(GrantedSince(cutoff)) \in Nat
                                 /\ AuthTotal(GrantedSince(cutoff))' <= AuthTotal(GrantedSince(cutoff))
<1>1. IsFiniteSet(Granted')
  BY FS_Subset DEF WindowInv
<1>2. ASSUME NEW S, S \subseteq Granted'
      PROVE  SumFunctionOnSet(AmountOf', S) = SumFunctionOnSet(AmountOf, S)
  <2>1. IsFiniteSet(S)
    BY <1>1, <1>2, FS_Subset
  <2>2. \A q \in S : q \in Requests /\ q \in Granted'
    BY <1>2 DEF Granted
  <2>3. \A q \in S : AmountOf[q] \in Int /\ AmountOf'[q] = AmountOf[q]
    <3>1. \A q \in S : AmountOf[q] \in Int
      BY <2>2, GrantedAmounts
    <3> QED
      BY <2>2, <3>1 DEF AmountOf
  <2> QED
    BY <2>1, <2>3, SumSame
<1>3. ASSUME NEW S, S \subseteq Granted', NEW T, T \subseteq Granted, S \subseteq T
      PROVE  /\ SumFunctionOnSet(AmountOf', S) \in Nat /\ AuthTotal(T) \in Nat
             /\ SumFunctionOnSet(AmountOf', S) <= AuthTotal(T)
  <2>1. AuthTotal(S) \in Nat /\ AuthTotal(T) \in Nat /\ AuthTotal(S) <= AuthTotal(T)
    BY <1>3, GrantedTotals
  <2>2. AuthTotal(S) = SumFunctionOnSet(AmountOf', S)
    BY <1>2, <1>3 DEF AuthTotal, AmountOf
  <2> QED
    BY <2>1, <2>2
<1>4. ASSUME NEW cutoff \in Int
      PROVE  /\ AuthTotal(GrantedSince(cutoff))' \in Nat
             /\ AuthTotal(GrantedSince(cutoff)) \in Nat
             /\ AuthTotal(GrantedSince(cutoff))' <= AuthTotal(GrantedSince(cutoff))
  <2>1. /\ GrantedSince(cutoff)' \subseteq Granted' /\ GrantedSince(cutoff) \subseteq Granted
        /\ GrantedSince(cutoff)' \subseteq GrantedSince(cutoff)
    BY DEF GrantedSince
  <2>2. AuthTotal(GrantedSince(cutoff))' = SumFunctionOnSet(AmountOf', GrantedSince(cutoff)')
    BY DEF AuthTotal, AmountOf
  <2> QED
    BY <1>3, <2>1, <2>2
<1>5. WindowGrantsCapped'
  <2> SUFFICES ASSUME NEW w \in Windows, NEW q \in Granted'
               PROVE  AuthTotal(Stretch(q, w))' <= w.max
    BY DEF WindowGrantsCapped, Stretch
  <2>1. /\ Stretch(q, w)' \subseteq Granted' /\ Stretch(q, w) \subseteq Granted
        /\ Stretch(q, w)' \subseteq Stretch(q, w)
    BY DEF Stretch
  <2>2. AuthTotal(Stretch(q, w))' = SumFunctionOnSet(AmountOf', Stretch(q, w)')
    BY DEF AuthTotal, AmountOf
  <2>3. AuthTotal(Stretch(q, w)) <= w.max
    BY DEF WindowInv, WindowGrantsCapped, Stretch
  <2>4. w.max \in Nat
    BY WindowsAssumption
  <2>5. /\ AuthTotal(Stretch(q, w))' \in Nat /\ AuthTotal(Stretch(q, w)) \in Nat
        /\ AuthTotal(Stretch(q, w))' <= AuthTotal(Stretch(q, w))
    BY <1>3, <2>1, <2>2
  <2> QED
    BY <2>3, <2>4, <2>5
<1> QED
  BY <1>1, <1>4, <1>5
\* A step that grants nothing, and lets nobody but the holder of the lock have
\* checked windows, each of them with room.
LEMMA RoomStays ==
  ASSUME BudgetInv, WindowInv, BudgetInv', IsFiniteSet(spends'),
         Granted' \subseteq Granted,
         \A p \in Granted' : auths'[p].amount = auths[p].amount /\ auths'[p].at = auths[p].at,
         \A q \in Requests : call'[q].pc \in {"claim", "lock"} => call'[q].checked = {},
         \A q \in Requests : call'[q].pc = "check" => lock' = q,
         \A q \in Requests : call'[q].pc = "check" =>
            \A w \in call'[q].checked :
                call'[q].at = call[q].at /\ call'[q].amount = call[q].amount /\ RoomSeen(q, w)
  PROVE  WindowInv'
<1>1. /\ IsFiniteSet(Granted') /\ WindowGrantsCapped'
      /\ \A cutoff \in Int : /\ AuthTotal(GrantedSince(cutoff))' \in Nat
                             /\ AuthTotal(GrantedSince(cutoff)) \in Nat
                             /\ AuthTotal(GrantedSince(cutoff))' <= AuthTotal(GrantedSince(cutoff))
  BY NothingGranted
<1>2. ASSUME NEW q \in Requests, call'[q].pc = "check", NEW w \in call'[q].checked
      PROVE  RoomSeen(q, w)'
  <2>1. call'[q] \in Call /\ call[q] \in Call
    BY DEF BudgetInv, TypeOK
  <2>2. w \in Windows /\ call'[q].at \in 0 .. MaxTime /\ call'[q].amount \in Amounts \cup {0}
    BY <1>2, <2>1 DEF Call
  <2>3. w.seconds \in Nat /\ w.max \in Nat /\ call'[q].at \in Nat /\ call'[q].amount \in Nat
    <3>1. w.seconds \in Nat /\ w.max \in Nat
      BY <2>2, WindowsAssumption
    <3>2. call'[q].amount \in Nat
      <4>1. Amounts \cup {0} \subseteq Nat
        BY AmountsAssumption
      <4> QED
        BY <2>2, <4>1
    <3>3. call'[q].at \in Nat
      BY <2>2, TimesAssumption
    <3> QED
      BY <3>1, <3>2, <3>3
  <2>4. PICK cutoff \in Int : cutoff = call'[q].at - w.seconds
    BY <2>3
  <2>5. call'[q].at = call[q].at /\ call'[q].amount = call[q].amount /\ RoomSeen(q, w)
    BY <1>2
  <2>6. AuthTotal(GrantedSince(cutoff)) + call'[q].amount <= w.max
    BY <2>4, <2>5 DEF RoomSeen
  <2>7. AuthTotal(GrantedSince(cutoff))' + call'[q].amount <= w.max
    BY <1>1, <2>3, <2>6
  <2> QED
    BY <2>4, <2>7 DEF RoomSeen, GrantedSince
<1> QED
  BY <1>1, <1>2 DEF WindowInv

\* What is committed adds up to the spends since the same time: each has one
\* spend, of its amount and not dated before it.
LEMMA CommittedIsSpent ==
  ASSUME BudgetInv, WindowInv, NEW cutoff \in Int
  PROVE  /\ AuthTotal({p \in Granted : auths[p].status = "committed" /\ auths[p].at >= cutoff})
               <= SpendTotal({s \in spends : s.at >= cutoff})
         /\ SpendTotal({s \in spends : s.at >= cutoff}) \in Nat
<1> DEFINE C == {p \in Granted : auths[p].status = "committed" /\ auths[p].at >= cutoff}
           R == {s \in spends : s.at >= cutoff}
           paid == [s \in spends |-> s.amount]
           name == [p \in C |-> CHOOSE s \in spends : s.auth = p]
           N == {name[p] : p \in C}
<1>1. IsFiniteSet(C) /\ C \subseteq Requests /\ \A p \in C : AmountOf[p] \in Nat
  <2>1. C \subseteq Granted /\ Granted \subseteq Requests /\ IsFiniteSet(Granted)
    BY GrantedAmounts DEF WindowInv
  <2>2. IsFiniteSet(C)
    BY <2>1, FS_Subset
  <2> QED
    BY <2>1, <2>2, GrantedAmounts
<1>2. \A p \in C : name[p] \in spends /\ name[p].auth = p /\ name[p].amount = auths[p].amount
                   /\ name[p].at >= auths[p].at
  <2> SUFFICES ASSUME NEW p \in C
               PROVE  /\ name[p] \in spends /\ name[p].auth = p
                      /\ name[p].amount = auths[p].amount /\ name[p].at >= auths[p].at
    OBVIOUS
  <2>1. p \in Requests /\ auths[p].status = "committed"
    BY <1>1
  <2>2. PICK s \in {x \in spends : x.auth = p} :
           /\ {x \in spends : x.auth = p} = {s} /\ s.amount = auths[p].amount /\ s.at >= auths[p].at
    BY <2>1 DEF BudgetInv, SpendsMatchCommits
  <2>3. name[p] \in spends /\ name[p].auth = p
    BY <2>2
  <2>4. name[p] = s
    BY <2>2, <2>3
  <2> QED
    BY <2>2, <2>3, <2>4
<1>3. IsFiniteSet(R) /\ R \subseteq spends /\ \A s \in R : paid[s] \in Nat
  <2>1. R \in SUBSET spends /\ IsFiniteSet(spends)
    BY DEF WindowInv
  <2>2. \A s \in R : paid[s] \in Amounts
    BY DEF BudgetInv, TypeOK, Spend
  <2>3. IsFiniteSet(R)
    BY <2>1, FS_Subset
  <2>4. Amounts \subseteq Nat
    BY AmountsAssumption
  <2> HIDE DEF paid
  <2> QED
    BY <2>1, <2>2, <2>3, <2>4
<1>4. N \subseteq R
  <2> HIDE DEF name
  <2> SUFFICES ASSUME NEW p \in C PROVE name[p] \in R
    OBVIOUS
  <2>1. name[p] \in Spend /\ auths[p].at \in Nat
    BY <1>1, <1>2, GrantedAmounts DEF BudgetInv, TypeOK
  <2>2. name[p].at \in 0 .. MaxTime
    BY <2>1 DEF Spend
  <2>3. auths[p].at >= cutoff /\ name[p] \in spends /\ name[p].at >= auths[p].at
    BY <1>2
  <2>4. name[p].at >= cutoff
    BY <2>1, <2>2, <2>3, TimesAssumption
  <2> QED
    BY <2>3, <2>4
<1>5. /\ \A p \in C : AmountOf[p] \in Int /\ paid[name[p]] = AmountOf[p]
      /\ \A p, q \in C : name[p] = name[q] => p = q
  <2> HIDE DEF name, C
  <2>1. \A p \in C : paid[name[p]] = AmountOf[p]
    BY <1>1, <1>2 DEF AmountOf
  <2>2. \A p, q \in C : name[p] = name[q] => p = q
    BY <1>2
  <2> QED
    BY <1>1, <2>1, <2>2
<1> HIDE DEF C, R, name, paid
<1>6. SumFunctionOnSet(paid, N) = SumFunctionOnSet(AmountOf, C)
  BY <1>1, <1>5, SumRenamed
<1>7. SumFunctionOnSet(paid, N) <= SumFunctionOnSet(paid, R) /\ SumFunctionOnSet(paid, R) \in Nat
  BY <1>3, <1>4, SumMonotone, SumNatural
<1> QED
  BY <1>6, <1>7 DEF AuthTotal, SpendTotal, AmountOf, C, R, paid

\* So a window's query counts everything granted since its cutoff.
LEMMA QueryCountsGrants ==
  ASSUME BudgetInv, WindowInv, NEW cutoff \in Int
  PROVE  /\ AuthTotal(GrantedSince(cutoff)) <= TotalSince(cutoff)
         /\ AuthTotal(GrantedSince(cutoff)) \in Nat /\ TotalSince(cutoff) \in Nat
<1> DEFINE C == {p \in Granted : auths[p].status = "committed" /\ auths[p].at >= cutoff}
           H == {p \in ReservedRows : auths[p].at >= cutoff}
<1>1. C \subseteq Granted /\ H \subseteq Granted /\ C \cap H = {} /\ GrantedSince(cutoff) = H \cup C
  BY DEF Granted, ReservedRows, GrantedSince
<1>2. IsFiniteSet(C) /\ IsFiniteSet(H) /\ AuthTotal(C) \in Nat /\ AuthTotal(H) \in Nat
  BY <1>1, GrantedTotals
<1>3. \A p \in C \cup H : AmountOf[p] \in Int
  BY <1>1, GrantedAmounts
<1> HIDE DEF C, H
<1>4. SumFunctionOnSet(AmountOf, H \cup C) = SumFunctionOnSet(AmountOf, H) + SumFunctionOnSet(AmountOf, C)
  BY <1>1, <1>2, <1>3, SumUnion
<1>5. AuthTotal(GrantedSince(cutoff)) = AuthTotal(H) + AuthTotal(C)
  BY <1>1, <1>4 DEF AuthTotal, AmountOf
<1>6. PICK n \in Nat : n = SpendTotal({s \in spends : s.at >= cutoff}) /\ AuthTotal(C) <= n
  BY CommittedIsSpent DEF C
<1>7. TotalSince(cutoff) = n + AuthTotal(H)
  BY <1>6 DEF TotalSince, H
<1> QED
  BY <1>2, <1>5, <1>6, <1>7
\* A call that moves on by itself, and takes the lock from nobody.
LEMMA RoomKept ==
  ASSUME BudgetInv, WindowInv, BudgetInv', UNCHANGED <<auths, spends>>,
         NEW q \in Requests, NEW c, call' = [call EXCEPT ![q] = c],
         c.pc \in {"claim", "lock"} => c.checked = {},
         c.pc = "check" => /\ lock' = q
                           /\ \A w \in c.checked :
                                c.at = call[q].at /\ c.amount = call[q].amount /\ RoomSeen(q, w),
         \A p \in Requests \ {q} : lock = p => lock' = p
  PROVE  WindowInv'
<1>1. call'[q] = c /\ \A p \in Requests \ {q} : call'[p] = call[p]
  BY DEF BudgetInv, TypeOK
<1>2. Granted' = Granted /\ IsFiniteSet(spends')
  BY DEF Granted, WindowInv
<1>3. \A p \in Granted' : auths'[p].amount = auths[p].amount /\ auths'[p].at = auths[p].at
  OBVIOUS
<1>4. \A p \in Requests :
         /\ call[p].pc \in {"claim", "lock"} => call[p].checked = {}
         /\ call[p].pc = "check" => lock = p /\ \A w \in call[p].checked : RoomSeen(p, w)
  BY DEF WindowInv
<1>5. \A p \in Requests : call'[p].pc \in {"claim", "lock"} => call'[p].checked = {}
  BY <1>1, <1>4
<1>6. \A p \in Requests : call'[p].pc = "check" => lock' = p
  BY <1>1, <1>4
<1>7. \A p \in Requests : call'[p].pc = "check" =>
         \A w \in call'[p].checked :
            call'[p].at = call[p].at /\ call'[p].amount = call[p].amount /\ RoomSeen(p, w)
  BY <1>1, <1>4
<1> QED
  BY <1>2, <1>3, <1>5, <1>6, <1>7, RoomStays

LEMMA RoomWhileAsking ==
  ASSUME BudgetInv, WindowInv, BudgetInv', NEW q \in Requests,
         \/ \E f \in Fingerprints, a \in Amounts : Authorize(q, f, a)
         \/ ClaimReplay(q) \/ TakeLock(q) \/ Crash(q)
  PROVE  WindowInv'
<1>0. /\ call[q] \in Call /\ lock \in Requests \cup {None}
      /\ call[q].pc \in {"claim", "lock"} => call[q].checked = {}
  BY DEF BudgetInv, TypeOK, WindowInv
<1>1. ASSUME NEW f \in Fingerprints, NEW a \in Amounts, Authorize(q, f, a) PROVE WindowInv'
  <2> DEFINE c == [pc |-> "claim", fingerprint |-> f, amount |-> a, at |-> now, checked |-> {}]
  <2>1. c.pc = "claim" /\ c.checked = {}
    OBVIOUS
  <2>2. call' = [call EXCEPT ![q] = c] /\ UNCHANGED <<auths, spends, lock>>
    BY <1>1 DEF Authorize
  <2> HIDE DEF c
  <2> QED
    BY <2>1, <2>2, RoomKept
<1>2. ASSUME NEW pc \in {"lock", "check", "done"}, call' = [call EXCEPT ![q].pc = pc],
             pc \in {"lock", "check"} => call[q].checked = {}, pc = "check" => lock' = q,
             UNCHANGED <<auths, spends>>, \A p \in Requests \ {q} : lock = p => lock' = p
      PROVE  WindowInv'
  <2> DEFINE c == [call[q] EXCEPT !.pc = pc]
  <2>1. c.pc = pc /\ c.checked = call[q].checked /\ c.at = call[q].at /\ c.amount = call[q].amount
    BY <1>0 DEF Call
  <2>2. call' = [call EXCEPT ![q] = c]
    BY <1>2
  <2> HIDE DEF c
  <2>3. c.pc \in {"claim", "lock"} => c.checked = {}
    BY <1>2, <2>1
  <2>4. c.pc = "check" =>
           /\ lock' = q
           /\ \A w \in c.checked : c.at = call[q].at /\ c.amount = call[q].amount /\ RoomSeen(q, w)
    BY <1>2, <2>1
  <2> QED
    BY <1>2, <2>2, <2>3, <2>4, RoomKept
<1>3. CASE ClaimReplay(q)
  <2>1. call[q].pc = "claim" /\ UNCHANGED <<auths, spends, lock>>
    BY <1>3 DEF ClaimReplay
  <2>2. PICK pc \in {"lock", "done"} : call' = [call EXCEPT ![q].pc = pc]
    BY <1>3 DEF ClaimReplay
  <2> QED
    BY <1>0, <1>2, <2>1, <2>2
<1>4. CASE TakeLock(q)
  <2>1. /\ call[q].pc = "lock" /\ lock = None /\ lock' = q /\ UNCHANGED <<auths, spends>>
        /\ call' = [call EXCEPT ![q].pc = "check"]
    BY <1>4 DEF TakeLock, LockFree
  <2> QED
    BY <1>0, <1>2, <2>1, NoneAssumption
<1>5. CASE Crash(q)
  BY <1>2, <1>5 DEF Crash
<1> QED
  BY <1>1, <1>3, <1>4, <1>5

\* A window found to have room by its query has room for what was granted.
LEMMA RoomWhileChecking ==
  ASSUME BudgetInv, WindowInv, BudgetInv', NEW q \in Requests, NEW w \in Windows, CheckWindow(q, w)
  PROVE  WindowInv'
<1>0. /\ call[q] \in Call /\ call[q].pc = "check" /\ lock = q /\ UNCHANGED <<auths, spends>>
      /\ \A v \in call[q].checked : RoomSeen(q, v)
  BY DEF BudgetInv, TypeOK, WindowInv, CheckWindow
<1>1. CASE EndTransaction(q)
  <2> DEFINE c == [call[q] EXCEPT !.pc = "done"]
  <2>1. c.pc = "done" /\ call' = [call EXCEPT ![q] = c]
    BY <1>0, <1>1 DEF EndTransaction, Call
  <2> HIDE DEF c
  <2> QED
    BY <1>0, <2>1, RoomKept
<1>2. CASE /\ TotalSince(call[q].at - w.seconds) + call[q].amount <= w.max
           /\ call' = [call EXCEPT ![q].checked = @ \cup {w}] /\ UNCHANGED lock
  <2> DEFINE c == [call[q] EXCEPT !.checked = @ \cup {w}]
  <2>1. /\ c.pc = "check" /\ c.checked = call[q].checked \cup {w}
        /\ c.at = call[q].at /\ c.amount = call[q].amount
    BY <1>0 DEF Call
  <2>2. call' = [call EXCEPT ![q] = c]
    BY <1>2
  <2>3. call[q].at \in 0 .. MaxTime /\ call[q].amount \in Amounts \cup {0} /\ Amounts \cup {0} \subseteq Nat
    BY <1>0, AmountsAssumption DEF Call
  <2>4. w.seconds \in Nat /\ w.max \in Nat
    BY WindowsAssumption
  <2>5. PICK cutoff \in Int : cutoff = call[q].at - w.seconds
    BY <2>3, <2>4, TimesAssumption
  <2>6. AuthTotal(GrantedSince(cutoff)) + call[q].amount <= w.max
    BY <1>2, <2>3, <2>4, <2>5, QueryCountsGrants
  <2>7. RoomSeen(q, w)
    BY <2>5, <2>6 DEF RoomSeen
  <2> HIDE DEF c
  <2>8. c.pc = "check" =>
           /\ lock' = q
           /\ \A v \in c.checked : c.at = call[q].at /\ c.amount = call[q].amount /\ RoomSeen(q, v)
    BY <1>0, <1>2, <2>1, <2>7
  <2> QED
    BY <1>0, <1>2, <2>1, <2>2, <2>8, RoomKept
<1> QED
  BY <1>1, <1>2 DEF CheckWindow

\* Settling an authorization grants nothing.
LEMMA RoomWhileSettling ==
  ASSUME BudgetInv, WindowInv, BudgetInv', NEW q \in Requests, Commit(q) \/ Release(q)
  PROVE  WindowInv'
<1>1. PICK status \in {"committed", "released"} :
         auths[q].status = "reserved" /\ auths' = [auths EXCEPT ![q].status = status]
  BY DEF Commit, Committable, Release
<1>2. UNCHANGED <<now, replays, lock, call>>
  BY DEF Commit, Release
<1>3. /\ \A p \in Requests : auths'[p].amount = auths[p].amount /\ auths'[p].at = auths[p].at
                             /\ (p # q => auths'[p] = auths[p])
  BY <1>1, <1>2, ResolutionKeeps
<1>4. Granted' \subseteq Granted
  BY <1>1, <1>3 DEF Granted
<1>5. IsFiniteSet(spends')
  BY FS_AddElement DEF Commit, Release, WindowInv
<1>6. \A p \in Granted' : auths'[p].amount = auths[p].amount /\ auths'[p].at = auths[p].at
  BY <1>3 DEF Granted
<1> QED
  BY <1>2, <1>4, <1>5, <1>6, RoomStays DEF WindowInv

LEMMA RoomWithTime ==
  ASSUME BudgetInv, WindowInv, BudgetInv', UNCHANGED <<auths, spends, lock, call>>
  PROVE  WindowInv'
<1>1. Granted' = Granted /\ IsFiniteSet(spends')
  BY DEF Granted, WindowInv
<1> QED
  BY <1>1, RoomStays DEF WindowInv
\* The reservation takes the room its call has seen in every window.
LEMMA RoomWhenReserving ==
  ASSUME BudgetInv, WindowInv, BudgetInv', NEW q \in Requests, Reserve(q)
  PROVE  WindowInv'
<1>0. /\ call[q].pc = "check" /\ call[q].checked = Windows /\ UNCHANGED spends
      /\ call[q] \in Call /\ call \in [Requests -> Call] /\ auths \in [Requests -> Authorization]
      /\ auths[q].status = "none" /\ lock = q /\ \A w \in Windows : RoomSeen(q, w)
      /\ auths' = [auths EXCEPT ![q] = Reservation(q)] /\ call' = [call EXCEPT ![q].pc = "done"]
  BY DEF Reserve, EndTransaction, BudgetInv, TypeOK, AuthsKnown, WindowInv
<1>1. /\ auths'[q].status = "reserved" /\ auths'[q].amount = call[q].amount /\ auths'[q].at = call[q].at
      /\ \A p \in Requests \ {q} : auths'[p] = auths[p]
  BY <1>0 DEF Reservation, CreatedAt
<1>2. Granted' = Granted \cup {q} /\ q \notin Granted /\ Granted \subseteq Requests
  BY <1>0, <1>1 DEF Granted
<1>3. IsFiniteSet(Granted) /\ IsFiniteSet(Granted') /\ IsFiniteSet(spends')
  BY <1>0, <1>2, FS_AddElement DEF WindowInv
<1>4. \A p \in Requests :
         /\ call'[p].pc \in {"claim", "lock"} => call'[p].checked = {}
         /\ call'[p].pc # "check"
  <2>1. call'[q].pc = "done" /\ \A p \in Requests \ {q} : call'[p] = call[p]
    BY <1>0 DEF Call
  <2>2. \A p \in Requests \ {q} : call[p].pc # "check"
    BY <1>0 DEF WindowInv
  <2> QED
    BY <2>1, <2>2 DEF WindowInv
<1>5. \A p \in Granted : AmountOf'[p] = AmountOf[p] /\ AmountOf[p] \in Nat
                         /\ auths'[p].at = auths[p].at /\ auths[p].at \in Nat
  BY <1>1, <1>2, GrantedAmounts DEF AmountOf
<1>6. AmountOf'[q] = call[q].amount /\ call[q].amount \in Nat /\ call[q].at \in Nat
  <2>1. call[q].at \in 0 .. MaxTime /\ call[q].amount \in Amounts \cup {0} /\ Amounts \cup {0} \subseteq Nat
    BY <1>0, AmountsAssumption DEF Call
  <2> QED
    BY <1>1, <2>1, TimesAssumption DEF AmountOf
<1>7. ASSUME NEW S, S \subseteq Granted
      PROVE  /\ IsFiniteSet(S) /\ AuthTotal(S) \in Nat
             /\ SumFunctionOnSet(AmountOf', S) = AuthTotal(S)
  <2>1. IsFiniteSet(S) /\ AuthTotal(S) \in Nat
    BY <1>7, GrantedTotals
  <2>2. SumFunctionOnSet(AmountOf', S) = SumFunctionOnSet(AmountOf, S)
    <3>1. \A p \in S : AmountOf[p] \in Int /\ AmountOf'[p] = AmountOf[p]
      BY <1>5, <1>7
    <3> QED
      BY <2>1, <3>1, SumSame
  <2> QED
    BY <2>1, <2>2 DEF AuthTotal, AmountOf
<1>8. WindowGrantsCapped'
  <2> SUFFICES ASSUME NEW w \in Windows, NEW p \in Granted'
               PROVE  AuthTotal(Stretch(p, w))' <= w.max
    BY DEF WindowGrantsCapped, Stretch
  <2>0. w.seconds \in Nat /\ w.max \in Nat
    BY WindowsAssumption
  <2>1. PICK Z : Z = Stretch(p, w)'
    OBVIOUS
  <2>2. /\ Z \subseteq Granted'
        /\ \A r \in Z : auths'[r].at >= auths'[p].at /\ auths'[r].at <= auths'[p].at + w.seconds
    BY <2>1 DEF Stretch
  <2>3. AuthTotal(Stretch(p, w))' = SumFunctionOnSet(AmountOf', Z)
    BY <2>1 DEF AuthTotal, AmountOf
  <2>4. CASE q \notin Z
    <3>1. p # q
      <4> SUFFICES ASSUME p = q PROVE FALSE
        OBVIOUS
      <4>1. auths'[q].at >= auths'[q].at /\ auths'[q].at <= auths'[q].at + w.seconds
        BY <1>1, <1>6, <2>0
      <4> QED
        BY <1>2, <2>1, <2>4, <4>1 DEF Stretch
    <3>2. p \in Granted /\ Z \subseteq Granted
      BY <1>2, <2>2, <2>4, <3>1
    <3>3. Z \subseteq Stretch(p, w)
      BY <1>5, <2>2, <3>2 DEF Stretch
    <3>4. Stretch(p, w) \subseteq Granted
      BY DEF Stretch
    <3>5. AuthTotal(Z) \in Nat /\ AuthTotal(Stretch(p, w)) \in Nat /\ AuthTotal(Z) <= AuthTotal(Stretch(p, w))
      BY <3>3, <3>4, GrantedTotals
    <3>6. AuthTotal(Stretch(p, w)) <= w.max
      BY <3>2 DEF WindowInv, WindowGrantsCapped, Stretch
    <3>7. SumFunctionOnSet(AmountOf', Z) = AuthTotal(Z)
      BY <1>7, <3>2
    <3> QED
      BY <2>0, <2>3, <3>5, <3>6, <3>7
  <2>5. CASE q \in Z
    <3> DEFINE Y == Z \ {q}
    <3>1. PICK cutoff \in Int : cutoff = call[q].at - w.seconds
      BY <1>6, <2>0
    <3>2. Y \subseteq Granted /\ Z = Y \cup {q} /\ q \notin Y
      BY <1>2, <2>2, <2>5
    <3>3. \A r \in Y : auths[r].at >= cutoff
      <4> SUFFICES ASSUME NEW r \in Y PROVE auths[r].at >= cutoff
        OBVIOUS
      <4>1. auths'[r].at = auths[r].at /\ auths[r].at \in Nat
        BY <1>5, <3>2
      <4>2. auths'[p].at \in Nat
        BY <1>1, <1>2, <1>5, <1>6
      <4>3. auths'[r].at >= auths'[p].at /\ auths'[q].at <= auths'[p].at + w.seconds
        BY <2>2, <2>5
      <4> QED
        BY <1>1, <1>6, <2>0, <3>1, <4>1, <4>2, <4>3
    <3>4. Y \subseteq GrantedSince(cutoff) /\ GrantedSince(cutoff) \subseteq Granted
      BY <3>2, <3>3 DEF GrantedSince
    <3> HIDE DEF Y
    <3>5. /\ AuthTotal(Y) \in Nat /\ AuthTotal(GrantedSince(cutoff)) \in Nat
          /\ AuthTotal(Y) <= AuthTotal(GrantedSince(cutoff))
      BY <3>4, GrantedTotals
    <3>6. AuthTotal(GrantedSince(cutoff)) + call[q].amount <= w.max
      BY <1>0, <3>1 DEF RoomSeen
    <3>7. IsFiniteSet(Y) /\ SumFunctionOnSet(AmountOf', Y) = AuthTotal(Y)
      BY <1>7, <3>2
    <3>8. \A r \in Y : AmountOf'[r] \in Int
      BY <1>5, <3>2
    <3>9. SumFunctionOnSet(AmountOf', Y \cup {q}) = SumFunctionOnSet(AmountOf', Y) + AmountOf'[q]
      <4>1. AmountOf'[q] \in Int
        BY <1>6
      <4> QED
        BY <3>2, <3>7, <3>8, <4>1, SumAdd
    <3>10. SumFunctionOnSet(AmountOf', Z) = AuthTotal(Y) + call[q].amount
      BY <1>6, <3>2, <3>7, <3>9
    <3> QED
      BY <1>6, <2>0, <2>3, <3>5, <3>6, <3>10
  <2> QED
    BY <2>4, <2>5
<1> QED
  BY <1>3, <1>4, <1>8 DEF WindowInv

LEMMA WindowStep == BudgetInv /\ WindowInv /\ [Next]_vars => WindowInv'
<1> SUFFICES ASSUME BudgetInv, WindowInv, [Next]_vars PROVE WindowInv'
  OBVIOUS
<1>0. BudgetInv'
  BY BudgetStep
<1>1. CASE UNCHANGED vars
  BY <1>0, <1>1, RoomWithTime DEF vars
<1>2. CASE Tick
  BY <1>0, <1>2, RoomWithTime DEF Tick
<1>3. CASE Next /\ ~Tick
  BY <1>0, <1>3, RoomWhileAsking, RoomWhileChecking, RoomWhenReserving, RoomWhileSettling DEF Next
<1> QED
  BY <1>1, <1>2, <1>3

\* No stretch of time as long as a window grants more than the window's budget
\* (authorizePayment under its advisory lock), whichever calls raced for it,
\* however late each ran after its clock reading, and whatever was committed
\* or released between a window's query and the reservation it let through.
THEOREM WindowsAreCapped == Spec => []WindowGrantsCapped
<1>1. Init => BudgetInv /\ WindowInv
  BY BudgetStarts, WindowsStart
<1>2. BudgetInv /\ WindowInv /\ [Next]_vars => BudgetInv' /\ WindowInv'
  BY BudgetStep, WindowStep
<1>3. WindowInv => WindowGrantsCapped
  BY DEF WindowInv
<1> QED
  BY <1>1, <1>2, <1>3, PTL DEF Spec
-----------------------------------------------------------------------------
(***************************************************************************)
(* The store's interface.  Each statement moves one call by one stage of   *)
(* it or is of no concern to it; what makes it so is that a call that runs *)
(* has no authorization yet, and that a claim its caller saw lapsed has.   *)
(***************************************************************************)
PrintOf(q) == IF StageOf(q) \in {"new", "refused"} THEN None ELSE call[q].fingerprint
LiveClaims == {f \in Fingerprints : replays[f] # None /\ replays[f] > now}

\* A step that moves one call, and no claim.
LEMMA StageMoves ==
  ASSUME NEW q \in Requests, LiveClaims' = LiveClaims,
         \A p \in Requests \ {q} : StageOf(p)' = StageOf(p) /\ PrintOf(p)' = PrintOf(p)
  PROVE  /\ StageOf(q)' = StageOf(q) /\ PrintOf(q)' = PrintOf(q) => UNCHANGED Store!storeVars
         /\ StageOf(q) \in {"new", "claimed"} /\ StageOf(q)' = "refused" => Store!Refuse(q)
         /\ PrintOf(q)' = PrintOf(q) =>
              /\ StageOf(q) = "claimed" /\ StageOf(q)' = "reserved" => Store!ReserveBudget(q)
              /\ StageOf(q) = "reserved" /\ StageOf(q)' = "committed" => Store!CommitAuthorization(q)
              /\ StageOf(q) = "reserved" /\ StageOf(q)' = "released" => Store!ReleaseAuthorization(q)
<1> DEFINE stages == [p \in Requests |-> StageOf(p)]
           prints == [p \in Requests |-> PrintOf(p)]
<1>1. /\ stages' = [stages EXCEPT ![q] = StageOf(q)'] /\ stages[q] = StageOf(q)
      /\ prints' = [prints EXCEPT ![q] = PrintOf(q)']
  OBVIOUS
<1>2. StageOf(q)' = "refused" => PrintOf(q)' = None
  BY DEF PrintOf
<1>3. StageOf(q)' = StageOf(q) /\ PrintOf(q)' = PrintOf(q) => stages' = stages /\ prints' = prints
  OBVIOUS
<1>4. PrintOf(q)' = PrintOf(q) => prints' = prints
  OBVIOUS
<1> QED
  BY <1>1, <1>2, <1>3, <1>4
  DEF Store!storeVars, Store!Refuse, Store!ReserveBudget, Store!CommitAuthorization,
      Store!ReleaseAuthorization, Store!Move, PrintOf, LiveClaims

\* The clock readings of calls are never ahead, and a call that runs has no
\* authorization.
LEMMA StagesKnown ==
  ASSUME BudgetInv, NEW q \in Requests
  PROVE  /\ call \in [Requests -> Call] /\ auths \in [Requests -> Authorization]
         /\ call[q].pc # "done" => auths[q].status = "none"
         /\ call[q].at \in Nat /\ call[q].at <= now /\ now \in Nat
BY TimesAssumption DEF BudgetInv, TypeOK, CallsKnown, AuthsKnown, Call

LEMMA StoreClaims ==
  ASSUME BudgetInv, NEW q \in Requests, ClaimReplay(q)
  PROVE  Store!Next
<1> DEFINE f == call[q].fingerprint
<1>0. /\ call \in [Requests -> Call] /\ auths \in [Requests -> Authorization]
      /\ auths[q].status = "none" /\ call[q].pc = "claim" /\ auths' = auths /\ now' = now
      /\ call[q].at \in Nat /\ call[q].at <= now /\ now \in Nat /\ f \in Fingerprints
  BY StagesKnown DEF ClaimReplay, BudgetInv, CallsKnown, Running
<1>1. ASSUME NEW pc \in {"lock", "done"}, call' = [call EXCEPT ![q].pc = pc]
      PROVE  /\ \A p \in Requests \ {q} : StageOf(p)' = StageOf(p) /\ PrintOf(p)' = PrintOf(p)
             /\ StageOf(q) = "new" /\ StageOf(q)' = IF pc = "lock" THEN "claimed" ELSE "refused"
             /\ call'[q].fingerprint = f
  BY <1>0, <1>1 DEF StageOf, PrintOf, Call
<1>2. CASE /\ ~LiveReplay(f, call[q].at)
           /\ replays' = [replays EXCEPT ![f] = call[q].at + ReplayTtl]
           /\ call' = [call EXCEPT ![q].pc = "lock"]
  <2> DEFINE stages == [p \in Requests |-> StageOf(p)]
             prints == [p \in Requests |-> PrintOf(p)]
  <2>1. f \notin LiveClaims
    <3>1. replays[f] # None => replays[f] \in Nat
      BY <1>0 DEF BudgetInv, TypeOK
    <3> QED
      BY <1>0, <1>2, <3>1 DEF LiveClaims, LiveReplay
  <2>2. LiveClaims' \in {LiveClaims, LiveClaims \cup {f}}
    <3>1. \A g \in Fingerprints \ {f} : g \in LiveClaims' <=> g \in LiveClaims
      BY <1>0, <1>2 DEF LiveClaims, BudgetInv, TypeOK
    <3>2. LiveClaims \subseteq Fingerprints /\ LiveClaims' \subseteq Fingerprints
      BY DEF LiveClaims
    <3> QED
      BY <2>1, <3>1, <3>2
  <2>3. stages' = [stages EXCEPT ![q] = "claimed"] /\ stages[q] = "new"
    BY <1>1, <1>2
  <2>4. PrintOf(q)' = f
    BY <1>1, <1>2 DEF PrintOf
  <2>5. prints' = [prints EXCEPT ![q] = f]
    BY <1>1, <1>2, <2>4
  <2>6. PICK g \in Fingerprints : g = f
    BY <1>0
  <2>7. Store!ClaimReplay(q, g)
    <3> HIDE DEF f
    <3> QED BY <2>1, <2>2, <2>3, <2>5, <2>6 DEF Store!ClaimReplay, Store!Move, LiveClaims, PrintOf
  <2> QED
    BY <2>7 DEF Store!Next
<1>3. CASE call' = [call EXCEPT ![q].pc = "done"] /\ UNCHANGED replays
  <2>1. LiveClaims' = LiveClaims
    BY <1>0, <1>3 DEF LiveClaims
  <2> QED
    BY <1>1, <1>3, <2>1, StageMoves DEF Store!Next
<1> QED
  BY <1>2, <1>3 DEF ClaimReplay

\* A step of a running call, from one place to another.
LEMMA StoreRuns ==
  ASSUME BudgetInv, NEW q \in Requests, NEW pc \in {"lock", "check", "done"},
         call[q].pc \in {"claim", "lock", "check"}, call'[q].pc = pc,
         call[q].pc = "claim" => pc = "done", call'[q].fingerprint = call[q].fingerprint,
         \A p \in Requests \ {q} : call'[p] = call[p], UNCHANGED <<now, replays, auths>>
  PROVE  [Store!Next]_Store!storeVars
<1>1. LiveClaims' = LiveClaims
  BY DEF LiveClaims
<1>2. auths[q].status = "none"
  BY StagesKnown
<1>3. \A p \in Requests \ {q} : StageOf(p)' = StageOf(p) /\ PrintOf(p)' = PrintOf(p)
  BY DEF StageOf, PrintOf
<1>4. CASE pc = "done"
  <2>1. StageOf(q) \in {"new", "claimed"} /\ StageOf(q)' = "refused"
    BY <1>2, <1>4 DEF StageOf
  <2> QED
    BY <1>1, <1>3, <2>1, StageMoves DEF Store!Next
<1>5. CASE pc # "done"
  <2>1. StageOf(q) = "claimed" /\ StageOf(q)' = "claimed"
    BY <1>2, <1>5 DEF StageOf
  <2>2. PrintOf(q)' = PrintOf(q)
    BY <1>2, <2>1 DEF PrintOf
  <2> QED
    BY <1>1, <1>3, <2>1, <2>2, StageMoves
<1> QED
  BY <1>4, <1>5

LEMMA StoreStep ==
  ASSUME BudgetInv, [Next]_vars
  PROVE  [Store!Next]_Store!storeVars
<1>0. call \in [Requests -> Call] /\ auths \in [Requests -> Authorization]
  BY DEF BudgetInv, TypeOK
<1>1. ASSUME NEW q \in Requests, NEW f \in Fingerprints, NEW a \in Amounts, Authorize(q, f, a)
      PROVE  UNCHANGED Store!storeVars
  <2>1. /\ \A p \in Requests \ {q} : call'[p] = call[p]
        /\ call[q].pc = "idle" /\ call'[q].pc = "claim" /\ auths[q].status = "none"
        /\ UNCHANGED <<now, replays, auths>>
    BY <1>0, <1>1, StagesKnown DEF Authorize
  <2>2. \A p \in Requests : StageOf(p)' = StageOf(p) /\ PrintOf(p)' = PrintOf(p)
    BY <2>1 DEF StageOf, PrintOf
  <2>3. LiveClaims' = LiveClaims
    BY <2>1 DEF LiveClaims
  <2> QED
    BY <2>2, <2>3, StageMoves
<1>a. ASSUME NEW q \in Requests, NEW pc \in {"lock", "check", "done"},
             call[q].pc \in {"claim", "lock", "check"}, call[q].pc = "claim" => pc = "done",
             call' = [call EXCEPT ![q].pc = pc], UNCHANGED <<now, replays, auths>>
      PROVE  [Store!Next]_Store!storeVars
  <2>1. /\ call'[q].pc = pc /\ call'[q].fingerprint = call[q].fingerprint
        /\ \A p \in Requests \ {q} : call'[p] = call[p]
    BY <1>0, <1>a DEF Call
  <2> QED
    BY <1>a, <2>1, StoreRuns
<1>2. ASSUME NEW q \in Requests, TakeLock(q) PROVE [Store!Next]_Store!storeVars
  BY <1>2, <1>a DEF TakeLock
<1>3. ASSUME NEW q \in Requests, Crash(q) PROVE [Store!Next]_Store!storeVars
  BY <1>3, <1>a DEF Crash
<1>4. ASSUME NEW q \in Requests, NEW w \in Windows, CheckWindow(q, w) PROVE [Store!Next]_Store!storeVars
  <2>1. call[q].pc = "check" /\ UNCHANGED <<now, replays, auths>>
    BY <1>4 DEF CheckWindow
  <2>2. CASE call' = [call EXCEPT ![q].checked = @ \cup {w}]
    <3>1. /\ call'[q].pc = "check" /\ call'[q].fingerprint = call[q].fingerprint
          /\ \A p \in Requests \ {q} : call'[p] = call[p]
      BY <1>0, <2>1, <2>2 DEF Call
    <3> QED
      BY <2>1, <3>1, StoreRuns
  <2>3. CASE call' = [call EXCEPT ![q].pc = "done"]
    BY <1>a, <2>1, <2>3
  <2> QED
    BY <1>4, <2>2, <2>3 DEF CheckWindow, EndTransaction
<1>5. ASSUME NEW q \in Requests, Reserve(q) PROVE Store!Next
  <2>1. /\ call[q].pc = "check" /\ auths[q].status = "none" /\ auths' = [auths EXCEPT ![q] = Reservation(q)]
        /\ call' = [call EXCEPT ![q].pc = "done"] /\ UNCHANGED <<now, replays>>
    BY <1>5, StagesKnown DEF Reserve, EndTransaction
  <2>2. LiveClaims' = LiveClaims /\ \A p \in Requests \ {q} : auths'[p] = auths[p] /\ call'[p] = call[p]
    BY <1>0, <2>1 DEF LiveClaims
  <2>3. auths'[q].status = "reserved" /\ call'[q].fingerprint = call[q].fingerprint
    BY <1>0, <2>1 DEF Reservation, Call
  <2>4. StageOf(q) = "claimed" /\ StageOf(q)' = "reserved"
    BY <2>1, <2>3 DEF StageOf
  <2>5. PrintOf(q)' = PrintOf(q) /\ \A p \in Requests \ {q} : StageOf(p)' = StageOf(p) /\ PrintOf(p)' = PrintOf(p)
    BY <2>2, <2>3, <2>4 DEF StageOf, PrintOf
  <2> QED
    BY <2>2, <2>4, <2>5, StageMoves DEF Store!Next
<1>6. ASSUME NEW q \in Requests, Commit(q) \/ Release(q) PROVE Store!Next
  <2>1. PICK to \in {"committed", "released"} : auths' = [auths EXCEPT ![q].status = to]
    BY <1>6 DEF Commit, Release
  <2>2. auths[q].status = "reserved" /\ UNCHANGED <<now, replays, call>>
    BY <1>6 DEF Commit, Committable, Release
  <2>3. auths'[q].status = to /\ LiveClaims' = LiveClaims /\ \A p \in Requests \ {q} : auths'[p] = auths[p]
    BY <1>0, <2>1, <2>2 DEF LiveClaims, Authorization
  <2>4. StageOf(q) = "reserved" /\ StageOf(q)' = to
    BY <2>2, <2>3 DEF StageOf
  <2>5. PrintOf(q)' = PrintOf(q) /\ \A p \in Requests \ {q} : StageOf(p)' = StageOf(p) /\ PrintOf(p)' = PrintOf(p)
    BY <2>2, <2>3, <2>4 DEF StageOf, PrintOf
  <2> QED
    BY <2>3, <2>4, <2>5, StageMoves DEF Store!Next
<1>7. CASE Tick
  <2>1. /\ now \in Nat /\ now' = now + 1 /\ UNCHANGED <<replays, auths, call>>
        /\ \A f \in Fingerprints : replays[f] # None => replays[f] \in Nat
    BY <1>7, TimesAssumption DEF Tick, BudgetInv, TypeOK
  <2>2. LiveClaims' \subseteq LiveClaims
    BY <2>1 DEF LiveClaims
  <2>3. \A p \in Requests : StageOf(p)' = StageOf(p) /\ PrintOf(p)' = PrintOf(p)
    BY <2>1 DEF StageOf, PrintOf
  <2>4. Store!Lapse
    BY <2>2, <2>3 DEF Store!Lapse, LiveClaims, PrintOf
  <2> QED
    BY <2>4 DEF Store!Next
<1>8. CASE UNCHANGED vars
  <2>1. \A p \in Requests : StageOf(p)' = StageOf(p)
    BY <1>8 DEF StageOf, vars
  <2> QED
    BY <1>8, <2>1 DEF vars, Store!storeVars
<1> QED
  BY <1>1, <1>2, <1>3, <1>4, <1>5, <1>6, <1>7, <1>8, StoreClaims DEF Next

\* The Postgres store implements GuardStateStore (storage.ts:20): for any
\* calls and windows, whatever crashes and however late a call runs, claiming,
\* reserving, committing and releasing are atomic, and a claim is made only
\* where none is live.
THEOREM StoreIsAtomic == Spec => ImplementsStore
<1>1. Init => Store!Init
  <2> SUFFICES ASSUME Init PROVE Store!Init
    OBVIOUS
  <2>1. \A q \in Requests : StageOf(q) = "new"
    BY DEF Init, NoAuth, NoCall, StageOf
  <2> QED
    BY <2>1 DEF Init, Store!Init
<1> QED
  BY <1>1, BudgetStarts, BudgetStep, StoreStep, PTL DEF Spec, ImplementsStore, Store!Spec
=============================================================================
