----------------------------- MODULE BudgetGuard -----------------------------
(***************************************************************************)
(* The x402 guard's durable state for one agent (organization): replay     *)
(* claims, budget authorizations and spends, with the spending windows     *)
(* checked under a Postgres advisory lock.  authorizePayment takes its     *)
(* clock reading once, when it starts; every statement after it uses that  *)
(* reading however late it runs.                                           *)
(***************************************************************************)
EXTENDS Integers, FiniteSetsExt, Functions

CONSTANTS
    Requests,       \* calls of authorizePayment; each may mint one authorization
    Fingerprints,   \* payer, payee, amount, asset, network, resource, key
    Amounts,        \* amounts asked for
    MaxPerCall,     \* policy.maxPerCallAtomic
    Windows,        \* policy.windows: records [seconds, max]
    ReplayTtl,      \* replayTtlMs
    SettleWithin,   \* the longest a reservation waits for its settlement
    MaxTime,        \* bound of the clock
    None

ASSUME AmountsAssumption == Amounts \subseteq Nat \ {0}
ASSUME WindowsAssumption ==
    IsFiniteSet(Windows) /\ Windows \subseteq [seconds: Nat, max: Nat]
ASSUME TimesAssumption ==
    ReplayTtl \in Nat /\ SettleWithin \in Nat /\ MaxTime \in Nat /\ MaxPerCall \in Nat
ASSUME NoneAssumption == None \notin Requests /\ None \notin Nat

VARIABLES
    now,       \* the clock all processes read
    replays,   \* x402_guard_replays: expires_at by fingerprint
    auths,     \* x402_guard_budget_authorizations
    spends,    \* x402_guard_spends
    lock,      \* pg_advisory_xact_lock of the agent
    call       \* locals of authorizePayment

vars == <<now, replays, auths, spends, lock, call>>

AuthStatus == {"none", "reserved", "committed", "released"}
Authorization == [status: AuthStatus, amount: Amounts \cup {0}, at: 0..MaxTime,
                  fingerprint: Fingerprints \cup {None}]
Spend == [auth: Requests, amount: Amounts, at: 0..MaxTime]
Call == [pc: {"idle", "claim", "lock", "check", "done"}, fingerprint: Fingerprints \cup {None},
         amount: Amounts \cup {0}, at: 0..MaxTime, checked: SUBSET Windows]

TypeOK ==
    /\ now \in 0..MaxTime
    /\ replays \in [Fingerprints -> Nat \cup {None}]
    /\ auths \in [Requests -> Authorization]
    /\ spends \subseteq Spend
    /\ lock \in Requests \cup {None}
    /\ call \in [Requests -> Call]

NoAuth == [status |-> "none", amount |-> 0, at |-> 0, fingerprint |-> None]
NoCall == [pc |-> "idle", fingerprint |-> None, amount |-> 0, at |-> 0, checked |-> {}]

Init ==
    /\ now = 0
    /\ replays = [f \in Fingerprints |-> None]
    /\ auths = [q \in Requests |-> NoAuth]
    /\ spends = {}
    /\ lock = None
    /\ call = [q \in Requests |-> NoCall]
-----------------------------------------------------------------------------
ReservedRows == {q \in Requests : auths[q].status = "reserved"}

AuthTotal(S) == SumFunctionOnSet([q \in Requests |-> auths[q].amount], S)
SpendTotal(S) == SumFunctionOnSet([s \in spends |-> s.amount], S)

\* The total a window's query adds up from its cutoff on: spends by the time
\* they were committed, reservations by the time they were made.
TotalSince(cutoff) ==
    SpendTotal({s \in spends : s.at >= cutoff})
      + AuthTotal({q \in ReservedRows : auths[q].at >= cutoff})

\* evaluatePolicyRules, the per-call cap; the other rules do not read state.
Authorize(q, f, amount) ==
    /\ call[q].pc = "idle"
    /\ amount <= MaxPerCall
    /\ call' = [call EXCEPT ![q] = [pc |-> "claim", fingerprint |-> f, amount |-> amount,
                                    at |-> now, checked |-> {}]]
    /\ UNCHANGED <<now, replays, auths, spends, lock>>

\* claimReplay: refused while a claim is live at the caller's clock reading.
\* Over an expired row the unordered DELETE and INSERT succeed or collide.
LiveNever(f, at) == FALSE
LiveReplay(f, at) == replays[f] # None /\ replays[f] > at

ClaimReplay(q) ==
    LET f == call[q].fingerprint
    IN  /\ call[q].pc = "claim"
        /\ \/ /\ ~LiveReplay(f, call[q].at)
              /\ replays' = [replays EXCEPT ![f] = call[q].at + ReplayTtl]
              /\ call' = [call EXCEPT ![q].pc = "lock"]
           \/ /\ replays[f] # None
              /\ call' = [call EXCEPT ![q].pc = "done"]
              /\ UNCHANGED replays
        /\ UNCHANGED <<now, auths, spends, lock>>

\* BEGIN; SELECT pg_advisory_xact_lock(...).
LockIgnored == TRUE
LockFree == lock = None

TakeLock(q) ==
    /\ call[q].pc = "lock"
    /\ LockFree
    /\ lock' = q
    /\ call' = [call EXCEPT ![q].pc = "check"]
    /\ UNCHANGED <<now, replays, auths, spends>>

\* COMMIT or ROLLBACK ends the transaction, which drops its lock.
EndTransaction(q) ==
    /\ call' = [call EXCEPT ![q].pc = "done"]
    /\ lock' = None

\* One query per window; the first that has no room rolls the transaction back.
CheckWindow(q, w) ==
    LET room == TotalSince(call[q].at - w.seconds) + call[q].amount <= w.max
    IN  /\ call[q].pc = "check"
        /\ w \in Windows \ call[q].checked
        /\ IF room
             THEN /\ call' = [call EXCEPT ![q].checked = @ \cup {w}]
                  /\ UNCHANGED lock
             ELSE EndTransaction(q)
        /\ UNCHANGED <<now, replays, auths, spends>>

\* created_at of a reservation: the call's clock reading.
StampedAtCutoff(q) == call[q].at - ReplayTtl
CreatedAt(q) == call[q].at

Reservation(q) == [status |-> "reserved", amount |-> call[q].amount,
                   at |-> CreatedAt(q), fingerprint |-> call[q].fingerprint]

\* INSERT the reservation, which COMMIT makes visible.
Reserve(q) ==
    /\ call[q].pc = "check"
    /\ call[q].checked = Windows
    /\ auths' = [auths EXCEPT ![q] = Reservation(q)]
    /\ EndTransaction(q)
    /\ UNCHANGED <<now, replays, spends>>

\* commitAuthorization: UPDATE ... WHERE status = 'reserved' and the INSERT of
\* the spend, dated now, in one transaction that takes no advisory lock.
CommittableAlways(q) == auths[q].status # "none"
Committable(q) == auths[q].status = "reserved"

SpendOf(q) == [auth |-> q, amount |-> auths[q].amount, at |-> now]

Commit(q) ==
    /\ Committable(q)
    /\ auths' = [auths EXCEPT ![q].status = "committed"]
    /\ spends' = spends \cup {SpendOf(q)}
    /\ UNCHANGED <<now, replays, lock, call>>

\* releaseAuthorization.
Release(q) ==
    /\ auths[q].status = "reserved"
    /\ auths' = [auths EXCEPT ![q].status = "released"]
    /\ UNCHANGED <<now, replays, spends, lock, call>>

\* The caller dies: an open transaction is rolled back with its lock.
Crash(q) ==
    /\ call[q].pc \in {"claim", "lock", "check"}
    /\ call' = [call EXCEPT ![q].pc = "done"]
    /\ lock' = IF lock = q THEN None ELSE lock
    /\ UNCHANGED <<now, replays, auths, spends>>

\* Time passes, but no reservation and no call outlives SettleWithin.
Tick ==
    /\ now < MaxTime
    /\ \A q \in Requests :
        /\ auths[q].status = "reserved" => now + 1 - auths[q].at <= SettleWithin
        /\ call[q].pc \in {"claim", "lock", "check"} => now + 1 - call[q].at <= SettleWithin
    /\ now' = now + 1
    /\ UNCHANGED <<replays, auths, spends, lock, call>>

Next ==
    \/ \E q \in Requests, f \in Fingerprints, a \in Amounts : Authorize(q, f, a)
    \/ \E q \in Requests : \/ ClaimReplay(q) \/ TakeLock(q) \/ Reserve(q)
                           \/ Commit(q) \/ Release(q) \/ Crash(q)
    \/ \E q \in Requests, w \in Windows : CheckWindow(q, w)
    \/ Tick

Spec == Init /\ [][Next]_vars
-----------------------------------------------------------------------------
Granted == {q \in Requests : auths[q].status \in {"reserved", "committed"}}

\* No stretch of time as long as a window grants more than the window's budget,
\* whichever calls raced for it and however late each of them ran.
WindowGrantsCapped ==
    \A w \in Windows, q \in Granted :
        AuthTotal({p \in Granted :
            auths[p].at >= auths[q].at /\ auths[p].at <= auths[q].at + w.seconds}) <= w.max

\* STATE_MACHINE.md: budget is locked from the reservation until settlement
\* truth and consumed for good by the commit, so held plus spent stays in budget.
HeldBudgetCounts ==
    \A w \in Windows :
        SpendTotal({s \in spends : s.at >= now - w.seconds}) + AuthTotal(ReservedRows) <= w.max

\* Two authorizations of one payment fingerprint lie a replay TTL apart.
ReplayWindow ==
    \A p, q \in Requests :
        /\ p # q /\ auths[p].status # "none" /\ auths[q].status # "none"
        /\ auths[p].fingerprint = auths[q].fingerprint
        => auths[p].at + ReplayTtl <= auths[q].at \/ auths[q].at + ReplayTtl <= auths[p].at

\* The ledger of spends and the authorizations agree: a committed one has one
\* spend of its amount, not dated before it, and no other one has any.
SpendsMatchCommits ==
    \A q \in Requests :
        LET own == {s \in spends : s.auth = q}
        IN  IF auths[q].status = "committed"
              THEN \E s \in own : own = {s} /\ s.amount = auths[q].amount /\ s.at >= auths[q].at
              ELSE own = {}

\* What a call has of the store's interface: a claim is live until its time is
\* over, and a call that is done without an authorization was refused.
StageOf(q) ==
    IF auths[q].status # "none" THEN auths[q].status
    ELSE IF call[q].pc \in {"idle", "claim"} THEN "new"
    ELSE IF call[q].pc = "done" THEN "refused" ELSE "claimed"

Store == INSTANCE GuardStore WITH
    Holders <- Requests,
    Prints <- Fingerprints,
    Nobody <- None,
    claims <- {f \in Fingerprints : replays[f] # None /\ replays[f] > now},
    stage <- [q \in Requests |-> StageOf(q)],
    claimed <- [q \in Requests |->
                  IF StageOf(q) \in {"new", "refused"} THEN None ELSE call[q].fingerprint]

\* The statements of the Postgres store, with their lock, their windows and
\* their late clock readings, make an atomic store of GuardStateStore.
ImplementsStore == Store!Spec

\* A committed or released authorization never changes again.
AuthorizationFinal ==
    [][\A q \in Requests : auths[q].status \in {"committed", "released"} =>
        auths'[q] = auths[q]]_vars
=============================================================================
