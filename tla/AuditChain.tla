----------------------------- MODULE AuditChain -----------------------------
(***************************************************************************)
(* The hash-chained audit log of every organization, appended to by many   *)
(* concurrent handlers: appendAudit of the API service.  Each append is    *)
(* one database transaction under the organization's advisory lock; its    *)
(* row's created_at is the transaction's start, so rows may become visible *)
(* in another order than their timestamps say.                             *)
(*                                                                         *)
(* The hash of an event covers its id and the previous hash; equal hashes  *)
(* mean equal events, so the event id stands for it.                       *)
(***************************************************************************)
EXTENDS Naturals

CONSTANTS
    Organizations,
    Writers,     \* appendAudit calls; a call's name is the id of its event
    Legacy,      \* events from before audit_chain_heads existed
    MaxClock,    \* bound of the clock
    NoEvent

Ids == Writers \cup {e.id : e \in Legacy}

Event == [id: Ids, org: Organizations, previous: Ids \cup {NoEvent}, at: 0..MaxClock]

VARIABLES
    clock,    \* the database's clock
    events,   \* committed rows of audit_events
    heads,    \* audit_chain_heads.head_event_hash
    chainLock,  \* pg_advisory_xact_lock(hashtext(organizationID))
    tx        \* transaction of each call

auditVars == <<clock, events, heads, chainLock, tx>>

Transaction == [pc: {"idle", "lock", "read", "insert", "done"}, org: Organizations \cup {NoEvent},
                at: 0..MaxClock, previous: Ids \cup {NoEvent}]

\* SELECT event_hash ... ORDER BY created_at DESC LIMIT 1.
Newest(rows) ==
    IF rows = {} THEN NoEvent ELSE (CHOOSE e \in rows : \A d \in rows : d.at <= e.at).id
Latest(rows, o) == Newest({e \in rows : e.org = o})

\* A chain: one first event, each other event the only successor of an event
\* of its organization, and one event without successor, tip.
Links(rows, o) ==
    /\ \A d, e \in rows : d.id = e.id => d = e
    /\ \A e \in rows : e.org = o /\ e.previous # NoEvent =>
            \E d \in rows : d.id = e.previous /\ d.org = o
    /\ \A d, e \in rows :
            d.org = o /\ e.org = o /\ d.previous = e.previous => d = e
IsTip(rows, o, tip) ==
    /\ tip = NoEvent => \A e \in rows : e.org # o
    /\ tip # NoEvent => \E e \in rows : e.id = tip /\ e.org = o
    /\ \A e \in rows : e.org = o => e.previous # tip

ASSUME NoEventAssumption == NoEvent \notin Organizations /\ NoEvent \notin Ids
ASSUME LegacyAssumption ==
    /\ Legacy \subseteq Event
    /\ \A e \in Legacy : e.id \notin Writers
    /\ \A o \in Organizations : Links(Legacy, o) /\ IsTip(Legacy, o, Latest(Legacy, o))
ASSUME TimeAssumption == MaxClock \in Nat

AuditTypeOK ==
    /\ clock \in 0..MaxClock
    /\ events \subseteq Event
    /\ heads \in [Organizations -> Ids \cup {NoEvent}]
    /\ chainLock \in [Organizations -> Writers \cup {NoEvent}]
    /\ tx \in [Writers -> Transaction]

AuditInit ==
    /\ clock \in {t \in 0..MaxClock : \A e \in Legacy : e.at <= t}
    /\ events = Legacy
    /\ heads = [o \in Organizations |-> NoEvent]
    /\ chainLock = [o \in Organizations |-> NoEvent]
    /\ tx = [w \in Writers |-> [pc |-> "idle", org |-> NoEvent, at |-> 0, previous |-> NoEvent]]
-----------------------------------------------------------------------------
BeginAppend(w, o) ==
    /\ tx[w].pc = "idle"
    /\ tx' = [tx EXCEPT ![w] = [pc |-> "lock", org |-> o, at |-> clock, previous |-> NoEvent]]
    /\ UNCHANGED <<clock, events, heads, chainLock>>

ChainLockIgnored(o) == TRUE
ChainLockFree(o) == chainLock[o] = NoEvent

LockChain(w) ==
    /\ tx[w].pc = "lock"
    /\ ChainLockFree(tx[w].org)
    /\ chainLock' = [chainLock EXCEPT ![tx[w].org] = w]
    /\ tx' = [tx EXCEPT ![w].pc = "read"]
    /\ UNCHANGED <<clock, events, heads>>

\* The recorded head; before there is one, the latest row.
PreviousRows(o) ==  \* the rows found, not the hash of the row
    IF heads[o] # NoEvent THEN heads[o] ELSE {e \in events : e.id = Latest(events, o)}
PreviousByClock(o) == Latest(events, o)
Previous(o) == IF heads[o] # NoEvent THEN heads[o] ELSE Latest(events, o)

ReadHead(w) ==
    /\ tx[w].pc = "read"
    /\ tx' = [tx EXCEPT ![w].pc = "insert", ![w].previous = Previous(tx[w].org)]
    /\ UNCHANGED <<clock, events, heads, chainLock>>

\* INSERT the event, upsert the head, COMMIT.
HeadsAfterInsertOnly(o, id) == IF heads[o] = NoEvent THEN [heads EXCEPT ![o] = id] ELSE heads
HeadsAfter(o, id) == [heads EXCEPT ![o] = id]

AppendEvent(w) ==
    LET o == tx[w].org
    IN  /\ tx[w].pc = "insert"
        /\ events' = events \cup {[id |-> w, org |-> o, previous |-> tx[w].previous,
                                   at |-> tx[w].at]}
        /\ heads' = HeadsAfter(o, w)
        /\ chainLock' = [chainLock EXCEPT ![o] = NoEvent]
        /\ tx' = [tx EXCEPT ![w].pc = "done"]
        /\ UNCHANGED clock

\* A statement throws or the process dies: ROLLBACK, and the lock is dropped.
Rollback(w) ==
    /\ tx[w].pc \in {"lock", "read", "insert"}
    /\ chainLock' = [o \in Organizations |-> IF chainLock[o] = w THEN NoEvent ELSE chainLock[o]]
    /\ tx' = [tx EXCEPT ![w].pc = "done"]
    /\ UNCHANGED <<clock, events, heads>>

ClockTick ==
    /\ clock < MaxClock
    /\ clock' = clock + 1
    /\ UNCHANGED <<events, heads, chainLock, tx>>

AuditNext ==
    \/ \E w \in Writers, o \in Organizations : BeginAppend(w, o)
    \/ \E w \in Writers : LockChain(w) \/ ReadHead(w) \/ AppendEvent(w) \/ Rollback(w)
    \/ ClockTick

AuditSpec == AuditInit /\ [][AuditNext]_auditVars
-----------------------------------------------------------------------------
\* The audit log is hash-chained: every organization's events form one chain,
\* from one first event and without a fork, whatever appends ran concurrently,
\* failed, or became visible out of the order of their timestamps.
OneChain == \A o \in Organizations : Links(events, o)

\* audit_chain_heads names the end of the organization's chain, so that the
\* next append (the first one after the migration, too) extends it there.
HeadIsTip == \A o \in Organizations : IsTip(events, o, Previous(o))

\* The log is append-only: no event ever changes or disappears, and a new one
\* follows the event that was its organization's last.
GrowsAtTip ==
    [][/\ events \subseteq events'
       /\ \A e \in events' \ events : IsTip(events, e.org, e.previous)]_auditVars
=============================================================================
