----------------------------- MODULE Purchases -----------------------------
(***************************************************************************)
(* The commercial side of a payment: the purchase a payment intent is      *)
(* prepared for, its quotes, its fulfilment once the payment is settled,   *)
(* and the outbox of domain events.  Every function is a sequence of       *)
(* statements without a transaction; only unique indexes protect the rows  *)
(* from calls that race.                                                   *)
(***************************************************************************)
EXTENDS Integers, FiniteSets, SequencesExt

CONSTANTS
    Keys,          \* business idempotency keys; one names at most one purchase
    Callers,       \* calls of createPaymentIntent
    Settlers,      \* who fulfils a settled payment: the handler, the cron job
    MaxStops       \* bound of crashes

ASSUME PurchasesAssumption ==
    /\ IsFiniteSet(Keys) /\ Keys # {} /\ IsFiniteSet(Callers) /\ IsFiniteSet(Settlers)
    /\ Callers \cap Settlers = {}
    /\ MaxStops \in Nat

VARIABLES
    purchases,     \* purchases.status by key, "none" without a row
    quotes,        \* statuses of the quotes of a purchase, by version
    intents,       \* payment_intents by key: none, prepared or confirmed
    fulfilments,   \* purchases with a row in fulfilments
    outbox,        \* outbox_events in order of created_at
    worker,        \* locals of calls and settlers
    stops          \* crashes left

purchaseVars == <<purchases, quotes, intents, fulfilments, outbox, worker, stops>>

Workers == Callers \cup Settlers
PurchaseStatus == {"none", "CREATED", "QUOTED", "PAID", "FULFILLED"}
QuoteStatus == {"ACTIVE", "SUPERSEDED"}
OutboxEvent == [type: {"purchase.created", "fulfilment.completed"}, key: Keys]
Position == {"idle", "find", "create", "created", "version", "supersede", "insert", "quoted",
             "prepare", "paid", "lookup", "record", "fulfilled", "event", "done"}

PurchaseTypeOK ==
    /\ purchases \in [Keys -> PurchaseStatus]
    /\ quotes \in [Keys -> Seq(QuoteStatus)]
    /\ intents \in [Keys -> {"none", "prepared", "confirmed"}]
    /\ fulfilments \subseteq Keys
    /\ outbox \in Seq(OutboxEvent)
    /\ worker \in [Workers -> [pc: Position, key: Keys, version: Nat]]
    /\ stops \in 0..MaxStops

PurchaseInit ==
    /\ purchases = [k \in Keys |-> "none"]
    /\ quotes = [k \in Keys |-> <<>>]
    /\ intents = [k \in Keys |-> "none"]
    /\ fulfilments = {}
    /\ outbox = <<>>
    /\ worker = [w \in Workers |-> [pc |-> "idle", key |-> CHOOSE k \in Keys : TRUE, version |-> 0]]
    /\ stops = MaxStops
-----------------------------------------------------------------------------
At(w, pc) == worker[w].pc = pc
KeyOf(w) == worker[w].key
To(w, pc) == worker' = [worker EXCEPT ![w].pc = pc]

Event(type, k) == [type |-> type, key |-> k]
Enqueue(type, k) == outbox' = Append(outbox, Event(type, k))

-----------------------------------------------------------------------------
(***************************************************************************)
(* createPaymentIntent, past its gate (ApprovalPolicy has the gate).       *)
(***************************************************************************)
\* The lookup by idempotency key: a prepared intent is returned as it is.
Begin(c, k) ==
    /\ c \in Callers /\ At(c, "idle")
    /\ worker' = [worker EXCEPT ![c] =
          [pc |-> IF intents[k] = "none" THEN "find" ELSE "done", key |-> k, version |-> 0]]
    /\ UNCHANGED <<purchases, quotes, intents, fulfilments, outbox, stops>>

FindPurchase(c) ==
    /\ At(c, "find")
    /\ To(c, IF purchases[KeyOf(c)] = "none" THEN "create" ELSE "version")
    /\ UNCHANGED <<purchases, quotes, intents, fulfilments, outbox, stops>>

\* INSERT INTO purchases; the unique index makes the second one throw.
InsertPurchase(c) ==
    /\ At(c, "create")
    /\ IF purchases[KeyOf(c)] = "none"
       THEN /\ purchases' = [purchases EXCEPT ![KeyOf(c)] = "CREATED"]
            /\ To(c, "created")
       ELSE To(c, "done") /\ UNCHANGED purchases
    /\ UNCHANGED <<quotes, intents, fulfilments, outbox, stops>>

EnqueueCreated(c) ==
    /\ At(c, "created")
    /\ Enqueue("purchase.created", KeyOf(c))
    /\ To(c, "version")
    /\ UNCHANGED <<purchases, quotes, intents, fulfilments, stops>>

NextVersion(c) ==
    /\ At(c, "version")
    /\ worker' = [worker EXCEPT ![c].pc = "supersede", ![c].version = Len(quotes[KeyOf(c)]) + 1]
    /\ UNCHANGED <<purchases, quotes, intents, fulfilments, outbox, stops>>

\* No statement writes EXPIRED, which the table would take.
SupersededExpires(qs) == [v \in DOMAIN qs |-> "EXPIRED"]
Superseded(qs) == [v \in DOMAIN qs |-> "SUPERSEDED"]

Supersede(c) ==
    /\ At(c, "supersede")
    /\ quotes' = [quotes EXCEPT ![KeyOf(c)] = Superseded(@)]
    /\ To(c, "insert")
    /\ UNCHANGED <<purchases, intents, fulfilments, outbox, stops>>

\* UNIQUE (purchase_id, version).  Versions are dense, so the one a call
\* computed is either the next or taken.
VersionIgnored(c) == TRUE
VersionFree(c) == worker[c].version = Len(quotes[KeyOf(c)]) + 1

InsertQuote(c) ==
    /\ At(c, "insert")
    /\ IF VersionFree(c)
       THEN /\ quotes' = [quotes EXCEPT ![KeyOf(c)] = Append(@, "ACTIVE")]
            /\ To(c, "quoted")
       ELSE To(c, "done") /\ UNCHANGED quotes
    /\ UNCHANGED <<purchases, intents, fulfilments, outbox, stops>>

\* UPDATE purchases SET status = 'QUOTED', whatever it was.
MarkQuoted(c) ==
    /\ At(c, "quoted")
    /\ purchases' = [purchases EXCEPT ![KeyOf(c)] = "QUOTED"]
    /\ To(c, "prepare")
    /\ UNCHANGED <<quotes, intents, fulfilments, outbox, stops>>

\* INSERT INTO payment_intents; the unique index makes the second one throw.
Prepare(c) ==
    /\ At(c, "prepare")
    /\ intents' = [intents EXCEPT ![KeyOf(c)] = IF @ = "none" THEN "prepared" ELSE @]
    /\ To(c, "done")
    /\ UNCHANGED <<purchases, quotes, fulfilments, outbox, stops>>
-----------------------------------------------------------------------------
(***************************************************************************)
(* A settled payment is fulfilled by the handler or by the cron job, each  *)
(* from its own reading of a CONFIRMED verdict.                            *)
(***************************************************************************)
\* Execution ends with a settled transfer (PaymentExecution has the way there).
Settle(k) ==
    /\ intents[k] = "prepared"
    /\ intents' = [intents EXCEPT ![k] = "confirmed"]
    /\ UNCHANGED <<purchases, quotes, fulfilments, outbox, worker, stops>>

BeginFulfilment(s, k) ==
    /\ s \in Settlers /\ At(s, "idle") /\ intents[k] = "confirmed"
    /\ worker' = [worker EXCEPT ![s] = [pc |-> "paid", key |-> k, version |-> 0]]
    /\ UNCHANGED <<purchases, quotes, intents, fulfilments, outbox, stops>>

MarkPaid(s) ==
    /\ At(s, "paid")
    /\ purchases' = [purchases EXCEPT ![KeyOf(s)] =
                       IF @ \in {"CREATED", "QUOTED", "PAID"} THEN "PAID" ELSE @]
    /\ To(s, "lookup")
    /\ UNCHANGED <<quotes, intents, fulfilments, outbox, stops>>

FindFulfilment(s) ==
    /\ At(s, "lookup")
    /\ To(s, IF KeyOf(s) \in fulfilments THEN "done" ELSE "record")
    /\ UNCHANGED <<purchases, quotes, intents, fulfilments, outbox, stops>>

\* UNIQUE (merchant_id, fulfilment_id): the second INSERT throws.
FulfilmentIgnored(k) == TRUE
FulfilmentFree(k) == k \notin fulfilments

InsertFulfilment(s) ==
    /\ At(s, "record")
    /\ fulfilments' = fulfilments \cup {KeyOf(s)}
    /\ To(s, IF FulfilmentFree(KeyOf(s)) THEN "fulfilled" ELSE "done")
    /\ UNCHANGED <<purchases, quotes, intents, outbox, stops>>

MarkFulfilled(s) ==
    /\ At(s, "fulfilled")
    /\ purchases' = [purchases EXCEPT ![KeyOf(s)] = "FULFILLED"]
    /\ To(s, "event")
    /\ UNCHANGED <<quotes, intents, fulfilments, outbox, stops>>

EnqueueFulfilled(s) ==
    /\ At(s, "event")
    /\ Enqueue("fulfilment.completed", KeyOf(s))
    /\ To(s, "done")
    /\ UNCHANGED <<purchases, quotes, intents, fulfilments, stops>>
-----------------------------------------------------------------------------
\* The poller.  db.query answers with a generator of rows, which has no map
\* (outboxService.ts:49): every poll throws before it marks an event, and
\* published_at stays null.
PollOutbox == UNCHANGED purchaseVars

\* The process of a call or a settler dies between two statements.
StopWorker(w) ==
    /\ ~At(w, "idle") /\ ~At(w, "done") /\ stops > 0
    /\ stops' = stops - 1
    /\ To(w, "done")
    /\ UNCHANGED <<purchases, quotes, intents, fulfilments, outbox>>

CallerStep(c) ==
    \/ FindPurchase(c) \/ InsertPurchase(c) \/ EnqueueCreated(c) \/ NextVersion(c)
    \/ Supersede(c) \/ InsertQuote(c) \/ MarkQuoted(c) \/ Prepare(c)

SettlerStep(s) ==
    MarkPaid(s) \/ FindFulfilment(s) \/ InsertFulfilment(s) \/ MarkFulfilled(s) \/ EnqueueFulfilled(s)

PurchaseNext ==
    \/ \E c \in Callers, k \in Keys : Begin(c, k)
    \/ \E c \in Callers : CallerStep(c)
    \/ \E k \in Keys : Settle(k)
    \/ \E s \in Settlers, k \in Keys : BeginFulfilment(s, k)
    \/ \E s \in Settlers : SettlerStep(s)
    \/ PollOutbox
    \/ \E w \in Workers : StopWorker(w)

PurchaseSpec == PurchaseInit /\ [][PurchaseNext]_purchaseVars
-----------------------------------------------------------------------------
ActiveQuotes(k) == {v \in DOMAIN quotes[k] : quotes[k][v] = "ACTIVE"}

\* A purchase has at most one active quote, although addQuote supersedes and
\* inserts in two statements (purchaseService.ts:73 and :78) and calls for
\* one key interleave: a call that read its version before another's INSERT
\* is refused its own.
AtMostOneActiveQuote == \A k \in Keys : Cardinality(ActiveQuotes(k)) <= 1

Completions(k) == {n \in DOMAIN outbox : outbox[n].type = "fulfilment.completed" /\ outbox[n].key = k}

\* Handler and cron job may fulfil the same purchase at the same time
\* (fulfilmentService.ts:28): its completion is announced at most once, and
\* only for a fulfilment that is recorded and a payment that is settled.
CompletionAnnouncedOnce ==
    \A k \in Keys :
        /\ Cardinality(Completions(k)) <= 1
        /\ Completions(k) # {} => k \in fulfilments /\ intents[k] = "confirmed"
=============================================================================
