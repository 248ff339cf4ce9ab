----------------------------- MODULE Deliveries -----------------------------
(***************************************************************************)
(* The asynchronous work behind the API: extraction of uploaded invoices,  *)
(* audit exports, and the notifications an extraction asks for.  A topic   *)
(* delivers a message at least once, so that it may be handled again after *)
(* a crash, or twice at the same time; the handlers are sequences of       *)
(* statements that swallow the exceptions of their bodies.                 *)
(***************************************************************************)
EXTENDS Integers, FiniteSets, SequencesExt

CONSTANTS
    Uploads,         \* invoice_uploads; an upload stands for its document's hash
    Exports,         \* audit_exports
    Hinted,          \* uploads that name their vendor; the others are guessed at
    Vendors,
    GeminiKey,       \* the extraction model is configured
    Deliverers,      \* deliveries that may be under way at the same time
    MaxJobs,         \* bound of uploads and exports asked for
    MaxTroubles      \* bound of repeated deliveries, exceptions and crashes

ASSUME DeliveriesAssumption ==
    /\ IsFiniteSet(Uploads) /\ IsFiniteSet(Exports) /\ Uploads \cap Exports = {}
    /\ Hinted \subseteq Uploads /\ Vendors # {} /\ GeminiKey \in BOOLEAN /\ Uploads \cup Exports # {}
    /\ MaxJobs \in Nat /\ MaxTroubles \in Nat

VARIABLES
    upload,      \* invoice_uploads: extraction_status, invoice_id
    export,      \* audit_exports: status, whether object_key is set
    objects,     \* the exports with an object in the bucket
    invoices,    \* invoices in the order of their INSERT: document, vendor, status
    vendors,     \* vendors.status
    topic,       \* the messages that are not acknowledged
    sent,        \* the notifications that went out
    delivery,    \* locals of a delivery
    troubles     \* repeats, exceptions and crashes left

deliveryVars == <<upload, export, objects, invoices, vendors, topic, sent, delivery, troubles>>

Asked == Uploads \cup Exports
NoInvoice == 0
Message == Asked \cup Nat    \* a number: the notifications about that invoice
ExtractionStatus == {"none", "stored", "queued", "processing", "completed", "failed"}
InvoiceStatus == {"received", "blocked", "needs_approval", "ready"}
UploadRecord == [status: ExtractionStatus, invoice: Nat]
ExportRecord == [status: ExtractionStatus, key: BOOLEAN]
Step == {"idle", "read", "processing", "extract", "persist", "link", "judge", "status", "publish",
         "fail", "build", "complete", "audit", "notify", "ack"}
IdleDelivery == [pc |-> "idle", of |-> {}, vendor |-> {}, invoice |-> NoInvoice, verdict |-> "received"]

DeliveryTypeOK ==
    /\ upload \in [Uploads -> UploadRecord] /\ \A u \in Uploads : upload[u].invoice <= Len(invoices)
    /\ export \in [Exports -> ExportRecord]
    /\ objects \subseteq Exports
    /\ invoices \in Seq([upload: Uploads, vendor: Vendors, status: InvoiceStatus])
    /\ vendors \in [Vendors -> {"approved", "pending"}]
    /\ topic \subseteq Message /\ sent \subseteq DOMAIN invoices
    /\ \A d \in Deliverers :
        /\ delivery[d].pc \in Step
        /\ delivery[d].of \subseteq Message /\ Cardinality(delivery[d].of) <= 1
        /\ delivery[d].vendor \subseteq Vendors
        /\ delivery[d].invoice \in 0..Len(invoices)
        /\ delivery[d].verdict \in InvoiceStatus
    /\ troubles \in 0..MaxTroubles

DeliveryInit ==
    /\ upload = [u \in Uploads |-> [status |-> "none", invoice |-> NoInvoice]]
    /\ export = [e \in Exports |-> [status |-> "none", key |-> FALSE]]
    /\ objects = {}
    /\ invoices = <<>>
    /\ vendors = [v \in Vendors |-> "approved"]
    /\ topic = {}
    /\ sent = {}
    /\ delivery = [d \in Deliverers |-> IdleDelivery]
    /\ troubles = MaxTroubles
-----------------------------------------------------------------------------
Handles(d, m) == delivery[d].of = {m}
Doing(d, pc) == delivery[d].pc = pc
Proceed(d, pc) == delivery' = [delivery EXCEPT ![d].pc = pc]

Trouble == troubles > 0 /\ troubles' = troubles - 1

tables == <<upload, export, objects, invoices, vendors>>
messages == <<topic, sent>>
-----------------------------------------------------------------------------
(***************************************************************************)
(* The endpoints: the row first, the message after it.                     *)
(***************************************************************************)
Open == {u \in Uploads : upload[u].status # "none"} \cup {e \in Exports : export[e].status # "none"}

StoreUpload(u) ==
    /\ upload[u].status = "none" /\ Cardinality(Open) < MaxJobs
    /\ upload' = [upload EXCEPT ![u].status = "stored"]
    /\ UNCHANGED <<export, objects, invoices, vendors, messages, delivery, troubles>>

PublishUpload(u) ==
    /\ upload[u].status = "stored"
    /\ upload' = [upload EXCEPT ![u].status = "queued"]
    /\ topic' = topic \cup {u}
    /\ UNCHANGED <<export, objects, invoices, vendors, sent, delivery, troubles>>

StoreExport(e) ==
    /\ export[e].status = "none" /\ Cardinality(Open) < MaxJobs
    /\ export' = [export EXCEPT ![e].status = "stored"]
    /\ UNCHANGED <<upload, objects, invoices, vendors, messages, delivery, troubles>>

PublishExport(e) ==
    /\ export[e].status = "stored"
    /\ export' = [export EXCEPT ![e].status = "queued"]
    /\ topic' = topic \cup {e}
    /\ UNCHANGED <<upload, objects, invoices, vendors, sent, delivery, troubles>>
-----------------------------------------------------------------------------
(***************************************************************************)
(* The topic.  A message stays until a delivery of it is acknowledged; a   *)
(* handler that throws or dies leaves it to be delivered again.            *)
(***************************************************************************)
InHand(m) == \E d \in Deliverers : Handles(d, m)

Deliver(d, m) ==
    /\ Doing(d, "idle") /\ m \in topic
    /\ IF InHand(m) THEN Trouble ELSE UNCHANGED troubles
    /\ delivery' = [delivery EXCEPT ![d] = [IdleDelivery EXCEPT !.of = {m},
                       !.pc = IF m \in Asked THEN "read" ELSE "notify"]]
    /\ UNCHANGED <<tables, messages>>

Acknowledge(d) ==
    /\ Doing(d, "ack")
    /\ topic' = topic \ delivery[d].of
    /\ delivery' = [delivery EXCEPT ![d] = IdleDelivery]
    /\ UNCHANGED <<tables, sent, troubles>>

Die(d) ==
    /\ ~Doing(d, "idle") /\ Trouble
    /\ delivery' = [delivery EXCEPT ![d] = IdleDelivery]
    /\ UNCHANGED <<tables, messages>>

\* Outside a handler's try, and in its catch: the exception reaches the topic.
Reject(d) ==
    /\ delivery[d].pc \in {"read", "processing", "fail", "notify"} /\ Trouble
    /\ delivery' = [delivery EXCEPT ![d] = IdleDelivery]
    /\ UNCHANGED <<tables, messages>>

\* Inside its try: the catch block runs.
Catch(d) ==
    /\ delivery[d].pc \in {"extract", "persist", "link", "judge", "status", "publish",
                           "build", "complete", "audit"}
    /\ Trouble
    /\ Proceed(d, "fail")
    /\ UNCHANGED <<tables, messages>>
-----------------------------------------------------------------------------
(***************************************************************************)
(* processExtractionRequested.                                             *)
(***************************************************************************)
ReadUpload(d, u) ==
    /\ Handles(d, u) /\ Doing(d, "read")
    /\ Proceed(d, IF upload[u].invoice # NoInvoice THEN "ack" ELSE "processing")
    /\ UNCHANGED <<tables, messages, troubles>>

MarkExtracting(d, u) ==
    /\ Handles(d, u) /\ Doing(d, "processing")
    /\ upload' = [upload EXCEPT ![u].status = "processing"]
    /\ Proceed(d, "extract")
    /\ UNCHANGED <<export, objects, invoices, vendors, messages, troubles>>

\* The vendor a document names: what the heuristic reads in its text, which
\* is the same each time, or what the model says, which need not be.
HeuristicExtraction == CHOOSE w \in Vendors : TRUE
ExtractInvoiceDocument == IF GeminiKey THEN Vendors ELSE {HeuristicExtraction}

\* A vendor of that name that exists, approved or blocked, is pending again.
UpsertVendor(v) == vendors' = [vendors EXCEPT ![v] = "pending"]

\* Download, extraction and vendor.
Extract(d, u, v) ==
    /\ Handles(d, u) /\ Doing(d, "extract")
    /\ IF u \in Hinted
       THEN v = HeuristicExtraction /\ UNCHANGED vendors
       ELSE v \in ExtractInvoiceDocument /\ UpsertVendor(v)
    /\ delivery' = [delivery EXCEPT ![d].pc = "persist", ![d].vendor = {v}]
    /\ UNCHANGED <<upload, export, objects, invoices, messages, troubles>>

\* The hash is the upload's; hints come before what was extracted.
NewInvoice(u, v) == [upload |-> u, vendor |-> v, status |-> "received"]

PersistInvoice(d, u) ==
    /\ Handles(d, u) /\ Doing(d, "persist")
    /\ \E v \in delivery[d].vendor : invoices' = Append(invoices, NewInvoice(u, v))
    /\ delivery' = [delivery EXCEPT ![d].pc = "link", ![d].invoice = Len(invoices) + 1]
    /\ UNCHANGED <<upload, export, objects, vendors, messages, troubles>>

LinkInvoice(d, u) ==
    /\ Handles(d, u) /\ Doing(d, "link")
    /\ upload' = [upload EXCEPT ![u] = [status |-> "completed", invoice |-> delivery[d].invoice]]
    /\ Proceed(d, "judge")
    /\ UNCHANGED <<export, objects, invoices, vendors, messages, troubles>>

\* findDuplicateInvoice: another invoice of the vendor with the same hash.
DuplicateIfJudged(n) ==
    \E k \in DOMAIN invoices \ {n} :
        /\ invoices[k].upload = invoices[n].upload /\ invoices[k].vendor = invoices[n].vendor
        /\ invoices[k].status # "received"
Duplicate(n) ==
    \E k \in DOMAIN invoices \ {n} :
        invoices[k].upload = invoices[n].upload /\ invoices[k].vendor = invoices[n].vendor

\* runPolicy: a duplicate is blocked; what else it may say, ApprovalPolicy says.
JudgeInvoice(d, u) ==
    /\ Handles(d, u) /\ Doing(d, "judge")
    /\ \E verdict \in {"blocked", "needs_approval", "ready"} :
         /\ Duplicate(delivery[d].invoice) => verdict = "blocked"
         /\ delivery' = [delivery EXCEPT ![d].pc = "status", ![d].verdict = verdict]
    /\ UNCHANGED <<tables, messages, troubles>>

SetInvoiceStatus(d, u) ==
    /\ Handles(d, u) /\ Doing(d, "status")
    /\ invoices' = [invoices EXCEPT ![delivery[d].invoice].status = delivery[d].verdict]
    /\ Proceed(d, IF delivery[d].verdict = "ready" THEN "ack" ELSE "publish")
    /\ UNCHANGED <<upload, export, objects, vendors, messages, troubles>>

\* What follows in the audit log may throw.
PublishNotifications(d, u) ==
    /\ Handles(d, u) /\ Doing(d, "publish")
    /\ topic' = topic \cup {delivery[d].invoice}
    /\ \/ Proceed(d, "ack") /\ UNCHANGED troubles
       \/ Proceed(d, "fail") /\ Trouble
    /\ UNCHANGED <<tables, sent>>

FailUpload(d, u) ==
    /\ Handles(d, u) /\ Doing(d, "fail")
    /\ upload' = [upload EXCEPT ![u].status = "failed"]
    /\ Proceed(d, "ack")
    /\ UNCHANGED <<export, objects, invoices, vendors, messages, troubles>>

\* E-mail and Slack, whose answers nobody looks at.
SendNotification(notifications) == sent' = sent \cup notifications

\* processNotificationRequested, which keeps no record of what it has sent.
Notify(d) ==
    /\ Doing(d, "notify")
    /\ SendNotification(delivery[d].of)
    /\ Proceed(d, "ack")
    /\ UNCHANGED <<tables, topic, troubles>>
-----------------------------------------------------------------------------
(***************************************************************************)
(* processAuditExportRequested, and what getAuditExport offers.            *)
(***************************************************************************)
HandledUnlessQueued(e) == export[e].status # "queued"
HandledExport(e) == export[e].status = "completed"

ReadExport(d, e) ==
    /\ Handles(d, e) /\ Doing(d, "read")
    /\ Proceed(d, IF HandledExport(e) THEN "ack" ELSE "processing")
    /\ UNCHANGED <<tables, messages, troubles>>

MarkExporting(d, e) ==
    /\ Handles(d, e) /\ Doing(d, "processing")
    /\ export' = [export EXCEPT ![e].status = "processing"]
    /\ Proceed(d, "build")
    /\ UNCHANGED <<upload, objects, invoices, vendors, messages, troubles>>

StoredLater(e) == objects
Stored(e) == objects \cup {e}

\* Reading the trail and uploading the file built from it.
UploadExport(d, e) ==
    /\ Handles(d, e) /\ Doing(d, "build")
    /\ objects' = Stored(e)
    /\ Proceed(d, "complete")
    /\ UNCHANGED <<upload, export, invoices, vendors, messages, troubles>>

CompleteExport(d, e) ==
    /\ Handles(d, e) /\ Doing(d, "complete")
    /\ export' = [export EXCEPT ![e] = [status |-> "completed", key |-> TRUE]]
    /\ Proceed(d, "audit")
    /\ UNCHANGED <<upload, objects, invoices, vendors, messages, troubles>>

AuditExport(d, e) ==
    /\ Handles(d, e) /\ Doing(d, "audit")
    /\ Proceed(d, "ack")
    /\ UNCHANGED <<tables, messages, troubles>>

FailExport(d, e) ==
    /\ Handles(d, e) /\ Doing(d, "fail")
    /\ export' = [export EXCEPT ![e].status = "failed"]
    /\ Proceed(d, "ack")
    /\ UNCHANGED <<upload, objects, invoices, vendors, messages, troubles>>

Downloadable(e) == export[e].status = "completed" /\ export[e].key
-----------------------------------------------------------------------------
ExtractionStep(d, u) ==
    \/ ReadUpload(d, u) \/ MarkExtracting(d, u) \/ \E v \in Vendors : Extract(d, u, v)
    \/ PersistInvoice(d, u) \/ LinkInvoice(d, u) \/ JudgeInvoice(d, u) \/ SetInvoiceStatus(d, u)
    \/ PublishNotifications(d, u) \/ FailUpload(d, u)

ExportStep(d, e) ==
    \/ ReadExport(d, e) \/ MarkExporting(d, e) \/ UploadExport(d, e)
    \/ CompleteExport(d, e) \/ AuditExport(d, e) \/ FailExport(d, e)

HandlerStep(d) ==
    \/ \E u \in Uploads : ExtractionStep(d, u)
    \/ \E e \in Exports : ExportStep(d, e)
    \/ Notify(d)
    \/ Acknowledge(d)

DeliveryNext ==
    \/ \E u \in Uploads : StoreUpload(u) \/ PublishUpload(u)
    \/ \E e \in Exports : StoreExport(e) \/ PublishExport(e)
    \/ \E d \in Deliverers : HandlerStep(d) \/ Reject(d) \/ Catch(d) \/ Die(d)
    \/ \E d \in Deliverers, m \in topic : Deliver(d, m)

DeliverUnhandled(m) == ~InHand(m) /\ \E d \in Deliverers : Deliver(d, m)

\* A handler that runs goes on, and a message that nobody handles is
\* delivered: that is what at-least-once means.
DeliveryFairness ==
    /\ \A d \in Deliverers : WF_deliveryVars(HandlerStep(d))
    /\ \A m \in Asked : WF_deliveryVars(DeliverUnhandled(m))

DeliverySpec == DeliveryInit /\ [][DeliveryNext]_deliveryVars /\ DeliveryFairness
-----------------------------------------------------------------------------
\* A document extracted twice becomes two invoices (api.ts:1544); when both
\* are put down to the same vendor, at most one of them comes out of the
\* policy as anything but blocked, however the two deliveries interleave:
\* each inserts its invoice before it looks for the other's.
DuplicatesCaught ==
    \A m, n \in DOMAIN invoices :
        /\ m # n /\ invoices[m].upload = invoices[n].upload
        /\ invoices[m].vendor = invoices[n].vendor
        => ~({invoices[m].status, invoices[n].status} \subseteq {"needs_approval", "ready"})

\* What is offered for download exists, whatever deliveries of the same
\* export, crashes and exceptions came between (api.ts:1634).
DownloadIsReal == \A e \in Exports : Downloadable(e) => e \in objects

\* An export that is queued with its message published comes to an end,
\* completed or failed, although deliveries crash, throw, repeat and overtake
\* each other (api.ts:1615): the next one takes up what it finds in processing.
Ended(e) == export[e].status \in {"completed", "failed"}
ExportsEnd == \A e \in Exports : (export[e].status = "queued") ~> Ended(e)
=============================================================================
