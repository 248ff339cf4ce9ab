------------------------ MODULE ApprovalPolicyProofs ------------------------
(***************************************************************************)
(* Proofs about ApprovalPolicy: the gate in front of a payment, however    *)
(* edits fall between the statements that read its facts, and the intents  *)
(* calls race for.                                                         *)
(***************************************************************************)
EXTENDS ApprovalPolicy, SumLemmas, TLAPS

CallFields == {"pc", "op", "user", "invoice", "key", "read", "facts", "snapshot", "status"}
PastPolicyPcs == {"check_approval", "separate_duties", "insert_intent", "claim"}
GatePcs == {"snapshot", "policy"} \cup PastPolicyPcs

\* The shape of a call's locals, as far as the proofs need it: what the facts
\* are is left open.
Shaped(x) == /\ DOMAIN x = CallFields /\ DOMAIN x.facts = ToSet(Aspects)
             /\ x.read \in 0 .. 4
             /\ x.pc \in GatePcs => x.invoice \in Invoices
             /\ x.pc = "snapshot" => x.op \in {"decide", "create", "execute"}
             /\ x.pc \in {"policy", "check_approval", "separate_duties"} =>
                   x.op \in {"create", "execute"}

\* Whatever the policy run has read was so at some moment of the call.
ReadIn(x, H) ==
    \A n \in 1 .. x.read : \E f \in H : f[Aspects[n]] = x.facts[Aspects[n]]

\* The present facts are among those in H; the average, which blocks nothing,
\* is left out.
Present(H, i) ==
    \E f \in H : /\ f.vendor = vendor /\ f.wallets = wallets
                 /\ f.duplicate = Duplicate(i) /\ f.workspace = workspace

\* Each rule that blocks did not apply at some moment in H.
ClearIn(H, i) ==
    /\ \E f \in H : f.vendor # "blocked"
    /\ \E f \in H : Wallet[i] \in f.wallets
    /\ \E f \in H : f.duplicate = {}
    /\ \E f \in H : Amount[i] <= f.workspace.cap

\* What holds of one call: at its gate the history has the present facts, and
\* past the policy run it has what NoBlockedPayment asks for.
CallInv(c) ==
    /\ Shaped(call[c])
    /\ \A f \in held[c] : f.workspace \in Workspaces
    /\ AtGate(c) => Present(held[c], call[c].invoice)
    /\ call[c].pc = "policy" => ReadIn(call[c], held[c])
    /\ call[c].pc \in PastPolicyPcs => ClearIn(held[c], call[c].invoice)

\* Whoever executes finds an invoice in the intent.
IntentsFilled ==
    /\ intent \in [Keys -> [status: {"none", "prepared", "executing", "confirmed", "unsettled"},
                            invoice: Invoices \cup {None}]]
    /\ \A k \in Keys : intent[k].status \in {"prepared", "executing"} =>
                          intent[k].invoice \in Invoices

GateInv ==
    /\ workspace \in Workspaces
    /\ IntentsFilled
    /\ DOMAIN call = Calls
    /\ \A c \in Calls : CallInv(c)
-----------------------------------------------------------------------------
\* The five aspects are five, and apart from each other.
LEMMA AspectsApart ==
    /\ Len(Aspects) = 5
    /\ ToSet(Aspects) = {"vendor", "wallets", "duplicate", "workspace", "average"}
    /\ Aspects[1] = "vendor" /\ Aspects[2] = "wallets" /\ Aspects[3] = "duplicate"
    /\ Aspects[4] = "workspace" /\ Aspects[5] = "average"
<1>1. Len(Aspects) = 5 /\ DOMAIN Aspects = 1 .. 5
  BY DEF Aspects
<1>2. /\ Aspects[1] = "vendor" /\ Aspects[2] = "wallets" /\ Aspects[3] = "duplicate"
      /\ Aspects[4] = "workspace" /\ Aspects[5] = "average"
  BY DEF Aspects
<1>3. ToSet(Aspects) = {Aspects[n] : n \in 1 .. 5}
  BY <1>1 DEF ToSet
<1>4. 1 .. 5 = {1, 2, 3, 4, 5}
  OBVIOUS
<1> QED
  BY <1>1, <1>2, <1>3, <1>4

\* A policy run whose result is not 'block' has read none of the four reasons.
LEMMA ResultClear ==
    ASSUME NEW i, NEW f, Result(i, f) # "block"
    PROVE  /\ f.vendor # "blocked" /\ Wallet[i] \in f.wallets
           /\ f.duplicate = {} /\ ~(Amount[i] > f.workspace.cap)
<1>1. Blocks(i, f) = {}
  BY DEF Result
<1> QED
  BY <1>1 DEF Blocks, BlockingRules

\* The three cases of the history.
LEMMA WatchCases ==
    ASSUME NEW c \in Calls
    PROVE  /\ AtGate(c)' => Watch(c) = held[c] \cup {Facts(call[c].invoice)'}
           /\ ~AtGate(c)' /\ PassedGate(c)' => Watch(c) = held[c]
           /\ ~AtGate(c)' /\ ~PassedGate(c)' => Watch(c) = {}
<1>1. ~(AtGate(c)' /\ PassedGate(c)')
  BY DEF AtGate, PassedGate
<1>2. CASE AtGate(c)'
  BY <1>1, <1>2 DEF Watch
<1>3. CASE ~AtGate(c)' /\ PassedGate(c)'
  BY <1>3 DEF Watch
<1>4. CASE ~AtGate(c)' /\ ~PassedGate(c)'
  BY <1>4 DEF Watch
<1> QED
  BY <1>2, <1>3, <1>4, Zenon

LEMMA PresentNext ==
    ASSUME NEW c \in Calls, Facts(call[c].invoice)' \in held'[c]
    PROVE  Present(held[c], call[c].invoice)'
  BY DEF Facts, Present

\* A step that leaves a call's locals alone leaves its invariant.
LEMMA Bystander ==
    ASSUME NEW c \in Calls, CallInv(c), workspace' \in Workspaces,
           call'[c] = call[c], held'[c] = Watch(c)
    PROVE  CallInv(c)'
<1>1. (AtGate(c)' <=> AtGate(c)) /\ (PassedGate(c)' <=> PassedGate(c))
  BY DEF AtGate, PassedGate
<1>2. CASE AtGate(c)
  <2>1. held'[c] = held[c] \cup {Facts(call[c].invoice)'}
    BY <1>1, <1>2, WatchCases
  <2>2. (Facts(call[c].invoice)').workspace = workspace'
    BY DEF Facts
  <2>3. held[c] \subseteq held'[c] /\ Facts(call[c].invoice)' \in held'[c]
        /\ \A f \in held'[c] : f.workspace \in Workspaces
    BY <2>1, <2>2 DEF CallInv
  <2>4. call[c].pc = "policy" => ReadIn(call'[c], held'[c])
    BY <2>3 DEF CallInv, ReadIn
  <2>5. Present(held[c], call[c].invoice)'
    BY <2>3, PresentNext
  <2>6. call[c].pc \in PastPolicyPcs => ClearIn(held'[c], call[c].invoice)
    BY <2>3 DEF CallInv, ClearIn
  <2> QED
    BY <2>3, <2>4, <2>5, <2>6 DEF CallInv
<1>3. CASE ~AtGate(c) /\ PassedGate(c)
  <2>1. held'[c] = held[c]
    BY <1>1, <1>3, WatchCases
  <2> QED
    BY <1>1, <1>3, <2>1 DEF CallInv
<1>4. CASE ~AtGate(c) /\ ~PassedGate(c)
  <2>1. held'[c] = {}
    BY <1>1, <1>4, WatchCases
  <2>2. call[c].pc \notin {"policy"} \cup PastPolicyPcs
    BY <1>4 DEF CallInv, Shaped, AtGate, PassedGate, PastPolicyPcs
  <2> QED
    BY <1>1, <1>4, <2>1, <2>2 DEF CallInv
<1> QED
  BY <1>2, <1>3, <1>4

\* A step of call d that is at the first half of its gate, or outside it.
LEMMA Outside ==
    ASSUME GateInv, Observe, workspace' \in Workspaces, NEW d \in Calls, NEW x,
           call' = [call EXCEPT ![d] = x], Shaped(x),
           x.pc \notin {"policy"} \cup PastPolicyPcs
    PROVE  DOMAIN call' = Calls /\ \A c \in Calls : CallInv(c)'
<1>1. DOMAIN call' = Calls /\ call'[d] = x
      /\ \A c \in Calls : c # d => call'[c] = call[c]
  BY DEF GateInv
<1>2. \A c \in Calls : held'[c] = Watch(c)
  BY DEF Observe
<1>3. ASSUME NEW c \in Calls, c # d PROVE CallInv(c)'
  BY <1>1, <1>2, <1>3, Bystander DEF GateInv
<1>4. CallInv(d)'
  <2>1. ~PassedGate(d)'
    BY <1>1 DEF PassedGate, PastPolicyPcs
  <2>2. (Facts(call[d].invoice)').workspace = workspace'
    BY DEF Facts
  <2>3. CASE AtGate(d)'
    <3>1. held'[d] = held[d] \cup {Facts(call[d].invoice)'}
      BY <1>2, <2>3, WatchCases
    <3>2. Present(held[d], call[d].invoice)'
      BY <3>1, PresentNext
    <3> QED
      BY <1>1, <2>2, <3>1, <3>2 DEF GateInv, CallInv, PastPolicyPcs
  <2>4. CASE ~AtGate(d)'
    <3>1. held'[d] = {}
      BY <1>2, <2>1, <2>4, WatchCases
    <3> QED
      BY <1>1, <2>4, <3>1 DEF CallInv, PastPolicyPcs
  <2> QED
    BY <2>3, <2>4
<1> QED
  BY <1>1, <1>3, <1>4

\* A step of call d within its gate, or past it: what it knows it knows from
\* the history.
LEMMA Within ==
    ASSUME GateInv, Observe, workspace' \in Workspaces, NEW d \in Calls, NEW x,
           call' = [call EXCEPT ![d] = x], Shaped(x),
           x.pc \in {"policy"} \cup PastPolicyPcs, x.invoice = call[d].invoice,
           x.pc = "policy" => ReadIn(x, held[d]),
           x.pc \in PastPolicyPcs => ClearIn(held[d], call[d].invoice)
    PROVE  DOMAIN call' = Calls /\ \A c \in Calls : CallInv(c)'
<1>1. DOMAIN call' = Calls /\ call'[d] = x
      /\ \A c \in Calls : c # d => call'[c] = call[c]
  BY DEF GateInv
<1>2. \A c \in Calls : held'[c] = Watch(c)
  BY DEF Observe
<1>3. ASSUME NEW c \in Calls, c # d PROVE CallInv(c)'
  BY <1>1, <1>2, <1>3, Bystander DEF GateInv
<1>4. CallInv(d)'
  <2>1. AtGate(d)' \/ PassedGate(d)'
    BY <1>1 DEF AtGate, PassedGate, PastPolicyPcs, Shaped
  <2>2. (Facts(call[d].invoice)').workspace = workspace'
    BY DEF Facts
  <2>3. /\ held[d] \subseteq held'[d]
        /\ AtGate(d)' => Facts(call[d].invoice)' \in held'[d]
        /\ \A f \in held'[d] : f.workspace \in Workspaces
    BY <1>2, <2>1, <2>2, WatchCases DEF GateInv, CallInv
  <2>4. x.pc = "policy" => ReadIn(x, held'[d])
    BY <2>3 DEF ReadIn
  <2>5. AtGate(d)' => Present(held[d], call[d].invoice)'
    BY <2>3, PresentNext
  <2>6. x.pc \in PastPolicyPcs => ClearIn(held'[d], call[d].invoice)
    BY <2>3 DEF ClearIn
  <2> QED
    BY <1>1, <2>3, <2>4, <2>5, <2>6 DEF CallInv
<1> QED
  BY <1>1, <1>3, <1>4

\* The locals a call has when it starts or ends.
LEMMA NoCallShaped ==
    /\ DOMAIN NoCall = CallFields /\ DOMAIN NoCall.facts = ToSet(Aspects)
    /\ NoCall.read = 0 /\ NoCall.pc = "idle"
  BY DEF NoCall, Unread, CallFields

\* One more fact read: it is the present one, the others are as before.
LEMMA ReadOne ==
    ASSUME NEW d \in Calls, CallInv(d)
    PROVE  /\ DOMAIN NextRead(d) = ToSet(Aspects)
           /\ \A n \in 1 .. 5 :
                 NextRead(d)[Aspects[n]] =
                    IF n = call[d].read + 1 THEN Facts(call[d].invoice)[Aspects[n]]
                    ELSE call[d].facts[Aspects[n]]
<1>1. call[d].read + 1 \in 1 .. 5 /\ DOMAIN call[d].facts = ToSet(Aspects)
  BY DEF CallInv, Shaped
<1>2. \A n \in 1 .. 5 : Aspects[n] \in ToSet(Aspects)
  BY AspectsApart
<1>3. \A m, n \in 1 .. 5 : Aspects[m] = Aspects[n] => m = n
  <2>1. \A n \in 1 .. 5 : n = 1 \/ n = 2 \/ n = 3 \/ n = 4 \/ n = 5
    OBVIOUS
  <2> QED
    BY <2>1, AspectsApart
<1> QED
  BY <1>1, <1>2, <1>3 DEF NextRead

\* After one more read within the policy run, what was read was so.
LEMMA ReadsTrue ==
    ASSUME NEW d \in Calls, CallInv(d), AtGate(d), call[d].pc = "policy"
    PROVE  \A n \in 1 .. 4 : n <= call[d].read + 1 =>
              \E f \in held[d] : f[Aspects[n]] = NextRead(d)[Aspects[n]]
<1> SUFFICES ASSUME NEW n \in 1 .. 4, n <= call[d].read + 1
             PROVE  \E f \in held[d] : f[Aspects[n]] = NextRead(d)[Aspects[n]]
  OBVIOUS
<1>1. n \in 1 .. 5 /\ call[d].read \in 0 .. 4
  BY DEF CallInv, Shaped
<1>2. CASE n = call[d].read + 1
  <2>1. NextRead(d)[Aspects[n]] = Facts(call[d].invoice)[Aspects[n]]
    BY <1>1, <1>2, ReadOne
  <2>2. Aspects[n] \in {"vendor", "wallets", "duplicate", "workspace"}
    <3>1. n = 1 \/ n = 2 \/ n = 3 \/ n = 4
      OBVIOUS
    <3> QED
      BY <3>1, AspectsApart
  <2>3. \E f \in held[d] : \A a \in {"vendor", "wallets", "duplicate", "workspace"} :
                              f[a] = Facts(call[d].invoice)[a]
    BY DEF CallInv, Present, Facts
  <2> QED
    BY <2>1, <2>2, <2>3
<1>3. CASE n # call[d].read + 1
  <2>1. n \in 1 .. call[d].read /\ NextRead(d)[Aspects[n]] = call[d].facts[Aspects[n]]
    BY <1>1, <1>3, ReadOne
  <2> QED
    BY <2>1 DEF CallInv, ReadIn
<1> QED
  BY <1>2, <1>3

\* A policy run that ends without a block leaves the call with a history that
\* has a moment without each of the four reasons.
LEMMA RunClear ==
    ASSUME NEW d \in Calls, CallInv(d), AtGate(d), call[d].pc = "policy", LastRead(d),
           Result(call[d].invoice, NextRead(d)) # "block"
    PROVE  ClearIn(held[d], call[d].invoice)
<1> DEFINE i == call[d].invoice
           n == NextRead(d)
<1>1. call[d].read + 1 = 5
  BY AspectsApart DEF LastRead
<1>2. \A m \in 1 .. 4 : \E f \in held[d] : f[Aspects[m]] = n[Aspects[m]]
  BY <1>1, ReadsTrue
<1>3. /\ \E f \in held[d] : f.vendor = n.vendor
      /\ \E f \in held[d] : f.wallets = n.wallets
      /\ \E f \in held[d] : f.duplicate = n.duplicate
      /\ \E f \in held[d] : f.workspace = n.workspace
  BY <1>2, AspectsApart
<1>4. /\ n.vendor # "blocked" /\ Wallet[i] \in n.wallets
      /\ n.duplicate = {} /\ ~(Amount[i] > n.workspace.cap)
  BY ResultClear
<1>5. \A f \in held[d] : f.workspace.cap \in Nat
  BY PolicyAssumption DEF CallInv
<1>6. Amount[i] \in Nat
  BY PolicyAssumption DEF CallInv, Shaped, GatePcs
<1> HIDE DEF n
<1>7. \E f \in held[d] : Amount[i] <= f.workspace.cap
  BY <1>3, <1>4, <1>5, <1>6
<1> QED
  BY <1>3, <1>4, <1>7 DEF ClearIn
-----------------------------------------------------------------------------
\* A call comes in.
LEMMA Comes ==
    ASSUME GateInv, Observe, UNCHANGED <<workspace, intent>>, NEW c \in Calls,
           NEW op, NEW u, NEW i \in Invoices, NEW k, NEW pc \in {"evaluate", "snapshot"},
           pc = "snapshot" => op \in {"decide", "create", "execute"},
           Begin(c, op, u, i, k, pc)
    PROVE  GateInv'
<1> DEFINE x == [NoCall EXCEPT !.pc = pc, !.op = op, !.user = u, !.invoice = i, !.key = k]
<1>1. call' = [call EXCEPT ![c] = x]
  BY DEF Begin
<1>2. Shaped(x) /\ x.pc = pc
  BY NoCallShaped DEF Shaped, CallFields
<1> HIDE DEF x
<1>3. DOMAIN call' = Calls /\ \A d \in Calls : CallInv(d)'
  BY <1>1, <1>2, Outside DEF GateInv, PastPolicyPcs
<1> QED
  BY <1>3 DEF GateInv, IntentsFilled

\* A call returns, goes on to write a status, or takes another step that is
\* not of a gate: to settle, or to insert the approval.
LEMMA Leaves ==
    ASSUME GateInv, Observe, workspace' \in Workspaces, NEW c \in Calls,
           \/ Return(c)
           \/ \E status : ThenStatus(c, status)
           \/ Goto(c, "settle")
    PROVE  DOMAIN call' = Calls /\ \A d \in Calls : CallInv(d)'
<1>1. CASE Return(c)
  <2>1. Shaped(NoCall) /\ NoCall.pc \notin {"policy"} \cup PastPolicyPcs
    BY NoCallShaped DEF Shaped, GatePcs, PastPolicyPcs
  <2> QED
    BY <1>1, <2>1, Outside DEF Return
<1>2. CASE \E status : ThenStatus(c, status)
  <2>1. PICK status : ThenStatus(c, status)
    BY <1>2
  <2> DEFINE x == [NoCall EXCEPT !.pc = "set_status", !.status = status,
                                 !.invoice = call[c].invoice]
  <2>2. call' = [call EXCEPT ![c] = x]
    BY <2>1 DEF ThenStatus
  <2>3. Shaped(x) /\ x.pc \notin {"policy"} \cup PastPolicyPcs
    BY NoCallShaped DEF Shaped, CallFields, GatePcs, PastPolicyPcs
  <2> HIDE DEF x
  <2> QED
    BY <2>2, <2>3, Outside
<1>3. CASE Goto(c, "settle")
  <2> DEFINE x == [call[c] EXCEPT !.pc = "settle"]
  <2>1. call' = [call EXCEPT ![c] = x]
    BY <1>3 DEF Goto, GateInv
  <2>2. Shaped(x) /\ x.pc \notin {"policy"} \cup PastPolicyPcs
    BY DEF GateInv, CallInv, Shaped, CallFields, GatePcs, PastPolicyPcs
  <2> HIDE DEF x
  <2> QED
    BY <2>1, <2>2, Outside
<1> QED
  BY <1>1, <1>2, <1>3

\* The statements that read the facts.
LEMMA Reads ==
    ASSUME GateInv, NEW c \in Calls, ReadFact(c) \/ TakeSnapshot(c) \/ RunPolicy(c)
    PROVE  GateInv'
<1>1. Observe /\ workspace' \in Workspaces /\ UNCHANGED intent
  BY DEF ReadFact, TakeSnapshot, RunPolicy, WritesNothing, GateInv
<1>2. Shaped(call[c]) /\ CallInv(c)
  BY DEF GateInv, CallInv
<1>3. DOMAIN NextRead(c) = ToSet(Aspects)
  BY <1>2, ReadOne
<1>4. call[c].pc = "policy" => AtGate(c)
  BY <1>2 DEF Shaped, AtGate
<1>5. DOMAIN call' = Calls /\ \A d \in Calls : CallInv(d)'
  <2>1. CASE ReadFact(c)
    <3> DEFINE x == [call[c] EXCEPT !.facts = NextRead(c), !.read = call[c].read + 1]
    <3>1. call' = [call EXCEPT ![c] = x] /\ call[c].pc \in {"snapshot", "policy"}
      BY <1>2, <2>1 DEF ReadFact, GateInv, Shaped, CallFields
    <3>2. call[c].read + 1 \in 0 .. 4
      BY <1>2, <2>1, AspectsApart DEF ReadFact, LastRead, Shaped
    <3>3. /\ Shaped(x) /\ x.pc = call[c].pc /\ x.invoice = call[c].invoice
          /\ x.read = call[c].read + 1 /\ x.facts = NextRead(c)
      BY <1>2, <1>3, <3>2 DEF Shaped, CallFields
    <3> HIDE DEF x
    <3>4. CASE call[c].pc = "snapshot"
      BY <1>1, <3>1, <3>3, <3>4, Outside DEF PastPolicyPcs
    <3>5. CASE call[c].pc = "policy"
      <4>1. ReadIn(x, held[c])
        BY <1>2, <1>4, <3>2, <3>3, <3>5, ReadsTrue DEF ReadIn
      <4>2. x.pc \notin PastPolicyPcs
        BY <3>3, <3>5 DEF PastPolicyPcs
      <4> QED
        BY <1>1, <3>1, <3>3, <3>5, <4>1, <4>2, Within
    <3> QED
      BY <3>1, <3>4, <3>5
  <2>2. CASE TakeSnapshot(c)
    <3> DEFINE pc == IF call[c].op = "decide" THEN "insert_approval" ELSE "policy"
               x == [call[c] EXCEPT !.snapshot = Snapshot(call[c].invoice, NextRead(c)),
                                    !.pc = pc, !.facts = Unread, !.read = 0]
    <3>1. call' = [call EXCEPT ![c] = x] /\ call[c].pc = "snapshot"
      BY <1>2, <2>2 DEF TakeSnapshot, GateInv, Shaped, CallFields
    <3>2. DOMAIN Unread = ToSet(Aspects)
      BY DEF Unread
    <3>3. Shaped(x) /\ x.pc = pc /\ x.invoice = call[c].invoice /\ x.read = 0
      BY <1>2, <3>1, <3>2 DEF Shaped, CallFields, GatePcs
    <3> HIDE DEF x
    <3>4. CASE call[c].op = "decide"
      BY <1>1, <3>1, <3>3, <3>4, Outside DEF PastPolicyPcs
    <3>5. CASE call[c].op # "decide"
      <4>1. ReadIn(x, held[c])
        BY <3>3 DEF ReadIn
      <4>2. x.pc = "policy" /\ x.pc \notin PastPolicyPcs
        BY <3>3, <3>5 DEF PastPolicyPcs
      <4> QED
        BY <1>1, <3>1, <3>3, <4>1, <4>2, Within
    <3> QED
      BY <3>4, <3>5
  <2>3. CASE RunPolicy(c)
    <3> DEFINE read == [call[c] EXCEPT !.facts = Unread, !.read = 0]
               waits == [read EXCEPT !.pc = "check_approval"]
               passes == [read EXCEPT !.pc = PastGate(c), !.snapshot = None]
               result == Result(call[c].invoice, NextRead(c))
    <3>1. /\ call[c].pc = "policy" /\ LastRead(c)
          /\ \/ result = "block" /\ Return(c)
             \/ result = "escalate" /\ call' = [call EXCEPT ![c] = waits]
             \/ result = "allow" /\ call' = [call EXCEPT ![c] = passes]
      BY <2>3 DEF RunPolicy, Result
    <3>2. result # "block" => ClearIn(held[c], call[c].invoice)
      BY <1>2, <1>4, <3>1, RunClear
    <3>3. DOMAIN Unread = ToSet(Aspects)
      BY DEF Unread
    <3>4. PastGate(c) \in {"insert_intent", "separate_duties"}
      BY DEF PastGate
    <3>5. /\ Shaped(waits) /\ waits.pc = "check_approval"
          /\ waits.invoice = call[c].invoice
      BY <1>2, <3>1, <3>3 DEF Shaped, CallFields, GatePcs, PastPolicyPcs
    <3>6. /\ Shaped(passes) /\ passes.pc = PastGate(c)
          /\ passes.invoice = call[c].invoice
      BY <1>2, <3>1, <3>3, <3>4 DEF Shaped, CallFields, GatePcs, PastPolicyPcs
    <3> HIDE DEF waits, passes, result
    <3>7. CASE Return(c)
      BY <1>1, <3>7, Leaves
    <3>8. CASE result = "escalate" /\ call' = [call EXCEPT ![c] = waits]
      BY <1>1, <3>2, <3>4, <3>5, <3>8, Within DEF PastPolicyPcs
    <3>9. CASE result = "allow" /\ call' = [call EXCEPT ![c] = passes]
      BY <1>1, <3>2, <3>4, <3>6, <3>9, Within DEF PastPolicyPcs
    <3> QED
      BY <3>1, <3>7, <3>8, <3>9
  <2> QED
    BY <2>1, <2>2, <2>3
<1> QED
  BY <1>1, <1>5 DEF GateInv, IntentsFilled

\* The checks after the policy run.
LEMMA Checks ==
    ASSUME GateInv, NEW c \in Calls, CheckApproval(c) \/ SeparateDuties(c)
    PROVE  GateInv'
<1>1. Observe /\ workspace' \in Workspaces /\ UNCHANGED intent
  BY DEF CheckApproval, SeparateDuties, WritesNothing, GateInv
<1>2. Shaped(call[c]) /\ CallInv(c)
  BY DEF GateInv, CallInv
<1>3. call[c].pc \in PastPolicyPcs /\ ClearIn(held[c], call[c].invoice)
  BY <1>2 DEF CheckApproval, SeparateDuties, PastPolicyPcs, CallInv
<1>4. CASE Return(c)
  BY <1>1, <1>4, Leaves DEF GateInv, IntentsFilled
<1>5. CASE ~Return(c)
  <2> DEFINE passes == [call[c] EXCEPT !.pc = PastGate(c), !.snapshot = None]
             claims == [call[c] EXCEPT !.pc = "claim"]
  <2>1. PICK x \in {passes, claims} : call' = [call EXCEPT ![c] = x]
    BY <1>2, <1>5 DEF CheckApproval, SeparateDuties, Goto, GateInv, Shaped, CallFields
  <2>2. PastGate(c) = "insert_intent" \/ (PastGate(c) = "separate_duties" /\ call[c].op # "create")
    BY DEF PastGate
  <2>3. call[c].pc \in {"check_approval", "separate_duties"} /\ call[c].op \in {"create", "execute"}
    BY <1>2 DEF CheckApproval, SeparateDuties, Shaped
  <2>4. Shaped(x) /\ x.pc \in PastPolicyPcs /\ x.invoice = call[c].invoice
    BY <1>2, <2>2, <2>3 DEF Shaped, CallFields, GatePcs, PastPolicyPcs
  <2> HIDE DEF passes, claims
  <2>5. x.pc # "policy"
    BY <2>4 DEF PastPolicyPcs
  <2>6. DOMAIN call' = Calls /\ \A d \in Calls : CallInv(d)'
    BY <1>1, <1>3, <2>1, <2>4, <2>5, Within
  <2> QED
    BY <1>1, <2>6 DEF GateInv, IntentsFilled
<1> QED
  BY <1>4, <1>5

\* The statements that write.
LEMMA Writes ==
    ASSUME GateInv, NEW c \in Calls,
           \/ Evaluate(c) \/ \E d \in {"approved", "rejected"} : InsertApproval(c, d)
           \/ InsertIntent(c) \/ Claim(c) \/ Settle(c) \/ SetStatus(c)
    PROVE  GateInv'
<1>1. Observe /\ UNCHANGED workspace
  BY DEF Evaluate, InsertApproval, InsertIntent, Claim, Settle, SetStatus, WritesNothing
<1>2. \/ Return(c)
      \/ \E status : ThenStatus(c, status)
      \/ Goto(c, "settle")
  BY DEF Evaluate, InsertApproval, InsertIntent, Claim, Settle, SetStatus
<1>3. DOMAIN call' = Calls /\ \A d \in Calls : CallInv(d)'
  BY <1>1, <1>2, Leaves DEF GateInv
<1>4. IntentsFilled'
  <2>1. CASE UNCHANGED intent
    BY <2>1 DEF GateInv, IntentsFilled
  <2>2. CASE InsertIntent(c) /\ intent' # intent
    <3>1. call[c].invoice \in Invoices
      BY <2>2 DEF InsertIntent, GateInv, CallInv, Shaped, GatePcs, PastPolicyPcs
    <3>2. intent' = [intent EXCEPT ![call[c].key] = [status |-> "prepared",
                                                     invoice |-> call[c].invoice]]
      BY <2>2 DEF InsertIntent
    <3> QED
      BY <3>1, <3>2 DEF GateInv, IntentsFilled
  <2>3. CASE Claim(c) /\ intent' # intent
    <3>1. intent' = [intent EXCEPT ![call[c].key].status = "executing"]
          /\ intent[call[c].key].status = "prepared"
      BY <2>3 DEF Claim
    <3> QED
      BY <3>1 DEF GateInv, IntentsFilled
  <2>4. CASE Settle(c)
    <3>1. PICK s \in {"confirmed", "unsettled"} :
              intent' = [intent EXCEPT ![call[c].key].status = s]
      BY <2>4 DEF Settle
    <3>2. ASSUME NEW k \in Keys
          PROVE  /\ intent'[k].invoice = intent[k].invoice
                 /\ intent'[k].status = s \/ intent'[k].status = intent[k].status
      BY <3>1 DEF GateInv, IntentsFilled
    <3>3. intent' \in [Keys -> [status: {"none", "prepared", "executing", "confirmed", "unsettled"},
                                invoice: Invoices \cup {None}]]
      BY <3>1 DEF GateInv, IntentsFilled
    <3>4. ASSUME NEW k \in Keys, intent'[k].status \in {"prepared", "executing"}
          PROVE  intent'[k].invoice \in Invoices
      BY <3>2, <3>4 DEF GateInv, IntentsFilled
    <3> QED
      BY <3>3, <3>4 DEF IntentsFilled
  <2> QED
    BY <2>1, <2>2, <2>3, <2>4
       DEF Evaluate, InsertApproval, SetStatus, WritesNothing
<1> QED
  BY <1>1, <1>3, <1>4 DEF GateInv

\* An edit of the vendor, its wallets or the workspace.
LEMMA Edits ==
    ASSUME GateInv,
           UpsertVendor \/ UpdateWorkspace \/ \E w \in Wallets : AddVendorWallet(w)
    PROVE  GateInv'
<1>1. Observe /\ UNCHANGED <<call, intent>> /\ workspace' \in Workspaces
  BY DEF UpsertVendor, UpdateWorkspace, AddVendorWallet, Edit, GateInv
<1>2. \A c \in Calls : held'[c] = Watch(c) /\ call'[c] = call[c]
  BY <1>1 DEF Observe
<1>3. \A c \in Calls : CallInv(c)'
  BY <1>1, <1>2, Bystander DEF GateInv
<1> QED
  BY <1>1, <1>3 DEF GateInv, IntentsFilled

LEMMA GateInit == Init => GateInv
<1> SUFFICES ASSUME Init PROVE GateInv
  OBVIOUS
<1>1. workspace \in Workspaces /\ IntentsFilled /\ DOMAIN call = Calls
  BY PolicyAssumption DEF Init, IntentsFilled
<1>2. ASSUME NEW c \in Calls PROVE CallInv(c)
  <2>1. call[c] = NoCall /\ held[c] = {}
    BY DEF Init
  <2>2. Shaped(NoCall) /\ NoCall.pc = "idle"
    BY NoCallShaped DEF Shaped, GatePcs, PastPolicyPcs
  <2> QED
    BY <2>1, <2>2 DEF CallInv, AtGate, PastPolicyPcs
<1> QED
  BY <1>1, <1>2 DEF GateInv

LEMMA GateStep == GateInv /\ [Next]_vars => GateInv'
<1> SUFFICES ASSUME GateInv, [Next]_vars PROVE GateInv'
  OBVIOUS
<1>1. ASSUME NEW c \in Calls, NEW i \in Invoices, NEW d \in Documents, ReceiveInvoice(c, i, d)
      PROVE  GateInv'
  BY <1>1, Comes DEF ReceiveInvoice
<1>2. ASSUME NEW c \in Calls, NEW i \in Invoices, EvaluatePolicy(c, i) PROVE GateInv'
  BY <1>2, Comes DEF EvaluatePolicy
<1>3. ASSUME NEW c \in Calls, NEW i \in Invoices, NEW u \in Users, DecideApproval(c, u, i)
      PROVE  GateInv'
  BY <1>3, Comes DEF DecideApproval
<1>4. ASSUME NEW c \in Calls, NEW i \in Invoices, NEW k \in Keys, CreatePaymentIntent(c, i, k)
      PROVE  GateInv'
  BY <1>4, Comes DEF CreatePaymentIntent
<1>5. ASSUME NEW c \in Calls, NEW u \in Users, NEW k \in Keys, ExecutePaymentIntent(c, u, k)
      PROVE  GateInv'
  <2>1. intent[k].invoice \in Invoices
    BY <1>5 DEF ExecutePaymentIntent, GateInv, IntentsFilled
  <2> QED
    BY <1>5, <2>1, Comes DEF ExecutePaymentIntent
<1>6. CASE UNCHANGED vars
  <2>1. ASSUME NEW i PROVE Duplicate(i)' = Duplicate(i)
    BY <1>6 DEF vars, Duplicate, FindInvoice
  <2>2. ASSUME NEW c \in Calls PROVE CallInv(c)'
    BY <1>6, <2>1 DEF vars, GateInv, CallInv, AtGate, Present
  <2> QED
    BY <1>6, <2>2 DEF vars, GateInv, IntentsFilled
<1> QED
  BY <1>1, <1>2, <1>3, <1>4, <1>5, <1>6, Reads, Checks, Writes, Edits DEF Next
-----------------------------------------------------------------------------
\* However edits fall between the statements of a gate, a call that passes it
\* met a moment without each of the reasons that block a payment
\* (ensurePayable, runPolicy).
THEOREM BlockedIsNotPaid == Spec => []NoBlockedPayment
<1>1. GateInv => NoBlockedPayment
  BY DEF GateInv, CallInv, ClearIn, NoBlockedPayment, PassedGate, PastPolicyPcs
<1> QED
  BY <1>1, GateInit, GateStep, PTL DEF Spec

\* Calls that race for a key: whichever wins, an intent keeps its invoice and is
\* prepared once (createPaymentIntent, claimPaymentIntentExecution).
THEOREM IntentsKept == Spec => IntentKept
<1>1. GateInv /\ [Next]_vars =>
        [\A k \in Keys : intent[k].status # "none" =>
            /\ intent'[k].invoice = intent[k].invoice
            /\ intent'[k].status = "prepared" => intent[k].status = "prepared"]_vars
  <2> SUFFICES ASSUME GateInv, Next, NEW k \in Keys, intent[k].status # "none"
               PROVE  /\ intent'[k].invoice = intent[k].invoice
                      /\ intent'[k].status = "prepared" => intent[k].status = "prepared"
    OBVIOUS
  <2>1. intent \in [Keys -> [status: {"none", "prepared", "executing", "confirmed", "unsettled"},
                             invoice: Invoices \cup {None}]]
    BY DEF GateInv, IntentsFilled
  <2>2. ASSUME NEW c \in Calls, InsertIntent(c) PROVE intent'[k] = intent[k]
    BY <2>1, <2>2 DEF InsertIntent, KeyFree
  <2>3. ASSUME NEW c \in Calls, Claim(c) \/ Settle(c)
        PROVE  /\ intent'[k].invoice = intent[k].invoice
               /\ intent'[k].status = "prepared" => intent[k].status = "prepared"
    BY <2>1, <2>3 DEF Claim, Settle
  <2>4. \/ UNCHANGED intent
        \/ \E c \in Calls : InsertIntent(c) \/ Claim(c) \/ Settle(c)
    BY DEF Next, ReceiveInvoice, EvaluatePolicy, DecideApproval, CreatePaymentIntent,
           ExecutePaymentIntent, ReadFact, TakeSnapshot, RunPolicy, Evaluate, CheckApproval,
           SeparateDuties, InsertApproval, SetStatus, UpsertVendor, UpdateWorkspace,
           AddVendorWallet, Edit, WritesNothing
  <2> QED
    BY <2>2, <2>3, <2>4
<1> QED
  BY <1>1, GateInit, GateStep, PTL DEF Spec, IntentKept
-----------------------------------------------------------------------------
(***************************************************************************)
(* The gate when nothing changes under it.  The history of a call at its   *)
(* gate has the present facts, so that a history of one element f says     *)
(* that they were f all along: then every statement has read f, and the    *)
(* checks passed are those of f.  Approvals are only ever appended, which  *)
(* keeps the ones a check has found.                                       *)
(***************************************************************************)
Rows(i) == {n \in 1 .. Len(approvals[i]) : approvals[i][n].decision = "approved"}

\* Some approval of invoice i is of another member than u.
ApprovedByOther(i, u) ==
    \E n \in DOMAIN approvals[i] : /\ approvals[i][n].decision = "approved"
                                  /\ approvals[i][n].user # u

\* What the locals x say if the facts were f since the call came to its gate.
Knows(x, f) ==
    /\ x.op # "decide" /\ x.pc \in {"snapshot", "policy"} =>
          \A n \in 1 .. x.read : x.facts[Aspects[n]] = f[Aspects[n]]
    /\ x.op # "decide" /\ x.pc \in {"policy", "check_approval"} =>
          x.snapshot = Snapshot(x.invoice, f)
    /\ x.pc = "check_approval" => Result(x.invoice, f) = "escalate"
    /\ x.pc \in {"separate_duties", "insert_intent", "claim"} => Payable(x.invoice, f)
    /\ x.pc = "claim" /\ Result(x.invoice, f) = "escalate" =>
          ApprovedByOther(x.invoice, x.user)

SteadyCall(c) ==
    /\ AtGate(c) => Facts(call[c].invoice) \in held[c]
    /\ \A f : held[c] = {f} => Knows(call[c], f)

Listed == /\ DOMAIN approvals = Invoices
          /\ \A i \in Invoices : \E S : approvals[i] \in Seq(S)

SteadyInv == Listed /\ \A c \in Calls : SteadyCall(c)

\* Approvals are rows that stay.
Grown ==
    \A i \in Invoices : /\ DOMAIN approvals[i] \subseteq DOMAIN approvals'[i]
                        /\ \A n \in DOMAIN approvals[i] : approvals'[i][n] = approvals[i][n]

\* A set of positions that is not empty has a last one.
LEMMA LastPosition ==
    ASSUME NEW n \in Nat, NEW S \in SUBSET (1 .. n), S # {}
    PROVE  Max(S) \in S
<1> DEFINE T == {n - m : m \in S}
<1>1. \A m \in S : m \in Nat /\ m <= n /\ n - m \in Nat
  OBVIOUS
<1>2. T \subseteq Nat /\ T # {}
  BY <1>1
<1>3. \A a, b \in Nat : a < b => <<a, b>> \in OpToRel(<, Nat)
  <2>1. \A a, b \in Nat : a < b => <<a, b>> \in {ss \in Nat \X Nat : ss[1] < ss[2]}
    OBVIOUS
  <2> QED
    BY <2>1, Zenon DEF OpToRel
<1> HIDE DEF T
<1>4. \E t \in T : \A u \in T : ~(<<u, t>> \in OpToRel(<, Nat))
  BY <1>2, NatLessThanWellFounded, WFMin, Zenon
<1>5. \E t \in T : \A u \in T : ~(u < t)
  BY <1>2, <1>3, <1>4, Zenon
<1>6. \E m \in S : \A k \in S : m >= k
  <2>1. PICK t \in T : \A u \in T : ~(u < t)
    BY <1>5
  <2>2. PICK m \in S : t = n - m
    BY <2>1 DEF T
  <2>3. ASSUME NEW k \in S PROVE m >= k
    <3>1. n - k \in T
      BY DEF T
    <3>2. ~(n - k < n - m)
      BY <2>1, <2>2, <3>1
    <3> QED
      BY <1>1, <3>2
  <2> QED
    BY <2>3
<1> QED
  BY <1>6 DEF Max

\* The approval the gate looks at is an approval, and there is one if any is.
LEMMA LatestFound ==
    ASSUME SteadyInv, NEW i \in Invoices
    PROVE  /\ LatestApproved(i) # 0 => LatestApproved(i) \in Rows(i)
           /\ LatestApproved(i) = 0 => Rows(i) = {}
           /\ Rows(i) \subseteq DOMAIN approvals[i]
           /\ \A n \in DOMAIN approvals[i] :
                 approvals[i][n].decision = "approved" => n \in Rows(i)
<1>1. PICK S : approvals[i] \in Seq(S)
  BY DEF SteadyInv, Listed
<1>2. Len(approvals[i]) \in Nat /\ DOMAIN approvals[i] = 1 .. Len(approvals[i])
  BY <1>1
<1>3. LatestApproved(i) = IF Rows(i) # {} THEN Max(Rows(i)) ELSE 0
  BY <1>1 DEF LatestApproved, SelectLastInSeq, Rows
<1>4. Rows(i) \in SUBSET (1 .. Len(approvals[i]))
  BY DEF Rows
<1>5. Rows(i) # {} => Max(Rows(i)) \in Rows(i)
  BY <1>2, <1>4, LastPosition
<1>6. 0 \notin Rows(i)
  BY <1>2 DEF Rows
<1> QED
  BY <1>2, <1>3, <1>5, <1>6 DEF Rows

\* What a call knows it still knows when there are more approvals.
LEMMA KnowsMore ==
    ASSUME Grown, NEW x, NEW f, Knows(x, f),
           x.pc \in {"separate_duties", "insert_intent", "claim"} => x.invoice \in Invoices
    PROVE  Knows(x, f)'
<1>1. ASSUME NEW i \in Invoices
      PROVE  /\ ApprovedUnder(i, f) => ApprovedUnder(i, f)'
             /\ \A u : ApprovedByOther(i, u) => ApprovedByOther(i, u)'
  BY DEF Grown, ApprovedUnder, ApprovedByOther
<1>2. \A i \in Invoices : Payable(i, f) => Payable(i, f)'
  BY <1>1 DEF Payable
<1> QED
  BY <1>1, <1>2 DEF Knows

\* A step that leaves a call's locals alone leaves what it knows.
LEMMA SteadyBystander ==
    ASSUME NEW c \in Calls, Shaped(call[c]), SteadyCall(c), Grown,
           call'[c] = call[c], held'[c] = Watch(c)
    PROVE  SteadyCall(c)'
<1>1. (AtGate(c)' <=> AtGate(c)) /\ (PassedGate(c)' <=> PassedGate(c))
  BY DEF AtGate, PassedGate
<1>2. \A f : Knows(call[c], f) => Knows(call[c], f)'
  <2> SUFFICES ASSUME NEW f, Knows(call[c], f) PROVE Knows(call[c], f)'
    OBVIOUS
  <2>1. PICK x : x = call[c]
    OBVIOUS
  <2>2. x.pc \in {"separate_duties", "insert_intent", "claim"} => x.invoice \in Invoices
    BY <2>1 DEF Shaped, GatePcs, PastPolicyPcs
  <2>3. Knows(x, f)'
    BY <2>1, <2>2, KnowsMore
  <2> QED
    BY <2>1, <2>3
<1>3. CASE AtGate(c)
  <2>1. held'[c] = held[c] \cup {Facts(call[c].invoice)'}
    BY <1>1, <1>3, WatchCases
  <2>2. ASSUME NEW f, held'[c] = {f} PROVE held[c] = {f}
    BY <1>3, <2>1, <2>2 DEF SteadyCall
  <2> QED
    BY <1>1, <1>2, <2>1, <2>2 DEF SteadyCall
<1>4. CASE ~AtGate(c) /\ PassedGate(c)
  <2>1. held'[c] = held[c]
    BY <1>1, <1>4, WatchCases
  <2> QED
    BY <1>1, <1>2, <1>4, <2>1 DEF SteadyCall
<1>5. CASE ~AtGate(c) /\ ~PassedGate(c)
  <2>1. held'[c] = {}
    BY <1>1, <1>5, WatchCases
  <2> QED
    BY <1>1, <1>5, <2>1 DEF SteadyCall
<1> QED
  BY <1>3, <1>4, <1>5

\* A step of call d whose new locals know what a history of one element says.
LEMMA SteadyMove ==
    ASSUME GateInv, GateInv', SteadyInv, Observe, Grown, Listed',
           NEW d \in Calls, NEW x, call' = [call EXCEPT ![d] = x],
           \A f : held'[d] = {f} => Knows(x, f)
    PROVE  SteadyInv'
<1>1. call'[d] = x /\ \A c \in Calls : c # d => call'[c] = call[c]
  BY DEF GateInv
<1>2. \A c \in Calls : held'[c] = Watch(c)
  BY DEF Observe
<1>3. ASSUME NEW c \in Calls, c # d PROVE SteadyCall(c)'
  BY <1>1, <1>2, <1>3, SteadyBystander DEF GateInv, CallInv, SteadyInv
<1>4. SteadyCall(d)'
  <2>1. x.pc \in {"separate_duties", "insert_intent", "claim"} => x.invoice \in Invoices
    BY <1>1 DEF GateInv, CallInv, Shaped, GatePcs, PastPolicyPcs
  <2>2. \A f : held'[d] = {f} => Knows(x, f)'
    BY <2>1, KnowsMore
  <2>3. AtGate(d)' => Facts(call[d].invoice)' \in held'[d]
    BY <1>2, WatchCases
  <2> QED
    BY <1>1, <2>2, <2>3 DEF SteadyCall
<1> QED
  BY <1>3, <1>4 DEF SteadyInv

LEMMA Stays == SteadyInv /\ UNCHANGED approvals => Grown /\ Listed'
  BY DEF Grown, Listed, SteadyInv

\* At its gate a call with a history of one element has had it before.
LEMMA HeldBefore ==
    ASSUME NEW d \in Calls, SteadyCall(d), AtGate(d), AtGate(d)' \/ PassedGate(d)',
           Observe, NEW f, held'[d] = {f}
    PROVE  held[d] = {f} /\ f = Facts(call[d].invoice) /\ Knows(call[d], f)
<1>1. held[d] \subseteq held'[d]
  BY WatchCases DEF Observe
<1> QED
  BY <1>1 DEF SteadyCall

\* What a call of a constant history has read with one more read.
LEMMA SteadyRead ==
    ASSUME NEW d \in Calls, CallInv(d), NEW f, f = Facts(call[d].invoice),
           \A n \in 1 .. call[d].read : call[d].facts[Aspects[n]] = f[Aspects[n]]
    PROVE  \A n \in 1 .. (call[d].read + 1) : NextRead(d)[Aspects[n]] = f[Aspects[n]]
<1> SUFFICES ASSUME NEW n \in 1 .. (call[d].read + 1)
             PROVE  NextRead(d)[Aspects[n]] = f[Aspects[n]]
  OBVIOUS
<1>1. call[d].read \in 0 .. 4 /\ n \in 1 .. 5
  BY DEF CallInv, Shaped
<1>2. CASE n = call[d].read + 1
  BY <1>1, <1>2, ReadOne
<1>3. CASE n # call[d].read + 1
  <2>1. n \in 1 .. call[d].read /\ NextRead(d)[Aspects[n]] = call[d].facts[Aspects[n]]
    BY <1>1, <1>3, ReadOne
  <2> QED
    BY <2>1
<1> QED
  BY <1>2, <1>3

\* Having read all of it, snapshot and result are those of the facts.
LEMMA SteadyWhole ==
    ASSUME NEW d \in Calls, CallInv(d), LastRead(d), NEW f, f = Facts(call[d].invoice),
           \A n \in 1 .. call[d].read : call[d].facts[Aspects[n]] = f[Aspects[n]]
    PROVE  /\ Snapshot(call[d].invoice, NextRead(d)) = Snapshot(call[d].invoice, f)
           /\ Result(call[d].invoice, NextRead(d)) = Result(call[d].invoice, f)
<1> DEFINE n == NextRead(d)
<1>1. call[d].read + 1 = 5
  BY AspectsApart DEF LastRead, CallInv, Shaped
<1>2. \A m \in 1 .. 5 : n[Aspects[m]] = f[Aspects[m]]
  BY <1>1, SteadyRead
<1>3. /\ n.vendor = f.vendor /\ n.wallets = f.wallets /\ n.duplicate = f.duplicate
      /\ n.workspace = f.workspace /\ n.average = f.average
  BY <1>2, AspectsApart
<1> HIDE DEF n
<1>4. /\ Blocks(call[d].invoice, n) = Blocks(call[d].invoice, f)
      /\ Escalations(call[d].invoice, n) = Escalations(call[d].invoice, f)
  BY <1>3 DEF Blocks, Escalations
<1>5. Snapshot(call[d].invoice, n) = Snapshot(call[d].invoice, f)
  BY <1>3, <1>4 DEF Snapshot
<1>6. Result(call[d].invoice, n) = Result(call[d].invoice, f)
  BY <1>4 DEF Result
<1> QED
  BY <1>5, <1>6 DEF n
-----------------------------------------------------------------------------
LEMMA SteadyComes ==
    ASSUME GateInv, GateInv', SteadyInv, Observe, UNCHANGED approvals, NEW c \in Calls,
           NEW op, NEW u, NEW i, NEW k, NEW pc \in {"evaluate", "snapshot"},
           Begin(c, op, u, i, k, pc)
    PROVE  SteadyInv'
<1> DEFINE x == [NoCall EXCEPT !.pc = pc, !.op = op, !.user = u, !.invoice = i, !.key = k]
<1>1. call' = [call EXCEPT ![c] = x]
  BY DEF Begin
<1>2. x.pc = pc /\ x.read = 0
  BY NoCallShaped DEF CallFields
<1> HIDE DEF x
<1>3. \A f : Knows(x, f)
  BY <1>2 DEF Knows
<1> QED
  BY <1>1, <1>3, Stays, SteadyMove

LEMMA SteadyReads ==
    ASSUME GateInv, GateInv', SteadyInv, NEW c \in Calls, ReadFact(c) \/ TakeSnapshot(c)
    PROVE  SteadyInv'
<1>1. Observe /\ UNCHANGED approvals
  BY DEF ReadFact, TakeSnapshot, WritesNothing
<1>2. Shaped(call[c]) /\ CallInv(c) /\ SteadyCall(c) /\ c \in DOMAIN call
  BY DEF GateInv, CallInv, SteadyInv
<1>3. CASE ReadFact(c)
  <2> DEFINE y == [call[c] EXCEPT !.facts = NextRead(c), !.read = call[c].read + 1]
  <2>1. call' = [call EXCEPT ![c] = y] /\ call[c].pc \in {"snapshot", "policy"}
    BY <1>2, <1>3 DEF ReadFact, Shaped, CallFields
  <2>2. /\ y.pc = call[c].pc /\ y.op = call[c].op /\ y.invoice = call[c].invoice
        /\ y.read = call[c].read + 1 /\ y.facts = NextRead(c)
        /\ y.snapshot = call[c].snapshot
    BY <1>2 DEF Shaped, CallFields
  <2>3. call'[c] = y
    BY <1>2, <2>1
  <2> HIDE DEF y
  <2>4. ASSUME NEW f, held'[c] = {f} PROVE Knows(y, f)
    <3>1. CASE call[c].op = "decide"
      BY <2>1, <2>2, <3>1 DEF Knows
    <3>2. CASE call[c].op # "decide"
      <4>1. AtGate(c) /\ AtGate(c)'
        BY <1>2, <2>1, <2>2, <2>3, <3>2 DEF AtGate, Shaped
      <4>2. f = Facts(call[c].invoice) /\ Knows(call[c], f)
        BY <1>1, <1>2, <2>4, <4>1, HeldBefore
      <4>3. \A n \in 1 .. call[c].read : call[c].facts[Aspects[n]] = f[Aspects[n]]
        BY <2>1, <3>2, <4>2 DEF Knows
      <4>4. \A n \in 1 .. (call[c].read + 1) : NextRead(c)[Aspects[n]] = f[Aspects[n]]
        BY <1>2, <4>2, <4>3, SteadyRead
      <4> QED
        BY <2>1, <2>2, <3>2, <4>2, <4>4 DEF Knows
    <3> QED
      BY <3>1, <3>2
  <2> QED
    BY <1>1, <2>1, <2>4, Stays, SteadyMove
<1>4. CASE TakeSnapshot(c)
  <2> DEFINE pc == IF call[c].op = "decide" THEN "insert_approval" ELSE "policy"
             y == [call[c] EXCEPT !.snapshot = Snapshot(call[c].invoice, NextRead(c)),
                                  !.pc = pc, !.facts = Unread, !.read = 0]
  <2>1. call' = [call EXCEPT ![c] = y] /\ call[c].pc = "snapshot" /\ LastRead(c)
    BY <1>2, <1>4 DEF TakeSnapshot, Shaped, CallFields
  <2>2. /\ y.pc = pc /\ y.op = call[c].op /\ y.invoice = call[c].invoice /\ y.read = 0
        /\ y.snapshot = Snapshot(call[c].invoice, NextRead(c))
    BY <1>2 DEF Shaped, CallFields
  <2>3. call'[c] = y
    BY <1>2, <2>1
  <2> HIDE DEF y
  <2>4. ASSUME NEW f, held'[c] = {f} PROVE Knows(y, f)
    <3>1. CASE call[c].op = "decide"
      BY <2>2, <3>1 DEF Knows
    <3>2. CASE call[c].op # "decide"
      <4>1. AtGate(c) /\ AtGate(c)'
        BY <1>2, <2>1, <2>2, <2>3, <3>2 DEF AtGate, Shaped
      <4>2. f = Facts(call[c].invoice) /\ Knows(call[c], f)
        BY <1>1, <1>2, <2>4, <4>1, HeldBefore
      <4>3. \A n \in 1 .. call[c].read : call[c].facts[Aspects[n]] = f[Aspects[n]]
        BY <2>1, <3>2, <4>2 DEF Knows
      <4>4. Snapshot(call[c].invoice, NextRead(c)) = Snapshot(call[c].invoice, f)
        BY <1>2, <2>1, <4>2, <4>3, SteadyWhole
      <4> QED
        BY <2>2, <3>2, <4>4 DEF Knows
    <3> QED
      BY <3>1, <3>2
  <2> QED
    BY <1>1, <2>1, <2>4, Stays, SteadyMove
<1> QED
  BY <1>3, <1>4

LEMMA SteadyLeaves ==
    ASSUME GateInv, GateInv', SteadyInv, Observe, Grown, Listed', NEW c \in Calls,
           \/ Return(c)
           \/ \E status : ThenStatus(c, status)
           \/ Goto(c, "settle")
    PROVE  SteadyInv'
<1>1. Shaped(call[c]) /\ c \in DOMAIN call
  BY DEF GateInv, CallInv
<1>2. PICK x : /\ call' = [call EXCEPT ![c] = x]
               /\ x.pc \in {"idle", "set_status", "settle"}
  <2>1. CASE Return(c)
    BY <2>1, NoCallShaped DEF Return
  <2>2. CASE \E status : ThenStatus(c, status)
    <3>1. PICK status : ThenStatus(c, status)
      BY <2>2
    <3> DEFINE y == [NoCall EXCEPT !.pc = "set_status", !.status = status,
                                   !.invoice = call[c].invoice]
    <3>2. call' = [call EXCEPT ![c] = y]
      BY <3>1 DEF ThenStatus
    <3>3. y.pc = "set_status"
      BY NoCallShaped DEF CallFields
    <3> HIDE DEF y
    <3> QED
      BY <3>2, <3>3
  <2>3. CASE Goto(c, "settle")
    <3> DEFINE y == [call[c] EXCEPT !.pc = "settle"]
    <3>1. call' = [call EXCEPT ![c] = y] /\ y.pc = "settle"
      BY <1>1, <2>3 DEF Goto, Shaped, CallFields
    <3> HIDE DEF y
    <3> QED
      BY <3>1
  <2> QED
    BY <2>1, <2>2, <2>3
<1>3. \A f : Knows(x, f)
  BY <1>2 DEF Knows
<1> QED
  BY <1>2, <1>3, SteadyMove

LEMMA SteadyRuns ==
    ASSUME GateInv, GateInv', SteadyInv, NEW c \in Calls, RunPolicy(c)
    PROVE  SteadyInv'
<1> DEFINE i == call[c].invoice
           read == [call[c] EXCEPT !.facts = Unread, !.read = 0]
           waits == [read EXCEPT !.pc = "check_approval"]
           passes == [read EXCEPT !.pc = PastGate(c), !.snapshot = None]
           result == Result(i, NextRead(c))
<1>1. Observe /\ UNCHANGED approvals
  BY DEF RunPolicy, WritesNothing
<1>2. Shaped(call[c]) /\ CallInv(c) /\ SteadyCall(c) /\ c \in DOMAIN call
  BY DEF GateInv, CallInv, SteadyInv
<1>3. /\ call[c].pc = "policy" /\ LastRead(c)
      /\ \/ Return(c)
         \/ result = "escalate" /\ call' = [call EXCEPT ![c] = waits]
         \/ result = "allow" /\ call' = [call EXCEPT ![c] = passes]
  BY DEF RunPolicy, Result
<1>4. PastGate(c) \in {"insert_intent", "separate_duties"}
  BY DEF PastGate
<1>5. /\ waits.pc = "check_approval" /\ waits.invoice = i
      /\ waits.op = call[c].op /\ waits.snapshot = call[c].snapshot
  BY <1>2 DEF Shaped, CallFields
<1>6. passes.pc = PastGate(c) /\ passes.invoice = i /\ passes.op = call[c].op
  BY <1>2 DEF Shaped, CallFields
<1>7. call[c].op \in {"create", "execute"} /\ AtGate(c)
  BY <1>2, <1>3 DEF Shaped, AtGate
<1> HIDE DEF waits, passes
<1>8. ASSUME NEW f, held'[c] = {f}, AtGate(c)' \/ PassedGate(c)'
      PROVE  call[c].snapshot = Snapshot(i, f) /\ Result(i, f) = result
  <2>1. f = Facts(i) /\ Knows(call[c], f)
    BY <1>1, <1>2, <1>7, <1>8, HeldBefore
  <2>2. /\ call[c].snapshot = Snapshot(i, f)
        /\ \A n \in 1 .. call[c].read : call[c].facts[Aspects[n]] = f[Aspects[n]]
    BY <1>3, <1>7, <2>1 DEF Knows
  <2> QED
    BY <1>2, <1>3, <2>1, <2>2, SteadyWhole
<1>9. CASE Return(c)
  BY <1>1, <1>9, Stays, SteadyLeaves
<1>10. CASE result = "escalate" /\ call' = [call EXCEPT ![c] = waits]
  <2>1. call'[c] = waits
    BY <1>2, <1>10
  <2>2. AtGate(c)'
    BY <1>5, <1>7, <2>1 DEF AtGate
  <2>3. \A f : held'[c] = {f} => Knows(waits, f)
    BY <1>5, <1>8, <1>10, <2>2 DEF Knows
  <2> QED
    BY <1>1, <1>10, <2>3, Stays, SteadyMove
<1>11. CASE result = "allow" /\ call' = [call EXCEPT ![c] = passes]
  <2>1. call'[c] = passes
    BY <1>2, <1>11
  <2>2. AtGate(c)' \/ PassedGate(c)'
    BY <1>4, <1>6, <1>7, <2>1 DEF AtGate, PassedGate
  <2>3. \A f : held'[c] = {f} => Payable(i, f)
    BY <1>8, <1>11, <2>2 DEF Payable
  <2>4. \A f : held'[c] = {f} => Knows(passes, f)
    BY <1>4, <1>6, <2>3 DEF Knows
  <2> QED
    BY <1>1, <1>11, <2>4, Stays, SteadyMove
<1> QED
  BY <1>3, <1>9, <1>10, <1>11

LEMMA SteadyChecks ==
    ASSUME GateInv, GateInv', SteadyInv, NEW c \in Calls, CheckApproval(c) \/ SeparateDuties(c)
    PROVE  SteadyInv'
<1> DEFINE i == call[c].invoice
           n == LatestApproved(i)
           passes == [call[c] EXCEPT !.pc = PastGate(c), !.snapshot = None]
           claims == [call[c] EXCEPT !.pc = "claim"]
<1>1. Observe /\ UNCHANGED approvals
  BY DEF CheckApproval, SeparateDuties, WritesNothing
<1>2. Shaped(call[c]) /\ SteadyCall(c) /\ c \in DOMAIN call
  BY DEF GateInv, CallInv, SteadyInv
<1>3. i \in Invoices /\ call[c].op \in {"create", "execute"} /\ AtGate(c)
  BY <1>2 DEF CheckApproval, SeparateDuties, Shaped, GatePcs, PastPolicyPcs, AtGate
<1>4. CASE Return(c)
  BY <1>1, <1>4, Stays, SteadyLeaves
<1>5. CASE CheckApproval(c) /\ ~Return(c)
  <2>1. /\ call[c].pc = "check_approval" /\ n # 0 /\ Covers(approvals[i][n], call[c].snapshot)
        /\ call' = [call EXCEPT ![c] = passes]
    BY <1>2, <1>5 DEF CheckApproval, Shaped, CallFields
  <2>2. passes.pc = PastGate(c) /\ passes.invoice = i /\ passes.op = call[c].op
    BY <1>2 DEF Shaped, CallFields
  <2>3. PastGate(c) \in {"insert_intent", "separate_duties"}
    BY DEF PastGate
  <2>4. call'[c] = passes
    BY <1>2, <2>1
  <2> HIDE DEF passes
  <2>5. AtGate(c)' \/ PassedGate(c)'
    BY <1>3, <2>2, <2>3, <2>4 DEF AtGate, PassedGate
  <2>6. n \in DOMAIN approvals[i] /\ approvals[i][n].decision = "approved"
    BY <1>3, <2>1, LatestFound DEF Rows
  <2>7. ASSUME NEW f, held'[c] = {f} PROVE Payable(i, f)
    <3>1. Knows(call[c], f)
      BY <1>1, <1>2, <1>3, <2>5, <2>7, HeldBefore
    <3>2. call[c].snapshot = Snapshot(i, f) /\ Result(i, f) = "escalate"
      BY <1>3, <2>1, <3>1 DEF Knows
    <3>3. ApprovedUnder(i, f)
      BY <2>1, <2>6, <3>2 DEF ApprovedUnder, Covers
    <3> QED
      BY <3>2, <3>3 DEF Payable
  <2>8. \A f : held'[c] = {f} => Knows(passes, f)
    BY <2>2, <2>3, <2>7 DEF Knows
  <2> QED
    BY <1>1, <2>1, <2>8, Stays, SteadyMove
<1>6. CASE SeparateDuties(c) /\ ~Return(c)
  <2>1. /\ call[c].pc = "separate_duties" /\ Separated(i, call[c].user)
        /\ call' = [call EXCEPT ![c] = claims]
    BY <1>2, <1>6 DEF SeparateDuties, Goto, Shaped, CallFields
  <2>2. /\ claims.pc = "claim" /\ claims.invoice = i /\ claims.op = call[c].op
        /\ claims.user = call[c].user
    BY <1>2 DEF Shaped, CallFields
  <2>3. call'[c] = claims
    BY <1>2, <2>1
  <2> HIDE DEF claims
  <2>4. PassedGate(c)'
    BY <2>2, <2>3 DEF PassedGate
  <2>5. ASSUME NEW f, held'[c] = {f}
        PROVE  /\ Payable(i, f)
               /\ Result(i, f) = "escalate" => ApprovedByOther(i, call[c].user)
    <3>1. Knows(call[c], f)
      BY <1>1, <1>2, <1>3, <2>4, <2>5, HeldBefore
    <3>2. Payable(i, f)
      BY <2>1, <3>1 DEF Knows
    <3>3. ASSUME Result(i, f) = "escalate" PROVE ApprovedByOther(i, call[c].user)
      <4>1. ApprovedUnder(i, f)
        BY <3>2, <3>3 DEF Payable
      <4>2. n # 0
        BY <1>3, <4>1, LatestFound DEF ApprovedUnder
      <4>3. n \in DOMAIN approvals[i] /\ approvals[i][n].decision = "approved"
        BY <1>3, <4>2, LatestFound DEF Rows
      <4> QED
        BY <2>1, <4>2, <4>3 DEF Separated, ApprovedByOther
    <3> QED
      BY <3>2, <3>3
  <2>6. \A f : held'[c] = {f} => Knows(claims, f)
    BY <2>2, <2>5 DEF Knows
  <2> QED
    BY <1>1, <2>1, <2>6, Stays, SteadyMove
<1> QED
  BY <1>4, <1>5, <1>6

\* Appending a row keeps those before it.
LEMMA Appended ==
    ASSUME SteadyInv, NEW i, NEW a, approvals' = [approvals EXCEPT ![i] = Append(@, a)]
    PROVE  Grown /\ Listed'
<1>1. DOMAIN approvals = Invoices
  BY DEF SteadyInv, Listed
<1>2. ASSUME NEW j \in Invoices
      PROVE  /\ DOMAIN approvals[j] \subseteq DOMAIN approvals'[j]
             /\ \A n \in DOMAIN approvals[j] : approvals'[j][n] = approvals[j][n]
             /\ \E S : approvals'[j] \in Seq(S)
  <2>1. PICK S : approvals[j] \in Seq(S)
    BY DEF SteadyInv, Listed
  <2>2. CASE j # i
    BY <1>1, <2>1, <2>2
  <2>3. CASE j = i
    <3>1. approvals'[j] = Append(approvals[j], a)
      BY <1>1, <2>3
    <3>2. approvals[j] \in Seq(S \cup {a})
      BY <2>1
    <3>3. /\ approvals'[j] \in Seq(S \cup {a})
          /\ DOMAIN approvals[j] = 1 .. Len(approvals[j])
          /\ DOMAIN approvals'[j] = 1 .. (Len(approvals[j]) + 1)
          /\ \A n \in 1 .. Len(approvals[j]) : approvals'[j][n] = approvals[j][n]
          /\ Len(approvals[j]) \in Nat
      BY <3>1, <3>2
    <3> QED
      BY <3>3
  <2> QED
    BY <2>2, <2>3
<1> QED
  BY <1>1, <1>2 DEF Grown, Listed

LEMMA SteadyWrites ==
    ASSUME GateInv, GateInv', SteadyInv, NEW c \in Calls,
           \/ Evaluate(c) \/ \E d \in {"approved", "rejected"} : InsertApproval(c, d)
           \/ InsertIntent(c) \/ Claim(c) \/ Settle(c) \/ SetStatus(c)
    PROVE  SteadyInv'
<1>1. Observe
  BY DEF Evaluate, InsertApproval, InsertIntent, Claim, Settle, SetStatus, WritesNothing
<1>2. \/ Return(c)
      \/ \E status : ThenStatus(c, status)
      \/ Goto(c, "settle")
  BY DEF Evaluate, InsertApproval, InsertIntent, Claim, Settle, SetStatus
<1>3. \/ UNCHANGED approvals
      \/ \E a : approvals' = [approvals EXCEPT ![call[c].invoice] = Append(@, a)]
  BY DEF Evaluate, InsertApproval, InsertIntent, Claim, Settle, SetStatus, WritesNothing
<1>4. Grown /\ Listed'
  BY <1>3, Stays, Appended
<1> QED
  BY <1>1, <1>2, <1>4, SteadyLeaves

LEMMA SteadyEdits ==
    ASSUME GateInv, SteadyInv,
           UpsertVendor \/ UpdateWorkspace \/ \E w \in Wallets : AddVendorWallet(w)
    PROVE  SteadyInv'
<1>1. Observe /\ UNCHANGED <<call, approvals>>
  BY DEF UpsertVendor, UpdateWorkspace, AddVendorWallet, Edit
<1>2. \A c \in Calls : held'[c] = Watch(c) /\ call'[c] = call[c]
  BY <1>1 DEF Observe
<1>3. Grown /\ Listed'
  BY <1>1, Stays
<1>4. \A c \in Calls : SteadyCall(c)'
  BY <1>2, <1>3, SteadyBystander DEF GateInv, CallInv, SteadyInv
<1> QED
  BY <1>3, <1>4 DEF SteadyInv

LEMMA SteadyInit == Init => SteadyInv
<1> SUFFICES ASSUME Init PROVE SteadyInv
  OBVIOUS
<1>1. Listed
  <2>1. \A i \in Invoices : approvals[i] \in Seq({})
    BY DEF Init
  <2> QED
    BY <2>1 DEF Init, Listed
<1>2. ASSUME NEW c \in Calls PROVE SteadyCall(c)
  <2>1. call[c] = NoCall /\ held[c] = {} /\ NoCall.pc = "idle"
    BY NoCallShaped DEF Init
  <2> QED
    BY <2>1 DEF SteadyCall, AtGate
<1> QED
  BY <1>1, <1>2 DEF SteadyInv

LEMMA SteadyStutter == SteadyInv /\ UNCHANGED vars => SteadyInv'
<1> SUFFICES ASSUME SteadyInv, UNCHANGED vars PROVE SteadyInv'
  OBVIOUS
<1>1. UNCHANGED <<vendor, wallets, workspace, invoice, approvals, call, held>>
  BY DEF vars
<1>2. ASSUME NEW i PROVE Facts(i)' = Facts(i)
  <2>1. Duplicate(i)' = Duplicate(i)
    BY <1>1 DEF Duplicate, FindInvoice
  <2>2. VendorAverage(i)' = VendorAverage(i)
    BY <1>1 DEF VendorAverage
  <2> QED
    BY <1>1, <2>1, <2>2 DEF Facts
<1>3. ASSUME NEW x, NEW f PROVE Knows(x, f)' <=> Knows(x, f)
  BY <1>1 DEF Knows, Payable, ApprovedUnder, ApprovedByOther
<1>4. ASSUME NEW c \in Calls PROVE SteadyCall(c)'
  <2>1. SteadyCall(c) /\ (AtGate(c)' <=> AtGate(c))
    BY <1>1 DEF SteadyInv, AtGate
  <2> QED
    BY <1>1, <1>2, <1>3, <2>1 DEF SteadyCall
<1> QED
  BY <1>1, <1>4 DEF SteadyInv, Listed

LEMMA SteadyStep == GateInv /\ GateInv' /\ SteadyInv /\ [Next]_vars => SteadyInv'
<1> SUFFICES ASSUME GateInv, GateInv', SteadyInv, [Next]_vars PROVE SteadyInv'
  OBVIOUS
<1>1. ASSUME NEW c \in Calls, NEW i \in Invoices, NEW d \in Documents, ReceiveInvoice(c, i, d)
      PROVE  SteadyInv'
  BY <1>1, SteadyComes DEF ReceiveInvoice
<1>2. ASSUME NEW c \in Calls, NEW i \in Invoices, EvaluatePolicy(c, i) PROVE SteadyInv'
  BY <1>2, SteadyComes DEF EvaluatePolicy
<1>3. ASSUME NEW c \in Calls, NEW i \in Invoices, NEW u \in Users, DecideApproval(c, u, i)
      PROVE  SteadyInv'
  BY <1>3, SteadyComes DEF DecideApproval
<1>4. ASSUME NEW c \in Calls, NEW i \in Invoices, NEW k \in Keys, CreatePaymentIntent(c, i, k)
      PROVE  SteadyInv'
  BY <1>4, SteadyComes DEF CreatePaymentIntent
<1>5. ASSUME NEW c \in Calls, NEW u \in Users, NEW k \in Keys, ExecutePaymentIntent(c, u, k)
      PROVE  SteadyInv'
  BY <1>5, SteadyComes DEF ExecutePaymentIntent
<1> QED
  BY <1>1, <1>2, <1>3, <1>4, <1>5, SteadyReads, SteadyRuns, SteadyChecks, SteadyWrites,
     SteadyEdits, SteadyStutter DEF Next

LEMMA SteadyAlways == Spec => [](GateInv /\ SteadyInv)
<1>1. Init => GateInv /\ SteadyInv
  BY GateInit, SteadyInit
<1>2. GateInv /\ SteadyInv /\ [Next]_vars => (GateInv /\ SteadyInv)'
  BY GateStep, SteadyStep
<1> QED
  BY <1>1, <1>2, PTL DEF Spec

\* ensurePayable decides rightly whenever its facts hold still: a call that
\* passes the gate without an edit in between has facts that allow the payment,
\* or that ask for an approval which was given under exactly these facts.
THEOREM SteadyGateDecides == Spec => []SteadyGateIsSound
<1>1. SteadyInv => SteadyGateIsSound
  BY DEF SteadyInv, SteadyCall, Knows, SteadyGateIsSound, PassedGate
<1> QED
  BY <1>1, SteadyAlways, PTL

\* Separation of duties (assertExecutorDiffersFromApprover): whoever comes to
\* claim a payment that needed an approval is not the only one who approved it.
THEOREM DutiesAreSeparate == Spec => []ExecutorNotAlone
<1>1. SteadyInv => ExecutorNotAlone
  BY DEF SteadyInv, SteadyCall, Knows, ApprovedByOther, ExecutorNotAlone
<1> QED
  BY <1>1, SteadyAlways, PTL
-----------------------------------------------------------------------------
(* Types.  A call's locals are as filled in as its statement needs them:   *)
(* the facts it has read are facts, a decision has its user and snapshot,  *)
(* a preparation or execution its key, a status to be written is one.      *)

FactsReadTyped(x) ==
    /\ x.read >= 1 => x.facts.vendor \in VendorStatus
    /\ x.read >= 2 => x.facts.wallets \in SUBSET Wallets
    /\ x.read >= 3 => x.facts.duplicate \in SUBSET Invoices
    /\ x.read >= 4 => x.facts.workspace \in Workspaces

CallTyped(x) ==
    /\ x \in CallState
    /\ FactsReadTyped(x)
    /\ x.pc # "idle" => x.invoice \in Invoices
    /\ x.pc \notin {"idle", "set_status"} =>
          /\ x.op = "decide" => x.user \in Users
          /\ x.op \in {"create", "execute"} => x.key \in Keys
    /\ x.pc = "insert_approval" => x.op = "decide" /\ x.snapshot \in SnapshotRecord
    /\ x.pc \in {"policy", "check_approval", "separate_duties", "insert_intent", "claim", "settle"} =>
          x.op \in {"create", "execute"}
    /\ x.pc = "set_status" => x.status \in InvoiceStatus

\* Finitely many invoices were received, so that an average is a number.
RowsTyped ==
    /\ vendor \in VendorStatus
    /\ wallets \in SUBSET Wallets
    /\ workspace \in Workspaces
    /\ invoice \in [Invoices -> InvoiceRecord]
    /\ approvals \in [Invoices -> Seq(Approval)]
    /\ intent \in [Keys -> [status: {"none", "prepared", "executing", "confirmed", "unsettled"},
                            invoice: Invoices \cup {None}]]
    /\ eventsLeft \in 0 .. MaxEvents
    /\ IsFiniteSet({i \in Invoices : FindInvoice(i)})

TypedInv ==
    /\ RowsTyped
    /\ call \in [Calls -> CallState]
    /\ \A c \in Calls : CallTyped(call[c])
    /\ held \in [Calls -> SUBSET FactRecord]

LEMMA AverageTyped ==
    ASSUME NEW paid, paid \subseteq Invoices, IsFiniteSet(paid), paid # {}
    PROVE  SumFunctionOnSet(Amount, paid) \div Cardinality(paid) \in Nat
<1>1. \A i \in paid : Amount[i] \in Nat
  BY PolicyAssumption
<1>2. SumFunctionOnSet(Amount, paid) \in Nat
  BY <1>1, SumNatural
<1>3. Cardinality(paid) \in Nat /\ Cardinality(paid) # 0
  BY FS_CardinalityType, FS_EmptySet
<1> QED
  BY <1>2, <1>3

LEMMA FactsTyped ==
    ASSUME RowsTyped, NEW i
    PROVE  Facts(i) \in FactRecord
<1> DEFINE paid == {j \in Invoices \ {i} : invoice[j].status \in {"payment_intent_created", "executed"}}
<1>1. paid \subseteq Invoices /\ paid \in SUBSET {j \in Invoices : FindInvoice(j)}
  BY DEF FindInvoice
<1>2. IsFiniteSet(paid)
  BY <1>1, FS_Subset DEF RowsTyped
<1>3. VendorAverage(i) \in Nat \cup {None}
  BY <1>1, <1>2, AverageTyped DEF VendorAverage
<1>4. Duplicate(i) \in SUBSET Invoices
  BY DEF Duplicate
<1> QED
  BY <1>3, <1>4 DEF RowsTyped, Facts, FactRecord

LEMMA FactsTypedNext ==
    ASSUME RowsTyped', NEW c
    PROVE  Facts(call[c].invoice)' \in FactRecord
<1> DEFINE i == call'[c].invoice
           paid == {j \in Invoices \ {i} : invoice'[j].status \in {"payment_intent_created", "executed"}}
<1>1. paid \subseteq Invoices /\ paid \in SUBSET {j \in Invoices : FindInvoice(j)'}
  BY DEF FindInvoice
<1>2. IsFiniteSet(paid)
  BY <1>1, FS_Subset DEF RowsTyped
<1>3. VendorAverage(call[c].invoice)' \in Nat \cup {None}
  BY <1>1, <1>2, AverageTyped DEF VendorAverage
<1>4. Duplicate(call[c].invoice)' \in SUBSET Invoices
  BY DEF Duplicate
<1> QED
  BY <1>3, <1>4 DEF RowsTyped, Facts, FactRecord

\* A step of one call that keeps the tables typed.
LEMMA TypedMoves ==
    ASSUME TypedInv, Observe, RowsTyped', NEW d \in Calls, NEW x, CallTyped(x),
           call' = [call EXCEPT ![d] = x]
    PROVE  TypedInv'
<1>1. /\ call' \in [Calls -> CallState]
      /\ \A c \in Calls : call'[c] = IF c = d THEN x ELSE call[c]
  <2>1. x \in CallState
    BY DEF CallTyped
  <2> QED
    BY <2>1 DEF TypedInv
<1>2. \A c \in Calls : CallTyped(call'[c])
  BY <1>1 DEF TypedInv
<1>3. ASSUME NEW c \in Calls PROVE Watch(c) \in SUBSET FactRecord
  <2>1. Facts(call[c].invoice)' \in FactRecord /\ held[c] \in SUBSET FactRecord
    BY FactsTypedNext DEF TypedInv
  <2> QED
    BY <2>1, WatchCases
<1>4. held' \in [Calls -> SUBSET FactRecord]
  BY <1>3 DEF Observe
<1> QED
  BY <1>1, <1>2, <1>4 DEF TypedInv

LEMMA NoCallTyped == CallTyped(NoCall) /\ NoCall \in CallState /\ Unread \in PartialFacts
<1>1. Unread = [vendor |-> None, wallets |-> None, duplicate |-> None, workspace |-> None, average |-> None]
  BY AspectsApart DEF Unread
<1>2. Unread \in PartialFacts
  <2>1. [vendor |-> None, wallets |-> None, duplicate |-> None, workspace |-> None, average |-> None]
           \in PartialFacts
    BY DEF PartialFacts
  <2> QED
    BY <1>1, <2>1
<1>3. NoCall \in CallState
  BY <1>2, AspectsApart DEF NoCall, CallState, CallPc
<1>4. NoCall.read = 0 /\ NoCall.pc = "idle"
  BY DEF NoCall
<1> QED
  BY <1>2, <1>3, <1>4 DEF CallTyped, FactsReadTyped

\* A call comes in.
LEMMA TypedComes ==
    ASSUME TypedInv, Observe, NEW c \in Calls, NEW op \in Operations, NEW u \in Users \cup {None},
           NEW i \in Invoices, NEW k \in Keys \cup {None}, NEW pc \in {"evaluate", "snapshot"},
           op = "decide" => u \in Users, op \in {"create", "execute"} => k \in Keys,
           UNCHANGED <<vendor, wallets, workspace, approvals, intent>>,
           invoice' \in [Invoices -> InvoiceRecord],
           IsFiniteSet({j \in Invoices : FindInvoice(j)'}),
           Begin(c, op, u, i, k, pc)
    PROVE  TypedInv'
<1> DEFINE x == [NoCall EXCEPT !.pc = pc, !.op = op, !.user = u, !.invoice = i, !.key = k]
<1>1. call' = [call EXCEPT ![c] = x]
  BY DEF Begin
<1>2. NoCall \in CallState
  BY NoCallTyped
<1>3. /\ x.pc = pc /\ x.op = op /\ x.user = u /\ x.invoice = i /\ x.key = k /\ x.read = 0
      /\ x \in CallState
  BY <1>2 DEF CallState, CallPc, NoCall
<1> HIDE DEF x
<1>4. CallTyped(x)
  BY <1>3 DEF CallTyped, FactsReadTyped
<1>5. RowsTyped'
  BY PolicyAssumption DEF TypedInv, RowsTyped, Begin
<1> QED
  BY <1>1, <1>4, <1>5, TypedMoves

\* One more fact read is a fact, and after the last one the facts are complete.
LEMMA ReadTyped ==
    ASSUME TypedInv, NEW c \in Calls
    PROVE  /\ NextRead(c) \in PartialFacts
           /\ call[c].read + 1 >= 1 => NextRead(c).vendor \in VendorStatus
           /\ call[c].read + 1 >= 2 => NextRead(c).wallets \in SUBSET Wallets
           /\ call[c].read + 1 >= 3 => NextRead(c).duplicate \in SUBSET Invoices
           /\ call[c].read + 1 >= 4 => NextRead(c).workspace \in Workspaces
           /\ LastRead(c) => NextRead(c) \in FactRecord
<1> DEFINE x == call[c]
           f == Facts(x.invoice)
           n == x.read
<1>1. f \in FactRecord
  BY FactsTyped DEF TypedInv
<1>2. x.facts \in PartialFacts /\ FactsReadTyped(x) /\ n \in 0 .. 4
  BY AspectsApart DEF TypedInv, CallTyped, CallState
<1>3. NextRead(c) = [x.facts EXCEPT ![Aspects[n + 1]] = f[Aspects[n + 1]]]
  BY DEF NextRead
<1>4. \/ n = 0 /\ NextRead(c) = [x.facts EXCEPT !.vendor = f.vendor]
      \/ n = 1 /\ NextRead(c) = [x.facts EXCEPT !.wallets = f.wallets]
      \/ n = 2 /\ NextRead(c) = [x.facts EXCEPT !.duplicate = f.duplicate]
      \/ n = 3 /\ NextRead(c) = [x.facts EXCEPT !.workspace = f.workspace]
      \/ n = 4 /\ NextRead(c) = [x.facts EXCEPT !.average = f.average]
  <2> HIDE DEF f
  <2>1. n = 0 \/ n = 1 \/ n = 2 \/ n = 3 \/ n = 4
    BY <1>2
  <2> QED
    BY <1>3, <2>1, AspectsApart
<1>5. /\ f.vendor \in VendorStatus /\ f.wallets \in SUBSET Wallets /\ f.duplicate \in SUBSET Invoices
      /\ f.workspace \in Workspaces /\ f.average \in Nat \cup {None}
  BY <1>1 DEF FactRecord
<1>6. LastRead(c) => n = 4
  BY <1>2, AspectsApart DEF LastRead
<1> HIDE DEF f, x
<1> QED
  BY <1>2, <1>4, <1>5, <1>6 DEF PartialFacts, FactRecord, FactsReadTyped, x

LEMMA SnapshotTyped ==
    ASSUME NEW i, NEW f \in FactRecord
    PROVE  Snapshot(i, f) \in SnapshotRecord
<1>1. Blocks(i, f) \cup Escalations(i, f) \in SUBSET (BlockingRules \cup EscalatingRules)
  BY DEF Blocks, Escalations
<1> QED
  BY <1>1 DEF Snapshot, SnapshotRecord, FactRecord

LEMMA StatusTyped ==
    ASSUME NEW i, NEW f
    PROVE  StatusForPolicy(Result(i, f)) \in InvoiceStatus
<1>1. Result(i, f) = "block" \/ Result(i, f) = "escalate" \/ Result(i, f) = "allow"
  BY DEF Result
<1>2. /\ StatusForPolicy("block") = "blocked" /\ StatusForPolicy("allow") = "ready"
      /\ StatusForPolicy("escalate") = "needs_approval"
  BY DEF StatusForPolicy
<1>3. {"blocked", "ready", "needs_approval"} \subseteq InvoiceStatus
  BY DEF InvoiceStatus
<1> QED
  BY <1>1, <1>2, <1>3

LEMMA RowsKeptTyped ==
    ASSUME RowsTyped, UNCHANGED <<vendor, wallets, workspace, invoice, approvals, intent, eventsLeft>>
    PROVE  RowsTyped'
  BY DEF RowsTyped, FindInvoice

\* A call returns, or goes on to write a status.
LEMMA TypedLeaves ==
    ASSUME TypedInv, Observe, RowsTyped', NEW c \in Calls, call[c].pc # "idle",
           Return(c) \/ \E status \in InvoiceStatus : ThenStatus(c, status)
    PROVE  TypedInv'
<1>1. CASE Return(c)
  BY <1>1, NoCallTyped, TypedMoves DEF Return
<1>2. ASSUME NEW status \in InvoiceStatus, ThenStatus(c, status) PROVE TypedInv'
  <2> DEFINE x == [NoCall EXCEPT !.pc = "set_status", !.status = status, !.invoice = call[c].invoice]
  <2>1. call' = [call EXCEPT ![c] = x]
    BY <1>2 DEF ThenStatus
  <2>2. call[c].invoice \in Invoices
    BY DEF TypedInv, CallTyped
  <2>3. /\ x \in CallState /\ x.pc = "set_status" /\ x.status = status /\ x.read = 0
        /\ x.invoice = call[c].invoice
    BY <2>2, NoCallTyped DEF CallState, CallPc, NoCall
  <2> HIDE DEF x
  <2>4. CallTyped(x)
    BY <2>2, <2>3 DEF CallTyped, FactsReadTyped
  <2> QED
    BY <2>1, <2>4, TypedMoves
<1> QED
  BY <1>1, <1>2

\* A call whose locals change within the gate.
LEMMA TypedGate ==
    ASSUME TypedInv, NEW c \in Calls, WritesNothing, NEW x \in CallState,
           call[c].pc \notin {"idle", "set_status"}, FactsReadTyped(x),
           x.op = call[c].op, x.user = call[c].user, x.key = call[c].key,
           x.invoice = call[c].invoice,
           x.pc \in {"snapshot", "insert_approval", "policy", "check_approval", "separate_duties",
                     "insert_intent", "claim"},
           x.pc \in {"policy", "check_approval", "separate_duties", "insert_intent", "claim"} =>
              x.op \in {"create", "execute"},
           x.pc = "insert_approval" => x.op = "decide" /\ x.snapshot \in SnapshotRecord,
           call' = [call EXCEPT ![c] = x]
    PROVE  TypedInv'
<1>1. RowsTyped' /\ Observe
  BY RowsKeptTyped DEF WritesNothing, TypedInv
<1>2. CallTyped(x)
  BY DEF TypedInv, CallTyped
<1> QED
  BY <1>1, <1>2, TypedMoves

LEMMA TypedReads ==
    ASSUME GateInv, TypedInv, NEW c \in Calls, ReadFact(c) \/ TakeSnapshot(c)
    PROVE  TypedInv'
<1>1. /\ call[c] \in CallState /\ CallTyped(call[c]) /\ call[c].read \in 0 .. 4
      /\ call[c].pc \in {"snapshot", "policy"} /\ WritesNothing
  BY AspectsApart DEF TypedInv, CallTyped, CallState, ReadFact, TakeSnapshot
<1>2. CASE ReadFact(c)
  <2> DEFINE x == [call[c] EXCEPT !.facts = NextRead(c), !.read = call[c].read + 1]
  <2>1. call[c].read + 1 \in 0 .. 4 /\ 0 .. 4 = 0 .. Len(Aspects) - 1
    BY <1>1, <1>2, AspectsApart DEF ReadFact, LastRead
  <2>2. NextRead(c) \in PartialFacts
    BY ReadTyped
  <2>3. call' = [call EXCEPT ![c] = x]
    BY <1>1, <1>2 DEF ReadFact, CallState
  <2>4. /\ x \in CallState /\ x.facts = NextRead(c) /\ x.read = call[c].read + 1
        /\ x.pc = call[c].pc /\ x.op = call[c].op /\ x.user = call[c].user
        /\ x.key = call[c].key /\ x.invoice = call[c].invoice
    BY <1>1, <2>1, <2>2 DEF CallState
  <2> HIDE DEF x
  <2>5. FactsReadTyped(x)
    BY <2>4, ReadTyped DEF FactsReadTyped
  <2>6. x.pc = "policy" => x.op \in {"create", "execute"}
    BY <1>1, <2>4 DEF CallTyped
  <2> QED
    BY <1>1, <2>3, <2>4, <2>5, <2>6, TypedGate
<1>3. CASE TakeSnapshot(c)
  <2> DEFINE pc == IF call[c].op = "decide" THEN "insert_approval" ELSE "policy"
             s == Snapshot(call[c].invoice, NextRead(c))
             x == [call[c] EXCEPT !.snapshot = s, !.pc = pc, !.facts = Unread, !.read = 0]
  <2>1. NextRead(c) \in FactRecord /\ call[c].pc = "snapshot"
    BY <1>3, ReadTyped DEF TakeSnapshot
  <2>2. s \in SnapshotRecord
    BY <2>1, SnapshotTyped
  <2>3. Unread \in PartialFacts /\ 0 \in 0 .. Len(Aspects) - 1
    BY NoCallTyped, AspectsApart
  <2>4. call' = [call EXCEPT ![c] = x]
    BY <1>1, <1>3 DEF TakeSnapshot, CallState
  <2>5. pc \in CallPc
    BY DEF CallPc
  <2> HIDE DEF s
  <2>6. /\ x \in CallState /\ x.snapshot = s /\ x.read = 0
        /\ x.pc = pc /\ x.op = call[c].op /\ x.user = call[c].user
        /\ x.key = call[c].key /\ x.invoice = call[c].invoice
    BY <1>1, <2>2, <2>3, <2>5 DEF CallState
  <2> HIDE DEF x
  <2>7. call[c].op \in {"decide", "create", "execute"}
    BY <2>1 DEF GateInv, CallInv, Shaped
  <2>8. FactsReadTyped(x)
    BY <2>6 DEF FactsReadTyped
  <2> QED
    BY <1>1, <2>2, <2>4, <2>6, <2>7, <2>8, TypedGate
<1> QED
  BY <1>2, <1>3

LEMMA TypedChecks ==
    ASSUME GateInv, TypedInv, NEW c \in Calls,
           RunPolicy(c) \/ CheckApproval(c) \/ SeparateDuties(c)
    PROVE  TypedInv'
<1>1. /\ call[c] \in CallState /\ CallTyped(call[c]) /\ WritesNothing
      /\ call[c].pc \in {"policy", "check_approval", "separate_duties"}
      /\ call[c].op \in {"create", "execute"}
  BY DEF TypedInv, CallTyped, RunPolicy, CheckApproval, SeparateDuties
<1>2. RowsTyped' /\ Observe
  BY <1>1, RowsKeptTyped DEF WritesNothing, TypedInv
<1>3. CASE Return(c)
  BY <1>1, <1>2, <1>3, TypedLeaves
<1>4. ASSUME NEW x, call' = [call EXCEPT ![c] = x],
             NEW pc \in {"check_approval", "separate_duties", "insert_intent", "claim"},
             NEW facts \in PartialFacts, NEW n \in 0 .. 4, NEW s \in SnapshotRecord \cup {None},
             x = [call[c] EXCEPT !.pc = pc, !.facts = facts, !.read = n, !.snapshot = s],
             n = 0 \/ (n = call[c].read /\ facts = call[c].facts)
      PROVE  TypedInv'
  <2>1. pc \in CallPc /\ 0 .. 4 = 0 .. Len(Aspects) - 1
    BY AspectsApart DEF CallPc
  <2>2. /\ x \in CallState /\ x.facts = facts /\ x.read = n
        /\ x.pc = pc /\ x.op = call[c].op /\ x.user = call[c].user
        /\ x.key = call[c].key /\ x.invoice = call[c].invoice
    BY <1>1, <1>4, <2>1 DEF CallState
  <2>3. FactsReadTyped(x)
    BY <1>1, <1>4, <2>2 DEF FactsReadTyped, CallTyped
  <2> QED
    BY <1>1, <1>4, <2>2, <2>3, TypedGate
<1>5. PastGate(c) \in {"insert_intent", "separate_duties"}
  BY DEF PastGate
<1>6. Unread \in PartialFacts /\ call[c].facts \in PartialFacts /\ call[c].read \in 0 .. 4
      /\ call[c].snapshot \in SnapshotRecord \cup {None}
  BY <1>1, NoCallTyped, AspectsApart DEF CallState
<1>7. CASE RunPolicy(c) /\ ~Return(c)
  <2> DEFINE waits == [call[c] EXCEPT !.pc = "check_approval", !.facts = Unread, !.read = 0,
                                      !.snapshot = call[c].snapshot]
             passes == [call[c] EXCEPT !.pc = PastGate(c), !.facts = Unread, !.read = 0,
                                       !.snapshot = None]
  <2>1. call' = [call EXCEPT ![c] = waits] \/ call' = [call EXCEPT ![c] = passes]
    BY <1>1, <1>7 DEF RunPolicy, Result, CallState
  <2>2. PICK n \in 0 .. 4 : n = 0
    OBVIOUS
  <2>3. CASE call' = [call EXCEPT ![c] = waits]
    <3>1. waits = [call[c] EXCEPT !.pc = "check_approval", !.facts = Unread, !.read = n,
                                  !.snapshot = call[c].snapshot]
      BY <2>2
    <3> HIDE DEF waits
    <3> QED
      BY <1>4, <1>6, <2>2, <2>3, <3>1
  <2>4. CASE call' = [call EXCEPT ![c] = passes]
    <3>1. passes = [call[c] EXCEPT !.pc = PastGate(c), !.facts = Unread, !.read = n,
                                   !.snapshot = None]
      BY <2>2
    <3> HIDE DEF passes
    <3> QED
      BY <1>4, <1>5, <1>6, <2>2, <2>4, <3>1
  <2> QED
    BY <2>1, <2>3, <2>4
<1>8. CASE CheckApproval(c) /\ ~Return(c)
  <2> DEFINE x == [call[c] EXCEPT !.pc = PastGate(c), !.facts = call[c].facts,
                                  !.read = call[c].read, !.snapshot = None]
  <2>1. call' = [call EXCEPT ![c] = x]
    BY <1>1, <1>8 DEF CheckApproval, CallState
  <2> QED
    BY <1>4, <1>5, <1>6, <2>1
<1>9. CASE SeparateDuties(c) /\ ~Return(c)
  <2> DEFINE x == [call[c] EXCEPT !.pc = "claim", !.facts = call[c].facts,
                                  !.read = call[c].read, !.snapshot = call[c].snapshot]
  <2>1. call' = [call EXCEPT ![c] = x]
    BY <1>1, <1>9 DEF SeparateDuties, Goto, CallState
  <2> QED
    BY <1>4, <1>6, <2>1
<1> QED
  BY <1>3, <1>7, <1>8, <1>9

\* The tables, as the statements that write leave them.
LEMMA WrittenRowsTyped ==
    ASSUME GateInv, TypedInv, NEW c \in Calls,
           \/ Evaluate(c) \/ \E d \in {"approved", "rejected"} : InsertApproval(c, d)
           \/ InsertIntent(c) \/ Claim(c) \/ Settle(c) \/ SetStatus(c)
    PROVE  RowsTyped'
<1>1. CallTyped(call[c]) /\ RowsTyped
  BY DEF TypedInv
<1>2. CASE Evaluate(c)
  BY <1>1, <1>2, RowsKeptTyped DEF Evaluate, WritesNothing
<1>3. ASSUME NEW d \in {"approved", "rejected"}, InsertApproval(c, d) PROVE RowsTyped'
  <2> DEFINE a == [user |-> call[c].user, decision |-> d, snapshot |-> call[c].snapshot]
             i == call[c].invoice
  <2>1. /\ approvals' = [approvals EXCEPT ![i] = Append(approvals[i], a)]
        /\ UNCHANGED <<vendor, wallets, workspace, invoice, intent, eventsLeft>>
        /\ call[c].pc = "insert_approval"
    BY <1>3 DEF InsertApproval
  <2>2. i \in Invoices /\ a \in Approval
    BY <1>1, <2>1 DEF CallTyped, Approval
  <2>3. approvals[i] \in Seq(Approval)
    BY <1>1, <2>2 DEF RowsTyped
  <2> HIDE DEF a
  <2>4. Append(approvals[i], a) \in Seq(Approval)
    BY <2>2, <2>3
  <2>5. approvals' \in [Invoices -> Seq(Approval)]
    BY <1>1, <2>1, <2>4 DEF RowsTyped
  <2> QED
    BY <1>1, <2>1, <2>5 DEF RowsTyped, FindInvoice
<1>4. CASE InsertIntent(c) \/ Claim(c) \/ Settle(c)
  <2>1. UNCHANGED <<vendor, wallets, workspace, invoice, approvals, eventsLeft>>
    BY <1>4 DEF InsertIntent, Claim, Settle
  <2>2. GateInv'
    BY <1>4, Writes
  <2> QED
    BY <1>1, <2>1, <2>2 DEF RowsTyped, FindInvoice, GateInv, IntentsFilled
<1>5. CASE SetStatus(c)
  <2> DEFINE i == call[c].invoice
             s == call[c].status
  <2>1. /\ invoice' = [invoice EXCEPT ![i].status = s] /\ call[c].pc = "set_status"
        /\ UNCHANGED <<vendor, wallets, workspace, approvals, intent, eventsLeft>>
    BY <1>5 DEF SetStatus
  <2>2. i \in Invoices /\ s \in InvoiceStatus
    BY <1>1, <2>1 DEF CallTyped
  <2>3. invoice' \in [Invoices -> InvoiceRecord]
    BY <1>1, <2>1, <2>2 DEF RowsTyped, InvoiceRecord
  <2>4. \A j \in Invoices : j # i => invoice'[j] = invoice[j]
    BY <1>1, <2>1 DEF RowsTyped
  <2>5. {j \in Invoices : FindInvoice(j)'} \subseteq {j \in Invoices : FindInvoice(j)} \cup {i}
    BY <2>4 DEF FindInvoice
  <2>6. IsFiniteSet({j \in Invoices : FindInvoice(j)} \cup {i})
    BY <1>1, FS_AddElement DEF RowsTyped
  <2>7. IsFiniteSet({j \in Invoices : FindInvoice(j)'})
    BY <2>5, <2>6, FS_Subset
  <2> QED
    BY <1>1, <2>1, <2>3, <2>7 DEF RowsTyped
<1> QED
  BY <1>2, <1>3, <1>4, <1>5

LEMMA TypedWrites ==
    ASSUME GateInv, TypedInv, NEW c \in Calls,
           \/ Evaluate(c) \/ \E d \in {"approved", "rejected"} : InsertApproval(c, d)
           \/ InsertIntent(c) \/ Claim(c) \/ Settle(c) \/ SetStatus(c)
    PROVE  TypedInv'
<1>1. RowsTyped' /\ Observe
  BY WrittenRowsTyped DEF Evaluate, InsertApproval, InsertIntent, Claim, Settle, SetStatus, WritesNothing
<1>2. call[c].pc \in {"evaluate", "insert_approval", "insert_intent", "claim", "settle", "set_status"}
  BY DEF Evaluate, InsertApproval, InsertIntent, Claim, Settle, SetStatus
<1>3. CallTyped(call[c]) /\ call[c] \in CallState
  BY DEF TypedInv, CallTyped
<1>4. CASE Claim(c) /\ Goto(c, "settle")
  <2> DEFINE x == [call[c] EXCEPT !.pc = "settle"]
  <2>1. call' = [call EXCEPT ![c] = x] /\ call[c].pc = "claim"
    BY <1>4 DEF Goto, Claim
  <2>2. /\ x \in CallState /\ x.pc = "settle" /\ x.read = call[c].read /\ x.facts = call[c].facts
        /\ x.invoice = call[c].invoice /\ x.op = call[c].op /\ x.user = call[c].user /\ x.key = call[c].key
    BY <1>3 DEF CallState, CallPc
  <2> HIDE DEF x
  <2>3. CallTyped(x)
    BY <1>3, <2>1, <2>2 DEF CallTyped, FactsReadTyped
  <2> QED
    BY <1>1, <2>1, <2>3, TypedMoves
<1>5. CASE ~(Claim(c) /\ Goto(c, "settle"))
  <2>1. {"approved", "rejected", "payment_intent_created", "executed"} \subseteq InvoiceStatus
    BY DEF InvoiceStatus
  <2>2. Return(c) \/ \E status \in InvoiceStatus : ThenStatus(c, status)
    <3>1. CASE Evaluate(c)
      BY <3>1, StatusTyped DEF Evaluate
    <3>2. ASSUME NEW d \in {"approved", "rejected"}, InsertApproval(c, d)
          PROVE  \E status \in InvoiceStatus : ThenStatus(c, status)
      BY <2>1, <3>2 DEF InsertApproval
    <3>3. CASE InsertIntent(c) \/ Claim(c) \/ Settle(c) \/ SetStatus(c)
      BY <1>5, <2>1, <3>3 DEF InsertIntent, Claim, Settle, SetStatus
    <3> QED
      BY <3>1, <3>2, <3>3
  <2> QED
    BY <1>1, <1>2, <2>2, TypedLeaves
<1> QED
  BY <1>4, <1>5

LEMMA TypedEdits ==
    ASSUME TypedInv,
           \/ UpsertVendor \/ UpdateWorkspace \/ \E w \in Wallets : AddVendorWallet(w)
    PROVE  TypedInv'
<1>1. Observe /\ UNCHANGED <<invoice, approvals, intent, call>> /\ eventsLeft' = eventsLeft - 1
      /\ eventsLeft > 0
  BY DEF UpsertVendor, UpdateWorkspace, AddVendorWallet, Edit
<1>2. vendor' \in VendorStatus /\ wallets' \in SUBSET Wallets /\ workspace' \in Workspaces
  BY DEF UpsertVendor, UpdateWorkspace, AddVendorWallet, TypedInv, RowsTyped
<1>3. eventsLeft' \in 0 .. MaxEvents
  BY <1>1, PolicyAssumption DEF TypedInv, RowsTyped
<1>4. RowsTyped'
  BY <1>1, <1>2, <1>3 DEF TypedInv, RowsTyped, FindInvoice
<1>5. ASSUME NEW c \in Calls PROVE Watch(c) \in SUBSET FactRecord
  <2>1. Facts(call[c].invoice)' \in FactRecord /\ held[c] \in SUBSET FactRecord
    BY <1>4, FactsTypedNext DEF TypedInv
  <2> QED
    BY <2>1, WatchCases
<1>6. held' \in [Calls -> SUBSET FactRecord]
  BY <1>1, <1>5 DEF Observe
<1> QED
  BY <1>1, <1>4, <1>6 DEF TypedInv

LEMMA TypedInit == Init => TypedInv
<1> SUFFICES ASSUME Init PROVE TypedInv
  OBVIOUS
<1>1. {i \in Invoices : FindInvoice(i)} = {}
  BY DEF Init, FindInvoice
<1>2. IsFiniteSet({i \in Invoices : FindInvoice(i)})
  BY <1>1, FS_EmptySet
<1>3. RowsTyped
  BY <1>2, PolicyAssumption DEF Init, RowsTyped, VendorStatus, InvoiceRecord, InvoiceStatus
<1>4. \A c \in Calls : call[c] = NoCall
  BY DEF Init
<1> QED
  BY <1>3, <1>4, NoCallTyped DEF Init, TypedInv

LEMMA TypedStep == GateInv /\ TypedInv /\ [Next]_vars => TypedInv'
<1> SUFFICES ASSUME GateInv, TypedInv, [Next]_vars PROVE TypedInv'
  OBVIOUS
<1>0. invoice \in [Invoices -> InvoiceRecord] /\ IsFiniteSet({j \in Invoices : FindInvoice(j)})
  BY DEF TypedInv, RowsTyped
<1>1. ASSUME NEW c \in Calls, NEW i \in Invoices, NEW d \in Documents, ReceiveInvoice(c, i, d)
      PROVE  TypedInv'
  <2>1. invoice' = [invoice EXCEPT ![i] = [status |-> "received", document |-> d]]
    BY <1>1 DEF ReceiveInvoice
  <2>2. invoice' \in [Invoices -> InvoiceRecord] /\ \A j \in Invoices \ {i} : invoice'[j] = invoice[j]
    BY <1>0, <2>1 DEF InvoiceRecord, InvoiceStatus
  <2>3. {j \in Invoices : FindInvoice(j)'} \subseteq {j \in Invoices : FindInvoice(j)} \cup {i}
    BY <2>2 DEF FindInvoice
  <2>4. IsFiniteSet({j \in Invoices : FindInvoice(j)'})
    BY <1>0, <2>3, FS_AddElement, FS_Subset
  <2>5. "receive" \in Operations /\ "receive" \notin {"decide", "create", "execute"}
    BY DEF Operations
  <2> QED
    BY <1>1, <2>2, <2>4, <2>5, TypedComes DEF ReceiveInvoice
<1>2. ASSUME UNCHANGED invoice
      PROVE  IsFiniteSet({j \in Invoices : FindInvoice(j)'}) /\ invoice' \in [Invoices -> InvoiceRecord]
  BY <1>0, <1>2 DEF FindInvoice
<1>3. ASSUME NEW c \in Calls, NEW i \in Invoices, EvaluatePolicy(c, i) PROVE TypedInv'
  <2>1. "evaluate" \in Operations /\ "evaluate" \notin {"decide", "create", "execute"}
    BY DEF Operations
  <2> QED
    BY <1>2, <1>3, <2>1, TypedComes DEF EvaluatePolicy
<1>4. ASSUME NEW c \in Calls, NEW i \in Invoices, NEW u \in Users, DecideApproval(c, u, i)
      PROVE  TypedInv'
  <2>1. "decide" \in Operations /\ "decide" \notin {"create", "execute"}
    BY DEF Operations
  <2> QED
    BY <1>2, <1>4, <2>1, TypedComes DEF DecideApproval
<1>5. ASSUME NEW c \in Calls, NEW i \in Invoices, NEW k \in Keys, CreatePaymentIntent(c, i, k)
      PROVE  TypedInv'
  <2>1. "create" \in Operations /\ "create" # "decide"
    BY DEF Operations
  <2> QED
    BY <1>2, <1>5, <2>1, TypedComes DEF CreatePaymentIntent
<1>6. ASSUME NEW c \in Calls, NEW u \in Users, NEW k \in Keys, ExecutePaymentIntent(c, u, k)
      PROVE  TypedInv'
  <2>1. intent[k].invoice \in Invoices
    BY <1>6 DEF ExecutePaymentIntent, GateInv, IntentsFilled
  <2>2. "execute" \in Operations /\ "execute" # "decide"
    BY DEF Operations
  <2> QED
    BY <1>2, <1>6, <2>1, <2>2, TypedComes DEF ExecutePaymentIntent
<1>7. CASE UNCHANGED vars
  BY <1>7, RowsKeptTyped DEF vars, TypedInv
<1> QED
  BY <1>1, <1>3, <1>4, <1>5, <1>6, <1>7, TypedReads, TypedChecks, TypedWrites, TypedEdits DEF Next

\* Invoices, approvals, intents and the locals of calls stay within their types:
\* whatever a handler has read when it comes to a statement is filled in, the
\* average of invoices (vendorAverage) among it, and every status it writes to an
\* invoice is one an invoice has.
THEOREM PolicyTyped == Spec => []TypeOK
<1>1. Init => GateInv /\ TypedInv
  BY GateInit, TypedInit
<1>2. GateInv /\ TypedInv /\ [Next]_vars => (GateInv /\ TypedInv)'
  BY GateStep, TypedStep
<1>3. TypedInv => TypeOK
  BY DEF TypedInv, RowsTyped, CallTyped, TypeOK
<1> QED
  BY <1>1, <1>2, <1>3, PTL DEF Spec
=============================================================================
