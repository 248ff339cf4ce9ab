--------------------------- MODULE PaymentContract ---------------------------
(***************************************************************************)
(* What executing a payment intent promises, whatever happens inside: the  *)
(* money moves at most once, the books are closed once and truthfully, and *)
(* the budget held for the payment is resolved before they are closed.     *)
(***************************************************************************)
CONSTANTS Payments, Budgeted

VARIABLES
    transfer,   \* what the chain knows of the payment
    books,      \* what the payment's record says
    hold        \* the budget held for the payment

contractVars == <<transfer, books, hold>>

Init ==
    /\ transfer = [p \in Payments |-> "none"]
    /\ books = [p \in Payments |-> "open"]
    /\ hold = [p \in Payments |-> "free"]

\* Budget is held before any money moves.
Hold(p) ==
    /\ Budgeted
    /\ hold[p] = "free" /\ transfer[p] = "none" /\ books[p] = "open"
    /\ hold' = [hold EXCEPT ![p] = "held"]
    /\ UNCHANGED <<transfer, books>>

\* The one transfer: under an open record, with the budget held.
Pay(p) ==
    /\ transfer[p] = "none" /\ books[p] = "open"
    /\ Budgeted => hold[p] = "held"
    /\ \E t \in {"pending", "success"} : transfer' = [transfer EXCEPT ![p] = t]
    /\ UNCHANGED <<books, hold>>

\* The chain decides, once.
Decide(p) ==
    /\ transfer[p] = "pending"
    /\ \E t \in {"success", "mismatch", "reverted"} : transfer' = [transfer EXCEPT ![p] = t]
    /\ UNCHANGED <<books, hold>>

\* The hold is spent by a settled transfer; it returns when no money moved.
Resolve(p) ==
    /\ hold[p] = "held"
    /\ \/ transfer[p] = "success" /\ hold' = [hold EXCEPT ![p] = "spent"]
       \/ transfer[p] \in {"none", "reverted"} /\ hold' = [hold EXCEPT ![p] = "returned"]
    /\ UNCHANGED <<transfer, books>>

\* The record is closed with the outcome the chain has, and stays closed.
Close(p) ==
    /\ books[p] = "open"
    /\ hold[p] # "held"
    /\ \/ transfer[p] = "success" /\ books' = [books EXCEPT ![p] = "confirmed"]
       \/ transfer[p] = "reverted" /\ books' = [books EXCEPT ![p] = "reverted"]
       \/ transfer[p] = "none" /\ books' = [books EXCEPT ![p] = "failed"]
    /\ UNCHANGED <<transfer, hold>>

Next == \E p \in Payments : Hold(p) \/ Pay(p) \/ Decide(p) \/ Resolve(p) \/ Close(p)

Spec == Init /\ [][Next]_contractVars
-----------------------------------------------------------------------------
\* What a reader of the closed books may rely on: they say what became of the
\* money, and the budget was consumed exactly when money was paid.
BooksTrue ==
    \A p \in Payments :
        /\ books[p] = "confirmed" => transfer[p] = "success" /\ (Budgeted <=> hold[p] = "spent")
        /\ books[p] = "reverted" => transfer[p] = "reverted" /\ (Budgeted <=> hold[p] = "returned")
        /\ books[p] = "failed" => transfer[p] = "none" /\ hold[p] \in {"free", "returned"}

\* A payment whose books are closed is over: nothing moves its money, its
\* record or its budget any more.
ClosedForGood ==
    [][\A p \in Payments : books[p] # "open" =>
        UNCHANGED <<transfer[p], books[p], hold[p]>>]_contractVars
=============================================================================
