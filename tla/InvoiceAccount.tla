--------------------------- MODULE InvoiceAccount ---------------------------
(***************************************************************************)
(* What settlement promises of an invoice, without requests, sessions or   *)
(* providers: a credit that only grows up to the invoice's total, by        *)
(* manual recordings and by checkouts that each count once, until the      *)
(* invoice is voided.                                                      *)
(***************************************************************************)
EXTENDS Integers

CONSTANTS Invoices, Checkouts, Total

VARIABLES
    credit,    \* what each invoice has been paid
    settled,   \* the checkouts that have been counted
    voided     \* invoices withdrawn before they were paid

vars == <<credit, settled, voided>>

Init ==
    /\ credit = [i \in Invoices |-> 0]
    /\ settled = {}
    /\ voided = {}

Open(i) == i \notin voided /\ credit[i] < Total[i]

Credit(i) ==
    /\ Open(i)
    /\ \E amount \in 1 .. Total[i] - credit[i] :
          credit' = [credit EXCEPT ![i] = @ + amount]
    /\ UNCHANGED voided

RecordManually(i) == Credit(i) /\ UNCHANGED settled

Settle(c, i) ==
    /\ c \notin settled
    /\ Credit(i)
    /\ settled' = settled \cup {c}

Void(i) ==
    /\ Open(i)
    /\ voided' = voided \cup {i}
    /\ UNCHANGED <<credit, settled>>

Next ==
    \E i \in Invoices :
        \/ RecordManually(i)
        \/ \E c \in Checkouts : Settle(c, i)
        \/ Void(i)

Spec == Init /\ [][Next]_vars
=============================================================================
