--------------------------- MODULE WalletLedger ---------------------------
(***************************************************************************)
(* What the billing plugin promises about money, with no requests, locks   *)
(* or transactions in sight: wallets change one at a time by a known       *)
(* amount and never become negative, a top-up is billed once and pays its  *)
(* wallet at most once, and closing an account voids its top-ups for good. *)
(*                                                                         *)
(* Billing implements it (BillingImplementsLedger in BillingProofs).       *)
(***************************************************************************)
EXTENDS Integers

CONSTANTS Customer, Topup, Amounts

VARIABLES
    wallet,     \* balance of each customer, in cents
    bill,       \* what each top-up is for
    paid        \* top-ups whose amount has reached the wallet

vars == <<wallet, bill, paid>>

NoBill == [state |-> "none"]
Void == [state |-> "void"]
BillFor(c, a) == [state |-> "due", owner |-> c, amount |-> a]

Init ==
    /\ wallet = [c \in Customer |-> 0]
    /\ bill = [t \in Topup |-> NoBill]
    /\ paid = {}

\* An adjustment, a refund or a purchase.
Move(c, a) ==
    /\ wallet[c] + a >= 0
    /\ wallet' = [wallet EXCEPT ![c] = @ + a]
    /\ UNCHANGED <<bill, paid>>

Bill(t, c, a) ==
    /\ bill[t] = NoBill
    /\ bill' = [bill EXCEPT ![t] = BillFor(c, a)]
    /\ UNCHANGED <<wallet, paid>>

Pay(t, c, a) ==
    /\ bill[t] = BillFor(c, a)
    /\ t \notin paid
    /\ wallet' = [wallet EXCEPT ![c] = @ + a]
    /\ paid' = paid \cup {t}
    /\ UNCHANGED bill

Close(c) ==
    LET mine == {t \in Topup : bill[t].state = "due" /\ bill[t].owner = c} IN
    /\ wallet' = [wallet EXCEPT ![c] = 0]
    /\ bill' = [t \in Topup |-> IF t \in mine THEN Void ELSE bill[t]]
    /\ paid' = paid \ mine

Next ==
    \/ \E c \in Customer, a \in Amounts :
          \/ Move(c, a)
          \/ Move(c, -a)
          \/ \E t \in Topup : Bill(t, c, a) \/ Pay(t, c, a)
    \/ \E c \in Customer : Close(c)

Spec == Init /\ [][Next]_vars

=============================================================================
