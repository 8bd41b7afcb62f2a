--------------------------- MODULE BillingProofs ---------------------------
(***************************************************************************)
(* Theorems about Billing, for any customers, top-ups, requests and        *)
(* amounts.  Core (types, lock protocol, fresh ids, foreign key) is shown  *)
(* inductive first, one lemma per action; LedgerChain and CreditedOnce are *)
(* inductive relative to it, and the three together are IInv.              *)
(***************************************************************************)
EXTENDS Billing, TLAPS

\* The sets that are only names for enumerations.
USE BillingAssumption DEF TopupStatus, NoRow, EntryType, Operation, WalletOps,
                          TopupOps, Stage

-----------------------------------------------------------------------------
(* The rounding of the columns.                                            *)

\* Multiples of a cent.
LEMMA CentTimes ==
    ASSUME NEW i \in Int, NEW j \in Int
    PROVE  /\ i * Cent \in Int
           /\ i <= j => i * Cent <= j * Cent
           /\ (i + j) * Cent = i * Cent + j * Cent
           /\ (i - j) * Cent = i * Cent - j * Cent
           /\ (i + 1) * Cent = i * Cent + Cent
           /\ (-i) * Cent = -(i * Cent)
<1>1. (i + j) * Cent = i * Cent + j * Cent
  OBVIOUS
<1>2. i <= j => i * Cent <= j * Cent
  <2>1. ASSUME i <= j PROVE i * Cent <= j * Cent
    <3>1. j - i \in Nat /\ j * Cent = (j - i) * Cent + i * Cent
      BY <2>1
    <3>2. (j - i) * Cent >= 0
      BY <3>1
    <3> QED BY <3>1, <3>2
  <2> QED BY <2>1
<1> QED BY <1>1, <1>2

\* The cents contained in x parts.
LEMMA WholeCents ==
    ASSUME NEW x \in Int
    PROVE  /\ x \div Cent \in Int
           /\ (x \div Cent) * Cent <= x
           /\ x < (x \div Cent) * Cent + Cent
OBVIOUS

\* A column holds every whole number of cents at most half a cent away: that the
\* definition looks at two candidates only loses none.
LEMMA ColumnIs ==
    ASSUME NEW x \in Int, NEW n
    PROVE  n \in Column(x) <=> /\ n \in Int
                               /\ -Cent <= 2 * (n * Cent - x)
                               /\ 2 * (n * Cent - x) <= Cent
<1> DEFINE q == x \div Cent
<1>1. q \in Int /\ q * Cent <= x /\ x < q * Cent + Cent
  BY WholeCents
<1> HIDE DEF q
<1>2. ASSUME n \in Int, -Cent <= 2 * (n * Cent - x), 2 * (n * Cent - x) <= Cent
      PROVE  n = q \/ n = q + 1
  <2>1. n * Cent < q * Cent + Cent + Cent /\ q * Cent < n * Cent + Cent
    BY <1>1, <1>2, CentTimes
  <2>2. (q + 2) * Cent = q * Cent + Cent + Cent /\ (n + 1) * Cent = n * Cent + Cent
    BY <1>1, <1>2
  <2>3. ~(q + 2 <= n)
    BY <1>1, <1>2, <2>1, <2>2, CentTimes
  <2>4. ~(n + 1 <= q)
    BY <1>1, <1>2, <2>1, <2>2, CentTimes
  <2> QED BY <1>1, <1>2, <2>3, <2>4
<1> QED BY <1>1, <1>2 DEF Column, q

\* A whole number of cents is stored as it is.
LEMMA ColumnOfCents == ASSUME NEW n \in Int PROVE Column(n * Cent) = {n}
<1>1. ASSUME NEW m PROVE m \in Column(n * Cent) <=> m = n
  <2>1. n * Cent \in Int
    BY CentTimes
  <2>2. ASSUME m \in Int, -Cent <= 2 * (m * Cent - n * Cent),
               2 * (m * Cent - n * Cent) <= Cent
        PROVE  m = n
    <3>1. ~(n + 1 <= m)
      BY <2>1, <2>2, CentTimes
    <3>2. ~(m + 1 <= n)
      BY <2>1, <2>2, CentTimes
    <3> QED BY <2>2, <3>1, <3>2
  <2> QED BY <2>1, <2>2, ColumnIs
<1> QED BY <1>1

\* Whole cents pass through the rounding.
LEMMA ColumnShift ==
    ASSUME NEW x \in Int, NEW b \in Int, NEW n \in Column(b * Cent + x)
    PROVE  n - b \in Column(x)
<1>1. b * Cent + x \in Int
  BY CentTimes
<1>2. /\ n \in Int
      /\ -Cent <= 2 * (n * Cent - (b * Cent + x))
      /\ 2 * (n * Cent - (b * Cent + x)) <= Cent
  BY <1>1, ColumnIs
<1>3. /\ n - b \in Int /\ n * Cent \in Int /\ b * Cent \in Int
      /\ (n - b) * Cent = n * Cent - b * Cent
  BY <1>2, CentTimes
<1>4. -Cent <= 2 * ((n - b) * Cent - x) /\ 2 * ((n - b) * Cent - x) <= Cent
  BY <1>2, <1>3
<1> QED BY <1>3, <1>4, ColumnIs

\* The rounding is the same on both sides of zero, as far as half a cent is open.
LEMMA ColumnNegative ==
    ASSUME NEW x \in Int, NEW n \in Column(x)
    PROVE  -n \in Column(-x)
<1>1. n \in Int /\ -Cent <= 2 * (n * Cent - x) /\ 2 * (n * Cent - x) <= Cent
  BY ColumnIs
<1>2. -n \in Int /\ (-n) * Cent = -(n * Cent) /\ n * Cent \in Int /\ -x \in Int
  BY <1>1, CentTimes
<1>3. -Cent <= 2 * ((-n) * Cent - (-x)) /\ 2 * ((-n) * Cent - (-x)) <= Cent
  BY <1>1, <1>2
<1> QED BY <1>2, <1>3, ColumnIs

\* What is not negative is not stored as negative.
LEMMA ColumnPositive ==
    ASSUME NEW x \in Int, x >= 0, NEW n \in Column(x)
    PROVE  n \in Nat
<1>1. n \in Int /\ -Cent <= 2 * (n * Cent - x) /\ n * Cent \in Int
  BY ColumnIs, CentTimes
<1>2. ~(n <= -1)
  <2>1. (-1) * Cent = -Cent
    OBVIOUS
  <2>2. n <= -1 => n * Cent <= (-1) * Cent
    BY <1>1, CentTimes
  <2> QED BY <1>1, <2>1, <2>2
<1> QED BY <1>1, <1>2

\* Two roundings of one amount differ by a cent at most.
LEMMA ColumnApart ==
    ASSUME NEW x \in Int, NEW m \in Column(x), NEW n \in Column(x)
    PROVE  m \in Int /\ n \in Int /\ m - n \in -1 .. 1
BY DEF Column

\* The amounts asked for are billed, and moved, as whole cents.
LEMMA CentsTyped ==
    /\ Cents \subseteq Nat
    /\ \A a \in Amounts : Column(a) \subseteq Cents
    /\ \A a \in Int : Asked(a) =>
          \A n \in Column(a) : n \in Cents \/ -n \in Cents
<1>1. \A a \in Amounts : a \in Int /\ a >= 0 /\ Column(a) \subseteq Nat
  BY ColumnPositive
<1>2. ASSUME NEW a \in Int, NEW n \in Column(a), -a \in Amounts PROVE -n \in Cents
  BY <1>2, ColumnNegative DEF Cents
<1> QED BY <1>1, <1>2 DEF Cents, Asked

-----------------------------------------------------------------------------
(* What a request is when it begins.                                       *)

BeginsAs(r, stage) ==
    \/ /\ stage = "lockCustomer"
       /\ r.op \in WalletOps \cup {"delete"}
       /\ r.customer \in Customer
       /\ r.topup = None
       /\ r.op \in WalletOps => Asked(r.amount)
    \/ /\ stage = "lockTopup"
       /\ r.op \in TopupOps
       /\ r.topup \in Topup
       /\ r.op = "cancel" => r.status = "CANCELLED"
       /\ r.op = "confirm" => r.status = "SUCCESS"
    \/ /\ stage = "insertTopup"
       /\ r.op = "create"
       /\ r.customer \in Customer
       /\ r.topup \in Topup
       /\ r.amount \in Amounts
       /\ topup[r.topup].status = "NEW"
       /\ \A q \in Proc : pc[q] = "insertTopup" => req[q].topup # r.topup
    \/ /\ stage = "saveCustomer"
       /\ r.op = "update"
       /\ r.customer \in Customer

\* The status a webhook asks for is one of the enum, or the invalid one.
LEMMA WebhookStatusTyped == WebhookStatus \subseteq TopupStatus \cup {"INVALID"}
BY DEF WebhookStatus, MidtransStatus, XenditStatus, GenericStatus,
       MidtransNotification, XenditNotification

\* Every way to begin a request yields a typed request in its first stage.
LEMMA BeginShape ==
    ASSUME NEW p \in Proc, BeginRequest(p)
    PROVE  \E r \in Request, stage \in Stage : Begin(p, r, stage) /\ BeginsAs(r, stage)
<1> DEFINE Goal == \E r \in Request, stage \in Stage :
                      Begin(p, r, stage) /\ BeginsAs(r, stage)
<1>a. ASSUME NEW op \in {"adjust", "refund", "purchase", "delete"}, NEW c \in Customer,
             NEW a \in Int, op = "delete" \/ Asked(a), Begin(p, RequestOf(op, c, None, a, "NONE"), "lockCustomer")
      PROVE  Goal
  <2> DEFINE r == RequestOf(op, c, None, a, "NONE")
  <2>1. r \in Request /\ BeginsAs(r, "lockCustomer")
    BY <1>a DEF Request, RequestOf, BeginsAs
  <2> QED BY <1>a, <2>1
<1>b. ASSUME NEW op \in TopupOps, NEW t \in Topup, NEW s \in TopupStatus \cup {"INVALID"},
             op = "cancel" => s = "CANCELLED", op = "confirm" => s = "SUCCESS",
             Begin(p, RequestOf(op, None, t, 0, s), "lockTopup")
      PROVE  Goal
  <2> DEFINE r == RequestOf(op, None, t, 0, s)
  <2>1. r \in Request /\ BeginsAs(r, "lockTopup")
    BY <1>b DEF Request, RequestOf, BeginsAs
  <2> QED BY <1>b, <2>1
<1>1. ASSUME NEW c \in Customer, NEW a \in Amounts,
             \/ AdjustBalance(p, c, a) \/ AdjustBalance(p, c, -a)
             \/ RefundBalance(p, c, a) \/ DeductBalance(p, c, a)
      PROVE  Goal
  <2>1. a \in Int /\ -a \in Int /\ Asked(a) /\ Asked(-a)
    BY DEF Asked
  <2> HIDE DEF Goal
  <2> QED
    BY <1>1, <1>a, <2>1 DEF AdjustBalance, RefundBalance, DeductBalance
<1>2. ASSUME NEW c \in Customer, NEW a \in Amounts, NEW t \in Topup,
             CreateTopupRequest(p, c, t, a)
      PROVE  Goal
  <2> DEFINE r == RequestOf("create", c, t, a, "NONE")
  <2>1. a \in Int
    OBVIOUS
  <2>2. r \in Request
    BY <2>1 DEF Request, RequestOf
  <2>3. /\ r.op = "create" /\ r.customer \in Customer /\ r.topup = t
        /\ r.amount \in Amounts
    BY DEF RequestOf
  <2>4. BeginsAs(r, "insertTopup")
    BY <1>2, <2>3 DEF CreateTopupRequest, BeginsAs
  <2> QED BY <1>2, <2>2, <2>4 DEF CreateTopupRequest
<1>3. ASSUME NEW t \in Topup,
             \/ \E s \in WebhookStatus : ProcessWebhook(p, t, s)
             \/ ManualConfirmation(p, t) \/ CancelTopup(p, t)
      PROVE  Goal
  <2> HIDE DEF Goal
  <2> QED
    BY <1>3, <1>b, WebhookStatusTyped
       DEF ProcessWebhook, ManualConfirmation, CancelTopup
<1>4. ASSUME NEW c \in Customer, DeleteCustomer(p, c)
      PROVE  Goal
  <2> HIDE DEF Goal
  <2> QED BY <1>4, <1>a DEF DeleteCustomer
<1>5. ASSUME NEW c \in Customer, UpdateCustomer(p, c)
      PROVE  Goal
  <2> DEFINE r == RequestOf("update", c, None, 0, "NONE")
  <2>1. r \in Request /\ BeginsAs(r, "saveCustomer")
    BY DEF Request, RequestOf, BeginsAs
  <2> QED BY <1>5, <2>1 DEF UpdateCustomer
<1> QED
  <2> HIDE DEF Goal
  <2>1. Goal
    BY <1>1, <1>2, <1>3, <1>4, <1>5 DEF BeginRequest, CustomerCancelTopup
  <2> QED BY <2>1 DEF Goal

-----------------------------------------------------------------------------
(* Type correctness.                                                       *)

LEMMA NoRequestTyped == NoRequest \in Request
BY DEF NoRequest, RequestOf, Request

\* The state that belongs to requests rather than to tables stays typed when a
\* transaction ends.
LEMMA FinishTyped ==
    ASSUME TypeOK, NEW p \in Proc, Finish(p)
    PROVE  /\ topupLock' \in [Topup -> Proc \cup {None}]
           /\ customerLock' \in [Customer -> Proc \cup {None}]
           /\ pc' \in [Proc -> Stage]
           /\ req' \in [Proc -> Request]
           /\ seen' \in [Proc -> Int]
           /\ begun' \in Nat
BY NoRequestTyped DEF TypeOK, Finish

LEMMA RollbackTyped == ASSUME TypeOK, NEW p \in Proc, Rollback(p) PROVE TypeOK'
<1>1. Finish(p) /\ UNCHANGED tables
  BY DEF Rollback
<1> QED BY <1>1, FinishTyped DEF TypeOK, tables

LEMMA EntryTyped ==
    ASSUME NEW r \in Request, NEW amount \in Int, NEW b \in Int, NEW after \in Int
    PROVE  EntryFor(r, amount, b, after) \in Entry
BY DEF EntryFor, Entry, Request

-----------------------------------------------------------------------------
(* The locking protocol.                                                   *)

\* A request keeps what its stage says as long as nobody touches its state,
\* the rows it has locked and the row it is about to insert.
LEMMA Frame ==
    ASSUME TypeOK, NEW q \in Proc, HoldsItsRows(q),
           pc'[q] = pc[q], req'[q] = req[q], seen'[q] = seen[q],
           \A t \in Topup : topupLock[t] = q => topupLock'[t] = q,
           \A t \in Topup : topupLock[t] = q /\ Exists(t) => topup'[t] = topup[t],
           \A c \in Customer : customerLock[c] = q =>
               customerLock'[c] = q /\ balance'[c] = balance[c],
           \A t \in Topup : pc[q] = "insertTopup" /\ req[q].topup = t =>
               topup'[t] = topup[t]
    PROVE  HoldsItsRows(q)'
BY DEF HoldsItsRows, Moves, Settles, Exists

\* An idle request claims nothing.
LEMMA IdleHolds == ASSUME NEW p \in Proc, pc'[p] = "idle" PROVE HoldsItsRows(p)'
BY DEF HoldsItsRows

\* When p's transaction ends without touching rows others have locked or are
\* about to insert, the protocol and the fresh ids survive.
LEMMA FinishKeeps ==
    ASSUME TypeOK, LockProtocol, FreshIds, NEW p \in Proc, Finish(p),
           \A q \in Proc \ {p}, t \in Topup :
               (topupLock[t] = q /\ Exists(t)) \/ (pc[q] = "insertTopup" /\ req[q].topup = t)
                  => topup'[t] = topup[t],
           \A q \in Proc \ {p}, c \in Customer :
               customerLock[c] = q => balance'[c] = balance[c]
    PROVE  LockProtocol' /\ FreshIds'
<1>1. ASSUME NEW q \in Proc PROVE HoldsItsRows(q)'
  <2>1. CASE q = p
    BY <2>1, IdleHolds DEF Finish, TypeOK
  <2>2. CASE q # p
    <3>1. pc'[q] = pc[q] /\ req'[q] = req[q] /\ seen'[q] = seen[q]
      BY <2>2 DEF Finish, TypeOK
    <3>2. \A t \in Topup : topupLock[t] = q => topupLock'[t] = q
      BY <2>2 DEF Finish
    <3>3. \A c \in Customer : customerLock[c] = q => customerLock'[c] = q
      BY <2>2 DEF Finish
    <3>4. HoldsItsRows(q)
      BY DEF LockProtocol
    <3> QED BY <2>2, <3>1, <3>2, <3>3, <3>4, Frame
  <2> QED BY <2>1, <2>2
<1>2. FreshIds'
  BY DEF FreshIds, Finish, TypeOK
<1> QED BY <1>1, <1>2 DEF LockProtocol

LEMMA RollbackCore == ASSUME Core, NEW p \in Proc, Rollback(p) PROVE Core'
<1>1. Finish(p) /\ UNCHANGED tables
  BY DEF Rollback
<1>2. TypeOK'
  BY RollbackTyped DEF Core
<1>3. LockProtocol' /\ FreshIds'
  BY <1>1, FinishKeeps DEF Core, tables
<1>4. ForeignKey'
  BY <1>1 DEF Core, ForeignKey, tables
<1> QED BY <1>2, <1>3, <1>4 DEF Core

LEMMA BeginCore == ASSUME Core, NEW p \in Proc, BeginRequest(p) PROVE Core'
<1>1. PICK r \in Request, stage \in Stage : Begin(p, r, stage) /\ BeginsAs(r, stage)
  BY BeginShape
<1>2. TypeOK'
  BY <1>1 DEF Core, TypeOK, Begin, tables, locks
<1>3. pc'[p] = stage /\ req'[p] = r
  BY <1>1 DEF Core, TypeOK, Begin
<1>4. ASSUME NEW q \in Proc PROVE HoldsItsRows(q)'
  <2>1. CASE q = p
    BY <1>1, <1>3, <2>1 DEF BeginsAs, Begin, HoldsItsRows, tables, locks
  <2>2. CASE q # p
    <3>1. pc'[q] = pc[q] /\ req'[q] = req[q]
      BY <1>1, <2>2 DEF Core, TypeOK, Begin
    <3> QED BY <1>1, <3>1, Frame DEF Core, LockProtocol, Begin, tables, locks
  <2> QED BY <2>1, <2>2
<1>5. FreshIds'
  BY <1>1, <1>3 DEF Core, TypeOK, FreshIds, Begin, BeginsAs
<1>6. ForeignKey'
  BY <1>1 DEF Core, ForeignKey, Begin, tables
<1> QED BY <1>2, <1>4, <1>5, <1>6 DEF Core, LockProtocol

LEMMA LockTopupCore == ASSUME Core, NEW p \in Proc, LockTopup(p) PROVE Core'
<1> DEFINE r == req[p]
           t == r.topup
<1>1. CASE Rollback(p)
  BY <1>1, RollbackCore
<1>2. CASE /\ Found(r, topup[t])
           /\ topupLock[t] = None
           /\ Accepts(r, topup[t])
           /\ topupLock' = [topupLock EXCEPT ![t] = p]
           /\ req' = [req EXCEPT ![p] =
                         RequestOf(@.op, topup[t].owner, t, topup[t].amount * Cent, @.status)]
           /\ pc' = [pc EXCEPT ![p] = IF r.status = "SUCCESS" THEN "lockCustomer"
                                                              ELSE "commit"]
           /\ UNCHANGED <<tables, customerLock, seen, begun>>
  <2>1. /\ r \in Request /\ t \in Topup /\ topup[t] \in Row /\ r.op \in TopupOps
        /\ r.op = "cancel" => r.status = "CANCELLED"
        /\ r.op = "confirm" => r.status = "SUCCESS"
    BY DEF Core, TypeOK, LockProtocol, HoldsItsRows, LockTopup
  <2>2. /\ topup[t].status \in TopupStatus \ {"SUCCESS"}
        /\ r.status \in TopupStatus
    BY <1>2, <2>1 DEF Found, Accepts
  <2>3. /\ topup[t].owner \in Customer /\ topup[t].amount \in Int
        /\ topup[t].amount * Cent \in Int
    <3>1. topup[t].owner \in Customer /\ topup[t].amount \in Int
      BY <2>1, <2>2 DEF Core, ForeignKey, TypeOK, Row
    <3> QED BY <3>1, CentTimes
  <2>4. /\ req'[p] = RequestOf(r.op, topup[t].owner, t, topup[t].amount * Cent, r.status)
        /\ pc'[p] = IF r.status = "SUCCESS" THEN "lockCustomer" ELSE "commit"
        /\ \A q \in Proc \ {p} : req'[q] = req[q] /\ pc'[q] = pc[q]
    BY <1>2 DEF Core, TypeOK
  <2>5. /\ req'[p] \in Request
        /\ req'[p].op = r.op /\ req'[p].status = r.status /\ req'[p].topup = t
        /\ req'[p].customer = topup[t].owner /\ req'[p].amount = topup[t].amount * Cent
    BY <2>1, <2>3, <2>4 DEF Request, RequestOf
  <2>6. TypeOK'
    <3>1. req' \in [Proc -> Request]
      BY <1>2, <2>4, <2>5 DEF Core, TypeOK
    <3> QED BY <1>2, <2>1, <3>1 DEF Core, TypeOK, tables
  <2>7. ASSUME NEW q \in Proc PROVE HoldsItsRows(q)'
    <3>1. CASE q = p
      <4>1. topupLock'[t] = p /\ topup' = topup
        BY <1>2, <2>1 DEF Core, TypeOK, tables
      <4>2. ~Moves(req'[p]) \/ pc'[p] # "commit"
        BY <2>1, <2>4, <2>5 DEF Moves, Settles
      <4> QED
        BY <2>1, <2>2, <2>3, <2>4, <2>5, <3>1, <4>1, <4>2 DEF HoldsItsRows
    <3>2. CASE q # p
      <4>1. \A u \in Topup : topupLock[u] = q => topupLock'[u] = q
        BY <1>2, <3>2 DEF Core, TypeOK
      <4> QED
        BY <1>2, <2>4, <3>2, <4>1, Frame DEF Core, LockProtocol, tables
    <3> QED BY <3>1, <3>2
  <2>8. FreshIds'
    BY <2>4, <2>5 DEF Core, FreshIds
  <2>9. ForeignKey'
    BY <1>2 DEF Core, ForeignKey, tables
  <2> QED BY <2>6, <2>7, <2>8, <2>9 DEF Core, LockProtocol
<1> QED BY <1>1, <1>2 DEF LockTopup

LEMMA RecordTransactionCore ==
    ASSUME Core, NEW p \in Proc, RecordTransaction(p) PROVE Core'
<1> DEFINE r == req[p]
           c == r.customer
<1>1. CASE Rollback(p)
  BY <1>1, RollbackCore
<1>2. CASE /\ c \in customers
           /\ customerLock[c] = None
           /\ balance[c] * Cent + r.amount >= 0
           /\ customerLock' = [customerLock EXCEPT ![c] = p]
           /\ seen' = [seen EXCEPT ![p] = balance[c]]
           /\ pc' = [pc EXCEPT ![p] = "commit"]
           /\ UNCHANGED <<tables, topupLock, req, begun>>
  <2>1. r \in Request /\ c \in Customer /\ HoldsItsRows(p)
    BY <1>2 DEF Core, TypeOK, LockProtocol
  <2>2. pc[p] = "lockCustomer" /\ r.op # "delete"
    BY DEF RecordTransaction
  <2>3. TypeOK'
    BY <1>2, <2>1 DEF Core, TypeOK, tables
  <2>4. /\ pc'[p] = "commit" /\ customerLock'[c] = p /\ seen'[p] = balance[c]
        /\ \A q \in Proc \ {p} : pc'[q] = pc[q] /\ seen'[q] = seen[q]
    BY <1>2, <2>1 DEF Core, TypeOK
  <2>5. ASSUME NEW q \in Proc PROVE HoldsItsRows(q)'
    <3>1. CASE q = p
      BY <1>2, <2>1, <2>2, <2>4, <3>1 DEF HoldsItsRows, tables, Moves, Settles
    <3>2. CASE q # p
      <4>1. \A d \in Customer : customerLock[d] = q => customerLock'[d] = q
        BY <1>2, <3>2 DEF Core, TypeOK
      <4> QED
        BY <1>2, <2>4, <3>2, <4>1, Frame DEF Core, LockProtocol, tables
    <3> QED BY <3>1, <3>2
  <2>6. FreshIds'
    BY <1>2, <2>4 DEF Core, FreshIds
  <2>7. ForeignKey'
    BY <1>2 DEF Core, ForeignKey, tables
  <2> QED BY <2>3, <2>5, <2>6, <2>7 DEF Core, LockProtocol
<1> QED BY <1>1, <1>2 DEF RecordTransaction

\* A row whose status alone changed.
LEMMA RowWithStatus ==
    ASSUME NEW row \in Row, NEW s \in TopupStatus
    PROVE  LET new == [row EXCEPT !.status = s] IN
           /\ new \in Row
           /\ new.status = s
           /\ new.owner = row.owner
           /\ new.amount = row.amount
BY DEF Row

\* What a COMMIT writes, spelled out: the top-up it settles or rewrites was
\* locked and not SUCCESS, and a wallet moves from the balance it has now.
CommitsTopup(p, r) ==
    /\ r.topup \in Topup
    /\ r.status \in TopupStatus
    /\ topupLock[r.topup] = p
    /\ topup[r.topup].status \in TopupStatus \ {"SUCCESS"}
    /\ topup[r.topup].owner = r.customer
    /\ topup[r.topup].amount * Cent = r.amount
    /\ topup'[r.topup] \in Row
    /\ topup'[r.topup].status = r.status
    /\ topup'[r.topup].owner = r.customer
    /\ topup'[r.topup].amount = topup[r.topup].amount
    /\ \A t \in Topup : t # r.topup => topup'[t] = topup[t]

CommitsWallet(p, r) ==
    /\ customerLock[r.customer] = p
    /\ \E amount \in Column(r.amount), moved \in Column(r.amount) :
          LET after == balance[r.customer] + moved IN
          /\ after >= 0
          /\ balance' = [balance EXCEPT ![r.customer] = after]
          /\ ledger' = [ledger EXCEPT ![r.customer] =
                           Append(ledger[r.customer],
                                  EntryFor(r, amount, balance[r.customer], after))]

CommitWrites(p, r) ==
    /\ r \in Request
    /\ r.customer \in Customer
    /\ Finish(p)
    /\ customers' = customers
    /\ \/ /\ r.op \in WalletOps /\ r.topup = None /\ Asked(r.amount)
          /\ topup' = topup /\ Moves(r)
       \/ r.op \in TopupOps /\ CommitsTopup(p, r) /\ (Moves(r) <=> r.status = "SUCCESS")
    /\ topup' \in [Topup -> Row]
    /\ \/ Moves(r) /\ CommitsWallet(p, r)
       \/ ~Moves(r) /\ balance' = balance /\ ledger' = ledger

LEMMA CommitShape ==
    ASSUME Core, NEW p \in Proc, Commit(p)
    PROVE  CommitWrites(p, req[p])
<1> DEFINE r == req[p]
<1>1. /\ r \in Request /\ HoldsItsRows(p) /\ pc[p] = "commit" /\ Finish(p)
      /\ topup \in [Topup -> Row]
  BY DEF Core, TypeOK, LockProtocol, Commit
<1>2. r.customer \in Customer /\ customers' = customers
  BY <1>1 DEF HoldsItsRows, Commit
<1>w. ASSUME Moves(r) PROVE CommitsWallet(p, r)
  <2> DEFINE c == r.customer
  <2>1. /\ customerLock[c] = p /\ balance[c] * Cent + r.amount >= 0
        /\ seen[p] = balance[c]
    BY <1>1, <1>w DEF HoldsItsRows
  <2>2. PICK amount \in Column(r.amount), after \in Column(balance[c] * Cent + r.amount) :
           /\ balance' = [balance EXCEPT ![c] = after]
           /\ ledger' = [ledger EXCEPT ![c] =
                            Append(ledger[c], EntryFor(r, amount, balance[c], after))]
    BY <1>w, <2>1 DEF Commit
  <2>3. balance[c] \in Int /\ r.amount \in Int /\ balance[c] * Cent + r.amount \in Int
    BY <1>1, <1>2, CentTimes DEF Core, TypeOK, Request
  <2>4. after \in Nat /\ after - balance[c] \in Column(r.amount)
    BY <2>1, <2>3, ColumnPositive, ColumnShift
  <2>5. after = balance[c] + (after - balance[c])
    BY <2>3, <2>4
  <2>6. PICK moved \in Column(r.amount) : after = balance[c] + moved
    BY <2>4, <2>5
  <2>7. /\ balance[c] + moved >= 0
        /\ balance' = [balance EXCEPT ![c] = balance[c] + moved]
        /\ ledger' = [ledger EXCEPT ![c] =
                Append(ledger[c], EntryFor(r, amount, balance[c], balance[c] + moved))]
    BY <2>2, <2>4, <2>6
  <2> QED BY <2>1, <2>7 DEF CommitsWallet
<1>3. CASE r.op \in WalletOps
  BY <1>1, <1>2, <1>3, <1>w DEF HoldsItsRows, Commit, CommitWrites, Moves
<1>4. CASE r.op \in TopupOps
  <2>1. /\ r.topup \in Topup /\ r.status \in TopupStatus /\ topupLock[r.topup] = p
        /\ topup[r.topup].status \in TopupStatus \ {"SUCCESS"}
        /\ topup[r.topup].owner = r.customer /\ topup[r.topup].amount * Cent = r.amount
    BY <1>1, <1>4 DEF HoldsItsRows
  <2>2. /\ topup' \in [Topup -> Row]
        /\ topup'[r.topup] = [topup[r.topup] EXCEPT !.status = r.status]
        /\ \A t \in Topup : t # r.topup => topup'[t] = topup[t]
    <3>1. topup' = [topup EXCEPT ![r.topup] = [topup[r.topup] EXCEPT !.status = r.status]]
      BY <1>1, <1>4, <2>1 DEF Commit
    <3>2. [topup[r.topup] EXCEPT !.status = r.status] \in Row
      BY <1>1, <2>1, RowWithStatus
    <3> QED BY <1>1, <2>1, <3>1, <3>2
  <2>3. CommitsTopup(p, r)
    BY <1>1, <2>1, <2>2, RowWithStatus DEF CommitsTopup
  <2>4. Moves(r) <=> r.status = "SUCCESS"
    BY <1>1, <1>4 DEF HoldsItsRows, Moves, Settles
  <2>5. CASE Moves(r)
    BY <1>1, <1>2, <1>4, <1>w, <2>2, <2>3, <2>4, <2>5 DEF CommitWrites
  <2>6. CASE ~Moves(r)
    BY <1>1, <1>2, <1>4, <2>2, <2>3, <2>4, <2>6 DEF Commit, CommitWrites
  <2> QED BY <2>5, <2>6
<1> QED BY <1>1, <1>3, <1>4 DEF HoldsItsRows

LEMMA CommitCore == ASSUME Core, NEW p \in Proc, Commit(p) PROVE Core'
<1> DEFINE r == req[p]
           c == r.customer
<1>0. CommitWrites(p, r)
  BY CommitShape
<1>1. /\ r \in Request /\ c \in Customer /\ Finish(p) /\ customers' = customers
      /\ topup' \in [Topup -> Row]
  BY <1>0 DEF CommitWrites
<1>2. balance' \in [Customer -> Int] /\ ledger' \in [Customer -> Seq(Entry)]
  <2>1. balance \in [Customer -> Int] /\ ledger \in [Customer -> Seq(Entry)]
    BY DEF Core, TypeOK
  <2>2. CASE CommitsWallet(p, r)
    <3>1. balance[c] \in Int /\ r.amount \in Int
      BY <1>1, <2>1 DEF Request
    <3>2. PICK amount \in Column(r.amount), moved \in Column(r.amount) :
             /\ balance' = [balance EXCEPT ![c] = balance[c] + moved]
             /\ ledger' = [ledger EXCEPT ![c] =
                    Append(ledger[c], EntryFor(r, amount, balance[c], balance[c] + moved))]
      BY <2>2 DEF CommitsWallet
    <3>3. amount \in Int /\ balance[c] + moved \in Int
      BY <3>1, ColumnApart
    <3>4. Append(ledger[c], EntryFor(r, amount, balance[c], balance[c] + moved)) \in Seq(Entry)
      BY <1>1, <2>1, <3>1, <3>3, EntryTyped
    <3> QED BY <1>1, <2>1, <3>2, <3>3, <3>4
  <2> QED BY <1>0, <2>1, <2>2 DEF CommitWrites
<1>3. TypeOK'
  BY <1>1, <1>2, FinishTyped DEF Core, TypeOK
<1>4. ASSUME NEW q \in Proc \ {p}, NEW t \in Topup,
             (topupLock[t] = q /\ Exists(t)) \/ (pc[q] = "insertTopup" /\ req[q].topup = t)
      PROVE  topup'[t] = topup[t]
  <2>1. CASE r.op \in TopupOps /\ CommitsTopup(p, r)
    <3>1. t # r.topup
      BY <1>4, <2>1 DEF CommitsTopup, Core, LockProtocol, HoldsItsRows
    <3> QED BY <2>1, <3>1 DEF CommitsTopup
  <2> QED BY <1>0, <2>1 DEF CommitWrites
<1>5. ASSUME NEW q \in Proc \ {p}, NEW d \in Customer, customerLock[d] = q
      PROVE  balance'[d] = balance[d]
  <2>1. CASE CommitsWallet(p, r)
    BY <1>5, <2>1 DEF CommitsWallet, Core, TypeOK
  <2> QED BY <1>0, <2>1 DEF CommitWrites
<1>6. LockProtocol' /\ FreshIds'
  BY <1>1, <1>4, <1>5, FinishKeeps DEF Core
<1>7. ForeignKey'
  <2>1. CASE r.op \in TopupOps /\ CommitsTopup(p, r)
    BY <1>1, <2>1 DEF CommitsTopup, Core, ForeignKey
  <2> QED BY <1>0, <1>1, <2>1 DEF CommitWrites, Core, ForeignKey
<1> QED BY <1>3, <1>6, <1>7 DEF Core

LEMMA InsertTopupCore == ASSUME Core, NEW p \in Proc, InsertTopup(p) PROVE Core'
<1> DEFINE r == req[p]
           RowOf(amount) == [status |-> "PENDING", owner |-> r.customer,
                             amount |-> amount, external |-> FALSE]
<1>1. CASE Rollback(p)
  BY <1>1, RollbackCore
<1>2. CASE /\ r.customer \in customers
           /\ \E amount \in Column(r.amount) : topup' = [topup EXCEPT ![r.topup] = RowOf(amount)]
           /\ UNCHANGED <<customers, balance, ledger>>
           /\ Finish(p)
  <2>1. /\ pc[p] = "insertTopup" /\ r.customer \in Customer /\ r.topup \in Topup
        /\ r.amount \in Amounts /\ topup[r.topup].status = "NEW"
    BY DEF InsertTopup, Core, LockProtocol, HoldsItsRows
  <2>2. PICK amount \in Cents : topup' = [topup EXCEPT ![r.topup] = RowOf(amount)]
    BY <1>2, <2>1, CentsTyped
  <2>3. RowOf(amount) \in Row
    BY <2>1, CentsTyped DEF Row
  <2>4. /\ topup'[r.topup] = RowOf(amount)
        /\ \A t \in Topup : t # r.topup => topup'[t] = topup[t]
        /\ topup' \in [Topup -> Row]
    BY <2>1, <2>2, <2>3 DEF Core, TypeOK
  <2>5. TypeOK'
    BY <1>2, <2>4, FinishTyped DEF Core, TypeOK
  <2>6. ASSUME NEW q \in Proc \ {p}, NEW t \in Topup,
               (topupLock[t] = q /\ Exists(t)) \/ (pc[q] = "insertTopup" /\ req[q].topup = t)
        PROVE  topup'[t] = topup[t]
    BY <2>1, <2>4, <2>6 DEF Core, FreshIds, Exists
  <2>7. LockProtocol' /\ FreshIds'
    BY <1>2, <2>6, FinishKeeps DEF Core
  <2>8. ForeignKey'
    BY <1>2, <2>1, <2>4 DEF Core, ForeignKey
  <2> QED BY <2>5, <2>7, <2>8 DEF Core
<1> QED BY <1>1, <1>2 DEF InsertTopup

\* A step that leaves every request, the wallets and the customers alone.
LEMMA AssignExternalIdCore ==
    ASSUME Core, NEW t \in Topup, AssignExternalId(t) PROVE Core'
<1>1. /\ topup[t] \in Row /\ topup[t].status = "PENDING" /\ topupLock[t] = None
      /\ topup' = [topup EXCEPT ![t] = [topup[t] EXCEPT !.external = TRUE]]
      /\ UNCHANGED <<customers, balance, ledger, locks, pc, req, seen, begun>>
  BY DEF Core, TypeOK, AssignExternalId
<1>2. LET new == [topup[t] EXCEPT !.external = TRUE] IN
      /\ new \in Row
      /\ new.status = topup[t].status
      /\ new.owner = topup[t].owner
      /\ new.amount = topup[t].amount
  BY <1>1 DEF Row
<1>3. /\ topup' \in [Topup -> Row]
      /\ \A u \in Topup : /\ topup'[u].status = topup[u].status
                          /\ topup'[u].owner = topup[u].owner
                          /\ topup'[u].amount = topup[u].amount
                          /\ u # t => topup'[u] = topup[u]
  BY <1>1, <1>2 DEF Core, TypeOK
<1>4. TypeOK'
  BY <1>1, <1>3 DEF Core, TypeOK, locks
<1>5. ASSUME NEW q \in Proc PROVE HoldsItsRows(q)'
  <2>1. \A u \in Topup : topupLock[u] = q \/ (pc[q] = "insertTopup" /\ req[q].topup = u)
           => u # t
    BY <1>1 DEF Core, LockProtocol, HoldsItsRows
  <2> QED BY <1>1, <1>3, <2>1, Frame DEF Core, LockProtocol, locks
<1>6. FreshIds'
  BY <1>1 DEF Core, FreshIds
<1>7. ForeignKey'
  BY <1>1, <1>3 DEF Core, ForeignKey
<1> QED BY <1>4, <1>5, <1>6, <1>7 DEF Core, LockProtocol

LEMMA LockDeletedCustomerCore ==
    ASSUME Core, NEW p \in Proc, LockDeletedCustomer(p) PROVE Core'
<1> DEFINE c == req[p].customer
<1>1. CASE Rollback(p)
  BY <1>1, RollbackCore
<1>2. CASE /\ c \in customers
           /\ customerLock[c] = None
           /\ customerLock' = [customerLock EXCEPT ![c] = p]
           /\ pc' = [pc EXCEPT ![p] = "cascade"]
           /\ UNCHANGED <<tables, topupLock, req, seen, begun>>
  <2>1. c \in Customer
    BY <1>2 DEF Core, TypeOK
  <2>2. TypeOK'
    BY <1>2, <2>1 DEF Core, TypeOK, tables
  <2>3. /\ pc'[p] = "cascade" /\ customerLock'[c] = p
        /\ \A q \in Proc \ {p} : pc'[q] = pc[q]
    BY <1>2, <2>1 DEF Core, TypeOK
  <2>4. ASSUME NEW q \in Proc PROVE HoldsItsRows(q)'
    <3>1. CASE q = p
      BY <1>2, <2>1, <2>3, <3>1 DEF HoldsItsRows
    <3>2. CASE q # p
      <4>1. \A d \in Customer : customerLock[d] = q => customerLock'[d] = q
        BY <1>2, <3>2 DEF Core, TypeOK
      <4> QED
        BY <1>2, <2>3, <3>2, <4>1, Frame DEF Core, LockProtocol, tables
    <3> QED BY <3>1, <3>2
  <2>5. FreshIds'
    BY <1>2, <2>3 DEF Core, FreshIds
  <2>6. ForeignKey'
    BY <1>2 DEF Core, ForeignKey, tables
  <2> QED BY <2>2, <2>4, <2>5, <2>6 DEF Core, LockProtocol
<1> QED BY <1>1, <1>2 DEF LockDeletedCustomer

LEMMA LockOwnedTopupCore ==
    ASSUME Core, NEW p \in Proc, NEW t \in Topup, LockOwnedTopup(p, t) PROVE Core'
<1>1. /\ topupLock[t] = None
      /\ topupLock' = [topupLock EXCEPT ![t] = p]
      /\ UNCHANGED <<tables, customerLock, pc, req, seen, begun>>
  BY DEF LockOwnedTopup
<1>2. TypeOK'
  BY <1>1 DEF Core, TypeOK, tables
<1>3. ASSUME NEW q \in Proc PROVE HoldsItsRows(q)'
  <2>1. \A u \in Topup : topupLock[u] = q => topupLock'[u] = q
    BY <1>1 DEF Core, TypeOK
  <2> QED BY <1>1, <2>1, Frame DEF Core, LockProtocol, tables
<1>4. FreshIds' /\ ForeignKey'
  BY <1>1 DEF Core, FreshIds, ForeignKey, tables
<1> QED BY <1>2, <1>3, <1>4 DEF Core, LockProtocol

LEMMA CommitDeleteCore == ASSUME Core, NEW p \in Proc, CommitDelete(p) PROVE Core'
<1> DEFINE c == req[p].customer
           gone == [NewRow EXCEPT !.status = "GONE"]
<1>1. /\ c \in Customer /\ customerLock[c] = p /\ Finish(p)
      /\ \A t \in Owned(c) : topupLock[t] = p
      /\ customers' = customers \ {c}
      /\ balance' = [balance EXCEPT ![c] = 0]
      /\ ledger' = [ledger EXCEPT ![c] = <<>>]
      /\ topup' = [t \in Topup |-> IF t \in Owned(c) THEN gone ELSE topup[t]]
  BY DEF CommitDelete, Core, LockProtocol, HoldsItsRows
<1>2. gone \in Row /\ gone.status = "GONE"
  BY DEF NewRow, Row
<1>3. TypeOK'
  BY <1>1, <1>2, FinishTyped DEF Core, TypeOK
<1>4. ASSUME NEW q \in Proc \ {p}, NEW t \in Topup,
             (topupLock[t] = q /\ Exists(t)) \/ (pc[q] = "insertTopup" /\ req[q].topup = t)
      PROVE  topup'[t] = topup[t]
  <2>1. t \notin Owned(c)
    BY <1>1, <1>4 DEF Core, LockProtocol, HoldsItsRows, Owned, Exists
  <2> QED BY <1>1, <2>1
<1>5. ASSUME NEW q \in Proc \ {p}, NEW d \in Customer, customerLock[d] = q
      PROVE  balance'[d] = balance[d]
  BY <1>1, <1>5 DEF Core, TypeOK
<1>6. LockProtocol' /\ FreshIds'
  BY <1>1, <1>4, <1>5, FinishKeeps DEF Core
<1>7. ForeignKey'
  <2> SUFFICES ASSUME NEW t \in Topup, topup'[t].status \in TopupStatus
               PROVE  topup'[t].owner \in customers' /\ topup'[t].amount \in Cents
    BY DEF ForeignKey
  <2>1. t \notin Owned(c) /\ topup'[t] = topup[t]
    BY <1>1, <1>2
  <2>2. topup[t].owner # c
    BY <2>1 DEF Owned, Exists
  <2> QED BY <1>1, <2>1, <2>2 DEF Core, ForeignKey
<1> QED BY <1>3, <1>6, <1>7 DEF Core

LEMMA SaveCustomerCore == ASSUME Core, NEW p \in Proc, SaveCustomer(p) PROVE Core'
<1> DEFINE c == req[p].customer
<1>1. /\ c \in Customer /\ Finish(p)
      /\ customers' = customers \cup {c} /\ UNCHANGED <<balance, ledger, topup>>
  BY DEF SaveCustomer, Core, LockProtocol, HoldsItsRows
<1>2. TypeOK'
  BY <1>1, FinishTyped DEF Core, TypeOK
<1>3. LockProtocol' /\ FreshIds'
  BY <1>1, FinishKeeps DEF Core
<1>4. ForeignKey'
  BY <1>1 DEF Core, ForeignKey
<1> QED BY <1>2, <1>3, <1>4 DEF Core

LEMMA InitCore == Init => Core
<1> SUFFICES ASSUME Init PROVE Core
  OBVIOUS
<1>1. NewRow \in Row /\ NewRow.status = "NEW"
  BY DEF NewRow, Row
<1>2. TypeOK
  BY <1>1, NoRequestTyped DEF Init, TypeOK
<1>3. LockProtocol /\ FreshIds
  BY DEF Init, LockProtocol, HoldsItsRows, FreshIds
<1>4. ForeignKey
  BY <1>1 DEF Init, ForeignKey
<1> QED BY <1>2, <1>3, <1>4 DEF Core

LEMMA CoreInductive == Core /\ [Next]_vars => Core'
<1> SUFFICES ASSUME Core, [Next]_vars PROVE Core'
  OBVIOUS
<1>1. ASSUME NEW p \in Proc, BeginRequest(p) PROVE Core'
  BY <1>1, BeginCore
<1>2. ASSUME NEW p \in Proc, Progress(p) PROVE Core'
  <2>1. ASSUME NEW t \in Topup, LockOwnedTopup(p, t) PROVE Core'
    BY <2>1, LockOwnedTopupCore
  <2> QED
    BY <1>2, <2>1, LockTopupCore, RecordTransactionCore, CommitCore, InsertTopupCore,
       LockDeletedCustomerCore, CommitDeleteCore, SaveCustomerCore, RollbackCore
       DEF Progress, DeadlockVictim
<1>3. ASSUME NEW p \in Proc, Abort(p) PROVE Core'
  BY <1>3, RollbackCore DEF Abort
<1>4. ASSUME NEW t \in Topup, AssignExternalId(t) PROVE Core'
  BY <1>4, AssignExternalIdCore
<1>5. CASE UNCHANGED vars
  BY <1>5 DEF vars, Core, TypeOK, LockProtocol, HoldsItsRows, FreshIds, ForeignKey,
              Moves, Settles
<1> QED BY <1>1, <1>2, <1>3, <1>4, <1>5 DEF Next

\* The types, the locking protocol and the foreign key hold for any number of
\* requests: what a request remembers of a locked row is what the row says.
THEOREM CoreInvariant == Spec => []Core
<1>1. Init => Core
  BY InitCore
<1>2. Core /\ [Next]_vars => Core'
  BY CoreInductive
<1> QED BY <1>1, <1>2, PTL DEF Spec

\* Every variable of the billing model keeps its type (models.go).
THEOREM TypeCorrect == Spec => []TypeOK
<1>1. Core => TypeOK
  BY DEF Core
<1> QED BY <1>1, CoreInvariant, PTL

-----------------------------------------------------------------------------
(* The ledger.                                                             *)

\* A step that no wallet, no ledger and no top-up is the worse for.
Quiet ==
    /\ UNCHANGED <<balance, ledger>>
    /\ \A t \in Topup : /\ topup'[t].status = topup[t].status
                        /\ topup'[t].owner = topup[t].owner
                        /\ topup'[t].amount = topup[t].amount

\* InsertTopup, when it does not roll back.
Inserts(p) ==
    LET r == req[p] IN
    /\ r.customer \in customers
    /\ r.topup \in Topup
    /\ topup[r.topup].status = "NEW"
    /\ topup'[r.topup].status = "PENDING"
    /\ topup'[r.topup].owner = r.customer
    /\ topup'[r.topup].amount \in Cents
    /\ \A t \in Topup : t # r.topup => topup'[t] = topup[t]
    /\ UNCHANGED <<balance, ledger>>

\* CommitDelete, with the row that is gone spelled out.
Deletes(p) ==
    LET c == req[p].customer IN
    /\ c \in Customer
    /\ balance' = [balance EXCEPT ![c] = 0]
    /\ ledger' = [ledger EXCEPT ![c] = <<>>]
    /\ \A t \in Topup : IF t \in Owned(c) THEN topup'[t].status = "GONE"
                                          ELSE topup'[t] = topup[t]

LEMMA RollbackQuiet == ASSUME NEW p \in Proc, Rollback(p) PROVE Quiet
BY DEF Rollback, tables, Quiet

\* Only three steps change what the ledger is about.
LEMMA MoneySteps ==
    ASSUME Core, [Next]_vars
    PROVE  Quiet \/ \E p \in Proc : CommitWrites(p, req[p]) \/ Inserts(p) \/ Deletes(p)
<1> DEFINE Goal == Quiet \/ \E p \in Proc : CommitWrites(p, req[p]) \/ Inserts(p) \/ Deletes(p)
<1>1. ASSUME NEW p \in Proc, BeginRequest(p) PROVE Quiet
  <2>1. PICK r \in Request, stage \in Stage : Begin(p, r, stage)
    BY <1>1, BeginShape
  <2> QED BY <2>1 DEF Begin, tables, Quiet
<1>2. ASSUME NEW p \in Proc, Progress(p) PROVE Goal
  <2>1. CASE LockTopup(p)
    BY <2>1, RollbackQuiet DEF LockTopup, tables, Quiet
  <2>2. CASE RecordTransaction(p) \/ LockDeletedCustomer(p)
    BY <2>2, RollbackQuiet DEF RecordTransaction, LockDeletedCustomer, tables, Quiet
  <2>3. CASE Commit(p)
    BY <2>3, CommitShape
  <2>4. CASE InsertTopup(p)
    <3> DEFINE r == req[p]
    <3>1. CASE Rollback(p)
      BY <3>1, RollbackQuiet
    <3>2. CASE ~Rollback(p)
      <4>1. /\ r.customer \in customers /\ r.topup \in Topup /\ r.amount \in Amounts
            /\ topup[r.topup].status = "NEW"
        BY <2>4, <3>2 DEF InsertTopup, Core, LockProtocol, HoldsItsRows
      <4>2. /\ UNCHANGED <<balance, ledger>>
            /\ \E amount \in Cents :
                  topup' = [topup EXCEPT ![r.topup] =
                              [status |-> "PENDING", owner |-> r.customer,
                               amount |-> amount, external |-> FALSE]]
        BY <2>4, <3>2, <4>1, CentsTyped DEF InsertTopup
      <4>3. Inserts(p)
        BY <4>1, <4>2 DEF Core, TypeOK, Inserts
      <4> QED BY <4>3
    <3> QED BY <3>1, <3>2
  <2>5. ASSUME NEW t \in Topup, LockOwnedTopup(p, t) PROVE Quiet
    BY <2>5 DEF LockOwnedTopup, tables, Quiet
  <2>6. CASE CommitDelete(p)
    <3>1. req[p].customer \in Customer
      BY <2>6 DEF CommitDelete, Core, LockProtocol, HoldsItsRows
    <3>2. [NewRow EXCEPT !.status = "GONE"].status = "GONE"
      BY DEF NewRow
    <3>3. Deletes(p)
      BY <2>6, <3>1, <3>2 DEF CommitDelete, Deletes
    <3> QED BY <3>3
  <2>7. CASE SaveCustomer(p)
    BY <2>7 DEF SaveCustomer, Quiet
  <2>8. CASE DeadlockVictim(p)
    BY <2>8, RollbackQuiet DEF DeadlockVictim
  <2> QED BY <1>2, <2>1, <2>2, <2>3, <2>4, <2>5, <2>6, <2>7, <2>8 DEF Progress
<1>3. ASSUME NEW p \in Proc, Abort(p) PROVE Quiet
  BY <1>3, RollbackQuiet DEF Abort
<1>4. ASSUME NEW t \in Topup, AssignExternalId(t) PROVE Quiet
  <2>1. /\ topup[t] \in Row
        /\ topup' = [topup EXCEPT ![t] = [topup[t] EXCEPT !.external = TRUE]]
    BY <1>4 DEF Core, TypeOK, AssignExternalId
  <2>2. LET new == [topup[t] EXCEPT !.external = TRUE] IN
        new.status = topup[t].status /\ new.owner = topup[t].owner
                                     /\ new.amount = topup[t].amount
    BY <2>1 DEF Row
  <2>3. UNCHANGED <<balance, ledger>>
    BY <1>4 DEF AssignExternalId
  <2> QED BY <2>1, <2>2, <2>3 DEF Core, TypeOK, Quiet
<1>5. CASE UNCHANGED vars
  BY <1>5 DEF vars, Quiet
<1> QED BY <1>1, <1>2, <1>3, <1>4, <1>5 DEF Next

\* LedgerChain of one customer.
Chain(L, b) ==
    /\ \A i \in 1..Len(L) :
          /\ L[i].before = IF i = 1 THEN 0 ELSE L[i - 1].after
          /\ Drift(L[i]) \in -1..1
          /\ L[i].type = "TOPUP" => Drift(L[i]) = 0
          /\ L[i].after >= 0
    /\ b = IF L = <<>> THEN 0 ELSE L[Len(L)].after

LEMMA ChainAppend ==
    ASSUME NEW L \in Seq(Entry), NEW b \in Int, Chain(L, b),
           NEW e \in Entry, e.before = b, e.after >= 0, Drift(e) \in -1..1,
           e.type = "TOPUP" => Drift(e) = 0
    PROVE  Chain(Append(L, e), e.after)
<1> DEFINE M == Append(L, e)
<1>1. /\ Len(L) \in Nat /\ Len(M) = Len(L) + 1 /\ M[Len(L) + 1] = e /\ M # <<>>
      /\ \A i \in 1..Len(L) : M[i] = L[i]
  OBVIOUS
<1>2. L = <<>> <=> Len(L) = 0
  OBVIOUS
<1>3. ASSUME NEW i \in 1..Len(M)
      PROVE  /\ M[i].before = IF i = 1 THEN 0 ELSE M[i - 1].after
             /\ Drift(M[i]) \in -1..1
             /\ M[i].type = "TOPUP" => Drift(M[i]) = 0
             /\ M[i].after >= 0
  <2> HIDE DEF M
  <2>1. CASE i \in 1..Len(L)
    BY <1>1, <2>1 DEF Chain
  <2>2. CASE i = Len(L) + 1
    <3>1. M[i] = e
      BY <1>1, <2>2
    <3>2. CASE i = 1
      BY <1>1, <1>2, <2>2, <3>1, <3>2 DEF Chain
    <3>3. CASE i # 1
      <4>1. i - 1 = Len(L) /\ M[i - 1] = L[Len(L)]
        BY <1>1, <2>2, <3>3
      <4> QED BY <1>1, <1>2, <2>2, <3>1, <3>3, <4>1 DEF Chain
    <3> QED BY <3>2, <3>3
  <2> QED BY <1>1, <2>1, <2>2
<1>4. e.after = M[Len(M)].after
  BY <1>1
<1> QED BY <1>1, <1>3, <1>4 DEF Chain

\* The entry of a commit starts from the balance and misses its end by a cent at
\* most, and by nothing when it credits a top-up.
LEMMA EntryOf ==
    ASSUME Core, NEW p \in Proc, CommitWrites(p, req[p]), CommitsWallet(p, req[p])
    PROVE  LET c == req[p].customer IN
           \E e \in Entry :
              /\ e.before = balance[c] /\ e.after >= 0 /\ e.topup = req[p].topup
              /\ Drift(e) \in -1..1
              /\ e.type = "TOPUP" => Drift(e) = 0
              /\ e.topup # None => e.amount = topup[e.topup].amount
              /\ e.after - balance[c] \in Column(req[p].amount)
              /\ balance' = [balance EXCEPT ![c] = e.after]
              /\ ledger' = [ledger EXCEPT ![c] = Append(ledger[c], e)]
<1> DEFINE r == req[p]
           c == r.customer
           b == balance[c]
<1>1. r \in Request /\ c \in Customer /\ b \in Int /\ r.amount \in Int
  BY DEF CommitWrites, Core, TypeOK, Request
<1>2. PICK amount \in Column(r.amount), moved \in Column(r.amount) :
         /\ b + moved >= 0
         /\ balance' = [balance EXCEPT ![c] = b + moved]
         /\ ledger' = [ledger EXCEPT ![c] = Append(ledger[c], EntryFor(r, amount, b, b + moved))]
  BY DEF CommitsWallet
<1>3. amount \in Int /\ moved \in Int /\ moved - amount \in -1..1
  BY <1>1, ColumnApart
<1> DEFINE e == EntryFor(r, amount, b, b + moved)
<1>4. /\ e \in Entry /\ e.before = b /\ e.amount = amount /\ e.after = b + moved
      /\ e.topup = r.topup
  BY <1>1, <1>3, EntryTyped DEF EntryFor
<1>5. r.op \notin WalletOps => r.op \in TopupOps /\ CommitsTopup(p, r)
  BY DEF CommitWrites
<1>6. ASSUME r.op \notin WalletOps
      PROVE  amount = topup[r.topup].amount /\ moved = topup[r.topup].amount
  <2>1. topup[r.topup].amount \in Int /\ r.amount = topup[r.topup].amount * Cent
    BY <1>5, <1>6 DEF CommitsTopup, Core, TypeOK, Row
  <2> QED BY <2>1, ColumnOfCents
<1>7. e.type = "TOPUP" \/ r.topup # None => r.op \notin WalletOps
  BY <1>1 DEF EntryFor, CommitWrites
<1> HIDE DEF e
<1>8. Drift(e) = moved - amount
  BY <1>1, <1>3, <1>4 DEF Drift
<1>9. e.after - b = moved
  BY <1>1, <1>3, <1>4
<1>10. /\ e.type = "TOPUP" => Drift(e) = 0
       /\ e.topup # None => e.amount = topup[e.topup].amount
  BY <1>3, <1>4, <1>6, <1>7, <1>8
<1> QED BY <1>2, <1>3, <1>4, <1>8, <1>9, <1>10 DEF e

LEMMA ChainInductive == Core /\ LedgerChain /\ [Next]_vars => LedgerChain'
<1> SUFFICES ASSUME Core, LedgerChain, [Next]_vars, NEW d \in Customer
             PROVE  Chain(ledger'[d], balance'[d])
  BY DEF LedgerChain, Chain
<1>1. /\ Chain(ledger[d], balance[d])
      /\ ledger \in [Customer -> Seq(Entry)] /\ balance \in [Customer -> Int]
  BY DEF LedgerChain, Chain, Core, TypeOK
<1>2. CASE ledger' = ledger /\ balance' = balance
  BY <1>1, <1>2
<1>3. ASSUME NEW p \in Proc, CommitWrites(p, req[p]), CommitsWallet(p, req[p])
      PROVE  Chain(ledger'[d], balance'[d])
  <2> DEFINE r == req[p]
  <2>1. r \in Request /\ r.customer \in Customer
    BY <1>3 DEF CommitWrites
  <2>2. PICK e \in Entry :
           /\ e.before = balance[r.customer] /\ e.after >= 0
           /\ Drift(e) \in -1..1
           /\ e.type = "TOPUP" => Drift(e) = 0
           /\ balance' = [balance EXCEPT ![r.customer] = e.after]
           /\ ledger' = [ledger EXCEPT ![r.customer] = Append(ledger[r.customer], e)]
    BY <1>3, EntryOf
  <2>3. CASE d = r.customer
    <3>1. ledger'[d] = Append(ledger[d], e) /\ balance'[d] = e.after
      BY <1>1, <2>2, <2>3
    <3>2. Chain(Append(ledger[d], e), e.after)
      BY <1>1, <2>2, <2>3, ChainAppend
    <3> QED BY <3>1, <3>2
  <2>4. CASE d # r.customer
    BY <1>1, <2>1, <2>2, <2>4
  <2> QED BY <2>3, <2>4
<1>4. ASSUME NEW p \in Proc, Deletes(p)
      PROVE  Chain(ledger'[d], balance'[d])
  <2>1. CASE d = req[p].customer
    BY <1>1, <1>4, <2>1 DEF Deletes, Chain
  <2>2. CASE d # req[p].customer
    BY <1>1, <1>4, <2>2 DEF Deletes
  <2> QED BY <2>1, <2>2
<1> QED
  BY <1>2, <1>3, <1>4, MoneySteps DEF Quiet, Inserts, CommitWrites

\* Nothing is owed, billed or paid at first.
LEMMA InitLedgers == Init => LedgerChain /\ CreditedOnce
<1> SUFFICES ASSUME Init PROVE LedgerChain /\ CreditedOnce
  OBVIOUS
<1>1. /\ \A c \in Customer : /\ ledger[c] = <<>> /\ balance[c] = 0
                             /\ 1..Len(ledger[c]) = {}
      /\ \A t \in Topup : topup[t].status = "NEW"
  BY DEF Init, NewRow
<1>2. LedgerChain
  BY <1>1 DEF LedgerChain
<1>3. CreditedOnce
  BY <1>1 DEF CreditedOnce
<1> QED BY <1>2, <1>3

\* The ledger of every customer is an unbroken account that ends at the balance,
\* its amounts to a cent and those of top-ups exactly (RecordTransaction, wallet.go),
\* for any number of concurrent requests and any division of the cent.
THEOREM LedgerIntact == Spec => []LedgerChain
<1>1. Init => LedgerChain
  BY InitLedgers
<1>2. Core /\ LedgerChain /\ [Next]_vars => LedgerChain'
  BY ChainInductive
<1> QED BY <1>1, <1>2, CoreInvariant, PTL DEF Spec

-----------------------------------------------------------------------------
(* A top-up is credited once.                                              *)

\* The two halves of CreditedOnce, for one ledger and for one top-up.
CreditsRows(c) ==
    \A i \in 1..Len(ledger[c]) :
        LET t == ledger[c][i].topup IN
        t # None => /\ topup[t].status = "SUCCESS"
                    /\ topup[t].owner = c
                    /\ topup[t].amount = ledger[c][i].amount
                    /\ \A j \in 1..Len(ledger[c]) : ledger[c][j].topup = t => j = i
IsCredited(t) ==
    topup[t].status = "SUCCESS" =>
        \E i \in 1..Len(ledger[topup[t].owner]) : ledger[topup[t].owner][i].topup = t

LEMMA CreditedParts ==
    CreditedOnce <=> /\ \A c \in Customer : CreditsRows(c)
                     /\ \A t \in Topup : IsCredited(t)
BY DEF CreditedOnce, CreditsRows, IsCredited

LEMMA EntryAt ==
    ASSUME NEW L \in Seq(Entry), NEW i \in 1..Len(L)
    PROVE  L[i] \in Entry /\ L[i].topup \in Topup \cup {None}
<1>1. L[i] \in Entry
  OBVIOUS
<1> QED BY <1>1 DEF Entry

\* A ledger that did not change still credits rows that did not.
LEMMA CreditsFrame ==
    ASSUME TypeOK, NEW c \in Customer, CreditsRows(c), ledger'[c] = ledger[c],
           \A t \in Topup : topup[t].status = "SUCCESS" /\ topup[t].owner = c =>
               /\ topup'[t].status = topup[t].status
               /\ topup'[t].owner = topup[t].owner
               /\ topup'[t].amount = topup[t].amount
    PROVE  CreditsRows(c)'
<1> SUFFICES ASSUME NEW i \in 1..Len(ledger[c]), ledger[c][i].topup # None
             PROVE  LET t == ledger[c][i].topup IN
                    /\ topup'[t].status = "SUCCESS"
                    /\ topup'[t].owner = c
                    /\ topup'[t].amount = ledger[c][i].amount
                    /\ \A j \in 1..Len(ledger[c]) : ledger[c][j].topup = t => j = i
  BY DEF CreditsRows
<1> DEFINE t == ledger[c][i].topup
<1>1. t \in Topup
  BY EntryAt DEF TypeOK
<1>2. /\ topup[t].status = "SUCCESS" /\ topup[t].owner = c
      /\ topup[t].amount = ledger[c][i].amount
      /\ \A j \in 1..Len(ledger[c]) : ledger[c][j].topup = t => j = i
  BY DEF CreditsRows
<1> QED BY <1>1, <1>2

\* The entries of a ledger to which one entry was added.
LEMMA EntriesAfter ==
    ASSUME NEW L \in Seq(Entry), NEW e \in Entry
    PROVE  /\ Len(Append(L, e)) = Len(L) + 1
           /\ Append(L, e)[Len(L) + 1] = e
           /\ \A i \in 1..Len(L) : Append(L, e)[i] = L[i]
           /\ \A i \in 1..Len(Append(L, e)) : i \in 1..Len(L) \/ i = Len(L) + 1
OBVIOUS

\* A commit that moves the wallet on behalf of no top-up, or of one it turns
\* from something else into SUCCESS.
LEMMA CreditMoved ==
    ASSUME Core, CreditedOnce, NEW p \in Proc,
           CommitWrites(p, req[p]), CommitsWallet(p, req[p]), Moves(req[p])
    PROVE  CreditedOnce'
<1> DEFINE r == req[p]
           d == r.customer
           L == ledger[d]
<1>1. /\ r \in Request /\ d \in Customer
      /\ ledger \in [Customer -> Seq(Entry)] /\ balance[d] \in Int
      /\ topup \in [Topup -> Row]
  BY DEF CommitWrites, Core, TypeOK
<1>2. PICK e \in Entry :
         /\ e.topup = r.topup
         /\ e.topup # None => e.amount = topup[e.topup].amount
         /\ ledger' = [ledger EXCEPT ![d] = Append(L, e)]
  BY EntryOf
<1>3. /\ ledger'[d] = Append(L, e)
      /\ \A c \in Customer : c # d => ledger'[c] = ledger[c]
  BY <1>1, <1>2
<1>4. /\ Len(ledger'[d]) = Len(L) + 1 /\ Len(L) \in Nat
      /\ ledger'[d][Len(L) + 1] = e
      /\ \A i \in 1..Len(L) : ledger'[d][i] = L[i]
      /\ \A i \in 1..Len(ledger'[d]) : i \in 1..Len(L) \/ i = Len(L) + 1
  BY <1>1, <1>2, <1>3, EntriesAfter
<1>5. /\ \A c \in Customer : CreditsRows(c)
      /\ \A t \in Topup : IsCredited(t)
  BY CreditedParts
\* The top-ups already credited are as they were; the one of this commit, if
\* there is one, had no entry and has become SUCCESS.
<1>6. \A t \in Topup : topup[t].status = "SUCCESS" => t # r.topup /\ topup'[t] = topup[t]
  BY DEF CommitWrites, CommitsTopup
<1>7. r.topup # None => /\ r.topup \in Topup /\ topup'[r.topup].status = "SUCCESS"
                        /\ topup'[r.topup].owner = d
                        /\ topup'[r.topup].amount = topup[r.topup].amount
  BY DEF CommitWrites, CommitsTopup
<1>8. \A i \in 1..Len(L) : /\ L[i].topup \in Topup \cup {None}
                           /\ L[i].topup # None => L[i].topup # r.topup
  <2>1. \A i \in 1..Len(L) : L[i].topup \in Topup \cup {None}
    BY <1>1, EntryAt
  <2>2. ASSUME NEW i \in 1..Len(L), L[i].topup # None
        PROVE  topup[L[i].topup].status = "SUCCESS"
    BY <1>1, <1>5, <2>2 DEF CreditsRows
  <2> QED BY <1>6, <2>1, <2>2
<1>9. ASSUME NEW c \in Customer PROVE CreditsRows(c)'
  <2>1. CASE c # d
    BY <1>3, <1>5, <1>6, <2>1, CreditsFrame DEF Core
  <2>2. CASE c = d
    <3> SUFFICES ASSUME NEW i \in 1..Len(ledger'[d]), ledger'[d][i].topup # None
                 PROVE  LET t == ledger'[d][i].topup IN
                        /\ topup'[t].status = "SUCCESS"
                        /\ topup'[t].owner = d
                        /\ topup'[t].amount = ledger'[d][i].amount
                        /\ \A j \in 1..Len(ledger'[d]) : ledger'[d][j].topup = t => j = i
      BY <2>2 DEF CreditsRows
    <3> DEFINE t == ledger'[d][i].topup
    <3>1. CASE i \in 1..Len(L)
      <4>1. ledger'[d][i] = L[i] /\ t \in Topup /\ t # r.topup
        BY <1>4, <1>8, <3>1
      <4>2. /\ topup[t].status = "SUCCESS" /\ topup[t].owner = d
            /\ topup[t].amount = L[i].amount
            /\ \A j \in 1..Len(L) : L[j].topup = t => j = i
        BY <1>1, <1>5, <3>1, <4>1 DEF CreditsRows
      <4>3. \A j \in 1..Len(ledger'[d]) : ledger'[d][j].topup = t => j = i
        BY <1>2, <1>4, <4>1, <4>2
      <4> QED BY <1>6, <4>1, <4>2, <4>3
    <3>2. CASE i = Len(L) + 1
      <4>1. ledger'[d][i] = e /\ t = r.topup /\ r.topup # None
        BY <1>2, <1>4, <3>2
      <4>2. \A j \in 1..Len(ledger'[d]) : ledger'[d][j].topup = t => j = i
        BY <1>4, <1>8, <3>2, <4>1
      <4> QED BY <1>2, <1>7, <4>1, <4>2
    <3> QED BY <1>4, <3>1, <3>2
  <2> QED BY <2>1, <2>2
<1>10. ASSUME NEW t \in Topup PROVE IsCredited(t)'
  <2> SUFFICES ASSUME topup'[t].status = "SUCCESS"
               PROVE  \E i \in 1..Len(ledger'[topup'[t].owner]) :
                         ledger'[topup'[t].owner][i].topup = t
    BY DEF IsCredited
  <2>1. CASE t = r.topup
    <3>1. t # None
      OBVIOUS
    <3>2. topup'[t].owner = d /\ ledger'[d][Len(L) + 1].topup = t
      BY <1>2, <1>4, <1>7, <2>1, <3>1
    <3>3. Len(L) + 1 \in 1..Len(ledger'[d])
      BY <1>4
    <3> QED BY <3>2, <3>3
  <2>2. CASE t # r.topup
    <3>1. topup'[t] = topup[t]
      BY <2>2 DEF CommitWrites, CommitsTopup
    <3>2. PICK i \in 1..Len(ledger[topup[t].owner]) : ledger[topup[t].owner][i].topup = t
      BY <1>5, <3>1 DEF IsCredited
    <3>3. topup[t].owner \in Customer
      BY <3>1 DEF Core, ForeignKey, TypeOK
    <3>4. CASE topup[t].owner = d
      <4>1. i \in 1..Len(ledger'[d]) /\ ledger'[d][i].topup = t
        BY <1>4, <3>2, <3>4
      <4> QED BY <3>1, <3>4, <4>1
    <3>5. CASE topup[t].owner # d
      BY <1>3, <3>1, <3>2, <3>3, <3>5
    <3> QED BY <3>4, <3>5
  <2> QED BY <2>1, <2>2
<1>11. (/\ \A c \in Customer : CreditsRows(c)
        /\ \A t \in Topup : IsCredited(t))'
  BY <1>9, <1>10
<1> QED BY <1>11, CreditedParts, PTL

\* A step after which every ledger either is what it was or is empty, and no
\* SUCCESS top-up with a surviving ledger has changed, nor a new one appeared.
LEMMA CreditKept ==
    ASSUME Core, CreditedOnce, TypeOK',
           \A c \in Customer : ledger'[c] = ledger[c] \/ ledger'[c] = <<>>,
           \A t \in Topup : topup[t].status = "SUCCESS"
                               /\ ledger'[topup[t].owner] = ledger[topup[t].owner] =>
               /\ topup'[t].status = topup[t].status
               /\ topup'[t].owner = topup[t].owner
               /\ topup'[t].amount = topup[t].amount,
           \A t \in Topup : topup'[t].status = "SUCCESS" =>
               /\ topup[t].status = "SUCCESS"
               /\ topup'[t].owner = topup[t].owner
               /\ ledger'[topup[t].owner] = ledger[topup[t].owner]
    PROVE  CreditedOnce'
<1>1. /\ \A c \in Customer : CreditsRows(c)
      /\ \A t \in Topup : IsCredited(t)
  BY CreditedParts
<1>2. ASSUME NEW c \in Customer PROVE CreditsRows(c)'
  <2>1. CASE ledger'[c] = ledger[c]
    BY <1>1, <2>1, CreditsFrame DEF Core
  <2>2. CASE ledger'[c] = <<>>
    <3>1. 1..Len(ledger'[c]) = {}
      BY <2>2
    <3> QED BY <3>1 DEF CreditsRows
  <2> QED BY <2>1, <2>2
<1>3. ASSUME NEW t \in Topup PROVE IsCredited(t)'
  BY <1>1, <1>3 DEF IsCredited
<1>4. (/\ \A c \in Customer : CreditsRows(c)
       /\ \A t \in Topup : IsCredited(t))'
  BY <1>2, <1>3
<1> QED BY <1>4, CreditedParts, PTL

LEMMA CreditInductive == Core /\ CreditedOnce /\ [Next]_vars => CreditedOnce'
<1> SUFFICES ASSUME Core, CreditedOnce, [Next]_vars PROVE CreditedOnce'
  OBVIOUS
<1>1. TypeOK' /\ ledger \in [Customer -> Seq(Entry)]
  BY CoreInductive DEF Core, TypeOK
<1>2. CASE Quiet
  BY <1>1, <1>2, CreditKept DEF Quiet
<1>3. ASSUME NEW p \in Proc, CommitWrites(p, req[p]) PROVE CreditedOnce'
  <2>1. CASE Moves(req[p])
    BY <1>3, <2>1, CreditMoved DEF CommitWrites
  <2>2. CASE ~Moves(req[p])
    <3>1. CommitsTopup(p, req[p]) /\ ledger' = ledger /\ req[p].status # "SUCCESS"
      BY <1>3, <2>2 DEF CommitWrites
    <3>2. \A t \in Topup : t = req[p].topup \/ topup'[t] = topup[t]
      BY <3>1 DEF CommitsTopup
    <3>3. /\ topup[req[p].topup].status # "SUCCESS"
          /\ topup'[req[p].topup].status # "SUCCESS"
      BY <3>1 DEF CommitsTopup
    <3> QED BY <1>1, <3>1, <3>2, <3>3, CreditKept
  <2> QED BY <2>1, <2>2
<1>4. ASSUME NEW p \in Proc, Inserts(p) PROVE CreditedOnce'
  <2>1. \A t \in Topup : t = req[p].topup \/ topup'[t] = topup[t]
    BY <1>4 DEF Inserts
  <2>2. /\ topup[req[p].topup].status # "SUCCESS"
        /\ topup'[req[p].topup].status # "SUCCESS" /\ ledger' = ledger
    BY <1>4 DEF Inserts
  <2> QED BY <1>1, <2>1, <2>2, CreditKept
<1>5. ASSUME NEW p \in Proc, Deletes(p) PROVE CreditedOnce'
  <2> DEFINE c == req[p].customer
  <2>1. \A d \in Customer : IF d = c THEN ledger'[d] = <<>> ELSE ledger'[d] = ledger[d]
    BY <1>1, <1>5 DEF Deletes
  <2>2. ASSUME NEW t \in Topup, topup[t].status = "SUCCESS"
        PROVE  /\ topup[t].owner \in Customer
               /\ \E j \in 1..Len(ledger[topup[t].owner]) : TRUE
    BY <2>2 DEF CreditedOnce, Core, ForeignKey, TypeOK
  <2>3. ASSUME NEW t \in Topup, topup[t].status = "SUCCESS",
               ledger'[topup[t].owner] = ledger[topup[t].owner]
        PROVE  topup'[t] = topup[t]
    <3>1. topup[t].owner # c
      <4> SUFFICES ASSUME topup[t].owner = c PROVE FALSE
        OBVIOUS
      <4>1. ledger[c] = <<>> /\ \E j \in 1..Len(ledger[c]) : TRUE
        BY <2>1, <2>2, <2>3
      <4>2. 1..Len(ledger[c]) = {}
        BY <4>1
      <4> QED BY <4>1, <4>2
    <3> QED BY <1>5, <3>1 DEF Deletes, Owned
  <2>4. ASSUME NEW t \in Topup, topup'[t].status = "SUCCESS"
        PROVE  /\ topup'[t] = topup[t]
               /\ ledger'[topup[t].owner] = ledger[topup[t].owner]
    <3>1. topup'[t] = topup[t] /\ t \notin Owned(c)
      BY <1>5, <2>4 DEF Deletes
    <3>2. topup[t].owner # c
      BY <2>4, <3>1 DEF Owned, Exists
    <3> QED BY <2>1, <2>2, <2>4, <3>1, <3>2
  <2>5. \A d \in Customer : ledger'[d] = ledger[d] \/ ledger'[d] = <<>>
    BY <2>1
  <2> HIDE DEF c
  <2> QED BY <1>1, <2>3, <2>4, <2>5, CreditKept
<1> QED BY <1>2, <1>3, <1>4, <1>5, MoneySteps

\* However often a payment is notified and whoever confirms it meanwhile, a
\* top-up is credited by one ledger entry when it is SUCCESS and by none when it
\* is not (ProcessWebhook and ManualConfirmation, topup.go).
THEOREM CreditedExactlyOnce == Spec => []CreditedOnce
<1>1. Init => CreditedOnce
  BY InitLedgers
<1>2. Core /\ CreditedOnce /\ [Next]_vars => CreditedOnce'
  BY CreditInductive
<1> QED BY <1>1, <1>2, CoreInvariant, PTL DEF Spec

\* The inductive invariant in one piece: the row locks a request holds, what it
\* remembers of those rows, the ledgers and the credits.
THEOREM Invariance == Spec => []IInv
<1>1. Core /\ LedgerChain /\ CreditedOnce => IInv
  BY DEF IInv
<1> QED BY <1>1, CoreInvariant, LedgerIntact, CreditedExactlyOnce, PTL

\* A payment that waits for the customer row finds it: the customer cannot be
\* deleted under a locked top-up (the foreign key and its cascade).
THEOREM PayerExists == Spec => []CreditFindsCustomer
<1>1. Core => CreditFindsCustomer
  <2> SUFFICES ASSUME Core, NEW p \in Proc, pc[p] = "lockCustomer", req[p].op \in TopupOps
               PROVE  req[p].customer \in customers
    BY DEF CreditFindsCustomer
  <2>1. /\ req[p].topup \in Topup
        /\ topup[req[p].topup].status \in TopupStatus
        /\ topup[req[p].topup].owner = req[p].customer
    BY DEF Core, LockProtocol, HoldsItsRows
  <2> QED BY <2>1 DEF Core, ForeignKey
<1> QED BY <1>1, CoreInvariant, PTL

\* No step takes a SUCCESS top-up back (the early return of ProcessWebhook, the
\* PENDING checks of ManualConfirmation and CancelTopup).
THEOREM SuccessStays == Spec => SuccessIsFinal
<1>1. Core /\ [Next]_vars =>
         [\A t \in Topup : topup[t].status = "SUCCESS" =>
             topup'[t].status \in {"SUCCESS", "GONE"}]_vars
  <2> SUFFICES ASSUME Core, [Next]_vars, NEW t \in Topup, topup[t].status = "SUCCESS"
               PROVE  topup'[t].status \in {"SUCCESS", "GONE"}
    OBVIOUS
  <2>1. CASE Quiet
    BY <2>1 DEF Quiet
  <2>2. ASSUME NEW p \in Proc, CommitWrites(p, req[p]) PROVE topup'[t] = topup[t]
    BY <2>2 DEF CommitWrites, CommitsTopup
  <2>3. ASSUME NEW p \in Proc, Inserts(p) PROVE topup'[t] = topup[t]
    BY <2>3 DEF Inserts
  <2>4. ASSUME NEW p \in Proc, Deletes(p)
        PROVE  topup'[t] = topup[t] \/ topup'[t].status = "GONE"
    BY <2>4 DEF Deletes
  <2> QED BY <2>1, <2>2, <2>3, <2>4, MoneySteps
<1> QED BY <1>1, CoreInvariant, PTL DEF Spec, SuccessIsFinal

-----------------------------------------------------------------------------
(* Billing implements WalletLedger.                                        *)

\* The refinement mapping, named as Billing's instance of WalletLedger has it.
Wallet == balance
Paid == {t \in Topup : topup[t].status = "SUCCESS"}
Bills == [t \in Topup |->
            CASE topup[t].status = "NEW"  -> [state |-> "none"]
              [] topup[t].status = "GONE" -> [state |-> "void"]
              [] OTHER -> [state |-> "due", owner |-> topup[t].owner,
                           amount |-> topup[t].amount]]

LEMMA BillOf ==
    ASSUME TypeOK, NEW t \in Topup
    PROVE  /\ topup[t].status = "NEW" => Bills[t] = Abstract!NoBill
           /\ topup[t].status = "GONE" => Bills[t] = Abstract!Void
           /\ topup[t].status \in TopupStatus =>
                 /\ Bills[t] = Abstract!BillFor(topup[t].owner, topup[t].amount)
                 /\ Bills[t].owner = topup[t].owner
           /\ Bills[t].state = "due" <=> topup[t].status \in TopupStatus
BY DEF Bills, Abstract!NoBill, Abstract!Void, Abstract!BillFor, TypeOK, Row

\* A step after which every top-up is billed as before.
LEMMA BillsKept ==
    ASSUME TypeOK, TypeOK',
           \A t \in Topup : /\ topup'[t].owner = topup[t].owner
                            /\ topup'[t].amount = topup[t].amount
                            /\ \/ topup'[t].status = topup[t].status
                               \/ /\ topup'[t].status \in TopupStatus
                                  /\ topup[t].status \in TopupStatus
    PROVE  Bills' = Bills
BY DEF Bills

\* A commit moves a wallet, pays a top-up, or changes neither.
LEMMA CommitRefines ==
    ASSUME Core, TypeOK', NEW p \in Proc, CommitWrites(p, req[p])
    PROVE  Abstract!Next \/ UNCHANGED Abstract!vars
<1> DEFINE r == req[p]
           c == r.customer
<1>1. /\ c \in Customer /\ r \in Request /\ TypeOK
      /\ balance \in [Customer -> Int]
  BY DEF CommitWrites, Core, TypeOK
<1>2. CASE r.op \in WalletOps
  <2>1. topup' = topup /\ Asked(r.amount) /\ CommitsWallet(p, r)
    BY <1>2 DEF CommitWrites
  <2>2. Bills' = Bills /\ Paid' = Paid
    BY <2>1 DEF Bills, Paid
  <2>3. PICK moved \in Column(r.amount) :
           /\ balance[c] + moved >= 0
           /\ balance' = [balance EXCEPT ![c] = balance[c] + moved]
    BY <2>1 DEF CommitsWallet
  <2>4. Abstract!Move(c, moved)
    BY <2>2, <2>3 DEF Abstract!Move, Bills, Paid
  <2>5. r.amount \in Int /\ moved \in Int
    BY <1>1, ColumnApart DEF Request
  <2>6. moved \in Cents \/ (-moved \in Cents /\ moved = -(-moved))
    BY <2>1, <2>5, CentsTyped
  <2> QED BY <1>1, <2>4, <2>6 DEF Abstract!Next
<1>3. CASE r.op \in TopupOps
  <2> DEFINE t == r.topup
  <2>1. CommitsTopup(p, r) /\ (Moves(r) <=> r.status = "SUCCESS")
    BY <1>3 DEF CommitWrites
  <2>2. Bills' = Bills
    BY <1>1, <2>1, BillsKept DEF CommitsTopup
  <2>3. CASE Moves(r)
    <3>1. CommitsWallet(p, r)
      BY <2>3 DEF CommitWrites
    <3>a. topup[t].amount \in Int /\ r.amount = topup[t].amount * Cent
      BY <1>1, <2>1 DEF CommitsTopup, TypeOK, Row
    <3>b. balance' = [balance EXCEPT ![c] = balance[c] + topup[t].amount]
      BY <3>1, <3>a, ColumnOfCents DEF CommitsWallet
    <3>2. t \notin Paid /\ Paid' = Paid \cup {t}
      BY <2>1, <2>3 DEF CommitsTopup, Paid
    <3>3. Bills[t] = Abstract!BillFor(c, topup[t].amount) /\ topup[t].amount \in Cents
      BY <1>1, <2>1, BillOf DEF CommitsTopup, Core, ForeignKey
    <3>4. PICK d \in Customer, u \in Topup, a \in Cents :
             d = c /\ u = t /\ a = topup[t].amount
      BY <1>1, <2>1, <3>3 DEF CommitsTopup
    <3>5. Abstract!Pay(u, d, a)
      BY <2>2, <3>2, <3>3, <3>4, <3>b DEF Abstract!Pay, Bills, Paid
    <3> QED BY <3>5 DEF Abstract!Next
  <2>4. CASE ~Moves(r)
    <3>1. balance' = balance
      BY <2>4 DEF CommitWrites
    <3>2. Paid' = Paid
      BY <2>1, <2>4 DEF CommitsTopup, Paid
    <3> QED BY <2>2, <3>1, <3>2 DEF Abstract!vars, Bills, Paid
  <2> QED BY <2>3, <2>4
<1> QED BY <1>2, <1>3 DEF CommitWrites

LEMMA InsertRefines ==
    ASSUME Core, TypeOK', NEW p \in Proc, Inserts(p)
    PROVE  Abstract!Next
<1> DEFINE r == req[p]
           t == r.topup
           amount == topup'[t].amount
<1>1. /\ t \in Topup /\ r.customer \in Customer /\ amount \in Cents /\ TypeOK
      /\ topup[t].status = "NEW" /\ topup'[t].status = "PENDING"
      /\ topup'[t].owner = r.customer
      /\ \A u \in Topup : u # t => topup'[u] = topup[u]
      /\ UNCHANGED <<balance, ledger>>
  BY DEF Inserts, Core, TypeOK
<1>2. Bills[t] = Abstract!NoBill
  BY <1>1, BillOf
<1>3. Bills' = [Bills EXCEPT ![t] = Abstract!BillFor(r.customer, amount)]
  BY <1>1 DEF Bills, Abstract!BillFor
<1>4. Paid' = Paid
  BY <1>1 DEF Paid
<1>5. PICK u \in Topup, c \in Customer, a \in Cents :
         u = t /\ c = r.customer /\ a = amount
  BY <1>1
<1>6. Abstract!Bill(u, c, a)
  BY <1>1, <1>2, <1>3, <1>4, <1>5 DEF Abstract!Bill, Bills, Paid
<1> QED BY <1>6 DEF Abstract!Next

LEMMA DeleteRefines ==
    ASSUME Core, TypeOK', NEW p \in Proc, Deletes(p)
    PROVE  Abstract!Next
<1>0. PICK c \in Customer : c = req[p].customer
  BY DEF Deletes
<1> DEFINE mine == {t \in Topup : Bills[t].state = "due" /\ Bills[t].owner = c}
<1>1. TypeOK /\ c \in Customer /\ balance' = [balance EXCEPT ![c] = 0]
  BY <1>0 DEF Deletes, Core
<1>2. mine = Owned(c)
  <2>1. ASSUME NEW t \in Topup
        PROVE  (Bills[t].state = "due" /\ Bills[t].owner = c) <=> t \in Owned(c)
    <3>1. CASE topup[t].status \in TopupStatus
      <4>1. Bills[t].state = "due" /\ Bills[t].owner = topup[t].owner
        BY <1>1, <3>1, BillOf
      <4> QED BY <3>1, <4>1 DEF Owned, Exists
    <3>2. CASE topup[t].status \notin TopupStatus
      BY <1>1, <3>2, BillOf DEF Owned, Exists
    <3> QED BY <3>1, <3>2
  <2> QED BY <2>1 DEF Owned
<1>3. Bills' = [t \in Topup |-> IF t \in mine THEN Abstract!Void ELSE Bills[t]]
  BY <1>0, <1>1, <1>2 DEF Deletes, Bills, Abstract!Void
<1>4. Paid' = Paid \ mine
  BY <1>0, <1>1, <1>2 DEF Deletes, Paid, Owned, Exists
<1>5. Abstract!Close(c)
  BY <1>1, <1>3, <1>4 DEF Abstract!Close, Bills, Paid
<1> QED BY <1>5 DEF Abstract!Next

\* The transactions, locks and cascades of the billing plugin implement the
\* wallet ledger: one commit is one move, bill, payment or closing of WalletLedger.
THEOREM BillingImplementsLedger == Spec => WalletRefinement
<1>1. Init => Abstract!Init
  <2> SUFFICES ASSUME Init PROVE Abstract!Init
    OBVIOUS
  <2>1. \A t \in Topup : topup[t].status = "NEW"
    BY DEF Init, NewRow
  <2>2. Paid = {}
    BY <2>1 DEF Paid
  <2>3. Bills = [t \in Topup |-> Abstract!NoBill]
    BY <2>1 DEF Bills, Abstract!NoBill
  <2> QED BY <2>2, <2>3 DEF Init, Abstract!Init, Bills, Paid
<1>2. Core /\ [Next]_vars => [Abstract!Next]_(Abstract!vars)
  <2> SUFFICES ASSUME Core, [Next]_vars
               PROVE  Abstract!Next \/ UNCHANGED Abstract!vars
    OBVIOUS
  <2>1. TypeOK /\ TypeOK'
    BY CoreInductive DEF Core
  <2>2. CASE Quiet
    <3>1. Bills' = Bills /\ Paid' = Paid
      BY <2>1, <2>2, BillsKept DEF Quiet, Paid
    <3> QED BY <2>2, <3>1 DEF Quiet, Abstract!vars, Bills, Paid
  <2> QED
    BY <2>1, <2>2, MoneySteps, CommitRefines, InsertRefines, DeleteRefines
<1> QED BY <1>1, <1>2, CoreInvariant, PTL DEF Spec, WalletRefinement, Abstract!Spec

=============================================================================
