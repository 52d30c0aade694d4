------------------------- MODULE PaymentSettlement -------------------------
(***************************************************************************)
(* Payments of one user against invoices: addPayment and reviewPayment, each *)
(* one PostgreSQL transaction of PostgresPaymentSettlement, beside the       *)
(* operator's updateInvoiceStatus and deleteInvoice, which lock nothing       *)
(* before they write.  The foreign key of migration 0003 keeps an invoice     *)
(* that has payments.                                                        *)
(*                                                                         *)
(* A step is one statement.  `payment` and `invoice` hold the committed       *)
(* rows, READ COMMITTED statements see them and the transaction's own writes  *)
(* (View), and a row lock is held from the statement that takes it to the     *)
(* end of the transaction, so who holds what follows from the pcs.  Every     *)
(* call is made once; a retry is another call with the same request.         *)
(***************************************************************************)
EXTENDS Integers

CONSTANTS
    Callers,       \* calls; a call's payment id, a fresh uid, is the call itself
    Invoices,
    Amount,        \* Amount[i]: what invoice i is for, in minor units
    Currency,      \* Currency[i]: the currency of invoice i
    Amounts, Currencies, Times, Keys, References,    \* what requests are made of
    Derived,       \* Derived[f]: the key derived from evidence reference f
    Requests,      \* the requests of the checked instance
    Total(_),      \* SUM over the amounts counted, one per payment id
    NoKey, NoTime, NoRequest, NoPayment

\* A draft and a sent invoice are open alike.
Statuses == {"open", "paid"}

AddRequest ==
    [op : {"add"}, invoice : Invoices, amount : Amounts, currency : Currencies,
     received : Times \cup {NoTime}, key : Keys \cup {NoKey}, ref : References,
     reviewed : BOOLEAN]
ReviewRequest == [op : {"review"}, payment : Callers]
StatusRequest == [op : {"status"}, invoice : Invoices, status : Statuses]
DeleteRequest == [op : {"delete"}, invoice : Invoices]

\* A payment row; the method is compared and stored as the amount is.
Row == [invoice : Invoices, amount : Amounts, currency : Currencies, received : Times,
        key : Keys, ref : References, status : {"recorded", "verified"}]

Contribution == [Callers -> Amounts \cup {0}]

ASSUME AmountsAssumption  == /\ Amounts \subseteq Nat \ {0}
                             /\ Amount \in [Invoices -> Nat]
                             /\ Currency \in [Invoices -> Currencies]
ASSUME KeysAssumption     == /\ Derived \in [References -> Keys]
                             /\ NoKey \notin Keys
                             /\ NoTime \notin Times
ASSUME RequestsAssumption == Requests \subseteq AddRequest \cup ReviewRequest \cup
                                                StatusRequest \cup DeleteRequest
ASSUME ValuesAssumption   == NoPayment \notin Row /\ NoRequest \notin Requests
ASSUME TotalAssumption    ==
    /\ Total([c \in Callers |-> 0]) = 0
    /\ \A f \in Contribution : Total(f) \in Nat
    /\ \A f, g \in Contribution : (\A c \in Callers : f[c] <= g[c]) => Total(f) <= Total(g)

VARIABLES
    invoice,       \* invoice[i]: the status of the committed row, or "none"
    byOperator,    \* byOperator[i]: that status was written by an operator (history)
    payment,       \* payment[c]: the committed row that call c inserted, or NoPayment
    pc, req,       \* where call c is, and what it was asked
    cmd,           \* cmd[c]: the settlement command that addPayment builds
    pay,           \* pay[c]: the payment call c is about
    seen,          \* seen[c]: the verified total it read
    answer         \* answer[c]: what it answered

table == <<invoice, byOperator, payment>>
call  == <<req, cmd, pay, seen>>
vars  == <<table, call, pc, answer>>

Failures == {"INVOICE_NOT_FOUND", "CURRENCY_MISMATCH", "IDEMPOTENCY_CONFLICT",
             "INVOICE_ALREADY_SETTLED", "PAYMENT_NOT_FOUND", "PAYMENT_ALREADY_VERIFIED"}

PCs == {"idle", "lock", "byKey", "byReference", "insert", "lost", "replay", "totals",
        "commit", "review", "reviewInvoice", "status", "delete", "restrict", "done"}

TypeOK ==
    /\ invoice \in [Invoices -> Statuses \cup {"none"}]
    /\ byOperator \in [Invoices -> BOOLEAN]
    /\ payment \in [Callers -> Row \cup {NoPayment}]
    /\ pc \in [Callers -> PCs]
    /\ req \in [Callers -> Requests \cup {NoRequest}]
    /\ cmd \in [Callers -> Row \cup {NoPayment}]
    /\ pay \in [Callers -> Callers]
    /\ seen \in [Callers -> Nat]
    /\ answer \in [Callers -> {"", "OK", "THROWN"} \cup Failures]

Init ==
    /\ invoice    = [i \in Invoices |-> "open"]
    /\ byOperator = [i \in Invoices |-> FALSE]
    /\ payment    = [c \in Callers |-> NoPayment]
    /\ pc         = [c \in Callers |-> "idle"]
    /\ req        = [c \in Callers |-> NoRequest]
    /\ cmd        = [c \in Callers |-> NoPayment]
    /\ pay        = [c \in Callers |-> c]
    /\ seen       = [c \in Callers |-> 0]
    /\ answer     = [c \in Callers |-> ""]

Go(c, l)     == pc' = [pc EXCEPT ![c] = l] /\ UNCHANGED answer
Answer(c, a) == pc' = [pc EXCEPT ![c] = "done"] /\ answer' = [answer EXCEPT ![c] = a]

----------------------------------------------------------------------------
(* The database: row locks, unique indexes, a transaction's view.           *)

Exists(d) == payment[d] # NoPayment

HasKey(d, k) == Exists(d) /\ payment[d].key = k

InvoiceOf(c) == IF req[c].op = "review" THEN payment[pay[c]].invoice ELSE req[c].invoice

HoldsInvoice(c, i) ==
    /\ pc[c] \in {"byKey", "byReference", "insert", "totals", "commit", "restrict"}
    /\ InvoiceOf(c) = i

HoldsPayment(c, d) ==
    pc[c] \in {"reviewInvoice", "totals", "commit"} /\ req[c].op = "review" /\ pay[c] = d

\* c has inserted its row and not committed it.
Inserting(c) == pc[c] \in {"totals", "commit"} /\ req[c].op = "add" /\ pay[c] = c

\* Mutant: the evidence reference has no unique index.
ClashOnKey(row, other) == row.key = other.key

Clash(row, other) == row.key = other.key \/ row.ref = other.ref

\* The unique indexes refuse c's row: one that clashes with it is committed.
Refused(c) == \E d \in Callers : Exists(d) /\ Clash(payment[d], cmd[c])

\* Mutant: the invoice is read without FOR UPDATE.
NeedsInvoiceToWrite(c, i) == pc[c] \in {"status", "delete"} /\ InvoiceOf(c) = i

\* The next statement of c locks the row of invoice i, with SELECT ... FOR UPDATE or
\* by writing it.
NeedsInvoice(c, i) ==
    pc[c] \in {"lock", "reviewInvoice", "status", "delete"} /\ InvoiceOf(c) = i

\* Mutant: settle reads the payment of its key FOR UPDATE as well.
NeedsPaymentOfKey(c, d) ==
    \/ pc[c] \in {"review", "restrict"} /\ pay[c] = d
    \/ pc[c] = "byKey" /\ HasKey(d, cmd[c].key)

\* The next statement of c locks payment d: FOR UPDATE to verify it, FOR KEY SHARE to
\* check the foreign key of the invoice it deletes.  A plain SELECT locks nothing.
NeedsPayment(c, d) == pc[c] \in {"review", "restrict"} /\ pay[c] = d

\* The next statement of c waits for the end of d's transaction: for a row that d has
\* locked, or for a row that d has inserted and a unique index compares with c's.
WaitsFor(c, d) ==
    /\ c # d
    /\ \/ \E i \in Invoices : NeedsInvoice(c, i) /\ HoldsInvoice(d, i)
       \/ \E e \in Callers : NeedsPayment(c, e) /\ HoldsPayment(d, e)
       \/ pc[c] = "insert" /\ ~Refused(c) /\ Inserting(d) /\ Clash(cmd[d], cmd[c])

\* A statement that takes a lock or inserts a row goes on when its call waits for nobody.
Free(c) == \A d \in Callers : ~WaitsFor(c, d)

View(c) ==
    [d \in Callers |-> IF d = c /\ Inserting(c) THEN cmd[c]
                       ELSE IF HoldsPayment(c, d) THEN [payment[d] EXCEPT !.status = "verified"]
                       ELSE payment[d]]

Verified(rows, i) ==
    [d \in Callers |-> IF rows[d] # NoPayment /\ rows[d].invoice = i /\ rows[d].status = "verified"
                       THEN rows[d].amount ELSE 0]

----------------------------------------------------------------------------
(* addPayment and settle.                                                   *)

\* Mutant: no time of receipt is filled in.
CommandAsGiven(r, now) ==
    [invoice |-> r.invoice, amount |-> r.amount, currency |-> r.currency,
     received |-> r.received, key |-> IF r.key = NoKey THEN Derived[r.ref] ELSE r.key,
     ref |-> r.ref, status |-> IF r.reviewed THEN "verified" ELSE "recorded"]

\* Without a key the evidence gives one, without a time of receipt the clock does,
\* and only reviewed evidence verifies.
Command(r, now) ==
    [invoice |-> r.invoice, amount |-> r.amount, currency |-> r.currency,
     received |-> IF r.received = NoTime THEN now ELSE r.received,
     key |-> IF r.key = NoKey THEN Derived[r.ref] ELSE r.key,
     ref |-> r.ref, status |-> IF r.reviewed THEN "verified" ELSE "recorded"]

\* Amount and evidence are those that pass validation, which reads no state.
AddPayment(c) ==
    /\ pc[c] = "idle"
    /\ \E r \in Requests, now \in Times :
         /\ r.op = "add"
         /\ req' = [req EXCEPT ![c] = r]
         /\ cmd' = [cmd EXCEPT ![c] = Command(r, now)]
         /\ \/ invoice[r.invoice] = "none" /\ Answer(c, "INVOICE_NOT_FOUND")
            \/ /\ invoice[r.invoice] # "none"
               /\ r.currency # Currency[r.invoice]
               /\ Answer(c, "CURRENCY_MISMATCH")
            \/ /\ invoice[r.invoice] # "none"
               /\ r.currency = Currency[r.invoice]
               /\ Go(c, "lock")
    /\ UNCHANGED <<table, pay, seen>>

\* SELECT ... FOR UPDATE: until the end of the transaction nobody else writes the row.
LockInvoice(c) ==
    /\ pc[c] = "lock" /\ Free(c)
    /\ IF invoice[req[c].invoice] = "none" THEN Answer(c, "INVOICE_NOT_FOUND") ELSE Go(c, "byKey")
    /\ UNCHANGED <<table, call>>

\* Mutant: a key stands for a payment whatever its invoice and money.
SameTime(row, other) == row.received = other.received

SameDetails(row, other) ==
    /\ row.invoice  = other.invoice
    /\ row.amount   = other.amount
    /\ row.currency = other.currency
    /\ row.received = other.received

\* A key in use is a retry, or a conflict when the money is not the same.
Resolve(c, next) ==
    \E d \in Callers :
        /\ HasKey(d, cmd[c].key)
        /\ \/ /\ SameDetails(payment[d], cmd[c])
              /\ pay' = [pay EXCEPT ![c] = d]
              /\ Go(c, next)
           \/ /\ ~SameDetails(payment[d], cmd[c])
              /\ Answer(c, "IDEMPOTENCY_CONFLICT")
              /\ UNCHANGED pay

FindByKey(c) ==
    /\ pc[c] = "byKey"
    /\ \/ Resolve(c, "totals")
       \/ /\ \A d \in Callers : ~HasKey(d, cmd[c].key)
          /\ Go(c, "byReference")
          /\ UNCHANGED pay
    /\ UNCHANGED <<table, req, cmd, seen>>

\* Mutant: a paid invoice takes another payment.
PayableAnyway(i) == TRUE

Payable(i) == invoice[i] # "paid"

\* The reference must be unused and the invoice open; its currency was compared
\* by addPayment and never changes.
FindByReference(c) ==
    /\ pc[c] = "byReference"
    /\ \/ /\ \E d \in Callers : Exists(d) /\ payment[d].ref = cmd[c].ref
          /\ Answer(c, "IDEMPOTENCY_CONFLICT")
       \/ /\ \A d \in Callers : Exists(d) => payment[d].ref # cmd[c].ref
          /\ IF Payable(req[c].invoice) THEN Go(c, "insert") ELSE Answer(c, "INVOICE_ALREADY_SETTLED")
    /\ UNCHANGED <<table, call>>

InsertPayment(c) ==
    /\ pc[c] = "insert" /\ Free(c)
    /\ IF Refused(c) THEN Go(c, "lost") ELSE Go(c, "totals")
    /\ UNCHANGED <<table, call>>

\* Its transaction rolled back, the loser looks for the payment that won.
ResolveLostRace(c) ==
    /\ pc[c] = "lost"
    /\ \/ Resolve(c, "replay")
       \/ /\ \A d \in Callers : ~HasKey(d, cmd[c].key)
          /\ Answer(c, "IDEMPOTENCY_CONFLICT")
          /\ UNCHANGED pay
    /\ UNCHANGED <<table, req, cmd, seen>>

Replay(c) ==
    /\ pc[c] = "replay"
    /\ Answer(c, IF invoice[req[c].invoice] = "none" THEN "INVOICE_NOT_FOUND" ELSE "OK")
    /\ UNCHANGED <<table, call>>

----------------------------------------------------------------------------
(* verify, and the totals both transactions end with.                       *)

ReviewPayment(c) ==
    /\ pc[c] = "idle"
    /\ \E r \in Requests :
         /\ r.op = "review"
         /\ req' = [req EXCEPT ![c] = r]
         /\ pay' = [pay EXCEPT ![c] = r.payment]
    /\ Go(c, "review")
    /\ UNCHANGED <<table, cmd, seen>>

\* SELECT ... FOR UPDATE and the UPDATE that verifies; every row has its evidence.
LockPayment(c) ==
    /\ pc[c] = "review" /\ Free(c)
    /\ \/ ~Exists(pay[c]) /\ Answer(c, "PAYMENT_NOT_FOUND")
       \/ /\ Exists(pay[c])
          /\ IF payment[pay[c]].status = "verified"
             THEN Answer(c, "PAYMENT_ALREADY_VERIFIED") ELSE Go(c, "reviewInvoice")
    /\ UNCHANGED <<table, call>>

\* A missing invoice is a failure that is returned, not thrown: the verification
\* written before it is committed.  The foreign key leaves no such payment.
LockItsInvoice(c) ==
    /\ pc[c] = "reviewInvoice" /\ Free(c)
    /\ IF invoice[InvoiceOf(c)] = "none"
       THEN /\ payment' = View(c)
            /\ \E a \in {"INVOICE_NOT_FOUND", "THROWN"} : Answer(c, a)
       ELSE UNCHANGED payment /\ Go(c, "totals")
    /\ UNCHANGED <<invoice, byOperator, call>>

\* Mutant: unreviewed payments count.
RecordedTotal(c) ==
    Total([d \in Callers |-> IF View(c)[d] # NoPayment /\ View(c)[d].invoice = InvoiceOf(c)
                             THEN View(c)[d].amount ELSE 0])

VerifiedTotal(c) == Total(Verified(View(c), InvoiceOf(c)))

ReadTotals(c) ==
    /\ pc[c] = "totals"
    /\ seen' = [seen EXCEPT ![c] = VerifiedTotal(c)]
    /\ Go(c, "commit")
    /\ UNCHANGED <<table, req, cmd, pay>>

\* The covered invoice is paid and everything is committed; the reply may be lost.
Commit(c) ==
    LET i == InvoiceOf(c) IN
    /\ pc[c] = "commit"
    /\ payment' = View(c)
    /\ IF Amount[i] > 0 /\ seen[c] >= Amount[i] /\ invoice[i] # "paid"
       THEN /\ invoice'    = [invoice EXCEPT ![i] = "paid"]
            /\ byOperator' = [byOperator EXCEPT ![i] = FALSE]
       ELSE UNCHANGED <<invoice, byOperator>>
    /\ \E a \in {"OK", "THROWN"} : Answer(c, a)
    /\ UNCHANGED call

\* A statement throws and PostgreSQL rolls the transaction back: a lost connection, or
\* deadlock_detected for one of the calls that wait for each other.
Fail(c) ==
    /\ pc[c] \notin {"idle", "done"}
    /\ Answer(c, "THROWN")
    /\ UNCHANGED <<table, call>>

----------------------------------------------------------------------------
(* The operator: read the invoice, then upsert or delete the whole row.     *)

OpenInvoice(c) ==
    /\ pc[c] = "idle"
    /\ \E r \in Requests :
         /\ r.op \in {"status", "delete"}
         /\ req' = [req EXCEPT ![c] = r]
         /\ IF invoice[r.invoice] = "none" THEN Answer(c, "INVOICE_NOT_FOUND") ELSE Go(c, r.op)
    /\ UNCHANGED <<table, cmd, pay, seen>>

\* The upsert writes the row again if it was deleted meanwhile.
UpdateInvoiceStatus(c) ==
    /\ pc[c] = "status" /\ Free(c)
    /\ invoice'    = [invoice EXCEPT ![req[c].invoice] = req[c].status]
    /\ byOperator' = [byOperator EXCEPT ![req[c].invoice] = TRUE]
    /\ Answer(c, "OK")
    /\ UNCHANGED <<payment, call>>

\* DELETE locks the invoice row, and then the foreign key looks for a payment of it.
DeleteInvoice(c) ==
    LET i == req[c].invoice
        its == {d \in Callers : Exists(d) /\ payment[d].invoice = i}
    IN
    /\ pc[c] = "delete" /\ Free(c)
    /\ \/ /\ invoice[i] = "none" \/ its = {}
          /\ invoice' = [invoice EXCEPT ![i] = "none"]
          /\ Answer(c, "OK")
          /\ UNCHANGED pay
       \/ /\ invoice[i] # "none"
          /\ \E d \in its : pay' = [pay EXCEPT ![c] = d]
          /\ Go(c, "restrict")
          /\ UNCHANGED invoice
    /\ UNCHANGED <<byOperator, payment, req, cmd, seen>>

\* ON DELETE RESTRICT: the payment found, once it is not locked, fails the statement.
RefuseDeletion(c) ==
    /\ pc[c] = "restrict" /\ Free(c)
    /\ Answer(c, "THROWN")
    /\ UNCHANGED <<table, call>>

----------------------------------------------------------------------------
Settle(c) == \/ LockInvoice(c) \/ FindByKey(c) \/ FindByReference(c) \/ InsertPayment(c)
             \/ ResolveLostRace(c) \/ Replay(c)
Verify(c) == LockPayment(c) \/ LockItsInvoice(c)
Finish(c) == ReadTotals(c) \/ Commit(c)
Edit(c)   == UpdateInvoiceStatus(c) \/ DeleteInvoice(c) \/ RefuseDeletion(c)
Begin(c)  == AddPayment(c) \/ ReviewPayment(c) \/ OpenInvoice(c)

Step(c) == Settle(c) \/ Verify(c) \/ Finish(c) \/ Edit(c)
Next    == \E c \in Callers : Begin(c) \/ Step(c) \/ Fail(c)
Spec    == Init /\ [][Next]_vars

----------------------------------------------------------------------------
\* An invoice that settlement marked paid is covered by verified payments: no
\* total read from unreviewed or uncommitted rows ever settles one.
PaidIsBacked ==
    \A i \in Invoices :
        invoice[i] = "paid" /\ ~byOperator[i] => Total(Verified(payment, i)) >= Amount[i]

\* Payments that are committed one by one, by transactions that saw only their
\* own, never cover an invoice together and leave it open: the last one settles
\* it, unless an operator wrote its status.
CoveredIsPaid ==
    \A i \in Invoices :
        /\ Amount[i] > 0
        /\ Total(Verified(payment, i)) >= Amount[i]
        /\ invoice[i] = "open"
        => byOperator[i]

\* A key stands for one payment: no two rows share it, and whoever is told that
\* its payment is recorded is told of a committed row with its key and its money.
OnePaymentPerKey ==
    /\ \A c, d \in Callers : Exists(c) /\ Exists(d) /\ c # d => payment[c].key # payment[d].key
    /\ \A c \in Callers :
         req[c] # NoRequest /\ req[c].op = "add" /\ answer[c] = "OK" =>
             /\ HasKey(pay[c], cmd[c].key)
             /\ payment[pay[c]].invoice = req[c].invoice
             /\ payment[pay[c]].amount  = req[c].amount

\* A receipt or processor transaction backs one payment, even when two calls with
\* different keys pay different invoices with it at the same time.
EvidenceUsedOnce ==
    \A c, d \in Callers : Exists(c) /\ Exists(d) /\ c # d => payment[c].ref # payment[d].ref

\* A payment is only ever added to an invoice that is open when it is committed,
\* however long ago the call looked: revenue is not counted twice.
NoFurtherPayment ==
    [][\A c \in Callers : ~Exists(c) /\ Exists(c)' =>
           invoice[payment'[c].invoice] = "open"]_vars

\* Settlements lock an invoice and then wait on a unique index, verifications lock a
\* payment and then its invoice, deletions an invoice and then a payment of it.  Calls
\* wait for one another in a ring only where a deletion meets a verification of a
\* payment of that invoice; settlements alone never do.
RingsHaveADeletion ==
    \A S \in SUBSET Callers :
        S # {} /\ (\A c \in S : \E d \in S : WaitsFor(c, d)) =>
            \E c, d \in S : /\ req[c].op = "delete" /\ req[d].op = "review"
                            /\ WaitsFor(c, d) /\ WaitsFor(d, c)

\* ClientOperationsApplicationService.ts:104-106: retries with the same key reuse the
\* original receivedAt, so that a repeated request resolves to its payment.
RetryReturnsOriginal ==
    \A c, d \in Callers :
        Exists(d) /\ req[c] = req[d] => answer[c] # "IDEMPOTENCY_CONFLICT"
=============================================================================
