---------------------- MODULE PaymentSettlement_proofs ----------------------
(***************************************************************************)
(* The safety of PaymentSettlement, for any calls, invoices, amounts and     *)
(* requests, from what a row lock and a unique index promise.                *)
(***************************************************************************)
EXTENDS PaymentSettlement, TLAPS

\* What a call remembers of its request, by the place where it is.
CallOK(c) ==
    /\ pc[c] = "idle" <=> req[c] = NoRequest
    /\ pc[c] \in {"lock", "byKey", "byReference", "insert", "lost", "replay"}
           => req[c].op = "add"
    /\ pc[c] \in {"review", "reviewInvoice"} => req[c].op = "review"
    /\ pc[c] \in {"totals", "commit"} => req[c].op \in {"add", "review"}
    /\ pc[c] = "status" => req[c].op = "status"
    /\ pc[c] \in {"delete", "restrict"} => req[c].op = "delete"
    /\ pc[c] = "restrict" => Exists(pay[c]) /\ payment[pay[c]].invoice = req[c].invoice
    /\ pc[c] # "idle" /\ req[c].op = "add" =>
           cmd[c] \in Row /\ cmd[c].invoice = req[c].invoice /\ cmd[c].amount = req[c].amount
    /\ pc[c] \in {"idle", "lock", "byKey", "byReference", "insert", "lost"} => pay[c] = c
    /\ Exists(c) => pc[c] = "done"
    /\ pc[c] \in {"reviewInvoice", "totals", "commit"} /\ req[c].op = "review"
           => Exists(pay[c])

Calls == \A c \in Callers : CallOK(c)

Basic == TypeOK /\ Calls

\* A committed row keeps its money, its key and its evidence, and stays verified.
SameRow(row, other) ==
    /\ other # NoPayment
    /\ SameDetails(row, other)
    /\ row.key = other.key
    /\ row.ref = other.ref
    /\ row.status = "verified" => other.status = "verified"

Kept == \A d \in Callers : Exists(d) => SameRow(payment[d], payment'[d])

Others(c) ==
    \A d \in Callers \ {c} :
        /\ pc'[d] = pc[d]   /\ req'[d] = req[d]   /\ cmd'[d] = cmd[d]
        /\ pay'[d] = pay[d] /\ seen'[d] = seen[d] /\ answer'[d] = answer[d]

Act(c) == Begin(c) \/ Step(c) \/ Fail(c)

----------------------------------------------------------------------------
LEMMA RequestShape ==
  ASSUME NEW r \in Requests
  PROVE  /\ r # NoRequest
         /\ r.op = "add" => r \in AddRequest
         /\ r.op = "review" => r \in ReviewRequest
         /\ r.op \in {"status", "delete"} => r.invoice \in Invoices
         /\ r.op = "status" => r.status \in Statuses
  BY RequestsAssumption, ValuesAssumption
     DEF AddRequest, ReviewRequest, StatusRequest, DeleteRequest

\* The command of a valid request is a row.
LEMMA CommandIsRow ==
  ASSUME NEW r \in AddRequest, NEW now \in Times
  PROVE  /\ Command(r, now) \in Row
         /\ Command(r, now).invoice = r.invoice
         /\ Command(r, now).amount = r.amount
  BY KeysAssumption DEF AddRequest, Row, Command

\* What a transaction sees are rows.
LEMMA ViewType ==
  ASSUME Basic, NEW c \in Callers, pc[c] # "idle"
  PROVE  View(c) \in [Callers -> Row \cup {NoPayment}]
  <1> SUFFICES ASSUME NEW d \in Callers PROVE View(c)[d] \in Row \cup {NoPayment}
    BY DEF View
  <1>1. CASE d = c /\ Inserting(c)
    BY <1>1 DEF Basic, Calls, CallOK, View, Inserting
  <1>2. CASE ~(d = c /\ Inserting(c)) /\ HoldsPayment(c, d)
    <2>1. Exists(d)
      BY <1>2 DEF Basic, Calls, CallOK, HoldsPayment
    <2>2. payment[d] \in Row
      BY <2>1 DEF Basic, TypeOK, Exists
    <2>3. [payment[d] EXCEPT !.status = "verified"] \in Row
      BY <2>2 DEF Row
    <2> QED BY <1>2, <2>3 DEF View
  <1>3. CASE ~(d = c /\ Inserting(c)) /\ ~HoldsPayment(c, d)
    BY <1>3 DEF Basic, TypeOK, View
  <1> QED BY <1>1, <1>2, <1>3

\* The verified amounts of an invoice are a contribution, and their total a number.
LEMMA VerifiedType ==
  ASSUME NEW rows \in [Callers -> Row \cup {NoPayment}], NEW i \in Invoices
  PROVE  /\ Verified(rows, i) \in Contribution
         /\ Total(Verified(rows, i)) \in Nat
  <1>1. Verified(rows, i) \in Contribution
    BY DEF Verified, Contribution, Row
  <1> QED BY <1>1, TotalAssumption

\* The invoice a call is about is an invoice.
LEMMA InvoiceOfType ==
  ASSUME Basic, NEW c \in Callers,
         pc[c] \in {"lock", "byKey", "byReference", "insert", "lost", "replay",
                    "reviewInvoice", "totals", "commit", "status", "delete", "restrict"}
  PROVE  /\ InvoiceOf(c) \in Invoices
         /\ req[c].op # "review" => req[c].invoice \in Invoices
  <1>1. req[c] \in Requests
    <2>1. req[c] # NoRequest
      BY DEF Basic, Calls, CallOK
    <2> QED BY <2>1 DEF Basic, TypeOK
  <1>2. CASE req[c].op = "review"
    <2>1. Exists(pay[c])
      BY <1>2 DEF Basic, Calls, CallOK
    <2>2. payment[pay[c]] \in Row
      BY <2>1 DEF Basic, TypeOK, Exists
    <2> QED BY <1>2, <2>2 DEF InvoiceOf, Row
  <1>3. CASE req[c].op # "review"
    <2>1. req[c].op \in {"add", "status", "delete"}
      BY <1>3 DEF Basic, Calls, CallOK
    <2>2. req[c].invoice \in Invoices
      BY <1>1, <2>1, RequestShape DEF AddRequest
    <2> QED BY <1>3, <2>2 DEF InvoiceOf
  <1> QED BY <1>2, <1>3

----------------------------------------------------------------------------
(* One step of a call.                                                      *)

\* A transaction's view holds every committed row, with the same money.
LEMMA ViewKeeps ==
  ASSUME Basic, NEW c \in Callers, pc[c] \in {"reviewInvoice", "totals", "commit"}
  PROVE  \A d \in Callers :
             /\ Exists(d) => SameRow(payment[d], View(c)[d])
             /\ ~Exists(d) => View(c)[d] = IF d = c /\ Inserting(c) THEN cmd[c] ELSE NoPayment
  <1> SUFFICES ASSUME NEW d \in Callers
               PROVE  /\ Exists(d) => SameRow(payment[d], View(c)[d])
                      /\ ~Exists(d) => View(c)[d] = IF d = c /\ Inserting(c)
                                                    THEN cmd[c] ELSE NoPayment
    OBVIOUS
  <1>1. CASE Exists(d)
    <2>1. ~(d = c /\ Inserting(c))
      BY <1>1 DEF Basic, Calls, CallOK, Inserting
    <2>2. payment[d] \in Row
      BY <1>1 DEF Basic, TypeOK, Exists
    <2>3. CASE HoldsPayment(c, d)
      <3>1. View(c)[d] = [payment[d] EXCEPT !.status = "verified"]
        BY <2>1, <2>3 DEF View
      <3>2. View(c)[d] \in Row
        BY <2>2, <3>1 DEF Row
      <3> QED BY <1>1, <2>2, <3>1, <3>2, ValuesAssumption DEF SameRow, SameDetails, Row
    <2>4. CASE ~HoldsPayment(c, d)
      BY <1>1, <2>1, <2>4 DEF View, SameRow, SameDetails, Exists
    <2> QED BY <1>1, <2>3, <2>4
  <1>2. CASE ~Exists(d)
    <2>1. ~HoldsPayment(c, d)
      BY <1>2 DEF Basic, Calls, CallOK, HoldsPayment
    <2> QED BY <1>2, <2>1 DEF View, Exists
  <1> QED BY <1>1, <1>2

\* A step of a call keeps the committed rows, commits at most its own, and is the
\* last one of its call when it commits anything.
LEMMA Frame ==
  ASSUME Basic, NEW c \in Callers, Act(c)
  PROVE  /\ Kept
         /\ Others(c)
         /\ \A d \in Callers : ~Exists(d) /\ Exists(d)' => d = c /\ Inserting(c)
         /\ payment' # payment => /\ pc[c] \in {"reviewInvoice", "commit"}
                                  /\ payment' = View(c)
                                  /\ pc'[c] = "done"
  <1>1. CASE UNCHANGED payment
    <2>1. Kept
      BY <1>1 DEF Kept, SameRow, SameDetails, Exists
    <2>2. Others(c)
      BY <1>1 DEF Act, Begin, Step, Fail, AddPayment, ReviewPayment, OpenInvoice, Settle, Verify,
            Finish, Edit, LockInvoice, FindByKey, FindByReference, InsertPayment, ResolveLostRace,
            Replay, LockPayment, LockItsInvoice, ReadTotals, Commit, UpdateInvoiceStatus,
            DeleteInvoice, RefuseDeletion, Resolve, Go, Answer, call, table, Others, Basic, TypeOK
    <2> QED BY <1>1, <2>1, <2>2 DEF Exists
  <1>2. CASE payment' # payment
    <2>1. /\ pc[c] \in {"reviewInvoice", "commit"}
          /\ payment' = View(c)
          /\ \E a \in {"OK", "THROWN", "INVOICE_NOT_FOUND"} : Answer(c, a)
          /\ UNCHANGED call
      BY <1>2 DEF Act, Begin, Step, Fail, AddPayment, ReviewPayment, OpenInvoice, Settle, Verify,
            Finish, Edit, LockInvoice, FindByKey, FindByReference, InsertPayment, ResolveLostRace,
            Replay, LockPayment, LockItsInvoice, ReadTotals, Commit, UpdateInvoiceStatus,
            DeleteInvoice, RefuseDeletion, table
    <2>2. Others(c) /\ pc'[c] = "done"
      BY <2>1 DEF Others, Answer, call, Basic, TypeOK
    <2>3. /\ Kept
          /\ \A d \in Callers : ~Exists(d) /\ Exists(d)' => d = c /\ Inserting(c)
      BY <2>1, ViewKeeps DEF Kept, Exists
    <2> QED BY <2>1, <2>2, <2>3
  <1> QED BY <1>1, <1>2

\* A step leaves what the other calls remember as it was.
LEMMA OtherCalls ==
  ASSUME Basic, NEW c \in Callers, Act(c), NEW d \in Callers, d # c
  PROVE  CallOK(d)'
  <1>1. Kept /\ Others(c) /\ (Exists(d)' => Exists(d))
    BY Frame
  <1>2. /\ pc'[d] = pc[d] /\ req'[d] = req[d] /\ cmd'[d] = cmd[d] /\ pay'[d] = pay[d]
        /\ pay[d] \in Callers
        /\ \A e \in Callers :
             Exists(e) => Exists(e)' /\ payment'[e].invoice = payment[e].invoice
    BY <1>1 DEF Others, Kept, SameRow, SameDetails, Exists, Basic, TypeOK
  <1>3. CallOK(d)
    BY DEF Basic, Calls
  <1> QED BY <1>1, <1>2, <1>3 DEF CallOK

\* The rows stay rows.
LEMMA PaymentType ==
  ASSUME Basic, NEW c \in Callers, Act(c)
  PROVE  payment' \in [Callers -> Row \cup {NoPayment}]
  <1>1. CASE payment' = payment
    BY <1>1 DEF Basic, TypeOK
  <1>2. CASE payment' # payment
    BY <1>2, Frame, ViewType
  <1> QED BY <1>1, <1>2

\* A call goes on or answers.
Moved(c) == \/ \E l \in PCs : Go(c, l)
            \/ \E a \in {"OK", "THROWN"} \cup Failures : Answer(c, a)

LEMMA MovedType ==
  ASSUME TypeOK, NEW c \in Callers, Moved(c)
  PROVE  /\ pc' \in [Callers -> PCs]
         /\ answer' \in [Callers -> {"", "OK", "THROWN"} \cup Failures]
  <1>1. CASE \E l \in PCs : Go(c, l)
    <2>1. PICK l \in PCs : Go(c, l)
      BY <1>1
    <2> QED BY <2>1 DEF TypeOK, Go
  <1>2. CASE \E a \in {"OK", "THROWN"} \cup Failures : Answer(c, a)
    <2>1. PICK a \in {"OK", "THROWN"} \cup Failures : Answer(c, a)
      BY <1>2
    <2>2. pc' \in [Callers -> PCs]
      BY <2>1 DEF TypeOK, Answer, PCs
    <2>3. answer' \in [Callers -> {"", "OK", "THROWN"} \cup Failures]
      BY <2>1 DEF TypeOK, Answer
    <2> QED BY <2>2, <2>3
  <1> QED BY <1>1, <1>2 DEF Moved

LEMMA BasicStep ==
  ASSUME Basic, NEW c \in Callers, Act(c)
  PROVE  Basic'
  <1>1. payment' \in [Callers -> Row \cup {NoPayment}]
    BY PaymentType
  <1>2. CallOK(c) /\ TypeOK
    BY DEF Basic, Calls
  <1>3. /\ Exists(c)' => Exists(c) \/ pc'[c] = "done"
        /\ \A d \in Callers : Exists(d) => Exists(d)'
    BY Frame DEF Exists, Kept, SameRow
  <1>4. TypeOK' /\ CallOK(c)'
    <2>1. CASE AddPayment(c)
      <3>1. PICK r \in Requests, now \in Times :
              /\ r.op = "add"
              /\ req' = [req EXCEPT ![c] = r]
              /\ cmd' = [cmd EXCEPT ![c] = Command(r, now)]
        BY <2>1 DEF AddPayment
      <3>2. /\ r # NoRequest
            /\ Command(r, now) \in Row
            /\ Command(r, now).invoice = r.invoice
            /\ Command(r, now).amount = r.amount
        BY <3>1, RequestShape, CommandIsRow
      <3>3. /\ pc' = [pc EXCEPT ![c] = "done"] \/ pc' = [pc EXCEPT ![c] = "lock"]
            /\ Moved(c)
        BY <2>1 DEF AddPayment, Go, Answer, Moved, PCs, Failures
      <3>4. TypeOK'
        BY <1>2, <2>1, <3>1, <3>2, <3>3, MovedType DEF AddPayment, table, TypeOK
      <3>5. CallOK(c)'
        BY <1>2, <1>3, <2>1, <3>1, <3>2, <3>3 DEF AddPayment, table, TypeOK, CallOK, Exists
      <3> QED BY <3>4, <3>5
    <2>2. CASE LockInvoice(c)
      <3>1. TypeOK'
        BY <1>2, <2>2 DEF LockInvoice, Go, Answer, call, table, TypeOK, PCs, Failures
      <3>2. CallOK(c)'
        BY <1>2, <2>2 DEF LockInvoice, Go, Answer, call, table, TypeOK, CallOK, Exists
      <3> QED BY <3>1, <3>2
    <2>3. CASE FindByKey(c)
      <3>1. Moved(c)
        BY <2>3 DEF FindByKey, Resolve, Moved, PCs, Failures
      <3>2. pay' \in [Callers -> Callers]
        BY <1>2, <2>3 DEF FindByKey, Resolve, TypeOK
      <3>3. TypeOK'
        BY <1>2, <2>3, <3>1, <3>2, MovedType DEF FindByKey, call, table, TypeOK
      <3>4. CallOK(c)'
        BY <1>2, <2>3 DEF FindByKey, Resolve, Go, Answer, call, table, TypeOK, CallOK, Exists
      <3> QED BY <3>3, <3>4
    <2>4. CASE FindByReference(c)
      <3>1. Moved(c)
        BY <2>4 DEF FindByReference, Moved, PCs, Failures
      <3>2. TypeOK'
        BY <1>2, <2>4, <3>1, MovedType DEF FindByReference, call, table, TypeOK
      <3>3. CallOK(c)'
        BY <1>2, <2>4 DEF FindByReference, Go, Answer, call, table, TypeOK, CallOK, Exists
      <3> QED BY <3>2, <3>3
    <2>5. CASE InsertPayment(c)
      <3>1. Moved(c)
        BY <2>5 DEF InsertPayment, Moved, PCs, Failures
      <3>2. TypeOK'
        BY <1>2, <2>5, <3>1, MovedType DEF InsertPayment, call, table, TypeOK
      <3>3. CallOK(c)'
        BY <1>2, <2>5 DEF InsertPayment, Go, Answer, call, table, TypeOK, CallOK, Exists
      <3> QED BY <3>2, <3>3
    <2>6. CASE ResolveLostRace(c)
      <3>1. Moved(c)
        BY <2>6 DEF ResolveLostRace, Resolve, Moved, PCs, Failures
      <3>2. pay' \in [Callers -> Callers]
        BY <1>2, <2>6 DEF ResolveLostRace, Resolve, TypeOK
      <3>3. TypeOK'
        BY <1>2, <2>6, <3>1, <3>2, MovedType DEF ResolveLostRace, call, table, TypeOK
      <3>4. CallOK(c)'
        BY <1>2, <2>6 DEF ResolveLostRace, Resolve, Go, Answer, call, table, TypeOK, CallOK, Exists
      <3> QED BY <3>3, <3>4
    <2>7. CASE Replay(c)
      <3>1. TypeOK'
        BY <1>2, <2>7 DEF Replay, Go, Answer, call, table, TypeOK, PCs, Failures
      <3>2. CallOK(c)'
        BY <1>2, <2>7 DEF Replay, Go, Answer, call, table, TypeOK, CallOK, Exists
      <3> QED BY <3>1, <3>2
    <2>8. CASE ReviewPayment(c)
      <3>1. PICK r \in Requests : /\ r.op = "review"
                                 /\ req' = [req EXCEPT ![c] = r]
                                 /\ pay' = [pay EXCEPT ![c] = r.payment]
        BY <2>8 DEF ReviewPayment
      <3>2. r # NoRequest /\ r.payment \in Callers
        BY <3>1, RequestShape DEF ReviewRequest
      <3>3. TypeOK'
        BY <1>2, <2>8, <3>1, <3>2 DEF ReviewPayment, Go, table, TypeOK, PCs
      <3>4. CallOK(c)'
        BY <1>2, <2>8, <3>1, <3>2 DEF ReviewPayment, Go, table, TypeOK, CallOK, Exists
      <3> QED BY <3>3, <3>4
    <2>9. CASE LockPayment(c)
      <3>1. TypeOK'
        BY <1>2, <2>9 DEF LockPayment, Go, Answer, call, table, TypeOK, PCs, Failures
      <3>2. CallOK(c)'
        BY <1>2, <2>9 DEF LockPayment, Go, Answer, call, table, TypeOK, CallOK, Exists
      <3> QED BY <3>1, <3>2
    <2>10. CASE LockItsInvoice(c)
      <3>1. /\ answer' \in [Callers -> {"", "OK", "THROWN"} \cup Failures]
            /\ pc' = [pc EXCEPT ![c] = "done"] \/ pc' = [pc EXCEPT ![c] = "totals"]
        BY <1>2, <2>10 DEF LockItsInvoice, Go, Answer, TypeOK, Failures
      <3>2. TypeOK'
        BY <1>1, <1>2, <2>10, <3>1 DEF LockItsInvoice, call, TypeOK, PCs
      <3>3. /\ pay[c] \in Callers /\ Exists(pay[c])
            /\ pc[c] = "reviewInvoice" /\ UNCHANGED <<req, cmd, pay>>
        BY <1>2, <2>10 DEF LockItsInvoice, call, TypeOK, CallOK
      <3>4. CallOK(c)'
        BY <1>2, <1>3, <3>1, <3>3 DEF TypeOK, CallOK, Exists
      <3> QED BY <3>2, <3>4
    <2>11. CASE ReadTotals(c)
      <3>1. VerifiedTotal(c) \in Nat
        BY <2>11, ViewType, VerifiedType, InvoiceOfType DEF ReadTotals, VerifiedTotal
      <3>2. TypeOK'
        BY <1>2, <2>11, <3>1 DEF ReadTotals, Go, table, TypeOK, PCs
      <3>3. CallOK(c)'
        BY <1>2, <2>11 DEF ReadTotals, Go, table, TypeOK, CallOK, Exists
      <3> QED BY <3>2, <3>3
    <2>12. CASE Commit(c)
      <3>1. InvoiceOf(c) \in Invoices
        BY <2>12, InvoiceOfType DEF Commit
      <3>2. /\ invoice' \in [Invoices -> Statuses \cup {"none"}]
            /\ byOperator' \in [Invoices -> BOOLEAN]
        BY <1>2, <2>12, <3>1 DEF Commit, TypeOK, Statuses
      <3>3. PICK a \in {"OK", "THROWN"} : Answer(c, a)
        BY <2>12 DEF Commit
      <3>4. TypeOK'
        BY <1>1, <1>2, <2>12, <3>2, <3>3 DEF Commit, Answer, call, TypeOK, PCs
      <3>5. CallOK(c)'
        BY <1>2, <1>3, <2>12, <3>3 DEF Commit, Answer, call, TypeOK, CallOK, Exists
      <3> QED BY <3>4, <3>5
    <2>13. CASE Fail(c)
      <3>1. TypeOK'
        BY <1>2, <2>13 DEF Fail, Go, Answer, call, table, TypeOK, PCs, Failures
      <3>2. CallOK(c)'
        BY <1>2, <2>13 DEF Fail, Go, Answer, call, table, TypeOK, CallOK, Exists
      <3> QED BY <3>1, <3>2
    <2>14. CASE OpenInvoice(c)
      <3>1. PICK r \in Requests : /\ r.op \in {"status", "delete"}
                                 /\ req' = [req EXCEPT ![c] = r]
                                 /\ \/ pc' = [pc EXCEPT ![c] = "done"]
                                    \/ pc' = [pc EXCEPT ![c] = r.op]
        BY <2>14 DEF OpenInvoice, Go, Answer
      <3>2. r # NoRequest
        BY RequestShape
      <3>3. Moved(c)
        BY <2>14 DEF OpenInvoice, Moved, PCs, Failures
      <3>4. TypeOK'
        BY <1>2, <2>14, <3>1, <3>3, MovedType DEF OpenInvoice, table, TypeOK
      <3>5. CallOK(c)'
        BY <1>2, <2>14, <3>1, <3>2 DEF OpenInvoice, table, TypeOK, CallOK, Exists
      <3> QED BY <3>4, <3>5
    <2>15. CASE UpdateInvoiceStatus(c)
      <3>1. req[c].invoice \in Invoices /\ req[c].status \in Statuses
        BY <1>2, <2>15, RequestShape DEF UpdateInvoiceStatus, CallOK, TypeOK
      <3>2. TypeOK'
        BY <1>2, <2>15, <3>1 DEF UpdateInvoiceStatus, Answer, call, TypeOK, PCs
      <3>3. CallOK(c)'
        BY <1>2, <2>15 DEF UpdateInvoiceStatus, Answer, call, TypeOK, CallOK, Exists
      <3> QED BY <3>2, <3>3
    <2>16. CASE DeleteInvoice(c)
      <3>1. Moved(c)
        BY <2>16 DEF DeleteInvoice, Moved, PCs
      <3>2. pay' \in [Callers -> Callers] /\ invoice' \in [Invoices -> Statuses \cup {"none"}]
        <4>1. CASE UNCHANGED pay
          BY <1>2, <2>16, <4>1 DEF DeleteInvoice, TypeOK
        <4>2. ASSUME NEW d \in Callers, pay' = [pay EXCEPT ![c] = d], UNCHANGED invoice
              PROVE  /\ pay' \in [Callers -> Callers]
                     /\ invoice' \in [Invoices -> Statuses \cup {"none"}]
          BY <1>2, <4>2 DEF TypeOK
        <4> QED BY <2>16, <4>1, <4>2 DEF DeleteInvoice
      <3>3. TypeOK'
        BY <1>2, <2>16, <3>1, <3>2, MovedType DEF DeleteInvoice, TypeOK
      <3>4. CallOK(c)'
        BY <1>2, <2>16 DEF DeleteInvoice, Go, Answer, TypeOK, CallOK, Exists
      <3> QED BY <3>3, <3>4
    <2>17. CASE RefuseDeletion(c)
      <3>1. TypeOK'
        BY <1>2, <2>17 DEF RefuseDeletion, Answer, call, table, TypeOK, PCs
      <3>2. CallOK(c)'
        BY <1>2, <2>17 DEF RefuseDeletion, Answer, call, table, TypeOK, CallOK, Exists
      <3> QED BY <3>1, <3>2
    <2> QED BY <2>1, <2>2, <2>3, <2>4, <2>5, <2>6, <2>7, <2>8, <2>9, <2>10, <2>11, <2>12,
               <2>13, <2>14, <2>15, <2>16, <2>17 DEF Act, Begin, Step, Settle, Verify, Finish, Edit
  <1>5. \A d \in Callers : CallOK(d)'
    BY <1>4, OtherCalls
  <1> QED BY <1>4, <1>5 DEF Basic, Calls

LEMMA InitBasic == Init => Basic
  <1> SUFFICES ASSUME Init PROVE Basic
    OBVIOUS
  <1>1. TypeOK
    BY DEF Init, TypeOK, Statuses, PCs
  <1>2. Calls
    BY DEF Init, Calls, CallOK, Exists
  <1> QED BY <1>1, <1>2 DEF Basic

\* Every variable always holds a value of its type.
THEOREM TypeCorrect == Spec => []TypeOK
  <1>1. Init => Basic
    BY InitBasic
  <1>2. Basic /\ [Next]_vars => Basic'
    <2> SUFFICES ASSUME Basic, [Next]_vars PROVE Basic'
      OBVIOUS
    <2>1. CASE \E c \in Callers : Act(c)
      BY <2>1, BasicStep
    <2>2. CASE UNCHANGED vars
      BY <2>2 DEF vars, table, call, Basic, TypeOK, Calls, CallOK, Exists
    <2> QED BY <2>1, <2>2 DEF Next, Act
  <1>3. Basic => TypeOK
    BY DEF Basic
  <1> QED BY <1>1, <1>2, <1>3, PTL DEF Spec

----------------------------------------------------------------------------
(* Unique indexes: rows that are committed or about to be never clash.      *)

Entered(c) == Exists(c) \/ Inserting(c)

RowOf(c) == IF Exists(c) THEN payment[c] ELSE cmd[c]

Unclashed ==
    \A c, d \in Callers : c # d /\ Entered(c) /\ Entered(d) => ~Clash(RowOf(c), RowOf(d))

\* A row that is entered keeps its key and its evidence through the steps of others.
LEMMA OtherEntries ==
  ASSUME Basic, NEW c \in Callers, Act(c), NEW d \in Callers, d # c
  PROVE  /\ Entered(d)' => Entered(d)
         /\ Entered(d) => RowOf(d).key = RowOf(d)'.key /\ RowOf(d).ref = RowOf(d)'.ref
  <1>1. Kept /\ Others(c) /\ (Exists(d)' => Exists(d))
    BY Frame
  <1>2. pc'[d] = pc[d] /\ req'[d] = req[d] /\ cmd'[d] = cmd[d] /\ pay'[d] = pay[d]
    BY <1>1 DEF Others
  <1>3. Exists(d) => Exists(d)' /\ SameRow(payment[d], payment'[d])
    BY <1>1 DEF Kept, SameRow, Exists
  <1> QED BY <1>1, <1>2, <1>3 DEF Entered, RowOf, Inserting, SameRow

\* A call enters its row by inserting it, and commits the row it entered.
LEMMA OwnEntry ==
  ASSUME Basic, NEW c \in Callers, Act(c), Entered(c)'
  PROVE  \/ /\ Entered(c)
            /\ RowOf(c).key = RowOf(c)'.key /\ RowOf(c).ref = RowOf(c)'.ref
         \/ /\ InsertPayment(c)
            /\ pc'[c] = "totals"
            /\ RowOf(c)' = cmd[c]
            /\ UNCHANGED <<payment, cmd>>
  <1>1. CallOK(c) /\ TypeOK
    BY DEF Basic, Calls
  <1>2. CASE Exists(c)'
    <2>1. CASE Exists(c)
      <3>1. SameRow(payment[c], payment'[c])
        BY <2>1, Frame DEF Kept
      <3> QED BY <1>2, <2>1, <3>1 DEF Entered, RowOf, SameRow
    <2>2. CASE ~Exists(c)
      <3>1. Inserting(c) /\ payment' = View(c)
        BY <1>2, <2>2, Frame DEF Exists
      <3>2. payment'[c] = cmd[c]
        BY <3>1 DEF View
      <3> QED BY <1>2, <2>2, <3>1, <3>2 DEF Entered, RowOf
    <2> QED BY <2>1, <2>2
  <1>3. CASE ~Exists(c)'
    <2>1. Inserting(c)' /\ ~Exists(c)
      BY <1>3, Frame DEF Entered, Kept, SameRow, Exists
    <2>2. pc'[c] \in {"totals", "commit"} /\ req'[c].op = "add" /\ pay'[c] = c
      BY <2>1 DEF Inserting
    <2>3. FindByKey(c) \/ InsertPayment(c) \/ ReadTotals(c) \/ LockItsInvoice(c)
      BY <1>1, <2>2 DEF Act, Begin, Step, Fail, AddPayment, ReviewPayment, OpenInvoice, Settle,
            Verify, Finish, Edit, LockInvoice, FindByReference, ResolveLostRace, Replay,
            LockPayment, Commit, UpdateInvoiceStatus, DeleteInvoice, RefuseDeletion, Resolve, Go,
            Answer, TypeOK
    <2>4. ~FindByKey(c)
      <3> SUFFICES ASSUME FindByKey(c) PROVE FALSE
        OBVIOUS
      <3>1. PICK d \in Callers : HasKey(d, cmd[c].key) /\ pay' = [pay EXCEPT ![c] = d]
        BY <1>1, <2>2 DEF FindByKey, Resolve, Go, Answer, TypeOK
      <3> QED BY <1>1, <2>1, <2>2, <3>1 DEF HasKey, TypeOK
    <2>5. ~LockItsInvoice(c)
      BY <1>1, <2>2 DEF LockItsInvoice, call, CallOK
    <2>6. CASE InsertPayment(c)
      BY <1>1, <1>3, <2>1, <2>2, <2>6
         DEF InsertPayment, Go, call, table, RowOf, TypeOK
    <2>7. CASE ReadTotals(c)
      BY <1>1, <1>3, <2>1, <2>2, <2>7
         DEF ReadTotals, table, RowOf, Entered, Inserting, Exists
    <2> QED BY <2>3, <2>4, <2>5, <2>6, <2>7
  <1> QED BY <1>2, <1>3

LEMMA UnclashedStep ==
  ASSUME Basic, Unclashed, NEW c \in Callers, Act(c)
  PROVE  Unclashed'
  <1>1. ASSUME NEW d \in Callers, d # c, Entered(c)', Entered(d)'
        PROVE  ~Clash(RowOf(c), RowOf(d))'
    <2>1. Entered(d) /\ RowOf(d).key = RowOf(d)'.key /\ RowOf(d).ref = RowOf(d)'.ref
      BY <1>1, OtherEntries
    <2>2. CASE Entered(c) /\ RowOf(c).key = RowOf(c)'.key /\ RowOf(c).ref = RowOf(c)'.ref
      BY <1>1, <2>1, <2>2 DEF Unclashed, Clash
    <2>3. CASE InsertPayment(c) /\ pc'[c] = "totals" /\ RowOf(c)' = cmd[c]
      <3>1. Free(c) /\ ~Refused(c) /\ pc[c] = "insert"
        BY <2>3 DEF InsertPayment, Go, Basic, TypeOK
      <3>2. ~Clash(RowOf(d), cmd[c])
        BY <1>1, <2>1, <3>1 DEF Free, WaitsFor, Refused, Entered, RowOf
      <3> QED BY <2>1, <2>3, <3>2 DEF Clash
    <2> QED BY <1>1, <2>2, <2>3, OwnEntry
  <1>2. ASSUME NEW d \in Callers, NEW e \in Callers, d # e, d # c, e # c,
               Entered(d)', Entered(e)'
        PROVE  ~Clash(RowOf(d), RowOf(e))'
    BY <1>2, OtherEntries DEF Unclashed, Clash
  <1> QED BY <1>1, <1>2 DEF Unclashed, Clash

----------------------------------------------------------------------------
(* What a call is told is on record.                                        *)

Resolved(c) == HasKey(pay[c], cmd[c].key) /\ SameDetails(payment[pay[c]], cmd[c])

ToldOK(c) ==
    /\ pc[c] # "done" => answer[c] = ""
    /\ req[c] # NoRequest /\ req[c].op = "add" =>
         /\ pc[c] \in {"totals", "commit"} => Inserting(c) \/ Resolved(c)
         /\ pc[c] = "replay" \/ answer[c] = "OK" => Resolved(c)

Told == \A c \in Callers : ToldOK(c)

\* A call that resolves to a committed payment keeps resolving to it.
LEMMA StaysResolved ==
  ASSUME Basic, NEW c \in Callers, Kept, NEW d \in Callers, Resolved(d),
         pay'[d] = pay[d], cmd'[d] = cmd[d]
  PROVE  Resolved(d)'
  <1>1. pay[d] \in Callers /\ Exists(pay[d])
    BY DEF Basic, TypeOK, Resolved, HasKey
  <1>2. SameRow(payment[pay[d]], payment'[pay[d]])
    BY <1>1 DEF Kept
  <1> QED BY <1>1, <1>2 DEF Resolved, HasKey, SameRow, SameDetails, Exists

\* A statement of c finds the payment of its key.
Resolves(c) ==
    /\ pc[c] \in {"byKey", "lost"}
    /\ \E d \in Callers :
         /\ HasKey(d, cmd[c].key)
         /\ SameDetails(payment[d], cmd[c])
         /\ pay' = [pay EXCEPT ![c] = d]
    /\ Go(c, "totals") \/ Go(c, "replay")
    /\ UNCHANGED <<payment, req, cmd>>

LEMMA ToldStep ==
  ASSUME Basic, Told, NEW c \in Callers, Act(c)
  PROVE  Told'
  <1>1. Kept /\ Others(c)
    BY Frame
  <1>2. CallOK(c) /\ TypeOK /\ ToldOK(c)
    BY DEF Basic, Calls, Told
  <1>3. ASSUME NEW d \in Callers, d # c
        PROVE  ToldOK(d)'
    <2>1. /\ pc'[d] = pc[d] /\ req'[d] = req[d] /\ cmd'[d] = cmd[d] /\ pay'[d] = pay[d]
          /\ answer'[d] = answer[d]
      BY <1>1, <1>3 DEF Others
    <2>2. Resolved(d) => Resolved(d)'
      BY <1>1, <2>1, StaysResolved
    <2>3. ToldOK(d)
      BY DEF Told
    <2> QED BY <2>1, <2>2, <2>3 DEF ToldOK, Inserting
  <1>4. ToldOK(c)'
    <2>1. CASE UNCHANGED <<req, cmd, pay>> /\ pc[c] # "idle" /\ ~Resolves(c)
      <3>1. Resolved(c) => Resolved(c)'
        BY <1>1, <2>1, StaysResolved
      <3>2. CASE Commit(c)
        <4>1. pc[c] = "commit" /\ pc'[c] = "done"
          BY <1>2, <3>2 DEF Commit, Answer, TypeOK
        <4>2. CASE Inserting(c) /\ req[c].op = "add"
          <5>1. payment'[c] = cmd[c] /\ cmd[c] \in Row /\ pay[c] = c
            BY <1>2, <3>2, <4>1, <4>2 DEF Commit, View, Inserting, CallOK
          <5>2. Resolved(c)'
            BY <2>1, <5>1, ValuesAssumption DEF Resolved, HasKey, SameDetails, Exists
          <5> QED BY <2>1, <4>1, <5>2 DEF ToldOK
        <4>3. CASE ~Inserting(c) \/ req[c].op # "add"
          BY <1>2, <2>1, <3>1, <4>1, <4>3 DEF ToldOK, CallOK
        <4> QED BY <4>2, <4>3
      <3>3. CASE InsertPayment(c)
        BY <1>2, <2>1, <3>3 DEF InsertPayment, Go, ToldOK, CallOK, Inserting, TypeOK
      <3>4. CASE ReadTotals(c)
        BY <1>2, <2>1, <3>1, <3>4 DEF ReadTotals, Go, ToldOK, Inserting, TypeOK
      <3>5. CASE Replay(c)
        BY <1>2, <2>1, <3>1, <3>5 DEF Replay, Answer, ToldOK, TypeOK
      <3>6. CASE LockInvoice(c) \/ FindByReference(c) \/ Fail(c) \/ LockPayment(c)
        BY <1>2, <2>1, <3>6 DEF LockInvoice, FindByReference, Fail, LockPayment, Go, Answer,
              ToldOK, TypeOK
      <3>7. CASE LockItsInvoice(c) \/ Edit(c)
        BY <1>2, <2>1, <3>7 DEF LockItsInvoice, Edit, UpdateInvoiceStatus, DeleteInvoice,
              RefuseDeletion, Go, Answer, ToldOK, CallOK, TypeOK
      <3>8. CASE (FindByKey(c) \/ ResolveLostRace(c)) /\ ~Resolves(c)
        BY <1>2, <2>1, <3>8 DEF FindByKey, ResolveLostRace, Resolve, Resolves, Go, Answer,
              table, ToldOK, TypeOK
      <3> QED BY <2>1, <3>2, <3>3, <3>4, <3>5, <3>6, <3>7, <3>8
              DEF Act, Begin, Step, Settle, Verify, Finish, AddPayment, ReviewPayment, OpenInvoice
    <2>2. CASE Resolves(c)
      <3>1. PICK d \in Callers : /\ HasKey(d, cmd[c].key)
                                 /\ SameDetails(payment[d], cmd[c])
                                 /\ pay' = [pay EXCEPT ![c] = d]
        BY <2>2 DEF Resolves
      <3>2. Resolved(c)'
        BY <1>2, <2>2, <3>1 DEF Resolves, Resolved, HasKey, SameDetails, Exists, TypeOK
      <3> QED BY <1>2, <2>2, <3>2 DEF Resolves, Go, ToldOK, TypeOK
    <2>3. ~Resolves(c) /\ pc[c] # "idle" => DeleteInvoice(c) \/ UNCHANGED <<req, cmd, pay>>
      BY DEF Act, Begin, Step, Fail, AddPayment, ReviewPayment, OpenInvoice, Settle, Verify,
              Finish, Edit, LockInvoice, FindByKey, FindByReference, InsertPayment, Replay,
              ResolveLostRace, LockPayment, LockItsInvoice, ReadTotals, Commit,
              UpdateInvoiceStatus, RefuseDeletion, Resolve, Resolves, call, table
    <2>4. CASE pc[c] = "idle"
      BY <1>2, <2>4 DEF Act, Begin, Step, Fail, AddPayment, ReviewPayment, OpenInvoice, Settle,
            Verify, Finish, Edit, LockInvoice, FindByKey, FindByReference, InsertPayment, Replay,
            ResolveLostRace, LockPayment, LockItsInvoice, ReadTotals, Commit,
            UpdateInvoiceStatus, DeleteInvoice, RefuseDeletion, Go, Answer, Failures, ToldOK,
            TypeOK
    <2>5. CASE DeleteInvoice(c)
      BY <1>2, <2>5 DEF DeleteInvoice, Go, Answer, CallOK, ToldOK, TypeOK
    <2> QED BY <2>1, <2>2, <2>3, <2>4, <2>5
  <1> QED BY <1>3, <1>4 DEF Told

----------------------------------------------------------------------------
(* Row locks: one transaction at a time holds an invoice, which stays.      *)

Unlocked(i) == \A c \in Callers : ~HoldsInvoice(c, i)

\* A call that waits for nobody finds the invoice it needs unlocked.
LEMMA FreeInvoice ==
  ASSUME NEW c \in Callers, Free(c), NEW i \in Invoices, NeedsInvoice(c, i)
  PROVE  Unlocked(i)
  BY DEF Free, WaitsFor, NeedsInvoice, HoldsInvoice, Unlocked

Exclusive ==
    /\ \A c, d \in Callers, i \in Invoices : HoldsInvoice(c, i) /\ HoldsInvoice(d, i) => c = d
    /\ \A c \in Callers, i \in Invoices : HoldsInvoice(c, i) => invoice[i] # "none"

\* No step changes what another call holds.
LEMMA OtherLocks ==
  ASSUME Basic, NEW c \in Callers, Act(c), NEW d \in Callers, d # c, NEW i \in Invoices
  PROVE  HoldsInvoice(d, i)' <=> HoldsInvoice(d, i)
  <1>1. pc'[d] = pc[d] /\ req'[d] = req[d] /\ pay'[d] = pay[d] /\ Kept
    BY Frame DEF Others
  <1>2. pc[d] \in {"totals", "commit"} /\ req[d].op = "review"
          => payment'[pay[d]].invoice = payment[pay[d]].invoice
    BY <1>1 DEF Basic, Calls, CallOK, TypeOK, Kept, SameRow, SameDetails
  <1>3. /\ pc[d] \in {"byKey", "byReference", "insert"} => req[d].op = "add"
        /\ pc[d] = "restrict" => req[d].op = "delete"
    BY DEF Basic, Calls, CallOK
  <1> QED BY <1>1, <1>2, <1>3 DEF HoldsInvoice, InvoiceOf

\* A call takes the lock of an invoice that exists and that nobody holds.
LEMMA OwnLocks ==
  ASSUME Basic, NEW c \in Callers, Act(c), NEW i \in Invoices, HoldsInvoice(c, i)'
  PROVE  HoldsInvoice(c, i) \/ (Unlocked(i) /\ invoice[i] # "none" /\ UNCHANGED table)
  <1>1. CallOK(c) /\ TypeOK /\ pc'[c] # "done"
    BY DEF Basic, Calls, HoldsInvoice
  <1>2. UNCHANGED payment
    BY <1>1, Frame
  <1>3. \/ LockInvoice(c) \/ FindByKey(c) \/ FindByReference(c) \/ InsertPayment(c)
        \/ LockItsInvoice(c) \/ ReadTotals(c) \/ DeleteInvoice(c)
    BY <1>1, RequestShape DEF Act, Begin, Step, Fail, AddPayment, ReviewPayment, OpenInvoice,
          Settle, Verify, Finish, Edit, ResolveLostRace, Replay, LockPayment, Commit,
          UpdateInvoiceStatus, RefuseDeletion, Resolve, Go, Answer, HoldsInvoice, TypeOK
  <1>4. CASE LockInvoice(c)
    <2>1. UNCHANGED table /\ pc[c] = "lock" /\ req[c].op = "add" /\ InvoiceOf(c) = i
      BY <1>1, <1>4 DEF LockInvoice, call, CallOK, HoldsInvoice, InvoiceOf
    <2>2. Unlocked(i)
      BY <1>4, <2>1, FreeInvoice DEF LockInvoice, NeedsInvoice
    <2> QED BY <1>1, <1>4, <2>1, <2>2 DEF LockInvoice, Answer, InvoiceOf, TypeOK
  <1>5. CASE LockItsInvoice(c)
    <2>1. UNCHANGED call /\ pc[c] = "reviewInvoice" /\ InvoiceOf(c) = i
      BY <1>2, <1>5 DEF LockItsInvoice, call, HoldsInvoice, InvoiceOf
    <2>2. Unlocked(i)
      BY <1>5, <2>1, FreeInvoice DEF LockItsInvoice, NeedsInvoice
    <2> QED BY <1>1, <1>2, <1>5, <2>1, <2>2 DEF LockItsInvoice, Answer, table, TypeOK
  <1>6. CASE FindByKey(c) \/ FindByReference(c) \/ InsertPayment(c) \/ ReadTotals(c)
    <2>1. /\ pc[c] \in {"byKey", "byReference", "insert", "totals"}
          /\ UNCHANGED req
          /\ req[c].op = "review" => UNCHANGED pay
      BY <1>1, <1>6 DEF FindByKey, FindByReference, InsertPayment, ReadTotals, call, CallOK
    <2> QED BY <1>2, <2>1 DEF HoldsInvoice, InvoiceOf
  <1>7. CASE DeleteInvoice(c)
    <2>1. pc[c] = "delete" /\ req[c].op = "delete" /\ UNCHANGED req
      BY <1>1, <1>7 DEF DeleteInvoice, CallOK
    <2>2. InvoiceOf(c) = i /\ req[c].invoice = i
      BY <2>1 DEF HoldsInvoice, InvoiceOf
    <2>3. Unlocked(i)
      BY <1>7, <2>1, <2>2, FreeInvoice DEF DeleteInvoice, NeedsInvoice
    <2> QED BY <1>1, <1>7, <2>2, <2>3 DEF DeleteInvoice, Answer, table, TypeOK
  <1> QED BY <1>3, <1>4, <1>5, <1>6, <1>7

\* An invoice is changed by the settlement that holds it, or by an operator while
\* nobody does; a settlement marks it paid, an operator deletes it without payments.
LEMMA InvoiceChanges ==
  ASSUME Basic, NEW c \in Callers, Act(c), NEW i \in Invoices,
         invoice'[i] # invoice[i] \/ byOperator'[i] # byOperator[i]
  PROVE  \/ /\ Commit(c) /\ i = InvoiceOf(c) /\ HoldsInvoice(c, i)
            /\ invoice'[i] = "paid" /\ seen[c] >= Amount[i]
            /\ ~byOperator'[i]
         \/ /\ Unlocked(i) /\ UNCHANGED payment
            /\ invoice'[i] = "none" \/ byOperator'[i]
            /\ invoice'[i] = "none" => \A d \in Callers : Exists(d) => payment[d].invoice # i
  <1>1. TypeOK /\ CallOK(c)
    BY DEF Basic, Calls
  <1>2. Commit(c) \/ UpdateInvoiceStatus(c) \/ DeleteInvoice(c)
    BY DEF Act, Begin, Step, Fail, AddPayment, ReviewPayment, OpenInvoice, Settle, Verify,
          Finish, Edit, LockInvoice, FindByKey, FindByReference, InsertPayment, ResolveLostRace,
          Replay, LockPayment, LockItsInvoice, ReadTotals, RefuseDeletion, call, table
  <1>3. CASE Commit(c)
    BY <1>1, <1>3 DEF Commit, TypeOK, HoldsInvoice
  <1>4. CASE UpdateInvoiceStatus(c)
    <2>1. pc[c] = "status" /\ req[c].invoice = i /\ InvoiceOf(c) = i
      BY <1>1, <1>4 DEF UpdateInvoiceStatus, CallOK, InvoiceOf, TypeOK
    <2>2. Unlocked(i)
      BY <1>4, <2>1, FreeInvoice DEF UpdateInvoiceStatus, NeedsInvoice
    <2>3. req[c].status # "none"
      BY <1>1, <2>1, RequestShape DEF CallOK, TypeOK, Statuses
    <2> QED BY <1>1, <1>4, <2>1, <2>2, <2>3 DEF UpdateInvoiceStatus, TypeOK
  <1>5. CASE DeleteInvoice(c)
    <2>1. pc[c] = "delete" /\ req[c].invoice = i /\ InvoiceOf(c) = i
      BY <1>1, <1>5 DEF DeleteInvoice, CallOK, InvoiceOf, TypeOK
    <2>2. Unlocked(i)
      BY <1>5, <2>1, FreeInvoice DEF DeleteInvoice, NeedsInvoice
    <2> QED BY <1>1, <1>5, <2>1, <2>2 DEF DeleteInvoice, TypeOK
  <1> QED BY <1>2, <1>3, <1>4, <1>5

LEMMA ExclusiveStep ==
  ASSUME Basic, Exclusive, NEW c \in Callers, Act(c)
  PROVE  Exclusive'
  <1>1. ASSUME NEW d \in Callers, NEW e \in Callers, NEW i \in Invoices,
               HoldsInvoice(d, i)', HoldsInvoice(e, i)'
        PROVE  d = e
    <2>1. CASE d # c /\ e # c
      BY <1>1, <2>1, OtherLocks DEF Exclusive
    <2>2. CASE d = c /\ e # c
      BY <1>1, <2>2, OtherLocks, OwnLocks DEF Exclusive, Unlocked
    <2>3. CASE d # c /\ e = c
      BY <1>1, <2>3, OtherLocks, OwnLocks DEF Exclusive, Unlocked
    <2> QED BY <2>1, <2>2, <2>3
  <1>2. ASSUME NEW d \in Callers, NEW i \in Invoices, HoldsInvoice(d, i)'
        PROVE  invoice'[i] # "none"
    <2>1. CASE invoice'[i] = invoice[i]
      BY <1>2, <2>1, OtherLocks, OwnLocks DEF Exclusive
    <2>2. CASE invoice'[i] # invoice[i]
      <3>1. CASE Unlocked(i)
        <4>1. d = c /\ UNCHANGED table
          BY <1>2, <3>1, OtherLocks, OwnLocks DEF Unlocked
        <4> QED BY <2>2, <4>1 DEF table
      <3>2. CASE ~Unlocked(i)
        BY <2>2, <3>2, InvoiceChanges
      <3> QED BY <3>1, <3>2
    <2> QED BY <2>1, <2>2
  <1> QED BY <1>1, <1>2 DEF Exclusive

----------------------------------------------------------------------------
(* The foreign key.                                                         *)

Attached == \A c \in Callers : Exists(c) => invoice[payment[c].invoice] # "none"

LEMMA AttachedStep ==
  ASSUME Basic, Exclusive, Attached, NEW c \in Callers, Act(c)
  PROVE  Attached'
  <1> SUFFICES ASSUME NEW d \in Callers, Exists(d)'
               PROVE  invoice'[payment'[d].invoice] # "none"
    BY DEF Attached
  <1> DEFINE i == payment'[d].invoice
  <1>1. i \in Invoices
    BY PaymentType DEF Exists, Row
  <1>2. CASE Exists(d)
    <2>1. i = payment[d].invoice
      BY <1>2, Frame DEF Kept, SameRow, SameDetails
    <2> QED BY <1>1, <1>2, <2>1, InvoiceChanges DEF Attached
  <1>3. CASE ~Exists(d)
    <2>1. d = c /\ Inserting(c) /\ payment' = View(c) /\ CallOK(c)
      BY <1>3, Frame DEF Exists, Basic, Calls
    <2>2. i = req[c].invoice /\ req[c].op = "add" /\ pc[c] \in {"totals", "commit"}
      BY <2>1 DEF View, Inserting, CallOK
    <2>3. HoldsInvoice(c, i)
      BY <2>2 DEF HoldsInvoice, InvoiceOf
    <2> QED BY <1>1, <2>3, InvoiceChanges DEF Exclusive, Unlocked
  <1> QED BY <1>2, <1>3

----------------------------------------------------------------------------
(* Rings of waiting calls.                                                  *)

\* A call that is waited for and waits has an invoice and wants an index or a payment,
\* or has a payment and wants its invoice; who waits on an index waits for no such call.
LEMMA WaitedFor ==
  ASSUME NEW c \in Callers, NEW d \in Callers, NEW e \in Callers,
         WaitsFor(c, d), WaitsFor(d, e)
  PROVE  pc[d] \in {"insert", "restrict", "reviewInvoice"} /\ pc[c] # "insert"
  BY DEF WaitsFor, NeedsInvoice, NeedsPayment, HoldsInvoice, HoldsPayment, Inserting

\* A deletion that waits for a call that waits is what that call waits for.
LEMMA DeletionMeetsReview ==
  ASSUME Basic, Exclusive, NEW c \in Callers, NEW d \in Callers, NEW e \in Callers,
         pc[c] = "restrict", WaitsFor(c, d), WaitsFor(d, e)
  PROVE  e = c /\ req[c].op = "delete" /\ req[d].op = "review"
  <1>1. CallOK(c) /\ CallOK(d)
    BY DEF Basic, Calls
  <1>2. pc[d] = "reviewInvoice" /\ pay[d] = pay[c] /\ req[d].op = "review"
    BY WaitedFor DEF WaitsFor, NeedsInvoice, NeedsPayment, HoldsPayment
  <1>3. req[c].op = "delete" /\ payment[pay[c]].invoice = req[c].invoice
    BY <1>1 DEF CallOK
  <1>4. InvoiceOf(d) = InvoiceOf(c) /\ InvoiceOf(d) \in Invoices
    BY <1>2, <1>3, InvoiceOfType DEF InvoiceOf
  <1>5. HoldsInvoice(c, InvoiceOf(d)) /\ HoldsInvoice(e, InvoiceOf(d))
    BY <1>2, <1>4 DEF WaitsFor, NeedsInvoice, NeedsPayment, HoldsInvoice
  <1> QED BY <1>2, <1>3, <1>4, <1>5 DEF Exclusive

LEMMA Rings ==
  ASSUME Basic, Exclusive
  PROVE  RingsHaveADeletion
  <1> SUFFICES ASSUME NEW S \in SUBSET Callers, S # {},
                      \A c \in S : \E d \in S : WaitsFor(c, d)
               PROVE  \E c, d \in S : /\ req[c].op = "delete" /\ req[d].op = "review"
                                      /\ WaitsFor(c, d) /\ WaitsFor(d, c)
    BY DEF RingsHaveADeletion
  <1>1. ASSUME NEW c \in S, pc[c] = "restrict"
        PROVE  \E d \in S : /\ req[c].op = "delete" /\ req[d].op = "review"
                            /\ WaitsFor(c, d) /\ WaitsFor(d, c)
    <2>1. PICK d \in S : WaitsFor(c, d)
      OBVIOUS
    <2>2. PICK e \in S : WaitsFor(d, e)
      OBVIOUS
    <2> QED BY <1>1, <2>1, <2>2, DeletionMeetsReview
  <1>2. PICK a \in S, b \in S, c \in S, d \in S :
          WaitsFor(a, b) /\ WaitsFor(b, c) /\ WaitsFor(c, d)
    OBVIOUS
  <1>3. pc[b] \in {"restrict", "reviewInvoice"} /\ pc[c] \in {"insert", "restrict", "reviewInvoice"}
    BY <1>2, WaitedFor
  <1>4. CASE pc[b] = "reviewInvoice"
    <2>1. pc[c] # "reviewInvoice"
      BY <1>2, <1>4 DEF WaitsFor, NeedsInvoice, NeedsPayment, HoldsInvoice
    <2>2. pc[c] # "insert"
      <3>1. PICK e \in S : WaitsFor(d, e)
        OBVIOUS
      <3> QED BY <1>2, <3>1, WaitedFor
    <2> QED BY <1>1, <1>3, <2>1, <2>2
  <1> QED BY <1>1, <1>3, <1>4

----------------------------------------------------------------------------
(* The total a settlement read still holds when it commits.                 *)

\* A call that inserts found its invoice open, and it still is.
StillOpen ==
    \A c \in Callers : pc[c] = "insert" \/ Inserting(c) => invoice[req[c].invoice] # "paid"

LEMMA StillOpenStep ==
  ASSUME Basic, Exclusive, StillOpen, NEW c \in Callers, Act(c)
  PROVE  StillOpen'
  <1> SUFFICES ASSUME NEW d \in Callers, pc'[d] = "insert" \/ Inserting(d)'
               PROVE  invoice'[req'[d].invoice] # "paid"
    BY DEF StillOpen
  <1> DEFINE i == req[d].invoice
  <1>1. CallOK(c) /\ CallOK(d) /\ TypeOK
    BY DEF Basic, Calls
  <1>2. CASE d # c
    <2>1. /\ pc[d] = "insert" \/ Inserting(d)
          /\ req'[d] = req[d]
      BY <1>2, Frame DEF Others, Inserting
    <2>2. i \in Invoices /\ HoldsInvoice(d, i)
      BY <1>1, <2>1, InvoiceOfType DEF Inserting, HoldsInvoice, InvoiceOf, CallOK
    <2>3. invoice'[i] = invoice[i]
      BY <1>2, <2>2, InvoiceChanges DEF Exclusive, Unlocked
    <2> QED BY <2>1, <2>3 DEF StillOpen
  <1>3. CASE d = c
    <2>1. CASE pc'[c] = "insert"
      <3>1. FindByReference(c)
        BY <1>1, <2>1 DEF Act, Begin, Step, Fail, AddPayment, ReviewPayment, OpenInvoice, Settle,
              Verify, Finish, Edit, LockInvoice, FindByKey, InsertPayment, ResolveLostRace,
              Replay, LockPayment, LockItsInvoice, ReadTotals, Commit, UpdateInvoiceStatus,
              DeleteInvoice, RefuseDeletion, Resolve, Go, Answer, TypeOK
      <3> QED BY <1>1, <1>3, <2>1, <3>1 DEF FindByReference, Payable, Answer, call, table, TypeOK
    <2>2. CASE Inserting(c)'
      <3>1. Entered(c)' /\ ~Exists(c)'
        <4>1. CallOK(c)'
          BY BasicStep DEF Basic, Calls
        <4> QED BY <2>2, <4>1 DEF Entered, CallOK, Inserting
      <3>2. UNCHANGED payment
        BY <2>2, Frame DEF Inserting
      <3>3. CASE InsertPayment(c)
        BY <1>1, <1>3, <3>3 DEF InsertPayment, StillOpen, call, table
      <3>4. CASE Inserting(c)
        <4>1. UNCHANGED <<invoice, req>>
          BY <1>1, <2>2, <3>4 DEF Act, Begin, Step, Fail, AddPayment, ReviewPayment, OpenInvoice,
                Settle, Verify, Finish, Edit, LockInvoice, FindByKey, FindByReference,
                InsertPayment, ResolveLostRace, Replay, LockPayment, LockItsInvoice, ReadTotals,
                Commit, UpdateInvoiceStatus, DeleteInvoice, RefuseDeletion, Answer, Inserting,
                call, table, TypeOK
        <4> QED BY <1>3, <3>4, <4>1 DEF StillOpen
      <3> QED BY <3>1, <3>2, <3>3, <3>4, OwnEntry DEF Entered, Exists
    <2> QED BY <1>3, <2>1, <2>2
  <1> QED BY <1>2, <1>3

\* A transaction writes payments of its own invoice only.
LEMMA OnlyItsInvoice ==
  ASSUME Basic, NEW c \in Callers, pc[c] \in {"reviewInvoice", "totals", "commit"},
         NEW d \in Callers, View(c)[d] # payment[d]
  PROVE  /\ View(c)[d] \in Row /\ View(c)[d].invoice = InvoiceOf(c)
         /\ Exists(d) => payment[d].invoice = InvoiceOf(c)
  <1>1. CallOK(c) /\ CallOK(d) /\ TypeOK
    BY DEF Basic, Calls
  <1>2. CASE d = c /\ Inserting(c)
    BY <1>1, <1>2 DEF View, Inserting, InvoiceOf, CallOK
  <1>3. CASE ~(d = c /\ Inserting(c))
    <2>1. HoldsPayment(c, d)
      BY <1>3 DEF View
    <2>2. Exists(d) /\ payment[d].invoice = InvoiceOf(c)
      BY <1>1, <2>1 DEF HoldsPayment, CallOK, InvoiceOf
    <2>3. SameRow(payment[d], View(c)[d]) /\ View(c)[d] \in Row
      <3>1. View(c) \in [Callers -> Row \cup {NoPayment}]
        BY ViewType
      <3> QED BY <2>2, <3>1, ViewKeeps DEF SameRow
    <2> QED BY <2>2, <2>3 DEF SameRow, SameDetails
  <1> QED BY <1>2, <1>3

\* Its view of any other invoice is what is committed.
LEMMA OtherTotals ==
  ASSUME Basic, NEW c \in Callers, pc[c] \in {"reviewInvoice", "totals", "commit"},
         NEW i \in Invoices, i # InvoiceOf(c)
  PROVE  Verified(View(c), i) = Verified(payment, i)
  <1>1. ASSUME NEW d \in Callers
        PROVE  (IF View(c)[d] # NoPayment /\ View(c)[d].invoice = i /\ View(c)[d].status = "verified"
                THEN View(c)[d].amount ELSE 0)
               = (IF payment[d] # NoPayment /\ payment[d].invoice = i /\ payment[d].status = "verified"
                  THEN payment[d].amount ELSE 0)
    BY OnlyItsInvoice DEF Exists
  <1> QED BY <1>1 DEF Verified

\* Verified totals only grow.
LEMMA TotalsGrow ==
  ASSUME Basic, NEW c \in Callers, Act(c), NEW i \in Invoices
  PROVE  Total(Verified(payment, i)) <= Total(Verified(payment', i))
  <1>1. payment \in [Callers -> Row \cup {NoPayment}] /\ payment' \in [Callers -> Row \cup {NoPayment}]
    BY PaymentType DEF Basic, TypeOK
  <1>2. Verified(payment, i) \in Contribution /\ Verified(payment', i) \in Contribution
    BY <1>1, VerifiedType
  <1>3. ASSUME NEW d \in Callers
        PROVE  Verified(payment, i)[d] <= Verified(payment', i)[d]
    <2>1. CASE payment[d] = NoPayment
      <3>1. Verified(payment, i)[d] = 0
        BY <2>1 DEF Verified
      <3>2. Verified(payment', i)[d] \in Nat
        <4>1. payment'[d] = NoPayment \/ payment'[d].amount \in Nat
          BY <1>1, AmountsAssumption DEF Row
        <4> QED BY <4>1 DEF Verified
      <3> QED BY <3>1, <3>2
    <2>2. CASE payment[d] # NoPayment
      <3>1. SameRow(payment[d], payment'[d]) /\ payment[d] \in Row /\ payment'[d] \in Row
        BY <1>1, <2>2, Frame DEF Kept, Exists, SameRow
      <3>2. /\ payment'[d] # NoPayment
            /\ payment'[d].invoice = payment[d].invoice /\ payment'[d].amount = payment[d].amount
            /\ payment[d].status = "verified" => payment'[d].status = "verified"
            /\ payment[d].amount \in Nat
        BY <3>1, AmountsAssumption DEF SameRow, SameDetails, Row
      <3> QED BY <2>2, <3>2 DEF Verified
    <2> QED BY <2>1, <2>2
  <1> QED BY <1>2, <1>3, TotalAssumption

ReadStands == \A c \in Callers : pc[c] = "commit" => seen[c] = VerifiedTotal(c)

LEMMA ReadStandsStep ==
  ASSUME Basic, Exclusive, ReadStands, NEW c \in Callers, Act(c)
  PROVE  ReadStands'
  <1> SUFFICES ASSUME NEW d \in Callers, pc'[d] = "commit"
               PROVE  seen'[d] = VerifiedTotal(d)'
    BY DEF ReadStands
  <1>1. CallOK(c) /\ CallOK(d) /\ TypeOK
    BY DEF Basic, Calls
  <1>2. CASE d = c
    <2>1. ReadTotals(c)
      BY <1>1, <1>2, RequestShape DEF Act, Begin, Step, Fail, AddPayment, ReviewPayment,
            OpenInvoice, Settle, Verify, Finish, Edit, LockInvoice, FindByKey, FindByReference,
            InsertPayment, ResolveLostRace, Replay, LockPayment, LockItsInvoice, Commit,
            UpdateInvoiceStatus, DeleteInvoice, RefuseDeletion, Resolve, Go, Answer, TypeOK
    <2>2. /\ UNCHANGED <<payment, req, cmd, pay>>
          /\ pc[c] = "totals" /\ pc'[c] = "commit"
          /\ seen'[c] = VerifiedTotal(c)
      BY <1>1, <1>2, <2>1 DEF ReadTotals, Go, table, TypeOK
    <2>3. Verified(View(c), InvoiceOf(c))' = Verified(View(c), InvoiceOf(c))
      BY <2>2 DEF View, Verified, Inserting, HoldsPayment, InvoiceOf
    <2> QED BY <1>2, <2>2, <2>3 DEF VerifiedTotal
  <1>3. CASE d # c
    <2> DEFINE i == InvoiceOf(d)
    <2>1. /\ pc[d] = "commit" /\ UNCHANGED <<pc[d], req[d], cmd[d], pay[d], seen[d]>>
          /\ Kept
      BY <1>3, Frame DEF Others
    <2>2. i \in Invoices /\ HoldsInvoice(d, i)
      BY <2>1, InvoiceOfType DEF HoldsInvoice
    <2>3. i' = i
      <3>1. CASE req[d].op = "review"
        <4>1. pay[d] \in Callers /\ Exists(pay[d])
          BY <1>1, <2>1, <3>1 DEF CallOK, TypeOK
        <4>2. payment'[pay[d]].invoice = payment[pay[d]].invoice
          BY <2>1, <4>1 DEF Kept, SameRow, SameDetails
        <4> QED BY <2>1, <3>1, <4>2 DEF InvoiceOf
      <3>2. CASE req[d].op # "review"
        BY <2>1, <3>2 DEF InvoiceOf
      <3> QED BY <3>1, <3>2
    <2>4. ASSUME NEW e \in Callers, payment'[e] # payment[e]
          PROVE  /\ payment'[e].invoice # i
                 /\ Exists(e) => payment[e].invoice # i
                 /\ payment'[e] # NoPayment
      <3>1. pc[c] \in {"reviewInvoice", "commit"} /\ payment' = View(c)
        BY <2>4, Frame
      <3>2. InvoiceOf(c) # i
        <4>1. CASE pc[c] = "commit"
          BY <1>3, <2>2, <4>1 DEF HoldsInvoice, Exclusive
        <4>2. CASE pc[c] = "reviewInvoice"
          <5>1. LockItsInvoice(c)
            BY <2>4, <4>2 DEF Act, Begin, Step, Fail, AddPayment, ReviewPayment, OpenInvoice, Settle,
                  Verify, Finish, Edit, LockInvoice, FindByKey, FindByReference, InsertPayment,
                  ResolveLostRace, Replay, LockPayment, ReadTotals, Commit, UpdateInvoiceStatus,
                  DeleteInvoice, RefuseDeletion, table
          <5>2. invoice[InvoiceOf(c)] = "none"
            BY <2>4, <5>1 DEF LockItsInvoice
          <5> QED BY <2>2, <5>2 DEF Exclusive
        <4> QED BY <3>1, <4>1, <4>2
      <3>3. View(c)[e] \in Row /\ View(c)[e].invoice = InvoiceOf(c)
            /\ (Exists(e) => payment[e].invoice = InvoiceOf(c))
        BY <2>4, <3>1, OnlyItsInvoice
      <3> QED BY <3>1, <3>2, <3>3, ValuesAssumption
    <2>5. ASSUME NEW e \in Callers
          PROVE  Verified(View(d), i)[e]' = Verified(View(d), i)[e]
      <3>1. CASE payment'[e] = payment[e]
        BY <2>1, <2>3, <3>1 DEF Verified, View, Inserting, HoldsPayment
      <3>2. CASE payment'[e] # payment[e]
        <4>1. ~HoldsPayment(d, e)
          BY <1>1, <2>1, <2>4, <3>2 DEF HoldsPayment, InvoiceOf, CallOK
        <4> QED BY <2>1, <2>3, <2>4, <3>2, <4>1 DEF Verified, View, Inserting, HoldsPayment, Exists
      <3> QED BY <3>1, <3>2
    <2>6. Verified(View(d), i)' = Verified(View(d), i)
      BY <2>5 DEF Verified
    <2> QED BY <2>1, <2>6 DEF ReadStands, VerifiedTotal
  <1> QED BY <1>2, <1>3

----------------------------------------------------------------------------
(* The theorems.                                                            *)

IInv == Basic /\ Unclashed /\ Told /\ Exclusive /\ Attached /\ StillOpen /\ ReadStands
          /\ PaidIsBacked /\ CoveredIsPaid

LEMMA InitIInv == Init => IInv
  <1> SUFFICES ASSUME Init PROVE IInv
    OBVIOUS
  <1>1. Basic
    BY InitBasic
  <1>2. \A c \in Callers : /\ pc[c] = "idle" /\ req[c] = NoRequest /\ answer[c] = ""
                           /\ ~Exists(c) /\ ~Inserting(c)
    BY DEF Init, Exists, Inserting
  <1>3. Unclashed /\ Told
    BY <1>2 DEF Unclashed, Entered, Told, ToldOK
  <1>4. Exclusive /\ Attached /\ StillOpen /\ ReadStands
    BY <1>2 DEF Exclusive, HoldsInvoice, Attached, StillOpen, ReadStands
  <1>5. PaidIsBacked
    BY DEF Init, PaidIsBacked
  <1>6. CoveredIsPaid
    <2>1. \A i \in Invoices : Verified(payment, i) = [c \in Callers |-> 0]
      BY DEF Init, Verified
    <2> QED BY <2>1, TotalAssumption, AmountsAssumption DEF CoveredIsPaid
  <1> QED BY <1>1, <1>3, <1>4, <1>5, <1>6 DEF IInv

\* The total of the payments a commit writes is the total it read.
LEMMA CommitTotal ==
  ASSUME IInv, NEW c \in Callers, Commit(c)
  PROVE  Total(Verified(payment', InvoiceOf(c))) = seen[c]
  BY DEF IInv, ReadStands, Commit, VerifiedTotal

LEMMA PaidIsBackedStep ==
  ASSUME IInv, NEW c \in Callers, Act(c)
  PROVE  PaidIsBacked'
  <1> SUFFICES ASSUME NEW i \in Invoices, invoice'[i] = "paid", ~byOperator'[i]
               PROVE  Total(Verified(payment', i)) >= Amount[i]
    BY DEF PaidIsBacked
  <1>1. CASE invoice'[i] = invoice[i] /\ byOperator'[i] = byOperator[i]
    <2>1. Total(Verified(payment, i)) >= Amount[i]
      BY <1>1 DEF IInv, PaidIsBacked
    <2>2. Total(Verified(payment, i)) <= Total(Verified(payment', i))
      BY TotalsGrow DEF IInv
    <2>3. /\ Total(Verified(payment, i)) \in Nat /\ Total(Verified(payment', i)) \in Nat
          /\ Amount[i] \in Nat
      BY PaymentType, VerifiedType, AmountsAssumption DEF IInv, Basic, TypeOK
    <2> QED BY <2>1, <2>2, <2>3
  <1>2. CASE invoice'[i] # invoice[i] \/ byOperator'[i] # byOperator[i]
    BY <1>2, InvoiceChanges, CommitTotal DEF IInv
  <1> QED BY <1>1, <1>2

LEMMA CoveredIsPaidStep ==
  ASSUME IInv, NEW c \in Callers, Act(c)
  PROVE  CoveredIsPaid'
  <1> SUFFICES ASSUME NEW i \in Invoices, Amount[i] > 0, invoice'[i] = "open",
                      Total(Verified(payment', i)) >= Amount[i], ~byOperator'[i]
               PROVE  FALSE
    BY PaymentType, BasicStep DEF CoveredIsPaid, IInv, Basic, TypeOK
  <1>1. invoice'[i] = invoice[i] /\ byOperator'[i] = byOperator[i]
    BY InvoiceChanges DEF IInv
  <1>2. CASE Verified(payment', i) = Verified(payment, i)
    BY <1>1, <1>2 DEF IInv, CoveredIsPaid
  <1>3. CASE Verified(payment', i) # Verified(payment, i)
    <2>1. pc[c] \in {"reviewInvoice", "commit"} /\ payment' = View(c)
      BY <1>3, Frame DEF IInv
    <2>2. i = InvoiceOf(c)
      BY <1>3, <2>1, OtherTotals DEF IInv
    <2>3. Commit(c) \/ LockItsInvoice(c)
      BY <1>3 DEF Act, Begin, Step, Fail, AddPayment, ReviewPayment, OpenInvoice, Settle, Verify,
            Finish, Edit, LockInvoice, FindByKey, FindByReference, InsertPayment,
            ResolveLostRace, Replay, LockPayment, ReadTotals, UpdateInvoiceStatus,
            DeleteInvoice, RefuseDeletion, table
    <2>4. CASE Commit(c)
      <3>1. seen[c] >= Amount[i] /\ invoice[i] # "paid"
        BY <1>1, <2>2, <2>4, CommitTotal
      <3>2. invoice'[i] = "paid"
        BY <2>2, <2>4, <3>1 DEF Commit, IInv, Basic, TypeOK
      <3> QED BY <3>2
    <2>5. CASE LockItsInvoice(c)
      BY <1>1, <1>3, <2>2, <2>5 DEF LockItsInvoice
    <2> QED BY <2>3, <2>4, <2>5
  <1> QED BY <1>2, <1>3

LEMMA IInvStep == IInv /\ [Next]_vars => IInv'
  <1> SUFFICES ASSUME IInv, [Next]_vars PROVE IInv'
    OBVIOUS
  <1>1. CASE \E c \in Callers : Act(c)
    BY <1>1, BasicStep, UnclashedStep, ToldStep, ExclusiveStep, AttachedStep,
       StillOpenStep, ReadStandsStep, PaidIsBackedStep, CoveredIsPaidStep DEF IInv
  <1>2. CASE UNCHANGED vars
    <2> USE <1>2 DEF vars, table, call, Exists, Inserting
    <2>1. Basic'
      BY DEF IInv, Basic, TypeOK, Calls, CallOK
    <2>2. Unclashed'
      BY DEF IInv, Unclashed, Entered, RowOf
    <2>3. Told'
      BY DEF IInv, Told, ToldOK, Resolved, HasKey
    <2>4. Exclusive' /\ Attached' /\ StillOpen'
      BY DEF IInv, Exclusive, HoldsInvoice, InvoiceOf, Attached, StillOpen
    <2>5. ReadStands'
      BY DEF IInv, ReadStands, VerifiedTotal, Verified, View, HoldsPayment, InvoiceOf
    <2>6. PaidIsBacked' /\ CoveredIsPaid'
      BY DEF IInv, PaidIsBacked, CoveredIsPaid, Verified
    <2> QED BY <2>1, <2>2, <2>3, <2>4, <2>5, <2>6 DEF IInv
  <1> QED BY <1>1, <1>2 DEF Next, Act

THEOREM IInvHolds == Spec => []IInv
  <1> QED BY InitIInv, IInvStep, PTL DEF Spec

\* No settlement marks an invoice paid without verified payments that cover it.
THEOREM PaidIsBackedHolds == Spec => []PaidIsBacked
  <1>1. IInv => PaidIsBacked
    BY DEF IInv
  <1> QED BY <1>1, IInvHolds, PTL

\* No two transactions together cover an invoice and leave it open.
THEOREM CoveredIsPaidHolds == Spec => []CoveredIsPaid
  <1>1. IInv => CoveredIsPaid
    BY DEF IInv
  <1> QED BY <1>1, IInvHolds, PTL

\* A receipt or processor transaction backs one payment.
THEOREM EvidenceUsedOnceHolds == Spec => []EvidenceUsedOnce
  <1>1. IInv => EvidenceUsedOnce
    BY DEF IInv, Unclashed, Entered, RowOf, Clash, EvidenceUsedOnce
  <1> QED BY <1>1, IInvHolds, PTL

\* A key stands for one payment, the one its callers are told of.
THEOREM OnePaymentPerKeyHolds == Spec => []OnePaymentPerKey
  <1>1. IInv => OnePaymentPerKey
    <2> SUFFICES ASSUME IInv PROVE OnePaymentPerKey
      OBVIOUS
    <2>1. \A c, d \in Callers : Exists(c) /\ Exists(d) /\ c # d => payment[c].key # payment[d].key
      BY DEF IInv, Unclashed, Entered, RowOf, Clash
    <2>2. ASSUME NEW c \in Callers, req[c] # NoRequest, req[c].op = "add", answer[c] = "OK"
          PROVE  /\ HasKey(pay[c], cmd[c].key)
                 /\ payment[pay[c]].invoice = req[c].invoice
                 /\ payment[pay[c]].amount  = req[c].amount
      <3>1. HasKey(pay[c], cmd[c].key) /\ SameDetails(payment[pay[c]], cmd[c])
        BY <2>2 DEF IInv, Told, ToldOK, Resolved
      <3>2. cmd[c].invoice = req[c].invoice /\ cmd[c].amount = req[c].amount
        BY <2>2 DEF IInv, Basic, Calls, CallOK
      <3> QED BY <3>1, <3>2 DEF SameDetails
    <2> QED BY <2>1, <2>2 DEF OnePaymentPerKey
  <1> QED BY <1>1, IInvHolds, PTL

\* A payment is committed only to an invoice that is open at that moment.
THEOREM NoFurtherPaymentHolds == Spec => NoFurtherPayment
  <1>1. IInv /\ [Next]_vars =>
          [\A c \in Callers : ~Exists(c) /\ Exists(c)' =>
               invoice[payment'[c].invoice] = "open"]_vars
    <2> SUFFICES ASSUME IInv, NEW c \in Callers, Act(c), NEW d \in Callers, ~Exists(d), Exists(d)'
                 PROVE  invoice[payment'[d].invoice] = "open"
      BY DEF Next, Act, vars
    <2>1. d = c /\ Inserting(c) /\ payment' = View(c) /\ pc[c] = "commit"
      BY Frame DEF IInv, Inserting, Exists
    <2>2. /\ payment'[c].invoice = req[c].invoice
          /\ InvoiceOf(c) = req[c].invoice
      BY <2>1 DEF View, Inserting, InvoiceOf, IInv, Basic, Calls, CallOK
    <2>3. InvoiceOf(c) \in Invoices /\ HoldsInvoice(c, InvoiceOf(c))
      BY <2>1, InvoiceOfType DEF IInv, HoldsInvoice
    <2>4. invoice[InvoiceOf(c)] \notin {"none", "paid"}
      BY <2>1, <2>2, <2>3 DEF IInv, Exclusive, StillOpen
    <2> QED BY <2>1, <2>2, <2>3, <2>4 DEF IInv, Basic, TypeOK, Statuses
  <1> QED BY <1>1, IInvHolds, PTL DEF Spec, NoFurtherPayment

\* Calls wait for each other only where a deletion meets a verification.
THEOREM RingsHaveADeletionHolds == Spec => []RingsHaveADeletion
  <1>1. IInv => RingsHaveADeletion
    BY Rings DEF IInv
  <1> QED BY <1>1, IInvHolds, PTL

\* Every committed payment has its invoice: deletions and settlements lock the invoice
\* before one looks for payments and the other adds one.
THEOREM PaymentsKeepTheirInvoice == Spec => []Attached
  <1>1. IInv => Attached
    BY DEF IInv
  <1> QED BY <1>1, IInvHolds, PTL
=============================================================================
