------------------------ MODULE MCPaymentSettlement ------------------------
EXTENDS PaymentSettlement, Functions, TLC
CONSTANTS c1, c2, c3, i1, i2, k1, k2, f1, f2

MCTotal(f)  == FoldFunction(LAMBDA x, y : x + y, 0, f)
MCAmount    == i1 :> 2 @@ i2 :> 1
MCCurrency  == [i \in Invoices |-> "USD"]

\* References that differ in case and punctuation give the same key.
MCDerived   == [f \in References |-> k2]

Add(i, n, cur, t, k, f, rev) ==
    [op |-> "add", invoice |-> i, amount |-> n, currency |-> cur, received |-> t,
     key |-> k, ref |-> f, reviewed |-> rev]

\* Two payments that cover i1 together, one of them unreviewed, and other evidence
\* with the key of the latter; the first one's key with another invoice, and its
\* evidence with another key; that payment again, with evidence of its own, which a
\* lost race may find; and the wrong currency.
MCRequests ==
    { Add(i1, 1, "USD", 1, k1, f1, TRUE), Add(i1, 1, "USD", 1, NoKey, f2, FALSE),
      Add(i1, 1, "USD", 1, NoKey, f1, TRUE),
      Add(i2, 1, "USD", 1, k1, f2, TRUE), Add(i2, 1, "USD", 1, k2, f1, TRUE),
      Add(i2, 1, "USD", NoTime, k2, f2, TRUE), Add(i1, 1, "EUR", 1, k1, f1, TRUE) }
    \cup { [op |-> "review", payment |-> c] : c \in {c1, c2} }
    \cup { [op |-> "status", invoice |-> i1, status |-> s] : s \in {"open", "paid"} }
    \cup { [op |-> "delete", invoice |-> i1] }

\* One payment, with and without a time of receipt, that a client sends again.
MCRetries == { Add(i1, 1, "USD", t, k1, f1, TRUE) : t \in {1, NoTime} }
=============================================================================
