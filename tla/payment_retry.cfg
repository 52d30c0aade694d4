SPECIFICATION Spec
CONSTANTS
    c1 = c1
    c2 = c2
    c3 = c3
    i1 = i1
    i2 = i2
    k1 = k1
    k2 = k2
    f1 = f1
    f2 = f2
    Callers = {c1, c2}
    Invoices = {i1, i2}
    Amount <- MCAmount
    Currency <- MCCurrency
    Amounts = {1, 2}
    Currencies = {"USD", "EUR"}
    Times = {1, 2}
    Keys = {k1, k2}
    References = {f1, f2}
    Derived <- MCDerived
    Requests <- MCRetries
    Total <- MCTotal
    NoKey = NoKey
    NoTime = NoTime
    NoRequest = NoRequest
    NoPayment = NoPayment
CHECK_DEADLOCK FALSE
INVARIANTS RetryReturnsOriginal
