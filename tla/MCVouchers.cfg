CONSTANTS
    Rep = Rep
    Agent = Agent
    R1 = R1
    R2 = R2
    K1 = K1
    V1 = V1
    Partners <- MCPartners
    ChildOf <- MCChildOf
    Customer = Rep
    Debts <- MCDebts
    Receipts = {R1, R2}
    Reconciles = {K1}
    VoucherIds = {V1}
    Payments <- MCPayments
    Amounts = {0, 4}
    MaxChanges = 2
SPECIFICATION VoucherSpec
SYMMETRY ReceiptSymmetry
INVARIANTS
    BalanceFollowsDocuments
    NotOverpaid
    FiguresAddUp
PROPERTY
    CreditOnlyWhenCovered
CHECK_DEADLOCK FALSE
