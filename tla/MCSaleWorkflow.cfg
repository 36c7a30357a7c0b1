CONSTANTS
    O1 = O1
    O2 = O2
    C1 = C1
    C2 = C2
    U = U
    Cron = Cron
    Idle = Idle
    Orders = {O1, O2}
    Classes = {C1, C2}
    Data <- MCData
    CompanyVat = "01"
    IsAlfa = FALSE
    MonthOf <- MCMonthOf
    MaxDay = 2
    Validators = {U, Cron}
    Total <- MCTotal
    Amounts <- MCAmounts
    InvoiceOn <- MCInvoiceOn
    OrderDates <- MCOrderDates
    ForceDate = {O1}
    MaxActs = 2
SPECIFICATION FairSpec
INVARIANTS
    NumbersFollowDates
    EveryNumberOnce
    RemitosOnce
PROPERTIES
    
    EventuallyDone
CHECK_DEADLOCK FALSE
