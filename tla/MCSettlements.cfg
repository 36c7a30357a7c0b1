CONSTANTS
    A1 = A1
    A2 = A2
    X1 = X1
    L1 = L1
    L2 = L2
    FirstPeriod = "quaterly"
    Agents <- MCAgents
    Period <- MCPeriod
    PaidBased <- MCPaidBased
    CustomerInvoices <- MCInvoices
    Lines <- MCLines
    AgentOf <- MCAgentOf
    InvoiceOf <- MCInvoiceOf
    Months = {5, 6, 13}
    MaxEach = 2
    MaxWizards = 1
    MaxChanges = 3
SPECIFICATION SettlementsSpec
INVARIANTS
    LineSettledOnce
    BilledOnce
    StateFollowsBill
PROPERTY
    SettledApart
CHECK_DEADLOCK FALSE
