SPECIFICATION FlowSpec
CONSTANTS
    Tenants = {a}
    Leads = {l}
    SaleLimit <- MCSaleLimit
    Credits = 1
    Ingestor = h1
    Handlers = {h1}
    Messages <- FlowMessages
    Wants <- FlowWants
    DeadLetter = DeadLetter
    NoMessage = NoMessage
    MaxRetries = 1
    MaxStops = 1
    MaxFaults = 1
CHECK_DEADLOCK FALSE
PROPERTIES
    RecordsAreTrue
    EveryEventSettles
    PurchaseBecomesLead
