SPECIFICATION JobsSpec
CONSTANTS
    Calls = {}
    Conversions = {s1}
    Edits = {e1, e2}
    Members = {m1}
    Subordinates = {m1}
    OverdueScanBatchSize = 1
    PurgeBatchSize = 1
    MaxTasks = 2
    Limits = {1}
    MaxFailures = 1
    None = None
    c1 = c1
    l1 = l1
    l2 = l2
    ScanLimit = 2
    ReminderLimits = {2}
    ReminderFailures = 1
PROPERTIES
    JobsReachEveryTask
    EveryMatureLeadReminded
