\* A live strategy is reported as stopped and was never signalled.
CONSTANTS
    s1 = s1  s2 = s2  p1 = p1  p2 = p2  p3 = p3  acct = acct
    NoProc = NoProc
    Strategies = {s1}
    Procs = {p1, p2}
    StrategyOf <- OneStrategy
    AccountOf <- OneAccount
    Wrapped = FALSE
    MailCap = 1
SPECIFICATION Spec
INVARIANTS StopAcknowledged
