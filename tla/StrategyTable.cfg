\* The process table, the processes and the server's life.
CONSTANTS
    s1 = s1  s2 = s2  p1 = p1  p2 = p2  p3 = p3  acct = acct
    NoProc = NoProc
    Strategies = {s1}
    Procs = {p1, p2}
    StrategyOf <- OneStrategy
    AccountOf <- OneAccount
    Wrapped = TRUE
    MailCap = 1
SPECIFICATION Spec
INVARIANTS Tracked NoTwins CrashKillsTable
PROPERTIES PendingStays StatusSettles AliveIsShown
