SPECIFICATION FairKeptSpec
CONSTANTS
    Pollers = {p1, p2}
    BatchSize = 2
    Refused = {4}
    MaxMail = 4
    MaxAborts = 1
INVARIANTS GmailTypeOK CursorCovers
PROPERTIES EveryMailArrives
