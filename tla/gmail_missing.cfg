SPECIFICATION GmailSpec
CONSTANTS
    Pollers = {p1}
    BatchSize = 1
    Refused = {}
    MaxMail = 3
    MaxAborts = 1
INVARIANTS CursorCovers
