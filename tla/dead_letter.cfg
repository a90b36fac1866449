SPECIFICATION StallSpec
CONSTANTS
    m1 = m1
    m2 = m2
    m3 = m3
    c1 = c1
    c2 = c2
    Messages = {m1, m2}
    Conversations = {c1, c2}
    WorkKey <- MCOneConversation
    Workers = {w1, w2}
    NoWorker = NoWorker
    NoJob = NoJob
    MaxAttempts = 1
    Backlog = {}
    Instants = {1, 2}
    MaxDisturbances = 3
PROPERTIES DeadLetterIsFinal
