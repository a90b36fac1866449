SPECIFICATION Spec
CONSTANTS
    m1 = m1
    m2 = m2
    c1 = c1
    Messages = {m1, m2}
    Conversations = {c1}
    WorkKey <- MCWorkKey
    Workers = {w1, w2}
    NoWorker = NoWorker
    NoJob = NoJob
    MaxAttempts = 2
    Backlog = {m1}
    Instants = {1}
    MaxDisturbances = 1
    Sensitive = {m2}
    Canary = {m1}
    Modes = {"shadow", "canary"}
    InitialMode = "shadow"
    MaxVersion = 1
SYMMETRY WorkerSymmetry
INVARIANTS OneActionPerJob ModeOnRecord PendingHasReview
PROPERTIES PendingIsSticky
