SPECIFICATION OverrunSpec
CONSTANTS
    m1 = m1
    m2 = m2
    c1 = c1
    Messages = {m1}
    Conversations = {c1}
    WorkKey <- MCOneMessage
    Workers = {w1, w2}
    NoWorker = NoWorker
    NoJob = NoJob
    MaxAttempts = 2
    Backlog = {m1}
    Instants = {1}
    MaxDisturbances = 1
    Sensitive = {}
    Canary = {}
    Modes = {"canary", "live"}
    InitialMode = "canary"
    MaxVersion = 2
SYMMETRY WorkerSymmetry
INVARIANTS PipelineTypeOK CompletedIsExecuted ModeOnRecord
PROPERTIES RecordsAreFinal
