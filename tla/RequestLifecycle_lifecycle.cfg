SPECIFICATION FairSpec
CONSTANTS
    Request = {r1, r2}
    Instance = {i1}
    create = create
    update = update
    delete = delete
    None = None
    Operation = {create, update, delete}
    OpType <- MCOpType
    AutoAccept = {update, delete}
    AutoProcess = {update}
    Workflow = {create}
    AutoStep = {create}
    AutoChain = {create}
    Orphaned = {}
    MaxJob = 3
    MaxMsg = 1
INVARIANTS
    RunningJobIsTracked
    CompleteMeansSuccess
    BusyInstanceHasDriver
    PollerMatchesProcessing
PROPERTIES
    RefusedStaysRefused
    KeepsPromise
    PollingEnds
CHECK_DEADLOCK FALSE
