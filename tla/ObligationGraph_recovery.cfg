SPECIFICATION Spec
CONSTANTS
    worker = worker helper = helper spare = spare
    pWorker = pWorker pHelper = pHelper
    Null = Null
    Nodes = {1, 2, 3, 4, 5, 6}
    Endpoints = {worker, spare}
    Principals = {pWorker}
    PrincipalOf <- MCPrincipalOf
    Initial = {worker}
    Modes = {"origin_route"}
    Copies = {1}
    MaxReports = 1
    MaxGen = 2
CONSTRAINT TwoRoots
ACTION_CONSTRAINT IdsInOrder
INVARIANTS
    OpenAttemptIsNewest
    LostRootIsMarked
PROPERTIES
    ReplacementAdoptsAll
CHECK_DEADLOCK FALSE
