SPECIFICATION FairSpec
CONSTANTS
    worker = worker helper = helper spare = spare
    pWorker = pWorker pHelper = pHelper
    Null = Null
    Nodes = {1, 2, 3}
    Endpoints = {worker, helper, spare}
    Principals = {pWorker, pHelper}
    PrincipalOf <- MCPrincipalOf
    Initial = {worker, helper}
    Modes = {"message_committed", "delivery_confirmed", "origin_route"}
    Copies = {1, 2}
    MaxReports = 1
    MaxGen = 1
CONSTRAINT ReplacedOrStaged
ACTION_CONSTRAINT IdsInOrder
INVARIANTS
    NothingOpenBelowDecided
    WatchTracksCustody
    ReportedOnce
PROPERTIES
    FulfilledOnReceipt
    ReportsReachTheLiving
    OffersAreDecided
CHECK_DEADLOCK FALSE
