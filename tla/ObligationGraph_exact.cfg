SPECIFICATION Spec
CONSTANTS
    worker = worker helper = helper spare = spare
    pWorker = pWorker pHelper = pHelper
    Null = Null
    Nodes = {1, 2}
    Endpoints = {worker, helper}
    Principals = {pWorker, pHelper}
    PrincipalOf <- MCPrincipalOf
    Initial = {worker, helper}
    Modes = {"delivery_confirmed", "origin_route"}
    Copies = {1}
    MaxReports = 2
    MaxGen = 2
ACTION_CONSTRAINT IdsInOrder
PROPERTIES
    ClosesThroughExactDelivery
CHECK_DEADLOCK FALSE
