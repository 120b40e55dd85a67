SPECIFICATION GSpec
CONSTANTS
    GTasks = {"a", "b", "c"}
    Needs <- MCNeeds
    CanFail = {}
    FlowOptions = {"default"}
    WaitOptions = {FALSE}
    Groups = {{"a", "b", "c"}}
    Removable = {}
    MaxFlowNum = 1
    MaxFlowCommands = 1
PROPERTIES
    InGroupOrder
CHECK_DEADLOCK FALSE
