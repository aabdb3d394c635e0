SPECIFICATION Spec
CONSTANTS
    Launches = {"first", "second"}  NoLaunch = "none"  Bound = {"first"}
    TnCallers = {"view", "toolA"}  TnUi = {"view"}  TnSize <- MCSize
    TnFetches = {1, 2, 3}  TnTtl = 1  TnMaxGeneration = 2  TnMaxCalls <- MCCalls
    IwCallers = {"a", "b"}  IwWorkers = 1  IwMaxSnapshot = 3
INVARIANTS
    EngineIsOwned
    ImageJobsAreSafe
PROPERTIES
    SharedFetchIsSafe
    ServicesComeToRest
CHECK_DEADLOCK FALSE
