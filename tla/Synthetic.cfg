SPECIFICATION Spec
CONSTANTS
    Endpoints = {"e1", "e2"}
    Groups = {"g1"}
    Counters = {"c", "d"}
    GroupHosts <- MCGroupHosts
    Rules <- MCRules
    MaxRows = 3
    MaxEdits = 4
    MaxFaults = 1
    Step = 3
    Delay = 1
    Threshold = 50
    Sources <- MCSources
    MaxNow = 21
    MaxAggs = 2
    MaxWorkers = 5
    MaxAggEdits = 3
    MaxAggFaults = 1
    MaxSecond = 2
INVARIANTS  SilenceShows NoWorkerLeaks AggregateSound
 
CHECK_DEADLOCK FALSE
