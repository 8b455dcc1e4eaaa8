\* The scripts of day0: the first two cells of every plan, one rerun, one fault.
SPECIFICATION LiveSpec
CONSTANTS
    Scenarios <- MC_Scenarios
    Campaigns = {"a", "b"}
CHECK_DEADLOCK FALSE
INVARIANTS
    TypeOK
    FreshResult
    MeasuredAlone
    StatsUnmixed
PROPERTIES
    OnlyOwnClients
    DrainedWave
    CampaignEnds
