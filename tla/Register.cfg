SPECIFICATION Spec
CONSTANTS
    Clients = {0, 1}
    Deployments <- AllDeployments
    Agendas <- SmallAgendas
    MaxLosses = 1
    MaxRestarts = 1
INVARIANTS
    RegisterInv
    AckedWritesLast
    AskerAnsweredUnlessVersion3
    TimersCoverRequests
