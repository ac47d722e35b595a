\* Every scene of MCFrontend.  A refused file and an answered request end.
CONSTANTS
    Matches <- MCMatches
    RemoteURLs <- MCRemoteURLs
    PublicModels <- MCPublicModels
    Scenes <- MCScenes
SPECIFICATION Spec
INVARIANTS
    FrontendTypeOK
    OverridesAreUsedOrRefused
    ReadyMeansPlannable
    PlannableMeansReady
    PolicyBoundsWhatIsSent
    ImagesReachEveryUpstream
    ConversationIsKept
    ToolsAreWhole
    SchemasStayInTheSubset
    ControlsAreTheClients
CHECK_DEADLOCK FALSE
