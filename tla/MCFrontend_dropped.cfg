\* Is anything of an admitted body dropped on its way to an upstream?
CONSTANTS
    Matches <- MCMatches
    RemoteURLs <- MCRemoteURLs
    PublicModels <- MCPublicModels
    Scenes <- MCDroppedScenes
SPECIFICATION Spec
INVARIANTS NothingIsDropped
CHECK_DEADLOCK FALSE
