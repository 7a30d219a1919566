SPECIFICATION Spec
CHECK_DEADLOCK FALSE
SYMMETRY Alike
CONSTANTS
    h1 = h1
    h2 = h2
    Handlers <- TwoHandlers
    Adapters <- AllAdapters
    FileTool <- File
    SiteModels <- Models
    Questions <- Asked
    MaxIds = 3
    MaxSets = 1
INVARIANTS
    DocumentSound
    RightPoint
    CapabilitiesTold
