SPECIFICATION ScreensSpec
CONSTANTS
    All = "All"
    RoleOrder <- MCRoleOrder
    Heroes <- MCHeroes
    Openings <- MCOpenings
    Grids <- MCGrids
    MaxValues = 4
    MaxBlocks = 3
INVARIANTS
    TypeOK
    AllCoherent
    ButtonsShowRoles
    UpdaterTypeOK
    NoUpdateLost
PROPERTIES
    ImplementsDialog
    ShowsBestSimilarHeroes
    ImplementsView
    EveryValueOvertaken
