SPECIFICATION FairSpec
CONSTANTS
    All = "All"
    RoleOrder <- MCRoleOrder
    Heroes <- MCHeroes
    Catalogues <- MCCatalogues
    MaxRequests = 2
INVARIANTS
    TypeOK
    HeroesKept
    ShownMatchesFilter
    ReflectsAnswersRun
    RowsBoundedByResponses
    ReopenedFilterShowsActive
    OneCallbackPerFetch
PROPERTIES
    GridBlanksOnlyByFilter
    EveryFetchReturns
