CONSTANTS
    None = None
    Items = {1, 2, 3, 4, 5}
    PageSize = 2
    DefaultLimit = 3
    Limits = {0, 1, 2, 3, 4}
    MaxLength = 5
    MaxEdits = 2
SPECIFICATION FairSpec
INVARIANTS
    TypeOK
    RankExact
    PagesExact
    MetadataComplete
PROPERTY
    PagingEnds
