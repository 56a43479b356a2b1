SPECIFICATION Spec
CONSTANTS
    Responses <- MCResponses
    Urls <- MCUrls
    BufSize = 6
    MaxAddresses = 2
INVARIANTS
    UrlTakenApart
    BodyIntact
    SignedIsGenuine
    ArchiveNeverPartial
    GoodDownloadAccepted
PROPERTY
    GetEnds
CHECK_DEADLOCK FALSE
