SPECIFICATION FetchSpec
CONSTANTS
    Pages = {0, 2}
    PageSizes = {50, 51}
    Emails = {"john+x", "a&b", "a&page=2", "a&pageSize=50", "a&pageSize=51", "undefined"}
    AsRead <- MCAsRead
    Brings <- MCBrings
    Undefined = Undefined
INVARIANTS
    TypeOK
    RefusedUntouched
    StatusTellsOutcome
    WriteAnswerTrue
    
    LostByFirstOnly
    ResultMeansDone
PROPERTY
    KeepsContract
