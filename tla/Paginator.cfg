SPECIFICATION PagingSpec
CONSTANTS
    Names = {a, b}
    Values = {v, w}
    None = None
    Changed = Changed
    Last = 3
INVARIANTS
    PagingTypeOK
PROPERTIES
    ImplementsListing
    CompletesIfAsked
