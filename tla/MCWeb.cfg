SPECIFICATION WebSpec
CONSTANTS
    b1 = b1
    b2 = b2
    None = None
    Raises = Raises
    Missing = Missing
    Text = Text
    Infinite = Infinite
    List = List
    Malformed = Malformed
    Users = {"ann", "Ann"}
    Threads = {b1, b2}
    Types = {"tank", "pump"}
    Targets = {"x", "y"}
    Payloads <- MCPayloads
    KeyOf <- MCKeyOf
    Limit = 2
    Window = 2
    Lockout = 2
    Second = 1
    Files <- MCFiles
    Starts <- MCStarts
INVARIANTS
    WebTypeOK
    MembersStayWithTheirUser
    TaggedHaveTheirFacility
    NamesAreUnique
    LockoutIsEarned
    LoadedTypesAreSound
PROPERTIES
    OnlyOwnRowsChange
    LibraryEditsKeepPlans
    ImportFillsAllOrNothing
    RowsOfTheAwayStay
SYMMETRY MCSymmetry
