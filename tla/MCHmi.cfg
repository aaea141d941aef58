SPECIFICATION FairHmiSpec
CONSTANTS
    Values = {0, 1}
    Bad = Bad
    Commands = {1, Bad}
    NoStatus = NoStatus
    Resends = 1
    MaxEvents = 3
    MaxCommands = 3
    MaxBoots = 2
INVARIANTS
    CommandsAreSentInOrder
PROPERTIES
    CommandsAreAnswered
