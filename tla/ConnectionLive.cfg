SPECIFICATION FairSpec
CONSTANTS
    Messages = {m1}
    NoMessage = NoMessage
    Capacity = 2
    MaxWrites = 1
PROPERTIES
    ClosingCompletes
    MessagesReturn
