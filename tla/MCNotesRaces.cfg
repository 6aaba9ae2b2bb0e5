\* Every operation on a note and its tags, two requests at a time, any of them
\* failing.
SPECIFICATION FairSpec
CONSTANTS
    Requests = {1, 2}
    Users = {ann}
    StartNotes <- OneNote
    StartBlocks <- TwoBlocks
    StartTags <- OneTag
    StartNoteTags <- Tagged
    Names = {work, home}
    Ops <- AllOps
    MaxBlocks = 2
    MaxInFlight = 2
    Faults = TRUE
    Keep = Keep
    NoNote = NoNote
    ann = ann
    n1 = n1
    b1 = b1
    b2 = b2
    t1 = t1
    work = work
    home = home
INVARIANT ListedBlocksExist
PROPERTY EveryRequestEnds
