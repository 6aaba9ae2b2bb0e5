\* A note with an attachment is deleted.
SPECIFICATION WorkspaceSpec
CONSTANTS
    Requests = {1, 2}
    Users = {ann, eve}
    StartNotes <- TwoNotes
    StartBlocks <- OneBlock
    StartTags <- TwoTags
    StartNoteTags <- Tagged
    StartAttachments <- OneAttachment
    StartAvatars <- Pictures
    Names = {work, home}
    Ops <- DeleteOnly
    MaxBlocks = 1
    MaxInFlight = 2
    Faults = FALSE
    Keep = Keep
    NoNote = NoNote
    NoAvatar = NoAvatar
    ElsewhereAvatar = ElsewhereAvatar
    ann = ann
    eve = eve
    n1 = n1
    n2 = n2
    b1 = b1
    b2 = b2
    t1 = t1
    t2 = t2
    work = work
    home = home
    a1 = a1
    v1 = v1
INVARIANT FilesNamed
