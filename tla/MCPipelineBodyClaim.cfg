\* Updates of a note that lack a field, or have too long a title.
SPECIFICATION PipelineSpec
CONSTANTS
    MaxBody = 20
    MaxAvatar = 5
    MaxFile = 10
    Sizes = {5}
INVARIANTS
    InvalidBodyRefused
