SPECIFICATION FairSpec
CONSTANTS
    short = short
    long = long
    own = own
    shared = shared
    private = private
    None = None
    Keys = {short, long, own}
    First <- MCFirst
    Last <- MCLast
    Traces = {shared, private}
    Seen <- MCSeen
    Rolled <- MCRolled
    Readers = {r1, r2}
    Pinned = {r1}
    Sizes = {1, 3, 4}
    MaxEntries = 2
    MaxBytes = 3
    TTL = 2
INVARIANTS WithinBounds PurgedOnlyLate
PROPERTIES PurgedLeaves
