SPECIFICATION Spec
CONSTANTS
    Users = {u1, u2}
    Creds = {c1, c2, c3, c4}
    MaxCredentials = 2
    NoFile = NoFile
    Empty = Empty
SYMMETRY Symmetry
INVARIANTS
    AuthoritativeUsable
    JournalReplayable
    RetiredStaysGone
