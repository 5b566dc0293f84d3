SPECIFICATION Spec
CONSTANTS
    Users = {u1}
    Creds = {c1, c2}
    MaxCredentials = 2
    NoFile = NoFile
    Empty = Empty
INVARIANT
    DiscardSafe
