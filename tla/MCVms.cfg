SPECIFICATION Spec
CONSTANTS
    MaxPages = 19
    Entries = 2
    Addresses <- MCAddresses
    Modes <- MCModes
    Offsets = {0, 1}
    Values = {1}
    MaxForks = 2
INVARIANTS
    TypeOK
    WritableIsPrivate
    CountCoversSharers
    TablesArePrivate
PROPERTIES
    ImplementsPrivate
