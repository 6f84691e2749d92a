SPECIFICATION Spec
CONSTANTS
    Users = {u1, u2}
    Default = c0
    Added = {c1, c2}
    NoCode = NoCode
SYMMETRY Symmetry
INVARIANTS
    TypeOK
    SchemaOfVersion
    CharactersThere
PROPERTIES
    DefaultGiven
    OnlySeatsBlock
    ProfilesKept
