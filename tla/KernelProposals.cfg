\* Two operations compete for one imported document; while there is only one, it
\* may have several items and the document more versions.
SPECIFICATION Spec
CONSTANTS
    Docs = {d1}
    Drafts = {}
    Ops = {o1, o2}
    Runs = {r1}
    User = User
    Null = Null
    MaxVersion = 3
    MaxItems = 2
CONSTRAINT LargeAlone
SYMMETRY Interchangeable
INVARIANTS
    TypeOK
    NoLostUpdate
    LeaseWhileBuilding
    ProposalsCurrent
    DecisionsAreVersions
PROPERTIES
    ConflictsWithAdvance
    Finality
    Implements
