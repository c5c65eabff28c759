\* Two operations and two runs around one draft of document.create and the
\* document it becomes; no symmetry, since liveness is checked.
SPECIFICATION FairSpec
CONSTANTS
    Docs = {}
    Drafts = {n1}
    Ops = {o1, o2}
    Runs = {r1, r2}
    User = User
    Null = Null
    MaxVersion = 2
    MaxItems = 1
INVARIANTS
    LeaseOwner
    NoOrphanDraft
    Settleable
PROPERTIES
    LeasesEnd
    RunningEnds
