\* review.close after an accepted item.
SPECIFICATION Spec
CONSTANTS
    Docs = {d1}
    Drafts = {}
    Ops = {o1}
    Runs = {r1}
    User = User
    Null = Null
    MaxVersion = 3
    MaxItems = 2
INVARIANTS
    ReviewCanBeClosed
