\* Two filters of a kind, two pages at a time: two forms are posted, and cut off at any commit.
CONSTANTS
    User = {u1}
    Filter = {f1, f2}
    State = {}
    Kind = {"request"}
    MaxPost = 2
    Service = {v}
    Operation = {p}
    Detail = {}
    Web = {h1, h2}
    Other = Other
    None = None
SPECIFICATION Spec
SYMMETRY Symmetry
INVARIANTS
    NothingMissed
    OnlyWanted
CHECK_DEADLOCK FALSE
