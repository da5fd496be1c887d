\* One key is enough: keys share nothing.  Two handlers race to store, and then on the desk.
CONSTANTS
    k1 = k1
    Key = {k1}
    Thread = {t1, t2}
    Ttl = 1
    Missing = Missing
    Message = {m1}
    Text = {x1, x2}
    KeyOf <- MCKeyOf
SPECIFICATION DeskSpec
SYMMETRY Symmetry
INVARIANTS
    StaleAtMostTtl
    GrantsAreEarned
    ClosedWasTold
    StoredWasMailed
PROPERTIES
    RevokedIsRefused
