SPECIFICATION QuotaSpec
CONSTANTS
    Org = {o1, o2}
    Team = {t1, t2}
    Amount = {0, 1}
    Used = {o1, t1}
    Elsewhere = Elsewhere
    None = None
INVARIANTS ApiNeverStricter
PROPERTIES LimitsCover TeamsUnderOrg
