\* One user, two roles, two organizations and a team.
CONSTANTS
    u1 = u1  r1 = r1  r2 = r2  o1 = o1  o2 = o2  t1 = t1  q1 = q1  q2 = q2  m1 = m1
    User = {u1}
    Outsider = Outsider
    Superuser = {}
    Role = {r1, r2}
    Plain = {r2}
    Org = {o1, o2}
    Team = {t1}
    Global = Global
    NoOrg = NoOrg
    Instance = Instance
    Request = {q1, q2}
    RequestedBy <- MCRequestedBy
    RequestMessage = {m1}
    SentBy <- MCSentBy
    About <- MCAbout
SPECIFICATION AccessSpec
INVARIANTS
    AnswersAgree
    NotifiedMayAct
PROPERTIES
    UsersLeaveTeamsFirst
