SPECIFICATION Spec
CONSTANTS
    Service = {s1}
    Operation = {o1, o2}
    Template = {t1, t2}
    Variable = {x}
    Request = {r1}
    Value = {v1, v2}
    MaxStep = 3
    None = None
SYMMETRY Symmetry
CONSTRAINT Alone
INVARIANTS SurveyFollows HiddenFromUser
PROPERTIES ServicesStaySound SplitIsKept NothingForgotten MoveKeepsAnswer
