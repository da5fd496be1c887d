SPECIFICATION Spec
CONSTANTS
    servers = servers
    cluster = cluster
    projects = projects
    cpu = cpu
    vcpu = vcpu
    Null = Null
    Row <- MCRow
    Resource = {x1, x2}
    Value = {0, 1}
    Factor = {1, 2}
    Unit = 2
SYMMETRY Symmetry
CONSTRAINT FewErrors
PROPERTIES TotalsFollow LinksStaySound
