--------------------------- MODULE MCScopeAccess ---------------------------
EXTENDS ScopeAccess, TLC

CONSTANTS u1, r1, r2, o1, o2, t1, q1, q2, m1

\* one request of the user, one of somebody else, and a message of the user on the latter
MCRequestedBy == q1 :> u1 @@ q2 :> Outsider
MCSentBy == m1 :> u1
MCAbout == m1 :> q2
============================================================================
