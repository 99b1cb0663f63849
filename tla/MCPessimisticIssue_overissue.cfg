SPECIFICATION Spec
CONSTANTS
    TotalQty = 1
    Instances = {i1}
    Admins = {a1, a2}
    MaxChanges = 2
    MaxOpens = 2
    Users = {u1, u2}
    Requests = {r1, r2}
INVARIANTS
    NeverOverIssued
CHECK_DEADLOCK FALSE
