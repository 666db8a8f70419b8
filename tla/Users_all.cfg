SPECIFICATION Spec
CONSTANTS
    Logins = {ann, bob}
    AdminLogins = {ann, bob}
    ViewerLogins = {bob}
    Slots = {q1, q2}
    MaxFaults = 1
    MaxRequests = 3
SYMMETRY SlotSymmetry
INVARIANTS AdminRemains UserRemains EnvironmentSeeded
PROPERTIES RoleStableAcrossLogins
