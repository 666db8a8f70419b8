SPECIFICATION Spec
CONSTANTS
    Logins = {ann, bob}
    AdminLogins = {ann, bob}
    ViewerLogins = {}
    Slots = {q1, q2}
    MaxFaults = 0
    MaxRequests = 2
SYMMETRY SlotSymmetry
INVARIANTS LoserSeesNothing
