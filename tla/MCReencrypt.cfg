CONSTANTS
    u1 = u1
    u2 = u2
    u3 = u3
    Users <- MCUsers
    MaxFailures = 1
SPECIFICATION Spec
INVARIANT ReadableAfterSwitch
