\* A flightplan event forgets the previous squawk before it is looked at.
SPECIFICATION Spec
CONSTANTS
    Aircraft = {a1}
    Codes = {c1, c2}
    Manual = manual
    MaxFailures = 0
PROPERTY
    PreviousSquawkReassigned
