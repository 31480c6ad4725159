\* The answer to an earlier request overwrites the squawk chosen after it.
SPECIFICATION Spec
CONSTANTS
    Aircraft = {a1}
    Codes = {c1, c2}
    Manual = manual
    MaxFailures = 0
INVARIANT
    ChosenSquawkStands
