SPECIFICATION Spec
CONSTANTS
    Aircraft = {a1}
    Codes = {c1, c2}
    Manual = manual
    MaxFailures = 2
INVARIANTS
    OneRequestEach
    OrderlyAnswersStand
PROPERTIES
    RequestsEnd
