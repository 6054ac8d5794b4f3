SPECIFICATION Spec
CONSTANTS
    MaxBody = 2
    AppStatus = {200, 404}
INVARIANTS EveryResponseTraced
