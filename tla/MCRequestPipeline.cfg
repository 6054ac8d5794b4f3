SPECIFICATION FairSpec
CONSTANTS
    MaxBody = 2
    AppStatus = {200, 404}
INVARIANTS LogTruthful RefusalsAnnotated CompleteUnlessExcused BodyBounded
PROPERTIES RequestsEnd
