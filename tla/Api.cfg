SPECIFICATION Spec
CONSTANTS
    Records <- SomeRecords
    Queries <- SomeQueries
    Tokens <- TokensOf
    Upper <- UpperOf
    Level <- LevelOf
    Fold <- FoldCase
    LastPart <- AfterColon
    DefaultLimit = 2
    AggregateLimit = 2
    MaxTime = 3
    Interval = 2
    Ingesters = {i1, i2}
    Searchers = {s1}
    Bodies <- SomeBodies
    KVIds = {"a"}
    KVKeys <- SomeKeys
    MayFailPuts = 1
    MaxRequests = 2
SYMMETRY IngesterSymmetry
INVARIANTS HitsMatch IngestedIsFound PagesAreWhole HistogramIsExact AnswersAreHonest
CHECK_DEADLOCK FALSE
