SPECIFICATION Spec
CONSTANTS
    Nodes = {"n1", "n2"}
    Modes = {"auto", "pernode"}
    Singles <- OneSingle
    Keyed <- OneKeyed
    FacKeys = {"n1"}
    Answers <- NodeAnswers
    FacAnswers <- FacilityAnswers
    MaxVer = 2
    Series = {"a"}
    CompOf <- OneComponent
    Gauges = {"cpu"}
    Starts = {"a"}
    Levels = {0, 2}
    Bound = 2
    Lag = 1
    MaxT = 3
INVARIANT RateIsTrue
PROPERTIES ReadingsAreOneAnswer FormIsFound
CHECK_DEADLOCK FALSE
