SPECIFICATION Spec
CONSTANTS
    Unit = 6
    MaxExactWeightCandidates = 6
    MinHistory = 3
    ProductionProfile <- SmallProfile
    MinListings = 2
    MinReturns = 2
    RollingWindow = 2
    Decay <- HalfDecay
    Scale = 2
    MonthDays = 3
    MinimumMonths = 2
    TrailingDays = 6
    TailPercent = 40
    RollingDays = 6
    MinimumRolling = 2
    MinimumTailRolling = 4
    DrawdownLimit = 5
    MinObservations = 3
    StaleRepeats = 3
    GapDays = 2
PROPERTIES
    OptimizerIsHonest
    SolversAreSound
    EvaluationIsHonest
    QuoteIndexIsSound
    CandidatesAreSound
    DecisionsAreEarned
    IncomeIsSound
    PairsAreSound
    HandoffsAreEarned
