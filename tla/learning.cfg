SPECIFICATION LearningSpec
CONSTANTS
    w1 = w1
    w2 = w2
    m1 = m1
    m2 = m2
    q1 = q1
    q2 = q2
    N = 52
    S = 10
    ScoreGrid = {8, 9}
    Parts = 100
    Writers = {w1, w2}
    CaseSet <- MCCases
    Answers = {"normal", "high"}
    MaxLabels = 3
    NoLabel = NoLabel
    NoWriter = NoWriter
    Voters = {m1, m2}
    Groups = {q1, q2}
    Batches <- MCBatches
    p1 = p1
    p2 = p2
    r1 = r1
    r2 = r2
    Pods = {p1, p2}
    AUCs = {0, 1, 2, 3, 4}
    BakedAUC = 3
    auc_tol = 1
    MaxPromotions = 3
    Missing = Missing
    Broken = Broken
    Replicas = {r1, r2}
    MaxTrainings = 3
    MaxTrainerFaults = 2
    MaxExecFaults = 2
    NoFile = NoFile
    Cut = Cut
SYMMETRY Symmetry
CHECK_DEADLOCK FALSE
INVARIANTS TrippedNeverSuppressed GuardrailsOnlyRaise RecallFirstEscalates SuppressIsSafe DecisionBands LatestOfBestSource SecondOpinion InjectionKept NoLabelLostUnnoticed BenignUnanimous  DriftBounded  GateUnlessStale MatchedPair
PROPERTY EscalationMonotone
