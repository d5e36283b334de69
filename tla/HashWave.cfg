SPECIFICATION Spec
CONSTANTS
    Mutable = 4
    Steps = 4
    Lanes = {0, 1, 2}
    Mix <- MixTerm
    CarryLess <- CarryLessTerm
    MulWord <- MulTerm
    DivRem <- DivTerm
    RoundConstants <- TermConstants
    Pack <- PackTerm
    HeadFill <- HeadFillTerm
    TailFill <- TailFillTerm
    Reduce64 <- ReduceTerm
    LengthHash <- LengthTerm
    Exceeds <- ExceedsTerm
    NoDigest = NoDigest
    Templates <- TwoTemplates
    Nonces = {0, 1}
    Targets = {1}
    MaxCalls = 2
INVARIANTS
    TypeOK
    JournalCoversDirt
    EachLaneOnce
PROPERTIES
    Implements
