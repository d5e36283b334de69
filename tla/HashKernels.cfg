SPECIFICATION Spec
CONSTANTS
    Mutable = 16
    Mix <- MixTerm
    CarryLess <- CarryLessTerm
    MulWord <- MulTerm
    DivRem <- DivTerm
    Calls <- StepCalls
    Accs <- FreeAccs
    TheKey <- FreeKey
    TheBuf <- FreeBuf
    Half = 8
    Lanes <- SmallLanes
    Polynomials <- TwoTerms
    MaxThreads = 32
    Window = 1600000
INVARIANTS
    BodiesAgree
    OnlyJournalledSlots
    AbsorbedHarakaAgrees
    PreFilterAgrees
    MulhrsAgrees
    ReductionIsRemainder
    TagsApart
