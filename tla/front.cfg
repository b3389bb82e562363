SPECIFICATION FrontSpec
CONSTANTS
    IntCap = 64
    MaxLexeme = 6
    Modes <- AllModes
INVARIANTS TokensAreTheSource RefusesNoSource AcceptsTheGrammar AcceptsNothingElse LossesAreTold
