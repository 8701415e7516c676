\* One sentence at a time: TLC stops at the first that is violated.
SPECIFICATION Spec
CONSTANTS
    Plain <- MCPlain
    Grouped = {"1.500"}
    Figure <- MCFigure
    Dotted <- MCDotted
    Stump <- MCStump
    Labels <- MCLabels
    AmountClass <- MCAmountClass
    DateClass <- MCDateClass
    Dates <- MCDates
    Short = {"0", "2", "3", "9", "500"}
    Tails <- MCTails
    Heads <- MCHeads
    Radius = 3
    Vocabulary <- MCVocabulary
    Documents <- AllDocuments
INVARIANTS
    EveryAmountIsFound
    \* OnlyFiguresAreRead
    \* NoFactorThousand
    \* OnlyCellValuesOverridden
    \* BoxOnOwnPage
    \* DatesExist
CHECK_DEADLOCK FALSE
