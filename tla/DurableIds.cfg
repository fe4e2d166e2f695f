SPECIFICATION LoweringSpec
CONSTANTS
    a = a
    b = b
    c = c
    composed = composed
    Modules <- MCModules
    Composition = composed
    Sources <- MCSources
    Root <- MCRoot
    Text <- MCText
    Imports <- MCImports
    Declares <- MCDeclares
    Days <- MCDays
INVARIANT DurableIds
