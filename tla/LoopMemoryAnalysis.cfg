CONSTANT
    Inputs <- AllModules
SPECIFICATION Spec
INVARIANTS AnalysedExactly  UndefinedOnlyForOpaque
