\* The analysis of every iseq of MC_StackAnalyzer.
CONSTANTS
    Programs <- MCPrograms
    Locals <- MCLocals
SPECIFICATION Spec
INVARIANT TypeOK
INVARIANT LocCountMatchesStack
INVARIANT JoinsMaterialized
INVARIANT CatchBoundsTemp
PROPERTY LocalAssignClearsAliases
PROPERTY AnalysisTerminates
