\* Both sites (a method body run plainly and under instance_eval; a class << obj body run for two objects), in both insn forms.
CONSTANTS
    Contexts <- MCContexts
    KeyCrefs <- MCKeyCrefs
    OwnScope <- MCOwnScope
    Values <- MCValues
    Sites <- MCSites
    W <- MCW
    MaxState <- MCMaxState
    MaxMissing <- MCMaxMissing
SPECIFICATION Spec
PROPERTY ConstRefined
