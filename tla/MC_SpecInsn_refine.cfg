\* The arithmetic, compare-and-branch and not insns seen from the dispatch loop: DispatchInsn.
CONSTANTS
    W <- MCW
    Sites <- RefinedSites
    Operands <- RefineOperands
    Classes <- CmpClasses
    MaxMethodState = 1
SPECIFICATION Spec
PROPERTY DispatchRefined
