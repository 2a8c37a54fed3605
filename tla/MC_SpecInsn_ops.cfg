\* Every arithmetic, comparison, compare-and-branch and not insn form on fixnum, flonum, heap Float, String and nil operands.
CONSTANTS
    W <- MCW
    Sites <- OpSites
    Operands <- MCOperands
    Classes <- CmpClasses
    MaxMethodState = 2
SPECIFICATION Spec
INVARIANT TypeOK
INVARIANT FastPathAgreesWithDispatch
