\* A failed allocation after rtl_encoded is installed leaves RTL bytecode and a rewritten opt_table in the iseq.
CONSTANTS
    Programs <- MCPrograms
SPECIFICATION Spec
INVARIANT FailureLeavesNoBytecode
