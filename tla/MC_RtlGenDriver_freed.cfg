\* A failed positions allocation in create_rtl_insn_info_table leaves the freed entries block in the iseq.
CONSTANTS
    Programs <- MCPrograms
SPECIFICATION Spec
INVARIANT NoFreedBlockInstalled
