---------------------------- MODULE MC_IndexInsn ----------------------------
EXTENDS IndexInsn

MCW == 4

\* The forms the generator selects: a register key, a fixnum immediate
\* (from the end and from the start) and a string literal, for [] and []=.
Site(op, i, imm) == [op |-> op, insn |-> i, imm |-> imm]
IndSites ==
    {Site("ind", "ind", None), Site("ind", "indi", Fix(-1)), Site("ind", "indi", Fix(1)),
     Site("ind", "inds", Str("lit"))}
IndsetSites ==
    {Site("indset", "indset", None), Site("indset", "indseti", Fix(-1)),
     Site("indset", "indseti", Fix(1)), Site("indset", "indsets", Str("lit"))}
IndexSites == IndSites \cup IndsetSites

\* The array, the hash, a fixnum and a String as receivers.
MCReceivers == {AryRef, HashRef, Fix(1), Str("obj")}
\* Keys from the end, from the start and past the end, and a string.
MCRegKeys == {Fix(-1), Fix(1), Str("obj")}
MCElems == {Fix(5)}

MCAryInits ==
    {[elems |-> e, frozen |-> FALSE, shared |-> FALSE] :
        e \in {<<>>, <<Fix(0)>>, <<Nil, Fix(0)>>}}
MCHashInits ==
    {[entries |-> {}, cbi |-> FALSE],
     [entries |-> {[k |-> Fix(1), v |-> Fix(0)], [k |-> Str("frz"), v |-> Fix(0)]}, cbi |-> FALSE],
     [entries |-> {[k |-> Str("obj"), v |-> Fix(0)]}, cbi |-> TRUE]}
=============================================================================
