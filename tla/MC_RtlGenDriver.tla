------------------------- MODULE MC_RtlGenDriver -------------------------
(***************************************************************************)
(* Four-insn stack codes for RtlGenDriver.  The shapes of a stack insn:    *)
(* one that emits no RTL (pop, nop), one that emits an insn of length 2,  *)
(* a label whose tune_stack emits a move, an unreachable insn, a branch   *)
(* and leave.  Every insns_info table gives position 0 an entry and each  *)
(* other position none, a line event on line 1 or 2, a call event, or an  *)
(* entry without events on line 2.                                         *)
(***************************************************************************)
EXTENDS RtlGenDriver

S(pre, emit, live, br) == [pre |-> pre, emit |-> emit, live |-> live, br |-> br]
Emits0 == S(<<>>, <<>>, TRUE, -1)
Emits2 == S(<<>>, <<2>>, TRUE, -1)
Label == S(<<1>>, <<1>>, TRUE, -1)
Dead == S(<<>>, <<1>>, FALSE, -1)
Branch(t) == S(<<>>, <<2>>, TRUE, t)
LeaveI == S(<<>>, <<1>>, TRUE, -1)

Entry(p, l, e) == [pos |-> p, line |-> l, ev |-> e]
EntryKinds == {<<1, {"LINE"}>>, <<2, {"LINE"}>>, <<1, {"CALL"}>>, <<2, {}>>}

\* The insns_info tables: an entry at 0, then any choice at 1..3.
Infos ==
    { SelectSeq(<<Entry(0, k0[1], k0[2]), Entry(1, k1[1], k1[2]), Entry(2, k2[1], k2[2]),
                  Entry(3, k3[1], k3[2])>>, LAMBDA e : e.line # 0) :
        k0 \in EntryKinds, k1 \in EntryKinds \cup {<<0, {}>>},
        k2 \in EntryKinds \cup {<<0, {}>>}, k3 \in EntryKinds \cup {<<0, {}>>} }

Codes ==
    { c \in { <<a, b, d, z>> : a \in {Emits0, Emits2}, b \in {Emits0, Emits2, Label, Dead},
                               d \in {Emits0, Emits2, Label, Dead},
                               z \in {LeaveI, Branch(1), Branch(2)} } :
        \A q \in 1..4 : c[q].br >= 0 => c[c[q].br + 1].live }

MCPrograms ==
    { [code |-> c, info |-> i, opt |-> TRUE, catch |-> TRUE] : c \in Codes, i \in Infos }
    \cup { [code |-> <<Emits2, Emits0, Label, LeaveI>>, info |-> <<Entry(0, 1, {"LINE"})>>,
            opt |-> FALSE, catch |-> FALSE] }
=============================================================================
