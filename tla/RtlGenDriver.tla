---------------------------- MODULE RtlGenDriver ----------------------------
(***************************************************************************)
(* rtl_gen (src/rtl_gen.c): the driver of one compilation and the debug    *)
(* tables it builds.                                                       *)
(*                                                                         *)
(*  - The per-insn part of translate_stack_insn that carries the source's  *)
(*    line events to the RTL being emitted: pos_event through the          *)
(*    insn_info_entry_ind map, combined_event_p, the nop inserted when two *)
(*    events of different lines would fall on one RTL insn, add_event and  *)
(*    the new_insn_offsets entry of the position.                          *)
(*  - create_rtl_insn_info_table: its counting pass, its filling pass and  *)
(*    the switch-off entries that bound a line event to its insn.          *)
(*  - The order in which rtl_gen writes the iseq: cd data, rtl_encoded and *)
(*    rtl_size, the relocated branches, param.opt_table, the insn info     *)
(*    table and the catch table, with every allocation that can fail and   *)
(*    the longjmp of a failed VARR growth.                                 *)
(*                                                                         *)
(* A source insn is abstracted to the lengths of the RTL insns tune_stack  *)
(* emits before it (pre) and that the insn itself emits (emit), whether it *)
(* is reachable (live) and, for a branch, its target (br, or -1).  The     *)
(* stack analysis, which decides those, is the StackAnalyzer module.       *)
(***************************************************************************)
EXTENDS Integers, Sequences, SequencesExt, FiniteSets

CONSTANTS
    Programs    \* [code: Seq of insns, info: Seq of [pos, line, ev], opt: BOOLEAN, catch: BOOLEAN]

VARIABLES
    prog,       \* curr_iseq: the stack insns and their insns_info table
    phase,      \* the step of rtl_gen being executed
    spos,       \* curr_source_insn_pos (0-based)
    rtl,        \* iseq_rtl: the lengths of the RTL insns emitted so far
    evpos,      \* rtl_insn_event_positions
    evs,        \* rtl_insn_events
    offs,       \* new_insn_offsets: source position -> RTL position
    brnext,     \* branch_target_locs: a branch's next_insn_pc, by source position
    brdest,     \* the branch operand in rtl_encoded after relocation
    iseq,       \* the fields of curr_iseq->body written so far
    freed,      \* the blocks written into the iseq and then freed
    table,      \* rtl_insns_info once built: [size, pos, ent]
    result      \* the value rtl_gen returned, once phase is "returned"

vars == <<prog, phase, spos, rtl, evpos, evs, offs, brnext, brdest, iseq, freed, table, result>>

None == [def |-> FALSE]
N == Len(prog.code)
Insn(p) == prog.code[p + 1]

\* The size of iseq_rtl and the position of each RTL insn.
RtlSize(r) == FoldLeft(LAMBDA a, b : a + b, 0, r)
Starts(r) == {RtlSize(SubSeq(r, 1, k)) : k \in 0..(Len(r) - 1)}
\* insn_len(rtl_encoded[p]) for p the start of an RTL insn.
LenAt(r, p) == LET k == CHOOSE k \in 1..Len(r) : RtlSize(SubSeq(r, 1, k - 1)) = p IN r[k]

(***************************************************************************)
(* The source events.  rtl_gen first maps each stack position to its      *)
(* insns_info entry, dropping the entries that only switch a line event    *)
(* off (insn_info_entry_ind); pos_event reads the entry through the map.   *)
(***************************************************************************)
KeptEntry(i) ==
    LET e == prog.info[i] IN
    e.ev # {} \/ i = 1 \/ "LINE" \notin prog.info[i - 1].ev \/ prog.info[i - 1].line # e.line

insn_info_entry_ind ==
    [p \in 0..(N - 1) |->
        IF \E i \in DOMAIN prog.info : prog.info[i].pos = p /\ KeptEntry(i)
        THEN CHOOSE i \in DOMAIN prog.info : prog.info[i].pos = p
        ELSE -1]

pos_event(p) ==
    LET ind == insn_info_entry_ind[p] IN
    IF p >= N \/ ind < 0 THEN None
    ELSE [def |-> TRUE, line |-> prog.info[ind].line, ev |-> prog.info[ind].ev]

\* Mutant: events of different lines combined, the first line kept.
combined_event_p_anyline(e1, e2) ==
    CASE ~e1.def -> e2
      [] ~e2.def -> e1
      [] OTHER -> [e1 EXCEPT !.ev = e1.ev \cup e2.ev]

\* Two events can share an RTL insn when they are on the same line; the
\* result carries the union of their event flags.
combined_event_p(e1, e2) ==
    CASE ~e1.def -> e2
      [] ~e2.def -> e1
      [] e1.line # e2.line -> None
      [] OTHER -> [e1 EXCEPT !.ev = e1.ev \cup e2.ev]

(***************************************************************************)
(* create_rtl_insn_info_table.  The first position is moved to 0; the     *)
(* counting pass sizes the allocation by the switch-off entries needed    *)
(* after each line event whose next insn has no entry of its own; the     *)
(* filling pass writes the entries and those switch-off entries.          *)
(***************************************************************************)
ShiftedPositions(ps) == IF ps # <<>> /\ ps[1] # 0 THEN [ps EXCEPT ![1] = 0] ELSE ps

\* Mutant: the end-of-code case forgotten in the counting pass.
NeedsSwitchOffNoEnd(r, ps, es, i) ==
    LET next == ps[i] + LenAt(r, ps[i]) IN
    /\ "LINE" \in es[i].ev
    /\ i < Len(ps) /\ next # ps[i + 1]

NeedsSwitchOff(r, ps, es, i) ==
    LET next == ps[i] + LenAt(r, ps[i]) IN
    /\ "LINE" \in es[i].ev
    /\ \/ i < Len(ps) /\ next # ps[i + 1]
       \/ i = Len(ps) /\ next < RtlSize(r)

\* Mutant: the allocation sized by the recorded events alone.
InfoTableSizeNoSwitchOff(r, ps, es) == Len(ps)
InfoTableSize(r, ps, es) == Len(ps) + Cardinality({i \in DOMAIN ps : NeedsSwitchOff(r, ps, es, i)})

\* The filling pass (the same switch-off test as the counting pass, then a
\* second test on the entry just written): the sequence of [pos, line, ev] written to positions[]
\* and entries[], in the order the loop writes them.
FillInfoTable(r, ps, es) ==
    LET n == Len(ps)
        RECURSIVE Fill(_, _)
        Fill(i, acc) ==
            IF i > n THEN acc
            ELSE LET next == ps[i] + LenAt(r, ps[i])
                     a1 == Append(acc, [pos |-> ps[i], line |-> es[i].line, ev |-> es[i].ev])
                     off == NeedsSwitchOff(r, ps, es, i)
                     a2 == IF off THEN Append(a1, [pos |-> next, line |-> Last(a1).line, ev |-> {}]) ELSE a1
                     p2 == Last(a2).pos + LenAt(r, Last(a2).pos)
                     again == /\ "LINE" \in Last(a2).ev
                              /\ (i < n /\ ps[i + 1] # p2) \/ (i = n /\ p2 < RtlSize(r))
                     a3 == IF again THEN Append(a2, [pos |-> p2, line |-> Last(a2).line, ev |-> {}]) ELSE a2
                 IN Fill(i + 1, a3)
    IN Fill(1, <<>>)

NoTable == [size |-> -1, written |-> <<>>]

create_rtl_insn_info_table ==
    LET ps == ShiftedPositions(evpos)
    IN [size |-> InfoTableSize(rtl, ps, evs), written |-> FillInfoTable(rtl, ps, evs)]
(***************************************************************************)
(* The event part of translate_stack_insn for one source position.  A     *)
(* reachable insn: tune_stack's moves, then the position's event is       *)
(* attached to the next RTL insn, combined with an event already there,   *)
(* or, for a different line, placed after a nop; new_insn_offsets[pos] is *)
(* the RTL position after all of that; then the insn's own RTL.  An        *)
(* unreachable insn emits nothing and carries no event.                   *)
(***************************************************************************)
\* Mutant: the position's offset taken before the separating nop.
InsnStartBeforeNop(r1, r2) == RtlSize(r1)
InsnStart(r1, r2) == RtlSize(r2)
\* Mutant: the event recorded before the nop that separates it.
EventPositionBeforeNop(r1, r2) == RtlSize(r1)
EventPosition(r1, r2) == RtlSize(r2)

TranslateInsn ==
    /\ phase = "translate"
    /\ spos < N
    /\ LET s == Insn(spos) IN
       IF ~s.live
       THEN /\ offs' = [offs EXCEPT ![spos] = RtlSize(rtl)]
            /\ UNCHANGED <<rtl, evpos, evs, brnext>>
       ELSE LET r1 == rtl \o s.pre
                rp == RtlSize(r1)
                e == pos_event(spos)
                collide == e.def /\ evpos # <<>> /\ Last(evpos) = rp
                c == combined_event_p(Last(evs), e)
                nop == collide /\ ~c.def
                r2 == IF nop THEN Append(r1, 1) ELSE r1
            IN /\ evs' = CASE collide /\ c.def -> [evs EXCEPT ![Len(evs)] = c]
                            [] e.def -> Append(evs, e)
                            [] OTHER -> evs
               /\ evpos' = IF e.def /\ ~(collide /\ c.def) THEN Append(evpos, EventPosition(r1, r2)) ELSE evpos
               /\ offs' = [offs EXCEPT ![spos] = InsnStart(r1, r2)]
               /\ rtl' = r2 \o s.emit
               /\ brnext' = IF s.br >= 0 THEN [brnext EXCEPT ![spos] = RtlSize(r2 \o s.emit)] ELSE brnext
    /\ spos' = spos + 1
    /\ UNCHANGED <<prog, phase, brdest, iseq, freed, table, result>>

(***************************************************************************)
(* The steps of rtl_gen.  A failing allocation makes it return FALSE; a   *)
(* VARR that cannot grow longjmps to rtl_gen_jump_buf, which does the     *)
(* same.  Whatever was written into the iseq by then stays.               *)
(***************************************************************************)
Return(v) == phase' = "returned" /\ result' = v
\* ALLOC_N, xmalloc and ruby_xmalloc of the Ruby VM raise NoMemoryError
\* instead of returning NULL; rtl_gen is then left without returning.
Raise == phase' = "raised" /\ UNCHANGED result
\* A failed allocation: NULL, which the code checks for, or the raise.
AllocFailure == Return(FALSE) \/ Raise

Init ==
    /\ prog \in Programs
    /\ phase = "start"
    /\ spos = 0
    /\ rtl = <<>>
    /\ evpos = <<>>
    /\ evs = <<>>
    /\ offs = [p \in 0..(N - 1) |-> 0]
    /\ brnext = [p \in 0..(N - 1) |-> 0]
    /\ brdest = [p \in 0..(N - 1) |-> 0]
    /\ iseq = {}
    /\ freed = {}
    /\ table = NoTable
    /\ result = FALSE

\* create_cd_data: the call data are installed only when allocated.
CreateCdData ==
    /\ phase = "start"
    /\ \/ iseq' = iseq \cup {"cd_entries"} /\ phase' = "analyze" /\ UNCHANGED result
       \/ AllocFailure /\ UNCHANGED iseq
    /\ UNCHANGED <<prog, spos, rtl, evpos, evs, offs, brnext, brdest, freed, table>>

\* The insn_info_entry_ind setup and find_stack_values_on_labels.
Analyze ==
    /\ phase = "analyze"
    /\ phase' = "translate"
    /\ UNCHANGED <<prog, spos, rtl, evpos, evs, offs, brnext, brdest, iseq, freed, table, result>>

\* varr_malloc_failure during the analysis or the translation.
VarrFailure ==
    /\ phase \in {"analyze", "translate"}
    /\ Return(FALSE)
    /\ UNCHANGED <<prog, spos, rtl, evpos, evs, offs, brnext, brdest, iseq, freed, table>>

TranslateDone ==
    /\ phase = "translate"
    /\ spos = N
    /\ phase' = "encode"
    /\ UNCHANGED <<prog, spos, rtl, evpos, evs, offs, brnext, brdest, iseq, freed, table, result>>

\* rtl_encoded, rtl_size and temp_vars_num are assigned before the NULL check.
AllocRtlEncoded ==
    /\ phase = "encode"
    /\ \/ iseq' = iseq \cup {"rtl_encoded", "rtl_size", "temp_vars_num"} /\ phase' = "relocate"
          /\ UNCHANGED result
       \/ iseq' = iseq \cup {"rtl_size", "temp_vars_num"} /\ Return(FALSE)
       \/ Raise /\ UNCHANGED iseq
    /\ UNCHANGED <<prog, spos, rtl, evpos, evs, offs, brnext, brdest, freed, table>>

\* Each branch operand, which holds the target's stack position, becomes
\* new_insn_offsets[dest] - next_insn_pc; then setup_opt_table rewrites
\* param.opt_table in place when there are optional parameters.
Relocate ==
    /\ phase = "relocate"
    /\ brdest' = [q \in 0..(N - 1) |->
                    IF Insn(q).live /\ Insn(q).br >= 0 THEN offs[Insn(q).br] - brnext[q] ELSE 0]
    /\ iseq' = iseq \cup (IF prog.opt THEN {"opt_table"} ELSE {})
    /\ phase' = "info"
    /\ UNCHANGED <<prog, spos, rtl, evpos, evs, offs, brnext, freed, table, result>>

\* create_rtl_insn_info_table: the size is stored, then body and positions
\* are allocated; when positions is NULL, body is freed but stays in the
\* iseq.
CreateInsnInfoTable ==
    /\ phase = "info"
    /\ \/ /\ iseq' = iseq \cup {"info_size", "info_body", "info_positions"}
          /\ table' = create_rtl_insn_info_table
          /\ phase' = "catch"
          /\ UNCHANGED <<freed, result>>
       \/ /\ iseq' = iseq \cup {"info_size"}
          /\ AllocFailure
          /\ UNCHANGED <<freed, table>>
       \/ /\ iseq' = iseq \cup {"info_size", "info_body"}
          /\ freed' = freed \cup {"info_body"}
          /\ Return(FALSE)
          /\ UNCHANGED table
       \/ /\ iseq' = iseq \cup {"info_size", "info_body"}
          /\ Raise
          /\ UNCHANGED <<freed, table>>
    /\ UNCHANGED <<prog, spos, rtl, evpos, evs, offs, brnext, brdest>>

\* create_rtl_catch_table: nothing to do without a catch table.
CreateCatchTable ==
    /\ phase = "catch"
    /\ \/ ~prog.catch /\ Return(TRUE) /\ UNCHANGED iseq
       \/ prog.catch /\ iseq' = iseq \cup {"rtl_catch_table"} /\ Return(TRUE)
       \/ prog.catch /\ AllocFailure /\ UNCHANGED iseq
    /\ UNCHANGED <<prog, spos, rtl, evpos, evs, offs, brnext, brdest, freed, table>>

\* rtl_gen has returned or raised; its caller goes on.
Returned ==
    /\ phase \in {"returned", "raised"}
    /\ UNCHANGED vars

Next ==
    \/ CreateCdData \/ Analyze \/ VarrFailure \/ TranslateInsn \/ TranslateDone
    \/ AllocRtlEncoded \/ Relocate \/ CreateInsnInfoTable \/ CreateCatchTable \/ Returned

Spec == Init /\ [][Next]_vars
-----------------------------------------------------------------------------
IseqFields == {"cd_entries", "rtl_encoded", "rtl_size", "temp_vars_num", "opt_table",
               "info_size", "info_body", "info_positions", "rtl_catch_table"}
Phases == {"start", "analyze", "translate", "encode", "relocate", "info", "catch", "returned", "raised"}

TypeOK ==
    /\ prog.code \in Seq([pre: Seq(Nat \ {0}), emit: Seq(Nat \ {0}), live: BOOLEAN, br: Int])
    /\ phase \in Phases
    /\ spos \in 0..N
    /\ rtl \in Seq(Nat \ {0})
    /\ Len(evpos) = Len(evs)
    /\ offs \in [0..(N - 1) -> Nat]
    /\ brnext \in [0..(N - 1) -> Nat]
    /\ brdest \in [0..(N - 1) -> Int]
    /\ iseq \subseteq IseqFields
    /\ freed \subseteq IseqFields
    /\ result \in BOOLEAN

\* The entry of the table that the VM's position lookup finds for RTL
\* position p: the last one at or before p.
Governing(w, p) == w[CHOOSE k \in DOMAIN w : w[k].pos <= p /\ \A j \in DOMAIN w : j > k => w[j].pos > p]

\* The lines of the line events, in order, with repeats of one line merged.
RECURSIVE MergeRepeats(_)
MergeRepeats(s) ==
    IF Len(s) < 2 THEN s
    ELSE IF s[1] = s[2] THEN MergeRepeats(Tail(s)) ELSE <<s[1]>> \o MergeRepeats(Tail(s))
LineTrace(es) ==
    LET lineEvents == SelectSeq(es, LAMBDA e : "LINE" \in e.ev)
    IN MergeRepeats([k \in 1..Len(lineEvents) |-> lineEvents[k].line])

\* The events pos_event gives the reachable stack insns, in order.
LiveEventPositions == SelectSeq([j \in 1..N |-> j - 1], LAMBDA q : Insn(q).live /\ pos_event(q).def)
LiveSourceEvents == [k \in 1..Len(LiveEventPositions) |-> pos_event(LiveEventPositions[k])]

\* The insn info table create_rtl_insn_info_table fills has exactly the
\* number of entries its counting pass allocated: no write past the end of
\* positions[] and entries[], and no entry left unwritten (the assert at
\* the end of the function).
TableFitsAllocation == table # NoTable => Len(table.written) = table.size

\* The RTL positions of the table are strictly increasing, as the VM's
\* lookup by position needs, and a line event is found only at the RTL insn
\* it was recorded for: the switch-off entries end it at the next insn
\* (translate_stack_insn's event placement, create_rtl_insn_info_table).
LineEventsBounded ==
    table # NoTable /\ table.written # <<>> =>
        LET w == table.written IN
        /\ \A j, k \in DOMAIN w : j < k => w[j].pos < w[k].pos
        /\ \A p \in Starts(rtl) : "LINE" \in Governing(w, p).ev => Governing(w, p).pos = p

\* Every line event of a reachable stack insn reaches the RTL table, in the
\* order of the stack code: events are combined only on the same line and
\* a nop keeps events of two lines apart (combined_event_p, the nop of
\* translate_stack_insn).
LinesInOrder == table # NoTable => LineTrace(table.written) = LineTrace(LiveSourceEvents)

\* A branch to a stack insn with a line event lands, at next_insn_pc plus
\* its relocated offset, on an RTL insn that has that line event in the
\* insn info table, also when the event had to be placed after a nop.
BranchLandsOnEvent ==
    table # NoTable =>
        \A q \in 0..(N - 1) :
            LET t == Insn(q).br IN
            (Insn(q).live /\ t >= 0 /\ pos_event(t).def /\ "LINE" \in pos_event(t).ev) =>
                \E k \in DOMAIN table.written :
                    table.written[k].pos = brnext[q] + brdest[q] /\ "LINE" \in table.written[k].ev

\* spec.md (error class (c)): a compilation that fails on an allocation
\* leaves no partially installed RTL bytecode in the iseq, whether rtl_gen
\* returns FALSE or the allocator raises (rtl_gen, setup_opt_table,
\* create_rtl_insn_info_table, create_rtl_catch_table).
FailureLeavesNoBytecode ==
    (phase = "returned" /\ ~result) \/ phase = "raised" => iseq \cap {"rtl_encoded", "opt_table", "info_body", "info_positions"} = {}

\* No block that rtl_gen freed is still referenced from the iseq
\* (create_rtl_insn_info_table's failure path).
NoFreedBlockInstalled == iseq \cap freed = {}
====
