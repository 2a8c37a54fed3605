------------------------------ MODULE IvarCall ------------------------------
(***************************************************************************)
(* The attr_reader / attr_writer call speculation of JIT code:             *)
(* mjit_call_ivar and mjit_call_setivar read or write an instance variable *)
(* slot by the index the call cache holds, and fail (return TRUE) to the   *)
(* general call when the receiver is not a T_OBJECT or the index is not    *)
(* usable.                                                                 *)
(*                                                                         *)
(* The objects are of one class, so the call cache's class check passes.   *)
(* The class keeps one index per ivar name, given when any of its objects  *)
(* first sets it.  An object's ivptr has ROBJECT_NUMIV slots; a slot of an *)
(* ivar the object never set, or removed, holds Qundef.                    *)
(***************************************************************************)
EXTENDS Integers, Sequences, FiniteSets

CONSTANTS
    Objs,           \* the receivers
    Ivars,          \* ivar names of the class
    Values,         \* values an ivar may be set to
    EMBED_LEN_MAX   \* ROBJECT_EMBED_LEN_MAX

VARIABLES
    attr,   \* the ivar the attr_reader / attr_writer accesses
    tbl,    \* the class's iv_index_tbl: 1-based index of each name, 0 if none
    obj,    \* obj[o]: [ivptr, frozen]
    cc,     \* cc->aux.index of the reader and the writer call site
    out     \* the last call: [call, got, ref]

vars == <<attr, tbl, obj, cc, out>>

Qundef == "undef"
Qnil == "nil"
Raise == "raise"
None == [call |-> "none", got |-> "none", ref |-> "none"]

NUMIV(o) == Len(obj[o].ivptr)

\* What the ivar reads as in Ruby: nil when it has no slot or its slot is
\* Qundef.
IvarGet(o, n) ==
    IF tbl[n] > 0 /\ tbl[n] <= NUMIV(o) /\ obj[o].ivptr[tbl[n]] # Qundef
    THEN obj[o].ivptr[tbl[n]] ELSE Qnil

\* rb_ivar_set: register the name, grow the slots (the embedded array
\* first, then to the index) padding with Qundef, store.
IvarSet(o, n, v) ==
    LET idx == IF tbl[n] > 0 THEN tbl[n] ELSE Cardinality({m \in Ivars : tbl[m] > 0}) + 1
        len == IF idx <= NUMIV(o) THEN NUMIV(o)
               ELSE IF idx <= EMBED_LEN_MAX THEN EMBED_LEN_MAX ELSE idx
        grown == [i \in 1..len |-> IF i <= NUMIV(o) THEN obj[o].ivptr[i] ELSE Qundef]
    IN [tbl |-> [tbl EXCEPT ![n] = idx],
        obj |-> [obj EXCEPT ![o].ivptr = [grown EXCEPT ![idx] = v]]]

\* The ivars as Ruby sees them, and whether the call raised.
Seen(t, ob, o, raised) ==
    [raised |-> raised,
     ivs |-> [n \in Ivars |-> IF t[n] > 0 /\ t[n] <= Len(ob[o].ivptr) /\ ob[o].ivptr[t[n]] # Qundef
                              THEN ob[o].ivptr[t[n]] ELSE Qnil]]

\* The reader call of JIT code: mjit_call_ivar with the reader's cache
\* index, or, when it fails, the general attr_reader call, which fills the
\* index once the name is registered.
CallIvar(o) ==
    LET index == cc.r IN
    /\ \/ /\ index > 0
          /\ out' = [call |-> "get", got |-> IF index <= NUMIV(o) THEN obj[o].ivptr[index] ELSE Qnil,
                     ref |-> IvarGet(o, attr)]
          /\ UNCHANGED cc
       \/ /\ index = 0
          /\ out' = [call |-> "get", got |-> IvarGet(o, attr), ref |-> IvarGet(o, attr)]
          /\ cc' = [cc EXCEPT !.r = tbl[attr]]
    /\ UNCHANGED <<attr, tbl, obj>>

\* A slot test without the upper bound.
SetivarSlotNoBound(o, index) == index > 0

\* The test of mjit_call_setivar: the receiver has a slot at the index.
SetivarSlot(o, index) == index > 0 /\ index <= NUMIV(o)

\* The writer call of JIT code: mjit_call_setivar checks frozenness first,
\* then writes the slot in place when the index is within ROBJECT_NUMIV;
\* otherwise the general attr_writer call sets the ivar and fills the index.
CallSetIvar(o, v) ==
    LET index == cc.w
        set == IvarSet(o, attr, v)
        ref == IF obj[o].frozen THEN Seen(tbl, obj, o, TRUE) ELSE Seen(set.tbl, set.obj, o, FALSE)
    IN
    \/ /\ obj[o].frozen
       /\ out' = [call |-> "set", got |-> Seen(tbl, obj, o, TRUE), ref |-> ref]
       /\ UNCHANGED <<attr, tbl, obj, cc>>
    \/ /\ ~obj[o].frozen
       /\ SetivarSlot(o, index)
       /\ obj' = [obj EXCEPT ![o].ivptr[index] = v]
       /\ out' = [call |-> "set", got |-> Seen(tbl, obj', o, FALSE), ref |-> ref]
       /\ UNCHANGED <<attr, tbl, cc>>
    \/ /\ ~obj[o].frozen
       /\ ~SetivarSlot(o, index)
       /\ tbl' = set.tbl
       /\ obj' = set.obj
       /\ cc' = [cc EXCEPT !.w = set.tbl[attr]]
       /\ out' = [call |-> "set", got |-> Seen(tbl', obj', o, FALSE), ref |-> ref]
       /\ UNCHANGED attr

(***************************************************************************)
(* What other Ruby code does to the objects.                               *)
(***************************************************************************)
SetIvar(o, n, v) ==
    /\ ~obj[o].frozen
    /\ LET set == IvarSet(o, n, v) IN tbl' = set.tbl /\ obj' = set.obj
    /\ UNCHANGED <<attr, cc, out>>

\* remove_instance_variable puts Qundef back into the slot.
RemoveIvar(o, n) ==
    /\ ~obj[o].frozen
    /\ IvarGet(o, n) # Qnil
    /\ obj' = [obj EXCEPT ![o].ivptr[tbl[n]] = Qundef]
    /\ UNCHANGED <<attr, tbl, cc, out>>

Freeze(o) ==
    /\ ~obj[o].frozen
    /\ obj' = [obj EXCEPT ![o].frozen = TRUE]
    /\ UNCHANGED <<attr, tbl, cc, out>>

\* Objects start with no ivar slots (ROBJECT_NUMIV is 0).
Init ==
    /\ attr \in Ivars
    /\ tbl = [n \in Ivars |-> 0]
    /\ obj = [o \in Objs |-> [ivptr |-> <<>>, frozen |-> FALSE]]
    /\ cc = [r |-> 0, w |-> 0]
    /\ out = None

Next ==
    \E o \in Objs :
        \/ CallIvar(o)
        \/ Freeze(o)
        \/ \E v \in Values : CallSetIvar(o, v)
        \/ \E n \in Ivars : RemoveIvar(o, n) \/ \E v \in Values : SetIvar(o, n, v)

Spec == Init /\ [][Next]_vars

-----------------------------------------------------------------------------
\* attr_reader through mjit_call_ivar returns what the ivar reads as in
\* Ruby (nil when unset), for objects that set the class's ivars in any
\* order or removed some.
AttrReaderAgrees == out.call = "get" => out.got = out.ref

\* attr_writer through mjit_call_setivar leaves every ivar of the receiver
\* as rb_ivar_set would, and raises exactly when the receiver is frozen.
AttrWriterAgrees == out.call = "set" => out.got = out.ref
====
