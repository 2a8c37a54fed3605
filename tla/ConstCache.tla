----------------------------- MODULE ConstCache -----------------------------
(***************************************************************************)
(* The constant caches of rtl_exec.c for one insn site.                    *)
(*                                                                         *)
(* A site loads one constant either through const_cached_val_ld ("ld"),    *)
(* whose miss path looks the constant up and refills the cache, or through *)
(* the get_inline_cache / set_inline_cache pair ("getset") around an       *)
(* uncached lookup.  The JIT copies the cache into its code and tests the  *)
(* copy with mjit_const_cached_val_ld or mjit_get_inline_cache.  Loads of  *)
(* other sites (const_ld_val) share the global constant state and the      *)
(* const_missing counter.                                                  *)
(*                                                                         *)
(* The cache is valid while its serial equals the global constant state,   *)
(* which every constant (re)definition bumps.  A lookup that had to call   *)
(* const_missing leaves ruby_vm_const_missing_count > 0, and the refill    *)
(* then stores a serial below the state, so the cache never hits.          *)
(***************************************************************************)
EXTENDS Integers

CONSTANTS
    Contexts,   \* crefs the site's loads run under
    KeyCrefs,   \* contexts whose chain has an eval-pushed or singleton cref
    OwnScope,   \* contexts whose lookup depends on their own cref
    Values,     \* values a constant or const_missing may produce
    Sites,      \* [form, ctxs]: the insn form and the contexts it runs under
    W,          \* bits of rb_serial_t in the model
    MaxState,   \* bound on the global constant state
    MaxMissing  \* bound on ruby_vm_const_missing_count

\* A lookup that depends on a context's own cref has that cref as its key.
ASSUME OwnScope \subseteq KeyCrefs

VARIABLES
    site,       \* the insn site
    konst,      \* konst[s]: the constant's binding in scope s, or Undef
    gs,         \* GET_GLOBAL_CONSTANT_STATE()
    mc,         \* ruby_vm_const_missing_count
    ic,         \* the site's IC: [serial, cref, value]
    jit,        \* the IC as copied into JIT code, or NoJit
    pending,    \* context of a get_inline_cache miss whose path runs next
    out         \* the last load of any site

vars == <<site, konst, gs, mc, ic, jit, pending, out>>

Undef == "undef"
None == [ctx |-> "none"]
NULL == "null"
NoPath == "nopath"
NoJit == [serial |-> -1, cref |-> NULL, value |-> Undef]
Lexical == "lexical"

\* rb_serial_t arithmetic.
Serial(x) == x % (2 ^ W)

\* rb_vm_get_cref(GET_EP()) and vm_get_const_key_cref(GET_EP()).
rb_vm_get_cref(e) == e
vm_get_const_key_cref(e) == IF e \in KeyCrefs THEN e ELSE NULL

\* The binding a lookup from e finds: eval-pushed crefs are skipped, so only
\* a singleton cref gives e a scope of its own.
Scope(e) == IF e \in OwnScope THEN e ELSE Lexical
Scopes == {Scope(e) : e \in Contexts}
SiteScopes == {Scope(e) : e \in site.ctxs}

Emit(e, v, m) == out' = [ctx |-> e, got |-> v, missing |-> m]

\* vm_get_ev_const: the constant when it is bound; otherwise const_missing,
\* whose Ruby code may (re)bind one constant, bumping the state, and whose
\* result counts in ruby_vm_const_missing_count.
Lookups(e) ==
    IF konst[Scope(e)] # Undef
    THEN {[val |-> konst[Scope(e)], missing |-> FALSE, konst |-> konst, gs |-> gs]}
    ELSE {[val |-> r, missing |-> TRUE, konst |-> k, gs |-> gs + (IF k = konst THEN 0 ELSE 1)] :
            r \in Values,
            k \in {konst} \cup {[konst EXCEPT ![s] = v] :
                                  s \in SiteScopes, v \in Values \cup {Undef}}}

\* Bound: a lookup keeps the state within MaxState.
Bounded(l) == l.gs <= MaxState

ApplyLookup(l) == konst' = l.konst /\ gs' = l.gs

\* A refill that ignores ruby_vm_const_missing_count.
RefillNoMissingCount(e, l) ==
    /\ ic' = [serial |-> Serial(l.gs), cref |-> vm_get_const_key_cref(e), value |-> l.val]
    /\ mc' = 0

\* The refill of const_cached_val_ld_f and of vm_ic_update: the value, the
\* key cref and the state less the const_missing count, which is reset.
Refill(e, l) ==
    /\ ic' = [serial |-> Serial(l.gs - (mc + (IF l.missing THEN 1 ELSE 0))),
              cref |-> vm_get_const_key_cref(e), value |-> l.val]
    /\ mc' = 0

\* A hit test that ignores the key cref.
HitAnyCref(e) == ic.serial = Serial(gs)

\* The hit test of const_cached_val_ld_f and vm_ic_hit_p.
Hit(e) ==
    /\ ic.serial = Serial(gs)
    /\ ic.cref = NULL \/ ic.cref = rb_vm_get_cref(e)

Runs(e) == pending = NoPath /\ e \in site.ctxs

const_cached_val_ld_f(e) ==
    /\ site.form = "ld"
    /\ Runs(e)
    /\ \/ /\ Hit(e)
          /\ Emit(e, ic.value, FALSE)
          /\ UNCHANGED <<konst, gs, mc, ic>>
       \/ /\ ~Hit(e)
          /\ \E l \in Lookups(e) : Bounded(l) /\ ApplyLookup(l) /\ Refill(e, l) /\ Emit(e, l.val, l.missing)
    /\ UNCHANGED <<site, jit, pending>>

\* A miss assigns nil and falls through to the path that computes the
\* constant.
get_inline_cache_f(e) ==
    /\ site.form = "getset"
    /\ Runs(e)
    /\ \/ /\ Hit(e)
          /\ Emit(e, ic.value, FALSE)
          /\ UNCHANGED pending
       \/ /\ ~Hit(e)
          /\ pending' = e
          /\ UNCHANGED out
    /\ UNCHANGED <<site, konst, gs, mc, ic, jit>>

\* The path's const_ld_val, then set_inline_cache_f with its result.  No
\* insn between them checks interrupts, so nothing else runs in between.
set_inline_cache_f ==
    /\ pending # NoPath
    /\ \E l \in Lookups(pending) :
          Bounded(l) /\ ApplyLookup(l) /\ Refill(pending, l) /\ Emit(pending, l.val, l.missing)
    /\ pending' = NoPath
    /\ UNCHANGED <<site, jit>>

\* const_ld_val_f at another site of the same body: an uncached lookup.
const_ld_val_f(e) ==
    /\ Runs(e)
    /\ \E l \in Lookups(e) :
          /\ Bounded(l)
          /\ l.missing => mc < MaxMissing
          /\ ApplyLookup(l)
          /\ mc' = mc + (IF l.missing THEN 1 ELSE 0)
          /\ Emit(e, l.val, l.missing)
    /\ UNCHANGED <<site, ic, jit, pending>>

\* The JIT compiles the site with a copy of its filled IC.
JitCompile ==
    /\ jit = NoJit
    /\ ic.serial # 0
    /\ jit' = ic
    /\ UNCHANGED <<site, konst, gs, mc, ic, pending, out>>

\* mjit_const_cached_val_ld and mjit_get_inline_cache test the copy; only
\* a copy with no key cref is used.  On failure the JIT code is dropped and
\* the insn runs again in the interpreter.
mjit_const_cached_val_ld(e) ==
    /\ jit # NoJit
    /\ Runs(e)
    /\ \/ /\ jit.serial = Serial(gs) /\ jit.cref = NULL
          /\ Emit(e, jit.value, FALSE)
          /\ UNCHANGED jit
       \/ /\ ~(jit.serial = Serial(gs) /\ jit.cref = NULL)
          /\ jit' = NoJit
          /\ UNCHANGED out
    /\ UNCHANGED <<site, konst, gs, mc, ic, pending>>

\* A constant definition or removal bumps the state.
Redefine ==
    /\ pending = NoPath
    /\ gs < MaxState
    /\ \E s \in SiteScopes, v \in Values \cup {Undef} :
          /\ v # konst[s]
          /\ konst' = [konst EXCEPT ![s] = v]
    /\ gs' = gs + 1
    /\ UNCHANGED <<site, mc, ic, jit, pending, out>>

Init ==
    /\ site \in Sites
    /\ konst \in {k \in [Scopes -> Values \cup {Undef}] : \A s \in Scopes \ SiteScopes : k[s] = Undef}
    /\ gs = 1
    /\ mc = 0
    /\ ic = [serial |-> 0, cref |-> NULL, value |-> Undef]
    /\ jit = NoJit
    /\ pending = NoPath
    /\ out = None

Next ==
    \/ \E e \in Contexts :
          \/ const_cached_val_ld_f(e)
          \/ get_inline_cache_f(e)
          \/ const_ld_val_f(e)
          \/ mjit_const_cached_val_ld(e)
    \/ set_inline_cache_f
    \/ JitCompile
    \/ Redefine

Spec == Init /\ [][Next]_vars

-----------------------------------------------------------------------------
(***************************************************************************)
(* Properties.                                                             *)
(***************************************************************************)
ConstAbstract == INSTANCE ConstLookup

\* Every load of the site, whether it hits the IC, hits the JIT copy or
\* refills, and every load of another site, returns the constant's binding
\* as seen from its cref at that moment, and calls const_missing exactly
\* when there is none: a cache filled from const_missing's result, from
\* another singleton cref or before a redefinition is never used.
ConstRefined == ConstAbstract!Spec
=============================================================================
