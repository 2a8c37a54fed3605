--------------------------- MODULE MC_ConstCache ----------------------------
(***************************************************************************)
(* Two sites: one in a method body, run plainly (p) and under              *)
(* instance_eval (ev, an eval-pushed cref whose lookup is still lexical),  *)
(* and one in a class << obj body run for two objects (s1, s2, each with  *)
(* its own singleton scope).  Each site is tried in both insn forms.       *)
(***************************************************************************)
EXTENDS ConstCache

LexContexts == {"p", "ev"}
SingletonContexts == {"s1", "s2"}
MCContexts == LexContexts \cup SingletonContexts
MCKeyCrefs == {"ev", "s1", "s2"}
MCOwnScope == {"s1", "s2"}
MCValues == {"v1", "v2"}
SitesOf(c) == {[form |-> f, ctxs |-> c] : f \in {"ld", "getset"}}
LexSites == SitesOf(LexContexts)
SingletonSites == SitesOf(SingletonContexts)
MCSites == LexSites \cup SingletonSites
MCW == 3
MCMaxState == 3
MCMaxMissing == 2
=============================================================================
