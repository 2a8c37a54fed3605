---------------------------- MODULE MC_IvarCall -----------------------------
(***************************************************************************)
(* Two objects of a class with two ivars; the embedded array is scaled     *)
(* down to one slot so that both growths of rb_ivar_set happen.            *)
(***************************************************************************)
EXTENDS IvarCall

MCObjs == {"o1", "o2"}
MCIvars == {"a", "b"}
MCValues == {"v1", "v2"}
MCEmbedLen == 1
=============================================================================
