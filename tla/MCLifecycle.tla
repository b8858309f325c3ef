---------------------------- MODULE MCLifecycle -----------------------------
(***************************************************************************)
(* The instance of Lifecycle for TLC: a directory with the core's library, *)
(* the two extensions, one that is not valid, and a second name for each   *)
(* of two, the links that an installed shared library may have.            *)
(***************************************************************************)
EXTENDS Lifecycle

Directory == <<"libsmm_bad.so", "libsmm_netconf.so", "libsmm_core.so", "libsmm_atsample.so",
               "libsmm_link.so", "libsmm_again.so">>
Extensions == {"libsmm_bad.so", "libsmm_netconf.so", "libsmm_atsample.so", "libsmm_link.so",
               "libsmm_again.so"}
Library == [e \in Extensions |->
               CASE e = "libsmm_bad.so" -> "bad"
                 [] e \in {"libsmm_netconf.so", "libsmm_again.so"} -> "netconf"
                 [] e \in {"libsmm_atsample.so", "libsmm_link.so"} -> "atsample"]
Bad == {"bad"}
=============================================================================
