----------------------------- MODULE MCSmmProxy -----------------------------
(***************************************************************************)
(* Instances of SmmProxy for TLC: the orders in which readdir may list the *)
(* two extension libraries, and the case where only one is installed.      *)
(***************************************************************************)
EXTENDS SmmProxy

NetconfFirst  == <<"netconf", "atsample">>
AtsampleFirst == <<"atsample", "netconf">>
AtsampleOnly  == <<"atsample">>
=============================================================================
