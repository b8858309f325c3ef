---------------------------- MODULE MCDataCalls -----------------------------
(***************************************************************************)
(* Instances of DataCalls for TLC.  AuthModes: 0, 1 and 2 are the modes of *)
(* DcContextInterface::AuthType; AT+XGAUTH looks for others before it has  *)
(* parsed the mode, and so accepts 3 as well.                              *)
(***************************************************************************)
EXTENDS DataCalls

One == {1}
OneOrTwo == {1, 2}
Chap == {2}
AnyMode == {1, 3}
Internet == {"internet"}
=============================================================================
