---------------------------- MODULE MCAtGrammar -----------------------------
(***************************************************************************)
(* The instance of AtGrammar for TLC.  "a" stands for every character that *)
(* neither parser looks at, +CCID for the name that atsample registers.    *)
(***************************************************************************)
EXTENDS AtGrammar

NameOrLetter == {"a", "+CCID"}
=============================================================================
