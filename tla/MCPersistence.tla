--------------------------- MODULE MCPersistence ----------------------------
(***************************************************************************)
(* The instance of Persistence for TLC: a short and a long access point    *)
(* name, none, and one with a space; credentials whose lengths let a stale *)
(* tail begin at any label; the remains of an earlier record as garbage.   *)
(***************************************************************************)
EXTENDS Persistence

OneCid    == {Word("1", 1)}
Chap      == {Word("2", 1)}
SomeApns  == {Word("web", 3), Word("internet", 8), Empty, Word("my", 2) \o Space \o Word("own", 3)}
SomeNames == {Empty, Word("user", 4)}
SomePwds  == {Word("secret", 6)}
StackGarbage == {Empty, Word("pwd", 4) \o Word("stale", 5), Word("noise", 3)}
SomeChars == {"space", "minusOne", "0", "1", "2", "IP", "cid", "apn", "pdptype", "auth", "name", "pwd",
              "web", "internet", "my", "own", "user", "secret", "stale", "noise"} \X (1 .. 8)
=============================================================================
