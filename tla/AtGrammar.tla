----------------------------- MODULE AtGrammar ------------------------------
(***************************************************************************)
(* How the two AT parsers take a text apart.  Every extension's command    *)
(* parser is an AtCommandParser and its response parser is an              *)
(* AtResponseParser; both walk once over the text they are given, one call *)
(* of smmcore_cmd_process or smmcore_rsp_process, and hand a name, a type  *)
(* and arguments to the message that has registered the name.              *)
(*                                                                         *)
(* A text is a sequence of symbols: a character the parser treats by       *)
(* itself, a letter that stands for any other character, and in answers a  *)
(* result code, which strncmp recognises as a whole.  The behaviour is the *)
(* typing: a text grows symbol by symbol, and what the parser would make   *)
(* of it is compared at every length with a definition by positions.       *)
(***************************************************************************)
EXTENDS Integers, Sequences, FiniteSets, FiniteSetsExt, SequencesExt

CONSTANTS
    Letters,   \* characters no parser looks at
    MaxLen     \* bound: symbols of a text

ASSUME LettersAssumption == Letters # {}
ASSUME MaxLenAssumption == MaxLen \in Nat

Dropped  == {"CR", "quote"}      \* CR stands for line feed too
Marks    == {"?", "="}
Errors   == {"ERROR", "CME"}     \* ERROR and +CME ERROR
Codes    == Errors \cup {"OK"}

CommandSymbol  == Letters \cup Dropped \cup Marks \cup {"comma"}
ResponseSymbol == Letters \cup {"CR"} \cup Codes \cup {":", "comma", "space"}

ASSUME SymbolsAssumption ==
    Letters \cap (Dropped \cup Marks \cup Codes \cup {":", "comma", "space"}) = {}

VARIABLES side, text   \* who writes, and what has been written

vars == <<side, text>>

Init == side \in {"host", "modem"} /\ text = <<>>

HostTypes(s) ==
    /\ side = "host" /\ Len(text) < MaxLen
    /\ text' = Append(text, s) /\ UNCHANGED side

ModemEmits(s) ==
    /\ side = "modem" /\ Len(text) < MaxLen
    /\ text' = Append(text, s) /\ UNCHANGED side

Next == \/ \E s \in CommandSymbol : HostTypes(s)
        \/ \E s \in ResponseSymbol : ModemEmits(s)

Spec == Init /\ [][Next]_vars
-----------------------------------------------------------------------------
(***************************************************************************)
(* Commands: AtCommandParser.onDataAvailable.  "at" counts the symbols     *)
(* read, "question" is where the first question mark was, from 0.          *)
(***************************************************************************)
CommandStart == [name |-> <<>>, named |-> FALSE, type |-> "UNDEFINED",
                 args |-> <<>>, tmp |-> <<>>, question |-> 0, at |-> 0]

CommandType(type, mark) ==
    IF mark = "=" THEN "WRITE" ELSE IF type = "WRITE" THEN "TEST" ELSE "QUERY"

CommandMark(c, mark) ==
    [c EXCEPT !.name = IF c.named THEN @ ELSE c.tmp, !.named = TRUE, !.tmp = <<>>,
              !.type = CommandType(@, mark),
              !.question = IF mark = "?" /\ @ = 0 THEN c.at ELSE @]

\* Mutant: quotes are kept.
Mut_keepsQuotes(c, s) ==
    LET d == CASE s \in Marks -> CommandMark(c, s)
               [] s = "comma" /\ c.type = "WRITE" ->
                     [c EXCEPT !.args = Append(@, c.tmp), !.tmp = <<>>]
               [] s = "CR" -> c
               [] OTHER -> [c EXCEPT !.tmp = Append(@, s)]
    IN  [d EXCEPT !.at = @ + 1]

CommandStep(c, s) ==
    LET d == CASE s \in Marks -> CommandMark(c, s)
               [] s = "comma" /\ c.type = "WRITE" ->
                     [c EXCEPT !.args = Append(@, c.tmp), !.tmp = <<>>]
               [] s \in Dropped -> c
               [] OTHER -> [c EXCEPT !.tmp = Append(@, s)]
    IN  [d EXCEPT !.at = @ + 1]

\* Mutant: the last argument is kept even if it is empty.
Mut_keepsEmptyLast(c, len) ==
    [name |-> IF c.named THEN c.name ELSE c.tmp,
     type |-> IF c.type = "UNDEFINED" THEN "QUERY"
              ELSE IF c.type # "WRITE" /\ c.question \notin {0, len - 2} THEN "UNDEFINED"
              ELSE c.type,
     args |-> IF c.type = "WRITE" THEN Append(c.args, c.tmp) ELSE c.args]

\* What is left when the text has been read.  An empty last argument does not
\* count; a test or query whose question mark is not the last symbol but one
\* gets a type that no command executes.
CommandEnd(c, len) ==
    [name |-> IF c.named THEN c.name ELSE c.tmp,
     type |-> IF c.type = "UNDEFINED" THEN "QUERY"
              ELSE IF c.type # "WRITE" /\ c.question \notin {0, len - 2} THEN "UNDEFINED"
              ELSE c.type,
     args |-> IF c.type = "WRITE" /\ c.tmp # <<>> THEN Append(c.args, c.tmp) ELSE c.args]

Unparsed == [name |-> <<>>, type |-> "none", args |-> <<>>]

ParseCommand(t) ==
    IF Len(t) > 2 THEN CommandEnd(FoldLeft(CommandStep, CommandStart, t), Len(t))
    ELSE Unparsed
-----------------------------------------------------------------------------
(***************************************************************************)
(* Answers: AtResponseParser.onDataAvailable.  A result code leaves a NUL  *)
(* in tmp, behind which nothing is seen until tmp is cleared; the spaces   *)
(* after a colon are skipped.                                              *)
(***************************************************************************)
ResponseStart == [name |-> <<>>, named |-> FALSE, type |-> "URC", args |-> <<>>,
                  tmp |-> <<>>, nul |-> FALSE, skipping |-> FALSE]

Cleared(r) == [r EXCEPT !.tmp = <<>>, !.nul = FALSE]

\* Mutant: OK names the answer for good, as the errors do.
Mut_okNames(r, code) ==
    [r EXCEPT !.type = code, !.nul = TRUE, !.name = <<code>>, !.named = TRUE]

\* Only an error replaces a name that has been read.
ResponseCode(r, code) ==
    [r EXCEPT !.type = code, !.nul = TRUE,
              !.name = IF code \in Errors \/ ~r.named THEN <<code>> ELSE @,
              !.named = @ \/ code \in Errors]

ResponseColon(r) ==
    [Cleared(r) EXCEPT !.name = IF r.named THEN @ ELSE r.tmp, !.named = TRUE]

ResponseStep(r, s) ==
    LET d == IF s \in Codes THEN ResponseCode(r, s)
             ELSE IF s = ":" THEN ResponseColon(r)
             ELSE IF s = "comma" THEN [Cleared(r) EXCEPT !.args = Append(@, r.tmp)]
             ELSE IF s = "CR" \/ r.nul \/ (s = "space" /\ r.skipping) THEN r
             ELSE [r EXCEPT !.tmp = Append(@, s)]
    IN  [d EXCEPT !.skipping = s = ":" \/ (s = "space" /\ r.skipping)]

ParseResponse(t) ==
    LET r == FoldLeft(ResponseStep, ResponseStart, t)
    IN  [name |-> r.name, type |-> r.type, args |-> Append(r.args, r.tmp)]

\* The one information line that some extension registers.
Ccid == <<"+CCID">>

\* Mutant: +CCID completes the pending command without its final code.
Mut_ccidNeedsNoCode(r) ==
    \/ \E code \in Codes : r.name = <<code>>
    \/ r.name = Ccid

\* Whether the parsers take a command off the pending list, if there is one:
\* the messages of the result codes do, and +CCID if its own read ends in a
\* code, for without one it is an unsolicited message.
TakesPending(r) ==
    \/ \E code \in Codes : r.name = <<code>>
    \/ r.name = Ccid /\ r.type # "URC"
-----------------------------------------------------------------------------
(***************************************************************************)
(* The same by positions, as a reader of the text would say it.            *)
(***************************************************************************)
At(t, S)     == {i \in DOMAIN t : t[i] \in S}
Kept(t, S)   == {i \in DOMAIN t : t[i] \notin S}
FirstOf(S)   == Min(S)
LastOf(S)    == IF S = {} THEN 0 ELSE Max(S)
Rank(S, i)   == Cardinality({j \in S : j <= i})
Nth(S, k)    == CHOOSE i \in S : Rank(S, i) = k
Before(t, i) == SubSeq(t, 1, i - 1)
After(t, i)  == SubSeq(t, i + 1, Len(t))

Without(t, S) == [k \in 1 .. Cardinality(Kept(t, S)) |-> t[Nth(Kept(t, S), k)]]

\* The pieces into which the positions S cut a text.
Pieces(t, S) ==
    LET from(k) == IF k = 1 THEN 1 ELSE Nth(S, k - 1) + 1
        to(k)   == IF k > Cardinality(S) THEN Len(t) ELSE Nth(S, k) - 1
    IN  [k \in 1 .. Cardinality(S) + 1 |-> SubSeq(t, from(k), to(k))]

MarkBefore(t, i) == LastOf(At(Before(t, i), Marks))
IsWrite(t, i)    == MarkBefore(t, i) # 0 /\ t[MarkBefore(t, i)] = "="

\* Arguments end at the commas that follow an equals sign more closely than a
\* question mark, and are what follows the last mark within them.
Separators(t)   == {i \in At(t, {"comma"}) : IsWrite(t, i)}
CommandValue(f) == Without(After(f, LastOf(At(f, Marks))), Dropped)

CommandArgs(t) ==
    LET pieces == Pieces(t, Separators(t))
        all    == [i \in DOMAIN pieces |-> CommandValue(pieces[i])]
    IN  IF Last(all) = <<>> THEN Front(all) ELSE all

CommandForm(t) ==
    LET marks == At(t, Marks)
        final == LastOf(marks)
        asks  == At(t, {"?"}) \ {1}
    IN  CASE marks = {} -> "QUERY"
          [] marks # {} /\ t[final] = "=" -> "WRITE"
          [] marks # {} /\ t[final] = "?" ->
                IF asks # {} /\ FirstOf(asks) # Len(t) - 1 THEN "UNDEFINED"
                ELSE IF IsWrite(t, final) THEN "TEST" ELSE "QUERY"

\* The visible part of a stretch of answer text: up to a result code.
Visible(t) ==
    LET codes == At(t, Codes)
    IN  Without(IF codes = {} THEN t ELSE Before(t, FirstOf(codes)), {"CR"})

\* The first symbol that is not a space ends the spaces a colon swallows.
Unspaced(t) ==
    LET solid == Kept(t, {"space"})
    IN  IF solid = {} THEN <<>> ELSE SubSeq(t, FirstOf(solid), Len(t))

ResponseName(t) ==
    LET errors == At(t, Errors)
        colons == At(t, {":"})
        head   == Before(t, FirstOf(colons))
    IN  CASE errors # {} -> <<t[LastOf(errors)]>>
          [] errors = {} /\ colons # {} -> Visible(After(head, LastOf(At(head, {"comma"}))))
          [] OTHER -> IF At(t, Codes) = {} THEN <<>> ELSE <<"OK">>

\* What a colon leaves of a stretch, and what is seen of that.
Stretch(f) ==
    LET colon == LastOf(At(f, {":"})) IN IF colon = 0 THEN f ELSE Unspaced(After(f, colon))

ResponseArgs(t) ==
    LET pieces == Pieces(t, At(t, {"comma"}))
    IN  [i \in DOMAIN pieces |-> Visible(Stretch(pieces[i]))]
-----------------------------------------------------------------------------
(***************************************************************************)
(* Properties.                                                             *)
(***************************************************************************)
\* The shape of what the two parsers yield, for any text.
TypeOK ==
    /\ side \in {"host", "modem"} /\ Len(text) <= MaxLen
    /\ side = "host" =>
          /\ text \in Seq(CommandSymbol)
          /\ ParseCommand(text).args \in Seq(Seq(Letters \cup {"comma"}))
    /\ side = "modem" =>
          /\ text \in Seq(ResponseSymbol)
          /\ ParseResponse(text).args \in Seq(Seq(Letters \cup {"space"}))

\* One pass with one buffer finds the name, the type and the arguments that a
\* reader finds by looking at the whole line: quotes and line ends are dropped
\* wherever they are, a comma separates only in a write, an equals sign inside
\* an argument loses what precedes it, and "?" must be followed by exactly one
\* symbol.
CommandAgrees ==
    side = "host" /\ Len(text) > 2 =>
        LET c == ParseCommand(text)
            marks == At(text, Marks)
        IN  /\ c.type = CommandForm(text)
            /\ c.name = Without(IF marks = {} THEN text ELSE Before(text, FirstOf(marks)),
                                Dropped)
            /\ c.type = "WRITE" => c.args = CommandArgs(text)

\* The same of an answer, in which several lines and codes may have arrived
\* together: the last error names it, else the first colon, else OK.
ResponseAgrees ==
    side = "modem" =>
        LET r == ParseResponse(text)
            codes == At(text, Codes)
        IN  /\ r.name = ResponseName(text)
            /\ r.type = IF codes = {} THEN "URC" ELSE text[LastOf(codes)]
            /\ r.args = ResponseArgs(text)

\* An answer: information lines, if any, and one result code.
IsAnswer(t) == Cardinality(At(t, Codes)) = 1

Takes(t) == IF t # <<>> /\ TakesPending(ParseResponse(t)) THEN 1 ELSE 0

\* An OK that shares its read with the colon of an information line other than
\* a whole +CCID is not seen.
Hidden(t) ==
    /\ At(t, Errors) = {} /\ At(t, {":"}) # {}
    /\ LET head == Before(t, FirstOf(At(t, {":"})))
       IN  Visible(After(head, LastOf(At(head, {"comma"})))) # Ccid

\* However an answer is cut into two reads, at most one command is taken off
\* the pending list for it; and one is, unless its result code is hidden.
AnswerTakesOne ==
    side = "modem" /\ IsAnswer(text) =>
        \A cut \in 0 .. Len(text) - 1 :
            LET one   == SubSeq(text, 1, cut)
                two   == After(text, cut)
                final == IF At(one, Codes) # {} THEN one ELSE two
            IN  Takes(one) + Takes(two) = IF Hidden(final) THEN 0 ELSE 1
=============================================================================
