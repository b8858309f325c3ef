---------------------------- MODULE Persistence -----------------------------
(***************************************************************************)
(* The file that keeps the host's configuration: NetconfLinuxPersistence,  *)
(* as AT+CGDCONT and AT+XGAUTH use it.                                     *)
(*                                                                         *)
(* One record of six fields is printed into one file, over what is there   *)
(* and without shortening it, and scanned back by sscanf from a buffer     *)
(* that nothing terminates.  DataCalls takes the file for a register; this *)
(* module is about when it is one: which records come back as they were    *)
(* stored, with a longer record's tail behind them, with garbage behind    *)
(* the tail, after writes that were cut short, failed, or never happened.  *)
(*                                                                         *)
(* A text is a sequence of characters.  What they are does not matter: the *)
(* fixed ones here are named by the piece of text they belong to and where.*)
(***************************************************************************)
EXTENDS Integers, Sequences, FiniteSetsExt, SequencesExt

CONSTANTS
    Char,             \* characters
    Cids, AuthModes,  \* numbers the host passes, as texts
    Apns,             \* access point names: plain, empty or with a space
    Names, Passwords, \* credentials of AT+XGAUTH; a name may be empty
    Garbage,          \* what may lie behind the file's bytes in the buffer
    MaxCommands,      \* bound: commands
    MaxRestarts,      \* bound: restarts of the process
    MaxShortWrites    \* bound: writes that are cut short

Word(w, n) == [i \in 1 .. n |-> <<w, i>>]
Space      == <<<<"space", 1>>>>
Empty      == <<>>
NoCid      == Word("minusOne", 2)
AuthDisabled == Word("0", 1)

Plain(t) == t # Empty /\ \A i \in DOMAIN t : t[i] # Space[1]

\* With the equals sign for the last character.
Label == [cid |-> Word("cid", 4), apn |-> Word("apn", 4), pdpType |-> Word("pdptype", 8),
          auth |-> Word("auth", 5), name |-> Word("name", 5), pwd |-> Word("pwd", 4)]
IpType == Word("IP", 2)

Text == Seq(Char)

ASSUME TextsAssumption ==
    /\ Cids \cup AuthModes \cup Apns \cup Names \cup Passwords \cup Garbage \subseteq Text
    /\ {Space, NoCid, AuthDisabled, IpType} \cup {Label[f] : f \in DOMAIN Label} \subseteq Text
ASSUME NumbersAssumption ==
    /\ \A t \in Cids \cup AuthModes : Plain(t) /\ t # NoCid
    /\ \A t \in Passwords : t # Empty
ASSUME BoundsAssumption ==
    MaxCommands \in Nat /\ MaxRestarts \in Nat /\ MaxShortWrites \in Nat

VARIABLES
    dc,         \* Netconf's first data call context
    file,       \* dc_ctx: whether it exists, and its text
    at,         \* the AT thread: "idle", or inside storeDcContext
    commands, restarts, shortWrites,
    committed,  \* history: the context last stored in full
    torn        \* history: the last write that changed the file was cut short

counters == <<commands, restarts, shortWrites>>
history  == <<committed, torn>>
vars     == <<dc, file, at, counters, history>>

\* Mutant: a new context's cid is not set.
Mut_noCid == [cid |-> Empty, apn |-> Empty, pdpType |-> Empty, auth |-> AuthDisabled,
              name |-> Empty, pwd |-> Empty]

NewContext == [cid |-> NoCid, apn |-> Empty, pdpType |-> Empty, auth |-> AuthDisabled,
               name |-> Empty, pwd |-> Empty]

AtIdle == [pc |-> "idle", cmd |-> "none"]

Init ==
    /\ dc = NewContext /\ committed = NewContext /\ torn = FALSE
    /\ file = [exists |-> FALSE, text |-> Empty]
    /\ at = AtIdle
    /\ commands = 0 /\ restarts = 0 /\ shortWrites = 0
-----------------------------------------------------------------------------
(***************************************************************************)
(* The record and its scanning.                                            *)
(***************************************************************************)
Numeric == {"cid", "auth"}

Field(c, f) == Label[f] \o c[f] \o Space

\* Mutant: the record does not end in a space.
Mut_noLastSpace(c) ==
    Field(c, "cid") \o (Field(c, "apn") \o (Field(c, "pdpType") \o
        (Field(c, "auth") \o (Field(c, "name") \o (Label.pwd \o c.pwd)))))

\* The printed record: each field's label, its value and a space.
Printed(c) ==
    Field(c, "cid") \o (Field(c, "apn") \o (Field(c, "pdpType") \o
        (Field(c, "auth") \o (Field(c, "name") \o Field(c, "pwd")))))

IsDigit(ch) == \E t \in Cids \cup AuthModes \cup {NoCid, AuthDisabled} : ch \in ToSet(t)

Spaces(t)    == {i \in DOMAIN t : t[i] = Space[1]}
NonSpaces(t) == {i \in DOMAIN t : t[i] # Space[1]}
NonDigits(t) == {i \in DOMAIN t : ~IsDigit(t[i])}

\* The length of the longest beginning of t without a stop.
RunLength(t, stops) == IF stops = {} THEN Len(t) ELSE Min(stops) - 1

Drop(t, n)  == SubSeq(t, n + 1, Len(t))
Unspaced(t) == Drop(t, RunLength(t, NonSpaces(t)))

\* What follows a field's label, and how far %d or %s takes it.
Behind(rest, field) == Unspaced(Drop(Unspaced(rest), Len(Label[field])))
Width(there, field) ==
    RunLength(there, IF field \in Numeric THEN NonDigits(there) ELSE Spaces(there))

Matches(rest, field) ==
    IsPrefix(Label[field], Unspaced(rest)) /\ Width(Behind(rest, field), field) # 0
Take(s, there, width) ==
    [rest |-> Drop(there, width), values |-> Append(s.values, SubSeq(there, 1, width)), failed |-> FALSE]

\* One step of sscanf: the label, then %d or %s, each behind any spaces.  A
\* directive that fails ends the scan.
ScanField(s, field) ==
    IF ~s.failed /\ Matches(s.rest, field)
    THEN Take(s, Behind(s.rest, field), Width(Behind(s.rest, field), field))
    ELSE [s EXCEPT !.failed = TRUE]

Scan(t) == [rest |-> t, values |-> <<>>, failed |-> FALSE]

\* The four fields every record has, and the credentials behind them.
Four(t) ==
    ScanField(ScanField(ScanField(ScanField(Scan(t), "cid"), "apn"), "pdpType"), "auth")

Scanned(t) == ScanField(ScanField(Four(t), "name"), "pwd").values

\* All six fields, else the first four, else nothing.
Loaded(c, v) ==
    IF Len(v) < 4 THEN c
    ELSE [cid |-> v[1], apn |-> v[2], pdpType |-> v[3], auth |-> v[4],
          name |-> IF Len(v) = 6 THEN v[5] ELSE c.name,
          pwd  |-> IF Len(v) = 6 THEN v[6] ELSE c.pwd]

\* Mutant: a record without credentials is not read.
Mut_sixOrNothing(c, g) ==
    LET v == Scanned(file.text \o g)
    IN  IF ~file.exists \/ file.text = Empty \/ Len(v) < 6 THEN c ELSE Loaded(c, v)

loadDcContext(c, g) ==
    IF ~file.exists \/ file.text = Empty THEN c ELSE Loaded(c, Scanned(file.text \o g))
-----------------------------------------------------------------------------
(***************************************************************************)
(* The handlers.  Each loads the file over the context before it sets what *)
(* the command names, and then stores all six fields.                      *)
(***************************************************************************)
HostCommands ==
    /\ at.pc = "idle" /\ commands < MaxCommands
    /\ commands' = commands + 1
    /\ UNCHANGED <<file, restarts, shortWrites, history>>

Query == \E g \in Garbage :
    HostCommands /\ dc' = loadDcContext(dc, g) /\ UNCHANGED at

Cgdcont(cid, apn) == \E g \in Garbage :
    /\ HostCommands
    /\ dc' = [loadDcContext(dc, g) EXCEPT !.cid = cid, !.apn = apn, !.pdpType = IpType]
    /\ at' = [pc |-> "open", cmd |-> "CGDCONT"]

\* Mutant: the context is taken as it is in memory.
Mut_xgauthDoesNotLoad(cid, auth, name, pwd) ==
    /\ HostCommands
    /\ IF dc.cid = cid
       THEN /\ dc' = [dc EXCEPT !.auth = auth, !.name = name, !.pwd = pwd]
            /\ at' = [pc |-> "open", cmd |-> "XGAUTH"]
       ELSE UNCHANGED <<dc, at>>

\* Refused unless the loaded context has the cid the command names.
Xgauth(cid, auth, name, pwd) == \E g \in Garbage :
    LET c == loadDcContext(dc, g)
    IN  /\ HostCommands
        /\ IF c.cid = cid
           THEN /\ dc' = [c EXCEPT !.auth = auth, !.name = name, !.pwd = pwd]
                /\ at' = [pc |-> "open", cmd |-> "XGAUTH"]
           ELSE dc' = c /\ UNCHANGED at
-----------------------------------------------------------------------------
(***************************************************************************)
(* storeDcContext.  The directory or the file may not be there to open, in *)
(* which case the host is told ERROR; opening creates the file.            *)
(***************************************************************************)
OpenFails ==
    /\ at.pc = "open" /\ at' = AtIdle
    /\ UNCHANGED <<dc, file, counters, history>>

Open ==
    /\ at.pc = "open" /\ at' = [at EXCEPT !.pc = "write"]
    /\ file' = [file EXCEPT !.exists = TRUE]
    /\ UNCHANGED <<dc, counters, history>>

\* What the file holds once t has been written at its start.
Over(t) == [exists |-> TRUE, text |-> t \o Drop(file.text, Len(t))]

Write ==
    /\ at.pc = "write" /\ at' = AtIdle
    /\ file' = Over(Printed(dc))
    /\ committed' = dc /\ torn' = FALSE
    /\ UNCHANGED <<dc, counters>>

WriteFails ==
    /\ at.pc = "write" /\ at' = AtIdle
    /\ UNCHANGED <<dc, file, counters, history>>

\* A count that is short but positive is success as well.
WriteIsShort(n) ==
    /\ at.pc = "write" /\ at' = AtIdle
    /\ shortWrites < MaxShortWrites /\ shortWrites' = shortWrites + 1
    /\ n \in 1 .. Len(Printed(dc)) - 1
    /\ file' = Over(SubSeq(Printed(dc), 1, n))
    /\ torn' = TRUE
    /\ UNCHANGED <<dc, commands, restarts, committed>>

\* The process ends, before or after it has opened the file, and starts again.
Restart ==
    /\ restarts < MaxRestarts /\ restarts' = restarts + 1
    /\ dc' = NewContext /\ at' = AtIdle
    /\ UNCHANGED <<file, commands, shortWrites, history>>

Next ==
    \/ Query
    \/ \E cid \in Cids, apn \in Apns : Cgdcont(cid, apn)
    \/ \E cid \in Cids, auth \in AuthModes, name \in Names, pwd \in Passwords :
          Xgauth(cid, auth, name, pwd)
    \/ OpenFails \/ Open \/ Write \/ WriteFails
    \/ \E n \in 1 .. Len(Printed(dc)) : WriteIsShort(n)
    \/ Restart

Spec == Init /\ [][Next]_vars
-----------------------------------------------------------------------------
(***************************************************************************)
(* Properties.                                                             *)
(***************************************************************************)
\* The shape of the state.  Whatever the file has become, the cid and the mode
\* read from it are made of digits and no field read is half a word and a space.
TypeOK ==
    /\ \A f \in Numeric : dc[f] # Empty /\ \A i \in DOMAIN dc[f] : IsDigit(dc[f][i])
    /\ dc.apn \in Apns \/ dc.apn = Empty \/ Plain(dc.apn)
    /\ file.exists \in BOOLEAN /\ (file.text # Empty => file.exists)
    /\ at \in [pc : {"open", "write"}, cmd : {"CGDCONT", "XGAUTH"}] \cup {AtIdle}
    /\ commands \in 0 .. MaxCommands /\ restarts \in 0 .. MaxRestarts
    /\ shortWrites \in 0 .. MaxShortWrites /\ torn \in BOOLEAN
    /\ committed.cid \in Cids \cup {NoCid}

Intact(c) == c # NewContext /\ ~torn /\ Plain(c.apn)

\* A record stored in full, with a plain access point name, comes back with its
\* cid, name, type and authentication mode from whatever process loads it next:
\* the tail of a longer record, garbage behind the file, stores that failed and
\* restarts between open and write do not matter, nor does a torn write before.
PlainRecordSurvives ==
    Intact(committed) =>
        \A g \in Garbage, f \in {"cid", "apn", "pdpType", "auth"} :
            loadDcContext(NewContext, g)[f] = committed[f]

\* And so do its credentials, if neither is empty nor has a space.
CredentialsSurvive ==
    Intact(committed) /\ Plain(committed.name) /\ Plain(committed.pwd) =>
        \A g \in Garbage, f \in {"name", "pwd"} :
            loadDcContext(NewContext, g)[f] = committed[f]

\* What a command may change in the file.
Own == [CGDCONT |-> {"cid", "apn", "pdpType"}, XGAUTH |-> {"auth", "name", "pwd"},
        none |-> {}]

\* A store changes the fields its command names and no others, whatever earlier
\* commands that were told ERROR have left in memory; the credentials only if
\* they can be read back.
StoresOnlyItsOwn ==
    [][ committed' # committed /\ Intact(committed) =>
          \A f \in DOMAIN committed \ Own[at.cmd] :
              \/ committed'[f] = committed[f]
              \/ f \in {"name", "pwd"} /\ ~(Plain(committed.name) /\ Plain(committed.pwd))
      ]_vars
=============================================================================
