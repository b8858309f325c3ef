----------------------------- MODULE DataCalls ------------------------------
(***************************************************************************)
(* What the netconf extension knows of the data connection, and what it    *)
(* does with that knowledge.                                               *)
(*                                                                         *)
(* The data call contexts are written by two threads.  The AT thread sets  *)
(* what the host configures (AT+CGDCONT, AT+XGAUTH) and keeps it in a file *)
(* that outlives the process.  The RIL client's thread copies what the RIL *)
(* daemon reports, and opens or closes the route between host and network  *)
(* when a call goes up or down.  The daemon's reports are snapshots that   *)
(* travel through a queue, asked for after an indication that says only    *)
(* that something has changed.  No lock is taken: a report is copied in    *)
(* four steps (find the context, set its cid, set its state, set the rest  *)
(* and compare), between which the AT thread takes its own.                *)
(*                                                                         *)
(* How a command's answer finds its way back is SmmProxy's subject; here   *)
(* a command that waits for RIL is just "awaiting".                        *)
(***************************************************************************)
EXTENDS Integers, Sequences, FiniteSets

CONSTANTS
    HostCids,      \* context identifiers the host uses in its commands
    RilCids,       \* call identifiers the RIL daemon gives to its data calls
    Apns,          \* access point names the host configures
    Iface,         \* interface name the RIL daemon gives to a data call
    AuthModes,     \* authentication modes the host passes to AT+XGAUTH
    MaxCommands,   \* bound: commands
    MaxCallChanges, \* bound: calls the network sets up or drops by itself
    MaxRegChanges, \* bound: changes of the registration
    MaxRestarts,   \* bound: restarts of the process
    PatientHost,   \* does the host await AT+CGACT's answer before it goes on?
    SettledHost,   \* does the host await the radio's start before it begins?
    AtomicAt,      \* is no report copied between a load and its store?
    ClientSends    \* does the RIL library take each request of the client's own?

NoCid  == -1
NoApn  == ""
AuthDisabled == 0

ASSUME CidsAssumption  == HostCids \subseteq Nat /\ RilCids \subseteq Nat
ASSUME ApnsAssumption  == NoApn \notin Apns /\ Iface \notin Apns /\ Iface # NoApn
ASSUME AuthAssumption  == AuthModes \subseteq Nat
ASSUME BoundsAssumption ==
    /\ MaxCommands \in Nat /\ MaxRestarts \in Nat
    /\ MaxCallChanges \in Nat /\ MaxRegChanges \in Nat
ASSUME SwitchAssumption ==
    /\ PatientHost \in BOOLEAN /\ SettledHost \in BOOLEAN
    /\ AtomicAt \in BOOLEAN /\ ClientSends \in BOOLEAN

VARIABLES
    mDcContexts,  \* the data call contexts; the first is the host's
    mRat,         \* radio access technology, "NONE" when not registered
    stored,       \* the file that keeps the host's configuration
    at,           \* the AT thread, inside AT+CGDCONT or AT+XGAUTH
    awaiting,     \* an AT+CGACT waits for the RIL daemon's answer
    ril,          \* the RIL client's thread, copying a report's calls
    toRil,        \* requests the RIL daemon has not answered
    toSmm,        \* responses and indications not yet delivered, oldest first
    links,        \* the network's truth about each call of the daemon
    registered,   \* the network's truth about the registration
    routes,       \* the kernel's forwarding rules and switch
    commands, callChanges, regChanges, restarts,
    committed,    \* history: configuration whose store has succeeded
    told,         \* history: what AT+CGACT told the host or asked of RIL
    leftover,     \* history: rules a failed flush or an earlier process has left
    unopened      \* history: the rule of the call now up could not be added

smmVars  == <<mDcContexts, mRat>>
atVars   == <<at, awaiting, stored, committed>>
rilVars  == <<ril, routes, leftover, unopened>>
wires    == <<toRil, toSmm>>
world    == <<links, registered>>
counters == <<commands, callChanges, regChanges, restarts>>
vars     == <<smmVars, atVars, rilVars, wires, world, counters, told>>

NewContext == [cid |-> NoCid, activated |-> FALSE, apn |-> NoApn,
               pdpType |-> "", auth |-> AuthDisabled]

\* Mutant: a new Netconf has no context.
Mut_noContexts == <<>>

NewContexts == <<NewContext>>

Nothing    == [cid |-> NoCid, apn |-> NoApn, pdpType |-> "", auth |-> AuthDisabled]
AtIdle     == [pc |-> "idle", cmd |-> "none", cid |-> NoCid, apn |-> NoApn,
               auth |-> AuthDisabled]
NoCall     == [cid |-> NoCid, up |-> FALSE]
RilIdle    == [pc |-> "idle", todo |-> {}, call |-> NoCall, dc |-> 0, was |-> FALSE,
               event |-> "none", reply |-> FALSE]
Request(type, cid) == [type |-> type, cid |-> cid]
Message(type, ok, calls, reg) ==
    [type |-> type, ok |-> ok, calls |-> calls, reg |-> reg]

\* netconf_ctor asks for the radio as soon as the extension is loaded, and is
\* told if that cannot be sent.  The platform has switched IP forwarding on.
Init ==
    /\ mDcContexts = NewContexts /\ mRat = "NONE"
    /\ stored = Nothing /\ committed = Nothing
    /\ at = AtIdle /\ awaiting = FALSE /\ ril = RilIdle
    /\ toRil = <<Request("radio", NoCid)>> /\ toSmm = <<>>
    /\ links = [c \in RilCids |-> "none"] /\ registered = "none"
    /\ routes = [forward |-> 0, nat |-> 0, ipForward |-> "1"]
    /\ commands = 0 /\ callChanges = 0 /\ regChanges = 0 /\ restarts = 0
    /\ leftover = 0 /\ unopened = FALSE
    /\ told = [what |-> "nothing", linkUp |-> FALSE]
-----------------------------------------------------------------------------
(***************************************************************************)
(* The AT thread.                                                          *)
(***************************************************************************)
LinkUp == \E c \in RilCids : links[c] = "up"

RadioSettled ==
    /\ \A i \in DOMAIN toRil : toRil[i].type # "radio"
    /\ \A i \in DOMAIN toSmm : toSmm[i].type # "radio"

HostCommands ==
    /\ at.pc = "idle" /\ commands < MaxCommands
    /\ PatientHost => ~awaiting
    /\ SettledHost => RadioSettled
    /\ commands' = commands + 1
    /\ UNCHANGED <<callChanges, regChanges, restarts, world>>

SetFirst(dc) == mDcContexts' = [mDcContexts EXCEPT ![1] = dc]

\* Mutant: the authentication mode is not loaded.
Mut_loadForgetsAuth(dc) ==
    IF stored = Nothing THEN dc
    ELSE [dc EXCEPT !.cid = stored.cid, !.apn = stored.apn, !.pdpType = stored.pdpType]

loadDcContext(dc) ==
    IF stored = Nothing THEN dc
    ELSE [dc EXCEPT !.cid = stored.cid, !.apn = stored.apn,
                    !.pdpType = stored.pdpType, !.auth = stored.auth]

storeDcContext(dc) ==
    stored' = [cid |-> dc.cid, apn |-> dc.apn, pdpType |-> dc.pdpType, auth |-> dc.auth]

Tells(what) ==
    told' = [what |-> what, linkUp |-> LinkUp]

\* AT+CGDCONT? and AT+XGAUTH?: the answer is read from the context after the
\* file has been loaded over it.
QueryLoads ==
    /\ HostCommands
    /\ SetFirst(loadDcContext(mDcContexts[1]))
    /\ UNCHANGED <<mRat, atVars, rilVars, wires, told>>

CgdcontLoad(cid, apn) ==
    /\ HostCommands
    /\ SetFirst(loadDcContext(mDcContexts[1]))
    /\ at' = [pc |-> "set", cmd |-> "CGDCONT", cid |-> cid, apn |-> apn,
              auth |-> AuthDisabled]
    /\ UNCHANGED <<mRat, awaiting, stored, committed, rilVars, wires, told>>

\* AT+XGAUTH is refused unless the loaded context has the cid it names.
XgauthLoad(cid, auth) ==
    LET dc == loadDcContext(mDcContexts[1])
    IN  /\ HostCommands
        /\ SetFirst(dc)
        /\ at' = IF dc.cid = cid
                 THEN [pc |-> "set", cmd |-> "XGAUTH", cid |-> cid, apn |-> NoApn,
                       auth |-> auth]
                 ELSE AtIdle
        /\ UNCHANGED <<mRat, awaiting, stored, committed, rilVars, wires, told>>

CgdcontSet ==
    /\ at.pc = "set" /\ at.cmd = "CGDCONT"
    /\ SetFirst([mDcContexts[1] EXCEPT !.cid = at.cid, !.apn = at.apn, !.pdpType = "IP"])
    /\ at' = [at EXCEPT !.pc = "store"]
    /\ UNCHANGED <<mRat, awaiting, stored, committed, rilVars, wires, world, counters, told>>

XgauthSet ==
    /\ at.pc = "set" /\ at.cmd = "XGAUTH"
    /\ SetFirst([mDcContexts[1] EXCEPT !.auth = at.auth])
    /\ at' = [at EXCEPT !.pc = "store"]
    /\ UNCHANGED <<mRat, awaiting, stored, committed, rilVars, wires, world, counters, told>>

\* The store succeeds and the host is told OK, or fails and it is told ERROR.
StoreAndAnswer ==
    /\ at.pc = "store"
    /\ \/ /\ storeDcContext(mDcContexts[1])
          /\ committed' = IF at.cmd = "CGDCONT"
                          THEN [committed EXCEPT !.cid = at.cid, !.apn = at.apn,
                                                 !.pdpType = "IP"]
                          ELSE [committed EXCEPT !.auth = at.auth]
       \/ UNCHANGED <<stored, committed>>
    /\ at' = AtIdle
    /\ UNCHANGED <<smmVars, awaiting, rilVars, wires, world, counters, told>>

AnswersAlready(up) ==
    /\ mDcContexts[1].activated = up
    /\ Tells(IF up THEN "already up" ELSE "already down")
    /\ UNCHANGED <<awaiting, toRil>>

AsksRil(up) ==
    /\ mDcContexts[1].activated # up
    /\ up => mDcContexts[1].pdpType = "IP"
    /\ toRil' = Append(toRil, Request(IF up THEN "setup" ELSE "deactivate",
                                      IF up THEN NoCid ELSE mDcContexts[1].cid))
    /\ awaiting' = TRUE
    /\ Tells(IF up THEN "setup" ELSE "deactivate")

\* AT+CGACT=<state>,<cid>: the cid is parsed and not looked at.  Without a
\* registration, or when the request cannot be sent, the answer is ERROR.
CgactWrite(up) ==
    /\ HostCommands
    /\ mRat # "NONE"
    /\ AnswersAlready(up) \/ AsksRil(up)
    /\ UNCHANGED <<smmVars, at, stored, committed, rilVars, toSmm>>
-----------------------------------------------------------------------------
(***************************************************************************)
(* The RIL daemon and the network.  Requests may be answered in any order, *)
(* each from what is true at that moment; answers are delivered in order.  *)
(***************************************************************************)
Without(s, i) == SubSeq(s, 1, i - 1) \o SubSeq(s, i + 1, Len(s))

KnownCalls == {[cid |-> c, up |-> links[c] = "up"] : c \in {d \in RilCids : links[d] # "none"}}

CallsChanged == Message("callInd", TRUE, {}, "none")

RilAnswers(i, type, msg) ==
    /\ toRil[i].type = type
    /\ toRil' = Without(toRil, i)
    /\ toSmm' = Append(toSmm, msg)
    /\ UNCHANGED <<smmVars, atVars, rilVars, counters, told>>

\* A setup that succeeds carries the state of the call's physical link, which
\* may still be down.
RilSetsUp(i) ==
    \/ \E c \in RilCids, up \in BOOLEAN :
          /\ RilAnswers(i, "setup", Message("setup", TRUE, {[cid |-> c, up |-> up]}, "none"))
          /\ links' = [links EXCEPT ![c] = IF up THEN "up" ELSE "down"]
          /\ UNCHANGED registered
    \/ RilAnswers(i, "setup", Message("setup", FALSE, {}, "none")) /\ UNCHANGED world

RilDeactivates(i) ==
    \/ /\ toRil[i].type = "deactivate" /\ toRil[i].cid \in RilCids
       /\ links[toRil[i].cid] = "up"
       /\ links' = [links EXCEPT ![toRil[i].cid] = "down"]
       /\ toRil' = Without(toRil, i)
       /\ toSmm' = toSmm \o <<Message("released", TRUE, {}, "none"), CallsChanged>>
       /\ UNCHANGED <<smmVars, atVars, rilVars, counters, told, registered>>
    \/ RilAnswers(i, "deactivate", Message("released", FALSE, {}, "none")) /\ UNCHANGED world

RilLists(i) ==
    RilAnswers(i, "list", Message("list", TRUE, KnownCalls, "none")) /\ UNCHANGED world

RilReportsStatus(i) ==
    \E ok \in BOOLEAN :
        RilAnswers(i, "status", Message("status", ok, {}, registered)) /\ UNCHANGED world

\* Radio mode, initial attach and network selection.
RilStartsUp(i) ==
    \E type \in {"radio", "attach", "select"}, ok \in BOOLEAN :
        RilAnswers(i, type, Message(type, ok, {}, "none")) /\ UNCHANGED world

\* A call is lost, or the network sets one up, as LTE does on attach.
CallChanges(c) ==
    /\ callChanges < MaxCallChanges /\ callChanges' = callChanges + 1
    /\ links' = [links EXCEPT ![c] = IF @ = "up" THEN "down" ELSE "up"]
    /\ toSmm' = Append(toSmm, CallsChanged)
    /\ UNCHANGED <<smmVars, atVars, rilVars, toRil, registered, commands, regChanges,
                   restarts, told>>

RegistrationChanges(reg) ==
    /\ regChanges < MaxRegChanges /\ regChanges' = regChanges + 1
    /\ registered' = reg
    /\ toSmm' = Append(toSmm, Message("regInd", TRUE, {}, "none"))
    /\ UNCHANGED <<smmVars, atVars, rilVars, toRil, links, commands, callChanges,
                   restarts, told>>
-----------------------------------------------------------------------------
(***************************************************************************)
(* The RIL client's thread.                                                *)
(***************************************************************************)
Delivers(type) ==
    /\ ril.pc = "idle" /\ toSmm # <<>> /\ Head(toSmm).type = type
    /\ toSmm' = Tail(toSmm)
    /\ UNCHANGED <<world, counters, told, stored, committed, at, routes, leftover,
                   unopened>>

\* A request of the client's own: nobody looks whether the library took it.
Asks(type) ==
    \/ toRil' = Append(toRil, Request(type, NoCid))
    \/ ~ClientSends /\ UNCHANGED toRil

\* Mutant: the request is for the registration whatever has changed.
Mut_asksForStatus ==
    /\ \E type \in {"callInd", "regInd"} : Delivers(type)
    /\ Asks("status")
    /\ UNCHANGED <<smmVars, awaiting, ril>>

\* An indication only makes the client ask what has changed.
onIRilIndication ==
    \/ /\ Delivers("callInd")
       /\ Asks("list")
       /\ UNCHANGED <<smmVars, awaiting, ril>>
    \/ /\ Delivers("regInd")
       /\ Asks("status")
       /\ UNCHANGED <<smmVars, awaiting, ril>>

\* The initial attach is asked for with the stored APN, or with none.
onRadioModeSet ==
    /\ Delivers("radio")
    /\ AtomicAt => at.pc = "idle"
    /\ IF Head(toSmm).ok
       THEN /\ SetFirst(loadDcContext(mDcContexts[1]))
            /\ Asks("attach")
       ELSE UNCHANGED <<mDcContexts, toRil>>
    /\ UNCHANGED <<mRat, awaiting, ril>>

\* Mutant: the network is selected only if the attach has failed.
Mut_selectsAfterFailure ==
    /\ Delivers("attach")
    /\ IF Head(toSmm).ok THEN UNCHANGED toRil ELSE Asks("select")
    /\ UNCHANGED <<smmVars, awaiting, ril>>

onInitialAttachSet ==
    /\ Delivers("attach")
    /\ IF Head(toSmm).ok THEN Asks("select") ELSE UNCHANGED toRil
    /\ UNCHANGED <<smmVars, awaiting, ril>>

onNetworkSelected ==
    /\ Delivers("select")
    /\ UNCHANGED <<smmVars, awaiting, ril, toRil>>

\* Without CS attach the technology is left as it was; on a technology the
\* switch does not know, an uninitialized variable is copied.
onNwStateChanged ==
    /\ Delivers("status")
    /\ IF ~Head(toSmm).ok
       THEN UNCHANGED mRat
       ELSE mRat' \in CASE Head(toSmm).reg = "none"  -> {mRat}
                           [] Head(toSmm).reg = "LTE"   -> {"LTE"}
                           [] Head(toSmm).reg = "IWLAN" -> {"NONE", "LTE"}
    /\ UNCHANGED <<mDcContexts, awaiting, ril, toRil>>

\* Mutant: the context is not updated from the call that was set up.
Mut_setupUpdatesNothing ==
    /\ Delivers("setup")
    /\ awaiting' = FALSE /\ UNCHANGED ril
    /\ UNCHANGED <<smmVars, toRil>>

\* The callback begins to copy the calls, and may have a command to answer.
Copies(calls, reply) ==
    [RilIdle EXCEPT !.pc = "update", !.todo = calls, !.reply = reply]

\* The command is answered OK for any success, whatever the call's link.
onDataCallSetup ==
    /\ Delivers("setup")
    /\ IF Head(toSmm).ok
       THEN ril' = Copies(Head(toSmm).calls, TRUE) /\ UNCHANGED awaiting
       ELSE awaiting' = FALSE /\ UNCHANGED ril
    /\ UNCHANGED <<smmVars, toRil>>

\* Success or failure, the contexts are left alone: the list that follows the
\* daemon's indication will say that the call is down.
onDataCallReleased ==
    /\ Delivers("released")
    /\ awaiting' = FALSE
    /\ UNCHANGED <<smmVars, ril, toRil>>

onDataCallListChanged ==
    /\ Delivers("list")
    /\ ril' = IF Head(toSmm).calls = {} THEN RilIdle
              ELSE Copies(Head(toSmm).calls, FALSE)
    /\ UNCHANGED <<smmVars, awaiting, toRil>>

\* The callback goes on to the next call of the report, or ends; at the end of
\* onDataCallSetup the waiting command is answered.
Continues(todo) ==
    IF todo = {}
    THEN ril' = RilIdle /\ awaiting' = (awaiting /\ ~ril.reply)
    ELSE ril' = Copies(todo, ril.reply) /\ UNCHANGED awaiting

\* Mutant: only the context without a cid is looked for.
Mut_matchesUndefinedOnly(i, cid) == mDcContexts[i].cid = NoCid

Matches(i, cid) == mDcContexts[i].cid \in {cid, NoCid}

FirstMatch(i, cid) ==
    /\ i \in DOMAIN mDcContexts /\ Matches(i, cid)
    /\ \A j \in 1 .. i - 1 : ~Matches(j, cid)

\* Mutant: a call that is up is established again by every report.
Mut_routesEveryReport(was, up) == up \/ was

RouteChanges(was, up) == was # up

Copying(pc, call) ==
    /\ ril.pc = pc /\ call \in ril.todo
    /\ AtomicAt => at.pc = "idle"
    /\ UNCHANGED <<mRat, at, stored, committed, routes, leftover, unopened, wires, world,
                   counters, told>>

\* The first context that has the call's cid, or none; or else a new one, at
\* the end of the list.  A new call was not activated.
FindContext(call) ==
    LET found == {i \in DOMAIN mDcContexts : FirstMatch(i, call.cid)}
    IN  /\ Copying("update", call)
        /\ IF found = {}
           THEN /\ mDcContexts' = Append(mDcContexts, NewContext)
                /\ ril' = [ril EXCEPT !.pc = "setCid", !.call = call,
                                      !.dc = Len(mDcContexts) + 1, !.was = FALSE]
           ELSE /\ \E i \in found :
                      ril' = [ril EXCEPT !.pc = "setCid", !.call = call, !.dc = i,
                                         !.was = mDcContexts[i].activated]
                /\ UNCHANGED mDcContexts
        /\ UNCHANGED awaiting

SetCid(call) ==
    /\ Copying("setCid", call) /\ call = ril.call
    /\ mDcContexts' = [mDcContexts EXCEPT ![ril.dc].cid = call.cid]
    /\ ril' = [ril EXCEPT !.pc = "setActivated"]
    /\ UNCHANGED awaiting

SetActivated(call) ==
    /\ Copying("setActivated", call) /\ call = ril.call
    /\ mDcContexts' = [mDcContexts EXCEPT ![ril.dc].activated = call.up]
    /\ ril' = [ril EXCEPT !.pc = "setApn"]
    /\ UNCHANGED awaiting

\* APN, addresses and PDP type; then the route is opened or closed if the
\* state differs from the one remembered.
SetApn(call) ==
    /\ Copying("setApn", call) /\ call = ril.call
    /\ mDcContexts' = [mDcContexts EXCEPT ![ril.dc].apn = Iface, ![ril.dc].pdpType = "IP"]
    /\ IF RouteChanges(ril.was, mDcContexts[ril.dc].activated)
       THEN /\ ril' = [ril EXCEPT !.pc = "tether", !.todo = @ \ {call},
                                  !.event = IF ril.was THEN "down" ELSE "up"]
            /\ UNCHANGED awaiting
       ELSE Continues(ril.todo \ {call})

updateDcContextFromDataCall(call) ==
    FindContext(call) \/ SetCid(call) \/ SetActivated(call) \/ SetApn(call)

\* Either rule may fail to be added, which nobody learns: system()'s result is
\* dropped.  IP forwarding is left to the platform.
enableTethering ==
    /\ ril.pc = "tether" /\ ril.event = "up"
    /\ \E forward, nat \in 0 .. 1 :
          /\ routes' = [routes EXCEPT !.forward = @ + forward, !.nat = @ + nat]
          /\ unopened' = (forward = 0)
    /\ Continues(ril.todo)
    /\ UNCHANGED <<smmVars, at, stored, committed, leftover, wires, world, counters, told>>

\* setIpFwdEnabled(false) writes "1".  The filter table is flushed, the nat
\* table is not; and neither is if the switch could not be written or the flush
\* fails, which the caller does not look at.
disableTethering ==
    /\ ril.pc = "tether" /\ ril.event = "down"
    /\ \/ routes' = [routes EXCEPT !.ipForward = "1", !.forward = 0] /\ leftover' = 0
       \/ UNCHANGED routes /\ leftover' = routes.forward
    /\ unopened' = FALSE
    /\ Continues(ril.todo)
    /\ UNCHANGED <<smmVars, at, stored, committed, wires, world, counters, told>>

\* The process ends and is started again; the daemon and the network go on.
Restart ==
    /\ restarts < MaxRestarts /\ restarts' = restarts + 1
    /\ mDcContexts' = NewContexts /\ mRat' = "NONE"
    /\ at' = AtIdle /\ awaiting' = FALSE /\ ril' = RilIdle
    /\ toRil' = <<Request("radio", NoCid)>> /\ toSmm' = <<>>
    /\ leftover' = routes.forward /\ unopened' = FALSE
    /\ UNCHANGED <<stored, committed, world, routes, commands, callChanges, regChanges,
                   told>>
-----------------------------------------------------------------------------
AtStarts ==
    \/ QueryLoads
    \/ \E cid \in HostCids, apn \in Apns : CgdcontLoad(cid, apn)
    \/ \E cid \in HostCids, auth \in AuthModes : XgauthLoad(cid, auth)
    \/ \E up \in BOOLEAN : CgactWrite(up)

AtContinues == CgdcontSet \/ XgauthSet \/ StoreAndAnswer

RilDaemon ==
    \E i \in DOMAIN toRil :
        \/ RilSetsUp(i) \/ RilDeactivates(i) \/ RilLists(i)
        \/ RilReportsStatus(i) \/ RilStartsUp(i)

Network == \/ \E c \in RilCids : CallChanges(c)
           \/ \E reg \in {"none", "LTE", "IWLAN"} : RegistrationChanges(reg)

RilClient ==
    \/ onIRilIndication \/ onRadioModeSet \/ onInitialAttachSet \/ onNetworkSelected
    \/ onNwStateChanged \/ onDataCallSetup \/ onDataCallReleased
    \/ onDataCallListChanged
    \/ \E call \in ril.todo : updateDcContextFromDataCall(call)
    \/ enableTethering \/ disableTethering

Next == AtStarts \/ AtContinues \/ RilDaemon \/ Network \/ RilClient \/ Restart

Spec == Init /\ [][Next]_vars

\* The threads keep running and the daemon answers; host and network owe nothing.
FairSpec == Spec /\ WF_vars(AtContinues) /\ WF_vars(RilDaemon) /\ WF_vars(RilClient)
-----------------------------------------------------------------------------
(***************************************************************************)
(* Properties.                                                             *)
(***************************************************************************)
Cid       == HostCids \cup RilCids \cup {NoCid}
Apn       == Apns \cup {NoApn, Iface}
AuthMode  == AuthModes \cup {AuthDisabled}
PdpType   == {"", "IP"}
DcContext == [cid : Cid, activated : BOOLEAN, apn : Apn, pdpType : PdpType, auth : AuthMode]
Record    == [cid : Cid, apn : Apn, pdpType : PdpType, auth : AuthMode]
Call      == [cid : RilCids, up : BOOLEAN]
RequestType == {"radio", "attach", "select", "setup", "deactivate", "list", "status"}
MessageType == {"radio", "attach", "select", "setup", "released", "list", "status",
                "callInd", "regInd"}
Registration == {"none", "LTE", "IWLAN"}
AtThread   == [pc : {"idle", "set", "store"}, cmd : {"none", "CGDCONT", "XGAUTH"},
               cid : Cid, apn : Apn, auth : AuthMode]
RilThread  == [pc : {"idle", "update", "setCid", "setActivated", "setApn", "tether"},
               todo : SUBSET Call, call : Call \cup {NoCall}, dc : Nat, was : BOOLEAN,
               event : {"none", "up", "down"}, reply : BOOLEAN]
RilRequest == [type : RequestType, cid : Cid]
RilMessage == [type : MessageType, ok : BOOLEAN, calls : SUBSET Call, reg : Registration]
Told       == [what : {"nothing", "already up", "already down", "setup", "deactivate"},
               linkUp : BOOLEAN]

ContextsOK == /\ mDcContexts \in Seq(DcContext) /\ mDcContexts # <<>>
              /\ mRat \in {"NONE", "LTE"}
AtOK       == /\ stored \in Record /\ committed \in Record /\ at \in AtThread
              /\ awaiting \in BOOLEAN
Updating   == ril.pc \notin {"idle", "tether"}
ClientOK   == /\ ril \in RilThread /\ leftover \in Nat /\ unopened \in BOOLEAN
              /\ Updating => ril.todo # {}
              /\ routes \in [forward : Nat, nat : Nat, ipForward : {"0", "1"}]
WiresOK    == toRil \in Seq(RilRequest) /\ toSmm \in Seq(RilMessage)
WorldOK    == links \in [RilCids -> {"none", "up", "down"}] /\ registered \in Registration
CountersOK == /\ commands \in 0 .. MaxCommands /\ callChanges \in 0 .. MaxCallChanges
              /\ regChanges \in 0 .. MaxRegChanges /\ restarts \in 0 .. MaxRestarts
ToldOK     == told \in Told

\* The shape of every variable.  Netconf "always has at least one DC context",
\* whatever the two threads and restarts do to the list, and a callback that
\* is still updating contexts has a call left to copy.
TypeOK == ContextsOK /\ AtOK /\ ClientOK /\ WiresOK /\ WorldOK /\ CountersOK /\ ToldOK

NothingInFlight ==
    /\ toSmm = <<>> /\ ril.pc = "idle"
    /\ \A i \in DOMAIN toRil : toRil[i].type \notin {"list", "setup", "deactivate"}

Mirrored == mDcContexts[1].activated = LinkUp

\* When host and daemon use one and the same cid, the first context may be
\* wrong about the call only while a report about it is on its way or being
\* copied, in what order soever answers and indications have arrived; provided
\* that the library takes the client's requests for the list.
StaleOnlyInFlight == NothingInFlight => Mirrored

\* And such reports arrive: once the network has settled, so has the context,
\* under the same provision.
EventuallyMirrors == <>[]Mirrored

\* Between callbacks there is one forwarding rule for the activated context and
\* none for one that is not, besides those that a failed flush or an earlier
\* process has left, and but for one that could not be added: established and
\* terminated calls alternate, however often the same state is reported and
\* whatever the host sets while a report is copied.
RouteMatchesContext ==
    ril.pc = "idle" =>
        routes.forward = leftover + (IF mDcContexts[1].activated /\ ~unopened THEN 1 ELSE 0)

StepFails(msg) == msg.type \in {"radio", "attach"} /\ ~msg.ok

\* Radio mode, initial attach, network selection: each answer asks for the next
\* step, so start-up comes to its last answer or to a failed one, after which
\* nothing is tried again, amid whatever commands, reports and indications
\* share its queues; provided that the library takes the client's requests.
StartUpEnds ==
    <>(\E i \in DOMAIN toSmm : toSmm[i].type = "select" \/ StepFails(toSmm[i]))

\* Contexts are only ever added for a call that no context has: those added
\* have cids of their own, whatever the host gives the first context while a
\* report is copied.  So there are never more contexts than one and the daemon's
\* cids.  (The first may come to share a cid, if the host sets it between the
\* search and the copy.)
OneContextPerCall ==
    \A i, j \in DOMAIN mDcContexts :
        i > 1 /\ j > i => mDcContexts[i].cid # mDcContexts[j].cid

AuthKept == committed.auth # AuthDisabled => stored.auth = committed.auth

CidKept == committed.cid # NoCid => stored.cid = committed.cid

ApnKept == committed.cid # NoCid => stored.apn = committed.apn

\* What AT+CGDCONT and AT+XGAUTH have stored stays stored, through later
\* commands, failed stores, restarts and reports of the daemon that do not come
\* between a load and its store.
CommittedSurvives == CidKept /\ AuthKept /\ ApnKept

\* Even when reports are copied in between, the authentication mode stored is
\* the one committed, for a host that awaits the radio's start.
AuthSurvives == AuthKept

\* A restart forgets a call that is still up, and start-up does not ask for it.
\* But it never makes the context say "up" of a call that is down, unless news
\* are in flight: nothing from before the restart comes back, not even from
\* the file, which may have the APN of a report.  The client's requests for the
\* list are taken.
UpIsTrue == NothingInFlight /\ mDcContexts[1].activated => LinkUp

\* "PDP is already deactivated": AT+CGACT=0 is answered OK without a request
\* only if the call is indeed down, for a patient host, a network that has done
\* nothing of its own accord and a process that has not been restarted.
AlreadyDownIsTrue ==
    told.what = "already down" /\ callChanges = 0 /\ restarts = 0 => ~told.linkUp

\* "PDP is already established": the same of AT+CGACT=1.
AlreadyUpIsTrue == told.what = "already up" => told.linkUp

\* "CGDCONT data persisted": what is stored for an accepted AT+CGDCONT is its
\* own cid and APN, even if a report is copied between the load and the store.
CgdcontIsPersisted == CidKept /\ ApnKept
=============================================================================
