----------------------------- MODULE Lifecycle ------------------------------
(***************************************************************************)
(* From smmcore_init to smmcore_dispose: what exists when, who is handed   *)
(* messages, and who may touch what.                                       *)
(*                                                                         *)
(* smmcore_init makes the core's objects one after the other and then      *)
(* opens every extension library it finds, in the order readdir yields     *)
(* them.  The library's constructor registers the extension's parsers with *)
(* the two root parsers; netconf's first connects to the RIL daemon, whose *)
(* callbacks may come at once, on a thread of their own.  smmcore_dispose  *)
(* deletes the factory, which deletes what it made and closes the          *)
(* libraries; a library's destructor deletes its parsers, and its code is  *)
(* gone.  Nothing disconnects from the daemon, and nothing deletes what    *)
(* Netconf has been given or has made, or what SharedEnv is.               *)
(***************************************************************************)
EXTENDS Naturals, Sequences

CONSTANTS
    Entries,    \* the directory's files in readdir order
    Wanted,     \* those named libsmm*.so, the core's own library apart
    LibOf,      \* the library a wanted file is, or links to
    Unfit       \* libraries whose factory or parsers are not valid

Files == {Entries[i] : i \in DOMAIN Entries}
Libs  == {LibOf[e] : e \in Wanted}

ASSUME DirectoryAssumption ==
    /\ Entries \in Seq(Files)
    /\ Wanted \subseteq Files
    /\ Wanted \subseteq DOMAIN LibOf
    /\ Unfit \subseteq Libs \ {"netconf", "atsample"}

VARIABLES
    testMode,     \* the context's test_mode, which smmcore_init is given
    app,          \* the caller's thread: the phase it is in and a step number
    ext,          \* the constructor that dlopen is running
    mHandles,     \* the loader's open libraries
    commandRoot,  \* extensions in the root command parser, in order
    responseRoot, \* extensions in the root response parser
    live,         \* objects made and not deleted
    connected,    \* the RIL daemon calls back
    refused,      \* history: libraries opened and not registered
    unopened,     \* history: directory positions whose dlopen failed
    missing,      \* history: objects used while they did not exist
    freedTwice    \* history: an object has been deleted that did not exist

roots   == <<commandRoot, responseRoot>>
history == <<refused, unopened, missing, freedTwice>>
vars    == <<testMode, app, ext, mHandles, roots, live, connected, history>>

Core(o)  == <<o, "core">>
Of(o, l) == <<o, l>>

Parsers(l) == {Of("commandParser", l), Of("responseParser", l)}

\* Mutant: the extensions are loaded before the shared environment exists.
Mut_loadsTooEarly == <<"factory", "netconf", "commandRoot", "responseRoot",
                       "finalWriter", "proxyWriter", "extensions", "sharedEnv">>

\* What smmcore_init makes, the factory with its loader first.
InitOrder == <<"factory", "netconf", "commandRoot", "responseRoot",
               "finalWriter", "proxyWriter", "sharedEnv", "extensions">>

\* What the factory's destructor deletes before the loader and itself.
DisposeOrder == <<"netconf", "finalWriter", "proxyWriter", "commandRoot", "responseRoot">>

NoCtor == [pc |-> "none", lib |-> "none"]

Init ==
    /\ testMode \in BOOLEAN
    /\ app = [pc |-> "init", step |-> 1] /\ ext = NoCtor
    /\ mHandles = <<>> /\ commandRoot = <<>> /\ responseRoot = <<>>
    /\ live = {} /\ connected = FALSE
    /\ refused = {} /\ unopened = {} /\ missing = {} /\ freedTwice = FALSE

Uses(objects) == missing' = missing \cup (objects \ live)

\* What getInstance and the objects it leads to are.
Environment == {Core("sharedEnv"), Core("netconf")}
Writers     == {Core("proxyWriter"), Core("finalWriter")}

\* What Netconf refers to: the contexts it makes, of which there is at once one,
\* a route controller, and in test mode a null persistence.
Data == {Core("dcContexts"), Core("routeController")}
NetconfHas == Data \cup IF testMode THEN {} ELSE {Core("persistence")}

\* What a message goes through: the two writers and every parser, in the code of
\* its library.
Serving ==
    Environment \cup Writers \cup {Core("commandRoot"), Core("responseRoot")}
    \cup (UNION {Parsers(commandRoot[i]) : i \in DOMAIN commandRoot})
    \cup (UNION {Parsers(responseRoot[i]) : i \in DOMAIN responseRoot})
    \cup {Of("code", commandRoot[i]) : i \in DOMAIN commandRoot}
-----------------------------------------------------------------------------
(***************************************************************************)
(* smmcore_init.                                                           *)
(***************************************************************************)
Makes(objects) == live' = live \cup objects

\* The proxy is given the roots and the final writer, the environment is given
\* the data and the proxy; nobody looks inside them yet.
MakeCore ==
    /\ app.pc = "init" /\ InitOrder[app.step] # "extensions"
    /\ Makes({Core(InitOrder[app.step])}
             \cup IF InitOrder[app.step] = "netconf" THEN NetconfHas ELSE {})
    /\ app' = [app EXCEPT !.step = @ + 1]
    /\ UNCHANGED <<ext, mHandles, roots, connected, history>>

BeginLoading ==
    /\ app.pc = "init" /\ InitOrder[app.step] = "extensions"
    /\ app' = [pc |-> "loading", step |-> 1]
    /\ Uses({Core("factory")})
    /\ UNCHANGED <<ext, mHandles, roots, live, connected, refused, unopened, freedTwice>>

Reading(i) == app.pc = "loading" /\ ext = NoCtor /\ app.step = i /\ i \in DOMAIN Entries

SkipEntry(i) ==
    /\ Reading(i) /\ Entries[i] \notin Wanted
    /\ app' = [app EXCEPT !.step = @ + 1]
    /\ UNCHANGED <<ext, mHandles, roots, live, connected, history>>

\* Mutant: loading ends at the first library that cannot be opened.
Mut_stopsAtFailure(i) ==
    /\ Reading(i) /\ Entries[i] \in Wanted
    /\ app' = [pc |-> "running", step |-> 1]
    /\ unopened' = unopened \cup {i}
    /\ UNCHANGED <<ext, mHandles, roots, live, connected, refused, missing, freedTwice>>

OpenFails(i) ==
    /\ Reading(i) /\ Entries[i] \in Wanted
    /\ app' = [app EXCEPT !.step = @ + 1]
    /\ unopened' = unopened \cup {i}
    /\ UNCHANGED <<ext, mHandles, roots, live, connected, refused, missing, freedTwice>>

IsOpen(l) == \E h \in DOMAIN mHandles : mHandles[h] = l

\* A library that is open already is not constructed again.
OpenSucceeds(i) ==
    LET l == LibOf[Entries[i]]
    IN  /\ Reading(i) /\ Entries[i] \in Wanted
        /\ mHandles' = Append(mHandles, l)
        /\ Makes({Of("code", l)})
        /\ IF IsOpen(l)
           THEN app' = [app EXCEPT !.step = @ + 1] /\ UNCHANGED ext
           ELSE ext' = [pc |-> "construct", lib |-> l] /\ UNCHANGED app
        /\ UNCHANGED <<roots, connected, history>>

\* The constructor returns and the loader goes on to the next file.
Returns == ext' = NoCtor /\ app' = [app EXCEPT !.step = @ + 1]

\* netconf_ctor makes the parsers itself; atsample's are made by set_shared_env.
MakeParsers ==
    /\ ext.pc = "construct" /\ ext.lib = "netconf"
    /\ Makes(Parsers("netconf") \cup {Of("rilClient", "netconf")})
    /\ Uses({Core("sharedEnv")})
    /\ ext' = [ext EXCEPT !.pc = "connect"]
    /\ UNCHANGED <<app, mHandles, roots, connected, refused, unopened, freedTwice>>

\* The client may fail to connect, or connect and fail to send its first
\* request; in both cases the extension is not registered, in the second the
\* daemon's indications come all the same.
Connect ==
    /\ ext.pc = "connect"
    /\ \E ok \in BOOLEAN, sent \in BOOLEAN :
          /\ sent => ok
          /\ connected' = ok
          /\ IF sent
             THEN ext' = [ext EXCEPT !.pc = "register"] /\ UNCHANGED <<app, refused>>
             ELSE Returns /\ refused' = refused \cup {"netconf"}
    /\ UNCHANGED <<mHandles, roots, live, unopened, missing, freedTwice>>

Registering(l) ==
    /\ ext.lib = l
    /\ ext.pc = IF l = "netconf" THEN "register" ELSE "construct"

\* Mutant: the command parser is added before the response parser is looked at.
Mut_refusesHalfway(l) ==
    /\ Registering(l) /\ l \in Unfit
    /\ Uses(Environment)
    /\ Makes({Of("env", l)})
    /\ commandRoot' = Append(commandRoot, l) /\ UNCHANGED responseRoot
    /\ refused' = refused \cup {l}
    /\ Returns
    /\ UNCHANGED <<mHandles, connected, unopened, freedTwice>>

\* registerExtensionFactory refuses an invalid factory at once, and invalid
\* parsers after it has made an environment for them.
RegisterRefuses(l) ==
    /\ Registering(l) /\ l \in Unfit
    /\ \/ Uses(Environment) /\ Makes({Of("env", l)})
       \/ UNCHANGED <<missing, live>>
    /\ refused' = refused \cup {l}
    /\ Returns
    /\ UNCHANGED <<mHandles, roots, connected, unopened, freedTwice>>

\* Mutant: the response parser is put before those of earlier extensions.
Mut_answersBackwards(l) ==
    /\ Registering(l) /\ l \notin Unfit
    /\ Uses(Environment \cup {Core("factory"), Core("commandRoot"), Core("responseRoot")})
    /\ Makes({Of("env", l)} \cup Parsers(l))
    /\ commandRoot' = Append(commandRoot, l)
    /\ responseRoot' = <<l>> \o responseRoot
    /\ IF l = "netconf"
       THEN ext' = [ext EXCEPT !.pc = "announce"] /\ UNCHANGED app
       ELSE Returns
    /\ UNCHANGED <<mHandles, connected, refused, unopened, freedTwice>>

Register(l) ==
    /\ Registering(l) /\ l \notin Unfit
    /\ Uses(Environment \cup {Core("factory"), Core("commandRoot"), Core("responseRoot")})
    /\ Makes({Of("env", l)} \cup Parsers(l))
    /\ commandRoot' = Append(commandRoot, l)
    /\ responseRoot' = Append(responseRoot, l)
    /\ IF l = "netconf"
       THEN ext' = [ext EXCEPT !.pc = "announce"] /\ UNCHANGED app
       ELSE Returns
    /\ UNCHANGED <<mHandles, connected, refused, unopened, freedTwice>>

\* AT+XICFG goes through the proxy, which offers it to the response parsers.
Announce ==
    /\ ext.pc = "announce"
    /\ Uses(Environment \cup Writers \cup {Core("responseRoot")}
            \cup {Of("responseParser", responseRoot[i]) : i \in DOMAIN responseRoot})
    /\ Returns
    /\ UNCHANGED <<mHandles, roots, live, connected, refused, unopened, freedTwice>>

EndInit ==
    /\ app.pc = "loading" /\ ext = NoCtor /\ app.step > Len(Entries)
    /\ app' = [pc |-> "running", step |-> 1]
    /\ UNCHANGED <<ext, mHandles, roots, live, connected, history>>
-----------------------------------------------------------------------------
(***************************************************************************)
(* In service, and smmcore_dispose.                                        *)
(***************************************************************************)
\* smmcore_cmd_process and smmcore_rsp_process go through every parser.
HostCalls ==
    /\ app.pc = "running"
    /\ Uses(Serving)
    /\ UNCHANGED <<app, ext, mHandles, roots, live, connected, refused, unopened, freedTwice>>

\* AT+CGDCONT and AT+XGAUTH load and store the first context.
HostConfigures ==
    /\ app.pc = "running" /\ \E i \in DOMAIN commandRoot : commandRoot[i] = "netconf"
    /\ Uses(Serving \cup Data \cup {Core("persistence")})
    /\ UNCHANGED <<app, ext, mHandles, roots, live, connected, refused, unopened, freedTwice>>

ClientUses == Serving \cup Data \cup {Of("rilClient", "netconf"), Of("code", "netconf")}

\* A callback reads and writes contexts, opens and closes routes and completes
\* pending commands, whose answers go through the proxy.  The daemon does not
\* know that the library has been disposed of.
RilCallsBack ==
    /\ connected
    /\ Uses(ClientUses)
    /\ UNCHANGED <<app, ext, mHandles, roots, live, connected, refused, unopened, freedTwice>>

\* The answer to the first request makes it load the configuration.
onRadioModeSet ==
    /\ connected
    /\ Uses(ClientUses \cup {Core("persistence")})
    /\ UNCHANGED <<app, ext, mHandles, roots, live, connected, refused, unopened, freedTwice>>

Frees(objects) ==
    /\ live' = live \ objects
    /\ freedTwice' = (freedTwice \/ ~ objects \subseteq live)

Dispose ==
    /\ app.pc = "running"
    /\ app' = [pc |-> "disposing", step |-> 1]
    /\ UNCHANGED <<ext, mHandles, roots, live, connected, history>>

DeleteCore ==
    /\ app.pc = "disposing" /\ app.step \in DOMAIN DisposeOrder
    /\ Frees({Core(DisposeOrder[app.step])})
    /\ app' = [app EXCEPT !.step = @ + 1]
    /\ UNCHANGED <<ext, mHandles, roots, connected, refused, unopened, missing>>

ClosedForGood(l) == \A h \in 2 .. Len(mHandles) : mHandles[h] # l

\* The library's code, and the parsers it has made: none, if it was never asked
\* for them.
Made(l) == {Of("code", l)} \cup IF l \in Unfit THEN {} ELSE Parsers(l)

\* Mutant: every dlclose runs the destructor.
Mut_destroysEachTime ==
    /\ app.pc = "disposing" /\ app.step = Len(DisposeOrder) + 1 /\ mHandles # <<>>
    /\ mHandles' = Tail(mHandles)
    /\ Frees(Made(Head(mHandles)))
    /\ UNCHANGED <<app, ext, roots, connected, refused, unopened, missing>>

\* dlclose runs the library's destructor when it was the last handle.
CloseHandle ==
    /\ app.pc = "disposing" /\ app.step = Len(DisposeOrder) + 1 /\ mHandles # <<>>
    /\ mHandles' = Tail(mHandles)
    /\ IF ClosedForGood(Head(mHandles)) THEN Frees(Made(Head(mHandles)))
       ELSE UNCHANGED <<live, freedTwice>>
    /\ UNCHANGED <<app, ext, roots, connected, refused, unopened, missing>>

\* Mutant: the factory is not deleted.
Mut_forgetsFactory ==
    /\ app.pc = "disposing" /\ app.step = Len(DisposeOrder) + 1 /\ mHandles = <<>>
    /\ app' = [pc |-> "disposed", step |-> 1]
    /\ UNCHANGED <<ext, mHandles, roots, live, connected, history>>

EndDispose ==
    /\ app.pc = "disposing" /\ app.step = Len(DisposeOrder) + 1 /\ mHandles = <<>>
    /\ Frees({Core("factory")})
    /\ app' = [pc |-> "disposed", step |-> 1]
    /\ UNCHANGED <<ext, mHandles, roots, connected, refused, unopened, missing>>
-----------------------------------------------------------------------------
Loads ==
    \/ BeginLoading \/ EndInit
    \/ \E i \in DOMAIN Entries : SkipEntry(i) \/ OpenFails(i) \/ OpenSucceeds(i)

Constructs ==
    \/ MakeParsers \/ Connect \/ Announce
    \/ \E l \in Libs : RegisterRefuses(l) \/ Register(l)

Disposes == Dispose \/ DeleteCore \/ CloseHandle \/ EndDispose

Messages == HostCalls \/ HostConfigures \/ RilCallsBack \/ onRadioModeSet

\* Nobody writes the context that smmcore_init was given.
Next ==
    /\ UNCHANGED testMode
    /\ MakeCore \/ Loads \/ Constructs \/ Messages \/ Disposes

Spec == Init /\ [][Next]_vars
-----------------------------------------------------------------------------
(***************************************************************************)
(* Properties.                                                             *)
(***************************************************************************)
CoreObject == {Core(o) : o \in {"factory", "netconf", "commandRoot", "responseRoot",
                                "finalWriter", "proxyWriter", "sharedEnv"}}
NetconfObject == Data \cup {Core("persistence")}
ExtObject  == {"commandParser", "responseParser", "env", "rilClient", "code"} \X Libs
Object     == CoreObject \cup NetconfObject \cup ExtObject

\* The shape of the state; the root parsers hold libraries that can be opened.
TypeOK ==
    /\ app \in [pc : {"init", "loading", "running", "disposing", "disposed"}, step : Nat \ {0}]
    /\ ext \in [pc : {"construct", "connect", "register", "announce"}, lib : Libs] \cup {NoCtor}
    /\ mHandles \in Seq(Libs)
    /\ commandRoot \in Seq(Libs \ Unfit) /\ responseRoot \in Seq(Libs \ Unfit)
    /\ live \subseteq Object /\ missing \subseteq Object
    /\ testMode \in BOOLEAN /\ connected \in BOOLEAN /\ freedTwice \in BOOLEAN
    /\ refused \subseteq Libs /\ unopened \subseteq DOMAIN Entries

\* Commands and answers are offered to the same extensions in the same order,
\* each once, whichever libraries could not be opened, connected or registered
\* and however often the directory names a library.
RootsAgree ==
    /\ commandRoot = responseRoot
    /\ \A i, j \in DOMAIN commandRoot : commandRoot[i] = commandRoot[j] => i = j

\* A library that cannot be opened or registered stops none of the others: when
\* smmcore_init returns, every library that was opened and not refused serves.
OthersAreLoaded ==
    app.pc = "running" =>
        \A i \in DOMAIN Entries :
            \/ Entries[i] \notin Wanted \/ i \in unopened \/ LibOf[Entries[i]] \in refused
            \/ \E k \in DOMAIN commandRoot : commandRoot[k] = LibOf[Entries[i]]

\* What smmcore_dispose takes away from under a callback.
TakenAway ==
    {Core(DisposeOrder[j]) : j \in DOMAIN DisposeOrder}
    \cup UNION {Parsers(l) \cup {Of("code", l)} : l \in Libs}

\* No constructor, no call of the host and no callback of the daemon, from its
\* first request on, finds an object missing, with two exceptions.  In test mode
\* it is the persistence.  And once smmcore_dispose has begun, a client that has
\* connected may find the core, the parsers and the libraries gone; but never
\* itself, its environment, the contexts or the route controller.
NothingMissing ==
    missing \subseteq
        (IF testMode THEN {Core("persistence")} ELSE {}) \cup
        (IF app.pc \in {"disposing", "disposed"} /\ connected THEN TakenAway ELSE {})

\* Nothing is deleted twice, also not a library's parsers that have been handed
\* to the roots, or a library named twice.
FreedOnce == ~freedTwice

\* What is left when smmcore_dispose has returned, "TODO: dealloc of routeCtrl &
\* persist": of the core the environment and all that Netconf refers to, its
\* contexts included, and of the extensions their environments and netconf's RIL
\* client, which stays connected.
OnlyKnownLeaks ==
    app.pc = "disposed" =>
        /\ live \ ExtObject = {Core("sharedEnv")} \cup NetconfHas
        /\ live \cap ExtObject \subseteq {"env", "rilClient"} \X Libs
=============================================================================
