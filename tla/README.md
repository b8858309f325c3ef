# Verification of smart-modem-manager

The smart modem manager (SMM) is a C++ library that sits between a host device
and a modem. It reads the host's AT commands and the modem's answers, lets
extensions intercept either, talks to a RIL daemon about data calls, and opens
or closes the route between host and network. This directory holds TLA+ models
of its own logic, the TLC runs that check them and the TLAPS proofs about them.
Paths below are relative to `src/`.

    tlc -workers 2 -config MCSmmProxy_any.cfg MCSmmProxy.tla
    tlapm SmmProxyProofs.tla

## 1. The system

| component | state | operations | interacts with |
|---|---|---|---|
| Message relay (`core/src/smm_core.cpp`, `CompositeMessageParser.cpp`, `MessageParser.cpp`) | root parsers, one per direction | `smmcore_cmd_process`, `smmcore_rsp_process`, dispatch to the extensions' parsers in turn | called by the platform's AT thread; calls handlers |
| Output writers (`ProxyOutputWriter.cpp`, `FinalOutputWriter.cpp`) | the parser each offers text to | `writeToHost`, `writeToDevice` | called by handlers and callbacks |
| Pending messages (`Netconf.cpp`) | `mPendingMessages`, a stack without a lock | `enqueuePendingMessage`, `dequeuePendingMessage` | AT thread **and** RIL thread |
| AT response handling (`AtResponseParser.cpp`, `extensions/*/src/*AtResponseParser.cpp`) | none | OK, ERROR, +CME ERROR, +CCID: dequeue and complete a command, or decline | pending messages, host |
| Command handlers (`extensions/netconf/src/NetconfAtCommandParser.cpp`, `extensions/atsample/src/AtsampleAtCommandParser.cpp`) | none of their own | AT+CGACT, AT+CGDCONT, AT+XGAUTH, AT+CGCONTRDP, AT^SCID, AT^SWWAN, and commands answered at once | contexts, persistence, RIL client, pending messages |
| RIL client (`NetconfRilClient.cpp`) | handle to the daemon | requests; callbacks for responses and indications | RIL daemon, contexts, pending messages, routes |
| Data call contexts, registration (`DcContext.cpp`, `NetregContext`, `SharedEnv.cpp`) | cid, APN, PDP type, authentication, activated; technology | getters and setters, without a lock | both threads |
| Persistence (`NetconfLinuxPersistence.cpp`) | one file | `loadDcContext`, `storeDcContext` | handlers, RIL client at start-up |
| Route controller (`UnixNwRouteController.cpp`) | the kernel's filter and nat tables, the forwarding switch | `enableTethering`, `disableTethering` | RIL client, through `Netconf` |
| AT grammar (`AtCommandParser.cpp`, `AtResponseParser.cpp`) | none | one pass over a text: name, kind, arguments | relay |
| Factory, loading, life cycle (`SmmFactory.cpp`, `ExtensionLoader.cpp`, `smm_extension.cpp`, `*_extension.cpp`) | singletons, list of extensions, handles of their libraries | init, load, construct, register, dispose | all |
| Test route controller, address utilities, test program | - | - | - |

Two threads run the code: the platform's AT thread, which makes both `smmcore_`
calls, and the RIL client library's thread, which makes the callbacks. There is
no lock anywhere. What is hard follows from that, and from the daemon and the
network going their own way:

* a RIL answer racing the enqueue that follows its request, answers that are
  matched with whatever message was enqueued last, hosts that give up and retry;
* contexts written by both threads, in the middle of load, set and store;
* reports that are snapshots, asked for after an indication, applied in the
  order of arrival;
* stores that fail or are cut short, records written over longer ones, restarts,
  calls that survive the process;
* parsers that walk once over a text that may end anywhere;
* libraries that fail half-way through their construction while RIL already
  calls back, and destructors that run in the order of `dlclose`.

`PROJECT.json` lists every such hazard at its line, with the properties that
watch it or the reason why none does.

What makes each component correct: the relay tells the host exactly one answer
per command, its own; the pending list holds only what is awaited, and nothing
is left in it; the contexts come to agree with the network; what was stored with
success stays stored; the rules agree with the contexts; a text is taken apart as
a reader would; an extension serves with both parsers or with neither, and
nothing is used that does not exist.

## 2. Modules

| module | what it is |
|---|---|
| `AtChannel` | abstract specification: one command at a time, carried out, answered once with its own verdict |
| `SmmProxy` | relay, writers, handlers, response parsers, RIL callbacks and pending messages, with host, modem and daemon as environment |
| `DataCalls` | contexts, registration, persistence as a register, RIL client and routes |
| `Persistence` | the file itself: the record printed, scanned, written over, cut short |
| `AtGrammar` | both AT parsers as functions of a text, against a definition by positions |
| `Lifecycle` | from `smmcore_init` to `smmcore_dispose` |
| `MCSmmProxy`, `MCDataCalls`, `MCPersistence`, `MCAtGrammar`, `MCLifecycle` | their instances for TLC |
| `SmmProxyProofs`, `SmmProxyPatient` | theorems about SmmProxy |
| `DataCallsProofs`, `DataCallsMirror`, `DataCallsHost` | theorems about DataCalls |
| `LifecycleProofs` | theorems about Lifecycle |
| `PersistenceProofs` | theorems about Persistence |
| `AtGrammarProofs` | theorems about AtGrammar |

The modules meet at three places. AtGrammar says when a text is a message;
SmmProxy begins with the message. SmmProxy says when a waiting command is
answered; DataCalls says what has been done by then: `NetconfRilClient`'s
callbacks first update contexts and routes (DataCalls) and then answer
(SmmProxy). `AnswersBelong` says that the OK a patient host hears to AT+CGACT=1 is
its own command's; it does not say that there is a route then, nor does
anything else: the code answers OK to a setup whose call is not up yet, and never
learns whether a rule was added. DataCalls takes the file for a register that
holds the last record stored or, if the store fails, the one before; Persistence
says for which records and which failures that is so.

### SmmProxy

The variables follow the code: `mPendingMessages` is `Netconf`'s vector (last in,
first out), `at` and `rilThread` are the two threads with a `pc` each, `inbox`,
`modem` and `ril` are what is on its way to the AT thread, the modem and the
daemon. The AT thread handles one call at a time, so a handler is one action as
far as the RIL thread cannot see a difference: `CgactWrite` and `CgactEnqueue`
are two because an answer may come between (`NetconfAtCommandParser.cpp:521` and
`:523`), `ScidEnqueue` and `ScidWrite` because AT^SCID enqueues before it writes.
An answer of the modem goes from parser to parser (`ParserSkips`,
`ParserCompletes`) and is forwarded raw when none consumes it. Every command
carries a ghost identity, so that properties can ask whose answer it was.

Commands a handler answers before it returns are one value, "local", commands no
extension registers another, "other". The texts are left out: of an answer only
its kind matters. Extensions are registered before the first command
(`Lifecycle`).

`Exts` is the order of the extensions' parsers (readdir's order). `EarlyHost`
and `FastRil` are assumptions on the environment that can be switched off:
whether the host may send before AT+XICFG is answered, and whether the daemon
may answer before the handler has come to its enqueue.

### DataCalls

`mDcContexts` is `Netconf`'s vector, `mRat` the technology in `NetregContext`,
`stored` the file, `at` the AT thread between the load, the set and the store of
AT+CGDCONT and AT+XGAUTH, `ril` the RIL thread inside a report (four steps per
call, a fifth for the shell commands in `Netconf::onDataCallEstablished` and
`onDataCallTerminated`), `routes` the kernel's rules. `toRil` holds requests,
answered in any order; `toSmm` the answers and indications, delivered in order.
`links` and `registered` are the network's truth.

* `updateDcContextFromDataCall` takes no lock, and neither do the handlers. It is
  four steps: `FindContext` (the search, the `push_back` of a new context, and what
  `isActivated` said; `NetconfRilClient.cpp:341-352`), `SetCid` (`:354`),
  `SetActivated` (`:355`) and `SetApn` (`:358-395`: APN, addresses, PDP type, and
  the comparison that opens or closes the route). Between any two of them the AT
  thread may load, set or store.
* The AT thread's load is one step, its group of setters another, its store a
  third. A report's steps fall between these, not between two setters of one
  group. No property depends on that: the groups that matter set the cid once and
  the authentication mode once, and that what is stored may come from different
  threads is shown by the run `persisted` already.
* The first context is the host's. One PDP type stands for the three that
  `setupDataCall` accepts, the default "" is the one it refuses. Names,
  passwords, addresses and DNS servers are left out.
* APNs the host gives are not empty and have no space, the file is either absent
  or read in full, and a store writes all or nothing; Persistence drops all
  three.
* The daemon gives an indication after every change except a setup it was asked
  for, whose response carries the call; its lists include calls that went down,
  which is what the branch for a terminated call needs.
* A command that waits for RIL is just `awaiting`; which command an answer
  completes is SmmProxy's subject. A request of the host's that the library
  refuses to send is answered with ERROR and changes nothing, so it is left out.
* The client's own requests (the list and the registration status after an
  indication, initial attach and network selection; `NetconfRilClient.cpp:162`,
  `:172`, `:194`, `:224`) are sent without a look at the result. `ClientSends` says
  whether the library takes each of them; if it does not, one may be dropped
  and nobody learns of it.
* A setup that succeeds carries the state of its call's physical link, up or down,
  and is OK either way (`NetconfRilClient.cpp:355`, `:477`). `enableTethering` may
  fail to add either rule, `disableTethering` may fail to flush
  (`UnixNwRouteController.cpp:117`, `:123`, `:144`); the caller learns of neither.
  The history variables `unopened` and `leftover` count them, so that
  `RouteMatchesContext` says how many rules there are whatever fails, in place of
  excusing the states after a failure.
* A technology the switch of `onNwStateChanged` does not know leaves `rat`
  uninitialized: either outcome, registered or not, is possible.

`PatientHost` (AT+CGACT is awaited), `SettledHost` (the radio's start is awaited),
`AtomicAt` (no report is copied between a load and its store) and `ClientSends` are
switches for assumptions, used where a property needs one and off elsewhere.

### Persistence

`dc` is the first context with its six persistent fields, `file` the text of
`dc_ctx`, `at` the AT thread between `open` and `write`. A text is a sequence of
characters, but a character is only the word it belongs to and its place in it:
what `sscanf` can tell apart; `Char`, the set they are taken from, is a parameter. `Printed` is the format of
`NetconfLinuxPersistence::storeDcContext`, `ScanField` one label and conversion
of `loadDcContext`'s format; the two return values that count as a load, four and
six, are kept. `Over` writes at the start of the file and leaves the rest, for
want of `O_TRUNC`; `Garbage` is what the buffer holds behind the bytes read, for
want of a terminator. Opening and writing may fail, a write may be short (which
the code takes for success), and the process may end before or after opening.

What the model makes plain, and the properties therefore leave out: a record with
an empty APN, or one with a space in it, cannot be read back (the scan of the
next label fails, and with fewer than four values nothing is loaded); credentials
of which one is empty may come back as the tail of an older record. Left out: the
size of the buffer, the mode with which the file is created, the width of numbers.

### AtGrammar

A text is a sequence of symbols: the characters a parser looks at, letters that
stand for all others, and in answers the result codes, each as one symbol (so a
read that ends inside a code is not covered). `ParseCommand` folds
`AtCommandParser::onDataAvailable`'s loop body over the text, `ParseResponse`
`AtResponseParser`'s. The actions type a text symbol by symbol, so that TLC
compares every text up to `MaxLen` with `CommandForm`, `CommandArgs`,
`ResponseName` and `ResponseArgs`, which say by positions what a reader of the
whole line would say. These are written without recursion (`Nth` picks a position
by its rank, `Without` and `Pieces` are built on it), so that the agreement can be
proved as well as checked. Line feed is one symbol with carriage return, the case of
letters is folded, and the limits of buffers and of the argument vector are left
out.

The definitions by positions record what the code does where one might expect
something else: "?" asks only if exactly one symbol follows it; an "=" inside an
argument loses what precedes it; an OK that shares its read with the line of
anything but +CCID is not recognised as an answer.

### Lifecycle

`app` is the caller of `smmcore_init` and `smmcore_dispose`, `ext` the constructor
that `dlopen` is running, `mHandles` the loader's handles, `commandRoot` and
`responseRoot` the root parsers' children (the first is the factory's list of
extensions as well), `live` the objects that exist, `connected` whether the
daemon calls back. `testMode` is the `test_mode` of the context that
`smmcore_init` is given: `makeNetconf` then makes no persistence and hands on a
null reference (`SmmFactory.cpp:114-123`). What Netconf refers to, its contexts,
the route controller and the persistence, are objects too, used by the handlers
and by the RIL client's callbacks, and deleted by nobody (`Netconf.cpp:59`,
`SmmFactory.cpp:124`). The code of a library is an object as well, which `dlclose`
takes away. A directory is any sequence of files, each ignored or a
library or a link to one; an open may fail, netconf's connection or its first
request may fail, a library's factory or parsers may be invalid. `missing` and
`freedTwice` record uses and deletions of what does not exist: at the call that
makes the mistake, whether or not memory happens to survive it. atsample's and
netconf's constructors are different code and different actions.

## 3. Runs

Every run has `CHECK_DEADLOCK FALSE`: host, network and modem owe nothing, a
process may have been disposed of, and with the bounds used up the system is at
rest.

| run | assumes | shows |
|---|---|---|
| `any` | nothing: impatient host, early host, RIL faster than the enqueue | `TypeOK`; `AnswersConserved`: one final answer per command, counting those in flight and those a RIL callback drops; `NoOrphanPending`: no more messages are pending than answers under way that will take one off and answers dropped so |
| `patient` | the host never gives up and waits for AT+XICFG, RIL does not beat the enqueue | `PendingIsAwaited`, `AnswersBelong`, `NeverCrashes`, and `ImplementsChannel`: SmmProxy implements AtChannel, liveness included |
| `atsample` | no netconf extension | `EveryWaitEnds`: no host waits for ever, however it gives up and retries |
| `mirror` | one cid, no restart, `ClientSends`; fairness for the two liveness properties | `StaleOnlyInFlight`; `RouteMatchesContext`, with rules and flushes that fail; `EventuallyMirrors`, `StartUpEnds` |
| `two_cids` | host cid 1, daemon cids 1 and 2, the host waits for the radio's start; a restart, requests that are not taken | `TypeOK`; `OneContextPerCall`; `AuthSurvives` with reports copied between load and store |
| `committed` | `AtomicAt`, a patient host, `ClientSends`; an authentication mode that `DcContextInterface` has no name for | `CommittedSurvives` with failed stores and a restart; `AlreadyDownIsTrue`; `UpIsTrue`: a restart may make the context forget a call, never invent one |
| `config` | records of different lengths, one with an empty APN and one with a space | `TypeOK`, `PlainRecordSurvives`, `CredentialsSurvive`, `StoresOnlyItsOwn` with failed, short and interrupted writes, a restart, garbage behind the file |
| `grammar` | every text of up to six symbols | `TypeOK`, `CommandAgrees`, `ResponseAgrees`; `AnswerTakesOne`: an answer with one result code, cut into two reads anywhere but inside it, takes one command off the pending list, and none if its OK is hidden |
| `lifecycle` | a directory with the core's library, both extensions under two names each, and an invalid library; in test mode and not | `TypeOK`, `RootsAgree`, `OthersAreLoaded`, `NothingMissing`, `FreedOnce`, `OnlyKnownLeaks` |

Three more runs are expected to end in a violation. Each shows, with the shortest
trace, that the code does something other than a comment or a message of the
repository says; `findings` in `PROJECT.json` quotes it.

| run | what happens |
|---|---|
| `ccid` | after a retry a +CCID completes AT+CGACT |
| `already_up` | AT+CGACT=1 after an accepted AT+CGACT=0 is answered OK without a call |
| `persisted` | a report copied between set and store puts the daemon's cid into the file (and, two steps later, the interface's name for the APN) |

Other disagreements met while modelling, read off the code and not given a run:

* a lost registration leaves the technology as it was, so that a call is set up
  without one (`NetconfRilClient.cpp:327`; `NetconfAtCommandParser.cpp:508` tests
  the technology to prevent that);
* the modem's OK to the rewritten AT^SWWAN is passed on raw
  (`AtsampleAtCommandParser.cpp:404`), while `tests/tsl/test_at_parsing.c:239` says
  it should be consumed;
* in test mode Netconf refers to a null persistence (`SmmFactory.cpp:123`), which
  AT+CGDCONT, AT+XGAUTH and the answer to the first RIL request use, while
  `tests/tsl/test_at_parsing.c:384` sets that mode and `:298` sends AT+CGDCONT (and
  expects it not to be consumed, which is so only without netconf);
* AT+CGCONTRDP reports the interface's name for the APN (`NetconfRilClient.cpp:359`);
* AT+XGAUTH is accepted without an AT+CGDCONT once a report has given the context
  a cid (`NetconfAtCommandParser.cpp:430`) and then stores the interface's name for
  the APN, and it looks at the authentication mode
  before it has parsed it (`:394` and `:407`);
* the authentication of an AT+XGAUTH whose store failed may be stored by the next
  AT+CGDCONT, if nothing was stored before;
* `setIpFwdEnabled` writes "1" to switch forwarding off
  (`UnixNwRouteController.cpp:71`), and the nat table, which the flush does not
  name, grows by a rule per call (`:113`);
* the release request casts the cid to eight bits (`NetconfRilClient.cpp:497`).

### Bounds

`MaxCommands` 3 and `MaxGiveUps` 2 let two abandoned commands be pending below a
third, the least number at which last-in-first-out differs from every other
order twice. In DataCalls `MaxCallChanges` 2 lets the network set up a call and
drop it (or the reverse) around a command, so that two lists and a setup answer
are in flight at once; `MaxCommands` 1 is a command amid the four steps of reports,
2 to 4 cover define, authenticate, activate and release; one restart separates what memory knows
from what the file knows. Two cids of the daemon, one of which is the host's, are
enough to tell "the call's own context" from "the host's context" and to have
AT+CGDCONT take away the context a report has just found. Each property is also broken by a
mutant of a modelled definition (the `Mut_` operators) within the same bounds, so
the bounds reach the cases the property is about. In Persistence three commands
are a record, a longer or shorter one over it and one that reads what came of
both; the lengths of the words let a stale tail begin inside any field. In
AtGrammar six symbols hold two marks or codes with something before, between and
behind them, which is all that one pass with one flag of each kind can confuse;
that nothing longer confuses it either is proved.
The directory of `lifecycle` has each kind of entry, and each library that can be
named twice is. The theorems below need no bounds.

### Fairness

`SmmProxy`: weak fairness of the AT thread's reading and going on, of the RIL
thread, and of modem and daemon answering. The code loops and calls back without
ever waiting for anything else, and the protocol obliges modem and daemon to
answer. `DataCalls`: weak fairness of the AT thread in the middle of a command,
of the RIL client's callbacks, and of the daemon's answering. It is given to each
group as a whole, not to each request: host and network are bounded in the model
and owe nothing, so with them at rest every request is answered in the end, in
whatever order. `StartUpEnds` needs no more: the three requests share the queues
with everything else, and every queue is served. Persistence, AtGrammar and
Lifecycle have safety properties only; nothing there has to happen.

## 4. Proofs

All are checked by TLAPS, with no step left open. They assume only the named
ASSUMEs of `SmmProxy`, `DataCalls`, `Lifecycle`, `Persistence` and `AtGrammar` on the
constants (sets of natural numbers, `""` and the interface's name not being APNs,
bounds in Nat, a directory being a sequence of files, texts being sequences of
characters, the host's numbers one word other than -1, no letter being a symbol that
a parser looks at) and the hypotheses of each theorem.

| theorem | statement | argument |
|---|---|---|
| `TypeCorrect` | `Spec => []TypeOK` | `TypeInv` adds what the AT thread holds at each `pc` |
| `AnswersAreConserved` | `Spec => []AnswersConserved` | conservation is inductive once `ril` is known to be finite and commands to be read in the order they were sent (`ReadInOrder`), so that no request is in `ril` twice |
| `PatientHostIsServed` | under `Patience`, `[](PendingIsAwaited /\ AnswersBelong /\ NeverCrashes)` | `PatientInv`: exactly one place (inbox, thread, modem, daemon, callback) holds the awaited command, and the list holds it from enqueue to answer |
| `OnlyTheAwaitedIsPending`, `PatientHostNeverCrashes` | under `Patience`, the first and the last of these alone | the same invariant |
| `PendingListDoesNotSiltUp` | `Spec => []NoOrphanPending` | `PendingInv`: `Covered` also counts a request sent and not yet enqueued, and an AT^SCID's answer only until it has been offered to a parser that knows it; it is inductive together with the conservation of answers |
| `PatientHostHasChannel` | under `Patience`, `Spec => ImplementsChannelSafely` | each action maps to Issue, Execute, Answer or a stutter of AtChannel, by `PatientInv` |
| `DataCallsTypeCorrect` | `Spec => []TypeOK` | `TypeInv` adds that a setup answered with success carries its call, without which a callback could be updating with no call left |
| `CommittedConfigurationSurvives` | under `AtomicAt`, `[]CommittedSurvives` | `CommitInv`: after the load the context equals the file, before the store it has the command's fields and the file's others |
| `AddedContextsAreDistinct` | `Spec => []OneContextPerCall`, without a hypothesis | `OwnInv`: from the search to `SetCid` the call's cid is no added context's but the one found (`CidIsFree`); an added context has the cid of a call as soon as `SetCid` has run, and neither the host nor a later report changes it (`AddedCids`), for which the first context that matches is taken as the least element of a set |
| `RouteFollowsContext` | with one cid, restarts included, `[]RouteMatchesContext` | `RouteInv`: there is one context, what a report remembers of it stays true until the comparison, and while the shell commands are due the context is exactly one step ahead of the rules |
| `ContextMirrorsNetwork` | with one cid, `ClientSends` and no restart, `[]StaleOnlyInFlight` | `MirrorInv`: either the network has never had a call, or news are on their way (an indication, or a list asked for), or the newest report, in the queue, in hand or applied, tells the truth |
| `RestartsInventNoCall` | with one cid and `ClientSends`, restarts included, `[]UpIsTrue` | the same `MirrorInv`, exact while there has been no restart and one-sided for ever: what an applied report leaves behind may be forgotten, never invented, because a restart clears `activated` and no file holds it |
| `AlreadyDownIsTold` | with one cid and a patient host, `[]AlreadyDownIsTrue` | `SerialInv`: at most one of the host's requests and answers is under way, and none when nothing is awaited; `UpInv`: while the network and the process are undisturbed, a call that is up has its successful setup answer in the queue, with nothing behind it that says "down", or the context knows of it and no report in the queue or in hand denies it |
| `AuthenticationSurvives` | under `SettledHost`, `[]AuthSurvives` | `KeptInv` says what authentication mode the AT thread has loaded and set; a report has no step that writes it, and with `RadioDone` no load of the RIL thread is due while a command is being carried out |
| `RootsAlwaysAgree`, `FailuresAreContained`, `ObjectsOutliveTheirUse`, `DisposedOnce`, `NothingElseLeaks`, `LifecycleTypes` | `[]RootsAgree`, `[]OthersAreLoaded`, `[]NothingMissing`, `[]FreedOnce`, `[]OnlyKnownLeaks`, `[]TypeOK` for every directory | `LifeInv`: what exists at each step of init and dispose, Netconf's data and the libraries' code included; that a library's parsers exist exactly while it is open; that every file read is settled |
| `ContextsKeepTheirShape` | `Spec => []TypeOK` for every set of texts and any garbage | whatever six steps of `ScanField` make of a text, a value read with %d is digits and one read with %s has no space (`LoadIs`) |
| `RecordsComeBack`, `CredentialsComeBack` | `[]PlainRecordSurvives`, `[]CredentialsSurvive` | `FileInv`: once a record is stored in full and not torn since, the file is that record and a tail. `LoadsBack`: such a text is scanned back to the record, whatever the tail; field by field (`ScanPrinted`), each ending where its space is |
| `CommandsKeepToTheirFields` | `Spec => StoresOnlyItsOwn` | `OwnInv`: between its load and its write a command's context has the committed record's values in all fields but the command's own |
| `Typing`, `CommandParsing`, `ResponseParsing` | `[]TypeOK`, `[]CommandAgrees`, `[]ResponseAgrees` for every alphabet and length | `CommandReads` and `ResponseReads` relate every field of the parser to the positions of the text read so far; they hold of the empty text and survive each kind of symbol |
| `OneCompletion` | `Spec => []AnswerTakesOne` | a cut leaves the one code in one of the reads (`CutIs`); the other has no code and takes nothing, since what is visible of it is no code either (`NoCode`); the first takes one unless it is `Hidden` (`WithCode`) |

Why the hypotheses: with a report copied between load and store the interface's
name, or the daemon's cid, gets stored (run `persisted`), so `CommittedSurvives`
needs `AtomicAt`, and without it only the authentication mode is claimed. If a
request for the list is dropped, no report comes, and the context stays wrong
until the next indication: hence `ClientSends`. A restart forgets a call that is
still up. With two cids the first context need not be the call's, and says nothing
of it: hence one cid for the theorems that compare the first context with the
network or the rules. `OneContextPerCall` leaves the first context out because it may
come to share a cid with one that was added, if AT+CGDCONT names it between a
report's search and its setters.

Persistence's invariant, `IInv` of `PersistenceProofs`, was a run's invariant
before it was proved. It is needed because neither survival nor `StoresOnlyItsOwn`
says what the file's text is: that it begins with the record last stored
(`FileInv`), that what is about to be stored was loaded from it (`OwnInv`), and that
a record which was ever stored has a cid of the host and a type and a mode that
`sscanf` accepts (`StoredInv`, `CommittedInv`). The hypothesis of the two survival
properties, one word for the access point name, is what the code needs: the
run also stores an empty name and one with a space, and does not get them back.

The theorems of `AtGrammarProofs` are inductions over texts. The library's
induction theorems take a predicate as a parameter, which the provers cannot
instantiate; `EveryNumber` and `EveryText` state induction with a set in its place,
and are proved from the well-foundedness of the natural numbers. What the fold
over a text is (`CommandFold`, `ResponseFold`: the empty text gives the start, one
more symbol one more step) is proved from the definition of `FoldLeft`, by showing
first that a function exists which satisfies its equation. The invariants
cannot be had from the four properties themselves: these speak of the
finished text only, and to pass from one length to the next one must know what is
in the buffer, which flags are set and which pieces have been put away. Every
operator of the definitions by positions therefore has a lemma that says what it
becomes when the text grows by one symbol (`AtAppend`, `NthGrows`,
`WithoutAppend`, `PiecesGrow`, `PiecesSplit`, `StretchAppend`, ...).
`AnswerTakesOne` needs none of the parsers' buffers any more, only the name and type
by positions; it says nothing of how many lines or commas come with the one result
code, because its proof needs no such bound.

Only model-checked: liveness (of `ImplementsChannel`, and `EveryWaitEnds`,
`EventuallyMirrors`, `StartUpEnds`), which TLAPS cannot prove. Every invariant and
every action property of a passing run is also a theorem. Some theorems go
further than their runs: `RouteFollowsContext` also covers restarts and requests of
the client's that are not taken, `AlreadyDownIsTold` the latter and reports copied
between the steps of a command.

## 5. What is left

SmmProxy and DataCalls in one module. Section 2 argues by hand what the two
properties say together; the product of the state spaces is out of TLC's reach at
bounds where either is interesting, so this would be a proof.

Not modelled:

* `deregisterExtensionFactory` and with it `removeChildParser`: nothing calls it;
* calls after `smmcore_dispose`, and a second `smmcore_init`, which would find
  `SharedEnv`'s instance with pointers to what has been deleted: the interface
  offers neither, and the repository's program does neither;
* data races inside a single read or write of a context's field or of the vector
  of pending messages: the modules take each as one step, and lose only what is
  lost between steps;
* the limits of buffers and argument vectors, file modes, the width of numbers,
  addresses and DNS servers, the location in a registration;
* the test route controller (logs and answers true), the address utilities
  (wrappers of `inet_pton`), the test program (read for what it expects), tracing
  and formatting.
