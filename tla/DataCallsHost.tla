--------------------------- MODULE DataCallsHost ----------------------------
(***************************************************************************)
(* What the host may rely on although nothing keeps the daemon's reports   *)
(* away from its commands.  The authentication mode it has configured      *)
(* stays in the file.  And "already down" is the truth, if the host awaits *)
(* every answer.                                                           *)
(***************************************************************************)
EXTENDS DataCallsMirror

(***************************************************************************)
(* The radio's answer loads the file over the context, so it must not be   *)
(* due while a command is between its load and its store.                  *)
(***************************************************************************)
OtherRequest == {req \in RilRequest : req.type # "radio"}
OtherMessage == {msg \in RilMessage : msg.type # "radio"}

RadioDone == at.pc # "idle" => toRil \in Seq(OtherRequest) /\ toSmm \in Seq(OtherMessage)

\* After the load the authentication mode is the file's, and before the store
\* too unless the command has set it.
AuthLoaded ==
    /\ at.pc = "set" \/ (at.pc = "store" /\ at.cmd = "CGDCONT")
    /\ stored # Nothing
    => mDcContexts[1].auth = stored.auth

AuthSet == at.pc = "store" /\ at.cmd = "XGAUTH" => mDcContexts[1].auth = at.auth

KeptInv == AuthLoaded /\ AuthSet /\ BusyHasCommand /\ AuthSurvives
-----------------------------------------------------------------------------
LEMMA ToSubset ==
    ASSUME NEW S, NEW s \in Seq(S), NEW T, \A i \in DOMAIN s : s[i] \in T
    PROVE  s \in Seq(T)
BY LenProperties

\* Only a start of the process asks for the radio.
LEMMA RadioStaysDone ==
    ASSUME SettledHost, TypeInv, TypeInv', RadioDone, Next
    PROVE  RadioDone'
<1>1. toRil \in Seq(RilRequest) /\ toSmm \in Seq(RilMessage)
  BY DEF TypeInv, TypeOK, WiresOK
<1> SUFFICES ASSUME at'.pc # "idle"
             PROVE  toRil' \in Seq(OtherRequest) /\ toSmm' \in Seq(OtherMessage)
  BY DEF RadioDone
<1>2. CASE AtStarts
  <2>1. HostCommands /\ UNCHANGED wires
    BY <1>2 DEF AtStarts, QueryLoads, CgdcontLoad, XgauthLoad, CgactWrite, HostCommands, atVars
  <2>2. RadioSettled
    BY <2>1 DEF HostCommands
  <2>3. /\ \A i \in DOMAIN toRil : toRil[i] \in OtherRequest
        /\ \A i \in DOMAIN toSmm : toSmm[i] \in OtherMessage
    BY <1>1, <2>2, ElementOfSeq, LenProperties DEF RadioSettled, OtherRequest, OtherMessage
  <2> QED
    BY <1>1, <2>1, <2>3, ToSubset DEF wires
<1>3. CASE Restart
  BY <1>3 DEF Restart, AtIdle
<1>4. ASSUME AtContinues \/ RilDaemon \/ Network \/ RilClient
      PROVE  toRil' \in Seq(OtherRequest) /\ toSmm' \in Seq(OtherMessage)
  <2>1. at.pc # "idle"
    BY <1>4 DEF AtContinues, CgdcontSet, XgauthSet, StoreAndAnswer, RilDaemon, RilSetsUp,
       RilDeactivates, RilLists, RilReportsStatus, RilStartsUp, RilAnswers, Network,
       CallChanges, RegistrationChanges, RilClient, onIRilIndication, onRadioModeSet,
       onInitialAttachSet, onNetworkSelected, onNwStateChanged, onDataCallSetup,
       onDataCallReleased, onDataCallListChanged, updateDcContextFromDataCall,
       FindContext, SetCid, SetActivated, SetApn, Copying, enableTethering,
       disableTethering, Delivers, atVars
  <2>2. toRil \in Seq(OtherRequest) /\ toSmm \in Seq(OtherMessage)
    BY <2>1 DEF RadioDone
  <2>3. \A i \in DOMAIN toRil : toRil[i].type # "radio"
    BY <2>2, ElementOfSeq, LenProperties DEF OtherRequest
  <2>4. \A type \in RequestType \ {"radio"} :
           Append(toRil, Request(type, NoCid)) \in Seq(OtherRequest)
    <3> SUFFICES ASSUME NEW type \in RequestType \ {"radio"}
                 PROVE  Append(toRil, Request(type, NoCid)) \in Seq(OtherRequest)
      OBVIOUS
    <3>1. Request(type, NoCid) \in OtherRequest
      BY ConstantTypes DEF OtherRequest, Request
    <3> QED
      BY <2>2, <3>1, AppendProperties
  <2>5. \A msg : toSmm' = Append(toSmm, msg) /\ msg.type # "radio" => toSmm' \in Seq(OtherMessage)
    <3> SUFFICES ASSUME NEW msg, toSmm' = Append(toSmm, msg), msg.type # "radio"
                 PROVE  toSmm' \in Seq(OtherMessage)
      OBVIOUS
    <3>1. Append(toSmm, msg) \in Seq(RilMessage)
      BY DEF TypeInv, TypeOK, WiresOK
    <3>2. msg \in RilMessage
      BY <3>1, <1>1
    <3> QED
      BY <2>2, <3>2, AppendProperties DEF OtherMessage
  <2>6. CASE UNCHANGED wires
    BY <2>2, <2>6 DEF wires
  <2>7. CASE RilDaemon
    <3>1. PICK i \in DOMAIN toRil : \/ RilSetsUp(i) \/ RilDeactivates(i) \/ RilLists(i)
                                    \/ RilReportsStatus(i) \/ RilStartsUp(i)
      BY <2>7 DEF RilDaemon
    <3>2. Without(toRil, i) \in Seq(OtherRequest)
      BY <2>2, WithoutType
    <3> DEFINE Sent == /\ toRil' = Without(toRil, i)
                       /\ \/ \E msg : toSmm' = Append(toSmm, msg) /\ msg.type # "radio"
                          \/ toSmm' = toSmm \o <<Message("released", TRUE, {}, "none"), CallsChanged>>
    <3>a. ASSUME NEW type \in {"setup", "released", "list", "status", "attach", "select"},
                 NEW req, NEW ok, NEW calls, NEW reg,
                 RilAnswers(i, req, Message(type, ok, calls, reg))
          PROVE  Sent
      <4>1. PICK msg : msg = Message(type, ok, calls, reg)
        OBVIOUS
      <4>2. msg.type # "radio"
        BY <4>1 DEF Message
      <4>3. toRil' = Without(toRil, i) /\ toSmm' = Append(toSmm, msg)
        BY <3>a, <4>1 DEF RilAnswers
      <4> QED
        BY <4>2, <4>3
    <3>k. toRil' = Without(toRil, i)
          /\ toSmm' = toSmm \o <<Message("released", TRUE, {}, "none"), CallsChanged>> => Sent
      OBVIOUS
    <3> HIDE DEF Sent
    <3>b. ASSUME RilSetsUp(i) PROVE Sent
      BY <3>a, <3>b DEF RilSetsUp
    <3>c. ASSUME RilDeactivates(i) PROVE Sent
      BY <3>a, <3>c, <3>k DEF RilDeactivates
    <3>d. ASSUME RilLists(i) PROVE Sent
      BY <3>a, <3>d DEF RilLists
    <3>e. ASSUME RilReportsStatus(i) PROVE Sent
      BY <3>a, <3>e DEF RilReportsStatus
    <3>f. ASSUME RilStartsUp(i) PROVE Sent
      BY <2>3, <3>a, <3>f DEF RilStartsUp, RilAnswers
    <3>3. Sent
      BY <3>1, <3>b, <3>c, <3>d, <3>e, <3>f
    <3>g. PICK a, b : a = Message("released", TRUE, {}, "none") /\ b = CallsChanged
      OBVIOUS
    <3>h. a \in OtherMessage /\ b \in OtherMessage
      BY <3>g, MessageTypes DEF OtherMessage, Message, CallsChanged, MessageType, Registration
    <3>i. toSmm \o <<a, b>> \in Seq(OtherMessage)
      BY <2>2, <3>h, ConcatProperties
    <3>4. toSmm \o <<Message("released", TRUE, {}, "none"), CallsChanged>> \in Seq(OtherMessage)
      BY <3>g, <3>i
    <3> QED
      BY <2>5, <3>2, <3>3, <3>4 DEF Sent
  <2>8. CASE Network
    <3>1. \E msg : toSmm' = Append(toSmm, msg) /\ msg.type # "radio"
      BY <2>8 DEF Network, CallChanges, RegistrationChanges, CallsChanged, Message
    <3>2. UNCHANGED toRil
      BY <2>8 DEF Network, CallChanges, RegistrationChanges
    <3> QED
      BY <2>2, <2>5, <3>1, <3>2
  <2>9. CASE AtContinues
    BY <2>6, <2>9 DEF AtContinues, CgdcontSet, XgauthSet, StoreAndAnswer
  <2>10. CASE RilClient
    <3>1. \/ UNCHANGED wires
          \/ /\ toSmm # <<>> /\ toSmm' = Tail(toSmm)
             /\ \/ UNCHANGED toRil
                \/ \E type \in {"list", "status", "attach", "select"} :
                      toRil' = Append(toRil, Request(type, NoCid))
      BY <2>10 DEF RilClient, onIRilIndication, onRadioModeSet, onInitialAttachSet,
         onNetworkSelected, onNwStateChanged, onDataCallSetup, onDataCallReleased,
         onDataCallListChanged, updateDcContextFromDataCall, FindContext, SetCid,
         SetActivated, SetApn, Copying, enableTethering, disableTethering, Delivers, Asks
    <3>2. toSmm # <<>> => Tail(toSmm) \in Seq(OtherMessage)
      BY <2>2, HeadTailProperties
    <3>3. {"list", "status", "attach", "select"} \subseteq RequestType \ {"radio"}
      BY DEF RequestType
    <3> QED
      BY <2>2, <2>4, <2>6, <3>1, <3>2, <3>3
  <2> QED
    BY <1>4, <2>7, <2>8, <2>9, <2>10, SMTT(30)
<1> QED
  BY <1>2, <1>3, <1>4 DEF Next
-----------------------------------------------------------------------------
(***************************************************************************)
(* What is stored is what was committed.                                   *)
(***************************************************************************)

\* What leaves the file alone, and of the context what the AT thread counts on.
LEMMA KeptQuiet ==
    ASSUME KeptInv, UNCHANGED <<stored, committed>>,
           \/ at'.pc = "idle"
           \/ UNCHANGED at /\ mDcContexts'[1].auth = mDcContexts[1].auth
    PROVE  KeptInv'
BY DEF KeptInv, AuthLoaded, AuthSet, BusyHasCommand, AuthSurvives, AuthKept

LEMMA KeptAt ==
    ASSUME TypeInv, KeptInv, AtStarts \/ AtContinues
    PROVE  KeptInv'
<1> USE DEF KeptInv, AuthLoaded, AuthSet, BusyHasCommand
<1>1. /\ mDcContexts \in Seq(DcContext) /\ 1 \in DOMAIN mDcContexts
      /\ mDcContexts[1] \in DcContext /\ loadDcContext(mDcContexts[1]) \in DcContext
      /\ at \in AtThread /\ committed \in Record /\ stored \in Record
  BY ContextTypes DEF TypeInv, TypeOK, AtOK
<1>2. \A dc : SetFirst(dc) => mDcContexts'[1] = dc
  BY <1>1 DEF SetFirst
<1> DEFINE loaded == loadDcContext(mDcContexts[1])
<1>3. stored # Nothing => loaded.auth = stored.auth
  BY <1>1 DEF loadDcContext, DcContext
<1> HIDE DEF loaded
<1>4. CASE QueryLoads
  BY <1>4, KeptQuiet DEF QueryLoads, HostCommands, atVars
<1>5. ASSUME NEW cid \in HostCids, NEW apn \in Apns, CgdcontLoad(cid, apn)
      PROVE  KeptInv'
  <2>1. /\ mDcContexts'[1] = loaded /\ UNCHANGED <<stored, committed>>
        /\ at'.pc = "set" /\ at'.cmd = "CGDCONT"
    BY <1>2, <1>5 DEF CgdcontLoad, loaded
  <2> QED
    BY <1>3, <2>1 DEF AuthSurvives, AuthKept
<1>6. ASSUME NEW cid \in HostCids, NEW auth \in AuthModes, XgauthLoad(cid, auth)
      PROVE  KeptInv'
  <2>1. mDcContexts'[1] = loaded /\ UNCHANGED <<stored, committed>>
    BY <1>2, <1>6 DEF XgauthLoad, loaded
  <2>2. CASE loaded.cid = cid
    <3>1. at'.pc = "set" /\ at'.cmd = "XGAUTH"
      BY <1>6, <2>2 DEF XgauthLoad, loaded
    <3> QED
      BY <1>3, <2>1, <3>1 DEF AuthSurvives, AuthKept
  <2>3. CASE loaded.cid # cid
    <3>1. at'.pc = "idle"
      BY <1>6, <2>3 DEF XgauthLoad, loaded, AtIdle
    <3> QED
      BY <2>1, <3>1, KeptQuiet
  <2> QED
    BY <2>2, <2>3
<1>7. ASSUME NEW up \in BOOLEAN, CgactWrite(up)
      PROVE  KeptInv'
  BY <1>7, KeptQuiet DEF CgactWrite, smmVars
<1>8. CASE CgdcontSet
  <2>1. /\ mDcContexts'[1] = [mDcContexts[1] EXCEPT !.cid = at.cid, !.apn = at.apn,
                                                    !.pdpType = "IP"]
        /\ at' = [at EXCEPT !.pc = "store"] /\ UNCHANGED <<stored, committed>>
        /\ at.pc = "set" /\ at.cmd = "CGDCONT"
    BY <1>2, <1>8 DEF CgdcontSet
  <2>2. /\ mDcContexts'[1].auth = mDcContexts[1].auth
        /\ at'.pc = "store" /\ at'.cmd = "CGDCONT"
    BY <1>1, <2>1 DEF DcContext, AtThread
  <2> QED
    BY <2>1, <2>2 DEF AuthSurvives, AuthKept
<1>9. CASE XgauthSet
  <2>1. /\ mDcContexts'[1] = [mDcContexts[1] EXCEPT !.auth = at.auth]
        /\ at' = [at EXCEPT !.pc = "store"] /\ UNCHANGED <<stored, committed>>
        /\ at.pc = "set" /\ at.cmd = "XGAUTH"
    BY <1>2, <1>9 DEF XgauthSet
  <2>2. /\ mDcContexts'[1].auth = at.auth
        /\ at'.pc = "store" /\ at'.cmd = "XGAUTH" /\ at'.auth = at.auth
    BY <1>1, <2>1 DEF DcContext, AtThread
  <2> QED
    BY <2>1, <2>2 DEF AuthSurvives, AuthKept
<1>10. CASE StoreAndAnswer
  <2>1. at.pc = "store" /\ at'.pc = "idle" /\ UNCHANGED mDcContexts
    BY <1>10 DEF StoreAndAnswer, AtIdle, smmVars
  <2>2. CASE UNCHANGED <<stored, committed>>
    BY <2>1, <2>2, KeptQuiet
  <2>3. ASSUME storeDcContext(mDcContexts[1]),
               committed' = IF at.cmd = "CGDCONT"
                            THEN [committed EXCEPT !.cid = at.cid, !.apn = at.apn,
                                                   !.pdpType = "IP"]
                            ELSE [committed EXCEPT !.auth = at.auth]
        PROVE  KeptInv'
    <3>1. stored'.auth = mDcContexts[1].auth
      BY <2>3 DEF storeDcContext
    <3>2. Nothing.auth = AuthDisabled
      BY DEF Nothing
    <3>3. CASE at.cmd = "CGDCONT"
      <4>1. committed'.auth = committed.auth
        BY <1>1, <2>3, <3>3 DEF Record
      <4> QED
        BY <2>1, <3>1, <3>2, <3>3, <4>1 DEF AuthSurvives, AuthKept
    <3>4. CASE at.cmd = "XGAUTH"
      <4>1. committed'.auth = at.auth
        BY <1>1, <2>3, <3>4 DEF Record
      <4> QED
        BY <2>1, <3>1, <3>2, <3>4, <4>1 DEF AuthSurvives, AuthKept
    <3> QED
      BY <2>1, <3>3, <3>4
  <2> QED
    BY <1>10, <2>2, <2>3 DEF StoreAndAnswer
<1> QED
  BY <1>4, <1>5, <1>6, <1>7, <1>8, <1>9, <1>10 DEF AtStarts, AtContinues

\* No step of a report touches the authentication mode.
LEMMA ReportKeepsAuth ==
    ASSUME TypeInv, NEW call \in ril.todo, updateDcContextFromDataCall(call)
    PROVE  /\ UNCHANGED <<at, stored, committed>>
           /\ mDcContexts'[1].auth = mDcContexts[1].auth
<1>1. /\ mDcContexts \in Seq(DcContext) /\ 1 \in DOMAIN mDcContexts
      /\ DOMAIN mDcContexts = 1 .. Len(mDcContexts)
  BY ContextTypes, LenProperties DEF TypeInv
<1>2. UNCHANGED <<at, stored, committed>>
  BY DEF updateDcContextFromDataCall, FindContext, SetCid, SetActivated, SetApn, Copying
<1>3. CASE FindContext(call)
  <2>1. \/ UNCHANGED mDcContexts
        \/ mDcContexts' = Append(mDcContexts, NewContext)
    BY <1>3 DEF FindContext
  <2>2. PICK new \in DcContext : new = NewContext
    BY ConstantTypes
  <2>3. mDcContexts' = Append(mDcContexts, new) => mDcContexts'[1] = mDcContexts[1]
    BY <1>1, AppendProperties
  <2> QED
    BY <1>2, <2>1, <2>2, <2>3
<1>4. CASE SetCid(call)
  BY <1>1, <1>2, <1>4, CidIsSet
<1>5. CASE SetActivated(call)
  BY <1>1, <1>2, <1>5, ActivatedIsSet
<1>6. CASE SetApn(call)
  BY <1>1, <1>2, <1>6, ApnIsSet
<1> QED
  BY <1>3, <1>4, <1>5, <1>6 DEF updateDcContextFromDataCall

LEMMA KeptOthers ==
    ASSUME TypeInv, RadioDone, KeptInv, RilDaemon \/ Network \/ RilClient \/ Restart
    PROVE  KeptInv'
<1>1. CASE \/ RilDaemon \/ Network \/ onIRilIndication \/ onInitialAttachSet
           \/ onNetworkSelected \/ onNwStateChanged \/ onDataCallReleased
  BY <1>1, OthersWriteNothing, KeptQuiet
<1>2. CASE onRadioModeSet
  <2>1. /\ toSmm # <<>> /\ Head(toSmm).type = "radio"
        /\ UNCHANGED <<at, stored, committed>>
    BY <1>2 DEF onRadioModeSet, Delivers
  <2>2. at.pc = "idle"
    <3>1. SUFFICES ASSUME toSmm \in Seq(OtherMessage) PROVE FALSE
      BY DEF RadioDone
    <3>2. Head(toSmm) \in OtherMessage
      BY <2>1, <3>1, HeadTailProperties
    <3> QED
      BY <2>1, <3>2 DEF OtherMessage
  <2> QED
    BY <2>1, <2>2, KeptQuiet
<1>3. CASE \/ onDataCallSetup \/ onDataCallListChanged \/ enableTethering \/ disableTethering
  BY <1>3, KeptQuiet
     DEF onDataCallSetup, onDataCallListChanged, enableTethering, disableTethering, Delivers,
         smmVars
<1>4. ASSUME NEW call \in ril.todo, updateDcContextFromDataCall(call)
      PROVE  KeptInv'
  BY <1>4, ReportKeepsAuth, KeptQuiet
<1>5. CASE Restart
  <2>1. at'.pc = "idle" /\ UNCHANGED <<stored, committed>>
    BY <1>5 DEF Restart, AtIdle
  <2> QED
    BY <2>1, KeptQuiet
<1> QED
  BY <1>1, <1>2, <1>3, <1>4, <1>5 DEF RilClient

\* If the host begins when the radio has started, the authentication mode of
\* the last successful AT+XGAUTH is in the file, although reports are copied
\* into the context between any of load, set and store, stores fail and the
\* process restarts.  (The cid and the APN are not so lucky: a report can set
\* them between the handler's set and its store.)
THEOREM AuthenticationSurvives ==
    ASSUME SettledHost PROVE Spec => []AuthSurvives
<1>1. Init => RadioDone /\ KeptInv
  <2> SUFFICES ASSUME Init PROVE RadioDone /\ KeptInv
    OBVIOUS
  <2>1. at.pc = "idle" /\ stored = Nothing /\ stored = committed
    BY DEF Init, AtIdle
  <2>2. RadioDone
    BY <2>1 DEF RadioDone
  <2>3. KeptInv
    BY <2>1 DEF KeptInv, AuthLoaded, AuthSet, BusyHasCommand, AuthSurvives, AuthKept
  <2> QED
    BY <2>2, <2>3
<1>2. TypeInv /\ TypeInv' /\ RadioDone /\ KeptInv /\ [Next]_vars => RadioDone' /\ KeptInv'
  <2> SUFFICES ASSUME TypeInv, TypeInv', RadioDone, KeptInv, [Next]_vars
               PROVE  RadioDone' /\ KeptInv'
    OBVIOUS
  <2>1. CASE UNCHANGED vars
    <3>1. UNCHANGED <<mDcContexts, at, stored, committed, toRil, toSmm>>
      BY <2>1 DEF vars, smmVars, atVars, wires
    <3> QED
      BY <3>1, KeptQuiet DEF RadioDone
  <2>2. CASE Next
    BY <2>2, RadioStaysDone, KeptAt, KeptOthers DEF Next
  <2> QED
    BY <2>1, <2>2
<1>3. KeptInv => AuthSurvives
  BY DEF KeptInv
<1> QED
  BY <1>1, <1>2, <1>3, TypeInvariant, PTL DEF Spec
-----------------------------------------------------------------------------
(***************************************************************************)
(* What AT+CGACT=0 tells a patient host.  One request at a time goes to    *)
(* the daemon and comes back as an answer; and while the call is up and    *)
(* the network has done nothing of its own accord, either the answer to a  *)
(* setup is still to come, with no report behind it that says "down", or   *)
(* the context knows.                                                      *)
(***************************************************************************)
Commands == {"setup", "deactivate"}
Answers  == {"setup", "released"}

AtMostOne(queue, types) ==
    \A i, j \in DOMAIN queue : queue[i].type \in types /\ queue[j].type \in types => i = j
NoneOf(queue, types) == \A i \in DOMAIN queue : queue[i].type \notin types

Answering == ril.pc # "idle" /\ ril.reply

NothingAwaited == NoneOf(toRil, Commands) /\ NoneOf(toSmm, Answers) /\ ~Answering

SerialInv ==
    /\ AtMostOne(toRil, Commands) /\ AtMostOne(toSmm, Answers)
    /\ NoneOf(toRil, Commands) \/ NoneOf(toSmm, Answers)
    /\ Answering => NoneOf(toRil, Commands) /\ NoneOf(toSmm, Answers)
    /\ ~awaiting => NothingAwaited

SaysUp(msg)   == IsReport(msg) => Says(msg.calls)
AllUp(queue)  == \A i \in DOMAIN queue : SaysUp(queue[i])
SetUp(msg)    == msg.type = "setup" /\ msg.ok
UpComes(queue) ==
    \E i \in DOMAIN queue : /\ SetUp(queue[i])
                            /\ \A j \in DOMAIN queue : j >= i => SaysUp(queue[j])

UpIsKnown ==
    /\ AllUp(toSmm)
    /\ Updating => Says(ril.todo)
    /\ mDcContexts[1].activated \/ (Updating /\ ril.reply)

Undisturbed == callChanges = 0 /\ restarts = 0

UpInv(c) == Undisturbed /\ Up(c) => UpComes(toSmm) \/ UpIsKnown

\* An element behind the others.
LEMMA AppendCounts ==
    ASSUME NEW S, NEW q \in Seq(S), NEW e \in S, NEW types
    PROVE  /\ e.type \notin types =>
                 /\ AtMostOne(q, types) => AtMostOne(Append(q, e), types)
                 /\ NoneOf(q, types) => NoneOf(Append(q, e), types)
           /\ NoneOf(q, types) => AtMostOne(Append(q, e), types)
<1> DEFINE r == Append(q, e)
<1>1. /\ Len(q) \in Nat /\ DOMAIN q = 1 .. Len(q) /\ DOMAIN r = 1 .. Len(q) + 1
      /\ \A i \in 1 .. Len(q) : r[i] = q[i]
      /\ r[Len(q) + 1] = e
  BY AppendIs
<1> HIDE DEF r
<1>2. \A i \in DOMAIN r : i = Len(q) + 1 \/ (i \in DOMAIN q /\ r[i] = q[i])
  BY <1>1
<1> QED
  BY <1>1, <1>2 DEF r, AtMostOne, NoneOf

\* An element taken off.
LEMMA TailCounts ==
    ASSUME NEW S, NEW q \in Seq(S), q # <<>>, NEW types
    PROVE  /\ AtMostOne(q, types) => AtMostOne(Tail(q), types)
           /\ NoneOf(q, types) => NoneOf(Tail(q), types)
           /\ Head(q).type \in types /\ AtMostOne(q, types) => NoneOf(Tail(q), types)
           /\ Head(q).type \in types => ~NoneOf(q, types)
<1> DEFINE r == Tail(q)
<1>1. /\ Len(q) \in Nat /\ Len(q) >= 1 /\ DOMAIN q = 1 .. Len(q) /\ Head(q) = q[1]
      /\ DOMAIN r = 1 .. Len(q) - 1 /\ \A i \in 1 .. Len(q) - 1 : r[i] = q[i + 1]
  BY TailIs
<1> HIDE DEF r
<1>2. \A i \in DOMAIN r : i \in Nat /\ i >= 1 /\ i + 1 \in DOMAIN q /\ r[i] = q[i + 1]
  BY <1>1
<1>3. 1 \in DOMAIN q
  BY <1>1
<1>4. ASSUME AtMostOne(q, types), NEW i \in DOMAIN r, NEW j \in DOMAIN r,
             r[i].type \in types, r[j].type \in types
      PROVE  i = j
  <2>1. i + 1 = j + 1
    BY <1>2, <1>4 DEF AtMostOne
  <2> QED
    BY <1>2, <2>1
<1>5. AtMostOne(q, types) => AtMostOne(r, types)
  BY <1>4 DEF AtMostOne
<1>6. NoneOf(q, types) => NoneOf(r, types)
  BY <1>2 DEF NoneOf
<1>7. ASSUME q[1].type \in types, AtMostOne(q, types), NEW i \in DOMAIN r
      PROVE  r[i].type \notin types
  <2>1. i + 1 # 1
    BY <1>2
  <2> QED
    BY <1>2, <1>3, <1>7, <2>1 DEF AtMostOne
<1>8. q[1].type \in types => ~NoneOf(q, types)
  BY <1>3 DEF NoneOf
<1> QED
  BY <1>1, <1>5, <1>6, <1>7, <1>8 DEF r, NoneOf

\* An element taken out.
LEMMA WithoutCounts ==
    ASSUME NEW S, NEW q \in Seq(S), NEW i \in DOMAIN q, NEW types
    PROVE  /\ AtMostOne(q, types) => AtMostOne(Without(q, i), types)
           /\ NoneOf(q, types) => NoneOf(Without(q, i), types)
           /\ q[i].type \in types /\ AtMostOne(q, types) => NoneOf(Without(q, i), types)
           /\ q[i].type \in types => ~NoneOf(q, types)
<1> DEFINE r == Without(q, i)
<1>1. PICK n \in Nat : n = Len(q)
  BY LenProperties
<1>2. DOMAIN q = 1 .. n /\ i \in 1 .. n
  BY <1>1, LenProperties
<1>3. /\ DOMAIN r = 1 .. n - 1
      /\ \A k \in 1 .. i - 1 : r[k] = q[k]
      /\ \A k \in i .. n - 1 : r[k] = q[k + 1]
  BY <1>1, <1>2, WithoutIs
<1> HIDE DEF r
<1> DEFINE was(k) == IF k < i THEN k ELSE k + 1
<1>4. ASSUME NEW k \in DOMAIN r
      PROVE  k \in Nat /\ was(k) \in DOMAIN q /\ was(k) # i /\ r[k] = q[was(k)]
  <2>1. k \in 1 .. n - 1
    BY <1>3
  <2>2. CASE k < i
    BY <1>2, <1>3, <2>1, <2>2
  <2>3. CASE ~(k < i)
    <3>1. k \in i .. n - 1
      BY <1>2, <2>1, <2>3
    <3> QED
      BY <1>2, <1>3, <2>1, <2>3, <3>1
  <2> QED
    BY <2>2, <2>3
<1>5. ASSUME NEW k \in DOMAIN r, NEW l \in DOMAIN r, was(k) = was(l) PROVE k = l
  BY <1>2, <1>4, <1>5
<1> HIDE DEF was
<1>6. AtMostOne(q, types) => AtMostOne(r, types)
  BY <1>4, <1>5 DEF AtMostOne
<1>7. NoneOf(q, types) => NoneOf(r, types)
  BY <1>4 DEF NoneOf
<1>8. q[i].type \in types /\ AtMostOne(q, types) => NoneOf(r, types)
  BY <1>4 DEF AtMostOne, NoneOf
<1> QED
  BY <1>6, <1>7, <1>8 DEF r, NoneOf

LEMMA ConcatIsAppend ==
    ASSUME NEW S, NEW s \in Seq(S), NEW a \in S, NEW b \in S
    PROVE  s \o <<a, b>> = Append(Append(s, a), b)
<1> DEFINE t == s \o <<a, b>>
           u == Append(s, a)
           v == Append(u, b)
<1>1. /\ Len(s) \in Nat /\ DOMAIN t = 1 .. Len(s) + 2
      /\ \A i \in 1 .. Len(s) : t[i] = s[i]
      /\ t[Len(s) + 1] = a /\ t[Len(s) + 2] = b
  BY ConcatTwo
<1>2. /\ u \in Seq(S) /\ Len(u) = Len(s) + 1
      /\ \A i \in 1 .. Len(s) : u[i] = s[i]
      /\ u[Len(s) + 1] = a
  BY AppendIs, AppendProperties
<1>3. t \in Seq(S)
  <2>1. <<a, b>> \in Seq(S)
    OBVIOUS
  <2> QED
    BY <2>1, ConcatProperties
<1> HIDE DEF t, u
<1>4. /\ v \in Seq(S) /\ DOMAIN v = 1 .. Len(u) + 1
      /\ \A i \in 1 .. Len(u) : v[i] = u[i]
      /\ v[Len(u) + 1] = b
  BY <1>2, AppendIs, AppendProperties
<1> HIDE DEF v
<1>5. Len(t) = Len(s) + 2 /\ Len(v) = Len(s) + 2
  BY <1>1, <1>2, <1>3, <1>4, LenProperties
<1>6. ASSUME NEW i \in 1 .. Len(s) + 2 PROVE t[i] = v[i]
  <2>1. i \in 1 .. Len(s) \/ i = Len(s) + 1 \/ i = Len(s) + 2
    BY <1>1
  <2>2. Len(s) + 1 \in 1 .. Len(u) /\ Len(u) + 1 = Len(s) + 2
        /\ \A j \in 1 .. Len(s) : j \in 1 .. Len(u)
    BY <1>1, <1>2
  <2> QED
    BY <1>1, <1>2, <1>4, <2>1, <2>2
<1>7. t = v
  BY <1>3, <1>4, <1>5, <1>6, SeqEqual
<1> QED
  BY <1>7 DEF t, u, v

LEMMA AppendedType ==
    ASSUME NEW S, NEW s \in Seq(S), NEW e, Append(s, e) \in Seq(S)
    PROVE  e \in S
<1>1. Len(s) \in Nat
  BY LenProperties
<1> QED
  BY <1>1

LEMMA EmptyCounts ==
    ASSUME NEW queue, DOMAIN queue = {}, NEW types
    PROVE  AtMostOne(queue, types) /\ NoneOf(queue, types)
BY DEF AtMostOne, NoneOf

\* What sends neither a command nor an answer, and ends no wait.
LEMMA SerialQuiet ==
    ASSUME SerialInv, UNCHANGED awaiting, Answering' => Answering,
           AtMostOne(toRil, Commands) => AtMostOne(toRil', Commands),
           NoneOf(toRil, Commands) => NoneOf(toRil', Commands),
           AtMostOne(toSmm, Answers) => AtMostOne(toSmm', Answers),
           NoneOf(toSmm, Answers) => NoneOf(toSmm', Answers)
    PROVE  SerialInv'
BY DEF SerialInv, NothingAwaited

\* The end of a wait: nothing was or is under way but what ended it.
LEMMA SerialEnds ==
    ASSUME awaiting' = FALSE, ~Answering',
           AtMostOne(toRil', Commands), NoneOf(toRil', Commands),
           AtMostOne(toSmm', Answers), NoneOf(toSmm', Answers)
    PROVE  SerialInv'
BY DEF SerialInv, NothingAwaited

\* A patient host sends a command only when nothing is under way.
LEMMA SerialAt ==
    ASSUME PatientHost, TypeInv, SerialInv, AtStarts \/ AtContinues
    PROVE  SerialInv'
<1>1. UNCHANGED <<ril, toSmm>>
  BY AtWritesFirst DEF rilVars
<1>2. toRil \in Seq(RilRequest)
  BY DEF TypeInv, TypeOK, WiresOK
<1>3. \/ UNCHANGED <<toRil, awaiting>>
      \/ /\ ~awaiting /\ awaiting' = TRUE
         /\ \E type \in Commands, cid \in Cid : toRil' = Append(toRil, Request(type, cid))
  <2>1. mDcContexts[1].cid \in Cid /\ NoCid \in Cid
    BY ContextTypes, ConstantTypes DEF TypeInv, DcContext
  <2> QED
    BY <2>1
    DEF AtStarts, AtContinues, QueryLoads, CgdcontLoad, XgauthLoad, CgactWrite, HostCommands,
        AnswersAlready, AsksRil, CgdcontSet, XgauthSet, StoreAndAnswer, wires, atVars, Commands
<1>4. CASE UNCHANGED <<toRil, awaiting>>
  BY <1>1, <1>4, SerialQuiet DEF Answering
<1>5. ASSUME NEW type \in Commands, NEW cid \in Cid, ~awaiting, awaiting' = TRUE,
             toRil' = Append(toRil, Request(type, cid))
      PROVE  SerialInv'
  <2>1. Request(type, cid) \in RilRequest
    BY DEF Request, RilRequest, RequestType, Commands
  <2>2. NothingAwaited
    BY <1>5 DEF SerialInv
  <2>3. AtMostOne(toRil', Commands)
    BY <1>2, <1>5, <2>1, <2>2, AppendCounts DEF NothingAwaited
  <2> QED
    BY <1>1, <1>5, <2>2, <2>3 DEF SerialInv, NothingAwaited, Answering
<1> QED
  BY <1>3, <1>4, <1>5

\* The daemon answers a command with one answer, and nothing else with one.
LEMMA SerialDaemon ==
    ASSUME TypeInv, TypeInv', SerialInv, RilDaemon
    PROVE  SerialInv'
<1>1. /\ UNCHANGED ril /\ toRil \in Seq(RilRequest) /\ toSmm \in Seq(RilMessage)
      /\ toSmm' \in Seq(RilMessage)
  BY DaemonActivatesNothing DEF TypeInv, TypeOK, WiresOK
<1>2. UNCHANGED awaiting
  BY DEF RilDaemon, RilSetsUp, RilDeactivates, RilLists, RilReportsStatus, RilStartsUp,
         RilAnswers, atVars
<1>a. \A msg \in RilMessage, q \in Seq(RilMessage) :
         /\ msg.type \notin Answers =>
               /\ AtMostOne(q, Answers) => AtMostOne(Append(q, msg), Answers)
               /\ NoneOf(q, Answers) => NoneOf(Append(q, msg), Answers)
         /\ NoneOf(q, Answers) => AtMostOne(Append(q, msg), Answers)
  BY AppendCounts
<1>3. ASSUME NEW i \in DOMAIN toRil, toRil[i].type \in Commands, toRil' = Without(toRil, i),
             NoneOf(toSmm, Answers) => AtMostOne(toSmm', Answers)
      PROVE  SerialInv'
  <2>1. NoneOf(toRil', Commands) /\ ~NoneOf(toRil, Commands)
    BY <1>1, <1>3, WithoutCounts DEF SerialInv
  <2>2. NoneOf(toSmm, Answers) /\ awaiting /\ ~Answering
    BY <2>1 DEF SerialInv, NothingAwaited
  <2>3. AtMostOne(toRil', Commands)
    BY <2>1 DEF AtMostOne, NoneOf
  <2> QED
    BY <1>1, <1>2, <1>3, <2>1, <2>2, <2>3 DEF SerialInv, NothingAwaited, Answering
<1>4. ASSUME NEW i \in DOMAIN toRil, toRil[i].type \notin Commands, toRil' = Without(toRil, i),
             NEW msg \in RilMessage, msg.type \notin Answers, toSmm' = Append(toSmm, msg)
      PROVE  SerialInv'
  <2>1. /\ AtMostOne(toRil, Commands) => AtMostOne(toRil', Commands)
        /\ NoneOf(toRil, Commands) => NoneOf(toRil', Commands)
    BY <1>1, <1>4, WithoutCounts
  <2> QED
    BY <1>1, <1>2, <1>4, <1>a, <2>1, SerialQuiet DEF Answering
<1>5. ASSUME NEW i \in DOMAIN toRil, RilSetsUp(i) PROVE SerialInv'
  <2>1. /\ toRil[i].type \in Commands /\ toRil' = Without(toRil, i)
        /\ \E msg : toSmm' = Append(toSmm, msg)
    BY <1>5 DEF RilSetsUp, RilAnswers, Commands
  <2>2. PICK msg : toSmm' = Append(toSmm, msg)
    BY <2>1
  <2>3. msg \in RilMessage
    BY <1>1, <2>2, AppendedType
  <2> QED
    BY <1>1, <1>3, <1>a, <2>1, <2>2, <2>3
<1>6. ASSUME NEW i \in DOMAIN toRil, RilDeactivates(i) PROVE SerialInv'
  <2>1. toRil[i].type \in Commands /\ toRil' = Without(toRil, i)
    BY <1>6 DEF RilDeactivates, RilAnswers, Commands
  <2>2. PICK a, b : a = Message("released", TRUE, {}, "none") /\ b = CallsChanged
    OBVIOUS
  <2>3. a \in RilMessage /\ b \in RilMessage /\ b.type \notin Answers
    BY <2>2, NoCallsNoReport, CallsChangedIs DEF MessageType, Registration, Answers
  <2>4. toSmm \o <<a, b>> = Append(Append(toSmm, a), b) /\ Append(toSmm, a) \in Seq(RilMessage)
    BY <1>1, <2>3, ConcatIsAppend, AppendProperties
  <2>5. CASE toSmm' = toSmm \o <<a, b>>
    BY <1>1, <1>3, <1>a, <2>1, <2>3, <2>4, <2>5
  <2>6. CASE toSmm' = Append(toSmm, Message("released", FALSE, {}, "none"))
    <3>1. PICK msg : msg = Message("released", FALSE, {}, "none")
      OBVIOUS
    <3>2. msg \in RilMessage
      BY <3>1, NoCallsNoReport DEF MessageType, Registration
    <3> QED
      BY <1>1, <1>3, <1>a, <2>1, <2>6, <3>1, <3>2
  <2> QED
    BY <1>6, <2>2, <2>5, <2>6 DEF RilDeactivates, RilAnswers
<1>7. ASSUME NEW i \in DOMAIN toRil, RilLists(i) \/ RilReportsStatus(i) \/ RilStartsUp(i)
      PROVE  SerialInv'
  <2>1. /\ toRil' = Without(toRil, i)
        /\ \E type \in {"list", "status", "radio", "attach", "select"} : \E ok, calls, reg :
              toRil[i].type = type /\ toSmm' = Append(toSmm, Message(type, ok, calls, reg))
    BY <1>7 DEF RilLists, RilReportsStatus, RilStartsUp, RilAnswers
  <2>2. PICK type \in {"list", "status", "radio", "attach", "select"} : \E ok, calls, reg :
           toRil[i].type = type /\ toSmm' = Append(toSmm, Message(type, ok, calls, reg))
    BY <2>1
  <2>b. PICK ok, calls, reg :
           toRil[i].type = type /\ toSmm' = Append(toSmm, Message(type, ok, calls, reg))
    BY <2>2
  <2>3. PICK msg : msg = Message(type, ok, calls, reg)
    OBVIOUS
  <2>4. msg.type \notin Answers /\ toRil[i].type \notin Commands
    BY <2>b, <2>3 DEF Message, Answers, Commands
  <2>5. toSmm' = Append(toSmm, msg) /\ msg \in RilMessage
    BY <1>1, <2>b, <2>3, AppendedType
  <2> QED
    BY <1>4, <2>1, <2>4, <2>5
<1> QED
  BY <1>5, <1>6, <1>7 DEF RilDaemon

\* So does the network, of its own accord.
LEMMA SerialNetwork ==
    ASSUME TypeInv, TypeInv', SerialInv, Network
    PROVE  SerialInv'
<1>1. UNCHANGED <<ril, toRil, awaiting>>
  BY DEF Network, CallChanges, RegistrationChanges, rilVars, atVars
<1>2. toSmm \in Seq(RilMessage)
  BY DEF TypeInv, TypeOK, WiresOK
<1>3. \/ toSmm' = Append(toSmm, CallsChanged)
      \/ toSmm' = Append(toSmm, Message("regInd", TRUE, {}, "none"))
  BY DEF Network, CallChanges, RegistrationChanges
<1>4. PICK msg : toSmm' = Append(toSmm, msg) /\ msg.type \notin Answers
  BY <1>3, CallsChangedIs DEF Message, Answers
<1>5. msg \in RilMessage
  BY <1>2, <1>4, AppendedType DEF TypeInv, TypeOK, WiresOK
<1>6. /\ AtMostOne(toSmm, Answers) => AtMostOne(toSmm', Answers)
      /\ NoneOf(toSmm, Answers) => NoneOf(toSmm', Answers)
  BY <1>2, <1>4, <1>5, AppendCounts
<1> QED
  BY <1>1, <1>6, SerialQuiet DEF Answering

\* Each answer ends the wait for it, at once or when the contexts have been
\* updated.
LEMMA SerialClient ==
    ASSUME NEW c, OneCid(c), TypeInv, RouteInv, Informed, SerialInv, RilClient
    PROVE  SerialInv'
<1>1. /\ toRil \in Seq(RilRequest) /\ toSmm \in Seq(RilMessage) /\ ril \in RilThread
      /\ awaiting \in BOOLEAN
  BY DEF TypeInv, TypeOK, WiresOK, ClientOK, AtOK
<1>2. toSmm # <<>> =>
         /\ AtMostOne(toSmm, Answers) => AtMostOne(Tail(toSmm), Answers)
         /\ NoneOf(toSmm, Answers) => NoneOf(Tail(toSmm), Answers)
         /\ Head(toSmm).type \in Answers /\ AtMostOne(toSmm, Answers)
               => NoneOf(Tail(toSmm), Answers)
         /\ Head(toSmm).type \in Answers => ~NoneOf(toSmm, Answers)
  BY <1>1, TailCounts
<1>3. ASSUME NEW type \in {"list", "status", "attach", "select"},
             toRil' = Append(toRil, Request(type, NoCid))
      PROVE  /\ AtMostOne(toRil, Commands) => AtMostOne(toRil', Commands)
             /\ NoneOf(toRil, Commands) => NoneOf(toRil', Commands)
  <2>1. PICK req : req = Request(type, NoCid)
    OBVIOUS
  <2>2. req \in RilRequest /\ req.type \notin Commands
    BY <2>1, ConstantTypes DEF Request, RequestType, Commands
  <2> QED
    BY <1>1, <1>3, <2>1, <2>2, AppendCounts
<1>4. CASE \/ onIRilIndication \/ onRadioModeSet \/ onInitialAttachSet \/ onNetworkSelected
           \/ onNwStateChanged
  <2>1. /\ UNCHANGED <<ril, awaiting>> /\ toSmm # <<>> /\ toSmm' = Tail(toSmm)
        /\ \/ UNCHANGED toRil
           \/ \E type \in {"list", "status", "attach", "select"} :
                 toRil' = Append(toRil, Request(type, NoCid))
    BY <1>4 DEF onIRilIndication, onRadioModeSet, onInitialAttachSet, onNetworkSelected,
                onNwStateChanged, Delivers, Asks
  <2>2. /\ AtMostOne(toRil, Commands) => AtMostOne(toRil', Commands)
        /\ NoneOf(toRil, Commands) => NoneOf(toRil', Commands)
    BY <1>3, <2>1
  <2> QED
    BY <1>2, <2>1, <2>2, SerialQuiet DEF Answering
<1>5. CASE onDataCallReleased \/ onDataCallSetup
  <2>1. /\ ril.pc = "idle" /\ toSmm # <<>> /\ toSmm' = Tail(toSmm) /\ UNCHANGED toRil
        /\ Head(toSmm).type \in Answers
    BY <1>5 DEF onDataCallReleased, onDataCallSetup, Delivers, Answers
  <2>2. NoneOf(toSmm', Answers) /\ ~NoneOf(toSmm, Answers)
    BY <1>2, <2>1 DEF SerialInv
  <2>3. NoneOf(toRil', Commands) /\ awaiting /\ ~Answering
    BY <2>1, <2>2 DEF SerialInv, NothingAwaited
  <2>4. AtMostOne(toRil', Commands) /\ AtMostOne(toSmm', Answers)
    BY <2>2, <2>3 DEF AtMostOne, NoneOf
  <2>5. (awaiting' = FALSE /\ UNCHANGED ril) \/ UNCHANGED awaiting
    BY <1>5 DEF onDataCallReleased, onDataCallSetup
  <2>6. CASE awaiting' = FALSE /\ UNCHANGED ril
    BY <2>2, <2>3, <2>4, <2>6, SerialEnds DEF Answering
  <2>7. CASE UNCHANGED awaiting
    BY <2>2, <2>3, <2>4, <2>7 DEF SerialInv
  <2> QED
    BY <2>5, <2>6, <2>7
<1>6. CASE onDataCallListChanged
  <2>1. /\ UNCHANGED <<toRil, awaiting>> /\ toSmm # <<>> /\ toSmm' = Tail(toSmm)
        /\ ril' = RilIdle \/ ril' = Copies(Head(toSmm).calls, FALSE)
    BY <1>6 DEF onDataCallListChanged, Delivers
  <2>2. PICK calls \in SUBSET Call : calls = Head(toSmm).calls
    BY <2>1, SetupsTail DEF RilMessage
  <2>3. ~ril'.reply
    <3>1. \A reply \in BOOLEAN : Copies(calls, reply).reply = reply
      BY CopiesType
    <3>2. ~RilIdle.reply
      BY DEF RilIdle
    <3> QED
      BY <2>1, <2>2, <3>1, <3>2
  <2> QED
    BY <1>2, <2>1, <2>3, SerialQuiet DEF Answering
<1>7. ASSUME UNCHANGED wires, ril.pc # "idle",
             Continues({}) \/ (UNCHANGED awaiting /\ ril'.reply = ril.reply)
      PROVE  SerialInv'
  <2>1. CASE UNCHANGED awaiting /\ ril'.reply = ril.reply
    BY <1>7, <2>1, SerialQuiet DEF wires, Answering
  <2>2. CASE Continues({})
    <3>1. ~Answering' /\ awaiting' = (awaiting /\ ~ril.reply)
      BY <2>2 DEF Continues, RilIdle, Answering
    <3>2. Answering <=> ril.reply
      BY <1>7 DEF Answering
    <3>3. UNCHANGED <<toRil, toSmm>>
      BY <1>7 DEF wires
    <3> QED
      BY <1>1, <3>1, <3>2, <3>3 DEF SerialInv, NothingAwaited
  <2> QED
    BY <1>7, <2>1, <2>2
<1>8. ASSUME NEW call \in ril.todo, updateDcContextFromDataCall(call)
      PROVE  SerialInv'
  <2>1. /\ ril.pc # "idle" /\ UNCHANGED wires
        /\ Continues({}) \/ (UNCHANGED awaiting /\ ril'.reply = ril.reply)
    BY <1>8, UpdateIs DEF Updating, wires
  <2> QED
    BY <1>7, <2>1
<1>9. CASE enableTethering \/ disableTethering
  <2>1. Continues(ril.todo) /\ ril.todo = {} /\ UNCHANGED wires /\ ril.pc = "tether"
    BY <1>9 DEF enableTethering, disableTethering, Informed
  <2> QED
    BY <1>7, <2>1
<1> QED
  BY <1>4, <1>5, <1>6, <1>8, <1>9 DEF RilClient

LEMMA SerialStep ==
    ASSUME NEW c, OneCid(c), PatientHost, TypeInv, TypeInv', RouteInv, Informed, SerialInv,
           [Next]_vars
    PROVE  SerialInv'
<1>1. CASE UNCHANGED vars
  BY <1>1, SerialQuiet DEF vars, wires, atVars, rilVars, Answering
<1>2. CASE Restart
  <2>1. /\ awaiting' = FALSE /\ ~Answering' /\ DOMAIN toSmm' = {}
        /\ toRil' = <<Request("radio", NoCid)>>
    BY <1>2, RestartIs DEF Answering
  <2>2. DOMAIN toRil' = {1} /\ toRil'[1].type = "radio"
    BY <2>1 DEF Request
  <2>3. NoneOf(toRil', Commands) /\ AtMostOne(toRil', Commands)
    BY <2>2 DEF NoneOf, AtMostOne, Commands
  <2> QED
    BY <2>1, <2>3, EmptyCounts, SerialEnds
<1> QED
  BY <1>1, <1>2, SerialAt, SerialDaemon, SerialNetwork, SerialClient DEF Next
-----------------------------------------------------------------------------
LEMMA UpAppended ==
    ASSUME NEW q \in Seq(RilMessage), NEW msg \in RilMessage, SaysUp(msg)
    PROVE  /\ AllUp(q) => AllUp(Append(q, msg))
           /\ UpComes(q) => UpComes(Append(q, msg))
           /\ SetUp(msg) => UpComes(Append(q, msg))
<1> DEFINE r == Append(q, msg)
<1>1. /\ Len(q) \in Nat /\ DOMAIN q = 1 .. Len(q) /\ DOMAIN r = 1 .. Len(q) + 1
      /\ \A i \in 1 .. Len(q) : r[i] = q[i]
      /\ r[Len(q) + 1] = msg
  BY AppendIs
<1> HIDE DEF r
<1>2. \A i \in DOMAIN r : i = Len(q) + 1 \/ (i \in DOMAIN q /\ r[i] = q[i])
  BY <1>1
<1>3. AllUp(q) => AllUp(r)
  BY <1>1, <1>2 DEF AllUp
<1>4. ASSUME UpComes(q) PROVE UpComes(r)
  <2>1. PICK i \in DOMAIN q : SetUp(q[i]) /\ \A j \in DOMAIN q : j >= i => SaysUp(q[j])
    BY <1>4 DEF UpComes
  <2>2. i \in DOMAIN r /\ SetUp(r[i])
    BY <1>1, <2>1
  <2>3. \A j \in DOMAIN r : j >= i => SaysUp(r[j])
    BY <1>1, <1>2, <2>1
  <2> QED
    BY <2>2, <2>3 DEF UpComes
<1>5. ASSUME SetUp(msg) PROVE UpComes(r)
  <2>1. \A j \in DOMAIN r : j >= Len(q) + 1 => j = Len(q) + 1
    BY <1>1
  <2> QED
    BY <1>1, <1>5, <2>1 DEF UpComes
<1> QED
  BY <1>3, <1>4, <1>5 DEF r

LEMMA UpTaken ==
    ASSUME NEW q \in Seq(RilMessage), q # <<>>
    PROVE  /\ AllUp(q) => AllUp(Tail(q)) /\ SaysUp(Head(q))
           /\ UpComes(q) => \/ UpComes(Tail(q))
                            \/ SetUp(Head(q)) /\ SaysUp(Head(q)) /\ AllUp(Tail(q))
<1> DEFINE r == Tail(q)
<1>1. /\ Len(q) \in Nat /\ Len(q) >= 1 /\ DOMAIN q = 1 .. Len(q) /\ Head(q) = q[1]
      /\ DOMAIN r = 1 .. Len(q) - 1 /\ \A i \in 1 .. Len(q) - 1 : r[i] = q[i + 1]
  BY TailIs
<1> HIDE DEF r
<1>2. \A i \in DOMAIN r : i \in Nat /\ i >= 1 /\ i + 1 \in DOMAIN q /\ r[i] = q[i + 1]
  BY <1>1
<1>3. 1 \in DOMAIN q
  BY <1>1
<1>4. AllUp(q) => AllUp(r) /\ SaysUp(q[1])
  BY <1>2, <1>3 DEF AllUp
<1>5. ASSUME UpComes(q) PROVE UpComes(r) \/ (SetUp(q[1]) /\ SaysUp(q[1]) /\ AllUp(r))
  <2>1. PICK i \in DOMAIN q : SetUp(q[i]) /\ \A j \in DOMAIN q : j >= i => SaysUp(q[j])
    BY <1>5 DEF UpComes
  <2>2. CASE i = 1
    <3>1. \A j \in DOMAIN r : SaysUp(r[j])
      BY <1>2, <2>1, <2>2
    <3> QED
      BY <1>1, <2>1, <2>2, <3>1 DEF AllUp
  <2>3. CASE i # 1
    <3>1. PICK k \in Int : k = i - 1
      BY <1>1
    <3>2. k \in DOMAIN r /\ k + 1 = i
      BY <1>1, <2>3, <3>1
    <3>3. SetUp(r[k])
      BY <1>2, <2>1, <3>2
    <3>4. ASSUME NEW j \in DOMAIN r, j >= k PROVE SaysUp(r[j])
      <4>1. j + 1 >= i
        BY <1>2, <3>2, <3>4
      <4> QED
        BY <1>2, <2>1, <4>1
    <3> QED
      BY <3>2, <3>3, <3>4 DEF UpComes
  <2> QED
    BY <2>2, <2>3
<1> QED
  BY <1>1, <1>4, <1>5 DEF r

\* A step that neither sets the call up nor takes a message that says so.
LEMMA UpQuiet ==
    ASSUME NEW c, UpInv(c), Undisturbed' => Undisturbed, Up(c)' => Up(c),
           UNCHANGED ril, mDcContexts'[1].activated = mDcContexts[1].activated,
           AllUp(toSmm) => AllUp(toSmm'), UpComes(toSmm) => UpComes(toSmm')
    PROVE  UpInv(c)'
BY DEF UpInv, UpIsKnown, Updating

LEMMA DisturbedStays ==
    ASSUME TypeInv, [Next]_vars
    PROVE  Undisturbed' => Undisturbed
<1>1. callChanges \in Nat /\ restarts \in Nat
  <2>1. CountersOK
    BY DEF TypeInv, TypeOK
  <2> QED
    BY <2>1, BoundsAssumption DEF CountersOK
<1>2. /\ callChanges' = callChanges \/ callChanges' = callChanges + 1
      /\ restarts' = restarts \/ restarts' = restarts + 1
  BY DEF Next, AtStarts, AtContinues, QueryLoads, CgdcontLoad, XgauthLoad, HostCommands,
         CgactWrite, CgdcontSet, XgauthSet, StoreAndAnswer, RilDaemon, RilSetsUp,
         RilDeactivates, RilLists, RilReportsStatus, RilStartsUp, RilAnswers, Network,
         CallChanges, RegistrationChanges, RilClient, onIRilIndication, onRadioModeSet,
         onInitialAttachSet, onNetworkSelected, onNwStateChanged, onDataCallSetup,
         onDataCallReleased, onDataCallListChanged, updateDcContextFromDataCall,
         FindContext, SetCid, SetActivated, SetApn, Copying, enableTethering,
         disableTethering, Delivers, Restart, counters, vars
<1> QED
  BY <1>1, <1>2 DEF Undisturbed

\* What the daemon says of a call that is up.
LEMMA UpDaemon ==
    ASSUME NEW c, OneCid(c), TypeInv, TypeInv', UpInv(c), [Next]_vars, RilDaemon \/ Network
    PROVE  UpInv(c)'
<1>1. UNCHANGED <<mDcContexts, ril>> /\ (Undisturbed' => Undisturbed)
  BY DaemonActivatesNothing, DisturbedStays
<1>2. /\ c \in RilCids /\ \A d \in RilCids : d = c
      /\ links \in [RilCids -> {"none", "up", "down"}]
      /\ toSmm \in Seq(RilMessage) /\ toSmm' \in Seq(RilMessage)
  BY DEF OneCid, TypeInv, TypeOK, WiresOK, WorldOK
<1>3. ASSUME NEW msg, toSmm' = Append(toSmm, msg), UNCHANGED links,
             Up(c) => SaysUp(msg)
      PROVE  UpInv(c)'
  <2>1. Up(c)' = Up(c)
    BY <1>3 DEF Up
  <2>2. msg \in RilMessage
    BY <1>2, <1>3, AppendedType
  <2>3. CASE SaysUp(msg)
    BY <1>1, <1>2, <1>3, <2>1, <2>2, <2>3, UpAppended, UpQuiet
  <2>4. CASE ~SaysUp(msg)
    BY <1>3, <2>1, <2>4 DEF UpInv
  <2> QED
    BY <2>3, <2>4
<1>4. ASSUME NEW type, NEW ok, NEW reg, UNCHANGED links,
             toSmm' = Append(toSmm, Message(type, ok, {}, reg))
      PROVE  UpInv(c)'
  <2>1. SaysUp(Message(type, ok, {}, reg))
    BY DEF SaysUp, IsReport, Message
  <2> QED
    BY <1>3, <1>4, <2>1
<1>5. ASSUME NEW i \in DOMAIN toRil, RilSetsUp(i) PROVE UpInv(c)'
  <2>1. CASE toSmm' = Append(toSmm, Message("setup", FALSE, {}, "none")) /\ UNCHANGED links
    BY <1>4, <2>1
  <2>2. ASSUME NEW up \in BOOLEAN,
               toSmm' = Append(toSmm, Message("setup", TRUE, {[cid |-> c, up |-> up]}, "none")),
               links' = [links EXCEPT ![c] = IF up THEN "up" ELSE "down"]
        PROVE  UpInv(c)'
    <3>1. PICK call : call = [cid |-> c, up |-> up]
      OBVIOUS
    <3>2. PICK msg : msg = Message("setup", TRUE, {call}, "none")
      OBVIOUS
    <3>3. (call.up <=> up) /\ msg.type = "setup" /\ msg.ok /\ msg.calls = {call}
      BY <3>1, <3>2 DEF Message
    <3>4. CASE up
      <4>1. SaysUp(msg) /\ SetUp(msg)
        BY <3>3, <3>4 DEF SaysUp, SetUp, Says
      <4>2. toSmm' = Append(toSmm, msg)
        BY <2>2, <3>1, <3>2
      <4>3. msg \in RilMessage
        BY <1>2, <4>2, AppendedType
      <4>4. UpComes(toSmm')
        BY <1>2, <4>1, <4>2, <4>3, UpAppended
      <4> QED
        BY <4>4 DEF UpInv
    <3>5. CASE ~up
      <4>1. links'[c] = "down"
        BY <1>2, <2>2, <3>5
      <4> QED
        BY <4>1 DEF UpInv, Up
    <3> QED
      BY <3>4, <3>5
  <2> QED
    BY <1>2, <1>5, <2>1, <2>2 DEF RilSetsUp, RilAnswers, world
<1>6. ASSUME NEW i \in DOMAIN toRil, RilDeactivates(i) PROVE UpInv(c)'
  <2>1. CASE toSmm' = Append(toSmm, Message("released", FALSE, {}, "none")) /\ UNCHANGED links
    BY <1>4, <2>1
  <2>2. CASE /\ toRil[i].cid \in RilCids
             /\ links' = [links EXCEPT ![toRil[i].cid] = "down"]
    BY <1>2, <2>2 DEF UpInv, Up
  <2> QED
    BY <1>6, <2>1, <2>2 DEF RilDeactivates, RilAnswers, world
<1>7. ASSUME NEW i \in DOMAIN toRil, RilLists(i) PROVE UpInv(c)'
  <2>1. PICK msg : msg = Message("list", TRUE, KnownCalls, "none")
    OBVIOUS
  <2>2. toSmm' = Append(toSmm, msg) /\ UNCHANGED links
    BY <1>7, <2>1 DEF RilLists, RilAnswers, world
  <2>3. ASSUME Up(c) PROVE SaysUp(msg)
    <3>1. KnownCalls = {[cid |-> c, up |-> links[c] = "up"]}
      BY <2>3, MessagesAreGood DEF Up
    <3>2. PICK call : call = [cid |-> c, up |-> links[c] = "up"]
      OBVIOUS
    <3>3. call.up /\ msg.calls = {call}
      BY <2>1, <2>3, <3>1, <3>2 DEF Up, Message
    <3> QED
      BY <3>3 DEF SaysUp, Says
  <2> QED
    BY <1>3, <2>2, <2>3
<1>8. ASSUME NEW i \in DOMAIN toRil, RilReportsStatus(i) PROVE UpInv(c)'
  BY <1>4, <1>8 DEF RilReportsStatus, RilAnswers, world
<1>9. ASSUME NEW i \in DOMAIN toRil, RilStartsUp(i) PROVE UpInv(c)'
  BY <1>4, <1>9 DEF RilStartsUp, RilAnswers, world
<1>10. ASSUME NEW d \in RilCids, CallChanges(d) PROVE UpInv(c)'
  <2>1. callChanges \in Nat /\ callChanges' = callChanges + 1
    BY <1>10, BoundsAssumption DEF CallChanges, TypeInv, TypeOK, CountersOK
  <2> QED
    BY <2>1 DEF UpInv, Undisturbed
<1>11. ASSUME NEW reg \in {"none", "LTE", "IWLAN"}, RegistrationChanges(reg)
       PROVE  UpInv(c)'
  BY <1>4, <1>11 DEF RegistrationChanges
<1> QED
  BY <1>5, <1>6, <1>7, <1>8, <1>9, <1>10, <1>11 DEF RilDaemon, Network

\* What the client makes of it.
LEMMA UpClient ==
    ASSUME NEW c, OneCid(c), TypeInv, TypeInv', RouteInv, Informed, UpInv(c), [Next]_vars,
           RilClient
    PROVE  UpInv(c)'
<1>1. toSmm \in Seq(RilMessage) /\ (Undisturbed' => Undisturbed)
  BY DisturbedStays DEF TypeInv, TypeOK, WiresOK
<1>2. toSmm # <<>> =>
         /\ AllUp(toSmm) => AllUp(Tail(toSmm)) /\ SaysUp(Head(toSmm))
         /\ UpComes(toSmm) => \/ UpComes(Tail(toSmm))
                              \/ /\ SetUp(Head(toSmm)) /\ SaysUp(Head(toSmm))
                                 /\ AllUp(Tail(toSmm))
  BY <1>1, UpTaken
<1>3. CASE OtherCallbacks
  <2>1. /\ toSmm # <<>> /\ toSmm' = Tail(toSmm) /\ UNCHANGED <<ril, links>>
        /\ Head(toSmm).type # "setup"
        /\ mDcContexts'[1].activated = mDcContexts[1].activated
    BY <1>3, OtherCallbackIs DEF world
  <2>2. Up(c)' = Up(c)
    BY <2>1 DEF Up
  <2> QED
    BY <1>1, <1>2, <2>1, <2>2, UpQuiet DEF SetUp
<1>4. CASE onDataCallSetup \/ onDataCallListChanged
  <2>1. /\ ril.pc = "idle" /\ toSmm # <<>> /\ toSmm' = Tail(toSmm)
        /\ UNCHANGED <<mDcContexts, links>>
        /\ IF IsReport(Head(toSmm))
           THEN ril'.pc = "update" /\ ril'.todo = Head(toSmm).calls
           ELSE ril'.pc = "idle" \/ UNCHANGED ril
    BY <1>4, ReportIs DEF world
  <2>2. Up(c)' = Up(c)
    BY <2>1 DEF Up
  <2>3. CASE UpIsKnown
    <3>1. UpIsKnown'
      BY <1>2, <2>1, <2>3 DEF UpIsKnown, SaysUp, Updating
    <3> QED
      BY <3>1 DEF UpInv
  <2>4. CASE SetUp(Head(toSmm)) /\ SaysUp(Head(toSmm)) /\ AllUp(Tail(toSmm))
    <3>1. onDataCallSetup
      BY <1>4, <2>4 DEF onDataCallListChanged, Delivers, SetUp
    <3>2. Head(toSmm).calls # {} /\ Head(toSmm).calls \in SUBSET Call
      BY <2>1, <2>4, SetupsTail DEF SetUp, RilMessage
    <3>3. ril'.pc = "update" /\ ril'.todo = Head(toSmm).calls /\ ril'.reply
      <4>1. \A calls \in SUBSET Call, reply \in BOOLEAN :
               /\ Copies(calls, reply).pc = "update" /\ Copies(calls, reply).todo = calls
               /\ Copies(calls, reply).reply = reply
        BY CopiesType
      <4>2. ril' = Copies(Head(toSmm).calls, TRUE)
        BY <2>4, <3>1 DEF onDataCallSetup, SetUp
      <4> QED
        BY <3>2, <4>1, <4>2
    <3>4. Says(ril'.todo)
      BY <2>4, <3>2, <3>3 DEF SaysUp, SetUp, IsReport
    <3>5. UpIsKnown'
      BY <2>1, <2>4, <3>3, <3>4 DEF UpIsKnown, Updating
    <3> QED
      BY <3>5 DEF UpInv
  <2>5. CASE UpComes(Tail(toSmm))
    BY <2>1, <2>5 DEF UpInv
  <2> QED
    BY <1>1, <1>2, <2>1, <2>2, <2>3, <2>4, <2>5 DEF UpInv
<1>5. ASSUME NEW call \in ril.todo, updateDcContextFromDataCall(call)
      PROVE  UpInv(c)'
  <2>1. /\ ril.todo = {call} /\ Updating /\ UNCHANGED <<toSmm, links>>
        /\ \/ /\ Updating' /\ ril'.todo = ril.todo /\ ril'.reply = ril.reply
              /\ \/ mDcContexts'[1].activated = mDcContexts[1].activated
                 \/ mDcContexts'[1].activated <=> call.up
           \/ /\ ril.pc = "setApn" /\ ~Updating'
              /\ mDcContexts'[1].activated = mDcContexts[1].activated
    BY <1>5, UpdateIs DEF world, Updating
  <2>2. Up(c)' = Up(c)
    BY <2>1 DEF Up
  <2>3. UpIsKnown => call.up
    BY <2>1 DEF UpIsKnown, Says
  <2>4. ril.pc = "setApn" => (mDcContexts[1].activated <=> call.up)
    BY DEF Informed
  <2>5. UpIsKnown => UpIsKnown'
    BY <2>1, <2>3, <2>4 DEF UpIsKnown
  <2> QED
    BY <1>1, <2>1, <2>2, <2>5 DEF UpInv
<1>6. CASE enableTethering \/ disableTethering
  <2>1. /\ ril.pc = "tether" /\ ril'.pc = "idle" /\ UNCHANGED <<mDcContexts, toSmm, links>>
    BY <1>6, TetheringIs DEF world
  <2>2. Up(c)' = Up(c)
    BY <2>1 DEF Up
  <2>3. UpIsKnown => UpIsKnown'
    BY <2>1 DEF UpIsKnown, Updating
  <2> QED
    BY <1>1, <2>1, <2>2, <2>3 DEF UpInv
<1> QED
  BY <1>3, <1>4, <1>5, <1>6 DEF RilClient, OtherCallbacks

LEMMA UpStep ==
    ASSUME NEW c, OneCid(c), TypeInv, TypeInv', RouteInv, Informed, UpInv(c), [Next]_vars
    PROVE  UpInv(c)'
<1>1. Undisturbed' => Undisturbed
  BY DisturbedStays
<1>2. ASSUME UNCHANGED <<ril, toSmm, links>>,
             mDcContexts'[1].activated = mDcContexts[1].activated
      PROVE  UpInv(c)'
  BY <1>1, <1>2, UpQuiet DEF Up
<1>3. CASE UNCHANGED vars
  BY <1>2, <1>3 DEF vars, smmVars, rilVars, wires, world
<1>4. CASE AtStarts \/ AtContinues
  BY <1>2, <1>4, AtWritesFirst DEF rilVars, world
<1>5. CASE Restart
  <2>1. CountersOK /\ restarts' = restarts + 1
    BY <1>5 DEF Restart, TypeInv, TypeOK
  <2>2. restarts \in Nat
    BY <2>1, BoundsAssumption DEF CountersOK
  <2> QED
    BY <2>1, <2>2 DEF UpInv, Undisturbed
<1> QED
  BY <1>3, <1>4, <1>5, UpDaemon, UpClient DEF Next

\* A patient host commands when nothing is under way: if the call is up, the
\* context knows.
LEMMA AnswerIsTrue ==
    ASSUME NEW c, OneCid(c), PatientHost, TypeInv, SerialInv, UpInv(c), AlreadyDownIsTrue,
           [Next]_vars
    PROVE  AlreadyDownIsTrue'
<1>1. Undisturbed' => Undisturbed
  BY DisturbedStays
<1>2. CASE UNCHANGED told
  BY <1>1, <1>2 DEF AlreadyDownIsTrue, Undisturbed
<1>3. ASSUME NEW up \in BOOLEAN, CgactWrite(up) PROVE AlreadyDownIsTrue'
  <2>1. NothingAwaited
    BY <1>3 DEF CgactWrite, HostCommands, SerialInv
  <2>2. ~UpComes(toSmm) /\ ~(Updating /\ ril.reply)
    BY <2>1 DEF NothingAwaited, NoneOf, UpComes, SetUp, Answers, Answering, Updating
  <2>3. Undisturbed /\ Up(c) => mDcContexts[1].activated
    BY <2>2 DEF UpInv, UpIsKnown
  <2>4. LinkUp <=> Up(c)
    BY DEF LinkUp, Up, OneCid
  <2>5. PICK link \in BOOLEAN : link = LinkUp
    BY DEF LinkUp
  <2>6. \/ ~up /\ mDcContexts[1].activated = up /\ told'.linkUp = link
        \/ told'.what # "already down"
    <3>1. CASE AnswersAlready(up)
      BY <2>5, <3>1 DEF AnswersAlready, Tells
    <3>2. CASE AsksRil(up)
      BY <3>2 DEF AsksRil, Tells
    <3> QED
      BY <1>3, <3>1, <3>2 DEF CgactWrite
  <2> QED
    BY <1>1, <2>3, <2>4, <2>5, <2>6 DEF AlreadyDownIsTrue, Undisturbed
<1> QED
  BY <1>2, <1>3
  DEF Next, AtStarts, AtContinues, QueryLoads, CgdcontLoad, XgauthLoad,
      CgdcontSet, XgauthSet, StoreAndAnswer, RilDaemon, RilSetsUp,
      RilDeactivates, RilLists, RilReportsStatus, RilStartsUp, RilAnswers, Network,
      CallChanges, RegistrationChanges, RilClient, onIRilIndication, onRadioModeSet,
      onInitialAttachSet, onNetworkSelected, onNwStateChanged, onDataCallSetup,
      onDataCallReleased, onDataCallListChanged, updateDcContextFromDataCall,
      FindContext, SetCid, SetActivated, SetApn, Copying, enableTethering,
      disableTethering, Delivers, Restart, vars

\* A host that awaits each answer is told "already down" only of a call that
\* is down, unless the network or a restart has interfered: for any number of
\* commands, answered in whatever order, amid reports that are late, taken or not
\* asked for.
THEOREM AlreadyDownIsTold ==
    ASSUME NEW c, OneCid(c), PatientHost PROVE Spec => []AlreadyDownIsTrue
<1> DEFINE Inv == SerialInv /\ UpInv(c) /\ AlreadyDownIsTrue
<1>1. Init => Inv
  <2> SUFFICES ASSUME Init PROVE Inv
    OBVIOUS
  <2>1. /\ DOMAIN toSmm = {} /\ toRil = <<Request("radio", NoCid)>> /\ ~Answering
        /\ links[c] = "none" /\ told.what = "nothing"
    BY DEF Init, RilIdle, Answering, OneCid
  <2>2. DOMAIN toRil = {1} /\ toRil[1].type = "radio"
    BY <2>1 DEF Request
  <2>3. NoneOf(toRil, Commands) /\ AtMostOne(toRil, Commands)
    BY <2>2 DEF NoneOf, AtMostOne, Commands
  <2> QED
    BY <2>1, <2>3, EmptyCounts DEF SerialInv, NothingAwaited, UpInv, Up, AlreadyDownIsTrue
<1>2. TypeInv /\ TypeInv' /\ RouteInv /\ Informed /\ Inv /\ [Next]_vars => Inv'
  BY SerialStep, UpStep, AnswerIsTrue
<1>3. Inv => AlreadyDownIsTrue
  OBVIOUS
<1> HIDE DEF Inv
<1> QED
  BY <1>1, <1>2, <1>3, InformedInvariant, TypeInvariant, PTL DEF Spec
=============================================================================
