-------------------------- MODULE DataCallsProofs ---------------------------
(***************************************************************************)
(* Theorems about DataCalls, for every set of cids, APNs and modes and     *)
(* every bound.                                                            *)
(***************************************************************************)
EXTENDS DataCalls, SequenceTheorems, WellFoundedInduction, TLAPS

\* Replacing an element of a non-empty sequence.
LEMMA Replace ==
    ASSUME NEW S, NEW s \in Seq(S), NEW i \in DOMAIN s, NEW e \in S
    PROVE  /\ [s EXCEPT ![i] = e] \in Seq(S)
           /\ DOMAIN [s EXCEPT ![i] = e] = DOMAIN s
           /\ Len([s EXCEPT ![i] = e]) = Len(s)
           /\ [s EXCEPT ![i] = e] # <<>>
<1>1. /\ [s EXCEPT ![i] = e] \in Seq(S)
      /\ Len([s EXCEPT ![i] = e]) = Len(s)
  BY ExceptSeq
<1>2. Len(s) # 0
  BY LenProperties
<1>3. Len(<<>>) = 0
  OBVIOUS
<1> QED
  BY <1>1, <1>2, <1>3

\* The first element is there to be replaced.
LEMMA First ==
    ASSUME NEW S, NEW s \in Seq(S), s # <<>>
    PROVE  1 \in DOMAIN s /\ s[1] \in S
BY EmptySeq, ElementOfSeq, LenProperties

\* Appending at the tail and taking from the head.
LEMMA Queue ==
    ASSUME NEW S, NEW s \in Seq(S), NEW e \in S
    PROVE  /\ Append(s, e) \in Seq(S) /\ Append(s, e) # <<>>
           /\ s # <<>> => Head(s) \in S /\ Tail(s) \in Seq(S)
BY AppendProperties, HeadTailProperties

\* Taking an element out of the middle.
LEMMA WithoutType ==
    ASSUME NEW S, NEW s \in Seq(S), NEW i \in DOMAIN s
    PROVE  Without(s, i) \in Seq(S)
<1>1. Len(s) \in Nat /\ i \in 1 .. Len(s) /\ \A j \in 1 .. Len(s) : s[j] \in S
  BY LenProperties, ElementOfSeq
<1>2. SubSeq(s, 1, i - 1) \in Seq(S)
  <2> DEFINE n == i - 1
  <2>1. n \in Int /\ \A j \in 1 .. n : s[j] \in S
    BY <1>1
  <2> HIDE DEF n
  <2>2. SubSeq(s, 1, n) \in Seq(S)
    BY <2>1, SubSeqProperties
  <2> QED
    BY <2>2 DEF n
<1>3. SubSeq(s, i + 1, Len(s)) \in Seq(S)
  <2> DEFINE m == i + 1  n == Len(s)
  <2>1. m \in Int /\ n \in Int /\ \A j \in m .. n : s[j] \in S
    BY <1>1
  <2> HIDE DEF m, n
  <2>2. SubSeq(s, m, n) \in Seq(S)
    BY <2>1, SubSeqProperties
  <2> QED
    BY <2>2 DEF m, n
<1> QED
  BY <1>2, <1>3, ConcatProperties DEF Without
-----------------------------------------------------------------------------
(***************************************************************************)
(* Type correctness.  TypeOK is inductive once it is known that a success  *)
(* of setup always comes with the call that was set up.                    *)
(***************************************************************************)
SetupsHaveCall ==
    \A i \in DOMAIN toSmm : toSmm[i].type = "setup" /\ toSmm[i].ok => toSmm[i].calls # {}

TypeInv == TypeOK /\ SetupsHaveCall

\* Appending a message keeps SetupsHaveCall, and taking one off does too.
LEMMA SetupsAppend ==
    ASSUME TypeInv, NEW msg \in RilMessage,
           msg.type = "setup" /\ msg.ok => msg.calls # {},
           toSmm' = Append(toSmm, msg)
    PROVE  toSmm' \in Seq(RilMessage) /\ SetupsHaveCall'
<1>1. toSmm \in Seq(RilMessage)
  BY DEF TypeInv, TypeOK, WiresOK
<1>2. toSmm' \in Seq(RilMessage)
  BY <1>1, Queue
<1>3. /\ DOMAIN toSmm' = 1 .. Len(toSmm) + 1
      /\ DOMAIN toSmm = 1 .. Len(toSmm) /\ Len(toSmm) \in Nat
      /\ \A i \in 1 .. Len(toSmm) : toSmm'[i] = toSmm[i]
      /\ toSmm'[Len(toSmm) + 1] = msg
  BY <1>1, <1>2, AppendProperties, LenProperties
<1> QED
  BY <1>2, <1>3 DEF TypeInv, SetupsHaveCall

LEMMA SetupsTail ==
    ASSUME TypeInv, toSmm # <<>>, toSmm' = Tail(toSmm)
    PROVE  /\ toSmm' \in Seq(RilMessage) /\ SetupsHaveCall'
           /\ Head(toSmm) \in RilMessage
           /\ Head(toSmm).type = "setup" /\ Head(toSmm).ok => Head(toSmm).calls # {}
<1>1. toSmm \in Seq(RilMessage)
  BY DEF TypeInv, TypeOK, WiresOK
<1>2. /\ Head(toSmm) \in RilMessage /\ Tail(toSmm) \in Seq(RilMessage)
      /\ Head(toSmm) = toSmm[1] /\ 1 \in DOMAIN toSmm
  BY <1>1, HeadTailProperties, First
<1>3. /\ DOMAIN Tail(toSmm) = 1 .. Len(toSmm) - 1
      /\ DOMAIN toSmm = 1 .. Len(toSmm) /\ Len(toSmm) \in Nat
      /\ \A i \in 1 .. Len(toSmm) - 1 : Tail(toSmm)[i] = toSmm[i + 1]
  BY <1>1, <1>2, HeadTailProperties, LenProperties
<1> QED
  BY <1>2, <1>3 DEF TypeInv, SetupsHaveCall

\* Appending to the requests or taking one off.
LEMMA RequestTypes ==
    ASSUME TypeOK
    PROVE  /\ \A req \in RilRequest : Append(toRil, req) \in Seq(RilRequest)
           /\ \A i \in DOMAIN toRil : toRil[i] \in RilRequest
                                    /\ Without(toRil, i) \in Seq(RilRequest)
<1>1. toRil \in Seq(RilRequest)
  BY DEF TypeOK, WiresOK
<1> QED
  BY <1>1, Queue, WithoutType, ElementOfSeq, LenProperties

LEMMA ContextTypes ==
    ASSUME TypeOK
    PROVE  /\ mDcContexts \in Seq(DcContext) /\ mDcContexts # <<>>
           /\ 1 \in DOMAIN mDcContexts
           /\ \A i \in DOMAIN mDcContexts : mDcContexts[i] \in DcContext
           /\ loadDcContext(mDcContexts[1]) \in DcContext
<1>1. mDcContexts \in Seq(DcContext) /\ mDcContexts # <<>>
  BY DEF TypeOK, ContextsOK
<1>2. 1 \in DOMAIN mDcContexts /\ \A i \in DOMAIN mDcContexts : mDcContexts[i] \in DcContext
  BY <1>1, First, ElementOfSeq, LenProperties
<1>3. \A dc \in DcContext : loadDcContext(dc) \in DcContext
  BY DEF TypeOK, AtOK, loadDcContext, DcContext, Record
<1> QED
  BY <1>1, <1>2, <1>3

\* What setting the first context to a well-typed value leaves well typed.
LEMMA SetFirstType ==
    ASSUME TypeOK, NEW dc \in DcContext, SetFirst(dc)
    PROVE  /\ mDcContexts' \in Seq(DcContext) /\ mDcContexts' # <<>>
           /\ mDcContexts'[1] = dc
BY ContextTypes, Replace DEF SetFirst

LEMMA ConstantTypes ==
    /\ NoCid \in Cid /\ HostCids \subseteq Cid /\ RilCids \subseteq Cid
    /\ NoApn \in Apn /\ Iface \in Apn /\ Apns \subseteq Apn
    /\ AuthDisabled \in AuthMode /\ AuthModes \subseteq AuthMode
    /\ NewContext \in DcContext /\ Nothing \in Record
    /\ RilIdle \in RilThread /\ ~(RilIdle.pc \notin {"idle", "tether"})
    /\ AtIdle \in AtThread
    /\ \A type \in RequestType, cid \in Cid : Request(type, cid) \in RilRequest
BY DEF Cid, Apn, AuthMode, NewContext, DcContext, PdpType, Nothing, Record, RilIdle,
       NoCall, RilThread, AtIdle, AtThread, Request, RilRequest

\* A callback that begins, or goes on, with some calls to copy.
LEMMA CopiesType ==
    ASSUME NEW calls \in SUBSET Call, NEW reply \in BOOLEAN
    PROVE  /\ Copies(calls, reply) \in RilThread
           /\ Copies(calls, reply).pc = "update" /\ Copies(calls, reply).todo = calls
           /\ Copies(calls, reply).reply = reply
<1>1. RilIdle \in RilThread
  BY ConstantTypes
<1> QED
  BY <1>1 DEF Copies, RilThread

\* A host command counts against its bound and leaves the world alone.
LEMMA HostCommandTypes ==
    ASSUME TypeInv, HostCommands
    PROVE  CountersOK' /\ WorldOK'
<1>1. /\ commands \in Int /\ commands' = commands + 1 /\ commands < MaxCommands
      /\ commands \in 0 .. MaxCommands
      /\ UNCHANGED <<callChanges, regChanges, restarts, links, registered>>
  BY DEF TypeInv, TypeOK, CountersOK, HostCommands, world
<1>2. commands' \in 0 .. MaxCommands
  BY <1>1, BoundsAssumption
<1> QED
  BY <1>1, <1>2 DEF TypeInv, TypeOK, CountersOK, WorldOK

\* A variable group that does not change keeps its type.
LEMMA StutterTypes ==
    ASSUME TypeInv
    PROVE  /\ UNCHANGED smmVars => ContextsOK'
           /\ UNCHANGED atVars => AtOK'
           /\ UNCHANGED rilVars => ClientOK'
           /\ UNCHANGED wires => WiresOK' /\ SetupsHaveCall'
           /\ UNCHANGED world => WorldOK'
           /\ UNCHANGED counters => CountersOK'
           /\ UNCHANGED told => ToldOK'
<1>1. UNCHANGED smmVars => ContextsOK'
  BY DEF TypeInv, TypeOK, ContextsOK, smmVars
<1>2. UNCHANGED atVars => AtOK'
  BY DEF TypeInv, TypeOK, AtOK, atVars
<1>3. UNCHANGED rilVars => ClientOK'
  BY DEF TypeInv, TypeOK, ClientOK, Updating, rilVars
<1>4. UNCHANGED wires => WiresOK' /\ SetupsHaveCall'
  BY DEF TypeInv, TypeOK, WiresOK, SetupsHaveCall, wires
<1>5. UNCHANGED world => WorldOK'
  BY DEF TypeInv, TypeOK, WorldOK, world
<1>6. UNCHANGED counters => CountersOK'
  BY DEF TypeInv, TypeOK, CountersOK, counters
<1>7. UNCHANGED told => ToldOK'
  BY DEF TypeInv, TypeOK, ToldOK
<1> QED
  BY <1>1, <1>2, <1>3, <1>4, <1>5, <1>6, <1>7

\* Setting the first context to a well-typed one.
LEMMA SetFirstTypes ==
    ASSUME TypeInv, NEW dc \in DcContext, SetFirst(dc), mRat' = mRat
    PROVE  ContextsOK'
BY SetFirstType DEF TypeInv, TypeOK, ContextsOK

\* The host's commands: what they change stays of its type.
LEMMA AtKeepsTypes ==
    ASSUME TypeInv, AtStarts \/ AtContinues
    PROVE  TypeInv'
<1> DEFINE loaded == loadDcContext(mDcContexts[1])
<1>1. /\ TypeOK /\ loaded \in DcContext /\ mDcContexts[1] \in DcContext
      /\ at \in AtThread /\ stored \in Record /\ committed \in Record
      /\ awaiting \in BOOLEAN
  BY ContextTypes DEF TypeInv, TypeOK, AtOK
<1> HIDE DEF loaded
<1>2. CASE QueryLoads
  <2>1. ContextsOK'
    BY <1>1, <1>2, SetFirstTypes DEF QueryLoads, loaded
  <2> QED
    BY <1>2, <2>1, HostCommandTypes, StutterTypes DEF QueryLoads, TypeInv, TypeOK
<1>3. ASSUME NEW cid \in HostCids, NEW apn \in Apns, CgdcontLoad(cid, apn)
      PROVE  TypeInv'
  <2>1. ContextsOK'
    BY <1>1, <1>3, SetFirstTypes DEF CgdcontLoad, loaded
  <2>2. at' \in AtThread
    BY <1>3, ConstantTypes DEF CgdcontLoad, AtThread
  <2>3. AtOK'
    BY <1>1, <1>3, <2>2 DEF CgdcontLoad, AtOK
  <2> QED
    BY <1>3, <2>1, <2>3, HostCommandTypes, StutterTypes DEF CgdcontLoad, TypeInv, TypeOK
<1>4. ASSUME NEW cid \in HostCids, NEW auth \in AuthModes, XgauthLoad(cid, auth)
      PROVE  TypeInv'
  <2>1. ContextsOK'
    BY <1>1, <1>4, SetFirstTypes DEF XgauthLoad, loaded
  <2>2. at' \in AtThread
    BY <1>4, ConstantTypes DEF XgauthLoad, AtThread
  <2>3. AtOK'
    BY <1>1, <1>4, <2>2 DEF XgauthLoad, AtOK
  <2> QED
    BY <1>4, <2>1, <2>3, HostCommandTypes, StutterTypes DEF XgauthLoad, TypeInv, TypeOK
<1>5. ASSUME NEW what \in {"already up", "already down", "setup", "deactivate"},
             Tells(what)
      PROVE  ToldOK'
  BY <1>5 DEF Tells, LinkUp, TypeInv, TypeOK, ToldOK, Told
<1>6. mDcContexts[1].apn \in Apn /\ mDcContexts[1].cid \in Cid
  BY <1>1 DEF DcContext
<1>8. ASSUME NEW up \in BOOLEAN, CgactWrite(up)
      PROVE  TypeInv'
  <2>1. ToldOK'
    BY <1>5, <1>6, <1>8, ConstantTypes DEF CgactWrite, AnswersAlready, AsksRil
  <2>2. \/ UNCHANGED <<awaiting, toRil>>
        \/ \E type \in RequestType, cid \in Cid :
              awaiting' = TRUE /\ toRil' = Append(toRil, Request(type, cid))
    <3>1. CASE AnswersAlready(up)
      BY <3>1 DEF AnswersAlready
    <3>2. CASE AsksRil(up) /\ up
      BY <3>2, ConstantTypes DEF AsksRil, RequestType
    <3>3. CASE AsksRil(up) /\ ~up
      BY <1>6, <3>3 DEF AsksRil, RequestType
    <3> QED
      BY <1>8, <3>1, <3>2, <3>3 DEF CgactWrite
  <2>3. toRil' \in Seq(RilRequest)
    BY <1>1, <2>2, RequestTypes, ConstantTypes DEF TypeOK, WiresOK
  <2>4. WiresOK' /\ SetupsHaveCall'
    BY <1>8, <2>3 DEF CgactWrite, TypeInv, TypeOK, WiresOK, SetupsHaveCall
  <2>5. AtOK'
    BY <1>1, <1>8, <2>2 DEF CgactWrite, AtOK
  <2> QED
    BY <1>8, <2>1, <2>4, <2>5, HostCommandTypes, StutterTypes
       DEF CgactWrite, TypeInv, TypeOK
<1>9. CASE CgdcontSet
  <2>1. [mDcContexts[1] EXCEPT !.cid = at.cid, !.apn = at.apn, !.pdpType = "IP"]
           \in DcContext
    BY <1>1 DEF AtThread, DcContext, PdpType
  <2>2. ContextsOK'
    BY <1>9, <2>1, SetFirstTypes DEF CgdcontSet
  <2>3. AtOK'
    BY <1>1, <1>9 DEF CgdcontSet, AtOK, AtThread
  <2> QED
    BY <1>9, <2>2, <2>3, StutterTypes DEF CgdcontSet, TypeInv, TypeOK
<1>10. CASE XgauthSet
  <2>1. [mDcContexts[1] EXCEPT !.auth = at.auth] \in DcContext
    BY <1>1 DEF AtThread, DcContext
  <2>2. ContextsOK'
    BY <1>10, <2>1, SetFirstTypes DEF XgauthSet
  <2>3. AtOK'
    BY <1>1, <1>10 DEF XgauthSet, AtOK, AtThread
  <2> QED
    BY <1>10, <2>2, <2>3, StutterTypes DEF XgauthSet, TypeInv, TypeOK
<1>11. CASE StoreAndAnswer
  <2>1. stored' \in Record
    BY <1>1, <1>11 DEF StoreAndAnswer, storeDcContext, DcContext, Record
  <2>2. committed' \in Record
    BY <1>1, <1>11 DEF StoreAndAnswer, AtThread, Record, PdpType
  <2>3. AtOK'
    BY <1>1, <1>11, <2>1, <2>2, ConstantTypes DEF StoreAndAnswer, AtOK
  <2> QED
    BY <1>11, <2>3, StutterTypes DEF StoreAndAnswer, TypeInv, TypeOK
<1> QED
  BY <1>2, <1>3, <1>4, <1>8, <1>9, <1>10, <1>11 DEF AtStarts, AtContinues

\* Every message the daemon or the network can send.
LEMMA MessageTypes ==
    \A type \in MessageType, ok \in BOOLEAN, calls \in SUBSET Call, reg \in Registration :
        Message(type, ok, calls, reg) \in RilMessage
BY DEF Message, RilMessage

\* An answer of the daemon: a request less, a message more.
LEMMA AnswerTypes ==
    ASSUME TypeInv, NEW i \in DOMAIN toRil, NEW type, NEW msg \in RilMessage,
           msg.type = "setup" /\ msg.ok => msg.calls # {},
           RilAnswers(i, type, msg), WorldOK'
    PROVE  TypeInv'
<1>1. toSmm' \in Seq(RilMessage) /\ SetupsHaveCall'
  BY SetupsAppend DEF RilAnswers
<1>2. toRil' \in Seq(RilRequest)
  BY RequestTypes DEF TypeInv, RilAnswers
<1> QED
  BY <1>1, <1>2, StutterTypes DEF RilAnswers, TypeInv, TypeOK, WiresOK

\* What the RIL daemon does.
LEMMA DaemonKeepsTypes ==
    ASSUME TypeInv, RilDaemon
    PROVE  TypeInv'
<1>1. PICK i \in DOMAIN toRil : \/ RilSetsUp(i) \/ RilDeactivates(i) \/ RilLists(i)
                                \/ RilReportsStatus(i) \/ RilStartsUp(i)
  BY DEF RilDaemon
<1>2. WorldOK /\ (UNCHANGED world => WorldOK')
  BY StutterTypes DEF TypeInv, TypeOK
<1>3. {} \in SUBSET Call /\ KnownCalls \in SUBSET Call
      /\ \A c \in RilCids, up \in BOOLEAN : {[cid |-> c, up |-> up]} \in SUBSET Call
  <2>1. \A c \in RilCids, up \in BOOLEAN : [cid |-> c, up |-> up] \in Call
    BY DEF Call
  <2>2. \A c \in RilCids : (links[c] = "up") \in BOOLEAN
    OBVIOUS
  <2>3. KnownCalls \subseteq Call
    <3> SUFFICES ASSUME NEW c \in RilCids PROVE [cid |-> c, up |-> links[c] = "up"] \in Call
      BY Zenon DEF KnownCalls
    <3> QED
      BY <2>1, <2>2, Zenon
  <2> QED
    BY <2>1, <2>3
<1>4. \A c \in RilCids, state \in {"up", "down"} :
         links' = [links EXCEPT ![c] = state] /\ UNCHANGED registered => WorldOK'
  BY <1>2 DEF WorldOK
<1>5. "none" \in Registration /\ "setup" \in MessageType /\ "released" \in MessageType
      /\ "callInd" \in MessageType /\ "list" \in MessageType /\ "status" \in MessageType
      /\ {"radio", "attach", "select"} \subseteq MessageType
  BY DEF Registration, MessageType
<1>6. CASE RilSetsUp(i)
  <2>1. ASSUME NEW c \in RilCids, NEW up \in BOOLEAN,
               RilAnswers(i, "setup", Message("setup", TRUE, {[cid |-> c, up |-> up]}, "none")),
               links' = [links EXCEPT ![c] = IF up THEN "up" ELSE "down"],
               UNCHANGED registered
        PROVE  TypeInv'
    <3> DEFINE msg == Message("setup", TRUE, {[cid |-> c, up |-> up]}, "none")
    <3>1. msg \in RilMessage /\ msg.calls # {}
      BY <1>3, <1>5, MessageTypes DEF Message
    <3>2. WorldOK'
      BY <1>4, <2>1
    <3> HIDE DEF msg
    <3>3. RilAnswers(i, "setup", msg)
      BY <2>1 DEF msg
    <3> QED
      BY <3>1, <3>2, <3>3, AnswerTypes
  <2>2. ASSUME RilAnswers(i, "setup", Message("setup", FALSE, {}, "none")), UNCHANGED world
        PROVE  TypeInv'
    <3> DEFINE msg == Message("setup", FALSE, {}, "none")
    <3>1. msg \in RilMessage /\ ~msg.ok
      BY <1>3, <1>5, MessageTypes DEF Message
    <3> HIDE DEF msg
    <3>2. RilAnswers(i, "setup", msg)
      BY <2>2 DEF msg
    <3> QED
      BY <1>2, <2>2, <3>1, <3>2, AnswerTypes
  <2> QED
    BY <1>6, <2>1, <2>2 DEF RilSetsUp
<1>7. CASE RilDeactivates(i)
  <2>1. ASSUME toRil[i].cid \in RilCids, links' = [links EXCEPT ![toRil[i].cid] = "down"],
               toRil' = Without(toRil, i),
               toSmm' = toSmm \o <<Message("released", TRUE, {}, "none"), CallsChanged>>,
               UNCHANGED <<smmVars, atVars, rilVars, counters, told, registered>>
        PROVE  TypeInv'
    <3> DEFINE a == Message("released", TRUE, {}, "none")  b == CallsChanged
    <3>1. /\ a \in RilMessage /\ a.type # "setup"
          /\ b \in RilMessage /\ b.type # "setup"
      BY <1>3, <1>5, MessageTypes DEF Message, CallsChanged
    <3>2. toSmm \in Seq(RilMessage) /\ toSmm' = toSmm \o <<a, b>>
      BY <2>1 DEF TypeInv, TypeOK, WiresOK
    <3> HIDE DEF a, b
    <3>3. /\ <<a, b>> \in Seq(RilMessage) /\ Len(<<a, b>>) = 2
          /\ <<a, b>>[1] = a /\ <<a, b>>[2] = b
      BY <3>1
    <3>4. /\ toSmm' \in Seq(RilMessage) /\ Len(toSmm) \in Nat
          /\ DOMAIN toSmm = 1 .. Len(toSmm) /\ DOMAIN toSmm' = 1 .. Len(toSmm) + 2
          /\ \A j \in 1 .. Len(toSmm) + 2 :
                toSmm'[j] = IF j <= Len(toSmm) THEN toSmm[j] ELSE <<a, b>>[j - Len(toSmm)]
      BY <3>2, <3>3, ConcatProperties, LenProperties
    <3>5. ASSUME NEW j \in DOMAIN toSmm', toSmm'[j].type = "setup"
          PROVE  j \in DOMAIN toSmm /\ toSmm'[j] = toSmm[j]
      BY <3>1, <3>3, <3>4, <3>5
    <3>6. SetupsHaveCall'
      BY <3>5 DEF TypeInv, SetupsHaveCall
    <3>7. WorldOK'
      BY <1>4, <2>1
    <3>8. WiresOK'
      BY <2>1, <3>4, RequestTypes DEF TypeInv, WiresOK
    <3> QED
      BY <2>1, <3>6, <3>7, <3>8, StutterTypes DEF TypeInv, TypeOK
  <2>2. ASSUME RilAnswers(i, "deactivate", Message("released", FALSE, {}, "none")),
               UNCHANGED world
        PROVE  TypeInv'
    <3> DEFINE msg == Message("released", FALSE, {}, "none")
    <3>1. msg \in RilMessage /\ ~msg.ok
      BY <1>3, <1>5, MessageTypes DEF Message
    <3> HIDE DEF msg
    <3>2. RilAnswers(i, "deactivate", msg)
      BY <2>2 DEF msg
    <3> QED
      BY <1>2, <2>2, <3>1, <3>2, AnswerTypes
  <2> QED
    BY <1>7, <2>1, <2>2 DEF RilDeactivates
<1>8. CASE RilLists(i)
  <2> DEFINE msg == Message("list", TRUE, KnownCalls, "none")
  <2>1. msg \in RilMessage /\ msg.type # "setup"
    BY <1>3, <1>5, MessageTypes DEF Message
  <2> HIDE DEF msg
  <2>2. RilAnswers(i, "list", msg) /\ UNCHANGED world
    BY <1>8 DEF RilLists, msg
  <2> QED
    BY <1>2, <2>1, <2>2, AnswerTypes
<1>9. CASE RilReportsStatus(i)
  <2>1. PICK ok \in BOOLEAN : /\ RilAnswers(i, "status", Message("status", ok, {}, registered))
                              /\ UNCHANGED world
    BY <1>9 DEF RilReportsStatus
  <2> DEFINE msg == Message("status", ok, {}, registered)
  <2>2. msg \in RilMessage /\ msg.type # "setup"
    BY <1>2, <1>3, <1>5, MessageTypes DEF Message, WorldOK
  <2> HIDE DEF msg
  <2>3. RilAnswers(i, "status", msg)
    BY <2>1 DEF msg
  <2> QED
    BY <1>2, <2>1, <2>2, <2>3, AnswerTypes
<1>10. CASE RilStartsUp(i)
  <2>1. PICK type \in {"radio", "attach", "select"}, ok \in BOOLEAN :
           RilAnswers(i, type, Message(type, ok, {}, "none")) /\ UNCHANGED world
    BY <1>10 DEF RilStartsUp
  <2> DEFINE msg == Message(type, ok, {}, "none")
  <2>2. msg \in RilMessage /\ msg.type # "setup"
    BY <1>3, <1>5, MessageTypes DEF Message
  <2> HIDE DEF msg
  <2>3. RilAnswers(i, type, msg)
    BY <2>1 DEF msg
  <2> QED
    BY <1>2, <2>1, <2>2, <2>3, AnswerTypes
<1> QED
  BY <1>1, <1>6, <1>7, <1>8, <1>9, <1>10

\* What the network does of its own accord.
LEMMA NetworkKeepsTypes ==
    ASSUME TypeInv, Network
    PROVE  TypeInv'
<1>1. CountersOK /\ WorldOK /\ WiresOK
  BY DEF TypeInv, TypeOK
<1>2. ASSUME NEW c \in RilCids, CallChanges(c)
      PROVE  TypeInv'
  <2>1. CallsChanged \in RilMessage /\ CallsChanged.type # "setup"
    BY MessageTypes DEF CallsChanged, Message, Registration, MessageType
  <2>2. toSmm' \in Seq(RilMessage) /\ SetupsHaveCall'
    BY <1>2, <2>1, SetupsAppend DEF CallChanges
  <2>3. WorldOK'
    BY <1>1, <1>2 DEF CallChanges, WorldOK
  <2>4. callChanges' \in 0 .. MaxCallChanges
    <3>1. callChanges \in 0 .. MaxCallChanges /\ callChanges < MaxCallChanges
          /\ callChanges' = callChanges + 1
      BY <1>1, <1>2 DEF CallChanges, CountersOK
    <3> QED
      BY <3>1, BoundsAssumption
  <2>5. CountersOK'
    BY <1>1, <1>2, <2>4 DEF CallChanges, CountersOK
  <2> QED
    BY <1>1, <1>2, <2>2, <2>3, <2>5, StutterTypes DEF CallChanges, TypeInv, TypeOK, WiresOK
<1>3. ASSUME NEW reg \in {"none", "LTE", "IWLAN"}, RegistrationChanges(reg)
      PROVE  TypeInv'
  <2> DEFINE msg == Message("regInd", TRUE, {}, "none")
  <2>1. msg \in RilMessage /\ msg.type # "setup"
    BY MessageTypes DEF Message, Registration, MessageType
  <2>2. toSmm' = Append(toSmm, msg)
    BY <1>3 DEF RegistrationChanges
  <2> HIDE DEF msg
  <2>3. toSmm' \in Seq(RilMessage) /\ SetupsHaveCall'
    BY <2>1, <2>2, SetupsAppend
  <2>4. WorldOK'
    BY <1>1, <1>3 DEF RegistrationChanges, WorldOK, Registration
  <2>5. regChanges' \in 0 .. MaxRegChanges
    <3>1. regChanges \in 0 .. MaxRegChanges /\ regChanges < MaxRegChanges
          /\ regChanges' = regChanges + 1
      BY <1>1, <1>3 DEF RegistrationChanges, CountersOK
    <3> QED
      BY <3>1, BoundsAssumption
  <2>6. CountersOK'
    BY <1>1, <1>3, <2>5 DEF RegistrationChanges, CountersOK
  <2> QED
    BY <1>1, <1>3, <2>3, <2>4, <2>6, StutterTypes
       DEF RegistrationChanges, TypeInv, TypeOK, WiresOK
<1> QED
  BY <1>2, <1>3 DEF Network

\* Taking a message off the queue.
LEMMA DeliversTypes ==
    ASSUME TypeInv, NEW type, Delivers(type)
    PROVE  /\ WorldOK' /\ CountersOK' /\ ril.pc = "idle" /\ Head(toSmm).type = type
           /\ toSmm' \in Seq(RilMessage) /\ SetupsHaveCall'
           /\ Head(toSmm) \in RilMessage
           /\ type = "setup" /\ Head(toSmm).ok => Head(toSmm).calls # {}
           /\ awaiting' \in BOOLEAN => AtOK'
           /\ ril' \in RilThread /\ (Updating' => ril'.todo # {}) => ClientOK'
           /\ UNCHANGED ril => ClientOK'
           /\ toRil' \in Seq(RilRequest) => WiresOK'
           /\ ToldOK'
<1>1. /\ UNCHANGED <<world, counters, told, stored, committed, at, routes, leftover,
                      unopened>>
      /\ ril.pc = "idle" /\ Head(toSmm).type = type /\ toSmm # <<>> /\ toSmm' = Tail(toSmm)
  BY DEF Delivers
<1>2. WorldOK' /\ CountersOK'
  BY <1>1, StutterTypes
<1>3. awaiting' \in BOOLEAN => AtOK'
  BY <1>1 DEF TypeInv, TypeOK, AtOK
<1>4. /\ ril' \in RilThread /\ (Updating' => ril'.todo # {}) => ClientOK'
      /\ UNCHANGED ril => ClientOK'
  BY <1>1 DEF TypeInv, TypeOK, ClientOK, Updating
<1>5. ToldOK'
  BY <1>1 DEF TypeInv, TypeOK, ToldOK
<1> QED
  BY <1>1, <1>2, <1>3, <1>4, <1>5, SetupsTail DEF WiresOK

\* The end of a callback, or the next call of its report.
LEMMA ContinuesTypes ==
    ASSUME TypeInv, NEW todo \in SUBSET Call, Continues(todo)
    PROVE  /\ ril' \in RilThread /\ awaiting' \in BOOLEAN
           /\ Updating' => ril'.todo # {}
<1>1. ril \in RilThread /\ awaiting \in BOOLEAN
  BY DEF TypeInv, TypeOK, ClientOK, AtOK
<1>2. CASE todo = {}
  <2>1. ril' = RilIdle /\ awaiting' = (awaiting /\ ~ril.reply)
    BY <1>2 DEF Continues
  <2>2. awaiting' \in BOOLEAN
    BY <2>1, Zenon
  <2> QED
    BY <2>1, <2>2, ConstantTypes DEF Updating
<1>3. CASE todo # {}
  <2>1. ril' = Copies(todo, ril.reply) /\ UNCHANGED awaiting
    BY <1>3 DEF Continues
  <2>2. ril.reply \in BOOLEAN
    BY <1>1 DEF RilThread
  <2> QED
    BY <1>1, <1>3, <2>1, <2>2, CopiesType
<1> QED
  BY <1>2, <1>3

\* The callbacks that copy no call.
LEMMA CallbacksKeepTypes ==
    ASSUME TypeInv,
           \/ onIRilIndication \/ onRadioModeSet \/ onInitialAttachSet \/ onNetworkSelected
           \/ onNwStateChanged \/ onDataCallSetup \/ onDataCallReleased
           \/ onDataCallListChanged
    PROVE  TypeInv'
<1>1. TypeOK /\ toRil \in Seq(RilRequest) /\ awaiting \in BOOLEAN
      /\ mRat \in {"NONE", "LTE"}
  BY DEF TypeInv, TypeOK, WiresOK, AtOK, ToldOK, ContextsOK
<1>2. ASSUME NEW type \in RequestType, Asks(type)
      PROVE  toRil' \in Seq(RilRequest)
  BY <1>1, <1>2, RequestTypes, ConstantTypes DEF Asks
<1>3. CASE onIRilIndication
  <2>1. PICK type \in {"callInd", "regInd"} : Delivers(type)
    BY <1>3 DEF onIRilIndication
  <2>2. toRil' \in Seq(RilRequest) /\ UNCHANGED <<smmVars, awaiting, ril>>
    BY <1>2, <1>3 DEF onIRilIndication, RequestType
  <2> QED
    BY <1>1, <2>1, <2>2, DeliversTypes, StutterTypes DEF TypeInv, TypeOK
<1>4. CASE onRadioModeSet
  <2>1. Delivers("radio")
    BY <1>4 DEF onRadioModeSet
  <2>2. ContextsOK'
    <3>1. loadDcContext(mDcContexts[1]) \in DcContext
      BY <1>1, ContextTypes
    <3>2. CASE Head(toSmm).ok
      BY <1>4, <3>1, <3>2, SetFirstTypes DEF onRadioModeSet
    <3>3. CASE ~Head(toSmm).ok
      BY <1>4, <3>3, StutterTypes DEF onRadioModeSet, smmVars
    <3> QED
      BY <3>2, <3>3
  <2>3. toRil' \in Seq(RilRequest)
    BY <1>1, <1>2, <1>4 DEF onRadioModeSet, RequestType
  <2>4. UNCHANGED <<awaiting, ril>>
    BY <1>4 DEF onRadioModeSet
  <2> QED
    BY <1>1, <2>1, <2>2, <2>3, <2>4, DeliversTypes DEF TypeInv, TypeOK
<1>5. CASE onInitialAttachSet
  <2>1. Delivers("attach")
    BY <1>5 DEF onInitialAttachSet
  <2>2. toRil' \in Seq(RilRequest) /\ UNCHANGED <<smmVars, awaiting, ril>>
    BY <1>1, <1>2, <1>5 DEF onInitialAttachSet, RequestType
  <2> QED
    BY <1>1, <2>1, <2>2, DeliversTypes, StutterTypes DEF TypeInv, TypeOK
<1>6. CASE onNetworkSelected
  <2>1. Delivers("select") /\ UNCHANGED <<smmVars, awaiting, ril, toRil>>
    BY <1>6 DEF onNetworkSelected
  <2> QED
    BY <1>1, <2>1, DeliversTypes, StutterTypes DEF TypeInv, TypeOK
<1>7. CASE onNwStateChanged
  <2>1. Delivers("status") /\ UNCHANGED <<mDcContexts, awaiting, ril, toRil>>
    BY <1>7 DEF onNwStateChanged
  <2>2. Head(toSmm).reg \in {"none", "LTE", "IWLAN"}
    BY <2>1, DeliversTypes DEF RilMessage, Registration
  <2>3. mRat' \in {"NONE", "LTE"}
    BY <1>1, <1>7, <2>2 DEF onNwStateChanged
  <2>4. ContextsOK'
    BY <2>1, <2>3 DEF TypeInv, TypeOK, ContextsOK
  <2> QED
    BY <1>1, <2>1, <2>3, <2>4, DeliversTypes DEF TypeInv, TypeOK
<1>9. CASE onDataCallSetup
  <2>1. Delivers("setup") /\ UNCHANGED <<smmVars, toRil>>
    BY <1>9 DEF onDataCallSetup
  <2>2. awaiting' \in BOOLEAN /\ ClientOK'
    <3>1. CASE Head(toSmm).ok
      <4>1. Head(toSmm).calls \in SUBSET Call /\ Head(toSmm).calls # {}
        BY <2>1, <3>1, DeliversTypes DEF RilMessage
      <4>2. ril' = Copies(Head(toSmm).calls, TRUE) /\ UNCHANGED awaiting
        BY <1>9, <3>1 DEF onDataCallSetup
      <4>3. ril' \in RilThread /\ ril'.todo # {}
        BY <4>1, <4>2, CopiesType
      <4> QED
        BY <1>1, <2>1, <4>2, <4>3, DeliversTypes
    <3>2. CASE ~Head(toSmm).ok
      BY <1>9, <2>1, <3>2, DeliversTypes DEF onDataCallSetup
    <3> QED
      BY <3>1, <3>2
  <2> QED
    BY <1>1, <2>1, <2>2, DeliversTypes, StutterTypes DEF TypeInv, TypeOK
<1>10. CASE onDataCallReleased
  <2>1. /\ Delivers("released") /\ awaiting' = FALSE
        /\ UNCHANGED <<smmVars, ril, toRil>>
    BY <1>10 DEF onDataCallReleased
  <2> QED
    BY <1>1, <2>1, DeliversTypes, StutterTypes DEF TypeInv, TypeOK
<1>11. CASE onDataCallListChanged
  <2>1. Delivers("list") /\ UNCHANGED <<smmVars, awaiting, toRil>>
    BY <1>11 DEF onDataCallListChanged
  <2>2. Head(toSmm).calls \in SUBSET Call
    BY <2>1, DeliversTypes DEF RilMessage
  <2>3. ril' \in RilThread /\ (Updating' => ril'.todo # {})
    <3>1. CASE Head(toSmm).calls = {}
      BY <1>11, <3>1, ConstantTypes DEF onDataCallListChanged, Updating
    <3>2. CASE Head(toSmm).calls # {}
      BY <1>11, <2>2, <3>2, CopiesType DEF onDataCallListChanged
    <3> QED
      BY <3>1, <3>2
  <2> QED
    BY <1>1, <2>1, <2>3, DeliversTypes, StutterTypes DEF TypeInv, TypeOK
<1> QED
  BY <1>3, <1>4, <1>5, <1>6, <1>7, <1>9, <1>10, <1>11

\* Setting one of the contexts, if there is such a one, keeps the list's type.
LEMMA SetContextTypes ==
    ASSUME TypeInv, NEW i, NEW dc, i \in DOMAIN mDcContexts => dc \in DcContext,
           mRat' = mRat, mDcContexts' = [mDcContexts EXCEPT ![i] = dc]
    PROVE  ContextsOK'
<1>1. mDcContexts \in Seq(DcContext) /\ mDcContexts # <<>>
  BY ContextTypes DEF TypeInv
<1>2. CASE i \in DOMAIN mDcContexts
  <2>1. mDcContexts' \in Seq(DcContext) /\ mDcContexts' # <<>>
    BY <1>1, <1>2, Replace
  <2> QED
    BY <2>1 DEF TypeInv, TypeOK, ContextsOK
<1>3. CASE i \notin DOMAIN mDcContexts
  <2>1. mDcContexts' = mDcContexts
    BY <1>1, <1>3
  <2> QED
    BY <2>1 DEF TypeInv, TypeOK, ContextsOK
<1> QED
  BY <1>2, <1>3

\* Copying a call, step by step, into the context found for it.
LEMMA UpdateKeepsTypes ==
    ASSUME TypeInv, NEW call \in ril.todo, updateDcContextFromDataCall(call)
    PROVE  TypeInv'
<1>1. /\ ril \in RilThread /\ awaiting \in BOOLEAN /\ call \in Call
      /\ ril.todo \in SUBSET Call /\ ril.todo \ {call} \in SUBSET Call
      /\ mDcContexts \in Seq(DcContext) /\ Len(mDcContexts) \in Nat
      /\ DOMAIN mDcContexts = 1 .. Len(mDcContexts)
      /\ \A j \in DOMAIN mDcContexts : mDcContexts[j] \in DcContext
  BY ContextTypes, LenProperties DEF TypeInv, TypeOK, ClientOK, AtOK, RilThread
<1>2. /\ UNCHANGED <<mRat, at, stored, committed, routes, leftover, unopened, wires, world,
                     counters, told>>
  BY DEF updateDcContextFromDataCall, FindContext, SetCid, SetActivated, SetApn, Copying
<1>3. call.cid \in Cid /\ call.up \in BOOLEAN /\ Iface \in Apn /\ "IP" \in PdpType
  BY <1>1, ConstantTypes DEF Call, PdpType
<1>4. \A dc \in DcContext : /\ [dc EXCEPT !.cid = call.cid] \in DcContext
                            /\ [dc EXCEPT !.activated = call.up] \in DcContext
                            /\ [dc EXCEPT !.apn = Iface, !.pdpType = "IP"] \in DcContext
  BY <1>3 DEF DcContext
<1>5. ASSUME ContextsOK', ril' \in RilThread, awaiting' \in BOOLEAN,
             Updating' => ril'.todo # {}
      PROVE  TypeInv'
  BY <1>2, <1>5, StutterTypes DEF TypeInv, TypeOK, AtOK, ClientOK
<1>6. CASE FindContext(call)
  <2> DEFINE found == {i \in DOMAIN mDcContexts : FirstMatch(i, call.cid)}
  <2>1. CASE found = {}
    <3>1. /\ mDcContexts' = Append(mDcContexts, NewContext) /\ UNCHANGED <<mRat, awaiting>>
          /\ ril' = [ril EXCEPT !.pc = "setCid", !.call = call,
                                !.dc = Len(mDcContexts) + 1, !.was = FALSE]
      BY <1>2, <1>6, <2>1 DEF FindContext
    <3>2. ContextsOK'
      <4>1. mDcContexts' \in Seq(DcContext) /\ mDcContexts' # <<>>
        BY <1>1, <3>1, Queue, ConstantTypes
      <4> QED
        BY <3>1, <4>1 DEF TypeInv, TypeOK, ContextsOK
    <3>3. ril' \in RilThread /\ ril'.todo = ril.todo
      <4>1. PICK new \in BOOLEAN : new = FALSE
        BY Zenon
      <4>2. PICK dc \in Nat : dc = Len(mDcContexts) + 1
        BY <1>1
      <4>3. ril' = [ril EXCEPT !.pc = "setCid", !.call = call, !.dc = dc, !.was = new]
        BY <3>1, <4>1, <4>2, Zenon
      <4> QED
        BY <1>1, <4>3 DEF RilThread
    <3> QED
      BY <1>1, <1>5, <3>1, <3>2, <3>3
  <2>2. CASE found # {}
    <3>1. PICK i \in DOMAIN mDcContexts :
             ril' = [ril EXCEPT !.pc = "setCid", !.call = call, !.dc = i,
                                !.was = mDcContexts[i].activated]
      BY <1>6, <2>2 DEF FindContext
    <3>2. UNCHANGED <<mDcContexts, mRat, awaiting>>
      BY <1>2, <1>6, <2>2 DEF FindContext
    <3>3. ContextsOK'
      BY <3>2 DEF TypeInv, TypeOK, ContextsOK
    <3>4. mDcContexts[i].activated \in BOOLEAN /\ i \in Nat
      BY <1>1 DEF DcContext
    <3>5. ril' \in RilThread /\ ril'.todo = ril.todo
      BY <1>1, <3>1, <3>4 DEF RilThread
    <3> QED
      BY <1>1, <1>5, <3>2, <3>3, <3>5
  <2> QED
    BY <2>1, <2>2
<1>7. CASE SetCid(call)
  <2>1. PICK dc : dc = [mDcContexts[ril.dc] EXCEPT !.cid = call.cid]
    OBVIOUS
  <2>2. mDcContexts' = [mDcContexts EXCEPT ![ril.dc] = dc] /\ UNCHANGED <<mRat, awaiting>>
    BY <1>2, <1>7, <2>1 DEF SetCid
  <2>3. ContextsOK'
    BY <1>1, <1>4, <2>1, <2>2, SetContextTypes
  <2>4. ril' = [ril EXCEPT !.pc = "setActivated"]
    BY <1>7 DEF SetCid
  <2>5. ril' \in RilThread /\ ril'.todo = ril.todo
    BY <1>1, <2>4 DEF RilThread
  <2> QED
    BY <1>1, <1>5, <2>2, <2>3, <2>5
<1>8. CASE SetActivated(call)
  <2>1. PICK dc : dc = [mDcContexts[ril.dc] EXCEPT !.activated = call.up]
    OBVIOUS
  <2>2. mDcContexts' = [mDcContexts EXCEPT ![ril.dc] = dc] /\ UNCHANGED <<mRat, awaiting>>
    BY <1>2, <1>8, <2>1 DEF SetActivated
  <2>3. ContextsOK'
    BY <1>1, <1>4, <2>1, <2>2, SetContextTypes
  <2>4. ril' = [ril EXCEPT !.pc = "setApn"]
    BY <1>8 DEF SetActivated
  <2>5. ril' \in RilThread /\ ril'.todo = ril.todo
    BY <1>1, <2>4 DEF RilThread
  <2> QED
    BY <1>1, <1>5, <2>2, <2>3, <2>5
<1>9. CASE SetApn(call)
  <2>1. PICK dc : dc = [mDcContexts[ril.dc] EXCEPT !.apn = Iface, !.pdpType = "IP"]
    OBVIOUS
  <2>2. mDcContexts' = [mDcContexts EXCEPT ![ril.dc] = dc] /\ UNCHANGED mRat
    BY <1>2, <1>9, <2>1 DEF SetApn
  <2>3. ContextsOK'
    BY <1>1, <1>4, <2>1, <2>2, SetContextTypes
  <2>4. CASE RouteChanges(ril.was, mDcContexts[ril.dc].activated)
    <3>1. PICK event \in {"up", "down"} :
             ril' = [ril EXCEPT !.pc = "tether", !.todo = ril.todo \ {call},
                                !.event = event]
      BY <1>9, <2>4 DEF SetApn
    <3>2. ril' \in RilThread /\ ril'.pc = "tether"
      BY <1>1, <3>1 DEF RilThread
    <3>3. UNCHANGED awaiting
      BY <1>9, <2>4 DEF SetApn
    <3> QED
      BY <1>1, <1>5, <2>3, <3>2, <3>3 DEF Updating
  <2>5. CASE ~RouteChanges(ril.was, mDcContexts[ril.dc].activated)
    <3>1. Continues(ril.todo \ {call})
      BY <1>9, <2>5 DEF SetApn
    <3> QED
      BY <1>1, <1>5, <2>3, <3>1, ContinuesTypes
  <2> QED
    BY <2>4, <2>5
<1> QED
  BY <1>6, <1>7, <1>8, <1>9 DEF updateDcContextFromDataCall

\* Opening and closing the route.
LEMMA TetheringKeepsTypes ==
    ASSUME TypeInv, enableTethering \/ disableTethering
    PROVE  TypeInv'
<1> DEFINE Routes == [forward : Nat, nat : Nat, ipForward : {"0", "1"}]
<1>1. /\ Continues(ril.todo) /\ ril.todo \in SUBSET Call
      /\ UNCHANGED <<smmVars, at, stored, committed, wires, world, counters, told>>
  BY DEF enableTethering, disableTethering, TypeInv, TypeOK, ClientOK, RilThread
<1>2. ril' \in RilThread /\ awaiting' \in BOOLEAN /\ (Updating' => ril'.todo # {})
  BY <1>1, ContinuesTypes
<1>3. routes \in Routes /\ leftover \in Nat /\ unopened \in BOOLEAN
  BY DEF TypeInv, TypeOK, ClientOK
<1>4. routes' \in Routes /\ leftover' \in Nat /\ unopened' \in BOOLEAN
  <2>1. CASE enableTethering
    <3>1. PICK forward \in 0 .. 1, nat \in 0 .. 1 :
             /\ routes' = [routes EXCEPT !.forward = @ + forward, !.nat = @ + nat]
             /\ unopened' = (forward = 0)
      BY <2>1 DEF enableTethering
    <3>2. PICK f \in Nat, n \in Nat : f = routes.forward + forward /\ n = routes.nat + nat
      BY <1>3
    <3>3. routes' = [routes EXCEPT !.forward = f, !.nat = n]
      BY <3>1, <3>2
    <3>4. routes' \in Routes
      BY <1>3, <3>3
    <3>5. leftover' = leftover
      BY <2>1 DEF enableTethering
    <3> QED
      BY <1>3, <3>1, <3>4, <3>5
  <2>2. CASE disableTethering
    <3>1. \/ routes' = [routes EXCEPT !.ipForward = "1", !.forward = 0] /\ leftover' = 0
          \/ routes' = routes /\ leftover' = routes.forward
      BY <2>2 DEF disableTethering
    <3>2. \A r \in Routes : [r EXCEPT !.ipForward = "1", !.forward = 0] \in Routes
      OBVIOUS
    <3>3. routes \in Routes /\ routes.forward \in Nat
      BY <1>3
    <3>4. unopened' \in BOOLEAN
      BY <2>2, Zenon DEF disableTethering
    <3>5. routes' \in Routes
      <4> HIDE DEF Routes
      <4> QED
        BY <3>1, <3>2, <3>3, Zenon
    <3>6. leftover' \in Nat
      BY <3>1, <3>3
    <3> QED
      BY <3>4, <3>5, <3>6
  <2> QED
    BY <1>1, <2>1, <2>2
<1> QED
  BY <1>1, <1>2, <1>4, StutterTypes DEF TypeInv, TypeOK, AtOK, ClientOK

LEMMA RestartKeepsTypes ==
    ASSUME TypeInv, Restart
    PROVE  TypeInv'
<1>1. restarts' \in 0 .. MaxRestarts
  <2>1. restarts \in 0 .. MaxRestarts /\ restarts < MaxRestarts /\ restarts' = restarts + 1
    BY DEF Restart, TypeInv, TypeOK, CountersOK
  <2> QED
    BY <2>1, BoundsAssumption
<1>2. CountersOK' /\ WorldOK'
  BY <1>1, StutterTypes DEF Restart, TypeInv, TypeOK, CountersOK
<1>3. ContextsOK'
  BY ConstantTypes DEF Restart, NewContexts, ContextsOK
<1>4. AtOK' /\ ClientOK'
  <2>1. routes \in [forward : Nat, nat : Nat, ipForward : {"0", "1"}]
    BY DEF TypeInv, TypeOK, ClientOK
  <2>2. routes.forward \in Nat
    BY <2>1
  <2> QED
    BY <2>1, <2>2, ConstantTypes DEF Restart, TypeInv, TypeOK, AtOK, ClientOK, Updating
<1>5. WiresOK' /\ SetupsHaveCall'
  <2>1. Request("radio", NoCid) \in RilRequest
    BY ConstantTypes DEF RequestType
  <2> QED
    BY <2>1 DEF Restart, WiresOK, SetupsHaveCall
<1>6. ToldOK'
  BY DEF Restart, TypeInv, TypeOK, ToldOK
<1> QED
  BY <1>2, <1>3, <1>4, <1>5, <1>6 DEF TypeInv, TypeOK

LEMMA TypeInit == Init => TypeInv
<1> SUFFICES ASSUME Init PROVE TypeInv
  OBVIOUS
<1>1. ContextsOK
  BY ConstantTypes DEF Init, NewContexts, ContextsOK
<1>2. AtOK
  BY ConstantTypes DEF Init, AtOK
<1>3. ClientOK
  BY ConstantTypes DEF Init, ClientOK, Updating
<1>4. WiresOK /\ SetupsHaveCall
  <2>1. Request("radio", NoCid) \in RilRequest
    BY ConstantTypes DEF RequestType
  <2> QED
    BY <2>1 DEF Init, WiresOK, SetupsHaveCall
<1>5. WorldOK
  BY DEF Init, WorldOK, Registration
<1>6. CountersOK
  BY BoundsAssumption DEF Init, CountersOK
<1>7. ToldOK
  BY ConstantTypes DEF Init, ToldOK, Told
<1> QED
  BY <1>1, <1>2, <1>3, <1>4, <1>5, <1>6, <1>7 DEF TypeInv, TypeOK

LEMMA TypeStep == TypeInv /\ [Next]_vars => TypeInv'
<1> SUFFICES ASSUME TypeInv, [Next]_vars PROVE TypeInv'
  OBVIOUS
<1>1. CASE UNCHANGED vars
  BY <1>1, StutterTypes DEF vars, TypeInv, TypeOK
<1>2. CASE RilClient
  BY <1>2, CallbacksKeepTypes, UpdateKeepsTypes, TetheringKeepsTypes DEF RilClient
<1> QED
  BY <1>1, <1>2, AtKeepsTypes, DaemonKeepsTypes, NetworkKeepsTypes, RestartKeepsTypes
     DEF Next

LEMMA TypeInvariant == Spec => []TypeInv
<1> QED
  BY TypeInit, TypeStep, PTL DEF Spec

\* Whatever host, daemon and network do and however often the process is
\* restarted, the list of contexts is never empty (Netconf::getDcContexts is
\* indexed with 0 without a test) and every variable keeps its shape.
THEOREM DataCallsTypeCorrect == Spec => []TypeOK
<1>1. TypeInv => TypeOK
  BY DEF TypeInv
<1> QED
  BY <1>1, TypeInvariant, PTL
-----------------------------------------------------------------------------
(***************************************************************************)
(* The safety invariants, each from an inductive invariant that says what  *)
(* the threads know while they are in the middle of their work.            *)
(***************************************************************************)

(***************************************************************************)
(* What was committed survives, if no report comes between a load and its  *)
(* store.                                                                  *)
(***************************************************************************)

\* After the load the context has all that is stored.
LoadedIsStored ==
    at.pc = "set" /\ stored # Nothing =>
        /\ mDcContexts[1].cid = stored.cid /\ mDcContexts[1].apn = stored.apn
        /\ mDcContexts[1].auth = stored.auth

\* Before the store it has the command's fields, and the others as stored.
CgdcontReady ==
    at.pc = "store" /\ at.cmd = "CGDCONT" =>
        /\ mDcContexts[1].cid = at.cid /\ mDcContexts[1].apn = at.apn
        /\ stored # Nothing => mDcContexts[1].auth = stored.auth

XgauthReady ==
    at.pc = "store" /\ at.cmd = "XGAUTH" =>
        /\ mDcContexts[1].auth = at.auth
        /\ stored # Nothing => /\ mDcContexts[1].cid = stored.cid
                               /\ mDcContexts[1].apn = stored.apn

BusyHasCommand == at.pc # "idle" => at.cmd \in {"CGDCONT", "XGAUTH"}

CommitInv ==
    LoadedIsStored /\ CgdcontReady /\ XgauthReady /\ BusyHasCommand /\ CommittedSurvives

\* What leaves the file alone, and the context too unless the AT thread is
\* idle, cannot break it.
LEMMA CommitQuiet ==
    ASSUME CommitInv, UNCHANGED <<stored, committed>>,
           UNCHANGED <<mDcContexts, at>> \/ at'.pc = "idle"
    PROVE  CommitInv'
BY DEF CommitInv, LoadedIsStored, CgdcontReady, XgauthReady, BusyHasCommand,
       CommittedSurvives, CidKept, AuthKept, ApnKept

LEMMA CommitAt ==
    ASSUME TypeInv, CommitInv, AtStarts \/ AtContinues
    PROVE  CommitInv'
<1>1. /\ mDcContexts \in Seq(DcContext) /\ 1 \in DOMAIN mDcContexts
      /\ mDcContexts[1] \in DcContext /\ loadDcContext(mDcContexts[1]) \in DcContext
      /\ at \in AtThread /\ committed \in Record /\ stored \in Record
  BY ContextTypes DEF TypeInv, TypeOK, AtOK
<1>2. \A dc : SetFirst(dc) => mDcContexts'[1] = dc
  BY <1>1 DEF SetFirst
<1> DEFINE loaded == loadDcContext(mDcContexts[1])
<1>3. stored # Nothing => /\ loaded.cid = stored.cid /\ loaded.apn = stored.apn
                          /\ loaded.auth = stored.auth
  BY <1>1 DEF loadDcContext, DcContext
<1> HIDE DEF loaded
<1>4. CASE QueryLoads
  BY <1>4, CommitQuiet DEF QueryLoads, HostCommands, atVars
<1>5. ASSUME NEW cid \in HostCids, NEW apn \in Apns, CgdcontLoad(cid, apn)
      PROVE  CommitInv'
  <2>1. /\ mDcContexts'[1] = loaded /\ UNCHANGED <<stored, committed>>
        /\ at'.pc = "set" /\ at'.cmd = "CGDCONT"
    BY <1>2, <1>5 DEF CgdcontLoad, loaded
  <2> QED
    BY <1>3, <2>1 DEF CommitInv, LoadedIsStored, CgdcontReady, XgauthReady, BusyHasCommand,
                      CommittedSurvives, CidKept, AuthKept, ApnKept
<1>6. ASSUME NEW cid \in HostCids, NEW auth \in AuthModes, XgauthLoad(cid, auth)
      PROVE  CommitInv'
  <2>1. mDcContexts'[1] = loaded /\ UNCHANGED <<stored, committed>>
    BY <1>2, <1>6 DEF XgauthLoad, loaded
  <2>2. CASE loaded.cid = cid
    <3>1. at'.pc = "set" /\ at'.cmd = "XGAUTH"
      BY <1>6, <2>2 DEF XgauthLoad, loaded
    <3> QED
      BY <1>3, <2>1, <3>1 DEF CommitInv, LoadedIsStored, CgdcontReady, XgauthReady,
         BusyHasCommand, CommittedSurvives, CidKept, AuthKept, ApnKept
  <2>3. CASE loaded.cid # cid
    <3>1. at'.pc = "idle"
      BY <1>6, <2>3 DEF XgauthLoad, loaded, AtIdle
    <3> QED
      BY <2>1, <3>1, CommitQuiet
  <2> QED
    BY <2>2, <2>3
<1>8. ASSUME NEW up \in BOOLEAN, CgactWrite(up)
      PROVE  CommitInv'
  BY <1>8, CommitQuiet DEF CgactWrite, smmVars
<1>9. CASE CgdcontSet
  <2>1. /\ mDcContexts'[1] = [mDcContexts[1] EXCEPT !.cid = at.cid, !.apn = at.apn,
                                                    !.pdpType = "IP"]
        /\ at' = [at EXCEPT !.pc = "store"] /\ UNCHANGED <<stored, committed>>
        /\ at.pc = "set" /\ at.cmd = "CGDCONT"
    BY <1>2, <1>9 DEF CgdcontSet
  <2>2. /\ mDcContexts'[1].cid = at.cid /\ mDcContexts'[1].apn = at.apn
        /\ mDcContexts'[1].auth = mDcContexts[1].auth
        /\ at'.pc = "store" /\ at'.cmd = "CGDCONT" /\ at'.cid = at.cid /\ at'.apn = at.apn
    BY <1>1, <2>1 DEF DcContext, AtThread
  <2> QED
    BY <2>1, <2>2 DEF CommitInv, LoadedIsStored, CgdcontReady, XgauthReady, BusyHasCommand,
                      CommittedSurvives, CidKept, AuthKept, ApnKept
<1>10. CASE XgauthSet
  <2>1. /\ mDcContexts'[1] = [mDcContexts[1] EXCEPT !.auth = at.auth]
        /\ at' = [at EXCEPT !.pc = "store"] /\ UNCHANGED <<stored, committed>>
        /\ at.pc = "set" /\ at.cmd = "XGAUTH"
    BY <1>2, <1>10 DEF XgauthSet
  <2>2. /\ mDcContexts'[1].cid = mDcContexts[1].cid /\ mDcContexts'[1].apn = mDcContexts[1].apn
        /\ mDcContexts'[1].auth = at.auth
        /\ at'.pc = "store" /\ at'.cmd = "XGAUTH" /\ at'.auth = at.auth
    BY <1>1, <2>1 DEF DcContext, AtThread
  <2> QED
    BY <2>1, <2>2 DEF CommitInv, LoadedIsStored, CgdcontReady, XgauthReady, BusyHasCommand,
                      CommittedSurvives, CidKept, AuthKept, ApnKept
<1>11. CASE StoreAndAnswer
  <2>1. at.pc = "store" /\ at'.pc = "idle" /\ UNCHANGED mDcContexts
    BY <1>11 DEF StoreAndAnswer, AtIdle, smmVars
  <2>2. CASE UNCHANGED <<stored, committed>>
    BY <2>1, <2>2, CommitQuiet
  <2>3. ASSUME storeDcContext(mDcContexts[1]),
               committed' = IF at.cmd = "CGDCONT"
                            THEN [committed EXCEPT !.cid = at.cid, !.apn = at.apn,
                                                   !.pdpType = "IP"]
                            ELSE [committed EXCEPT !.auth = at.auth]
        PROVE  CommitInv'
    <3>1. /\ stored'.cid = mDcContexts[1].cid /\ stored'.apn = mDcContexts[1].apn
          /\ stored'.auth = mDcContexts[1].auth
      BY <2>3 DEF storeDcContext
    <3>2. Nothing.cid = NoCid /\ Nothing.auth = AuthDisabled
      BY DEF Nothing
    <3>3. CASE at.cmd = "CGDCONT"
      <4>1. /\ committed'.cid = at.cid /\ committed'.apn = at.apn
            /\ committed'.auth = committed.auth
        BY <1>1, <2>3, <3>3 DEF Record
      <4> QED
        BY <2>1, <3>1, <3>2, <3>3, <4>1
           DEF CommitInv, LoadedIsStored, CgdcontReady, XgauthReady, BusyHasCommand,
               CommittedSurvives, CidKept, AuthKept, ApnKept
    <3>4. CASE at.cmd = "XGAUTH"
      <4>1. /\ committed'.cid = committed.cid /\ committed'.apn = committed.apn
            /\ committed'.auth = at.auth
        BY <1>1, <2>3, <3>4 DEF Record
      <4> QED
        BY <2>1, <3>1, <3>2, <3>4, <4>1
           DEF CommitInv, LoadedIsStored, CgdcontReady, XgauthReady, BusyHasCommand,
               CommittedSurvives, CidKept, AuthKept, ApnKept
    <3> QED
      BY <2>1, <3>3, <3>4 DEF CommitInv, BusyHasCommand
  <2> QED
    BY <1>11, <2>2, <2>3 DEF StoreAndAnswer
<1> QED
  BY <1>4, <1>5, <1>6, <1>8, <1>9, <1>10, <1>11 DEF AtStarts, AtContinues

\* Nobody else writes the file, and under AtomicAt nobody else writes the
\* context while the AT thread is between its load and its store.
LEMMA OthersCommitNothing ==
    ASSUME AtomicAt, RilDaemon \/ Network \/ RilClient \/ Restart
    PROVE  /\ UNCHANGED <<stored, committed>>
           /\ UNCHANGED <<mDcContexts, at>> \/ at'.pc = "idle"
<1>1. CASE RilDaemon
  BY <1>1 DEF RilDaemon, RilSetsUp, RilDeactivates, RilLists, RilReportsStatus, RilStartsUp,
              RilAnswers, smmVars, atVars
<1>2. CASE Network
  BY <1>2 DEF Network, CallChanges, RegistrationChanges, smmVars, atVars
<1>3. CASE RilClient
  BY <1>3 DEF RilClient, onIRilIndication, onRadioModeSet, onInitialAttachSet,
              onNetworkSelected, onNwStateChanged, onDataCallSetup, onDataCallReleased,
              onDataCallListChanged, updateDcContextFromDataCall, FindContext, SetCid,
              SetActivated, SetApn, Copying, enableTethering, disableTethering, Delivers,
              smmVars
<1>4. CASE Restart
  BY <1>4 DEF Restart, AtIdle
<1> QED
  BY <1>1, <1>2, <1>3, <1>4

\* Whatever the host configures with AT+CGDCONT and AT+XGAUTH, and however
\* stores fail and the process restarts, the cid, APN and authentication mode
\* of the last successful stores are in the file: no command's load, set and
\* store loses what an earlier one has stored.
THEOREM CommittedConfigurationSurvives ==
    ASSUME AtomicAt
    PROVE  Spec => []CommittedSurvives
<1>1. Init => CommitInv
  <2> SUFFICES ASSUME Init PROVE CommitInv
    OBVIOUS
  <2>1. at.pc = "idle" /\ stored = committed
    BY DEF Init, AtIdle
  <2> QED
    BY <2>1 DEF CommitInv, LoadedIsStored, CgdcontReady, XgauthReady, BusyHasCommand,
                CommittedSurvives, CidKept, AuthKept, ApnKept
<1>2. TypeInv /\ CommitInv /\ [Next]_vars => CommitInv'
  <2> SUFFICES ASSUME TypeInv, CommitInv, [Next]_vars PROVE CommitInv'
    OBVIOUS
  <2>1. CASE UNCHANGED vars
    BY <2>1, CommitQuiet DEF vars, smmVars, atVars
  <2> QED
    BY <2>1, CommitAt, OthersCommitNothing, CommitQuiet DEF Next
<1>3. CommitInv => CommittedSurvives
  BY DEF CommitInv
<1> QED
  BY <1>1, <1>2, <1>3, TypeInvariant, PTL DEF Spec
-----------------------------------------------------------------------------
(***************************************************************************)
(* Copying a report's call, step by step.                                  *)
(***************************************************************************)
\* The setters change one field of one context, if there is that context.
LEMMA CidIsSet ==
    ASSUME TypeInv, NEW call \in ril.todo, SetCid(call)
    PROVE  /\ DOMAIN mDcContexts' = DOMAIN mDcContexts
           /\ \A j \in DOMAIN mDcContexts :
                 /\ mDcContexts'[j].cid = IF j = ril.dc THEN call.cid ELSE mDcContexts[j].cid
                 /\ mDcContexts'[j].activated = mDcContexts[j].activated
                 /\ mDcContexts'[j].auth = mDcContexts[j].auth
           /\ ril' = [ril EXCEPT !.pc = "setActivated"]
           /\ ril.pc = "setCid" /\ ril'.pc = "setActivated"
<1>1. /\ mDcContexts \in Seq(DcContext) /\ ril \in RilThread
      /\ \A j \in DOMAIN mDcContexts : mDcContexts[j] \in DcContext
  BY ContextTypes DEF TypeInv, TypeOK, ClientOK
<1>2. PICK new : new = [mDcContexts[ril.dc] EXCEPT !.cid = call.cid]
  OBVIOUS
<1>3. /\ mDcContexts' = [mDcContexts EXCEPT ![ril.dc] = new]
      /\ ril.pc = "setCid" /\ ril' = [ril EXCEPT !.pc = "setActivated"]
  BY <1>2 DEF SetCid, Copying
<1>4. ril.dc \in DOMAIN mDcContexts =>
         /\ new.cid = call.cid /\ new.activated = mDcContexts[ril.dc].activated
         /\ new.auth = mDcContexts[ril.dc].auth
  BY <1>1, <1>2 DEF DcContext
<1>5. ril'.pc = "setActivated"
  BY <1>1, <1>3 DEF RilThread
<1> QED
  BY <1>1, <1>3, <1>4, <1>5

LEMMA ActivatedIsSet ==
    ASSUME TypeInv, NEW call \in ril.todo, SetActivated(call)
    PROVE  /\ DOMAIN mDcContexts' = DOMAIN mDcContexts
           /\ \A j \in DOMAIN mDcContexts :
                 /\ mDcContexts'[j].cid = mDcContexts[j].cid
                 /\ mDcContexts'[j].activated = IF j = ril.dc THEN call.up
                                                ELSE mDcContexts[j].activated
                 /\ mDcContexts'[j].auth = mDcContexts[j].auth
           /\ ril' = [ril EXCEPT !.pc = "setApn"]
           /\ ril.pc = "setActivated" /\ ril'.pc = "setApn"
<1>1. /\ mDcContexts \in Seq(DcContext) /\ ril \in RilThread
      /\ \A j \in DOMAIN mDcContexts : mDcContexts[j] \in DcContext
  BY ContextTypes DEF TypeInv, TypeOK, ClientOK
<1>2. PICK new : new = [mDcContexts[ril.dc] EXCEPT !.activated = call.up]
  OBVIOUS
<1>3. /\ mDcContexts' = [mDcContexts EXCEPT ![ril.dc] = new]
      /\ ril.pc = "setActivated" /\ ril' = [ril EXCEPT !.pc = "setApn"]
  BY <1>2 DEF SetActivated, Copying
<1>4. ril.dc \in DOMAIN mDcContexts =>
         /\ new.cid = mDcContexts[ril.dc].cid /\ new.activated = call.up
         /\ new.auth = mDcContexts[ril.dc].auth
  BY <1>1, <1>2 DEF DcContext
<1>5. ril'.pc = "setApn"
  BY <1>1, <1>3 DEF RilThread
<1> QED
  BY <1>1, <1>3, <1>4, <1>5

\* The last step leaves the callback, for the next call or for the route.
LEMMA ApnIsSet ==
    ASSUME TypeInv, NEW call \in ril.todo, SetApn(call)
    PROVE  /\ DOMAIN mDcContexts' = DOMAIN mDcContexts
           /\ \A j \in DOMAIN mDcContexts :
                 /\ mDcContexts'[j].cid = mDcContexts[j].cid
                 /\ mDcContexts'[j].activated = mDcContexts[j].activated
                 /\ mDcContexts'[j].auth = mDcContexts[j].auth
           /\ ril.pc = "setApn" /\ call = ril.call
           /\ \/ /\ ril.was # mDcContexts[ril.dc].activated
                 /\ ril'.pc = "tether" /\ ril'.event = IF ril.was THEN "down" ELSE "up"
                 /\ ril'.todo = ril.todo \ {call} /\ ril'.reply = ril.reply
                 /\ UNCHANGED awaiting
              \/ /\ ril.was = mDcContexts[ril.dc].activated
                 /\ Continues(ril.todo \ {call})
<1>1. /\ mDcContexts \in Seq(DcContext) /\ ril \in RilThread
      /\ \A j \in DOMAIN mDcContexts : mDcContexts[j] \in DcContext
  BY ContextTypes DEF TypeInv, TypeOK, ClientOK
<1>2. PICK new : new = [mDcContexts[ril.dc] EXCEPT !.apn = Iface, !.pdpType = "IP"]
  OBVIOUS
<1>3. /\ mDcContexts' = [mDcContexts EXCEPT ![ril.dc] = new]
      /\ ril.pc = "setApn" /\ call = ril.call
  BY <1>2 DEF SetApn, Copying
<1>4. ril.dc \in DOMAIN mDcContexts =>
         /\ new.cid = mDcContexts[ril.dc].cid /\ new.auth = mDcContexts[ril.dc].auth
         /\ new.activated = mDcContexts[ril.dc].activated
  BY <1>1, <1>2 DEF DcContext
<1>5. CASE ril.was # mDcContexts[ril.dc].activated
  <2>1. PICK event : /\ event = IF ril.was THEN "down" ELSE "up"
                     /\ ril' = [ril EXCEPT !.pc = "tether", !.todo = ril.todo \ {call},
                                           !.event = event]
                     /\ UNCHANGED awaiting
    BY <1>5 DEF SetApn, RouteChanges
  <2>2. /\ ril'.pc = "tether" /\ ril'.event = event /\ ril'.todo = ril.todo \ {call}
        /\ ril'.reply = ril.reply
    BY <1>1, <2>1 DEF RilThread
  <2> QED
    BY <1>1, <1>3, <1>4, <1>5, <2>1, <2>2
<1>6. CASE ril.was = mDcContexts[ril.dc].activated
  <2>1. Continues(ril.todo \ {call})
    BY <1>6 DEF SetApn, RouteChanges
  <2> QED
    BY <1>1, <1>3, <1>4, <1>6, <2>1
<1> QED
  BY <1>5, <1>6

\* Where the callback is when it goes on.
LEMMA ContinuesAt ==
    ASSUME TypeInv, NEW todo \in SUBSET Call, Continues(todo)
    PROVE  \/ todo = {} /\ ril' = RilIdle /\ ril'.pc = "idle"
           \/ todo # {} /\ ril'.pc = "update" /\ ril'.todo = todo /\ ril'.reply = ril.reply
              /\ UNCHANGED awaiting
<1>1. ril.reply \in BOOLEAN
  BY DEF TypeInv, TypeOK, ClientOK, RilThread
<1>2. RilIdle.pc = "idle"
  BY DEF RilIdle
<1> QED
  BY <1>1, <1>2, CopiesType DEF Continues

\* A callback that has something to copy begins to search.
LEMMA CallbackBegins ==
    ASSUME TypeInv, onDataCallSetup \/ onDataCallListChanged
    PROVE  /\ ril.pc = "idle"
           /\ ril'.pc = "idle" \/ ril'.pc = "update"
<1>1. PICK type \in {"setup", "list"} : Delivers(type)
  BY DEF onDataCallSetup, onDataCallListChanged
<1>2. Head(toSmm).calls \in SUBSET Call /\ ril.pc = "idle"
  BY <1>1, DeliversTypes DEF RilMessage
<1>3. \A reply \in BOOLEAN : Copies(Head(toSmm).calls, reply).pc = "update"
  BY <1>2, CopiesType
<1>4. RilIdle.pc = "idle"
  BY DEF RilIdle
<1> QED
  BY <1>2, <1>3, <1>4 DEF onDataCallSetup, onDataCallListChanged

\* The AT thread writes the first context only, but for its state of
\* activation, and sends no reports.
LEMMA AtWritesFirst ==
    ASSUME TypeInv, AtStarts \/ AtContinues
    PROVE  /\ UNCHANGED <<rilVars, toSmm, world, restarts>>
           /\ DOMAIN mDcContexts' = DOMAIN mDcContexts
           /\ \A j \in DOMAIN mDcContexts : j # 1 => mDcContexts'[j] = mDcContexts[j]
           /\ mDcContexts'[1].activated = mDcContexts[1].activated
<1>1. /\ mDcContexts \in Seq(DcContext) /\ 1 \in DOMAIN mDcContexts
      /\ mDcContexts[1] \in DcContext
  BY ContextTypes DEF TypeInv
<1>2. UNCHANGED <<rilVars, toSmm, world, restarts>>
  BY DEF AtStarts, AtContinues, QueryLoads, CgdcontLoad, XgauthLoad, HostCommands,
         CgactWrite, CgdcontSet, XgauthSet, StoreAndAnswer, wires, counters
<1>3. \/ UNCHANGED mDcContexts
      \/ SetFirst(loadDcContext(mDcContexts[1]))
      \/ SetFirst([mDcContexts[1] EXCEPT !.cid = at.cid, !.apn = at.apn, !.pdpType = "IP"])
      \/ SetFirst([mDcContexts[1] EXCEPT !.auth = at.auth])
  BY DEF AtStarts, AtContinues, QueryLoads, CgdcontLoad, XgauthLoad,
         CgactWrite, CgdcontSet, XgauthSet, StoreAndAnswer, smmVars
<1>4. /\ [mDcContexts[1] EXCEPT !.cid = at.cid, !.apn = at.apn, !.pdpType = "IP"].activated
            = mDcContexts[1].activated
      /\ [mDcContexts[1] EXCEPT !.auth = at.auth].activated = mDcContexts[1].activated
      /\ loadDcContext(mDcContexts[1]).activated = mDcContexts[1].activated
  BY <1>1 DEF DcContext, loadDcContext
<1>5. \A dc : SetFirst(dc) =>
         /\ DOMAIN mDcContexts' = DOMAIN mDcContexts /\ mDcContexts'[1] = dc
         /\ \A j \in DOMAIN mDcContexts : j # 1 => mDcContexts'[j] = mDcContexts[j]
  BY <1>1 DEF SetFirst
<1> QED
  BY <1>2, <1>3, <1>4, <1>5

\* And so does the callback that loads the file for the initial attach.
LEMMA RadioWritesFirst ==
    ASSUME TypeInv, onRadioModeSet
    PROVE  /\ UNCHANGED <<rilVars, world, restarts, stored, at>>
           /\ DOMAIN mDcContexts' = DOMAIN mDcContexts
           /\ \A j \in DOMAIN mDcContexts : j # 1 => mDcContexts'[j] = mDcContexts[j]
           /\ mDcContexts'[1].activated = mDcContexts[1].activated
<1>1. /\ mDcContexts \in Seq(DcContext) /\ 1 \in DOMAIN mDcContexts
      /\ mDcContexts[1] \in DcContext
  BY ContextTypes DEF TypeInv
<1>2. loadDcContext(mDcContexts[1]).activated = mDcContexts[1].activated
  BY <1>1 DEF DcContext, loadDcContext
<1>3. UNCHANGED mDcContexts \/ SetFirst(loadDcContext(mDcContexts[1]))
  BY DEF onRadioModeSet
<1> QED
  BY <1>1, <1>2, <1>3 DEF SetFirst, onRadioModeSet, Delivers, rilVars, counters

\* Daemon and network, and the callbacks that copy nothing.
LEMMA OthersWriteNothing ==
    ASSUME \/ RilDaemon \/ Network \/ onIRilIndication \/ onInitialAttachSet
           \/ onNetworkSelected \/ onNwStateChanged \/ onDataCallReleased
    PROVE  UNCHANGED <<mDcContexts, rilVars, stored, at, committed>>
BY DEF RilDaemon, RilSetsUp, RilDeactivates, RilLists, RilReportsStatus, RilStartsUp,
       RilAnswers, Network, CallChanges, RegistrationChanges, onIRilIndication,
       onInitialAttachSet, onNetworkSelected, onNwStateChanged, onDataCallReleased,
       Delivers, smmVars, rilVars, atVars
-----------------------------------------------------------------------------
(***************************************************************************)
(* Every context that was added is the only one of its call.               *)
(***************************************************************************)
\* It has a cid of the daemon, but while it is being given one.
AddedCids ==
    \A i \in DOMAIN mDcContexts :
        i > 1 => \/ mDcContexts[i].cid \in RilCids
                 \/ ril.pc = "setCid" /\ ril.dc = i /\ mDcContexts[i].cid = NoCid

\* What is about to be given is no other's.
CidIsFree ==
    ril.pc = "setCid" =>
        \A j \in DOMAIN mDcContexts :
            j > 1 /\ j # ril.dc /\ ril.dc > 1 => mDcContexts[j].cid # ril.call.cid

OwnInv == AddedCids /\ CidIsFree /\ OneContextPerCall

\* What leaves the cids of the added contexts alone, outside the search.
LEMMA OwnQuiet ==
    ASSUME TypeInv, OwnInv, DOMAIN mDcContexts' = DOMAIN mDcContexts,
           \A j \in DOMAIN mDcContexts : j > 1 => mDcContexts'[j].cid = mDcContexts[j].cid,
           UNCHANGED ril \/ (ril.pc # "setCid" /\ ril'.pc # "setCid")
    PROVE  OwnInv'
<1>1. DOMAIN mDcContexts = 1 .. Len(mDcContexts) /\ Len(mDcContexts) \in Nat
  BY ContextTypes, LenProperties DEF TypeInv
<1>2. \A j \in DOMAIN mDcContexts : j \in Nat
  BY <1>1
<1>3. AddedCids'
  BY DEF OwnInv, AddedCids
<1>4. CidIsFree'
  BY DEF OwnInv, CidIsFree
<1>5. OneContextPerCall'
  BY <1>2 DEF OwnInv, OneContextPerCall
<1> QED
  BY <1>3, <1>4, <1>5 DEF OwnInv

\* A set of numbers that is not empty has a least one.
LEMMA LeastOf ==
    ASSUME NEW S \in SUBSET Nat, S # {}
    PROVE  \E x \in S : \A y \in S : x <= y
<1>1. PICK x \in S : \A y \in S : ~(<<y, x>> \in OpToRel(<, Nat))
  BY WFMin, NatLessThanWellFounded
<1>2. ASSUME NEW y \in S PROVE x <= y
  <2>1. x \in Nat /\ y \in Nat
    OBVIOUS
  <2>2. ~(y < x)
    BY <1>1, <2>1 DEF OpToRel
  <2> QED
    BY <2>1, <2>2
<1> QED
  BY <1>2

\* If there is no first match there is no match.
LEMMA NoneMatches ==
    ASSUME TypeInv, NEW cid, {i \in DOMAIN mDcContexts : FirstMatch(i, cid)} = {}
    PROVE  \A j \in DOMAIN mDcContexts : ~Matches(j, cid)
<1> DEFINE matching == {j \in DOMAIN mDcContexts : Matches(j, cid)}
<1>1. DOMAIN mDcContexts = 1 .. Len(mDcContexts) /\ Len(mDcContexts) \in Nat
  BY ContextTypes, LenProperties DEF TypeInv
<1>2. SUFFICES ASSUME matching # {} PROVE FALSE
  OBVIOUS
<1>3. matching \in SUBSET Nat
  BY <1>1
<1>4. PICK i \in matching : \A j \in matching : i <= j
  <2> HIDE DEF matching
  <2> QED
    BY <1>2, <1>3, LeastOf
<1>5. FirstMatch(i, cid)
  BY <1>1, <1>4 DEF FirstMatch
<1> QED
  BY <1>4, <1>5

\* The search finds the call's own context, the first, or none that has its cid.
LEMMA OwnFind ==
    ASSUME TypeInv, OwnInv, NEW call \in ril.todo, FindContext(call)
    PROVE  OwnInv'
<1> DEFINE found == {i \in DOMAIN mDcContexts : FirstMatch(i, call.cid)}
<1>1. /\ mDcContexts \in Seq(DcContext) /\ Len(mDcContexts) \in Nat /\ ril \in RilThread
      /\ DOMAIN mDcContexts = 1 .. Len(mDcContexts) /\ ril.pc = "update"
  BY ContextTypes, LenProperties DEF TypeInv, TypeOK, ClientOK, FindContext, Copying
<1>2. call.cid \in RilCids /\ NoCid \notin RilCids
  BY CidsAssumption DEF TypeInv, TypeOK, ClientOK, RilThread, Call, NoCid
<1>3. \A i \in DOMAIN mDcContexts : i > 1 => mDcContexts[i].cid \in RilCids
  BY <1>1 DEF OwnInv, AddedCids
<1>4. CASE found = {}
  <2>1. PICK n \in Nat : n = Len(mDcContexts) + 1
    BY <1>1
  <2>2. PICK new :
           /\ mDcContexts' = Append(mDcContexts, NewContext)
           /\ ril' = [ril EXCEPT !.pc = "setCid", !.call = call, !.dc = n, !.was = new]
    BY <1>4, <2>1, Zenon DEF FindContext
  <2>3. ril'.pc = "setCid" /\ ril'.call = call /\ ril'.dc = n
    BY <1>1, <2>2 DEF RilThread
  <2>4. /\ DOMAIN mDcContexts' = 1 .. n /\ mDcContexts'[n].cid = NoCid
        /\ \A j \in 1 .. Len(mDcContexts) : mDcContexts'[j] = mDcContexts[j]
    <3>1. PICK dc \in DcContext : dc = NewContext /\ dc.cid = NoCid
      BY ConstantTypes, Zenon DEF NewContext
    <3>2. mDcContexts' = Append(mDcContexts, dc)
      BY <2>2, <3>1
    <3>3. /\ mDcContexts' \in Seq(DcContext) /\ Len(mDcContexts') = n
          /\ mDcContexts'[n] = dc
          /\ \A j \in 1 .. Len(mDcContexts) : mDcContexts'[j] = mDcContexts[j]
      BY <1>1, <2>1, <3>2, AppendProperties
    <3> QED
      BY <3>1, <3>3, LenProperties
  <2>5. \A j \in DOMAIN mDcContexts : ~Matches(j, call.cid)
    BY <1>1, <1>4, NoneMatches
  <2>6. \A j \in DOMAIN mDcContexts : mDcContexts[j].cid # call.cid
    BY <2>5 DEF Matches
  <2>7. AddedCids'
    BY <1>1, <1>3, <2>1, <2>3, <2>4 DEF AddedCids
  <2>8. CidIsFree'
    BY <1>1, <2>1, <2>3, <2>4, <2>6 DEF CidIsFree
  <2>9. OneContextPerCall'
    <3> SUFFICES ASSUME NEW i \in 1 .. n, NEW j \in 1 .. n, i > 1, j > i
                 PROVE  mDcContexts'[i].cid # mDcContexts'[j].cid
      BY <2>4 DEF OneContextPerCall
    <3>1. CASE j = n
      BY <1>1, <1>2, <1>3, <2>1, <2>4, <3>1
    <3>2. CASE j # n
      BY <1>1, <2>1, <2>4, <3>2 DEF OwnInv, OneContextPerCall
    <3> QED
      BY <3>1, <3>2
  <2> QED
    BY <2>7, <2>8, <2>9 DEF OwnInv
<1>5. CASE found # {}
  <2>1. PICK i \in found :
           ril' = [ril EXCEPT !.pc = "setCid", !.call = call, !.dc = i,
                              !.was = mDcContexts[i].activated]
    BY <1>5 DEF FindContext
  <2>2. /\ i \in DOMAIN mDcContexts /\ Matches(i, call.cid) /\ UNCHANGED mDcContexts
        /\ ril'.pc = "setCid" /\ ril'.call = call /\ ril'.dc = i
    BY <1>1, <1>5, <2>1 DEF FirstMatch, FindContext, RilThread
  <2>3. i > 1 => mDcContexts[i].cid = call.cid
    BY <1>2, <1>3, <2>2 DEF Matches
  <2>4. CidIsFree'
    BY <1>1, <2>2, <2>3 DEF OwnInv, CidIsFree, OneContextPerCall
  <2> QED
    BY <1>3, <2>2, <2>4 DEF OwnInv, AddedCids, OneContextPerCall
<1> QED
  BY <1>4, <1>5

\* The calls copied are the daemon's, and its first context is not looked at.
LEMMA OwnSetCid ==
    ASSUME TypeInv, OwnInv, NEW call \in ril.todo, SetCid(call)
    PROVE  OwnInv'
<1>1. /\ DOMAIN mDcContexts' = DOMAIN mDcContexts /\ ril.pc = "setCid"
      /\ ril'.pc = "setActivated" /\ call = ril.call
      /\ \A j \in DOMAIN mDcContexts :
            mDcContexts'[j].cid = IF j = ril.dc THEN call.cid ELSE mDcContexts[j].cid
  BY CidIsSet DEF SetCid
<1>2. call.cid \in RilCids
  BY DEF TypeInv, TypeOK, ClientOK, RilThread, Call
<1>3. AddedCids'
  BY <1>1, <1>2 DEF OwnInv, AddedCids
<1>4. CidIsFree'
  BY <1>1 DEF CidIsFree
<1>5. OneContextPerCall'
  <2>1. DOMAIN mDcContexts \subseteq Nat /\ ril.dc \in Nat
    BY ContextTypes, LenProperties DEF TypeInv, TypeOK, ClientOK, RilThread
  <2> SUFFICES ASSUME NEW i \in DOMAIN mDcContexts, NEW j \in DOMAIN mDcContexts,
                      i > 1, j > i
               PROVE  mDcContexts'[i].cid # mDcContexts'[j].cid
    BY <1>1 DEF OneContextPerCall
  <2>2. mDcContexts[i].cid # mDcContexts[j].cid
    BY DEF OwnInv, OneContextPerCall
  <2>3. ril.dc = i => mDcContexts[j].cid # call.cid
    BY <1>1, <2>1 DEF OwnInv, CidIsFree
  <2>4. ril.dc = j => mDcContexts[i].cid # call.cid
    BY <1>1, <2>1 DEF OwnInv, CidIsFree
  <2> QED
    BY <1>1, <2>1, <2>2, <2>3, <2>4
<1> QED
  BY <1>3, <1>4, <1>5 DEF OwnInv

LEMMA OwnReport ==
    ASSUME TypeInv, OwnInv, NEW call \in ril.todo, updateDcContextFromDataCall(call)
    PROVE  OwnInv'
<1>1. CASE SetActivated(call)
  BY <1>1, ActivatedIsSet, OwnQuiet
<1>2. CASE SetApn(call)
  <2>1. \/ ril'.pc = "tether"
        \/ Continues(ril.todo \ {call})
    BY <1>2, ApnIsSet
  <2>2. ril.todo \ {call} \in SUBSET Call
    BY DEF TypeInv, TypeOK, ClientOK, RilThread
  <2>3. ril'.pc # "setCid"
    BY <2>1, <2>2, ContinuesAt
  <2> QED
    BY <1>2, <2>3, ApnIsSet, OwnQuiet
<1> QED
  BY <1>1, <1>2, OwnFind, OwnSetCid DEF updateDcContextFromDataCall

LEMMA OwnStep == TypeInv /\ OwnInv /\ [Next]_vars => OwnInv'
<1> SUFFICES ASSUME TypeInv, OwnInv, [Next]_vars PROVE OwnInv'
  OBVIOUS
<1>1. DOMAIN mDcContexts \subseteq Nat
  BY ContextTypes, LenProperties DEF TypeInv
<1>2. CASE UNCHANGED vars
  BY <1>2, OwnQuiet DEF vars, smmVars, rilVars
<1>3. CASE AtStarts \/ AtContinues
  BY <1>1, <1>3, AtWritesFirst, OwnQuiet DEF rilVars
<1>4. CASE \/ RilDaemon \/ Network \/ onIRilIndication \/ onInitialAttachSet
           \/ onNetworkSelected \/ onNwStateChanged \/ onDataCallReleased
  BY <1>4, OthersWriteNothing, OwnQuiet DEF rilVars
<1>5. CASE onRadioModeSet
  BY <1>1, <1>5, RadioWritesFirst, OwnQuiet DEF rilVars
<1>6. CASE onDataCallSetup \/ onDataCallListChanged
  <2>1. UNCHANGED mDcContexts
    BY <1>6 DEF onDataCallSetup, onDataCallListChanged, smmVars
  <2> QED
    BY <1>6, <2>1, CallbackBegins, OwnQuiet
<1>7. CASE \E call \in ril.todo : updateDcContextFromDataCall(call)
  BY <1>7, OwnReport
<1>8. CASE enableTethering \/ disableTethering
  <2>1. /\ ril.pc = "tether" /\ Continues(ril.todo) /\ UNCHANGED mDcContexts
        /\ ril.todo \in SUBSET Call
    BY <1>8 DEF enableTethering, disableTethering, smmVars, TypeInv, TypeOK, ClientOK,
                RilThread
  <2>2. ril'.pc # "setCid"
    BY <2>1, ContinuesAt
  <2> QED
    BY <2>1, <2>2, OwnQuiet
<1>9. CASE Restart
  <2>1. DOMAIN mDcContexts' = {1} /\ ril'.pc = "idle"
    BY <1>9 DEF Restart, NewContexts, RilIdle
  <2> QED
    BY <2>1 DEF OwnInv, AddedCids, CidIsFree, OneContextPerCall
<1> QED
  BY <1>2, <1>3, <1>4, <1>5, <1>6, <1>7, <1>8, <1>9 DEF Next, RilClient

\* Whatever the host gives the first context, between whichever steps of a
\* report, and however often the process is restarted: of the contexts that
\* updateDcContextFromDataCall has added no two have the same cid, so a call of
\* the daemon has one context besides the host's and the list cannot grow
\* beyond one more than the daemon's cids.
THEOREM AddedContextsAreDistinct == Spec => []OneContextPerCall
<1>1. Init => OwnInv
  <2> SUFFICES ASSUME Init PROVE OwnInv
    OBVIOUS
  <2>1. DOMAIN mDcContexts = {1} /\ ril.pc = "idle"
    BY DEF Init, NewContexts, RilIdle
  <2> QED
    BY <2>1 DEF OwnInv, AddedCids, CidIsFree, OneContextPerCall
<1>2. OwnInv => OneContextPerCall
  BY DEF OwnInv
<1> QED
  BY <1>1, <1>2, OwnStep, TypeInvariant, PTL DEF Spec
-----------------------------------------------------------------------------
(***************************************************************************)
(* The forwarding rule follows the context, while host and daemon use one  *)
(* and the same cid.                                                       *)
(***************************************************************************)
\* A report is copied into the first context, whose state stays what it was
\* found to be until the report's is set.
CopyInv ==
    /\ ril.pc \in {"setCid", "setActivated", "setApn"} => ril.dc = 1
    /\ ril.pc \in {"setCid", "setActivated"} => mDcContexts[1].activated = ril.was

\* The state the route is still to be in.
Shown == IF ril.pc = "setApn" THEN ril.was ELSE mDcContexts[1].activated

RuleInv ==
    /\ ril.pc # "tether" =>
           routes.forward = leftover + (IF Shown /\ ~unopened THEN 1 ELSE 0)
    /\ ril.pc = "tether" /\ ril.event = "up" =>
           routes.forward = leftover /\ mDcContexts[1].activated
    /\ ril.pc = "tether" /\ ril.event = "down" => ~mDcContexts[1].activated

RouteInv == CopyInv /\ RuleInv

\* What neither activates the first context nor touches the rules.
LEMMA RouteQuiet ==
    ASSUME RouteInv, UNCHANGED <<routes, leftover, unopened>>,
           mDcContexts'[1].activated = mDcContexts[1].activated,
           \/ UNCHANGED ril
           \/ ril.pc \in {"idle", "update"} /\ ril'.pc \in {"idle", "update"}
    PROVE  RouteInv'
BY DEF RouteInv, CopyInv, RuleInv, Shown

\* With a single cid the call's context is the first, always.
LEMMA FoundFirst ==
    ASSUME NEW c, HostCids = {c}, RilCids = {c},
           TypeInv, NEW call \in ril.todo
    PROVE  {i \in DOMAIN mDcContexts : FirstMatch(i, call.cid)} = {1}
<1>1. /\ 1 \in DOMAIN mDcContexts /\ mDcContexts[1] \in DcContext
      /\ DOMAIN mDcContexts = 1 .. Len(mDcContexts) /\ Len(mDcContexts) \in Nat
  BY ContextTypes, LenProperties DEF TypeInv
<1>2. call.cid = c
  BY DEF TypeInv, TypeOK, ClientOK, RilThread, Call
<1>3. Matches(1, call.cid)
  BY <1>1, <1>2 DEF Matches, DcContext, Cid
<1> QED
  BY <1>1, <1>3 DEF FirstMatch

\* So the search changes nothing, and remembers the first context's state.
LEMMA FindsFirst ==
    ASSUME NEW c, HostCids = {c}, RilCids = {c},
           TypeInv, NEW call \in ril.todo, FindContext(call)
    PROVE  /\ ril.pc = "update" /\ ril'.pc = "setCid" /\ ril'.dc = 1
           /\ ril'.was = mDcContexts[1].activated /\ ril'.call = call
           /\ ril'.todo = ril.todo /\ ril'.reply = ril.reply
           /\ UNCHANGED <<mDcContexts, awaiting>>
<1>1. /\ {i \in DOMAIN mDcContexts : FirstMatch(i, call.cid)} = {1}
      /\ ril \in RilThread
  BY FoundFirst DEF TypeInv, TypeOK, ClientOK
<1>2. /\ ril' = [ril EXCEPT !.pc = "setCid", !.call = call, !.dc = 1,
                            !.was = mDcContexts[1].activated]
      /\ ril.pc = "update" /\ UNCHANGED <<mDcContexts, awaiting>>
  BY <1>1 DEF FindContext, Copying
<1> QED
  BY <1>1, <1>2 DEF RilThread

\* The rule is due when the context has changed, and only then.
LEMMA RouteReport ==
    ASSUME NEW c, HostCids = {c}, RilCids = {c},
           TypeInv, RouteInv, NEW call \in ril.todo, updateDcContextFromDataCall(call)
    PROVE  RouteInv'
<1>1. /\ 1 \in DOMAIN mDcContexts /\ mDcContexts[1] \in DcContext /\ ril \in RilThread
      /\ ril.todo \ {call} \in SUBSET Call /\ leftover \in Nat
  BY ContextTypes DEF TypeInv, TypeOK, ClientOK, RilThread
<1>2. UNCHANGED <<routes, leftover, unopened>>
  BY DEF updateDcContextFromDataCall, FindContext, SetCid, SetActivated, SetApn, Copying
<1>3. CASE FindContext(call)
  BY <1>2, <1>3, FindsFirst DEF RouteInv, CopyInv, RuleInv, Shown
<1>4. CASE SetCid(call)
  <2>1. /\ ril.pc = "setCid" /\ ril'.pc = "setActivated"
        /\ ril' = [ril EXCEPT !.pc = "setActivated"]
        /\ mDcContexts'[1].activated = mDcContexts[1].activated
    BY <1>1, <1>4, CidIsSet
  <2>2. ril'.dc = ril.dc /\ ril'.was = ril.was
    BY <1>1, <2>1 DEF RilThread
  <2> QED
    BY <1>2, <2>1, <2>2 DEF RouteInv, CopyInv, RuleInv, Shown
<1>5. CASE SetActivated(call)
  <2>1. /\ ril.pc = "setActivated" /\ ril'.pc = "setApn"
        /\ ril' = [ril EXCEPT !.pc = "setApn"]
    BY <1>5, ActivatedIsSet
  <2>2. ril'.dc = ril.dc /\ ril'.was = ril.was
    BY <1>1, <2>1 DEF RilThread
  <2> QED
    BY <1>2, <2>1, <2>2 DEF RouteInv, CopyInv, RuleInv, Shown
<1>6. CASE SetApn(call)
  <2>1. /\ ril.pc = "setApn" /\ ril.dc = 1
        /\ mDcContexts'[1].activated = mDcContexts[1].activated
    BY <1>1, <1>6, ApnIsSet DEF RouteInv, CopyInv
  <2>2. ril.was \in BOOLEAN /\ mDcContexts[1].activated \in BOOLEAN
    BY <1>1 DEF RilThread, DcContext
  <2>3. CASE /\ ril.was # mDcContexts[1].activated
             /\ ril'.pc = "tether" /\ ril'.event = IF ril.was THEN "down" ELSE "up"
    <3>1. \/ ril.was /\ ~mDcContexts[1].activated
          \/ ~ril.was /\ mDcContexts[1].activated
      BY <2>2, <2>3, Zenon
    <3>2. ril.was => ril'.event = "down"
      BY <2>3
    <3>3. ~ril.was => ril'.event = "up"
      BY <2>3
    <3>4. ~ril.was => routes.forward = leftover
      BY <1>1, <2>1 DEF RouteInv, RuleInv, Shown
    <3>5. mDcContexts'[1].activated <=> mDcContexts[1].activated
      BY <2>1
    <3> QED
      BY <1>2, <2>3, <3>1, <3>2, <3>3, <3>4, <3>5 DEF RouteInv, CopyInv, RuleInv
  <2>4. CASE /\ ril.was = mDcContexts[1].activated
             /\ Continues(ril.todo \ {call})
    <3>1. ril'.pc = "idle" \/ ril'.pc = "update"
      BY <1>1, <2>4, ContinuesAt
    <3> QED
      BY <1>2, <2>1, <2>4, <3>1 DEF RouteInv, CopyInv, RuleInv, Shown
  <2> QED
    BY <1>6, <2>1, <2>3, <2>4, ApnIsSet
<1> QED
  BY <1>3, <1>4, <1>5, <1>6 DEF updateDcContextFromDataCall

LEMMA RouteTethering ==
    ASSUME TypeInv, RouteInv, enableTethering \/ disableTethering
    PROVE  RouteInv'
<1>1. /\ Continues(ril.todo) /\ ril.pc = "tether" /\ UNCHANGED mDcContexts
      /\ ril.todo \in SUBSET Call /\ leftover \in Nat
  BY DEF enableTethering, disableTethering, smmVars, TypeInv, TypeOK, ClientOK, RilThread
<1>2. ril'.pc = "idle" \/ ril'.pc = "update"
  BY <1>1, ContinuesAt
<1>3. routes \in [forward : Nat, nat : Nat, ipForward : {"0", "1"}]
  BY DEF TypeInv, TypeOK, ClientOK
<1>4. CASE enableTethering
  <2>1. PICK forward \in 0 .. 1 :
           /\ \E nat \in 0 .. 1 :
                 routes' = [routes EXCEPT !.forward = @ + forward, !.nat = @ + nat]
           /\ unopened' = (forward = 0)
    BY <1>4 DEF enableTethering
  <2>2. PICK n : routes' = [routes EXCEPT !.forward = routes.forward + forward, !.nat = n]
    BY <2>1
  <2>3. routes'.forward = routes.forward + forward
    BY <1>3, <2>2
  <2>4. /\ routes.forward = leftover /\ mDcContexts[1].activated /\ leftover' = leftover
        /\ mDcContexts'[1].activated
    BY <1>1, <1>4 DEF enableTethering, RouteInv, RuleInv
  <2>5. unopened' <=> forward = 0
    BY <2>1, Zenon
  <2>6. routes'.forward = leftover' + (IF ~unopened' THEN 1 ELSE 0)
    BY <1>1, <2>3, <2>4, <2>5
  <2> QED
    BY <1>2, <2>4, <2>6 DEF RouteInv, CopyInv, RuleInv, Shown
<1>5. CASE disableTethering
  <2>1. ~mDcContexts'[1].activated
    BY <1>1, <1>5 DEF disableTethering, RouteInv, RuleInv
  <2>2. \/ routes'.forward = 0 /\ leftover' = 0
        \/ routes'.forward = routes.forward /\ leftover' = routes.forward
    BY <1>3, <1>5 DEF disableTethering
  <2>3. routes'.forward = leftover' + 0
    BY <1>3, <2>2
  <2> QED
    BY <1>2, <2>1, <2>3 DEF RouteInv, CopyInv, RuleInv, Shown
<1> QED
  BY <1>4, <1>5

LEMMA RouteStep ==
    ASSUME NEW c, HostCids = {c}, RilCids = {c}, TypeInv, RouteInv, [Next]_vars
    PROVE  RouteInv'
<1>1. CASE UNCHANGED vars
  BY <1>1, RouteQuiet DEF vars, smmVars, rilVars
<1>2. CASE AtStarts \/ AtContinues
  BY <1>2, AtWritesFirst, RouteQuiet DEF rilVars
<1>3. CASE \/ RilDaemon \/ Network \/ onIRilIndication \/ onInitialAttachSet
           \/ onNetworkSelected \/ onNwStateChanged \/ onDataCallReleased
  BY <1>3, OthersWriteNothing, RouteQuiet DEF rilVars
<1>4. CASE onRadioModeSet
  BY <1>4, RadioWritesFirst, RouteQuiet DEF rilVars
<1>5. CASE onDataCallSetup \/ onDataCallListChanged
  <2>1. UNCHANGED <<routes, leftover, unopened, mDcContexts>>
    BY <1>5 DEF onDataCallSetup, onDataCallListChanged, Delivers, smmVars
  <2> QED
    BY <1>5, <2>1, CallbackBegins, RouteQuiet
<1>6. CASE \E call \in ril.todo : updateDcContextFromDataCall(call)
  BY <1>6, RouteReport
<1>7. CASE Restart
  <2>1. /\ leftover' = routes.forward /\ UNCHANGED routes /\ ril'.pc = "idle"
        /\ ~mDcContexts'[1].activated
    BY <1>7 DEF Restart, NewContexts, NewContext, RilIdle
  <2>2. routes.forward \in Nat
    BY DEF TypeInv, TypeOK, ClientOK
  <2>3. routes'.forward = leftover' + 0
    BY <2>1, <2>2
  <2> QED
    BY <2>1, <2>3 DEF RouteInv, CopyInv, RuleInv, Shown
<1> QED
  BY <1>1, <1>2, <1>3, <1>4, <1>5, <1>6, <1>7, RouteTethering DEF Next, RilClient

LEMMA RouteInvariant ==
    ASSUME NEW c, HostCids = {c}, RilCids = {c}
    PROVE  Spec => []RouteInv
<1>1. Init => RouteInv
  <2> SUFFICES ASSUME Init PROVE RouteInv
    OBVIOUS
  <2>1. /\ routes.forward = 0 /\ leftover = 0 /\ ril.pc = "idle"
        /\ ~mDcContexts[1].activated
    BY DEF Init, NewContexts, NewContext, RilIdle
  <2> QED
    BY <2>1 DEF RouteInv, CopyInv, RuleInv, Shown
<1>2. TypeInv /\ RouteInv /\ [Next]_vars => RouteInv'
  BY RouteStep
<1> QED
  BY <1>1, <1>2, TypeInvariant, PTL DEF Spec

\* Between two callbacks the kernel has one forwarding rule for the activated
\* context and none for one that is not, besides those left by a failed flush
\* or by earlier processes, and but for one that could not be added: the
\* "network up" and "network down" events of updateDcContextFromDataCall
\* alternate, whatever rule or flush fails, whatever reports repeat or overtake
\* each other, whatever the host sets between the steps of a report and however
\* often the process is restarted.
THEOREM RouteFollowsContext ==
    ASSUME NEW c, HostCids = {c}, RilCids = {c}
    PROVE  Spec => []RouteMatchesContext
<1>1. RouteInv => RouteMatchesContext
  BY DEF RouteInv, RuleInv, Shown, RouteMatchesContext
<1> QED
  BY <1>1, RouteInvariant, PTL
=============================================================================
