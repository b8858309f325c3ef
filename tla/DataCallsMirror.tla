-------------------------- MODULE DataCallsMirror ---------------------------
(***************************************************************************)
(* What the reports of the daemon say, theorems for the case that host and *)
(* daemon use one and the same cid and the client's requests for the list  *)
(* are taken: the context is wrong about the call only while news of it    *)
(* are on their way, or, after a restart, in not knowing that it is up.    *)
(***************************************************************************)
EXTENDS DataCallsProofs

OneCid(c) == HostCids = {c} /\ RilCids = {c}

\* A report says that the call is up, or that it is down.
Says(calls)   == \E call \in calls : call.up
IsReport(msg) == msg.type \in {"setup", "list"} /\ msg.calls # {}

\* With one cid a report is about one call.
GoodMessage(msg) ==
    /\ \A a, b \in msg.calls : a = b
    /\ msg.type = "setup" /\ ~msg.ok => msg.calls = {}

\* So is what the client copies, and once its state is set the context has it.
Informed ==
    /\ \A i \in DOMAIN toSmm : GoodMessage(toSmm[i])
    /\ \A a, b \in ril.todo : a = b
    /\ ril.pc = "tether" => ril.todo = {}
    /\ ril.pc = "setApn" => \A call \in ril.todo : mDcContexts[1].activated <=> call.up
-----------------------------------------------------------------------------
(***************************************************************************)
(* Lemmas about queues.                                                    *)
(***************************************************************************)
LEMMA AppendIs ==
    ASSUME NEW S, NEW s \in Seq(S), NEW e \in S
    PROVE  /\ Len(s) \in Nat /\ DOMAIN s = 1 .. Len(s)
           /\ DOMAIN Append(s, e) = 1 .. Len(s) + 1
           /\ \A i \in 1 .. Len(s) : Append(s, e)[i] = s[i]
           /\ Append(s, e)[Len(s) + 1] = e
<1>1. Append(s, e) \in Seq(S) /\ Len(Append(s, e)) = Len(s) + 1
  BY AppendProperties
<1> QED
  BY <1>1, AppendProperties, LenProperties

LEMMA TailIs ==
    ASSUME NEW S, NEW s \in Seq(S), s # <<>>
    PROVE  /\ Len(s) \in Nat /\ Len(s) >= 1 /\ DOMAIN s = 1 .. Len(s)
           /\ Head(s) = s[1] /\ DOMAIN Tail(s) = 1 .. Len(s) - 1
           /\ \A i \in 1 .. Len(s) - 1 : Tail(s)[i] = s[i + 1]
<1>1. /\ Tail(s) \in Seq(S) /\ Head(s) = s[1] /\ 1 \in DOMAIN s
  BY HeadTailProperties, First
<1> QED
  BY <1>1, HeadTailProperties, LenProperties

\* The elements before the one taken out stay, those behind it move up.
LEMMA WithoutIs ==
    ASSUME NEW S, NEW s \in Seq(S), NEW n \in Nat, n = Len(s), NEW i \in 1 .. n
    PROVE  /\ DOMAIN Without(s, i) = 1 .. n - 1
           /\ \A k \in 1 .. i - 1 : Without(s, i)[k] = s[k]
           /\ \A k \in i .. n - 1 : Without(s, i)[k] = s[k + 1]
<1>1. \A k \in 1 .. n : s[k] \in S
  BY ElementOfSeq
<1>2. PICK p \in Int : p = i - 1
  OBVIOUS
<1>3. PICK m \in Int : m = i + 1
  OBVIOUS
<1>4. PICK a : a = SubSeq(s, 1, p)
  OBVIOUS
<1>5. PICK b : b = SubSeq(s, m, n)
  OBVIOUS
<1>6. a \in Seq(S) /\ Len(a) = p /\ \A k \in 1 .. p : a[k] = s[k]
  <2>1. \A k \in 1 .. p : s[k] \in S
    BY <1>1, <1>2
  <2>2. 0 <= p
    BY <1>2
  <2> QED
    BY <1>4, <2>1, <2>2, SubSeqProperties
<1>7. b \in Seq(S) /\ Len(b) = n - m + 1 /\ \A k \in 1 .. n - m + 1 : b[k] = s[m + k - 1]
  <2>1. \A k \in m .. n : s[k] \in S
    BY <1>1, <1>3
  <2>2. m <= n + 1
    BY <1>3
  <2> QED
    BY <1>5, <2>1, <2>2, SubSeqProperties
<1>8. PICK t : t = a \o b
  OBVIOUS
<1>9. /\ t \in Seq(S) /\ Len(t) = Len(a) + Len(b)
      /\ \A k \in 1 .. Len(a) + Len(b) : t[k] = IF k <= Len(a) THEN a[k] ELSE b[k - Len(a)]
  BY <1>6, <1>7, <1>8, ConcatProperties
<1>10. Len(a) + Len(b) = n - 1
  <2>1. Len(a) = p /\ Len(b) = n - m + 1
    BY <1>6, <1>7
  <2>2. p + (n - m + 1) = n - 1
    BY <1>2, <1>3
  <2> QED
    BY <2>1, <2>2
<1>11. DOMAIN t = 1 .. n - 1
  <2>1. DOMAIN t = 1 .. Len(t)
    BY <1>9, LenProperties
  <2> QED
    BY <1>9, <1>10, <2>1
<1>12. ASSUME NEW k \in 1 .. i - 1 PROVE t[k] = s[k]
  <2>1. k \in 1 .. p /\ k \in 1 .. n - 1 /\ k <= p
    BY <1>2
  <2> QED
    BY <1>6, <1>9, <1>10, <2>1
<1>13. ASSUME NEW k \in i .. n - 1 PROVE t[k] = s[k + 1]
  <2>1. PICK l \in Int : l = k - p
    BY <1>2
  <2>2. k \in 1 .. n - 1 /\ ~ (k <= p)
    BY <1>2
  <2>3. l \in 1 .. n - m + 1 /\ m + l - 1 = k + 1
    BY <1>2, <1>3, <2>1
  <2>4. t[k] = b[l]
    BY <1>6, <1>9, <1>10, <2>1, <2>2
  <2>5. b[l] = s[m + l - 1]
    BY <1>7, <2>3
  <2> QED
    BY <2>3, <2>4, <2>5
<1>14. t = Without(s, i)
  BY <1>2, <1>3, <1>4, <1>5, <1>8 DEF Without
<1> QED
  BY <1>11, <1>12, <1>13, <1>14

\* What is not taken out of a sequence is still in it.
LEMMA WithoutKeeps ==
    ASSUME NEW S, NEW s \in Seq(S), NEW i \in DOMAIN s, NEW j \in DOMAIN s, j # i
    PROVE  \E k \in DOMAIN Without(s, i) : Without(s, i)[k] = s[j]
<1>1. PICK n \in Nat : n = Len(s)
  BY LenProperties
<1>2. i \in 1 .. n /\ j \in 1 .. n
  BY <1>1, LenProperties
<1>3. /\ DOMAIN Without(s, i) = 1 .. n - 1
      /\ \A k \in 1 .. i - 1 : Without(s, i)[k] = s[k]
      /\ \A k \in i .. n - 1 : Without(s, i)[k] = s[k + 1]
  BY <1>1, <1>2, WithoutIs
<1>4. CASE j < i
  <2>1. j \in 1 .. i - 1 /\ j \in 1 .. n - 1
    BY <1>2, <1>4
  <2> QED
    BY <1>3, <2>1
<1>5. CASE i < j
  <2>1. PICK k \in Int : k = j - 1
    BY <1>2
  <2>2. k \in i .. n - 1 /\ k \in 1 .. n - 1 /\ k + 1 = j
    BY <1>2, <1>5, <2>1
  <2> QED
    BY <1>3, <2>2
<1> QED
  BY <1>2, <1>4, <1>5
-----------------------------------------------------------------------------
(***************************************************************************)
(* What is reported, and what becomes of it.                               *)
(***************************************************************************)
LEMMA GoodTail ==
    ASSUME TypeInv, Informed, toSmm # <<>>, toSmm' = Tail(toSmm)
    PROVE  /\ \A i \in DOMAIN toSmm' : GoodMessage(toSmm'[i])
           /\ GoodMessage(Head(toSmm)) /\ Head(toSmm) \in RilMessage
<1>1. toSmm \in Seq(RilMessage)
  BY DEF TypeInv, TypeOK, WiresOK
<1>2. /\ Len(toSmm) \in Nat /\ Len(toSmm) >= 1 /\ DOMAIN toSmm = 1 .. Len(toSmm)
      /\ Head(toSmm) = toSmm[1] /\ DOMAIN Tail(toSmm) = 1 .. Len(toSmm) - 1
      /\ \A i \in 1 .. Len(toSmm) - 1 : Tail(toSmm)[i] = toSmm[i + 1]
      /\ Head(toSmm) \in RilMessage
  BY <1>1, TailIs, Queue
<1>3. \A i \in 1 .. Len(toSmm) : GoodMessage(toSmm[i])
  BY <1>2 DEF Informed
<1>4. ASSUME NEW i \in DOMAIN toSmm' PROVE GoodMessage(toSmm'[i])
  <2>1. i + 1 \in 1 .. Len(toSmm) /\ toSmm'[i] = toSmm[i + 1]
    BY <1>2, <1>4
  <2> QED
    BY <1>3, <2>1
<1> QED
  BY <1>2, <1>3, <1>4

LEMMA GoodAppend ==
    ASSUME TypeInv, Informed, NEW msg \in RilMessage, GoodMessage(msg),
           toSmm' = Append(toSmm, msg)
    PROVE  \A i \in DOMAIN toSmm' : GoodMessage(toSmm'[i])
<1>1. toSmm \in Seq(RilMessage)
  BY DEF TypeInv, TypeOK, WiresOK
<1>2. /\ Len(toSmm) \in Nat /\ DOMAIN toSmm = 1 .. Len(toSmm)
      /\ DOMAIN toSmm' = 1 .. Len(toSmm) + 1
      /\ \A i \in 1 .. Len(toSmm) : toSmm'[i] = toSmm[i]
      /\ toSmm'[Len(toSmm) + 1] = msg
  BY <1>1, AppendIs
<1>3. \A i \in 1 .. Len(toSmm) : GoodMessage(toSmm[i])
  BY <1>2 DEF Informed
<1> SUFFICES ASSUME NEW i \in DOMAIN toSmm' PROVE GoodMessage(toSmm'[i])
  OBVIOUS
<1>4. i \in 1 .. Len(toSmm) \/ i = Len(toSmm) + 1
  BY <1>2
<1>5. CASE i \in 1 .. Len(toSmm)
  BY <1>2, <1>3, <1>5
<1>6. CASE i = Len(toSmm) + 1
  BY <1>2, <1>6
<1> QED
  BY <1>4, <1>5, <1>6

\* Every message the daemon sends is good, and an answer to a list request says
\* what is true.
LEMMA MessagesAreGood ==
    ASSUME NEW c, OneCid(c), TypeInv
    PROVE  /\ \A type, ok, reg : type # "setup" => GoodMessage(Message(type, ok, {}, reg))
           /\ \A reg : GoodMessage(Message("setup", FALSE, {}, reg))
           /\ \A call, reg : GoodMessage(Message("setup", TRUE, {call}, reg))
           /\ \A reg : GoodMessage(Message("list", TRUE, KnownCalls, reg))
           /\ KnownCalls = IF links[c] = "none" THEN {}
                           ELSE {[cid |-> c, up |-> links[c] = "up"]}
<1>1. KnownCalls = IF links[c] = "none" THEN {} ELSE {[cid |-> c, up |-> links[c] = "up"]}
  <2>1. {d \in RilCids : links[d] # "none"} = IF links[c] = "none" THEN {} ELSE {c}
    BY DEF OneCid
  <2> QED
    BY <2>1, Zenon DEF KnownCalls
<1>2. \A a, b \in KnownCalls : a = b
  BY <1>1, Zenon
<1>3. ASSUME NEW type, NEW ok, NEW calls, NEW reg, \A x, y \in calls : x = y,
             type = "setup" /\ ~ok => calls = {}
      PROVE  GoodMessage(Message(type, ok, calls, reg))
  BY <1>3 DEF GoodMessage, Message
<1>4. ASSUME NEW type, NEW ok, NEW reg, type # "setup"
      PROVE  GoodMessage(Message(type, ok, {}, reg))
  BY <1>3, <1>4
<1>5. \A reg : GoodMessage(Message("setup", FALSE, {}, reg))
  BY <1>3
<1>6. \A call, reg : GoodMessage(Message("setup", TRUE, {call}, reg))
  BY <1>3
<1>7. \A reg : GoodMessage(Message("list", TRUE, KnownCalls, reg))
  BY <1>2, <1>3
<1> QED
  BY <1>1, <1>4, <1>5, <1>6, <1>7

\* Two elements at the end.
LEMMA ConcatTwo ==
    ASSUME NEW S, NEW s \in Seq(S), NEW a \in S, NEW b \in S
    PROVE  /\ Len(s) \in Nat /\ DOMAIN s = 1 .. Len(s)
           /\ DOMAIN (s \o <<a, b>>) = 1 .. Len(s) + 2
           /\ \A i \in 1 .. Len(s) : (s \o <<a, b>>)[i] = s[i]
           /\ (s \o <<a, b>>)[Len(s) + 1] = a /\ (s \o <<a, b>>)[Len(s) + 2] = b
<1> DEFINE t == <<a, b>>
<1>1. t \in Seq(S) /\ Len(t) = 2 /\ t[1] = a /\ t[2] = b
  OBVIOUS
<1> HIDE DEF t
<1>2. /\ s \o t \in Seq(S) /\ Len(s) \in Nat /\ DOMAIN s = 1 .. Len(s)
      /\ DOMAIN (s \o t) = 1 .. Len(s) + 2
      /\ \A i \in 1 .. Len(s) + 2 : (s \o t)[i] = IF i <= Len(s) THEN s[i] ELSE t[i - Len(s)]
  <2>1. /\ s \o t \in Seq(S) /\ Len(s \o t) = Len(s) + Len(t)
        /\ \A i \in 1 .. Len(s) + Len(t) :
              (s \o t)[i] = IF i <= Len(s) THEN s[i] ELSE t[i - Len(s)]
    BY <1>1, ConcatProperties
  <2>2. Len(s) \in Nat /\ DOMAIN s = 1 .. Len(s)
    BY LenProperties
  <2>3. DOMAIN (s \o t) = 1 .. Len(s \o t)
    BY <2>1, LenProperties
  <2> QED
    BY <1>1, <2>1, <2>2, <2>3
<1>3. (s \o t)[Len(s) + 1] = a /\ (s \o t)[Len(s) + 2] = b
  BY <1>1, <1>2
<1>4. \A i \in 1 .. Len(s) : (s \o t)[i] = s[i]
  BY <1>2
<1> QED
  BY <1>2, <1>3, <1>4 DEF t

\* The daemon and the network send good messages only.
LEMMA NewsIsGood ==
    ASSUME NEW c, OneCid(c), TypeInv, Informed, RilDaemon \/ Network
    PROVE  \A i \in DOMAIN toSmm' : GoodMessage(toSmm'[i])
<1> DEFINE Goal == \A i \in DOMAIN toSmm' : GoodMessage(toSmm'[i])
<1>1. \A msg \in RilMessage : GoodMessage(msg) /\ toSmm' = Append(toSmm, msg) => Goal
  BY GoodAppend
<1>2. /\ {} \in SUBSET Call /\ KnownCalls \in SUBSET Call
      /\ \A call \in Call : {call} \in SUBSET Call
  <2>1. /\ c \in RilCids /\ (links[c] = "up") \in BOOLEAN
    BY DEF OneCid
  <2>2. [cid |-> c, up |-> links[c] = "up"] \in Call
    BY <2>1 DEF Call
  <2>3. KnownCalls = IF links[c] = "none" THEN {}
                     ELSE {[cid |-> c, up |-> links[c] = "up"]}
    BY MessagesAreGood
  <2>4. KnownCalls \in SUBSET Call
    BY <2>2, <2>3, Zenon
  <2> QED
    BY <2>4 DEF Call
<1>3. {"setup", "released", "callInd", "regInd", "list", "status", "radio", "attach", "select"}
         \subseteq MessageType
  BY DEF MessageType
<1>4. registered \in Registration /\ "none" \in Registration
  BY DEF TypeInv, TypeOK, WorldOK, Registration
<1>5. ASSUME NEW type \in MessageType, NEW ok \in BOOLEAN, NEW calls \in SUBSET Call,
             NEW reg \in Registration, GoodMessage(Message(type, ok, calls, reg)),
             toSmm' = Append(toSmm, Message(type, ok, calls, reg))
      PROVE  Goal
  BY <1>1, <1>5, MessageTypes
<1> HIDE DEF Goal
<1>6. ASSUME NEW i \in DOMAIN toRil, RilSetsUp(i) PROVE Goal
  <2>1. ASSUME NEW d \in RilCids, NEW up \in BOOLEAN,
               RilAnswers(i, "setup", Message("setup", TRUE, {[cid |-> d, up |-> up]}, "none"))
        PROVE  Goal
    <3>1. PICK call : call = [cid |-> d, up |-> up]
      OBVIOUS
    <3>2. call \in Call /\ toSmm' = Append(toSmm, Message("setup", TRUE, {call}, "none"))
      BY <2>1, <3>1 DEF Call, RilAnswers
    <3>3. {call} \in SUBSET Call /\ GoodMessage(Message("setup", TRUE, {call}, "none"))
      BY <1>2, <3>2, MessagesAreGood
    <3>4. PICK calls \in SUBSET Call : calls = {call}
      BY <3>3
    <3>5. /\ toSmm' = Append(toSmm, Message("setup", TRUE, calls, "none"))
          /\ GoodMessage(Message("setup", TRUE, calls, "none"))
      BY <3>2, <3>3, <3>4
    <3> QED
      BY <1>3, <1>4, <1>5, <3>5
  <2>2. ASSUME RilAnswers(i, "setup", Message("setup", FALSE, {}, "none"))
        PROVE  Goal
    <3>1. toSmm' = Append(toSmm, Message("setup", FALSE, {}, "none"))
      BY <2>2 DEF RilAnswers
    <3>2. GoodMessage(Message("setup", FALSE, {}, "none"))
      BY MessagesAreGood
    <3>3. FALSE \in BOOLEAN /\ "setup" \in MessageType
      BY <1>3
    <3> QED
      BY <1>2, <1>4, <1>5, <3>1, <3>2, <3>3, Zenon
  <2> QED
    BY <1>6, <2>1, <2>2 DEF RilSetsUp
<1>7. ASSUME NEW i \in DOMAIN toRil, RilDeactivates(i) PROVE Goal
  <2>1. CASE toSmm' = Append(toSmm, Message("released", FALSE, {}, "none"))
    <3>1. GoodMessage(Message("released", FALSE, {}, "none"))
      BY MessagesAreGood
    <3>2. FALSE \in BOOLEAN /\ "released" \in MessageType
      BY <1>3
    <3> QED
      BY <1>2, <1>4, <1>5, <2>1, <3>1, <3>2, Zenon
  <2>2. CASE toSmm' = toSmm \o <<Message("released", TRUE, {}, "none"), CallsChanged>>
    <3>1. PICK a, b : /\ a = Message("released", TRUE, {}, "none") /\ b = CallsChanged
      OBVIOUS
    <3>2. /\ a \in RilMessage /\ GoodMessage(a)
          /\ b \in RilMessage /\ GoodMessage(b)
      BY <1>2, <1>3, <1>4, <3>1, MessageTypes, MessagesAreGood DEF CallsChanged
    <3>3. toSmm \in Seq(RilMessage) /\ toSmm' = toSmm \o <<a, b>>
      BY <2>2, <3>1 DEF TypeInv, TypeOK, WiresOK
    <3>4. /\ Len(toSmm) \in Nat /\ DOMAIN toSmm = 1 .. Len(toSmm)
          /\ DOMAIN toSmm' = 1 .. Len(toSmm) + 2
          /\ \A j \in 1 .. Len(toSmm) : toSmm'[j] = toSmm[j]
          /\ toSmm'[Len(toSmm) + 1] = a /\ toSmm'[Len(toSmm) + 2] = b
      BY <3>2, <3>3, ConcatTwo
    <3>5. \A j \in 1 .. Len(toSmm) : GoodMessage(toSmm[j])
      BY <3>4 DEF Informed
    <3>6. ASSUME NEW j \in 1 .. Len(toSmm) + 2 PROVE GoodMessage(toSmm'[j])
      <4>1. j \in 1 .. Len(toSmm) \/ j = Len(toSmm) + 1 \/ j = Len(toSmm) + 2
        BY <3>4
      <4> QED
        BY <3>2, <3>4, <3>5, <4>1
    <3> QED
      BY <3>4, <3>6 DEF Goal
  <2> QED
    BY <1>7, <2>1, <2>2 DEF RilDeactivates, RilAnswers
<1>8. ASSUME NEW i \in DOMAIN toRil, RilLists(i) PROVE Goal
  BY <1>2, <1>3, <1>4, <1>5, <1>8, MessagesAreGood, ZenonT(60) DEF RilLists, RilAnswers
<1>9. ASSUME NEW i \in DOMAIN toRil, RilReportsStatus(i) PROVE Goal
  <2>1. PICK ok \in BOOLEAN : toSmm' = Append(toSmm, Message("status", ok, {}, registered))
    BY <1>9 DEF RilReportsStatus, RilAnswers
  <2> QED
    BY <1>2, <1>3, <1>4, <1>5, <2>1, MessagesAreGood, ZenonT(60)
<1>10. ASSUME NEW i \in DOMAIN toRil, RilStartsUp(i) PROVE Goal
  <2>1. PICK type \in {"radio", "attach", "select"}, ok \in BOOLEAN :
           toSmm' = Append(toSmm, Message(type, ok, {}, "none"))
    BY <1>10 DEF RilStartsUp, RilAnswers
  <2>2. type \in MessageType /\ type # "setup"
    BY <1>3
  <2> QED
    BY <1>2, <1>4, <1>5, <2>1, <2>2, MessagesAreGood, ZenonT(60)
<1>11. ASSUME NEW d \in RilCids, CallChanges(d) PROVE Goal
  BY <1>2, <1>3, <1>4, <1>5, <1>11, MessagesAreGood, ZenonT(60) DEF CallChanges, CallsChanged
<1>12. ASSUME NEW reg \in {"none", "LTE", "IWLAN"}, RegistrationChanges(reg) PROVE Goal
  <2>1. GoodMessage(Message("regInd", TRUE, {}, "none"))
    BY MessagesAreGood
  <2> QED
    BY <1>2, <1>3, <1>4, <1>5, <1>12, <2>1 DEF RegistrationChanges
<1>13. Goal
  BY <1>6, <1>7, <1>8, <1>9, <1>10, <1>11, <1>12 DEF RilDaemon, Network
<1> QED
  BY <1>13 DEF Goal

\* With one cid a report's only call is copied to the first context: its state
\* is set in one of the steps, and the last step ends the callback or goes on to
\* the shell commands.
LEMMA UpdateIs ==
    ASSUME NEW c, OneCid(c), TypeInv, RouteInv, Informed,
           NEW call \in ril.todo, updateDcContextFromDataCall(call)
    PROVE  /\ ril.todo = {call} /\ Updating /\ UNCHANGED <<toRil, toSmm, world>>
           /\ \/ /\ ril'.pc \in {"setCid", "setActivated"}
                 /\ ril'.todo = ril.todo /\ ril'.reply = ril.reply /\ UNCHANGED awaiting
                 /\ mDcContexts'[1].activated = mDcContexts[1].activated
              \/ /\ ril'.pc = "setApn"
                 /\ ril'.todo = ril.todo /\ ril'.reply = ril.reply /\ UNCHANGED awaiting
                 /\ mDcContexts'[1].activated <=> call.up
              \/ /\ ril.pc = "setApn" /\ ril'.todo = {}
                 /\ mDcContexts'[1].activated = mDcContexts[1].activated
                 /\ \/ ril'.pc = "idle" /\ Continues({})
                    \/ ril'.pc = "tether" /\ ril'.reply = ril.reply /\ UNCHANGED awaiting
<1>1. /\ 1 \in DOMAIN mDcContexts /\ ril \in RilThread
      /\ HostCids = {c} /\ RilCids = {c}
  BY ContextTypes DEF TypeInv, TypeOK, ClientOK, OneCid
<1>2. /\ ril.todo = {call} /\ ril.todo \ {call} = {}
  BY DEF Informed
<1>3. UNCHANGED <<toRil, toSmm, world>>
  BY DEF updateDcContextFromDataCall, FindContext, SetCid, SetActivated, SetApn, Copying,
         wires
<1>4. CASE FindContext(call)
  <2>1. /\ ril.pc = "update" /\ ril'.pc = "setCid" /\ ril'.todo = ril.todo
        /\ ril'.reply = ril.reply /\ UNCHANGED <<mDcContexts, awaiting>>
    BY <1>1, <1>4, FindsFirst
  <2> QED
    BY <1>2, <1>3, <2>1 DEF Updating
<1>5. CASE SetCid(call)
  <2>1. /\ ril.pc = "setCid" /\ ril'.pc = "setActivated"
        /\ ril' = [ril EXCEPT !.pc = "setActivated"]
        /\ mDcContexts'[1].activated = mDcContexts[1].activated
    BY <1>1, <1>5, CidIsSet
  <2>2. ril'.todo = ril.todo /\ ril'.reply = ril.reply /\ UNCHANGED awaiting
    BY <1>1, <1>5, <2>1 DEF RilThread, SetCid
  <2> QED
    BY <1>2, <1>3, <2>1, <2>2 DEF Updating
<1>6. CASE SetActivated(call)
  <2>1. /\ ril.pc = "setActivated" /\ ril'.pc = "setApn"
        /\ ril' = [ril EXCEPT !.pc = "setApn"]
        /\ mDcContexts'[1].activated = IF 1 = ril.dc THEN call.up
                                       ELSE mDcContexts[1].activated
    BY <1>1, <1>6, ActivatedIsSet
  <2>2. ril'.todo = ril.todo /\ ril'.reply = ril.reply /\ UNCHANGED awaiting
    BY <1>1, <1>6, <2>1 DEF RilThread, SetActivated
  <2>3. mDcContexts'[1].activated <=> call.up
    BY <2>1 DEF RouteInv, CopyInv
  <2> QED
    BY <1>2, <1>3, <2>1, <2>2, <2>3 DEF Updating
<1>7. CASE SetApn(call)
  <2>1. /\ ril.pc = "setApn"
        /\ mDcContexts'[1].activated = mDcContexts[1].activated
        /\ \/ /\ ril'.pc = "tether" /\ ril'.todo = ril.todo \ {call}
              /\ ril'.reply = ril.reply /\ UNCHANGED awaiting
           \/ Continues(ril.todo \ {call})
    BY <1>1, <1>7, ApnIsSet
  <2>2. CASE Continues(ril.todo \ {call})
    <3>1. Continues({}) /\ {} \in SUBSET Call
      BY <1>2, <2>2
    <3>2. ril'.pc = "idle" /\ ril'.todo = {}
      BY <3>1 DEF Continues, RilIdle
    <3> QED
      BY <1>2, <1>3, <2>1, <3>1, <3>2 DEF Updating
  <2> QED
    BY <1>2, <1>3, <2>1, <2>2 DEF Updating
<1> QED
  BY <1>4, <1>5, <1>6, <1>7 DEF updateDcContextFromDataCall

\* The shell commands are the end of the callback.
LEMMA TetheringIs ==
    ASSUME TypeInv, Informed, enableTethering \/ disableTethering
    PROVE  /\ ril.pc = "tether" /\ ril'.pc = "idle" /\ ril'.todo = {} /\ Continues({})
           /\ UNCHANGED <<mDcContexts, toRil, toSmm, world>>
<1>1. /\ Continues(ril.todo) /\ ril.pc = "tether" /\ ril.todo = {}
      /\ UNCHANGED <<mDcContexts, toRil, toSmm, world>>
  BY DEF enableTethering, disableTethering, smmVars, wires, Informed
<1> QED
  BY <1>1 DEF Continues, RilIdle

\* What a report finds in hand: nothing; and it is in hand if it has a call.
LEMMA ReportIs ==
    ASSUME TypeInv, Informed, onDataCallSetup \/ onDataCallListChanged
    PROVE  /\ ril.pc = "idle" /\ toSmm # <<>> /\ toSmm' = Tail(toSmm)
           /\ UNCHANGED <<mDcContexts, toRil, world>>
           /\ IF IsReport(Head(toSmm))
              THEN /\ ril'.pc = "update" /\ ril'.todo = Head(toSmm).calls
                   /\ ril'.reply => Head(toSmm).type = "setup" /\ Head(toSmm).ok
              ELSE (ril'.pc = "idle" /\ ril'.todo = {}) \/ UNCHANGED ril
<1>1. /\ ril.pc = "idle" /\ toSmm # <<>> /\ toSmm' = Tail(toSmm)
      /\ UNCHANGED <<mDcContexts, toRil, world>>
  BY DEF onDataCallSetup, onDataCallListChanged, Delivers, smmVars
<1>2. GoodMessage(Head(toSmm)) /\ Head(toSmm) \in RilMessage
  BY <1>1, GoodTail
<1>5. PICK calls \in SUBSET Call : calls = Head(toSmm).calls
  BY <1>2 DEF RilMessage
<1>6. \A reply \in BOOLEAN :
         /\ Copies(calls, reply).pc = "update" /\ Copies(calls, reply).todo = calls
         /\ Copies(calls, reply).reply = reply
  BY CopiesType
<1>3. CASE onDataCallSetup
  <2>1. Head(toSmm).type = "setup" /\ (Head(toSmm).ok => Head(toSmm).calls # {})
    BY <1>1, <1>3, SetupsTail DEF onDataCallSetup, Delivers
  <2>2. CASE Head(toSmm).ok
    <3>1. ril' = Copies(calls, TRUE)
      BY <1>3, <1>5, <2>2 DEF onDataCallSetup
    <3> QED
      BY <1>1, <1>5, <1>6, <2>1, <2>2, <3>1 DEF IsReport
  <2>3. CASE ~Head(toSmm).ok
    BY <1>1, <1>2, <1>3, <2>1, <2>3 DEF onDataCallSetup, IsReport, GoodMessage
  <2> QED
    BY <2>2, <2>3
<1>4. CASE onDataCallListChanged
  <2>1. Head(toSmm).type = "list"
    BY <1>4 DEF onDataCallListChanged, Delivers
  <2>2. CASE calls = {}
    BY <1>1, <1>4, <1>5, <2>2 DEF onDataCallListChanged, IsReport, RilIdle
  <2>3. CASE calls # {}
    <3>1. ril' = Copies(calls, FALSE)
      BY <1>4, <1>5, <2>3 DEF onDataCallListChanged
    <3>2. ril'.pc = "update" /\ ril'.todo = calls /\ ril'.reply = FALSE
      BY <1>6, <3>1
    <3> QED
      BY <1>1, <1>5, <2>1, <2>3, <3>2 DEF IsReport
  <2> QED
    BY <2>2, <2>3
<1> QED
  BY <1>3, <1>4

\* The callbacks that are not about calls.
OtherCallbacks ==
    \/ onIRilIndication \/ onRadioModeSet \/ onInitialAttachSet \/ onNetworkSelected
    \/ onNwStateChanged \/ onDataCallReleased

LEMMA OtherCallbackIs ==
    ASSUME TypeInv, OtherCallbacks
    PROVE  /\ ril.pc = "idle" /\ toSmm # <<>> /\ toSmm' = Tail(toSmm)
           /\ UNCHANGED <<ril, world>>
           /\ Head(toSmm).type \notin {"setup", "list"}
           /\ mDcContexts'[1].activated = mDcContexts[1].activated
<1>1. /\ ril.pc = "idle" /\ toSmm # <<>> /\ toSmm' = Tail(toSmm)
      /\ UNCHANGED <<ril, world>> /\ Head(toSmm).type \notin {"setup", "list"}
  BY DEF OtherCallbacks, onIRilIndication, onRadioModeSet, onInitialAttachSet,
         onNetworkSelected, onNwStateChanged, onDataCallReleased, Delivers
<1>2. mDcContexts'[1].activated = mDcContexts[1].activated
  BY RadioWritesFirst, OthersWriteNothing DEF OtherCallbacks
<1> QED
  BY <1>1, <1>2

LEMMA DaemonActivatesNothing ==
    ASSUME RilDaemon \/ Network
    PROVE  UNCHANGED <<mDcContexts, ril>>
BY OthersWriteNothing DEF rilVars

\* The steps there are.
LEMMA Steps ==
    ASSUME Next
    PROVE  \/ AtStarts \/ AtContinues
           \/ RilDaemon \/ Network
           \/ OtherCallbacks
           \/ onDataCallSetup \/ onDataCallListChanged
           \/ \E call \in ril.todo : updateDcContextFromDataCall(call)
           \/ enableTethering \/ disableTethering
           \/ Restart
BY DEF Next, RilClient, OtherCallbacks

LEMMA RestartsAlone ==
    ASSUME [Next]_vars, ~Restart
    PROVE  UNCHANGED restarts
BY DEF Next, AtStarts, AtContinues, QueryLoads, CgdcontLoad, XgauthLoad, HostCommands,
       CgactWrite, CgdcontSet, XgauthSet, StoreAndAnswer, RilDaemon, RilSetsUp,
       RilDeactivates, RilLists, RilReportsStatus, RilStartsUp, RilAnswers, Network,
       CallChanges, RegistrationChanges, RilClient, onIRilIndication, onRadioModeSet,
       onInitialAttachSet, onNetworkSelected, onNwStateChanged, onDataCallSetup,
       onDataCallReleased, onDataCallListChanged, updateDcContextFromDataCall,
       FindContext, SetCid, SetActivated, SetApn, Copying, enableTethering,
       disableTethering, Delivers, counters, vars

LEMMA NoRestart ==
    ASSUME TypeInv, MaxRestarts = 0
    PROVE  ~Restart
BY DEF Restart, TypeInv, TypeOK, CountersOK

\* A new process has a new context, and no callback and no report.
LEMMA RestartIs ==
    ASSUME Restart
    PROVE  /\ mDcContexts'[1].activated = FALSE
           /\ ril'.pc = "idle" /\ ril'.todo = {} /\ ril'.reply = FALSE
           /\ DOMAIN toSmm' = {} /\ toRil' = <<Request("radio", NoCid)>>
           /\ UNCHANGED world /\ awaiting' = FALSE
<1>1. /\ mDcContexts' = <<NewContext>> /\ ril' = RilIdle /\ toSmm' = <<>>
      /\ toRil' = <<Request("radio", NoCid)>> /\ awaiting' = FALSE
      /\ UNCHANGED world
  BY DEF Restart, NewContexts
<1>2. NewContext.activated = FALSE
  BY DEF NewContext
<1>3. RilIdle.pc = "idle" /\ RilIdle.todo = {} /\ RilIdle.reply = FALSE
  BY DEF RilIdle
<1>4. DOMAIN toSmm' = {}
  BY <1>1
<1> QED
  BY <1>1, <1>2, <1>3, <1>4

ActivatedOK == mDcContexts[1].activated \in BOOLEAN

LEMMA ActivatedType == (TypeInv => ActivatedOK) /\ (TypeInv' => ActivatedOK')
<1>1. TypeInv => ActivatedOK
  BY ContextTypes DEF TypeInv, DcContext, ActivatedOK
<1> QED
  BY <1>1, PTL

LEMMA InformedStep ==
    ASSUME NEW c, OneCid(c), TypeInv, RouteInv, Informed, [Next]_vars
    PROVE  Informed'
<1>q. ASSUME UNCHANGED ril, mDcContexts'[1].activated = mDcContexts[1].activated,
             \A i \in DOMAIN toSmm' : GoodMessage(toSmm'[i])
      PROVE  Informed'
  BY <1>q DEF Informed
<1>1. CASE UNCHANGED vars
  BY <1>1, <1>q DEF vars, smmVars, rilVars, wires, Informed
<1>2. CASE AtStarts \/ AtContinues
  BY <1>2, <1>q, AtWritesFirst DEF rilVars, Informed
<1>3. CASE RilDaemon \/ Network
  BY <1>3, <1>q, NewsIsGood, DaemonActivatesNothing
<1>4. CASE OtherCallbacks
  BY <1>4, <1>q, OtherCallbackIs, GoodTail
<1>5. CASE onDataCallSetup \/ onDataCallListChanged
  <2>1. /\ ril.pc = "idle" /\ toSmm # <<>> /\ toSmm' = Tail(toSmm)
        /\ UNCHANGED mDcContexts
        /\ IF IsReport(Head(toSmm))
           THEN ril'.pc = "update" /\ ril'.todo = Head(toSmm).calls
           ELSE (ril'.pc = "idle" /\ ril'.todo = {}) \/ UNCHANGED ril
    BY <1>5, ReportIs
  <2>2. GoodMessage(Head(toSmm)) /\ \A i \in DOMAIN toSmm' : GoodMessage(toSmm'[i])
    BY <2>1, GoodTail
  <2>3. CASE IsReport(Head(toSmm))
    BY <2>1, <2>2, <2>3 DEF Informed, GoodMessage
  <2>4. CASE ~IsReport(Head(toSmm))
    BY <2>1, <2>2, <2>4 DEF Informed
  <2> QED
    BY <2>3, <2>4
<1>6. ASSUME NEW call \in ril.todo, updateDcContextFromDataCall(call)
      PROVE  Informed'
  <2>1. /\ ril.todo = {call} /\ UNCHANGED toSmm
        /\ \/ ril'.pc \in {"setCid", "setActivated"} /\ ril'.todo = ril.todo
           \/ /\ ril'.pc = "setApn" /\ ril'.todo = ril.todo
              /\ mDcContexts'[1].activated <=> call.up
           \/ ril'.pc \in {"idle", "tether"} /\ ril'.todo = {}
    BY <1>6, UpdateIs
  <2> QED
    BY <2>1 DEF Informed
<1>7. CASE enableTethering \/ disableTethering
  BY <1>7, TetheringIs DEF Informed
<1>8. CASE Restart
  BY <1>8, RestartIs DEF Informed
<1> QED
  BY <1>1, <1>2, <1>3, <1>4, <1>5, <1>6, <1>7, <1>8, Steps

LEMMA InformedInit == Init => Informed
<1> SUFFICES ASSUME Init PROVE Informed
  OBVIOUS
<1>1. ril.pc = "idle" /\ ril.todo = {}
  BY DEF Init, RilIdle
<1>2. DOMAIN toSmm = {}
  BY DEF Init
<1> QED
  BY <1>1, <1>2 DEF Informed
-----------------------------------------------------------------------------
(***************************************************************************)
(* The context is wrong only while news are on their way.  Either the list *)
(* has been asked for, or the daemon has given notice, or the last report  *)
(* under way (if none is, the one being applied, if none is, the context)  *)
(* says what is true: exactly, until the process is restarted; afterwards  *)
(* only that what it says is up is up.                                     *)
(***************************************************************************)
Asked(requests)  == \E i \in DOMAIN requests : requests[i].type = "list"
Heralded(queue)  == \E i \in DOMAIN queue : queue[i].type = "callInd"
Reporting(queue) == \E i \in DOMAIN queue : IsReport(queue[i])

LastReport(queue, i) ==
    IsReport(queue[i]) /\ \A j \in DOMAIN queue : j > i => ~IsReport(queue[j])

Fits(said, up, exact) == (said => up) /\ (exact /\ up => said)

LastSays(queue, up, exact) ==
    \A i \in DOMAIN queue : LastReport(queue, i) => Fits(Says(queue[i].calls), up, exact)

InHand(up, exact) ==
    Fits(IF Updating THEN Says(ril.todo) ELSE mDcContexts[1].activated, up, exact)

Agrees(up, exact) == LastSays(toSmm, up, exact) /\ (Reporting(toSmm) \/ InHand(up, exact))
News       == Asked(toRil) \/ Heralded(toSmm)

\* Of a call that never was there is no report, and no trace.
NeverYet(c) ==
    links[c] = "none" => ~Reporting(toSmm) /\ ~Updating /\ ~mDcContexts[1].activated

Up(c) == links[c] = "up"

MirrorInv(c, exact) == NeverYet(c) /\ (News \/ Agrees(Up(c), exact))

\* A message behind the others.
LEMMA OtherAppended ==
    ASSUME NEW q \in Seq(RilMessage), NEW msg \in RilMessage, ~IsReport(msg)
    PROVE  /\ Reporting(Append(q, msg)) <=> Reporting(q)
           /\ Heralded(q) \/ msg.type = "callInd" => Heralded(Append(q, msg))
           /\ \A up, exact \in BOOLEAN :
                 LastSays(q, up, exact) => LastSays(Append(q, msg), up, exact)
<1> DEFINE r == Append(q, msg)
<1>1. /\ Len(q) \in Nat /\ DOMAIN q = 1 .. Len(q) /\ DOMAIN r = 1 .. Len(q) + 1
      /\ \A i \in 1 .. Len(q) : r[i] = q[i]
      /\ r[Len(q) + 1] = msg
  BY AppendIs
<1> HIDE DEF r
<1>2. \A i \in DOMAIN r : IsReport(r[i]) => i \in DOMAIN q /\ r[i] = q[i]
  BY <1>1
<1>3. Reporting(r) <=> Reporting(q)
  BY <1>1, <1>2 DEF Reporting
<1>4. Heralded(q) \/ msg.type = "callInd" => Heralded(r)
  BY <1>1 DEF Heralded
<1>5. ASSUME NEW i \in DOMAIN r, LastReport(r, i)
      PROVE  i \in DOMAIN q /\ r[i] = q[i] /\ LastReport(q, i)
  BY <1>1, <1>2, <1>5 DEF LastReport
<1>6. \A up, exact \in BOOLEAN : LastSays(q, up, exact) => LastSays(r, up, exact)
  BY <1>5 DEF LastSays
<1> QED
  BY <1>3, <1>4, <1>6 DEF r

LEMMA ReportAppended ==
    ASSUME NEW q \in Seq(RilMessage), NEW msg \in RilMessage, IsReport(msg)
    PROVE  /\ Reporting(Append(q, msg))
           /\ \A up, exact \in BOOLEAN :
                 (Says(msg.calls) <=> up) => LastSays(Append(q, msg), up, exact)
<1> DEFINE r == Append(q, msg)
<1>1. /\ Len(q) \in Nat /\ DOMAIN q = 1 .. Len(q) /\ DOMAIN r = 1 .. Len(q) + 1
      /\ r[Len(q) + 1] = msg
  BY AppendIs
<1> HIDE DEF r
<1>2. ASSUME NEW i \in DOMAIN r, LastReport(r, i)
      PROVE  r[i] = msg
  BY <1>1, <1>2 DEF LastReport
<1> QED
  BY <1>1, <1>2 DEF r, Reporting, LastSays, Fits

\* A message taken off.
LEMMA OtherTaken ==
    ASSUME NEW q \in Seq(RilMessage), q # <<>>, ~IsReport(Head(q))
    PROVE  /\ Reporting(Tail(q)) <=> Reporting(q)
           /\ \A up, exact \in BOOLEAN : LastSays(q, up, exact) => LastSays(Tail(q), up, exact)
<1> DEFINE r == Tail(q)
<1>1. /\ Len(q) \in Nat /\ Len(q) >= 1 /\ DOMAIN q = 1 .. Len(q) /\ Head(q) = q[1]
      /\ DOMAIN r = 1 .. Len(q) - 1 /\ \A i \in 1 .. Len(q) - 1 : r[i] = q[i + 1]
  BY TailIs
<1> HIDE DEF r
<1>2. \A i \in DOMAIN r : i + 1 \in DOMAIN q /\ r[i] = q[i + 1]
  BY <1>1
<1>3. ASSUME NEW j \in DOMAIN q, IsReport(q[j])
      PROVE  j - 1 \in DOMAIN r /\ r[j - 1] = q[j]
  <2>1. j # 1 /\ j \in 1 .. Len(q)
    BY <1>1, <1>3
  <2>2. j - 1 \in 1 .. Len(q) - 1 /\ (j - 1) + 1 = j
    BY <1>1, <2>1
  <2> QED
    BY <1>1, <2>2
<1>4. Reporting(r) <=> Reporting(q)
  BY <1>2, <1>3 DEF Reporting
<1>5. ASSUME NEW i \in DOMAIN r, LastReport(r, i)
      PROVE  LastReport(q, i + 1)
  <2>1. IsReport(q[i + 1])
    BY <1>2, <1>5 DEF LastReport
  <2>2. ASSUME NEW j \in DOMAIN q, j > i + 1, IsReport(q[j]) PROVE FALSE
    <3>1. j - 1 \in DOMAIN r /\ IsReport(r[j - 1])
      BY <1>3, <2>2
    <3>2. j - 1 > i
      BY <1>1, <2>2
    <3> QED
      BY <1>5, <3>1, <3>2 DEF LastReport
  <2> QED
    BY <2>1, <2>2 DEF LastReport
<1>6. \A up, exact \in BOOLEAN : LastSays(q, up, exact) => LastSays(r, up, exact)
  BY <1>2, <1>5 DEF LastSays
<1> QED
  BY <1>4, <1>6 DEF r

LEMMA ReportTaken ==
    ASSUME NEW q \in Seq(RilMessage), q # <<>>, IsReport(Head(q))
    PROVE  /\ Reporting(q)
           /\ \A up, exact \in BOOLEAN : LastSays(q, up, exact) =>
                 /\ LastSays(Tail(q), up, exact)
                 /\ ~Reporting(Tail(q)) => Fits(Says(Head(q).calls), up, exact)
<1> DEFINE r == Tail(q)
<1>1. /\ Len(q) \in Nat /\ Len(q) >= 1 /\ DOMAIN q = 1 .. Len(q) /\ Head(q) = q[1]
      /\ DOMAIN r = 1 .. Len(q) - 1 /\ \A i \in 1 .. Len(q) - 1 : r[i] = q[i + 1]
  BY TailIs
<1> HIDE DEF r
<1>2. \A i \in DOMAIN r : i + 1 \in DOMAIN q /\ r[i] = q[i + 1] /\ i >= 1
  BY <1>1
<1>3. ASSUME NEW j \in DOMAIN q, j > 1
      PROVE  j - 1 \in DOMAIN r /\ r[j - 1] = q[j]
  <2>1. j - 1 \in 1 .. Len(q) - 1 /\ (j - 1) + 1 = j
    BY <1>1, <1>3
  <2> QED
    BY <1>1, <2>1
<1>4. 1 \in DOMAIN q /\ IsReport(q[1])
  BY <1>1
<1>5. ASSUME NEW i \in DOMAIN r, LastReport(r, i)
      PROVE  LastReport(q, i + 1)
  <2>1. IsReport(q[i + 1])
    BY <1>2, <1>5 DEF LastReport
  <2>2. ASSUME NEW j \in DOMAIN q, j > i + 1, IsReport(q[j]) PROVE FALSE
    <3>1. j \in Int /\ i \in Int /\ i >= 1
      BY <1>1
    <3>2. j > 1 /\ j - 1 > i
      BY <2>2, <3>1
    <3>3. j - 1 \in DOMAIN r /\ IsReport(r[j - 1])
      BY <1>3, <2>2, <3>2
    <3> QED
      BY <1>5, <3>2, <3>3 DEF LastReport
  <2> QED
    BY <2>1, <2>2 DEF LastReport
<1>6. ~Reporting(r) => LastReport(q, 1)
  BY <1>3, <1>4 DEF LastReport, Reporting
<1> QED
  BY <1>1, <1>2, <1>4, <1>5, <1>6 DEF r, Reporting, LastSays

LEMMA HeraldKept ==
    ASSUME NEW q \in Seq(RilMessage), q # <<>>, Head(q).type # "callInd", Heralded(q)
    PROVE  Heralded(Tail(q))
<1>1. /\ Len(q) \in Nat /\ Len(q) >= 1 /\ DOMAIN q = 1 .. Len(q) /\ Head(q) = q[1]
      /\ DOMAIN Tail(q) = 1 .. Len(q) - 1
      /\ \A i \in 1 .. Len(q) - 1 : Tail(q)[i] = q[i + 1]
  BY TailIs
<1>2. PICK i \in DOMAIN q : q[i].type = "callInd"
  BY DEF Heralded
<1>3. i - 1 \in 1 .. Len(q) - 1 /\ (i - 1) + 1 = i
  BY <1>1, <1>2
<1>4. Tail(q)[i - 1] = q[i]
  BY <1>1, <1>3
<1> QED
  BY <1>1, <1>2, <1>3, <1>4 DEF Heralded

LEMMA AskedKept ==
    ASSUME TypeInv
    PROVE  /\ \A req \in RilRequest :
                 Asked(toRil) \/ req.type = "list" => Asked(Append(toRil, req))
           /\ \A i \in DOMAIN toRil :
                 toRil[i].type # "list" /\ Asked(toRil) => Asked(Without(toRil, i))
<1>1. toRil \in Seq(RilRequest)
  BY DEF TypeInv, TypeOK, WiresOK
<1>2. ASSUME NEW req \in RilRequest, Asked(toRil) \/ req.type = "list"
      PROVE  Asked(Append(toRil, req))
  <2>1. /\ Len(toRil) \in Nat /\ DOMAIN toRil = 1 .. Len(toRil)
        /\ DOMAIN Append(toRil, req) = 1 .. Len(toRil) + 1
        /\ \A i \in 1 .. Len(toRil) : Append(toRil, req)[i] = toRil[i]
        /\ Append(toRil, req)[Len(toRil) + 1] = req
    BY <1>1, AppendIs
  <2> QED
    BY <1>2, <2>1 DEF Asked
<1>3. ASSUME NEW i \in DOMAIN toRil, toRil[i].type # "list", Asked(toRil)
      PROVE  Asked(Without(toRil, i))
  <2>1. PICK j \in DOMAIN toRil : toRil[j].type = "list"
    BY <1>3 DEF Asked
  <2>2. \E k \in DOMAIN Without(toRil, i) : Without(toRil, i)[k] = toRil[j]
    BY <1>1, <1>3, <2>1, WithoutKeeps
  <2> QED
    BY <2>1, <2>2 DEF Asked
<1> QED
  BY <1>2, <1>3

\* A step that sends no report, and leaves the call and the context alone.
LEMMA MirrorQuiet ==
    ASSUME NEW c, NEW exact \in BOOLEAN, MirrorInv(c, exact), UNCHANGED <<links, ril>>,
           mDcContexts'[1].activated = mDcContexts[1].activated,
           Asked(toRil) => Asked(toRil'),
           Asked(toRil) \/ (Heralded(toSmm) => Heralded(toSmm') \/ Asked(toRil')),
           Reporting(toSmm') <=> Reporting(toSmm),
           \A up \in BOOLEAN : LastSays(toSmm, up, exact) => LastSays(toSmm', up, exact)
    PROVE  MirrorInv(c, exact)'
<1>1. Up(c)' = Up(c) /\ Up(c) \in BOOLEAN
  BY DEF Up
<1>2. NeverYet(c)'
  BY DEF MirrorInv, NeverYet, Updating
<1>3. News => News'
  BY DEF News
<1>4. ASSUME Agrees(Up(c), exact) PROVE Agrees(Up(c), exact)'
  <2>1. LastSays(toSmm', Up(c), exact)
    BY <1>1, <1>4 DEF Agrees
  <2>2. InHand(Up(c), exact) => InHand(Up(c), exact)'
    BY <1>1 DEF InHand, Updating
  <2> QED
    BY <1>1, <1>4, <2>1, <2>2 DEF Agrees
<1> QED
  BY <1>2, <1>3, <1>4 DEF MirrorInv

\* A report of what is true, sent behind all others.
LEMMA MirrorTold ==
    ASSUME NEW c, NEW exact \in BOOLEAN, TypeInv, NEW msg \in RilMessage, IsReport(msg),
           toSmm' = Append(toSmm, msg), links'[c] # "none",
           Says(msg.calls) <=> links'[c] = "up"
    PROVE  MirrorInv(c, exact)'
<1>1. toSmm \in Seq(RilMessage)
  BY DEF TypeInv, TypeOK, WiresOK
<1>2. Up(c)' \in BOOLEAN /\ (Says(msg.calls) <=> Up(c)')
  BY DEF Up
<1>3. Reporting(toSmm') /\ LastSays(toSmm', Up(c)', exact)
  BY <1>1, <1>2, ReportAppended
<1> QED
  BY <1>3 DEF MirrorInv, NeverYet, Agrees

\* A message without calls, sent behind all others.
LEMMA MirrorSent ==
    ASSUME NEW c, NEW exact \in BOOLEAN, TypeInv, MirrorInv(c, exact),
           NEW msg \in RilMessage, ~IsReport(msg),
           toSmm' = Append(toSmm, msg), UNCHANGED <<mDcContexts, ril, links>>,
           Asked(toRil) => Asked(toRil')
    PROVE  MirrorInv(c, exact)'
<1>1. toSmm \in Seq(RilMessage)
  BY DEF TypeInv, TypeOK, WiresOK
<1>2. /\ Reporting(toSmm') <=> Reporting(toSmm)
      /\ Heralded(toSmm) => Heralded(toSmm')
      /\ \A up \in BOOLEAN : LastSays(toSmm, up, exact) => LastSays(toSmm', up, exact)
  BY <1>1, OtherAppended
<1> QED
  BY <1>2, MirrorQuiet

\* Notice that something has changed, for whatever reason.
LEMMA MirrorHeralded ==
    ASSUME NEW c, NEW exact \in BOOLEAN, MirrorInv(c, exact), links'[c] # "none", Heralded(toSmm')
    PROVE  MirrorInv(c, exact)'
BY DEF MirrorInv, NeverYet, News

LEMMA CallsChangedIs ==
    CallsChanged \in RilMessage /\ CallsChanged.type = "callInd" /\ CallsChanged.calls = {}
BY MessageTypes DEF CallsChanged, Message, Registration, MessageType

LEMMA NoCallsNoReport ==
    ASSUME NEW type \in MessageType, NEW ok \in BOOLEAN, NEW reg \in Registration
    PROVE  Message(type, ok, {}, reg) \in RilMessage /\ ~IsReport(Message(type, ok, {}, reg))
BY MessageTypes DEF Message, IsReport

LEMMA MirrorDaemon ==
    ASSUME NEW c, NEW exact \in BOOLEAN, OneCid(c), TypeInv, MirrorInv(c, exact),
           RilDaemon \/ Network
    PROVE  MirrorInv(c, exact)'
<1>1. UNCHANGED <<mDcContexts, ril>>
  BY DaemonActivatesNothing
<1>2. c \in RilCids /\ \A d \in RilCids : d = c
  BY DEF OneCid
<1>3. /\ {"setup", "released", "callInd", "regInd", "list", "status", "radio", "attach",
          "select"} \subseteq MessageType
      /\ registered \in Registration /\ "none" \in Registration
      /\ links \in [RilCids -> {"none", "up", "down"}]
      /\ toSmm \in Seq(RilMessage)
  BY DEF MessageType, TypeInv, TypeOK, WorldOK, WiresOK, Registration
<1>s. ASSUME NEW i \in DOMAIN toRil, NEW type \in MessageType, NEW ok \in BOOLEAN,
             NEW reg \in Registration, NEW req, req # "list",
             RilAnswers(i, req, Message(type, ok, {}, reg)), UNCHANGED links
      PROVE  MirrorInv(c, exact)'
  <2>1. Asked(toRil) => Asked(toRil')
    BY <1>s, AskedKept DEF RilAnswers
  <2>2. toSmm' = Append(toSmm, Message(type, ok, {}, reg))
    BY <1>s DEF RilAnswers
  <2> QED
    BY <1>1, <1>s, <2>1, <2>2, NoCallsNoReport, MirrorSent
<1>4. ASSUME NEW i \in DOMAIN toRil, RilSetsUp(i) PROVE MirrorInv(c, exact)'
  <2>1. CASE RilAnswers(i, "setup", Message("setup", FALSE, {}, "none")) /\ UNCHANGED world
    BY <1>3, <1>s, <2>1 DEF world
  <2>2. ASSUME NEW up \in BOOLEAN,
               toSmm' = Append(toSmm, Message("setup", TRUE, {[cid |-> c, up |-> up]}, "none")),
               links' = [links EXCEPT ![c] = IF up THEN "up" ELSE "down"]
        PROVE  MirrorInv(c, exact)'
    <3>1. PICK call : call = [cid |-> c, up |-> up]
      OBVIOUS
    <3>2. call \in Call /\ (call.up <=> up)
      BY <1>2, <3>1 DEF Call
    <3>3. PICK msg : msg = Message("setup", TRUE, {call}, "none")
      OBVIOUS
    <3>4. msg \in RilMessage /\ IsReport(msg) /\ (Says(msg.calls) <=> up)
      BY <1>3, <3>2, <3>3, MessageTypes DEF Message, IsReport, Says
    <3>5. links'[c] # "none" /\ (up <=> links'[c] = "up")
      BY <1>2, <1>3, <2>2
    <3>6. Says(msg.calls) <=> links'[c] = "up"
      BY <3>4, <3>5, Zenon
    <3> QED
      BY <2>2, <3>1, <3>3, <3>4, <3>5, <3>6, MirrorTold
  <2> QED
    BY <1>2, <1>4, <2>1, <2>2 DEF RilSetsUp, RilAnswers
<1>5. ASSUME NEW i \in DOMAIN toRil, RilDeactivates(i) PROVE MirrorInv(c, exact)'
  <2>1. CASE RilAnswers(i, "deactivate", Message("released", FALSE, {}, "none"))
             /\ UNCHANGED world
    BY <1>3, <1>s, <2>1 DEF world
  <2>2. CASE /\ toRil[i].cid \in RilCids
             /\ links' = [links EXCEPT ![toRil[i].cid] = "down"]
             /\ toSmm' = toSmm \o <<Message("released", TRUE, {}, "none"), CallsChanged>>
    <3>1. links'[c] = "down"
      BY <1>2, <1>3, <2>2
    <3>2. PICK a, b : /\ a = Message("released", TRUE, {}, "none") /\ b = CallsChanged
      OBVIOUS
    <3>3. a \in RilMessage /\ b \in RilMessage /\ b.type = "callInd"
      BY <1>3, <3>2, NoCallsNoReport, CallsChangedIs
    <3>4. /\ Len(toSmm) \in Nat /\ DOMAIN toSmm' = 1 .. Len(toSmm) + 2
          /\ toSmm'[Len(toSmm) + 2] = b
      BY <1>3, <2>2, <3>2, <3>3, ConcatTwo
    <3>5. Heralded(toSmm')
      BY <3>3, <3>4 DEF Heralded
    <3> QED
      BY <3>1, <3>5, MirrorHeralded
  <2> QED
    BY <1>5, <2>1, <2>2 DEF RilDeactivates
<1>6. ASSUME NEW i \in DOMAIN toRil, RilLists(i) PROVE MirrorInv(c, exact)'
  <2>1. /\ toSmm' = Append(toSmm, Message("list", TRUE, KnownCalls, "none"))
        /\ UNCHANGED links
    BY <1>6 DEF RilLists, RilAnswers, world
  <2>2. KnownCalls = IF links[c] = "none" THEN {}
                     ELSE {[cid |-> c, up |-> links[c] = "up"]}
    BY MessagesAreGood
  <2>3. CASE links[c] = "none"
    <3>1. PICK msg : msg = Message("list", TRUE, {}, "none")
      OBVIOUS
    <3>2. msg \in RilMessage /\ ~IsReport(msg) /\ toSmm' = Append(toSmm, msg)
      BY <1>3, <2>1, <2>2, <2>3, <3>1, NoCallsNoReport
    <3>3. ~Reporting(toSmm) /\ ~Reporting(toSmm')
      BY <1>3, <2>3, <3>2, OtherAppended DEF MirrorInv, NeverYet
    <3>4. LastSays(toSmm', Up(c)', exact)
      BY <3>3 DEF Reporting, LastSays, LastReport
    <3>5. InHand(Up(c), exact)'
      BY <1>1, <2>1, <2>3, ActivatedType
      DEF ActivatedOK, MirrorInv, NeverYet, InHand, Fits, Up, Updating
    <3> QED
      BY <1>1, <2>1, <2>3, <3>3, <3>4, <3>5 DEF MirrorInv, NeverYet, Agrees, Updating
  <2>4. CASE links[c] # "none"
    <3>1. PICK call : call = [cid |-> c, up |-> links[c] = "up"]
      OBVIOUS
    <3>2. (links[c] = "up") \in BOOLEAN
      OBVIOUS
    <3>3. call \in Call /\ (call.up <=> links[c] = "up")
      BY <1>2, <3>1, <3>2 DEF Call
    <3>4. PICK msg : msg = Message("list", TRUE, {call}, "none")
      OBVIOUS
    <3>5. msg \in RilMessage /\ IsReport(msg) /\ (Says(msg.calls) <=> links[c] = "up")
      BY <1>3, <3>3, <3>4, MessageTypes DEF Message, IsReport, Says
    <3>6. toSmm' = Append(toSmm, msg)
      BY <2>1, <2>2, <2>4, <3>1, <3>4
    <3> QED
      BY <2>1, <2>4, <3>5, <3>6, MirrorTold
  <2> QED
    BY <2>3, <2>4
<1>7. ASSUME NEW i \in DOMAIN toRil, RilReportsStatus(i) PROVE MirrorInv(c, exact)'
  BY <1>3, <1>7, <1>s DEF RilReportsStatus, world
<1>8. ASSUME NEW i \in DOMAIN toRil, RilStartsUp(i) PROVE MirrorInv(c, exact)'
  BY <1>3, <1>8, <1>s DEF RilStartsUp, world
<1>9. ASSUME NEW d \in RilCids, CallChanges(d) PROVE MirrorInv(c, exact)'
  <2>1. links'[c] # "none"
    BY <1>2, <1>3, <1>9 DEF CallChanges
  <2>2. toSmm' = Append(toSmm, CallsChanged)
    BY <1>9 DEF CallChanges
  <2>3. Heralded(toSmm')
    BY <1>3, <2>2, CallsChangedIs, OtherAppended DEF IsReport
  <2> QED
    BY <2>1, <2>3, MirrorHeralded
<1>10. ASSUME NEW reg \in {"none", "LTE", "IWLAN"}, RegistrationChanges(reg)
       PROVE  MirrorInv(c, exact)'
  <2>1. toSmm' = Append(toSmm, Message("regInd", TRUE, {}, "none")) /\ UNCHANGED <<links, toRil>>
    BY <1>10 DEF RegistrationChanges
  <2> QED
    BY <1>1, <1>3, <2>1, NoCallsNoReport, MirrorSent
<1> QED
  BY <1>4, <1>5, <1>6, <1>7, <1>8, <1>9, <1>10 DEF RilDaemon, Network

\* Notice taken becomes a list asked for, if the library takes the request; other
\* callbacks ask for something else or for nothing.
LEMMA MirrorOther ==
    ASSUME ClientSends,
           NEW c, NEW exact \in BOOLEAN, TypeInv, MirrorInv(c, exact), OtherCallbacks
    PROVE  MirrorInv(c, exact)'
<1>1. /\ ril.pc = "idle" /\ toSmm # <<>> /\ toSmm' = Tail(toSmm)
      /\ UNCHANGED <<ril, links>>
      /\ Head(toSmm).type \notin {"setup", "list"}
      /\ mDcContexts'[1].activated = mDcContexts[1].activated
  BY OtherCallbackIs DEF world
<1>2. toSmm \in Seq(RilMessage) /\ ~IsReport(Head(toSmm))
  BY <1>1 DEF TypeInv, TypeOK, WiresOK, IsReport
<1>3. /\ Reporting(toSmm') <=> Reporting(toSmm)
      /\ \A up \in BOOLEAN : LastSays(toSmm, up, exact) => LastSays(toSmm', up, exact)
  BY <1>1, <1>2, OtherTaken
<1>4. \/ UNCHANGED toRil
      \/ \E type \in RequestType : toRil' = Append(toRil, Request(type, NoCid))
  BY DEF OtherCallbacks, onIRilIndication, onRadioModeSet, onInitialAttachSet,
         onNetworkSelected, onNwStateChanged, onDataCallReleased, RequestType, Asks
<1>5. Asked(toRil) => Asked(toRil')
  BY <1>4, AskedKept, ConstantTypes
<1>6. CASE Head(toSmm).type = "callInd"
  <2>1. toRil' = Append(toRil, Request("list", NoCid))
    BY <1>6 DEF OtherCallbacks, onIRilIndication, onRadioModeSet, onInitialAttachSet,
       onNetworkSelected, onNwStateChanged, onDataCallReleased, Delivers, Asks
  <2>2. Request("list", NoCid) \in RilRequest /\ Request("list", NoCid).type = "list"
    BY ConstantTypes DEF Request, RequestType
  <2>3. Asked(toRil')
    BY <2>1, <2>2, AskedKept
  <2> QED
    BY <1>1, <1>3, <2>3, MirrorQuiet
<1>7. CASE Head(toSmm).type # "callInd"
  <2>1. Heralded(toSmm) => Heralded(toSmm')
    BY <1>1, <1>2, <1>7, HeraldKept
  <2> QED
    BY <1>1, <1>3, <1>5, <2>1, MirrorQuiet
<1> QED
  BY <1>6, <1>7

\* A report is taken in hand; one without a call changes nothing.
LEMMA MirrorReport ==
    ASSUME NEW c, NEW exact \in BOOLEAN, TypeInv, Informed, MirrorInv(c, exact),
           onDataCallSetup \/ onDataCallListChanged
    PROVE  MirrorInv(c, exact)'
<1>1. /\ ril.pc = "idle" /\ toSmm # <<>> /\ toSmm' = Tail(toSmm)
      /\ UNCHANGED <<mDcContexts, toRil, links>>
      /\ IF IsReport(Head(toSmm))
         THEN ril'.pc = "update" /\ ril'.todo = Head(toSmm).calls
         ELSE ril'.pc = "idle" \/ UNCHANGED ril
  BY ReportIs DEF world
<1>2. toSmm \in Seq(RilMessage) /\ Head(toSmm).type # "callInd"
  BY DEF TypeInv, TypeOK, WiresOK, onDataCallSetup, onDataCallListChanged, Delivers
<1>3. News => News'
  BY <1>1, <1>2, HeraldKept DEF News
<1>4. Up(c)' = Up(c) /\ Up(c) \in BOOLEAN
  BY <1>1 DEF Up
<1>5. CASE IsReport(Head(toSmm))
  <2>1. Reporting(toSmm) /\ links[c] # "none"
    BY <1>1, <1>2, <1>5, ReportTaken DEF MirrorInv, NeverYet
  <2>2. ASSUME Agrees(Up(c), exact) PROVE Agrees(Up(c), exact)'
    <3>1. /\ LastSays(toSmm', Up(c), exact)
          /\ ~Reporting(toSmm') => Fits(Says(ril'.todo), Up(c), exact)
      BY <1>1, <1>2, <1>4, <1>5, <2>2, ReportTaken DEF Agrees
    <3> QED
      BY <1>1, <1>4, <1>5, <3>1 DEF Agrees, InHand, Updating
  <2> QED
    BY <1>1, <1>3, <2>1, <2>2 DEF MirrorInv, NeverYet
<1>6. CASE ~IsReport(Head(toSmm))
  <2>1. /\ Reporting(toSmm') <=> Reporting(toSmm)
        /\ \A up \in BOOLEAN : LastSays(toSmm, up, exact) => LastSays(toSmm', up, exact)
    BY <1>1, <1>2, <1>6, OtherTaken
  <2>2. ~Updating /\ ~Updating'
    BY <1>1, <1>6 DEF Updating
  <2>3. NeverYet(c)'
    BY <1>1, <2>1, <2>2 DEF MirrorInv, NeverYet
  <2>4. Agrees(Up(c), exact) => Agrees(Up(c), exact)'
    BY <1>1, <1>4, <2>1, <2>2 DEF Agrees, InHand
  <2> QED
    BY <1>3, <2>3, <2>4 DEF MirrorInv
<1> QED
  BY <1>5, <1>6

\* The context is given what the report in hand says.
LEMMA MirrorUpdate ==
    ASSUME NEW c, NEW exact \in BOOLEAN, OneCid(c), TypeInv, TypeInv', RouteInv, Informed,
           MirrorInv(c, exact), NEW call \in ril.todo, updateDcContextFromDataCall(call)
    PROVE  MirrorInv(c, exact)'
<1>1. /\ ril.todo = {call} /\ Updating /\ UNCHANGED <<toRil, toSmm, links>>
      /\ \/ Updating' /\ ril'.todo = ril.todo
         \/ /\ ril.pc = "setApn" /\ ~Updating'
            /\ mDcContexts'[1].activated = mDcContexts[1].activated
  BY UpdateIs DEF world, Updating
<1>2. Up(c)' = Up(c) /\ Up(c) \in BOOLEAN /\ mDcContexts'[1].activated \in BOOLEAN
  BY <1>1, ActivatedType DEF Up, ActivatedOK
<1>3. NeverYet(c)' /\ (News => News')
  BY <1>1 DEF MirrorInv, NeverYet, News
<1>4. InHand(Up(c), exact) => InHand(Up(c), exact)'
  <2>1. CASE Updating' /\ ril'.todo = ril.todo
    BY <1>1, <1>2, <2>1 DEF InHand
  <2>2. CASE /\ ril.pc = "setApn" /\ ~Updating'
             /\ mDcContexts'[1].activated = mDcContexts[1].activated
    <3>1. Says(ril.todo) <=> mDcContexts'[1].activated
      BY <1>1, <2>2 DEF Says, Informed
    <3> QED
      BY <1>1, <1>2, <2>2, <3>1 DEF InHand, Fits
  <2> QED
    BY <1>1, <2>1, <2>2
<1>5. Agrees(Up(c), exact) => Agrees(Up(c), exact)'
  BY <1>1, <1>2, <1>4 DEF Agrees
<1> QED
  BY <1>3, <1>5 DEF MirrorInv

LEMMA MirrorStep ==
    ASSUME ClientSends, NEW c, NEW exact \in BOOLEAN, OneCid(c), TypeInv, TypeInv',
           RouteInv, Informed, MirrorInv(c, exact), [Next]_vars, ~Restart
    PROVE  MirrorInv(c, exact)'
<1>q. ASSUME UNCHANGED <<ril, toSmm, links>>, Asked(toRil) => Asked(toRil'),
             mDcContexts'[1].activated = mDcContexts[1].activated
      PROVE  MirrorInv(c, exact)'
  BY <1>q, MirrorQuiet
<1>1. CASE UNCHANGED vars
  BY <1>1, <1>q DEF vars, smmVars, rilVars, wires, world
<1>2. CASE AtStarts \/ AtContinues
  <2>1. \/ UNCHANGED toRil
        \/ \E type \in {"setup", "deactivate"}, cid \in Cid :
              toRil' = Append(toRil, Request(type, cid))
    <3>1. mDcContexts[1].cid \in Cid /\ NoCid \in Cid
      BY ContextTypes, ConstantTypes DEF TypeInv, DcContext
    <3> QED
      BY <1>2, <3>1
      DEF AtStarts, AtContinues, QueryLoads, CgdcontLoad, XgauthLoad, CgactWrite,
          AnswersAlready, AsksRil, CgdcontSet, XgauthSet, StoreAndAnswer, wires
  <2>2. Asked(toRil) => Asked(toRil')
    BY <2>1, AskedKept, ConstantTypes DEF RequestType
  <2> QED
    BY <1>2, <1>q, <2>2, AtWritesFirst DEF rilVars, world
<1>3. CASE RilDaemon \/ Network
  BY <1>3, MirrorDaemon
<1>4. CASE OtherCallbacks
  BY <1>4, MirrorOther
<1>5. CASE onDataCallSetup \/ onDataCallListChanged
  BY <1>5, MirrorReport
<1>6. ASSUME NEW call \in ril.todo, updateDcContextFromDataCall(call)
      PROVE  MirrorInv(c, exact)'
  BY <1>6, MirrorUpdate
<1>7. CASE enableTethering \/ disableTethering
  <2>1. /\ ril.pc = "tether" /\ ril'.pc = "idle"
        /\ UNCHANGED <<mDcContexts, toRil, toSmm, links>>
    BY <1>7, TetheringIs DEF world
  <2>2. Up(c)' = Up(c) /\ NeverYet(c)' /\ (News => News')
    BY <2>1 DEF Up, MirrorInv, NeverYet, News, Updating
  <2>3. Agrees(Up(c), exact) => Agrees(Up(c), exact)'
    BY <2>1, <2>2 DEF Agrees, InHand, Updating
  <2> QED
    BY <2>2, <2>3 DEF MirrorInv
<1> QED
  BY <1>1, <1>2, <1>3, <1>4, <1>5, <1>6, <1>7, Steps

\* A new process knows of no call, and so claims none.
LEMMA MirrorRestart ==
    ASSUME NEW c, Restart
    PROVE  MirrorInv(c, FALSE)'
<1>1. ~Reporting(toSmm') /\ LastSays(toSmm', Up(c)', FALSE)
  BY RestartIs DEF Reporting, LastSays
<1> QED
  BY <1>1, RestartIs DEF MirrorInv, NeverYet, Agrees, InHand, Fits, Updating

\* Exact until the first restart, and no false "up" after it.
MirrorsInv(c) == MirrorInv(c, FALSE) /\ (restarts = 0 => MirrorInv(c, TRUE))

LEMMA MirrorInit ==
    ASSUME NEW c, OneCid(c), Init
    PROVE  MirrorsInv(c)
<1>1. mDcContexts[1].activated = FALSE /\ ril.pc = "idle"
  BY DEF Init, NewContexts, NewContext, RilIdle
<1>2. DOMAIN toSmm = {} /\ links[c] = "none"
  BY DEF Init, OneCid
<1>3. ~Reporting(toSmm) /\ \A exact : LastSays(toSmm, Up(c), exact)
  BY <1>2 DEF Reporting, LastSays
<1> QED
  BY <1>1, <1>2, <1>3
  DEF MirrorsInv, MirrorInv, NeverYet, Agrees, InHand, Fits, Up, Updating

LEMMA MirrorsStep ==
    ASSUME ClientSends, NEW c, OneCid(c), TypeInv, TypeInv', RouteInv, Informed,
           MirrorsInv(c), [Next]_vars
    PROVE  MirrorsInv(c)'
<1>1. CASE Restart
  <2>1. restarts' # 0
    BY <1>1 DEF Restart, TypeInv, TypeOK, CountersOK
  <2> QED
    BY <1>1, <2>1, MirrorRestart DEF MirrorsInv
<1>2. CASE ~Restart
  <2>1. \A exact \in BOOLEAN : MirrorInv(c, exact) => MirrorInv(c, exact)'
    BY <1>2, MirrorStep
  <2>2. UNCHANGED restarts
    BY <1>2, RestartsAlone
  <2> QED
    BY <2>1, <2>2 DEF MirrorsInv
<1> QED
  BY <1>1, <1>2

LEMMA MirrorImplies ==
    ASSUME NEW c, OneCid(c), TypeInv, MirrorsInv(c)
    PROVE  UpIsTrue /\ (restarts = 0 => StaleOnlyInFlight)
<1> SUFFICES ASSUME NothingInFlight
             PROVE  /\ mDcContexts[1].activated => LinkUp
                    /\ restarts = 0 => Mirrored
  BY DEF UpIsTrue, StaleOnlyInFlight
<1>1. /\ DOMAIN toSmm = {} /\ ril.pc = "idle"
      /\ \A i \in DOMAIN toRil : toRil[i].type # "list"
  BY DEF NothingInFlight
<1>2. ~News /\ ~Reporting(toSmm)
  BY <1>1 DEF News, Asked, Heralded, Reporting
<1>3. /\ mDcContexts[1].activated => Up(c)
      /\ restarts = 0 => (mDcContexts[1].activated <=> Up(c))
  BY <1>1, <1>2 DEF MirrorsInv, MirrorInv, Agrees, InHand, Fits, Updating
<1>4. LinkUp <=> Up(c)
  BY DEF LinkUp, Up, OneCid
<1>5. LinkUp \in BOOLEAN /\ mDcContexts[1].activated \in BOOLEAN
  BY ActivatedType DEF LinkUp, ActivatedOK
<1> QED
  BY <1>3, <1>4, <1>5 DEF Mirrored

\* The reports need nothing of the library; what the context makes of them does.
LEMMA InformedInvariant ==
    ASSUME NEW c, OneCid(c) PROVE Spec => [](TypeInv /\ RouteInv /\ Informed)
<1>1. TypeInv /\ RouteInv /\ Informed /\ [Next]_vars => Informed'
  BY InformedStep
<1>2. Spec => []RouteInv
  BY RouteInvariant DEF OneCid
<1> QED
  BY <1>1, <1>2, InformedInit, TypeInvariant, PTL DEF Spec

LEMMA MirrorsInvariant ==
    ASSUME ClientSends, NEW c, OneCid(c)
    PROVE  Spec => [](TypeInv /\ RouteInv /\ Informed /\ MirrorsInv(c))
<1>1. Init => MirrorsInv(c)
  BY MirrorInit
<1>2. TypeInv /\ TypeInv' /\ RouteInv /\ Informed /\ MirrorsInv(c) /\ [Next]_vars
         => MirrorsInv(c)'
  BY MirrorsStep
<1> QED
  BY <1>1, <1>2, InformedInvariant, PTL DEF Spec

\* For any number of calls, commands and reports, in whatever order requests
\* are answered, provided that the library takes the requests for the list
\* (onIRilIndication drops the result of its send): when nothing is under way,
\* the context knows whether the call is up.
THEOREM ContextMirrorsNetwork ==
    ASSUME ClientSends, NEW c, OneCid(c), MaxRestarts = 0
    PROVE  Spec => []StaleOnlyInFlight
<1>1. TypeInv => restarts = 0
  BY DEF TypeInv, TypeOK, CountersOK
<1>2. TypeInv /\ MirrorsInv(c) => StaleOnlyInFlight
  BY <1>1, MirrorImplies
<1> QED
  BY <1>2, MirrorsInvariant, PTL

\* And for any number of restarts, each of which drops the reports under way
\* and all that the context knew: when nothing is under way, a context that
\* says "up" is right.
THEOREM RestartsInventNoCall ==
    ASSUME ClientSends, NEW c, OneCid(c) PROVE Spec => []UpIsTrue
<1>1. TypeInv /\ MirrorsInv(c) => UpIsTrue
  BY MirrorImplies
<1> QED
  BY <1>1, MirrorsInvariant, PTL
=============================================================================
