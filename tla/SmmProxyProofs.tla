--------------------------- MODULE SmmProxyProofs ---------------------------
(***************************************************************************)
(* Theorems about SmmProxy, for every order of the extensions and every    *)
(* bound: the shape of its state, the conservation of answers, and that    *)
(* the list of pending messages does not silt up.                          *)
(***************************************************************************)
EXTENDS SmmProxy, SequenceTheorems, FiniteSetTheorems, TLAPS

\* Removing the last element of a non-empty sequence: pop_back.
LEMMA PopBack ==
    ASSUME NEW S, NEW s \in Seq(S), s # <<>>
    PROVE  /\ SubSeq(s, 1, Len(s) - 1) \in Seq(S)
           /\ Len(SubSeq(s, 1, Len(s) - 1)) = Len(s) - 1
           /\ s[Len(s)] \in S
<1>1. Len(s) \in Nat \ {0}
  BY EmptySeq
<1>2. \A i \in 1 .. Len(s) : s[i] \in S
  BY ElementOfSeq
<1>3. /\ SubSeq(s, 1, Len(s) - 1) \in Seq(S)
      /\ Len(SubSeq(s, 1, Len(s) - 1)) = Len(s) - 1
  <2> DEFINE n == Len(s) - 1
  <2>1. n \in Nat /\ \A i \in 1 .. n : s[i] \in S
    BY <1>1, <1>2
  <2> HIDE DEF n
  <2>2. /\ SubSeq(s, 1, n) \in Seq(S)
        /\ Len(SubSeq(s, 1, n)) = IF 1 <= n THEN n - 1 + 1 ELSE 0
    BY <2>1, SubSeqProperties
  <2>3. Len(SubSeq(s, 1, n)) = n
    BY <2>1, <2>2
  <2> QED
    BY <2>2, <2>3 DEF n
<1> QED
  BY <1>1, <1>2, <1>3

\* Appending and taking the head, as the two queues do.
LEMMA QueueOps ==
    ASSUME NEW S, NEW s \in Seq(S), NEW e \in S
    PROVE  /\ Append(s, e) \in Seq(S) /\ Len(Append(s, e)) = Len(s) + 1
           /\ Len(s) \in Nat
           /\ s # <<>> => /\ Head(s) \in S /\ Tail(s) \in Seq(S)
                          /\ Len(Tail(s)) = Len(s) - 1
BY AppendProperties, HeadTailProperties, LenProperties

-----------------------------------------------------------------------------
(***************************************************************************)
(* Type correctness.  TypeOK alone is not inductive: a thread that is busy *)
(* must be busy with some command's work.                                  *)
(***************************************************************************)
BusyOK ==
    /\ at.pc \in {"write", "requested", "enqueued"} => at.work \in Work
    /\ at.pc = "write" => at.final \in RilFinal
    /\ at.pc = "dispatch" => at.work \in Work \cup {Xicfg}
    /\ rilThread.pc = "callback" => rilThread.work \in Work

TypeInv == TypeOK /\ BusyOK

\* The two ways the AT thread moves on without going idle.
LEMMA AtGoesOnType ==
    ASSUME NEW pc \in {"idle", "write", "requested", "enqueued", "dispatch"},
           NEW w \in Work \cup {NoWork, Xicfg}, NEW f \in ModemFinal,
           AtGoesOn(pc, w, f)
    PROVE  /\ at' \in AtState
           /\ at'.pc = pc /\ at'.work = w /\ at'.final = f /\ at'.parser = 1
BY DEF AtState, AtGoesOn

LEMMA NextParserType ==
    ASSUME at \in AtState, at' = [at EXCEPT !.parser = @ + 1]
    PROVE  /\ at' \in AtState /\ at'.pc = at.pc /\ at'.work = at.work
           /\ at'.final = at.final /\ at'.parser = at.parser + 1
BY DEF AtState

LEMMA IdleStates == AtIdle \in AtState /\ RilIdle \in RilState
BY DEF AtIdle, RilIdle, AtState, RilState, ModemFinal, RilFinal

\* What the host hears has the shape of an answer, whoever gave it.
LEMMA HostHearsType ==
    ASSUME TypeOK, NEW w \in Work \cup {NoWork, Xicfg}, NEW f \in ModemFinal,
           NEW c \in HostCommand \cup {"raw"}, HostHears(w, f, c)
    PROVE  /\ answers' \in Nat
           /\ host' \in Work \cup {NoWork}
           /\ lastAnswer' \in HeardAnswer
BY DEF TypeOK, HostHears, HeardAnswer

LEMMA TypeInit == Init => TypeInv
<1> SUFFICES ASSUME Init PROVE TypeInv
  OBVIOUS
<1>1. /\ <<>> \in Seq(Work) /\ <<>> \in Seq(PendingMessage)
      /\ <<>> \in Seq(Work \cup {Xicfg}) /\ <<Xicfg>> \in Seq(Work \cup {Xicfg})
  BY EmptySeq
<1>2. TypeOK /\ BusyOK
  <2>1. lastAnswer \in HeardAnswer
    BY DEF Init, HeardAnswer, ModemFinal
  <2>2. BusyOK
    BY DEF Init, BusyOK, AtIdle, RilIdle
  <2>3. modem \in Seq(Work \cup {Xicfg})
    BY <1>1 DEF Init
  <2>4. /\ sent \in 0 .. MaxCommands /\ giveUps \in 0 .. MaxGiveUps
        /\ answers \in Nat /\ lost \in Nat
    BY BoundsAssumption DEF Init
  <2>7. crashed \in BOOLEAN
    BY ZenonT(20) DEF Init
  <2>5. /\ inbox \in Seq(Work) /\ mPendingMessages \in Seq(PendingMessage)
        /\ ril \subseteq RilRequest /\ host \in Work \cup {NoWork}
    BY <1>1 DEF Init
  <2>6. at \in AtState /\ rilThread \in RilState
    BY IdleStates DEF Init
  <2> QED
    BY <2>1, <2>2, <2>3, <2>4, <2>5, <2>6, <2>7 DEF TypeOK
<1> QED
  BY <1>2 DEF TypeInv

LEMMA TypeStep == TypeInv /\ [Next]_vars => TypeInv'
<1> SUFFICES ASSUME TypeInv, [Next]_vars PROVE TypeInv'
  OBVIOUS
<1> USE DEF TypeInv, TypeOK, BusyOK, atVars, hostVars, history
<1>1. ASSUME NEW cmd \in HostCommand, HostSends(cmd) PROVE TypeInv'
  <2>1. /\ [cmd |-> cmd, id |-> sent + 1] \in Work
        /\ sent + 1 \in 0 .. MaxCommands
    BY <1>1, BoundsAssumption DEF HostSends, Work
  <2> QED
    BY <1>1, <2>1, QueueOps DEF HostSends
<1>2. CASE HostGivesUp
  BY <1>2, BoundsAssumption DEF HostGivesUp
<1>3. ASSUME NEW cmd \in HostCommand, ForwardCommand(cmd) PROVE TypeInv'
  <2>1. Head(inbox) \in Work /\ Tail(inbox) \in Seq(Work)
    BY <1>3, HeadTailProperties DEF ForwardCommand, ReadsCommand
  <2>2. Append(modem, Head(inbox)) \in Seq(Work \cup {Xicfg})
    BY <2>1, AppendProperties
  <2> QED
    BY <1>3, <2>1, <2>2 DEF ForwardCommand, ReadsCommand
<1>4. ASSUME NEW cmd \in HostCommand, AnswerLocally(cmd) PROVE TypeInv'
  <2>1. Head(inbox) \in Work /\ Tail(inbox) \in Seq(Work)
    BY <1>4, HeadTailProperties DEF AnswerLocally, ReadsCommand
  <2> QED
    <3>1. PICK final \in RilFinal : AtGoesOn("write", Head(inbox), final)
      BY <1>4 DEF AnswerLocally
    <3>2. final \in ModemFinal
      BY DEF RilFinal, ModemFinal
    <3>3. /\ at' \in AtState /\ at'.pc = "write"
          /\ at'.work = Head(inbox) /\ at'.final = final
      BY <2>1, <3>1, <3>2, AtGoesOnType
    <3> QED
      BY <1>4, <2>1, <3>3 DEF AnswerLocally, ReadsCommand
<1>5. CASE CgactWrite
  <2>1. Head(inbox) \in Work /\ Tail(inbox) \in Seq(Work)
    BY <1>5, HeadTailProperties DEF CgactWrite, ReadsCommand
  <2>2. "OK" \in ModemFinal
    BY DEF ModemFinal
  <2>3. at' \in AtState /\ at'.pc = "requested" /\ at'.work = Head(inbox)
    BY <1>5, <2>1, <2>2, AtGoesOnType DEF CgactWrite, RequestDataCall
  <2>4. ril' \subseteq RilRequest
    BY <1>5, <2>1 DEF CgactWrite, RequestDataCall, RilRequest
  <2> QED
    BY <1>5, <2>1, <2>3, <2>4 DEF CgactWrite, RequestDataCall, ReadsCommand
<1>6. CASE SwwanWrite
  <2>1. Head(inbox) \in Work /\ Tail(inbox) \in Seq(Work)
    BY <1>6, HeadTailProperties DEF SwwanWrite, ReadsCommand
  <2>2. Append(modem, Head(inbox)) \in Seq(Work \cup {Xicfg})
    BY <2>1, AppendProperties
  <2> QED
    BY <1>6, <2>1, <2>2
    DEF SwwanWrite, ReadsCommand, Intercepted, mToDeviceParser
<1>7. CASE ScidEnqueue
  <2>1. Head(inbox) \in Work /\ Tail(inbox) \in Seq(Work)
    BY <1>7, HeadTailProperties DEF ScidEnqueue, ReadsCommand
  <2>2. mPendingMessages' \in Seq(PendingMessage)
    <3>1. [cmd |-> "AT^SCID", id |-> Head(inbox).id] \in PendingMessage
      BY <2>1 DEF PendingMessage, PendingCommand, Work
    <3> QED
      BY <1>7, <3>1, AppendProperties DEF ScidEnqueue, enqueuePendingMessage
  <2> QED
    <3>1. "OK" \in ModemFinal
      BY DEF ModemFinal
    <3>2. at' \in AtState /\ at'.pc = "enqueued" /\ at'.work = Head(inbox)
      BY <1>7, <2>1, <3>1, AtGoesOnType DEF ScidEnqueue
    <3> QED
      BY <1>7, <2>1, <2>2, <3>2 DEF ScidEnqueue, ReadsCommand
<1>8. CASE WriteLocalAnswer
  <2>1. at.work \in Work /\ at.work.cmd \in HostCommand /\ at.final \in ModemFinal
    BY <1>8 DEF WriteLocalAnswer, Work, RilFinal, ModemFinal
  <2>2. answers' \in Nat /\ host' \in Work \cup {NoWork} /\ lastAnswer' \in HeardAnswer
    BY <1>8, <2>1, HostHearsType DEF WriteLocalAnswer
  <2> QED
    BY <1>8, <2>2, IdleStates DEF WriteLocalAnswer, AtIdle
<1>9. CASE CgactEnqueue
  <2>1. mPendingMessages' \in Seq(PendingMessage)
    <3>1. [cmd |-> "AT+CGACT", id |-> at.work.id] \in PendingMessage
      BY <1>9 DEF CgactEnqueue, PendingMessage, PendingCommand, Work
    <3> QED
      BY <1>9, <3>1, AppendProperties DEF CgactEnqueue, enqueuePendingMessage
  <2> QED
    BY <1>9, <2>1, IdleStates DEF CgactEnqueue, AtIdle
<1>10. CASE ScidWrite
  <2>1. Append(modem, at.work) \in Seq(Work \cup {Xicfg})
    BY <1>10, AppendProperties DEF ScidWrite
  <2> QED
    BY <1>10, <2>1, IdleStates DEF ScidWrite, AtIdle
<1>11. CASE ModemAnswers
  <2>1. Head(modem) \in Work \cup {Xicfg} /\ Tail(modem) \in Seq(Work \cup {Xicfg})
    BY <1>11, HeadTailProperties DEF ModemAnswers
  <2> QED
    <3>1. /\ at' \in AtState /\ at'.pc = "dispatch" /\ at'.work = Head(modem)
      BY <1>11, <2>1, AtGoesOnType DEF ModemAnswers
    <3> QED
      BY <1>11, <2>1, <3>1 DEF ModemAnswers
<1>12. CASE ParserSkips
  BY <1>12, NextParserType DEF ParserSkips
<1>13. CASE ParserCompletes
  <2>1. /\ mPendingMessages' \in Seq(PendingMessage)
        /\ NextPending \in PendingMessage
    BY <1>13, PopBack DEF ParserCompletes, NonePending, NextPending, dequeuePendingMessage
  <2>2. NextPending.cmd \in HostCommand
    BY <2>1 DEF PendingMessage, PendingCommand, HostCommand
  <2>3. CASE CallbackWrites(NextPending.cmd, at.final)
    <3>1. /\ at.work \in Work \cup {NoWork, Xicfg} /\ at.final \in ModemFinal
          /\ HostHears(at.work, at.final, NextPending.cmd) /\ at' = AtIdle
      BY <1>13, <2>3 DEF ParserCompletes, AtState
    <3>2. answers' \in Nat /\ host' \in Work \cup {NoWork} /\ lastAnswer' \in HeardAnswer
      BY <3>1, <2>2, HostHearsType
    <3> QED
      BY <1>13, <2>1, <3>1, <3>2, IdleStates DEF ParserCompletes, AtIdle
  <2>4. CASE ~CallbackWrites(NextPending.cmd, at.final)
    BY <1>13, <2>1, <2>4, NextParserType DEF ParserCompletes
  <2> QED
    BY <2>3, <2>4
<1>14. CASE ForwardAnswer
  <2>1. at.work \in Work \cup {NoWork, Xicfg} /\ at.final \in ModemFinal
    BY <1>14 DEF ForwardAnswer, AtState
  <2>2. answers' \in Nat /\ host' \in Work \cup {NoWork} /\ lastAnswer' \in HeardAnswer
    BY <1>14, <2>1, HostHearsType DEF ForwardAnswer
  <2> QED
    BY <1>14, <2>2, IdleStates DEF ForwardAnswer, AtIdle
<1>15. ASSUME NEW req \in ril, NEW final \in RilFinal, RilAnswers(req, final)
       PROVE  TypeInv'
  BY <1>15 DEF RilAnswers, RilRequest, RilState
<1>16. CASE RilFindsNonePending
  BY <1>16, IdleStates DEF RilFindsNonePending, RilIdle
<1>17. CASE RilCompletes
  <2>1. /\ mPendingMessages' \in Seq(PendingMessage)
        /\ NextPending \in PendingMessage
    BY <1>17, PopBack DEF RilCompletes, NonePending, NextPending, dequeuePendingMessage
  <2>2. NextPending.cmd \in HostCommand
    BY <2>1 DEF PendingMessage, PendingCommand, HostCommand
  <2>3. answers' \in Nat /\ host' \in Work \cup {NoWork} /\ lastAnswer' \in HeardAnswer
    <3>1. rilThread.work \in Work /\ rilThread.final \in ModemFinal
      BY <1>17 DEF RilCompletes, RilState, RilFinal, ModemFinal
    <3> QED
      BY <1>17, <2>2, <3>1, HostHearsType DEF RilCompletes
  <2>4. crashed' \in BOOLEAN
    BY <1>17, ZenonT(20) DEF RilCompletes
  <2>6. lost' \in Nat
    BY <1>17 DEF RilCompletes
  <2>5. rilThread' \in RilState /\ rilThread'.pc = "idle"
    BY <1>17, IdleStates DEF RilCompletes, RilIdle
  <2> QED
    BY <1>17, <2>1, <2>3, <2>4, <2>5, <2>6 DEF RilCompletes
<1>18. CASE UNCHANGED vars
  BY <1>18 DEF vars
<1> QED
  BY <1>1, <1>2, <1>3, <1>4, <1>5, <1>6, <1>7, <1>8, <1>9, <1>10, <1>11, <1>12,
     <1>13, <1>14, <1>15, <1>16, <1>17, <1>18
  DEF Next, AtReads, AtContinues, RilResponds, RilContinues,
      onDataCallSetup, onDataCallReleased

\* Every reachable state has the shape TypeOK describes, for any extensions
\* and any bounds: no thread interleaving puts a foreign value anywhere.
THEOREM TypeCorrect == Spec => []TypeOK
<1>1. TypeInv => TypeOK
  BY DEF TypeInv
<1> QED
  BY <1>1, TypeInit, TypeStep, PTL DEF Spec
-----------------------------------------------------------------------------
(***************************************************************************)
(* Conservation of answers.  A data call request adds one to the requests  *)
(* at RIL only because no request for the same command is there already,   *)
(* which holds because commands are read in the order they were sent.      *)
(***************************************************************************)
ReadInOrder ==
    /\ \A i \in 1 .. Len(inbox) : inbox[i].id <= sent
    /\ \A i, j \in 1 .. Len(inbox) : i < j => inbox[i].id < inbox[j].id
    /\ \A req \in ril : req.work.id <= sent
    /\ \A req \in ril, i \in 1 .. Len(inbox) : req.work.id < inbox[i].id

ConservationInv ==
    TypeInv /\ ReadInOrder /\ IsFiniteSet(ril) /\ AnswersConserved

LEMMA WorkIds == \A w \in Work : w.id \in Nat \ {0} /\ w # NoWork /\ w # Xicfg
BY BoundsAssumption DEF Work, NoWork, Xicfg

LEMMA ReadKeepsOrder ==
    ASSUME TypeInv, ReadInOrder, NEW cmd, ReadsCommand(cmd), sent' = sent,
           \A req \in ril' : req \in ril \/ req.work = Head(inbox)
    PROVE  ReadInOrder'
<1>1. /\ inbox \in Seq(Work) /\ inbox # <<>> /\ inbox' = Tail(inbox)
      /\ Len(inbox) \in Nat \ {0} /\ Head(inbox) = inbox[1]
      /\ sent \in Nat
  BY EmptySeq, BoundsAssumption DEF TypeInv, TypeOK, ReadsCommand
<1>2. /\ Len(inbox') = Len(inbox) - 1
      /\ \A i \in 1 .. Len(inbox') : inbox'[i] = inbox[i + 1]
  BY <1>1, HeadTailProperties
<1>3. \A i \in 1 .. Len(inbox) : inbox[i].id \in Nat
  BY <1>1, ElementOfSeq, WorkIds
<1>4. \A i \in 1 .. Len(inbox') : i + 1 \in 1 .. Len(inbox) /\ 1 < i + 1
  BY <1>1, <1>2
<1>5. \A i \in 1 .. Len(inbox') : inbox[1].id < inbox'[i].id
  BY <1>1, <1>2, <1>4 DEF ReadInOrder
<1>6. /\ \A i \in 1 .. Len(inbox') : inbox'[i].id <= sent'
      /\ \A i, j \in 1 .. Len(inbox') : i < j => inbox'[i].id < inbox'[j].id
  BY <1>1, <1>2, <1>4 DEF ReadInOrder
<1>7. \A req \in ril' : req.work.id <= sent'
  BY <1>1 DEF ReadInOrder
<1>8. \A req \in ril', i \in 1 .. Len(inbox') : req.work.id < inbox'[i].id
  BY <1>1, <1>2, <1>4, <1>5 DEF ReadInOrder
<1> QED
  BY <1>6, <1>7, <1>8 DEF ReadInOrder

\* A step that leaves the inbox and sent alone and adds no request to RIL.
LEMMA OrderUndisturbed ==
    ASSUME ReadInOrder, UNCHANGED <<inbox, sent>>, ril' \subseteq ril
    PROVE  ReadInOrder'
BY DEF ReadInOrder

LEMMA ReadInOrderStep == TypeInv /\ ReadInOrder /\ [Next]_vars => ReadInOrder'
<1> SUFFICES ASSUME TypeInv, ReadInOrder, [Next]_vars PROVE ReadInOrder'
  OBVIOUS
<1> USE DEF atVars, hostVars, history
<1>1. ASSUME NEW cmd \in HostCommand, HostSends(cmd) PROVE ReadInOrder'
  <2> DEFINE w == [cmd |-> cmd, id |-> sent + 1]
  <2>1. /\ inbox \in Seq(Work) /\ w \in Work /\ sent \in Nat
        /\ sent' = sent + 1 /\ inbox' = Append(inbox, w) /\ ril' = ril
        /\ w.id = sent + 1
    BY <1>1, BoundsAssumption DEF HostSends, Work, TypeInv, TypeOK
  <2> HIDE DEF w
  <2>2. /\ Len(inbox) \in Nat /\ Len(inbox') = Len(inbox) + 1
        /\ \A i \in 1 .. Len(inbox) : inbox'[i] = inbox[i]
        /\ inbox'[Len(inbox) + 1] = w
    BY <2>1, AppendProperties, LenProperties
  <2>3. \A i \in 1 .. Len(inbox') : i \in 1 .. Len(inbox) \/ i = Len(inbox) + 1
    BY <2>2
  <2>4. \A i \in 1 .. Len(inbox) : inbox[i].id \in Nat
    BY <2>1, ElementOfSeq, WorkIds
  <2>5. \A req \in ril : req.work.id \in Nat
    BY BoundsAssumption DEF TypeInv, TypeOK, RilRequest, Work
  <2> QED
    BY <2>1, <2>2, <2>3, <2>4, <2>5 DEF ReadInOrder
<1>2. CASE HostGivesUp
  BY <1>2, OrderUndisturbed DEF HostGivesUp
<1>3. ASSUME NEW cmd \in HostCommand, ForwardCommand(cmd) PROVE ReadInOrder'
  BY <1>3, ReadKeepsOrder DEF ForwardCommand
<1>4. ASSUME NEW cmd \in HostCommand, AnswerLocally(cmd) PROVE ReadInOrder'
  BY <1>4, ReadKeepsOrder DEF AnswerLocally
<1>5. CASE CgactWrite
  BY <1>5, ReadKeepsOrder DEF CgactWrite, RequestDataCall
<1>6. CASE SwwanWrite
  BY <1>6, ReadKeepsOrder DEF SwwanWrite, Intercepted, mToDeviceParser
<1>7. CASE ScidEnqueue
  BY <1>7, ReadKeepsOrder DEF ScidEnqueue
<1>8. CASE AtContinues
  BY <1>8, OrderUndisturbed
  DEF AtContinues, WriteLocalAnswer, CgactEnqueue, ScidWrite, ParserSkips,
      ParserCompletes, ForwardAnswer
<1>9. CASE ModemAnswers
  BY <1>9, OrderUndisturbed DEF ModemAnswers
<1>10. ASSUME NEW req \in ril, NEW final \in RilFinal, RilAnswers(req, final)
       PROVE  ReadInOrder'
  BY <1>10, OrderUndisturbed DEF RilAnswers
<1>11. CASE RilContinues
  BY <1>11, OrderUndisturbed DEF RilContinues, RilFindsNonePending, RilCompletes
<1>12. CASE UNCHANGED vars
  BY <1>12, OrderUndisturbed DEF vars
<1> QED
  BY <1>1, <1>2, <1>3, <1>4, <1>5, <1>6, <1>7, <1>8, <1>9, <1>10, <1>11, <1>12
  DEF Next, AtReads, RilResponds, onDataCallSetup, onDataCallReleased

\* Where each action moves a piece of work, and what that does to the sum.
LEMMA ConservationStep ==
    ConservationInv /\ [Next]_vars => AnswersConserved' /\ IsFiniteSet(ril')
<1> SUFFICES ASSUME ConservationInv, [Next]_vars
             PROVE  AnswersConserved' /\ IsFiniteSet(ril')
  OBVIOUS
<1>t. TypeOK /\ BusyOK /\ ReadInOrder /\ IsFiniteSet(ril) /\ AnswersConserved
  BY DEF ConservationInv, TypeInv
<1>n. /\ Len(inbox) \in Nat /\ Len(modem) \in Nat /\ Cardinality(ril) \in Nat
      /\ answers \in Nat /\ lost \in Nat /\ sent \in Nat
      /\ AtHolds \in {0, 1} /\ RilHolds \in {0, 1}
  BY <1>t, FS_CardinalityType, BoundsAssumption DEF TypeOK, AtHolds, RilHolds
<1>a. Autonomous \in {0, 1} /\ Autonomous' = Autonomous
  BY DEF Autonomous, Loaded
<1>c. answers + lost + (Len(inbox) + AtHolds + Len(modem) + Cardinality(ril)
        + RilHolds) = sent + Autonomous
  BY <1>t DEF AnswersConserved, InFlight
<1> DEFINE Balanced ==
      answers' + lost' + (Len(inbox') + AtHolds' + Len(modem') + Cardinality(ril')
        + RilHolds') = sent' + Autonomous'
<1>b. SUFFICES IsFiniteSet(ril') /\ Balanced
  BY DEF AnswersConserved, InFlight
<1>q. ASSUME NEW cmd, ReadsCommand(cmd)
      PROVE  /\ Head(inbox) \in Work /\ Len(inbox') = Len(inbox) - 1 /\ AtHolds = 0
             /\ inbox # <<>>
  BY <1>t, <1>q, HeadTailProperties DEF ReadsCommand, TypeOK, AtHolds
<1>g. ASSUME NEW pc, NEW w, NEW f, AtGoesOn(pc, w, f)
      PROVE  AtHolds' = IF pc \in {"write", "enqueued", "dispatch"} THEN 1 ELSE 0
  BY <1>g DEF AtGoesOn, AtHolds
<1>i. at' = AtIdle => AtHolds' = 0
  BY DEF AtIdle, AtHolds
<1>r. rilThread' = RilIdle => RilHolds' = 0
  BY DEF RilIdle, RilHolds
<1>h. ASSUME NEW w, NEW f, NEW c, HostHears(w, f, c) PROVE answers' = answers + 1
  BY <1>h DEF HostHears
<1>s. /\ at' = at => AtHolds' = AtHolds
      /\ rilThread' = rilThread => RilHolds' = RilHolds
  BY DEF AtHolds, RilHolds
<1> USE DEF atVars, hostVars, history
<1>1. ASSUME NEW cmd \in HostCommand, HostSends(cmd) PROVE IsFiniteSet(ril') /\ Balanced
  <2>1. [cmd |-> cmd, id |-> sent + 1] \in Work /\ inbox \in Seq(Work)
    BY <1>1, <1>t, BoundsAssumption DEF HostSends, Work, TypeOK
  <2>2. Len(inbox') = Len(inbox) + 1
    BY <1>1, <2>1, AppendProperties DEF HostSends
  <2>3. /\ UNCHANGED <<at, rilThread, modem, ril, answers, lost>>
        /\ sent' = sent + 1
    BY <1>1 DEF HostSends
  <2>4. AtHolds' = AtHolds /\ RilHolds' = RilHolds /\ IsFiniteSet(ril')
        /\ Cardinality(ril') = Cardinality(ril)
    BY <2>3, <1>s, <1>t
  <2> QED
    BY <2>2, <2>3, <2>4, <1>n, <1>a, <1>c
<1>2. CASE HostGivesUp
  BY <1>2, <1>c, <1>s, <1>t DEF HostGivesUp
<1>3. ASSUME NEW cmd \in HostCommand, ForwardCommand(cmd)
      PROVE  IsFiniteSet(ril') /\ Balanced
  <2>1. /\ Head(inbox) \in Work /\ Len(inbox') = Len(inbox) - 1
    BY <1>3, <1>q DEF ForwardCommand
  <2>2. Len(modem') = Len(modem) + 1
    BY <1>3, <1>t, <2>1, AppendProperties DEF ForwardCommand, TypeOK
  <2> QED
    BY <1>3, <2>1, <2>2, <1>n, <1>a, <1>c, <1>s, <1>t DEF ForwardCommand
<1>4. ASSUME NEW cmd \in HostCommand, AnswerLocally(cmd)
      PROVE  IsFiniteSet(ril') /\ Balanced
  <2>1. Len(inbox') = Len(inbox) - 1 /\ AtHolds = 0 /\ AtHolds' = 1
    BY <1>4, <1>q, <1>g DEF AnswerLocally
  <2> QED
    BY <1>4, <2>1, <1>n, <1>a, <1>c, <1>s, <1>t DEF AnswerLocally
<1>5. CASE CgactWrite
  <2>1. /\ Len(inbox') = Len(inbox) - 1 /\ AtHolds = 0 /\ AtHolds' = 0
        /\ inbox # <<>>
    BY <1>5, <1>q, <1>g DEF CgactWrite, RequestDataCall
  <2>2. PICK op \in {"setup", "deactivate"} :
           ril' = ril \cup {[op |-> op, work |-> Head(inbox)]}
    BY <1>5 DEF CgactWrite, RequestDataCall
  <2>3. [op |-> op, work |-> Head(inbox)] \notin ril
    <3>1. Head(inbox) = inbox[1] /\ 1 \in 1 .. Len(inbox) /\ inbox[1].id \in Nat
      BY <1>t, <2>1, EmptySeq, ElementOfSeq, WorkIds DEF TypeOK
    <3> QED
      BY <1>t, <3>1 DEF ReadInOrder
  <2>4. IsFiniteSet(ril') /\ Cardinality(ril') = Cardinality(ril) + 1
    BY <1>t, <2>2, <2>3, FS_AddElement
  <2> QED
    BY <1>5, <2>1, <2>4, <1>n, <1>a, <1>c, <1>s DEF CgactWrite, RequestDataCall
<1>6. CASE SwwanWrite
  <2>1. /\ Head(inbox) \in Work /\ Len(inbox') = Len(inbox) - 1
    BY <1>6, <1>q DEF SwwanWrite
  <2>2. /\ modem' = Append(modem, Head(inbox))
        /\ UNCHANGED <<at, ril, rilThread, answers, lost, sent>>
    BY <1>6 DEF SwwanWrite, Intercepted, mToDeviceParser
  <2>3. Len(modem') = Len(modem) + 1
    BY <1>t, <2>1, <2>2, AppendProperties DEF TypeOK
  <2> QED
    BY <2>1, <2>2, <2>3, <1>n, <1>a, <1>c, <1>s, <1>t
<1>7. CASE ScidEnqueue
  <2>1. Len(inbox') = Len(inbox) - 1 /\ AtHolds = 0 /\ AtHolds' = 1
    BY <1>7, <1>q, <1>g DEF ScidEnqueue
  <2> QED
    BY <1>7, <2>1, <1>n, <1>a, <1>c, <1>s, <1>t DEF ScidEnqueue
<1>8. CASE WriteLocalAnswer
  <2>1. AtHolds = 1 /\ AtHolds' = 0 /\ answers' = answers + 1
    BY <1>8, <1>i, <1>h DEF WriteLocalAnswer, AtHolds
  <2> QED
    BY <1>8, <2>1, <1>n, <1>a, <1>c, <1>s, <1>t DEF WriteLocalAnswer
<1>9. CASE CgactEnqueue
  <2>1. AtHolds = 0 /\ AtHolds' = 0
    BY <1>9, <1>i DEF CgactEnqueue, AtHolds
  <2> QED
    BY <1>9, <2>1, <1>n, <1>a, <1>c, <1>s, <1>t DEF CgactEnqueue
<1>10. CASE ScidWrite
  <2>1. AtHolds = 1 /\ AtHolds' = 0 /\ at.work \in Work
    BY <1>10, <1>i, <1>t DEF ScidWrite, AtHolds, BusyOK
  <2>2. Len(modem') = Len(modem) + 1
    BY <1>10, <1>t, <2>1, AppendProperties DEF ScidWrite, TypeOK
  <2> QED
    BY <1>10, <2>1, <2>2, <1>n, <1>a, <1>c, <1>s, <1>t DEF ScidWrite
<1>11. CASE ModemAnswers
  <2>1. Len(modem') = Len(modem) - 1
    BY <1>11, <1>t, HeadTailProperties DEF ModemAnswers, TypeOK
  <2>2. AtHolds = 0 /\ AtHolds' = 1
    BY <1>11, <1>g DEF ModemAnswers, AtHolds
  <2> QED
    BY <1>11, <2>1, <2>2, <1>n, <1>a, <1>c, <1>s, <1>t DEF ModemAnswers
<1>12. CASE ParserSkips
  <2>1. AtHolds' = AtHolds
    BY <1>12, <1>t, NextParserType DEF ParserSkips, AtHolds, TypeOK
  <2> QED
    BY <1>12, <2>1, <1>n, <1>a, <1>c, <1>s, <1>t DEF ParserSkips
<1>13. CASE ParserCompletes
  <2>1. AtHolds = 1
    BY <1>13 DEF ParserCompletes, AtHolds
  <2>2. CASE CallbackWrites(NextPending.cmd, at.final)
    <3>1. AtHolds' = 0 /\ answers' = answers + 1
      BY <1>13, <2>2, <1>i, <1>h DEF ParserCompletes
    <3> QED
      BY <1>13, <2>1, <3>1, <1>n, <1>a, <1>c, <1>s, <1>t DEF ParserCompletes
  <2>3. CASE ~CallbackWrites(NextPending.cmd, at.final)
    <3>1. AtHolds' = AtHolds /\ answers' = answers
      BY <1>13, <2>3, <1>t, NextParserType DEF ParserCompletes, AtHolds, TypeOK
    <3> QED
      BY <1>13, <2>1, <3>1, <1>n, <1>a, <1>c, <1>s, <1>t DEF ParserCompletes
  <2> QED
    BY <2>2, <2>3
<1>14. CASE ForwardAnswer
  <2>1. AtHolds = 1 /\ AtHolds' = 0 /\ answers' = answers + 1
    BY <1>14, <1>i, <1>h DEF ForwardAnswer, AtHolds
  <2> QED
    BY <1>14, <2>1, <1>n, <1>a, <1>c, <1>s, <1>t DEF ForwardAnswer
<1>15. ASSUME NEW req \in ril, NEW final \in RilFinal, RilAnswers(req, final)
       PROVE  IsFiniteSet(ril') /\ Balanced
  <2>1. RilHolds = 0 /\ RilHolds' = 1
    BY <1>15 DEF RilAnswers, RilHolds
  <2>2. IsFiniteSet(ril') /\ Cardinality(ril') = Cardinality(ril) - 1
    BY <1>15, <1>t, FS_RemoveElement DEF RilAnswers
  <2> QED
    BY <1>15, <2>1, <2>2, <1>n, <1>a, <1>c, <1>s DEF RilAnswers
<1>16. CASE RilFindsNonePending
  <2>1. RilHolds = 1 /\ RilHolds' = 0
    BY <1>16, <1>r DEF RilFindsNonePending, RilHolds
  <2> QED
    BY <1>16, <2>1, <1>n, <1>a, <1>c, <1>s, <1>t DEF RilFindsNonePending
<1>17. CASE RilCompletes
  <2>1. RilHolds = 1 /\ RilHolds' = 0
    BY <1>17, <1>r DEF RilCompletes, RilHolds
  <2>2. \/ answers' = answers + 1 /\ lost' = lost
        \/ answers' = answers /\ lost' = lost + 1
    BY <1>17, <1>h DEF RilCompletes
  <2>4. /\ Len(inbox') = Len(inbox) /\ Len(modem') = Len(modem) /\ ril' = ril
        /\ sent' = sent /\ AtHolds' = AtHolds
    BY <1>17, <1>s DEF RilCompletes
  <2>5. IsFiniteSet(ril') /\ Cardinality(ril') = Cardinality(ril)
    BY <2>4, <1>t
  <2>6. CASE answers' = answers + 1 /\ lost' = lost
    BY <2>1, <2>4, <2>5, <2>6, <1>n, <1>a, <1>c
  <2>7. CASE answers' = answers /\ lost' = lost + 1
    BY <2>1, <2>4, <2>5, <2>7, <1>n, <1>a, <1>c
  <2> QED
    BY <2>2, <2>6, <2>7
<1>18. CASE UNCHANGED vars
  BY <1>18, <1>c, <1>s, <1>t DEF vars
<1> QED
  BY <1>1, <1>2, <1>3, <1>4, <1>5, <1>6, <1>7, <1>8, <1>9, <1>10, <1>11, <1>12,
     <1>13, <1>14, <1>15, <1>16, <1>17, <1>18
  DEF Next, AtReads, AtContinues, RilResponds, RilContinues,
      onDataCallSetup, onDataCallReleased

LEMMA ConservationInit == Init => ConservationInv
<1> SUFFICES ASSUME Init PROVE ConservationInv
  OBVIOUS
<1>1. TypeInv
  BY TypeInit
<1>2. ReadInOrder
  BY DEF Init, ReadInOrder
<1>3. IsFiniteSet(ril) /\ Cardinality(ril) = 0
  BY FS_EmptySet DEF Init
<1>4. Len(modem) = Autonomous /\ AtHolds = 0 /\ RilHolds = 0
  BY DEF Init, Autonomous, AtHolds, RilHolds, AtIdle, RilIdle
<1>5. AnswersConserved
  BY <1>3, <1>4 DEF Init, AnswersConserved, InFlight, Autonomous
<1> QED
  BY <1>1, <1>2, <1>3, <1>5 DEF ConservationInv

\* No interleaving of the two threads, no giving up, no loss to a RIL callback
\* ever makes the host hear more or fewer final answers than it is due.
THEOREM AnswersAreConserved == Spec => []AnswersConserved
<1>1. ConservationInv /\ [Next]_vars => ConservationInv'
  BY TypeStep, ReadInOrderStep, ConservationStep DEF ConservationInv
<1>2. ConservationInv => AnswersConserved
  BY DEF ConservationInv
<1> QED
  BY <1>1, <1>2, ConservationInit, PTL DEF Spec
-----------------------------------------------------------------------------
(***************************************************************************)
(* The list of pending messages does not silt up: for every order of the   *)
(* extensions, every bound, an impatient host and RIL answers at any time, *)
(* a message stays pending only if something is on its way that will take  *)
(* one off the list, or an answer has been lost in a RIL callback.         *)
(***************************************************************************)
ScidWorks(s) == {i \in DOMAIN s : s[i].cmd = "AT^SCID"}

One(b) == IF b THEN 1 ELSE 0

LEMMA ScidFinite ==
    ASSUME NEW S, NEW s \in Seq(S)
    PROVE  IsFiniteSet(ScidWorks(s)) /\ Cardinality(ScidWorks(s)) \in Nat
<1>1. DOMAIN s = 1 .. Len(s) /\ Len(s) \in Nat
  BY LenProperties
<1>2. IsFiniteSet(DOMAIN s)
  BY <1>1, FS_Interval
<1> QED
  BY <1>2, FS_Subset, FS_CardinalityType DEF ScidWorks

LEMMA ScidAppend ==
    ASSUME NEW S, NEW s \in Seq(S), NEW w \in S
    PROVE  Cardinality(ScidWorks(Append(s, w))) =
             Cardinality(ScidWorks(s)) + One(w.cmd = "AT^SCID")
<1> DEFINE n == Len(s) + 1
<1>1. /\ Append(s, w) \in Seq(S) /\ Len(s) \in Nat /\ Len(Append(s, w)) = n
      /\ \A i \in 1 .. Len(s) : Append(s, w)[i] = s[i]
      /\ Append(s, w)[n] = w
      /\ DOMAIN s = 1 .. Len(s) /\ DOMAIN Append(s, w) = 1 .. n
  BY AppendProperties, LenProperties
<1>2. 1 .. n = 1 .. Len(s) \cup {n} /\ n \notin 1 .. Len(s)
  BY <1>1
<1>3. CASE w.cmd = "AT^SCID"
  <2>1. ScidWorks(Append(s, w)) = ScidWorks(s) \cup {n} /\ n \notin ScidWorks(s)
    BY <1>1, <1>2, <1>3 DEF ScidWorks
  <2> HIDE DEF n
  <2> QED
    BY <1>3, <2>1, ScidFinite, FS_AddElement DEF One
<1>4. CASE w.cmd # "AT^SCID"
  <2>1. ScidWorks(Append(s, w)) = ScidWorks(s)
    BY <1>1, <1>2, <1>4 DEF ScidWorks
  <2> QED
    BY <1>4, <2>1, ScidFinite DEF One
<1> QED
  BY <1>3, <1>4

LEMMA ScidTail ==
    ASSUME NEW S, NEW s \in Seq(S), s # <<>>
    PROVE  Cardinality(ScidWorks(s)) =
             Cardinality(ScidWorks(Tail(s))) + One(Head(s).cmd = "AT^SCID")
<1> DEFINE t == Tail(s)
           f == [i \in ScidWorks(t) |-> i + 1]
           later == ScidWorks(s) \ {1}
<1>1. /\ t \in Seq(S) /\ Len(s) \in Nat \ {0} /\ Len(t) = Len(s) - 1
      /\ \A i \in 1 .. Len(t) : t[i] = s[i + 1]
      /\ DOMAIN s = 1 .. Len(s) /\ DOMAIN t = 1 .. Len(t) /\ Head(s) = s[1]
  BY EmptySeq, HeadTailProperties, LenProperties
<1>2. f \in Bijection(ScidWorks(t), later)
  <2>1. \A i \in ScidWorks(t) : f[i] \in later
    BY <1>1 DEF ScidWorks
  <2>2. \A i, j \in ScidWorks(t) : f[i] = f[j] => i = j
    BY <1>1 DEF ScidWorks
  <2>3. \A k \in later : k - 1 \in ScidWorks(t) /\ f[k - 1] = k
    BY <1>1 DEF ScidWorks
  <2> HIDE DEF f, later, t
  <2>4. f \in [ScidWorks(t) -> later]
    BY <2>1 DEF f
  <2>5. f \in Injection(ScidWorks(t), later)
    BY <2>2, <2>4 DEF Injection, IsInjective
  <2>6. f \in Surjection(ScidWorks(t), later)
    BY <2>3, <2>4 DEF Surjection
  <2> QED
    BY <2>5, <2>6 DEF Bijection
<1>3. IsFiniteSet(ScidWorks(t)) /\ IsFiniteSet(ScidWorks(s))
  BY <1>1, ScidFinite
<1>4. Cardinality(later) = Cardinality(ScidWorks(t))
  <2> HIDE DEF later, f, t
  <2> QED
    BY <1>2, <1>3, FS_Bijection DEF ExistsBijection
<1>5. Cardinality(later) = Cardinality(ScidWorks(s)) - One(1 \in ScidWorks(s))
  <2>1. ASSUME 1 \in ScidWorks(s)
        PROVE  Cardinality(later) = Cardinality(ScidWorks(s)) - 1
    <3> HIDE DEF f, t
    <3> QED
      BY <1>3, <2>1, FS_RemoveElement
  <2>2. ASSUME 1 \notin ScidWorks(s) PROVE later = ScidWorks(s)
    BY <2>2
  <2>3. Cardinality(ScidWorks(s)) \in Nat
    BY <1>3, FS_CardinalityType
  <2> HIDE DEF later, f, t
  <2> QED
    BY <2>1, <2>2, <2>3 DEF One
<1>6. 1 \in ScidWorks(s) <=> Head(s).cmd = "AT^SCID"
  BY <1>1 DEF ScidWorks
<1>7. Cardinality(ScidWorks(s)) \in Nat /\ Cardinality(ScidWorks(t)) \in Nat
  BY <1>1, ScidFinite
<1> HIDE DEF later, f
<1> QED
  BY <1>4, <1>5, <1>6, <1>7 DEF One
-----------------------------------------------------------------------------
(***************************************************************************)
(* NoOrphanPending is not inductive: a request reaches RIL before its      *)
(* command is in the list, and an AT^SCID in dispatch stops counting once  *)
(* its answer has been offered to a parser that knows it, for then a       *)
(* message has been taken off or there was none.                           *)
(***************************************************************************)
Offered == \E j \in DOMAIN Exts : j < at.parser /\ Recognizes(Exts[j], at.final)

InThread == IF at.pc = "enqueued" \/ (at.pc = "dispatch" /\ ~Offered)
            THEN ScidAt(at.work) ELSE 0

ScidComing == IF Loaded("atsample")
              THEN Cardinality(ScidWorks(modem)) + InThread ELSE 0

Unqueued == IF at.pc = "requested" THEN 1 ELSE 0

Covered == Len(mPendingMessages) + Unqueued <=
               Cardinality(ril) + RilHolds + ScidComing + lost

PendingInv == ConservationInv /\ Covered

LEMMA CoveredInit == Init => Covered
<1> SUFFICES ASSUME Init PROVE Covered
  OBVIOUS
<1>1. /\ Len(mPendingMessages) = 0 /\ Unqueued = 0 /\ RilHolds = 0 /\ lost = 0
      /\ InThread = 0
  BY DEF Init, Unqueued, RilHolds, RilIdle, AtIdle, InThread
<1>2. Cardinality(ril) = 0
  BY FS_EmptySet DEF Init
<1>3. TypeInv
  BY TypeInit
<1>4. Cardinality(ScidWorks(modem)) \in Nat
  BY <1>3, ScidFinite DEF TypeInv, TypeOK
<1>5. ScidComing \in Nat
  BY <1>1, <1>4 DEF ScidComing
<1> QED
  BY <1>1, <1>2, <1>5 DEF Covered

LEMMA CoveredStep == PendingInv /\ [Next]_vars => Covered'
<1> SUFFICES ASSUME PendingInv, [Next]_vars PROVE Covered'
  OBVIOUS
<1>t. TypeOK /\ BusyOK /\ ReadInOrder /\ IsFiniteSet(ril)
  BY DEF PendingInv, ConservationInv, TypeInv
<1> DEFINE W == Cardinality(ScidWorks(modem))
<1>w. /\ W \in Nat /\ Len(mPendingMessages) \in Nat /\ Cardinality(ril) \in Nat
      /\ lost \in Nat /\ modem \in Seq(Work \cup {Xicfg})
      /\ mPendingMessages \in Seq(PendingMessage)
  BY <1>t, ScidFinite, FS_CardinalityType, LenProperties DEF TypeOK
<1>b. RilHolds \in {0, 1} /\ Unqueued \in {0, 1} /\ InThread \in {0, 1}
  BY DEF RilHolds, Unqueued, InThread, ScidAt
<1>c. Len(mPendingMessages) + Unqueued <=
        Cardinality(ril) + RilHolds + ScidComing + lost
  BY DEF PendingInv, Covered
<1>l. Loaded("atsample")' <=> Loaded("atsample")
  BY DEF Loaded
<1>m. modem' = modem => W' = W
  BY DEF ScidWorks
<1>s. /\ at' = at => InThread' = InThread /\ Unqueued' = Unqueued
      /\ rilThread' = rilThread => RilHolds' = RilHolds
  BY DEF InThread, Offered, Unqueued, RilHolds
<1>i. at' = AtIdle => InThread' = 0 /\ Unqueued' = 0
  BY DEF AtIdle, InThread, Unqueued
<1>r. rilThread' = RilIdle => RilHolds' = 0
  BY DEF RilIdle, RilHolds
<1>o. \A pc : at.pc = pc => /\ Unqueued = IF pc = "requested" THEN 1 ELSE 0
                            /\ pc = "enqueued" => InThread = ScidAt(at.work)
                            /\ pc \notin {"enqueued", "dispatch"} => InThread = 0
  BY DEF Unqueued, InThread
<1>g. ASSUME NEW pc, NEW w, NEW f, AtGoesOn(pc, w, f)
      PROVE  /\ Unqueued' = IF pc = "requested" THEN 1 ELSE 0
             /\ InThread' = IF pc \in {"enqueued", "dispatch"} THEN ScidAt(w) ELSE 0
  <2>1. at'.pc = pc /\ at'.work = w /\ at'.parser = 1
    BY <1>g DEF AtGoesOn
  <2>2. DOMAIN Exts = 1 .. Len(Exts)
    BY ExtsAssumption, LenProperties
  <2>3. ~Offered'
    BY <2>1, <2>2 DEF Offered
  <2> QED
    BY <2>1, <2>3 DEF Unqueued, InThread, ScidAt
<1>a. ASSUME NEW w \in Work \cup {Xicfg}, modem' = Append(modem, w)
      PROVE  W' = W + ScidAt(w)
  BY <1>a, <1>w, ScidAppend DEF One, ScidAt
<1>p. ASSUME ~NonePending, dequeuePendingMessage
      PROVE  Len(mPendingMessages') = Len(mPendingMessages) - 1
  BY <1>p, <1>w, PopBack DEF NonePending, dequeuePendingMessage
<1>q. ASSUME NEW cmd, ReadsCommand(cmd)
      PROVE  /\ Head(inbox) \in Work /\ Head(inbox).cmd = cmd /\ inbox # <<>>
             /\ InThread = 0 /\ Unqueued = 0
  BY <1>q, <1>t, HeadTailProperties DEF ReadsCommand, TypeOK, InThread, Unqueued
<1>e. ASSUME Loaded("atsample"), at.parser > Len(Exts) PROVE Offered
  <2>1. PICK k \in DOMAIN Exts : Exts[k] = "atsample"
    BY <1>e DEF Loaded
  <2>2. k < at.parser
    BY <1>e, <1>t, <2>1, ExtsAssumption, LenProperties DEF TypeOK, AtState
  <2> QED
    BY <2>1, <2>2 DEF Offered, Recognizes
<1> HIDE DEF W
<1>d. /\ ScidComing = IF Loaded("atsample") THEN W + InThread ELSE 0
      /\ ScidComing' = IF Loaded("atsample") THEN W' + InThread' ELSE 0
  BY <1>l DEF ScidComing, W
<1> DEFINE Still == Len(mPendingMessages') + Unqueued' <=
                      Cardinality(ril') + RilHolds' + ScidComing' + lost'
<1>z. SUFFICES Still
  BY DEF Covered
<1> USE DEF atVars, hostVars, history
<1>1. ASSUME NEW cmd \in HostCommand, HostSends(cmd) PROVE Still
  BY <1>1, <1>c, <1>d, <1>m, <1>s DEF HostSends
<1>2. CASE HostGivesUp
  BY <1>2, <1>c, <1>d, <1>m, <1>s DEF HostGivesUp
<1>3. ASSUME NEW cmd \in HostCommand, ForwardCommand(cmd) PROVE Still
  <2>1. Head(inbox) \in Work /\ Head(inbox).cmd = cmd
    BY <1>3, <1>q DEF ForwardCommand
  <2>2. W' = W + ScidAt(Head(inbox))
    BY <1>3, <2>1, <1>a DEF ForwardCommand
  <2> QED
    BY <1>3, <2>2, <1>b, <1>c, <1>d, <1>s, <1>w, SMTT(30) DEF ForwardCommand, ScidAt
<1>4. ASSUME NEW cmd \in HostCommand, AnswerLocally(cmd) PROVE Still
  <2>1. InThread = 0 /\ Unqueued = 0 /\ InThread' = 0 /\ Unqueued' = 0
    BY <1>4, <1>q, <1>g DEF AnswerLocally
  <2> QED
    BY <1>4, <2>1, <1>c, <1>d, <1>m, <1>s DEF AnswerLocally
<1>5. CASE CgactWrite
  <2>1. /\ Head(inbox) \in Work /\ inbox # <<>> /\ InThread = 0 /\ Unqueued = 0
        /\ InThread' = 0 /\ Unqueued' = 1
    BY <1>5, <1>q, <1>g DEF CgactWrite, RequestDataCall
  <2>2. PICK op \in {"setup", "deactivate"} :
           ril' = ril \cup {[op |-> op, work |-> Head(inbox)]}
    BY <1>5 DEF CgactWrite, RequestDataCall
  <2>3. [op |-> op, work |-> Head(inbox)] \notin ril
    <3>1. Head(inbox) = inbox[1] /\ 1 \in 1 .. Len(inbox) /\ inbox[1].id \in Nat
      BY <1>t, <2>1, EmptySeq, ElementOfSeq, WorkIds DEF TypeOK
    <3> QED
      BY <1>t, <3>1 DEF ReadInOrder
  <2>4. Cardinality(ril') = Cardinality(ril) + 1
    BY <1>t, <2>2, <2>3, FS_AddElement
  <2>5. W' = W /\ RilHolds' = RilHolds
    BY <1>5, <1>m, <1>s DEF CgactWrite, RequestDataCall
  <2> QED
    BY <1>5, <2>1, <2>4, <2>5, <1>b, <1>c, <1>d, <1>w DEF CgactWrite, RequestDataCall
<1>6. CASE SwwanWrite
  <2>1. /\ modem' = Append(modem, Head(inbox)) /\ Head(inbox) \in Work
        /\ UNCHANGED <<mPendingMessages, at, ril, rilThread, lost>>
    BY <1>6, <1>q DEF SwwanWrite, Intercepted, mToDeviceParser
  <2>2. W' = W + ScidAt(Head(inbox))
    BY <2>1, <1>a
  <2> QED
    BY <2>1, <2>2, <1>b, <1>c, <1>d, <1>s, <1>w, SMTT(30) DEF ScidAt
<1>7. CASE ScidEnqueue
  <2>1. /\ Head(inbox).cmd = "AT^SCID" /\ Head(inbox) \in Work
        /\ InThread = 0 /\ Unqueued = 0
    BY <1>7, <1>q DEF ScidEnqueue
  <2>2. InThread' = 1 /\ Unqueued' = 0
    BY <1>7, <2>1, <1>g DEF ScidEnqueue, ScidAt
  <2>3. Loaded("atsample")
    BY <1>7 DEF ScidEnqueue, Consumed, Registers, Loaded
  <2>4. Len(mPendingMessages') = Len(mPendingMessages) + 1
    <3>1. [cmd |-> "AT^SCID", id |-> Head(inbox).id] \in PendingMessage
      BY <2>1 DEF PendingMessage, PendingCommand, Work
    <3> QED
      BY <1>7, <3>1, <1>w, AppendProperties DEF ScidEnqueue, enqueuePendingMessage
  <2>5. W' = W /\ RilHolds' = RilHolds /\ ril' = ril /\ lost' = lost
    BY <1>7, <1>m, <1>s DEF ScidEnqueue
  <2> QED
    BY <2>1, <2>2, <2>3, <2>4, <2>5, <1>b, <1>c, <1>d, <1>w
<1>8. CASE WriteLocalAnswer
  <2>1. InThread = 0 /\ Unqueued = 0 /\ InThread' = 0 /\ Unqueued' = 0
    BY <1>8, <1>i, <1>o DEF WriteLocalAnswer
  <2> QED
    BY <1>8, <2>1, <1>c, <1>d, <1>m, <1>s DEF WriteLocalAnswer
<1>9. CASE CgactEnqueue
  <2>1. InThread = 0 /\ Unqueued = 1 /\ InThread' = 0 /\ Unqueued' = 0
    BY <1>9, <1>i, <1>o DEF CgactEnqueue
  <2>2. Len(mPendingMessages') = Len(mPendingMessages) + 1
    <3>1. [cmd |-> "AT+CGACT", id |-> at.work.id] \in PendingMessage
      BY <1>9, <1>t DEF CgactEnqueue, BusyOK, PendingMessage, PendingCommand, Work
    <3> QED
      BY <1>9, <3>1, <1>w, AppendProperties DEF CgactEnqueue, enqueuePendingMessage
  <2>3. W' = W /\ RilHolds' = RilHolds /\ ril' = ril /\ lost' = lost
    BY <1>9, <1>m, <1>s DEF CgactEnqueue
  <2> QED
    BY <2>1, <2>2, <2>3, <1>b, <1>c, <1>d, <1>w
<1>10. CASE ScidWrite
  <2>1. /\ InThread = ScidAt(at.work) /\ Unqueued = 0 /\ InThread' = 0
        /\ Unqueued' = 0 /\ at.work \in Work
    BY <1>10, <1>i, <1>o, <1>t DEF ScidWrite, BusyOK
  <2>2. W' = W + ScidAt(at.work)
    BY <1>10, <2>1, <1>a DEF ScidWrite
  <2>3. /\ RilHolds' = RilHolds
        /\ UNCHANGED <<mPendingMessages, ril, lost>>
    BY <1>10, <1>s DEF ScidWrite
  <2> QED
    BY <2>1, <2>2, <2>3, <1>b, <1>c, <1>d, <1>w
<1>11. CASE ModemAnswers
  <2>1. InThread = 0 /\ Unqueued = 0
    BY <1>11, <1>o DEF ModemAnswers
  <2>2. InThread' = ScidAt(Head(modem)) /\ Unqueued' = 0
    BY <1>11, <1>g DEF ModemAnswers
  <2>3. W = W' + ScidAt(Head(modem))
    BY <1>11, <1>w, ScidTail DEF ModemAnswers, One, ScidAt, W
  <2>4. /\ RilHolds' = RilHolds /\ UNCHANGED <<mPendingMessages, ril, lost>>
    BY <1>11, <1>s DEF ModemAnswers
  <2>5. W' \in Nat
    BY <2>3, <1>w, <1>11, ScidFinite, HeadTailProperties DEF ModemAnswers, W
  <2> QED
    BY <2>1, <2>2, <2>3, <2>4, <2>5, <1>b, <1>c, <1>d, <1>w DEF ScidAt
<1>12. CASE ParserSkips
  <2>1. /\ at'.pc = "dispatch" /\ at'.work = at.work /\ at'.final = at.final
        /\ at'.parser = at.parser + 1 /\ at.pc = "dispatch" /\ at.parser \in Nat
        /\ Unqueued = 0 /\ Unqueued' = 0
    BY <1>12, <1>t, NextParserType DEF ParserSkips, TypeOK, Unqueued, AtState
  <2>2. /\ W' = W /\ RilHolds' = RilHolds
        /\ UNCHANGED <<mPendingMessages, ril, lost>>
    BY <1>12, <1>m, <1>s DEF ParserSkips
  <2>3. CASE NonePending
    BY <2>1, <2>2, <2>3, <1>b, <1>d, <1>w, FS_CardinalityType, <1>i
    DEF NonePending, InThread, ScidAt
  <2>4. CASE ~Recognizes(Exts[at.parser], at.final)
    <3>1. \A j \in DOMAIN Exts : j < at'.parser <=> j < at.parser \/ j = at.parser
      BY <2>1, ExtsAssumption, LenProperties
    <3>2. Offered' <=> Offered
      BY <2>1, <2>4, <3>1 DEF Offered
    <3>3. InThread' = InThread
      BY <2>1, <3>2 DEF InThread
    <3> QED
      BY <2>1, <2>2, <3>3, <1>c, <1>d
  <2> QED
    BY <1>12, <2>3, <2>4 DEF ParserSkips
<1>13. CASE ParserCompletes
  <2>1. /\ Len(mPendingMessages') = Len(mPendingMessages) - 1 /\ W' = W
        /\ RilHolds' = RilHolds /\ ril' = ril /\ lost' = lost /\ Unqueued = 0
    BY <1>13, <1>p, <1>m, <1>s, <1>o DEF ParserCompletes
  <2>2. Unqueued' = 0 /\ InThread' \in {0, 1}
    BY <1>13, <1>i, <1>t, NextParserType
    DEF ParserCompletes, TypeOK, Unqueued, InThread, ScidAt
  <2> QED
    BY <2>1, <2>2, <1>b, <1>c, <1>d, <1>w, SMTT(30)
<1>14. CASE ForwardAnswer
  <2>1. /\ Unqueued = 0 /\ Unqueued' = 0 /\ InThread' = 0
        /\ Loaded("atsample") => InThread = 0
    BY <1>14, <1>i, <1>e DEF ForwardAnswer, Unqueued, InThread
  <2> QED
    BY <1>14, <2>1, <1>c, <1>d, <1>m, <1>s DEF ForwardAnswer
<1>15. ASSUME NEW req \in ril, NEW final \in RilFinal, RilAnswers(req, final)
       PROVE  Still
  <2>1. RilHolds = 0 /\ RilHolds' = 1
    BY <1>15 DEF RilAnswers, RilHolds
  <2>2. Cardinality(ril') = Cardinality(ril) - 1
    BY <1>15, <1>t, FS_RemoveElement DEF RilAnswers
  <2>3. /\ W' = W /\ InThread' = InThread /\ Unqueued' = Unqueued
        /\ UNCHANGED <<mPendingMessages, lost>>
    BY <1>15, <1>m, <1>s DEF RilAnswers
  <2> QED
    BY <2>1, <2>2, <2>3, <1>b, <1>c, <1>d, <1>w
<1>16. CASE RilFindsNonePending
  <2>1. RilHolds = 1 /\ RilHolds' = 0 /\ lost' = lost + 1
    BY <1>16, <1>r DEF RilFindsNonePending, RilHolds
  <2>2. /\ W' = W /\ InThread' = InThread /\ Unqueued' = Unqueued
        /\ UNCHANGED <<mPendingMessages, ril>>
    BY <1>16, <1>m, <1>s DEF RilFindsNonePending
  <2> QED
    BY <2>1, <2>2, <1>b, <1>c, <1>d, <1>w
<1>17. CASE RilCompletes
  <2>1. /\ RilHolds = 1 /\ RilHolds' = 0
        /\ Len(mPendingMessages') = Len(mPendingMessages) - 1
    BY <1>17, <1>r, <1>p DEF RilCompletes, RilHolds
  <2>2. lost' = lost \/ lost' = lost + 1
    BY <1>17 DEF RilCompletes
  <2>3. W' = W /\ InThread' = InThread /\ Unqueued' = Unqueued /\ ril' = ril
    BY <1>17, <1>m, <1>s DEF RilCompletes
  <2> QED
    BY <2>1, <2>2, <2>3, <1>b, <1>c, <1>d, <1>w
<1>18. CASE UNCHANGED vars
  BY <1>18, <1>c, <1>d, <1>m, <1>s DEF vars
<1> QED
  BY <1>1, <1>2, <1>3, <1>4, <1>5, <1>6, <1>7, <1>8, <1>9, <1>10, <1>11, <1>12,
     <1>13, <1>14, <1>15, <1>16, <1>17, <1>18
  DEF Next, AtReads, AtContinues, RilResponds, RilContinues,
      onDataCallSetup, onDataCallReleased

\* However the two threads interleave and however often the host gives up, a
\* command stays in Netconf's list only while an answer that will take one off
\* is on its way, or in exchange for a RIL answer that came too early.
THEOREM PendingListDoesNotSiltUp == Spec => []NoOrphanPending
<1>1. Init => PendingInv
  BY ConservationInit, CoveredInit DEF PendingInv
<1>2. PendingInv /\ [Next]_vars => PendingInv'
  BY TypeStep, ReadInOrderStep, ConservationStep, CoveredStep
  DEF PendingInv, ConservationInv
<1>3. PendingInv => NoOrphanPending
  <2> SUFFICES ASSUME PendingInv PROVE NoOrphanPending
    OBVIOUS
  <2>1. /\ TypeOK /\ IsFiniteSet(ril) /\ Covered
    BY DEF PendingInv, ConservationInv, TypeInv
  <2>2. /\ ScidAtModem \in Nat /\ Cardinality(ril) \in Nat
        /\ Len(mPendingMessages) \in Nat /\ lost \in Nat
        /\ ScidAtModem = Cardinality(ScidWorks(modem))
    BY <2>1, ScidFinite, FS_CardinalityType, LenProperties
    DEF TypeOK, ScidAtModem, ScidWorks
  <2>3. InThread <= ScidInThread /\ InThread \in Nat /\ ScidInThread \in Nat
    BY DEF InThread, ScidInThread, ScidAt
  <2>4. RilHolds \in {0, 1} /\ Unqueued \in {0, 1}
    BY DEF RilHolds, Unqueued
  <2>5. ScidComing <= ScidAtModem + ScidInThread /\ ScidComing \in Nat
    BY <2>2, <2>3 DEF ScidComing
  <2> QED
    BY <2>1, <2>2, <2>3, <2>4, <2>5 DEF Covered, NoOrphanPending
<1> QED
  BY <1>1, <1>2, <1>3, PTL DEF Spec
=============================================================================
