-------------------------- MODULE SmmProxyPatient ---------------------------
(***************************************************************************)
(* Theorems about SmmProxy when the host is patient: it waits for every    *)
(* answer and for AT+XICFG to be out of the way, and RIL does not answer   *)
(* before the enqueue that follows its request.  Then one command at a     *)
(* time goes round the system, and where it is says what is pending.       *)
(***************************************************************************)
EXTENDS SmmProxyProofs

Patience == MaxGiveUps = 0 /\ EarlyHost = FALSE /\ FastRil = FALSE

AtsampleAhead == \E i \in at.parser .. Len(Exts) : Exts[i] = "atsample"

\* Everything idle, but for the modem's answer to AT+XICFG.
Quiet ==
    /\ host = NoWork /\ inbox = <<>> /\ mPendingMessages = <<>>
    /\ ril = {} /\ rilThread.pc = "idle"
    /\ \/ at.pc = "idle" /\ at.work = NoWork /\ (modem = <<>> \/ modem = <<Xicfg>>)
       \/ at.pc = "dispatch" /\ at.work = Xicfg /\ modem = <<>>

\* The places where the awaited command can be.
InInbox ==
    /\ inbox = <<host>> /\ modem = <<>> /\ ril = {} /\ mPendingMessages = <<>>
    /\ at.pc = "idle" /\ at.work = NoWork /\ rilThread.pc = "idle"
Decided ==
    /\ inbox = <<>> /\ modem = <<>> /\ ril = {} /\ mPendingMessages = <<>>
    /\ at.pc = "write" /\ at.work = host /\ rilThread.pc = "idle"
Requested ==
    /\ inbox = <<>> /\ modem = <<>> /\ mPendingMessages = <<>>
    /\ host.cmd = "AT+CGACT" /\ at.pc = "requested" /\ at.work = host
    /\ \E req \in ril : ril = {req} /\ req.work = host
    /\ rilThread.pc = "idle"
AtRil ==
    /\ inbox = <<>> /\ modem = <<>> /\ mPendingMessages = <<host>>
    /\ host.cmd = "AT+CGACT" /\ at.pc = "idle" /\ at.work = NoWork
    /\ \E req \in ril : ril = {req} /\ req.work = host
    /\ rilThread.pc = "idle"
InCallback ==
    /\ inbox = <<>> /\ modem = <<>> /\ ril = {} /\ mPendingMessages = <<host>>
    /\ host.cmd = "AT+CGACT" /\ at.pc = "idle" /\ at.work = NoWork
    /\ rilThread.pc = "callback" /\ rilThread.work = host
Enqueued ==
    /\ inbox = <<>> /\ modem = <<>> /\ ril = {} /\ mPendingMessages = <<host>>
    /\ host.cmd = "AT^SCID" /\ Consumed("AT^SCID")
    /\ at.pc = "enqueued" /\ at.work = host /\ rilThread.pc = "idle"
AtModem ==
    /\ inbox = <<>> /\ modem = <<host>> /\ ril = {}
    /\ at.pc = "idle" /\ at.work = NoWork /\ rilThread.pc = "idle"
    /\ \/ mPendingMessages = <<>>
       \/ /\ mPendingMessages = <<host>>
          /\ host.cmd = "AT^SCID" /\ Consumed("AT^SCID")
Dispatched ==
    /\ inbox = <<>> /\ modem = <<>> /\ ril = {}
    /\ at.pc = "dispatch" /\ at.work = host /\ rilThread.pc = "idle"
    /\ \/ mPendingMessages = <<>>
       \/ /\ mPendingMessages = <<host>>
          /\ host.cmd = "AT^SCID" /\ AtsampleAhead

Waiting ==
    /\ host \in Work
    /\ \/ InInbox \/ Decided \/ Requested \/ AtRil
       \/ InCallback \/ Enqueued \/ AtModem \/ Dispatched

PatientInv ==
    TypeInv /\ ~crashed /\ giveUps = 0 /\ AnswersBelong /\ (Quiet \/ Waiting)

-----------------------------------------------------------------------------
LEMMA Singleton ==
    ASSUME NEW x
    PROVE  /\ <<x>> # <<>> /\ Head(<<x>>) = x /\ Tail(<<x>>) = <<>>
           /\ Append(<<>>, x) = <<x>> /\ Len(<<x>>) = 1 /\ <<x>>[1] = x
           /\ SubSeq(<<x>>, 1, Len(<<x>>) - 1) = <<>>
<1>1. /\ <<x>> # <<>> /\ Head(<<x>>) = x /\ Tail(<<x>>) = <<>>
      /\ Append(<<>>, x) = <<x>> /\ Len(<<x>>) = 1 /\ <<x>>[1] = x
  OBVIOUS
<1>2. SubSeq(<<x>>, 1, 0) = <<>>
  BY SubSeqEmpty
<1> QED
  BY <1>1, <1>2

\* A pending message is the ghost record of the command itself.
LEMMA PendingIsWork == \A w \in Work : [cmd |-> w.cmd, id |-> w.id] = w
BY DEF Work

LEMMA PatientInit == Patience /\ Init => PatientInv
<1> SUFFICES ASSUME Patience, Init PROVE PatientInv
  OBVIOUS
<1>1. Quiet
  BY DEF Init, Quiet, AtIdle, RilIdle
<1>2. ~crashed /\ giveUps = 0
  BY DEF Init
<1>3. AnswersBelong
  BY DEF Init, AnswersBelong
<1> QED
  BY <1>1, <1>2, <1>3, TypeInit DEF PatientInv

\* Answers that end a command end the right one, and leave nothing behind.
LEMMA EndsQuiet ==
    ASSUME AnswersBelong, NEW f, NEW c, host # NoWork => HostHears(host, f, c),
           host = NoWork => UNCHANGED lastAnswer
    PROVE  AnswersBelong'
BY DEF AnswersBelong, HostHears

LEMMA PatientStep == Patience /\ PatientInv /\ [Next]_vars => PatientInv'
<1> SUFFICES ASSUME Patience, PatientInv, [Next]_vars PROVE PatientInv'
  OBVIOUS
<1>t. TypeInv /\ TypeInv'
  BY TypeStep DEF PatientInv
<1>p. ~crashed /\ giveUps = 0 /\ AnswersBelong /\ (Quiet \/ Waiting)
  BY DEF PatientInv
<1>w. host \in Work => host # NoWork /\ host # Xicfg
  BY WorkIds
<1>u. ASSUME UNCHANGED <<crashed, giveUps, lastAnswer>>, (Quiet \/ Waiting)'
      PROVE  PatientInv'
  BY <1>u, <1>t, <1>p DEF PatientInv, AnswersBelong
<1> USE DEF atVars, hostVars, history
<1>1. ASSUME NEW cmd \in HostCommand, HostSends(cmd) PROVE PatientInv'
  <2>1. Quiet
    BY <1>1, <1>p, <1>w DEF HostSends, Waiting
  <2>2. modem = <<>> /\ at.pc = "idle" /\ at.work = NoWork
    <3>1. at.work # Xicfg /\ \A i \in DOMAIN modem : modem[i] # Xicfg
      BY <1>1 DEF HostSends, Settled, Patience
    <3>2. modem # <<Xicfg>>
      BY <3>1, Singleton
    <3> QED
      BY <2>1, <3>1, <3>2 DEF Quiet
  <2>3. host' \in Work
    BY <1>1, BoundsAssumption, <1>t DEF HostSends, Work, TypeInv, TypeOK
  <2>4. InInbox'
    BY <1>1, <2>1, <2>2, Singleton DEF HostSends, Quiet, InInbox
  <2> QED
    BY <1>1, <2>3, <2>4, <1>u DEF HostSends, Waiting
<1>2. CASE HostGivesUp
  BY <1>2, <1>p DEF HostGivesUp, Patience
<1>q. ASSUME NEW cmd, ReadsCommand(cmd)
      PROVE  /\ InInbox /\ host \in Work /\ Head(inbox) = host
             /\ host.cmd = cmd /\ inbox' = <<>>
  <2>1. Waiting /\ InInbox
    BY <1>q, <1>p
    DEF ReadsCommand, Quiet, Waiting, Decided, Requested, AtRil, InCallback,
        Enqueued, AtModem, Dispatched
  <2> QED
    BY <1>q, <2>1, Singleton DEF ReadsCommand, InInbox, Waiting
<1>3. ASSUME NEW cmd \in HostCommand, ForwardCommand(cmd) PROVE PatientInv'
  <2>1. AtModem'
    BY <1>3, <1>q, Singleton DEF ForwardCommand, InInbox, AtModem
  <2> QED
    BY <1>3, <1>q, <2>1, <1>u DEF ForwardCommand, Waiting
<1>4. ASSUME NEW cmd \in HostCommand, AnswerLocally(cmd) PROVE PatientInv'
  <2>1. Decided'
    BY <1>4, <1>q DEF AnswerLocally, AtGoesOn, InInbox, Decided
  <2> QED
    BY <1>4, <1>q, <2>1, <1>u DEF AnswerLocally, Waiting
<1>5. CASE CgactWrite
  <2>1. InInbox /\ host \in Work /\ host.cmd = "AT+CGACT" /\ inbox' = <<>>
    BY <1>5, <1>q DEF CgactWrite
  <2>2. PICK op \in {"setup", "deactivate"} : ril' = ril \cup {[op |-> op, work |-> host]}
    BY <1>5, <1>q DEF CgactWrite, RequestDataCall
  <2>3. ril' = {[op |-> op, work |-> host]}
    BY <2>1, <2>2 DEF InInbox
  <2>4. at'.pc = "requested" /\ at'.work = host
    BY <1>5, <1>q DEF CgactWrite, RequestDataCall, AtGoesOn
  <2>5. Requested'
    BY <1>5, <2>1, <2>3, <2>4
    DEF CgactWrite, RequestDataCall, InInbox, Requested
  <2> QED
    BY <1>5, <2>1, <2>5, <1>u DEF CgactWrite, Waiting
<1>6. CASE SwwanWrite
  <2>1. AtModem'
    BY <1>6, <1>q, Singleton
    DEF SwwanWrite, Intercepted, mToDeviceParser, InInbox, AtModem
  <2> QED
    BY <1>6, <1>q, <2>1, <1>u DEF SwwanWrite, Waiting
<1>7. CASE ScidEnqueue
  <2>1. mPendingMessages' = <<host>>
    BY <1>7, <1>q, PendingIsWork, Singleton
    DEF ScidEnqueue, enqueuePendingMessage, InInbox
  <2>2. Enqueued'
    BY <1>7, <1>q, <2>1 DEF ScidEnqueue, AtGoesOn, InInbox, Enqueued, Consumed
  <2> QED
    BY <1>7, <1>q, <2>2, <1>u DEF ScidEnqueue, Waiting
<1>8. CASE WriteLocalAnswer
  <2>1. Decided /\ host \in Work
    BY <1>8, <1>p
    DEF WriteLocalAnswer, Quiet, Waiting, InInbox, Requested, AtRil, InCallback,
        Enqueued, AtModem, Dispatched
  <2>2. AnswersBelong'
    BY <1>8, <2>1, <1>p, <1>w DEF WriteLocalAnswer, Decided, HostHears, AnswersBelong
  <2>3. Quiet'
    BY <1>8, <2>1 DEF WriteLocalAnswer, Decided, Quiet, HostHears, AtIdle
  <2> QED
    BY <1>8, <2>2, <2>3, <1>t, <1>p DEF WriteLocalAnswer, PatientInv
<1>9. CASE CgactEnqueue
  <2>1. Requested /\ host \in Work
    BY <1>9, <1>p
    DEF CgactEnqueue, Quiet, Waiting, InInbox, Decided, AtRil, InCallback,
        Enqueued, AtModem, Dispatched
  <2>2. mPendingMessages' = <<host>>
    BY <1>9, <2>1, PendingIsWork, Singleton
    DEF CgactEnqueue, Requested, enqueuePendingMessage
  <2>3. AtRil'
    BY <1>9, <2>1, <2>2 DEF CgactEnqueue, Requested, AtRil, AtIdle
  <2> QED
    BY <1>9, <2>1, <2>3, <1>u DEF CgactEnqueue, Waiting
<1>10. CASE ScidWrite
  <2>1. Enqueued /\ host \in Work
    BY <1>10, <1>p
    DEF ScidWrite, Quiet, Waiting, InInbox, Decided, Requested, AtRil, InCallback,
        AtModem, Dispatched
  <2>2. AtModem'
    BY <1>10, <2>1, Singleton DEF ScidWrite, Enqueued, AtModem, AtIdle, Consumed
  <2> QED
    BY <1>10, <2>1, <2>2, <1>u DEF ScidWrite, Waiting
<1>11. CASE ModemAnswers
  <2>1. at' = [pc |-> "dispatch", work |-> Head(modem), final |-> at'.final, parser |-> 1]
    BY <1>11 DEF ModemAnswers, AtGoesOn
  <2>2. CASE Quiet
    <3>1. modem = <<Xicfg>>
      BY <1>11, <2>2 DEF ModemAnswers, Quiet
    <3>2. Quiet'
      BY <1>11, <2>1, <2>2, <3>1, Singleton DEF ModemAnswers, Quiet
    <3> QED
      BY <1>11, <3>2, <1>u DEF ModemAnswers
  <2>3. CASE Waiting
    <3>1. AtModem /\ host \in Work
      BY <1>11, <2>3
      DEF ModemAnswers, Waiting, InInbox, Decided, Requested, AtRil, InCallback,
          Enqueued, Dispatched
    <3>2. Consumed("AT^SCID") => \E i \in 1 .. Len(Exts) : Exts[i] = "atsample"
      BY ExtsAssumption DEF Consumed, Registers
    <3>3. modem' = <<>> /\ at'.work = host /\ at'.pc = "dispatch" /\ at'.parser = 1
      BY <1>11, <2>1, <3>1, Singleton DEF ModemAnswers, AtModem
    <3>4. Dispatched'
      BY <1>11, <3>1, <3>2, <3>3 DEF ModemAnswers, AtModem, Dispatched, AtsampleAhead
    <3> QED
      BY <1>11, <3>1, <3>4, <1>u DEF ModemAnswers, Waiting
  <2> QED
    BY <2>2, <2>3, <1>p
\* In a response parser the work is AT+XICFG's or the awaited command's.
<1>d. ASSUME at.pc = "dispatch"
      PROVE  \/ Quiet /\ at.work = Xicfg /\ modem = <<>>
             \/ host \in Work /\ Dispatched
  BY <1>d, <1>p
  DEF Quiet, Waiting, InInbox, Decided, Requested, AtRil, InCallback, Enqueued, AtModem
<1>12. CASE ParserSkips
  <2>1. /\ at.pc = "dispatch" /\ at.parser \in Nat /\ at.parser <= Len(Exts)
        /\ Len(Exts) \in Nat /\ Exts \in Seq(Extension)
    BY <1>12, <1>t, ExtsAssumption DEF ParserSkips, TypeInv, TypeOK, AtState
  <2>2. at'.pc = "dispatch" /\ at'.work = at.work /\ at'.parser = at.parser + 1
    BY <1>12, <1>t, NextParserType DEF ParserSkips, TypeInv, TypeOK
  <2>3. CASE Quiet /\ at.work = Xicfg /\ modem = <<>>
    <3>1. Quiet'
      BY <1>12, <2>2, <2>3 DEF ParserSkips, Quiet
    <3> QED
      BY <1>12, <3>1, <1>u DEF ParserSkips
  <2>4. CASE host \in Work /\ Dispatched
    <3>1. AtsampleAhead /\ mPendingMessages # <<>> => AtsampleAhead'
      <4> SUFFICES ASSUME AtsampleAhead, mPendingMessages # <<>> PROVE AtsampleAhead'
        OBVIOUS
      <4>1. PICK i \in at.parser .. Len(Exts) : Exts[i] = "atsample"
        BY DEF AtsampleAhead
      <4>2. Exts[at.parser] # "atsample"
        BY <1>12 DEF ParserSkips, Recognizes, NonePending
      <4>3. i \in at.parser + 1 .. Len(Exts)
        BY <4>1, <4>2, <2>1
      <4> QED
        BY <4>1, <4>3, <2>2 DEF AtsampleAhead
    <3>2. Dispatched'
      BY <1>12, <2>2, <2>4, <3>1, Singleton DEF ParserSkips, Dispatched
    <3> QED
      BY <1>12, <2>4, <3>2, <1>u DEF ParserSkips, Waiting
  <2> QED
    BY <2>1, <2>3, <2>4, <1>d
<1>13. CASE ParserCompletes
  <2>1. /\ host \in Work /\ Dispatched /\ mPendingMessages = <<host>>
        /\ host.cmd = "AT^SCID"
    BY <1>13, <1>d DEF ParserCompletes, NonePending, Quiet, Dispatched
  <2>2. mPendingMessages' = <<>> /\ NextPending = host
    BY <1>13, <2>1, Singleton
    DEF ParserCompletes, dequeuePendingMessage, NonePending, NextPending
  <2>3. CASE CallbackWrites(NextPending.cmd, at.final)
    <3>1. HostHears(host, at.final, NextPending.cmd) /\ at' = AtIdle
      BY <1>13, <2>1, <2>3 DEF ParserCompletes, Dispatched
    <3>2. AnswersBelong' /\ Quiet'
      BY <1>13, <2>1, <2>2, <3>1, <1>p, <1>w
      DEF ParserCompletes, Dispatched, Quiet, HostHears, AnswersBelong, AtIdle
    <3> QED
      BY <1>13, <3>2, <1>t, <1>p DEF ParserCompletes, PatientInv
  <2>4. CASE ~CallbackWrites(NextPending.cmd, at.final)
    <3>1. at'.pc = "dispatch" /\ at'.work = host
      BY <1>13, <2>1, <2>4, <1>t, NextParserType
      DEF ParserCompletes, Dispatched, TypeInv, TypeOK
    <3>2. Dispatched'
      BY <1>13, <2>1, <2>2, <2>4, <3>1 DEF ParserCompletes, Dispatched
    <3> QED
      BY <1>13, <2>1, <2>4, <3>2, <1>u DEF ParserCompletes, Waiting
  <2> QED
    BY <2>3, <2>4
<1>14. CASE ForwardAnswer
  <2>1. at.parser \in Nat /\ Len(Exts) \in Nat /\ at.parser > Len(Exts)
        /\ at.pc = "dispatch"
    BY <1>14, <1>t, ExtsAssumption DEF ForwardAnswer, TypeInv, TypeOK, AtState
  <2>2. ~AtsampleAhead
    BY <2>1 DEF AtsampleAhead
  <2>3. mPendingMessages = <<>>
    BY <2>1, <2>2, <1>d DEF Quiet, Dispatched
  <2>4. Quiet'
    BY <1>14, <2>1, <2>3, <1>d
    DEF ForwardAnswer, Quiet, Dispatched, HostHears, AtIdle
  <2>5. AnswersBelong'
    BY <1>14, <2>1, <1>d, <1>p, <1>w
    DEF ForwardAnswer, Quiet, Dispatched, HostHears, AnswersBelong
  <2> QED
    BY <1>14, <2>4, <2>5, <1>t, <1>p DEF ForwardAnswer, PatientInv
<1>15. ASSUME NEW req \in ril, NEW final \in RilFinal, RilAnswers(req, final)
       PROVE  PatientInv'
  <2>1. AtRil /\ host \in Work
    <3>1. AtRil \/ (Requested /\ req.work = at.work)
      BY <1>15, <1>p
      DEF RilAnswers, Quiet, Waiting, InInbox, Decided, Requested, InCallback,
          Enqueued, AtModem, Dispatched
    <3>2. ~ (Requested /\ req.work = at.work)
      BY <1>15 DEF RilAnswers, Requested, Patience
    <3> QED
      BY <1>15, <1>p, <3>1, <3>2 DEF Quiet, Waiting
  <2>2. ril' = {} /\ req.work = host
    BY <1>15, <2>1 DEF RilAnswers, AtRil
  <2>3. InCallback'
    BY <1>15, <2>1, <2>2 DEF RilAnswers, AtRil, InCallback
  <2> QED
    BY <1>15, <2>1, <2>3, <1>u DEF RilAnswers, Waiting
<1>r. ASSUME rilThread.pc = "callback" PROVE InCallback /\ host \in Work
  BY <1>r, <1>p
  DEF Quiet, Waiting, InInbox, Decided, Requested, AtRil, Enqueued, AtModem, Dispatched
<1>16. CASE RilFindsNonePending
  BY <1>16, <1>r, Singleton DEF RilFindsNonePending, InCallback, NonePending
<1>17. CASE RilCompletes
  <2>1. InCallback /\ host \in Work
    BY <1>17, <1>r DEF RilCompletes
  <2>2. mPendingMessages' = <<>> /\ NextPending = host
    BY <1>17, <2>1, Singleton
    DEF RilCompletes, dequeuePendingMessage, NonePending, NextPending, InCallback
  <2>3. HostHears(host, rilThread.final, NextPending.cmd) /\ UNCHANGED <<crashed, lost>>
    BY <1>17, <2>1, <2>2 DEF RilCompletes, InCallback
  <2>4. AnswersBelong' /\ Quiet'
    BY <1>17, <2>1, <2>2, <2>3, <1>p, <1>w
    DEF RilCompletes, InCallback, Quiet, HostHears, AnswersBelong, RilIdle
  <2> QED
    BY <1>17, <2>3, <2>4, <1>t, <1>p DEF RilCompletes, PatientInv
<1>18. CASE UNCHANGED vars
  <2>1. (Quiet \/ Waiting)'
    BY <1>18, <1>p
    DEF vars, Quiet, Waiting, InInbox, Decided, Requested, AtRil, InCallback,
        Enqueued, AtModem, Dispatched, AtsampleAhead
  <2> QED
    BY <1>18, <2>1, <1>u DEF vars
<1> QED
  BY <1>1, <1>2, <1>3, <1>4, <1>5, <1>6, <1>7, <1>8, <1>9, <1>10, <1>11, <1>12,
     <1>13, <1>14, <1>15, <1>16, <1>17, <1>18
  DEF Next, AtReads, AtContinues, RilResponds, RilContinues,
      onDataCallSetup, onDataCallReleased

LEMMA PatientImplies == PatientInv => PendingIsAwaited /\ AnswersBelong /\ NeverCrashes
<1> SUFFICES ASSUME PatientInv PROVE PendingIsAwaited /\ AnswersBelong /\ NeverCrashes
  OBVIOUS
<1>1. mPendingMessages = <<>> \/ mPendingMessages = <<host>>
  BY DEF PatientInv, Quiet, Waiting, InInbox, Decided, Requested, AtRil, InCallback,
         Enqueued, AtModem, Dispatched
<1> QED
  BY <1>1, Singleton DEF PatientInv, PendingIsAwaited, NonePending, NeverCrashes

\* For a patient host, in every order of the extensions: only the awaited
\* command is ever pending, each command is ended by its own answer, and no
\* RIL callback finds AT^SCID pending and dereferences the null answer.
THEOREM PatientHostIsServed ==
    ASSUME Patience
    PROVE  Spec => [](PendingIsAwaited /\ AnswersBelong /\ NeverCrashes)
<1>1. Init => PatientInv
  BY PatientInit
<1>2. PatientInv /\ [Next]_vars => PatientInv'
  BY PatientStep
<1> QED
  BY <1>1, <1>2, PatientImplies, PTL DEF Spec

\* Nothing but the command the host waits for is ever in mPendingMessages.
THEOREM OnlyTheAwaitedIsPending == ASSUME Patience PROVE Spec => []PendingIsAwaited
<1>1. Spec => [](PendingIsAwaited /\ AnswersBelong /\ NeverCrashes)
  BY PatientHostIsServed
<1> QED
  BY <1>1, PTL

\* No RIL callback takes AT^SCID off the list and passes it the null answer.
THEOREM PatientHostNeverCrashes == ASSUME Patience PROVE Spec => []NeverCrashes
<1>1. Spec => [](PendingIsAwaited /\ AnswersBelong /\ NeverCrashes)
  BY PatientHostIsServed
<1> QED
  BY <1>1, PTL

-----------------------------------------------------------------------------
(***************************************************************************)
(* The library implements AtChannel: what each place of the awaited        *)
(* command says about the verdict, and which step of the channel each      *)
(* action is.                                                              *)
(***************************************************************************)
Heard == IF lastAnswer.to = NoWork THEN "undecided" ELSE Verdict(lastAnswer.final)

VerdictPlaces ==
    /\ host = NoWork => /\ AwaitedVerdict = "undecided" /\ mPendingMessages = <<>>
                        /\ ril = {} /\ at.pc \in {"idle", "dispatch"}
                        /\ at.pc = "dispatch" => at.work = Xicfg
                        /\ rilThread.pc = "idle"
    /\ host # NoWork =>
         /\ host \in Work
         /\ at.pc \in {"write", "dispatch"} =>
               /\ at.work = host /\ AwaitedVerdict = Verdict(at.final)
               /\ ril = {} /\ rilThread.pc = "idle"
         /\ rilThread.pc = "callback" =>
               /\ rilThread.work = host /\ AwaitedVerdict = rilThread.final
               /\ at.pc = "idle" /\ modem = <<>> /\ inbox = <<>>
               /\ mPendingMessages = <<host>> /\ host.cmd = "AT+CGACT"
         /\ (at.pc \notin {"write", "dispatch"} /\ rilThread.pc # "callback") =>
               AwaitedVerdict = "undecided"

LEMMA VerdictWhere == PatientInv => VerdictPlaces
<1> SUFFICES ASSUME PatientInv PROVE VerdictPlaces
  OBVIOUS
<1>1. NoWork \notin Work
  BY WorkIds
<1>2. CASE Quiet
  BY <1>2 DEF Quiet, VerdictPlaces, AwaitedVerdict
<1>3. CASE Waiting
  BY <1>1, <1>3
  DEF Waiting, InInbox, Decided, Requested, AtRil, InCallback, Enqueued, AtModem,
      Dispatched, VerdictPlaces, AwaitedVerdict
<1> QED
  BY <1>2, <1>3 DEF PatientInv

LEMMA VerdictWhereNext == PatientInv' => VerdictPlaces'
<1>1. PatientInv => VerdictPlaces
  BY VerdictWhere
<1> QED
  BY <1>1, PTL

LEMMA Verdicts ==
    /\ \A f : Verdict(f) \in RilFinal
    /\ \A f \in RilFinal : Verdict(f) = f
    /\ "undecided" \notin RilFinal
BY DEF Verdict, RilFinal

LEMMA ChannelStep ==
    ASSUME Patience, PatientInv, PatientInv', [Next]_vars
    PROVE  [Channel!Next]_(Channel!channelVars)
<1>t. TypeInv /\ VerdictPlaces /\ VerdictPlaces' /\ NoWork \notin Work
  BY VerdictWhere, VerdictWhereNext, WorkIds DEF PatientInv
<1>s. ASSUME UNCHANGED <<host, lastAnswer>>, AwaitedVerdict' = AwaitedVerdict
      PROVE  [Channel!Next]_(Channel!channelVars)
  BY <1>s DEF Channel!channelVars
<1>e. ASSUME NEW v \in RilFinal, host # NoWork, AwaitedVerdict = "undecided",
             AwaitedVerdict' = v, UNCHANGED <<host, lastAnswer>>
      PROVE  Channel!Next
  BY <1>e DEF Channel!Next, Channel!Execute
<1>a. ASSUME NEW f, NEW c, host # NoWork, HostHears(host, f, c),
             AwaitedVerdict = Verdict(f)
      PROVE  Channel!Next
  <2>1. /\ host' = NoWork /\ lastAnswer'.to = host /\ lastAnswer'.final = f
        /\ AwaitedVerdict' = "undecided" /\ AwaitedVerdict # "undecided"
    BY <1>a, <1>t, Verdicts DEF HostHears, VerdictPlaces
  <2> QED
    BY <1>a, <2>1 DEF Channel!Next, Channel!Answer
<1>h. UNCHANGED lastAnswer => Heard' = Heard
  BY DEF Heard
<1>v. ASSUME UNCHANGED <<host, at, rilThread>> PROVE AwaitedVerdict' = AwaitedVerdict
  BY <1>v DEF AwaitedVerdict
<1> USE DEF atVars, hostVars, history
<1>1. ASSUME NEW cmd \in HostCommand, HostSends(cmd) PROVE Channel!Next
  <2>1. /\ host = NoWork /\ AwaitedVerdict = "undecided" /\ UNCHANGED <<at, rilThread>>
        /\ UNCHANGED lastAnswer
    BY <1>1, <1>t DEF HostSends, VerdictPlaces
  <2>2. host' \in Work /\ host' # NoWork
    BY <1>1, <1>t, BoundsAssumption DEF HostSends, Work, TypeInv, TypeOK
  <2>3. at.pc = "idle" /\ rilThread.pc = "idle"
    BY <1>1, <1>t, <2>1 DEF HostSends, VerdictPlaces, Patience
  <2>4. AwaitedVerdict' = "undecided"
    BY <1>t, <2>1, <2>2, <2>3 DEF VerdictPlaces
  <2> QED
    BY <2>1, <2>2, <2>4, <1>h DEF Channel!Next, Channel!Issue, Heard
<1>2. CASE HostGivesUp
  BY <1>2 DEF HostGivesUp, PatientInv, Patience
<1>3. ASSUME NEW cmd \in HostCommand, ForwardCommand(cmd)
       PROVE  [Channel!Next]_(Channel!channelVars)
  BY <1>3, <1>s, <1>v DEF ForwardCommand
\* Whatever the AT thread reads is awaited, and nothing is decided yet.
<1>q. ASSUME NEW cmd, ReadsCommand(cmd)
      PROVE  /\ host # NoWork /\ AwaitedVerdict = "undecided"
             /\ at.pc = "idle" /\ rilThread.pc = "idle"
  <2>1. inbox # <<>> /\ at.pc = "idle"
    BY <1>q DEF ReadsCommand
  <2>2. host # NoWork
    BY <2>1, <1>t DEF PatientInv, Quiet, Waiting
  <2>3. rilThread.pc = "idle"
    BY <2>1, <2>2, <1>t DEF VerdictPlaces, TypeInv, TypeOK, RilState
  <2> QED
    BY <2>1, <2>2, <2>3, <1>t DEF VerdictPlaces
<1>4. ASSUME NEW cmd \in HostCommand, AnswerLocally(cmd) PROVE Channel!Next
  <2>1. PICK final \in RilFinal : AtGoesOn("write", Head(inbox), final)
    BY <1>4 DEF AnswerLocally
  <2>2. at'.pc = "write" /\ at'.final = final /\ UNCHANGED <<host, lastAnswer>>
    BY <1>4, <2>1 DEF AnswerLocally, AtGoesOn
  <2>3. AwaitedVerdict' = final
    BY <1>4, <1>q, <1>t, <2>2, Verdicts DEF AnswerLocally, VerdictPlaces
  <2> QED
    BY <1>4, <1>q, <1>e, <2>2, <2>3 DEF AnswerLocally
\* Steps after which the command is still undecided.
<1>u. ASSUME host # NoWork, AwaitedVerdict = "undecided", rilThread.pc = "idle",
             UNCHANGED <<host, lastAnswer, rilThread>>,
             at'.pc \in {"idle", "requested", "enqueued"}
      PROVE  [Channel!Next]_(Channel!channelVars)
  BY <1>u, <1>t, <1>s DEF VerdictPlaces
<1>5. CASE CgactWrite
  BY <1>5, <1>q, <1>u DEF CgactWrite, RequestDataCall, AtGoesOn
<1>6. CASE SwwanWrite
  BY <1>6, <1>s, <1>v DEF SwwanWrite, Intercepted, mToDeviceParser
<1>7. CASE ScidEnqueue
  BY <1>7, <1>q, <1>u DEF ScidEnqueue, AtGoesOn
<1>8. CASE WriteLocalAnswer
  <2>1. host # NoWork /\ at.work = host /\ AwaitedVerdict = Verdict(at.final)
    BY <1>8, <1>t DEF WriteLocalAnswer, VerdictPlaces
  <2> QED
    BY <1>8, <2>1, <1>a DEF WriteLocalAnswer
<1>9. CASE CgactEnqueue \/ ScidWrite
  <2>1. at.pc \in {"requested", "enqueued"} /\ UNCHANGED <<host, lastAnswer, rilThread>>
        /\ at'.pc = "idle"
    BY <1>9 DEF CgactEnqueue, ScidWrite, AtIdle
  <2>2. host # NoWork /\ rilThread.pc = "idle" /\ AwaitedVerdict = "undecided"
    BY <2>1, <1>t DEF VerdictPlaces, TypeInv, TypeOK, RilState
  <2> QED
    BY <2>1, <2>2, <1>u
<1>10. CASE ModemAnswers
  <2>1. /\ at.pc = "idle" /\ modem # <<>> /\ at'.pc = "dispatch"
        /\ UNCHANGED <<host, lastAnswer, rilThread>>
    BY <1>10 DEF ModemAnswers, AtGoesOn
  <2>2. CASE host = NoWork
    BY <2>1, <2>2, <1>t, <1>s DEF VerdictPlaces
  <2>3. CASE host # NoWork
    <3>1. AwaitedVerdict = "undecided"
      BY <2>1, <2>3, <1>t DEF VerdictPlaces
    <3>2. AwaitedVerdict' = Verdict(at'.final)
      BY <2>1, <2>3, <1>t DEF VerdictPlaces
    <3> QED
      BY <2>1, <2>3, <3>1, <3>2, <1>e, Verdicts
  <2> QED
    BY <2>2, <2>3
\* An answer that no parser has consumed yet keeps its verdict.
<1>d. ASSUME at.pc = "dispatch", at' = [at EXCEPT !.parser = @ + 1],
             UNCHANGED <<host, lastAnswer, rilThread>>
      PROVE  [Channel!Next]_(Channel!channelVars)
  <2>1. at'.pc = "dispatch" /\ at'.final = at.final
    BY <1>d, <1>t, NextParserType DEF TypeInv, TypeOK
  <2> QED
    BY <1>d, <2>1, <1>t, <1>s DEF VerdictPlaces
<1>11. CASE ParserSkips
  BY <1>11, <1>d DEF ParserSkips
<1>12. CASE ParserCompletes
  <2>1. host # NoWork /\ at.work = host /\ AwaitedVerdict = Verdict(at.final)
    BY <1>12, <1>t DEF ParserCompletes, NonePending, VerdictPlaces
  <2>2. CASE CallbackWrites(NextPending.cmd, at.final)
    BY <1>12, <2>1, <2>2, <1>a DEF ParserCompletes
  <2>3. CASE ~CallbackWrites(NextPending.cmd, at.final)
    BY <1>12, <2>3, <1>d DEF ParserCompletes
  <2> QED
    BY <2>2, <2>3
<1>13. CASE ForwardAnswer
  <2>1. CASE host = NoWork
    <3>1. host' = NoWork /\ UNCHANGED lastAnswer
      BY <1>13, <2>1 DEF ForwardAnswer, HostHears
    <3> QED
      BY <2>1, <3>1, <1>t, <1>s DEF VerdictPlaces
  <2>2. CASE host # NoWork
    <3>1. at.work = host /\ AwaitedVerdict = Verdict(at.final)
      BY <1>13, <2>2, <1>t DEF ForwardAnswer, VerdictPlaces
    <3> QED
      BY <1>13, <2>2, <3>1, <1>a DEF ForwardAnswer
  <2> QED
    BY <2>1, <2>2
<1>14. ASSUME NEW req \in ril, NEW final \in RilFinal, RilAnswers(req, final)
       PROVE  Channel!Next
  <2>1. /\ host # NoWork /\ AwaitedVerdict = "undecided"
        /\ UNCHANGED <<host, lastAnswer>>
    BY <1>14, <1>t DEF RilAnswers, VerdictPlaces
  <2>2. AwaitedVerdict' = final
    BY <1>14, <1>t, <2>1 DEF RilAnswers, VerdictPlaces
  <2> QED
    BY <2>1, <2>2, <1>e
<1>15. CASE RilFindsNonePending
  BY <1>15, <1>t, Singleton DEF RilFindsNonePending, NonePending, VerdictPlaces
<1>16. CASE RilCompletes
  <2>1. rilThread.pc = "callback"
    BY <1>16 DEF RilCompletes
  <2>2. /\ host # NoWork /\ rilThread.work = host /\ AwaitedVerdict = rilThread.final
        /\ mPendingMessages = <<host>> /\ host.cmd = "AT+CGACT"
    BY <2>1, <1>t DEF VerdictPlaces
  <2>3. NextPending.cmd = "AT+CGACT"
    BY <2>2, Singleton DEF NextPending
  <2>4. rilThread.final \in RilFinal
    BY <2>1, <1>t DEF TypeInv, TypeOK, RilState
  <2>5. HostHears(host, rilThread.final, "AT+CGACT")
    BY <1>16, <2>2, <2>3 DEF RilCompletes
  <2> QED
    BY <2>2, <2>4, <2>5, <1>a, Verdicts
<1>17. CASE UNCHANGED vars
  BY <1>17, <1>s, <1>v DEF vars
<1> QED
  BY <1>1, <1>2, <1>3, <1>4, <1>5, <1>6, <1>7, <1>8, <1>9, <1>10, <1>11, <1>12,
     <1>13, <1>14, <1>15, <1>16, <1>17
  DEF Next, AtReads, AtContinues, RilResponds, RilContinues,
      onDataCallSetup, onDataCallReleased

\* For a patient host the library is an AT channel: whatever the order of the
\* extensions and the timing of modem and RIL, the host is told the verdict of
\* the command it waits for, once it has one, and nothing else.
THEOREM PatientHostHasChannel ==
    ASSUME Patience PROVE Spec => ImplementsChannelSafely
<1>1. Init => PatientInv /\ Channel!Init
  <2>1. Init => Channel!Init
    BY DEF Init, Channel!Init, AwaitedVerdict, AtIdle, RilIdle
  <2> QED
    BY <2>1, PatientInit
<1>2. PatientInv /\ [Next]_vars => PatientInv'
  BY PatientStep
<1>3. PatientInv /\ PatientInv' /\ [Next]_vars => [Channel!Next]_(Channel!channelVars)
  BY ChannelStep
<1> QED
  BY <1>1, <1>2, <1>3, PTL DEF Spec, ImplementsChannelSafely
=============================================================================
