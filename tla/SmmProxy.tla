------------------------------ MODULE SmmProxy ------------------------------
(***************************************************************************)
(* How the smart modem manager relays AT commands and their answers.       *)
(*                                                                         *)
(* The host's commands enter by smmcore_cmd_process, the modem's answers   *)
(* by smmcore_rsp_process; one AT thread makes both calls.  A command is   *)
(* answered on the spot, rewritten and sent to the modem, turned into a    *)
(* request to the RIL daemon, or refused, in which case the caller passes  *)
(* it on to the modem untouched.  RIL answers arrive on the RIL client's   *)
(* thread.  Both threads meet in Netconf's list of pending messages, which *)
(* has no lock and does not say which answer a message waits for.          *)
(*                                                                         *)
(* Work is a ghost record that follows a host command, or the AT+XICFG     *)
(* that the netconf extension sends by itself (id 0), wherever it goes, so *)
(* that properties can tell whose answer an answer is.                     *)
(***************************************************************************)
EXTENDS Integers, Sequences, FiniteSets

CONSTANTS
    Exts,          \* loaded extensions in readdir order, the parsers' order
    MaxCommands,   \* bound: commands the host sends
    MaxGiveUps,    \* bound: commands the host stops waiting for
    EarlyHost,     \* may the host send before AT+XICFG has been answered?
    FastRil        \* may RIL answer before its request has been enqueued?

Extension == {"netconf", "atsample"}

ASSUME ExtsAssumption ==
    /\ Exts \in Seq(Extension)
    /\ \A i, j \in DOMAIN Exts : Exts[i] = Exts[j] => i = j
ASSUME BoundsAssumption == MaxCommands \in Nat /\ MaxGiveUps \in Nat
ASSUME SwitchAssumption == EarlyHost \in BOOLEAN /\ FastRil \in BOOLEAN

(***************************************************************************)
(* Commands.  "local" stands for every command a handler answers before it *)
(* returns (ATZ, AT+CGDCONT, AT^SPIO, ...), "other" for every command no   *)
(* extension consumes: unknown names, tests left to the modem, messages of *)
(* more than MAX_SMM_MESSAGE_SIZE bytes.                                   *)
(***************************************************************************)
HostCommand == {"AT+CGACT", "AT^SCID", "AT^SWWAN", "local", "other"}

Registers(ext, cmd) ==
    \/ ext = "netconf" /\ cmd \in {"AT+CGACT", "local"}
    \/ ext = "atsample" /\ cmd \in {"AT^SCID", "AT^SWWAN", "local"}

Consumed(cmd) == \E i \in DOMAIN Exts : Registers(Exts[i], cmd)

Loaded(ext) == \E i \in DOMAIN Exts : Exts[i] = ext

NoWork == [cmd |-> "none", id |-> 0]
Xicfg  == [cmd |-> "AT+XICFG", id |-> 0]
Work   == [cmd : HostCommand, id : 1 .. MaxCommands]

\* Final answers; "+CCID OK" is the information line and its OK in one read.
\* A +CCID line read alone is an unsolicited message to every parser: it goes
\* to the host raw and changes nothing, so "OK" after it is all that counts.
ModemFinal == {"OK", "ERROR", "CME ERROR", "+CCID OK"}
RilFinal   == {"OK", "ERROR"}

Verdict(final) == IF final \in {"OK", "+CCID OK"} THEN "OK" ELSE "ERROR"

VARIABLES
    inbox,            \* commands sent and not yet read by the AT thread
    host,             \* the command whose final answer the host waits for
    mPendingMessages, \* Netconf's list; its last element is the next to go
    at,               \* the AT thread: pc, its work, an answer, a parser index
    modem,            \* commands the modem has to answer, oldest first
    ril,              \* data call requests the RIL daemon has to answer
    rilThread,        \* the RIL client's thread, inside a response callback
    crashed,          \* the process has dereferenced a null message
    sent, giveUps,    \* history: commands sent, given up
    answers,          \* history: final answers the host has received
    lost,             \* history: RIL answers that reached no command
    lastAnswer        \* history: the last answer that ended a command

atVars   == <<mPendingMessages, at, modem, ril>>
hostVars == <<host, answers, lastAnswer>>
history  == <<sent, giveUps, lost, crashed>>
vars     == <<inbox, atVars, rilThread, hostVars, history>>

AtIdle  == [pc |-> "idle", work |-> NoWork, final |-> "OK", parser |-> 0]
RilIdle == [pc |-> "idle", work |-> NoWork, final |-> "OK"]

Init ==
    /\ inbox = <<>> /\ host = NoWork
    /\ mPendingMessages = <<>>
    /\ at = AtIdle
    /\ modem = IF Loaded("netconf") THEN <<Xicfg>> ELSE <<>>
    /\ ril = {} /\ rilThread = RilIdle
    /\ crashed = FALSE
    /\ sent = 0 /\ giveUps = 0 /\ answers = 0 /\ lost = 0
    /\ lastAnswer = [to |-> NoWork, from |-> NoWork, final |-> "OK", by |-> "none"]
-----------------------------------------------------------------------------
(***************************************************************************)
(* The host.  It keeps to one command at a time, but may stop waiting and  *)
(* send the next one while the first is still being carried out.           *)
(***************************************************************************)
Settled == \A i \in DOMAIN modem : modem[i] # Xicfg

HostSends(cmd) ==
    LET w == [cmd |-> cmd, id |-> sent + 1]
    IN  /\ ~crashed /\ host = NoWork /\ sent < MaxCommands
        /\ EarlyHost \/ (Settled /\ at.work # Xicfg)
        /\ sent' = sent + 1
        /\ host' = w
        /\ inbox' = Append(inbox, w)
        /\ UNCHANGED <<atVars, rilThread, answers, lastAnswer, giveUps, lost, crashed>>

HostGivesUp ==
    /\ ~crashed /\ host # NoWork /\ giveUps < MaxGiveUps
    /\ giveUps' = giveUps + 1
    /\ host' = NoWork
    /\ UNCHANGED <<inbox, atVars, rilThread, answers, lastAnswer, sent, lost, crashed>>

\* A final answer reaches the host, which takes it for the answer to whatever
\* it is waiting for.  "from" is the work it answers; "by" is the command whose
\* callback wrote it, or "raw" for an answer of the modem passed on untouched.
HostHears(from, final, by) ==
    /\ answers' = answers + 1
    /\ host' = NoWork
    /\ lastAnswer' = IF host = NoWork
                     THEN lastAnswer
                     ELSE [to |-> host, from |-> from, final |-> final, by |-> by]
-----------------------------------------------------------------------------
(***************************************************************************)
(* Netconf's pending messages.                                             *)
(***************************************************************************)
PendingCommand == {"AT+CGACT", "AT^SCID"}

enqueuePendingMessage(cmd, w) ==
    mPendingMessages' = Append(mPendingMessages, [cmd |-> cmd, id |-> w.id])

NonePending == mPendingMessages = <<>>
NextPending == mPendingMessages[Len(mPendingMessages)]

\* Mutant: the dequeued message is not popped.
Mut_dequeueKeeps == mPendingMessages' = mPendingMessages

dequeuePendingMessage ==
    mPendingMessages' = IF NonePending THEN <<>>
                        ELSE SubSeq(mPendingMessages, 1, Len(mPendingMessages) - 1)
-----------------------------------------------------------------------------
(***************************************************************************)
(* The AT thread inside smmcore_cmd_process.                               *)
(***************************************************************************)
ReadsCommand(cmd) ==
    /\ ~crashed /\ at.pc = "idle" /\ inbox # <<>> /\ Head(inbox).cmd = cmd
    /\ inbox' = Tail(inbox)

AtGoesOn(pc, w, final) ==
    at' = [pc |-> pc, work |-> w, final |-> final, parser |-> 1]

\* No parser consumes the command: smmcore_cmd_process returns false and the
\* caller sends the host's bytes to the modem.
ForwardCommand(cmd) ==
    /\ ReadsCommand(cmd) /\ ~Consumed(cmd)
    /\ modem' = Append(modem, Head(inbox))
    /\ UNCHANGED <<mPendingMessages, at, ril, rilThread, hostVars, history>>

\* Mutant: AT+CGACT is enqueued although setupDataCall has failed.
Mut_answerLocallyEnqueues(cmd) ==
    /\ ReadsCommand(cmd) /\ Consumed(cmd)
    /\ enqueuePendingMessage("AT+CGACT", Head(inbox))
    /\ \E final \in RilFinal : AtGoesOn("write", Head(inbox), final)
    /\ UNCHANGED <<modem, ril, rilThread, hostVars, history>>

\* A handler that decides at once: it will write OK or ERROR to the host.
AnswerLocally(cmd) ==
    /\ ReadsCommand(cmd) /\ Consumed(cmd)
    /\ \E final \in RilFinal : AtGoesOn("write", Head(inbox), final)
    /\ UNCHANGED <<mPendingMessages, modem, ril, rilThread, hostVars, history>>

WriteLocalAnswer ==
    /\ ~crashed /\ at.pc = "write"
    /\ HostHears(at.work, at.final, at.work.cmd)
    /\ at' = AtIdle
    /\ UNCHANGED <<inbox, mPendingMessages, modem, ril, rilThread, history>>

\* setupDataCall or releaseDataCall has put the request on its way to RIL; the
\* command is not in the list of pending messages yet.
RequestDataCall(w) ==
    /\ \E op \in {"setup", "deactivate"} : ril' = ril \cup {[op |-> op, work |-> w]}
    /\ AtGoesOn("requested", w, "OK")
    /\ UNCHANGED <<mPendingMessages, modem>>

CgactWrite ==
    /\ ReadsCommand("AT+CGACT") /\ Consumed("AT+CGACT")
    /\ RequestDataCall(Head(inbox))
    /\ UNCHANGED <<rilThread, hostVars, history>>

\* Mutant: AT+CGACT answers OK without waiting for RIL.
Mut_cgactAnswersEarly ==
    /\ ~crashed /\ at.pc = "requested"
    /\ HostHears(at.work, "OK", "AT+CGACT")
    /\ at' = AtIdle
    /\ UNCHANGED <<inbox, mPendingMessages, modem, ril, rilThread, history>>

CgactEnqueue ==
    /\ ~crashed /\ at.pc = "requested"
    /\ enqueuePendingMessage("AT+CGACT", at.work)
    /\ at' = AtIdle
    /\ UNCHANGED <<inbox, modem, ril, rilThread, hostVars, history>>

\* What ProxyOutputWriter.writeToDevice does with an AT command: it offers the
\* text to a root parser first.  The parser it is given for that direction is
\* the root RESPONSE parser, and no command looks like a response.
mToDeviceParser == "response"

Intercepted(cmd) == mToDeviceParser = "command" /\ Consumed(cmd)

\* Mutant: AT^SWWAN enqueues itself as AT^SCID does.
Mut_swwanEnqueues ==
    /\ ReadsCommand("AT^SWWAN") /\ Consumed("AT^SWWAN")
    /\ enqueuePendingMessage("AT^SWWAN", Head(inbox))
    /\ modem' = Append(modem, Head(inbox))
    /\ UNCHANGED <<at, ril, rilThread, hostVars, history>>

\* AT^SWWAN is rewritten as AT+CGACT and forgotten: nothing is enqueued.
SwwanWrite ==
    /\ ReadsCommand("AT^SWWAN") /\ Consumed("AT^SWWAN")
    /\ IF Intercepted("AT+CGACT")
       THEN RequestDataCall(Head(inbox))
       ELSE /\ modem' = Append(modem, Head(inbox))
            /\ UNCHANGED <<mPendingMessages, at, ril>>
    /\ UNCHANGED <<rilThread, hostVars, history>>

\* AT^SCID is enqueued first and then rewritten as AT+CCID.
ScidEnqueue ==
    /\ ReadsCommand("AT^SCID") /\ Consumed("AT^SCID")
    /\ enqueuePendingMessage("AT^SCID", Head(inbox))
    /\ AtGoesOn("enqueued", Head(inbox), "OK")
    /\ UNCHANGED <<modem, ril, rilThread, hostVars, history>>

ScidWrite ==
    /\ ~crashed /\ at.pc = "enqueued"
    /\ modem' = Append(modem, at.work)
    /\ at' = AtIdle
    /\ UNCHANGED <<inbox, mPendingMessages, ril, rilThread, hostVars, history>>
-----------------------------------------------------------------------------
(***************************************************************************)
(* The AT thread inside smmcore_rsp_process: the answer is offered to the  *)
(* response parser of each extension in turn, until one consumes it.       *)
(***************************************************************************)
\* The finals the modem may give to what it was asked.
MayAnswer(w, final) ==
    final = "+CCID OK" => w.cmd \in {"AT^SCID", "other"}

ModemAnswers ==
    /\ ~crashed /\ at.pc = "idle" /\ modem # <<>>
    /\ modem' = Tail(modem)
    /\ \E final \in ModemFinal :
          /\ MayAnswer(Head(modem), final)
          /\ AtGoesOn("dispatch", Head(modem), final)
    /\ UNCHANGED <<inbox, mPendingMessages, ril, rilThread, hostVars, history>>

\* Every extension's parser knows OK, ERROR and +CME ERROR; atsample's alone
\* knows +CCID.
Recognizes(ext, final) == final = "+CCID OK" => ext = "atsample"

\* onSuccess of AT^SCID writes only if the answer is a +CCID, and otherwise
\* leaves the answer alone; every other onSuccess and onError writes.
CallbackWrites(cmd, final) == cmd = "AT^SCID" => final # "OK"

ParserSkips ==
    /\ ~crashed /\ at.pc = "dispatch" /\ at.parser <= Len(Exts)
    /\ ~Recognizes(Exts[at.parser], at.final) \/ NonePending
    /\ at' = [at EXCEPT !.parser = @ + 1]
    /\ UNCHANGED <<inbox, mPendingMessages, modem, ril, rilThread, hostVars, history>>

\* Mutant: a callback writes its answer and still returns false.
Mut_parserWritesAndPasses ==
    /\ ~crashed /\ at.pc = "dispatch" /\ at.parser <= Len(Exts)
    /\ Recognizes(Exts[at.parser], at.final) /\ ~NonePending
    /\ dequeuePendingMessage
    /\ HostHears(at.work, at.final, NextPending.cmd)
    /\ at' = [at EXCEPT !.parser = @ + 1]
    /\ UNCHANGED <<inbox, modem, ril, rilThread, history>>

ParserCompletes ==
    /\ ~crashed /\ at.pc = "dispatch" /\ at.parser <= Len(Exts)
    /\ Recognizes(Exts[at.parser], at.final) /\ ~NonePending
    /\ dequeuePendingMessage
    /\ IF CallbackWrites(NextPending.cmd, at.final)
       THEN HostHears(at.work, at.final, NextPending.cmd) /\ at' = AtIdle
       ELSE at' = [at EXCEPT !.parser = @ + 1] /\ UNCHANGED hostVars
    /\ UNCHANGED <<inbox, modem, ril, rilThread, history>>

\* Mutant: the composite parser claims an answer nobody has consumed.
Mut_answerSwallowed ==
    /\ ~crashed /\ at.pc = "dispatch" /\ at.parser > Len(Exts)
    /\ at' = AtIdle
    /\ UNCHANGED <<inbox, mPendingMessages, modem, ril, rilThread, hostVars, history>>

\* No parser consumes the answer: smmcore_rsp_process returns false and the
\* caller passes the modem's bytes to the host.
ForwardAnswer ==
    /\ ~crashed /\ at.pc = "dispatch" /\ at.parser > Len(Exts)
    /\ HostHears(at.work, at.final, "raw")
    /\ at' = AtIdle
    /\ UNCHANGED <<inbox, mPendingMessages, modem, ril, rilThread, history>>
-----------------------------------------------------------------------------
(***************************************************************************)
(* The RIL client's thread.                                                *)
(***************************************************************************)
RilAnswers(req, final) ==
    /\ ~crashed /\ rilThread.pc = "idle"
    /\ FastRil \/ at.pc # "requested" \/ at.work # req.work
    /\ ril' = ril \ {req}
    /\ rilThread' = [pc |-> "callback", work |-> req.work, final |-> final]
    /\ UNCHANGED <<inbox, mPendingMessages, at, modem, hostVars, history>>

onDataCallSetup(req, final) == req.op = "setup" /\ RilAnswers(req, final)

onDataCallReleased(req, final) == req.op = "deactivate" /\ RilAnswers(req, final)

\* The common end of both callbacks.  The callback of the dequeued message is
\* given a null answer, which only AT^SCID's onSuccess looks at.
RilFindsNonePending ==
    /\ ~crashed /\ rilThread.pc = "callback" /\ NonePending
    /\ lost' = lost + 1
    /\ rilThread' = RilIdle
    /\ UNCHANGED <<inbox, atVars, hostVars, sent, giveUps, crashed>>

\* Mutant: onSuccess is called whatever RIL has answered.
Mut_rilAlwaysSucceeds ==
    /\ ~crashed /\ rilThread.pc = "callback" /\ ~NonePending
    /\ dequeuePendingMessage
    /\ HostHears(rilThread.work, "OK", NextPending.cmd)
    /\ rilThread' = RilIdle
    /\ UNCHANGED <<inbox, at, modem, ril, history>>

RilCompletes ==
    /\ ~crashed /\ rilThread.pc = "callback" /\ ~NonePending
    /\ dequeuePendingMessage
    /\ IF NextPending.cmd = "AT^SCID" /\ rilThread.final = "OK"
       THEN crashed' = TRUE /\ lost' = lost + 1 /\ UNCHANGED hostVars
       ELSE /\ HostHears(rilThread.work, rilThread.final, NextPending.cmd)
            /\ UNCHANGED <<crashed, lost>>
    /\ rilThread' = RilIdle
    /\ UNCHANGED <<inbox, at, modem, ril, sent, giveUps>>
-----------------------------------------------------------------------------
AtReads ==
    \/ \E cmd \in HostCommand : ForwardCommand(cmd)
    \/ \E cmd \in HostCommand : AnswerLocally(cmd)
    \/ CgactWrite \/ SwwanWrite \/ ScidEnqueue

AtContinues ==
    \/ WriteLocalAnswer \/ CgactEnqueue \/ ScidWrite
    \/ ParserSkips \/ ParserCompletes \/ ForwardAnswer

RilResponds == \E req \in ril, final \in RilFinal :
                  onDataCallSetup(req, final) \/ onDataCallReleased(req, final)

RilContinues == RilFindsNonePending \/ RilCompletes

Next ==
    \/ \E cmd \in HostCommand : HostSends(cmd)
    \/ HostGivesUp
    \/ AtReads \/ AtContinues \/ ModemAnswers
    \/ RilResponds \/ RilContinues

Spec == Init /\ [][Next]_vars

\* The AT thread and the RIL client's thread keep running, and the modem and
\* the RIL daemon answer what they are asked.  The host owes nothing.
Fairness ==
    /\ WF_vars(AtReads) /\ WF_vars(AtContinues) /\ WF_vars(ModemAnswers)
    /\ WF_vars(RilResponds) /\ WF_vars(RilContinues)

FairSpec == Spec /\ Fairness
-----------------------------------------------------------------------------
(***************************************************************************)
(* Properties.                                                             *)
(***************************************************************************)
PendingMessage == [cmd : PendingCommand, id : 1 .. MaxCommands]
AtState == [pc : {"idle", "write", "requested", "enqueued", "dispatch"},
            work : Work \cup {NoWork, Xicfg}, final : ModemFinal, parser : Nat]
RilRequest == [op : {"setup", "deactivate"}, work : Work]
RilState == [pc : {"idle", "callback"}, work : Work \cup {NoWork}, final : RilFinal]
HeardAnswer == [to : Work \cup {NoWork}, from : Work \cup {NoWork, Xicfg},
                final : ModemFinal, by : HostCommand \cup {"raw", "none"}]

\* The shape of every variable: pending messages are commands some handler
\* enqueues, no matter in which order the two threads touch the list, and
\* nobody but AT+XICFG travels without a host command behind it.
TypeOK ==
    /\ inbox \in Seq(Work)
    /\ host \in Work \cup {NoWork}
    /\ mPendingMessages \in Seq(PendingMessage)
    /\ at \in AtState
    /\ modem \in Seq(Work \cup {Xicfg})
    /\ ril \subseteq RilRequest
    /\ rilThread \in RilState
    /\ crashed \in BOOLEAN
    /\ sent \in 0 .. MaxCommands /\ giveUps \in 0 .. MaxGiveUps
    /\ answers \in Nat /\ lost \in Nat
    /\ lastAnswer \in HeardAnswer

\* Work still on its way to an answer: in the AT thread, at the modem, at the
\* RIL daemon or in a RIL callback.
AtHolds  == IF at.pc \in {"write", "enqueued", "dispatch"} THEN 1 ELSE 0
RilHolds == IF rilThread.pc = "callback" THEN 1 ELSE 0
InFlight == Len(inbox) + AtHolds + Len(modem) + Cardinality(ril) + RilHolds
Autonomous == IF Loaded("netconf") THEN 1 ELSE 0

\* However the threads interleave and whoever gives up, the two paths a final
\* answer can take (consumed by a callback that writes one, or passed on raw)
\* never both happen and never both fail: the host hears one answer for each
\* command sent, AT+XICFG included, except those still in flight and those
\* lost in a RIL callback.
AnswersConserved == answers + lost + InFlight = sent + Autonomous

ScidAt(w) == IF w.cmd = "AT^SCID" THEN 1 ELSE 0
ScidAtModem == Cardinality({i \in DOMAIN modem : modem[i].cmd = "AT^SCID"})
ScidInThread == IF at.pc \in {"enqueued", "dispatch"} THEN ScidAt(at.work) ELSE 0

\* Every pending message either has an answer coming that will take it (or an
\* older one) off the list, or is the price of a RIL answer that came before
\* its command was enqueued: the list cannot silt up otherwise, even if the
\* host gives up and answers arrive in an order nobody asked for.
NoOrphanPending ==
    Len(mPendingMessages) <=
        Cardinality(ril) + RilHolds + ScidAtModem + ScidInThread + lost

\* With a patient host, the only message that can be pending is the command
\* the host is waiting for: Netconf.enqueuePendingMessage never meets its
\* "Suspicious situation".
PendingIsAwaited ==
    \/ NonePending
    \/ /\ Len(mPendingMessages) = 1
       /\ mPendingMessages[1] = host

\* The answer that ends a command is the one its own execution yielded.
AnswersBelong == lastAnswer.to = lastAnswer.from

\* AT^SCID is never completed from a RIL callback, whose null answer its
\* onSuccess would dereference.
NeverCrashes == ~crashed

\* Every command the host waits for is answered or given up.
EveryWaitEnds == \A n \in 1 .. MaxCommands : host.id = n ~> host.id # n

\* CCIDResponse.executeAsReply: the +CCID is translated "only" when AT^SCID is
\* pending, so no other command's callback is ever handed one.
CcidOnlyForScid ==
    lastAnswer.final = "+CCID OK" => lastAnswer.by \in {"AT^SCID", "raw"}

\* The verdict reached for the command the host waits for, once there is one.
AwaitedVerdict ==
    IF host # NoWork /\ at.pc \in {"write", "dispatch"} /\ at.work = host
    THEN Verdict(at.final)
    ELSE IF host # NoWork /\ rilThread.pc = "callback" /\ rilThread.work = host
         THEN rilThread.final
         ELSE "undecided"

Channel == INSTANCE AtChannel WITH
    Command <- Work, Outcome <- RilFinal,
    NoCommand <- NoWork, Undecided <- "undecided",
    command <- host, verdict <- AwaitedVerdict,
    heard <- IF lastAnswer.to = NoWork THEN "undecided" ELSE Verdict(lastAnswer.final)

\* For a patient host the library is an AT channel: each command is answered
\* once, eventually, with the verdict of its own execution.
ImplementsChannel == Channel!Spec

\* Its safety part: every step of the library is a step of the channel or none.
ImplementsChannelSafely == Channel!Init /\ [][Channel!Next]_(Channel!channelVars)
=============================================================================
