----------------------------- MODULE AtChannel ------------------------------
(***************************************************************************)
(* What an AT command channel promises to the host that uses it.  The host *)
(* has one command outstanding at a time.  Somebody (this library, the     *)
(* modem or the RIL daemon) carries the command out and reaches a verdict, *)
(* and the host is then told exactly that verdict, once.                   *)
(*                                                                         *)
(* SmmProxy is shown to implement this channel.                            *)
(***************************************************************************)
CONSTANTS Command, Outcome, NoCommand, Undecided

VARIABLES
    command,    \* the command the host waits for, or NoCommand
    verdict,    \* what its execution has yielded so far
    heard       \* the verdict the host was told last

channelVars == <<command, verdict, heard>>

ChannelTypeOK == /\ command \in Command \cup {NoCommand}
                 /\ verdict \in Outcome \cup {Undecided}
                 /\ heard \in Outcome \cup {Undecided}

Init == command = NoCommand /\ verdict = Undecided /\ heard = Undecided

Issue(c) == /\ command = NoCommand
            /\ command' = c
            /\ UNCHANGED <<verdict, heard>>

Execute(v) == /\ command # NoCommand
              /\ verdict = Undecided
              /\ verdict' = v
              /\ UNCHANGED <<command, heard>>

Answer == /\ verdict # Undecided
          /\ heard' = verdict
          /\ command' = NoCommand
          /\ verdict' = Undecided

Next == \/ \E c \in Command : Issue(c)
        \/ \E v \in Outcome : Execute(v)
        \/ Answer

Fairness == /\ WF_channelVars(\E v \in Outcome : Execute(v))
            /\ WF_channelVars(Answer)

Spec == Init /\ [][Next]_channelVars /\ Fairness
=============================================================================
