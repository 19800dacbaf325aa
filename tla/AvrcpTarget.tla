---------------------------- MODULE AvrcpTarget ----------------------------
(***************************************************************************)
(* AvrcpTarget of the Bluetooth kit: one L2CAP socket, the thread that      *)
(* connects and disconnects, the receive thread that answers commands, and *)
(* a thread that tells the remote control of a new volume.                 *)
(***************************************************************************)
EXTENDS Integers, Sequences

CONSTANTS
    MaxConnects, \* bound: calls of Connect()
    MaxCommands  \* bound: commands of the remote control, volume changes, and failures

VARIABLES
    target,  \* fConnected, fSocket, fRecvThread
    client,  \* the thread that calls Connect() and Disconnect()
    app,     \* the thread that calls NotifyVolumeChange()
    receiver,\* the receive thread: where it stands, the command it handles
    remote,  \* the remote control: is its end of the channel open, what was it told
    inbox,   \* commands on their way
    used     \* connects and commands so far

avrcpVars == <<target, client, app, receiver, remote, inbox, used>>

Opcodes == {"pass_through", "set_volume", "register_volume", "register_other", "other_pdu", "other_opcode",
            "short", "response"}
\* What _RecvLoop(), _HandlePassThrough() and _HandleVendorDependent() answer.
AnswerOf == [pass_through |-> "accepted", set_volume |-> "accepted", register_volume |-> "interim",
             register_other |-> "rejected", other_pdu |-> "rejected", other_opcode |-> "rejected"]

Spend(what) == used' = [used EXCEPT ![what] = @ + 1]
MayFail == used.commands < MaxCommands

\* Connect(), as the clients call it: only after Disconnect().
AvrcpConnect(made) ==
    /\ client = "idle" /\ ~target.connected /\ target.thread = "none" /\ used.connects < MaxConnects
    /\ Spend("connects")
    /\ target' = IF made THEN [target EXCEPT !.connected = TRUE, !.socket = TRUE] ELSE target
    /\ remote' = [remote EXCEPT !.open = made]
    /\ inbox' = <<>>
    /\ client' = IF made THEN "spawn" ELSE "idle"
    /\ UNCHANGED <<app, receiver>>

SpawnReceiver(made) ==
    /\ client = "spawn"
    /\ made \/ MayFail
    /\ target' = [target EXCEPT !.thread = IF made THEN "running" ELSE "none"]
    /\ receiver' = [receiver EXCEPT !.at = IF made THEN "check" ELSE "none"]
    /\ client' = IF made THEN "idle" ELSE "disconnect"
    /\ used' = [used EXCEPT !.commands = IF made THEN @ ELSE @ + 1]
    /\ UNCHANGED <<app, remote, inbox>>

CallsDisconnect ==
    /\ client = "idle" /\ target.thread = "running"
    /\ client' = "disconnect"
    /\ UNCHANGED <<target, app, receiver, remote, inbox, used>>

\* Disconnect(): the flag, the socket, the thread.
ClearsFlag ==
    /\ client = "disconnect"
    /\ target' = [target EXCEPT !.connected = FALSE]
    /\ client' = "close"
    /\ UNCHANGED <<app, receiver, remote, inbox, used>>

ShutsSocket ==
    /\ client = "close"
    /\ target' = [target EXCEPT !.socket = FALSE]
    /\ remote' = [remote EXCEPT !.open = FALSE]
    /\ client' = "join"
    /\ UNCHANGED <<app, receiver, inbox, used>>

WaitsForThread ==
    /\ client = "join" /\ (target.thread = "running" => receiver.at = "ended")
    /\ target' = [target EXCEPT !.thread = "none"]
    /\ receiver' = [receiver EXCEPT !.at = "none"]
    /\ client' = "idle"
    /\ UNCHANGED <<app, remote, inbox, used>>

\* NotifyVolumeChange(): the check of the socket, and then its use.
NotifyVolumeChange ==
    /\ app = "idle" /\ target.connected /\ target.socket /\ MayFail
    /\ Spend("commands")
    /\ app' = "send"
    /\ UNCHANGED <<target, client, receiver, remote, inbox>>

SendsChanged ==
    /\ app = "send"
    /\ remote' = IF target.socket /\ remote.open THEN [remote EXCEPT !.told = "changed"] ELSE remote
    /\ app' = "idle"
    /\ UNCHANGED <<target, client, receiver, inbox, used>>

\* _RecvLoop()
ChecksFlag ==
    /\ receiver.at = "check"
    /\ receiver' = [receiver EXCEPT !.at = IF target.connected THEN "recv" ELSE "ended"]
    /\ UNCHANGED <<target, client, app, remote, inbox, used>>

\* A command, a timeout, or the end: then the flag is cleared.
Receives ==
    /\ receiver.at = "recv"
    /\ IF target.socket /\ inbox # <<>>
       THEN /\ receiver' = [at |-> "answer", command |-> Head(inbox)]
            /\ inbox' = Tail(inbox) /\ UNCHANGED target
       ELSE LET alive == target.socket /\ remote.open
            IN  /\ receiver' = [receiver EXCEPT !.at = IF alive THEN "check" ELSE "ended"]
                /\ target' = [target EXCEPT !.connected = @ /\ alive]
                /\ UNCHANGED inbox
    /\ UNCHANGED <<client, app, remote, used>>

\* The handlers: the answer goes out if there still is a socket, and the
\* callback is called.  What is too short, or no command, has no answer.
Answers ==
    /\ receiver.at = "answer"
    /\ remote' = IF target.socket /\ remote.open /\ receiver.command \in DOMAIN AnswerOf
                 THEN [remote EXCEPT !.told = AnswerOf[receiver.command]] ELSE remote
    /\ receiver' = [at |-> "check", command |-> "none"]
    /\ UNCHANGED <<target, client, app, inbox, used>>

RemoteCommands(op) ==
    /\ remote.open /\ MayFail
    /\ Spend("commands")
    /\ inbox' = Append(inbox, op)
    /\ UNCHANGED <<target, client, app, receiver, remote>>

RemoteLeaves ==
    /\ remote.open /\ MayFail
    /\ Spend("commands")
    /\ remote' = [remote EXCEPT !.open = FALSE]
    /\ UNCHANGED <<target, client, app, receiver, inbox>>

----------------------------------------------------------------------------
\* How many calls may be made: none when another class is looked at.
AvrcpInit(connects) ==
    /\ target = [connected |-> FALSE, socket |-> FALSE, thread |-> "none"]
    /\ client = "idle" /\ app = "idle" /\ receiver = [at |-> "none", command |-> "none"]
    /\ remote = [open |-> FALSE, told |-> "nothing"] /\ inbox = <<>>
    /\ used = [connects |-> MaxConnects - connects, commands |-> 0]

ClientNext == (\E made \in BOOLEAN : SpawnReceiver(made)) \/ ClearsFlag \/ ShutsSocket \/ WaitsForThread
ReceiverNext == ChecksFlag \/ Receives \/ Answers
AvrcpNext ==
    \/ (\E made \in BOOLEAN : AvrcpConnect(made)) \/ CallsDisconnect \/ ClientNext
    \/ NotifyVolumeChange \/ SendsChanged
    \/ ReceiverNext
    \/ (\E op \in Opcodes : RemoteCommands(op)) \/ RemoteLeaves

AvrcpFairness == WF_avrcpVars(ClientNext) /\ WF_avrcpVars(ReceiverNext)

AvrcpTypeOK ==
    /\ target \in [connected : BOOLEAN, socket : BOOLEAN, thread : {"none", "running"}]
    /\ client \in {"idle", "spawn", "disconnect", "close", "join"} /\ app \in {"idle", "send"}
    /\ receiver.at \in {"none", "check", "recv", "answer", "ended"}
=============================================================================
