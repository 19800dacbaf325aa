------------------------------ MODULE Headset ------------------------------
(***************************************************************************)
(* The hands-free profile.  HfpClient sends one AT command after the other *)
(* to a gateway of another vendor and reads lines until one ends the       *)
(* answer.  HfpAudioGateway listens for a headset and answers its commands *)
(* in a thread of its own.                                                 *)
(*                                                                         *)
(* Of a line is kept what ends an answer, and which command it belongs to. *)
(***************************************************************************)
EXTENDS ProfileClient

CONSTANTS
    Opened,      \* DLCIs that a headset may open at the gateway
    MaxAtCalls,  \* bound: calls of the client for one connection
    MaxNews,     \* bound: lines that nobody has asked for
    MaxSaid,     \* bound: commands of the headset
    MaxListens   \* bound: calls of Listen()

ASSUME HeadsetAssumption == Opened \subseteq Nat \ {0} /\ {MaxAtCalls, MaxNews, MaxSaid, MaxListens} \subseteq Nat

VARIABLES
    hfp,     \* HfpClient: fSlcEstablished, the step of the handshake, commands sent, the
             \* command whose answer was taken last, calls, are answers out of step?
    lines,   \* commands to the gateway, lines from it, lines nobody has asked for
    gate,    \* HfpAudioGateway: its caller, its thread, its fields
    headset  \* what a headset has opened and said, and what it has not yet been answered

hfpVars == <<profile, hfp, lines>>
gateVars == <<gate, headset>>

----------------------------------------------------------------------------
\* HfpClient

NoHfp == [slc |-> FALSE, step |-> 0, sent |-> 0, taken |-> 0, astray |-> FALSE, calls |-> 0]
NoLines == [to |-> <<>>, from |-> <<>>, news |-> 0]

Handshake == 5  \* BRSF, CIND=?, CIND?, CMER, CHLD=?

Says1 == lines' = [lines EXCEPT !.to = Append(@, hfp.sent + 1)]

Begins(step) ==
    /\ hfp' = [hfp EXCEPT !.step = step, !.sent = @ + 1, !.calls = @ + 1]
    /\ profile' = [profile EXCEPT !.at = "at"]
    /\ Says1

MayCall == profile.kind = "hfp" /\ profile.at = "idle" /\ profile.session /\ hfp.calls < MaxAtCalls

EstablishServiceLevel == MayCall /\ Begins(1)

\* SendAt(), and the calls that go through it once there is a service level:
\* Dial(), Answer(), HangUp(), SetSpeakerVolume(), SetMicVolume().
SendAt(needsLevel) ==
    /\ MayCall
    /\ IF needsLevel /\ ~hfp.slc THEN Returns("not_allowed") /\ UNCHANGED <<hfp, lines>>
       ELSE Begins(0)

Gives(result, stray) ==
    /\ profile' = [profile EXCEPT !.at = "idle", !.result = result]
    /\ hfp' = [hfp EXCEPT !.astray = @ \/ stray, !.step = 0]

Line == Head(lines.from)
ReadsLine == lines' = [lines EXCEPT !.from = Tail(@)]

\* The answer ends: with an error the call, else the handshake goes on to its
\* next command.
Takes(h) ==
    IF Line.kind = "error" THEN profile' = [profile EXCEPT !.at = "idle", !.result = "error"] /\ hfp' = [h EXCEPT !.step = 0] /\ ReadsLine
    ELSE IF hfp.step \in 1 .. Handshake - 1
    THEN /\ hfp' = [h EXCEPT !.step = @ + 1, !.sent = @ + 1]
         /\ lines' = [lines EXCEPT !.from = Tail(@), !.to = Append(@, hfp.sent + 1)]
         /\ UNCHANGED profile
    ELSE /\ profile' = [profile EXCEPT !.at = "idle", !.result = "ok"]
         /\ hfp' = [h EXCEPT !.slc = @ \/ hfp.step = Handshake, !.step = 0]
         /\ ReadsLine

\* (FirstLine is faulty: the first line is the answer.)
FirstLine == profile.at = "at" /\ lines.from # <<>> /\ Takes([hfp EXCEPT !.taken = Line.of])
ReadsFinal ==
    /\ profile.at = "at" /\ lines.from # <<>> /\ Line.kind \in {"ok", "error"}
    /\ Takes([hfp EXCEPT !.taken = Line.of])

\* A line of an answer, or one that nobody has asked for, is only collected.
ReadsOther ==
    /\ profile.at = "at" /\ lines.from # <<>> /\ Line.kind = "text"
    /\ ReadsLine /\ UNCHANGED <<profile, hfp>>

\* The deadline passes in the middle of a line: what has come of it is a line,
\* and the rest will be another one.
ReadsPart ==
    /\ profile.at = "at" /\ lines.from # <<>> /\ Line.kind # "text"
    /\ lines' = [lines EXCEPT !.from[1] = [kind |-> "text", of |-> Line.of]]
    /\ UNCHANGED <<profile, hfp>>

\* A timeout; a read of no bytes, or a channel that is closed.
ReadFails ==
    /\ profile.at = "at"
    /\ Gives(IF lines.from = <<>> THEN "timed_out" ELSE "io_error", TRUE) /\ UNCHANGED lines

HfpDisconnects ==
    /\ profile.kind = "hfp" /\ profile.at = "idle" /\ profile # Disconnected
    /\ profile' = Disconnected /\ hfp' = NoHfp /\ lines' = NoLines

\* The gateway at the other end: an answer of one or two lines, in order, and
\* lines that nobody has asked for.
GatewayAnswers ==
    /\ lines.to # <<>>
    /\ LET of == Head(lines.to)
       IN  \E text \in {<<>>, <<[kind |-> "text", of |-> of]>>}, final \in {"ok", "error"} :
               lines' = [lines EXCEPT !.to = Tail(@), !.from = @ \o text \o <<[kind |-> final, of |-> of]>>]
    /\ UNCHANGED <<profile, hfp>>

GatewayTells ==
    /\ profile.session /\ profile.dlci /\ profile.kind = "hfp" /\ lines.news < MaxNews
    /\ lines' = [lines EXCEPT !.from = Append(@, [kind |-> "text", of |-> 0]), !.news = @ + 1]
    /\ UNCHANGED <<profile, hfp>>

HfpLink == (LinkNext \/ TransportNext) /\ UNCHANGED <<hfp, lines>>
HfpCallNext == HfpLink \/ ReadsFinal \/ ReadsOther \/ ReadFails
HfpUserNext ==
    \/ (\E channel \in {0, 1} : Dials(channel, FALSE)) /\ UNCHANGED <<hfp, lines>>
    \/ EstablishServiceLevel \/ (\E needsLevel \in BOOLEAN : SendAt(needsLevel)) \/ HfpDisconnects
HfpNext == HfpCallNext \/ HfpUserNext \/ ReadsPart \/ GatewayAnswers \/ GatewayTells

----------------------------------------------------------------------------
\* HfpAudioGateway

NoGate ==
    [at |-> "idle", result |-> "none", session |-> FALSE, dlci |-> 0, running |-> FALSE, slc |-> FALSE, reporting |-> FALSE,
     clip |-> FALSE, thread |-> "none", listens |-> 0]
NoHeadset == [dlci |-> 0, said |-> <<>>, count |-> 0]

GateReturns(g, result) == gate' = [g EXCEPT !.at = "idle", !.result = result]

\* RFCOMM_DLCI(0, channel)
RfcommDlci(channel) == 2 * channel

\* Listen(): socket, bind and listen; accept; AcceptFrom.
GateListens(made) ==
    /\ gate.at = "idle" /\ gate.listens < MaxListens
    /\ LET g == [gate EXCEPT !.listens = @ + 1]
       IN  IF gate.session THEN GateReturns(g, "busy")
           ELSE IF made THEN gate' = [g EXCEPT !.at = "accept"] ELSE GateReturns(g, "error")
    /\ UNCHANGED headset

GateAccepts(came) ==
    /\ gate.at = "accept"
    /\ IF came THEN gate' = [gate EXCEPT !.session = TRUE, !.at = "mux"] ELSE GateReturns(gate, "timed_out")
    /\ UNCHANGED headset

MuxOpens(opened) ==
    /\ gate.at = "mux"
    /\ IF opened THEN gate' = [gate EXCEPT !.at = "channel"] ELSE GateReturns([gate EXCEPT !.session = FALSE], "failed")
    /\ UNCHANGED headset

\* WaitForChannel() returns the DLCI that the headset has opened, and Listen()
\* takes it for a channel.
HeadsetOpens(d) ==
    /\ gate.at = "channel"
    /\ headset' = [NoHeadset EXCEPT !.dlci = d]
    /\ gate' = [gate EXCEPT !.dlci = RfcommDlci(d), !.running = TRUE, !.at = "spawn"]

NoChannelOpens ==
    /\ gate.at = "channel"
    /\ GateReturns([gate EXCEPT !.session = FALSE], "timed_out")
    /\ UNCHANGED headset

Spawns(made) ==
    /\ gate.at = "spawn"
    /\ gate' = IF made THEN [gate EXCEPT !.thread = "loop", !.at = "idle", !.result = "ok"]
               ELSE [gate EXCEPT !.at = "delete", !.running = FALSE]
    /\ UNCHANGED headset

\* What a headset says: the commands that set a flag, and the others.
AtCommands == {"CMER", "CHLD=?", "CLIP=1", "CLIP=0", "other"}

\* Disconnect(): the flags, the session with its channel, the thread.
GateDisconnects ==
    /\ gate.at = "idle" /\ (gate.session \/ gate.thread # "none")
    /\ gate' = [gate EXCEPT !.at = "delete", !.result = "closed", !.running = FALSE, !.slc = FALSE, !.reporting = FALSE]
    /\ UNCHANGED headset

\* The session is deleted under a thread that is in its Receive() or is about to
\* answer: the thread goes astray, unless it looks at fRfcomm only afterwards.
DeletesSession ==
    /\ gate.at = "delete"
    /\ \E thread \in IF gate.thread = "read" THEN {"astray"}
                     ELSE IF gate.thread \in AtCommands THEN {gate.thread, "astray"} ELSE {gate.thread} :
            gate' = [gate EXCEPT !.session = FALSE, !.at = "join", !.thread = thread]
    /\ headset' = NoHeadset

JoinsThread ==
    /\ gate.at = "join" /\ gate.thread \in {"none", "gone"}
    /\ gate' = [gate EXCEPT !.thread = "none", !.dlci = 0, !.at = "idle"]
    /\ UNCHANGED headset

\* _AtLoop()
ThreadLoops ==
    /\ gate.thread = "loop"
    /\ gate' = [gate EXCEPT !.thread = IF gate.running /\ gate.session THEN "read" ELSE "gone"]
    /\ UNCHANGED headset

\* The channel that the thread reads must be open: another one is B_NOT_ALLOWED.
ReadsCommand ==
    /\ gate.thread = "read"
    /\ IF gate.dlci # headset.dlci THEN gate' = [gate EXCEPT !.thread = "gone"] /\ UNCHANGED headset
       ELSE IF headset.said = <<>> THEN gate' = [gate EXCEPT !.thread = "loop"] /\ UNCHANGED headset
       ELSE /\ gate' = [gate EXCEPT !.thread = Head(headset.said)]
            /\ headset' = [headset EXCEPT !.said = Tail(@)]

\* The headset leaves: the AT loop ends, and nothing else.
ReadBreaks ==
    /\ gate.thread = "read"
    /\ gate' = [gate EXCEPT !.thread = "gone"]
    /\ UNCHANGED headset

\* What uses a deleted session may come to its end, or never.
AstrayEnds ==
    /\ gate.thread = "astray"
    /\ gate' = [gate EXCEPT !.thread = "gone"]
    /\ UNCHANGED headset

\* _HandleAtCommand(): the flags that a command sets, after its answer.
HandleAtCommand ==
    /\ gate.thread \in AtCommands
    /\ gate' = [gate EXCEPT !.thread = "loop", !.reporting = @ \/ gate.thread = "CMER", !.slc = @ \/ gate.thread = "CHLD=?",
                   !.clip = IF gate.thread \in {"CLIP=1", "CLIP=0"} THEN gate.thread = "CLIP=1" ELSE @]
    /\ UNCHANGED headset

\* SetIndicators() and SendRing() are refused without a service level.
Tells(reports) ==
    /\ gate.at = "idle"
    /\ gate' = [gate EXCEPT !.result = IF gate.slc /\ (reports => gate.reporting) THEN "ok" ELSE "not_allowed"]
    /\ UNCHANGED headset

HeadsetSays(c) ==
    /\ headset.dlci # 0 /\ headset.count < MaxSaid
    /\ headset' = [headset EXCEPT !.said = Append(@, c), !.count = @ + 1]
    /\ UNCHANGED gate

GateCallNext ==
    \/ \E made \in BOOLEAN : GateAccepts(made) \/ MuxOpens(made) \/ Spawns(made)
    \/ NoChannelOpens \/ DeletesSession \/ JoinsThread
AtLoopNext == ThreadLoops \/ ReadsCommand \/ ReadBreaks \/ HandleAtCommand
GateNext ==
    \/ GateCallNext \/ AtLoopNext \/ AstrayEnds \/ (\E made \in BOOLEAN : GateListens(made)) \/ GateDisconnects
    \/ (\E reports \in BOOLEAN : Tells(reports)) \/ (\E d \in Opened : HeadsetOpens(d)) \/ (\E c \in AtCommands : HeadsetSays(c))

----------------------------------------------------------------------------
HfpInit == hfp = NoHfp /\ lines = NoLines
\* at: "idle", or "off" when there is no gateway.
GateInit(at) == gate = [NoGate EXCEPT !.at = at] /\ headset = NoHeadset

HfpFairness == WF_hfpVars(HfpCallNext)
GateFairness == WF_gateVars(GateCallNext) /\ WF_gateVars(AtLoopNext)

HeadsetTypeOK ==
    /\ hfp.step \in 0 .. Handshake /\ hfp.taken \in 0 .. hfp.sent
    /\ hfp.step > 0 => profile.at = "at"
    /\ profile.at = "at" => profile.session
    /\ gate.dlci \in {0} \cup {RfcommDlci(d) : d \in Opened}
    /\ gate.thread \in {"none", "loop", "read", "astray", "gone"} \cup AtCommands

\* SendAt() and EstablishServiceLevel(): until a read has failed, the line that
\* ends a call is the gateway's answer to the command of that call, and a service
\* level means that each of the five commands was answered, however many lines
\* come that nobody has asked for.
AnswerIsOurs == ~hfp.astray => hfp.taken = IF profile.at = "at" THEN hfp.sent - 1 ELSE hfp.sent

\* HfpAudioGateway: a gateway that is not connected has no thread; the call that
\* disconnects it has waited for it.
GateHoldsNothing == gate.at = "idle" /\ ~gate.session => gate.thread = "none"

\* "Accepts incoming RFCOMM connections from Bluetooth headphones (HF role),
\* handles AT commands for SLC establishment and call control"
\* (HfpAudioGateway.h:6-7): when Listen() has succeeded, the channel that the
\* gateway reads is the one that the headset has opened.
HeadsetIsHeard == gate.at = "idle" /\ gate.session => gate.dlci = headset.dlci
=============================================================================
