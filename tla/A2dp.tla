-------------------------------- MODULE A2dp --------------------------------
(***************************************************************************)
(* Audio streaming of the Bluetooth kit: AvdtpSession under A2dpSource,    *)
(* which the control thread of the media node drives, or under A2dpSink,   *)
(* which the window of the player drives, with the sink's receive thread,  *)
(* the window's ring of samples and the callback of its sound player.      *)
(*                                                                         *)
(* A command is answered by the next signal that comes, whatever it is: no *)
(* answer is matched with its command.  The SBC parameters are members of  *)
(* small sets, an audio packet is a run of numbered samples, and a frame   *)
(* of the source counts as one unit of time.                               *)
(***************************************************************************)
EXTENDS Integers, Sequences, FiniteSets, SequencesExt

CONSTANTS
    Seps,        \* the peer's stream end points: a sequence of [kind, inUse, offer]
    SeqLimit,    \* RTP sequence numbers and timestamps (2^16 and 2^32)
    PacketRoom,  \* SBC frames that fit into one RTP packet
    RingSize,    \* kRingBufSamples
    PerPacket,   \* samples of a packet that the peer sends
    MaxCalls,    \* bound: what the user asks for
    MaxTrouble,  \* bound: refusals, commands, closed channels, threads not to be had
    MaxAudio     \* bound: packets that the peer sends

ASSUME A2dpAssumption ==
    /\ SeqLimit \in Nat \ {0} /\ PacketRoom \in 1 .. 15 /\ RingSize \in Nat \ {0, 1}
    /\ PerPacket \in Nat /\ MaxCalls \in Nat /\ MaxTrouble \in Nat /\ MaxAudio \in Nat
    /\ Len(Seps) \in Nat /\ DOMAIN Seps = 1 .. Len(Seps)

VARIABLES
    role,    \* "source", "sink" or "none"; it never changes
    host,    \* A2dpSource or A2dpSink, its session, and the thread that calls it
    rtp,     \* fRtpSeqNumber, fRtpTimestamp
    peer,    \* the other side: its channels, end points and what it has received
    toPeer,  \* signals to the peer
    toHost,  \* signals to the host
    astray,  \* was an answer not waited for, or something else taken for it?
    audio,   \* packets on the media channel towards the sink
    rx,      \* the sink's receive thread
    ring,    \* fRingBuf, fRingWrite, fRingRead
    player,  \* the sound player, and what it has played
    count    \* calls, trouble and packets so far

signals == <<toPeer, toHost, astray>>
sound == <<audio, rx, ring, player>>
a2dpVars == <<role, host, rtp, peer, signals, sound, count>>

----------------------------------------------------------------------------
\* Codec negotiation

SourceOrder == [freqs |-> <<44100, 48000, 32000, 16000>>, modes |-> <<"joint", "stereo", "dual", "mono">>,
                blocks |-> <<16, 12, 8, 4>>, subbands |-> <<8, 4>>, allocs |-> <<"loudness", "snr">>]
Elements == DOMAIN SourceOrder

Compatible(offer) == \A e \in Elements : \E i \in DOMAIN SourceOrder[e] : SourceOrder[e][i] \in offer[e]
Preferred(order, offered) == SelectSeq(order, LAMBDA x : x \in offered)[1]
LeastOf(a, b) == IF a < b THEN a ELSE b
MostOf(a, b) == IF a > b THEN a ELSE b

\* A2dpSource::_NegotiateCodec(): what it selects from the peer's offer.
Negotiated(offer) ==
    [e \in Elements \cup {"min", "max"} |->
        CASE e = "min" -> MostOf(offer.min, 2)
          [] e = "max" -> MostOf(LeastOf(offer.max, 53), MostOf(offer.min, 2))
          [] OTHER     -> Preferred(SourceOrder[e], offer[e])]

SinkConfig == [freqs |-> 44100, modes |-> "joint", blocks |-> 16, subbands |-> 8, allocs |-> "loudness",
               min |-> 2, max |-> 53]
NoConfig == [freqs |-> 0, modes |-> "none", blocks |-> 0, subbands |-> 0, allocs |-> "none", min |-> 0, max |-> 0]

ConfigFor(sep) == IF role = "source" THEN Negotiated(Seps[sep].offer) ELSE SinkConfig

----------------------------------------------------------------------------
\* The host between two calls, and where a call goes on

NoHost == [at |-> "idle", sent |-> FALSE, goal |-> "none", index |-> 0, seid |-> 0, offer |-> 0, config |-> NoConfig,
           signaling |-> FALSE, media |-> FALSE, connected |-> FALSE, streaming |-> FALSE, left |-> 0]
NoRing == [buf |-> [i \in 0 .. RingSize - 1 |-> 0], write |-> 0, read |-> 0]
NoRx == [state |-> "none", left |-> <<>>, written |-> FALSE]

Wanted == IF role = "source" THEN "sink" ELSE "source"
CandidatesFrom(i) == {j \in i .. Len(Seps) : Seps[j].kind = Wanted /\ ~Seps[j].inUse}

GoTo(h, at) == [h EXCEPT !.at = at, !.sent = FALSE]

\* Disconnect() after StopStream(), which a failed Connect() runs as well.
GiveUp(h) == GoTo([h EXCEPT !.goal = "disconnect"], IF h.seid # 0 THEN "close" ELSE "sockets")

\* The loop over the end points; the sink settles for the first that will do.
TryFrom(h, i) ==
    IF CandidatesFrom(i) = {} THEN GiveUp([h EXCEPT !.seid = 0])
    ELSE LET j == CHOOSE j \in CandidatesFrom(i) : \A k \in CandidatesFrom(i) : j <= k
         IN  GoTo([h EXCEPT !.index = j, !.seid = IF role = "sink" THEN j ELSE 0], "caps")

\* A codec element was found in the capabilities that answer for end point
\* "of", which need not be the end point that was asked about.
CapsTaken(h, of) ==
    IF role = "sink" THEN GoTo(h, "config")
    ELSE IF of # 0 /\ Compatible(Seps[of].offer) THEN GoTo([h EXCEPT !.offer = of, !.seid = h.index], "config")
    ELSE TryFrom(h, h.index + 1)

AfterFailure(h) ==
    CASE h.at = "suspend" /\ h.goal = "stop" -> GoTo(h, "idle")
      [] h.at = "suspend" /\ h.goal # "stop" -> GoTo(h, "close")
      [] h.at = "close"   -> GoTo([h EXCEPT !.media = FALSE], "sockets")
      [] h.at = "start"   -> GoTo(h, "idle")
      [] h.at \in {"caps", "config"} /\ role = "source" -> TryFrom([h EXCEPT !.seid = 0], h.index + 1)
      [] OTHER            -> GiveUp(h)

AfterSuccess(h, of) ==
    CASE h.at = "discover" -> TryFrom(h, 1)
      [] h.at = "caps"     -> CapsTaken(h, of)
      [] h.at = "config"   -> GoTo([h EXCEPT !.config = ConfigFor(h.offer)], "open")
      [] h.at = "open"     -> GoTo(h, "media")
      [] h.at = "start"    -> IF role = "sink" THEN GoTo(h, "thread") ELSE GoTo([h EXCEPT !.streaming = TRUE], "idle")
      [] OTHER             -> AfterFailure(h)

----------------------------------------------------------------------------
\* What the user asks for

Asks == host.at = "idle" /\ count.calls < MaxCalls /\ count' = [count EXCEPT !.calls = @ + 1]

\* HandleEvent(B_START) of the media node: connect when there is no A2dpSource.
NodeStart ==
    /\ role = "source" /\ Asks /\ ~host.streaming
    /\ host' = GoTo([host EXCEPT !.goal = "start"], IF host.connected THEN "start" ELSE "acl")
    /\ UNCHANGED <<role, rtp, peer, signals, sound>>

\* HandleEvent(B_STOP): StopStream() and Disconnect().
NodeStop ==
    /\ role = "source" /\ Asks /\ host.connected
    /\ host' = GoTo([host EXCEPT !.goal = "disconnect", !.streaming = FALSE],
                    IF host.streaming THEN "suspend" ELSE "close")
    /\ UNCHANGED <<role, rtp, peer, signals, sound>>

\* _HandleBuffer(): the whole frames in a buffer.
NodeBuffer(frames) ==
    /\ role = "source" /\ Asks /\ host.streaming
    /\ host' = GoTo([host EXCEPT !.left = frames], "audio")
    /\ UNCHANGED <<role, rtp, peer, signals, sound>>

WindowConnect ==
    /\ role = "sink" /\ Asks /\ ~host.connected
    /\ host' = GoTo([host EXCEPT !.goal = "connect"], "acl")
    /\ UNCHANGED <<role, rtp, peer, signals, sound>>

WindowStart ==
    /\ role = "sink" /\ Asks /\ host.connected /\ ~host.streaming
    /\ host' = GoTo([host EXCEPT !.goal = "start"], "start")
    /\ UNCHANGED <<role, rtp, peer, signals, sound>>

\* StopStream() of the sink up to its wait for the receive thread.
SinkStops(h) == GoTo([h EXCEPT !.streaming = FALSE], "join")

\* The buttons Stop and Disconnect: the player is stopped first, and its
\* callback is not running any more when that returns.
WindowStop(goal) ==
    /\ role = "sink" /\ Asks /\ host.connected /\ (goal = "stop" => host.streaming)
    /\ player.out = -1
    /\ player' = [player EXCEPT !.on = FALSE]
    /\ host' = LET h == [host EXCEPT !.goal = goal]
               IN  IF host.streaming THEN SinkStops(h) ELSE GoTo(h, "close")
    /\ UNCHANGED <<role, rtp, peer, signals, audio, rx, ring>>

----------------------------------------------------------------------------
\* The steps of a call

\* _EnsureAclConnection(): the server makes the connection, or does not.
EnsureAclConnection(made) ==
    /\ host.at = "acl"
    /\ made \/ count.trouble < MaxTrouble
    /\ host' = GoTo(host, IF made THEN "signaling" ELSE "idle")
    /\ count' = [count EXCEPT !.trouble = IF made THEN @ ELSE @ + 1]
    /\ UNCHANGED <<role, rtp, peer, signals, sound>>

\* AvdtpSession::Connect()
ConnectSignaling(made) ==
    /\ host.at = "signaling"
    /\ made \/ count.trouble < MaxTrouble
    /\ host' = [GoTo(host, IF made THEN "discover" ELSE "idle") EXCEPT !.signaling = made]
    /\ peer' = [peer EXCEPT !.signaling = made]
    /\ toPeer' = <<>> /\ toHost' = <<>> /\ astray' = FALSE
    /\ count' = [count EXCEPT !.trouble = IF made THEN @ ELSE @ + 1]
    /\ UNCHANGED <<role, rtp, sound>>

Commands == {"discover", "caps", "config", "open", "start", "suspend", "close"}

Signal == [signal |-> host.at, sep |-> IF host.seid # 0 THEN host.seid ELSE host.index,
           config |-> IF host.at = "config" THEN ConfigFor(host.offer) ELSE NoConfig]

\* The samples are forgotten when Stop has been done.
StopDone == host.at = "suspend" /\ host.goal = "stop"

\* _SendSignal()
SendSignal ==
    /\ host.at \in Commands /\ ~host.sent /\ peer.signaling
    /\ toPeer' = Append(toPeer, Signal)
    /\ host' = [host EXCEPT !.sent = TRUE]
    /\ UNCHANGED <<role, rtp, peer, toHost, astray, sound, count>>

Fails ==
    /\ host' = AfterFailure(host)
    /\ ring' = IF StopDone THEN NoRing ELSE ring
    /\ peer' = [peer EXCEPT !.media = @ /\ host'.media]
    /\ UNCHANGED <<role, rtp, toPeer, toHost, audio, rx, player, count>>

SendSignalFails == host.at \in Commands /\ ~host.sent /\ ~peer.signaling /\ Fails /\ UNCHANGED astray

\* _RecvSignal() returns nothing: it timed out, or the channel is closed.
RecvSignalFails ==
    /\ host.at \in Commands /\ host.sent /\ toHost = <<>>
    /\ astray' = (astray \/ peer.signaling)
    /\ Fails

\* (AnyType is faulty: it takes whatever answer as consent.)
AnyType(type) == TRUE
\* The check of the message type.
Accepted(type) == type = "accept"

\* _RecvSignal() and what the command makes of the answer.
RecvSignal ==
    /\ host.at \in Commands /\ host.sent /\ toHost # <<>>
    /\ LET a == Head(toHost)
       IN  /\ host' = IF Accepted(a.type) THEN AfterSuccess(host, a.of) ELSE AfterFailure(host)
           /\ rtp' = IF host'.streaming /\ ~host.streaming THEN [seq |-> 0, time |-> 0] ELSE rtp
    /\ toHost' = Tail(toHost)
    /\ ring' = IF StopDone THEN NoRing ELSE ring
    /\ peer' = [peer EXCEPT !.media = @ /\ host'.media]
    /\ astray' = (astray \/ Head(toHost).type = "command")
    /\ UNCHANGED <<role, toPeer, audio, rx, player, count>>

\* OpenMediaChannel() and the codec; then the node goes on to StartStream().
OpenMediaChannel(made) ==
    /\ host.at = "media"
    /\ made => peer.signaling /\ peer.stream[host.seid] = "open"
    /\ made \/ count.trouble < MaxTrouble \/ ~peer.signaling \/ peer.stream[host.seid] # "open"
    /\ host' = IF made THEN [GoTo(host, IF host.goal = "start" THEN "start" ELSE "idle")
                                EXCEPT !.media = TRUE, !.connected = TRUE]
               ELSE GiveUp(host)
    /\ peer' = [peer EXCEPT !.media = made]
    /\ audio' = <<>>
    /\ count' = [count EXCEPT !.trouble = IF made \/ @ = MaxTrouble THEN @ ELSE @ + 1]
    /\ UNCHANGED <<role, rtp, signals, rx, ring, player>>

AllIdle == [i \in DOMAIN Seps |-> "idle"]
PeerGone == [signaling |-> FALSE, media |-> FALSE, stream |-> AllIdle, config |-> NoConfig, packets |-> 0, frames |-> 0]

\* AvdtpSession::Disconnect() and the end of Disconnect().
CloseSockets ==
    /\ host.at = "sockets"
    /\ host' = NoHost
    /\ peer' = PeerGone
    /\ toPeer' = <<>> /\ toHost' = <<>> /\ astray' = FALSE
    /\ ring' = NoRing /\ audio' = <<>>
    /\ UNCHANGED <<role, rtp, rx, player, count>>

\* The sink's thread is spawned, or cannot be: the peer stays started.
SpawnThread(made) ==
    /\ host.at = "thread"
    /\ made \/ count.trouble < MaxTrouble
    /\ host' = [GoTo(host, IF made THEN "player" ELSE "idle") EXCEPT !.streaming = made]
    /\ rx' = [rx EXCEPT !.state = IF made THEN "check" ELSE "none"]
    /\ count' = [count EXCEPT !.trouble = IF made THEN @ ELSE @ + 1]
    /\ UNCHANGED <<role, rtp, peer, signals, audio, ring, player>>

StartPlayer ==
    /\ host.at = "player"
    /\ player' = [player EXCEPT !.on = TRUE]
    /\ host' = GoTo(host, "idle")
    /\ UNCHANGED <<role, rtp, peer, signals, audio, rx, ring, count>>

\* (NotJoined is faulty: it does not wait for the thread.)
NotJoined ==
    /\ host.at = "join"
    /\ host' = GoTo(host, "suspend")
    /\ UNCHANGED <<role, rtp, peer, signals, sound, count>>

\* wait_for_thread()
JoinThread ==
    /\ host.at = "join" /\ rx.state = "ended"
    /\ rx' = NoRx
    /\ host' = GoTo(host, "suspend")
    /\ UNCHANGED <<role, rtp, peer, signals, audio, ring, player, count>>

\* SendAudio(): one packet of as many frames as fit.  When send() fails the
\* sequence number is spent, and the rest of the buffer is given up.
SendAudio ==
    /\ host.at = "audio"
    /\ LET frames == LeastOf(host.left, PacketRoom)
       IN  IF peer.media
           THEN /\ rtp' = [seq |-> (rtp.seq + 1) % SeqLimit, time |-> (rtp.time + frames) % SeqLimit]
                /\ peer' = [peer EXCEPT !.packets = (@ + 1) % SeqLimit, !.frames = (@ + frames) % SeqLimit]
                /\ host' = IF host.left = frames THEN GoTo([host EXCEPT !.left = 0], "idle")
                           ELSE [host EXCEPT !.left = @ - frames]
           ELSE /\ rtp' = [rtp EXCEPT !.seq = (rtp.seq + 1) % SeqLimit]
                /\ host' = GoTo([host EXCEPT !.left = 0], "idle")
                /\ UNCHANGED peer
    /\ UNCHANGED <<role, signals, sound, count>>

----------------------------------------------------------------------------
\* _ReceiveLoop() of the sink, _AudioDataCallback(), _SoundPlayerCallback()

RxOnly == UNCHANGED <<role, host, rtp, peer, signals, count>>

RxCheck ==
    /\ rx.state = "check"
    /\ rx' = [rx EXCEPT !.state = IF host.streaming THEN "recv" ELSE "ended"]
    /\ UNCHANGED <<audio, ring, player>> /\ RxOnly

\* A packet comes, nothing came for a second, or the channel is closed; then
\* the thread ends though fStreaming stays set.
RxReceive ==
    /\ rx.state = "recv"
    /\ IF audio # <<>>
       THEN rx' = [rx EXCEPT !.state = "push", !.left = Head(audio)] /\ audio' = Tail(audio)
       ELSE rx' = [rx EXCEPT !.state = IF peer.media THEN "check" ELSE "ended"] /\ UNCHANGED audio
    /\ UNCHANGED <<ring, player>> /\ RxOnly

After(i) == (i + 1) % RingSize

\* One sample is written; when the ring is full the rest is dropped.
RxWrite ==
    /\ rx.state = "push" /\ ~rx.written
    /\ IF rx.left = <<>> \/ After(ring.write) = ring.read
       THEN rx' = [rx EXCEPT !.state = "check", !.left = <<>>] /\ UNCHANGED ring
       ELSE /\ ring' = [ring EXCEPT !.buf[ring.write] = Head(rx.left)]
            /\ rx' = [rx EXCEPT !.written = TRUE]
    /\ UNCHANGED <<audio, player>> /\ RxOnly

RxAdvance ==
    /\ rx.written
    /\ ring' = [ring EXCEPT !.write = After(@)]
    /\ rx' = [rx EXCEPT !.written = FALSE, !.left = Tail(@)]
    /\ UNCHANGED <<audio, player>> /\ RxOnly

PlayerReads ==
    /\ player.on /\ player.out = -1 /\ ring.read # ring.write
    /\ player' = [player EXCEPT !.out = ring.buf[ring.read]]
    /\ UNCHANGED <<audio, rx, ring>> /\ RxOnly

PlayerAdvances ==
    /\ player.out # -1
    /\ ring' = [ring EXCEPT !.read = After(@)]
    /\ player' = [player EXCEPT !.out = -1, !.heard = player.out, !.sorted = @ /\ player.out > player.heard]
    /\ UNCHANGED <<audio, rx>> /\ RxOnly

----------------------------------------------------------------------------
\* The peer, an AVDTP acceptor

Trouble == count.trouble < MaxTrouble /\ count' = [count EXCEPT !.trouble = @ + 1]
PeerOnly == UNCHANGED <<role, host, rtp, astray, rx, ring, player>>

Within(config, offer) ==
    /\ \A e \in Elements : config[e] \in offer[e]
    /\ offer.min <= config.min /\ config.min <= config.max /\ config.max <= offer.max

Legal(cmd) ==
    CASE cmd.signal \in {"discover", "caps"} -> TRUE
      [] cmd.signal = "config"  -> \A i \in DOMAIN Seps : peer.stream[i] = "idle" /\ Within(cmd.config, Seps[cmd.sep].offer)
      [] cmd.signal = "open"    -> peer.stream[cmd.sep] = "configured"
      [] cmd.signal = "start"   -> peer.stream[cmd.sep] = "open" /\ peer.media
      [] cmd.signal = "suspend" -> peer.stream[cmd.sep] = "streaming"
      [] cmd.signal = "close"   -> peer.stream[cmd.sep] \in {"open", "streaming"}

BecomesOf == [config |-> "configured", open |-> "open", start |-> "streaming", suspend |-> "open", close |-> "idle"]

PeerAccepts ==
    /\ toPeer # <<>> /\ Legal(Head(toPeer))
    /\ LET cmd == Head(toPeer)
           p   == IF cmd.signal \in DOMAIN BecomesOf THEN [peer EXCEPT !.stream[cmd.sep] = BecomesOf[cmd.signal]] ELSE peer
       IN  /\ peer' = CASE cmd.signal = "config" -> [p EXCEPT !.config = cmd.config]
                        [] cmd.signal = "start"  -> [p EXCEPT !.packets = 0, !.frames = 0]
                        [] OTHER -> p
           /\ toHost' = Append(toHost, [type |-> "accept", of |-> IF cmd.signal = "caps" THEN cmd.sep ELSE 0])
    /\ toPeer' = Tail(toPeer)
    /\ PeerOnly /\ UNCHANGED <<audio, count>>

PeerRejects ==
    /\ toPeer # <<>>
    /\ IF Legal(Head(toPeer)) THEN Trouble ELSE UNCHANGED count
    /\ toHost' = Append(toHost, [type |-> "reject", of |-> 0])
    /\ toPeer' = Tail(toPeer)
    /\ PeerOnly /\ UNCHANGED <<peer, audio>>

\* A command of its own, which nobody answers.
PeerCommands ==
    /\ peer.signaling /\ Trouble
    /\ toHost' = Append(toHost, [type |-> "command", of |-> 0])
    /\ PeerOnly /\ UNCHANGED <<peer, toPeer, audio>>

PeerCloses(both) ==
    /\ IF both THEN peer.signaling ELSE peer.media
    /\ Trouble
    /\ peer' = [PeerGone EXCEPT !.signaling = peer.signaling /\ ~both]
    /\ toPeer' = IF both THEN <<>> ELSE toPeer
    /\ PeerOnly /\ UNCHANGED <<toHost, audio>>

PeerPlays ==
    /\ role = "sink" /\ peer.media /\ count.audio < MaxAudio /\ \E i \in DOMAIN Seps : peer.stream[i] = "streaming"
    /\ count' = [count EXCEPT !.audio = @ + 1]
    /\ audio' = Append(audio, [i \in 1 .. PerPacket |-> count.audio * PerPacket + i])
    /\ PeerOnly /\ UNCHANGED <<peer, toPeer, toHost>>

----------------------------------------------------------------------------
A2dpInit ==
    /\ host = NoHost /\ rtp = [seq |-> 0, time |-> 0] /\ peer = PeerGone
    /\ toPeer = <<>> /\ toHost = <<>> /\ astray = FALSE
    /\ audio = <<>> /\ rx = NoRx /\ ring = NoRing
    /\ player = [on |-> FALSE, out |-> -1, heard |-> 0, sorted |-> TRUE]
    /\ count = [calls |-> 0, trouble |-> 0, audio |-> 0]

UserNext ==
    \/ NodeStart \/ NodeStop \/ \E frames \in 1 .. PacketRoom + 1 : NodeBuffer(frames)
    \/ WindowConnect \/ WindowStart \/ \E goal \in {"stop", "disconnect"} : WindowStop(goal)

HostNext ==
    \/ \E made \in BOOLEAN :
           EnsureAclConnection(made) \/ ConnectSignaling(made) \/ OpenMediaChannel(made) \/ SpawnThread(made)
    \/ SendSignal \/ SendSignalFails \/ RecvSignal \/ RecvSignalFails
    \/ CloseSockets \/ StartPlayer \/ JoinThread \/ SendAudio

RxNext == RxCheck \/ RxReceive \/ RxWrite \/ RxAdvance
PlayerNext == PlayerReads \/ PlayerAdvances
PeerNext == PeerAccepts \/ PeerRejects \/ PeerCommands \/ (\E both \in BOOLEAN : PeerCloses(both)) \/ PeerPlays

A2dpNext == UserNext \/ HostNext \/ RxNext \/ PlayerNext \/ PeerNext

\* The threads run; every wait of theirs ends by an answer or by its timeout.
A2dpFairness == WF_a2dpVars(HostNext) /\ WF_a2dpVars(RxNext) /\ WF_a2dpVars(PlayerAdvances)

----------------------------------------------------------------------------
A2dpTypeOK ==
    /\ role \in {"source", "sink", "none"}
    /\ host.at \in Commands \cup {"idle", "acl", "signaling", "media", "thread", "player", "join", "audio", "sockets"}
    /\ host.seid \in 0 .. Len(Seps) /\ host.index \in 0 .. Len(Seps) /\ host.left \in 0 .. PacketRoom + 1
    /\ host.signaling \in BOOLEAN /\ host.connected \in BOOLEAN /\ host.streaming \in BOOLEAN
    /\ rtp \in [seq : 0 .. SeqLimit - 1, time : 0 .. SeqLimit - 1]
    /\ peer.stream \in [DOMAIN Seps -> {"idle", "configured", "open", "streaming"}]
    /\ ring.write \in 0 .. RingSize - 1 /\ ring.read \in 0 .. RingSize - 1
    /\ rx.state \in {"none", "check", "recv", "push", "ended"}

\* A2dpSource and A2dpSink: a call that fails, whichever of its steps it is
\* that fails, leaves no channel open, and no receive thread and no player run
\* once the stream has been stopped.
NothingLeftOpen ==
    host.at = "idle" =>
        /\ host.connected <=> host.signaling
        /\ host.media => host.connected
        /\ ~host.connected => ~peer.signaling /\ ~peer.media
        /\ ~host.streaming => rx.state = "none" /\ ~player.on

\* AvdtpSession under A2dpSource and A2dpSink: as long as every answer came in
\* time and the peer keeps its channels, host and peer agree on which stream is
\* open and how it is configured, a stream that runs for the host runs for the
\* peer, and the RTP numbers of the source are those of what the peer has received
\* since it was started.  (The peer's stream may run while the host's is stopped:
\* the answer to Suspend is not looked at, and Start is not taken back when the
\* sink's thread cannot be made.)
StreamAgrees ==
    host.at = "idle" /\ host.connected /\ ~astray /\ peer.signaling /\ peer.media =>
        /\ peer.stream[host.seid] \in {"open", "streaming"}
        /\ host.config = peer.config
        /\ host.streaming => peer.stream[host.seid] = "streaming"
        /\ host.streaming /\ role = "source" => rtp = [seq |-> peer.packets, time |-> peer.frames]

\* The player's window: the sound player plays the samples in the order in
\* which the peer sent them, and none twice, whenever Stop and Start come.
PlayedInOrder == player.sorted
=============================================================================
