----------------------------- MODULE LinkUsers -----------------------------
(***************************************************************************)
(* What makes and uses a link, side by side: the driver that takes a       *)
(* dongle, the LE channels of the kernel, and of the kit and the server    *)
(* the streaming profiles, service discovery, the object profiles and the  *)
(* hands-free profile.  They share no state: a behaviour follows one of    *)
(* them, and the others are not there.                                     *)
(***************************************************************************)
EXTENDS IntelSetup, LeLink, A2dp, AvrcpTarget, SdpServer, Obex, Headset

vars == <<dongleVars, leVars, a2dpVars, avrcpVars, sdpVars, obexVars, hfpVars, gateVars>>

NoLe == {[callers |-> {}, calls |-> {}, number |-> 0, limit |-> [unasked |-> 0, smp |-> 0]]}

\* The one that a behaviour follows.
Users == {"dongle", "le", "stream", "avrcp", "sdp", "opp", "pbap", "spp", "hfp", "gateway"}

Init == \E user \in Users :
    /\ DongleInit(IF user = "dongle" THEN Dongles ELSE {NoDongle})
    /\ LeInit(IF user = "le" THEN Plans ELSE NoLe)
    /\ A2dpInit /\ role \in IF user = "stream" THEN {"source", "sink"} ELSE {"none"}
    /\ AvrcpInit(IF user = "avrcp" THEN MaxConnects ELSE 0)
    /\ \E at \in IF user = "sdp" THEN {"bind", "vendor"} ELSE {"off"} : SdpInit(at)
    /\ ObexInit(IF user \in {"opp", "pbap", "spp", "hfp"} THEN user ELSE "none")
    /\ HfpInit /\ GateInit(IF user = "gateway" THEN "idle" ELSE "off")

Next ==
    \/ DongleNext /\ UNCHANGED <<leVars, a2dpVars, avrcpVars, sdpVars, obexVars, hfp, lines, gateVars>>
    \/ LeNext /\ UNCHANGED <<dongleVars, a2dpVars, avrcpVars, sdpVars, obexVars, hfp, lines, gateVars>>
    \/ A2dpNext /\ UNCHANGED <<dongleVars, leVars, avrcpVars, sdpVars, obexVars, hfp, lines, gateVars>>
    \/ AvrcpNext /\ UNCHANGED <<dongleVars, leVars, a2dpVars, sdpVars, obexVars, hfp, lines, gateVars>>
    \/ SdpNext /\ UNCHANGED <<dongleVars, leVars, a2dpVars, avrcpVars, obexVars, hfp, lines, gateVars>>
    \/ profile.kind # "hfp" /\ ObexNext /\ UNCHANGED <<dongleVars, leVars, a2dpVars, avrcpVars, sdpVars, hfp, lines, gateVars>>
    \/ profile.kind = "hfp" /\ HfpNext /\ UNCHANGED <<dongleVars, leVars, a2dpVars, avrcpVars, sdpVars, obex, transfer, wire, server, gateVars>>
    \/ GateNext /\ UNCHANGED <<dongleVars, leVars, a2dpVars, avrcpVars, sdpVars, obexVars, hfp, lines>>

Fairness ==
    /\ DongleFairness /\ LeFairness /\ A2dpFairness /\ AvrcpFairness
    /\ SdpFairness /\ ObexFairness /\ HfpFairness /\ GateFairness

Spec == Init /\ [][Next]_vars /\ Fairness

TypeOK ==
    /\ DongleTypeOK /\ LeTypeOK /\ A2dpTypeOK /\ AvrcpTypeOK
    /\ SdpTypeOK /\ ObexTypeOK /\ HeadsetTypeOK

\* A2dpSource, A2dpSink, OppClient, PbapClient, SppClient, HfpClient and
\* HfpAudioGateway: a call that fails, and one that disconnects, leaves no session,
\* socket, stream or thread behind, wherever it has stopped, but for the socket that
\* AcceptedIsClosed is about; and btintel's commands leave no transfer queued whose
\* buffer is theirs.
NothingHeld == DongleHoldsNothing /\ NothingLeftOpen /\ ProfileHoldsNothing /\ GateHoldsNothing

Busy ==
    \/ loader.at # "idle"
    \/ \E t \in Callers : caller[t].pc # "idle"
    \/ host.at # "idle" \/ client # "idle"
    \/ \E c \in Programs : lookups[c].at # "idle"
    \/ profile.at # "idle" \/ gate.at \notin {"idle", "off"}

\* device_added(), every ioctl of the LE channels, and every call of a profile's
\* client, of AvrcpTarget, of the media node's control thread and of the player's
\* window returns: also those that wait for a thread to end, and whatever the peer
\* or the chip keeps back, and though it leaves meanwhile.  Nothing is said of the
\* Disconnect() that has deleted the session its thread was reading from.
CallsReturn == Busy ~> (~Busy \/ gate.thread = "astray")
=============================================================================
