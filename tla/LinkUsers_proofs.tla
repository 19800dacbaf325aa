-------------------------- MODULE LinkUsers_proofs --------------------------
(***************************************************************************)
(* What holds of those that make and use a link, for every dongle, peer,   *)
(* server and gateway, and for every value of the bounds.  They share no   *)
(* state, so each is reasoned about by its own steps alone.                *)
(***************************************************************************)
EXTENDS LinkUsers, NumberLemmas, SequenceTheorems

----------------------------------------------------------------------------
\* The steps of each, in a step of all

linesVars == <<hfp, lines>>

\* A profile's client is an OBEX client or HfpClient, never both.
ClientSteps ==
    \/ ObexNext /\ profile.kind # "hfp" /\ UNCHANGED linesVars
    \/ HfpNext /\ profile.kind = "hfp" /\ UNCHANGED <<obex, transfer, wire, server>>

LEMMA StepOfEach ==
    ASSUME [Next]_vars
    PROVE  /\ DongleNext \/ UNCHANGED dongleVars
           /\ LeNext \/ UNCHANGED leVars
           /\ A2dpNext \/ UNCHANGED a2dpVars
           /\ AvrcpNext \/ UNCHANGED avrcpVars
           /\ SdpNext \/ UNCHANGED sdpVars
           /\ ClientSteps \/ UNCHANGED <<obexVars, linesVars>>
           /\ GateNext \/ UNCHANGED gateVars
<1> USE DEF ClientSteps, linesVars
<1>0. CASE UNCHANGED vars
  BY <1>0 DEF vars, obexVars, hfpVars, gateVars
<1>1. CASE DongleNext /\ UNCHANGED <<leVars, a2dpVars, avrcpVars, sdpVars, obexVars, hfp, lines, gateVars>>
  BY <1>1 DEF obexVars
<1>2. CASE LeNext /\ UNCHANGED <<dongleVars, a2dpVars, avrcpVars, sdpVars, obexVars, hfp, lines, gateVars>>
  BY <1>2 DEF obexVars
<1>3. CASE A2dpNext /\ UNCHANGED <<dongleVars, leVars, avrcpVars, sdpVars, obexVars, hfp, lines, gateVars>>
  BY <1>3 DEF obexVars
<1>4. CASE AvrcpNext /\ UNCHANGED <<dongleVars, leVars, a2dpVars, sdpVars, obexVars, hfp, lines, gateVars>>
  BY <1>4 DEF obexVars
<1>5. CASE SdpNext /\ UNCHANGED <<dongleVars, leVars, a2dpVars, avrcpVars, obexVars, hfp, lines, gateVars>>
  BY <1>5 DEF obexVars
<1>6. CASE profile.kind # "hfp" /\ ObexNext
             /\ UNCHANGED <<dongleVars, leVars, a2dpVars, avrcpVars, sdpVars, hfp, lines, gateVars>>
  BY <1>6
<1>7. CASE profile.kind = "hfp" /\ HfpNext
             /\ UNCHANGED <<dongleVars, leVars, a2dpVars, avrcpVars, sdpVars, obex, transfer, wire, server, gateVars>>
  BY <1>7
<1>8. CASE GateNext /\ UNCHANGED <<dongleVars, leVars, a2dpVars, avrcpVars, sdpVars, obexVars, hfp, lines>>
  BY <1>8 DEF obexVars
<1> QED
  BY <1>0, <1>1, <1>2, <1>3, <1>4, <1>5, <1>6, <1>7, <1>8 DEF Next

----------------------------------------------------------------------------
\* What a call of a profile's client holds, by where it stands

Dialing == {"acquire", "create", "authenticate", "probe", "encrypt", "lookup", "l2cap", "session"}
Stages == Dialing \cup {"idle", "channel", "obex", "accept", "mux", "opened", "wait", "at"}

IsClient(p) ==
    /\ DOMAIN p = DOMAIN NewClient("none")
    /\ p.at \in Stages
    /\ p.obex # "none" => p.kind \in {"opp", "pbap"}
    /\ p.at \in {"l2cap", "obex", "wait"} => p.kind \in {"opp", "pbap"}
    /\ p.psm \/ p.at = "l2cap" => p.kind = "pbap"
    /\ p.at = "at" => p.kind = "hfp"
    /\ p.at \in {"accept", "mux", "opened"} => p.kind = "spp"
    /\ p.obex = "l2cap" => ~p.session /\ p.kind = "pbap"
    /\ p.obex # "l2cap" => ~p.socket
    /\ p.at \in Dialing \cup {"accept", "mux"} => p.obex = "none" /\ ~p.session
    /\ p.at \in {"channel", "opened"} => p.obex = "none"
    /\ p.at \in {"obex", "wait"} => p.obex # "none"
    /\ p.at = "idle" /\ p.kind \in {"opp", "pbap"} /\ p.obex = "none" => ~p.session
    /\ p.at # "accept" => ~p.server
    /\ p.accepted => p.at = "mux" \/ p.starved

ClientInv ==
    /\ IsClient(profile)
    /\ DOMAIN obex = DOMAIN NewObex /\ (obex.connected => profile.obex # "none")

OpensNothing(p, q) ==
    /\ DOMAIN q = DOMAIN p /\ q.kind = p.kind /\ q.obex = p.obex /\ q.session = p.session /\ q.socket = p.socket
    /\ q.server = p.server /\ q.accepted = p.accepted /\ q.starved = p.starved

\* A step that opens and closes nothing, while nothing is open
LEMMA ClientGoes ==
    ASSUME NEW p, NEW q, IsClient(p), p.at \in Dialing \ {"session"}, OpensNothing(p, q),
           q.at \in Dialing \cup {"idle"}, q.psm \/ q.at = "l2cap" => q.kind = "pbap"
    PROVE  IsClient(q)
BY DEF IsClient, OpensNothing, Stages, Dialing

\* A step on the way to a connection.
Dialed(p, q) ==
    /\ IsClient(q) /\ q.kind = p.kind
    /\ p.at \in Stages \ {"obex", "wait", "at"} /\ q.at \in Stages \ {"wait", "at"}
    /\ p.obex # "none" => q.obex # "none"

LEMMA DialStep ==
    ASSUME IsClient(profile), LinkNext \/ TransportNext \/ DialNext
    PROVE  Dialed(profile, profile')
<1>0. ASSUME profile.at \in Dialing \ {"session"}, OpensNothing(profile, profile'),
             profile'.at \in Dialing \cup {"idle"}, profile'.psm \/ profile'.at = "l2cap" => profile'.kind = "pbap"
      PROVE  Dialed(profile, profile')
  BY <1>0, ClientGoes DEF OpensNothing, Stages, Dialing, Dialed
<1>k. /\ DOMAIN profile = DOMAIN NewClient("none") /\ profile.at \in Stages
      /\ profile.psm \/ profile.at = "l2cap" => profile.kind = "pbap"
  BY DEF IsClient
<1>1. ASSUME NoLink PROVE Dialed(profile, profile')
  <2>1. profile.at \in Dialing \ {"session"} /\ OpensNothing(profile, profile')
    BY <1>1, <1>k DEF NoLink, Returns, OpensNothing, NewClient, Dialing
  <2>2. profile'.at \in (Dialing \cup {"idle"}) \ {"l2cap"} /\ profile'.psm = profile.psm
    BY <1>1, <1>k DEF NoLink, Returns, NewClient, Dialing
  <2> QED
    BY <1>0, <1>k, <2>1, <2>2 DEF OpensNothing
<1>2. ASSUME AcquiresDevice PROVE Dialed(profile, profile')
  <2>1. profile.at \in Dialing \ {"session"} /\ OpensNothing(profile, profile')
    BY <1>2, <1>k DEF AcquiresDevice, Goes, OpensNothing, NewClient, Dialing
  <2>2. profile'.at \in (Dialing \cup {"idle"}) \ {"l2cap"} /\ profile'.psm = profile.psm
    BY <1>2, <1>k DEF AcquiresDevice, Goes, NewClient, Dialing
  <2> QED
    BY <1>0, <1>k, <2>1, <2>2 DEF OpensNothing
<1>3. ASSUME CreatesConnection PROVE Dialed(profile, profile')
  <2>1. profile.at \in Dialing \ {"session"} /\ OpensNothing(profile, profile')
    BY <1>3, <1>k DEF CreatesConnection, Goes, Linked, OpensNothing, NewClient, Dialing
  <2>2. profile'.at \in (Dialing \cup {"idle"}) \ {"l2cap"} /\ profile'.psm = profile.psm
    BY <1>3, <1>k DEF CreatesConnection, Goes, Linked, NewClient, Dialing
  <2> QED
    BY <1>0, <1>k, <2>1, <2>2 DEF OpensNothing
<1>4. ASSUME Authenticates PROVE Dialed(profile, profile')
  <2>1. profile.at \in Dialing \ {"session"} /\ OpensNothing(profile, profile')
    BY <1>4, <1>k DEF Authenticates, Goes, Linked, OpensNothing, NewClient, Dialing
  <2>2. profile'.at \in (Dialing \cup {"idle"}) \ {"l2cap"} /\ profile'.psm = profile.psm
    BY <1>4, <1>k DEF Authenticates, Goes, Linked, NewClient, Dialing
  <2> QED
    BY <1>0, <1>k, <2>1, <2>2 DEF OpensNothing
<1>5. ASSUME Probes PROVE Dialed(profile, profile')
  <2>1. profile.at \in Dialing \ {"session"} /\ OpensNothing(profile, profile')
    BY <1>5, <1>k DEF Probes, Goes, Linked, OpensNothing, NewClient, Dialing
  <2>2. profile'.at \in (Dialing \cup {"idle"}) \ {"l2cap"} /\ profile'.psm = profile.psm
    BY <1>5, <1>k DEF Probes, Goes, Linked, NewClient, Dialing
  <2> QED
    BY <1>0, <1>k, <2>1, <2>2 DEF OpensNothing
<1>6. ASSUME Encrypts PROVE Dialed(profile, profile')
  <2>1. profile.at \in Dialing \ {"session"} /\ OpensNothing(profile, profile')
    BY <1>6, <1>k DEF Encrypts, Linked, OpensNothing, NewClient, Dialing
  <2>2. profile'.at \in (Dialing \cup {"idle"}) \ {"l2cap"} /\ profile'.psm = profile.psm
    BY <1>6, <1>k DEF Encrypts, Linked, NewClient, Dialing
  <2> QED
    BY <1>0, <1>k, <2>1, <2>2 DEF OpensNothing
<1>7. ASSUME NEW psm \in BOOLEAN, NEW channel \in {0, 1}, LooksUp(channel, psm)
      PROVE  Dialed(profile, profile')
  <2>1. profile.at \in Dialing \ {"session"} /\ OpensNothing(profile, profile')
    BY <1>7, <1>k DEF LooksUp, Returns, OpensNothing, NewClient, Dialing
  <2>2. profile'.at \in {"idle", "l2cap", "session"} /\ (profile'.psm \/ profile'.at = "l2cap" => profile'.kind = "pbap")
    BY <1>7, <1>k DEF LooksUp, Returns, NewClient, Dialing
  <2> QED
    BY <1>0, <2>1, <2>2 DEF Dialing
<1> USE DEF IsClient, NewClient, Stages, Dialing, Returns, Taken, HasObex, Dialed
<1>8. ASSUME NEW made \in BOOLEAN, ConnectsL2cap(made) PROVE Dialed(profile, profile')
  BY <1>8 DEF ConnectsL2cap
<1>9. ASSUME NEW made \in BOOLEAN, ConnectsSession(made) PROVE Dialed(profile, profile')
  <2>1. profile.at = "session" /\ DOMAIN profile' = DOMAIN NewClient("none") /\ profile'.kind = profile.kind
    BY <1>9 DEF ConnectsSession
  <2>2. profile'.at \in {"idle", "channel"}
    BY <1>9 DEF ConnectsSession
  <2> QED
    BY <1>9, <2>1, <2>2, ZenonT(40) DEF ConnectsSession
<1>10. ASSUME NEW made \in BOOLEAN, OpensChannel(made) PROVE Dialed(profile, profile')
  <2>1. profile.at = "channel" /\ DOMAIN profile' = DOMAIN NewClient("none") /\ profile'.kind = profile.kind
    BY <1>10 DEF OpensChannel
  <2>2. profile'.at \in {"idle", "obex"}
    BY <1>10 DEF OpensChannel
  <2>3. /\ profile'.accepted = profile.accepted /\ profile'.starved = profile.starved /\ profile'.server = profile.server
        /\ profile'.socket = profile.socket /\ profile'.psm = profile.psm
    <3>1. DOMAIN profile = DOMAIN NewClient("none")
      OBVIOUS
    <3> HIDE DEF IsClient, Stages, Dialing, Returns, Taken, HasObex, Dialed
    <3>2. CASE ~made
      BY <1>10, <3>1, <3>2 DEF OpensChannel
    <3>3. CASE made
      BY <1>10, <3>1, <3>3 DEF OpensChannel
    <3> QED
      BY <3>2, <3>3
  <2>4. CASE ~made
    BY <1>10, <2>1, <2>3, <2>4 DEF OpensChannel
  <2>5. CASE made
    <3>1. profile'.obex = (IF profile.kind \in {"opp", "pbap"} THEN "rfcomm" ELSE "none")
      BY <1>10, <2>5 DEF OpensChannel
    <3>2. profile'.session = profile.session /\ profile'.at = (IF profile.kind \in {"opp", "pbap"} THEN "obex" ELSE "idle")
      BY <1>10, <2>5 DEF OpensChannel
    <3> QED
      BY <2>1, <2>2, <2>3, <3>1, <3>2
  <2> QED
    BY <2>4, <2>5
<1>11. ASSUME NEW made \in BOOLEAN, Accepts(made) PROVE Dialed(profile, profile')
  BY <1>11 DEF Accepts
<1>15. ASSUME NEW made \in BOOLEAN, NEW opened \in BOOLEAN, AcceptFrom(made, opened) PROVE Dialed(profile, profile')
  BY <1>15 DEF AcceptFrom
<1>12. ASSUME NEW made \in BOOLEAN, ChannelComes(made) PROVE Dialed(profile, profile')
  BY <1>12 DEF ChannelComes
<1>14. ASSUME NEW made \in BOOLEAN, Listens(made) PROVE Dialed(profile, profile')
  BY <1>14 DEF Listens
<1>13. ASSUME NEW channel \in {0, 1}, NEW only \in BOOLEAN, Dials(channel, only) PROVE Dialed(profile, profile')
  <2>1. profile.at = "idle" /\ DOMAIN profile' = DOMAIN NewClient("none") /\ profile'.kind = profile.kind
    BY <1>13 DEF Dials
  <2>2. CASE Taken
    BY <1>13, <2>1, <2>2, ZenonT(40) DEF Dials
  <2>3. CASE ~Taken
    <3>1. /\ profile'.at = "acquire" /\ profile'.obex = profile.obex /\ profile'.session = profile.session
          /\ profile'.socket = profile.socket /\ profile'.server = profile.server /\ ~profile'.psm
          /\ profile'.accepted = profile.accepted /\ profile'.starved = profile.starved
      BY <1>13, <2>1, <2>3 DEF Dials
    <3>2. profile.obex = "none" /\ ~profile.session /\ ~profile.server
      BY <2>1, <2>3
    <3> QED
      BY <2>1, <3>1, <3>2
  <2> QED
    BY <2>2, <2>3
<1> HIDE DEF IsClient, NewClient, Stages, Dialing, Returns, Taken, HasObex, Dialed
<1> QED
  BY <1>1, <1>2, <1>3, <1>4, <1>5, <1>6, <1>7, <1>8, <1>9, <1>10, <1>11, <1>12, <1>13, <1>14, <1>15
     DEF LinkNext, TransportNext, DialNext

\* ObexClient::Connect() has failed.
LEMMA ClientWithoutObex ==
    ASSUME IsClient(profile), profile.at \in {"obex", "wait"}, NEW result, profile' = WithoutObex(result)
    PROVE  IsClient(profile') /\ profile'.kind = profile.kind
BY DEF WithoutObex, IsClient, NewClient, Stages, Dialing

\* A call goes on, or comes to its end.
LEMMA ClientMoves ==
    ASSUME IsClient(profile), NEW at, NEW result,
           \/ profile.at = "obex" /\ at = "wait"
           \/ profile.at = "wait" /\ at = "idle"
           \/ profile.at = "idle" /\ profile.obex # "none" /\ at = "wait"
           \/ profile.at = "idle" /\ profile.kind = "hfp" /\ at = "at"
           \/ profile.at = "at" /\ at = "idle",
           profile' \in {[profile EXCEPT !.at = at], [profile EXCEPT !.result = result, !.at = at],
                         [profile EXCEPT !.at = at, !.result = result]}
    PROVE  IsClient(profile') /\ profile'.kind = profile.kind /\ profile'.obex = profile.obex
BY DEF IsClient, NewClient, Stages, Dialing

\* What an answer, or none, does to the client.
LEMMA AnswerEffect ==
    ASSUME AnswerNext
    PROVE  /\ profile.at = "wait"
           /\ \/ UNCHANGED <<profile, obex>>
              \/ \E result, stray : /\ profile' = [profile EXCEPT !.result = result, !.at = "idle"]
                                   /\ obex' = [obex EXCEPT !.astray = @ \/ stray]
              \/ \E max : /\ profile' = [profile EXCEPT !.at = "idle", !.result = "ok"]
                          /\ obex' = [NewObex EXCEPT !.connected = TRUE, !.max = max]
              \/ \E result : profile' = WithoutObex(result) /\ obex' = NewObex
<1> USE DEF Waits, Ends, NoObex
<1>1. CASE Unanswered
  BY <1>1 DEF Unanswered
<1>2. CASE ConnectAnswered
  BY <1>2 DEF ConnectAnswered
<1>3. CASE PutAnswered
  BY <1>3 DEF PutAnswered
<1>4. CASE GetAnswered
  BY <1>4 DEF GetAnswered
<1>5. CASE SetPathAnswered
  BY <1>5 DEF SetPathAnswered
<1> QED
  BY <1>1, <1>2, <1>3, <1>4, <1>5 DEF AnswerNext

LEMMA ClientAnswered ==
    ASSUME ClientInv, AnswerNext
    PROVE  ClientInv' /\ profile'.kind = profile.kind
<1>0. IsClient(profile) /\ profile.at = "wait" /\ profile.obex # "none" /\ DOMAIN obex = DOMAIN NewObex
  BY AnswerEffect DEF ClientInv, IsClient
<1>1. CASE UNCHANGED <<profile, obex>>
  BY <1>1 DEF ClientInv
<1>2. CASE \E result, stray : /\ profile' = [profile EXCEPT !.result = result, !.at = "idle"]
                             /\ obex' = [obex EXCEPT !.astray = @ \/ stray]
  BY <1>0, <1>2, ClientMoves DEF ClientInv
<1>3. CASE \E max : /\ profile' = [profile EXCEPT !.at = "idle", !.result = "ok"]
                    /\ obex' = [NewObex EXCEPT !.connected = TRUE, !.max = max]
  <2>1. DOMAIN obex' = DOMAIN NewObex
    BY <1>3
  <2> QED
    BY <1>0, <1>3, <2>1, ClientMoves DEF ClientInv
<1>4. CASE \E result : profile' = WithoutObex(result) /\ obex' = NewObex
  <2>1. ~NewObex.connected
    BY DEF NewObex
  <2> QED
    BY <1>0, <1>4, <2>1, ClientWithoutObex DEF ClientInv
<1> QED
  BY <1>1, <1>2, <1>3, <1>4, AnswerEffect

LEMMA ClientDisconnected ==
    ASSUME IsClient(profile), profile.at = "idle", profile' = Disconnected
    PROVE  IsClient(profile') /\ profile'.kind = profile.kind /\ profile'.at = "idle" /\ profile'.obex = "none"
BY DEF Disconnected, IsClient, NewClient, Stages, Dialing

LEMMA ClientDials ==
    ASSUME ClientInv, LinkNext \/ TransportNext \/ DialNext, UNCHANGED obex
    PROVE  ClientInv' /\ profile'.kind = profile.kind
BY DialStep DEF ClientInv, Dialed

LEMMA ClientObex ==
    ASSUME ClientInv, ObexNext
    PROVE  ClientInv' /\ profile'.kind = profile.kind
<1>0. IsClient(profile) /\ DOMAIN obex = DOMAIN NewObex /\ ~NewObex.connected
      /\ (obex.connected => profile.obex # "none")
  BY DEF ClientInv, NewObex
<1>1. CASE DialSteps
  BY <1>1, ClientDials DEF DialSteps
<1>2. CASE ObexConnects
  <2>1. profile.at = "obex" /\ profile' = [profile EXCEPT !.at = "wait"] /\ obex' = NewObex
    BY <1>2 DEF ObexConnects
  <2>2. IsClient(profile')
    BY <1>0, <2>1 DEF IsClient, NewClient, Stages, Dialing
  <2>3. profile'.kind = profile.kind
    BY <1>0, <2>1 DEF IsClient, NewClient
  <2> QED
    BY <1>0, <2>1, <2>2, <2>3 DEF ClientInv
<1>3. CASE AnswerNext
  BY <1>3, ClientAnswered
<1>4. CASE ServerNext
  <2>1. UNCHANGED <<profile, obex>>
    BY <1>4 DEF ServerNext, Serves, Refuses, SendsUnasked
  <2> QED
    BY <2>1 DEF ClientInv
<1>5. CASE DialNext /\ UNCHANGED obex
  BY <1>5, ClientDials
<1>6. CASE (\E o \in Objects : Push(o)) \/ Pull \/ SetPath
  <2>1. profile.at = "idle" /\ obex.connected /\ profile' = [profile EXCEPT !.at = "wait"]
        /\ obex' = [obex EXCEPT !.calls = @ + 1]
    BY <1>6 DEF Push, Pull, SetPath, Calls
  <2>2. DOMAIN obex' = DOMAIN NewObex /\ obex'.connected
    BY <1>0, <2>1 DEF NewObex
  <2>3. IsClient(profile') /\ profile'.kind = profile.kind /\ profile'.obex = profile.obex
    BY <1>0, <2>1, ClientMoves
  <2> QED
    BY <1>0, <2>1, <2>2, <2>3 DEF ClientInv
<1>7. CASE Disconnects
  BY <1>0, <1>7, ClientDisconnected DEF Disconnects, ClientInv
<1> QED
  BY <1>1, <1>2, <1>3, <1>4, <1>5, <1>6, <1>7 DEF ObexNext, CallNext, ProfileUserNext

LEMMA ClientHfp ==
    ASSUME ClientInv, HfpNext, profile.kind = "hfp", UNCHANGED obex
    PROVE  ClientInv' /\ profile'.kind = profile.kind
<1>0. IsClient(profile) /\ DOMAIN obex = DOMAIN NewObex /\ ~obex.connected
  BY DEF ClientInv, IsClient
<1>1. CASE HfpLink \/ \E channel \in {0, 1} : Dials(channel, FALSE)
  <2>1. LinkNext \/ TransportNext \/ DialNext
    BY <1>1 DEF HfpLink, DialNext
  <2> QED
    BY <2>1, ClientDials
<1>2. CASE UNCHANGED profile
  BY <1>2 DEF ClientInv
<1>3. CASE \E result : profile.at = "at" /\ profile' = [profile EXCEPT !.at = "idle", !.result = result]
  BY <1>0, <1>3, ClientMoves DEF ClientInv
<1>4. CASE \E result : profile.at = "idle" /\ profile' = [profile EXCEPT !.at = "idle", !.result = result]
  <2>1. IsClient(profile')
    BY <1>0, <1>4 DEF IsClient, NewClient, Stages, Dialing
  <2>2. profile'.kind = profile.kind
    BY <1>0, <1>4 DEF IsClient, NewClient
  <2> QED
    BY <1>0, <2>1, <2>2 DEF ClientInv
<1>5. CASE profile.at = "idle" /\ profile' = [profile EXCEPT !.at = "at"]
  BY <1>0, <1>5, ClientMoves DEF ClientInv
<1>6. CASE HfpDisconnects
  BY <1>0, <1>6, ClientDisconnected DEF HfpDisconnects, ClientInv
<1>7. CASE ReadsFinal \/ ReadsOther \/ ReadFails
  BY <1>2, <1>3, <1>7 DEF ReadsFinal, Takes, ReadsOther, ReadFails, Gives
<1>8. CASE EstablishServiceLevel \/ \E needsLevel \in BOOLEAN : SendAt(needsLevel)
  BY <1>4, <1>5, <1>8 DEF EstablishServiceLevel, SendAt, Returns, Begins, MayCall
<1>9. CASE ReadsPart \/ GatewayAnswers \/ GatewayTells
  BY <1>2, <1>9 DEF ReadsPart, GatewayAnswers, GatewayTells
<1> QED
  BY <1>1, <1>6, <1>7, <1>8, <1>9 DEF HfpNext, HfpCallNext, HfpUserNext

LEMMA ClientStep ==
    ASSUME ClientInv, [Next]_vars
    PROVE  ClientInv' /\ profile'.kind = profile.kind
<1>1. CASE ObexNext
  BY <1>1, ClientObex
<1>2. CASE HfpNext /\ profile.kind = "hfp" /\ UNCHANGED obex
  BY <1>2, ClientHfp
<1>3. CASE UNCHANGED <<profile, obex>>
  BY <1>3 DEF ClientInv
<1> QED
  BY <1>1, <1>2, <1>3, StepOfEach DEF ClientSteps, obexVars

----------------------------------------------------------------------------
\* HfpClient: commands and answers

LineType == [kind : {"text", "ok", "error"}, of : Nat]

NoFinal(q) == \A i \in 1 .. Len(q) : q[i].kind = "text"
OneFinal(q, n) ==
    /\ \A i \in 1 .. Len(q) : q[i].kind # "text" => q[i].of = n
    /\ \A i, j \in 1 .. Len(q) : q[i].kind # "text" /\ q[j].kind # "text" => i = j

\* While a call waits, its command is on the way or at most one answer to it is;
\* when none waits, neither is.  This is what the deadline of a read destroys.
Matched(h, l, at) ==
    IF at = "at"
    THEN /\ h.taken = h.sent - 1
         /\ \/ l.to = <<h.sent>> /\ NoFinal(l.from)
            \/ l.to = <<>> /\ OneFinal(l.from, h.sent)
    ELSE h.taken = h.sent /\ l.to = <<>> /\ NoFinal(l.from)

HfpInv ==
    /\ DOMAIN hfp = DOMAIN NoHfp /\ hfp.sent \in Nat /\ hfp.astray \in BOOLEAN
    /\ DOMAIN lines = DOMAIN NoLines /\ lines.from \in Seq(LineType) /\ lines.to \in Seq(Nat)
    /\ ~hfp.astray => Matched(hfp, lines, profile.at)

LEMMA LineRead ==
    ASSUME NEW q \in Seq(LineType), q # <<>>
    PROVE  /\ Tail(q) \in Seq(LineType) /\ Head(q) \in LineType
           /\ NoFinal(q) => NoFinal(Tail(q)) /\ Head(q).kind = "text"
           /\ \A n : OneFinal(q, n) => OneFinal(Tail(q), n)
           /\ \A n : OneFinal(q, n) /\ Head(q).kind # "text" => Head(q).of = n /\ NoFinal(Tail(q))
<1>1. /\ Tail(q) \in Seq(LineType) /\ Len(Tail(q)) = Len(q) - 1 /\ Len(q) \in Nat /\ Len(q) >= 1
      /\ \A i \in 1 .. Len(q) - 1 : Tail(q)[i] = q[i + 1] /\ i + 1 \in 1 .. Len(q) /\ i + 1 # 1
      /\ Head(q) = q[1] /\ q[1] \in LineType /\ 1 \in 1 .. Len(q)
  OBVIOUS
<1>2. NoFinal(q) => NoFinal(Tail(q)) /\ Head(q).kind = "text"
  BY <1>1 DEF NoFinal
<1>3. ASSUME NEW n, OneFinal(q, n) PROVE OneFinal(Tail(q), n)
  <2>1. \A i, j \in 1 .. Len(q) - 1 : i + 1 = j + 1 => i = j
    BY <1>1
  <2> QED
    BY <1>1, <1>3, <2>1 DEF OneFinal
<1>4. ASSUME NEW n, OneFinal(q, n), Head(q).kind # "text" PROVE Head(q).of = n /\ NoFinal(Tail(q))
  <2>1. \A i \in 1 .. Len(q) - 1 : q[i + 1].kind = "text"
    BY <1>1, <1>4 DEF OneFinal
  <2>2. \A i \in 1 .. Len(Tail(q)) : Tail(q)[i].kind = "text"
    BY <1>1, <2>1
  <2> QED
    BY <1>1, <1>4, <2>2 DEF OneFinal, NoFinal
<1> QED
  BY <1>1, <1>2, <1>3, <1>4

LEMMA LineAdded ==
    ASSUME NEW q \in Seq(LineType), NEW x \in LineType
    PROVE  /\ Append(q, x) \in Seq(LineType)
           /\ x.kind = "text" /\ NoFinal(q) => NoFinal(Append(q, x))
           /\ \A n : x.kind = "text" /\ OneFinal(q, n) => OneFinal(Append(q, x), n)
           /\ NoFinal(q) => OneFinal(Append(q, x), x.of)
<1>1. /\ Append(q, x) \in Seq(LineType) /\ Len(Append(q, x)) = Len(q) + 1 /\ Len(q) \in Nat
      /\ \A i \in 1 .. Len(q) + 1 : Append(q, x)[i] = IF i = Len(q) + 1 THEN x ELSE q[i]
      /\ \A i \in 1 .. Len(q) + 1 : i # Len(q) + 1 => i \in 1 .. Len(q)
  OBVIOUS
<1>2. x.kind = "text" /\ NoFinal(q) => NoFinal(Append(q, x))
  BY <1>1 DEF NoFinal
<1>3. ASSUME NEW n, x.kind = "text", OneFinal(q, n) PROVE OneFinal(Append(q, x), n)
  BY <1>1, <1>3 DEF OneFinal
<1>4. ASSUME NoFinal(q) PROVE OneFinal(Append(q, x), x.of)
  BY <1>1, <1>4 DEF NoFinal, OneFinal
<1> QED
  BY <1>1, <1>2, <1>3, <1>4

\* The deadline cuts a line.
LEMMA LineCut ==
    ASSUME NEW q \in Seq(LineType), q # <<>>, NEW x \in LineType, x.kind = "text"
    PROVE  /\ [q EXCEPT ![1] = x] \in Seq(LineType)
           /\ NoFinal(q) => NoFinal([q EXCEPT ![1] = x])
           /\ \A n : OneFinal(q, n) => OneFinal([q EXCEPT ![1] = x], n)
<1>1. /\ [q EXCEPT ![1] = x] \in Seq(LineType) /\ Len([q EXCEPT ![1] = x]) = Len(q)
      /\ \A i \in 1 .. Len(q) : [q EXCEPT ![1] = x][i] = IF i = 1 THEN x ELSE q[i]
  OBVIOUS
<1> DEFINE r == [q EXCEPT ![1] = x]
<1> HIDE DEF r
<1>2. r \in Seq(LineType) /\ Len(r) = Len(q) /\ \A i \in 1 .. Len(q) : r[i] = IF i = 1 THEN x ELSE q[i]
  BY <1>1 DEF r
<1>3. NoFinal(q) => NoFinal(r)
  BY <1>2 DEF NoFinal
<1>4. ASSUME NEW n, OneFinal(q, n) PROVE OneFinal(r, n)
  BY <1>2, <1>4 DEF OneFinal
<1> QED
  BY <1>2, <1>3, <1>4 DEF r

\* An answer of one or two lines
LEMMA AnswerAdded ==
    ASSUME NEW q \in Seq(LineType), NEW n \in Nat, NEW text, NEW final \in {"ok", "error"},
           text \in {<<>>, <<[kind |-> "text", of |-> n]>>}
    PROVE  /\ q \o text \o <<[kind |-> final, of |-> n]>> \in Seq(LineType)
           /\ NoFinal(q) => OneFinal(q \o text \o <<[kind |-> final, of |-> n]>>, n)
<1> DEFINE t == [kind |-> "text", of |-> n]
           f == [kind |-> final, of |-> n]
<1>1. t \in LineType /\ f \in LineType /\ t.kind = "text" /\ f.of = n
  BY DEF LineType
<1> HIDE DEF t, f
<1>2. CASE text = <<>>
  <2>1. q \o text \o <<f>> = Append(q, f)
    BY <1>1, <1>2
  <2> QED
    BY <1>1, <2>1, LineAdded DEF f
<1>3. CASE text = <<t>>
  <2>1. q \o text \o <<f>> = Append(Append(q, t), f)
    BY <1>1, <1>3
  <2>2. Append(q, t) \in Seq(LineType) /\ (NoFinal(q) => NoFinal(Append(q, t)))
    BY <1>1, LineAdded
  <2>3. Append(Append(q, t), f) \in Seq(LineType)
        /\ (NoFinal(Append(q, t)) => OneFinal(Append(Append(q, t), f), n))
    BY <1>1, <2>2, LineAdded
  <2> QED
    BY <2>1, <2>2, <2>3 DEF f
<1> QED
  BY <1>2, <1>3 DEF t


\* The commands on the way
LEMMA CommandQueue ==
    ASSUME NEW q \in Seq(Nat), NEW n \in Nat
    PROVE  /\ Append(q, n) \in Seq(Nat) /\ (q = <<>> => Append(q, n) = <<n>>)
           /\ q # <<>> => Head(q) \in Nat /\ Tail(q) \in Seq(Nat)
           /\ q = <<n>> => Head(q) = n /\ Tail(q) = <<>>
<1>1. q # <<>> => Head(q) \in Nat /\ Tail(q) \in Seq(Nat)
  BY HeadTailProperties
<1>2. Append(q, n) \in Seq(Nat)
  BY AppendProperties
<1>3. Append(<<>>, n) = <<n>> /\ Head(<<n>>) = n /\ Tail(<<n>>) = <<>>
  OBVIOUS
<1> QED
  BY <1>1, <1>2, <1>3

LEMMA HfpKept ==
    ASSUME HfpInv, UNCHANGED linesVars, profile'.at = "at" <=> profile.at = "at"
    PROVE  HfpInv'
<1>1. Matched(hfp, lines, profile.at) = Matched(hfp, lines, profile'.at)
  BY DEF Matched
<1> QED
  BY <1>1 DEF HfpInv, linesVars

\* A line is read that ends an answer.
LEMMA HfpReadsFinal ==
    ASSUME HfpInv, DOMAIN profile = DOMAIN NewClient("none"), ReadsFinal
    PROVE  HfpInv'
<1>0. /\ profile.at = "at" /\ lines.from # <<>> /\ Line.kind # "text" /\ lines.from \in Seq(LineType)
      /\ DOMAIN hfp = DOMAIN NoHfp /\ hfp.sent \in Nat /\ hfp.astray \in BOOLEAN
      /\ DOMAIN lines = DOMAIN NoLines /\ lines.to \in Seq(Nat)
  BY DEF ReadsFinal, HfpInv
<1>1. /\ Tail(lines.from) \in Seq(LineType) /\ Line.of \in Nat
      /\ ~hfp.astray => lines.to = <<>> /\ Line.of = hfp.sent /\ NoFinal(Tail(lines.from))
  <2>1. ~hfp.astray => lines.to = <<>> /\ OneFinal(lines.from, hfp.sent)
    BY <1>0, LineRead DEF HfpInv, Matched, Line
  <2> QED
    BY <1>0, <2>1, LineRead DEF Line, LineType
<1> DEFINE h == [hfp EXCEPT !.taken = Line.of]
<1>2. DOMAIN h = DOMAIN NoHfp /\ h.sent = hfp.sent /\ h.taken = Line.of /\ h.astray = hfp.astray
  BY <1>0 DEF NoHfp
<1>3. Takes(h)
  BY DEF ReadsFinal
<1> HIDE DEF h
<1>4. CASE /\ profile'.at = "idle" /\ ReadsLine
           /\ DOMAIN hfp' = DOMAIN h /\ hfp'.sent = h.sent /\ hfp'.taken = h.taken /\ hfp'.astray = h.astray
  <2>1. DOMAIN lines' = DOMAIN NoLines /\ lines'.from = Tail(lines.from) /\ lines'.to = lines.to
    BY <1>0, <1>4 DEF ReadsLine, NoLines
  <2>2. ~hfp'.astray => Matched(hfp', lines', profile'.at)
    BY <1>1, <1>2, <1>4, <2>1 DEF Matched
  <2> QED
    BY <1>0, <1>1, <1>2, <1>4, <2>1, <2>2 DEF HfpInv
<1>5. CASE /\ hfp' = [h EXCEPT !.step = @ + 1, !.sent = @ + 1] /\ UNCHANGED profile
           /\ lines' = [lines EXCEPT !.from = Tail(@), !.to = Append(@, hfp.sent + 1)]
  <2>1. DOMAIN lines' = DOMAIN NoLines /\ lines'.from = Tail(lines.from) /\ lines'.to = Append(lines.to, hfp.sent + 1)
    BY <1>0, <1>5 DEF NoLines
  <2>2. DOMAIN hfp' = DOMAIN NoHfp /\ hfp'.sent = hfp.sent + 1 /\ hfp'.taken = Line.of /\ hfp'.astray = hfp.astray
    BY <1>0, <1>2, <1>5 DEF NoHfp
  <2>3. lines'.to \in Seq(Nat) /\ (lines.to = <<>> => lines'.to = <<hfp.sent + 1>>)
    <3>1. hfp.sent + 1 \in Nat
      BY <1>0
    <3> QED
      BY <1>0, <2>1, <3>1, CommandQueue
  <2>4. ~hfp'.astray => Matched(hfp', lines', profile'.at)
    BY <1>0, <1>1, <1>5, <2>1, <2>2, <2>3 DEF Matched
  <2> QED
    BY <1>0, <1>1, <2>1, <2>2, <2>3, <2>4 DEF HfpInv
<1>6. \A r : profile' = [profile EXCEPT !.at = "idle", !.result = r] => profile'.at = "idle"
  BY DEF NewClient
<1>7. \A b, n : hfp' \in {[h EXCEPT !.step = n], [h EXCEPT !.slc = b, !.step = n]}
         => DOMAIN hfp' = DOMAIN h /\ hfp'.sent = h.sent /\ hfp'.taken = h.taken /\ hfp'.astray = h.astray
  BY <1>2 DEF NoHfp
<1>8. \/ hfp' = [h EXCEPT !.step = 0] /\ profile' = [profile EXCEPT !.at = "idle", !.result = "error"] /\ ReadsLine
      \/ \E b : /\ hfp' = [h EXCEPT !.slc = b, !.step = 0] /\ ReadsLine
                /\ profile' = [profile EXCEPT !.at = "idle", !.result = "ok"]
      \/ /\ hfp' = [h EXCEPT !.step = @ + 1, !.sent = @ + 1] /\ UNCHANGED profile
         /\ lines' = [lines EXCEPT !.from = Tail(@), !.to = Append(@, hfp.sent + 1)]
  BY <1>3 DEF Takes
<1>9. CASE hfp' = [h EXCEPT !.step = 0] /\ profile' = [profile EXCEPT !.at = "idle", !.result = "error"] /\ ReadsLine
  BY <1>4, <1>6, <1>7, <1>9
<1>10. CASE \E b : /\ hfp' = [h EXCEPT !.slc = b, !.step = 0] /\ ReadsLine
                   /\ profile' = [profile EXCEPT !.at = "idle", !.result = "ok"]
  BY <1>4, <1>6, <1>7, <1>10
<1> QED
  BY <1>5, <1>8, <1>9, <1>10

\* A command is sent.
LEMMA HfpBegins ==
    ASSUME HfpInv, DOMAIN profile = DOMAIN NewClient("none"), profile.at = "idle", NEW step, Begins(step)
    PROVE  HfpInv'
<1>0. /\ lines.from \in Seq(LineType) /\ DOMAIN hfp = DOMAIN NoHfp /\ hfp.sent \in Nat /\ hfp.astray \in BOOLEAN
      /\ DOMAIN lines = DOMAIN NoLines /\ lines.to \in Seq(Nat) /\ (~hfp.astray => Matched(hfp, lines, profile.at))
  BY DEF HfpInv
<1>1. profile'.at = "at"
  BY DEF Begins, NewClient
<1>2. DOMAIN lines' = DOMAIN NoLines /\ lines'.from = lines.from /\ lines'.to = Append(lines.to, hfp.sent + 1)
  BY <1>0 DEF Begins, Says1, NoLines
<1>3. DOMAIN hfp' = DOMAIN NoHfp /\ hfp'.sent = hfp.sent + 1 /\ hfp'.taken = hfp.taken /\ hfp'.astray = hfp.astray
  BY <1>0 DEF Begins, NoHfp
<1>4. lines'.to \in Seq(Nat) /\ (lines.to = <<>> => lines'.to = <<hfp.sent + 1>>)
  <2>1. hfp.sent + 1 \in Nat
    BY <1>0
  <2> QED
    BY <1>0, <1>2, <2>1, CommandQueue
<1>5. ~hfp'.astray => Matched(hfp', lines', profile'.at)
  BY <1>0, <1>1, <1>2, <1>3, <1>4 DEF Matched
<1> QED
  BY <1>0, <1>2, <1>3, <1>4, <1>5 DEF HfpInv

\* A line is read, cut or told that ends nothing.
LEMMA HfpCollects ==
    ASSUME HfpInv, ReadsOther \/ ReadsPart \/ GatewayTells
    PROVE  HfpInv'
<1>0. /\ lines.from \in Seq(LineType) /\ DOMAIN lines = DOMAIN NoLines /\ lines.to \in Seq(Nat)
      /\ hfp.sent \in Nat /\ UNCHANGED <<profile, hfp>>
  BY DEF HfpInv, ReadsOther, ReadsPart, GatewayTells
<1>k. ASSUME NEW q \in Seq(LineType), DOMAIN lines' = DOMAIN NoLines, lines'.from = q, lines'.to = lines.to,
             NoFinal(lines.from) => NoFinal(q), \A n : OneFinal(lines.from, n) => OneFinal(q, n)
      PROVE  HfpInv'
  <2>1. ~hfp.astray => Matched(hfp, lines', profile.at)
    BY <1>k DEF HfpInv, Matched
  <2> QED
    BY <1>0, <1>k, <2>1 DEF HfpInv
<1>1. CASE ReadsOther
  <2>1. lines.from # <<>> /\ lines'.from = Tail(lines.from) /\ lines'.to = lines.to /\ DOMAIN lines' = DOMAIN NoLines
    BY <1>0, <1>1 DEF ReadsOther, ReadsLine, NoLines
  <2> QED
    BY <1>0, <1>k, <2>1, LineRead
<1>2. CASE ReadsPart
  <2> DEFINE x == [kind |-> "text", of |-> Line.of]
  <2>1. /\ lines.from # <<>> /\ lines'.from = [lines.from EXCEPT ![1] = x] /\ lines'.to = lines.to
        /\ DOMAIN lines' = DOMAIN NoLines
    BY <1>0, <1>2 DEF ReadsPart, NoLines
  <2>2. x \in LineType /\ x.kind = "text"
    BY <1>0, <2>1, LineRead DEF Line, LineType
  <2> HIDE DEF x
  <2>3. lines'.from \in Seq(LineType)
    BY <1>0, <2>1, <2>2, LineCut
  <2>4. (NoFinal(lines.from) => NoFinal(lines'.from)) /\ \A n : OneFinal(lines.from, n) => OneFinal(lines'.from, n)
    BY <1>0, <2>1, <2>2, LineCut
  <2> QED
    BY <1>k, <2>1, <2>3, <2>4
<1>3. CASE GatewayTells
  <2> DEFINE x == [kind |-> "text", of |-> 0]
  <2>1. /\ lines'.from = Append(lines.from, x) /\ lines'.to = lines.to /\ DOMAIN lines' = DOMAIN NoLines
    BY <1>0, <1>3 DEF GatewayTells, NoLines
  <2>2. x \in LineType /\ x.kind = "text"
    BY DEF LineType
  <2> HIDE DEF x
  <2> QED
    BY <1>0, <1>k, <2>1, <2>2, LineAdded
<1> QED
  BY <1>1, <1>2, <1>3

\* The gateway answers the command on the way.
LEMMA HfpAnswered ==
    ASSUME HfpInv, GatewayAnswers
    PROVE  HfpInv'
<1>0. /\ lines.from \in Seq(LineType) /\ DOMAIN lines = DOMAIN NoLines /\ lines.to \in Seq(Nat) /\ lines.to # <<>>
      /\ hfp.sent \in Nat /\ UNCHANGED <<profile, hfp>>
  BY DEF HfpInv, GatewayAnswers
<1> DEFINE of == Head(lines.to)
<1>1. of \in Nat /\ Tail(lines.to) \in Seq(Nat) /\ (lines.to = <<hfp.sent>> => of = hfp.sent /\ Tail(lines.to) = <<>>)
  BY <1>0, CommandQueue
<1>2. PICK text \in {<<>>, <<[kind |-> "text", of |-> of]>>}, final \in {"ok", "error"} :
         lines' = [lines EXCEPT !.to = Tail(@), !.from = @ \o text \o <<[kind |-> final, of |-> of]>>]
  BY DEF GatewayAnswers
<1>3. /\ DOMAIN lines' = DOMAIN NoLines /\ lines'.to = Tail(lines.to)
      /\ lines'.from = lines.from \o text \o <<[kind |-> final, of |-> of]>>
  BY <1>0, <1>2 DEF NoLines
<1> HIDE DEF of
<1>4. lines'.from \in Seq(LineType) /\ (NoFinal(lines.from) => OneFinal(lines'.from, of))
  BY <1>0, <1>1, <1>3, AnswerAdded
<1>5. ~hfp.astray => Matched(hfp, lines', profile.at)
  BY <1>0, <1>1, <1>3, <1>4 DEF HfpInv, Matched
<1> QED
  BY <1>0, <1>1, <1>3, <1>4, <1>5 DEF HfpInv

LEMMA HfpStep ==
    ASSUME HfpInv, ClientInv, [Next]_vars
    PROVE  HfpInv'
<1>0. /\ DOMAIN profile = DOMAIN NewClient("none") /\ (profile.at = "at" => profile.kind = "hfp")
      /\ (profile'.at = "at" => profile'.kind = "hfp") /\ profile'.kind = profile.kind
      /\ DOMAIN hfp = DOMAIN NoHfp /\ DOMAIN lines = DOMAIN NoLines
      /\ lines.from \in Seq(LineType) /\ lines.to \in Seq(Nat) /\ hfp.sent \in Nat
  BY ClientStep DEF ClientInv, IsClient, HfpInv
<1>1. CASE UNCHANGED <<obexVars, linesVars>>
  BY <1>1, HfpKept DEF obexVars
<1>2. CASE profile.kind # "hfp" /\ UNCHANGED linesVars
  BY <1>0, <1>2, HfpKept
<1>3. CASE HfpNext
  <2>1. CASE HfpLink \/ ((\E channel \in {0, 1} : Dials(channel, FALSE)) /\ UNCHANGED <<hfp, lines>>)
    <3>1. LinkNext \/ TransportNext \/ DialNext
      BY <2>1 DEF HfpLink, DialNext
    <3>2. profile.at # "at" /\ profile'.at # "at"
      BY <3>1, DialStep DEF ClientInv, Dialed, Stages, Dialing
    <3> QED
      BY <2>1, <3>2, HfpKept DEF HfpLink, linesVars
  <2>2. CASE ReadsFinal
    BY <1>0, <2>2, HfpReadsFinal
  <2>3. CASE ReadsOther \/ ReadsPart \/ GatewayTells
    BY <2>3, HfpCollects
  <2>4. CASE GatewayAnswers
    BY <2>4, HfpAnswered
  <2>5. CASE ReadFails
    <3>1. /\ UNCHANGED lines /\ DOMAIN hfp' = DOMAIN NoHfp /\ hfp'.sent = hfp.sent /\ hfp'.astray = TRUE
      BY <1>0, <2>5 DEF ReadFails, Gives, NoHfp, HfpInv
    <3> QED
      BY <1>0, <3>1 DEF HfpInv
  <2>6. CASE HfpDisconnects
    <3>1. profile'.at # "at" /\ hfp' = NoHfp /\ lines' = NoLines
      BY <1>0, <2>6 DEF HfpDisconnects, Disconnected, NewClient
    <3>2. <<>> \in Seq(LineType) /\ <<>> \in Seq(Nat) /\ NoFinal(<<>>)
      BY DEF NoFinal
    <3> QED
      BY <3>1, <3>2 DEF HfpInv, Matched, NoHfp, NoLines
  <2>7. CASE EstablishServiceLevel \/ \E needsLevel \in BOOLEAN : SendAt(needsLevel)
    <3>1. profile.at = "idle"
      BY <2>7 DEF EstablishServiceLevel, SendAt, MayCall
    <3>2. CASE Begins(0) \/ Begins(1)
      BY <1>0, <3>1, <3>2, HfpBegins
    <3>3. CASE Returns("not_allowed") /\ UNCHANGED <<hfp, lines>>
      <4>1. profile'.at # "at"
        BY <1>0, <3>3 DEF Returns, NewClient
      <4> QED
        BY <3>1, <3>3, <4>1, HfpKept DEF linesVars
    <3> QED
      BY <2>7, <3>2, <3>3 DEF EstablishServiceLevel, SendAt
  <2> QED
    BY <1>3, <2>1, <2>2, <2>3, <2>4, <2>5, <2>6, <2>7 DEF HfpNext, HfpCallNext, HfpUserNext
<1> QED
  BY <1>1, <1>2, <1>3, StepOfEach DEF ClientSteps

\* Who starts without a connection
LEMMA ClientInit == Init => ClientInv /\ HfpInv
<1> SUFFICES ASSUME Init PROVE ClientInv /\ HfpInv
  OBVIOUS
<1>1. PICK kind : profile = NewClient(kind) /\ obex = NewObex
  BY DEF Init, ObexInit
<1>2. IsClient(NewClient(kind))
  BY DEF IsClient, NewClient, Stages, Dialing
<1>3. <<>> \in Seq(LineType) /\ <<>> \in Seq(Nat) /\ NoFinal(<<>>)
  BY DEF NoFinal
<1>4. profile.at = "idle" /\ hfp = NoHfp /\ lines = NoLines
  BY <1>1 DEF Init, HfpInit, NewClient
<1> QED
  BY <1>1, <1>2, <1>3, <1>4 DEF ClientInv, HfpInv, Matched, NoHfp, NoLines, NewObex

\* HfpClient: until a read has failed, the line that ends a call is the answer to
\* its own command, for any number of calls, lines and answers of the gateway.
THEOREM CommandsMeetAnswers == Spec => []AnswerIsOurs
<1>1. Init => ClientInv /\ HfpInv
  BY ClientInit
<1>2. ClientInv /\ HfpInv /\ [Next]_vars => (ClientInv /\ HfpInv)'
  BY ClientStep, HfpStep
<1>3. HfpInv => AnswerIsOurs
  BY DEF HfpInv, Matched, AnswerIsOurs
<1> QED
  BY <1>1, <1>2, <1>3, PTL DEF Spec

----------------------------------------------------------------------------
\* ObexClient: a request, its answer, and what both sides have of the object

AnswerCodes == {"continue", "success", "forbidden", "unsupported", "refused", "bad"}
ObexAnswers == [code : AnswerCodes, n : Nat, srm : BOOLEAN, max : Nat]

\* In step: no call has given up on an answer.
Engaged == ~obex.astray /\ (profile.at = "wait" \/ (profile.at = "idle" /\ obex.connected))

\* Does the object of the call go out whole?
Fine == ~Swallowed(transfer.object)

ObjectWhole ==
    /\ transfer.op = "put" /\ Fine => server.stored = transfer.object.size
    /\ transfer.op = "get" => transfer.got = Folder

\* No call: nothing is on its way.
Rested ==
    /\ wire.requests = <<>> /\ wire.answers = <<>> /\ server.putting = 0 /\ server.left = 0
    /\ profile.result = "ok" => ObjectWhole

OneRequest == wire.requests # <<>> /\ wire.requests = <<wire.requests[1]>>
OneAnswer == wire.answers # <<>> /\ wire.answers = <<wire.answers[1]>> /\ wire.answers[1] \in ObexAnswers

\* A request that has one answer.
AskedOnce ==
    /\ server.putting = 0 /\ server.left = 0
    /\ \/ wire.requests = <<Asking(transfer.op, TRUE, FALSE)>> /\ wire.answers = <<>>
       \/ wire.requests = <<>> /\ OneAnswer

\* PUT: what the server has, with the packet on its way, is what was sent.
Pushing ==
    /\ profile.kind = "opp" /\ transfer.object \in Objects /\ transfer.sent \in 0 .. transfer.object.size
    /\ transfer.final => transfer.sent = transfer.object.size
    /\ transfer.final \in BOOLEAN /\ server.left = 0
    /\ \/ /\ wire.answers = <<>> /\ OneRequest
          /\ wire.requests[1] = Puts(transfer.final, wire.requests[1].n) /\ wire.requests[1].n \in Nat
          /\ Fine => server.putting + wire.requests[1].n = transfer.sent
       \/ /\ wire.requests = <<>> /\ OneAnswer
          /\ LET code == wire.answers[1].code
             IN  /\ code = "continue" => ~transfer.final /\ (Fine => server.putting = transfer.sent)
                 /\ code # "continue" => server.putting = 0
                 /\ code = "success" => transfer.final /\ (Fine => server.stored = transfer.sent)

\* GET: every part but the last is of one size.
Parts(q, k) == \A i \in 1 .. k : q[i].code = "continue" /\ q[i].n = PartSize
Worth(k) == PartSize * k
Pulling ==
    /\ server.putting = 0 /\ server.left \in Nat /\ transfer.got \in Nat
    /\ wire.answers \in Seq(ObexAnswers) /\ transfer.srm \in BOOLEAN
    /\ \/ /\ wire.requests = <<Asking("get", TRUE, OverL2capSocket)>> /\ wire.answers = <<>>
          /\ transfer.got = 0 /\ server.left = 0 /\ ~transfer.srm
       \/ /\ wire.requests = <<Asking("get", FALSE, FALSE)>> /\ wire.answers = <<>>
          /\ ~server.srm /\ ~transfer.srm /\ transfer.got + server.left = Folder
       \/ /\ wire.requests = <<>>
          /\ server.srm => transfer.srm \/ (wire.answers # <<>> /\ wire.answers[1].srm)
          /\ Len(wire.answers) > 1 => server.srm
          /\ \/ /\ Parts(wire.answers, Len(wire.answers))
                /\ transfer.got + Worth(Len(wire.answers)) + server.left = Folder
             \/ /\ wire.answers # <<>> /\ server.left = 0
                /\ Parts(wire.answers, Len(wire.answers) - 1)
                /\ wire.answers[Len(wire.answers)].code # "continue"
                /\ wire.answers[Len(wire.answers)].code = "success" =>
                      transfer.got + Worth(Len(wire.answers) - 1) + wire.answers[Len(wire.answers)].n = Folder

InOrder ==
    /\ DOMAIN wire = DOMAIN Silent
    /\ DOMAIN server = DOMAIN NoServer /\ server.srm \in BOOLEAN
    /\ profile.at = "idle" => Rested
    /\ profile.at = "wait" /\ transfer.op \in {"connect", "setpath"} => AskedOnce
    /\ profile.at = "wait" /\ transfer.op = "put" => Pushing
    /\ profile.at = "wait" /\ transfer.op = "get" => Pulling

TransferInv ==
    /\ DOMAIN transfer = DOMAIN NoCall
    /\ obex.connected => profile.at \in {"idle", "wait"}
    /\ obex.connected => obex.max \in Nat /\ 127 <= obex.max /\ (profile.kind = "opp" => obex.max <= BufferRoom)
    /\ profile.at = "wait" => transfer.op \in {"connect", "setpath", "put", "get"}
    /\ profile.at = "wait" => IF transfer.op = "connect" THEN ~obex.astray ELSE obex.connected
    /\ Engaged => InOrder

LEMMA FineIs ==
    ASSUME NEW object, profile'.obex = profile.obex, obex'.max = obex.max, transfer'.object = object
    PROVE  Fine' <=> ~Swallowed(object)
BY DEF Fine, Swallowed, PutHeaders, Plus, Header, OverL2capSocket

LEMMA FineKept ==
    ASSUME profile'.obex = profile.obex, obex'.max = obex.max, transfer'.object = transfer.object
    PROVE  Fine' <=> Fine
BY DEF Fine, Swallowed, PutHeaders, Plus, Header, OverL2capSocket

LEMMA HeadersAre ==
    ASSUME NEW object \in Objects, NEW first \in BOOLEAN
    PROVE  /\ PutHeaders(object, first) \in Nat /\ (~first => PutHeaders(object, first) = 8)
           /\ object.size \in Nat
<1>1. object.name \in Nat /\ object.type \in Nat /\ object.size \in Nat /\ BufferRoom \in Nat
  BY ObexAssumption
<1> DEFINE start == IF OverL2capSocket THEN 10 ELSE 8
           name == IF object.name = 0 THEN 0 ELSE 3 + 2 * (object.name + 1)
           type == IF object.type = 0 THEN 0 ELSE 3 + object.type + 1
<1>2. \A l, h \in Nat : Plus(l, h) \in Nat
  BY <1>1 DEF Plus, Header
<1>3. start \in Nat /\ name \in Nat /\ type \in Nat
  BY <1>1
<1>4. PutHeaders(object, first) = IF first THEN Plus(Plus(Plus(start, name), type), 5) ELSE 8
  BY DEF PutHeaders
<1> HIDE DEF start, name, type
<1>5. Plus(Plus(Plus(start, name), type), 5) \in Nat
  BY <1>2, <1>3
<1> QED
  BY <1>1, <1>4, <1>5

\* A packet carries what it is meant to carry.
LEMMA PacketIs ==
    ASSUME obex.max \in Nat, 127 <= obex.max, obex.max <= BufferRoom,
           NEW object \in Objects, NEW sent \in 0 .. object.size, NEW first \in BOOLEAN, first => sent = 0,
           NEW p, p = PacketOf(object, sent, first)
    PROVE  /\ p.chunk \in Nat /\ sent + p.chunk \in 0 .. object.size /\ p.carried \in Nat
           /\ p.final \in BOOLEAN /\ (p.final => sent + p.chunk = object.size)
           /\ (first => ~Swallowed(object)) => p.carried = p.chunk
<1> DEFINE headers == PutHeaders(object, first)
           chunk == Chunk(object.size - sent, headers)
<1>1. headers \in Nat /\ (~first => headers = 8) /\ object.size \in Nat /\ BufferRoom \in Nat
  BY HeadersAre, ObexAssumption
<1>2. first => (Swallowed(object) <=> headers + 3 > obex.max /\ headers + 3 + object.size > BufferRoom)
  BY DEF Swallowed
<1>3. p.chunk = chunk /\ p.carried = IF Fitting(3 + chunk, BufferRoom - headers) THEN chunk ELSE 0
  BY DEF PacketOf
<1>4. p.final \in BOOLEAN /\ (p.final => chunk = object.size - sent)
  BY DEF PacketOf
<1> HIDE DEF headers
<1>5. /\ chunk \in Nat /\ chunk <= object.size - sent /\ sent + chunk \in 0 .. object.size
      /\ headers + 3 > obex.max => chunk = object.size - sent
      /\ ~(headers + 3 > obex.max) => chunk <= obex.max - headers - 3
  BY <1>1 DEF Chunk, Least
<1> HIDE DEF chunk
<1>6. (first => ~Swallowed(object)) => 3 + chunk <= BufferRoom - headers
  <2> SUFFICES ASSUME first => ~Swallowed(object) PROVE 3 + chunk <= BufferRoom - headers
    OBVIOUS
  <2>1. CASE headers + 3 > obex.max
    <3>1. first /\ sent = 0 /\ ~(headers + 3 + object.size > BufferRoom)
      BY <1>1, <1>2, <2>1
    <3> QED
      BY <1>1, <1>5, <2>1, <3>1
  <2>2. CASE ~(headers + 3 > obex.max)
    BY <1>1, <1>5, <2>2
  <2> QED
    BY <2>1, <2>2
<1>7. sent + chunk = object.size <=> chunk = object.size - sent
  BY <1>1, <1>5
<1>8. p.carried \in Nat
  BY <1>3, <1>5
<1>9. (first => ~Swallowed(object)) => p.carried = p.chunk
  <2>1. (3 + chunk) % 65536 <= 3 + chunk
    BY <1>5
  <2>2. (3 + chunk) % 65536 \in Nat
    BY <1>5
  <2>3. BufferRoom - headers \in Int
    BY <1>1
  <2> QED
    BY <1>3, <1>5, <1>6, <2>1, <2>2, <2>3 DEF Fitting
<1> QED
  BY <1>3, <1>4, <1>5, <1>7, <1>8, <1>9

LEMMA WorthIs ==
    /\ Worth(0) = 0
    /\ \A k \in Nat : Worth(k) \in Nat /\ Worth(k + 1) = Worth(k) + PartSize
BY ObexAssumption DEF Worth

LEMMA PartIs ==
    ASSUME NEW left \in Nat, NEW srm \in BOOLEAN
    PROVE  LET a == GetPart(left, srm)
           IN  /\ a \in ObexAnswers /\ a.srm = srm /\ a.n = Part(left)
               /\ left - Part(left) \in Nat /\ a.code \in {"success", "continue"}
               /\ a.code = "success" => Part(left) = left
               /\ a.code = "continue" => Part(left) = PartSize
<1>1. PartSize \in Nat
  BY ObexAssumption
<1>2. Part(left) \in Nat /\ left - Part(left) \in Nat /\ (left <= PartSize => Part(left) = left)
      /\ (~(left <= PartSize) => Part(left) = PartSize)
  BY <1>1 DEF Part, Least
<1>3. ASSUME NEW code, NEW part \in Nat
      PROVE  [Answer(code) EXCEPT !.n = part, !.srm = srm] = [code |-> code, n |-> part, srm |-> srm, max |-> 0]
  <2>0. Answer(code) = [code |-> code, n |-> 0, srm |-> FALSE, max |-> 0]
    BY DEF Answer
  <2>1. ASSUME NEW no \in BOOLEAN
        PROVE  [[code |-> code, n |-> 0, srm |-> no, max |-> 0] EXCEPT !.n = part] = [code |-> code, n |-> part, srm |-> no, max |-> 0]
    OBVIOUS
  <2>2. [[code |-> code, n |-> part, srm |-> FALSE, max |-> 0] EXCEPT !.srm = srm] = [code |-> code, n |-> part, srm |-> srm, max |-> 0]
    OBVIOUS
  <2> QED
    BY <2>0, <2>1, <2>2
<1>4. /\ left <= PartSize => GetPart(left, srm) = [code |-> "success", n |-> Part(left), srm |-> srm, max |-> 0]
      /\ ~(left <= PartSize) => GetPart(left, srm) = [code |-> "continue", n |-> Part(left), srm |-> srm, max |-> 0]
  BY <1>2, <1>3 DEF GetPart
<1> QED
  BY <1>2, <1>4 DEF ObexAnswers, AnswerCodes

LEMMA OneOnTheWay ==
    ASSUME NEW a
    PROVE  /\ Append(<<>>, a) = <<a>> /\ <<a>> # <<>> /\ Len(<<a>>) = 1 /\ <<a>>[1] = a
           /\ Head(<<a>>) = a /\ Tail(<<a>>) = <<>>
OBVIOUS

LEMMA ServerKeeps ==
    ASSUME TransferInv, UNCHANGED <<profile, obex, transfer>>, Engaged => InOrder'
    PROVE  TransferInv'
BY DEF TransferInv, Engaged

\* The first part of an answer to GET.
LEMMA GetServed ==
    ASSUME InOrder, transfer.op = "get", profile.at = "wait", UNCHANGED <<profile, obex, transfer>>,
           NEW left \in Nat, transfer.got + left = Folder, transfer.got \in Nat, transfer.srm \in BOOLEAN,
           NEW srm \in BOOLEAN, wire' = [requests |-> <<>>, answers |-> <<GetPart(left, srm)>>],
           DOMAIN server' = DOMAIN NoServer, server'.putting = 0, server'.left = left - Part(left), server'.srm = srm
    PROVE  InOrder'
<1> DEFINE a == GetPart(left, srm)
<1>1. /\ a \in ObexAnswers /\ a.srm = srm /\ a.n = Part(left) /\ left - Part(left) \in Nat
      /\ a.code \in {"success", "continue"} /\ (a.code = "success" => Part(left) = left)
      /\ a.code = "continue" => Part(left) = PartSize
  BY PartIs
<1> HIDE DEF a
<1>2. wire'.requests = <<>> /\ wire'.answers = <<a>> /\ DOMAIN wire' = DOMAIN Silent
  BY DEF Silent, a
<1>3. /\ wire'.answers # <<>> /\ Len(wire'.answers) = 1 /\ wire'.answers[1] = a /\ wire'.answers \in Seq(ObexAnswers)
  BY <1>1, <1>2, OneOnTheWay
<1>4. Worth(0) = 0 /\ Worth(1) = PartSize /\ PartSize \in Nat
  BY WorthIs, ObexAssumption
<1>5. Pulling'
  <2>1. CASE a.code = "continue"
    <3>1. Parts(wire'.answers, Len(wire'.answers))
      BY <1>1, <1>3, <2>1 DEF Parts
    <3>2. transfer'.got + Worth(Len(wire'.answers)) + server'.left = Folder
      BY <1>1, <1>3, <1>4, <2>1
    <3> QED
      BY <1>1, <1>2, <1>3, <3>1, <3>2 DEF Pulling, Worth, Parts
  <2>2. CASE a.code = "success"
    <3>1. Parts(wire'.answers, Len(wire'.answers) - 1)
      BY <1>3 DEF Parts
    <3>2. transfer'.got + Worth(Len(wire'.answers) - 1) + wire'.answers[Len(wire'.answers)].n = Folder /\ server'.left = 0
      BY <1>1, <1>3, <1>4, <2>2
    <3> QED
      BY <1>1, <1>2, <1>3, <2>2, <3>1, <3>2 DEF Pulling, Worth, Parts
  <2> QED
    BY <1>1, <2>1, <2>2
<1> QED
  BY <1>2, <1>5 DEF InOrder

LEMMA ServesInOrder ==
    ASSUME TransferInv, Serves
    PROVE  TransferInv'
<1> SUFFICES ASSUME Engaged PROVE InOrder'
  BY ServerKeeps DEF Serves
<1>0. /\ UNCHANGED <<profile, obex, transfer>> /\ wire.requests # <<>> /\ InOrder
      /\ profile.at = "wait" /\ transfer.op \in {"connect", "setpath", "put", "get"}
  BY DEF Serves, TransferInv, Engaged, InOrder, Rested
<1>1. Fine' <=> Fine
  BY <1>0, FineKept
<1> DEFINE r == Head(wire.requests)
<1>2. CASE transfer.op \in {"connect", "setpath"}
  <2>1. /\ wire.requests = <<Asking(transfer.op, TRUE, FALSE)>> /\ wire.answers = <<>>
        /\ server.putting = 0 /\ server.left = 0
    BY <1>0, <1>2 DEF InOrder, AskedOnce
  <2>2. r.op = transfer.op /\ Tail(wire.requests) = <<>>
    BY <2>1, OneOnTheWay DEF Asking
  <2>3. \E a \in ObexAnswers : wire' = [requests |-> <<>>, answers |-> <<a>>] /\ UNCHANGED server
    <3>1. CASE transfer.op = "connect"
      <4>1. PICK m \in RemoteMax : wire' = [requests |-> <<>>, answers |-> <<[Answer("success") EXCEPT !.max = m]>>] /\ UNCHANGED server
        BY <2>1, <2>2, <3>1, OneOnTheWay DEF Serves, Says
      <4>2. [Answer("success") EXCEPT !.max = m] \in ObexAnswers
        <5>1. ASSUME NEW no \in BOOLEAN
              PROVE  [[code |-> "success", n |-> 0, srm |-> no, max |-> 0] EXCEPT !.max = m] \in ObexAnswers
          BY ObexAssumption DEF ObexAnswers, AnswerCodes
        <5>2. Answer("success") = [code |-> "success", n |-> 0, srm |-> FALSE, max |-> 0]
          BY DEF Answer
        <5> QED
          BY <5>1, <5>2
      <4> QED
        BY <4>1, <4>2
    <3>2. CASE transfer.op = "setpath"
      <4>1. wire' = [requests |-> <<>>, answers |-> <<Answer("success")>>] /\ UNCHANGED server
        BY <2>1, <2>2, <3>2, OneOnTheWay DEF Serves, Says
      <4>2. Answer("success") \in ObexAnswers
        BY DEF Answer, ObexAnswers, AnswerCodes
      <4> QED
        BY <4>1, <4>2
    <3> QED
      BY <1>2, <3>1, <3>2
  <2>4. PICK a \in ObexAnswers : wire' = [requests |-> <<>>, answers |-> <<a>>] /\ UNCHANGED server
    BY <2>3
  <2>5. wire'.requests = <<>> /\ OneAnswer' /\ DOMAIN wire' = DOMAIN Silent
    BY <2>4, OneOnTheWay DEF OneAnswer, Silent
  <2> QED
    BY <1>0, <1>2, <2>1, <2>4, <2>5 DEF InOrder, AskedOnce
<1>3. CASE transfer.op = "put"
  <2>1. /\ Pushing /\ wire.answers = <<>> /\ wire.requests = <<r>> /\ r = Puts(transfer.final, r.n) /\ r.n \in Nat
        /\ Fine => server.putting + r.n = transfer.sent
    BY <1>0, <1>3, OneOnTheWay DEF InOrder, Pushing, OneRequest
  <2>2. Tail(wire.requests) = <<>> /\ (transfer.final => r.op = "put_final") /\ (~transfer.final => r.op = "put")
    <3> HIDE DEF r
    <3>1. /\ transfer.final => Puts(transfer.final, r.n).op = "put_final"
          /\ ~transfer.final => Puts(transfer.final, r.n).op = "put"
      BY DEF Puts
    <3> QED
      BY <2>1, <3>1, OneOnTheWay
  <2>3. CASE transfer.final
    <3>1. /\ wire' = [requests |-> <<>>, answers |-> <<Answer("success")>>]
          /\ server' = [server EXCEPT !.putting = 0, !.stored = server.putting + r.n]
      BY <2>1, <2>2, <2>3, OneOnTheWay DEF Serves, Says
    <3>2. Answer("success") \in ObexAnswers /\ Answer("success").code = "success"
      BY DEF Answer, ObexAnswers, AnswerCodes
    <3>3. wire'.requests = <<>> /\ OneAnswer' /\ DOMAIN wire' = DOMAIN Silent /\ wire'.answers[1].code = "success"
      BY <3>1, <3>2, OneOnTheWay DEF OneAnswer, Silent
    <3>4. /\ server'.putting = 0 /\ server'.stored = server.putting + r.n /\ server'.left = server.left
          /\ server'.srm = server.srm /\ DOMAIN server' = DOMAIN NoServer
      BY <1>0, <3>1 DEF InOrder, NoServer
    <3>5. Pushing'
      BY <1>0, <1>1, <2>1, <2>3, <3>3, <3>4 DEF Pushing
    <3> QED
      BY <1>0, <1>3, <3>3, <3>4, <3>5 DEF InOrder
  <2>4. CASE ~transfer.final
    <3>1. /\ wire' = [requests |-> <<>>, answers |-> <<Answer("continue")>>]
          /\ server' = [server EXCEPT !.putting = @ + r.n]
      BY <2>1, <2>2, <2>4, OneOnTheWay DEF Serves, Says
    <3>2. Answer("continue") \in ObexAnswers /\ Answer("continue").code = "continue"
      BY DEF Answer, ObexAnswers, AnswerCodes
    <3>3. wire'.requests = <<>> /\ OneAnswer' /\ DOMAIN wire' = DOMAIN Silent /\ wire'.answers[1].code = "continue"
      BY <3>1, <3>2, OneOnTheWay DEF OneAnswer, Silent
    <3>4. /\ server'.putting = server.putting + r.n /\ server'.left = server.left
          /\ server'.srm = server.srm /\ DOMAIN server' = DOMAIN NoServer
      BY <1>0, <3>1 DEF InOrder, NoServer
    <3>5. Pushing'
      BY <1>0, <1>1, <2>1, <2>4, <3>3, <3>4 DEF Pushing
    <3> QED
      BY <1>0, <1>3, <3>3, <3>4, <3>5 DEF InOrder
  <2> QED
    BY <2>3, <2>4
<1>4. CASE transfer.op = "get"
  <2>a. Pulling /\ Folder \in Nat
    BY <1>0, <1>4, ObexAssumption DEF InOrder
  <2>1. /\ wire.answers = <<>>
        /\ \/ wire.requests = <<Asking("get", TRUE, OverL2capSocket)>> /\ transfer.got = 0
           \/ /\ wire.requests = <<Asking("get", FALSE, FALSE)>> /\ ~server.srm
              /\ transfer.got + server.left = Folder
    BY <1>0, <2>a DEF Pulling
  <2>2. Tail(wire.requests) = <<>> /\ r \in {Asking("get", TRUE, OverL2capSocket), Asking("get", FALSE, FALSE)}
    BY <2>1, OneOnTheWay
  <2>7. r.op = "get"
    BY <2>2 DEF Asking
  <2> DEFINE left == IF r.first THEN Folder ELSE server.left
  <2>3. PICK srm \in {FALSE, r.srm} :
           /\ wire' = [requests |-> <<>>, answers |-> <<GetPart(left, srm)>>]
           /\ server' = [server EXCEPT !.left = left - Part(left), !.srm = (r.first /\ srm) \/ (~r.first /\ @)]
    BY <2>1, <2>2, <2>7, OneOnTheWay DEF Serves, Says
  <2>4. /\ server.putting = 0 /\ server.left \in Nat /\ transfer.got \in Nat /\ transfer.srm \in BOOLEAN
        /\ DOMAIN server = DOMAIN NoServer /\ server.srm \in BOOLEAN
    BY <1>0, <2>a DEF Pulling, InOrder
  <2>5. CASE wire.requests = <<Asking("get", TRUE, OverL2capSocket)>> /\ transfer.got = 0
    <3>0. r = Asking("get", TRUE, OverL2capSocket) /\ OverL2capSocket \in BOOLEAN
      BY <2>5, OneOnTheWay DEF OverL2capSocket
    <3>1. r.first = TRUE /\ r.srm \in BOOLEAN /\ left = Folder
      BY <3>0 DEF Asking
    <3>2. \E b \in BOOLEAN : /\ wire' = [requests |-> <<>>, answers |-> <<GetPart(left, b)>>]
                             /\ server' = [server EXCEPT !.left = left - Part(left), !.srm = b]
      <4>1. srm \in {FALSE, r.srm}
        BY <2>3
      <4>2. srm \in BOOLEAN
        BY <3>1, <4>1
      <4>3. (r.first /\ srm) \/ (~r.first /\ server.srm) <=> srm
        BY <3>1
      <4> HIDE DEF left, r
      <4>4. server' = [server EXCEPT !.left = left - Part(left), !.srm = srm]
        BY <2>3, <4>2, <4>3
      <4> QED
        BY <2>3, <4>2, <4>4
    <3>5. PICK b \in BOOLEAN : /\ wire' = [requests |-> <<>>, answers |-> <<GetPart(left, b)>>]
                               /\ server' = [server EXCEPT !.left = left - Part(left), !.srm = b]
      BY <3>2
    <3> HIDE DEF left, r
    <3>3. left \in Nat /\ transfer.got + left = Folder
      BY <2>a, <2>4, <2>5, <3>1
    <3>6. server'.left = left - Part(left) /\ server'.srm = b /\ server'.putting = 0 /\ DOMAIN server' = DOMAIN NoServer
      BY <2>4, <3>5 DEF NoServer
    <3> QED
      BY <1>0, <1>4, <2>4, <3>3, <3>5, <3>6, GetServed
  <2>6. CASE /\ wire.requests = <<Asking("get", FALSE, FALSE)>> /\ ~server.srm
             /\ transfer.got + server.left = Folder
    <3>0. r = Asking("get", FALSE, FALSE)
      BY <2>6, OneOnTheWay
    <3>1. r.first = FALSE /\ r.srm = FALSE /\ left = server.left /\ srm = FALSE
      <4>1. Asking("get", FALSE, FALSE).first = FALSE /\ Asking("get", FALSE, FALSE).srm = FALSE
        BY DEF Asking
      <4>2. r.first = FALSE /\ r.srm = FALSE
        BY <3>0, <4>1
      <4>3. srm \in {FALSE, r.srm}
        BY <2>3
      <4>4. srm = FALSE
        BY <4>2, <4>3
      <4>5. left = server.left
        BY <4>2
      <4> QED
        BY <4>2, <4>4, <4>5
    <3>2. srm \in BOOLEAN /\ server'.left = left - Part(left) /\ server'.srm = srm /\ server'.putting = 0 /\ DOMAIN server' = DOMAIN NoServer
      BY <2>3, <2>4, <2>6, <3>1 DEF NoServer
    <3>3. left \in Nat /\ transfer.got + left = Folder
      BY <2>a, <2>4, <2>6, <3>1
    <3>4. wire' = [requests |-> <<>>, answers |-> <<GetPart(left, srm)>>]
      BY <2>3
    <3> HIDE DEF left
    <3> QED
      BY <1>0, <1>4, <2>4, <3>2, <3>3, <3>4, GetServed
  <2> QED
    BY <2>1, <2>5, <2>6
<1> QED
  BY <1>0, <1>2, <1>3, <1>4

LEMMA OnlyRequest ==
    ASSUME InOrder, profile.at = "wait", transfer.op \in {"connect", "setpath", "put", "get"}, wire.requests # <<>>
    PROVE  wire.answers = <<>> /\ Tail(wire.requests) = <<>>
<1>1. CASE transfer.op \in {"connect", "setpath"}
  BY <1>1, OneOnTheWay DEF InOrder, AskedOnce
<1>2. CASE transfer.op = "put"
  BY <1>2, OneOnTheWay DEF InOrder, Pushing, OneRequest
<1>3. CASE transfer.op = "get"
  <2>1. Pulling
    BY <1>3 DEF InOrder
  <2>2. wire.answers = <<>> /\ \E r : wire.requests = <<r>>
    BY <2>1 DEF Pulling
  <2> QED
    BY <2>2, OneOnTheWay
<1> QED
  BY <1>1, <1>2, <1>3

LEMMA RefusalInOrder ==
    ASSUME TransferInv, Refuses
    PROVE  TransferInv'
<1> SUFFICES ASSUME Engaged PROVE InOrder'
  BY ServerKeeps DEF Refuses
<1>0. /\ UNCHANGED <<profile, obex, transfer>> /\ wire.requests # <<>> /\ InOrder
      /\ profile.at = "wait" /\ transfer.op \in {"connect", "setpath", "put", "get"}
  BY DEF Refuses, TransferInv, Engaged, InOrder, Rested
<1>1. wire.answers = <<>> /\ Tail(wire.requests) = <<>>
  BY <1>0, OnlyRequest
<1>2. PICK code \in {"forbidden", "unsupported", "refused", "bad"} : Says(Head(wire.requests), Answer(code))
  BY DEF Refuses
<1> DEFINE a == Answer(code)
<1>3. a \in ObexAnswers /\ a.code = code /\ code \notin {"continue", "success"}
  BY DEF Answer, ObexAnswers, AnswerCodes
<1>4. wire' = [requests |-> <<>>, answers |-> Append(<<>>, a)]
  BY <1>1, <1>2 DEF Says
<1> HIDE DEF a
<1>5. wire'.requests = <<>> /\ wire'.answers = <<a>> /\ wire'.answers # <<>> /\ DOMAIN wire' = DOMAIN Silent
  BY <1>4, OneOnTheWay DEF Silent
<1>6. wire'.answers[1] = a /\ Len(wire'.answers) = 1 /\ wire'.answers \in Seq(ObexAnswers)
  BY <1>3, <1>5, OneOnTheWay
<1>7. server' = [server EXCEPT !.putting = 0, !.left = 0, !.srm = FALSE] /\ DOMAIN server = DOMAIN NoServer
  BY <1>0 DEF Refuses, InOrder
<1>8. DOMAIN server' = DOMAIN NoServer /\ server'.putting = 0 /\ server'.left = 0 /\ server'.srm = FALSE
  BY <1>7 DEF NoServer
<1>9. transfer.op \in {"connect", "setpath"} => AskedOnce'
  BY <1>3, <1>5, <1>6, <1>8 DEF AskedOnce, OneAnswer
<1>10. transfer.op = "put" => Pushing'
  <2> SUFFICES ASSUME transfer.op = "put" PROVE Pushing'
    OBVIOUS
  <2>1. Pushing
    BY <1>0 DEF InOrder
  <2> QED
    BY <1>0, <1>3, <1>5, <1>6, <1>8, <2>1 DEF Pushing, OneAnswer
<1>11. transfer.op = "get" => Pulling'
  <2> SUFFICES ASSUME transfer.op = "get" PROVE Pulling'
    OBVIOUS
  <2>1. transfer'.got \in Nat /\ transfer'.srm \in BOOLEAN
    BY <1>0 DEF InOrder, Pulling
  <2>2. Parts(wire'.answers, Len(wire'.answers) - 1)
    BY <1>6 DEF Parts
  <2> QED
    BY <1>3, <1>5, <1>6, <1>8, <2>1, <2>2 DEF Pulling, Parts
<1> QED
  BY <1>0, <1>5, <1>8, <1>9, <1>10, <1>11 DEF InOrder

LEMMA ObexAnswerAdded ==
    ASSUME NEW q \in Seq(ObexAnswers), NEW a \in ObexAnswers
    PROVE  /\ Append(q, a) \in Seq(ObexAnswers) /\ Len(Append(q, a)) = Len(q) + 1 /\ Append(q, a) # <<>>
           /\ \A i \in 1 .. Len(q) : Append(q, a)[i] = q[i]
           /\ Append(q, a)[Len(q) + 1] = a /\ Len(q) \in Nat
           /\ q # <<>> => 1 \in 1 .. Len(q)
<1>1. Len(q) \in Nat /\ (q # <<>> => Len(q) # 0)
  BY EmptySeq, LenProperties
<1> QED
  BY <1>1, AppendProperties

LEMMA UnaskedInOrder ==
    ASSUME TransferInv, SendsUnasked
    PROVE  TransferInv'
<1> SUFFICES ASSUME Engaged PROVE InOrder'
  BY ServerKeeps DEF SendsUnasked
<1>0. UNCHANGED <<profile, obex, transfer>> /\ InOrder /\ server.srm /\ server.left > 0
  BY DEF SendsUnasked, TransferInv, Engaged
<1>1. profile.at = "wait" /\ transfer.op = "get" /\ Pulling
  <2>1. server.left # 0
    BY <1>0
  <2>2. ~Rested /\ ~AskedOnce /\ ~Pushing
    BY <2>1 DEF Rested, AskedOnce, Pushing
  <2> QED
    BY <1>0, <2>2 DEF TransferInv, Engaged, InOrder
<1> DEFINE q == wire.answers
<1>2. /\ server.putting = 0 /\ server.left \in Nat /\ transfer.got \in Nat /\ q \in Seq(ObexAnswers) /\ transfer.srm \in BOOLEAN
      /\ wire.requests = <<>> /\ Parts(q, Len(q)) /\ transfer.got + Worth(Len(q)) + server.left = Folder
      /\ transfer.srm \/ (q # <<>> /\ q[1].srm)
  <2>1. /\ server.putting = 0 /\ server.left \in Nat /\ transfer.got \in Nat /\ q \in Seq(ObexAnswers) /\ transfer.srm \in BOOLEAN
    BY <1>1 DEF Pulling
  <2>2. server.left # 0
    BY <1>0
  <2>3. /\ wire.requests = <<>> /\ (server.srm => transfer.srm \/ (q # <<>> /\ q[1].srm))
        /\ Parts(q, Len(q)) /\ transfer.got + Worth(Len(q)) + server.left = Folder
    BY <1>0, <1>1, <2>2 DEF Pulling
  <2> QED
    BY <1>0, <2>1, <2>3
<1>3. \E a \in ObexAnswers, left \in Nat :
         /\ wire' = [wire EXCEPT !.answers = Append(@, a)]
         /\ server' = [server EXCEPT !.left = left]
         /\ a.code # "continue" => left = 0
         /\ a.code = "continue" => a.n = PartSize /\ left = server.left - PartSize
         /\ a.code = "success" => a.n = server.left
  <2>1. ASSUME wire' = [wire EXCEPT !.answers = Append(@, GetPart(server.left, FALSE))],
               server' = [server EXCEPT !.left = @ - Part(server.left)]
        PROVE  <1>3!:
    <3> DEFINE a == GetPart(server.left, FALSE)
               left == server.left - Part(server.left)
    <3>1. /\ a \in ObexAnswers /\ a.n = Part(server.left) /\ left \in Nat
          /\ a.code \in {"success", "continue"}
          /\ a.code = "success" => Part(server.left) = server.left
          /\ a.code = "continue" => Part(server.left) = PartSize
      BY <1>2, PartIs
    <3>2. wire' = [wire EXCEPT !.answers = Append(@, a)] /\ server' = [server EXCEPT !.left = left]
      BY <2>1
    <3>6. left = server.left - Part(server.left)
      OBVIOUS
    <3> HIDE DEF a, left
    <3>3. a.code # "continue" => left = 0
      BY <1>2, <3>1, <3>6
    <3>4. a.code = "continue" => a.n = PartSize /\ left = server.left - PartSize
      BY <3>1, <3>6
    <3>5. a.code = "success" => a.n = server.left
      BY <3>1
    <3> QED
      BY <3>1, <3>2, <3>3, <3>4, <3>5
  <2>2. ASSUME wire' = [wire EXCEPT !.answers = Append(@, Answer("refused"))],
               server' = [server EXCEPT !.left = 0]
        PROVE  <1>3!:
    <3>1. Answer("refused") \in ObexAnswers /\ Answer("refused").code = "refused"
      BY DEF Answer, ObexAnswers, AnswerCodes
    <3> QED
      BY <2>2, <3>1
  <2> QED
    BY <2>1, <2>2 DEF SendsUnasked
<1>4. PICK a \in ObexAnswers, left \in Nat :
         /\ wire' = [wire EXCEPT !.answers = Append(@, a)]
         /\ server' = [server EXCEPT !.left = left]
         /\ a.code # "continue" => left = 0
         /\ a.code = "continue" => a.n = PartSize /\ left = server.left - PartSize
         /\ a.code = "success" => a.n = server.left
  BY <1>3
<1> DEFINE s == Append(q, a)
<1>5. /\ s \in Seq(ObexAnswers) /\ Len(s) = Len(q) + 1 /\ s # <<>> /\ s[Len(q) + 1] = a /\ Len(q) \in Nat
      /\ \A i \in 1 .. Len(q) : s[i] = q[i]
      /\ q # <<>> => s[1] = q[1]
  BY <1>2, ObexAnswerAdded
<1>6. wire'.answers = s /\ wire'.requests = <<>> /\ DOMAIN wire' = DOMAIN Silent
  BY <1>0, <1>2, <1>4 DEF InOrder, Silent
<1>7. server'.left = left /\ server'.putting = 0 /\ server'.srm = server.srm /\ DOMAIN server' = DOMAIN NoServer
  BY <1>0, <1>2, <1>4 DEF InOrder, NoServer
<1> HIDE DEF s
<1>8. Parts(s, Len(s) - 1) /\ s[Len(s)] = a /\ Len(s) - 1 = Len(q)
  BY <1>2, <1>5 DEF Parts
<1>9. transfer'.srm \/ (s # <<>> /\ s[1].srm)
  BY <1>0, <1>2, <1>5
<1>10. Worth(Len(s)) = Worth(Len(q)) + PartSize /\ Worth(Len(q)) \in Nat /\ PartSize \in Nat
  <2>1. Worth(Len(q)) \in Nat /\ Worth(Len(q) + 1) = Worth(Len(q)) + PartSize
    BY <1>5, WorthIs
  <2> QED
    BY <1>5, <2>1, ObexAssumption
<1>11. Pulling'
  <2>1. /\ server'.putting = 0 /\ server'.left \in Nat /\ transfer'.got \in Nat
        /\ wire'.answers \in Seq(ObexAnswers) /\ transfer'.srm \in BOOLEAN
        /\ wire'.requests = <<>> /\ (Len(wire'.answers) > 1 => server'.srm)
        /\ server'.srm => transfer'.srm \/ (wire'.answers # <<>> /\ wire'.answers[1].srm)
    BY <1>0, <1>2, <1>4, <1>5, <1>6, <1>7, <1>9
  <2>2. CASE a.code = "continue"
    <3>1. Parts(s, Len(s))
      BY <1>4, <1>5, <1>8, <2>2 DEF Parts
    <3>2. transfer'.got + Worth(Len(s)) + server'.left = Folder
      BY <1>0, <1>2, <1>4, <1>7, <1>10, <2>2
    <3> QED
      BY <1>6, <2>1, <3>1, <3>2 DEF Pulling, Parts, Worth
  <2>3. CASE a.code # "continue"
    <3>1. a.code = "success" => transfer'.got + Worth(Len(s) - 1) + s[Len(s)].n = Folder
      BY <1>0, <1>2, <1>4, <1>8
    <3>2. server'.left = 0
      BY <1>4, <1>7, <2>3
    <3> QED
      BY <1>5, <1>6, <1>8, <2>1, <2>3, <3>1, <3>2 DEF Pulling, Parts, Worth
  <2> QED
    BY <2>2, <2>3
<1> QED
  BY <1>0, <1>1, <1>6, <1>7, <1>11 DEF InOrder

LEMMA ConnectsInOrder ==
    ASSUME ClientInv, TransferInv, ObexConnects
    PROVE  TransferInv'
<1>1. /\ profile' = [profile EXCEPT !.at = "wait"] /\ DOMAIN profile = DOMAIN NewClient("none")
      /\ obex' = NewObex /\ server' = NoServer /\ transfer' = [NoCall EXCEPT !.op = "connect"]
      /\ wire' = [Silent EXCEPT !.requests = <<Asking("connect", TRUE, FALSE)>>]
  BY DEF ObexConnects, ClientInv, IsClient
<1>2. profile'.at = "wait"
  BY <1>1 DEF NewClient
<1>3. obex'.connected = FALSE /\ obex'.astray = FALSE
  BY <1>1 DEF NewObex
<1>4. DOMAIN server' = DOMAIN NoServer /\ server'.putting = 0 /\ server'.left = 0 /\ server'.srm = FALSE
  BY <1>1 DEF NoServer
<1>5. DOMAIN transfer' = DOMAIN NoCall /\ transfer'.op = "connect"
  BY <1>1 DEF NoCall
<1>6. DOMAIN wire' = DOMAIN Silent /\ wire'.answers = <<>> /\ wire'.requests = <<Asking("connect", TRUE, FALSE)>>
  BY <1>1 DEF Silent
<1>7. AskedOnce'
  BY <1>4, <1>5, <1>6 DEF AskedOnce, Asking
<1>8. InOrder'
  BY <1>2, <1>4, <1>5, <1>6, <1>7 DEF InOrder
<1> QED
  BY <1>2, <1>3, <1>5, <1>8 DEF TransferInv

LEMMA CallMade ==
    ASSUME ClientInv, TransferInv, NEW kind, Calls(kind)
    PROVE  /\ profile.at = "idle" /\ profile'.at = "wait" /\ profile.kind = kind /\ profile'.kind = kind
           /\ profile'.obex = profile.obex /\ server' = server
           /\ obex'.connected = obex.connected /\ obex.connected
           /\ obex'.astray = obex.astray /\ obex'.max = obex.max
           /\ obex.max \in Nat /\ 127 <= obex.max /\ (kind = "opp" => obex.max <= BufferRoom)
           /\ ~obex.astray => /\ InOrder /\ wire.requests = <<>> /\ wire.answers = <<>> /\ server.putting = 0 /\ server.left = 0
                              /\ DOMAIN wire = DOMAIN Silent
<1>1. /\ profile' = [profile EXCEPT !.at = "wait"] /\ DOMAIN profile = DOMAIN NewClient("none")
      /\ obex' = [obex EXCEPT !.calls = @ + 1] /\ DOMAIN obex = DOMAIN NewObex
      /\ profile.kind = kind /\ profile.at = "idle" /\ obex.connected /\ server' = server
  BY DEF Calls, ClientInv, IsClient
<1>2. profile'.at = "wait" /\ profile'.kind = kind /\ profile'.obex = profile.obex
  BY <1>1 DEF NewClient
<1>3. obex'.connected = obex.connected /\ obex'.astray = obex.astray /\ obex'.max = obex.max
  BY <1>1 DEF NewObex
<1>4. ~obex.astray => InOrder /\ Rested /\ DOMAIN wire = DOMAIN Silent
  BY <1>1 DEF TransferInv, Engaged, InOrder
<1>5. obex.max \in Nat /\ 127 <= obex.max /\ (kind = "opp" => obex.max <= BufferRoom)
  BY <1>1 DEF TransferInv
<1> QED
  BY <1>1, <1>2, <1>3, <1>4, <1>5 DEF Rested

LEMMA PushInOrder ==
    ASSUME ClientInv, TransferInv, NEW object \in Objects, Push(object)
    PROVE  TransferInv'
<1>1. Calls("opp") /\ SendsPacket(object, 0, TRUE)
  BY DEF Push
<1>2. /\ profile'.at = "wait" /\ profile'.kind = "opp" /\ profile.kind = "opp"
      /\ profile'.obex = profile.obex /\ server' = server
      /\ obex'.connected /\ obex'.astray = obex.astray /\ obex'.max = obex.max
      /\ obex.max \in Nat /\ 127 <= obex.max /\ obex.max <= BufferRoom
      /\ ~obex.astray => /\ InOrder /\ wire.requests = <<>> /\ wire.answers = <<>> /\ server.putting = 0 /\ server.left = 0
                         /\ DOMAIN wire = DOMAIN Silent
  BY <1>1, CallMade
<1> DEFINE p == PacketOf(object, 0, TRUE)
<1>3. /\ transfer' = [NoCall EXCEPT !.op = "put", !.object = object, !.sent = 0 + p.chunk, !.final = p.final]
      /\ wire' = [wire EXCEPT !.requests = Append(@, Puts(p.final, p.carried))]
  BY <1>1 DEF SendsPacket, SendsRequest
<1>4. object.size \in Nat /\ 0 \in 0 .. object.size /\ p = PacketOf(object, 0, TRUE)
  <2>1. object.size \in Nat
    BY ObexAssumption
  <2> QED
    BY <2>1
<1> HIDE DEF p
<1>5. /\ p.chunk \in Nat /\ 0 + p.chunk \in 0 .. object.size /\ p.carried \in Nat
      /\ p.final \in BOOLEAN /\ (p.final => 0 + p.chunk = object.size)
      /\ ~Swallowed(object) => p.carried = p.chunk
  BY <1>2, <1>4, PacketIs
<1>6. /\ transfer'.op = "put" /\ transfer'.object = object /\ transfer'.sent = 0 + p.chunk /\ transfer'.final = p.final
      /\ DOMAIN transfer' = DOMAIN NoCall
  BY <1>3 DEF NoCall
<1>7. Fine' <=> ~Swallowed(object)
  BY <1>2, <1>6, FineIs
<1>8. ASSUME ~obex.astray PROVE InOrder'
  <2>1. DOMAIN wire' = DOMAIN Silent /\ wire'.answers = <<>> /\ wire'.requests = <<Puts(p.final, p.carried)>>
    BY <1>2, <1>3, <1>8, OneOnTheWay DEF Silent
  <2>2. wire'.requests # <<>> /\ wire'.requests[1] = Puts(p.final, p.carried) /\ Puts(p.final, p.carried).n = p.carried
    BY <2>1, OneOnTheWay DEF Puts
  <2>3. OneRequest'
    BY <2>1, <2>2 DEF OneRequest
  <2>4. Fine' => server'.putting + wire'.requests[1].n = transfer'.sent
    BY <1>2, <1>5, <1>6, <1>7, <1>8, <2>2
  <2>5. Pushing'
    BY <1>2, <1>5, <1>6, <1>8, <2>1, <2>2, <2>3, <2>4 DEF Pushing
  <2> QED
    BY <1>2, <1>6, <1>8, <2>1, <2>5 DEF InOrder
<1> QED
  BY <1>2, <1>6, <1>8 DEF TransferInv, Engaged

LEMMA PullInOrder ==
    ASSUME ClientInv, TransferInv, Pull \/ SetPath
    PROVE  TransferInv'
<1>1. Calls("pbap")
  BY DEF Pull, SetPath
<1>2. /\ profile'.at = "wait" /\ profile'.kind = "pbap"
      /\ profile'.obex = profile.obex /\ server' = server
      /\ obex'.connected /\ obex'.astray = obex.astray /\ obex'.max = obex.max
      /\ obex.max \in Nat /\ 127 <= obex.max
      /\ ~obex.astray => /\ InOrder /\ wire.requests = <<>> /\ wire.answers = <<>> /\ server.putting = 0 /\ server.left = 0
                         /\ DOMAIN wire = DOMAIN Silent
  BY <1>1, CallMade
<1>3. CASE Pull
  <2>1. /\ transfer' = [NoCall EXCEPT !.op = "get"]
        /\ wire' = [wire EXCEPT !.requests = Append(@, Asking("get", TRUE, OverL2capSocket))]
    BY <1>3 DEF Pull, SendsRequest
  <2>2. transfer'.op = "get" /\ transfer'.got = 0 /\ transfer'.srm = FALSE /\ DOMAIN transfer' = DOMAIN NoCall
    BY <2>1 DEF NoCall
  <2>3. ASSUME ~obex.astray PROVE InOrder'
    <3>1. DOMAIN wire' = DOMAIN Silent /\ wire'.answers = <<>> /\ wire'.requests = <<Asking("get", TRUE, OverL2capSocket)>>
      BY <1>2, <2>1, <2>3, OneOnTheWay DEF Silent
    <3>2. OverL2capSocket' = OverL2capSocket
      BY <1>2 DEF OverL2capSocket
    <3>4. wire'.answers \in Seq(ObexAnswers)
      BY <3>1
    <3>5. server'.putting = 0 /\ server'.left = 0
      BY <1>2, <2>3
    <3>6. Pulling'
      <4>1. wire'.requests = <<Asking("get", TRUE, OverL2capSocket')>>
        BY <3>1, <3>2
      <4>2. transfer'.got \in Nat /\ transfer'.srm \in BOOLEAN /\ ~transfer'.srm /\ server'.left \in Nat
        <5>1. transfer'.srm \in BOOLEAN /\ ~transfer'.srm
          BY <2>2
        <5>2. transfer'.got \in Nat
          BY <2>2
        <5>3. server'.left \in Nat
          BY <3>5
        <5> QED
          BY <5>1, <5>2, <5>3
      <4> QED
        BY <2>2, <3>1, <3>4, <3>5, <4>1, <4>2 DEF Pulling
    <3> QED
      BY <1>2, <2>2, <2>3, <3>1, <3>6 DEF InOrder
  <2> QED
    BY <1>2, <2>2, <2>3 DEF TransferInv, Engaged
<1>4. CASE SetPath
  <2>1. /\ transfer' = [NoCall EXCEPT !.op = "setpath"]
        /\ wire' = [wire EXCEPT !.requests = Append(@, Asking("setpath", TRUE, FALSE))]
    BY <1>4 DEF SetPath, SendsRequest
  <2>2. transfer'.op = "setpath" /\ DOMAIN transfer' = DOMAIN NoCall
    BY <2>1 DEF NoCall
  <2>3. ASSUME ~obex.astray PROVE InOrder'
    <3>1. DOMAIN wire' = DOMAIN Silent /\ wire'.answers = <<>> /\ wire'.requests = <<Asking("setpath", TRUE, FALSE)>>
      BY <1>2, <2>1, <2>3, OneOnTheWay DEF Silent
    <3>2. AskedOnce'
      BY <1>2, <2>2, <2>3, <3>1 DEF AskedOnce, Asking
    <3> QED
      BY <1>2, <2>2, <2>3, <3>1, <3>2 DEF InOrder
  <2> QED
    BY <1>2, <2>2, <2>3 DEF TransferInv, Engaged
<1> QED
  BY <1>3, <1>4

LEMMA DisconnectInOrder ==
    ASSUME ClientInv, TransferInv, Disconnects
    PROVE  TransferInv'
<1>1. profile'.at = "idle"
  BY ClientDisconnected DEF Disconnects, ClientInv
<1>2. obex'.connected = FALSE /\ DOMAIN transfer' = DOMAIN NoCall
  BY DEF Disconnects, NewObex
<1> QED
  BY <1>1, <1>2 DEF TransferInv, Engaged

\* Dialing while connected is refused, and leaves things as they are.
LEMMA DialInOrder ==
    ASSUME ClientInv, TransferInv, LinkNext \/ TransportNext \/ DialNext, UNCHANGED <<obex, transfer, wire, server>>
    PROVE  TransferInv'
<1>1. CASE obex.connected
  <2>1. /\ profile.at \in {"idle", "wait"} /\ profile.obex # "none" /\ profile.kind \in {"opp", "pbap"}
        /\ DOMAIN profile = DOMAIN NewClient("none")
    BY <1>1 DEF TransferInv, ClientInv, IsClient
  <2>2. profile.at = "idle" /\ profile' = [profile EXCEPT !.at = "idle", !.result = "busy"]
    <3>1. ~LinkNext
      BY <2>1 DEF LinkNext, NoLink, AcquiresDevice, CreatesConnection, Authenticates, Probes, Encrypts
    <3>2. ~TransportNext
      BY <2>1 DEF TransportNext, LooksUp, ConnectsL2cap, ConnectsSession, OpensChannel, Accepts, AcceptFrom, ChannelComes
    <3>3. PICK channel \in {0, 1}, only \in BOOLEAN : Dials(channel, only)
      BY <2>1, <3>1, <3>2 DEF DialNext, Listens
    <3>4. Taken
      BY <2>1 DEF Taken, HasObex
    <3> QED
      BY <3>3, <3>4 DEF Dials, Returns
  <2>3. profile'.at = "idle" /\ profile'.result = "busy" /\ profile'.kind = profile.kind
    BY <2>1, <2>2 DEF NewClient
  <2>4. ~obex.astray => InOrder'
    <3> SUFFICES ASSUME ~obex.astray PROVE InOrder'
      OBVIOUS
    <3>1. InOrder /\ Rested
      BY <1>1, <2>2 DEF TransferInv, Engaged, InOrder
    <3> QED
      BY <2>3, <3>1 DEF InOrder, Rested
  <2> QED
    BY <1>1, <2>3, <2>4 DEF TransferInv, Engaged
<1>2. CASE ~obex.connected
  <2>1. profile'.at # "wait"
    BY DialStep DEF ClientInv, Dialed
  <2> QED
    BY <1>2, <2>1 DEF TransferInv, Engaged
<1> QED
  BY <1>1, <1>2

LEMMA EndsAs ==
    ASSUME ClientInv, NEW result, NEW stray \in BOOLEAN, Ends(result, stray)
    PROVE  /\ profile'.at = "idle" /\ profile'.result = result /\ profile'.kind = profile.kind /\ profile'.obex = profile.obex
           /\ obex'.connected = obex.connected /\ obex'.max = obex.max
           /\ obex'.astray <=> obex.astray \/ stray
<1>1. /\ profile' = [profile EXCEPT !.result = result, !.at = "idle"] /\ DOMAIN profile = DOMAIN NewClient("none")
      /\ obex' = [obex EXCEPT !.astray = @ \/ stray] /\ DOMAIN obex = DOMAIN NewObex
  BY DEF Ends, ClientInv, IsClient
<1>2. profile'.at = "idle" /\ profile'.result = result /\ profile'.kind = profile.kind /\ profile'.obex = profile.obex
  BY <1>1 DEF NewClient
<1>3. obex'.connected = obex.connected /\ obex'.max = obex.max
  BY <1>1 DEF NewObex
<1>4. obex'.astray <=> obex.astray \/ stray
  BY <1>1 DEF NewObex
<1> QED
  BY <1>2, <1>3, <1>4

\* ObexClient::Connect() has failed.
LEMMA FailureInOrder ==
    ASSUME ClientInv, TransferInv, profile.at = "wait", NEW result, NoObex(result), transfer' = NoCall
    PROVE  TransferInv'
<1>1. obex'.connected = FALSE /\ DOMAIN transfer' = DOMAIN NoCall
  BY DEF NoObex, NewObex
<1>2. profile' = WithoutObex(result) /\ DOMAIN profile = DOMAIN NewClient("none")
  BY DEF NoObex, ClientInv, IsClient
<1>3. profile'.at \in {"session", "idle"}
  BY <1>2 DEF WithoutObex, NewClient
<1> QED
  BY <1>1, <1>3 DEF TransferInv, Engaged

LEMMA SilenceInOrder ==
    ASSUME ClientInv, TransferInv, Unanswered
    PROVE  TransferInv'
<1>1. CASE transfer.op = "connect"
  BY <1>1, FailureInOrder DEF Unanswered
<1>2. CASE transfer.op # "connect"
  <2>1. PICK result : Ends(result, TRUE)
    BY <1>2 DEF Unanswered
  <2>3. DOMAIN transfer' = DOMAIN NoCall
    BY DEF Unanswered
  <2>2. /\ profile'.at = "idle" /\ profile'.kind = profile.kind
        /\ obex'.connected = obex.connected /\ obex'.max = obex.max /\ obex'.astray
    BY <2>1, EndsAs
  <2> QED
    BY <2>2, <2>3 DEF TransferInv, Engaged
<1> QED
  BY <1>1, <1>2

LEMMA ConnectedInOrder ==
    ASSUME ClientInv, TransferInv, ConnectAnswered
    PROVE  TransferInv'
<1>1. profile.at = "wait" /\ transfer.op = "connect" /\ wire.answers # <<>>
  BY DEF ConnectAnswered, Waits, Heard
<1>2. CASE Rsp.code # "success"
  <2>1. NoObex("not_allowed") /\ transfer' = NoCall
    BY <1>2 DEF ConnectAnswered
  <2> QED
    BY <1>1, <2>1, FailureInOrder
<1>3. CASE Rsp.code = "success"
  <2>1. InOrder /\ AskedOnce
    BY <1>1 DEF TransferInv, Engaged, InOrder
  <2>2. wire.requests = <<>> /\ OneAnswer /\ server.putting = 0 /\ server.left = 0
    BY <1>1, <2>1 DEF AskedOnce
  <2>3. Rsp \in ObexAnswers /\ Tail(wire.answers) = <<>>
    BY <2>2, OneOnTheWay DEF OneAnswer, Rsp
  <2> DEFINE largest == Most(Rsp.max, 255)
             max == IF OverL2capSocket THEN largest ELSE Least(largest, Most(FrameMax, 127))
  <2>4. /\ profile' = [profile EXCEPT !.at = "idle", !.result = "ok"] /\ DOMAIN profile = DOMAIN NewClient("none")
        /\ obex' = [NewObex EXCEPT !.connected = TRUE, !.max = max]
        /\ wire' = [wire EXCEPT !.answers = Tail(@)] /\ DOMAIN wire = DOMAIN Silent
        /\ server' = server /\ transfer' = NoCall
    BY <1>3, <2>1 DEF ConnectAnswered, Reads, ClientInv, IsClient, InOrder
  <2>5. max \in Nat /\ 127 <= max /\ (~OverL2capSocket => max <= BufferRoom)
    <3>1. Rsp.max \in Nat
      BY <2>3 DEF ObexAnswers
    <3>2. FrameMax \in Nat /\ BufferRoom \in Nat /\ FrameMax <= BufferRoom /\ 127 <= BufferRoom
      BY ObexAssumption
    <3> QED
      BY <3>1, <3>2 DEF Most, Least
  <2>6. OverL2capSocket => profile.kind = "pbap"
    BY DEF OverL2capSocket, ClientInv, IsClient
  <2> HIDE DEF max
  <2>7. profile'.at = "idle" /\ profile'.kind = profile.kind
    BY <2>4 DEF NewClient
  <2>8. obex'.max = max
    BY <2>4 DEF NewObex
  <2>9. wire'.requests = <<>> /\ wire'.answers = <<>> /\ DOMAIN wire' = DOMAIN Silent
    BY <2>2, <2>3, <2>4 DEF Silent
  <2>10. ObjectWhole'
    BY <2>4 DEF ObjectWhole, NoCall
  <2>11. InOrder'
    BY <2>1, <2>2, <2>4, <2>7, <2>9, <2>10 DEF InOrder, Rested
  <2> QED
    BY <2>4, <2>5, <2>6, <2>7, <2>8, <2>11 DEF TransferInv
<1> QED
  BY <1>2, <1>3

LEMMA SetPathInOrder ==
    ASSUME ClientInv, TransferInv, SetPathAnswered
    PROVE  TransferInv'
<1>1. profile.at = "wait" /\ transfer.op = "setpath" /\ wire.answers # <<>> /\ UNCHANGED <<transfer, server>>
      /\ wire' = [wire EXCEPT !.answers = Tail(@)]
  BY DEF SetPathAnswered, Waits, Heard, Reads
<1>2. PICK result : Ends(result, FALSE)
  BY DEF SetPathAnswered
<1>3. /\ profile'.at = "idle" /\ profile'.kind = profile.kind
      /\ obex'.connected = obex.connected /\ obex'.max = obex.max /\ (obex'.astray <=> obex.astray)
  BY <1>2, EndsAs
<1>4. ~obex.astray => InOrder'
  <2> SUFFICES ASSUME ~obex.astray PROVE InOrder'
    OBVIOUS
  <2>1. InOrder /\ AskedOnce
    BY <1>1 DEF TransferInv, Engaged, InOrder
  <2>2. wire.requests = <<>> /\ OneAnswer /\ server.putting = 0 /\ server.left = 0 /\ DOMAIN wire = DOMAIN Silent
    BY <1>1, <2>1 DEF AskedOnce, InOrder
  <2>3. Tail(wire.answers) = <<>>
    BY <2>2, OneOnTheWay DEF OneAnswer
  <2>4. wire'.requests = <<>> /\ wire'.answers = <<>> /\ DOMAIN wire' = DOMAIN Silent
    BY <1>1, <2>2, <2>3 DEF Silent
  <2>5. ObjectWhole'
    BY <1>1 DEF ObjectWhole
  <2> QED
    BY <1>1, <1>3, <2>1, <2>2, <2>4, <2>5 DEF InOrder, Rested
<1> QED
  BY <1>1, <1>3, <1>4 DEF TransferInv, Engaged

LEMMA PutInOrder ==
    ASSUME ClientInv, TransferInv, PutAnswered
    PROVE  TransferInv'
<1>1. /\ profile.at = "wait" /\ transfer.op = "put" /\ wire.answers # <<>> /\ UNCHANGED server
      /\ obex.connected /\ obex.max \in Nat /\ 127 <= obex.max /\ (profile.kind = "opp" => obex.max <= BufferRoom)
      /\ DOMAIN transfer = DOMAIN NoCall
  BY DEF PutAnswered, Waits, Heard, TransferInv
<1>0. ~obex.astray => InOrder /\ Pushing
  BY <1>1 DEF TransferInv, Engaged, InOrder
<1>a. ~obex.astray => /\ wire.requests = <<>> /\ OneAnswer /\ Rsp = wire.answers[1] /\ Tail(wire.answers) = <<>>
                      /\ DOMAIN wire = DOMAIN Silent /\ DOMAIN transfer = DOMAIN NoCall
                      /\ profile.kind = "opp" /\ transfer.object \in Objects /\ transfer.sent \in 0 .. transfer.object.size
                      /\ transfer.final \in BOOLEAN /\ (transfer.final => transfer.sent = transfer.object.size)
                      /\ server.left = 0
                      /\ Rsp.code = "continue" => ~transfer.final /\ (Fine => server.putting = transfer.sent)
                      /\ Rsp.code # "continue" => server.putting = 0
                      /\ Rsp.code = "success" => transfer.final /\ (Fine => server.stored = transfer.sent)
  <2> SUFFICES ASSUME ~obex.astray
               PROVE  <1>a!2
    OBVIOUS
  <2>1. InOrder /\ Pushing
    BY <1>0
  <2>2. wire.requests = <<>> /\ OneAnswer
    BY <1>1, <2>1 DEF Pushing
  <2>3. Rsp = wire.answers[1] /\ Tail(wire.answers) = <<>>
    BY <2>2, OneOnTheWay DEF OneAnswer, Rsp
  <2> QED
    BY <1>1, <2>1, <2>2, <2>3 DEF Pushing, InOrder
<1>2. CASE ~transfer.final /\ Rsp.code = "continue"
  <2> DEFINE p == PacketOf(transfer.object, transfer.sent, FALSE)
  <2>1. /\ transfer' = [transfer EXCEPT !.sent = @ + p.chunk, !.final = p.final]
        /\ wire' = [answers |-> Tail(wire.answers), requests |-> Append(wire.requests, Puts(p.final, p.carried))]
        /\ UNCHANGED <<profile, obex>>
    BY <1>2 DEF PutAnswered
  <2>2. transfer'.op = "put" /\ DOMAIN transfer' = DOMAIN NoCall
    BY <1>1, <2>1 DEF NoCall
  <2>3. ~obex.astray => InOrder'
    <3> SUFFICES ASSUME ~obex.astray PROVE InOrder'
      OBVIOUS
    <3>1. p = PacketOf(transfer.object, transfer.sent, FALSE)
      OBVIOUS
    <3> HIDE DEF p
    <3>2. /\ p.chunk \in Nat /\ transfer.sent + p.chunk \in 0 .. transfer.object.size /\ p.carried \in Nat
          /\ p.final \in BOOLEAN /\ (p.final => transfer.sent + p.chunk = transfer.object.size)
          /\ p.carried = p.chunk
      BY <1>1, <1>a, <3>1, PacketIs
    <3>3. /\ transfer'.object = transfer.object /\ transfer'.sent = transfer.sent + p.chunk /\ transfer'.final = p.final
          /\ DOMAIN transfer' = DOMAIN NoCall
      BY <1>a, <2>1 DEF NoCall
    <3>4. wire' = [answers |-> <<>>, requests |-> Append(<<>>, Puts(p.final, p.carried))]
      BY <1>a, <2>1
    <3>5. /\ DOMAIN wire' = DOMAIN Silent /\ wire'.answers = <<>> /\ wire'.requests = <<Puts(p.final, p.carried)>>
      BY <3>4, OneOnTheWay DEF Silent
    <3>6. wire'.requests # <<>> /\ wire'.requests[1] = Puts(p.final, p.carried) /\ Puts(p.final, p.carried).n = p.carried
      BY <3>5, OneOnTheWay DEF Puts
    <3>7. OneRequest'
      BY <3>5, <3>6 DEF OneRequest
    <3>8. Fine' <=> Fine
      BY <2>1, <3>3, FineKept
    <3>9. Fine' => server'.putting + wire'.requests[1].n = transfer'.sent
      BY <1>1, <1>2, <1>a, <3>2, <3>3, <3>6, <3>8
    <3>10. Pushing'
      BY <1>1, <1>a, <2>1, <3>2, <3>3, <3>5, <3>6, <3>7, <3>9 DEF Pushing
    <3> QED
      BY <1>0, <1>1, <2>1, <2>2, <3>3, <3>5, <3>10 DEF InOrder
  <2> QED
    BY <1>1, <2>1, <2>2, <2>3 DEF TransferInv, Engaged
<1>3. CASE ~(~transfer.final /\ Rsp.code = "continue")
  <2>1. /\ Ends(IF transfer.final /\ Rsp.code = "success" THEN "ok" ELSE PutRefused, FALSE)
        /\ wire' = [wire EXCEPT !.answers = Tail(@)] /\ UNCHANGED transfer
    BY <1>3 DEF PutAnswered, Reads
  <2>2. /\ profile'.at = "idle" /\ profile'.kind = profile.kind /\ profile'.obex = profile.obex
        /\ obex'.connected = obex.connected /\ obex'.max = obex.max /\ (obex'.astray <=> obex.astray)
        /\ profile'.result = IF transfer.final /\ Rsp.code = "success" THEN "ok" ELSE PutRefused
    BY <2>1, EndsAs
  <2>3. PutRefused # "ok"
    BY DEF PutRefused
  <2>4. ~obex.astray => InOrder'
    <3> SUFFICES ASSUME ~obex.astray PROVE InOrder'
      OBVIOUS
    <3>1. wire'.requests = <<>> /\ wire'.answers = <<>> /\ DOMAIN wire' = DOMAIN Silent
      BY <1>a, <2>1 DEF Silent
    <3>2. server.putting = 0 /\ server.left = 0
      BY <1>3, <1>a
    <3>3. Fine' <=> Fine
      BY <2>1, <2>2, FineKept
    <3>4. profile'.result = "ok" => ObjectWhole'
      BY <1>1, <1>a, <2>1, <2>2, <2>3, <3>3 DEF ObjectWhole
    <3> QED
      BY <1>0, <1>1, <2>1, <2>2, <3>1, <3>2, <3>4 DEF InOrder, Rested
  <2> QED
    BY <1>1, <2>1, <2>2, <2>4 DEF TransferInv, Engaged
<1> QED
  BY <1>2, <1>3

LEMMA GetHeard ==
    ASSUME Pulling, wire.answers # <<>>, NEW q, q = wire.answers
    PROVE  /\ wire.requests = <<>> /\ q \in Seq(ObexAnswers) /\ Rsp = q[1] /\ Rsp \in ObexAnswers
           /\ Tail(q) \in Seq(ObexAnswers) /\ Len(q) \in Nat \ {0} /\ Len(Tail(q)) = Len(q) - 1
           /\ \A i \in 1 .. Len(q) - 1 : Tail(q)[i] = q[i + 1]
           /\ Len(q) = 1 => Tail(q) = <<>>
           /\ server.putting = 0 /\ server.left \in Nat /\ transfer.got \in Nat /\ transfer.srm \in BOOLEAN
           /\ server.srm => transfer.srm \/ Rsp.srm
           /\ Len(q) > 1 => server.srm
           /\ \/ Parts(q, Len(q)) /\ transfer.got + Worth(Len(q)) + server.left = Folder
              \/ /\ server.left = 0 /\ Parts(q, Len(q) - 1) /\ q[Len(q)].code # "continue"
                 /\ q[Len(q)].code = "success" => transfer.got + Worth(Len(q) - 1) + q[Len(q)].n = Folder
<1>1. /\ q \in Seq(ObexAnswers) /\ server.putting = 0 /\ server.left \in Nat /\ transfer.got \in Nat /\ transfer.srm \in BOOLEAN
  BY DEF Pulling
<1>2. q # <<>>
  OBVIOUS
<1>3. /\ Head(q) \in ObexAnswers /\ Tail(q) \in Seq(ObexAnswers) /\ Len(Tail(q)) = Len(q) - 1
      /\ \A i \in 1 .. Len(Tail(q)) : Tail(q)[i] = q[i + 1]
  BY <1>1, <1>2, HeadTailProperties
<1>4. Len(q) \in Nat /\ Len(q) # 0 /\ (Len(Tail(q)) = 0 => Tail(q) = <<>>)
  BY <1>1, <1>2, <1>3, LenProperties, EmptySeq
<1>5. Rsp = Head(q) /\ Head(q) = q[1]
  BY <1>1, <1>2 DEF Rsp
<1>6. /\ wire.requests = <<>>
      /\ server.srm => transfer.srm \/ q[1].srm
      /\ Len(q) > 1 => server.srm
      /\ \/ Parts(q, Len(q)) /\ transfer.got + Worth(Len(q)) + server.left = Folder
         \/ /\ server.left = 0 /\ Parts(q, Len(q) - 1) /\ q[Len(q)].code # "continue"
            /\ q[Len(q)].code = "success" => transfer.got + Worth(Len(q) - 1) + q[Len(q)].n = Folder
  BY <1>2 DEF Pulling
<1> QED
  BY <1>1, <1>3, <1>4, <1>5, <1>6

LEMMA PartGot ==
    ASSUME InOrder, DOMAIN transfer = DOMAIN NoCall, profile.at = "wait", transfer.op = "get", wire.answers # <<>>, Rsp.code = "continue", GetAnswered
    PROVE  InOrder'
<1> DEFINE q == wire.answers
<1>0. Pulling /\ DOMAIN transfer = DOMAIN NoCall
  BY DEF InOrder
<1>1. /\ wire.requests = <<>> /\ q \in Seq(ObexAnswers) /\ Rsp = q[1] /\ Rsp \in ObexAnswers
      /\ Tail(q) \in Seq(ObexAnswers) /\ Len(q) \in Nat \ {0} /\ Len(Tail(q)) = Len(q) - 1
      /\ \A i \in 1 .. Len(q) - 1 : Tail(q)[i] = q[i + 1]
      /\ Len(q) = 1 => Tail(q) = <<>>
      /\ server.putting = 0 /\ server.left \in Nat /\ transfer.got \in Nat /\ transfer.srm \in BOOLEAN
      /\ server.srm => transfer.srm \/ Rsp.srm
      /\ Len(q) > 1 => server.srm
      /\ \/ Parts(q, Len(q)) /\ transfer.got + Worth(Len(q)) + server.left = Folder
         \/ /\ server.left = 0 /\ Parts(q, Len(q) - 1) /\ q[Len(q)].code # "continue"
            /\ q[Len(q)].code = "success" => transfer.got + Worth(Len(q) - 1) + q[Len(q)].n = Folder
  BY <1>0, GetHeard
<1> DEFINE c == [transfer EXCEPT !.got = @ + Rsp.n, !.srm = @ \/ Rsp.srm]
<1>2. /\ transfer' = c /\ UNCHANGED <<profile, obex, server>>
      /\ wire' = [answers |-> Tail(q),
                  requests |-> IF c.srm THEN wire.requests ELSE Append(wire.requests, Asking("get", FALSE, FALSE))]
  BY DEF GetAnswered
<1>3. Rsp.n \in Nat /\ Rsp.srm \in BOOLEAN
  BY <1>1 DEF ObexAnswers
<1>4. c.got = transfer.got + Rsp.n /\ c.op = "get" /\ DOMAIN c = DOMAIN NoCall
  BY <1>0 DEF NoCall
<1>5. (c.srm <=> transfer.srm \/ Rsp.srm) /\ c.srm \in BOOLEAN
  BY <1>0, <1>1, <1>3 DEF NoCall
<1> HIDE DEF c, q
<1>6. /\ DOMAIN wire' = DOMAIN Silent /\ wire'.answers = Tail(q)
      /\ c.srm => wire'.requests = <<>>
      /\ ~c.srm => wire'.requests = <<Asking("get", FALSE, FALSE)>>
  BY <1>1, <1>2, OneOnTheWay DEF Silent
<1>7. PartSize \in Nat /\ Worth(0) = 0 /\ \A k \in Nat : Worth(k) \in Nat /\ Worth(k + 1) = Worth(k) + PartSize
  BY WorthIs, ObexAssumption
<1>8. Pulling'
  <2>0. /\ server'.putting = 0 /\ server'.left = server.left /\ server'.srm = server.srm /\ server'.left \in Nat
        /\ transfer'.got = transfer.got + Rsp.n /\ transfer'.got \in Nat
        /\ wire'.answers \in Seq(ObexAnswers) /\ transfer'.srm \in BOOLEAN /\ (transfer'.srm <=> c.srm)
    BY <1>1, <1>2, <1>3, <1>4, <1>5, <1>6
  <2>3. /\ transfer.got \in Nat /\ server.left \in Nat /\ Rsp.n \in Nat
        /\ transfer'.got = transfer.got + Rsp.n /\ server'.left = server.left
    BY <1>1, <1>2, <1>3, <1>4
  <2>4. PartSize \in Nat
    BY <1>7
  <2>1. CASE Parts(q, Len(q)) /\ transfer.got + Worth(Len(q)) + server.left = Folder
    <3>1. Rsp.n = PartSize
      BY <1>1, <2>1 DEF Parts
    <3>2. Parts(Tail(q), Len(Tail(q)))
      BY <1>1, <2>1 DEF Parts
    <3>3. Len(Tail(q)) \in Nat /\ Len(q) = Len(Tail(q)) + 1
      BY <1>1
    <3>4. Worth(Len(q)) = Worth(Len(Tail(q))) + PartSize /\ Worth(Len(Tail(q))) \in Nat
      BY <1>7, <3>3
    <3>5. transfer'.got + Worth(Len(Tail(q))) + server'.left = Folder
      <4>1. PartSize \in Nat
        BY <1>7
      <4>2. transfer.got + Worth(Len(q)) + server.left = Folder
        BY <2>1
      <4> QED
        BY <2>3, <3>1, <3>4, <4>1, <4>2
    <3>6. CASE c.srm
      <4>1. wire'.requests = <<>> /\ transfer'.srm /\ (Len(Tail(q)) > 1 => server'.srm)
        BY <1>1, <1>6, <2>0, <3>3, <3>6
      <4> QED
        BY <1>6, <2>0, <3>2, <3>5, <4>1 DEF Pulling
    <3>7. CASE ~c.srm
      <4>1. ~server.srm /\ Len(q) = 1 /\ Tail(q) = <<>> /\ Len(Tail(q)) = 0
        BY <1>1, <1>5, <3>7
      <4>2. transfer'.got + server'.left = Folder
        <5>1. Worth(Len(Tail(q))) = 0
          BY <1>7, <4>1
        <5> QED
          BY <2>0, <2>3, <3>5, <5>1
      <4>3. wire'.requests = <<Asking("get", FALSE, FALSE)>> /\ wire'.answers = <<>> /\ ~server'.srm /\ ~transfer'.srm
        BY <1>6, <2>0, <3>7, <4>1
      <4> QED
        BY <2>0, <4>2, <4>3 DEF Pulling
    <3> QED
      BY <3>6, <3>7
  <2>2. CASE /\ server.left = 0 /\ Parts(q, Len(q) - 1) /\ q[Len(q)].code # "continue"
             /\ q[Len(q)].code = "success" => transfer.got + Worth(Len(q) - 1) + q[Len(q)].n = Folder
    <3>1. Len(q) > 1 /\ Rsp.n = PartSize
      BY <1>1, <2>2 DEF Parts
    <3>2. c.srm
      BY <1>1, <1>5, <3>1
    <3>3. Tail(q)[Len(Tail(q))] = q[Len(q)] /\ Tail(q) # <<>> /\ Len(Tail(q)) - 1 \in Nat /\ Len(q) - 1 = (Len(Tail(q)) - 1) + 1
      <4>1. Len(q) \in Nat \ {0} /\ Len(Tail(q)) = Len(q) - 1 /\ Len(q) - 1 \in 1 .. Len(q) - 1
        BY <1>1, <3>1
      <4>2. Tail(q)[Len(q) - 1] = q[(Len(q) - 1) + 1]
        BY <1>1, <4>1
      <4>3. (Len(q) - 1) + 1 = Len(q)
        BY <4>1
      <4>4. Tail(q)[Len(Tail(q))] = q[Len(q)]
        BY <4>1, <4>2, <4>3
      <4>5. Tail(q) # <<>>
        <5>1. Len(<<>>) = 0
          OBVIOUS
        <5>2. Len(Tail(q)) # 0
          BY <3>1, <4>1
        <5> QED
          BY <5>1, <5>2
      <4>6. Len(Tail(q)) - 1 \in Nat /\ Len(q) - 1 = (Len(Tail(q)) - 1) + 1
        BY <3>1, <4>1
      <4> QED
        BY <4>4, <4>5, <4>6
    <3>4. Parts(Tail(q), Len(Tail(q)) - 1)
      BY <1>1, <2>2 DEF Parts
    <3>5. Worth(Len(q) - 1) = Worth(Len(Tail(q)) - 1) + PartSize /\ Worth(Len(Tail(q)) - 1) \in Nat
      BY <1>7, <3>3
    <3>6. Tail(q)[Len(Tail(q))].code = "success" => transfer'.got + Worth(Len(Tail(q)) - 1) + Tail(q)[Len(Tail(q))].n = Folder
      <4>1. Len(q) \in 1 .. Len(q)
        BY <1>1
      <4>2. q[Len(q)] \in ObexAnswers
        BY <1>1, <4>1, ElementOfSeq
      <4>3. q[Len(q)].n \in Nat
        BY <4>2 DEF ObexAnswers
      <4> QED
        <5>1. q[Len(q)].code = "success" => transfer.got + Worth(Len(q) - 1) + q[Len(q)].n = Folder
          BY <2>2
        <5> QED
          BY <2>3, <2>4, <3>1, <3>3, <3>5, <4>3, <5>1
    <3>7. Tail(q)[Len(Tail(q))].code # "continue" /\ server'.left = 0
      BY <2>0, <2>2, <3>3
    <3> QED
      <4>1. wire'.requests = <<>> /\ transfer'.srm /\ (Len(Tail(q)) > 1 => server'.srm)
        BY <1>1, <1>6, <2>0, <3>1, <3>2
      <4> QED
        BY <1>6, <2>0, <3>3, <3>4, <3>6, <3>7, <4>1 DEF Pulling
  <2> QED
    BY <1>1, <2>1, <2>2
<1> QED
  BY <1>2, <1>4, <1>6, <1>8 DEF InOrder

LEMMA GetInOrder ==
    ASSUME ClientInv, TransferInv, GetAnswered
    PROVE  TransferInv'
<1>1. /\ profile.at = "wait" /\ transfer.op = "get" /\ wire.answers # <<>> /\ UNCHANGED server
      /\ obex.connected /\ DOMAIN transfer = DOMAIN NoCall
  BY DEF GetAnswered, Waits, Heard, TransferInv
<1>2. ~obex.astray => InOrder /\ Pulling
  BY <1>1 DEF TransferInv, Engaged, InOrder
<1>3. transfer' = [transfer EXCEPT !.got = @ + Rsp.n, !.srm = @ \/ Rsp.srm]
  BY DEF GetAnswered
<1>4. transfer'.op = "get" /\ DOMAIN transfer' = DOMAIN NoCall /\ transfer'.got = transfer.got + Rsp.n
  BY <1>1, <1>3 DEF NoCall
<1>5. CASE Rsp.code = "continue"
  <2>1. UNCHANGED <<profile, obex>>
    BY <1>5 DEF GetAnswered
  <2>2. ~obex.astray => InOrder'
    BY <1>1, <1>2, <1>5, PartGot
  <2> QED
    BY <1>1, <1>4, <2>1, <2>2 DEF TransferInv, Engaged
<1>6. CASE Rsp.code # "continue"
  <2>1. /\ Ends(IF Rsp.code = "success" THEN "ok" ELSE "error", FALSE)
        /\ wire' = [wire EXCEPT !.answers = Tail(@)]
    BY <1>6 DEF GetAnswered, Reads
  <2>2. /\ profile'.at = "idle" /\ profile'.kind = profile.kind
        /\ obex'.connected = obex.connected /\ obex'.max = obex.max /\ (obex'.astray <=> obex.astray)
        /\ profile'.result = IF Rsp.code = "success" THEN "ok" ELSE "error"
    BY <2>1, EndsAs
  <2>3. ~obex.astray => InOrder'
    <3> SUFFICES ASSUME ~obex.astray PROVE InOrder'
      OBVIOUS
    <3> DEFINE q == wire.answers
    <3>1. Pulling /\ InOrder /\ q # <<>>
      BY <1>1, <1>2
    <3>2. /\ wire.requests = <<>> /\ q \in Seq(ObexAnswers) /\ Rsp = q[1] /\ Rsp \in ObexAnswers
          /\ Len(q) \in Nat \ {0}
          /\ Len(q) = 1 => Tail(q) = <<>>
          /\ server.putting = 0 /\ server.left \in Nat /\ transfer.got \in Nat
          /\ \/ Parts(q, Len(q)) /\ transfer.got + Worth(Len(q)) + server.left = Folder
             \/ /\ server.left = 0 /\ Parts(q, Len(q) - 1) /\ q[Len(q)].code # "continue"
                /\ q[Len(q)].code = "success" => transfer.got + Worth(Len(q) - 1) + q[Len(q)].n = Folder
      BY <3>1, GetHeard
    <3> HIDE DEF q
    <3>3. ~Parts(q, Len(q))
      <4>1. 1 \in 1 .. Len(q) /\ q[1].code # "continue"
        BY <1>6, <3>2
      <4> QED
        BY <4>1 DEF Parts
    <3>4. Len(q) = 1
      <4>1. Parts(q, Len(q) - 1)
        BY <3>2, <3>3
      <4>2. 1 \in 1 .. Len(q) - 1 => q[1].code = "continue"
        BY <4>1 DEF Parts
      <4>3. ~(1 \in 1 .. Len(q) - 1)
        BY <1>6, <3>2, <4>2
      <4>4. Len(q) \in Nat \ {0}
        BY <3>2
      <4> QED
        BY <4>3, <4>4
    <3>5. Rsp.code = "success" => transfer'.got = Folder
      <4>1. Worth(Len(q) - 1) = 0 /\ Rsp.n \in Nat
        BY <3>2, <3>4, WorthIs DEF ObexAnswers
      <4> QED
        BY <1>4, <3>2, <3>3, <3>4, <4>1
    <3>6. wire'.requests = <<>> /\ wire'.answers = <<>> /\ DOMAIN wire' = DOMAIN Silent
      BY <2>1, <3>1, <3>2, <3>4 DEF InOrder, Silent, q
    <3>7. profile'.result = "ok" => ObjectWhole'
      BY <1>4, <2>2, <3>5 DEF ObjectWhole
    <3>8. server'.putting = 0 /\ server'.left = 0
      BY <1>1, <3>2, <3>3
    <3> QED
      BY <1>1, <1>4, <2>2, <3>1, <3>6, <3>7, <3>8 DEF InOrder, Rested
  <2> QED
    BY <1>1, <1>4, <2>2, <2>3 DEF TransferInv, Engaged
<1> QED
  BY <1>5, <1>6

LEMMA TransferStep ==
    ASSUME ClientInv, TransferInv, [Next]_vars
    PROVE  TransferInv'
<1>1. CASE ObexNext
  <2>1. CASE CallNext
    <3>1. CASE DialSteps
      BY <3>1, DialInOrder DEF DialSteps
    <3>2. CASE ObexConnects
      BY <3>2, ConnectsInOrder
    <3>3. CASE AnswerNext
      BY <3>3, SilenceInOrder, ConnectedInOrder, PutInOrder, GetInOrder, SetPathInOrder DEF AnswerNext
    <3> QED
      BY <2>1, <3>1, <3>2, <3>3 DEF CallNext
  <2>2. CASE ServerNext
    BY <2>2, ServesInOrder, RefusalInOrder, UnaskedInOrder DEF ServerNext
  <2>3. CASE ProfileUserNext
    BY <2>3, DialInOrder, PushInOrder, PullInOrder, DisconnectInOrder DEF ProfileUserNext
  <2> QED
    BY <1>1, <2>1, <2>2, <2>3 DEF ObexNext
<1>2. CASE HfpNext /\ profile.kind = "hfp" /\ UNCHANGED <<obex, transfer, wire, server>>
  <2>1. ClientInv' /\ profile'.kind = "hfp"
    BY <1>2, ClientHfp
  <2>2. profile'.at # "wait" /\ ~obex'.connected
    BY <2>1 DEF ClientInv, IsClient
  <2> QED
    BY <1>2, <2>2 DEF TransferInv, Engaged
<1>3. CASE UNCHANGED obexVars
  <2>1. UNCHANGED <<profile, obex, transfer, wire, server>>
    BY <1>3 DEF obexVars
  <2>2. InOrder' <=> InOrder
    BY <2>1 DEF InOrder, Rested, ObjectWhole, Fine, Swallowed, PutHeaders, Plus, Header, OverL2capSocket, AskedOnce,
                OneAnswer, OneRequest, Pushing, Pulling
  <2> QED
    BY <2>1, <2>2 DEF TransferInv, Engaged
<1> QED
  BY <1>1, <1>2, <1>3, StepOfEach DEF ClientSteps

\* Put() returns B_OK only when the server has stored every byte, once and in
\* order, and Get() only when every byte has come (ObexClient): for objects of every
\* length but those that Swallowed names, and as long as no answer was given up on.
THEOREM ObjectsArriveWhole == Spec => []TransferIsWhole
<1>1. Init => ClientInv /\ TransferInv
  <2> SUFFICES ASSUME Init PROVE ClientInv /\ TransferInv
    OBVIOUS
  <2>1. PICK kind \in {"none", "opp", "pbap", "spp", "hfp"} : ObexInit(kind)
    BY DEF Init
  <2>2. profile = NewClient(kind) /\ obex = NewObex /\ transfer = NoCall
    BY <2>1 DEF ObexInit
  <2>3. ClientInv
    BY <2>2 DEF ClientInv, IsClient, NewClient, NewObex, Stages, Dialing
  <2>4. profile.at = "idle" /\ obex.connected = FALSE /\ DOMAIN transfer = DOMAIN NoCall
    BY <2>2 DEF NewClient, NewObex
  <2> QED
    BY <2>3, <2>4 DEF TransferInv, Engaged
<1>2. ClientInv /\ TransferInv /\ [Next]_vars => (ClientInv /\ TransferInv)'
  BY ClientStep, TransferStep
<1>3. TransferInv => TransferIsWhole
  BY DEF TransferInv, Engaged, InOrder, Rested, ObjectWhole, Fine, TransferIsWhole
<1> QED
  BY <1>1, <1>2, <1>3, PTL DEF Spec

----------------------------------------------------------------------------
\* Pairing over LE

\* What has been verified, by the state of SmpManager and by the command whose
\* handler runs; a new pairing may set the state at any time, but the handler
\* that runs goes on and sets it again.
PairingInv ==
    /\ DOMAIN smp = DOMAIN NoSmp /\ DOMAIN rxPort = DOMAIN RxIdle
    /\ smp.bit \in Nat
    /\ (smp.state \in {"WAIT_DHKEY_CHECK", "PAIRED"} \/ Running("dhkey_check")) => proved = 0 .. Bits - 1
    /\ (smp.state \in {"WAIT_CONFIRM", "WAIT_RANDOM"} \/ Running("confirm") \/ Running("random"))
          => proved = 0 .. smp.bit - 1 /\ smp.bit < Bits
    /\ rxPort.state = "passkey" => proved = {} /\ smp.bit = 0
    /\ (rxPort.state = "passkey" \/ Running("public_key")) => smp.state \in {"WAIT_PUBLIC_KEY", "WAIT_RSP"}

\* What the handlers and the user's passkey leave alone
LEMMA PairingKept ==
    ASSUME PairingInv, UNCHANGED <<smp, rxPort, proved>>
    PROVE  PairingInv'
BY DEF PairingInv, Running, NoSmp, RxIdle

\* An ioctl sets the state back to the beginning, whatever handler runs.
LEMMA PairingBegins ==
    ASSUME PairingInv, UNCHANGED <<rxPort, proved>>, smp' = [smp EXCEPT !.state = "WAIT_RSP"]
    PROVE  PairingInv'
BY DEF PairingInv, Running, NoSmp, RxIdle

\* The passkey, the answer to a comparison and the manager itself are set apart
\* from the state.
LEMMA PairingSet ==
    ASSUME PairingInv, UNCHANGED <<rxPort, proved>>, DOMAIN smp' = DOMAIN smp,
           smp'.state = smp.state, smp'.bit = smp.bit
    PROVE  PairingInv'
BY DEF PairingInv, Running, NoSmp, RxIdle

\* A pairing that fails may do so at any point.
LEMMA PairingFailed ==
    ASSUME PairingInv, rxPort' = RxIdle, smp' = [smp EXCEPT !.state = "FAILED"], UNCHANGED proved
    PROVE  PairingInv'
BY DEF PairingInv, Running, NoSmp, RxIdle

LEMMA PairingCaller ==
    ASSUME PairingInv, NEW t \in Callers, CallerNext(t)
    PROVE  PairingInv'
<1>1. CASE InitiatePairing(t)
  BY <1>1, PairingBegins DEF InitiatePairing
<1>2. CASE SetPasskey(t)
  <2>1. DOMAIN smp' = DOMAIN smp /\ smp'.state = smp.state /\ smp'.bit = smp.bit
    BY <1>2 DEF SetPasskey, PairingInv, NoSmp
  <2> QED
    BY <1>2, <2>1, PairingSet DEF SetPasskey
<1>3. CASE SetNumericComparisonResult(t)
  <2>1. DOMAIN smp' = DOMAIN smp /\ smp'.state = smp.state /\ smp'.bit = smp.bit
    BY <1>3 DEF SetNumericComparisonResult, PairingInv, NoSmp
  <2> QED
    BY <1>3, <2>1, PairingSet DEF SetNumericComparisonResult
<1>4. CASE ~InitiatePairing(t) /\ ~SetPasskey(t) /\ ~SetNumericComparisonResult(t)
  <2>1. UNCHANGED <<smp, rxPort, proved>>
    BY <1>4 DEF CallerNext, SendPdu, WaitForResponse, ClearLength, Acquire, CopyResponse, TimedOut, UseAnswer,
           UseOther, Return
  <2> QED
    BY <2>1, PairingKept
<1> QED
  BY <1>1, <1>2, <1>3, <1>4

LEMMA PairingIoctl ==
    ASSUME PairingInv, NEW t \in Callers, NEW call, HandleLeGattIoctl(t, call)
    PROVE  PairingInv'
<1>1. DOMAIN smp' = DOMAIN smp /\ smp'.state = smp.state /\ smp'.bit = smp.bit
  BY DEF HandleLeGattIoctl, PairingInv, NoSmp
<1> QED
  BY <1>1, PairingSet DEF HandleLeGattIoctl

\* The RX thread takes a command when it has returned from the one before.
LEMMA PairingTaken ==
    ASSUME PairingInv, RxSmpTaken
    PROVE  PairingInv'
<1>1. /\ rxPort' = [state |-> "smp", pdu |-> Next1] /\ UNCHANGED <<smp, proved>>
      /\ Next1.op \in DOMAIN Awaited /\ smp.state = Awaited[Next1.op]
  BY DEF RxSmpTaken, InState
<1>2. /\ Next1.op = "public_key" => smp.state = "WAIT_PUBLIC_KEY"
      /\ Next1.op = "confirm" => smp.state = "WAIT_CONFIRM"
      /\ Next1.op = "random" => smp.state = "WAIT_RANDOM"
      /\ Next1.op = "dhkey_check" => smp.state = "WAIT_DHKEY_CHECK"
  BY <1>1 DEF Awaited
<1> QED
  BY <1>1, <1>2 DEF PairingInv, Running, NoSmp, RxIdle

LEMMA PairingRandom ==
    ASSUME PairingInv, HandlePairingRandom
    PROVE  PairingInv'
<1>1. CASE PairingFails
  BY <1>1, PairingFailed DEF PairingFails, Leaves
<1>2. CASE ~PairingFails
  <2>1. /\ Running("random") /\ rxPort' = RxIdle /\ proved' = proved \cup {smp.bit}
        /\ smp' = [smp EXCEPT !.bit = @ + 1,
                              !.state = IF smp.bit + 1 < Bits THEN "WAIT_CONFIRM" ELSE "WAIT_DHKEY_CHECK"]
    BY <1>2 DEF HandlePairingRandom, Leaves
  <2>2. proved = 0 .. smp.bit - 1 /\ smp.bit < Bits /\ smp.bit \in Nat /\ Bits \in Nat
    BY <2>1, LeAssumption DEF PairingInv
  <2>3. proved' = 0 .. smp.bit
    BY <2>1, <2>2
  <2>4. smp'.bit = smp.bit + 1
        /\ smp'.state = IF smp.bit + 1 < Bits THEN "WAIT_CONFIRM" ELSE "WAIT_DHKEY_CHECK"
    BY <2>1 DEF PairingInv, NoSmp
  <2>5. smp'.bit - 1 = smp.bit /\ smp'.bit \in Nat
        /\ (smp.bit + 1 < Bits => smp'.bit < Bits) /\ (~(smp.bit + 1 < Bits) => Bits - 1 = smp.bit)
    BY <2>2, <2>4
  <2>6. DOMAIN smp' = DOMAIN NoSmp /\ rxPort'.state = "idle" /\ DOMAIN rxPort' = DOMAIN RxIdle
    BY <2>1 DEF PairingInv, RxIdle
  <2> QED
    BY <2>3, <2>4, <2>5, <2>6 DEF PairingInv, Running
<1> QED
  BY <1>1, <1>2

LEMMA PairingRx ==
    ASSUME PairingInv, LeRxNext
    PROVE  PairingInv'
<1> USE DEF Leaves
<1>1. CASE RxDrops \/ RxLeSignal \/ RxNotification
  <2>1. UNCHANGED <<smp, rxPort, proved>>
    BY <1>1 DEF RxDrops, RxLeSignal, RxNotification
  <2> QED
    BY <2>1, PairingKept
<1>2. CASE RxResponse
  BY <1>2 DEF RxResponse, RxTakes, PairingInv, Running, NoSmp, RxIdle
<1>3. CASE RxRelease
  BY <1>3 DEF RxRelease, PairingInv, Running, NoSmp, RxIdle
<1>4. CASE RxSmpRefused
  BY <1>4 DEF RxSmpRefused, RxTakes, PairingInv, Running, NoSmp, RxIdle
<1>5. CASE RxSmpTaken
  BY <1>5, PairingTaken
<1>6. CASE HandlePairingRsp
  <2>1. CASE PairingFails
    BY <2>1, PairingFailed DEF PairingFails
  <2>2. CASE ~PairingFails
    BY <1>6, <2>2 DEF HandlePairingRsp, PairingInv, Running, NoSmp, RxIdle
  <2> QED
    BY <2>1, <2>2
<1>7. CASE HandlePublicKey
  <2>1. CASE PairingFails
    BY <2>1, PairingFailed DEF PairingFails
  <2>2. CASE ~PairingFails
    BY <1>7, <2>2 DEF HandlePublicKey, PairingInv, Running, NoSmp, RxIdle
  <2> QED
    BY <2>1, <2>2
<1>8. CASE PasskeyCame
  <2>1. /\ smp' = [smp EXCEPT !.sem = @ - 1, !.state = "WAIT_CONFIRM"] /\ rxPort' = RxIdle
        /\ proved' = proved /\ proved = {} /\ smp.bit = 0
    BY <1>8 DEF PasskeyCame, PairingInv
  <2>2. smp'.bit = 0 /\ smp'.state = "WAIT_CONFIRM" /\ DOMAIN smp' = DOMAIN NoSmp
    BY <2>1 DEF PairingInv, NoSmp
  <2>3. 0 .. smp'.bit - 1 = {} /\ smp'.bit < Bits
    BY <2>2, LeAssumption
  <2> QED
    BY <2>1, <2>2, <2>3 DEF PairingInv, Running, RxIdle
<1>9. CASE PasskeyTimeout
  BY <1>9, PairingFailed DEF PasskeyTimeout, PairingFails
<1>10. CASE HandlePairingConfirm
  BY <1>10 DEF HandlePairingConfirm, PairingInv, Running, NoSmp, RxIdle
<1>11. CASE HandlePairingRandom
  BY <1>11, PairingRandom
<1>12. CASE HandleDhkeyCheck
  <2>1. CASE PairingFails
    BY <2>1, PairingFailed DEF PairingFails
  <2>2. CASE ~PairingFails
    BY <1>12, <2>2 DEF HandleDhkeyCheck, PairingInv, Running, NoSmp, RxIdle
  <2> QED
    BY <2>1, <2>2
<1> QED
  BY <1>1, <1>2, <1>3, <1>4, <1>5, <1>6, <1>7, <1>8, <1>9, <1>10, <1>11, <1>12 DEF LeRxNext

LEMMA PairingStep ==
    ASSUME PairingInv, LeNext \/ UNCHANGED leVars
    PROVE  PairingInv'
<1>1. CASE UNCHANGED leVars
  BY <1>1, PairingKept DEF leVars
<1>2. CASE \E t \in Callers : CallerNext(t) \/ \E call \in plan.calls : HandleLeGattIoctl(t, call)
  BY <1>2, PairingCaller, PairingIoctl
<1>3. CASE LeRxNext
  BY <1>3, PairingRx
<1>4. CASE LePeerNext
  <2>1. UNCHANGED <<smp, rxPort, proved>>
    BY <1>4 DEF LePeerNext, PeerAnswers, PeerSends
  <2> QED
    BY <2>1, PairingKept
<1> QED
  BY <1>1, <1>2, <1>3, <1>4 DEF LeNext

\* A pairing that ends in PAIRED has verified every bit of the passkey under its
\* own keys, for any number of bits, ioctls and pairings, and whatever the peer sends.
THEOREM EveryBitIsVerified == Spec => []PairedMeansEveryBit
<1>1. Init => PairingInv
  BY DEF Init, LeInit, PairingInv, Running, NoSmp, RxIdle
<1>2. PairingInv /\ [Next]_vars => PairingInv'
  BY StepOfEach, PairingStep
<1>3. PairingInv => PairedMeansEveryBit
  BY DEF PairingInv, PairedMeansEveryBit
<1> QED
  BY <1>1, <1>2, <1>3, PTL DEF Spec

----------------------------------------------------------------------------
\* What a gateway holds, by where its caller stands

GateInv ==
    /\ DOMAIN gate = DOMAIN NoGate
    /\ gate.at \in {"accept", "mux", "channel", "spawn"} => gate.thread = "none"
    /\ gate.at \in {"mux", "channel", "spawn"} => gate.session
    /\ gate.at = "idle" /\ ~gate.session => gate.thread = "none"

LEMMA GateStep ==
    ASSUME GateInv, GateNext \/ UNCHANGED gateVars
    PROVE  GateInv'
<1> USE DEF GateInv, NoGate, GateReturns
<1>1. CASE UNCHANGED gateVars
  BY <1>1 DEF gateVars
<1>2. ASSUME NEW made \in BOOLEAN, GateAccepts(made) \/ MuxOpens(made) \/ Spawns(made) \/ GateListens(made)
      PROVE  GateInv'
  <2>1. CASE GateAccepts(made)
    BY <2>1 DEF GateAccepts
  <2>2. CASE MuxOpens(made)
    BY <2>2 DEF MuxOpens
  <2>3. CASE Spawns(made)
    BY <2>3 DEF Spawns
  <2>4. CASE GateListens(made)
    BY <2>4 DEF GateListens
  <2> QED
    BY <1>2, <2>1, <2>2, <2>3, <2>4
<1>3. CASE NoChannelOpens \/ JoinsThread \/ GateDisconnects
  BY <1>3 DEF NoChannelOpens, JoinsThread, GateDisconnects
<1>8. CASE DeletesSession \/ AstrayEnds
  BY <1>8 DEF DeletesSession, AstrayEnds
<1>4. CASE AtLoopNext
  BY <1>4 DEF AtLoopNext, ThreadLoops, ReadsCommand, ReadBreaks, HandleAtCommand, AtCommands
<1>5. CASE \E reports \in BOOLEAN : Tells(reports)
  BY <1>5 DEF Tells
<1>6. CASE \E d \in Opened : HeadsetOpens(d)
  BY <1>6 DEF HeadsetOpens
<1>7. CASE \E c \in AtCommands : HeadsetSays(c)
  BY <1>7 DEF HeadsetSays
<1> QED
  BY <1>1, <1>2, <1>3, <1>4, <1>5, <1>6, <1>7, <1>8 DEF GateNext, GateCallNext

LEMMA GateStarts == Init => GateInv
BY DEF Init, GateInit, GateInv, NoGate

----------------------------------------------------------------------------
\* The transfers of btintel's commands

Waiting == Draining \cup IntelCommands \cup {"send", "reset"}

Requests == [at : IntelCommands \cup {"send", "reset"}, live : BOOLEAN]
NoneLive(q) == \A i \in 1 .. Len(q) : ~q[i].live

\* A transfer is queued for the stage that waits for it; a request whose buffer is
\* the caller's is the one that the caller waits for.
DongleInv ==
    /\ DOMAIN loader = DOMAIN NoLoader /\ DOMAIN pipes = DOMAIN NoPipes
    /\ loader.wait # "no" => loader.at \in Waiting
    /\ loader.wait = "no" \/ loader.at = "reset" => pipes.reads = "no"
    /\ pipes.reads \in {"no", "intr", "bulk"}
    /\ pipes.out \in Seq(Requests)
    /\ loader.wait # "sent" => NoneLive(pipes.out)

\* The stages go on to stages that wait for nothing.
LEMMA StageEnds ==
    ASSUME DongleInv, NEW e
    PROVE  LET Ended(l) == DOMAIN l = DOMAIN NoLoader /\ l.wait = "no"
           IN  /\ \A at : Ended(To(at)) /\ \A result : Ended(Over(result)) /\ Ended(Again)
               /\ loader.at \in Draining \cup {"ddc", "mask", "reset"} => Ended(Proceeds)
               /\ loader.at \in Waiting => Ended(Failed)
               /\ loader.at \in Waiting => Ended(Succeeded(e))
<1> DEFINE Ended(l) == DOMAIN l = DOMAIN NoLoader /\ l.wait = "no"
<1>1. /\ \A at : Ended(To(at)) /\ \A result : Ended(Over(result)) /\ Ended(Again)
      /\ \A at, image : Ended([To(at) EXCEPT !.image = image])
      /\ \A pieces : Ended([loader EXCEPT !.wait = "no", !.pieces = pieces])
      /\ \A n : Ended([loader EXCEPT !.wait = "no", !.n = n])
  BY DEF DongleInv, NoLoader, To, Over, Again
<1> HIDE DEF Ended
<1>2. loader.at \in Draining \cup {"ddc", "mask", "reset"} => Ended(Proceeds)
  BY <1>1 DEF Proceeds, AfterDdc, AfterReset, Draining
<1>3. loader.at \in Waiting => Ended(Failed)
  BY <1>1, <1>2 DEF Failed, Waiting, Draining, IntelCommands
<1>4. Ended(VersionRead(e))
  BY <1>1 DEF VersionRead
<1>5. loader.at \in Waiting => Ended(Succeeded(e))
  BY <1>1, <1>2, <1>4 DEF Succeeded, Waiting, Draining, IntelCommands
<1> QED
  BY <1>1, <1>2, <1>3, <1>5 DEF Ended

LEMMA RequestQueue ==
    ASSUME NEW q \in Seq(Requests)
    PROVE  /\ LET given == [i \in DOMAIN q |-> [q[i] EXCEPT !.live = FALSE]]
              IN  given \in Seq(Requests) /\ NoneLive(given) /\ (q # <<>> => Tail(given) \in Seq(Requests) /\ NoneLive(Tail(given)))
           /\ q # <<>> => Head(q) \in Requests /\ Tail(q) \in Seq(Requests) /\ (NoneLive(q) => ~Head(q).live /\ NoneLive(Tail(q)))
           /\ \A r \in Requests : Append(q, r) \in Seq(Requests)
<1>0. Len(q) \in Nat /\ DOMAIN q = 1 .. Len(q) /\ \A i \in 1 .. Len(q) : q[i] \in Requests
  OBVIOUS
<1> DEFINE given == [i \in DOMAIN q |-> [q[i] EXCEPT !.live = FALSE]]
<1>1. \A i \in 1 .. Len(q) : given[i] \in Requests /\ ~given[i].live
  BY <1>0 DEF Requests
<1>2. given = [i \in 1 .. Len(q) |-> given[i]]
  BY <1>0
<1> HIDE DEF given
<1>3. given \in Seq(Requests) /\ Len(given) = Len(q)
  BY <1>0, <1>1, <1>2
<1>4. NoneLive(given)
  BY <1>1, <1>3 DEF NoneLive
<1>5. ASSUME NEW s \in Seq(Requests), s # <<>>
      PROVE  /\ Head(s) \in Requests /\ Tail(s) \in Seq(Requests)
             /\ NoneLive(s) => ~Head(s).live /\ NoneLive(Tail(s))
  <2>1. /\ Tail(s) \in Seq(Requests) /\ Len(Tail(s)) = Len(s) - 1 /\ Len(s) \in Nat /\ Len(s) >= 1
        /\ \A i \in 1 .. Len(s) - 1 : Tail(s)[i] = s[i + 1] /\ i + 1 \in 1 .. Len(s)
        /\ Head(s) = s[1] /\ s[1] \in Requests /\ 1 \in 1 .. Len(s)
    BY <1>5
  <2> QED
    BY <2>1 DEF NoneLive
<1>6. q # <<>> => given # <<>>
  BY <1>0, <1>3
<1>7. \A r \in Requests : Append(q, r) \in Seq(Requests)
  BY AppendProperties
<1> QED
  BY <1>3, <1>4, <1>5, <1>6, <1>7 DEF given

\* Nothing is under way.
LEMMA DongleRests ==
    ASSUME DOMAIN loader' = DOMAIN NoLoader, loader'.wait = "no", DOMAIN pipes' = DOMAIN NoPipes,
           pipes'.reads = "no", pipes'.out \in Seq(Requests), NoneLive(pipes'.out)
    PROVE  DongleInv'
BY DEF DongleInv

LEMMA DongleQueues ==
    ASSUME DongleInv, Queues
    PROVE  DongleInv'
<1>0. /\ DOMAIN loader = DOMAIN NoLoader /\ DOMAIN pipes = DOMAIN NoPipes /\ loader.wait = "no" /\ loader.at \in Waiting
      /\ pipes.reads = "no" /\ pipes.out \in Seq(Requests) /\ NoneLive(pipes.out)
  BY DEF DongleInv, Queues, Waiting
<1>1. CASE loader' = Failed /\ UNCHANGED pipes
  BY <1>0, <1>1, StageEnds, DongleRests
<1>2. CASE /\ loader' = [loader EXCEPT !.wait = IF loader.at \in Draining THEN "event" ELSE "sent", !.skips = 0]
           /\ pipes' = [pipes EXCEPT !.reads = Reading, !.out = IF loader.at \in Draining THEN @
                                                               ELSE Append(@, [at |-> Opcode, live |-> TRUE])]
  <2>1. /\ DOMAIN loader' = DOMAIN NoLoader /\ loader'.at = loader.at
        /\ loader'.wait = IF loader.at \in Draining THEN "event" ELSE "sent"
    BY <1>0, <1>2 DEF NoLoader
  <2>2. /\ DOMAIN pipes' = DOMAIN NoPipes /\ pipes'.reads = Reading
        /\ pipes'.out = IF loader.at \in Draining THEN pipes.out ELSE Append(pipes.out, [at |-> Opcode, live |-> TRUE])
    BY <1>0, <1>2 DEF NoPipes
  <2>3. loader.at \notin Draining => [at |-> Opcode, live |-> TRUE] \in Requests
    BY <1>0 DEF Waiting, Opcode, Requests, IntelCommands
  <2>4. pipes'.out \in Seq(Requests)
    BY <1>0, <2>2, <2>3, RequestQueue
  <2> QED
    BY <1>0, <2>1, <2>2, <2>4 DEF DongleInv, Reading
<1> QED
  BY <1>1, <1>2 DEF Queues

\* A wait ends without an answer.
LEMMA DongleGivesUp ==
    ASSUME DongleInv, SendTimesOut \/ EventTimesOut \/ EventFails
    PROVE  DongleInv'
<1>0. /\ DOMAIN loader = DOMAIN NoLoader /\ DOMAIN pipes = DOMAIN NoPipes /\ loader.at \in Waiting
      /\ pipes.out \in Seq(Requests) /\ (loader.wait # "sent" => NoneLive(pipes.out))
      /\ loader' \in {Failed, Again}
  BY DEF DongleInv, SendTimesOut, EventTimesOut, EventFails
<1>1. DOMAIN loader' = DOMAIN NoLoader /\ loader'.wait = "no"
  BY <1>0, StageEnds
<1>2. CASE SendTimesOut
  <2>1. DOMAIN pipes' = DOMAIN NoPipes /\ pipes'.reads = "no" /\ pipes'.out = Abandoned
    BY <1>0, <1>2 DEF SendTimesOut, NoPipes
  <2> QED
    BY <1>0, <1>1, <2>1, RequestQueue, DongleRests DEF Abandoned
<1>3. CASE EventTimesOut \/ EventFails
  <2>1. DOMAIN pipes' = DOMAIN NoPipes /\ pipes'.reads = "no" /\ pipes'.out = pipes.out /\ loader.wait = "event"
    BY <1>0, <1>3 DEF EventTimesOut, EventFails, NoPipes
  <2> QED
    BY <1>0, <1>1, <2>1, DongleRests
<1> QED
  BY <1>2, <1>3

LEMMA DongleTakesEvent ==
    ASSUME DongleInv, TakesEvent
    PROVE  DongleInv'
<1>0. /\ DOMAIN loader = DOMAIN NoLoader /\ DOMAIN pipes = DOMAIN NoPipes /\ loader.wait = "event"
      /\ loader.at \in Waiting /\ loader.at # "reset" /\ pipes.reads \in {"intr", "bulk"}
      /\ pipes.out \in Seq(Requests) /\ NoneLive(pipes.out)
  BY DEF DongleInv, TakesEvent
<1> DEFINE e == Head(pipes[pipes.reads])
           left == [pipes EXCEPT ![pipes.reads] = Tail(@)]
           done == [left EXCEPT !.reads = "no"]
<1>1. DOMAIN left = DOMAIN NoPipes /\ left.out = pipes.out /\ left.reads = pipes.reads
  BY <1>0 DEF NoPipes
<1>2. DOMAIN done = DOMAIN NoPipes /\ done.out = pipes.out /\ done.reads = "no"
  BY <1>0 DEF NoPipes
<1>3. \/ loader' \in {Again, Failed, Succeeded(e)} /\ pipes' = done
      \/ loader' = [loader EXCEPT !.skips = @ + 1] /\ pipes' = left
  BY DEF TakesEvent
<1> HIDE DEF e, left, done
<1>4. CASE loader' \in {Again, Failed, Succeeded(e)} /\ pipes' = done
  <2>1. DOMAIN loader' = DOMAIN NoLoader /\ loader'.wait = "no"
    BY <1>0, <1>4, StageEnds
  <2> QED
    BY <1>0, <1>2, <1>4, <2>1, DongleRests
<1>5. CASE loader' = [loader EXCEPT !.skips = @ + 1] /\ pipes' = left
  <2>1. DOMAIN loader' = DOMAIN NoLoader /\ loader'.wait = loader.wait /\ loader'.at = loader.at
    BY <1>0, <1>5 DEF NoLoader
  <2> QED
    BY <1>0, <1>1, <1>5, <2>1 DEF DongleInv
<1> QED
  BY <1>3, <1>4, <1>5

\* A request ends, also one that nobody waits for any more.
LEMMA DongleRequestSent ==
    ASSUME DongleInv, RequestSent
    PROVE  DongleInv'
<1>0. /\ DOMAIN loader = DOMAIN NoLoader /\ DOMAIN pipes = DOMAIN NoPipes /\ pipes.out # <<>>
      /\ (loader.wait # "no" => loader.at \in Waiting) /\ (loader.wait = "no" \/ loader.at = "reset" => pipes.reads = "no")
      /\ pipes.reads \in {"no", "intr", "bulk"}
      /\ pipes.out \in Seq(Requests) /\ (loader.wait # "sent" => NoneLive(pipes.out))
  BY DEF DongleInv, RequestSent
<1> DEFINE r == Head(pipes.out)
           sent == IF loader.at = "reset" THEN AfterReset ELSE [loader EXCEPT !.wait = "event"]
           returned(ends) == IF ends THEN sent ELSE loader
           rest(ends) == [pipes EXCEPT !.out = Tail(IF ends THEN Abandoned ELSE @)]
<1>1. PICK ends \in IF r.live THEN {TRUE} ELSE IF loader.wait = "sent" THEN BOOLEAN ELSE {FALSE} :
         \/ /\ loader' = returned(ends)
            /\ \/ pipes' = rest(ends)
               \/ \E pipe \in {"intr", "bulk"} : \E s : pipes' = [rest(ends) EXCEPT ![pipe] = @ \o s]
               \/ pipes' = [pipes EXCEPT !.out = <<>>, !.bulk = <<>>, !.intr = <<Stray>>]
         \/ r.live /\ loader' = Failed /\ pipes' = [rest(ends) EXCEPT !.reads = "no"]
  BY DEF RequestSent
<1>2. /\ r.live \/ ends => loader.wait = "sent"
      /\ ends \in BOOLEAN /\ (r.live => ends)
  <2>1. r.live => loader.wait = "sent"
    BY <1>0, RequestQueue
  <2> QED
    BY <1>1, <2>1
<1>3. /\ DOMAIN rest(ends) = DOMAIN NoPipes /\ rest(ends).reads = pipes.reads
      /\ rest(ends).out = Tail(IF ends THEN Abandoned ELSE pipes.out)
  BY <1>0 DEF NoPipes
<1>4. Tail(IF ends THEN Abandoned ELSE pipes.out) \in Seq(Requests)
      /\ (ends \/ loader.wait # "sent" => NoneLive(Tail(IF ends THEN Abandoned ELSE pipes.out)))
  BY <1>0, <1>2, RequestQueue DEF Abandoned
<1>5. /\ DOMAIN sent = DOMAIN NoLoader
      /\ IF loader.at = "reset" THEN sent.wait = "no" ELSE sent.wait = "event" /\ sent.at = loader.at
  <2>1. loader.at = "reset" => sent = To("drain again") \/ sent = Over("shutting_down")
    BY DEF AfterReset
  <2>2. loader.at # "reset" => DOMAIN sent = DOMAIN NoLoader /\ sent.wait = "event" /\ sent.at = loader.at
    BY <1>0 DEF NoLoader
  <2> QED
    BY <2>1, <2>2, StageEnds
<1> HIDE DEF r, sent, rest
<1>6. ASSUME loader' = returned(ends), DOMAIN pipes' = DOMAIN NoPipes, pipes'.reads = pipes.reads,
             pipes'.out \in Seq(Requests), ends \/ loader.wait # "sent" => NoneLive(pipes'.out)
      PROVE  DongleInv'
  <2>1. CASE ends
    <3>1. /\ DOMAIN loader' = DOMAIN NoLoader /\ loader.at \in Waiting
          /\ IF loader.at = "reset" THEN loader'.wait = "no" ELSE loader'.wait = "event" /\ loader'.at = loader.at
      BY <1>0, <1>2, <1>5, <1>6, <2>1
    <3> QED
      BY <1>0, <1>6, <2>1, <3>1 DEF DongleInv
  <2>2. CASE ~ends
    BY <1>0, <1>6, <2>2 DEF DongleInv
  <2> QED
    BY <2>1, <2>2
<1>7. CASE loader' = returned(ends) /\ pipes' = rest(ends)
  BY <1>3, <1>4, <1>6, <1>7
<1>8. CASE loader' = returned(ends) /\ \E pipe \in {"intr", "bulk"} : \E s : pipes' = [rest(ends) EXCEPT ![pipe] = @ \o s]
  <2>1. DOMAIN pipes' = DOMAIN NoPipes /\ pipes'.reads = pipes.reads /\ pipes'.out = rest(ends).out
    BY <1>3, <1>8 DEF NoPipes
  <2> QED
    BY <1>3, <1>4, <1>6, <1>8, <2>1
<1>9. CASE loader' = returned(ends) /\ pipes' = [pipes EXCEPT !.out = <<>>, !.bulk = <<>>, !.intr = <<Stray>>]
  <2>1. DOMAIN pipes' = DOMAIN NoPipes /\ pipes'.reads = pipes.reads /\ pipes'.out = <<>>
    BY <1>0, <1>9 DEF NoPipes
  <2>2. <<>> \in Seq(Requests) /\ NoneLive(<<>>)
    BY DEF NoneLive
  <2> QED
    BY <1>6, <1>9, <2>1, <2>2
<1>10. CASE r.live /\ loader' = Failed /\ pipes' = [rest(ends) EXCEPT !.reads = "no"]
  <2>1. DOMAIN pipes' = DOMAIN NoPipes /\ pipes'.reads = "no" /\ pipes'.out = rest(ends).out
    BY <1>3, <1>10 DEF NoPipes
  <2>2. DOMAIN loader' = DOMAIN NoLoader /\ loader'.wait = "no"
    BY <1>0, <1>2, <1>10, StageEnds
  <2> QED
    BY <1>2, <1>3, <1>4, <1>10, <2>1, <2>2, DongleRests
<1> QED
  BY <1>1, <1>7, <1>8, <1>9, <1>10

LEMMA DongleStep ==
    ASSUME DongleInv, DongleNext \/ UNCHANGED dongleVars
    PROVE  DongleInv'
<1>0. /\ DOMAIN loader = DOMAIN NoLoader /\ DOMAIN pipes = DOMAIN NoPipes
      /\ (loader.wait # "sent" => NoneLive(pipes.out)) /\ (loader.wait = "no" => pipes.reads = "no")
      /\ (loader.wait # "no" => loader.at \in Waiting)
      /\ pipes.out \in Seq(Requests)
  BY DEF DongleInv
<1>1. CASE UNCHANGED <<loader, pipes>>
  BY <1>1 DEF DongleInv
<1>2. CASE LoadsFirmware \/ EndsDownload \/ LoadsDdc
  <2>1. loader.wait = "no" /\ UNCHANGED pipes
    BY <1>0, <1>2 DEF LoadsFirmware, EndsDownload, LoadsDdc, Waiting, Draining, IntelCommands
  <2>2. \A file, pieces, n : LET a == [To("send") EXCEPT !.file = file, !.pieces = pieces]
                                 b == [To("ddc") EXCEPT !.n = n]
                             IN  a.wait = "no" /\ b.wait = "no" /\ DOMAIN a = DOMAIN NoLoader /\ DOMAIN b = DOMAIN NoLoader
    BY <1>0 DEF To, NoLoader
  <2>3. DOMAIN loader' = DOMAIN NoLoader /\ loader'.wait = "no"
    <3>1. \/ \E at : loader' = To(at)
          \/ \E result : loader' = Over(result)
          \/ \E file, pieces : loader' = [To("send") EXCEPT !.file = file, !.pieces = pieces]
          \/ \E n : loader' = [To("ddc") EXCEPT !.n = n]
      BY <1>2 DEF LoadsFirmware, EndsDownload, LoadsDdc, AfterDdc
    <3>2. CASE (\E at : loader' = To(at)) \/ (\E result : loader' = Over(result))
      BY <3>2, StageEnds
    <3>3. CASE \E file, pieces : loader' = [To("send") EXCEPT !.file = file, !.pieces = pieces]
      BY <2>2, <3>3
    <3>4. CASE \E n : loader' = [To("ddc") EXCEPT !.n = n]
      BY <2>2, <3>4
    <3> QED
      BY <3>1, <3>2, <3>3, <3>4
  <2> QED
    BY <1>0, <2>1, <2>3, DongleRests
<1>3. CASE AddedIntel \/ DeviceAdded
  <2>1. UNCHANGED pipes /\ loader.wait = "no" /\ loader' \in {loader, NoLoader, [NoLoader EXCEPT !.at = "drain"]}
    BY <1>0, <1>3 DEF AddedIntel, DeviceAdded, Waiting, Draining, IntelCommands
  <2>2. DOMAIN loader' = DOMAIN NoLoader /\ loader'.wait = "no"
    BY <1>0, <2>1 DEF NoLoader
  <2> QED
    BY <1>0, <2>1, <2>2, DongleRests
<1>4. CASE DeviceRemoved
  <2>1. UNCHANGED loader /\ pipes' = NoPipes
    BY <1>4 DEF DeviceRemoved
  <2>2. <<>> \in Seq(Requests) /\ NoneLive(<<>>)
    BY DEF NoneLive
  <2>3. DOMAIN pipes' = DOMAIN NoPipes /\ pipes'.reads = "no" /\ pipes'.out = <<>>
    BY <2>1 DEF NoPipes
  <2> QED
    BY <2>1, <2>2, <2>3 DEF DongleInv
<1>5. CASE DongleComes \/ \E pipe \in {"intr", "bulk"} : SaysMore(pipe)
  <2>1. /\ UNCHANGED loader
        /\ \E pipe \in {"intr", "bulk"} : \E q : pipes' = [pipes EXCEPT ![pipe] = q]
    BY <1>5 DEF DongleComes, SaysMore
  <2>2. DOMAIN pipes' = DOMAIN NoPipes /\ pipes'.reads = pipes.reads /\ pipes'.out = pipes.out
    BY <1>0, <2>1 DEF NoPipes
  <2> QED
    BY <2>1, <2>2 DEF DongleInv
<1>6. CASE DongleLeaves \/ \E i \in 1 .. Slots : DeviceOpens(i) \/ DeviceCloses(i)
  BY <1>1, <1>6 DEF DongleLeaves, DeviceOpens, DeviceCloses
<1> QED
  BY <1>1, <1>2, <1>3, <1>4, <1>5, <1>6, DongleQueues, DongleGivesUp, DongleTakesEvent, DongleRequestSent
     DEF DongleNext, LoaderNext, HubNext, ChipNext, dongleVars

LEMMA DongleStarts == Init => DongleInv
<1>1. <<>> \in Seq(Requests) /\ NoneLive(<<>>)
  BY DEF NoneLive
<1> QED
  BY <1>1 DEF Init, DongleInit, DongleInv, NoLoader, NoPipes

----------------------------------------------------------------------------
\* A2dpSource and A2dpSink: channels, thread and player

Connecting == {"discover", "caps", "config", "open", "media"}
Streaming == {"start", "suspend", "audio", "thread", "player", "join"}

\* Which channels are open, by where the call stands.
HostInv ==
    /\ DOMAIN host = DOMAIN NoHost /\ DOMAIN peer = DOMAIN PeerGone
    /\ host.connected => host.signaling
    /\ host.media => host.connected
    /\ host.at \in {"idle", "acl", "signaling"} /\ ~host.connected => ~host.signaling /\ ~peer.signaling /\ ~peer.media
    /\ host.at \in {"acl", "signaling"} \cup Connecting => ~host.connected
    /\ host.at \in Connecting => host.signaling
    /\ host.at \in Streaming => host.connected
    /\ host.at \in {"thread", "player", "join"} => role = "sink"
    /\ host.at = "audio" => role = "source"

\* The receive thread and the player, by where the call stands.
SinkInv ==
    /\ DOMAIN rx = DOMAIN NoRx /\ DOMAIN player = {"on", "out", "heard", "sorted"}
    /\ host.streaming => host.connected /\ host.at \in {"idle", "player", "audio"}
    /\ host.at \in {"player", "audio"} => host.streaming
    /\ ~host.streaming /\ host.at # "join" => rx.state = "none"
    /\ ~host.streaming => ~player.on
    /\ role # "sink" => rx.state = "none" /\ ~player.on
    /\ ~player.on => player.out = -1
    /\ rx.left # <<>> \/ rx.written => rx.state = "push"

\* What an answer, or none, does to the host
Onward(h, g) ==
    /\ DOMAIN g = DOMAIN NoHost
    /\ g.signaling = h.signaling /\ g.connected = h.connected /\ (g.media => h.media)
    /\ \/ h.at \in Connecting /\ g.at \in Connecting \cup {"close", "sockets"} /\ g.streaming = h.streaming
       \/ h.at = "start" /\ g.at \in {"idle"} \cup (IF role = "sink" THEN {"thread"} ELSE {}) /\ g.streaming = h.streaming
       \/ h.at = "start" /\ role # "sink" /\ g.at = "idle" /\ g.streaming
       \/ h.at = "suspend" /\ g.at \in {"idle", "close"} /\ g.streaming = h.streaming
       \/ h.at = "close" /\ g.at = "sockets" /\ g.streaming = h.streaming

\* The fields that only a connection or its end sets
Keeping(h, g) == DOMAIN g = DOMAIN NoHost /\ g.signaling = h.signaling /\ g.connected = h.connected
                 /\ g.media = h.media /\ g.streaming = h.streaming

LEMMA KeepingGoTo ==
    ASSUME NEW h, NEW g, Keeping(h, g), NEW at
    PROVE  Keeping(h, GoTo(g, at)) /\ GoTo(g, at).at = at
BY DEF Keeping, GoTo, NoHost

LEMMA KeepingGiveUp ==
    ASSUME NEW h, NEW g, Keeping(h, g)
    PROVE  Keeping(h, GiveUp(g)) /\ GiveUp(g).at \in {"close", "sockets"}
BY DEF Keeping, GoTo, GiveUp, NoHost

\* Fields that it does not matter for
LEMMA KeepingFields ==
    ASSUME NEW h, DOMAIN h = DOMAIN NoHost
    PROVE  /\ Keeping(h, h)
           /\ \A s : Keeping(h, [h EXCEPT !.seid = s])
           /\ \A i, s : Keeping(h, [h EXCEPT !.index = i, !.seid = s])
           /\ \A o, s : Keeping(h, [h EXCEPT !.offer = o, !.seid = s])
           /\ \A c : Keeping(h, [h EXCEPT !.config = c])
           /\ \A goal : Keeping(h, [h EXCEPT !.goal = goal])
           /\ \A left : Keeping(h, [h EXCEPT !.left = left])
BY DEF Keeping, NoHost

LEMMA KeepingTryFrom ==
    ASSUME NEW h, NEW g, Keeping(h, g), NEW i
    PROVE  Keeping(h, TryFrom(g, i)) /\ TryFrom(g, i).at \in {"caps", "close", "sockets"}
<1>1. \A j, s : Keeping(h, [g EXCEPT !.index = j, !.seid = s])
  BY DEF Keeping, NoHost
<1>2. Keeping(h, [g EXCEPT !.seid = 0])
  BY DEF Keeping, NoHost
<1>3. CASE CandidatesFrom(i) = {}
  <2>1. TryFrom(g, i) = GiveUp([g EXCEPT !.seid = 0])
    BY <1>3 DEF TryFrom
  <2> QED
    BY <1>2, <2>1, KeepingGiveUp
<1>4. CASE CandidatesFrom(i) # {}
  <2>1. PICK j, s : TryFrom(g, i) = GoTo([g EXCEPT !.index = j, !.seid = s], "caps")
    BY <1>4 DEF TryFrom
  <2>2. Keeping(h, [g EXCEPT !.index = j, !.seid = s])
    BY <1>1
  <2> QED
    BY <2>1, <2>2, KeepingGoTo
<1> QED
  BY <1>3, <1>4

LEMMA FailureOnward ==
    ASSUME NEW h, DOMAIN h = DOMAIN NoHost, h.at \in Commands \cup {"media"}
    PROVE  Onward(h, AfterFailure(h))
<1>0. Keeping(h, h) /\ \A s : Keeping(h, [h EXCEPT !.seid = s])
  BY KeepingFields
<1>1. CASE h.at = "suspend"
  <2>1. AfterFailure(h) \in {GoTo(h, "idle"), GoTo(h, "close")}
    BY <1>1 DEF AfterFailure
  <2>2. Keeping(h, AfterFailure(h)) /\ AfterFailure(h).at \in {"idle", "close"}
    BY <1>0, <2>1, KeepingGoTo
  <2> QED
    BY <1>1, <2>2 DEF Onward, Keeping
<1>2. CASE h.at = "start"
  <2>1. AfterFailure(h) = GoTo(h, "idle")
    BY <1>2 DEF AfterFailure
  <2>2. Keeping(h, AfterFailure(h)) /\ AfterFailure(h).at = "idle"
    BY <1>0, <2>1, KeepingGoTo
  <2> QED
    BY <1>2, <2>2 DEF Onward, Keeping
<1>3. CASE h.at = "close"
  <2>1. AfterFailure(h) = GoTo([h EXCEPT !.media = FALSE], "sockets")
    BY <1>3 DEF AfterFailure
  <2> DEFINE g == AfterFailure(h)
  <2>2. /\ DOMAIN g = DOMAIN NoHost /\ g.at = "sockets" /\ ~g.media
        /\ g.signaling = h.signaling /\ g.connected = h.connected /\ g.streaming = h.streaming
    BY <2>1 DEF GoTo, NoHost
  <2> QED
    BY <1>3, <2>2 DEF Onward
<1>4. CASE h.at \in {"caps", "config"} /\ role = "source"
  <2>1. AfterFailure(h) = TryFrom([h EXCEPT !.seid = 0], h.index + 1)
    BY <1>4 DEF AfterFailure
  <2>2. Keeping(h, AfterFailure(h)) /\ AfterFailure(h).at \in {"caps", "close", "sockets"}
    BY <1>0, <2>1, KeepingTryFrom
  <2> QED
    BY <1>4, <2>2 DEF Onward, Keeping, Connecting
<1>5. CASE h.at \in Connecting /\ ~(h.at \in {"caps", "config"} /\ role = "source")
  <2>1. AfterFailure(h) = GiveUp(h)
    BY <1>5 DEF AfterFailure, Connecting
  <2>2. Keeping(h, AfterFailure(h)) /\ AfterFailure(h).at \in {"close", "sockets"}
    BY <1>0, <2>1, KeepingGiveUp
  <2> QED
    BY <1>5, <2>2 DEF Onward, Keeping
<1> QED
  BY <1>1, <1>2, <1>3, <1>4, <1>5 DEF Commands, Connecting

LEMMA SuccessOnward ==
    ASSUME NEW h, DOMAIN h = DOMAIN NoHost, h.at \in Commands, NEW of
    PROVE  Onward(h, AfterSuccess(h, of))
<1>0. Keeping(h, h)
  BY KeepingFields
<1>k. ASSUME h.at \in Connecting, Keeping(h, AfterSuccess(h, of)),
             AfterSuccess(h, of).at \in Connecting \cup {"close", "sockets"}
      PROVE  Onward(h, AfterSuccess(h, of))
  BY <1>k DEF Onward, Keeping
<1>1. CASE h.at = "discover"
  <2>1. AfterSuccess(h, of) = TryFrom(h, 1)
    BY <1>1 DEF AfterSuccess
  <2> QED
    BY <1>0, <1>1, <1>k, <2>1, KeepingTryFrom DEF Connecting
<1>2. CASE h.at = "caps"
  <2>1. AfterSuccess(h, of) \in {GoTo(h, "config"), GoTo([h EXCEPT !.offer = of, !.seid = h.index], "config"), TryFrom(h, h.index + 1)}
    BY <1>2 DEF AfterSuccess, CapsTaken
  <2>2. Keeping(h, [h EXCEPT !.offer = of, !.seid = h.index])
    BY KeepingFields
  <2>3. Keeping(h, AfterSuccess(h, of)) /\ AfterSuccess(h, of).at \in {"config", "caps", "close", "sockets"}
    BY <1>0, <2>1, <2>2, KeepingGoTo, KeepingTryFrom
  <2> QED
    BY <1>2, <1>k, <2>3 DEF Connecting
<1>3. CASE h.at = "config"
  <2>1. AfterSuccess(h, of) = GoTo([h EXCEPT !.config = ConfigFor(h.offer)], "open")
    BY <1>3 DEF AfterSuccess
  <2>2. Keeping(h, [h EXCEPT !.config = ConfigFor(h.offer)])
    BY KeepingFields
  <2> QED
    BY <1>3, <1>k, <2>1, <2>2, KeepingGoTo DEF Connecting
<1>4. CASE h.at = "open"
  <2>1. AfterSuccess(h, of) = GoTo(h, "media")
    BY <1>4 DEF AfterSuccess
  <2> QED
    BY <1>0, <1>4, <1>k, <2>1, KeepingGoTo DEF Connecting
<1>5. CASE h.at = "start"
  <2> DEFINE g == AfterSuccess(h, of)
  <2>1. CASE role = "sink"
    <3>1. g = GoTo(h, "thread")
      BY <1>5, <2>1 DEF AfterSuccess
    <3>2. Keeping(h, g) /\ g.at = "thread"
      BY <1>0, <3>1, KeepingGoTo
    <3> QED
      BY <1>5, <2>1, <3>2 DEF Onward, Keeping
  <2>2. CASE role # "sink"
    <3>1. g = GoTo([h EXCEPT !.streaming = TRUE], "idle")
      BY <1>5, <2>2 DEF AfterSuccess
    <3>2. /\ DOMAIN g = DOMAIN NoHost /\ g.at = "idle" /\ g.media = h.media
          /\ g.signaling = h.signaling /\ g.connected = h.connected /\ g.streaming
      BY <3>1 DEF GoTo, NoHost
    <3> QED
      BY <1>5, <2>2, <3>2 DEF Onward
  <2> QED
    BY <2>1, <2>2
<1>6. CASE h.at \in {"suspend", "close"}
  BY <1>6, FailureOnward DEF AfterSuccess
<1> QED
  BY <1>1, <1>2, <1>3, <1>4, <1>5, <1>6 DEF Commands


A2dpInv == HostInv /\ SinkInv

LEMMA A2dpOnward ==
    ASSUME A2dpInv, host.at \in Commands \cup {"media"}, Onward(host, host'),
           DOMAIN peer' = DOMAIN PeerGone, UNCHANGED <<role, rx, player>>
    PROVE  A2dpInv'
<1> USE DEF Connecting, Streaming, Commands
<1>1. HostInv'
  BY DEF A2dpInv, HostInv, Onward
<1>2. SinkInv'
  <2>1. host'.streaming \/ host'.at \in {"idle", "close", "sockets", "thread"} \cup Connecting
    BY DEF Onward
  <2>2. ~host.streaming /\ rx.state = "none" /\ ~player.on /\ (host.at = "start" => host.connected)
    BY DEF A2dpInv, HostInv, SinkInv
  <2>3. host'.streaming => host'.connected /\ host'.at = "idle"
    BY <2>2 DEF Onward
  <2>4. host'.at \notin {"player", "audio"}
    BY DEF Onward
  <2> QED
    BY <2>2, <2>3, <2>4 DEF A2dpInv, SinkInv
<1> QED
  BY <1>1, <1>2 DEF A2dpInv

\* The call goes on and touches neither channel nor stream.
LEMMA A2dpGoes ==
    ASSUME A2dpInv, Keeping(host, host'), UNCHANGED <<role, peer, rx, player>>,
           \/ host.at = "idle" /\ ~host.connected /\ host'.at = "acl"
           \/ host.at = "acl" /\ host'.at \in {"idle", "signaling"}
           \/ host.at = "idle" /\ host.connected /\ ~host.streaming /\ host'.at \in {"start", "close"}
           \/ host.at = "idle" /\ host.streaming /\ role = "source" /\ host'.at = "audio"
           \/ host.at = "audio" /\ host'.at \in {"idle", "audio"}
           \/ host.at \in Commands /\ host'.at = host.at
    PROVE  A2dpInv'
BY DEF A2dpInv, HostInv, SinkInv, Keeping, Connecting, Streaming, Commands

LEMMA A2dpUser ==
    ASSUME A2dpInv, UserNext
    PROVE  A2dpInv'
<1>0. DOMAIN host = DOMAIN NoHost
  BY DEF A2dpInv, HostInv
<1>k. /\ \A goal, at : /\ Keeping(host, GoTo([host EXCEPT !.goal = goal], at))
                       /\ GoTo([host EXCEPT !.goal = goal], at).at = at
      /\ \A left, at : /\ Keeping(host, GoTo([host EXCEPT !.left = left], at))
                       /\ GoTo([host EXCEPT !.left = left], at).at = at
  BY <1>0, KeepingFields, KeepingGoTo
<1>1. CASE NodeStart
  <2>1. host' = GoTo([host EXCEPT !.goal = "start"], IF host.connected THEN "start" ELSE "acl")
        /\ host.at = "idle" /\ ~host.streaming /\ UNCHANGED <<role, peer, rx, player>>
    BY <1>1 DEF NodeStart, Asks, sound
  <2>2. Keeping(host, host') /\ host'.at = IF host.connected THEN "start" ELSE "acl"
    BY <1>k, <2>1
  <2> QED
    BY <2>1, <2>2, A2dpGoes
<1>2. CASE NodeStop
  <2>1. host' = GoTo([host EXCEPT !.goal = "disconnect", !.streaming = FALSE], IF host.streaming THEN "suspend" ELSE "close")
        /\ host.at = "idle" /\ host.connected /\ role = "source" /\ UNCHANGED <<role, peer, rx, player>>
    BY <1>2 DEF NodeStop, Asks, sound
  <2>2. /\ DOMAIN host' = DOMAIN NoHost /\ ~host'.streaming /\ host'.connected = host.connected
        /\ host'.signaling = host.signaling /\ host'.media = host.media
        /\ host'.at \in {"suspend", "close"}
    BY <1>0, <2>1 DEF GoTo, NoHost
  <2> QED
    BY <2>1, <2>2 DEF A2dpInv, HostInv, SinkInv, Connecting, Streaming
<1>3. CASE \E frames \in 1 .. PacketRoom + 1 : NodeBuffer(frames)
  <2>1. PICK frames : host' = GoTo([host EXCEPT !.left = frames], "audio")
    BY <1>3 DEF NodeBuffer
  <2>2. Keeping(host, host') /\ host'.at = "audio"
    BY <1>k, <2>1
  <2>3. host.at = "idle" /\ host.streaming /\ role = "source" /\ UNCHANGED <<role, peer, rx, player>>
    BY <1>3 DEF NodeBuffer, Asks, sound
  <2> QED
    BY <2>2, <2>3, A2dpGoes
<1>4. CASE WindowConnect
  <2>1. host' = GoTo([host EXCEPT !.goal = "connect"], "acl")
        /\ host.at = "idle" /\ ~host.connected /\ UNCHANGED <<role, peer, rx, player>>
    BY <1>4 DEF WindowConnect, Asks, sound
  <2>2. Keeping(host, host') /\ host'.at = "acl"
    BY <1>k, <2>1
  <2> QED
    BY <2>1, <2>2, A2dpGoes
<1>5. CASE WindowStart
  <2>1. host' = GoTo([host EXCEPT !.goal = "start"], "start")
        /\ host.at = "idle" /\ host.connected /\ ~host.streaming /\ UNCHANGED <<role, peer, rx, player>>
    BY <1>5 DEF WindowStart, Asks, sound
  <2>2. Keeping(host, host') /\ host'.at = "start"
    BY <1>k, <2>1
  <2> QED
    BY <2>1, <2>2, A2dpGoes
<1>6. CASE \E goal \in {"stop", "disconnect"} : WindowStop(goal)
  <2>1. PICK goal \in {"stop", "disconnect"} : WindowStop(goal)
    BY <1>6
  <2>2. /\ role = "sink" /\ host.at = "idle" /\ host.connected /\ player.out = -1
        /\ player' = [player EXCEPT !.on = FALSE] /\ UNCHANGED <<role, peer, rx>>
        /\ host' = IF host.streaming THEN SinkStops([host EXCEPT !.goal = goal]) ELSE GoTo([host EXCEPT !.goal = goal], "close")
    BY <2>1 DEF WindowStop, Asks
  <2>3. /\ DOMAIN host' = DOMAIN NoHost /\ ~host'.streaming /\ host'.connected = host.connected
        /\ host'.signaling = host.signaling /\ host'.media = host.media
        /\ host'.at = IF host.streaming THEN "join" ELSE "close"
    BY <1>0, <2>2 DEF SinkStops, GoTo, NoHost
  <2>4. DOMAIN player' = {"on", "out", "heard", "sorted"} /\ ~player'.on /\ player'.out = -1
    BY <2>2 DEF A2dpInv, SinkInv
  <2> QED
    BY <2>2, <2>3, <2>4 DEF A2dpInv, HostInv, SinkInv, Connecting, Streaming
<1> QED
  BY <1>1, <1>2, <1>3, <1>4, <1>5, <1>6 DEF UserNext

\* The steps of a call that wait for no answer
LEMMA A2dpCall ==
    ASSUME A2dpInv, NEW made \in BOOLEAN,
           \/ EnsureAclConnection(made) \/ ConnectSignaling(made) \/ OpenMediaChannel(made) \/ SpawnThread(made)
           \/ SendSignal \/ CloseSockets \/ StartPlayer \/ JoinThread \/ SendAudio
    PROVE  A2dpInv'
<1>0. DOMAIN host = DOMAIN NoHost /\ DOMAIN peer = DOMAIN PeerGone /\ DOMAIN rx = DOMAIN NoRx
      /\ DOMAIN player = {"on", "out", "heard", "sorted"} /\ Keeping(host, host)
  BY KeepingFields DEF A2dpInv, HostInv, SinkInv
<1>1. CASE EnsureAclConnection(made)
  <2>1. host.at = "acl" /\ host' = GoTo(host, IF made THEN "signaling" ELSE "idle") /\ UNCHANGED <<role, peer, rx, player>>
    BY <1>1 DEF EnsureAclConnection, sound
  <2>2. Keeping(host, host') /\ host'.at \in {"idle", "signaling"}
    BY <1>0, <2>1, KeepingGoTo
  <2> QED
    BY <2>1, <2>2, A2dpGoes
<1>2. CASE ConnectSignaling(made)
  <2>1. /\ host.at = "signaling" /\ UNCHANGED <<role, rx, player>>
        /\ host' = [GoTo(host, IF made THEN "discover" ELSE "idle") EXCEPT !.signaling = made]
        /\ peer' = [peer EXCEPT !.signaling = made]
    BY <1>2 DEF ConnectSignaling, sound
  <2>2. /\ DOMAIN host' = DOMAIN NoHost /\ host'.streaming = host.streaming /\ host'.connected = host.connected
        /\ host'.signaling = made /\ host'.media = host.media
        /\ host'.at = IF made THEN "discover" ELSE "idle"
    BY <1>0, <2>1 DEF GoTo, NoHost
  <2>3. DOMAIN peer' = DOMAIN PeerGone /\ peer'.signaling = made /\ peer'.media = peer.media
    BY <1>0, <2>1 DEF PeerGone
  <2> QED
    BY <2>1, <2>2, <2>3 DEF A2dpInv, HostInv, SinkInv, Connecting, Streaming
<1>3. CASE OpenMediaChannel(made)
  <2>1. /\ host.at = "media" /\ UNCHANGED <<role, rx, player>> /\ peer' = [peer EXCEPT !.media = made]
        /\ host' = IF made THEN [GoTo(host, IF host.goal = "start" THEN "start" ELSE "idle")
                                    EXCEPT !.media = TRUE, !.connected = TRUE]
                   ELSE GiveUp(host)
    BY <1>3 DEF OpenMediaChannel, sound
  <2>2. DOMAIN peer' = DOMAIN PeerGone
    BY <1>0, <2>1 DEF PeerGone
  <2>3. CASE made
    <3>1. /\ DOMAIN host' = DOMAIN NoHost /\ host'.streaming = host.streaming /\ host'.connected
          /\ host'.signaling = host.signaling /\ host'.media
          /\ host'.at = IF host.goal = "start" THEN "start" ELSE "idle"
      BY <1>0, <2>1, <2>3 DEF GoTo, NoHost
    <3> QED
      BY <2>1, <2>2, <3>1 DEF A2dpInv, HostInv, SinkInv, Connecting, Streaming
  <2>4. CASE ~made
    <3>1. Keeping(host, host') /\ host'.at \in {"close", "sockets"}
      BY <1>0, <2>1, <2>4, KeepingGiveUp
    <3>2. Onward(host, host')
      BY <2>1, <3>1 DEF Onward, Keeping, Connecting
    <3> QED
      BY <2>1, <2>2, <3>2, A2dpOnward
  <2> QED
    BY <2>3, <2>4
<1>4. CASE SpawnThread(made)
  <2>1. /\ host.at = "thread" /\ UNCHANGED <<role, peer, player>>
        /\ host' = [GoTo(host, IF made THEN "player" ELSE "idle") EXCEPT !.streaming = made]
        /\ rx' = [rx EXCEPT !.state = IF made THEN "check" ELSE "none"]
    BY <1>4 DEF SpawnThread
  <2>2. /\ DOMAIN host' = DOMAIN NoHost /\ host'.connected = host.connected
        /\ host'.signaling = host.signaling /\ host'.media = host.media
        /\ IF made THEN host'.at = "player" /\ host'.streaming ELSE host'.at = "idle" /\ ~host'.streaming
    BY <1>0, <2>1 DEF GoTo, NoHost
  <2>3. DOMAIN rx' = DOMAIN NoRx /\ rx'.state = (IF made THEN "check" ELSE "none") /\ rx'.left = rx.left /\ rx'.written = rx.written
    BY <1>0, <2>1 DEF NoRx
  <2>4. host.connected /\ host.signaling /\ role = "sink" /\ ~player.on /\ rx.left = <<>> /\ ~rx.written
    BY <2>1 DEF A2dpInv, HostInv, SinkInv, Streaming
  <2>5. HostInv'
    <3>1. CASE made
      BY <1>0, <2>1, <2>2, <2>4, <3>1 DEF HostInv, Connecting, Streaming
    <3>2. CASE ~made
      BY <1>0, <2>1, <2>2, <2>4, <3>2 DEF HostInv, Connecting, Streaming
    <3> QED
      BY <3>1, <3>2
  <2>6. SinkInv'
    <3>1. CASE made
      BY <1>0, <2>1, <2>2, <2>3, <2>4, <3>1 DEF A2dpInv, SinkInv
    <3>2. CASE ~made
      BY <1>0, <2>1, <2>2, <2>3, <2>4, <3>2 DEF A2dpInv, SinkInv
    <3> QED
      BY <3>1, <3>2
  <2> QED
    BY <2>5, <2>6 DEF A2dpInv
<1>5. CASE SendSignal
  <2>1. host.at \in Commands /\ host' = [host EXCEPT !.sent = TRUE] /\ UNCHANGED <<role, peer, rx, player>>
    BY <1>5 DEF SendSignal, sound
  <2>2. Keeping(host, host') /\ host'.at = host.at
    BY <1>0, <2>1 DEF Keeping, NoHost
  <2> QED
    BY <2>1, <2>2, A2dpGoes
<1>6. CASE CloseSockets
  <2>1. host.at = "sockets" /\ host' = NoHost /\ peer' = PeerGone /\ UNCHANGED <<role, rx, player>>
    BY <1>6 DEF CloseSockets
  <2> QED
    BY <2>1 DEF A2dpInv, HostInv, SinkInv, Connecting, Streaming, NoHost, PeerGone
<1>7. CASE StartPlayer
  <2>1. host.at = "player" /\ player' = [player EXCEPT !.on = TRUE] /\ host' = GoTo(host, "idle") /\ UNCHANGED <<role, peer, rx>>
    BY <1>7 DEF StartPlayer
  <2>2. Keeping(host, host') /\ host'.at = "idle"
    BY <1>0, <2>1, KeepingGoTo
  <2>3. DOMAIN player' = {"on", "out", "heard", "sorted"} /\ player'.on
    BY <1>0, <2>1
  <2>4. host.streaming /\ host.connected /\ role = "sink"
    BY <2>1 DEF A2dpInv, HostInv, SinkInv, Streaming
  <2> QED
    BY <2>1, <2>2, <2>3, <2>4 DEF A2dpInv, HostInv, SinkInv, Keeping, Connecting, Streaming
<1>8. CASE JoinThread
  <2>1. host.at = "join" /\ rx' = NoRx /\ host' = GoTo(host, "suspend") /\ UNCHANGED <<role, peer, player>>
    BY <1>8 DEF JoinThread
  <2>2. Keeping(host, host') /\ host'.at = "suspend"
    BY <1>0, <2>1, KeepingGoTo
  <2> QED
    BY <2>1, <2>2 DEF A2dpInv, HostInv, SinkInv, Keeping, Connecting, Streaming, NoRx
<1>9. CASE SendAudio
  <2>1. /\ host.at = "audio" /\ UNCHANGED <<role, rx, player>>
        /\ \E n : host' \in {GoTo([host EXCEPT !.left = 0], "idle"), [host EXCEPT !.left = n]}
        /\ \E n, m : peer' \in {peer, [peer EXCEPT !.packets = n, !.frames = m]}
    BY <1>9 DEF SendAudio, sound
  <2>2. Keeping(host, host') /\ host'.at \in {"idle", "audio"}
    <3>1. CASE host' = GoTo([host EXCEPT !.left = 0], "idle")
      <4>1. Keeping(host, [host EXCEPT !.left = 0])
        BY <1>0, KeepingFields
      <4> QED
        BY <3>1, <4>1, KeepingGoTo
    <3>2. CASE \E n : host' = [host EXCEPT !.left = n]
      BY <1>0, <2>1, <3>2 DEF Keeping, NoHost
    <3> QED
      BY <2>1, <3>1, <3>2
  <2>3. DOMAIN peer' = DOMAIN PeerGone /\ peer'.signaling = peer.signaling /\ peer'.media = peer.media
    BY <1>0, <2>1 DEF PeerGone
  <2> QED
    BY <2>1, <2>2, <2>3 DEF A2dpInv, HostInv, SinkInv, Keeping, Connecting, Streaming
<1> QED
  BY <1>1, <1>2, <1>3, <1>4, <1>5, <1>6, <1>7, <1>8, <1>9

LEMMA A2dpStep ==
    ASSUME A2dpInv, A2dpNext \/ UNCHANGED a2dpVars
    PROVE  A2dpInv' /\ role' = role
<1>0. DOMAIN host = DOMAIN NoHost /\ DOMAIN peer = DOMAIN PeerGone /\ DOMAIN rx = DOMAIN NoRx
      /\ DOMAIN player = {"on", "out", "heard", "sorted"}
  BY DEF A2dpInv, HostInv, SinkInv
<1>r. role' = role
  <2>1. CASE UserNext
    BY <2>1 DEF UserNext, NodeStart, NodeStop, NodeBuffer, WindowConnect, WindowStart, WindowStop
  <2>2. CASE HostNext
    BY <2>2 DEF HostNext, EnsureAclConnection, ConnectSignaling, OpenMediaChannel, SpawnThread, SendSignal, SendSignalFails,
                RecvSignal, RecvSignalFails, Fails, CloseSockets, StartPlayer, JoinThread, SendAudio
  <2>3. CASE RxNext \/ PlayerNext
    BY <2>3 DEF RxNext, PlayerNext, RxCheck, RxReceive, RxWrite, RxAdvance, PlayerReads, PlayerAdvances, RxOnly
  <2>4. CASE PeerNext
    BY <2>4 DEF PeerNext, PeerAccepts, PeerRejects, PeerCommands, PeerCloses, PeerPlays, PeerOnly
  <2> QED
    BY <2>1, <2>2, <2>3, <2>4 DEF A2dpNext, a2dpVars
<1> SUFFICES A2dpInv'
  BY <1>r
<1>1. CASE UNCHANGED a2dpVars
  BY <1>1 DEF a2dpVars, sound, A2dpInv, HostInv, SinkInv
<1>2. CASE UserNext
  BY <1>2, A2dpUser
<1>3. CASE SendSignalFails \/ RecvSignalFails \/ RecvSignal
  <2>1. host.at \in Commands /\ UNCHANGED <<role, rx, player>> /\ \E m : peer' = [peer EXCEPT !.media = m]
        /\ (host' = AfterFailure(host) \/ \E of : host' = AfterSuccess(host, of))
    BY <1>3 DEF SendSignalFails, RecvSignalFails, Fails, RecvSignal
  <2>2. DOMAIN peer' = DOMAIN PeerGone
    BY <1>0, <2>1 DEF PeerGone
  <2>3. Onward(host, host')
    BY <1>0, <2>1, FailureOnward, SuccessOnward
  <2> QED
    BY <2>1, <2>2, <2>3, A2dpOnward
<1>4. CASE HostNext /\ ~(SendSignalFails \/ RecvSignalFails \/ RecvSignal)
  BY <1>4, A2dpCall DEF HostNext
<1>5. CASE RxNext
  <2>0. UNCHANGED <<role, host, peer, player>>
    BY <1>5 DEF RxNext, RxCheck, RxReceive, RxWrite, RxAdvance, RxOnly
  <2>1. /\ DOMAIN rx' = DOMAIN NoRx /\ rx.state # "none" /\ rx'.state # "none"
        /\ rx'.left # <<>> \/ rx'.written => rx'.state = "push"
    <3>1. CASE RxCheck
      BY <1>0, <3>1 DEF RxCheck, NoRx, A2dpInv, SinkInv
    <3>2. CASE RxReceive
      BY <1>0, <3>2 DEF RxReceive, NoRx, A2dpInv, SinkInv
    <3>3. CASE RxWrite
      BY <1>0, <3>3 DEF RxWrite, NoRx, A2dpInv, SinkInv
    <3>4. CASE RxAdvance
      BY <1>0, <3>4 DEF RxAdvance, NoRx, A2dpInv, SinkInv
    <3> QED
      BY <1>5, <3>1, <3>2, <3>3, <3>4 DEF RxNext
  <2> QED
    BY <2>0, <2>1 DEF A2dpInv, HostInv, SinkInv
<1>6. CASE PlayerNext
  <2>0. UNCHANGED <<role, host, peer, rx>>
    BY <1>6 DEF PlayerNext, PlayerReads, PlayerAdvances, RxOnly
  <2>1. DOMAIN player' = DOMAIN player /\ player'.on = player.on /\ (~player.on => player'.out = -1)
    <3>1. CASE PlayerReads
      BY <1>0, <3>1 DEF PlayerReads
    <3>2. CASE PlayerAdvances
      BY <1>0, <3>2 DEF PlayerAdvances
    <3> QED
      BY <1>6, <3>1, <3>2 DEF PlayerNext
  <2> QED
    BY <2>0, <2>1 DEF A2dpInv, HostInv, SinkInv
<1>7. CASE PeerNext
  <2>0. UNCHANGED <<role, host, rx, player>>
    BY <1>7 DEF PeerNext, PeerAccepts, PeerRejects, PeerCommands, PeerCloses, PeerPlays, PeerOnly
  <2>1. DOMAIN peer' = DOMAIN PeerGone /\ (peer'.signaling => peer.signaling) /\ (peer'.media => peer.media)
    <3>1. CASE PeerAccepts
      <4> DEFINE cmd == Head(toPeer)
                 p == IF cmd.signal \in DOMAIN BecomesOf THEN [peer EXCEPT !.stream[cmd.sep] = BecomesOf[cmd.signal]] ELSE peer
      <4>1. DOMAIN p = DOMAIN PeerGone /\ p.signaling = peer.signaling /\ p.media = peer.media
        BY <1>0 DEF PeerGone
      <4>2. peer' \in {p, [p EXCEPT !.config = cmd.config], [p EXCEPT !.packets = 0, !.frames = 0]}
        BY <3>1 DEF PeerAccepts
      <4> HIDE DEF p, cmd
      <4> QED
        BY <4>1, <4>2 DEF PeerGone
    <3>2. CASE PeerRejects \/ PeerCommands \/ PeerPlays
      BY <1>0, <3>2 DEF PeerRejects, PeerCommands, PeerPlays
    <3>3. CASE \E both \in BOOLEAN : PeerCloses(both)
      BY <1>0, <3>3 DEF PeerCloses, PeerGone
    <3> QED
      BY <1>7, <3>1, <3>2, <3>3 DEF PeerNext
  <2> QED
    BY <2>0, <2>1 DEF A2dpInv, HostInv, SinkInv
<1> QED
  BY <1>1, <1>2, <1>3, <1>4, <1>5, <1>6, <1>7 DEF A2dpNext

LEMMA A2dpStarts == Init => A2dpInv
BY DEF Init, A2dpInit, A2dpInv, HostInv, SinkInv, NoHost, PeerGone, NoRx, Connecting, Streaming

\* A call that fails, and one that disconnects, leaves nothing behind, wherever it
\* has stopped: for every dongle, peer, server and gateway, and any number of calls.
THEOREM NoCallHoldsOn == Spec => []NothingHeld
<1> DEFINE Inv == DongleInv /\ A2dpInv /\ ClientInv /\ GateInv
<1>1. Init => Inv
  BY DongleStarts, A2dpStarts, ClientInit, GateStarts
<1>2. Inv /\ [Next]_vars => Inv'
  BY StepOfEach, DongleStep, A2dpStep, ClientStep, GateStep
<1>3. Inv => NothingHeld
  <2> SUFFICES ASSUME Inv PROVE NothingHeld
    OBVIOUS
  <2>1. DongleHoldsNothing
    BY DEF DongleInv, DongleHoldsNothing
  <2>2. NothingLeftOpen
    <3>1. host.at = "idle" => host.at # "join"
      OBVIOUS
    <3> QED
      BY <3>1 DEF A2dpInv, HostInv, SinkInv, NothingLeftOpen
  <2>3. ProfileHoldsNothing
    BY DEF ClientInv, IsClient, ProfileHoldsNothing, Taken, HasObex
  <2>4. GateHoldsNothing
    BY DEF GateInv, GateHoldsNothing
  <2> QED
    BY <2>1, <2>2, <2>3, <2>4 DEF NothingHeld
<1> QED
  BY <1>1, <1>2, <1>3, PTL DEF Spec

----------------------------------------------------------------------------
\* The samples on their way to the sound player

Slot == 0 .. RingSize - 1

\* How far a slot lies behind the one to be read next
Behind(r, s) == IF s >= r.read THEN s - r.read ELSE s - r.read + RingSize
Filled(r, s) == s \in Slot /\ Behind(r, s) < Behind(r, r.write)
Rising(q) == \A i, j \in 1 .. Len(q) : i < j => q[i] < q[j]

IsRing(r) == DOMAIN r = DOMAIN NoRing /\ r.buf \in [Slot -> Int] /\ r.write \in Slot /\ r.read \in Slot

\* What has been heard, what the ring holds, and what is left of a packet follow
\* one another, and none is later than "top".
Ordered(r, left, heard, top) ==
    /\ IsRing(r) /\ left \in Seq(Int) /\ heard \in Int /\ top \in Int
    /\ heard <= top
    /\ \A s \in Slot : Filled(r, s) => heard < r.buf[s] /\ r.buf[s] <= top
    /\ \A s, t \in Slot : Filled(r, t) /\ Behind(r, s) < Behind(r, t) => r.buf[s] < r.buf[t]
    /\ Rising(left)
    /\ \A i \in 1 .. Len(left) : heard < left[i] /\ left[i] <= top
    /\ \A i \in 1 .. Len(left), s \in Slot : Filled(r, s) => r.buf[s] < left[i]

Packet(n) == [i \in 1 .. PerPacket |-> n * PerPacket + i]

\* Packets that the receive thread has taken, or that were lost with a channel
Given == count.audio - Len(audio)

OrderInv ==
    /\ count.audio \in Nat /\ DOMAIN count = {"calls", "trouble", "audio"}
    /\ audio \in Seq([1 .. PerPacket -> Int]) /\ Len(audio) <= count.audio
    /\ \A k \in 1 .. Len(audio) : audio[k] = Packet(Given + k - 1)
    /\ player.sorted
    /\ Ordered(ring, rx.left, player.heard, Given * PerPacket)
    /\ player.out # -1 => ring.read # ring.write /\ player.out = ring.buf[ring.read]
    /\ rx.written => rx.left # <<>> /\ ring.buf[ring.write] = rx.left[1] /\ After(ring.write) # ring.read

LEMMA AfterIs ==
    ASSUME NEW i \in Slot
    PROVE  After(i) = (IF i = RingSize - 1 THEN 0 ELSE i + 1) /\ After(i) \in Slot
<1>1. RingSize \in Nat \ {0, 1}
  BY A2dpAssumption
<1>2. CASE i = RingSize - 1
  BY <1>1, <1>2 DEF After, Slot
<1>3. CASE i # RingSize - 1
  BY <1>1, <1>3 DEF After, Slot
<1> QED
  BY <1>2, <1>3

LEMMA BehindIs ==
    ASSUME NEW r, r.read \in Slot
    PROVE  /\ \A s \in Slot : Behind(r, s) \in Slot /\ Behind(r, s) \in Nat /\ (Behind(r, s) = 0 <=> s = r.read)
           /\ \A s, t \in Slot : Behind(r, s) = Behind(r, t) => s = t
<1>1. RingSize \in Nat /\ RingSize >= 2 /\ r.read \in 0 .. RingSize - 1
  BY A2dpAssumption DEF Slot
<1>2. \A s \in 0 .. RingSize - 1 : Behind(r, s) \in 0 .. RingSize - 1 /\ (Behind(r, s) = 0 <=> s = r.read)
  BY <1>1 DEF Behind
<1>3. \A s, t \in 0 .. RingSize - 1 : Behind(r, s) = Behind(r, t) => s = t
  BY <1>1 DEF Behind
<1> QED
  BY <1>2, <1>3 DEF Slot

\* The next slot lies one further behind; all do after a sample has been read.
LEMMA BehindNext ==
    ASSUME NEW r, r.read \in Slot, NEW q
    PROVE  /\ \A s \in Slot : After(s) # r.read => Behind(r, After(s)) = Behind(r, s) + 1
           /\ q.read = After(r.read) =>
                 /\ \A s \in Slot : s # r.read => Behind(q, s) = Behind(r, s) - 1
                 /\ Behind(q, r.read) = RingSize - 1
<1>1. RingSize \in Nat /\ RingSize >= 2 /\ r.read \in 0 .. RingSize - 1
  BY A2dpAssumption DEF Slot
<1>2. After(r.read) = IF r.read = RingSize - 1 THEN 0 ELSE r.read + 1
  BY AfterIs
<1>3. ASSUME NEW s \in Slot, After(s) # r.read PROVE Behind(r, After(s)) = Behind(r, s) + 1
  <2>1. After(s) = IF s = RingSize - 1 THEN 0 ELSE s + 1
    BY AfterIs
  <2>2. s \in 0 .. RingSize - 1
    BY DEF Slot
  <2> QED
    BY <1>1, <1>3, <2>1, <2>2 DEF Behind
<1>4. ASSUME q.read = After(r.read), NEW s \in 0 .. RingSize - 1, s # r.read
      PROVE  Behind(q, s) = Behind(r, s) - 1
  BY <1>1, <1>2, <1>4 DEF Behind
<1>5. ASSUME q.read = After(r.read) PROVE Behind(q, r.read) = RingSize - 1
  BY <1>1, <1>2, <1>5 DEF Behind
<1> QED
  BY <1>3, <1>4, <1>5 DEF Slot

LEMMA PacketsGrow ==
    ASSUME NEW a \in Nat, NEW b \in Nat, a <= b
    PROVE  /\ a * PerPacket \in Nat /\ a * PerPacket <= b * PerPacket
           /\ (a + 1) * PerPacket = a * PerPacket + PerPacket
<1>1. PerPacket \in Nat
  BY A2dpAssumption
<1>2. \A m, n \in Nat : m * n \in Nat /\ (m + 1) * n = m * n + n
  OBVIOUS
<1>3. b = a + (b - a) /\ b - a \in Nat
  OBVIOUS
<1>4. b * PerPacket = a * PerPacket + (b - a) * PerPacket
  BY <1>1, <1>3
<1> QED
  BY <1>1, <1>2, <1>3, <1>4

\* The ring and what is left of a packet are forgotten, or more has been given.
LEMMA OrderForgotten ==
    ASSUME NEW r, NEW left, NEW heard, NEW top, Ordered(r, left, heard, top), NEW more \in Int, top <= more
    PROVE  /\ Ordered(r, left, heard, more)
           /\ Ordered(NoRing, <<>>, heard, more)
           /\ Ordered(r, <<>>, heard, more)
<1>0. top \in Int /\ left \in Seq(Int) /\ r.buf \in [Slot -> Int]
  BY DEF Ordered, IsRing
<1>1. Ordered(r, left, heard, more)
  BY <1>0 DEF Ordered
<1>2. <<>> \in Seq(Int) /\ Rising(<<>>) /\ \A i \in 1 .. Len(<<>>) : FALSE
  BY DEF Rising
<1>3. Ordered(r, <<>>, heard, more)
  BY <1>1, <1>2 DEF Ordered
<1>4. IsRing(NoRing) /\ NoRing.read = 0 /\ NoRing.write = 0
  BY A2dpAssumption DEF IsRing, NoRing, Slot
<1>5. \A s \in Slot : ~Filled(NoRing, s)
  BY <1>4, A2dpAssumption DEF Filled, Behind, Slot
<1>6. Ordered(NoRing, <<>>, heard, more)
  BY <1>1, <1>2, <1>4, <1>5 DEF Ordered
<1> QED
  BY <1>1, <1>3, <1>6

\* A slot is written that is not filled.
LEMMA OrderWritten ==
    ASSUME NEW r, NEW left, NEW heard, NEW top, Ordered(r, left, heard, top), NEW x \in Int
    PROVE  Ordered([r EXCEPT !.buf[r.write] = x], left, heard, top)
<1> DEFINE q == [r EXCEPT !.buf[r.write] = x]
<1>0. DOMAIN r = DOMAIN NoRing /\ r.buf \in [Slot -> Int] /\ r.write \in Slot /\ r.read \in Slot
  BY DEF Ordered, IsRing
<1>1. /\ DOMAIN q = DOMAIN NoRing /\ q.write = r.write /\ q.read = r.read /\ q.buf \in [Slot -> Int]
      /\ \A s \in Slot : s # r.write => q.buf[s] = r.buf[s]
  BY <1>0 DEF NoRing
<1> HIDE DEF q
<1>2. IsRing(q) /\ \A s : Behind(q, s) = Behind(r, s) /\ (Filled(q, s) <=> Filled(r, s))
  BY <1>0, <1>1 DEF IsRing, Behind, Filled
<1>b. \A s \in Slot : Behind(r, s) \in Nat
  BY <1>0, BehindIs
<1>3. \A s \in Slot : Filled(r, s) => s # r.write /\ q.buf[s] = r.buf[s]
  BY <1>0, <1>1, <1>b DEF Filled
<1>4. \A s, t \in Slot : Filled(r, t) /\ Behind(r, s) < Behind(r, t) => Filled(r, s)
  BY <1>0, <1>b DEF Filled
<1>5. Ordered(q, left, heard, top)
  BY <1>2, <1>3, <1>4 DEF Ordered
<1> QED
  BY <1>5 DEF q

\* The slot that has been written is filled.
LEMMA OrderAdvanced ==
    ASSUME NEW r, NEW left, NEW heard, NEW top, Ordered(r, left, heard, top),
           left # <<>>, r.buf[r.write] = left[1], After(r.write) # r.read
    PROVE  Ordered([r EXCEPT !.write = After(@)], Tail(left), heard, top)
<1> DEFINE q == [r EXCEPT !.write = After(@)]
<1>0. /\ DOMAIN r = DOMAIN NoRing /\ r.buf \in [Slot -> Int] /\ r.write \in Slot /\ r.read \in Slot
      /\ left \in Seq(Int) /\ heard \in Int /\ top \in Int
  BY DEF Ordered, IsRing
<1>1. DOMAIN q = DOMAIN NoRing /\ q.write = After(r.write) /\ q.read = r.read /\ q.buf = r.buf
  BY <1>0 DEF NoRing
<1> HIDE DEF q
<1>a. After(r.write) \in Slot
  BY <1>0, AfterIs
<1>2. IsRing(q) /\ \A s : Behind(q, s) = Behind(r, s)
  BY <1>0, <1>1, <1>a DEF IsRing, Behind
<1>3. Behind(q, q.write) = Behind(r, r.write) + 1
  BY <1>0, <1>1, <1>2, BehindNext
<1>b. \A s \in Slot : Behind(r, s) \in Nat /\ \A t \in Slot : Behind(r, s) = Behind(r, t) => s = t
  BY <1>0, BehindIs
<1>4. \A s \in Slot : Filled(q, s) => Filled(r, s) \/ s = r.write
  BY <1>0, <1>2, <1>3, <1>b DEF Filled
<1>5. /\ Tail(left) \in Seq(Int) /\ Len(Tail(left)) = Len(left) - 1 /\ Len(left) \in Nat /\ 1 \in 1 .. Len(left)
      /\ \A i \in 1 .. Len(left) - 1 : Tail(left)[i] = left[i + 1] /\ i + 1 \in 1 .. Len(left) /\ 1 < i + 1
      /\ \A i \in 1 .. Len(left) : left[i] \in Int
  BY <1>0
<1>6. Rising(Tail(left))
  BY <1>5 DEF Ordered, Rising
<1>7. \A i \in 1 .. Len(left) - 1 : left[1] < left[i + 1]
  BY <1>5 DEF Ordered, Rising
<1>8. \A s \in Slot : Filled(q, s) => heard < q.buf[s] /\ q.buf[s] <= top
  BY <1>1, <1>4, <1>5 DEF Ordered
<1>9. \A s, t \in Slot : Filled(q, t) /\ Behind(q, s) < Behind(q, t) => q.buf[s] < q.buf[t]
  <2> SUFFICES ASSUME NEW s \in Slot, NEW t \in Slot, Filled(q, t), Behind(q, s) < Behind(q, t)
               PROVE  q.buf[s] < q.buf[t]
    OBVIOUS
  <2>1. CASE Filled(r, t)
    BY <1>1, <1>2, <2>1 DEF Ordered
  <2>2. CASE t = r.write
    <3>1. Filled(r, s)
      BY <1>2, <2>2 DEF Filled
    <3> QED
      BY <1>1, <1>5, <2>2, <3>1 DEF Ordered
  <2> QED
    BY <1>4, <2>1, <2>2
<1>10. \A i \in 1 .. Len(Tail(left)) : heard < Tail(left)[i] /\ Tail(left)[i] <= top
  BY <1>5 DEF Ordered
<1>11. \A i \in 1 .. Len(Tail(left)), s \in Slot : Filled(q, s) => q.buf[s] < Tail(left)[i]
  <2> SUFFICES ASSUME NEW i \in 1 .. Len(left) - 1, NEW s \in Slot, Filled(q, s)
               PROVE  q.buf[s] < Tail(left)[i]
    BY <1>5
  <2>1. CASE Filled(r, s)
    BY <1>1, <1>5, <2>1 DEF Ordered
  <2>2. CASE s = r.write
    BY <1>1, <1>5, <1>7, <2>2
  <2> QED
    BY <1>4, <2>1, <2>2
<1>12. Ordered(q, Tail(left), heard, top)
  BY <1>0, <1>2, <1>5, <1>6, <1>8, <1>9, <1>10, <1>11 DEF Ordered
<1> QED
  BY <1>12 DEF q

\* The sample to be read next has been played.
LEMMA OrderPlayed ==
    ASSUME NEW r, NEW left, NEW heard, NEW top, Ordered(r, left, heard, top), r.read # r.write
    PROVE  Ordered([r EXCEPT !.read = After(@)], left, r.buf[r.read], top) /\ r.buf[r.read] > heard
<1> DEFINE q == [r EXCEPT !.read = After(@)]
           x == r.buf[r.read]
<1>0. /\ DOMAIN r = DOMAIN NoRing /\ r.buf \in [Slot -> Int] /\ r.write \in Slot /\ r.read \in Slot
      /\ left \in Seq(Int) /\ heard \in Int /\ top \in Int
  BY DEF Ordered, IsRing
<1>1. DOMAIN q = DOMAIN NoRing /\ q.read = After(r.read) /\ q.write = r.write /\ q.buf = r.buf
  BY <1>0 DEF NoRing
<1>a. After(r.read) \in Slot
  BY <1>0, AfterIs
<1>2. IsRing(q) /\ x \in Int
  BY <1>0, <1>1, <1>a DEF IsRing
<1>3. \A s \in Slot : s # r.read => Behind(q, s) = Behind(r, s) - 1
  BY <1>0, <1>1, BehindNext
<1>4. Behind(q, r.read) = RingSize - 1 /\ Behind(r, r.read) = 0 /\ RingSize \in Nat
  BY <1>0, <1>1, BehindNext, BehindIs, A2dpAssumption
<1>5. \A s \in Slot : Behind(r, s) \in 0 .. RingSize - 1 /\ Behind(q, s) \in 0 .. RingSize - 1
                      /\ (s # r.read => Behind(r, s) > 0)
  <2>1. \A s \in Slot : Behind(r, s) \in 0 .. RingSize - 1 /\ (s # r.read => Behind(r, s) # 0)
    BY <1>0, BehindIs DEF Slot
  <2>2. \A s \in Slot : Behind(q, s) \in 0 .. RingSize - 1
    BY <1>0, <1>1, <1>a, BehindIs DEF Slot
  <2> QED
    BY <1>4, <2>1, <2>2
<1>6. Filled(r, r.read)
  <2>1. Behind(r, r.write) \in 0 .. RingSize - 1 /\ Behind(r, r.write) > 0
    BY <1>0, <1>5
  <2> QED
    BY <1>0, <1>4, <2>1 DEF Filled
<1>7. \A s \in Slot : Filled(q, s) => Filled(r, s) /\ s # r.read /\ x < r.buf[s]
  <2> SUFFICES ASSUME NEW s \in Slot, Filled(q, s) PROVE Filled(r, s) /\ s # r.read /\ x < r.buf[s]
    OBVIOUS
  <2>0. Behind(r, r.write) \in 0 .. RingSize - 1 /\ Behind(r, s) \in 0 .. RingSize - 1 /\ Behind(q, s) \in 0 .. RingSize - 1
    BY <1>0, <1>5
  <2>1. Behind(q, s) < Behind(r, r.write) - 1
    BY <1>0, <1>1, <1>3 DEF Filled
  <2>2. s # r.read
    BY <1>4, <2>0, <2>1
  <2>3. Filled(r, s)
    BY <1>3, <2>0, <2>1, <2>2 DEF Filled
  <2> QED
    BY <1>0, <1>4, <1>5, <2>2, <2>3 DEF Ordered
<1>8. heard < x /\ x <= top
  BY <1>0, <1>6 DEF Ordered
<1> HIDE DEF q, x
<1>9. \A s \in Slot : Filled(q, s) => x < q.buf[s] /\ q.buf[s] <= top
  BY <1>1, <1>7 DEF Ordered
<1>10. \A s, t \in Slot : Filled(q, t) /\ Behind(q, s) < Behind(q, t) => q.buf[s] < q.buf[t]
  <2> SUFFICES ASSUME NEW s \in Slot, NEW t \in Slot, Filled(q, t), Behind(q, s) < Behind(q, t)
               PROVE  q.buf[s] < q.buf[t]
    OBVIOUS
  <2>1. Filled(r, t) /\ t # r.read
    BY <1>7
  <2>2. s # r.read
    BY <1>4, <1>5
  <2>3. Behind(r, s) < Behind(r, t)
    BY <1>3, <1>5, <2>1, <2>2
  <2> QED
    BY <1>1, <2>1, <2>3 DEF Ordered
<1>11. \A i \in 1 .. Len(left) : x < left[i] /\ left[i] <= top
  BY <1>0, <1>6 DEF Ordered, x
<1>12. \A i \in 1 .. Len(left), s \in Slot : Filled(q, s) => q.buf[s] < left[i]
  BY <1>1, <1>7 DEF Ordered
<1>13. Ordered(q, left, x, top)
  BY <1>0, <1>2, <1>8, <1>9, <1>10, <1>11, <1>12 DEF Ordered
<1> QED
  BY <1>8, <1>13 DEF q, x

\* A packet is taken that is later than all before.
LEMMA OrderTaken ==
    ASSUME NEW r, NEW heard, NEW n \in Nat, Ordered(r, <<>>, heard, n * PerPacket)
    PROVE  Ordered(r, Packet(n), heard, (n + 1) * PerPacket)
<1> DEFINE low == n * PerPacket
           high == (n + 1) * PerPacket
<1>1. low \in Nat /\ high = low + PerPacket /\ PerPacket \in Nat
  BY PacketsGrow, A2dpAssumption
<1>2. Packet(n) = [i \in 1 .. PerPacket |-> low + i]
  BY DEF Packet
<1> HIDE DEF low, high
<1>3. /\ Packet(n) \in Seq(Int) /\ Len(Packet(n)) = PerPacket
      /\ \A i \in 1 .. PerPacket : Packet(n)[i] = low + i
  BY <1>1, <1>2
<1>4. Rising(Packet(n))
  BY <1>1, <1>3 DEF Rising
<1>5. Ordered(r, <<>>, heard, low)
  BY DEF low
<1>6. /\ IsRing(r) /\ heard \in Int /\ heard <= low
      /\ \A s \in Slot : Filled(r, s) => r.buf[s] \in Int /\ heard < r.buf[s] /\ r.buf[s] <= low
      /\ \A s, t \in Slot : Filled(r, t) /\ Behind(r, s) < Behind(r, t) => r.buf[s] < r.buf[t]
  BY <1>5 DEF Ordered, IsRing
<1>7. Ordered(r, Packet(n), heard, high)
  BY <1>1, <1>3, <1>4, <1>6 DEF Ordered
<1> QED
  BY <1>7 DEF high

\* The samples stay where they are.
LEMMA OrderKept ==
    ASSUME OrderInv, UNCHANGED <<audio, rx, ring, player>>, DOMAIN count' = DOMAIN count, count'.audio = count.audio
    PROVE  OrderInv'
<1>1. Given' = Given
  BY DEF Given
<1> QED
  BY <1>1 DEF OrderInv

\* The ring is cleared while neither thread nor player runs, or a channel's packets are lost.
LEMMA OrderCleared ==
    ASSUME OrderInv, A2dpInv, UNCHANGED <<rx, player>>, DOMAIN count' = DOMAIN count, count'.audio = count.audio,
           audio' \in {audio, <<>>},
           ring' = ring \/ (ring' = NoRing /\ ~host.streaming /\ host.at # "join")
    PROVE  OrderInv'
<1>0. /\ count.audio \in Nat /\ Len(audio) \in Nat /\ Len(audio) <= count.audio
      /\ Ordered(ring, rx.left, player.heard, Given * PerPacket)
  BY DEF OrderInv
<1>1. Given' \in Nat /\ Given \in Nat /\ Given <= Given'
  <2>1. Given \in Nat /\ Given <= count.audio
    BY <1>0 DEF Given
  <2>2. audio' = <<>> => Given' = count.audio
    BY <1>0 DEF Given
  <2>3. audio' = audio => Given' = Given
    BY DEF Given
  <2> QED
    BY <1>0, <2>1, <2>2, <2>3
<1>2. Given * PerPacket <= Given' * PerPacket /\ Given' * PerPacket \in Int
  BY <1>1, PacketsGrow
<1>3. /\ audio' \in Seq([1 .. PerPacket -> Int]) /\ Len(audio') <= count.audio
      /\ \A k \in 1 .. Len(audio') : audio'[k] = Packet(Given' + k - 1)
  <2>1. CASE audio' = audio
    BY <2>1 DEF OrderInv, Given
  <2>2. CASE audio' = <<>>
    BY <1>0, <2>2
  <2> QED
    BY <2>1, <2>2
<1>4. CASE ring' = ring
  <2>1. Ordered(ring, rx.left, player.heard, Given' * PerPacket)
    BY <1>0, <1>2, OrderForgotten
  <2> QED
    BY <1>0, <1>3, <1>4, <2>1 DEF OrderInv
<1>5. CASE ring' = NoRing /\ ~host.streaming /\ host.at # "join"
  <2>1. player.out = -1 /\ rx.left = <<>> /\ ~rx.written
    BY <1>5 DEF A2dpInv, SinkInv
  <2>2. Ordered(NoRing, <<>>, player.heard, Given' * PerPacket)
    BY <1>0, <1>2, OrderForgotten
  <2> QED
    BY <1>0, <1>3, <1>5, <2>1, <2>2 DEF OrderInv
<1> QED
  BY <1>4, <1>5

LEMMA OrderReceives ==
    ASSUME OrderInv, A2dpInv, RxReceive
    PROVE  OrderInv'
<1>0. /\ count.audio \in Nat /\ Len(audio) \in Nat /\ Len(audio) <= count.audio /\ DOMAIN rx = DOMAIN NoRx
      /\ audio \in Seq([1 .. PerPacket -> Int])
      /\ Ordered(ring, rx.left, player.heard, Given * PerPacket)
      /\ rx.state = "recv" /\ rx.left = <<>> /\ ~rx.written /\ UNCHANGED <<ring, player, count>>
  BY DEF OrderInv, A2dpInv, SinkInv, RxReceive, RxOnly
<1>1. CASE audio = <<>>
  <2>1. audio' = audio /\ rx'.left = rx.left /\ ~rx'.written
    BY <1>0, <1>1 DEF RxReceive, NoRx
  <2>2. Given' = Given
    BY <1>0, <2>1 DEF Given
  <2> QED
    BY <1>0, <2>1, <2>2 DEF OrderInv
<1>2. CASE audio # <<>>
  <2>0. /\ rx' = [rx EXCEPT !.state = "push", !.left = Head(audio)] /\ audio' = Tail(audio) /\ Head(audio) = audio[1]
    BY <1>0, <1>2 DEF RxReceive
  <2>1. audio' = Tail(audio) /\ rx'.left = audio[1] /\ ~rx'.written
    BY <1>0, <2>0 DEF NoRx
  <2>2. /\ audio' \in Seq([1 .. PerPacket -> Int]) /\ Len(audio') = Len(audio) - 1 /\ Len(audio) >= 1
        /\ \A k \in 1 .. Len(audio) - 1 : audio'[k] = audio[k + 1] /\ k + 1 \in 1 .. Len(audio)
        /\ 1 \in 1 .. Len(audio)
    BY <1>0, <1>2, <2>1
  <2>3. Given' = Given + 1 /\ Given \in Nat
    BY <1>0, <2>2 DEF Given
  <2>4. rx'.left = Packet(Given)
    BY <1>0, <2>1, <2>2, <2>3 DEF OrderInv
  <2>5. \A k \in 1 .. Len(audio') : audio'[k] = Packet(Given' + k - 1)
    <3> SUFFICES ASSUME NEW k \in 1 .. Len(audio) - 1 PROVE audio'[k] = Packet(Given' + k - 1)
      BY <1>0, <2>2
    <3>1. audio'[k] = Packet(Given + (k + 1) - 1)
      BY <1>0, <2>2 DEF OrderInv
    <3>2. Given + (k + 1) - 1 = Given' + k - 1
      BY <1>0, <2>3
    <3> QED
      BY <3>1, <3>2
  <2>6. Ordered(ring, rx'.left, player.heard, Given' * PerPacket)
    BY <1>0, <2>3, <2>4, OrderTaken
  <2> QED
    BY <1>0, <2>1, <2>2, <2>3, <2>5, <2>6 DEF OrderInv
<1> QED
  BY <1>1, <1>2

LEMMA OrderRx ==
    ASSUME OrderInv, A2dpInv, RxNext
    PROVE  OrderInv'
<1>0. /\ count.audio \in Nat /\ DOMAIN rx = DOMAIN NoRx /\ IsRing(ring) /\ rx.left \in Seq(Int)
      /\ Ordered(ring, rx.left, player.heard, Given * PerPacket) /\ Given * PerPacket \in Int
  BY DEF OrderInv, A2dpInv, SinkInv, Ordered
<1>1. CASE RxCheck
  <2>1. rx'.left = rx.left /\ rx'.written = rx.written /\ UNCHANGED <<audio, ring, player, count>>
    BY <1>0, <1>1 DEF RxCheck, RxOnly, NoRx
  <2>2. Given' = Given
    BY <2>1 DEF Given
  <2> QED
    BY <2>1, <2>2 DEF OrderInv
<1>2. CASE RxReceive
  BY <1>2, OrderReceives
<1>3. CASE RxWrite
  <2>0. ~rx.written /\ UNCHANGED <<audio, player, count>>
    BY <1>3 DEF RxWrite, RxOnly
  <2>g. Given' = Given
    BY <2>0 DEF Given
  <2>1. CASE rx.left = <<>> \/ After(ring.write) = ring.read
    <3>1. rx'.left = <<>> /\ rx'.written = rx.written /\ UNCHANGED ring
      BY <1>0, <1>3, <2>1 DEF RxWrite, NoRx
    <3>2. Ordered(ring, <<>>, player.heard, Given * PerPacket)
      BY <1>0, OrderForgotten
    <3> QED
      BY <2>0, <2>g, <3>1, <3>2 DEF OrderInv
  <2>2. CASE rx.left # <<>> /\ After(ring.write) # ring.read
    <3>1. /\ ring' = [ring EXCEPT !.buf[ring.write] = Head(rx.left)] /\ rx'.left = rx.left
          /\ Head(rx.left) = rx.left[1] /\ rx.left[1] \in Int
      BY <1>0, <1>3, <2>2 DEF RxWrite, NoRx
    <3>2. /\ ring'.buf[ring.write] = rx.left[1] /\ ring'.write = ring.write /\ ring'.read = ring.read
          /\ \A s \in Slot : s # ring.write => ring'.buf[s] = ring.buf[s]
      BY <1>0, <3>1 DEF IsRing, NoRing
    <3>3. Ordered(ring', rx.left, player.heard, Given * PerPacket)
      BY <1>0, <3>1, OrderWritten
    <3>4. player.out # -1 => ring'.read # ring'.write /\ player.out = ring'.buf[ring'.read]
      BY <1>0, <3>2 DEF OrderInv, IsRing
    <3> QED
      BY <2>0, <2>2, <2>g, <3>1, <3>2, <3>3, <3>4 DEF OrderInv
  <2> QED
    BY <2>1, <2>2
<1>4. CASE RxAdvance
  <2>0. /\ rx.written /\ UNCHANGED <<audio, player, count>> /\ ring' = [ring EXCEPT !.write = After(@)]
        /\ rx' = [rx EXCEPT !.written = FALSE, !.left = Tail(@)]
    BY <1>4 DEF RxAdvance, RxOnly
  <2>1. rx'.left = Tail(rx.left) /\ ~rx'.written
    BY <1>0, <2>0 DEF NoRx
  <2>2. ring'.write = After(ring.write) /\ ring'.read = ring.read /\ ring'.buf = ring.buf
    BY <1>0, <2>0 DEF IsRing, NoRing
  <2>3. rx.left # <<>> /\ ring.buf[ring.write] = rx.left[1] /\ After(ring.write) # ring.read
    BY <2>0 DEF OrderInv
  <2>4. Ordered(ring', Tail(rx.left), player.heard, Given * PerPacket)
    BY <1>0, <2>0, <2>3, OrderAdvanced
  <2>g. Given' = Given
    BY <2>0 DEF Given
  <2> QED
    BY <2>0, <2>1, <2>2, <2>3, <2>4, <2>g DEF OrderInv
<1> QED
  BY <1>1, <1>2, <1>3, <1>4 DEF RxNext

LEMMA OrderPlayer ==
    ASSUME OrderInv, A2dpInv, PlayerNext
    PROVE  OrderInv'
<1>0. /\ DOMAIN player = {"on", "out", "heard", "sorted"} /\ IsRing(ring)
      /\ Ordered(ring, rx.left, player.heard, Given * PerPacket)
      /\ UNCHANGED <<audio, rx, count>>
  BY DEF OrderInv, A2dpInv, SinkInv, Ordered, PlayerNext, PlayerReads, PlayerAdvances, RxOnly
<1>g. Given' = Given
  BY <1>0 DEF Given
<1>1. CASE PlayerReads
  <2>1. /\ UNCHANGED ring /\ ring.read # ring.write /\ player'.out = ring.buf[ring.read]
        /\ player'.heard = player.heard /\ player'.sorted = player.sorted
    BY <1>0, <1>1 DEF PlayerReads
  <2> QED
    BY <1>0, <1>g, <2>1 DEF OrderInv
<1>2. CASE PlayerAdvances
  <2>0. player.out # -1 /\ ring.read # ring.write /\ player.out = ring.buf[ring.read]
    BY <1>2 DEF PlayerAdvances, OrderInv
  <2>1. /\ ring' = [ring EXCEPT !.read = After(@)] /\ player'.out = -1 /\ player'.heard = player.out
        /\ player'.sorted = (player.sorted /\ player.out > player.heard)
    BY <1>0, <1>2 DEF PlayerAdvances
  <2>2. ring'.read = After(ring.read) /\ ring'.write = ring.write /\ ring'.buf = ring.buf
    BY <1>0, <2>1 DEF IsRing, NoRing
  <2>3. Ordered(ring', rx.left, player.out, Given * PerPacket) /\ player.out > player.heard
    BY <1>0, <2>0, <2>1, OrderPlayed
  <2>4. rx.written => After(ring'.write) # ring'.read
    <3>1. ring.write \in Slot /\ ring.read \in Slot
      BY <1>0 DEF IsRing
    <3>2. After(ring.write) # After(ring.read)
      BY <2>0, <3>1, AfterIs DEF Slot
    <3> QED
      BY <2>2, <3>2
  <2> QED
    BY <1>0, <1>g, <2>1, <2>2, <2>3, <2>4 DEF OrderInv
<1> QED
  BY <1>1, <1>2 DEF PlayerNext

LEMMA OrderPeer ==
    ASSUME OrderInv, PeerNext
    PROVE  OrderInv'
<1>0. /\ count.audio \in Nat /\ DOMAIN count = {"calls", "trouble", "audio"} /\ Len(audio) \in Nat
      /\ audio \in Seq([1 .. PerPacket -> Int]) /\ Len(audio) <= count.audio
      /\ UNCHANGED <<rx, ring, player>>
  BY DEF OrderInv, PeerNext, PeerAccepts, PeerRejects, PeerCommands, PeerCloses, PeerPlays, PeerOnly
<1>1. CASE PeerPlays
  <2> DEFINE p == [i \in 1 .. PerPacket |-> count.audio * PerPacket + i]
  <2>1. p = Packet(count.audio) /\ p \in [1 .. PerPacket -> Int]
    <3>1. count.audio * PerPacket \in Nat
      BY <1>0, PacketsGrow
    <3> QED
      BY <3>1 DEF Packet
  <2>2. audio' = Append(audio, p) /\ count' = [count EXCEPT !.audio = @ + 1]
    BY <1>1 DEF PeerPlays
  <2> HIDE DEF p
  <2>3. /\ audio' \in Seq([1 .. PerPacket -> Int]) /\ Len(audio') = Len(audio) + 1
        /\ \A k \in 1 .. Len(audio) + 1 : audio'[k] = IF k = Len(audio) + 1 THEN p ELSE audio[k]
    BY <1>0, <2>1, <2>2
  <2>4. DOMAIN count' = {"calls", "trouble", "audio"} /\ count'.audio = count.audio + 1
    BY <1>0, <2>2
  <2>5. Given' = Given
    BY <1>0, <2>3, <2>4 DEF Given
  <2>6. \A k \in 1 .. Len(audio') : audio'[k] = Packet(Given' + k - 1)
    <3> SUFFICES ASSUME NEW k \in 1 .. Len(audio) + 1 PROVE audio'[k] = Packet(Given + k - 1)
      BY <2>3, <2>5
    <3>1. CASE k = Len(audio) + 1
      <4>1. Given + k - 1 = count.audio
        BY <1>0, <3>1 DEF Given
      <4> QED
        BY <2>1, <2>3, <3>1, <4>1
    <3>2. CASE k # Len(audio) + 1
      BY <1>0, <2>3, <3>2 DEF OrderInv
    <3> QED
      BY <3>1, <3>2
  <2> QED
    BY <1>0, <2>3, <2>4, <2>5, <2>6 DEF OrderInv
<1>2. CASE PeerAccepts \/ PeerRejects \/ PeerCommands \/ \E both \in BOOLEAN : PeerCloses(both)
  <2>1. UNCHANGED audio /\ DOMAIN count' = DOMAIN count /\ count'.audio = count.audio
    BY <1>0, <1>2 DEF PeerAccepts, PeerRejects, PeerCommands, PeerCloses, Trouble
  <2> QED
    BY <1>0, <2>1, OrderKept
<1> QED
  BY <1>1, <1>2 DEF PeerNext

LEMMA OrderUser ==
    ASSUME OrderInv, UserNext
    PROVE  OrderInv'
<1>0. DOMAIN count = {"calls", "trouble", "audio"}
  BY DEF OrderInv
<1>1. DOMAIN count' = DOMAIN count /\ count'.audio = count.audio
  BY <1>0 DEF UserNext, NodeStart, NodeStop, NodeBuffer, WindowConnect, WindowStart, WindowStop, Asks
<1>2. CASE \E goal \in {"stop", "disconnect"} : WindowStop(goal)
  <2>1. UNCHANGED <<audio, rx, ring>> /\ player' = [player EXCEPT !.on = FALSE]
    BY <1>2 DEF WindowStop
  <2>2. player'.out = player.out /\ player'.heard = player.heard /\ player'.sorted = player.sorted
    BY <2>1
  <2>3. Given' = Given
    BY <1>1, <2>1 DEF Given
  <2> QED
    BY <1>1, <2>1, <2>2, <2>3 DEF OrderInv
<1>3. CASE ~\E goal \in {"stop", "disconnect"} : WindowStop(goal)
  <2>1. UNCHANGED sound
    BY <1>3 DEF UserNext, NodeStart, NodeStop, NodeBuffer, WindowConnect, WindowStart
  <2> QED
    BY <1>1, <2>1, OrderKept DEF sound
<1> QED
  BY <1>2, <1>3

LEMMA OrderCall ==
    ASSUME OrderInv, A2dpInv, HostNext
    PROVE  OrderInv'
<1>0. DOMAIN count = {"calls", "trouble", "audio"} /\ DOMAIN rx = DOMAIN NoRx /\ DOMAIN player = {"on", "out", "heard", "sorted"}
  BY DEF OrderInv, A2dpInv, SinkInv
<1>1. DOMAIN count' = DOMAIN count /\ count'.audio = count.audio
  BY <1>0 DEF HostNext, EnsureAclConnection, ConnectSignaling, OpenMediaChannel, SpawnThread, SendSignal, SendSignalFails,
              RecvSignal, RecvSignalFails, Fails, CloseSockets, StartPlayer, JoinThread, SendAudio
<1>2. CASE SendSignalFails \/ RecvSignalFails \/ RecvSignal
  <2>1. UNCHANGED <<audio, rx, player>> /\ ring' = IF StopDone THEN NoRing ELSE ring
    BY <1>2 DEF SendSignalFails, RecvSignalFails, RecvSignal, Fails
  <2>2. StopDone => ~host.streaming /\ host.at # "join"
    BY DEF StopDone, A2dpInv, SinkInv
  <2> QED
    BY <1>1, <2>1, <2>2, OrderCleared
<1>3. CASE CloseSockets
  <2>1. UNCHANGED <<rx, player>> /\ ring' = NoRing /\ audio' = <<>> /\ host.at = "sockets"
    BY <1>3 DEF CloseSockets
  <2>2. ~host.streaming /\ host.at # "join"
    BY <2>1 DEF A2dpInv, SinkInv
  <2> QED
    BY <1>1, <2>1, <2>2, OrderCleared
<1>4. CASE \E made \in BOOLEAN : OpenMediaChannel(made)
  <2>1. UNCHANGED <<rx, ring, player>> /\ audio' = <<>>
    BY <1>4 DEF OpenMediaChannel
  <2> QED
    BY <1>1, <2>1, OrderCleared
<1>5. CASE StartPlayer
  <2>1. UNCHANGED <<audio, rx, ring>> /\ player' = [player EXCEPT !.on = TRUE]
    BY <1>5 DEF StartPlayer
  <2>2. player'.out = player.out /\ player'.heard = player.heard /\ player'.sorted = player.sorted
    BY <1>0, <2>1
  <2>3. Given' = Given
    BY <1>1, <2>1 DEF Given
  <2> QED
    BY <1>1, <2>1, <2>2, <2>3 DEF OrderInv
<1>6. CASE JoinThread \/ \E made \in BOOLEAN : SpawnThread(made)
  <2>1. UNCHANGED <<audio, ring, player>> /\ rx.left = <<>> /\ ~rx.written
    BY <1>6 DEF JoinThread, SpawnThread, A2dpInv, SinkInv
  <2>2. rx'.left = <<>> /\ ~rx'.written
    BY <1>0, <1>6, <2>1 DEF JoinThread, SpawnThread, NoRx
  <2>3. Given' = Given
    BY <1>1, <2>1 DEF Given
  <2> QED
    BY <1>1, <2>1, <2>2, <2>3 DEF OrderInv
<1>7. CASE SendSignal \/ SendAudio \/ \E made \in BOOLEAN : EnsureAclConnection(made) \/ ConnectSignaling(made)
  <2>1. UNCHANGED sound
    BY <1>7 DEF SendSignal, SendAudio, EnsureAclConnection, ConnectSignaling
  <2> QED
    BY <1>1, <2>1, OrderKept DEF sound
<1> QED
  BY <1>2, <1>3, <1>4, <1>5, <1>6, <1>7 DEF HostNext

LEMMA OrderStarts == Init => OrderInv
<1> SUFFICES ASSUME Init PROVE OrderInv
  OBVIOUS
<1>1. /\ audio = <<>> /\ rx = NoRx /\ ring = NoRing /\ count = [calls |-> 0, trouble |-> 0, audio |-> 0]
      /\ player = [on |-> FALSE, out |-> -1, heard |-> 0, sorted |-> TRUE]
  BY DEF Init, A2dpInit
<1>2. Given = 0 /\ 0 * PerPacket = 0
  BY <1>1, A2dpAssumption DEF Given
<1>3. IsRing(NoRing) /\ NoRing.read = 0 /\ NoRing.write = 0
  BY A2dpAssumption DEF IsRing, NoRing, Slot
<1>4. \A s \in Slot : ~Filled(NoRing, s)
  BY <1>3, A2dpAssumption DEF Filled, Behind, Slot
<1>5. Ordered(NoRing, <<>>, 0, 0)
  BY <1>3, <1>4 DEF Ordered, Rising
<1> QED
  BY <1>1, <1>2, <1>5 DEF OrderInv, NoRx

\* The player's window: the sound player plays the samples in the order in which
\* the peer sent them, and none twice, for any ring, packets and bounds.
THEOREM SamplesInOrder == Spec => []PlayedInOrder
<1>1. Init => OrderInv /\ A2dpInv
  BY OrderStarts, A2dpStarts
<1>2. OrderInv /\ A2dpInv /\ [Next]_vars => (OrderInv /\ A2dpInv)'
  <2> SUFFICES ASSUME OrderInv, A2dpInv, [Next]_vars PROVE OrderInv'
    BY StepOfEach, A2dpStep
  <2>1. CASE UNCHANGED a2dpVars
    BY <2>1, OrderKept DEF a2dpVars, sound
  <2>2. CASE A2dpNext
    BY <2>2, OrderUser, OrderCall, OrderRx, OrderPlayer, OrderPeer DEF A2dpNext
  <2> QED
    BY <2>1, <2>2, StepOfEach
<1>3. OrderInv => PlayedInOrder
  BY DEF OrderInv, PlayedInOrder
<1> QED
  BY <1>1, <1>2, <1>3, PTL DEF Spec

----------------------------------------------------------------------------
\* A2dpSource, A2dpSink and the peer: the stream

\* The end point that a command names
TargetOf(h) == IF h.seid # 0 THEN h.seid ELSE h.index

Replies == [type : {"accept", "reject", "command"}, of : 0 .. Len(Seps)]
Commanded(q) == \A i \in 1 .. Len(q) : q[i].type = "command"
Answered(q, t) == \E i \in 1 .. Len(q) : q[i].type = t /\ \A j \in 1 .. Len(q) : j # i => q[j].type = "command"

Agrees(h, p) == p.stream[TargetOf(h)] \in {"open", "streaming"} /\ p.config = h.config

\* What the peer has before it has carried out the command of h, and after
Before(h, p) ==
    /\ h.at \in {"discover", "caps", "config"} => p.stream = AllIdle
    /\ h.at = "open" => p.stream[TargetOf(h)] = "configured" /\ p.config = h.config
    /\ h.at \in {"start", "suspend"} => Agrees(h, p)
Done(h, p) ==
    /\ h.at \in {"discover", "caps"} => p.stream = AllIdle
    /\ h.at = "config" => p.stream[TargetOf(h)] = "configured" /\ p.config = ConfigFor(h.offer)
    /\ h.at = "open" => p.stream[TargetOf(h)] = "open" /\ p.config = h.config
    /\ h.at = "start" => p.stream[TargetOf(h)] = "streaming" /\ p.config = h.config /\ p.packets = 0 /\ p.frames = 0
    /\ h.at = "suspend" => Agrees(h, p)

\* A command is still to be sent, on its way, answered or refused.
Lockstep ==
    /\ toHost \in Seq(Replies)
    /\ \/ ~host.sent /\ toPeer = <<>> /\ Commanded(toHost) /\ Before(host, peer)
       \/ host.sent /\ toPeer = <<Signal>> /\ Commanded(toHost) /\ Before(host, peer)
       \/ host.sent /\ toPeer = <<>> /\ Answered(toHost, "accept") /\ Done(host, peer)
       \/ host.sent /\ toPeer = <<>> /\ Answered(toHost, "reject") /\ Before(host, peer)

Quiet == toPeer = <<>> /\ toHost \in Seq(Replies) /\ Commanded(toHost)
Settled ==
    /\ Agrees(host, peer)
    /\ host.streaming \/ host.at = "thread" => peer.stream[TargetOf(host)] = "streaming"
    /\ host.streaming /\ role = "source" => rtp = [seq |-> peer.packets, time |-> peer.frames]

\* No answer has been missed and none of the channels that are needed is closed.
InTouch == peer.signaling /\ ~astray /\ (host.connected => peer.media)
\* The calls in which a step does what the peer's part in it allows
Tracked(h) == h.at \in {"discover", "caps", "config", "open", "start"} \/ (h.at = "suspend" /\ h.goal = "stop")
Resting(h) == (h.at = "idle" /\ h.connected) \/ h.at \in {"audio", "thread", "player", "join"}

InStep ==
    /\ Tracked(host) => Lockstep
    /\ host.at = "media" => Quiet /\ peer.stream[TargetOf(host)] = "open" /\ peer.config = host.config
    /\ Resting(host) => Quiet /\ Settled

Shape(h) ==
    /\ DOMAIN h = DOMAIN NoHost
    /\ h.seid \in 0 .. Len(Seps) /\ h.index \in 0 .. Len(Seps)
    /\ h.connected \/ h.at \in {"config", "open", "media"} => h.seid # 0
    /\ h.at = "caps" => h.index # 0 /\ (role = "sink" => h.seid # 0)
    /\ h.at \notin Commands => ~h.sent

PeerShape ==
    /\ DOMAIN peer.stream = DOMAIN Seps
    /\ peer.media => host.connected
    /\ ~peer.signaling => toPeer = <<>> /\ peer.stream = AllIdle

StreamInv == Shape(host) /\ PeerShape /\ (InTouch => InStep)

\* Answers and commands in the queue to the host
LEMMA ReplyAdded ==
    ASSUME NEW q \in Seq(Replies), Commanded(q), NEW a \in Replies
    PROVE  /\ Append(q, a) \in Seq(Replies)
           /\ (a.type = "command" => Commanded(Append(q, a)))
           /\ \A t : a.type = t => Answered(Append(q, a), t)
<1>1. /\ Append(q, a) \in Seq(Replies) /\ Len(Append(q, a)) = Len(q) + 1 /\ Len(q) \in Nat
      /\ \A i \in 1 .. Len(q) : Append(q, a)[i] = q[i]
      /\ Append(q, a)[Len(q) + 1] = a
  BY AppendProperties
<1>2. ASSUME a.type = "command" PROVE Commanded(Append(q, a))
  BY <1>1, <1>2 DEF Commanded
<1>3. ASSUME NEW t, a.type = t PROVE Answered(Append(q, a), t)
  <2>1. \A j \in 1 .. Len(q) + 1 : j # Len(q) + 1 => j \in 1 .. Len(q)
    BY <1>1
  <2>2. Len(q) + 1 \in 1 .. Len(q) + 1
    BY <1>1
  <2> QED
    BY <1>1, <1>3, <2>1, <2>2 DEF Answered, Commanded
<1> QED
  BY <1>1, <1>2, <1>3

LEMMA ReplyKept ==
    ASSUME NEW q \in Seq(Replies), NEW t, Answered(q, t), NEW a \in Replies, a.type = "command"
    PROVE  Append(q, a) \in Seq(Replies) /\ Answered(Append(q, a), t)
<1>2. /\ Append(q, a) \in Seq(Replies) /\ Len(Append(q, a)) = Len(q) + 1 /\ Len(q) \in Nat
      /\ \A i \in 1 .. Len(q) : Append(q, a)[i] = q[i]
      /\ Append(q, a)[Len(q) + 1] = a
  BY AppendProperties
<1>3. PICK i \in 1 .. Len(q) : q[i].type = t /\ \A j \in 1 .. Len(q) : j # i => q[j].type = "command"
  BY DEF Answered
<1>4. i \in 1 .. Len(q) + 1 /\ Append(q, a)[i].type = t
  BY <1>2, <1>3
<1>5. ASSUME NEW j \in 1 .. Len(q) + 1, j # i PROVE Append(q, a)[j].type = "command"
  <2>1. CASE j = Len(q) + 1
    BY <1>2, <2>1
  <2>2. CASE j \in 1 .. Len(q)
    BY <1>2, <1>3, <1>5, <2>2
  <2> QED
    BY <1>2, <2>1, <2>2
<1> QED
  BY <1>2, <1>4, <1>5 DEF Answered

LEMMA ReplyTaken ==
    ASSUME NEW q \in Seq(Replies), q # <<>>, Head(q).type # "command"
    PROVE  /\ ~Commanded(q)
           /\ \A t : Answered(q, t) => Head(q).type = t /\ Tail(q) \in Seq(Replies) /\ Commanded(Tail(q))
<1>1. /\ Len(q) \in Nat \ {0} /\ Head(q) = q[1] /\ Tail(q) \in Seq(Replies) /\ Len(Tail(q)) = Len(q) - 1
      /\ \A i \in 1 .. Len(Tail(q)) : Tail(q)[i] = q[i + 1]
  BY HeadTailProperties, EmptySeq
<1>2. 1 \in 1 .. Len(q) /\ q[1].type # "command"
  BY <1>1
<1>3. ASSUME NEW t, Answered(q, t) PROVE Head(q).type = t /\ Commanded(Tail(q))
  <2>1. PICK i \in 1 .. Len(q) : q[i].type = t /\ \A j \in 1 .. Len(q) : j # i => q[j].type = "command"
    BY <1>3 DEF Answered
  <2>2. i = 1
    BY <1>2, <2>1
  <2>3. \A j \in 1 .. Len(Tail(q)) : j + 1 \in 1 .. Len(q) /\ j + 1 # 1
    BY <1>1
  <2> QED
    BY <1>1, <2>1, <2>2, <2>3 DEF Commanded
<1> QED
  BY <1>1, <1>2, <1>3 DEF Commanded

----------------------------------------------------------------------------
\* Where a call goes on, and with which end point

LEMMA GoToIs ==
    ASSUME NEW h, DOMAIN h = DOMAIN NoHost, NEW at
    PROVE  LET g == GoTo(h, at)
           IN  /\ DOMAIN g = DOMAIN NoHost /\ g.at = at /\ ~g.sent
               /\ g.goal = h.goal /\ g.index = h.index /\ g.seid = h.seid /\ g.offer = h.offer /\ g.config = h.config
               /\ g.connected = h.connected /\ g.media = h.media /\ g.streaming = h.streaming
BY DEF GoTo, NoHost

\* A call that gives up, or tries the end points from the i-th on
LEMMA GiveUpIs ==
    ASSUME NEW h, DOMAIN h = DOMAIN NoHost
    PROVE  LET g == GiveUp(h)
           IN  /\ DOMAIN g = DOMAIN NoHost /\ g.at \in {"close", "sockets"} /\ ~g.sent
               /\ g.index = h.index /\ g.seid = h.seid /\ g.connected = h.connected
<1> DEFINE k == [h EXCEPT !.goal = "disconnect"]
<1>1. /\ DOMAIN k = DOMAIN NoHost /\ k.index = h.index /\ k.seid = h.seid /\ k.connected = h.connected
  BY DEF NoHost
<1>2. GiveUp(h) \in {GoTo(k, "close"), GoTo(k, "sockets")}
  BY DEF GiveUp
<1> HIDE DEF k
<1> QED
  BY <1>1, <1>2, GoToIs

LEMMA TryFromIs ==
    ASSUME NEW h, DOMAIN h = DOMAIN NoHost, h.index \in 0 .. Len(Seps), NEW i \in Nat \ {0}
    PROVE  LET g == TryFrom(h, i)
           IN  /\ DOMAIN g = DOMAIN NoHost /\ ~g.sent /\ g.connected = h.connected
               /\ g.seid \in 0 .. Len(Seps) /\ g.index \in 0 .. Len(Seps)
               /\ \/ g.at \in {"close", "sockets"}
                  \/ g.at = "caps" /\ g.index # 0 /\ (role = "sink" => g.seid # 0)
<1>1. CASE CandidatesFrom(i) = {}
  <2> DEFINE k == [h EXCEPT !.seid = 0]
  <2>1. DOMAIN k = DOMAIN NoHost /\ k.index = h.index /\ k.seid = 0 /\ k.connected = h.connected
    BY DEF NoHost
  <2>2. TryFrom(h, i) = GiveUp(k)
    BY <1>1 DEF TryFrom
  <2> HIDE DEF k
  <2> QED
    BY <2>1, <2>2, GiveUpIs, A2dpAssumption
<1>2. CASE CandidatesFrom(i) # {}
  <2> DEFINE j == CHOOSE j \in CandidatesFrom(i) : \A m \in CandidatesFrom(i) : j <= m
             s == IF role = "sink" THEN j ELSE 0
             k == [h EXCEPT !.index = j, !.seid = s]
  <2>1. CandidatesFrom(i) \in SUBSET Nat /\ CandidatesFrom(i) \subseteq 1 .. Len(Seps)
    BY A2dpAssumption DEF CandidatesFrom
  <2>2. \E n \in CandidatesFrom(i) : \A m \in CandidatesFrom(i) : n <= m
    BY <1>2, <2>1, LeastNumber
  <2>3. j \in 1 .. Len(Seps)
    BY <2>1, <2>2
  <2>4. TryFrom(h, i) = GoTo(k, "caps")
    BY <1>2 DEF TryFrom
  <2> HIDE DEF j
  <2>5. s \in 0 .. Len(Seps) /\ j \in 0 .. Len(Seps) /\ j # 0 /\ (role = "sink" => s # 0)
    BY <2>3, A2dpAssumption
  <2> HIDE DEF s
  <2>6. DOMAIN k = DOMAIN NoHost /\ k.index = j /\ k.seid = s /\ k.connected = h.connected
    BY DEF NoHost
  <2> HIDE DEF k
  <2> QED
    BY <2>4, <2>5, <2>6, GoToIs
<1> QED
  BY <1>1, <1>2

LEMMA FailureShape ==
    ASSUME NEW h, Shape(h), h.at \in Commands \cup {"media"}, h.at \in Connecting => ~h.connected
    PROVE  Shape(AfterFailure(h)) /\ ~AfterFailure(h).sent
<1> SUFFICES ASSUME NEW g, g = AfterFailure(h) PROVE Shape(g) /\ ~g.sent
  OBVIOUS
<1>0. /\ DOMAIN h = DOMAIN NoHost /\ h.index + 1 \in Nat \ {0}
      /\ h.seid \in 0 .. Len(Seps) /\ h.index \in 0 .. Len(Seps)
  BY A2dpAssumption DEF Shape
<1>1. CASE h.at \in {"caps", "config"} /\ role = "source"
  <2> DEFINE k == [h EXCEPT !.seid = 0]
  <2>1. g = TryFrom(k, h.index + 1)
    BY <1>1 DEF AfterFailure
  <2>2. DOMAIN k = DOMAIN NoHost /\ k.index = h.index /\ k.connected = h.connected
    BY <1>0 DEF NoHost
  <2> HIDE DEF k
  <2>3. /\ DOMAIN g = DOMAIN NoHost /\ ~g.sent /\ ~g.connected
        /\ g.seid \in 0 .. Len(Seps) /\ g.index \in 0 .. Len(Seps)
        /\ \/ g.at \in {"close", "sockets"}
           \/ g.at = "caps" /\ g.index # 0 /\ (role = "sink" => g.seid # 0)
    <3>1. ~k.connected /\ k.index \in 0 .. Len(Seps)
      BY <1>0, <1>1, <2>2 DEF Connecting
    <3>2. h.index + 1 \in Nat \ {0} /\ DOMAIN k = DOMAIN NoHost
      BY <1>0, <2>2
    <3> QED
      BY <2>1, <3>1, <3>2, TryFromIs
  <2> QED
    BY <2>3 DEF Shape
<1>2. CASE h.at \in Connecting /\ ~(h.at \in {"caps", "config"} /\ role = "source")
  <2>1. g = GiveUp(h)
    BY <1>2 DEF AfterFailure, Connecting
  <2>2. /\ DOMAIN g = DOMAIN NoHost /\ g.at \in {"close", "sockets"} /\ ~g.sent
        /\ g.index = h.index /\ g.seid = h.seid /\ g.connected = h.connected
    BY <1>0, <2>1, GiveUpIs
  <2> QED
    BY <1>0, <1>2, <2>2 DEF Shape
<1>3. CASE h.at \in {"start", "suspend"}
  <2>1. g \in {GoTo(h, "idle"), GoTo(h, "close")}
    BY <1>3 DEF AfterFailure
  <2>2. /\ DOMAIN g = DOMAIN NoHost /\ g.at \in {"idle", "close"} /\ ~g.sent
        /\ g.index = h.index /\ g.seid = h.seid /\ g.connected = h.connected
    BY <1>0, <2>1, GoToIs
  <2> QED
    BY <1>0, <2>2 DEF Shape
<1>4. CASE h.at = "close"
  <2> DEFINE k == [h EXCEPT !.media = FALSE]
  <2>1. g = GoTo(k, "sockets")
    BY <1>4 DEF AfterFailure
  <2>2. DOMAIN k = DOMAIN NoHost /\ k.index = h.index /\ k.seid = h.seid /\ k.connected = h.connected
    BY <1>0 DEF NoHost
  <2> HIDE DEF k
  <2>3. /\ DOMAIN g = DOMAIN NoHost /\ g.at = "sockets" /\ ~g.sent
        /\ g.index = h.index /\ g.seid = h.seid /\ g.connected = h.connected
    BY <2>1, <2>2, GoToIs
  <2> QED
    BY <1>0, <2>3 DEF Shape
<1> QED
  BY <1>1, <1>2, <1>3, <1>4 DEF Commands, Connecting

LEMMA SuccessShape ==
    ASSUME NEW h, Shape(h), h.at \in Commands, h.at \in Connecting => ~h.connected, NEW of
    PROVE  Shape(AfterSuccess(h, of)) /\ ~AfterSuccess(h, of).sent
<1> SUFFICES ASSUME NEW g, g = AfterSuccess(h, of) PROVE Shape(g) /\ ~g.sent
  OBVIOUS
<1>0. /\ DOMAIN h = DOMAIN NoHost /\ 1 \in Nat \ {0} /\ h.index + 1 \in Nat \ {0}
      /\ h.seid \in 0 .. Len(Seps) /\ h.index \in 0 .. Len(Seps)
  BY A2dpAssumption DEF Shape
<1>1. CASE h.at = "discover" \/ (h.at = "caps" /\ g = TryFrom(h, h.index + 1))
  <2>1. g \in {TryFrom(h, 1), TryFrom(h, h.index + 1)}
    BY <1>1 DEF AfterSuccess
  <2>2. /\ DOMAIN g = DOMAIN NoHost /\ ~g.sent /\ ~g.connected
        /\ g.seid \in 0 .. Len(Seps) /\ g.index \in 0 .. Len(Seps)
        /\ \/ g.at \in {"close", "sockets"}
           \/ g.at = "caps" /\ g.index # 0 /\ (role = "sink" => g.seid # 0)
    <3>1. ~h.connected
      BY <1>1 DEF Connecting
    <3>2. PICK i \in Nat \ {0} : g = TryFrom(h, i)
      BY <1>0, <2>1
    <3> QED
      BY <1>0, <3>1, <3>2, TryFromIs, ZenonT(40)
  <2> QED
    BY <2>2 DEF Shape
<1>2. CASE h.at = "caps" /\ g # TryFrom(h, h.index + 1)
  <2> DEFINE k == IF role = "sink" THEN h ELSE [h EXCEPT !.offer = of, !.seid = h.index]
  <2>1. g = GoTo(k, "config")
    BY <1>2 DEF AfterSuccess, CapsTaken
  <2>2. DOMAIN k = DOMAIN NoHost /\ k.index = h.index /\ k.seid = (IF role = "sink" THEN h.seid ELSE h.index) /\ k.connected = h.connected
    BY <1>0 DEF NoHost
  <2>3. h.index # 0 /\ (role = "sink" => h.seid # 0) /\ ~h.connected
    BY <1>2 DEF Shape, Connecting
  <2> HIDE DEF k
  <2>4. /\ DOMAIN g = DOMAIN NoHost /\ g.at = "config" /\ ~g.sent
        /\ g.index = h.index /\ g.seid = k.seid /\ g.connected = h.connected
    BY <2>1, <2>2, GoToIs
  <2>5. g.seid \in 0 .. Len(Seps) /\ g.seid # 0
    BY <1>0, <2>2, <2>3, <2>4
  <2> QED
    BY <1>0, <2>3, <2>4, <2>5 DEF Shape
<1>3. CASE h.at = "config"
  <2> DEFINE k == [h EXCEPT !.config = ConfigFor(h.offer)]
  <2>1. g = GoTo(k, "open")
    BY <1>3 DEF AfterSuccess
  <2>2. DOMAIN k = DOMAIN NoHost /\ k.index = h.index /\ k.seid = h.seid /\ k.connected = h.connected
    BY <1>0 DEF NoHost
  <2> HIDE DEF k
  <2>3. /\ DOMAIN g = DOMAIN NoHost /\ g.at = "open" /\ ~g.sent
        /\ g.index = h.index /\ g.seid = h.seid /\ g.connected = h.connected
    BY <2>1, <2>2, GoToIs
  <2> QED
    BY <1>0, <1>3, <2>3 DEF Shape
<1>4. CASE h.at = "open"
  <2>1. g = GoTo(h, "media")
    BY <1>4 DEF AfterSuccess
  <2>2. /\ DOMAIN g = DOMAIN NoHost /\ g.at = "media" /\ ~g.sent
        /\ g.index = h.index /\ g.seid = h.seid /\ g.connected = h.connected
    BY <1>0, <2>1, GoToIs
  <2> QED
    BY <1>0, <1>4, <2>2 DEF Shape
<1>5. CASE h.at = "start"
  <2> DEFINE k == IF role = "sink" THEN h ELSE [h EXCEPT !.streaming = TRUE]
  <2>1. g \in {GoTo(k, "thread"), GoTo(k, "idle")}
    BY <1>5 DEF AfterSuccess
  <2>2. DOMAIN k = DOMAIN NoHost /\ k.index = h.index /\ k.seid = h.seid /\ k.connected = h.connected
    BY <1>0 DEF NoHost
  <2> HIDE DEF k
  <2>3. /\ DOMAIN g = DOMAIN NoHost /\ g.at \in {"thread", "idle"} /\ ~g.sent
        /\ g.index = h.index /\ g.seid = h.seid /\ g.connected = h.connected
    BY <2>1, <2>2, GoToIs
  <2> QED
    BY <1>0, <2>3 DEF Shape
<1>6. CASE h.at \in {"suspend", "close"}
  <2>1. g = AfterFailure(h)
    BY <1>6 DEF AfterSuccess
  <2> QED
    BY <2>1, FailureShape
<1> QED
  BY <1>1, <1>2, <1>3, <1>4, <1>5, <1>6 DEF Commands

----------------------------------------------------------------------------
\* Where a call has come to, no signal being on its way

Placed ==
    /\ Quiet
    /\ Tracked(host) => ~host.sent /\ Before(host, peer)
    /\ host.at = "media" => peer.stream[TargetOf(host)] = "open" /\ peer.config = host.config
    /\ Resting(host) => Settled

LEMMA PlacedInStep ==
    ASSUME Placed'
    PROVE  InStep'
BY DEF Placed, Quiet, InStep, Lockstep

\* A call that gives up asks nothing of the peer.
LEMMA GivenUp ==
    ASSUME Quiet', host'.at \in {"close", "sockets"}
    PROVE  Placed'
BY DEF Placed, Tracked, Resting

\* The answer that is taken is the answer to the command.
LEMMA AnswerIsTaken ==
    ASSUME InStep, RecvSignal, Tracked(host), ~astray'
    PROVE  /\ Quiet'
           /\ \/ host' = AfterSuccess(host, Head(toHost).of) /\ Done(host, peer)
              \/ host' = AfterFailure(host) /\ Before(host, peer)
<1>1. /\ toHost \in Seq(Replies) /\ toHost # <<>> /\ Head(toHost).type # "command" /\ host.sent
      /\ toPeer' = toPeer /\ toHost' = Tail(toHost)
      /\ host' = IF Accepted(Head(toHost).type) THEN AfterSuccess(host, Head(toHost).of) ELSE AfterFailure(host)
  BY DEF InStep, Lockstep, RecvSignal
<1>2. PICK t \in {"accept", "reject"} :
          toPeer = <<>> /\ Answered(toHost, t) /\ IF t = "accept" THEN Done(host, peer) ELSE Before(host, peer)
  BY <1>1, ReplyTaken DEF InStep, Lockstep
<1>3. Head(toHost).type = t /\ Tail(toHost) \in Seq(Replies) /\ Commanded(Tail(toHost))
  BY <1>1, <1>2, ReplyTaken
<1>4. Quiet'
  BY <1>1, <1>2, <1>3 DEF Quiet, Commanded
<1> QED
  BY <1>1, <1>2, <1>3, <1>4 DEF Accepted

LEMMA StoppedIs ==
    ASSUME NEW h, DOMAIN h = DOMAIN NoHost
    PROVE  /\ h.at = "start" => AfterFailure(h) = GoTo(h, "idle")
           /\ h.at = "suspend" /\ h.goal = "stop" => AfterFailure(h) = GoTo(h, "idle")
<1>1. ASSUME h.at = "start" PROVE AfterFailure(h) = GoTo(h, "idle")
  BY <1>1 DEF AfterFailure
<1>2. ASSUME h.at = "suspend", h.goal = "stop" PROVE AfterFailure(h) = GoTo(h, "idle")
  BY <1>2 DEF AfterFailure
<1> QED
  BY <1>1, <1>2

LEMMA FailurePlaced ==
    ASSUME A2dpInv, Shape(host), host.at \in Commands, Tracked(host), Quiet', role' = role, Before(host, peer), host' = AfterFailure(host),
           peer'.stream = peer.stream, peer'.config = peer.config
    PROVE  Placed'
<1>0. /\ DOMAIN host = DOMAIN NoHost /\ host.index + 1 \in Nat \ {0} /\ host.index \in 0 .. Len(Seps)
  BY A2dpAssumption DEF Shape
<1>1. CASE host.at \in {"caps", "config"} /\ role = "source"
  <2> DEFINE k == [host EXCEPT !.seid = 0]
  <2>1. host' = TryFrom(k, host.index + 1)
    BY <1>1 DEF AfterFailure
  <2>2. DOMAIN k = DOMAIN NoHost /\ k.index = host.index /\ k.index \in 0 .. Len(Seps)
    BY <1>0 DEF NoHost
  <2> HIDE DEF k
  <2>3. ~host'.sent /\ host'.at \in {"caps", "close", "sockets"}
    BY <1>0, <2>1, <2>2, TryFromIs
  <2>4. peer'.stream = AllIdle
    BY <1>1 DEF Before
  <2> QED
    BY <2>3, <2>4 DEF Placed, Tracked, Resting, Before, AllIdle
<1>2. CASE host.at \in Connecting /\ ~(host.at \in {"caps", "config"} /\ role = "source")
  <2>1. host' = GiveUp(host)
    BY <1>2 DEF AfterFailure, Connecting
  <2> QED
    BY <1>0, <2>1, GiveUpIs, GivenUp
<1>3. CASE host.at = "start" \/ (host.at = "suspend" /\ host.goal = "stop")
  <2>1. AfterFailure(host) = GoTo(host, "idle")
    BY <1>0, <1>3, StoppedIs
  <2>2. /\ host'.at = "idle" /\ ~host'.sent /\ host'.seid = host.seid /\ host'.index = host.index
        /\ host'.config = host.config /\ host'.streaming = host.streaming
    BY <1>0, <2>1, GoToIs
  <2>3. ~host.streaming
    BY <1>3 DEF A2dpInv, SinkInv
  <2>4. Agrees(host, peer)
    BY <1>3 DEF Before
  <2>5. Settled'
    BY <2>2, <2>3, <2>4 DEF Settled, Agrees, TargetOf
  <2> QED
    BY <2>2, <2>5 DEF Placed, Tracked, Resting
<1> QED
  BY <1>1, <1>2, <1>3 DEF Tracked, Connecting

LEMMA SuccessPlaced ==
    ASSUME A2dpInv, Shape(host), host.at \in Commands, Tracked(host), Quiet', role' = role, Done(host, peer),
           NEW of, host' = AfterSuccess(host, of),
           peer'.stream = peer.stream, peer'.config = peer.config, peer'.packets = peer.packets, peer'.frames = peer.frames,
           host'.streaming /\ ~host.streaming => rtp' = [seq |-> 0, time |-> 0]
    PROVE  Placed'
<1>0. /\ DOMAIN host = DOMAIN NoHost /\ 1 \in Nat \ {0} /\ host.index + 1 \in Nat \ {0} /\ host.index \in 0 .. Len(Seps)
  BY A2dpAssumption DEF Shape
<1>1. CASE host.at \in {"discover", "caps"}
  <2>1. peer'.stream = AllIdle
    BY <1>1 DEF Done
  <2>2. ~host'.sent /\ host'.at \in {"caps", "config", "close", "sockets"}
    <3>1. CASE host' \in {TryFrom(host, 1), TryFrom(host, host.index + 1)}
      <4>1. PICK i \in Nat \ {0} : host' = TryFrom(host, i)
        BY <1>0, <3>1
      <4> QED
        <5>1. ~TryFrom(host, i).sent /\ TryFrom(host, i).at \in {"caps", "close", "sockets"}
          BY <1>0, TryFromIs
        <5> QED
          BY <4>1, <5>1
    <3>2. CASE host' = GoTo(host, "config")
      BY <1>0, <3>2, GoToIs
    <3>3. CASE host' = GoTo([host EXCEPT !.offer = of, !.seid = host.index], "config")
      <4> DEFINE k == [host EXCEPT !.offer = of, !.seid = host.index]
      <4>1. DOMAIN k = DOMAIN NoHost /\ host' = GoTo(k, "config")
        BY <1>0, <3>3
      <4> HIDE DEF k
      <4> QED
        BY <4>1, GoToIs
    <3> QED
      BY <1>1, <3>1, <3>2, <3>3 DEF AfterSuccess, CapsTaken
  <2> QED
    BY <2>1, <2>2 DEF Placed, Tracked, Resting, Before, AllIdle
<1>2. CASE host.at = "config"
  <2> DEFINE k == [host EXCEPT !.config = ConfigFor(host.offer)]
  <2>1. host' = GoTo(k, "open")
    BY <1>2 DEF AfterSuccess
  <2>2. DOMAIN k = DOMAIN NoHost /\ k.index = host.index /\ k.seid = host.seid /\ k.config = ConfigFor(host.offer)
    BY <1>0 DEF NoHost
  <2> HIDE DEF k
  <2>3. /\ host'.at = "open" /\ ~host'.sent /\ host'.seid = host.seid /\ host'.index = host.index
        /\ host'.config = ConfigFor(host.offer)
    BY <2>1, <2>2, GoToIs
  <2>4. TargetOf(host') = TargetOf(host)
    BY <2>3 DEF TargetOf
  <2>5. peer.stream[TargetOf(host)] = "configured" /\ peer.config = ConfigFor(host.offer)
    BY <1>2 DEF Done
  <2> QED
    BY <2>3, <2>4, <2>5 DEF Placed, Tracked, Resting, Before
<1>3. CASE host.at = "open"
  <2>1. host' = GoTo(host, "media")
    BY <1>3 DEF AfterSuccess
  <2>2. /\ host'.at = "media" /\ ~host'.sent /\ host'.seid = host.seid /\ host'.index = host.index
        /\ host'.config = host.config
    BY <1>0, <2>1, GoToIs
  <2>3. TargetOf(host') = TargetOf(host)
    BY <2>2 DEF TargetOf
  <2>4. peer.stream[TargetOf(host)] = "open" /\ peer.config = host.config
    BY <1>3 DEF Done
  <2> QED
    BY <2>2, <2>3, <2>4 DEF Placed, Tracked, Resting
<1>4. CASE host.at = "start"
  <2> DEFINE k == IF role = "sink" THEN host ELSE [host EXCEPT !.streaming = TRUE]
  <2>1. host' \in {GoTo(k, "thread"), GoTo(k, "idle")}
    BY <1>4 DEF AfterSuccess
  <2>2. DOMAIN k = DOMAIN NoHost /\ k.index = host.index /\ k.seid = host.seid /\ k.config = host.config
    BY <1>0 DEF NoHost
  <2>3. role = "sink" => k = host
    OBVIOUS
  <2> HIDE DEF k
  <2>4. /\ host'.at \in {"thread", "idle"} /\ ~host'.sent /\ host'.seid = host.seid /\ host'.index = host.index
        /\ host'.config = host.config /\ host'.streaming = k.streaming
    BY <2>1, <2>2, GoToIs
  <2>5. TargetOf(host') = TargetOf(host)
    BY <2>4 DEF TargetOf
  <2>6. /\ peer.stream[TargetOf(host)] = "streaming" /\ peer.config = host.config
        /\ peer.packets = 0 /\ peer.frames = 0
    BY <1>4 DEF Done
  <2>7. ~host.streaming
    BY <1>4 DEF A2dpInv, SinkInv
  <2>8. host'.streaming /\ role' = "source" => rtp' = [seq |-> peer'.packets, time |-> peer'.frames]
    BY <2>6, <2>7
  <2>9. Settled'
    BY <2>4, <2>5, <2>6, <2>8 DEF Settled, Agrees
  <2> QED
    BY <2>4, <2>9 DEF Placed, Tracked, Resting
<1>5. CASE host.at = "suspend"
  <2>1. host' = AfterFailure(host) /\ Before(host, peer)
    BY <1>5 DEF AfterSuccess, Done, Before
  <2> QED
    BY <2>1, FailurePlaced
<1> QED
  BY <1>1, <1>2, <1>3, <1>4, <1>5 DEF Tracked

\* Nobody waits any more for an answer of which nothing has come.
LEMMA StreamAnswered ==
    ASSUME A2dpInv, StreamInv, SendSignalFails \/ RecvSignalFails \/ RecvSignal
    PROVE  StreamInv'
<1>0. /\ Shape(host) /\ PeerShape /\ DOMAIN peer = DOMAIN PeerGone /\ host.at \in Commands
      /\ host.at \in Connecting => ~host.connected
  BY DEF StreamInv, A2dpInv, HostInv, SendSignalFails, RecvSignalFails, RecvSignal
<1>1. /\ role' = role /\ toPeer' = toPeer /\ peer' = [peer EXCEPT !.media = @ /\ host'.media]
      /\ (host' = AfterFailure(host) \/ \E of : host' = AfterSuccess(host, of))
  BY DEF SendSignalFails, RecvSignalFails, RecvSignal, Fails
<1>2. /\ peer'.stream = peer.stream /\ peer'.config = peer.config /\ peer'.packets = peer.packets /\ peer'.frames = peer.frames
      /\ peer'.signaling = peer.signaling /\ peer'.media = (peer.media /\ host'.media)
  BY <1>0, <1>1 DEF PeerGone
<1>3. Shape(host') /\ ~host'.sent
  BY <1>0, <1>1, FailureShape, SuccessShape
<1>4. host'.connected = host.connected /\ DOMAIN host = DOMAIN NoHost
  BY <1>0, <1>1, FailureOnward, SuccessOnward DEF Onward, Shape
<1>5. PeerShape'
  BY <1>0, <1>1, <1>2, <1>4 DEF PeerShape, AllIdle
<1>6. Shape(host)'
  BY <1>1, <1>3 DEF Shape
<1>7. ASSUME InTouch' PROVE InStep'
  <2>1. RecvSignal /\ InTouch
    <3>1. ~astray' /\ peer.signaling /\ (host.connected => peer.media)
      BY <1>2, <1>4, <1>7 DEF InTouch
    <3> QED
      BY <3>1 DEF InTouch, SendSignalFails, RecvSignalFails, RecvSignal
  <2>2. InStep /\ ~astray'
    BY <1>7, <2>1 DEF StreamInv, InTouch
  <2>3. CASE Tracked(host)
    <3>1. /\ Quiet'
          /\ \/ host' = AfterSuccess(host, Head(toHost).of) /\ Done(host, peer)
             \/ host' = AfterFailure(host) /\ Before(host, peer)
      BY <2>1, <2>2, <2>3, AnswerIsTaken
    <3>2. host'.streaming /\ ~host.streaming => rtp' = [seq |-> 0, time |-> 0]
      BY <2>1 DEF RecvSignal
    <3>3. Placed'
      BY <1>0, <1>1, <1>2, <2>3, <3>1, <3>2, FailurePlaced, SuccessPlaced
    <3> QED
      BY <3>3, PlacedInStep
  <2>4. CASE ~Tracked(host)
    <3>1. host.at = "close" \/ (host.at = "suspend" /\ host.goal # "stop")
      BY <1>0, <2>4 DEF Tracked, Commands
    <3>2. host' = AfterFailure(host)
      BY <1>1, <3>1 DEF AfterSuccess
    <3>3. host' \in {GoTo(host, "close"), GoTo([host EXCEPT !.media = FALSE], "sockets")}
      BY <3>1, <3>2 DEF AfterFailure
    <3>4. host'.at \in {"close", "sockets"}
      <4>1. DOMAIN [host EXCEPT !.media = FALSE] = DOMAIN NoHost
        BY <1>4
      <4> QED
        BY <1>4, <3>3, <4>1, GoToIs
    <3> QED
      BY <3>4 DEF InStep, Tracked, Resting
  <2> QED
    BY <2>3, <2>4
<1> QED
  BY <1>5, <1>6, <1>7 DEF StreamInv

----------------------------------------------------------------------------
\* Steps that ask nothing of the peer

\* The call keeps its end point, its configuration and its channels.
KeepsStream(h, g) ==
    /\ DOMAIN g = DOMAIN NoHost /\ ~g.sent
    /\ g.seid = h.seid /\ g.index = h.index /\ g.config = h.config /\ g.connected = h.connected

LEMMA StreamRests ==
    ASSUME A2dpInv, StreamInv, KeepsStream(host, host'), UNCHANGED <<role, rtp, peer, signals>>, Resting(host),
           host'.at \in {"idle", "audio", "player", "join", "start", "suspend", "close"},
           host'.streaming => host.streaming \/ host.at = "thread"
    PROVE  StreamInv'
<1>1. Shape(host) /\ PeerShape /\ host.connected /\ UNCHANGED <<toPeer, toHost, astray>>
  BY DEF StreamInv, Resting, A2dpInv, HostInv, SinkInv, Streaming, signals
<1>2. Shape(host)' /\ PeerShape'
  BY <1>1 DEF KeepsStream, Shape, PeerShape, AllIdle
<1>3. ASSUME InTouch' PROVE InStep'
  <2>1. Quiet /\ Settled
    BY <1>1, <1>3 DEF StreamInv, InStep, InTouch, KeepsStream
  <2>2. TargetOf(host') = TargetOf(host) /\ Quiet'
    BY <1>1, <2>1 DEF KeepsStream, TargetOf, Quiet, Commanded
  <2>3. Agrees(host', peer')
    BY <2>1, <2>2 DEF Settled, Agrees, KeepsStream
  <2>4. Settled'
    <3>1. host.at = "thread" => role = "sink"
      BY DEF A2dpInv, HostInv
    <3>2. host'.streaming \/ host'.at = "thread" => peer'.stream[TargetOf(host')] = "streaming"
      BY <2>1, <2>2 DEF Settled
    <3>3. host'.streaming /\ role' = "source" => rtp' = [seq |-> peer'.packets, time |-> peer'.frames]
      BY <2>1, <3>1 DEF Settled
    <3> QED
      BY <2>3, <3>2, <3>3 DEF Settled
  <2>5. Placed'
    BY <2>2, <2>3, <2>4 DEF Placed, Tracked, Before, KeepsStream
  <2> QED
    BY <2>5, PlacedInStep
<1> QED
  BY <1>2, <1>3 DEF StreamInv

\* There is no connection yet, or no longer.
LEMMA StreamAway ==
    ASSUME A2dpInv, StreamInv, KeepsStream(host, host'), ~host.connected, host'.at \in {"idle", "acl", "signaling"},
           UNCHANGED <<role, peer, signals>>
    PROVE  StreamInv'
<1>1. Shape(host) /\ PeerShape /\ UNCHANGED <<toPeer, toHost, astray>> /\ ~host'.connected
  BY DEF StreamInv, signals, KeepsStream
<1>2. Shape(host)' /\ PeerShape'
  BY <1>1 DEF KeepsStream, Shape, PeerShape, AllIdle
<1>3. InStep'
  BY <1>1 DEF InStep, Tracked, Resting
<1> QED
  BY <1>2, <1>3 DEF StreamInv

LEMMA StreamUser ==
    ASSUME A2dpInv, StreamInv, UserNext
    PROVE  StreamInv'
<1>0. DOMAIN host = DOMAIN NoHost
  BY DEF A2dpInv, HostInv
<1>1. UNCHANGED <<role, rtp, peer, signals>> /\ host.at = "idle"
  BY DEF UserNext, NodeStart, NodeStop, NodeBuffer, WindowConnect, WindowStart, WindowStop, Asks
<1>2. CASE NodeStart \/ WindowConnect \/ WindowStart
  <2>1. PICK goal : host' = GoTo([host EXCEPT !.goal = goal], IF host.connected THEN "start" ELSE "acl")
    BY <1>2 DEF NodeStart, WindowConnect, WindowStart
  <2>2. /\ KeepsStream(host, host') /\ host'.at = (IF host.connected THEN "start" ELSE "acl")
        /\ host'.streaming = host.streaming
    BY <1>0, <2>1 DEF KeepsStream, GoTo, NoHost
  <2> QED
    BY <1>1, <2>2, StreamRests, StreamAway DEF Resting
<1>3. CASE NodeStop
  <2>1. /\ host.connected
        /\ \E at \in {"suspend", "close"} : host' = GoTo([host EXCEPT !.goal = "disconnect", !.streaming = FALSE], at)
    BY <1>3 DEF NodeStop
  <2>2. KeepsStream(host, host') /\ host'.at \in {"suspend", "close"} /\ ~host'.streaming
    BY <1>0, <2>1 DEF KeepsStream, GoTo, NoHost
  <2> QED
    BY <1>1, <2>1, <2>2, StreamRests DEF Resting
<1>4. CASE \E frames \in 1 .. PacketRoom + 1 : NodeBuffer(frames)
  <2>1. PICK frames : host.streaming /\ host' = GoTo([host EXCEPT !.left = frames], "audio")
    BY <1>4 DEF NodeBuffer
  <2>2. KeepsStream(host, host') /\ host'.at = "audio" /\ host.connected
    BY <1>0, <2>1 DEF KeepsStream, GoTo, NoHost, A2dpInv, SinkInv
  <2> QED
    BY <1>1, <2>1, <2>2, StreamRests DEF Resting
<1>5. CASE \E goal \in {"stop", "disconnect"} : WindowStop(goal)
  <2>1. PICK goal : /\ host.connected
                    /\ host' = IF host.streaming THEN SinkStops([host EXCEPT !.goal = goal]) ELSE GoTo([host EXCEPT !.goal = goal], "close")
    BY <1>5 DEF WindowStop
  <2>2. CASE host.streaming
    <3>1. host' = GoTo([host EXCEPT !.goal = goal, !.streaming = FALSE], "join")
      BY <1>0, <2>1, <2>2 DEF SinkStops
    <3>2. KeepsStream(host, host') /\ host'.at = "join" /\ ~host'.streaming
      BY <1>0, <3>1 DEF KeepsStream, GoTo, NoHost
    <3> QED
      BY <1>1, <2>1, <3>2, StreamRests DEF Resting
  <2>3. CASE ~host.streaming
    <3>1. KeepsStream(host, host') /\ host'.at = "close" /\ host'.streaming = host.streaming
      BY <1>0, <2>1, <2>3 DEF KeepsStream, GoTo, NoHost
    <3> QED
      BY <1>1, <2>1, <3>1, StreamRests DEF Resting
  <2> QED
    BY <2>2, <2>3
<1> QED
  BY <1>2, <1>3, <1>4, <1>5 DEF UserNext

LEMMA StreamThread ==
    ASSUME A2dpInv, StreamInv, StartPlayer \/ JoinThread \/ \E made \in BOOLEAN : SpawnThread(made) \/ EnsureAclConnection(made)
    PROVE  StreamInv'
<1>0. DOMAIN host = DOMAIN NoHost /\ UNCHANGED <<role, rtp, peer, signals>>
  BY DEF A2dpInv, HostInv, StartPlayer, JoinThread, SpawnThread, EnsureAclConnection
<1>1. CASE StartPlayer \/ JoinThread
  <2>1. \E at \in {"idle", "suspend"} : host' = GoTo(host, at)
    BY <1>1 DEF StartPlayer, JoinThread
  <2>2. KeepsStream(host, host') /\ host'.at \in {"idle", "suspend"} /\ host'.streaming = host.streaming
    BY <1>0, <2>1 DEF KeepsStream, GoTo, NoHost
  <2>3. Resting(host)
    BY <1>1 DEF StartPlayer, JoinThread, Resting
  <2> QED
    BY <1>0, <2>2, <2>3, StreamRests
<1>2. CASE \E made \in BOOLEAN : SpawnThread(made)
  <2>1. PICK made : host.at = "thread" /\ host' = [GoTo(host, IF made THEN "player" ELSE "idle") EXCEPT !.streaming = made]
    BY <1>2 DEF SpawnThread
  <2>2. KeepsStream(host, host') /\ host'.at \in {"player", "idle"}
    BY <1>0, <2>1 DEF KeepsStream, GoTo, NoHost
  <2>3. Resting(host)
    BY <2>1 DEF Resting
  <2> QED
    BY <1>0, <2>1, <2>2, <2>3, StreamRests
<1>3. CASE \E made \in BOOLEAN : EnsureAclConnection(made)
  <2>1. host.at = "acl" /\ \E at \in {"signaling", "idle"} : host' = GoTo(host, at)
    BY <1>3 DEF EnsureAclConnection
  <2>2. KeepsStream(host, host') /\ host'.at \in {"signaling", "idle"} /\ ~host.connected
    BY <1>0, <2>1 DEF KeepsStream, GoTo, NoHost, A2dpInv, HostInv
  <2> QED
    BY <1>0, <2>2, StreamAway
<1> QED
  BY <1>1, <1>2, <1>3

----------------------------------------------------------------------------
\* Steps in which the host and the peer have to do with each other

LEMMA StreamSends ==
    ASSUME A2dpInv, StreamInv, SendSignal
    PROVE  StreamInv'
<1>1. /\ Shape(host) /\ PeerShape /\ DOMAIN host = DOMAIN NoHost
      /\ host.at \in Commands /\ ~host.sent /\ peer.signaling
      /\ toPeer' = Append(toPeer, Signal) /\ host' = [host EXCEPT !.sent = TRUE]
      /\ UNCHANGED <<role, rtp, peer, toHost, astray>>
  BY DEF StreamInv, Shape, SendSignal
<1>2. /\ DOMAIN host' = DOMAIN NoHost /\ host'.at = host.at /\ host'.sent /\ host'.goal = host.goal
      /\ host'.seid = host.seid /\ host'.index = host.index /\ host'.offer = host.offer /\ host'.config = host.config
      /\ host'.connected = host.connected /\ host'.streaming = host.streaming
  BY <1>1 DEF NoHost
<1>3. Shape(host)' /\ PeerShape'
  BY <1>1, <1>2 DEF Shape, PeerShape, AllIdle
<1>4. ASSUME InTouch' PROVE InStep'
  <2>1. InTouch /\ InStep
    BY <1>1, <1>2, <1>4 DEF InTouch, StreamInv
  <2>2. host'.at # "media" /\ ~Resting(host')
    BY <1>1, <1>2 DEF Resting, Commands
  <2>3. CASE Tracked(host)
    <3>1. toHost \in Seq(Replies) /\ toPeer = <<>> /\ Commanded(toHost) /\ Before(host, peer)
      BY <1>1, <2>1, <2>3 DEF InStep, Lockstep
    <3>2. TargetOf(host') = TargetOf(host) /\ Signal' = Signal
      BY <1>1, <1>2 DEF TargetOf, Signal, ConfigFor
    <3>3. toPeer' = <<Signal>>'
      BY <1>1, <3>1, <3>2
    <3>4. Before(host', peer')
      BY <1>1, <1>2, <3>1, <3>2 DEF Before, Agrees
    <3>5. Lockstep'
      BY <1>1, <1>2, <3>1, <3>3, <3>4 DEF Lockstep, Commanded, AllIdle
    <3> QED
      BY <2>2, <3>5 DEF InStep
  <2>4. CASE ~Tracked(host)
    BY <1>2, <2>2, <2>4 DEF InStep, Tracked
  <2> QED
    BY <2>3, <2>4
<1> QED
  BY <1>3, <1>4 DEF StreamInv

LEMMA StreamConnects ==
    ASSUME A2dpInv, StreamInv, NEW made \in BOOLEAN, ConnectSignaling(made)
    PROVE  StreamInv'
<1>1. /\ Shape(host) /\ PeerShape /\ DOMAIN host = DOMAIN NoHost /\ DOMAIN peer = DOMAIN PeerGone
      /\ ~host.connected /\ ~peer.signaling /\ ~peer.media
      /\ host' = [GoTo(host, IF made THEN "discover" ELSE "idle") EXCEPT !.signaling = made]
      /\ peer' = [peer EXCEPT !.signaling = made]
      /\ toPeer' = <<>> /\ toHost' = <<>> /\ role' = role
  BY DEF StreamInv, Shape, A2dpInv, HostInv, ConnectSignaling
<1>2. /\ DOMAIN host' = DOMAIN NoHost /\ host'.at = (IF made THEN "discover" ELSE "idle") /\ ~host'.sent
      /\ host'.seid = host.seid /\ host'.index = host.index /\ host'.connected = host.connected
  BY <1>1 DEF GoTo, NoHost
<1>3. peer'.signaling = made /\ peer'.media = peer.media /\ peer'.stream = peer.stream
  BY <1>1 DEF PeerGone
<1>4. Shape(host)'
  BY <1>1, <1>2 DEF Shape
<1>5. PeerShape' /\ peer'.stream = AllIdle'
  BY <1>1, <1>3 DEF PeerShape, AllIdle
<1>6. Quiet'
  BY <1>1 DEF Quiet, Commanded
<1>7. Placed'
  BY <1>1, <1>2, <1>5, <1>6 DEF Placed, Tracked, Resting, Before
<1> QED
  BY <1>4, <1>5, <1>7, PlacedInStep DEF StreamInv

LEMMA StreamOpens ==
    ASSUME A2dpInv, StreamInv, NEW made \in BOOLEAN, OpenMediaChannel(made)
    PROVE  StreamInv'
<1>1. /\ Shape(host) /\ PeerShape /\ DOMAIN host = DOMAIN NoHost /\ DOMAIN peer = DOMAIN PeerGone
      /\ host.at = "media" /\ ~host.connected /\ ~host.streaming
      /\ peer' = [peer EXCEPT !.media = made] /\ UNCHANGED <<role, rtp, toPeer, toHost, astray>>
  BY DEF StreamInv, Shape, A2dpInv, HostInv, SinkInv, OpenMediaChannel, signals, Connecting
<1>2. /\ peer'.signaling = peer.signaling /\ peer'.media = made /\ peer'.stream = peer.stream /\ peer'.config = peer.config
  BY <1>1 DEF PeerGone
<1>3. ASSUME InTouch' PROVE InTouch
  BY <1>1, <1>2, <1>3 DEF InTouch
<1>4. CASE made
  <2>1. host' = [GoTo(host, IF host.goal = "start" THEN "start" ELSE "idle") EXCEPT !.media = TRUE, !.connected = TRUE]
    BY <1>4 DEF OpenMediaChannel
  <2>2. /\ DOMAIN host' = DOMAIN NoHost /\ host'.at \in {"start", "idle"} /\ ~host'.sent /\ host'.connected
        /\ host'.seid = host.seid /\ host'.index = host.index /\ host'.config = host.config /\ host'.streaming = host.streaming
    BY <1>1, <2>1 DEF GoTo, NoHost
  <2>3. Shape(host)' /\ PeerShape'
    BY <1>1, <1>2, <2>2 DEF Shape, PeerShape, AllIdle
  <2>4. ASSUME InTouch' PROVE InStep'
    <3>1. Quiet /\ peer.stream[TargetOf(host)] = "open" /\ peer.config = host.config
      BY <1>1, <1>3, <2>4 DEF StreamInv, InStep
    <3>2. TargetOf(host') = TargetOf(host) /\ Quiet'
      BY <1>1, <2>2, <3>1 DEF TargetOf, Quiet, Commanded
    <3>3. Agrees(host', peer')
      BY <1>2, <2>2, <3>1, <3>2 DEF Agrees
    <3>4. Settled'
      BY <1>1, <2>2, <3>3 DEF Settled
    <3>5. Placed'
      BY <2>2, <3>2, <3>3, <3>4 DEF Placed, Tracked, Before
    <3> QED
      BY <3>5, PlacedInStep
  <2> QED
    BY <2>3, <2>4 DEF StreamInv
<1>5. CASE ~made
  <2>1. host' = GiveUp(host)
    BY <1>5 DEF OpenMediaChannel
  <2>2. /\ DOMAIN host' = DOMAIN NoHost /\ host'.at \in {"close", "sockets"} /\ ~host'.sent
        /\ host'.index = host.index /\ host'.seid = host.seid /\ host'.connected = host.connected
    BY <1>1, <2>1, GiveUpIs
  <2>3. Shape(host)' /\ PeerShape'
    BY <1>1, <1>2, <1>5, <2>2 DEF Shape, PeerShape, AllIdle
  <2>4. InStep'
    BY <2>2 DEF InStep, Tracked, Resting
  <2> QED
    BY <2>3, <2>4 DEF StreamInv
<1> QED
  BY <1>4, <1>5

LEMMA StreamCloses ==
    ASSUME StreamInv, CloseSockets
    PROVE  StreamInv'
<1>1. host' = NoHost /\ peer' = PeerGone /\ toPeer' = <<>>
  BY DEF CloseSockets
<1>2. Shape(host)'
  BY <1>1, A2dpAssumption DEF Shape, NoHost
<1>3. PeerShape'
  BY <1>1 DEF PeerShape, PeerGone, AllIdle
<1>4. ~InTouch'
  BY <1>1 DEF InTouch, PeerGone
<1> QED
  BY <1>2, <1>3, <1>4 DEF StreamInv

\* The source and the peer count the same packets and the same frames.
LEMMA StreamSounds ==
    ASSUME A2dpInv, StreamInv, SendAudio
    PROVE  StreamInv'
<1>1. /\ Shape(host) /\ PeerShape /\ DOMAIN host = DOMAIN NoHost /\ DOMAIN peer = DOMAIN PeerGone
      /\ host.at = "audio" /\ host.connected /\ host.streaming /\ role = "source" /\ ~host.sent
      /\ UNCHANGED <<role, toPeer, toHost, astray>>
  BY DEF StreamInv, Shape, A2dpInv, HostInv, SinkInv, Streaming, SendAudio, signals, Commands
<1>2. PICK left : host' \in {GoTo([host EXCEPT !.left = 0], "idle"), [host EXCEPT !.left = left]}
  BY DEF SendAudio
<1>3. /\ DOMAIN host' = DOMAIN NoHost /\ host'.at \in {"idle", "audio"} /\ ~host'.sent /\ host'.connected /\ host'.streaming
      /\ host'.seid = host.seid /\ host'.index = host.index /\ host'.config = host.config
  BY <1>1, <1>2 DEF GoTo, NoHost
<1>4. /\ peer'.signaling = peer.signaling /\ peer'.media = peer.media /\ peer'.stream = peer.stream /\ peer'.config = peer.config
      /\ DOMAIN peer' = DOMAIN PeerGone
  <2>1. \E n, m : peer' \in {peer, [peer EXCEPT !.packets = n, !.frames = m]}
    BY DEF SendAudio
  <2> QED
    BY <1>1, <2>1 DEF PeerGone
<1>5. Shape(host)' /\ PeerShape'
  BY <1>1, <1>3, <1>4 DEF Shape, PeerShape, AllIdle
<1>6. ASSUME InTouch' PROVE InStep'
  <2>1. peer.media /\ Quiet /\ Settled
    BY <1>1, <1>3, <1>4, <1>6 DEF StreamInv, InStep, InTouch, Resting
  <2>2. TargetOf(host') = TargetOf(host) /\ Quiet'
    BY <1>1, <1>3, <2>1 DEF TargetOf, Quiet, Commanded
  <2>3. rtp' = [seq |-> peer'.packets, time |-> peer'.frames]
    <3> DEFINE frames == LeastOf(host.left, PacketRoom)
    <3>1. /\ rtp' = [seq |-> (rtp.seq + 1) % SeqLimit, time |-> (rtp.time + frames) % SeqLimit]
          /\ peer' = [peer EXCEPT !.packets = (@ + 1) % SeqLimit, !.frames = (@ + frames) % SeqLimit]
      BY <2>1 DEF SendAudio
    <3> HIDE DEF frames
    <3>2. peer'.packets = (peer.packets + 1) % SeqLimit /\ peer'.frames = (peer.frames + frames) % SeqLimit
      BY <1>1, <3>1 DEF PeerGone
    <3>3. rtp.seq = peer.packets /\ rtp.time = peer.frames
      BY <1>1, <2>1 DEF Settled
    <3> QED
      BY <3>1, <3>2, <3>3
  <2>4. Agrees(host', peer') /\ peer'.stream[TargetOf(host')] = "streaming"
    BY <1>1, <1>3, <1>4, <2>1, <2>2 DEF Settled, Agrees
  <2>5. Settled'
    BY <2>3, <2>4 DEF Settled
  <2>6. Placed'
    BY <1>3, <2>2, <2>5 DEF Placed, Tracked
  <2> QED
    BY <2>6, PlacedInStep
<1> QED
  BY <1>5, <1>6 DEF StreamInv

\* What a command does to the peer
LEMMA PeerObeys ==
    ASSUME A2dpInv, StreamInv, DOMAIN peer = DOMAIN PeerGone, PeerAccepts
    PROVE  /\ DOMAIN peer'.stream = DOMAIN peer.stream
           /\ peer'.signaling = peer.signaling /\ peer'.media = peer.media
           /\ InStep /\ Tracked(host) => Done(host, peer')
<1> DEFINE cmd == Head(toPeer)
           p == IF cmd.signal \in DOMAIN BecomesOf THEN [peer EXCEPT !.stream[cmd.sep] = BecomesOf[cmd.signal]] ELSE peer
<1>1. /\ DOMAIN p = DOMAIN PeerGone /\ p.signaling = peer.signaling /\ p.media = peer.media /\ p.config = peer.config
      /\ p.stream = IF cmd.signal \in DOMAIN BecomesOf THEN [peer.stream EXCEPT ![cmd.sep] = BecomesOf[cmd.signal]] ELSE peer.stream
  BY DEF PeerGone
<1>2. /\ toPeer # <<>>
      /\ peer' = CASE cmd.signal = "config" -> [p EXCEPT !.config = cmd.config]
                   [] cmd.signal = "start"  -> [p EXCEPT !.packets = 0, !.frames = 0]
                   [] OTHER -> p
  BY DEF PeerAccepts
<1> HIDE DEF p
<1>3. /\ peer'.signaling = peer.signaling /\ peer'.media = peer.media /\ peer'.stream = p.stream
      /\ cmd.signal = "config" => peer'.config = cmd.config
      /\ cmd.signal # "config" => peer'.config = peer.config
      /\ cmd.signal = "start" => peer'.packets = 0 /\ peer'.frames = 0
  BY <1>1, <1>2 DEF PeerGone
<1> HIDE DEF cmd
<1>4. DOMAIN peer'.stream = DOMAIN peer.stream
  BY <1>1, <1>3
<1>5. ASSUME InStep, Tracked(host) PROVE Done(host, peer')
  <2>1. toPeer = <<Signal>> /\ Before(host, peer)
    BY <1>2, <1>5 DEF InStep, Lockstep
  <2>2. cmd = Signal
    BY <2>1 DEF cmd
  <2>3. cmd.signal = host.at /\ cmd.sep = TargetOf(host) /\ (host.at = "config" => cmd.config = ConfigFor(host.offer))
    BY <2>2 DEF Signal, TargetOf
  <2>4. CASE host.at \in {"discover", "caps"}
    <3>1. peer'.stream = peer.stream
      BY <1>1, <1>3, <2>3, <2>4 DEF BecomesOf
    <3> QED
      BY <2>1, <2>4, <3>1 DEF Before, Done
  <2>5. CASE host.at \in {"config", "open", "start"} \/ (host.at = "suspend" /\ host.goal = "stop")
    <3>1. TargetOf(host) \in DOMAIN peer.stream
      <4>1. host.seid # 0 /\ host.seid \in 0 .. Len(Seps) /\ DOMAIN peer.stream = 1 .. Len(Seps)
        BY <2>5, A2dpAssumption DEF A2dpInv, HostInv, Streaming, StreamInv, Shape, PeerShape
      <4> QED
        BY <4>1, A2dpAssumption DEF TargetOf
    <3>2. peer'.stream = [peer.stream EXCEPT ![TargetOf(host)] = BecomesOf[host.at]]
      BY <1>1, <1>3, <2>3, <2>5 DEF BecomesOf
    <3>3. peer'.stream[TargetOf(host)] = BecomesOf[host.at]
      BY <3>1, <3>2
    <3>4. CASE host.at = "config"
      BY <1>3, <2>3, <3>3, <3>4 DEF Done, BecomesOf
    <3>5. CASE host.at = "open"
      BY <1>3, <2>1, <2>3, <3>3, <3>5 DEF Before, Done, BecomesOf
    <3>6. CASE host.at = "start"
      BY <1>3, <2>1, <2>3, <3>3, <3>6 DEF Before, Done, Agrees, BecomesOf
    <3>7. CASE host.at = "suspend"
      BY <1>3, <2>1, <2>3, <3>3, <3>7 DEF Before, Done, Agrees, BecomesOf
    <3> QED
      BY <2>5, <3>4, <3>5, <3>6, <3>7
  <2> QED
    BY <1>5, <2>4, <2>5 DEF Tracked
<1> QED
  BY <1>3, <1>4, <1>5

\* Steps that have nothing to do with the stream
LEMMA StreamStays ==
    ASSUME StreamInv, UNCHANGED <<role, host, rtp, peer, toPeer, toHost, astray>>
    PROVE  StreamInv'
<1> USE DEF Shape, PeerShape, AllIdle, InTouch, Tracked, Resting, TargetOf
<1>1. Quiet => Quiet'
  BY DEF Quiet, Commanded
<1>2. Settled => Settled'
  BY DEF Settled, Agrees
<1>3. Lockstep => Lockstep'
  BY DEF Lockstep, Commanded, Answered, Before, Done, Agrees, ConfigFor, Signal
<1>4. InStep => InStep'
  BY <1>1, <1>2, <1>3 DEF InStep
<1> QED
  BY <1>4 DEF StreamInv

LEMMA StreamPeer ==
    ASSUME A2dpInv, StreamInv, PeerNext
    PROVE  StreamInv'
<1>0. /\ Shape(host) /\ PeerShape /\ DOMAIN peer = DOMAIN PeerGone /\ UNCHANGED <<role, host, rtp, astray>>
  BY DEF StreamInv, A2dpInv, HostInv, PeerNext, PeerAccepts, PeerRejects, PeerCommands, PeerCloses, PeerPlays, PeerOnly
<1>1. Shape(host)'
  BY <1>0 DEF Shape
<1>2. CASE PeerAccepts \/ PeerRejects
  <2>0. PICK a : /\ toPeer # <<>> /\ toPeer' = Tail(toPeer) /\ toHost' = Append(toHost, a)
                 /\ \/ PeerAccepts /\ a = [type |-> "accept", of |-> IF Head(toPeer).signal = "caps" THEN Head(toPeer).sep ELSE 0]
                    \/ PeerRejects /\ peer' = peer /\ a = [type |-> "reject", of |-> 0]
    BY <1>2 DEF PeerAccepts, PeerRejects
  <2>1. /\ DOMAIN peer'.stream = DOMAIN peer.stream
        /\ peer'.signaling = peer.signaling /\ peer'.media = peer.media
        /\ PeerAccepts /\ InStep /\ Tracked(host) => Done(host, peer')
    BY <1>0, <2>0, PeerObeys
  <2>2. PeerShape'
    BY <1>0, <2>0, <2>1 DEF PeerShape
  <2>3. ASSUME InTouch' PROVE InStep'
    <3>1. InTouch /\ InStep
      BY <1>0, <2>1, <2>3 DEF InTouch, StreamInv
    <3>2. host'.at # "media" /\ ~Resting(host')
      BY <1>0, <2>0, <3>1 DEF InStep, Quiet
    <3>3. ASSUME Tracked(host) PROVE Lockstep'
      <4>1. toPeer = <<Signal>> /\ host.sent /\ Commanded(toHost) /\ toHost \in Seq(Replies) /\ Before(host, peer)
        BY <2>0, <3>1, <3>3 DEF InStep, Lockstep
      <4>2. toPeer' = <<>>
        BY <2>0, <4>1
      <4>3. CASE PeerRejects /\ peer' = peer /\ a = [type |-> "reject", of |-> 0]
        <5>1. a \in Replies /\ a.type = "reject"
          BY <4>3, A2dpAssumption DEF Replies
        <5>2. toHost' \in Seq(Replies) /\ Answered(toHost', "reject")
          BY <2>0, <4>1, <5>1, ReplyAdded
        <5> QED
          BY <1>0, <4>1, <4>2, <4>3, <5>2 DEF Lockstep, Before, Agrees, TargetOf, AllIdle, Answered
      <4>4. CASE PeerAccepts /\ a = [type |-> "accept", of |-> IF Head(toPeer).signal = "caps" THEN Head(toPeer).sep ELSE 0]
        <5>1. Head(toPeer).sep \in 0 .. Len(Seps)
          BY <1>0, <4>1 DEF Signal, Shape
        <5>2. a \in Replies /\ a.type = "accept"
          BY <4>4, <5>1, A2dpAssumption DEF Replies
        <5>3. toHost' \in Seq(Replies) /\ Answered(toHost', "accept")
          BY <2>0, <4>1, <5>2, ReplyAdded
        <5>4. Done(host, peer')
          BY <2>1, <3>1, <3>3, <4>4
        <5>5. Done(host, peer)'
          BY <1>0, <5>4 DEF Done, Agrees, TargetOf, AllIdle, ConfigFor
        <5> QED
          BY <1>0, <4>1, <4>2, <5>3, <5>5 DEF Lockstep, Answered
      <4> QED
        BY <2>0, <4>3, <4>4
    <3> QED
      BY <1>0, <3>2, <3>3 DEF InStep, Tracked
  <2> QED
    BY <1>1, <2>2, <2>3 DEF StreamInv
<1>3. CASE PeerCommands
  <2>1. toHost' = Append(toHost, [type |-> "command", of |-> 0]) /\ UNCHANGED <<peer, toPeer>>
    BY <1>3 DEF PeerCommands
  <2>2. PeerShape'
    BY <1>0, <2>1 DEF PeerShape, AllIdle
  <2>3. ASSUME InTouch' PROVE InStep'
    <3>1. InStep
      BY <1>0, <2>1, <2>3 DEF InTouch, StreamInv
    <3> DEFINE a == [type |-> "command", of |-> 0]
    <3>2. a \in Replies /\ a.type = "command"
      BY A2dpAssumption DEF Replies
    <3> HIDE DEF a
    <3>3. toHost' = Append(toHost, a)
      BY <2>1 DEF a
    <3>4. ASSUME toHost \in Seq(Replies)
          PROVE  /\ toHost' \in Seq(Replies)
                 /\ Commanded(toHost) => Commanded(toHost')
                 /\ \A t : Answered(toHost, t) => Answered(toHost', t)
      <4>1. ASSUME Commanded(toHost) PROVE Commanded(toHost')
        BY <3>2, <3>3, <3>4, <4>1, ReplyAdded
      <4>2. ASSUME NEW t, Answered(toHost, t) PROVE Answered(toHost', t)
        BY <3>2, <3>3, <3>4, <4>2, ReplyKept
      <4>3. toHost' \in Seq(Replies)
        BY <3>2, <3>3, <3>4, AppendProperties
      <4> QED
        BY <4>1, <4>2, <4>3
    <3>5. Quiet => Quiet'
      BY <2>1, <3>4 DEF Quiet, Commanded
    <3>6. Settled => Settled'
      BY <1>0, <2>1 DEF Settled, Agrees, TargetOf
    <3>7. ASSUME Lockstep PROVE Lockstep'
      <4>1. /\ (Before(host, peer) => Before(host, peer)') /\ (Done(host, peer) => Done(host, peer)')
            /\ Signal' = Signal
        BY <1>0, <2>1 DEF Before, Done, Agrees, TargetOf, AllIdle, ConfigFor, Signal
      <4>2. Commanded(toHost) => Commanded(toHost)'
        BY <3>4, <3>7 DEF Commanded, Lockstep
      <4>3. /\ Answered(toHost, "accept") => Answered(toHost, "accept")'
            /\ Answered(toHost, "reject") => Answered(toHost, "reject")'
        BY <3>4, <3>7 DEF Answered, Lockstep
      <4>4. toHost' \in Seq(Replies)
        BY <3>4, <3>7 DEF Lockstep
      <4> QED
        BY <1>0, <2>1, <3>7, <4>1, <4>2, <4>3, <4>4 DEF Lockstep
    <3> QED
      BY <1>0, <2>1, <3>1, <3>5, <3>6, <3>7 DEF InStep, Tracked, Resting, TargetOf
  <2> QED
    BY <1>1, <2>2, <2>3 DEF StreamInv
<1>4. CASE \E both \in BOOLEAN : PeerCloses(both)
  <2>1. PICK both \in BOOLEAN : /\ IF both THEN peer.signaling ELSE peer.media
                                /\ peer' = [PeerGone EXCEPT !.signaling = peer.signaling /\ ~both]
                                /\ toPeer' = IF both THEN <<>> ELSE toPeer
    BY <1>4 DEF PeerCloses
  <2>2. peer'.signaling = (peer.signaling /\ ~both) /\ ~peer'.media /\ peer'.stream = AllIdle
    BY <2>1 DEF PeerGone
  <2>3. PeerShape'
    BY <1>0, <2>1, <2>2 DEF PeerShape, AllIdle
  <2>4. ~InTouch'
    <3>1. CASE both
      BY <2>2, <3>1 DEF InTouch
    <3>2. CASE ~both
      BY <1>0, <2>1, <2>2, <3>2 DEF InTouch, PeerShape
    <3> QED
      BY <3>1, <3>2
  <2> QED
    BY <1>1, <2>3, <2>4 DEF StreamInv
<1>5. CASE PeerPlays
  <2>1. UNCHANGED <<peer, toPeer, toHost>>
    BY <1>5 DEF PeerPlays
  <2> QED
    BY <1>0, <2>1, StreamStays
<1> QED
  BY <1>2, <1>3, <1>4, <1>5 DEF PeerNext

LEMMA StreamStep ==
    ASSUME A2dpInv, StreamInv, A2dpNext \/ UNCHANGED a2dpVars
    PROVE  StreamInv'
<1>1. CASE UNCHANGED a2dpVars \/ RxNext \/ PlayerNext
  <2>1. UNCHANGED <<role, host, rtp, peer, toPeer, toHost, astray>>
    BY <1>1 DEF a2dpVars, RxNext, PlayerNext, RxCheck, RxReceive, RxWrite, RxAdvance, PlayerReads, PlayerAdvances, RxOnly, signals
  <2> QED
    BY <2>1, StreamStays
<1>2. CASE UserNext
  BY <1>2, StreamUser
<1>3. CASE HostNext
  BY <1>3, StreamThread, StreamConnects, StreamOpens, StreamSends, StreamAnswered, StreamCloses, StreamSounds DEF HostNext
<1>4. CASE PeerNext
  BY <1>4, StreamPeer
<1> QED
  BY <1>1, <1>2, <1>3, <1>4 DEF A2dpNext

LEMMA StreamStarts == Init => StreamInv
<1> SUFFICES ASSUME Init PROVE StreamInv
  OBVIOUS
<1>1. host = NoHost /\ peer = PeerGone /\ toPeer = <<>>
  BY DEF Init, A2dpInit
<1>2. Shape(host)
  BY <1>1, A2dpAssumption DEF Shape, NoHost
<1>3. PeerShape /\ ~InTouch
  BY <1>1 DEF PeerShape, PeerGone, AllIdle, InTouch
<1> QED
  BY <1>2, <1>3 DEF StreamInv

\* As long as no answer came late and the peer keeps its channels, host and peer agree
\* on the stream and its configuration; a stream that runs for the host runs for the
\* peer, which need not be so the other way round; and the RTP numbers of the source
\* are those of what has arrived: for any end points and any order of the steps.
THEOREM HostAndPeerAgree == Spec => []StreamAgrees
<1> DEFINE Inv == A2dpInv /\ StreamInv
<1>1. Init => Inv
  BY A2dpStarts, StreamStarts
<1>2. Inv /\ [Next]_vars => Inv'
  BY StepOfEach, A2dpStep, StreamStep
<1>3. Inv => StreamAgrees
  <2> SUFFICES ASSUME Inv, host.at = "idle", host.connected, ~astray, peer.signaling, peer.media
               PROVE  /\ peer.stream[host.seid] \in {"open", "streaming"}
                      /\ host.config = peer.config
                      /\ host.streaming => peer.stream[host.seid] = "streaming"
                      /\ host.streaming /\ role = "source" => rtp = [seq |-> peer.packets, time |-> peer.frames]
    BY DEF StreamAgrees
  <2>1. TargetOf(host) = host.seid
    BY DEF StreamInv, Shape, TargetOf
  <2>2. Settled
    BY DEF StreamInv, InTouch, InStep, Resting
  <2> QED
    BY <2>1, <2>2 DEF Settled, Agrees
<1> QED
  BY <1>1, <1>2, <1>3, PTL DEF Spec

----------------------------------------------------------------------------
\* The bytes that pieces of firmware bring

Kinds == {"css", "key", "sign", "data"}
Got == [css : Nat, key : Nat, sign : Nat, data : Nat]
Fragments == [type : Kinds, bytes : Nat]

Fed(got, piece) == [got EXCEPT ![piece.type] = @ + piece.bytes]

\* With the pieces of q, one after the other, a becomes b.
IsCarried(f, q, a, b) ==
    /\ f \in [0 .. Len(q) -> Got] /\ f[0] = a /\ f[Len(q)] = b
    /\ \A k \in 1 .. Len(q) : f[k] = Fed(f[k - 1], q[k])

Carries(q, a, b) == q \in Seq(Fragments) /\ \E f : IsCarried(f, q, a, b)

\* Bytes of one kind add up.
LEMMA FedIs ==
    ASSUME NEW a \in Got, NEW type \in Kinds, NEW n \in Nat, NEW m \in Nat
    PROVE  LET piece(x) == [type |-> type, bytes |-> x]
           IN  /\ Fed(a, piece(n)) \in Got
               /\ Fed(a, piece(0)) = a
               /\ Fed(Fed(a, piece(n)), piece(m)) = Fed(a, piece(n + m))
<1>0. PICK c \in Nat, k \in Nat, s \in Nat, d \in Nat : a = [css |-> c, key |-> k, sign |-> s, data |-> d]
  BY DEF Got
<1>1. \A x, y, z \in Nat : x + y \in Nat /\ x + 0 = x /\ x + y + z = x + (y + z)
  OBVIOUS
<1>2. CASE type = "css"
  <2>1. \A x \in Nat : Fed(a, [type |-> type, bytes |-> x]) = [css |-> c + x, key |-> k, sign |-> s, data |-> d]
    BY <1>0, <1>2 DEF Fed
  <2>2. \A x, y \in Nat : Fed([css |-> c + x, key |-> k, sign |-> s, data |-> d], [type |-> type, bytes |-> y]) = [css |-> c + (x + y), key |-> k, sign |-> s, data |-> d]
    BY <1>2 DEF Fed
  <2>3. \A x \in Nat : [css |-> c + x, key |-> k, sign |-> s, data |-> d] \in Got
    BY DEF Got
  <2>4. Fed(a, [type |-> type, bytes |-> 0]) = a
    BY <1>0, <2>1
  <2>5. Fed(a, [type |-> type, bytes |-> n]) = [css |-> c + n, key |-> k, sign |-> s, data |-> d]
    BY <2>1
  <2>6. Fed([css |-> c + n, key |-> k, sign |-> s, data |-> d], [type |-> type, bytes |-> m]) = [css |-> c + (n + m), key |-> k, sign |-> s, data |-> d]
    BY <2>2
  <2>7. Fed(a, [type |-> type, bytes |-> n + m]) = [css |-> c + (n + m), key |-> k, sign |-> s, data |-> d]
    BY <1>1, <2>1
  <2> QED
    BY <2>3, <2>4, <2>5, <2>6, <2>7
<1>3. CASE type = "key"
  <2>1. \A x \in Nat : Fed(a, [type |-> type, bytes |-> x]) = [css |-> c, key |-> k + x, sign |-> s, data |-> d]
    BY <1>0, <1>3 DEF Fed
  <2>2. \A x, y \in Nat : Fed([css |-> c, key |-> k + x, sign |-> s, data |-> d], [type |-> type, bytes |-> y]) = [css |-> c, key |-> k + (x + y), sign |-> s, data |-> d]
    BY <1>3 DEF Fed
  <2>3. \A x \in Nat : [css |-> c, key |-> k + x, sign |-> s, data |-> d] \in Got
    BY DEF Got
  <2>4. Fed(a, [type |-> type, bytes |-> 0]) = a
    BY <1>0, <2>1
  <2>5. Fed(a, [type |-> type, bytes |-> n]) = [css |-> c, key |-> k + n, sign |-> s, data |-> d]
    BY <2>1
  <2>6. Fed([css |-> c, key |-> k + n, sign |-> s, data |-> d], [type |-> type, bytes |-> m]) = [css |-> c, key |-> k + (n + m), sign |-> s, data |-> d]
    BY <2>2
  <2>7. Fed(a, [type |-> type, bytes |-> n + m]) = [css |-> c, key |-> k + (n + m), sign |-> s, data |-> d]
    BY <1>1, <2>1
  <2> QED
    BY <2>3, <2>4, <2>5, <2>6, <2>7
<1>4. CASE type = "sign"
  <2>1. \A x \in Nat : Fed(a, [type |-> type, bytes |-> x]) = [css |-> c, key |-> k, sign |-> s + x, data |-> d]
    BY <1>0, <1>4 DEF Fed
  <2>2. \A x, y \in Nat : Fed([css |-> c, key |-> k, sign |-> s + x, data |-> d], [type |-> type, bytes |-> y]) = [css |-> c, key |-> k, sign |-> s + (x + y), data |-> d]
    BY <1>4 DEF Fed
  <2>3. \A x \in Nat : [css |-> c, key |-> k, sign |-> s + x, data |-> d] \in Got
    BY DEF Got
  <2>4. Fed(a, [type |-> type, bytes |-> 0]) = a
    BY <1>0, <2>1
  <2>5. Fed(a, [type |-> type, bytes |-> n]) = [css |-> c, key |-> k, sign |-> s + n, data |-> d]
    BY <2>1
  <2>6. Fed([css |-> c, key |-> k, sign |-> s + n, data |-> d], [type |-> type, bytes |-> m]) = [css |-> c, key |-> k, sign |-> s + (n + m), data |-> d]
    BY <2>2
  <2>7. Fed(a, [type |-> type, bytes |-> n + m]) = [css |-> c, key |-> k, sign |-> s + (n + m), data |-> d]
    BY <1>1, <2>1
  <2> QED
    BY <2>3, <2>4, <2>5, <2>6, <2>7
<1>5. CASE type = "data"
  <2>1. \A x \in Nat : Fed(a, [type |-> type, bytes |-> x]) = [css |-> c, key |-> k, sign |-> s, data |-> d + x]
    BY <1>0, <1>5 DEF Fed
  <2>2. \A x, y \in Nat : Fed([css |-> c, key |-> k, sign |-> s, data |-> d + x], [type |-> type, bytes |-> y]) = [css |-> c, key |-> k, sign |-> s, data |-> d + (x + y)]
    BY <1>5 DEF Fed
  <2>3. \A x \in Nat : [css |-> c, key |-> k, sign |-> s, data |-> d + x] \in Got
    BY DEF Got
  <2>4. Fed(a, [type |-> type, bytes |-> 0]) = a
    BY <1>0, <2>1
  <2>5. Fed(a, [type |-> type, bytes |-> n]) = [css |-> c, key |-> k, sign |-> s, data |-> d + n]
    BY <2>1
  <2>6. Fed([css |-> c, key |-> k, sign |-> s, data |-> d + n], [type |-> type, bytes |-> m]) = [css |-> c, key |-> k, sign |-> s, data |-> d + (n + m)]
    BY <2>2
  <2>7. Fed(a, [type |-> type, bytes |-> n + m]) = [css |-> c, key |-> k, sign |-> s, data |-> d + (n + m)]
    BY <1>1, <2>1
  <2> QED
    BY <2>3, <2>4, <2>5, <2>6, <2>7
<1> QED
  BY <1>2, <1>3, <1>4, <1>5 DEF Kinds

LEMMA FedStays ==
    ASSUME NEW a \in Got, NEW type \in Kinds, NEW n \in Nat
    PROVE  Fed(a, [type |-> type, bytes |-> n]) \in Got
BY FedIs

LEMMA CarriesNone ==
    ASSUME NEW a, NEW b
    PROVE  (a \in Got => Carries(<<>>, a, a)) /\ (Carries(<<>>, a, b) => a = b)
<1> DEFINE f == [k \in 0 .. 0 |-> a]
<1>1. Len(<<>>) = 0 /\ <<>> \in Seq(Fragments) /\ 1 .. 0 = {}
  OBVIOUS
<1>2. a \in Got => IsCarried(f, <<>>, a, a)
  BY <1>1 DEF IsCarried
<1> QED
  BY <1>1, <1>2 DEF Carries, IsCarried

\* A piece is accepted, and the rest is still to be sent.
LEMMA CarriesTail ==
    ASSUME NEW q, NEW a, NEW b, Carries(q, a, b), q # <<>>
    PROVE  Head(q) \in Fragments /\ Carries(Tail(q), Fed(a, Head(q)), b)
<1>1. PICK f : IsCarried(f, q, a, b)
  BY DEF Carries
<1>2. q \in Seq(Fragments) /\ Len(q) \in Nat /\ Len(q) >= 1
  BY DEF Carries
<1> DEFINE t == Tail(q)
           g == [k \in 0 .. Len(q) - 1 |-> f[k + 1]]
<1>3. /\ t \in Seq(Fragments) /\ Len(t) = Len(q) - 1 /\ Head(q) = q[1] /\ q[1] \in Fragments
      /\ \A k \in 1 .. Len(q) - 1 : t[k] = q[k + 1]
  BY <1>2
<1> HIDE DEF t
<1>4. g \in [0 .. Len(t) -> Got]
  BY <1>1, <1>2, <1>3 DEF IsCarried
<1>5. g[0] = Fed(a, Head(q))
  BY <1>1, <1>2, <1>3 DEF IsCarried
<1>6. g[Len(t)] = b
  BY <1>1, <1>2, <1>3 DEF IsCarried
<1>7. ASSUME NEW k \in 1 .. Len(t) PROVE g[k] = Fed(g[k - 1], t[k])
  <2>1. k + 1 \in 1 .. Len(q) /\ (k + 1) - 1 = k /\ k \in 0 .. Len(q) - 1 /\ k - 1 \in 0 .. Len(q) - 1 /\ (k - 1) + 1 = k
    BY <1>2, <1>3
  <2>2. f[k + 1] = Fed(f[k], q[k + 1])
    BY <1>1, <2>1 DEF IsCarried
  <2> QED
    BY <1>3, <2>1, <2>2
<1> HIDE DEF g
<1>8. IsCarried(g, t, Fed(a, Head(q)), b)
  BY <1>4, <1>5, <1>6, <1>7 DEF IsCarried
<1> QED
  BY <1>3, <1>8 DEF Carries, t

LEMMA CarriesBoth ==
    ASSUME NEW p, NEW q, NEW a, NEW b, NEW c, Carries(p, a, b), Carries(q, b, c)
    PROVE  Carries(p \o q, a, c)
<1>1. PICK f : IsCarried(f, p, a, b)
  BY DEF Carries
<1>2. PICK g : IsCarried(g, q, b, c)
  BY DEF Carries
<1> DEFINE m == Len(p)
           n == Len(q)
           both == p \o q
           h == [k \in 0 .. m + n |-> IF k <= m THEN f[k] ELSE g[k - m]]
<1>3. p \in Seq(Fragments) /\ q \in Seq(Fragments) /\ m \in Nat /\ n \in Nat
  BY DEF Carries
<1>4. /\ both \in Seq(Fragments) /\ Len(both) = m + n
      /\ \A k \in 1 .. m + n : both[k] = IF k <= m THEN p[k] ELSE q[k - m]
  BY <1>3, ConcatProperties
<1>5. f \in [0 .. m -> Got] /\ f[0] = a /\ f[m] = b /\ \A k \in 1 .. m : f[k] = Fed(f[k - 1], p[k])
  BY <1>1 DEF IsCarried
<1>6. g \in [0 .. n -> Got] /\ g[0] = b /\ g[n] = c /\ \A k \in 1 .. n : g[k] = Fed(g[k - 1], q[k])
  BY <1>2 DEF IsCarried
<1> HIDE DEF m, n, both
<1>7. h \in [0 .. m + n -> Got] /\ h[0] = a
  BY <1>3, <1>5, <1>6
<1>8. h[m + n] = c
  BY <1>3, <1>5, <1>6
<1>9. ASSUME NEW k \in 1 .. m + n PROVE h[k] = Fed(h[k - 1], both[k])
  <2>1. CASE k <= m
    <3>1. k \in 1 .. m /\ k \in 0 .. m + n /\ k - 1 \in 0 .. m + n /\ k - 1 <= m
      BY <1>3, <2>1
    <3>2. h[k] = f[k] /\ h[k - 1] = f[k - 1] /\ both[k] = p[k]
      BY <1>4, <2>1, <3>1
    <3> HIDE DEF h
    <3> QED
      BY <1>5, <3>1, <3>2
  <2>2. CASE k = m + 1
    <3>1. 1 \in 1 .. n /\ k \in 0 .. m + n /\ k - 1 \in 0 .. m + n /\ k - 1 = m /\ ~(k <= m) /\ k - m = 1 /\ 1 - 1 = 0
      BY <1>3, <2>2
    <3>2. h[k] = g[1] /\ h[k - 1] = b /\ both[k] = q[1]
      BY <1>3, <1>4, <1>5, <3>1
    <3>3. g[1] = Fed(g[0], q[1])
      BY <1>6, <3>1
    <3> HIDE DEF h
    <3> QED
      BY <1>6, <3>2, <3>3
  <2>3. CASE k > m + 1
    <3>1. /\ k - m \in 1 .. n /\ k \in 0 .. m + n /\ k - 1 \in 0 .. m + n /\ ~(k <= m) /\ ~(k - 1 <= m)
          /\ (k - 1) - m = (k - m) - 1
      BY <1>3, <2>3
    <3>2. h[k] = g[k - m] /\ h[k - 1] = g[(k - m) - 1] /\ both[k] = q[k - m]
      BY <1>4, <3>1
    <3> HIDE DEF h
    <3> QED
      BY <1>6, <3>1, <3>2
  <2> QED
    BY <1>3, <2>1, <2>2, <2>3
<1> HIDE DEF h
<1>10. IsCarried(h, both, a, c)
  BY <1>4, <1>7, <1>8, <1>9 DEF IsCarried
<1> QED
  BY <1>4, <1>10 DEF Carries, both

\* However they are cut, pieces bring as many bytes as they were cut of.
LEMMA CarriesPieces ==
    ASSUME NEW type \in Kinds, NEW len \in Nat, NEW a \in Got
    PROVE  Carries(Pieces(type, len), a, Fed(a, [type |-> type, bytes |-> len]))
<1> DEFINE n == (len + PieceSize - 1) \div PieceSize
           cut(i) == IF i * PieceSize <= len THEN PieceSize ELSE len % PieceSize
           done(k) == IF k * PieceSize <= len THEN k * PieceSize ELSE len
           q == [i \in 1 .. n |-> [type |-> type, bytes |-> cut(i)]]
           f == [k \in 0 .. n |-> Fed(a, [type |-> type, bytes |-> done(k)])]
<1>1. n \in Nat /\ n * 252 >= len /\ \A k \in 1 .. n : (k - 1) * 252 <= len
  BY DEF PieceSize
<1>2. \A k \in 0 .. n : done(k) \in Nat
  BY <1>1 DEF PieceSize
<1>3. done(0) = 0 /\ done(n) = len
  BY <1>1 DEF PieceSize
<1>4. \A k \in 1 .. n : cut(k) \in Nat /\ k - 1 \in 0 .. n /\ done(k - 1) + cut(k) = done(k)
  BY <1>1 DEF PieceSize
<1>5. Pieces(type, len) = q
  BY DEF Pieces
<1> HIDE DEF n, cut, done
<1>6. q \in Seq(Fragments) /\ Len(q) = n
  <2>1. \A i \in 1 .. n : [type |-> type, bytes |-> cut(i)] \in Fragments
    BY <1>4 DEF Fragments
  <2> QED
    BY <1>1, <2>1
<1>7. \A k \in 0 .. n : f[k] \in Got
  BY <1>2, FedIs
<1>8. f[0] = a /\ f[n] = Fed(a, [type |-> type, bytes |-> len])
  BY <1>1, <1>3, FedIs
<1>9. ASSUME NEW k \in 1 .. n PROVE f[k] = Fed(f[k - 1], q[k])
  <2>1. q[k] = [type |-> type, bytes |-> cut(k)] /\ k \in 0 .. n /\ k - 1 \in 0 .. n
    BY <1>1
  <2>2. f[k] = Fed(a, [type |-> type, bytes |-> done(k)]) /\ f[k - 1] = Fed(a, [type |-> type, bytes |-> done(k - 1)])
    BY <2>1
  <2>3. done(k - 1) \in Nat /\ cut(k) \in Nat
    BY <1>2, <1>4, <2>1
  <2>4. Fed(Fed(a, [type |-> type, bytes |-> done(k - 1)]), [type |-> type, bytes |-> cut(k)])
           = Fed(a, [type |-> type, bytes |-> done(k - 1) + cut(k)])
    BY <2>3, FedIs
  <2> QED
    BY <1>4, <2>1, <2>2, <2>4
<1>10. f \in [0 .. n -> Got]
  BY <1>7
<1> HIDE DEF q, f
<1>11. IsCarried(f, q, a, Fed(a, [type |-> type, bytes |-> len]))
  BY <1>6, <1>8, <1>9, <1>10 DEF IsCarried
<1> QED
  BY <1>5, <1>6, <1>11 DEF Carries

IsGathering(f, commands, n) ==
    f = [k \in 0 .. n |-> IF k = 0 THEN [rest |-> 0, pieces |-> <<>>] ELSE Gather(f[k - 1], commands[k])]

IsLength(f, commands, n) ==
    f = [k \in 0 .. n |-> IF k = 0 THEN 0 ELSE f[k - 1] + 3 + commands[k]]

\* The functions that Gathered and Length are defined by exist.
LEMMA GatheringsExist ==
    ASSUME NEW commands, NEW n \in Nat
    PROVE  \E f : IsGathering(f, commands, n)
<1> DEFINE G(f, k) == IF k = 0 THEN [rest |-> 0, pieces |-> <<>>] ELSE Gather(f[k - 1], commands[k])
           Runs(m) == \E f : f = [k \in 0 .. m |-> G(f, k)]
           T == {m \in Nat : ~Runs(m)}
<1>1. \A f, g : G(f, 0) = G(g, 0)
  OBVIOUS
<1>2. ASSUME NEW f, NEW g, NEW k, f[k - 1] = g[k - 1] PROVE G(f, k) = G(g, k)
  BY <1>2
<1>3. SUFFICES ASSUME T # {} PROVE FALSE
  BY DEF IsGathering
<1> HIDE DEF G
<1>4. PICK m \in T : \A j \in T : m <= j
  BY <1>3, LeastNumber
<1>5. CASE m = 0
  <2> DEFINE g == [k \in 0 .. 0 |-> G(<< >>, k)]
  <2>1. \A k \in 0 .. 0 : G(<< >>, k) = G(g, k)
    BY <1>1
  <2>2. g = [k \in 0 .. 0 |-> G(g, k)]
    BY <2>1, Zenon
  <2>3. Runs(0)
    BY <2>2, Zenon
  <2> QED
    BY <1>4, <1>5, <2>3
<1>6. CASE m # 0
  <2>1. m - 1 \in Nat /\ m - 1 \notin T /\ m \in Nat
    BY <1>4, <1>6
  <2>2. PICK f : f = [k \in 0 .. m - 1 |-> G(f, k)]
    BY <2>1
  <2> DEFINE g == [k \in 0 .. m |-> IF k < m THEN f[k] ELSE G(f, k)]
  <2>3. \A k \in 0 .. m : k # 0 => g[k - 1] = f[k - 1]
    BY <2>1
  <2>4. \A k \in 0 .. m : k = 0 => G(f, k) = G(g, k)
    BY <1>1
  <2>5. \A k \in 0 .. m : k # 0 => G(f, k) = G(g, k)
    <3> SUFFICES ASSUME NEW k \in 0 .. m, k # 0 PROVE G(f, k) = G(g, k)
      OBVIOUS
    <3>1. f[k - 1] = g[k - 1]
      BY <2>3
    <3> HIDE DEF g
    <3> QED
      BY <3>1, <1>2
  <2>6. \A k \in 0 .. m : k < m => f[k] = G(f, k)
    BY <2>1, <2>2
  <2>7. \A k \in 0 .. m : g[k] = G(g, k)
    BY <2>4, <2>5, <2>6
  <2>8. g = [k \in 0 .. m |-> g[k]]
    OBVIOUS
  <2>9. g = [k \in 0 .. m |-> G(g, k)]
    BY <2>7, <2>8, Zenon
  <2>10. Runs(m)
    BY <2>9, Zenon
  <2> QED
    BY <1>4, <2>10
<1> QED
  BY <1>5, <1>6

LEMMA LengthsExist ==
    ASSUME NEW commands, NEW n \in Nat
    PROVE  \E f : IsLength(f, commands, n)
<1> DEFINE G(f, k) == IF k = 0 THEN 0 ELSE f[k - 1] + 3 + commands[k]
           Runs(m) == \E f : f = [k \in 0 .. m |-> G(f, k)]
           T == {m \in Nat : ~Runs(m)}
<1>1. \A f, g : G(f, 0) = G(g, 0)
  OBVIOUS
<1>2. ASSUME NEW f, NEW g, NEW k, f[k - 1] = g[k - 1] PROVE G(f, k) = G(g, k)
  BY <1>2
<1>3. SUFFICES ASSUME T # {} PROVE FALSE
  BY DEF IsLength
<1> HIDE DEF G
<1>4. PICK m \in T : \A j \in T : m <= j
  BY <1>3, LeastNumber
<1>5. CASE m = 0
  <2> DEFINE g == [k \in 0 .. 0 |-> G(<< >>, k)]
  <2>1. \A k \in 0 .. 0 : G(<< >>, k) = G(g, k)
    BY <1>1
  <2>2. g = [k \in 0 .. 0 |-> G(g, k)]
    BY <2>1, Zenon
  <2>3. Runs(0)
    BY <2>2, Zenon
  <2> QED
    BY <1>4, <1>5, <2>3
<1>6. CASE m # 0
  <2>1. m - 1 \in Nat /\ m - 1 \notin T /\ m \in Nat
    BY <1>4, <1>6
  <2>2. PICK f : f = [k \in 0 .. m - 1 |-> G(f, k)]
    BY <2>1
  <2> DEFINE g == [k \in 0 .. m |-> IF k < m THEN f[k] ELSE G(f, k)]
  <2>3. \A k \in 0 .. m : k # 0 => g[k - 1] = f[k - 1]
    BY <2>1
  <2>4. \A k \in 0 .. m : k = 0 => G(f, k) = G(g, k)
    BY <1>1
  <2>5. \A k \in 0 .. m : k # 0 => G(f, k) = G(g, k)
    <3> SUFFICES ASSUME NEW k \in 0 .. m, k # 0 PROVE G(f, k) = G(g, k)
      OBVIOUS
    <3>1. f[k - 1] = g[k - 1]
      BY <2>3
    <3> HIDE DEF g
    <3> QED
      BY <3>1, <1>2
  <2>6. \A k \in 0 .. m : k < m => f[k] = G(f, k)
    BY <2>1, <2>2
  <2>7. \A k \in 0 .. m : g[k] = G(g, k)
    BY <2>4, <2>5, <2>6
  <2>8. g = [k \in 0 .. m |-> g[k]]
    OBVIOUS
  <2>9. g = [k \in 0 .. m |-> G(g, k)]
    BY <2>7, <2>8, Zenon
  <2>10. Runs(m)
    BY <2>9, Zenon
  <2> QED
    BY <1>4, <2>10
<1> QED
  BY <1>5, <1>6

LEMMA GatheredIs ==
    ASSUME NEW commands, Len(commands) \in Nat
    PROVE  \E f : /\ IsGathering(f, commands, Len(commands)) /\ Gathered(commands) = f[Len(commands)]
                 /\ f[0] = [rest |-> 0, pieces |-> <<>>] /\ \A k \in 1 .. Len(commands) : f[k] = Gather(f[k - 1], commands[k])
<1> DEFINE n == Len(commands)
           G(f, k) == IF k = 0 THEN [rest |-> 0, pieces |-> <<>>] ELSE Gather(f[k - 1], commands[k])
           f == CHOOSE f : f = [k \in 0 .. n |-> IF k = 0 THEN [rest |-> 0, pieces |-> <<>>] ELSE Gather(f[k - 1], commands[k])]
<1>1. IsGathering(f, commands, n)
  <2>1. n \in Nat
    OBVIOUS
  <2> HIDE DEF n
  <2>2. \E g : IsGathering(g, commands, n)
    BY <2>1, GatheringsExist
  <2> QED
    BY <2>2, Zenon DEF IsGathering
<1>2. Gathered(commands) = f[n]
  BY DEF Gathered
<1> HIDE DEF f
<1>3. f = [k \in 0 .. n |-> G(f, k)]
  BY <1>1, Zenon DEF IsGathering
<1>4. f[0] = [rest |-> 0, pieces |-> <<>>]
  <2>1. G(f, 0) = [rest |-> 0, pieces |-> <<>>]
    BY Zenon
  <2> HIDE DEF G
  <2> QED
    BY <1>3, <2>1
<1>5. ASSUME NEW k \in 1 .. n PROVE f[k] = Gather(f[k - 1], commands[k])
  <2>1. k \in 0 .. n /\ ~(k = 0)
    OBVIOUS
  <2>2. G(f, k) = Gather(f[k - 1], commands[k])
    BY <2>1, Zenon
  <2> HIDE DEF G
  <2> QED
    BY <1>3, <2>1, <2>2
<1> QED
  BY <1>1, <1>2, <1>4, <1>5

LEMMA LengthIs ==
    ASSUME NEW commands, Len(commands) \in Nat
    PROVE  \E f : /\ IsLength(f, commands, Len(commands)) /\ Length(commands) = f[Len(commands)]
                 /\ f[0] = 0 /\ \A k \in 1 .. Len(commands) : f[k] = f[k - 1] + 3 + commands[k]
<1> DEFINE n == Len(commands)
           G(f, k) == IF k = 0 THEN 0 ELSE f[k - 1] + 3 + commands[k]
           f == CHOOSE f : f = [k \in 0 .. n |-> IF k = 0 THEN 0 ELSE f[k - 1] + 3 + commands[k]]
<1>1. IsLength(f, commands, n)
  <2>1. n \in Nat
    OBVIOUS
  <2> HIDE DEF n
  <2>2. \E g : IsLength(g, commands, n)
    BY <2>1, LengthsExist
  <2> QED
    BY <2>2, Zenon DEF IsLength
<1>2. Length(commands) = f[n]
  BY DEF Length
<1> HIDE DEF f
<1>3. f = [k \in 0 .. n |-> G(f, k)]
  BY <1>1, Zenon DEF IsLength
<1>4. f[0] = 0
  <2>1. G(f, 0) = 0
    BY Zenon
  <2> HIDE DEF G
  <2> QED
    BY <1>3, <2>1
<1>5. ASSUME NEW k \in 1 .. n PROVE f[k] = f[k - 1] + 3 + commands[k]
  <2>1. k \in 0 .. n /\ ~(k = 0)
    OBVIOUS
  <2>2. G(f, k) = f[k - 1] + 3 + commands[k]
    BY <2>1, Zenon
  <2> HIDE DEF G
  <2> QED
    BY <1>3, <2>1, <2>2
<1> QED
  BY <1>1, <1>2, <1>4, <1>5

Data(n) == [type |-> "data", bytes |-> n]

\* What is gathered of a file's commands brings them but for the rest, which is
\* sent at the end.
LEMMA CarriesGathered ==
    ASSUME NEW commands \in Seq(Nat), NEW a \in Got
    PROVE  LET all == Gathered(commands)
           IN  /\ all.rest \in Nat /\ Length(commands) \in Nat /\ {all.pieces, Pieces("data", all.rest)} \subseteq Seq(Fragments)
               /\ Carries(all.pieces \o Pieces("data", all.rest), a, Fed(a, Data(Length(commands))))
<1> DEFINE n == Len(commands)
<1>1. n \in Nat /\ \A k \in 1 .. n : commands[k] \in Nat
  OBVIOUS
<1>2. PICK f : /\ Gathered(commands) = f[n] /\ f[0] = [rest |-> 0, pieces |-> <<>>]
               /\ \A k \in 1 .. n : f[k] = Gather(f[k - 1], commands[k])
  BY GatheredIs
<1>3. PICK g : /\ Length(commands) = g[n] /\ g[0] = 0
               /\ \A k \in 1 .. n : g[k] = g[k - 1] + 3 + commands[k]
  BY LengthIs
<1> HIDE DEF n
<1> DEFINE Right(k) == /\ DOMAIN f[k] = {"rest", "pieces"} /\ f[k].rest \in Nat /\ g[k] \in Nat /\ f[k].rest <= g[k]
                       /\ Carries(f[k].pieces, a, Fed(a, Data(g[k] - f[k].rest)))
           T == {k \in 0 .. n : ~Right(k)}
<1>4. Right(0)
  <2>1. Carries(<<>>, a, a) /\ Fed(a, Data(0)) = a
    BY CarriesNone, FedIs DEF Data, Kinds
  <2> QED
    BY <1>2, <1>3, <2>1
<1>5. ASSUME NEW k \in 1 .. n, Right(k - 1) PROVE Right(k)
  <2> DEFINE p == f[k - 1]
             fragment == p.rest + 3 + commands[k]
  <2>1. /\ DOMAIN p = {"rest", "pieces"} /\ p.rest \in Nat /\ g[k - 1] \in Nat /\ p.rest <= g[k - 1]
        /\ Carries(p.pieces, a, Fed(a, Data(g[k - 1] - p.rest)))
    BY <1>5
  <2>2. f[k] = Gather(p, commands[k]) /\ g[k] = g[k - 1] + 3 + commands[k] /\ commands[k] \in Nat
    BY <1>1, <1>2, <1>3
  <2> HIDE DEF p
  <2>3. fragment \in Nat /\ g[k] \in Nat /\ fragment <= g[k] /\ g[k] - fragment = g[k - 1] - p.rest
    <3>1. PICK r, h, c : r = p.rest /\ h = g[k - 1] /\ c = commands[k]
      OBVIOUS
    <3>2. r \in Nat /\ h \in Nat /\ c \in Nat /\ r <= h /\ g[k] = h + 3 + c /\ fragment = r + 3 + c
      BY <2>1, <2>2, <3>1
    <3>3. r + 3 + c \in Nat /\ h + 3 + c \in Nat /\ r + 3 + c <= h + 3 + c /\ (h + 3 + c) - (r + 3 + c) = h - r
      BY <3>2
    <3> HIDE DEF fragment
    <3>4. fragment \in Nat /\ g[k] \in Nat /\ fragment <= g[k]
      BY <3>2, <3>3
    <3>5. g[k] - fragment = h - r
      BY <3>2, <3>3
    <3> QED
      BY <3>1, <3>4, <3>5
  <2>4. CASE fragment % 4 = 0
    <3>1. f[k] = [rest |-> 0, pieces |-> p.pieces \o Pieces("data", fragment)]
      BY <2>2, <2>4 DEF Gather
    <3>2. g[k - 1] - p.rest \in Nat /\ (g[k - 1] - p.rest) + fragment = g[k] - 0
      BY <2>1, <2>3, SMTT(20)
    <3> HIDE DEF fragment
    <3>3. /\ Fed(a, Data(g[k - 1] - p.rest)) \in Got
          /\ Fed(Fed(a, Data(g[k - 1] - p.rest)), Data(fragment)) = Fed(a, Data((g[k - 1] - p.rest) + fragment))
      BY <2>3, <3>2, FedIs DEF Data, Kinds
    <3>4. Carries(Pieces("data", fragment), Fed(a, Data(g[k - 1] - p.rest)), Fed(a, Data(g[k] - 0)))
      BY <2>3, <3>2, <3>3, CarriesPieces DEF Data, Kinds
    <3>5. Carries(p.pieces \o Pieces("data", fragment), a, Fed(a, Data(g[k] - 0)))
      BY <2>1, <3>4, CarriesBoth
    <3> QED
      BY <2>3, <3>1, <3>5
  <2>5. CASE fragment % 4 # 0
    <3>1. f[k] = [p EXCEPT !.rest = fragment]
      BY <2>2, <2>5 DEF Gather
    <3>2. DOMAIN f[k] = {"rest", "pieces"} /\ f[k].rest = fragment /\ f[k].pieces = p.pieces
      BY <2>1, <3>1
    <3> HIDE DEF fragment
    <3> QED
      BY <2>1, <2>3, <3>2
  <2> QED
    BY <2>4, <2>5
<1> HIDE DEF Right
<1>6. Right(n)
  <2>1. CASE T = {}
    BY <1>1, <2>1
  <2>2. CASE T # {}
    <3>0. T \in SUBSET Nat
      BY <1>1
    <3>1. PICK k \in T : \A j \in T : k <= j
      BY <2>2, <3>0, LeastNumber
    <3>2. k \in 0 .. n /\ ~Right(k) /\ k # 0
      BY <1>4, <3>1
    <3>3. k \in 1 .. n /\ k - 1 \in 0 .. n /\ ~(k <= k - 1)
      BY <1>1, <3>2
    <3>4. Right(k - 1)
      BY <3>1, <3>3
    <3> QED
      BY <1>5, <3>2, <3>3, <3>4
  <2> QED
    BY <2>1, <2>2
<1> DEFINE rest == f[n].rest
           all == g[n]
<1>7. rest \in Nat /\ all \in Nat /\ all - rest \in Nat /\ (all - rest) + rest = all /\ Carries(f[n].pieces, a, Fed(a, Data(all - rest)))
  BY <1>6 DEF Right
<1> HIDE DEF rest, all
<1>8. Fed(a, Data(all - rest)) \in Got /\ Fed(Fed(a, Data(all - rest)), Data(rest)) = Fed(a, Data(all))
  BY <1>7, FedIs DEF Data, Kinds
<1>9. Carries(Pieces("data", rest), Fed(a, Data(all - rest)), Fed(a, Data(all)))
  BY <1>7, <1>8, CarriesPieces DEF Data, Kinds
<1>10. Carries(f[n].pieces \o Pieces("data", rest), a, Fed(a, Data(all)))
  BY <1>7, <1>9, CarriesBoth
<1>11. {f[n].pieces, Pieces("data", rest)} \subseteq Seq(Fragments)
  BY <1>7, <1>9 DEF Carries
<1> QED
  BY <1>2, <1>3, <1>7, <1>10, <1>11 DEF rest, all

\* The pieces that are sent of a whole file bring what a chip needs to boot it.
LEMMA CarriesFile ==
    ASSUME NEW file \in Disk, file.part = "whole"
    PROVE  Carries(Sent(file), Nothing, Whole(file)) /\ Whole(file) \in Got
<1> DEFINE commands == file.commands
           all == Gathered(commands)
           last == Pieces("data", all.rest)
           Cut(type, n) == [type |-> type, bytes |-> n]
           G1 == Fed(Nothing, Cut("css", 128))
           G2 == Fed(G1, Cut("key", 256))
           G3 == Fed(G2, Cut("sign", 256))
           G4 == IF file.css2 THEN Fed(G3, Cut("key", 320)) ELSE G3
           G5 == Fed(G4, Data(Length(commands)))
           P4 == IF file.css2 THEN Pieces("key", 320) ELSE <<>>
<1>1. commands \in Seq(Nat) /\ file.css2 \in BOOLEAN
  BY IntelAssumption
<1>2. Nothing \in Got
  BY DEF Nothing, Got
<1>3. {"css", "key", "sign", "data"} = Kinds /\ {128, 256, 320} \subseteq Nat
  BY DEF Kinds
<1>4. G1 \in Got
  BY <1>2, <1>3, FedStays
<1>5. G2 \in Got
  <2> HIDE DEF G1
  <2> QED
    BY <1>3, <1>4, FedStays
<1>6. G3 \in Got
  <2> HIDE DEF G2
  <2> QED
    BY <1>3, <1>5, FedStays
<1>7. G4 \in Got
  <2> HIDE DEF G3
  <2> QED
    BY <1>3, <1>6, FedStays
<1>8. Carries(Pieces("css", 128), Nothing, G1)
  BY <1>2, <1>3, CarriesPieces
<1>9. Carries(Pieces("key", 256), G1, G2)
  BY <1>3, <1>4, CarriesPieces
<1>10. Carries(Pieces("sign", 256), G2, G3)
  BY <1>3, <1>5, CarriesPieces
<1>11. Carries(P4, G3, G4)
  <2> HIDE DEF G3
  <2>1. CASE file.css2
    BY <1>3, <1>6, <2>1, CarriesPieces
  <2>2. CASE ~file.css2
    BY <1>6, <2>2, CarriesNone
  <2> QED
    BY <2>1, <2>2
<1>12. Length(commands) \in Nat /\ Carries(all.pieces \o last, G4, G5)
  BY <1>1, <1>7, CarriesGathered
<1>13. G5 = Whole(file)
  BY <1>1, <1>12 DEF Fed, Nothing, Data, Whole
<1>14. Whole(file) \in Got
  <2> HIDE DEF commands
  <2>1. Length(commands) \in Nat
    BY <1>12
  <2> QED
    BY <1>1, <2>1 DEF Whole, Got, commands
<1> HIDE DEF G1, G2, G3, G4, G5, P4, all, last, commands
<1>15. Carries(Pieces("css", 128) \o Pieces("key", 256), Nothing, G2)
  BY <1>8, <1>9, CarriesBoth
<1>16. Carries(Pieces("css", 128) \o Pieces("key", 256) \o Pieces("sign", 256), Nothing, G3)
  BY <1>10, <1>15, CarriesBoth
<1>17. Carries(Pieces("css", 128) \o Pieces("key", 256) \o Pieces("sign", 256) \o P4, Nothing, G4)
  BY <1>11, <1>16, CarriesBoth
<1>18. Sent(file) = (Headers(file) \o all.pieces) \o last
  BY DEF Sent, all, last, commands
<1>19. Headers(file) = Pieces("css", 128) \o Pieces("key", 256) \o Pieces("sign", 256) \o P4
  BY DEF Headers, P4
<1>20. Carries(Headers(file) \o (all.pieces \o last), Nothing, G5)
  BY <1>12, <1>17, <1>19, CarriesBoth
<1>21. {Headers(file), all.pieces, last} \subseteq Seq(Fragments)
  <2>1. {all.pieces, last} \subseteq Seq(Fragments)
    BY <1>1, <1>2, CarriesGathered DEF all, last, commands
  <2>2. Headers(file) \in Seq(Fragments)
    BY <1>17, <1>19 DEF Carries
  <2> QED
    BY <2>1, <2>2
<1>22. Sent(file) = Headers(file) \o (all.pieces \o last)
  <2> DEFINE first == Headers(file)
             middle == all.pieces
  <2>1. first \in Seq(Fragments) /\ middle \in Seq(Fragments) /\ last \in Seq(Fragments) /\ Sent(file) = (first \o middle) \o last
    BY <1>18, <1>21
  <2> HIDE DEF first, middle
  <2>2. (first \o middle) \o last = first \o (middle \o last)
    BY <2>1, ConcatAssociative
  <2> QED
    BY <2>1, <2>2 DEF first, middle
<1> QED
  BY <1>13, <1>14, <1>20, <1>22

----------------------------------------------------------------------------
\* What is known of a dongle while its firmware is loaded

Early == {"drain", "version", "params", "file"}
Late == {"ddc file", "ddc", "mask"}

NoReset(q) == \A i \in 1 .. Len(q) : q[i].at # "reset"
LiveResets(q) == \A i \in 1 .. Len(q) : q[i].at = "reset" => q[i].live
LiveAre(q, at) == \A i \in 1 .. Len(q) : q[i].live => q[i].at = at
OpSaid(q) == \E i \in 1 .. Len(q) : q[i].code = "complete" /\ q[i].ok /\ q[i].image = "op"

Images == {"bootloader", "iml", "op"}
ChipAnswers == [code : {"vendor", "complete", "status"}, at : IntelCommands \cup {"send", "none"}, ok : BOOLEAN, image : Images]

Operating == chip.image = "op" \/ ~chip.on
Ready == loader.at \in Late \/ (loader.at = "over" /\ loader.result = "ok")

\* Nothing is left of the last dongle when one comes.
PortInv ==
    /\ DOMAIN hub = {"at", "slot", "attempts", "plugs"}
    /\ DOMAIN chip = {"family", "image", "on", "got", "strays", "astray"}
    /\ pipes.intr \in Seq(ChipAnswers) /\ pipes.bulk \in Seq(ChipAnswers)
    /\ hub.at = "empty" => ~chip.on
    /\ hub.at \in {"empty", "new"} => loader.at = "idle" /\ pipes.out = <<>> /\ pipes.bulk = <<>>
    /\ hub.at = "new" => chip.got = Nothing
    /\ loader.at # "idle" => hub.at = "adding"

\* What is queued for the chip, by the stage: a chip is reset at "reset" or later.
RequestInv ==
    /\ LiveAre(pipes.out, Opcode)
    /\ loader.at \in Early \cup {"send"} => NoReset(pipes.out)
    /\ loader.at = "reset" => LiveResets(pipes.out)
    /\ loader.wait # "no" => pipes.reads = Reading
    /\ loader.at = "send" /\ loader.wait # "no" => loader.pieces # <<>>

\* What the chip has accepted and what is still to be sent is the whole file: unless
\* it has refused a piece, or has not answered one, which ends the download.
CarriedInv ==
    \/ chip.astray
    \/ /\ loader.at \in Early => chip.got = Nothing /\ pipes.bulk = <<>>
       /\ loader.at = "send" /\ loader.file.part = "whole" =>
            IF loader.wait = "event"
            THEN \/ pipes.bulk = <<>>
                 \/ /\ Len(pipes.bulk) = 1 /\ Tail(pipes.bulk) = <<>>
                    /\ PieceTaken(pipes.bulk[1]) => Carries(Tail(loader.pieces), chip.got, Whole(loader.file))
            ELSE pipes.bulk = <<>> /\ Carries(loader.pieces, chip.got, Whole(loader.file))
       /\ loader.at = "reset" => chip.got = Whole(loader.file)

\* The operational firmware runs where an answer or the stage says so.
ImageInv ==
    /\ chip.image \in Images /\ loader.file.boots \in Images
    /\ chip.family = "legacy" => loader.file.boots = "op"
    /\ OpSaid(pipes.intr) => Operating
    /\ Ready => Operating

FirmInv == PortInv /\ RequestInv /\ CarriedInv /\ ImageInv

\* Requests that are given up, taken and queued, and their marks
LEMMA QueueGiven ==
    ASSUME NEW q \in Seq(Requests), NoReset(q)
    PROVE  LET given == [i \in DOMAIN q |-> [q[i] EXCEPT !.live = FALSE]]
           IN  NoReset(given) /\ (q # <<>> => NoReset(Tail(given)))
<1> DEFINE given == [i \in DOMAIN q |-> [q[i] EXCEPT !.live = FALSE]]
<1>0. Len(q) \in Nat /\ DOMAIN q = 1 .. Len(q) /\ \A i \in 1 .. Len(q) : q[i] \in Requests
  OBVIOUS
<1>1. \A i \in 1 .. Len(q) : given[i].at = q[i].at
  BY <1>0 DEF Requests
<1>2. given \in Seq(Requests)
  BY RequestQueue
<1>3. DOMAIN given = 1 .. Len(q)
  BY <1>0
<1> HIDE DEF given
<1>4. Len(given) = Len(q)
  BY <1>0, <1>2, <1>3
<1>5. NoReset(given)
  BY <1>1, <1>4 DEF NoReset
<1>6. ASSUME q # <<>> PROVE NoReset(Tail(given))
  <2>1. given # <<>>
    BY <1>0, <1>4, <1>6
  <2>2. Len(Tail(given)) = Len(given) - 1 /\ \A i \in 1 .. Len(given) - 1 : Tail(given)[i] = given[i + 1] /\ i + 1 \in 1 .. Len(given)
    BY <1>2, <2>1
  <2> QED
    BY <1>5, <2>2 DEF NoReset
<1> QED
  BY <1>5, <1>6 DEF given

LEMMA QueueTail ==
    ASSUME NEW q \in Seq(Requests), q # <<>>, NEW at
    PROVE  /\ NoReset(q) => NoReset(Tail(q)) /\ Head(q).at # "reset"
           /\ LiveResets(q) => LiveResets(Tail(q)) /\ (Head(q).at = "reset" => Head(q).live)
           /\ LiveAre(q, at) => LiveAre(Tail(q), at) /\ (Head(q).live => Head(q).at = at)
<1>1. /\ Len(Tail(q)) = Len(q) - 1 /\ Len(q) \in Nat /\ Len(q) >= 1 /\ 1 \in 1 .. Len(q)
      /\ Head(q) = q[1] /\ \A i \in 1 .. Len(q) - 1 : Tail(q)[i] = q[i + 1] /\ i + 1 \in 1 .. Len(q)
  OBVIOUS
<1> QED
  BY <1>1 DEF NoReset, LiveResets, LiveAre

LEMMA QueueMore ==
    ASSUME NEW q \in Seq(Requests), NEW at, NEW more, more = Append(q, [at |-> at, live |-> TRUE])
    PROVE  /\ LiveAre(q, at) => LiveAre(more, at)
           /\ LiveResets(q) => LiveResets(more)
           /\ NoReset(q) /\ at # "reset" => NoReset(more)
<1> DEFINE r == [at |-> at, live |-> TRUE]
<1>1. r.at = at /\ r.live /\ more = Append(q, r) /\ Len(q) \in Nat
  OBVIOUS
<1> HIDE DEF r
<1>2. Len(more) = Len(q) + 1 /\ \A i \in 1 .. Len(q) + 1 : more[i] = IF i <= Len(q) THEN q[i] ELSE r
  BY <1>1
<1>3. \A i \in 1 .. Len(more) : (i \in 1 .. Len(q) /\ more[i] = q[i]) \/ more[i] = r
  BY <1>1, <1>2
<1> QED
  BY <1>1, <1>3 DEF LiveAre, LiveResets, NoReset

LEMMA QueueDead ==
    ASSUME NEW q, NoneLive(q), NEW at
    PROVE  LiveAre(q, at)
BY DEF NoneLive, LiveAre

\* Where the stages lead.
LEMMA StageGoes ==
    ASSUME DongleInv, loader.at \in Waiting, NEW e
    PROVE  /\ LET l == Failed
              IN  /\ l.wait = "no" /\ l.file = loader.file /\ l.at \notin {"idle", "send", "reset"}
                  /\ l.at \in Early => loader.at \in Early
                  /\ l.at \in Late \/ (l.at = "over" /\ l.result = "ok") => Ready
           /\ LET l == Succeeded(e)
              IN  /\ l.wait = "no" /\ l.file = loader.file /\ l.at \notin {"idle", "reset"}
                  /\ l.at \in Early => loader.at \in Early
                  /\ l.at = "send" => loader.at = "send" /\ l.pieces = Tail(loader.pieces)
                  /\ l.at \in Late \/ (l.at = "over" /\ l.result = "ok") => Ready \/ (e.ok /\ e.image = "op")
           /\ Again.wait = "no" /\ Again.at = loader.at /\ Again.file = loader.file /\ Again.result = loader.result
<1> DEFINE Leads(l, at) == l.at = at /\ l.wait = "no" /\ l.file = loader.file
           WouldGo(l) == l.at \in Late \/ (l.at = "over" /\ l.result = "ok")
           Right(l) == /\ l.wait = "no" /\ l.file = loader.file /\ l.at \notin {"idle", "reset"}
                       /\ l.at \in Early => loader.at \in Early
<1>1. DOMAIN loader = DOMAIN NoLoader
  BY DEF DongleInv
<1>2. ASSUME NEW at PROVE Leads(To(at), at)
  BY <1>1 DEF NoLoader, To
<1>3. ASSUME NEW result PROVE Leads(Over(result), "over") /\ Over(result).result = result
  BY <1>1 DEF NoLoader, Over
<1>4. Leads(Again, loader.at) /\ Again.result = loader.result
  BY <1>1 DEF NoLoader, Again
<1>5. ASSUME NEW n PROVE Leads([loader EXCEPT !.wait = "no", !.n = n], loader.at)
  BY <1>1 DEF NoLoader
<1>6. ASSUME NEW at, NEW image PROVE Leads([To(at) EXCEPT !.image = image], at)
  BY <1>1 DEF NoLoader, To
<1>7. ASSUME NEW q
      PROVE  LET l == [loader EXCEPT !.wait = "no", !.pieces = q] IN Leads(l, loader.at) /\ l.pieces = q
  BY <1>1 DEF NoLoader
<1>8. ASSUME NEW l, NEW at, Leads(l, at), at \notin {"idle", "reset"}, at \in Early => loader.at \in Early
      PROVE  Right(l) /\ (at # "over" /\ at \notin Late => ~WouldGo(l))
  BY <1>8
<1>9. ASSUME NEW result, result # "ok" PROVE Right(Over(result)) /\ ~WouldGo(Over(result)) /\ Over(result).at # "send"
  <2>1. Leads(Over(result), "over") /\ Over(result).result = result
    BY <1>3
  <2> QED
    BY <1>9, <2>1 DEF Early, Late
<1> HIDE DEF WouldGo, Right
<1>10. ASSUME loader.at \in {"drain", "drain again", "ddc", "mask", "reset"}
       PROVE  Right(Proceeds) /\ Proceeds.at # "send" /\ (WouldGo(Proceeds) => Ready)
  <2>1. CASE loader.at = "drain"
    <3>1. Proceeds = To("version") /\ Leads(Proceeds, "version")
      BY <1>2, <2>1 DEF Proceeds
    <3> QED
      BY <1>8, <2>1, <3>1 DEF Early, Late
  <2>2. CASE loader.at = "drain again"
    <3>1. Proceeds = To("version again") /\ Leads(Proceeds, "version again")
      BY <1>2, <2>2 DEF Proceeds
    <3> QED
      BY <1>8, <3>1 DEF Early, Late
  <2>3. CASE loader.at = "ddc"
    <3>1. Leads(Proceeds, "mask") \/ Leads(Proceeds, "over") \/ Leads(Proceeds, "ddc")
      BY <1>2, <1>3, <1>5, <2>3 DEF Proceeds, AfterDdc
    <3> QED
      BY <1>8, <2>3, <3>1 DEF Early, Late, Ready
  <2>4. CASE loader.at = "mask"
    <3>1. Leads(Proceeds, "over")
      BY <1>3, <2>4 DEF Proceeds
    <3> QED
      BY <1>8, <2>4, <3>1 DEF Early, Late, Ready
  <2>5. CASE loader.at = "reset"
    <3>1. (Proceeds = To("drain again") /\ Leads(Proceeds, "drain again")) \/ Proceeds = Over("shutting_down")
      BY <1>2, <2>5 DEF Proceeds, AfterReset
    <3>2. CASE Leads(Proceeds, "drain again")
      BY <1>8, <3>2 DEF Early, Late
    <3>3. CASE Proceeds = Over("shutting_down")
      BY <1>9, <3>3
    <3> QED
      BY <3>1, <3>2, <3>3
  <2> QED
    BY <1>10, <2>1, <2>2, <2>3, <2>4, <2>5
<1>11. Right(Failed) /\ Failed.at # "send" /\ (WouldGo(Failed) => Ready)
  <2>1. CASE loader.at \in {"drain", "drain again", "ddc", "mask", "reset"}
    <3>1. Failed = Proceeds
      BY <2>1 DEF Failed
    <3> QED
      BY <1>10, <2>1, <3>1
  <2>2. CASE loader.at \in {"version", "params", "send", "version again"}
    <3>1. Failed = Over("error") \/ Failed = Over("shutting_down") \/ (Failed = Again /\ loader.at = "version again")
      BY <2>2 DEF Failed
    <3>2. CASE Failed = Again /\ loader.at = "version again"
      BY <1>4, <1>8, <3>2 DEF Early, Late
    <3> QED
      BY <1>9, <3>1, <3>2
  <2> QED
    BY <2>1, <2>2 DEF Waiting, Draining, IntelCommands
<1> DEFINE s == Succeeded(e)
<1>12. /\ Right(s) /\ (WouldGo(s) => Ready \/ (e.ok /\ e.image = "op"))
       /\ s.at = "send" => loader.at = "send" /\ s.pieces = Tail(loader.pieces)
  <2>1. CASE loader.at \in {"drain", "drain again", "ddc", "mask", "reset"}
    <3>1. s = Proceeds
      BY <2>1 DEF Succeeded
    <3> QED
      BY <1>10, <2>1, <3>1
  <2>2. CASE loader.at = "version"
    <3>1. \/ s = Over("error") \/ s = Over("unsupported")
          \/ \E at : s = [To(at) EXCEPT !.image = e.image] /\ (at = "params" \/ at = "file" \/ (at = "ddc file" /\ e.ok /\ e.image = "op"))
      BY <2>2 DEF Succeeded, VersionRead
    <3> HIDE DEF s
    <3>2. CASE \E at : s = [To(at) EXCEPT !.image = e.image] /\ (at = "params" \/ at = "file" \/ (at = "ddc file" /\ e.ok /\ e.image = "op"))
      <4>0. PICK at : s = [To(at) EXCEPT !.image = e.image] /\ (at = "params" \/ at = "file" \/ (at = "ddc file" /\ e.ok /\ e.image = "op"))
        BY <3>2
      <4>1. Leads([To(at) EXCEPT !.image = e.image], at)
        BY <1>6
      <4>2. loader.at \in Early
        BY <2>2 DEF Early
      <4> QED
        BY <1>8, <4>0, <4>1, <4>2 DEF Late
    <3> QED
      BY <1>9, <3>1, <3>2
  <2>3. CASE loader.at = "params"
    <3>1. Leads(s, "file")
      BY <1>2, <2>3 DEF Succeeded
    <3> QED
      BY <1>8, <2>3, <3>1 DEF Early, Late
  <2>4. CASE loader.at = "version again"
    <3>1. (Leads(s, "ddc file") /\ e.ok /\ e.image = "op") \/ s = Over("shutting_down")
      BY <1>2, <2>4 DEF Succeeded
    <3> HIDE DEF s
    <3>2. CASE Leads(s, "ddc file") /\ e.ok /\ e.image = "op"
      BY <1>8, <3>2 DEF Early
    <3> QED
      BY <1>9, <3>1, <3>2
  <2>5. CASE loader.at = "send"
    <3>1. s = [loader EXCEPT !.wait = "no", !.pieces = Tail(loader.pieces)]
      BY <2>5 DEF Succeeded
    <3>2. Leads(s, "send") /\ s.pieces = Tail(loader.pieces)
      BY <1>7, <2>5, <3>1
    <3> HIDE DEF s
    <3> QED
      BY <1>8, <2>5, <3>2 DEF Early, Late
  <2> QED
    BY <2>1, <2>2, <2>3, <2>4, <2>5 DEF Waiting, Draining, IntelCommands
<1> QED
  BY <1>4, <1>11, <1>12 DEF Right, WouldGo

\* The loader goes on to a stage that waits for nothing.
LEMMA FirmMoves ==
    ASSUME DongleInv, FirmInv, loader.at # "idle", chip' = chip, hub' = hub,
           loader'.wait = "no", loader'.file = loader.file, loader'.at \notin {"idle", "send", "reset"},
           loader'.at \in Early => loader.at \in Early,
           Ready' => Ready \/ Operating,
           pipes'.out \in Seq(Requests), NoneLive(pipes'.out), NoReset(pipes.out) => NoReset(pipes'.out),
           pipes.bulk = <<>> => pipes'.bulk = <<>>, pipes'.bulk \in Seq(ChipAnswers), pipes'.intr \in Seq(ChipAnswers),
           OpSaid(pipes'.intr) => Operating
    PROVE  FirmInv'
<1>1. hub.at = "adding"
  BY DEF FirmInv, PortInv
<1>2. PortInv'
  BY <1>1 DEF FirmInv, PortInv
<1>3. RequestInv'
  <2>1. LiveAre(pipes'.out, Opcode')
    BY QueueDead
  <2> QED
    BY <2>1 DEF FirmInv, RequestInv
<1>4. CarriedInv'
  BY DEF FirmInv, CarriedInv
<1>5. ImageInv'
  BY DEF FirmInv, ImageInv, Operating
<1> QED
  BY <1>2, <1>3, <1>4, <1>5 DEF FirmInv

----------------------------------------------------------------------------
\* The steps of the loader, the dongle and its port

LEMMA FirmQueues ==
    ASSUME DongleInv, FirmInv, Queues
    PROVE  FirmInv'
<1>0. /\ DOMAIN loader = DOMAIN NoLoader /\ DOMAIN pipes = DOMAIN NoPipes /\ loader.wait = "no" /\ loader.at \in Waiting
      /\ pipes.out \in Seq(Requests) /\ NoneLive(pipes.out) /\ UNCHANGED <<chip, hub>>
      /\ loader.at = "send" => loader.pieces # <<>>
  BY DEF DongleInv, Queues, Waiting
<1>1. loader.at # "idle" /\ hub.at = "adding"
  BY <1>0 DEF FirmInv, PortInv, Waiting, Draining, IntelCommands
<1>2. CASE loader' = Failed /\ UNCHANGED pipes
  <2>1. /\ loader'.wait = "no" /\ loader'.file = loader.file /\ loader'.at \notin {"idle", "send", "reset"}
        /\ loader'.at \in Early => loader.at \in Early
        /\ Ready' => Ready
    BY <1>0, <1>2, StageGoes DEF Ready
  <2>2. pipes.intr \in Seq(ChipAnswers) /\ pipes.bulk \in Seq(ChipAnswers) /\ (OpSaid(pipes.intr) => Operating)
    BY DEF FirmInv, PortInv, ImageInv
  <2> QED
    BY <1>0, <1>1, <1>2, <2>1, <2>2, FirmMoves
<1>3. CASE /\ loader' = [loader EXCEPT !.wait = IF loader.at \in Draining THEN "event" ELSE "sent", !.skips = 0]
           /\ pipes' = [pipes EXCEPT !.reads = Reading, !.out = IF loader.at \in Draining THEN @
                                                               ELSE Append(@, [at |-> Opcode, live |-> TRUE])]
  <2>1. /\ loader'.at = loader.at /\ loader'.file = loader.file /\ loader'.pieces = loader.pieces /\ loader'.result = loader.result
        /\ loader'.wait = IF loader.at \in Draining THEN "event" ELSE "sent"
    BY <1>0, <1>3 DEF NoLoader
  <2>2. /\ pipes'.reads = Reading /\ pipes'.intr = pipes.intr /\ pipes'.bulk = pipes.bulk
        /\ pipes'.out = IF loader.at \in Draining THEN pipes.out ELSE Append(pipes.out, [at |-> Opcode, live |-> TRUE])
    BY <1>0, <1>3 DEF NoPipes
  <2>3. PortInv'
    BY <1>0, <1>1, <2>1, <2>2 DEF FirmInv, PortInv
  <2>4. RequestInv'
    <3>1. Opcode' = Opcode
      BY <2>1 DEF Opcode
    <3>2. loader.at \in Early \cup {"send"} => Opcode # "reset"
      BY DEF Opcode, Early
    <3>3. /\ LiveAre(pipes.out, Opcode)
          /\ loader.at \in Early \cup {"send"} => NoReset(pipes.out)
          /\ loader.at = "reset" => LiveResets(pipes.out)
      BY DEF FirmInv, RequestInv
    <3>8. PICK more, at : more = Append(pipes.out, [at |-> at, live |-> TRUE]) /\ at = Opcode
      OBVIOUS
    <3>9. /\ LiveAre(pipes.out, at) => LiveAre(more, at)
          /\ LiveResets(pipes.out) => LiveResets(more)
          /\ NoReset(pipes.out) /\ at # "reset" => NoReset(more)
      BY <1>0, <3>8, QueueMore, ZenonT(40)
    <3>10. pipes'.out = pipes.out \/ pipes'.out = more
      BY <2>2, <3>8
    <3>4. LiveAre(pipes'.out, Opcode)
      BY <3>3, <3>8, <3>9, <3>10
    <3>5. loader.at \in Early \cup {"send"} => NoReset(pipes'.out)
      BY <3>2, <3>3, <3>8, <3>9, <3>10
    <3>6. loader.at = "reset" => LiveResets(pipes'.out)
      BY <3>3, <3>9, <3>10
    <3>7. pipes'.reads = Reading'
      BY <2>1, <2>2 DEF Reading
    <3> QED
      BY <1>0, <2>1, <3>1, <3>4, <3>5, <3>6, <3>7 DEF RequestInv
  <2>5. CarriedInv'
    <3>1. loader.at = "send" => loader'.wait # "event"
      BY <2>1 DEF Draining
    <3> QED
      BY <1>0, <2>1, <2>2, <3>1 DEF FirmInv, CarriedInv
  <2>6. ImageInv'
    BY <1>0, <2>1, <2>2 DEF FirmInv, ImageInv, Ready, Operating
  <2> QED
    BY <2>3, <2>4, <2>5, <2>6 DEF FirmInv
<1> QED
  BY <1>2, <1>3 DEF Queues

LEMMA FirmGivesUp ==
    ASSUME DongleInv, FirmInv, SendTimesOut \/ EventTimesOut \/ EventFails
    PROVE  FirmInv'
<1>0. /\ DOMAIN loader = DOMAIN NoLoader /\ DOMAIN pipes = DOMAIN NoPipes /\ loader.at \in Waiting
      /\ pipes.out \in Seq(Requests) /\ (loader.wait # "sent" => NoneLive(pipes.out))
      /\ loader' = Failed \/ (loader' = Again /\ loader.at \in Draining)
      /\ UNCHANGED <<chip, hub>>
  BY DEF DongleInv, SendTimesOut, EventTimesOut, EventFails
<1>1. loader.at # "idle"
  BY <1>0 DEF Waiting, Draining, IntelCommands
<1>2. /\ loader'.wait = "no" /\ loader'.file = loader.file /\ loader'.at \notin {"idle", "send", "reset"}
      /\ loader'.at \in Early => loader.at \in Early
      /\ Ready' => Ready
  <2>1. CASE loader' = Failed
    BY <1>0, <2>1, StageGoes DEF Ready
  <2>2. CASE loader' = Again /\ loader.at \in Draining
    BY <1>0, <2>2, StageGoes DEF Ready, Draining
  <2> QED
    BY <1>0, <2>1, <2>2
<1>3. /\ pipes'.out \in {pipes.out, Abandoned} /\ pipes'.intr = pipes.intr /\ pipes'.bulk = pipes.bulk
      /\ pipes'.out = Abandoned \/ loader.wait # "sent"
  BY <1>0 DEF SendTimesOut, EventTimesOut, EventFails, NoPipes
<1>4. pipes'.out \in Seq(Requests) /\ NoneLive(pipes'.out) /\ (NoReset(pipes.out) => NoReset(pipes'.out))
  <2>1. CASE pipes'.out = Abandoned
    <3>1. pipes'.out \in Seq(Requests) /\ NoneLive(pipes'.out)
      BY <1>0, <2>1, RequestQueue DEF Abandoned
    <3>2. NoReset(pipes.out) => NoReset(pipes'.out)
      BY <1>0, <2>1, QueueGiven DEF Abandoned
    <3> QED
      BY <3>1, <3>2
  <2>2. CASE pipes'.out = pipes.out /\ loader.wait # "sent"
    BY <1>0, <2>2
  <2> QED
    BY <1>3, <2>1, <2>2
<1>5. pipes.intr \in Seq(ChipAnswers) /\ pipes.bulk \in Seq(ChipAnswers) /\ (OpSaid(pipes.intr) => Operating)
  BY DEF FirmInv, PortInv, ImageInv
<1> QED
  BY <1>0, <1>1, <1>2, <1>3, <1>4, <1>5, FirmMoves

LEMMA AnswerFacts ==
    ASSUME NEW q \in Seq(ChipAnswers)
    PROVE  /\ q # <<>> => /\ Head(q) \in ChipAnswers /\ Head(q) = q[1] /\ Tail(q) \in Seq(ChipAnswers)
                          /\ OpSaid(Tail(q)) => OpSaid(q)
                          /\ Head(q).code = "complete" /\ Head(q).ok /\ Head(q).image = "op" => OpSaid(q)
           /\ \A e \in ChipAnswers : /\ <<e>> \in Seq(ChipAnswers) /\ q \o <<e>> \in Seq(ChipAnswers)
                                     /\ OpSaid(q \o <<e>>) => OpSaid(q) \/ e.image = "op"
                                     /\ OpSaid(<<e>>) => e.code = "complete"
                                     /\ Len(<<e>>) = 1 /\ Tail(<<e>>) = <<>> /\ <<e>>[1] = e /\ <<>> \o <<e>> = <<e>>
           /\ <<>> \in Seq(ChipAnswers) /\ ~OpSaid(<<>>) /\ q \o <<>> = q
<1>0. Len(q) \in Nat
  OBVIOUS
<1>1. ASSUME q # <<>>
      PROVE  /\ Head(q) \in ChipAnswers /\ Head(q) = q[1] /\ Tail(q) \in Seq(ChipAnswers) /\ Len(Tail(q)) = Len(q) - 1 /\ Len(q) >= 1
             /\ 1 \in 1 .. Len(q) /\ \A i \in 1 .. Len(q) - 1 : Tail(q)[i] = q[i + 1] /\ i + 1 \in 1 .. Len(q)
  BY <1>1
<1>2. q # <<>> /\ OpSaid(Tail(q)) => OpSaid(q)
  BY <1>1 DEF OpSaid
<1>3. q # <<>> /\ Head(q).code = "complete" /\ Head(q).ok /\ Head(q).image = "op" => OpSaid(q)
  BY <1>1 DEF OpSaid
<1>4. ASSUME NEW e \in ChipAnswers
      PROVE  /\ <<e>> \in Seq(ChipAnswers) /\ q \o <<e>> \in Seq(ChipAnswers)
             /\ Len(<<e>>) = 1 /\ Tail(<<e>>) = <<>> /\ <<e>>[1] = e /\ <<>> \o <<e>> = <<e>>
  OBVIOUS
<1>5. ASSUME NEW e \in ChipAnswers PROVE OpSaid(<<e>>) => e.code = "complete"
  BY DEF OpSaid
<1>6. ASSUME NEW e \in ChipAnswers, OpSaid(q \o <<e>>) PROVE OpSaid(q) \/ e.image = "op"
  <2>1. \A i \in 1 .. Len(q \o <<e>>) : (i \in 1 .. Len(q) /\ (q \o <<e>>)[i] = q[i]) \/ (q \o <<e>>)[i] = e
    BY <1>0
  <2> QED
    BY <1>6, <2>1 DEF OpSaid
<1>7. <<>> \in Seq(ChipAnswers) /\ ~OpSaid(<<>>) /\ q \o <<>> = q
  BY DEF OpSaid
<1> QED
  BY <1>1, <1>2, <1>3, <1>4, <1>5, <1>6, <1>7

LEMMA FirmTakesEvent ==
    ASSUME DongleInv, FirmInv, TakesEvent
    PROVE  FirmInv'
<1>0. /\ DOMAIN loader = DOMAIN NoLoader /\ DOMAIN pipes = DOMAIN NoPipes /\ loader.wait = "event"
      /\ loader.at \in Waiting /\ pipes.reads \in {"intr", "bulk"} /\ pipes[pipes.reads] # <<>>
      /\ pipes.out \in Seq(Requests) /\ NoneLive(pipes.out) /\ UNCHANGED <<chip, hub>>
  BY DEF DongleInv, TakesEvent
<1>1. loader.at # "idle" /\ hub.at = "adding"
  BY <1>0 DEF FirmInv, PortInv, Waiting, Draining, IntelCommands
<1>2. pipes.intr \in Seq(ChipAnswers) /\ pipes.bulk \in Seq(ChipAnswers) /\ (OpSaid(pipes.intr) => Operating)
  BY DEF FirmInv, PortInv, ImageInv
<1> DEFINE e == Head(pipes[pipes.reads])
           left == [pipes EXCEPT ![pipes.reads] = Tail(@)]
           done == [left EXCEPT !.reads = "no"]
<1>3. ASSUME pipes' = left \/ pipes' = done
      PROVE  /\ pipes'.out = pipes.out
             /\ IF pipes.reads = "intr" THEN pipes'.intr = Tail(pipes.intr) /\ pipes'.bulk = pipes.bulk
                ELSE pipes'.intr = pipes.intr /\ pipes'.bulk = Tail(pipes.bulk)
  BY <1>0, <1>3 DEF NoPipes
<1>4. /\ IF pipes.reads = "intr" THEN pipes.intr # <<>> /\ e = Head(pipes.intr) ELSE pipes.bulk # <<>> /\ e = Head(pipes.bulk)
  BY <1>0
<1>5. \/ loader.at \in Draining /\ (loader' = Again \/ loader' = Failed) /\ pipes' = done
      \/ loader.at = "send" /\ loader' = (IF PieceTaken(e) THEN Succeeded(e) ELSE Failed) /\ pipes' = done
      \/ loader.at \notin Draining \cup {"send"} /\ loader' = [loader EXCEPT !.skips = @ + 1] /\ pipes' = left
      \/ loader.at \notin Draining \cup {"send"} /\ loader' = (IF Fits(e) THEN Succeeded(e) ELSE Failed) /\ pipes' = done
  BY DEF TakesEvent
<1> HIDE DEF e, left, done
<1>6. ASSUME pipes' = left \/ pipes' = done
      PROVE  /\ pipes'.intr \in Seq(ChipAnswers) /\ pipes'.bulk \in Seq(ChipAnswers) /\ (OpSaid(pipes'.intr) => Operating)
             /\ pipes.bulk = <<>> => pipes'.bulk = <<>>
  <2>1. ASSUME NEW q \in Seq(ChipAnswers), q # <<>> PROVE Tail(q) \in Seq(ChipAnswers) /\ (OpSaid(Tail(q)) => OpSaid(q))
    BY <2>1, AnswerFacts
  <2>2. CASE pipes.reads = "intr"
    BY <1>2, <1>3, <1>4, <1>6, <2>1, <2>2
  <2>3. CASE pipes.reads # "intr"
    BY <1>2, <1>3, <1>4, <1>6, <2>1, <2>3
  <2> QED
    BY <2>2, <2>3
<1>7. ASSUME pipes' = done, loader'.wait = "no", loader'.file = loader.file, loader'.at \notin {"idle", "send", "reset"},
             loader'.at \in Early => loader.at \in Early, Ready' => Ready \/ Operating
      PROVE  FirmInv'
  BY <1>0, <1>1, <1>3, <1>6, <1>7, FirmMoves
<1>8. CASE loader' = Failed /\ pipes' = done
  <2>1. /\ loader'.wait = "no" /\ loader'.file = loader.file /\ loader'.at \notin {"idle", "send", "reset"}
        /\ loader'.at \in Early => loader.at \in Early
        /\ Ready' => Ready
    BY <1>0, <1>8, StageGoes DEF Ready
  <2> QED
    BY <1>7, <1>8, <2>1
<1>9. CASE loader.at \in Draining /\ loader' = Again /\ pipes' = done
  <2>1. /\ loader'.wait = "no" /\ loader'.file = loader.file /\ loader'.at \notin {"idle", "send", "reset"}
        /\ loader'.at \in Early => loader.at \in Early
        /\ Ready' => Ready
    BY <1>0, <1>9, StageGoes DEF Ready, Draining
  <2> QED
    BY <1>7, <1>9, <2>1
<1>10. CASE loader.at \notin Draining \cup {"send"} /\ Fits(e) /\ loader' = Succeeded(e) /\ pipes' = done
  <2>1. /\ loader'.wait = "no" /\ loader'.file = loader.file /\ loader'.at \notin {"idle", "send", "reset"}
        /\ loader'.at \in Early => loader.at \in Early
        /\ Ready' => Ready \/ (e.ok /\ e.image = "op")
    BY <1>0, <1>10, StageGoes DEF Ready
  <2>2. e.ok /\ e.image = "op" => Operating
    <3>1. e.code = "complete"
      BY <1>10 DEF Fits
    <3>2. \A q \in Seq(ChipAnswers) : q # <<>> /\ Head(q).code = "complete" /\ Head(q).ok /\ Head(q).image = "op" => OpSaid(q)
      BY AnswerFacts
    <3>3. pipes.reads = "intr"
      BY <1>0, <1>10 DEF FirmInv, RequestInv, Reading
    <3> QED
      BY <1>2, <1>4, <3>1, <3>2, <3>3
  <2> QED
    BY <1>7, <1>10, <2>1, <2>2
<1>11. CASE loader.at \notin Draining \cup {"send"} /\ loader' = [loader EXCEPT !.skips = @ + 1] /\ pipes' = left
  <2>1. /\ loader'.at = loader.at /\ loader'.file = loader.file /\ loader'.result = loader.result /\ loader'.wait = loader.wait
    BY <1>0, <1>11 DEF NoLoader
  <2>2. PortInv'
    BY <1>0, <1>1, <1>6, <1>11 DEF FirmInv, PortInv
  <2>3. RequestInv'
    <3>1. Opcode' = Opcode
      BY <2>1 DEF Opcode
    <3>2. Reading' = Reading /\ pipes'.reads = pipes.reads /\ loader'.pieces = loader.pieces
      BY <1>0, <1>11, <2>1 DEF Reading, NoLoader, NoPipes, left
    <3> QED
      BY <1>3, <1>11, <2>1, <3>1, <3>2 DEF FirmInv, RequestInv
  <2>4. CarriedInv'
    BY <1>0, <1>6, <1>11, <2>1 DEF FirmInv, CarriedInv
  <2>5. ImageInv'
    BY <1>0, <1>6, <1>11, <2>1 DEF FirmInv, ImageInv, Ready, Operating
  <2> QED
    BY <2>2, <2>3, <2>4, <2>5 DEF FirmInv
<1>12. CASE loader.at = "send" /\ PieceTaken(e) /\ loader' = Succeeded(e) /\ pipes' = done
  <2>1. /\ loader'.wait = "no" /\ loader'.file = loader.file /\ loader'.at \notin {"idle", "reset"}
        /\ loader'.at \in Early => loader.at \in Early
        /\ loader'.at = "send" => loader'.pieces = Tail(loader.pieces)
        /\ Ready' => Ready \/ (e.ok /\ e.image = "op")
    BY <1>0, <1>12, StageGoes DEF Ready
  <2>2. loader'.at = "send"
    BY <1>0, <1>12 DEF Succeeded, NoLoader
  <2>3. pipes.reads = "bulk"
    BY <1>0, <1>12 DEF FirmInv, RequestInv, Reading
  <2>4. PortInv'
    BY <1>0, <1>1, <1>6, <1>12 DEF FirmInv, PortInv
  <2>5. RequestInv'
    <3>1. NoReset(pipes'.out) /\ LiveAre(pipes'.out, Opcode')
      BY <1>0, <1>3, <1>12, QueueDead DEF FirmInv, RequestInv
    <3> QED
      BY <2>1, <2>2, <3>1 DEF RequestInv
  <2>6. CarriedInv'
    <3> SUFFICES ASSUME ~chip.astray, loader.file.part = "whole"
                 PROVE  pipes'.bulk = <<>> /\ Carries(loader'.pieces, chip.got, Whole(loader.file))
      BY <1>0, <2>1, <2>2 DEF CarriedInv, Early
    <3>1. Tail(pipes.bulk) = <<>> /\ (PieceTaken(pipes.bulk[1]) => Carries(Tail(loader.pieces), chip.got, Whole(loader.file)))
      BY <1>0, <1>4, <1>12, <2>3 DEF FirmInv, CarriedInv
    <3>2. e = pipes.bulk[1]
      BY <1>2, <1>4, <2>3, AnswerFacts
    <3> QED
      BY <1>3, <1>12, <2>1, <2>2, <2>3, <3>1, <3>2
  <2>7. ImageInv'
    <3>1. ~Ready'
      BY <2>2 DEF Ready, Late
    <3> QED
      BY <1>0, <1>6, <1>12, <2>1, <3>1 DEF FirmInv, ImageInv, Operating
  <2> QED
    BY <2>4, <2>5, <2>6, <2>7 DEF FirmInv
<1> QED
  BY <1>5, <1>8, <1>9, <1>10, <1>11, <1>12

\* The answers are those of the chip's image.
LEMMA AnswersAre ==
    ASSUME FirmInv, NEW at \in IntelCommands, NEW s \in Completed(at)
    PROVE  /\ pipes.intr \o s \in Seq(ChipAnswers) /\ (OpSaid(pipes.intr \o s) => Operating)
           /\ Stray \in ChipAnswers /\ Stray.code = "vendor" /\ Stray.image = chip.image
           /\ \A code \in {"vendor", "complete"}, ok \in BOOLEAN :
                 Event(code, "send", ok) \in ChipAnswers /\ Event(code, "send", ok).code = code /\ Event(code, "send", ok).ok = ok
<1>0. pipes.intr \in Seq(ChipAnswers) /\ (OpSaid(pipes.intr) => Operating) /\ chip.image \in Images
  BY DEF FirmInv, PortInv, ImageInv
<1>1. \A code \in {"vendor", "complete", "status"}, ok \in BOOLEAN, x \in IntelCommands \cup {"send", "none"} :
         /\ Event(code, x, ok) \in ChipAnswers /\ Event(code, x, ok).image = chip.image
         /\ Event(code, x, ok).code = code /\ Event(code, x, ok).ok = ok
  BY <1>0 DEF Event, ChipAnswers
<1>2. s = <<>> \/ \E e \in ChipAnswers : s = <<e>> /\ e.image = chip.image
  <2>1. \/ s = <<>> \/ s = <<Event("complete", at, TRUE)>> \/ s = <<Event("complete", at, FALSE)>> \/ s = <<Event("status", at, TRUE)>>
    BY DEF Completed
  <2> QED
    BY <1>1, <2>1
<1>3. CASE s = <<>>
  <2>1. pipes.intr \o s = pipes.intr
    BY <1>0, <1>3, AnswerFacts
  <2> QED
    BY <1>0, <1>1, <2>1, ZenonT(40) DEF Stray
<1>4. CASE \E e \in ChipAnswers : s = <<e>> /\ e.image = chip.image
  <2>1. PICK e \in ChipAnswers : s = <<e>> /\ e.image = chip.image
    BY <1>4
  <2>2. pipes.intr \o s \in Seq(ChipAnswers) /\ (OpSaid(pipes.intr \o s) => OpSaid(pipes.intr) \/ e.image = "op")
    BY <1>0, <2>1, AnswerFacts
  <2>3. OpSaid(pipes.intr \o s) => Operating
    BY <1>0, <2>1, <2>2 DEF Operating
  <2>4. Stray \in ChipAnswers /\ Stray.code = "vendor" /\ Stray.image = chip.image
    BY <1>1 DEF Stray
  <2> QED
    BY <1>1, <2>2, <2>3, <2>4
<1> QED
  BY <1>2, <1>3, <1>4

\* Only a request that is waited for brings a piece; a reset that nobody waits for any
\* more comes after the download.
LEMMA FirmRequestSent ==
    ASSUME DongleInv, FirmInv, RequestSent
    PROVE  FirmInv'
<1>0. /\ DOMAIN loader = DOMAIN NoLoader /\ DOMAIN pipes = DOMAIN NoPipes /\ pipes.out # <<>> /\ chip.on
      /\ (loader.wait # "no" => loader.at \in Waiting)
      /\ pipes.out \in Seq(Requests) /\ (loader.wait # "sent" => NoneLive(pipes.out)) /\ UNCHANGED hub
  BY DEF DongleInv, RequestSent
<1>1. /\ DOMAIN chip = {"family", "image", "on", "got", "strays", "astray"} /\ hub.at \notin {"empty", "new"}
      /\ (loader.at # "idle" => hub.at = "adding") /\ DOMAIN hub = {"at", "slot", "attempts", "plugs"}
      /\ pipes.intr \in Seq(ChipAnswers) /\ pipes.bulk \in Seq(ChipAnswers)
  BY <1>0 DEF FirmInv, PortInv
<1>2. /\ LiveAre(pipes.out, Opcode)
      /\ loader.at \in Early \cup {"send"} => NoReset(pipes.out)
      /\ loader.at = "reset" => LiveResets(pipes.out)
      /\ loader.wait # "no" => pipes.reads = Reading
      /\ loader.at = "send" /\ loader.wait # "no" => loader.pieces # <<>>
  BY DEF FirmInv, RequestInv
<1> DEFINE r == Head(pipes.out)
           sent == IF loader.at = "reset" THEN AfterReset ELSE [loader EXCEPT !.wait = "event"]
           returned(ends) == IF ends THEN sent ELSE loader
           rest(ends) == [pipes EXCEPT !.out = Tail(IF ends THEN Abandoned ELSE @)]
           replied(ends, pipe, s) == [rest(ends) EXCEPT ![pipe] = @ \o s]
<1>3. PICK ends \in IF r.live THEN {TRUE} ELSE IF loader.wait = "sent" THEN BOOLEAN ELSE {FALSE} :
         \/ /\ r.at \in IntelCommands /\ UNCHANGED chip
            /\ loader' = returned(ends) /\ \E s \in Completed(r.at) : pipes' = replied(ends, "intr", s)
         \/ /\ r.at = "send" /\ r.live /\ loader' = returned(ends)
            /\ \/ chip' = Keeps(Head(loader.pieces)) /\ pipes' = replied(ends, "bulk", <<Event("vendor", r.at, TRUE)>>)
               \/ /\ UNCHANGED chip
                  /\ pipes' \in {rest(ends)} \cup {replied(ends, "bulk", <<Event(code, r.at, FALSE)>>) : code \in {"vendor", "complete"}}
         \/ /\ r.at = "reset" /\ loader' = returned(ends)
            /\ \E on \in IF chip.family = "legacy" THEN BOOLEAN ELSE {FALSE} :
                  chip' = Boots(IF chip.got = Whole(loader.file) THEN loader.file.boots ELSE chip.image, on)
            /\ pipes' = [pipes EXCEPT !.out = <<>>, !.bulk = <<>>, !.intr = <<Stray>>]
         \/ r.live /\ loader' = Failed /\ pipes' = [rest(ends) EXCEPT !.reads = "no"] /\ UNCHANGED chip
  BY DEF RequestSent
<1>4. /\ r \in Requests /\ ends \in BOOLEAN
      /\ r.live => ends /\ r.at = Opcode
      /\ ends => loader.wait = "sent"
  <2>1. r \in Requests /\ (r.live => loader.wait = "sent")
    BY <1>0, RequestQueue
  <2>2. r.live => r.at = Opcode
    BY <1>0, <1>2, QueueTail
  <2> HIDE DEF r
  <2>3. r.live => ends
    BY <1>3
  <2>4. ends => loader.wait = "sent"
    BY <1>3, <2>1
  <2>5. ends \in BOOLEAN
    BY <1>3
  <2> QED
    BY <2>1, <2>2, <2>3, <2>4, <2>5
<1> DEFINE o == Tail(IF ends THEN Abandoned ELSE pipes.out)
<1>5. /\ DOMAIN rest(ends) = DOMAIN NoPipes /\ rest(ends).reads = pipes.reads /\ rest(ends).out = o
      /\ rest(ends).intr = pipes.intr /\ rest(ends).bulk = pipes.bulk
  BY <1>0 DEF NoPipes
<1>6. /\ o \in Seq(Requests)
      /\ ends \/ loader.wait # "sent" => NoneLive(o)
      /\ LiveAre(o, Opcode)
      /\ NoReset(pipes.out) => NoReset(o) /\ r.at # "reset"
      /\ LiveResets(pipes.out) /\ ~ends => LiveResets(o) /\ r.at # "reset"
  <2>1. CASE ends
    <3>1. o \in Seq(Requests) /\ NoneLive(o)
      BY <1>0, <2>1, RequestQueue DEF Abandoned
    <3>2. LiveAre(o, Opcode)
      <4> HIDE DEF o
      <4> QED
        BY <3>1, QueueDead
    <3>3. NoReset(pipes.out) => NoReset(o)
      BY <1>0, <2>1, QueueGiven DEF Abandoned
    <3>4. NoReset(pipes.out) => r.at # "reset"
      BY <1>0, QueueTail
    <3> QED
      BY <2>1, <3>1, <3>2, <3>3, <3>4
  <2>2. CASE ~ends
    <3>1. o = Tail(pipes.out)
      BY <2>2
    <3>2. o \in Seq(Requests) /\ (loader.wait # "sent" => NoneLive(o))
      BY <1>0, <3>1, RequestQueue
    <3>3. /\ LiveAre(o, Opcode)
          /\ NoReset(pipes.out) => NoReset(o) /\ r.at # "reset"
          /\ LiveResets(pipes.out) => LiveResets(o) /\ (r.at = "reset" => r.live)
      BY <1>0, <1>2, <3>1, QueueTail
    <3> QED
      BY <1>4, <2>2, <3>2, <3>3
  <2> QED
    BY <1>4, <2>1, <2>2
<1>7. /\ loader.at = "reset" => sent = Failed
      /\ loader.at # "reset" => sent.at = loader.at /\ sent.wait = "event" /\ sent.file = loader.file
                                /\ sent.pieces = loader.pieces /\ sent.result = loader.result
  BY <1>0 DEF Failed, Proceeds, NoLoader
<1>8. loader.wait = "sent" /\ loader' = Failed =>
         /\ loader'.wait = "no" /\ loader'.file = loader.file /\ loader'.at \notin {"idle", "send", "reset"}
         /\ loader'.at \in Early => loader.at \in Early
         /\ Ready' => Ready
  BY <1>0, StageGoes DEF Ready
<1> HIDE DEF r, sent, rest, o
\* The request has been sent, and what it does to the chip is seen by its answer.
<1>9. ASSUME loader' = returned(ends), UNCHANGED chip, pipes'.out = o, pipes'.reads = pipes.reads, pipes'.bulk = pipes.bulk,
             pipes'.intr \in Seq(ChipAnswers), OpSaid(pipes'.intr) => Operating
      PROVE  FirmInv'
  <2>1. CASE ends /\ loader.at = "reset"
    BY <1>0, <1>1, <1>4, <1>6, <1>7, <1>8, <1>9, <2>1, FirmMoves
  <2>2. CASE ~(ends /\ loader.at = "reset")
    <3>1. /\ loader'.at = loader.at /\ loader'.file = loader.file /\ loader'.pieces = loader.pieces /\ loader'.result = loader.result
          /\ loader'.wait = IF ends THEN "event" ELSE loader.wait
      BY <1>4, <1>7, <1>9, <2>2
    <3>2. PortInv'
      BY <1>0, <1>1, <1>9, <3>1 DEF FirmInv, PortInv
    <3>3. RequestInv'
      <4>1. Opcode' = Opcode /\ Reading' = Reading
        BY <3>1 DEF Opcode, Reading
      <4>2. LiveAre(pipes'.out, Opcode')
        BY <1>6, <1>9, <4>1
      <4>3. loader.at \in Early \cup {"send"} => NoReset(pipes'.out)
        BY <1>2, <1>6, <1>9
      <4>4. loader.at = "reset" => LiveResets(pipes'.out)
        BY <1>2, <1>4, <1>6, <1>9, <2>2
      <4>5. loader'.wait # "no" => loader.wait # "no"
        BY <1>4, <3>1
      <4> QED
        BY <1>2, <1>9, <3>1, <4>1, <4>2, <4>3, <4>4, <4>5 DEF RequestInv
    <3>4. CarriedInv'
      BY <1>4, <1>9, <3>1 DEF FirmInv, CarriedInv
    <3>5. ImageInv'
      BY <1>9, <3>1 DEF FirmInv, ImageInv, Ready, Operating
    <3> QED
      BY <3>2, <3>3, <3>4, <3>5 DEF FirmInv
  <2> QED
    BY <2>1, <2>2
<1>10. CASE /\ r.at \in IntelCommands /\ UNCHANGED chip
            /\ loader' = returned(ends) /\ \E s \in Completed(r.at) : pipes' = replied(ends, "intr", s)
  <2>1. PICK s \in Completed(r.at) : pipes' = replied(ends, "intr", s)
    BY <1>10
  <2>2. pipes.intr \o s \in Seq(ChipAnswers) /\ (OpSaid(pipes.intr \o s) => Operating)
    BY <1>10, AnswersAre
  <2>3. pipes'.out = o /\ pipes'.reads = pipes.reads /\ pipes'.bulk = pipes.bulk /\ pipes'.intr = pipes.intr \o s
    BY <1>5, <2>1 DEF NoPipes
  <2> QED
    BY <1>9, <1>10, <2>2, <2>3
<1>11. CASE r.live /\ loader' = Failed /\ pipes' = [rest(ends) EXCEPT !.reads = "no"] /\ UNCHANGED chip
  <2>1. pipes'.out = o /\ pipes'.bulk = pipes.bulk /\ pipes'.intr = pipes.intr
    BY <1>5, <1>11 DEF NoPipes
  <2>2. OpSaid(pipes.intr) => Operating
    BY DEF FirmInv, ImageInv
  <2>3. loader.at # "idle"
    BY <1>0, <1>4, <1>11 DEF Waiting, Draining, IntelCommands
  <2> QED
    BY <1>0, <1>1, <1>4, <1>6, <1>8, <1>11, <2>1, <2>2, <2>3, FirmMoves
\* A piece
<1>12. CASE /\ r.at = "send" /\ r.live /\ loader' = returned(ends)
            /\ \/ chip' = Keeps(Head(loader.pieces)) /\ pipes' = replied(ends, "bulk", <<Event("vendor", r.at, TRUE)>>)
               \/ /\ UNCHANGED chip
                  /\ pipes' \in {rest(ends)} \cup {replied(ends, "bulk", <<Event(code, r.at, FALSE)>>) : code \in {"vendor", "complete"}}
  <2>1. ends /\ loader.at = "send" /\ loader.wait = "sent" /\ loader.pieces # <<>>
    BY <1>2, <1>4, <1>12 DEF Opcode
  <2>2. /\ loader'.at = "send" /\ loader'.file = loader.file /\ loader'.pieces = loader.pieces /\ loader'.result = loader.result
        /\ loader'.wait = "event"
    BY <1>7, <1>12, <2>1
  <2>3. /\ \A code \in {"vendor", "complete"}, ok \in BOOLEAN :
              Event(code, "send", ok) \in ChipAnswers /\ Event(code, "send", ok).code = code /\ Event(code, "send", ok).ok = ok
    <3>1. "ddc" \in IntelCommands /\ <<>> \in Completed("ddc")
      BY DEF IntelCommands, Completed
    <3> QED
      BY <3>1, AnswersAre
  <2>4. /\ pipes'.out = o /\ pipes'.reads = pipes.reads /\ pipes'.intr = pipes.intr
        /\ \/ chip' = Keeps(Head(loader.pieces)) /\ \E e \in ChipAnswers : pipes'.bulk = pipes.bulk \o <<e>>
           \/ UNCHANGED chip /\ pipes'.bulk = pipes.bulk
           \/ UNCHANGED chip /\ \E e \in ChipAnswers : pipes'.bulk = pipes.bulk \o <<e>> /\ ~PieceTaken(e)
    <3>1. CASE chip' = Keeps(Head(loader.pieces)) /\ pipes' = replied(ends, "bulk", <<Event("vendor", r.at, TRUE)>>)
      <4>1. Event("vendor", r.at, TRUE) \in ChipAnswers
        BY <1>12, <2>3
      <4> QED
        BY <1>5, <3>1, <4>1 DEF NoPipes
    <3>2. CASE UNCHANGED chip /\ pipes' = rest(ends)
      BY <1>5, <3>2
    <3>3. CASE UNCHANGED chip /\ \E code \in {"vendor", "complete"} : pipes' = replied(ends, "bulk", <<Event(code, r.at, FALSE)>>)
      <4>1. PICK code \in {"vendor", "complete"} : pipes' = replied(ends, "bulk", <<Event(code, r.at, FALSE)>>)
        BY <3>3
      <4>2. Event(code, r.at, FALSE) \in ChipAnswers /\ ~PieceTaken(Event(code, r.at, FALSE))
        BY <1>12, <2>3 DEF PieceTaken
      <4>3. pipes'.out = o /\ pipes'.reads = pipes.reads /\ pipes'.intr = pipes.intr /\ pipes'.bulk = pipes.bulk \o <<Event(code, r.at, FALSE)>>
        BY <1>5, <4>1 DEF NoPipes
      <4> QED
        BY <3>3, <4>2, <4>3
    <3> QED
      BY <1>12, <3>1, <3>2, <3>3
  <2>5. /\ DOMAIN chip' = DOMAIN chip /\ chip'.family = chip.family /\ chip'.image = chip.image
        /\ chip'.on = chip.on /\ chip'.astray = chip.astray
        /\ chip' = Keeps(Head(loader.pieces)) => chip'.got = Fed(chip.got, Head(loader.pieces))
    <3>1. CASE chip' = Keeps(Head(loader.pieces))
      BY <1>1, <3>1 DEF Keeps, Fed
    <3>2. CASE UNCHANGED chip /\ chip' # Keeps(Head(loader.pieces))
      BY <3>2
    <3> QED
      BY <2>4, <3>1, <3>2
  <2>6. pipes'.bulk \in Seq(ChipAnswers)
    <3>1. \A e \in ChipAnswers : pipes.bulk \o <<e>> \in Seq(ChipAnswers)
      BY <1>1, AnswerFacts
    <3> QED
      BY <1>1, <2>4, <3>1
  <2>7. PortInv'
    BY <1>0, <1>1, <2>1, <2>2, <2>4, <2>5, <2>6 DEF FirmInv, PortInv
  <2>8. RequestInv'
    <3>1. Opcode' = Opcode /\ Reading' = Reading
      BY <2>1, <2>2 DEF Opcode, Reading
    <3> QED
      BY <1>2, <1>6, <2>1, <2>2, <2>4, <3>1 DEF RequestInv
  <2>9. CarriedInv'
    <3> SUFFICES ASSUME ~chip.astray, loader.file.part = "whole"
                 PROVE  \/ pipes'.bulk = <<>>
                        \/ /\ Len(pipes'.bulk) = 1 /\ Tail(pipes'.bulk) = <<>>
                           /\ PieceTaken(pipes'.bulk[1]) => Carries(Tail(loader.pieces), chip'.got, Whole(loader.file))
      <4>1. Whole(loader'.file) = Whole(loader.file) /\ loader'.at \notin Early /\ loader'.at # "reset"
        BY <2>2 DEF Early
      <4> QED
        BY <2>2, <2>5, <4>1 DEF CarriedInv
    <3>1. pipes.bulk = <<>> /\ Carries(loader.pieces, chip.got, Whole(loader.file))
      BY <2>1 DEF FirmInv, CarriedInv
    <3>2. Carries(Tail(loader.pieces), Fed(chip.got, Head(loader.pieces)), Whole(loader.file))
      BY <2>1, <3>1, CarriesTail
    <3>3. \A e \in ChipAnswers : LET s == pipes.bulk \o <<e>> IN Len(s) = 1 /\ Tail(s) = <<>> /\ s[1] = e
      BY <3>1, AnswerFacts
    <3>4. CASE chip' = Keeps(Head(loader.pieces)) /\ \E e \in ChipAnswers : pipes'.bulk = pipes.bulk \o <<e>>
      BY <2>5, <3>2, <3>3, <3>4
    <3>5. CASE UNCHANGED chip /\ \E e \in ChipAnswers : pipes'.bulk = pipes.bulk \o <<e>> /\ ~PieceTaken(e)
      BY <3>3, <3>5
    <3> QED
      BY <2>4, <3>1, <3>4, <3>5
  <2>10. ImageInv'
    <3>1. ~Ready'
      BY <2>2 DEF Ready, Late
    <3> QED
      BY <2>2, <2>4, <2>5, <3>1 DEF FirmInv, ImageInv, Operating
  <2> QED
    BY <2>7, <2>8, <2>9, <2>10 DEF FirmInv
\* A reset
<1>13. CASE /\ r.at = "reset" /\ loader' = returned(ends)
            /\ \E on \in IF chip.family = "legacy" THEN BOOLEAN ELSE {FALSE} :
                  chip' = Boots(IF chip.got = Whole(loader.file) THEN loader.file.boots ELSE chip.image, on)
            /\ pipes' = [pipes EXCEPT !.out = <<>>, !.bulk = <<>>, !.intr = <<Stray>>]
  <2>1. loader.at \notin Early \cup {"send"} /\ (loader.at = "reset" => ends)
    BY <1>2, <1>4, <1>6, <1>13
  <2>2. /\ loader'.file = loader.file /\ loader'.at \notin Early \cup {"send", "reset"}
        /\ Ready' => Ready
        /\ loader'.at # "idle" => loader.at # "idle"
    <3>1. CASE ends /\ loader.at = "reset"
      BY <1>4, <1>7, <1>8, <1>13, <3>1 DEF Early
    <3>2. CASE ends /\ loader.at # "reset"
      BY <1>7, <1>13, <2>1, <3>2 DEF Ready
    <3>3. CASE ~ends
      BY <1>13, <2>1, <3>3 DEF Ready
    <3> QED
      BY <1>4, <3>1, <3>2, <3>3
  <2>3. PICK on \in IF chip.family = "legacy" THEN BOOLEAN ELSE {FALSE} :
           chip' = Boots(IF chip.got = Whole(loader.file) THEN loader.file.boots ELSE chip.image, on)
    BY <1>13
  <2>4. /\ DOMAIN chip' = DOMAIN chip /\ chip'.family = chip.family
        /\ chip'.image \in {loader.file.boots, chip.image}
    BY <1>1, <2>3 DEF Boots
  <2>5. chip.family # "legacy" => ~chip'.on
    BY <1>1, <2>3 DEF Boots
  <2>6. pipes'.out = <<>> /\ pipes'.bulk = <<>> /\ pipes'.intr = <<Stray>> /\ pipes'.reads = pipes.reads
    BY <1>0, <1>13 DEF NoPipes
  <2>7. <<Stray>> \in Seq(ChipAnswers) /\ ~OpSaid(<<Stray>>) /\ <<>> \in Seq(ChipAnswers)
    <3>1. "ddc" \in IntelCommands /\ <<>> \in Completed("ddc")
      BY DEF IntelCommands, Completed
    <3>2. Stray \in ChipAnswers /\ Stray.code = "vendor"
      BY <3>1, AnswersAre
    <3> QED
      BY <1>1, <3>2, AnswerFacts
  <2>8. PortInv'
    BY <1>0, <1>1, <2>2, <2>4, <2>6, <2>7 DEF PortInv
  <2>9. RequestInv'
    <3>1. LiveAre(<<>>, Opcode')
      BY DEF LiveAre
    <3>2. loader'.wait # "no" => pipes'.reads = Reading'
      <4>1. CASE ends /\ loader.at = "reset"
        BY <1>4, <1>7, <1>8, <1>13, <4>1
      <4>2. CASE ~(ends /\ loader.at = "reset")
        <5>1. loader'.at = loader.at /\ (loader'.wait # "no" => loader.wait # "no")
          BY <1>4, <1>7, <1>13, <4>2
        <5>2. Reading' = Reading
          BY <5>1 DEF Reading
        <5> QED
          BY <1>2, <2>6, <5>1, <5>2
      <4> QED
        BY <4>1, <4>2
    <3> QED
      BY <2>2, <2>6, <3>1, <3>2 DEF RequestInv
  <2>10. CarriedInv'
    BY <2>2 DEF CarriedInv
  <2>11. ImageInv'
    <3>1. /\ chip.image \in Images /\ loader.file.boots \in Images
          /\ chip.family = "legacy" => loader.file.boots = "op"
          /\ Ready => chip.image = "op"
      BY <1>0 DEF FirmInv, ImageInv, Operating
    <3>2. Ready' => Operating'
      BY <2>2, <2>4, <2>5, <3>1 DEF Operating
    <3> QED
      BY <2>2, <2>4, <2>6, <2>7, <3>1, <3>2 DEF ImageInv
  <2> QED
    BY <2>8, <2>9, <2>10, <2>11 DEF FirmInv
<1> QED
  BY <1>3, <1>10, <1>11, <1>12, <1>13

LEMMA FirmLoads ==
    ASSUME DongleInv, FirmInv, LoadsFirmware \/ EndsDownload \/ LoadsDdc
    PROVE  FirmInv'
<1>0. /\ DOMAIN loader = DOMAIN NoLoader /\ loader.wait = "no" /\ UNCHANGED <<pipes, chip, hub>>
      /\ loader.at \in {"file", "send", "ddc file"}
      /\ pipes.out \in Seq(Requests) /\ NoneLive(pipes.out)
  BY DEF DongleInv, LoadsFirmware, EndsDownload, LoadsDdc, Waiting, Draining, IntelCommands
<1>1. /\ pipes.intr \in Seq(ChipAnswers) /\ pipes.bulk \in Seq(ChipAnswers) /\ (OpSaid(pipes.intr) => Operating)
      /\ hub.at = "adding"
  BY <1>0 DEF FirmInv, PortInv, ImageInv
<1>2. ASSUME loader'.wait = "no", loader'.file = loader.file, loader'.at \in {"over", "mask", "ddc"},
             Ready' => Ready
      PROVE  FirmInv'
  BY <1>0, <1>1, <1>2, FirmMoves DEF Early
<1>3. /\ \A at : LET l == To(at) IN l.at = at /\ l.wait = "no" /\ l.file = loader.file /\ l.result = loader.result /\ l.pieces = loader.pieces
      /\ \A result : LET l == Over(result) IN l.at = "over" /\ l.wait = "no" /\ l.file = loader.file /\ l.result = result
      /\ \A n : LET l == [To("ddc") EXCEPT !.n = n] IN l.at = "ddc" /\ l.wait = "no" /\ l.file = loader.file
      /\ \A file, q : LET l == [To("send") EXCEPT !.file = file, !.pieces = q] IN l.at = "send" /\ l.wait = "no" /\ l.file = file /\ l.pieces = q
  BY <1>0 DEF To, Over, NoLoader
<1>4. CASE loader' = Over("error")
  <2>1. loader'.at = "over" /\ loader'.wait = "no" /\ loader'.file = loader.file /\ loader'.result = "error"
    BY <1>3, <1>4
  <2> QED
    BY <1>2, <2>1 DEF Ready, Late
<1>5. CASE LoadsDdc
  <2>1. Ready
    BY <1>5 DEF LoadsDdc, Ready, Late
  <2>2. loader' = To("mask") \/ loader' = Over("ok") \/ \E n : loader' = [To("ddc") EXCEPT !.n = n]
    BY <1>5 DEF LoadsDdc, AfterDdc
  <2>3. loader'.wait = "no" /\ loader'.file = loader.file /\ loader'.at \in {"over", "mask", "ddc"}
    <3>1. CASE loader' = To("mask") \/ loader' = Over("ok")
      BY <1>3, <3>1
    <3>2. CASE \E n : loader' = [To("ddc") EXCEPT !.n = n]
      BY <1>3, <3>2
    <3> QED
      BY <2>2, <3>1, <3>2
  <2> QED
    BY <1>2, <2>1, <2>3
<1>6. CASE loader.at = "file" /\ \E file \in Disk : /\ file.boots = FirmwareFor(loader.image)
                                                    /\ loader' = [To("send") EXCEPT !.file = file, !.pieces = Sent(file)]
  <2>1. PICK file \in Disk : /\ file.boots = FirmwareFor(loader.image)
                             /\ loader' = [To("send") EXCEPT !.file = file, !.pieces = Sent(file)]
    BY <1>6
  <2>2. loader'.at = "send" /\ loader'.wait = "no" /\ loader'.file = file /\ loader'.pieces = Sent(file)
    BY <1>3, <2>1
  <2>3. loader.at \in Early
    BY <1>6 DEF Early
  <2>4. PortInv'
    BY <1>0, <1>1, <2>2 DEF FirmInv, PortInv
  <2>5. RequestInv'
    <3>1. LiveAre(pipes.out, Opcode')
      BY <1>0, QueueDead
    <3> QED
      BY <1>0, <2>2, <2>3, <3>1 DEF FirmInv, RequestInv
  <2>6. CarriedInv'
    <3> SUFFICES ASSUME ~chip.astray, file.part = "whole"
                 PROVE  pipes.bulk = <<>> /\ Carries(Sent(file), chip.got, Whole(file))
      BY <1>0, <2>2 DEF CarriedInv, Early
    <3>1. chip.got = Nothing /\ pipes.bulk = <<>>
      BY <2>3 DEF FirmInv, CarriedInv
    <3> QED
      BY <3>1, CarriesFile
  <2>7. ImageInv'
    <3>1. file.boots \in Images /\ (chip.family = "legacy" => file.boots = "op")
      BY <2>1, IntelAssumption DEF FirmwareFor, Images
    <3>2. ~Ready'
      BY <2>2 DEF Ready, Late
    <3> QED
      BY <1>0, <2>2, <3>1, <3>2 DEF FirmInv, ImageInv, Operating
  <2> QED
    BY <2>4, <2>5, <2>6, <2>7 DEF FirmInv
<1>7. CASE loader.at = "send" /\ loader.pieces = <<>> /\ loader.file.part = "whole" /\ loader' = To("reset")
  <2>1. loader'.at = "reset" /\ loader'.wait = "no" /\ loader'.file = loader.file
    BY <1>3, <1>7
  <2>2. PortInv'
    BY <1>0, <1>1, <2>1 DEF FirmInv, PortInv
  <2>3. RequestInv'
    <3>1. LiveAre(pipes.out, Opcode')
      BY <1>0, QueueDead
    <3>2. NoReset(pipes.out) => LiveResets(pipes.out)
      BY DEF NoReset, LiveResets
    <3> QED
      BY <1>0, <1>7, <2>1, <3>1, <3>2 DEF FirmInv, RequestInv, Early
  <2>4. CarriedInv'
    <3> SUFFICES ASSUME ~chip.astray PROVE chip.got = Whole(loader.file)
      BY <1>0, <2>1 DEF CarriedInv, Early
    <3>1. Carries(<<>>, chip.got, Whole(loader.file))
      BY <1>0, <1>7 DEF FirmInv, CarriedInv
    <3> QED
      BY <3>1, CarriesNone
  <2>5. ImageInv'
    <3>1. ~Ready'
      BY <2>1 DEF Ready, Late
    <3> QED
      BY <1>0, <2>1, <3>1 DEF FirmInv, ImageInv, Operating
  <2> QED
    BY <2>2, <2>3, <2>4, <2>5 DEF FirmInv
<1> QED
  BY <1>4, <1>5, <1>6, <1>7 DEF LoadsFirmware, EndsDownload

\* The setup ends, or the port changes.
LEMMA FirmPort ==
    ASSUME DongleInv, FirmInv, \/ AddedIntel \/ DeviceAdded \/ DeviceRemoved \/ DongleLeaves \/ DongleComes
                               \/ \E pipe \in {"intr", "bulk"} : SaysMore(pipe)
    PROVE  FirmInv'
<1>0. /\ DOMAIN loader = DOMAIN NoLoader /\ DOMAIN pipes = DOMAIN NoPipes
      /\ pipes.out \in Seq(Requests) /\ (loader.wait # "sent" => NoneLive(pipes.out))
      /\ (loader.wait # "no" => loader.at \in Waiting)
  BY DEF DongleInv
<1>1. PortInv /\ RequestInv /\ CarriedInv /\ ImageInv
  BY DEF FirmInv
<1>2. /\ DOMAIN hub = {"at", "slot", "attempts", "plugs"}
      /\ DOMAIN chip = {"family", "image", "on", "got", "strays", "astray"}
      /\ pipes.intr \in Seq(ChipAnswers) /\ pipes.bulk \in Seq(ChipAnswers)
      /\ <<>> \in Seq(ChipAnswers) /\ ~OpSaid(<<>>)
  BY <1>1, AnswerFacts DEF PortInv
<1>3. /\ Stray \in ChipAnswers /\ <<Stray>> \in Seq(ChipAnswers) /\ ~OpSaid(<<Stray>>)
      /\ \A q \in Seq(ChipAnswers) : Append(q, Stray) \in Seq(ChipAnswers) /\ (OpSaid(Append(q, Stray)) => OpSaid(q))
  <2>1. "ddc" \in IntelCommands /\ <<>> \in Completed("ddc")
    BY DEF IntelCommands, Completed
  <2>2. Stray \in ChipAnswers /\ Stray.code = "vendor"
    BY <2>1, AnswersAre
  <2>3. <<Stray>> \in Seq(ChipAnswers) /\ ~OpSaid(<<Stray>>)
    BY <1>2, <2>2, AnswerFacts
  <2>4. ASSUME NEW q \in Seq(ChipAnswers) PROVE Append(q, Stray) \in Seq(ChipAnswers) /\ (OpSaid(Append(q, Stray)) => OpSaid(q))
    <3> DEFINE more == Append(q, Stray)
    <3>1. more \in Seq(ChipAnswers)
      BY <2>2
    <3>2. Len(q) \in Nat /\ Len(more) = Len(q) + 1 /\ \A i \in 1 .. Len(q) + 1 : more[i] = IF i <= Len(q) THEN q[i] ELSE Stray
      OBVIOUS
    <3> HIDE DEF more
    <3>3. \A i \in 1 .. Len(more) : (i \in 1 .. Len(q) /\ more[i] = q[i]) \/ more[i] = Stray
      BY <3>2
    <3>4. OpSaid(more) => OpSaid(q)
      BY <2>2, <3>3 DEF OpSaid
    <3> QED
      BY <3>1, <3>4 DEF more
  <2> QED
    BY <2>2, <2>3, <2>4
<1>4. CASE AddedIntel
  <2>1. /\ loader' = NoLoader /\ UNCHANGED <<pipes, chip>> /\ loader.at = "over"
        /\ DOMAIN hub' = DOMAIN hub /\ hub'.at \in {"bound", "refused"}
    BY <1>2, <1>4 DEF AddedIntel
  <2>2. loader'.at = "idle" /\ loader'.wait = "no" /\ loader'.file = NoFile /\ loader'.result = "none" /\ NoFile.boots = "op"
    BY <2>1 DEF NoLoader, NoFile
  <2>3. NoneLive(pipes.out)
    BY <1>0, <2>1 DEF Waiting, Draining, IntelCommands
  <2>4. PortInv'
    BY <1>1, <2>1, <2>2 DEF PortInv
  <2>5. RequestInv'
    <3>1. LiveAre(pipes.out, Opcode')
      BY <2>3, QueueDead
    <3> QED
      BY <2>1, <2>2, <3>1 DEF RequestInv, Early
  <2>6. CarriedInv'
    BY <2>2 DEF CarriedInv, Early
  <2>7. ImageInv'
    BY <1>1, <2>1, <2>2 DEF ImageInv, Ready, Operating, Images, Late
  <2> QED
    BY <2>4, <2>5, <2>6, <2>7 DEF FirmInv
<1>5. CASE DeviceAdded
  <2>1. /\ UNCHANGED <<pipes, chip>> /\ loader.at = "idle" /\ hub.at = "new"
        /\ \/ loader' = loader /\ hub'.at \in {"refused", "bound"}
           \/ loader' = [NoLoader EXCEPT !.at = "drain"] /\ hub'.at = "adding"
        /\ DOMAIN hub' = DOMAIN hub
    BY <1>2, <1>5 DEF DeviceAdded
  <2>2. CASE loader' = loader
    <3>1. PortInv'
      BY <1>1, <2>1, <2>2 DEF PortInv
    <3>2. RequestInv' /\ CarriedInv' /\ ImageInv'
      BY <1>1, <2>1, <2>2 DEF RequestInv, Opcode, Reading, CarriedInv, ImageInv, Ready, Operating
    <3> QED
      BY <3>1, <3>2 DEF FirmInv
  <2>3. CASE loader' = [NoLoader EXCEPT !.at = "drain"] /\ hub'.at = "adding"
    <3>1. loader'.at = "drain" /\ loader'.wait = "no" /\ loader'.file = NoFile /\ NoFile.boots = "op"
      BY <2>3 DEF NoLoader, NoFile
    <3>2. pipes.out = <<>> /\ pipes.bulk = <<>> /\ chip.got = Nothing
      BY <1>1, <2>1 DEF PortInv
    <3>3. PortInv'
      BY <1>1, <2>1, <2>3, <3>1 DEF PortInv
    <3>4. RequestInv'
      <4>1. LiveAre(<<>>, Opcode') /\ NoReset(<<>>)
        BY DEF LiveAre, NoReset
      <4> QED
        BY <2>1, <3>1, <3>2, <4>1 DEF RequestInv
    <3>5. CarriedInv'
      BY <2>1, <3>1, <3>2 DEF CarriedInv
    <3>6. ImageInv'
      BY <1>1, <2>1, <3>1 DEF ImageInv, Ready, Operating, Images, Late
    <3> QED
      BY <3>3, <3>4, <3>5, <3>6 DEF FirmInv
  <2> QED
    BY <2>1, <2>2, <2>3
<1>6. CASE DeviceRemoved
  <2>1. /\ UNCHANGED <<loader, chip>> /\ ~chip.on /\ hub.at \in {"bound", "refused"} /\ hub'.at = "empty" /\ DOMAIN hub' = DOMAIN hub
        /\ pipes'.out = <<>> /\ pipes'.bulk = <<>> /\ pipes'.intr = <<>> /\ pipes'.reads = "no"
    BY <1>2, <1>6 DEF DeviceRemoved, NoPipes
  <2>2. loader.at = "idle" /\ loader.wait = "no"
    BY <1>0, <1>1, <2>1 DEF PortInv, Waiting, Draining, IntelCommands
  <2>3. PortInv'
    BY <1>1, <1>2, <2>1, <2>2 DEF PortInv
  <2>4. RequestInv'
    <3>1. LiveAre(<<>>, Opcode')
      BY DEF LiveAre
    <3> QED
      BY <2>1, <2>2, <3>1 DEF RequestInv, Early
  <2>5. CarriedInv'
    BY <2>1, <2>2 DEF CarriedInv, Early
  <2>6. ImageInv'
    BY <1>1, <1>2, <2>1 DEF ImageInv, Ready, Operating
  <2> QED
    BY <2>3, <2>4, <2>5, <2>6 DEF FirmInv
<1>7. CASE DongleLeaves
  <2>1. /\ UNCHANGED <<loader, pipes, hub>> /\ ~chip'.on /\ chip'.image = "bootloader" /\ DOMAIN chip' = DOMAIN chip
        /\ chip'.family = chip.family /\ chip'.got = chip.got /\ chip'.astray = chip.astray
    BY <1>2, <1>7 DEF DongleLeaves
  <2>2. PortInv' /\ RequestInv'
    BY <1>1, <2>1 DEF PortInv, RequestInv, Opcode, Reading
  <2>3. CarriedInv'
    BY <1>1, <2>1 DEF CarriedInv
  <2>4. ImageInv'
    BY <1>1, <2>1 DEF ImageInv, Ready, Operating, Images
  <2> QED
    BY <2>2, <2>3, <2>4 DEF FirmInv
<1>8. CASE DongleComes
  <2>1. /\ UNCHANGED loader /\ hub.at = "empty" /\ hub'.at = "new" /\ DOMAIN hub' = DOMAIN hub /\ DOMAIN chip' = DOMAIN chip
        /\ chip'.got = Nothing /\ chip'.family = chip.family /\ chip'.image = chip.image
        /\ pipes'.out = pipes.out /\ pipes'.bulk = pipes.bulk /\ pipes'.reads = pipes.reads
        /\ pipes'.intr \in {<<Stray>>, <<>>}
    BY <1>0, <1>2, <1>8 DEF DongleComes, NoPipes
  <2>2. loader.at = "idle" /\ loader.wait = "no" /\ pipes.out = <<>> /\ pipes.bulk = <<>>
    BY <1>0, <1>1, <2>1 DEF PortInv, Waiting, Draining, IntelCommands
  <2>3. PortInv'
    BY <1>2, <1>3, <2>1, <2>2 DEF PortInv
  <2>4. RequestInv'
    BY <1>1, <2>1 DEF RequestInv, Opcode, Reading
  <2>5. CarriedInv'
    BY <2>1, <2>2 DEF CarriedInv, Early
  <2>6. ImageInv'
    BY <1>1, <1>2, <1>3, <2>1, <2>2 DEF ImageInv, Ready, Late
  <2> QED
    BY <2>3, <2>4, <2>5, <2>6 DEF FirmInv
<1>9. CASE \E pipe \in {"intr", "bulk"} : SaysMore(pipe)
  <2>1. PICK pipe \in {"intr", "bulk"} : SaysMore(pipe)
    BY <1>9
  <2>2. /\ UNCHANGED <<loader, hub>> /\ loader.wait = "event" /\ DOMAIN chip' = DOMAIN chip /\ chip'.astray
        /\ chip'.got = chip.got /\ chip'.family = chip.family /\ chip'.image = chip.image /\ chip'.on = chip.on
        /\ pipes'.out = pipes.out /\ pipes'.reads = pipes.reads
        /\ pipes'.intr \in {pipes.intr, Append(pipes.intr, Stray)} /\ pipes'.bulk \in {pipes.bulk, Append(pipes.bulk, Stray)}
    BY <1>0, <1>2, <2>1 DEF SaysMore, NoPipes
  <2>3. hub.at = "adding"
    BY <1>0, <1>1, <2>2 DEF PortInv, Waiting, Draining, IntelCommands
  <2>4. PortInv'
    <3>1. pipes'.intr \in Seq(ChipAnswers) /\ pipes'.bulk \in Seq(ChipAnswers)
      <4>1. ASSUME NEW q \in Seq(ChipAnswers), NEW p \in {q, Append(q, Stray)} PROVE p \in Seq(ChipAnswers)
        BY <1>3, <4>1
      <4> QED
        BY <1>2, <2>2, <4>1
    <3> QED
      BY <1>1, <1>2, <2>2, <2>3, <3>1 DEF PortInv
  <2>5. RequestInv'
    BY <1>1, <2>2 DEF RequestInv, Opcode, Reading
  <2>6. CarriedInv'
    BY <2>2 DEF CarriedInv
  <2>7. ImageInv'
    BY <1>1, <1>2, <1>3, <2>2 DEF ImageInv, Ready, Operating
  <2> QED
    BY <2>4, <2>5, <2>6, <2>7 DEF FirmInv
<1> QED
  BY <1>4, <1>5, <1>6, <1>7, <1>8, <1>9

LEMMA FirmStep ==
    ASSUME DongleInv, FirmInv, DongleNext \/ UNCHANGED dongleVars
    PROVE  FirmInv'
<1>1. CASE UNCHANGED <<loader, pipes, chip, hub>>
  BY <1>1 DEF FirmInv, PortInv, RequestInv, Opcode, Reading, CarriedInv, ImageInv, Ready, Operating
<1>2. CASE \E i \in 1 .. Slots : DeviceOpens(i) \/ DeviceCloses(i)
  BY <1>1, <1>2 DEF DeviceOpens, DeviceCloses
<1> QED
  BY <1>1, <1>2, FirmQueues, FirmGivesUp, FirmTakesEvent, FirmRequestSent, FirmLoads, FirmPort
     DEF DongleNext, LoaderNext, HubNext, ChipNext, dongleVars

LEMMA FirmStarts == Init => FirmInv
<1> SUFFICES ASSUME Init PROVE FirmInv
  OBVIOUS
<1>1. /\ loader = NoLoader /\ pipes = NoPipes
      /\ \E family, strays : chip = [family |-> family, image |-> "bootloader", on |-> FALSE, got |-> Nothing, strays |-> strays, astray |-> FALSE]
      /\ \E plugs : hub = [at |-> "empty", slot |-> 0, attempts |-> 0, plugs |-> plugs]
  BY DEF Init, DongleInit
<1>2. loader.at = "idle" /\ loader.wait = "no" /\ loader.result = "none" /\ loader.file.boots = "op"
  BY <1>1 DEF NoLoader, NoFile
<1>3. pipes.out = <<>> /\ pipes.bulk = <<>> /\ pipes.intr = <<>> /\ <<>> \in Seq(ChipAnswers)
  BY <1>1 DEF NoPipes
<1>4. LiveAre(<<>>, Opcode) /\ ~OpSaid(<<>>)
  BY DEF LiveAre, OpSaid
<1>5. PortInv
  BY <1>1, <1>2, <1>3 DEF PortInv
<1>6. RequestInv /\ CarriedInv
  BY <1>2, <1>3, <1>4 DEF RequestInv, CarriedInv, Early
<1>7. ImageInv
  BY <1>1, <1>2, <1>3, <1>4 DEF ImageInv, Images, Ready, Late
<1> QED
  BY <1>5, <1>6, <1>7 DEF FirmInv

\* btintel_setup() resets a dongle only when it has accepted every byte of a whole
\* firmware file, unless an event that answers nothing has come; and it takes a dongle
\* for ready only when that runs its operational firmware: for any files, any
\* dongle, and any bounds of retries and waits.
THEOREM FirmwareIsEarned == Spec => []FirmwareIsWhole
<1> DEFINE Inv == DongleInv /\ FirmInv
<1>1. Init => Inv
  BY DongleStarts, FirmStarts
<1>2. Inv /\ [Next]_vars => Inv'
  BY StepOfEach, DongleStep, FirmStep
<1>3. Inv => FirmwareIsWhole
  BY DEF FirmInv, CarriedInv, ImageInv, Ready, Operating, FirmwareIsWhole, ResetIsEarned, ReadyIsOperational
<1> QED
  BY <1>1, <1>2, <1>3, PTL DEF Spec

=============================================================================
