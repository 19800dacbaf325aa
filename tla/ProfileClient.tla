--------------------------- MODULE ProfileClient ---------------------------
(***************************************************************************)
(* How a client of a profile gets its connection: Connect(), Listen() and  *)
(* Disconnect() of OppClient, PbapClient, SppClient and HfpClient, with    *)
(* _EnsureAclConnection(), the query and the RFCOMM session.  What is said *)
(* over the connection is in Obex and Headset.                             *)
(***************************************************************************)
EXTENDS Integers, Sequences

CONSTANTS
    Handles,  \* connection handles that PbapClient tries (16)
    MaxDials  \* bound: calls of Connect() and Listen()

ASSUME DialAssumption == Handles \in Nat /\ MaxDials \in Nat

VARIABLE
    profile \* one client: where its call stands, its arguments, and what it holds

NewClient(kind) ==
    [kind |-> kind, at |-> "idle", result |-> "none",
     channel |-> 0, psm |-> FALSE, l2capOnly |-> FALSE, probe |-> 0, handle |-> 0, dials |-> 0,
     obex |-> "none",   \* fObex, by the transport it was made for
     session |-> FALSE, \* fRfcomm, fSession
     dlci |-> FALSE,    \* is fDlci set?
     socket |-> FALSE,  \* fL2capSocket of PbapClient
     server |-> FALSE,  \* fServerSocket of SppClient
     accepted |-> FALSE, \* is a socket of accept() open that no session has?
     starved |-> FALSE]  \* has AcceptFrom() lacked a semaphore or a thread?

Goes(at) == profile' = [profile EXCEPT !.at = at]
Returns(result) == profile' = [profile EXCEPT !.at = "idle", !.result = result]
HasObex == profile.kind \in {"opp", "pbap"}
Taken == IF HasObex THEN profile.obex # "none" ELSE profile.session

----------------------------------------------------------------------------
\* Connect(), ConnectL2cap(): the link

Dials(channel, l2capOnly) ==
    /\ profile.kind # "none" /\ profile.at = "idle" /\ profile.dials < MaxDials
    /\ l2capOnly => profile.kind = "pbap" /\ channel = 0
    /\ IF Taken THEN Returns("busy")
       ELSE profile' = [profile EXCEPT !.at = "acquire", !.channel = channel, !.psm = FALSE, !.l2capOnly = l2capOnly,
                          !.probe = 0, !.handle = 0, !.dials = @ + 1]

Linked == IF profile.channel = 0 THEN "lookup" ELSE "session"

\* The server is not there, it has no device, or does not answer in time; the
\* link, its authentication or its encryption fails.
NoLink ==
    /\ profile.at \in {"acquire", "create", "authenticate"} \/ (profile.at = "encrypt" /\ profile.kind # "pbap")
    /\ Returns("error")

AcquiresDevice == profile.at = "acquire" /\ Goes("create")

CreatesConnection ==
    /\ profile.at = "create"
    /\ \/ Goes("authenticate")
       \/ Goes(Linked)                                             \* a reply without a handle
       \/ Goes(IF profile.kind = "pbap" THEN "probe" ELSE Linked)   \* the link exists

Authenticates == profile.at = "authenticate" /\ Goes(IF profile.kind = "pbap" THEN Linked ELSE "encrypt")

\* PbapClient tries which handle the link has: one that authenticates ends the
\* loop, one that is known is kept for want of a better one.
Probes ==
    /\ profile.at = "probe"
    /\ LET h == profile.probe + 1
           known == IF profile.handle = 0 THEN h ELSE profile.handle
       IN  IF profile.probe = Handles THEN Goes(IF profile.handle = 0 THEN Linked ELSE "encrypt")
           ELSE \/ profile' = [profile EXCEPT !.handle = h, !.at = "encrypt"]
                \/ profile' = [profile EXCEPT !.probe = h]
                \/ profile' = [profile EXCEPT !.probe = h, !.handle = known]

\* PbapClient goes on whether the encryption succeeds or not.
Encrypts == profile.at = "encrypt" /\ profile' = [profile EXCEPT !.at = Linked, !.probe = 0, !.handle = 0]

----------------------------------------------------------------------------
\* The query and the transport

LooksUp(channel, psm) ==
    /\ profile.at = "lookup"
    /\ psm => profile.kind = "pbap"
    /\ IF channel = 0 /\ ~psm THEN Returns("not_found")
       ELSE IF profile.l2capOnly /\ ~psm THEN Returns("not_supported")
       ELSE profile' = [profile EXCEPT !.channel = channel, !.psm = psm, !.at = IF psm THEN "l2cap" ELSE "session"]

\* socket() and connect() to the PSM that the query has found.
ConnectsL2cap(made) ==
    /\ profile.at = "l2cap"
    /\ profile' = IF made THEN [profile EXCEPT !.socket = TRUE, !.obex = "l2cap", !.at = "obex"]
                 ELSE IF profile.l2capOnly THEN [profile EXCEPT !.at = "idle", !.result = "error"]
                 ELSE [profile EXCEPT !.at = "session"]

ConnectsSession(made) ==
    /\ profile.at = "session"
    /\ IF profile.channel = 0 THEN Returns("not_found")
       ELSE IF made THEN profile' = [profile EXCEPT !.session = TRUE, !.at = "channel"]
       ELSE Returns("failed")

\* (ChannelLeft is faulty: a channel that is refused leaves the session behind.)
ChannelLeft(made) ==
    /\ profile.at = "channel"
    /\ IF ~made THEN Returns("failed")
       ELSE profile' = [profile EXCEPT !.dlci = TRUE, !.obex = IF HasObex THEN "rfcomm" ELSE "none",
                          !.at = IF HasObex THEN "obex" ELSE "idle", !.result = "ok"]
OpensChannel(made) ==
    /\ profile.at = "channel"
    /\ IF ~made THEN profile' = [profile EXCEPT !.session = FALSE, !.at = "idle", !.result = "failed"]
       ELSE profile' = [profile EXCEPT !.dlci = TRUE, !.obex = IF HasObex THEN "rfcomm" ELSE "none",
                          !.at = IF HasObex THEN "obex" ELSE "idle", !.result = "ok"]

\* What Connect() does when ObexClient::Connect() has failed.
WithoutObex(result) ==
    IF profile.obex = "l2cap" /\ ~profile.l2capOnly
    THEN [profile EXCEPT !.obex = "none", !.socket = FALSE, !.at = "session"]
    ELSE [profile EXCEPT !.obex = "none", !.socket = FALSE, !.session = FALSE, !.at = "idle", !.result = result]

----------------------------------------------------------------------------
\* SppClient::Listen() and Disconnect()

Listens(made) ==
    /\ profile.at = "idle" /\ profile.kind = "spp" /\ profile.dials < MaxDials
    /\ profile' = IF Taken THEN [profile EXCEPT !.result = "busy"]
                 ELSE [profile EXCEPT !.dials = @ + 1, !.server = made, !.result = "error", !.at = IF made THEN "accept" ELSE "idle"]

\* accept() or its timeout.
Accepts(came) ==
    /\ profile.at = "accept"
    /\ profile' = [profile EXCEPT !.server = FALSE, !.accepted = @ \/ came, !.at = IF came THEN "mux" ELSE "idle", !.result = "timed_out"]

\* A session without its semaphores or its thread gives the socket back, and
\* Listen() drops it; one whose multiplexer does not open closes it.
AcceptFrom(made, opened) ==
    /\ profile.at = "mux"
    /\ profile' = IF made THEN [profile EXCEPT !.accepted = profile.starved, !.session = opened,
                                 !.at = IF opened THEN "opened" ELSE "idle", !.result = "timed_out"]
                  ELSE [profile EXCEPT !.starved = TRUE, !.at = "idle", !.result = "error"]

\* WaitForChannel()
ChannelComes(came) ==
    /\ profile.at = "opened"
    /\ profile' = IF came THEN [profile EXCEPT !.dlci = TRUE, !.at = "idle", !.result = "ok"]
                 ELSE [profile EXCEPT !.session = FALSE, !.at = "idle", !.result = "timed_out"]

Disconnected ==
    [profile EXCEPT !.obex = "none", !.session = FALSE, !.socket = FALSE, !.server = FALSE, !.dlci = FALSE, !.result = "closed"]

----------------------------------------------------------------------------
LinkNext == NoLink \/ AcquiresDevice \/ CreatesConnection \/ Authenticates \/ Probes \/ Encrypts

TransportNext ==
    \/ \E psm \in BOOLEAN, channel \in {0, 1} : LooksUp(channel, psm)
    \/ \E made \in BOOLEAN : \/ ConnectsL2cap(made) \/ ConnectsSession(made) \/ OpensChannel(made)
                             \/ Accepts(made) \/ ChannelComes(made)
    \/ \E made, opened \in BOOLEAN : AcceptFrom(made, opened)

DialNext == (\E channel \in {0, 1}, l2capOnly \in BOOLEAN : Dials(channel, l2capOnly)) \/ (\E made \in BOOLEAN : Listens(made))

ProfileTypeOK ==
    /\ profile.kind \in {"none", "opp", "pbap", "spp", "hfp"}
    /\ profile.probe \in 0 .. Handles /\ profile.handle \in 0 .. Handles
    /\ profile.obex \in {"none", "l2cap", "rfcomm"}
    /\ profile.obex = "rfcomm" => profile.session /\ profile.dlci
    /\ profile.obex = "l2cap" => profile.socket

\* Connect(), Listen() and Disconnect(): when the call is over and there is no
\* connection, no socket and no session are left, wherever the call has failed,
\* but for the socket of an AcceptFrom() that lacked a semaphore or a thread.
ProfileHoldsNothing ==
    profile.at = "idle" /\ ~Taken =>
        ~profile.session /\ ~profile.socket /\ ~profile.server /\ (profile.accepted => profile.starved)

\* Who calls AcceptFrom() closes the socket when it fails (bt_spp_test.cpp:177-181,
\* HfpAudioGateway.cpp:152-157): when Listen() is over without a session, the
\* socket of accept() is closed.
AcceptedIsClosed == profile.at = "idle" /\ ~profile.session => ~profile.accepted
=============================================================================
