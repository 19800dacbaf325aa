---------------------------- MODULE L2capChannel ----------------------------
(***************************************************************************)
(* The life of L2CAP channels between two hosts that run this stack: host  *)
(* "A" owns the Client sockets that connect(), host "B" a listening socket *)
(* and the Child sockets it spawns (L2capEndpoint.cpp, l2cap_signal.cpp).  *)
(*                                                                         *)
(* Each host has one RX thread, which takes signaling commands in order,   *)
(* looks the endpoint up and only later locks it; user threads call the    *)
(* socket operations in between.  An action is one critical section of an  *)
(* endpoint's fLock.  The ACL link is FIFO and loses commands only when    *)
(* the HCI connection goes away.  The last actions give the answers that   *)
(* only another vendor's stack on host B would give.                       *)
(*                                                                         *)
(* Some definitions have a faulty twin just above them, named for the      *)
(* fault: no action uses it, and the property it breaks shows what that    *)
(* property guards against.                                                *)
(***************************************************************************)
EXTENDS L2capTables, FiniteSets, Sequences

CONSTANTS
    Client,       \* endpoints of host A, each the socket of a connect()
    Child,        \* endpoints of host B that spawn_pending_socket() can give
    Psm,          \* the PSMs in use, a subset of {"fixed", "dynamic"}
    MaxConnects,  \* bound: connect() calls per client socket
    MaxLinks,     \* bound: HCI connections made between the hosts
    MaxForeign,   \* bound: answers only another vendor's stack would give
    MaxCloses     \* bound: shutdown(), close() and ERTM timeouts that end a
                  \* channel

ASSUME EndpointAssumption ==
    /\ Endpoint = Client \cup Child
    /\ Client \cap Child = {}
ASSUME PsmAssumption == Psm \subseteq {"fixed", "dynamic"}
ASSUME BoundAssumption ==
    {MaxConnects, MaxLinks, MaxForeign, MaxCloses} \subseteq Nat

VARIABLES
    ep,        \* the endpoints
    listener,  \* channel_status of the listening endpoint of host B, which
               \* stands for one listener per PSM
    acceptSem, \* count of its fAcceptSemaphore
    hci,       \* the HciConnection of each host, NoConn when there is none
    idents,    \* fInUseIdents of that HciConnection
    nextCid,   \* fNextChannelID of each host
    link,      \* the signaling commands on their way to each host
    rx,        \* the command the RX thread of each host has looked up
    panic,     \* the invalid pointer or tree node a thread used, or "none"
    used       \* what is spent of the bounds

vars == <<ep, listener, acceptSem, hci, idents, nextCid, link, rx, panic, used>>

Host == {"A", "B"}
Peer(h) == IF h = "A" THEN "B" ELSE "A"
Home(e) == IF e \in Client THEN "A" ELSE "B"
NoConn == 0
Conn == 0 .. MaxLinks

\* CONFIGURATION .. RECEIVED_DISCONNECTION_REQ of channel_status; the last
\* one never outlives the critical section that sets it
Establishing == {"WAIT_FOR_INFO_RSP", "WAIT_FOR_CONNECTION_RSP", "CONFIGURATION"}
ChannelStatus == {"CLOSED", "OPEN", "WAIT_FOR_DISCONNECTION_RSP"} \cup Establishing
ConfigState == {"NONE", "SENT", "DONE"}
Mode == {"BASIC", "ERTM"}

EndpointRecord ==
    [state  : ChannelStatus,
     conn   : Conn,                \* fConnection
     cid    : Cid \cup {NullCid},  \* fChannelID, NullCid when not in the map
     dcid   : Cid \cup {NullCid},  \* fDestinationChannelID
     in     : ConfigState,         \* fConfigState.in
     out    : ConfigState,         \* fConfigState.out
     mode   : Mode,                \* fErtmMode
     tx     : {"none", "armed", "queued"},  \* I-frames in fTxQueue, or a timer
                                   \* or its flag left over from some
     psm    : Psm \cup {"none"},   \* fPsm
     call   : {"none", "route", "info", "connect"},  \* where Connect() is
     woken  : BOOLEAN,             \* fCommandWait was notified since
     drop   : {"none", "forget", "unmap"},  \* Shutdown(), Free() half done
     saved  : Conn,                \* the connection those two remember
     sock   : {"unborn", "live", "freed"},
     queue  : {"none", "pending", "connected", "accepted"}]

NewEndpoint ==
    [state |-> "CLOSED", conn |-> NoConn, cid |-> NullCid, dcid |-> NullCid,
     in |-> "NONE", out |-> "NONE", mode |-> "BASIC", tx |-> "none",
     psm |-> "none", call |-> "none", woken |-> FALSE, drop |-> "none", saved |-> NoConn,
     sock |-> "unborn", queue |-> "none"]

Message ==
    [type   : {"ConnReq", "ConnRsp", "CfgReq", "CfgRsp", "DiscReq", "DiscRsp",
               "InfoReq", "InfoRsp", "Reject"},
     ident  : Ident \cup {NullIdent},  \* NullIdent: one this stack never uses
     scid   : Cid \cup {NullCid},
     dcid   : Cid \cup {NullCid},
     result : {"SUCCESS", "REFUSED", "PENDING", "REJECTED", "UNACCEPTABLE",
               "FLOW_SPEC"},           \* FLOW_SPEC: RESULT_FLOW_SPEC_REJECTED
     more   : BOOLEAN,                 \* L2CAP_CFG_FLAG_CONTINUATION
     mode   : Mode \cup {"none"},      \* the RFC option, "none" when absent
     psm    : Psm \cup {"none"}]

\* L2CAP_IS_SIGNAL_RSP
Responses == {"ConnRsp", "CfgRsp", "DiscRsp", "InfoRsp", "Reject"}

\* A command of the type with its ident; the other fields are set with EXCEPT.
Command(type, i) ==
    [type |-> type, ident |-> i, scid |-> NullCid, dcid |-> NullCid,
     result |-> "SUCCESS", more |-> FALSE, mode |-> "none", psm |-> "none"]

Reject(i) == Command("Reject", i)

Used == [connects : [Client -> Nat], links : 0 .. MaxLinks, foreign : Nat, closes : Nat]

Idle == [type |-> "idle"]
Busy == [type : {"busy"}, msg : Message, ep : Endpoint \cup {NoEp}]

----------------------------------------------------------------------------
\* Helpers of the actions

On(h) == {e \in Endpoint : Home(e) = h}

\* ForChannel(): the endpoint of the host that is in the map under the cid
ForChannel(h, cid) ==
    IF \E e \in On(h) : ep[e].cid = cid /\ cid # NullCid
    THEN CHOOSE e \in On(h) : ep[e].cid = cid
    ELSE NoEp

CidsOf(h) == {ep[e].cid : e \in On(h)}

\* BtDevices->PostACL: a command is lost when the peer's end is already down.
Post(h, msgs) ==
    link' = IF hci[Peer(h)] = NoConn
            THEN link
            ELSE [link EXCEPT ![Peer(h)] = @ \o msgs]

\* The kernel stops at the first use of an invalid pointer.
Running == panic = "none"

Panic(why) ==
    /\ panic' = why
    /\ UNCHANGED <<ep, listener, acceptSem, hci, idents, nextCid, link, rx, used>>

\* Connect() keeps fLock from the route lookup to its first command.
Unlocked(e) == ep[e].call # "route"

\* Whoever uses fConnection: it must be the live connection.
ConnValid(e) == ep[e].conn # NoConn /\ ep[e].conn = hci[Home(e)]

----------------------------------------------------------------------------
\* Parts of the handlers, as operators on an endpoint record r

\* fTxQueue is emptied; a timer that has expired is not taken back.
Emptied(r) == [r EXCEPT !.tx = IF @ = "queued" THEN "armed" ELSE @]

MarkClosed(r) == [Emptied(r) EXCEPT !.state = "CLOSED", !.cid = NullCid]

\* _MarkEstablished(): a pending child is moved to the accept queue.
MarkEstablished(r) ==
    [Emptied(r) EXCEPT !.state = "OPEN", !.woken = TRUE,
                       !.queue = IF @ = "pending" THEN "connected" ELSE @]

\* A configuration request to an OPEN channel starts over.
\* (KeepsConfigState is faulty: fConfigState is not cleared.)
KeepsConfigState(r) == r

Reconfigured(r) ==
    IF r.state = "OPEN" THEN [r EXCEPT !.in = "NONE", !.out = "NONE"] ELSE r

\* the mode of an RFC option, when the command has one
WithMode(r, mode) == IF mode = "none" THEN r ELSE [r EXCEPT !.mode = mode]

\* The channel opens when both directions are configured.
\* (EstablishedByAnswer is faulty: it does not wait for the peer's request.)
EstablishedByAnswer(r) == IF r.out = "DONE" THEN MarkEstablished(r) ELSE r

ConfigDone(r) ==
    IF r.in = "DONE" /\ r.out = "DONE" THEN MarkEstablished(r) ELSE r

\* _SendChannelConfig(): what it leaves of the endpoint, the idents in use
\* and the commands it sends.  Without an ident it gives up.
SendChannelConfig(e, r, ids) ==
    LET i == AllocIdent(ids)
    IN  IF i = NullIdent
        THEN [r |-> r, ids |-> ids, msgs |-> << >>]
        ELSE [r    |-> [r EXCEPT !.out = "SENT"],
              ids  |-> HoldIdent(ids, i, e),
              msgs |-> <<[Command("CfgReq", i) EXCEPT
                            !.dcid = r.dcid,
                            !.mode = IF r.psm = "dynamic" THEN "ERTM" ELSE "none"]>>]

----------------------------------------------------------------------------
\* The RX thread

Receive(h) ==
    /\ Running
    /\ rx[h] = Idle
    /\ hci[h] # NoConn
    /\ link[h] # << >>
    /\ LET m == Head(link[h])
           target == IF m.type \in Responses THEN LookupIdent(idents[h], m.ident)
                     ELSE IF m.type \in {"CfgReq", "DiscReq"}
                     THEN ForChannel(h, m.dcid)
                     ELSE NoEp
       IN  rx' = [rx EXCEPT ![h] = [type |-> "busy", msg |-> m, ep |-> target]]
    /\ link' = [link EXCEPT ![h] = Tail(@)]
    /\ UNCHANGED <<ep, listener, acceptSem, hci, idents, nextCid, panic, used>>

\* units of fAcceptSemaphore released when the endpoint goes from old to r
\* (ReleasedOnOpen is faulty: a re-configuration releases one again.)
ReleasedOnOpen(old, r) ==
    IF r.queue = "connected" /\ r.state = "OPEN" /\ old.state # "OPEN" THEN 1 ELSE 0

Released(old, r) == IF r.queue = "connected" /\ old.queue = "pending" THEN 1 ELSE 0

\* The handler of a command that found an endpoint ends: endpoint record r,
\* idents in use ids, commands sent.  A response's ident is released last,
\* unless a connection is PENDING or a configuration response goes on.
Finish(h, e, r, ids, msgs) ==
    LET m == rx[h].msg
        keep == \/ m.type \notin Responses
                \/ m.type = "ConnRsp" /\ m.result = "PENDING"
                \/ m.type = "CfgRsp" /\ m.more
    IN  /\ ep' = [ep EXCEPT ![e] = r]
        /\ acceptSem' = acceptSem + Released(ep[e], r)
        /\ idents' = [idents EXCEPT ![h] = IF keep THEN ids ELSE FreeIdent(ids, m.ident)]
        /\ Post(h, msgs)
        /\ rx' = [rx EXCEPT ![h] = Idle]
        /\ UNCHANGED <<listener, hci, nextCid, panic, used>>

\* A handler that answers through the endpoint's own fConnection
FinishOnConn(h, e, r, ids, msgs) ==
    IF ConnValid(e) THEN Finish(h, e, r, ids, msgs) ELSE Panic("connection")

Handling(h, type) ==
    /\ Running
    /\ rx[h] # Idle
    /\ rx[h].msg.type = type
    /\ rx[h].ep # NoEp
    /\ ep[rx[h].ep].sock = "live"
    /\ Unlocked(rx[h].ep)

\* The handlers notify fCommandWait before or while they look at the state.
\* (NotNotified is faulty: it notifies nobody.)
NotNotified(e) == ep[e]

Notified(e) == [ep[e] EXCEPT !.woken = TRUE]

HandleConnectionRsp(h) ==
    /\ Handling(h, "ConnRsp")
    /\ LET m == rx[h].msg
           e == rx[h].ep
           r == Notified(e)
           ids == idents[h]
       IN  IF r.state # "WAIT_FOR_CONNECTION_RSP" \/ r.cid # m.scid
           THEN FinishOnConn(h, e, r, ids, <<Reject(m.ident)>>)
           ELSE IF m.result = "PENDING"
           THEN Finish(h, e, r, ids, << >>)
           ELSE IF m.result # "SUCCESS"
           THEN Finish(h, e, [r EXCEPT !.state = "CLOSED"], ids, << >>)
           ELSE LET c == SendChannelConfig(e,
                            [r EXCEPT !.state = "CONFIGURATION", !.dcid = m.dcid], ids)
                IN  FinishOnConn(h, e, c.r, c.ids, c.msgs)

HandleConfigurationReq(h) ==
    /\ Handling(h, "CfgReq")
    /\ LET m == rx[h].msg
           e == rx[h].ep
           old == Notified(e)
           told == [WithMode(Reconfigured(old), m.mode) EXCEPT !.state = "CONFIGURATION"]
           r == [told EXCEPT !.in = "DONE"]
           rsp == [Command("CfgRsp", m.ident) EXCEPT
                      !.scid = r.dcid,
                      !.mode = IF m.mode = "ERTM" THEN "ERTM" ELSE "none"]
           ids == idents[h]
       IN  IF old.state \notin {"CONFIGURATION", "OPEN"}
           THEN FinishOnConn(h, e, old, ids,
                    <<[rsp EXCEPT !.result = "REJECTED", !.mode = "none"]>>)
           ELSE IF m.more
           THEN FinishOnConn(h, e, told, ids, <<rsp>>)
           ELSE IF r.out = "NONE"
           THEN LET c == SendChannelConfig(e, r, ids)
                IN  FinishOnConn(h, e, c.r, c.ids, <<rsp>> \o c.msgs)
           ELSE FinishOnConn(h, e, ConfigDone(r), ids, <<rsp>>)

\* A response that is not the last one, that only says PENDING, or whose
\* result is none the handler knows, changes nothing but the mode.
HandleConfigurationRsp(h) ==
    /\ Handling(h, "CfgRsp")
    /\ LET m == rx[h].msg
           e == rx[h].ep
           r == Notified(e)
           ids == idents[h]
           told == WithMode(r, m.mode)
       IN  IF r.state # "CONFIGURATION" \/ m.scid # r.cid
           THEN FinishOnConn(h, e, r, ids, <<Reject(m.ident)>>)
           ELSE IF m.result \in {"UNACCEPTABLE", "FLOW_SPEC"} /\ ~m.more
           THEN LET c == SendChannelConfig(e, IF m.result = "UNACCEPTABLE"
                                              THEN told ELSE r, ids)
                IN  FinishOnConn(h, e, c.r, c.ids, c.msgs)
           ELSE IF m.result # "SUCCESS" \/ m.more
           THEN Finish(h, e, IF m.result = "UNACCEPTABLE" THEN told ELSE r, ids, << >>)
           ELSE Finish(h, e, ConfigDone([told EXCEPT !.out = "DONE"]), ids, << >>)

HandleDisconnectionReq(h) ==
    /\ Handling(h, "DiscReq")
    /\ LET m == rx[h].msg
           e == rx[h].ep
           r == Notified(e)
           rsp == [Command("DiscRsp", m.ident) EXCEPT !.dcid = r.cid, !.scid = m.scid]
       IN  IF m.scid # r.dcid
           THEN FinishOnConn(h, e, r, idents[h], <<Reject(m.ident)>>)
           ELSE IF ConnValid(e) /\ r.cid = NullCid
           THEN Panic("map remove")    \* _MarkClosed() of an unmapped endpoint
           ELSE FinishOnConn(h, e, MarkClosed(r), idents[h], <<rsp>>)

HandleDisconnectionRsp(h) ==
    /\ Handling(h, "DiscRsp")
    /\ LET m == rx[h].msg
           e == rx[h].ep
           r == Notified(e)
       IN  IF r.state # "WAIT_FOR_DISCONNECTION_RSP"
           THEN FinishOnConn(h, e, r, idents[h], <<Reject(m.ident)>>)
           ELSE IF m.dcid # r.dcid /\ m.scid # r.cid
           THEN Finish(h, e, r, idents[h], << >>)
           ELSE IF r.cid = NullCid
           THEN Panic("map remove")
           ELSE Finish(h, e, MarkClosed(r), idents[h], << >>)

HandleCommandRejected(h) ==
    /\ Handling(h, "Reject")
    /\ LET e == rx[h].ep
           r == Notified(e)
           waiting == r.state \in {"WAIT_FOR_INFO_RSP", "WAIT_FOR_CONNECTION_RSP"}
       IN  Finish(h, e, [r EXCEPT !.state = IF waiting THEN "CLOSED" ELSE @],
                  idents[h], << >>)

HandleInfoRsp(h) ==
    /\ Handling(h, "InfoRsp")
    /\ LET e == rx[h].ep
       IN  Finish(h, e, IF ep[e].state = "WAIT_FOR_INFO_RSP"
                        THEN [Notified(e) EXCEPT !.state = "CLOSED"] ELSE ep[e],
                  idents[h], << >>)

\* The RX thread uses the pointer it looked up after the endpoint is deleted.
HandleFreed(h) ==
    /\ Running
    /\ rx[h] # Idle
    /\ rx[h].ep # NoEp
    /\ ep[rx[h].ep].sock = "freed"
    /\ Panic("endpoint")

\* A response without an endpoint is dropped; a request for a channel that
\* does not exist is rejected; the features request is always answered.
HandleStray(h) ==
    /\ Running
    /\ rx[h] # Idle
    /\ rx[h].ep = NoEp
    /\ rx[h].msg.type # "ConnReq"
    /\ LET m == rx[h].msg
       IN  /\ Post(h, IF m.type \in Responses THEN << >>
                      ELSE IF m.type = "InfoReq" THEN <<Command("InfoRsp", m.ident)>>
                      ELSE <<Reject(m.ident)>>)
           /\ idents' = IF m.type \in Responses
                        THEN [idents EXCEPT ![h] = FreeIdent(@, m.ident)] ELSE idents
    /\ rx' = [rx EXCEPT ![h] = Idle]
    /\ UNCHANGED <<ep, listener, acceptSem, hci, nextCid, panic, used>>

\* Host A has no listener; on host B the request needs one, a socket from
\* spawn_pending_socket() and a channel id.
RefuseConnection(h) ==
    /\ Running
    /\ rx[h] # Idle
    /\ rx[h].msg.type = "ConnReq"
    /\ \/ h = "A"
       \/ listener # "LISTEN"
       \/ \A f \in Child : ep[f].sock # "unborn"
    /\ LET m == rx[h].msg
       IN  Post(h, <<[Command("ConnRsp", m.ident) EXCEPT
                        !.scid = m.scid, !.result = "REFUSED"]>>)
    /\ rx' = [rx EXCEPT ![h] = Idle]
    /\ UNCHANGED <<ep, listener, acceptSem, hci, idents, nextCid, panic, used>>

\* _HandleConnectionReq() of the listener.  A child that gets no channel id
\* stays in the listener's backlog.
HandleConnectionReq(h, f) ==
    /\ Running
    /\ rx[h] # Idle
    /\ rx[h].msg.type = "ConnReq"
    /\ h = "B" /\ f \in Child
    /\ listener = "LISTEN"
    /\ ep[f].sock = "unborn"
    /\ LET m == rx[h].msg
           born == [ep[f] EXCEPT !.sock = "live", !.queue = "pending"]
           cid == AllocCid(CidsOf(h), nextCid[h])
           c == SendChannelConfig(f,
                    [born EXCEPT !.state = "CONFIGURATION", !.conn = hci[h],
                                 !.psm = m.psm, !.cid = cid, !.dcid = m.scid],
                    idents[h])
           rsp == [Command("ConnRsp", m.ident) EXCEPT !.scid = m.scid]
       IN  /\ nextCid' = [nextCid EXCEPT ![h] = CidAfter(@, cid)]
           /\ IF cid = NullCid
              THEN /\ ep' = [ep EXCEPT ![f] = born]
                   /\ Post(h, <<[rsp EXCEPT !.result = "REFUSED"]>>)
                   /\ UNCHANGED idents
              ELSE /\ ep' = [ep EXCEPT ![f] = c.r]
                   /\ Post(h, <<[rsp EXCEPT !.dcid = cid]>> \o c.msgs)
                   /\ idents' = [idents EXCEPT ![h] = c.ids]
    /\ rx' = [rx EXCEPT ![h] = Idle]
    /\ UNCHANGED <<listener, acceptSem, hci, panic, used>>

HandleCommand(h) ==
    \/ HandleConnectionRsp(h)
    \/ HandleConfigurationReq(h)
    \/ HandleConfigurationRsp(h)
    \/ HandleDisconnectionReq(h)
    \/ HandleDisconnectionRsp(h)
    \/ HandleCommandRejected(h)
    \/ HandleInfoRsp(h)
    \/ HandleFreed(h)
    \/ HandleStray(h)
    \/ RefuseConnection(h)
    \/ \E f \in Child : HandleConnectionReq(h, f)

----------------------------------------------------------------------------
\* Connect(), on the client's thread

ConnectRoute(e, p) ==
    /\ Running
    /\ ep[e].sock = "live" /\ ep[e].drop # "unmap"
    /\ ep[e].call = "none" /\ ep[e].state = "CLOSED"
    /\ hci["A"] # NoConn
    /\ used.connects[e] < MaxConnects
    /\ used' = [used EXCEPT !.connects[e] = @ + 1]
    /\ ep' = [ep EXCEPT ![e].conn = hci["A"], ![e].psm = p, ![e].call = "route"]
    /\ UNCHANGED <<listener, acceptSem, hci, idents, nextCid, link, rx, panic>>

\* The connection request, after r; without an ident Connect() returns ENOBUFS
\* and leaves the endpoint in the channel map.
RequestConnection(e, r) ==
    LET i == AllocIdent(idents["A"])
        req == [Command("ConnReq", i) EXCEPT !.scid = r.cid, !.psm = r.psm]
    IN  IF i = NullIdent
        THEN /\ ep' = [ep EXCEPT ![e] = [r EXCEPT !.call = "none"]]
             /\ UNCHANGED <<idents, link>>
        ELSE /\ ep' = [ep EXCEPT ![e] = [r EXCEPT !.state = "WAIT_FOR_CONNECTION_RSP",
                                                  !.call = "connect", !.woken = FALSE]]
             /\ idents' = [idents EXCEPT !["A"] = HoldIdent(@, i, e)]
             /\ Post("A", <<req>>)

\* BindToChannel() and the first command.  Only dynamic PSMs ask for the
\* peer's features before the connection request.
ConnectBind(e) ==
    /\ Running
    /\ ep[e].call = "route"
    /\ LET cid == AllocCid(CidsOf("A"), nextCid["A"])
           r == [ep[e] EXCEPT !.cid = cid, !.in = "NONE", !.out = "NONE"]
           i == AllocIdent(idents["A"])
       IN  IF ep[e].cid # NullCid
           THEN Panic("map insert")    \* of a node that is in the tree
           ELSE IF cid # NullCid /\ ~ConnValid(e)
           THEN Panic("connection")
           ELSE /\ nextCid' = [nextCid EXCEPT !["A"] = CidAfter(@, cid)]
                /\ IF cid = NullCid
                   THEN /\ ep' = [ep EXCEPT ![e].call = "none"]
                        /\ UNCHANGED <<idents, link>>
                   ELSE IF r.psm = "dynamic" /\ i # NullIdent
                   THEN /\ ep' = [ep EXCEPT ![e] =
                                    [r EXCEPT !.state = "WAIT_FOR_INFO_RSP",
                                              !.call = "info"]]
                        /\ idents' = [idents EXCEPT !["A"] = HoldIdent(@, i, e)]
                        /\ Post("A", <<Command("InfoReq", i)>>)
                   ELSE RequestConnection(e, r)
                /\ UNCHANGED <<listener, acceptSem, hci, rx, panic, used>>

\* The wait for the features ends, by the answer or after two seconds, and
\* whatever happened meanwhile the connection request follows.
ConnectAfterInfo(e) ==
    /\ Running
    /\ ep[e].call = "info"
    /\ IF ConnValid(e)
       THEN /\ RequestConnection(e, [ep[e] EXCEPT !.state = "CLOSED"])
            /\ UNCHANGED <<listener, acceptSem, hci, nextCid, rx, panic, used>>
       ELSE Panic("connection")

\* A notified Connect() returns when the state is final and else waits again.
ConnectWake(e) ==
    /\ Running
    /\ ep[e].call = "connect" /\ ep[e].woken
    /\ ep' = [ep EXCEPT ![e].woken = FALSE,
                        ![e].call = IF ep[e].state \in {"CLOSED", "OPEN"}
                                    THEN "none" ELSE @]
    /\ UNCHANGED <<listener, acceptSem, hci, idents, nextCid, link, rx, panic, used>>

\* SO_SNDTIMEO passes or a signal arrives; the state is left as it is.
ConnectInterrupted(e) ==
    /\ Running
    /\ ep[e].call = "connect"
    /\ ep' = [ep EXCEPT ![e].call = "none"]
    /\ UNCHANGED <<listener, acceptSem, hci, idents, nextCid, link, rx, panic, used>>

----------------------------------------------------------------------------
\* Shutdown() and Free() of a socket that has a file descriptor

HasDescriptor(e) ==
    ep[e].sock = "live" /\ (e \in Client \/ ep[e].queue = "accepted")

Closing(e) ==
    /\ Running
    /\ HasDescriptor(e) /\ Unlocked(e) /\ ep[e].drop = "none"
    /\ used.closes < MaxCloses
    /\ used' = [used EXCEPT !.closes = @ + 1]

\* Faulty: fConnection is not cleared.
ShutdownKeepsConnection(e) ==
    /\ Closing(e)
    /\ ep[e].state \in Establishing
    /\ ep' = [ep EXCEPT ![e] = [MarkClosed(@) EXCEPT !.drop = "forget",
                                                     !.saved = ep[e].conn]]
    /\ UNCHANGED <<listener, acceptSem, hci, idents, nextCid, link, rx, panic>>

ShutdownEstablishing(e) ==
    /\ Closing(e)
    /\ ep[e].state \in Establishing
    /\ IF ep[e].cid = NullCid
       THEN panic' = "map remove" /\ UNCHANGED ep
       ELSE /\ ep' = [ep EXCEPT ![e] = [MarkClosed(@) EXCEPT !.conn = NoConn,
                                            !.drop = "forget", !.saved = ep[e].conn]]
            /\ UNCHANGED panic
    /\ UNCHANGED <<listener, acceptSem, hci, idents, nextCid, link, rx>>

\* free_command_idents_by_pointer() on the remembered connection, if it lives
Forget(e) ==
    idents' = IF ep[e].saved # NoConn /\ ep[e].saved = hci[Home(e)]
              THEN [idents EXCEPT ![Home(e)] = FreeIdentsOf(@, e)]
              ELSE idents

ShutdownForget(e) ==
    /\ Running
    /\ ep[e].drop = "forget"
    /\ Forget(e)
    /\ ep' = [ep EXCEPT ![e].drop = "none", ![e].saved = NoConn]
    /\ UNCHANGED <<listener, acceptSem, hci, nextCid, link, rx, panic, used>>

\* Without an ident Shutdown() fails with ENOBUFS and changes nothing.
ShutdownOpen(e) ==
    /\ Closing(e)
    /\ ep[e].state = "OPEN"
    /\ LET h == Home(e)
           i == AllocIdent(idents[h])
           req == [Command("DiscReq", i) EXCEPT !.dcid = ep[e].dcid, !.scid = ep[e].cid]
       IN  IF ~ConnValid(e)
           THEN panic' = "connection" /\ UNCHANGED <<ep, idents, link>>
           ELSE /\ i # NullIdent
                /\ ep' = [ep EXCEPT ![e].state = "WAIT_FOR_DISCONNECTION_RSP"]
                /\ idents' = [idents EXCEPT ![h] = HoldIdent(@, i, e)]
                /\ Post(h, <<req>>)
                /\ UNCHANGED panic
    /\ UNCHANGED <<listener, acceptSem, hci, nextCid, rx>>

\* Faulty: a killed program leaves fState as it is.
FreeKeepsState(e) ==
    /\ Closing(e)
    /\ ep[e].call = "none"
    /\ ep' = [ep EXCEPT ![e].conn = NoConn, ![e].drop = "unmap", ![e].saved = ep[e].conn]
    /\ UNCHANGED <<listener, acceptSem, hci, idents, nextCid, link, rx, panic>>

\* Free() runs when no call is left inside, after Shutdown() or (a killed
\* program) in any state.
FreeBegin(e) ==
    /\ Closing(e)
    /\ ep[e].call = "none"
    /\ ep' = [ep EXCEPT ![e].state = "CLOSED", ![e].conn = NoConn,
                        ![e].drop = "unmap", ![e].saved = ep[e].conn]
    /\ UNCHANGED <<listener, acceptSem, hci, idents, nextCid, link, rx, panic>>

FreeEnd(e) ==
    /\ Running
    /\ ep[e].drop = "unmap"
    /\ Forget(e)
    /\ ep' = [ep EXCEPT ![e].cid = NullCid, ![e].drop = "none", ![e].saved = NoConn,
                        ![e].sock = "freed"]
    /\ UNCHANGED <<listener, acceptSem, hci, nextCid, link, rx, panic, used>>

----------------------------------------------------------------------------
\* What the queue and the timers of Enhanced Retransmission Mode do to the
\* channel (L2capErtm has the frames)

\* _SendErtmIFrame(), for which no action is needed once no closing is left.
SendIFrame(e) ==
    /\ Running
    /\ used.closes < MaxCloses
    /\ ep[e].sock = "live" /\ Unlocked(e)
    /\ ep[e].state = "OPEN" /\ ep[e].mode = "ERTM" /\ ep[e].conn # NoConn
    /\ ep[e].tx # "queued"
    /\ ep' = [ep EXCEPT ![e].tx = "queued"]
    /\ UNCHANGED <<listener, acceptSem, hci, idents, nextCid, link, rx, panic, used>>

\* The timer thread finds a monitor timeout; it notifies nobody.
MonitorTimeout(e) ==
    /\ Running
    /\ used.closes < MaxCloses
    /\ used' = [used EXCEPT !.closes = @ + 1]
    /\ ep[e].sock = "live" /\ Unlocked(e)
    /\ ep[e].state = "OPEN" /\ ep[e].tx # "none"
    /\ IF ep[e].cid = NullCid
       THEN panic' = "map remove" /\ UNCHANGED ep
       ELSE ep' = [ep EXCEPT ![e] = MarkClosed(@)] /\ UNCHANGED panic
    /\ UNCHANGED <<listener, acceptSem, hci, idents, nextCid, link, rx>>

\* The RX thread finds that an I-frame was sent fMaxTransmit times: the
\* endpoint is closed and stays in the channel map.
MaxTransmitReached(e) ==
    /\ Running
    /\ used.closes < MaxCloses
    /\ used' = [used EXCEPT !.closes = @ + 1]
    /\ hci[Home(e)] # NoConn /\ rx[Home(e)] = Idle
    /\ ep[e].sock = "live" /\ Unlocked(e)
    /\ ep[e].cid # NullCid /\ ep[e].mode = "ERTM" /\ ep[e].tx = "queued"
    /\ ep' = [ep EXCEPT ![e].state = "CLOSED", ![e].woken = TRUE]
    /\ UNCHANGED <<listener, acceptSem, hci, idents, nextCid, link, rx, panic>>

----------------------------------------------------------------------------
\* The listening socket

Bind ==
    /\ Running
    /\ listener = "CLOSED"
    /\ listener' = "BOUND"
    /\ UNCHANGED <<ep, acceptSem, hci, idents, nextCid, link, rx, panic, used>>

Listen ==
    /\ Running
    /\ listener = "BOUND"
    /\ listener' = "LISTEN" /\ acceptSem' = 0
    /\ UNCHANGED <<ep, hci, idents, nextCid, link, rx, panic, used>>

Accept(f) ==
    /\ Running
    /\ listener = "LISTEN" /\ acceptSem > 0
    /\ ep[f].queue = "connected"
    /\ acceptSem' = acceptSem - 1
    /\ ep' = [ep EXCEPT ![f].queue = "accepted"]
    /\ UNCHANGED <<listener, hci, idents, nextCid, link, rx, panic, used>>

\* Shutdown() of the listener.  What the network stack does to children that
\* wait in the backlog is outside the repository: only a listener without
\* any is shut down here.
ListenerShutdown ==
    /\ Running
    /\ listener \in {"BOUND", "LISTEN"}
    /\ \A f \in Child : ep[f].queue \notin {"pending", "connected"}
    /\ listener' = "CLOSED" /\ acceptSem' = 0
    /\ UNCHANGED <<ep, hci, idents, nextCid, link, rx, panic, used>>

----------------------------------------------------------------------------
\* HCI connections: AddConnection(), RemoveConnection() and Disconnected()

HciConnect ==
    /\ Running
    /\ \A h \in Host : hci[h] = NoConn
    /\ used.links < MaxLinks
    /\ used' = [used EXCEPT !.links = @ + 1]
    /\ hci' = [h \in Host |-> used.links + 1]
    /\ UNCHANGED <<ep, listener, acceptSem, idents, nextCid, link, rx, panic>>

\* HCI events are handled by the RX thread.  Disconnected() only finds the
\* endpoints in the channel map, and waits for their fLock.
HciDisconnect(h) ==
    /\ Running
    /\ hci[h] # NoConn
    /\ rx[h] = Idle
    /\ LET hit == {e \in On(h) : ep[e].cid # NullCid /\ ep[e].conn = hci[h]}
       IN  /\ \A e \in hit : Unlocked(e)
           /\ ep' = [e \in Endpoint |->
                        IF e \in hit
                        THEN [ep[e] EXCEPT !.conn = NoConn, !.state = "CLOSED",
                                           !.woken = TRUE]
                        ELSE ep[e]]
    /\ hci' = [hci EXCEPT ![h] = NoConn]
    /\ idents' = [idents EXCEPT ![h] = NoIdents]
    /\ link' = [link EXCEPT ![h] = << >>]
    /\ UNCHANGED <<listener, acceptSem, nextCid, rx, panic, used>>

----------------------------------------------------------------------------
\* What host B may also do when it runs another vendor's stack

ForeignAnswer(type) ==
    /\ Running
    /\ used.foreign < MaxForeign
    /\ used' = [used EXCEPT !.foreign = @ + 1]
    /\ rx["B"] = Idle
    /\ link["B"] # << >>
    /\ Head(link["B"]).type = type

\* It answers a connection request with PENDING first.
ForeignPending ==
    /\ ForeignAnswer("ConnReq")
    /\ LET m == Head(link["B"])
       IN  Post("B", <<[Command("ConnRsp", m.ident) EXCEPT
                          !.scid = m.scid, !.result = "PENDING"]>>)
    /\ UNCHANGED <<ep, listener, acceptSem, hci, idents, nextCid, rx, panic>>

\* What it may answer to a configuration request m, in place of its own
\* answer: that it takes no ERTM and proposes Basic Mode, in one response or
\* in two, that it takes no flow specification, or nothing at all.
TurnDowns(m, cid) ==
    LET rsp == [Command("CfgRsp", m.ident) EXCEPT !.scid = cid]
        basic == [rsp EXCEPT !.result = "UNACCEPTABLE", !.mode = "BASIC"]
    IN  {<<[rsp EXCEPT !.result = "FLOW_SPEC"]>>, <<[rsp EXCEPT !.result = "REJECTED"]>>}
        \cup IF m.mode = "ERTM"
             THEN {<<basic>>, <<[basic EXCEPT !.more = TRUE], basic>>} ELSE {}

ForeignTurnsDown ==
    /\ ForeignAnswer("CfgReq")
    /\ LET m == Head(link["B"])
           f == ForChannel("B", m.dcid)
       IN  /\ f # NoEp
           /\ hci["A"] # NoConn
           /\ \E rsps \in TurnDowns(m, ep[f].dcid) :
                 link' = [link EXCEPT !["B"] = Tail(@), !["A"] = @ \o rsps]
    /\ UNCHANGED <<ep, listener, acceptSem, hci, idents, nextCid, rx, panic>>

\* It answers one with PENDING, or with a part of its answer, first.
ForeignAnswersTwice ==
    /\ ForeignAnswer("CfgReq")
    /\ LET m == Head(link["B"])
           f == ForChannel("B", m.dcid)
           rsp == [Command("CfgRsp", m.ident) EXCEPT !.scid = ep[f].dcid]
       IN  /\ f # NoEp
           /\ \E first \in {[rsp EXCEPT !.result = "PENDING"], [rsp EXCEPT !.more = TRUE]} :
                 Post("B", <<first>>)
    /\ UNCHANGED <<ep, listener, acceptSem, hci, idents, nextCid, rx, panic>>

\* It sends a configuration request in two pieces, the mode in the first,
\* each with an ident of its own.
ForeignContinues ==
    /\ Running
    /\ used.foreign < MaxForeign
    /\ used' = [used EXCEPT !.foreign = @ + 1]
    /\ rx["A"] = Idle
    /\ link["A"] # << >>
    /\ LET m == Head(link["A"])
       IN  /\ m.type = "CfgReq" /\ m.ident # NullIdent
           /\ link' = [link EXCEPT !["A"] =
                          <<[m EXCEPT !.ident = NullIdent, !.more = TRUE],
                            [m EXCEPT !.mode = "none"]>> \o Tail(@)]
    /\ UNCHANGED <<ep, listener, acceptSem, hci, idents, nextCid, rx, panic>>

\* It negotiates an open channel again, when it has an ident for its request.
ForeignReconfigure(f) ==
    /\ Running
    /\ used.foreign < MaxForeign
    /\ used' = [used EXCEPT !.foreign = @ + 1]
    /\ ep[f].state = "OPEN" /\ ConnValid(f)
    /\ LET c == SendChannelConfig(f, [ep[f] EXCEPT !.state = "CONFIGURATION",
                                         !.in = "NONE", !.out = "NONE"], idents["B"])
       IN  /\ c.msgs # << >>
           /\ ep' = [ep EXCEPT ![f] = c.r]
           /\ idents' = [idents EXCEPT !["B"] = c.ids]
           /\ Post("B", c.msgs)
    /\ UNCHANGED <<listener, acceptSem, hci, nextCid, rx, panic>>

----------------------------------------------------------------------------
Init ==
    /\ ep = [e \in Endpoint |->
                IF e \in Client THEN [NewEndpoint EXCEPT !.sock = "live"] ELSE NewEndpoint]
    /\ listener = "CLOSED"
    /\ acceptSem = 0
    /\ hci = [h \in Host |-> NoConn]
    /\ idents = [h \in Host |-> NoIdents]
    /\ nextCid = [h \in Host |-> 1]
    /\ link = [h \in Host |-> << >>]
    /\ rx = [h \in Host |-> Idle]
    /\ panic = "none"
    /\ used = [connects |-> [e \in Client |-> 0], links |-> 0, foreign |-> 0, closes |-> 0]

ConnectStep(e) ==
    \/ \E p \in Psm : ConnectRoute(e, p)
    \/ ConnectBind(e)
    \/ ConnectAfterInfo(e)
    \/ ConnectWake(e)
    \/ ConnectInterrupted(e)

CloseStep(e) ==
    \/ ShutdownEstablishing(e)
    \/ ShutdownForget(e)
    \/ ShutdownOpen(e)
    \/ FreeBegin(e)
    \/ FreeEnd(e)

ErtmStep(e) ==
    \/ SendIFrame(e)
    \/ MonitorTimeout(e)
    \/ MaxTransmitReached(e)

ListenerStep ==
    \/ Bind
    \/ Listen
    \/ \E f \in Child : Accept(f)
    \/ ListenerShutdown

ForeignStep ==
    \/ ForeignPending
    \/ ForeignTurnsDown
    \/ ForeignAnswersTwice
    \/ ForeignContinues
    \/ \E f \in Child : ForeignReconfigure(f)

Next ==
    \/ \E h \in Host : Receive(h) \/ HandleCommand(h) \/ HciDisconnect(h)
    \/ HciConnect
    \/ \E e \in Client : ConnectStep(e)
    \/ \E e \in Endpoint : CloseStep(e) \/ ErtmStep(e)
    \/ ListenerStep
    \/ ForeignStep

Spec == Init /\ [][Next]_vars

\* The RX threads and the threads inside Connect(), Shutdown() and Free() are
\* scheduled; the controller reports a link whose other end is gone (its
\* supervision timeout).  Nothing makes users call or hang up.
Fairness ==
    /\ \A h \in Host : /\ WF_vars(Receive(h))
                       /\ WF_vars(HandleCommand(h))
                       /\ WF_vars(hci[Peer(h)] = NoConn /\ HciDisconnect(h))
    /\ \A e \in Client : WF_vars(ConnectBind(e) \/ ConnectAfterInfo(e) \/ ConnectWake(e))
    /\ \A e \in Endpoint : WF_vars(ShutdownForget(e) \/ FreeEnd(e))

FairSpec == Spec /\ Fairness

----------------------------------------------------------------------------
\* Correctness

\* Every variable has its type.
TypeOK ==
    /\ ep \in [Endpoint -> EndpointRecord]
    /\ listener \in {"CLOSED", "BOUND", "LISTEN"}
    /\ acceptSem \in Nat
    /\ hci \in [Host -> Conn]
    /\ idents \in [Host -> IdentTable]
    /\ nextCid \in [Host -> Cid]
    /\ link \in [Host -> Seq(Message)]
    /\ rx \in [Host -> Busy \cup {Idle}]
    /\ panic \in {"none", "connection", "endpoint", "map insert", "map remove"}
    /\ used \in Used

\* The channel map never holds two endpoints of a host under one channel id,
\* however often fNextChannelID wraps (BindToChannel, UnbindFromChannel).
OneEndpointPerCid ==
    \A e, f \in Endpoint :
        /\ e # f /\ Home(e) = Home(f)
        /\ ep[e].cid # NullCid
        => ep[e].cid # ep[f].cid

\* The endpoint carries its first channel: a child of the listener never
\* connects again, a client may.  A later Connect() starts with the
\* fDestinationChannelID of the channel before (L2capEndpoint.cpp:496-508).
FirstChannel(e) == e \in Child \/ used.connects[e] <= 1

\* An endpoint past CLOSED is in the channel map, whatever Connect(),
\* Shutdown(), Free(), the RX thread and the loss of the connection do to each
\* other, so the callers of _MarkClosed() find it there.
MappedWhileActive ==
    \A e \in Endpoint :
        FirstChannel(e) /\ ep[e].state # "CLOSED" => ep[e].cid # NullCid

\* A connection request names a channel: its source channel ID is one of the
\* ids that l2cap.h:10-24 gives to the channels of a unit.
RequestNamesItsChannel ==
    \A h \in Host : \A i \in 1 .. Len(link[h]) :
        link[h][i].type = "ConnReq" => link[h][i].scid # NullCid

\* A channel is only OPEN with both directions configured, also after a
\* re-configuration started by the peer.
OpenIsConfigured ==
    \A e \in Endpoint : ep[e].state = "OPEN" => ep[e].in = "DONE" /\ ep[e].out = "DONE"

\* e and f are the two ends of one channel over the present HCI connection.
Paired(e, f) ==
    /\ Home(e) # Home(f)
    /\ ep[e].conn # NoConn /\ ep[e].conn = ep[f].conn
    /\ ep[e].state # "CLOSED" /\ ep[f].state # "CLOSED"
    /\ ep[e].cid = ep[f].dcid /\ ep[f].cid = ep[e].dcid

\* a command of the type on its way to, or looked up for, the endpoint
Coming(type, f) ==
    LET h == Home(f)
        about(m) == m.type = type /\ (m.dcid = ep[f].cid \/ m.scid = ep[f].cid)
    IN  \/ \E i \in 1 .. Len(link[h]) : about(link[h][i])
        \/ rx[h] # Idle /\ about(rx[h].msg)

\* What one end believes configured the other end has seen: while no new
\* request is under way to an end that counts its own request as answered,
\* the other end has all its options (fConfigState on the two sides).
ConfigurationAgrees ==
    \A e, f \in Endpoint :
        /\ Paired(e, f)
        /\ {ep[e].state, ep[f].state} \subseteq {"CONFIGURATION", "OPEN"}
        /\ ep[e].out = "DONE"
        /\ ~Coming("CfgReq", e)
        => ep[f].in = "DONE"

\* Free() and Shutdown() leave no ident of the connection pointing to an
\* endpoint that is gone, whatever Connect() and the RX thread do meanwhile.
NoDanglingIdent ==
    \A h \in Host : \A i \in Ident :
        idents[h][i] # NoEp
        => Home(idents[h][i]) = h /\ ep[idents[h][i]].sock = "live"

\* accept() finds a connected child for every unit of fAcceptSemaphore.
AcceptSemaphoreCounts ==
    acceptSem = Cardinality({f \in Child : ep[f].queue = "connected"})

\* The last configuration request of e was answered without an end to the
\* configuration: with PENDING, which frees the ident that a later answer
\* needs, with a result the handler does not know, or with a reject.
Unanswerable(e) ==
    /\ ep[e].state = "CONFIGURATION" /\ ep[e].out = "SENT"
    /\ \A i \in Ident : idents[Home(e)][i] # e

\* A Connect() that waits returns in the end: the peer answers, or the loss
\* of the connection is noticed.  Excepted is a configuration that the peer
\* answered without an end: nothing but SO_SNDTIMEO ends that wait.  (Without
\* closes: Shutdown() of a socket that is still establishing notifies nobody.)
ConnectReturns ==
    \A e \in Client :
        ep[e].call = "connect" ~>
            (ep[e].call # "connect" \/ Unanswerable(e) \/ panic # "none")

\* A channel under configuration opens or closes; it never stays half open,
\* except when it or its other end waits for an answer to a request that was
\* answered without an end.  (Without closes: the peer of a channel that
\* shutdown() closes while establishing, or an ERTM timeout, is told nothing,
\* and a reject does not end configuration.)
ConfigurationEnds ==
    \A e \in Endpoint :
        ep[e].state = "CONFIGURATION" ~>
            (\/ ep[e].state # "CONFIGURATION"
             \/ panic # "none"
             \/ Unanswerable(e)
             \/ \E f \in Endpoint : Paired(e, f) /\ Unanswerable(f))

\* "We will receive another CONFIGURATION_RSP later": the final answer to a
\* configuration request that was answered PENDING finds its endpoint.
PendingIsAwaited ==
    \A e \in Client : \A i \in 1 .. Len(link["A"]) :
        LET m == link["A"][i]
        IN  /\ ep[e].state = "CONFIGURATION" /\ ep[e].out = "SENT" /\ ConnValid(e)
            /\ m.type = "CfgRsp" /\ m.scid = ep[e].cid
            /\ m.result = "SUCCESS" /\ ~m.more
            => LookupIdent(idents["A"], m.ident) = e

\* No thread uses a HciConnection that is gone, or a NULL fConnection.
ConnectionUsedIsLive == panic # "connection"

\* The RX thread never runs a handler on an endpoint that is deleted.
EndpointUsedIsLive == panic # "endpoint"

\* The endpoint looked up for a disconnection request is still in the channel
\* map when _HandleDisconnectionReq() gets its lock and may answer, so that
\* _MarkClosed() runs at most once for every BindToChannel().  This is so for
\* the first channel of a socket, and as long as it has sent no I-frame: the
\* timer thread closes a channel at any time, also between the lookup and the
\* lock.
UnboundOnce ==
    \A e \in Endpoint :
        LET r == rx[Home(e)]
        IN  /\ FirstChannel(e) /\ ep[e].tx = "none"
            /\ r # Idle /\ r.ep = e /\ r.msg.type = "DiscReq"
            /\ Unlocked(e) /\ ConnValid(e)
            => ep[e].cid # NullCid
=============================================================================
