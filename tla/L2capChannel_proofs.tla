------------------------ MODULE L2capChannel_proofs ------------------------
(***************************************************************************)
(* What holds of L2capChannel for any number of sockets, channel ids,      *)
(* idents, connections and calls: the promises of the two allocation       *)
(* tables, the types, and the invariant IInv behind the idents, the        *)
(* channel ids and the configuration of open channels.                     *)
(***************************************************************************)
EXTENDS L2capChannel, TLAPS

----------------------------------------------------------------------------
\* The allocation tables

\* An ident that allocate_command_ident() hands out was not in use.
LEMMA AllocIdentUnused ==
    ASSUME NEW ids \in IdentTable, AllocIdent(ids) # NullIdent
    PROVE  /\ AllocIdent(ids) \in Ident
           /\ ids[AllocIdent(ids)] = NoEp
BY DEF AllocIdent, FirstUnused

\* The result is an ident or L2CAP_NULL_IDENT.
LEMMA AllocIdentType ==
    ASSUME NEW ids \in IdentTable
    PROVE  AllocIdent(ids) \in Ident \cup {NullIdent}
BY DEF AllocIdent, FirstUnused

\* The channel ids of a scan stay between L2CAP_FIRST_CID and L2CAP_LAST_CID.
LEMMA CidAtType ==
    ASSUME NEW next \in Cid, NEW k \in Nat
    PROVE  CidAt(next, k) \in Cid
<1>1. next - 1 + k \in Nat
  BY LastCidAssumption DEF Cid
<1>2. (next - 1 + k) % LastCid \in 0 .. LastCid - 1
  BY <1>1, LastCidAssumption
<1> QED
  BY <1>2, LastCidAssumption DEF CidAt, Cid

\* A channel id that BindToChannel() takes is none that is in the map.
LEMMA AllocCidFree ==
    ASSUME NEW taken, NEW next \in Cid
    PROVE  /\ AllocCid(taken, next) \in Cid \cup {NullCid}
           /\ AllocCid(taken, next) # NullCid => AllocCid(taken, next) \notin taken
<1>1. CASE FirstFree(taken, next) = {}
  BY <1>1 DEF AllocCid
<1>2. CASE FirstFree(taken, next) # {}
  <2>1. PICK k \in FirstFree(taken, next) : AllocCid(taken, next) = CidAt(next, k)
    BY <1>2 DEF AllocCid
  <2>2. k \in Nat /\ CidAt(next, k) \notin taken
    BY <2>1, LastCidAssumption DEF FirstFree, Tries
  <2> QED
    BY <2>1, <2>2, CidAtType
<1> QED
  BY <1>1, <1>2

\* fNextChannelID stays in the range after every scan.
LEMMA CidAfterType ==
    ASSUME NEW next \in Cid, NEW c \in Cid \cup {NullCid}
    PROVE  CidAfter(next, c) \in Cid
<1>1. LastCid - 1 \in Nat /\ 1 \in Nat
  BY LastCidAssumption
<1> QED
  BY <1>1, CidAtType DEF CidAfter

\* The operations of the ident table keep its type.
LEMMA IdentTableType ==
    ASSUME NEW ids \in IdentTable, NEW i, NEW e \in Endpoint
    PROVE  /\ LookupIdent(ids, i) \in Endpoint \cup {NoEp}
           /\ HoldIdent(ids, i, e) \in IdentTable
           /\ FreeIdent(ids, i) \in IdentTable
           /\ FreeIdentsOf(ids, e) \in IdentTable
BY DEF IdentTable, LookupIdent, HoldIdent, FreeIdent, FreeIdentsOf

----------------------------------------------------------------------------
\* Types of the helpers

LEMMA EndpointTypes ==
    /\ Client \subseteq Endpoint /\ Child \subseteq Endpoint
    /\ \A e \in Endpoint : Home(e) \in Host
    /\ \A h \in Host : Peer(h) \in Host /\ On(h) \subseteq Endpoint
    /\ NoConn \in Conn
BY EndpointAssumption, BoundAssumption DEF Home, Host, Peer, On, NoConn, Conn

LEMMA ForChannelType ==
    ASSUME NEW h \in Host, NEW cid
    PROVE  ForChannel(h, cid) \in Endpoint \cup {NoEp}
BY DEF ForChannel, On

\* Emptying the queue touches no other field.
LEMMA EmptiedType ==
    ASSUME NEW r \in EndpointRecord
    PROVE  LET n == Emptied(r)
           IN  /\ n \in EndpointRecord
               /\ n.state = r.state /\ n.conn = r.conn /\ n.cid = r.cid /\ n.dcid = r.dcid
               /\ n.in = r.in /\ n.out = r.out /\ n.call = r.call /\ n.drop = r.drop
               /\ n.saved = r.saved /\ n.sock = r.sock /\ n.queue = r.queue
               /\ n.psm = r.psm /\ n.mode = r.mode /\ n.woken = r.woken
<1> DEFINE t == IF r.tx = "queued" THEN "armed" ELSE r.tx
<1>1. t \in {"none", "armed", "queued"}
  BY DEF EndpointRecord
<1>2. Emptied(r) = [r EXCEPT !.tx = t]
  BY DEF Emptied
<1> HIDE DEF t
<1> QED
  BY <1>1, <1>2 DEF EndpointRecord

LEMMA RecordTypes ==
    ASSUME NEW r \in EndpointRecord
    PROVE  /\ MarkClosed(r) \in EndpointRecord
           /\ MarkEstablished(r) \in EndpointRecord
           /\ Reconfigured(r) \in EndpointRecord
           /\ ConfigDone(r) \in EndpointRecord
           /\ \A m \in Mode \cup {"none"} : WithMode(r, m) \in EndpointRecord
<1>1. MarkClosed(r) \in EndpointRecord
  <2>1. Emptied(r) \in EndpointRecord
    BY EmptiedType
  <2> QED
    BY <2>1 DEF MarkClosed, EndpointRecord, ChannelStatus
<1>2. MarkEstablished(r) \in EndpointRecord
  <2> DEFINE n == Emptied(r)
             q == IF n.queue = "pending" THEN "connected" ELSE n.queue
  <2>1. n \in EndpointRecord
    BY EmptiedType
  <2>2. q \in {"none", "pending", "connected", "accepted"}
    <3> HIDE DEF n
    <3>1. n.queue \in {"none", "pending", "connected", "accepted"}
      BY <2>1 DEF EndpointRecord
    <3> QED
      BY <3>1
  <2>3. MarkEstablished(r) = [n EXCEPT !.state = "OPEN", !.woken = TRUE, !.queue = q]
    BY DEF MarkEstablished
  <2> HIDE DEF n, q
  <2>4. [n EXCEPT !.queue = q] \in EndpointRecord
    BY <2>1, <2>2 DEF EndpointRecord
  <2> DEFINE k == [n EXCEPT !.queue = q]
  <2>5. "OPEN" \in ChannelStatus
    BY DEF ChannelStatus
  <2>6. k \in EndpointRecord
    BY <2>4
  <2>7. MarkEstablished(r) = [k EXCEPT !.state = "OPEN", !.woken = TRUE]
    BY <2>1, <2>3 DEF EndpointRecord
  <2> HIDE DEF k
  <2> QED
    BY <2>5, <2>6, <2>7 DEF EndpointRecord
<1>3. Reconfigured(r) \in EndpointRecord
  <2>1. [r EXCEPT !.in = "NONE", !.out = "NONE"] \in EndpointRecord
    BY DEF EndpointRecord, ConfigState
  <2> QED
    BY <2>1 DEF Reconfigured
<1>4. ConfigDone(r) \in EndpointRecord
  BY <1>2 DEF ConfigDone
<1>5. \A m \in Mode \cup {"none"} : WithMode(r, m) \in EndpointRecord
  BY DEF WithMode, EndpointRecord
<1> QED
  BY <1>1, <1>2, <1>3, <1>4, <1>5

Types == {"ConnReq", "ConnRsp", "CfgReq", "CfgRsp", "DiscReq", "DiscRsp",
          "InfoReq", "InfoRsp", "Reject"}

LEMMA CommandType ==
    ASSUME NEW type \in Types, NEW i \in Ident \cup {NullIdent}
    PROVE  Command(type, i) \in Message
BY DEF Types, Command, Message

LEMMA SendChannelConfigType ==
    ASSUME NEW e \in Endpoint, NEW r \in EndpointRecord, NEW ids \in IdentTable
    PROVE  /\ SendChannelConfig(e, r, ids).r \in EndpointRecord
           /\ SendChannelConfig(e, r, ids).ids \in IdentTable
           /\ SendChannelConfig(e, r, ids).msgs \in Seq(Message)
<1> DEFINE i == AllocIdent(ids)
           m == [Command("CfgReq", i) EXCEPT
                    !.dcid = r.dcid,
                    !.mode = IF r.psm = "dynamic" THEN "ERTM" ELSE "none"]
<1>1. CASE i = NullIdent
  BY <1>1 DEF SendChannelConfig
<1>2. CASE i # NullIdent
  <2>1. i \in Ident
    BY <1>2, AllocIdentType
  <2>2. m \in Message
    BY <2>1 DEF Command, Message, EndpointRecord, Mode
  <2>3. [r EXCEPT !.out = "SENT"] \in EndpointRecord
    BY DEF EndpointRecord, ConfigState
  <2>4. HoldIdent(ids, i, e) \in IdentTable
    BY IdentTableType
  <2> QED
    BY <1>2, <2>2, <2>3, <2>4 DEF SendChannelConfig
<1> QED
  BY <1>1, <1>2

LEMMA PostType ==
    ASSUME TypeOK, NEW h \in Host, NEW msgs \in Seq(Message), Post(h, msgs)
    PROVE  link' \in [Host -> Seq(Message)]
<1>1. Peer(h) \in Host
  BY DEF Peer, Host
<1>2. link[Peer(h)] \o msgs \in Seq(Message)
  <2>1. link[Peer(h)] \in Seq(Message)
    BY <1>1 DEF TypeOK
  <2> QED
    BY <2>1
<1> QED
  BY <1>1, <1>2 DEF Post, TypeOK

LEMMA FinishType ==
    ASSUME TypeOK, NEW h \in Host, rx[h] # Idle,
           NEW e \in Endpoint, NEW r \in EndpointRecord, NEW ids \in IdentTable,
           NEW msgs \in Seq(Message), Finish(h, e, r, ids, msgs)
    PROVE  TypeOK'
<1>1. link' \in [Host -> Seq(Message)]
  BY PostType DEF Finish
<1>2. ep' \in [Endpoint -> EndpointRecord]
  BY DEF Finish, TypeOK
<1>3. acceptSem' \in Nat
  <2>1. Released(ep[e], r) \in Nat
    BY DEF Released
  <2>2. acceptSem \in Nat /\ acceptSem' = acceptSem + Released(ep[e], r)
    BY DEF TypeOK, Finish
  <2> QED
    BY <2>1, <2>2
<1>4. idents' \in [Host -> IdentTable]
  BY IdentTableType DEF Finish, TypeOK, FreeIdent, IdentTable
<1>5. rx' \in [Host -> Busy \cup {Idle}]
  BY DEF Finish, TypeOK
<1> QED
  BY <1>1, <1>2, <1>3, <1>4, <1>5 DEF Finish, TypeOK

LEMMA PanicType ==
    ASSUME TypeOK, NEW why \in {"connection", "endpoint", "map insert", "map remove"},
           Panic(why)
    PROVE  TypeOK'
BY DEF Panic, TypeOK

LEMMA FinishOnConnType ==
    ASSUME TypeOK, NEW h \in Host, rx[h] # Idle,
           NEW e \in Endpoint, NEW r \in EndpointRecord, NEW ids \in IdentTable,
           NEW msgs \in Seq(Message), FinishOnConn(h, e, r, ids, msgs)
    PROVE  TypeOK'
BY FinishType, PanicType DEF FinishOnConn

LEMMA HandlingType ==
    ASSUME TypeOK, NEW h \in Host, NEW type, Handling(h, type)
    PROVE  /\ rx[h] # Idle
           /\ rx[h].msg \in Message /\ rx[h].msg.type = type
           /\ rx[h].ep \in Endpoint
           /\ ep[rx[h].ep] \in EndpointRecord
           /\ Notified(rx[h].ep) \in EndpointRecord
           /\ idents[h] \in IdentTable
           /\ Reject(rx[h].msg.ident) \in Message
           /\ rx[h].msg.ident \in Ident \cup {NullIdent}
<1>1. rx[h] \in Busy /\ rx[h] # Idle
  BY DEF Handling, TypeOK
<1>2. rx[h].msg \in Message /\ rx[h].ep \in Endpoint
  BY <1>1 DEF Busy, Handling
<1>3. ep[rx[h].ep] \in EndpointRecord
  BY <1>2 DEF TypeOK
<1>4. Notified(rx[h].ep) \in EndpointRecord
  BY <1>3 DEF Notified, EndpointRecord
<1>5. rx[h].msg.ident \in Ident \cup {NullIdent}
  BY <1>2 DEF Message
<1>6. Reject(rx[h].msg.ident) \in Message
  BY <1>5, CommandType DEF Reject, Types
<1> QED
  BY <1>1, <1>2, <1>3, <1>4, <1>5, <1>6 DEF Handling, TypeOK

----------------------------------------------------------------------------
\* Type correctness, one lemma per thread

LEMMA HandlersType ==
    ASSUME TypeOK, NEW h \in Host
    PROVE  /\ HandleConnectionRsp(h) => TypeOK'
           /\ HandleConfigurationReq(h) => TypeOK'
           /\ HandleConfigurationRsp(h) => TypeOK'
           /\ HandleDisconnectionReq(h) => TypeOK'
           /\ HandleDisconnectionRsp(h) => TypeOK'
           /\ HandleCommandRejected(h) => TypeOK'
           /\ HandleInfoRsp(h) => TypeOK'
<1> DEFINE m == rx[h].msg
           e == rx[h].ep
           r == Notified(e)
           ids == idents[h]
<1>0. << >> \in Seq(Message) /\ \A x \in Message : <<x>> \in Seq(Message)
  OBVIOUS
<1>1. ASSUME HandleConnectionRsp(h) PROVE TypeOK'
  <2>1. /\ m \in Message /\ e \in Endpoint /\ r \in EndpointRecord
        /\ ids \in IdentTable /\ rx[h] # Idle /\ <<Reject(m.ident)>> \in Seq(Message)
    BY <1>0, <1>1, HandlingType DEF HandleConnectionRsp
  <2>2. /\ [r EXCEPT !.state = "CLOSED"] \in EndpointRecord
        /\ [r EXCEPT !.state = "CONFIGURATION", !.dcid = m.dcid] \in EndpointRecord
    BY <2>1, ZenonT(40) DEF EndpointRecord, ChannelStatus, Establishing, Message
  <2>3. LET c == SendChannelConfig(e, [r EXCEPT !.state = "CONFIGURATION",
                                                !.dcid = m.dcid], ids)
        IN  c.r \in EndpointRecord /\ c.ids \in IdentTable /\ c.msgs \in Seq(Message)
    BY <2>1, <2>2, SendChannelConfigType
  <2>4. CASE r.state # "WAIT_FOR_CONNECTION_RSP" \/ r.cid # m.scid
    BY <1>1, <2>1, <2>4, FinishOnConnType DEF HandleConnectionRsp
  <2>5. CASE /\ ~(r.state # "WAIT_FOR_CONNECTION_RSP" \/ r.cid # m.scid)
             /\ m.result = "PENDING"
    BY <1>0, <1>1, <2>1, <2>5, FinishType DEF HandleConnectionRsp
  <2>6. CASE /\ ~(r.state # "WAIT_FOR_CONNECTION_RSP" \/ r.cid # m.scid)
             /\ m.result \notin {"PENDING", "SUCCESS"}
    BY <1>0, <1>1, <2>1, <2>2, <2>6, FinishType DEF HandleConnectionRsp
  <2>7. CASE /\ ~(r.state # "WAIT_FOR_CONNECTION_RSP" \/ r.cid # m.scid)
             /\ m.result = "SUCCESS"
    BY <1>1, <2>1, <2>3, <2>7, FinishOnConnType DEF HandleConnectionRsp
  <2> QED
    BY <2>4, <2>5, <2>6, <2>7
<1>2. ASSUME HandleConfigurationReq(h) PROVE TypeOK'
  <2> DEFINE w == WithMode(Reconfigured(r), m.mode)
             begun == [w EXCEPT !.state = "CONFIGURATION"]
             new == [begun EXCEPT !.in = "DONE"]
             rsp == [Command("CfgRsp", m.ident) EXCEPT
                        !.scid = new.dcid,
                        !.mode = IF m.mode = "ERTM" THEN "ERTM" ELSE "none"]
             no == [rsp EXCEPT !.result = "REJECTED", !.mode = "none"]
  <2>1. /\ m \in Message /\ e \in Endpoint /\ r \in EndpointRecord
        /\ ids \in IdentTable /\ rx[h] # Idle
        /\ m.ident \in Ident \cup {NullIdent}
    BY <1>2, HandlingType DEF HandleConfigurationReq
  <2>2. w \in EndpointRecord
    BY <2>1, RecordTypes DEF Message
  <2>3. begun \in EndpointRecord /\ new \in EndpointRecord
    <3>1. begun \in EndpointRecord
      <4> HIDE DEF w
      <4> QED
        BY <2>2 DEF EndpointRecord, ChannelStatus, Establishing
    <3> HIDE DEF begun
    <3> QED
      BY <3>1 DEF EndpointRecord, ConfigState
  <2>4. rsp \in Message /\ no \in Message
    <3>1. new.dcid \in Cid \cup {NullCid}
      BY <2>3 DEF EndpointRecord
    <3>2. rsp \in Message
      BY <2>1, <3>1 DEF Command, Message, Mode
    <3> QED
      BY <3>2 DEF Message
  <2>5. LET c == SendChannelConfig(e, new, ids)
        IN  /\ c.r \in EndpointRecord /\ c.ids \in IdentTable
            /\ <<rsp>> \o c.msgs \in Seq(Message)
    <3> DEFINE c == SendChannelConfig(e, new, ids)
    <3>1. c.r \in EndpointRecord /\ c.ids \in IdentTable /\ c.msgs \in Seq(Message)
      BY <2>1, <2>3, SendChannelConfigType
    <3>2. <<rsp>> \in Seq(Message)
      BY <1>0, <2>4
    <3>3. \A s, t \in Seq(Message) : s \o t \in Seq(Message)
      OBVIOUS
    <3> HIDE DEF c, rsp
    <3> QED
      BY <3>1, <3>2, <3>3 DEF c
  <2>6. /\ <<rsp>> \in Seq(Message) /\ <<no>> \in Seq(Message)
        /\ ConfigDone(new) \in EndpointRecord
    BY <1>0, <2>3, <2>4, RecordTypes
  <2>7. CASE r.state \notin {"CONFIGURATION", "OPEN"}
    BY <1>2, <2>1, <2>6, <2>7, FinishOnConnType DEF HandleConfigurationReq
  <2>8. CASE r.state \in {"CONFIGURATION", "OPEN"} /\ m.more
    BY <1>2, <2>1, <2>3, <2>6, <2>8, FinishOnConnType DEF HandleConfigurationReq
  <2>9. CASE r.state \in {"CONFIGURATION", "OPEN"} /\ ~m.more /\ new.out = "NONE"
    BY <1>2, <2>1, <2>5, <2>9, FinishOnConnType DEF HandleConfigurationReq
  <2>10. CASE r.state \in {"CONFIGURATION", "OPEN"} /\ ~m.more /\ new.out # "NONE"
    BY <1>2, <2>1, <2>6, <2>10, FinishOnConnType DEF HandleConfigurationReq
  <2> QED
    BY <2>7, <2>8, <2>9, <2>10
<1>3. ASSUME HandleConfigurationRsp(h) PROVE TypeOK'
  <2> DEFINE told == WithMode(r, m.mode)
             done == ConfigDone([told EXCEPT !.out = "DONE"])
             stray == r.state # "CONFIGURATION" \/ m.scid # r.cid
             given == IF m.result = "UNACCEPTABLE" THEN told ELSE r
             again == m.result \in {"UNACCEPTABLE", "FLOW_SPEC"} /\ ~m.more
  <2>1. /\ m \in Message /\ e \in Endpoint /\ r \in EndpointRecord
        /\ ids \in IdentTable /\ rx[h] # Idle /\ <<Reject(m.ident)>> \in Seq(Message)
    BY <1>0, <1>3, HandlingType DEF HandleConfigurationRsp
  <2>2. told \in EndpointRecord
    BY <2>1, RecordTypes DEF Message
  <2>3. [told EXCEPT !.out = "DONE"] \in EndpointRecord
    BY <2>2 DEF EndpointRecord, ConfigState
  <2>4. done \in EndpointRecord
    BY <2>3, RecordTypes
  <2>5. LET c == SendChannelConfig(e, given, ids)
        IN  /\ given \in EndpointRecord
            /\ c.r \in EndpointRecord /\ c.ids \in IdentTable /\ c.msgs \in Seq(Message)
    BY <2>1, <2>2, SendChannelConfigType
  <2>6. CASE stray
    BY <1>3, <2>1, <2>6, FinishOnConnType DEF HandleConfigurationRsp
  <2>7. CASE ~stray /\ again
    BY <1>3, <2>1, <2>5, <2>7, FinishOnConnType DEF HandleConfigurationRsp
  <2>8. CASE ~stray /\ ~again /\ (m.result # "SUCCESS" \/ m.more)
    BY <1>0, <1>3, <2>1, <2>5, <2>8, FinishType DEF HandleConfigurationRsp
  <2>9. CASE ~stray /\ ~again /\ m.result = "SUCCESS" /\ ~m.more
    BY <1>0, <1>3, <2>1, <2>4, <2>9, FinishType DEF HandleConfigurationRsp
  <2> QED
    BY <2>6, <2>7, <2>8, <2>9
<1>4. ASSUME HandleDisconnectionReq(h) PROVE TypeOK'
  <2> DEFINE rsp == [Command("DiscRsp", m.ident) EXCEPT !.dcid = r.cid, !.scid = m.scid]
  <2>1. /\ m \in Message /\ e \in Endpoint /\ r \in EndpointRecord
        /\ ids \in IdentTable /\ rx[h] # Idle /\ <<Reject(m.ident)>> \in Seq(Message)
        /\ m.ident \in Ident \cup {NullIdent}
    BY <1>0, <1>4, HandlingType DEF HandleDisconnectionReq
  <2>2. rsp \in Message
    BY <2>1 DEF Command, Message, EndpointRecord
  <2>3. <<rsp>> \in Seq(Message) /\ MarkClosed(r) \in EndpointRecord
    BY <1>0, <2>1, <2>2, RecordTypes
  <2> QED
    BY <1>4, <2>1, <2>3, FinishOnConnType, PanicType DEF HandleDisconnectionReq
<1>5. ASSUME HandleDisconnectionRsp(h) PROVE TypeOK'
  <2>1. /\ m \in Message /\ e \in Endpoint /\ r \in EndpointRecord
        /\ ids \in IdentTable /\ rx[h] # Idle /\ <<Reject(m.ident)>> \in Seq(Message)
        /\ MarkClosed(r) \in EndpointRecord
    BY <1>0, <1>5, HandlingType, RecordTypes DEF HandleDisconnectionRsp
  <2> QED
    BY <1>0, <1>5, <2>1, FinishOnConnType, FinishType, PanicType DEF HandleDisconnectionRsp
<1>6. ASSUME HandleCommandRejected(h) PROVE TypeOK'
  <2>1. /\ e \in Endpoint /\ r \in EndpointRecord /\ ids \in IdentTable /\ rx[h] # Idle
    BY <1>6, HandlingType DEF HandleCommandRejected
  <2>2. \A s \in {"CLOSED", r.state} : [r EXCEPT !.state = s] \in EndpointRecord
    BY <2>1 DEF EndpointRecord, ChannelStatus
  <2> QED
    BY <1>0, <1>6, <2>1, <2>2, FinishType DEF HandleCommandRejected
<1>7. ASSUME HandleInfoRsp(h) PROVE TypeOK'
  <2>1. /\ e \in Endpoint /\ r \in EndpointRecord /\ ep[e] \in EndpointRecord
        /\ ids \in IdentTable /\ rx[h] # Idle
    BY <1>7, HandlingType DEF HandleInfoRsp
  <2>2. [r EXCEPT !.state = "CLOSED"] \in EndpointRecord
    BY <2>1 DEF EndpointRecord, ChannelStatus
  <2> QED
    BY <1>0, <1>7, <2>1, <2>2, FinishType DEF HandleInfoRsp
<1> QED
  BY <1>1, <1>2, <1>3, <1>4, <1>5, <1>6, <1>7

LEMMA SequenceTypes ==
    /\ << >> \in Seq(Message)
    /\ \A x \in Message : <<x>> \in Seq(Message)
    /\ \A s, t \in Seq(Message) : s \o t \in Seq(Message)
    /\ \A s \in Seq(Message) : \A x \in Message : Append(s, x) \in Seq(Message)
    /\ \A s \in Seq(Message) :
          s # << >> => Head(s) \in Message /\ Tail(s) \in Seq(Message)
OBVIOUS

\* What the RX thread holds while it is not idle
LEMMA RxBusy ==
    ASSUME TypeOK, NEW h \in Host, rx[h] # Idle
    PROVE  /\ rx[h].msg \in Message /\ rx[h].msg.ident \in Ident \cup {NullIdent}
           /\ rx[h].ep \in Endpoint \cup {NoEp}
<1>1. rx[h] \in Busy
  BY DEF TypeOK
<1> QED
  BY <1>1 DEF Busy, Message

LEMMA IdleType ==
    ASSUME TypeOK, NEW h \in Host, rx' = [rx EXCEPT ![h] = Idle]
    PROVE  rx' \in [Host -> Busy \cup {Idle}]
BY DEF TypeOK

LEMMA ReceiveType ==
    ASSUME TypeOK, NEW h \in Host, Receive(h)
    PROVE  TypeOK'
<1> DEFINE m == Head(link[h])
           target == IF m.type \in Responses THEN LookupIdent(idents[h], m.ident)
                     ELSE IF m.type \in {"CfgReq", "DiscReq"}
                     THEN ForChannel(h, m.dcid)
                     ELSE NoEp
           busy == [type |-> "busy", msg |-> m, ep |-> target]
<1>1. link[h] \in Seq(Message) /\ link[h] # << >>
  BY DEF TypeOK, Receive
<1>2. m \in Message /\ Tail(link[h]) \in Seq(Message)
  BY <1>1, SequenceTypes
<1>3. LookupIdent(idents[h], m.ident) \in Endpoint \cup {NoEp}
  <2>1. idents[h] \in IdentTable
    BY DEF TypeOK
  <2> QED
    BY <2>1 DEF LookupIdent, IdentTable
<1>4. target \in Endpoint \cup {NoEp}
  BY <1>3, ForChannelType
<1>5. busy \in Busy
  <2> HIDE DEF m, target
  <2> QED
    BY <1>2, <1>4 DEF Busy
<1>6. rx' = [rx EXCEPT ![h] = busy]
  BY DEF Receive
<1>7. rx' \in [Host -> Busy \cup {Idle}]
  <2> HIDE DEF busy
  <2> QED
    BY <1>5, <1>6 DEF TypeOK
<1>8. link' \in [Host -> Seq(Message)]
  BY <1>2 DEF TypeOK, Receive
<1> QED
  BY <1>7, <1>8 DEF TypeOK, Receive

LEMMA StrayType ==
    ASSUME TypeOK, NEW h \in Host
    PROVE  /\ HandleFreed(h) => TypeOK'
           /\ HandleStray(h) => TypeOK'
           /\ RefuseConnection(h) => TypeOK'
<1> DEFINE m == rx[h].msg
<1>1. ASSUME HandleFreed(h) PROVE TypeOK'
  BY <1>1, PanicType DEF HandleFreed
<1>2. ASSUME HandleStray(h) PROVE TypeOK'
  <2> DEFINE msgs == IF m.type \in Responses THEN << >>
                     ELSE IF m.type = "InfoReq" THEN <<Command("InfoRsp", m.ident)>>
                     ELSE <<Reject(m.ident)>>
  <2>1. rx[h] # Idle /\ m.ident \in Ident \cup {NullIdent}
    BY <1>2, RxBusy DEF HandleStray
  <2>2. Command("InfoRsp", m.ident) \in Message /\ Reject(m.ident) \in Message
    BY <2>1, CommandType DEF Reject, Types
  <2>3. msgs \in Seq(Message)
    BY <2>2, SequenceTypes
  <2>4. Post(h, msgs)
    BY <1>2 DEF HandleStray
  <2>5. link' \in [Host -> Seq(Message)]
    <3> HIDE DEF msgs
    <3> QED
      BY <2>3, <2>4, PostType
  <2>6. idents' \in [Host -> IdentTable]
    BY <1>2 DEF HandleStray, TypeOK, FreeIdent, IdentTable
  <2>7. rx' \in [Host -> Busy \cup {Idle}]
    BY <1>2, IdleType DEF HandleStray
  <2> QED
    BY <1>2, <2>5, <2>6, <2>7 DEF HandleStray, TypeOK
<1>3. ASSUME RefuseConnection(h) PROVE TypeOK'
  <2> DEFINE rsp == [Command("ConnRsp", m.ident) EXCEPT
                        !.scid = m.scid, !.result = "REFUSED"]
  <2>1. rx[h] # Idle /\ m \in Message /\ m.ident \in Ident \cup {NullIdent}
    BY <1>3, RxBusy DEF RefuseConnection
  <2>2. rsp \in Message
    BY <2>1 DEF Command, Message
  <2>3. <<rsp>> \in Seq(Message)
    BY <2>2, SequenceTypes
  <2>4. link' \in [Host -> Seq(Message)]
    BY <1>3, <2>3, PostType DEF RefuseConnection
  <2>5. rx' \in [Host -> Busy \cup {Idle}]
    BY <1>3, IdleType DEF RefuseConnection
  <2> QED
    BY <1>3, <2>4, <2>5 DEF RefuseConnection, TypeOK
<1> QED
  BY <1>1, <1>2, <1>3

LEMMA AllocCidType ==
    ASSUME TypeOK, NEW h \in Host
    PROVE  /\ AllocCid(CidsOf(h), nextCid[h]) \in Cid \cup {NullCid}
           /\ CidAfter(nextCid[h], AllocCid(CidsOf(h), nextCid[h])) \in Cid
BY AllocCidFree, CidAfterType DEF TypeOK

LEMMA HandleConnectionReqType ==
    ASSUME TypeOK, NEW h \in Host, NEW f \in Child, HandleConnectionReq(h, f)
    PROVE  TypeOK'
<1> DEFINE m == rx[h].msg
           born == [ep[f] EXCEPT !.sock = "live", !.queue = "pending"]
           cid == AllocCid(CidsOf(h), nextCid[h])
           new == [born EXCEPT !.state = "CONFIGURATION", !.conn = hci[h],
                               !.psm = m.psm, !.cid = cid, !.dcid = m.scid]
           c == SendChannelConfig(f, new, idents[h])
           rsp == [Command("ConnRsp", m.ident) EXCEPT !.scid = m.scid]
           no == [rsp EXCEPT !.result = "REFUSED"]
           yes == [rsp EXCEPT !.dcid = cid]
<1>1. /\ f \in Endpoint /\ m \in Message /\ m.ident \in Ident \cup {NullIdent}
      /\ m.psm \in Psm \cup {"none"} /\ m.scid \in Cid \cup {NullCid}
  <2>1. m \in Message /\ m.ident \in Ident \cup {NullIdent}
    BY RxBusy DEF HandleConnectionReq
  <2> QED
    BY <2>1, EndpointTypes DEF Message
<1>2. cid \in Cid \cup {NullCid} /\ CidAfter(nextCid[h], cid) \in Cid
  BY AllocCidType
<1> HIDE DEF cid, m
<1>3. born \in EndpointRecord
  <2>1. ep[f] \in EndpointRecord
    BY <1>1 DEF TypeOK
  <2> QED
    BY <2>1 DEF EndpointRecord
<1>4. hci[h] \in Conn /\ idents[h] \in IdentTable
  BY DEF TypeOK
<1> HIDE DEF born
<1>5. new \in EndpointRecord
  BY <1>1, <1>2, <1>3, <1>4 DEF EndpointRecord, ChannelStatus, Establishing
<1> HIDE DEF new
<1>6. c.r \in EndpointRecord /\ c.ids \in IdentTable /\ c.msgs \in Seq(Message)
  BY <1>1, <1>4, <1>5, SendChannelConfigType
<1>7. rsp \in Message
  BY <1>1 DEF Command, Message
<1>8. no \in Message /\ yes \in Message
  BY <1>2, <1>7 DEF Message
<1> HIDE DEF rsp, c, no, yes
<1>9. <<no>> \in Seq(Message) /\ <<yes>> \o c.msgs \in Seq(Message)
  BY <1>6, <1>8, SequenceTypes
<1>10. /\ nextCid' = [nextCid EXCEPT ![h] = CidAfter(@, cid)]
       /\ rx' = [rx EXCEPT ![h] = Idle]
       /\ UNCHANGED <<listener, acceptSem, hci, panic, used>>
       /\ \/ /\ ep' = [ep EXCEPT ![f] = born]
             /\ Post(h, <<no>>)
             /\ UNCHANGED idents
          \/ /\ ep' = [ep EXCEPT ![f] = c.r]
             /\ Post(h, <<yes>> \o c.msgs)
             /\ idents' = [idents EXCEPT ![h] = c.ids]
  BY DEF HandleConnectionReq, m, born, cid, new, c, rsp, no, yes
<1>11. link' \in [Host -> Seq(Message)]
  BY <1>9, <1>10, PostType
<1>12. ep' \in [Endpoint -> EndpointRecord] /\ idents' \in [Host -> IdentTable]
  BY <1>3, <1>6, <1>10 DEF TypeOK
<1>13. nextCid' \in [Host -> Cid]
  BY <1>2, <1>10 DEF TypeOK
<1>14. rx' \in [Host -> Busy \cup {Idle}]
  BY <1>10, IdleType
<1> QED
  BY <1>10, <1>11, <1>12, <1>13, <1>14 DEF TypeOK

\* A step that changes one endpoint record, and no other variable than those
\* whose types are given, keeps the types.
LEMMA EndpointStepType ==
    ASSUME TypeOK, NEW e \in Endpoint, NEW r \in EndpointRecord,
           ep' = [ep EXCEPT ![e] = r],
           UNCHANGED <<listener, acceptSem, hci, nextCid, rx, panic>>,
           idents' \in [Host -> IdentTable], link' \in [Host -> Seq(Message)],
           used' \in Used
    PROVE  TypeOK'
BY DEF TypeOK

\* The bounds stay in their range.
LEMMA UsedType ==
    ASSUME TypeOK
    PROVE  /\ \A e \in Client : [used EXCEPT !.connects[e] = @ + 1] \in Used
           /\ [used EXCEPT !.closes = @ + 1] \in Used
           /\ [used EXCEPT !.foreign = @ + 1] \in Used
           /\ used.links < MaxLinks => /\ [used EXCEPT !.links = @ + 1] \in Used
                                       /\ used.links + 1 \in Conn
<1>1. used \in Used
  BY DEF TypeOK
<1>2. /\ [used EXCEPT !.closes = @ + 1] \in Used
      /\ [used EXCEPT !.foreign = @ + 1] \in Used
  BY <1>1 DEF Used
<1>3. ASSUME NEW e \in Client PROVE [used EXCEPT !.connects[e] = @ + 1] \in Used
  <2>1. [used.connects EXCEPT ![e] = @ + 1] \in [Client -> Nat]
    BY <1>1 DEF Used
  <2> QED
    BY <1>1, <2>1 DEF Used
<1>4. ASSUME used.links < MaxLinks
      PROVE  [used EXCEPT !.links = @ + 1] \in Used /\ used.links + 1 \in Conn
  <2>1. used.links + 1 \in 0 .. MaxLinks
    BY <1>1, <1>4, BoundAssumption DEF Used
  <2> QED
    BY <1>1, <2>1 DEF Used, Conn
<1> QED
  BY <1>2, <1>3, <1>4

LEMMA RequestConnectionType ==
    ASSUME TypeOK, NEW e \in Client, NEW r \in EndpointRecord, RequestConnection(e, r),
           nextCid' \in [Host -> Cid],
           UNCHANGED <<listener, acceptSem, hci, rx, panic, used>>
    PROVE  TypeOK'
<1> DEFINE i == AllocIdent(idents["A"])
           req == [Command("ConnReq", i) EXCEPT !.scid = r.cid, !.psm = r.psm]
<1>1. e \in Endpoint /\ "A" \in Host /\ idents["A"] \in IdentTable
  BY EndpointTypes DEF Host, TypeOK
<1>2. /\ [r EXCEPT !.call = "none"] \in EndpointRecord
      /\ [r EXCEPT !.state = "WAIT_FOR_CONNECTION_RSP", !.call = "connect",
                   !.woken = FALSE] \in EndpointRecord
  BY ZenonT(40) DEF EndpointRecord, ChannelStatus, Establishing
<1>3. CASE i = NullIdent
  BY <1>1, <1>2, <1>3 DEF RequestConnection, TypeOK
<1>4. CASE i # NullIdent
  <2>1. i \in Ident
    BY <1>1, <1>4, AllocIdentType
  <2>2. req \in Message
    BY <2>1 DEF Command, Message, EndpointRecord
  <2>3. <<req>> \in Seq(Message)
    BY <2>2, SequenceTypes
  <2>4. link' \in [Host -> Seq(Message)]
    BY <1>1, <1>4, <2>3, PostType DEF RequestConnection
  <2>5. idents' \in [Host -> IdentTable]
    <3>1. HoldIdent(idents["A"], i, e) \in IdentTable
      BY <1>1, IdentTableType
    <3> QED
      BY <1>4, <3>1 DEF RequestConnection, TypeOK
  <2>6. ep' \in [Endpoint -> EndpointRecord]
    BY <1>1, <1>2, <1>4 DEF RequestConnection, TypeOK
  <2> QED
    BY <2>4, <2>5, <2>6 DEF TypeOK
<1> QED
  BY <1>3, <1>4

LEMMA ConnectType ==
    ASSUME TypeOK, NEW e \in Client
    PROVE  /\ \A p \in Psm : ConnectRoute(e, p) => TypeOK'
           /\ ConnectBind(e) => TypeOK'
           /\ ConnectAfterInfo(e) => TypeOK'
           /\ ConnectWake(e) => TypeOK'
           /\ ConnectInterrupted(e) => TypeOK'
<1>1. e \in Endpoint /\ "A" \in Host /\ idents["A"] \in IdentTable
  BY EndpointTypes DEF Host, TypeOK
<1>2. ep[e] \in EndpointRecord
  BY <1>1 DEF TypeOK
<1>3. ASSUME NEW p \in Psm, ConnectRoute(e, p) PROVE TypeOK'
  <2>1. [ep[e] EXCEPT !.conn = hci["A"], !.psm = p, !.call = "route"] \in EndpointRecord
    BY <1>1, <1>2 DEF EndpointRecord, TypeOK
  <2>2. ep' = [ep EXCEPT ![e] = [@ EXCEPT !.conn = hci["A"], !.psm = p, !.call = "route"]]
    BY <1>1, <1>2, <1>3 DEF ConnectRoute, TypeOK, EndpointRecord
  <2>3. ep' \in [Endpoint -> EndpointRecord]
    BY <2>1, <2>2 DEF TypeOK
  <2>4. used' \in Used
    BY <1>3, UsedType DEF ConnectRoute
  <2> QED
    BY <1>3, <2>3, <2>4 DEF ConnectRoute, TypeOK
<1>4. ASSUME ConnectBind(e) PROVE TypeOK'
  <2> DEFINE cid == AllocCid(CidsOf("A"), nextCid["A"])
             r == [ep[e] EXCEPT !.cid = cid, !.in = "NONE", !.out = "NONE"]
             asking == [r EXCEPT !.state = "WAIT_FOR_INFO_RSP", !.call = "info"]
             i == AllocIdent(idents["A"])
  <2>1. cid \in Cid \cup {NullCid} /\ CidAfter(nextCid["A"], cid) \in Cid
    BY <1>1, AllocCidType
  <2> HIDE DEF cid
  <2>2. r \in EndpointRecord
    BY <1>2, <2>1 DEF EndpointRecord, ConfigState
  <2> HIDE DEF r
  <2>3. asking \in EndpointRecord
    BY <2>2 DEF EndpointRecord, ChannelStatus, Establishing
  <2> HIDE DEF asking
  <2>4. CASE \/ Panic("map insert")
             \/ Panic("connection")
    BY <2>4, PanicType
  <2>5. CASE /\ nextCid' = [nextCid EXCEPT !["A"] = CidAfter(@, cid)]
             /\ \/ /\ ep' = [ep EXCEPT ![e].call = "none"]
                   /\ UNCHANGED <<idents, link>>
                \/ /\ i # NullIdent
                   /\ ep' = [ep EXCEPT ![e] = asking]
                   /\ idents' = [idents EXCEPT !["A"] = HoldIdent(@, i, e)]
                   /\ Post("A", <<Command("InfoReq", i)>>)
                \/ RequestConnection(e, r)
             /\ UNCHANGED <<listener, acceptSem, hci, rx, panic, used>>
    <3>1. nextCid' \in [Host -> Cid]
      BY <2>1, <2>5 DEF TypeOK
    <3>2. CASE ep' = [ep EXCEPT ![e].call = "none"] /\ UNCHANGED <<idents, link>>
      <4>1. [ep[e] EXCEPT !.call = "none"] \in EndpointRecord
        BY <1>2 DEF EndpointRecord
      <4>2. ep' \in [Endpoint -> EndpointRecord]
        BY <3>2, <4>1 DEF TypeOK
      <4> QED
        BY <2>5, <3>1, <3>2, <4>2 DEF TypeOK
    <3>3. CASE /\ i # NullIdent
               /\ ep' = [ep EXCEPT ![e] = asking]
               /\ idents' = [idents EXCEPT !["A"] = HoldIdent(@, i, e)]
               /\ Post("A", <<Command("InfoReq", i)>>)
      <4>1. i \in Ident
        BY <1>1, <3>3, AllocIdentType
      <4>2. <<Command("InfoReq", i)>> \in Seq(Message)
        BY <4>1, CommandType, SequenceTypes DEF Types
      <4>3. link' \in [Host -> Seq(Message)]
        BY <1>1, <3>3, <4>2, PostType
      <4>4. idents' \in [Host -> IdentTable]
        BY <1>1, <3>3, IdentTableType DEF TypeOK
      <4>5. ep' \in [Endpoint -> EndpointRecord]
        BY <2>3, <3>3 DEF TypeOK
      <4> QED
        BY <2>5, <3>1, <4>3, <4>4, <4>5 DEF TypeOK
    <3>4. CASE RequestConnection(e, r)
      BY <2>2, <2>5, <3>1, <3>4, RequestConnectionType
    <3> QED
      BY <2>5, <3>2, <3>3, <3>4
  <2> QED
    BY <1>4, <2>4, <2>5 DEF ConnectBind, cid, r, asking
<1>5. ASSUME ConnectAfterInfo(e) PROVE TypeOK'
  <2>1. [ep[e] EXCEPT !.state = "CLOSED"] \in EndpointRecord
    BY <1>2 DEF EndpointRecord, ChannelStatus
  <2>2. nextCid' = nextCid => nextCid' \in [Host -> Cid]
    BY DEF TypeOK
  <2> QED
    BY <1>5, <2>1, <2>2, PanicType, RequestConnectionType DEF ConnectAfterInfo
<1>6. ASSUME ConnectWake(e) PROVE TypeOK'
  <2>1. \A c \in {"none", ep[e].call} :
           [ep[e] EXCEPT !.woken = FALSE, !.call = c] \in EndpointRecord
    BY <1>2 DEF EndpointRecord
  <2>2. \E c \in {"none", ep[e].call} :
           ep' = [ep EXCEPT ![e] = [@ EXCEPT !.woken = FALSE, !.call = c]]
    BY <1>1, <1>2, <1>6 DEF ConnectWake, TypeOK, EndpointRecord
  <2>3. ep' \in [Endpoint -> EndpointRecord]
    BY <2>1, <2>2 DEF TypeOK
  <2> QED
    BY <1>6, <2>3 DEF ConnectWake, TypeOK
<1>7. ASSUME ConnectInterrupted(e) PROVE TypeOK'
  <2>1. [ep[e] EXCEPT !.call = "none"] \in EndpointRecord
    BY <1>2 DEF EndpointRecord
  <2>2. ep' \in [Endpoint -> EndpointRecord]
    BY <1>7, <2>1 DEF ConnectInterrupted, TypeOK
  <2> QED
    BY <1>7, <2>2 DEF ConnectInterrupted, TypeOK
<1> QED
  BY <1>3, <1>4, <1>5, <1>6, <1>7

LEMMA ForgetType ==
    ASSUME TypeOK, NEW e \in Endpoint, Forget(e)
    PROVE  idents' \in [Host -> IdentTable]
<1>1. Home(e) \in Host /\ idents[Home(e)] \in IdentTable
  BY EndpointTypes DEF TypeOK
<1>2. FreeIdentsOf(idents[Home(e)], e) \in IdentTable
  BY <1>1, IdentTableType
<1> QED
  BY <1>1, <1>2 DEF Forget, TypeOK

LEMMA CloseType ==
    ASSUME TypeOK, NEW e \in Endpoint, CloseStep(e)
    PROVE  TypeOK'
<1>1. ep[e] \in EndpointRecord /\ ep[e].conn \in Conn /\ Home(e) \in Host
  <2>1. ep[e] \in EndpointRecord
    BY DEF TypeOK
  <2> QED
    BY <2>1, EndpointTypes DEF EndpointRecord
<1>2. Closing(e) => used' \in Used
  BY UsedType DEF Closing
<1>3. CASE ShutdownEstablishing(e)
  <2> DEFINE r == [MarkClosed(ep[e]) EXCEPT !.conn = NoConn, !.drop = "forget",
                                            !.saved = ep[e].conn]
  <2>1. MarkClosed(ep[e]) \in EndpointRecord
    BY <1>1, RecordTypes
  <2>2. r \in EndpointRecord
    BY <1>1, <2>1, EndpointTypes DEF EndpointRecord
  <2>3. ep' \in [Endpoint -> EndpointRecord]
    <3>1. ep' = ep \/ ep' = [ep EXCEPT ![e] = r]
      BY <1>3 DEF ShutdownEstablishing
    <3> QED
      BY <2>2, <3>1 DEF TypeOK
  <2> QED
    BY <1>2, <1>3, <2>3 DEF ShutdownEstablishing, TypeOK
<1>4. CASE ShutdownForget(e)
  <2> DEFINE r == [ep[e] EXCEPT !.drop = "none", !.saved = NoConn]
  <2>1. r \in EndpointRecord
    BY <1>1, EndpointTypes DEF EndpointRecord
  <2>2. ep' = [ep EXCEPT ![e] = r]
    BY <1>1, <1>4 DEF ShutdownForget, TypeOK, EndpointRecord
  <2>3. ep' \in [Endpoint -> EndpointRecord]
    BY <2>1, <2>2 DEF TypeOK
  <2>4. idents' \in [Host -> IdentTable]
    BY <1>4, ForgetType DEF ShutdownForget
  <2> QED
    BY <1>4, <2>3, <2>4 DEF ShutdownForget, TypeOK
<1>5. CASE ShutdownOpen(e)
  <2> DEFINE h == Home(e)
             i == AllocIdent(idents[h])
             req == [Command("DiscReq", i) EXCEPT !.dcid = ep[e].dcid, !.scid = ep[e].cid]
  <2>1. CASE panic' = "connection" /\ UNCHANGED <<ep, idents, link>>
    BY <1>2, <1>5, <2>1 DEF ShutdownOpen, TypeOK
  <2>2. CASE /\ i # NullIdent
             /\ ep' = [ep EXCEPT ![e].state = "WAIT_FOR_DISCONNECTION_RSP"]
             /\ idents' = [idents EXCEPT ![h] = HoldIdent(@, i, e)]
             /\ Post(h, <<req>>)
             /\ UNCHANGED panic
    <3>1. idents[h] \in IdentTable
      BY <1>1 DEF TypeOK
    <3>2. i \in Ident
      BY <2>2, <3>1, AllocIdentType
    <3>3. req \in Message
      BY <1>1, <3>2 DEF Command, Message, EndpointRecord
    <3>4. <<req>> \in Seq(Message)
      BY <3>3, SequenceTypes
    <3>5. link' \in [Host -> Seq(Message)]
      BY <1>1, <2>2, <3>4, PostType
    <3>6. HoldIdent(idents[h], i, e) \in IdentTable
      BY <3>1, IdentTableType
    <3>7. idents' \in [Host -> IdentTable]
      BY <2>2, <3>6 DEF TypeOK
    <3>8. [ep[e] EXCEPT !.state = "WAIT_FOR_DISCONNECTION_RSP"] \in EndpointRecord
      BY <1>1 DEF EndpointRecord, ChannelStatus
    <3>9. ep' \in [Endpoint -> EndpointRecord]
      BY <2>2, <3>8 DEF TypeOK
    <3> QED
      BY <1>2, <1>5, <2>2, <3>5, <3>7, <3>9 DEF ShutdownOpen, TypeOK
  <2> QED
    BY <1>5, <2>1, <2>2 DEF ShutdownOpen
<1>6. CASE FreeBegin(e)
  <2> DEFINE r == [ep[e] EXCEPT !.state = "CLOSED", !.conn = NoConn,
                                !.drop = "unmap", !.saved = ep[e].conn]
  <2>1. r \in EndpointRecord
    BY <1>1, EndpointTypes DEF EndpointRecord, ChannelStatus
  <2>2. ep' = [ep EXCEPT ![e] = r]
    BY <1>1, <1>6 DEF FreeBegin, TypeOK, EndpointRecord
  <2>3. ep' \in [Endpoint -> EndpointRecord]
    BY <2>1, <2>2 DEF TypeOK
  <2> QED
    BY <1>2, <1>6, <2>3 DEF FreeBegin, TypeOK
<1>7. CASE FreeEnd(e)
  <2> DEFINE r == [ep[e] EXCEPT !.cid = NullCid, !.drop = "none", !.saved = NoConn,
                                !.sock = "freed"]
  <2>1. r \in EndpointRecord
    BY <1>1, EndpointTypes DEF EndpointRecord
  <2>2. ep' = [ep EXCEPT ![e] = r]
    BY <1>1, <1>7 DEF FreeEnd, TypeOK, EndpointRecord
  <2>3. ep' \in [Endpoint -> EndpointRecord]
    BY <2>1, <2>2 DEF TypeOK
  <2>4. idents' \in [Host -> IdentTable]
    BY <1>7, ForgetType DEF FreeEnd
  <2> QED
    BY <1>7, <2>3, <2>4 DEF FreeEnd, TypeOK
<1> QED
  BY <1>3, <1>4, <1>5, <1>6, <1>7 DEF CloseStep

LEMMA ErtmType ==
    ASSUME TypeOK, NEW e \in Endpoint, ErtmStep(e)
    PROVE  TypeOK'
<1>1. ep[e] \in EndpointRecord
  BY DEF TypeOK
<1>2. /\ [ep[e] EXCEPT !.tx = "queued"] \in EndpointRecord
      /\ [ep[e] EXCEPT !.state = "CLOSED", !.woken = TRUE] \in EndpointRecord
      /\ MarkClosed(ep[e]) \in EndpointRecord
  <2>1. MarkClosed(ep[e]) \in EndpointRecord
    BY <1>1, RecordTypes
  <2>2. /\ [ep[e] EXCEPT !.tx = "queued"] \in EndpointRecord
        /\ [ep[e] EXCEPT !.state = "CLOSED", !.woken = TRUE] \in EndpointRecord
    BY <1>1 DEF EndpointRecord, ChannelStatus
  <2> QED
    BY <2>1, <2>2
<1>3. CASE SendIFrame(e)
  <2>1. ep' = [ep EXCEPT ![e] = [ep[e] EXCEPT !.tx = "queued"]]
    BY <1>1, <1>3 DEF SendIFrame, TypeOK, EndpointRecord
  <2> QED
    BY <1>2, <1>3, <2>1 DEF SendIFrame, TypeOK
<1>4. CASE MonitorTimeout(e)
  <2>1. used' \in Used
    BY <1>4, UsedType DEF MonitorTimeout
  <2>2. ep' = ep \/ ep' = [ep EXCEPT ![e] = MarkClosed(ep[e])]
    BY <1>4 DEF MonitorTimeout
  <2>3. ep' \in [Endpoint -> EndpointRecord]
    BY <1>2, <2>2 DEF TypeOK
  <2> QED
    BY <1>4, <2>1, <2>3 DEF MonitorTimeout, TypeOK
<1>5. CASE MaxTransmitReached(e)
  <2>1. used' \in Used
    BY <1>5, UsedType DEF MaxTransmitReached
  <2>2. ep' = [ep EXCEPT ![e] = [ep[e] EXCEPT !.state = "CLOSED", !.woken = TRUE]]
    BY <1>1, <1>5 DEF MaxTransmitReached, TypeOK, EndpointRecord
  <2>3. ep' \in [Endpoint -> EndpointRecord]
    BY <1>2, <2>2 DEF TypeOK
  <2> QED
    BY <1>5, <2>1, <2>3 DEF MaxTransmitReached, TypeOK
<1> QED
  BY <1>3, <1>4, <1>5 DEF ErtmStep

LEMMA ListenerType ==
    ASSUME TypeOK, ListenerStep
    PROVE  TypeOK'
<1>1. CASE Bind
  BY <1>1 DEF Bind, TypeOK
<1>2. CASE Listen
  BY <1>2 DEF Listen, TypeOK
<1>3. ASSUME NEW f \in Child, Accept(f) PROVE TypeOK'
  <2>1. ep[f] \in EndpointRecord
    BY EndpointTypes DEF TypeOK
  <2>2. [ep[f] EXCEPT !.queue = "accepted"] \in EndpointRecord
    BY <2>1 DEF EndpointRecord
  <2>3. ep' \in [Endpoint -> EndpointRecord]
    BY <1>3, <2>2 DEF Accept, TypeOK
  <2>4. acceptSem' \in Nat
    <3>1. acceptSem \in Nat /\ acceptSem > 0 /\ acceptSem' = acceptSem - 1
      BY <1>3 DEF Accept, TypeOK
    <3> QED
      BY <3>1
  <2> QED
    BY <1>3, <2>3, <2>4 DEF Accept, TypeOK
<1>4. CASE ListenerShutdown
  BY <1>4 DEF ListenerShutdown, TypeOK
<1> QED
  BY <1>1, <1>2, <1>3, <1>4 DEF ListenerStep

LEMMA HciType ==
    ASSUME TypeOK
    PROVE  /\ HciConnect => TypeOK'
           /\ \A h \in Host : HciDisconnect(h) => TypeOK'
<1>1. ASSUME HciConnect PROVE TypeOK'
  <2>1. used' \in Used /\ used.links + 1 \in Conn
    BY <1>1, UsedType DEF HciConnect
  <2> QED
    BY <1>1, <2>1 DEF HciConnect, TypeOK
<1>2. ASSUME NEW h \in Host, HciDisconnect(h) PROVE TypeOK'
  <2> DEFINE hit == {e \in On(h) : ep[e].cid # NullCid /\ ep[e].conn = hci[h]}
             gone(e) == [ep[e] EXCEPT !.conn = NoConn, !.state = "CLOSED", !.woken = TRUE]
  <2>1. \A e \in Endpoint : ep[e] \in EndpointRecord
    BY DEF TypeOK
  <2>2. ASSUME NEW e \in Endpoint PROVE gone(e) \in EndpointRecord
    <3>1. NoConn \in Conn /\ "CLOSED" \in ChannelStatus
      BY EndpointTypes DEF ChannelStatus
    <3> QED
      BY <2>1, <3>1, ZenonT(40) DEF EndpointRecord
  <2>3. ep' = [e \in Endpoint |-> IF e \in hit THEN gone(e) ELSE ep[e]]
    BY <1>2 DEF HciDisconnect
  <2>4. ep' \in [Endpoint -> EndpointRecord]
    <3> HIDE DEF hit, gone
    <3> QED
      BY <2>1, <2>2, <2>3
  <2>5. NoIdents \in IdentTable
    BY DEF NoIdents, IdentTable
  <2>6. idents' \in [Host -> IdentTable]
    BY <1>2, <2>5 DEF HciDisconnect, TypeOK
  <2>7. link' \in [Host -> Seq(Message)]
    BY <1>2, SequenceTypes DEF HciDisconnect, TypeOK
  <2>8. hci' \in [Host -> Conn]
    BY <1>2, EndpointTypes DEF HciDisconnect, TypeOK
  <2> QED
    BY <1>2, <2>4, <2>6, <2>7, <2>8 DEF HciDisconnect, TypeOK
<1> QED
  BY <1>1, <1>2

LEMMA TurnDownsType ==
    ASSUME NEW m \in Message, NEW cid \in Cid \cup {NullCid}
    PROVE  TurnDowns(m, cid) \subseteq Seq(Message)
<1> DEFINE rsp == [Command("CfgRsp", m.ident) EXCEPT !.scid = cid]
           basic == [rsp EXCEPT !.result = "UNACCEPTABLE", !.mode = "BASIC"]
           flow == [rsp EXCEPT !.result = "FLOW_SPEC"]
           no == [rsp EXCEPT !.result = "REJECTED"]
           part == [basic EXCEPT !.more = TRUE]
<1>1. rsp \in Message
  BY DEF Command, Message
<1>2. basic \in Message
  <2>1. "BASIC" \in Mode \cup {"none"}
    BY DEF Mode
  <2> HIDE DEF rsp
  <2> QED
    BY <1>1, <2>1, ZenonT(40) DEF Message
<1>3. flow \in Message
  <2> HIDE DEF rsp
  <2> QED
    BY <1>1 DEF Message
<1>6. no \in Message
  <2> HIDE DEF rsp
  <2> QED
    BY <1>1 DEF Message
<1>7. part \in Message
  <2> HIDE DEF basic
  <2> QED
    BY <1>2 DEF Message
<1>4. \A x, y \in Message : <<x>> \in Seq(Message) /\ <<x, y>> \in Seq(Message)
  OBVIOUS
<1>5. TurnDowns(m, cid) \subseteq {<<flow>>, <<no>>, <<basic>>, <<part, basic>>}
  BY DEF TurnDowns
<1> HIDE DEF basic, flow, no, part
<1> QED
  BY <1>2, <1>3, <1>4, <1>5, <1>6, <1>7

LEMMA ForeignType ==
    ASSUME TypeOK, ForeignStep
    PROVE  TypeOK'
<1>1. "A" \in Host /\ "B" \in Host
  BY DEF Host
<1>2. \A type : ForeignAnswer(type) =>
         /\ used' \in Used
         /\ Head(link["B"]) \in Message /\ Tail(link["B"]) \in Seq(Message)
  BY <1>1, UsedType, SequenceTypes DEF ForeignAnswer, TypeOK
<1>3. CASE ForeignPending
  <2> DEFINE m == Head(link["B"])
             rsp == [Command("ConnRsp", m.ident) EXCEPT !.scid = m.scid, !.result = "PENDING"]
  <2>1. m \in Message /\ used' \in Used
    BY <1>2, <1>3 DEF ForeignPending
  <2>2. rsp \in Message
    BY <2>1 DEF Command, Message
  <2>3. <<rsp>> \in Seq(Message)
    BY <2>2, SequenceTypes
  <2>4. link' \in [Host -> Seq(Message)]
    BY <1>1, <1>3, <2>3, PostType DEF ForeignPending
  <2> QED
    BY <1>3, <2>1, <2>4 DEF ForeignPending, TypeOK
<1>4. CASE ForeignTurnsDown
  <2> DEFINE m == Head(link["B"])
             f == ForChannel("B", m.dcid)
  <2>1. m \in Message /\ used' \in Used /\ Tail(link["B"]) \in Seq(Message)
    BY <1>2, <1>4 DEF ForeignTurnsDown
  <2>2. f \in Endpoint
    BY <1>1, <1>4, ForChannelType DEF ForeignTurnsDown
  <2>3. TurnDowns(m, ep[f].dcid) \subseteq Seq(Message)
    <3>1. ep[f].dcid \in Cid \cup {NullCid}
      <4> HIDE DEF f
      <4> QED
        BY <2>2 DEF TypeOK, EndpointRecord
    <3> HIDE DEF m, f
    <3> QED
      BY <2>1, <3>1, TurnDownsType
  <2>4. PICK rsps \in TurnDowns(m, ep[f].dcid) :
           link' = [link EXCEPT !["B"] = Tail(@), !["A"] = @ \o rsps]
    BY <1>4 DEF ForeignTurnsDown
  <2>5. link["A"] \o rsps \in Seq(Message)
    <3>1. link["A"] \in Seq(Message) /\ rsps \in Seq(Message)
      BY <1>1, <2>3, <2>4 DEF TypeOK
    <3> QED
      BY <3>1
  <2>6. link' \in [Host -> Seq(Message)]
    BY <1>1, <2>1, <2>4, <2>5 DEF TypeOK
  <2> QED
    BY <1>4, <2>1, <2>6 DEF ForeignTurnsDown, TypeOK
<1>6. CASE ForeignAnswersTwice
  <2> DEFINE m == Head(link["B"])
             f == ForChannel("B", m.dcid)
             rsp == [Command("CfgRsp", m.ident) EXCEPT !.scid = ep[f].dcid]
  <2>1. m \in Message /\ used' \in Used
    BY <1>2, <1>6 DEF ForeignAnswersTwice
  <2>2. f \in Endpoint
    BY <1>1, <1>6, ForChannelType DEF ForeignAnswersTwice
  <2>3. ep[f].dcid \in Cid \cup {NullCid}
    <3> HIDE DEF f
    <3> QED
      BY <2>2 DEF TypeOK, EndpointRecord
  <2>4. \A first \in {[rsp EXCEPT !.result = "PENDING"], [rsp EXCEPT !.more = TRUE]} :
           <<first>> \in Seq(Message)
    <3>1. [rsp EXCEPT !.result = "PENDING"] \in Message /\ [rsp EXCEPT !.more = TRUE] \in Message
      <4> HIDE DEF f
      <4> QED
        BY <2>1, <2>3 DEF Command, Message
    <3> HIDE DEF rsp
    <3> QED
      BY <3>1, SequenceTypes
  <2>5. link' \in [Host -> Seq(Message)]
    <3>1. PICK first \in {[rsp EXCEPT !.result = "PENDING"], [rsp EXCEPT !.more = TRUE]} :
             Post("B", <<first>>)
      BY <1>6 DEF ForeignAnswersTwice
    <3> QED
      BY <1>1, <2>4, <3>1, PostType
  <2> QED
    BY <1>6, <2>1, <2>5 DEF ForeignAnswersTwice, TypeOK
<1>7. CASE ForeignContinues
  <2> DEFINE m == Head(link["A"])
             part == [m EXCEPT !.ident = NullIdent, !.more = TRUE]
             rest == [m EXCEPT !.mode = "none"]
  <2>1. m \in Message /\ used' \in Used /\ Tail(link["A"]) \in Seq(Message)
    BY <1>1, <1>7, UsedType, SequenceTypes DEF ForeignContinues, TypeOK
  <2>2. part \in Message /\ rest \in Message
    <3> HIDE DEF m
    <3> QED
      BY <2>1 DEF Message
  <2>3. <<part, rest>> \o Tail(link["A"]) \in Seq(Message)
    <3>1. \A x, y \in Message : <<x, y>> \in Seq(Message)
      OBVIOUS
    <3> HIDE DEF part, rest
    <3> QED
      BY <2>1, <2>2, <3>1, SequenceTypes
  <2>4. link' = [link EXCEPT !["A"] = <<part, rest>> \o Tail(@)]
    BY <1>7 DEF ForeignContinues
  <2>5. link' \in [Host -> Seq(Message)]
    <3> HIDE DEF part, rest
    <3> QED
      BY <1>1, <2>3, <2>4 DEF TypeOK
  <2> QED
    BY <1>7, <2>1, <2>5 DEF ForeignContinues, TypeOK
<1>5. ASSUME NEW f \in Child, ForeignReconfigure(f) PROVE TypeOK'
  <2> DEFINE r == [ep[f] EXCEPT !.state = "CONFIGURATION", !.in = "NONE", !.out = "NONE"]
             c == SendChannelConfig(f, r, idents["B"])
  <2>1. f \in Endpoint /\ ep[f] \in EndpointRecord /\ idents["B"] \in IdentTable
    BY <1>1, EndpointTypes DEF TypeOK
  <2>2. r \in EndpointRecord
    <3>1. "CONFIGURATION" \in ChannelStatus /\ "NONE" \in ConfigState
      BY DEF ChannelStatus, Establishing, ConfigState
    <3>2. ASSUME NEW e \in EndpointRecord, NEW s \in ChannelStatus, NEW d \in ConfigState
          PROVE  [e EXCEPT !.state = s, !.in = d, !.out = d] \in EndpointRecord
      BY DEF EndpointRecord
    <3> QED
      BY <2>1, <3>1, <3>2
  <2>3. c.r \in EndpointRecord /\ c.ids \in IdentTable /\ c.msgs \in Seq(Message)
    <3> HIDE DEF r
    <3> QED
      BY <2>1, <2>2, SendChannelConfigType
  <2>4. /\ ep' = [ep EXCEPT ![f] = c.r]
        /\ idents' = [idents EXCEPT !["B"] = c.ids]
        /\ Post("B", c.msgs)
    BY <1>5 DEF ForeignReconfigure
  <2> HIDE DEF c
  <2>5. link' \in [Host -> Seq(Message)]
    BY <1>1, <2>3, <2>4, PostType
  <2>6. ep' \in [Endpoint -> EndpointRecord] /\ idents' \in [Host -> IdentTable]
    BY <2>3, <2>4 DEF TypeOK
  <2>7. used' \in Used
    BY <1>5, UsedType DEF ForeignReconfigure
  <2> QED
    BY <1>5, <2>5, <2>6, <2>7 DEF ForeignReconfigure, TypeOK
<1> QED
  BY <1>3, <1>4, <1>5, <1>6, <1>7 DEF ForeignStep

LEMMA InitType == Init => TypeOK
<1> SUFFICES ASSUME Init PROVE TypeOK
  OBVIOUS
<1>1. NewEndpoint \in EndpointRecord
  BY EndpointTypes DEF NewEndpoint, EndpointRecord, ChannelStatus, ConfigState, Mode
<1>2. [NewEndpoint EXCEPT !.sock = "live"] \in EndpointRecord
  BY <1>1 DEF EndpointRecord
<1>3. ep \in [Endpoint -> EndpointRecord]
  BY <1>1, <1>2 DEF Init
<1>4. NoIdents \in IdentTable
  BY DEF NoIdents, IdentTable
<1>5. 1 \in Cid
  BY LastCidAssumption DEF Cid
<1>6. used \in Used
  BY BoundAssumption DEF Init, Used
<1> QED
  BY <1>3, <1>4, <1>5, <1>6, EndpointTypes, SequenceTypes DEF Init, TypeOK

LEMMA NextType == TypeOK /\ [Next]_vars => TypeOK'
<1> SUFFICES ASSUME TypeOK, [Next]_vars PROVE TypeOK'
  OBVIOUS
<1>1. CASE \E h \in Host : Receive(h) \/ HandleCommand(h) \/ HciDisconnect(h)
  BY <1>1, ReceiveType, HandlersType, StrayType, HandleConnectionReqType, HciType
     DEF HandleCommand
<1>2. CASE HciConnect
  BY <1>2, HciType
<1>3. CASE \E e \in Client : ConnectStep(e)
  BY <1>3, ConnectType DEF ConnectStep
<1>4. CASE \E e \in Endpoint : CloseStep(e) \/ ErtmStep(e)
  BY <1>4, CloseType, ErtmType
<1>5. CASE ListenerStep \/ ForeignStep
  BY <1>5, ListenerType, ForeignType
<1>6. CASE UNCHANGED vars
  BY <1>6 DEF vars, TypeOK
<1> QED
  BY <1>1, <1>2, <1>3, <1>4, <1>5, <1>6 DEF Next

\* The types of all variables hold in every behaviour of the two hosts: no
\* handler leaves a field of an endpoint, an ident or a channel id outside
\* its range, whatever the commands carry.
THEOREM TypeCorrect == Spec => []TypeOK
<1>1. Init => TypeOK
  BY InitType
<1>2. TypeOK /\ [Next]_vars => TypeOK'
  BY NextType
<1> QED
  BY <1>1, <1>2, PTL DEF Spec

----------------------------------------------------------------------------
\* The safety invariant

\* What every endpoint record satisfies between two critical sections: who
\* is inside Connect() has a live socket that is not being freed; a socket
\* that Free() works on, or that does not exist, is CLOSED.
EndpointInv(r) ==
    /\ r.state = "OPEN" => r.in = "DONE" /\ r.out = "DONE"
    /\ r.call # "none" => r.sock = "live" /\ r.drop # "unmap"
    /\ r.call = "route" => r.state = "CLOSED"
    /\ r.drop = "unmap" => r.sock = "live" /\ r.state = "CLOSED" /\ r.conn = NoConn
    /\ r.sock # "live" => r.state = "CLOSED"

\* The endpoint can answer for an ident of connection c: it is alive, and it
\* either belongs to c or is about to purge c's table.
Answers(r, c) ==
    /\ r.sock = "live"
    /\ c # NoConn
    /\ r.conn = c \/ (r.drop # "none" /\ r.saved = c)

IdentsInv ==
    \A h \in Host : \A i \in Ident :
        idents[h][i] # NoEp
        => Home(idents[h][i]) = h /\ Answers(ep[idents[h][i]], hci[h])

\* A busy RX thread works for a connection and on endpoints of its own host.
RxInv ==
    \A h \in Host :
        rx[h] # Idle => /\ hci[h] # NoConn
                        /\ rx[h].ep # NoEp => Home(rx[h].ep) = h

IInv ==
    /\ TypeOK
    /\ \A e \in Endpoint : EndpointInv(ep[e])
    /\ IdentsInv
    /\ RxInv
    /\ OneEndpointPerCid

----------------------------------------------------------------------------
\* A step that writes one endpoint, and may take idents for it

\* A busy RX thread goes on with its command or ends it.
RxFollows == \A h \in Host : rx'[h] \in {rx[h], Idle}

\* When endpoint e gets the record r, the idents that point to e still may.
IdentsFollow(e, r) ==
    \A h \in Host : \A i \in Ident :
        \/ idents'[h][i] = NoEp
        \/ idents'[h][i] = idents[h][i] /\ idents[h][i] # e
        \/ /\ idents'[h][i] = idents[h][i] /\ idents[h][i] = e
           /\ Answers(ep[e], hci[h]) => Answers(r, hci[h])
        \/ h = Home(e) /\ idents'[h][i] = e /\ Answers(r, hci[h])

LEMMA OneEndpointStep ==
    ASSUME IInv, TypeOK', NEW e \in Endpoint, NEW r,
           ep' = [ep EXCEPT ![e] = r],
           hci' = hci,
           RxFollows,
           EndpointInv(r),
           r.cid \in {ep[e].cid, NullCid} \/ r.cid \notin CidsOf(Home(e)),
           IdentsFollow(e, r)
    PROVE  IInv'
<1>1. ep'[e] = r /\ \A f \in Endpoint : f # e => ep'[f] = ep[f]
  BY DEF IInv, TypeOK
<1>2. \A f \in Endpoint : EndpointInv(ep[f])'
  BY <1>1 DEF IInv, EndpointInv
<1>3. IdentsInv'
  <2> SUFFICES ASSUME NEW h \in Host, NEW i \in Ident, idents'[h][i] # NoEp
               PROVE  Home(idents'[h][i]) = h /\ Answers(ep'[idents'[h][i]], hci'[h])
    BY DEF IdentsInv, Answers
  <2>1. idents'[h][i] \in Endpoint
    <3>1. idents'[h] \in IdentTable
      BY DEF TypeOK
    <3> QED
      BY <3>1 DEF IdentTable
  <2>2. idents[h][i] # NoEp => /\ Home(idents[h][i]) = h
                               /\ Answers(ep[idents[h][i]], hci[h])
    BY DEF IInv, IdentsInv
  <2> QED
    BY <1>1, <2>1, <2>2 DEF IdentsFollow
<1>4. RxInv'
  BY DEF IInv, RxInv, RxFollows
<1>5. OneEndpointPerCid'
  <2> SUFFICES ASSUME NEW f \in Endpoint, NEW g \in Endpoint,
                      f # g, Home(f) = Home(g), ep'[f].cid # NullCid
               PROVE  ep'[f].cid # ep'[g].cid
    BY DEF OneEndpointPerCid, Home
  <2>1. ep[f].cid # NullCid => ep[f].cid # ep[g].cid
    BY DEF IInv, OneEndpointPerCid
  <2>2. ep[g].cid # NullCid => ep[f].cid # ep[g].cid
    BY DEF IInv, OneEndpointPerCid
  <2>3. ep[f].cid \in CidsOf(Home(f)) /\ ep[g].cid \in CidsOf(Home(f))
    BY DEF CidsOf, On
  <2> QED
    BY <1>1, <2>1, <2>2, <2>3
<1> QED
  BY <1>2, <1>3, <1>4, <1>5 DEF IInv

----------------------------------------------------------------------------
\* The handlers

\* r has the owner fields of s, and at most leaves the channel map.
Keeps(r, s) ==
    /\ r.conn = s.conn /\ r.sock = s.sock /\ r.call = s.call
    /\ r.drop = s.drop /\ r.saved = s.saved
    /\ r.cid \in {s.cid, NullCid}

\* the idents of a table change only by new ones of e
Takes(new, old, e) == \A i \in Ident : new[i] = old[i] \/ new[i] = e

LEMMA HandlingInv ==
    ASSUME IInv, NEW h \in Host, NEW type, Handling(h, type)
    PROVE  LET e == rx[h].ep
           IN  /\ e \in Endpoint /\ Home(e) = h
               /\ rx[h] # Idle
               /\ ep[e] \in EndpointRecord /\ EndpointInv(ep[e])
               /\ ep[e].sock = "live" /\ ep[e].call # "route"
BY HandlingType DEF IInv, RxInv, Handling, Unlocked

LEMMA FinishInv ==
    ASSUME IInv, TypeOK', NEW h \in Host, NEW e \in Endpoint, Home(e) = h,
           ep[e].sock = "live",
           NEW r \in EndpointRecord, Keeps(r, ep[e]), EndpointInv(r),
           NEW ids \in IdentTable, Takes(ids, idents[h], e),
           ids # idents[h] => ConnValid(e),
           NEW msgs, Finish(h, e, r, ids, msgs)
    PROVE  IInv'
<1>1. /\ ep' = [ep EXCEPT ![e] = r] /\ hci' = hci
      /\ RxFollows
  BY DEF Finish, IInv, TypeOK, RxFollows
<1>2. \/ idents' = [idents EXCEPT ![h] = ids]
      \/ idents' = [idents EXCEPT ![h] = FreeIdent(ids, rx[h].msg.ident)]
  BY DEF Finish
<1>3. \A c : Answers(ep[e], c) => Answers(r, c)
  BY DEF Answers, Keeps
<1>4. \A i \in Ident : ids[i] # idents[h][i] => ids[i] = e /\ Answers(r, hci[h])
  BY DEF Takes, ConnValid, Answers, Keeps
<1>5. ASSUME NEW g \in Host, NEW i \in Ident
      PROVE  \/ idents'[g][i] = NoEp
             \/ idents'[g][i] = idents[g][i]
             \/ g = h /\ idents'[g][i] = ids[i]
  <2>1. idents \in [Host -> IdentTable]
    BY DEF IInv, TypeOK
  <2>2. CASE g # h
    BY <1>2, <2>1, <2>2
  <2>3. CASE g = h
    <3>1. idents'[h] \in {ids, FreeIdent(ids, rx[h].msg.ident)}
      BY <1>2, <2>1
    <3> QED
      BY <2>3, <3>1 DEF FreeIdent
  <2> QED
    BY <2>2, <2>3
<1>6. r.cid \in {ep[e].cid, NullCid}
  BY DEF Keeps
<1>7. IdentsFollow(e, r)
  BY <1>3, <1>4, <1>5 DEF IdentsFollow
<1> QED
  BY <1>1, <1>6, <1>7, OneEndpointStep

LEMMA PanicInv ==
    ASSUME IInv, TypeOK', NEW why, Panic(why)
    PROVE  IInv'
BY DEF Panic, IInv, EndpointInv, IdentsInv, Answers, RxInv, OneEndpointPerCid

LEMMA FinishOnConnInv ==
    ASSUME IInv, TypeOK', NEW h \in Host, NEW e \in Endpoint, Home(e) = h,
           ep[e].sock = "live",
           NEW r \in EndpointRecord, Keeps(r, ep[e]), EndpointInv(r),
           NEW ids \in IdentTable, Takes(ids, idents[h], e),
           NEW msgs, FinishOnConn(h, e, r, ids, msgs)
    PROVE  IInv'
BY FinishInv, PanicInv DEF FinishOnConn

LEMMA SendChannelConfigInv ==
    ASSUME NEW e \in Endpoint, NEW r \in EndpointRecord, NEW ids \in IdentTable,
           NEW s, Keeps(r, s), EndpointInv(r), r.state # "OPEN"
    PROVE  LET c == SendChannelConfig(e, r, ids)
           IN  Keeps(c.r, s) /\ EndpointInv(c.r) /\ Takes(c.ids, ids, e)
<1> DEFINE i == AllocIdent(ids)
<1>1. CASE i = NullIdent
  BY <1>1 DEF SendChannelConfig, Takes
<1>2. CASE i # NullIdent
  <2>1. SendChannelConfig(e, r, ids).r = [r EXCEPT !.out = "SENT"]
    BY <1>2 DEF SendChannelConfig
  <2>2. SendChannelConfig(e, r, ids).ids = HoldIdent(ids, i, e)
    BY <1>2 DEF SendChannelConfig
  <2>3. Takes(HoldIdent(ids, i, e), ids, e)
    BY DEF Takes, HoldIdent, IdentTable
  <2>4. Keeps([r EXCEPT !.out = "SENT"], s) /\ EndpointInv([r EXCEPT !.out = "SENT"])
    BY DEF Keeps, EndpointInv, EndpointRecord
  <2> QED
    BY <2>1, <2>2, <2>3, <2>4
<1> QED
  BY <1>1, <1>2

LEMMA RecordInv ==
    ASSUME NEW r \in EndpointRecord, NEW s, Keeps(r, s), EndpointInv(r), r.sock = "live"
    PROVE  /\ r.call # "route" => Keeps(MarkClosed(r), s) /\ EndpointInv(MarkClosed(r))
           /\ r.call # "route" /\ r.drop # "unmap" =>
                 Keeps(ConfigDone(r), s) /\ EndpointInv(ConfigDone(r))
<1>1. Keeps(MarkClosed(r), s) /\ EndpointInv(MarkClosed(r))
  BY EmptiedType DEF MarkClosed, EndpointRecord, Keeps, EndpointInv
<1>2. ASSUME r.call # "route", r.drop # "unmap"
      PROVE  Keeps(ConfigDone(r), s) /\ EndpointInv(ConfigDone(r))
  BY <1>2, EmptiedType DEF ConfigDone, MarkEstablished, EndpointRecord, Keeps, EndpointInv
<1> QED
  BY <1>1, <1>2

\* What the handlers do to an endpoint that enters configuration
LEMMA ConfiguringInv ==
    ASSUME NEW r \in EndpointRecord, NEW s, Keeps(r, s), r.sock = "live",
           r.call # "route", r.drop # "unmap", NEW d \in Cid \cup {NullCid}
    PROVE  \A n \in {[r EXCEPT !.state = "CONFIGURATION", !.dcid = d],
                     [r EXCEPT !.state = "CONFIGURATION"],
                     [[r EXCEPT !.state = "CONFIGURATION"] EXCEPT !.in = "DONE"]} :
              /\ n \in EndpointRecord /\ Keeps(n, s) /\ EndpointInv(n)
              /\ n.state # "OPEN" /\ n.drop # "unmap"
              /\ n.sock = "live" /\ n.call # "route"
<1>1. \A n \in {[r EXCEPT !.state = "CONFIGURATION", !.dcid = d],
                [r EXCEPT !.state = "CONFIGURATION"],
                [[r EXCEPT !.state = "CONFIGURATION"] EXCEPT !.in = "DONE"]} :
         /\ n \in EndpointRecord
         /\ n.state = "CONFIGURATION" /\ n.conn = r.conn /\ n.sock = r.sock
         /\ n.call = r.call /\ n.drop = r.drop /\ n.saved = r.saved /\ n.cid = r.cid
  BY ZenonT(40) DEF EndpointRecord, ChannelStatus, Establishing, ConfigState
<1> QED
  BY <1>1 DEF Keeps, EndpointInv

LEMMA HandlersInv ==
    ASSUME IInv, TypeOK', NEW h \in Host
    PROVE  /\ HandleConnectionRsp(h) => IInv'
           /\ HandleConfigurationReq(h) => IInv'
           /\ HandleConfigurationRsp(h) => IInv'
           /\ HandleDisconnectionReq(h) => IInv'
           /\ HandleDisconnectionRsp(h) => IInv'
           /\ HandleCommandRejected(h) => IInv'
           /\ HandleInfoRsp(h) => IInv'
<1> DEFINE m == rx[h].msg
           e == rx[h].ep
           r == Notified(e)
           ids == idents[h]
           Live == /\ e \in Endpoint /\ Home(e) = h /\ m \in Message
                   /\ ep[e] \in EndpointRecord /\ EndpointInv(ep[e])
                   /\ ep[e].sock = "live" /\ ep[e].call # "route"
                   /\ r \in EndpointRecord /\ Keeps(r, ep[e]) /\ EndpointInv(r)
                   /\ r.state = ep[e].state /\ r.sock = "live"
                   /\ r.call # "route"
                   /\ ids \in IdentTable /\ Takes(ids, ids, e)
<1>0. ASSUME NEW type, Handling(h, type) PROVE Live
  <2>1. /\ e \in Endpoint /\ Home(e) = h /\ m \in Message
        /\ ep[e] \in EndpointRecord /\ EndpointInv(ep[e])
        /\ ep[e].sock = "live" /\ ep[e].call # "route"
        /\ r \in EndpointRecord /\ ids \in IdentTable
    BY <1>0, HandlingInv, HandlingType DEF IInv
  <2>2. /\ Keeps(r, ep[e]) /\ EndpointInv(r) /\ r.state = ep[e].state
        /\ r.sock = "live" /\ r.call # "route"
    BY <2>1 DEF Notified, Keeps, EndpointInv, EndpointRecord
  <2> QED
    BY <2>1, <2>2 DEF Takes
<1>1. ASSUME HandleConnectionRsp(h) PROVE IInv'
  <2> DEFINE closed == [r EXCEPT !.state = "CLOSED"]
             new == [r EXCEPT !.state = "CONFIGURATION", !.dcid = m.dcid]
             stray == r.state # "WAIT_FOR_CONNECTION_RSP" \/ r.cid # m.scid
  <2>1. Live
    BY <1>0, <1>1 DEF HandleConnectionRsp
  <2>2. closed \in EndpointRecord /\ Keeps(closed, ep[e]) /\ EndpointInv(closed)
    BY <2>1 DEF EndpointRecord, ChannelStatus, Keeps, EndpointInv
  <2>3. ASSUME ~stray
        PROVE  /\ new \in EndpointRecord /\ Keeps(new, ep[e]) /\ EndpointInv(new)
               /\ new.state # "OPEN"
    <3>1. r.drop # "unmap" /\ m.dcid \in Cid \cup {NullCid}
      BY <2>1, <2>3 DEF EndpointInv, Message
    <3> HIDE DEF r
    <3> QED
      BY <2>1, <3>1, ConfiguringInv
  <2>4. ASSUME ~stray
        PROVE  LET c == SendChannelConfig(e, new, ids)
               IN  /\ c.r \in EndpointRecord /\ c.ids \in IdentTable
                   /\ Keeps(c.r, ep[e]) /\ EndpointInv(c.r) /\ Takes(c.ids, ids, e)
    BY <2>1, <2>3, <2>4, SendChannelConfigInv, SendChannelConfigType
  <2>5. CASE stray
    BY <1>1, <2>1, <2>5, FinishOnConnInv DEF HandleConnectionRsp
  <2>6. CASE ~stray /\ m.result = "PENDING"
    BY <1>1, <2>1, <2>6, FinishInv DEF HandleConnectionRsp
  <2>7. CASE ~stray /\ m.result \notin {"PENDING", "SUCCESS"}
    BY <1>1, <2>1, <2>2, <2>7, FinishInv DEF HandleConnectionRsp
  <2>8. CASE ~stray /\ m.result = "SUCCESS"
    BY <1>1, <2>1, <2>4, <2>8, FinishOnConnInv DEF HandleConnectionRsp
  <2> QED
    BY <2>5, <2>6, <2>7, <2>8
<1>2. ASSUME HandleConfigurationReq(h) PROVE IInv'
  <2> DEFINE w == WithMode(Reconfigured(r), m.mode)
             begun == [w EXCEPT !.state = "CONFIGURATION"]
             new == [begun EXCEPT !.in = "DONE"]
             refused == r.state \notin {"CONFIGURATION", "OPEN"}
  <2>1. Live
    BY <1>0, <1>2 DEF HandleConfigurationReq
  <2>2. ASSUME ~refused
        PROVE  /\ w \in EndpointRecord /\ Keeps(w, ep[e]) /\ w.drop # "unmap"
               /\ w.sock = "live" /\ w.call # "route"
    <3>1. Reconfigured(r) \in EndpointRecord /\ w \in EndpointRecord
      BY <2>1, RecordTypes DEF Message
    <3>2. Keeps(Reconfigured(r), ep[e])
      BY <2>1 DEF Reconfigured, Keeps, EndpointRecord
    <3>3. Keeps(w, ep[e])
      BY <3>1, <3>2 DEF WithMode, Keeps, EndpointRecord
    <3> QED
      BY <2>1, <2>2, <3>1, <3>3 DEF Keeps, EndpointInv
  <2>3. ASSUME ~refused
        PROVE  /\ new \in EndpointRecord /\ Keeps(new, ep[e]) /\ EndpointInv(new)
               /\ new.state # "OPEN" /\ new.drop # "unmap"
               /\ new.sock = "live" /\ new.call # "route"
               /\ begun \in EndpointRecord /\ Keeps(begun, ep[e]) /\ EndpointInv(begun)
    <3> HIDE DEF w
    <3> QED
      BY <2>2, <2>3, ConfiguringInv
  <2>4. ASSUME ~refused
        PROVE  LET c == SendChannelConfig(e, new, ids)
               IN  /\ c.r \in EndpointRecord /\ c.ids \in IdentTable
                   /\ Keeps(c.r, ep[e]) /\ EndpointInv(c.r) /\ Takes(c.ids, ids, e)
    <3> HIDE DEF new
    <3> QED
      BY <2>1, <2>3, <2>4, SendChannelConfigInv, SendChannelConfigType
  <2>5. ASSUME ~refused
        PROVE  /\ ConfigDone(new) \in EndpointRecord
               /\ Keeps(ConfigDone(new), ep[e]) /\ EndpointInv(ConfigDone(new))
    <3> HIDE DEF new
    <3> QED
      BY <2>3, <2>5, RecordInv, RecordTypes
  <2>6. CASE refused
    BY <1>2, <2>1, <2>6, FinishOnConnInv DEF HandleConfigurationReq
  <2>7. CASE ~refused /\ ~m.more /\ new.out = "NONE"
    BY <1>2, <2>1, <2>4, <2>7, FinishOnConnInv DEF HandleConfigurationReq
  <2>8. CASE ~refused /\ ~m.more /\ new.out # "NONE"
    BY <1>2, <2>1, <2>5, <2>8, FinishOnConnInv DEF HandleConfigurationReq
  <2>9. CASE ~refused /\ m.more
    BY <1>2, <2>1, <2>3, <2>9, FinishOnConnInv DEF HandleConfigurationReq
  <2> QED
    BY <2>6, <2>7, <2>8, <2>9
<1>3. ASSUME HandleConfigurationRsp(h) PROVE IInv'
  <2> DEFINE told == WithMode(r, m.mode)
             new == [told EXCEPT !.out = "DONE"]
             stray == r.state # "CONFIGURATION" \/ m.scid # r.cid
             given == IF m.result = "UNACCEPTABLE" THEN told ELSE r
             again == m.result \in {"UNACCEPTABLE", "FLOW_SPEC"} /\ ~m.more
  <2>1. Live
    BY <1>0, <1>3 DEF HandleConfigurationRsp
  <2>2. ASSUME ~stray
        PROVE  /\ told \in EndpointRecord /\ Keeps(told, ep[e]) /\ EndpointInv(told)
               /\ told.state = "CONFIGURATION"
    <3>1. told \in EndpointRecord
      BY <2>1, RecordTypes DEF Message
    <3> QED
      BY <2>1, <2>2, <3>1 DEF WithMode, Keeps, EndpointInv, EndpointRecord
  <2>3. ASSUME ~stray
        PROVE  /\ new \in EndpointRecord /\ Keeps(new, ep[e]) /\ EndpointInv(new)
               /\ new.sock = "live" /\ new.call # "route" /\ new.drop # "unmap"
    <3> HIDE DEF told
    <3> QED
      BY <2>1, <2>2, <2>3 DEF EndpointRecord, ConfigState, Keeps, EndpointInv
  <2>4. ASSUME ~stray
        PROVE  LET c == SendChannelConfig(e, given, ids)
               IN  /\ given \in EndpointRecord /\ Keeps(given, ep[e]) /\ EndpointInv(given)
                   /\ c.r \in EndpointRecord /\ c.ids \in IdentTable
                   /\ Keeps(c.r, ep[e]) /\ EndpointInv(c.r) /\ Takes(c.ids, ids, e)
    <3>1. given \in EndpointRecord /\ Keeps(given, ep[e]) /\ EndpointInv(given)
          /\ given.state # "OPEN"
      <4> HIDE DEF told
      <4> QED
        BY <2>1, <2>2, <2>4
    <3> HIDE DEF given
    <3> QED
      BY <2>1, <3>1, SendChannelConfigInv, SendChannelConfigType
  <2>5. ASSUME ~stray
        PROVE  /\ ConfigDone(new) \in EndpointRecord
               /\ Keeps(ConfigDone(new), ep[e]) /\ EndpointInv(ConfigDone(new))
    <3> HIDE DEF new
    <3> QED
      BY <2>3, <2>5, RecordInv, RecordTypes
  <2>6. CASE stray
    BY <1>3, <2>1, <2>6, FinishOnConnInv DEF HandleConfigurationRsp
  <2>7. CASE ~stray /\ again
    BY <1>3, <2>1, <2>4, <2>7, FinishOnConnInv DEF HandleConfigurationRsp
  <2>8. CASE ~stray /\ ~again /\ (m.result # "SUCCESS" \/ m.more)
    BY <1>3, <2>1, <2>4, <2>8, FinishInv DEF HandleConfigurationRsp
  <2>9. CASE ~stray /\ ~again /\ m.result = "SUCCESS" /\ ~m.more
    BY <1>3, <2>1, <2>5, <2>9, FinishInv DEF HandleConfigurationRsp
  <2> QED
    BY <2>6, <2>7, <2>8, <2>9
<1>4. ASSUME HandleDisconnectionReq(h) \/ HandleDisconnectionRsp(h) PROVE IInv'
  <2>1. Live
    BY <1>0, <1>4 DEF HandleDisconnectionReq, HandleDisconnectionRsp
  <2>2. /\ MarkClosed(r) \in EndpointRecord
        /\ Keeps(MarkClosed(r), ep[e]) /\ EndpointInv(MarkClosed(r))
    BY <2>1, RecordInv, RecordTypes
  <2>3. CASE HandleDisconnectionReq(h)
    BY <2>1, <2>2, <2>3, FinishOnConnInv, PanicInv DEF HandleDisconnectionReq
  <2>4. CASE HandleDisconnectionRsp(h)
    BY <2>1, <2>2, <2>4, FinishOnConnInv, FinishInv, PanicInv DEF HandleDisconnectionRsp
  <2> QED
    BY <1>4, <2>3, <2>4
<1>5. ASSUME HandleCommandRejected(h) \/ HandleInfoRsp(h) PROVE IInv'
  <2> DEFINE closed == [r EXCEPT !.state = "CLOSED"]
             same == [r EXCEPT !.state = r.state]
  <2>1. Live
    BY <1>0, <1>5 DEF HandleCommandRejected, HandleInfoRsp
  <2>2. /\ closed \in EndpointRecord /\ Keeps(closed, ep[e]) /\ EndpointInv(closed)
        /\ same = r /\ Keeps(ep[e], ep[e])
    BY <2>1 DEF EndpointRecord, ChannelStatus, Keeps, EndpointInv
  <2>3. CASE HandleCommandRejected(h)
    BY <2>1, <2>2, <2>3, FinishInv DEF HandleCommandRejected
  <2>4. CASE HandleInfoRsp(h)
    BY <2>1, <2>2, <2>4, FinishInv DEF HandleInfoRsp
  <2> QED
    BY <1>5, <2>3, <2>4
<1> QED
  BY <1>1, <1>2, <1>3, <1>4, <1>5

\* A step that writes no endpoint and takes no ident
LEMMA NoEndpointStep ==
    ASSUME IInv, TypeOK', ep' = ep, hci' = hci,
           RxFollows,
           \A h \in Host : \A i \in Ident : idents'[h][i] \in {idents[h][i], NoEp}
    PROVE  IInv'
<1>1. \A e \in Endpoint : EndpointInv(ep[e])'
  BY DEF IInv, EndpointInv
<1>2. IdentsInv'
  BY DEF IInv, IdentsInv, Answers
<1>3. RxInv'
  BY DEF IInv, RxInv, RxFollows
<1>4. OneEndpointPerCid'
  BY DEF IInv, OneEndpointPerCid
<1> QED
  BY <1>1, <1>2, <1>3, <1>4 DEF IInv

LEMMA ReceiveInv ==
    ASSUME IInv, TypeOK', NEW h \in Host, Receive(h)
    PROVE  IInv'
<1> DEFINE m == Head(link[h])
           target == IF m.type \in Responses THEN LookupIdent(idents[h], m.ident)
                     ELSE IF m.type \in {"CfgReq", "DiscReq"}
                     THEN ForChannel(h, m.dcid)
                     ELSE NoEp
           busy == [type |-> "busy", msg |-> m, ep |-> target]
<1>1. LookupIdent(idents[h], m.ident) # NoEp => Home(LookupIdent(idents[h], m.ident)) = h
  BY DEF LookupIdent, IInv, IdentsInv
<1>2. ForChannel(h, m.dcid) # NoEp => Home(ForChannel(h, m.dcid)) = h
  BY DEF ForChannel, On
<1>3. target # NoEp => Home(target) = h
  BY <1>1, <1>2
<1>4. rx' = [rx EXCEPT ![h] = busy] /\ busy.ep = target
  BY DEF Receive
<1>5. RxInv'
  <2> HIDE DEF busy, target
  <2>1. rx \in [Host -> Busy \cup {Idle}]
    BY DEF IInv, TypeOK
  <2>2. hci[h] # NoConn /\ hci' = hci
    BY DEF Receive
  <2>3. rx'[h].ep = target /\ \A g \in Host : g # h => rx'[g] = rx[g]
    BY <1>4, <2>1
  <2> QED
    BY <1>3, <2>2, <2>3 DEF IInv, RxInv
<1>6. (\A e \in Endpoint : EndpointInv(ep[e]))' /\ IdentsInv' /\ OneEndpointPerCid'
  BY DEF Receive, IInv, EndpointInv, IdentsInv, Answers, OneEndpointPerCid
<1> QED
  BY <1>5, <1>6 DEF IInv

LEMMA StrayInv ==
    ASSUME IInv, TypeOK', NEW h \in Host
    PROVE  /\ HandleFreed(h) => IInv'
           /\ HandleStray(h) => IInv'
           /\ RefuseConnection(h) => IInv'
<1>0. rx \in [Host -> Busy \cup {Idle}] /\ idents \in [Host -> IdentTable]
  BY DEF IInv, TypeOK
<1>1. ASSUME HandleFreed(h) PROVE IInv'
  BY <1>1, PanicInv DEF HandleFreed
<1>2. ASSUME HandleStray(h) PROVE IInv'
  <2>1. \/ idents' = idents
        \/ idents' = [idents EXCEPT ![h] = FreeIdent(@, rx[h].msg.ident)]
    BY <1>2 DEF HandleStray
  <2>2. \A g \in Host : \A i \in Ident : idents'[g][i] \in {idents[g][i], NoEp}
    BY <1>0, <2>1 DEF FreeIdent
  <2> QED
    BY <1>0, <1>2, <2>2, NoEndpointStep DEF HandleStray, RxFollows
<1>3. ASSUME RefuseConnection(h) PROVE IInv'
  BY <1>0, <1>3, NoEndpointStep DEF RefuseConnection, RxFollows
<1> QED
  BY <1>1, <1>2, <1>3

\* The channel id that BindToChannel() takes is none of the host's.
LEMMA NewCid ==
    ASSUME TypeOK, NEW h \in Host
    PROVE  AllocCid(CidsOf(h), nextCid[h]) # NullCid
              => AllocCid(CidsOf(h), nextCid[h]) \notin CidsOf(h)
BY AllocCidFree DEF TypeOK

LEMMA HandleConnectionReqInv ==
    ASSUME IInv, TypeOK', NEW h \in Host, NEW f \in Child, HandleConnectionReq(h, f)
    PROVE  IInv'
<1> DEFINE m == rx[h].msg
           born == [ep[f] EXCEPT !.sock = "live", !.queue = "pending"]
           cid == AllocCid(CidsOf(h), nextCid[h])
           new == [born EXCEPT !.state = "CONFIGURATION", !.conn = hci[h],
                               !.psm = m.psm, !.cid = cid, !.dcid = m.scid]
           c == SendChannelConfig(f, new, idents[h])
<1>1. /\ f \in Endpoint /\ Home(f) = h /\ ep[f] \in EndpointRecord
      /\ EndpointInv(ep[f]) /\ ep[f].sock = "unborn" /\ TypeOK
  BY EndpointTypes, EndpointAssumption DEF HandleConnectionReq, IInv, TypeOK, Home
<1>2. /\ born \in EndpointRecord /\ born.sock = "live" /\ born.cid = ep[f].cid
      /\ EndpointInv(born) /\ born.call = "none" /\ born.drop # "unmap"
  <2>1. /\ born \in EndpointRecord /\ born.sock = "live" /\ born.cid = ep[f].cid
        /\ born.state = ep[f].state /\ born.call = ep[f].call
        /\ born.drop = ep[f].drop /\ born.conn = ep[f].conn
    BY <1>1 DEF EndpointRecord
  <2>2. ep[f].state = "CLOSED" /\ ep[f].call = "none" /\ ep[f].drop # "unmap"
    BY <1>1 DEF EndpointInv, EndpointRecord
  <2> QED
    BY <2>1, <2>2 DEF EndpointInv
<1>3. /\ cid \in Cid \cup {NullCid} /\ (cid # NullCid => cid \notin CidsOf(h))
      /\ hci[h] \in Conn /\ idents[h] \in IdentTable
      /\ m.psm \in Psm \cup {"none"} /\ m.scid \in Cid \cup {NullCid}
  <2>1. m \in Message
    BY <1>1, RxBusy DEF HandleConnectionReq
  <2> QED
    BY <1>1, <2>1, AllocCidType, NewCid DEF TypeOK, Message
<1>4. \A i \in Ident : idents[h][i] # f
  BY <1>1, NoEpAssumption DEF IInv, IdentsInv, Answers
<1>5. /\ new \in EndpointRecord /\ new.sock = "live" /\ new.cid = cid
      /\ new.conn = hci[h] /\ EndpointInv(new) /\ new.state = "CONFIGURATION"
  <2> HIDE DEF born, cid, m
  <2>1. new \in EndpointRecord
    BY <1>2, <1>3 DEF EndpointRecord, ChannelStatus, Establishing
  <2>2. /\ new.sock = "live" /\ new.cid = cid
        /\ new.conn = hci[h] /\ new.state = "CONFIGURATION"
        /\ new.call = "none" /\ new.drop # "unmap"
    BY <1>2 DEF EndpointRecord
  <2> QED
    BY <2>1, <2>2 DEF EndpointInv
<1> HIDE DEF new
<1>6. /\ c.r \in EndpointRecord /\ Keeps(c.r, new) /\ EndpointInv(c.r)
      /\ c.ids \in IdentTable /\ Takes(c.ids, idents[h], f)
  <2>1. Keeps(new, new) /\ new.state # "OPEN"
    BY <1>5 DEF Keeps
  <2> QED
    BY <1>1, <1>3, <1>5, <2>1, SendChannelConfigInv, SendChannelConfigType
<1> HIDE DEF born, c
<1>7. /\ hci' = hci /\ rx' = [rx EXCEPT ![h] = Idle]
      /\ \/ /\ ep' = [ep EXCEPT ![f] = born]
            /\ idents' = idents
         \/ /\ cid # NullCid
            /\ ep' = [ep EXCEPT ![f] = c.r]
            /\ idents' = [idents EXCEPT ![h] = c.ids]
  BY DEF HandleConnectionReq, m, born, cid, new, c
<1>8. rx \in [Host -> Busy \cup {Idle}] /\ idents \in [Host -> IdentTable]
  BY DEF IInv, TypeOK
<1>9. RxFollows
  BY <1>7, <1>8 DEF RxFollows
<1>10. CASE ep' = [ep EXCEPT ![f] = born] /\ idents' = idents
  <2>1. \A g \in Host : \A i \in Ident : idents[g][i] # f
    BY <1>1, NoEpAssumption DEF IInv, IdentsInv, Answers
  <2>2. IdentsFollow(f, born)
    BY <1>10, <2>1 DEF IdentsFollow
  <2> QED
    BY <1>1, <1>2, <1>7, <1>9, <1>10, <2>2, OneEndpointStep
<1>11. CASE /\ cid # NullCid
            /\ ep' = [ep EXCEPT ![f] = c.r]
            /\ idents' = [idents EXCEPT ![h] = c.ids]
  <2> HIDE DEF cid
  <2>1. Answers(c.r, hci[h])
    <3>1. hci[h] # NoConn
      BY DEF HandleConnectionReq, IInv, RxInv
    <3> QED
      BY <1>5, <1>6, <3>1 DEF Answers, Keeps
  <2>2. c.r.cid \in {ep[f].cid, NullCid} \/ c.r.cid \notin CidsOf(Home(f))
    BY <1>1, <1>3, <1>5, <1>6, <1>11 DEF Keeps
  <2>3. ASSUME NEW g \in Host, NEW i \in Ident
        PROVE  \/ idents'[g][i] = idents[g][i] /\ idents[g][i] # f
               \/ g = h /\ idents'[g][i] = f
    <3>1. idents[g][i] # f
      BY <1>1, NoEpAssumption DEF IInv, IdentsInv, Answers
    <3>2. CASE g # h
      BY <1>8, <1>11, <3>1, <3>2
    <3>3. CASE g = h
      BY <1>6, <1>8, <1>11, <3>1, <3>3 DEF Takes
    <3> QED
      BY <3>2, <3>3
  <2>4. IdentsFollow(f, c.r)
    BY <1>1, <2>1, <2>3 DEF IdentsFollow
  <2> QED
    BY <1>1, <1>6, <1>7, <1>9, <1>11, <2>2, <2>4, OneEndpointStep
<1> QED
  BY <1>7, <1>10, <1>11

----------------------------------------------------------------------------
\* The user threads

LEMMA IdentsKept ==
    ASSUME IInv, NEW e \in Endpoint, NEW r, idents' = idents,
           Answers(ep[e], hci[Home(e)]) => Answers(r, hci[Home(e)])
    PROVE  IdentsFollow(e, r)
BY DEF IInv, IdentsInv, IdentsFollow

LEMMA IdentTaken ==
    ASSUME IInv, NEW e \in Endpoint, NEW r, NEW i, NEW h \in Host, h = Home(e),
           idents' = [idents EXCEPT ![h] = HoldIdent(@, i, e)],
           Answers(r, hci[h])
    PROVE  IdentsFollow(e, r)
<1>1. idents \in [Host -> IdentTable]
  BY DEF IInv, TypeOK
<1>2. ASSUME NEW g \in Host, NEW j \in Ident
      PROVE  idents'[g][j] = idents[g][j] \/ (g = h /\ idents'[g][j] = e)
  <2>1. idents[h] \in IdentTable
    BY <1>1
  <2>2. HoldIdent(idents[h], i, e)[j] \in {idents[h][j], e}
    BY <2>1 DEF HoldIdent, IdentTable
  <2> QED
    BY <1>1, <2>2
<1>3. \A g \in Host : \A j \in Ident : idents[g][j] = e => e # NoEp /\ g = h
  BY NoEpAssumption DEF IInv, IdentsInv
<1> QED
  BY <1>2, <1>3 DEF IdentsFollow

\* a step of a user thread that leaves the hosts' other state alone
LEMMA UserStep ==
    ASSUME IInv, TypeOK', NEW e \in Endpoint, NEW r,
           ep' = [ep EXCEPT ![e] = r],
           UNCHANGED <<hci, rx>>,
           EndpointInv(r),
           r.cid \in {ep[e].cid, NullCid} \/ r.cid \notin CidsOf(Home(e)),
           IdentsFollow(e, r)
    PROVE  IInv'
BY OneEndpointStep DEF RxFollows

LEMMA EndpointFacts ==
    ASSUME IInv, NEW e \in Endpoint
    PROVE  /\ ep[e] \in EndpointRecord /\ EndpointInv(ep[e]) /\ Home(e) \in Host
           /\ e \in Client => Home(e) = "A"
BY EndpointTypes DEF IInv, TypeOK, Home

LEMMA RequestConnectionInv ==
    ASSUME IInv, TypeOK', NEW e \in Client, NEW r \in EndpointRecord, RequestConnection(e, r),
           UNCHANGED <<hci, rx>>, ConnValid(e),
           r.cid \in {ep[e].cid, NullCid} \/ r.cid \notin CidsOf("A"),
           r.conn = ep[e].conn, r.sock = "live", r.drop # "unmap", r.drop = ep[e].drop,
           r.saved = ep[e].saved, r.state = "CLOSED"
    PROVE  IInv'
<1> DEFINE i == AllocIdent(idents["A"])
           given == [r EXCEPT !.call = "none"]
           asked == [r EXCEPT !.state = "WAIT_FOR_CONNECTION_RSP",
                              !.call = "connect", !.woken = FALSE]
<1>1. /\ e \in Endpoint /\ "A" \in Host /\ Home(e) = "A" /\ ep[e] \in EndpointRecord
      /\ r.conn = hci["A"] /\ hci["A"] # NoConn
  BY EndpointTypes, EndpointFacts DEF Host, ConnValid
<1>2. /\ EndpointInv(given) /\ given.cid = r.cid /\ Answers(given, hci["A"])
      /\ EndpointInv(asked) /\ asked.cid = r.cid /\ Answers(asked, hci["A"])
  BY <1>1 DEF EndpointInv, EndpointRecord, Answers
<1>3. CASE i = NullIdent
  <2>1. ep' = [ep EXCEPT ![e] = given] /\ idents' = idents
    BY <1>3 DEF RequestConnection
  <2>2. IdentsFollow(e, given)
    BY <1>1, <1>2, <2>1, IdentsKept
  <2> QED
    BY <1>1, <1>2, <2>1, <2>2, UserStep
<1>4. CASE i # NullIdent
  <2>1. /\ ep' = [ep EXCEPT ![e] = asked]
        /\ idents' = [idents EXCEPT !["A"] = HoldIdent(@, i, e)]
    BY <1>4 DEF RequestConnection
  <2>2. IdentsFollow(e, asked)
    BY <1>1, <1>2, <2>1, IdentTaken
  <2> QED
    BY <1>1, <1>2, <2>1, <2>2, UserStep
<1> QED
  BY <1>3, <1>4

LEMMA ConnectInv ==
    ASSUME IInv, TypeOK', NEW e \in Client
    PROVE  /\ \A p \in Psm : ConnectRoute(e, p) => IInv'
           /\ ConnectBind(e) => IInv'
           /\ ConnectAfterInfo(e) => IInv'
           /\ ConnectWake(e) => IInv'
           /\ ConnectInterrupted(e) => IInv'
<1>1. /\ e \in Endpoint /\ "A" \in Host /\ Home(e) = "A"
      /\ ep[e] \in EndpointRecord /\ EndpointInv(ep[e]) /\ TypeOK
      /\ ep \in [Endpoint -> EndpointRecord]
  BY EndpointTypes, EndpointFacts DEF Host, IInv, TypeOK
<1>2. ASSUME NEW p \in Psm, ConnectRoute(e, p) PROVE IInv'
  <2> DEFINE r == [ep[e] EXCEPT !.conn = hci["A"], !.psm = p, !.call = "route"]
  <2>1. ep' = [ep EXCEPT ![e] = r]
    BY <1>1, <1>2 DEF ConnectRoute, EndpointRecord
  <2>2. EndpointInv(r) /\ r.cid = ep[e].cid /\ Answers(r, hci["A"])
    BY <1>1, <1>2 DEF ConnectRoute, EndpointInv, EndpointRecord, Answers
  <2>3. IdentsFollow(e, r) /\ UNCHANGED <<hci, rx>>
    BY <1>1, <1>2, <2>2, IdentsKept DEF ConnectRoute
  <2> QED
    BY <1>1, <2>1, <2>2, <2>3, UserStep
<1>3. ASSUME ConnectBind(e) PROVE IInv'
  <2> DEFINE cid == AllocCid(CidsOf("A"), nextCid["A"])
             r == [ep[e] EXCEPT !.cid = cid, !.in = "NONE", !.out = "NONE"]
             asking == [r EXCEPT !.state = "WAIT_FOR_INFO_RSP", !.call = "info"]
             given == [ep[e] EXCEPT !.call = "none"]
             i == AllocIdent(idents["A"])
  <2>1. cid \in Cid \cup {NullCid} /\ (cid # NullCid => cid \notin CidsOf("A"))
    BY <1>1, AllocCidType, NewCid
  <2>2. /\ ep[e].call = "route" /\ ep[e].state = "CLOSED"
        /\ ep[e].sock = "live" /\ ep[e].drop # "unmap"
    BY <1>1, <1>3 DEF ConnectBind, EndpointInv
  <2>3. given.cid = ep[e].cid /\ EndpointInv(given)
        /\ \A c : Answers(ep[e], c) => Answers(given, c)
    BY <1>1, <2>2 DEF EndpointInv, EndpointRecord, Answers
  <2> HIDE DEF cid
  <2>4. /\ r \in EndpointRecord /\ r.cid = cid /\ r.state = "CLOSED"
        /\ r.conn = ep[e].conn /\ r.sock = "live" /\ r.drop = ep[e].drop
        /\ r.saved = ep[e].saved
    BY <1>1, <2>1, <2>2 DEF EndpointRecord, ConfigState
  <2> HIDE DEF r
  <2>5. /\ asking.cid = cid /\ EndpointInv(asking) /\ asking.conn = ep[e].conn
        /\ asking.sock = "live"
    BY <2>2, <2>4 DEF EndpointRecord, EndpointInv
  <2> HIDE DEF given, asking
  <2>6. CASE Panic("map insert") \/ Panic("connection")
    BY <2>6, PanicInv
  <2>7. CASE /\ UNCHANGED <<hci, rx>>
             /\ ep' = [ep EXCEPT ![e].call = "none"]
             /\ UNCHANGED <<idents, link>>
    <3>1. ep' = [ep EXCEPT ![e] = given]
      BY <1>1, <2>7 DEF given, EndpointRecord
    <3>2. IdentsFollow(e, given)
      BY <1>1, <2>3, <2>7, IdentsKept
    <3> QED
      BY <1>1, <2>3, <2>7, <3>1, <3>2, UserStep
  <2>8. CASE /\ UNCHANGED <<hci, rx>> /\ ConnValid(e)
             /\ ep' = [ep EXCEPT ![e] = asking]
             /\ idents' = [idents EXCEPT !["A"] = HoldIdent(@, i, e)]
    <3>1. Answers(asking, hci["A"])
      BY <1>1, <2>5, <2>8 DEF Answers, ConnValid
    <3>2. IdentsFollow(e, asking)
      BY <1>1, <2>8, <3>1, IdentTaken
    <3>3. asking.cid \in {ep[e].cid, NullCid} \/ asking.cid \notin CidsOf(Home(e))
      BY <1>1, <2>1, <2>5
    <3> QED
      BY <1>1, <2>5, <2>8, <3>2, <3>3, UserStep
  <2>9. CASE UNCHANGED <<hci, rx>> /\ ConnValid(e) /\ RequestConnection(e, r)
    <3>1. r.cid \in {ep[e].cid, NullCid} \/ r.cid \notin CidsOf("A")
      BY <2>1, <2>4
    <3> QED
      BY <2>2, <2>4, <2>9, <3>1, RequestConnectionInv
  <2> QED
    BY <1>3, <2>6, <2>7, <2>8, <2>9 DEF ConnectBind, cid, r, asking
<1>4. ASSUME ConnectAfterInfo(e) PROVE IInv'
  <2> DEFINE r == [ep[e] EXCEPT !.state = "CLOSED"]
  <2>1. ep[e].sock = "live" /\ ep[e].drop # "unmap"
    BY <1>1, <1>4 DEF ConnectAfterInfo, EndpointInv
  <2>2. /\ r \in EndpointRecord /\ r.cid = ep[e].cid /\ r.conn = ep[e].conn
        /\ r.sock = ep[e].sock /\ r.drop = ep[e].drop /\ r.saved = ep[e].saved
        /\ r.state = "CLOSED"
    BY <1>1 DEF EndpointRecord, ChannelStatus
  <2>3. CASE Panic("connection")
    BY <2>3, PanicInv
  <2>4. CASE ConnValid(e) /\ RequestConnection(e, r) /\ UNCHANGED <<hci, rx>>
    <3> HIDE DEF r
    <3> QED
      BY <2>1, <2>2, <2>4, RequestConnectionInv
  <2> QED
    BY <1>4, <2>3, <2>4 DEF ConnectAfterInfo
<1>5. ASSUME ConnectWake(e) \/ ConnectInterrupted(e) PROVE IInv'
  <2>1. PICK w \in BOOLEAN, c \in {"none", "connect"} :
           /\ ep' = [ep EXCEPT ![e] = [@ EXCEPT !.woken = w, !.call = c]]
           /\ UNCHANGED <<hci, idents, rx>> /\ ep[e].call = "connect"
    <3>1. CASE ConnectWake(e)
      BY <1>1, <3>1 DEF ConnectWake, EndpointRecord
    <3>2. CASE ConnectInterrupted(e)
      <4>1. ep[e].woken \in BOOLEAN
            /\ [ep[e] EXCEPT !.woken = ep[e].woken, !.call = "none"]
                  = [ep[e] EXCEPT !.call = "none"]
        BY <1>1 DEF EndpointRecord
      <4> QED
        BY <1>1, <3>2, <4>1 DEF ConnectInterrupted, EndpointRecord
    <3> QED
      BY <1>5, <3>1, <3>2
  <2> DEFINE r == [ep[e] EXCEPT !.woken = w, !.call = c]
  <2>2. /\ EndpointInv(r) /\ r.cid = ep[e].cid
        /\ \A d : Answers(ep[e], d) => Answers(r, d)
    BY <1>1, <2>1 DEF EndpointInv, EndpointRecord, Answers
  <2>3. IdentsFollow(e, r)
    BY <1>1, <2>1, <2>2, IdentsKept
  <2> QED
    BY <1>1, <2>1, <2>2, <2>3, UserStep
<1> QED
  BY <1>2, <1>3, <1>4, <1>5

\* The purge of Shutdown() and Free() leaves no ident of the endpoint to the
\* connection it remembers.
LEMMA IdentsForgotten ==
    ASSUME IInv, NEW e \in Endpoint, NEW r, Forget(e),
           ep[e].saved # hci[Home(e)] /\ Answers(ep[e], hci[Home(e)])
              => Answers(r, hci[Home(e)])
    PROVE  IdentsFollow(e, r)
<1> DEFINE h == Home(e)
<1>1. /\ idents \in [Host -> IdentTable] /\ h \in Host
      /\ \A g \in Host : \A i \in Ident : idents[g][i] = e => g = h /\ Answers(ep[e], hci[h])
  <2>1. idents \in [Host -> IdentTable] /\ h \in Host
    BY EndpointTypes DEF IInv, TypeOK
  <2>2. ASSUME NEW g \in Host, NEW i \in Ident, idents[g][i] = e
        PROVE  g = h /\ Answers(ep[e], hci[h])
    BY <2>2, NoEpAssumption DEF IInv, IdentsInv
  <2> QED
    BY <2>1, <2>2
<1>2. CASE ep[e].saved # NoConn /\ ep[e].saved = hci[h]
  <2>1. idents' = [idents EXCEPT ![h] = FreeIdentsOf(@, e)]
    BY <1>2 DEF Forget
  <2>2. ASSUME NEW g \in Host, NEW i \in Ident
        PROVE  idents'[g][i] = NoEp \/ (idents'[g][i] = idents[g][i] /\ idents[g][i] # e)
    <3>1. CASE g = h
      BY <1>1, <2>1, <3>1 DEF FreeIdentsOf
    <3>2. CASE g # h
      BY <1>1, <2>1, <3>2
    <3> QED
      BY <3>1, <3>2
  <2> QED
    BY <2>2 DEF IdentsFollow
<1>3. CASE ~(ep[e].saved # NoConn /\ ep[e].saved = hci[h])
  <2>1. idents' = idents
    BY <1>3 DEF Forget
  <2>2. Answers(ep[e], hci[h]) => ep[e].saved # hci[h]
    BY <1>3 DEF Answers
  <2> QED
    BY <1>1, <2>1, <2>2 DEF IdentsFollow
<1> QED
  BY <1>2, <1>3

LEMMA CloseInv ==
    ASSUME IInv, TypeOK', NEW e \in Endpoint, CloseStep(e)
    PROVE  IInv'
<1>1. /\ Home(e) \in Host /\ ep[e] \in EndpointRecord /\ EndpointInv(ep[e])
      /\ ep \in [Endpoint -> EndpointRecord]
  BY EndpointFacts DEF IInv, TypeOK
<1>2. Closing(e) => ep[e].sock = "live" /\ ep[e].drop = "none" /\ ep[e].call # "route"
  BY DEF Closing, HasDescriptor, Unlocked
<1>3. CASE ShutdownEstablishing(e)
  <2> DEFINE r == [MarkClosed(ep[e]) EXCEPT !.conn = NoConn, !.drop = "forget",
                                            !.saved = ep[e].conn]
  <2>0. CASE ep[e].cid = NullCid
    BY <1>3, <2>0, NoEndpointStep DEF ShutdownEstablishing, RxFollows, IInv, TypeOK
  <2>1. /\ ep[e].cid # NullCid => ep' = [ep EXCEPT ![e] = r]
        /\ UNCHANGED <<hci, idents, rx>> /\ Closing(e)
    BY <1>3 DEF ShutdownEstablishing
  <2>2. /\ EndpointInv(r) /\ r.cid = NullCid
        /\ \A c : Answers(ep[e], c) => Answers(r, c)
    BY <1>1, <1>2, <2>1, EmptiedType DEF MarkClosed, EndpointInv, EndpointRecord, Answers
  <2>3. IdentsFollow(e, r)
    BY <2>1, <2>2, IdentsKept
  <2> QED
    BY <2>0, <2>1, <2>2, <2>3, UserStep
<1>4. CASE ShutdownForget(e)
  <2> DEFINE r == [ep[e] EXCEPT !.drop = "none", !.saved = NoConn]
  <2>1. ep' = [ep EXCEPT ![e] = r] /\ UNCHANGED <<hci, rx>>
    BY <1>1, <1>4 DEF ShutdownForget, EndpointRecord
  <2>2. /\ EndpointInv(r) /\ r.cid = ep[e].cid
        /\ \A c : ep[e].saved # c /\ Answers(ep[e], c) => Answers(r, c)
    BY <1>1 DEF EndpointInv, EndpointRecord, Answers
  <2>3. IdentsFollow(e, r)
    BY <1>4, <2>2, IdentsForgotten DEF ShutdownForget
  <2> QED
    BY <2>1, <2>2, <2>3, UserStep
<1>5. CASE ShutdownOpen(e)
  <2> DEFINE h == Home(e)
             i == AllocIdent(idents[h])
             r == [ep[e] EXCEPT !.state = "WAIT_FOR_DISCONNECTION_RSP"]
  <2>1. CASE panic' = "connection" /\ UNCHANGED <<ep, idents, link>>
    BY <1>5, <2>1, NoEndpointStep DEF ShutdownOpen, RxFollows, IInv, TypeOK
  <2>2. CASE /\ ConnValid(e)
             /\ ep' = [ep EXCEPT ![e].state = "WAIT_FOR_DISCONNECTION_RSP"]
             /\ idents' = [idents EXCEPT ![h] = HoldIdent(@, i, e)]
    <3>1. /\ ep' = [ep EXCEPT ![e] = r] /\ UNCHANGED <<hci, rx>> /\ Closing(e)
      BY <1>1, <1>5, <2>2 DEF ShutdownOpen, EndpointRecord
    <3>2. EndpointInv(r) /\ r.cid = ep[e].cid /\ Answers(r, hci[h])
      BY <1>1, <1>2, <2>2, <3>1 DEF EndpointInv, EndpointRecord, Answers, ConnValid
    <3>3. IdentsFollow(e, r)
      BY <1>1, <2>2, <3>2, IdentTaken
    <3> QED
      BY <3>1, <3>2, <3>3, UserStep
  <2> QED
    BY <1>5, <2>1, <2>2 DEF ShutdownOpen
<1>6. CASE FreeBegin(e)
  <2> DEFINE r == [ep[e] EXCEPT !.state = "CLOSED", !.conn = NoConn,
                                !.drop = "unmap", !.saved = ep[e].conn]
  <2>1. ep' = [ep EXCEPT ![e] = r] /\ UNCHANGED <<hci, idents, rx>> /\ Closing(e)
    BY <1>1, <1>6 DEF FreeBegin, EndpointRecord
  <2>2. ep[e].call = "none"
    BY <1>6 DEF FreeBegin
  <2>3. /\ EndpointInv(r) /\ r.cid = ep[e].cid
        /\ \A c : Answers(ep[e], c) => Answers(r, c)
    BY <1>1, <1>2, <2>1, <2>2 DEF EndpointInv, EndpointRecord, Answers
  <2>4. IdentsFollow(e, r)
    BY <2>1, <2>3, IdentsKept
  <2> QED
    BY <2>1, <2>3, <2>4, UserStep
<1>7. CASE FreeEnd(e)
  <2> DEFINE r == [ep[e] EXCEPT !.cid = NullCid, !.drop = "none", !.saved = NoConn,
                                !.sock = "freed"]
  <2>1. ep' = [ep EXCEPT ![e] = r] /\ UNCHANGED <<hci, rx>> /\ ep[e].drop = "unmap"
    BY <1>1, <1>7 DEF FreeEnd, EndpointRecord
  <2>2. /\ EndpointInv(r) /\ r.cid = NullCid
        /\ \A c : Answers(ep[e], c) => ep[e].saved = c
    BY <1>1, <2>1 DEF EndpointInv, EndpointRecord, Answers
  <2>3. IdentsFollow(e, r)
    BY <1>7, <2>2, IdentsForgotten DEF FreeEnd
  <2> QED
    BY <2>1, <2>2, <2>3, UserStep
<1> QED
  BY <1>3, <1>4, <1>5, <1>6, <1>7 DEF CloseStep

LEMMA ErtmInv ==
    ASSUME IInv, TypeOK', NEW e \in Endpoint, ErtmStep(e)
    PROVE  IInv'
<1>1. /\ ep[e] \in EndpointRecord /\ EndpointInv(ep[e])
      /\ ep \in [Endpoint -> EndpointRecord]
  BY EndpointFacts DEF IInv, TypeOK
<1> DEFINE sent == [ep[e] EXCEPT !.tx = "queued"]
           closed == [ep[e] EXCEPT !.state = "CLOSED", !.woken = TRUE]
<1>2. /\ UNCHANGED <<hci, idents, rx>>
      /\ Unlocked(e) /\ ep[e].sock = "live"
      /\ \/ ep' = ep
         \/ ep' = [ep EXCEPT ![e] = sent]
         \/ ep' = [ep EXCEPT ![e] = closed]
         \/ ep' = [ep EXCEPT ![e] = MarkClosed(ep[e])]
  BY <1>1 DEF ErtmStep, SendIFrame, MonitorTimeout, MaxTransmitReached, EndpointRecord
<1>3. \A r \in {sent, closed, MarkClosed(ep[e])} :
         /\ EndpointInv(r) /\ r.cid \in {ep[e].cid, NullCid}
         /\ \A c : Answers(ep[e], c) => Answers(r, c)
  <2>1. ep[e].call # "route"
    BY <1>2 DEF Unlocked
  <2>2. /\ EndpointInv(sent) /\ sent.cid = ep[e].cid
        /\ \A c : Answers(ep[e], c) => Answers(sent, c)
    BY <1>1 DEF EndpointInv, EndpointRecord, Answers
  <2>3. /\ EndpointInv(closed) /\ closed.cid = ep[e].cid
        /\ \A c : Answers(ep[e], c) => Answers(closed, c)
    BY <1>1, <2>1 DEF EndpointInv, EndpointRecord, Answers
  <2>4. /\ EndpointInv(MarkClosed(ep[e])) /\ MarkClosed(ep[e]).cid = NullCid
        /\ \A c : Answers(ep[e], c) => Answers(MarkClosed(ep[e]), c)
    BY <1>1, <2>1, EmptiedType DEF MarkClosed, EndpointInv, EndpointRecord, Answers
  <2> QED
    BY <2>2, <2>3, <2>4
<1>4. ASSUME NEW r \in {sent, closed, MarkClosed(ep[e])}, ep' = [ep EXCEPT ![e] = r]
      PROVE  IInv'
  <2>1. EndpointInv(r) /\ r.cid \in {ep[e].cid, NullCid} /\ IdentsFollow(e, r)
    BY <1>2, <1>3, IdentsKept
  <2> QED
    BY <1>2, <1>4, <2>1, UserStep
<1>5. CASE ep' = ep
  BY <1>2, <1>5, NoEndpointStep DEF RxFollows, IInv, TypeOK
<1> QED
  BY <1>2, <1>4, <1>5

LEMMA ListenerInv ==
    ASSUME IInv, TypeOK', ListenerStep
    PROVE  IInv'
<1>1. CASE Bind \/ Listen \/ ListenerShutdown
  BY <1>1, NoEndpointStep DEF Bind, Listen, ListenerShutdown, RxFollows, IInv, TypeOK
<1>2. ASSUME NEW f \in Child, Accept(f) PROVE IInv'
  <2> DEFINE r == [ep[f] EXCEPT !.queue = "accepted"]
  <2>1. f \in Endpoint /\ ep[f] \in EndpointRecord /\ EndpointInv(ep[f])
        /\ ep \in [Endpoint -> EndpointRecord]
    BY EndpointTypes, EndpointFacts DEF IInv, TypeOK
  <2>2. ep' = [ep EXCEPT ![f] = r] /\ UNCHANGED <<hci, idents, rx>>
    BY <1>2, <2>1 DEF Accept, EndpointRecord
  <2>3. /\ EndpointInv(r) /\ r.cid = ep[f].cid
        /\ \A c : Answers(ep[f], c) => Answers(r, c)
    BY <2>1 DEF EndpointInv, EndpointRecord, Answers
  <2>4. IdentsFollow(f, r)
    BY <2>1, <2>2, <2>3, IdentsKept
  <2> QED
    BY <2>1, <2>2, <2>3, <2>4, UserStep
<1> QED
  BY <1>1, <1>2 DEF ListenerStep

----------------------------------------------------------------------------
\* HCI connections, the other vendor's stack, and the theorems

LEMMA HciInv ==
    ASSUME IInv, TypeOK'
    PROVE  /\ HciConnect => IInv'
           /\ \A h \in Host : HciDisconnect(h) => IInv'
<1>1. ASSUME HciConnect PROVE IInv'
  <2>1. \A h \in Host : \A i \in Ident : idents[h][i] = NoEp
    BY <1>1 DEF HciConnect, IInv, IdentsInv, Answers
  <2>2. \A h \in Host : rx[h] = Idle
    BY <1>1 DEF HciConnect, IInv, RxInv
  <2>3. ep' = ep /\ idents' = idents /\ rx' = rx
    BY <1>1 DEF HciConnect
  <2>4. IdentsInv' /\ RxInv'
    BY <2>1, <2>2, <2>3 DEF IdentsInv, RxInv
  <2>5. (\A e \in Endpoint : EndpointInv(ep[e]))' /\ OneEndpointPerCid'
    BY <2>3 DEF IInv, EndpointInv, OneEndpointPerCid
  <2> QED
    BY <2>4, <2>5 DEF IInv
<1>2. ASSUME NEW h \in Host, HciDisconnect(h) PROVE IInv'
  <2> DEFINE hit == {e \in On(h) : ep[e].cid # NullCid /\ ep[e].conn = hci[h]}
             gone(e) == [ep[e] EXCEPT !.conn = NoConn, !.state = "CLOSED", !.woken = TRUE]
  <2>1. /\ ep' = [e \in Endpoint |-> IF e \in hit THEN gone(e) ELSE ep[e]]
        /\ hci' = [hci EXCEPT ![h] = NoConn]
        /\ idents' = [idents EXCEPT ![h] = NoIdents]
        /\ rx' = rx /\ rx[h] = Idle
    BY <1>2 DEF HciDisconnect
  <2>2. \A e \in Endpoint : ep[e] \in EndpointRecord /\ EndpointInv(ep[e])
    BY EndpointFacts
  <2>3. \A e \in Endpoint : e \in hit => Home(e) = h
    BY DEF On
  <2>4. \A e \in Endpoint : gone(e).cid = ep[e].cid /\ EndpointInv(gone(e))
    BY <2>2 DEF EndpointRecord, EndpointInv
  <2> HIDE DEF hit, gone
  <2>5. \A e \in Endpoint : /\ ep'[e].cid = ep[e].cid /\ EndpointInv(ep'[e])
                            /\ Home(e) # h => ep'[e] = ep[e]
    BY <2>1, <2>2, <2>3, <2>4
  <2>6. (\A e \in Endpoint : EndpointInv(ep[e]))'
    BY <2>5 DEF EndpointInv
  <2>7. OneEndpointPerCid'
    BY <2>5 DEF IInv, OneEndpointPerCid
  <2>8. /\ idents \in [Host -> IdentTable] /\ hci \in [Host -> Conn]
    BY DEF IInv, TypeOK
  <2>9. RxInv'
    BY <2>1, <2>8 DEF IInv, RxInv
  <2>10. IdentsInv'
    <3> SUFFICES ASSUME NEW g \in Host, NEW i \in Ident, idents'[g][i] # NoEp
                 PROVE  Home(idents'[g][i]) = g /\ Answers(ep'[idents'[g][i]], hci'[g])
      BY DEF IdentsInv, Answers
    <3>1. g # h
      BY <2>1, <2>8 DEF NoIdents
    <3>2. idents'[g][i] = idents[g][i] /\ hci'[g] = hci[g]
      BY <2>1, <2>8, <3>1
    <3>3. idents[g][i] \in Endpoint
      <4>1. idents[g] \in IdentTable
        BY <2>8
      <4> QED
        BY <3>2, <4>1 DEF IdentTable
    <3>4. Home(idents[g][i]) = g /\ Answers(ep[idents[g][i]], hci[g])
      BY <3>2 DEF IInv, IdentsInv
    <3> QED
      BY <2>5, <3>1, <3>2, <3>3, <3>4
  <2> QED
    BY <2>6, <2>7, <2>9, <2>10 DEF IInv
<1> QED
  BY <1>1, <1>2

LEMMA ForeignInv ==
    ASSUME IInv, TypeOK', ForeignStep
    PROVE  IInv'
<1>1. CASE \/ ForeignPending \/ ForeignTurnsDown
           \/ ForeignAnswersTwice \/ ForeignContinues
  BY <1>1, NoEndpointStep
     DEF ForeignPending, ForeignTurnsDown, ForeignAnswersTwice, ForeignContinues,
         RxFollows, IInv, TypeOK
<1>2. ASSUME NEW f \in Child, ForeignReconfigure(f) PROVE IInv'
  <2> DEFINE r == [ep[f] EXCEPT !.state = "CONFIGURATION", !.in = "NONE", !.out = "NONE"]
             c == SendChannelConfig(f, r, idents["B"])
  <2>1. /\ f \in Endpoint /\ ep[f] \in EndpointRecord /\ EndpointInv(ep[f])
        /\ "B" \in Host /\ Home(f) = "B"
        /\ idents \in [Host -> IdentTable] /\ idents["B"] \in IdentTable
    BY EndpointTypes, EndpointFacts, EndpointAssumption DEF IInv, TypeOK, Home, Host
  <2>2. ep[f].state = "OPEN" /\ ConnValid(f) /\ UNCHANGED <<hci, rx>>
    BY <1>2 DEF ForeignReconfigure
  <2>3. /\ r \in EndpointRecord /\ Keeps(r, ep[f]) /\ r.state # "OPEN"
        /\ r.state = "CONFIGURATION" /\ r.sock = "live"
    BY <2>1, <2>2, ZenonT(40) DEF EndpointRecord, ChannelStatus, Establishing, ConfigState, Keeps,
                      EndpointInv
  <2>4. EndpointInv(r)
    <3>1. r.call = ep[f].call /\ r.drop = ep[f].drop
      BY <2>3 DEF Keeps
    <3> HIDE DEF r
    <3> QED
      BY <2>1, <2>2, <2>3, <3>1 DEF EndpointInv
  <2>5. Keeps(c.r, ep[f]) /\ EndpointInv(c.r) /\ Takes(c.ids, idents["B"], f)
    <3> HIDE DEF r
    <3> QED
      BY <2>1, <2>3, <2>4, SendChannelConfigInv
  <2>6. ep' = [ep EXCEPT ![f] = c.r] /\ idents' = [idents EXCEPT !["B"] = c.ids]
    BY <1>2 DEF ForeignReconfigure
  <2> HIDE DEF c
  <2>7. Answers(c.r, hci["B"]) /\ c.r.cid \in {ep[f].cid, NullCid}
    BY <2>1, <2>2, <2>3, <2>5 DEF Answers, Keeps, ConnValid, EndpointInv
  <2>8. ASSUME NEW g \in Host, NEW i \in Ident
        PROVE  idents'[g][i] = idents[g][i] \/ (g = "B" /\ idents'[g][i] = f)
    BY <2>1, <2>5, <2>6 DEF Takes
  <2>9. \A g \in Host : \A i \in Ident : idents[g][i] = f => g = "B"
    BY <2>1, NoEpAssumption DEF IInv, IdentsInv
  <2>10. IdentsFollow(f, c.r)
    BY <2>1, <2>7, <2>8, <2>9 DEF IdentsFollow
  <2> QED
    BY <2>1, <2>2, <2>5, <2>6, <2>7, <2>10, UserStep
<1> QED
  BY <1>1, <1>2 DEF ForeignStep

LEMMA InitInv == Init => IInv
<1> SUFFICES ASSUME Init PROVE IInv
  OBVIOUS
<1>1. \A e \in Endpoint : EndpointInv(ep[e]) /\ ep[e].cid = NullCid
  BY DEF Init, NewEndpoint, EndpointInv
<1>2. IdentsInv /\ RxInv /\ OneEndpointPerCid
  BY <1>1 DEF Init, NoIdents, IdentsInv, RxInv, OneEndpointPerCid
<1> QED
  BY <1>1, <1>2, InitType DEF IInv

LEMMA NextInv == IInv /\ [Next]_vars => IInv'
<1> SUFFICES ASSUME IInv, [Next]_vars PROVE IInv'
  OBVIOUS
<1>1. TypeOK'
  BY NextType DEF IInv
<1>2. CASE \E h \in Host : Receive(h) \/ HandleCommand(h) \/ HciDisconnect(h)
  BY <1>1, <1>2, ReceiveInv, HandlersInv, StrayInv, HandleConnectionReqInv, HciInv
     DEF HandleCommand
<1>3. CASE HciConnect
  BY <1>1, <1>3, HciInv
<1>4. CASE \E e \in Client : ConnectStep(e)
  BY <1>1, <1>4, ConnectInv DEF ConnectStep
<1>5. CASE \E e \in Endpoint : CloseStep(e) \/ ErtmStep(e)
  BY <1>1, <1>5, CloseInv, ErtmInv
<1>6. CASE ListenerStep \/ ForeignStep
  BY <1>1, <1>6, ListenerInv, ForeignInv
<1>7. CASE UNCHANGED vars
  BY <1>7, NoEndpointStep, <1>1 DEF vars, RxFollows, IInv, TypeOK
<1> QED
  BY <1>2, <1>3, <1>4, <1>5, <1>6, <1>7 DEF Next

LEMMA Invariant == Spec => []IInv
BY InitInv, NextInv, PTL DEF Spec

\* free_command_idents_by_pointer() in Shutdown() and Free() is enough: in
\* every behaviour each ident in use points to an endpoint of its own host
\* that is not deleted.
THEOREM IdentsNeverDangle == Spec => []NoDanglingIdent
<1>1. IInv => NoDanglingIdent
  BY DEF IInv, IdentsInv, Answers, NoDanglingIdent
<1> QED
  BY <1>1, Invariant, PTL

\* BindToChannel() and UnbindFromChannel() keep the channel ids of a host
\* apart, for every range of ids and however often the scan wraps.
THEOREM CidsAreUnique == Spec => []OneEndpointPerCid
<1>1. IInv => OneEndpointPerCid
  BY DEF IInv
<1> QED
  BY <1>1, Invariant, PTL

\* No interleaving of the two configuration exchanges, of a re-configuration
\* and of a new connect() opens a channel before both directions are done.
THEOREM OpenWhenConfigured == Spec => []OpenIsConfigured
<1>1. IInv => OpenIsConfigured
  BY DEF IInv, EndpointInv, OpenIsConfigured
<1> QED
  BY <1>1, Invariant, PTL

=============================================================================
