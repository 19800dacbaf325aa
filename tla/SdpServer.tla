----------------------------- MODULE SdpServer -----------------------------
(***************************************************************************)
(* Service discovery: the records of SdpServer and its three handlers, the *)
(* thread of the Bluetooth server that serves one client after the other,  *)
(* and the queries of the kit's clients and of SdpServicesWindow, which    *)
(* run against such a server or against one of another vendor.             *)
(*                                                                         *)
(* A data element keeps its size in bytes, and a sequence the length that  *)
(* its one byte header tells.  Numbers are the UUIDs and handles of the    *)
(* code; of a string only its length is kept.                              *)
(***************************************************************************)
EXTENDS Integers, Sequences, FiniteSets, SequencesExt

CONSTANTS
    Programs,    \* programs of this stack that look something up
    Vendors,     \* other vendors' clients
    BufferSize,  \* bytes of the thread's buffers (672)
    Retries,     \* attempts to bind the server's socket (10)
    Patterns,    \* what another vendor's client searches: sequences of data elements
    MaxQueries   \* bound: connections to the server

ASSUME SdpAssumption == BufferSize \in Nat /\ Retries \in Nat \ {0} /\ MaxQueries \in Nat

VARIABLES
    sdpThread, \* SDPServerThread(): where it stands, failed attempts, the connection it serves
    backlog,   \* connections that wait for accept()
    conns,     \* every connection made: is the client's end open, requests, answers, has
               \* another vendor's server sent a part?
    lookups,   \* where each client stands, and what it has found
    shutting   \* fIsShuttingDown

SdpClients == Programs \cup Vendors
sdpVars == <<sdpThread, backlog, conns, lookups, shutting>>

----------------------------------------------------------------------------
\* Data elements

Plain(type, size, value) == [type |-> type, size |-> size, len |-> 0, value |-> value, items |-> <<>>]
DeUint8(v) == Plain("uint", 2, v)
DeUint16(v) == Plain("uint", 3, v)
DeUint32(v) == Plain("uint", 5, v)
DeUuid16(v) == Plain("uuid", 3, v)
DeUuid32(v) == Plain("uuid", 5, v)
DeBool(v) == Plain("bool", 2, v)
DeString(n) == Plain("string", n + 2, n)

SizeOf(items) ==
    LET upTo[i \in 0 .. Len(items)] == IF i = 0 THEN 0 ELSE upTo[i - 1] + items[i].size
    IN  upTo[Len(items)]

\* BeginDE_Sequence(), the items, PatchDE_SequenceLength(): one byte of length.
DeSequence(items) ==
    LET content == SizeOf(items)
    IN  [type |-> "sequence", size |-> 2 + content, len |-> content % 256, value |-> 0, items |-> items]

\* What a reader finds who trusts the length in the header.
ReadItems(seq) ==
    LET whole == {i \in 0 .. Len(seq.items) : SizeOf(SubSeq(seq.items, 1, i)) <= seq.len}
    IN  SubSeq(seq.items, 1, CHOOSE i \in whole : \A j \in whole : j <= i)

----------------------------------------------------------------------------
\* The service records

L2cap == \h0100
Rfcomm == \h0003
Sdp == \h0001
PublicBrowseRoot == \h1002
GenericAudio == \h1203

Attribute(id, value) == <<DeUint16(id), value>>
Uuids(us) == DeSequence([i \in DOMAIN us |-> DeUuid16(us[i])])
Stack(uuid, params) == DeSequence(<<DeUuid16(uuid)>> \o params)
Profile(uuid, version) == Attribute(9, DeSequence(<<Stack(uuid, <<DeUint16(version)>>)>>))
Browse == Attribute(5, Uuids(<<PublicBrowseRoot>>))
Language == Attribute(6, DeSequence(<<DeUint16(\h656E), DeUint16(\h6A), DeUint16(\h100)>>))
ServiceName(length) == Attribute(\h100, DeString(length))
SupportedFeatures(v) == Attribute(\h311, DeUint16(v))

Handle(r) == IF r = 0 THEN 0 ELSE 65536 * r + 1
Record(r, classes, attributes) == DeSequence(Attribute(0, DeUint32(Handle(r))) \o Attribute(1, Uuids(classes)) \o attributes)

\* A service over RFCOMM, or over an L2CAP channel of its own.
OverRfcomm(channel, more, described, name) ==
    Attribute(4, DeSequence(<<Stack(L2cap, <<>>), Stack(Rfcomm, <<DeUint8(channel)>>)>> \o more))
        \o Browse \o Language \o described \o ServiceName(name)
OverL2cap(psm, protocol, version, described, name, features) ==
    Attribute(4, DeSequence(<<Stack(L2cap, <<DeUint16(psm)>>), Stack(protocol, <<DeUint16(version)>>)>>))
        \o Browse \o Language \o described \o ServiceName(name) \o SupportedFeatures(features)

SdpServerRecord == Record(0, <<\h1000>>,
    Attribute(4, DeSequence(<<Stack(L2cap, <<DeUint16(Sdp)>>), Stack(Sdp, <<>>)>>)) \o Browse \o Language \o ServiceName(17))
PnpInfoRecord == Record(1, <<\h1200>>,
    Browse \o Profile(\h1200, \h0103) \o Attribute(\h200, DeUint16(\h102)) \o Attribute(\h201, DeUint16(0))
      \o Attribute(\h202, DeUint16(0)) \o Attribute(\h203, DeUint16(1)) \o Attribute(\h204, DeBool(TRUE))
      \o Attribute(\h205, DeUint16(1)))
SppRecord == Record(2, <<\h1101>>, OverRfcomm(1, <<>>, Profile(\h1101, \h102), 11))
PbapPceRecord == Record(3, <<\h112E>>, OverRfcomm(0, <<>>, Profile(\h1130, \h102), 8))
OppRecord == Record(4, <<\h1105>>, OverRfcomm(2, <<Stack(\h0008, <<>>)>>, Profile(\h1105, \h102), 16)
    \o Attribute(\h303, DeSequence(<<DeUint8(1), DeUint8(2), DeUint8(255)>>)))
HfpRecord == Record(5, <<\h111E, GenericAudio>>,
    OverRfcomm(3, <<>>, Profile(\h111E, \h107), 10) \o SupportedFeatures(\h1F))
A2dpSinkRecord == Record(6, <<\h110B>>, OverL2cap(\h19, \h19, \h103, Profile(\h110D, \h103), 10, 1))
A2dpSourceRecord == Record(7, <<\h110A>>, OverL2cap(\h19, \h19, \h103, Profile(\h110D, \h103), 12, 1))
AvrcpTargetRecord == Record(8, <<\h110C>>, OverL2cap(\h17, \h17, \h104, Profile(\h110E, \h106), 24, 2))
HfpAgRecord == Record(9, <<\h111F, GenericAudio>>,
    OverRfcomm(4, <<>>, Profile(\h111E, \h107), 23) \o SupportedFeatures(\h3F))

RecordNumbers == 0 .. 9
Records ==
    <<SdpServerRecord, PnpInfoRecord, SppRecord, PbapPceRecord, OppRecord, HfpRecord, A2dpSinkRecord,
      A2dpSourceRecord, AvrcpTargetRecord, HfpAgRecord>>

\* _BuildServiceRecords(): the UUIDs that a record is found by.
RecordUuids ==
    <<{\h1000, L2cap, Sdp, PublicBrowseRoot}, {\h1200, PublicBrowseRoot}, {\h1101, L2cap, Rfcomm, PublicBrowseRoot},
      {\h112E, L2cap, Rfcomm, PublicBrowseRoot}, {\h1105, L2cap, Rfcomm, PublicBrowseRoot},
      {\h111E, L2cap, Rfcomm, GenericAudio}, {\h110B, L2cap, \h19}, {\h110A, L2cap, \h19},
      {\h110C, L2cap, \h17, \h110E}, {\h111F, L2cap, Rfcomm, GenericAudio}>>

\* (AnyUuid is faulty: one of the UUIDs is enough.)
AnyUuid(r, uuids) == \E i \in DOMAIN uuids : uuids[i] \in RecordUuids[r + 1]
RecordMatchesUuid(r, uuids) == \A i \in DOMAIN uuids : uuids[i] \in RecordUuids[r + 1]

----------------------------------------------------------------------------
\* HandleRequest()

\* _ParseUuidList(): at most 8, up to the first that is no UUID, 16 bits of each.
ParseUuidList(pattern) ==
    LET end   == SelectInSeq(pattern, LAMBDA e : e.type # "uuid")
        uuids == SubSeq(pattern, 1, IF end \in 1 .. 8 THEN end - 1 ELSE IF Len(pattern) < 8 THEN Len(pattern) ELSE 8)
    IN  [i \in DOMAIN uuids |-> uuids[i].value % 65536]

Matching(uuids) == SelectSeq([i \in 1 .. 10 |-> i - 1], LAMBDA r : RecordMatchesUuid(r, uuids))

\* The records that still fit into the answer.
Collected(uuids) ==
    LET found == Matching(uuids)
        upTo[i \in 0 .. Len(found)] ==
            IF i = 0 THEN <<>>
            ELSE LET record == Records[found[i] + 1]
                 IN  IF 2 + SizeOf(upTo[i - 1]) + record.size < BufferSize - 5 - 3 THEN Append(upTo[i - 1], record) ELSE upTo[i - 1]
    IN  upTo[Len(found)]

\* Less than a header: nothing is sent.
TooShort(req) == req.fault = "short"
Error(code) == [pdu |-> "error", code |-> code]

\* A request is [pdu, pattern, handle, fault]; a fault is found where it bites.
HandleRequest(req) ==
    LET uuids == ParseUuidList(req.pattern)
    IN  IF req.fault = "length" THEN Error("pdu_size")
        ELSE IF req.pdu = "unknown" \/ req.fault = "syntax" THEN Error("syntax")
        ELSE IF req.pdu = "attr" THEN
            IF \E r \in RecordNumbers : Handle(r) = req.handle
            THEN [pdu |-> "attr_rsp", list |-> Records[(req.handle \div 65536) + 1]]
            ELSE Error("handle")
        ELSE IF uuids = <<>> THEN Error("syntax")
        ELSE IF req.pdu = "search" THEN
            [pdu |-> "search_rsp", handles |-> [i \in DOMAIN Matching(uuids) |-> Handle(Matching(uuids)[i])]]
        ELSE [pdu |-> "search_attr_rsp", list |-> DeSequence(Collected(uuids)), more |-> FALSE, cut |-> FALSE]

\* Another vendor's server: an error, the first of two parts, a record without
\* a channel, two services.
VendorLists ==
    [error |-> Error("resources"),
     part  |-> [pdu |-> "search_attr_rsp", list |-> DeSequence(<<SppRecord>>), more |-> TRUE, cut |-> TRUE],
     none  |-> [pdu |-> "search_attr_rsp", list |-> DeSequence(<<PnpInfoRecord>>), more |-> FALSE, cut |-> FALSE],
     two   |-> [pdu |-> "search_attr_rsp", list |-> DeSequence(<<SppRecord, OppRecord>>), more |-> FALSE, cut |-> FALSE]]

\* An answer on its way is kept as who gives it, and to what.
Here(req) == [by |-> "here", req |-> req]
Content(answer) == IF answer.by = "here" THEN HandleRequest(answer.req) ELSE VendorLists[answer.by]

----------------------------------------------------------------------------
\* SDPServerThread() and QuitRequested()

Rest == UNCHANGED <<lookups, shutting>>
ThreadAt(at) == sdpThread' = [sdpThread EXCEPT !.at = at]

ThreadBinds(made) ==
    /\ sdpThread.at = "bind"
    /\ IF shutting THEN ThreadAt("gone")
       ELSE IF made THEN ThreadAt("listen")
       ELSE sdpThread' = [sdpThread EXCEPT !.failed = @ + 1, !.at = IF sdpThread.failed + 1 = Retries THEN "gone" ELSE "bind"]
    /\ UNCHANGED <<backlog, conns>> /\ Rest

ThreadListens(made) ==
    /\ sdpThread.at = "listen"
    /\ ThreadAt(IF made THEN "check" ELSE "gone")
    /\ UNCHANGED <<backlog, conns>> /\ Rest

ThreadChecks ==
    /\ sdpThread.at = "check"
    /\ ThreadAt(IF shutting THEN "gone" ELSE "accept")
    /\ UNCHANGED <<backlog, conns>> /\ Rest

ThreadAccepts ==
    /\ sdpThread.at = "accept" /\ backlog # <<>>
    /\ sdpThread' = [sdpThread EXCEPT !.at = "recv", !.serves = Head(backlog)]
    /\ backlog' = Tail(backlog)
    /\ UNCHANGED conns /\ Rest

AcceptFails ==
    /\ sdpThread.at = "accept"
    /\ ThreadAt("check")
    /\ UNCHANGED <<backlog, conns>> /\ Rest

\* The loop that serves one client until that client leaves.
ThreadServes ==
    /\ sdpThread.at = "recv"
    /\ LET n == sdpThread.serves
           c == conns[n]
       IN  IF c.requests # <<>>
           THEN /\ conns' = [conns EXCEPT ![n].requests = Tail(@),
                        ![n].answers = IF TooShort(Head(c.requests)) \/ ~c.open THEN @ ELSE Append(@, Here(Head(c.requests)))]
                /\ UNCHANGED sdpThread
           ELSE ~c.open /\ sdpThread' = [sdpThread EXCEPT !.at = "check", !.serves = 0] /\ UNCHANGED conns
    /\ UNCHANGED backlog /\ Rest

QuitRequested ==
    /\ ~shutting /\ sdpThread.at \notin {"vendor", "off"}
    /\ shutting' = TRUE
    /\ UNCHANGED <<sdpThread, backlog, conns, lookups>>

----------------------------------------------------------------------------
\* The queries.  "services" is the window's; it alone goes on with a list that
\* comes in parts.

Sought == [spp |-> \h1101, opp |-> \h1105, hfp |-> \h111F, pbap |-> \h112F, services |-> PublicBrowseRoot]
Registered == [spp |-> 1, opp |-> 2, hfp |-> 4]

NoLookup == [at |-> "idle", kind |-> "none", conn |-> 0, result |-> "none", channel |-> 0, pattern |-> <<>>, uuids |-> {}]

Request(pdu, pattern, handle, fault) == [pdu |-> pdu, pattern |-> pattern, handle |-> handle, fault |-> fault]

QueryOf(kind) == Request("search_attr", <<DeUuid16(Sought[kind])>>, 0, "none")

StartQuery(c, kind, pattern) ==
    /\ sdpThread.at # "off"
    /\ lookups[c].at = "idle" /\ Len(conns) + Cardinality({d \in SdpClients : lookups[d].at = "connect"}) < MaxQueries
    /\ lookups' = [lookups EXCEPT ![c] = [NoLookup EXCEPT !.at = "connect", !.kind = kind, !.pattern = pattern]]
    /\ UNCHANGED <<sdpThread, backlog, conns, shutting>>

\* The socket and its connect().
QueryConnects(c, made) ==
    /\ lookups[c].at = "connect"
    /\ made => sdpThread.at \notin {"bind", "listen", "gone"}
    /\ IF made
       THEN /\ conns' = Append(conns, [open |-> TRUE, requests |-> <<>>, answers |-> <<>>, parts |-> 0])
            /\ backlog' = IF sdpThread.at = "vendor" THEN backlog ELSE Append(backlog, Len(conns) + 1)
            /\ lookups' = [lookups EXCEPT ![c].at = "send", ![c].conn = Len(conns) + 1]
       ELSE lookups' = [lookups EXCEPT ![c].at = "idle", ![c].result = "failed"] /\ UNCHANGED <<conns, backlog>>
    /\ UNCHANGED <<sdpThread, shutting>>

Sends(c, req) ==
    /\ conns' = [conns EXCEPT ![lookups[c].conn].requests = Append(@, req)]
    /\ lookups' = [lookups EXCEPT ![c].at = "recv"]
    /\ UNCHANGED <<sdpThread, backlog, shutting>>

SendsQuery(c) ==
    /\ lookups[c].at = "send"
    /\ Sends(c, QueryOf(lookups[c].kind))

Closes(c, n, result, channel) ==
    /\ conns' = [conns EXCEPT ![n].open = FALSE, ![n].answers = <<>>]
    /\ lookups' = [lookups EXCEPT ![c].at = "idle", ![c].result = result, ![c].channel = channel]
    /\ UNCHANGED <<sdpThread, backlog, shutting>>

\* SO_RCVTIMEO, 10 s.
QueryTimesOut(c) ==
    /\ lookups[c].at = "recv" /\ conns[lookups[c].conn].answers = <<>>
    /\ Closes(c, lookups[c].conn, "failed", 0)

\* ExtractRfcommChannel() over the attributes of the records: the channels, in order.
RfcommStacks(value) ==
    SelectSeq(ReadItems(value), LAMBDA s : /\ Len(s.items) > 1 /\ s.items[1] = DeUuid16(Rfcomm)
                                           /\ s.items[2].type = "uint" /\ s.items[2].size = 2)
ProtocolsOf(record) == {i \in 2 .. Len(record.items) : i % 2 = 0 /\ record.items[i - 1] = DeUint16(4)}
ChannelsOf(record) ==
    {RfcommStacks(record.items[i])[1].items[2].value : i \in {j \in ProtocolsOf(record) : RfcommStacks(record.items[j]) # <<>>}}
WithChannel(list) == SelectSeq(ReadItems(list), LAMBDA r : ChannelsOf(r) # {})

\* The first record with an RFCOMM channel decides; for PBAP the last.
ChannelIn(kind, list) ==
    LET records == WithChannel(list)
    IN  IF records = <<>> THEN 0
        ELSE CHOOSE ch \in ChannelsOf(records[IF kind = "pbap" THEN Len(records) ELSE 1]) : TRUE

\* What a query makes of an answer.
Finding(kind, rsp) ==
    IF rsp.pdu # "search_attr_rsp" \/ (rsp.cut /\ kind # "services") THEN [result |-> "failed", channel |-> 0]
    ELSE IF kind = "services" THEN [result |-> IF rsp.more THEN "more" ELSE "found", channel |-> 0]
    ELSE [result |-> IF WithChannel(rsp.list) # <<>> THEN "found" ELSE "not_found", channel |-> ChannelIn(kind, rsp.list)]

Findings ==
    [kind \in DOMAIN Sought |-> [by \in {"here"} \cup DOMAIN VendorLists |->
        Finding(kind, Content([by |-> by, req |-> QueryOf(kind)]))]]

QueryReceives(c) ==
    /\ lookups[c].at = "recv" /\ conns[lookups[c].conn].answers # <<>>
    /\ LET n == lookups[c].conn
           f == Findings[lookups[c].kind][Head(conns[n].answers).by]
       IN  IF f.result = "more"
           THEN /\ conns' = [conns EXCEPT ![n].answers = Tail(@)]
                /\ lookups' = [lookups EXCEPT ![c].at = "send"]
                /\ UNCHANGED <<sdpThread, backlog, shutting>>
           ELSE Closes(c, n, f.result, f.channel)

----------------------------------------------------------------------------
\* Another vendor's client: it searches, asks for the attributes of what it has
\* found, makes mistakes, and keeps the connection as long as it likes.

VendorSearches(c) ==
    /\ lookups[c].at = "send"
    /\ Sends(c, Request("search", lookups[c].pattern, 0, "none"))

VendorBlunders(c) ==
    /\ lookups[c].at = "send"
    /\ \E req \in {Request("search", <<>>, 0, "none"), Request("unknown", <<>>, 0, "none"), Request("attr", <<>>, 1, "none")}
                    \cup {Request("search_attr", <<>>, 0, f) : f \in {"short", "length", "syntax"}} : Sends(c, req)

VendorReads(c) ==
    /\ lookups[c].at = "recv"
    /\ LET n == lookups[c].conn
           rsp == Content(Head(conns[n].answers))
           Elements2 == FlattenSeq([i \in DOMAIN rsp.list.items |-> rsp.list.items[i].items])
           Elements3 == FlattenSeq([i \in DOMAIN Elements2 |-> Elements2[i].items])
       IN  /\ conns[n].answers # <<>>
           /\ CASE rsp.pdu = "search_rsp" /\ rsp.handles # <<>> ->
                     \E h \in ToSet(rsp.handles) :
                         /\ conns' = [conns EXCEPT ![n].answers = Tail(@), ![n].requests = Append(@, Request("attr", <<>>, h, "none"))]
                         /\ UNCHANGED <<lookups, sdpThread, backlog, shutting>>
                [] rsp.pdu = "attr_rsp" ->
                     /\ conns' = [conns EXCEPT ![n].open = FALSE, ![n].answers = <<>>]
                     /\ lookups' = [lookups EXCEPT ![c].at = "idle", ![c].result = "found",
                            ![c].uuids = {e.value : e \in {x \in ToSet(Elements2 \o Elements3) : x.type = "uuid"}}]
                     /\ UNCHANGED <<sdpThread, backlog, shutting>>
                [] OTHER -> Closes(c, n, "failed", 0)

VendorLeaves(c) ==
    /\ lookups[c].at \in {"send", "recv"}
    /\ Closes(c, lookups[c].conn, "failed", 0)

VendorAnswers(n) ==
    /\ sdpThread.at = "vendor" /\ n \in DOMAIN conns /\ conns[n].requests # <<>>
    /\ \E by \in DOMAIN VendorLists :
           /\ by = "part" => conns[n].parts = 0
           /\ conns' = [conns EXCEPT ![n].requests = Tail(@), ![n].parts = 1,
                  ![n].answers = IF conns[n].open THEN Append(@, [by |-> by, req |-> Head(conns[n].requests)]) ELSE @]
    /\ UNCHANGED <<sdpThread, backlog, lookups, shutting>>

----------------------------------------------------------------------------
\* at: where the thread begins, "bind", or "vendor" when the server is another's;
\* or "off", when no service is looked up at all.
SdpInit(at) ==
    /\ sdpThread = [at |-> at, failed |-> 0, serves |-> 0]
    /\ backlog = <<>> /\ conns = <<>>
    /\ lookups = [c \in SdpClients |-> NoLookup]
    /\ shutting = FALSE

ThreadNext ==
    \/ \E made \in BOOLEAN : ThreadBinds(made) \/ ThreadListens(made)
    \/ ThreadChecks \/ ThreadAccepts \/ ThreadServes

QueryNext(c) ==
    \/ \E made \in BOOLEAN : QueryConnects(c, made)
    \/ SendsQuery(c) \/ QueryReceives(c) \/ QueryTimesOut(c)

VendorNext(c) ==
    \/ \E made \in BOOLEAN : QueryConnects(c, made)
    \/ VendorSearches(c) \/ VendorBlunders(c) \/ VendorReads(c) \/ VendorLeaves(c)

SdpNext ==
    \/ ThreadNext \/ AcceptFails \/ QuitRequested
    \/ \E c \in Programs : QueryNext(c) \/ \E kind \in DOMAIN Sought : StartQuery(c, kind, <<>>)
    \/ \E c \in Vendors : VendorNext(c) \/ (sdpThread.at # "vendor" /\ \E p \in Patterns : StartQuery(c, "search", p))
    \/ \E n \in DOMAIN conns : VendorAnswers(n)

SdpFairness == WF_sdpVars(ThreadNext) /\ \A c \in Programs : WF_sdpVars(QueryNext(c))

----------------------------------------------------------------------------
SdpTypeOK ==
    /\ sdpThread.at \in {"bind", "listen", "check", "accept", "recv", "gone", "vendor", "off"}
    /\ sdpThread.failed \in 0 .. Retries /\ sdpThread.serves \in 0 .. Len(conns)
    /\ \A i \in DOMAIN backlog : backlog[i] \in DOMAIN conns
    /\ \A c \in SdpClients : lookups[c].at \in {"idle", "connect", "send", "recv"} /\ lookups[c].conn \in 0 .. Len(conns)

\* SdpServer and the clients' queries: the UUIDs that a record is found by are
\* all in the record that is sent for it, and a program that looks up a service
\* of this stack, when an answer comes in time, finds the RFCOMM channel that
\* this service has, and none where there is no such service.
LookupIsRight ==
    \A c \in SdpClients : LET q == lookups[c] IN q.at = "idle" /\ sdpThread.at # "vendor" =>
        /\ q.uuids # {} => ToSet(ParseUuidList(q.pattern)) \subseteq q.uuids
        /\ q.kind \in DOMAIN Registered => q.result # "not_found"
        /\ q.result = "found" /\ q.kind \in DOMAIN Registered => q.channel = Registered[q.kind]
        /\ q.kind = "pbap" => q.result # "found"

\* "Content must be <=255 bytes" (SdpServer.cpp:80): no sequence in an answer is
\* longer than its header can tell.
ContentFits == \A n \in DOMAIN conns : \A i \in DOMAIN conns[n].answers :
    LET rsp == Content(conns[n].answers[i]) IN rsp.pdu = "search_attr_rsp" => SizeOf(rsp.list.items) <= 255

\* "stop the SDP server thread" (BluetoothServer.cpp:103): QuitRequested(), which
\* waits for the thread after it has set fIsShuttingDown, returns.
ThreadStops == shutting ~> (sdpThread.at = "gone")
=============================================================================
