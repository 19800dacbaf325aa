-------------------------------- MODULE Obex --------------------------------
(***************************************************************************)
(* ObexClient of the Bluetooth kit, as OppClient and PbapClient use it: an *)
(* object goes out in packets that are answered one by one, or comes in    *)
(* packets of which all but the first may come unasked (SRM).  The server  *)
(* is another vendor's: it may refuse, keep answers back, or close.        *)
(*                                                                         *)
(* Objects, packets and headers are counted in bytes; of an answer only    *)
(* its code, the bytes of its body and its SRM header are kept.            *)
(***************************************************************************)
EXTENDS ProfileClient

CONSTANTS
    Objects,     \* what OppClient pushes: lengths of name, type and body, in bytes
    Folder,      \* bytes of the object that PbapClient pulls
    PartSize,    \* bytes of a part that the server answers with
    BufferRoom,  \* sizeof(fSendBuf) (4096)
    RemoteMax,   \* the packet sizes that a server may tell
    FrameMax,    \* the frame size of the RFCOMM session, RfcommSession::Mtu()
    MaxTransfers \* bound: Put(), Get() and SetPath()

ASSUME ObexAssumption ==
    /\ RemoteMax \subseteq Nat /\ {Folder, PartSize, BufferRoom, FrameMax, MaxTransfers} \subseteq Nat
    /\ FrameMax <= BufferRoom /\ 127 <= BufferRoom  \* fMtu is at most RFCOMM_DEFAULT_MTU
    /\ \A o \in Objects : {o.name, o.type, o.size} \subseteq Nat

VARIABLES
    obex,    \* fConnected, fRemoteMaxPacket; are answers and requests out of step? calls made
    transfer, \* the call in hand: its object, bytes so far, SRM, and what it waits for
    wire,    \* requests to the server, answers from it
    server   \* what the server has of an object, what it still has to send

obexVars == <<profile, obex, transfer, wire, server>>

NoCall == [op |-> "none", object |-> [name |-> 0, type |-> 0, size |-> 0], sent |-> 0, final |-> FALSE, got |-> 0, srm |-> FALSE]
NoServer == [stored |-> -1, putting |-> 0, left |-> 0, srm |-> FALSE]
NewObex == [connected |-> FALSE, max |-> 255, astray |-> FALSE, calls |-> 0]
Silent == [requests |-> <<>>, answers |-> <<>>]

\* The smaller, the larger of two numbers.
Least(a, b) == IF a < b THEN a ELSE b
Most(a, b) == IF a < b THEN b ELSE a

----------------------------------------------------------------------------
\* Packets

OverL2capSocket == profile.obex = "l2cap"

\* A header is left out when it does not fit into the buffer, which is asked of
\* a length of 16 bits.
Fitting(length, room) == length % 65536 <= room
Header(length, room) == IF Fitting(length, room) THEN length ELSE 0
Plus(length, header) == length + Header(header, BufferRoom - length)

\* fSendLen after the headers of a PUT: those of the first packet name the object.
PutHeaders(object, first) ==
    LET named == Plus(IF OverL2capSocket THEN 10 ELSE 8, IF object.name = 0 THEN 0 ELSE 3 + 2 * (object.name + 1))
        typed == Plus(named, IF object.type = 0 THEN 0 ELSE 3 + object.type + 1)
    IN  IF first THEN Plus(typed, 5) ELSE 8

\* chunkLen: maxBody is a size_t, and a packet that the headers fill has room for
\* everything.
Chunk(left, headers) == IF headers + 3 > obex.max THEN left ELSE Least(left, obex.max - headers - 3)

\* The next packet: the bytes it is meant to carry, whether it is the last one,
\* and the bytes that _AppendHeaderBytes() takes.
PacketOf(object, sent, first) ==
    LET headers == PutHeaders(object, first)
        chunk == Chunk(object.size - sent, headers)
    IN  [chunk |-> chunk, final |-> chunk = object.size - sent,
         carried |-> IF Fitting(3 + chunk, BufferRoom - headers) THEN chunk ELSE 0]

Answer(code) == [code |-> code, n |-> 0, srm |-> FALSE, max |-> 0]
Puts(final, n) == [op |-> IF final THEN "put_final" ELSE "put", n |-> n, first |-> FALSE, srm |-> FALSE]
Asking(op, first, srm) == [op |-> op, n |-> 0, first |-> first, srm |-> srm]

\* _SendAndReceive(): the request goes out, and the call waits for 60 seconds.
SendsRequest(request) == wire' = [wire EXCEPT !.requests = Append(@, request)]

Ends(result, stray) ==
    /\ profile' = [profile EXCEPT !.result = result, !.at = "idle"]
    /\ obex' = [obex EXCEPT !.astray = @ \/ stray]

----------------------------------------------------------------------------
\* The calls of OppClient and PbapClient

Calls(kind) ==
    /\ profile.kind = kind /\ profile.at = "idle" /\ obex.connected /\ obex.calls < MaxTransfers
    /\ profile' = [profile EXCEPT !.at = "wait"]
    /\ obex' = [obex EXCEPT !.calls = @ + 1]
    /\ UNCHANGED server

SendsPacket(object, sent, first) ==
    LET p == PacketOf(object, sent, first)
    IN  /\ transfer' = [NoCall EXCEPT !.op = "put", !.object = object, !.sent = sent + p.chunk, !.final = p.final]
        /\ SendsRequest(Puts(p.final, p.carried))

\* PushFile(), which refuses an empty file, and PushData().
Push(object) ==
    /\ Calls("opp")
    /\ SendsPacket(object, 0, TRUE)

\* PullPhoneBook(), PullvCardListing(), GetPhoneBookSize().
Pull ==
    /\ Calls("pbap")
    /\ transfer' = [NoCall EXCEPT !.op = "get"]
    /\ SendsRequest(Asking("get", TRUE, OverL2capSocket))

SetPath ==
    /\ Calls("pbap")
    /\ transfer' = [NoCall EXCEPT !.op = "setpath"]
    /\ SendsRequest(Asking("setpath", TRUE, FALSE))

\* ObexClient::Connect()
ObexConnects ==
    /\ profile.at = "obex"
    /\ obex' = NewObex /\ server' = NoServer
    /\ transfer' = [NoCall EXCEPT !.op = "connect"]
    /\ wire' = [Silent EXCEPT !.requests = <<Asking("connect", TRUE, FALSE)>>]
    /\ profile' = [profile EXCEPT !.at = "wait"]

----------------------------------------------------------------------------
\* Answers

Waits(op) == profile.at = "wait" /\ transfer.op = op
Heard == wire.answers # <<>>
Rsp == Head(wire.answers)
Reads == wire' = [wire EXCEPT !.answers = Tail(@)]

\* ObexClient::Connect() has failed: its ObexClient is deleted, with the transport.
NoObex(result) == profile' = WithoutObex(result) /\ obex' = NewObex /\ wire' = Silent /\ server' = NoServer

\* The transport is asked in vain: 60 s, an error, or a length that no packet has.
Unanswered ==
    /\ profile.at = "wait"
    /\ Heard => Rsp.code = "bad"
    /\ IF transfer.op = "connect" THEN NoObex("failed")
       ELSE /\ wire' = IF Heard THEN [wire EXCEPT !.answers = Tail(@)] ELSE wire
            /\ Ends(IF Heard THEN "error" ELSE "failed", TRUE)
            /\ UNCHANGED server
    /\ transfer' = NoCall

\* Over RFCOMM a packet is no longer than a frame.
ConnectAnswered ==
    /\ Waits("connect") /\ Heard /\ Rsp.code # "bad"
    /\ LET largest == Most(Rsp.max, 255)
       IN  IF Rsp.code = "success"
           THEN /\ profile' = [profile EXCEPT !.at = "idle", !.result = "ok"]
                /\ obex' = [NewObex EXCEPT !.connected = TRUE, !.max = IF OverL2capSocket THEN largest ELSE Least(largest, Most(FrameMax, 127))]
                /\ Reads /\ UNCHANGED server
           ELSE NoObex("not_allowed")
    /\ transfer' = NoCall

PutRefused == CASE Rsp.code = "forbidden" -> "not_allowed" [] Rsp.code = "unsupported" -> "bad_type" [] OTHER -> "error"

\* (AnyAnswer is faulty: the code of an answer in the middle is not looked at.)
AnyAnswer ==
    /\ Waits("put") /\ Heard /\ Rsp.code # "bad"
    /\ IF ~transfer.final
       THEN LET p == PacketOf(transfer.object, transfer.sent, FALSE)
            IN  /\ transfer' = [transfer EXCEPT !.sent = @ + p.chunk, !.final = p.final]
                /\ wire' = [answers |-> Tail(wire.answers), requests |-> Append(wire.requests, Puts(p.final, p.carried))]
                /\ UNCHANGED <<profile, obex>>
       ELSE Ends(IF transfer.final /\ Rsp.code = "success" THEN "ok" ELSE PutRefused, FALSE) /\ Reads /\ UNCHANGED transfer
    /\ UNCHANGED server
PutAnswered ==
    /\ Waits("put") /\ Heard /\ Rsp.code # "bad"
    /\ IF ~transfer.final /\ Rsp.code = "continue"
       THEN LET p == PacketOf(transfer.object, transfer.sent, FALSE)
            IN  /\ transfer' = [transfer EXCEPT !.sent = @ + p.chunk, !.final = p.final]
                /\ wire' = [answers |-> Tail(wire.answers), requests |-> Append(wire.requests, Puts(p.final, p.carried))]
                /\ UNCHANGED <<profile, obex>>
       ELSE Ends(IF transfer.final /\ Rsp.code = "success" THEN "ok" ELSE PutRefused, FALSE) /\ Reads /\ UNCHANGED transfer
    /\ UNCHANGED server

GetAnswered ==
    /\ Waits("get") /\ Heard /\ Rsp.code # "bad"
    /\ LET c == [transfer EXCEPT !.got = @ + Rsp.n, !.srm = @ \/ Rsp.srm]
       IN  /\ transfer' = c
           /\ IF Rsp.code = "continue"
              THEN /\ wire' = [answers |-> Tail(wire.answers),
                               requests |-> IF c.srm THEN wire.requests ELSE Append(wire.requests, Asking("get", FALSE, FALSE))]
                   /\ UNCHANGED <<profile, obex>>
              ELSE Ends(IF Rsp.code = "success" THEN "ok" ELSE "error", FALSE) /\ Reads
    /\ UNCHANGED server

SetPathAnswered ==
    /\ Waits("setpath") /\ Heard /\ Rsp.code # "bad" /\ Reads
    /\ Ends(IF Rsp.code = "success" THEN "ok" ELSE "not_allowed", FALSE)
    /\ UNCHANGED <<transfer, server>>

\* Disconnect() of a client: the DISCONNECT is sent, nobody waits for an answer.
Disconnects ==
    /\ profile.kind \notin {"none", "hfp"} /\ profile.at = "idle" /\ profile # Disconnected
    /\ profile' = Disconnected
    /\ obex' = NewObex /\ transfer' = NoCall /\ wire' = Silent /\ server' = NoServer

----------------------------------------------------------------------------
\* The server

Says(request, answer) == wire' = [requests |-> Tail(wire.requests), answers |-> Append(wire.answers, answer)]

Part(left) == Least(left, PartSize)
GetPart(left, srm) == [Answer(IF left <= PartSize THEN "success" ELSE "continue") EXCEPT !.n = Part(left), !.srm = srm]

Serves ==
    /\ wire.requests # <<>>
    /\ LET r == Head(wire.requests)
           left == IF r.first THEN Folder ELSE server.left
       IN  CASE r.op = "connect" -> \E m \in RemoteMax : Says(r, [Answer("success") EXCEPT !.max = m]) /\ UNCHANGED server
             [] r.op = "put" -> Says(r, Answer("continue")) /\ server' = [server EXCEPT !.putting = @ + r.n]
             [] r.op = "put_final" ->
                    Says(r, Answer("success")) /\ server' = [server EXCEPT !.putting = 0, !.stored = server.putting + r.n]
             [] r.op = "get" -> \E srm \in {FALSE, r.srm} :
                    /\ Says(r, GetPart(left, srm))
                    /\ server' = [server EXCEPT !.left = left - Part(left), !.srm = (r.first /\ srm) \/ (~r.first /\ @)]
             [] r.op = "setpath" -> Says(r, Answer("success")) /\ UNCHANGED server
    /\ UNCHANGED <<profile, obex, transfer>>

\* A refusal, which drops what the server has of an object, or a broken packet.
Refuses ==
    /\ wire.requests # <<>>
    /\ \E code \in {"forbidden", "unsupported", "refused", "bad"} : Says(Head(wire.requests), Answer(code))
    /\ server' = [server EXCEPT !.putting = 0, !.left = 0, !.srm = FALSE]
    /\ UNCHANGED <<profile, obex, transfer>>

\* Single response mode: the parts come unasked, until the last one or an error.
SendsUnasked ==
    /\ server.srm /\ server.left > 0
    /\ \/ /\ wire' = [wire EXCEPT !.answers = Append(@, GetPart(server.left, FALSE))]
          /\ server' = [server EXCEPT !.left = @ - Part(server.left)]
       \/ /\ wire' = [wire EXCEPT !.answers = Append(@, Answer("refused"))]
          /\ server' = [server EXCEPT !.left = 0]
    /\ UNCHANGED <<profile, obex, transfer>>

----------------------------------------------------------------------------
ObexInit(kind) ==
    /\ profile = NewClient(kind)
    /\ obex = NewObex /\ transfer = NoCall /\ wire = Silent /\ server = NoServer

DialSteps == (LinkNext \/ TransportNext) /\ UNCHANGED <<obex, transfer, wire, server>>
AnswerNext == Unanswered \/ ConnectAnswered \/ PutAnswered \/ GetAnswered \/ SetPathAnswered
CallNext == DialSteps \/ ObexConnects \/ AnswerNext
ServerNext == Serves \/ Refuses \/ SendsUnasked
ProfileUserNext == (DialNext /\ UNCHANGED <<obex, transfer, wire, server>>) \/ (\E o \in Objects : Push(o)) \/ Pull \/ SetPath \/ Disconnects

ObexNext == CallNext \/ ServerNext \/ ProfileUserNext
ObexFairness == WF_obexVars(CallNext)

----------------------------------------------------------------------------
ObexTypeOK ==
    /\ ProfileTypeOK
    /\ obex.max \in 127 .. 65535 /\ obex.connected => profile.obex # "none"
    /\ transfer.sent <= transfer.object.size
    /\ server.left <= Folder
    /\ server.stored >= -1

\* The first packet of such an object is full of headers, and the body that is
\* put after them all the same is more than the buffer takes.  (What the code does
\* then is undefined when the length, cut to 16 bits, seems to fit.)
Swallowed(object) ==
    LET headers == PutHeaders(object, TRUE) IN headers + 3 > obex.max /\ headers + 3 + object.size > BufferRoom

\* ObexClient: B_OK of Put() means that the server has stored every byte, once
\* and in order, and B_OK of Get() that every byte of the object has come, with
\* and without single response mode, over both transports, whatever packet size
\* the server has told; as long as no call has given up on an answer, and for
\* objects whose headers leave room in a packet or whose body fits without.
TransferIsWhole ==
    profile.at = "idle" /\ profile.result = "ok" /\ obex.connected /\ ~obex.astray =>
        /\ transfer.op = "put" /\ ~Swallowed(transfer.object) => server.stored = transfer.object.size
        /\ transfer.op = "get" => transfer.got = Folder
=============================================================================
