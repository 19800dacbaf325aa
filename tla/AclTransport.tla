---------------------------- MODULE AclTransport ----------------------------
(***************************************************************************)
(* The way of a packet from PostACL() on one host to L2CAP on another:     *)
(* fragmentation into ACL frames, the controllers, the USB callbacks of    *)
(* h2generic, the port BluetoothRXPort and its thread, the assembly of     *)
(* frames from USB transfers (Assemble) and of packets from frames         *)
(* (AclAssembly), with the table of connections that the events maintain   *)
(* and the life of the receiving device, from open() to close().           *)
(*                                                                         *)
(* Data is counted in units: a frame is a header unit and one unit per     *)
(* piece of payload.  A transfer may end between units, inside a header or  *)
(* inside an event.  Allocations succeed.  What is sent before or after    *)
(* the receiving device is up does not reach it and is left out.           *)
(***************************************************************************)
EXTENDS Integers, Sequences, FiniteSets, SequencesExt

CONSTANTS
    Handles,      \* connection handles
    Senders,      \* threads that call PostACL() on the sending host
    Plans,        \* who sends on which handle packets of which lengths
                  \* (L2CAP header included), in which order
    Mtu,          \* bluetooth_device::mtu (1021)
    PortDepth,    \* MAX_MESSAGE_DEEP of BluetoothRXPort (24)
    MaxTransfer,  \* units that one USB transfer carries at most
    MaxHeld,      \* units a controller takes before it holds the sender back
    MaxGen,       \* bound: connections made, under each plan
    MaxUpsets,    \* bound: frames and transfers refused, transfers failed,
                  \* connections that fail
    MaxCuts       \* bound: transfers that end inside a header or an event, under each plan

ASSUME LinkAssumption ==
    /\ IsFiniteSet(Handles) /\ IsFiniteSet(Senders)
    /\ \A p \in Plans : p \in [Senders -> [link : Handles, packets : Seq(Nat \ {0})]]
ASSUME SizeAssumption ==
    /\ Mtu \in Nat \ {0} /\ PortDepth \in Nat \ {0} /\ MaxTransfer \in Nat \ {0} /\ MaxHeld \in Nat \ {0}
ASSUME BoundAssumption == MaxUpsets \in Nat /\ MaxGen \in [Plans -> Nat] /\ MaxCuts \in [Plans -> Nat]

VARIABLES
    plan,       \* the plan that is followed; it never changes
    sender,     \* where each sender stands in PostACL()
    link,       \* the links, as the controllers know them
    source,     \* what the receiving controller holds for each endpoint
    transfer,   \* transfers queued on each endpoint of the receiving driver
    deaf,       \* endpoints on which a transfer was not queued again
    cuts,       \* how many transfers ended inside a header or an event
    callback,   \* the endpoint whose callback the USB thread runs, if any
    driver,     \* how far open() and close() of the receiving device got
    port,       \* BluetoothRXPort
    rx,         \* the thread of that port, with the message it has taken
    device,     \* the bluetooth_device of the receiving host, if registered
    conns,      \* sConnectionList of the receiving host
    delivered,  \* packets given to L2CAP, per handle
    upsets      \* how often something went wrong

usbVars == <<transfer, deaf, cuts, callback>>
rxVars == <<port, rx, device, conns, delivered>>
vars == <<plan, sender, link, source, usbVars, driver, rxVars, upsets>>

Pipes == {"event", "acl"}    \* intr_in_ep and bulk_in_ep

----------------------------------------------------------------------------
\* Packets, frames and units

Parts(packet) == (packet.total + Mtu - 1) \div Mtu

Handle(frame) == plan[frame.packet.from].link

IsStart(frame) == frame.part = 1

\* alen of the frame's header.
Alen(frame) ==
    LET rest == frame.packet.total - (frame.part - 1) * Mtu
    IN  IF rest > Mtu THEN Mtu ELSE rest

Units(frame) == [i \in 1 .. Alen(frame) + 1 |-> [frame |-> frame, at |-> i - 1]]

----------------------------------------------------------------------------
\* Sending

Packet(s) == [from |-> s, n |-> sender[s].n, total |-> plan[s].packets[sender[s].n]]

Busy(s) == sender[s].n > 0 /\ sender[s].sent < Parts(Packet(s))

\* Only links that someone sends on matter.
Used(h) == \E s \in Senders : plan[s].link = h /\ plan[s].packets # <<>>

PostACL(s) ==
    /\ driver = "up" /\ ~Busy(s) /\ sender[s].n < Len(plan[s].packets)
    /\ link[plan[s].link].up
    /\ sender' = [sender EXCEPT ![s] = [n |-> @.n + 1, sent |-> 0]]
    /\ UNCHANGED <<plan, link, source, usbVars, driver, rxVars, upsets>>

\* A round of the loop: hooks->SendACL().  The result is not looked at, so a
\* frame that the driver refuses is lost and the loop goes on.  What goes out
\* for a link that is down, the controller discards.
SendFrame(s) ==
    LET l == link[plan[s].link]
        frame == [packet |-> Packet(s), part |-> sender[s].sent + 1, gen |-> l.gen]
    IN  /\ driver = "up" /\ Busy(s) /\ Len(source.acl) < MaxHeld
        /\ sender' = [sender EXCEPT ![s].sent = @ + 1]
        /\ \/ /\ source' = IF l.up THEN [source EXCEPT !.acl = @ \o Units(frame)]
                                   ELSE source
              /\ UNCHANGED upsets
           \/ /\ upsets < MaxUpsets
              /\ upsets' = upsets + 1
              /\ UNCHANGED source
        /\ UNCHANGED <<plan, link, usbVars, driver, rxVars>>

----------------------------------------------------------------------------
\* Links and their events

Announce(h, type) == source' = [source EXCEPT !.event = Append(@, [type |-> type, handle |-> h])]

Made == Max({link[h].gen : h \in Handles})

LinkUp(h) ==
    /\ driver = "up" /\ Used(h) /\ ~link[h].up /\ Made < MaxGen[plan]
    /\ link' = [link EXCEPT ![h] = [up |-> TRUE, gen |-> Made + 1]]
    /\ Announce(h, "CONN_COMPLETE")
    /\ UNCHANGED <<plan, sender, usbVars, driver, rxVars, upsets>>

\* CONN_COMPLETE with an error.
LinkFails(h) ==
    /\ driver = "up" /\ Used(h) /\ ~link[h].up /\ upsets < MaxUpsets
    /\ upsets' = upsets + 1
    /\ Announce(h, "CONN_COMPLETE")
    /\ UNCHANGED <<plan, sender, link, usbVars, driver, rxVars>>

LinkDown(h) ==
    /\ driver = "up" /\ link[h].up
    /\ link' = [link EXCEPT ![h].up = FALSE]
    /\ Announce(h, "DISCONNECTION_COMPLETE")
    /\ UNCHANGED <<plan, sender, usbVars, driver, rxVars, upsets>>

----------------------------------------------------------------------------
\* The receiving driver

NoCallback == [pipe |-> "none"]

\* While the port is full write_port() waits, and with it the USB thread.
\* (CanCompleteUnbounded is faulty.)
CanCompleteUnbounded(p) == callback = NoCallback /\ transfer[p] /\ source[p] # <<>>

CanComplete(p) ==
    callback = NoCallback /\ transfer[p] /\ source[p] # <<>> /\ Len(port) < PortDepth

\* The first k units of a pipe, and if cut the first bytes of a header.
Transferred(p, k, cut) == [pipe |-> p, data |-> SubSeq(source[p], 1, k), cut |-> cut]

\* The message goes to the end of the queue.  (Overtakes is faulty.)
Overtakes(p, k, cut) == port' = <<Transferred(p, k, cut)>> \o port

PostTransportPacket(p, k, cut) == port' = Append(port, Transferred(p, k, cut))

\* A transfer of k units.
Fits(p, k) == k > 0 /\ source' = [source EXCEPT ![p] = SubSeq(@, k + 1, Len(@))]

\* A transfer that ends inside the header after k units.  The rest of the header
\* comes with the next.
CutsHeader(p, k) ==
    /\ k < Len(source[p]) /\ k < MaxTransfer /\ cuts < MaxCuts[plan]
    /\ cuts' = cuts + 1
    /\ p = "acl" => source[p][k + 1].at = 0
    /\ source' = [source EXCEPT ![p] = SubSeq(@, k + 1, Len(@))]

\* A transfer that ends inside an event, behind its header.  Assemble() collects
\* the event but hands PostEvent() the bytes that came last, so that the rest
\* is taken for an event of any kind.
TearsEvent(p, k) ==
    /\ p = "event" /\ k < Len(source[p]) /\ k < MaxTransfer /\ cuts < MaxCuts[plan]
    /\ cuts' = cuts + 1
    /\ \E type \in {"CONN_COMPLETE", "DISCONNECTION_COMPLETE", "other"}, h \in Handles :
        source' = [source EXCEPT ![p] = <<[type |-> type, handle |-> h]>> \o SubSeq(@, k + 2, Len(@))]

\* The USB thread finds a transfer completed and calls event_complete() or
\* acl_rx_complete(), which calls PostTransportPacket().
Completed(p) ==
    /\ CanComplete(p)
    /\ \E k \in 0 .. Len(source[p]), cut \in BOOLEAN :
        /\ k <= MaxTransfer
        /\ PostTransportPacket(p, k, cut)
        /\ \/ ~cut /\ Fits(p, k) /\ UNCHANGED cuts
           \/ cut /\ CutsHeader(p, k)
           \/ ~cut /\ TearsEvent(p, k)
    /\ transfer' = [transfer EXCEPT ![p] = FALSE]
    /\ callback' = [pipe |-> p]
    /\ UNCHANGED <<plan, sender, link, deaf, driver, rx, device, conns, delivered, upsets>>

Abandoned(p) == UNCHANGED <<callback, deaf>>

\* The callback of a transfer that failed queues it again, unless the error is
\* B_DEV_CRC_ERROR.  (Abandoned is faulty: it never does.)
Reported(p) ==
    \/ callback' = [pipe |-> p] /\ UNCHANGED deaf
    \/ deaf' = [deaf EXCEPT ![p] = TRUE] /\ UNCHANGED callback

\* A transfer ends in an error and carries nothing.
Failed(p) ==
    /\ driver = "up" /\ callback = NoCallback /\ transfer[p] /\ upsets < MaxUpsets
    /\ upsets' = upsets + 1
    /\ transfer' = [transfer EXCEPT ![p] = FALSE]
    /\ Reported(p)
    /\ UNCHANGED <<cuts, plan, sender, link, source, driver, rxVars>>

\* The end of the callback: queue_interrupt() or queue_bulk() for the next.
Resubmit ==
    /\ callback # NoCallback
    /\ callback' = NoCallback
    /\ \/ transfer' = [transfer EXCEPT ![callback.pipe] = TRUE] /\ UNCHANGED <<deaf, upsets>>
       \/ /\ upsets < MaxUpsets
          /\ upsets' = upsets + 1
          /\ deaf' = [deaf EXCEPT ![callback.pipe] = TRUE]
          /\ UNCHANGED transfer
    /\ UNCHANGED <<cuts, plan, sender, link, source, driver, rxVars>>

NoDevice == [registered |-> FALSE, buffer |-> <<>>, expected |-> 0]

\* device_open() with RegisterDriver().
Open ==
    /\ driver = "closed"
    /\ driver' = "open"
    /\ device' = [NoDevice EXCEPT !.registered = TRUE]
    /\ UNCHANGED <<plan, sender, link, source, usbVars, port, rx, conns, delivered, upsets>>

\* The ioctl BT_UP: submit_rx_event(), then submit_rx_acl().  When the first is
\* refused the second is not tried.
BtUp ==
    /\ driver = "open"
    /\ driver' = "up"
    /\ \/ transfer' = [p \in Pipes |-> TRUE] /\ UNCHANGED <<deaf, upsets>>
       \/ /\ upsets < MaxUpsets
          /\ upsets' = upsets + 1
          /\ \E refused \in {Pipes, {"acl"}} :
                /\ deaf' = [p \in Pipes |-> p \in refused]
                /\ transfer' = [p \in Pipes |-> p \notin refused]
    /\ UNCHANGED <<plan, sender, link, source, cuts, callback, rxVars>>

\* device_close() up to the cancelling of the transfers.  A callback that runs
\* is not stopped.
CloseCancel ==
    /\ driver \in {"open", "up"}
    /\ driver' = "closing"
    /\ transfer' = [p \in Pipes |-> FALSE]
    /\ UNCHANGED <<plan, sender, link, source, deaf, cuts, callback, rxVars, upsets>>

\* The rest of it, with UnregisterDriver().
CloseUnregister ==
    /\ driver = "closing"
    /\ driver' = "gone"
    /\ device' = NoDevice
    /\ UNCHANGED <<plan, sender, link, source, usbVars, port, rx, conns, delivered, upsets>>

----------------------------------------------------------------------------
\* The thread of BluetoothRXPort

NoMessage == [pipe |-> "acl", data |-> <<>>, cut |-> FALSE]

Unlisted == [listed |-> FALSE, current |-> <<>>, expected |-> 0]

\* AddConnection() leaves currentRxPacket of a listed connection as it is.
AddConnection(conn) == [conn EXCEPT !.listed = TRUE]

\* A start drops the incomplete packet.
Current(conn, frame) == IF IsStart(frame) THEN <<frame>> ELSE Append(conn.current, frame)

\* (StillMissing is faulty: a start keeps the length that was missing.)
StillMissing(conn, frame) ==
    (IF conn.expected = 0 THEN frame.packet.total ELSE conn.expected) - Alen(frame)

Missing(conn, frame) ==
    (IF IsStart(frame) THEN frame.packet.total ELSE conn.expected) - Alen(frame)

\* What the current packet of a connection becomes with one more frame, the
\* length that is then missing, and the packet that is complete with it.
Grown(conn, frame) ==
    LET current == Current(conn, frame)
        missing == Missing(conn, frame)
    IN  [conn |-> IF missing > 0 THEN [conn EXCEPT !.current = current, !.expected = missing]
                                 ELSE [conn EXCEPT !.current = <<>>, !.expected = 0],
         packet |-> IF missing = 0 THEN current ELSE <<>>]

\* A fragment without a start is dropped.
Assembled(conn, frame) ==
    IF conn.current = <<>> /\ ~IsStart(frame) THEN [conn |-> conn, packet |-> <<>>]
                                              ELSE Grown(conn, frame)

\* conns and delivered are threaded through the handlers of one message.
AclAssembly(state, frame) ==
    LET h == Handle(frame)
        result == Assembled(AddConnection(state.conns[h]), frame)
    IN  [state EXCEPT !.conns[h] = result.conn,
                      !.delivered[h] = IF result.packet = <<>> THEN @ ELSE Append(@, result.packet)]

\* PostEvent(): a connection is added whatever the status of the event.
PostEvent(state, event) ==
    [state EXCEPT !.conns[event.handle] =
        CASE event.type = "CONN_COMPLETE" -> AddConnection(@)
          [] event.type = "DISCONNECTION_COMPLETE" -> Unlisted
          [] OTHER -> @]

\* A new buffer begins with the header of a frame, which tells its length.
ExpectedPacketSize(frame) == 1 + Alen(frame)

\* The loop of Assemble() for ACL data, unit by unit.
AssembleUnit(state, unit) ==
    LET expected == IF state.buffer = <<>> THEN ExpectedPacketSize(unit.frame) ELSE state.expected
        buffer == Append(state.buffer, unit)
    IN  IF Len(buffer) < expected
        THEN [state EXCEPT !.buffer = buffer, !.expected = expected]
        ELSE AclAssembly([state EXCEPT !.buffer = <<>>, !.expected = 0], buffer[1].frame)

\* One element of a message: a unit of ACL data or an event.
Handled(pipe, state, item) ==
    IF pipe = "acl" THEN AssembleUnit(state, item) ELSE PostEvent(state, item)

Assemble(message) ==
    LET start == [buffer |-> device.buffer, expected |-> device.expected,
                  conns |-> conns, delivered |-> delivered]
        after[k \in 0 .. Len(message.data)] ==
            IF k = 0 THEN start ELSE Handled(message.pipe, after[k - 1], message.data[k])
    IN  after[Len(message.data)]

\* threadFunction() takes a message, and HciPacketHandler() finds its device.
\* When there is none it returns B_ERROR, and that ends the thread.
TakeMessage ==
    /\ rx.state = "waiting" /\ port # <<>>
    /\ port' = Tail(port)
    /\ rx' = IF device.registered THEN [state |-> "assembling", message |-> Head(port)]
                                  ELSE [state |-> "ended", message |-> NoMessage]
    /\ UNCHANGED <<plan, sender, link, source, usbVars, driver, device, conns, delivered, upsets>>

\* Assemble() runs with the pointer that was found.  With less than a header left
\* it panics and returns EILSEQ, which ends the thread.  When the device has
\* been deleted since, it is used after that, and the model follows it no
\* further.
HandleMessage ==
    /\ rx.state = "assembling"
    /\ IF device.registered
       THEN LET result == Assemble(rx.message)
            IN  /\ rx' = [state |-> IF rx.message.cut THEN "ended" ELSE "waiting",
                          message |-> NoMessage]
                /\ device' = [device EXCEPT !.buffer = result.buffer, !.expected = result.expected]
                /\ conns' = result.conns
                /\ delivered' = result.delivered
       ELSE /\ rx' = [state |-> "astray", message |-> NoMessage]
            /\ UNCHANGED <<device, conns, delivered>>
    /\ UNCHANGED <<plan, sender, link, source, usbVars, driver, port, upsets>>

----------------------------------------------------------------------------

Init ==
    /\ plan \in Plans
    /\ sender = [s \in Senders |-> [n |-> 0, sent |-> 0]]
    /\ link = [h \in Handles |-> [up |-> FALSE, gen |-> 0]]
    /\ source = [p \in Pipes |-> <<>>]
    /\ transfer = [p \in Pipes |-> FALSE]
    /\ deaf = [p \in Pipes |-> FALSE]
    /\ cuts = 0
    /\ callback = NoCallback
    /\ driver = "closed"
    /\ port = <<>>
    /\ rx = [state |-> "waiting", message |-> NoMessage]
    /\ device = NoDevice
    /\ conns = [h \in Handles |-> Unlisted]
    /\ delivered = [h \in Handles |-> <<>>]
    /\ upsets = 0

Sending == \E s \in Senders : PostACL(s) \/ SendFrame(s)

Links == \E h \in Handles : LinkUp(h) \/ LinkFails(h) \/ LinkDown(h)

Callbacks ==
    \/ \E p \in Pipes : Completed(p) \/ Failed(p)
    \/ Resubmit

Server == Open \/ BtUp \/ CloseCancel \/ CloseUnregister

Receiver == TakeMessage \/ HandleMessage

Next == Sending \/ Links \/ Callbacks \/ Server \/ Receiver

Spec == Init /\ [][Next]_vars

----------------------------------------------------------------------------
\* Properties

Frames == [packet : [from : Senders, n : Nat, total : Nat], part : Nat, gen : 0 .. MaxGen[plan]]

\* Every variable keeps its shape; the port never holds more than its depth.
TypeOK ==
    /\ plan \in Plans
    /\ sender \in [Senders -> [n : Nat, sent : Nat]]
    /\ link \in [Handles -> [up : BOOLEAN, gen : 0 .. MaxGen[plan]]]
    /\ DOMAIN source = Pipes
    /\ transfer \in [Pipes -> BOOLEAN] /\ deaf \in [Pipes -> BOOLEAN]
    /\ callback.pipe \in Pipes \cup {"none"}
    /\ driver \in {"closed", "open", "up", "closing", "gone"}
    /\ Len(port) <= PortDepth
    /\ rx.state \in {"waiting", "assembling", "ended", "astray"}
    /\ device.registered \in BOOLEAN /\ device.expected \in Nat
    /\ \A h \in Handles :
        /\ conns[h].listed \in BOOLEAN /\ conns[h].expected \in Nat
        /\ ToSet(conns[h].current) \subseteq Frames
        /\ \A i \in DOMAIN delivered[h] : ToSet(delivered[h][i]) \subseteq Frames
    /\ upsets \in 0 .. MaxUpsets /\ cuts \in 0 .. MaxCuts[plan]

\* What the frames carry together.
Filled(frames) ==
    LET filled[k \in 0 .. Len(frames)] ==
            IF k = 0 THEN 0 ELSE filled[k - 1] + Alen(frames[k])
    IN  filled[Len(frames)]

SoleSender(h) == Cardinality({s \in Senders : plan[s].link = h /\ plan[s].packets # <<>>}) = 1

OneConnection(frames) == \A i \in DOMAIN frames : frames[i].gen = frames[1].gen

Whole(frames) ==
    /\ Len(frames) = Parts(frames[1].packet)
    /\ \A i \in DOMAIN frames : frames[i].packet = frames[1].packet /\ frames[i].part = i

\* Assemble() cuts the stream of transfers where the frames end, wherever the
\* transfers end: what it holds is the beginning of one frame, and it knows the
\* frame's length.  A transfer that ends inside a header ends the thread, with
\* nothing held and nothing wrong handed on.
FramesAreCutRight ==
    device.buffer # <<>> =>
        LET frame == device.buffer[1].frame
        IN  /\ device.expected = Alen(frame) + 1
            /\ Len(device.buffer) < device.expected
            /\ device.buffer = SubSeq(Units(frame), 1, Len(device.buffer))

\* AclAssembly() never delivers more or less than a packet announces, even when
\* frames are missing or those of two packets interleave: what it holds begins
\* with a start, and currentRxExpectedLength is what is missing.
LengthsAgree ==
    \A h \in Handles :
        /\ conns[h].current # <<>> =>
            /\ IsStart(conns[h].current[1])
            /\ conns[h].expected > 0
            /\ Filled(conns[h].current) + conns[h].expected = conns[h].current[1].packet.total
        /\ \A i \in DOMAIN delivered[h] :
            LET frames == delivered[h][i]
            IN  IsStart(frames[1]) /\ Filled(frames) = frames[1].packet.total

\* Both levels of assembly know what they hold and what is missing.
AssemblyIsRight == FramesAreCutRight /\ LengthsAgree

\* On a link with one sending thread, a packet that L2CAP gets is one that was
\* sent, whole, although PostACL() goes on after a frame that the driver
\* refused.  Two refused frames are the exception (the end of one packet and
\* the start of the next), and so are frames of two connections with the same
\* handle: the record of the first can outlive it.
SoleSenderIsWhole ==
    upsets <= 1 => \A h \in Handles : SoleSender(h) =>
        \A i \in DOMAIN delivered[h] : OneConnection(delivered[h][i]) => Whole(delivered[h][i])

\* On such a link packets arrive in the order they were sent, each once.
DeliveredInOrder ==
    \A h \in Handles : SoleSender(h) =>
        \A i, j \in DOMAIN delivered[h] :
            i < j => delivered[h][i][1].packet.n < delivered[h][j][1].packet.n

\* On a link with one sending thread, L2CAP gets packets that were sent, whole and
\* in the order PostACL() took them, with the exceptions above.
SoleSenderIsServed == SoleSenderIsWhole /\ DeliveredInOrder

\* While the device is up, each endpoint has a transfer queued or a callback
\* that will queue it, unless it went deaf: a refused resubmission or a
\* B_DEV_CRC_ERROR.
PipesArmed ==
    driver = "up" => \A p \in Pipes :
        deaf[p] \/ transfer[p] \/ callback.pipe = p
=============================================================================
