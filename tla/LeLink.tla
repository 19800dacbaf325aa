------------------------------- MODULE LeLink -------------------------------
(***************************************************************************)
(* One LE connection of the kernel: the GATT and SMP ioctls, the ATT       *)
(* channel with its one slot for an answer, the GATT client's discovery    *)
(* loops, the SMP state machine, LE signaling, and the thread of           *)
(* BluetoothRXPort that runs the receiving side of them all.               *)
(*                                                                         *)
(* The driver gives up its lock around an ioctl of this family, so several *)
(* callers are inside at the same time.  Attribute handles are 16 bit      *)
(* numbers; Top stands for 0xFFFF.  Keys and nonces are abstracted to what *)
(* the checks on them tell apart.  The connection stays up, and PostACL()  *)
(* and allocations succeed.                                                *)
(***************************************************************************)
EXTENDS Integers, Sequences, FiniteSets, SequencesExt

CONSTANTS
    Callers,     \* threads that may be inside an ioctl
    Plans,       \* what happens: who calls, which calls, [op, from, to, key], and
                 \* as bounds the number of calls and of what the peer sends
    Top,         \* the largest attribute handle (0xFFFF)
    Services,    \* the peer's services: a sequence of [first, last]
    Chars,       \* handles of its characteristic declarations, ascending
    Descriptors, \* its descriptors: a sequence of [handle, ccc]
    MaxFound,    \* BT_GATT_MAX_SERVICES, BT_GATT_MAX_CHARS
    PerAnswer,   \* entries the peer puts into one answer
    Bits,        \* passkey bits that are checked (20)
    MaxQueue     \* bound: messages the peer lets wait when it speaks unasked

ASSUME LeAssumption ==
    /\ Top \in Nat /\ MaxFound \in Nat /\ PerAnswer \in Nat \ {0} /\ Bits \in Nat \ {0}
    /\ MaxQueue \in Nat
    /\ \A p \in Plans : p.callers \subseteq Callers /\ p.number \in Nat /\ p.limit \in [{"unasked", "smp"} -> Nat]

VARIABLES
    plan,      \* the plan that is followed; it never changes
    caller,    \* where each caller stands
    att,       \* the AttChannel, once it exists
    smp,       \* the SmpManager, once it exists
    rxPort,        \* the RX thread
    toServer,    \* ATT requests and write commands on their way to the peer
    told,      \* the last other PDU that the host has sent
    fromServer,    \* what the peer has sent
    calls,     \* ioctls issued
    chatter,   \* unasked messages and SMP commands of the peer
    disturbed, \* has a wait timed out, did callers overlap, did an error response
               \* come while nobody waited, or an answer between two stores?
    asked,     \* was a passkey given for the pairing that is going on?
    proved     \* the passkey bits that were verified under the present keys

linkVars == <<toServer, told, fromServer, chatter>>
leVars == <<plan, caller, att, smp, rxPort, linkVars, calls, disturbed, asked, proved>>

None == "none"
NoPdu == [kind |-> None, op |-> None, items |-> <<>>, good |-> FALSE]
\* (NoWrap is faulty: it counts beyond 16 bits.)
NoWrap(h) == h + 1
NextHandle(h) == (h + 1) % (Top + 1)
Take(s, n) == SubSeq(s, 1, IF n < Len(s) THEN n ELSE Len(s))

----------------------------------------------------------------------------
\* The peer.  It answers requests in the order they come, and truthfully.

Entries(op, from, to) ==
    CASE op = "services" -> SelectSeq(Services, LAMBDA s : s.first >= from /\ s.first <= to)
      [] op = "chars"    -> SelectSeq(Chars, LAMBDA h : h >= from /\ h <= to)
      [] op = "descs"    -> SelectSeq(Descriptors, LAMBDA d : d.handle >= from /\ d.handle <= to)
      [] op = "read"     -> SelectSeq(Chars, LAMBDA h : h = from)
      [] OTHER           -> <<Top>>

\* An error response answers what finds nothing, and handle 0.
AnswerTo(req) ==
    LET found == Take(Entries(req.op, req.from, req.to), PerAnswer)
        error == found = <<>> \/ req.from = 0
    IN  [kind |-> "att", op |-> IF error THEN "error" ELSE req.op, items |-> IF error THEN <<>> ELSE found]

PeerAnswers ==
    /\ toServer # <<>>
    /\ toServer' = Tail(toServer)
    /\ fromServer' = IF Head(toServer).op = "write_cmd" THEN fromServer ELSE Append(fromServer, AnswerTo(Head(toServer)))
    /\ UNCHANGED <<told, caller, att, smp, rxPort, calls, chatter, disturbed, asked, proved>>

Unasked ==
    [kind : {"att"}, op : {"ntf", "ind", "request"}, items : {<<>>}]
      \cup [kind : {"le_signal"}, op : {"param_req", "param_rsp", "unknown"}]

SmpCommands ==
    [kind : {"smp"}, op : {"rsp", "public_key", "random", "dhkey_check"}, good : BOOLEAN]
      \cup [kind : {"smp"}, op : {"confirm"}, good : {0, 1}]
      \cup [kind : {"smp"}, op : {"failed", "unknown"}, good : {TRUE}]

PeerSends(pdu, of) ==
    /\ chatter[of] < plan.limit[of] /\ Len(fromServer) < MaxQueue
    /\ chatter' = [chatter EXCEPT ![of] = @ + 1]
    /\ fromServer' = Append(fromServer, pdu)
    /\ UNCHANGED <<told, caller, att, smp, rxPort, toServer, calls, disturbed, asked, proved>>

----------------------------------------------------------------------------
\* HandleLeGattIoctl() and the procedures it runs

Idle == [pc |-> "idle", call |-> [op |-> None], at |-> 0, found |-> <<>>, status |-> None, got |-> NoPdu]

NoAtt == [exists |-> FALSE, expected |-> None, length |-> 0, buffer |-> NoPdu, sem |-> 0, mtu |-> "default"]
NoSmp == [exists |-> FALSE, state |-> "IDLE", bit |-> 0, key |-> 0, confirm |-> 0, sem |-> 0]

\* The first PDU of a procedure, or none: the loops test their condition before.
FirstStep(call) ==
    CASE call.op \in {"chars", "descs"} -> IF call.from <= call.to THEN "send" ELSE "done"
      [] call.op = "pair" -> "pair"
      [] call.op = "nc"   -> "nc"
      [] OTHER            -> "send"

SmpOps == {"pair", "nc"}

\* ConnectionByHandle(), EnsureAttChannel() and, to pair, EnsureSmpManager().
HandleLeGattIoctl(t, call) ==
    /\ caller[t].pc = "idle" /\ t \in plan.callers /\ calls < plan.number
    /\ calls' = calls + 1
    /\ att' = [att EXCEPT !.exists = TRUE]
    /\ smp' = [smp EXCEPT !.exists = @ \/ call.op = "pair"]
    /\ LET refused == call.op = "nc" /\ ~smp.exists
       IN  caller' = [caller EXCEPT ![t] = [Idle EXCEPT
               !.pc = IF refused THEN "done" ELSE FirstStep(call), !.call = call,
               !.at = call.from, !.status = IF refused THEN "not_allowed" ELSE "ok"]]
    /\ disturbed' = (disturbed \/ \E u \in Callers : caller[u].pc # "idle" /\ caller[u].call.op \notin SmpOps)
    /\ UNCHANGED <<rxPort, linkVars, asked, proved>>

\* _SendPdu().  A write command has no answer to wait for.
SendPdu(t) ==
    /\ caller[t].pc = "send"
    /\ toServer' = Append(toServer, [op |-> caller[t].call.op, from |-> caller[t].at, to |-> caller[t].call.to])
    /\ caller' = [caller EXCEPT ![t].pc = IF caller[t].call.op = "write_cmd" THEN "done" ELSE "sent"]
    /\ UNCHANGED <<att, smp, rxPort, told, fromServer, chatter, calls, disturbed, asked, proved>>

\* _WaitForResponse() up to its acquire_sem_etc(): two stores without a lock.  An
\* answer that comes between them loses its length.
WaitForResponse(t) ==
    /\ caller[t].pc = "sent"
    /\ att' = [att EXCEPT !.expected = caller[t].call.op]
    /\ caller' = [caller EXCEPT ![t].pc = "expecting"]
    /\ UNCHANGED <<smp, rxPort, linkVars, calls, disturbed, asked, proved>>

ClearLength(t) ==
    /\ caller[t].pc = "expecting"
    /\ att' = [att EXCEPT !.length = 0]
    /\ caller' = [caller EXCEPT ![t].pc = "waiting"]
    /\ UNCHANGED <<smp, rxPort, linkVars, calls, disturbed, asked, proved>>

Acquire(t) ==
    /\ caller[t].pc = "waiting" /\ att.sem > 0
    /\ att' = [att EXCEPT !.sem = @ - 1]
    /\ caller' = [caller EXCEPT ![t].pc = "woken"]
    /\ UNCHANGED <<smp, rxPort, linkVars, calls, disturbed, asked, proved>>

\* The rest of _WaitForResponse(): the slot is copied by its present length;
\* with none, the caller's own buffer stays as it was on the stack.
CopyResponse(t) ==
    /\ caller[t].pc = "woken"
    /\ att' = [att EXCEPT !.expected = None]
    /\ caller' = [caller EXCEPT ![t].pc = "answered", ![t].got = IF att.length = 0 THEN NoPdu ELSE att.buffer]
    /\ UNCHANGED <<smp, rxPort, linkVars, calls, disturbed, asked, proved>>

\* After 30 s.  The discovery loops end without an error of their own.
TimedOut(t) ==
    /\ caller[t].pc = "waiting" /\ att.sem = 0
    /\ att' = [att EXCEPT !.expected = None]
    /\ caller' = [caller EXCEPT ![t].pc = "done",
           ![t].status = IF caller[t].call.op \in {"services", "chars", "descs"} THEN "ok" ELSE "timed_out"]
    /\ disturbed' = TRUE
    /\ UNCHANGED <<smp, rxPort, linkVars, calls, asked, proved>>

\* What one answer adds to the list, and the handle to go on from.
ServicesStep(c) ==
    LET room  == Take(c.got.items, MaxFound - Len(c.found))
        ended == SelectInSeq(room, LAMBDA s : NextHandle(s.last) = 0)
        new   == IF ended = 0 THEN room ELSE Take(room, ended)
    IN  [found |-> c.found \o new, at |-> NextHandle(Last(new).last)]

\* (CharsAgain is faulty: it goes on from the characteristic it has.)
CharsAgain(c) ==
    LET new == Take(c.got.items, MaxFound - Len(c.found))
    IN  [found |-> c.found \o new, at |-> Last(new)]

CharsStep(c) ==
    LET new == Take(c.got.items, MaxFound - Len(c.found))
    IN  [found |-> c.found \o new, at |-> NextHandle(Last(new))]

\* (DescsStuck is faulty: it asks again from the same handle.)
DescsStuck(c) ==
    LET ccc == SelectInSeq(c.got.items, LAMBDA d : d.ccc)
    IN  [found |-> IF ccc # 0 THEN <<c.got.items[ccc].handle>> ELSE <<>>, at |-> c.at]

DescsStep(c) ==
    LET ccc == SelectInSeq(c.got.items, LAMBDA d : d.ccc)
    IN  IF ccc # 0 THEN [found |-> <<c.got.items[ccc].handle>>, at |-> c.at]
        ELSE [found |-> <<>>, at |-> NextHandle(Last(c.got.items).handle)]

Progress(c) ==
    CASE c.call.op = "services" -> ServicesStep(c)
      [] c.call.op = "chars"    -> CharsStep(c)
      [] c.call.op = "descs"    -> DescsStep(c)
      [] OTHER                  -> [found |-> c.got.items, at |-> c.at]

\* Does the loop of the procedure go round once more?
GoesOn(op, p, to) ==
    CASE op = "services" -> p.at # 0 /\ Len(p.found) < MaxFound
      [] op = "chars"    -> p.at <= to /\ Len(p.found) < MaxFound
      [] op = "descs"    -> p.found = <<>> /\ p.at <= to
      [] OTHER           -> FALSE

\* The caller looks at a proper answer to its request.
UseAnswer(t) ==
    LET c == caller[t]
        p == Progress(c)
    IN  /\ c.pc = "answered" /\ c.got.op = c.call.op
        /\ caller' = [caller EXCEPT ![t].found = p.found, ![t].at = p.at, ![t].got = NoPdu,
               ![t].pc = IF GoesOn(c.call.op, p, c.call.to) THEN "send" ELSE "done"]
        /\ att' = IF c.call.op = "mtu" THEN [att EXCEPT !.mtu = "agreed"] ELSE att
        /\ UNCHANGED <<smp, rxPort, linkVars, calls, disturbed, asked, proved>>

\* It is something else: a loop ends with what it has; a read or write tells
\* errors only.  Of an answer of length 0 the first byte is not defined, and a
\* read makes 65535 bytes of it.
UseOther(t) ==
    LET c == caller[t]
    IN  /\ c.pc = "answered" /\ c.got.op # c.call.op
        /\ \E taken \in IF c.got.op # None THEN {c.got.op # "error"} ELSE BOOLEAN :
               caller' = [caller EXCEPT ![t].pc = "done", ![t].got = NoPdu,
                   ![t].status = IF c.call.op \in {"services", "chars", "descs"} THEN "ok"
                                 ELSE IF c.call.op = "mtu" THEN "error"
                                 ELSE IF taken THEN "ok" ELSE "error",
                   ![t].found = IF c.call.op = "read" /\ taken THEN <<"garbage">> ELSE @]
        /\ UNCHANGED <<att, smp, rxPort, linkVars, calls, disturbed, asked, proved>>

\* The ioctl returns.
Return(t) ==
    /\ caller[t].pc = "done"
    /\ caller' = [caller EXCEPT ![t] = Idle]
    /\ UNCHANGED <<att, smp, rxPort, linkVars, calls, disturbed, asked, proved>>

----------------------------------------------------------------------------
\* SmpManager, as the ioctls use it

InitiatePairing(t) ==
    /\ caller[t].pc = "pair"
    /\ smp' = [smp EXCEPT !.state = "WAIT_RSP"]
    /\ told' = "pairing_req"
    /\ caller' = [caller EXCEPT ![t].pc = IF caller[t].call.key = -1 THEN "done" ELSE "key"]
    /\ asked' = FALSE
    /\ UNCHANGED <<att, rxPort, toServer, fromServer, chatter, calls, disturbed, proved>>

SetPasskey(t) ==
    /\ caller[t].pc = "key"
    /\ smp' = [smp EXCEPT !.key = caller[t].call.key, !.sem = @ + 1]
    /\ caller' = [caller EXCEPT ![t].pc = "done"]
    /\ asked' = TRUE
    /\ UNCHANGED <<att, rxPort, linkVars, calls, disturbed, proved>>

SetNumericComparisonResult(t) ==
    /\ caller[t].pc = "nc"
    /\ smp' = [smp EXCEPT !.sem = @ + 1]
    /\ caller' = [caller EXCEPT ![t].pc = "done"]
    /\ UNCHANGED <<att, rxPort, linkVars, calls, disturbed, asked, proved>>

----------------------------------------------------------------------------
\* The RX thread: PostToUpper() and below

RxIdle == [state |-> "idle", pdu |-> NoPdu]

Next1 == Head(fromServer)

\* The next PDU is taken from the port; cond is about it.
RxTakes(kind) == rxPort.state = "idle" /\ fromServer # <<>> /\ Next1.kind = kind /\ fromServer' = Tail(fromServer)

\* Without an AttChannel or SmpManager the packet goes the way of L2CAP, whose
\* callbacks nobody sets: it is dropped.
RxDrops ==
    /\ \/ RxTakes("att") /\ ~att.exists
       \/ RxTakes("smp") /\ ~smp.exists
       \/ RxTakes("le_signal") /\ Next1.op = "param_rsp"
    /\ UNCHANGED <<caller, att, smp, rxPort, toServer, told, chatter, calls, disturbed, asked, proved>>

\* l2cap_handle_le_signaling_command()
RxLeSignal ==
    /\ RxTakes("le_signal") /\ Next1.op # "param_rsp"
    /\ told' = IF Next1.op = "param_req" THEN "accepted" ELSE "reject"
    /\ UNCHANGED <<caller, att, smp, rxPort, toServer, chatter, calls, disturbed, asked, proved>>

\* No notification callback is ever set; an indication is confirmed.
RxNotification ==
    /\ RxTakes("att") /\ att.exists /\ Next1.op \in {"ntf", "ind"}
    /\ told' = IF Next1.op = "ind" THEN "confirm" ELSE told
    /\ UNCHANGED <<caller, att, smp, rxPort, toServer, chatter, calls, disturbed, asked, proved>>

IsResponse(op, expected) == op = expected \/ op = "error"

RxResponse ==
    /\ RxTakes("att") /\ att.exists /\ Next1.op \notin {"ntf", "ind"}
    /\ rxPort' = IF IsResponse(Next1.op, att.expected) THEN [state |-> "response", pdu |-> Next1] ELSE rxPort
    /\ disturbed' = (disturbed \/ (Next1.op = "error" /\ att.expected = None))
    /\ UNCHANGED <<caller, att, smp, toServer, told, chatter, calls, asked, proved>>

RxRelease ==
    /\ rxPort.state = "response"
    /\ att' = [att EXCEPT !.buffer = rxPort.pdu, !.length = 1, !.sem = @ + 1]
    /\ rxPort' = RxIdle
    /\ disturbed' = (disturbed \/ \E t \in Callers : caller[t].pc = "expecting")
    /\ UNCHANGED <<caller, smp, linkVars, calls, asked, proved>>

\* An SMP command whose handler has found the state it needs; what it does with
\* it is a step of its own, for an ioctl may change the state meanwhile.
Awaited == [rsp |-> "WAIT_RSP", public_key |-> "WAIT_PUBLIC_KEY", confirm |-> "WAIT_CONFIRM",
           random |-> "WAIT_RANDOM", dhkey_check |-> "WAIT_DHKEY_CHECK"]

InState(op) == op \in DOMAIN Awaited /\ smp.state = Awaited[op]

\* _SendPairingFailed(), and _HandlePairingFailed(), which sends nothing.
RxSmpRefused ==
    /\ RxTakes("smp") /\ smp.exists /\ ~InState(Next1.op)
    /\ smp' = [smp EXCEPT !.state = "FAILED"]
    /\ told' = IF Next1.op = "failed" THEN told ELSE "pairing_failed"
    /\ UNCHANGED <<caller, att, rxPort, toServer, chatter, calls, disturbed, asked, proved>>

RxSmpTaken ==
    /\ RxTakes("smp") /\ smp.exists /\ InState(Next1.op)
    /\ rxPort' = [state |-> "smp", pdu |-> Next1]
    /\ UNCHANGED <<caller, att, smp, toServer, told, chatter, calls, disturbed, asked, proved>>

\* The handler of op runs on.
Running(op) == rxPort.state = "smp" /\ rxPort.pdu.op = op

\* It leaves state s, sends reply and returns.
Leaves(s, reply) ==
    /\ smp' = s
    /\ told' = IF reply = None THEN told ELSE reply
    /\ rxPort' = RxIdle
    /\ UNCHANGED <<caller, att, toServer, fromServer, chatter, calls, disturbed, asked>>

PairingFails == Leaves([smp EXCEPT !.state = "FAILED"], "pairing_failed") /\ UNCHANGED proved

\* A peer without Secure Connections fails the pairing; so does a public key
\* that is not on the curve.
HandlePairingRsp ==
    /\ Running("rsp")
    /\ \/ ~rxPort.pdu.good /\ PairingFails
       \/ /\ rxPort.pdu.good
          /\ Leaves([smp EXCEPT !.state = "WAIT_PUBLIC_KEY"], "public_key")
          /\ proved' = {}

\* (BitKept is faulty: fPasskeyBit goes on from where the last pairing stopped.)
BitKept ==
    /\ Running("public_key")
    /\ \/ ~rxPort.pdu.good /\ PairingFails
       \/ /\ rxPort.pdu.good
          /\ rxPort' = [rxPort EXCEPT !.state = "passkey"]
          /\ proved' = {}
          /\ UNCHANGED <<caller, att, smp, linkVars, calls, disturbed, asked>>

HandlePublicKey ==
    /\ Running("public_key")
    /\ \/ ~rxPort.pdu.good /\ PairingFails
       \/ /\ rxPort.pdu.good
          /\ rxPort' = [rxPort EXCEPT !.state = "passkey"]
          /\ smp' = [smp EXCEPT !.bit = 0]
          /\ proved' = {}
          /\ UNCHANGED <<caller, att, linkVars, calls, disturbed, asked>>

\* _StartScPasskeyEntry(): the thread waits here for the user, for a minute.
PasskeyCame ==
    /\ rxPort.state = "passkey" /\ smp.sem > 0
    /\ Leaves([smp EXCEPT !.sem = @ - 1, !.state = "WAIT_CONFIRM"], "confirm")
    /\ UNCHANGED proved

PasskeyTimeout ==
    /\ rxPort.state = "passkey" /\ smp.sem = 0
    /\ PairingFails

HandlePairingConfirm ==
    /\ Running("confirm")
    /\ Leaves([smp EXCEPT !.state = "WAIT_RANDOM", !.confirm = rxPort.pdu.good], "random")
    /\ UNCHANGED proved

Bit(key, i) == (key \div 2^i) % 2

\* The random opens the commitment (good), which must be to our bit.
Verified == rxPort.pdu.good /\ smp.confirm = Bit(smp.key, smp.bit)

HandlePairingRandom ==
    /\ Running("random")
    /\ \/ ~Verified /\ PairingFails
       \/ LET more == smp.bit + 1 < Bits
          IN  /\ Verified
              /\ Leaves([smp EXCEPT !.bit = @ + 1, !.state = IF more THEN "WAIT_CONFIRM" ELSE "WAIT_DHKEY_CHECK"],
                        IF more THEN "confirm" ELSE "dhkey_check")
              /\ proved' = proved \cup {smp.bit}

HandleDhkeyCheck ==
    /\ Running("dhkey_check")
    /\ \/ ~rxPort.pdu.good /\ PairingFails
       \/ rxPort.pdu.good /\ Leaves([smp EXCEPT !.state = "PAIRED"], None) /\ UNCHANGED proved

----------------------------------------------------------------------------
LeInit(plans) ==
    /\ plan \in plans
    /\ caller = [t \in Callers |-> Idle]
    /\ att = NoAtt /\ smp = NoSmp /\ rxPort = RxIdle
    /\ toServer = <<>> /\ told = None /\ fromServer = <<>>
    /\ calls = 0 /\ chatter = [unasked |-> 0, smp |-> 0]
    /\ disturbed = FALSE /\ asked = FALSE /\ proved = {}

CallerNext(t) ==
    \/ SendPdu(t) \/ WaitForResponse(t) \/ ClearLength(t) \/ Acquire(t) \/ CopyResponse(t) \/ TimedOut(t)
    \/ UseAnswer(t) \/ UseOther(t) \/ Return(t)
    \/ InitiatePairing(t) \/ SetPasskey(t) \/ SetNumericComparisonResult(t)

LeRxNext ==
    \/ RxDrops \/ RxLeSignal \/ RxNotification \/ RxResponse \/ RxRelease
    \/ RxSmpRefused \/ RxSmpTaken
    \/ HandlePairingRsp \/ HandlePublicKey \/ PasskeyCame \/ PasskeyTimeout
    \/ HandlePairingConfirm \/ HandlePairingRandom \/ HandleDhkeyCheck

LePeerNext ==
    \/ PeerAnswers
    \/ \E pdu \in Unasked : PeerSends(pdu, "unasked")
    \/ \E pdu \in SmpCommands : PeerSends(pdu, "smp")

LeNext ==
    /\ plan' = plan
    /\ \/ \E t \in Callers : CallerNext(t) \/ \E call \in plan.calls : HandleLeGattIoctl(t, call)
       \/ LeRxNext
       \/ LePeerNext

\* Threads run, and waits with a timeout end.  Nothing is assumed of the peer.
LeFairness == WF_leVars(LeRxNext /\ UNCHANGED plan) /\ \A t \in Callers : WF_leVars(CallerNext(t) /\ UNCHANGED plan)


----------------------------------------------------------------------------
\* The caller, the channel, the pairing and the RX thread are in states that the
\* code has; the semaphores never go below 0.
LeTypeOK ==
    /\ \A t \in Callers :
           /\ caller[t].pc \in {"idle", "send", "sent", "expecting", "waiting", "woken", "answered", "done", "pair", "key", "nc"}
           /\ caller[t].at \in 0 .. Top /\ Len(caller[t].found) <= MaxFound + 1
           /\ caller[t].status \in {None, "ok", "error", "timed_out", "not_allowed"}
    /\ att.sem \in 0 .. plan.number * (Top + 2) /\ att.length \in 0 .. 1 /\ att.exists \in BOOLEAN
    /\ smp.state \in {"IDLE", "PAIRED", "FAILED"} \cup {Awaited[op] : op \in DOMAIN Awaited}
    /\ smp.bit \in 0 .. Bits /\ smp.sem \in 0 .. plan.number
    /\ rxPort.state \in {"idle", "response", "smp", "passkey"}
    /\ \A i \in DOMAIN toServer : toServer[i].from \in 0 .. Top
    /\ disturbed \in BOOLEAN /\ asked \in BOOLEAN /\ proved \subseteq 0 .. Bits - 1

\* What a GATT ioctl returns with B_OK is what the peer has: the services and
\* characteristics of the range, from the first on, without a gap or a double,
\* across all the answers that it takes and the wrap of the handles (0xFFFF + 1);
\* the descriptor of the range; the value of the attribute.  This needs that no wait
\* timed out, that no two of these calls met, that no error response came before its
\* request was waited for, and that no answer came between the two stores with which
\* waiting begins (the hazards of AttChannel.cpp tell why).
FoundIsThere ==
    disturbed \/ \A t \in Callers :
        LET c == caller[t]
        IN  c.pc = "done" /\ c.status = "ok" =>
              CASE c.call.op \in {"services", "chars"} ->
                     c.found = Take(Entries(c.call.op, c.call.from, c.call.to), MaxFound)
                [] c.call.op = "descs" ->
                     LET ccc == SelectSeq(Entries("descs", c.call.from, c.call.to), LAMBDA d : d.ccc)
                     IN  c.found = IF ccc = <<>> THEN <<>> ELSE <<Head(ccc).handle>>
                [] c.call.op = "read" -> c.found = <<c.call.from>>
                [] OTHER -> TRUE

\* PAIRED means that every bit of the passkey has been verified under the keys of
\* this pairing, whatever pairings were begun or failed before it, and however
\* the ioctls and the peer's commands met.
PairedMeansEveryBit == smp.state = "PAIRED" => proved = 0 .. Bits - 1

\* The passkey entry goes on with a passkey that was given for this pairing
\* (SmpManager.cpp:382, "Wait for the passkey to be set by the user").
PasskeyIsGiven == [][rxPort.state = "passkey" /\ smp'.state = "WAIT_CONFIRM" => asked]_leVars

=============================================================================
