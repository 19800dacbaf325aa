----------------------------- MODULE LocalDevice -----------------------------
(***************************************************************************)
(* One local device of the Bluetooth server (LocalDeviceImpl.cpp,          *)
(* LocalDeviceHandler.cpp): the requests of the kit's clients, the HCI     *)
(* commands they become, and the events of the controller that answer      *)
(* them.                                                                   *)
(*                                                                         *)
(* A request waits in a list of petitions: each names the events it        *)
(* expects and, for the first of them, the opcode they must be about.  An  *)
(* event goes to the first petition of the list that expects it, whatever  *)
(* device or connection it is about.                                       *)
(*                                                                         *)
(* Two threads work on the list, and a step of one may come between two of *)
(* the other: the server's looper adds a petition, then issues its         *)
(* command; the port listener handles the events one by one, and issues    *)
(* commands of its own.  The controller and the devices around it are      *)
(* modelled from the events and commands that the server exchanges.        *)
(***************************************************************************)
EXTENDS Integers, Sequences, FiniteSets, SequencesExt

CONSTANTS
    Devices,         \* the remote devices
    NoDevice,        \* no device
    Kinds,           \* what clients ask for: a subset of the kinds of Expected
    Paired,          \* the sets of devices that may be paired at the start
    ExtFeatures,     \* what LMP_EXT_FEAT may be in a device's features
    MaxConnections,  \* kMaxConnections (8)
    MayRefuse,       \* opcodes whose commands the controller may refuse
    MayUnplug,       \* whether the controller may be unplugged
    MaxWork          \* bound: requests of clients, and what comes from outside:
                     \* connections asked for by devices and lost, unplugging

ASSUME DeviceAssumption == IsFiniteSet(Devices) /\ NoDevice \notin Devices
ASSUME PairedAssumption == Paired \subseteq SUBSET Devices
ASSUME FlagAssumption == ExtFeatures \subseteq BOOLEAN /\ MayUnplug \in BOOLEAN
ASSUME NumberAssumption ==
    MaxConnections \in Nat \ {0} /\ MaxWork \in Nat

VARIABLES
    petitions,  \* fEventsWanted
    calls,      \* the clients' requests, in the order the looper takes them
    listener,   \* the command that the listener is about to issue, if any
    conns,      \* fConnections
    keys,       \* devices that have a link key in fKeyStore
    names,      \* devices that have a name in fKeyStore
    dialogs,    \* devices for which a NumericComparisonWindow is open
    ctrl,       \* the controller
    events,     \* events on their way to the listener
    outside     \* how often something came from outside

vars == <<petitions, calls, listener, conns, keys, names, dialogs, ctrl, events, outside>>

----------------------------------------------------------------------------
\* Petitions

\* eventExpected and opcodeExpected of each request.  The opcodes are those of
\* the first events.
Connecting ==
    [ev |-> <<"CMD_STATUS", "CMD_COMPLETE", "CMD_COMPLETE", "LINK_KEY_REQ",
              "IO_CAPABILITY_REQUEST", "USER_CONFIRMATION_REQUEST",
              "SIMPLE_PAIRING_COMPLETE", "LINK_KEY_NOTIFY", "CONN_COMPLETE">>,
     op |-> <<"CREATE_CONN", "LINK_KEY_REPLY", "LINK_KEY_NEG_REPLY">>]
Reconnecting ==
    [ev |-> <<"CMD_STATUS", "LINK_KEY_REQ", "IO_CAPABILITY_REQUEST",
              "USER_CONFIRMATION_REQUEST", "SIMPLE_PAIRING_COMPLETE",
              "LINK_KEY_NOTIFY", "AUTH_COMPLETE">>,
     op |-> <<"AUTH_REQUESTED">>]
NameAsking == [ev |-> <<"CMD_STATUS", "NAME_COMPLETE">>, op |-> <<"REMOTE_NAME_REQUEST">>]
Disconnecting == [ev |-> <<"CMD_STATUS", "DISCONNECTION_COMPLETE">>, op |-> <<"DISCONNECT">>]
Inquiring ==
    [ev |-> <<"CMD_STATUS", "INQUIRY_RESULT", "INQUIRY_COMPLETE">>, op |-> <<"INQUIRY">>]
LocalReading == [ev |-> <<"CMD_COMPLETE">>, op |-> <<"READ_LOCAL">>]
Confirming == [ev |-> <<"CMD_COMPLETE">>, op |-> <<"USER_CONFIRMATION_REPLY">>]
Denying == [ev |-> <<"CMD_COMPLETE">>, op |-> <<"USER_CONFIRMATION_NEG_REPLY">>]

Expected ==
    [Authenticate |-> Connecting, Reauthenticate |-> Reconnecting,
     GetFriendlyName |-> NameAsking, Disconnect |-> Disconnecting,
     StartInquiry |-> Inquiring, ReadLocal |-> LocalReading,
     Confirm |-> Confirming, Deny |-> Denying]

\* Those that the server makes for itself.
Accepting ==
    [ev |-> <<"CMD_STATUS", "CONN_COMPLETE", "LINK_KEY_NOTIFY", "IO_CAPABILITY_REQUEST",
              "USER_CONFIRMATION_REQUEST", "SIMPLE_PAIRING_COMPLETE">>,
     op |-> <<"ACCEPT_CONN_REQ">>]
FeatureReading == [ev |-> <<"CMD_STATUS", "RMT_FEATURES">>, op |-> <<"READ_REMOTE_FEATURES">>]
ExtFeatureReading ==
    [ev |-> <<"CMD_STATUS", "EXT_FEATURES">>, op |-> <<"READ_REMOTE_EXT_FEATURES">>]
NameReading == [ev |-> <<"CMD_STATUS", "NAME_COMPLETE">>, op |-> <<"REMOTE_NAME_REQUEST">>]
Authenticating == [ev |-> <<"CMD_STATUS">>, op |-> <<"AUTH_REQUESTED">>]
Encrypting == [ev |-> <<"CMD_STATUS", "ENCRYPT_CHANGE">>, op |-> <<"SET_CONN_ENCRYPT">>]
IoReplying == [ev |-> <<"CMD_COMPLETE">>, op |-> <<"IO_CAPABILITY_REPLY">>]
\* The one opcode that LinkKeyNotify() adds is that of its first event.
NameKeeping == [ev |-> <<"NAME_COMPLETE", "CMD_STATUS">>, op |-> <<"REMOTE_NAME_REQUEST">>]

ServerWants == {Accepting, FeatureReading, ExtFeatureReading, NameReading,
                Authenticating, Encrypting, IoReplying, NameKeeping}

\* A petition of call c (0: of the server), with what it remembers: bdaddr and
\* connHandle where it is a step of the pairing chain.
Petition(wants, c, d, h) ==
    [ev |-> wants.ev, op |-> wants.op, call |-> c, dev |-> d, handle |-> h]

\* Entries of p that an event e about opcode o satisfies.
Entries(p, e, o) ==
    {i \in DOMAIN p.ev : p.ev[i] = e /\ (i \in DOMAIN p.op => p.op[i] = o)}
Least(S) == CHOOSE i \in S : \A j \in S : i <= j

\* FindPetition(): the index of the first that expects e, 0 when none does.
FindPetition(e, o) ==
    LET fit == {k \in DOMAIN petitions : Entries(petitions[k], e, o) # {}}
    IN  IF fit = {} THEN 0 ELSE Least(fit)

\* ClearWantedEvent(msg, event, opcode), and (msg, event)
ClearOpcode(k, e, o) ==
    LET p == petitions[k]
        fit == {i \in DOMAIN p.op : p.ev[i] = e /\ p.op[i] = o}
    IN  IF fit = {} THEN petitions
        ELSE [petitions EXCEPT ![k].ev = RemoveAt(@, Least(fit)),
                               ![k].op = RemoveAt(@, Least(fit))]
ClearEvent(k, e) ==
    LET fit == {i \in DOMAIN petitions[k].ev : petitions[k].ev[i] = e}
    IN  IF fit = {} THEN petitions
        ELSE [petitions EXCEPT ![k].ev = RemoveAt(@, Least(fit))]

\* SendReply(): to a caller that waits for it.
Replied(c, res) ==
    IF c # 0 /\ calls[c].res = "none" THEN [calls EXCEPT ![c].res = res] ELSE calls

----------------------------------------------------------------------------
\* Commands and events

Handle == 1 .. Cardinality(Devices)
Command(op, d, h) == [op |-> op, dev |-> d, h |-> h]
Event(e, op, d, h, st) == [ev |-> e, op |-> op, dev |-> d, h |-> h, st |-> st]
About(e, d, st) == Event(e, "none", d, 0, st)
On(e, h, st) == Event(e, "none", NoDevice, h, st)

\* IssueCommand(): a controller that is gone answers B_DEV_NOT_READY, which is
\* not B_ERROR, and the petition stays.
IssueCommand(cmd) ==
    ctrl' = IF ctrl.on THEN [ctrl EXCEPT !.cmds = Append(@, cmd)] ELSE ctrl

----------------------------------------------------------------------------
\* The looper: HandleSimpleRequest() and ProcessSimpleRequest()

\* A request whose petition is in the list and whose command is not issued yet
Adding == {c \in DOMAIN calls : ~calls[c].issued}
Asked(kind, d, h) == [kind |-> kind, dev |-> d, handle |-> h, issued |-> FALSE, res |-> "none"]

AddWantedEvent(p) == petitions' = Append(petitions, p)

Request(kind, d, h) ==
    /\ Adding = {}
    /\ calls' = Append(calls, Asked(kind, d, h))
    /\ AddWantedEvent(Petition(Expected[kind], Len(calls) + 1, NoDevice, 0))
    /\ UNCHANGED <<listener, conns, keys, names, ctrl, events, outside>>

ToDevice == {"Authenticate", "GetFriendlyName"}
ToHandle == {"Disconnect"}
ToController == {"StartInquiry", "ReadLocal"}
FromDialog == {"Confirm", "Deny"}

WorkLeft ==
    outside + Cardinality({c \in DOMAIN calls : calls[c].kind \notin FromDialog}) < MaxWork

ClientRequest(kind, d, h) ==
    /\ kind \in Kinds \cap (ToDevice \cup ToHandle \cup ToController)
    /\ d \in Devices <=> kind \in ToDevice
    /\ h \in Handle <=> kind \in ToHandle
    /\ Request(kind, d, h)
    /\ UNCHANGED dialogs

\* The buttons of a NumericComparisonWindow
DialogRequest(kind, d) ==
    /\ kind \in FromDialog
    /\ d \in dialogs
    /\ dialogs' = dialogs \ {d}
    /\ Request(kind, d, 0)

IssueCall(c) ==
    /\ c \in Adding
    /\ calls' = [calls EXCEPT ![c].issued = TRUE]
    /\ IssueCommand(Command(Expected[calls[c].kind].op[1], calls[c].dev, calls[c].handle))
    /\ UNCHANGED <<petitions, listener, conns, keys, names, dialogs, events, outside>>

FindHandleByAddress(d) ==
    LET fit == {i \in DOMAIN conns : conns[i].active /\ conns[i].dev = d}
    IN  IF fit = {} THEN 0 ELSE conns[Least(fit)].handle

\* Authenticate() goes on when it is told that the connection exists already.
Reauthenticate(c) ==
    /\ calls[c].kind = "Authenticate" /\ calls[c].res = "exists"
    /\ Adding = {}
    /\ LET h == FindHandleByAddress(calls[c].dev)
       IN  IF h = 0 THEN /\ calls' = [calls EXCEPT ![c].res = "fail"]
                         /\ UNCHANGED petitions
           ELSE /\ calls' = [calls EXCEPT ![c] = Asked("Reauthenticate", calls[c].dev, h)]
                /\ AddWantedEvent(Petition(Expected["Reauthenticate"], c, NoDevice, 0))
    /\ UNCHANGED <<listener, conns, keys, names, dialogs, ctrl, events, outside>>

\* The 30 seconds of Authenticate() are over; the petition stays.
GiveUp(c) ==
    /\ calls[c].kind \in {"Authenticate", "Reauthenticate"}
    /\ calls[c].issued /\ calls[c].res = "none"
    /\ calls' = [calls EXCEPT ![c].res = "gaveup"]
    /\ UNCHANGED <<petitions, listener, conns, keys, names, dialogs, ctrl, events, outside>>

----------------------------------------------------------------------------
\* The listener: HandleEvent()

\* What a handler leaves to do when it is about to issue a command: then the
\* petition req (0: none) is answered with res and cleared.
Issue(cmd, req, res) == listener' = <<[cmd |-> cmd, req |-> req, res |-> res]>>

IssueNext ==
    /\ listener # <<>>
    /\ LET todo == listener[1]
       IN  /\ IssueCommand(todo.cmd)
           /\ IF todo.req = 0 THEN UNCHANGED <<petitions, calls>>
              ELSE /\ calls' = Replied(petitions[todo.req].call, todo.res)
                   /\ petitions' = RemoveAt(petitions, todo.req)
    /\ listener' = <<>>
    /\ UNCHANGED <<conns, keys, names, dialogs, events, outside>>

\* The event e at the head, and the petition it goes to (0: none)
Take(e, k) ==
    /\ listener = <<>> /\ events # <<>>
    /\ e = Head(events)
    /\ k = FindPetition(e.ev, e.op)
    /\ events' = Tail(events)
    /\ UNCHANGED <<ctrl, outside>>

\* Mutant: the petition is cleared before its caller is answered.
ClearedFirst(k, res) ==
    /\ UNCHANGED calls
    /\ petitions' = IF k = 0 THEN petitions ELSE RemoveAt(petitions, k)

Answer(k, res) ==
    IF k = 0 THEN UNCHANGED <<petitions, calls>>
    ELSE /\ calls' = Replied(petitions[k].call, res)
         /\ petitions' = RemoveAt(petitions, k)

CommandComplete(e, k) ==
    /\ Take(e, k) /\ e.ev = "CMD_COMPLETE"
    /\ IF k # 0 /\ e.op \in {"LINK_KEY_REPLY", "LINK_KEY_NEG_REPLY"}
       THEN petitions' = ClearOpcode(k, "CMD_COMPLETE", e.op) /\ UNCHANGED calls
       ELSE Answer(k, e.st)
    /\ UNCHANGED <<listener, conns, keys, names, dialogs>>

\* Mutant: the case of CREATE_CONN forgotten
WithoutCreateConn == {"REMOTE_NAME_REQUEST", "READ_REMOTE_FEATURES",
                      "READ_REMOTE_EXT_FEATURES", "AUTH_REQUESTED", "SET_CONN_ENCRYPT"}

\* The opcodes whose failure ends their petition.  The opcode is the one of the
\* entry that matched; an entry without one reads as 0.
EndsWithStatus == {"REMOTE_NAME_REQUEST", "CREATE_CONN", "READ_REMOTE_FEATURES",
                   "READ_REMOTE_EXT_FEATURES", "AUTH_REQUESTED", "SET_CONN_ENCRYPT"}

CommandStatus(e, k) ==
    /\ Take(e, k) /\ e.ev = "CMD_STATUS"
    /\ LET hasOpcode == k # 0 /\ Least(Entries(petitions[k], e.ev, e.op)) \in DOMAIN petitions[k].op
           clears == e.op = "INQUIRY" \/ (e.op \in EndsWithStatus /\ e.st = "ok")
       IN  CASE hasOpcode /\ clears ->
                    petitions' = ClearOpcode(k, "CMD_STATUS", e.op) /\ UNCHANGED calls
             [] hasOpcode /\ e.op \in EndsWithStatus /\ e.st # "ok" -> Answer(k, e.st)
             [] OTHER -> UNCHANGED <<petitions, calls>>
    /\ UNCHANGED <<listener, conns, keys, names, dialogs>>

\* Events that answer a request and change nothing else; INQUIRY_RESULT sends a
\* reply that does not end it.
AnswerEvent(e, k) ==
    /\ Take(e, k) /\ e.ev \in {"INQUIRY_RESULT", "INQUIRY_COMPLETE", "ENCRYPT_CHANGE"}
    /\ IF e.ev = "INQUIRY_RESULT" THEN UNCHANGED <<petitions, calls>> ELSE Answer(k, e.st)
    /\ UNCHANGED <<listener, conns, keys, names, dialogs>>

\* _TrackConnection() and _UntrackConnection()
Track(h, d) ==
    LET free == {i \in DOMAIN conns : ~conns[i].active}
    IN  IF free = {} THEN conns
        ELSE [conns EXCEPT ![Least(free)] = [active |-> TRUE, handle |-> h, dev |-> d]]
\* Mutant: the slot's handle is reset, its flag is not.
StillActive(h) ==
    [i \in DOMAIN conns |-> IF conns[i].handle = h THEN [conns[i] EXCEPT !.handle = 0] ELSE conns[i]]

Untrack(h) ==
    LET fit == {i \in DOMAIN conns : conns[i].active /\ conns[i].handle = h}
    IN  IF fit = {} THEN conns ELSE [conns EXCEPT ![Least(fit)].active = FALSE]

\* Mutant: any device is accepted.
AcceptAny(e, k) ==
    /\ Take(e, k) /\ e.ev = "CONN_REQUEST"
    /\ AddWantedEvent(Petition(Accepting, 0, NoDevice, 0))
    /\ Issue(Command("ACCEPT_CONN_REQ", e.dev, 0), 0, "none")
    /\ UNCHANGED <<calls, conns, keys, names, dialogs>>

ConnectionRequest(e, k) ==
    /\ Take(e, k) /\ e.ev = "CONN_REQUEST"
    /\ IF e.dev \in keys \/ k # 0
       THEN /\ AddWantedEvent(Petition(Accepting, 0, NoDevice, 0))
            /\ Issue(Command("ACCEPT_CONN_REQ", e.dev, 0), 0, "none")
       ELSE /\ Issue(Command("REJECT_CONN_REQ", e.dev, 0), 0, "none")
            /\ UNCHANGED petitions
    /\ UNCHANGED <<calls, conns, keys, names, dialogs>>

\* Only an expected one is handled: HandleUnexpectedEvent() has no case for it.
ConnectionComplete(e, k) ==
    /\ Take(e, k) /\ e.ev = "CONN_COMPLETE"
    /\ IF k # 0 /\ e.st = "ok"
       THEN /\ conns' = Track(e.h, e.dev)
            /\ AddWantedEvent(Petition(FeatureReading, 0, e.dev, e.h))
            /\ Issue(Command("READ_REMOTE_FEATURES", NoDevice, e.h), k, "ok")
            /\ UNCHANGED calls
       ELSE Answer(k, e.st) /\ UNCHANGED <<conns, listener>>
    /\ UNCHANGED <<keys, names, dialogs>>

DisconnectionComplete(e, k) ==
    /\ Take(e, k) /\ e.ev = "DISCONNECTION_COMPLETE"
    /\ conns' = Untrack(e.h)
    /\ Answer(k, e.st)
    /\ UNCHANGED <<listener, keys, names, dialogs>>

IssueRemoteNameThenAuth(d, h, k) ==
    /\ AddWantedEvent(Petition(NameReading, 0, d, h))
    /\ Issue(Command("REMOTE_NAME_REQUEST", d, 0), k, "none")

\* Mutant: extended features that cannot be read end the chain.
ChainBroken(e, k) ==
    /\ Take(e, k) /\ e.ev = "EXT_FEATURES"
    /\ IF k = 0 THEN UNCHANGED <<petitions, listener>>
       ELSE IF e.st = "ok" THEN IssueRemoteNameThenAuth(petitions[k].dev, petitions[k].handle, k)
       ELSE petitions' = RemoveAt(petitions, k) /\ UNCHANGED listener
    /\ UNCHANGED <<calls, conns, keys, names, dialogs>>

\* RMT_FEATURES: st is "ext" when the device has extended features.
FeaturesComplete(e, k) ==
    /\ Take(e, k) /\ e.ev = "RMT_FEATURES"
    /\ IF k = 0 THEN UNCHANGED <<petitions, listener>>
       ELSE LET p == petitions[k]
            IN  IF e.st = "ext"
                THEN /\ AddWantedEvent(Petition(ExtFeatureReading, 0, p.dev, p.handle))
                     /\ Issue(Command("READ_REMOTE_EXT_FEATURES", NoDevice, p.handle), k, "none")
                ELSE IssueRemoteNameThenAuth(p.dev, p.handle, k)
    /\ UNCHANGED <<calls, conns, keys, names, dialogs>>

ExtFeaturesComplete(e, k) ==
    /\ Take(e, k) /\ e.ev = "EXT_FEATURES"
    /\ IF k = 0 THEN UNCHANGED <<petitions, listener>>
       ELSE IssueRemoteNameThenAuth(petitions[k].dev, petitions[k].handle, k)
    /\ UNCHANGED <<calls, conns, keys, names, dialogs>>

\* Mutant: SetDeviceName() makes an entry for any device.
NamedAlways(e, k) == IF k # 0 /\ e.st = "ok" THEN names \cup {e.dev} ELSE names

\* SetDeviceName(): only a device that has an entry in the store gets a name.
Named(e, k) == IF k # 0 /\ e.st = "ok" /\ e.dev \in keys THEN names \cup {e.dev} ELSE names

\* NAME_COMPLETE: a step of the pairing chain goes on to authenticate.
RemoteNameRequestComplete(e, k) ==
    /\ Take(e, k) /\ e.ev = "NAME_COMPLETE"
    /\ names' = Named(e, k)
    /\ IF k # 0 /\ petitions[k].handle # 0
       THEN /\ petitions' = Append(RemoveAt(petitions, k), Petition(Authenticating, 0, NoDevice, 0))
            /\ Issue(Command("AUTH_REQUESTED", NoDevice, petitions[k].handle), 0, "none")
            /\ UNCHANGED calls
       ELSE Answer(k, e.st) /\ UNCHANGED listener
    /\ UNCHANGED <<conns, keys, dialogs>>

AuthComplete(e, k) ==
    /\ Take(e, k) /\ e.ev = "AUTH_COMPLETE"
    /\ IF e.st = "ok"
       THEN /\ AddWantedEvent(Petition(Encrypting, 0, NoDevice, 0))
            /\ Issue(Command("SET_CONN_ENCRYPT", NoDevice, e.h), k, "ok")
            /\ UNCHANGED calls
       ELSE Answer(k, e.st) /\ UNCHANGED listener
    /\ UNCHANGED <<conns, keys, names, dialogs>>

LinkKeyRequested(e, k) ==
    /\ Take(e, k) /\ e.ev = "LINK_KEY_REQ"
    /\ LET op == IF e.dev \in keys THEN "LINK_KEY_REPLY" ELSE "LINK_KEY_NEG_REPLY"
       IN  Issue(Command(op, e.dev, 0), 0, "none")
    /\ petitions' = IF k = 0 THEN petitions ELSE ClearEvent(k, e.ev)
    /\ UNCHANGED <<calls, conns, keys, names, dialogs>>

LinkKeyNotify(e, k) ==
    /\ Take(e, k) /\ e.ev = "LINK_KEY_NOTIFY"
    /\ keys' = keys \cup {e.dev}
    /\ AddWantedEvent(Petition(NameKeeping, 0, NoDevice, 0))
    /\ Issue(Command("REMOTE_NAME_REQUEST", e.dev, 0), 0, "none")
    /\ UNCHANGED <<calls, conns, names, dialogs>>

IoCapabilityRequest(e, k) ==
    /\ Take(e, k) /\ e.ev = "IO_CAPABILITY_REQUEST"
    /\ AddWantedEvent(Petition(IoReplying, 0, NoDevice, 0))
    /\ Issue(Command("IO_CAPABILITY_REPLY", e.dev, 0), 0, "none")
    /\ UNCHANGED <<calls, conns, keys, names, dialogs>>

UserConfirmationRequest(e, k) ==
    /\ Take(e, k) /\ e.ev = "USER_CONFIRMATION_REQUEST"
    /\ dialogs' = dialogs \cup {e.dev}
    /\ UNCHANGED <<petitions, calls, listener, conns, keys, names>>

SimplePairingComplete(e, k) ==
    /\ Take(e, k) /\ e.ev = "SIMPLE_PAIRING_COMPLETE"
    /\ petitions' = IF k = 0 THEN petitions ELSE ClearEvent(k, e.ev)
    /\ UNCHANGED <<calls, listener, conns, keys, names, dialogs>>

----------------------------------------------------------------------------
\* The controller and the devices around it (not in src/)
\*
\* ctrl.cmds: the commands issued, in order.  ctrl.acts: what it is doing.
\* ctrl.link: for each device, its connection and handle, and whether an
\* authentication was asked for on it.  ctrl.on: plugged in.
\* ctrl.refused: opcodes of which it has refused a command.

NoLink == [st |-> "down", h |-> 0, asked |-> FALSE]
DevicesAt(h) == {d \in Devices : ctrl.link[d].h = h /\ ctrl.link[d].st = "up"}
DeviceAt(h) == IF h # 0 /\ DevicesAt(h) # {} THEN CHOOSE d \in DevicesAt(h) : TRUE ELSE NoDevice
FreeHandle == Least(Handle \ {ctrl.link[d].h : d \in Devices})
Act(kind, d, h) == [kind |-> kind, dev |-> d, h |-> h]
LinkActs == {"RMT_FEATURES", "EXT_FEATURES", "ENCRYPT_CHANGE"}

\* What a command with a status starts, if it is possible now
Started(cmd) ==
    CASE cmd.op = "REMOTE_NAME_REQUEST"  -> Act("NAME_COMPLETE", cmd.dev, 0)
      [] cmd.op = "INQUIRY"              -> Act("INQUIRY_COMPLETE", NoDevice, 0)
      [] cmd.op = "READ_REMOTE_FEATURES" -> Act("RMT_FEATURES", DeviceAt(cmd.h), cmd.h)
      [] cmd.op = "READ_REMOTE_EXT_FEATURES" -> Act("EXT_FEATURES", DeviceAt(cmd.h), cmd.h)
      [] cmd.op = "SET_CONN_ENCRYPT"     -> Act("ENCRYPT_CHANGE", DeviceAt(cmd.h), cmd.h)
      [] cmd.op = "AUTH_REQUESTED"       -> Act("start", DeviceAt(cmd.h), cmd.h)
AuthStages == {"start", "key", "ssp", "io", "confirm", "user", "paired", "denied", "auth"}
AuthActs(d) == {a \in ctrl.acts : a.kind \in AuthStages /\ a.dev = d}
Possible(cmd) ==
    LET a == Started(cmd)
    IN  /\ a \notin ctrl.acts
        /\ cmd.h # 0 => a.dev # NoDevice
        /\ a.kind = "start" => AuthActs(a.dev) = {}

Emit(e) == events' = Append(events, e)
Status(cmd, st) == Event("CMD_STATUS", cmd.op, NoDevice, 0, st)
Complete(cmd) == Event("CMD_COMPLETE", cmd.op, NoDevice, 0, "ok")
Hosted == <<petitions, calls, listener, conns, keys, names, dialogs>>

TakeCommand(cmd) ==
    /\ ctrl.on /\ ctrl.cmds # <<>>
    /\ cmd = Head(ctrl.cmds)
    /\ UNCHANGED <<Hosted, outside>>
Taken == [ctrl EXCEPT !.cmds = Tail(@)]
TakenOn(cmd) ==
    IF cmd.op # "AUTH_REQUESTED" \/ DeviceAt(cmd.h) = NoDevice THEN Taken
    ELSE [Taken EXCEPT !.link[DeviceAt(cmd.h)].asked = TRUE]

Refuse(cmd) ==
    /\ TakeCommand(cmd)
    /\ \/ cmd.op \in MayRefuse
       \/ cmd.op \in {"REMOTE_NAME_REQUEST", "INQUIRY", "AUTH_REQUESTED"} \cup
              {"READ_REMOTE_FEATURES", "READ_REMOTE_EXT_FEATURES", "SET_CONN_ENCRYPT"}
          /\ ~Possible(cmd)
       \/ cmd.op = "DISCONNECT" /\ DeviceAt(cmd.h) = NoDevice
    /\ ctrl' = [TakenOn(cmd) EXCEPT !.refused = @ \cup {cmd.op}]
    /\ Emit(Status(cmd, "fail"))

StartAct(cmd) ==
    /\ TakeCommand(cmd)
    /\ cmd.op \in EndsWithStatus \cup {"INQUIRY"}
    /\ cmd.op # "CREATE_CONN"
    /\ Possible(cmd)
    /\ ctrl' = [TakenOn(cmd) EXCEPT !.acts = @ \cup {Started(cmd)}]
    /\ Emit(Status(cmd, "ok"))

LinkCommand(cmd) ==
    /\ TakeCommand(cmd)
    /\ \/ /\ cmd.op = "CREATE_CONN"
          /\ IF ctrl.link[cmd.dev].st = "down"
             THEN /\ ctrl' = [Taken EXCEPT !.link[cmd.dev].st = "paging"]
                  /\ Emit(Status(cmd, "ok"))
             ELSE ctrl' = Taken /\ Emit(Status(cmd, "exists"))
       \/ /\ cmd.op \in {"ACCEPT_CONN_REQ", "REJECT_CONN_REQ"}
          /\ ctrl' = [Taken EXCEPT !.link[cmd.dev].st =
                         IF cmd.op = "ACCEPT_CONN_REQ" THEN "accepted" ELSE "rejected"]
          /\ Emit(Status(cmd, "ok"))
       \/ /\ cmd.op = "DISCONNECT" /\ DeviceAt(cmd.h) # NoDevice
          /\ ctrl' = [Taken EXCEPT !.link[DeviceAt(cmd.h)].st = "closing"]
          /\ Emit(Status(cmd, "ok"))

\* Commands that are only completed, and what they are the answer to
NextStage == [LINK_KEY_REPLY |-> "auth", LINK_KEY_NEG_REPLY |-> "ssp",
              IO_CAPABILITY_REPLY |-> "confirm", USER_CONFIRMATION_REPLY |-> "paired",
              USER_CONFIRMATION_NEG_REPLY |-> "denied", READ_LOCAL |-> "none"]
Asking == [LINK_KEY_REPLY |-> "key", LINK_KEY_NEG_REPLY |-> "key",
           IO_CAPABILITY_REPLY |-> "io", USER_CONFIRMATION_REPLY |-> "user",
           USER_CONFIRMATION_NEG_REPLY |-> "user", READ_LOCAL |-> "none"]
CompleteCommand(cmd) ==
    /\ TakeCommand(cmd)
    /\ cmd.op \in DOMAIN NextStage
    /\ ctrl' = [Taken EXCEPT !.acts =
                   {IF a.kind = Asking[cmd.op] /\ a.dev = cmd.dev
                    THEN [a EXCEPT !.kind = NextStage[cmd.op]] ELSE a : a \in @}]
    /\ Emit(Complete(cmd))

EndConnecting(d, ok) ==
    /\ ctrl.on /\ ctrl.link[d].st \in {"paging", "accepted", "rejected"}
    /\ ctrl.link[d].st = "rejected" => ~ok
    /\ ctrl' = [ctrl EXCEPT !.link[d] = IF ok THEN [NoLink EXCEPT !.st = "up", !.h = FreeHandle] ELSE NoLink]
    /\ Emit(Event("CONN_COMPLETE", "none", d, IF ok THEN FreeHandle ELSE 0,
                  IF ok THEN "ok" ELSE "fail"))
    /\ UNCHANGED <<Hosted, outside>>

Incoming(d) ==
    /\ ctrl.on /\ ctrl.link[d] = NoLink
    /\ WorkLeft
    /\ outside' = outside + 1
    /\ ctrl' = [ctrl EXCEPT !.link[d].st = "asking"]
    /\ Emit(About("CONN_REQUEST", d, "ok"))
    /\ UNCHANGED Hosted

EndLink(d) ==
    /\ ctrl.on
    /\ \/ ctrl.link[d].st = "closing" /\ UNCHANGED outside
       \/ ctrl.link[d].st = "up" /\ WorkLeft /\ outside' = outside + 1
    /\ ctrl' = [ctrl EXCEPT !.link[d] = NoLink]
    /\ Emit(On("DISCONNECTION_COMPLETE", ctrl.link[d].h, "ok"))
    /\ UNCHANGED Hosted

\* An inquiry and a name request end.
EndAct(a, st, ext) ==
    /\ ctrl.on
    /\ \/ a.kind = "INQUIRY_COMPLETE" /\ st = "ok"
       \/ a.kind = "NAME_COMPLETE" /\ st \in {"ok", "fail"}
       \/ a.kind \in LinkActs /\ st = "fail"
       \/ /\ a.kind \in LinkActs /\ DeviceAt(a.h) = a.dev
          /\ st = IF a.kind = "RMT_FEATURES" /\ ext THEN "ext" ELSE "ok"
    /\ ctrl' = [ctrl EXCEPT !.acts = @ \ {a}]
    /\ Emit(Event(a.kind, "none", a.dev, a.h, st))
    /\ UNCHANGED <<Hosted, outside>>

\* A device answers the inquiry: one result at a time is on its way.
Inquire(d) ==
    /\ ctrl.on /\ Act("INQUIRY_COMPLETE", NoDevice, 0) \in ctrl.acts
    /\ \A i \in DOMAIN events : events[i].ev # "INQUIRY_RESULT"
    /\ Emit(About("INQUIRY_RESULT", d, "ok"))
    /\ UNCHANGED <<Hosted, ctrl, outside>>

\* The steps of an authentication that ask the host
Asks == [start |-> "LINK_KEY_REQ", ssp |-> "IO_CAPABILITY_REQUEST",
         confirm |-> "USER_CONFIRMATION_REQUEST"]
AfterAsking == [start |-> "key", ssp |-> "io", confirm |-> "user"]
AskHost(a) ==
    /\ ctrl.on /\ a.kind \in DOMAIN Asks /\ DeviceAt(a.h) = a.dev
    /\ ctrl' = [ctrl EXCEPT !.acts = (@ \ {a}) \cup {[a EXCEPT !.kind = AfterAsking[a.kind]]}]
    /\ Emit(About(Asks[a.kind], a.dev, "ok"))
    /\ UNCHANGED <<Hosted, outside>>

\* It ends: with a new key, with the one it had, or with a failure at any time.
EndAuthentication(a) ==
    /\ ctrl.on /\ a.kind \in AuthStages
    /\ ctrl' = [ctrl EXCEPT !.acts = @ \ {a}]
    /\ LET done(st) == On("AUTH_COMPLETE", a.h, st)
           paired(st) == About("SIMPLE_PAIRING_COMPLETE", a.dev, st)
       IN  \/ /\ a.kind = "paired" /\ DeviceAt(a.h) = a.dev
              /\ events' = events \o <<paired("ok"), About("LINK_KEY_NOTIFY", a.dev, "ok"), done("ok")>>
           \/ /\ a.kind = "auth" /\ DeviceAt(a.h) = a.dev
              /\ Emit(done("ok"))
           \/ events' = events \o (IF a.kind \in {"user", "paired", "denied"}
                                   THEN <<paired("fail"), done("fail")>> ELSE <<done("fail")>>)
    /\ UNCHANGED <<Hosted, outside>>

Unplug ==
    /\ MayUnplug /\ ctrl.on /\ WorkLeft
    /\ outside' = outside + 1
    /\ ctrl' = [ctrl EXCEPT !.on = FALSE, !.cmds = <<>>, !.acts = {},
                            !.link = [d \in Devices |-> NoLink]]
    /\ UNCHANGED <<Hosted, events>>

----------------------------------------------------------------------------
Init ==
    /\ petitions = <<>> /\ calls = <<>> /\ listener = <<>>
    /\ conns = [i \in 1 .. MaxConnections |-> [active |-> FALSE, handle |-> 0, dev |-> NoDevice]]
    /\ keys \in Paired /\ names = {} /\ dialogs = {}
    /\ ctrl = [cmds |-> <<>>, acts |-> {}, link |-> [d \in Devices |-> NoLink],
               on |-> TRUE, refused |-> {}]
    /\ events = <<>>
    /\ outside = 0

Looper == \E c \in DOMAIN calls : IssueCall(c) \/ Reauthenticate(c)

Handle1(e, k) ==
    \/ CommandComplete(e, k) \/ CommandStatus(e, k) \/ AnswerEvent(e, k)
    \/ ConnectionRequest(e, k) \/ ConnectionComplete(e, k) \/ DisconnectionComplete(e, k)
    \/ FeaturesComplete(e, k) \/ ExtFeaturesComplete(e, k) \/ RemoteNameRequestComplete(e, k)
    \/ AuthComplete(e, k) \/ LinkKeyRequested(e, k) \/ LinkKeyNotify(e, k)
    \/ IoCapabilityRequest(e, k) \/ UserConfirmationRequest(e, k) \/ SimplePairingComplete(e, k)

Listener ==
    \/ IssueNext
    \/ events # <<>> /\ LET e == Head(events) IN Handle1(e, FindPetition(e.ev, e.op))

Controller ==
    \/ /\ ctrl.cmds # <<>>
       /\ LET cmd == Head(ctrl.cmds)
          IN  Refuse(cmd) \/ StartAct(cmd) \/ LinkCommand(cmd) \/ CompleteCommand(cmd)
    \/ \E d \in Devices : (\E ok \in BOOLEAN : EndConnecting(d, ok))
    \/ \E d \in Devices : ctrl.link[d].st = "closing" /\ EndLink(d)
    \/ \E a \in ctrl.acts :
          (\E st \in {"ok", "fail", "ext"}, ext \in ExtFeatures : EndAct(a, st, ext)) \/ AskHost(a) \/ EndAuthentication(a)

Environment ==
    \/ /\ WorkLeft
       /\ \E kind \in Kinds, d \in Devices \cup {NoDevice}, h \in {0} \cup Handle :
             ClientRequest(kind, d, h)
    \/ \E d \in dialogs, kind \in FromDialog : DialogRequest(kind, d)
    \/ \E c \in DOMAIN calls : GiveUp(c)
    \/ \E d \in Devices : Incoming(d) \/ Inquire(d) \/ (ctrl.link[d].st = "up" /\ EndLink(d))
    \/ Unplug

Next == Looper \/ Listener \/ Controller \/ Environment

Spec == Init /\ [][Next]_vars

----------------------------------------------------------------------------
\* Properties

PetitionsOf(c) == {k \in DOMAIN petitions : petitions[k].call = c}
Result == {"none", "ok", "fail", "exists", "gaveup"}

\* Types; the opcodes of a petition are those of a prefix of its events.
TypeOK ==
    /\ \A k \in DOMAIN petitions : LET p == petitions[k] IN
          /\ p.call \in {0} \cup DOMAIN calls
          /\ p.dev \in Devices \cup {NoDevice} /\ p.handle \in {0} \cup Handle
          /\ Len(p.op) <= Len(p.ev)
          /\ \E w \in ServerWants \cup {Expected[x] : x \in DOMAIN Expected} :
                ToSet(p.ev) \subseteq ToSet(w.ev) /\ ToSet(p.op) \subseteq ToSet(w.op)
    /\ \A c \in DOMAIN calls :
          /\ calls[c].kind \in DOMAIN Expected /\ calls[c].dev \in Devices \cup {NoDevice}
          /\ calls[c].handle \in {0} \cup Handle
          /\ calls[c].issued \in BOOLEAN /\ calls[c].res \in Result
    /\ Cardinality(Adding) <= 1
    /\ Len(listener) <= 1
    /\ \A i \in DOMAIN listener : listener[i].req \in {0} \cup DOMAIN petitions
    /\ conns \in [1 .. MaxConnections ->
                     [active : BOOLEAN, handle : {0} \cup Handle, dev : Devices \cup {NoDevice}]]
    /\ keys \subseteq Devices /\ names \subseteq keys /\ dialogs \subseteq Devices

\* A client is never forgotten and never answered twice: it waits exactly while
\* one petition of its request is in the list.
\* (the SendReply() and ClearWantedEvent() pairs of LocalDeviceImpl.cpp)
NoCallerForgotten ==
    \A c \in DOMAIN calls :
        /\ calls[c].res = "none" => Cardinality(PetitionsOf(c)) = 1
        /\ calls[c].res \in {"ok", "fail", "exists"} => PetitionsOf(c) = {}

\* The table of connections, in which Authenticate() looks a handle up, holds
\* none that has ended: its device is connected with that handle, or the event
\* that will remove it is on its way.
TrackedAreUp ==
    ctrl.on =>
    \A i \in DOMAIN conns : conns[i].active =>
        \/ ctrl.link[conns[i].dev].st \in {"up", "closing"}
           /\ ctrl.link[conns[i].dev].h = conns[i].handle
        \/ \E n \in DOMAIN events :
              events[n].ev = "DISCONNECTION_COMPLETE" /\ events[n].h = conns[i].handle

\* A device without a link key is connected only when a client asked for it.
LinksAreWanted ==
    \A d \in Devices : ctrl.link[d].st \in {"paging", "accepted", "up"} /\ d \notin keys =>
        \E c \in DOMAIN calls : calls[c].dev = d /\ calls[c].kind \in {"Authenticate", "Reauthenticate"}

\* Nothing is under way in the server, in the controller or between them.
Quiet ==
    /\ Adding = {} /\ listener = <<>> /\ events = <<>>
    /\ ctrl.cmds = <<>> /\ ctrl.acts = {}
    /\ \A d \in Devices : ctrl.link[d].st \in {"down", "up"}

\* The pairing chain: every connection in the table is asked to authenticate,
\* whatever the steps before answer and whichever petitions their events went
\* to, unless one of the commands of the chain was refused.
ChainGoesOn ==
    Quiet /\ ctrl.refused \cap {"READ_REMOTE_FEATURES", "READ_REMOTE_EXT_FEATURES",
                                "REMOTE_NAME_REQUEST"} = {} =>
        \A i \in DOMAIN conns : conns[i].active => ctrl.link[conns[i].dev].asked \/ ~ctrl.on

\* Every request is answered in the end, whichever petitions the events of
\* other requests went to.  Excused: a controller that is gone, a refused
\* Disconnect or Inquiry (CommandStatus() leaves their petition), and the
\* petition of LinkKeyNotify(), which takes the status of later commands.
Excused ==
    \/ ~ctrl.on
    \/ ctrl.refused \cap {"DISCONNECT", "INQUIRY"} # {}
    \/ \E k \in DOMAIN petitions : petitions[k].ev = NameKeeping.ev
CallsReturn == Quiet => \A c \in DOMAIN calls : calls[c].res # "none" \/ Excused

\* "Issue a Remote Name Request so we can persist the device name"
\* (LocalDeviceImpl.cpp:1707): the name of a device that has a key is kept when
\* it arrives.
NamePersisted ==
    [][\A d \in keys :
          events # <<>> /\ events' = Tail(events)
            /\ Head(events) = Event("NAME_COMPLETE", "none", d, 0, "ok") => d \in names']_vars
=============================================================================
