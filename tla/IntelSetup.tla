----------------------------- MODULE IntelSetup -----------------------------
(***************************************************************************)
(* How h2generic takes a dongle that the USB stack reports: the slot in    *)
(* its table and, for an Intel one, btintel_setup(), which downloads the   *)
(* firmware and reboots the chip.  device_added() does all that in the     *)
(* thread of the USB stack, so the departure of the dongle is seen later.  *)
(*                                                                         *)
(* Commands go over the control pipe and are answered on the interrupt     *)
(* pipe, pieces of firmware over the two bulk pipes.  Of a file is kept    *)
(* how long its commands are, of an answer what the driver looks at.       *)
(***************************************************************************)
EXTENDS Integers, Sequences, FiniteSets, SequencesExt

CONSTANTS
    Dongles,    \* [family, plugs, strays]: a "legacy", "tlv" or "blazar" one, or "other", which is
                \* not Intel's; how often it comes and how many events answer nothing, at most
    Disk,       \* firmware files: [boots, css2, part, commands]
    MaxDdc,     \* entries of the file with the radio's calibration, at most
    Slots,      \* MAX_BT_GENERIC_USB_DEVICES (16)
    Attempts,   \* kMaxIntelFwAttempts (3)
    Drained,    \* events that are drained at most (20)
    Skips       \* events that a command passes over (5)

ASSUME IntelAssumption ==
    /\ {Slots, Attempts, Drained, Skips} \subseteq Nat \ {0} /\ MaxDdc \in Nat
    /\ \A d \in Dongles : d.family \in {"legacy", "tlv", "blazar", "other"} /\ {d.plugs, d.strays} \subseteq Nat
    /\ \A file \in Disk : /\ file.boots \in {"iml", "op"} /\ file.part \in {"short", "header", "cut", "whole"}
                          /\ file.css2 \in BOOLEAN /\ file.commands \in Seq(Nat)

VARIABLES
    loader, \* btintel_setup(): its stage, the transfer it waits for, what it has read and loaded
    pipes,  \* queued control and bulk OUT requests, the pipe that is read, events on both
    chip,   \* the dongle: its image, the firmware it has accepted
    hub,    \* the USB stack's port, the slot of the dongle, sIntelFwAttempts
    slots   \* bt_usb_devices

dongleVars == <<loader, pipes, chip, hub, slots>>

----------------------------------------------------------------------------
\* btintel_download_firmware(): the pieces of a file

PieceSize == 252

\* btintel_secure_send()
Pieces(type, len) ==
    [i \in 1 .. (len + PieceSize - 1) \div PieceSize |->
        [type |-> type, bytes |-> IF i * PieceSize <= len THEN PieceSize ELSE len % PieceSize]]

\* Commands are gathered until they fill whole words.
Gather(sofar, len) ==
    LET fragment == sofar.rest + 3 + len
    IN  IF fragment % 4 = 0 THEN [rest |-> 0, pieces |-> sofar.pieces \o Pieces("data", fragment)]
        ELSE [sofar EXCEPT !.rest = fragment]

Gathered(commands) ==
    LET gathered[k \in 0 .. Len(commands)] ==
            IF k = 0 THEN [rest |-> 0, pieces |-> <<>>] ELSE Gather(gathered[k - 1], commands[k])
    IN  gathered[Len(commands)]

Headers(file) ==
    Pieces("css", 128) \o Pieces("key", 256) \o Pieces("sign", 256)
        \o (IF file.css2 THEN Pieces("key", 320) ELSE <<>>)

\* What is sent of a file.  A file that is cut in a command is refused when the
\* fragments before it are out; of a whole one one or two last bytes may stay.
Sent(file) ==
    IF file.part = "short" THEN <<>>
    ELSE Headers(file) \o Gathered(file.commands).pieces
            \o (IF file.part = "whole" THEN Pieces("data", Gathered(file.commands).rest) ELSE <<>>)

Nothing == [css |-> 0, key |-> 0, sign |-> 0, data |-> 0]

\* What the commands are long, with their headers.
Length(commands) ==
    LET length[k \in 0 .. Len(commands)] == IF k = 0 THEN 0 ELSE length[k - 1] + 3 + commands[k]
    IN  length[Len(commands)]

\* The bytes that a chip must have to boot a file.
Whole(file) ==
    [css |-> 128, key |-> 256 + (IF file.css2 THEN 320 ELSE 0), sign |-> 256,
     data |-> Length(file.commands)]

----------------------------------------------------------------------------
\* The stages of btintel_setup()

NoFile == [boots |-> "op", css2 |-> FALSE, part |-> "short", commands |-> <<>>]
NoLoader == [at |-> "idle", wait |-> "no", n |-> 0, skips |-> 0, image |-> "none", file |-> NoFile, pieces |-> <<>>, result |-> "none"]

Draining == {"drain", "drain again"}
IntelCommands == {"version", "params", "version again", "ddc", "mask"}

To(at) == [loader EXCEPT !.at = at, !.wait = "no", !.n = 0]
Over(result) == [loader EXCEPT !.at = "over", !.wait = "no", !.n = 0, !.result = result, !.pieces = <<>>]
Again == [loader EXCEPT !.wait = "no", !.n = @ + 1]

AfterDdc == IF chip.family = "legacy" THEN To("mask") ELSE Over("ok")

\* The first answer to Read Version; a TLV one is parsed.
VersionRead(e) ==
    IF ~e.ok THEN Over("error")
    ELSE LET next(at) == [To(at) EXCEPT !.image = e.image]
         IN  IF e.image = "op" THEN next("ddc file")
             ELSE IF chip.family = "legacy" THEN IF e.image = "bootloader" THEN next("params") ELSE Over("unsupported")
             ELSE IF e.image \in {"bootloader", "iml"} THEN next("file") ELSE Over("unsupported")

AfterReset == IF chip.family = "legacy" THEN To("drain again") ELSE Over("shutting_down")

\* Of these stages the driver does not look at the result.
Proceeds ==
    CASE loader.at = "drain" -> To("version")
      [] loader.at = "drain again" -> To("version again")
      [] loader.at = "ddc" -> IF loader.n > 1 THEN [loader EXCEPT !.wait = "no", !.n = @ - 1] ELSE AfterDdc
      [] loader.at = "mask" -> Over("ok")
      [] loader.at = "reset" -> AfterReset

\* A command has failed: it could not be sent, its answer has not come, is that of
\* another one, or tells an error.
Failed ==
    IF loader.at \in {"version", "params", "send"} THEN Over("error")
    ELSE IF loader.at = "version again" THEN IF loader.n + 1 < 3 THEN Again ELSE Over("shutting_down")
    ELSE Proceeds

Succeeded(e) ==
    CASE loader.at = "version" -> VersionRead(e)
      [] loader.at = "params" -> To("file")
      [] loader.at = "version again" -> IF e.ok /\ e.image = "op" THEN To("ddc file") ELSE Over("shutting_down")
      [] loader.at = "send" -> [loader EXCEPT !.wait = "no", !.pieces = Tail(@)]
      [] OTHER -> Proceeds

----------------------------------------------------------------------------
\* btintel_drain_boot_events(), btintel_send_cmd_sync(), btintel_send_cmd_nosync(),
\* btintel_send_cmd_vendor_sync()

Opcode == IF loader.at = "version again" THEN "version" ELSE loader.at
Reading == IF loader.at = "send" THEN "bulk" ELSE IF loader.at = "reset" THEN "no" ELSE "intr"

Queues ==
    /\ loader.wait = "no" /\ loader.at \in Draining \cup IntelCommands \cup {"send", "reset"}
    /\ loader.at = "send" => loader.pieces # <<>>
    /\ \/ /\ loader' = [loader EXCEPT !.wait = IF loader.at \in Draining THEN "event" ELSE "sent", !.skips = 0]
          /\ pipes' = [pipes EXCEPT !.reads = Reading, !.out = IF loader.at \in Draining THEN @
                                                               ELSE Append(@, [at |-> Opcode, live |-> TRUE])]
       \/ ~chip.on /\ loader' = Failed /\ UNCHANGED pipes
    /\ UNCHANGED <<chip, hub, slots>>

Abandoned == [i \in DOMAIN pipes.out |-> [pipes.out[i] EXCEPT !.live = FALSE]]

\* The event transfer is cancelled, the request is not: it may still be sent.
SendTimesOut ==
    /\ loader.wait = "sent" /\ loader' = Failed
    /\ pipes' = [pipes EXCEPT !.reads = "no", !.out = Abandoned]
    /\ UNCHANGED <<chip, hub, slots>>

EventTimesOut ==
    /\ loader.wait = "event" /\ loader' = Failed
    /\ pipes' = [pipes EXCEPT !.reads = "no"] /\ UNCHANGED <<chip, hub, slots>>

\* The transfer ends with an error: nothing is left to cancel.
EventFails ==
    /\ loader.wait = "event" /\ pipes' = [pipes EXCEPT !.reads = "no"]
    /\ loader' = IF loader.at \in Draining /\ loader.n + 1 < Drained THEN Again ELSE Failed
    /\ UNCHANGED <<chip, hub, slots>>

----------------------------------------------------------------------------
\* The events

\* (AnyEvent is faulty: an answer that tells an error is taken for success.)
AnyEvent(e) == TRUE
PieceTaken(e) == e.code \in {"vendor", "complete"} => e.ok

Passed(e) == e.code \notin {"complete", "status"} /\ loader.skips < Skips

\* Is it the Command Complete of the command?  Where the answer is kept, its status
\* is looked at later (Read Version) or never (boot parameters).
Fits(e) == e.code = "complete" /\ e.at = Opcode

TakesEvent ==
    /\ loader.wait = "event" /\ pipes.reads # "no" /\ pipes[pipes.reads] # <<>>
    /\ LET e == Head(pipes[pipes.reads])
           left == [pipes EXCEPT ![pipes.reads] = Tail(@)]
           done == [left EXCEPT !.reads = "no"]
       IN  IF loader.at \in Draining
           THEN loader' = (IF loader.n + 1 < Drained THEN Again ELSE Failed) /\ pipes' = done
           ELSE IF loader.at = "send" THEN loader' = (IF PieceTaken(e) THEN Succeeded(e) ELSE Failed) /\ pipes' = done
           ELSE IF Passed(e) THEN loader' = [loader EXCEPT !.skips = @ + 1] /\ pipes' = left
           ELSE loader' = (IF Fits(e) THEN Succeeded(e) ELSE Failed) /\ pipes' = done
    /\ UNCHANGED <<chip, hub, slots>>

----------------------------------------------------------------------------
\* btintel_load_firmware_file() and the ends of btintel_download_firmware()

\* A Blazar boots an intermediate loader first.  The names that a legacy dongle
\* tries one after the other are one name here.
FirmwareFor(image) == IF chip.family = "blazar" /\ image = "bootloader" THEN "iml" ELSE "op"

LoadsFirmware ==
    /\ loader.at = "file"
    /\ \/ loader' = Over("error")
       \/ \E file \in Disk : /\ file.boots = FirmwareFor(loader.image)
                             /\ loader' = [To("send") EXCEPT !.file = file, !.pieces = Sent(file)]
    /\ UNCHANGED <<pipes, chip, hub, slots>>

EndsDownload ==
    /\ loader.at = "send" /\ loader.wait = "no" /\ loader.pieces = <<>>
    /\ loader' = IF loader.file.part = "whole" THEN To("reset") ELSE Over("error")
    /\ UNCHANGED <<pipes, chip, hub, slots>>

\* btintel_load_ddc(): the entries up to one that is cut or too short.
LoadsDdc ==
    /\ loader.at = "ddc file"
    /\ \E entries \in 0 .. MaxDdc : loader' = IF entries = 0 THEN AfterDdc ELSE [To("ddc") EXCEPT !.n = entries]
    /\ UNCHANGED <<pipes, chip, hub, slots>>

----------------------------------------------------------------------------
\* device_added(), device_removed()

NoPipes == [out |-> <<>>, reads |-> "no", intr |-> <<>>, bulk |-> <<>>]
NoSlot == [used |-> FALSE, connected |-> FALSE, open |-> FALSE]

Intel == chip.family # "other"

\* spawn_device() and what comes before the setup; it may fail, or the dongle lack
\* an end point.
DeviceAdded ==
    /\ hub.at = "new" /\ loader.at = "idle"
    /\ LET free == {i \in 1 .. Slots : ~slots[i].used}
           i == CHOOSE j \in free : \A k \in free : j <= k
       IN  IF free = {} \/ (Intel /\ hub.attempts >= Attempts)
           THEN hub' = [hub EXCEPT !.at = "refused"] /\ UNCHANGED <<loader, slots>>
           ELSE \/ hub' = [hub EXCEPT !.at = "refused"] /\ UNCHANGED <<loader, slots>>
                \/ /\ hub' = [hub EXCEPT !.at = IF Intel THEN "adding" ELSE "bound", !.slot = i]
                   /\ loader' = IF Intel THEN [NoLoader EXCEPT !.at = "drain"] ELSE loader
                   /\ slots' = [slots EXCEPT ![i] = [NoSlot EXCEPT !.used = TRUE, !.connected = ~Intel]]
    /\ UNCHANGED <<pipes, chip>>

\* A dongle that reboots is registered as well, for its departure to be seen.
AddedIntel ==
    /\ loader.at = "over"
    /\ LET taken == loader.result \in {"ok", "shutting_down"}
       IN  /\ hub' = [hub EXCEPT !.attempts = IF loader.result = "ok" THEN 0 ELSE @ + 1,
                                 !.at = IF taken THEN "bound" ELSE "refused"]
           /\ slots' = [slots EXCEPT ![hub.slot] = IF taken THEN [@ EXCEPT !.connected = TRUE] ELSE NoSlot]
    /\ loader' = NoLoader
    /\ UNCHANGED <<pipes, chip>>

\* The slot stays used until the device is closed.
DeviceRemoved ==
    /\ hub.at \in {"bound", "refused"} /\ ~chip.on
    /\ slots' = IF hub.at = "bound" THEN [slots EXCEPT ![hub.slot].connected = FALSE] ELSE slots
    /\ hub' = [hub EXCEPT !.at = "empty"]
    /\ pipes' = NoPipes
    /\ UNCHANGED <<loader, chip>>

\* device_open() of a published device, device_close() with device_free().  They touch
\* nothing that the setup uses: it does not matter when they come during one.
DeviceOpens(i) ==
    /\ loader.at = "idle" /\ slots[i].connected /\ ~slots[i].open
    /\ slots' = [slots EXCEPT ![i].open = TRUE] /\ UNCHANGED <<loader, pipes, chip, hub>>

DeviceCloses(i) ==
    /\ loader.at = "idle" /\ slots[i].open
    /\ slots' = [slots EXCEPT ![i] = IF slots[i].connected THEN [@ EXCEPT !.open = FALSE] ELSE NoSlot]
    /\ UNCHANGED <<loader, pipes, chip, hub>>

----------------------------------------------------------------------------
\* The dongle

Event(code, at, ok) == [code |-> code, at |-> at, ok |-> ok, image |-> chip.image]
Stray == Event("vendor", "none", TRUE)

\* What a command is answered, if it is.
Completed(at) == {<<>>, <<Event("complete", at, TRUE)>>, <<Event("complete", at, FALSE)>>, <<Event("status", at, TRUE)>>}

Keeps(piece) == [chip EXCEPT !.got[piece.type] = @ + piece.bytes]

Boots(image, on) == [chip EXCEPT !.image = image, !.on = on, !.got = Nothing]

\* A request is sent, or fails.  One that was given up may end the wait of the one
\* that is under way now: its semaphore lies where that of the old one lay.
RequestSent ==
    /\ pipes.out # <<>> /\ chip.on
    /\ LET r == Head(pipes.out)
           sent == IF loader.at = "reset" THEN AfterReset ELSE [loader EXCEPT !.wait = "event"]
       IN  \E ends \in IF r.live THEN {TRUE} ELSE IF loader.wait = "sent" THEN BOOLEAN ELSE {FALSE} :
           LET returned == IF ends THEN sent ELSE loader
               rest == [pipes EXCEPT !.out = Tail(IF ends THEN Abandoned ELSE @)]
               replied(pipe, e) == [rest EXCEPT ![pipe] = @ \o e]
           IN  \/ /\ r.at \in IntelCommands /\ UNCHANGED chip
                  /\ loader' = returned /\ \E e \in Completed(r.at) : pipes' = replied("intr", e)
               \/ /\ r.at = "send" /\ r.live /\ loader' = returned
                  /\ \/ chip' = Keeps(Head(loader.pieces)) /\ pipes' = replied("bulk", <<Event("vendor", r.at, TRUE)>>)
                     \/ /\ UNCHANGED chip
                        /\ pipes' \in {rest} \cup {replied("bulk", <<Event(code, r.at, FALSE)>>) : code \in {"vendor", "complete"}}
               \/ /\ r.at = "reset" /\ loader' = returned
                  /\ \E on \in IF chip.family = "legacy" THEN BOOLEAN ELSE {FALSE} :
                        chip' = Boots(IF chip.got = Whole(loader.file) THEN loader.file.boots ELSE chip.image, on)
                  /\ pipes' = [pipes EXCEPT !.out = <<>>, !.bulk = <<>>, !.intr = <<Stray>>]
               \/ r.live /\ loader' = Failed /\ pipes' = [rest EXCEPT !.reads = "no"] /\ UNCHANGED chip
    /\ UNCHANGED <<hub, slots>>

SaysMore(pipe) ==
    /\ chip.on /\ chip.strays > 0 /\ loader.wait = "event"
    /\ chip' = [chip EXCEPT !.strays = @ - 1, !.astray = TRUE]
    /\ pipes' = [pipes EXCEPT ![pipe] = Append(@, Stray)]
    /\ UNCHANGED <<loader, hub, slots>>

DongleLeaves == chip.on /\ chip' = [chip EXCEPT !.on = FALSE, !.image = "bootloader"] /\ UNCHANGED <<loader, pipes, hub, slots>>

\* It comes, or comes back after its reset.
DongleComes ==
    /\ hub.at = "empty" /\ hub.plugs > 0
    /\ chip' = [chip EXCEPT !.on = TRUE, !.got = Nothing]
    /\ hub' = [hub EXCEPT !.at = "new", !.plugs = @ - 1, !.slot = 0]
    /\ pipes' = [pipes EXCEPT !.intr = IF chip.image # "bootloader" THEN <<Stray>> ELSE <<>>]
    /\ UNCHANGED <<loader, slots>>

----------------------------------------------------------------------------
NoDongle == [family |-> "other", plugs |-> 0, strays |-> 0]

DongleInit(dongles) ==
    /\ loader = NoLoader
    /\ pipes = NoPipes
    /\ slots = [i \in 1 .. Slots |-> NoSlot]
    /\ \E d \in dongles :
        /\ chip = [family |-> d.family, image |-> "bootloader", on |-> FALSE, got |-> Nothing, strays |-> d.strays, astray |-> FALSE]
        /\ hub = [at |-> "empty", slot |-> 0, attempts |-> 0, plugs |-> d.plugs]

LoaderNext ==
    Queues \/ SendTimesOut \/ EventTimesOut \/ EventFails \/ TakesEvent \/ LoadsFirmware \/ EndsDownload \/ LoadsDdc \/ AddedIntel

HubNext == DeviceAdded \/ DeviceRemoved \/ (\E i \in 1 .. Slots : DeviceOpens(i) \/ DeviceCloses(i))

ChipNext == RequestSent \/ (\E pipe \in {"intr", "bulk"} : SaysMore(pipe)) \/ DongleLeaves \/ DongleComes

DongleNext == LoaderNext \/ HubNext \/ ChipNext

\* The thread of the USB stack runs, and its waits end.
DongleFairness == WF_dongleVars(LoaderNext)

DongleTypeOK ==
    /\ loader.wait \in {"no", "sent", "event"} /\ loader.n \in 0 .. Drained + MaxDdc + 3 /\ loader.skips \in 0 .. Skips
    /\ loader.result \in {"none", "ok", "error", "unsupported", "shutting_down"}
    /\ pipes.reads \in {"no", "intr", "bulk"}
    /\ hub.attempts \in 0 .. Attempts /\ hub.slot \in 0 .. Slots
    /\ \A i \in 1 .. Slots : slots[i].connected \/ slots[i].open => slots[i].used

\* The chip is reset only when it has accepted every byte of the file's headers and
\* commands: however they are cut into pieces, and whatever it refuses or leaves
\* unanswered on the way.  An event that answers nothing passes for an answer.
ResetIsEarned == loader.at = "reset" => chip.got = Whole(loader.file) \/ chip.astray

\* A dongle that is taken for ready runs its operational firmware.
ReadyIsOperational == loader.at = "over" /\ loader.result = "ok" => chip.image = "op" \/ ~chip.on

\* btintel_setup() resets a chip only with a firmware that is whole, and takes it
\* for ready only when that runs.
FirmwareIsWhole == ResetIsEarned /\ ReadyIsOperational

\* The buffer of an event lies on the stack of a call: its transfer ends with the call.
DongleHoldsNothing == loader.wait = "no" => pipes.reads = "no"
=============================================================================
