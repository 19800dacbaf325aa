----------------------------- MODULE MCLinkUsers -----------------------------
(* LinkUsers for TLC: handles 0 .. 5, so that the last service and the last    *)
(* descriptor lie at the end of the handle space; sinks of which the first     *)
(* knows no SBC, the second is in use, and two more differ in the bitpools;    *)
(* objects that do and do not fit a packet and a buffer.                       *)
EXTENDS LinkUsers

CONSTANTS t1, t2

----------------------------------------------------------------------------
\* IntelSetup: a fragment of more than a piece, one that fills no whole word, a file
\* that is cut.  Four arrivals reach the limit of failures.

File(boots, css2, part, commands) == [boots |-> boots, css2 |-> css2, part |-> part, commands |-> commands]

MCDisk == {File("op", FALSE, "whole", <<5, 9, 250>>), File("op", TRUE, "cut", <<2, 4>>), File("iml", TRUE, "whole", <<9, 5, 5>>)}

Dongle(family, plugs, strays) == [family |-> family, plugs |-> plugs, strays |-> strays]

MCDongles ==
    {Dongle("legacy", 1, 0), Dongle("tlv", 1, 1), Dongle("tlv", 4, 0), Dongle("blazar", 3, 0), Dongle("other", 3, 0)}

----------------------------------------------------------------------------
\* LeLink

Call(op, from, to, key) == [op |-> op, from |-> from, to |-> to, key |-> key]

MCServices == <<[first |-> 1, last |-> 2], [first |-> 3, last |-> 5]>>
MCChars == <<2, 3>>
MCDescriptors == <<[handle |-> 4, ccc |-> FALSE], [handle |-> 5, ccc |-> TRUE]>>

\* Discovery, reads and writes, by two callers at a time or by one after the
\* other.  The range 4 .. 4 has no CCC descriptor, 5 is no characteristic.
Discover == {Call("services", 1, 5, -1), Call("chars", 1, 5, -1), Call("descs", 4, 5, -1), Call("descs", 4, 4, -1)}
Access == {Call("read", 3, 3, -1), Call("read", 5, 5, -1), Call("write", 3, 3, -1), Call("write_cmd", 3, 3, -1),
           Call("mtu", 1, 1, -1)}
Pair == {Call("pair", 0, 0, 1), Call("pair", 0, 0, -1), Call("nc", 0, 0, -1)}

Plan(callers, issued, number, unasked, smpCommands) ==
    [callers |-> callers, calls |-> issued, number |-> number, limit |-> [unasked |-> unasked, smp |-> smpCommands]]

Read == Call("read", 3, 3, -1)

MCPlans ==
    {Plan({t1}, Discover \cup {Read}, 2, 1, 0),
     Plan({t1}, Access, 2, 1, 0),
     Plan(Callers, {Call("services", 1, 5, -1), Read}, 2, 0, 0),
     Plan({t1}, Pair, 2, 0, 9),
     Plan(Callers, {Call("pair", 0, 0, 1), Call("nc", 0, 0, -1), Read}, 2, 0, 1)}

----------------------------------------------------------------------------
\* A2dp

Offer(min, max) ==
    [freqs |-> {48000, 44100}, modes |-> {"stereo", "joint"}, blocks |-> {16, 8}, subbands |-> {8},
     allocs |-> {"loudness"}, min |-> min, max |-> max]
NoSbc == [e \in Elements \cup {"min", "max"} |-> IF e \in {"min", "max"} THEN 0 ELSE {}]

Sep(kind, inUse, offer) == [kind |-> kind, inUse |-> inUse, offer |-> offer]

MCSeps == <<Sep("sink", FALSE, NoSbc), Sep("source", FALSE, Offer(2, 53)), Sep("sink", TRUE, Offer(2, 53)),
            Sep("sink", FALSE, Offer(0, 250)), Sep("sink", FALSE, Offer(10, 40))>>

----------------------------------------------------------------------------
\* SdpServer, Obex

MCPatterns ==
    {<<DeUuid16(\h1101), DeUuid16(PublicBrowseRoot), DeUint16(1)>>, <<DeUuid32(65536 + \h110E)>>}

Object(name, type, size) == [name |-> name, type |-> type, size |-> size]

MCObjects == {Object(5, 10, 20), Object(0, 0, 300), Object(60, 9, 100), Object(60, 9, 5000), Object(5, 0, 0)}
=============================================================================
