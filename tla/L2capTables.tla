---------------------------- MODULE L2capTables ----------------------------
(***************************************************************************)
(* The two allocation tables of the L2CAP layer: the command identifiers   *)
(* each HciConnection keeps in use (ConnectionInterface.cpp) and the       *)
(* channel ids of L2capEndpointManager.cpp.                                *)
(*                                                                         *)
(* Idents are numbered in the order allocate_command_ident() scans them:   *)
(* 1 is fNextIdent + 1 = 0x41 and LastIdent is the one before fNextIdent,  *)
(* which is itself never handed out (254 in the code).  Channel ids are    *)
(* numbered from L2CAP_FIRST_CID = 0x40, so LastCid is 65472 in the code.  *)
(***************************************************************************)
EXTENDS Integers

CONSTANTS
    Endpoint,     \* the L2capEndpoint objects that can ever exist
    NoEp,         \* the NULL endpoint pointer
    LastIdent,    \* how many idents allocate_command_ident() can hand out
    LastCid       \* how many channel ids BindToChannel() cycles through

ASSUME NoEpAssumption == NoEp \notin Endpoint
ASSUME LastIdentAssumption == LastIdent \in Nat \ {0}
ASSUME LastCidAssumption == LastCid \in Nat \ {0, 1}

Ident == 1 .. LastIdent
NullIdent == 0
Cid == 1 .. LastCid
NullCid == 0

IdentTable == [Ident -> Endpoint \cup {NoEp}]

----------------------------------------------------------------------------
\* HciConnection::fInUseIdents, keyed by ident

NoIdents == [i \in Ident |-> NoEp]

\* fNextIdent is never advanced, so every scan starts from the same place
\* and takes the first ident that is not in use.
FirstUnused(ids) ==
    {i \in Ident : ids[i] = NoEp /\ \A j \in 1 .. i - 1 : ids[j] # NoEp}

AllocIdent(ids) ==
    IF FirstUnused(ids) = {} THEN NullIdent ELSE CHOOSE i \in FirstUnused(ids) : TRUE

LookupIdent(ids, i) == IF i \in Ident THEN ids[i] ELSE NoEp

HoldIdent(ids, i, e) == [ids EXCEPT ![i] = e]

FreeIdent(ids, i) == [j \in Ident |-> IF j = i THEN NoEp ELSE ids[j]]

\* Faulty: stops after the first removal invalidated the iterator.
FreeOneIdentOf(ids, e) ==
    LET own == {i \in Ident : ids[i] = e}
    IN  [i \in Ident |-> IF i \in own /\ \A j \in own : i <= j THEN NoEp ELSE ids[i]]

FreeIdentsOf(ids, e) == [i \in Ident |-> IF ids[i] = e THEN NoEp ELSE ids[i]]

----------------------------------------------------------------------------
\* L2capEndpointManager::fChannelEndpoints and fNextChannelID

\* the k-th channel id of a scan that starts at fNextChannelID = next
CidAt(next, k) == ((next - 1 + k) % LastCid) + 1

\* The loop tries LAST_CID - FIRST_CID ids, one fewer than there are.
Tries == 0 .. LastCid - 2

\* Faulty: takes fNextChannelID without looking for its endpoint.
AllocCidUnseen(used, next) == CidAt(next, 0)

FirstFree(used, next) ==
    {k \in Tries : /\ CidAt(next, k) \notin used
                   /\ \A j \in 0 .. k - 1 : CidAt(next, j) \in used}

AllocCid(used, next) ==
    IF FirstFree(used, next) = {} THEN NullCid
    ELSE CidAt(next, CHOOSE k \in FirstFree(used, next) : TRUE)

\* Faulty: fNextChannelID does not return to L2CAP_FIRST_CID.
CidAfterNoWrap(next, c) == IF c = NullCid THEN next ELSE c + 1

\* fNextChannelID after a scan that took c (NullCid: the whole scan failed)
CidAfter(next, c) == IF c = NullCid THEN CidAt(next, LastCid - 1)
                                    ELSE CidAt(c, 1)
=============================================================================
