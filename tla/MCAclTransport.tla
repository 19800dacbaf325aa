--------------------------- MODULE MCAclTransport ---------------------------
(***************************************************************************)
(* Instances of AclTransport for TLC.                                      *)
(***************************************************************************)
EXTENDS AclTransport, TLC

CONSTANTS h1, s1, s2

On(h, lengths) == [link |-> h, packets |-> lengths]

\* One thread sends two packets of two frames, over two connections at most; or
\* two packets that fit in one transfer each, or one of two frames, with a
\* transfer that is cut; two threads send one packet each.
Alone == (s1 :> On(h1, <<3, 3>>)) @@ (s2 :> On(h1, <<>>))
Short == (s1 :> On(h1, <<1, 1>>)) @@ (s2 :> On(h1, <<>>))
Split == (s1 :> On(h1, <<3>>)) @@ (s2 :> On(h1, <<>>))
Shared == (s1 :> On(h1, <<3>>)) @@ (s2 :> On(h1, <<4>>))

SomePlans == {Alone, Short, Split, Shared}
Gens == (Alone :> 2) @@ (Short :> 1) @@ (Split :> 1) @@ (Shared :> 1)
Cuts == (Alone :> 0) @@ (Short :> 1) @@ (Split :> 1) @@ (Shared :> 0)
=============================================================================
