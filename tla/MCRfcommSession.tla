-------------------------- MODULE MCRfcommSession --------------------------
\* Small instances of RfcommSession.  The ring holds two bytes.  Between two
\* ends of this stack all data goes to I, with a third byte that finds the ring
\* full or passes its end; a foreign stack also gets a byte, which costs a
\* credit.
EXTENDS RfcommSession

McBytes ==
    [foreign \in BOOLEAN |->
        IF foreign THEN [e \in {"I", "R"} |-> IF e = "I" THEN 2 ELSE 1]
        ELSE [e \in {"I", "R"} |-> IF e = "I" THEN 3 ELSE 0]]
=============================================================================
