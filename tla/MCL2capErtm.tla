---------------------------- MODULE MCL2capErtm ----------------------------
\* Small instances of L2capErtm: few sequence numbers, so that they wrap.
EXTENDS L2capErtm
=============================================================================
