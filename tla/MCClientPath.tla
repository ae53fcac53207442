---------------------------- MODULE MCClientPath ----------------------------
EXTENDS ClientPath

CONSTANTS a, b, c

\* Clients need not know every server: one may have joined later.
MCAddrs == <<a, b>>
=============================================================================
