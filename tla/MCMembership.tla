---------------------------- MODULE MCMembership ----------------------------
EXTENDS Membership

CONSTANTS a, b, c, d, e

\* The list that is built in.
Static == <<a, b, c>>
MCConfigured == [s \in Server |-> Static]
=============================================================================
