----------------------------- MODULE MCReencrypt -----------------------------
EXTENDS Reencrypt

CONSTANTS u1, u2, u3

\* Three users, returned in this order by EverytingFromUsers.
MCUsers == <<u1, u2, u3>>

=============================================================================
