------------------------------ MODULE MCUsers ------------------------------
EXTENDS Users

CONSTANTS r1, r2, s1, u1, u2

MCCallers == Requests \cup Syncs
MCKeys == {"users", "links"}
MCValues == UserRecords \cup LinkRecords
=============================================================================
