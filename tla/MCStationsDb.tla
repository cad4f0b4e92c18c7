---------------------------- MODULE MCStationsDb ----------------------------
(* Three requests: one holds the lock, one waits, one comes late.           *)
EXTENDS StationsDb, TLC

CONSTANTS r1, r2, r3

ThreeRequests == {r1, r2, r3}
=============================================================================
