--------------------------- MODULE MCOutboxRelay ----------------------------
(* OutboxRelay for TLC.                                                    *)
EXTENDS OutboxRelay

CONSTANTS p1, p2
=============================================================================
