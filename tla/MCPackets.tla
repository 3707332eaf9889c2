----------------------------- MODULE MCPackets ------------------------------
(* Small instances of GdbPackets. *)
EXTENDS GdbPackets

\* A plain byte, and two that stand for something in a packet.
MCData == {1, EOP, ESC}
MCJunk == {0, ESC}
=============================================================================
