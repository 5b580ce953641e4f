--------------------------- MODULE MCPacketExchange ---------------------------
(* PacketExchange on small sets of processes; the bounds are set in the cfg files. *)
EXTENDS PacketExchange
===============================================================================
