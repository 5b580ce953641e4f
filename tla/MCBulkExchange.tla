---------------------------- MODULE MCBulkExchange ----------------------------
(* BulkExchange on small sets of processes; the bounds are set in the cfg file. *)
EXTENDS BulkExchange
===============================================================================
