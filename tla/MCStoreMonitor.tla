--------------------------- MODULE MCStoreMonitor ---------------------------
(* Small instances of the monitor for TLC. *)
EXTENDS StoreMonitor
=============================================================================
