---------------------------- MODULE EntryClaims ----------------------------
(***************************************************************************)
(* What config_flow.py says of a new connection and the code does not      *)
(* keep.                                                                   *)
(***************************************************************************)
EXTENDS MCEntry

(***************************************************************************)
(* "A new connection may lead to another unit: discover again"             *)
(* (config_flow.py): a stored discovery was made on the connection it is   *)
(* stored with.  A setup that is probing the unit of the former one stores *)
(* what it found beside the new connection.                                *)
(***************************************************************************)
DiscoveryIsOfTheConnection == stored.valid => storedOf = host
=============================================================================
