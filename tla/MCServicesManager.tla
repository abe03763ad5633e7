--------------------------- MODULE MCServicesManager ---------------------------
(***************************************************************************)
(* Small instances of ServicesManager for TLC.                             *)
(***************************************************************************)
EXTENDS ServicesManager

Registration(sid, key) == [sid |-> sid, key |-> key]

Portal == Registration("portal", 1)

\* Every service has an order and name of its own.
OwnKeys == {Portal, Registration("portal", 2), Registration("mail", 3)}
===============================================================================
