------------------------------- MODULE MCTickets -------------------------------
(***************************************************************************)
(* Small instances of Tickets for TLC.                                     *)
(***************************************************************************)
EXTENDS TicketsInvariant, TLC

\* Tickets and threads are interchangeable in the safety runs.
Interchangeable == Permutations(TGT) \cup Permutations(ST) \cup Permutations(Thread)
===============================================================================
