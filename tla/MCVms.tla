------------------------------- MODULE MCVms -------------------------------
(***************************************************************************)
(* A small instance of Vms: a page that is mapped readable and writable or *)
(* writable only, and a read-only page under tables of its own.            *)
(***************************************************************************)
EXTENDS Vms

MCAddresses == {<<0, 0, 0>>, <<1, 0, 0>>}
MCModes ==
    [a \in MCAddresses |->
        IF a = <<0, 0, 0>> THEN {{"read", "write"}, {"write"}} ELSE {{"read"}}]
=============================================================================
