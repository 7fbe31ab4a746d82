-------------------------- MODULE MCCommandDelivery --------------------------
(***************************************************************************)
(* Small instances of CommandDelivery.                                    *)
(***************************************************************************)
EXTENDS CommandDelivery

admit == [tenant |-> "acme", instance |-> "i", kind |-> "admit",
          claim |-> 1, generation |-> 1, sequence |-> 1]
stop  == [tenant |-> "acme", instance |-> "i", kind |-> "stop",
          claim |-> 1, generation |-> 1, sequence |-> 2]
probe == [tenant |-> "acme", instance |-> "i", kind |-> "activation-canary",
          claim |-> 1, generation |-> 1, sequence |-> 3]

Single     == {admit}
Lifecycle  == {admit, stop}
WithCanary == {admit, probe}

Empty == [i \in {"i"} |-> None]
=============================================================================
