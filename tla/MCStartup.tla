------------------------------ MODULE MCStartup ------------------------------
(***************************************************************************)
(* Startup for TLC: a default configuration, one in which the user has set *)
(* an interval to zero, and, for a further configuration of TLC, one with  *)
(* another address.                                                        *)
(***************************************************************************)
EXTENDS Startup

MCDefault == [addr |-> 7878, scan |-> TRUE, check |-> TRUE]
MCConfigs ==
    {MCDefault, [MCDefault EXCEPT !.scan = FALSE], [MCDefault EXCEPT !.check = FALSE]}
MCAddresses == {MCDefault, [MCDefault EXCEPT !.addr = 7879]}
=============================================================================
