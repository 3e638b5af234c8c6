------------------------- MODULE MCRegistryCommands -------------------------
(* An instance of RegistryCommands for TLC: IDs of two or three characters *)
(* of which two have to be typed.  One community ID is as short as IDs     *)
(* get, the route IDs begin alike, and a community can be named like the   *)
(* beginning of the other's ID.                                            *)
EXTENDS RegistryCommands

MCCommunityIDs    == {<<1, 1, 1>>, <<1, 2>>}
MCRouteIDs        == {<<2, 1, 1>>, <<2, 1, 2>>}
MCNames           == {<<7>>, <<1, 1>>}
MCFQNames         == {<<8>>}
MCCommunityIdents == {<< >>, <<7>>, <<1>>, <<1, 1>>}
MCRouteIdents     == {<< >>, <<8>>, <<2, 1>>, <<2, 1, 1>>}
=============================================================================
