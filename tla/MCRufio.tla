------------------------------ MODULE MCRufio ------------------------------
EXTENDS RufioInvariants
OffBootOn == <<"off", "boot", "on">>
OffOn == <<"off", "on">>
Listing(list) == [i \in Index |-> list[i + 1]]
MCOffOn == Listing(OffOn)
MCOffBootOn == Listing(OffBootOn)
=============================================================================
