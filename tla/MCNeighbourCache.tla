-------------------------- MODULE MCNeighbourCache --------------------------
EXTENDS NeighbourCache

MCMac == [h \in Hosts |-> <<"mac", h>>]

LinkLayerOption(type) == [type |-> type, len_in_octets |-> 1]
PrefixOption == [type |-> PrefixInformation, len_in_octets |-> 4]

Addressed == <<LinkLayerOption(SourceLinkLayer), LinkLayerOption(TargetLinkLayer)>>

\* An option of length 0 hides the address behind it.
Malformed == <<[type |-> 14, len_in_octets |-> 0], LinkLayerOption(TargetLinkLayer)>>

\* The answer to a solicitation, an announcement, and one that cannot be read.
MCAdvertisements == {
  [unicast |-> TRUE, override |-> TRUE, options |-> Addressed],
  [unicast |-> FALSE, override |-> FALSE, options |-> Addressed],
  [unicast |-> TRUE, override |-> TRUE, options |-> Malformed] }

\* Over multicast a solicitation carries the address of its sender; a unicast one
\* changes what this one and then an echo request, or an echo request, change.
MCSolicitations == {[unicast |-> FALSE, options |-> Addressed]}

\* A default router with its address and a prefix, and one that shuts down
\* and leaves its link layer address out.
MCRouterAdvertisements == {
  [isDefault |-> TRUE, shutdown |-> FALSE, options |-> <<LinkLayerOption(SourceLinkLayer), PrefixOption>>],
  [isDefault |-> FALSE, shutdown |-> TRUE, options |-> <<PrefixOption>>] }
=============================================================================
