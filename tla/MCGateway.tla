----------------------------- MODULE MCGateway -----------------------------
(***************************************************************************)
(* Gateway with three nodes that declare one or two keys each: replicas of *)
(* a key, versions that are prefixes of one another, types with one node.  *)
(***************************************************************************)
EXTENDS Gateway

MCOrder == <<"node1", "node2", "node3">>

MCPart == {0, 3, 5, 9}

MCVersion == {<<3>>, <<3, 0>>, <<3, 0, 9>>, <<5>>}

\* What one node may declare.
Declarations ==
  { << <<"vastbase", <<3>> >> >>,
    << <<"vastbase", <<3, 0>> >> >>,
    << <<"vastbase", <<3, 0>> >>, <<"oracle", <<3>> >> >>,
    << <<"oracle", <<3>> >>, <<"vastbase", <<3>> >> >> }

MCConfigs == [ToSet(MCOrder) -> Declarations]
=============================================================================
