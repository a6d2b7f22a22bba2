-------------------------- MODULE MCPipelineCache --------------------------
(* A graphics pipeline and one with a geometry shader that have a pixel    *)
(* shader in common.                                                       *)
EXTENDS PipelineCache, TLC

CONSTANTS plain, mesh

MCPipelines == {plain, mesh}
MCShaders == {"vs", "gv", "gs", "ps"}
MCUses == plain :> <<"vs", "ps">> @@ mesh :> <<"gv", "gs", "ps">>
MCClass == plain :> "graphics" @@ mesh :> "geometry"

=============================================================================
