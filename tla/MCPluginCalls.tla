--------------------------- MODULE MCPluginCalls ----------------------------
(* PluginCalls with two plugins that provide a dynamic native each.            *)
EXTENDS PluginCalls

CONSTANTS A, B, give, take

NativeHome == (give :> A) @@ (take :> B)
=============================================================================
