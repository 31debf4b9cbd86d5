----------------------------- MODULE MCPlugins -----------------------------
(***************************************************************************)
(* Instances of Plugins for TLC.  Two candidates compete for the names     *)
(* "csv", "html" and "prompt", the second a builtin's and the third the    *)
(* switch's, and for the sniffers "csv-sniffer", "xml" and                 *)
(* "prompt-structure", the second a default one's, the third the switch's. *)
(***************************************************************************)
EXTENDS Plugins, TLC

mcProvisional == 1 :> "csv" @@ 2 :> "toml"
=============================================================================
