------------------------------- MODULE MCBoot -------------------------------
(* Boot for TLC: two kernel builds with different anchors.                  *)
EXTENDS Boot, TLC

MCWANTED == <<"_version", "_kernel_pmap", "_cpu_to_processor">>

Table(v, k, c) == "_version" :> v @@ "_kernel_pmap" :> k @@ "_cpu_to_processor" :> c

MCLink == "b1" :> Table(32, 48, 64) @@ "b2" :> Table(36, 64, 80)
=============================================================================
