---------------------------- MODULE MCDemoCluster ----------------------------
(* One scheduler behind a proxy, launched up to four times. *)
EXTENDS DemoCluster
CONSTANT s1
=============================================================================
