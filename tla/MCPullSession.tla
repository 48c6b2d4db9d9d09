---------------------------- MODULE MCPullSession ----------------------------
EXTENDS PullSession

(* A server that supports every deepening, one that only knows depths and  *)
(* exclusions, one that only knows times.                                  *)
SomeFeatures == {Deepenings, {"depth", "not"}, {"since"}}

(* A pack in two packets, with a progress message between them.            *)
MCPackData == <<2, 0, 1>>
=============================================================================
