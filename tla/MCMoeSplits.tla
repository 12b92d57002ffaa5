---------------------------- MODULE MCMoeSplits ----------------------------
(***************************************************************************)
(* MoeSplits for TLC: a graph with an expert split on the host, a split    *)
(* without experts and two expert splits on a device.  One expert of the   *)
(* host tensor and of a device tensor is pinned.  In the second graph the  *)
(* host split has two nodes, up/gate and down, and nothing is pinned.      *)
(***************************************************************************)
EXTENDS MoeSplits

CONSTANTS up, down, dev, dev2

MCWeights   == <<<<up>>, <<>>, <<dev>>, <<dev2>>>>
MCKind      == <<"host", "none", "active", "active">>
MCManifest  == <<up, dev>>
MCResidents == <<2>>

TwoNodeWeights  == <<<<up, down>>, <<dev>>>>
TwoNodeKind     == <<"host", "active">>
TwoNodeManifest == <<>>
=============================================================================
