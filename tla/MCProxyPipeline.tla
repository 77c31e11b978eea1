-------------------------- MODULE MCProxyPipeline --------------------------
(* An instance of ProxyPipeline: GPU 1 holds the data and has NIC 1; GPU 2  *)
(* has NIC 2; chunks of one or two units.                                   *)
EXTENDS ProxyPipeline

TwoPeers == <<{2}, {1}>>
OneNicEach == <<{1}, {2}>>
ThreeAndOne == <<<<1, 1, 2>>, <<1>>>>
============================================================================
