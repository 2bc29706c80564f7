---------------------------- MODULE MCProxyModel ----------------------------
(* Instances of ProxyModel for TLC.                                        *)
EXTENDS ProxyModel

BothChains == {"fabric", "ethereum"}
=============================================================================
