-------------------- MODULE MCForwardingAutoConfigurator --------------------
(* Small instances of ForwardingAutoConfigurator.                          *)
EXTENDS ForwardingAutoConfigurator

(* The order in which LinkLayerNodeBase creates the interfaces.            *)
MCNicInterfaces == <<"lo", "wlan0", "eth0">>

Symmetry == Permutations(Cars)
=============================================================================
