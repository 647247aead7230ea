------------------------ MODULE MCBrokerConnection ------------------------
(* BrokerConnection for TLC: the configurations only bound the number of   *)
(* connections, so that no definition is needed beside its own.            *)
EXTENDS BrokerConnection

===========================================================================
