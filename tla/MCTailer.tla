------------------------------ MODULE MCTailer ------------------------------
(* Instances of MongoTailer for TLC; all constants are given by the cfg.   *)
EXTENDS MongoTailer
=============================================================================
