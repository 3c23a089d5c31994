------------------------------ MODULE MCLicense ------------------------------
(* License alone: one machine, one key, one `samurai license --refresh`. *)
EXTENDS License

MCOn == [g \in Gates |-> CHOOSE m \in Machines : TRUE]
=============================================================================
