------------------------------ MODULE MCMacModes ------------------------------
(* An instance of MacModes for TLC: two inputs of the user and one fault, from every
   state the program may find when it starts. *)
EXTENDS MacModes
NothingOrBoth == {{}, {"proxy", "vpn"}}
=============================================================================
