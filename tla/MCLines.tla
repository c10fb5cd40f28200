------------------------------ MODULE MCLines ------------------------------
(***************************************************************************)
(* Instances of Lines for TLC: requests, raw lines, addresses of digits    *)
(* and dots (with other characters, and without, as long as it takes to    *)
(* pass the limit of 15), and lists of hosts.                              *)
(***************************************************************************)
EXTENDS Lines

Samples ==
    {[start |-> <<"SEND">>, chars |-> {"ip", SP, "w"}, max |-> 6],
     [start |-> <<>>, chars |-> {"w", SP, "\n"}, max |-> 6],
     [start |-> <<>>, chars |-> {"d", "."}, max |-> 16],
     [start |-> <<>>, chars |-> {"d", ".", "w"}, max |-> 8],
     [start |-> <<>>, chars |-> {"ip", "ip2", "ip3"}, max |-> 4]}
=============================================================================
