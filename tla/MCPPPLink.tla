----------------------------- MODULE MCPPPLink ------------------------------
(***************************************************************************)
(* PPPLink for TLC: the BNG, which takes its input in any order and may    *)
(* restart, and a subscriber.  The subscriber rejects the BNG's option;    *)
(* the BNG answers the subscriber's first value with the one it assigns,   *)
(* as IPCP does with an address.                                           *)
(***************************************************************************)
EXTENDS PPPLink

CONSTANTS bng, cpe

MCWanted == [e \in {bng, cpe} |-> 1]

MCReply == (bng :> (1 :> "ConfNak" @@ 2 :> "ConfAck"))
             @@ (cpe :> (1 :> "ConfRej" @@ 2 :> "ConfAck"))

MCSuggest == [e \in {bng, cpe} |-> 2]
=============================================================================
