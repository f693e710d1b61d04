----------------------------- MODULE MCTransport -----------------------------
(***************************************************************************)
(* Instances of Transport for TLC.                                         *)
(***************************************************************************)
EXTENDS Transport, TLC

(* ei:a@h:3128, ei:b@h:3128; a without host and with a port too low; and   *)
(* a@h:3128, which is taken for a protocol.                                *)
TheNodeIds ==
  {<<"ei", ":", "a", "@", "h", ":", "3128">>, <<"ei", ":", "b", "@", "h", ":", "3128">>,
   <<"ei", ":", "a", ":", "80">>, <<"a", "@", "h", ":", "3128">>}

(* The host of all nodes is h, and some call it defaulthost.               *)
TheNames == {<<"a", "@", "h">>, <<"a">>, <<"b", "@", "h">>}
TheWords == {"ei", "a", "b", "h", "defaulthost", "3128", "80", "@", ":"}

TheProtocols == {<<"ei">>}
TheNumbers == "3128" :> 3128 @@ "80" :> 80
Symmetry == Permutations(Nodes)
=============================================================================
