------------------------------ MODULE MCAtaPio ------------------------------
(* The shell asks for two sectors whose numbers differ in both ports; the  *)
(* song lies in a third.                                                   *)
EXTENDS AtaPio

MCAsked == [shell |-> {<<0, 0>>, <<1, 1>>}, irq |-> {<<1, 0>>}]
=============================================================================
