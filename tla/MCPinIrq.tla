------------------------------ MODULE MCPinIrq ------------------------------
(* Two ports that compete for line 5, and line 6 of the same vector. *)
EXTENDS PinIrq

MCPins == {<<"A", 5>>, <<"B", 5>>, <<"A", 6>>}
=============================================================================
