------------------------------- MODULE MCOsal -------------------------------
(* A small instance of Osal: a timer's event, a handler's and an interrupt's. *)
EXTENDS Osal

MCIsr  == {<<1, 1>>}
MCMain == {<<0, 0>>, <<1, 0>>}
MCTimerEvent == {<<1, 0>>}
MCRegistered == {0, 1}
=============================================================================
