--------------------------- MODULE MCIdleDelivery ---------------------------
(* Model-checking instance of IdleDelivery: two users a and b, a third     *)
(* name c that no user has (message/send to c is answered 404).            *)
EXTENDS IdleDelivery

CONSTANTS a, b, c, w1, w2

MCNames   == {a, b, c}
MCUsers   == {a, b}
MCWorkers1 == {w1}
MCWorkers2 == {w1, w2}
MCListeners == {a}
MCSenders == {b}
=============================================================================
