--------------------------- MODULE MCAlertDelivery ---------------------------
(* A small instance of AlertDelivery.                                        *)
EXTENDS AlertDelivery

(* One webhook for high and critical alerts that tries twice, one for        *)
(* critical alerts that tries once and is soon over its limit.               *)
MCSenders == <<[min |-> 3, limit |-> 9, retries |-> 2],
               [min |-> 4, limit |-> 1, retries |-> 1]>>
=============================================================================
