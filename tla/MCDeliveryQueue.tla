--------------------------- MODULE MCDeliveryQueue ---------------------------
(* DeliveryQueue for model checking: the older delivery is best effort, the  *)
(* younger one strict; or both are of the kind nobody listens to.            *)
EXTENDS DeliveryQueue

OneOfEach == [d \in Deliveries |-> IF d = 1 THEN {"bestEffort"} ELSE {"strict"}]
AllQuiet == [d \in Deliveries |-> {"quiet"}]

=============================================================================
