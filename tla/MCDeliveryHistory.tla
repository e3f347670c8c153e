-------------------------- MODULE MCDeliveryHistory -------------------------
(* One intent, its agent's runtime instance and the reaper, observed. *)
EXTENDS DeliveryHistory

MCTargetsOf == [k \in Keys |-> Agents]
MCInstanceOf == [a \in Agents |-> CHOOSE i \in Instances : TRUE]

=============================================================================
