-------------------------- MODULE MCDeliverySystem --------------------------
(* One intent, its agent's runtime instance and the reaper. *)
EXTENDS DeliverySystem

MCTargetsOf == [k \in Keys |-> Agents]
MCInstanceOf == [a \in Agents |-> CHOOSE i \in Instances : TRUE]

=============================================================================
