-------------------------- MODULE IntentLifecycle ---------------------------
(***************************************************************************)
(* What the delivery service promises of an intent, without clocks,        *)
(* handlers or tables: it is addressed to one agent for good, at most one  *)
(* claim of it is ever granted, only to that agent, and it ends at most    *)
(* once.  "Claims are atomic and terminal states are final"                *)
(* (ARCHITECTURE.md:111), with the direct steps from claimed to a terminal *)
(* state that canReport allows.                                            *)
(***************************************************************************)
CONSTANTS
    Intents,    \* the intents that can exist
    Agents,     \* agent identities
    Tokens,     \* claim tokens
    None        \* no agent, no token

VARIABLES
    phase,      \* phase[i]: how far intent i got
    target,     \* target[i]: the agent it is addressed to
    grant       \* grant[i]: the token of the one claim that was granted

lifecycleVars == <<phase, target, grant>>

LifecycleInit ==
    /\ phase \in [Intents -> {"absent", "cancelled", "display_only"}]
    /\ target \in [Intents -> Agents \cup {None}]
    /\ \A i \in Intents : target[i] = None <=> phase[i] = "absent"
    /\ grant = [i \in Intents |-> None]

\* A new intent is addressed to an agent.
Post(i, a) ==
    /\ phase[i] = "absent"
    /\ phase' = [phase EXCEPT ![i] = "pending"]
    /\ target' = [target EXCEPT ![i] = a]
    /\ UNCHANGED grant

\* A claim is granted with a token no other intent was granted with.
Grant(i, t) ==
    /\ phase[i] = "pending"
    /\ \A j \in Intents : grant[j] # t
    /\ phase' = [phase EXCEPT ![i] = "claimed"]
    /\ grant' = [grant EXCEPT ![i] = t]
    /\ UNCHANGED target

Start(i) ==
    /\ phase[i] = "claimed"
    /\ phase' = [phase EXCEPT ![i] = "running"]
    /\ UNCHANGED <<target, grant>>

\* The holder of the grant ends it, or the reaper gives a running one up.
Finish(i, outcome) ==
    /\ phase[i] \in {"claimed", "running"}
    /\ phase' = [phase EXCEPT ![i] = outcome]
    /\ UNCHANGED <<target, grant>>

\* One sweep may give up any number of intents nobody claimed.
Expire(S) ==
    /\ \A i \in S : phase[i] = "pending"
    /\ phase' = [i \in Intents |-> IF i \in S THEN "expired" ELSE phase[i]]
    /\ UNCHANGED <<target, grant>>

LifecycleNext ==
    \/ \E i \in Intents, a \in Agents : Post(i, a)
    \/ \E i \in Intents, t \in Tokens : Grant(i, t)
    \/ \E i \in Intents : Start(i)
    \/ \E i \in Intents, outcome \in {"completed", "failed"} : Finish(i, outcome)
    \/ \E S \in SUBSET Intents : Expire(S)

LifecycleSpec == LifecycleInit /\ [][LifecycleNext]_lifecycleVars

=============================================================================
