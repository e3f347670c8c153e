------------------------------ MODULE MCRaces -------------------------------
(* Requests that race for one thing, and stop anywhere: for an intent of a   *)
(* small delivery service, for a blob of the image store, for the repository *)
(* documents are published to, for a version of a schema, or for the rows a   *)
(* view is put together from.  The intent k1 can only be addressed to a1,     *)
(* every other to any agent: the second session of the same profile included. *)
EXTENDS Delivery, Artifacts, DocPublish, MigrationRunner, Observation, TLC

CONSTANTS k1, a1

VARIABLE part   \* the service a behaviour is about

intentVars == <<now, deliveryVars>>

raceVars == <<intentVars, artifactVars, publishVars, migrationVars, observationVars>>

MCTargetsOf == [k \in Keys |-> IF k = k1 THEN {a1} ELSE Agents]

\* Claim requests and tokens are interchangeable; keys and agents are not,
\* because MCTargetsOf tells them apart.
Symmetry == Permutations(Claimers) \cup Permutations(Tokens)

\* Three releases, two schemas; each release appends versions.
MCSchemas == <<"a", "b">>
MCVersions ==
    [r \in Runners |->
        [s \in {"a", "b"} |->
            IF s = "b" THEN {1} ELSE IF r = "r1" THEN {1, 2} ELSE {1, 2, 3}]]

-----------------------------------------------------------------------------
MCRequests ==
    {[type |-> "work_completed", fields |-> {"work_ref", "result_ref"}, flaws |-> {}],
     [type |-> "tool_call_failed", fields |-> {"tool_name", "reason_code"}, flaws |-> {}],
     [type |-> "tool_call_failed", fields |-> {"tool_name"}, flaws |-> {}],
     [type |-> "adapter_connected", fields |-> {}, flaws |-> {"kind"}]}

Drawn == drawn["activity"] + drawn["delivery"] + drawn["runtime"] + drawn["chat"]

\* The sources hold a few rows in all, those of the two other services about one
\* agent; a view is read once, and only activity is written under a reader.
SmallViews ==
    /\ Drawn' <= 3
    /\ \A row \in rows' :
          row.source \notin {"activity", "chat"} => row.agent = CHOOSE a \in Members : TRUE
    /\ drawn'["chat"] > 0 => drawn'["runtime"] = 0 /\ Drawn' <= 2
    /\ reader'.op \in {"history", "trace"} \/ (reader' # NoReader /\ reader'.limit = 1) => Drawn' <= 2
    /\ view # NoView => reader' # reader
    /\ reader # NoReader /\ drawn' # drawn => drawn'["activity"] # drawn["activity"]

-----------------------------------------------------------------------------
MCRacesInit ==
    /\ part \in {"intents", "images", "publications", "migrations", "views"}
    /\ DeliveryInit /\ ArtifactsInit /\ PublishInit /\ MigrationInit /\ ObservationInit
    /\ part # "intents" => intents = [k \in Keys |-> NoIntent]

\* The other services stand still.
Quiet(p, vars) == part # p => UNCHANGED vars

MCRacesNext ==
    /\ UNCHANGED part
    /\ \/ part = "intents" /\ DeliveryNext
       \/ part = "images" /\ ArtifactsNext
       \/ part = "publications" /\ PublishNext
       \/ part = "migrations" /\ MigrationNext
       \/ part = "views" /\ ObservationNext /\ SmallViews
    /\ Quiet("intents", intentVars) /\ Quiet("images", artifactVars)
    /\ Quiet("publications", publishVars) /\ Quiet("migrations", migrationVars)
    /\ Quiet("views", observationVars)

MCRacesSpec == MCRacesInit /\ [][MCRacesNext]_<<part, raceVars>>

=============================================================================
