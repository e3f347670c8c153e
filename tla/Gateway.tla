------------------------------- MODULE Gateway -------------------------------
(***************************************************************************)
(* The gateway (src/gateway): a reverse proxy that sends each request to    *)
(* the legacy upstream or to its successor, by the first route of a table   *)
(* that is sorted once at start, and that rewrites the identity fields of   *)
(* a JSON body on the way to a successor.                                   *)
(*                                                                         *)
(* A path is a sequence of segments, a pattern one in which Variable stands *)
(* for any segment.  `length` is the length of the pattern as text, which   *)
(* is what the table is sorted by.                                          *)
(***************************************************************************)
EXTENDS Naturals, SequencesExt, FiniteSetsExt

CONSTANTS
    RouteFiles,     \* route entries a configuration may hold
    MaxRoutes,      \* bound: entries in a configuration
    Inbound,        \* the requests: [method, path, prefer, body]
    Mappings,       \* legacy identity -> [profile, instance, session]
    MaxRequests     \* bound: requests served

ASSUME GatewayAssumption == MaxRoutes \in Nat /\ MaxRequests \in Nat

VARIABLES
    table,      \* the routes loaded, in the order they are tried
    exchange,   \* the last request and what became of it
    count       \* requests served

gatewayVars == <<table, exchange, count>>

Variable == "{}"
Missing == "missing"
NotAString == "not a string"
Blank == "blank"

IsTemplate(pattern) == \E k \in DOMAIN pattern : pattern[k] = Variable

\* Route.matches: no methods means all of them; a pattern covers every path
\* it is a prefix of, segment by segment.
Covers(pattern, path) ==
    /\ Len(pattern) <= Len(path)
    /\ \A k \in DOMAIN pattern : pattern[k] \in {Variable, path[k]}
matches(route, method, path) ==
    /\ route.methods = {} \/ method \in route.methods
    /\ Covers(route.pattern, path)

\* A mode that is left out is "header".
SuccessorMode(raw) == IF raw = "" THEN "header" ELSE raw
usesSuccessor(route, prefer) ==
    route.successor # Missing /\ (SuccessorMode(route.mode) = "always" \/ prefer)

methodsOverlap(l, r) == l = {} \/ r = {} \/ l \cap r # {}

\* What a configuration is refused for: an upstream that is not an absolute
\* URL, a mode that is neither, a rewrite of a template, a translation without
\* a successor, targets or mappings.
ValidUpstream(url) == url \notin {Missing, "relative"}
ValidMode(f) ==
    /\ SuccessorMode(f.mode) \in {"header", "always"}
    /\ f.mode = "always" => f.successor # Missing
ValidRewrite(f) == f.rewrite # << >> => ~IsTemplate(f.pattern)
ValidTranslation(f) ==
    f.targets # << >> =>
        /\ f.successor # Missing
        /\ DOMAIN Mappings # {}
        /\ \A k \in DOMAIN f.targets : f.targets[k].canonical # ""
ValidRoute(f) ==
    /\ ValidUpstream(f.legacy)
    /\ f.successor # Missing => ValidUpstream(f.successor)
    /\ ValidMode(f) /\ ValidRewrite(f) /\ ValidTranslation(f)

validateUniqueRouteCoverage(files) ==
    \A j, k \in DOMAIN files :
        j # k => /\ files[j].name # files[k].name
                 /\ ~(/\ files[j].pattern = files[k].pattern
                      /\ methodsOverlap(files[j].methods, files[k].methods))

\* The sort of NewRouteTable: longer patterns first, then more methods; it is
\* stable, so routes that tie stay in the order of the file.
RouteBefore(files, j, k) ==
    LET weight(f) == <<f.length, Cardinality(f.methods)>>
        l == weight(files[j])
        r == weight(files[k])
    IN  \/ l[1] > r[1]
        \/ l[1] = r[1] /\ l[2] > r[2]
        \/ l = r /\ j < k
Sorted(files) ==
    LET order == SetToSortSeq(DOMAIN files, LAMBDA j, k : RouteBefore(files, j, k))
    IN  [n \in DOMAIN files |-> files[order[n]]]

-----------------------------------------------------------------------------
(* Identity translation *)

\* firstString: the first of the fields that is there decides.
firstString(payload, fields) ==
    LET present == SelectSeq(fields, LAMBDA f : f \in DOMAIN payload)
    IN  IF present = << >> THEN Missing ELSE payload[Head(present)]
EmptyBody == [empty |-> TRUE]
Unusable == {NotAString, Blank}

Without(payload, fields) ==
    [f \in DOMAIN payload \ { fields[k] : k \in DOMAIN fields } |-> payload[f]]
With(payload, field, value) ==
    [f \in DOMAIN payload \cup {field} |-> IF f = field THEN value ELSE payload[f]]

\* translateTarget: the canonical identity, NoLegacy when the body names none,
\* or NoIdentity when what it names cannot be translated.
NoLegacy == [lacks |-> "legacy fields"]
NoIdentity == [lacks |-> "identity"]
translateTarget(payload, target) ==
    LET legacy == firstString(payload, target.profile)
        instance == firstString(payload, target.instance)
        session == firstString(payload, target.session)
        mapping == Mappings[legacy]
        known(value, default) == IF value = Missing THEN default ELSE value
    IN  IF legacy = Missing THEN NoLegacy
        ELSE IF \/ legacy \notin DOMAIN Mappings
                \/ instance \in Unusable \/ session \in Unusable
                \/ known(instance, mapping.instance) = Missing
        THEN NoIdentity
        ELSE [profile |-> mapping.profile, instance |-> known(instance, mapping.instance),
              session |-> known(session, mapping.session)]

Refused == [refused |-> TRUE]

\* Mutant of Step: a target that cannot be translated is left as it is.
StepLenient(payload, target) ==
    LET translated == translateTarget(payload, target)
    IN  IF translated \in {NoLegacy, NoIdentity} THEN payload
        ELSE With(payload, target.canonical, translated)

\* One target: the identity is set, and the legacy fields are removed.
Step(payload, target) ==
    LET translated == translateTarget(payload, target)
    IN  IF \/ payload = Refused \/ translated = NoIdentity
           \/ translated = NoLegacy /\ target.required
        THEN Refused
        ELSE IF translated = NoLegacy THEN payload
        ELSE Without(With(payload, target.canonical, translated),
                     target.profile \o target.instance \o target.session)

\* TranslateJSON: an empty body passes unless a target is required; the targets
\* are taken in order, each seeing what the ones before it removed.
TranslateJSON(body, targets) ==
    IF body = EmptyBody
    THEN IF \E k \in DOMAIN targets : targets[k].required THEN Refused ELSE body
    ELSE FoldLeft(Step, body, targets)

-----------------------------------------------------------------------------
NoExchange == [status |-> "none"]

(* The table holds valid routes; a request ends in one of four ways. *)
GatewayTypeOK ==
    /\ \A k \in DOMAIN table : ValidRoute(table[k])
    /\ exchange.status \in {"none", "not_found", "bad_request", "forwarded", "bad_gateway"}
    /\ count \in 0 .. MaxRequests

\* LoadRouteTable: the program does not start with a configuration it refuses.
GatewayInit ==
    /\ \E files \in BoundedSeq(RouteFiles, MaxRoutes) :
          /\ files # << >>
          /\ \A k \in DOMAIN files : ValidRoute(files[k])
          /\ validateUniqueRouteCoverage(files)
          /\ table = Sorted(files)
    /\ exchange = NoExchange /\ count = 0

\* PathRewrite.Apply: the pattern at the head of the path is exchanged.
Rewritten(route, path) ==
    IF route.rewrite = << >> THEN path
    ELSE route.rewrite \o SubSeq(path, Len(route.pattern) + 1, Len(path))

Matching(request) ==
    { k \in DOMAIN table : matches(table[k], request.method, request.path) }

\* ForwardHTTP: the first route that matches; a body is translated only on the
\* way to a successor; the upstream may not answer.
ForwardHTTP(request) ==
    /\ count < MaxRequests
    /\ count' = count + 1
    /\ IF Matching(request) = {}
       THEN exchange' = [status |-> "not_found", request |-> request]
       ELSE LET route == table[Min(Matching(request))]
                successor == usesSuccessor(route, request.prefer)
                body == IF successor /\ route.targets # << >>
                        THEN TranslateJSON(request.body, route.targets) ELSE request.body
            IN  IF body = Refused
                THEN exchange' = [status |-> "bad_request", request |-> request]
                ELSE \E status \in {"forwarded", "bad_gateway"} :
                        exchange' = [status |-> status, request |-> request, route |-> route,
                                     target |-> IF successor THEN route.successor ELSE route.legacy,
                                     path |-> Rewritten(route, request.path), body |-> body]
    /\ UNCHANGED table

GatewayNext == \E request \in Inbound : ForwardHTTP(request)
GatewaySpec == GatewayInit /\ [][GatewayNext]_gatewayVars

-----------------------------------------------------------------------------
Passed == exchange.status \in {"forwarded", "bad_gateway"}

\* The route a request takes does not depend on the order of the configuration
\* as far as literal patterns go: no loaded literal route that also matches has
\* a longer path than the literal route taken.
MostSpecific ==
    Passed /\ ~IsTemplate(exchange.route.pattern) =>
        \A k \in Matching(exchange.request) :
            IsTemplate(table[k].pattern) \/ Len(table[k].pattern) <= Len(exchange.route.pattern)

\* A successor that expects canonical identities never gets a legacy one: what
\* a translating route lets through has none of the legacy fields of a target
\* it translated, an identity the mapping knows for each required target, and
\* all other fields as they came; the legacy upstream gets the body as it was.
NothingHalfTranslated ==
    Passed =>
        LET targets == exchange.route.targets
            before == exchange.request.body
            after == exchange.body
            translated == { k \in DOMAIN targets : targets[k].canonical \in DOMAIN after }
        IN  IF exchange.target # exchange.route.successor \/ targets = << >> \/ before = EmptyBody
            THEN after = before
            ELSE /\ \A k \in DOMAIN targets : targets[k].required => k \in translated
                 /\ \A k \in translated :
                       /\ \E m \in DOMAIN Mappings :
                             after[targets[k].canonical].profile = Mappings[m].profile
                       /\ \A n \in DOMAIN targets[k].profile :
                             targets[k].profile[n] \notin DOMAIN after
                 /\ \A f \in DOMAIN before : f \in DOMAIN after => after[f] = before[f]

\* Which upstream gets a request, and what it is sent.  Behaviour of
\* RouteTable.Match and TranslateJSON (src/gateway/internal/routing.go,
\* identity.go).
ForwardedAsRouted == GatewayTypeOK /\ MostSpecific /\ NothingHalfTranslated
=============================================================================
