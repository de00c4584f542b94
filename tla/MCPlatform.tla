----------------------------- MODULE MCPlatform ------------------------------
(* Small instances of parts of the platform that share no state in one run:  *)
(* component says which of them moves, the others stay as they began.        *)
EXTENDS Platform, TLC

VARIABLES
  component,
  workflows, processes,                                           \* export workflow
  step, files, reports, gaps, phases, ends                        \* report analysis

tenancy == <<tenants, users, tokens, requests, windows, ended>>

rows == <<sessionWide, owner, context, stage>>

export == <<workflows, processes>>

review == <<resolutions, queue>>

trust == <<contexts, policies, sessions, patterns, accesses, analyses>>

gates == <<gateways, objects, passing>>

tests == <<slugs, cards, loads, reader>>

statistics == <<made, inserting, daily, kept, calculations, readers, overlapped>>

plan == <<step, files, reports, gaps, phases, ends>>

lifecycle == <<starting, attempt, redisClient, limiterStore, jobQueue, pool, io, accepting, served, handlers, exit, cut>>

limits == <<tiers, client, records, limiterCache, limited, promised>>

golden == <<listings, table, goldenSet, sample, notes, baseline, report, comparison, processed>>

identity == <<proofs, devices, behaviour, answers>>

vars == <<component, now, tenancy, rows, export, review, trust, gates, tests, statistics, plan, lifecycle, limits, golden, identity>>

TenantPermissions == {{"read", "tenant_admin"}}
TenantUpdates == {"status" :> "active", "status" :> "suspended", "id" :> "tenant_main"}
TenantNeeds == {[permissions |-> {"read"}, level |-> "tenant_data", tier |-> "basic"]}

\* Two connections for queries of two users, requests and a tenant's query.
KindOfOperation == <<"query", "query", "request", "tenant", "report">>
UserOfOperation == <<"u", "service_account", "v", "u", "v">>

\* The second attempt of a request is the last one.
Workflows == INSTANCE ExportWorkflow WITH
  Workflow <- {1}, RetryAttempts <- 2, Timeout <- 1, Interval <- 1, MaxWaitTime <- 2,
  KeepFor <- 1, None <- None

ReviewConflicts ==
  {[critical |-> TRUE, confidence |-> 4, value |-> "x"], [critical |-> FALSE, confidence |-> 5, value |-> "x"]}

\* Two risks, of which one is refused without a second factor; a policy that is
\* switched off, and one that nobody gave conditions.
Factor(device, attempts) ==
  [unknownDevice |-> device, unusualLocation |-> device, unusualTime |-> FALSE,
   failedAttempts |-> attempts, suspicionScore |-> 0]
TrustFactors == {Factor(FALSE, 1), Factor(TRUE, 0)}
TrustPolicies ==
  {[id |-> "high-risk-block", enabled |-> FALSE, priority |-> 1, type |-> "risk",
    operator |-> "less_than", value |-> 0, actions |-> {}],
   [id |-> "high-risk-block", enabled |-> TRUE, priority |-> 1, type |-> None, actions |-> None]}
TrustEvents == {[type |-> "suspicious", riskScore |-> 60]}
TrustBehaviours ==
  {[type |-> "typing", data |-> 120], [type |-> "mouse", data |-> 140],
   [type |-> "navigation", data |-> [suspicious |-> FALSE, frequency |-> 10]], [type |-> "timing", data |-> 800]}

\* Three requests, some of one address, to the two gateways an id has stood for.
GatewayConfigs == {[limited |-> TRUE, max |-> 1, auth |-> FALSE], [limited |-> FALSE, max |-> 1, auth |-> TRUE]}
GatewayRequests ==
  {[ip |-> "a", key |-> "k", get |-> TRUE, token |-> TRUE], [ip |-> "b", key |-> "l", get |-> FALSE, token |-> FALSE]}

\* Two cards of one gateway whose masked numbers are the same, one of it and one
\* of another that are not.
Pan(first) == [first |-> first, length |-> 16, last |-> "l"]
Row(columns, result, pan) == [kind |-> "row", columns |-> columns, result |-> result, pan |-> pan]
TestLines ==
  <<[kind |-> "gateway", slug |-> "b"], Row(4, "declined", Pan("2")), Row(3, "x", Pan("2")),
    Row(1, "x", Pan("x")), Row(2, "x", Pan("1")), [kind |-> "other"],
    [kind |-> "gateway", slug |-> "a"], Row(2, "x", Pan("1"))>>
TestNames == <<"a", "b">>
TestNumbers == <<Pan("1"), Pan("2")>>

\* Two reports: one of up to three open items, one of an item and a metric that
\* may ask for the same.
Header(name) == [kind |-> "header", name |-> name]
Item(description) == [kind |-> "pending", description |-> description]
Measure(name, current) == [kind |-> "metric", name |-> name, current |-> current, target |-> 10, measured |-> TRUE]
FirstReports ==
  {<<Header(h)>> \o [i \in DOMAIN w |-> Item({<<"x", "y", "z">>[i]} \cup w[i])] :
     h \in {"Security", "Testing", "General"},
     w \in UNION {[1..n -> {{"CRITICAL", "HIGH"}, {"HIGH"}, {}}] : n \in 1..3}}
SecondReports ==
  {<<Header(h), Item(d), m>> :
     h \in {"Security", "Testing", "General"}, d \in {{"x", "CRITICAL"}, {"v", "CRITICAL"}, {"improve", "data"}},
     m \in {Measure({"coverage", "quality"}, 7), Measure({"data"}, 8), Measure({"security"}, 7), Measure({"score"}, 12)}}
Plan == INSTANCE WorkPlan WITH
  stage <- step, Files <- {<<>>} \cup {<<f, s>> : f \in FirstReports, s \in SecondReports}

\* A path with one limiter, and one that two share, of which one knows the tiers.
TierPoints(tier) == IF tier = "free" THEN 1 ELSE 2
LimitedRoutes ==
  {[path |-> "/login", points |-> 1, duration |-> 2], [path |-> "/", points |-> 2, duration |-> 3],
   [path |-> "/", points |-> None, duration |-> None]}

\* Up to three sources list one BIN, or one of them twice; another BIN is in one.
Listing(source, bin, values) ==
  [source |-> source, bin |-> bin, country |-> values[1], network |-> values[2], issuer |-> values[3], type |-> values[4]]
Alpha == <<"A", "v", <<1, 2, 3, 4, 5>>, "debit">>
Beta == <<"B", "v", <<1, 2, 3, 4, 6>>, "debit">>
Sparse == <<"A", "v", None, None>>
Odd == <<None, None, <<7, 8>>, "debit">>
Listings ==
  {<<Listing("csv", 1, a[1]), Listing("yml", 1, a[2]), Listing("csv", 2, Alpha)>> :
     a \in {<<Alpha, Sparse>>, <<Alpha, Beta>>, <<Odd, Sparse>>}}
    \cup {<<Listing("csv", 1, Alpha), Listing("web", 1, Beta), Listing(s, 1, Beta)>> : s \in {"web", "yml"}}
Known(values) == [country |-> values[1], network |-> values[2], issuer |-> values[3], type |-> values[4]]
WeightOfSource(source) == IF source = "csv" THEN 2 ELSE 1
GoldenEntries == {Known(Beta)}

\* Sound and unsound proofs, some of which the confidence or chance decides.
Proof(type, sound, confidence) == [type |-> type, sound |-> sound, confidence |-> confidence]
Behaviour(speed, movements, timed) == [typingSpeed |-> speed, mouseMovements |-> movements, timePatterns |-> timed]
IdentityProofs ==
  {Proof("password", TRUE, 10), Proof("mfa", FALSE, 10), Proof("biometric", TRUE, 0),
   Proof("behavioral", TRUE, 5), Proof("contextual", TRUE, -1)}
IdentityBehaviours == {Behaviour(60, 0, TRUE), Behaviour(200, 110, FALSE)}

Init ==
  /\ component \in {"tenancy", "rows", "export", "review", "trust", "gates", "tests", "statistics", "plan", "lifecycle", "limits", "golden", "identity"}
  /\ Tenancy!Init /\ Rows!Init /\ (component # "rows" => sessionWide)
  /\ Workflows!Init /\ Review!Init /\ Trust!Init /\ Gates!Init /\ Tests!Init /\ Statistics!Init /\ Golden!Init /\ Identities!Init
  /\ Server!Init /\ Limits!Init
  /\ IF component = "plan" THEN Plan!Init /\ files # <<>>
     ELSE step = "parsing" /\ files = <<>> /\ reports = <<>> /\ gaps = <<>> /\ phases = <<>> /\ ends = <<>>
  /\ component # "golden" => listings = (CHOOSE l \in Listings : TRUE) /\ table = [b \in {1, 2} |-> None]
  /\ component # "limits" => client /\ tiers["u"] = None

Next ==
  \/ /\ component = "tenancy" /\ Tenancy!Next
     /\ UNCHANGED <<component, rows, export, review, trust, gates, tests, statistics, plan, lifecycle, limits, golden, identity>>
  \/ /\ component = "rows" /\ Rows!Next
     /\ UNCHANGED <<component, now, tenancy, export, review, trust, gates, tests, statistics, plan, lifecycle, limits, golden, identity>>
  \/ /\ component = "export" /\ Workflows!Next
     /\ UNCHANGED <<component, now, tenancy, rows, review, trust, gates, tests, statistics, plan, lifecycle, limits, golden, identity>>
  \/ /\ component = "review" /\ Review!Next
     /\ UNCHANGED <<component, tenancy, rows, export, trust, gates, tests, statistics, plan, lifecycle, limits, golden, identity>>
  \/ /\ component = "trust" /\ Trust!Next
     /\ UNCHANGED <<component, tenancy, rows, export, review, gates, tests, statistics, plan, lifecycle, limits, golden, identity>>
  \/ /\ component = "gates" /\ Gates!Next
     /\ UNCHANGED <<component, tenancy, rows, export, review, trust, tests, statistics, plan, lifecycle, limits, golden, identity>>
  \/ /\ component = "tests" /\ Tests!Next
     /\ UNCHANGED <<component, now, tenancy, rows, export, review, trust, gates, statistics, plan, lifecycle, limits, golden, identity>>
  \/ /\ component = "statistics" /\ Statistics!Next
     /\ UNCHANGED <<component, tenancy, rows, export, review, trust, gates, tests, plan, lifecycle, limits, golden, identity>>
  \/ /\ component = "plan" /\ Plan!Next
     /\ UNCHANGED <<component, now, tenancy, rows, export, review, trust, gates, tests, statistics, lifecycle, limits, golden, identity>>
  \/ /\ component = "lifecycle" /\ Server!Next
     /\ UNCHANGED <<component, now, tenancy, rows, export, review, trust, gates, tests, statistics, plan, limits, golden, identity>>
  \/ /\ component = "limits" /\ Limits!Next
     /\ UNCHANGED <<component, tenancy, rows, export, review, trust, gates, tests, statistics, plan, lifecycle, golden, identity>>
  \/ /\ component = "golden" /\ Golden!Next
     /\ UNCHANGED <<component, now, tenancy, rows, export, review, trust, gates, tests, statistics, plan, lifecycle, limits, identity>>
  \/ /\ component = "identity" /\ Identities!Next
     /\ UNCHANGED <<component, tenancy, rows, export, review, trust, gates, tests, statistics, plan, lifecycle, limits, golden>>

Proceeds ==
  /\ component = "export" /\ Workflows!Proceeds
  /\ UNCHANGED <<component, now, tenancy, rows, review, trust, gates, tests, statistics, plan, lifecycle, limits, golden, identity>>

Only(Action) ==
  /\ component = "lifecycle" /\ Action
  /\ UNCHANGED <<component, now, tenancy, rows, export, review, trust, gates, tests, statistics, plan, limits, golden, identity>>

ServerFairness == WF_vars(Only(Server!Starts \/ Server!Querying)) /\ WF_vars(Only(Server!Handling))

Spec == Init /\ [][Next]_vars /\ WF_vars(Proceeds) /\ ServerFairness

Types ==
  /\ component = "tenancy" => Tenancy!TypeOK
  /\ component = "rows" => Rows!TypeOK
  /\ component = "export" => Workflows!TypeOK
  /\ component = "review" => Review!TypeOK
  /\ component = "trust" => Trust!TypeOK
  /\ component = "gates" => Gates!TypeOK
  /\ component = "tests" => Tests!TypeOK
  /\ component = "statistics" => Statistics!TypeOK
  /\ component = "plan" => Plan!TypeOK
  /\ component = "lifecycle" => Server!TypeOK
  /\ component = "limits" => Limits!TypeOK
  /\ component = "golden" => Golden!TypeOK
  /\ component = "identity" => Identities!TypeOK
EveryWorkflowEnds == component = "export" => Workflows!EveryWorkflowEnds
PlanIsComplete == component = "plan" => Plan!PlanIsComplete
StartAndStopEnd == component = "lifecycle" => Server!StartAndStopEnd
=============================================================================
