---------------------------- MODULE MCProjectRules ----------------------------
(* What the rules say of what a project declares, in five machines of which a         *)
(* behaviour runs one: settings modules are written and a rule of SettingsRules judges *)
(* them; a view and its settings are declared and audited (ApiRules); three            *)
(* serializers, or the querysets of a view, are written and judged as they stand       *)
(* (SerializerRules, QuerysetRules); DATABASES is assigned in a few settings files     *)
(* (PortabilityRules).                                                                 *)
EXTENDS SettingsRules, ApiRules, SerializerRules, QuerysetRules, PortabilityRules, TLC

VARIABLE surface   \* the machine that runs

TheRules ==
    {DebugEnabled, HardcodedSecretKey, WeakSecretKey, HardcodedDatabasePassword,
     HardcodedServiceCredential, HstsSubdomainsExcluded,
     SessionCookieNotSecure, ProxySslHeaderTrusted,
     AllowedHostsUnrestricted, CsrfTrustedOriginsTooBroad,
     CorsAllowsAllOrigins, CorsWildcardWithCredentials, ClickjackingProtectionOff,
     WeakPasswordHasher, NoPasswordValidators, ConnectionsNotReused, PostgresWithoutTls,
     DatabaseKeyAtModuleLevel, DebugToolingInstalled, ErrorReportsLeakRequests}
TheRoles == 1 :> {"base"} @@ 2 :> {"production"} @@ 3 :> {"unknown"}
TheListings ==
    {{"password"}, {"owner"}, {"is_staff"}, {"password", "owner", "is_staff"}}

At(guard, shape, databases) ==
    [guard |-> guard, tried |-> FALSE, shape |-> shape, databases |-> databases]
TheAssignments ==
    {At({}, "dict", [default |-> e]) : e \in {"sqlite3", "postgis", "computed"}}
    \cup {At({}, "dict", [default |-> "psqlextra", replica |-> "spatialite"]),
          At({}, "call", NoDatabases), At({}, "augmented", [replica |-> "mysql"]),
          At({}, "in place", [default |-> "postgis"]),
          At({<<"A", TRUE>>}, "dict", [default |-> "postgis"]),
          At({<<"A", TRUE>>}, "dict", [default |-> "sqlite3", replica |-> "mysql"]),
          At({<<"A", FALSE>>}, "dict", [default |-> "spatialite"]),
          At({<<"A", FALSE>>, <<"B", TRUE>>}, "dict", [replica |-> "postgis"]),
          [At({}, "dict", [default |-> "postgis"]) EXCEPT !.tried = TRUE]}

\* What the machines that do not run have of a project.
NoSettings ==
    /\ SettingsInit /\ rule = DebugEnabled
    /\ project.heirs = {} /\ project.role[3] = "unknown"
NoView ==
    /\ site = [routing |-> "router", handlers |-> {"get"}, declared |-> [s \in {} |-> 0]]
    /\ audited = FALSE /\ apiReports = {}
NoSerializer ==
    SerializersInit /\ fixed = {} /\ meta["other"] = OpenShape

NoViewset == QuerysetsInit

NoDatabase == PortabilityInit /\ importers = {}

ProjectInit ==
    \/ surface = "settings" /\ SettingsInit /\ 2 \in project.heirs
       /\ NoView /\ NoSerializer /\ NoViewset /\ NoDatabase
    \/ surface = "views" /\ NoSettings /\ ApiInit /\ NoSerializer /\ NoViewset /\ NoDatabase
    \/ surface = "serializers" /\ NoSettings /\ NoView /\ SerializersInit /\ NoViewset /\ NoDatabase
    \/ surface = "querysets" /\ NoSettings /\ NoView /\ NoSerializer /\ QuerysetsInit /\ NoDatabase
    \/ surface = "engines" /\ NoSettings /\ NoView /\ NoSerializer /\ NoViewset /\ PortabilityInit

ProjectNext ==
    /\ UNCHANGED surface
    /\ \/ surface = "settings" /\ SettingsNext
          /\ UNCHANGED <<apiVars, serializerVars, querysetVars, wiringVars>>
       \/ surface = "views" /\ ApiNext
          /\ UNCHANGED <<settingsVars, serializerVars, querysetVars, wiringVars>>
       \/ surface = "serializers" /\ SerializersNext
          /\ UNCHANGED <<settingsVars, apiVars, querysetVars, wiringVars>>
       \/ surface = "querysets" /\ QuerysetsNext
          /\ UNCHANGED <<settingsVars, apiVars, serializerVars, wiringVars>>
       \/ surface = "engines" /\ PortabilityNext
          /\ UNCHANGED <<settingsVars, apiVars, serializerVars, querysetVars>>

projectVars == <<surface, settingsVars, apiVars, serializerVars, querysetVars, wiringVars>>

ProjectSpec == ProjectInit /\ [][ProjectNext]_projectVars
=============================================================================
