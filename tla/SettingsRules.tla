---------------------------- MODULE SettingsRules ----------------------------
(***************************************************************************)
(* How djaudit judges resolved settings (rules/_base.py and the DJS rules  *)
(* built on it), next to what a deployment of each settings module does.   *)
(*                                                                         *)
(* A behaviour is one rule object's check() on one project: the modules    *)
(* that reach production are gathered by the assignment that decides the   *)
(* setting, each group is inspected through its weightiest module, and     *)
(* the rule object carries what it noted about one group into the next.    *)
(* A value is what SettingsChain resolves, the branches a setting can take *)
(* in a module; here a branch is a token that says what the rule would     *)
(* make of it.                                                             *)
(***************************************************************************)
EXTENDS Naturals, Sequences, FiniteSets, FiniteSetsExt

CONSTANTS Modules,         \* settings files, numbered by their dotted names
          Base,            \* the one the others may star-import
          Rules,           \* the rules under test, of the catalogue below
          RolesOf,         \* the roles a file may have, from its name and place
          MaxAssignments   \* bound: assignments of the project

Roles == {"production", "primary", "unknown", "base", "development", "unlisted"}

ASSUME ModulesAreNumbered ==
    Modules \subseteq Nat \ {0} /\ IsFiniteSet(Modules) /\ Base \in Modules
ASSUME RolesAreKnown == RolesOf \in [Modules -> SUBSET Roles]
ASSUME OnlyTheBaseIsABase == \A m \in Modules \ {Base} : "base" \notin RolesOf[m]

\* Rules whose findings heirs can correct judge every branch of a value, and a
\* value they call safe is safe.
ASSUME CorrectableRulesReadBranches ==
    \A r \in Rules : r.corrects => /\ ~r.single
                                   /\ "fine" \notin r.some \cup r.every
                                   /\ r.every \cap {"unknown", "local"} = {}

VARIABLES rule, project,
          begun,       \* the project is written, check() has begun
          waiting,     \* SettingsRule.groups, those not inspected yet
          inert,       \* the rule object's _inert
          unreadable,  \* the rule object's _unreadable
          findings,
          manifest     \* what DJS-025 makes of a debug package that is shipped

settingsVars == <<rule, project, begun, waiting, inert, unreadable, findings, manifest>>

AtCertain == 0
Firm == 1
Tentative == 2

-----------------------------------------------------------------------------
(* The catalogue.  A value is unsafe when some branch is in some, or every *)
(* branch is in every; single rules judge nothing but one literal.  A      *)
(* setting nobody assigns is default.  A ceiling drops to tentative when   *)
(* all that is unsafe is in doubt.  needs says what else decides whether   *)
(* the value matters.                                                      *)

Setting == [some |-> {"bad"}, every |-> {}, single |-> FALSE, explicit |-> FALSE,
            doubt |-> {}, default |-> "fine", needs |-> "nothing", corrects |-> TRUE,
            ceiling |-> Firm, severity |-> "medium"]

\* could_be_off and could_be_under: what cannot be read is not known to be on.
Flag == [Setting EXCEPT !.some = {"bad", "unknown"}]

Credential == [Setting EXCEPT !.single = TRUE, !.explicit = TRUE, !.corrects = FALSE,
                              !.ceiling = AtCertain, !.severity = "critical"]

DebugEnabled == [Setting EXCEPT !.explicit = TRUE, !.needs = "role"]
HardcodedSecretKey == Credential
WeakSecretKey == [Credential EXCEPT !.default = "hollow"]
HardcodedDatabasePassword == [Credential EXCEPT !.default = "absent"]
HardcodedServiceCredential == [Credential EXCEPT !.default = "absent", !.severity = "high"]

SslRedirectDisabled == [Flag EXCEPT !.default = "bad", !.needs = "security middleware"]
HstsNotEnforced == [SslRedirectDisabled EXCEPT !.severity = "low"]
HstsSubdomainsExcluded == [HstsNotEnforced EXCEPT !.needs = "security middleware, HSTS"]
ContentTypeSniffingAllowed == [Flag EXCEPT !.needs = "security middleware"]

SessionCookieNotSecure == [Flag EXCEPT !.default = "bad", !.needs = "cookie middleware",
                                       !.ceiling = AtCertain, !.severity = "high"]
CsrfCookieNotSecure == [SessionCookieNotSecure EXCEPT !.severity = "medium"]
SessionCookieNotHttpOnly == [CsrfCookieNotSecure EXCEPT !.default = "fine"]

\* A header Django cannot match is bad; one it can, hollow.
ProxySslHeaderTrusted == [Setting EXCEPT !.some = {"bad", "hollow"}, !.single = TRUE,
                                         !.doubt = {"hollow"}, !.corrects = FALSE]

AllowedHostsUnrestricted == [Setting EXCEPT !.every = {"hollow"}, !.default = "hollow",
                                            !.needs = "DEBUG off", !.severity = "high"]
\* hollow is a wildcard under one site's own domain.
CsrfTrustedOriginsTooBroad == [Setting EXCEPT !.some = {"bad", "hollow"}, !.doubt = {"hollow"}]
CorsAllowsAllOrigins == [Setting EXCEPT !.default = "absent", !.needs = "credentials withheld"]
CorsWildcardWithCredentials == [Setting EXCEPT !.default = "absent", !.ceiling = AtCertain,
                                       !.needs = "credentials sent", !.severity = "critical"]
ClickjackingProtectionOff == [Setting EXCEPT !.needs = "framing middleware"]

WeakPasswordHasher == [Setting EXCEPT !.ceiling = AtCertain, !.severity = "high"]
NoPasswordValidators == [Setting EXCEPT !.some = {}, !.every = {"hollow"}, !.ceiling = AtCertain,
                                        !.default = "hollow", !.needs = "auth app"]

\* Of the databases one alias may be: local is SQLite.
ConnectionsNotReused == [Setting EXCEPT !.some = {}, !.every = {"bad", "local"},
                                 !.default = "absent", !.corrects = FALSE, !.severity = "low"]
PostgresWithoutTls == [Setting EXCEPT !.default = "absent", !.corrects = FALSE]
DatabaseKeyAtModuleLevel == [Setting EXCEPT !.explicit = TRUE, !.default = "absent",
                             !.needs = "no reference", !.corrects = FALSE, !.ceiling = AtCertain]

\* always_installed asks the branches it can read.
DebugToolingInstalled == [Setting EXCEPT !.some = {}, !.every = {"bad", "unknown"},
                                         !.needs = "spelled out", !.corrects = FALSE]
\* A reporter class that replaces the redaction; hollow when it cannot be read.
ErrorReportsLeakRequests == [Setting EXCEPT !.some = {"bad", "hollow"}, !.single = TRUE,
                             !.doubt = {"hollow"}, !.default = "absent", !.corrects = FALSE]

\* Importing the rule modules registers every rule in them.
Catalogue ==
    {DebugEnabled, HardcodedSecretKey, WeakSecretKey, HardcodedDatabasePassword,
     HardcodedServiceCredential, SslRedirectDisabled, HstsNotEnforced, HstsSubdomainsExcluded,
     ContentTypeSniffingAllowed, SessionCookieNotSecure, CsrfCookieNotSecure,
     SessionCookieNotHttpOnly, ProxySslHeaderTrusted, AllowedHostsUnrestricted,
     CsrfTrustedOriginsTooBroad, CorsAllowsAllOrigins, CorsWildcardWithCredentials,
     ClickjackingProtectionOff, WeakPasswordHasher, NoPasswordValidators, ConnectionsNotReused,
     PostgresWithoutTls, DatabaseKeyAtModuleLevel, DebugToolingInstalled, ErrorReportsLeakRequests}
ASSUME RulesAreRegistered == Rules \subseteq Catalogue

\* The tokens one branch of the setting can be.
RuleTokens(r) == (r.some \cup r.every \cup {"fine", "unknown"})

\* What MIDDLEWARE and the one other setting can say, of use to the rule.
MiddlewareTokens(r) ==
    CASE r.needs \in {"security middleware", "security middleware, HSTS", "framing middleware",
                      "credentials withheld", "credentials sent"} -> {"lists", "omits", "unknown"}
      [] r.needs = "cookie middleware" -> {"lists", "sets flag", "leaves flag", "foreign"}
      [] OTHER -> {}
CompanionTokens(r) ==
    CASE r.needs \in {"DEBUG off", "credentials withheld", "credentials sent", "auth app",
                      "security middleware, HSTS"} -> {"true", "false", "unknown"}
      [] r.needs = "no reference" -> {"true", "false"}
      [] OTHER -> {}

-----------------------------------------------------------------------------
(* Projects, and what the resolver makes of them.                          *)

SettingNames == {"setting", "MIDDLEWARE", "companion"}

TokensOf(r, name) == CASE name = "setting" -> RuleTokens(r)
                       [] name = "MIDDLEWARE" -> MiddlewareTokens(r)
                       [] name = "companion" -> CompanionTokens(r)

\* An assignment: its branches, whether a variable decides, whether it stands
\* in a block that may not run, whether it adds to the list inherited.
WrittenValue(cases, env, cond, adds) == [cases |-> cases, env |-> env, cond |-> cond, adds |-> adds]
Plain(r, n) == {WrittenValue({t}, FALSE, FALSE, FALSE) : t \in TokensOf(r, n)}
Shaded(r, n) ==
    {WrittenValue({t, "unknown"}, FALSE, FALSE, FALSE) : t \in TokensOf(r, n)}
    \cup {WrittenValue(pair, FALSE, FALSE, FALSE) : pair \in kSubset(2, TokensOf(r, n) \ {"unknown"})}
    \cup {WrittenValue({t}, TRUE, FALSE, FALSE) : t \in TokensOf(r, n) \cap (r.some \cup r.every)}
    \cup {WrittenValue({t}, FALSE, TRUE, FALSE) : t \in TokensOf(r, n)}
    \cup (IF r.needs = "spelled out" THEN {WrittenValue({"fine"}, FALSE, FALSE, TRUE)} ELSE {})

\* The files after the second only assign the setting itself.
Slots(r) == {s \in Modules \X SettingNames : /\ TokensOf(r, s[2]) # {}
                                             /\ s[1] > 2 => s[2] = "setting"}

Writes(m, n) == <<m, n>> \in DOMAIN project.own
Inherits(m, n) == m \in project.heirs /\ Writes(Base, n)

IsConditionalValue(v) == Cardinality(v.cases) > 1
IsUnknownValue(v) == v.cases = {"unknown"}

\* _record merges an assignment that may not run with what was there, and the
\* taint of a branch that is itself conditional is lost.
Either(v, w) == [cases |-> v.cases \cup w.cases,
                 env   |-> (~IsConditionalValue(v) /\ v.env) \/ (~IsConditionalValue(w) /\ w.env)]

\* SettingsView.get, with Django's default for a name nobody assigned.
Get(m, n) ==
    LET bare(s) == [cases |-> project.own[s].cases, env |-> project.own[s].env]
        mine == project.own[<<m, n>>]
        inherited == bare(<<Base, n>>)
    IN IF ~Writes(m, n)
       THEN IF Inherits(m, n) THEN inherited
            ELSE [cases |-> {CASE n = "setting" -> rule.default
                               [] n = "MIDDLEWARE" -> "omits"
                               [] n = "companion" -> "false"}, env |-> FALSE]
       ELSE IF mine.adds
       THEN IF Inherits(m, n) /\ ~IsConditionalValue(inherited) THEN inherited
            ELSE [cases |-> {"unknown"}, env |-> FALSE]
       ELSE IF mine.cond /\ Inherits(m, n) THEN Either(inherited, bare(<<m, n>>))
       ELSE bare(<<m, n>>)

Value(m) == Get(m, "setting")

\* ResolvedSetting.definition: the last statement that assigns the name.
Nowhere == 0
Definition(m, n) == IF Writes(m, n) THEN m ELSE IF Inherits(m, n) THEN Base ELSE Nowhere
IsAssigned(m, n) == Definition(m, n) # Nowhere
Origin(m) == IF IsAssigned(m, "setting")
             THEN IF IsUnknownValue(Value(m)) THEN "unresolved" ELSE "explicit"
             ELSE IF rule.default = "absent" THEN "absent" ELSE "django default"
Doubtful(m, n) == IsAssigned(m, n) /\ project.own[<<Definition(m, n), n>>].cond

-----------------------------------------------------------------------------
(* rules/_base.py                                                          *)

IsListed(m) == project.role[m] # "unlisted"
ReachesProduction(m) == project.role[m] \in {"production", "primary", "unknown", "base"}

Weight(m) == CASE project.role[m] = "production" -> 4
               [] project.role[m] = "primary" -> 3
               [] project.role[m] = "unknown" -> 2
               [] OTHER -> 1

\* One group for each place the setting is decided, in the order met, each
\* graded by the first of its weightiest modules.
Members(m) == {k \in Modules : /\ ReachesProduction(k)
                               /\ Definition(k, "setting") = Definition(m, "setting")}
LightestLeads(m, group) ==
    m \in group /\ \A k \in group : Weight(m) < Weight(k) \/ (Weight(m) = Weight(k) /\ m <= k)
Leads(m, group) ==
    m \in group /\ \A k \in group : Weight(m) > Weight(k) \/ (Weight(m) = Weight(k) /\ m <= k)

Groups == {Members(m) : m \in {k \in Modules : ReachesProduction(k)}}
IsNext(g) == g \in waiting /\ \A h \in waiting : Min(g) <= Min(h)

Insecure(v) ==
    /\ rule.single => ~IsConditionalValue(v)
    /\ \/ v.cases \cap rule.some # {}
       \/ v.cases \subseteq rule.every /\ v.cases \notin {{"unknown"}, {"local"}}

\* overridden: a base is not deployed, and its production heirs all say better.
Heirs(m) == IF m = Base THEN {k \in project.heirs : ReachesProduction(k)} ELSE {}
Overridden(m, Safe(_)) ==
    project.role[m] = "base" /\ Heirs(m) # {} /\ \A h \in Heirs(m) : Safe(h)

ListsEntry(m) == LET v == Get(m, "MIDDLEWARE") IN
                 IF "lists" \in v.cases THEN "yes"
                 ELSE IF "unknown" \in v.cases THEN "cannot tell" ELSE "no"

MiddlewareMissing(m) == IsAssigned(m, "MIDDLEWARE") /\ ListsEntry(m) = "no"

NeedsSecurityMiddleware == rule.needs \in {"security middleware", "security middleware, HSTS"}

InertHere(m) == Origin(m) # "django default" /\ ~Insecure(Value(m)) /\ MiddlewareMissing(m)

\* CookieMiddlewareSetting.replacement: what stands in for Django's own class.
Replacements(m) ==
    LET v == Get(m, "MIDDLEWARE") IN
    IF "lists" \in v.cases THEN {} ELSE v.cases \cap {"sets flag", "leaves flag", "foreign"}

CouldBeTrue(m) == "true" \in Get(m, "companion").cases
Wildcarded(m) == "bad" \in Value(m).cases

\* A MIDDLEWARE that could not be read in full counts as installing it.
CorsInstalled(m) == ListsEntry(m) # "no"

InsecureHere(m) ==
    CASE NeedsSecurityMiddleware -> InertHere(m) \/ Insecure(Value(m))
      [] rule.needs = "framing middleware" -> MiddlewareMissing(m) \/ Insecure(Value(m))
      [] OTHER -> Insecure(Value(m))

\* applies, once the value is known to be unsafe; standing is the class found
\* in place of Django's, of those the branches name.
Applies(m, standing) ==
    CASE rule.needs = "cookie middleware" -> standing # "sets flag"
      [] rule.needs = "security middleware, HSTS" -> Get(m, "companion").cases = {"true"}
      [] rule.needs = "DEBUG off" -> Wildcarded(m) \/ ~CouldBeTrue(m)
      [] rule.needs = "credentials withheld" -> ~CouldBeTrue(m) /\ CorsInstalled(m)
      [] rule.needs = "credentials sent" -> CouldBeTrue(m) /\ CorsInstalled(m)
      [] rule.needs = "auth app" -> Get(m, "companion").cases # {"false"}
      [] rule.needs = "no reference" -> \A k \in Modules : IsListed(k) => ~CouldBeTrue(k)
      [] rule.needs = "spelled out" ->
            ~(Inherits(m, "setting") /\ Writes(m, "setting")
                /\ project.own[<<m, "setting">>].adds)
      [] OTHER -> TRUE

\* assess
StepsOfTheValue(m) ==
    IF Origin(m) = "unresolved" THEN 2 ELSE IF IsConditionalValue(Value(m)) THEN 2 ELSE 0
StepsBelow(m) ==
    IF Origin(m) = "unresolved" THEN 2
    ELSE (IF IsConditionalValue(Value(m)) THEN 2 ELSE 0)
         + (IF Doubtful(m, "setting") THEN 1 ELSE 0)
         + (IF Value(m).env THEN 1 ELSE 0)
         + (IF Origin(m) = "django default" THEN 1 ELSE 0)
Lower(ceiling, steps) == Min({ceiling + steps, Tentative})

CeilingFor(m) ==
    LET unsafe == Value(m).cases \cap (rule.some \cup rule.every) IN
    CASE unsafe # {} /\ unsafe \subseteq rule.doubt -> Tentative
      [] rule.needs = "framing middleware" /\ ~Wildcarded(m) -> AtCertain
      [] rule.needs = "role" /\ project.role[m] = "production" -> AtCertain
      [] OTHER -> rule.ceiling

SeverityFor(m) ==
    CASE rule.needs = "DEBUG off" /\ ~Wildcarded(m) -> "low"
      [] rule.needs = "role" -> IF project.role[m] \in {"production", "primary"}
                                THEN "critical" ELSE "high"
      [] OTHER -> rule.severity

Safe(m) == IF rule.needs = "role" THEN Value(m).cases = {"fine"} ELSE ~Insecure(Value(m))

-----------------------------------------------------------------------------
(* InsecureDefaultRule.inspect, one action per way out of it.              *)

SettingsInit ==
    /\ rule \in Rules
    /\ project \in [own : {[s \in {} |-> {}]}, heirs : SUBSET (Modules \ {Base}),
                    role : {f \in [Modules -> Roles] : \A m \in Modules : f[m] \in RolesOf[m]}]
    /\ begun = FALSE
    /\ waiting = {}
    /\ inert = FALSE
    /\ unreadable = FALSE
    /\ findings = {}
    /\ manifest = "unread"

\* The project's authors, in the order of the files; one assignment may be
\* more than a literal.
Earlier(s, t) == s[1] < t[1] \/ (s[1] = t[1] /\ s[2] = "setting" /\ t[2] # "setting")
                 \/ (s[1] = t[1] /\ s[2] = "MIDDLEWARE" /\ t[2] = "companion")

AllPlain == \A s \in DOMAIN project.own : project.own[s] \in Plain(rule, s[2])

MayWriteMore == ~begun /\ Cardinality(DOMAIN project.own) < MaxAssignments
Write(s, a) ==
    /\ MayWriteMore
    /\ \A t \in DOMAIN project.own : Earlier(t, s)
    /\ a \in Plain(rule, s[2]) \/ AllPlain
    /\ project' = [project EXCEPT !.own = [t \in DOMAIN @ \cup {s} |-> IF t = s THEN a ELSE @[t]]]
    /\ UNCHANGED <<rule, begun, waiting, inert, unreadable, findings, manifest>>

\* SettingsRule.check: the views are resolved and the groups gathered.
Begin ==
    /\ ~begun
    /\ begun' = TRUE
    /\ waiting' = Groups
    /\ UNCHANGED <<rule, project, inert, unreadable, findings, manifest>>

\* What inspecting a group through its leader m notes on the rule object: whether
\* the middleware is what is missing, and, where a class stands in for Django's,
\* whether it could be read.
NoteInert(m) == inert' = IF NeedsSecurityMiddleware THEN InertHere(m) ELSE inert
NoteUnreadable(standing) ==
    unreadable' = IF standing = "nothing" THEN unreadable ELSE standing = "foreign"

Turn(g, m) == /\ IsNext(g)
              /\ Leads(m, g)
              /\ waiting' = waiting \ {g}
              /\ NoteInert(m)
              /\ UNCHANGED <<rule, project, begun, manifest>>

NothingInsecure(g, m) ==
    /\ Turn(g, m)
    /\ ~InsecureHere(m)
    /\ UNCHANGED <<unreadable, findings>>

Standing(m) == IF rule.needs = "cookie middleware" /\ Replacements(m) # {}
               THEN Replacements(m) ELSE {"nothing"}

DoesNotApply(g, m, standing) ==
    /\ Turn(g, m)
    /\ InsecureHere(m)
    /\ ~Applies(m, standing)
    /\ NoteUnreadable(standing)
    /\ UNCHANGED findings

Speaks(m, standing) == InsecureHere(m) /\ Applies(m, standing)

CannotTell(g, m, standing) ==
    /\ Turn(g, m)
    /\ Speaks(m, standing)
    /\ Origin(m) = "unresolved" \/ (rule.explicit /\ Origin(m) # "explicit")
    /\ NoteUnreadable(standing)
    /\ UNCHANGED findings

\* The base never mentions the setting and every environment decides it.
LeftToTheHeirs(m) ==
    /\ rule.corrects
    /\ Origin(m) = "django default"
    /\ Overridden(m, LAMBDA h : IsAssigned(h, "setting") \/ Safe(h))

LeaveToTheHeirs(g, m, standing) ==
    /\ Turn(g, m)
    /\ Speaks(m, standing)
    /\ LeftToTheHeirs(m)
    /\ NoteUnreadable(standing)
    /\ UNCHANGED findings

Corrected(m) == rule.corrects /\ ~inert' /\ Overridden(m, Safe)

Finding(g, m) ==
    [modules |-> g, leader |-> m, corrected |-> Corrected(m),
     delegated |-> unreadable', inert |-> inert',
     severity |-> IF Corrected(m) THEN "low" ELSE SeverityFor(m),
     confidence |-> Lower(IF Corrected(m) \/ unreadable' THEN Tentative ELSE CeilingFor(m),
                          StepsBelow(m))]

Report(g, m, standing) ==
    /\ Turn(g, m)
    /\ Speaks(m, standing)
    /\ Origin(m) # "unresolved" /\ (rule.explicit => Origin(m) = "explicit")
    /\ ~LeftToTheHeirs(m)
    /\ NoteUnreadable(standing)
    /\ findings' = findings \cup {Finding(g, m)}

-----------------------------------------------------------------------------
(* DJS-025: a debug package in the production manifest, after DJS-024.     *)

\* always_installed and entry_node, per module that reaches production.
PresenceIn(m) ==
    LET readable == Value(m).cases \ {"unknown"} IN
    CASE ~IsAssigned(m, "setting") \/ readable = {} -> "unknown"
      [] readable = {"bad"} -> "always"
      [] "bad" \in readable -> "sometimes"
      [] OTHER -> "never"

Presence ==
    LET verdicts == {PresenceIn(m) : m \in {k \in Modules : ReachesProduction(k)}} IN
    CASE "always" \in verdicts -> "always"
      [] "always" \notin verdicts /\ "sometimes" \in verdicts -> "sometimes"
      [] verdicts \subseteq {"unknown", "never"} /\ verdicts # {"never"} -> "unknown"
      [] verdicts = {"never"} -> "never"

\* DJS-024 has already reported what is always installed.
DebugToolingDeployed ==
    /\ begun /\ waiting = {} /\ manifest = "unread"
    /\ rule.needs = "spelled out"
    /\ manifest' = IF Presence = "always" THEN "left to DJS-024" ELSE "reported"
    /\ UNCHANGED <<rule, project, begun, waiting, inert, unreadable, findings>>

Inspect ==
    \E g \in waiting : IsNext(g) /\ \E m \in g : Leads(m, g) /\
        \/ NothingInsecure(g, m)
        \/ \E standing \in Standing(m) :
              \/ DoesNotApply(g, m, standing) \/ CannotTell(g, m, standing)
              \/ LeaveToTheHeirs(g, m, standing) \/ Report(g, m, standing)

SettingsNext ==
    \/ /\ MayWriteMore
       /\ \E s \in Slots(rule) : \E a \in Plain(rule, s[2]) \cup Shaded(rule, s[2]) : Write(s, a)
    \/ Begin
    \/ Inspect
    \/ DebugToolingDeployed

SettingsSpec == SettingsInit /\ [][SettingsNext]_settingsVars

-----------------------------------------------------------------------------
(* What Django and the middleware do with the settings of a deployment.    *)

Concrete(n, token) ==
    CASE token = "unknown" -> TokensOf(rule, n) \ {"unknown", "foreign"}
      [] token = "foreign" -> {"sets flag", "leaves flag"}
      [] OTHER -> {token}

\* What a deployment of m that leaves the variables alone may run with: an
\* assignment in doubt that replaces nothing may leave Django's default.
Possible(m, n) ==
    (UNION {Concrete(n, token) : token \in Get(m, n).cases})
    \cup (IF Doubtful(m, n) /\ (Definition(m, n) = Base \/ ~Inherits(m, n))
          THEN {CASE n = "setting" -> rule.default
                  [] n = "MIDDLEWARE" -> "omits"
                  [] n = "companion" -> "false"} ELSE {})

Exposed(setting, middleware, companion) ==
    LET danger == setting \in (rule.some \cup rule.every) \ {"unknown", "local"} IN
    CASE rule.needs = "security middleware"  -> danger \/ middleware = "omits"
      [] rule.needs = "security middleware, HSTS" ->
            companion = "true" /\ (danger \/ middleware = "omits")
      [] rule.needs = "framing middleware"   -> danger \/ middleware = "omits"
      [] rule.needs = "cookie middleware"    -> danger /\ middleware # "sets flag"
      [] rule.needs = "DEBUG off"            -> setting = "bad" \/ (danger /\ companion = "false")
      [] rule.needs = "credentials withheld" ->
            danger /\ companion = "false" /\ middleware = "lists"
      [] rule.needs = "credentials sent"     ->
            danger /\ companion = "true" /\ middleware = "lists"
      [] rule.needs = "auth app"             -> danger /\ companion = "true"
      [] rule.needs = "no reference"         -> danger /\ companion = "false"
      [] OTHER                               -> danger

MayBeExposed(m) == \E s \in Possible(m, "setting"), w \in Possible(m, "MIDDLEWARE"),
                      c \in Possible(m, "companion") : Exposed(s, w, c)
IsExposed(m) == \A s \in Possible(m, "setting"), w \in Possible(m, "MIDDLEWARE"),
                   c \in Possible(m, "companion") : Exposed(s, w, c)

Settled(m, n) == Cardinality(Possible(m, n)) = 1

-----------------------------------------------------------------------------
(* Properties.                                                             *)

\* What a rule says firmly can happen to the module it names; what it says
\* for certain happens in every deployment of it, as far as the settings next
\* to the one it judges are settled.
FirmRisksAreReal ==
    \A f \in findings :
        /\ f.confidence <= Firm => MayBeExposed(f.leader)
        /\ f.confidence = AtCertain /\ Settled(f.leader, "MIDDLEWARE")
               /\ Settled(f.leader, "companion") => IsExposed(f.leader)

\* A module with no middleware at all is a fragment, not a deployment; what
\* cannot be read, or is written down nowhere, some rules do not judge.
Deployable(m) == ReachesProduction(m) /\ (MiddlewareTokens(rule) # {} => IsAssigned(m, "MIDDLEWARE"))
Judged(m) == /\ ~IsUnknownValue(Value(m)) /\ Origin(m) # "absent"
             /\ rule.explicit => Origin(m) = "explicit"
             /\ rule.single => ~IsConditionalValue(Value(m))
             /\ NeedsSecurityMiddleware => Origin(m) = "explicit" \/ Insecure(Value(m))
             /\ rule.needs = "no reference" => Applies(m, "nothing")

\* A risk every deployment of the weightiest module of a group runs is named,
\* unless that module is a base whose heirs all decide for themselves; a debug
\* package, through the module that spells it out.
RisksAreNamed ==
    begun /\ waiting = {} => \A m \in Modules :
        (/\ Deployable(m) /\ Leads(m, Members(m)) /\ Judged(m) /\ IsExposed(m)
         /\ ~(project.role[m] = "base" /\ \E h \in Heirs(m) : IsAssigned(h, "setting")))
        => \E f \in findings : \/ m \in f.modules
                               \/ ~Applies(m, "nothing") /\ Base \in f.modules

\* A finding that is sure is of a risk, and a risk that is sure has a finding.
RisksAreJudged == FirmRisksAreReal /\ RisksAreNamed

\* A finding toned down because the heirs correct it says so of every module
\* that inherits from the base and reaches production: none of them runs with
\* the base's value, nor with another one the rule can read and calls unsafe.
CorrectionsHold ==
    \A f \in findings : f.corrected =>
        \A h \in Heirs(f.leader) :
            /\ h \notin f.modules
            /\ Value(h).cases \cap rule.some \subseteq {"unknown"}
            /\ ~(Value(h).cases \subseteq rule.every)

\* A finding is tentative because a class outside the project may set the flag
\* only where the module it names has such a class.
DelegationIsItsOwn ==
    \A f \in findings : f.delegated => "foreign" \in Get(f.leader, "MIDDLEWARE").cases

\* A debug package that a production module always installs is named by
\* DJS-024 or by DJS-025: neither leaves it to the other.
InstalledToolingIsNamed ==
    manifest = "left to DJS-024" => findings # {}

=============================================================================
