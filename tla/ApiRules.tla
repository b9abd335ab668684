------------------------------- MODULE ApiRules -------------------------------
(***************************************************************************)
(* How djaudit reads the REST framework surface of a project (api/) and    *)
(* what its rules about access and availability say of one endpoint,       *)
(* next to what the framework does with a request to it.                   *)
(*                                                                         *)
(* The project has one view: a class with one ancestor of the project, or  *)
(* a decorated function.  Its authors declare attributes, one at a time;   *)
(* then the audit builds the guard and every rule judges it.               *)
(***************************************************************************)
EXTENDS Naturals, Integers, Sequences, FiniteSets, FiniteSetsExt

CONSTANTS Routings,          \* how the view may be routed
          ApiHabits,         \* what its authors write besides plain declarations
          MaxDeclarations    \* bound: declarations of one project

AllHabits == {"composed decorator", "mixin first", "computed default",
              "action permissions", "computed pagination"}
ASSUME RoutingsAreKnown == Routings \subseteq {"router", "path", "function"}
ASSUME ApiHabitsAreKnown == ApiHabits \subseteq AllHabits
ASSUME MaxDeclarations \in Nat

VARIABLES site,       \* routing, handlers, and declared: what is written where
          audited,
          apiReports  \* one record per finding

apiVars == <<site, audited, apiReports>>

-----------------------------------------------------------------------------
(* api/permissions.py: what a permission class guarantees.                 *)

UNKNOWN == -1
OPEN == 0
READ_OPEN == 1
AUTHENTICATED == 2
STAFF == 3

DRF_PERMISSIONS == [AllowAny |-> OPEN, BasePermission |-> OPEN, IsAuthenticated |-> AUTHENTICATED,
                    IsAdminUser |-> STAFF, IsAuthenticatedOrReadOnly |-> READ_OPEN]

UNREADABLE == "?"

\* A project's permission classes, nearest link first: the framework's class a
\* link names as a base, and what its own has_permission does.
Link(base, method) == [base |-> base, method |-> method]
Lineage ==
    [Bare     |-> <<Link("BasePermission", "none")>>,
     Narrowed |-> <<Link("none", "narrowing"), Link("IsAuthenticated", "none")>>,
     Reopened |-> <<Link("none", "narrowing"), Link("IsAuthenticated", "deciding")>>,
     Mixed    |-> <<Link("IsAuthenticated", "none"), Link("none", "deciding")>>]

Classify(ref) ==
    IF ref \in DOMAIN DRF_PERMISSIONS THEN DRF_PERMISSIONS[ref]
    ELSE IF ref = UNREADABLE THEN UNKNOWN
    ELSE LET chain == Lineage[ref]
             stops == {k \in DOMAIN chain : chain[k].method = "deciding" \/ chain[k].base # "none"}
             stop  == chain[Min(stops)]
         IN IF stop.method = "deciding" THEN UNKNOWN ELSE DRF_PERMISSIONS[stop.base]

ReadableOnes(refs) ==
    [enforcement |-> Max({OPEN} \cup {Classify(r) : r \in refs}), resolved |-> TRUE]

\* combine: the strongest of what is known; the rest is unresolved.
Combine(refs) ==
    [enforcement |-> Max({OPEN} \cup {Classify(r) : r \in refs}),
     resolved    |-> \A r \in refs : Classify(r) # UNKNOWN]

-----------------------------------------------------------------------------
(* api/views.py and api/routes.py: what a view declares and where it is    *)
(* routed.                                                                 *)

Methods == {"get", "post"}
Handlers == [get |-> "list", post |-> "create"]

Classes == IF site.routing = "function" THEN <<"view">> ELSE <<"view", "parent">>
Declares(where, name) == <<where, name>> \in DOMAIN site.declared
Declared(where, name) == site.declared[<<where, name>>]

\* The first link of the chain that assigns the attribute.
Nobody == "nobody"
LastDeclarer(name) ==
    LET at == {k \in DOMAIN Classes : Declares(Classes[k], name)} IN
    IF at = {} THEN Nobody ELSE Classes[Max(at)]
Declarer(name) ==
    LET at == {k \in DOMAIN Classes : Declares(Classes[k], name)} IN
    IF at = {} THEN Nobody ELSE Classes[Min(at)]

\* _class_refs keeps a marker for an entry it cannot render; _decorator_refs,
\* the reading of a function's decorators, drops it.
Refs(name) ==
    LET written == Declared(Declarer(name), name) IN
    IF site.routing = "function" THEN written \ {UNREADABLE} ELSE written

\* read_extra_actions: the one action beside the view's own handlers.
HasExtra == Declares("view", "action") /\ site.routing = "router"
Extra == Declared("view", "action")
Unset == {"unset"}

Overrides(method) == \E k \in DOMAIN Classes : Declares(Classes[k], method)

Endpoint(method, action, kind) == [method |-> method, action |-> action, kind |-> kind]

\* endpoints_for, for a router, and endpoints_in, for a path.
Endpoints ==
    {Endpoint(m, Handlers[m], IF site.routing = "router" THEN "list" ELSE "path") : m \in site.handlers}
    \cup (IF HasExtra THEN {Endpoint(Extra.method, "extra", "action")} ELSE {})

MethodsFor == {e.method : e \in Endpoints}
Mutating == "post" \in MethodsFor
IsList == \E e \in Endpoints : e.kind = "list" /\ e.method = "get"

\* _read_availability: what does not render to a name is looked for further up.
PaginationDisabled ==
    LET readable == {k \in DOMAIN Classes : /\ Declares(Classes[k], "pagination_class")
                                            /\ Declared(Classes[k], "pagination_class") # UNREADABLE}
    IN readable # {} /\ Declared(Classes[Min(readable)], "pagination_class") = "None"
PaginationRef ==
    \E k \in DOMAIN Classes :
        /\ Declares(Classes[k], "pagination_class")
        /\ Declared(Classes[k], "pagination_class") \notin {"None", UNREADABLE}
        /\ \A j \in 1 .. k - 1 : Declares(Classes[j], "pagination_class") =>
               Declared(Classes[j], "pagination_class") = UNREADABLE

-----------------------------------------------------------------------------
(* read_defaults and resolve.                                              *)

DefaultPermissions ==
    IF Declares("settings", "permissions") /\ Declared("settings", "permissions") # {UNREADABLE}
    THEN Declared("settings", "permissions") ELSE {"AllowAny"}
DefaultsUnreadable ==
    Declares("settings", "permissions") /\ Declared("settings", "permissions") = {UNREADABLE}
DefaultThrottles ==
    IF Declares("settings", "throttles") THEN Declared("settings", "throttles") ELSE {}
Rated == IF Declares("settings", "rates") THEN Declared("settings", "rates") ELSE {}
DefaultPagination ==
    IF Declares("settings", "pagination") THEN Declared("settings", "pagination") ELSE "None"

\* Function views have a permission source whether or not they are decorated;
\* what counts is whether the decorator is applied.
Guard ==
    LET declarer == Declarer("permission_classes")
        refs     == IF declarer = Nobody THEN DefaultPermissions ELSE Refs("permission_classes")
        strength == Combine(refs)
    IN [enforcement |-> strength.enforcement,
        classes |-> refs,
        source  |-> CASE declarer = "view" -> "view"
                      [] declarer = "parent" -> "ancestor"
                      [] declarer = Nobody ->
                            IF Declares("settings", "permissions") THEN "setting" ELSE "drf default",
        certain |-> /\ strength.resolved
                    /\ declarer = Nobody => ~DefaultsUnreadable
                    /\ ~Overrides("get_permissions"),
        unauthenticated |-> /\ Declarer("authentication_classes") # Nobody
                            /\ Refs("authentication_classes") = {},
        authentication_source |-> Declarer("authentication_classes")]

IsOpen == Guard.enforcement = OPEN /\ Guard.certain

-----------------------------------------------------------------------------
(* rules/authorization.py and rules/availability.py.  Each rule returns    *)
(* the findings it yields; one that raises, the failure the engine books.  *)

ReportOf(rule, severity) == {[rule |-> rule, severity |-> severity]}
NoReport == {}

FromDefault == Guard.source \in {"setting", "drf default"}

\* classes = tuple(entry.value.literal)
PermissiveDefaultPermissions ==
    IF DefaultsUnreadable THEN ReportOf("DJA-001", "raises")
    ELSE IF \A ref \in DefaultPermissions : ref = "AllowAny"
         THEN ReportOf("DJA-001", IF Declarer("permission_classes") = Nobody THEN "high" ELSE "low")
         ELSE NoReport

EndpointWithoutPermissions ==
    IF FromDefault /\ IsOpen
    THEN ReportOf("DJA-002", IF Mutating THEN "high" ELSE "medium") ELSE NoReport

OpenWritableEndpoint ==
    IF Mutating /\ IsOpen /\ ~FromDefault THEN ReportOf("DJA-003", "critical") ELSE NoReport

UnprotectedFunctionView ==
    IF site.routing = "function" /\ IsOpen /\ Guard.source # "decorator"
    THEN ReportOf("DJA-006", IF Mutating THEN "high" ELSE "medium") ELSE NoReport

AuthenticatorsCleared ==
    IF Guard.unauthenticated /\ Guard.authentication_source = "view"
    THEN ReportOf("DJA-007", "medium") ELSE NoReport
NoAuthenticationConfigured ==
    IF /\ Guard.unauthenticated
       /\ Guard.authentication_source = "view"
       /\ Guard.enforcement >= AUTHENTICATED
    THEN ReportOf("DJA-007", "medium") ELSE NoReport

\* supplies_its_own_size: a paginator of the project with a size of its own.
DefaultIsSized ==
    DefaultPagination = "own size" \/ (DefaultPagination = "sized" /\ Declares("settings", "page size"))

\* project_default counts the lists that rely on it, inspect names those that
\* switched it off.
CountsEveryList ==
    IF DefaultIsSized THEN NoReport
    ELSE ReportOf("DJA-013 settings", IF IsList /\ ~PaginationRef THEN "medium" ELSE "low")
UnboundedByDefault ==
    IF DefaultIsSized THEN NoReport
    ELSE ReportOf("DJA-013 settings",
                IF IsList /\ ~PaginationRef /\ ~PaginationDisabled THEN "medium" ELSE "low")

Scoped == Declares("view", "queryset") /\ Declared("view", "queryset") = "scoped"
UnboundedListEndpoint ==
    IF IsList /\ PaginationDisabled /\ ~Scoped THEN ReportOf("DJA-013 view", "medium") ELSE NoReport

ThrottleScope == Declarer("throttle_scope") # Nobody
ProjectThrottles == DefaultThrottles
Throttles == IF Declarer("throttle_classes") # Nobody THEN Refs("throttle_classes") ELSE DefaultThrottles

UnthrottledBecause ==
    \/ Throttles = {}
    \/ Throttles = {"scoped"} /\ ~ThrottleScope
    \/ /\ Rated # {}
       /\ ({"anon", "user"} \cup (IF ThrottleScope THEN {"view scope"} ELSE {})) \cap Rated = {}

UnthrottledCredentialEndpoint ==
    IF Mutating /\ IsOpen /\ UnthrottledBecause
    THEN ReportOf("DJA-015", IF Declares("view", "credentials") THEN "high" ELSE "medium") ELSE NoReport

ViewRules == PermissiveDefaultPermissions \cup EndpointWithoutPermissions \cup OpenWritableEndpoint
         \cup UnprotectedFunctionView \cup NoAuthenticationConfigured \cup UnboundedByDefault
         \cup UnboundedListEndpoint \cup UnthrottledCredentialEndpoint

-----------------------------------------------------------------------------
(* The project's authors, and the audit.                                   *)

Computed == IF site.routing # "function" \/ "composed decorator" \in ApiHabits THEN {{UNREADABLE}} ELSE {}
PermissionLists ==
    {{}, {"AllowAny"}, {"Bare"}, {"IsAuthenticatedOrReadOnly"}, {"IsAuthenticated"}, {"IsAdminUser"},
     {"Narrowed"}, {"Reopened"}, {"IsAuthenticated", UNREADABLE}}
    \cup Computed
    \cup (IF "mixin first" \in ApiHabits THEN {{"Mixed"}} ELSE {})

\* What can be written in each place.
Declarable(where, name) ==
    CASE name = "permission_classes" -> PermissionLists
      [] name = "authentication_classes" -> {{}, {"session"}} \cup Computed
      [] name = "pagination_class" -> {"None", "sized"}
            \cup (IF "computed pagination" \in ApiHabits THEN {UNREADABLE} ELSE {})
      [] name = "throttle_classes" -> {{}, {"scoped"}, {"rate"}}
      [] name = "action" -> [method : Methods, permissions :
            IF "action permissions" \in ApiHabits THEN {Unset, {"AllowAny"}, {"IsAuthenticated"}}
            ELSE {Unset}]
      [] name = "queryset" -> {"all rows", "scoped"}
      [] name = "permissions" -> {{}, {"AllowAny"}, {"IsAuthenticated"}, {"Reopened"}}
            \cup (IF "computed default" \in ApiHabits THEN {{UNREADABLE}} ELSE {})
      [] name = "pagination" -> {"sized", "own size"}
      [] name = "throttles" -> {{"scoped"}, {"rate"}}
      [] name = "rates" -> {{"anon"}, {"view scope"}}
      [] OTHER -> {"given"}

Attributes == {"permission_classes", "authentication_classes", "get_permissions",
               "throttle_classes", "throttle_scope"}
OfClasses == {"pagination_class", "get_authenticators"}
Settings == {"permissions", "pagination", "page size", "throttles", "rates"}

Places ==
    IF site.routing = "function"
    THEN ({"view"} \X ((Attributes \ {"get_permissions", "throttle_scope"}) \cup {"credentials"}))
         \cup ({"settings"} \X Settings)
    ELSE ({"view", "parent"} \X (Attributes \cup OfClasses))
         \cup ({"view"} \X {"action", "queryset", "credentials"}) \cup ({"settings"} \X Settings)

ApiInit ==
    /\ site \in [routing : Routings, handlers : (SUBSET Methods) \ {{}}, declared : {[s \in {} |-> 0]}]
    /\ audited = FALSE
    /\ apiReports = {}

Declare(slot, what) ==
    /\ ~audited
    /\ slot \notin DOMAIN site.declared
    /\ Cardinality(DOMAIN site.declared) < MaxDeclarations
    /\ site' = [site EXCEPT !.declared = [s \in DOMAIN @ \cup {slot} |-> IF s = slot THEN what ELSE @[s]]]
    /\ UNCHANGED <<audited, apiReports>>

Audit ==
    /\ ~audited
    /\ audited' = TRUE
    /\ apiReports' = ViewRules
    /\ UNCHANGED site

ApiNext == \/ \E slot \in Places : \E what \in Declarable(slot[1], slot[2]) : Declare(slot, what)
           \/ Audit

ApiSpec == ApiInit /\ [][ApiNext]_apiVars

-----------------------------------------------------------------------------
(* What the framework does with a request.                                 *)

\* The first class in the MRO with the attribute provides it.
Provider(name) ==
    CASE Declares("view", name) -> "view"
      [] ~Declares("view", name) /\ site.routing # "function" /\ Declares("parent", name) -> "parent"
      [] OTHER -> Nobody

\* Whether one permission class admits who to a request of this method.
DrfAdmits(ref, who, method) ==
    CASE ref \in {"AllowAny", "BasePermission"} -> TRUE
      [] ref = "IsAuthenticated" -> who # "anonymous"
      [] ref = "IsAdminUser" -> who = "staff"
      [] ref = "IsAuthenticatedOrReadOnly" -> who # "anonymous" \/ method = "get"

\* The outcomes it can have: the first link of the MRO with a method decides,
\* and one that narrows only takes away from what the rest allows.
Outcomes(ref, who, method) ==
    IF ref \in DOMAIN DRF_PERMISSIONS THEN {DrfAdmits(ref, who, method)}
    ELSE IF ref = UNREADABLE THEN BOOLEAN
    ELSE LET chain == Lineage[ref]
             base  == CHOOSE b \in {chain[k].base : k \in DOMAIN chain} : b # "none"
         IN IF \E k \in DOMAIN chain : chain[k].method = "deciding" THEN BOOLEAN
            ELSE {DrfAdmits(base, who, method)}
                 \cup (IF \E k \in DOMAIN chain : chain[k].method = "narrowing" THEN {FALSE} ELSE {})

\* get_permissions, when the view writes its own, decides alone.
PermissionsAt(e) ==
    IF e.action = "extra" /\ Extra.permissions # Unset THEN Extra.permissions
    ELSE IF Provider("permission_classes") # Nobody
         THEN Declared(Provider("permission_classes"), "permission_classes")
    ELSE IF DefaultsUnreadable THEN {UNREADABLE} ELSE DefaultPermissions

\* Who the framework takes a caller for.
Identified(who) ==
    IF Overrides("get_authenticators") THEN {who, "anonymous"}
    ELSE IF Provider("authentication_classes") = Nobody THEN {who}
    ELSE LET auth == Declared(Provider("authentication_classes"), "authentication_classes") IN
         CASE auth = {} -> {"anonymous"}
           [] auth = {UNREADABLE} -> {who, "anonymous"}
           [] OTHER -> {who}

MayAdmit(e, who) ==
    \E id \in Identified(who) : \/ Overrides("get_permissions")
                                \/ \A ref \in PermissionsAt(e) : TRUE \in Outcomes(ref, id, e.method)
MustAdmit(e, who) ==
    /\ ~Overrides("get_permissions")
    /\ \A id \in Identified(who) : \A ref \in PermissionsAt(e) : Outcomes(ref, id, e.method) = {TRUE}

\* The paginator of the class's own MRO, and whether a list comes out whole.
Paginator == IF Provider("pagination_class") # Nobody
             THEN Declared(Provider("pagination_class"), "pagination_class") ELSE DefaultPagination
WholeList == \/ Paginator = "None"
             \/ Paginator = "sized" /\ ~Declares("settings", "page size")

\* A throttle allows every request when nothing names its scope or its rate.
Limits(throttle) ==
    CASE throttle = "scoped" -> ThrottleScope /\ "view scope" \in Rated
      [] throttle = "rate"   -> "anon" \in Rated
Throttled == \E t \in IF Provider("throttle_classes") # Nobody
                      THEN Declared(Provider("throttle_classes"), "throttle_classes")
                      ELSE DefaultThrottles : Limits(t)

-----------------------------------------------------------------------------
(* Properties.                                                             *)

Reported(rule) == \E r \in apiReports : r.rule = rule

\* An endpoint reported as open to anonymous callers is: a request without
\* credentials gets in, whatever the parts that were not read do, and through
\* a write where the report is about writing.
OpenReportsAreReal ==
    /\ Reported("DJA-002") \/ Reported("DJA-006")
          => \E e \in Endpoints : MustAdmit(e, "anonymous")
    /\ Reported("DJA-003") \/ Reported("DJA-015")
          => \E e \in Endpoints : e.method = "post" /\ MustAdmit(e, "anonymous")

\* Every endpoint that lets anybody write is named by a rule about access, at
\* high or critical; and one that lets anybody do anything without anyone
\* having written so is named whatever it does.
OpenWritesAreNamed ==
    audited => \A e \in Endpoints :
        MustAdmit(e, "anonymous") /\ (e.method = "post" \/ Provider("permission_classes") = Nobody)
            => \E r \in apiReports : /\ r.rule \in {"DJA-002", "DJA-003"}
                                     /\ e.method = "post" => r.severity \in {"high", "critical"}

\* What lets anybody in is named as that, and nothing else is.
OpenIsNamed == OpenReportsAreReal /\ OpenWritesAreNamed

\* Where a rule says that no request can satisfy both what a view asks for and
\* what it knows of its callers, none does; a view that computes either with a
\* method of its own is beyond what the rule looks at.
NoRequestSatisfiesBoth ==
    Reported("DJA-007") /\ ~Overrides("get_permissions") /\ ~Overrides("get_authenticators") =>
        \A e \in Endpoints, who \in {"anonymous", "user", "staff"} :
                                e.action # "extra" => ~MayAdmit(e, who)

\* A list that comes out whole is answered for exactly once, by the settings
\* finding that counts it or by its own; one that is paginated, not at all.
WholeListsAreNamedOnce ==
    audited /\ IsList =>
        LET counted == [rule |-> "DJA-013 settings", severity |-> "medium"] \in apiReports
            named   == Reported("DJA-013 view")
        IN /\ WholeList /\ Paginator # "sized" /\ ~Scoped => counted # named
           /\ named => WholeList
           /\ counted => WholeList

\* A rule that reports an endpoint for want of a throttle is right about it.
UnthrottledIsReal == Reported("DJA-015") => ~Throttled

\* What the rules say of an endpoint is so: nobody is let in unsaid or kept out
\* where a rule says that anybody gets in, and what a view gives away by the
\* list, or by the attempt, is said once.
EndpointsAreJudged ==
    OpenIsNamed /\ NoRequestSatisfiesBoth /\ WholeListsAreNamedOnce /\ UnthrottledIsReal

\* One default that cannot be read does not cost the rule about it its voice.
EveryRuleAnswers == \A r \in apiReports : r.severity # "raises"

=============================================================================
