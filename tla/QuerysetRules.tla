---------------------------- MODULE QuerysetRules ----------------------------
(***************************************************************************)
(* Which rows a list endpoint hands to whom, as djaudit reads it           *)
(* (api/querysets.py and the rules DJA-004 and DJA-005) and as the         *)
(* framework runs it.                                                      *)
(*                                                                         *)
(* A router routes one viewset with one ancestor of the project.  Its      *)
(* model has an owner, and its permission class a has_object_permission    *)
(* that refuses everybody else's rows.  The authors of both classes write  *)
(* a part at a time, and what is written is judged as it stands.           *)
(***************************************************************************)
EXTENDS Naturals, Sequences, FiniteSets

CONSTANT MaxParts   \* bound: parts written in the two classes

ASSUME MaxPartsIsANumber == MaxParts \in Nat

VARIABLE parts
    \* of each class: its queryset attribute, get_queryset and another method
    \* that returns rows, an initial that rebinds self.queryset, and get_object

querysetVars == parts

-----------------------------------------------------------------------------
(* What is written.                                                        *)

Links == {"viewset", "mixin"}
Absent == "absent"

\* Note.objects, super().get_queryset(), a local, or something read off self,
\* and the call that narrows it: filter(owner=self.request.user) or none().
Roots == {"model", "super", "qs", "self.rows", "self.queryset"}
Narrowings == {"as is", "mine", "none"}
Rows(root, step) == [root |-> root, step |-> step]

\* A statement of get_queryset: where it stands, and what it does with its rows.
Placements == {"always", "if staff", "else", "if setting"}
BodyStatement(place, do, rows) == [place |-> place, do |-> do, rows |-> rows]

Body(link) == parts[link].get_queryset
HasBody(link) == Body(link) # <<>>
Past(link) == {l \in Links : link = "viewset" /\ l = "mixin"}

\* The first class in the resolution order for which something was written.
Nearest(name) ==
    CASE parts["viewset"][name] # Absent -> parts["viewset"][name]
      [] parts["viewset"][name] = Absent -> parts["mixin"][name]

-----------------------------------------------------------------------------
(* request_refs, _expand and _returns.                                     *)

LocalAssignments(link) == {k \in DOMAIN Body(link) : Body(link)[k].do = "assign"}
Assigned(link) == {Body(link)[k].rows : k \in LocalAssignments(link)}

\* ast.walk is breadth first: what stands under no condition comes first.
Walked(link, k, j) ==
    LET AtTop(i) == Body(link)[i].place = "always" IN
    IF AtTop(k) = AtTop(j) THEN k <= j ELSE AtTop(k)

\* What reads the request: the expression itself, or the method behind an
\* attribute of self.
RequestRefs(rows) ==
    rows.step = "mine" \/ (rows.root = "self.rows" /\ Nearest("rows") = "mine")

ScopingOfTheReturn(link, rows) == RequestRefs(rows)
Scoping(link, rows) ==
    RequestRefs(rows) \/ (rows.root = "qs" /\ \E a \in Assigned(link) : RequestRefs(a))
Delegates(link, rows) ==
    rows.root = "super" \/ (rows.root = "qs" /\ \E a \in Assigned(link) : a.root = "super")

\* The name an expression starts at; of a local, the first that any of its
\* values starts at, where the local itself, once visited, is a name like another.
Nameless == {"super", "self.rows", "self.queryset"}
ModelRef(link, rows) ==
    IF rows.root \in Nameless THEN Absent
    ELSE IF rows.root # "qs" \/ Assigned(link) = {} THEN rows.root
    ELSE LET named == {k \in LocalAssignments(link) : Body(link)[k].rows.root \notin Nameless}
             first == CHOOSE k \in named : \A j \in named : Walked(link, k, j)
         IN IF named = {} THEN Absent ELSE Body(link)[first].rows.root

\* guarded: under an if that reads the request, not in its else.
ReturnOf(link, s) ==
    [model     |-> ModelRef(link, s.rows),
     scoping   |-> Scoping(link, s.rows),
     guarded   |-> s.place = "if staff",
     none      |-> s.rows.step = "none",
     delegates |-> Delegates(link, s.rows)]
Returns(link) == {ReturnOf(link, Body(link)[k]) : k \in {k \in DOMAIN Body(link) : Body(link)[k].do = "return"}}

ReturnScoped(r) == r.scoping \/ r.guarded \/ r.none

-----------------------------------------------------------------------------
(* _declared, _inherit and read_queryset: the queryset of the view.        *)

Queryset(source, model, scoping, none, returns) ==
    [source |-> source, model |-> model, scoping |-> scoping, none |-> none, returns |-> returns]
NoQueryset == Queryset(Absent, Absent, FALSE, FALSE, {})

\* No class body has a request to read.
AttributeNode(step) == Queryset("attribute", "model", FALSE, step = "none", {})
Single(names) == IF Cardinality(names \ {Absent}) = 1 THEN CHOOSE n \in names : n # Absent ELSE Absent
MethodNode(link) == Queryset("method", Single({r.model : r \in Returns(link)}), FALSE, FALSE, Returns(link))

SomeReturnScoped(node) == node.scoping \/ \E r \in node.returns : ReturnScoped(r)
Unread(node) == node.source = "method" /\ node.returns = {}
NodeScoped(node) ==
    ~Unread(node) /\ (node.scoping \/ (node.returns # {} /\ \A r \in node.returns : ReturnScoped(r)))

\* A method whose every return delegates refines what it delegates to.
Inherit(node, parent) ==
    IF parent.source = Absent THEN node
    ELSE LET inherited == NodeScoped(parent) /\ (parent.scoping \/ \E r \in parent.returns : r.scoping) IN
         [node EXCEPT
            !.model   = IF @ # Absent THEN @ ELSE parent.model,
            !.returns = {[r EXCEPT !.scoping = @ \/ inherited,
                                   !.guarded = @ \/ (NodeScoped(parent) /\ ~inherited)] : r \in @}]

\* One link of the chain, beyond which the search goes on.
DeclaredAt(link, beyond) ==
    IF HasBody(link)
    THEN LET node == MethodNode(link) IN
         IF node.returns # {} /\ \A r \in node.returns : r.delegates THEN Inherit(node, beyond) ELSE node
    ELSE IF parts[link].queryset # Absent THEN AttributeNode(parts[link].queryset)
    ELSE beyond
ReadQueryset == DeclaredAt("viewset", DeclaredAt("mixin", NoQueryset))

ReboundBy == {l \in Links : parts[l].rebind # Absent}

Empty(node) == IF node.source = "attribute" THEN node.none
               ELSE node.returns # {} /\ \A r \in node.returns : r.none

Unfiltered == /\ ReadQueryset.source # Absent
              /\ ~Unread(ReadQueryset)
              /\ ReboundBy = {} /\ ~NodeScoped(ReadQueryset)
              /\ ~Empty(ReadQueryset)

-----------------------------------------------------------------------------
(* rules/authorization.py: DJA-004 and DJA-005.                            *)

UnscopedUserOwnedQueryset == Unfiltered /\ ReadQueryset.model = "model"

CallsTheCheck(kind) == kind = "checks"
ReadsTheRequest(kind) == kind \in {"own", "fetches"}
ReadsUser(kind) == kind = "own"
ObjectPermissionsNotChecked ==
    LET get_object == Nearest("get_object") IN
    get_object # Absent /\ ~CallsTheCheck(get_object) /\ ~ReadsUser(get_object)

-----------------------------------------------------------------------------
(* The authors.  Nothing is read that nothing provides, and no statement   *)
(* stands where every run has returned.                                    *)

\* Who calls, and which class has its setting on.
ViewRuns == [who : {"user", "staff"}, settings : SUBSET Links]
Happens(place, link, run) ==
    CASE place = "always"     -> TRUE
      [] place = "if staff"   -> run.who = "staff"
      [] place = "else"       -> run.who # "staff"
      [] place = "if setting" -> link \in run.settings

Unwritten == [queryset |-> Absent, get_queryset |-> <<>>, rows |-> Absent,
             rebind |-> Absent, get_object |-> Absent]

QuerysetsInit == parts = [l \in Links |-> Unwritten]

PartsOf(link) == Len(Body(link)) +
    Cardinality({name \in {"queryset", "rows", "rebind", "get_object"} : parts[link][name] # Absent})
MayWrite == PartsOf("viewset") + PartsOf("mixin") < MaxParts

Give(link, name, what) ==
    /\ parts[link][name] = Absent
    /\ parts' = [parts EXCEPT ![link][name] = what]

Readable(link) ==
    {"model"} \cup {r \in {"super"} : Past(link) # {} /\ parts["mixin"] # Unwritten}
              \cup {r \in {"qs"} : Assigned(link) # {}}
              \cup {r \in {"self.rows"} : Nearest("rows") # Absent}
              \cup {r \in {"self.queryset"} : Nearest("queryset") # Absent}

Reachable(link, place) ==
    \E run \in ViewRuns :
        /\ Happens(place, link, run)
        /\ \A k \in DOMAIN Body(link) : Body(link)[k].do = "return" => ~Happens(Body(link)[k].place, link, run)

Extend(link, s) == parts' = [parts EXCEPT ![link].get_queryset = Append(@, s)]

Objects == {"fetches", "checks", "own", "defers"}

\* The two rules read different methods: the parts of one are written, or of
\* the other.
WriteLists ==
    /\ MayWrite /\ \A l \in Links : parts[l].get_object = Absent
    /\ \E l \in Links :
        \/ \E step \in {"as is", "none"} : Give(l, "queryset", step)
        \/ \E step \in {"as is", "mine"} : Give(l, "rows", step)
        \/ \E place \in {"always", "if setting"} : Give(l, "rebind", place)
        \/ \E place \in {p \in Placements : Reachable(l, p)}, do \in {"assign", "return"} :
               \E root \in Readable(l), step \in Narrowings : Extend(l, BodyStatement(place, do, Rows(root, step)))
WriteObjects ==
    /\ \A l \in Links : parts[l] = [Unwritten EXCEPT !.get_object = parts[l].get_object]
    /\ \E l \in Links, kind \in Objects : Give(l, "get_object", kind)

QuerysetsNext == WriteLists \/ WriteObjects

QuerysetsSpec == QuerysetsInit /\ [][QuerysetsNext]_querysetVars

-----------------------------------------------------------------------------
(* What the framework answers.                                             *)

\* The rows a queryset has, of everybody's and the caller's own; what cannot
\* be built is an error.
Narrow(rows, step) ==
    IF step = "none" /\ rows # "error" THEN "nobody's"
    ELSE IF step = "mine" /\ rows = "everybody's" THEN "the caller's"
    ELSE rows

\* self.queryset by the time get_queryset runs: initial calls super first.
SelfQueryset(run) ==
    LET Rebound(rows, link) ==
            IF parts[link].rebind # Absent /\ Happens(parts[link].rebind, link, run)
            THEN Narrow(rows, "mine") ELSE rows
        attribute == IF Nearest("queryset") = Absent THEN "error"
                     ELSE Narrow("everybody's", Nearest("queryset"))
    IN Rebound(Rebound(attribute, "mixin"), "viewset")

\* What an expression of get_queryset has, where beyond is what super() answers
\* and qs what the local has.
ValueOf(rows, beyond, qs, run) ==
    Narrow(CASE rows.root = "model" -> "everybody's"
             [] rows.root = "super" -> beyond
             [] rows.root = "qs" -> qs
             [] rows.root = "self.rows" -> Narrow("everybody's", Nearest("rows"))
             [] rows.root = "self.queryset" -> SelfQueryset(run), rows.step)

\* One statement: a return answers, an assignment changes the local, an error ends it.
Pending == "pending"
Execute(at, s, link, beyond, run) ==
    IF at.answer # Pending \/ ~Happens(s.place, link, run) THEN at
    ELSE LET value == ValueOf(s.rows, beyond, at.qs, run) IN
         IF s.do = "return" \/ value = "error" THEN [qs |-> at.qs, answer |-> value]
         ELSE [qs |-> value, answer |-> Pending]

RunBody(link, beyond, run) ==
    LET at[k \in 0..Len(Body(link))] ==
            IF k = 0 THEN [qs |-> "error", answer |-> Pending]
            ELSE Execute(at[k - 1], Body(link)[k], link, beyond, run)
        end == at[Len(Body(link))]
    IN IF end.answer = Pending THEN "error" ELSE end.answer

\* initial fails a request whose self.queryset it cannot rebind.
Answer(run) ==
    LET Of(link, beyond) == IF HasBody(link) THEN RunBody(link, beyond, run) ELSE beyond
    IN IF ReboundBy # {} /\ SelfQueryset(run) = "error" THEN "error"
       ELSE Of("viewset", Of("mixin", SelfQueryset(run)))

Works == \A run \in ViewRuns : Answer(run) # "error"
SeesEverything(who) == \E run \in ViewRuns : run.who = who /\ Answer(run) = "everybody's"

\* Whether get_object hands out a row of somebody else's that the permission
\* would have refused: super().get_object() is the mixin's, or the framework's,
\* which checks.
Serves(kind) == kind = "fetches"
OthersServed ==
    \/ Serves(parts["viewset"].get_object)
    \/ parts["viewset"].get_object \in {Absent, "defers"} /\ Serves(parts["mixin"].get_object)

-----------------------------------------------------------------------------
(* Properties.                                                             *)

\* What the reader takes for something else: the attribute of a class whose
\* queryset a method decides, its own that delegates or the mixin's; a method of
\* which one return delegates and another does not; a return after an else that
\* has returned; a none() that is not in the return itself.
AttributeMisread ==
    /\ parts["viewset"].queryset # Absent
    /\ IF HasBody("viewset") THEN \E r \in Returns("viewset") : r.delegates ELSE HasBody("mixin")
HalfDelegates == \E r, s \in Returns("viewset") : r.delegates /\ ~s.delegates
PastAReturn == \E l \in Links : \E k \in DOMAIN Body(l) : Body(l)[k].do = "return" /\ Body(l)[k].place = "else"
Hides(link, s) == s.rows.step = "none" /\ (s.do = "assign" \/ (link = "mixin" /\ HasBody("viewset")))
NoneUnseen ==
    /\ \E l \in Links : HasBody(l)
    /\ \E l \in Links : \/ parts[l].queryset = "none"
                       \/ \E k \in DOMAIN Body(l) : Hides(l, Body(l)[k])


\* A list endpoint reported as handing everybody's rows to every caller does,
\* to a caller who is nobody special and with some setting of the switches.
ListReportsAreReal ==
    UnscopedUserOwnedQueryset /\ Works /\ ~AttributeMisread /\ ~HalfDelegates /\ ~PastAReturn /\ ~NoneUnseen
        => SeesEverything("user")

\* Where no text of the two classes consults the request, and some caller gets
\* everybody's rows, the endpoint is reported, through whichever local, method
\* or ancestor its rows come.  Rows handed on by an attribute of self lose the
\* name of their model, and a local that delegates in one of its values is
\* taken to in all of them.
Consulted ==
    \E l \in Links :
        \/ parts[l].rows = "mine" \/ parts[l].rebind # Absent
        \/ \E k \in DOMAIN Body(l) : Body(l)[k].rows.step = "mine" \/ Body(l)[k].place \in {"if staff", "else"}
Lost ==
    \E l \in Links : \/ \E k \in DOMAIN Body(l) : Body(l)[k].rows.root \in {"self.rows", "self.queryset"}
                    \/ \E a, b \in Assigned(l) : a.root = "super" /\ b.root # "super"
UnconsultedListsAreReported ==
    ~UnscopedUserOwnedQueryset /\ ~Consulted /\ ~Lost /\ ~AttributeMisread /\ Works => ~SeesEverything("user")

\* A get_object is reported exactly when it hands out rows that the permission
\* written for them would refuse.  One that calls super().get_object(), which is
\* what the rule's own remediation asks for, is reported whatever it defers to.
ObjectsAreJudged ==
    Nearest("get_object") # "defers" => (ObjectPermissionsNotChecked <=> OthersServed)

\* What is said of the rows an endpoint gives away is so, and nothing that is so
\* without the request being asked is left unsaid.
QuerysetsAreJudged == ListReportsAreReal /\ UnconsultedListsAreReported /\ ObjectsAreJudged

=============================================================================
