------------------------------ MODULE QueryRules ------------------------------
(***************************************************************************)
(* The query rules (DJP-001, 002 and 004 to 009): what each loop runs over *)
(* and what its body asks of every row, as dataflow/querysets.py,          *)
(* chaining.py and loops.py read it off the reaching definitions, next to  *)
(* the queries Django runs.                                                *)
(*                                                                         *)
(* A value is a form over one base, the manager "objects" or a name:       *)
(*   chain      base.step(...).step(...)                                   *)
(*   list       list(chain), and enumerate, for a loop's iterable          *)
(*   path       base.relation.relation, or base.field                      *)
(* A step is what it does and the lookups it is given.  A read is called   *)
(* for what is done with the value: show, rows (.all(), .count() or        *)
(* .exists() of a relation), narrowed (.all().filter()), len, list, any    *)
(* (.count() > 0) and save.                                                *)
(***************************************************************************)
EXTENDS ReachingDefs, SequencesExt

CONSTANTS Schema,    \* model |-> [forward: name |-> model, many: name |-> model,
                     \*           columns: names]
          Root       \* the model whose manager is "objects"

Step(do, on) == [do |-> do, on |-> on]
Chain(base, steps) == [form |-> "chain", parts |-> <<base>>, steps |-> steps]

Terminal == {"first", "count", "index", "create"}
Chaining == {"all", "filter", "select_related", "select everything", "select nothing",
             "prefetch_related", "only", "defer", "values", "slice"}
Writes == {"create"}

-----------------------------------------------------------------------------
(* querysets.py: the queryset an expression is, as the steps of its chain, *)
(* each with the line it is written on, and the bindings it came by.  A    *)
(* set of one, or of none.                                                 *)

Queryset(steps, via) == [steps |-> steps, via |-> via]
Does(steps) == {steps[k].do : k \in DOMAIN steps}
Located(steps, line) == [k \in DOMAIN steps |-> [do |-> steps[k].do, on |-> steps[k].on, line |-> line]]
PastTerminal(steps) == \E k \in DOMAIN steps : k < Len(steps) /\ steps[k].do \in Terminal

OneOfThem(name, line, uses) == {b \in Reaching(uses, line, name) : b.op = "bind"}
\* A name is followed when one assignment supplies it, whatever the path.
AssignedBy(name, line, uses) ==
    LET reaching == Reaching(uses, line, name)
    IN {b \in reaching : reaching = {b} /\ b.op = "bind"}

RECURSIVE Classify(_, _, _, _)
ResolveName(name, line, uses, path) ==
    UNION {{Queryset(q.steps, <<b>> \o q.via) : q \in Classify(b.value, b.line, uses, path \cup {b.line})} :
              b \in {a \in AssignedBy(name, line, uses) : a.line \notin path}}
Classify(value, line, uses, path) ==
    LET base == value.parts[1]
        steps == Located(value.steps, line)
    IN IF value.form # "chain" THEN {}
       ELSE IF base = "objects" THEN {q \in {Queryset(steps, <<>>)} : ~PastTerminal(q.steps)}
       ELSE IF base \notin style.names THEN {}
       ELSE {q \in {Queryset(r.steps \o steps, r.via) : r \in ResolveName(base, line, uses, path)} :
                (steps # <<>> => Does(steps) \subseteq Chaining \cup Terminal /\ ~PastTerminal(q.steps))}
Classified(value, line, uses) == Classify(value, line, uses, {})
IsTerminal(q) == Does(q.steps) \cap Terminal # {}

\* chaining.py: what the chain fetches.
NothingFetched == [joined |-> {}, everything |-> FALSE, prefetched |-> {}, only |-> {},
                   defer |-> {}, sliced |-> FALSE, instances |-> TRUE]
Accumulates(spec, step) ==
    IF step.do \in {"select_related", "select nothing"} THEN [spec EXCEPT !.joined = @ \cup step.on] ELSE spec
Apply(spec, step) ==
    CASE step.do = "select_related"    -> [spec EXCEPT !.joined = @ \cup step.on]
      [] step.do = "select everything" -> [spec EXCEPT !.everything = TRUE]
      [] step.do = "select nothing"    -> [spec EXCEPT !.joined = {}, !.everything = FALSE]
      [] step.do = "prefetch_related"  -> [spec EXCEPT !.prefetched = @ \cup step.on]
      [] step.do = "only"   -> [spec EXCEPT !.only = @ \cup step.on]
      [] step.do = "defer"  -> [spec EXCEPT !.defer = @ \cup step.on]
      [] step.do = "values" -> [spec EXCEPT !.instances = FALSE]
      [] step.do = "slice"  -> [spec EXCEPT !.sliced = TRUE, !.instances = TRUE]
      [] step.do = "index"  -> [spec EXCEPT !.sliced = TRUE, !.instances = FALSE]
      [] OTHER -> spec
Analyse(q) == FoldLeft(Apply, NothingFetched, q.steps)

\* A lookup fetches every relation on the way to the last.
Reaches(lookups, path) == \E lookup \in lookups : IsPrefix(path, lookup)
Covers(spec, path) == spec.everything \/ Reaches(spec.joined \cup spec.prefetched, path)
Prefetches(spec, path) == Reaches(spec.prefetched, path)

-----------------------------------------------------------------------------
(* loops.py: the loops of the function in the order they are found, and    *)
(* what each runs over.  seen is the resolver's, one for the function: a   *)
(* definition is followed for the first loop that leads to it.             *)

Resolved(found, seen) == [found |-> found, seen |-> seen]

RECURSIVE Iterated(_, _, _, _)
Iterated(value, line, uses, seen) ==
    LET direct == Classified(value, line, uses)
        base   == value.parts[1]
        steps  == value.steps
    IN IF direct # {} THEN Resolved(direct, seen)
       ELSE IF value.form \in {"list", "enumerate"} THEN Iterated(Chain(base, steps), line, uses, seen)
       ELSE IF value.form # "chain" THEN Resolved({}, seen)
       ELSE IF steps # <<>> /\ Last(steps).do = "iterator"
            THEN Iterated(Chain(base, Front(steps)), line, uses, seen)
       ELSE IF steps # <<>> \/ base \notin style.names \/ AssignedBy(base, line, uses) = {}
            THEN Resolved({}, seen)
       ELSE LET b == CHOOSE a \in AssignedBy(base, line, uses) : TRUE
            IN IF b.line \in seen THEN Resolved({}, seen)
               ELSE Iterated(b.value, b.line, uses, seen \cup {b.line})

\* A handler is visited after what follows the body.
Visited(s) == IF s.op = "try" THEN <<1, 3, 4, 2>>
              ELSE IF s.op = "match" THEN <<1>>
              ELSE IF s.op \in DOMAIN PartsOf THEN <<1, 2>> ELSE <<>>

Site(s, found, depth) == [loop |-> s, found |-> found, depth |-> depth]
RECURSIVE FindLoops(_, _, _, _), LoopsInParts(_, _, _, _, _)
FindLoops(l, depth, uses, seen) ==
    IF l = End THEN [sites |-> {}, seen |-> seen]
    ELSE LET s == code[l]
             over  == IF s.op = "for" THEN Iterated(s.value, l, uses, seen) ELSE Resolved({}, seen)
             here  == IF s.op = "for" THEN {Site(s, over.found, depth)} ELSE {}
             inner == IF s.op = "for" THEN FindLoops(First(l, 1), depth + 1, uses, over.seen)
                      ELSE [sites |-> {}, seen |-> over.seen]
             parts == IF s.op = "for" THEN <<2>> ELSE Visited(s)
             other == LoopsInParts(l, parts, depth, uses, inner.seen)
             rest  == FindLoops(Following(l), depth, uses, other.seen)
         IN [sites |-> here \cup inner.sites \cup other.sites \cup rest.sites, seen |-> rest.seen]
LoopsInParts(l, parts, depth, uses, seen) ==
    IF parts = <<>> THEN [sites |-> {}, seen |-> seen]
    ELSE LET here == FindLoops(First(l, Head(parts)), depth, uses, seen)
             rest == LoopsInParts(l, Tail(parts), depth, uses, here.seen)
         IN [sites |-> here.sites \cup rest.sites, seen |-> rest.seen]
Loops(uses) == FindLoops(First(0, 1), 1, uses, {}).sites

\* Target.model: the loop's name is a row of the model.
RowsOf(site) == {q \in site.found : ~IsTerminal(q) /\ Analyse(q).instances}

AllStatements == {code[l] : l \in Lines}
RECURSIVE Within(_)
Within(statements) ==
    LET inner == {s \in AllStatements : s.block \in {t.line : t \in statements}}
    IN IF inner = {} THEN statements ELSE statements \cup Within(inner)
Body(site) == Within({s \in AllStatements : s.block = site.loop.line /\ s.part = 1})
Reassigned(site) == \E s \in Body(site) : s.op \in {"bind", "augment", "for"} /\ s.name = site.loop.name
ReadsOf(statements, calls) == {s \in statements : s.op = "read" /\ s.call \in calls}

-----------------------------------------------------------------------------
(* The schema.                                                             *)

RECURSIVE Traversal(_, _)
\* The relations to one that a path begins with, and the model they lead to.
Traversal(model, path) ==
    IF path = <<>> \/ Head(path) \notin DOMAIN Schema[model].forward
    THEN [steps |-> <<>>, model |-> model]
    ELSE LET rest == Traversal(Schema[model].forward[Head(path)], Tail(path))
         IN [steps |-> <<Head(path)>> \o rest.steps, model |-> rest.model]
\* And with the relation to many that follows them, where one does.
ManyHop(model, path) ==
    LET walk == Traversal(model, path)
        rest == SubSeq(path, Len(walk.steps) + 1, Len(path))
    IN IF rest # <<>> /\ Head(rest) \in DOMAIN Schema[walk.model].many
       THEN {walk.steps \o <<Head(rest)>>} ELSE {}

-----------------------------------------------------------------------------
(* inspect() of the rules that look at a loop's rows: what each reports,   *)
(* as the line of the read and the path it costs.                          *)

Accesses(site) ==
    {s \in ReadsOf(Body(site), {"show", "rows", "narrowed"}) :
        s.value.form = "path" /\ s.value.parts[1] = site.loop.name}
Costly(line, path) == [line |-> line, path |-> path]
\* Each path is reported once, where it is first read.
FirstOfEach(found) == {f \in found : \A g \in found : g.path = f.path => f.line <= g.line}

UnfetchedForwardRelation(site, q) ==
    LET spec == Analyse(q)
        Walk(s) == Traversal(Root, s.value.steps).steps
    IN FirstOfEach({Costly(s.line, Walk(s)) :
          s \in {a \in Accesses(site) : Walk(a) # <<>> /\ ~Covers(spec, Walk(a))}})

UnprefetchedMultiValuedRelation(site, q) ==
    LET spec == Analyse(q)
        evaluations == {s \in Accesses(site) : s.call = "rows"}
    IN FirstOfEach(UNION {{Costly(s.line, hop) :
          hop \in {h \in ManyHop(Root, s.value.steps) : ~Prefetches(spec, h)}} : s \in evaluations})

DeferredFieldRead(site, q) ==
    LET spec == Analyse(q)
        Missing(field) == (spec.only # {} /\ field \notin spec.only) \/ field \in spec.defer
    IN FirstOfEach({Costly(s.line, <<Head(s.value.steps)>>) :
          s \in {a \in Accesses(site) : Head(a.value.steps) \in Schema[Root].columns
                                        /\ Missing(Head(a.value.steps))}})

LoopRule(site) ==
    IF Reassigned(site) THEN {}
    ELSE UNION {UnfetchedForwardRelation(site, q) \cup UnprefetchedMultiValuedRelation(site, q)
                \cup DeferredFieldRead(site, q) : q \in RowsOf(site)}

\* Whose save() the loop calls on its own name: the name alone is compared.
WriteInLoop(site) ==
    {s \in ReadsOf(Body(site), {"save"}) :
        /\ \E q \in RowsOf(site) : ~Analyse(q).sliced
        /\ s.value.parts[1] = site.loop.name}

\* The step that goes to the database, unless one before it is a write.
Spends(q) ==
    LET terminal == {k \in DOMAIN q.steps : q.steps[k].do \in Terminal}
    IN {q.steps[k] : k \in {t \in terminal : q.steps[t].do \notin Writes \cup {"index"}
                                             /\ Does(SubSeq(q.steps, 1, t)) \cap Writes = {}}}
LinesOf(statements) == {s.line : s \in statements}
\* The lines whose query a loop runs again for every row.
QueryInLoop(site, uses) ==
    UNION {UNION {{step.line : step \in {e \in Spends(q) : e.line \in LinesOf(Body(site))}} :
                     q \in Classified(s.value, s.line, uses)} :
              s \in {b \in Body(site) : b.op \in {"bind", "read"}}}

-----------------------------------------------------------------------------
(* The rules that look at one call.                                        *)

ReadsOfIt(name) == Cardinality({s \in ReadsOf(AllStatements, {"len", "list", "show"}) : name \in NamesIn(s.value)})
Loads(name) == Cardinality({s \in AllStatements : name \in NamesIn(s.value)})
LenOfQueryset(s, uses) ==
    /\ s.call = "len"
    /\ \E q \in Classified(s.value, s.line, uses) :
          /\ ~IsTerminal(q) /\ ~Analyse(q).sliced
          /\ q.via # <<>> => Loads(q.via[1].name) = 1
CountForEmptiness(s, uses) == s.call = "any" /\ Classified(s.value, s.line, uses) # {}
WholeTableInMemory(s, uses) ==
    /\ s.call = "list"
    /\ \E q \in Classified(s.value, s.line, uses) :
          ~IsTerminal(q) /\ Does(q.steps) \cap {"filter", "iterator", "values"} = {} /\ ~Analyse(q).sliced

-----------------------------------------------------------------------------
(* What Django does.  made is the line a queryset was built on: the rows   *)
(* it fetches are its own.                                                 *)

Other == [is |-> "other", fetched |-> NothingFetched, whole |-> FALSE, made |-> 0]
AllRows(line) == [is |-> "queryset", fetched |-> NothingFetched, whole |-> TRUE, made |-> line]

\* select_related() forgets the lookups given before it, and only() the fields;
\* what was deferred before it stays so, and defer() after it takes fields away.
Fetching(f, step) ==
    CASE step.do = "select_related"    -> [f EXCEPT !.joined = @ \cup step.on, !.everything = FALSE]
      [] step.do = "select everything" -> [f EXCEPT !.joined = {}, !.everything = TRUE]
      [] step.do = "only"  -> [f EXCEPT !.only = step.on \ f.defer, !.defer = {}]
      [] step.do = "defer" /\ f.only # {} ->
            [f EXCEPT !.only = @ \ step.on,
                      !.defer = IF f.only \subseteq step.on THEN step.on \ f.only ELSE {}]
      [] step.do \in {"slice", "index"} -> f
      [] OTHER -> Apply(f, step)
Do(held, step, line) ==
    IF held.is # "queryset" THEN Other
    ELSE CASE step.do \in {"first", "index"} -> [held EXCEPT !.is = "row"]
           [] step.do \in {"count", "create"} -> [Other EXCEPT !.is = step.do, !.made = held.made]
           [] step.do = "iterator" -> [held EXCEPT !.is = "list"]
           [] OTHER -> [held EXCEPT !.fetched = Fetching(@, step), !.made = line,
                                    !.whole = @ /\ step.do \notin {"filter", "slice", "values"}]

RECURSIVE DoAll(_, _, _)
DoAll(held, steps, line) ==
    IF steps = <<>> THEN held ELSE DoAll(Do(held, Head(steps), line), Tail(steps), line)

Start(base, held, line) ==
    IF base = "objects" THEN AllRows(line) ELSE IF base \in style.names THEN held[base] ELSE Other
Element(rows) ==
    IF rows.is \in {"queryset", "list"} THEN [rows EXCEPT !.is = "row"] ELSE Other

\* The parts of a path that are not there yet when it is read of a row.
Absent(row, path, model) ==
    LET f == row.fetched
        prefixes == {SubSeq(path, 1, k) : k \in 1 .. Len(path)}
        forward == {p \in prefixes : Traversal(model, p).steps = p}
    IN {p \in forward : ~(f.everything \/ Reaches(f.joined \cup f.prefetched, p))}
       \cup {h \in ManyHop(model, path) : ~Reaches(f.prefetched, h)}
       \cup (IF Head(path) \in Schema[model].columns
                /\ ((f.only # {} /\ Head(path) \notin f.only) \/ Head(path) \in f.defer)
             THEN {<<Head(path)>>} ELSE {})

\* A path that is read of something else is an error there.
QueryHolds(s, held) ==
    LET value == s.value
        base  == Start(value.parts[1], held, s.line)
        rows  == DoAll(base, value.steps, s.line)
    IN CASE value.form = "path" ->
               IF base.is = "row" /\ base.fetched.instances THEN [is |-> "read", absent |-> Absent(base, value.steps, Root)] ELSE Other
         [] value.form = "list" -> IF rows.is \in {"queryset", "list"} THEN [rows EXCEPT !.is = "list"] ELSE Other
         [] OTHER -> rows
QueryYields(s, held) ==
    CASE s.op \in {"parameter", "match", "while"} -> Other
      [] s.op = "for" -> Element(QueryHolds(s, held))
      [] s.op = "augment" -> Other
      [] OTHER -> QueryHolds(s, held)

-----------------------------------------------------------------------------
(* Properties.                                                             *)

Held(line) == {g[2] : g \in {h \in python.given : h[1] = line}}
Calls(name) == ReadsOf(AllStatements, {name})

\* A path that is reported is one that Django goes to the database for, every
\* time the line is reached; a query reported in a loop is run there; and what
\* is saved is one of the rows, where the loop's name is left alone.
QueriesReportedAreRun ==
    done /\ style.rules = "queries" =>
        \A site \in Loops(chains) :
            /\ \A c \in LoopRule(site) :
                  \A h \in Held(c.line) : h.is = "read" => c.path \in h.absent
            /\ \A s \in ReadsOf(Body(site), {"show", "any"}) :
                  s.line \in QueryInLoop(site, chains) =>
                      \A h \in Held(s.line) : h.is \in {"row", "count"}
            /\ ~Reassigned(site) =>
                  \A s \in WriteInLoop(site) : \A h \in Held(s.line) : h.is = "row"

\* Of a queryset that len() is told not to fetch, no other statement reads the
\* rows, in any run, where no second name was given to it; and one that is told
\* to be the whole table, or a count, is one.
CallsReportedAreWasteful ==
    done /\ style.rules = "queries" =>
        LET readers == Calls("len") \cup Calls("list")
                       \cup {s \in AllStatements : s.op = "for"}
        IN /\ \A s \in Calls("len") :
                 /\ LenOfQueryset(s, chains)
                 /\ \A q \in Classified(s.value, s.line, chains) : Len(q.via) <= 1
                 => \A h \in Held(s.line) :
                       /\ h.is = "queryset"
                       /\ \A r \in readers \ {s} : \A other \in Held(r.line) : other.made # h.made
           /\ \A s \in Calls("list") :
                 WholeTableInMemory(s, chains) => \A h \in Held(s.line) : h.is = "queryset" /\ h.whole
           /\ \A s \in Calls("any") :
                 CountForEmptiness(s, chains) => \A h \in Held(s.line) : h.is = "count"

\* A finding about a query says what Django does.
QueryReportsAreReal == QueriesReportedAreRun /\ CallsReportedAreWasteful

\* A value every name of which one assignment supplies, of steps that are all
\* the tracker's, none of which forgets the ones before.
RECURSIVE Followable(_, _, _, _)
Followable(value, line, uses, path) ==
    /\ value.form \in {"chain", "list", "enumerate"}
    /\ Does(value.steps) \subseteq Chaining \cup Terminal \cup {"iterator"}
    /\ \/ value.parts[1] = "objects"
       \/ \E b \in AssignedBy(value.parts[1], line, uses) :
             b.line \notin path /\ Followable(b.value, b.line, uses, path \cup {b.line})
NothingForgotten(site) ==
    \A q \in site.found : \A i, j \in DOMAIN q.steps : i < j =>
        /\ q.steps[i].do = "select everything" => q.steps[j].do # "select_related"
        /\ q.steps[i].do = "only" => q.steps[j].do # "only"

\* And what Django goes to the database for, of the rows of the first loop over
\* such a value, is reported; so is a query in its body, and one that counts
\* or loads a whole table.
QueriesRunAreReported ==
    done /\ style.rules = "queries" =>
        LET sites == Loops(chains)
        IN /\ \A site \in sites :
                 /\ ~Reassigned(site)
                 /\ Followable(site.loop.value, site.loop.line, chains, {})
                 /\ \A other \in sites : other.loop.line >= site.loop.line
                 /\ NothingForgotten(site)
                 => \A s \in Accesses(site) : \A h \in Held(s.line) :
                       h.is = "read" =>
                           \A p \in h.absent :
                               \/ \E c \in LoopRule(site) : IsPrefix(p, c.path)
                               \/ s.call # "rows" /\ p \in ManyHop(Root, s.value.steps)
           /\ \A s \in Calls("any") \cup Calls("list") :
                 /\ s.value.form = "chain" /\ Followable(s.value, s.line, chains, {})
                 /\ \E h \in Held(s.line) : h.is = "count" \/ (h.is = "queryset" /\ h.whole)
                 => \/ CountForEmptiness(s, chains) \/ WholeTableInMemory(s, chains)
                    \/ "iterator" \in Does(s.value.steps)

=============================================================================
