------------------------------ MODULE TaintRules ------------------------------
(***************************************************************************)
(* The injection rules (DJI-001 to DJI-012): what request data reaches a   *)
(* call that must not be given it, as dataflow/taint.py and each rule read *)
(* it off the reaching definitions, next to what the call is given when    *)
(* Python runs the function.                                               *)
(*                                                                         *)
(* A value is a form over parts.  A part is a name or one of               *)
(*   path, scheme, origin  literals: "/p?", "https://", "https://host"     *)
(*   request, read         request.GET["q"], request.GET.get("next")       *)
(*   converted, quoted     int(request.GET["q"]), shlex.quote of it        *)
(*   other                 a call of the project's that is passed nothing  *)
(*   cursor                connection.cursor()                             *)
(* A read is a call of a sink, or of a validator; its parts are those of   *)
(* the argument the rule looks at, and for execute() the last part is the  *)
(* object it is called on.                                                 *)
(***************************************************************************)
EXTENDS ReachingDefs, SequencesExt

CONSTANT CursorNames    \* names that say they hold a cursor

Literals == {"path", "scheme", "origin"}
Sources == {"request", "read"}

\* commands() and sinks(): how the call is spelled says whether a shell reads
\* the argument, and whether what is read may be any object.  The other ways
\* to spell them are "run argv" and "safe_load".
ShellCommands == {"system", "run shell", "run sh -c"}
UnsafeSinks == {"eval", "loads", "yaml Loader"}
Composing == {"execute", "raw", "extra", "RawSQL"}      \* SqlSurface
Sinks == Composing \cup ShellCommands \cup UnsafeSinks
         \cup {"run argv", "safe_load", "filter", "fetch", "redirect", "mark_safe", "open"}

-----------------------------------------------------------------------------
(* What values hold: raw is request data as the client wrote it, bare is   *)
(* raw outside shlex quotes, and first says who settles where a URL that   *)
(* begins so points: "open" leaves it to what follows, "path" to whoever   *)
(* resolves it.                                                            *)

Holding(raw, bare, first) == [raw |-> raw, bare |-> bare, first |-> first, cursor |-> FALSE]
Opaque == Holding(FALSE, FALSE, "fixed")

PartHolds(part, held) ==
    CASE part \in style.names -> held[part]
      [] part \in Sources     -> Holding(TRUE, TRUE, "client")
      [] part = "quoted"      -> Holding(TRUE, FALSE, "client")
      [] part = "path"        -> Holding(FALSE, FALSE, "path")
      [] part \in {"scheme", "origin"} -> Holding(FALSE, FALSE, "open")
      [] part = "cursor"      -> [Opaque EXCEPT !.cursor = TRUE]
      [] OTHER -> Opaque

Follows(a, b, first) == Holding(a.raw \/ b.raw, a.bare \/ b.bare, first)
Concat(a, b) == Follows(a, b, IF a.first = "open" THEN b.first ELSE a.first)
\* urljoin(): a reference that names a host replaces the base.
Joined(a, b) == Follows(a, b, IF b.first = "path" THEN a.first
                              ELSE IF b.first = "client" THEN "client" ELSE "fixed")

ValueHolds(value, held) ==
    LET first == PartHolds(value.parts[1], held)
    IN CASE value.form = "splice"  -> Concat(first, PartHolds(value.parts[2], held))
         [] value.form = "join"    -> Joined(first, PartHolds(value.parts[2], held))
         [] value.form = "convert" -> Opaque
         [] value.form = "quote"   -> [first EXCEPT !.bare = FALSE]
         [] OTHER                  -> first

\* Of a call, what it is given; execute() is also told by what it is called on.
TaintYields(s, held) ==
    CASE s.op = "parameter" -> [Opaque EXCEPT !.cursor = s.name \in CursorNames]
      [] s.op \in {"match", "while"} -> Opaque
      [] s.op = "augment" -> Concat(held[s.name], ValueHolds(s.value, held))
      [] s.op = "read" /\ s.call = "execute" ->
            [ValueHolds(s.value, held) EXCEPT
                !.cursor = PartHolds(s.value.parts[Len(s.value.parts)], held).cursor]
      [] OTHER -> ValueHolds(s.value, held)

-----------------------------------------------------------------------------
(* taint.py.  SAFE and UNKNOWN are one to every rule: what it asks is      *)
(* whether the answer is TAINTED.                                          *)

RECURSIVE TaintOf(_, _, _, _)
NameTainted(name, line, uses, path) ==
    \E b \in Reaching(uses, line, name) :
        Valued(b) /\ b.line \notin path /\ TaintOf(b.value, b.line, uses, path \cup {b.line})
PartTainted(part, line, uses, path) ==
    \/ part \in Sources \cup {"quoted"}
    \/ part \in style.names /\ NameTainted(part, line, uses, path)
TaintOf(value, line, uses, path) ==
    /\ value.form # "convert"
    /\ \E k \in DOMAIN value.parts : PartTainted(value.parts[k], line, uses, path)
Tainted(part, line, uses) == PartTainted(part, line, uses, {})

\* interpolation(): a composition has a part that is no literal.
IsComposition(value) ==
    value.form = "splice" /\ \E k \in {1, 2} : value.parts[k] \notin Literals
IsName(value) == value.form = "plain" /\ value.parts[1] \in style.names

-----------------------------------------------------------------------------
(* SqlSurface: the statement is composed in place, or in a definition of   *)
(* the name it is passed by, and the first of those in the source is read. *)

Built(s, uses) ==
    IF IsComposition(s.value) THEN {s}
    ELSE IF ~IsName(s.value) THEN {}
    ELSE LET built == {b \in Reaching(uses, s.line, s.value.parts[1]) :
                          Valued(b) /\ IsComposition(b.value)}
         IN {b \in built : \A c \in built : b.line <= c.line}

SplicesRequest(s, uses) ==
    \E b \in Built(s, uses) : \E k \in {1, 2} : Tainted(b.value.parts[k], b.line, uses)

\* is_cursor(): what the name was bound to, and where that says nothing, the
\* name itself.
NamedLikeOne(part, line, uses) == part \in CursorNames \cup {"cursor"}
IsCursor(part, line, uses) ==
    IF part \notin style.names THEN part = "cursor"
    ELSE LET valued == {b \in Reaching(uses, line, part) : Valued(b)}
         IN IF valued = {} THEN part \in CursorNames
            ELSE \E b \in valued : b.value.form = "plain" /\ b.value.parts[1] = "cursor"

-----------------------------------------------------------------------------
(* What the other rules look for.  A search returns what it found and the  *)
(* names it has followed: each is followed once, wherever it was met.      *)

Search(found, seen) == [found |-> found, seen |-> seen]

\* unescaped() and traversable(): any part, through names and joins of paths;
\* each use is followed, once.
RECURSIVE Written(_, _, _, _, _)
Written(call, value, line, uses, path) ==
    /\ value.form \in {"plain", "splice"} \cup (IF call = "open" THEN {"join"} ELSE {})
    /\ \E k \in DOMAIN value.parts :
          \/ value.parts[k] \in Sources
          \/ /\ value.parts[k] \in style.names
             /\ \E b \in Reaching(uses, line, value.parts[k]) :
                   /\ Valued(b) /\ b.line \notin path
                   /\ Written(call, b.value, b.line, uses, path \cup {b.line})

\* _quoted(): is some tainted part of the payload a call of shlex's?
BySource(bindings) == SetToSortSeq(bindings, LAMBDA a, b : a.line < b.line)
ValuedReaching(name, line, uses) == BySource({b \in Reaching(uses, line, name) : Valued(b)})

RECURSIVE Quoted(_, _, _, _), QuotedParts(_, _, _, _), QuotedBindings(_, _, _)
Quoted(value, line, uses, seen) ==
    IF \/ value.form = "quote" /\ TaintOf(value, line, uses, {})
       \/ \E k \in DOMAIN value.parts : value.parts[k] = "quoted"
    THEN Search(TRUE, seen)
    ELSE QuotedParts(value.parts, line, uses, seen)
QuotedParts(parts, line, uses, seen) ==
    IF parts = <<>> THEN Search(FALSE, seen)
    ELSE LET part == Head(parts)
             here == IF part \in style.names \ seen /\ Tainted(part, line, uses)
                     THEN QuotedBindings(ValuedReaching(part, line, uses), uses, seen \cup {part})
                     ELSE Search(FALSE, seen)
         IN IF here.found THEN here ELSE QuotedParts(Tail(parts), line, uses, here.seen)
QuotedBindings(bindings, uses, seen) ==
    IF bindings = <<>> THEN Search(FALSE, seen)
    ELSE LET b    == Head(bindings)
             here == Quoted(b.value, b.line, uses, seen)
         IN IF here.found THEN here ELSE QuotedBindings(Tail(bindings), uses, here.seen)

\* chosen() for a redirect and authority() for a fetch: the part that settles
\* where the URL points.  A redirect is settled by any literal that is more
\* than a scheme, and a fetch by one that ends the host.
SchemesOnly(call) == {"scheme"}
LeavesOpen(call) == IF call = "redirect" THEN {"scheme"} ELSE {"scheme", "origin"}

RECURSIVE Chosen(_, _, _, _, _), ChosenPart(_, _, _, _, _), ChosenBindings(_, _, _, _)
ChosenPart(call, part, line, uses, seen) ==
    IF part \notin style.names
    THEN Search(part \in Sources \/ (call = "fetch" /\ part = "quoted"), seen)
    ELSE IF part \in seen THEN Search(Tainted(part, line, uses), seen)
    ELSE ChosenBindings(call, ValuedReaching(part, line, uses), uses, seen \cup {part})
ChosenBindings(call, bindings, uses, seen) ==
    IF bindings = <<>> THEN Search(FALSE, seen)
    ELSE LET b    == Head(bindings)
             here == Chosen(call, b.value, b.line, uses, seen)
         IN IF here.found THEN here ELSE ChosenBindings(call, Tail(bindings), uses, here.seen)
Chosen(call, value, line, uses, seen) ==
    LET part(k) == value.parts[k]
    IN CASE value.form = "plain" -> ChosenPart(call, part(1), line, uses, seen)
         [] value.form = "splice" ->
               IF part(1) \in LeavesOpen(call) THEN ChosenPart(call, part(2), line, uses, seen)
               ELSE IF part(1) \in Literals THEN Search(FALSE, seen)
               ELSE ChosenPart(call, part(1), line, uses, seen)
         [] value.form = "join" /\ call = "fetch" ->
               LET reference == ChosenPart(call, part(2), line, uses, seen)
               IN IF reference.found \/ part(2) # "path" THEN reference
                  ELSE ChosenPart(call, part(1), line, uses, reference.seen)
         [] OTHER -> Search(call = "fetch" /\ TaintOf(value, line, uses, {}), seen)

\* identity() and guarded(): some validator, anywhere in the function, is
\* called on a name or a request parameter the target comes from.
NamesOrSources(value) ==
    {value.parts[k] : k \in DOMAIN value.parts} \cap (style.names \cup Sources)
NameUses(value, line) ==
    LET names == SelectSeq(value.parts, LAMBDA p : p \in style.names)
    IN [k \in DOMAIN names |-> [name |-> names[k], line |-> line]]

RECURSIVE Identity(_, _, _, _)
Identity(queue, uses, seen, known) ==
    IF queue = <<>> THEN known
    ELSE LET use   == Last(queue)
             bound == ValuedReaching(use.name, use.line, uses)
             added == [k \in DOMAIN bound |-> NameUses(bound[k].value, bound[k].line)]
         IN IF use.name \in seen THEN Identity(Front(queue), uses, seen, known)
            ELSE Identity(Front(queue) \o FlattenSeq(added), uses, seen \cup {use.name},
                          known \cup UNION {NamesOrSources(bound[k].value) : k \in DOMAIN bound})

Reads == {s \in {code[l] : l \in Lines} : s.op = "read"}

Guarded(s, uses) ==
    LET about == Identity(NameUses(s.value, s.line), uses, {}, NamesOrSources(s.value))
    IN \E v \in Reads :
          v.call = "validate" /\ NamesOrSources(v.value) \cap about # {}

-----------------------------------------------------------------------------
(* inspect() of each rule, on one call.                                    *)

RawSqlInterpolation(s, uses) ==
    /\ s.call = "execute"
    /\ SplicesRequest(s, uses)
    /\ IsCursor(s.value.parts[Len(s.value.parts)], s.line, uses)
RawQuerysetInterpolation(s, uses) == s.call = "raw" /\ SplicesRequest(s, uses)
ExtraClauseInterpolation(s, uses) == s.call = "extra" /\ SplicesRequest(s, uses)
RawExpressionInterpolation(s, uses) == s.call = "RawSQL" /\ SplicesRequest(s, uses)
KwargExpansion(s, uses) == s.call = "filter" /\ TaintOf(s.value, s.line, uses, {})
UnsafeDeserialisation(s, uses) == s.call \in UnsafeSinks /\ TaintOf(s.value, s.line, uses, {})
ShellInjection(s, uses) ==
    /\ s.call \in ShellCommands
    /\ TaintOf(s.value, s.line, uses, {})
    /\ ~Quoted(s.value, s.line, uses, {}).found
ServerSideRequestForgery(s, uses) ==
    s.call = "fetch" /\ Chosen("fetch", s.value, s.line, uses, {}).found
OpenRedirect(s, uses) ==
    /\ s.call = "redirect"
    /\ Chosen("redirect", s.value, s.line, uses, {}).found
    /\ ~Guarded(s, uses)
TrustedHtml(s, uses) == s.call = "mark_safe" /\ Written(s.call, s.value, s.line, uses, {})
PathTraversal(s, uses) == s.call = "open" /\ Written(s.call, s.value, s.line, uses, {})

Reported(s, uses) ==
    \/ RawSqlInterpolation(s, uses) \/ RawQuerysetInterpolation(s, uses)
    \/ ExtraClauseInterpolation(s, uses) \/ RawExpressionInterpolation(s, uses)
    \/ KwargExpansion(s, uses) \/ UnsafeDeserialisation(s, uses)
    \/ ShellInjection(s, uses) \/ ServerSideRequestForgery(s, uses) \/ OpenRedirect(s, uses)
    \/ TrustedHtml(s, uses) \/ PathTraversal(s, uses)

-----------------------------------------------------------------------------
(* Properties.                                                             *)

\* What each sink must not be given.
Decides(call, content) ==
    CASE call \in {"run argv", "safe_load"} -> FALSE
      [] call \in {"system", "run shell", "run sh -c"} -> content.bare
      [] call \in {"fetch", "redirect"} -> content.first = "client"
      [] OTHER -> content.raw

SinksIn == {s \in Reads : s.call \in Sinks}
Given(s) == {g[2] : g \in {h \in python.given : h[1] = s.line}}

\* No name is followed to from two of its uses.
RECURSIVE FollowedFrom(_, _, _, _)
FollowedFrom(value, line, uses, path) ==
    LET names == NamesIn(value)
        bound == {b \in UNION {Reaching(uses, line, n) : n \in names} :
                     Valued(b) /\ b.line \notin path}
    IN {<<line, n>> : n \in names}
       \cup UNION {FollowedFrom(b.value, b.line, uses, path \cup {b.line}) : b \in bound}
FollowedOnce(s, uses) ==
    \A u, v \in FollowedFrom(s.value, s.line, uses, {}) : u[2] = v[2] => u[1] = v[1]

\* A report is of a call that, in some run, is given request data where that is
\* what the rule warns of, and an execute() is of a cursor in some run.  The
\* rules that follow a name once, whatever its use, are only held to it where
\* no name is met twice.
ReportsReachTheSink ==
    done /\ style.rules = "taint" =>
        \A s \in SinksIn :
            /\ Reported(s, chains)
            /\ Given(s) # {}
            /\ s.call \in ShellCommands \cup {"fetch", "redirect"} => FollowedOnce(s, chains)
            => /\ \E c \in Given(s) : Decides(s.call, c)
               /\ s.call = "execute" => \E c \in Given(s) : c.cursor

\* And a call that is given it in some run is reported: where a statement is
\* composed, in place or in the one definition its name has; where the function
\* calls no validator, for a redirect; and for a shell, where every name that is
\* followed has one definition, since one that quotes answers for the others.
InItsReach(s, uses) ==
    /\ s.call = "redirect" => ~\E v \in Reads : v.call = "validate"
    /\ s.call \in ShellCommands =>
          \A u \in FollowedFrom(s.value, s.line, uses, {}) :
              Cardinality(Reaching(uses, u[1], u[2])) = 1
    /\ s.call \in Composing =>
        \/ IsComposition(s.value)
        \/ /\ IsName(s.value)
           /\ \E b \in Reaching(uses, s.line, s.value.parts[1]) :
                 /\ Reaching(uses, s.line, s.value.parts[1]) = {b}
                 /\ Valued(b) /\ IsComposition(b.value)
RequestDataIsReported ==
    done /\ style.rules = "taint" =>
        \A s \in SinksIn :
            /\ InItsReach(s, chains)
            /\ s.call = "execute" => \A c \in Given(s) : c.cursor
            /\ \E c \in Given(s) : Decides(s.call, c)
            => Reported(s, chains)

=============================================================================
