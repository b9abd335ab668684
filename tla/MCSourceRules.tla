---------------------------- MODULE MCSourceRules ----------------------------
(***************************************************************************)
(* Small functions for each group of rules.                                *)
(***************************************************************************)
EXTENDS TaintRules, QueryRules

CONSTANTS x, y, cur

Plain(part) == [form |-> "plain", parts |-> <<part>>]
Of(form, part) == [form |-> form, parts |-> <<part>>]
Both(form, a, b) == [form |-> form, parts |-> <<a, b>>]
Splice(a, b) == Both("splice", a, b)
Call(call, value) == [call |-> call, value |-> value]
\* execute(), on an object.
Execute(value, on) == Call("execute", [value EXCEPT !.parts = @ \o <<on>>])

Style(names, values, iterables, reads, blocks, n) ==
    [rules |-> "taint", names |-> names, values |-> values, iterables |-> iterables, reads |-> reads,
     stops |-> {"returned"}, blocks |-> blocks, habits |-> {}, lines |-> n, depth |-> 1]

\* Every shape of function, with one name: what reaches what.
FlowStyle ==
    [Style({x}, {Plain("path")}, {Plain("path")}, {Call("show", Plain(x))},
           {"if", "while", "for", "match", "try"}, 4)
        EXCEPT !.stops = Exits, !.habits = {"augment"}, !.depth = 2]

SqlStyle ==
    Style({x, y}, {Plain("request"), Splice("path", "request"), Splice("path", x), Of("convert", "read"),
                   Plain(y)}, {Plain("request")},
          {Call("raw", Plain(x)), Call("raw", Splice("path", y)), Call("extra", Splice("path", "converted")),
           Call("RawSQL", Plain("request"))}, {"if", "for"}, 3)
CursorStyle ==
    Style({x, cur}, {Splice("path", "request"), Plain("cursor"), Plain("other")}, {},
          {Execute(Plain(x), cur), Execute(Splice("path", "read"), cur), Execute(Plain(x), "cursor")},
          {"if"}, 4)
TaintStyle ==
    Style({x, y}, {Plain("request"), Of("convert", x), Of("helper", x), Splice("path", y), Plain("other")},
          {Plain("read")},
          {Call("filter", Plain(x)), Call("loads", Plain(y)), Call("eval", Of("helper", x)),
           Call("yaml Loader", Of("convert", "read")), Call("safe_load", Plain(y))}, {"if", "for"}, 3)
ShellStyle ==
    Style({x, y}, {Plain("request"), Of("quote", x), Splice("path", "request"), Splice("path", y), Plain("other")},
          {}, {Call("system", Plain(x)), Call("run shell", Splice("path", y)), Call("run sh -c", Splice("path", "quoted")),
              Call("run argv", Plain(x))}, {"if"}, 3)
RedirectStyle ==
    Style({x, y}, {Plain("read"), Splice("path", "request"), Splice("scheme", x), Splice("scheme", "other"),
                   Splice(y, "path")},
          {}, {Call("redirect", Plain(x)), Call("redirect", Splice("scheme", y)), Call("validate", Plain(x))},
          {"if"}, 3)
FetchStyle ==
    Style({x, y}, {Plain("read"), Splice("path", "request"), Splice("scheme", x), Splice("origin", "other"),
                   Both("join", y, "path"), Both("join", "origin", x)},
          {}, {Call("fetch", Plain(x)), Call("fetch", Splice("origin", y)), Call("fetch", Both("join", x, "path"))},
          {"if"}, 4)
MarkupStyle ==
    Style({x, y}, {Plain("read"), Splice("path", "request"), Splice("path", x), Of("convert", "read"), Plain(y)},
          {Plain("request")}, {Call("mark_safe", Plain(x)), Call("mark_safe", Splice("path", y))}, {"if", "for"}, 3)
FileStyle ==
    Style({x, y}, {Plain("read"), Both("join", "path", x), Splice("path", y), Of("convert", "read"), Plain("other")},
          {Plain("request")}, {Call("open", Plain(x)), Call("open", Both("join", "path", y))}, {"if", "for"}, 3)

\* Querysets: what is fetched with the rows, and what a loop asks of each.
Ask(base, do) == Chain(base, IF do = "nothing" THEN <<>> ELSE <<Step(do, {})>>)
With(base, do, path) == Chain(base, <<Step(do, {path})>>)
ListOf(form, base) == [form |-> form, parts |-> <<base>>, steps |-> <<>>]
Along(base, path) == [form |-> "path", parts |-> <<base>>, steps |-> path]
QueryStyle(values, iterables, reads, blocks, n, d) ==
    [rules |-> "queries", names |-> {x, y}, values |-> values, iterables |-> iterables, reads |-> reads,
     stops |-> {}, blocks |-> blocks, habits |-> {}, lines |-> n, depth |-> d]

JoinStyle ==
    QueryStyle({With("objects", "select_related", <<"artist">>), Ask(x, "select nothing"), ListOf("list", x)},
           {Ask(x, "nothing"), Ask("objects", "all"), With("objects", "prefetch_related", <<"artist", "label">>)},
           {Call("show", Along(y, <<"artist">>)), Call("show", Along(y, <<"artist", "label">>))},
           {"for", "if"}, 4, 1)
ManyStyle ==
    QueryStyle({With("objects", "prefetch_related", <<"tags">>), With(x, "prefetch_related", <<"artist", "songs">>)},
           {Ask(x, "nothing"), Ask(x, "iterator"), ListOf("enumerate", x), Ask(x, "slice")},
           {Call("rows", Along(y, <<"tags">>)), Call("rows", Along(y, <<"artist", "songs">>)),
            Call("narrowed", Along(y, <<"tags">>)), Call("save", Ask(y, "nothing"))},
           {"for", "if"}, 4, 1)
FieldStyle ==
    QueryStyle({Chain("objects", <<Step("only", {"title", "length"})>>), Chain(x, <<Step("defer", {"title"})>>),
            Ask(x, "values"), Ask("objects", "select everything")},
           {Ask(x, "nothing"), Chain(x, <<Step("only", {"length"})>>)},
           {Call("show", Along(y, <<"title">>)), Call("show", Along(y, <<"length">>)), Call("show", Along(y, <<"artist">>))},
           {"for"}, 4, 1)
LoopStyle ==
    QueryStyle({Ask("objects", "all"), Ask(x, "first"), Ask("objects", "create")},
           {Ask(x, "nothing")},
           {Call("show", Ask(x, "count")), Call("show", Ask("objects", "first")), Call("any", Ask(y, "count"))},
           {"for", "while"}, 4, 2)
CountStyle ==
    QueryStyle({Ask("objects", "all"), Ask(x, "filter"), Ask(x, "nothing")},
           {Ask(x, "nothing")},
           {Call("len", Ask(x, "nothing")), Call("len", Ask("objects", "all")), Call("list", Ask(x, "values")),
            Call("list", Ask(y, "all")), Call("any", Ask(x, "count"))},
           {"for", "if"}, 4, 1)
TheStyles == {FlowStyle, SqlStyle, CursorStyle, TaintStyle, ShellStyle, RedirectStyle, FetchStyle,
              MarkupStyle, FileStyle, JoinStyle, ManyStyle, FieldStyle, LoopStyle, CountStyle}
TheCursorNames == {cur}
TheYields(s, held) == IF style.rules = "taint" THEN TaintYields(s, held) ELSE QueryYields(s, held)
None == [n \in {} |-> "Song"]
TheSchema == [Song |-> [forward |-> [artist |-> "Artist"], many |-> [tags |-> "Tag"], columns |-> {"title", "length"}],
              Artist |-> [forward |-> [label |-> "Label"], many |-> [songs |-> "Song"], columns |-> {"name"}],
              Label |-> [forward |-> None, many |-> None, columns |-> {"name"}],
              Tag |-> [forward |-> None, many |-> None, columns |-> {"name"}]]

\* What the rules' accounts of values are made of.
TaintHoldings == [raw : BOOLEAN, bare : BOOLEAN, first : {"fixed", "path", "open", "client"}, cursor : BOOLEAN]
Fetches == [joined : SUBSET Seq(STRING), everything : BOOLEAN, prefetched : SUBSET Seq(STRING),
            only : SUBSET STRING, defer : SUBSET STRING, sliced : BOOLEAN, instances : BOOLEAN]
RowHoldings == [is : {"other", "queryset", "row", "list", "count", "create"}, fetched : Fetches,
                whole : BOOLEAN, made : Nat]
ReadHoldings == [is : {"read"}, absent : SUBSET Seq(STRING)]
TheHoldings == TaintHoldings \cup RowHoldings \cup ReadHoldings

=============================================================================
