----------------------------- MODULE ReachingDefs -----------------------------
(***************************************************************************)
(* Which definitions reach a use of a name (dataflow/scopes.py and         *)
(* dataflow/chains.py), next to the definitions that supply its value when *)
(* Python runs the function.                                               *)
(*                                                                         *)
(* A behaviour writes one function, a line at a time, and then analyses    *)
(* it.  Every statement is a line of its own and says which part of which  *)
(* block it stands in, so that what is walked lies always further down.    *)
(* Tests and iterables are opaque: either branch may run, a loop any       *)
(* number of times, and what evaluates something may raise.                *)
(***************************************************************************)
EXTENDS Naturals, Sequences, FiniteSets

CONSTANTS Styles,        \* the kinds of function written, see below
          ValueOf(_, _), \* what a statement's expression evaluates to, by what
                         \* each name holds: the rules' own account of values
          Holdings,      \* the values there are,
          Anything,      \* and the one of them that stands for any other
          MaxTurns       \* bound: turns of one loop

\* What the authors of a style also do: where the analysis loses sight of a
\* definition, all but the last, which it sees and the rules make less of.
FlowHabits == {"break", "busy try", "finally", "test reads", "augment"}
ASSUME StylesAreKnown ==
    \A s \in Styles : s.habits \subseteq FlowHabits /\ s.blocks \subseteq {"if", "while", "for", "match", "try"}
ASSUME AnythingIsHeld == Anything \in Holdings
ASSUME LoopsTurn == MaxTurns \in Nat /\ MaxTurns >= 2

VARIABLES style,    \* [rules, names, values, iterables, reads, stops,
          \*  blocks, habits, lines, depth]
          open,     \* the stack of blocks being written, the function first
          code,     \* the statements, in the order of their lines
          done,
          chains,   \* DefUse.uses: <<line of a use, its name, a definition>>
          python    \* what happens when Python runs the function

flowVars == <<style, open, code, done, chains, python>>

-----------------------------------------------------------------------------
(* Statements.  A binding is the statement that makes it, and a parameter is *)
(* bound at line 0.  A value is a form and the sequence of its parts, names  *)
(* among them.  A stop is the way it stops.                                  *)

Exits == {"raised", "returned", "broke", "continued"}
\* The parts of a compound statement, in order: a loop has its else, a try its
\* handler, its else and its finally.
PartsOf == [function |-> 1, if |-> 2, while |-> 2, for |-> 2, match |-> 1, try |-> 4]
NoValue == [form |-> "none", parts |-> <<>>]

Top == open[Len(open)]
Lines == 1 .. Len(code)
Node(op, name, call, value) ==
    [op |-> op, line |-> Len(code) + 1, name |-> name, call |-> call, value |-> value,
     block |-> Top.line, part |-> Top.part]
Parameter(name) == [op |-> "parameter", line |-> 0, name |-> name]
Bindings == {code[l] : l \in Lines} \cup {Parameter(n) : n \in style.names}

\* scopes.py: what a binding's value is.  That of a for target is the iterable,
\* that of an augmented assignment what is added; a captured pattern and a
\* parameter have none.
ValuedOps == {"bind", "augment", "for"}
Valued(binding) == binding.op \in ValuedOps

NamesIn(value) == {n \in style.names : \E k \in DOMAIN value.parts : value.parts[k] = n}

\* The first line of a part, and the one that follows in the same part; past
\* the last line where there is none.
End == Len(code) + 1
Foremost(S) == IF S = {} THEN End ELSE CHOOSE l \in S : \A m \in S : l <= m
First(block, part) == Foremost({l \in Lines : code[l].block = block /\ code[l].part = part})
Following(l) == Foremost({m \in Lines : m > l /\ code[m].block = code[l].block /\ code[m].part = code[l].part})

-----------------------------------------------------------------------------
(* _Analysis: one walk over the statements, carrying for every name the    *)
(* bindings that may be in it, and the uses seen, which become chains.     *)

State(env, reachable) == [env |-> env, reachable |-> reachable]
States == [env : [style.names -> SUBSET Bindings], reachable : BOOLEAN]
Outcome(state, seen) == [state |-> state, seen |-> seen]

MergeEnvs(states) == [n \in style.names |-> UNION {s.env[n] : s \in states}]
MergeAll(states) == State(MergeEnvs(states), TRUE)
Merge(states) ==
    LET live == {s \in states : s.reachable}
    IN IF live = {} THEN State(MergeEnvs(states), FALSE) ELSE State(MergeEnvs(live), TRUE)

BindNode(b, state) == [state EXCEPT !.env[b.name] = {b}]
Load(line, names, state) == UNION {{<<line, n, b>> : b \in state.env[n]} : n \in names}

StopAt(state) == State(state.env, FALSE)

\* The name a loop, a handler or a case binds when it is entered.
Enter(s, state) == IF s.name \in style.names THEN BindNode(s, state) ELSE state

\* statements(), of a part: walk has the outcome of the lines further down.
Part(walk, s, part, state) == walk[<<First(s.line, part), state>>]

BodyOnce(walk, s, state) == Part(walk, s, 1, Enter(s, state))
BodyTwice(walk, s, state) ==
    LET first  == Part(walk, s, 1, Enter(s, state))
        second == Part(walk, s, 1, Enter(s, Merge({state, first.state})))
    IN Outcome(second.state, first.seen \cup second.seen)

Loop(walk, s, state) ==
    LET tested == IF s.op = "for" THEN Load(s.line, NamesIn(s.value), state)
                  ELSE IF "test reads" \in style.habits THEN Load(s.line, style.names, state) ELSE {}
        inside == BodyTwice(walk, s, state)
        after  == Part(walk, s, 2, Merge({state, inside.state}))
    IN Outcome(after.state, tested \cup inside.seen \cup after.seen)

IfStatement(walk, s, state) ==
    LET taken   == Part(walk, s, 1, state)
        skipped == Part(walk, s, 2, state)
    IN Outcome(Merge({taken.state, skipped.state}), taken.seen \cup skipped.seen)

MatchStatement(walk, s, state) ==
    LET case == Part(walk, s, 1, Enter(s, state))
    IN Outcome(Merge({state, case.state}), case.seen)

TryStatement(walk, s, state) ==
    LET body    == Part(walk, s, 1, state)
        partial == Merge({state, body.state})
        handler == Part(walk, s, 2, partial)
        orelse  == Part(walk, s, 3, body.state)
        final   == Part(walk, s, 4, Merge({orelse.state, handler.state}))
    IN Outcome(final.state, body.seen \cup handler.seen \cup orelse.seen \cup final.seen)

Statement(walk, s, state) ==
    CASE s.op = "bind" -> Outcome(BindNode(s, state), Load(s.line, NamesIn(s.value), state))
      [] s.op = "augment" ->
            Outcome(BindNode(s, state), Load(s.line, NamesIn(s.value) \cup {s.name}, state))
      [] s.op = "read" -> Outcome(state, Load(s.line, NamesIn(s.value), state))
      [] s.op \in Exits -> Outcome(StopAt(state), {})
      [] s.op \in {"for", "while"} -> Loop(walk, s, state)
      [] s.op = "if"    -> IfStatement(walk, s, state)
      [] s.op = "match" -> MatchStatement(walk, s, state)
      [] s.op = "try"   -> TryStatement(walk, s, state)

\* A line and those that follow it in its part.
Statements[at \in (1 .. End) \X States] ==
    IF at[1] = End THEN Outcome(at[2], {})
    ELSE LET first == Statement(Statements, code[at[1]], at[2])
             rest  == Statements[<<Following(at[1]), first.state>>]
         IN Outcome(rest.state, first.seen \cup rest.seen)

Entry == [n \in style.names |-> {Parameter(n)}]
DefUse == Statements[<<First(0, 1), State(Entry, TRUE)>>].seen
Reaching(uses, line, name) == {u[3] : u \in {v \in uses : v[1] = line /\ v[2] = name}}

-----------------------------------------------------------------------------
(* What Python does, from a set of stores: the stores each way out leaves  *)
(* behind, which definition supplied a name where, and what each read got. *)
(* A store maps a name to the binding it is from and what it holds.        *)

Stores == [style.names -> [from : Bindings, holds : Holdings]]

Flow(next, seen, given) == [next |-> next, raised |-> {}, returned |-> {}, broke |-> {},
                            continued |-> {}, seen |-> seen, given |-> given]
Nowhere == Flow({}, {}, {})
Either(flows) ==
    [next |-> UNION {f.next : f \in flows}, raised |-> UNION {f.raised : f \in flows},
     returned |-> UNION {f.returned : f \in flows}, broke |-> UNION {f.broke : f \in flows},
     continued |-> UNION {f.continued : f \in flows}, seen |-> UNION {f.seen : f \in flows},
     given |-> UNION {f.given : f \in flows}]
Together(f, g) == Either({f, g})
Then(f, g) == Together([f EXCEPT !.next = {}], g)

Known(value) == IF value \in Holdings THEN value ELSE Anything
Supplies(line, names, stores) == {<<line, n, st[n].from>> : n \in names, st \in stores}
Evaluates(s, st) == Known(ValueOf(s, [n \in style.names |-> st[n].holds]))

Assigned(b, stores) ==
    {[st EXCEPT ![b.name] = [from |-> b, holds |-> Evaluates(b, st)]] : st \in stores}
\* A loop's iterable and a match's subject are evaluated once, before its name
\* is bound to an element or to what was captured.
Entered(s, element, stores) ==
    IF s.name \notin style.names THEN stores
    ELSE {[st EXCEPT ![s.name] = [from |-> s, holds |-> element]] : st \in stores}

\* One line that reads names, and may raise instead of going on.
Line(s, names, after, stores) ==
    [Flow(after, Supplies(s.line, names, stores), {}) EXCEPT !.raised = stores]

Suite(run, s, part, stores) == run[<<First(s.line, part), stores>>]

\* Turns until nothing new comes round.
Turn(run, s, element, before) ==
    LET body  == Suite(run, s, 1, Entered(s, element, before.stores))
        again == body.next \cup body.continued
    IN IF before.over THEN before
       ELSE [stores |-> before.stores \cup again, flow |-> Together(before.flow, body),
             over |-> again \subseteq before.stores]
LastTurn(run, s, element, stores) ==
    LET turn[n \in 0 .. MaxTurns] ==
            IF n = 0 THEN [stores |-> stores, flow |-> Nowhere, over |-> FALSE]
            ELSE Turn(run, s, element, turn[n - 1])
    IN turn[MaxTurns]
Iterate(run, s, element, stores) ==
    LET last == LastTurn(run, s, element, stores)
    IN [last.flow EXCEPT !.next = last.stores, !.continued = {}]

Evaluated(s, stores) == {Evaluates(s, st) : st \in stores}
Alike(s, element, stores) == {st \in stores : Evaluates(s, st) = element}

Turns(run, s, element, stores) ==
    LET turns == Iterate(run, s, element, stores)
        over  == Suite(run, s, 2, turns.next)
        tests == IF s.op = "while" /\ "test reads" \in style.habits
                 THEN Supplies(s.line, style.names, turns.next) ELSE {}
    IN [Together([turns EXCEPT !.next = {}, !.broke = {}], over)
           EXCEPT !.next = over.next \cup turns.broke, !.seen = @ \cup tests]

RunLoop(run, s, stores) ==
    LET runs == Either({Turns(run, s, element, Alike(s, element, stores)) : element \in Evaluated(s, stores)})
    IN [runs EXCEPT !.seen = @ \cup Supplies(s.line, NamesIn(s.value), stores),
                    !.given = @ \cup {<<s.line, e>> : e \in Evaluated(s, stores)}]

RunMatch(run, s, stores) ==
    LET case == Suite(run, s, 1, Entered(s, Known(ValueOf(s, <<>>)), stores))
    IN Together(Flow(stores, {}, {}), case)

\* Whatever way out is being taken, the finally runs, and then it is taken.
Ways == {"next"} \cup Exits
Leaving(final, way) ==
    IF way = "next" THEN final ELSE [final EXCEPT !.next = {}, ![way] = @ \cup final.next]
Finally(run, s, all) ==
    Together(Flow({}, all.seen, all.given),
             Either({Leaving(Suite(run, s, 4, all[way]), way) : way \in Ways}))

RunTry(run, s, stores) ==
    LET body    == Suite(run, s, 1, stores)
        handler == Suite(run, s, 2, body.raised)
        orelse  == Suite(run, s, 3, body.next)
    IN Finally(run, s, Either({[body EXCEPT !.next = {}, !.raised = {}], handler, orelse}))

Run(run, s, stores) ==
    CASE s.op = "bind"    -> Line(s, NamesIn(s.value), Assigned(s, stores), stores)
      [] s.op = "augment" -> Line(s, NamesIn(s.value) \cup {s.name}, Assigned(s, stores), stores)
      [] s.op = "read"    -> [Line(s, NamesIn(s.value), stores, stores)
                                 EXCEPT !.given = {<<s.line, Evaluates(s, st)>> : st \in stores}]
      [] s.op \in Exits   -> [Nowhere EXCEPT ![s.op] = stores]
      [] s.op \in {"for", "while"} -> RunLoop(run, s, stores)
      [] s.op = "if"    -> Together(Suite(run, s, 1, stores), Suite(run, s, 2, stores))
      [] s.op = "match" -> RunMatch(run, s, stores)
      [] s.op = "try"   -> RunTry(run, s, stores)

RunAll[at \in (1 .. End) \X SUBSET Stores] ==
    IF at[1] = End THEN Flow(at[2], {}, {})
    ELSE LET first == Run(RunAll, code[at[1]], at[2])
         IN Then(first, RunAll[<<Following(at[1]), first.next>>])

\* What the caller passes is any parameter's own.
Called == [n \in style.names |->
              [from |-> Parameter(n), holds |-> Known(ValueOf(Parameter(n), <<>>))]]
Observed(flow) == [seen |-> flow.seen, given |-> flow.given]
Runs == Observed(RunAll[<<First(0, 1), {Called}>>])

-----------------------------------------------------------------------------
(* Writing the function.                                                   *)

Inside(ops) == \E k \in DOMAIN open : open[k].op \in ops
IsWritten(block, part) == First(block, part) # End

\* A try body that does one thing, and nothing in its finally.
PartHasRoom ==
    Top.op = "try" =>
        /\ Top.part = 1 /\ "busy try" \notin style.habits => ~IsWritten(Top.line, 1)
        /\ Top.part = 4 => "finally" \in style.habits
TryBodyIsPlain == Top.op = "try" /\ Top.part = 1 /\ "busy try" \notin style.habits

FlowInit ==
    /\ style \in Styles
    /\ open = <<[op |-> "function", line |-> 0, part |-> 1]>>
    /\ code = <<>>
    /\ done = FALSE
    /\ chains = {}
    /\ python = Observed(Nowhere)

Write(s) ==
    /\ ~done
    /\ Len(code) < style.lines
    /\ PartHasRoom
    /\ code' = Append(code, s)
    /\ UNCHANGED <<style, done, chains, python>>
WriteLine(s) == Write(s) /\ UNCHANGED open

WriteBind == \E n \in style.names, v \in style.values : WriteLine(Node("bind", n, "none", v))
WriteAugment ==
    /\ "augment" \in style.habits
    /\ \E n \in style.names, v \in style.values : WriteLine(Node("augment", n, "none", v))
WriteRead == \E r \in style.reads : WriteLine(Node("read", "none", r.call, r.value))
WriteStop ==
    \E how \in Exits :
        /\ how \in style.stops
        /\ how \in {"broke", "continued"} => Inside({"for", "while"}) /\ "break" \in style.habits
        /\ ~TryBodyIsPlain
        /\ WriteLine(Node(how, "none", "none", NoValue))

OpenBlock(op, name, value) ==
    /\ Len(open) <= style.depth
    /\ ~TryBodyIsPlain
    /\ Write(Node(op, name, "none", value))
    /\ open' = Append(open, [op |-> op, line |-> Len(code) + 1, part |-> 1])

NextPart ==
    /\ ~done
    /\ Top.part < PartsOf[Top.op]
    /\ open' = [open EXCEPT ![Len(open)].part = @ + 1]
    /\ UNCHANGED <<style, code, done, chains, python>>

\* The parts that were not written are empty; a body is not.
CloseBlock ==
    /\ ~done
    /\ Len(open) > 1
    /\ IsWritten(Top.line, 1)
    /\ Top.op = "try" => Top.part > 1
    /\ open' = SubSeq(open, 1, Len(open) - 1)
    /\ UNCHANGED <<style, code, done, chains, python>>

\* The function is written: it is analysed, and run.
Finish ==
    /\ ~done
    /\ Len(open) = 1
    /\ done' = TRUE
    /\ chains' = DefUse
    /\ python' = Runs
    /\ UNCHANGED <<style, open, code>>

OpenPlain == \E op \in style.blocks \ {"for", "match"} : OpenBlock(op, "none", NoValue)
OpenFor ==
    /\ "for" \in style.blocks
    /\ \E n \in style.names, v \in style.iterables : OpenBlock("for", n, v)
OpenMatch ==
    /\ "match" \in style.blocks
    /\ \E n \in style.names \cup {"none"} : OpenBlock("match", n, NoValue)

FlowNext ==
    \/ WriteBind \/ WriteAugment \/ WriteRead \/ WriteStop
    \/ OpenPlain \/ OpenFor \/ OpenMatch
    \/ NextPart \/ CloseBlock \/ Finish

FlowSpec == FlowInit /\ [][FlowNext]_flowVars

-----------------------------------------------------------------------------
(* Properties.                                                             *)

\* Every definition that supplies the value of a name somewhere, in some run
\* of the function, is among those said to reach it there.
EveryDefinitionIsSeen == done => python.seen \subseteq chains

\* And one that is said to reach a name where Python gets to it supplies its
\* value there in some run, a handler excepted: it is entered as if the body
\* could fail after its last statement.
NoDeadDefinitionIsSeen ==
    done /\ ~(\E l \in Lines : code[l].op = "try") =>
        \A u \in chains : (\E v \in python.seen : v[1] = u[1] /\ v[2] = u[2]) => u \in python.seen

\* The definitions that reach a name are those it is given its value by: none
\* is missing, and but for a handler none is there that no run reads.
DefinitionsAreTheOnesSeen == EveryDefinitionIsSeen /\ NoDeadDefinitionIsSeen

=============================================================================
