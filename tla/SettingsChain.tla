---------------------------- MODULE SettingsChain ----------------------------
(***************************************************************************)
(* How djaudit resolves a Django setting (settings.py, values.py,          *)
(* evaluator.py), next to what Python does with the same source.           *)
(*                                                                         *)
(* A behaviour is a settings package being read line by line: the line is  *)
(* chosen, the resolver's one shared scope takes the step _record would    *)
(* take, and so does every concrete run of the package: one per deployment *)
(* environment, splitting wherever the source calls something whose result *)
(* or failure nobody can see.  Settings are lists of tokens (ALLOWED_HOSTS,*)
(* MIDDLEWARE); the empty list is the falsy value a guard can meet.        *)
(*                                                                         *)
(* Module k of the package star-imports module k - 1, so the resolver's    *)
(* chain is 1, 2, ...: the order in which the lines arrive here.           *)
(***************************************************************************)
EXTENDS Naturals, Sequences, FiniteSets

CONSTANTS Names,       \* settings the package assigns, all upper case
          Tokens,      \* what a list setting lists
          Written,     \* the lists that appear as literals
          Foreign,     \* what a deployment may have put into the variable
          MaxLen,      \* bound: elements of a list
          MaxLines,    \* bound: statements of the package
          MaxModules,  \* bound: files of the package
          MaxDepth,    \* bound: nesting of if and try
          Habits       \* which of the habits below the authors have

ASSUME HabitsAreKnown ==
    Habits \subseteq {"star late", "helper mutates", "list shared"}
ASSUME BoundsAreCounts ==
    {MaxLen, MaxLines, MaxModules, MaxDepth} \subseteq Nat /\ MaxModules > 0

VARIABLES scope,     \* Scope.names: name -> Value, for the names assigned so far
          doubtful,  \* the names whose last Definition has conditional set
          runs,      \* the concrete runs that have not failed
          blocks,    \* the if and try statements the current line is inside of
          module,    \* the file being read
          starred,   \* files star-imported so far
          leading,   \* nothing but star imports so far in this file
          lines      \* statements read

vars == <<scope, doubtful, runs, blocks, module, starred, leading, lines>>

Lists == UNION {[1..k -> Tokens] : k \in 0..MaxLen}

ASSUME DataAreLists == Written \cup Foreign \subseteq Lists

SetTo(f, x, v) == [y \in DOMAIN f \cup {x} |-> IF y = x THEN v ELSE f[y]]

-----------------------------------------------------------------------------
(* values.py: a Value is its distinct branches, literal lists and reasons  *)
(* for not knowing, with one environment taint for all of them.            *)

Reasons == {"undefined name", "required variable", "unsupported call",
            "augmented assignment", "mutation", "argument", "element"}

Values == [lists : SUBSET Lists, reasons : SUBSET Reasons, env : BOOLEAN]

Of(l, env) == [lists |-> {l}, reasons |-> {}, env |-> env]
Unknown(why, env) == [lists |-> {}, reasons |-> {why}, env |-> env]

Branches(v) == Cardinality(v.lists) + Cardinality(v.reasons)
IsConditional(v) == Branches(v) > 1
IsLiteral(v) == Branches(v) = 1 /\ v.reasons = {}
IsUnknown(v) == Branches(v) = 1 /\ v.lists = {}
Literal(v) == CHOOSE l \in v.lists : TRUE

\* A conditional branch is flattened into its own branches, which are bare:
\* only the taint of a branch that is not conditional reaches the result.
Conditional(vs) == [lists   |-> UNION {v.lists : v \in vs},
                    reasons |-> UNION {v.reasons : v \in vs},
                    env     |-> \E v \in vs : ~IsConditional(v) /\ v.env]

Taint(v, env) == [v EXCEPT !.env = @ \/ env]

CouldBe(v, l) == v.reasons # {} \/ l \in v.lists

-----------------------------------------------------------------------------
(* The expressions an assignment may have, what the resolver makes of one  *)
(* in its scope, and what it evaluates to in a run: no result at all means *)
(* that the expression raises.                                             *)

Exprs ==
    [op : {"literal", "environ default"}, list : Written]
    \cup [op : {"environ required", "unknown call"}]
    \cup [op : {"name"}, name : Names]
    \cup [op : {"spread"}, name : Names, token : Tokens]
    \cup [op : {"or"}, name : Names, list : Written]
    \cup [op : {"if"}, name : Names, list : Written, other : Written]
    \cup [op : {"helper"}, list : Written, token : Tokens]

EvalName(n) ==
    IF n \in DOMAIN scope THEN scope[n] ELSE Unknown("undefined name", FALSE)

\* One or the other literal by the truth of a name.
EvalIfExp(e) ==
    LET test == EvalName(e.name) IN
    IF IsLiteral(test)
    THEN Of(IF Literal(test) # <<>> THEN e.list ELSE e.other, test.env)
    ELSE Conditional({Of(e.list, FALSE), Of(e.other, FALSE)})

\* NAME or literal: a literal operand decides, any other leaves both possible.
EvalOr(e) ==
    LET left == EvalName(e.name)
        right == Of(e.list, FALSE) IN
    IF ~IsLiteral(left)           THEN Taint(Conditional({left, right}), left.env)
    ELSE IF Literal(left) # <<>>  THEN left
    ELSE Taint(right, left.env)

\* [*NAME, token]: one element nobody can see and the container is unknown.
EvalSpread(e) ==
    LET inner == EvalName(e.name) IN
    IF IsLiteral(inner) THEN Of(Append(Literal(inner), e.token), inner.env)
    ELSE Unknown("element", FALSE)

\* helper(): L = literal; L.append(token); return L.  _exec_block passes over
\* the expression statement.
EvalHelper(e) == Of(e.list, FALSE)

\* os.environ.get resolves to its default, os.environ[...] to a dependency.
EvalEnviron(e) == IF e.op = "environ default" THEN Of(e.list, TRUE)
                  ELSE Unknown("required variable", TRUE)

Eval(e) ==
    CASE e.op = "literal"          -> Of(e.list, FALSE)
      [] e.op \in {"environ default", "environ required"} -> EvalEnviron(e)
      [] e.op = "unknown call"     -> Unknown("unsupported call", FALSE)
      [] e.op = "name"             -> EvalName(e.name)
      [] e.op = "spread"           -> EvalSpread(e)
      [] e.op = "or"               -> EvalOr(e)
      [] e.op = "if"               -> EvalIfExp(e)
      [] e.op = "helper"           -> EvalHelper(e)

Results(e, r) ==
    LET bound == IF "name" \in DOMAIN e /\ e.name \in DOMAIN r.ns
                 THEN {r.ns[e.name]} ELSE {} IN
    CASE e.op = "literal"          -> {e.list}
      [] e.op = "environ default"  -> IF r.env = {} THEN {e.list} ELSE r.env
      [] e.op = "environ required" -> r.env
      [] e.op = "unknown call"     -> Lists
      [] e.op = "name"             -> bound
      [] e.op = "spread"           -> {Append(l, e.token) : l \in bound}
      [] e.op = "or"               -> {IF l # <<>> THEN l ELSE e.list : l \in bound}
      [] e.op = "if"               -> {IF l # <<>> THEN e.list ELSE e.other : l \in bound}
      [] e.op = "helper"           -> {Append(e.list, e.token)}

-----------------------------------------------------------------------------
(* Where the current line is: which arms the resolver walks into, which of *)
(* them it takes for sure, and which runs get here.                        *)

\* Mutated: today's environment decides which arm there is.
VerdictOfTheDay(test) ==
    LET v == Eval(test) IN
    IF IsLiteral(v)
    THEN IF Literal(v) # <<>> THEN "body" ELSE "orelse"
    ELSE "both"

\* _visit_if takes one arm when the test is a literal no variable decided.
Verdict(test) ==
    LET v == Eval(test) IN
    IF IsLiteral(v) /\ ~v.env
    THEN IF Literal(v) # <<>> THEN "body" ELSE "orelse"
    ELSE "both"

Visited == \A i \in DOMAIN blocks : blocks[i].verdict \in {"both", blocks[i].arm}

\* Mutated: only an if makes what is inside it doubtful.
InDoubtUnderIf == \E i \in DOMAIN blocks :
                     /\ blocks[i].verdict = "both"
                     /\ blocks[i].kind = "if"

InDoubt == \E i \in DOMAIN blocks :
              /\ blocks[i].verdict = "both"
              /\ blocks[i].arm # "final"

Active(r) == \A i \in DOMAIN blocks : blocks[i].arm \in {r.path[i], "final"}

\* An exception lands in the innermost try of the first depth blocks whose
\* finally has not begun.
ThrownFrom(r, depth) ==
    LET open == {i \in 1..depth : blocks[i].kind = "try" /\ blocks[i].arm # "final"}
        i == CHOOSE i \in open : \A j \in open : j <= i IN
    IF open = {} THEN {}
    ELSE {[r EXCEPT !.path[i] = IF blocks[i].arm = "body" THEN "handler" ELSE "doomed"]}

Thrown(r) == ThrownFrom(r, Len(blocks))

\* Every run that gets here takes its step; one without a result throws.
EachRun(Steps(_)) ==
    UNION {IF ~Active(r) THEN {r}
           ELSE IF Steps(r) = {} THEN Thrown(r) ELSE Steps(r) : r \in runs}

\* Mutated: the last assignment wins, whether or not it runs.
LastOneWins(n, value) ==
    IF ~Visited THEN UNCHANGED <<scope, doubtful>>
    ELSE /\ scope' = SetTo(scope, n, value)
         /\ doubtful' = IF InDoubt THEN doubtful \cup {n} ELSE doubtful \ {n}

\* _record: an assignment that may not run keeps the earlier value as an
\* alternative, and every upper-case name gets a Definition.
Record(n, value) ==
    IF ~Visited THEN UNCHANGED <<scope, doubtful>>
    ELSE /\ scope' = SetTo(scope, n, IF InDoubt /\ n \in DOMAIN scope
                                     THEN Conditional({scope[n], value})
                                     ELSE value)
         /\ doubtful' = IF InDoubt THEN doubtful \cup {n} ELSE doubtful \ {n}

ReadLine == /\ lines < MaxLines
            /\ lines' = lines + 1

\* The bound MaxLen, on what both sides hold.
Short == /\ \A n \in DOMAIN scope : scope[n].lists \subseteq Lists
         /\ \A r \in runs : \A n \in DOMAIN r.ns : r.ns[n] \in Lists

Statement == /\ ReadLine
             /\ leading' = FALSE
             /\ UNCHANGED <<blocks, module, starred>>

-----------------------------------------------------------------------------
(* The runs' side: a list is an object, which several names may share.     *)

Bind(r, n, l, sharing) ==
    LET own == sharing \cup {n} IN
    [r EXCEPT !.ns = SetTo(@, n, l),
              !.alias = [m \in Names |-> IF m \in own THEN own ELSE @[m] \ {n}]]

Mutate(r, n, l) ==
    [r EXCEPT !.ns = [m \in DOMAIN @ |-> IF m \in r.alias[n] THEN l ELSE @[m]]]

\* Without the habit, no list with two names is changed in place.
MayMutate(n) == "list shared" \in Habits \/ \A r \in runs : r.alias[n] = {n}

\* The names that share the object an expression evaluates to in a run.
Sharing(e, r) ==
    IF e.op = "name" \/ (e.op = "or" /\ r.ns[e.name] # <<>>) THEN r.alias[e.name]
    ELSE {}

Namespaces == UNION {[d -> Lists] : d \in SUBSET Names}

Runs == [env : {{}} \cup {{l} : l \in Foreign},
         ns : Namespaces, alias : [Names -> SUBSET Names],
         base : Namespaces, baseAlias : [Names -> SUBSET Names],
         path : Seq({"body", "orelse", "handler", "doomed", "skip"})]

Fresh == [n \in Names |-> {n}]
Nothing == [n \in {} |-> <<>>]

Init == /\ scope = Nothing
        /\ doubtful = {}
        /\ runs = {[env |-> e, ns |-> Nothing, alias |-> Fresh, base |-> Nothing,
                    baseAlias |-> Fresh, path |-> <<>>] : e \in {{}} \cup {{l} : l \in Foreign}}
        /\ blocks = <<>>
        /\ module = 1
        /\ starred = FALSE
        /\ leading = TRUE
        /\ lines = 0

-----------------------------------------------------------------------------
(* The statements visit() knows.                                           *)

Assign(n, e) ==
    /\ Statement
    /\ e.op = "helper" => "helper mutates" \in Habits
    /\ Record(n, Eval(e))
    /\ runs' = EachRun(LAMBDA r : {Bind(r, n, l, Sharing(e, r)) : l \in Results(e, r)})
    /\ Short'

\* NAME += e: both sides must be literals.
Extended(n, v) ==
    IF n \notin DOMAIN scope \/ ~IsLiteral(EvalName(n)) \/ ~IsLiteral(v)
    THEN Unknown("augmented assignment", FALSE)
    ELSE Of(Literal(scope[n]) \o Literal(v), scope[n].env \/ v.env)

Augment(n, e) ==
    /\ Statement
    /\ e.op \in {"literal", "environ default", "environ required", "unknown call"}
    /\ MayMutate(n)
    /\ Record(n, Extended(n, Eval(e)))
    /\ runs' = EachRun(LAMBDA r :
                  {Mutate(r, n, r.ns[n] \o l) :
                      l \in IF n \in DOMAIN r.ns THEN Results(e, r) ELSE {}})
    /\ Short'

Position(l, t) == CHOOSE i \in DOMAIN l : l[i] = t /\ \A j \in 1..(i - 1) : l[j] # t
Without(l, t) ==
    SubSeq(l, 1, Position(l, t) - 1) \o SubSeq(l, Position(l, t) + 1, Len(l))

\* NAME.append(t) and NAME.remove(t) on a list; removing what is not there fails.
Changed(l, method, t) ==
    IF method = "append" THEN {Append(l, t)}
    ELSE {Without(l, u) : u \in {t} \cap {l[i] : i \in DOMAIN l}}

\* The argument may be a call nobody can see through: any token in a run.
Arguments == [known : {TRUE}, token : Tokens] \cup [known : {FALSE}]
Given(arg) == IF arg.known THEN {arg.token} ELSE Tokens

Mutated(n, method, arg) ==
    IF ~IsLiteral(scope[n])              THEN Unknown("mutation", FALSE)
    ELSE IF ~arg.known                   THEN Unknown("argument", FALSE)
    ELSE LET after == Changed(Literal(scope[n]), method, arg.token) IN
         IF after = {} THEN Unknown("mutation", FALSE)
         ELSE Of(CHOOSE l \in after : TRUE, scope[n].env)

Method(n, method, arg) ==
    /\ Statement
    /\ MayMutate(n)
    /\ IF n \in DOMAIN scope THEN Record(n, Mutated(n, method, arg))
       ELSE UNCHANGED <<scope, doubtful>>
    /\ runs' = EachRun(LAMBDA r :
                  {Mutate(r, n, l) :
                      l \in IF n \notin DOMAIN r.ns THEN {}
                            ELSE UNION {Changed(r.ns[n], method, t) : t \in Given(arg)}})
    /\ Short'

\* A statement visit() passes over, which fails in some runs: an import.
Risky ==
    /\ Statement
    /\ runs' = UNION {IF Active(r) THEN {r} \cup Thrown(r) ELSE {r} : r \in runs}
    /\ UNCHANGED <<scope, doubtful>>

-----------------------------------------------------------------------------
(* Compound statements.                                                    *)

Opened(r, arm) == [r EXCEPT !.path = Append(@, arm)]

EnterIf(test) ==
    /\ ReadLine /\ Len(blocks) < MaxDepth
    /\ test.op \in {"name", "environ default", "unknown call"}
    /\ blocks' = Append(blocks, [kind |-> "if", arm |-> "body", verdict |-> Verdict(test)])
    /\ runs' = UNION {IF ~Active(r) THEN {Opened(r, "skip")}
                      ELSE IF Results(test, r) = {} THEN {Opened(q, "skip") : q \in Thrown(r)}
                      ELSE {Opened(r, IF l # <<>> THEN "body" ELSE "orelse") :
                               l \in Results(test, r)} : r \in runs}
    /\ leading' = FALSE
    /\ UNCHANGED <<scope, doubtful, module, starred>>

EnterTry ==
    /\ ReadLine /\ Len(blocks) < MaxDepth
    /\ blocks' = Append(blocks, [kind |-> "try", arm |-> "body", verdict |-> "both"])
    /\ runs' = {Opened(r, IF Active(r) THEN "body" ELSE "skip") : r \in runs}
    /\ leading' = FALSE
    /\ UNCHANGED <<scope, doubtful, module, starred>>

Top == blocks[Len(blocks)]

NextArms(b) == IF b.kind = "if" THEN IF b.arm = "body" THEN {"orelse"} ELSE {}
               ELSE CASE b.arm = "body"    -> {"handler", "final"}
                      [] b.arm = "handler" -> {"orelse", "final"}
                      [] b.arm = "orelse"  -> {"final"}
                      [] b.arm = "final"   -> {}

\* Where a run goes at the head of an arm: a handler may not match, and a try
\* without one lets its exception through; the else follows a body that ended.
Rerouted(step, b, arm, matches) ==
    CASE step = "handler" /\ arm = "handler" /\ ~matches      -> "doomed"
      [] step = "handler" /\ arm = "final" /\ b.arm = "body"  -> "doomed"
      [] step = "body" /\ arm = "orelse" /\ b.kind = "try"    -> "orelse"
      [] OTHER                                                -> step

NextArm(arm, matches) ==
    /\ blocks # <<>> /\ arm \in NextArms(Top)
    /\ blocks' = [blocks EXCEPT ![Len(blocks)].arm = arm]
    /\ runs' = {[r EXCEPT !.path[Len(blocks)] = Rerouted(@, Top, arm, matches)] : r \in runs}
    /\ UNCHANGED <<scope, doubtful, module, starred, leading, lines>>

Closed(r) == [r EXCEPT !.path = SubSeq(@, 1, Len(@) - 1)]

\* An exception still on its way goes on to the try around this one.
End ==
    /\ blocks # <<>>
    /\ Top.kind = "try" => Top.arm # "body"
    /\ blocks' = SubSeq(blocks, 1, Len(blocks) - 1)
    /\ runs' = {Closed(r) : r \in UNION {IF r.path[Len(blocks)] = "doomed"
                                         THEN ThrownFrom(r, Len(blocks) - 1) ELSE {r} : r \in runs}}
    /\ UNCHANGED <<scope, doubtful, module, starred, leading, lines>>

-----------------------------------------------------------------------------
(* The files.                                                              *)

\* The run copies the names of the file before, here.  The resolver applied
\* that file before it began this one, wherever the import stands.
StarImport ==
    /\ ReadLine /\ module > 1 /\ ~starred
    /\ "star late" \in Habits \/ (leading /\ blocks = <<>>)
    /\ starred' = TRUE
    /\ runs' = EachRun(LAMBDA r :
                  {[r EXCEPT !.ns = [n \in DOMAIN @ \cup DOMAIN r.base |->
                                        IF n \in DOMAIN r.base THEN r.base[n] ELSE @[n]],
                             !.alias = [n \in Names |->
                                        IF n \in DOMAIN r.base THEN r.baseAlias[n]
                                        ELSE @[n] \ DOMAIN r.base]]})
    /\ UNCHANGED <<scope, doubtful, blocks, module, leading>>

\* A file nobody imports is not in the chain.
Complete == blocks = <<>> /\ (module > 1 => starred)

NextModule ==
    /\ Complete /\ module < MaxModules
    /\ module' = module + 1
    /\ starred' = FALSE
    /\ leading' = TRUE
    /\ runs' = {[r EXCEPT !.ns = Nothing, !.alias = Fresh,
                          !.base = r.ns, !.baseAlias = r.alias] : r \in runs}
    /\ UNCHANGED <<scope, doubtful, blocks, lines>>

Next ==
    \/ \E n \in Names, e \in Exprs : Assign(n, e) \/ Augment(n, e)
    \/ \E n \in Names, method \in {"append", "remove"}, arg \in Arguments :
           Method(n, method, arg)
    \/ Risky
    \/ \E e \in Exprs : EnterIf(e)
    \/ EnterTry
    \/ \E arm \in {"handler", "orelse", "final"}, matches \in BOOLEAN :
           NextArm(arm, matches)
    \/ End
    \/ StarImport
    \/ NextModule

Spec == Init /\ [][Next]_vars

-----------------------------------------------------------------------------
(* What a rule is told about a setting.                                    *)

\* assess: how many steps below certain a finding about the setting is.
Steps(n) ==
    IF n \notin DOMAIN scope THEN 1
    ELSE IF IsUnknown(scope[n]) THEN 2
    ELSE (IF IsConditional(scope[n]) THEN 2 ELSE 0)
         + (IF n \in doubtful THEN 1 ELSE 0)
         + (IF scope[n].env THEN 1 ELSE 0)

Certain(n) == Steps(n) = 0

-----------------------------------------------------------------------------
(* Properties.                                                             *)

\* A finding at certain confidence about a setting is true of every run of the
\* package that loads, in every deployment: the setting is there and is that.
CertaintyIsEarned ==
    Complete => \A n \in Names : Certain(n) =>
        \A r \in runs : n \in DOMAIN r.ns /\ r.ns[n] = Literal(scope[n])

\* A branch the resolver discards for good is one that no run takes, in any
\* deployment.
NoRunInADiscardedBranch == ~Visited => \A r \in runs : ~Active(r)

\* A rule that asks could_be(bad) and is told no stays silent.  Where nobody
\* set the variable it is right to: no run has a value that is ruled out.
SilenceIsSafe ==
    /\ Complete => \A r \in runs : r.env = {} =>
           \A n \in DOMAIN r.ns : n \in DOMAIN scope /\ CouldBe(scope[n], r.ns[n])
    /\ NoRunInADiscardedBranch

=============================================================================
