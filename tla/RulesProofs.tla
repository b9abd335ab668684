------------------------------ MODULE RulesProofs ------------------------------
(*************************************************************************)
(* What is proved of the settings resolver (SettingsChain), of the rules *)
(* about settings (SettingsRules), serializers (SerializerRules),        *)
(* endpoints (ApiRules) and querysets (QuerysetRules), and of the        *)
(* databases a project can run on (PortabilityRules), for any names,     *)
(* values, files, listings, routings, statements, assignments and bounds *)
(* that meet the assumptions of those modules.                           *)
(*************************************************************************)
EXTENDS SettingsChain, SettingsRules, SerializerRules, ApiRules, QuerysetRules,
        PortabilityRules, WellFoundedInduction, FiniteSetTheorems, TLAPS

\* The authors have none of the habits.
Steady == Habits = {}

-----------------------------------------------------------------------------
(* Types.                                                                  *)

Arms == {"body", "orelse", "handler", "final"}

BlockOK(b) == /\ b \in [kind : {"if", "try"}, arm : Arms, verdict : {"both", "body", "orelse"}]
              /\ b.kind = "try" => b.verdict = "both"
              /\ b.kind = "if" => b.arm \in {"body", "orelse"}

RunOK(r) == /\ r \in Runs
            /\ DOMAIN r.path = DOMAIN blocks

WellFormed(v) == /\ v = [lists |-> v.lists, reasons |-> v.reasons, env |-> v.env]
                 /\ IsFiniteSet(v.lists) /\ IsFiniteSet(v.reasons)
                 /\ v.lists # {} \/ v.reasons # {}
                 /\ v.reasons \subseteq Reasons
                 /\ v.env \in BOOLEAN

ChainTypeOK ==
    /\ scope \in [DOMAIN scope -> Values] /\ DOMAIN scope \subseteq Names
    /\ \A n \in DOMAIN scope : WellFormed(scope[n])
    /\ blocks \in Seq([kind : {"if", "try"}, arm : Arms, verdict : {"both", "body", "orelse"}])
    /\ \A i \in DOMAIN blocks : BlockOK(blocks[i])
    /\ \A r \in runs : RunOK(r)
    /\ starred \in BOOLEAN /\ leading \in BOOLEAN
    /\ module \in Nat \ {0}

-----------------------------------------------------------------------------
(* What the resolver's scope says of a run.                                *)

\* A value is trusted of a run that takes nothing from the environment; of any
\* run, when it is literal and untainted.  There it has to fit what the run has.
Trusted(v, r) == r.env = {} \/ (IsLiteral(v) /\ ~v.env)
Fits(v, l, r) == Trusted(v, r) => CouldBe(v, l)
Described(ns, r) == \A n \in DOMAIN ns : n \in DOMAIN scope /\ Fits(scope[n], ns[n], r)

\* Of the blocks around the line, a run is in the arm the resolver takes for sure,
\* as long as it is on the lines of the blocks around that one.
ActiveAt(r, i) == blocks[i].arm \in {r.path[i], "final"}
Followed(r) ==
    \A i \in DOMAIN blocks :
        (\A j \in 1..(i - 1) : ActiveAt(r, j)) /\ blocks[i].verdict # "both"
            => r.path[i] = blocks[i].verdict

\* Between the start of a file and its star import the scope describes what the
\* file before has left; a file without one never completes the chain.
AtHead == leading /\ ~starred
Imported == module = 1 \/ starred
Undoubted == {n \in DOMAIN scope : n \notin doubtful}

\* The scope describes every run, those that are elsewhere too, and what is not
\* doubtful has been assigned in every run: neither property is inductive without
\* the runs that are elsewhere and come back, and without where each may be.
ChainInv ==
    /\ \A r \in runs : Followed(r) /\ Described(r.ns, r)
    /\ AtHead => blocks = <<>> /\ \A r \in runs : Described(r.base, r)
    /\ Imported => \A r \in runs : Undoubted \subseteq DOMAIN r.ns
    /\ AtHead /\ module > 1 => \A r \in runs : Undoubted \subseteq DOMAIN r.base
    /\ module = 1 => ~starred

-----------------------------------------------------------------------------
(* Numbers.                                                                *)

\* A set of numbers that is not empty has a least one.
LEMMA LeastExists ==
    ASSUME NEW S \in SUBSET Nat, S # {}
    PROVE  \E m \in S : \A k \in S : m <= k
<1> DEFINE Less == {p \in Nat \X Nat : p[1] < p[2]}
<1>1. IsWellFoundedOn(Less, Nat)
  BY NatLessThanWellFounded DEF OpToRel
<1>2. PICK m \in S : \A k \in S : <<k, m>> \notin Less
  BY <1>1, WFMin
<1>3. ASSUME NEW k \in S PROVE m <= k
  <2>1. m \in Nat /\ k \in Nat /\ ~(k < m)
    BY <1>2
  <2>2. QED
    BY <2>1
<1>4. QED
  BY <1>3

\* A set of positions that is not empty has a last one.
LEMMA GreatestExists ==
    ASSUME NEW d \in Nat, NEW S \in SUBSET (1..d), S # {}
    PROVE  \E m \in S : \A k \in S : k <= m
<1> DEFINE T == {d - k : k \in S}
<1>1. \A k \in S : k \in Nat /\ k <= d /\ d - k \in Nat
  OBVIOUS
<1>2. T \in SUBSET Nat /\ T # {}
  BY <1>1
<1>3. PICK t \in T : \A k \in T : t <= k
  BY <1>2, LeastExists
<1>4. PICK m \in S : t = d - m
  OBVIOUS
<1>5. ASSUME NEW k \in S PROVE k <= m
  <2>1. d - m <= d - k
    BY <1>3, <1>4
  <2>2. QED
    BY <1>1, <2>1
<1>6. QED
  BY <1>5

-----------------------------------------------------------------------------
(* Values.                                                                 *)

\* A literal is a value, and known.
LEMMA OfIsLiteral ==
    ASSUME NEW l, NEW env \in BOOLEAN
    PROVE  WellFormed(Of(l, env)) /\ IsLiteral(Of(l, env))
<1>1. IsFiniteSet({l}) /\ IsFiniteSet({}) /\ Cardinality({l}) = 1 /\ Cardinality({}) = 0
  BY FS_Singleton, FS_EmptySet
<1>2. QED
  BY <1>1 DEF WellFormed, Of, IsLiteral, Branches

\* A value nobody can see is a value, and not a literal.
LEMMA UnknownIsUnknown ==
    ASSUME NEW why \in Reasons, NEW env \in BOOLEAN
    PROVE  WellFormed(Unknown(why, env)) /\ ~IsLiteral(Unknown(why, env))
<1>1. IsFiniteSet({why}) /\ IsFiniteSet({})
  BY FS_Singleton, FS_EmptySet
<1>2. QED
  BY <1>1 DEF WellFormed, Unknown, IsLiteral, Branches

\* A value is literal when all that is known of it is one list.
LEMMA LiteralsHaveOneList ==
    ASSUME NEW v, WellFormed(v)
    PROVE  IsLiteral(v) <=> v.reasons = {} /\ v.lists = {Literal(v)}
<1>1. CASE IsLiteral(v)
  <2>1. v.reasons = {} /\ Cardinality(v.reasons) = 0
    BY <1>1, FS_EmptySet DEF IsLiteral
  <2>2. Cardinality(v.lists) = 1
    <3>1. Cardinality(v.lists) \in Nat
      BY FS_CardinalityType DEF WellFormed
    <3>2. QED
      BY <1>1, <2>1, <3>1 DEF IsLiteral, Branches
  <2>3. \E l : v.lists = {l}
    BY <2>2, FS_Singleton DEF WellFormed
  <2>4. QED
    BY <1>1, <2>1, <2>3 DEF Literal
<1>2. CASE v.reasons = {} /\ v.lists = {Literal(v)}
  <2>1. Cardinality(v.reasons) = 0 /\ Cardinality(v.lists) = 1
    BY <1>2, FS_EmptySet, FS_Singleton
  <2>2. QED
    BY <1>2, <2>1 DEF IsLiteral, Branches
<1>3. QED
  BY <1>1, <1>2

\* A literal has no branches.
LEMMA LiteralsAreNotConditional ==
    ASSUME NEW v, IsLiteral(v)
    PROVE  ~IsConditional(v)
BY DEF IsLiteral, IsConditional

\* Two values in branches make a value.
LEMMA ConditionalIsWellFormed ==
    ASSUME NEW v, NEW w, WellFormed(v), WellFormed(w)
    PROVE  WellFormed(Conditional({v, w}))
<1> DEFINE c == Conditional({v, w})
<1>1. c.lists = v.lists \cup w.lists /\ c.reasons = v.reasons \cup w.reasons
  BY DEF Conditional
<1>2. IsFiniteSet(c.lists) /\ IsFiniteSet(c.reasons)
  <2>1. /\ IsFiniteSet(v.lists) /\ IsFiniteSet(w.lists)
        /\ IsFiniteSet(v.reasons) /\ IsFiniteSet(w.reasons)
    BY DEF WellFormed
  <2>2. IsFiniteSet(v.lists \cup w.lists) /\ IsFiniteSet(v.reasons \cup w.reasons)
    BY <2>1, FS_Union
  <2>3. QED
    BY <1>1, <2>2
<1>3. c = [lists |-> c.lists, reasons |-> c.reasons, env |-> c.env] /\ c.env \in BOOLEAN
  BY DEF Conditional
<1>4. (c.lists # {} \/ c.reasons # {}) /\ c.reasons \subseteq Reasons
  BY <1>1 DEF WellFormed
<1> HIDE DEF c
<1>5. WellFormed(c)
  BY <1>2, <1>3, <1>4 DEF WellFormed
<1>6. QED
  BY <1>5 DEF c

\* What fits a run in one of two branches fits it in both together: were both
\* the same literal, the taint of either would be kept.
LEMMA ConditionalFits ==
    ASSUME NEW v, NEW w, WellFormed(v), WellFormed(w), NEW l, NEW r,
           Fits(v, l, r) \/ Fits(w, l, r)
    PROVE  Fits(Conditional({v, w}), l, r)
<1> DEFINE c == Conditional({v, w})
<1>1. c.lists = v.lists \cup w.lists /\ c.reasons = v.reasons \cup w.reasons
  BY DEF Conditional
<1>2. c.env = \E x \in {v, w} : ~IsConditional(x) /\ x.env
  BY DEF Conditional
<1>3. SUFFICES ASSUME Trusted(c, r) PROVE CouldBe(c, l)
  BY DEF Fits
<1>4. CASE r.env = {}
  BY <1>1, <1>4 DEF Fits, Trusted, CouldBe
<1>5. CASE IsLiteral(c) /\ ~c.env
  <2>1. c.reasons = {} /\ c.lists = {Literal(c)}
    BY <1>5, ConditionalIsWellFormed, LiteralsHaveOneList
  <2>2. v.reasons = {} /\ w.reasons = {} /\ v.lists # {} /\ w.lists # {}
    BY <1>1, <2>1 DEF WellFormed
  <2>3. v.lists = {Literal(c)} /\ w.lists = {Literal(c)}
    BY <1>1, <2>1, <2>2
  <2>4. IsLiteral(v) /\ IsLiteral(w)
    BY <2>2, <2>3, LiteralsHaveOneList DEF Literal
  <2>5. ~v.env /\ ~w.env
    BY <1>2, <1>5, <2>4, LiteralsAreNotConditional
  <2>6. QED
    BY <1>1, <2>4, <2>5 DEF Fits, Trusted, CouldBe
<1>6. QED
  BY <1>3, <1>4, <1>5 DEF Trusted

-----------------------------------------------------------------------------
(* Expressions.                                                            *)

NamesKnown == \A n \in DOMAIN scope : WellFormed(scope[n])

\* A name has a value, known or not.
LEMMA NamesAreWellFormed ==
    ASSUME NamesKnown, NEW n
    PROVE  WellFormed(EvalName(n))
BY UnknownIsUnknown DEF EvalName, NamesKnown, Reasons

\* What a name has in a run fits what the resolver makes of it.
LEMMA NamesFit ==
    ASSUME NEW r, NEW n \in DOMAIN r.ns, Described(r.ns, r)
    PROVE  Fits(EvalName(n), r.ns[n], r)
BY DEF Described, EvalName

\* Tainting changes nothing but the taint.
LEMMA TaintIsWellFormed ==
    ASSUME NEW v, WellFormed(v), NEW env \in BOOLEAN
    PROVE  WellFormed(Taint(v, env)) /\ Taint(v, env) = [v EXCEPT !.env = v.env \/ env]
BY DEF Taint, WellFormed

\* A tainted value promises no more than the value.
LEMMA TaintFits ==
    ASSUME NEW v, WellFormed(v), NEW env \in BOOLEAN, NEW l, NEW r, Fits(v, l, r)
    PROVE  Fits(Taint(v, env), l, r)
<1> DEFINE t == Taint(v, env)
<1>1. t.lists = v.lists /\ t.reasons = v.reasons /\ (t.env <=> v.env \/ env)
  BY DEF Taint, WellFormed
<1>2. IsLiteral(t) => IsLiteral(v)
  BY <1>1 DEF IsLiteral, Branches
<1>3. QED
  BY <1>1, <1>2 DEF Fits, Trusted, CouldBe

\* The resolver makes a value of any expression.
LEMMA EvalIsWellFormed ==
    ASSUME NamesKnown, NEW e \in Exprs
    PROVE  WellFormed(Eval(e))
<1>1. CASE e.op = "literal"
  BY <1>1, OfIsLiteral DEF Eval
<1>2. CASE e.op = "environ default"
  BY <1>2, OfIsLiteral DEF Eval, EvalEnviron
<1>3. CASE e.op = "environ required"
  BY <1>3, UnknownIsUnknown DEF Eval, EvalEnviron, Reasons
<1>4. CASE e.op = "unknown call"
  BY <1>4, UnknownIsUnknown DEF Eval, Reasons
<1>5. CASE e.op = "name"
  BY <1>5, NamesAreWellFormed DEF Eval
<1>6. CASE e.op = "spread"
  <2>1. EvalName(e.name).env \in BOOLEAN
    BY NamesAreWellFormed DEF WellFormed
  <2>2. WellFormed(EvalSpread(e))
    BY <2>1, OfIsLiteral, UnknownIsUnknown DEF EvalSpread, Reasons
  <2>3. QED
    BY <1>6, <2>2 DEF Eval
<1>7. CASE e.op = "or"
  <2>1. WellFormed(EvalName(e.name)) /\ WellFormed(Of(e.list, FALSE)) /\ EvalName(e.name).env \in BOOLEAN
    BY NamesAreWellFormed, OfIsLiteral DEF WellFormed
  <2>2. WellFormed(Conditional({EvalName(e.name), Of(e.list, FALSE)}))
    BY <2>1, ConditionalIsWellFormed
  <2>3. WellFormed(EvalOr(e))
    BY <2>1, <2>2, TaintIsWellFormed DEF EvalOr
  <2>4. QED
    BY <1>7, <2>3 DEF Eval
<1>8. CASE e.op = "if"
  <2>1. WellFormed(EvalName(e.name)) /\ EvalName(e.name).env \in BOOLEAN
    BY NamesAreWellFormed DEF WellFormed
  <2>2. WellFormed(Conditional({Of(e.list, FALSE), Of(e.other, FALSE)}))
    BY OfIsLiteral, ConditionalIsWellFormed
  <2>3. WellFormed(EvalIfExp(e))
    BY <2>1, <2>2, OfIsLiteral DEF EvalIfExp
  <2>4. QED
    BY <1>8, <2>3 DEF Eval
<1>9. CASE e.op = "helper"
  BY <1>9, OfIsLiteral DEF Eval, EvalHelper
<1>10. QED
  BY <1>1, <1>2, <1>3, <1>4, <1>5, <1>6, <1>7, <1>8, <1>9 DEF Exprs

\* What is known to be one list is that list, in a run it is trusted of.
LEMMA LiteralsAreExact ==
    ASSUME NEW v, WellFormed(v), IsLiteral(v), NEW l, NEW r, Fits(v, l, r), Trusted(v, r)
    PROVE  l = Literal(v)
BY LiteralsHaveOneList DEF Fits, CouldBe

\* What an expression evaluates to in a run fits what the resolver makes of it,
\* in a scope that describes the run.
LEMMA EvalFits ==
    ASSUME NamesKnown, NEW r, Described(r.ns, r), NEW e \in Exprs, e.op # "helper",
           NEW l \in Results(e, r)
    PROVE  Fits(Eval(e), l, r)
<1>1. CASE e.op = "literal"
  BY <1>1 DEF Eval, Results, Of, Fits, CouldBe
<1>2. CASE e.op = "environ default"
  BY <1>2 DEF Eval, EvalEnviron, Results, Of, Fits, CouldBe, Trusted
<1>3. CASE e.op = "environ required"
  BY <1>3 DEF Eval, EvalEnviron, Unknown, Fits, CouldBe
<1>4. CASE e.op = "unknown call"
  BY <1>4 DEF Eval, Unknown, Fits, CouldBe
<1> DEFINE b == r.ns[e.name]
           v == EvalName(e.name)
<1>5. ASSUME e.op \in {"name", "spread", "or", "if"}
      PROVE  /\ e.name \in DOMAIN r.ns
             /\ WellFormed(v) /\ v.env \in BOOLEAN
             /\ Fits(v, b, r)
             /\ IsLiteral(v) /\ Trusted(v, r) => b = Literal(v)
  <2>1. e.name \in DOMAIN r.ns
    BY <1>5 DEF Results
  <2>2. WellFormed(v) /\ Fits(v, b, r)
    BY <2>1, NamesAreWellFormed, NamesFit
  <2>3. QED
    BY <2>1, <2>2, LiteralsAreExact DEF WellFormed
<1> HIDE DEF b, v
<1>6. CASE e.op = "name"
  <2>1. l = b
    BY <1>6, <1>5 DEF Results, b
  <2>2. QED
    BY <1>6, <1>5, <2>1 DEF Eval, v
<1>7. CASE e.op = "spread"
  <2>1. l = Append(b, e.token)
    BY <1>7, <1>5 DEF Results, b
  <2>2. CASE IsLiteral(v)
    <3>1. Eval(e) = Of(Append(Literal(v), e.token), v.env)
      BY <1>7, <2>2 DEF Eval, EvalSpread, v
    <3>2. QED
      BY <1>5, <1>7, <2>1, <2>2, <3>1 DEF Fits, Trusted, CouldBe, Of
  <2>3. CASE ~IsLiteral(v)
    BY <1>7, <2>3 DEF Eval, EvalSpread, v, Unknown, Fits, CouldBe
  <2>4. QED
    BY <2>2, <2>3
<1>8. CASE e.op = "or"
  <2> DEFINE w == Of(e.list, FALSE)
  <2>1. l = IF b # <<>> THEN b ELSE e.list
    BY <1>8, <1>5 DEF Results, b
  <2>2. WellFormed(w) /\ Fits(w, e.list, r)
    BY OfIsLiteral DEF Fits, CouldBe, Of
  <2>3. CASE ~IsLiteral(v)
    <3>1. Eval(e) = Taint(Conditional({v, w}), v.env)
      BY <1>8, <2>3 DEF Eval, EvalOr, v
    <3>2. Fits(Conditional({v, w}), l, r)
      BY <1>5, <1>8, <2>1, <2>2, ConditionalFits
    <3>3. WellFormed(Conditional({v, w}))
      BY <1>5, <1>8, <2>2, ConditionalIsWellFormed
    <3>4. QED
      BY <1>5, <1>8, <3>1, <3>2, <3>3, TaintFits
  <2>4. CASE IsLiteral(v) /\ Literal(v) # <<>>
    <3>1. Eval(e) = v
      BY <1>8, <2>4 DEF Eval, EvalOr, v
    <3>2. QED
      BY <1>5, <1>8, <2>1, <2>4, <3>1 DEF Fits
  <2>5. CASE IsLiteral(v) /\ Literal(v) = <<>>
    <3>1. Eval(e) = Taint(w, v.env)
      BY <1>8, <2>5 DEF Eval, EvalOr, v
    <3>2. Eval(e) = [w EXCEPT !.env = w.env \/ v.env]
      BY <1>5, <1>8, <2>2, <3>1, TaintIsWellFormed
    <3>3. Eval(e).lists = {e.list} /\ (Eval(e).env <=> v.env)
      BY <1>5, <1>8, <3>2 DEF Of
    <3>4. Trusted(Eval(e), r) => b = Literal(v)
      BY <1>5, <1>8, <2>5, <3>3 DEF Trusted
    <3>5. QED
      BY <2>1, <2>5, <3>3, <3>4 DEF Fits, CouldBe
  <2>6. QED
    BY <2>3, <2>4, <2>5
<1>9. CASE e.op = "if"
  <2>1. l = IF b # <<>> THEN e.list ELSE e.other
    BY <1>9, <1>5 DEF Results, b
  <2>2. CASE ~IsLiteral(v)
    <3>1. Eval(e) = Conditional({Of(e.list, FALSE), Of(e.other, FALSE)})
      BY <1>9, <2>2 DEF Eval, EvalIfExp, v
    <3>2. Fits(Of(e.list, FALSE), e.list, r) /\ Fits(Of(e.other, FALSE), e.other, r)
      BY DEF Fits, CouldBe, Of
    <3>3. WellFormed(Of(e.list, FALSE)) /\ WellFormed(Of(e.other, FALSE))
      BY OfIsLiteral
    <3>4. Fits(Of(e.list, FALSE), l, r) \/ Fits(Of(e.other, FALSE), l, r)
      BY <2>1, <3>2
    <3>5. Fits(Conditional({Of(e.list, FALSE), Of(e.other, FALSE)}), l, r)
      BY <3>3, <3>4, ConditionalFits
    <3>6. QED
      BY <3>1, <3>5
  <2>3. CASE IsLiteral(v)
    <3>1. Eval(e) = Of(IF Literal(v) # <<>> THEN e.list ELSE e.other, v.env)
      BY <1>9, <2>3 DEF Eval, EvalIfExp, v
    <3>2. Eval(e).lists = {IF Literal(v) # <<>> THEN e.list ELSE e.other} /\ Eval(e).env = v.env
      BY <3>1 DEF Of
    <3>3. Trusted(Eval(e), r) => b = Literal(v)
      BY <1>5, <1>9, <2>3, <3>2 DEF Trusted
    <3>4. QED
      BY <2>1, <3>2, <3>3 DEF Fits, CouldBe
  <2>4. QED
    BY <2>2, <2>3
<1>10. QED
  BY <1>1, <1>2, <1>3, <1>4, <1>6, <1>7, <1>8, <1>9 DEF Exprs

-----------------------------------------------------------------------------
(* Changes in place.                                                       *)

\* NAME += e, in a run and in the scope.
LEMMA ExtendedIsRight ==
    ASSUME NamesKnown, NEW n, NEW v, WellFormed(v)
    PROVE  /\ WellFormed(Extended(n, v))
           /\ \A r, l : /\ Described(r.ns, r) /\ n \in DOMAIN r.ns /\ Fits(v, l, r)
                        => Fits(Extended(n, v), r.ns[n] \o l, r)
<1> DEFINE old == EvalName(n)
           x == Extended(n, v)
<1>1. WellFormed(old) /\ old.env \in BOOLEAN /\ v.env \in BOOLEAN
  BY NamesAreWellFormed DEF WellFormed
<1>2. CASE n \notin DOMAIN scope \/ ~IsLiteral(old) \/ ~IsLiteral(v)
  <2>1. x = Unknown("augmented assignment", FALSE)
    BY <1>2 DEF Extended
  <2> HIDE DEF x
  <2>2. WellFormed(x)
    BY <2>1, UnknownIsUnknown DEF Reasons
  <2>3. x.reasons = {"augmented assignment"}
    BY <2>1 DEF Unknown
  <2>4. \A l : CouldBe(x, l)
    BY <2>3 DEF CouldBe
  <2>5. QED
    BY <2>2, <2>4 DEF Fits, x
<1>3. CASE n \in DOMAIN scope /\ IsLiteral(old) /\ IsLiteral(v)
  <2>1. old = scope[n]
    BY <1>3 DEF EvalName
  <2>2. x = Of(Literal(old) \o Literal(v), old.env \/ v.env)
    BY <1>3, <2>1 DEF Extended
  <2>3. WellFormed(x)
    BY <1>1, <2>2, OfIsLiteral
  <2>4. ASSUME NEW r, NEW l, Described(r.ns, r), n \in DOMAIN r.ns, Fits(v, l, r), Trusted(x, r)
        PROVE  CouldBe(x, r.ns[n] \o l)
    <3>1. Trusted(old, r) /\ Trusted(v, r)
      BY <1>1, <1>3, <2>2, <2>4 DEF Trusted, Of
    <3>2. r.ns[n] = Literal(old)
      BY <1>1, <1>3, <2>4, <3>1, NamesFit, LiteralsAreExact
    <3>3. l = Literal(v)
      BY <1>3, <2>4, <3>1, LiteralsAreExact
    <3>4. QED
      BY <2>2, <3>2, <3>3 DEF CouldBe, Of
  <2>5. QED
    BY <2>3, <2>4 DEF Fits
<1>4. QED
  BY <1>2, <1>3

\* A method of a list has one outcome or none.
LEMMA ChangesAreOne ==
    ASSUME NEW l, NEW method, NEW t, NEW k \in Changed(l, method, t), NEW m \in Changed(l, method, t)
    PROVE  k = m
BY DEF Changed

\* NAME.append(t) and NAME.remove(t), in a run and in the scope.
LEMMA MutatedIsRight ==
    ASSUME NamesKnown, NEW n \in DOMAIN scope, NEW method, NEW arg \in Arguments
    PROVE  /\ WellFormed(Mutated(n, method, arg))
           /\ \A r : Described(r.ns, r) /\ n \in DOMAIN r.ns =>
                 \A t \in Given(arg) : \A l \in Changed(r.ns[n], method, t) :
                    Fits(Mutated(n, method, arg), l, r)
<1> DEFINE old == scope[n]
           x == Mutated(n, method, arg)
           after == Changed(Literal(old), method, arg.token)
<1>1. WellFormed(old) /\ old.env \in BOOLEAN /\ EvalName(n) = old
  BY DEF NamesKnown, WellFormed, EvalName
<1>2. CASE ~IsLiteral(old) \/ ~arg.known \/ after = {}
  <2>1. x \in {Unknown("mutation", FALSE), Unknown("argument", FALSE)}
    BY <1>2 DEF Mutated
  <2>2. WellFormed(x)
    BY <2>1, UnknownIsUnknown DEF Reasons
  <2>3. x.reasons # {}
    BY <2>1 DEF Unknown
  <2>4. QED
    BY <2>2, <2>3 DEF Fits, CouldBe
<1>3. CASE IsLiteral(old) /\ arg.known /\ after # {}
  <2>1. PICK k \in after : x = Of(k, old.env)
    BY <1>3 DEF Mutated
  <2>2. WellFormed(x)
    BY <1>1, <2>1, OfIsLiteral
  <2>3. Given(arg) = {arg.token}
    BY <1>3 DEF Given
  <2>4. ASSUME NEW r, Described(r.ns, r), n \in DOMAIN r.ns,
               NEW t \in Given(arg), NEW l \in Changed(r.ns[n], method, t), Trusted(x, r)
        PROVE  CouldBe(x, l)
    <3>1. Trusted(old, r)
      BY <1>3, <2>1, <2>4 DEF Trusted, Of
    <3>2. r.ns[n] = Literal(old)
      BY <1>1, <1>3, <2>4, <3>1, NamesFit, LiteralsAreExact
    <3>3. l = k
      BY <2>3, <3>2, ChangesAreOne
    <3>4. QED
      BY <2>1, <3>3 DEF CouldBe, Of
  <2>5. QED
    BY <2>2, <2>4 DEF Fits
<1>4. QED
  BY <1>2, <1>3

-----------------------------------------------------------------------------
(* Where the runs are.                                                     *)

Fled(q, r, depth) ==
    \E i \in 1..depth :
        /\ blocks[i].kind = "try" /\ blocks[i].arm # "final"
        /\ \E step \in {"handler", "doomed"} \ {blocks[i].arm} : q = [r EXCEPT !.path[i] = step]

\* An exception leaves its run in a try around the line.
LEMMA ThrownFlee ==
    ASSUME ChainTypeOK, NEW r, NEW depth \in 0..Len(blocks), NEW q \in ThrownFrom(r, depth)
    PROVE  Fled(q, r, depth)
<1> DEFINE open == {i \in 1..depth : blocks[i].kind = "try" /\ blocks[i].arm # "final"}
           top == CHOOSE i \in open : \A j \in open : j <= i
<1>1. open # {} /\ q = [r EXCEPT !.path[top] = IF blocks[top].arm = "body" THEN "handler" ELSE "doomed"]
  BY DEF ThrownFrom
<1>2. Len(blocks) \in Nat /\ DOMAIN blocks = 1..Len(blocks)
  BY DEF ChainTypeOK
<1>3. open \in SUBSET (1..depth) /\ depth \in Nat
  BY <1>2
<1> HIDE DEF open
<1>4. top \in open
  BY <1>1, <1>3, GreatestExists
<1> USE DEF open
<1>5. top \in DOMAIN blocks /\ blocks[top].arm # "doomed"
  BY <1>2, <1>4 DEF ChainTypeOK, BlockOK, Arms
<1> HIDE DEF top
<1>6. QED
  BY <1>1, <1>4, <1>5 DEF Fled

\* A run that fled is on none of the lines of that try, and keeps its names.
LEMMA FledRuns ==
    ASSUME ChainTypeOK, NEW r, RunOK(r), NEW depth \in 0..Len(blocks), NEW q, Fled(q, r, depth)
    PROVE  /\ RunOK(q) /\ ~Active(q)
           /\ q.env = r.env /\ q.ns = r.ns /\ q.base = r.base
           /\ Followed(r) => Followed(q)
<1>1. PICK i \in 1..depth, step \in {"handler", "doomed"} :
         /\ blocks[i].kind = "try" /\ blocks[i].arm # "final"
         /\ step # blocks[i].arm
         /\ q = [r EXCEPT !.path[i] = step]
  BY DEF Fled
<1>2. Len(blocks) \in Nat /\ DOMAIN blocks = 1..Len(blocks) /\ i \in DOMAIN blocks
  BY DEF ChainTypeOK
<1>3. i \in DOMAIN r.path
  BY <1>2 DEF RunOK
<1>4. q.path = [r.path EXCEPT ![i] = step] /\ q.path[i] = step
  BY <1>1, <1>3 DEF RunOK, Runs
<1>5. \A j \in DOMAIN blocks : j # i => q.path[j] = r.path[j]
  BY <1>4 DEF RunOK
<1>6. q.path \in Seq({"body", "orelse", "handler", "doomed", "skip"}) /\ DOMAIN q.path = DOMAIN blocks
  BY <1>3, <1>4 DEF RunOK, Runs
<1>7. q.env = r.env /\ q.ns = r.ns /\ q.base = r.base /\ q.alias = r.alias /\ q.baseAlias = r.baseAlias
  BY <1>1 DEF RunOK, Runs
<1>8. RunOK(q)
  BY <1>1, <1>6, <1>7 DEF RunOK, Runs
<1>9. ~ActiveAt(q, i)
  BY <1>1, <1>4 DEF ActiveAt
<1>10. ~Active(q)
  BY <1>2, <1>9 DEF Active, ActiveAt
<1>11. ASSUME Followed(r), NEW k \in DOMAIN blocks, \A j \in 1..(k - 1) : ActiveAt(q, j),
              blocks[k].verdict # "both"
       PROVE  q.path[k] = blocks[k].verdict
  <2>1. k # i
    BY <1>1, <1>2, <1>11 DEF ChainTypeOK, BlockOK
  <2>2. i \notin 1..(k - 1)
    BY <1>9, <1>11
  <2>3. k < i
    BY <1>2, <2>1, <2>2
  <2>4. \A j \in 1..(k - 1) : ActiveAt(r, j)
    BY <1>2, <1>5, <1>11, <2>3 DEF ActiveAt
  <2>5. r.path[k] = blocks[k].verdict
    BY <1>11, <2>4 DEF Followed
  <2>6. QED
    BY <1>5, <2>1, <2>5
<1>12. Followed(r) => Followed(q)
  BY <1>11 DEF Followed
<1>13. QED
  BY <1>7, <1>8, <1>10, <1>12

\* A line that is not in doubt is one that every run gets to, and none flees.
LEMMA SureLinesRun ==
    ASSUME ChainTypeOK, Visited, ~InDoubt, NEW r, Followed(r)
    PROVE  Active(r) /\ \A q : ~Fled(q, r, Len(blocks))
<1>1. Len(blocks) \in Nat /\ DOMAIN blocks = 1..Len(blocks)
  BY DEF ChainTypeOK
<1>2. \A i \in DOMAIN blocks : /\ blocks[i].verdict = "both" => blocks[i].arm = "final"
                               /\ blocks[i].verdict # "both" => blocks[i].verdict = blocks[i].arm
  BY DEF Visited, InDoubt
<1>3. Active(r)
  <2> DEFINE S == {i \in DOMAIN blocks : ~ActiveAt(r, i)}
  <2>1. S \in SUBSET Nat
    BY <1>1
  <2>2. SUFFICES ASSUME S # {} PROVE FALSE
    BY DEF Active, ActiveAt
  <2> HIDE DEF S
  <2>3. PICK i \in S : \A k \in S : i <= k
    BY <2>2, <2>1, LeastExists
  <2> USE DEF S
  <2>4. \A j \in 1..(i - 1) : ActiveAt(r, j)
    BY <1>1, <2>3
  <2>5. blocks[i].verdict # "both"
    BY <1>2, <2>3 DEF ActiveAt
  <2>6. r.path[i] = blocks[i].verdict
    BY <2>3, <2>4, <2>5 DEF Followed
  <2>7. QED
    BY <1>2, <2>3, <2>5, <2>6 DEF ActiveAt
<1>4. \A i \in DOMAIN blocks : blocks[i].kind = "try" => blocks[i].arm = "final"
  BY <1>2 DEF ChainTypeOK, BlockOK
<1>5. QED
  BY <1>1, <1>3, <1>4 DEF Fled

\* A line the resolver passes over is one that no run gets to.
LEMMA DiscardedLinesDoNot ==
    ASSUME ChainTypeOK, ~Visited, NEW r, Followed(r)
    PROVE  ~Active(r)
<1>1. PICK i \in DOMAIN blocks : blocks[i].verdict # "both" /\ blocks[i].verdict # blocks[i].arm
  BY DEF Visited
<1>2. SUFFICES ASSUME Active(r) PROVE FALSE
  OBVIOUS
<1>3. DOMAIN blocks = 1..Len(blocks) /\ Len(blocks) \in Nat
  BY DEF ChainTypeOK
<1>4. \A j \in 1..(i - 1) : ActiveAt(r, j)
  BY <1>2, <1>3 DEF Active, ActiveAt
<1>5. r.path[i] = blocks[i].verdict
  BY <1>1, <1>4 DEF Followed
<1>6. blocks[i].kind = "if" /\ blocks[i].arm # "final"
  BY <1>1 DEF ChainTypeOK, BlockOK
<1>7. QED
  BY <1>1, <1>2, <1>5, <1>6 DEF Active

-----------------------------------------------------------------------------
(* What the statements do to the runs.                                     *)

Wrote(q, r, n, v) ==
    /\ q.env = r.env /\ q.base = r.base /\ q.path = r.path
    /\ DOMAIN q.ns = DOMAIN r.ns \cup {n}
    /\ \A m \in DOMAIN r.ns : m # n => q.ns[m] = r.ns[m]
    /\ Fits(v, q.ns[n], r)

\* The namespaces, as functions.
LEMMA NamespacesAre ==
    ASSUME NEW f
    PROVE  f \in Namespaces <=> /\ f = [n \in DOMAIN f |-> f[n]]
                                /\ DOMAIN f \subseteq Names
                                /\ \A n \in DOMAIN f : f[n] \in Lists
<1>1. ASSUME NEW d \in SUBSET Names, f \in [d -> Lists]
      PROVE  /\ f = [n \in DOMAIN f |-> f[n]]
             /\ DOMAIN f \subseteq Names
             /\ \A n \in DOMAIN f : f[n] \in Lists
  BY <1>1
<1>2. f = [n \in DOMAIN f |-> f[n]] /\ (\A n \in DOMAIN f : f[n] \in Lists) => f \in [DOMAIN f -> Lists]
  OBVIOUS
<1>3. QED
  BY <1>1, <1>2 DEF Namespaces

\* An assignment writes its name and no other.
LEMMA BoundRuns ==
    ASSUME NEW r, RunOK(r), NEW n \in Names, NEW l, NEW sharing \in SUBSET Names,
           NEW v, Fits(v, l, r)
    PROVE  LET q == Bind(r, n, l, sharing) IN
           /\ Wrote(q, r, n, v)
           /\ (\A m \in DOMAIN q.ns : q.ns[m] \in Lists) => RunOK(q)
<1> DEFINE q == Bind(r, n, l, sharing)
           ns == SetTo(r.ns, n, l)
           own == sharing \cup {n}
           alias == [m \in Names |-> IF m \in own THEN own ELSE r.alias[m] \ {n}]
<1>1. q = [r EXCEPT !.ns = ns, !.alias = alias]
  BY DEF Bind
<1>2. ns = [m \in DOMAIN r.ns \cup {n} |-> IF m = n THEN l ELSE r.ns[m]]
  BY DEF SetTo
<1>3. r.alias \in [Names -> SUBSET Names] /\ r.ns \in Namespaces
  BY DEF RunOK, Runs
<1>4. alias \in [Names -> SUBSET Names]
  BY <1>3
<1>5. ns = [m \in DOMAIN ns |-> ns[m]] /\ DOMAIN ns \subseteq Names
  BY <1>2, <1>3, NamespacesAre
<1> HIDE DEF ns, alias, q
<1>6. /\ q.ns = ns /\ q.alias = alias /\ q.env = r.env /\ q.base = r.base
      /\ q.baseAlias = r.baseAlias /\ q.path = r.path
  BY <1>1 DEF RunOK, Runs
<1>7. Wrote(q, r, n, v)
  BY <1>2, <1>6 DEF Wrote
<1>8. ASSUME \A m \in DOMAIN ns : ns[m] \in Lists PROVE RunOK(q)
  <2>1. ns \in Namespaces
    BY <1>5, <1>8, NamespacesAre
  <2>2. q \in Runs
    BY <1>1, <1>4, <1>6, <2>1 DEF RunOK, Runs
  <2>3. QED
    BY <1>6, <2>2 DEF RunOK
<1>9. QED
  BY <1>6, <1>7, <1>8 DEF q

\* A change in place of a list with one name writes that name and no other.
LEMMA MutatedRuns ==
    ASSUME NEW r, RunOK(r), NEW n \in DOMAIN r.ns, r.alias[n] = {n}, NEW l,
           NEW v, Fits(v, l, r)
    PROVE  LET q == Mutate(r, n, l) IN
           /\ Wrote(q, r, n, v)
           /\ (\A m \in DOMAIN q.ns : q.ns[m] \in Lists) => RunOK(q)
<1> DEFINE q == Mutate(r, n, l)
           ns == [m \in DOMAIN r.ns |-> IF m = n THEN l ELSE r.ns[m]]
<1>1. q = [r EXCEPT !.ns = ns]
  BY DEF Mutate, RunOK, Runs
<1>2. r.ns \in Namespaces
  BY DEF RunOK, Runs
<1>3. (\A m \in DOMAIN ns : ns[m] \in Lists) => ns \in Namespaces
  BY <1>2, NamespacesAre
<1> HIDE DEF q
<1>4. /\ q.ns = ns /\ q.alias = r.alias /\ q.env = r.env /\ q.base = r.base
      /\ q.baseAlias = r.baseAlias /\ q.path = r.path
  BY <1>1 DEF RunOK, Runs
<1>5. Wrote(q, r, n, v)
  BY <1>4 DEF Wrote
<1>6. (\A m \in DOMAIN q.ns : q.ns[m] \in Lists) => RunOK(q)
  <2>1. ns \in Namespaces => q \in Runs
    BY <1>1, <1>4 DEF RunOK, Runs
  <2>2. QED
    BY <1>3, <1>4, <2>1 DEF RunOK
<1>7. QED
  BY <1>5, <1>6 DEF q

-----------------------------------------------------------------------------
(* The steps.                                                              *)

\* A run after a step on the current line that writes v to n: it was elsewhere,
\* it threw, or it did.
StepsOn(q, n, v) ==
    \E r \in runs : \/ ~Active(r) /\ q = r
                    \/ Active(r) /\ Fled(q, r, Len(blocks))
                    \/ Active(r) /\ Wrote(q, r, n, v)

\* What _record does to the scope leaves values in it.
LEMMA RecordTypes ==
    ASSUME ChainTypeOK, NEW n \in Names, NEW v, WellFormed(v), Record(n, v),
           \A m \in DOMAIN scope' : scope'[m].lists \subseteq Lists
    PROVE  /\ scope' \in [DOMAIN scope' -> Values] /\ DOMAIN scope' \subseteq Names
           /\ NamesKnown'
<1>1. CASE ~Visited
  BY <1>1 DEF Record, ChainTypeOK, NamesKnown
<1>2. CASE Visited
  <2> DEFINE w == IF InDoubt /\ n \in DOMAIN scope THEN Conditional({scope[n], v}) ELSE v
  <2>1. scope' = [m \in DOMAIN scope \cup {n} |-> IF m = n THEN w ELSE scope[m]]
    BY <1>2 DEF Record, SetTo
  <2>2. WellFormed(w)
    BY ConditionalIsWellFormed DEF ChainTypeOK
  <2> HIDE DEF w
  <2>3. \A m \in DOMAIN scope' : WellFormed(scope'[m])
    BY <2>1, <2>2 DEF ChainTypeOK
  <2>4. \A m \in DOMAIN scope' : scope'[m] \in Values
    BY <2>3 DEF WellFormed, Values
  <2>5. QED
    BY <2>1, <2>3, <2>4 DEF ChainTypeOK, NamesKnown
<1>3. QED
  BY <1>1, <1>2

\* The heart of it: a line that writes, recorded as _record does, leaves every
\* run described, whether it got to the line or not.
LEMMA RecordKeeps ==
    ASSUME ChainTypeOK, ChainInv, NEW n \in Names, NEW v, WellFormed(v), Record(n, v), Statement,
           \A q \in runs' : StepsOn(q, n, v)
    PROVE  ChainInv'
<1>1. /\ leading' = FALSE /\ blocks' = blocks /\ module' = module /\ starred' = starred
  BY DEF Statement
<1>2. ~AtHead' /\ (Imported' <=> Imported) /\ (module' = 1 => ~starred')
  BY <1>1 DEF AtHead, Imported, ChainInv
<1>3. ASSUME NEW q \in runs' PROVE Followed(q)'
  <2>1. PICK r \in runs : \/ q = r
                          \/ Fled(q, r, Len(blocks))
                          \/ Wrote(q, r, n, v)
    BY DEF StepsOn
  <2>2. Followed(r) /\ RunOK(r) /\ Len(blocks) \in Nat
    BY DEF ChainInv, ChainTypeOK
  <2>3. Followed(q)
    <3>1. CASE q = r
      BY <2>2, <3>1
    <3>2. CASE Fled(q, r, Len(blocks))
      BY <2>2, <3>2, FledRuns
    <3>3. CASE Wrote(q, r, n, v)
      BY <2>2, <3>3 DEF Followed, Wrote, ActiveAt
    <3>4. QED
      BY <2>1, <3>1, <3>2, <3>3
  <2>4. QED
    BY <1>1, <2>3 DEF Followed, ActiveAt
<1>4. CASE ~Visited
  <2>1. scope' = scope /\ doubtful' = doubtful
    BY <1>4 DEF Record
  <2>2. \A q \in runs' : q \in runs
    BY <1>4, DiscardedLinesDoNot DEF ChainInv, StepsOn
  <2>3. \A q \in runs' : Described(q.ns, q)'
    BY <2>1, <2>2 DEF ChainInv, Described
  <2>4. Imported' => \A q \in runs' : Undoubted' \subseteq DOMAIN q.ns
    BY <1>2, <2>1, <2>2 DEF ChainInv, Undoubted
  <2>5. QED
    BY <1>2, <1>3, <2>3, <2>4 DEF ChainInv
<1>5. CASE Visited /\ InDoubt
  <2> DEFINE w == IF n \in DOMAIN scope THEN Conditional({scope[n], v}) ELSE v
  <2>1. /\ scope' = [m \in DOMAIN scope \cup {n} |-> IF m = n THEN w ELSE scope[m]]
        /\ doubtful' = doubtful \cup {n}
    BY <1>5 DEF Record, SetTo
  <2>2. \A l, r : \/ Fits(v, l, r)
                  \/ n \in DOMAIN scope /\ Fits(scope[n], l, r)
                  => Fits(w, l, r)
    BY ConditionalFits DEF ChainTypeOK
  <2> HIDE DEF w
  <2>3. ASSUME NEW q \in runs'
        PROVE  Described(q.ns, q)' /\ (Imported => Undoubted' \subseteq DOMAIN q.ns)
    <3>1. PICK r \in runs : \/ q = r
                            \/ Fled(q, r, Len(blocks))
                            \/ Wrote(q, r, n, v)
      BY DEF StepsOn
    <3>2. /\ q.env = r.env
          /\ DOMAIN r.ns \subseteq DOMAIN q.ns
          /\ \A m \in DOMAIN q.ns : \/ m \in DOMAIN r.ns /\ q.ns[m] = r.ns[m]
                                    \/ m = n /\ Fits(v, q.ns[m], r)
      <4>1. CASE Fled(q, r, Len(blocks))
        <5>0. RunOK(r) /\ Len(blocks) \in 0..Len(blocks)
          BY DEF ChainTypeOK
        <5>1. q.env = r.env /\ q.ns = r.ns
          BY <4>1, <5>0, FledRuns
        <5>2. QED
          BY <5>1
      <4>2. QED
        BY <3>1, <4>1 DEF Wrote
    <3>3. \A m \in DOMAIN r.ns : m \in DOMAIN scope /\ Fits(scope[m], r.ns[m], r)
      BY DEF ChainInv, Described
    <3>4. \A m \in DOMAIN q.ns : m \in DOMAIN scope' /\ Fits(scope'[m], q.ns[m], r)
      BY <2>1, <2>2, <3>2, <3>3
    <3>5. \A x, l : Fits(x, l, q) <=> Fits(x, l, r)
      BY <3>2 DEF Fits, Trusted
    <3>6. Described(q.ns, q)'
      BY <3>4, <3>5 DEF Described
    <3>7. Imported => Undoubted' \subseteq DOMAIN q.ns
      BY <2>1, <3>2 DEF ChainInv, Undoubted
    <3>8. QED
      BY <3>6, <3>7
  <2>4. QED
    BY <1>2, <1>3, <2>3 DEF ChainInv
<1>6. CASE Visited /\ ~InDoubt
  <2>1. /\ scope' = [m \in DOMAIN scope \cup {n} |-> IF m = n THEN v ELSE scope[m]]
        /\ doubtful' = doubtful \ {n}
    BY <1>6 DEF Record, SetTo
  <2>2. ASSUME NEW q \in runs'
        PROVE  Described(q.ns, q)' /\ (Imported => Undoubted' \subseteq DOMAIN q.ns)
    <3>1. PICK r \in runs : Wrote(q, r, n, v)
      BY <1>6, SureLinesRun DEF StepsOn, ChainInv
    <3>2. \A m \in DOMAIN r.ns : m \in DOMAIN scope /\ Fits(scope[m], r.ns[m], r)
      BY DEF ChainInv, Described
    <3>3. \A m \in DOMAIN q.ns : m \in DOMAIN scope' /\ Fits(scope'[m], q.ns[m], r)
      BY <2>1, <3>1, <3>2 DEF Wrote
    <3>4. \A x, l : Fits(x, l, q) <=> Fits(x, l, r)
      BY <3>1 DEF Fits, Trusted, Wrote
    <3>5. Described(q.ns, q)'
      BY <3>3, <3>4 DEF Described
    <3>6. Imported => Undoubted' \subseteq DOMAIN q.ns
      BY <2>1, <3>1 DEF ChainInv, Undoubted, Wrote
    <3>7. QED
      BY <3>5, <3>6
  <2>3. QED
    BY <1>2, <1>3, <2>2 DEF ChainInv
<1>7. QED
  BY <1>4, <1>5, <1>6

\* A statement moves neither files nor blocks.
LEMMA StatementTypes ==
    ASSUME ChainTypeOK, Statement,
           scope' \in [DOMAIN scope' -> Values], DOMAIN scope' \subseteq Names, NamesKnown',
           \A q \in runs' : RunOK(q)
    PROVE  ChainTypeOK'
BY DEF ChainTypeOK, NamesKnown, Statement, RunOK

\* The runs that did not get to the line, and those that throw on it.
LEMMA OthersAreRuns ==
    ASSUME ChainTypeOK, NEW r \in runs, NEW q, q = r \/ Fled(q, r, Len(blocks))
    PROVE  RunOK(q)
<1>1. RunOK(r) /\ Len(blocks) \in 0..Len(blocks)
  BY DEF ChainTypeOK
<1>2. QED
  BY <1>1, FledRuns

\* What is thrown on this line.
LEMMA ThrownHere ==
    ASSUME ChainTypeOK, NEW r, NEW q \in Thrown(r)
    PROVE  Fled(q, r, Len(blocks))
<1>1. Len(blocks) \in 0..Len(blocks)
  BY DEF ChainTypeOK
<1>2. QED
  BY <1>1, ThrownFlee DEF Thrown

\* NAME = e.
LEMMA AssignKeeps ==
    ASSUME Steady, ChainTypeOK, ChainInv, NEW n \in Names, NEW e \in Exprs, Assign(n, e)
    PROVE  ChainTypeOK' /\ ChainInv'
<1> DEFINE v == Eval(e)
<1>1. e.op # "helper" /\ NamesKnown /\ Statement /\ Record(n, v)
  BY DEF Assign, Steady, ChainTypeOK, NamesKnown
<1>2. WellFormed(v)
  BY <1>1, EvalIsWellFormed
<1>3. ASSUME NEW q \in runs' PROVE StepsOn(q, n, v) /\ RunOK(q)
  <2>1. PICK r \in runs : \/ ~Active(r) /\ q = r
                          \/ Active(r) /\ q \in Thrown(r)
                          \/ Active(r) /\ \E l \in Results(e, r) : q = Bind(r, n, l, Sharing(e, r))
    BY DEF Assign, EachRun
  <2>2. CASE (~Active(r) /\ q = r) \/ (Active(r) /\ q \in Thrown(r))
    BY <2>2, ThrownHere, OthersAreRuns DEF StepsOn
  <2>3. ASSUME Active(r), NEW l \in Results(e, r), q = Bind(r, n, l, Sharing(e, r))
        PROVE  StepsOn(q, n, v) /\ RunOK(q)
    <3>1. RunOK(r) /\ Described(r.ns, r)
      BY DEF ChainTypeOK, ChainInv
    <3>2. Sharing(e, r) \in SUBSET Names
      <4>1. e.op \in {"name", "or"} => e.name \in Names
        BY DEF Exprs
      <4>2. e.op \in {"name", "or"} => r.alias[e.name] \in SUBSET Names
        BY <3>1, <4>1 DEF RunOK, Runs
      <4>3. QED
        BY <4>2 DEF Sharing
    <3>3. Fits(v, l, r)
      BY <1>1, <3>1, EvalFits
    <3>4. \A m \in DOMAIN q.ns : q.ns[m] \in Lists
      BY DEF Assign, Short
    <3>5. Wrote(q, r, n, v) /\ RunOK(q)
      BY <2>3, <3>1, <3>2, <3>3, <3>4, BoundRuns
    <3>6. QED
      BY <2>3, <3>5 DEF StepsOn
  <2>4. QED
    BY <2>1, <2>2, <2>3
<1>4. \A m \in DOMAIN scope' : scope'[m].lists \subseteq Lists
  BY DEF Assign, Short
<1>5. ChainTypeOK'
  BY <1>1, <1>2, <1>3, <1>4, RecordTypes, StatementTypes
<1>6. QED
  BY <1>1, <1>2, <1>3, <1>5, RecordKeeps

\* NAME += e.
LEMMA AugmentKeeps ==
    ASSUME Steady, ChainTypeOK, ChainInv, NEW n \in Names, NEW e \in Exprs, Augment(n, e)
    PROVE  ChainTypeOK' /\ ChainInv'
<1> DEFINE v == Extended(n, Eval(e))
<1>1. e.op # "helper" /\ NamesKnown /\ Statement /\ Record(n, v)
  BY DEF Augment, ChainTypeOK, NamesKnown
<1>2. WellFormed(Eval(e)) /\ WellFormed(v)
  BY <1>1, EvalIsWellFormed, ExtendedIsRight
<1>3. ASSUME NEW q \in runs' PROVE StepsOn(q, n, v) /\ RunOK(q)
  <2>1. PICK r \in runs : \/ ~Active(r) /\ q = r
                          \/ Active(r) /\ q \in Thrown(r)
                          \/ /\ Active(r) /\ n \in DOMAIN r.ns
                             /\ \E l \in Results(e, r) : q = Mutate(r, n, r.ns[n] \o l)
    BY DEF Augment, EachRun
  <2>2. CASE (~Active(r) /\ q = r) \/ (Active(r) /\ q \in Thrown(r))
    BY <2>2, ThrownHere, OthersAreRuns DEF StepsOn
  <2>3. ASSUME Active(r), n \in DOMAIN r.ns, NEW l \in Results(e, r), q = Mutate(r, n, r.ns[n] \o l)
        PROVE  StepsOn(q, n, v) /\ RunOK(q)
    <3>1. RunOK(r) /\ Described(r.ns, r) /\ r.alias[n] = {n}
      BY DEF ChainTypeOK, ChainInv, Augment, MayMutate, Steady
    <3>2. Fits(Eval(e), l, r)
      BY <1>1, <3>1, EvalFits
    <3>3. Fits(v, r.ns[n] \o l, r)
      BY <1>1, <1>2, <2>3, <3>1, <3>2, ExtendedIsRight
    <3>4. \A m \in DOMAIN q.ns : q.ns[m] \in Lists
      BY DEF Augment, Short
    <3>5. Wrote(q, r, n, v) /\ RunOK(q)
      BY <2>3, <3>1, <3>3, <3>4, MutatedRuns
    <3>6. QED
      BY <2>3, <3>5 DEF StepsOn
  <2>4. QED
    BY <2>1, <2>2, <2>3
<1>4. \A m \in DOMAIN scope' : scope'[m].lists \subseteq Lists
  BY DEF Augment, Short
<1>5. ChainTypeOK'
  BY <1>1, <1>2, <1>3, <1>4, RecordTypes, StatementTypes
<1>6. QED
  BY <1>1, <1>2, <1>3, <1>5, RecordKeeps

\* A line that writes nothing.
LEMMA PassingKeeps ==
    ASSUME ChainTypeOK, ChainInv, Statement, UNCHANGED <<scope, doubtful>>,
           \A q \in runs' : \E r \in runs : q = r \/ Fled(q, r, Len(blocks))
    PROVE  ChainTypeOK' /\ ChainInv'
<1>1. \A q \in runs' : RunOK(q)
  BY OthersAreRuns
<1>2. ChainTypeOK'
  BY <1>1, StatementTypes DEF ChainTypeOK, NamesKnown
<1>3. ASSUME NEW q \in runs'
      PROVE  Followed(q)' /\ Described(q.ns, q)' /\ (Imported => Undoubted' \subseteq DOMAIN q.ns)
  <2>1. PICK r \in runs : q = r \/ Fled(q, r, Len(blocks))
    OBVIOUS
  <2>2. RunOK(r) /\ Len(blocks) \in 0..Len(blocks)
    BY DEF ChainTypeOK
  <2>3. q.env = r.env /\ q.ns = r.ns /\ Followed(q)
    BY <2>1, <2>2, FledRuns DEF ChainInv
  <2>4. Followed(q)'
    BY <2>3 DEF Followed, ActiveAt, Statement
  <2>5. Described(q.ns, q)'
    BY <2>3 DEF ChainInv, Described, Fits, Trusted
  <2>6. QED
    BY <2>3, <2>4, <2>5 DEF ChainInv, Undoubted
<1>4. ~AtHead' /\ (Imported' <=> Imported) /\ (module' = 1 => ~starred')
  BY DEF Statement, AtHead, Imported, ChainInv
<1>5. QED
  BY <1>2, <1>3, <1>4 DEF ChainInv

\* NAME.append(t), NAME.remove(t).
LEMMA MethodKeeps ==
    ASSUME Steady, ChainTypeOK, ChainInv, NEW n \in Names, NEW method, NEW arg \in Arguments,
           Method(n, method, arg)
    PROVE  ChainTypeOK' /\ ChainInv'
<1>1. NamesKnown /\ Statement
  BY DEF Method, ChainTypeOK, NamesKnown
<1>2. \A q \in runs' :
         \E r \in runs : \/ ~Active(r) /\ q = r
                         \/ Active(r) /\ q \in Thrown(r)
                         \/ /\ Active(r) /\ n \in DOMAIN r.ns
                            /\ \E t \in Given(arg) : \E l \in Changed(r.ns[n], method, t) : q = Mutate(r, n, l)
  BY DEF Method, EachRun
<1>3. CASE n \notin DOMAIN scope
  <2>1. UNCHANGED <<scope, doubtful>>
    BY <1>3 DEF Method
  <2>2. \A r \in runs : n \notin DOMAIN r.ns
    BY <1>3 DEF ChainInv, Described
  <2>3. \A q \in runs' : \E r \in runs : q = r \/ Fled(q, r, Len(blocks))
    BY <1>2, <2>2, ThrownHere
  <2>4. QED
    BY <1>1, <2>1, <2>3, PassingKeeps
<1>4. CASE n \in DOMAIN scope
  <2> DEFINE v == Mutated(n, method, arg)
  <2>1. Record(n, v)
    BY <1>4 DEF Method
  <2>2. WellFormed(v)
    BY <1>1, <1>4, MutatedIsRight
  <2>3. ASSUME NEW q \in runs' PROVE StepsOn(q, n, v) /\ RunOK(q)
    <3>1. PICK r \in runs : \/ ~Active(r) /\ q = r
                            \/ Active(r) /\ q \in Thrown(r)
                            \/ /\ Active(r) /\ n \in DOMAIN r.ns
                               /\ \E t \in Given(arg) : \E l \in Changed(r.ns[n], method, t) : q = Mutate(r, n, l)
      BY <1>2
    <3>2. CASE (~Active(r) /\ q = r) \/ (Active(r) /\ q \in Thrown(r))
      BY <3>2, ThrownHere, OthersAreRuns DEF StepsOn
    <3>3. ASSUME Active(r), n \in DOMAIN r.ns, NEW t \in Given(arg),
                 NEW l \in Changed(r.ns[n], method, t), q = Mutate(r, n, l)
          PROVE  StepsOn(q, n, v) /\ RunOK(q)
      <4>1. RunOK(r) /\ Described(r.ns, r) /\ r.alias[n] = {n}
        BY DEF ChainTypeOK, ChainInv, Method, MayMutate, Steady
      <4>2. Fits(v, l, r)
        BY <1>1, <1>4, <3>3, <4>1, MutatedIsRight
      <4>3. \A m \in DOMAIN q.ns : q.ns[m] \in Lists
        BY DEF Method, Short
      <4>4. Wrote(q, r, n, v) /\ RunOK(q)
        BY <3>3, <4>1, <4>2, <4>3, MutatedRuns
      <4>5. QED
        BY <3>3, <4>4 DEF StepsOn
    <3>4. QED
      BY <3>1, <3>2, <3>3
  <2>4. \A m \in DOMAIN scope' : scope'[m].lists \subseteq Lists
    BY DEF Method, Short
  <2>5. ChainTypeOK'
    BY <1>1, <2>1, <2>2, <2>3, <2>4, RecordTypes, StatementTypes
  <2>6. QED
    BY <1>1, <2>1, <2>2, <2>3, <2>5, RecordKeeps
<1>5. QED
  BY <1>3, <1>4

\* A statement nobody looks into.
LEMMA RiskyKeeps ==
    ASSUME ChainTypeOK, ChainInv, Risky
    PROVE  ChainTypeOK' /\ ChainInv'
<1>1. \A q \in runs' : \E r \in runs : q = r \/ q \in Thrown(r)
  BY DEF Risky
<1>2. \A q \in runs' : \E r \in runs : q = r \/ Fled(q, r, Len(blocks))
  BY <1>1, ThrownHere
<1>3. QED
  BY <1>2, PassingKeeps DEF Risky

-----------------------------------------------------------------------------
(* The compound statements.                                                *)

BlockTypes == [kind : {"if", "try"}, arm : Arms, verdict : {"both", "body", "orelse"}]
PathSteps == {"body", "orelse", "handler", "doomed", "skip"}

\* A step that only moves the runs about the blocks.
LEMMA MovingKeeps ==
    ASSUME ChainTypeOK, ChainInv, UNCHANGED <<scope, doubtful, module, starred>>,
           leading' \in BOOLEAN, ~AtHead',
           blocks' \in Seq(BlockTypes), \A i \in DOMAIN blocks' : BlockOK(blocks'[i]),
           \A q \in runs' : /\ RunOK(q)' /\ Followed(q)'
                            /\ \E r \in runs : q.ns = r.ns /\ q.env = r.env
    PROVE  ChainTypeOK' /\ ChainInv'
<1>1. ChainTypeOK'
  BY DEF ChainTypeOK, BlockTypes
<1>2. ASSUME NEW q \in runs' PROVE Described(q.ns, q)' /\ (Imported => Undoubted' \subseteq DOMAIN q.ns)
  <2>1. PICK r \in runs : q.ns = r.ns /\ q.env = r.env
    OBVIOUS
  <2>2. QED
    BY <2>1 DEF ChainInv, Described, Fits, Trusted, Undoubted
<1>3. (Imported' <=> Imported) /\ (module' = 1 => ~starred')
  BY DEF Imported, ChainInv
<1>4. QED
  BY <1>1, <1>2, <1>3 DEF ChainInv

\* A run put elsewhere is a run.
LEMMA RunsOnPaths ==
    ASSUME NEW r \in Runs, NEW path \in Seq(PathSteps), NEW q, q = [r EXCEPT !.path = path]
    PROVE  q \in Runs /\ q.path = path /\ q.ns = r.ns /\ q.env = r.env
BY DEF Runs, PathSteps

\* A run that enters a block, or does not, is where the resolver thinks it may be.
LEMMA OpenedRuns ==
    ASSUME ChainTypeOK, NEW p, RunOK(p), Followed(p), NEW arm \in PathSteps,
           NEW b, BlockOK(b), blocks' = Append(blocks, b),
           ~Active(p) \/ b.verdict \in {"both", arm}
    PROVE  LET q == Opened(p, arm) IN
           RunOK(q)' /\ Followed(q)' /\ q.ns = p.ns /\ q.env = p.env
<1> DEFINE q == Opened(p, arm)
           L == Len(blocks)
<1>1. L \in Nat /\ DOMAIN blocks = 1..L /\ p.path \in Seq(PathSteps) /\ Len(p.path) = L
  BY DEF ChainTypeOK, RunOK, Runs, PathSteps
<1>2. /\ q.path = Append(p.path, arm) /\ q.ns = p.ns /\ q.env = p.env /\ q \in Runs
      /\ DOMAIN q.path = 1..(L + 1)
  <2>1. /\ Append(p.path, arm) \in Seq(PathSteps)
        /\ DOMAIN Append(p.path, arm) = 1..(L + 1)
    BY <1>1
  <2>2. q = [p EXCEPT !.path = Append(p.path, arm)] /\ p \in Runs
    BY DEF Opened, RunOK
  <2> HIDE DEF q
  <2>3. q \in Runs /\ q.path = Append(p.path, arm) /\ q.ns = p.ns /\ q.env = p.env
    BY <2>1, <2>2, RunsOnPaths
  <2>4. QED
    BY <2>1, <2>3
<1>3. DOMAIN blocks' = 1..(L + 1) /\ blocks'[L + 1] = b /\ \A i \in 1..L : blocks'[i] = blocks[i]
  BY <1>1 DEF ChainTypeOK
<1>4. q.path[L + 1] = arm /\ \A i \in 1..L : q.path[i] = p.path[i]
  BY <1>1, <1>2
<1> HIDE DEF q
<1>5. ASSUME NEW i \in DOMAIN blocks', \A j \in 1..(i - 1) : ActiveAt(q, j)', blocks'[i].verdict # "both"
      PROVE  q.path[i] = blocks'[i].verdict
  <2>1. \A j \in 1..(i - 1) : j \in 1..L
    BY <1>1, <1>3
  <2>2. \A j \in 1..(i - 1) : ActiveAt(p, j)
    BY <1>3, <1>4, <1>5, <2>1 DEF ActiveAt
  <2>3. CASE i \in 1..L
    <3>1. p.path[i] = blocks[i].verdict
      BY <1>1, <1>3, <1>5, <2>2, <2>3 DEF Followed
    <3>2. QED
      BY <1>3, <1>4, <2>3, <3>1
  <2>4. CASE i = L + 1
    <3>1. Active(p)
      BY <1>1, <2>2, <2>4 DEF Active, ActiveAt
    <3>2. QED
      BY <1>3, <1>4, <1>5, <2>4, <3>1
  <2>5. QED
    BY <1>1, <1>3, <2>3, <2>4
<1>6. Followed(q)'
  BY <1>5 DEF Followed
<1>7. RunOK(q)'
  BY <1>2, <1>3 DEF RunOK
<1>8. QED
  BY <1>2, <1>6, <1>7 DEF q

\* One block more.
LEMMA AppendedBlocks ==
    ASSUME ChainTypeOK, NEW b, BlockOK(b), blocks' = Append(blocks, b)
    PROVE  blocks' \in Seq(BlockTypes) /\ \A i \in DOMAIN blocks' : BlockOK(blocks'[i])
<1>1. b \in BlockTypes
  BY DEF BlockOK, BlockTypes
<1>2. blocks \in Seq(BlockTypes) /\ \A i \in 1..Len(blocks) : BlockOK(blocks[i])
  BY DEF ChainTypeOK, BlockTypes
<1>3. QED
  BY <1>1, <1>2

\* if: the resolver takes one arm only where every run that gets here does.
LEMMA EnterIfKeeps ==
    ASSUME ChainTypeOK, ChainInv, NEW test \in Exprs, EnterIf(test)
    PROVE  ChainTypeOK' /\ ChainInv'
<1> DEFINE b == [kind |-> "if", arm |-> "body", verdict |-> Verdict(test)]
<1>1. blocks' = Append(blocks, b) /\ BlockOK(b)
  BY DEF EnterIf, Verdict, BlockOK, Arms
<1>2. ASSUME NEW q \in runs'
      PROVE  /\ RunOK(q)' /\ Followed(q)'
             /\ \E r \in runs : q.ns = r.ns /\ q.env = r.env
  <2>1. PICK r \in runs :
           \/ ~Active(r) /\ q = Opened(r, "skip")
           \/ \E p \in Thrown(r) : q = Opened(p, "skip")
           \/ \E l \in Results(test, r) : q = Opened(r, IF l # <<>> THEN "body" ELSE "orelse")
    BY DEF EnterIf
  <2>2. RunOK(r) /\ Followed(r) /\ Described(r.ns, r) /\ NamesKnown
    BY DEF ChainTypeOK, ChainInv, NamesKnown
  <2>3. CASE ~Active(r) /\ q = Opened(r, "skip")
    BY <1>1, <2>2, <2>3, OpenedRuns DEF PathSteps
  <2>4. ASSUME NEW p \in Thrown(r), q = Opened(p, "skip")
        PROVE  RunOK(q)' /\ Followed(q)' /\ q.ns = r.ns /\ q.env = r.env
    <3>1. Fled(p, r, Len(blocks)) /\ Len(blocks) \in 0..Len(blocks)
      BY ThrownHere DEF ChainTypeOK
    <3>2. RunOK(p) /\ Followed(p) /\ ~Active(p) /\ p.ns = r.ns /\ p.env = r.env
      BY <2>2, <3>1, FledRuns
    <3>3. "skip" \in PathSteps
      BY DEF PathSteps
    <3>4. QED
      BY <1>1, <2>4, <3>2, <3>3, OpenedRuns
  <2>5. ASSUME NEW l \in Results(test, r), q = Opened(r, IF l # <<>> THEN "body" ELSE "orelse")
        PROVE  RunOK(q)' /\ Followed(q)' /\ q.ns = r.ns /\ q.env = r.env
    <3> DEFINE v == Eval(test)
               arm == IF l # <<>> THEN "body" ELSE "orelse"
    <3>1. WellFormed(v) /\ Fits(v, l, r)
      BY <2>2, EvalIsWellFormed, EvalFits DEF EnterIf
    <3>2. Verdict(test) \in {"both", arm}
      <4>1. CASE IsLiteral(v) /\ ~v.env
        <5>1. l = Literal(v)
          BY <3>1, <4>1, LiteralsAreExact DEF Trusted
        <5>2. QED
          BY <5>1 DEF Verdict
      <4>2. CASE ~(IsLiteral(v) /\ ~v.env)
        BY <4>2 DEF Verdict
      <4>3. QED
        BY <4>1, <4>2
    <3>3. arm \in PathSteps /\ b.verdict \in {"both", arm}
      BY <3>2 DEF PathSteps
    <3> HIDE DEF arm, b
    <3>4. QED
      BY <1>1, <2>2, <2>5, <3>3, OpenedRuns DEF arm
  <2>6. QED
    BY <2>1, <2>3, <2>4, <2>5
<1>3. UNCHANGED <<scope, doubtful, module, starred>> /\ leading' \in BOOLEAN /\ ~AtHead'
  BY DEF EnterIf, AtHead
<1>4. QED
  BY <1>1, <1>2, <1>3, AppendedBlocks, MovingKeeps

\* try.
LEMMA EnterTryKeeps ==
    ASSUME ChainTypeOK, ChainInv, EnterTry
    PROVE  ChainTypeOK' /\ ChainInv'
<1> DEFINE b == [kind |-> "try", arm |-> "body", verdict |-> "both"]
<1>1. blocks' = Append(blocks, b) /\ BlockOK(b) /\ b.verdict = "both"
  BY DEF EnterTry, BlockOK, Arms
<1> HIDE DEF b
<1>2. ASSUME NEW q \in runs'
      PROVE  /\ RunOK(q)' /\ Followed(q)'
             /\ \E r \in runs : q.ns = r.ns /\ q.env = r.env
  <2>1. PICK r \in runs, arm \in {"body", "skip"} : q = Opened(r, arm)
    BY DEF EnterTry
  <2>2. RunOK(r) /\ Followed(r) /\ arm \in PathSteps
    BY DEF ChainTypeOK, ChainInv, PathSteps
  <2>3. QED
    BY <1>1, <2>1, <2>2, OpenedRuns
<1>3. UNCHANGED <<scope, doubtful, module, starred>> /\ leading' \in BOOLEAN /\ ~AtHead'
  BY DEF EnterTry, AtHead
<1>4. QED
  BY <1>1, <1>2, <1>3, AppendedBlocks, MovingKeeps

\* elif and else, except, finally.
LEMMA NextArmKeeps ==
    ASSUME ChainTypeOK, ChainInv, NEW arm \in {"handler", "orelse", "final"}, NEW matches \in BOOLEAN,
           NextArm(arm, matches)
    PROVE  ChainTypeOK' /\ ChainInv'
<1> DEFINE L == Len(blocks)
<1>1. L \in Nat /\ L > 0 /\ DOMAIN blocks = 1..L /\ blocks \in Seq(BlockTypes) /\ L \in 1..L
  BY DEF ChainTypeOK, NextArm, BlockTypes
<1>2. Top = blocks[L] /\ BlockOK(Top) /\ arm \in NextArms(Top)
  BY <1>1 DEF Top, ChainTypeOK, NextArm
<1>3. Top.kind = "if" => Top.arm = "body" /\ arm = "orelse"
  BY <1>2 DEF NextArms
<1>4. /\ blocks' = [blocks EXCEPT ![L] = [Top EXCEPT !.arm = arm]]
      /\ runs' = {[r EXCEPT !.path[L] = Rerouted(r.path[L], Top, arm, matches)] : r \in runs}
  BY <1>2 DEF NextArm
<1> HIDE DEF L
<1>5. /\ blocks' \in Seq(BlockTypes) /\ DOMAIN blocks' = 1..L
      /\ blocks'[L] = [Top EXCEPT !.arm = arm]
      /\ \A i \in 1..(L - 1) : blocks'[i] = blocks[i]
  <2>1. [Top EXCEPT !.arm = arm] \in BlockTypes
    BY <1>2 DEF BlockOK, BlockTypes, Arms
  <2>2. QED
    BY <1>1, <1>4, <2>1
<1>6. \A i \in DOMAIN blocks' : BlockOK(blocks'[i])
  <2>1. BlockOK(blocks'[L])
    BY <1>2, <1>3, <1>5 DEF BlockOK, Arms
  <2>2. \A i \in 1..(L - 1) : BlockOK(blocks[i])
    BY <1>1 DEF ChainTypeOK
  <2>3. QED
    BY <1>1, <1>5, <2>1, <2>2
<1>7. ASSUME NEW q \in runs'
      PROVE  /\ RunOK(q)' /\ Followed(q)'
             /\ \E r \in runs : q.ns = r.ns /\ q.env = r.env
  <2>1. PICK r \in runs : q = [r EXCEPT !.path[L] = Rerouted(r.path[L], Top, arm, matches)]
    BY <1>4
  <2>2. RunOK(r) /\ Followed(r) /\ r.path \in Seq(PathSteps) /\ DOMAIN r.path = 1..L
    BY <1>1 DEF ChainTypeOK, ChainInv, RunOK, Runs, PathSteps
  <2> DEFINE step == Rerouted(r.path[L], Top, arm, matches)
  <2>3. step \in PathSteps /\ (Top.kind = "if" => step = r.path[L])
    <3>1. r.path[L] \in PathSteps
      BY <1>1, <2>2
    <3>2. QED
      BY <1>3, <3>1 DEF Rerouted, PathSteps
  <2> HIDE DEF step
  <2>4. q.path = [r.path EXCEPT ![L] = step] /\ q.ns = r.ns /\ q.env = r.env
    BY <2>1, <2>2 DEF step, RunOK, Runs
  <2>5. /\ q.path \in Seq(PathSteps) /\ DOMAIN q.path = 1..L
        /\ q.path[L] = step /\ \A i \in 1..(L - 1) : q.path[i] = r.path[i]
    <3>1. DOMAIN q.path = 1..L /\ q.path[L] = step /\ \A i \in 1..(L - 1) : q.path[i] = r.path[i]
      BY <1>1, <2>2, <2>4
    <3>2. q.path \in Seq(PathSteps)
      BY <1>1, <2>2, <2>3, <2>4
    <3>3. QED
      BY <3>1, <3>2
  <2>6. RunOK(q)'
    BY <1>5, <2>1, <2>2, <2>5 DEF RunOK, Runs, PathSteps
  <2>7. ASSUME NEW i \in 1..L, \A j \in 1..(i - 1) : ActiveAt(q, j)', blocks'[i].verdict # "both"
        PROVE  q.path[i] = blocks'[i].verdict
    <3>1. blocks'[i].verdict = blocks[i].verdict
      BY <1>1, <1>2, <1>5 DEF BlockOK
    <3>2. \A j \in 1..(i - 1) : ActiveAt(r, j)
      BY <1>1, <1>5, <2>5, <2>7 DEF ActiveAt
    <3>3. r.path[i] = blocks[i].verdict
      BY <1>1, <2>2, <2>7, <3>1, <3>2 DEF Followed
    <3>4. CASE i = L
      <4>1. Top.kind = "if"
        BY <1>2, <2>7, <3>1, <3>4 DEF BlockOK
      <4>2. QED
        BY <2>3, <2>5, <3>1, <3>3, <3>4, <4>1
    <3>5. CASE i # L
      <4>1. i \in 1..(L - 1)
        BY <1>1, <3>5
      <4>2. q.path[i] = r.path[i]
        BY <2>5, <4>1
      <4>3. QED
        BY <3>1, <3>3, <4>2
    <3>6. QED
      BY <3>4, <3>5
  <2>8. Followed(q)'
    BY <1>5, <2>7 DEF Followed
  <2>9. QED
    BY <2>4, <2>6, <2>8
<1>8. UNCHANGED <<scope, doubtful, module, starred>> /\ leading' \in BOOLEAN /\ ~AtHead'
  BY DEF NextArm, AtHead, ChainInv, ChainTypeOK
<1>9. QED
  BY <1>5, <1>6, <1>7, <1>8, MovingKeeps

\* The end of an if or a try, from which an exception may go on.
LEMMA EndKeeps ==
    ASSUME ChainTypeOK, ChainInv, End
    PROVE  ChainTypeOK' /\ ChainInv'
<1> DEFINE L == Len(blocks)
<1>1. L \in Nat /\ L > 0 /\ DOMAIN blocks = 1..L /\ blocks \in Seq(BlockTypes) /\ L - 1 \in 0..L
  BY DEF ChainTypeOK, End, BlockTypes
<1>2. /\ blocks' \in Seq(BlockTypes) /\ DOMAIN blocks' = 1..(L - 1)
      /\ \A i \in 1..(L - 1) : blocks'[i] = blocks[i]
  BY <1>1 DEF End
<1>3. \A i \in DOMAIN blocks' : BlockOK(blocks'[i])
  BY <1>1, <1>2 DEF ChainTypeOK
<1>4. ASSUME NEW q \in runs'
      PROVE  /\ RunOK(q)' /\ Followed(q)'
             /\ \E r \in runs : q.ns = r.ns /\ q.env = r.env
  <2>0. PICK r \in runs : \E p : q = Closed(p) /\ (p = r \/ p \in ThrownFrom(r, L - 1))
    BY DEF End
  <2>1. PICK p : q = Closed(p) /\ (p = r \/ p \in ThrownFrom(r, L - 1))
    BY <2>0
  <2>2. RunOK(p) /\ Followed(p) /\ p.ns = r.ns /\ p.env = r.env
    <3>1. RunOK(r) /\ Followed(r)
      BY DEF ChainTypeOK, ChainInv
    <3>2. CASE p \in ThrownFrom(r, L - 1)
      BY <1>1, <3>1, <3>2, ThrownFlee, FledRuns
    <3>3. QED
      BY <2>1, <3>1, <3>2
  <2>3. p.path \in Seq(PathSteps) /\ Len(p.path) = L
    BY <1>1, <2>2 DEF RunOK, Runs, PathSteps
  <2>4. q.path = SubSeq(p.path, 1, L - 1) /\ q.ns = p.ns /\ q.env = p.env
    BY <2>1, <2>2, <2>3 DEF Closed, RunOK, Runs
  <2>5. /\ q.path \in Seq(PathSteps) /\ DOMAIN q.path = 1..(L - 1)
        /\ \A i \in 1..(L - 1) : q.path[i] = p.path[i]
    BY <1>1, <2>3, <2>4
  <2>6. RunOK(q)'
    BY <1>2, <2>1, <2>2, <2>5 DEF Closed, RunOK, Runs, PathSteps
  <2>7. ASSUME NEW i \in 1..(L - 1), \A j \in 1..(i - 1) : ActiveAt(q, j)', blocks'[i].verdict # "both"
        PROVE  q.path[i] = blocks'[i].verdict
    <3>1. \A j \in 1..(i - 1) : ActiveAt(p, j)
      <4>1. \A j \in 1..(i - 1) : j \in 1..(L - 1)
        BY <1>1
      <4>2. QED
        BY <1>2, <2>5, <2>7, <4>1 DEF ActiveAt
    <3>2. p.path[i] = blocks[i].verdict
      BY <1>1, <1>2, <2>2, <2>7, <3>1 DEF Followed
    <3>3. QED
      BY <1>2, <2>5, <3>2
  <2>8. Followed(q)'
    BY <1>2, <2>7 DEF Followed
  <2>9. QED
    BY <2>2, <2>4, <2>6, <2>8
<1>5. UNCHANGED <<scope, doubtful, module, starred>> /\ leading' \in BOOLEAN /\ ~AtHead'
  BY DEF End, AtHead, ChainInv, ChainTypeOK
<1>6. QED
  BY <1>2, <1>3, <1>4, <1>5, MovingKeeps

-----------------------------------------------------------------------------
(* The files.                                                              *)

\* At the head of a file the run takes over what the scope already has.
LEMMA StarImportKeeps ==
    ASSUME Steady, ChainTypeOK, ChainInv, StarImport
    PROVE  ChainTypeOK' /\ ChainInv'
<1> DEFINE Ns(r) == [n \in DOMAIN r.ns \cup DOMAIN r.base |->
                        IF n \in DOMAIN r.base THEN r.base[n] ELSE r.ns[n]]
           Alias(r) == [n \in Names |-> IF n \in DOMAIN r.base THEN r.baseAlias[n]
                                        ELSE r.alias[n] \ DOMAIN r.base]
           Import(r) == [r EXCEPT !.ns = Ns(r), !.alias = Alias(r)]
<1>1. /\ AtHead /\ module > 1 /\ blocks = <<>> /\ starred' = TRUE
      /\ UNCHANGED <<scope, doubtful, blocks, module, leading>>
  BY DEF StarImport, Steady, AtHead
<1>2. \A r \in runs : Active(r)
  BY <1>1 DEF Active
<1>3. ASSUME NEW q \in runs' PROVE \E r \in runs : q = Import(r)
  BY <1>2 DEF StarImport, EachRun
<1>4. ASSUME NEW q \in runs'
      PROVE  RunOK(q) /\ Described(q.ns, q) /\ Undoubted \subseteq DOMAIN q.ns
  <2>1. PICK r \in runs : q = Import(r)
    BY <1>3
  <2>2. /\ r \in Runs /\ DOMAIN r.path = DOMAIN blocks
        /\ r.ns \in Namespaces /\ r.base \in Namespaces
        /\ r.alias \in [Names -> SUBSET Names] /\ r.baseAlias \in [Names -> SUBSET Names]
    BY DEF ChainTypeOK, RunOK, Runs
  <2>3. Ns(r) \in Namespaces
    BY <2>2, NamespacesAre
  <2>4. Alias(r) \in [Names -> SUBSET Names]
    BY <2>2
  <2>5. DOMAIN Ns(r) = DOMAIN r.ns \cup DOMAIN r.base
    OBVIOUS
  <2>6. \A n \in DOMAIN Ns(r) : n \in DOMAIN scope /\ Fits(scope[n], Ns(r)[n], r)
    BY <1>1 DEF ChainInv, Described
  <2> DEFINE ns == Ns(r)
             alias == Alias(r)
  <2>7. ns \in Namespaces /\ alias \in [Names -> SUBSET Names] /\ q = [r EXCEPT !.ns = ns, !.alias = alias]
    BY <2>1, <2>3, <2>4
  <2>8. DOMAIN ns = DOMAIN r.ns \cup DOMAIN r.base
    OBVIOUS
  <2>9. \A n \in DOMAIN ns : n \in DOMAIN scope /\ Fits(scope[n], ns[n], r)
    BY <2>6
  <2> HIDE DEF Ns, Alias, Import, ns, alias
  <2>10. /\ q.ns = ns /\ q.env = r.env /\ q.path = r.path /\ q \in Runs
    BY <2>2, <2>7 DEF Runs
  <2>11. RunOK(q)
    BY <2>2, <2>10 DEF RunOK
  <2>12. Described(q.ns, q)
    BY <2>9, <2>10 DEF Described, Fits, Trusted
  <2>13. Undoubted \subseteq DOMAIN q.ns
    BY <1>1, <2>8, <2>10 DEF ChainInv
  <2>14. QED
    BY <2>11, <2>12, <2>13
<1>5. ChainTypeOK'
  BY <1>1, <1>4 DEF ChainTypeOK, RunOK
<1>6. \A q \in runs' : Followed(q)' /\ Described(q.ns, q)' /\ Undoubted' \subseteq DOMAIN q.ns
  BY <1>1, <1>4 DEF Followed, Described, Undoubted
<1>7. ~AtHead' /\ module' # 1
  BY <1>1 DEF AtHead
<1>8. QED
  BY <1>5, <1>6, <1>7 DEF ChainInv

\* A file begins with no names.
LEMMA NothingIsANamespace == Nothing \in Namespaces /\ DOMAIN Nothing = {}
<1>1. Nothing = [n \in DOMAIN Nothing |-> Nothing[n]] /\ DOMAIN Nothing = {}
  BY DEF Nothing
<1>2. QED
  BY <1>1, NamespacesAre

\* The next file of the chain.
LEMMA NextModuleKeeps ==
    ASSUME ChainTypeOK, ChainInv, NextModule
    PROVE  ChainTypeOK' /\ ChainInv'
<1>1. /\ blocks = <<>> /\ Imported /\ module' > 1 /\ module' \in Nat \ {0}
      /\ starred' = FALSE /\ leading' = TRUE
      /\ UNCHANGED <<scope, doubtful, blocks>>
  <2>1. module \in Nat \ {0} /\ module' = module + 1
    BY DEF NextModule, ChainTypeOK
  <2>2. module = 1 \/ module > 1
    BY <2>1
  <2>3. Imported /\ blocks = <<>>
    BY <2>2 DEF NextModule, Complete, Imported
  <2>4. module' > 1 /\ module' \in Nat \ {0}
    BY <2>1
  <2>5. starred' = FALSE /\ leading' = TRUE /\ UNCHANGED <<scope, doubtful, blocks>>
    BY DEF NextModule
  <2>6. QED
    BY <2>3, <2>4, <2>5
<1>2. ASSUME NEW q \in runs'
      PROVE  RunOK(q) /\ Described(q.ns, q) /\ Described(q.base, q) /\ Undoubted \subseteq DOMAIN q.base
  <2>1. PICK r \in runs : q = [r EXCEPT !.ns = Nothing, !.alias = Fresh, !.base = r.ns, !.baseAlias = r.alias]
    BY DEF NextModule
  <2>2. /\ r \in Runs /\ DOMAIN r.path = DOMAIN blocks
        /\ r.ns \in Namespaces /\ r.alias \in [Names -> SUBSET Names]
    BY DEF ChainTypeOK, RunOK, Runs
  <2>3. Fresh \in [Names -> SUBSET Names]
    BY DEF Fresh
  <2>4. q \in Runs /\ q.ns = Nothing /\ q.base = r.ns /\ q.env = r.env /\ q.path = r.path
    BY <2>1, <2>2, <2>3, NothingIsANamespace DEF Runs
  <2>5. RunOK(q)
    BY <2>2, <2>4 DEF RunOK
  <2>6. Described(q.ns, q)
    BY <2>4, NothingIsANamespace DEF Described
  <2>7. Described(q.base, q)
    BY <2>4 DEF ChainInv, Described, Fits, Trusted
  <2>8. Undoubted \subseteq DOMAIN q.base
    BY <1>1, <2>4 DEF ChainInv
  <2>9. QED
    BY <2>5, <2>6, <2>7, <2>8
<1>3. ChainTypeOK'
  BY <1>1, <1>2 DEF ChainTypeOK, RunOK
<1>4. \A q \in runs' : /\ Followed(q)' /\ Described(q.ns, q)' /\ Described(q.base, q)'
                       /\ Undoubted' \subseteq DOMAIN q.base
  BY <1>1, <1>2 DEF Followed, Described, Undoubted
<1>5. AtHead' /\ ~Imported' /\ blocks' = <<>>
  BY <1>1 DEF AtHead, Imported
<1>6. QED
  BY <1>1, <1>3, <1>4, <1>5 DEF ChainInv

-----------------------------------------------------------------------------
(* The invariant.                                                          *)

\* Nothing is read, nothing is known.
LEMMA InvInitial == Init => ChainTypeOK /\ ChainInv
<1> SUFFICES ASSUME Init PROVE ChainTypeOK /\ ChainInv
  OBVIOUS
<1>1. /\ scope = Nothing /\ blocks = <<>> /\ module = 1 /\ starred = FALSE /\ leading = TRUE
      /\ DOMAIN scope = {}
  BY NothingIsANamespace DEF Init
<1>2. ASSUME NEW r \in runs PROVE RunOK(r) /\ r.ns = Nothing /\ r.base = Nothing
  <2>1. Fresh \in [Names -> SUBSET Names] /\ <<>> \in Seq(PathSteps) /\ DOMAIN <<>> = {}
    BY DEF Fresh
  <2>2. PICK e \in {{}} \cup {{l} : l \in Foreign} :
           r = [env |-> e, ns |-> Nothing, alias |-> Fresh, base |-> Nothing,
                baseAlias |-> Fresh, path |-> <<>>]
    BY DEF Init
  <2>3. r.path = <<>> /\ r.ns = Nothing /\ r.base = Nothing
    BY <2>2
  <2>4. r \in Runs
    BY <2>1, <2>2, NothingIsANamespace DEF Runs, PathSteps
  <2>5. QED
    BY <1>1, <2>3, <2>4 DEF RunOK
<1>3. ChainTypeOK
  <2>1. blocks \in Seq(BlockTypes)
    BY <1>1
  <2>2. scope \in [DOMAIN scope -> Values]
    BY <1>1 DEF Nothing
  <2>3. /\ DOMAIN scope \subseteq Names
        /\ \A n \in DOMAIN scope : WellFormed(scope[n])
        /\ \A i \in DOMAIN blocks : BlockOK(blocks[i])
    BY <1>1
  <2>4. module \in Nat \ {0}
    BY <1>1
  <2>5. starred \in BOOLEAN /\ leading \in BOOLEAN
    BY <1>1
  <2>6. QED
    BY <1>2, <2>1, <2>2, <2>3, <2>4, <2>5 DEF ChainTypeOK, BlockTypes
<1>4. \A r \in runs : Followed(r) /\ Described(r.ns, r) /\ Described(r.base, r)
  BY <1>1, <1>2, NothingIsANamespace DEF Followed, Described
<1>5. Undoubted = {}
  BY <1>1 DEF Undoubted
<1>6. QED
  BY <1>1, <1>3, <1>4, <1>5 DEF ChainInv

\* Every step keeps it.
LEMMA InvKept == Steady /\ ChainTypeOK /\ ChainInv /\ [Next]_vars => ChainTypeOK' /\ ChainInv'
<1> SUFFICES ASSUME Steady, ChainTypeOK, ChainInv, [Next]_vars PROVE ChainTypeOK' /\ ChainInv'
  OBVIOUS
<1>1. ASSUME NEW n \in Names, NEW e \in Exprs, Assign(n, e) PROVE ChainTypeOK' /\ ChainInv'
  BY <1>1, AssignKeeps
<1>2. ASSUME NEW n \in Names, NEW e \in Exprs, Augment(n, e) PROVE ChainTypeOK' /\ ChainInv'
  BY <1>2, AugmentKeeps
<1>3. ASSUME NEW n \in Names, NEW method \in {"append", "remove"}, NEW arg \in Arguments,
             Method(n, method, arg)
      PROVE  ChainTypeOK' /\ ChainInv'
  BY <1>3, MethodKeeps
<1>4. CASE Risky
  BY <1>4, RiskyKeeps
<1>5. ASSUME NEW e \in Exprs, EnterIf(e) PROVE ChainTypeOK' /\ ChainInv'
  BY <1>5, EnterIfKeeps
<1>6. CASE EnterTry
  BY <1>6, EnterTryKeeps
<1>7. ASSUME NEW arm \in {"handler", "orelse", "final"}, NEW matches \in BOOLEAN, NextArm(arm, matches)
      PROVE  ChainTypeOK' /\ ChainInv'
  BY <1>7, NextArmKeeps
<1>8. CASE End
  BY <1>8, EndKeeps
<1>9. CASE StarImport
  BY <1>9, StarImportKeeps
<1>10. CASE NextModule
  BY <1>10, NextModuleKeeps
<1>11. CASE UNCHANGED vars
  <2>1. ChainTypeOK'
    BY <1>11 DEF vars, ChainTypeOK, RunOK
  <2>2. ChainInv'
    BY <1>11 DEF vars, ChainInv, Followed, ActiveAt, Described, AtHead, Imported, Undoubted
  <2>3. QED
    BY <2>1, <2>2
<1>12. QED
  BY <1>1, <1>2, <1>3, <1>4, <1>5, <1>6, <1>7, <1>8, <1>9, <1>10, <1>11 DEF Next

\* No steps below certain: one literal, no taint, no doubt; and in a complete chain
\* every run has the name.
LEMMA InvMeansCertaintyIsEarned == ChainTypeOK /\ ChainInv => CertaintyIsEarned
<1> SUFFICES ASSUME ChainTypeOK, ChainInv, Complete, NEW n \in Names, Certain(n), NEW r \in runs
             PROVE  n \in DOMAIN r.ns /\ r.ns[n] = Literal(scope[n])
  BY DEF CertaintyIsEarned
<1> DEFINE v == scope[n]
<1>1. n \in DOMAIN scope
  BY DEF Certain, Steps
<1>2. ~IsUnknown(v) /\ ~IsConditional(v) /\ n \notin doubtful /\ ~v.env
  BY <1>1 DEF Certain, Steps
<1>3. WellFormed(v)
  BY <1>1 DEF ChainTypeOK
<1>4. IsLiteral(v)
  <2>1. Cardinality(v.lists) \in Nat /\ Cardinality(v.reasons) \in Nat
    BY <1>3, FS_CardinalityType DEF WellFormed
  <2>2. /\ v.lists = {} <=> Cardinality(v.lists) = 0
        /\ v.reasons = {} <=> Cardinality(v.reasons) = 0
    BY <1>3, FS_EmptySet DEF WellFormed
  <2>3. Branches(v) = 1
    BY <1>2, <1>3, <2>1, <2>2 DEF IsConditional, Branches, WellFormed
  <2>4. QED
    BY <1>2, <2>1, <2>2, <2>3 DEF IsLiteral, IsUnknown, Branches
<1>5. Imported
  BY DEF Complete, Imported, ChainTypeOK
<1>6. n \in DOMAIN r.ns
  BY <1>1, <1>2, <1>5 DEF ChainInv, Undoubted
<1>7. Fits(v, r.ns[n], r) /\ Trusted(v, r)
  BY <1>2, <1>4, <1>6 DEF ChainInv, Described, Trusted
<1>8. QED
  BY <1>3, <1>4, <1>6, <1>7, LiteralsAreExact

\* What is ruled out for a run without the variable is not there.
LEMMA InvMeansSilenceIsSafe == ChainTypeOK /\ ChainInv => SilenceIsSafe
<1> SUFFICES ASSUME ChainTypeOK, ChainInv PROVE SilenceIsSafe
  OBVIOUS
<1>1. NoRunInADiscardedBranch
  BY DiscardedLinesDoNot DEF NoRunInADiscardedBranch, ChainInv
<1>2. \A r \in runs : r.env = {} => \A n \in DOMAIN r.ns : n \in DOMAIN scope /\ CouldBe(scope[n], r.ns[n])
  BY DEF ChainInv, Described, Fits, Trusted
<1>3. QED
  BY <1>1, <1>2 DEF SilenceIsSafe

\* The invariant holds throughout, for authors without the habits.
THEOREM ChainIsDescribed == ASSUME Steady PROVE Spec => [](ChainTypeOK /\ ChainInv)
BY InvInitial, InvKept, PTL DEF Spec

\* A finding at certain confidence about a setting is true of every run of the
\* package that loads, in every deployment: CertaintyIsEarned, for any names,
\* lists and environments, any number of files and statements, and any nesting.
THEOREM CertaintyHolds == ASSUME Steady PROVE Spec => []CertaintyIsEarned
BY ChainIsDescribed, InvMeansCertaintyIsEarned, PTL

\* A rule that is told no by could_be is right about every run in which nobody
\* set the variable, and no run enters a branch that was discarded: SilenceIsSafe.
THEOREM SilenceHolds == ASSUME Steady PROVE Spec => []SilenceIsSafe
BY ChainIsDescribed, InvMeansSilenceIsSafe, PTL

-----------------------------------------------------------------------------
(* A correction holds in the heirs of the file it is about (SettingsRules). *)

\* What a finding that says it is corrected rests on.
Grounded(f) ==
    f.corrected => /\ rule.corrects
                   /\ Leads(f.leader, f.modules)
                   /\ project.role[f.leader] = "base"
                   /\ \A h \in Heirs(f.leader) : Safe(h)

ProjectOK ==
    /\ rule \in Rules
    /\ project.heirs \subseteq Modules \ {Base}
    /\ \A m \in Modules \ {Base} : project.role[m] # "base"

CorrectionInv ==
    /\ ProjectOK
    /\ begun \in BOOLEAN
    /\ ~begun => waiting = {} /\ findings = {}
    /\ \A f \in findings : Grounded(f)

-----------------------------------------------------------------------------
(* The correction of a base holds in its heirs.                            *)

\* A file that reaches production and is no base outweighs one that is.
LEMMA HeirsOutweighTheBase ==
    ASSUME NEW g, NEW m, Leads(m, g), project.role[m] = "base",
           NEW h \in Modules, ReachesProduction(h), project.role[h] # "base"
    PROVE  h \notin g
<1>1. Weight(m) = 1 /\ Weight(h) \in 2 .. 4
  BY DEF Weight, ReachesProduction
<1>2. QED
  BY <1>1 DEF Leads

\* A corrected finding whose grounds still stand is borne out in every module it was reread in.
LEMMA GroundedFindingsHold ==
    ASSUME ProjectOK, NEW f, Grounded(f), f.corrected,
           NEW h \in Heirs(f.leader)
    PROVE  /\ h \notin f.modules
           /\ Value(h).cases \cap rule.some \subseteq {"unknown"}
           /\ ~(Value(h).cases \subseteq rule.every)
<1>1. h \in Modules /\ h # Base /\ ReachesProduction(h) /\ project.role[h] # "base"
  BY DEF Heirs, ProjectOK
<1>2. h \notin f.modules
  BY <1>1, HeirsOutweighTheBase DEF Grounded
<1>3. /\ ~rule.single
      /\ "fine" \notin rule.some \cup rule.every
      /\ rule.every \cap {"unknown", "local"} = {}
  BY CorrectableRulesReadBranches DEF Grounded, ProjectOK
<1>4. Safe(h)
  BY DEF Grounded
<1>5. CASE rule.needs = "role"
  <2>1. Value(h).cases = {"fine"}
    BY <1>4, <1>5 DEF Safe
  <2>2. QED
    BY <1>2, <1>3, <2>1
<1>6. CASE rule.needs # "role"
  <2>1. ~Insecure(Value(h))
    BY <1>4, <1>6 DEF Safe
  <2>2. /\ Value(h).cases \cap rule.some = {}
        /\ ~(Value(h).cases \subseteq rule.every /\ Value(h).cases \notin {{"unknown"}, {"local"}})
    BY <1>3, <2>1 DEF Insecure
  <2>3. Value(h).cases \subseteq rule.every => Value(h).cases \notin {{"unknown"}, {"local"}}
    BY <1>3
  <2>4. QED
    BY <1>2, <2>2, <2>3
<1>7. QED
  BY <1>5, <1>6

\* The invariant says what the property does of every corrected finding.
LEMMA InvariantSuffices == CorrectionInv => CorrectionsHold
<1> SUFFICES ASSUME CorrectionInv, NEW f \in findings, f.corrected, NEW h \in Heirs(f.leader)
             PROVE  /\ h \notin f.modules
                    /\ Value(h).cases \cap rule.some \subseteq {"unknown"}
                    /\ ~(Value(h).cases \subseteq rule.every)
  BY DEF CorrectionsHold
<1> QED
  BY GroundedFindingsHold DEF CorrectionInv

-----------------------------------------------------------------------------
(* The invariant is inductive.                                             *)

\* It holds before anything is written.
LEMMA InitEstablishes == SettingsInit => CorrectionInv
<1> SUFFICES ASSUME SettingsInit PROVE CorrectionInv
  OBVIOUS
<1>1. ProjectOK
  BY OnlyTheBaseIsABase DEF SettingsInit, ProjectOK
<1>2. QED
  BY <1>1 DEF SettingsInit, CorrectionInv

\* What grounds a finding does not move while the project does not.
LEMMA GroundsStay ==
    ASSUME UNCHANGED <<rule, project>>, NEW f, Grounded(f)
    PROVE  Grounded(f)'
<1>1. \A m : Safe(m)' <=> Safe(m)
  BY DEF Safe, Value, Get, Writes, Inherits, Either, IsConditionalValue, Insecure
<1>2. \A m : Heirs(m)' = Heirs(m)
  BY DEF Heirs, ReachesProduction
<1>3. \A m, g : Leads(m, g)' <=> Leads(m, g)
  BY DEF Leads, Weight
<1>4. QED
  BY <1>1, <1>2, <1>3 DEF Grounded

\* Writing a setting makes no finding.
LEMMA WritingPreserves ==
    ASSUME CorrectionInv, NEW s, NEW a, Write(s, a)
    PROVE  CorrectionInv'
BY DEF CorrectionInv, ProjectOK, Write, MayWriteMore

\* Nor does beginning to inspect.
LEMMA BeginningPreserves ==
    ASSUME CorrectionInv, Begin
    PROVE  CorrectionInv'
BY DEF CorrectionInv, ProjectOK, Begin

\* A finding made in the turn of a group is grounded.
LEMMA ReportsAreGrounded ==
    ASSUME ProjectOK, NEW g, NEW m, NEW standing, Report(g, m, standing)
    PROVE  Grounded(Finding(g, m))
<1> DEFINE f == Finding(g, m)
<1>1. f.modules = g /\ f.leader = m /\ (f.corrected <=> Corrected(m))
  BY DEF Finding
<1>2. Leads(m, g)
  BY DEF Report, Turn
<1>3. ASSUME f.corrected
      PROVE  /\ rule.corrects
             /\ project.role[m] = "base"
             /\ \A h \in Heirs(m) : Safe(h)
  BY <1>1, <1>3 DEF Corrected, Overridden
<1>4. QED
  BY <1>1, <1>2, <1>3 DEF Grounded

\* A turn leaves the project alone and adds at most one grounded finding.
LEMMA TurnsPreserve ==
    ASSUME CorrectionInv, NEW g, NEW m, Turn(g, m),
           \A f \in findings' : f \in findings \/ Grounded(f)
    PROVE  CorrectionInv'
<1>1. UNCHANGED <<rule, project, begun>> /\ begun = TRUE /\ waiting' = waiting \ {g}
  BY DEF Turn, IsNext, CorrectionInv
<1>2. \A f \in findings' : Grounded(f)
  BY DEF CorrectionInv
<1>3. \A f \in findings' : Grounded(f)'
  BY <1>1, <1>2, GroundsStay
<1>4. QED
  BY <1>1, <1>3 DEF CorrectionInv, ProjectOK

\* The turn of a group, whichever of its outcomes, leaves every finding grounded.
LEMMA InspectingPreserves ==
    ASSUME CorrectionInv, Inspect
    PROVE  CorrectionInv'
<1>1. PICK g, m :
         \/ NothingInsecure(g, m)
         \/ \E standing \in Standing(m) :
               \/ DoesNotApply(g, m, standing) \/ CannotTell(g, m, standing)
               \/ LeaveToTheHeirs(g, m, standing) \/ Report(g, m, standing)
  BY DEF Inspect
<1>2. Turn(g, m)
  BY <1>1 DEF NothingInsecure, DoesNotApply, CannotTell, LeaveToTheHeirs, Report
<1>3. \A f \in findings' : f \in findings \/ Grounded(f)
  <2>1. CASE UNCHANGED findings
    BY <2>1
  <2>2. ASSUME NEW standing, Report(g, m, standing)
        PROVE  \A f \in findings' : f \in findings \/ Grounded(f)
    <3>1. Grounded(Finding(g, m))
      BY <2>2, ReportsAreGrounded DEF CorrectionInv
    <3>2. findings' = findings \cup {Finding(g, m)}
      BY <2>2 DEF Report
    <3>3. QED
      BY <3>1, <3>2
  <2>3. QED
    BY <1>1, <2>1, <2>2 DEF NothingInsecure, DoesNotApply, CannotTell, LeaveToTheHeirs
<1>4. QED
  BY <1>2, <1>3, TurnsPreserve

\* So every step keeps the invariant.
LEMMA StepPreserves == CorrectionInv /\ [SettingsNext]_settingsVars => CorrectionInv'
<1> SUFFICES ASSUME CorrectionInv, [SettingsNext]_settingsVars
             PROVE  CorrectionInv'
  OBVIOUS
<1>1. CASE MayWriteMore /\ \E s \in Slots(rule) : \E a \in Plain(rule, s[2]) \cup Shaded(rule, s[2]) : Write(s, a)
  BY <1>1, WritingPreserves
<1>2. CASE Begin
  BY <1>2, BeginningPreserves
<1>3. CASE Inspect
  BY <1>3, InspectingPreserves
<1>4. CASE DebugToolingDeployed
  <2>1. UNCHANGED <<rule, project, begun, waiting, findings>>
    BY <1>4 DEF DebugToolingDeployed
  <2>2. \A f \in findings' : Grounded(f)'
    BY <2>1, GroundsStay DEF CorrectionInv
  <2>3. QED
    BY <2>1, <2>2 DEF CorrectionInv, ProjectOK
<1>5. CASE UNCHANGED settingsVars
  <2>1. UNCHANGED <<rule, project, begun, waiting, findings>>
    BY <1>5 DEF settingsVars
  <2>2. \A f \in findings' : Grounded(f)'
    BY <2>1, GroundsStay DEF CorrectionInv
  <2>3. QED
    BY <2>1, <2>2 DEF CorrectionInv, ProjectOK
<1>6. QED
  BY <1>1, <1>2, <1>3, <1>4, <1>5 DEF SettingsNext

\* A finding toned down because the heirs of a base correct it is right about
\* every one of them, however many there are: SettingsRule.overridden asks the
\* value each heir resolves to, and the heirs are never graded with the base.
THEOREM CorrectionsAreReal == SettingsSpec => []CorrectionsHold
<1>1. SettingsInit => CorrectionInv
  BY InitEstablishes
<1>2. CorrectionInv /\ [SettingsNext]_settingsVars => CorrectionInv'
  BY StepPreserves
<1>3. CorrectionInv => CorrectionsHold
  BY InvariantSuffices
<1>4. QED
  BY <1>1, <1>2, <1>3, PTL DEF SettingsSpec

-----------------------------------------------------------------------------
(* Serializers.                                                              *)

Serializers == {"base", "child", "other"}
Meta == [own : BOOLEAN, extends : BOOLEAN, mode : {"unset", "explicit", "exclude", "all"},
         names : SUBSET (Column_names \cup UNION Listings), read_only_fields : SUBSET Column_names,
         read : SUBSET Column_names, write : SUBSET Column_names, depth : {0, 1}]

SerializersTypeOK ==
  /\ body \in [Serializers -> [Column_names -> Fields \cup Nested \cup {NotWritten, Is("None")}]]
  /\ meta \in [Serializers -> Meta]
  /\ fixed \subseteq Column_names

\* "other" stays as it was given: it declares no field, and its Meta is its own,
\* lists what it lists, and says nothing of depth.  A serializer has written
\* nothing in a Meta it does not have, and the base has nobody to extend.
SerializersInv ==
  /\ SerializersTypeOK
  /\ \A n \in Column_names : body["other"][n] = NotWritten
  /\ meta["other"].own /\ ~meta["other"].extends /\ meta["other"].mode \in {"explicit", "all"}
  /\ \A c \in Serializers : ~meta[c].own => meta[c].mode = "unset"
  /\ ~meta["base"].extends

\* The serializers that are given are of the invariant.
LEMMA SerializersBegin == SerializersInit => SerializersInv
<1> SUFFICES ASSUME SerializersInit
             PROVE  SerializersInv
  OBVIOUS
<1>1. PICK shape \in {Shape({"password"}, {}), Shape({"password"}, {"password"}), Shape({"is_staff"}, {}), OpenShape} :
        meta = [c \in Serializers |-> IF c = "other" THEN shape ELSE NoMeta]
  BY DEF SerializersInit, Serializers
<1>2. {"password"} \subseteq Column_names /\ {"is_staff"} \subseteq Column_names
  BY DEF Column_names, SECRET_FIELDS, PRIVILEGE_FIELDS
<1>3. shape \in Meta /\ shape.own /\ ~shape.extends /\ shape.mode \in {"explicit", "all"}
  <2>1. ASSUME NEW names \in SUBSET Column_names, NEW write \in SUBSET Column_names
        PROVE  Shape(names, write) \in Meta
    BY DEF Meta, Shape, NoMeta
  <2>2. OpenShape \in Meta /\ OpenShape.own /\ ~OpenShape.extends /\ OpenShape.mode = "all"
    BY DEF Meta, OpenShape, NoMeta
  <2>3. ASSUME NEW names \in SUBSET Column_names, NEW write \in SUBSET Column_names
        PROVE  Shape(names, write).own /\ ~Shape(names, write).extends /\ Shape(names, write).mode = "explicit"
    BY DEF Shape, NoMeta
  <2>4. CASE shape = OpenShape
    BY <2>2, <2>4
  <2>5. CASE \E names, write \in SUBSET Column_names : shape = Shape(names, write)
    BY <2>1, <2>3, <2>5
  <2>6. QED
    BY <1>1, <1>2, <2>4, <2>5
<1>4. NoMeta \in Meta /\ ~NoMeta.extends /\ NoMeta.mode = "unset"
  BY DEF Meta, NoMeta
<1>5. fixed \subseteq Column_names /\ body = [c \in Serializers |-> [n \in Column_names |-> NotWritten]]
  BY DEF SerializersInit, Serializers, Column_names
<1>6. QED
  BY <1>1, <1>3, <1>4, <1>5 DEF SerializersInv, SerializersTypeOK, Serializers

\* A field is written in the body of the base or of the child.
LEMMA FieldsKeep ==
    ASSUME SerializersInv, NEW c \in {"base", "child"}, NEW n \in Column_names, WriteField(c, n)
    PROVE  SerializersInv'
<1>1. PICK d \in Fields \cup Nested \cup {Is("None")} : body' = [body EXCEPT ![c][n] = d]
  BY DEF WriteField
<1>2. UNCHANGED <<meta, fixed>>
  BY DEF WriteField, Author
<1>3. QED
  BY <1>1, <1>2 DEF SerializersInv, SerializersTypeOK, Serializers

\* The options of a Meta are written in the base or in the child, by one that has a Meta.
LEMMA OptionsKeep ==
    ASSUME SerializersInv, NEW c \in {"base", "child"},
           WriteMeta(c) \/ WriteReadOnlyFields(c) \/ WriteExtraKwargs(c) \/ WriteDepth(c)
    PROVE  SerializersInv'
<1> USE DEF SerializersInv, SerializersTypeOK, Serializers
<1>1. UNCHANGED <<body, fixed>>
  BY DEF WriteMeta, WriteReadOnlyFields, WriteExtraKwargs, WriteDepth, Author
<1>2. CASE WriteMeta(c)
  <2>1. PICK extends \in {FALSE} \cup {meta[p].own : p \in Parent(c)},
             mode \in {"explicit", "exclude", "all", "unset"}, names \in Listings \cup {{}} :
          /\ names = {} <=> mode \in {"all", "unset"}
          /\ mode = "exclude" => Cardinality(names) = 1
          /\ mode = "unset" => extends
          /\ meta' = [meta EXCEPT ![c] = [NoMeta EXCEPT !.own = TRUE, !.extends = extends, !.mode = mode, !.names = names]]
    BY <1>2, Zenon DEF WriteMeta
  <2>2. extends \in BOOLEAN /\ (c = "base" => ~extends)
    BY <2>1 DEF Parent, Meta
  <2>3. [NoMeta EXCEPT !.own = TRUE, !.extends = extends, !.mode = mode, !.names = names] \in Meta
    BY <2>1, <2>2 DEF Meta, NoMeta
  <2>4. QED
    BY <1>1, <2>1, <2>2, <2>3 DEF NoMeta
<1>3. CASE WriteReadOnlyFields(c)
  BY <1>1, <1>3 DEF WriteReadOnlyFields, Meta
<1>4. CASE WriteExtraKwargs(c)
  BY <1>1, <1>4 DEF WriteExtraKwargs, Meta
<1>5. CASE WriteDepth(c)
  BY <1>1, <1>5 DEF WriteDepth, Meta
<1>6. QED
  BY <1>2, <1>3, <1>4, <1>5

\* Writing fields and options, a part at a time, keeps what is written well formed.
LEMMA SerializersKeep == SerializersInv /\ [SerializersNext]_serializerVars => SerializersInv'
<1> SUFFICES ASSUME SerializersInv, [SerializersNext]_serializerVars
             PROVE  SerializersInv'
  OBVIOUS
<1>1. CASE SerializersNext
  BY <1>1, FieldsKeep, OptionsKeep DEF SerializersNext
<1>2. CASE UNCHANGED serializerVars
  BY <1>2 DEF serializerVars, SerializersInv, SerializersTypeOK
<1>3. QED
  BY <1>1, <1>2

-----------------------------------------------------------------------------
(* How a serializer is read.                                                 *)

\* The serializers that the rules are asked about.
Asked(c) == c \in {"base", "child"} /\ ~ListInherited(c) /\ ~HalfInherited(c)

\* A judged serializer has a Meta of its own, and the framework reads that one.
LEMMA JudgedByItsMeta ==
    ASSUME SerializersInv, NEW c, Asked(c)
    PROVE  meta[c].own /\ MetaOf(c) = meta[c] /\ meta[c].mode \in {"explicit", "exclude", "all"}
BY DEF Asked, ListInherited, HalfInherited, SerializersInv, SerializersTypeOK, Serializers, Meta

\* Nearest declaration wins, as it does for the framework where None takes nothing back.
LEMMA DeclaredAsCollected ==
    ASSUME SerializersInv, NEW c \in Serializers, NEW n \in Column_names, ~Removed(c, n)
    PROVE  declared(c, n) = Collected(c, n) /\ (declares(c, n) <=> Explicit(c, n))
<1>1. body[c][n] \in Fields \cup Nested \cup {NotWritten, Is("None")}
  BY DEF SerializersInv, SerializersTypeOK
<1>2. IsField(body[c][n]) \/ body[c][n] = NotWritten
  BY <1>1 DEF Fields, Nested, IsField, Is, NotWritten, Removed
<1>3. declared(c, n) = Collected(c, n)
  <2>1. ~IsField(NotWritten)
    BY DEF IsField, NotWritten
  <2>2. CASE IsField(body[c][n])
    BY <2>1, <2>2 DEF declared, Collected
  <2>3. CASE body[c][n] = NotWritten
    BY <2>1, <2>3 DEF declared, Collected
  <2>4. QED
    BY <1>2, <2>2, <2>3
<1>4. QED
  BY <1>3 DEF declares, Explicit

\* A response of a list that is spelled out holds what the rules take it to hold.
LEMMA WriteOnlyIsHidden ==
    ASSUME SerializersInv, NEW c \in Serializers, NEW n \in Column_names, MetaOf(c) = meta[c],
           ~Removed(c, n), ~Overruled(c, n)
    PROVE  HidesValue(c, n) <=> is_write_only(c, n) \/ (Explicit(c, n) /\ Collected(c, n).kind = "HiddenField")
BY DeclaredAsCollected DEF HidesValue, is_write_only, Overruled

\* The serializer that is nested is judged as it is read.
LEMMA OtherIsNamed ==
    ASSUME SerializersInv, NEW f \in SECRET_FIELDS
    PROVE  f \in Returned("other") => NamedAt("other", f)
<1>1. MetaOf("other") = meta["other"] /\ ~meta_inherited("other") /\ f \in Column_names
  BY DEF SerializersInv, MetaOf, meta_inherited, Column_names
<1>2. body["other"][f] = NotWritten /\ Parent("other") = {}
  BY <1>1 DEF SerializersInv, Parent
<1>3. ~IsField(NotWritten)
  BY DEF IsField, NotWritten
<1>4. ~Explicit("other", f)
  BY <1>2, <1>3 DEF Explicit, Collected
<1>5. ~declares("other", f)
  BY <1>2, <1>3 DEF declares, declared
<1>6. HidesValue("other", f) <=> is_write_only("other", f)
  BY <1>1, <1>4, <1>5 DEF HidesValue, is_write_only
<1>7. CASE meta["other"].mode = "all"
  BY <1>1, <1>7 DEF NamedAt, OpenFieldList
<1>8. CASE meta["other"].mode = "explicit"
  BY <1>1, <1>6, <1>8 DEF NamedAt, SensitiveField, Returned, Rendering, fields
<1>9. QED
  BY <1>7, <1>8 DEF SerializersInv

-----------------------------------------------------------------------------
\* ResponsesAreJudged, of one serializer and one name.
LEMMA ResponseJudged ==
    ASSUME SerializersInv, NEW c, Asked(c), NEW n \in Column_names, ~Overruled(c, n), ~Removed(c, n)
    PROVE  /\ n \in Returned(c) \cap (SECRET_FIELDS \cup PRIVILEGE_FIELDS) => NamedAt(c, n)
           /\ n \in Returned(c) => \A f \in Under(c, n) \cap SECRET_FIELDS : NamedUnder(c, n, f)
           /\ SensitiveField(c, n) => n \in Returned(c) \/ Collected(c, n).kind = "HiddenField"
           /\ \A f \in SECRET_FIELDS : NestedSensitiveField(c, n, f) =>
                \/ (n \in Returned(c) /\ f \in Under(c, n))
                \/ Explicit(c, n) \/ n \notin Rendering(c) \/ HidesValue(c, n)
<1>1. c \in Serializers /\ meta[c].own /\ ~meta_inherited(c) /\ MetaOf(c) = meta[c]
  BY JudgedByItsMeta DEF Asked, Serializers, meta_inherited
<1>2. declared(c, n) = Collected(c, n) /\ (declares(c, n) <=> Explicit(c, n))
  BY <1>1, DeclaredAsCollected
<1>3. HidesValue(c, n) <=> is_write_only(c, n) \/ (Explicit(c, n) /\ Collected(c, n).kind = "HiddenField")
  BY <1>1, WriteOnlyIsHidden
<1>4. \/ OpenFieldList(c) \/ ExcludeFieldList(c)
      \/ meta[c].mode = "explicit" /\ fields(c) = meta[c].names /\ Rendering(c) = fields(c)
  BY <1>1, JudgedByItsMeta DEF OpenFieldList, ExcludeFieldList, fields, Rendering
<1>5. n \in Returned(c) \cap (SECRET_FIELDS \cup PRIVILEGE_FIELDS) => NamedAt(c, n)
  BY <1>1, <1>3, <1>4 DEF NamedAt, SensitiveField, Returned
<1>6. ASSUME n \in Returned(c), NEW f \in Under(c, n) \cap SECRET_FIELDS
      PROVE  NamedUnder(c, n, f)
  <2>1. CASE OpenFieldList(c) \/ ExcludeFieldList(c)
    BY <2>1 DEF NamedUnder
  <2>2. CASE Explicit(c, n) /\ Collected(c, n).kind = "OtherSerializer"
    BY <1>6, <2>2, OtherIsNamed DEF Under, NamedUnder
  <2>3. CASE Expands(c, n) /\ n \in fields(c)
    <3>1. f \in Expanded(n)
      BY <1>6, <2>3 DEF Under, Expands
    <3>2. NestedSensitiveField(c, n, f)
      BY <1>1, <2>3, <3>1 DEF NestedSensitiveField, by_depth, Expands
    <3>3. QED
      BY <3>2 DEF NamedUnder
  <2>4. QED
    BY <1>4, <1>6, <2>1, <2>2, <2>3 DEF Under, Returned
<1>7. SensitiveField(c, n) => n \in Returned(c) \/ Collected(c, n).kind = "HiddenField"
  BY <1>1, <1>3 DEF SensitiveField, Returned, Rendering, fields
<1>8. ASSUME NEW f \in SECRET_FIELDS, NestedSensitiveField(c, n, f), ~Explicit(c, n),
             n \in Rendering(c), ~HidesValue(c, n)
      PROVE  n \in Returned(c) /\ f \in Under(c, n)
  <2>1. ~Nesting(c, n, f)
    BY <1>2, <1>8 DEF Nesting, declares, IsField
  <2>2. by_depth(c, n, f)
    BY <1>8, <2>1 DEF NestedSensitiveField
  <2>3. Expands(c, n)
    BY <1>1, <1>8, <2>2 DEF by_depth, Expands
  <2>4. QED
    BY <1>8, <2>2, <2>3 DEF by_depth, Returned, Under
<1>9. QED
  BY <1>5, <1>6, <1>7, <1>8

\* OwnersAreJudged, of one serializer and one name.
LEMMA OwnerJudged ==
    ASSUME SerializersInv, NEW c, Asked(c), NEW n \in OWNERSHIP_FIELDS, ~Overruled(c, n), ~Removed(c, n)
    PROVE  /\ Accepts(c, n) => \/ WritableOwnership(c, n) \/ OpenFieldList(c) \/ ExcludeFieldList(c)
                               \/ (Explicit(c, n) /\ n \in fixed)
           /\ WritableOwnership(c, n) => \/ Accepts(c, n) \/ Collected(c, n).kind = "ReadOnlyField"
                                         \/ Expands(c, n)
<1>1. c \in Serializers /\ meta[c].own /\ ~meta_inherited(c) /\ MetaOf(c) = meta[c] /\ n \in Column_names
  BY JudgedByItsMeta DEF Asked, Serializers, meta_inherited, Column_names
<1>2. declared(c, n) = Collected(c, n) /\ (declares(c, n) <=> Explicit(c, n))
  BY <1>1, DeclaredAsCollected
<1>3. \/ OpenFieldList(c) \/ ExcludeFieldList(c)
      \/ meta[c].mode = "explicit" /\ fields(c) = meta[c].names /\ Rendering(c) = fields(c)
  BY <1>1, JudgedByItsMeta DEF OpenFieldList, ExcludeFieldList, fields, Rendering
<1>4. CASE Explicit(c, n)
  <2>1. RefusesWrites(c, n) <=> is_read_only(c, n) \/ Collected(c, n).kind = "ReadOnlyField"
    BY <1>1, <1>2, <1>4 DEF RefusesWrites, is_read_only, Overruled
  <2>2. QED
    BY <1>1, <1>2, <1>3, <1>4, <2>1 DEF Accepts, WritableOwnership, unwritable, Rendering, fields
<1>5. CASE ~Explicit(c, n)
  <2>1. RefusesWrites(c, n) <=> is_read_only(c, n) \/ n \in fixed \/ Expands(c, n)
    BY <1>1, <1>2, <1>5 DEF RefusesWrites, is_read_only
  <2>2. QED
    BY <1>1, <1>2, <1>3, <1>5, <2>1 DEF Accepts, WritableOwnership, unwritable, Rendering, fields
<1>6. QED
  BY <1>4, <1>5

\* Of three serializers that are well formed, both halves of the property hold.
LEMMA InvMeansSerializersAreJudged == SerializersInv => SerializersAreJudged
BY ResponseJudged, OwnerJudged DEF SerializersAreJudged, ResponsesAreJudged, OwnersAreJudged, Asked

\* Whatever is written of three serializers, with whatever listings and however
\* much of it, DJA-008 to DJA-012 (rules/serialization.py) name what a response holds
\* of a secret and what a request may set of an owner, and only that.
THEOREM SerializersHold == SerializersSpec => []SerializersAreJudged
<1>1. SerializersInit => SerializersInv
  BY SerializersBegin
<1>2. SerializersInv /\ [SerializersNext]_serializerVars => SerializersInv'
  BY SerializersKeep
<1>3. SerializersInv => SerializersAreJudged
  BY InvMeansSerializersAreJudged
<1>4. QED
  BY <1>1, <1>2, <1>3, PTL DEF SerializersSpec

-----------------------------------------------------------------------------
(* Endpoints.                                                              *)

\* What the rules say depends on what is written, and on nothing else.
LEMMA RulesReadTheSite ==
    ASSUME site' = site
    PROVE  ViewRules' = ViewRules
<1>1. Classes' = Classes
  BY DEF Classes
<1>2. \A w, n : /\ Declares(w, n)' <=> Declares(w, n)
                /\ Declared(w, n)' = Declared(w, n)
  BY DEF Declares, Declared
<1>3. \A n : Declarer(n)' = Declarer(n)
  BY <1>1, <1>2 DEF Declarer
<1>4. \A n : Refs(n)' = Refs(n)
  BY <1>2, <1>3 DEF Refs
<1>5. \A n : Overrides(n)' <=> Overrides(n)
  BY <1>1, <1>2 DEF Overrides
<1>6. Endpoints' = Endpoints
  BY <1>2 DEF Endpoints, HasExtra, Extra
<1>7. (Mutating' <=> Mutating) /\ (IsList' <=> IsList)
  BY <1>6 DEF Mutating, MethodsFor, IsList
<1>8. (PaginationDisabled' <=> PaginationDisabled) /\ (PaginationRef' <=> PaginationRef)
  BY <1>1, <1>2 DEF PaginationDisabled, PaginationRef
<1>9. /\ DefaultPermissions' = DefaultPermissions /\ (DefaultsUnreadable' <=> DefaultsUnreadable)
      /\ DefaultThrottles' = DefaultThrottles /\ Rated' = Rated
      /\ (DefaultIsSized' <=> DefaultIsSized)
  BY <1>2 DEF DefaultPermissions, DefaultsUnreadable, DefaultThrottles, Rated, DefaultPagination, DefaultIsSized
<1>10. Guard' = Guard
  BY <1>2, <1>3, <1>4, <1>5, <1>9 DEF Guard
<1>11. (IsOpen' <=> IsOpen) /\ (FromDefault' <=> FromDefault)
  BY <1>10 DEF IsOpen, FromDefault
<1>12. (Scoped' <=> Scoped) /\ (ThrottleScope' <=> ThrottleScope) /\ Throttles' = Throttles
  BY <1>2, <1>3, <1>4, <1>9 DEF Scoped, ThrottleScope, Throttles
<1>13. UnthrottledBecause' <=> UnthrottledBecause
  BY <1>9, <1>12 DEF UnthrottledBecause
<1>14. /\ PermissiveDefaultPermissions' = PermissiveDefaultPermissions
       /\ EndpointWithoutPermissions' = EndpointWithoutPermissions
       /\ OpenWritableEndpoint' = OpenWritableEndpoint
       /\ NoAuthenticationConfigured' = NoAuthenticationConfigured
  BY <1>3, <1>7, <1>9, <1>10, <1>11 DEF PermissiveDefaultPermissions, EndpointWithoutPermissions,
     OpenWritableEndpoint, NoAuthenticationConfigured
<1>15. /\ UnprotectedFunctionView' = UnprotectedFunctionView
       /\ UnboundedByDefault' = UnboundedByDefault
       /\ UnboundedListEndpoint' = UnboundedListEndpoint
       /\ UnthrottledCredentialEndpoint' = UnthrottledCredentialEndpoint
  BY <1>2, <1>7, <1>8, <1>9, <1>10, <1>11, <1>12, <1>13 DEF UnprotectedFunctionView, UnboundedByDefault,
     UnboundedListEndpoint, UnthrottledCredentialEndpoint
<1>16. QED
  BY <1>14, <1>15 DEF ViewRules

-----------------------------------------------------------------------------
(* The site that the authors write.                                        *)

\* The authors have no habit but the one that the rules about access follow: a
\* project default that cannot be read leaves the guard uncertain.
HabitsAreFollowed == ApiHabits \subseteq {"computed default"}

\* What is written is of what can be, and is judged once, by every rule.
ApiInv ==
  /\ site = [routing |-> site.routing, handlers |-> site.handlers, declared |-> site.declared]
  /\ site.routing \in {"router", "path", "function"}
  /\ site.handlers \in (SUBSET Methods) \ {{}}
  /\ \A s \in DOMAIN site.declared : s \in Places /\ site.declared[s] \in Declarable(s[1], s[2])
  /\ audited \in BOOLEAN
  /\ apiReports = IF audited THEN ViewRules ELSE {}

\* A site of which nothing is declared, routed in any of the ways, is well formed.
LEMMA SiteBegins == ApiInit => ApiInv
<1> SUFFICES ASSUME ApiInit
             PROVE  ApiInv
  OBVIOUS
<1>1. /\ site = [routing |-> site.routing, handlers |-> site.handlers, declared |-> site.declared]
      /\ site.routing \in {"router", "path", "function"} /\ site.handlers \in (SUBSET Methods) \ {{}}
      /\ DOMAIN site.declared = {}
  BY RoutingsAreKnown DEF ApiInit
<1>2. QED
  BY <1>1 DEF ApiInit, ApiInv

\* Declaring and auditing keep it so.
LEMMA SiteKeeps == ApiInv /\ [ApiNext]_apiVars => ApiInv'
<1> SUFFICES ASSUME ApiInv, [ApiNext]_apiVars
             PROVE  ApiInv'
  OBVIOUS
<1>1. ASSUME NEW slot \in Places, NEW what \in Declarable(slot[1], slot[2]), Declare(slot, what)
      PROVE  ApiInv'
  <2> DEFINE after == [s \in DOMAIN site.declared \cup {slot} |-> IF s = slot THEN what ELSE site.declared[s]]
  <2>1. /\ site' = [site EXCEPT !.declared = after]
        /\ ~audited /\ audited' = audited /\ apiReports' = apiReports
    BY <1>1 DEF Declare
  <2>2. \A s \in DOMAIN after : s \in Places /\ after[s] \in Declarable(s[1], s[2])
    BY <1>1 DEF ApiInv
  <2> HIDE DEF after
  <2>3. site' = [routing |-> site.routing, handlers |-> site.handlers, declared |-> after]
    BY <2>1 DEF ApiInv
  <2>4. /\ site'.routing = site.routing /\ site'.handlers = site.handlers /\ site'.declared = after
        /\ site' = [routing |-> site'.routing, handlers |-> site'.handlers, declared |-> site'.declared]
    BY <2>3
  <2>5. Places' = Places /\ \A w, n : Declarable(w, n)' = Declarable(w, n)
    BY <2>4 DEF Places, Declarable, PermissionLists, Computed
  <2>6. QED
    BY <2>1, <2>2, <2>4, <2>5 DEF ApiInv
<1>2. ASSUME site' = site
      PROVE  Places' = Places /\ \A w, n : Declarable(w, n)' = Declarable(w, n)
  BY <1>2 DEF Places, Declarable, PermissionLists, Computed
<1>3. CASE Audit
  <2>1. site' = site /\ audited' = TRUE /\ apiReports' = ViewRules
    BY <1>3 DEF Audit
  <2>2. ViewRules' = ViewRules
    BY <2>1, RulesReadTheSite
  <2>3. QED
    BY <1>2, <2>1, <2>2 DEF ApiInv
<1>4. CASE UNCHANGED apiVars
  <2>1. site' = site /\ audited' = audited /\ apiReports' = apiReports
    BY <1>4 DEF apiVars
  <2>2. ViewRules' = ViewRules
    BY <2>1, RulesReadTheSite
  <2>3. QED
    BY <1>2, <2>1, <2>2 DEF ApiInv
<1>5. QED
  BY <1>1, <1>3, <1>4 DEF ApiNext

\* The lists of permission classes that plain authors write.
LEMMA ListsAre ==
    ASSUME ApiInv, HabitsAreFollowed
    PROVE  PermissionLists =
             {{}, {"AllowAny"}, {"Bare"}, {"IsAuthenticatedOrReadOnly"}, {"IsAuthenticated"}, {"IsAdminUser"},
              {"Narrowed"}, {"Reopened"}, {"IsAuthenticated", UNREADABLE}}
               \cup (IF site.routing # "function" THEN {{UNREADABLE}} ELSE {})
BY DEF HabitsAreFollowed, PermissionLists, Computed

\* What a place declares is one of the things that can be declared there.
LEMMA WrittenIs ==
    ASSUME ApiInv, NEW w, NEW n, Declares(w, n)
    PROVE  <<w, n>> \in Places /\ Declared(w, n) \in Declarable(w, n)
BY DEF ApiInv, Declares, Declared

\* What is found of each attribute.
LEMMA AttributesAre ==
    ASSUME ApiInv, HabitsAreFollowed, NEW w \in {"view", "parent"}
    PROVE  /\ Declares(w, "permission_classes") => Declared(w, "permission_classes") \in PermissionLists
           /\ Declares(w, "authentication_classes") =>
                \/ Declared(w, "authentication_classes") \in {{}, {"session"}}
                \/ site.routing # "function" /\ Declared(w, "authentication_classes") = {UNREADABLE}
           /\ Declares(w, "pagination_class") => Declared(w, "pagination_class") \in {"None", "sized"}
           /\ Declares(w, "throttle_classes") => Declared(w, "throttle_classes") \in {{}, {"scoped"}, {"rate"}}
<1>1. \A n : Declares(w, n) => Declared(w, n) \in Declarable(w, n)
  BY WrittenIs
<1>2. Declarable(w, "permission_classes") = PermissionLists
  BY DEF Declarable
<1>3. Declarable(w, "authentication_classes") = {{}, {"session"}} \cup Computed
  BY DEF Declarable
<1>4. Declarable(w, "pagination_class") = {"None", "sized"}
  BY DEF Declarable, HabitsAreFollowed
<1>5. Declarable(w, "throttle_classes") = {{}, {"scoped"}, {"rate"}}
  BY DEF Declarable
<1>6. Computed = IF site.routing # "function" THEN {{UNREADABLE}} ELSE {}
  BY DEF Computed, HabitsAreFollowed
<1>7. QED
  BY <1>1, <1>2, <1>3, <1>4, <1>5, <1>6

\* What the settings may declare.
LEMMA SettingsAre ==
    ASSUME ApiInv, HabitsAreFollowed
    PROVE  /\ Declares("settings", "permissions") =>
                Declared("settings", "permissions") \in
                  {{}, {"AllowAny"}, {"IsAuthenticated"}, {"Reopened"}, {UNREADABLE}}
           /\ Declares("settings", "pagination") => Declared("settings", "pagination") \in {"sized", "own size"}
           /\ Declares("settings", "throttles") => Declared("settings", "throttles") \in {{"scoped"}, {"rate"}}
           /\ Declares("settings", "rates") => Declared("settings", "rates") \in {{"anon"}, {"view scope"}}
           /\ HasExtra => Extra.method \in Methods /\ Extra.permissions = Unset
<1>1. \A w, n : Declares(w, n) => Declared(w, n) \in Declarable(w, n)
  BY WrittenIs
<1>2. Declarable("settings", "permissions") \in
        SUBSET {{}, {"AllowAny"}, {"IsAuthenticated"}, {"Reopened"}, {UNREADABLE}}
  BY DEF Declarable
<1>3. Declarable("settings", "pagination") = {"sized", "own size"}
  BY DEF Declarable
<1>4. Declarable("settings", "throttles") = {{"scoped"}, {"rate"}}
  BY DEF Declarable
<1>5. Declarable("settings", "rates") = {{"anon"}, {"view scope"}}
  BY DEF Declarable
<1>6. Declarable("view", "action") = [method : Methods, permissions : {Unset}]
  BY DEF Declarable, HabitsAreFollowed
<1>7. HasExtra => Extra.method \in Methods /\ Extra.permissions = Unset
  <2>1. HasExtra => Extra \in [method : Methods, permissions : {Unset}]
    BY <1>1, <1>6 DEF HasExtra, Extra
  <2>2. QED
    BY <2>1
<1>8. Declares("settings", "permissions") =>
        Declared("settings", "permissions") \in
          {{}, {"AllowAny"}, {"IsAuthenticated"}, {"Reopened"}, {UNREADABLE}}
  BY <1>1, <1>2, Zenon
<1>9. QED
  BY <1>1, <1>3, <1>4, <1>5, <1>7, <1>8

\* A function has no ancestor, and no attributes of a class.
LEMMA FunctionsAre ==
    ASSUME ApiInv, site.routing = "function"
    PROVE  /\ \A n : ~Declares("parent", n)
           /\ \A n \in {"get_permissions", "throttle_scope", "pagination_class", "get_authenticators", "queryset"} :
                ~Declares("view", n)
<1>1. \A w, n : Declares(w, n) => <<w, n>> \in Places
  BY WrittenIs
<1>2. \A w, n : <<w, n>> \in Places =>
        /\ w # "parent"
        /\ w = "view" => n \in (Attributes \ {"get_permissions", "throttle_scope"}) \cup {"credentials"}
  BY DEF Places
<1>3. QED
  BY <1>1, <1>2 DEF Attributes

-----------------------------------------------------------------------------
(* Permission classes.                                                     *)

\* What the largest and the smallest of a set are.
LEMMA MaxIs ==
    ASSUME NEW S \in SUBSET Int, NEW x \in S, \A y \in S : x >= y
    PROVE  Max(S) = x
<1>1. \A z \in S : (\A y \in S : z >= y) => z = x
  OBVIOUS
<1>2. Max(S) \in S /\ \A y \in S : Max(S) >= y
  BY DEF Max
<1>3. QED
  BY <1>1, <1>2

\* The least of a set is the member that is below every other.
LEMMA MinIs ==
    ASSUME NEW S \in SUBSET Int, NEW x \in S, \A y \in S : x <= y
    PROVE  Min(S) = x
<1>1. \A z \in S : (\A y \in S : z <= y) => z = x
  OBVIOUS
<1>2. Min(S) \in S /\ \A y \in S : Min(S) <= y
  BY DEF Min
<1>3. QED
  BY <1>1, <1>2

\* The class that declares an attribute is the one that provides it.
LEMMA DeclarersProvide ==
    ASSUME ApiInv, NEW n
    PROVE  Declarer(n) = Provider(n)
<1> DEFINE at == {k \in DOMAIN Classes : Declares(Classes[k], n)}
<1>1. CASE site.routing = "function"
  <2>1. Classes = <<"view">> /\ ~Declares("parent", n)
    BY <1>1, FunctionsAre DEF Classes
  <2>2. at = IF Declares("view", n) THEN {1} ELSE {}
    BY <2>1
  <2>3. Min({1}) = 1
    BY MinIs
  <2> HIDE DEF at
  <2>4. Declarer(n) = IF at = {} THEN Nobody ELSE Classes[Min(at)]
    BY DEF Declarer, at
  <2>5. QED
    BY <2>1, <2>2, <2>3, <2>4 DEF Provider
<1>2. CASE site.routing # "function"
  <2>1. Classes = <<"view", "parent">>
    BY <1>2 DEF Classes
  <2>2. at = {k \in {1, 2} : IF k = 1 THEN Declares("view", n) ELSE Declares("parent", n)}
    BY <2>1
  <2>3. Min({1}) = 1 /\ Min({2}) = 2 /\ Min({1, 2}) = 1
    BY MinIs
  <2>4. at = IF Declares("view", n) THEN IF Declares("parent", n) THEN {1, 2} ELSE {1}
             ELSE IF Declares("parent", n) THEN {2} ELSE {}
    BY <2>2
  <2> HIDE DEF at
  <2>5. Declarer(n) = IF at = {} THEN Nobody ELSE Classes[Min(at)]
    BY DEF Declarer, at
  <2>6. QED
    BY <1>2, <2>1, <2>3, <2>4, <2>5 DEF Provider
<1>3. QED
  BY <1>1, <1>2

ClassesKnown == {"AllowAny", "Bare", "IsAuthenticatedOrReadOnly", "IsAuthenticated", "IsAdminUser",
                 "Narrowed", "Reopened", UNREADABLE}
Framework == {"AllowAny", "IsAuthenticated", "IsAdminUser", "IsAuthenticatedOrReadOnly"}

\* The classes the framework brings, as DRF_PERMISSIONS reads them.
LEMMA FrameworkIs ==
    /\ DOMAIN DRF_PERMISSIONS = Framework \cup {"BasePermission"}
    /\ DRF_PERMISSIONS["AllowAny"] = OPEN /\ DRF_PERMISSIONS["IsAuthenticated"] = AUTHENTICATED
    /\ DRF_PERMISSIONS["IsAdminUser"] = STAFF /\ DRF_PERMISSIONS["IsAuthenticatedOrReadOnly"] = READ_OPEN
    /\ DRF_PERMISSIONS["BasePermission"] = OPEN
    /\ UNREADABLE \notin DOMAIN DRF_PERMISSIONS
    /\ {"Bare", "Narrowed", "Reopened"} \cap DOMAIN DRF_PERMISSIONS = {}
    /\ UNREADABLE \notin {"Bare", "Narrowed", "Reopened"}
BY DEF DRF_PERMISSIONS, Framework, UNREADABLE

\* What a permission class is taken to ask for.
LEMMA ClassifiedAs ==
    /\ Classify("AllowAny") = OPEN /\ Classify("IsAuthenticatedOrReadOnly") = READ_OPEN
    /\ Classify("IsAuthenticated") = AUTHENTICATED /\ Classify("IsAdminUser") = STAFF
    /\ Classify(UNREADABLE) = UNKNOWN
    /\ Classify("Bare") = OPEN /\ Classify("Narrowed") = AUTHENTICATED /\ Classify("Reopened") = UNKNOWN
<1>1. \A r \in Framework : Classify(r) = DRF_PERMISSIONS[r]
  BY FrameworkIs DEF Classify
<1>2. Classify(UNREADABLE) = UNKNOWN
  BY FrameworkIs DEF Classify
<1> DEFINE stops(r) == {k \in DOMAIN Lineage[r] : Lineage[r][k].method = "deciding" \/ Lineage[r][k].base # "none"}
           stop(r) == Lineage[r][Min(stops(r))]
<1>3. \A r \in {"Bare", "Narrowed", "Reopened"} :
        Classify(r) = IF stop(r).method = "deciding" THEN UNKNOWN ELSE DRF_PERMISSIONS[stop(r).base]
  BY FrameworkIs DEF Classify
<1>4. stop("Bare").method = "none" /\ stop("Bare").base = "BasePermission"
  <2>1. Lineage["Bare"] = <<Link("BasePermission", "none")>>
    BY DEF Lineage
  <2>2. stops("Bare") = {1}
    BY <2>1 DEF Link
  <2>3. Min({1}) = 1
    BY MinIs
  <2>4. QED
    BY <2>1, <2>2, <2>3 DEF Link
<1>5. stop("Narrowed").method = "none" /\ stop("Narrowed").base = "IsAuthenticated"
  <2>1. Lineage["Narrowed"] = <<Link("none", "narrowing"), Link("IsAuthenticated", "none")>>
    BY DEF Lineage
  <2>2. stops("Narrowed") = {2}
    BY <2>1 DEF Link
  <2>3. Min({2}) = 2
    BY MinIs
  <2>4. QED
    BY <2>1, <2>2, <2>3 DEF Link
<1>6. stop("Reopened").method = "deciding"
  <2>1. Lineage["Reopened"] = <<Link("none", "narrowing"), Link("IsAuthenticated", "deciding")>>
    BY DEF Lineage
  <2>2. stops("Reopened") = {2}
    BY <2>1 DEF Link
  <2>3. Min({2}) = 2
    BY MinIs
  <2>4. QED
    BY <2>1, <2>2, <2>3 DEF Link
<1> HIDE DEF stop
<1>7. Classify("Bare") = OPEN /\ Classify("Narrowed") = AUTHENTICATED /\ Classify("Reopened") = UNKNOWN
  BY <1>3, <1>4, <1>5, <1>6, FrameworkIs
<1>8. QED
  BY <1>1, <1>2, <1>7, FrameworkIs DEF Framework

\* And what it does with a request.
LEMMA OutcomesAre ==
    ASSUME NEW who, NEW m
    PROVE  /\ \A r \in Framework : Outcomes(r, who, m) = {DrfAdmits(r, who, m)}
           /\ Outcomes(UNREADABLE, who, m) = BOOLEAN
           /\ Outcomes("Bare", who, m) = {TRUE}
           /\ Outcomes("Narrowed", who, m) = {who # "anonymous", FALSE}
           /\ Outcomes("Reopened", who, m) = BOOLEAN
<1>1. (\A r \in Framework : Outcomes(r, who, m) = {DrfAdmits(r, who, m)}) /\ Outcomes(UNREADABLE, who, m) = BOOLEAN
  BY FrameworkIs DEF Outcomes
<1> DEFINE links(r) == DOMAIN Lineage[r]
           base(r) == CHOOSE b \in {Lineage[r][k].base : k \in links(r)} : b # "none"
<1>2. \A r \in {"Bare", "Narrowed", "Reopened"} :
        Outcomes(r, who, m) = IF \E k \in links(r) : Lineage[r][k].method = "deciding" THEN BOOLEAN
                              ELSE {DrfAdmits(base(r), who, m)}
                                   \cup (IF \E k \in links(r) : Lineage[r][k].method = "narrowing" THEN {FALSE} ELSE {})
  BY FrameworkIs DEF Outcomes
<1>3. /\ ~\E k \in links("Bare") : Lineage["Bare"][k].method \in {"deciding", "narrowing"}
      /\ base("Bare") = "BasePermission"
  <2>1. Lineage["Bare"] = <<Link("BasePermission", "none")>>
    BY DEF Lineage
  <2>2. links("Bare") = {1}
    BY <2>1
  <2>3. {Lineage["Bare"][k].base : k \in links("Bare")} = {"BasePermission"}
    BY <2>1, <2>2 DEF Link
  <2>4. QED
    BY <2>1, <2>2, <2>3 DEF Link
<1>4. /\ ~\E k \in links("Narrowed") : Lineage["Narrowed"][k].method = "deciding"
      /\ \E k \in links("Narrowed") : Lineage["Narrowed"][k].method = "narrowing"
      /\ base("Narrowed") = "IsAuthenticated"
  <2>1. Lineage["Narrowed"] = <<Link("none", "narrowing"), Link("IsAuthenticated", "none")>>
    BY DEF Lineage
  <2>2. links("Narrowed") = {1, 2}
    BY <2>1
  <2>3. {Lineage["Narrowed"][k].base : k \in links("Narrowed")} = {"none", "IsAuthenticated"}
    BY <2>1, <2>2 DEF Link
  <2>4. QED
    BY <2>1, <2>2, <2>3 DEF Link
<1>5. \E k \in links("Reopened") : Lineage["Reopened"][k].method = "deciding"
  <2>1. Lineage["Reopened"] = <<Link("none", "narrowing"), Link("IsAuthenticated", "deciding")>>
    BY DEF Lineage
  <2>2. QED
    BY <2>1 DEF Link
<1> HIDE DEF base, links
<1>6. Outcomes("Bare", who, m) = {TRUE}
  <2>1. Outcomes("Bare", who, m) = {DrfAdmits("BasePermission", who, m)}
    BY <1>2, <1>3
  <2>2. DrfAdmits("BasePermission", who, m) = TRUE
    BY DEF DrfAdmits
  <2>3. QED
    BY <2>1, <2>2
<1>7. Outcomes("Narrowed", who, m) = {who # "anonymous", FALSE}
  <2>1. Outcomes("Narrowed", who, m) = {DrfAdmits("IsAuthenticated", who, m)} \cup {FALSE}
    BY <1>2, <1>4
  <2>2. DrfAdmits("IsAuthenticated", who, m) = (who # "anonymous")
    BY DEF DrfAdmits
  <2>3. QED
    BY <2>1, <2>2
<1>8. QED
  BY <1>1, <1>2, <1>5, <1>6, <1>7

\* So one that asks for nothing lets everybody in, and one that asks who is
\* calling lets nobody in who is nobody.
LEMMA ClassesAreKept ==
    ASSUME NEW r \in ClassesKnown, NEW who, NEW m \in Methods
    PROVE  /\ Classify(r) \in {-1, 0, 1, 2, 3}
           /\ Classify(r) = OPEN => Outcomes(r, who, m) = {TRUE}
           /\ Outcomes(r, "anonymous", m) = {TRUE} =>
                Classify(r) = OPEN \/ (r = "IsAuthenticatedOrReadOnly" /\ m = "get")
           /\ Classify(r) >= AUTHENTICATED => TRUE \notin Outcomes(r, "anonymous", m)
<1>1. OPEN = 0 /\ READ_OPEN = 1 /\ AUTHENTICATED = 2 /\ STAFF = 3 /\ UNKNOWN = -1
  BY DEF OPEN, READ_OPEN, AUTHENTICATED, STAFF, UNKNOWN
<1>2. CASE r = "AllowAny"
  <2>1. Classify(r) \in {-1, 0, 1, 2, 3} /\ Classify(r) = OPEN /\ ~(Classify(r) >= AUTHENTICATED)
    BY <1>1, <1>2, ClassifiedAs
  <2>2. DrfAdmits("AllowAny", who, m) = TRUE
    BY DEF DrfAdmits
  <2>3. Outcomes(r, who, m) = {TRUE}
    BY <1>2, <2>2, OutcomesAre, Zenon DEF Framework
  <2>4. QED
    BY <2>1, <2>3, Zenon
<1>3. CASE r = "Bare"
  <2>1. Classify(r) \in {-1, 0, 1, 2, 3} /\ Classify(r) = OPEN /\ ~(Classify(r) >= AUTHENTICATED)
    BY <1>1, <1>3, ClassifiedAs
  <2>2. Outcomes(r, who, m) = {TRUE}
    BY <1>3, OutcomesAre, Zenon
  <2>3. QED
    BY <2>1, <2>2, Zenon
<1>4. CASE r = "IsAuthenticatedOrReadOnly"
  <2>1. Classify(r) \in {-1, 0, 1, 2, 3} /\ Classify(r) # OPEN /\ ~(Classify(r) >= AUTHENTICATED)
    BY <1>1, <1>4, ClassifiedAs
  <2>2. m # "get" => DrfAdmits(r, "anonymous", m) = FALSE
    BY <1>4 DEF DrfAdmits
  <2>3. Outcomes(r, "anonymous", m) = {DrfAdmits(r, "anonymous", m)}
    BY <1>4, OutcomesAre, Zenon DEF Framework
  <2>4. Outcomes(r, "anonymous", m) = {TRUE} => m = "get"
    BY <2>2, <2>3, Zenon
  <2>5. QED
    BY <1>4, <2>1, <2>4, Zenon
<1>5. CASE r \in {"IsAuthenticated", "IsAdminUser", "Narrowed", "Reopened", UNREADABLE}
  <2>1. /\ Classify(r) \in {-1, 0, 1, 2, 3} /\ Classify(r) # OPEN
        /\ r \in {"Reopened", UNREADABLE} => ~(Classify(r) >= AUTHENTICATED)
    BY <1>1, <1>5, ClassifiedAs
  <2>2. r \in {"IsAuthenticated", "IsAdminUser"} => DrfAdmits(r, "anonymous", m) = FALSE
    BY DEF DrfAdmits
  <2>3. r \in {"IsAuthenticated", "IsAdminUser"} => Outcomes(r, "anonymous", m) = {DrfAdmits(r, "anonymous", m)}
    BY OutcomesAre, Zenon DEF Framework
  <2>4. r \in {"IsAuthenticated", "IsAdminUser"} => Outcomes(r, "anonymous", m) = {FALSE}
    BY <2>2, <2>3, Zenon
  <2>5. r = "Narrowed" => Outcomes(r, "anonymous", m) = {"anonymous" # "anonymous", FALSE}
    BY OutcomesAre, Zenon
  <2>6. r \in {"Reopened", UNREADABLE} => Outcomes(r, "anonymous", m) = BOOLEAN
    BY OutcomesAre, Zenon
  <2>7. {TRUE} # {FALSE} /\ {TRUE} # BOOLEAN /\ TRUE \notin {FALSE} /\ {"anonymous" # "anonymous", FALSE} = {FALSE}
    BY Zenon
  <2>8. Outcomes(r, "anonymous", m) # {TRUE} /\ (r \notin {"Reopened", UNREADABLE} => TRUE \notin Outcomes(r, "anonymous", m))
    BY <1>5, <2>4, <2>5, <2>6, <2>7, Zenon
  <2>9. QED
    BY <2>1, <2>8, Zenon
<1>8. QED
  BY <1>2, <1>3, <1>4, <1>5 DEF ClassesKnown

-----------------------------------------------------------------------------
(* The guard of an endpoint.                                               *)

\* What a list of classes guarantees: that everybody gets in, when each of them asks
\* for nothing, and that somebody must be somebody, only when one of them asks for it.
LEMMA CombinedIs ==
    ASSUME NEW refs \in SUBSET ClassesKnown
    PROVE  /\ Combine(refs).enforcement = OPEN /\ Combine(refs).resolved <=> \A r \in refs : Classify(r) = OPEN
           /\ Combine(refs).enforcement >= AUTHENTICATED => \E r \in refs : Classify(r) >= AUTHENTICATED
<1> DEFINE all == {OPEN} \cup {Classify(r) : r \in refs}
           strongest == Combine(refs).enforcement
<1>1. OPEN = 0 /\ AUTHENTICATED = 2 /\ UNKNOWN = -1
  BY DEF OPEN, AUTHENTICATED, UNKNOWN
<1>2. \A r \in refs : Classify(r) \in {-1, 0, 1, 2, 3}
  BY ClassesAreKept, "get" \in Methods DEF Methods
<1>3. all \in SUBSET {-1, 0, 1, 2, 3} /\ 0 \in all /\ \A r \in refs : Classify(r) \in all
  BY <1>1, <1>2
<1>4. strongest = Max(all)
  BY DEF Combine
<1>5. \A x \in all : x \in {0} \cup {Classify(r) : r \in refs}
  BY <1>1
<1> HIDE DEF all
<1>6. \E x \in all : \A y \in all : x >= y
  <2>1. CASE 3 \in all
    BY <1>3, <2>1
  <2>2. CASE 3 \notin all /\ 2 \in all
    BY <1>3, <2>2
  <2>3. CASE 3 \notin all /\ 2 \notin all /\ 1 \in all
    BY <1>3, <2>3
  <2>4. CASE 3 \notin all /\ 2 \notin all /\ 1 \notin all
    BY <1>3, <2>4
  <2>5. QED
    BY <2>1, <2>2, <2>3, <2>4
<1>7. strongest \in all /\ \A y \in all : strongest >= y
  <2>1. PICK x \in all : \A y \in all : x >= y
    BY <1>6
  <2>2. Max(all) = x
    BY <1>3, <2>1, MaxIs
  <2>3. QED
    BY <1>4, <2>1, <2>2
<1>8. Combine(refs).resolved <=> \A r \in refs : Classify(r) # UNKNOWN
  BY DEF Combine
<1> HIDE DEF strongest
<1>9. strongest = 0 /\ (\A r \in refs : Classify(r) # -1) <=> \A r \in refs : Classify(r) = 0
  <2>1. ASSUME strongest = 0, \A r \in refs : Classify(r) # -1, NEW r \in refs
        PROVE  Classify(r) = 0
    BY <1>2, <1>3, <1>7, <2>1
  <2>2. ASSUME \A r \in refs : Classify(r) = 0
        PROVE  strongest = 0 /\ \A r \in refs : Classify(r) # -1
    BY <1>5, <1>7, <2>2
  <2>3. QED
    BY <2>1, <2>2
<1>10. strongest >= 2 => \E r \in refs : Classify(r) >= 2
  BY <1>5, <1>7
<1>11. QED
  BY <1>1, <1>8, <1>9, <1>10 DEF strongest

\* There is an endpoint, and one that is not of the view's handlers is the extra action.
LEMMA EndpointsAre ==
    ASSUME ApiInv, HabitsAreFollowed
    PROVE  /\ Endpoints # {}
           /\ \A e \in Endpoints : e.method \in Methods /\ (e.action = "extra" => Extra.permissions = Unset)
<1> DEFINE kind == IF site.routing = "router" THEN "list" ELSE "path"
           own == {Endpoint(m, Handlers[m], kind) : m \in site.handlers}
<1>1. site.handlers # {} /\ site.handlers \subseteq Methods
  BY DEF ApiInv
<1>2. own # {}
  BY <1>1
<1>3. \A m \in Methods : Handlers[m] \in {"list", "create"}
  BY DEF Methods, Handlers
<1>4. \A e \in own : e.method \in Methods /\ e.action # "extra"
  BY <1>1, <1>3 DEF Endpoint
<1> HIDE DEF own
<1>5. Endpoints = own \cup (IF HasExtra THEN {Endpoint(Extra.method, "extra", "action")} ELSE {})
  BY DEF Endpoints, own
<1>6. HasExtra => Endpoint(Extra.method, "extra", "action").method \in Methods /\ Extra.permissions = Unset
  BY SettingsAre DEF Endpoint
<1>7. QED
  BY <1>2, <1>4, <1>5, <1>6

\* The classes the framework asks of a request, and those that the guard is built
\* from: what is not read of them, an entry that no decorator's reading renders or a
\* default of the project's, lets nobody in.
LEMMA GuardsAre ==
    ASSUME ApiInv, HabitsAreFollowed, NEW e \in Endpoints
    PROVE  /\ PermissionsAt(e) \in SUBSET ClassesKnown /\ Guard.classes \in SUBSET ClassesKnown
           /\ \A r \in Guard.classes : Classify(r) # OPEN => r \in PermissionsAt(e)
           /\ FromDefault <=> Provider("permission_classes") = Nobody
           /\ FromDefault => "IsAuthenticatedOrReadOnly" \notin PermissionsAt(e)
           /\ IsOpen <=> (\A r \in PermissionsAt(e) : Classify(r) = OPEN) /\ ~Overrides("get_permissions")
<1> DEFINE name == "permission_classes"
           p == Provider(name)
<1>1. p \in {"view", "parent", Nobody} /\ p = Declarer(name) /\ (p # Nobody => Declares(p, name))
  BY DeclarersProvide DEF Provider, Nobody
<1>2. DefaultPermissions \in {{}, {"AllowAny"}, {"IsAuthenticated"}, {"Reopened"}}
  BY SettingsAre DEF DefaultPermissions
<1>3. e.action = "extra" => Extra.permissions = Unset
  BY EndpointsAre
<1>4. PermissionsAt(e) = IF p # Nobody THEN Declared(p, name)
                         ELSE IF DefaultsUnreadable THEN {UNREADABLE} ELSE DefaultPermissions
  BY <1>3 DEF PermissionsAt
<1>5. Guard.classes = IF p = Nobody THEN DefaultPermissions ELSE Refs(name)
  BY <1>1 DEF Guard
<1>6. DefaultsUnreadable => DefaultPermissions = {"AllowAny"}
  BY DEF DefaultPermissions, DefaultsUnreadable
<1>7. p # Nobody => Declared(p, name) \in PermissionLists
  BY <1>1, AttributesAre DEF Nobody
<1>8. Refs(name) = IF site.routing = "function" THEN Declared(p, name) \ {UNREADABLE} ELSE Declared(p, name)
  BY <1>1 DEF Refs
<1>9. FromDefault <=> p = Nobody
  BY <1>1 DEF FromDefault, Guard, Nobody
<1>10. /\ Guard.enforcement = Combine(Guard.classes).enforcement
       /\ Guard.certain <=> /\ Combine(Guard.classes).resolved
                            /\ p = Nobody => ~DefaultsUnreadable
                            /\ ~Overrides("get_permissions")
  BY <1>1 DEF Guard
<1>11. /\ Classify("AllowAny") = OPEN /\ Classify("IsAuthenticated") # OPEN /\ Classify(UNREADABLE) # OPEN
       /\ UNREADABLE \notin {"AllowAny", "IsAuthenticated", "Reopened", "IsAuthenticatedOrReadOnly"}
  BY ClassifiedAs DEF OPEN, AUTHENTICATED, UNKNOWN, UNREADABLE
<1> HIDE DEF p
<1>12. PermissionsAt(e) \in SUBSET ClassesKnown /\ Guard.classes \in SUBSET ClassesKnown
  BY <1>2, <1>4, <1>5, <1>7, <1>8, ListsAre DEF ClassesKnown
<1>13. \A r \in Guard.classes : Classify(r) # OPEN => r \in PermissionsAt(e)
  BY <1>4, <1>5, <1>6, <1>8, <1>11
<1>14. p = Nobody => "IsAuthenticatedOrReadOnly" \notin PermissionsAt(e)
  BY <1>2, <1>4, <1>11
<1>15. IsOpen <=> /\ \A r \in Guard.classes : Classify(r) = OPEN
                  /\ p = Nobody => ~DefaultsUnreadable
                  /\ ~Overrides("get_permissions")
  BY <1>10, <1>12, CombinedIs DEF IsOpen
<1>16. IsOpen <=> (\A r \in PermissionsAt(e) : Classify(r) = OPEN) /\ ~Overrides("get_permissions")
  <2>1. CASE p = Nobody
    BY <1>4, <1>5, <1>11, <1>15, <2>1
  <2>2. CASE p # Nobody /\ site.routing # "function"
    BY <1>4, <1>5, <1>8, <1>15, <2>2
  <2>3. CASE p # Nobody /\ site.routing = "function"
    <3>1. UNREADABLE \in Declared(p, name) => "IsAuthenticated" \in Declared(p, name)
      BY <1>7, <2>3, ListsAre DEF UNREADABLE
    <3>2. CASE UNREADABLE \in Declared(p, name)
      BY <1>4, <1>5, <1>8, <1>11, <1>15, <2>3, <3>1, <3>2
    <3>3. CASE UNREADABLE \notin Declared(p, name)
      BY <1>4, <1>5, <1>8, <1>15, <2>3, <3>3
    <3>4. QED
      BY <3>2, <3>3
  <2>4. QED
    BY <2>1, <2>2, <2>3
<1>17. QED
  BY <1>9, <1>12, <1>13, <1>14, <1>16 DEF p

-----------------------------------------------------------------------------
(* What is said of one.                                                    *)

\* Each rule answers under its own name.
LEMMA SaidOfAView ==
    ASSUME ApiInv
    PROVE  /\ Reported("DJA-002") <=> audited /\ FromDefault /\ IsOpen
           /\ Reported("DJA-003") <=> audited /\ ~FromDefault /\ IsOpen /\ Mutating
           /\ Reported("DJA-006") => audited /\ IsOpen
           /\ Reported("DJA-015") <=> audited /\ Mutating /\ IsOpen /\ UnthrottledBecause
           /\ Reported("DJA-007") <=> /\ audited /\ Guard.unauthenticated
                                      /\ Guard.authentication_source = "view" /\ Guard.enforcement >= AUTHENTICATED
           /\ Reported("DJA-013 view") <=> audited /\ IsList /\ PaginationDisabled /\ ~Scoped
           /\ [rule |-> "DJA-013 settings", severity |-> "medium"] \in apiReports <=>
                audited /\ ~DefaultIsSized /\ IsList /\ ~PaginationRef /\ ~PaginationDisabled
           /\ audited /\ FromDefault /\ IsOpen =>
                [rule |-> "DJA-002", severity |-> IF Mutating THEN "high" ELSE "medium"] \in apiReports
           /\ audited /\ ~FromDefault /\ IsOpen /\ Mutating =>
                [rule |-> "DJA-003", severity |-> "critical"] \in apiReports
<1>1. apiReports = IF audited THEN ViewRules ELSE {}
  BY DEF ApiInv
<1>2. UnprotectedFunctionView # {} => IsOpen
  BY DEF UnprotectedFunctionView, NoReport
<1>3. /\ EndpointWithoutPermissions = IF FromDefault /\ IsOpen
           THEN {[rule |-> "DJA-002", severity |-> IF Mutating THEN "high" ELSE "medium"]} ELSE {}
      /\ OpenWritableEndpoint = IF Mutating /\ IsOpen /\ ~FromDefault
           THEN {[rule |-> "DJA-003", severity |-> "critical"]} ELSE {}
  BY DEF EndpointWithoutPermissions, OpenWritableEndpoint, ReportOf, NoReport
<1>4. NoAuthenticationConfigured =
        IF Guard.unauthenticated /\ Guard.authentication_source = "view" /\ Guard.enforcement >= AUTHENTICATED
        THEN {[rule |-> "DJA-007", severity |-> "medium"]} ELSE {}
  BY DEF NoAuthenticationConfigured, ReportOf, NoReport
<1>5. /\ UnboundedByDefault = IF DefaultIsSized THEN {}
           ELSE {[rule |-> "DJA-013 settings",
                  severity |-> IF IsList /\ ~PaginationRef /\ ~PaginationDisabled THEN "medium" ELSE "low"]}
      /\ UnboundedListEndpoint = IF IsList /\ PaginationDisabled /\ ~Scoped
           THEN {[rule |-> "DJA-013 view", severity |-> "medium"]} ELSE {}
  BY DEF UnboundedByDefault, UnboundedListEndpoint, ReportOf, NoReport
<1>6. UnthrottledCredentialEndpoint = IF Mutating /\ IsOpen /\ UnthrottledBecause
        THEN {[rule |-> "DJA-015", severity |-> IF Declares("view", "credentials") THEN "high" ELSE "medium"]} ELSE {}
  BY DEF UnthrottledCredentialEndpoint, ReportOf, NoReport
<1>7. \A r : r \in ViewRules <=>
        \/ r \in PermissiveDefaultPermissions \/ r \in EndpointWithoutPermissions \/ r \in OpenWritableEndpoint
        \/ r \in UnprotectedFunctionView \/ r \in NoAuthenticationConfigured \/ r \in UnboundedByDefault
        \/ r \in UnboundedListEndpoint \/ r \in UnthrottledCredentialEndpoint
  BY DEF ViewRules
<1>8. /\ \A r \in PermissiveDefaultPermissions : r.rule = "DJA-001"
      /\ \A r \in EndpointWithoutPermissions : r.rule = "DJA-002"
      /\ \A r \in OpenWritableEndpoint : r.rule = "DJA-003"
      /\ \A r \in UnprotectedFunctionView : r.rule = "DJA-006"
      /\ \A r \in NoAuthenticationConfigured : r.rule = "DJA-007"
      /\ \A r \in UnboundedByDefault : r.rule = "DJA-013 settings"
      /\ \A r \in UnboundedListEndpoint : r.rule = "DJA-013 view"
      /\ \A r \in UnthrottledCredentialEndpoint : r.rule = "DJA-015"
  <2>1. (\A r \in PermissiveDefaultPermissions : r.rule = "DJA-001") /\ (\A r \in UnprotectedFunctionView : r.rule = "DJA-006")
    BY DEF PermissiveDefaultPermissions, UnprotectedFunctionView, ReportOf, NoReport
  <2>2. (\A r \in EndpointWithoutPermissions : r.rule = "DJA-002") /\ (\A r \in OpenWritableEndpoint : r.rule = "DJA-003")
    BY <1>3
  <2>3. (\A r \in NoAuthenticationConfigured : r.rule = "DJA-007") /\ (\A r \in UnthrottledCredentialEndpoint : r.rule = "DJA-015")
    BY <1>4, <1>6
  <2>4. \A n, v : [rule |-> n, severity |-> v].rule = n
    OBVIOUS
  <2>5. /\ \A r \in UnboundedByDefault : r.rule = "DJA-013 settings"
        /\ \A r \in UnboundedListEndpoint : r.rule = "DJA-013 view"
    BY <1>5, <2>4, Zenon
  <2>6. QED
    BY <2>1, <2>2, <2>3, <2>5
<1>9. \A n : Reported(n) <=> audited /\ \E r \in ViewRules : r.rule = n
  BY <1>1 DEF Reported
<1>10. /\ Reported("DJA-002") <=> audited /\ EndpointWithoutPermissions # {}
       /\ Reported("DJA-003") <=> audited /\ OpenWritableEndpoint # {}
       /\ Reported("DJA-006") <=> audited /\ UnprotectedFunctionView # {}
       /\ Reported("DJA-007") <=> audited /\ NoAuthenticationConfigured # {}
  BY <1>7, <1>8, <1>9, ZenonT(30)
<1>11. /\ Reported("DJA-015") <=> audited /\ UnthrottledCredentialEndpoint # {}
       /\ Reported("DJA-013 view") <=> audited /\ UnboundedListEndpoint # {}
  BY <1>7, <1>8, <1>9
<1>12. \A r : r \in apiReports /\ r.rule = "DJA-013 settings" <=>
               audited /\ r \in UnboundedByDefault
  BY <1>1, <1>7, <1>8
<1>13. [rule |-> "DJA-013 settings", severity |-> "medium"] \in apiReports <=>
         audited /\ [rule |-> "DJA-013 settings", severity |-> "medium"] \in UnboundedByDefault
  BY <1>12
<1>14. [rule |-> "DJA-013 settings", severity |-> "medium"] \in UnboundedByDefault <=>
         ~DefaultIsSized /\ IsList /\ ~PaginationRef /\ ~PaginationDisabled
  BY <1>5
<1>15. /\ audited /\ FromDefault /\ IsOpen =>
            [rule |-> "DJA-002", severity |-> IF Mutating THEN "high" ELSE "medium"] \in apiReports
       /\ audited /\ ~FromDefault /\ IsOpen /\ Mutating =>
            [rule |-> "DJA-003", severity |-> "critical"] \in apiReports
  BY <1>1, <1>3, <1>7
<1>16. QED
  BY <1>2, <1>3, <1>4, <1>5, <1>6, <1>10, <1>11, <1>13, <1>14, <1>15

\* What lets anybody in is named as that, and nothing else is.
LEMMA OpenOnesAreNamed ==
    ASSUME ApiInv, HabitsAreFollowed
    PROVE  OpenIsNamed
<1>1. Endpoints # {} /\ \A e \in Endpoints : e.method \in Methods
  BY EndpointsAre
<1>2. Mutating <=> \E e \in Endpoints : e.method = "post"
  BY DEF Mutating, MethodsFor
<1>3. \A e \in Endpoints : IsOpen => MustAdmit(e, "anonymous")
  <2> SUFFICES ASSUME NEW e \in Endpoints, IsOpen
               PROVE  MustAdmit(e, "anonymous")
    OBVIOUS
  <2>1. ~Overrides("get_permissions") /\ \A r \in PermissionsAt(e) : r \in ClassesKnown /\ Classify(r) = OPEN
    BY GuardsAre
  <2>2. \A id : \A r \in PermissionsAt(e) : Outcomes(r, id, e.method) = {TRUE}
    BY <1>1, <2>1, ClassesAreKept
  <2>3. QED
    BY <2>1, <2>2 DEF MustAdmit
<1>4. OpenReportsAreReal
  BY <1>1, <1>2, <1>3, SaidOfAView DEF OpenReportsAreReal
<1>5. ASSUME audited, NEW e \in Endpoints, MustAdmit(e, "anonymous"),
             e.method = "post" \/ Provider("permission_classes") = Nobody
      PROVE  \E r \in apiReports : /\ r.rule \in {"DJA-002", "DJA-003"}
                                   /\ e.method = "post" => r.severity \in {"high", "critical"}
  <2>1. "anonymous" \in Identified("anonymous")
    BY DEF Identified
  <2>2. ~Overrides("get_permissions") /\ \A r \in PermissionsAt(e) : Outcomes(r, "anonymous", e.method) = {TRUE}
    BY <1>5, <2>1 DEF MustAdmit
  <2>3. \A r \in PermissionsAt(e) : Classify(r) = OPEN \/ (r = "IsAuthenticatedOrReadOnly" /\ e.method = "get")
    BY <1>1, <2>2, GuardsAre, ClassesAreKept
  <2>4. IsOpen
    BY <1>5, <2>2, <2>3, GuardsAre
  <2>5. e.method # "post" => FromDefault
    BY <1>5, GuardsAre
  <2>6. e.method = "post" => Mutating
    BY <1>2
  <2>7. CASE FromDefault
    BY <1>5, <2>4, <2>6, <2>7, SaidOfAView
  <2>8. CASE ~FromDefault
    BY <1>5, <2>4, <2>5, <2>6, <2>8, SaidOfAView
  <2>9. QED
    BY <2>7, <2>8
<1>6. OpenWritesAreNamed
  BY <1>5 DEF OpenWritesAreNamed
<1>7. QED
  BY <1>4, <1>6 DEF OpenIsNamed

\* A view that asks who is calling of callers it will not know lets nobody in.
LEMMA NobodySatisfiesBoth ==
    ASSUME ApiInv, HabitsAreFollowed
    PROVE  NoRequestSatisfiesBoth
<1> SUFFICES ASSUME Reported("DJA-007"), ~Overrides("get_permissions"), ~Overrides("get_authenticators"),
                    NEW e \in Endpoints, NEW who \in {"anonymous", "user", "staff"}, e.action # "extra"
             PROVE  ~MayAdmit(e, who)
  BY DEF NoRequestSatisfiesBoth
<1> DEFINE name == "authentication_classes"
<1>1. Guard.unauthenticated /\ Guard.authentication_source = "view" /\ Guard.enforcement >= AUTHENTICATED
  BY SaidOfAView
<1>2. Declarer(name) = "view" /\ Refs(name) = {} /\ Provider(name) = "view"
  BY <1>1, DeclarersProvide DEF Guard
<1>3. Declares("view", name)
  BY <1>2 DEF Provider, Nobody
<1>4. Declared("view", name) = {}
  BY <1>2, <1>3, AttributesAre DEF Refs, UNREADABLE
<1>5. Identified(who) = {"anonymous"}
  BY <1>2, <1>4 DEF Identified, Nobody
<1>6. PICK r \in PermissionsAt(e) : r \in ClassesKnown /\ Classify(r) >= AUTHENTICATED
  <2>1. /\ PermissionsAt(e) \in SUBSET ClassesKnown /\ Guard.classes \in SUBSET ClassesKnown
        /\ \A r \in Guard.classes : Classify(r) # OPEN => r \in PermissionsAt(e)
    BY GuardsAre
  <2>2. Guard.enforcement = Combine(Guard.classes).enforcement
    BY DEF Guard
  <2>3. PICK r \in Guard.classes : Classify(r) >= AUTHENTICATED
    BY <1>1, <2>1, <2>2, CombinedIs
  <2>4. QED
    BY <2>1, <2>3 DEF OPEN, AUTHENTICATED
<1>7. TRUE \notin Outcomes(r, "anonymous", e.method)
  BY <1>6, EndpointsAre, ClassesAreKept
<1>8. QED
  BY <1>5, <1>6, <1>7 DEF MayAdmit

\* A throttle with no rate, or no scope, allows every request.
LEMMA UnthrottledOnesAre ==
    ASSUME ApiInv, HabitsAreFollowed
    PROVE  UnthrottledIsReal
<1> SUFFICES ASSUME Reported("DJA-015")
             PROVE  ~Throttled
  BY DEF UnthrottledIsReal
<1> DEFINE name == "throttle_classes"
           p == Provider(name)
           used == IF p # Nobody THEN Declared(p, name) ELSE DefaultThrottles
<1>1. UnthrottledBecause
  BY SaidOfAView
<1>2. p \in {"view", "parent", Nobody} /\ p = Declarer(name) /\ (p # Nobody => Declares(p, name))
  BY DeclarersProvide DEF Provider, Nobody
<1>3. p # Nobody => Declared(p, name) \in {{}, {"scoped"}, {"rate"}}
  BY <1>2, AttributesAre DEF Nobody
<1>4. DefaultThrottles \in {{}, {"scoped"}, {"rate"}}
  BY SettingsAre DEF DefaultThrottles
<1>5. Throttles = IF p # Nobody THEN Refs(name) ELSE DefaultThrottles
  BY <1>2 DEF Throttles
<1>6. p # Nobody => Refs(name) = Declared(p, name)
  BY <1>2, <1>3 DEF Refs, UNREADABLE
<1>7. Throttles = used /\ used \in {{}, {"scoped"}, {"rate"}}
  BY <1>3, <1>4, <1>5, <1>6
<1>8. Throttled <=> \E t \in used : Limits(t)
  BY DEF Throttled
<1> HIDE DEF used, p
<1>9. CASE Throttles = {}
  BY <1>7, <1>8, <1>9
<1>10. CASE Throttles = {"scoped"} /\ ~ThrottleScope
  BY <1>7, <1>8, <1>10 DEF Limits
<1>11. CASE Rated # {} /\ ({"anon", "user"} \cup (IF ThrottleScope THEN {"view scope"} ELSE {})) \cap Rated = {}
  <2>1. "anon" \notin Rated /\ (ThrottleScope => "view scope" \notin Rated)
    BY <1>11
  <2>2. ~Limits("scoped") /\ ~Limits("rate")
    BY <2>1 DEF Limits
  <2>3. QED
    BY <1>7, <1>8, <2>2
<1>12. QED
  BY <1>1, <1>9, <1>10, <1>11 DEF UnthrottledBecause

\* What of a list's paging is read: the paginator of the class that provides one.
LEMMA PagingIs ==
    ASSUME ApiInv, HabitsAreFollowed
    PROVE  LET p == Provider("pagination_class")
               given == Declared(p, "pagination_class") IN
           /\ p # Nobody => given \in {"None", "sized"}
           /\ PaginationDisabled <=> p # Nobody /\ given = "None"
           /\ PaginationRef <=> p # Nobody /\ given = "sized"
<1> DEFINE name == "pagination_class"
           p == Provider(name)
           readable == {k \in DOMAIN Classes : Declares(Classes[k], name) /\ Declared(Classes[k], name) # UNREADABLE}
           at == {k \in DOMAIN Classes : Declares(Classes[k], name)}
<1>1. p \in {"view", "parent", Nobody} /\ p = Declarer(name) /\ (p # Nobody => Declares(p, name))
  BY DeclarersProvide DEF Provider, Nobody
<1>2. \A w \in {"view", "parent"} : Declares(w, name) => Declared(w, name) \in {"None", "sized"}
  BY AttributesAre
<1>3. Classes \in {<<"view">>, <<"view", "parent">>}
  BY DEF Classes
<1>4. \A k \in DOMAIN Classes : Classes[k] \in {"view", "parent"}
  BY <1>3
<1>5. readable = at
  BY <1>2, <1>4 DEF UNREADABLE
<1>6. p = IF at = {} THEN Nobody ELSE Classes[Min(at)]
  BY <1>1 DEF Declarer
<1>7. PaginationDisabled <=> at # {} /\ Declared(Classes[Min(at)], name) = "None"
  BY <1>5 DEF PaginationDisabled
<1>8. at # {} => p # Nobody
  <2>1. DOMAIN Classes \in {{1}, {1, 2}}
    BY <1>3
  <2>2. Min({1}) = 1 /\ Min({2}) = 2 /\ Min({1, 2}) = 1
    BY MinIs
  <2>3. at # {} => Min(at) \in at
    BY <2>1, <2>2
  <2>4. QED
    BY <1>4, <1>6, <2>3 DEF Nobody
<1>9. p # Nobody => Declared(p, name) \in {"None", "sized"}
  BY <1>1, <1>2
<1>10. PaginationRef <=> p # Nobody /\ Declared(p, name) = "sized"
  <2>1. PaginationRef <=> \E k \in DOMAIN Classes :
           /\ Declares(Classes[k], name) /\ Declared(Classes[k], name) = "sized"
           /\ \A j \in 1 .. k - 1 : ~Declares(Classes[j], name)
    <3>1. \A k \in DOMAIN Classes : Declares(Classes[k], name) =>
            (Declared(Classes[k], name) \notin {"None", UNREADABLE} <=> Declared(Classes[k], name) = "sized")
      BY <1>2, <1>4 DEF UNREADABLE
    <3>2. \A k \in DOMAIN Classes : \A j \in 1 .. k - 1 : j \in DOMAIN Classes
      BY <1>3
    <3>3. \A j \in DOMAIN Classes :
            (Declares(Classes[j], name) => Declared(Classes[j], name) = UNREADABLE) <=> ~Declares(Classes[j], name)
      BY <1>2, <1>4 DEF UNREADABLE
    <3>4. QED
      BY <3>1, <3>2, <3>3 DEF PaginationRef
  <2>2. CASE Classes = <<"view">>
    <3>1. site.routing = "function"
      BY <2>2 DEF Classes
    <3>2. p = IF Declares("view", name) THEN "view" ELSE Nobody
      BY <3>1 DEF Provider
    <3>3. QED
      BY <2>1, <2>2, <3>2 DEF Nobody
  <2>3. CASE Classes = <<"view", "parent">>
    <3>1. site.routing # "function"
      BY <2>3 DEF Classes
    <3>2. p = IF Declares("view", name) THEN "view" ELSE IF Declares("parent", name) THEN "parent" ELSE Nobody
      BY <3>1 DEF Provider
    <3>3. DOMAIN Classes = {1, 2} /\ Classes[1] = "view" /\ Classes[2] = "parent" /\ 1 .. 1 - 1 = {} /\ 1 .. 2 - 1 = {1}
      BY <2>3
    <3> HIDE DEF p
    <3>4. PaginationRef <=>
            \/ Declares("view", name) /\ Declared("view", name) = "sized"
            \/ Declares("parent", name) /\ Declared("parent", name) = "sized" /\ ~Declares("view", name)
      BY <2>1, <3>3
    <3>5. QED
      BY <3>2, <3>4 DEF Nobody
  <2>4. QED
    BY <1>3, <2>2, <2>3
<1> HIDE DEF p, at
<1>11. PaginationDisabled <=> p # Nobody /\ Declared(p, name) = "None"
  BY <1>6, <1>7, <1>8
<1>12. QED
  BY <1>9, <1>10, <1>11 DEF p

\* A list that comes out whole is answered for exactly once.
LEMMA ListsAreAnswered ==
    ASSUME ApiInv, HabitsAreFollowed
    PROVE  WholeListsAreNamedOnce
<1> DEFINE p == Provider("pagination_class")
           given == Declared(p, "pagination_class")
           counted == [rule |-> "DJA-013 settings", severity |-> "medium"] \in apiReports
           named == Reported("DJA-013 view")
<1> SUFFICES ASSUME audited, IsList
             PROVE  /\ WholeList /\ Paginator # "sized" /\ ~Scoped => counted # named
                    /\ named => WholeList
                    /\ counted => WholeList
  BY DEF WholeListsAreNamedOnce
<1>1. /\ p # Nobody => given \in {"None", "sized"}
      /\ PaginationDisabled <=> p # Nobody /\ given = "None"
      /\ PaginationRef <=> p # Nobody /\ given = "sized"
  BY PagingIs
<1>2. named <=> p # Nobody /\ given = "None" /\ ~Scoped
  BY <1>1, SaidOfAView
<1>3. counted <=> ~DefaultIsSized /\ p = Nobody
  BY <1>1, SaidOfAView
<1>4. DefaultPagination \in {"None", "sized", "own size"}
  BY SettingsAre DEF DefaultPagination
<1>5. DefaultIsSized <=>
        DefaultPagination = "own size" \/ (DefaultPagination = "sized" /\ Declares("settings", "page size"))
  BY DEF DefaultIsSized
<1>6. Paginator = IF p # Nobody THEN given ELSE DefaultPagination
  BY DEF Paginator
<1>7. WholeList <=> Paginator = "None" \/ (Paginator = "sized" /\ ~Declares("settings", "page size"))
  BY DEF WholeList
<1>8. counted \in BOOLEAN /\ named \in BOOLEAN
  BY DEF Reported
<1> HIDE DEF p, given, counted, named
<1>9. (counted => WholeList) /\ (named => WholeList)
  BY <1>2, <1>3, <1>4, <1>5, <1>6, <1>7
<1>10. WholeList /\ Paginator # "sized" /\ ~Scoped => (counted <=> ~named)
  BY <1>1, <1>2, <1>3, <1>4, <1>5, <1>6, <1>7
<1>11. QED
  BY <1>8, <1>9, <1>10

\* ApiRules: what the rules say of an endpoint is so, in every project whose
\* authors have none of the habits that the rules do not follow.
THEOREM EndpointsHold ==
    ASSUME HabitsAreFollowed
    PROVE  ApiSpec => []EndpointsAreJudged
<1>1. ApiInv => EndpointsAreJudged
  BY OpenOnesAreNamed, NobodySatisfiesBoth, ListsAreAnswered, UnthrottledOnesAre DEF EndpointsAreJudged
<1>2. QED
  BY <1>1, SiteBegins, SiteKeeps, PTL DEF ApiSpec

-----------------------------------------------------------------------------
(* Rules of the catalogue, and values a module may have (SettingsRules).   *)

Needs == {"nothing", "role", "security middleware", "security middleware, HSTS", "cookie middleware",
          "DEBUG off", "credentials withheld", "credentials sent", "framing middleware", "auth app",
          "no reference", "spelled out"}

\* What the judgements rest on, of a rule: no value it calls safe or cannot place is
\* one it calls unsafe, and what it assumes where nothing is assigned can be read.
Sane(r) ==
    /\ r.some \subseteq {"bad", "hollow", "unknown"} /\ r.every \subseteq {"bad", "hollow", "unknown", "local"}
    /\ r.default \in {"fine", "bad", "hollow", "absent"}
    /\ r.needs \in Needs
    /\ r.ceiling \in {AtCertain, Firm}
    /\ r.needs = "DEBUG off" => "bad" \in r.some
    /\ r.needs = "spelled out" => ~r.corrects /\ ~r.explicit /\ ~r.single

\* Every rule of the catalogue is one the proofs below are about.
LEMMA CatalogueIsSane == \A r \in Catalogue : Sane(r)
<1>1. Sane(Setting) /\ Sane(Flag) /\ Sane(Credential)
  BY DEF Sane, Setting, Flag, Credential, Needs
<1>2. \A r \in {DebugEnabled, HardcodedSecretKey, WeakSecretKey, HardcodedDatabasePassword,
                HardcodedServiceCredential} : Sane(r)
  <2>1. Sane(DebugEnabled)
    BY DEF Sane, Setting, DebugEnabled, Needs
  <2>2. Sane(HardcodedSecretKey) /\ Sane(WeakSecretKey)
    BY <1>1 DEF Sane, Setting, Credential, HardcodedSecretKey, WeakSecretKey, Needs
  <2>3. Sane(HardcodedDatabasePassword) /\ Sane(HardcodedServiceCredential)
    BY <1>1 DEF Sane, Setting, Credential, HardcodedDatabasePassword, HardcodedServiceCredential, Needs
  <2>4. QED
    BY <2>1, <2>2, <2>3
<1>3. \A r \in {SslRedirectDisabled, HstsNotEnforced, HstsSubdomainsExcluded, ContentTypeSniffingAllowed,
                SessionCookieNotSecure, CsrfCookieNotSecure, SessionCookieNotHttpOnly} : Sane(r)
  <2>1. Sane(SslRedirectDisabled) /\ Sane(HstsNotEnforced) /\ Sane(HstsSubdomainsExcluded)
    BY DEF Sane, Setting, Flag, SslRedirectDisabled, HstsNotEnforced, HstsSubdomainsExcluded, Needs
  <2>2. Sane(ContentTypeSniffingAllowed) /\ Sane(SessionCookieNotSecure)
    BY DEF Sane, Setting, Flag, ContentTypeSniffingAllowed, SessionCookieNotSecure, Needs
  <2>3. Sane(CsrfCookieNotSecure) /\ Sane(SessionCookieNotHttpOnly)
    BY DEF Sane, Setting, Flag, SessionCookieNotSecure, CsrfCookieNotSecure, SessionCookieNotHttpOnly, Needs
  <2>4. QED
    BY <2>1, <2>2, <2>3
<1>4. \A r \in {ProxySslHeaderTrusted, AllowedHostsUnrestricted, CsrfTrustedOriginsTooBroad, CorsAllowsAllOrigins,
                CorsWildcardWithCredentials, ClickjackingProtectionOff} : Sane(r)
  <2>1. Sane(ProxySslHeaderTrusted) /\ Sane(AllowedHostsUnrestricted) /\ Sane(CsrfTrustedOriginsTooBroad)
    BY DEF Sane, Setting, ProxySslHeaderTrusted, AllowedHostsUnrestricted, CsrfTrustedOriginsTooBroad, Needs
  <2>2. Sane(CorsAllowsAllOrigins) /\ Sane(CorsWildcardWithCredentials) /\ Sane(ClickjackingProtectionOff)
    BY DEF Sane, Setting, CorsAllowsAllOrigins, CorsWildcardWithCredentials, ClickjackingProtectionOff, Needs
  <2>3. QED
    BY <2>1, <2>2
<1>5. \A r \in {WeakPasswordHasher, NoPasswordValidators, ConnectionsNotReused, PostgresWithoutTls,
                DatabaseKeyAtModuleLevel, DebugToolingInstalled, ErrorReportsLeakRequests} : Sane(r)
  <2>1. Sane(WeakPasswordHasher) /\ Sane(NoPasswordValidators) /\ Sane(ConnectionsNotReused) /\ Sane(PostgresWithoutTls)
    BY DEF Sane, Setting, WeakPasswordHasher, NoPasswordValidators, ConnectionsNotReused, PostgresWithoutTls, Needs
  <2>2. Sane(DatabaseKeyAtModuleLevel) /\ Sane(DebugToolingInstalled) /\ Sane(ErrorReportsLeakRequests)
    BY DEF Sane, Setting, DatabaseKeyAtModuleLevel, DebugToolingInstalled, ErrorReportsLeakRequests, Needs
  <2>3. QED
    BY <2>1, <2>2
<1>6. QED
  BY <1>2, <1>3, <1>4, <1>5 DEF Catalogue

\* What is written in a project, and where.
WrittenOK(n, v) ==
    /\ v.cases \subseteq TokensOf(rule, n) \cup {"unknown"} /\ v.cases # {} /\ IsFiniteSet(v.cases)
    /\ v.adds => rule.needs = "spelled out" /\ v.cases = {"fine"}

RiskyProjectOK ==
    /\ rule \in Rules
    /\ project = [own |-> project.own, heirs |-> project.heirs, role |-> project.role]
    /\ project.heirs \subseteq Modules \ {Base}
    /\ project.role \in [Modules -> Roles] /\ \A m \in Modules : project.role[m] \in RolesOf[m]
    /\ \A s \in DOMAIN project.own : s \in Slots(rule) /\ WrittenOK(s[2], project.own[s])

DefaultOf(n) == CASE n = "setting" -> rule.default
                  [] n = "MIDDLEWARE" -> "omits"
                  [] n = "companion" -> "false"

\* The tokens a setting may be written with, for a sane rule.
LEMMA TokensAre ==
    ASSUME NEW r, Sane(r), NEW n \in SettingNames
    PROVE  /\ IsFiniteSet(TokensOf(r, n))
           /\ n = "setting" => TokensOf(r, n) = RuleTokens(r)
           /\ RuleTokens(r) \subseteq {"bad", "hollow", "unknown", "local", "fine"}
           /\ n = "MIDDLEWARE" => TokensOf(r, n) = MiddlewareTokens(r)
           /\ n = "companion" => TokensOf(r, n) = CompanionTokens(r)
           /\ MiddlewareTokens(r) \in {{}, {"lists", "omits", "unknown"}, {"lists", "sets flag", "leaves flag", "foreign"}}
           /\ CompanionTokens(r) \in {{}, {"true", "false", "unknown"}, {"true", "false"}}
<1>1. RuleTokens(r) \subseteq {"bad", "hollow", "unknown", "local", "fine"}
  BY DEF RuleTokens, Sane
<1>2. MiddlewareTokens(r) \in {{}, {"lists", "omits", "unknown"}, {"lists", "sets flag", "leaves flag", "foreign"}}
  BY DEF MiddlewareTokens
<1>3. CompanionTokens(r) \in {{}, {"true", "false", "unknown"}, {"true", "false"}}
  BY DEF CompanionTokens
<1>4. /\ n = "setting" => TokensOf(r, n) = RuleTokens(r)
      /\ n = "MIDDLEWARE" => TokensOf(r, n) = MiddlewareTokens(r)
      /\ n = "companion" => TokensOf(r, n) = CompanionTokens(r)
  BY DEF TokensOf
<1> DEFINE all == {"bad", "hollow", "unknown", "local", "fine", "lists", "omits", "sets flag", "leaves flag",
                   "foreign", "true", "false"}
<1>5. TokensOf(r, n) \subseteq all
  BY <1>1, <1>2, <1>3, <1>4 DEF SettingNames
<1>6. IsFiniteSet(all)
  <2>1. \A S, x : IsFiniteSet(S) => IsFiniteSet(S \cup {x})
    BY FS_AddElement
  <2>2. IsFiniteSet({}) 
    BY FS_EmptySet
  <2>3. IsFiniteSet({} \cup {"bad"} \cup {"hollow"} \cup {"unknown"} \cup {"local"} \cup {"fine"} \cup {"lists"})
    BY <2>1, <2>2
  <2>4. IsFiniteSet({} \cup {"bad"} \cup {"hollow"} \cup {"unknown"} \cup {"local"} \cup {"fine"} \cup {"lists"}
                    \cup {"omits"} \cup {"sets flag"} \cup {"leaves flag"} \cup {"foreign"} \cup {"true"} \cup {"false"})
    BY <2>1, <2>3
  <2>5. all = {} \cup {"bad"} \cup {"hollow"} \cup {"unknown"} \cup {"local"} \cup {"fine"} \cup {"lists"}
                    \cup {"omits"} \cup {"sets flag"} \cup {"leaves flag"} \cup {"foreign"} \cup {"true"} \cup {"false"}
    OBVIOUS
  <2>6. QED
    BY <2>4, <2>5
<1>7. IsFiniteSet(TokensOf(r, n))
  BY <1>5, <1>6, FS_Subset
<1>8. QED
  BY <1>1, <1>2, <1>3, <1>4, <1>7

\* What is written of a setting is well formed.
LEMMA WritingIsOK ==
    ASSUME Sane(rule), NEW s \in Slots(rule), NEW a \in Plain(rule, s[2]) \cup Shaded(rule, s[2])
    PROVE  WrittenOK(s[2], a)
<1> DEFINE n == s[2]
           T == TokensOf(rule, n)
<1>1. n \in SettingNames /\ T # {}
  BY DEF Slots
<1>2. IsFiniteSet(T)
  BY <1>1, TokensAre
<1>3. PICK c, e, d, b : a = WrittenValue(c, e, d, b) /\ c \subseteq T \cup {"unknown"} /\ c # {}
                        /\ (b => rule.needs = "spelled out" /\ c = {"fine"})
  <2> HIDE DEF n, T
  <2>1. CASE a \in {WrittenValue({t}, FALSE, FALSE, FALSE) : t \in T}
    BY <2>1
  <2>2. CASE a \in {WrittenValue({t, "unknown"}, FALSE, FALSE, FALSE) : t \in T}
    BY <2>2
  <2>3. CASE a \in {WrittenValue(pair, FALSE, FALSE, FALSE) : pair \in kSubset(2, T \ {"unknown"})}
    <3>1. PICK pair \in kSubset(2, T \ {"unknown"}) : a = WrittenValue(pair, FALSE, FALSE, FALSE)
      BY <2>3
    <3>2. pair \in SUBSET (T \ {"unknown"}) /\ Cardinality(pair) = 2
      BY DEF kSubset
    <3>3. pair # {}
      BY <3>2, FS_EmptySet
    <3>4. QED
      BY <3>1, <3>2, <3>3
  <2>4. CASE a \in {WrittenValue({t}, TRUE, FALSE, FALSE) : t \in T \cap (rule.some \cup rule.every)}
    BY <2>4
  <2>5. CASE a \in {WrittenValue({t}, FALSE, TRUE, FALSE) : t \in T}
    BY <2>5
  <2>6. CASE a \in (IF rule.needs = "spelled out" THEN {WrittenValue({"fine"}, FALSE, FALSE, TRUE)} ELSE {})
    <3>1. rule.needs = "spelled out" /\ a = WrittenValue({"fine"}, FALSE, FALSE, TRUE)
      BY <2>6
    <3>2. "fine" \in T
      <4>1. MiddlewareTokens(rule) = {} /\ CompanionTokens(rule) = {}
        BY <3>1 DEF MiddlewareTokens, CompanionTokens
      <4>2. n = "setting"
        BY <1>1, <4>1, TokensAre DEF SettingNames, T
      <4>3. QED
        BY <4>2 DEF T, TokensOf, RuleTokens
    <3>3. QED
      BY <3>1, <3>2
  <2>7. QED
    BY <2>1, <2>2, <2>3, <2>4, <2>5, <2>6 DEF Plain, Shaded, T, n
<1>4. a.cases = c /\ a.adds = b
  BY <1>3 DEF WrittenValue
<1>5. IsFiniteSet(T \cup {"unknown"})
  BY <1>2, FS_AddElement
<1>6. IsFiniteSet(c)
  BY <1>3, <1>5, FS_Subset
<1>7. QED
  BY <1>3, <1>4, <1>6 DEF WrittenOK

\* What a module has for a setting: some of the tokens it may be, all of which are
\* written where it is assigned.
LEMMA ValuesAre ==
    ASSUME RiskyProjectOK, NEW m, NEW n \in SettingNames
    PROVE  /\ Get(m, n).cases # {} /\ IsFiniteSet(Get(m, n).cases)
           /\ IsAssigned(m, n) => Get(m, n).cases \subseteq TokensOf(rule, n) \cup {"unknown"}
           /\ IsAssigned(m, n) => TokensOf(rule, n) # {}
           /\ ~IsAssigned(m, n) => Get(m, n).cases = {DefaultOf(n)}
           /\ IsAssigned(m, n) <=> Writes(m, n) \/ Inherits(m, n)
<1> DEFINE B == project.own[<<Base, n>>].cases
           own == project.own[<<m, n>>]
           fits(c) == c # {} /\ IsFiniteSet(c) /\ c \subseteq TokensOf(rule, n) \cup {"unknown"}
<1>1. \A k : Writes(k, n) => fits(project.own[<<k, n>>].cases) /\ k \in Modules /\ TokensOf(rule, n) # {}
  BY DEF RiskyProjectOK, Writes, WrittenOK, Slots
<1>2. Inherits(m, n) => Writes(Base, n)
  BY DEF Inherits
<1>3. \A k \in Modules : k # Nowhere
  BY ModulesAreNumbered DEF Nowhere
<1>4. IsAssigned(m, n) <=> Writes(m, n) \/ Inherits(m, n)
  BY <1>1, <1>3, ModulesAreNumbered DEF IsAssigned, Definition
<1>5. fits({"unknown"})
  BY FS_Singleton
<1>6. ~Writes(m, n) /\ ~Inherits(m, n) => Get(m, n).cases = {DefaultOf(n)}
  BY DEF Get, DefaultOf
<1>7. ~Writes(m, n) /\ Inherits(m, n) => Get(m, n).cases = B
  BY DEF Get
<1>8. Writes(m, n) => \/ Inherits(m, n) /\ Get(m, n).cases \in {B, B \cup own.cases}
                      \/ Get(m, n).cases \in {{"unknown"}, own.cases}
  <2> SUFFICES ASSUME Writes(m, n)
               PROVE  \/ Inherits(m, n) /\ Get(m, n).cases \in {B, B \cup own.cases}
                      \/ Get(m, n).cases \in {{"unknown"}, own.cases}
    OBVIOUS
  <2>1. CASE own.adds /\ Inherits(m, n) /\ ~IsConditionalValue([cases |-> B, env |-> project.own[<<Base, n>>].env])
    BY <2>1 DEF Get
  <2>2. CASE own.adds /\ ~(Inherits(m, n) /\ ~IsConditionalValue([cases |-> B, env |-> project.own[<<Base, n>>].env]))
    BY <2>2 DEF Get
  <2>3. CASE ~own.adds /\ own.cond /\ Inherits(m, n)
    BY <2>3 DEF Get, Either
  <2>4. CASE ~own.adds /\ ~(own.cond /\ Inherits(m, n))
    BY <2>4 DEF Get
  <2>5. QED
    BY <2>1, <2>2, <2>3, <2>4
<1>9. \A c, d : fits(c) /\ fits(d) => fits(c \cup d)
  BY FS_Union
<1>10. ~IsAssigned(m, n) => fits({DefaultOf(n)}) \/ IsFiniteSet({DefaultOf(n)})
  BY FS_Singleton
<1> HIDE DEF fits, B, own
<1>11. IsAssigned(m, n) => fits(Get(m, n).cases)
  <2>1. CASE ~Writes(m, n)
    BY <1>1, <1>2, <1>4, <1>7, <2>1 DEF B
  <2>2. CASE Writes(m, n)
    <3>1. fits(own.cases) /\ (Inherits(m, n) => fits(B))
      BY <1>1, <1>2, <2>2 DEF own, B
    <3>2. QED
      BY <1>5, <1>8, <1>9, <2>2, <3>1
  <2>3. QED
    BY <2>1, <2>2
<1>12. QED
  BY <1>1, <1>2, <1>4, <1>6, <1>11, FS_Singleton DEF fits

-----------------------------------------------------------------------------
(* What a deployment runs with, of what is read.                           *)

\* What a deployment may run with, of what the resolver read.
LEMMA PossibleAre ==
    ASSUME RiskyProjectOK, Sane(rule), NEW m, NEW n \in SettingNames
    PROVE  /\ \A t \in Get(m, n).cases \ {"unknown", "foreign"} : t \in Possible(m, n)
           /\ "unknown" \in Get(m, n).cases => TokensOf(rule, n) \ {"unknown", "foreign"} \subseteq Possible(m, n)
           /\ "foreign" \in Get(m, n).cases => {"sets flag", "leaves flag"} \subseteq Possible(m, n)
           /\ \A t \in Get(m, n).cases \ {"unknown", "foreign"} :
                Get(m, n).cases = {t} /\ ~Doubtful(m, n) => Possible(m, n) = {t}
           /\ Possible(m, n) # {}
<1> DEFINE read == UNION {Concrete(n, token) : token \in Get(m, n).cases}
           else == IF Doubtful(m, n) /\ (Definition(m, n) = Base \/ ~Inherits(m, n))
                   THEN {DefaultOf(n)} ELSE {}
<1>1. Possible(m, n) = read \cup else
  BY DEF Possible, DefaultOf
<1>2. ~Doubtful(m, n) => else = {}
  OBVIOUS
<1>3. /\ \A t \in Get(m, n).cases \ {"unknown", "foreign"} : Concrete(n, t) = {t}
      /\ Concrete(n, "unknown") = TokensOf(rule, n) \ {"unknown", "foreign"}
      /\ Concrete(n, "foreign") = {"sets flag", "leaves flag"}
  BY DEF Concrete
<1>4. \A t \in Get(m, n).cases : Concrete(n, t) \subseteq read
  OBVIOUS
<1>5. \A t \in Get(m, n).cases \ {"unknown", "foreign"} : Get(m, n).cases = {t} => read = {t}
  <2>1. \A x : x \in read <=> \E token \in Get(m, n).cases : x \in Concrete(n, token)
    OBVIOUS
  <2> HIDE DEF read
  <2>2. QED
    BY <1>3, <2>1
<1>6. TokensOf(rule, n) # {} => TokensOf(rule, n) \ {"unknown", "foreign"} # {}
  <2>1. CASE n = "setting"
    <3>1. TokensOf(rule, n) = RuleTokens(rule)
      BY <2>1, TokensAre
    <3>2. "fine" \in RuleTokens(rule)
      BY DEF RuleTokens
    <3>3. QED
      BY <3>1, <3>2
  <2>2. CASE n = "MIDDLEWARE"
    <3>1. TokensOf(rule, n) \in {{}, {"lists", "omits", "unknown"}, {"lists", "sets flag", "leaves flag", "foreign"}}
      BY <2>2, TokensAre
    <3>2. TokensOf(rule, n) # {} => "lists" \in TokensOf(rule, n)
      BY <3>1
    <3>3. QED
      BY <3>2
  <2>3. CASE n = "companion"
    <3>1. TokensOf(rule, n) \in {{}, {"true", "false", "unknown"}, {"true", "false"}}
      BY <2>3, TokensAre
    <3>2. TokensOf(rule, n) # {} => "true" \in TokensOf(rule, n)
      BY <3>1
    <3>3. QED
      BY <3>2
  <2>4. QED
    BY <2>1, <2>2, <2>3 DEF SettingNames
<1>7. "unknown" \in Get(m, n).cases => TokensOf(rule, n) # {}
  <2>1. DefaultOf(n) # "unknown"
    BY DEF DefaultOf, Sane, SettingNames
  <2>2. QED
    BY <2>1, ValuesAre
<1>8. Get(m, n).cases # {}
  BY ValuesAre
<1> HIDE DEF read, else
<1>9. read # {}
  BY <1>3, <1>4, <1>6, <1>7, <1>8
<1>10. QED
  BY <1>1, <1>2, <1>3, <1>4, <1>5, <1>9

\* What is unsafe in one value read of a setting is.
LEMMA UnsafeIsDangerous ==
    ASSUME Sane(rule), NEW v, NEW t, v.cases = {t}, t # "unknown", Insecure(v)
    PROVE  t \in (rule.some \cup rule.every) \ {"unknown", "local"}
BY DEF Insecure, Sane

\* A middleware reported as missing may be missing.
LEMMA MissingIsOmitted ==
    ASSUME RiskyProjectOK, Sane(rule), NEW m, MiddlewareMissing(m),
           rule.needs \in {"security middleware", "security middleware, HSTS", "framing middleware"}
    PROVE  "omits" \in Possible(m, "MIDDLEWARE")
<1>1. "MIDDLEWARE" \in SettingNames
  BY DEF SettingNames
<1>2. MiddlewareTokens(rule) = {"lists", "omits", "unknown"}
  BY DEF MiddlewareTokens
<1>3. Get(m, "MIDDLEWARE").cases \subseteq {"lists", "omits", "unknown"} /\ Get(m, "MIDDLEWARE").cases # {}
  <2>1. TokensOf(rule, "MIDDLEWARE") = {"lists", "omits", "unknown"}
    BY <1>1, <1>2, TokensAre
  <2>2. IsAssigned(m, "MIDDLEWARE")
    BY DEF MiddlewareMissing
  <2>3. QED
    BY <1>1, <2>1, <2>2, ValuesAre
<1>4. "lists" \notin Get(m, "MIDDLEWARE").cases /\ "unknown" \notin Get(m, "MIDDLEWARE").cases
  BY DEF MiddlewareMissing, ListsEntry
<1>5. "omits" \in Get(m, "MIDDLEWARE").cases
  BY <1>3, <1>4
<1>6. QED
  BY <1>1, <1>5, PossibleAre

\* Of the other setting, what is not read to be so may not be.
LEMMA CompanionsAre ==
    ASSUME RiskyProjectOK, Sane(rule), NEW m, CompanionTokens(rule) # {}
    PROVE  /\ Get(m, "companion").cases \subseteq {"true", "false", "unknown"} /\ Get(m, "companion").cases # {}
           /\ "true" \notin Get(m, "companion").cases => "false" \in Possible(m, "companion")
           /\ "false" \notin Get(m, "companion").cases => "true" \in Possible(m, "companion")
           /\ "true" \in Get(m, "companion").cases => "true" \in Possible(m, "companion")
           /\ "false" \in Get(m, "companion").cases => "false" \in Possible(m, "companion")
           /\ "unknown" \in Get(m, "companion").cases =>
                {"true", "false"} \subseteq Possible(m, "companion")
<1>1. "companion" \in SettingNames
  BY DEF SettingNames
<1>2. CompanionTokens(rule) \in {{"true", "false", "unknown"}, {"true", "false"}}
      /\ TokensOf(rule, "companion") = CompanionTokens(rule)
  BY <1>1, TokensAre
<1>3. Get(m, "companion").cases \subseteq {"true", "false", "unknown"} /\ Get(m, "companion").cases # {}
  BY <1>1, <1>2, ValuesAre DEF DefaultOf
<1>4. /\ "true" \in Get(m, "companion").cases => "true" \in Possible(m, "companion")
      /\ "false" \in Get(m, "companion").cases => "false" \in Possible(m, "companion")
  BY <1>1, PossibleAre
<1>5. "unknown" \in Get(m, "companion").cases => {"true", "false"} \subseteq Possible(m, "companion")
  <2>1. "unknown" \in Get(m, "companion").cases =>
          TokensOf(rule, "companion") \ {"unknown", "foreign"} \subseteq Possible(m, "companion")
    BY <1>1, PossibleAre
  <2>2. {"true", "false"} \subseteq TokensOf(rule, "companion") \ {"unknown", "foreign"}
    BY <1>2
  <2>3. QED
    BY <2>1, <2>2
<1>6. QED
  BY <1>3, <1>4, <1>5

\* What a rule speaks of can happen to a module with one value it could read.
LEMMA SpokenIsExposed ==
    ASSUME RiskyProjectOK, Sane(rule), NEW m \in Modules, ReachesProduction(m), NEW standing \in Standing(m),
           standing # "foreign", Speaks(m, standing), NEW t, Value(m).cases = {t}, t # "unknown"
    PROVE  \E w \in Possible(m, "MIDDLEWARE"), c \in Possible(m, "companion") : Exposed(t, w, c)
<1> DEFINE danger == t \in (rule.some \cup rule.every) \ {"unknown", "local"}
           W == Possible(m, "MIDDLEWARE")
           C == Possible(m, "companion")
<1>1. InsecureHere(m) /\ Applies(m, standing)
  BY DEF Speaks
<1>2. Insecure(Value(m)) => danger
  BY UnsafeIsDangerous
<1>3. W # {} /\ C # {}
  BY PossibleAre DEF SettingNames
<1>4. CASE rule.needs = "security middleware"
  <2>1. danger \/ "omits" \in W
    BY <1>1, <1>2, <1>4, MissingIsOmitted DEF InsecureHere, NeedsSecurityMiddleware, InertHere
  <2>2. \A w \in W, c \in C : Exposed(t, w, c) <=> danger \/ w = "omits"
    BY <1>4 DEF Exposed
  <2>3. QED
    BY <1>3, <2>1, <2>2
<1>5. CASE rule.needs = "security middleware, HSTS"
  <2>1. danger \/ "omits" \in W
    BY <1>1, <1>2, <1>5, MissingIsOmitted DEF InsecureHere, NeedsSecurityMiddleware, InertHere
  <2>2. \A w \in W, c \in C : Exposed(t, w, c) <=> c = "true" /\ (danger \/ w = "omits")
    BY <1>5 DEF Exposed
  <2>3. "true" \in C
    <3>1. Get(m, "companion").cases = {"true"}
      BY <1>1, <1>5 DEF Applies
    <3>2. CompanionTokens(rule) # {}
      BY <1>5 DEF CompanionTokens
    <3>3. QED
      BY <3>1, <3>2, CompanionsAre
  <2>4. QED
    BY <1>3, <2>1, <2>2, <2>3
<1>6. CASE rule.needs = "framing middleware"
  <2>1. danger \/ "omits" \in W
    BY <1>1, <1>2, <1>6, MissingIsOmitted DEF InsecureHere, NeedsSecurityMiddleware
  <2>2. \A w \in W, c \in C : Exposed(t, w, c) <=> danger \/ w = "omits"
    BY <1>6 DEF Exposed
  <2>3. QED
    BY <1>3, <2>1, <2>2
<1>7. ASSUME ~NeedsSecurityMiddleware, rule.needs # "framing middleware"
      PROVE  danger
  BY <1>1, <1>2, <1>7 DEF InsecureHere
<1>8. CASE rule.needs = "cookie middleware"
  <2>1. danger
    BY <1>7, <1>8 DEF NeedsSecurityMiddleware
  <2>2. \A w \in W, c \in C : Exposed(t, w, c) <=> danger /\ w # "sets flag"
    BY <1>8 DEF Exposed
  <2>3. MiddlewareTokens(rule) = {"lists", "sets flag", "leaves flag", "foreign"}
    BY <1>8 DEF MiddlewareTokens
  <2>4. standing # "sets flag"
    BY <1>1, <1>8 DEF Applies
  <2> DEFINE read == Get(m, "MIDDLEWARE").cases
  <2>5. read # {} /\ read \subseteq {"lists", "sets flag", "leaves flag", "foreign", "unknown", "omits"}
    <3>1. "MIDDLEWARE" \in SettingNames /\ DefaultOf("MIDDLEWARE") = "omits"
      BY DEF SettingNames, DefaultOf
    <3>2. TokensOf(rule, "MIDDLEWARE") = {"lists", "sets flag", "leaves flag", "foreign"}
      BY <2>3, <3>1, TokensAre
    <3>3. QED
      BY <3>1, <3>2, ValuesAre
  <2>6. /\ "lists" \in read => "lists" \in W
        /\ "leaves flag" \in read => "leaves flag" \in W
        /\ "omits" \in read => "omits" \in W
    BY PossibleAre DEF SettingNames
  <2>7. "unknown" \in read => "lists" \in W
    <3>1. "unknown" \in read => TokensOf(rule, "MIDDLEWARE") \ {"unknown", "foreign"} \subseteq W
      BY PossibleAre DEF SettingNames
    <3>2. "lists" \in TokensOf(rule, "MIDDLEWARE") \ {"unknown", "foreign"}
      BY <2>3, TokensAre DEF SettingNames
    <3>3. QED
      BY <3>1, <3>2
  <2>8. Standing(m) = IF Replacements(m) # {} THEN Replacements(m) ELSE {"nothing"}
    BY <1>8 DEF Standing
  <2>9. Replacements(m) = IF "lists" \in read THEN {} ELSE read \cap {"sets flag", "leaves flag", "foreign"}
    BY DEF Replacements
  <2> HIDE DEF read, W
  <2>10. \E w \in W : w # "sets flag"
    <3>1. CASE Replacements(m) # {}
      BY <2>4, <2>6, <2>8, <2>9, <3>1
    <3>2. CASE Replacements(m) = {}
      BY <2>5, <2>6, <2>7, <2>9, <3>2
    <3>3. QED
      BY <3>1, <3>2
  <2>11. QED
    BY <1>3, <2>1, <2>2, <2>10 DEF W
<1>9. CASE rule.needs = "DEBUG off"
  <2>1. danger
    BY <1>7, <1>9 DEF NeedsSecurityMiddleware
  <2>2. \A w \in W, c \in C : Exposed(t, w, c) <=> t = "bad" \/ (danger /\ c = "false")
    BY <1>9 DEF Exposed
  <2>3. t = "bad" \/ ~CouldBeTrue(m)
    BY <1>1, <1>9 DEF Applies, Wildcarded
  <2>4. ~CouldBeTrue(m) => "false" \in C
    BY <1>9, CompanionsAre DEF CouldBeTrue, CompanionTokens
  <2>5. QED
    BY <1>3, <2>1, <2>2, <2>3, <2>4
<1>10. CASE rule.needs \in {"credentials withheld", "credentials sent"}
  <2>1. danger
    BY <1>7, <1>10 DEF NeedsSecurityMiddleware
  <2>2. "lists" \in W
    <3>1. Get(m, "MIDDLEWARE").cases \cap {"lists", "unknown"} # {}
      BY <1>1, <1>10 DEF Applies, CorsInstalled, ListsEntry
    <3>2. TokensOf(rule, "MIDDLEWARE") = {"lists", "omits", "unknown"}
      BY <1>10, TokensAre DEF MiddlewareTokens, SettingNames
    <3>3. "unknown" \in Get(m, "MIDDLEWARE").cases => TokensOf(rule, "MIDDLEWARE") \ {"unknown", "foreign"} \subseteq W
      BY PossibleAre DEF SettingNames
    <3>4. "lists" \in Get(m, "MIDDLEWARE").cases => "lists" \in W
      BY PossibleAre DEF SettingNames
    <3>5. QED
      BY <3>1, <3>2, <3>3, <3>4
  <2>3. CompanionTokens(rule) # {}
    BY <1>10 DEF CompanionTokens
  <2>4. CASE rule.needs = "credentials withheld"
    <3>1. "false" \in C
      BY <1>1, <2>3, <2>4, CompanionsAre DEF Applies, CouldBeTrue
    <3>2. Exposed(t, "lists", "false")
      BY <2>1, <2>4 DEF Exposed
    <3>3. QED
      BY <2>2, <3>1, <3>2
  <2>5. CASE rule.needs = "credentials sent"
    <3>1. "true" \in C
      BY <1>1, <2>3, <2>5, CompanionsAre DEF Applies, CouldBeTrue
    <3>2. Exposed(t, "lists", "true")
      BY <2>1, <2>5 DEF Exposed
    <3>3. QED
      BY <2>2, <3>1, <3>2
  <2>6. QED
    BY <1>10, <2>4, <2>5
<1>11. CASE rule.needs = "auth app"
  <2>1. danger
    BY <1>7, <1>11 DEF NeedsSecurityMiddleware
  <2>2. Get(m, "companion").cases # {"false"}
    BY <1>1, <1>11 DEF Applies
  <2>3. CompanionTokens(rule) # {}
    BY <1>11 DEF CompanionTokens
  <2>4. "true" \in C
    BY <2>2, <2>3, CompanionsAre
  <2>5. \A w \in W : Exposed(t, w, "true")
    BY <1>11, <2>1 DEF Exposed
  <2>6. QED
    BY <1>3, <2>4, <2>5
<1>12. CASE rule.needs = "no reference"
  <2>1. danger
    BY <1>7, <1>12 DEF NeedsSecurityMiddleware
  <2>2. IsListed(m)
    BY DEF ReachesProduction, IsListed
  <2>3. ~CouldBeTrue(m)
    BY <1>1, <1>12, <2>2 DEF Applies
  <2>4. CompanionTokens(rule) # {}
    BY <1>12 DEF CompanionTokens
  <2>5. "false" \in C
    BY <2>3, <2>4, CompanionsAre DEF CouldBeTrue
  <2>6. \A w \in W : Exposed(t, w, "false")
    BY <1>12, <2>1 DEF Exposed
  <2>7. QED
    BY <1>3, <2>5, <2>6
<1>13. CASE rule.needs \in {"nothing", "role", "spelled out"}
  <2>1. danger
    BY <1>7, <1>13 DEF NeedsSecurityMiddleware
  <2>2. \A w, c : Exposed(t, w, c)
    BY <1>13, <2>1 DEF Exposed
  <2>3. QED
    BY <1>3, <2>2
<1>14. QED
  BY <1>4, <1>5, <1>6, <1>8, <1>9, <1>10, <1>11, <1>12, <1>13 DEF Sane, Needs

Dangers == (rule.some \cup rule.every) \ {"unknown", "local"}

\* A setting that is unsafe whatever it turns out to be is read as unsafe.
LEMMA DangerIsRead ==
    ASSUME RiskyProjectOK, Sane(rule), NEW m, Judged(m), Possible(m, "setting") \subseteq Dangers
    PROVE  Insecure(Value(m))
<1> DEFINE read == Value(m).cases
<1>1. "setting" \in SettingNames /\ Value(m) = Get(m, "setting")
  BY DEF SettingNames, Value
<1>2. TokensOf(rule, "setting") = RuleTokens(rule) /\ "fine" \in RuleTokens(rule)
  BY <1>1, TokensAre DEF RuleTokens
<1>3. "fine" \notin Dangers
  BY DEF Dangers, Sane
<1>4. "unknown" \notin read
  <2>1. "unknown" \in read => TokensOf(rule, "setting") \ {"unknown", "foreign"} \subseteq Possible(m, "setting")
    BY <1>1, PossibleAre
  <2>2. "fine" \in TokensOf(rule, "setting") \ {"unknown", "foreign"}
    BY <1>2
  <2>3. QED
    BY <1>3, <2>1, <2>2
<1>5. "foreign" \notin read
  <2>1. TokensOf(rule, "setting") \subseteq {"bad", "hollow", "unknown", "local", "fine"}
    BY <1>1, <1>2, TokensAre
  <2>2. DefaultOf("setting") # "foreign"
    BY DEF DefaultOf, Sane
  <2>3. QED
    BY <1>1, <2>1, <2>2, ValuesAre
<1>6. \A t \in read : t \in Dangers
  <2>1. \A t \in read \ {"unknown", "foreign"} : t \in Possible(m, "setting")
    BY <1>1, PossibleAre
  <2>2. QED
    BY <1>4, <1>5, <2>1
<1>7. read # {}
  BY <1>1, ValuesAre
<1>8. rule.single => ~IsConditionalValue(Value(m))
  BY DEF Judged
<1> HIDE DEF read
<1>9. read \cap rule.some # {} \/ (read \subseteq rule.every /\ read \notin {{"unknown"}, {"local"}})
  BY <1>6, <1>7 DEF Dangers
<1>10. QED
  BY <1>8, <1>9 DEF Insecure, read

\* A middleware that every deployment does without is read as missing.
LEMMA OmissionIsRead ==
    ASSUME RiskyProjectOK, Sane(rule), NEW m, Deployable(m), Possible(m, "MIDDLEWARE") \subseteq {"omits"},
           rule.needs \in {"security middleware", "security middleware, HSTS", "framing middleware"}
    PROVE  MiddlewareMissing(m)
<1> DEFINE read == Get(m, "MIDDLEWARE").cases
<1>1. "MIDDLEWARE" \in SettingNames /\ MiddlewareTokens(rule) = {"lists", "omits", "unknown"}
  BY DEF SettingNames, MiddlewareTokens
<1>2. IsAssigned(m, "MIDDLEWARE")
  BY <1>1 DEF Deployable
<1>3. "lists" \in read => "lists" \in Possible(m, "MIDDLEWARE")
  BY <1>1, PossibleAre
<1>4. "unknown" \in read => TokensOf(rule, "MIDDLEWARE") \ {"unknown", "foreign"} \subseteq Possible(m, "MIDDLEWARE")
  BY <1>1, PossibleAre
<1>5. "lists" \in TokensOf(rule, "MIDDLEWARE") \ {"unknown", "foreign"}
  <2>1. TokensOf(rule, "MIDDLEWARE") = MiddlewareTokens(rule)
    BY <1>1, TokensAre
  <2>2. QED
    BY <1>1, <2>1
<1>6. QED
  BY <1>2, <1>3, <1>4, <1>5 DEF MiddlewareMissing, ListsEntry

\* A setting that can only be unsafe in its worst form is read in that form.
LEMMA DangerIsBad ==
    ASSUME RiskyProjectOK, Sane(rule), NEW m, Possible(m, "setting") \subseteq {"bad"}
    PROVE  Get(m, "setting").cases = {"bad"}
<1>1. "setting" \in SettingNames
  BY DEF SettingNames
<1>2. TokensOf(rule, "setting") = RuleTokens(rule) /\ "fine" \in RuleTokens(rule)
  BY <1>1, TokensAre DEF RuleTokens
<1> DEFINE read == Get(m, "setting").cases
<1>3. "unknown" \notin read
  <2>1. "unknown" \in read => TokensOf(rule, "setting") \ {"unknown", "foreign"} \subseteq Possible(m, "setting")
    BY <1>1, PossibleAre
  <2>2. QED
    BY <1>2, <2>1
<1>4. "foreign" \notin read
  <2>1. TokensOf(rule, "setting") \subseteq {"bad", "hollow", "unknown", "local", "fine"}
    BY <1>1, <1>2, TokensAre
  <2>2. DefaultOf("setting") # "foreign"
    BY DEF DefaultOf, Sane
  <2>3. QED
    BY <1>1, <2>1, <2>2, ValuesAre
<1>5. \A t \in read \ {"unknown", "foreign"} : t = "bad"
  BY <1>1, PossibleAre
<1>6. read # {}
  BY <1>1, ValuesAre
<1>7. QED
  BY <1>3, <1>4, <1>5, <1>6

\* A risk that every deployment runs is one that the rule speaks of.
LEMMA ExposedIsSpoken ==
    ASSUME RiskyProjectOK, Sane(rule), NEW m \in Modules, Deployable(m), Judged(m), IsExposed(m)
    PROVE  /\ InsecureHere(m)
           /\ rule.needs # "spelled out" => \A standing \in Standing(m) : Applies(m, standing)
<1> DEFINE S == Possible(m, "setting")
           W == Possible(m, "MIDDLEWARE")
           C == Possible(m, "companion")
<1>1. S # {} /\ W # {} /\ C # {}
  BY PossibleAre DEF SettingNames
<1>2. \A s \in S, w \in W, c \in C : Exposed(s, w, c)
  BY DEF IsExposed
<1>3. (\A s \in S : s \in Dangers) => Insecure(Value(m))
  BY DangerIsRead
<1>4. W \subseteq {"omits"} /\ rule.needs \in {"security middleware", "security middleware, HSTS", "framing middleware"}
        => MiddlewareMissing(m)
  BY OmissionIsRead
<1>5. NeedsSecurityMiddleware => Origin(m) = "explicit" \/ Insecure(Value(m))
  BY DEF Judged
<1>6. CompanionTokens(rule) # {} =>
        /\ "true" \in Get(m, "companion").cases => "true" \in C
        /\ "false" \in Get(m, "companion").cases => "false" \in C
        /\ "unknown" \in Get(m, "companion").cases => "true" \in C /\ "false" \in C
        /\ Get(m, "companion").cases \subseteq {"true", "false", "unknown"}
        /\ Get(m, "companion").cases # {}
  BY CompanionsAre
<1> HIDE DEF S, W, C
<1>7. CASE rule.needs \in {"security middleware", "security middleware, HSTS"}
  <2>1. \A s \in S, w \in W, c \in C : s \in Dangers \/ w = "omits"
    BY <1>2, <1>7 DEF Exposed, Dangers
  <2>2. (\A s \in S : s \in Dangers) \/ W \subseteq {"omits"}
    BY <1>1, <2>1
  <2>3. Insecure(Value(m)) \/ MiddlewareMissing(m)
    BY <1>3, <1>4, <1>7, <2>2
  <2>4. InsecureHere(m)
    BY <1>5, <1>7, <2>3 DEF InsecureHere, InertHere, NeedsSecurityMiddleware
  <2>5. rule.needs = "security middleware, HSTS" => Get(m, "companion").cases = {"true"}
    <3>1. ASSUME rule.needs = "security middleware, HSTS" PROVE C \subseteq {"true"} /\ CompanionTokens(rule) # {}
      BY <1>1, <1>2, <3>1 DEF Exposed, CompanionTokens
    <3>2. QED
      BY <1>6, <3>1
  <2>6. QED
    BY <1>7, <2>4, <2>5 DEF Applies
<1>8. CASE rule.needs = "framing middleware"
  <2>1. \A s \in S, w \in W, c \in C : s \in Dangers \/ w = "omits"
    BY <1>2, <1>8 DEF Exposed, Dangers
  <2>2. (\A s \in S : s \in Dangers) \/ W \subseteq {"omits"}
    BY <1>1, <2>1
  <2>3. QED
    BY <1>3, <1>4, <1>8, <2>2 DEF InsecureHere, NeedsSecurityMiddleware, Applies
<1>9. ASSUME ~NeedsSecurityMiddleware, rule.needs # "framing middleware", \A s \in S : s \in Dangers
      PROVE  InsecureHere(m)
  BY <1>3, <1>9 DEF InsecureHere
<1>10. CASE rule.needs = "cookie middleware"
  <2>1. \A s \in S, w \in W, c \in C : s \in Dangers /\ w # "sets flag"
    BY <1>2, <1>10 DEF Exposed, Dangers
  <2>2. InsecureHere(m)
    BY <1>1, <1>9, <1>10, <2>1 DEF NeedsSecurityMiddleware
  <2>3. "sets flag" \notin Get(m, "MIDDLEWARE").cases
    BY <1>1, <2>1, PossibleAre DEF SettingNames, W
  <2>4. \A standing \in Standing(m) : standing # "sets flag"
    BY <1>10, <2>3 DEF Standing, Replacements
  <2>5. QED
    BY <1>10, <2>2, <2>4 DEF Applies
<1>11. CASE rule.needs = "DEBUG off"
  <2>1. \A s \in S, w \in W, c \in C : s = "bad" \/ (s \in Dangers /\ c = "false")
    BY <1>2, <1>11 DEF Exposed, Dangers
  <2>2. "bad" \in Dangers
    BY <1>11 DEF Sane, Dangers
  <2>3. InsecureHere(m)
    BY <1>1, <1>9, <1>11, <2>1, <2>2 DEF NeedsSecurityMiddleware
  <2>4. Wildcarded(m) \/ ~CouldBeTrue(m)
    <3> SUFFICES ASSUME CouldBeTrue(m)
                 PROVE  Wildcarded(m)
      OBVIOUS
    <3>1. "true" \in C
      BY <1>6, <1>11 DEF CouldBeTrue, CompanionTokens
    <3>2. S \subseteq {"bad"}
      BY <1>1, <2>1, <3>1
    <3>3. "setting" \in SettingNames /\ TokensOf(rule, "setting") = RuleTokens(rule)
      BY TokensAre DEF SettingNames
    <3>4. Get(m, "setting").cases = {"bad"}
      BY <3>2, <3>3, DangerIsBad DEF S
    <3>5. QED
      BY <3>4 DEF Wildcarded, Value
  <2>5. QED
    BY <1>11, <2>3, <2>4 DEF Applies
<1>12. CASE rule.needs \in {"credentials withheld", "credentials sent"}
  <2>1. \A s \in S, w \in W, c \in C :
           s \in Dangers /\ w = "lists" /\ c = (IF rule.needs = "credentials sent" THEN "true" ELSE "false")
    BY <1>2, <1>12 DEF Exposed, Dangers
  <2>2. InsecureHere(m)
    BY <1>1, <1>9, <1>12, <2>1 DEF NeedsSecurityMiddleware
  <2>3. CorsInstalled(m)
    <3>1. "MIDDLEWARE" \in SettingNames
      BY DEF SettingNames
    <3>2. TokensOf(rule, "MIDDLEWARE") = {"lists", "omits", "unknown"}
      BY <1>12, <3>1, TokensAre DEF MiddlewareTokens
    <3>3. Get(m, "MIDDLEWARE").cases \subseteq {"lists", "omits", "unknown"} /\ Get(m, "MIDDLEWARE").cases # {}
      <4>1. DefaultOf("MIDDLEWARE") = "omits"
        BY DEF DefaultOf
      <4>2. QED
        BY <3>1, <3>2, <4>1, ValuesAre
    <3>4. "omits" \notin Get(m, "MIDDLEWARE").cases
      <4>1. "omits" \notin W
        BY <1>1, <2>1
      <4>2. QED
        BY <3>1, <4>1, PossibleAre DEF W
    <3>5. "lists" \in Get(m, "MIDDLEWARE").cases \/ "unknown" \in Get(m, "MIDDLEWARE").cases
      BY <3>3, <3>4
    <3>6. QED
      BY <3>5 DEF CorsInstalled, ListsEntry
  <2>4. CompanionTokens(rule) # {}
    BY <1>12 DEF CompanionTokens
  <2>5. CASE rule.needs = "credentials withheld"
    <3>1. C \subseteq {"false"}
      BY <1>1, <2>1, <2>5
    <3>2. ~CouldBeTrue(m)
      BY <1>6, <2>4, <3>1 DEF CouldBeTrue
    <3>3. QED
      BY <2>2, <2>3, <2>5, <3>2 DEF Applies
  <2>6. CASE rule.needs = "credentials sent"
    <3>1. C \subseteq {"true"}
      BY <1>1, <2>1, <2>6
    <3>2. CouldBeTrue(m)
      BY <1>6, <2>4, <3>1 DEF CouldBeTrue
    <3>3. QED
      BY <2>2, <2>3, <2>6, <3>2 DEF Applies
  <2>7. QED
    BY <1>12, <2>5, <2>6
<1>13. CASE rule.needs = "auth app"
  <2>1. \A s \in S, w \in W, c \in C : s \in Dangers /\ c = "true"
    BY <1>2, <1>13 DEF Exposed, Dangers
  <2>2. InsecureHere(m)
    BY <1>1, <1>9, <1>13, <2>1 DEF NeedsSecurityMiddleware
  <2>3. Get(m, "companion").cases # {"false"}
    BY <1>1, <1>6, <1>13, <2>1 DEF CompanionTokens
  <2>4. QED
    BY <1>13, <2>2, <2>3 DEF Applies
<1>14. CASE rule.needs = "no reference"
  <2>1. \A s \in S, w \in W, c \in C : s \in Dangers
    BY <1>2, <1>14 DEF Exposed, Dangers
  <2>2. InsecureHere(m)
    BY <1>1, <1>9, <1>14, <2>1 DEF NeedsSecurityMiddleware
  <2>3. Applies(m, "nothing")
    BY <1>14 DEF Judged
  <2>4. Standing(m) = {"nothing"}
    BY <1>14 DEF Standing
  <2>5. QED
    BY <2>2, <2>3, <2>4
<1>15. CASE rule.needs \in {"nothing", "role", "spelled out"}
  <2>1. \A s \in S, w \in W, c \in C : s \in Dangers
    BY <1>2, <1>15 DEF Exposed, Dangers
  <2>2. InsecureHere(m)
    BY <1>1, <1>9, <1>15, <2>1 DEF NeedsSecurityMiddleware
  <2>3. QED
    BY <1>15, <2>2 DEF Applies
<1>16. QED
  BY <1>7, <1>8, <1>10, <1>11, <1>12, <1>13, <1>14, <1>15 DEF Sane, Needs

-----------------------------------------------------------------------------
(* What a finding on a group rests on.                                     *)

\* What inspect() reports of the leader of a group, whatever it noted before.
WillBeReported(m) ==
    /\ Origin(m) # "unresolved" /\ (rule.explicit => Origin(m) = "explicit")
    /\ ~LeftToTheHeirs(m)
    /\ \A standing \in Standing(m) : Speaks(m, standing)

FirmlyFounded(f) ==
    /\ f.confidence <= Firm => MayBeExposed(f.leader)
    /\ f.confidence = AtCertain /\ Settled(f.leader, "MIDDLEWARE")
           /\ Settled(f.leader, "companion") => IsExposed(f.leader)

HasFinding(g) == \E f \in findings : f.modules = g

RiskInv ==
    /\ RiskyProjectOK
    /\ begun \in BOOLEAN
    /\ ~begun => waiting = {} /\ findings = {}
    /\ waiting \subseteq Groups \/ ~begun
    /\ \A f \in findings : FirmlyFounded(f)
    /\ begun => \A g \in Groups \ waiting : \E m \in g : Leads(m, g) /\ (WillBeReported(m) => HasFinding(g))

\* A group is of modules that production reaches.
LEMMA GroupsAreMembers ==
    ASSUME NEW g \in Groups
    PROVE  /\ g \subseteq Modules
           /\ \A m \in g : ReachesProduction(m)
BY DEF Groups, Members

\* One module at most leads a group.
LEMMA LeadersAreUnique ==
    ASSUME NEW g, g \subseteq Modules, NEW m, NEW k, Leads(m, g), Leads(k, g)
    PROVE  m = k
<1>1. m \in g /\ k \in g /\ m \in Nat /\ k \in Nat
  BY ModulesAreNumbered DEF Leads
<1>2. Weight(m) \in Nat /\ Weight(k) \in Nat
  BY DEF Weight
<1>3. QED
  BY <1>1, <1>2 DEF Leads

\* Where neither the rule nor the project changes, nothing read off them does.
LEMMA RisksStay ==
    ASSUME UNCHANGED <<rule, project>>
    PROVE  /\ RiskyProjectOK => RiskyProjectOK'
           /\ Groups' = Groups
           /\ \A m, g : Leads(m, g)' <=> Leads(m, g)
           /\ \A m : WillBeReported(m)' <=> WillBeReported(m)
           /\ \A f : FirmlyFounded(f)' <=> FirmlyFounded(f)
<1>1. \A m, n : Get(m, n)' = Get(m, n)
  BY DEF Get, Writes, Inherits, Either, IsConditionalValue
<1>2. \A m, n : Definition(m, n)' = Definition(m, n) /\ (Inherits(m, n)' <=> Inherits(m, n))
                /\ (Writes(m, n)' <=> Writes(m, n))
  BY DEF Definition, Writes, Inherits
<1>3. \A m : Weight(m)' = Weight(m) /\ (ReachesProduction(m)' <=> ReachesProduction(m))
             /\ (IsListed(m)' <=> IsListed(m))
  BY DEF Weight, ReachesProduction, IsListed
<1>4. \A m, n : (Doubtful(m, n)' <=> Doubtful(m, n)) /\ (IsAssigned(m, n)' <=> IsAssigned(m, n))
  BY <1>2 DEF Doubtful, IsAssigned
<1>5. \A m, n : Possible(m, n)' = Possible(m, n)
  <2>1. \A n, t : Concrete(n, t)' = Concrete(n, t)
    BY DEF Concrete, TokensOf, RuleTokens, MiddlewareTokens, CompanionTokens
  <2>2. QED
    BY <1>1, <1>2, <1>4, <2>1 DEF Possible
<1>6. \A s, w, c : Exposed(s, w, c)' <=> Exposed(s, w, c)
  BY DEF Exposed
<1>7. \A f : FirmlyFounded(f)' <=> FirmlyFounded(f)
  BY <1>5, <1>6 DEF FirmlyFounded, MayBeExposed, IsExposed, Settled
<1>8. \A m : (Origin(m)' = Origin(m)) /\ Value(m)' = Value(m)
  BY <1>1, <1>4 DEF Origin, Value, IsUnknownValue
<1>9. \A v : Insecure(v)' <=> Insecure(v)
  BY DEF Insecure
<1>10. \A m : (InsecureHere(m)' <=> InsecureHere(m)) /\ Standing(m)' = Standing(m)
  BY <1>1, <1>4, <1>8, <1>9
     DEF InsecureHere, InertHere, NeedsSecurityMiddleware, MiddlewareMissing, ListsEntry, Standing, Replacements
<1>11. \A m, standing : Applies(m, standing)' <=> Applies(m, standing)
  BY <1>1, <1>2, <1>3, <1>8 DEF Applies, Wildcarded, CouldBeTrue, CorsInstalled, ListsEntry
<1>12. \A m : LeftToTheHeirs(m)' <=> LeftToTheHeirs(m)
  BY <1>3, <1>4, <1>8, <1>9 DEF LeftToTheHeirs, Overridden, Heirs, Safe
<1>13. \A m : WillBeReported(m)' <=> WillBeReported(m)
  BY <1>8, <1>10, <1>11, <1>12 DEF WillBeReported, Speaks
<1>14. \A m, g : Leads(m, g)' <=> Leads(m, g)
  BY <1>3 DEF Leads
<1>15. Groups' = Groups
  BY <1>2, <1>3 DEF Groups, Members
<1>16. RiskyProjectOK => RiskyProjectOK'
  BY DEF RiskyProjectOK, Slots, WrittenOK, TokensOf, RuleTokens, MiddlewareTokens, CompanionTokens
<1>17. QED
  BY <1>7, <1>13, <1>14, <1>15, <1>16

\* Lowering a confidence stops at the lowest.
LEMMA LowerIs ==
    ASSUME NEW ceiling \in {AtCertain, Firm, Tentative}, NEW steps \in Nat
    PROVE  Lower(ceiling, steps) = IF ceiling + steps <= Tentative THEN ceiling + steps ELSE Tentative
<1>1. {ceiling + steps, Tentative} \in SUBSET Int /\ ceiling + steps \in Int
  BY DEF AtCertain, Firm, Tentative
<1>2. CASE ceiling + steps <= Tentative
  <2>1. \A y \in {ceiling + steps, Tentative} : ceiling + steps <= y
    BY <1>1, <1>2
  <2>2. QED
    BY <1>1, <1>2, <2>1, MinIs DEF Lower
<1>3. CASE ~(ceiling + steps <= Tentative)
  <2>1. \A y \in {ceiling + steps, Tentative} : Tentative <= y
    BY <1>1, <1>3 DEF Tentative
  <2>2. QED
    BY <1>1, <1>3, <2>1, MinIs DEF Lower
<1>4. QED
  BY <1>2, <1>3

\* Nothing uncertain is passed off as firm: a value that could be several things
\* costs a finding both of its steps, one in a block that may not run costs one.
LEMMA FirmnessIsPaidFor ==
    ASSUME NEW m, Origin(m) # "unresolved", NEW ceiling \in {AtCertain, Firm, Tentative}
    PROVE  /\ Lower(ceiling, StepsBelow(m)) <= Firm => ceiling # Tentative /\ ~IsConditionalValue(Value(m))
           /\ Lower(ceiling, StepsBelow(m)) = AtCertain => ~Doubtful(m, "setting")
<1>1. StepsBelow(m) \in Nat /\ (IsConditionalValue(Value(m)) => StepsBelow(m) >= 2)
      /\ (Doubtful(m, "setting") => StepsBelow(m) >= 1)
  <2> DEFINE a == IF IsConditionalValue(Value(m)) THEN 2 ELSE 0
             b == IF Doubtful(m, "setting") THEN 1 ELSE 0
             c == IF Value(m).env THEN 1 ELSE 0
             d == IF Origin(m) = "django default" THEN 1 ELSE 0
  <2>1. StepsBelow(m) = a + b + c + d
    BY DEF StepsBelow
  <2>2. a \in {0, 2} /\ b \in {0, 1} /\ c \in {0, 1} /\ d \in {0, 1}
    OBVIOUS
  <2>3. (IsConditionalValue(Value(m)) => a = 2) /\ (Doubtful(m, "setting") => b = 1)
    OBVIOUS
  <2> HIDE DEF a, b, c, d
  <2>4. QED
    BY <2>1, <2>2, <2>3
<1>2. Lower(ceiling, StepsBelow(m)) = IF ceiling + StepsBelow(m) <= Tentative
                                      THEN ceiling + StepsBelow(m) ELSE Tentative
  BY <1>1, LowerIs
<1>3. QED
  BY <1>1, <1>2 DEF AtCertain, Firm, Tentative

\* A value that can be read, and not two ways, is one token.
LEMMA ReadValuesAreTokens ==
    ASSUME RiskyProjectOK, Sane(rule), NEW m, Origin(m) # "unresolved", ~IsConditionalValue(Value(m))
    PROVE  \E t : Value(m).cases = {t} /\ t \notin {"unknown", "foreign"}
<1>1. "setting" \in SettingNames
  BY DEF SettingNames
<1> DEFINE read == Get(m, "setting").cases
<1>2. read # {} /\ IsFiniteSet(read) /\ Value(m).cases = read
  BY <1>1, ValuesAre DEF Value
<1>3. Cardinality(read) \in Nat /\ Cardinality(read) # 0
  BY <1>2, FS_CardinalityType, FS_EmptySet
<1>4. Cardinality(read) = 1
  BY <1>2, <1>3 DEF IsConditionalValue
<1>5. PICK t : read = {t}
  BY <1>2, <1>4, FS_Singleton
<1>6. t # "unknown"
  <2>1. CASE IsAssigned(m, "setting")
    BY <1>2, <1>5, <2>1 DEF Origin, IsUnknownValue
  <2>2. CASE ~IsAssigned(m, "setting")
    <3>1. DefaultOf("setting") # "unknown"
      BY DEF DefaultOf, Sane
    <3>2. QED
      BY <1>1, <1>5, <2>2, <3>1, ValuesAre
  <2>3. QED
    BY <2>1, <2>2
<1>7. t # "foreign"
  <2>1. TokensOf(rule, "setting") \subseteq {"bad", "hollow", "unknown", "local", "fine"}
    BY <1>1, TokensAre
  <2>2. DefaultOf("setting") # "foreign"
    BY DEF DefaultOf, Sane
  <2>3. QED
    BY <1>1, <1>5, <2>1, <2>2, ValuesAre
<1>8. QED
  BY <1>2, <1>5, <1>6, <1>7

\* A setting that is settled has one value.
LEMMA SettledIsOne ==
    ASSUME RiskyProjectOK, Sane(rule), NEW m, NEW n \in SettingNames, Settled(m, n), NEW x \in Possible(m, n)
    PROVE  Possible(m, n) = {x}
<1> DEFINE T == TokensOf(rule, n) \cup {"unknown", DefaultOf(n), "sets flag", "leaves flag"}
<1>1. IsFiniteSet(T)
  <2>1. IsFiniteSet(TokensOf(rule, n))
    BY TokensAre
  <2>2. \A S, y : IsFiniteSet(S) => IsFiniteSet(S \cup {y})
    BY FS_AddElement
  <2>3. IsFiniteSet(TokensOf(rule, n) \cup {"unknown"} \cup {DefaultOf(n)} \cup {"sets flag"} \cup {"leaves flag"})
    BY <2>1, <2>2
  <2>4. T = TokensOf(rule, n) \cup {"unknown"} \cup {DefaultOf(n)} \cup {"sets flag"} \cup {"leaves flag"}
    OBVIOUS
  <2>5. QED
    BY <2>3, <2>4
<1>2. Possible(m, n) \subseteq T
  <2>1. Get(m, n).cases \subseteq TokensOf(rule, n) \cup {"unknown", DefaultOf(n)}
    BY ValuesAre
  <2>2. \A t : Concrete(n, t) \subseteq TokensOf(rule, n) \cup {"sets flag", "leaves flag", t}
    BY DEF Concrete
  <2>3. \A t \in Get(m, n).cases : Concrete(n, t) \subseteq T
    <3>1. \A t \in Get(m, n).cases : t \in T
      BY <2>1
    <3>2. TokensOf(rule, n) \cup {"sets flag", "leaves flag"} \subseteq T
      OBVIOUS
    <3>3. SUFFICES ASSUME NEW t \in Get(m, n).cases
                   PROVE  Concrete(n, t) \subseteq T
      OBVIOUS
    <3>4. t \in T /\ Concrete(n, t) \subseteq TokensOf(rule, n) \cup {"sets flag", "leaves flag", t}
      BY <2>2, <3>1
    <3> HIDE DEF T
    <3>5. QED
      BY <3>2, <3>4
  <2> HIDE DEF T
  <2>4. (UNION {Concrete(n, t) : t \in Get(m, n).cases}) \subseteq T
    BY <2>3
  <2>5. DefaultOf(n) \in T
    BY DEF T
  <2>6. Possible(m, n) \subseteq (UNION {Concrete(n, t) : t \in Get(m, n).cases}) \cup {DefaultOf(n)}
    BY DEF Possible, DefaultOf
  <2>7. QED
    BY <2>4, <2>5, <2>6
<1>3. \E y : Possible(m, n) = {y}
  BY <1>1, <1>2, FS_Subset, FS_Singleton DEF Settled
<1>4. QED
  BY <1>3

\* A finding made in the turn of a group rests on what a deployment does.
LEMMA ReportsAreFounded ==
    ASSUME RiskyProjectOK, Sane(rule), NEW m \in Modules, ReachesProduction(m), NEW g,
           NEW standing \in Standing(m), Report(g, m, standing)
    PROVE  FirmlyFounded(Finding(g, m))
<1> DEFINE f == Finding(g, m)
           ceiling == IF Corrected(m) \/ unreadable' THEN Tentative ELSE CeilingFor(m)
<1>1. f.leader = m /\ f.confidence = Lower(ceiling, StepsBelow(m))
  BY DEF Finding
<1>2. ceiling \in {AtCertain, Firm, Tentative}
  BY DEF CeilingFor, Sane
<1>3. Origin(m) # "unresolved" /\ Speaks(m, standing)
  BY DEF Report
<1> DEFINE W == Possible(m, "MIDDLEWARE")
           C == Possible(m, "companion")
<1>4. ASSUME f.confidence <= Firm
      PROVE  \E t : /\ Value(m).cases = {t} /\ t \notin {"unknown", "foreign"}
                    /\ t \in Possible(m, "setting")
                    /\ \E w \in W, c \in C : Exposed(t, w, c)
  <2>1. ceiling # Tentative /\ ~IsConditionalValue(Value(m))
    <3> HIDE DEF f, ceiling
    <3>1. QED
      BY <1>1, <1>2, <1>3, <1>4, FirmnessIsPaidFor
  <2>2. PICK t : Value(m).cases = {t} /\ t \notin {"unknown", "foreign"}
    BY <1>3, <2>1, ReadValuesAreTokens
  <2>3. standing # "foreign"
    BY <2>1 DEF Report, NoteUnreadable
  <2>4. \E w \in W, c \in C : Exposed(t, w, c)
    BY <1>3, <2>2, <2>3, SpokenIsExposed
  <2>5. t \in Possible(m, "setting")
    BY <2>2, PossibleAre DEF SettingNames, Value
  <2>6. QED
    BY <2>2, <2>4, <2>5
<1>5. f.confidence <= Firm => MayBeExposed(m)
  BY <1>4 DEF MayBeExposed
<1>6. ASSUME f.confidence = AtCertain, Settled(m, "MIDDLEWARE"), Settled(m, "companion")
      PROVE  IsExposed(m)
  <2>1. f.confidence <= Firm
    BY <1>6 DEF AtCertain, Firm
  <2>2. PICK t : /\ Value(m).cases = {t} /\ t \notin {"unknown", "foreign"}
                 /\ t \in Possible(m, "setting")
                 /\ \E w \in W, c \in C : Exposed(t, w, c)
    BY <1>4, <2>1
  <2>3. ~Doubtful(m, "setting")
    <3> HIDE DEF f, ceiling
    <3>1. QED
      BY <1>1, <1>2, <1>3, <1>6, FirmnessIsPaidFor
  <2>4. Possible(m, "setting") = {t}
    BY <2>2, <2>3, PossibleAre DEF SettingNames, Value
  <2>5. PICK w \in W, c \in C : Exposed(t, w, c)
    BY <2>2
  <2>6. W = {w} /\ C = {c}
    BY <1>6, <2>5, SettledIsOne DEF SettingNames
  <2>7. QED
    BY <2>4, <2>5, <2>6 DEF IsExposed
<1>7. QED
  BY <1>1, <1>5, <1>6 DEF FirmlyFounded

-----------------------------------------------------------------------------
(* Sure findings are of risks, and sure risks have findings.               *)

\* DJS-024 leaves a debug package to the file that spells it out, so that file has to be
\* one that is judged: the file the others import is not a development one.
SpelledOutWhereJudged ==
    \A r \in Rules : r.needs = "spelled out" => RolesOf[Base] \cap {"development", "unlisted"} = {}

\* So the rule that judges is a sane one.
LEMMA RuleIsSane ==
    ASSUME rule \in Rules
    PROVE  Sane(rule)
BY CatalogueIsSane, RulesAreRegistered

\* Writing a setting keeps the invariant,
LEMMA WritingKeepsRisks ==
    ASSUME SpelledOutWhereJudged, RiskInv, NEW s \in Slots(rule), NEW a \in Plain(rule, s[2]) \cup Shaded(rule, s[2]),
           Write(s, a)
    PROVE  RiskInv'
<1>1. ~begun /\ begun' = begun /\ waiting' = {} /\ findings' = {} /\ rule' = rule
  BY DEF Write, MayWriteMore, RiskInv
<1>2. RiskyProjectOK'
  <2>1. RiskyProjectOK
    BY DEF RiskInv
  <2>2. project' = [project EXCEPT !.own = [t \in DOMAIN @ \cup {s} |-> IF t = s THEN a ELSE @[t]]]
    BY DEF Write
  <2> DEFINE assignments == [t \in DOMAIN project.own \cup {s} |-> IF t = s THEN a ELSE project.own[t]]
  <2>3. project' = [own |-> assignments, heirs |-> project.heirs, role |-> project.role]
    BY <2>1, <2>2 DEF RiskyProjectOK
  <2>4. project'.own = assignments /\ project'.heirs = project.heirs /\ project'.role = project.role
        /\ project' = [own |-> project'.own, heirs |-> project'.heirs, role |-> project'.role]
    BY <2>3
  <2>5. WrittenOK(s[2], a)
    BY <2>1, RuleIsSane, WritingIsOK DEF RiskyProjectOK
  <2>6. \A t \in DOMAIN assignments : t \in Slots(rule) /\ WrittenOK(t[2], assignments[t])
    BY <2>1, <2>5 DEF RiskyProjectOK
  <2>7. \A n, v : WrittenOK(n, v)' <=> WrittenOK(n, v)
    BY <1>1 DEF WrittenOK, TokensOf, RuleTokens, MiddlewareTokens, CompanionTokens
  <2>8. Slots(rule)' = Slots(rule)
    BY <1>1 DEF Slots, TokensOf, RuleTokens, MiddlewareTokens, CompanionTokens
  <2> HIDE DEF assignments
  <2>9. QED
    BY <1>1, <2>1, <2>4, <2>6, <2>7, <2>8 DEF RiskyProjectOK
<1>3. QED
  BY <1>1, <1>2 DEF RiskInv

\* as beginning to inspect does,
LEMMA BeginningKeepsRisks ==
    ASSUME RiskInv, Begin
    PROVE  RiskInv'
<1>1. UNCHANGED <<rule, project>> /\ begun' = TRUE /\ waiting' = Groups /\ findings' = findings /\ findings = {}
  BY DEF Begin, RiskInv
<1>2. RiskyProjectOK' /\ Groups' = Groups
  BY <1>1, RisksStay DEF RiskInv
<1>3. QED
  BY <1>1, <1>2 DEF RiskInv

\* and the turn of a group, whatever is found in it.
LEMMA InspectingKeepsRisks ==
    ASSUME SpelledOutWhereJudged, RiskInv, Inspect
    PROVE  RiskInv'
<1>1. PICK g, m :
        /\ g \in waiting /\ m \in g /\ Leads(m, g)
        /\ \/ NothingInsecure(g, m)
           \/ \E standing \in Standing(m) :
                 \/ DoesNotApply(g, m, standing) \/ CannotTell(g, m, standing)
                 \/ LeaveToTheHeirs(g, m, standing) \/ Report(g, m, standing)
  BY DEF Inspect
<1>2. UNCHANGED <<rule, project, begun>> /\ waiting' = waiting \ {g} /\ begun
  BY <1>1 DEF NothingInsecure, DoesNotApply, CannotTell, LeaveToTheHeirs, Report, Turn, RiskInv
<1>3. RiskyProjectOK /\ Sane(rule) /\ g \in Groups
  BY <1>1, <1>2, RuleIsSane DEF RiskInv, RiskyProjectOK
<1>4. m \in Modules /\ ReachesProduction(m)
  BY <1>1, <1>3, GroupsAreMembers
<1>5. \/ findings' = findings
      \/ \E standing \in Standing(m) : Report(g, m, standing) /\ findings' = findings \cup {Finding(g, m)}
  BY <1>1 DEF NothingInsecure, DoesNotApply, CannotTell, LeaveToTheHeirs, Report
<1>6. findings \subseteq findings'
  BY <1>5
<1>7. \A f \in findings' : FirmlyFounded(f)
  BY <1>3, <1>4, <1>5, ReportsAreFounded DEF RiskInv
<1>8. WillBeReported(m) => HasFinding(g)'
  <2> SUFFICES ASSUME WillBeReported(m)
               PROVE  HasFinding(g)'
    OBVIOUS
  <2>1. ~NothingInsecure(g, m)
    <3>1. Standing(m) # {}
      BY DEF Standing
    <3>2. QED
      BY <3>1 DEF NothingInsecure, WillBeReported, Speaks
  <2>2. PICK standing \in Standing(m) : Report(g, m, standing)
    BY <1>1, <2>1 DEF WillBeReported, Speaks, DoesNotApply, CannotTell, LeaveToTheHeirs
  <2>3. Finding(g, m) \in findings' /\ Finding(g, m).modules = g
    BY <2>2 DEF Report, Finding
  <2> DEFINE f == Finding(g, m)
  <2> HIDE DEF f
  <2>4. f \in findings' /\ f.modules = g
    BY <2>3 DEF f
  <2>5. QED
    BY <2>4 DEF HasFinding
<1>9. RiskyProjectOK' /\ Groups' = Groups /\ (\A k, h : Leads(k, h)' <=> Leads(k, h))
      /\ (\A k : WillBeReported(k)' <=> WillBeReported(k)) /\ (\A f : FirmlyFounded(f)' <=> FirmlyFounded(f))
  BY <1>2, <1>3, RisksStay
<1>10. \A h \in Groups \ waiting' : \E k \in h : Leads(k, h) /\ (WillBeReported(k) => HasFinding(h)')
  <2> SUFFICES ASSUME NEW h \in Groups \ waiting'
               PROVE  \E k \in h : Leads(k, h) /\ (WillBeReported(k) => HasFinding(h)')
    OBVIOUS
  <2>1. CASE h = g
    BY <1>1, <1>8, <2>1
  <2>2. CASE h # g
    <3>1. PICK k \in h : Leads(k, h) /\ (WillBeReported(k) => HasFinding(h))
      BY <1>2, <2>2 DEF RiskInv
    <3>2. HasFinding(h) => HasFinding(h)'
      BY <1>6 DEF HasFinding
    <3>3. QED
      BY <3>1, <3>2
  <2>3. QED
    BY <2>1, <2>2
<1>11. waiting' \subseteq Groups /\ begun' \in BOOLEAN /\ begun'
  BY <1>2 DEF RiskInv
<1>12. QED
  BY <1>7, <1>9, <1>10, <1>11 DEF RiskInv

\* Where none of its variables changes the invariant stays.
LEMMA RisksStutter ==
    ASSUME RiskInv, UNCHANGED <<rule, project, begun, waiting, findings>>
    PROVE  RiskInv'
<1>1. \A h : HasFinding(h)' <=> HasFinding(h)
  BY DEF HasFinding
<1>2. QED
  BY <1>1, RisksStay DEF RiskInv

\* A base leads the group of those who never mention a setting only where every heir
\* of it that reaches production does mention it.
LEMMA BasesLeadUnmentioned ==
    ASSUME RiskyProjectOK, NEW m, project.role[m] = "base", Leads(m, Members(m)),
           ~IsAssigned(m, "setting"), NEW h \in Heirs(m)
    PROVE  IsAssigned(h, "setting")
<1>1. h \in Modules \ {Base} /\ ReachesProduction(h)
  BY DEF Heirs, RiskyProjectOK
<1>2. project.role[h] # "base"
  BY <1>1, OnlyTheBaseIsABase DEF RiskyProjectOK
<1>3. h \notin Members(m)
  BY <1>1, <1>2, HeirsOutweighTheBase
<1>4. QED
  BY <1>1, <1>3 DEF Members, IsAssigned

\* A debug package installed in a module that only adds to the list of the base is
\* installed by the base.
LEMMA ToolingIsTheBases ==
    ASSUME SpelledOutWhereJudged, RiskInv, begun, waiting = {}, rule.needs = "spelled out",
           NEW m \in Modules, InsecureHere(m), ~IsUnknownValue(Value(m)), ~Applies(m, "nothing")
    PROVE  \E f \in findings : Base \in f.modules
<1> DEFINE theirs == project.own[<<Base, "setting">>].cases
<1>1. RiskyProjectOK /\ Sane(rule)
  BY RuleIsSane DEF RiskInv, RiskyProjectOK
<1>2. Inherits(m, "setting") /\ Writes(m, "setting") /\ project.own[<<m, "setting">>].adds
  BY DEF Applies
<1>3. Writes(Base, "setting") /\ Base \notin project.heirs
  BY <1>1, <1>2 DEF Inherits, RiskyProjectOK
<1>4. Value(m).cases = theirs
  BY <1>2 DEF Value, Get, IsUnknownValue
<1>5. \A k : Insecure(Value(k)) <=> InsecureHere(k)
  BY DEF InsecureHere, NeedsSecurityMiddleware
<1>6. \A k : Value(k).cases = theirs => InsecureHere(k)
  BY <1>4, <1>5 DEF Insecure, IsConditionalValue
<1>7. ReachesProduction(Base)
  <2>1. project.role[Base] \in RolesOf[Base] /\ project.role[Base] \in Roles
    BY <1>1, ModulesAreNumbered DEF RiskyProjectOK
  <2>2. project.role[Base] \notin {"development", "unlisted"}
    BY <1>1, <2>1 DEF SpelledOutWhereJudged, RiskyProjectOK
  <2>3. QED
    BY <2>1, <2>2 DEF ReachesProduction, Roles
<1> DEFINE g == Members(Base)
<1>8. g \in Groups /\ Base \in g
  BY <1>7, ModulesAreNumbered DEF Groups, Members
<1>9. PICK k \in g : Leads(k, g) /\ (WillBeReported(k) => HasFinding(g))
  BY <1>8 DEF RiskInv
<1>10. Definition(k, "setting") = Base
  BY <1>3, <1>9 DEF Members, Definition
<1>11. k = Base \/ (~Writes(k, "setting") /\ Inherits(k, "setting"))
  <2>1. Nowhere # Base
    BY ModulesAreNumbered DEF Nowhere
  <2>2. QED
    BY <1>10, <2>1 DEF Definition
<1>12. ~project.own[<<Base, "setting">>].adds
  <2>1. CASE project.own[<<Base, "setting">>].adds
    <3>1. theirs = {"fine"}
      BY <1>1, <1>3, <2>1 DEF RiskyProjectOK, WrittenOK, Writes
    <3>2. ~Insecure(Value(m))
      BY <1>1, <1>4, <3>1 DEF Insecure, Sane
    <3>3. QED
      BY <1>5, <3>2
  <2>2. QED
    BY <2>1
<1>13. Value(k).cases = theirs
  <2>1. CASE k = Base
    BY <1>3, <1>12, <2>1 DEF Value, Get, Inherits
  <2>2. CASE k # Base
    BY <1>11, <2>2 DEF Value, Get
  <2>3. QED
    BY <2>1, <2>2
<1>14. WillBeReported(k)
  <2>1. ~rule.corrects /\ ~rule.explicit
    BY <1>1 DEF Sane
  <2>2. Origin(k) # "unresolved"
    BY <1>4, <1>13 DEF Origin, IsUnknownValue
  <2>3. Applies(k, "nothing")
    BY <1>3, <1>11 DEF Applies, Inherits
  <2>4. Standing(k) = {"nothing"}
    BY DEF Standing
  <2>5. InsecureHere(k)
    BY <1>6, <1>13
  <2>6. QED
    BY <2>1, <2>2, <2>3, <2>4, <2>5 DEF WillBeReported, Speaks, LeftToTheHeirs
<1>15. QED
  BY <1>8, <1>9, <1>14 DEF HasFinding

\* Once every group is inspected, a risk every deployment runs is named.
LEMMA InspectedRisksAreNamed ==
    ASSUME SpelledOutWhereJudged, RiskInv
    PROVE  RisksAreNamed
<1> SUFFICES ASSUME begun, waiting = {}, NEW m \in Modules,
                    Deployable(m), Leads(m, Members(m)), Judged(m), IsExposed(m),
                    ~(project.role[m] = "base" /\ \E h \in Heirs(m) : IsAssigned(h, "setting"))
             PROVE  \E f \in findings : \/ m \in f.modules
                                        \/ ~Applies(m, "nothing") /\ Base \in f.modules
  BY DEF RisksAreNamed
<1>1. RiskyProjectOK /\ Sane(rule)
  BY RuleIsSane DEF RiskInv, RiskyProjectOK
<1>2. InsecureHere(m) /\ (rule.needs # "spelled out" => \A standing \in Standing(m) : Applies(m, standing))
  BY <1>1, ExposedIsSpoken
<1>3. CASE rule.needs = "spelled out" /\ ~Applies(m, "nothing")
  BY <1>2, <1>3, ToolingIsTheBases DEF Judged
<1>4. CASE ~(rule.needs = "spelled out" /\ ~Applies(m, "nothing"))
  <2>1. \A standing \in Standing(m) : Speaks(m, standing)
    BY <1>2, <1>4 DEF Speaks, Standing
  <2>2. Origin(m) # "unresolved" /\ (rule.explicit => Origin(m) = "explicit")
    BY DEF Judged, Origin
  <2>3. ~LeftToTheHeirs(m)
    <3> SUFFICES ASSUME LeftToTheHeirs(m)
                 PROVE  FALSE
      OBVIOUS
    <3>1. project.role[m] = "base" /\ Heirs(m) # {}
      BY DEF LeftToTheHeirs, Overridden
    <3>2. ~IsAssigned(m, "setting")
      BY DEF LeftToTheHeirs, Origin
    <3>3. PICK h \in Heirs(m) : TRUE
      BY <3>1
    <3>4. IsAssigned(h, "setting")
      BY <1>1, <3>1, <3>2, BasesLeadUnmentioned
    <3>5. QED
      BY <3>1, <3>4
  <2>4. WillBeReported(m)
    BY <2>1, <2>2, <2>3 DEF WillBeReported
  <2> DEFINE g == Members(m)
  <2>5. g \in Groups /\ m \in g
    BY DEF Groups, Members, Deployable
  <2>6. PICK k \in g : Leads(k, g) /\ (WillBeReported(k) => HasFinding(g))
    BY <2>5 DEF RiskInv
  <2>7. k = m
    BY <2>5, <2>6, GroupsAreMembers, LeadersAreUnique
  <2>8. QED
    BY <2>4, <2>5, <2>6, <2>7 DEF HasFinding
<1>5. QED
  BY <1>3, <1>4

\* SettingsRule.check and the inspection of each group: of any rule of the catalogue and
\* any project, a finding that is sure is of a risk its module can run, or does, and a
\* risk that every deployment of a module runs is named.
THEOREM RisksHold ==
    ASSUME SpelledOutWhereJudged
    PROVE  SettingsSpec => []RisksAreJudged
<1>1. SettingsInit => RiskInv
  <2> SUFFICES ASSUME SettingsInit
               PROVE  RiskInv
    OBVIOUS
  <2>1. project = [own |-> project.own, heirs |-> project.heirs, role |-> project.role]
        /\ project.heirs \subseteq Modules \ {Base} /\ DOMAIN project.own = {}
        /\ project.role \in [Modules -> Roles] /\ \A m \in Modules : project.role[m] \in RolesOf[m]
    BY DEF SettingsInit
  <2>2. QED
    BY <2>1 DEF SettingsInit, RiskInv, RiskyProjectOK
<1>2. RiskInv /\ [SettingsNext]_settingsVars => RiskInv'
  <2> SUFFICES ASSUME RiskInv, [SettingsNext]_settingsVars
               PROVE  RiskInv'
    OBVIOUS
  <2>1. CASE \E s \in Slots(rule) : \E a \in Plain(rule, s[2]) \cup Shaded(rule, s[2]) : Write(s, a)
    BY <2>1, WritingKeepsRisks
  <2>2. CASE Begin
    BY <2>2, BeginningKeepsRisks
  <2>3. CASE Inspect
    BY <2>3, InspectingKeepsRisks
  <2>4. CASE DebugToolingDeployed \/ UNCHANGED settingsVars
    BY <2>4, RisksStutter DEF DebugToolingDeployed, settingsVars
  <2>5. QED
    BY <2>1, <2>2, <2>3, <2>4 DEF SettingsNext
<1>3. RiskInv => RisksAreJudged
  BY InspectedRisksAreNamed DEF RisksAreJudged, FirmRisksAreReal, FirmlyFounded, RiskInv
<1>4. QED
  BY <1>1, <1>2, <1>3, PTL DEF SettingsSpec

-----------------------------------------------------------------------------
(* The databases a project can run on (PortabilityRules).                  *)

\* What a deployment is left with after some of a chain is what the next assignment
\* makes of what it had before.
IsLeft(chain, d, n, left) ==
    left = [i \in 0..n |-> IF i = 0 THEN {Unassigned} ELSE Run(chain[i], d, left[i - 1])]

\* There is such a function for a chain of any length: of the lengths without one
\* there would be a least, and it is neither none nor one more than another.
LEMMA LeftExists ==
    ASSUME NEW chain, NEW d, NEW n \in Nat
    PROVE  \E left : IsLeft(chain, d, n, left)
<1> DEFINE T == {k \in Nat : ~\E left : IsLeft(chain, d, k, left)}
<1>1. 0 \notin T
  <2> DEFINE left == [i \in 0..0 |-> {Unassigned}]
  <2>1. IsLeft(chain, d, 0, left)
    BY DEF IsLeft
  <2>2. QED
    BY <2>1
<1>2. \A k \in Nat \ {0} : k - 1 \notin T => k \notin T
  <2> SUFFICES ASSUME NEW k \in Nat \ {0}, NEW before, IsLeft(chain, d, k - 1, before)
               PROVE  \E left : IsLeft(chain, d, k, left)
    OBVIOUS
  <2> DEFINE left == [i \in 0..k |-> IF i = k THEN Run(chain[k], d, before[k - 1]) ELSE before[i]]
  <2>1. \A i \in 0..(k - 1) : before[i] = IF i = 0 THEN {Unassigned} ELSE Run(chain[i], d, before[i - 1])
    BY DEF IsLeft
  <2>2. \A i \in 0..k : left[i] = IF i = 0 THEN {Unassigned} ELSE Run(chain[i], d, left[i - 1])
    <3>1. left[k] = Run(chain[k], d, before[k - 1]) /\ \A i \in 0..(k - 1) : left[i] = before[i]
      OBVIOUS
    <3>2. \A i \in 0..k : i = k \/ (i \in 0..(k - 1) /\ (i # 0 => i - 1 \in 0..(k - 1)))
      OBVIOUS
    <3>3. k - 1 \in 0..(k - 1) /\ k # 0
      OBVIOUS
    <3> HIDE DEF left
    <3>4. QED
      BY <2>1, <3>1, <3>2, <3>3
  <2>3. IsLeft(chain, d, k, left)
    BY <2>2 DEF IsLeft
  <2>4. QED
    BY <2>3
<1>3. T = {}
  <2> SUFFICES ASSUME T # {}
               PROVE  FALSE
    OBVIOUS
  <2> HIDE DEF T
  <2>1. T \in SUBSET Nat
    BY DEF T
  <2>2. PICK k \in T : \A m \in T : k <= m
    BY <2>1, LeastExists
  <2>3. k \in Nat \ {0}
    BY <1>1, <2>1, <2>2
  <2>4. QED
    BY <1>2, <2>2, <2>3
<1>4. QED
  BY <1>3

\* The mappings of a deployment are what is left after its whole chain.
LEMMA MappingsAre ==
    ASSUME NEW d, Len(Chain(d.file)) \in Nat
    PROVE  \E left : /\ left[0] = {Unassigned}
                     /\ \A i \in 1..Len(Chain(d.file)) : left[i] = Run(Chain(d.file)[i], d, left[i - 1])
                     /\ Mappings(d) = left[Len(Chain(d.file))]
<1> DEFINE chain == Chain(d.file)
           left == CHOOSE left : IsLeft(chain, d, Len(chain), left)
<1>1. IsLeft(chain, d, Len(chain), left)
  BY LeftExists
<1>2. Mappings(d) = left[Len(chain)]
  BY DEF Mappings, IsLeft
<1>3. \A i \in 0..Len(chain) : left[i] = IF i = 0 THEN {Unassigned} ELSE Run(chain[i], d, left[i - 1])
  <2> HIDE DEF left
  <2>1. QED
    BY <1>1 DEF IsLeft
<1>4. chain = Chain(d.file) /\ 0 \in 0..Len(chain) /\ \A i \in 1..Len(chain) : i \in 0..Len(chain) /\ i # 0
  OBVIOUS
<1> HIDE DEF left
<1>5. left[0] = {Unassigned} /\ \A i \in 1..Len(chain) : left[i] = Run(chain[i], d, left[i - 1])
  BY <1>3, <1>4
<1>6. QED
  BY <1>2, <1>4, <1>5

\* What holds at one number, and of the next whenever of one, holds up to any number.
LEMMA StepsReach ==
    ASSUME NEW i \in Nat, NEW n \in Nat, NEW S \in SUBSET Nat, i \in S,
           \A k \in (i + 1)..n : k - 1 \in S => k \in S
    PROVE  i..n \subseteq S
<1> DEFINE T == {k \in i..n : k \notin S}
<1> SUFFICES ASSUME T # {}
             PROVE  FALSE
  OBVIOUS
<1>1. T \in SUBSET Nat
  OBVIOUS
<1>2. PICK k \in T : \A m \in T : k <= m
  BY <1>1, LeastExists
<1>3. k \in (i + 1)..n
  BY <1>1, <1>2
<1>4. k - 1 \in i..n /\ ~(k <= k - 1)
  BY <1>3
<1>5. k - 1 \in S
  BY <1>2, <1>4
<1>6. QED
  BY <1>2, <1>3, <1>5

\* The authors change no dict in place, leave no later if to take every deployment of an
\* earlier assignment, and where something is assigned outright ask for levers to be set.
Careful == WiringHabits = {}

\* What a file of theirs holds, one assignment each.
Entries == [file : SettingsFiles, guard : Guards, tried : BOOLEAN, shape : {"dict", "call", "augmented"},
            databases : UNION {[D -> Engines] : D \in SUBSET Aliases}]

\* A dict is added to only where one was assigned outright, before it in the file or in
\* the file it imports.
AddsToADict(f) ==
    \A k \in DOMAIN wiring[f] : wiring[f][k].shape = "augmented" =>
        \/ \E i \in 1..(k - 1) : ~Skippable(wiring[f][i])
        \/ f \in importers /\ \E i \in DOMAIN wiring[SharedFile] : ~Skippable(wiring[SharedFile][i])

\* Which assignments are live, and what is added to, has to be so in every file: what a
\* deployment is left with follows from the whole of its chain, not from its last line.
WiringInv ==
    /\ wiring \in [SettingsFiles -> Seq(Entries)]
    /\ importers \in {{}, SettingsFiles \ {SharedFile}}
    /\ \A f \in SettingsFiles : Tidy(f) /\ AddsToADict(f)

\* A chain is read as one file, in which every assignment is recorded and a dict is
\* added to only after something was assigned outright.
LEMMA ChainIs ==
    ASSUME WiringInv, NEW f \in SettingsFiles
    PROVE  /\ Chain(f) \in Seq(Entries) /\ Len(Chain(f)) \in Nat /\ DOMAIN Chain(f) = 1..Len(Chain(f))
           /\ \A k \in DOMAIN Chain(f) : Chain(f)[k] \in Entries
           /\ Definitions(f) = 1..Len(Chain(f))
           /\ \A k \in DOMAIN Chain(f) : Chain(f)[k].shape = "augmented" =>
                \E i \in 1..(k - 1) : ~Skippable(Chain(f)[i])
<1> DEFINE shared == IF f \in importers THEN wiring[SharedFile] ELSE <<>>
           own == wiring[f]
<1>1. shared \in Seq(Entries) /\ own \in Seq(Entries) /\ Chain(f) = shared \o own
  BY FilesAreNumbered DEF WiringInv, Chain
<1> HIDE DEF shared, own
<1>2. /\ Chain(f) \in Seq(Entries) /\ Len(Chain(f)) \in Nat /\ DOMAIN Chain(f) = 1..Len(Chain(f))
      /\ Len(Chain(f)) = Len(shared) + Len(own) /\ Len(shared) \in Nat /\ Len(own) \in Nat
      /\ DOMAIN shared = 1..Len(shared) /\ DOMAIN own = 1..Len(own)
  BY <1>1
<1>3. \A k \in DOMAIN Chain(f) : Chain(f)[k] \in Entries
  BY <1>2
<1>4. /\ \A k \in 1..Len(shared) : Chain(f)[k] = shared[k]
      /\ \A k \in 1..Len(own) : Chain(f)[Len(shared) + k] = own[k]
  BY <1>1, <1>2
<1>5. Definitions(f) = 1..Len(Chain(f))
  BY <1>2, <1>3 DEF Definitions, Entries
<1>6. ASSUME NEW k \in DOMAIN Chain(f), Chain(f)[k].shape = "augmented"
      PROVE  \E i \in 1..(k - 1) : ~Skippable(Chain(f)[i])
  <2>1. CASE k <= Len(shared)
    <3>1. f \in importers /\ shared = wiring[SharedFile] /\ SharedFile \notin importers /\ SharedFile \in SettingsFiles
      BY <1>2, <2>1, FilesAreNumbered DEF shared, WiringInv
    <3>2. k \in 1..Len(shared) /\ shared[k].shape = "augmented"
      BY <1>2, <1>4, <1>6, <2>1
    <3>3. PICK i \in 1..(k - 1) : ~Skippable(shared[i])
      BY <1>2, <3>1, <3>2 DEF WiringInv, AddsToADict
    <3>4. i \in 1..Len(shared) /\ i \in 1..(k - 1)
      BY <1>2, <2>1, <3>3
    <3>5. QED
      BY <1>4, <3>3, <3>4
  <2>2. CASE k > Len(shared)
    <3>1. PICK j \in 1..Len(own) : k = Len(shared) + j
      <4>1. k - Len(shared) \in 1..Len(own) /\ k = Len(shared) + (k - Len(shared))
        BY <1>2, <2>2
      <4>2. QED
        BY <4>1
    <3>2. own[j].shape = "augmented" /\ own = wiring[f] /\ j \in DOMAIN own
      BY <1>2, <1>4, <1>6, <3>1 DEF own
    <3>3. CASE \E i \in 1..(j - 1) : ~Skippable(own[i])
      <4>1. PICK i \in 1..(j - 1) : ~Skippable(own[i])
        BY <3>3
      <4>2. i \in 1..Len(own) /\ Len(shared) + i \in 1..(k - 1)
        BY <1>2, <3>1, <4>1
      <4>3. QED
        BY <1>4, <4>1, <4>2
    <3>4. CASE f \in importers /\ \E i \in DOMAIN wiring[SharedFile] : ~Skippable(wiring[SharedFile][i])
      <4>1. shared = wiring[SharedFile]
        BY <3>4 DEF shared
      <4>2. PICK i \in 1..Len(shared) : ~Skippable(shared[i])
        BY <1>2, <3>4, <4>1
      <4>3. i \in 1..(k - 1)
        BY <1>2, <3>1, <4>2
      <4>4. QED
        BY <1>4, <4>2, <4>3
    <3>5. QED
      BY <3>2, <3>3, <3>4 DEF WiringInv, AddsToADict
  <2>3. QED
    BY <1>2, <2>1, <2>2
<1>7. QED
  BY <1>2, <1>3, <1>5, <1>6

\* Nothing assigned is no mapping of aliases.
LEMMA UnassignedIsNoDict == ~(DOMAIN Unassigned \subseteq Aliases)
BY DEF Unassigned, Aliases

\* Of what one assignment leaves: dicts of aliases, and something unless it adds to
\* a dict that is not there.
LEMMA AfterIs ==
    ASSUME NEW s \in Entries, NEW m, m = Unassigned \/ DOMAIN m \subseteq Aliases
    PROVE  /\ \A x \in After(s, m) : DOMAIN x \subseteq Aliases
           /\ s.shape # "augmented" \/ m # Unassigned => After(s, m) # {}
           /\ s.shape = "dict" => After(s, m) = {s.databases}
<1>1. DOMAIN s.databases \subseteq Aliases /\ s.shape \in {"dict", "call", "augmented"}
  BY DEF Entries
<1>2. CASE s.shape = "dict"
  BY <1>1, <1>2 DEF After
<1>3. CASE s.shape = "call"
  BY <1>1, <1>3 DEF After
<1>4. CASE s.shape = "augmented"
  <2>1. After(s, m) = IF m = Unassigned THEN {} ELSE {Updated(m, s.databases)}
    BY <1>4 DEF After
  <2>2. DOMAIN Updated(m, s.databases) = DOMAIN m \cup DOMAIN s.databases
    BY DEF Updated
  <2>3. QED
    BY <1>1, <1>4, <2>1, <2>2
<1>5. QED
  BY <1>1, <1>2, <1>3, <1>4

\* A deployment that gets past an assignment has a dict after one that is outright.
AnyAssigned(f, k) == \E i \in 1..k : ~Skippable(Chain(f)[i])
Survives(f, k, ms) ==
    /\ ms # {} /\ \A m \in ms : m = Unassigned \/ DOMAIN m \subseteq Aliases
    /\ AnyAssigned(f, k) => Unassigned \notin ms

\* An assignment leaves a deployment with something.
LEMMA EachSurvives ==
    ASSUME WiringInv, NEW f \in SettingsFiles, NEW d \in Deployments, NEW k \in DOMAIN Chain(f), NEW ms,
           Survives(f, k - 1, ms)
    PROVE  Survives(f, k, Run(Chain(f)[k], d, ms))
<1> DEFINE s == Chain(f)[k]
           out == Run(s, d, ms)
<1>1. s \in Entries /\ k \in Nat \ {0}
  BY ChainIs
<1>2. ~Skippable(s) => HoldsIn(s.guard, d) /\ ~s.tried
  BY DEF Skippable, HoldsIn
<1>3. AnyAssigned(f, k) <=> AnyAssigned(f, k - 1) \/ ~Skippable(s)
  BY <1>1 DEF AnyAssigned
<1>4. CASE ~HoldsIn(s.guard, d)
  BY <1>2, <1>3, <1>4 DEF Run, Survives
<1>5. CASE HoldsIn(s.guard, d)
  <2>1. out = (UNION {After(s, m) : m \in ms}) \cup (IF s.tried THEN ms ELSE {})
    BY <1>5 DEF Run
  <2>2. \A x : x \in out <=> (\E m \in ms : x \in After(s, m)) \/ (s.tried /\ x \in ms)
    BY <2>1
  <2>3. \A m \in ms : \A x \in After(s, m) : DOMAIN x \subseteq Aliases
    BY <1>1, AfterIs DEF Survives
  <2>4. \A x \in out : x = Unassigned \/ DOMAIN x \subseteq Aliases
    BY <2>2, <2>3 DEF Survives
  <2>5. AnyAssigned(f, k) => Unassigned \notin out
    BY <1>2, <1>3, <2>2, <2>3, UnassignedIsNoDict DEF Survives
  <2>6. out # {}
    <3>1. PICK m \in ms : TRUE
      BY DEF Survives
    <3>2. s.shape # "augmented" \/ m # Unassigned
      BY ChainIs DEF Survives, AnyAssigned
    <3>3. PICK x : x \in After(s, m)
      BY <1>1, <3>2, AfterIs DEF Survives
    <3>4. QED
      BY <2>2, <3>3
  <2>7. QED
    BY <2>4, <2>5, <2>6 DEF Survives
<1>6. QED
  BY <1>4, <1>5

\* So each deployment gets through its whole chain.
LEMMA NoneAreLost ==
    ASSUME WiringInv, NEW f \in SettingsFiles, NEW d \in Deployments, NEW left,
           left[0] = {Unassigned}, \A i \in 1..Len(Chain(f)) : left[i] = Run(Chain(f)[i], d, left[i - 1])
    PROVE  \A k \in 0..Len(Chain(f)) : Survives(f, k, left[k])
<1> DEFINE n == Len(Chain(f))
           S == {k \in 0..n : Survives(f, k, left[k])}
<1>1. n \in Nat /\ DOMAIN Chain(f) = 1..n
  BY ChainIs
<1>2. 0 \in S
  <2>1. 0 \in 0..n /\ 1..0 = {}
    BY <1>1
  <2>2. ~AnyAssigned(f, 0)
    BY <2>1 DEF AnyAssigned
  <2>3. Survives(f, 0, {Unassigned})
    BY <2>2 DEF Survives
  <2>4. QED
    BY <2>1, <2>3
<1>3. \A k \in (0 + 1)..n : k - 1 \in S => k \in S
  <2> SUFFICES ASSUME NEW k \in 1..n, Survives(f, k - 1, left[k - 1])
               PROVE  Survives(f, k, left[k])
    BY <1>1
  <2>1. Survives(f, k, Run(Chain(f)[k], d, left[k - 1]))
    BY <1>1, EachSurvives
  <2>2. QED
    BY <2>1
<1>4. S \in SUBSET Nat
  BY <1>1
<1> HIDE DEF S
<1>5. 0..n \subseteq S
  BY <1>1, <1>2, <1>3, <1>4, StepsReach
<1>6. QED
  BY <1>5 DEF S

\* The dict of a live assignment is one that a deployment is left with if nothing live
\* after it is sure to replace it there.
LEMMA LiveDictsAreKept ==
    ASSUME WiringInv, NEW d \in Deployments, NEW i \in LiveDefinitions(d.file),
           Chain(d.file)[i].shape = "dict", HoldsIn(Chain(d.file)[i].guard, d),
           \A j \in LiveDefinitions(d.file) : j > i => ~HoldsIn(Chain(d.file)[j].guard, d) \/ Chain(d.file)[j].tried
    PROVE  Chain(d.file)[i].databases \in Mappings(d)
<1> DEFINE f == d.file
           n == Len(Chain(f))
           it == Chain(f)[i].databases
<1>1. f \in SettingsFiles
  BY DEF Deployments
<1>2. n \in Nat /\ DOMAIN Chain(f) = 1..n /\ Definitions(f) = 1..n /\ \A k \in 1..n : Chain(f)[k] \in Entries
  BY <1>1, ChainIs
<1>3. PICK left : /\ left[0] = {Unassigned} /\ \A k \in 1..n : left[k] = Run(Chain(f)[k], d, left[k - 1])
                  /\ Mappings(d) = left[n]
  BY <1>2, MappingsAre
<1>4. \A k \in 0..n : Survives(f, k, left[k])
  BY <1>1, <1>3, NoneAreLost
<1>5. i \in 1..n /\ \A j \in 1..n : j > i => j \in LiveDefinitions(f)
  BY <1>2 DEF LiveDefinitions
<1>6. it \in left[i]
  <2>1. i - 1 \in 0..n
    BY <1>2, <1>5
  <2>2. PICK m \in left[i - 1] : m = Unassigned \/ DOMAIN m \subseteq Aliases
    BY <1>4, <2>1 DEF Survives
  <2>3. it \in After(Chain(f)[i], m)
    BY <1>2, <1>5, <2>2, AfterIs
  <2>4. left[i] = (UNION {After(Chain(f)[i], x) : x \in left[i - 1]})
                  \cup (IF Chain(f)[i].tried THEN left[i - 1] ELSE {})
    BY <1>3, <1>5 DEF Run
  <2>5. QED
    BY <2>2, <2>3, <2>4
<1> DEFINE S == {k \in 0..n : it \in left[k]}
<1>7. i \in S /\ S \in SUBSET Nat
  BY <1>2, <1>5, <1>6
<1>8. \A k \in (i + 1)..n : k - 1 \in S => k \in S
  <2> SUFFICES ASSUME NEW k \in (i + 1)..n, it \in left[k - 1]
               PROVE  it \in left[k]
    BY <1>2, <1>5
  <2>1. k \in 1..n /\ k > i
    BY <1>5
  <2>2. ~HoldsIn(Chain(f)[k].guard, d) \/ Chain(f)[k].tried
    BY <1>5, <2>1
  <2>3. left[k] = Run(Chain(f)[k], d, left[k - 1])
    BY <1>3, <2>1
  <2>4. QED
    BY <2>2, <2>3 DEF Run
<1> HIDE DEF S
<1>9. i..n \subseteq S
  <2>1. i \in Nat
    BY <1>5
  <2>2. QED
    BY <1>2, <1>7, <1>8, <2>1, StepsReach
<1>10. n \in i..n
  BY <1>2, <1>5
<1>11. QED
  BY <1>3, <1>9, <1>10 DEF S

\* A known engine has one vendor's servers behind it; one that is not may have any.
LEMMA EnginesAre ==
    ASSUME NEW e \in Engines
    PROVE  /\ ClassifyEngine(e) # "unknown" => ClassifyEngine(e) \in Vendors /\ Servers(e) = {ClassifyEngine(e)}
           /\ ClassifyEngine(e) = "unknown" => Servers(e) = Vendors
<1>1. e \in {"sqlite3", "spatialite", "postgresql", "postgis", "mysql", "psqlextra", "computed"}
  BY DEF Engines, Leaf, Paths
<1>2. QED
  BY <1>1 DEF ClassifyEngine, Servers, Leaf, Paths, Vendors

\* A set of vendors has more than one when two of them differ.
LEMMA TwoKnown ==
    ASSUME NEW choices
    PROVE  Cardinality(Known(choices)) > 1 <=> \E v, w \in Known(choices) : v # w
<1> DEFINE K == Known(choices)
<1>1. IsFiniteSet(Vendors)
  <2>1. Vendors = {"sqlite", "postgresql"} \cup {"mysql"} /\ {"sqlite", "postgresql"} = {"sqlite"} \cup {"postgresql"}
    BY DEF Vendors
  <2>2. IsFiniteSet({"sqlite"}) /\ IsFiniteSet({"postgresql"}) /\ IsFiniteSet({"mysql"})
    BY FS_Singleton
  <2>3. QED
    BY <2>1, <2>2, FS_Union
<1>2. IsFiniteSet(K) /\ Cardinality(K) \in Nat
  BY <1>1, FS_Subset, FS_CardinalityType DEF Known
<1>3. ASSUME NEW v \in K, NEW w \in K, v # w PROVE Cardinality(K) > 1
  <2>1. IsFiniteSet(K \ {v}) /\ Cardinality(K \ {v}) = Cardinality(K) - 1
    BY <1>2, <1>3, FS_RemoveElement
  <2>2. K \ {v} # {}
    BY <1>3
  <2>3. Cardinality(K \ {v}) # 0 /\ Cardinality(K \ {v}) \in Nat
    BY <2>1, <2>2, FS_EmptySet, FS_CardinalityType
  <2>4. QED
    BY <1>2, <2>1, <2>3
<1>4. ASSUME \A v, w \in K : v = w PROVE Cardinality(K) <= 1
  <2>1. CASE K = {}
    BY <2>1, FS_EmptySet
  <2>2. CASE K # {}
    <3>1. PICK v \in K : K = {v}
      BY <1>4, <2>2
    <3>2. Cardinality({v}) = 1
      BY FS_Singleton
    <3> HIDE DEF K
    <3>3. QED
      BY <3>1, <3>2
  <2>3. QED
    BY <2>1, <2>2
<1>5. QED
  BY <1>2, <1>3, <1>4

\* An engine that is named is the one a live dict gives to an alias.
LEMMA ChoicesAre ==
    ASSUME WiringInv, NEW c \in ProjectEngines
    PROVE  \E f \in SettingsFiles : \E i \in LiveDefinitions(f) : \E a \in DOMAIN Chain(f)[i].databases :
              Chain(f)[i].shape = "dict" /\ c = Choice(f, Chain(f)[i], a)
BY DEF ProjectEngines, ModuleEngines

\* Each alias of a live dict is named.
LEMMA ChoicesHold ==
    ASSUME NEW f \in SettingsFiles, NEW i \in LiveDefinitions(f), NEW a \in DOMAIN Chain(f)[i].databases,
           Chain(f)[i].shape = "dict"
    PROVE  Choice(f, Chain(f)[i], a) \in ProjectEngines
<1>1. Choice(f, Chain(f)[i], a) \in ModuleEngines(f)
  BY DEF ModuleEngines
<1>2. QED
  BY <1>1 DEF ProjectEngines

\* Live assignments come after any that is outright, but for one at most.
LEMMA LiveAre ==
    ASSUME WiringInv, NEW f \in SettingsFiles, NEW i \in LiveDefinitions(f)
    PROVE  /\ i \in 1..Len(Chain(f)) /\ i \in Nat /\ Chain(f)[i] \in Entries
           /\ Chain(f)[i].guard \in Guards /\ DOMAIN Chain(f)[i].databases \subseteq Aliases
           /\ \A a \in DOMAIN Chain(f)[i].databases : Chain(f)[i].databases[a] \in Engines
           /\ \A j \in LiveDefinitions(f) : j > i => Skippable(Chain(f)[j])
<1>1. /\ i \in 1..Len(Chain(f)) /\ DOMAIN Chain(f) = 1..Len(Chain(f)) /\ Len(Chain(f)) \in Nat
      /\ \A k \in DOMAIN Chain(f) : Chain(f)[k] \in Entries
      /\ \A j \in LiveDefinitions(f) : j > i => Skippable(Chain(f)[j])
  BY ChainIs DEF LiveDefinitions
<1>2. Chain(f)[i] \in Entries /\ i \in Nat
  BY <1>1
<1>3. QED
  BY <1>1, <1>2 DEF Entries

\* What is reached, by the deployment and the mapping it is reached with.
LEMMA ReachedAre ==
    ASSUME NEW r
    PROVE  r \in Reached <=>
             \E a \in Aliases, d \in Deployments : \E m \in Mappings(d) :
                a \in DOMAIN m /\ \E v \in Servers(m[a]) : r = <<a, v, d>>
BY DEF Reached, Connects

\* A live dict that a deployment is left with is reached there by each of its aliases.
LEMMA DictsAreReached ==
    ASSUME WiringInv, NEW d \in Deployments, NEW i \in LiveDefinitions(d.file),
           Chain(d.file)[i].databases \in Mappings(d),
           NEW a \in DOMAIN Chain(d.file)[i].databases,
           ClassifyEngine(Chain(d.file)[i].databases[a]) # "unknown"
    PROVE  <<a, ClassifyEngine(Chain(d.file)[i].databases[a]), d>> \in Reached
<1> DEFINE m == Chain(d.file)[i].databases
<1>1. a \in Aliases /\ m[a] \in Engines
  BY LiveAre DEF Deployments
<1>2. ClassifyEngine(m[a]) \in Servers(m[a])
  BY <1>1, EnginesAre
<1>3. QED
  BY <1>1, <1>2, ReachedAre

\* The deployment of one live assignment: it sets the levers the assignment asks for, and
\* those that an assignment after it asks to find unset.
DeploymentOf(f, i) ==
    [file |-> f,
     set |-> {x \in Levers : \/ <<x, TRUE>> \in Chain(f)[i].guard
                             \/ /\ x \notin LeversOf(Chain(f)[i])
                                /\ \E j \in LiveDefinitions(f) : j > i /\ <<x, FALSE>> \in Chain(f)[j].guard}]

\* A conjunction of tests asks a lever for one thing only.
LEMMA TestsAre ==
    ASSUME NEW g \in Guards
    PROVE  /\ \A l \in g : \E x \in Levers, b \in BOOLEAN : l = <<x, b>>
           /\ \A x \in Levers : ~(<<x, TRUE>> \in g /\ <<x, FALSE>> \in g)
<1>1. g \subseteq Levers \X BOOLEAN /\ \A x \in Levers : ~({<<x, TRUE>>, <<x, FALSE>>} \subseteq g)
  BY DEF Guards
<1>2. \A x \in Levers : ~(<<x, TRUE>> \in g /\ <<x, FALSE>> \in g)
  BY <1>1
<1>3. ASSUME NEW l \in Levers \X BOOLEAN PROVE \E x \in Levers, b \in BOOLEAN : l = <<x, b>>
  <2>1. l[1] \in Levers /\ l[2] \in BOOLEAN /\ l = <<l[1], l[2]>>
    OBVIOUS
  <2>2. QED
    BY <2>1, Zenon
<1>4. QED
  BY <1>1, <1>2, <1>3

\* It holds where each lever is as asked.
LEMMA HoldsInIs ==
    ASSUME NEW g \in Guards, NEW d
    PROVE  HoldsIn(g, d) <=> \A x \in Levers : /\ <<x, TRUE>> \in g => x \in d.set
                                               /\ <<x, FALSE>> \in g => x \notin d.set
<1>1. ASSUME HoldsIn(g, d), NEW x \in Levers
      PROVE  (<<x, TRUE>> \in g => x \in d.set) /\ (<<x, FALSE>> \in g => x \notin d.set)
  <2>1. \A b \in BOOLEAN : <<x, b>> \in g => ((x \in d.set) = b)
    BY <1>1 DEF HoldsIn
  <2>2. QED
    BY <2>1
<1>2. ASSUME \A x \in Levers : (<<x, TRUE>> \in g => x \in d.set) /\ (<<x, FALSE>> \in g => x \notin d.set)
      PROVE  HoldsIn(g, d)
  <2> SUFFICES ASSUME NEW l \in g
               PROVE  (l[1] \in d.set) = l[2]
    BY DEF HoldsIn
  <2>1. PICK x \in Levers, b \in BOOLEAN : l = <<x, b>>
    BY TestsAre
  <2>2. CASE b = TRUE
    BY <1>2, <2>1, <2>2
  <2>3. CASE b = FALSE
    <3>1. l[1] = x /\ l[2] = FALSE /\ <<x, FALSE>> \in g
      BY <2>1, <2>3
    <3>2. x \notin d.set
      BY <1>2, <3>1
    <3>3. (x \in d.set) = FALSE
      BY <3>2
    <3>4. QED
      BY <3>1, <3>3
  <2>4. QED
    BY <2>2, <2>3
<1>3. QED
  BY <1>1, <1>2

\* That deployment runs the assignment.
LEMMA DeploymentHolds ==
    ASSUME WiringInv, NEW f \in SettingsFiles, NEW i \in LiveDefinitions(f)
    PROVE  DeploymentOf(f, i) \in Deployments /\ HoldsIn(Chain(f)[i].guard, DeploymentOf(f, i))
<1> DEFINE g == Chain(f)[i].guard
           d == DeploymentOf(f, i)
<1>1. d \in Deployments
  BY DEF DeploymentOf, Deployments
<1>2. g \in Guards
  BY LiveAre
<1>3. ASSUME NEW x \in Levers
      PROVE  (<<x, TRUE>> \in g => x \in d.set) /\ (<<x, FALSE>> \in g => x \notin d.set)
  <2>1. <<x, FALSE>> \in g => x \in LeversOf(Chain(f)[i]) /\ <<x, TRUE>> \notin g
    <3>1. <<x, FALSE>> \in g => x \in LeversOf(Chain(f)[i])
      BY DEF LeversOf
    <3>2. QED
      BY <1>2, <3>1, TestsAre
  <2>2. QED
    BY <2>1 DEF DeploymentOf
<1> HIDE DEF d
<1>4. QED
  BY <1>1, <1>2, <1>3, HoldsInIs DEF d

\* No live assignment after it is sure to run there: it asks a lever for the opposite of
\* what the one before asks, or for a lever only it decides, which it finds the other way.
LEMMA LaterOnesDoNotHold ==
    ASSUME Careful, WiringInv, NEW f \in SettingsFiles, NEW i \in LiveDefinitions(f),
           NEW j \in LiveDefinitions(f), j > i
    PROVE  ~HoldsIn(Chain(f)[j].guard, DeploymentOf(f, i)) \/ Chain(f)[j].tried
<1> DEFINE s == Chain(f)[i]
           t == Chain(f)[j]
           d == DeploymentOf(f, i)
<1> SUFFICES ASSUME HoldsIn(t.guard, d), ~t.tried
             PROVE  FALSE
  OBVIOUS
<1>1. s.guard \in Guards /\ t.guard \in Guards /\ Skippable(t) /\ i \in Nat /\ j \in Nat
  BY LiveAre
<1>2. \A x \in Levers : (<<x, TRUE>> \in t.guard => x \in d.set) /\ (<<x, FALSE>> \in t.guard => x \notin d.set)
  BY <1>1, HoldsInIs
<1>3. \A x \in Levers : (<<x, TRUE>> \in s.guard => x \in d.set) /\ (<<x, FALSE>> \in s.guard => x \notin d.set)
  BY <1>1, DeploymentHolds, HoldsInIs
<1>4. \A j1, i1 \in LiveDefinitions(f) : i1 < j1 =>
         \/ LeversOf(Chain(f)[i1]) \cap LeversOf(Chain(f)[j1]) = {}
         \/ Exclusive(Chain(f)[i1], Chain(f)[j1]) /\ \A k \in LiveDefinitions(f) : k \in {i1, j1} \/ k > j1
  BY DEF Careful, WiringInv, Tidy, Orderly
<1>5. PICK x \in Levers, b \in BOOLEAN : <<x, b>> \in t.guard
  <2>1. PICK l \in t.guard : TRUE
    BY <1>1 DEF Skippable
  <2>2. PICK x \in Levers, b \in BOOLEAN : l = <<x, b>>
    BY <1>1, <2>1, TestsAre
  <2>3. <<x, b>> \in t.guard
    BY <2>1, <2>2
  <2>4. QED
    BY <2>3
<1>6. ~Exclusive(s, t)
  <2> SUFFICES ASSUME NEW l \in Levers, NEW c \in BOOLEAN, <<l, c>> \in s.guard, <<l, ~c>> \in t.guard
               PROVE  FALSE
    BY DEF Exclusive
  <2>1. CASE c = TRUE
    BY <1>2, <1>3, <2>1
  <2>2. CASE c = FALSE
    BY <1>2, <1>3, <2>2
  <2>3. QED
    BY <2>1, <2>2
<1>7. LeversOf(s) \cap LeversOf(t) = {}
  BY <1>4, <1>6
<1>8. x \in LeversOf(t) /\ x \notin LeversOf(s) /\ <<x, TRUE>> \notin s.guard
  <2>1. x \in LeversOf(t) /\ (<<x, TRUE>> \in s.guard => x \in LeversOf(s))
    BY <1>5 DEF LeversOf
  <2>2. QED
    BY <1>7, <2>1
<1>9. CASE b = FALSE
  <2>1. x \in d.set
    BY <1>5, <1>8, <1>9 DEF DeploymentOf
  <2>2. QED
    BY <1>2, <1>5, <1>9, <2>1
<1>10. CASE b = TRUE
  <2>1. PICK k \in LiveDefinitions(f) : k > i /\ <<x, FALSE>> \in Chain(f)[k].guard
    <3>1. x \in d.set
      BY <1>2, <1>5, <1>10
    <3>2. QED
      BY <1>8, <3>1 DEF DeploymentOf
  <2>2. k # j /\ k \in Nat
    BY <1>1, <1>5, <1>10, <2>1, TestsAre, LiveAre
  <2>3. x \in LeversOf(Chain(f)[k])
    BY <2>1 DEF LeversOf
  <2>4. LeversOf(Chain(f)[k]) \cap LeversOf(t) # {}
    BY <1>8, <2>3
  <2>5. k > j \/ k < j
    BY <1>1, <2>2
  <2>6. \A h \in LiveDefinitions(f) : h \in {j, k} \/ h > j \/ h > k
    BY <1>4, <2>4, <2>5
  <2>7. QED
    BY <1>1, <2>1, <2>2, <2>6
<1>11. QED
  BY <1>9, <1>10

\* Every engine named is reached (EvidenceIsReal).
LEMMA EvidenceHolds ==
    ASSUME Careful, WiringInv
    PROVE  EvidenceIsReal(ProjectEngines, Reached)
<1> SUFFICES ASSUME NEW c \in ProjectEngines, c.vendor # "unknown"
             PROVE  \E r \in Reached : /\ r[1] = c.alias /\ r[2] = c.vendor
                                       /\ r[3].file = c.file /\ HoldsIn(c.guard, r[3])
  BY DEF EvidenceIsReal
<1>0. PICK f \in SettingsFiles :
         \E i \in LiveDefinitions(f) : \E a \in DOMAIN Chain(f)[i].databases :
            Chain(f)[i].shape = "dict" /\ c = Choice(f, Chain(f)[i], a)
  BY ChoicesAre
<1>9. PICK i \in LiveDefinitions(f) : \E a \in DOMAIN Chain(f)[i].databases :
         Chain(f)[i].shape = "dict" /\ c = Choice(f, Chain(f)[i], a)
  BY <1>0
<1>1. PICK a \in DOMAIN Chain(f)[i].databases :
         Chain(f)[i].shape = "dict" /\ c = Choice(f, Chain(f)[i], a)
  BY <1>9
<1> DEFINE d == DeploymentOf(f, i)
           s == Chain(f)[i]
<1>2. d \in Deployments /\ HoldsIn(s.guard, d) /\ d.file = f
  BY DeploymentHolds DEF DeploymentOf
<1> HIDE DEF d
<1>3. s.databases \in Mappings(d)
  BY <1>1, <1>2, LaterOnesDoNotHold, LiveDictsAreKept DEF d
<1>4. /\ c.alias = a /\ c.vendor = ClassifyEngine(s.databases[a]) /\ c.file = f
      /\ c.guard = IF s.file = f /\ ~s.tried THEN s.guard ELSE {}
  BY <1>1 DEF Choice
<1>5. <<a, c.vendor, d>> \in Reached
  BY <1>2, <1>3, <1>4, DictsAreReached
<1>6. HoldsIn(c.guard, d)
  BY <1>2, <1>4 DEF HoldsIn
<1>7. QED
  BY <1>2, <1>4, <1>5, <1>6

\* The choices for an alias that diverges name two vendors.
LEMMA RelevantAre ==
    ASSUME NEW choices
    PROVE  /\ Relevant(choices) \subseteq choices
           /\ Portability(choices) = "divergent" =>
                \E v, w \in Known(Relevant(choices)) : v # w
<1>1. Relevant(choices) \subseteq choices
  BY DEF Relevant, ForAlias
<1>2. ASSUME Portability(choices) = "divergent"
      PROVE  \E v, w \in Known(Relevant(choices)) : v # w
  <2>1. Diverging(choices) # {}
    BY <1>2 DEF Portability
  <2>2. PICK a \in Diverging(choices) : Relevant(choices) = ForAlias(choices, a)
    <3>1. Diverging(choices) \subseteq {"default", "replica"}
      BY DEF Diverging, Aliases
    <3>2. (IF "default" \in Diverging(choices) THEN "default" ELSE "replica") \in Diverging(choices)
      BY <2>1, <3>1
    <3>3. QED
      BY <2>1, <3>2 DEF Relevant
  <2>3. Cardinality(Known(Relevant(choices))) > 1
    BY <2>2 DEF Diverging
  <2>4. QED
    BY <2>3, TwoKnown
<1>3. QED
  BY <1>1, <1>2

\* What is said to run with nothing set does (NothingSetIsNothingSet).
LEMMA NothingSetHolds ==
    ASSUME Careful, WiringInv
    PROVE  NothingSetIsNothingSet(ProjectEngines, Reached)
<1> DEFINE choices == ProjectEngines
<1> SUFFICES ASSUME NEW c \in Default(choices)
             PROVE  /\ c.vendor # "unknown" => <<c.alias, c.vendor, [file |-> c.file, set |-> {}]>> \in Reached
                    /\ EngineDivergence(choices) => Alternatives(choices) # {}
  BY DEF NothingSetIsNothingSet
<1>1. c \in Relevant(choices) /\ c \in choices /\ ~c.conditional
  BY RelevantAre DEF Default
<1>2. ASSUME c.vendor # "unknown"
      PROVE  <<c.alias, c.vendor, [file |-> c.file, set |-> {}]>> \in Reached
  <2>1. PICK f \in SettingsFiles :
           \E i \in LiveDefinitions(f) : \E a \in DOMAIN Chain(f)[i].databases :
              Chain(f)[i].shape = "dict" /\ c = Choice(f, Chain(f)[i], a)
    BY <1>1, ChoicesAre
  <2>2. PICK i \in LiveDefinitions(f) : \E a \in DOMAIN Chain(f)[i].databases :
           Chain(f)[i].shape = "dict" /\ c = Choice(f, Chain(f)[i], a)
    BY <2>1
  <2>3. PICK a \in DOMAIN Chain(f)[i].databases :
           Chain(f)[i].shape = "dict" /\ c = Choice(f, Chain(f)[i], a)
    BY <2>2
  <2> DEFINE d == [file |-> f, set |-> {}]
             s == Chain(f)[i]
  <2>4. d \in Deployments /\ d.file = f
    BY DEF Deployments
  <2>5. /\ c.alias = a /\ c.vendor = ClassifyEngine(s.databases[a]) /\ c.file = f
        /\ ~Skippable(s)
    BY <1>1, <2>3 DEF Choice
  <2>6. HoldsIn(s.guard, d)
    BY <2>5 DEF Skippable, HoldsIn
  <2>7. ASSUME NEW j \in LiveDefinitions(f), j > i
        PROVE  ~HoldsIn(Chain(f)[j].guard, d) \/ Chain(f)[j].tried
    <3>1. Skippable(Chain(f)[j]) /\ Chain(f)[j].guard \in Guards
      BY <2>7, LiveAre
    <3>2. CASE Chain(f)[j].guard # {}
      <4>1. PICK l \in Chain(f)[j].guard : l[2]
        BY <2>5, <3>2 DEF Careful, WiringInv, Tidy, Orderly
      <4>2. l[1] \notin d.set
        OBVIOUS
      <4>3. ((l[1] \in d.set) = l[2]) => FALSE
        BY <4>1, <4>2
      <4>4. QED
        BY <4>3 DEF HoldsIn
    <3>3. QED
      BY <3>1, <3>2 DEF Skippable
  <2>8. s.databases \in Mappings(d)
    <3> HIDE DEF d
    <3>1. QED
      BY <2>3, <2>4, <2>6, <2>7, LiveDictsAreKept
  <2>9. <<a, c.vendor, d>> \in Reached
    <3> HIDE DEF d
    <3>1. QED
      BY <1>2, <2>4, <2>5, <2>8, DictsAreReached
  <2>10. QED
    BY <2>5, <2>9
<1>3. ASSUME EngineDivergence(choices)
      PROVE  Alternatives(choices) # {}
  <2>1. PICK v, w \in Known(Relevant(choices)) : v # w
    BY <1>3, RelevantAre DEF EngineDivergence
  <2>2. PICK e \in Relevant(choices) : c.vendor # e.vendor
    BY <2>1 DEF Known
  <2>3. e \in Alternatives(choices)
    BY <2>2 DEF Alternatives
  <2>4. QED
    BY <2>3
<1>4. QED
  BY <1>2, <1>3

\* Everything assigned is a dict.
AllDicts == \A f \in SettingsFiles : \A i \in DOMAIN wiring[f] : wiring[f][i].shape = "dict"

\* A chain of files of dicts has dicts alone.
LEMMA ChainsOfDicts ==
    ASSUME WiringInv, AllDicts, NEW f \in SettingsFiles
    PROVE  \A i \in 1..Len(Chain(f)) : Chain(f)[i].shape = "dict"
<1> DEFINE shared == IF f \in importers THEN wiring[SharedFile] ELSE <<>>
           own == wiring[f]
<1>1. /\ shared \in Seq(Entries) /\ own \in Seq(Entries) /\ Chain(f) = shared \o own
      /\ \A i \in DOMAIN shared : shared[i].shape = "dict"
      /\ \A i \in DOMAIN own : own[i].shape = "dict"
  <2>1. shared \in Seq(Entries) /\ own \in Seq(Entries) /\ Chain(f) = shared \o own
    BY FilesAreNumbered DEF WiringInv, Chain
  <2>2. \A i \in DOMAIN own : own[i].shape = "dict"
    BY DEF AllDicts
  <2>3. \A i \in DOMAIN shared : shared[i].shape = "dict"
    <3>1. CASE f \in importers
      BY <3>1, FilesAreNumbered DEF AllDicts
    <3>2. CASE f \notin importers
      BY <3>2
    <3>3. QED
      BY <3>1, <3>2
  <2>4. QED
    BY <2>1, <2>2, <2>3
<1> HIDE DEF shared, own
<1>2. /\ Len(Chain(f)) = Len(shared) + Len(own) /\ Len(shared) \in Nat /\ Len(own) \in Nat
      /\ DOMAIN shared = 1..Len(shared) /\ DOMAIN own = 1..Len(own)
  BY <1>1
<1>3. ASSUME NEW i \in 1..Len(Chain(f)) PROVE Chain(f)[i].shape = "dict"
  <2>1. CASE i <= Len(shared)
    BY <1>1, <1>2, <2>1
  <2>2. CASE i > Len(shared)
    <3>1. i - Len(shared) \in 1..Len(own) /\ Chain(f)[i] = own[i - Len(shared)]
      BY <1>1, <1>2, <2>2
    <3>2. QED
      BY <1>1, <1>2, <3>1
  <2>3. QED
    BY <1>2, <2>1, <2>2
<1>4. QED
  BY <1>3

\* Where everything assigned is a dict, a deployment is left with that of an assignment
\* nothing outright came after.
LastOf(f, k, m) ==
    \E i \in 1..k : m = Chain(f)[i].databases /\ \A j \in (i + 1)..k : Skippable(Chain(f)[j])

\* One assignment keeps that so.
LEMMA EachIsTheLast ==
    ASSUME WiringInv, AllDicts, NEW f \in SettingsFiles, NEW d, NEW k \in 1..Len(Chain(f)), NEW ms,
           \A m \in ms : m = Unassigned \/ LastOf(f, k - 1, m)
    PROVE  \A m \in Run(Chain(f)[k], d, ms) : m = Unassigned \/ LastOf(f, k, m)
<1> DEFINE s == Chain(f)[k]
<1>1. k \in Nat /\ k \in k..k /\ (k + 1)..k = {} /\ \A i \in 1..(k - 1) : \A j \in (i + 1)..k : j = k \/ j \in (i + 1)..(k - 1)
  OBVIOUS
<1>2. LastOf(f, k, s.databases)
  <2>1. k \in 1..k
    OBVIOUS
  <2>2. QED
    BY <1>1, <2>1 DEF LastOf
<1>3. ASSUME NEW m \in ms, Skippable(s) PROVE m = Unassigned \/ LastOf(f, k, m)
  <2>1. CASE LastOf(f, k - 1, m)
    <3>1. PICK i \in 1..(k - 1) : m = Chain(f)[i].databases /\ \A j \in (i + 1)..(k - 1) : Skippable(Chain(f)[j])
      BY <2>1 DEF LastOf
    <3>2. i \in 1..k /\ \A j \in (i + 1)..k : Skippable(Chain(f)[j])
      BY <1>1, <1>3, <3>1
    <3>3. QED
      BY <3>1, <3>2 DEF LastOf
  <2>2. QED
    BY <2>1
<1>4. ~Skippable(s) => HoldsIn(s.guard, d) /\ ~s.tried
  BY DEF Skippable, HoldsIn
<1>5. \A m : After(s, m) = {s.databases}
  BY ChainsOfDicts DEF After
<1>6. ASSUME NEW m \in Run(s, d, ms) PROVE m = s.databases \/ (m \in ms /\ Skippable(s))
  BY <1>4, <1>5, <1>6 DEF Run
<1>7. QED
  BY <1>2, <1>3, <1>6

\* So what a deployment is left with, if anything, is a live dict.
LEMMA MappingsAreLiveDicts ==
    ASSUME WiringInv, AllDicts, NEW d \in Deployments, NEW m \in Mappings(d), m # Unassigned
    PROVE  \E i \in LiveDefinitions(d.file) : Chain(d.file)[i].shape = "dict" /\ m = Chain(d.file)[i].databases
<1> DEFINE f == d.file
           n == Len(Chain(f))
<1>1. f \in SettingsFiles
  BY DEF Deployments
<1>2. n \in Nat /\ Definitions(f) = 1..n /\ \A k \in 1..n : Chain(f)[k].shape = "dict"
  BY <1>1, ChainIs, ChainsOfDicts
<1>3. PICK left : /\ left[0] = {Unassigned} /\ \A k \in 1..n : left[k] = Run(Chain(f)[k], d, left[k - 1])
                  /\ Mappings(d) = left[n]
  BY <1>2, MappingsAre
<1> DEFINE S == {k \in 0..n : \A x \in left[k] : x = Unassigned \/ LastOf(f, k, x)}
<1>4. 0 \in S
  BY <1>2, <1>3
<1>5. \A k \in (0 + 1)..n : k - 1 \in S => k \in S
  <2> SUFFICES ASSUME NEW k \in 1..n, \A x \in left[k - 1] : x = Unassigned \/ LastOf(f, k - 1, x)
               PROVE  \A x \in left[k] : x = Unassigned \/ LastOf(f, k, x)
    BY <1>2
  <2>1. \A x \in Run(Chain(f)[k], d, left[k - 1]) : x = Unassigned \/ LastOf(f, k, x)
    BY <1>1, EachIsTheLast
  <2>2. QED
    BY <1>3, <2>1
<1>6. S \in SUBSET Nat
  BY <1>2
<1> HIDE DEF S
<1>7. 0..n \subseteq S
  BY <1>2, <1>4, <1>5, <1>6, StepsReach
<1>8. LastOf(f, n, m)
  BY <1>2, <1>3, <1>7 DEF S
<1>9. PICK i \in 1..n : m = Chain(f)[i].databases /\ \A j \in (i + 1)..n : Skippable(Chain(f)[j])
  BY <1>8 DEF LastOf
<1>10. i \in LiveDefinitions(f)
  BY <1>2, <1>9 DEF LiveDefinitions
<1>11. QED
  BY <1>2, <1>9, <1>10

\* With dicts alone, each database that a deployment connects to is one that was told or
\* stands beside an engine nobody could tell.
LEMMA ReachedAreChosen ==
    ASSUME WiringInv, AllDicts, NEW r \in Reached
    PROVE  \E c \in ProjectEngines : /\ c.alias = r[1] /\ r[1] \in Aliases
                                     /\ c.vendor = "unknown" \/ (c.vendor = r[2] /\ r[2] \in Vendors)
<1>1. PICK a \in Aliases, d \in Deployments :
         \E m \in Mappings(d) : a \in DOMAIN m /\ \E v \in Servers(m[a]) : r = <<a, v, d>>
  BY ReachedAre
<1>2. PICK m \in Mappings(d) : a \in DOMAIN m /\ \E v \in Servers(m[a]) : r = <<a, v, d>>
  BY <1>1
<1>3. PICK v \in Servers(m[a]) : r = <<a, v, d>>
  BY <1>2
<1>4. m # Unassigned
  BY <1>2 DEF Unassigned, Aliases
<1>5. PICK i \in LiveDefinitions(d.file) : Chain(d.file)[i].shape = "dict" /\ m = Chain(d.file)[i].databases
  BY <1>4, MappingsAreLiveDicts
<1>6. d.file \in SettingsFiles
  BY DEF Deployments
<1> DEFINE c == Choice(d.file, Chain(d.file)[i], a)
<1>7. c \in ProjectEngines
  BY <1>2, <1>5, <1>6, ChoicesHold
<1>8. m[a] \in Engines
  BY <1>2, <1>5, <1>6, LiveAre
<1>9. c.alias = a /\ c.vendor = ClassifyEngine(m[a])
  BY <1>5 DEF Choice
<1>10. c.vendor = "unknown" \/ (c.vendor = v /\ v \in Vendors)
  BY <1>8, <1>9, EnginesAre
<1>11. QED
  BY <1>3, <1>7, <1>9, <1>10

\* No database that may be reached is ruled out (NothingIsRuledOut).
LEMMA NothingRuledOutHolds ==
    ASSUME WiringInv
    PROVE  NothingIsRuledOut(ProjectEngines, Reached)
<1> DEFINE choices == ProjectEngines
<1> SUFFICES ASSUME AllDicts, Portability(choices) # "divergent", NEW r \in Reached
             PROVE  CouldReach(choices, r[2])
  BY DEF NothingIsRuledOut, AllDicts
<1>1. PICK c \in choices : c.vendor = "unknown" \/ (c.vendor = r[2] /\ r[2] \in Vendors)
  BY ReachedAreChosen
<1>2. CASE c.vendor = "unknown"
  BY <1>2 DEF Portability, Conclusive, CouldReach
<1>3. CASE c.vendor = r[2] /\ r[2] \in Vendors
  BY <1>3 DEF Known, Reaches, CouldReach
<1>4. QED
  BY <1>1, <1>2, <1>3

\* Two databases behind one connection are reported (DivergencesAreReported).
LEMMA DivergencesHold ==
    ASSUME WiringInv
    PROVE  DivergencesAreReported(ProjectEngines, Reached)
<1> DEFINE choices == ProjectEngines
<1> SUFFICES ASSUME AllDicts, \A c \in choices : c.vendor # "unknown",
                    NEW r \in Reached, NEW q \in Reached, r[1] = q[1], r[2] # q[2]
             PROVE  /\ Portability(choices) = "divergent"
                    /\ (\E c \in Relevant(choices) : ~c.conditional) => EngineDivergence(choices)
  BY DEF DivergencesAreReported, AllDicts
<1>1. PICK c \in choices : c.alias = r[1] /\ r[1] \in Aliases /\ c.vendor = r[2] /\ r[2] \in Vendors
  BY ReachedAreChosen
<1>2. PICK e \in choices : e.alias = r[1] /\ e.vendor = q[2] /\ q[2] \in Vendors
  BY ReachedAreChosen
<1>3. r[2] \in Known(ForAlias(choices, r[1])) /\ q[2] \in Known(ForAlias(choices, r[1]))
  BY <1>1, <1>2 DEF Known, ForAlias
<1>4. Cardinality(Known(ForAlias(choices, r[1]))) > 1
  BY <1>3, TwoKnown
<1>5. r[1] \in Diverging(choices)
  BY <1>1, <1>4 DEF Diverging
<1>6. Portability(choices) = "divergent"
  BY <1>1, <1>5 DEF Portability
<1>7. ASSUME NEW p \in Relevant(choices), ~p.conditional PROVE EngineDivergence(choices)
  <2> DEFINE plain == {x \in Relevant(choices) : ~x.conditional}
             development == {x \in plain : x.file \in Development}
             pool == IF development # {} THEN development ELSE plain
             files == {x.file : x \in pool}
  <2>1. pool # {} /\ pool \subseteq choices
    BY <1>7, RelevantAre
  <2>2. \A x \in choices : x.file \in Nat
    <3> SUFFICES ASSUME NEW x \in choices
                 PROVE  x.file \in Nat
      OBVIOUS
    <3>1. PICK f \in SettingsFiles : \E i \in LiveDefinitions(f) : \E a \in DOMAIN Chain(f)[i].databases :
             x = Choice(f, Chain(f)[i], a)
      BY ChoicesAre
    <3>2. x.file = f
      BY <3>1 DEF Choice
    <3>3. QED
      BY <3>2, FilesAreNumbered
  <2>3. files \in SUBSET Nat /\ files # {}
    <3> HIDE DEF pool
    <3>1. QED
      BY <2>1, <2>2
  <2>4. PICK f \in files : \A g \in files : f <= g
    <3> HIDE DEF files
    <3>1. QED
      BY <2>3, LeastExists
  <2>5. PICK x \in pool : \A y \in pool : x.file <= y.file
    <3> HIDE DEF pool
    <3>1. QED
      BY <2>4
  <2>6. x \in Default(choices)
    BY <2>5 DEF Default
  <2>7. QED
    BY <1>6, <2>6 DEF EngineDivergence
<1>8. QED
  BY <1>6, <1>7

\* The rules name a use for what differs, for every use there is (NamedForWhatDiffers).
LEMMA NamesAreForWhatDiffers == NamedForWhatDiffers
<1> SUFFICES ASSUME NEW u \in Uses
             PROVE  (Named(u) => Differs(u)) /\ (Differs(u) /\ Legible(u) => Named(u))
  BY DEF NamedForWhatDiffers, NamedUses, DifferingUses, LegibleUses
<1> USE DEF Named, Differs, Legible, DistinctOnFields, DiscardedRowLock, JsonContainment,
            CaseSensitiveTextLookup, DivergentRegex, PostgresOnlyField, UnenforcedConstraint,
            UnenforcedColumnLimit, Tracked, FieldAt
<1>1. CASE u \in [what : {"distinct"}, given : {"nothing", "field names", "computed"}, on : Receivers]
  BY <1>1 DEF Receivers
<1>2. CASE u \in [what : {"lock"}, on : Receivers]
  BY <1>2 DEF Receivers
<1>3. CASE u \in [what : {"lookup"}, via : {"keyword", "Q", "annotate"}, on : Receivers,
                  asks : {"contains", "contained_by", "startswith", "icontains"},
                  lands : {"text", "own text", "JSON", "key of JSON", "array", "number", "beyond"}]
  BY <1>3 DEF Receivers
<1>4. CASE u \in [what : {"pattern"}, token : {"word boundary", "POSIX class", "named group", "digit"},
                  written : {"literal", "built"}, on : Receivers]
  BY <1>4 DEF Receivers, RegexDialect
<1>5. CASE u \in [what : {"column"}, limit : {"given", "computed", "omitted"}, of : {"model", "proxy"},
                  kind : {"CharField", "SlugField", "TextField", "FileField", "IntegerField",
                          "BigIntegerField", "DecimalField", "ArrayField", "own vector"}]
  BY <1>5 DEF HasRange, HasDigits, HasWidth
<1>6. CASE u \in [what : {"constraint"}, of : {"model", "proxy"},
                  class : {"unique", "deferrable", "exclusion", "own exclusion", "check"}]
  BY <1>6
<1>7. QED
  BY <1>1, <1>2, <1>3, <1>4, <1>5, <1>6 DEF Uses

\* And only where deployments run on both engines (UsesAreJudged).
LEMMA UsesHold ==
    ASSUME Careful, WiringInv
    PROVE  UsesAreJudged(ProjectEngines, Reached)
<1> SUFFICES ASSUME DivergenceRule(ProjectEngines), NEW v \in {"sqlite", "postgresql"}
             PROVE  \E r \in Reached : r[2] = v
  BY NamesAreForWhatDiffers DEF UsesAreJudged
<1>1. PICK c \in ProjectEngines : c.vendor = v
  BY DEF DivergenceRule, Reaches, Known
<1>2. QED
  BY <1>1, EvidenceHolds DEF EvidenceIsReal

\* Writing one more assignment keeps all of this.
LEMMA WiringIsKept ==
    ASSUME Careful, WiringInv, [PortabilityNext]_wiringVars
    PROVE  WiringInv'
<1>1. CASE UNCHANGED wiringVars
  <2>1. wiring' = wiring /\ importers' = importers
    BY <1>1 DEF wiringVars
  <2>2. \A f \in SettingsFiles : Chain(f)' = Chain(f)
    BY <2>1 DEF Chain
  <2>3. \A f \in SettingsFiles : LiveDefinitions(f)' = LiveDefinitions(f)
    BY <2>2 DEF LiveDefinitions, Definitions
  <2>4. \A f \in SettingsFiles : AddsToADict(f) => AddsToADict(f)'
    BY <2>1 DEF AddsToADict, Skippable
  <2>5. ASSUME NEW f \in SettingsFiles, Tidy(f) PROVE Tidy(f)'
    <3>1. Chain(f)' = Chain(f) /\ LiveDefinitions(f)' = LiveDefinitions(f)
      BY <2>2, <2>3
    <3>2. QED
      BY <2>5, <3>1 DEF Tidy
  <2>6. QED
    BY <2>1, <2>4, <2>5 DEF WiringInv
<1>2. ASSUME NEW f \in SettingsFiles, NEW s \in Assignments, AssignDatabases(f, s)
      PROVE  WiringInv'
  <2> DEFINE w == Entry(f, s)
  <2>1. /\ wiring \in [SettingsFiles -> Seq(Entries)] /\ importers' = importers
        /\ wiring' = [wiring EXCEPT ![f] = Append(@, w)] /\ \A g \in SettingsFiles : Tidy(g)'
        /\ importers \in {{}, SettingsFiles \ {SharedFile}} /\ SharedFile \in SettingsFiles
    BY <1>2, FilesAreNumbered DEF AssignDatabases, WiringInv
  <2>2. w \in Entries /\ w.shape = s.shape
    <3>1. /\ s.guard \in Guards /\ s.tried \in BOOLEAN /\ s.shape \in {"dict", "call", "augmented", "in place"}
          /\ s.databases \in UNION {[D -> Engines] : D \in SUBSET Aliases}
      BY AssignmentsAreWritten
    <3>2. s.shape # "in place"
      BY <1>2 DEF AssignDatabases, Careful
    <3>3. QED
      BY <3>1, <3>2 DEF Entry, Entries
  <2> HIDE DEF w
  <2>3. wiring' \in [SettingsFiles -> Seq(Entries)]
    BY <2>1, <2>2
  <2>4. \A g \in SettingsFiles : \A k \in DOMAIN wiring[g] : k \in DOMAIN wiring'[g] /\ wiring'[g][k] = wiring[g][k]
    BY <2>1, <2>2
  <2>5. ASSUME NEW g \in SettingsFiles PROVE AddsToADict(g)'
    <3> SUFFICES ASSUME NEW k \in DOMAIN wiring'[g], wiring'[g][k].shape = "augmented"
                 PROVE  \/ \E i \in 1..(k - 1) : ~Skippable(wiring'[g][i])
                        \/ g \in importers /\ \E i \in DOMAIN wiring'[SharedFile] : ~Skippable(wiring'[SharedFile][i])
      BY <2>1 DEF AddsToADict
    <3>1. DOMAIN wiring[g] = 1..Len(wiring[g]) /\ Len(wiring[g]) \in Nat
      BY <2>1
    <3>2. CASE k \in DOMAIN wiring[g]
      <4>1. wiring[g][k].shape = "augmented"
        BY <2>4, <3>2
      <4>2. CASE \E i \in 1..(k - 1) : ~Skippable(wiring[g][i])
        <5>1. PICK i \in 1..(k - 1) : ~Skippable(wiring[g][i])
          BY <4>2
        <5>2. i \in DOMAIN wiring[g]
          BY <3>1, <3>2
        <5>3. QED
          BY <2>4, <5>1, <5>2
      <4>3. CASE g \in importers /\ \E i \in DOMAIN wiring[SharedFile] : ~Skippable(wiring[SharedFile][i])
        BY <2>1, <2>4, <4>3
      <4>4. QED
        BY <3>2, <4>1, <4>2, <4>3 DEF WiringInv, AddsToADict
    <3>3. CASE k \notin DOMAIN wiring[g]
      <4>1. g = f /\ k = Len(wiring[f]) + 1 /\ wiring'[f][k] = w
        BY <2>1, <2>2, <3>1, <3>3
      <4>2. PICK i \in DOMAIN Chain(f) : ~Skippable(Chain(f)[i])
        BY <1>2, <2>2, <4>1 DEF AssignDatabases
      <4> DEFINE shared == IF f \in importers THEN wiring[SharedFile] ELSE <<>>
                 own == wiring[f]
      <4>3. shared \in Seq(Entries) /\ own \in Seq(Entries) /\ Chain(f) = shared \o own
        BY <2>1 DEF Chain
      <4>4. \A j \in DOMAIN shared : f \in importers /\ shared = wiring[SharedFile]
        OBVIOUS
      <4>5. own = wiring[f]
        OBVIOUS
      <4> HIDE DEF shared, own
      <4>6. /\ DOMAIN Chain(f) = 1..(Len(shared) + Len(own)) /\ Len(shared) \in Nat /\ Len(own) \in Nat
            /\ DOMAIN shared = 1..Len(shared) /\ DOMAIN own = 1..Len(own)
        BY <4>3
      <4>7. CASE i <= Len(shared)
        <5>1. i \in DOMAIN shared /\ Chain(f)[i] = shared[i]
          BY <4>2, <4>3, <4>6, <4>7
        <5>2. QED
          BY <2>1, <2>4, <4>1, <4>2, <4>4, <5>1
      <4>8. CASE i > Len(shared)
        <5> DEFINE j == i - Len(shared)
        <5>1. j \in DOMAIN own /\ Chain(f)[i] = own[j]
          BY <4>2, <4>3, <4>6, <4>8
        <5>2. j \in 1..(k - 1)
          BY <4>1, <4>5, <4>6, <5>1
        <5> HIDE DEF j
        <5>3. QED
          BY <2>4, <4>1, <4>2, <4>5, <5>1, <5>2
      <4>9. QED
        BY <4>2, <4>6, <4>7, <4>8
    <3>4. QED
      BY <3>2, <3>3
  <2>6. QED
    BY <2>1, <2>3, <2>5 DEF WiringInv
<1>3. QED
  BY <1>1, <1>2 DEF PortabilityNext

\* For authors without the habits: every engine djaudit names is one that a deployment
\* connects to under the tests it is said to need, what it calls the database of nothing
\* set is that one, nothing a deployment may run on is ruled out, two databases behind
\* one connection are reported, and the rules about code speak where two engines differ
\* and deployments run on both (live_definitions, divergence, DivergenceRule).
THEOREM EnginesHold ==
    ASSUME Careful
    PROVE  PortabilitySpec => []EnginesAreJudged
<1>1. PortabilityInit => WiringInv
  <2> SUFFICES ASSUME PortabilityInit
               PROVE  WiringInv
    OBVIOUS
  <2>1. wiring \in [SettingsFiles -> Seq(Entries)] /\ \A f \in SettingsFiles : wiring[f] = <<>>
    BY DEF PortabilityInit
  <2>2. \A f \in SettingsFiles : Chain(f) = <<>>
    BY <2>1, FilesAreNumbered DEF Chain
  <2>3. \A f \in SettingsFiles : LiveDefinitions(f) = {} /\ AddsToADict(f)
    <3>1. DOMAIN <<>> = {}
      OBVIOUS
    <3>2. QED
      BY <2>1, <2>2, <3>1 DEF LiveDefinitions, Definitions, AddsToADict
  <2>4. \A f \in SettingsFiles : Tidy(f)
    BY <2>3 DEF Tidy, Orderly
  <2>5. QED
    BY <2>1, <2>3, <2>4 DEF WiringInv, PortabilityInit
<1>2. WiringInv /\ [PortabilityNext]_wiringVars => WiringInv'
  BY WiringIsKept
<1>3. WiringInv => EnginesAreJudged
  BY EvidenceHolds, NothingSetHolds, NothingRuledOutHolds, DivergencesHold, UsesHold DEF EnginesAreJudged
<1>4. QED
  BY <1>1, <1>2, <1>3, PTL DEF PortabilitySpec

-----------------------------------------------------------------------------
(* Which rows a list endpoint hands to whom (QuerysetRules). *)

\* What a statement of get_queryset may be, and a class.
Statements == [place : Placements, do : {"assign", "return"}, rows : [root : Roots, step : Narrowings]]
ClassParts == [queryset : {Absent, "as is", "none"}, get_queryset : Seq(Statements), rows : {Absent, "as is", "mine"},
            rebind : {Absent, "always", "if setting"}, get_object : {Absent} \cup Objects]

\* A run that has come to a statement has passed every return before it.
Comes(link, k, run) ==
    /\ Happens(Body(link)[k].place, link, run)
    /\ \A j \in 1..(k - 1) : Body(link)[j].do = "return" => ~Happens(Body(link)[j].place, link, run)

\* Some run comes to every statement, and it reads what the two classes provide.
PartsInv ==
    /\ parts \in [Links -> ClassParts]
    /\ \A link \in Links : \A k \in DOMAIN Body(link) :
         LET rows == Body(link)[k].rows IN
         /\ \E run \in ViewRuns : Comes(link, k, run)
         /\ rows.root = "super" => link = "viewset"
         /\ rows.root = "qs" => \E j \in 1..(k - 1) : Body(link)[j].do = "assign"
         /\ rows.root = "self.rows" => Nearest("rows") # Absent

\* A body is a sequence of statements.
LEMMA BodyIs ==
    ASSUME PartsInv, NEW link \in Links
    PROVE  /\ Len(Body(link)) \in Nat /\ DOMAIN Body(link) = 1..Len(Body(link))
           /\ \A k \in 1..Len(Body(link)) : Body(link)[k] \in Statements
           /\ (HasBody(link) <=> Len(Body(link)) > 0)
           /\ Body(link) \in Seq(Statements)
<1>1. Body(link) \in Seq(Statements)
  BY DEF PartsInv, Body, ClassParts
<1>2. QED
  BY <1>1 DEF HasBody

-----------------------------------------------------------------------------
\* How a body runs: what each statement has made of what there was before it.
Begun == [qs |-> "error", answer |-> Pending]
IsRunOf(link, beyond, run, n, at) ==
    at = [i \in 0..n |-> IF i = 0 THEN Begun
                         ELSE Execute(at[i - 1], Body(link)[i], link, beyond, run)]

\* There is such a function for a body of any length.
LEMMA RunExists ==
    ASSUME NEW link, NEW beyond, NEW run, NEW n \in Nat
    PROVE  \E at : IsRunOf(link, beyond, run, n, at)
<1> DEFINE T == {k \in Nat : ~\E at : IsRunOf(link, beyond, run, k, at)}
<1>1. 0 \notin T
  <2> DEFINE at == [i \in 0..0 |-> Begun]
  <2>1. IsRunOf(link, beyond, run, 0, at)
    BY DEF IsRunOf
  <2>2. QED
    BY <2>1
<1>2. \A k \in Nat \ {0} : k - 1 \notin T => k \notin T
  <2> SUFFICES ASSUME NEW k \in Nat \ {0}, NEW before, IsRunOf(link, beyond, run, k - 1, before)
               PROVE  \E at : IsRunOf(link, beyond, run, k, at)
    OBVIOUS
  <2> DEFINE at == [i \in 0..k |-> IF i = k THEN Execute(before[k - 1], Body(link)[k], link, beyond, run)
                                   ELSE before[i]]
  <2>1. \A i \in 0..(k - 1) : before[i] = IF i = 0 THEN Begun
                                          ELSE Execute(before[i - 1], Body(link)[i], link, beyond, run)
    BY DEF IsRunOf
  <2>2. \A i \in 0..k : at[i] = IF i = 0 THEN Begun ELSE Execute(at[i - 1], Body(link)[i], link, beyond, run)
    <3>1. at[k] = Execute(before[k - 1], Body(link)[k], link, beyond, run) /\ \A i \in 0..(k - 1) : at[i] = before[i]
      OBVIOUS
    <3>2. \A i \in 0..k : i = k \/ (i \in 0..(k - 1) /\ (i # 0 => i - 1 \in 0..(k - 1)))
      OBVIOUS
    <3>3. k - 1 \in 0..(k - 1) /\ k # 0
      OBVIOUS
    <3> HIDE DEF at
    <3>4. QED
      BY <2>1, <3>1, <3>2, <3>3
  <2>3. IsRunOf(link, beyond, run, k, at)
    BY <2>2 DEF IsRunOf
  <2>4. QED
    BY <2>3
<1>3. T = {}
  <2> SUFFICES ASSUME T # {}
               PROVE  FALSE
    OBVIOUS
  <2> HIDE DEF T
  <2>1. T \in SUBSET Nat
    BY DEF T
  <2>2. PICK k \in T : \A m \in T : k <= m
    BY <2>1, LeastExists
  <2>3. k \in Nat \ {0}
    BY <1>1, <2>1, <2>2
  <2>4. QED
    BY <1>2, <2>2, <2>3
<1>4. QED
  BY <1>3

\* A run of a body, and what the body answers.
RunsAs(link, beyond, run, at) ==
    LET n == Len(Body(link)) IN
    /\ at[0] = Begun
    /\ \A i \in 1..n : at[i] = Execute(at[i - 1], Body(link)[i], link, beyond, run)
    /\ RunBody(link, beyond, run) = IF at[n].answer = Pending THEN "error" ELSE at[n].answer

\* Every body runs so: the function RunBody chooses is one.
LEMMA BodyRuns ==
    ASSUME PartsInv, NEW link \in Links, NEW beyond, NEW run
    PROVE  \E at : RunsAs(link, beyond, run, at)
<1> DEFINE n == Len(Body(link))
           at == CHOOSE at : IsRunOf(link, beyond, run, n, at)
<1>1. n \in Nat
  BY BodyIs
<1>2. IsRunOf(link, beyond, run, n, at)
  BY <1>1, RunExists
<1>3. RunBody(link, beyond, run) = IF at[n].answer = Pending THEN "error" ELSE at[n].answer
  BY DEF RunBody, IsRunOf, Begun
<1>4. \A i \in 0..n : at[i] = IF i = 0 THEN Begun ELSE Execute(at[i - 1], Body(link)[i], link, beyond, run)
  <2> HIDE DEF at
  <2>1. QED
    BY <1>2 DEF IsRunOf
<1>5. 0 \in 0..n /\ \A i \in 1..n : i \in 0..n /\ i # 0
  BY <1>1
<1> HIDE DEF at
<1>6. at[0] = Begun /\ \A i \in 1..n : at[i] = Execute(at[i - 1], Body(link)[i], link, beyond, run)
  BY <1>4, <1>5
<1>7. RunsAs(link, beyond, run, at)
  BY <1>3, <1>6 DEF RunsAs
<1>8. QED
  BY <1>7

\* What one statement does.
LEMMA ExecuteIs ==
    ASSUME NEW at, NEW s, NEW link, NEW beyond, NEW run
    PROVE  LET value == ValueOf(s.rows, beyond, at.qs, run)
               to == Execute(at, s, link, beyond, run) IN
           /\ at.answer # Pending \/ ~Happens(s.place, link, run) => to = at
           /\ at.answer = Pending /\ Happens(s.place, link, run) =>
                /\ s.do = "return" \/ value = "error" => to.answer = value /\ to.qs = at.qs
                /\ s.do # "return" /\ value # "error" => to.answer = Pending /\ to.qs = value
BY DEF Execute

\* Once it has answered, it has answered.
LEMMA AnswersStand ==
    ASSUME PartsInv, NEW link \in Links, NEW beyond, NEW run, NEW at, RunsAs(link, beyond, run, at),
           NEW k \in 0..Len(Body(link)), at[k].answer # Pending
    PROVE  RunBody(link, beyond, run) = at[k].answer
<1> DEFINE n == Len(Body(link))
           S == {j \in 0..n : at[j].answer = at[k].answer}
<1>1. n \in Nat /\ k \in Nat /\ k <= n
  BY BodyIs
<1>2. \A j \in (k + 1)..n : j - 1 \in S => j \in S
  <2> SUFFICES ASSUME NEW j \in 1..n, at[j - 1].answer = at[k].answer
               PROVE  at[j].answer = at[k].answer
    BY <1>1
  <2>1. at[j] = Execute(at[j - 1], Body(link)[j], link, beyond, run)
    BY DEF RunsAs
  <2>2. QED
    BY <2>1, ExecuteIs
<1>3. k \in S /\ S \in SUBSET Nat
  BY <1>1
<1> HIDE DEF S
<1>4. k..n \subseteq S
  BY <1>1, <1>2, <1>3, StepsReach
<1>5. n \in k..n
  BY <1>1
<1>6. at[n].answer = at[k].answer
  BY <1>4, <1>5 DEF S
<1>7. QED
  BY <1>6 DEF RunsAs

\* A body that fails nowhere has, at each statement a run comes to, not answered yet.
LEMMA PendingWhereItComes ==
    ASSUME PartsInv, NEW link \in Links, NEW beyond, NEW run, NEW at, RunsAs(link, beyond, run, at),
           NEW k \in 1..Len(Body(link)), Comes(link, k, run), RunBody(link, beyond, run) # "error"
    PROVE  at[k - 1].answer = Pending
<1> DEFINE n == Len(Body(link))
           S == {j \in 0..(k - 1) : at[j].answer = Pending}
<1>1. n \in Nat /\ k \in Nat /\ k <= n /\ k - 1 \in 0..(k - 1)
  BY BodyIs
<1>2. \A j \in (0 + 1)..(k - 1) : j - 1 \in S => j \in S
  <2> SUFFICES ASSUME NEW j \in 1..(k - 1), at[j - 1].answer = Pending, at[j].answer # Pending
               PROVE  FALSE
    BY <1>1
  <2>1. j \in 1..n /\ at[j] = Execute(at[j - 1], Body(link)[j], link, beyond, run)
    BY <1>1 DEF RunsAs
  <2>2. Body(link)[j].do = "return" => ~Happens(Body(link)[j].place, link, run)
    BY DEF Comes
  <2>3. at[j].answer = "error"
    BY <2>1, <2>2, ExecuteIs
  <2>4. QED
    BY <1>1, <2>1, <2>3, AnswersStand DEF Pending
<1>3. 0 \in S /\ S \in SUBSET Nat
  <2>1. at[0].answer = Pending
    BY DEF RunsAs, Begun
  <2>2. QED
    BY <1>1, <2>1
<1> HIDE DEF S
<1>4. 0..(k - 1) \subseteq S
  BY <1>1, <1>2, <1>3, StepsReach
<1>5. QED
  BY <1>1, <1>4 DEF S

\* So it answers with the rows of the return a run comes to.
LEMMA ReturnAnswers ==
    ASSUME PartsInv, NEW link \in Links, NEW beyond, NEW run, NEW at, RunsAs(link, beyond, run, at),
           NEW k \in 1..Len(Body(link)), Comes(link, k, run), RunBody(link, beyond, run) # "error",
           Body(link)[k].do = "return",
           ValueOf(Body(link)[k].rows, beyond, at[k - 1].qs, run) # Pending
    PROVE  RunBody(link, beyond, run) = ValueOf(Body(link)[k].rows, beyond, at[k - 1].qs, run)
<1>1. at[k] = Execute(at[k - 1], Body(link)[k], link, beyond, run)
  BY DEF RunsAs
<1>2. at[k].answer = ValueOf(Body(link)[k].rows, beyond, at[k - 1].qs, run)
  BY <1>1, PendingWhereItComes, ExecuteIs DEF Comes
<1>3. k \in 0..Len(Body(link))
  BY BodyIs
<1>4. QED
  BY <1>2, <1>3, AnswersStand

\* What the local has is among any rows that every assignment keeps to.
LEMMA LocalsAre ==
    ASSUME PartsInv, NEW link \in Links, NEW beyond, NEW run, NEW at, RunsAs(link, beyond, run, at),
           NEW G, "error" \in G,
           \A a \in Assigned(link) : \A q \in G : ValueOf(a, beyond, q, run) \in G
    PROVE  \A k \in 0..Len(Body(link)) : at[k].qs \in G
<1> DEFINE n == Len(Body(link))
           S == {j \in 0..n : at[j].qs \in G}
<1>1. n \in Nat /\ DOMAIN Body(link) = 1..n /\ \A k \in 1..n : Body(link)[k].do \in {"assign", "return"}
  BY BodyIs DEF Statements
<1>2. \A j \in (0 + 1)..n : j - 1 \in S => j \in S
  <2> SUFFICES ASSUME NEW j \in 1..n, at[j - 1].qs \in G
               PROVE  at[j].qs \in G
    BY <1>1
  <2>1. at[j] = Execute(at[j - 1], Body(link)[j], link, beyond, run)
    BY DEF RunsAs
  <2>2. CASE Body(link)[j].do = "return"
    BY <2>1, <2>2, ExecuteIs
  <2>3. CASE Body(link)[j].do = "assign"
    <3>1. Body(link)[j].rows \in Assigned(link)
      BY <1>1, <2>3 DEF Assigned, LocalAssignments
    <3>2. ValueOf(Body(link)[j].rows, beyond, at[j - 1].qs, run) \in G
      BY <3>1
    <3>3. QED
      BY <2>1, <3>2, ExecuteIs
  <2>4. QED
    BY <1>1, <2>2, <2>3
<1>3. 0 \in S /\ S \in SUBSET Nat
  <2>1. at[0].qs \in G
    BY DEF RunsAs, Begun
  <2>2. QED
    BY <1>1, <2>1
<1> HIDE DEF S
<1>4. 0..n \subseteq S
  BY <1>1, <1>2, <1>3, StepsReach
<1>5. QED
  BY <1>4 DEF S

\* A body that answers does so at a return.
LEMMA AnswersAtAReturn ==
    ASSUME PartsInv, NEW link \in Links, NEW beyond, NEW run, NEW at, RunsAs(link, beyond, run, at),
           RunBody(link, beyond, run) # "error"
    PROVE  \E k \in 1..Len(Body(link)) :
              /\ Body(link)[k].do = "return" /\ Happens(Body(link)[k].place, link, run)
              /\ RunBody(link, beyond, run) = ValueOf(Body(link)[k].rows, beyond, at[k - 1].qs, run)
<1> DEFINE n == Len(Body(link))
           T == {k \in 0..n : at[k].answer # Pending}
<1>1. n \in Nat /\ n \in 0..n
  BY BodyIs
<1>2. T # {} /\ T \in SUBSET Nat
  BY <1>1 DEF RunsAs
<1>3. PICK k \in T : \A m \in T : k <= m
  BY <1>2, LeastExists
<1>4. k # 0
  BY <1>3 DEF RunsAs, Begun
<1>5. k \in 1..n /\ k - 1 \in 0..n /\ ~(k <= k - 1)
  BY <1>1, <1>3, <1>4
<1>6. at[k - 1].answer = Pending /\ at[k].answer # Pending
  BY <1>3, <1>5
<1>7. at[k] = Execute(at[k - 1], Body(link)[k], link, beyond, run)
  BY <1>5 DEF RunsAs
<1>8. at[k].answer = RunBody(link, beyond, run)
  BY <1>1, <1>3, <1>6, AnswersStand
<1>9. /\ Happens(Body(link)[k].place, link, run)
      /\ at[k].answer = ValueOf(Body(link)[k].rows, beyond, at[k - 1].qs, run)
      /\ Body(link)[k].do = "return"
  BY <1>6, <1>7, <1>8, ExecuteIs
<1>10. QED
  BY <1>5, <1>8, <1>9

\* Rows nobody has narrowed, where there are rows.
Unnarrowed == {"error", "everybody's"}

\* A position before one of n is one of n.
LEMMA EarlierIsOne == ASSUME NEW n \in Nat, NEW i \in 1..n, NEW h \in 1..(i - 1)  PROVE h \in 1..n
OBVIOUS

\* What narrowing makes of an error, and what none() and no narrowing make of rows.
LEMMA NarrowIs ==
    /\ \A step : Narrow("error", step) = "error"
    /\ \A x : x # "error" => Narrow(x, "none") = "nobody's" /\ Narrow(x, "as is") = x
<1>1. ASSUME NEW step
      PROVE  Narrow("error", step) = "error"
  BY DEF Narrow
<1>2. \A x : x # "error" => Narrow(x, "none") = "nobody's"
  BY DEF Narrow
<1>3. \A x : x # "error" => Narrow(x, "as is") = x
  BY DEF Narrow
<1>4. QED
  BY <1>1, <1>2, <1>3

\* The nearest of two attributes is the viewset's, or the mixin's where it has none.
LEMMA NearestIs ==
    ASSUME PartsInv
    PROVE  /\ Nearest("rows") \in {Absent, "as is", "mine"} /\ Nearest("queryset") \in {Absent, "as is", "none"}
           /\ \A name \in {"rows", "queryset"} :
                /\ parts["viewset"][name] # Absent => Nearest(name) = parts["viewset"][name]
                /\ parts["viewset"][name] = Absent => Nearest(name) = parts["mixin"][name]
<1>1. \A l \in Links : /\ parts[l]["rows"] \in {Absent, "as is", "mine"}
                       /\ parts[l]["queryset"] \in {Absent, "as is", "none"}
  BY DEF PartsInv, ClassParts
<1>2. "viewset" \in Links /\ "mixin" \in Links
  BY DEF Links
<1>3. QED
  BY <1>1, <1>2 DEF Nearest

\* self.queryset where no initial rebinds it.
LEMMA SelfIs ==
    ASSUME PartsInv, NEW run, ReboundBy = {}
    PROVE  /\ SelfQueryset(run) = IF Nearest("queryset") = Absent THEN "error"
                                  ELSE Narrow("everybody's", Nearest("queryset"))
           /\ Nearest("queryset") = "as is" => SelfQueryset(run) = "everybody's"
           /\ Nearest("queryset") # "none" => SelfQueryset(run) \in Unnarrowed
<1>1. parts["viewset"].rebind = Absent /\ parts["mixin"].rebind = Absent
  BY DEF ReboundBy, Links
<1>2. SelfQueryset(run) = IF Nearest("queryset") = Absent THEN "error"
                          ELSE Narrow("everybody's", Nearest("queryset"))
  BY <1>1 DEF SelfQueryset
<1>3. Nearest("queryset") \in {Absent, "as is", "none"}
  BY NearestIs
<1>4. QED
  BY <1>2, <1>3 DEF Narrow, Unnarrowed, Absent

\* Rows read off nothing that is narrowed are not.
LEMMA PlainRowsAre ==
    ASSUME PartsInv, NEW rows \in [root : Roots, step : Narrowings], NEW beyond, NEW q \in Unnarrowed, NEW run,
           ~RequestRefs(rows), rows.step # "none", rows.root = "super" => beyond \in Unnarrowed,
           rows.root = "self.rows" => Nearest("rows") # Absent, SelfQueryset(run) \in Unnarrowed
    PROVE  ValueOf(rows, beyond, q, run) \in Unnarrowed
<1>1. rows.step = "as is"
  BY DEF RequestRefs, Narrowings
<1>2. \A x \in Unnarrowed : Narrow(x, "as is") = x
  BY DEF Narrow, Unnarrowed
<1>3. rows.root \in {"model", "super", "qs", "self.rows", "self.queryset"}
  BY DEF Roots
<1>4. CASE rows.root = "model"
  BY <1>1, <1>2, <1>4 DEF ValueOf, Unnarrowed
<1>5. CASE rows.root = "super"
  BY <1>1, <1>2, <1>5 DEF ValueOf
<1>6. CASE rows.root = "qs"
  BY <1>1, <1>2, <1>6 DEF ValueOf
<1>7. CASE rows.root = "self.rows"
  <2>1. Nearest("rows") = "as is"
    BY <1>7, NearestIs DEF RequestRefs
  <2>2. Narrow("everybody's", Nearest("rows")) = "everybody's"
    BY <1>2, <2>1 DEF Unnarrowed
  <2>3. QED
    BY <1>1, <1>2, <1>7, <2>2 DEF ValueOf, Unnarrowed
<1>8. CASE rows.root = "self.queryset"
  BY <1>1, <1>2, <1>8 DEF ValueOf
<1>9. QED
  BY <1>3, <1>4, <1>5, <1>6, <1>7, <1>8

\* What PartsInv says of one statement.
LEMMA StatementsAre ==
    ASSUME PartsInv, NEW link \in Links, NEW k \in 1..Len(Body(link))
    PROVE  /\ Body(link)[k] \in Statements /\ Body(link)[k].rows \in [root : Roots, step : Narrowings]
           /\ Body(link)[k].rows.root \in Roots /\ Body(link)[k].rows.step \in Narrowings
           /\ Body(link)[k].place \in Placements
           /\ \E run \in ViewRuns : Comes(link, k, run)
           /\ Body(link)[k].rows.root = "super" => link = "viewset"
           /\ Body(link)[k].rows.root = "qs" => \E j \in 1..(k - 1) : Body(link)[j].do = "assign"
           /\ Body(link)[k].rows.root = "self.rows" => Nearest("rows") # Absent
<1>1. k \in DOMAIN Body(link) /\ Body(link)[k] \in Statements
  BY BodyIs
<1>2. QED
  BY <1>1 DEF PartsInv, Statements

\* The values of the local are those of its assignments,
LEMMA AssignedAre ==
    ASSUME PartsInv, NEW link \in Links, NEW a
    PROVE  a \in Assigned(link) <=>
             \E k \in 1..Len(Body(link)) : Body(link)[k].do = "assign" /\ a = Body(link)[k].rows
BY BodyIs DEF Assigned, LocalAssignments

\* and the returns read off a body those of its return statements.
LEMMA ReturnsAre ==
    ASSUME PartsInv, NEW link \in Links, NEW r
    PROVE  r \in Returns(link) <=>
             \E k \in 1..Len(Body(link)) : Body(link)[k].do = "return" /\ r = ReturnOf(link, Body(link)[k])
BY BodyIs DEF Returns

\* A return that nothing narrows hands on what it is given.
LEMMA HandsOn ==
    ASSUME PartsInv, NEW link \in Links, NEW beyond, NEW run \in ViewRuns, NEW k \in 1..Len(Body(link)),
           Body(link)[k].do = "return", Comes(link, k, run), RunBody(link, beyond, run) # "error",
           ~Scoping(link, Body(link)[k].rows), Body(link)[k].rows.step # "none",
           Delegates(link, Body(link)[k].rows) => beyond \in Unnarrowed,
           SelfQueryset(run) \in Unnarrowed, \A a \in Assigned(link) : a.step # "none"
    PROVE  RunBody(link, beyond, run) = "everybody's"
<1> DEFINE rows == Body(link)[k].rows
<1>1. PICK at : RunsAs(link, beyond, run, at)
  BY BodyRuns
<1> DEFINE q == at[k - 1].qs
           value == ValueOf(rows, beyond, q, run)
<1>2. value \in Unnarrowed
  <2>1. ~RequestRefs(rows) /\ rows.step # "none" /\ (rows.root = "super" => beyond \in Unnarrowed)
    BY DEF Scoping, Delegates
  <2>2. CASE rows.root # "qs"
    <3>1. value = ValueOf(rows, beyond, "error", run)
      BY <2>2 DEF ValueOf
    <3>2. QED
      BY <2>1, <3>1, StatementsAre, PlainRowsAre DEF Unnarrowed
  <2>3. CASE rows.root = "qs"
    <3>1. ASSUME NEW a \in Assigned(link), NEW x \in Unnarrowed
          PROVE  ValueOf(a, beyond, x, run) \in Unnarrowed
      <4>1. ~RequestRefs(a) /\ (a.root = "super" => beyond \in Unnarrowed)
        BY <2>3 DEF Scoping, Delegates
      <4>2. PICK j \in 1..Len(Body(link)) : a = Body(link)[j].rows
        BY AssignedAre
      <4>3. QED
        BY <4>1, <4>2, StatementsAre, PlainRowsAre
    <3>2. k - 1 \in 0..Len(Body(link))
      BY BodyIs
    <3>3. "error" \in Unnarrowed
      BY DEF Unnarrowed
    <3>4. q \in Unnarrowed
      BY <1>1, <3>1, <3>2, <3>3, LocalsAre
    <3>5. QED
      BY <2>1, <3>4, StatementsAre, PlainRowsAre
  <2>4. QED
    BY <2>2, <2>3
<1>3. value # Pending
  BY <1>2 DEF Unnarrowed, Pending
<1>4. RunBody(link, beyond, run) = value
  BY <1>1, <1>3, ReturnAnswers
<1>5. QED
  BY <1>2, <1>4 DEF Unnarrowed

\* Where no return stands in an else, users with the setting as it has to be come to a
\* statement that is not for staff alone.
LEMMA UsersCome ==
    ASSUME PartsInv, NEW link \in Links, NEW k \in 1..Len(Body(link)),
           Body(link)[k].place \notin {"if staff", "else"},
           \A j \in 1..Len(Body(link)) : Body(link)[j].do = "return" => Body(link)[j].place # "else"
    PROVE  \E other \in ViewRuns : \A run \in ViewRuns :
              run.who = "user" /\ (link \in run.settings <=> link \in other.settings) => Comes(link, k, run)
<1>1. PICK other \in ViewRuns : Comes(link, k, other)
  BY StatementsAre
<1>2. SUFFICES ASSUME NEW run \in ViewRuns, run.who = "user", link \in run.settings <=> link \in other.settings
               PROVE  Comes(link, k, run)
  BY <1>1
<1>3. \A place \in Placements : place \notin {"if staff", "else"} =>
         (Happens(place, link, run) <=> Happens(place, link, other))
  BY <1>2 DEF Happens, Placements
<1>4. Happens(Body(link)[k].place, link, run)
  BY <1>1, <1>3, StatementsAre DEF Comes
<1>5. ASSUME NEW j \in 1..(k - 1), Body(link)[j].do = "return"
      PROVE  ~Happens(Body(link)[j].place, link, run)
  <2>1. j \in 1..Len(Body(link))
    <3>1. Len(Body(link)) \in Nat
      BY BodyIs
    <3>2. QED
      BY <3>1, EarlierIsOne
  <2>2. ~Happens(Body(link)[j].place, link, other) /\ Body(link)[j].place \in Placements /\ Body(link)[j].place # "else"
    BY <1>1, <1>5, <2>1, StatementsAre DEF Comes
  <2>3. Body(link)[j].place = "if staff" => ~Happens(Body(link)[j].place, link, run)
    BY <1>2 DEF Happens
  <2>4. QED
    BY <1>3, <2>2, <2>3
<1>6. QED
  BY <1>4, <1>5 DEF Comes

\* So a body with a return nothing scopes answers some user with rows nobody narrowed.
LEMMA OpenReturnsAnswer ==
    ASSUME PartsInv, ~PastAReturn, NEW link \in Links, NEW r \in Returns(link), ~ReturnScoped(r),
           \A a \in Assigned(link) : a.step # "none"
    PROVE  \E other \in ViewRuns : \A run \in ViewRuns :
              /\ run.who = "user" /\ (link \in run.settings <=> link \in other.settings)
              /\ SelfQueryset(run) \in Unnarrowed
              => \A beyond : (r.delegates => beyond \in Unnarrowed) => RunBody(link, beyond, run) \in Unnarrowed
<1>1. PICK k \in 1..Len(Body(link)) : Body(link)[k].do = "return" /\ r = ReturnOf(link, Body(link)[k])
  BY ReturnsAre
<1> DEFINE s == Body(link)[k]
<1>2. ~Scoping(link, s.rows) /\ s.place # "if staff" /\ s.rows.step # "none" /\ (r.delegates <=> Delegates(link, s.rows))
  BY <1>1 DEF ReturnScoped, ReturnOf
<1>3. \A j \in 1..Len(Body(link)) : Body(link)[j].do = "return" => Body(link)[j].place # "else"
  BY BodyIs DEF PastAReturn
<1>4. PICK other \in ViewRuns : \A run \in ViewRuns :
         run.who = "user" /\ (link \in run.settings <=> link \in other.settings) => Comes(link, k, run)
  BY <1>1, <1>2, <1>3, UsersCome
<1>5. ASSUME NEW run \in ViewRuns, run.who = "user", link \in run.settings <=> link \in other.settings,
             SelfQueryset(run) \in Unnarrowed, NEW beyond, r.delegates => beyond \in Unnarrowed
      PROVE  RunBody(link, beyond, run) \in Unnarrowed
  <2>1. CASE RunBody(link, beyond, run) = "error"
    BY <2>1 DEF Unnarrowed
  <2>2. CASE RunBody(link, beyond, run) # "error"
    <3>1. Comes(link, k, run)
      BY <1>4, <1>5
    <3>2. RunBody(link, beyond, run) = "everybody's"
      BY <1>1, <1>2, <1>5, <2>2, <3>1, HandsOn
    <3>3. QED
      BY <3>2 DEF Unnarrowed
  <2>3. QED
    BY <2>1, <2>2
<1>6. QED
  BY <1>5

\* What the mixin answers, or what stands for it, and what the viewset does.
MixinAnswer(run) == IF HasBody("mixin") THEN RunBody("mixin", SelfQueryset(run), run) ELSE SelfQueryset(run)

\* The answer of the view where no initial rebinds: its own method's, or the mixin's.
LEMMA AnswerIs ==
    ASSUME NEW run, ReboundBy = {}
    PROVE  Answer(run) = IF HasBody("viewset") THEN RunBody("viewset", MixinAnswer(run), run) ELSE MixinAnswer(run)
BY DEF Answer, MixinAnswer

\* What is read off a get_queryset.
LEMMA MethodIs ==
    ASSUME NEW link
    PROVE  LET node == MethodNode(link) IN
           /\ node.source = "method" /\ node.returns = Returns(link) /\ node.scoping = FALSE
           /\ node.model = Single({r.model : r \in Returns(link)})
           /\ node = [source |-> node.source, model |-> node.model, scoping |-> node.scoping,
                      none |-> node.none, returns |-> node.returns]
BY DEF MethodNode, Queryset

\* What is read off the mixin, past which nothing is declared.
LEMMA MixinIs ==
    LET node == DeclaredAt("mixin", NoQueryset) IN
    /\ HasBody("mixin") => node = MethodNode("mixin")
    /\ ~HasBody("mixin") /\ parts["mixin"].queryset # Absent => node = AttributeNode(parts["mixin"].queryset)
    /\ ~HasBody("mixin") /\ parts["mixin"].queryset = Absent => node = NoQueryset
BY DEF DeclaredAt, Inherit, NoQueryset, Queryset

\* What a method that delegates takes over: each of its returns has an heir, scoped where
\* the return was or the method it delegates to is.
LEMMA InheritIs ==
    ASSUME NEW link, NEW parent
    PROVE  LET node == Inherit(MethodNode(link), parent) IN
           /\ node.source = "method" /\ ~node.scoping
           /\ parent.source = Absent => node = MethodNode(link)
           /\ parent.source # Absent =>
                /\ node.model = IF MethodNode(link).model # Absent THEN MethodNode(link).model ELSE parent.model
                /\ \E heirs \in [Returns(link) -> node.returns] :
                     /\ \A r \in Returns(link) :
                          /\ ~ReturnScoped(heirs[r]) => ~ReturnScoped(r) /\ ~NodeScoped(parent)
                          /\ ~ReturnScoped(r) /\ ~NodeScoped(parent) => ~ReturnScoped(heirs[r])
                          /\ heirs[r].none = r.none
                     /\ \A x \in node.returns : \E r \in Returns(link) : x = heirs[r]
<1> DEFINE own == MethodNode(link)
           node == Inherit(own, parent)
<1>1. CASE parent.source = Absent
  BY <1>1, MethodIs DEF Inherit
<1>2. CASE parent.source # Absent
  <2> DEFINE inherited == NodeScoped(parent) /\ (parent.scoping \/ \E r \in parent.returns : r.scoping)
             Heir(r) == [r EXCEPT !.scoping = @ \/ inherited,
                                  !.guarded = @ \/ (NodeScoped(parent) /\ ~inherited)]
             heirs == [r \in Returns(link) |-> Heir(r)]
  <2>1. node = [own EXCEPT !.model = IF @ # Absent THEN @ ELSE parent.model,
                           !.returns = {Heir(r) : r \in @}]
    BY <1>2 DEF Inherit
  <2> DEFINE M == IF own.model # Absent THEN own.model ELSE parent.model
             R == {Heir(r) : r \in Returns(link)}
  <2>8. node = [own EXCEPT !.model = M, !.returns = R]
    BY <2>1, MethodIs
  <2>9. ASSUME NEW m, NEW x PROVE LET n == [own EXCEPT !.model = m, !.returns = x] IN
           n.source = "method" /\ ~n.scoping /\ n.returns = x /\ n.model = m
    BY DEF MethodNode, Queryset
  <2>2. /\ node.source = "method" /\ ~node.scoping /\ node.returns = {Heir(r) : r \in Returns(link)}
        /\ node.model = IF own.model # Absent THEN own.model ELSE parent.model
    <3> HIDE DEF own, Heir, node
    <3>1. QED
      BY <2>8, <2>9
  <2>3. ASSUME NEW r \in Returns(link)
        PROVE  /\ Heir(r).scoping = (r.scoping \/ inherited)
               /\ Heir(r).guarded = (r.guarded \/ (NodeScoped(parent) /\ ~inherited))
               /\ Heir(r).none = r.none
    <3>1. r = [model |-> r.model, scoping |-> r.scoping, guarded |-> r.guarded, none |-> r.none,
               delegates |-> r.delegates]
      <4>1. PICK k : r = ReturnOf(link, Body(link)[k])
        BY DEF Returns
      <4>2. QED
        BY <4>1 DEF ReturnOf
    <3> HIDE DEF inherited
    <3>2. QED
      BY <3>1
  <2>4. \A r \in Returns(link) :
           /\ ~ReturnScoped(Heir(r)) => ~ReturnScoped(r) /\ ~NodeScoped(parent)
           /\ ~ReturnScoped(r) /\ ~NodeScoped(parent) => ~ReturnScoped(Heir(r))
           /\ Heir(r).none = r.none
    <3> HIDE DEF Heir
    <3>1. QED
      BY <2>3 DEF ReturnScoped
  <2> HIDE DEF Heir
  <2>5. heirs \in [Returns(link) -> node.returns] /\ \A x \in node.returns : \E r \in Returns(link) : x = heirs[r]
    BY <2>2
  <2>6. \A r \in Returns(link) : heirs[r] = Heir(r)
    OBVIOUS
  <2> HIDE DEF heirs, node
  <2>7. QED
    BY <1>2, <2>2, <2>4, <2>5, <2>6 DEF node
<1>3. QED
  BY <1>1, <1>2

\* A method that was read and is not scoped has a return that is not.
LEMMA UnscopedHasAReturn ==
    ASSUME NEW node, node.source = "method", ~Unread(node), ~NodeScoped(node)
    PROVE  \E r \in node.returns : ~ReturnScoped(r)
BY DEF Unread, NodeScoped

\* What is read off a queryset attribute.
LEMMA AttributeIs ==
    ASSUME NEW step
    PROVE  LET node == AttributeNode(step) IN
           /\ node.source = "attribute" /\ node.model = "model" /\ ~Unread(node) /\ ~NodeScoped(node)
           /\ (Empty(node) <=> step = "none")
BY DEF AttributeNode, Queryset, Unread, NodeScoped, Empty

\* A list endpoint reported gives everybody's rows away (ListReportsAreReal).
LEMMA ListReportsHold ==
    ASSUME PartsInv
    PROVE  ListReportsAreReal
<1> SUFFICES ASSUME UnscopedUserOwnedQueryset, Works, ~AttributeMisread, ~HalfDelegates, ~PastAReturn, ~NoneUnseen
             PROVE  SeesEverything("user")
  BY DEF ListReportsAreReal
<1> DEFINE node == ReadQueryset
           mixin == DeclaredAt("mixin", NoQueryset)
<1>1. /\ node.source # Absent /\ ~Unread(node) /\ ReboundBy = {} /\ ~NodeScoped(node) /\ ~Empty(node)
      /\ node.model = "model"
  BY DEF UnscopedUserOwnedQueryset, Unfiltered
<1>2. "viewset" \in Links /\ "mixin" \in Links
  BY DEF Links
<1>3. SUFFICES \E run \in ViewRuns : run.who = "user" /\ Answer(run) \in Unnarrowed
  BY DEF SeesEverything, Works, Unnarrowed
<1>4. \A run \in ViewRuns : Answer(run) = IF HasBody("viewset") THEN RunBody("viewset", MixinAnswer(run), run)
                                      ELSE MixinAnswer(run)
  BY <1>1, AnswerIs
<1>5. \A on \in SUBSET Links : [who |-> "user", settings |-> on] \in ViewRuns
  BY DEF ViewRuns
<1>6. ASSUME NEW l \in Links, HasBody(l)
      PROVE  /\ \A m \in Links : \A a \in Assigned(m) : a.step # "none"
             /\ \A run \in ViewRuns : SelfQueryset(run) \in Unnarrowed
  <2>1. /\ \A m \in Links : parts[m].queryset # "none"
        /\ \A m \in Links : \A k \in DOMAIN Body(m) : ~(Body(m)[k].do = "assign" /\ Body(m)[k].rows.step = "none")
    BY <1>6 DEF NoneUnseen, Hides
  <2>2. \A m \in Links : \A a \in Assigned(m) : a.step # "none"
    BY <2>1, AssignedAre, BodyIs
  <2>3. Nearest("queryset") # "none"
    BY <1>2, <2>1, NearestIs
  <2>4. QED
    BY <1>1, <1>2, <2>2, <2>3, SelfIs
<1>7. CASE HasBody("viewset")
  <2>1. /\ \A l \in Links : \A a \in Assigned(l) : a.step # "none"
        /\ \A run \in ViewRuns : SelfQueryset(run) \in Unnarrowed
    BY <1>2, <1>6, <1>7 DEF Links
  <2> DEFINE own == MethodNode("viewset")
  <2>2. node = IF Returns("viewset") # {} /\ \A r \in Returns("viewset") : r.delegates
               THEN Inherit(own, mixin) ELSE own
    BY <1>7, MethodIs DEF ReadQueryset, DeclaredAt
  <2>3. CASE \E r \in Returns("viewset") : ~r.delegates
    <3>1. node = own /\ \A r \in Returns("viewset") : ~r.delegates
      BY <2>2, <2>3 DEF HalfDelegates
    <3>2. PICK r \in Returns("viewset") : ~ReturnScoped(r)
      BY <1>1, <3>1, MethodIs, UnscopedHasAReturn
    <3>3. PICK other \in ViewRuns : \A run \in ViewRuns :
             /\ run.who = "user" /\ ("viewset" \in run.settings <=> "viewset" \in other.settings)
             /\ SelfQueryset(run) \in Unnarrowed
             => \A beyond : (r.delegates => beyond \in Unnarrowed) => RunBody("viewset", beyond, run) \in Unnarrowed
      BY <1>2, <2>1, <3>2, OpenReturnsAnswer
    <3> DEFINE run == [who |-> "user", settings |-> other.settings]
    <3>4. run \in ViewRuns /\ run.who = "user" /\ run.settings = other.settings
      BY <1>5 DEF ViewRuns
    <3> HIDE DEF run
    <3>5. RunBody("viewset", MixinAnswer(run), run) \in Unnarrowed
      BY <2>1, <3>1, <3>3, <3>4
    <3>6. QED
      BY <1>4, <1>7, <3>4, <3>5
  <2>4. CASE \A r \in Returns("viewset") : r.delegates
    <3>1. Returns("viewset") # {}
      BY <1>1, <2>2, MethodIs DEF Unread
    <3>2. node = Inherit(own, mixin)
      BY <2>2, <2>4, <3>1
    <3>3. PICK x \in node.returns : ~ReturnScoped(x)
      BY <1>1, <3>2, InheritIs, UnscopedHasAReturn
    <3>4. PICK r \in Returns("viewset") : ~ReturnScoped(r) /\ (mixin.source # Absent => ~NodeScoped(mixin))
      <4>1. CASE mixin.source = Absent
        <5>1. node = own
          BY <3>2, <4>1, InheritIs
        <5>2. node.returns = Returns("viewset")
          BY <5>1, MethodIs
        <5> HIDE DEF mixin, node
        <5>3. QED
          BY <3>3, <4>1, <5>2
      <4>2. CASE mixin.source # Absent
        <5>1. PICK heirs \in [Returns("viewset") -> node.returns] :
                 /\ \A t \in Returns("viewset") : ~ReturnScoped(heirs[t]) => ~ReturnScoped(t) /\ ~NodeScoped(mixin)
                 /\ \A y \in node.returns : \E t \in Returns("viewset") : y = heirs[t]
          BY <3>2, <4>2, InheritIs
        <5>2. QED
          BY <3>3, <5>1
      <4>3. QED
        BY <4>1, <4>2
    <3>5. PICK other \in ViewRuns : \A run \in ViewRuns :
             /\ run.who = "user" /\ ("viewset" \in run.settings <=> "viewset" \in other.settings)
             /\ SelfQueryset(run) \in Unnarrowed
             => \A beyond : (r.delegates => beyond \in Unnarrowed) => RunBody("viewset", beyond, run) \in Unnarrowed
      BY <1>2, <2>1, <3>4, OpenReturnsAnswer
    <3>6. \E theirs \in ViewRuns : \A run \in ViewRuns :
             run.who = "user" /\ ("mixin" \in run.settings <=> "mixin" \in theirs.settings)
                => MixinAnswer(run) \in Unnarrowed
      <4>1. CASE ~HasBody("mixin")
        BY <2>1, <3>5, <4>1 DEF MixinAnswer
      <4>2. CASE HasBody("mixin") /\ Returns("mixin") = {}
        <5>1. ASSUME NEW run \in ViewRuns PROVE MixinAnswer(run) \in Unnarrowed
          <6>1. RunBody("mixin", SelfQueryset(run), run) = "error"
            <7>1. PICK at : RunsAs("mixin", SelfQueryset(run), run, at)
              BY <1>2, BodyRuns
            <7>2. QED
              BY <1>2, <4>2, <7>1, AnswersAtAReturn, ReturnsAre
          <6>2. QED
            BY <4>2, <6>1 DEF MixinAnswer, Unnarrowed
        <5>2. QED
          BY <3>5, <5>1
      <4>3. CASE HasBody("mixin") /\ Returns("mixin") # {}
        <5>1. mixin.source = "method" /\ mixin.returns = Returns("mixin") /\ ~NodeScoped(mixin) /\ ~Unread(mixin)
          BY <3>4, <4>3, MixinIs, MethodIs DEF Unread, Absent
        <5>2. PICK t \in Returns("mixin") : ~ReturnScoped(t)
          BY <5>1, UnscopedHasAReturn
        <5>3. PICK theirs \in ViewRuns : \A run \in ViewRuns :
                 /\ run.who = "user" /\ ("mixin" \in run.settings <=> "mixin" \in theirs.settings)
                 /\ SelfQueryset(run) \in Unnarrowed
                 => \A beyond : (t.delegates => beyond \in Unnarrowed) => RunBody("mixin", beyond, run) \in Unnarrowed
          BY <1>2, <2>1, <5>2, OpenReturnsAnswer
        <5>4. QED
          BY <2>1, <4>3, <5>3 DEF MixinAnswer
      <4>4. QED
        BY <4>1, <4>2, <4>3
    <3>7. PICK theirs \in ViewRuns : \A run \in ViewRuns :
             run.who = "user" /\ ("mixin" \in run.settings <=> "mixin" \in theirs.settings)
                => MixinAnswer(run) \in Unnarrowed
      BY <3>6
    <3> DEFINE on == {l \in Links : IF l = "mixin" THEN l \in theirs.settings ELSE l \in other.settings}
               run == [who |-> "user", settings |-> on]
    <3>8. /\ run \in ViewRuns /\ run.who = "user" /\ ("mixin" \in run.settings <=> "mixin" \in theirs.settings)
          /\ ("viewset" \in run.settings <=> "viewset" \in other.settings)
      BY <1>2, <1>5
    <3> HIDE DEF run
    <3>9. MixinAnswer(run) \in Unnarrowed
      BY <3>7, <3>8
    <3>10. RunBody("viewset", MixinAnswer(run), run) \in Unnarrowed
      BY <2>1, <3>5, <3>8, <3>9
    <3>11. QED
      BY <1>4, <1>7, <3>8, <3>10
  <2>5. QED
    BY <2>3, <2>4
<1>8. CASE ~HasBody("viewset") /\ parts["viewset"].queryset # Absent
  <2>1. node = AttributeNode(parts["viewset"].queryset)
    BY <1>8 DEF ReadQueryset, DeclaredAt
  <2>2. ~HasBody("mixin") /\ parts["viewset"].queryset # "none"
    BY <1>1, <1>8, <2>1, AttributeIs DEF AttributeMisread
  <2>3. Nearest("queryset") # "none"
    BY <1>8, <2>2, NearestIs
  <2> DEFINE run == [who |-> "user", settings |-> {}]
  <2>4. run \in ViewRuns /\ run.who = "user"
    BY <1>5
  <2> HIDE DEF run
  <2>5. SelfQueryset(run) \in Unnarrowed
    BY <1>1, <2>3, SelfIs
  <2>6. QED
    BY <1>4, <1>8, <2>2, <2>4, <2>5 DEF MixinAnswer
<1>9. CASE ~HasBody("viewset") /\ parts["viewset"].queryset = Absent
  <2>1. node = mixin
    BY <1>9 DEF ReadQueryset, DeclaredAt
  <2>2. CASE HasBody("mixin")
    <3>1. /\ \A a \in Assigned("mixin") : a.step # "none"
          /\ \A run \in ViewRuns : SelfQueryset(run) \in Unnarrowed
      BY <1>2, <1>6, <1>9, <2>2
    <3>2. PICK t \in Returns("mixin") : ~ReturnScoped(t)
      BY <1>1, <2>1, <2>2, MixinIs, MethodIs, UnscopedHasAReturn
    <3>3. PICK theirs \in ViewRuns : \A run \in ViewRuns :
             /\ run.who = "user" /\ ("mixin" \in run.settings <=> "mixin" \in theirs.settings)
             /\ SelfQueryset(run) \in Unnarrowed
             => \A beyond : (t.delegates => beyond \in Unnarrowed) => RunBody("mixin", beyond, run) \in Unnarrowed
      BY <1>2, <3>1, <3>2, OpenReturnsAnswer
    <3> DEFINE run == [who |-> "user", settings |-> theirs.settings]
    <3>4. run \in ViewRuns /\ run.who = "user" /\ run.settings = theirs.settings
      BY <1>5 DEF ViewRuns
    <3> HIDE DEF run
    <3>5. MixinAnswer(run) \in Unnarrowed
      BY <2>2, <3>1, <3>3, <3>4 DEF MixinAnswer
    <3>6. QED
      BY <1>4, <1>9, <3>4, <3>5
  <2>3. CASE ~HasBody("mixin")
    <3>1. parts["mixin"].queryset # Absent /\ node = AttributeNode(parts["mixin"].queryset)
      BY <1>1, <2>1, <2>3, MixinIs DEF NoQueryset, Queryset
    <3>2. Nearest("queryset") # "none"
      BY <1>1, <1>9, <3>1, AttributeIs, NearestIs
    <3> DEFINE run == [who |-> "user", settings |-> {}]
    <3>3. run \in ViewRuns /\ run.who = "user"
      BY <1>5
    <3> HIDE DEF run
    <3>4. SelfQueryset(run) \in Unnarrowed
      BY <1>1, <3>2, SelfIs
    <3>5. QED
      BY <1>4, <1>9, <2>3, <3>3, <3>4 DEF MixinAnswer
  <2>4. QED
    BY <2>2, <2>3
<1>10. QED
  BY <1>7, <1>8, <1>9

\* Where no text consults the request and the reading loses no name.
PlainlyWritten == ~Consulted /\ ~Lost

\* What is written in such classes.
LEMMA PlainIs ==
    ASSUME PartsInv, PlainlyWritten, NEW link \in Links
    PROVE  /\ ReboundBy = {}
           /\ \A k \in 1..Len(Body(link)) : LET s == Body(link)[k] IN
                /\ s.rows.step \in {"as is", "none"} /\ s.place \in {"always", "if setting"}
                /\ s.rows.root \in {"model", "super", "qs"} /\ s.do \in {"assign", "return"}
           /\ \A a \in Assigned(link) : ~RequestRefs(a) /\ a.root \in {"model", "super", "qs"} /\ a.step \in {"as is", "none"}
           /\ \A a, b \in Assigned(link) : a.root = "super" => b.root = "super"
<1>1. ReboundBy = {}
  BY DEF PlainlyWritten, Consulted, ReboundBy
<1>2. ASSUME NEW k \in 1..Len(Body(link))
      PROVE  LET s == Body(link)[k] IN
             /\ s.rows.step \in {"as is", "none"} /\ s.place \in {"always", "if setting"}
             /\ s.rows.root \in {"model", "super", "qs"} /\ s.do \in {"assign", "return"}
  <2>1. k \in DOMAIN Body(link) /\ Body(link)[k] \in Statements
    BY BodyIs
  <2>2. /\ Body(link)[k].rows.step # "mine" /\ Body(link)[k].place \notin {"if staff", "else"}
        /\ Body(link)[k].rows.root \notin {"self.rows", "self.queryset"}
    BY <2>1 DEF PlainlyWritten, Consulted, Lost
  <2>3. QED
    BY <2>1, <2>2 DEF Statements, Placements, Roots, Narrowings
<1>3. \A a \in Assigned(link) : ~RequestRefs(a) /\ a.root \in {"model", "super", "qs"} /\ a.step \in {"as is", "none"}
  BY <1>2, AssignedAre DEF RequestRefs
<1>4. \A a, b \in Assigned(link) : a.root = "super" => b.root = "super"
  BY DEF PlainlyWritten, Lost
<1>5. QED
  BY <1>1, <1>2, <1>3, <1>4

\* Of what is returned there only none() keeps rows back.
LEMMA PlainReturnsAre ==
    ASSUME PartsInv, PlainlyWritten, NEW link \in Links, NEW r \in Returns(link)
    PROVE  ~r.scoping /\ ~r.guarded /\ (ReturnScoped(r) <=> r.none)
<1>1. PICK k \in 1..Len(Body(link)) : r = ReturnOf(link, Body(link)[k])
  BY ReturnsAre
<1>2. ~Scoping(link, Body(link)[k].rows) /\ Body(link)[k].place # "if staff"
  BY PlainIs DEF Scoping, RequestRefs
<1>3. QED
  BY <1>1, <1>2 DEF ReturnOf, ReturnScoped

\* A body all of whose returns delegate answers what it is given, or nobody's rows.
LEMMA DelegatesPass ==
    ASSUME PartsInv, PlainlyWritten, NEW link \in Links, \A r \in Returns(link) : r.delegates, NEW beyond, NEW run
    PROVE  /\ beyond = "error" => RunBody(link, beyond, run) = "error"
           /\ RunBody(link, beyond, run) = "everybody's" => beyond = "everybody's"
<1> DEFINE G == {"error", "nobody's"} \cup {beyond}
           answer == RunBody(link, beyond, run)
<1> SUFFICES ASSUME answer # "error"
             PROVE  beyond # "error" /\ (answer = "everybody's" => beyond = "everybody's")
  OBVIOUS
<1>1. PICK at : RunsAs(link, beyond, run, at)
  BY BodyRuns
<1>2. PICK k \in 1..Len(Body(link)) :
         /\ Body(link)[k].do = "return"
         /\ answer = ValueOf(Body(link)[k].rows, beyond, at[k - 1].qs, run)
  BY <1>1, AnswersAtAReturn
<1> DEFINE rows == Body(link)[k].rows
           q == at[k - 1].qs
<1>3. rows.step \in {"as is", "none"} /\ Delegates(link, rows)
  <2>1. ReturnOf(link, Body(link)[k]) \in Returns(link)
    BY <1>2, ReturnsAre
  <2>2. QED
    BY <2>1, PlainIs DEF ReturnOf
<1>4. CASE rows.root = "super"
  <2>1. answer = Narrow(beyond, rows.step)
    BY <1>2, <1>4 DEF ValueOf
  <2>2. QED
    BY <1>3, <2>1 DEF Narrow
<1>5. CASE rows.root = "qs"
  <2>1. \A a \in Assigned(link) : a.root = "super" /\ a.step \in {"as is", "none"}
    BY <1>3, <1>5, PlainIs DEF Delegates
  <2>2. k - 1 \in 0..Len(Body(link))
    BY BodyIs
  <2>3. answer = Narrow(q, rows.step)
    BY <1>2, <1>5 DEF ValueOf
  <2>4. CASE beyond = "error"
    <3>1. \A a \in Assigned(link) : \A x \in {"error"} : ValueOf(a, beyond, x, run) \in {"error"}
      BY <2>1, <2>4 DEF ValueOf, Narrow
    <3>2. q \in {"error"}
      BY <1>1, <2>2, <3>1, LocalsAre
    <3>3. QED
      BY <1>3, <2>3, <3>2 DEF Narrow
  <2>5. CASE beyond # "error"
    <3>1. ASSUME NEW a \in Assigned(link), NEW x \in G PROVE ValueOf(a, beyond, x, run) \in G
      <4>1. ValueOf(a, beyond, x, run) = Narrow(beyond, a.step)
        BY <2>1 DEF ValueOf
      <4>2. QED
        BY <2>1, <4>1 DEF Narrow
    <3>2. "error" \in G
      OBVIOUS
    <3> HIDE DEF G
    <3>3. q \in G
      BY <1>1, <2>2, <3>1, <3>2, LocalsAre
    <3>4. QED
      BY <1>3, <2>3, <2>5, <3>3 DEF Narrow, G
  <2>6. QED
    BY <2>4, <2>5
<1>6. QED
  BY <1>3, <1>4, <1>5 DEF Delegates

\* One that answers everybody's rows has a return that is not none().
LEMMA SomeReturnIsNotNone ==
    ASSUME PartsInv, PlainlyWritten, NEW link \in Links, NEW beyond, NEW run, RunBody(link, beyond, run) = "everybody's"
    PROVE  \E r \in Returns(link) : ~r.none
<1>1. PICK at : RunsAs(link, beyond, run, at)
  BY BodyRuns
<1>2. PICK k \in 1..Len(Body(link)) :
         /\ Body(link)[k].do = "return"
         /\ "everybody's" = ValueOf(Body(link)[k].rows, beyond, at[k - 1].qs, run)
  BY <1>1, AnswersAtAReturn
<1>3. \A x : Narrow(x, "none") # "everybody's"
  BY DEF Narrow
<1>4. Body(link)[k].rows.step # "none"
  <2>1. SUFFICES ASSUME Body(link)[k].rows.step = "none"
                 PROVE  FALSE
    OBVIOUS
  <2>2. \E x : ValueOf(Body(link)[k].rows, beyond, at[k - 1].qs, run) = Narrow(x, "none")
    BY <2>1 DEF ValueOf
  <2>3. QED
    BY <1>2, <1>3, <2>2
<1>5. ReturnOf(link, Body(link)[k]) \in Returns(link) /\ ~ReturnOf(link, Body(link)[k]).none
  BY <1>2, <1>4, ReturnsAre DEF ReturnOf
<1>6. QED
  BY <1>5

\* The one name of those read, where some have none.
LEMMA SingleIs ==
    ASSUME NEW names, names \subseteq {"model", Absent}
    PROVE  Single(names) = IF "model" \in names THEN "model" ELSE Absent
<1>1. CASE "model" \in names
  <2>1. names \ {Absent} = {"model"}
    BY <1>1 DEF Absent
  <2>2. Cardinality({"model"}) = 1
    BY FS_Singleton
  <2>3. (CHOOSE n \in names : n # Absent) = "model"
    BY <1>1 DEF Absent
  <2>4. QED
    BY <1>1, <2>1, <2>2, <2>3 DEF Single
<1>2. CASE "model" \notin names
  <2>1. names \ {Absent} = {}
    BY <1>2
  <2>2. Cardinality({}) = 0
    BY FS_EmptySet
  <2>3. QED
    BY <1>2, <2>1, <2>2 DEF Single
<1>3. QED
  BY <1>1, <1>2

\* Of the positions of a body that are walked one comes first.
LEMMA OneIsWalkedFirst ==
    ASSUME NEW link, NEW named \in SUBSET Nat, named # {}
    PROVE  \E k \in named : \A j \in named : Walked(link, k, j)
<1> DEFINE top == {k \in named : Body(link)[k].place = "always"}
<1>1. CASE top # {}
  <2>1. PICK k \in top : \A j \in top : k <= j
    BY <1>1, LeastExists
  <2>2. \A j \in named : Walked(link, k, j)
    BY <2>1 DEF Walked
  <2>3. QED
    BY <2>1, <2>2
<1>2. CASE top = {}
  <2>1. PICK k \in named : \A j \in named : k <= j
    BY LeastExists
  <2>2. \A j \in named : Walked(link, k, j)
    BY <1>2, <2>1 DEF Walked
  <2>3. QED
    BY <2>1, <2>2
<1>3. QED
  BY <1>1, <1>2

\* The name of what is returned: an assignment of the local to itself is walked first
\* only in a body that some run fails in.
LEMMA NamesAre ==
    ASSUME PartsInv, PlainlyWritten, NEW link \in Links,
           \A run \in ViewRuns : \E beyond : RunBody(link, beyond, run) # "error",
           NEW k \in 1..Len(Body(link))
    PROVE  ModelRef(link, Body(link)[k].rows) = IF Delegates(link, Body(link)[k].rows) THEN Absent ELSE "model"
<1> DEFINE rows == Body(link)[k].rows
           named == {j \in LocalAssignments(link) : Body(link)[j].rows.root \notin Nameless}
           first == CHOOSE j \in named : \A i \in named : Walked(link, j, i)
<1>1. rows.root \in {"model", "super", "qs"}
  BY PlainIs
<1>2. DOMAIN Body(link) = 1..Len(Body(link)) /\ Len(Body(link)) \in Nat
  BY BodyIs
<1>3. CASE rows.root # "qs"
  BY <1>1, <1>3 DEF ModelRef, Nameless, Delegates
<1>4. CASE rows.root = "qs"
  <2>1. PICK o \in 1..(k - 1) : Body(link)[o].do = "assign"
    BY <1>4, StatementsAre
  <2>2. o \in LocalAssignments(link) /\ Body(link)[o].rows \in Assigned(link)
    BY <1>2, <2>1 DEF Assigned, LocalAssignments
  <2>3. ModelRef(link, rows) = IF named = {} THEN Absent ELSE Body(link)[first].rows.root
    BY <1>4, <2>2 DEF ModelRef, Nameless
  <2>4. CASE Body(link)[o].rows.root = "super"
    <3>1. \A j \in LocalAssignments(link) : Body(link)[j].rows.root = "super"
      <4>1. \A j \in LocalAssignments(link) : Body(link)[j].rows \in Assigned(link)
        BY DEF Assigned
      <4>2. \A a \in Assigned(link) : a.root = "super"
        BY <2>2, <2>4, PlainIs
      <4>3. QED
        BY <4>1, <4>2
    <3>2. named = {} /\ Delegates(link, rows)
      BY <1>4, <2>2, <2>4, <3>1 DEF Nameless, Delegates
    <3>3. QED
      BY <2>3, <3>2
  <2>5. CASE Body(link)[o].rows.root # "super"
    <3>1. \A a \in Assigned(link) : a.root \in {"model", "qs"}
      BY <2>2, <2>5, PlainIs
    <3>2. ~Delegates(link, rows)
      BY <1>4, <3>1 DEF Delegates
    <3>3. named = LocalAssignments(link) /\ named \in SUBSET Nat /\ named # {}
      BY <1>2, <2>2, <3>1 DEF Assigned, LocalAssignments, Nameless
    <3>4. first \in named /\ \A i \in named : Walked(link, first, i)
      <4> HIDE DEF named
      <4>1. \E j \in named : \A i \in named : Walked(link, j, i)
        BY <3>3, OneIsWalkedFirst
      <4>2. QED
        BY <4>1
    <3> HIDE DEF first
    <3>5. first \in 1..Len(Body(link)) /\ Body(link)[first].do = "assign" /\ Body(link)[first].rows.root \in {"model", "qs"}
      BY <1>2, <3>1, <3>3, <3>4 DEF Assigned, LocalAssignments
    <3>6. ASSUME Body(link)[first].rows.root = "qs" PROVE FALSE
      <4>1. PICK i \in 1..(first - 1) : Body(link)[i].do = "assign"
        BY <3>5, <3>6, StatementsAre
      <4>2. i \in named /\ i < first /\ first \in Nat /\ i \in Nat
        BY <1>2, <3>3, <3>5, <4>1 DEF LocalAssignments
      <4>3. Body(link)[first].place = "always" /\ \A j \in 1..(first - 1) : Body(link)[j].do = "assign" =>
               Body(link)[j].place = "if setting"
        <5>1. Body(link)[first].place = "always"
          <6>1. Walked(link, first, i) /\ ~(first <= i)
            BY <3>4, <4>2
          <6>2. QED
            BY <6>1 DEF Walked
        <5>2. ASSUME NEW j \in 1..(first - 1), Body(link)[j].do = "assign", Body(link)[j].place = "always"
              PROVE  FALSE
          <6>1. j \in named /\ ~(first <= j)
            BY <1>2, <3>3, <3>5, <5>2 DEF LocalAssignments
          <6>2. Walked(link, first, j)
            BY <3>4, <6>1
          <6>3. QED
            BY <5>1, <5>2, <6>1, <6>2 DEF Walked
        <5>3. \A j \in 1..(first - 1) : j \in 1..Len(Body(link))
          BY <1>2, <3>5
        <5>4. QED
          BY <5>1, <5>2, <5>3, PlainIs
      <4>4. PICK other \in ViewRuns : Comes(link, first, other)
        BY <3>5, StatementsAre
      <4> DEFINE run == [who |-> other.who, settings |-> {}]
      <4>5. run \in ViewRuns /\ ~Happens("if setting", link, run)
        BY DEF ViewRuns, Happens
      <4> HIDE DEF run
      <4>6. Comes(link, first, run)
        <5>1. ASSUME NEW j \in 1..(first - 1), Body(link)[j].do = "return"
              PROVE  ~Happens(Body(link)[j].place, link, run)
          <6>1. j \in 1..Len(Body(link))
            BY <1>2, <3>5
          <6>2. Body(link)[j].place # "always"
            BY <4>4, <5>1 DEF Comes, Happens
          <6>3. QED
            BY <4>5, <6>1, <6>2, PlainIs
        <5>2. Happens(Body(link)[first].place, link, run)
          BY <4>3 DEF Happens
        <5>3. QED
          BY <5>1, <5>2 DEF Comes
      <4>7. PICK beyond : RunBody(link, beyond, run) # "error"
        BY <4>5
      <4>8. PICK at : RunsAs(link, beyond, run, at)
        BY BodyRuns
      <4> DEFINE S == {j \in 0..(first - 1) : at[j] = Begun}
      <4>9. \A j \in (0 + 1)..(first - 1) : j - 1 \in S => j \in S
        <5> SUFFICES ASSUME NEW j \in 1..(first - 1), at[j - 1] = Begun
                     PROVE  at[j] = Begun
          BY <4>2
        <5>1. j \in 1..Len(Body(link)) /\ at[j] = Execute(at[j - 1], Body(link)[j], link, beyond, run)
          BY <1>2, <3>5, <4>8 DEF RunsAs
        <5>2. ~Happens(Body(link)[j].place, link, run)
          <6>1. CASE Body(link)[j].do = "return"
            BY <4>6, <6>1 DEF Comes
          <6>2. CASE Body(link)[j].do = "assign"
            BY <4>3, <4>5, <6>2
          <6>3. QED
            BY <5>1, <6>1, <6>2, PlainIs
        <5>3. QED
          BY <5>1, <5>2, ExecuteIs
      <4>10. 0 \in S /\ S \in SUBSET Nat
        BY <4>2, <4>8 DEF RunsAs
      <4> HIDE DEF S
      <4>11. 0..(first - 1) \subseteq S
        <5>1. first - 1 \in Nat
          BY <4>2
        <5>2. QED
          BY <4>9, <4>10, <5>1, StepsReach
      <4>12. at[first - 1] = Begun
        BY <4>2, <4>11 DEF S
      <4>13. at[first] = Execute(Begun, Body(link)[first], link, beyond, run)
        BY <3>5, <4>8, <4>12 DEF RunsAs
      <4>14. ValueOf(Body(link)[first].rows, beyond, "error", run) = "error"
        BY <3>6 DEF ValueOf, Narrow
      <4>15. at[first].answer = "error"
        BY <4>6, <4>13, <4>14, ExecuteIs DEF Begun, Comes
      <4>16. first \in 0..Len(Body(link))
        BY <3>5
      <4>17. QED
        BY <4>7, <4>8, <4>15, <4>16, AnswersStand DEF Pending
    <3>7. QED
      BY <2>3, <3>2, <3>3, <3>5, <3>6
  <2>6. QED
    BY <2>4, <2>5
<1>5. QED
  BY <1>3, <1>4

\* Nothing the mixin returns delegates: there is nothing past it.
LEMMA MixinsDoNotDelegate ==
    ASSUME PartsInv, NEW r \in Returns("mixin")
    PROVE  ~r.delegates
<1>1. "mixin" \in Links
  BY DEF Links
<1>2. PICK k \in 1..Len(Body("mixin")) : r = ReturnOf("mixin", Body("mixin")[k])
  BY <1>1, ReturnsAre
<1>3. \A j \in 1..Len(Body("mixin")) : Body("mixin")[j].rows.root # "super"
  BY <1>1, StatementsAre
<1>4. \A a \in Assigned("mixin") : a.root # "super"
  BY <1>1, <1>3, AssignedAre
<1>5. QED
  BY <1>2, <1>3, <1>4 DEF ReturnOf, Delegates

\* A body that answers everybody's rows and does not delegate is reported.
LEMMA BodiesAreReported ==
    ASSUME PartsInv, PlainlyWritten, NEW link \in Links,
           \A run \in ViewRuns : \E beyond : RunBody(link, beyond, run) # "error",
           NEW beyond, NEW run \in ViewRuns, RunBody(link, beyond, run) = "everybody's"
    PROVE  LET node == MethodNode(link) IN
           /\ ~Unread(node) /\ ~NodeScoped(node) /\ ~Empty(node)
           /\ node.model = IF \E r \in Returns(link) : ~r.delegates THEN "model" ELSE Absent
           /\ \E r \in Returns(link) : ~r.none
<1> DEFINE node == MethodNode(link)
<1>1. PICK r \in Returns(link) : ~r.none
  BY SomeReturnIsNotNone
<1>2. ~ReturnScoped(r)
  BY <1>1, PlainReturnsAre
<1>3. node.source = "method" /\ node.returns = Returns(link) /\ ~node.scoping
  BY MethodIs
<1>4. ~Unread(node) /\ ~NodeScoped(node) /\ ~Empty(node)
  BY <1>1, <1>2, <1>3 DEF Unread, NodeScoped, Empty
<1>5. ASSUME NEW x \in Returns(link) PROVE x.model = IF x.delegates THEN Absent ELSE "model"
  <2>1. PICK k \in 1..Len(Body(link)) : x = ReturnOf(link, Body(link)[k])
    BY ReturnsAre
  <2>2. ModelRef(link, Body(link)[k].rows) = IF Delegates(link, Body(link)[k].rows) THEN Absent ELSE "model"
    BY NamesAre
  <2>3. QED
    BY <2>1, <2>2 DEF ReturnOf
<1> DEFINE names == {x.model : x \in Returns(link)}
<1>6. names \subseteq {"model", Absent} /\ ("model" \in names <=> \E x \in Returns(link) : ~x.delegates)
  BY <1>5 DEF Absent
<1>7. node.model = Single(names)
  BY MethodIs
<1> HIDE DEF names
<1>8. node.model = IF \E x \in Returns(link) : ~x.delegates THEN "model" ELSE Absent
  BY <1>6, <1>7, SingleIs
<1>9. QED
  BY <1>1, <1>4, <1>8

\* A self.queryset with everybody's rows is an attribute as it stands.
LEMMA SelfOfEverybody ==
    ASSUME PartsInv, NEW run, ReboundBy = {}, SelfQueryset(run) = "everybody's"
    PROVE  Nearest("queryset") = "as is"
BY SelfIs, NearestIs DEF Narrow, Absent

\* And a list endpoint that gives everybody's rows away is reported
\* (UnconsultedListsAreReported).
LEMMA ListsAreReported ==
    ASSUME PartsInv
    PROVE  UnconsultedListsAreReported
<1> SUFFICES ASSUME PlainlyWritten, ~AttributeMisread, Works, NEW run \in ViewRuns, Answer(run) = "everybody's"
             PROVE  UnscopedUserOwnedQueryset
  BY DEF UnconsultedListsAreReported, SeesEverything, PlainlyWritten
<1> DEFINE node == ReadQueryset
           mixin == DeclaredAt("mixin", NoQueryset)
<1>1. "viewset" \in Links /\ "mixin" \in Links
  BY DEF Links
<1>2. ReboundBy = {}
  BY <1>1, PlainIs
<1>3. \A any \in ViewRuns : /\ Answer(any) # "error"
                        /\ Answer(any) = IF HasBody("viewset") THEN RunBody("viewset", MixinAnswer(any), any)
                                         ELSE MixinAnswer(any)
  BY <1>2, AnswerIs DEF Works
<1>4. SUFFICES node.source # Absent /\ ~Unread(node) /\ ~NodeScoped(node) /\ ~Empty(node) /\ node.model = "model"
  BY <1>2 DEF UnscopedUserOwnedQueryset, Unfiltered
\* The mixin, wherever its answer is the one that counts.
<1>5. ASSUME MixinAnswer(run) = "everybody's", \A any \in ViewRuns : MixinAnswer(any) # "error",
             parts["viewset"].queryset = Absent
      PROVE  mixin.source # Absent /\ ~Unread(mixin) /\ ~NodeScoped(mixin) /\ ~Empty(mixin) /\ mixin.model = "model"
  <2>1. CASE HasBody("mixin")
    <3>1. mixin = MethodNode("mixin") /\ mixin.source = "method"
      BY <2>1, MixinIs, MethodIs
    <3>2. \A any \in ViewRuns : RunBody("mixin", SelfQueryset(any), any) # "error"
      BY <1>5, <2>1 DEF MixinAnswer
    <3>3. RunBody("mixin", SelfQueryset(run), run) = "everybody's"
      BY <1>5, <2>1 DEF MixinAnswer
    <3>4. \E r \in Returns("mixin") : ~r.delegates
      BY <1>1, <3>3, SomeReturnIsNotNone, MixinsDoNotDelegate
    <3>5. QED
      BY <1>1, <3>1, <3>2, <3>3, <3>4, BodiesAreReported DEF Absent
  <2>2. CASE ~HasBody("mixin")
    <3>1. Nearest("queryset") = "as is"
      BY <1>2, <1>5, <2>2, SelfOfEverybody DEF MixinAnswer
    <3>2. parts["mixin"].queryset = "as is"
      BY <1>5, <3>1, NearestIs
    <3>3. mixin = AttributeNode("as is")
      BY <2>2, <3>2, MixinIs DEF Absent
    <3> HIDE DEF mixin
    <3>4. mixin.source # Absent
      BY <3>3 DEF AttributeNode, Queryset, Absent
    <3>5. /\ ~Unread(AttributeNode("as is")) /\ ~NodeScoped(AttributeNode("as is"))
          /\ ~Empty(AttributeNode("as is")) /\ AttributeNode("as is").model = "model"
      BY DEF AttributeNode, Queryset, Unread, NodeScoped, Empty
    <3>6. QED
      BY <3>3, <3>4, <3>5
  <2>3. QED
    BY <2>1, <2>2
<1>6. CASE HasBody("viewset")
  <2> DEFINE own == MethodNode("viewset")
  <2>1. /\ RunBody("viewset", MixinAnswer(run), run) = "everybody's"
        /\ \A any \in ViewRuns : RunBody("viewset", MixinAnswer(any), any) # "error"
    BY <1>3, <1>6
  <2>2. /\ ~Unread(own) /\ ~NodeScoped(own) /\ ~Empty(own)
        /\ own.model = IF \E r \in Returns("viewset") : ~r.delegates THEN "model" ELSE Absent
        /\ \E r \in Returns("viewset") : ~r.none
    BY <1>1, <2>1, BodiesAreReported
  <2>3. node = IF Returns("viewset") # {} /\ \A r \in Returns("viewset") : r.delegates
               THEN Inherit(own, mixin) ELSE own
    BY <1>6, MethodIs DEF ReadQueryset, DeclaredAt
  <2>4. CASE \E r \in Returns("viewset") : ~r.delegates
    BY <2>2, <2>3, <2>4, MethodIs DEF Absent
  <2>5. CASE \A r \in Returns("viewset") : r.delegates
    <3>1. PICK r \in Returns("viewset") : ~r.none
      BY <2>2
    <3>2. parts["viewset"].queryset = Absent
      BY <1>6, <2>5, <3>1 DEF AttributeMisread
    <3>3. MixinAnswer(run) = "everybody's" /\ \A any \in ViewRuns : MixinAnswer(any) # "error"
      BY <1>1, <2>1, <2>5, DelegatesPass
    <3>4. mixin.source # Absent /\ ~NodeScoped(mixin) /\ mixin.model = "model"
      BY <1>5, <3>2, <3>3
    <3>5. node = Inherit(own, mixin) /\ own.model = Absent
      BY <2>2, <2>3, <2>5, <3>1
    <3>6. /\ node.source = "method" /\ ~node.scoping /\ node.model = "model"
          /\ \E heirs \in [Returns("viewset") -> node.returns] :
                \A t \in Returns("viewset") : /\ ~ReturnScoped(t) => ~ReturnScoped(heirs[t])
                                              /\ heirs[t].none = t.none
      BY <3>4, <3>5, InheritIs
    <3>7. PICK heirs \in [Returns("viewset") -> node.returns] :
             \A t \in Returns("viewset") : /\ ~ReturnScoped(t) => ~ReturnScoped(heirs[t])
                                           /\ heirs[t].none = t.none
      BY <3>6
    <3>8. heirs[r] \in node.returns /\ ~ReturnScoped(heirs[r]) /\ ~heirs[r].none
      BY <1>1, <3>1, <3>7, PlainReturnsAre
    <3>9. QED
      BY <3>6, <3>8 DEF Unread, NodeScoped, Empty, Absent
  <2>6. QED
    BY <2>4, <2>5
<1>7. CASE ~HasBody("viewset") /\ parts["viewset"].queryset # Absent
  <2>1. node = AttributeNode(parts["viewset"].queryset) /\ ~HasBody("mixin")
    BY <1>7 DEF ReadQueryset, DeclaredAt, AttributeMisread
  <2>2. SelfQueryset(run) = "everybody's"
    BY <1>3, <1>7, <2>1 DEF MixinAnswer
  <2>3. parts["viewset"].queryset = "as is"
    BY <1>2, <1>7, <2>2, SelfOfEverybody, NearestIs
  <2>4. QED
    BY <2>1, <2>3, AttributeIs DEF Absent
<1>8. CASE ~HasBody("viewset") /\ parts["viewset"].queryset = Absent
  <2>1. node = mixin
    BY <1>8 DEF ReadQueryset, DeclaredAt
  <2>2. MixinAnswer(run) = "everybody's" /\ \A any \in ViewRuns : MixinAnswer(any) # "error"
    BY <1>3, <1>8
  <2>3. QED
    BY <1>5, <1>8, <2>1, <2>2
<1>9. QED
  BY <1>6, <1>7, <1>8

\* A get_object is reported when it hands out what the permission would refuse.
LEMMA ObjectsHold ==
    ASSUME PartsInv
    PROVE  ObjectsAreJudged
<1>1. \A l \in Links : parts[l]["get_object"] \in {Absent, "fetches", "checks", "own", "defers"}
  BY DEF PartsInv, ClassParts, Objects
<1>2. "viewset" \in Links /\ "mixin" \in Links
  BY DEF Links
<1>3. QED
  BY <1>1, <1>2 DEF ObjectsAreJudged, ObjectPermissionsNotChecked, OthersServed, Serves, Nearest,
                    CallsTheCheck, ReadsUser, Absent

\* Writing an attribute or a method keeps PartsInv, since no statement depends on its absence.
LEMMA GivingKeeps ==
    ASSUME PartsInv, NEW link \in Links, NEW what,
           NEW name \in {"queryset", "rows", "rebind", "get_object"}, Give(link, name, what),
           \A c \in ClassParts : [c EXCEPT ![name] = what] \in ClassParts, what # Absent
    PROVE  PartsInv'
<1>1. /\ parts \in [Links -> ClassParts] /\ parts[link][name] = Absent
      /\ parts' = [parts EXCEPT ![link][name] = what]
  BY DEF PartsInv, Give
<1>2. parts' \in [Links -> ClassParts]
  BY <1>1
<1>3. \A l \in Links : Body(l)' = Body(l)
  <2>1. \A c \in ClassParts : [c EXCEPT ![name] = what].get_queryset = c.get_queryset
    BY DEF ClassParts
  <2>2. QED
    BY <1>1, <2>1 DEF Body
<1>4. \A l \in Links : \A k, run : Comes(l, k, run)' <=> Comes(l, k, run)
  BY <1>3 DEF Comes
<1>5. Nearest("rows") # Absent => Nearest("rows")' # Absent
  <2>1. \A l \in Links : parts[l]["rows"] # Absent => parts'[l]["rows"] # Absent
    <3>1. \A c \in ClassParts : [c EXCEPT ![name] = what]["rows"] = IF name = "rows" THEN what ELSE c["rows"]
      BY DEF ClassParts
    <3>2. QED
      BY <1>1, <3>1
  <2>2. QED
    BY <2>1 DEF Nearest, Links
<1>6. QED
  BY <1>2, <1>3, <1>4, <1>5 DEF PartsInv

\* So does a further statement of get_queryset, which some run comes to and which reads what
\* there is.
LEMMA ExtendingKeeps ==
    ASSUME PartsInv, NEW link \in Links, NEW place \in {p \in Placements : Reachable(link, p)},
           NEW do \in {"assign", "return"}, NEW root \in Readable(link), NEW step \in Narrowings,
           Extend(link, BodyStatement(place, do, Rows(root, step)))
    PROVE  PartsInv'
<1> DEFINE s == BodyStatement(place, do, Rows(root, step))
           n == Len(Body(link))
<1>1. parts \in [Links -> ClassParts] /\ parts' = [parts EXCEPT ![link].get_queryset = Append(@, s)]
  BY DEF PartsInv, Extend
<1>2. s \in Statements /\ s.place = place /\ s.do = do /\ s.rows.root = root /\ s.rows = Rows(root, step)
  BY DEF BodyStatement, Rows, Statements, Readable, Roots
<1> HIDE DEF s
<1>3. parts' \in [Links -> ClassParts]
  <2>1. parts[link] \in ClassParts /\ parts[link].get_queryset \in Seq(Statements)
    BY <1>1 DEF ClassParts
  <2>2. Append(parts[link].get_queryset, s) \in Seq(Statements)
    BY <1>2, <2>1
  <2>3. [parts[link] EXCEPT !.get_queryset = Append(@, s)] \in ClassParts
    BY <2>1, <2>2 DEF ClassParts
  <2>4. QED
    BY <1>1, <2>3
<1>4. n \in Nat /\ DOMAIN Body(link) = 1..n /\ Body(link) \in Seq(Statements)
  BY BodyIs
<1>5. /\ Body(link)' = Append(Body(link), s)
      /\ \A l \in Links : l # link => Body(l)' = Body(l)
      /\ \A l \in Links : parts'[l]["rows"] = parts[l]["rows"]
  BY <1>1 DEF Body, ClassParts
<1>6. Nearest("rows")' = Nearest("rows")
  BY <1>5 DEF Nearest, Links
<1>7. /\ DOMAIN Body(link)' = 1..(n + 1) /\ Body(link)'[n + 1] = s
      /\ \A k \in 1..n : Body(link)'[k] = Body(link)[k]
  BY <1>2, <1>4, <1>5
<1>8. ASSUME NEW l \in Links, NEW k \in DOMAIN Body(l)'
      PROVE  LET rows == Body(l)'[k].rows IN
             /\ \E run \in ViewRuns : Comes(l, k, run)'
             /\ rows.root = "super" => l = "viewset"
             /\ rows.root = "qs" => \E j \in 1..(k - 1) : Body(l)'[j].do = "assign"
             /\ rows.root = "self.rows" => Nearest("rows")' # Absent
  <2>1. CASE l # link
    <3>1. Body(l)' = Body(l)
      BY <1>5, <2>1
    <3>2. \A run : Comes(l, k, run)' <=> Comes(l, k, run)
      BY <3>1 DEF Comes, Happens
    <3>3. QED
      BY <1>6, <1>8, <3>1, <3>2 DEF PartsInv
  <2>2. CASE l = link /\ k # n + 1
    <3>1. k \in 1..n /\ \A j \in 1..(k - 1) : j \in 1..n
      BY <1>4, <1>7, <2>2
    <3>2. \A run : Comes(l, k, run)' <=> Comes(l, k, run)
      BY <1>7, <2>2, <3>1 DEF Comes, Happens
    <3>3. QED
      BY <1>4, <1>6, <1>7, <2>2, <3>1, <3>2 DEF PartsInv
  <2>3. CASE l = link /\ k = n + 1
    <3>1. PICK run \in ViewRuns : /\ Happens(place, link, run)
                              /\ \A j \in DOMAIN Body(link) : Body(link)[j].do = "return" => ~Happens(Body(link)[j].place, link, run)
      BY DEF Reachable
    <3>2. k - 1 = n /\ Body(l)'[k] = s /\ \A j \in 1..n : Body(l)'[j] = Body(link)[j]
      BY <1>4, <1>7, <2>3
    <3>3. Comes(l, k, run)'
      BY <1>2, <1>4, <2>3, <3>1, <3>2 DEF Comes, Happens
    <3>4. /\ root = "super" => l = "viewset"
          /\ root = "qs" => \E j \in 1..n : Body(link)[j].do = "assign"
          /\ root = "self.rows" => Nearest("rows") # Absent
      <4>1. root = "super" => link = "viewset"
        BY DEF Readable, Past
      <4>2. root = "qs" => Assigned(link) # {}
        BY DEF Readable
      <4>3. root = "self.rows" => Nearest("rows") # Absent
        BY DEF Readable
      <4>4. QED
        BY <2>3, <4>1, <4>2, <4>3, AssignedAre
    <3>5. QED
      BY <1>2, <1>6, <3>2, <3>3, <3>4
  <2>4. QED
    BY <2>1, <2>2, <2>3
<1>9. QED
  BY <1>3, <1>8 DEF PartsInv

\* So every step of the authors keeps it.
LEMMA PartsAreKept == PartsInv /\ [QuerysetsNext]_querysetVars => PartsInv'
<1> SUFFICES ASSUME PartsInv, [QuerysetsNext]_querysetVars
             PROVE  PartsInv'
  OBVIOUS
<1>1. CASE UNCHANGED querysetVars
  <2>1. parts' = parts
    BY <1>1 DEF querysetVars
  <2>2. QED
    BY <2>1 DEF PartsInv, Body, Comes, Nearest
<1>2. ASSUME NEW l \in Links, NEW step \in {"as is", "none"}, Give(l, "queryset", step) PROVE PartsInv'
  BY <1>2, GivingKeeps DEF ClassParts, Absent
<1>3. ASSUME NEW l \in Links, NEW step \in {"as is", "mine"}, Give(l, "rows", step) PROVE PartsInv'
  BY <1>3, GivingKeeps DEF ClassParts, Absent
<1>4. ASSUME NEW l \in Links, NEW place \in {"always", "if setting"}, Give(l, "rebind", place) PROVE PartsInv'
  BY <1>4, GivingKeeps DEF ClassParts, Absent
<1>5. ASSUME NEW l \in Links, NEW kind \in Objects, Give(l, "get_object", kind) PROVE PartsInv'
  BY <1>5, GivingKeeps DEF ClassParts, Absent, Objects
<1>6. QED
  BY <1>1, <1>2, <1>3, <1>4, <1>5, ExtendingKeeps DEF QuerysetsNext, WriteLists, WriteObjects

\* Whatever is written of two classes, and however much of it, DJA-004 and DJA-005
\* (rules/authorization.py) report the rows handed to others where they are handed out, and
\* leave none of them unsaid where the request is not consulted.
THEOREM QuerysetsHold == QuerysetsSpec => []QuerysetsAreJudged
<1>1. QuerysetsInit => PartsInv
  <2> SUFFICES ASSUME QuerysetsInit
               PROVE  PartsInv
    OBVIOUS
  <2>1. Unwritten \in ClassParts /\ Unwritten.get_queryset = <<>>
    BY DEF Unwritten, ClassParts
  <2>2. parts \in [Links -> ClassParts] /\ \A l \in Links : Body(l) = <<>>
    BY <2>1 DEF QuerysetsInit, Body
  <2>3. DOMAIN <<>> = {}
    OBVIOUS
  <2>4. QED
    BY <2>2, <2>3 DEF PartsInv
<1>2. PartsInv => QuerysetsAreJudged
  BY ListReportsHold, ListsAreReported, ObjectsHold DEF QuerysetsAreJudged
<1>3. QED
  BY <1>1, <1>2, PartsAreKept, PTL DEF QuerysetsSpec

=============================================================================
