------------------------- MODULE BaselineLifeProofs -------------------------
(* Theorems about BaselineLife for every set of problems and snippets and     *)
(* every number of edits: the types, and that an audit reports, of each       *)
(* snippet, exactly what goes beyond the baseline it loaded.  The argument:   *)
(* the occurrence indices of the problems with one snippet are 0 .. n - 1     *)
(* with n their number, so the fingerprints of a document say how many it has *)
(* of each snippet, and that is all a baseline accepts.                       *)
EXTENDS BaselineLife, FiniteSetTheorems, SequenceTheorems, TLAPS

DocumentOK ==
  /\ document \in Seq(Problem)
  /\ \A i, j \in 1..Len(document) : document[i] = document[j] => i = j

Carrying(s) == {p \in Kept : SnippetOf[p] = s}

(* A set of fingerprints says how many problems of each snippet there were. *)
Describes(fps, tally) ==
  /\ tally \in [Snippets -> Nat]
  /\ fps = {f \in Snippets \X Nat : f[2] < tally[f[1]]}

-----------------------------------------------------------------------------
(* Occurrence indices.                                                        *)

LEMMA Places ==
  ASSUME DocumentOK, NEW p \in Present(document)
  PROVE  Place(p) \in 1..Len(document) /\ document[Place(p)] = p
BY DEF Place, Present

LEMMA PresentIsFinite ==
  ASSUME DocumentOK
  PROVE  IsFiniteSet(Present(document)) /\ IsFiniteSet(Kept)
<1> DEFINE place == [p \in Present(document) |-> Place(p)]
<1>1. place \in [Present(document) -> 1..Len(document)]
  BY Places
<1>2. \A p, q \in Present(document) : place[p] = place[q] => p = q
  <2> TAKE p, q \in Present(document)
  <2>1. document[Place(p)] = p /\ document[Place(q)] = q
    BY Places
  <2>2. QED
    BY <2>1
<1>3. place \in Injection(Present(document), 1..Len(document))
  BY <1>1, <1>2 DEF Injection, IsInjective
<1>4. Len(document) \in Nat
  BY DEF DocumentOK
<1>5. IsFiniteSet(1..Len(document))
  BY <1>4, FS_Interval
<1>6. IsFiniteSet(Present(document))
  BY <1>3, <1>5, FS_Injection
<1>7. QED
  BY <1>6, FS_Subset DEF Kept

LEMMA CarryingIsFinite ==
  ASSUME DocumentOK, NEW s
  PROVE  IsFiniteSet(Carrying(s)) /\ Cardinality(Carrying(s)) \in Nat
<1>1. IsFiniteSet(Carrying(s))
  BY PresentIsFinite, FS_Subset DEF Carrying
<1>2. QED
  BY <1>1, FS_CardinalityType

(* An index is below the number of problems that share the snippet. *)
LEMMA OccurrencesAreBounded ==
  ASSUME DocumentOK, NEW s, NEW p \in Carrying(s)
  PROVE  Occurrence(p) \in 0..(Cardinality(Carrying(s)) - 1)
<1> DEFINE before == {q \in Kept : SnippetOf[q] = SnippetOf[p] /\ Place(q) < Place(p)}
<1>1. p \in Kept /\ SnippetOf[p] = s /\ p \in Present(document)
  BY DEF Carrying, Kept
<1>2. p \notin before
  <2>1. Place(p) \in Int
    BY <1>1, Places
  <2>2. QED
    BY <2>1
<1>3. before \in SUBSET (Carrying(s) \ {p})
  BY <1>1, <1>2 DEF Carrying
<1>4. /\ IsFiniteSet(Carrying(s) \ {p})
      /\ Cardinality(Carrying(s) \ {p}) = Cardinality(Carrying(s)) - 1
  BY CarryingIsFinite, FS_RemoveElement
<1>5. IsFiniteSet(before) /\ Cardinality(before) <= Cardinality(Carrying(s)) - 1
  BY <1>3, <1>4, FS_Subset
<1>6. Cardinality(before) \in Nat /\ Cardinality(Carrying(s)) \in Nat
  BY <1>5, FS_CardinalityType, CarryingIsFinite
<1>7. Occurrence(p) = Cardinality(before)
  BY DEF Occurrence
<1>8. QED
  BY <1>5, <1>6, <1>7

(* Of two problems with one snippet, the later has the larger index. *)
LEMMA LaterIsLarger ==
  ASSUME DocumentOK, NEW s, NEW p \in Carrying(s), NEW q \in Carrying(s), Place(p) < Place(q)
  PROVE  Occurrence(p) < Occurrence(q)
<1> DEFINE Before(r) == {o \in Kept : SnippetOf[o] = SnippetOf[r] /\ Place(o) < Place(r)}
<1>1. p \in Kept /\ q \in Kept /\ SnippetOf[p] = s /\ SnippetOf[q] = s
  BY DEF Carrying
<1>2. \A r \in Kept : Place(r) \in Int
  BY Places DEF Kept
<1>3. Before(p) \cup {p} \in SUBSET Before(q) /\ p \notin Before(p)
  BY <1>1, <1>2
<1>4. IsFiniteSet(Before(p)) /\ IsFiniteSet(Before(q))
  BY PresentIsFinite, FS_Subset
<1>5. Cardinality(Before(p) \cup {p}) = Cardinality(Before(p)) + 1
  BY <1>3, <1>4, FS_AddElement
<1>6. Cardinality(Before(p) \cup {p}) <= Cardinality(Before(q))
  BY <1>3, <1>4, FS_Subset
<1>7. Cardinality(Before(p)) \in Nat /\ Cardinality(Before(q)) \in Nat
  BY <1>4, FS_CardinalityType
<1>8. Occurrence(p) = Cardinality(Before(p)) /\ Occurrence(q) = Cardinality(Before(q))
  BY DEF Occurrence
<1>9. QED
  BY <1>5, <1>6, <1>7, <1>8

(* The indices of the problems with one snippet are 0 .. n - 1, one each. *)
LEMMA OccurrencesCount ==
  ASSUME DocumentOK, NEW s
  PROVE  [p \in Carrying(s) |-> Occurrence(p)]
           \in Bijection(Carrying(s), 0..(Cardinality(Carrying(s)) - 1))
<1> DEFINE n == Cardinality(Carrying(s))
           index == [p \in Carrying(s) |-> Occurrence(p)]
<1>1. index \in [Carrying(s) -> 0..(n - 1)]
  BY OccurrencesAreBounded
<1>2. \A p, q \in Carrying(s) : index[p] = index[q] => p = q
  <2> SUFFICES ASSUME NEW p \in Carrying(s), NEW q \in Carrying(s), p # q
               PROVE  Occurrence(p) # Occurrence(q)
    OBVIOUS
  <2>1. p \in Present(document) /\ q \in Present(document)
    BY DEF Carrying, Kept
  <2>2. Place(p) \in Int /\ Place(q) \in Int /\ Place(p) # Place(q)
    BY <2>1, Places
  <2>3. Occurrence(p) \in Int /\ Occurrence(q) \in Int
    BY OccurrencesAreBounded
  <2>4. CASE Place(p) < Place(q)
    BY <2>3, <2>4, LaterIsLarger
  <2>5. CASE Place(q) < Place(p)
    BY <2>3, <2>5, LaterIsLarger
  <2>6. QED
    BY <2>2, <2>4, <2>5
<1>3. index \in Injection(Carrying(s), 0..(n - 1))
  BY <1>1, <1>2 DEF Injection, IsInjective
<1>4. n \in Nat /\ IsFiniteSet(Carrying(s))
  BY CarryingIsFinite
<1>5. IsFiniteSet(0..(n - 1)) /\ Cardinality(0..(n - 1)) = n
  BY <1>4, FS_Interval
<1>6. index \in Surjection(Carrying(s), 0..(n - 1))
  BY <1>3, <1>5, FS_Injection
<1>7. QED
  BY <1>3, <1>6 DEF Bijection

-----------------------------------------------------------------------------
(* What a baseline says, and what an audit makes of it.                       *)

LEMMA TallyType ==
  ASSUME DocumentOK, NEW S \in SUBSET Kept
  PROVE  Tally(S) \in [Snippets -> Nat]
<1>1. ASSUME NEW s \in Snippets
      PROVE  Cardinality({p \in S : SnippetOf[p] = s}) \in Nat
  <2>1. IsFiniteSet({p \in S : SnippetOf[p] = s})
    BY PresentIsFinite, FS_Subset
  <2>2. QED
    BY <2>1, FS_CardinalityType
<1>2. QED
  BY <1>1 DEF Tally

(* The problems of a snippet have the fingerprints below their number. *)
LEMMA KeptIsDescribed ==
  ASSUME DocumentOK
  PROVE  Describes({Fingerprint(p) : p \in Kept}, Tally(Kept))
<1>1. Tally(Kept) \in [Snippets -> Nat]
  BY TallyType
<1>2. ASSUME NEW p \in Kept
      PROVE  /\ Fingerprint(p) \in Snippets \X Nat
             /\ Fingerprint(p)[2] < Tally(Kept)[Fingerprint(p)[1]]
  <2> DEFINE s == SnippetOf[p]
  <2>1. p \in Carrying(s) /\ s \in Snippets
    <3>1. p \in Problem
      BY DEF Kept, Present, DocumentOK
    <3>2. QED
      BY <3>1 DEF Carrying, Snippets
  <2>2. Occurrence(p) \in 0..(Cardinality(Carrying(s)) - 1) /\ Cardinality(Carrying(s)) \in Nat
    BY <2>1, OccurrencesAreBounded, CarryingIsFinite
  <2>3. Tally(Kept)[s] = Cardinality(Carrying(s))
    BY <2>1 DEF Tally, Carrying
  <2>4. Fingerprint(p) = <<s, Occurrence(p)>>
    BY DEF Fingerprint
  <2>5. QED
    BY <2>1, <2>2, <2>3, <2>4
<1>3. ASSUME NEW s \in Snippets, NEW n \in Nat, n < Tally(Kept)[s]
      PROVE  \E p \in Kept : Fingerprint(p) = <<s, n>>
  <2>1. Tally(Kept)[s] = Cardinality(Carrying(s)) /\ Cardinality(Carrying(s)) \in Nat
    BY CarryingIsFinite DEF Tally, Carrying
  <2>2. n \in 0..(Cardinality(Carrying(s)) - 1)
    BY <1>3, <2>1
  <2>3. PICK p \in Carrying(s) : [q \in Carrying(s) |-> Occurrence(q)][p] = n
    BY <2>2, OccurrencesCount DEF Bijection, Surjection
  <2>4. p \in Kept /\ SnippetOf[p] = s /\ Occurrence(p) = n
    BY <2>3 DEF Carrying
  <2>5. QED
    BY <2>4 DEF Fingerprint
<1>4. \A f \in Snippets \X Nat : f[2] < Tally(Kept)[f[1]] => f \in {Fingerprint(p) : p \in Kept}
  <2> TAKE f \in Snippets \X Nat
  <2> HAVE f[2] < Tally(Kept)[f[1]]
  <2>1. f[1] \in Snippets /\ f[2] \in Nat /\ f = <<f[1], f[2]>>
    OBVIOUS
  <2>2. PICK p \in Kept : Fingerprint(p) = <<f[1], f[2]>>
    BY <1>3, <2>1
  <2>3. QED
    BY <2>1, <2>2
<1>5. QED
  BY <1>1, <1>2, <1>4 DEF Describes

(* Of a snippet that is accepted so many times, the rest is new. *)
LEMMA TheRestIsNew ==
  ASSUME DocumentOK, NEW fps, NEW tally, Describes(fps, tally), NEW s \in Snippets
  PROVE  Tally({p \in Kept : Fingerprint(p) \notin fps})[s] = Excess(Tally(Kept)[s], tally[s])
<1> DEFINE new == {p \in Kept : Fingerprint(p) \notin fps}
           n == Cardinality(Carrying(s))
           old == {p \in Carrying(s) : Occurrence(p) < tally[s]}
           m == IF n <= tally[s] THEN n ELSE tally[s]
           index == [p \in old |-> Occurrence(p)]
<1>1. n \in Nat /\ tally[s] \in Nat /\ IsFiniteSet(Carrying(s))
  BY CarryingIsFinite DEF Describes
<1>2. {p \in new : SnippetOf[p] = s} = Carrying(s) \ old
  <2>1. ASSUME NEW p \in Carrying(s)
        PROVE  Fingerprint(p) \in fps <=> p \in old
    <3>1. Fingerprint(p) = <<s, Occurrence(p)>>
      BY DEF Carrying, Fingerprint
    <3>2. Occurrence(p) \in Nat
      BY <1>1, OccurrencesAreBounded
    <3>3. QED
      BY <3>1, <3>2 DEF Describes
  <2>2. QED
    BY <2>1 DEF Carrying
<1>3. old \in SUBSET Carrying(s) /\ IsFiniteSet(old)
  BY <1>1, FS_Subset
<1>4. index \in Bijection(old, 0..(m - 1))
  <2>1. \A p \in old : Occurrence(p) \in 0..(m - 1)
    BY <1>1, OccurrencesAreBounded
  <2>2. \A p, q \in old : Occurrence(p) = Occurrence(q) => p = q
    <3> TAKE p, q \in old
    <3>1. [o \in Carrying(s) |-> Occurrence(o)] \in Injection(Carrying(s), 0..(n - 1))
      BY OccurrencesCount DEF Bijection
    <3>2. QED
      BY <3>1 DEF Injection, IsInjective
  <2>3. \A k \in 0..(m - 1) : \E p \in old : Occurrence(p) = k
    <3> TAKE k \in 0..(m - 1)
    <3>1. k \in 0..(n - 1) /\ k < tally[s]
      BY <1>1
    <3>2. PICK p \in Carrying(s) : [o \in Carrying(s) |-> Occurrence(o)][p] = k
      BY <3>1, OccurrencesCount DEF Bijection, Surjection
    <3>3. QED
      BY <3>1, <3>2
  <2>4. QED
    BY <2>1, <2>2, <2>3 DEF Bijection, Injection, Surjection, IsInjective
<1>5. Cardinality(old) = m
  <2>1. ExistsBijection(old, 0..(m - 1))
    BY <1>4 DEF ExistsBijection
  <2>2. Cardinality(0..(m - 1)) = Cardinality(old)
    BY <1>3, <2>1, FS_Bijection
  <2>3. m \in Nat
    BY <1>1
  <2>4. Cardinality(0..(m - 1)) = m
    BY <2>3, FS_Interval
  <2>5. QED
    BY <2>2, <2>4
<1>6. Cardinality(Carrying(s) \ old) = n - m
  <2>1. Carrying(s) \cap old = old
    BY <1>3
  <2>2. Cardinality(Carrying(s) \ old) = n - Cardinality(Carrying(s) \cap old)
    BY <1>1, FS_Difference
  <2> HIDE DEF m, old, n
  <2>3. QED
    BY <1>5, <2>1, <2>2
<1>7. Tally(new)[s] = n - m
  BY <1>2, <1>6 DEF Tally
<1>8. Tally(Kept)[s] = n
  BY DEF Tally, Carrying
<1>9. QED
  BY <1>1, <1>7, <1>8 DEF Excess

-----------------------------------------------------------------------------
(* The inductive invariant.  ReportsTheExcess speaks of the last audit only;   *)
(* what it rests on is that the document lists no problem twice and that every *)
(* account of fingerprints, on file or in a process, still describes the tally *)
(* it was made with.                                                           *)

IInv ==
  /\ TypeOK
  /\ DocumentOK
  /\ Describes(writer.fingerprints, writer.tally)
  /\ file.state = "whole" => Describes(file.fingerprints, ledger)
  /\ Describes(auditor.fingerprints, auditor.tally)
  /\ ReportsTheExcess

(* Nothing is described by nothing. *)
LEMMA NothingIsDescribed == Describes({}, None) /\ None \in [Snippets -> Nat]
BY DEF Describes, None

LEMMA InsertKeeps ==
  ASSUME NEW d \in Seq(Problem), \A i, j \in 1..Len(d) : d[i] = d[j] => i = j,
         NEW p \in Problem \ Present(d), NEW at \in 0..Len(d)
  PROVE  /\ Insert(d, at, p) \in Seq(Problem)
         /\ \A i, j \in 1..Len(Insert(d, at, p)) :
               Insert(d, at, p)[i] = Insert(d, at, p)[j] => i = j
         /\ Present(d) \subseteq Present(Insert(d, at, p))
<1> DEFINE e == Insert(d, at, p)
           n == Len(d)
<1>1. n \in Nat /\ at \in Nat /\ at <= n /\ \A k \in 1..n : d[k] \in Problem /\ d[k] # p
  BY DEF Present
<1>2. e = [k \in 1..(n + 1) |-> IF k <= at THEN d[k] ELSE IF k = at + 1 THEN p ELSE d[k - 1]]
  BY DEF Insert
<1>3. e \in [1..(n + 1) -> Problem]
  BY <1>1, <1>2
<1>4. e \in Seq(Problem) /\ Len(e) = n + 1
  BY <1>1, <1>3, SeqDef, LenProperties
<1>5. \A i, j \in 1..(n + 1) : e[i] = e[j] => i = j
  BY <1>1, <1>2
<1>6. ASSUME NEW k \in 1..n
      PROVE  \E i \in 1..(n + 1) : e[i] = d[k]
  <2>1. CASE k <= at
    BY <1>1, <1>2, <2>1
  <2>2. CASE k > at
    <3>1. k + 1 \in 1..(n + 1) /\ e[k + 1] = d[k]
      BY <1>1, <1>2, <2>2
    <3>2. QED
      BY <3>1
  <2>3. QED
    BY <1>1, <2>1, <2>2
<1>7. QED
  BY <1>4, <1>5, <1>6 DEF Present

LEMMA RemoveKeeps ==
  ASSUME NEW d \in Seq(Problem), \A i, j \in 1..Len(d) : d[i] = d[j] => i = j,
         NEW at \in 1..Len(d)
  PROVE  /\ Remove(d, at) \in Seq(Problem)
         /\ \A i, j \in 1..Len(Remove(d, at)) : Remove(d, at)[i] = Remove(d, at)[j] => i = j
         /\ Present(d) \ {d[at]} \subseteq Present(Remove(d, at))
<1> DEFINE e == Remove(d, at)
           n == Len(d)
<1>1. n \in Nat /\ at \in 1..n /\ n - 1 \in Nat /\ \A k \in 1..n : d[k] \in Problem
  OBVIOUS
<1>2. e = [k \in 1..(n - 1) |-> IF k < at THEN d[k] ELSE d[k + 1]]
  BY DEF Remove
<1>3. e \in [1..(n - 1) -> Problem]
  BY <1>1, <1>2
<1>4. e \in Seq(Problem) /\ Len(e) = n - 1
  BY <1>1, <1>3, SeqDef, LenProperties
<1>5. \A i, j \in 1..(n - 1) : e[i] = e[j] => i = j
  BY <1>1, <1>2
<1>6. ASSUME NEW k \in 1..n, k # at
      PROVE  \E i \in 1..(n - 1) : e[i] = d[k]
  <2>1. CASE k < at
    BY <1>1, <1>2, <2>1
  <2>2. CASE k > at
    <3>1. k - 1 \in 1..(n - 1) /\ e[k - 1] = d[k]
      BY <1>1, <1>2, <2>2
    <3>2. QED
      BY <3>1
  <2>3. QED
    BY <1>1, <1>6, <2>1, <2>2
<1>7. ASSUME NEW q \in Present(d), q # d[at]
      PROVE  q \in Present(e)
  <2>1. PICK k \in 1..n : q = d[k]
    BY DEF Present
  <2>2. \E i \in 1..(n - 1) : e[i] = q
    BY <1>6, <1>7, <2>1
  <2>3. QED
    BY <1>4, <2>2 DEF Present
<1>8. QED
  BY <1>4, <1>5, <1>7

LEMMA InitIsSound == Init => IInv
<1> SUFFICES ASSUME Init
             PROVE  IInv
  OBVIOUS
<1> USE NothingIsDescribed
<1>1. document \in Seq(Problem) /\ Len(document) = 0
  BY EmptySeq DEF Init
<1>2. DocumentOK
  BY <1>1 DEF DocumentOK
<1>3. TypeOK
  BY <1>1, MaxEditsIsANumber
     DEF Init, TypeOK, Accounts, Absent, OK, FINDINGS, ERROR
<1>4. ReportsTheExcess
  <2>1. \A s \in Snippets : Tally({})[s] = 0
    BY FS_EmptySet DEF Tally
  <2>2. \A s \in Snippets : None[s] = 0
    BY DEF None
  <2>3. result.reported = {} /\ result.reported \cup result.hidden = {} /\ result.ledger = None
    BY DEF Init
  <2>4. Excess(0, 0) = 0
    BY DEF Excess
  <2>5. \A s \in Snippets :
          Tally(result.reported)[s]
            = Excess(Tally(result.reported \cup result.hidden)[s], result.ledger[s])
    BY <2>1, <2>2, <2>3, <2>4
  <2>6. QED
    BY <2>5 DEF ReportsTheExcess
<1>5. QED
  BY <1>2, <1>3, <1>4 DEF Init, IInv, Absent

(* Editing the file moves the problems about and loses none that is not removed. *)
LEMMA EditIsSound ==
  ASSUME IInv, Edit
  PROVE  IInv'
<1> USE DEF IInv
<1>1. document \in Seq(Problem) /\ \A i, j \in 1..Len(document) : document[i] = document[j] => i = j
  BY DEF DocumentOK
<1>2. ignored \subseteq Present(document) /\ edits \in Nat
  BY DEF TypeOK
<1>3. DocumentOK' /\ ignored' \subseteq Present(document')
  <2>1. ASSUME NEW p \in Problem \ Present(document), NEW i \in 0..Len(document),
               document' = Insert(document, i, p), UNCHANGED ignored
        PROVE  DocumentOK' /\ ignored' \subseteq Present(document')
    BY <1>1, <1>2, <2>1, InsertKeeps DEF DocumentOK
  <2>2. ASSUME NEW i \in 1..Len(document),
               document' = Remove(document, i), ignored' = ignored \ {document[i]}
        PROVE  DocumentOK' /\ ignored' \subseteq Present(document')
    BY <1>1, <1>2, <2>2, RemoveKeeps DEF DocumentOK
  <2>3. ASSUME NEW p \in Present(document), UNCHANGED document,
               ignored' = (IF p \in ignored THEN ignored \ {p} ELSE ignored \cup {p})
        PROVE  DocumentOK' /\ ignored' \subseteq Present(document')
    BY <1>1, <1>2, <2>3 DEF DocumentOK
  <2>4. QED
    BY <2>1, <2>2, <2>3 DEF Edit
<1>4. TypeOK'
  <2>1. edits' \in 0..MaxEdits
    BY <1>2, MaxEditsIsANumber DEF Edit
  <2>2. QED
    BY <1>3, <2>1 DEF TypeOK, DocumentOK, Edit
<1>5. UNCHANGED <<file, writer, ledger, auditor, result>>
  BY DEF Edit
<1>6. ReportsTheExcess'
  BY <1>5 DEF ReportsTheExcess, Tally
<1>7. QED
  BY <1>3, <1>4, <1>5, <1>6

(* A process that runs the rules on the file now describes the file now. *)
LEMMA WritingIsSound ==
  ASSUME IInv, WriterRuns \/ WriterRunsCrashedRule \/ SaveTruncates \/ SaveWrites \/ WriterDies
  PROVE  IInv'
<1> USE DEF IInv
<1>1. UNCHANGED <<document, ignored, edits, auditor, result>>
  BY DEF WriterRuns, WriterRunsCrashedRule, SaveTruncates, SaveWrites, WriterDies
<1>2. DocumentOK' /\ ReportsTheExcess'
  BY <1>1 DEF DocumentOK, ReportsTheExcess, Tally
<1>3. writer \in Accounts({"idle", "audited", "saving"}) /\ ledger \in [Snippets -> Nat]
  BY DEF TypeOK
<1>4. CASE WriterRuns \/ WriterRunsCrashedRule
  <2>1. PICK fps, tally : /\ writer' = [at |-> "audited", fingerprints |-> fps, tally |-> tally]
                          /\ Describes(fps, tally)
    BY <1>4, KeptIsDescribed, NothingIsDescribed DEF WriterRuns, WriterRunsCrashedRule
  <2>2. fps \in SUBSET (Snippets \X Nat) /\ tally \in [Snippets -> Nat]
    BY <2>1 DEF Describes
  <2>3. writer' \in Accounts({"idle", "audited", "saving"})
    BY <2>1, <2>2 DEF Accounts
  <2>4. UNCHANGED <<file, ledger>>
    BY <1>4 DEF WriterRuns, WriterRunsCrashedRule
  <2>5. TypeOK'
    BY <1>1, <2>3, <2>4 DEF TypeOK
  <2>6. QED
    BY <1>1, <1>2, <2>1, <2>4, <2>5
<1>5. CASE SaveTruncates
  <2>1. /\ writer' \in Accounts({"idle", "audited", "saving"})
        /\ UNCHANGED <<writer.fingerprints, writer.tally>>
    BY <1>3, <1>5 DEF SaveTruncates, Accounts
  <2>2. UNCHANGED ledger /\ file' = Torn
    BY <1>5 DEF SaveTruncates
  <2>3. TypeOK'
    BY <1>1, <2>1, <2>2 DEF TypeOK, Torn
  <2>4. QED
    BY <1>1, <1>2, <2>1, <2>2, <2>3 DEF Torn
<1>6. CASE SaveWrites
  <2>1. /\ writer' \in Accounts({"idle", "audited", "saving"})
        /\ UNCHANGED <<writer.fingerprints, writer.tally>>
    BY <1>3, <1>6 DEF SaveWrites, Accounts
  <2>2. file' = Whole(writer.fingerprints) /\ ledger' = writer.tally
    BY <1>6 DEF SaveWrites
  <2>3. /\ file' \in [state : {"absent", "torn", "whole"}, fingerprints : SUBSET (Snippets \X Nat)]
        /\ ledger' \in [Snippets -> Nat]
    BY <1>3, <2>2 DEF Whole, Accounts
  <2>4. TypeOK'
    BY <1>1, <2>1, <2>3 DEF TypeOK
  <2>5. QED
    BY <1>1, <1>2, <2>1, <2>2, <2>4 DEF Whole
<1>7. CASE WriterDies
  <2>1. /\ writer' \in Accounts({"idle", "audited", "saving"})
        /\ UNCHANGED <<writer.fingerprints, writer.tally>>
    BY <1>3, <1>7 DEF WriterDies, Accounts
  <2>2. UNCHANGED <<file, ledger>>
    BY <1>7 DEF WriterDies
  <2>3. TypeOK'
    BY <1>1, <2>1, <2>2 DEF TypeOK
  <2>4. QED
    BY <1>1, <1>2, <2>1, <2>2, <2>3
<1>8. QED
  BY <1>4, <1>5, <1>6, <1>7

(* An audit's report is exact when it is made, and keeps what it was exact of. *)
LEMMA AuditingIsSound ==
  ASSUME IInv,
         AuditLoads \/ AuditRefuses \/ AuditReports \/ AuditReportsCrashedRule \/ AuditIncomplete
  PROVE  IInv'
<1> USE DEF IInv
<1> DEFINE Results == [exit : {OK, FINDINGS, ERROR}, reported : SUBSET Problem,
                       hidden : SUBSET Problem, ledger : [Snippets -> Nat]]
<1>1. UNCHANGED <<document, ignored, edits, file, writer, ledger>>
  BY DEF AuditLoads, AuditRefuses, AuditReports, AuditReportsCrashedRule, AuditIncomplete
<1>2. DocumentOK'
  BY <1>1 DEF DocumentOK
<1>3. /\ auditor \in Accounts({"idle", "loaded"}) /\ ledger \in [Snippets -> Nat]
      /\ file \in [state : {"absent", "torn", "whole"}, fingerprints : SUBSET (Snippets \X Nat)]
      /\ result \in Results
  BY DEF TypeOK
<1>4. /\ auditor' \in Accounts({"idle", "loaded"})
      /\ Describes(auditor'.fingerprints, auditor'.tally)
  <2>1. CASE AuditLoads
    BY <1>3, <2>1 DEF AuditLoads, Usable, Accounts
  <2>2. CASE AuditRefuses
    BY <1>3, <2>2 DEF AuditRefuses
  <2>3. CASE AuditReports \/ AuditReportsCrashedRule \/ AuditIncomplete
    <3>1. auditor' = [auditor EXCEPT !.at = "idle"]
      BY <2>3 DEF AuditReports, AuditReportsCrashedRule, AuditIncomplete
    <3>2. QED
      BY <1>3, <3>1 DEF Accounts
  <2>4. QED
    BY <2>1, <2>2, <2>3
<1>5. result' \in Results /\ ReportsTheExcess'
  <2>1. CASE UNCHANGED result
    BY <1>3, <2>1 DEF ReportsTheExcess, Tally
  <2>2. CASE AuditRefuses \/ AuditIncomplete
    <3>1. result' = [exit |-> ERROR, reported |-> {}, hidden |-> {}, ledger |-> None]
      BY <2>2 DEF AuditRefuses, AuditIncomplete
    <3>2. QED
      BY <3>1, NothingIsDescribed DEF ReportsTheExcess
  <2>3. CASE AuditReports
    <3> DEFINE new == {p \in Kept : Fingerprint(p) \notin auditor.fingerprints}
    <3>1. result' = [exit |-> ExitFor(new), reported |-> new, hidden |-> Kept \ new,
                     ledger |-> auditor.tally]
      BY <2>3 DEF AuditReports, Accepted
    <3>2. Kept \in SUBSET Problem
      BY DEF Kept, Present, DocumentOK
    <3>3. result' \in Results
      BY <1>3, <3>1, <3>2 DEF ExitFor, Accounts
    <3>4. new \cup (Kept \ new) = Kept
      OBVIOUS
    <3>5. \A s \in Snippets : Tally(new)[s] = Excess(Tally(Kept)[s], auditor.tally[s])
      BY TheRestIsNew
    <3>6. QED
      <4> HIDE DEF new
      <4>1. /\ result'.reported = new
            /\ result'.reported \cup result'.hidden = Kept
            /\ result'.ledger = auditor.tally
        BY <3>1, <3>4
      <4>2. \A s \in Snippets :
              Tally(result'.reported)[s]
                = Excess(Tally(result'.reported \cup result'.hidden)[s], result'.ledger[s])
        BY <3>5, <4>1
      <4>3. QED
        BY <3>3, <4>2 DEF ReportsTheExcess, Tally
  <2>4. CASE AuditReportsCrashedRule
    <3>1. result' = [exit |-> ExitFor({}), reported |-> {}, hidden |-> {}, ledger |-> auditor.tally]
      BY <2>4 DEF AuditReportsCrashedRule
    <3>2. \A s \in Snippets : Tally({})[s] = 0 /\ auditor.tally[s] \in Nat
      BY <1>3, FS_EmptySet DEF Tally, Accounts
    <3>3. QED
      BY <1>3, <3>1, <3>2 DEF ReportsTheExcess, Tally, Excess, ExitFor, Accounts
  <2>5. QED
    BY <2>1, <2>2, <2>3, <2>4 DEF AuditLoads
<1>6. TypeOK'
  BY <1>1, <1>4, <1>5 DEF TypeOK
<1>7. QED
  BY <1>1, <1>2, <1>4, <1>5, <1>6

LEMMA StutteringIsSound ==
  ASSUME IInv, UNCHANGED vars
  PROVE  IInv'
BY DEF IInv, vars, TypeOK, DocumentOK, ReportsTheExcess, Tally, Describes

LEMMA IInvHolds == Spec => []IInv
<1>1. IInv /\ [Next]_vars => IInv'
  BY EditIsSound, WritingIsSound, AuditingIsSound, StutteringIsSound DEF Next
<1>2. QED
  BY <1>1, InitIsSound, PTL DEF Spec

-----------------------------------------------------------------------------
(* Every variable keeps its type, however often the file is edited, the  *)
(* baseline rewritten and either process stopped.                        *)
THEOREM TypeCorrect == Spec => []TypeOK
<1>1. IInv => TypeOK
  BY DEF IInv
<1>2. QED
  BY <1>1, IInvHolds, PTL

(* Of each snippet an audit reports exactly what goes beyond the baseline it *)
(* loaded (baseline.filter over fp.assign), whatever the file, the problems  *)
(* and the snippets, and whatever was edited in between.                     *)
THEOREM ReportsExactlyTheExcess == Spec => []ReportsTheExcess
<1>1. IInv => ReportsTheExcess
  BY DEF IInv
<1>2. QED
  BY <1>1, IInvHolds, PTL

(* No audit starts from a baseline that is missing or half written. *)
THEOREM TornFilesAreRefused == Spec => NoAuditOnATornFile
<1>1. [Next]_vars => [auditor'.at = "loaded" /\ auditor.at = "idle" =>
                        file.state = "whole" /\ auditor'.fingerprints = file.fingerprints]_vars
  BY DEF Next, vars, Edit, WriterRuns, WriterRunsCrashedRule, SaveTruncates, SaveWrites, WriterDies,
         AuditLoads, AuditRefuses, AuditReports, AuditReportsCrashedRule, AuditIncomplete, Usable
<1>2. QED
  BY <1>1, PTL DEF Spec, NoAuditOnATornFile

=============================================================================
