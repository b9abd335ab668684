--------------------------- MODULE TargetRunProofs ---------------------------
(***************************************************************************)
(* Proofs about TargetRun, for any tree of processes, any output and any   *)
(* limit.  Most of the invariant says what a step of the target can no     *)
(* longer change: a group that was killed, and an outcome once its pipe    *)
(* has no writer.                                                          *)
(***************************************************************************)
EXTENDS TargetRun, SequenceTheorems, TLAPS

Line == Message \cup {"noise", "footer"}

(* Before the kill the leader is where it was put, and nothing is marked killed. *)
Untouched ==
  /\ posix /\ at \in {"reading", "expired"} => group[Leader] = "target"
  /\ at \in {"start", "reading", "expired"} => killed = {} /\ code # KILLED
  /\ at # "returned" => outcome = NoOutcome

(* The summary is printed after every message. *)
FooterLast ==
  \A i, j \in DOMAIN written : written[i] = "footer" /\ written[j] \in Message => j < i

(* What was captured is the beginning of an output nobody can add to, or nothing. *)
Sealed ==
  at = "returned" =>
    \/ outcome.kept = <<>> /\ outcome.code = Running
    \/ /\ holding = {} /\ state[Leader] = "dead"
       /\ outcome.kept = FirstOf(written) /\ outcome.truncated = Cut(written)
       /\ outcome.code # Running => killed = {} /\ code = outcome.code

Inv == TypeOK /\ Untouched /\ SparesItself /\ NobodyOutlivesTheTimeout /\ FooterLast /\ Sealed

-----------------------------------------------------------------------------
(* _truncate keeps a beginning, all of it unless it says so. *)
LEMMA FirstOfIsABeginning ==
  ASSUME NEW lines \in Seq(Line)
  PROVE  /\ FirstOf(lines) \in Seq(Line)
         /\ Cut(lines) \in BOOLEAN
         /\ ~Cut(lines) => FirstOf(lines) = lines
         /\ DOMAIN FirstOf(lines) \subseteq DOMAIN lines
         /\ \A i \in DOMAIN FirstOf(lines) :
              /\ FirstOf(lines)[i] = lines[i]
              /\ \A j \in DOMAIN lines : j < i => j \in DOMAIN FirstOf(lines)
<1> DEFINE kept == FirstOf(lines)
           n == IF Cut(lines) THEN OutputLimit ELSE Len(lines)
<1>1. Len(lines) \in Nat /\ DOMAIN lines = 1..Len(lines) /\ OutputLimit \in Nat
  BY LenProperties, TargetAssumption
<1>2. n \in Nat /\ n <= Len(lines) /\ Cut(lines) \in BOOLEAN
  BY <1>1 DEF Cut
<1>3. kept \in Seq(Line) /\ Len(kept) = n /\ \A i \in 1..n : kept[i] = lines[i]
  <2>1. CASE Cut(lines)
    <3>1. kept = SubSeq(lines, 1, OutputLimit) /\ n = OutputLimit
      BY <1>1, <2>1 DEF FirstOf, Cut
    <3>2. OutputLimit <= Len(lines)
      BY <1>1, <2>1 DEF Cut
    <3>3. QED
      BY <1>1, <3>1, <3>2
  <2>2. CASE ~Cut(lines)
    <3>1. Len(lines) <= OutputLimit /\ n = Len(lines)
      BY <1>1, <2>2 DEF Cut
    <3>2. kept = lines
      BY <3>1 DEF FirstOf
    <3>3. QED
      BY <3>1, <3>2
  <2>3. QED
    BY <2>1, <2>2
<1>4. DOMAIN kept = 1..n
  BY <1>3, LenProperties
<1>5. ASSUME ~Cut(lines) PROVE kept = lines
  <2>1. Len(lines) <= OutputLimit
    BY <1>1, <1>5 DEF Cut
  <2>2. FirstOf(lines) = lines
    BY <2>1 DEF FirstOf
  <2>3. QED
    BY <2>2
<1> HIDE DEF kept, n
<1>6. DOMAIN kept \subseteq DOMAIN lines
  BY <1>1, <1>2, <1>4
<1>7. ASSUME NEW i \in DOMAIN kept
      PROVE  kept[i] = lines[i] /\ \A j \in DOMAIN lines : j < i => j \in DOMAIN kept
  BY <1>1, <1>2, <1>3, <1>4
<1> QED
  BY <1>2, <1>3, <1>5, <1>6, <1>7 DEF kept

(* What is printed next keeps the summary last. *)
LEMMA PrintingKeepsTheFooterLast ==
  ASSUME written \in Seq(Line), FooterLast, Prints
  PROVE  written' \in Seq(Line) /\ FooterLast'
<1>1. Len(written) \in Nat /\ DOMAIN written = 1..Len(written)
  BY LenProperties
<1>2. PICK line \in Line :
        /\ written' = Append(written, line)
        /\ line = "noise" \/ \A i \in DOMAIN written : written[i] # "footer"
  BY DEF Prints, Writes, Line
<1>3. /\ written' \in Seq(Line) /\ Len(written') = Len(written) + 1
      /\ \A i \in 1..Len(written) : written'[i] = written[i]
      /\ written'[Len(written) + 1] = line
  <2> DEFINE longer == Append(written, line)
  <2>1. /\ longer \in Seq(Line) /\ Len(longer) = Len(written) + 1
        /\ \A i \in 1..Len(written) : longer[i] = written[i]
        /\ longer[Len(written) + 1] = line
    BY AppendProperties
  <2> HIDE DEF longer
  <2>2. written' = longer
    BY <1>2 DEF longer
  <2>3. QED
    BY <2>1, <2>2
<1>4. DOMAIN written' = 1..(Len(written) + 1)
  BY <1>3
<1>5. ASSUME NEW i \in DOMAIN written', NEW j \in DOMAIN written',
             written'[i] = "footer", written'[j] \in Message
      PROVE  j < i
  <2>1. CASE i = Len(written) + 1
    <3>1. written'[j] # written'[i]
      BY <1>5, TargetAssumption
    <3>2. QED
      BY <1>1, <1>4, <1>5, <2>1, <3>1
  <2>2. CASE i # Len(written) + 1
    <3>1. i \in DOMAIN written /\ written[i] = "footer"
      BY <1>1, <1>3, <1>4, <1>5, <2>2
    <3>2. line = "noise"
      BY <1>2, <3>1
    <3>3. j # Len(written) + 1
      BY <1>3, <1>5, <3>2, TargetAssumption
    <3>4. j \in DOMAIN written /\ written[j] \in Message
      BY <1>1, <1>3, <1>4, <1>5, <3>3
    <3>5. QED
      BY <3>1, <3>4 DEF FooterLast
  <2>3. QED
    BY <2>1, <2>2
<1>6. QED
  BY <1>3, <1>5 DEF FooterLast

(* A process that starts another, or leaves its group, brings nobody into the target's. *)
LEMMA TheGroupStaysEmpty ==
  ASSUME TypeOK, Target, \A p \in Alive : group[p] # "target"
  PROVE  \A p \in Alive' : group'[p] # "target"
<1>1. CASE \E p \in Process, c \in Child : Fork(p, c)
  BY <1>1 DEF Fork, Alive, TypeOK, Process
<1>2. CASE \E c \in Child : Leave(c)
  BY <1>2 DEF Leave, Alive, TypeOK, Process
<1>3. CASE \E p \in Process : Close(p)
  BY <1>3 DEF Close, Alive
<1>4. CASE \E p \in Process : Exit(p)
  BY <1>4 DEF Exit, Alive, TypeOK
<1>5. CASE Prints
  BY <1>5 DEF Prints, Writes, Alive
<1>6. QED
  BY <1>1, <1>2, <1>3, <1>4, <1>5 DEF Target

(* Once the pipe has no writer and the leader is dead, neither changes again. *)
LEMMA TheEndIsTheEnd ==
  ASSUME TypeOK, Target, Ended
  PROVE  Ended' /\ UNCHANGED <<written, code>>
<1>1. CASE \E p \in Process, c \in Child : Fork(p, c)
  <2>1. PICK p \in Process, c \in Child : Fork(p, c)
    BY <1>1
  <2>2. c # Leader
    BY TargetAssumption
  <2>3. QED
    BY <2>1, <2>2 DEF Fork, Ended, TypeOK
<1>2. CASE \E c \in Child : Leave(c)
  BY <1>2 DEF Leave, Ended
<1>3. CASE \E p \in Process : Close(p)
  BY <1>3 DEF Close, Ended
<1>4. CASE \E p \in Process : Exit(p)
  <2>1. PICK p \in Process : Exit(p)
    BY <1>4
  <2>2. p # Leader
    BY <2>1 DEF Exit, Ended, Alive
  <2>3. QED
    BY <2>1, <2>2 DEF Exit, Ended, TypeOK
<1>5. CASE Prints
  BY <1>5 DEF Prints, Writes, Ended
<1>6. QED
  BY <1>1, <1>2, <1>3, <1>4, <1>5 DEF Target

-----------------------------------------------------------------------------
(* The target, between any two steps of djaudit. *)

LEMMA TargetKeepsTypes ==
  ASSUME TypeOK, FooterLast, Target
  PROVE  TypeOK' /\ FooterLast' /\ UNCHANGED <<at, posix, killed, outcome>>
<1>1. CASE \E p \in Process, c \in Child : Fork(p, c)
  BY <1>1 DEF Fork, Alive, TypeOK, Process, FooterLast
<1>2. CASE \E c \in Child : Leave(c)
  BY <1>2 DEF Leave, Alive, TypeOK, FooterLast
<1>3. CASE \E p \in Process : Close(p)
  BY <1>3 DEF Close, Alive, TypeOK, FooterLast
<1>4. CASE \E p \in Process : Exit(p)
  BY <1>4 DEF Exit, Alive, TypeOK, FooterLast
<1>5. CASE Prints
  <2>1. written \in Seq(Line)
    BY DEF TypeOK, Line
  <2>2. written' \in Seq(Line) /\ FooterLast'
    BY <1>5, <2>1, PrintingKeepsTheFooterLast
  <2>3. UNCHANGED <<at, posix, state, group, holding, code, killed, outcome>>
    BY <1>5 DEF Prints, Writes
  <2>4. QED
    BY <2>2, <2>3 DEF TypeOK, Alive, Line
<1>6. QED
  BY <1>1, <1>2, <1>3, <1>4, <1>5 DEF Target

(* The leader neither leaves its group nor is killed by its own. *)
LEMMA TargetLeavesTheLeader ==
  ASSUME TypeOK, Target
  PROVE  group'[Leader] = group[Leader] /\ (code # KILLED => code' # KILLED)
<1>1. CASE \E p \in Process, c \in Child : Fork(p, c)
  BY <1>1, TargetAssumption DEF Fork, TypeOK, Process
<1>2. CASE \E c \in Child : Leave(c)
  BY <1>2, TargetAssumption DEF Leave, TypeOK, Process
<1>3. CASE \E p \in Process : Close(p)
  BY <1>3 DEF Close
<1>4. CASE \E p \in Process : Exit(p)
  BY <1>4 DEF Exit, KILLED
<1>5. CASE Prints
  BY <1>5 DEF Prints, Writes
<1>6. QED
  BY <1>1, <1>2, <1>3, <1>4, <1>5 DEF Target

LEMMA TargetKeepsInv ==
  ASSUME Inv, Target
  PROVE  Inv'
<1>1. TypeOK' /\ FooterLast' /\ UNCHANGED <<at, posix, killed, outcome>>
  BY TargetKeepsTypes DEF Inv
<1>2. Untouched'
  BY <1>1, TargetLeavesTheLeader DEF Inv, Untouched
<1>3. SparesItself'
  BY <1>1 DEF Inv, SparesItself
<1>4. NobodyOutlivesTheTimeout'
  BY <1>1, TheGroupStaysEmpty DEF Inv, NobodyOutlivesTheTimeout
<1>5. Sealed'
  <2>1. CASE at # "returned" \/ (outcome.kept = <<>> /\ outcome.code = Running)
    BY <1>1, <2>1 DEF Sealed
  <2>2. CASE at = "returned" /\ ~(outcome.kept = <<>> /\ outcome.code = Running)
    <3>1. Ended
      BY <2>2 DEF Inv, Sealed, Ended
    <3>2. Ended' /\ UNCHANGED <<written, code>>
      BY <3>1, TheEndIsTheEnd DEF Inv
    <3>3. QED
      BY <1>1, <2>2, <3>2 DEF Inv, Sealed, Ended
  <2>3. QED
    BY <2>1, <2>2
<1>6. QED
  BY <1>1, <1>2, <1>3, <1>4, <1>5 DEF Inv

-----------------------------------------------------------------------------
(* djaudit's own steps. *)

LEMMA InitInv == Init => Inv
<1>1. <<>> \in Seq(Line) /\ DOMAIN <<>> = {}
  OBVIOUS
<1>2. Init => TypeOK
  BY <1>1 DEF Init, TypeOK, Alive, NoOutcome, Running, Line
<1>3. Init => FooterLast
  BY <1>1 DEF Init, FooterLast
<1>4. QED
  BY <1>2, <1>3 DEF Init, Inv, Untouched, SparesItself, NobodyOutlivesTheTimeout, Sealed, Running, KILLED

(* Whoever is captured late, or as it ended, is captured in the types of Outcome. *)
LEMMA CapturedIsTyped ==
  ASSUME TypeOK, NEW lines \in Seq(Line), NEW exit \in {Running, 0, 1}, NEW late \in BOOLEAN
  PROVE  Captured(lines, exit, late) \in
           [started : BOOLEAN, code : {Running, 0, 1}, truncated : BOOLEAN, late : BOOLEAN,
            kept : Seq(Message \cup {"noise", "footer"})]
BY FirstOfIsABeginning DEF Captured, Line

LEMMA StartKeepsInv ==
  ASSUME Inv, CannotStart \/ Start
  PROVE  Inv'
<1> USE DEF Inv
<1>1. CASE CannotStart
  <2>1. UNCHANGED <<posix, state, group, holding, written, code, killed, outcome>>
        /\ at = "start" /\ at' = "returned"
    BY <1>1 DEF CannotStart, target
  <2>2. TypeOK' /\ FooterLast'
    BY <2>1 DEF TypeOK, Alive, FooterLast
  <2>3. QED
    BY <2>1, <2>2 DEF Untouched, NoOutcome, SparesItself, NobodyOutlivesTheTimeout, Sealed
<1>2. CASE Start
  <2>1. TypeOK' /\ FooterLast'
    BY <1>2 DEF Start, TypeOK, Alive, FooterLast, Process
  <2>2. group'[Leader] = IF posix THEN "target" ELSE "djaudit"
    BY <1>2 DEF Start, TypeOK, Process
  <2>3. QED
    BY <1>2, <2>1, <2>2 DEF Start, Untouched, SparesItself, NobodyOutlivesTheTimeout, Sealed
<1>3. QED
  BY <1>1, <1>2

LEMMA CommunicateKeepsInv ==
  ASSUME Inv, Communicate
  PROVE  Inv'
<1> USE DEF Inv
<1>1. /\ at = "reading" /\ at' = "returned" /\ Ended
      /\ outcome' = Captured(written, code, FALSE)
      /\ UNCHANGED <<posix, state, group, holding, written, code, killed>>
  BY DEF Communicate, Return, target
<1>2. killed = {} /\ code \in {Running, 0, 1}
  BY <1>1 DEF Untouched, TypeOK
<1>3. TypeOK' /\ FooterLast'
  <2>1. written \in Seq(Line)
    BY DEF TypeOK, Line
  <2>2. QED
    BY <1>1, <1>2, <2>1, CapturedIsTyped DEF TypeOK, Alive, FooterLast
<1>4. Sealed'
  BY <1>1, <1>2 DEF Sealed, Captured, Ended
<1>5. QED
  BY <1>1, <1>3, <1>4 DEF Untouched, SparesItself, NobodyOutlivesTheTimeout, Captured

LEMMA ExpireKeepsInv ==
  ASSUME Inv, Expire
  PROVE  Inv'
<1>1. TypeOK' /\ FooterLast'
  BY DEF Inv, Expire, target, TypeOK, Alive, FooterLast
<1>2. QED
  BY <1>1 DEF Inv, Expire, target, Untouched, SparesItself, NobodyOutlivesTheTimeout, Sealed

LEMMA TerminateKeepsInv ==
  ASSUME Inv, Terminate
  PROVE  Inv'
<1> USE DEF Inv
<1>1. Victims \subseteq Alive /\ Alive \subseteq Process
  BY DEF Victims, Alive
<1>2. killed' = Victims
  BY DEF Terminate, InItsOwnGroup
<1>3. TypeOK' /\ FooterLast'
  BY <1>1, <1>2 DEF Terminate, TypeOK, Alive, FooterLast
<1>4. SparesItself'
  BY <1>1, <1>2, TargetAssumption DEF SparesItself
<1>5. NobodyOutlivesTheTimeout'
  <2>1. SUFFICES ASSUME posix, NEW p \in Alive' PROVE group[p] # "target"
    BY DEF Terminate, NobodyOutlivesTheTimeout
  <2>2. group[Leader] = "target"
    BY <2>1 DEF Terminate, Untouched
  <2>3. p \in Alive /\ p \notin Victims
    BY <2>1 DEF Terminate, Alive
  <2>4. QED
    BY <2>1, <2>2, <2>3 DEF Victims, InItsOwnGroup
<1>6. QED
  BY <1>3, <1>4, <1>5 DEF Terminate, Untouched, Sealed

LEMMA DrainKeepsInv ==
  ASSUME Inv, Drain \/ DrainExpire
  PROVE  Inv'
<1> USE DEF Inv
<1> DEFINE lines == IF Ended THEN written ELSE <<>>
<1>1. /\ at = "draining" /\ at' = "returned"
      /\ outcome' = Captured(lines, Running, TRUE)
      /\ UNCHANGED <<posix, state, group, holding, written, code, killed>>
  BY DEF Drain, DrainExpire, GivingUp, Return, target
<1>2. lines \in Seq(Line)
  BY DEF TypeOK, Line
<1>3. TypeOK' /\ FooterLast'
  <2> HIDE DEF lines
  <2>1. Captured(lines, Running, TRUE) \in
           [started : BOOLEAN, code : {Running, 0, 1}, truncated : BOOLEAN, late : BOOLEAN,
            kept : Seq(Message \cup {"noise", "footer"})]
    BY <1>2, CapturedIsTyped
  <2>2. QED
    BY <1>1, <2>1 DEF TypeOK, Alive, FooterLast
<1>4. Sealed'
  <2>1. CASE Ended
    BY <1>1, <2>1 DEF Sealed, Captured, Ended
  <2>2. CASE ~Ended
    <3>1. FirstOf(<<>>) = <<>>
      BY TargetAssumption DEF FirstOf
    <3>2. QED
      BY <1>1, <2>2, <3>1 DEF Sealed, Captured
  <2>3. QED
    BY <2>1, <2>2
<1>5. NobodyOutlivesTheTimeout'
  BY <1>1 DEF NobodyOutlivesTheTimeout, Alive
<1>6. QED
  BY <1>1, <1>3, <1>4, <1>5 DEF Untouched, SparesItself

LEMMA StepKeepsInv ==
  ASSUME Inv, [Next]_vars
  PROVE  Inv'
<1>1. CASE UNCHANGED vars
  BY <1>1 DEF vars, target, Inv, TypeOK, Alive, Untouched, SparesItself, NobodyOutlivesTheTimeout,
              FooterLast, Sealed
<1>2. CASE Target
  BY <1>2, TargetKeepsInv
<1>3. CASE Runner
  BY <1>3, StartKeepsInv, CommunicateKeepsInv, ExpireKeepsInv, TerminateKeepsInv, DrainKeepsInv
     DEF Runner
<1>4. QED
  BY <1>1, <1>2, <1>3 DEF Next

-----------------------------------------------------------------------------
LEMMA InvHolds == Spec => []Inv
<1>1. Inv /\ [Next]_vars => Inv'
  BY StepKeepsInv
<1>2. QED
  BY InitInv, <1>1, PTL DEF Spec

(* Every variable keeps its type, and only the living hold the pipe (run_command). *)
THEOREM TypeCorrect == Spec => []TypeOK
<1>1. Inv => TypeOK
  BY DEF Inv
<1>2. QED
  BY <1>1, InvHolds, PTL

(* djaudit never signals the group it is in itself (_in_its_own_group). *)
THEOREM NeverItsOwnGroup == Spec => []SparesItself
<1>1. Inv => SparesItself
  BY DEF Inv
<1>2. QED
  BY <1>1, InvHolds, PTL

(* After the timeout nothing runs in the command's group, nor ever will (_terminate). *)
THEOREM TheGroupIsGone == Spec => []NobodyOutlivesTheTimeout
<1>1. Inv => NobodyOutlivesTheTimeout
  BY DEF Inv
<1>2. QED
  BY <1>1, InvHolds, PTL

(* A command reported to have exited did, with that code, and its output is there or is *)
(* said to be cut (Outcome.ok).                                                         *)
THEOREM ExitsAreReal == Spec => []AnExitIsAnExit
<1>1. Inv => AnExitIsAnExit
  <2>1. SUFFICES ASSUME Inv, at = "returned", outcome.code # Running
                 PROVE  /\ code = outcome.code /\ killed = {}
                        /\ outcome.kept = written \/ outcome.truncated
    BY DEF AnExitIsAnExit
  <2>2. written \in Seq(Line)
    BY <2>1 DEF Inv, TypeOK, Line
  <2>3. Cut(written) \/ FirstOf(written) = written
    BY <2>2, FirstOfIsABeginning
  <2>4. QED
    BY <2>1, <2>3 DEF Inv, Sealed
<1>2. QED
  BY <1>1, InvHolds, PTL

(* A report that has its summary has every message: what it does not mention passed *)
(* (checks.parse_report).                                                           *)
THEOREM ReportsAreWhole == Spec => []AReportIsWhole
<1>1. Inv => AReportIsWhole
  <2>1. SUFFICES ASSUME Inv, at = "returned", Reported
                 PROVE  Messages(written) \subseteq Messages(outcome.kept)
    BY DEF AReportIsWhole
  <2>2. PICK i \in DOMAIN outcome.kept : outcome.kept[i] = "footer"
    BY <2>1 DEF Reported
  <2>3. outcome.kept # <<>>
    BY <2>2
  <2>4. written \in Seq(Line) /\ outcome.kept = FirstOf(written)
    BY <2>1, <2>3 DEF Inv, TypeOK, Line, Sealed
  <2>5. i \in DOMAIN written /\ written[i] = "footer"
    BY <2>2, <2>4, FirstOfIsABeginning
  <2>6. ASSUME NEW j \in DOMAIN written, written[j] \in Message
        PROVE  written[j] \in Messages(outcome.kept)
    <3>1. j < i
      BY <2>1, <2>5, <2>6 DEF Inv, FooterLast
    <3>2. j \in DOMAIN outcome.kept /\ outcome.kept[j] = written[j]
      BY <2>2, <2>4, <3>1, FirstOfIsABeginning
    <3>3. QED
      BY <2>6, <3>2 DEF Messages
  <2>7. QED
    BY <2>6 DEF Messages
<1>2. QED
  BY <1>1, InvHolds, PTL

=============================================================================
