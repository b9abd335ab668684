-------------------------- MODULE ModelCallsProofs --------------------------
(* Theorems about ModelCalls for any number of runs, findings, budgets and  *)
(* prices: the types, the ceiling each run keeps, and where answers come    *)
(* from.                                                                    *)
EXTENDS ModelCalls, SequenceTheorems, FiniteSetTheorems, TLAPS

(* A finding in hand is one of the worklist. *)
InHand(r) == at[r] \in {"asking", "posting", "storing", "renaming"}

Midway == \A r \in Run : InHand(r) => place[r] < Len(Worklist[r])

LEMMA CurrentIsAFinding ==
  ASSUME NEW r \in Run, place[r] \in Nat, place[r] < Len(Worklist[r])
  PROVE  /\ Current(r) \in Finding
         /\ Estimate[Current(r)] \in MinPrompt..MaxReply
         /\ Key(r) \in Keys
<1>1. Worklist[r] \in Seq(Finding)
  BY CallAssumption
<1>2. place[r] + 1 \in 1..Len(Worklist[r])
  BY <1>1
<1>3. Current(r) \in Finding
  BY <1>1, <1>2, ElementOfSeq DEF Current
<1>4. Estimate[Current(r)] \in MinPrompt..MaxReply
  BY <1>3, CallAssumption
<1>5. Key(r) \in Keys
  BY <1>3 DEF Key, Keys
<1>6. QED
  BY <1>3, <1>4, <1>5

(* What a judgement does to the variables it touches. *)
LEMMA JudgeTypes ==
  ASSUME TypeOK, Midway, NEW r \in Run, NEW source, NEW ans,
         place[r] < Len(Worklist[r]), Judge(r, source, ans)
  PROVE  /\ at' \in [Run -> {"next", "asking", "posting", "storing", "renaming", "done", "dead"}]
         /\ place' \in [Run -> Nat] /\ \A x \in Run : place'[x] <= Len(Worklist[x])
         /\ Midway'
<1>1. \A x \in Run : Len(Worklist[x]) \in Nat
  BY CallAssumption
<1>2. at' = [at EXCEPT ![r] = "next"] /\ place' = [place EXCEPT ![r] = @ + 1]
  BY DEF Judge
<1>3. at' \in [Run -> {"next", "asking", "posting", "storing", "renaming", "done", "dead"}]
  BY <1>2 DEF TypeOK
<1>0. place \in [Run -> Nat] /\ \A x \in Run : place[x] <= Len(Worklist[x])
  BY DEF TypeOK
<1>4. place' \in [Run -> Nat] /\ \A x \in Run : place'[x] <= Len(Worklist[x])
  <2>1. place' \in [Run -> Nat]
    BY <1>0, <1>2
  <2>2. ASSUME NEW x \in Run PROVE place'[x] <= Len(Worklist[x])
    <3>1. CASE x = r
      BY <1>0, <1>1, <1>2, <3>1
    <3>2. CASE x # r
      BY <1>0, <1>2, <3>2
    <3>3. QED
      BY <3>1, <3>2
  <2>3. QED
    BY <2>1, <2>2
<1>5. Midway'
  BY <1>1, <1>2 DEF TypeOK, Midway, InHand
<1>6. QED
  BY <1>3, <1>4, <1>5

(* Every step of every run keeps the types. *)
LEMMA TypesKept ==
  ASSUME TypeOK, Midway, [Next]_vars
  PROVE  (TypeOK /\ Midway)'
<1> USE CallAssumption
<1>1. ASSUME NEW r \in Run, SkipSettled(r) PROVE (TypeOK /\ Midway)'
  BY <1>1, JudgeTypes DEF SkipSettled, TypeOK, budget, ghosts
<1>2. ASSUME NEW r \in Run, AskAbout(r) PROVE (TypeOK /\ Midway)'
  BY <1>2 DEF AskAbout, TypeOK, Midway, InHand, budget, ghosts
<1>3. ASSUME NEW r \in Run, Finish(r) PROVE (TypeOK /\ Midway)'
  BY <1>3 DEF Finish, TypeOK, Midway, InHand, budget, ghosts
<1>4. ASSUME NEW r \in Run, Hit(r) PROVE (TypeOK /\ Midway)'
  BY <1>4, JudgeTypes DEF Hit, TypeOK, Midway, InHand, budget, ghosts
<1>5. ASSUME NEW r \in Run, Decline(r), InHand(r),
             UNCHANGED <<answer, spentTokens, spentCalls, stopped, entry, temporary, started>>,
             attempt' \in [Run -> 0..MAX_ATTEMPTS], responses' \in [Run -> Nat]
      PROVE (TypeOK /\ Midway)'
  <2>1. /\ at' \in [Run -> {"next", "asking", "posting", "storing", "renaming", "done", "dead"}]
        /\ place' \in [Run -> Nat] /\ \A x \in Run : place'[x] <= Len(Worklist[x])
        /\ Midway'
    BY <1>5, JudgeTypes DEF Decline, Midway, InHand
  <2>2. declinedCalls' \in [Run -> Nat]
    BY <1>5 DEF Decline, TypeOK
  <2>3. QED
    BY <1>5, <2>1, <2>2 DEF TypeOK
<1>6. ASSUME NEW r \in Run, Refuse(r) PROVE (TypeOK /\ Midway)'
  <2>1. Decline(r) /\ InHand(r) /\ attempt' \in [Run -> 0..MAX_ATTEMPTS]
        /\ responses' \in [Run -> Nat]
    BY <1>6 DEF Refuse, InHand, TypeOK, ghosts
  <2>2. UNCHANGED <<answer, spentTokens, spentCalls, stopped, entry, temporary, started>>
    BY <1>6 DEF Refuse, ghosts
  <2>3. QED
    BY <1>5, <2>1, <2>2
<1>7. ASSUME NEW r \in Run, Start(r) PROVE (TypeOK /\ Midway)'
  BY <1>7 DEF Start, TypeOK, Midway, InHand, budget, MAX_ATTEMPTS
<1>8. ASSUME NEW r \in Run, Answered(r) PROVE (TypeOK /\ Midway)'
  <2>0. Estimate[Current(r)] \in MinPrompt..MaxReply
    BY <1>8, CurrentIsAFinding DEF Answered, TypeOK, Midway, InHand
  <2>1. \A usage \in Usages : Cost(r, usage) \in Nat
    BY <2>0 DEF Cost
  <2>2. spentTokens' \in [Run -> Nat]
    BY <1>8, <2>1 DEF Answered, TypeOK
  <2>3. answer' \in [Run -> Answers \cup {Missing}]
    BY <1>8 DEF Answered, TypeOK, Answers
  <2>4. QED
    BY <1>8, <2>2, <2>3 DEF Answered, TypeOK, Midway, InHand
<1>9. ASSUME NEW r \in Run, Retry(r) PROVE (TypeOK /\ Midway)'
  <2>1. attempt' \in [Run -> 0..MAX_ATTEMPTS]
    <3>1. NextAttempt(r) \in 0..MAX_ATTEMPTS
      <4>1. attempt[r] \in 0..MAX_ATTEMPTS
        BY DEF TypeOK
      <4>2. attempt[r] < MAX_ATTEMPTS
        BY <1>9 DEF Retry, MayRetry
      <4>3. QED
        BY <4>1, <4>2 DEF NextAttempt, MAX_ATTEMPTS
    <3>2. QED
      BY <1>9, <3>1 DEF Retry, TypeOK
  <2>2. UNCHANGED <<at, place, answer, judged, entry, temporary, spentTokens, spentCalls,
                   declinedCalls, stopped, started, responses>>
    BY <1>9 DEF Retry, budget, ghosts
  <2>3. QED
    BY <2>1, <2>2 DEF TypeOK, Midway, InHand
<1>10. ASSUME NEW r \in Run, GiveUp(r) PROVE (TypeOK /\ Midway)'
  <2>1. Decline(r) /\ InHand(r) /\ attempt' \in [Run -> 0..MAX_ATTEMPTS]
        /\ responses' \in [Run -> Nat]
    BY <1>10 DEF GiveUp, InHand, TypeOK, ghosts
  <2>2. UNCHANGED <<answer, spentTokens, spentCalls, stopped, entry, temporary, started>>
    BY <1>10 DEF GiveUp, ghosts
  <2>3. QED
    BY <1>5, <2>1, <2>2
<1>11. ASSUME NEW r \in Run, Misbehave(r) PROVE (TypeOK /\ Midway)'
  <2>1. Decline(r) /\ InHand(r) /\ attempt' \in [Run -> 0..MAX_ATTEMPTS]
        /\ responses' \in [Run -> Nat]
    BY <1>11 DEF Misbehave, AfterMisbehaviour, InHand, TypeOK
  <2>2. UNCHANGED <<answer, spentTokens, spentCalls, stopped, entry, temporary, started>>
    BY <1>11 DEF Misbehave
  <2>3. QED
    BY <1>5, <2>1, <2>2
<1>12. ASSUME NEW r \in Run, Write(r) PROVE (TypeOK /\ Midway)'
  BY <1>12 DEF Write, WritingAside, TypeOK, Midway, InHand, budget, ghosts
<1>13. ASSUME NEW r \in Run, Rename(r) PROVE (TypeOK /\ Midway)'
  BY <1>13, JudgeTypes DEF Rename, TypeOK, Midway, InHand, budget, ghosts
<1>14. ASSUME NEW r \in Run, PutFails(r) PROVE (TypeOK /\ Midway)'
  BY <1>14 DEF PutFails, TypeOK, Midway, InHand, budget, ghosts
<1>15. ASSUME NEW r \in Run, Die(r) PROVE (TypeOK /\ Midway)'
  BY <1>15 DEF Die, TypeOK, Midway, InHand, budget, ghosts
<1>16. ASSUME NEW r \in Run, GoOffline(r) PROVE (TypeOK /\ Midway)'
  BY <1>16 DEF GoOffline, TypeOK, Midway, InHand, ghosts
<1>17. ASSUME NEW k \in Keys, Forget(k) PROVE (TypeOK /\ Midway)'
  BY <1>17 DEF Forget, TypeOK, Midway, InHand, budget, ghosts
<1>18. CASE UNCHANGED vars
  BY <1>18 DEF vars, budget, ghosts, TypeOK, Midway, InHand
<1>19. QED
  BY <1>1, <1>2, <1>3, <1>4, <1>6, <1>7, <1>8, <1>9, <1>10, <1>11, <1>12, <1>13, <1>14,
     <1>15, <1>16, <1>17, <1>18 DEF Next, Work

(* Every reachable state is well typed (TypeOK). *)
THEOREM TypeCorrect == Spec => []TypeOK
<1>1. Init => TypeOK /\ Midway
  BY CallAssumption DEF Init, TypeOK, Midway, InHand, MAX_ATTEMPTS
<1>2. TypeOK /\ Midway /\ [Next]_vars => (TypeOK /\ Midway)'
  BY TypesKept
<1>3. QED
  BY <1>1, <1>2, PTL DEF Spec

-----------------------------------------------------------------------------
(* While a question is being posted its cost still fits: nothing is spent between *)
(* the check and the charge, for a budget belongs to one run.                     *)
Affordable ==
  \A r \in Run :
    at[r] = "posting" =>
      /\ MaxCalls[r] = 0 \/ spentCalls[r] < MaxCalls[r]
      /\ MaxTokens[r] = 0 \/ spentTokens[r] + MinPrompt <= MaxTokens[r]

LEMMA StillAffordable ==
  ASSUME TypeOK, Midway, Affordable, [Next]_vars
  PROVE  Affordable'
<1>1. ASSUME NEW r \in Run, Start(r) PROVE Affordable'
  <2>1. Estimate[Current(r)] \in MinPrompt..MaxReply
    BY <1>1, CurrentIsAFinding DEF Start, TypeOK, Midway, InHand
  <2>2. /\ MaxCalls[r] = 0 \/ spentCalls[r] < MaxCalls[r]
        /\ MaxTokens[r] = 0 \/ spentTokens[r] + MinPrompt <= MaxTokens[r]
    <3>1. spentTokens[r] \in Nat
      BY DEF TypeOK
    <3>2. /\ MaxCalls[r] = 0 \/ spentCalls[r] < MaxCalls[r]
          /\ MaxTokens[r] = 0 \/ spentTokens[r] + Estimate[Current(r)] <= MaxTokens[r]
      BY <1>1 DEF Start, CanAfford
    <3>3. MaxTokens[r] \in Nat /\ MinPrompt \in Nat
      BY CallAssumption
    <3>4. QED
      BY <2>1, <3>1, <3>2, <3>3
  <2>3. UNCHANGED <<spentTokens, spentCalls>> /\ \A x \in Run \ {r} : at'[x] = at[x]
    BY <1>1 DEF Start, budget, TypeOK
  <2>4. QED
    BY <2>2, <2>3 DEF Affordable
<1>2. ASSUME NEW r \in Run, Answered(r) PROVE Affordable'
  <2>1. at'[r] = "storing"
    BY <1>2 DEF Answered, TypeOK
  <2>2. \A x \in Run \ {r} : at'[x] = at[x] /\ spentTokens'[x] = spentTokens[x]
                            /\ spentCalls'[x] = spentCalls[x]
    BY <1>2 DEF Answered, TypeOK
  <2>3. QED
    BY <2>1, <2>2 DEF Affordable
<1>3. ASSUME UNCHANGED <<spentTokens, spentCalls>>,
             \A x \in Run : at'[x] = "posting" => at[x] = "posting"
      PROVE  Affordable'
  BY <1>3 DEF Affordable
<1>4. ASSUME NEW r \in Run,
             SkipSettled(r) \/ Hit(r) \/ Refuse(r) \/ GiveUp(r) \/ Misbehave(r) \/ Rename(r)
      PROVE  Affordable'
  BY <1>3, <1>4 DEF SkipSettled, Hit, Refuse, GiveUp, Misbehave, AfterMisbehaviour, Rename,
                    Decline, Judge, budget, TypeOK
<1>5. ASSUME NEW r \in Run,
             AskAbout(r) \/ Finish(r) \/ Retry(r) \/ Write(r) \/ PutFails(r) \/ Die(r) \/ GoOffline(r)
      PROVE  Affordable'
  BY <1>3, <1>5 DEF AskAbout, Finish, Retry, Write, PutFails, Die, GoOffline, budget, TypeOK
<1>6. ASSUME NEW k \in Keys, Forget(k) PROVE Affordable'
  BY <1>3, <1>6 DEF Forget, budget
<1>7. CASE UNCHANGED vars
  BY <1>3, <1>7 DEF vars, budget
<1>8. QED
  BY <1>1, <1>2, <1>4, <1>5, <1>6, <1>7 DEF Next, Work

(* The ledger of a run moves only in Answered, and then by a Spend of its ceiling. *)
LEMMA LedgerMoves ==
  ASSUME TypeOK, Midway, Affordable, [Next]_vars, NEW r \in Run
  PROVE  [Ceiling(r)!Spend]_<<spentTokens[r], spentCalls[r]>>
<1>1. ASSUME NEW x \in Run, Answered(x), x # r PROVE UNCHANGED <<spentTokens[r], spentCalls[r]>>
  BY <1>1 DEF Answered, TypeOK
<1>2. ASSUME Answered(r) PROVE Ceiling(r)!Spend
  <2>1. PICK usage \in Usages : spentTokens' = [spentTokens EXCEPT ![r] = @ + Cost(r, usage)]
    BY <1>2 DEF Answered
  <2>2. Estimate[Current(r)] \in MinPrompt..MaxReply
    BY <1>2, CurrentIsAFinding DEF Answered, TypeOK, Midway, InHand
  <2>3. Cost(r, usage) \in 1..MaxReply
    BY <2>2, CallAssumption DEF Cost
  <2>4. spentTokens'[r] = spentTokens[r] + Cost(r, usage)
    BY <2>1 DEF TypeOK
  <2>5. spentCalls'[r] = spentCalls[r] + 1
    BY <1>2 DEF Answered, TypeOK
  <2>6. /\ MaxCalls[r] = 0 \/ spentCalls[r] < MaxCalls[r]
        /\ MaxTokens[r] = 0 \/ spentTokens[r] + MinPrompt <= MaxTokens[r]
    BY <1>2 DEF Affordable, Answered
  <2>7. QED
    BY <2>3, <2>4, <2>5, <2>6 DEF Ceiling!Spend
<1>3. ASSUME NEW x \in Run,
             SkipSettled(x) \/ Hit(x) \/ Refuse(x) \/ GiveUp(x) \/ Misbehave(x) \/ Rename(x)
      PROVE  UNCHANGED <<spentTokens[r], spentCalls[r]>>
  BY <1>3 DEF SkipSettled, Hit, Refuse, GiveUp, Misbehave, Rename, budget
<1>4. ASSUME NEW x \in Run,
             \/ AskAbout(x) \/ Finish(x) \/ Start(x) \/ Retry(x) \/ Write(x) \/ PutFails(x)
             \/ Die(x) \/ GoOffline(x)
      PROVE  UNCHANGED <<spentTokens[r], spentCalls[r]>>
  BY <1>4 DEF AskAbout, Finish, Start, Retry, Write, PutFails, Die, GoOffline, budget
<1>5. ASSUME NEW k \in Keys, Forget(k) PROVE UNCHANGED <<spentTokens[r], spentCalls[r]>>
  BY <1>5 DEF Forget, budget
<1>6. ASSUME UNCHANGED vars PROVE UNCHANGED <<spentTokens[r], spentCalls[r]>>
  BY <1>6 DEF vars, budget
<1>7. QED
  BY <1>1, <1>2, <1>3, <1>4, <1>5, <1>6 DEF Next, Work

LedgerInv == TypeOK /\ Midway /\ Affordable

LEMMA LedgerInvariant == Spec => []LedgerInv
<1>1. Init => LedgerInv
  BY CallAssumption DEF Init, TypeOK, Midway, Affordable, InHand, MAX_ATTEMPTS, LedgerInv
<1>2. LedgerInv /\ [Next]_vars => LedgerInv'
  BY TypesKept, StillAffordable DEF LedgerInv
<1>3. QED
  BY <1>1, <1>2, PTL DEF Spec

(* Each run implements SpendingCeiling under its own ceilings, whatever the other runs, *)
(* the network, crashes and deletions do (budget.Metered; KeepsTheCeiling).             *)
THEOREM RunsKeepTheCeiling == Spec => KeepsTheCeiling
<1>1. Init => \A r \in Run : Ceiling(r)!Init
  BY DEF Init, Ceiling!Init
<1>2. LedgerInv /\ [Next]_vars
        => [\A r \in Run : [Ceiling(r)!Spend]_<<spentTokens[r], spentCalls[r]>>]_vars
  BY LedgerMoves DEF LedgerInv
<1>3. QED
  BY <1>1, <1>2, LedgerInvariant, PTL DEF Spec, KeepsTheCeiling

(* A ceiling on tokens is overshot by less than one response and one on calls never *)
(* (WithinOneResponse), for every budget, estimate and price.                       *)
THEOREM OvershotByOneResponse == Spec => []WithinOneResponse
<1>1. Init => WithinOneResponse
  BY CallAssumption DEF Init, WithinOneResponse, Ceiling!OneResponseOver
<1>2. LedgerInv /\ LedgerInv' /\ WithinOneResponse /\ [Next]_vars => WithinOneResponse'
  <2> SUFFICES ASSUME LedgerInv, LedgerInv', WithinOneResponse, [Next]_vars, NEW r \in Run
               PROVE  Ceiling(r)!OneResponseOver'
    BY DEF WithinOneResponse
  <2>1. [Ceiling(r)!Spend]_<<spentTokens[r], spentCalls[r]>>
    BY LedgerMoves DEF LedgerInv
  <2>2. /\ spentTokens[r] \in Nat /\ spentCalls[r] \in Nat
        /\ MaxTokens[r] \in Nat /\ MaxCalls[r] \in Nat
        /\ MinPrompt \in Nat \ {0} /\ MaxReply \in Nat \ {0}
    BY CallAssumption DEF LedgerInv, TypeOK
  <2>3. Ceiling(r)!OneResponseOver
    BY DEF WithinOneResponse
  <2>4. CASE Ceiling(r)!Spend
    BY <2>2, <2>3, <2>4 DEF Ceiling!Spend, Ceiling!OneResponseOver
  <2>5. CASE UNCHANGED <<spentTokens[r], spentCalls[r]>>
    BY <2>3, <2>5 DEF Ceiling!OneResponseOver
  <2>6. QED
    BY <2>1, <2>4, <2>5
<1>3. QED
  BY <1>1, <1>2, LedgerInvariant, PTL DEF Spec

-----------------------------------------------------------------------------
(* Where answers come from.  What a run is about to store was given to the question *)
(* in hand, what the cache holds was given under its key, and what was judged by a  *)
(* model was given to the finding judged.                                           *)
AboutToStore ==
  \A r \in Run : at[r] \in {"storing", "renaming"} => <<Question(r), answer[r]>> \in given

Judgement == [source : {"corpus", "model", "unavailable"}, answer : Answers \cup {Missing}]

Judged(r) ==
  /\ Len(judged[r]) = place[r]
  /\ \A n \in DOMAIN judged[r] : judged[r][n].source = "model"
        => <<<<Worklist[r][n], Name[r]>>, judged[r][n].answer>> \in given

Provenance ==
  /\ AboutToStore /\ EntriesWereGiven
  /\ judged \in [Run -> Seq(Judgement)] /\ \A r \in Run : Judged(r)

(* A judgement with an answer that was given to the finding in hand keeps Provenance. *)
LEMMA JudgedByTheBook ==
  ASSUME TypeOK, Provenance, given' = given, NEW r \in Run,
         NEW source \in {"corpus", "model", "unavailable"}, NEW ans \in Answers \cup {Missing},
         Judge(r, source, ans),
         source = "model" => <<Question(r), ans>> \in given
  PROVE  judged' \in [Run -> Seq(Judgement)] /\ \A x \in Run : Judged(x)'
<1> DEFINE new == [source |-> source, answer |-> ans]
<1>1. judged \in [Run -> Seq(Judgement)] /\ place \in [Run -> Nat]
  BY DEF TypeOK, Provenance
<1>2. new \in Judgement
  BY DEF Judgement
<1>3. judged' = [judged EXCEPT ![r] = Append(judged[r], new)] /\ place' = [place EXCEPT ![r] = @ + 1]
  BY DEF Judge
<1>4. Append(judged[r], new) \in Seq(Judgement)
  BY <1>1, <1>2, AppendProperties
<1>5. judged' \in [Run -> Seq(Judgement)]
  BY <1>1, <1>3, <1>4
<1>6. ASSUME NEW x \in Run, x # r PROVE Judged(x)'
  <2>1. judged'[x] = judged[x] /\ place'[x] = place[x]
    BY <1>1, <1>3, <1>6
  <2>2. QED
    BY <2>1 DEF Judged, Provenance
<1>7. Judged(r)'
  <2>1. judged'[r] = Append(judged[r], new) /\ place'[r] = place[r] + 1
    BY <1>1, <1>3
  <2>2. judged[r] \in Seq(Judgement) /\ Len(judged[r]) = place[r] /\ Len(judged[r]) \in Nat
    BY <1>1 DEF Judged, Provenance
  <2>3. /\ Len(judged'[r]) = Len(judged[r]) + 1
        /\ \A n \in 1..Len(judged[r]) : judged'[r][n] = judged[r][n]
        /\ judged'[r][Len(judged[r]) + 1] = new
        /\ DOMAIN judged'[r] = 1..(Len(judged[r]) + 1)
    BY <1>2, <1>4, <2>1, <2>2, AppendProperties
  <2>4. ASSUME NEW n \in DOMAIN judged'[r], judged'[r][n].source = "model"
        PROVE  <<<<Worklist[r][n], Name[r]>>, judged'[r][n].answer>> \in given
    <3>1. CASE n = Len(judged[r]) + 1
      <4>1. judged'[r][n] = new /\ source = "model" /\ n = place[r] + 1
        BY <2>2, <2>3, <2>4, <3>1
      <4>2. QED
        BY <4>1 DEF Question, Current
    <3>2. CASE n \in 1..Len(judged[r])
      <4>1. n \in DOMAIN judged[r] /\ judged'[r][n] = judged[r][n]
        BY <2>2, <2>3, <3>2
      <4>2. QED
        BY <2>4, <4>1 DEF Judged, Provenance
    <3>3. QED
      BY <2>2, <2>3, <3>1, <3>2
  <2>5. QED
    BY <2>1, <2>2, <2>3, <2>4 DEF Judged
<1>8. QED
  BY <1>5, <1>6, <1>7

LEMMA ProvenanceKept ==
  ASSUME TypeOK, Midway, Provenance, [Next]_vars
  PROVE  Provenance'
<1> DEFINE Book == judged' \in [Run -> Seq(Judgement)] /\ \A x \in Run : Judged(x)'
<1>1. ASSUME UNCHANGED <<judged, place>>, given \subseteq given' PROVE Book
  BY <1>1 DEF Provenance, Judged
<1>2. ASSUME NEW r \in Run, Judge(r, "corpus", Missing) \/ Judge(r, "unavailable", Missing),
             given' = given
      PROVE  Book
  BY <1>2, JudgedByTheBook
<1>3. ASSUME UNCHANGED <<entry, given>> PROVE EntriesWereGiven'
  BY <1>3 DEF Provenance, EntriesWereGiven
(* What is about to be stored stays given while its run stays put or leaves put. *)
<1>4. ASSUME \A r \in Run : at'[r] \in {"storing", "renaming"} =>
                /\ at[r] \in {"storing", "renaming"}
                /\ answer'[r] = answer[r] /\ place'[r] = place[r],
             given \subseteq given'
      PROVE  AboutToStore'
  BY <1>4 DEF Provenance, AboutToStore, Question, Current
<1>5. ASSUME NEW r \in Run, NEW source, NEW ans, Judge(r, source, ans), given' = given,
             answer' = answer
      PROVE  AboutToStore'
  <2>1. \A x \in Run \ {r} : at'[x] = at[x] /\ place'[x] = place[x]
    BY <1>5 DEF Judge, TypeOK
  <2>2. at'[r] = "next"
    BY <1>5 DEF Judge, TypeOK
  <2>3. QED
    BY <1>4, <1>5, <2>1, <2>2
<1>6. ASSUME NEW r \in Run, SkipSettled(r) PROVE Provenance'
  BY <1>2, <1>3, <1>5, <1>6 DEF SkipSettled, Provenance, ghosts
<1>7. ASSUME NEW r \in Run, Hit(r) PROVE Provenance'
  <2>1. <<Question(r), entry[Key(r)]>> \in given
    <3>1. Key(r) \in Keys
      BY <1>7, CurrentIsAFinding DEF Hit, TypeOK, Midway, InHand
    <3>2. QED
      BY <1>7, <3>1 DEF Hit, Provenance, EntriesWereGiven, Key, Question
  <2>2. entry[Key(r)] \in Answers \cup {Missing}
    BY <1>7, CurrentIsAFinding DEF Hit, TypeOK, Midway, InHand
  <2>3. given' = given /\ Judge(r, "model", entry[Key(r)]) /\ answer' = answer /\ entry' = entry
    BY <1>7 DEF Hit, ghosts
  <2>4. Book
    BY <2>1, <2>2, <2>3, JudgedByTheBook
  <2>5. QED
    BY <1>3, <1>5, <2>3, <2>4 DEF Provenance
<1>8. ASSUME NEW r \in Run, Refuse(r) \/ GiveUp(r) PROVE Provenance'
  BY <1>2, <1>3, <1>5, <1>8 DEF Refuse, GiveUp, Decline, Provenance, ghosts
<1>9. ASSUME NEW r \in Run, Misbehave(r) PROVE Provenance'
  BY <1>2, <1>3, <1>5, <1>9 DEF Misbehave, AfterMisbehaviour, Decline, Provenance
<1>10. ASSUME NEW r \in Run, Answered(r) PROVE Provenance'
  <2>1. PICK says \in Says :
          /\ answer' = [answer EXCEPT ![r] = [says |-> says, by |-> Endpoint[r]]]
          /\ given' = given \cup {<<Question(r), [says |-> says, by |-> Endpoint[r]]>>}
    BY <1>10 DEF Answered
  <2>2. answer'[r] = [says |-> says, by |-> Endpoint[r]]
        /\ \A x \in Run \ {r} : answer'[x] = answer[x] /\ at'[x] = at[x]
    BY <1>10, <2>1 DEF Answered, TypeOK
  <2>3. AboutToStore'
    BY <1>10, <2>1, <2>2 DEF Answered, AboutToStore, Provenance, Question, Current
  <2>4. EntriesWereGiven'
    BY <1>10, <2>1 DEF Answered, Provenance, EntriesWereGiven
  <2>5. Book
    BY <1>1, <1>10, <2>1 DEF Answered
  <2>6. QED
    BY <2>3, <2>4, <2>5 DEF Provenance
<1>11. ASSUME NEW r \in Run, Write(r) PROVE Provenance'
  BY <1>1, <1>3, <1>4, <1>11 DEF Write, WritingAside, TypeOK, Provenance, ghosts
<1>12. ASSUME NEW r \in Run, Rename(r) PROVE Provenance'
  <2>1. <<Question(r), answer[r]>> \in given
    BY <1>12 DEF Rename, Provenance, AboutToStore
  <2>2. answer[r] \in Answers \cup {Missing} /\ Judge(r, "model", answer[r]) /\ given' = given
    BY <1>12 DEF Rename, TypeOK, ghosts
  <2>3. Book
    BY <2>1, <2>2, JudgedByTheBook
  <2>4. EntriesWereGiven'
    BY <1>12, <2>1, <2>2 DEF Rename, Provenance, EntriesWereGiven, Key, Question, TypeOK
  <2>5. /\ at'[r] = "next"
        /\ \A x \in Run \ {r} : at'[x] = at[x] /\ place'[x] = place[x] /\ answer'[x] = answer[x]
    BY <1>12 DEF Rename, Judge, TypeOK
  <2>6. AboutToStore'
    BY <1>4, <2>2, <2>5
  <2>7. QED
    BY <2>3, <2>4, <2>6 DEF Provenance
<1>13. ASSUME NEW r \in Run,
              AskAbout(r) \/ Finish(r) \/ Start(r) \/ Retry(r) \/ PutFails(r) \/ Die(r) \/ GoOffline(r)
       PROVE  Provenance'
  <2>1. UNCHANGED <<judged, place, entry, given, answer>>
    BY <1>13 DEF AskAbout, Finish, Start, Retry, PutFails, Die, GoOffline, ghosts
  <2>2. \A x \in Run : at'[x] \in {"storing", "renaming"} => at[x] \in {"storing", "renaming"}
    BY <1>13 DEF AskAbout, Finish, Start, Retry, PutFails, Die, GoOffline, TypeOK
  <2>3. QED
    BY <1>1, <1>3, <1>4, <2>1, <2>2 DEF Provenance
<1>14. ASSUME NEW k \in Keys, Forget(k) PROVE Provenance'
  <2>1. UNCHANGED <<at, judged, place, given, answer>>
    BY <1>14 DEF Forget, ghosts
  <2>2. EntriesWereGiven'
    BY <1>14, <2>1 DEF Forget, Provenance, EntriesWereGiven, TypeOK
  <2>3. QED
    BY <1>1, <1>4, <2>1, <2>2 DEF Provenance
<1>15. ASSUME UNCHANGED vars PROVE Provenance'
  BY <1>1, <1>3, <1>4, <1>15 DEF vars, ghosts, Provenance
<1>16. QED
  BY <1>6, <1>7, <1>8, <1>9, <1>10, <1>11, <1>12, <1>13, <1>14, <1>15 DEF Next, Work

LEMMA ProvenanceInvariant == Spec => []Provenance
<1>1. Init => TypeOK /\ Midway /\ Provenance
  <2> SUFFICES ASSUME Init PROVE TypeOK /\ Midway /\ Provenance
    OBVIOUS
  <2>1. TypeOK /\ Midway
    BY CallAssumption DEF Init, TypeOK, Midway, InHand, MAX_ATTEMPTS
  <2>2. judged \in [Run -> Seq(Judgement)] /\ \A r \in Run : Judged(r)
    BY DEF Init, Judged
  <2>3. AboutToStore /\ EntriesWereGiven
    BY DEF Init, AboutToStore, EntriesWereGiven
  <2>4. QED
    BY <2>1, <2>2, <2>3 DEF Provenance
<1>2. TypeOK /\ Midway /\ Provenance /\ [Next]_vars => (TypeOK /\ Midway /\ Provenance)'
  BY TypesKept, ProvenanceKept
<1>3. QED
  BY <1>1, <1>2, PTL DEF Spec

(* The cache never holds half an answer, a mixture, or an answer to another question, *)
(* for any number of runs writing, dying and deleting (EntriesWereGiven).             *)
THEOREM CacheHoldsWholeAnswers == Spec => []EntriesWereGiven
BY ProvenanceInvariant, PTL DEF Provenance

(* A verdict attributed to a model is an answer to that finding's question *)
(* (VerdictsWereGiven).                                                    *)
THEOREM ModelVerdictsAreAnswers == Spec => []VerdictsWereGiven
<1>1. Provenance => VerdictsWereGiven
  BY DEF Provenance, Judged, VerdictsWereGiven
<1>2. QED
  BY <1>1, ProvenanceInvariant, PTL

-----------------------------------------------------------------------------
(* A question being posted has not been answered yet: every response ends its POSTs. *)
AwaitedOnce ==
  \A r \in Run : IF at[r] = "posting" THEN responses[r] < started[r] ELSE responses[r] <= started[r]

LEMMA StillAwaitedOnce ==
  ASSUME TypeOK, AwaitedOnce, [Next]_vars
  PROVE  AwaitedOnce'
<1> /\ responses \in [Run -> Nat] /\ started \in [Run -> Nat]
    /\ at \in [Run -> {"next", "asking", "posting", "storing", "renaming", "done", "dead"}]
  BY DEF TypeOK
<1>1. ASSUME UNCHANGED <<started, responses>>,
             \A r \in Run : at'[r] = "posting" => at[r] = "posting"
      PROVE  AwaitedOnce'
  BY <1>1 DEF AwaitedOnce
(* A response is the last thing that happens to a question in the network. *)
<1>2. ASSUME NEW r \in Run, at[r] = "posting", NEW where \in {"next", "storing"},
             at' = [at EXCEPT ![r] = where],
             responses' = [responses EXCEPT ![r] = @ + 1], started' = started
      PROVE  AwaitedOnce'
  BY <1>2 DEF AwaitedOnce
<1>3. ASSUME NEW r \in Run, Start(r) PROVE AwaitedOnce'
  BY <1>3 DEF Start, AwaitedOnce
<1>4. ASSUME NEW r \in Run, Answered(r) PROVE AwaitedOnce'
  BY <1>2, <1>4 DEF Answered
<1>5. ASSUME NEW r \in Run, Misbehave(r) PROVE AwaitedOnce'
  BY <1>2, <1>5 DEF Misbehave, AfterMisbehaviour, Decline, Judge
<1>6. ASSUME NEW r \in Run, SkipSettled(r) \/ Hit(r) \/ Refuse(r) \/ GiveUp(r) \/ Rename(r)
      PROVE  AwaitedOnce'
  BY <1>1, <1>6 DEF SkipSettled, Hit, Refuse, GiveUp, Rename, Decline, Judge, ghosts
<1>7. ASSUME NEW r \in Run,
             AskAbout(r) \/ Finish(r) \/ Retry(r) \/ Write(r) \/ PutFails(r) \/ Die(r) \/ GoOffline(r)
      PROVE  AwaitedOnce'
  BY <1>1, <1>7 DEF AskAbout, Finish, Retry, Write, PutFails, Die, GoOffline, ghosts
<1>8. ASSUME NEW k \in Keys, Forget(k) PROVE AwaitedOnce'
  BY <1>1, <1>8 DEF Forget, ghosts
<1>9. CASE UNCHANGED vars
  BY <1>1, <1>9 DEF vars, ghosts
<1>10. QED
  BY <1>3, <1>4, <1>5, <1>6, <1>7, <1>8, <1>9 DEF Next, Work

(* However a question is retried, one 200 response at most is taken for it *)
(* (http.HTTPProvider; OneResponsePerQuestion).                            *)
THEOREM OneResponseEach == Spec => []OneResponsePerQuestion
<1>1. Init => TypeOK /\ Midway /\ AwaitedOnce
  BY CallAssumption DEF Init, TypeOK, Midway, InHand, MAX_ATTEMPTS, AwaitedOnce
<1>2. TypeOK /\ Midway /\ AwaitedOnce /\ [Next]_vars => (TypeOK /\ Midway /\ AwaitedOnce)'
  BY TypesKept, StillAwaitedOnce
<1>3. TypeOK /\ AwaitedOnce => OneResponsePerQuestion
  BY DEF TypeOK, AwaitedOnce, OneResponsePerQuestion
<1>4. QED
  BY <1>1, <1>2, <1>3, PTL DEF Spec

-----------------------------------------------------------------------------
(* The books.  One more position adds one to a count of positions or nothing. *)
LEMMA OneMorePosition ==
  ASSUME NEW k \in Nat, NEW before \in SUBSET (1..k), NEW after \in SUBSET (1..(k + 1)),
         \A n \in 1..k : n \in before <=> n \in after
  PROVE  /\ Cardinality(before) \in Nat
         /\ Cardinality(after) = Cardinality(before) + (IF k + 1 \in after THEN 1 ELSE 0)
<1>1. IsFiniteSet(before) /\ Cardinality(before) \in Nat
  <2>1. IsFiniteSet(1..k)
    BY FS_Interval
  <2>2. IsFiniteSet(before)
    BY <2>1, FS_Subset
  <2>3. QED
    BY <2>2, FS_CardinalityType
<1>0. 1..(k + 1) = (1..k) \cup {k + 1} /\ k + 1 \notin 1..k
  OBVIOUS
<1>2. CASE k + 1 \in after
  <2>1. k + 1 \notin before
    BY <1>0
  <2>2. after = before \cup {k + 1}
    <3>1. ASSUME NEW n \in after PROVE n \in before \cup {k + 1}
      BY <1>0, <3>1
    <3>2. ASSUME NEW n \in before \cup {k + 1} PROVE n \in after
      BY <1>2, <3>2
    <3>3. QED
      BY <3>1, <3>2
  <2>3. QED
    BY <1>1, <1>2, <2>1, <2>2, FS_AddElement
<1>3. CASE k + 1 \notin after
  <2>1. after = before
    <3>1. ASSUME NEW n \in after PROVE n \in before
      <4>1. n \in 1..k
        BY <1>0, <1>3, <3>1
      <4>2. QED
        BY <3>1, <4>1
    <3>2. ASSUME NEW n \in before PROVE n \in after
      BY <3>2
    <3>3. QED
      BY <3>1, <3>2
  <2>2. QED
    BY <1>1, <1>3, <2>1
<1>4. QED
  BY <1>2, <1>3

(* The judgements of one source can be counted. *)
LEMMA JudgementsAreCounted ==
  ASSUME Provenance, NEW r \in Run, NEW kind
  PROVE  Judgements(r, kind) \in Nat
<1> DEFINE found == {n \in DOMAIN judged[r] : judged[r][n].source = kind}
<1>1. judged[r] \in Seq(Judgement)
  BY DEF Provenance
<1>2. Len(judged[r]) \in Nat /\ DOMAIN judged[r] = 1..Len(judged[r])
  BY <1>1, LenProperties
<1>3. IsFiniteSet(1..Len(judged[r]))
  BY <1>2, FS_Interval
<1>4. found \in SUBSET (1..Len(judged[r]))
  BY <1>2
<1>5. IsFiniteSet(found)
  BY <1>3, <1>4, FS_Subset
<1>6. Cardinality(found) \in Nat
  BY <1>5, FS_CardinalityType
<1>7. QED
  BY <1>6 DEF Judgements

(* Nobody is in the middle of a question that the corpus settles. *)
OnlyTheUnsettled == \A r \in Run : InHand(r) => Current(r) \notin Settled

(* How many of the first k findings of r the corpus settles. *)
SettledUpTo(r, k) == Cardinality({n \in 1..k : Worklist[r][n] \in Settled})

(* A judgement adds one to the count of its source, and to no other count. *)
LEMMA OneMoreJudgement ==
  ASSUME TypeOK, Provenance, NEW r \in Run,
         NEW source \in {"corpus", "model", "unavailable"}, NEW ans \in Answers \cup {Missing},
         Judge(r, source, ans)
  PROVE  /\ \A kind \in {"corpus", "model", "unavailable"} :
              /\ Judgements(r, kind) \in Nat
              /\ Judgements(r, kind)' = Judgements(r, kind) + (IF source = kind THEN 1 ELSE 0)
              /\ \A x \in Run \ {r} : Judgements(x, kind)' = Judgements(x, kind)
         /\ SettledUpTo(r, place[r]) \in Nat
         /\ SettledUpTo(r, place[r] + 1)
              = SettledUpTo(r, place[r]) + (IF Current(r) \in Settled THEN 1 ELSE 0)
<1> DEFINE new == [source |-> source, answer |-> ans]
<1>1. judged \in [Run -> Seq(Judgement)] /\ place[r] \in Nat /\ Len(judged[r]) = place[r]
  BY DEF TypeOK, Provenance, Judged
<1>2. judged' = [judged EXCEPT ![r] = Append(judged[r], new)]
  BY DEF Judge
<1>3. new \in Judgement /\ judged[r] \in Seq(Judgement)
  BY <1>1 DEF Judgement
<1>4. /\ judged'[r] = Append(judged[r], new)
      /\ DOMAIN judged[r] = 1..place[r] /\ DOMAIN judged'[r] = 1..(place[r] + 1)
      /\ \A n \in 1..place[r] : judged'[r][n] = judged[r][n]
      /\ judged'[r][place[r] + 1] = new
  <2>1. judged'[r] = Append(judged[r], new)
    BY <1>1, <1>2
  <2>2. QED
    BY <1>1, <1>3, <2>1, AppendProperties, LenProperties
<1>5. ASSUME NEW kind \in {"corpus", "model", "unavailable"}
      PROVE  /\ Judgements(r, kind) \in Nat
             /\ Judgements(r, kind)' = Judgements(r, kind) + (IF source = kind THEN 1 ELSE 0)
             /\ \A x \in Run \ {r} : Judgements(x, kind)' = Judgements(x, kind)
  <2> DEFINE before == {n \in DOMAIN judged[r] : judged[r][n].source = kind}
             after == {n \in DOMAIN judged'[r] : judged'[r][n].source = kind}
  <2>1. before \in SUBSET (1..place[r]) /\ after \in SUBSET (1..(place[r] + 1))
    BY <1>4
  <2>2. \A n \in 1..place[r] : n \in before <=> n \in after
    BY <1>1, <1>4
  <2>3. place[r] + 1 \in after <=> source = kind
    BY <1>1, <1>4
  <2>4. /\ Cardinality(before) \in Nat
        /\ Cardinality(after) = Cardinality(before) + (IF place[r] + 1 \in after THEN 1 ELSE 0)
    <3> HIDE DEF before, after
    <3> QED
      BY <1>1, <2>1, <2>2, OneMorePosition
  <2>5. Judgements(r, kind) = Cardinality(before) /\ Judgements(r, kind)' = Cardinality(after)
    BY DEF Judgements
  <2>6. \A x \in Run \ {r} : Judgements(x, kind)' = Judgements(x, kind)
    BY <1>1, <1>2 DEF Judgements
  <2> HIDE DEF before, after
  <2>7. QED
    BY <2>3, <2>4, <2>5, <2>6
<1>6. /\ SettledUpTo(r, place[r]) \in Nat
      /\ SettledUpTo(r, place[r] + 1)
           = SettledUpTo(r, place[r]) + (IF Current(r) \in Settled THEN 1 ELSE 0)
  <2> DEFINE before == {n \in 1..place[r] : Worklist[r][n] \in Settled}
             after == {n \in 1..(place[r] + 1) : Worklist[r][n] \in Settled}
  <2>1. before \in SUBSET (1..place[r]) /\ after \in SUBSET (1..(place[r] + 1))
    OBVIOUS
  <2>2. \A n \in 1..place[r] : n \in before <=> n \in after
    BY <1>1
  <2>3. place[r] + 1 \in after <=> Current(r) \in Settled
    BY <1>1 DEF Current
  <2>4. SettledUpTo(r, place[r]) = Cardinality(before)
        /\ SettledUpTo(r, place[r] + 1) = Cardinality(after)
    BY DEF SettledUpTo
  <2>5. /\ Cardinality(before) \in Nat
        /\ Cardinality(after) = Cardinality(before) + (IF place[r] + 1 \in after THEN 1 ELSE 0)
    <3> HIDE DEF before, after
    <3> QED
      BY <1>1, <2>1, <2>2, OneMorePosition
  <2> HIDE DEF before, after
  <2>6. QED
    BY <2>3, <2>4, <2>5
<1>7. QED
  BY <1>5, <1>6

(* What EveryQuestionIsBooked says of one run, but for the length of its list. *)
Booked(r) ==
  /\ Judgements(r, "unavailable") = declinedCalls[r]
  /\ Judgements(r, "corpus") = SettledUpTo(r, place[r])
  /\ spentCalls[r] <= Judgements(r, "model")
                        + (IF at[r] \in {"storing", "renaming", "dead"} THEN 1 ELSE 0)

LEMMA BooksKept ==
  ASSUME TypeOK, Midway, Provenance, OnlyTheUnsettled, \A r \in Run : Booked(r), [Next]_vars
  PROVE  OnlyTheUnsettled' /\ \A r \in Run : Booked(r)'
<1> DEFINE Books == \A x \in Run : Booked(x)'
<1> /\ at \in [Run -> {"next", "asking", "posting", "storing", "renaming", "done", "dead"}]
    /\ place \in [Run -> Nat] /\ spentCalls \in [Run -> Nat] /\ declinedCalls \in [Run -> Nat]
    /\ answer \in [Run -> Answers \cup {Missing}]
  BY DEF TypeOK
(* A run whose books nobody touched. *)
<1>1. ASSUME NEW x \in Run, judged'[x] = judged[x], place'[x] = place[x],
             spentCalls'[x] = spentCalls[x], declinedCalls'[x] = declinedCalls[x],
             at[x] \in {"storing", "renaming", "dead"} => at'[x] \in {"storing", "renaming", "dead"}
      PROVE  Booked(x)'
  <2>1. \A kind \in {"corpus", "model", "unavailable"} : Judgements(x, kind)' = Judgements(x, kind)
    BY <1>1 DEF Judgements
  <2>2. Judgements(x, "model") \in Nat
    BY JudgementsAreCounted
  <2>3. SettledUpTo(x, place[x])' = SettledUpTo(x, place[x])
    BY <1>1 DEF SettledUpTo
  <2>4. Booked(x)
    OBVIOUS
  <2>5. QED
    BY <1>1, <2>1, <2>2, <2>3, <2>4 DEF Booked
(* A judgement of r, with the ledger it leaves. *)
<1>2. ASSUME NEW r \in Run, place[r] < Len(Worklist[r]),
             NEW source \in {"corpus", "model", "unavailable"}, NEW ans \in Answers \cup {Missing},
             Judge(r, source, ans), spentCalls' = spentCalls,
             declinedCalls' = [declinedCalls EXCEPT ![r] = @ + (IF source = "unavailable" THEN 1 ELSE 0)],
             source = "corpus" <=> Current(r) \in Settled,
             at[r] \in {"storing", "renaming", "dead"} => source = "model"
      PROVE  OnlyTheUnsettled' /\ Books
  <2>1. at' = [at EXCEPT ![r] = "next"] /\ place' = [place EXCEPT ![r] = @ + 1]
        /\ judged' = [judged EXCEPT ![r] = Append(@, [source |-> source, answer |-> ans])]
    BY <1>2 DEF Judge
  <2>2. OnlyTheUnsettled'
    BY <2>1 DEF OnlyTheUnsettled, InHand, Current
  <2>3. ASSUME NEW x \in Run, x # r PROVE Booked(x)'
    <3>1. judged'[x] = judged[x]
      BY <2>1, <2>3 DEF Provenance
    <3>2. QED
      BY <1>1, <1>2, <2>1, <2>3, <3>1
  <2>4. Booked(r)'
    <3>1. /\ Judgements(r, "corpus")' = Judgements(r, "corpus") + (IF source = "corpus" THEN 1 ELSE 0)
          /\ Judgements(r, "model")' = Judgements(r, "model") + (IF source = "model" THEN 1 ELSE 0)
          /\ Judgements(r, "unavailable")'
               = Judgements(r, "unavailable") + (IF source = "unavailable" THEN 1 ELSE 0)
          /\ Judgements(r, "model") \in Nat /\ Judgements(r, "unavailable") \in Nat
          /\ SettledUpTo(r, place[r] + 1)
               = SettledUpTo(r, place[r]) + (IF Current(r) \in Settled THEN 1 ELSE 0)
      BY <1>2, OneMoreJudgement
    <3>2. SettledUpTo(r, place[r])' = SettledUpTo(r, place[r] + 1)
      BY <2>1 DEF SettledUpTo
    <3>3. at'[r] = "next" /\ spentCalls'[r] = spentCalls[r] /\ spentCalls[r] \in Nat
          /\ declinedCalls'[r] = declinedCalls[r] + (IF source = "unavailable" THEN 1 ELSE 0)
      BY <1>2, <2>1
    <3>4. Booked(r)
      OBVIOUS
    <3>5. Judgements(r, "unavailable")' = declinedCalls'[r]
      BY <3>1, <3>3, <3>4 DEF Booked
    <3>6. Judgements(r, "corpus")' = SettledUpTo(r, place[r])'
      BY <1>2, <3>1, <3>2, <3>4 DEF Booked
    <3>7. spentCalls'[r] <= Judgements(r, "model")'
      BY <1>2, <3>1, <3>3, <3>4 DEF Booked
    <3>8. Judgements(r, "model")' \in Nat
      BY <3>1
    <3>9. (IF at[r] \in {"storing", "renaming", "dead"} THEN 1 ELSE 0)' = 0
      BY <3>3
    <3>10. QED
      BY <3>3, <3>5, <3>6, <3>7, <3>8, <3>9 DEF Booked
  <2>5. QED
    BY <2>2, <2>3, <2>4
(* A step inside a question, or beside it. *)
<1>3. ASSUME UNCHANGED <<judged, place, spentCalls, declinedCalls>>,
             \A x \in Run : at[x] \in {"storing", "renaming", "dead"}
                              => at'[x] \in {"storing", "renaming", "dead"},
             \A x \in Run : InHand(x)' => InHand(x) \/ Current(x) \notin Settled
      PROVE  OnlyTheUnsettled' /\ Books
  <2>1. Books
    BY <1>1, <1>3
  <2>2. OnlyTheUnsettled'
    BY <1>3 DEF OnlyTheUnsettled, Current
  <2>3. QED
    BY <2>1, <2>2
<1>4. ASSUME NEW r \in Run, InHand(r) PROVE place[r] < Len(Worklist[r]) /\ Current(r) \notin Settled
  BY <1>4 DEF Midway, OnlyTheUnsettled
<1>5. Missing \in Answers \cup {Missing}
  OBVIOUS
<1>6. ASSUME NEW r \in Run, SkipSettled(r) PROVE OnlyTheUnsettled' /\ Books
  <2>1. declinedCalls' = [declinedCalls EXCEPT ![r] = @ + 0] /\ spentCalls' = spentCalls
    BY <1>6 DEF SkipSettled, budget
  <2>2. QED
    BY <1>2, <1>5, <1>6, <2>1 DEF SkipSettled
<1>7. ASSUME NEW r \in Run, Hit(r) PROVE OnlyTheUnsettled' /\ Books
  <2>1. declinedCalls' = [declinedCalls EXCEPT ![r] = @ + 0] /\ spentCalls' = spentCalls
    BY <1>7 DEF Hit, budget
  <2>2. entry[Key(r)] \in Answers \cup {Missing}
    BY <1>7, CurrentIsAFinding DEF Hit, TypeOK, Midway, InHand
  <2>3. InHand(r) /\ at[r] = "asking" /\ Judge(r, "model", entry[Key(r)])
    BY <1>7 DEF Hit, InHand
  <2>4. QED
    BY <1>2, <1>4, <2>1, <2>2, <2>3
<1>8. ASSUME NEW r \in Run, Rename(r) PROVE OnlyTheUnsettled' /\ Books
  <2>1. declinedCalls' = [declinedCalls EXCEPT ![r] = @ + 0] /\ spentCalls' = spentCalls
    BY <1>8 DEF Rename, budget
  <2>2. InHand(r) /\ Judge(r, "model", answer[r])
    BY <1>8 DEF Rename, InHand
  <2>3. QED
    BY <1>2, <1>4, <2>1, <2>2
<1>9. ASSUME NEW r \in Run, Decline(r), at[r] \in {"asking", "posting"}, spentCalls' = spentCalls
      PROVE  OnlyTheUnsettled' /\ Books
  <2>1. Judge(r, "unavailable", Missing) /\ InHand(r)
        /\ declinedCalls' = [declinedCalls EXCEPT ![r] = @ + 1]
    BY <1>9 DEF Decline, InHand
  <2>2. QED
    BY <1>2, <1>4, <1>5, <1>9, <2>1
<1>10. ASSUME NEW r \in Run, Refuse(r) \/ GiveUp(r) \/ Misbehave(r) PROVE OnlyTheUnsettled' /\ Books
  BY <1>9, <1>10 DEF Refuse, GiveUp, Misbehave, AfterMisbehaviour
<1>11. ASSUME NEW r \in Run, Answered(r) PROVE OnlyTheUnsettled' /\ Books
  <2>1. /\ at[r] = "posting" /\ at'[r] = "storing" /\ spentCalls'[r] = spentCalls[r] + 1
        /\ UNCHANGED <<judged, place, declinedCalls>>
        /\ \A x \in Run \ {r} : at'[x] = at[x] /\ spentCalls'[x] = spentCalls[x]
    BY <1>11 DEF Answered
  <2>2. Booked(r)'
    <3>1. \A kind \in {"corpus", "model", "unavailable"} : Judgements(r, kind)' = Judgements(r, kind)
      BY <2>1 DEF Judgements
    <3>2. SettledUpTo(r, place[r])' = SettledUpTo(r, place[r])
      BY <2>1 DEF SettledUpTo
    <3>3. Booked(r) /\ spentCalls[r] \in Nat
      OBVIOUS
    <3>4. Judgements(r, "model") \in Nat
      BY JudgementsAreCounted
    <3>5. QED
      BY <2>1, <3>1, <3>2, <3>3, <3>4 DEF Booked
  <2>3. \A x \in Run \ {r} : Booked(x)'
    BY <1>1, <2>1
  <2>4. OnlyTheUnsettled'
    BY <2>1 DEF OnlyTheUnsettled, InHand, Current
  <2>5. QED
    BY <2>2, <2>3, <2>4
<1>12. ASSUME NEW r \in Run,
              \/ AskAbout(r) \/ Finish(r) \/ Start(r) \/ Retry(r) \/ Write(r) \/ PutFails(r)
              \/ Die(r) \/ GoOffline(r)
       PROVE  OnlyTheUnsettled' /\ Books
  <2>1. UNCHANGED <<judged, place, spentCalls, declinedCalls>>
    BY <1>12 DEF AskAbout, Finish, Start, Retry, Write, PutFails, Die, GoOffline, budget
  <2>2. \A x \in Run : at[x] \in {"storing", "renaming", "dead"}
                         => at'[x] \in {"storing", "renaming", "dead"}
    BY <1>12 DEF AskAbout, Finish, Start, Retry, Write, PutFails, Die, GoOffline
  <2>3. \A x \in Run : InHand(x)' => InHand(x) \/ Current(x) \notin Settled
    BY <1>12 DEF AskAbout, Finish, Start, Retry, Write, PutFails, Die, GoOffline, InHand
  <2>4. QED
    BY <1>3, <2>1, <2>2, <2>3
<1>13. ASSUME NEW k \in Keys, Forget(k) PROVE OnlyTheUnsettled' /\ Books
  BY <1>3, <1>13 DEF Forget, budget, InHand
<1>14. ASSUME UNCHANGED vars PROVE OnlyTheUnsettled' /\ Books
  BY <1>3, <1>14 DEF vars, budget, InHand
<1>15. QED
  BY <1>6, <1>7, <1>8, <1>10, <1>11, <1>12, <1>13, <1>14 DEF Next, Work

(* Every finding is judged once, and every question asked is a hit, a charged call or *)
(* a counted decline, for any number of runs and crashes (EveryQuestionIsBooked).     *)
THEOREM NoQuestionGoesUnbooked == Spec => []EveryQuestionIsBooked
<1> DEFINE BookInv == TypeOK /\ Midway /\ Provenance /\ OnlyTheUnsettled /\ \A r \in Run : Booked(r)
<1>1. Init => BookInv
  <2> SUFFICES ASSUME Init PROVE BookInv
    OBVIOUS
  <2>1. TypeOK /\ Midway
    BY CallAssumption DEF Init, TypeOK, Midway, InHand, MAX_ATTEMPTS
  <2>2. Provenance
    <3>1. judged \in [Run -> Seq(Judgement)] /\ \A r \in Run : Judged(r)
      BY DEF Init, Judged
    <3>2. AboutToStore /\ EntriesWereGiven
      BY DEF Init, AboutToStore, EntriesWereGiven
    <3>3. QED
      BY <3>1, <3>2 DEF Provenance
  <2>3. OnlyTheUnsettled
    BY DEF Init, OnlyTheUnsettled, InHand
  <2>4. ASSUME NEW r \in Run PROVE Booked(r)
    <3>1. /\ {n \in DOMAIN judged[r] : judged[r][n].source = "unavailable"} = {}
          /\ {n \in DOMAIN judged[r] : judged[r][n].source = "corpus"} = {}
          /\ {n \in DOMAIN judged[r] : judged[r][n].source = "model"} = {}
          /\ {n \in 1..place[r] : Worklist[r][n] \in Settled} = {}
      BY DEF Init
    <3>2. spentCalls[r] = 0 /\ declinedCalls[r] = 0 /\ at[r] = "next"
      BY DEF Init
    <3>3. /\ Judgements(r, "unavailable") = 0 /\ Judgements(r, "corpus") = 0
          /\ Judgements(r, "model") = 0 /\ SettledUpTo(r, place[r]) = 0
      BY <3>1, FS_EmptySet DEF Judgements, SettledUpTo
    <3>4. QED
      BY <3>2, <3>3 DEF Booked
  <2>5. QED
    BY <2>1, <2>2, <2>3, <2>4
<1>2. BookInv /\ [Next]_vars => BookInv'
  BY TypesKept, ProvenanceKept, BooksKept
<1>3. BookInv => EveryQuestionIsBooked
  BY DEF Provenance, Judged, Booked, SettledUpTo, EveryQuestionIsBooked
<1>4. QED
  BY <1>1, <1>2, <1>3, PTL DEF Spec
=============================================================================
