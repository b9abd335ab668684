----------------------------- MODULE ModelCalls -----------------------------
(***************************************************************************)
(* `djaudit triage` putting findings to a model: triage over               *)
(* Cached(Metered(HTTPProvider)), several runs at once over one cache      *)
(* directory.  Each run has a budget of its own, retries what is           *)
(* transient, is answered or declined, and stores answers by an atomic     *)
(* rename.  A run may be killed at any step, a cache write may fail, and   *)
(* anybody may delete a cache entry.                                       *)
(***************************************************************************)
EXTENDS Integers, FiniteSets, Sequences

CONSTANTS
  Run,        \* the processes sharing a cache directory
  Finding,    \* what triage judges; each has a fingerprint and a prompt of its own
  Worklist,   \* Worklist[r]: the findings of r's audit, in order
  Settled,    \* findings whose rule CORPUS_PRIOR settles
  Name,       \* Name[r]: "vendor:model", the name r's provider is known by
  Endpoint,   \* Endpoint[r]: the base_url r's requests go to
  Says,       \* what an answer can say
  Usages,     \* the token totals a provider may report; 0 when it reports none
  Estimate,   \* Estimate[f]: what the prompt about f is estimated to cost
  MinPrompt,  \* no estimate is lower
  MaxReply,   \* no call costs more than this
  MaxTokens, MaxCalls   \* r's ceilings; 0 is unlimited

MAX_ATTEMPTS == 3

ASSUME CallAssumption ==
  /\ \A r \in Run : Worklist[r] \in Seq(Finding)
  /\ Settled \subseteq Finding
  /\ MinPrompt \in Nat \ {0} /\ MaxReply \in Nat \ {0}
  /\ Usages \subseteq 0..MaxReply
  /\ Estimate \in [Finding -> MinPrompt..MaxReply]
  /\ MaxTokens \in [Run -> Nat] /\ MaxCalls \in [Run -> Nat]

VARIABLES
  at,          \* where each run is: next, asking, posting, storing, renaming, done or dead
  place,       \* how many findings of its worklist it has finished
  attempt,     \* HTTP attempts made for the question in hand
  answer,      \* the answer a run is about to store
  spentTokens, spentCalls, declinedCalls, stopped,   \* its Budget
  judged,      \* its judgements: from the corpus, a model or nowhere
  entry,       \* the cache: for a key, the answer stored, or Missing
  temporary,   \* the temporary files in the cache directory, by the run that made them
  given,       \* ghost: every answer an endpoint gave, with the key it was asked under
  started,     \* ghost: questions each run has taken to the network
  responses    \* ghost: 200 responses each run has received

budget == <<spentTokens, spentCalls, declinedCalls, stopped>>
ghosts == <<given, started, responses>>
vars == <<at, place, attempt, answer, budget, judged, entry, temporary, ghosts>>

Answers == [says : Says, by : {Endpoint[r] : r \in Run}]
Missing == [says |-> "missing", by |-> "nobody"]

-----------------------------------------------------------------------------
Current(r) == Worklist[r][place[r] + 1]

Question(r) == <<Current(r), Name[r]>>

(* Mutated: two findings that render the same question share a key. *)
KeyWithoutFingerprint(r) == <<CHOOSE f \in Finding : TRUE, Name[r]>>

(* The key covers the fingerprint, the prompt and the provider's name. *)
Key(r) == <<Current(r), Name[r]>>
Keys == Finding \X {Name[r] : r \in Run}

Init ==
  /\ at = [r \in Run |-> "next"] /\ place = [r \in Run |-> 0]
  /\ attempt = [r \in Run |-> 0] /\ answer = [r \in Run |-> Missing]
  /\ spentTokens = [r \in Run |-> 0] /\ spentCalls = [r \in Run |-> 0]
  /\ declinedCalls = [r \in Run |-> 0] /\ stopped = [r \in Run |-> FALSE]
  /\ judged = [r \in Run |-> <<>>]
  /\ entry = [k \in Keys |-> Missing] /\ temporary = {}
  /\ given = {} /\ started = [r \in Run |-> 0] /\ responses = [r \in Run |-> 0]

(* A judgement on the finding in hand; the run goes on to the next. *)
Judge(r, source, ans) ==
  /\ judged' = [judged EXCEPT ![r] = Append(@, [source |-> source, answer |-> ans])]
  /\ place' = [place EXCEPT ![r] = @ + 1]
  /\ at' = [at EXCEPT ![r] = "next"]

(* Mutated: only a refusal of the meter's own is counted. *)
DeclineUncounted(r) ==
  Judge(r, "unavailable", Missing) /\ UNCHANGED declinedCalls

Decline(r) ==
  /\ Judge(r, "unavailable", Missing)
  /\ declinedCalls' = [declinedCalls EXCEPT ![r] = @ + 1]

-----------------------------------------------------------------------------
(* triage: one finding at a time. *)

SkipSettled(r) ==
  /\ at[r] = "next" /\ place[r] < Len(Worklist[r]) /\ Current(r) \in Settled
  /\ Judge(r, "corpus", Missing)
  /\ UNCHANGED <<attempt, answer, budget, entry, temporary, ghosts>>

AskAbout(r) ==
  /\ at[r] = "next" /\ place[r] < Len(Worklist[r]) /\ Current(r) \notin Settled
  /\ at' = [at EXCEPT ![r] = "asking"]
  /\ UNCHANGED <<place, attempt, answer, budget, judged, entry, temporary, ghosts>>

Finish(r) ==
  /\ at[r] = "next" /\ place[r] = Len(Worklist[r])
  /\ at' = [at EXCEPT ![r] = "done"]
  /\ UNCHANGED <<place, attempt, answer, budget, judged, entry, temporary, ghosts>>

-----------------------------------------------------------------------------
(* Cached.ask and Metered.ask, up to the first request. *)

Hit(r) ==
  /\ at[r] = "asking" /\ entry[Key(r)] # Missing
  /\ Judge(r, "model", entry[Key(r)])
  /\ UNCHANGED <<attempt, answer, budget, entry, temporary, ghosts>>

CanAfford(r) ==
  /\ ~stopped[r]
  /\ MaxCalls[r] = 0 \/ spentCalls[r] < MaxCalls[r]
  /\ MaxTokens[r] = 0 \/ spentTokens[r] + Estimate[Current(r)] <= MaxTokens[r]

Refuse(r) ==
  /\ at[r] = "asking" /\ entry[Key(r)] = Missing /\ ~CanAfford(r)
  /\ Decline(r)
  /\ UNCHANGED <<attempt, answer, spentTokens, spentCalls, stopped, entry, temporary, ghosts>>

Start(r) ==
  /\ at[r] = "asking" /\ entry[Key(r)] = Missing /\ CanAfford(r)
  /\ at' = [at EXCEPT ![r] = "posting"]
  /\ attempt' = [attempt EXCEPT ![r] = 1]
  /\ started' = [started EXCEPT ![r] = @ + 1]
  /\ UNCHANGED <<place, answer, budget, judged, entry, temporary, given, responses>>

-----------------------------------------------------------------------------
(* HTTPProvider._attempt: the four ways a POST can end. *)

(* Mutated: a provider that reports no usage is charged nothing. *)
CostAsReported(r, usage) == usage

Cost(r, usage) == IF usage = 0 THEN Estimate[Current(r)] ELSE usage

Answered(r) ==
  /\ at[r] = "posting"
  /\ \E says \in Says, usage \in Usages :
        LET ans == [says |-> says, by |-> Endpoint[r]]
        IN /\ answer' = [answer EXCEPT ![r] = ans]
           /\ given' = given \cup {<<Question(r), ans>>}
           /\ spentTokens' = [spentTokens EXCEPT ![r] = @ + Cost(r, usage)]
  /\ spentCalls' = [spentCalls EXCEPT ![r] = @ + 1]
  /\ responses' = [responses EXCEPT ![r] = @ + 1]
  /\ at' = [at EXCEPT ![r] = "storing"]
  /\ UNCHANGED <<place, attempt, declinedCalls, stopped, judged, entry, temporary, started>>

MayRetry(r) == attempt[r] < MAX_ATTEMPTS

(* Mutated: the attempts never run out. *)
NextAttemptEndless(r) == IF attempt[r] + 1 < MAX_ATTEMPTS THEN attempt[r] + 1 ELSE 1

NextAttempt(r) == attempt[r] + 1

(* A transport failure or a retryable status. *)
Retry(r) ==
  /\ at[r] = "posting" /\ MayRetry(r)
  /\ attempt' = [attempt EXCEPT ![r] = NextAttempt(r)]
  /\ UNCHANGED <<at, place, answer, budget, judged, entry, temporary, ghosts>>

(* Attempts exhausted, or a status that is not retried. *)
GiveUp(r) ==
  /\ at[r] = "posting"
  /\ Decline(r)
  /\ UNCHANGED <<attempt, answer, spentTokens, spentCalls, stopped, entry, temporary, ghosts>>

(* Mutated: a reply of the wrong shape is asked for again. *)
AfterMisbehaviourRetry(r) ==
  IF MayRetry(r)
  THEN /\ attempt' = [attempt EXCEPT ![r] = NextAttempt(r)]
       /\ UNCHANGED <<at, place, judged, declinedCalls>>
  ELSE Decline(r) /\ UNCHANGED attempt

AfterMisbehaviour(r) == Decline(r) /\ UNCHANGED attempt

(* 200, and the body is not JSON, not a reply, or not what the schema declares. *)
Misbehave(r) ==
  /\ at[r] = "posting"
  /\ responses' = [responses EXCEPT ![r] = @ + 1]
  /\ AfterMisbehaviour(r)
  /\ UNCHANGED <<answer, spentTokens, spentCalls, stopped, entry, temporary, given, started>>

-----------------------------------------------------------------------------
(* Cache.put: a temporary file, then a rename over the entry. *)

WritingAside(r) == UNCHANGED entry

Write(r) ==
  /\ at[r] = "storing"
  /\ temporary' = temporary \cup {r}
  /\ at' = [at EXCEPT ![r] = "renaming"]
  /\ WritingAside(r)
  /\ UNCHANGED <<place, attempt, answer, budget, judged, ghosts>>

Rename(r) ==
  /\ at[r] = "renaming"
  /\ entry' = [entry EXCEPT ![Key(r)] = answer[r]]
  /\ temporary' = temporary \ {r}
  /\ Judge(r, "model", answer[r])
  /\ answer' = [answer EXCEPT ![r] = Missing]
  /\ UNCHANGED <<attempt, budget, ghosts>>

(* The directory cannot be written: the exception leaves triage altogether. *)
PutFails(r) ==
  /\ at[r] \in {"storing", "renaming"}
  /\ temporary' = temporary \ {r}
  /\ at' = [at EXCEPT ![r] = "dead"]
  /\ UNCHANGED <<place, attempt, answer, budget, judged, entry, ghosts>>

-----------------------------------------------------------------------------
(* The process is killed: what it left in the directory stays there. *)
Die(r) ==
  /\ at[r] \notin {"done", "dead"}
  /\ at' = [at EXCEPT ![r] = "dead"]
  /\ UNCHANGED <<place, attempt, answer, budget, judged, entry, temporary, ghosts>>

(* Metered.going_offline, for the caller that gives up on an unreachable provider. *)
GoOffline(r) ==
  /\ at[r] = "next" /\ ~stopped[r]
  /\ stopped' = [stopped EXCEPT ![r] = TRUE]
  /\ UNCHANGED <<at, place, attempt, answer, spentTokens, spentCalls, declinedCalls, judged,
                 entry, temporary, ghosts>>

(* Cache.clear, or somebody's rm. *)
Forget(k) ==
  /\ entry[k] # Missing
  /\ entry' = [entry EXCEPT ![k] = Missing]
  /\ UNCHANGED <<at, place, attempt, answer, budget, judged, temporary, ghosts>>

Work(r) ==
  \/ SkipSettled(r) \/ AskAbout(r) \/ Finish(r)
  \/ Hit(r) \/ Refuse(r) \/ Start(r)
  \/ Answered(r) \/ Retry(r) \/ GiveUp(r) \/ Misbehave(r)
  \/ Write(r) \/ Rename(r) \/ PutFails(r)

Next ==
  \/ \E r \in Run : Work(r) \/ Die(r) \/ GoOffline(r)
  \/ \E k \in Keys : Forget(k)

Spec == Init /\ [][Next]_vars

(* One thread per run, always at work; every POST ends, by _post's timeout. *)
FairSpec == Spec /\ \A r \in Run : WF_vars(Work(r))

-----------------------------------------------------------------------------
(* Every variable keeps its type. *)
TypeOK ==
  /\ at \in [Run -> {"next", "asking", "posting", "storing", "renaming", "done", "dead"}]
  /\ place \in [Run -> Nat] /\ \A r \in Run : place[r] <= Len(Worklist[r])
  /\ attempt \in [Run -> 0..MAX_ATTEMPTS]
  /\ answer \in [Run -> Answers \cup {Missing}]
  /\ spentTokens \in [Run -> Nat] /\ spentCalls \in [Run -> Nat]
  /\ declinedCalls \in [Run -> Nat] /\ stopped \in [Run -> BOOLEAN]
  /\ started \in [Run -> Nat] /\ responses \in [Run -> Nat]
  /\ temporary \subseteq Run
  /\ entry \in [Keys -> Answers \cup {Missing}]

(* Metered keeps the promise of a budget: a ceiling on tokens is overshot by less than *)
(* one response, and one on calls never (budget.Metered).                              *)
Ceiling(r) == INSTANCE SpendingCeiling WITH
  MaxTokens <- MaxTokens[r], MaxCalls <- MaxCalls[r],
  tokens <- spentTokens[r], calls <- spentCalls[r]

WithinOneResponse == \A r \in Run : Ceiling(r)!OneResponseOver

(* Each run implements SpendingCeiling: only a call that the budget had room for when   *)
(* it was made is a Spend, and it is one Spend however often it was retried; every other *)
(* step, a cache hit above all, leaves the run's ledger alone.                           *)
KeepsTheCeiling ==
  /\ \A r \in Run : Ceiling(r)!Init
  /\ [][\A r \in Run : [Ceiling(r)!Spend]_<<spentTokens[r], spentCalls[r]>>]_vars

(* Under a key the cache holds nothing or one whole answer that was given to that very *)
(* question: neither a crash inside put nor a concurrent put leaves a mixture or half. *)
EntriesWereGiven ==
  \A k \in Keys : entry[k] # Missing => <<k, entry[k]>> \in given

(* Every finding is judged once and in order, and each question asked ended as exactly *)
(* one of a hit, a charged call and a counted decline (Budget, TriageRun).             *)
Judgements(r, source) == Cardinality({n \in DOMAIN judged[r] : judged[r][n].source = source})

EveryQuestionIsBooked ==
  \A r \in Run :
    /\ Len(judged[r]) = place[r]
    /\ Judgements(r, "unavailable") = declinedCalls[r]
    /\ Judgements(r, "corpus")
         = Cardinality({n \in 1..place[r] : Worklist[r][n] \in Settled})
    /\ spentCalls[r] <= Judgements(r, "model")
                          + (IF at[r] \in {"storing", "renaming", "dead"} THEN 1 ELSE 0)

(* A model's verdict on a finding is an answer somebody gave about that finding. *)
VerdictsWereGiven ==
  \A r \in Run : \A n \in DOMAIN judged[r] :
     judged[r][n].source = "model" => <<<<Worklist[r][n], Name[r]>>, judged[r][n].answer>> \in given

(* "A model that answered the wrong shape once will usually answer it again": however a *)
(* question is retried, at most one 200 response is taken for it (http.HTTPProvider).   *)
OneResponsePerQuestion == \A r \in Run : responses[r] <= started[r]

(* A run ends, whatever the network does and whatever the other runs do to the cache. *)
EveryRunEnds == \A r \in Run : <>(at[r] \in {"done", "dead"})
=============================================================================
