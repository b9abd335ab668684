----------------------------- MODULE TargetRun -----------------------------
(***************************************************************************)
(* One command of the live tier: `manage.py check --deploy` run by the     *)
(* target's own interpreter, its output read through a pipe under a        *)
(* timeout, and the report parsed out of what was read.                    *)
(*                                                                         *)
(* The target is a tree of processes that fork, leave the group, close the *)
(* pipe, print and exit as they please.  Both streams are read alike, so   *)
(* there is one pipe; time is the moment a timeout may strike.  On Linux a *)
(* dead process keeps its group until it is waited for.                    *)
(***************************************************************************)
EXTENDS Integers, Sequences

CONSTANTS
  Leader,         \* the process djaudit starts
  Child,          \* bound: the processes it and its children may start
  Message,        \* what Django's checks may report
  OutputLimit,    \* OUTPUT_LIMIT, in lines
  MaxWritten      \* bound: lines the target prints

Process == {Leader} \cup Child

ASSUME TargetAssumption ==
  /\ Leader \notin Child /\ OutputLimit \in Nat /\ MaxWritten \in Nat
  /\ "noise" \notin Message /\ "footer" \notin Message /\ "djaudit" \notin Process

VARIABLES
  at,        \* start, reading, expired, draining or returned
  posix,     \* whether start_new_session does anything
  state,     \* state[p]: unborn, alive or dead
  group,     \* group[p]: target, djaudit or away
  holding,   \* the processes with the writing end of the pipe open
  written,   \* the lines printed so far
  code,      \* the leader's exit code, once dead of its own
  killed,    \* ghost: the processes djaudit killed, or "djaudit" itself
  outcome    \* Outcome, once returned

target == <<state, group, holding, written, code>>
vars == <<at, posix, target, killed, outcome>>

Running == -1
KILLED == -9
NoOutcome == [started |-> FALSE, code |-> Running, kept |-> <<>>, truncated |-> FALSE, late |-> FALSE]

Alive == {p \in Process : state[p] = "alive"}

-----------------------------------------------------------------------------
(* _truncate. *)

(* Mutated: the end of the output is kept, where the summary is. *)
LastOf(lines) ==
  IF Len(lines) <= OutputLimit THEN lines
  ELSE SubSeq(lines, Len(lines) - OutputLimit + 1, Len(lines))

FirstOf(lines) == IF Len(lines) <= OutputLimit THEN lines ELSE SubSeq(lines, 1, OutputLimit)

(* Mutated: whatever is read of a command that exited is the whole of it. *)
NeverCut(lines) == FALSE

Cut(lines) == Len(lines) > OutputLimit

Captured(lines, exit, late) ==
  [started |-> TRUE, code |-> exit, kept |-> FirstOf(lines), truncated |-> Cut(lines), late |-> late]

(* parse_report: there is a report when there is a summary line. *)
Reported == outcome.started /\ \E i \in DOMAIN outcome.kept : outcome.kept[i] = "footer"

Messages(lines) == {lines[i] : i \in DOMAIN lines} \cap Message

-----------------------------------------------------------------------------
Init ==
  /\ at = "start" /\ posix \in BOOLEAN
  /\ state = [p \in Process |-> "unborn"] /\ group = [p \in Process |-> "djaudit"]
  /\ holding = {} /\ written = <<>> /\ code = Running
  /\ killed = {} /\ outcome = NoOutcome

CannotStart ==
  /\ at = "start"
  /\ at' = "returned"
  /\ UNCHANGED <<posix, target, killed, outcome>>

Start ==
  /\ at = "start"
  /\ at' = "reading"
  /\ state' = [state EXCEPT ![Leader] = "alive"]
  /\ group' = [group EXCEPT ![Leader] = IF posix THEN "target" ELSE "djaudit"]
  /\ holding' = {Leader}
  /\ UNCHANGED <<posix, written, code, killed, outcome>>

-----------------------------------------------------------------------------
(* What the target may do at any moment. *)

Fork(p, c) ==
  /\ p \in Alive /\ state[c] = "unborn"
  /\ state' = [state EXCEPT ![c] = "alive"]
  /\ group' = [group EXCEPT ![c] = group[p]]
  /\ holding' = IF p \in holding THEN holding \cup {c} ELSE holding
  /\ UNCHANGED <<at, posix, written, code, killed, outcome>>

(* setsid(): not for a process that leads a group. *)
Leave(c) ==
  /\ c \in Alive /\ group[c] # "away"
  /\ group' = [group EXCEPT ![c] = "away"]
  /\ UNCHANGED <<at, posix, state, holding, written, code, killed, outcome>>

Close(p) ==
  /\ p \in Alive \cap holding
  /\ holding' = holding \ {p}
  /\ UNCHANGED <<at, posix, state, group, written, code, killed, outcome>>

Writes(p, line) ==
  /\ p \in Alive \cap holding /\ Len(written) < MaxWritten
  /\ written' = Append(written, line)
  /\ UNCHANGED <<at, posix, state, group, holding, code, killed, outcome>>

(* Django prints its messages, then the summary, and nothing after it. *)
Prints ==
  \/ \E p \in Process : Writes(p, "noise")
  \/ \E m \in Message \cup {"footer"} :
        (\A i \in DOMAIN written : written[i] # "footer") /\ Writes(Leader, m)

Exit(p) ==
  /\ p \in Alive
  /\ state' = [state EXCEPT ![p] = "dead"]
  /\ holding' = holding \ {p}
  /\ IF p = Leader THEN \E c \in {0, 1} : code' = c ELSE UNCHANGED code
  /\ UNCHANGED <<at, posix, group, written, killed, outcome>>

Target ==
  \/ \E p \in Process, c \in Child : Fork(p, c)
  \/ \E c \in Child : Leave(c)
  \/ \E p \in Process : Close(p) \/ Exit(p)
  \/ Prints

-----------------------------------------------------------------------------
(* communicate() returns when the pipe has no writer left and the leader is dead. *)

Ended == holding = {} /\ state[Leader] = "dead"

Return(o) == outcome' = o /\ at' = "returned"

Communicate ==
  /\ at = "reading" /\ Ended
  /\ Return(Captured(written, code, FALSE))
  /\ UNCHANGED <<posix, target, killed>>

Expire ==
  /\ at = "reading" /\ ~Ended
  /\ at' = "expired"
  /\ UNCHANGED <<posix, target, killed, outcome>>

InItsOwnGroup == posix /\ group[Leader] # "djaudit"

(* Mutated: the process is killed and its children are not. *)
LeaderOnly == {Leader} \cap Alive

Victims == IF InItsOwnGroup THEN {p \in Alive : group[p] = group[Leader]} ELSE {Leader} \cap Alive

(* killpg reaches whoever is in the group, djaudit too if it is djaudit's own. *)
Terminate ==
  /\ at = "expired"
  /\ at' = "draining"
  /\ state' = [p \in Process |-> IF p \in Victims THEN "dead" ELSE state[p]]
  /\ holding' = holding \ Victims
  /\ code' = IF Leader \in Victims THEN KILLED ELSE code
  /\ killed' = Victims \cup (IF InItsOwnGroup /\ group[Leader] = "djaudit" THEN {"djaudit"} ELSE {})
  /\ UNCHANGED <<posix, group, written, outcome>>

Drain ==
  /\ at = "draining" /\ Ended
  /\ Return(Captured(written, Running, TRUE))
  /\ UNCHANGED <<posix, target, killed>>

(* Mutated: the second read has no timeout of its own. *)
PatientlyAfter == Ended

GivingUp == ~Ended

(* The second timeout: what was read so far is dropped. *)
DrainExpire ==
  /\ at = "draining" /\ GivingUp
  /\ Return(Captured(<<>>, Running, TRUE))
  /\ UNCHANGED <<posix, target, killed>>

Runner ==
  \/ CannotStart \/ Start \/ Communicate \/ Expire \/ Terminate \/ Drain \/ DrainExpire

Next == Target \/ Runner

Spec == Init /\ [][Next]_vars

(* Both reads have a timeout; the target is promised nothing. *)
FairSpec == Spec /\ WF_vars(Runner)

-----------------------------------------------------------------------------
(* Every variable keeps its type; only the living hold the pipe. *)
TypeOK ==
  /\ at \in {"start", "reading", "expired", "draining", "returned"} /\ posix \in BOOLEAN
  /\ state \in [Process -> {"unborn", "alive", "dead"}]
  /\ group \in [Process -> {"target", "djaudit", "away"}]
  /\ holding \subseteq Alive
  /\ written \in Seq(Message \cup {"noise", "footer"})
  /\ code \in {Running, KILLED, 0, 1}
  /\ killed \subseteq Process \cup {"djaudit"}
  /\ outcome \in [started : BOOLEAN, code : {Running, 0, 1}, truncated : BOOLEAN, late : BOOLEAN,
                  kept : Seq(Message \cup {"noise", "footer"})]

(* djaudit never signals the group it is in itself: not the shell's, not the runner's *)
(* (_in_its_own_group).                                                               *)
SparesItself == "djaudit" \notin killed

(* Once the timeout has struck, nothing the command started and left in its group runs *)
(* on, nor anything those processes start later (_terminate).                          *)
NobodyOutlivesTheTimeout ==
  posix /\ (at = "draining" \/ (at = "returned" /\ outcome.late)) =>
    \A p \in Alive : group[p] # "target"

(* A command that is reported to have exited did so by itself, with that code, and its *)
(* output is all there unless the outcome says that it was cut (Outcome.ok).           *)
AnExitIsAnExit ==
  at = "returned" /\ outcome.started /\ outcome.code # Running =>
    /\ code = outcome.code /\ killed = {}
    /\ outcome.kept = written \/ outcome.truncated

(* The report holds every message Django printed: a check it does not mention passed, *)
(* which is what corroborate reads from it (checks.parse_report).                     *)
AReportIsWhole == at = "returned" /\ Reported => Messages(written) \subseteq Messages(outcome.kept)

(* run_command returns, whatever the target does ("a hard timeout"). *)
TheAuditGoesOn == <>(at = "returned")
=============================================================================
