# A TLA+ model of djaudit

djaudit is a deterministic static analyser for Django projects: rules over the
parsed source of a project, with an optional live tier that runs the target's
own `manage.py`, adapters for external tools (ruff, pip-audit), a language-model
layer (triage, explain, fix, generate) and an MCP server. The implementation is
`src/src/djaudit`, and paths below are relative to it. This directory is the
formal model kept beside it: TLA+ modules, TLC configurations, theorems checked
by TLAPS.

1. [Inventory](#1-inventory)
2. [Modules and the code they model](#2-modules-and-the-code-they-model)
3. [What the runs check](#3-what-the-runs-check)
4. [Fairness](#4-fairness)
5. [What is proved](#5-what-is-proved)
6. [Where the code and its documents disagree](#6-where-the-code-and-its-documents-disagree)
7. [What is not modelled](#7-what-is-not-modelled)
8. [Plan](#8-plan)

To run: `tlc -config TargetRun.cfg MCTargetRun`, `tlapm TargetRunProofs.tla`, and
the same with the other names. The runs are listed in `PROJECT.json` together
with, for every definition, the lines it stands for, and for every property a
mutation of the code that breaks it.

## 1. Inventory

How the parts meet: `cli.py` builds options and calls `engine.run`. The engine
selects rules from the registry, runs them over a context (discovered project,
settings resolver, model graph, dataflow, migration replay, live context),
passes their findings through suppression, scope, fingerprints, external
reports, baseline, overrides and thresholds, and returns a `RunResult`. The
other commands audit first and then work on the result: `triage` and `explain`
put findings to a model through `Cached(Metered(HTTPProvider))`; `fix` proposes
edits and verifies them by auditing copies; `generate` audits what a model
writes; the MCP server audits on request. Everything is one thread. The
concurrency is between processes: other djaudit runs on the same cache, editors
and CI jobs on the same tree and baseline, the target's own processes.

| Component | State | Operations | Interacts with | What is hard | What makes it correct |
|---|---|---|---|---|---|
| Audit engine (`engine.py`, `models.py`, `gcpolicy.py`) | collected and kept findings, severity, confidence and fingerprint of each, counters, rule errors | select, run a rule, corroborate, run the deferred rule, filter, assign, collect a tool's report, fold, baseline, override, threshold | rules, registry, suppression, scope, baseline, adapters, live context | seven filters whose order matters; two passes; rules and tools that raise | every finding is accounted for or hidden for a reason the user gave; identities are unique; a failure costs only its own findings |
| Rule registry (`registry.py`) | the catalogue | register, select | engine | include overrides everything but consent | no live rule without a live context |
| Filters and identities (`suppression.py`, `scope.py`, `pathfilter.py`, `fingerprint.py`) | none | suppressed, excluded, demoted, fingerprint | engine, baseline | statements over several lines, codes and blanket comments, occurrence indices | a suppression hides what it names; a fingerprint is one finding's |
| Degradation notice (`degradation.py`) | skipped rules and what covers them | assess | engine, reports | computed before anything has run | it says of every rule not run that it was not |
| Baseline (`baseline.py`) | a committed file of fingerprints | load, save, filter | engine, CI, developers | the tree moves on between save and load; save is not atomic | an accepted problem stays accepted, no more is hidden, a torn file is not an empty one |
| Adapters (`adapters/`) | claim tables | run the tool, read its report, claim | engine | tools that are missing, fail, or repeat a rule of ours | each external finding is reported once |
| Corroboration (`live/corroborate.py`) | confirmed checks and gaps | corroborate | engine, live checks, DJS-028 | silence of a check is no evidence | confidence only rises; no check of Django's is lost |
| Discovery (`discovery.py`, `context.py`, `urlconf.py`, `manifest.py`, `astutils.py`) | the project read once | discover | everything | unreadable files | what could not be read is a diagnostic |
| Database engines (`engines.py`, `rules/portability.py`) | none | classify, live definitions, divergence, judge a use | settings resolver, model graph | which assignment a deployment is left with; what each database does with a query | what is said to run with nothing set does; a use is named where two databases differ on it |
| Settings resolver (`settings.py`, `values.py`, `evaluator.py`, `configurations.py`) | one scope of abstract values, definitions | visit, record, evaluate, assess | the settings rules | branches, exceptions, environments, mutation, several files | certain means true of every run; "cannot be" means no run |
| Model graph (`graph/`) | models, fields, relations | build, inherit, query | model rules, dataflow | abstract and multi-table inheritance, keywords that are computed | what is not known is marked as such |
| Dataflow (`dataflow/`) | taint and query facts of a function | fixpoints over scopes, loops, calls | injection and performance rules | joins, loops, calls between functions | a fact holds on every path, or taint is kept |
| REST framework analysis (`api/`) | routes, views, serializers, permissions | resolve | API rules | defaults in settings, inheritance | effective permissions are what Django would apply |
| Migrations (`migrations/`) | graph of migrations, replayed columns, doubt | parse, plan, replay | migration rules | renames, deletions, partly readable operations, several apps | what an operation is told of the past is so |
| Rules (`rules/`) | none | inspect | all of the above | each is a judgement over facts that may be partial | silent where it does not know |
| Live tier (`live/`) | consent, interpreter, outcome of a command | run a command under a timeout, parse the report, compare locks and tables | the target's processes | timeouts racing exits, children that outlive their parent, pipes kept open | returns in time, leaves nothing running, a partial report is not taken for a clean one |
| Model calls (`llm/budget.py`, `http.py`, `provider.py`, `cache.py`, `triage.py`) | budget, cache directory, judgements | ask, retry, decline, charge, store | HTTP endpoint, other runs | retries, crashes in a write, ceilings checked before the price is known | ceilings hold to within one response; an answer is served only to its question; every finding is judged once |
| Generate (`generate/`) | versions audited, outcome, the app on disk | ask, check, audit, compare, commit | model, engine, the project | four stopping conditions, features dropped along the way, somebody else's app | it ends; nothing declared is lost; only accepted work is written; half an app is never passed off as one |
| Fix (`llm/fix.py`, `verify.py`, `edit.py`) | proposed, accepted and rejected fixes | propose, combine, verify, bisect, print | engine on copies, the operator's suite | fixes that interfere, files that change meanwhile, flaky suites | nothing ships that did not hold up in its own text; a level was earned by a copy that held all of what ships |
| Explain, suggest, group, impact, prompts (`llm/`) | none | text for a model and from it | triage, MCP | a file that has moved on | a proposal is for the line it was made from |
| MCP server (`mcp/server.py`) | handshake | initialize, list, call | engine | handlers that raise, stdout is the wire | one answer per request |
| Command line, reports, benchmark, scripts (`cli.py`, `reporters/`, `benchmark.py`, `src/scripts`) | options, exit codes | parse, print | all | exit codes that CI acts on | incomplete is not clean |

`PROJECT.json` lists every component with its status, and the hazards, each at
its line with the properties aimed at it.

## 2. Modules and the code they model

| Module | Code | Correspondence |
|---|---|---|
| `Findings` | suppression, path filter, scope, fingerprint | Operators only. A line of source is the set of directives in its comments; a path is a sequence of segments; a fingerprint is (rule, file, snippet) with an occurrence index. |
| `AuditRun` | `engine._audit` with `registry.select`, `degradation.assess`, `corroborate`, DJS-028, `fp.assign`, the adapters, `merge`, `Baseline.filter` | `phase` is the next statement; one action per statement. Rules of one pass run in any order. A rule yields any subset of its findings or raises; so does a tool; Django reports any set of checks. |
| `BaselineLife` | `baseline.save`, `load`, `filter`, the `run` command around them, `fp.assign` | Three processes over one tree and one file: an editor (insert, remove, suppress and lift a suppression; a reordering is two edits), a writer whose save truncates and then writes, an auditor that loads and then audits. Either may stop in between. |
| `ModelCalls` | `triage.judge`, `Cached`, `Metered`, `HTTPProvider`, `AnswerCache` | A set of runs over one cache directory. A question is Hit, Refuse or Start; a POST is Answered, Retry, GiveUp or Misbehave; a store is Write, Rename or PutFails. Anybody may die, go offline or delete an entry. |
| `SpendingCeiling` | what `llm/budget.py` promises | The abstract specification of a budget: a call starts below the ceilings and costs at most a response. `ModelCalls` implements it once per run (`KeepsTheCeiling`, an `INSTANCE ... WITH` per run). |
| `GenerateLoop` | `generate/loop.py`, `scaffold.commit`, the `generate` command | A version of the app is its shape, what it declares, its problems and its suppressions. One action per step of the loop; `commit` takes two steps between which a run may be killed, others write to the project at any time, and the command is run again on what is there. |
| `FixVerify` | `llm/fix.py`, `verify.verified`, the `fix` command | `Engine(world, tree)` says what the rules find in a tree, so every interplay of fixes is a world. Fixes remember the version of the file they were made from. |
| `TargetRun` | `live/runner.py`, `checks.parse_report` | The target is a tree of processes that fork, leave the group, close the pipe, print, exit. `Communicate`, `Expire`, `Terminate`, `Drain` are the runner; the timeouts may strike at any moment. |
| `SettingsChain` | `settings.py`, `values.py`, the evaluator's expressions, `assess` | The resolver and Python read the same lines side by side: `scope` is the resolver's, `runs` is the set of concrete executions over every environment and every failure. |
| `MigrationReplay` | `migrations/state.py`, `rules/_migrations.py`, `rules/djm_alterfield_rewrite.py` | The replay and the database apply the same operations: `models` and `unknown` are the replay's, `table` is the database. `applied` is the last `Applied`, with the change the operation really made. |
| `MigrationPlan` | `migrations/graph.py` | A project is a set of files, each with what it needs, what of that is read and what it replaces. `plan` is a function of them; Django's loader and executor are written beside it, and the plan must be a run order of theirs. Where two squashes replace one migration and neither replaces the other (`Contested`), the code takes the later, and what Django takes depends on which it reads first: the model knows the one answer, and the property asks nothing about the order there. |
| `MigrationRules` | the ten DJM rules, `rules/_migrations.py`, `live/locks.py`, `tables.py`, `sqlmigrate.py` | Extends `MigrationReplay`. One action writes an operation of the leaf; what the rules say is a function of it, and so are the statements Django makes of it, the locks Postgres takes and holds, what the release in production still names and where a rollback stops. |
| `SettingsRules` | `rules/_base.py` and 25 DJS rules (`settings`, `secrets`, `transport`, `hosts`, `auth`, `database`, `exposure`) | `Begin` and one action per outcome of `inspect`, group after group, with what the rule object remembers in between. A value is the set of branches `SettingsChain` resolves, each a token for what the rule makes of it; beside it, what a deployment may be exposed to. |
| `ApiRules` | `api/views.py`, `permissions.py`, `routes.py`, `rules/authorization.py`, `availability.py` | One view with an ancestor and the settings; declarations one at a time, then the audit. Beside it, what the framework answers each caller. |
| `SerializerRules` | `api/serializers.py`, `rules/serialization.py` | Three serializers, two of which inherit; a field, a Meta, an option at a time. Beside it, what a response holds and a request may set. |
| `QuerysetRules` | `api/querysets.py`, DJA-004, DJA-005 | A viewset with an ancestor; the parts of its querysets one at a time. Beside it, the rows each caller is handed. |
| `PortabilityRules` | `engines.py`, `rules/portability.py` | Assignments of DATABASES one at a time in three files. Beside it, what every deployment (a file and the levers set in its environment) connects to. |
| `ReachingDefs` | `dataflow/scopes.py`, `chains.py` | A function is written line by line, each statement a line that says which part of which block it stands in (`open` is the stack of blocks being written), and then analysed: `chains` holds the definitions of every use, and `python` what is observed in the runs of the function, with early exits and exceptions. Walk and runs are recursive functions over lines, since what a line walks lies further down. |
| `TaintRules` | `dataflow/taint.py`, `strings.py`, the DJI rules | Over `ReachingDefs`: what request data reaches a call, next to what the call is given. |
| `QueryRules` | `dataflow/querysets.py`, `chaining.py`, `loops.py`, DJP-001, 002, 004 to 009 | Over `ReachingDefs`: what a loop runs over and its body asks, next to the queries Django runs. |

The analyses and the rules are pure functions of what is written, so in those
modules the *state* is the program being written and its real execution, and the
code's functions are operators over it. Three MC modules put machines that share
no state in one run (`MCProjectRules` five, `MCMigrations` three, and
`MCSourceRules` the two analyses over one function): a variable says which
machine a behaviour runs.

`MC*.tla` modules hold the values of the constants; `*Proofs.tla` the theorems
(`AuditProofs` those of `AuditRun` and of `ReachingDefs`, which the audited rules
stand on, `RulesProofs` those of `SettingsChain`, `SettingsRules`, `SerializerRules`,
`ApiRules`, `QuerysetRules` and `PortabilityRules`, `MigrationProofs` those of `MigrationPlan`, `MigrationReplay` and `MigrationRules`).

Abstractions worth knowing before a change is made: the order of the report and
all wording are left out; findings, prompts, files, declarations and tools are
elements of small sets; globbing, hashing and comment syntax are relations;
time is the moment at which a timeout may strike. External code (Python's
semantics of a settings file, the database, the network, the operating system's
processes) is modelled from how djaudit uses it and marked `external` in the map.

## 3. What the runs check

| Run | Configuration | Distinct states | Properties | What it shows |
|---|---|---|---|---|
| audit | `AuditRun.cfg` | 14,730 | `ReportIsAsAsked`, `IdentityUnique`, `LiveNeedsConsent`, `DjangoIsHeard`, `EveryoneIsTried` | The whole audit under nine option sets, every subset of findings the rules and tools may yield, any of them raising and every deployment report: filters, counters, identities, the live tier and isolation. |
| baseline | `BaselineLife.cfg` | 551,047 | `ReportsTheExcess` | Four edits to a file of three problems, two alike, interleaved with a process writing a baseline and one auditing against it, either of which may stop half-way. |
| model_calls | `ModelCalls.cfg` | 528,666 | `EveryQuestionIsBooked`, `VerdictsWereGiven`, `OneResponsePerQuestion`, `KeepsTheCeiling`, `EveryRunEnds` | Two triage runs over one cache directory, one with a token ceiling and one with a call ceiling, under retries, refusals, malformed replies, crashes, failing cache writes and deletions. |
| generate | `GenerateLoop.cfg` | 81,878 | `EachCallBoughtProgress`, `OnlyAcceptedWorkIsWritten`, `HalfWrittenIsNeverPassedOff`, `TheLoopEnds` | Three passes over every combination of two features and two problems, with replies that do not parse, are fenced or carry suppressions, rules that crash, declines at any question, kills at any point, further runs over what was left, and somebody else writing to the project. |
| fix | `FixVerify.cfg` | 1,917,604 | `LevelIsOfWhatShips`, `ShippedHeldUpInItsText` | Three fixes in two files, in every world in which some sets of fixes provoke a new finding and some fixes do not take, with a rule that crashes now and then, a flaky suite, failed copies and a file edited at any moment. |
| fix_together | `FixVerify_WhatShipsPassedTogether.cfg` | violated, as expected | `WhatShipsPassedTogether` | Fixes that fail together and pass one by one are all accepted. |
| target | `TargetRun.cfg` | 39,248 | `NobodyOutlivesTheTimeout`, `AnExitIsAnExit`, `AReportIsWhole`, `TheAuditGoesOn` | A manage.py and two children that fork, leave the group, close the pipe, print past the limit and exit in every order, with the two timeouts striking at every moment, where process groups exist and where they do not. |
| settings | `SettingsChain.cfg` | 1,304,182 | `CertaintyIsEarned`, `SilenceIsSafe` | Every settings package of four statements in two files, over two settings and one environment variable, resolved and run side by side in every deployment: what a rule is told is true of each run that loads. |
| project_rules | `ProjectRules.cfg` | 1,114,869 | `RisksAreJudged`, `EndpointsAreJudged`, `SerializersAreJudged`, `QuerysetsAreJudged`, `EnginesAreJudged` | What rules say of what a project declares: twenty settings rules, each on every project of a base, a production file built on it and an unnamed settings file with up to three assignments; eight API rules on every view that three declarations on it, its ancestor and the settings can make, asked by every caller; five serializer rules on every three serializers that three things written in two of them can make; two rules about rows on every viewset and mixin of three parts, run by every caller under every switch; the nine rules about databases on every three assignments of DATABASES in three settings files, in every deployment. |
| serializer_overruled | `ProjectRules_ReadOnlyIsRefused.cfg` | violated, as expected | `ReadOnlyIsRefused` | A field that is declared and also listed in read_only_fields is taken for read-only, and the framework accepts a write to it. |
| source_rules | `SourceRules.cfg` | 1,563,410 | `DefinitionsAreTheOnesSeen`, `ReportsReachTheSink`, `RequestDataIsReported`, `QueryReportsAreReal`, `QueriesRunAreReported` | Every function of up to four statements in fourteen styles, with branches, loops, matches, handlers and early exits: the definitions said to reach a name are those Python takes its value from, what each injection rule says a call is given it is given, and the queries each performance rule says a loop or a call costs are those Django runs. |
| migrations | `Migrations.cfg` | 853,629 | `FactsAreTrue`, `VerdictIsTrue`, `PlanIsARunOrder`, `ReleasesBreakAsReported`, `TablesInServiceAreJudged`, `PendingStallsAreReported`, `DataPassesAreJudged` | Three questions of a project's migrations in one run: the files of two apps, with squashes of squashes and dependencies that cannot be read, are put in the order Django would run them in; every history of four operations over two models is replayed and applied side by side; and every leaf of three operations, in six styles, is judged by DJM-001 to DJM-010 as its deployment and its rollback turn out. |

The bounds, and why they are enough:

- **audit**: ten findings of six shapes. Two of them are alike and one of the
  two is suppressed, so that occurrence indices and suppression meet; two tools
  share a rule id, so that identities meet; one check corroborates a rule and
  one is a gap; nine option records turn on each filter alone and in the pairs
  that touch the same finding. Every subset of findings, every subset of failing
  rules and every report is taken. Filters act on one finding or on a pair with
  one fingerprint, so more findings of the same shapes add nothing. The proofs
  have no bound.
- **baseline**: three problems, two alike, and four edits. The shortest way to
  shift an index (insert before, remove, suppress) is one edit, a reordering is two;
  accepting and shifting and accepting again needs three.
- **model calls**: two runs, two questions and a settled finding. One ceiling of
  each kind, a usage that is reported and one that is not (0), and two endpoints
  under one name (`MCEndpoint`), since the cache does not tell them apart. Two
  writers are enough for every interleaving of `put`, whose files are per
  process.
- **generate**: two names, two problems, three iterations: a regression against
  the version before last needs three.
- **fix**: three fixes, two in one file: the least with a pair that interferes
  and a bystander; one edit of a file, since `base` only tells versions apart.
- **target**: a leader, two children (one that stays, one that leaves), three
  lines of output against a limit of two.
- **settings**: four statements in two files, two interchangeable settings, lists
  of at most two tokens, blocks two deep. A value goes wrong by an assignment, a
  block around or after it, and a second assignment or mutation; the fourth
  statement reads the result through another name. `Habits` is empty: the three
  habits of authors under which the resolver is known to be wrong (late star
  imports, a shared list, a helper that mutates) each break a property (section 6).
- **project_rules**. *Settings*: a base, a production and an unnamed file, three
  assignments: one to misjudge, one to correct it, one to leave open; the production
  file always builds on the base, the unnamed one may; 20 of the 25 rules, since
  `SslRedirectDisabled`, `HstsNotEnforced`, `CsrfCookieNotSecure`,
  `SessionCookieNotHttpOnly` and `ContentTypeSniffingAllowed` differ from one that
  is there in the severity, the ceiling or the default only, or ask less of the
  other settings.
  *Views*: three declarations, which is one each on the view, its ancestor and the
  settings; a viewset behind a router or a decorated function, since a class behind
  `path()` differs from the first in having no extra action (ApiRules has all three). *Serializers*: three things written, enough for a field, an option of
  an inherited Meta and a nested serializer. *Querysets*: three parts; four was
  tried once and found nothing more. *Engines*: three files of which one is
  shared, two levers, three assignments: a plain one, one under a test and one
  that kills or overrides either.
- **source_rules**: at most four statements, blocks at most two deep, in fourteen
  styles (`TheStyles`): one style with every shape of statement and one name for
  the reaching definitions, and for each group of rules the values and calls they
  tell apart. A loop's second turn is where a late binding matters; a third adds nothing
  to what reaches a read. Python's loops turn until nothing new comes round, and at most
  `MaxTurns` times: with 6 none of these is cut short, with 3 some are. `Holdings` is what
  the two rule modules' values are made of.
- **migrations**. *Plan*: four migrations in two apps with two dependencies each
  and squashes of squashes. *Replay*: two models, two columns, two migrations,
  four operations, at most one column in an operation that carries several; two
  models are needed for a rename, two operations before and one after it for
  doubt to travel and come back. A project computes `null` only (`Computed`); a
  computed `max_length` breaks `NoFalseAlarm` (section 6). *Leaf*: three
  operations over two models, in six styles, each the operations one group of
  rules tells apart. All 21 patterns of `live/locks.py` are in `RULES`, in their
  order. The sixth style is for the statements that look alike, where the order of the
  patterns decides: an index built or dropped with and without CONCURRENTLY, a
  constraint added with and without NOT VALID and then validated, ADD COLUMN with a
  constant or VOLATILE default, SET and DROP NOT NULL. No operation of a leaf makes a
  TRUNCATE or a `SET (`, and the rows that statements of data write are left out, so three of
  the patterns meet no statement.

`CHECK_DEADLOCK FALSE` is given where the modelled program really stops: a run
of `triage`, `fix` or a target command ends, a settings package, a
history, a function and a view have a last line. `AuditRun` instead stutters at its end, and
`BaselineLife` and `GenerateLoop`, where the command is run again, never end.

Symmetry is used in the settings and migrations runs only, over names that the
specification and the constants treat alike, and these runs check no liveness.

Several properties are conjunctions of named parts, one per question a rule
answers; each part has a comment where it is defined. Definitions that no run lists
are kept where a theorem states them or section 6 refers to them.

## 4. Fairness

Four specifications state fairness, and each only of djaudit's own thread.

- `AuditRun`: `WF_vars(Next)`. The audit is one function; a rule or a tool
  either returns or raises (external tools run under a timeout of their own).
  `EveryoneIsTried` rests on it.
- `ModelCalls`: `WF_vars(Work(r))` for each run. A POST always ends, by the
  timeout of `http._post`. Nothing is assumed of the network, of the other runs
  or of whoever deletes entries; a run may die, which is what `EveryRunEnds`
  allows for.
- `GenerateLoop`: `WF_vars(Work)`, for the same reason. The model may answer
  anything for ever; `TheLoopEnds` holds because of the ceiling and of what a
  repair must clear.
- `TargetRun`: `WF_vars(Runner)`. Both reads have a timeout. The target is
  promised nothing: it may never exit, print or close the pipe.

The other modules state no liveness, so no fairness: what they model is a pure
function of what is written, or a sequence that may stop anywhere.

## 5. What is proved

Everything below is checked by TLAPS for every value of the constants that
satisfies the module's named assumptions, with no step left out.

| Module | Theorem | Property | What it says |
|---|---|---|---|
| `AuditProofs` | `TypeCorrect` | (no run of its own) | Every reachable state of an audit is well typed for every catalogue, project, tool set and option record; no counter goes below zero. |
| `AuditProofs` | `EveryFindingAccountedFor` | (no run of its own) | The counters of RunResult sum to the findings produced on every audit. |
| `AuditProofs` | `OneFingerprintOneFinding` | `IdentityUnique` | No two findings of one report share a fingerprint, with any number of external tools whose ids collide. |
| `AuditProofs` | `LiveTierNeedsConsent` | `LiveNeedsConsent` | No live rule runs without a live context whatever is included, and each one not run is listed as skipped. |
| `AuditProofs` | `TheReportIsAsAsked` | `ReportIsAsAsked` | The report is exactly what the directives, patterns, baseline, overrides and thresholds make of what the rules and tools found, whatever the catalogue, the project and the tools: no order of the passes shows in it. |
| `AuditProofs` | `EverySecurityCheckIsHeard` | `DjangoIsHeard` | Every security check that the target's Django reported is in the report of the rule it confirms or in a gap of its own, provided two gaps are told apart. |
| `AuditProofs` | `ConfidenceOnlyRises` | (no run of its own) | No step of an audit lowers the confidence of a finding. |
| `BaselineLifeProofs` | `TypeCorrect` | (no run of its own) | Every variable keeps its type, and only a problem that is in the file is ignored, for any problems, snippets and number of edits. |
| `BaselineLifeProofs` | `ReportsExactlyTheExcess` | `ReportsTheExcess` | Of each snippet an audit reports exactly the problems beyond those its baseline accepted, whatever was inserted, removed or suppressed between the two: the occurrence indices of one snippet are 0 .. n - 1. |
| `BaselineLifeProofs` | `TornFilesAreRefused` | (no run of its own) | No audit starts from a baseline that is missing or half written, and one that starts has the whole list. |
| `ModelCallsProofs` | `TypeCorrect` | (no run of its own) | Types of every run, budget and cache entry, and no question is attempted more than MAX_ATTEMPTS times. |
| `ModelCallsProofs` | `RunsKeepTheCeiling` | `KeepsTheCeiling` | Each of any number of runs implements SpendingCeiling under its own ceilings. |
| `ModelCallsProofs` | `OvershotByOneResponse` | (no run of its own) | No token ceiling is overshot by a whole response, and no call ceiling at all. |
| `ModelCallsProofs` | `CacheHoldsWholeAnswers` | (no run of its own) | Whatever is stored was given whole to the question it is stored under. |
| `ModelCallsProofs` | `ModelVerdictsAreAnswers` | `VerdictsWereGiven` | Every verdict attributed to a model was given to that finding's question. |
| `ModelCallsProofs` | `OneResponseEach` | `OneResponsePerQuestion` | However often a question is retried, one 200 response at most is taken for it. |
| `ModelCallsProofs` | `NoQuestionGoesUnbooked` | `EveryQuestionIsBooked` | Every finding is judged once and in order, and every question ends as a hit, a charged call or a counted decline, for any number of runs, crashes and deletions. |
| `GenerateLoopProofs` | `TypeCorrect` | (no run of its own) | Types, and no run audits more versions than its ceiling. |
| `GenerateLoopProofs` | `NoFeatureIsTradedForSilence` | (no run of its own) | The accepted version declares all that every earlier one declared, for any number of passes and any replies. |
| `GenerateLoopProofs` | `StalledOnce` | `EachCallBoughtProgress` | Every repair but a run's last cleared a finding. |
| `GenerateLoopProofs` | `OnlyTheAcceptedIsCommitted` | `OnlyAcceptedWorkIsWritten` | Only the last audited version of an accepted run under --write reaches the project, it parses and has no marker, and no run writes over what an earlier one wrote. |
| `GenerateLoopProofs` | `TheHalfWrittenIsRefused` | `HalfWrittenIsNeverPassedOff` | What a killed run left of an app is refused by every later run, with the error exit code, for any number of runs. |
| `FixVerifyProofs` | `TypeCorrect` | (no run of its own) | Every variable of fix --verify keeps its type, in every project, with any engine. |
| `FixVerifyProofs` | `EveryFixIsAccountedFor` | (no run of its own) | Every proposed fix is accepted or named in a rejection. |
| `FixVerifyProofs` | `PrecisionCostsWhatItSays` | (no run of its own) | A batch that passes costs one engine run, and one that fails at most one more per fix and one for the survivors, for any number of fixes. |
| `FixVerifyProofs` | `NoneShipsUntried` | `ShippedHeldUpInItsText` | A fix that ships passed a verification in the text it was made from, however the project was edited meanwhile, unless it was tried with a fix of its file made from another text. |
| `FixVerifyProofs` | `AssuranceIsEarned` | `LevelIsOfWhatShips` | When a level is printed over changes, one copy passed that held all of them together, beside none but changes to be confirmed first, and its suite ran exactly when the level says so. (That the printed set alone was never tried when there are such changes is in the README.) |
| `TargetRunProofs` | `TypeCorrect` | (no run of its own) | Every variable of a target command keeps its type, for any tree of processes. |
| `TargetRunProofs` | `NeverItsOwnGroup` | (no run of its own) | djaudit never signals the process group it is in itself, on any platform. |
| `TargetRunProofs` | `TheGroupIsGone` | `NobodyOutlivesTheTimeout` | After a timeout nothing the command started and left in its group runs, nor will, however it forked while it was killed. |
| `TargetRunProofs` | `ExitsAreReal` | `AnExitIsAnExit` | An exit code is reported only of a command that exited with it, with its whole output or a mark that it was cut. |
| `TargetRunProofs` | `ReportsAreWhole` | `AReportIsWhole` | For every output and every limit, a report with its summary line has every message that was printed. |
| `RulesProofs` | `ChainIsDescribed` | (no run of its own) | In every settings package, for any settings, environments and number of statements, each scope the resolver keeps describes the variables of every run of the package that the same statements have reached: the inductive invariant, for a project with none of the habits the resolver is known not to see. |
| `RulesProofs` | `CertaintyHolds` | `CertaintyIsEarned` | A value the resolver calls certain is the value of every run that loads, for any settings, environments and number of statements. |
| `RulesProofs` | `SilenceHolds` | `SilenceIsSafe` | A value a run ends with is never one the resolver has excluded, and no deployment runs a branch it has discarded. |
| `RulesProofs` | `CorrectionsAreReal` | (no run of its own) | A finding toned down because the heirs of a base correct it is right about each of them, for any number of settings files and any catalogue of rules that meets the assumptions. |
| `RulesProofs` | `RisksHold` | `RisksAreJudged` | Of every rule of the catalogue and every project of settings files, however many and whatever they assign: a firm finding is of a risk that a deployment can run, a certain one of a risk that every deployment runs, and a risk that every deployment of the module a group is judged by runs has a finding; the file that a debug package is spelled out in is one that is judged. |
| `RulesProofs` | `EndpointsHold` | `EndpointsAreJudged` | What the rules about access and availability say of an endpoint is so of every request to it, however the view is routed and whatever its class, its ancestor and the settings declare; the authors have none of the four habits that the reading of a view does not follow. |
| `RulesProofs` | `SerializersHold` | `SerializersAreJudged` | Whatever a serializer declares, excludes and names, the rules report what a response gives away and what a request may set, and nothing a response or a request does not do. |
| `AuditProofs` | `DefinitionsHold` | `DefinitionsAreTheOnesSeen` | Where the authors do nothing that makes the analysis lose sight of a definition: of every function, with any names, values, blocks and depth, the definitions said to reach a name are, none missing, those that some run of it supplies the name with, and but for functions with a handler none is there that no run reads. |
| `RulesProofs` | `EnginesHold` | `EnginesAreJudged` | Where the authors change no dict in place, leave no later if to take every deployment of an earlier assignment, and ask for levers to be set where something is assigned outright: each engine named is reached under the tests it is said to need, the one of nothing set is that one, none that may be reached is ruled out, two behind one connection are reported, and a use is named for what two reached engines do differently. |
| `RulesProofs` | `QuerysetsHold` | `QuerysetsAreJudged` | Whatever is written of a viewset and its ancestor, statement by statement and however much of it: a list endpoint reported as handing out everybody's rows does so, one that does without consulting the request is reported, and a get_object is reported exactly when it hands out a row the permission would refuse, each but for the shapes its own property names. |
| `MigrationProofs` | `TypeCorrect` | (no run of its own) | The variables keep their types, and a model that is followed is a table. |
| `MigrationProofs` | `HistoryIsTold` | `FactsAreTrue` | Whatever the models, columns, declarations and history, what an operation is told of the past is so: the inductive invariant relates each model's replayed state to its table. |
| `MigrationProofs` | `NoLockIsMissed` | (no run of its own) | DJM-002 misses no lock on a table with rows unless the prior column or a keyword was not to be read, whatever a project computes. |
| `MigrationProofs` | `JudgedByTheTruth` | `VerdictIsTrue` | Where no max_length is computed, DJM-002 reports exactly what locks a table with rows, up to what could not be read. |
| `MigrationProofs` | `PlanHolds` | `PlanIsARunOrder` | The plan holds every migration Django would run, once and after all it needs, and reports a cycle just when there is one, for any apps, numbers, squashes and dependencies; unless one could not be read or two squashes contest a migration. An app's only leaf is the last of it. |
| `MigrationProofs` | `LeafIsWritten` | (no run of its own) | A leaf of any length, in any style, is written of operations that apply to the tables they meet, over declared fields: the inductive invariant of the migration rules. |
| `MigrationProofs` | `TablesAreJudged` | `TablesInServiceAreJudged` | DJM-001, DJM-002, DJM-003 and DJM-009 report exactly what refuses rows or stops a table in service for its length, for any models, columns, styles and length of leaf. |
| `MigrationProofs` | `PendingStallsAreSeen` | `PendingStallsAreReported` | The first of the twenty-one rules that matches a statement of Django's says of it what Postgres does, but of a text that grows; so DJM-010 passes over no statement that stops a table in service, whatever the leaf. |
| `MigrationProofs` | `ReleasesAreWarned` | `ReleasesBreakAsReported` | DJM-004 and DJM-005 report a name only when the release in production is left without it, pinned before or after, and no leaf takes a name from it without a report, saying so itself or a pin that cannot be read, whatever its length; where the fields with a table of their own have no db_column. |
| `MigrationProofs` | `DataPassesAreSeen` | `DataPassesAreJudged` | DJM-006, DJM-007 and DJM-008 report the locks a data pass holds, the rollback it blocks and the table it reads whole; and DJM-008 nothing else but an operation before the pass that no request waits for. |

The arguments:

- **AuditRun** (`FindingAssumption`, `AuditAssumption`). The invariant has three parts. *Books*: between any
  two statements the counters plus what is kept sum to what was produced, which
  needs the cardinalities of the sets each filter splits. *Identities*: from `assign` on no two kept findings share a fingerprint, and
  before the fold no two of one tool's do; `IdentityUnique` alone is not
  inductive, since it speaks of the phases after the fold only. *Passes*: what has
  run and what is left is the selection, and what is skipped was computed from
  it, needed for `LiveNeedsConsent`. Three more parts serve one property each. *Listed*
  and *Weighed* say at every phase which findings are on the list, with what severity,
  confidence and identity, in terms of what was found and asked and not of the passes
  (`SaidOfWhatWasFound`), which is `ReportIsAsAsked` at the end. *Corroboration*
  says that a confirmed check has its rule's finding, certain, among those
  collected, and that DJS-028 runs after the confirmations, so its gaps are the
  rest; that needs `GapsAreToldApart`.
- **ModelCalls** (`CallAssumption`). `LedgerInv` is `TypeOK`, *Midway* (a run with
  a question in hand has not finished its worklist) and *Affordable* (the
  budget has room for every question that is being posted).
  Affordable is what makes a charge a `Spend` of `SpendingCeiling`: that each run
  implements it is the refinement theorem, and `OvershotByOneResponse` follows
  from an invariant of the abstract specification. *Provenance* ties the answer
  in hand, the entries and the verdicts to the answers given. *Booked* is
  `EveryQuestionIsBooked` run by run, inductive together with *OnlyTheUnsettled*
  (nobody asks about what the corpus settles); it rests on what a count over a
  sequence does when one is appended (`OneMoreJudgement`). *AwaitedOnce* says that
  a question being posted has not been answered.
- **GenerateLoop** (`GenerateAssumption`). *Stages* ties `at` to `outcome` and to
  the number of iterations; *Kept* says that the version to compare with
  declares all that the versions before it did, *Progress* that each repair but the last cleared something,
  *Delivery* what may be in the project: while a run asks and judges, nothing a run before it
  wrote, whole or in part. What is declared is carried from one version to
  the next by `ChainGrows`, so no induction over the sequence is needed.
- **FixVerify** (`FixAssumption`). *Told* says that accepted, rejected and
  still to try make up what was proposed, *Held* that each fix accepted passed in the
  text it was made from (`MadeInItsText`) and that an accepted batch is the set accepted;
  what is printed is that set without the conditional fixes, so the copy that earned a
  level held what is printed and only conditional fixes beside it. *Paid* carries the price:
  while fixes are tried one by one only single fixes have passed, and the runs paid
  for plus the fixes still to try stay below the fixes proposed and one. That a set of naturals has a first
  element, which `First` chooses, is proved from well-foundedness.
- **TargetRun** (`TargetAssumption`). `NobodyOutlivesTheTimeout` is about every
  fork after the kill, so the invariant says that the group is empty once it was
  signalled; a process is in the group only if its parent was
  (`TheGroupStaysEmpty`). *FooterLast* says that no message follows the
  summary, *Sealed* that what was returned is a beginning of all that was or will
  be written (`FirstOfIsABeginning`, `TheEndIsTheEnd`), so that a beginning which
  holds the summary holds every message. *Untouched* says that nothing was
  signalled before the timeout struck.
- **BaselineLife** (`MaxEditsIsANumber`). *Describes* says
  that a set of fingerprints tells, of each snippet, how many problems there were.
  It holds because the occurrence indices of the problems with one snippet are
  0 .. n - 1 (an injection of positions onto their ranks), and it is carried by
  the writer, the file and the auditor alike; a finding is then beyond the baseline
  exactly when its index is at or above the tally that was accepted.
- **SettingsChain** (its named assumptions, and the hypothesis `Steady`: `Habits` is empty).
  *ChainInv* says that the scope describes every run, those included that are
  elsewhere at the line: a run in another arm, or one that has fled to a handler, comes
  back, so a property of the runs that are on the line is not inductive. A value describes
  a run when one of its lists is what the run has; of a run that took something from
  the environment that is only asked where the value is literal and untainted.
  *Followed* ties the arm each run is in to the verdict the resolver reached on the test, so no run is in an
  arm it discarded, and a name that is not doubtful is bound in every run, so an
  assignment that replaces the old value replaces it in all of them. Between the
  start of a file and its star import the scope describes what the file before it
  left. `CertaintyIsEarned` and `SilenceIsSafe` are two readings of that one
  invariant. `Steady` is needed: each habit of authors in `Habits` breaks the
  property (section 6).
- **SettingsRules**. *CorrectionInv*: every finding that says it is corrected
  was led by a base, and every heir was safe. That the heirs are not in
  the group they are asked about follows from the weights (`HeirsOutweighTheBase`):
  a base leads only where no file that reaches production assigns the setting itself.
  *RiskInv* (`RulesAreRegistered`: the rules are of the 25 of the catalogue) says that every finding is founded, and that the leader of
  each group already inspected has a finding if inspecting it says anything at all,
  whatever the rule object had noted before. `CatalogueIsSane` is what the judgements ask of a
  rule. The rest compares the two readings of a module, need by need: what a rule speaks of can
  happen (`SpokenIsExposed`), what happens in every deployment it speaks of (`ExposedIsSpoken`),
  and no doubt about a value leaves a finding its grade (`FirmnessIsPaidFor`).
  The hypothesis `SpelledOutWhereJudged` (the file that others import is not a development
  one) is asked of DJS-024 only, and needed there (section 6).
- **SerializerRules**. *SerializersInv* says of the given serializers what the authors
  can not write: what `other` has, that a Meta which is not there has no mode, that the base
  extends nothing. The judgements are functions of the state, and the proof of
  `SerializersAreJudged` compares them, rule by rule, with what a response
  holds and a request may set: what is declared is what was collected
  (`DeclaredAsCollected`), and the mode of the Meta that counts is the one the framework reads
  (`JudgedByItsMeta`).
- **ApiRules** (`RoutingsAreKnown`, and the hypothesis `HabitsAreFollowed`: of the habits
  there is at most "computed default"). *ApiInv* says that what is declared is of what
  can be, and that the reports are what the rules make of it: an audit reads the site and
  nothing else (`RulesReadTheSite`). `GuardsAre` relates the guard to the classes the
  framework asks: what is not read of them lets nobody in, so the guard is open exactly
  when each of them is. That rests on what a list of classes guarantees (`CombinedIs`) and
  on what each does with a request (`ClassesAreKept`). A list is paged by the class that
  provides its paginator (`PagingIs`). Each of the other four habits breaks the
  property, as TLC shows on a project with three declarations (section 6).
- **PortabilityRules** (`WiringHabitsAreKnown`, `FilesAreNumbered`,
  `AssignmentsAreWritten`). What a deployment is left with is a recursive function
  over its chain of assignments, and what djaudit says is about the live ones of
  the same chain. `WiringInv` holds the files as they may be: each chain is tidy, and
  a dict is added to only after one that was assigned outright, without which no deployment gets
  through its chain (`NoneAreLost`). Along a chain two facts are carried from one
  assignment to the next (`StepsReach`, from the least number that lacks them): a
  live dict that nothing later is sure to replace stays (`LiveDictsAreKept`), and where all
  are dicts nothing else is left (`MappingsAreLiveDicts`). For each engine that is named
  `DeploymentOf` gives the deployment that connects to it: it sets the levers its own tests ask for, and
  those that later tests ask to find unset; a tidy chain is what makes
  the two agree (`LaterOnesDoNotHold`). `EnginesHold` has the hypothesis `Careful`
  (`WiringHabits` is empty, as in the run): each of the three habits is a
  divergence of section 6.
- **QuerysetRules** (no hypothesis but that `MaxParts` is a number). A `get_queryset` of any length
  runs as a recursive function over its statements, and what is read off it is a set of
  returns, whatever their order. `PartsInv` relates the two: each statement is
  one that some run comes to, past every return before it, and what it reads is there.
  Along a run three things hold up to any statement (`StepsReach`): an answer once
  given stands (`AnswersStand`), none is given before the first return a run comes to
  (`PendingWhereItComes`), and the local has only rows that every assignment keeps to
  (`LocalsAre`). So a return that nothing scopes hands on what it is given
  (`HandsOn`), which makes a report real; and where no text consults the request, a
  body that answers everybody's rows has a return that was read as such
  (`DelegatesPass`, `SomeReturnIsNotNone`, `BodiesAreReported`). For the name of the model, the
  assignment that is walked first must not be one of the local to itself: a run that
  leaves every setting off would fail in it (`NamesAre`).
- **MigrationReplay** (`ColumnsAreDeclared`, `HistoryHasALeaf`,
  `ComputedAreKeywords`). *Sound* relates one model's replayed state to its
  table: followed models are tables, a creator that was seen made that table, and
  unless the model is doubted its fields are readings of all its columns. Every
  operation writes one model (`OneModelReplaced`, `ColumnsRewritten`) or moves
  one to a free name. `FactsAreTrue` alone is not inductive: it speaks of the last
  operation, and says nothing of the state the next one will meet.
  `JudgedByTheTruth` has the hypothesis that no `max_length` is computed; without
  it the property is false (section 6), while `NoLockIsMissed` needs no such
  hypothesis.
- **MigrationPlan** (`KeysAreOrdered`: a key is an app and a number, and there are
  finitely many; `SquashesAreOfKeys`; neither bounds how many files there are, what
  they need or what they replace). `PlanInv` says what writing files in the order of
  their names keeps: a migration replaces earlier ones of its app, and a squash needs
  what they needed of others. `PlanHolds` then goes in four steps.
  `canonical` follows names through squashes with the names it has seen;
  since each replacement is later, what was seen never matters
  (`FollowLeadsForward`) and it ends at a file that is loaded. Uncontested, what a
  squash replaces leads where the squash does (`ReplacedLeadsOn`), so every need of a
  replaced file is one of what stands for it (`NeedsAreKept`): the edges
  `dependencies_of` keeps are Django's. Each round of `_discharge` lists
  migrations after all they wait for and leaves fewer, until nobody is ready
  (`DischargeKeeps`, `RoundsEnd`). Of those left, the one with least after it
  would wait for one with less, if there were no cycle (`NoneIsLeft`); without any
  left, what comes after a migration is within what the plan lists before it
  (`PlanFollowsNeeds`). A first attempt failed for a reason: where two squashes
  contest a migration, a need of a replaced file can be lost, as TLC shows with
  a fourth number in one app; hence `Contested`.
- **ReachingDefs** (`StylesAreKnown`, `AnythingIsHeld`, `LoopsTurn`: a loop turns at least twice;
  and the hypothesis `InSight`: of the habits there is at most "augment"). Nothing is
  assumed of what the statements evaluate to, nor of how many lines, names or nested
  blocks there are. The invariant (`FlowInv`) says how what is written stands:
  *Written* (each line in a block opened above it, a try's body of one simple
  statement), *Nested* and *Stacked* (a block's lines are not interleaved with
  another's). That `Statements` and `RunAll` are what their equations say is proved
  first (`WalkIs`, `RunIs`): each equation looks further down only, so there is a
  function that satisfies it from any line on. What holds of a line once it holds of
  those below holds of all (`Upwards`), and four claims are carried that way.
  *AllSeparate*: what comes of one definition in the analysis depends on no other, so a
  third turn of a loop would add nothing (`TurnsAdd`) and two are enough. *AllSound*:
  stores that the analysis covers stay covered, and what they supply was seen; in a loop
  this needs the second turn for every turn Python makes (`LastKeepsTo`). *AllLie*: what is seen
  on a line lies in the one part it was walked in (`OnePart`). *AllPrecise*: if a definition that may
  be in a name is in it in some store, that stays so wherever the analysis is reachable, and its
  uses are found wherever some run reads the name at all; in a loop the stores that evaluate the
  iterable alike go round together, and one such group serves for both turns
  (`GroupTurns`). Where the analysis says nothing comes after a statement, no
  run goes on (`NothingComes`). The two halves of
  `DefinitionsAreTheOnesSeen` are readings of AllSound and AllPrecise at the first line. Each habit
  beyond `InSight` breaks the first half (section 6), a handler the second, which therefore excepts it.
- **MigrationRules** (`StylesDeclareFields`: only a text has a length;
  `ModelsHaveNames`: "none" names no model). *LeafInv* says that each operation was written
  on tables it applies to, of fields that are declared, whose constraints and
  rows are those of its style. On it rest the theorems about single operations:
  for each kind a lemma says all that Django makes of it (`AlterFieldSays`,
  `TablesSay`, `ConstraintsSay` and the like), `EachIsClassified` that the first of
  `RULES` to match is right about each such statement, and the rest compares the reports with those
  statements. `ReleasesBreakAsReported` is about whole leaves, so it needs how the
  tables of one operation come from those of the one before: *LeafChain*, which is inductive together
  with `LeafInv`, and with it that each table is as it was until something touches
  it (`UntouchedStays`) and that a set closed under the next operation holds
  all that follow (`MomentsFollow`). One direction goes forward: in a leaf of which
  nothing was reported, every column of the release stays where it is, or has
  been renamed under a pin that keeps its name, before or after
  (`RenamesKeepNames`, `PinningStays`; `NoPinIsBefore` rules out the order that does not). The other
  takes one report and shows that nothing of the leaf brings its name back: for
  a column because two columns of a table never share a name (`NoCollision`,
  `PlacesDiffer`), for a table by following the free name to the end
  (`NameStaysFree`). `ReleasesAreWarned` has the hypothesis `JoinsHaveNoColumn`, which
  the run's styles meet (`NoStylePinsAJoin`); without it the property is false,
  as TLC shows on leaves of two operations (section 6).

What is only model-checked. *Liveness* (`EveryoneIsTried`, `EveryRunEnds`,
`TheLoopEnds`, `TheAuditGoesOn`) and anything with ENABLED are out of TLAPS's
reach here. So is what a RECURSIVE operator computes: the searches through
definitions in `TaintRules` and `QueryRules`, whose properties
(`ReportsReachTheSink`, `RequestDataIsReported`,
`QueryReportsAreReal`, `QueriesRunAreReported`) stay with TLC. They are also claims
about the values and calls of the fourteen styles and not about any: with an
augmented assignment to a name that is passed on, or one quoted part in a command that
has another, the rules are wrong (section 6), and a theorem would have those styles
for its hypothesis. Recursive functions over
lines, over a sequence or over finitely many names can be reasoned about, without the
library's induction theorems, by the least number, or the last name, at which a
claim fails (`LeftExists`, `StepsReach`, `FollowLeadsForward`, `Upwards`).
Conversely the theorems without a run of their own (the types,
`Accounting`, `SilenceNeverLowers`, `NothingIsLost`, `NothingGoesMissing`,
`PrecisionIsPaidForWhenNeeded`, `CorrectionsHold`, `SparesItself`, `NoAuditOnATornFile`,
`OvershootIsOneResponse`) were checked by TLC on the same instances before they
were proved.

## 6. Where the code and its documents disagree

Two runs end in a violation that shows such a disagreement:

- **fix_together** (`WhatShipsPassedTogether`, `llm/verify.py:254`, code bug): When the batch fails and every fix passes alone, verified() accepts them all and does not verify the set again, since len(accepted) equals len(proposed); tests/llm/test_verify.py says of the class that covers this 'Whatever ships is the set, so the set is what has to be checked -- and if it fails, nothing ships.' (src/tests/llm/test_verify.py:504-505)
- **serializer_overruled** (`ReadOnlyIsRefused`, `api/serializers.py:165`, code bug): is_read_only counts read_only_fields and extra_kwargs for a field the class declares, where the framework ignores both (its get_fields takes a declared field as it is), so `owner = PrimaryKeyRelatedField(queryset=...)` with read_only_fields = ['owner'] accepts an owner from any caller and DJA-011 says nothing; api/serializers.py:166-170 says 'Whether DRF will refuse writes' and 'Three spellings mean the same thing -- read_only_fields, extra_kwargs, and read_only=True on a declared field'.

Divergences no run is spent on. Each was met while modelling; most are steps of
the models, and none contradicts a property above.

*Audit.*
- The degradation notice names a rule as covered by another before that other
  has run, and keeps saying so when it crashes (`engine.py:198` against
  `degradation.py:82-86`).
- A tool's finding in an excluded path is still reported (`engine.py:297`), while
  `_fold_external` promises that external findings are governed by exactly what
  governs one of ours. `ReportIsAsAsked` therefore applies exclusion to our own
  findings only.
- A tool's finding is dropped as subsumed although the rule of ours that owns its
  ground raised during the run (`adapters/base.py:132`).

*Baseline.*
- Findings of a tool carry no snippet, so all of one rule in one file share a
  fingerprint up to the occurrence index, and a baseline entry may hide another
  of them (`adapters/base.py:296` against `adapters/base.py:278-281`).

*Model calls.*
- Calls that end declined are not charged, so `max_calls` does not bound the
  calls that are started (`llm/budget.py:187` against `:25-26`).
- The cache key has the model's name and not its base URL, so an answer of one
  endpoint is served for another (`llm/http.py:294` against `llm/cache.py:160-162`).
  The `model_calls` run has two such endpoints.
- `AnswerCache.put` raises where the directory cannot be written, and the run
  that had an answer in hand ends in a traceback (`llm/cache.py:130`).

*Generate.*
- The loop looks for four literal markers while the audit's suppressions match without
  regard to case and with spaces, so `# NOQA: DJP-001` is accepted and silences the rule
  (`generate/loop.py:161` against `:34`; `SuppressionsAreRejected` of GenerateLoop fails).
- A rule that crashes during the audit of a version leaves that version clean
  (`generate/loop.py:296` against `:38-39`).
- With `max_iterations` 0 the first answer is asked for, paid and dropped as
  "declined" (`generate/loop.py:230` against `:92`).
- An app that somebody creates meanwhile is overwritten (`cli.py:1191-1192`).
- A fenced reply ends as a syntax error though `write_app` would have stripped
  the fence (`generate/loop.py:154` against `generate/scaffold.py:219-221`).

*Fix.*
- The patch that is printed leaves out the fixes to confirm first, so it is not
  the set the printed assurance was established for (`cli.py:949`).
- A rule that crashes on the copy counts as cleared (`llm/verify.py:209` against `:72`).
- Edits of one file that were computed from texts read at different times are
  made in the text of the first (`llm/fix.py:285`): they land where the others did
  not mean them, or raise an `EditError` that leaves `verify()` (`llm/edit.py`).
  `ShippedHeldUpInItsText` therefore leaves out fixes that were tried together with
  one of their file made from another text.

*Target.*
- A leader that exited 0 while a child holds the pipe is reported as killed
  (`live/runner.py:110`).
- When the second read times out too, what the first had read is dropped
  (`live/runner.py:263-265`).

*Settings resolver.* The first three are habits of `SettingsChain`, off in its run.
- Every star-imported module is applied before the module that imports it, wherever
  the import stands (`settings.py:580` against `:287-291`): a file that ends with
  `from .local import *` is taken to win over `local.py`, and certainly so.
- A helper that appends to its list before it returns it resolves to the list
  without the element, at certain confidence (`evaluator.py:910` against `:11-14`).
- A list with two names that is changed through one of them keeps its old value
  under the other (`settings.py:446`).
- `Value.conditional` forgets the environment taint of a conditional it flattens
  (`values.py:93` against `:81-82`); only a caveat is lost.

*Settings rules.*
- A rule object that could not read one group's middleware tones down the next
  group too (`rules/transport.py:138-143`, `:155` against `:148-154`;
  `DelegationIsItsOwn` of SettingsRules fails).
- DJS-024 and DJS-025 each leave an installed debug package to the other where a base
  is not listed as production (`rules/exposure.py:186-195`, `:346`;
  `InstalledToolingIsNamed` fails).
- DJS-024 leaves a debug package that a production module adds to an inherited list
  to the file that spells it out, "so the site that spells the app out reports it"
  (`rules/exposure.py:185-192`); where that is a development file, nobody
  judges it and nothing is reported (`RisksAreNamed` fails without `SpelledOutWhereJudged`).
- DJS-017's missing middleware counts as corrected by heirs that merely set a value
  (`rules/_base.py:512-522`); for list rules a conditional or unknown heir counts as
  correct; only the weightiest module of a group is judged.
- DJS-016 is certain of credentials that are conditional; the rules about one
  literal miss secrets that are.

*Database engines.* The first three are what `WiringHabits` and the hypotheses of
the parts of `EnginesAreJudged` exclude.
- A plain assignment that both arms of a later `if` replace counts as live and as
  the default (`engines.py:169-183`); under `if not LEVER` after a plain one the
  engine said to run "with nothing set" is the wrong one (`:266-269`).
- `DATABASES[...] = ` and `.update()` are passed over, so a replaced engine is still
  reported; `|=` hides every assignment before it.
- `DATABASES` assigned from a name or a call is dropped, and the verdict may still
  be single (`engines.py:201` against `:379-391`).
- `if LEVER: postgres else: sqlite` is divergent and DJX-001 is silent, since
  neither is a default (`rules/portability.py:151-156`).
- A divergent verdict counts as conclusive though another engine could not be read
  (`engines.py:447-450`); `could_reach` is used by no rule.
- A star-imported assignment loses its guard; the message calls the default "the
  engine a developer runs" even where development runs Postgres.
- DJX-005, 006 and 009 report an abstract base and each heir of it; an escaped
  backslash before `b` is reported, certain, by DJX-008 (`rules/portability.py:1144`);
  the widths printed for SlugField and its like are Django's even when one is given
  (`:1286`); FileField's is not counted.

*REST framework.*
- A class-level permission that is composed by a decorator is read as none
  (`api/views.py:696` against `:331-334`; the habit "composed decorator" breaks
  `OpenReportsAreReal`). The other habits of ApiRules: a mixin before the view's own
  class (`permissions.py:384-387`), a computed default (`rules/authorization.py:90`
  raises a TypeError), permissions by action, computed pagination (`views.py:477-486`).
- DJA-007 ignores `get_permissions` and `get_authenticators`; a view's own paginator
  without a size is silent (DJA-013); DJA-015 is silent with no rates, or where
  only "user" is rated and anonymous throttling is asked for; `filter_backends = []`
  (DJA-014); a function whose decorator is an explicit AllowAny is named by both DJA-003
  and DJA-006.
- Serializers: ReadOnlyField and SerializerMethodField owners are reported writable
  (`rules/serialization.py:462-481`); HiddenField secrets, write-only nested
  serializers and `depth` with an excluded relation are reported as returned;
  options inherited through `Meta(Base.Meta)`, removals by `name = None`, annotated
  declarations and a concrete subclass without a Meta of its own are not read.
- Querysets: `_declared` returns a nearer `queryset` although its docstring says a
  `get_queryset` beats it even then (`api/querysets.py:264-303` against `:267-270`), so a
  view whose mixin filters by owner is reported, and the other way round; an own attribute under an own
  `get_queryset` that delegates is silent (`:325-327` says it is reported); a method
  with one delegating return and another, `none()` in a local, and rows through
  `self.rows` are misread; `get_object` calling `super().get_object()` is reported by
  DJA-005, whose remediation recommends it.

*Dataflow and injection.*
- `break` ends the path it is on (`dataflow/chains.py:316`), a `while` test is read
  once, a `try` body that may stop half-way is followed in part (`:359-362`), `finally` sees
  live outcomes only, and an augmented assignment loses what the name held
  (`scopes.py:324-326`). The first four are habits ReachingDefs leaves out.
- `quoted` and the redirect and request rules' `seen` are kept by name and not by
  definition (`rules/shell.py:262-268`, `redirect.py:214`, `ssrf.py`; `xss.py:161-177` says the opposite), and any
  quoter silences a command although "every tainted part" is promised (`shell.py:241`).
- Only the first statement that may have built a string is read
  (`rules/_injection.py:368-379` against `:354`).
- `chains.py:31-35` says that several definitions support a tentative finding at
  most; rules report firm and certain ones.

*Query rules.*
- The resolver's `seen` is shared by all loops of a function, so the second loop over
  a list runs over nothing it knows (`dataflow/loops.py:205-212`).
- `only().only()` replaces in Django and merges here; `only(f).defer(f)` is a false
  report; `select_related()` then `select_related(path)`; WriteInLoop does not ask
  whether the name was bound again (`rules/loop_writes.py:243-271`); `values()[:n]`
  counts as instances (`chaining.py:326`); nullable keys are not followed by
  `select_related()`; `find_loops` is called without what other functions are given
  (`inventory.py:79`).

*Model graph* (read, not modelled).
- `inherit.py:13-14` says the walk stops at the first concrete ancestor and the loop
  at `:44-69` does not; a `class Meta` of its own still takes the base's options
  (`:124-136`); a later abstract base's options are taken; `ordering = []` does not
  clear; a concrete parent's ordering and managers are not inherited; `name = None`
  is not read; two tables above give two `_ptr` keys; a proxy's table is the farthest
  one's (`:58`); managers in a diamond follow no method resolution order.
- DJD-001 reads `on_delete` as a keyword only; DJP-010 ignores an unreadable
  `db_index` where a serializer lists `__all__`.

*Migrations.*
- A computed `max_length` reads as no limit, so AlterField to CharField(200) is
  reported, firm, as a rewrite (`rules/djm_alterfield_rewrite.py:151` against
  `graph/nodes.py:192-193`; `NoFalseAlarm` of MigrationReplay fails).
- DJM-010 never asks whose table a statement is on, so a migration that creates a
  model and indexes it is reported, certain and high
  (`rules/djm_pending_blocking_lock.py:271` against `live/locks.py:303`;
  `PendingReportsBlock` of MigrationRules fails). Its truncation at BUDGET is silent
  though said to be reported (`:74-80`, `:200`); headings are matched by count
  (`:319-350`); a half-applied squash's pending migrations are skipped.
- An operation or a name that cannot be read and DDL in a RunSQL leave the replay
  trusting columns that are stale (`migrations/parse.py:322`); `migration.unreadable`
  is consulted nowhere, although DJM-002's limitations say that it is.
- The first operation on a model that was never seen is told that the model is
  tracked and the column is not there (`migrations/state.py:323`); two renames that
  cannot be read can make a stale model trusted.
- `run_before` is parsed and never used; a `replaces` that loops drops migrations
  from the plan; swappable and `__first__` dependencies order nothing (`migrations/graph.py`).
- DJM-008 is silent for data, schema, data (`djm_schema_and_data_in_one_transaction.py:174-176` against
  `:171-173`) and counts CreateExtension, renames without a statement, and
  ValidateConstraint (SHARE UPDATE EXCLUSIVE) as locks. `LocksHeldAreReported`
  therefore asks nothing of a report whose operations take no such lock.
- DJM-005 takes the first AlterField that names a column though a later one pins it
  (`djm_rename_rolling_deploy.py:98-106`); a field that the same leaf added, or undoes
  later, is reported.
- A ManyToManyField with a `db_column` counts as pinned when it is renamed, though
  its join table is named for the field and moves; so does a TaggableManager that is
  renamed in a leaf which also alters a new field of the old name, pinned to that name
  (`djm_rename_rolling_deploy.py:98-106`; `JoinsHaveNoColumn` leaves both out).
- DJM-001 asks `blank` where Django asks `empty_strings_allowed`, and reports
  `auto_now_add`. Nothing reads `db_default`, so a column that the database itself
  fills is reported as one no row has a value for (`djm_addfield_not_null.py:97`;
  `TablesInServiceAreJudged` leaves such columns out), and only DJM-010, where there is
  a live context, tells that a volatile one rewrites the table. A table created and seeded by one leaf counts as
  empty; the index of a ForeignKey that is added is reported by no static rule.
- The patterns of `live/locks.py` match words anywhere in a statement, names
  included: `ALTER COLUMN "type" DROP NOT NULL` matches the one for TYPE (`:228`) and is told
  as a rewrite. In the model a name adds no word to its statement.
- Widening a varchar is a rewrite to DJM-010 (`live/locks.py:228`) and ADD COLUMN ...
  UNIQUE changes the catalogue only (`:246`); the severity goes by the table of the
  worst statement alone.
- An explicit `reverse_code=None` counts as a reverse (`migrations/parse.py:201`);
  `RunPython(other.f)` is matched with a local `f`.

*Elsewhere.*
- Triage asked for json or sarif exits 0 before the check for blocking
  diagnostics (`cli.py:641` against `:650-656`).
- `suggest.source_line_of` checks the number of the line only, while its
  docstring says a file that has moved on is refused (`llm/suggest.py:207`).
- A tool name that cannot be hashed raises outside the `try` of
  `mcp/server.py:281` and ends the session.
- `explain_django_finding` audits again, so an edit since the audit may move an
  occurrence index to another finding (`mcp/server.py:242`).

## 7. What is not modelled

- *Parsing and formatting*: discovery, the migration parser's own work, the tools'
  report formats, reporters, prompts. They translate; no later step depends on
  the order in which they do.
- *The model graph* and the rules over it (DJD, DJP-003, DJP-010): effective fields,
  options and managers of a class hierarchy. It was read against Django's metaclass;
  most of what a property would say of it is contradicted by the list in section 6,
  so a run that passes would need more exclusions than it has cases.
- *Calls between functions* (`dataflow/interproc.py`): the loops and queries are those
  of one function, as they are where the inventory calls `find_loops`.
- *MCP server, suggest, consent*: no state between two requests but that of the files
  they read; their divergences are in section 6.
- *The evaluator* beyond lists and the expression forms that keep or lose knowledge:
  class bodies, its budgets, django-configurations.
- *Benchmark, verdict measurement, maintenance scripts*: not part of an audit.
- In the modelled components: operations of a migration with names that cannot be
  read; a `SeparateDatabaseAndState` whose two sides differ, but where a rule asks
  for it (`wraps` in MigrationRules); `HTTPProvider`'s token estimate beyond its
  bounds; Oracle; the widths and ranges that messages print.

## 8. Plan

Done: the processes first (`AuditRun`, `BaselineLife`, `ModelCalls` over
`SpendingCeiling`, `GenerateLoop`, `FixVerify`, `TargetRun`), then the facts
(`SettingsChain`, `MigrationReplay`, `MigrationPlan`, `ReachingDefs`), then the rules
on those facts (`SettingsRules`, `ApiRules`, `SerializerRules`, `QuerysetRules`,
`PortabilityRules`, `TaintRules`, `QueryRules`, `MigrationRules`), and the
proofs of sixteen of these (section 5).

What would come next, were the code to change there:

1. An inheritance module for the model graph, once `inherit.py` follows Django's
   rule for the options of a class.
2. `McpServer`, if the server comes to keep an audit between two requests.
