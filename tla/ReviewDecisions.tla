-------------------------- MODULE ReviewDecisions --------------------------
(***************************************************************************)
(* Human review of completed reports: versions of the sampling             *)
(* configuration, the sampling plan each report gets from one of them, and *)
(* the decisions on findings and on sampled rows that passed.              *)
(*                                                                         *)
(* Whoever writes takes the tenant lock, or is refused, before the first   *)
(* read, and holds it until the transaction ends: a request is one step    *)
(* here.  Requests that are refused, or fail and roll back, change nothing *)
(* but the audit log, and have no action.  Readers take no lock, and a     *)
(* summary reads its counts in one statement after another.                *)
(*                                                                         *)
(* Reports that were completed before there was sampling have no plan      *)
(* until somebody asks for one.                                            *)
(***************************************************************************)
EXTENDS Integers, Sequences, FiniteSets

CONSTANTS
    Reports,
    Legacy,     \* reports completed before sampling existed
    GroupOf,    \* Reports -> items -> attention group
    VerdictOf,  \* Reports -> row numbers -> verdict, or "parse_failed"
    Parameters, \* sampling parameters: rate in basis points, min and max size
    Notes,      \* what reviewers write
    Keys,       \* Idempotency-Key values
    None,       \* no note
    MaxConfigs  \* bound: versions of the configuration

ASSUME ReviewAssumption ==
    /\ Legacy \subseteq Reports
    /\ \A r \in Reports : IsFiniteSet(DOMAIN GroupOf[r]) /\ IsFiniteSet(DOMAIN VerdictOf[r])
    /\ \A p \in Parameters :
            /\ p.rate \in Nat \ {0} /\ p.rate <= 10000
            /\ p.min \in Nat \ {0} /\ p.max \in Nat /\ p.min <= p.max
    /\ None \notin Notes
    /\ MaxConfigs \in Nat

VARIABLES
    configs,   \* review_sampling_config, by version
    completed, \* completed report_run rows
    plan,      \* review_sampling_plan and sampling_audit
    requests,  \* review_plan_request
    reviews,   \* review and sampling_review
    granted,   \* history: requests for decisions, plans and configurations that succeeded
    reader     \* a summary that is being read

vars == <<configs, completed, plan, requests, reviews, granted, reader>>

Config == [key : Keys, expected : Nat, parameters : Parameters]

\* A plan names its version of the configuration, and its rows have no review
\* at first.
NoPlan == [config |-> 0, eligible |-> 0, rows |-> {}]
SamplingPlan == [config : 1..MaxConfigs, eligible : Nat,
                 rows : SUBSET UNION {DOMAIN VerdictOf[r] : r \in Reports}]
HasPlan(r) == plan[r] # NoPlan

\* Targets of reviews: items of reports, and rows of their batches.
Findings(r) == {[kind |-> "finding", report |-> r, id |-> i] : i \in DOMAIN GroupOf[r]}
Samples(r, rows) == {[kind |-> "clearance_sample", report |-> r, id |-> n] : n \in rows}
Targets == UNION {Findings(r) \union Samples(r, DOMAIN VerdictOf[r]) : r \in Reports}

\* A false positive and a missed issue need a note.
Commands(kind) ==
    LET decisions == IF kind = "finding" THEN {"confirmed", "false_positive"}
                     ELSE {"clearance_confirmed", "missed_issue"}
    IN  {c \in [decision : decisions, note : Notes \union {None}] :
            c.decision \in {"false_positive", "missed_issue"} => c.note # None}

Review == UNION {[key : Keys, target : {t}, command : Commands(t.kind)] : t \in Targets}

PlanRequest == [key : Keys, report : Reports]

\* Mutant: the decisions are counted before what is completed.
CompletedLast == <<"plan", "confirmed", "false_positive", "completed",
                   "sample_completed", "clearance_confirmed", "missed_issue">>

\* The statements of get_review_summary, in their order.
Statements == <<"plan", "completed", "confirmed", "false_positive",
                "sample_completed", "clearance_confirmed", "missed_issue">>

\* A reader: the report, the statements done, what they returned.
Reader == [report : Reports, done : 0..Len(Statements),
           counts : [{Statements[n] : n \in DOMAIN Statements} -> Nat]]
Idle(r) == [report |-> r, done |-> 0,
            counts |-> [f \in {Statements[n] : n \in DOMAIN Statements} |-> 0]]

ReviewTypeOK ==
    /\ configs \in Seq(Config) /\ Len(configs) <= MaxConfigs
    /\ completed \subseteq Reports
    /\ \A r \in Reports : plan[r] \in SamplingPlan \union {NoPlan}
    /\ \A r \in Reports : HasPlan(r) => r \in completed /\ plan[r].config <= Len(configs)
    /\ requests \subseteq PlanRequest
    /\ \A q \in requests : HasPlan(q.report)
    /\ reviews \subseteq Review
    /\ reader \in Reader

Init ==
    /\ configs = <<>>
    /\ completed = Legacy
    /\ plan = [r \in Reports |-> NoPlan]
    /\ requests = {}
    /\ reviews = {}
    /\ granted = [reviews |-> {}, plans |-> {}, configs |-> {}]
    /\ reader \in {Idle(r) : r \in Reports}

-----------------------------------------------------------------------------
(* Configuration *)

\* create_sampling_config: the next version, for whoever knows the current one.
CreateConfig(k, p) ==
    /\ Len(configs) < MaxConfigs
    /\ \A v \in DOMAIN configs : configs[v].key # k
    /\ configs' = Append(configs, [key |-> k, expected |-> Len(configs), parameters |-> p])
    /\ granted' = [granted EXCEPT !.configs =
            @ \union {[key |-> k, expected |-> Len(configs), parameters |-> p]}]
    /\ UNCHANGED <<completed, plan, requests, reviews, reader>>

\* The same request again, however many versions later.
ReplayConfig(k, expected, p) ==
    /\ \E v \in DOMAIN configs :
            configs[v] = [key |-> k, expected |-> expected, parameters |-> p]
    /\ granted' = [granted EXCEPT !.configs =
            @ \union {[key |-> k, expected |-> expected, parameters |-> p]}]
    /\ UNCHANGED <<configs, completed, plan, requests, reviews, reader>>

-----------------------------------------------------------------------------
(* Sampling plans *)

AtLeast(m, n) == IF m < n THEN n ELSE m
AtMost(m, n) == IF m < n THEN m ELSE n

\* Mutant: the rate is rounded down.
RoundedDown(n, p) ==
    IF n = 0 THEN 0
    ELSE AtMost(n, AtMost(p.max, AtLeast(p.min, (n * p.rate) \div 10000)))

\* calculate_sample_size
SampleSize(n, p) ==
    IF n = 0 THEN 0
    ELSE AtMost(n, AtMost(p.max, AtLeast(p.min, (n * p.rate + 9999) \div 10000)))

\* Mutant: every row that was parsed may be sampled.
ParsedRows(r) == {n \in DOMAIN VerdictOf[r] : VerdictOf[r][n] # "parse_failed"}

\* The rows that a plan samples from.
Eligible(r) == {n \in DOMAIN VerdictOf[r] : VerdictOf[r][n] = "passed"}

\* select_sampling_rows: the first rows by the score of a random seed, which
\* may be any.
Selections(r, p) ==
    {rows \in SUBSET Eligible(r) : Cardinality(rows) = SampleSize(Cardinality(Eligible(r)), p)}

\* Mutant: the plan names the version that comes next.
PlanFromNext(r, rows) ==
    [config |-> Len(configs) + 1, eligible |-> Cardinality(Eligible(r)), rows |-> rows]

\* _create_plan, with the latest configuration.
PlanFrom(r, rows) ==
    [config |-> Len(configs), eligible |-> Cardinality(Eligible(r)), rows |-> rows]

\* A report is completed, with its plan, in the transaction that makes it.
CompleteReport(r, rows) ==
    /\ r \notin completed
    /\ configs # <<>>
    /\ rows \in Selections(r, configs[Len(configs)].parameters)
    /\ completed' = completed \union {r}
    /\ plan' = [plan EXCEPT ![r] = PlanFrom(r, rows)]
    /\ UNCHANGED <<configs, requests, reviews, granted, reader>>

\* A known key is answered with the plan it was made for, and a new one is
\* stored with the plan that is there.
RequestPlan(k, r) ==
    /\ HasPlan(r)
    /\ \A q \in requests : q.key = k => q.report = r
    /\ requests' = requests \union {[key |-> k, report |-> r]}
    /\ granted' = [granted EXCEPT !.plans =
            @ \union {[key |-> k, plan |-> plan[r], report |-> r]}]
    /\ UNCHANGED <<configs, completed, plan, reviews, reader>>

\* create_legacy_sampling_plan for a report without a plan.
RequestLegacyPlan(k, r, rows) ==
    /\ r \in completed /\ ~HasPlan(r)
    /\ \A q \in requests : q.key # k
    /\ configs # <<>>
    /\ rows \in Selections(r, configs[Len(configs)].parameters)
    /\ plan' = [plan EXCEPT ![r] = PlanFrom(r, rows)]
    /\ requests' = requests \union {[key |-> k, report |-> r]}
    /\ granted' = [granted EXCEPT !.plans =
            @ \union {[key |-> k, plan |-> PlanFrom(r, rows), report |-> r]}]
    /\ UNCHANGED <<configs, completed, reviews, reader>>

-----------------------------------------------------------------------------
(* Decisions *)

\* Mutant: a key stands for its target, whatever the decision.
SameTarget(v, t, c) == v.target = t

\* _decision_fingerprint
SameRequest(v, t, c) == v.target = t /\ v.command = c

\* A request whose key is known is answered with the review it made; any other
\* makes the first review of its target.  Findings and samples have tables,
\* and so keys, of their own.
Decide(t, c, k) ==
    LET keyed == {v \in reviews : v.key = k /\ v.target.kind = t.kind}
        asked == [key |-> k, target |-> t, command |-> c]
    IN  /\ \A v \in keyed : SameRequest(v, t, c)
        /\ keyed = {} => \A v \in reviews : v.target # t
        /\ reviews' = IF keyed = {} THEN reviews \union {asked} ELSE reviews
        /\ granted' = [granted EXCEPT !.reviews = @ \union {asked}]
        /\ UNCHANGED <<configs, completed, plan, requests, reader>>

\* Items that need attention, of completed reports.
ReviewableFinding(t) ==
    /\ t.report \in completed
    /\ GroupOf[t.report][t.id] \in {"high_attention", "manual_attention"}

\* Sampled rows that passed, of completed reports.
ReviewableSample(t) ==
    /\ t.report \in completed
    /\ t.id \in plan[t.report].rows
    /\ VerdictOf[t.report][t.id] = "passed"

SubmitFindingReview(t, c, k) == ReviewableFinding(t) /\ Decide(t, c, k)

SubmitSamplingReview(t, c, k) == ReviewableSample(t) /\ Decide(t, c, k)

-----------------------------------------------------------------------------
(* Reading *)

\* The reviews of a report that a count of the summary counts.
Counted(r, field) ==
    LET Of(kind) == {v \in reviews : v.target.report = r /\ v.target.kind = kind}
    IN  CASE field = "completed" -> Of("finding")
          [] field = "sample_completed" -> Of("clearance_sample")
          [] field \in {"confirmed", "false_positive"} ->
                {v \in Of("finding") : v.command.decision = field}
          [] OTHER -> {v \in Of("clearance_sample") : v.command.decision = field}

\* The next statement of get_review_summary.  The plan's is not a count: 1 when
\* there is one; without, the samples are not read.
ReadNext ==
    LET r == reader.report
        field == Statements[reader.done + 1]
    IN  /\ r \in completed
        /\ reader.done < Len(Statements)
        /\ reader.done = 4 => reader.counts["plan"] = 1
        /\ reader' = [reader EXCEPT
                !.done = @ + 1,
                !.counts[field] = IF field = "plan" THEN IF HasPlan(r) THEN 1 ELSE 0
                                  ELSE Cardinality(Counted(r, field))]
        /\ UNCHANGED <<configs, completed, plan, requests, reviews, granted>>

\* The summary is returned, and another is asked for.
ReadAnother ==
    /\ reader.done = IF reader.counts["plan"] = 1 THEN Len(Statements) ELSE 4
    /\ reader' \in {Idle(r) : r \in Reports}
    /\ UNCHANGED <<configs, completed, plan, requests, reviews, granted>>

\* list_review_queue: what is pending.
Pending ==
    LET findings == {t \in UNION {Findings(r) : r \in completed} :
                        GroupOf[t.report][t.id] \in {"high_attention", "manual_attention"}}
        samples == UNION {Samples(r, plan[r].rows) : r \in completed}
    IN  {t \in findings \union samples : \A v \in reviews : v.target # t}

Next ==
    \/ \E k \in Keys, p \in Parameters : CreateConfig(k, p)
    \/ \E k \in Keys, p \in Parameters, n \in 0..(MaxConfigs - 1) : ReplayConfig(k, n, p)
    \/ \E r \in Reports : \E rows \in SUBSET Eligible(r) : CompleteReport(r, rows)
    \/ \E k \in Keys, r \in Reports : RequestPlan(k, r)
    \/ \E k \in Keys, r \in Reports : \E rows \in SUBSET Eligible(r) :
            RequestLegacyPlan(k, r, rows)
    \/ \E k \in Keys, c \in Commands("finding") :
            \E t \in UNION {Findings(r) : r \in Reports} : SubmitFindingReview(t, c, k)
    \/ \E k \in Keys, c \in Commands("clearance_sample") :
            \E t \in UNION {Samples(r, DOMAIN VerdictOf[r]) : r \in Reports} :
                SubmitSamplingReview(t, c, k)
    \/ ReadNext
    \/ ReadAnother

Spec == Init /\ [][Next]_vars

-----------------------------------------------------------------------------
(* Properties *)

\* What a request was told stays true: the decision it asked for is the one
\* stored for its target under its key, and the only one of that target; the
\* plan it was given is still the report's; its version of the configuration
\* says what it asked for.
GrantedIsStored ==
    /\ granted.reviews \subseteq reviews
    /\ \A v, w \in reviews : v.target = w.target => v = w
    /\ \A q \in granted.plans :
            /\ plan[q.report] = q.plan
            /\ [key |-> q.key, report |-> q.report] \in requests
    /\ \A q, s \in granted.plans : q.key = s.key => q = s
    /\ granted.configs \subseteq {configs[v] : v \in DOMAIN configs}

\* The queue and the requests agree, though each has conditions of its own:
\* whatever is pending can be decided, so no report waits for a review that
\* every request would be refused.
PendingIsDecidable ==
    \A t \in Pending :
        IF t.kind = "finding" THEN ReviewableFinding(t) ELSE ReviewableSample(t)

\* A plan samples at least the rate and at least the minimum of the version of
\* the configuration that it names, as far as there are rows and the maximum
\* allows, and not a row more, however the configuration has changed since.
SampleFollowsConfig ==
    \A r \in Reports : HasPlan(r) =>
        LET p == configs[plan[r].config].parameters
            n == Cardinality(Eligible(r))
            size == Cardinality(plan[r].rows)
        IN  /\ plan[r].eligible = n
            /\ size <= n /\ size <= p.max
            /\ size \in {n, p.max} \/ (size >= p.min /\ size * 10000 >= n * p.rate)
            /\ size > p.min => (size - 1) * 10000 < n * p.rate

\* A summary is read while decisions are made, and still what it calls
\* completed is accounted for by its decisions, none of which is invented, and
\* nothing is pending a negative number of times.
SummaryAddsUp ==
    LET n == reader.counts
        r == reader.report
    IN  /\ reader.done >= 4 =>
            /\ n["completed"] <= n["confirmed"] + n["false_positive"]
            /\ n["confirmed"] + n["false_positive"] <= Cardinality(Counted(r, "completed"))
            /\ n["completed"] <= Cardinality({t \in Findings(r) : ReviewableFinding(t)})
        /\ reader.done = 7 =>
            /\ n["sample_completed"] <= n["clearance_confirmed"] + n["missed_issue"]
            /\ n["sample_completed"] <= Cardinality(plan[r].rows)
=============================================================================
