------------------------ MODULE ReviewDecisionsProofs ------------------------
(***************************************************************************)
(* Proofs about ReviewDecisions, for any reports, configurations and keys. *)
(*                                                                         *)
(* Rows are only added: a review, a plan and a version of the              *)
(* configuration stand as they are once they are stored, a report has one  *)
(* plan and a target one review.  So what was granted stays true, and what *)
(* a reader has counted is a lower bound of what there is.                 *)
(***************************************************************************)
EXTENDS ReviewDecisions, FiniteSetTheorems, FunctionTheorems, SequenceTheorems, TLAPS

Grants == [reviews : SUBSET Review,
           plans : SUBSET [key : Keys, plan : SamplingPlan, report : Reports],
           configs : SUBSET Config]

Fields == {Statements[n] : n \in DOMAIN Statements}

\* ReviewTypeOK, with the types of what is only stored, and finitely many
\* reviews.
Types ==
    /\ configs \in Seq(Config) /\ Len(configs) <= MaxConfigs
    /\ completed \subseteq Reports
    /\ plan \in [Reports -> SamplingPlan \union {NoPlan}]
    /\ requests \subseteq PlanRequest
    /\ reviews \subseteq Review /\ IsFiniteSet(reviews)
    /\ granted \in Grants
    /\ reader \in Reader

\* A plan samples rows that passed, as many as its configuration says.
PlanInv(r) ==
    HasPlan(r) =>
        /\ r \in completed
        /\ plan[r].config \in 1..Len(configs)
        /\ plan[r].eligible = Cardinality(Eligible(r))
        /\ plan[r].rows \in Selections(r, configs[plan[r].config].parameters)

\* A key is of one report, which has a plan.
RequestInv ==
    /\ \A q \in requests : HasPlan(q.report)
    /\ \A q, s \in requests : q.key = s.key => q = s

Reviewable(t) == IF t.kind = "finding" THEN ReviewableFinding(t) ELSE ReviewableSample(t)

\* A target has one review, and could be reviewed.
ReviewInv ==
    /\ \A v, w \in reviews : v.target = w.target => v = w
    /\ \A v \in reviews : Reviewable(v.target)

\* What was granted is stored.
GrantInv ==
    /\ granted.reviews \subseteq reviews
    /\ \A q \in granted.plans :
            /\ plan[q.report] = q.plan
            /\ [key |-> q.key, report |-> q.report] \in requests
    /\ granted.configs \subseteq {configs[v] : v \in DOMAIN configs}

Count(r, field) == Cardinality(Counted(r, field))

\* What a reader has counted is there, and what it has not counted yet is at
\* least what is missing from the whole.
ReaderInv ==
    LET r == reader.report
        n == reader.counts
        d == reader.done
    IN  /\ d >= 1 => r \in completed /\ n["plan"] \in {0, 1} /\ (n["plan"] = 1 => HasPlan(r))
        /\ d >= 2 => n["completed"] <= Count(r, "completed")
        /\ d = 2 => n["completed"] <= Count(r, "confirmed") + Count(r, "false_positive")
        /\ d >= 3 => n["confirmed"] <= Count(r, "confirmed")
        /\ d = 3 => n["completed"] <= n["confirmed"] + Count(r, "false_positive")
        /\ d >= 4 => /\ n["false_positive"] <= Count(r, "false_positive")
                     /\ n["completed"] <= n["confirmed"] + n["false_positive"]
        /\ d >= 5 => n["plan"] = 1 /\ n["sample_completed"] <= Count(r, "sample_completed")
        /\ d = 5 => n["sample_completed"] <= Count(r, "clearance_confirmed")
                                             + Count(r, "missed_issue")
        /\ d = 6 => n["sample_completed"] <= n["clearance_confirmed"]
                                             + Count(r, "missed_issue")
        /\ d = 7 => n["sample_completed"] <= n["clearance_confirmed"] + n["missed_issue"]

RowsInv == RequestInv /\ ReviewInv /\ GrantInv /\ \A r \in Reports : PlanInv(r)

\* The inductive invariant.
ReviewsInv == Types /\ RowsInv /\ ReaderInv

-----------------------------------------------------------------------------
(* Samples *)

\* The size of a sample is between the rate and the rate rounded up, but for the
\* minimum, the maximum and the number of rows (calculate_sample_size).
LEMMA SampleSizes ==
    ASSUME NEW n \in Nat, NEW p \in Parameters
    PROVE  LET size == SampleSize(n, p)
           IN  /\ size \in Nat /\ size <= n /\ size <= p.max
               /\ size \in {n, p.max} \/ (size >= p.min /\ size * 10000 >= n * p.rate)
               /\ size > p.min => (size - 1) * 10000 < n * p.rate
<1> DEFINE m == n * p.rate
<1>1. /\ p.rate \in Nat /\ p.min \in Nat \ {0} /\ p.max \in Nat /\ p.min <= p.max
      /\ m \in Nat
  <2>1. p.rate \in Nat /\ p.min \in Nat \ {0} /\ p.max \in Nat /\ p.min <= p.max
    BY ReviewAssumption
  <2>2. \A i, j \in Nat : i * j \in Nat
    OBVIOUS
  <2> QED BY <2>1, <2>2
<1> DEFINE k == (m + 9999) \div 10000
<1>2. k \in Nat /\ k * 10000 >= m /\ (k - 1) * 10000 < m
  <2> HIDE DEF m
  <2> QED BY <1>1
<1>3. n # 0 => SampleSize(n, p) = AtMost(n, AtMost(p.max, AtLeast(p.min, k)))
  BY DEF SampleSize
<1>4. n = 0 => SampleSize(n, p) = 0 /\ m = 0
  BY <1>1 DEF SampleSize
<1> HIDE DEF m, k
<1>5. CASE n = 0
  BY <1>1, <1>4, <1>5
<1>6. CASE n # 0
  <2>1. PICK size : size = AtMost(n, AtMost(p.max, AtLeast(p.min, k)))
    OBVIOUS
  <2>2. /\ size \in Nat /\ size <= n /\ size <= p.max
        /\ size \in {n, p.max} \/ (size >= p.min /\ size >= k)
        /\ size > p.min => size <= k
    BY <1>1, <1>2, <2>1 DEF AtMost, AtLeast
  <2>3. size >= k => size * 10000 >= m
    BY <1>1, <1>2, <2>2
  <2>4. size <= k => (size - 1) * 10000 < m
    BY <1>1, <1>2, <2>2
  <2>5. SampleSize(n, p) = size
    BY <1>3, <1>6, <2>1
  <2> QED BY <2>2, <2>3, <2>4, <2>5 DEF m
<1> QED BY <1>5, <1>6

LEMMA EligibleRows ==
    ASSUME NEW r \in Reports
    PROVE  /\ Eligible(r) \subseteq DOMAIN VerdictOf[r]
           /\ IsFiniteSet(Eligible(r)) /\ Cardinality(Eligible(r)) \in Nat
<1>1. Eligible(r) \in SUBSET DOMAIN VerdictOf[r]
  BY DEF Eligible
<1> QED BY <1>1, ReviewAssumption, FS_Subset, FS_CardinalityType

\* A plan made from the latest configuration is one of SamplingPlan.
LEMMA NewPlan ==
    ASSUME Types, NEW r \in Reports, configs # <<>>,
           NEW rows \in Selections(r, configs[Len(configs)].parameters)
    PROVE  /\ PlanFrom(r, rows) \in SamplingPlan
           /\ PlanFrom(r, rows).config = Len(configs)
           /\ PlanFrom(r, rows).eligible = Cardinality(Eligible(r))
           /\ PlanFrom(r, rows).rows = rows
           /\ PlanFrom(r, rows) # NoPlan
           /\ Len(configs) \in 1..Len(configs)
<1>1. Len(configs) \in 1..MaxConfigs /\ Len(configs) \in 1..Len(configs)
  BY ReviewAssumption, LenProperties, EmptySeq DEF Types
<1>2. rows \subseteq DOMAIN VerdictOf[r]
  BY EligibleRows DEF Selections
<1>3. rows \in SUBSET UNION {DOMAIN VerdictOf[s] : s \in Reports}
  BY <1>2
<1>4. PlanFrom(r, rows) \in SamplingPlan
  BY <1>1, <1>3, EligibleRows DEF PlanFrom, SamplingPlan
<1>5. NoPlan.config = 0 /\ PlanFrom(r, rows).config = Len(configs)
  BY DEF NoPlan, PlanFrom
<1> QED BY <1>1, <1>4, <1>5 DEF PlanFrom

LEMMA ReviewInit == Init => ReviewsInv
<1> SUFFICES ASSUME Init PROVE ReviewsInv
  OBVIOUS
<1>1. configs = <<>> /\ configs \in Seq(Config) /\ Len(configs) <= MaxConfigs
  BY ReviewAssumption, EmptySeq DEF Init
<1>2. \A r \in Reports : Idle(r) \in Reader /\ Idle(r).done = 0
  BY DEF Idle, Reader, Statements
<1>3. granted \in Grants
  BY DEF Init, Grants
<1>4. Types
  BY <1>1, <1>2, <1>3, ReviewAssumption, FS_EmptySet DEF Init, Types
<1>5. \A r \in Reports : PlanInv(r)
  BY DEF Init, PlanInv, HasPlan
<1>6. RequestInv /\ ReviewInv /\ GrantInv
  BY DEF Init, RequestInv, ReviewInv, GrantInv
<1>7. ReaderInv
  BY <1>2 DEF Init, ReaderInv
<1> QED BY <1>4, <1>5, <1>6, <1>7 DEF ReviewsInv, RowsInv

-----------------------------------------------------------------------------
(* Writers *)

\* What a reader has counted stays a lower bound while rows are added.
LEMMA RowsGrow ==
    ASSUME Types, ReaderInv, UNCHANGED reader, reviews \subseteq reviews', IsFiniteSet(reviews'),
           completed \subseteq completed', \A r \in Reports : HasPlan(r) => HasPlan(r)'
    PROVE  ReaderInv'
<1>1. ASSUME NEW r, NEW field
      PROVE  /\ Count(r, field) \in Nat /\ Count(r, field)' \in Nat
             /\ Count(r, field) <= Count(r, field)'
  <2>1. /\ Counted(r, field) \in SUBSET reviews /\ Counted(r, field)' \in SUBSET reviews'
        /\ Counted(r, field) \in SUBSET Counted(r, field)'
    BY DEF Counted
  <2> QED BY <2>1, FS_Subset, FS_CardinalityType DEF Types, Count
<1>2. reader.report \in Reports /\ reader.counts \in [Fields -> Nat] /\ reader.done \in 0..7
  BY DEF Types, Reader, Fields, Statements
<1>3. {"plan", "completed", "confirmed", "false_positive", "sample_completed",
       "clearance_confirmed", "missed_issue"} \subseteq Fields
  BY DEF Fields, Statements
<1>4. \A field \in Fields : reader.counts[field] \in Nat
  BY <1>2
<1> DEFINE r == reader.report
<1>5. /\ Count(r, "completed") \in Nat /\ Count(r, "confirmed") \in Nat
      /\ Count(r, "false_positive") \in Nat /\ Count(r, "sample_completed") \in Nat
      /\ Count(r, "clearance_confirmed") \in Nat /\ Count(r, "missed_issue") \in Nat
  BY <1>1
<1> QED BY <1>1, <1>2, <1>3, <1>4 DEF ReaderInv

\* Plans, requests and reviews stand when rows are added to the tables they
\* refer to.
LEMMA ConfigStep ==
    ASSUME ReviewsInv,
           (\E k \in Keys, p \in Parameters : CreateConfig(k, p))
             \/ (\E k \in Keys, p \in Parameters, n \in 0..(MaxConfigs - 1) :
                    ReplayConfig(k, n, p))
    PROVE  ReviewsInv'
<1>1. Types /\ RowsInv /\ ReaderInv
  BY DEF ReviewsInv
<1>2. UNCHANGED <<completed, plan, requests, reviews, reader>>
  BY DEF CreateConfig, ReplayConfig
<1>3. PICK c : /\ granted' = [granted EXCEPT !.configs = @ \union {c}]
               /\ c \in Config
               /\ \/ configs' = Append(configs, c) /\ Len(configs) < MaxConfigs
                  \/ configs' = configs /\ \E v \in DOMAIN configs : configs[v] = c
  <2>1. CASE \E k \in Keys, p \in Parameters : CreateConfig(k, p)
    <3>1. PICK k \in Keys, p \in Parameters : CreateConfig(k, p)
      BY <2>1
    <3>2. [key |-> k, expected |-> Len(configs), parameters |-> p] \in Config
      BY <1>1, LenProperties DEF Config, Types
    <3> QED BY <3>1, <3>2 DEF CreateConfig
  <2>2. CASE \E k \in Keys, p \in Parameters, n \in 0..(MaxConfigs - 1) : ReplayConfig(k, n, p)
    <3>1. PICK k \in Keys, p \in Parameters, n \in 0..(MaxConfigs - 1) : ReplayConfig(k, n, p)
      BY <2>2
    <3>2. [key |-> k, expected |-> n, parameters |-> p] \in Config
      BY DEF Config
    <3> QED BY <3>1, <3>2 DEF ReplayConfig
  <2> QED BY <2>1, <2>2
<1>4. /\ configs' \in Seq(Config) /\ Len(configs') <= MaxConfigs
      /\ DOMAIN configs = 1..Len(configs) /\ DOMAIN configs' = 1..Len(configs')
      /\ Len(configs) \in Nat /\ Len(configs') \in Nat /\ Len(configs) <= Len(configs')
      /\ \A v \in 1..Len(configs) : configs'[v] = configs[v]
      /\ \E v \in DOMAIN configs' : configs'[v] = c
  <2>1. configs \in Seq(Config) /\ Len(configs) \in Nat /\ Len(configs) <= MaxConfigs
    BY <1>1, LenProperties DEF Types
  <2>2. CASE configs' = configs
    BY <1>3, <2>1, <2>2, LenProperties
  <2>3. CASE configs' = Append(configs, c) /\ Len(configs) < MaxConfigs
    <3>1. /\ configs' \in Seq(Config) /\ Len(configs') = Len(configs) + 1
          /\ \A v \in 1..Len(configs) : configs'[v] = configs[v]
          /\ configs'[Len(configs) + 1] = c
      BY <1>3, <2>1, <2>3, AppendProperties
    <3>2. /\ DOMAIN configs = 1..Len(configs) /\ DOMAIN configs' = 1..Len(configs')
      BY <2>1, <3>1, LenProperties
    <3>3. Len(configs') <= MaxConfigs /\ Len(configs) + 1 \in DOMAIN configs'
      BY <2>1, <2>3, <3>1, <3>2, ReviewAssumption
    <3> QED BY <2>1, <3>1, <3>2, <3>3
  <2> QED BY <1>3, <2>2, <2>3
<1>5. /\ granted' \in Grants
      /\ granted'.reviews = granted.reviews /\ granted'.plans = granted.plans
      /\ granted'.configs = granted.configs \union {c}
  BY <1>1, <1>3 DEF Types, Grants
<1>6. Types'
  BY <1>1, <1>2, <1>4, <1>5 DEF Types
<1>7. ASSUME NEW r \in Reports PROVE PlanInv(r)'
  <2>1. PlanInv(r)
    BY <1>1 DEF RowsInv
  <2>2. SUFFICES ASSUME HasPlan(r) PROVE PlanInv(r)'
    BY <1>2 DEF PlanInv, HasPlan
  <2>3. plan[r].config \in 1..Len(configs) /\ plan[r].config \in 1..Len(configs')
    BY <1>4, <2>1, <2>2 DEF PlanInv
  <2> QED BY <1>2, <1>4, <2>1, <2>2, <2>3 DEF PlanInv, HasPlan, Selections, Eligible
<1>8. RequestInv' /\ ReviewInv'
  BY <1>1, <1>2
     DEF RowsInv, RequestInv, HasPlan, ReviewInv, Reviewable, ReviewableFinding, ReviewableSample
<1>9. GrantInv'
  BY <1>1, <1>2, <1>4, <1>5 DEF RowsInv, GrantInv
<1>10. ReaderInv'
  BY <1>1, <1>2, RowsGrow DEF Types, HasPlan
<1> QED BY <1>6, <1>7, <1>8, <1>9, <1>10 DEF ReviewsInv, RowsInv

\* A plan is made for a report that has none, and stands; a request is granted
\* the plan that is there.
LEMMA PlanStep ==
    ASSUME ReviewsInv, NEW r \in Reports, NEW p \in SamplingPlan,
           plan' = [plan EXCEPT ![r] = p],
           completed \subseteq completed', completed' \subseteq Reports, r \in completed',
           HasPlan(r) => p = plan[r],
           ~HasPlan(r) => /\ p.config \in 1..Len(configs)
                          /\ p.eligible = Cardinality(Eligible(r))
                          /\ p.rows \in Selections(r, configs[p.config].parameters),
           UNCHANGED <<configs, reviews, reader>>,
           \/ UNCHANGED <<requests, granted>>
           \/ \E k \in Keys :
                /\ \A q \in requests : q.key = k => q.report = r
                /\ requests' = requests \union {[key |-> k, report |-> r]}
                /\ granted' = [granted EXCEPT !.plans =
                        @ \union {[key |-> k, plan |-> p, report |-> r]}]
    PROVE  ReviewsInv'
<1>1. Types /\ RowsInv /\ ReaderInv
  BY DEF ReviewsInv
<1>2. NoPlan.config = 0 /\ p # NoPlan
  BY DEF NoPlan, SamplingPlan
<1>3. /\ plan'[r] = p /\ \A s \in Reports \ {r} : plan'[s] = plan[s]
      /\ plan' \in [Reports -> SamplingPlan \union {NoPlan}]
      /\ HasPlan(r)' /\ \A s \in Reports : HasPlan(s) => HasPlan(s)' /\ plan'[s] = plan[s]
  BY <1>1, <1>2 DEF Types, HasPlan
<1>4. ASSUME NEW s \in Reports PROVE PlanInv(s)'
  <2>1. PlanInv(s)
    BY <1>1 DEF RowsInv
  <2>2. CASE HasPlan(s)
    BY <1>3, <2>1, <2>2 DEF PlanInv, Selections, Eligible
  <2>3. CASE ~HasPlan(s) /\ s = r
    BY <1>3, <2>3 DEF PlanInv, Selections, Eligible
  <2>4. CASE ~HasPlan(s) /\ s # r
    BY <1>3, <2>4 DEF PlanInv, HasPlan
  <2> QED BY <2>2, <2>3, <2>4
<1>5. \A v \in reviews : v.target.report \in Reports
  BY <1>1 DEF Types, Review, Targets, Findings, Samples
<1>6. ReviewInv'
  <2>1. ASSUME NEW v \in reviews PROVE Reviewable(v.target)'
    <3>1. Reviewable(v.target)
      BY <1>1 DEF RowsInv, ReviewInv
    <3>2. CASE v.target.kind = "finding"
      BY <3>1, <3>2 DEF Reviewable, ReviewableFinding
    <3>3. CASE v.target.kind # "finding"
      <4>1. v.target.id \in plan[v.target.report].rows
        BY <3>1, <3>3 DEF Reviewable, ReviewableSample
      <4>2. HasPlan(v.target.report)
        BY <4>1 DEF HasPlan, NoPlan
      <4> QED BY <1>3, <1>5, <3>1, <3>3, <4>2 DEF Reviewable, ReviewableSample
    <3> QED BY <3>2, <3>3
  <2> QED BY <1>1, <2>1 DEF RowsInv, ReviewInv
<1>7. \A q \in granted.plans : q.report \in Reports /\ q.plan \in SamplingPlan
  BY <1>1 DEF Types, Grants
<1>8. \A q \in granted.plans : plan'[q.report] = q.plan
  <2>1. ASSUME NEW q \in granted.plans PROVE plan'[q.report] = q.plan
    <3>1. plan[q.report] = q.plan
      BY <1>1 DEF RowsInv, GrantInv
    <3>2. HasPlan(q.report)
      <4>1. PICK s \in requests : s = [key |-> q.key, report |-> q.report]
        BY <1>1 DEF RowsInv, GrantInv
      <4> QED BY <1>1, <4>1 DEF RowsInv, RequestInv
    <3> QED BY <1>3, <1>7, <3>1, <3>2
  <2> QED BY <2>1
<1>9. /\ requests' \subseteq PlanRequest /\ granted' \in Grants
      /\ RequestInv' /\ GrantInv'
  <2>1. CASE UNCHANGED <<requests, granted>>
    <3>1. RequestInv'
      BY <1>1, <1>3, <2>1 DEF Types, RowsInv, RequestInv, PlanRequest
    <3> QED BY <1>1, <1>8, <2>1, <3>1 DEF Types, RowsInv, GrantInv
  <2>2. CASE ~UNCHANGED <<requests, granted>>
    <3>1. PICK k \in Keys :
            /\ \A q \in requests : q.key = k => q.report = r
            /\ requests' = requests \union {[key |-> k, report |-> r]}
            /\ granted' = [granted EXCEPT !.plans =
                    @ \union {[key |-> k, plan |-> p, report |-> r]}]
      BY <2>2
    <3>2. /\ granted' \in Grants
          /\ granted'.reviews = granted.reviews /\ granted'.configs = granted.configs
          /\ granted'.plans = granted.plans \union {[key |-> k, plan |-> p, report |-> r]}
      BY <1>1, <3>1 DEF Types, Grants
    <3>3. requests \subseteq PlanRequest /\ requests' \subseteq PlanRequest
      BY <1>1, <3>1 DEF Types, PlanRequest
    <3>4. \A q \in requests' : HasPlan(q.report)'
      BY <1>1, <1>3, <3>1, <3>3 DEF RowsInv, RequestInv, PlanRequest
    <3>5. ASSUME NEW q \in requests', NEW s \in requests', q.key = s.key PROVE q = s
      <4>1. /\ q = [key |-> q.key, report |-> q.report]
            /\ s = [key |-> s.key, report |-> s.report]
        BY <3>3, <3>5 DEF PlanRequest
      <4>2. q.report = s.report
        BY <1>1, <3>1, <3>5 DEF RowsInv, RequestInv
      <4> QED BY <3>5, <4>1, <4>2
    <3>6. GrantInv'
      <4>1. \A q \in granted'.plans : /\ plan'[q.report] = q.plan
                                      /\ [key |-> q.key, report |-> q.report] \in requests'
        <5>1. \A q \in granted.plans : [key |-> q.key, report |-> q.report] \in requests'
          BY <1>1, <3>1 DEF RowsInv, GrantInv
        <5>2. ASSUME NEW q, q = [key |-> k, plan |-> p, report |-> r]
              PROVE  /\ plan'[q.report] = q.plan
                     /\ [key |-> q.key, report |-> q.report] \in requests'
          BY <1>3, <3>1, <5>2
        <5> QED BY <1>8, <3>2, <5>1, <5>2
      <4> QED BY <1>1, <3>2, <4>1 DEF RowsInv, GrantInv
    <3> QED BY <3>2, <3>3, <3>4, <3>5, <3>6 DEF RequestInv
  <2> QED BY <2>1, <2>2
<1>10. Types'
  BY <1>1, <1>3, <1>9 DEF Types
<1>11. ReaderInv'
  BY <1>1, <1>3, RowsGrow DEF Types
<1> QED BY <1>4, <1>6, <1>9, <1>10, <1>11 DEF ReviewsInv, RowsInv

\* A decision is stored for a target without one, or is the one stored.
LEMMA DecideStep ==
    ASSUME ReviewsInv, NEW t \in Targets, NEW c \in Commands(t.kind), NEW k \in Keys,
           Reviewable(t), Decide(t, c, k)
    PROVE  ReviewsInv'
<1>1. Types /\ RowsInv /\ ReaderInv
  BY DEF ReviewsInv
<1>2. PICK a : a = [key |-> k, target |-> t, command |-> c]
  OBVIOUS
<1>3. a \in Review /\ a.key = k /\ a.target = t /\ a.command = c
  BY <1>2 DEF Review
<1>4. /\ UNCHANGED <<configs, completed, plan, requests, reader>>
      /\ granted' = [granted EXCEPT !.reviews = @ \union {a}]
  BY <1>2 DEF Decide
<1>5. reviews' = reviews \union {a} /\ (a \in reviews \/ \A v \in reviews : v.target # t)
  <2> DEFINE keyed == {v \in reviews : v.key = k /\ v.target.kind = t.kind}
  <2>1. /\ \A v \in keyed : SameRequest(v, t, c)
        /\ keyed = {} => \A v \in reviews : v.target # t
        /\ reviews' = IF keyed = {} THEN reviews \union {a} ELSE reviews
    BY <1>2 DEF Decide
  <2>2. CASE keyed = {}
    BY <2>1, <2>2
  <2>3. CASE keyed # {}
    <3>1. PICK v \in reviews : v.key = k /\ SameRequest(v, t, c)
      BY <2>1, <2>3
    <3>2. v = [key |-> v.key, target |-> v.target, command |-> v.command]
      BY <1>1 DEF Types, Review
    <3>3. v = a
      BY <1>2, <3>1, <3>2 DEF SameRequest
    <3> QED BY <2>1, <2>3, <3>3
  <2> QED BY <2>2, <2>3
<1>6. /\ granted' \in Grants
      /\ granted'.reviews = granted.reviews \union {a}
      /\ granted'.plans = granted.plans /\ granted'.configs = granted.configs
  BY <1>1, <1>3, <1>4 DEF Types, Grants
<1>7. reviews' \subseteq Review /\ IsFiniteSet(reviews') /\ reviews \subseteq reviews'
  BY <1>1, <1>3, <1>5, FS_AddElement DEF Types
<1>8. Types'
  BY <1>1, <1>4, <1>6, <1>7 DEF Types
<1>9. ReviewInv'
  <2>1. \A v, w \in reviews' : v.target = w.target => v = w
    BY <1>1, <1>3, <1>5 DEF RowsInv, ReviewInv
  <2>2. \A v \in reviews' : Reviewable(v.target)
    BY <1>1, <1>3, <1>5 DEF RowsInv, ReviewInv
  <2> QED BY <1>4, <2>1, <2>2 DEF ReviewInv, Reviewable, ReviewableFinding, ReviewableSample
<1>10. RequestInv' /\ GrantInv'
  BY <1>1, <1>4, <1>5, <1>6 DEF RowsInv, RequestInv, HasPlan, GrantInv
<1>11. \A r \in Reports : PlanInv(r)'
  BY <1>1, <1>4 DEF RowsInv, PlanInv, HasPlan, Selections, Eligible
<1>12. ReaderInv'
  BY <1>1, <1>4, <1>7, RowsGrow DEF HasPlan
<1> QED BY <1>8, <1>9, <1>10, <1>11, <1>12 DEF ReviewsInv, RowsInv

-----------------------------------------------------------------------------
(* Readers *)

LEMMA Disjoint ==
    ASSUME NEW S, NEW T, IsFiniteSet(S), IsFiniteSet(T), S \intersect T = {}
    PROVE  Cardinality(S \union T) = Cardinality(S) + Cardinality(T)
<1>1. Cardinality(S \union T) =
        Cardinality(S) + Cardinality(T) - Cardinality(S \intersect T)
  BY FS_Union
<1>2. Cardinality(S) \in Nat /\ Cardinality(T) \in Nat /\ Cardinality(S \intersect T) = 0
  BY FS_CardinalityType, FS_EmptySet
<1> QED BY <1>1, <1>2

\* What is completed is what its decisions say.
LEMMA Parts ==
    ASSUME Types, NEW r
    PROVE  /\ \A field : Count(r, field) \in Nat
           /\ Count(r, "completed") = Count(r, "confirmed") + Count(r, "false_positive")
           /\ Count(r, "sample_completed") =
                    Count(r, "clearance_confirmed") + Count(r, "missed_issue")
<1>1. ASSUME NEW field PROVE IsFiniteSet(Counted(r, field)) /\ Count(r, field) \in Nat
  <2>1. Counted(r, field) \in SUBSET reviews
    BY DEF Counted
  <2> QED BY <2>1, FS_Subset, FS_CardinalityType DEF Types, Count
<1>2. \A v \in reviews : v.target \in Targets /\ v.command \in Commands(v.target.kind)
  BY DEF Types, Review
<1>3. \A v \in reviews :
        /\ v.target.kind = "finding" => v.command.decision \in {"confirmed", "false_positive"}
        /\ v.target.kind = "clearance_sample" =>
                v.command.decision \in {"clearance_confirmed", "missed_issue"}
  BY <1>2 DEF Commands
<1>4. /\ Counted(r, "completed") = Counted(r, "confirmed") \union Counted(r, "false_positive")
      /\ Counted(r, "confirmed") \intersect Counted(r, "false_positive") = {}
  BY <1>3 DEF Counted
<1>5. /\ Counted(r, "sample_completed") =
            Counted(r, "clearance_confirmed") \union Counted(r, "missed_issue")
      /\ Counted(r, "clearance_confirmed") \intersect Counted(r, "missed_issue") = {}
  BY <1>3 DEF Counted
<1>6. Count(r, "completed") = Count(r, "confirmed") + Count(r, "false_positive")
  BY <1>1, <1>4, Disjoint DEF Count
<1>7. Count(r, "sample_completed") = Count(r, "clearance_confirmed") + Count(r, "missed_issue")
  BY <1>1, <1>5, Disjoint DEF Count
<1> QED BY <1>1, <1>6, <1>7

LEMMA ReadStep ==
    ASSUME ReviewsInv, ReadNext
    PROVE  ReviewsInv'
<1>1. Types /\ RowsInv /\ ReaderInv
  BY DEF ReviewsInv
<1>2. UNCHANGED <<configs, completed, plan, requests, reviews, granted>>
  BY DEF ReadNext
<1> DEFINE AllFields == {"plan", "completed", "confirmed", "false_positive",
                         "sample_completed", "clearance_confirmed", "missed_issue"}
<1>3. Fields = AllFields /\ Len(Statements) = 7
  BY DEF Fields, Statements
<1>4. PICK r, n, d : r = reader.report /\ n = reader.counts /\ d = reader.done
  OBVIOUS
<1>5. /\ reader = [report |-> r, done |-> d, counts |-> n]
      /\ r \in Reports /\ d \in 0..7 /\ n \in [AllFields -> Nat]
  BY <1>1, <1>3, <1>4 DEF Types, Reader, Fields
<1>6. PICK field, value :
        /\ field = Statements[d + 1]
        /\ value = IF field = "plan" THEN IF HasPlan(r) THEN 1 ELSE 0 ELSE Count(r, field)
        /\ reader' = [reader EXCEPT !.done = @ + 1, !.counts[field] = value]
  BY <1>4 DEF ReadNext, Count
<1>7. r \in completed /\ d < 7 /\ (d = 4 => n["plan"] = 1)
  BY <1>3, <1>4 DEF ReadNext
<1>8. field \in AllFields /\ value \in Nat
  <2>1. field \in Fields
    BY <1>5, <1>6, <1>7, <1>3 DEF Fields, Statements
  <2> QED BY <1>1, <1>3, <1>6, <2>1, Parts
<1>9. /\ reader' = [report |-> r, done |-> d + 1, counts |-> [n EXCEPT ![field] = value]]
      /\ reader' \in Reader
  <2>1. reader' = [report |-> r, done |-> d + 1, counts |-> [n EXCEPT ![field] = value]]
    BY <1>5, <1>6
  <2>2. [n EXCEPT ![field] = value] \in [AllFields -> Nat]
    BY <1>5, <1>8
  <2>3. d + 1 \in 0..7
    BY <1>5, <1>7
  <2> QED BY <1>3, <1>5, <2>1, <2>2, <2>3 DEF Reader, Fields
<1>10. PICK m : /\ m = reader'.counts /\ reader'.done = d + 1 /\ reader'.report = r
                /\ m[field] = value /\ \A g \in AllFields \ {field} : m[g] = n[g]
  BY <1>5, <1>8, <1>9
<1>11. \A g : Count(r, g)' = Count(r, g)
  BY <1>2, <1>4, <1>10 DEF Count, Counted
<1>12. HasPlan(r)' <=> HasPlan(r)
  BY <1>2 DEF HasPlan
<1>13. ReaderInv'
  <2>1. /\ d = 0 => field = "plan"
        /\ d = 1 => field = "completed"
        /\ d = 2 => field = "confirmed"
        /\ d = 3 => field = "false_positive"
        /\ d = 4 => field = "sample_completed"
        /\ d = 5 => field = "clearance_confirmed"
        /\ d = 6 => field = "missed_issue"
    BY <1>6 DEF Statements
  <2>2. \A g \in AllFields : Count(r, g) \in Nat /\ n[g] \in Nat
    BY <1>1, <1>5, Parts
  <2>3. /\ Count(r, "completed") = Count(r, "confirmed") + Count(r, "false_positive")
        /\ Count(r, "sample_completed") =
                    Count(r, "clearance_confirmed") + Count(r, "missed_issue")
    BY <1>1, Parts
  <2>4. CASE d = 0
    BY <1>1, <1>2, <1>4, <1>6, <1>7, <1>10, <1>11, <1>12, <2>1, <2>2, <2>4 DEF ReaderInv
  <2>5. CASE d = 1
    BY <1>1, <1>2, <1>4, <1>6, <1>7, <1>10, <1>11, <1>12, <2>1, <2>2, <2>3, <2>5 DEF ReaderInv
  <2>6. CASE d = 2
    BY <1>1, <1>2, <1>4, <1>6, <1>7, <1>10, <1>11, <1>12, <2>1, <2>2, <2>6 DEF ReaderInv
  <2>7. CASE d = 3
    BY <1>1, <1>2, <1>4, <1>6, <1>7, <1>10, <1>11, <1>12, <2>1, <2>2, <2>7 DEF ReaderInv
  <2>8. CASE d = 4
    BY <1>1, <1>2, <1>4, <1>6, <1>7, <1>10, <1>11, <1>12, <2>1, <2>2, <2>3, <2>8 DEF ReaderInv
  <2>9. CASE d = 5
    BY <1>1, <1>2, <1>4, <1>6, <1>7, <1>10, <1>11, <1>12, <2>1, <2>2, <2>9 DEF ReaderInv
  <2>10. CASE d = 6
    BY <1>1, <1>2, <1>4, <1>6, <1>7, <1>10, <1>11, <1>12, <2>1, <2>2, <2>10 DEF ReaderInv
  <2> QED BY <1>5, <1>7, <2>4, <2>5, <2>6, <2>7, <2>8, <2>9, <2>10
<1>14. Types'
  BY <1>1, <1>2, <1>9 DEF Types
<1>15. RowsInv'
  BY <1>1, <1>2
     DEF RowsInv, RequestInv, HasPlan, ReviewInv, Reviewable, ReviewableFinding,
         ReviewableSample, GrantInv, PlanInv, Selections, Eligible
<1> QED BY <1>13, <1>14, <1>15 DEF ReviewsInv

-----------------------------------------------------------------------------

LEMMA ReviewStep == ReviewsInv /\ [Next]_vars => ReviewsInv'
<1> SUFFICES ASSUME ReviewsInv, [Next]_vars PROVE ReviewsInv'
  OBVIOUS
<1>1. Types /\ RowsInv
  BY DEF ReviewsInv
<1>2. CASE \/ \E k \in Keys, p \in Parameters : CreateConfig(k, p)
           \/ \E k \in Keys, p \in Parameters, n \in 0..(MaxConfigs - 1) : ReplayConfig(k, n, p)
  BY <1>2, ConfigStep
<1>3. ASSUME NEW r \in Reports, NEW rows \in SUBSET Eligible(r), CompleteReport(r, rows)
      PROVE  ReviewsInv'
  <2>1. /\ configs # <<>> /\ r \notin completed
        /\ rows \in Selections(r, configs[Len(configs)].parameters)
        /\ completed' = completed \union {r}
        /\ plan' = [plan EXCEPT ![r] = PlanFrom(r, rows)]
        /\ UNCHANGED <<configs, requests, reviews, granted, reader>>
    BY <1>3 DEF CompleteReport
  <2>2. ~HasPlan(r)
    BY <1>1, <2>1 DEF RowsInv, PlanInv
  <2>3. completed \subseteq completed' /\ completed' \subseteq Reports /\ r \in completed'
    BY <1>1, <2>1 DEF Types
  <2> QED BY <1>1, <2>1, <2>2, <2>3, NewPlan, PlanStep
<1>4. ASSUME NEW k \in Keys, NEW r \in Reports, RequestPlan(k, r) PROVE ReviewsInv'
  <2>1. /\ HasPlan(r) /\ \A q \in requests : q.key = k => q.report = r
        /\ requests' = requests \union {[key |-> k, report |-> r]}
        /\ granted' = [granted EXCEPT !.plans =
                @ \union {[key |-> k, plan |-> plan[r], report |-> r]}]
        /\ UNCHANGED <<configs, completed, plan, reviews, reader>>
    BY <1>4 DEF RequestPlan
  <2>2. plan[r] \in SamplingPlan /\ plan' = [plan EXCEPT ![r] = plan[r]]
    BY <1>1, <2>1 DEF Types, HasPlan
  <2>3. completed \subseteq completed' /\ completed' \subseteq Reports /\ r \in completed'
    BY <1>1, <2>1 DEF Types, RowsInv, PlanInv
  <2> QED BY <2>1, <2>2, <2>3, PlanStep
<1>5. ASSUME NEW k \in Keys, NEW r \in Reports, NEW rows \in SUBSET Eligible(r),
             RequestLegacyPlan(k, r, rows)
      PROVE  ReviewsInv'
  <2>1. /\ r \in completed /\ ~HasPlan(r) /\ configs # <<>>
        /\ \A q \in requests : q.key # k
        /\ rows \in Selections(r, configs[Len(configs)].parameters)
        /\ plan' = [plan EXCEPT ![r] = PlanFrom(r, rows)]
        /\ requests' = requests \union {[key |-> k, report |-> r]}
        /\ granted' = [granted EXCEPT !.plans =
                @ \union {[key |-> k, plan |-> PlanFrom(r, rows), report |-> r]}]
        /\ UNCHANGED <<configs, completed, reviews, reader>>
    BY <1>5 DEF RequestLegacyPlan
  <2>2. completed \subseteq completed' /\ completed' \subseteq Reports /\ r \in completed'
    BY <1>1, <2>1 DEF Types
  <2> QED BY <1>1, <2>1, <2>2, NewPlan, PlanStep
<1>6. ASSUME NEW k \in Keys, NEW c \in Commands("finding"),
             NEW r \in Reports, NEW t \in Findings(r), SubmitFindingReview(t, c, k)
      PROVE  ReviewsInv'
  <2>1. t \in Targets /\ t.kind = "finding"
    BY DEF Targets, Findings
  <2> QED BY <1>6, <2>1, DecideStep DEF SubmitFindingReview, Reviewable
<1>7. ASSUME NEW k \in Keys, NEW c \in Commands("clearance_sample"),
             NEW r \in Reports, NEW t \in Samples(r, DOMAIN VerdictOf[r]),
             SubmitSamplingReview(t, c, k)
      PROVE  ReviewsInv'
  <2>1. t \in Targets /\ t.kind = "clearance_sample"
    BY DEF Targets, Samples
  <2> QED BY <1>7, <2>1, DecideStep DEF SubmitSamplingReview, Reviewable
<1>8. CASE ReadNext
  BY <1>8, ReadStep
<1>9. CASE ReadAnother
  <2>1. PICK r \in Reports : reader' = Idle(r)
    BY <1>9 DEF ReadAnother
  <2>2. reader' \in Reader /\ reader'.done = 0
    BY <2>1 DEF Idle, Reader, Statements
  <2>3. UNCHANGED <<configs, completed, plan, requests, reviews, granted>>
    BY <1>9 DEF ReadAnother
  <2>4. Types'
    BY <1>1, <2>2, <2>3 DEF Types
  <2>5. ReaderInv'
    BY <2>2 DEF ReaderInv
  <2>6. RowsInv'
    BY <1>1, <2>3
       DEF RowsInv, RequestInv, HasPlan, ReviewInv, Reviewable, ReviewableFinding,
           ReviewableSample, GrantInv, PlanInv, Selections, Eligible
  <2> QED BY <2>4, <2>5, <2>6 DEF ReviewsInv
<1>10. CASE UNCHANGED vars
  <2>1. Types'
    BY <1>1, <1>10 DEF vars, Types
  <2>2. RowsInv'
    BY <1>1, <1>10
       DEF vars, RowsInv, RequestInv, HasPlan, ReviewInv, Reviewable, ReviewableFinding,
           ReviewableSample, GrantInv, PlanInv, Selections, Eligible
  <2>3. ReaderInv'
    BY <1>1, <1>10, RowsGrow DEF ReviewsInv, vars, Types, HasPlan
  <2> QED BY <2>1, <2>2, <2>3 DEF ReviewsInv
<1> QED BY <1>2, <1>3, <1>4, <1>5, <1>6, <1>7, <1>8, <1>9, <1>10 DEF Next

LEMMA ReviewInvariance == Spec => []ReviewsInv
<1> QED BY ReviewInit, ReviewStep, PTL DEF Spec

-----------------------------------------------------------------------------

\* Rows have their types, and a plan names a version that exists.
THEOREM TypeCorrect == Spec => []ReviewTypeOK
<1>1. ReviewsInv => ReviewTypeOK
  <2> SUFFICES ASSUME ReviewsInv PROVE ReviewTypeOK
    OBVIOUS
  <2>1. \A r \in Reports : HasPlan(r) => r \in completed /\ plan[r].config <= Len(configs)
    BY LenProperties DEF ReviewsInv, RowsInv, PlanInv, Types
  <2> QED BY <2>1 DEF ReviewsInv, Types, RowsInv, RequestInv, ReviewTypeOK
<1> QED BY <1>1, ReviewInvariance, PTL

\* A decision, a plan and a version of the configuration that was granted is
\* stored, under its key, and no other decision or plan is
\* (submit_finding_review, create_legacy_sampling_plan, create_sampling_config).
THEOREM GrantsStand == Spec => []GrantedIsStored
<1>1. ReviewsInv => GrantedIsStored
  <2> SUFFICES ASSUME ReviewsInv PROVE GrantedIsStored
    OBVIOUS
  <2>1. RequestInv /\ ReviewInv /\ GrantInv /\ granted \in Grants
    BY DEF ReviewsInv, RowsInv, Types
  <2>2. ASSUME NEW q \in granted.plans, NEW s \in granted.plans, q.key = s.key PROVE q = s
    <3>1. PICK a \in requests, b \in requests :
            /\ a = [key |-> q.key, report |-> q.report]
            /\ b = [key |-> s.key, report |-> s.report]
      BY <2>1 DEF GrantInv
    <3>2. a = b
      BY <2>1, <2>2, <3>1 DEF RequestInv
    <3>3. q.report = s.report
      BY <3>1, <3>2
    <3>4. q.plan = s.plan
      BY <2>1, <3>3 DEF GrantInv
    <3>5. /\ q = [key |-> q.key, plan |-> q.plan, report |-> q.report]
          /\ s = [key |-> s.key, plan |-> s.plan, report |-> s.report]
      BY <2>1 DEF Grants
    <3> QED BY <2>2, <3>3, <3>4, <3>5
  <2> QED BY <2>1, <2>2 DEF GrantInv, ReviewInv, GrantedIsStored
<1> QED BY <1>1, ReviewInvariance, PTL

\* What the queue shows can be decided (list_review_queue against
\* submit_finding_review and submit_sampling_review).
THEOREM QueueIsDecidable == Spec => []PendingIsDecidable
<1>1. ReviewsInv => PendingIsDecidable
  <2> SUFFICES ASSUME ReviewsInv, NEW t \in Pending
               PROVE  IF t.kind = "finding" THEN ReviewableFinding(t) ELSE ReviewableSample(t)
    BY DEF PendingIsDecidable
  <2>1. completed \subseteq Reports /\ \A r \in Reports : PlanInv(r)
    BY DEF ReviewsInv, Types, RowsInv
  <2>2. CASE \E r \in completed : /\ t \in Findings(r)
                                  /\ GroupOf[t.report][t.id] \in
                                        {"high_attention", "manual_attention"}
    BY <2>2 DEF Findings, ReviewableFinding
  <2>3. CASE \E r \in completed : t \in Samples(r, plan[r].rows)
    <3>1. PICK r \in completed : t \in Samples(r, plan[r].rows)
      BY <2>3
    <3>2. t.kind = "clearance_sample" /\ t.report = r /\ t.id \in plan[r].rows
      BY <3>1 DEF Samples
    <3>3. HasPlan(r)
      BY <3>2 DEF HasPlan, NoPlan
    <3>4. VerdictOf[r][t.id] = "passed"
      BY <2>1, <3>2, <3>3 DEF PlanInv, Selections, Eligible
    <3> QED BY <3>1, <3>2, <3>4 DEF ReviewableSample
  <2> QED BY <2>2, <2>3 DEF Pending
<1> QED BY <1>1, ReviewInvariance, PTL

\* A sample is as large as the version of the configuration it names wants, for
\* any rate, minimum, maximum and number of rows (calculate_sample_size).
THEOREM SampleSizeIsRight == Spec => []SampleFollowsConfig
<1>1. ReviewsInv => SampleFollowsConfig
  <2> SUFFICES ASSUME ReviewsInv, NEW r \in Reports, HasPlan(r)
               PROVE  LET p == configs[plan[r].config].parameters
                          n == Cardinality(Eligible(r))
                          size == Cardinality(plan[r].rows)
                      IN  /\ plan[r].eligible = n
                          /\ size <= n /\ size <= p.max
                          /\ size \in {n, p.max} \/ (size >= p.min /\ size * 10000 >= n * p.rate)
                          /\ size > p.min => (size - 1) * 10000 < n * p.rate
    BY DEF SampleFollowsConfig
  <2>1. PlanInv(r) /\ configs \in Seq(Config)
    BY DEF ReviewsInv, Types, RowsInv
  <2>2. PICK p \in Parameters : p = configs[plan[r].config].parameters
    <3>1. configs[plan[r].config] \in Config
      BY <2>1, ElementOfSeq DEF PlanInv
    <3> QED BY <3>1 DEF Config
  <2>3. PICK n \in Nat : n = Cardinality(Eligible(r))
    BY EligibleRows
  <2>4. Cardinality(plan[r].rows) = SampleSize(n, p) /\ plan[r].eligible = n
    BY <2>1, <2>2, <2>3 DEF PlanInv, Selections
  <2> QED BY <2>2, <2>3, <2>4, SampleSizes
<1> QED BY <1>1, ReviewInvariance, PTL

\* A target has one review, so there are not more reviews than targets.
LEMMA ReviewedTargets ==
    ASSUME ReviewsInv, NEW r \in Reports
    PROVE  /\ Cardinality({t \in Findings(r) : ReviewableFinding(t)}) \in Nat
           /\ Count(r, "completed") <= Cardinality({t \in Findings(r) : ReviewableFinding(t)})
           /\ Cardinality(plan[r].rows) \in Nat
           /\ Count(r, "sample_completed") <= Cardinality(plan[r].rows)
<1>1. Types /\ ReviewInv /\ PlanInv(r)
  BY DEF ReviewsInv, RowsInv
<1>2. ASSUME NEW v \in reviews
      PROVE  /\ v.target.kind \in {"finding", "clearance_sample"}
             /\ v.target = [kind |-> v.target.kind, report |-> v.target.report,
                            id |-> v.target.id]
             /\ v.target.kind = "finding" => v.target \in Findings(v.target.report)
  <2>1. v.target \in Targets
    BY <1>1 DEF Types, Review
  <2>2. PICK s \in Reports : v.target \in Findings(s) \union Samples(s, DOMAIN VerdictOf[s])
    BY <2>1 DEF Targets
  <2>3. CASE v.target \in Findings(s)
    BY <2>3 DEF Findings
  <2>4. CASE v.target \in Samples(s, DOMAIN VerdictOf[s])
    BY <2>4 DEF Samples
  <2> QED BY <2>2, <2>3, <2>4
<1> DEFINE open == {t \in Findings(r) : ReviewableFinding(t)}
<1>3. IsFiniteSet(open)
  <2> DEFINE f == [t \in open |-> t.id]
  <2>1. \A t \in open : /\ t = [kind |-> "finding", report |-> r, id |-> t.id]
                        /\ t.id \in DOMAIN GroupOf[r]
    BY DEF Findings
  <2>2. f \in Injection(open, DOMAIN GroupOf[r])
    BY <2>1 DEF Injection, IsInjective
  <2> QED BY <2>2, FS_Injection, ReviewAssumption
<1>4. Cardinality(Counted(r, "completed")) <= Cardinality(open)
  <2> DEFINE S == Counted(r, "completed")
             f == [v \in S |-> v.target]
  <2>1. \A v \in S : v \in reviews /\ v.target.report = r /\ v.target.kind = "finding"
    BY DEF Counted
  <2>2. \A v \in S : v.target \in open
    BY <1>1, <1>2, <2>1 DEF ReviewInv, Reviewable
  <2>3. f \in Injection(S, open)
    <3>1. \A v, w \in S : v.target = w.target => v = w
      BY <1>1, <2>1 DEF ReviewInv
    <3> HIDE DEF S, open
    <3> QED BY <2>2, <3>1 DEF Injection, IsInjective
  <2> QED BY <1>3, <2>3, FS_Injection
<1>5. IsFiniteSet(plan[r].rows)
  <2>1. CASE HasPlan(r)
    <3>1. plan[r].rows \in SUBSET Eligible(r)
      BY <1>1, <2>1 DEF PlanInv, Selections
    <3> QED BY <3>1, EligibleRows, FS_Subset
  <2>2. CASE ~HasPlan(r)
    BY <2>2, FS_EmptySet DEF HasPlan, NoPlan
  <2> QED BY <2>1, <2>2
<1>6. Cardinality(Counted(r, "sample_completed")) <= Cardinality(plan[r].rows)
  <2> DEFINE S == Counted(r, "sample_completed")
             f == [v \in S |-> v.target.id]
  <2>1. \A v \in S : v \in reviews /\ v.target.report = r /\ v.target.kind = "clearance_sample"
    BY DEF Counted
  <2>2. \A v \in S : v.target.id \in plan[r].rows
    BY <1>1, <2>1 DEF ReviewInv, Reviewable, ReviewableSample
  <2>3. f \in Injection(S, plan[r].rows)
    <3>1. \A v, w \in S : v.target.id = w.target.id => v.target = w.target
      BY <1>2, <2>1
    <3>2. \A v, w \in S : v.target.id = w.target.id => v = w
      BY <1>1, <2>1, <3>1 DEF ReviewInv
    <3> HIDE DEF S
    <3> QED BY <2>2, <3>2 DEF Injection, IsInjective
  <2> QED BY <1>5, <2>3, FS_Injection
<1> QED BY <1>3, <1>4, <1>5, <1>6, FS_CardinalityType DEF Count

\* A summary read while decisions are made still adds up (get_review_summary).
THEOREM TornSummary == Spec => []SummaryAddsUp
<1>1. ReviewsInv => SummaryAddsUp
  <2> SUFFICES ASSUME ReviewsInv PROVE SummaryAddsUp
    OBVIOUS
  <2>1. Types /\ ReaderInv
    BY DEF ReviewsInv
  <2>2. PICK r, n, d : r = reader.report /\ n = reader.counts /\ d = reader.done
    OBVIOUS
  <2>3. r \in Reports /\ d \in 0..7 /\ n \in [Fields -> Nat]
    BY <2>1, <2>2 DEF Types, Reader, Fields, Statements
  <2>4. {"completed", "confirmed", "false_positive", "sample_completed",
         "clearance_confirmed", "missed_issue"} \subseteq Fields
    BY DEF Fields, Statements
  <2>5. /\ n["completed"] \in Nat /\ n["confirmed"] \in Nat /\ n["false_positive"] \in Nat
        /\ n["sample_completed"] \in Nat /\ n["clearance_confirmed"] \in Nat
        /\ n["missed_issue"] \in Nat
    BY <2>3, <2>4
  <2>6. /\ Count(r, "completed") \in Nat /\ Count(r, "confirmed") \in Nat
        /\ Count(r, "false_positive") \in Nat /\ Count(r, "sample_completed") \in Nat
        /\ Count(r, "completed") = Count(r, "confirmed") + Count(r, "false_positive")
    BY <2>1, Parts
  <2>7. /\ Cardinality({t \in Findings(r) : ReviewableFinding(t)}) \in Nat
        /\ Count(r, "completed") <= Cardinality({t \in Findings(r) : ReviewableFinding(t)})
        /\ Cardinality(plan[r].rows) \in Nat
        /\ Count(r, "sample_completed") <= Cardinality(plan[r].rows)
    BY <2>3, ReviewedTargets
  <2>8. d >= 4 => /\ n["completed"] <= n["confirmed"] + n["false_positive"]
                  /\ n["confirmed"] <= Count(r, "confirmed")
                  /\ n["false_positive"] <= Count(r, "false_positive")
                  /\ n["completed"] <= Count(r, "completed")
    BY <2>1, <2>2, <2>3 DEF ReaderInv
  <2>9. d = 7 => /\ n["sample_completed"] <= n["clearance_confirmed"] + n["missed_issue"]
                 /\ n["sample_completed"] <= Count(r, "sample_completed")
    BY <2>1, <2>2, <2>3 DEF ReaderInv
  <2>10. d >= 4 => /\ n["completed"] <= n["confirmed"] + n["false_positive"]
                   /\ n["confirmed"] + n["false_positive"] <= Count(r, "completed")
                   /\ n["completed"] <= Cardinality({t \in Findings(r) : ReviewableFinding(t)})
    BY <2>5, <2>6, <2>7, <2>8
  <2>11. d = 7 => /\ n["sample_completed"] <= n["clearance_confirmed"] + n["missed_issue"]
                  /\ n["sample_completed"] <= Cardinality(plan[r].rows)
    BY <2>5, <2>6, <2>7, <2>9
  <2> QED BY <2>2, <2>10, <2>11 DEF SummaryAddsUp, Count
<1> QED BY <1>1, ReviewInvariance, PTL
=============================================================================
