--------------------------- MODULE RuleEvaluator ---------------------------
(***************************************************************************)
(* What one rule says of one record: core/rules/evaluator.py, but for the  *)
(* comparison of invoice numbers, which needs the other batches.           *)
(*                                                                         *)
(* A record maps the unified fields to their values, None where it has     *)
(* none; its component "inferred" has the fields whose provenance is an    *)
(* inference and not a column.  The entries of a rule are functions of     *)
(* their decision keys, which the definitions keep unique; its exemptions  *)
(* are in the order of their ids.                                          *)
(***************************************************************************)
EXTENDS Integers, Sequences

CONSTANT None

RequiredFields ==
    [limit |-> {"amount", "expense_type", "currency"},
     invoice_type |-> {"expense_type", "invoice_type"},
     timeliness |-> {"expense_type", "expense_date", "submission_date"},
     invoice_title |-> {"invoice_title"},
     invoice_duplicate |-> {"invoice_no"}]

\* A result, with the fields its evidence is about.
Evaluation(outcome, reason, fields, exemption) ==
    [outcome |-> outcome, reason |-> reason, fields |-> fields, exemption |-> exemption]

Passed == Evaluation("passed", None, {}, None)
Unavailable(reason, fields) == Evaluation("unavailable", reason, fields, None)
Flagged(definition, reason) ==
    Evaluation("flagged", reason, RequiredFields[definition.kind], None)

ExemptionMatches(group, record) ==
    \A field \in DOMAIN group.all : record[field] = group.all[field]

\* The first exemption that matches, as a set of at most one.
Exemption(definition, record) ==
    LET matching == {i \in DOMAIN definition.exemptions :
                        ExemptionMatches(definition.exemptions[i], record)}
    IN  {definition.exemptions[i] : i \in {j \in matching : \A k \in matching : j <= k}}

\* The rule wants columns, and one of the fields is inferred.
NotDirect(definition, record, fields) ==
    definition.require_direct /\ fields \intersect record.inferred # {}

Exempted(definition, record, group) ==
    IF NotDirect(definition, record, DOMAIN group.all)
    THEN Unavailable("INFERRED_FIELD_NOT_ALLOWED", DOMAIN group.all)
    ELSE Evaluation("exempted", "EXEMPTION_MATCHED", DOMAIN group.all, group.exemption_id)

MissingReason(kind) ==
    CASE kind = "invoice_title" -> "INVOICE_TITLE_MISSING"
      [] kind = "invoice_duplicate" -> "INVOICE_NO_MISSING"
      [] OTHER -> "MISSING_REQUIRED_FIELD"

\* The result that needs no comparison, as a set of at most one.
UnavailableOrExempted(definition, record) ==
    LET fields == RequiredFields[definition.kind]
        groups == Exemption(definition, record)
    IN  IF ~definition.enabled THEN {Unavailable("RULE_DISABLED", fields)}
        ELSE IF groups # {} THEN {Exempted(definition, record, group) : group \in groups}
        ELSE IF \E field \in fields : record[field] = None
             THEN {Unavailable(MissingReason(definition.kind), fields)}
        ELSE IF NotDirect(definition, record, fields)
             THEN {Unavailable("INFERRED_FIELD_NOT_ALLOWED", fields)}
        ELSE {}

EvaluateLimit(definition, record) ==
    LET key == <<record.expense_type, record.currency>>
    IN  IF key \notin DOMAIN definition.thresholds
        THEN Unavailable("LIMIT_THRESHOLD_NOT_CONFIGURED", RequiredFields.limit)
        ELSE IF record.amount <= definition.thresholds[key] THEN Passed
        ELSE Flagged(definition, "limit_exceeded")

EvaluateInvoiceType(definition, record) ==
    IF record.expense_type \notin DOMAIN definition.allowances
    THEN Unavailable("INVOICE_TYPE_POLICY_NOT_CONFIGURED", RequiredFields.invoice_type)
    ELSE IF record.invoice_type \in definition.allowances[record.expense_type] THEN Passed
    ELSE Flagged(definition, "invoice_type_not_allowed")

EvaluateTimeliness(definition, record) ==
    LET days == record.submission_date - record.expense_date
    IN  IF record.expense_type \notin DOMAIN definition.policies
        THEN Unavailable("TIMELINESS_POLICY_NOT_CONFIGURED", RequiredFields.timeliness)
        ELSE IF days < 0
        THEN Unavailable("SUBMISSION_BEFORE_EXPENSE_DATE", RequiredFields.timeliness)
        ELSE IF days > definition.policies[record.expense_type]
        THEN Flagged(definition, "claim_submitted_late")
        ELSE Passed

EvaluateInvoiceTitle(definition, record) ==
    IF record.invoice_title \in definition.allowed_titles THEN Passed
    ELSE Flagged(definition, "invoice_title_not_allowed")

EvaluateInvoiceDuplicate(definition, match) ==
    IF match = None THEN Passed ELSE Flagged(definition, "invoice_duplicate")

\* evaluate_rule, with the earlier occurrence of the record's invoice, if any.
EvaluateRule(definition, record, match) ==
    LET early == UnavailableOrExempted(definition, record)
    IN  IF early # {} THEN CHOOSE evaluation \in early : TRUE
        ELSE CASE definition.kind = "limit" -> EvaluateLimit(definition, record)
               [] definition.kind = "invoice_type" -> EvaluateInvoiceType(definition, record)
               [] definition.kind = "timeliness" -> EvaluateTimeliness(definition, record)
               [] definition.kind = "invoice_title" -> EvaluateInvoiceTitle(definition, record)
               [] OTHER -> EvaluateInvoiceDuplicate(definition, match)

\* aggregate_verdict
Verdict(outcomes) ==
    IF "flagged" \in outcomes THEN "flagged"
    ELSE IF "unavailable" \in outcomes THEN "manual_review" ELSE "passed"

-----------------------------------------------------------------------------
(* What the models of the evidence accept (core/rules/models.py): they are  *)
(* validated when the evaluator builds them, and a refusal is an exception  *)
(* in the middle of a validation.                                           *)

FlaggedReason ==
    [limit |-> "limit_exceeded", invoice_type |-> "invoice_type_not_allowed",
     timeliness |-> "claim_submitted_late", invoice_title |-> "invoice_title_not_allowed",
     invoice_duplicate |-> "invoice_duplicate"]

UnavailableReasons ==
    [limit |-> {"LIMIT_THRESHOLD_NOT_CONFIGURED"},
     invoice_type |-> {"INVOICE_TYPE_POLICY_NOT_CONFIGURED"},
     timeliness |-> {"SUBMISSION_BEFORE_EXPENSE_DATE", "TIMELINESS_POLICY_NOT_CONFIGURED"},
     invoice_title |-> {"INVOICE_TITLE_MISSING"},
     invoice_duplicate |-> {"INVOICE_NO_MISSING"}]

GenericReasons ==
    {"MISSING_REQUIRED_FIELD", "INFERRED_FIELD_NOT_ALLOWED", "RULE_NOT_EFFECTIVE",
     "RULE_DISABLED"}

ReasonCodes ==
    GenericReasons \union {"EXEMPTION_MATCHED"}
        \union {FlaggedReason[kind] : kind \in DOMAIN FlaggedReason}
        \union UNION {UnavailableReasons[kind] : kind \in DOMAIN UnavailableReasons}

ASSUME NoCodeAssumption == None \notin ReasonCodes

ReasonAccepted(kind, evaluation) ==
    /\ evaluation.outcome = "flagged" => evaluation.reason = FlaggedReason[kind]
    /\ evaluation.outcome = "unavailable" =>
        evaluation.reason \in GenericReasons \union UnavailableReasons[kind]
    /\ evaluation.outcome = "exempted" => evaluation.reason = "EXEMPTION_MATCHED"
    /\ (evaluation.exemption # None) = (evaluation.outcome = "exempted")

\* Flagged evidence shows every value it was judged by.
FlaggedComplete(kind, record, evaluation) ==
    evaluation.outcome = "flagged" =>
        \A field \in RequiredFields[kind] : record[field] # None

Accepted(kind, record, evaluation) ==
    /\ (evaluation.reason = None) = (evaluation.outcome = "passed")
    /\ (evaluation.fields = {}) = (evaluation.outcome = "passed")
    /\ ReasonAccepted(kind, evaluation)
    /\ FlaggedComplete(kind, record, evaluation)
=============================================================================
