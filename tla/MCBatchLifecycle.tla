-------------------------- MODULE MCBatchLifecycle --------------------------
(***************************************************************************)
(* Workbooks, mappings and rules for checking BatchLifecycle, and what the *)
(* evaluator of rules promises, over bounded rules and records.            *)
(***************************************************************************)
EXTENDS BatchLifecycle, TLC

CONSTANTS w1, w2,     \* workbooks
          i1, i2,         \* invoice numbers
          paid, travelled \* the column that is mapped to the expense date

\* A record with a date and an invoice, for the rule on duplicates.
Row(date, invoice) ==
    [expense_date |-> date, invoice_no |-> invoice, inferred |-> {}]

SameHeader == [c \in Contents |-> "h1"]
OwnHeader == [c \in Contents |-> IF c = w1 THEN "h1" ELSE "h2"]

\* Workbooks that share an invoice; the other mapping fails in one row, and
\* misses the invoice number of the other.
SharedInvoice ==
    [c \in Contents |->
        (paid :> <<Row(1, i1), Row(2, i1)>>) @@ (travelled :> <<Row(2, None), Failed>>)]

\* One row with the shared invoice.
OneRow == [c \in Contents |-> [m \in MapConfigs |-> <<Row(1, i1)>>]]

\* Keys are only compared.
KeysAlike == Permutations(Keys)

\* The reason of a revision is stored, and no step depends on it afterwards.
ReasonsAside ==
    <<[f \in Files |-> [file[f] EXCEPT !.reason = None]], mappings, rules, run>>

OneDefinition ==
    {[kind |-> Duplicate, enabled |-> TRUE, require_direct |-> FALSE, exemptions |-> <<>>]}

-----------------------------------------------------------------------------
(* Rules of every kind, and records with and without each field they need.  *)

Group(id, all) == [exemption_id |-> id, all |-> all]

\* None, one and two exemptions; the two may match the same record.
Exemptions ==
    {<<>>,
     <<Group("e1", [expense_type |-> "meal"])>>,
     <<Group("e1", [expense_type |-> "meal", currency |-> "CNY"]),
       Group("e2", [invoice_type |-> "paper"])>>}

\* What rules of each kind configure: entries for meals only.
Entries ==
    {[kind |-> "limit", thresholds |-> (<<"meal", "CNY">> :> 2)],
     [kind |-> "invoice_type", allowances |-> ("meal" :> {"paper"})],
     [kind |-> "timeliness", policies |-> ("meal" :> 1)],
     [kind |-> "invoice_title", allowed_titles |-> {"ours"}],
     [kind |-> "invoice_duplicate"]}

SomeRules ==
    {entry @@ [enabled |-> enabled, require_direct |-> direct, exemptions |-> exemptions] :
        entry \in Entries, enabled \in BOOLEAN, direct \in BOOLEAN, exemptions \in Exemptions}

\* The amount and the expense date are required of every record.
SomeValues ==
    [amount : {2, 3}, expense_date : {2}, expense_type : {None, "meal", "taxi"},
     currency : {None, "CNY"}, invoice_type : {None, "paper", "online"},
     submission_date : {None, 1, 3, 4}, invoice_title : {None, "ours", "theirs"},
     invoice_no : {None, i1}]

\* The fields that an inference may give a value.
MayInfer == {"expense_type", "currency", "invoice_type"}

Inferring(values, fields) == values @@ [inferred |-> fields]

\* Everything the evaluator builds is accepted by the models of the evidence:
\* no rule and no record make a validation fail half-way.
ASSUME EvidenceIsAccepted ==
    \A rule \in SomeRules, values \in SomeValues, match \in {None, <<1, 1>>} :
        \A fields \in SUBSET {field \in MayInfer : values[field] # None} :
            LET record == Inferring(values, fields)
            IN  Accepted(rule.kind, record, EvaluateRule(rule, record, match))

\* The rule passes, flags or exempts the record.
Decides(rule, record) == EvaluateRule(rule, record, None).outcome # "unavailable"

\* A rule that requires columns never decides by an inferred value, neither
\* through its entries nor through an exemption: what it decides of a record
\* it decides of every record that differs in inferred values only, or leaves
\* it to a reviewer.
ASSUME InferredDecidesNothing ==
    \A rule \in {r \in SomeRules : r.require_direct}, values \in SomeValues :
        \A fields \in SUBSET {field \in MayInfer : values[field] # None} :
            LET record == Inferring(values, fields)
                others == {Inferring([values EXCEPT !.expense_type = type,
                                                    !.currency = currency,
                                                    !.invoice_type = invoice], fields) :
                    type \in IF "expense_type" \in fields THEN {"meal", "taxi"}
                             ELSE {values.expense_type},
                    currency \in IF "currency" \in fields THEN {"CNY", "USD"}
                                 ELSE {values.currency},
                    invoice \in IF "invoice_type" \in fields THEN {"paper", "online"}
                                ELSE {values.invoice_type}}
            IN  Decides(rule, record) =>
                \A other \in others :
                    Decides(rule, other) =>
                        EvaluateRule(rule, other, None) = EvaluateRule(rule, record, None)
=============================================================================
