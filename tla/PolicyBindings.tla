--------------------------- MODULE PolicyBindings ---------------------------
(***************************************************************************)
(* The bindings of rules to policy clauses, and the citations that reports *)
(* resolve from them.                                                      *)
(*                                                                         *)
(* A configurator confirms, for a rule and a day, a set of one to three    *)
(* ordered citations.  Bindings have no dates of their own: those of a     *)
(* rule whose documents are valid on a day are what the day's reports      *)
(* cite, and they are appended to and never removed.                       *)
(***************************************************************************)
EXTENDS Integers, FiniteSets

CONSTANTS
    Docs,
    FamilyOf,  \* Docs -> family
    Effective, \* Docs -> effective_date
    Expiry,    \* Docs -> expiry_date at upload, Never when NULL
    Never,     \* the day after every date
    Rules,     \* versions of rules: rule_config ids
    Quotes     \* exact quotes of clauses

ASSUME DatesAssumption ==
    /\ Never \in Nat
    /\ Effective \in [Docs -> 0..(Never - 1)]
    /\ Expiry \in [Docs -> 0..Never]

VARIABLES
    doc,      \* policy_document, published as PolicyVersions says
    bindings, \* rule_policy_binding
    confirmed \* the sets that were saved, with the rule and day of the request

vars == <<doc, bindings, confirmed>>

Versions == INSTANCE PolicyVersions

Dates == 0..(Never - 1)

Binding == [rule : Rules, document : Docs, quote : Quotes, order : 1..3]

\* The citations of a request, in their order.
Selections == UNION {[1..n -> Docs \X Quotes] : n \in 1..3}

TypeOK ==
    /\ bindings \subseteq Binding
    /\ \A s \in confirmed : s.rule \in Rules /\ s.date \in Dates /\ s.group \subseteq bindings

Init ==
    /\ Versions!Init
    /\ bindings = {}
    /\ confirmed = {}

-----------------------------------------------------------------------------

\* Mutant: a version is not valid yet on the day it takes effect.
InForceAfter(b, date) == Effective[b.document] < date /\ Versions!InForce(b.document, date)

\* The document of a binding is published and covers the day.
Applies(b, date) == Versions!InForce(b.document, date)

\* _applicable_bindings
Applicable(rule, date) == {b \in bindings : b.rule = rule /\ Applies(b, date)}

\* Mutant: citations are numbered from 0.
BoundFromZero(rule, selection) ==
    {[rule |-> rule, document |-> selection[k][1], quote |-> selection[k][2], order |-> k - 1]
     : k \in DOMAIN selection}

\* The bindings of a selection.
Bound(rule, selection) ==
    {[rule |-> rule, document |-> selection[k][1], quote |-> selection[k][2], order |-> k]
     : k \in DOMAIN selection}

\* Mutant: another set for the day is looked for in the same families only.
OtherFamilies(rule, date, group) ==
    \A b \in Applicable(rule, date), c \in group : FamilyOf[b.document] # FamilyOf[c.document]

\* No set applies on the day; a request that repeats the one that applies
\* returns it, any other is refused.
Unbound(rule, date, group) == Applicable(rule, date) = {}

\* The documents that a request cites are valid on its day.
CitesInForce(group, date) == \A b \in group : Versions!InForce(b.document, date)

\* save_rule_policy_bindings, under the tenant lock.
SaveBindings(rule, date, selection) ==
    LET group == Bound(rule, selection)
    IN  /\ CitesInForce(group, date)
        /\ Unbound(rule, date, group)
        /\ bindings' = bindings \union group
        /\ confirmed' = confirmed \union {[rule |-> rule, date |-> date, group |-> group]}
        /\ UNCHANGED doc

\* A step of publication.
PublishStep == Versions!Next /\ UNCHANGED <<bindings, confirmed>>

Next ==
    \/ \E rule \in Rules, date \in Dates, selection \in Selections :
            SaveBindings(rule, date, selection)
    \/ PublishStep

Spec == Init /\ [][Next]_vars

-----------------------------------------------------------------------------
(* Citations *)

\* One binding of each order from 1 on, three at most.
Contiguous(group) ==
    Cardinality(group) <= 3 /\ {b.order : b \in group} = 1..Cardinality(group)

\* _resolve_citations: what a report cites for a rule on a day; nothing when
\* the citations are unavailable.
Cited(rule, date) ==
    IF Contiguous(Applicable(rule, date)) THEN Applicable(rule, date) ELSE {}

-----------------------------------------------------------------------------
(* Properties *)

\* No report cites two versions of one document family on a day, whatever the
\* order of publications, failures, retries and saves.
OneVersionCited ==
    \A rule \in Rules, date \in Dates :
        \A b, c \in Cited(rule, date) :
            FamilyOf[b.document] = FamilyOf[c.document] => b.document = c.document

\* The bindings of a rule to a document were saved together, for one of the
\* document's days: the unique indexes of rule_policy_binding refuse nothing
\* that the service has let through.
DocumentBoundOnce ==
    \A s, t \in confirmed :
        (s.rule = t.rule /\ s # t) =>
            \A b \in s.group, c \in t.group : b.document # c.document

\* Of two sets that were confirmed for the same rule and day, the documents of
\* at most one are valid on that day, then or later.
OneSetPerDay ==
    \A s, t \in confirmed :
        (s.rule = t.rule /\ s.date = t.date /\ s # t) =>
            ~\E b \in s.group, c \in t.group : Applies(b, s.date) /\ Applies(c, s.date)
=============================================================================
