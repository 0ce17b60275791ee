----------------------------- MODULE VirtualTags -----------------------------
(***************************************************************************)
(* Virtual tag rules of one organization, and the preview of the tags they *)
(* give to its accounts or, without account snapshots, to its cost records.*)
(***************************************************************************)
EXTENDS Integers, FiniteSets

CONSTANTS
    TagForm,    \* rules that are tried: [key, value, wants, priority]
    Accounts,   \* the items of account snapshots: what their fields contain
    Imports,    \* the items of imported cost records
    MaxTagRules \* bound: rules ever created

ASSUME TagBounds ==
    /\ \A f \in TagForm : f.priority \in Int
    /\ MaxTagRules \in Nat

VARIABLES
    tagRules,   \* virtual_tag_rules: [id, active, form]
    tagged,     \* provider_account_snapshots has rows
    tagRuleId   \* ids given out

tagVars == <<tagRules, tagged, tagRuleId>>

TagsInit ==
    /\ tagRules = {}
    /\ tagged \in BOOLEAN
    /\ tagRuleId = 0

\* No rule is checked against the others.
CreateTagRule(f, active) ==
    /\ tagRuleId < MaxTagRules
    /\ tagRuleId' = tagRuleId + 1
    /\ tagRules' = tagRules \cup {[id |-> tagRuleId', active |-> active, form |-> f]}
    /\ UNCHANGED tagged

UpdateTagRule(r, f, active) ==
    /\ tagRules' = (tagRules \ {r}) \cup {[id |-> r.id, active |-> active, form |-> f]}
    /\ UNCHANGED <<tagged, tagRuleId>>

DeleteTagRule(r) ==
    /\ tagRules' = tagRules \ {r}
    /\ UNCHANGED <<tagged, tagRuleId>>

\* The first scan writes account snapshots, retention may take them away.
SnapshotsChange ==
    /\ tagged' = ~tagged
    /\ UNCHANGED <<tagRules, tagRuleId>>

TagsNext ==
    \/ \E f \in TagForm, active \in BOOLEAN :
          \/ CreateTagRule(f, active)
          \/ \E r \in tagRules : UpdateTagRule(r, f, active)
    \/ \E r \in tagRules : DeleteTagRule(r)
    \/ SnapshotsChange

TagsSpec == TagsInit /\ [][TagsNext]_tagVars

-----------------------------------------------------------------------------
(* preview_virtual_tags.                                                   *)

Previewed == IF tagged /\ Accounts # {} THEN Accounts ELSE Imports

\* Every field that a rule names must be contained in the item's. Items have no
\* team and no environment: a rule that names one matches nothing.
Matches(r, item) == r.active /\ r.form.wants \subseteq item

\* Here a higher number goes first, unlike in business mapping.
Outranks(r, q) ==
    r.form.priority > q.form.priority \/ (r.form.priority = q.form.priority /\ r.id < q.id)

Candidates(key, item) == {r \in tagRules : r.form.key = key /\ Matches(r, item)}

\* Faulty variant of Applied: a later rule of the same key overwrites the tag.
AppliedLast(key, item) ==
    {r.form.value : r \in {c \in Candidates(key, item) :
                             \A q \in Candidates(key, item) \ {c} : Outranks(q, c)}}

\* The tag of a key, if any.
Applied(key, item) ==
    {r.form.value : r \in {c \in Candidates(key, item) :
                             \A q \in Candidates(key, item) \ {c} : Outranks(c, q)}}

TagKeys == {f.key : f \in TagForm}

\* match_rule_ids: the rules that were the first to match for their key.
Credited(item) ==
    UNION {{c.id : c \in {c \in Candidates(key, item) :
                            \A q \in Candidates(key, item) \ {c} : Outranks(c, q)}} : key \in TagKeys}

\* A rule that the preview does not credit with any tag of an item may be
\* deleted without changing a tag of the item.
UncreditedInert ==
    [][\A r \in tagRules, item \in Accounts \cup Imports :
         DeleteTagRule(r) /\ r.id \notin Credited(item) =>
            \A key \in TagKeys : Applied(key, item)' = Applied(key, item)]_tagVars

\* Every tag of an item in the preview has one value, that of a rule credited for
\* the item.
TagsCredited(item) ==
    \A key \in TagKeys :
        /\ Cardinality(Applied(key, item)) <= 1
        /\ \A v \in Applied(key, item) :
             \E r \in tagRules : r.id \in Credited(item) /\ r.form.key = key /\ r.form.value = v

\* The tags of a preview are explained by the rules that it credits, and by no others.
TagsExplained ==
    /\ [](\A item \in Previewed : TagsCredited(item))
    /\ UncreditedInert
=============================================================================
