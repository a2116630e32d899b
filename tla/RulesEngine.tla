--------------------------- MODULE RulesEngine ---------------------------
(***************************************************************************)
(* The deterministic rules engine (internal/rules/rules.go) and its hot    *)
(* reload (internal/api/admin_handlers.go).                                *)
(*                                                                         *)
(* A rule is [id, match, action, weight]; weights are in hundredths.  The  *)
(* strings a rule and a transaction carry are model values; Lower maps a   *)
(* string to its case-folded form and Within holds the pairs <<a, b>> of   *)
(* folded strings such that a is a substring of b.                         *)
(***************************************************************************)
EXTENDS Integers, FiniteSets, FiniteSetsExt

CONSTANTS AllRules,    \* every rule some rules file contains
          RuleFiles,   \* the contents a successfully parsed rules file may have
          Lower,       \* strings.ToLower / EqualFold folding, a function
          Within       \* substring relation on folded strings

VARIABLE rules         \* Engine.rules

RuleActions == {"block", "review", "flag"}

ASSUME RuleFilesAssumption == RuleFiles \subseteq SUBSET AllRules

contains(strs, s) == \E x \in strs : Lower[x] = Lower[s]

containsAnySubstring(subs, s) == \E x \in subs : <<Lower[x], Lower[s]>> \in Within

\* Every criterion that is present must hold.
matchesRule(tx, m) ==
    /\ m.amountMin > 0 => tx.amount >= m.amountMin
    /\ m.amountMax > 0 => tx.amount <= m.amountMax
    /\ m.countries # {} => contains(m.countries, tx.country)
    /\ m.excludeCountries # {} => ~contains(m.excludeCountries, tx.country)
    /\ m.merchants # {} => containsAnySubstring(m.merchants, tx.merchant)
    /\ m.categories # {} => contains(m.categories, tx.category)
    /\ m.deviceIDs # {} => contains(m.deviceIDs, tx.device)
    /\ m.userIDs # {} => contains(m.userIDs, tx.user)

Evaluate(tx) == {r \in rules : matchesRule(tx, r.match)}

HasBlock(matches) == \E r \in matches : r.action = "block"

HasReview(matches) == \E r \in matches : r.action = "review"

WeightSum(matches) ==
    MapThenSumSet(LAMBDA r : r.weight, {r \in matches : r.action = "flag"})

FlagWeight(matches) ==
    LET sum == WeightSum(matches) IN IF sum > 100 THEN 100 ELSE sum

\* The weights of a rules file add up to a number (checked by TLC per run).
ASSUME WeightSumAssumption == \A M \in SUBSET AllRules : WeightSum(M) \in Int

-----------------------------------------------------------------------------
(* NewEngine: a missing path, or a file that is not there, means no rules;  *)
(* main continues without an engine when the file cannot be parsed, which   *)
(* evaluates to no matches as well.                                         *)
NewEngine == rules \in RuleFiles \cup {{}}

\* Reload: the file is read and parsed first; only a complete parse replaces
\* the rules, in one assignment under the lock.  A read or parse error leaves
\* them alone.
Reload(f) == rules' = f
=============================================================================
