---------------------------- MODULE DirectSites ----------------------------
(* The list of direct-site rules of the routing page: a list, an editor for the sites of
   the current rule, a button for its targets (src/src/ui/dialog_manage_routes.cpp). A rule
   is [id, sites, targets]; id is history: what tells a rule from its neighbours. The
   editor writes its text into whatever rule is current, so the order of the statements of
   each slot is what keeps a rule's sites its own. *)
EXTENDS Naturals, Sequences, SequencesExt

CONSTANTS Stored,      \* the rules in the settings when the page is built
          MaxRuleEdits

VARIABLES rules, current, editor, written, presses
siteVars == <<rules, current, editor, written, presses>>
StepS == presses < MaxRuleEdits /\ presses' = presses + 1
Has(c, rs) == c \in DOMAIN rs

(* What the text is as a list: lines that are blank or start with '#' are left out. *)
SplitLinesSkipSharp(text) == SelectSeq(text, LAMBDA line : line # "#")
commitDirectSitesEditor(rs) == IF Has(current, rs) THEN [rs EXCEPT ![current].sites = SplitLinesSkipSharp(editor)] ELSE rs
refreshDirectSitesDetail(rs, c) == editor' = IF Has(c, rs) THEN rs[c].sites ELSE <<>>

(* The list loses or changes its current row: what was typed is kept before the editor is
   filled anew. 0 is no row. *)
SelectRule(c) ==
  /\ StepS /\ c # current /\ Has(c, rules)
  /\ rules' = commitDirectSitesEditor(rules) /\ current' = c /\ refreshDirectSitesDetail(rules', c)
  /\ UNCHANGED written
Fresh == Len(written) + 1
AddSiteRule ==
  /\ StepS
  /\ LET rs == Append(commitDirectSitesEditor(rules), [id |-> Fresh, sites |-> <<>>, targets |-> {}])
     IN rules' = rs /\ current' = Len(rs) /\ refreshDirectSitesDetail(rs, Len(rs))
  /\ written' = Append(written, [sites |-> <<>>, targets |-> {}])
RemoveSiteRule ==
  /\ StepS /\ Has(current, rules)
  /\ LET rs == RemoveAt(rules, current)
         c == IF current > Len(rs) THEN Len(rs) ELSE current
     IN rules' = rs /\ current' = c /\ refreshDirectSitesDetail(rs, c)
  /\ UNCHANGED written
(* textChanged: every key press is in the rule at once. *)
TypeSites(text) ==
  /\ StepS /\ Has(current, rules) /\ editor' = text
  /\ rules' = [rules EXCEPT ![current].sites = SplitLinesSkipSharp(text)]
  /\ written' = [written EXCEPT ![rules[current].id].sites = SplitLinesSkipSharp(text)] /\ UNCHANGED current
PickTargets(ts) ==
  /\ StepS /\ Has(current, rules)
  /\ rules' = [rules EXCEPT ![current].targets = ts] /\ refreshDirectSitesDetail(rules', current)
  /\ written' = [written EXCEPT ![rules[current].id].targets = ts] /\ UNCHANGED current

(* What is stored: a rule with nothing in it is not. *)
serializedDirectSiteRules(rs) ==
  LET all == [i \in DOMAIN rs |-> [sites |-> rs[i].sites, targets |-> rs[i].targets]]
  IN SelectSeq(all, LAMBDA x : x # [sites |-> <<>>, targets |-> {}])
loadDirectSiteRules(stored) == [i \in DOMAIN stored |-> [id |-> i, sites |-> stored[i].sites, targets |-> stored[i].targets]]

SitesInit ==
  /\ written = Stored /\ rules = loadDirectSiteRules(Stored) /\ presses = 0
  /\ current = (IF rules = <<>> THEN 0 ELSE 1) /\ editor = (IF rules = <<>> THEN <<>> ELSE rules[1].sites)
SitesNext ==
  \/ \E c \in DOMAIN rules : SelectRule(c)
  \/ AddSiteRule \/ RemoveSiteRule
  \/ \E text \in {<<"b">>, <<"#", "c">>, <<>>} : TypeSites(text)
  \/ \E ts \in {{"group"}, {"profile"}} : PickTargets(ts)

(* What an accept would store is what was typed and picked for each of the rules that are
   left, in their order, and the editor shows the current one. *)
EachKeepsItsOwn ==
  /\ serializedDirectSiteRules(commitDirectSitesEditor(rules)) =
       serializedDirectSiteRules([i \in DOMAIN rules |-> written[rules[i].id]])
  /\ \A i, j \in DOMAIN rules : i < j => rules[i].id < rules[j].id
  /\ IF Has(current, rules) THEN SplitLinesSkipSharp(editor) = rules[current].sites ELSE rules = <<>> /\ editor = <<>>
=============================================================================
