----------------------------- MODULE LinkRules ------------------------------
(***************************************************************************)
(* What decides on a link that is found: the scan rules (Filters) and the   *)
(* robots.txt of its host (Robots).                                         *)
(***************************************************************************)
EXTENDS Robots, Filters

\* While a link is handled, what the scan rules say of it is what its user
\* wrote: the matcher finds what each pattern means, and the last rule to do so
\* decides (htsfilters.c).  The rules depend on no state, so one state would do.
RulesMeant == ptr <= Len(heap) => MatchIsGlob /\ LastRuleDecides
=============================================================================
