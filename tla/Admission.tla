------------------------------- MODULE Admission -------------------------------
(***************************************************************************)
(* webhooks: what the API server lets in.                                  *)
(***************************************************************************)
EXTENDS RunnerSetState

\* matchOrgOrRepoURLRegexp
MatchURL(t) == t.url = "github"

\* RunnerSetWebhook.Default: the label with the set's name is added
Default(s) == [s EXCEPT !.template.labels = @ \cup {"runnerset"}]

ValidateCreate(s) == MatchURL(s.template) /\ Selects(s.template)

\* mutant: the URL is checked on creation only
ValidateUpdateAnyURL(old, new) == TRUE

\* the selector is immutable, and is not compared with the new labels
ValidateUpdate(old, new) == MatchURL(new.template)

\* RunnerWebhook.ValidateCreate, for a Runner made from template t
ValidateCreateRunner(t) == MatchURL(t)

=============================================================================
