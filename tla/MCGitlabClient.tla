--------------------------- MODULE MCGitlabClient ---------------------------
(* A small instance of GitlabClient. *)
EXTENDS GitlabClient

Retries == {-1, 0, 2}
Rates == {0, 1}
=============================================================================
