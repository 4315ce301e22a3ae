------------------------------ MODULE MCWorker ------------------------------
(* Small instances of Worker. *)
EXTENDS Worker, TLC

None == Setting(Blank, Blank)

\* What .env.example gives, with a group.
Plain ==
    [k \in Key |-> CASE k \in {"strings", "POSTGRES_PORT", "GITLAB_GROUP_IDS"} ->
                              Setting(Number(1), Blank)
                     [] OTHER -> None]

\* Some settings from variables and others from files: one with both, of which the
\* variable counts, and the schedules from a file that cannot be read.
Mixed ==
    [Plain EXCEPT
        !["strings"] = Setting(Blank, Number(1)),
        !["GITLAB_RATE_LIMIT"] = Setting(Number(50), Words),
        !["GITLAB_RETRY_MAX"] = Setting(Blank, Number(3)),
        !["schedules"] = Setting(Blank, Error)]

OnlyProjects == [Plain EXCEPT !["GITLAB_PROJECT_IDS"] = Setting(Number(1), Blank),
                              !["GITLAB_GROUP_IDS"] = None]
NoRate == [Plain EXCEPT !["GITLAB_RATE_LIMIT"] = Setting(Number(0), Blank)]
BadRetries == [Plain EXCEPT !["GITLAB_RETRY_MAX"] = Setting(Blank, Error)]
NoPassword == [Plain EXCEPT !["strings"] = None]
BadSchedules == [Plain EXCEPT !["schedules"] = Setting(Words, Blank)]

MCEnvironmentOf ==
    [mixed |-> Mixed, projects |-> OnlyProjects, no_rate |-> NoRate,
     bad_retries |-> BadRetries, no_password |-> NoPassword, bad_schedules |-> BadSchedules]
=============================================================================
