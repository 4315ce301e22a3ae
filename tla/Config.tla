------------------------------- MODULE Config -------------------------------
(***************************************************************************)
(* The settings of the two commands (internal/config/config.go).  A value  *)
(* is a number, other text or blank; a list of IDs counts as a number.     *)
(***************************************************************************)
EXTENDS Integers

Blank == [kind |-> "blank"]
Words == [kind |-> "words"]
Error == [kind |-> "error"]
Number(n) == [kind |-> "number", value |-> n]

\* The strings without a default (POSTGRES_HOST, _USER, _PASSWORD and _DB,
\* GITLAB_BASE_URL and GITLAB_TOKEN) are one key, and so are the schedules.
Sources == {"GITLAB_PROJECT_IDS", "GITLAB_GROUP_IDS"}
Key == Sources \cup {"strings", "POSTGRES_PORT", "GITLAB_RATE_LIMIT", "GITLAB_RETRY_MAX",
                     "HEALTH_PORT", "schedules"}

\* A setting: the variable KEY, and the content of the file that KEY_FILE names
\* (blank without one, Error when it cannot be read).
Setting(var, file) == [var |-> var, file |-> file]

\* Mutated form: the file is not looked for.
ResolveVariable(s) == s.var

\* resolveEnvValue: a variable that is not empty, or else the file.
ResolveEnvValue(s) == IF s.var # Blank THEN s.var ELSE s.file

Atoi(text) == IF text.kind = "number" THEN text ELSE Error

RequireEnvStrict(s) == IF ResolveEnvValue(s) = Blank THEN Error ELSE ResolveEnvValue(s)

RequireEnvInt(s) == Atoi(ResolveEnvValue(s))

\* envOrDefault: a file that cannot be read counts as not given.
EnvOrDefault(s, text) ==
    IF ResolveEnvValue(s) \in {Blank, Error} THEN text ELSE ResolveEnvValue(s)

EnvOrDefaultInt(s, n) ==
    IF ResolveEnvValue(s) = Blank THEN Number(n) ELSE Atoi(ResolveEnvValue(s))

\* parseIntList of an optional list.
ParseIntList(s) == IF ResolveEnvValue(s) = Blank THEN Blank ELSE Atoi(ResolveEnvValue(s))

\* The default schedules are */15 * * * *, 0 */4 * * * and 0 */6 * * *.
DefaultSchedules == Number(0)

Parsed(k, s) ==
    CASE k = "strings" -> RequireEnvStrict(s)
      [] k = "POSTGRES_PORT" -> RequireEnvInt(s)
      [] k \in Sources -> ParseIntList(s)
      [] k = "GITLAB_RATE_LIMIT" -> EnvOrDefaultInt(s, 20)
      [] k = "GITLAB_RETRY_MAX" -> EnvOrDefaultInt(s, 3)
      [] k = "HEALTH_PORT" -> EnvOrDefaultInt(s, 8080)
      [] k = "schedules" -> EnvOrDefault(s, DefaultSchedules)

Load(env) == [k \in Key |-> Parsed(k, env[k])]

\* Load returns no error: nothing is malformed, and one of the lists is given.
Loads(env) ==
    /\ \A k \in Key : Load(env)[k] # Error
    /\ \E k \in Sources : Load(env)[k] # Blank

\* The backfill asks for 15 requests per second at most.
BackfillRate(config) ==
    LET n == config["GITLAB_RATE_LIMIT"].value IN IF n > 15 THEN 15 ELSE n

\* With this rate and these retries the client gets an answer (GitlabClient.tla).
CanRequest(rate, retries) == rate >= 1 /\ retries >= 0
=============================================================================
