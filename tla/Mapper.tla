------------------------------- MODULE Mapper -------------------------------
(***************************************************************************)
(* The state mapper (internal/mapper): label spellings to canonical        *)
(* states.  The two caches are loaded once, at start-up, and are only read *)
(* afterwards, so they are constants here; a cache is a function whose     *)
(* domain is the set of normalized labels that have a row in the table.    *)
(***************************************************************************)
EXTENDS Integers

CONSTANTS
    Label,            \* the label names GitLab can send
    Normalize,        \* normalizeLabel: Label -> its lower-case, unaccented, trimmed spelling
    StateMapping,     \* Mapper.stateMappings: normalized label -> canonical state
    MetadataMapping   \* Mapper.metadataMappings: normalized label -> metadata key

\* The canonical states the state_mapping table accepts.
CanonicalState ==
    {"BACKLOG", "IN_PROGRESS", "QA_REVIEW", "BLOCKED", "DONE", "CANCELED", "UNKNOWN"}

\* The empty string: a NULL column, or the label of an event whose label is gone.
None == ""

\* The CHECK constraint of state_mapping, and a cache that holds states.
ASSUME MapperAssumption ==
    /\ None \notin Label
    /\ \A k \in DOMAIN StateMapping : StateMapping[k] \in CanonicalState
    /\ \A k \in DOMAIN MetadataMapping : MetadataMapping[k] # None

\* LoadFromDB makes a cache of the rows of a table, in the order of the query:
\* of several spellings of one label, distinct rows, the last one stays.
LoadFromDB(rows) ==
    LET Spelled(k) == {j \in DOMAIN rows : Normalize[rows[j].label] = k}
        LastOf(S) == CHOOSE j \in S : \A h \in S : h <= j
    IN  [k \in {Normalize[rows[j].label] : j \in DOMAIN rows} |-> rows[LastOf(Spelled(k))].value]

\* Mapper.MapLabel: a state row wins over a metadata row of the same label.
MapLabel(label) ==
    CASE Normalize[label] \in DOMAIN StateMapping ->
             [state |-> StateMapping[Normalize[label]], type |-> "state"]
      [] /\ Normalize[label] \notin DOMAIN StateMapping
         /\ Normalize[label] \in DOMAIN MetadataMapping ->
             [state |-> None, type |-> "metadata"]
      [] OTHER -> [state |-> "UNKNOWN", type |-> "unknown"]

\* Mapper.MetadataKey.
MetadataKey(label) ==
    IF label \in Label /\ Normalize[label] \in DOMAIN MetadataMapping
      THEN MetadataMapping[Normalize[label]] ELSE None
=============================================================================
