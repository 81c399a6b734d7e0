----------------------------- MODULE BatchPersist -----------------------------
(***************************************************************************)
(* The chunked batch helpers of src/jupiter/src/storage/mega_storage.rs,  *)
(* on one table keyed by id.  batch_save_model splits its models into     *)
(* chunks of ChunkSize and builds one insert_many ... ON CONFLICT DO       *)
(* NOTHING per chunk; join_all polls them together, so they run in any    *)
(* order, each as one statement, and their results are dropped.           *)
(* batch_query_by_columns queries the ids chunk by chunk, in order, and   *)
(* `?` returns at the first error.  The two calls run concurrently on the *)
(* same table.  A save's statement may fail when SaveMayFail holds, a    *)
(* query's when QueryMayFail does.                                        *)
(***************************************************************************)
EXTENDS Naturals, Sequences, SequencesExt

CONSTANTS
    Keys,       \* primary keys of the table
    Matching,   \* the keys whose filter column equals the query's value
    ChunkSize,  \* chunks(1000)
    MaxLen,     \* the longest models or ids vector
    SaveMayFail,   \* whether an insert_many statement may fail
    QueryMayFail,  \* whether a chunk's select may fail
    None        \* Option::None

ASSUME BatchPersistAssumption ==
    ChunkSize \in Nat \ {0} /\ MaxLen \in Nat
    /\ SaveMayFail \in BOOLEAN /\ QueryMayFail \in BOOLEAN

VARIABLES
    table,      \* the keys of the rows in the table
    models,     \* save_models
    spending,   \* chunk futures of the save not yet completed
    sfailed,    \* chunks whose statement the database failed
    spc,
    ids,        \* the ids of the query
    value,      \* value: Option<String>
    fcol,       \* filter_column: Option<C>
    qi,         \* the chunk the query loop is at
    qresult,    \* the keys of the rows in result: Vec<T::Model>
    qsnap,      \* the table when the query started
    qpc

vars == <<table, models, spending, sfailed, spc, ids, value, fcol, qi, qresult, qsnap, qpc>>

\* slice::chunks(n): the i-th chunk, the last one possibly shorter.
NChunks(s) == (Len(s) + ChunkSize - 1) \div ChunkSize
Chunk(s, i) ==
    SubSeq(s, (i - 1) * ChunkSize + 1, IF i * ChunkSize < Len(s) THEN i * ChunkSize ELSE Len(s))

Outcomes(mayFail) == IF mayFail THEN {TRUE, FALSE} ELSE {TRUE}

Init ==
    /\ table \in SUBSET Keys
    /\ models \in BoundedSeq(Keys, MaxLen) /\ ids \in BoundedSeq(Keys, MaxLen)
    /\ value \in {None, "v"} /\ fcol \in {None, "c"}
    /\ spending = {} /\ sfailed = {} /\ spc = "start"
    /\ qi = 1 /\ qresult = {} /\ qsnap = {} /\ qpc = "start"

SaveVars == <<models, spending, sfailed, spc>>
QueryVars == <<ids, value, fcol, qi, qresult, qsnap, qpc>>

(* for chunk in save_models.chunks(1000): one insert_many future each.    *)
BatchSaveModel ==
    /\ spc = "start"
    /\ spending' = 1..NChunks(models)
    /\ spc' = "join"
    /\ UNCHANGED <<table, models, sfailed, QueryVars>>

(* Mutant of InsertChunk: without ON CONFLICT DO NOTHING a chunk that     *)
(* holds a key already stored, or one key twice, violates the primary key *)
(* and fails as a whole; join_all drops the error.                        *)
InsertChunkNoConflict ==
    /\ spc = "join"
    /\ \E i \in spending, ok \in Outcomes(SaveMayFail) :
         LET c == Chunk(models, i)
             fits == ToSet(c) \cap table = {} /\ Cardinality(ToSet(c)) = Len(c)
         IN /\ spending' = spending \ {i}
            /\ table' = IF ok /\ fits THEN table \cup ToSet(c) ELSE table
            /\ sfailed' = IF ok /\ fits THEN sfailed ELSE sfailed \cup {i}
    /\ UNCHANGED <<models, spc, QueryVars>>

(* join_all polls one chunk's insert_many to completion: its rows go in  *)
(* at once, a key already stored is skipped, and a failure inserts none. *)
InsertChunk ==
    /\ spc = "join"
    /\ \E i \in spending, ok \in Outcomes(SaveMayFail) :
         /\ spending' = spending \ {i}
         /\ table' = IF ok THEN table \cup ToSet(Chunk(models, i)) ELSE table
         /\ sfailed' = IF ok THEN sfailed ELSE sfailed \cup {i}
    /\ UNCHANGED <<models, spc, QueryVars>>

(* join_all(results).await; Ok(()), whatever the chunks returned.         *)
SaveReturn ==
    /\ spc = "join" /\ spending = {}
    /\ spc' = "done"
    /\ UNCHANGED <<table, models, spending, sfailed, QueryVars>>

(* batch_query_by_columns is entered.                                      *)
QueryStart ==
    /\ qpc = "start"
    /\ qsnap' = table
    /\ qpc' = "loop"
    /\ UNCHANGED <<table, SaveVars, ids, value, fcol, qi, qresult>>

\* The rows one chunk's query returns, each once and in no set order:
\* the stored keys of the chunk and, with a value, whose filter column
\* equals it.
ChunkRows(i) ==
    {k \in ToSet(Chunk(ids, i)) : k \in table /\ (value # None => k \in Matching)}

(* Mutant of QueryChunk: the loop stops before the last chunk.            *)
QueryChunkSkipLast ==
    /\ qpc = "loop"
    /\ IF qi + 1 > NChunks(ids)
       THEN qpc' = "done" /\ UNCHANGED <<qi, qresult>>
       ELSE \E ok \in Outcomes(QueryMayFail) :
              IF ~ok THEN qpc' = "err" /\ UNCHANGED <<qi, qresult>>
              ELSE /\ qresult' = qresult \cup ChunkRows(qi)
                   /\ qi' = qi + 1 /\ UNCHANGED qpc
    /\ UNCHANGED <<table, SaveVars, ids, value, fcol, qsnap>>

(* One pass of for chunk in ids.chunks(1000): is_in(chunk), with the     *)
(* value filter when value is Some (filter_column.unwrap() panics when it *)
(* is None), then result.extend(query.all().await?).                       *)
QueryChunk ==
    /\ qpc = "loop"
    /\ IF qi > NChunks(ids)
       THEN qpc' = "done" /\ UNCHANGED <<qi, qresult>>
       ELSE IF value # None /\ fcol = None
       THEN qpc' = "panicked" /\ UNCHANGED <<qi, qresult>>
       ELSE \E ok \in Outcomes(QueryMayFail) :
              IF ~ok THEN qpc' = "err" /\ UNCHANGED <<qi, qresult>>
              ELSE /\ qresult' = qresult \cup ChunkRows(qi)
                   /\ qi' = qi + 1 /\ UNCHANGED qpc
    /\ UNCHANGED <<table, SaveVars, ids, value, fcol, qsnap>>

Next ==
    \/ BatchSaveModel \/ InsertChunk \/ SaveReturn
    \/ QueryStart \/ QueryChunk

Spec == Init /\ [][Next]_vars

-----------------------------------------------------------------------------
(* Type invariant.                                                          *)
TypeOK ==
    /\ table \subseteq Keys
    /\ spending \subseteq 1..MaxLen /\ sfailed \subseteq 1..MaxLen
    /\ spc \in {"start", "join", "done"}
    /\ qi \in 1..(MaxLen + 1) /\ qresult \subseteq Keys /\ qsnap \subseteq Keys
    /\ qpc \in {"start", "loop", "done", "err", "panicked"}

(* Spec 4.5: the same content-addressed object may be proposed twice, in *)
(* one chunk, in two chunks or after it was stored, and that is not an    *)
(* error: when batch_save_model returns from a database that failed no    *)
(* statement, every model it was given is in the table, whatever order    *)
(* join_all ran the chunks in.                                            *)
SaveStoresAll == spc = "done" => ToSet(models) \subseteq table

(* batch_query_by_columns returns, across its chunks, every matching row  *)
(* that was stored when it was called and nothing that does not match,   *)
(* while inserts run between its chunk queries.                          *)
QueryFindsStored ==
    qpc = "done" =>
        LET want == {k \in ToSet(ids) : value # None => k \in Matching}
        IN want \cap qsnap \subseteq qresult /\ qresult \subseteq want \cap table
=============================================================================
