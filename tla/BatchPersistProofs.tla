-------------------------- MODULE BatchPersistProofs --------------------------
(***************************************************************************)
(* SaveStoresAll and QueryFindsStored for every chunk size, every vector  *)
(* of models or ids and every table: batch_save_model leaves every model *)
(* in the table when no insert fails, in whatever order join_all ran the  *)
(* chunks, and a query running beside it misses no stored row.           *)
(***************************************************************************)
EXTENDS BatchPersist, SequenceTheorems, TLAPS

(* What join_all has done so far: a chunk no longer pending and not       *)
(* failed has its keys in the table, and the save returns only once no    *)
(* chunk is pending.  SaveStoresAll alone is not inductive: it says       *)
(* nothing while the chunks are still being polled.                      *)
SaveState ==
    /\ models \in Seq(Keys)
    /\ ~SaveMayFail => sfailed = {}
    /\ spc \in {"join", "done"} =>
         \A i \in (1..NChunks(models)) \ (spending \cup sfailed) :
            ToSet(Chunk(models, i)) \subseteq table
    /\ spc = "done" => spending = {}

(* The ids a query asks for: every id of the call and, with a value, only *)
(* those whose filter column equals it.                                    *)
Want == {k \in ToSet(ids) : value # None => k \in Matching}

(* Where the chunk loop is: the rows read so far are wanted and stored,   *)
(* every wanted key of a chunk already queried that was stored when the  *)
(* call began was read, and the loop ends past the last chunk.            *)
(* QueryFindsStored alone is not inductive: it says nothing inside the    *)
(* loop, and the table it reads grows under it.                           *)
QueryState ==
    /\ ids \in Seq(Keys) /\ qi \in Nat \ {0}
    /\ qpc = "start" => qi = 1 /\ qresult = {}
    /\ qpc # "start" => qsnap \subseteq table
    /\ qresult \subseteq Want \cap table
    /\ \A j \in 1..(qi - 1) : Want \cap qsnap \cap ToSet(Chunk(ids, j)) \subseteq qresult
    /\ qpc = "done" => qi > NChunks(ids)

IInv == SaveState /\ QueryState

(* The keys of a vector of S are in S.                                     *)
LEMMA ToSetOfSeq ==
    ASSUME NEW S, NEW t \in Seq(S)
    PROVE  ToSet(t) \subseteq S
BY DEF ToSet

(* A slice of a vector within its bounds holds keys of the vector, and     *)
(* every key at a position between its ends.                               *)
LEMMA SubSeqKeys ==
    ASSUME NEW s \in Seq(Keys), NEW m \in Int, NEW n \in Int, 1 <= m, n <= Len(s)
    PROVE  ToSet(SubSeq(s, m, n)) \subseteq ToSet(s)
<1>1. \A x \in m..n : s[x] \in ToSet(s)
  BY DEF ToSet
<1>2. SubSeq(s, m, n) \in Seq(ToSet(s))
  BY <1>1, SubSeqProperties
<1> QED
  BY <1>2, ToSetOfSeq, Zenon

LEMMA SubSeqHas ==
    ASSUME NEW s \in Seq(Keys), NEW m \in Int, NEW n \in Int, NEW p \in Int,
           1 <= m, m <= p, p <= n, n <= Len(s)
    PROVE  s[p] \in ToSet(SubSeq(s, m, n))
<1>1. \A x \in m..n : s[x] \in Keys
  OBVIOUS
<1>2. /\ SubSeq(s, m, n) \in Seq(Keys)
      /\ Len(SubSeq(s, m, n)) = n - m + 1
      /\ SubSeq(s, m, n)[p - m + 1] = s[p]
  BY <1>1, SubSeqProperties
<1>3. p - m + 1 \in DOMAIN SubSeq(s, m, n)
  BY <1>2, LenProperties
<1> QED
  BY <1>2, <1>3 DEF ToSet

(* slice::chunks never invents an element: a chunk's keys are keys of the *)
(* vector.                                                                  *)
LEMMA ChunkKeys ==
    ASSUME NEW s \in Seq(Keys), NEW i \in Nat \ {0}
    PROVE  ToSet(Chunk(s, i)) \subseteq ToSet(s)
<1> DEFINE m == (i - 1) * ChunkSize + 1
           n == IF i * ChunkSize < Len(s) THEN i * ChunkSize ELSE Len(s)
<1>1. m \in Int /\ n \in Int /\ 1 <= m /\ n <= Len(s)
  BY BatchPersistAssumption
<1>2. Chunk(s, i) = SubSeq(s, m, n)
  BY DEF Chunk
<1> HIDE DEF m, n
<1> QED
  BY <1>1, <1>2, SubSeqKeys

(* slice::chunks misses no element: the element at position p is in      *)
(* chunk (p - 1) \div ChunkSize + 1, one of the first NChunks chunks.     *)
LEMMA ChunksCover ==
    ASSUME NEW s \in Seq(Keys), NEW p \in 1..Len(s)
    PROVE  \E j \in 1..NChunks(s) : s[p] \in ToSet(Chunk(s, j))
<1> DEFINE q == (p - 1) \div ChunkSize
           c == q + 1
           m == (c - 1) * ChunkSize + 1
           n == IF c * ChunkSize < Len(s) THEN c * ChunkSize ELSE Len(s)
<1>1. q \in Nat /\ q * ChunkSize <= p - 1 /\ p - 1 < q * ChunkSize + ChunkSize
  BY BatchPersistAssumption
<1>2. c \in 1..NChunks(s)
  <2>1. (Len(s) + ChunkSize - 1) \div ChunkSize >= c
    BY <1>1, BatchPersistAssumption
  <2> QED
    BY <1>1, <2>1 DEF NChunks
<1>3. m \in Int /\ n \in Int /\ 1 <= m /\ m <= p /\ p <= n /\ n <= Len(s)
  BY <1>1, BatchPersistAssumption
<1>4. Chunk(s, c) = SubSeq(s, m, n)
  BY DEF Chunk
<1> HIDE DEF q, c, m, n
<1>5. s[p] \in ToSet(Chunk(s, c))
  BY <1>3, <1>4, SubSeqHas
<1> QED
  BY <1>2, <1>5

LEMMA InitIInv == Init => IInv
<1> SUFFICES ASSUME Init PROVE IInv
  OBVIOUS
<1>1. ids \in Seq(Keys)
  BY BatchPersistAssumption DEF Init, BoundedSeq, SeqOf
<1>2. SaveState
  BY BatchPersistAssumption DEF Init, SaveState, BoundedSeq, SeqOf
<1>3. QueryState
  BY <1>1 DEF Init, QueryState
<1> QED
  BY <1>2, <1>3 DEF IInv

LEMMA SaveStep == SaveState /\ [Next]_vars => SaveState'
<1> SUFFICES ASSUME SaveState, [Next]_vars PROVE SaveState'
  OBVIOUS
<1>1. CASE BatchSaveModel
  BY <1>1 DEF BatchSaveModel, SaveState
<1>2. CASE InsertChunk
  <2>1. PICK i \in spending, ok \in Outcomes(SaveMayFail) :
          /\ spending' = spending \ {i}
          /\ table' = IF ok THEN table \cup ToSet(Chunk(models, i)) ELSE table
          /\ sfailed' = IF ok THEN sfailed ELSE sfailed \cup {i}
    BY <1>2 DEF InsertChunk
  <2>2. spc = "join" /\ UNCHANGED <<models, spc>>
    BY <1>2 DEF InsertChunk
  <2>3. table \subseteq table'
    BY <2>1
  <2>4. ok => ToSet(Chunk(models, i)) \subseteq table'
    BY <2>1
  <2>5. \A j \in (1..NChunks(models)) \ (spending' \cup sfailed') :
          ToSet(Chunk(models, j)) \subseteq table'
    BY <2>1, <2>2, <2>3, <2>4 DEF SaveState
  <2>6. ~SaveMayFail => sfailed' = {}
    BY <2>1 DEF SaveState, Outcomes
  <2> QED
    BY <2>2, <2>5, <2>6 DEF SaveState
<1>3. CASE SaveReturn
  BY <1>3 DEF SaveReturn, SaveState
<1>4. CASE QueryStart
  BY <1>4 DEF QueryStart, SaveVars, SaveState
<1>5. CASE QueryChunk
  BY <1>5 DEF QueryChunk, SaveVars, SaveState
<1>6. CASE UNCHANGED vars
  BY <1>6 DEF vars, SaveState
<1>7. QED
  BY <1>1, <1>2, <1>3, <1>4, <1>5, <1>6 DEF Next

LEMMA QueryStep == QueryState /\ [Next]_vars => QueryState'
<1> SUFFICES ASSUME QueryState, [Next]_vars PROVE QueryState'
  OBVIOUS
<1>1. CASE BatchSaveModel \/ InsertChunk \/ SaveReturn
  <2>1. UNCHANGED QueryVars /\ table \subseteq table'
    BY <1>1 DEF BatchSaveModel, InsertChunk, SaveReturn
  <2> QED
    BY <2>1 DEF QueryVars, QueryState, Want
<1>2. CASE QueryStart
  BY <1>2 DEF QueryStart, QueryState, Want
<1>3. CASE QueryChunk
  <2>0. qpc = "loop" /\ UNCHANGED <<table, ids, value, qsnap>>
    BY <1>3 DEF QueryChunk, SaveVars
  <2>1. CASE qi > NChunks(ids)
    BY <1>3, <2>0, <2>1 DEF QueryChunk, QueryState, Want
  <2>2. CASE ~(qi > NChunks(ids)) /\ value # None /\ fcol = None
    BY <1>3, <2>0, <2>2 DEF QueryChunk, QueryState, Want
  <2>3. CASE ~(qi > NChunks(ids)) /\ ~(value # None /\ fcol = None)
    <3>1. PICK ok \in Outcomes(QueryMayFail) :
            IF ~ok THEN qpc' = "err" /\ UNCHANGED <<qi, qresult>>
            ELSE /\ qresult' = qresult \cup ChunkRows(qi)
                 /\ qi' = qi + 1 /\ UNCHANGED qpc
      BY <1>3, <2>3, Zenon DEF QueryChunk
    <3>2. CASE ~ok
      BY <2>0, <3>1, <3>2 DEF QueryState, Want
    <3>3. CASE ok
      <4>1. ChunkRows(qi) \subseteq Want \cap table
        BY ChunkKeys DEF ChunkRows, Want, QueryState
      <4>2. Want \cap qsnap \cap ToSet(Chunk(ids, qi)) \subseteq ChunkRows(qi)
        BY <2>0 DEF ChunkRows, Want, QueryState
      <4>3. \A j \in 1..(qi' - 1) : Want \cap qsnap \cap ToSet(Chunk(ids, j)) \subseteq qresult'
        <5> SUFFICES ASSUME NEW j \in 1..qi
                     PROVE  Want \cap qsnap \cap ToSet(Chunk(ids, j)) \subseteq qresult'
          BY <3>1, <3>3 DEF QueryState
        <5>1. CASE j = qi
          BY <3>1, <3>3, <4>2, <5>1
        <5>2. CASE j # qi
          BY <3>1, <3>3, <5>2 DEF QueryState
        <5> QED
          BY <5>1, <5>2
      <4> QED
        BY <2>0, <3>1, <3>3, <4>1, <4>3 DEF QueryState, Want
    <3> QED
      BY <3>2, <3>3
  <2> QED
    BY <2>1, <2>2, <2>3
<1>4. CASE UNCHANGED vars
  BY <1>4 DEF vars, QueryState, Want
<1>5. QED
  BY <1>1, <1>2, <1>3, <1>4 DEF Next

LEMMA StepIInv == IInv /\ [Next]_vars => IInv'
BY SaveStep, QueryStep DEF IInv

(* batch_save_model drops what join_all returns, yet when the database   *)
(* fails no insert every model it was given is stored when it returns:    *)
(* slice::chunks puts each model in one of the NChunks chunks, join_all   *)
(* has completed them all, and ON CONFLICT DO NOTHING lets a chunk that  *)
(* repeats a stored key, or a key of another chunk, go in as a whole,     *)
(* whatever order the chunks ran in and whatever a query did meanwhile.  *)
THEOREM ChunksStored == ~SaveMayFail => (Spec => []SaveStoresAll)
<1> SUFFICES ASSUME ~SaveMayFail PROVE Spec => []SaveStoresAll
  OBVIOUS
<1>1. IInv => SaveStoresAll
  <2> SUFFICES ASSUME IInv, spc = "done", NEW k \in ToSet(models)
               PROVE  k \in table
    BY DEF SaveStoresAll
  <2>1. models \in Seq(Keys) /\ spending = {} /\ sfailed = {}
    BY DEF IInv, SaveState
  <2>2. PICK p \in 1..Len(models) : k = models[p]
    BY <2>1 DEF ToSet
  <2>3. PICK j \in 1..NChunks(models) : k \in ToSet(Chunk(models, j))
    BY <2>1, <2>2, ChunksCover
  <2> QED
    BY <2>1, <2>3 DEF IInv, SaveState
<1>2. QED
  BY InitIInv, StepIInv, <1>1, PTL DEF Spec

(* batch_query_by_columns, with inserts running between its chunk        *)
(* queries, returns every wanted row that was stored when it was called   *)
(* and only stored rows that match: each key of ids lies in one of the    *)
(* NChunks chunks the loop visits, and a row is never deleted.            *)
THEOREM QueryFindsAll == Spec => []QueryFindsStored
<1>1. IInv => QueryFindsStored
  <2> SUFFICES ASSUME IInv, qpc = "done"
               PROVE  Want \cap qsnap \subseteq qresult /\ qresult \subseteq Want \cap table
    BY DEF QueryFindsStored, Want
  <2>1. qresult \subseteq Want \cap table
    BY DEF IInv, QueryState
  <2>2. ASSUME NEW k \in Want \cap qsnap PROVE k \in qresult
    <3>1. ids \in Seq(Keys) /\ qi \in Nat \ {0} /\ qi > NChunks(ids)
      BY DEF IInv, QueryState
    <3>2. PICK p \in 1..Len(ids) : k = ids[p]
      BY <3>1 DEF Want, ToSet
    <3>3. PICK j \in 1..NChunks(ids) : k \in ToSet(Chunk(ids, j))
      BY <3>1, <3>2, ChunksCover
    <3>4. NChunks(ids) \in Int
      BY <3>1, BatchPersistAssumption DEF NChunks
    <3>5. j \in 1..(qi - 1)
      BY <3>1, <3>4
    <3> QED
      BY <3>3, <3>5 DEF IInv, QueryState
  <2> QED
    BY <2>1, <2>2
<1>2. QED
  BY InitIInv, StepIInv, <1>1, PTL DEF Spec
=============================================================================
