----------------------------- MODULE ChunkedImport -----------------------------
(***************************************************************************)
(* What a manual synchronisation promises to the other writers of sales,   *)
(* whatever its two workers, its rows and its chunks are doing: now and    *)
(* then it shows itself as COLLECTING; an inserter writes what the API has *)
(* answered once, and nothing else, however late.                          *)
(***************************************************************************)
EXTENDS SalesWriter

CONSTANTS
  Inserter,   \* the writers of the job, one for each chunk it may make
  DatesOf     \* DatesOf[w]: the transactions in the range of the chunk of w

ASSUME InserterAssumption ==
  Inserter \subseteq Writer /\ DatesOf \in [Inserter -> SUBSET Sale]

VARIABLES
  sold,         \* transactions the API shows as validated
  collecting,   \* a job is seen as COLLECTING
  held          \* held[w]: the transactions of the chunk of w

chunkVars == <<collecting, held>>

ChunksTypeOK ==
  /\ WriterTypeOK
  /\ sold \subseteq Sale
  /\ collecting \in BOOLEAN
  /\ held \in [Inserter -> SUBSET Sale]

ChunksInit ==
  /\ WriterInit
  /\ sold \in SUBSET Sale
  /\ collecting = FALSE
  /\ held = [w \in Inserter |-> {}]

CollectingTurns ==
  /\ collecting' = ~ collecting
  /\ UNCHANGED <<writerVars, sold, held>>

\* A chunk keeps the transactions as they were when the API answered.
ChunkAnswered(w) ==
  /\ held[w] = {}
  /\ held' = [held EXCEPT ![w] = DatesOf[w] \cap sold]
  /\ UNCHANGED <<writerVars, sold, collecting>>

ChunkBegins(w) == ReadKnown(w, held[w]) /\ UNCHANGED <<sold, chunkVars>>

ChunkGoesOn(w) ==
  /\ CreateRows(w) \/ ReadBare(w) \/ InsertLines(w)
  /\ UNCHANGED <<sold, chunkVars>>

ChunkDropped(w) == DropBatch(w) /\ UNCHANGED <<sold, chunkVars>>

ProcessDies == DropAll(Inserter, Caller) /\ UNCHANGED <<sold, chunkVars>>

ChunksNext ==
  \/ CollectingTurns \/ ProcessDies
  \/ \E w \in Inserter :
       ChunkAnswered(w) \/ ChunkBegins(w) \/ ChunkGoesOn(w) \/ ChunkDropped(w)

ChunksSpec == ChunksInit /\ [][ChunksNext]_<<writerVars, sold, chunkVars>>
==============================================================================
