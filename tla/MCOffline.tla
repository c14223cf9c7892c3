------------------------------ MODULE MCOffline ------------------------------
(***************************************************************************)
(* The jobs that run apart from a live review, checked in one run: replay  *)
(* batches, the corpus, the recall table, the query set and the cutting of *)
(* files into units.  They share no state: a behaviour belongs to one of   *)
(* them and the variables of the others rest.                              *)
(***************************************************************************)
EXTENDS MCReplay, MCCorpusIngest, MCQuerySet, RecallTable, Chunks

(* The third version of the corpus ranks otherwise than the first two, and *)
(* no longer holds every gold.                                             *)
TwoRankings == [c \in Corpora |-> IF c = 3 THEN "b" ELSE "a"]

VARIABLE offline

vars == <<replayVars, ingestVars, tableVars, pairsVars, chunkVars, offline>>

Init ==
  /\ offline \in {"replay", "ingest", "table", "pairs", "chunks"}
  /\ ReplayInit
  /\ IngestInit /\ (offline # "ingest" => sink = "hub")
  /\ TableInit /\ (offline # "table" => store = "hub" /\ corpus = CHOOSE c \in Corpora : TRUE)
  /\ PairsInit /\ (offline # "pairs" => pairsStore = "hub")
  /\ ChunksInit /\ (offline # "chunks" => suffix = "txt")

Next ==
  /\ UNCHANGED offline
  /\ \/ offline = "replay" /\ ReplayNext
        /\ UNCHANGED <<ingestVars, tableVars, pairsVars, chunkVars>>
     \/ offline = "ingest" /\ IngestNext
        /\ UNCHANGED <<replayVars, tableVars, pairsVars, chunkVars>>
     \/ offline = "table" /\ TableNext
        /\ UNCHANGED <<replayVars, ingestVars, pairsVars, chunkVars>>
     \/ offline = "pairs" /\ PairsNext
        /\ UNCHANGED <<replayVars, ingestVars, tableVars, chunkVars>>
     \/ offline = "chunks" /\ ChunksNext
        /\ UNCHANGED <<replayVars, ingestVars, tableVars, pairsVars>>

Spec == Init /\ [][Next]_vars

OfflineTypeOK == ReplayTypeOK /\ IngestTypeOK /\ TableTypeOK /\ PairsTypeOK /\ ChunksTypeOK
=============================================================================
