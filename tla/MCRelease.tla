----------------------------- MODULE MCRelease -----------------------------
(***************************************************************************)
(* Model values for Release: two sections of the manifest, and which       *)
(* scripts the schedule lets run side by side.                             *)
(***************************************************************************)
EXTENDS Release, TLC

CONSTANTS decoder, rag, j1, j2

MCJobs == {j1, j2}
JobSymmetry == Permutations(MCJobs)

MCPipelines == {decoder, rag}

\* All that is done to one model: what llm_retrain and the operator run.
ModelTasks == {"train", "promote", "merge", "awq", "prepare"} \X {decoder}

\* Scripts of both model families, two sections of one manifest.
SectionTasks == ({"train", "promote", "merge", "gguf", "prepare"} \X {decoder})
                  \cup ({"prepare", "index"} \X {rag})

\* A trainer runs for hours beside any publishing script; the publishing
\* scripts run one at a time.
TrainersOverlap == {c \in Tasks \X Tasks : "train" \in {c[1][1], c[2][1]}}

\* Publishing scripts of different pipelines, which different DAGs start,
\* overlap as well.
PipelinesOverlap == TrainersOverlap \cup {c \in Tasks \X Tasks : c[1][2] # c[2][2]}

\* The retraining DAG alone, with what bootstraps it.
RetrainTasks == {"train", "promote", "merge", "prepare"} \X {decoder}

\* llm_retrain beside rag_index_db.
TwoDags == RetrainTasks \cup ({"prepare", "index"} \X {rag})
=============================================================================
