------------------------------ MODULE MCBeatmap ------------------------------
(* Two fetches, which the background workers may have started, an edit and a *)
(* query.                                                                    *)
EXTENDS BeatmapMetadata

CONSTANTS f1, f2, e1, q1
=============================================================================
