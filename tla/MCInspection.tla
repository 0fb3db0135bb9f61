---- MODULE MCInspection ----
(***************************************************************************)
(* One reader beside two builds with all six exporters, derived with two   *)
(* gloves: a full build and a rebuild of two formats, of the three inputs  *)
(* of MCPipeline. Readers do not affect one another: one is enough.        *)
(***************************************************************************)
EXTENDS MCPipeline, Inspection

MCBuilds ==
    [input : {"good"},
     formats : {<<"parquet", "lerobot", "rlds", "hdf5", "mcap", "derived">>}]
    \cup [input : {"demoted", "lossy"}, formats : {<<"lerobot", "derived">>}]
====
