---- MODULE Exporters ----
(***************************************************************************)
(* The files each registered exporter writes, in the order it writes them, *)
(* relative to format=<fmt>/ (exporters/*.py). What a file holds is its    *)
(* kind; two files with the same kind hold the same bytes for one table.   *)
(* A format of a request stands for the format with its options.           *)
(***************************************************************************)
EXTENDS Sequences

SilverPath == "silver/aligned/part-000.parquet"

\* The parquet exporter writes build_arrow(canonical), as write_silver does.
ParquetFiles == <<"parquet/part-000.parquet">>

\* options["layout"] names the data file; v3 is the default.
LerobotFiles(layout) ==
    <<IF layout = "v3" THEN "lerobot/data/chunk-000/file-000.parquet"
                       ELSE "lerobot/data/chunk-000/episode_000000.parquet",
      "lerobot/meta/info.json", "lerobot/meta/episodes.jsonl">>

RldsFiles == <<"rlds/steps.parquet", "rlds/episode_metadata.json">>

Hdf5Files == <<"hdf5/dataset.hdf5">>

McapFiles == <<"mcap/session-000.mcap">>

\* One magnetic stream: part-000; one file per device when there are more.
DerivedFiles(devices) ==
    IF Len(devices) = 1 THEN <<"derived/part-000.parquet">>
    ELSE [n \in DOMAIN devices |->
             "derived/derived-" \o devices[n] \o ".parquet"]
====
