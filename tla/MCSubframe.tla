---- MODULE MCSubframe ----
(***************************************************************************)
(* Frames over the grids of MCProjection: every sample in its own frame,   *)
(* two in one, an empty frame before or after, samples outside all frames. *)
(***************************************************************************)
EXTENDS MCProjection, Subframe

MCAnchors == {<<0, 5, 10>>, <<-5, 0, 10>>, <<3, 6, 20>>}
====
