---- MODULE MCPayloadCache ----
(***************************************************************************)
(* Two Parquet episode files and an MCAP one; a glove's tactile field and  *)
(* its acceleration. Caches of one or two entries, so that they hit, miss  *)
(* and evict.                                                              *)
(***************************************************************************)
EXTENDS PayloadCache, TLC

L1 == <<"L", "tactile">>
L2 == <<"L", "accel">>

Tactile == "bmm350_cluster_uT"
Accel == "lis2dtw12_accel_g"

MCKindOf == L1 :> Tactile @@ L2 :> Accel

MCOrders == {"order1", "order2"}

\* The same sensors in some order: the columns have the same names in each.
MCOrdered(o) == [ids |-> [k \in Kinds |-> o], names |-> Kinds \X MCOrders]

\* The sensors in one order; and the tactile ones in the other, beside an
\* acceleration in Layout-B.
MCLayouts ==
    {MCOrdered("order1"),
     [ids |-> Tactile :> "order2" @@ Accel :> NoIds,
      names |-> {Tactile} \X MCOrders \cup {<<Accel, "legacy">>}]}

MCAnyLayout == "e1" :> MCLayouts @@ "e2" :> {MCOrdered("order1")} @@ "e3" :> {MCOrdered("order2")}

\* Sensors in either order: what two versions of an episode differ in.
MCTwoLayouts == [e \in {"e1", "e2"} |-> {MCOrdered(o) : o \in MCOrders}]

NoSources == [k \in {} |-> "e1"]

Req(streams, refs, sources) == [streams |-> streams, refs |-> refs, sources |-> sources]

MCSchemeOf == "e1" :> "parquet" @@ "e2" :> "mcap" @@ "e3" :> "parquet"

MCSchemeOfTwo == "e1" :> "parquet" @@ "e2" :> "mcap"

\* Both streams of one Parquet file; of two, which evict one another; of the
\* MCAP file, one by a source that overrides the session's and one by a bare
\* key; and a stream that has no source.
MCRequests ==
    {Req(<<L1, L2>>, L1 :> "e1" @@ L2 :> "e1", NoSources),
     Req(<<L2, L1>>, L2 :> "e1" @@ L1 :> "e3", NoSources),
     Req(<<L2, L1>>, L2 :> "e3", L2 :> "e2" @@ <<"", "tactile">> :> "e2"),
     Req(<<L2>>, L1 :> "e2", NoSources)}

\* The first episode may be rewritten, the others are written once.
MCRewriteFirst == "e1" :> 2 @@ "e2" :> 1 @@ "e3" :> 1

MCRewriteFirstOfTwo == "e1" :> 2 @@ "e2" :> 1

\* One stream of one file, over and over.
MCOne == {Req(<<L1>>, L1 :> "e1", NoSources)}

\* One stream of a file, or the other.
MCEither == {Req(<<l>>, l :> "e1", NoSources) : l \in {L1, L2}}

----------------------------------------------------------------------------
(* Claims of the documentation that the code does not keep.                *)

\* README.md:106: "same inputs -> identical hash", of producers that may
\* rewrite an episode: two calls with the same request and the same source
\* hashes, of whole files, build the same table.
SameInputsSameTable ==
    \A r, s \in results :
        r.request = s.request /\ r.hashes = s.hashes /\ Settled(r.hashes) =>
            r.arrays = s.arrays

\* README.md:99: the Parquet resolver is "self-describing — reads each producer
\* file's per-modality sensor order from KV metadata". So each array of a call
\* during which no source changes has its columns in the order that the very
\* file they were read from declares.
OrderFromTheFile ==
    \A r \in results : r.before = r.hashes /\ Settled(r.hashes) =>
        \A n \in DOMAIN r.arrays :
            <<r.arrays[n].episode, r.arrays[n].version>> \in r.hashes =>
                r.arrays[n].columns = r.arrays[n].declared
====
