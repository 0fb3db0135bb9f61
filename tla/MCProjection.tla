---- MODULE MCProjection ----
(***************************************************************************)
(* Grids of up to two points, payloads of one or two rows. At a grid point *)
(* the alignment is a gap with and without stale indices, a hold, a blend, *)
(* an open end, or valid with no source. Confidence is 1, 0, out of range  *)
(* above and below, or NaN in one component. In per mille one gap of two   *)
(* points is 500 missing: HardFail 750, Release 600 and Certified 400 let  *)
(* it out as RELEASE.                                                      *)
(***************************************************************************)
EXTENDS Projection

MCHardFail == [missing |-> 750, resid |-> 5000, conf |-> 500]
MCRelease == [missing |-> 600, resid |-> 2000, conf |-> 900]
MCCertified == [missing |-> 400, resid |-> 500, conf |-> 950]

\* <<valid, source_index, next_index, weight>>
Joins == {<<FALSE, -1, -1, 0>>, <<FALSE, 0, 1, 1>>, <<TRUE, 0, 1, 1>>,
          <<TRUE, 1, 0, 2>>, <<TRUE, 0, -1, 0>>, <<TRUE, -1, 1, 1>>}

\* <<source, clock, interpolation>>
Trusts == {<<1, 1, 1>>, <<0, 1, 1>>, <<2, 1, 1>>, <<-1, -1, 1>>, <<1, NaN, 1>>,
           <<0, 1, NaN>>}

ConfOf(trust) ==
    [c \in Components |-> [k \in DOMAIN trust |->
        trust[k][CASE c = "source" -> 1 [] c = "clock" -> 2 [] OTHER -> 3]]]

Stream(kernel, join, rows, supply, conf) ==
    [kernel |-> kernel, rows |-> rows, supply |-> supply, conf |-> conf,
     valid |-> [k \in DOMAIN join |-> join[k][1]],
     src |-> [k \in DOMAIN join |-> join[k][2]],
     nxt |-> [k \in DOMAIN join |-> join[k][3]],
     weight |-> [k \in DOMAIN join |-> join[k][4]]]

Confs(n, trusts) == {NoConf} \cup {ConfOf(t) : t \in [1..n -> trusts]}

\* Streams whose payload is there, every join with every confidence.
Usable(n) ==
    {Stream(kernel, join, 2, "fits", conf) :
        kernel \in Kernels, join \in [1..n -> Joins], conf \in Confs(n, Trusts)}

\* A payload shorter than the timeline thinks.
Short(n) ==
    {Stream(kernel, join, 1, "fits", NoConf) :
        kernel \in Kernels, join \in [1..n -> Joins]}

\* Streams that cannot be supplied, or not in the declared shape.
Ailing(n) ==
    {Stream("hold", [k \in 1..n |-> <<TRUE, 0, -1, 0>>], 2, supply, NoConf) :
        supply \in Supplies}

Plain(n) ==
    {Stream("continuous", join, 2, "fits", conf) :
        join \in [1..n -> {<<FALSE, -1, -1, 0>>, <<TRUE, 0, 1, 1>>}],
        conf \in Confs(n, {<<1, 1, 1>>, <<0, 1, 1>>, <<0, 1, NaN>>})}
    \cup Ailing(n)

Request(grid, rate, streams, named, signed, ceiling) ==
    [grid |-> grid, rate |-> rate, streams |-> streams, named |-> named,
     clocked |-> TRUE, signed |-> signed, resid |-> 100, ceiling |-> ceiling]

Grids == {<<>>, <<0>>, <<0, 5>>, <<5, 5>>, <<5, 0>>}

OneStream ==
    {Request(<<0, 5>>, 1, <<st>>, TRUE, TRUE, "CERTIFIED") :
        st \in UNION {Usable(2), Short(2)}}

\* Streams beside one another.
TwoStreams ==
    {Request(<<0, 5>>, 1, streams, TRUE, TRUE, "CERTIFIED") :
        streams \in [1..2 -> Plain(2)]}

\* Every grid and rate, identity missing, lineage unsigned, sync in doubt.
Surroundings ==
    UNION {{Request(grid, rate, streams, named, signed, ceiling) :
               rate \in {0, 1}, named \in BOOLEAN, signed \in BOOLEAN,
               ceiling \in {"RELEASE", "CERTIFIED"},
               streams \in [1..1 -> Ailing(Len(grid))] \cup {<<>>}}
           : grid \in Grids}

\* Three points, for the median and the bound on the steps.
ThreePoints ==
    {Request(<<0, 5, last>>, 0, <<st>>, TRUE, TRUE, "CERTIFIED") :
        last \in {4, 10, 15, 16}, st \in Ailing(3)}

MCRequests == UNION {OneStream, TwoStreams, Surroundings, ThreePoints}

----------------------------------------------------------------------------
(* A claim of the documentation that the code does not keep.               *)

\* docs/USER_GUIDE.md:236: a payload shape that disagrees with the descriptor
\* is reported by stream_shapes_consistent "and the gate returns `BLOCKED`":
\* run() raises for other reasons only.
ShapeMismatchIsGated ==
    pc = "raised" =>
        \E i \in DOMAIN request.streams :
            \/ request.streams[i].supply \in {"no_descriptor", "no_source", "unreadable"}
            \/ ~IndicesFit(request.streams[i])
====
