---- MODULE Subframe ----
(***************************************************************************)
(* materialize_subframe over a stream of the table that run() returned,    *)
(* with the grid as the high-rate times (benchmarks/                       *)
(* multi_device_benchmark.py; nothing in the package calls it): the        *)
(* samples are gathered into the intervals of a slower anchor, R to a      *)
(* frame. Which indices make a frame is SentrixSync's subframe_buckets,    *)
(* modelled from its use; which values they become is this code's.         *)
(***************************************************************************)
EXTENDS Projection

CONSTANTS
    Anchors,   \* anchor_times_us: the edges of the frames, ascending
    Rates,     \* compute_R(grid_rate_hz, anchor_fps)
    None       \* nothing was gathered

ASSUME SubframeAssumption ==
    /\ Anchors \subseteq Seq(Int)
    /\ Rates \subseteq Nat \ {0}

VARIABLE burst

\* External: frame k holds the samples from its edge to before the next one,
\* which a sorted grid has side by side.
Inside(anchors, k) ==
    {g \in Grid : anchors[k] <= request.grid[g] /\ request.grid[g] < anchors[k + 1]}

\* External: R indices, the last sample repeated; -1 in an empty frame.
Index(anchors, R, k) ==
    LET samples == Inside(anchors, k)
    IN  [j \in 1..R |-> IF samples = {} THEN -1
                        ELSE Min({Min(samples) + j - 1, Max(samples)})]

Sorted == \A k \in DOMAIN Steps : Steps[k] >= 0

\* Seeded fault: index -1 is followed into the values, where it is the last.
PaddedFrame(s, anchors, R, k) ==
    [j \in 1..R |-> LET g == Index(anchors, R, k)[j]
                    IN  s.values[IF g = -1 THEN Len(request.grid) ELSE g]]

\* tensor[k]: zeros unless the bucket is valid.
Frame(s, anchors, R, k) ==
    IF Inside(anchors, k) = {} THEN [j \in 1..R |-> 0]
    ELSE [j \in 1..R |-> s.values[Index(anchors, R, k)[j]]]

\* SubframeTensor
Tensor(i, anchors, R) ==
    LET frames == 1..(Len(anchors) - 1)
        count(k) == Cardinality(Inside(anchors, k))
    IN  [stream |-> i, anchors |-> anchors, R |-> R,
         tensor |-> [k \in frames |-> Frame(table[i], anchors, R, k)],
         m |-> [k \in frames |-> Min({count(k), R})],
         valid |-> [k \in frames |-> count(k) > 0]]

\* The docstring asks for times in order.
Gather ==
    /\ pc = "done" /\ Sorted /\ Grid # {}
    /\ burst = None
    /\ \E i \in DOMAIN table, anchors \in Anchors, R \in Rates :
           burst' = Tensor(i, anchors, R)
    /\ UNCHANGED vars

SubframeInit == Init /\ burst = None

SubframeNext == (Next /\ UNCHANGED burst) \/ Gather

SubframeSpec == SubframeInit /\ [][SubframeNext]_<<vars, burst>>

----------------------------------------------------------------------------
\* One frame: a stream, its samples that fall into the frame, what is shown.
FrameKeeps(st, own, shown, m, valid, R) ==
    LET place(g) == Cardinality({h \in own : h <= g})
    IN  /\ valid <=> own # {}
        /\ own = {} => m = 0 /\ \A j \in DOMAIN shown : shown[j] = 0
        /\ \A g \in own : place(g) <= R =>
               /\ shown[place(g)] = NaN <=> ~HasSource(st, g)
               /\ shown[place(g)] # NaN => shown[place(g)] = Sample(st, g)
        /\ \A j \in DOMAIN shown : own # {} /\ j > m => shown[j] = shown[m]

\* A frame is flagged invalid exactly when no sample falls into it, and then
\* shows nothing of a neighbour's; a valid frame starts with its own first
\* samples, in order, m of them, repeats the last of these, and holds a NaN
\* only where the timeline has a gap or no source (materialize_subframe).
BurstsKeepToTheirFrame ==
    burst # None =>
        \A k \in DOMAIN burst.tensor :
            FrameKeeps(request.streams[burst.stream], Inside(burst.anchors, k),
                       burst.tensor[k], burst.m[k], burst.valid[k], burst.R)

----------------------------------------------------------------------------
\* The invariant behind it: a burst is the tensor of some choice over a table
\* that nothing touches any more.
BurstOfTheTable ==
    burst # None =>
        /\ pc = "done" /\ Sorted /\ Grid # {}
        /\ \E i \in DOMAIN table, anchors \in Anchors, R \in Rates :
               burst = Tensor(i, anchors, R)
====
