---- MODULE MCGoldFormats ----
(***************************************************************************)
(* Three families of tables: up to three streams with every choice of ids, *)
(* dotted ones and column suffixes included, over one frame; two streams   *)
(* with every mask over grids of up to five frames, ordered or not, and    *)
(* confidences that float32 rounds up, down or half-way; and magnetic      *)
(* streams of one or two devices over four descriptors, at rest, moving,   *)
(* or without a number at a valid frame.                                   *)
(***************************************************************************)
EXTENDS GoldFormats, TLC

MCChannel == <<"c000", "c001", "c002", "c003">>

Sensor(id, magnetic) == [id |-> id, magnetic |-> magnetic]

\* An inertial sensor among the magnetic ones; clusters of both kinds.
Quad == <<Sensor("a", TRUE), Sensor("imu", FALSE), Sensor("b", TRUE)>>

MCDescriptors ==
    "grouped" :> [sensors |-> Quad,
                  clusters |-> "thumb" :> {"b", "imu"} @@ "wrist" :> {"imu"}]
    @@ "shared" :> [sensors |-> Quad,
                    clusters |-> "thumb" :> {"a", "b"} @@ "palm" :> {"a"}]
    @@ "flat" :> [sensors |-> Quad, clusters |-> "wrist" :> {"imu"}]
    @@ "single" :> [sensors |-> <<Sensor("imu", FALSE), Sensor("a", TRUE)>>,
                    clusters |-> "thumb" :> {"a"}]

\* A number in every channel at valid frames, and none at gaps.
Numbers(valid, value(_, _)) ==
    [k \in DOMAIN valid |-> [x \in Suffix |-> IF valid[k] THEN value(k, x) ELSE NaN]]

Stream(device, id, magnetic, width, valid, conf, number) ==
    [device |-> device, id |-> id, magnetic |-> magnetic, width |-> width,
     valid |-> valid, conf |-> conf, number |-> number]

\* A stream that is no field, and whose numbers nothing is made of.
Plain(device, id, width, valid, conf) ==
    Stream(device, id, FALSE, width, valid, conf, Numbers(valid, LAMBDA k, x : 0))

Full(mask) == [k \in DOMAIN mask |-> One]

Devices == {<<"L">>, <<"R">>}
StreamIds == {<<"imu">>, <<"tactile">>, <<"L", "imu">>, <<"confidence">>}

\* Names: the second stream is wider than the others and has no valid frame.
Named(keys) ==
    [grid |-> <<0>>, devices |-> {},
     streams |-> [n \in DOMAIN keys |->
        Plain(keys[n][1], keys[n][2], IF n = 2 THEN 2 ELSE 1, <<n # 2>>, <<One>>)]]

Names ==
    {Named(keys) : keys \in {keys \in UNION {[1..m -> Devices \X StreamIds] : m \in 0..3} :
                                \A i, j \in DOMAIN keys : keys[i] = keys[j] => i = j}}

\* Around 32 and 64 the spacing of a float32 of five bits doubles.
Grids == {<<>>, <<-3>>, <<-3, 4>>, <<5, 5>>, <<5, 0>>, <<31, 32, 34>>, <<63, 64, 68>>,
          <<33, -2, 36>>, <<70, 74>>,
          <<0, 1, 2, 3>>, <<62, 63, 64, 65, 69>>}

\* None, all, and two that float32 rounds down and up.
Confidences == {0, 37, 39, One}

\* Masks: one stream with every mask and confidence, one that is always there.
Masks ==
    UNION {{[grid |-> grid, devices |-> {},
             streams |-> <<Plain(<<"L">>, <<"imu">>, 1, valid, conf),
                           Plain(<<"L">>, <<"tactile">>, 1, [k \in DOMAIN grid |-> TRUE], Full(grid))>>] :
               valid \in [DOMAIN grid -> BOOLEAN], conf \in [DOMAIN grid -> Confidences]} :
           grid \in {grid \in Grids : Len(grid) < 4}}
    \cup UNION {{[grid |-> grid, devices |-> {},
                  streams |-> <<Plain(<<"L">>, <<"imu">>, 1, valid, Full(grid))>>] :
                    valid \in [DOMAIN grid -> BOOLEAN]} : grid \in Grids}

Device(device, ref, hash) == [device |-> device, ref |-> ref, hash |-> hash]

\* What a session says of its devices, or does not.
Sessions ==
    {{Device(<<"L">>, refL, "h"), Device(<<"R">>, refR, None)} :
        refL \in DOMAIN MCDescriptors, refR \in {"single", None}}
    \cup {{}, {Device(<<"L">>, None, "h")}}

\* Frames that are there; the second one alone is its own baseline.
Presence == {<<TRUE, FALSE, TRUE>>, <<FALSE, TRUE, FALSE>>, <<FALSE, FALSE, FALSE>>,
             <<TRUE, TRUE, TRUE>>}

Motion(valid, value(_, _)) == [valid |-> valid, number |-> Numbers(valid, value)]

\* All sensors at rest, the first one moving, all moving, and the first one
\* without a number at the last frame.
Motions ==
    UNION {{Motion(valid, LAMBDA k, x : 7),
            Motion(valid, LAMBDA k, x : IF x = "c000" THEN k * k ELSE 7),
            Motion(valid, LAMBDA k, x : IF x = "c000" THEN -k ELSE k),
            Motion(valid, LAMBDA k, x : IF x = "c000" /\ k = 3 THEN NaN ELSE k)} :
           valid \in Presence}

Still == Motion(<<TRUE, TRUE, TRUE>>, LAMBDA k, x : 7)

Field(device, id, width, motion) ==
    Stream(device, id, TRUE, width, motion.valid, Full(motion.valid), motion.number)

\* One magnetic stream, one of either device, two of one device.
Fields ==
    {[grid |-> <<0, 5, 9>>, devices |-> session, streams |-> streams] :
        session \in Sessions,
        streams \in UNION {
            {<<Field(<<"L">>, <<"tactile">>, width, motion),
               Plain(<<"L">>, <<"imu">>, 1, motion.valid, Full(motion.valid))>>,
             <<Field(<<"L">>, <<"tactile">>, 2, motion),
               Field(<<"R">>, <<"tactile">>, width, Still)>>,
             <<Field(<<"L">>, <<"palm">>, 2, Still),
               Field(<<"L">>, <<"thumb">>, width, motion)>>} :
            width \in {1, 2}, motion \in Motions}}

MCTables == UNION {Names, Masks, Fields}

\* Every exporter once; rlds last before derived, which most tables do not
\* suit. A name no exporter has.
MCFormatLists ==
    {<<"parquet", "lerobot", "mcap", "hdf5", "rlds", "derived">>, <<"derived", "npz">>}
====
