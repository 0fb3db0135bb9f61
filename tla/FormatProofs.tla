---- MODULE FormatProofs ----
(***************************************************************************)
(* Theorems about GoldFormats. FilesInv says that every file that is there *)
(* was written from the table by an exporter that accepts it; each section *)
(* after it shows what one kind of file then holds: the columns and the    *)
(* replay log, the summaries, the proxies, the time stamps.                *)
(***************************************************************************)
EXTENDS GoldFormats, InductionLemmas, FiniteSetTheorems, SequenceTheorems, TLAPS

----------------------------------------------------------------------------
(* Indices.                                                                *)

\* The equation of Indices' recursive function.
UpTo(f, mask, n) ==
    f = [k \in 0..n |->
            IF k = 0 THEN <<>>
            ELSE IF mask[k] THEN Append(f[k - 1], k) ELSE f[k - 1]]

\* The equation has a solution, which Indices takes.
LEMMA IndicesUpTo ==
    ASSUME NEW n \in Nat, NEW mask \in [1..n -> BOOLEAN], Len(mask) = n
    PROVE  \E f : UpTo(f, mask, n) /\ Indices(mask) = f[n]
    <1> DEFINE T == {m \in Nat : \E f : UpTo(f, mask, m)}
    <1>1. 0 \in T
        <2>1. UpTo([k \in 0..0 |-> <<>>], mask, 0)
            BY DEF UpTo
        <2> QED BY <2>1
    <1>2. ASSUME NEW m \in Nat, m \in T PROVE m + 1 \in T
        <2>1. PICK f : UpTo(f, mask, m)
            BY <1>2
        <2> DEFINE g == [k \in 0..(m + 1) |->
                            IF k <= m THEN f[k]
                            ELSE IF mask[k] THEN Append(f[k - 1], k) ELSE f[k - 1]]
        <2>2. \A k \in 0..m : g[k] = f[k]
            OBVIOUS
        <2>3. \A k \in 0..m : f[k] = IF k = 0 THEN <<>>
                                     ELSE IF mask[k] THEN Append(f[k - 1], k) ELSE f[k - 1]
            BY <2>1, Zenon DEF UpTo
        <2>4. \A k \in 0..(m + 1) : k # 0 => k - 1 \in 0..m
            OBVIOUS
        <2>5. g[m + 1] = IF mask[m + 1] THEN Append(f[m], m + 1) ELSE f[m]
            <3>1. m + 1 \in 0..(m + 1) /\ ~(m + 1 <= m) /\ (m + 1) - 1 = m
                OBVIOUS
            <3> QED BY <3>1
        <2>6. DOMAIN g = 0..(m + 1) /\ g = [k \in DOMAIN g |-> g[k]]
            OBVIOUS
        <2> HIDE DEF g
        <2>7. \A k \in 0..(m + 1) : g[k] = IF k = 0 THEN <<>>
                                           ELSE IF mask[k] THEN Append(g[k - 1], k) ELSE g[k - 1]
            <3> SUFFICES ASSUME NEW k \in 0..(m + 1)
                         PROVE  g[k] = IF k = 0 THEN <<>>
                                       ELSE IF mask[k] THEN Append(g[k - 1], k) ELSE g[k - 1]
                OBVIOUS
            <3>1. CASE k \in 0..m
                <4>1. k # 0 => g[k - 1] = f[k - 1]
                    BY <2>2, <2>4
                <4> QED BY <3>1, <4>1, <2>2, <2>3
            <3>2. CASE k = m + 1
                <4>1. (m + 1) - 1 = m /\ m + 1 # 0 /\ m \in 0..m
                    OBVIOUS
                <4>2. g[m] = f[m]
                    BY <4>1, <2>2
                <4> QED BY <3>2, <4>1, <4>2, <2>5
            <3> QED BY <3>1, <3>2
        <2>8. UpTo(g, mask, m + 1)
            BY <2>6, <2>7, Zenon DEF UpTo
        <2> QED BY <2>8
    <1> HIDE DEF T
    <1>3. n \in T
        BY <1>1, <1>2, SetInduction
    <1> DEFINE f == CHOOSE f : UpTo(f, mask, n)
    <1>4. UpTo(f, mask, n)
        BY <1>3 DEF T
    <1>5. Indices(mask) = f[n]
        BY Zenon DEF Indices, UpTo
    <1> QED BY <1>4, <1>5

\* The number of places up to k that a mask is true at.
TrueUpTo(mask, k) == Cardinality({g \in 1..k : mask[g]})

LEMMA TrueUpToStep ==
    ASSUME NEW n \in Nat, NEW mask \in [1..n -> BOOLEAN], NEW m \in Nat, m + 1 <= n
    PROVE  /\ TrueUpTo(mask, 0) = 0
           /\ TrueUpTo(mask, m) \in Nat
           /\ TrueUpTo(mask, m + 1) = IF mask[m + 1] THEN TrueUpTo(mask, m) + 1
                                      ELSE TrueUpTo(mask, m)
    <1> DEFINE P == {g \in 1..m : mask[g]}
    <1>1. IsFiniteSet(P) /\ Cardinality(P) \in Nat
        <2>1. IsFiniteSet(1..m)
            BY FS_Interval
        <2> QED BY <2>1, FS_Subset, FS_CardinalityType
    <1>2. {g \in 1..0 : mask[g]} = {}
        OBVIOUS
    <1>3. {g \in 1..(m + 1) : mask[g]} = IF mask[m + 1] THEN P \cup {m + 1} ELSE P
        OBVIOUS
    <1>4. m + 1 \notin P
        OBVIOUS
    <1>5. Cardinality(P \cup {m + 1}) = Cardinality(P) + 1
        BY <1>1, <1>4, FS_AddElement
    <1> QED BY <1>1, <1>2, <1>3, <1>5, FS_EmptySet DEF TrueUpTo

\* Indices lists the places a mask is true at, each at its own rank.
LEMMA IndicesOfMask ==
    ASSUME NEW n \in Nat, NEW mask \in [1..n -> BOOLEAN], Len(mask) = n
    PROVE  /\ Indices(mask) \in Seq(1..n)
           /\ Len(Indices(mask)) = TrueUpTo(mask, n)
           /\ \A i \in DOMAIN Indices(mask) : /\ mask[Indices(mask)[i]]
                                              /\ TrueUpTo(mask, Indices(mask)[i]) = i
           /\ \A k \in 1..n : mask[k] =>
                 /\ TrueUpTo(mask, k) \in DOMAIN Indices(mask)
                 /\ Indices(mask)[TrueUpTo(mask, k)] = k
    <1>1. PICK f : UpTo(f, mask, n) /\ Indices(mask) = f[n]
        BY IndicesUpTo
    <1>2. /\ f[0] = <<>>
          /\ \A k \in 1..n : f[k] = IF mask[k] THEN Append(f[k - 1], k) ELSE f[k - 1]
        <2>1. 0 \in 0..n /\ \A k \in 1..n : k \in 0..n /\ k # 0
            OBVIOUS
        <2>2. \A k \in 0..n : f[k] = IF k = 0 THEN <<>>
                                     ELSE IF mask[k] THEN Append(f[k - 1], k) ELSE f[k - 1]
            BY <1>1, Zenon DEF UpTo
        <2> QED BY <2>1, <2>2
    <1> DEFINE Listed(s, m) ==
                  /\ s \in Seq(1..n)
                  /\ Len(s) = TrueUpTo(mask, m)
                  /\ \A i \in 1..Len(s) : mask[s[i]] /\ TrueUpTo(mask, s[i]) = i
                  /\ \A k \in 1..m : mask[k] => /\ TrueUpTo(mask, k) \in 1..Len(s)
                                                /\ s[TrueUpTo(mask, k)] = k
               T == {m \in Nat : m <= n => Listed(f[m], m)}
    <1>3. 0 \in T
        <2>1. TrueUpTo(mask, 0) = 0
            <3>1. {g \in 1..0 : mask[g]} = {}
                OBVIOUS
            <3> QED BY <3>1, FS_EmptySet DEF TrueUpTo
        <2>2. Listed(<<>>, 0)
            BY <2>1
        <2> QED BY <2>2, <1>2
    <1>4. ASSUME NEW m \in Nat, m \in T PROVE m + 1 \in T
        <2> SUFFICES ASSUME m + 1 <= n PROVE Listed(f[m + 1], m + 1)
            OBVIOUS
        <2> DEFINE s == f[m]
        <2>1. Listed(s, m)
            BY <1>4
        <2>2. f[m + 1] = IF mask[m + 1] THEN Append(s, m + 1) ELSE s
            <3>1. m + 1 \in 1..n /\ (m + 1) - 1 = m
                OBVIOUS
            <3> QED BY <3>1, <1>2
        <2>3. /\ TrueUpTo(mask, m) \in Nat
              /\ TrueUpTo(mask, m + 1) = IF mask[m + 1] THEN TrueUpTo(mask, m) + 1
                                         ELSE TrueUpTo(mask, m)
            BY TrueUpToStep
        <2>4. m + 1 \in 1..n
            OBVIOUS
        <2> HIDE DEF s
        <2>5. CASE mask[m + 1]
            <3> DEFINE t == Append(s, m + 1)
            <3>1. /\ t \in Seq(1..n) /\ Len(t) = Len(s) + 1 /\ t[Len(s) + 1] = m + 1
                  /\ \A i \in 1..Len(s) : t[i] = s[i]
                BY <2>1, <2>4
            <3> HIDE DEF t
            <3>2. ASSUME NEW i \in 1..Len(t) PROVE mask[t[i]] /\ TrueUpTo(mask, t[i]) = i
                <4>1. Len(s) \in Nat /\ (i \in 1..Len(s) \/ i = Len(s) + 1)
                    BY <3>1, <2>1
                <4>2. CASE i \in 1..Len(s)
                    BY <4>2, <3>1, <2>1
                <4>3. CASE i = Len(s) + 1
                    BY <4>3, <3>1, <2>1, <2>3, <2>5
                <4> QED BY <4>1, <4>2, <4>3
            <3>3. ASSUME NEW k \in 1..(m + 1), mask[k]
                  PROVE  TrueUpTo(mask, k) \in 1..Len(t) /\ t[TrueUpTo(mask, k)] = k
                <4>1. CASE k = m + 1
                    BY <4>1, <3>1, <2>1, <2>3, <2>5
                <4>2. CASE k \in 1..m
                    BY <4>2, <3>1, <3>3, <2>1, <2>3
                <4> QED BY <4>1, <4>2
            <3>4. Listed(t, m + 1)
                BY <3>1, <3>2, <3>3, <2>1, <2>3, <2>5
            <3> QED BY <3>4, <2>2, <2>5 DEF t
        <2>6. CASE ~mask[m + 1]
            <3>1. \A k \in 1..(m + 1) : mask[k] => k \in 1..m
                BY <2>6
            <3>2. Listed(s, m + 1)
                BY <3>1, <2>1, <2>3, <2>6
            <3> QED BY <3>2, <2>2, <2>6
        <2> QED BY <2>5, <2>6
    <1> HIDE DEF T, Listed
    <1>5. n \in T
        BY <1>3, <1>4, SetInduction
    <1>6. Listed(Indices(mask), n)
        BY <1>1, <1>5 DEF T
    <1>7. DOMAIN Indices(mask) = 1..Len(Indices(mask))
        BY <1>6 DEF Listed
    <1> QED BY <1>6, <1>7 DEF Listed

----------------------------------------------------------------------------
(* The table and what is made of it.                                       *)

LEMMA TableFacts ==
    ASSUME table \in Tables
    PROVE  /\ Len(table.grid) \in Nat /\ Frames = 1..Len(table.grid)
           /\ \A k \in Frames : table.grid[k] \in Int
           /\ Len(table.streams) \in Nat /\ Streams = 1..Len(table.streams)
           /\ \A n \in Streams :
                 /\ table.streams[n].device \in Ids /\ table.streams[n].id \in Ids
                 /\ table.streams[n].magnetic \in BOOLEAN
                 /\ table.streams[n].width \in DOMAIN Channel
                 /\ Valid(n) \in [Frames -> BOOLEAN]
                 /\ Conf(n) \in [Frames -> 0..One]
                 /\ \A k \in Frames, x \in Suffix : Number(n, k, x) \in Int \cup {NaN}
                 /\ \A k \in Frames, x \in Suffix : ~Valid(n)[k] => Number(n, k, x) = NaN
           /\ \A m, n \in Streams :
                 /\ table.streams[m].device = table.streams[n].device
                 /\ table.streams[m].id = table.streams[n].id
                 => m = n
    <1>1. IsTable(table)
        BY FormatAssumption
    <1> DEFINE G == table.grid
               S == table.streams
               St == [device : Ids, id : Ids, magnetic : BOOLEAN, width : DOMAIN Channel,
                      valid : [DOMAIN G -> BOOLEAN], conf : [DOMAIN G -> 0..One],
                      number : [DOMAIN G -> [Suffix -> Int \cup {NaN}]]]
    <1>2. G \in Seq(Int) /\ S \in Seq(St)
        BY <1>1 DEF IsTable
    <1>3. \A m, n \in DOMAIN S : S[m].device = S[n].device /\ S[m].id = S[n].id => m = n
        BY <1>1 DEF IsTable
    <1> HIDE DEF St
    <1>4. \A n \in DOMAIN S : S[n] \in St
        BY <1>2
    <1>5. \A n \in DOMAIN S :
             /\ S[n].device \in Ids /\ S[n].id \in Ids
             /\ S[n].magnetic \in BOOLEAN /\ S[n].width \in DOMAIN Channel
             /\ S[n].valid \in [DOMAIN G -> BOOLEAN] /\ S[n].conf \in [DOMAIN G -> 0..One]
             /\ S[n].number \in [DOMAIN G -> [Suffix -> Int \cup {NaN}]]
        BY <1>4 DEF St
    <1>6. Len(G) \in Nat /\ DOMAIN G = 1..Len(G) /\ Len(S) \in Nat /\ DOMAIN S = 1..Len(S)
        BY <1>2
    <1>7. \A k \in DOMAIN G : G[k] \in Int
        BY <1>2
    <1>8. \A n \in DOMAIN S, k \in DOMAIN G, x \in Suffix : S[n].number[k][x] \in Int \cup {NaN}
        BY <1>5
    <1>9. \A n \in DOMAIN S, k \in DOMAIN G, x \in Suffix :
             ~S[n].valid[k] => S[n].number[k][x] = NaN
        BY <1>1 DEF IsTable
    <1> QED BY <1>3, <1>5, <1>6, <1>7, <1>8, <1>9 DEF Frames, Streams, Valid, Conf, Number

\* A stream's messages are its valid frames, in order.
LEMMA MessagesOfStream ==
    ASSUME table \in Tables, NEW n \in Streams
    PROVE  /\ DOMAIN Messages(n) = 1..Len(Messages(n))
           /\ Len(Messages(n)) = Cardinality(ValidFrames(n))
           /\ \A m \in DOMAIN Messages(n) : \E k \in ValidFrames(n) : Messages(n)[m] = Message(n, k)
           /\ \A k \in ValidFrames(n) :
                 LET place == Cardinality({g \in ValidFrames(n) : g <= k})
                 IN  place \in DOMAIN Messages(n) /\ Messages(n)[place] = Message(n, k)
    <1> DEFINE N == Len(table.grid)
               mask == Valid(n)
               rows == Indices(mask)
    <1>1. N \in Nat /\ Frames = 1..N /\ mask \in [1..N -> BOOLEAN]
        BY TableFacts
    <1>2. Len(mask) = N
        <2>1. DOMAIN mask = 1..N
            BY <1>1
        <2> HIDE DEF mask, N
        <2>2. mask \in Seq(BOOLEAN)
            BY <1>1
        <2> QED BY <1>1, <2>1, <2>2
    <1>3. ValidFrames(n) = {k \in 1..N : mask[k]}
        BY <1>1 DEF ValidFrames
    <1>4. Messages(n) = [m \in DOMAIN rows |-> Message(n, rows[m])]
        BY DEF Messages
    <1> HIDE DEF mask, N
    <1>5. /\ rows \in Seq(1..N) /\ Len(rows) = TrueUpTo(mask, N)
          /\ \A i \in DOMAIN rows : mask[rows[i]]
          /\ \A k \in 1..N : mask[k] => /\ TrueUpTo(mask, k) \in DOMAIN rows
                                        /\ rows[TrueUpTo(mask, k)] = k
        BY <1>1, <1>2, IndicesOfMask
    <1> HIDE DEF rows
    <1>6. DOMAIN rows = 1..Len(rows) /\ Len(rows) \in Nat /\ \A i \in DOMAIN rows : rows[i] \in 1..N
        <2>1. rows \in Seq(1..N)
            BY <1>5
        <2>2. DOMAIN rows = 1..Len(rows) /\ Len(rows) \in Nat
            BY <2>1
        <2>3. \A i \in 1..Len(rows) : rows[i] \in 1..N
            BY <2>1, ElementOfSeq
        <2> QED BY <2>2, <2>3
    <1>7. DOMAIN Messages(n) = 1..Len(rows) /\ Len(Messages(n)) = Len(rows)
        <2>1. DOMAIN Messages(n) = 1..Len(rows)
            BY <1>4, <1>6
        <2>2. Messages(n) \in Seq({Message(n, rows[m]) : m \in DOMAIN rows})
            BY <1>4, <1>6
        <2> QED BY <2>1, <2>2, <1>6
    <1>8. TrueUpTo(mask, N) = Cardinality(ValidFrames(n))
        BY <1>3 DEF TrueUpTo
    <1>9. \A k \in ValidFrames(n) :
             TrueUpTo(mask, k) = Cardinality({g \in ValidFrames(n) : g <= k})
        <2> SUFFICES ASSUME NEW k \in ValidFrames(n)
                     PROVE  {g \in 1..k : mask[g]} = {g \in ValidFrames(n) : g <= k}
            BY DEF TrueUpTo
        <2> QED BY <1>1, <1>3
    <1>10. \A k \in ValidFrames(n) :
             /\ TrueUpTo(mask, k) \in DOMAIN Messages(n)
             /\ Messages(n)[TrueUpTo(mask, k)] = Message(n, k)
        BY <1>3, <1>4, <1>5, <1>6, <1>7
    <1>11. \A m \in DOMAIN Messages(n) : \E k \in ValidFrames(n) : Messages(n)[m] = Message(n, k)
        BY <1>3, <1>4, <1>5, <1>6, <1>7
    <1> QED BY <1>5, <1>7, <1>8, <1>9, <1>10, <1>11

LEMMA MessagesCount ==
    ASSUME table \in Tables
    PROVE  SumFunctionOnSet([n \in Streams |-> Len(Messages(n))], Streams) = Samples(Streams)
    <1>1. [n \in Streams |-> Len(Messages(n))] = [n \in Streams |-> Cardinality(ValidFrames(n))]
        BY MessagesOfStream
    <1> QED BY <1>1 DEF Samples

\* Whatever is made of the table stays what it is.
LEMMA SameTable ==
    ASSUME table' = table
    PROVE  /\ SilverFile' = SilverFile /\ LerobotFile' = LerobotFile /\ RldsFile' = RldsFile
           /\ Hdf5File' = Hdf5File /\ McapFile' = McapFile /\ DerivedFiles' = DerivedFiles
           /\ RldsRaises' = RldsRaises /\ Hdf5Raises' = Hdf5Raises
           /\ McapRaises' = McapRaises /\ DerivedRaises' = DerivedRaises
           /\ Samples(Streams)' = Samples(Streams) /\ Samples(Magnetic)' = Samples(Magnetic)
    <1> USE DEF Frames, Streams, Valid, Conf, Stored, ValidFrames, Number, Cell, Channels, Values,
                Name, Filled, Magnetic, Observed
    <1>1. SilverFile' = SilverFile
        BY DEF SilverFile, StreamColumns
    <1>2. LerobotFile' = LerobotFile
        BY DEF LerobotFile, ObservationColumns, Timestamps, Features
    <1>3. RldsFile' = RldsFile
        BY DEF RldsFile, ObservationColumns
    <1>4. Hdf5File' = Hdf5File
        BY DEF Hdf5File, Datasets, Timestamps
    <1>5. McapFile' = McapFile
        BY DEF McapFile, Messages, Message, ReplayBase
    <1>6. DerivedFiles' = DerivedFiles
        BY DEF DerivedFiles, DerivedPath, Descriptor, TopologyRef, Topology, Proxies, Pulling,
               Numbered, TwiceMedian
    <1>7. RldsRaises' = RldsRaises
        BY DEF RldsRaises
    <1>8. Hdf5Raises' = Hdf5Raises
        BY DEF Hdf5Raises, Datasets
    <1>9. McapRaises' = McapRaises
        BY DEF McapRaises, Messages, Message, ReplayBase
    <1>10. DerivedRaises' = DerivedRaises
        BY DEF DerivedRaises, Descriptor, TopologyRef, Topology
    <1>11. Samples(Streams)' = Samples(Streams) /\ Samples(Magnetic)' = Samples(Magnetic)
        BY DEF Samples
    <1> QED BY <1>1, <1>2, <1>3, <1>4, <1>5, <1>6, <1>7, <1>8, <1>9, <1>10, <1>11

----------------------------------------------------------------------------
(* The files are what their exporters make of the table.                   *)

PlainPaths == {<<"silver">>, <<"parquet">>, <<"lerobot">>, <<"rlds">>, <<"hdf5">>, <<"mcap">>}

LEMMA PathsApart ==
    ASSUME table \in Tables, NEW path \in DOMAIN DerivedFiles
    PROVE  path \notin PlainPaths
    <1>1. PICK n \in Magnetic : path = DerivedPath(n)
        BY DEF DerivedFiles
    <1>2. n \in Streams /\ table.streams[n].device \in Seq(STRING)
        BY TableFacts DEF Magnetic, Ids
    <1>3. path = <<"derived">> \/ path = <<"derived">> \o table.streams[n].device
        BY <1>1 DEF DerivedPath
    <1>4. path[1] = "derived"
        BY <1>2, <1>3
    <1> QED BY <1>4 DEF PlainPaths

\* What one more file does to the package.
LEMMA DeliverOne ==
    ASSUME NEW path, NEW contents, files' = Over(Entry(path, contents), files)
    PROVE  /\ \A q : Written(q)' <=> (q = path \/ Written(q))
           /\ files'[path] = contents
           /\ \A q : q # path /\ Written(q) => files'[q] = files[q]
    BY DEF Over, Entry, Written

\* A result more, of the format whose turn it was.
LEMMA DeliverResult ==
    ASSUME FilesInv, todo # <<>>, pc = "export", table' = table, pc' = pc, todo' = Tail(todo),
           NEW samples \in {Samples(Streams), Samples(Magnetic)},
           results' = Append(results, [format |-> Head(todo), frames |-> Len(table.grid),
                                       samples |-> samples]),
           Head(todo) # "derived" => samples = Samples(Streams)
    PROVE  /\ todo' \in Seq(STRING)
           /\ ResultsHold'
           /\ {results'[i].format : i \in DOMAIN results'}
                  = {results[i].format : i \in DOMAIN results} \cup {Head(todo)}
    <1> DEFINE R == [format : STRING, frames : Nat,
                     samples : {Samples(Streams), Samples(Magnetic)}]
               r == [format |-> Head(todo), frames |-> Len(table.grid), samples |-> samples]
               n == Len(results)
    <1>1. results' = Append(results, r)
        OBVIOUS
    <1>2. todo \in Seq(STRING) /\ results \in Seq(R) /\ table \in Tables
        BY DEF FilesInv, ResultsHold
    <1>3. Head(todo) \in STRING /\ Tail(todo) \in Seq(STRING)
        BY <1>1, <1>2
    <1>4. r \in R /\ r.format = Head(todo) /\ r.samples = samples
        BY <1>1, <1>2, <1>3, TableFacts
    <1> HIDE DEF r, R
    <1>5. /\ results' \in Seq(R) /\ n \in Nat /\ DOMAIN results = 1..n
          /\ DOMAIN results' = 1..(n + 1)
          /\ results'[n + 1] = r /\ \A i \in 1..n : results'[i] = results[i]
        BY <1>1, <1>2, <1>4
    <1>6. R' = R
        BY <1>1, SameTable DEF R
    <1>7. \A i \in 1..(n + 1) :
             results'[i].format # "derived" => results'[i].samples = Samples(Streams)
        <2> SUFFICES ASSUME NEW i \in 1..(n + 1), results'[i].format # "derived"
                     PROVE  results'[i].samples = Samples(Streams)
            OBVIOUS
        <2>1. CASE i = n + 1
            BY <2>1, <1>4, <1>5
        <2>2. CASE i \in 1..n
            BY <2>2, <1>5 DEF FilesInv, ResultsHold
        <2> QED BY <2>1, <2>2, <1>5
    <1>8. Samples(Streams)' = Samples(Streams)
        BY <1>1, SameTable
    <1>9. ResultsHold'
        BY <1>5, <1>6, <1>7, <1>8 DEF ResultsHold, R
    <1>10. {results'[i].format : i \in DOMAIN results'}
               = {results[i].format : i \in DOMAIN results} \cup {Head(todo)}
        <2>1. 1..(n + 1) = 1..n \cup {n + 1}
            BY <1>5
        <2> HIDE DEF n
        <2> QED BY <2>1, <1>4, <1>5
    <1> QED BY <1>1, <1>3, <1>9, <1>10

\* What belongs into a file, and when the file may be written.
RightFile(path, contents) ==
    /\ path \in PlainPaths
    /\ path \in {<<"silver">>, <<"parquet">>} => contents = SilverFile
    /\ path = <<"lerobot">> => contents = LerobotFile
    /\ path = <<"rlds">> => contents = RldsFile /\ ~RldsRaises
    /\ path = <<"hdf5">> => contents = Hdf5File
    /\ path = <<"mcap">> => contents = McapFile

\* An exporter of one file keeps the invariant when the file is the right one.
LEMMA DeliverFile ==
    ASSUME FilesInv, pc = "export", todo # <<>>, Head(todo) # "derived",
           NEW path, NEW contents, RightFile(path, contents),
           files' = Over(Entry(path, contents), files),
           results' = Append(results, [format |-> Head(todo), frames |-> Len(table.grid),
                                       samples |-> Samples(Streams)]),
           todo' = Tail(todo), table' = table, pc' = pc
    PROVE  FilesInv'
    <1>1. /\ todo' \in Seq(STRING) /\ ResultsHold'
          /\ {results'[i].format : i \in DOMAIN results'}
                  = {results[i].format : i \in DOMAIN results} \cup {Head(todo)}
        BY DeliverResult
    <1>2. files' = Over(Entry(path, contents), files)
        OBVIOUS
    <1>3. /\ \A q : Written(q)' <=> (q = path \/ Written(q))
          /\ files'[path] = contents
          /\ \A q : q # path /\ Written(q) => files'[q] = files[q]
        BY <1>2, DeliverOne
    <1>4. table \in Tables /\ FilesHold /\ RefusalsHold /\ Written(<<"silver">>)
        BY <1>1 DEF FilesInv
    <1> DEFINE formats == {results[i].format : i \in DOMAIN results}
    <1>5. "derived" \in formats' <=> "derived" \in formats
        BY <1>1
    <1>6. \A q \in DOMAIN DerivedFiles : q # path
        BY <1>4, PathsApart DEF RightFile
    <1> HIDE DEF formats
    <1>7. FilesHold'
        <2>1. Holds(<<"silver">>, SilverFile)' /\ Holds(<<"parquet">>, SilverFile)'
            BY <1>1, <1>3, <1>4, SameTable DEF Holds, FilesHold, RightFile
        <2>2. Holds(<<"lerobot">>, LerobotFile)'
            BY <1>1, <1>3, <1>4, SameTable DEF Holds, FilesHold, RightFile
        <2>3. Holds(<<"rlds">>, RldsFile)'
            BY <1>1, <1>3, <1>4, SameTable DEF Holds, FilesHold, RightFile
        <2>4. Holds(<<"hdf5">>, Hdf5File)'
            BY <1>1, <1>3, <1>4, SameTable DEF Holds, FilesHold, RightFile
        <2>5. Holds(<<"mcap">>, McapFile)'
            BY <1>1, <1>3, <1>4, SameTable DEF Holds, FilesHold, RightFile
        <2>6. "derived" \in formats' =>
                 \A q \in DOMAIN DerivedFiles' : Written(q)' /\ files'[q] = DerivedFiles'[q]
            BY <1>1, <1>3, <1>4, <1>5, <1>6, SameTable DEF FilesHold, formats
        <2> QED BY <2>1, <2>2, <2>3, <2>4, <2>5, <2>6 DEF FilesHold, formats
    <1>8. RefusalsHold'
        <2>1. Written(<<"rlds">>)' => ~RldsRaises'
            BY <1>1, <1>3, <1>4, SameTable DEF RefusalsHold, RightFile
        <2>2. "derived" \in formats' => ~DerivedRaises'
            BY <1>1, <1>4, <1>5, SameTable DEF RefusalsHold, formats
        <2> QED BY <2>1, <2>2, <1>1 DEF RefusalsHold, formats
    <1> QED BY <1>1, <1>3, <1>4, <1>7, <1>8 DEF FilesInv

LEMMA DeliverDerived ==
    ASSUME FilesInv, Turn("derived"), ~DerivedRaises, Deliver(DerivedFiles, Samples(Magnetic))
    PROVE  FilesInv'
    <1> DEFINE formats == {results[i].format : i \in DOMAIN results}
    <1>1. table' = table /\ pc' = pc /\ pc = "export" /\ Head(todo) = "derived"
        BY DEF Deliver, Turn
    <1>2. todo' \in Seq(STRING) /\ ResultsHold' /\ formats' = formats \cup {"derived"}
        <2>1. /\ results' = Append(results, [format |-> Head(todo), frames |-> Len(table.grid),
                                             samples |-> Samples(Magnetic)])
              /\ todo # <<>> /\ todo' = Tail(todo)
            BY DEF Deliver, Turn
        <2> QED BY <1>1, <2>1, DeliverResult
    <1>3. /\ \A q : Written(q)' <=> (q \in DOMAIN DerivedFiles \/ Written(q))
          /\ \A q \in DOMAIN DerivedFiles : files'[q] = DerivedFiles[q]
          /\ \A q : q \notin DOMAIN DerivedFiles /\ Written(q) => files'[q] = files[q]
        BY DEF Deliver, Over, Written
    <1>4. table \in Tables /\ FilesHold /\ RefusalsHold /\ Written(<<"silver">>)
        BY <1>1 DEF FilesInv
    <1>5. PlainPaths \cap DOMAIN DerivedFiles = {}
        BY <1>4, PathsApart
    <1>6. \A q \in PlainPaths : /\ Written(q)' <=> Written(q)
                                /\ Written(q) => files'[q] = files[q]
        BY <1>3, <1>5
    <1>7. \A q \in {<<"silver">>, <<"parquet">>, <<"lerobot">>, <<"rlds">>, <<"hdf5">>, <<"mcap">>} :
              q \in PlainPaths
        BY DEF PlainPaths
    <1> HIDE DEF formats
    <1>8. FilesHold'
        <2>1. Holds(<<"silver">>, SilverFile)' /\ Holds(<<"parquet">>, SilverFile)'
            BY <1>1, <1>4, <1>6, <1>7, SameTable DEF Holds, FilesHold
        <2>2. Holds(<<"lerobot">>, LerobotFile)' /\ Holds(<<"rlds">>, RldsFile)'
            BY <1>1, <1>4, <1>6, <1>7, SameTable DEF Holds, FilesHold
        <2>3. Holds(<<"hdf5">>, Hdf5File)' /\ Holds(<<"mcap">>, McapFile)'
            BY <1>1, <1>4, <1>6, <1>7, SameTable DEF Holds, FilesHold
        <2>4. \A q \in DOMAIN DerivedFiles' : Written(q)' /\ files'[q] = DerivedFiles'[q]
            BY <1>1, <1>3, SameTable
        <2> QED BY <2>1, <2>2, <2>3, <2>4 DEF FilesHold
    <1>9. RefusalsHold'
        <2>1. Written(<<"rlds">>)' => ~RldsRaises'
            BY <1>1, <1>4, <1>6, <1>7, SameTable DEF RefusalsHold
        <2> QED BY <2>1, <1>1, SameTable DEF RefusalsHold
    <1> QED BY <1>1, <1>2, <1>4, <1>6, <1>7, <1>8, <1>9 DEF FilesInv

\* A refusal changes no file.
LEMMA RefuseKeeps ==
    ASSUME FilesInv, pc = "export", Refuse,
           Head(todo) = "hdf5" => Hdf5Raises, Head(todo) = "mcap" => McapRaises
    PROVE  FilesInv'
    <1>1. table' = table /\ todo' = todo /\ files' = files /\ results' = results /\ pc' = "raised"
        BY DEF Refuse
    <1>2. ResultsHold'
        BY <1>1, SameTable DEF FilesInv, ResultsHold
    <1>3. FilesHold'
        BY <1>1, SameTable DEF FilesInv, FilesHold, Holds, Written
    <1>4. RefusalsHold'
        BY <1>1, SameTable DEF FilesInv, RefusalsHold, Written
    <1> QED BY <1>1, <1>2, <1>3, <1>4 DEF FilesInv, Written

LEMMA InitFiles == Init => FilesInv
    <1> SUFFICES ASSUME Init PROVE FilesInv
        OBVIOUS
    <1>1. \A q : ~Written(q)
        BY DEF Init, Written
    <1>2. {results[i].format : i \in DOMAIN results} = {}
        BY DEF Init
    <1>3. table \in Tables /\ todo \in Seq(STRING) /\ pc = "silver"
        BY FormatAssumption DEF Init
    <1>4. ResultsHold /\ results = <<>>
        BY DEF Init, ResultsHold
    <1> QED BY <1>1, <1>2, <1>3, <1>4 DEF FilesInv, FilesHold, Holds, RefusalsHold

LEMMA NextFiles == FilesInv /\ [Next]_vars => FilesInv'
    <1> SUFFICES ASSUME FilesInv, [Next]_vars PROVE FilesInv'
        OBVIOUS
    <1>1. CASE WriteSilver
        <2>1. /\ table' = table /\ todo' = todo /\ results' = results /\ pc' = "export"
              /\ files' = Entry(<<"silver">>, SilverFile)
            BY <1>1 DEF WriteSilver
        <2>2. /\ \A q : Written(q)' <=> q = <<"silver">>
              /\ files'[<<"silver">>] = SilverFile
            BY <2>1 DEF Entry, Written
        <2>3. ResultsHold'
            BY <2>1, SameTable DEF FilesInv, ResultsHold
        <2>4. pc = "silver" /\ results = <<>>
            BY <1>1 DEF WriteSilver, FilesInv
        <2>5. {results[i].format : i \in DOMAIN results} = {}
            BY <2>4
        <2>6. FilesHold'
            BY <2>1, <2>2, <2>5, SameTable DEF FilesHold, Holds
        <2>7. RefusalsHold'
            BY <2>1, <2>2, <2>5 DEF RefusalsHold
        <2> QED BY <2>1, <2>2, <2>3, <2>6, <2>7 DEF FilesInv
    <1>2. CASE ExportParquet
        <2>1. PICK c : c = SilverFile
            OBVIOUS
        <2>2. RightFile(<<"parquet">>, c)
            BY <2>1 DEF RightFile, PlainPaths
        <2>3. /\ pc = "export" /\ todo # <<>> /\ Head(todo) # "derived"
              /\ files' = Over(Entry(<<"parquet">>, c), files)
              /\ results' = Append(results, [format |-> Head(todo), frames |-> Len(table.grid),
                                              samples |-> Samples(Streams)])
              /\ todo' = Tail(todo) /\ table' = table /\ pc' = pc
            BY <1>2, <2>1 DEF ExportParquet, Deliver, Turn
        <2> QED BY <2>2, <2>3, DeliverFile
    <1>3. CASE ExportLerobot
        <2>1. PICK c : c = LerobotFile
            OBVIOUS
        <2>2. RightFile(<<"lerobot">>, c)
            BY <2>1 DEF RightFile, PlainPaths
        <2>3. /\ pc = "export" /\ todo # <<>> /\ Head(todo) # "derived"
              /\ files' = Over(Entry(<<"lerobot">>, c), files)
              /\ results' = Append(results, [format |-> Head(todo), frames |-> Len(table.grid),
                                              samples |-> Samples(Streams)])
              /\ todo' = Tail(todo) /\ table' = table /\ pc' = pc
            BY <1>3, <2>1 DEF ExportLerobot, Deliver, Turn
        <2> QED BY <2>2, <2>3, DeliverFile
    <1>4. CASE ExportRlds
        <2>1. CASE RldsRaises
            BY <1>4, <2>1, RefuseKeeps DEF ExportRlds, Turn
        <2>2. CASE ~RldsRaises
            <3>1. PICK c : c = RldsFile
                OBVIOUS
            <3>2. RightFile(<<"rlds">>, c)
                BY <3>1, <2>2 DEF RightFile, PlainPaths
            <3>3. /\ pc = "export" /\ todo # <<>> /\ Head(todo) # "derived"
                  /\ files' = Over(Entry(<<"rlds">>, c), files)
                  /\ results' = Append(results, [format |-> Head(todo), frames |-> Len(table.grid),
                                                  samples |-> Samples(Streams)])
                  /\ todo' = Tail(todo) /\ table' = table /\ pc' = pc
                BY <1>4, <2>2, <3>1 DEF ExportRlds, Deliver, Turn
            <3> QED BY <3>2, <3>3, DeliverFile
        <2> QED BY <2>1, <2>2
    <1>5. CASE ExportHdf5
        <2>1. CASE Hdf5Raises
            BY <1>5, <2>1, RefuseKeeps DEF ExportHdf5, Turn
        <2>2. CASE ~Hdf5Raises
            <3>1. PICK c : c = Hdf5File
                OBVIOUS
            <3>2. RightFile(<<"hdf5">>, c)
                BY <3>1 DEF RightFile, PlainPaths
            <3>3. /\ pc = "export" /\ todo # <<>> /\ Head(todo) # "derived"
                  /\ files' = Over(Entry(<<"hdf5">>, c), files)
                  /\ results' = Append(results, [format |-> Head(todo), frames |-> Len(table.grid),
                                                  samples |-> Samples(Streams)])
                  /\ todo' = Tail(todo) /\ table' = table /\ pc' = pc
                BY <1>5, <2>2, <3>1 DEF ExportHdf5, Deliver, Turn
            <3> QED BY <3>2, <3>3, DeliverFile
        <2> QED BY <2>1, <2>2
    <1>6. CASE ExportMcap
        <2>1. CASE McapRaises
            BY <1>6, <2>1, RefuseKeeps DEF ExportMcap, Turn
        <2>2. CASE ~McapRaises
            <3>1. PICK c : c = McapFile
                OBVIOUS
            <3>2. RightFile(<<"mcap">>, c)
                BY <3>1 DEF RightFile, PlainPaths
            <3>3. /\ pc = "export" /\ todo # <<>> /\ Head(todo) # "derived"
                  /\ files' = Over(Entry(<<"mcap">>, c), files)
                  /\ results' = Append(results, [format |-> Head(todo), frames |-> Len(table.grid),
                                                  samples |-> Samples(Streams)])
                  /\ todo' = Tail(todo) /\ table' = table /\ pc' = pc
                BY <1>6, <2>2, <3>1, MessagesCount DEF ExportMcap, Deliver, Turn, FilesInv
            <3> QED BY <3>2, <3>3, DeliverFile
        <2> QED BY <2>1, <2>2
    <1>7. CASE ExportDerived
        <2>1. CASE DerivedRaises
            BY <1>7, <2>1, RefuseKeeps DEF ExportDerived, Turn
        <2>2. CASE ~DerivedRaises
            BY <1>7, <2>2, DeliverDerived DEF ExportDerived
        <2> QED BY <2>1, <2>2
    <1>8. CASE ExportUnknown
        BY <1>8, RefuseKeeps DEF ExportUnknown, Registered
    <1>9. CASE UNCHANGED vars
        <2>1. /\ table' = table /\ todo' = todo /\ files' = files /\ results' = results
              /\ pc' = pc
            BY <1>9 DEF vars
        <2>2. ResultsHold'
            BY <2>1, SameTable DEF FilesInv, ResultsHold
        <2>3. FilesHold'
            BY <2>1, SameTable DEF FilesInv, FilesHold, Holds, Written
        <2>4. RefusalsHold'
            BY <2>1, SameTable DEF FilesInv, RefusalsHold, Written
        <2> QED BY <2>1, <2>2, <2>3, <2>4 DEF FilesInv, Written
    <1> QED BY <1>1, <1>2, <1>3, <1>4, <1>5, <1>6, <1>7, <1>8, <1>9 DEF Next

\* In every state, whatever the tables and the formats: each file that is
\* there is what its exporter makes of the table, by an exporter that accepts
\* it, and all full formats report the same number of samples.
THEOREM FilesInvariant == Spec => []FilesInv
    BY InitFiles, NextFiles, PTL DEF Spec

----------------------------------------------------------------------------
(* Names.                                                                  *)

LEMMA OnePartMore ==
    ASSUME NEW S, NEW s \in Seq(S), NEW x \in S
    PROVE  /\ s \o <<x>> \in Seq(S)
           /\ Len(s \o <<x>>) = Len(s) + 1
           /\ (s \o <<x>>)[Len(s) + 1] = x
           /\ \A i \in 1..Len(s) : (s \o <<x>>)[i] = s[i]
    <1>1. <<x>> \in Seq(S) /\ Len(<<x>>) = 1 /\ <<x>>[1] = x /\ Len(s) \in Nat
        OBVIOUS
    <1>2. s \o <<x>> \in Seq(S) /\ Len(s \o <<x>>) = Len(s) + 1
        BY <1>1, ConcatProperties
    <1>3. (s \o <<x>>)[Len(s) + 1] = x
        OBVIOUS
    <1>4. \A i \in 1..Len(s) : (s \o <<x>>)[i] = s[i]
        OBVIOUS
    <1> QED BY <1>2, <1>3, <1>4

LEMMA LastPart ==
    ASSUME NEW S, NEW s \in Seq(S), NEW t \in Seq(S), NEW x \in S, NEW y \in S
    PROVE  /\ s \o <<x>> \in Seq(S)
           /\ Len(s \o <<x>>) = Len(s) + 1
           /\ (s \o <<x>>)[Len(s \o <<x>>)] = x
           /\ s \o <<x>> = t \o <<y>> => s = t /\ x = y
    <1> DEFINE u == s \o <<x>>
               v == t \o <<y>>
    <1>1. /\ u \in Seq(S) /\ Len(u) = Len(s) + 1 /\ u[Len(s) + 1] = x
          /\ \A i \in 1..Len(s) : u[i] = s[i]
        BY OnePartMore
    <1>2. /\ v \in Seq(S) /\ Len(v) = Len(t) + 1 /\ v[Len(t) + 1] = y
          /\ \A i \in 1..Len(t) : v[i] = t[i]
        BY OnePartMore
    <1>3. Len(s) \in Nat /\ Len(t) \in Nat
        OBVIOUS
    <1> HIDE DEF u, v
    <1>4. ASSUME u = v PROVE s = t /\ x = y
        <2>1. Len(s) = Len(t) /\ x = y
            BY <1>1, <1>2, <1>3, <1>4
        <2>2. \A i \in 1..Len(s) : s[i] = t[i]
            BY <1>1, <1>2, <1>4, <2>1
        <2> QED BY <2>1, <2>2, SeqEqual
    <1>5. u[Len(u)] = x
        BY <1>1
    <1> QED BY <1>1, <1>4, <1>5 DEF u, v

LEMMA DropLast ==
    ASSUME NEW S, NEW s \in Seq(S), NEW t \in Seq(S), NEW x \in S, s \o <<x>> = t \o <<x>>
    PROVE  s = t
    BY LastPart, Z3

LEMMA WiderSeq ==
    ASSUME NEW S, NEW T, S \subseteq T, NEW s \in Seq(S)
    PROVE  s \in Seq(T)
    <1>1. Len(s) \in Nat /\ s \in [1..Len(s) -> T]
        <2>1. Len(s) \in Nat /\ DOMAIN s = 1..Len(s) /\ s = [i \in 1..Len(s) |-> s[i]]
            OBVIOUS
        <2>2. \A i \in 1..Len(s) : s[i] \in S
            BY ElementOfSeq
        <2> QED BY <2>1, <2>2
    <1> QED BY <1>1

LEMMA FirstPart ==
    ASSUME NEW S, NEW s \in Seq(S), NEW t \in Seq(S), NEW x \in S
    PROVE  <<x>> \o s \in Seq(S) /\ (<<x>> \o s = <<x>> \o t => s = t)
    <1>1. <<x>> \in Seq(S) /\ Len(<<x>>) = 1 /\ Len(s) \in Nat /\ Len(t) \in Nat
        OBVIOUS
    <1> DEFINE u == <<x>> \o s
               v == <<x>> \o t
    <1>2. /\ u \in Seq(S) /\ Len(u) = 1 + Len(s)
          /\ \A i \in 1..(1 + Len(s)) : u[i] = IF i <= 1 THEN <<x>>[i] ELSE s[i - 1]
        BY <1>1, ConcatProperties
    <1>3. /\ Len(v) = 1 + Len(t)
          /\ \A i \in 1..(1 + Len(t)) : v[i] = IF i <= 1 THEN <<x>>[i] ELSE t[i - 1]
        BY <1>1, ConcatProperties
    <1> HIDE DEF u, v
    <1>4. ASSUME u = v PROVE s = t
        <2>1. Len(s) = Len(t)
            BY <1>1, <1>2, <1>3, <1>4
        <2>2. ASSUME NEW i \in 1..Len(s) PROVE s[i] = t[i]
            <3>1. i + 1 \in 1..(1 + Len(s)) /\ ~(i + 1 <= 1) /\ (i + 1) - 1 = i
                BY <1>1
            <3>2. u[i + 1] = s[i] /\ v[i + 1] = t[i]
                BY <3>1, <1>2, <1>3, <2>1
            <3> QED BY <3>2, <1>4
        <2> QED BY <2>1, <2>2, SeqEqual
    <1> QED BY <1>2, <1>4 DEF u, v

\* The parts of names.
Words == STRING \cup {"valid", "confidence", "observation"}

LEMMA NameType ==
    ASSUME table \in Tables, NEW n \in Streams
    PROVE  Name(n) \in Seq(Words) /\ Name(n) # <<>>
    <1>1. /\ table.streams[n].device \in Seq(STRING) /\ table.streams[n].device # <<>>
          /\ table.streams[n].id \in Seq(STRING) /\ table.streams[n].id # <<>>
        BY TableFacts DEF Ids
    <1>2. Name(n) = table.streams[n].id \/ Name(n) = table.streams[n].device \o table.streams[n].id
        BY DEF Name
    <1> DEFINE d == table.streams[n].device
               i == table.streams[n].id
    <1> HIDE DEF d, i
    <1>3. d \in Seq(STRING) /\ d # <<>> /\ i \in Seq(STRING) => d \o i \in Seq(STRING) /\ d \o i # <<>>
        OBVIOUS
    <1>4. Name(n) \in Seq(STRING) /\ Name(n) # <<>>
        BY <1>1, <1>2, <1>3 DEF d, i
    <1>5. STRING \subseteq Words
        BY DEF Words
    <1> QED BY <1>4, <1>5, WiderSeq

LEMMA ChannelNames ==
    ASSUME table \in Tables, NEW n \in Streams
    PROVE  Channels(n) \subseteq STRING \ {"valid", "confidence"}
    <1>1. table.streams[n].width \in DOMAIN Channel
        BY TableFacts
    <1>2. Channel \in Seq(STRING \ {"valid", "confidence"})
        BY FormatAssumption
    <1>3. \A j \in 1..table.streams[n].width : Channel[j] \in STRING \ {"valid", "confidence"}
        <2>1. DOMAIN Channel = 1..Len(Channel) /\ Len(Channel) \in Nat
            BY <1>2
        <2>2. \A j \in 1..Len(Channel) : Channel[j] \in STRING \ {"valid", "confidence"}
            BY <1>2, ElementOfSeq
        <2> QED BY <1>1, <2>1, <2>2
    <1> QED BY <1>3 DEF Channels

\* Plain ids give every stream a name of its own, which no other stream's
\* mask or confidence column has.
LEMMA PlainNames ==
    ASSUME table \in Tables, PlainIds
    PROVE  /\ UniqueNames
           /\ \A m, n \in Streams, x \in {"valid", "confidence"} : Name(m) # Name(n) \o <<x>>
    <1> DEFINE d(n) == table.streams[n].device
               i(n) == table.streams[n].id
               shared(n) == \E m \in Streams \ {n} : i(m) = i(n)
    <1>1. \A n \in Streams : Name(n) = IF shared(n) THEN d(n) \o i(n) ELSE i(n)
        BY DEF Name
    <1>2. \A n \in Streams : /\ d(n) \in Seq(STRING) /\ i(n) \in Seq(STRING)
                             /\ Len(d(n)) = 1 /\ Len(i(n)) = 1
                             /\ i(n) \notin {<<"valid">>, <<"confidence">>}
        BY TableFacts DEF Ids, PlainIds
    <1>3. \A m, n \in Streams : d(m) = d(n) /\ i(m) = i(n) => m = n
        BY TableFacts
    <1>4. \A m, n \in Streams : m # n /\ i(m) = i(n) => shared(m) /\ shared(n)
        OBVIOUS
    <1> HIDE DEF d, i, shared
    <1>5. \A n \in Streams : /\ Len(d(n) \o i(n)) = 2
                             /\ (d(n) \o i(n))[1] = d(n)[1] /\ (d(n) \o i(n))[2] = i(n)[1]
                             /\ d(n) = <<d(n)[1]>> /\ i(n) = <<i(n)[1]>>
        BY <1>2
    <1>6. ASSUME NEW m \in Streams, NEW n \in Streams, Name(m) = Name(n) PROVE m = n
        <2>1. CASE shared(m) /\ shared(n)
            BY <2>1, <1>1, <1>3, <1>5, <1>6
        <2>2. CASE ~shared(m) /\ ~shared(n)
            BY <2>2, <1>1, <1>4, <1>6
        <2>3. CASE shared(m) /\ ~shared(n)
            <3>1. Len(Name(m)) = 2 /\ Len(Name(n)) = 1
                BY <2>3, <1>1, <1>2, <1>5
            <3> QED BY <3>1, <1>6
        <2>4. CASE ~shared(m) /\ shared(n)
            <3>1. Len(Name(m)) = 1 /\ Len(Name(n)) = 2
                BY <2>4, <1>1, <1>2, <1>5
            <3> QED BY <3>1, <1>6
        <2> QED BY <2>1, <2>2, <2>3, <2>4
    <1>7. ASSUME NEW m \in Streams, NEW n \in Streams, NEW x \in {"valid", "confidence"},
                 Name(m) = Name(n) \o <<x>>
          PROVE  FALSE
        <2>1. Name(n) \in Seq(Words) /\ Name(n) # <<>> /\ Len(Name(n)) >= 1
            BY NameType
        <2>2. Len(Name(m)) = Len(Name(n)) + 1 /\ Name(m)[Len(Name(m))] = x
            BY <1>7, <2>1, LastPart DEF Words
        <2>3. Len(Name(m)) \in {1, 2}
            BY <1>1, <1>2, <1>5
        <2>4. Len(Name(m)) = 2 /\ shared(m)
            BY <2>1, <2>2, <2>3, <1>1, <1>2
        <2>5. i(m)[1] = x
            BY <2>2, <2>4, <1>1, <1>5
        <2>6. i(m) = <<x>>
            BY <2>5, <1>5
        <2> QED BY <2>6, <1>2
    <1> QED BY <1>6, <1>7 DEF UniqueNames

\* A name that one stream has keeps this stream's entry.
LEMMA FilledAt ==
    ASSUME NEW entries, NEW n \in Streams, NEW c \in DOMAIN entries[n],
           Streams \subseteq Int, \A m \in Streams : c \in DOMAIN entries[m] => m = n
    PROVE  c \in DOMAIN Filled(entries) /\ Filled(entries)[c] = entries[n][c]
    <1>1. {m \in Streams : c \in DOMAIN entries[m]} = {n}
        OBVIOUS
    <1>2. Max({n}) = n
        BY DEF Max
    <1>3. c \in UNION {DOMAIN entries[m] : m \in Streams}
        OBVIOUS
    <1> QED BY <1>1, <1>2, <1>3 DEF Filled

----------------------------------------------------------------------------
(* What is found under a stream's name.                                    *)

Suffixes(n) == Channels(n) \cup {"valid", "confidence"}

LEMMA SuffixType ==
    ASSUME table \in Tables, NEW n \in Streams
    PROVE  Suffixes(n) \subseteq Words
    BY ChannelNames DEF Suffixes, Words

LEMMA SilverColumns ==
    ASSUME table \in Tables, UniqueNames, NEW n \in Streams
    PROVE  /\ SilverFile.times = table.grid
           /\ SilverFile.columns[Name(n) \o <<"valid">>] = Valid(n)
           /\ SilverFile.columns[Name(n) \o <<"confidence">>] = Stored(n)
           /\ \A x \in Channels(n) :
                 SilverFile.columns[Name(n) \o <<x>>] = [k \in Frames |-> Cell(n, k, x)]
           /\ DOMAIN SilverFile.streams = {Name(m) : m \in Streams}
           /\ SilverFile.streams[Name(n)] = n
    <1>1. Streams \subseteq Int /\ \A m \in Streams : Name(m) \in Seq(Words)
        BY TableFacts, NameType
    <1> DEFINE entries == [m \in Streams |-> StreamColumns(m)]
    <1>2. \A m \in Streams : DOMAIN entries[m] = {Name(m) \o <<x>> : x \in Suffixes(m)}
        BY DEF StreamColumns, Suffixes
    <1>3. ASSUME NEW x \in Suffixes(n)
          PROVE  Filled(entries)[Name(n) \o <<x>>] = entries[n][Name(n) \o <<x>>]
        <2> DEFINE c == Name(n) \o <<x>>
        <2>1. ASSUME NEW m \in Streams, c \in DOMAIN entries[m] PROVE m = n
            <3>1. PICK y \in Suffixes(m) : c = Name(m) \o <<y>>
                BY <1>2, <2>1
            <3>2. x \in Words /\ y \in Words
                BY SuffixType
            <3>3. Name(m) = Name(n)
                BY <1>1, <3>1, <3>2, LastPart
            <3> QED BY <3>3 DEF UniqueNames
        <2>2. c \in DOMAIN entries[n]
            BY <1>2
        <2> HIDE DEF c, entries
        <2>3. Filled(entries)[c] = entries[n][c]
            BY <1>1, <2>1, <2>2, FilledAt
        <2> QED BY <2>3 DEF c
    <1>4. ASSUME NEW x \in Suffixes(n)
          PROVE  StreamColumns(n)[Name(n) \o <<x>>] =
                    IF x = "valid" THEN Valid(n)
                    ELSE IF x = "confidence" THEN Stored(n)
                    ELSE [k \in Frames |-> Cell(n, k, x)]
        <2> DEFINE c == Name(n) \o <<x>>
        <2>1. c[Len(c)] = x
            BY <1>1, SuffixType, LastPart
        <2>2. c \in {Name(n) \o <<y>> : y \in Suffixes(n)}
            OBVIOUS
        <2>3. \A e \in {Name(n) \o <<y>> : y \in Suffixes(n)} :
                 StreamColumns(n)[e] = IF e[Len(e)] = "valid" THEN Valid(n)
                                       ELSE IF e[Len(e)] = "confidence" THEN Stored(n)
                                       ELSE [k \in Frames |-> Cell(n, k, e[Len(e)])]
            BY Zenon DEF StreamColumns, Suffixes
        <2> HIDE DEF c
        <2>4. StreamColumns(n)[c] = IF x = "valid" THEN Valid(n)
                                    ELSE IF x = "confidence" THEN Stored(n)
                                    ELSE [k \in Frames |-> Cell(n, k, x)]
            BY <2>1, <2>2, <2>3
        <2> QED BY <2>4 DEF c
    <1>5. SilverFile.columns = Filled(entries) /\ SilverFile.times = table.grid
        BY DEF SilverFile
    <1>6. entries[n] = StreamColumns(n)
        OBVIOUS
    <1> HIDE DEF entries
    <1>7. SilverFile.columns[Name(n) \o <<"valid">>] = Valid(n)
        BY <1>3, <1>4, <1>5, <1>6 DEF Suffixes
    <1>8. SilverFile.columns[Name(n) \o <<"confidence">>] = Stored(n)
        BY <1>3, <1>4, <1>5, <1>6 DEF Suffixes
    <1>9. \A x \in Channels(n) :
             SilverFile.columns[Name(n) \o <<x>>] = [k \in Frames |-> Cell(n, k, x)]
        BY <1>3, <1>4, <1>5, <1>6, ChannelNames DEF Suffixes
    <1> DEFINE names == [m \in Streams |-> Entry(Name(m), m)]
    <1>10. \A m \in Streams : DOMAIN names[m] = {Name(m)} /\ names[m][Name(m)] = m
        BY DEF Entry
    <1>11. SilverFile.streams = Filled(names)
        BY DEF SilverFile
    <1> HIDE DEF names
    <1>12. Name(n) \in DOMAIN names[n] /\ \A m \in Streams : Name(n) \in DOMAIN names[m] => m = n
        BY <1>10 DEF UniqueNames
    <1>13. Filled(names)[Name(n)] = names[n][Name(n)]
        BY <1>1, <1>12, FilledAt
    <1>14. DOMAIN Filled(names) = {Name(m) : m \in Streams}
        <2>1. DOMAIN Filled(names) = UNION {DOMAIN names[m] : m \in Streams}
            BY DEF Filled
        <2> QED BY <1>10, <2>1
    <1> QED BY <1>5, <1>7, <1>8, <1>9, <1>10, <1>11, <1>13, <1>14

\* A list-valued column and its confidence, in the LeRobot and RLDS files.
LEMMA ObservedColumns ==
    ASSUME table \in Tables, PlainIds, NEW n \in Streams,
           NEW entries,
           \A m \in Streams : DOMAIN entries[m] = {Observed(m), Observed(m) \o <<"confidence">>}
    PROVE  /\ Filled(entries)[Observed(n)] = entries[n][Observed(n)]
           /\ Filled(entries)[Observed(n) \o <<"confidence">>]
                 = entries[n][Observed(n) \o <<"confidence">>]
    <1>1. Streams \subseteq Int /\ \A m \in Streams : Name(m) \in Seq(Words)
        BY TableFacts, NameType
    <1>2. /\ \A m \in Streams : Name(m) = Name(n) => m = n
          /\ \A m, k \in Streams : Name(m) # Name(k) \o <<"confidence">>
        BY PlainNames DEF UniqueNames
    <1>3. \A m, k \in Streams :
             /\ Observed(m) = Observed(k) => Name(m) = Name(k)
             /\ Observed(m) \o <<"confidence">> = Observed(k) \o <<"confidence">> => Name(m) = Name(k)
             /\ Observed(m) # Observed(k) \o <<"confidence">>
        <2> SUFFICES ASSUME NEW m \in Streams, NEW k \in Streams
                     PROVE  /\ Observed(m) = Observed(k) => Name(m) = Name(k)
                            /\ Observed(m) \o <<"confidence">> = Observed(k) \o <<"confidence">>
                               => Name(m) = Name(k)
                            /\ Observed(m) # Observed(k) \o <<"confidence">>
            OBVIOUS
        <2>1. PICK x \in Words : x = "observation"
            BY DEF Words
        <2>2. PICK y \in Words : y = "confidence"
            BY DEF Words
        <2>3. PICK a1 \in Seq(Words) : a1 = Name(m)
            BY <1>1
        <2>4. PICK a2 \in Seq(Words) : a2 = Name(k)
            BY <1>1
        <2> DEFINE u == <<x>> \o a1
                   v == <<x>> \o a2
                   w == a2 \o <<y>>
        <2>5. u \in Seq(Words) /\ v \in Seq(Words) /\ w \in Seq(Words)
            BY FirstPart, LastPart
        <2>6. (u = v => a1 = a2) /\ (u = <<x>> \o w => a1 = w)
            BY <2>5, FirstPart
        <2>7. v \o <<y>> = <<x>> \o w
            <3>1. <<x>> \in Seq(Words) /\ <<y>> \in Seq(Words)
                OBVIOUS
            <3> QED BY <3>1, ConcatAssociative
        <2>8. Observed(m) = u /\ Observed(k) = v /\ Name(k) \o <<"confidence">> = w
            BY <2>1, <2>2, <2>3, <2>4 DEF Observed
        <2> HIDE DEF u, v, w
        <2>9. u \o <<y>> = v \o <<y>> => u = v
            BY <2>5, DropLast
        <2>10. a1 # w
            BY <2>3, <2>4, <2>8, <1>2
        <2> QED BY <2>2, <2>3, <2>4, <2>6, <2>7, <2>8, <2>9, <2>10
    <1>4. \A m \in Streams : Observed(n) \in DOMAIN entries[m] => m = n
        BY <1>2, <1>3
    <1>5. ASSUME NEW m \in Streams, Observed(n) \o <<"confidence">> \in DOMAIN entries[m]
          PROVE  m = n
        <2>1. Observed(m) # Observed(n) \o <<"confidence">>
            BY <1>3
        <2>2. Observed(m) \o <<"confidence">> = Observed(n) \o <<"confidence">>
            BY <1>5, <2>1
        <2>3. Name(m) = Name(n)
            BY <2>2, <1>3
        <2> QED BY <2>3, <1>2
    <1>6. Observed(n) \in DOMAIN entries[n] /\ Observed(n) \o <<"confidence">> \in DOMAIN entries[n]
        OBVIOUS
    <1>7. Filled(entries)[Observed(n)] = entries[n][Observed(n)]
        BY <1>1, <1>4, <1>6, FilledAt
    <1>8. Filled(entries)[Observed(n) \o <<"confidence">>]
              = entries[n][Observed(n) \o <<"confidence">>]
        BY <1>1, <1>5, <1>6, FilledAt
    <1> QED BY <1>7, <1>8

----------------------------------------------------------------------------
(* HDF5's batches.                                                         *)

LEMMA NextMultiple ==
    ASSUME NEW b \in Nat \ {0}, NEW s \in Nat, s % b = 0
    PROVE  (s + b) % b = 0
    <1> DEFINE q == s \div b
    <1>1. q \in Nat
        OBVIOUS
    <1>2. s % b = s - b * q
        OBVIOUS
    <1> HIDE DEF q
    <1>3. b * q \in Int /\ b * (q + 1) = b * q + b
        BY <1>1
    <1>4. s + b = b * (q + 1)
        BY <1>2, <1>3
    <1>5. (b * (q + 1)) % b = 0
        <2>1. \A p \in Nat : (b * p) % b = 0
            OBVIOUS
        <2>2. q + 1 \in Nat
            BY <1>1
        <2> QED BY <2>1, <2>2
    <1> QED BY <1>4, <1>5

LEMMA BatchStart ==
    ASSUME NEW b \in Nat \ {0}, NEW n \in Nat
    PROVE  \E s \in 0..n : s % b = 0 /\ n < s + b
    <1> DEFINE T == {k \in Nat : \E s \in 0..k : s % b = 0 /\ k < s + b}
    <1>1. 0 \in T
        <2>1. 0 % b = 0 /\ 0 < 0 + b /\ 0 \in 0..0
            OBVIOUS
        <2> QED BY <2>1
    <1>2. ASSUME NEW k \in Nat, k \in T PROVE k + 1 \in T
        <2>1. PICK s \in 0..k : s % b = 0 /\ k < s + b
            BY <1>2
        <2>2. CASE k + 1 < s + b
            <3>1. s \in 0..(k + 1)
                BY <2>1
            <3> QED BY <3>1, <2>1, <2>2
        <2>3. CASE ~(k + 1 < s + b)
            <3>1. k + 1 = s + b
                BY <2>1, <2>3
            <3>2. (s + b) % b = 0
                <4>1. s \in Nat
                    OBVIOUS
                <4> QED BY <2>1, <4>1, NextMultiple
            <3>3. k + 1 \in 0..(k + 1) /\ (k + 1) % b = 0 /\ k + 1 < (k + 1) + b
                BY <3>1, <3>2
            <3> QED BY <3>3
        <2> QED BY <2>2, <2>3
    <1> HIDE DEF T
    <1>3. n \in T
        BY <1>1, <1>2, SetInduction
    <1> QED BY <1>3 DEF T

\* Batch after batch, a dataset grows to its array.
LEMMA ResizableIsArray ==
    ASSUME NEW n \in Nat, NEW array, Len(array) = n, array = [k \in 1..n |-> array[k]]
    PROVE  Resizable(array) = array
    <1> DEFINE end(s) == Min({s + Batch, n})
               S == {0} \cup {end(s) : s \in Starts(n)}
               covered(k) == \E s \in Starts(n) : s < k /\ k <= end(s)
    <1>1. Batch \in Nat \ {0}
        BY FormatAssumption
    <1>2. Starts(n) \subseteq 0..(n - 1)
        BY DEF Starts
    <1>3. \A s \in Starts(n) : /\ end(s) \in Nat /\ end(s) <= n
                               /\ end(s) = IF s + Batch <= n THEN s + Batch ELSE n
        <2> SUFFICES ASSUME NEW s \in Starts(n)
                     PROVE  end(s) = IF s + Batch <= n THEN s + Batch ELSE n
            BY <1>1, <1>2
        <2>1. s \in Nat /\ s + Batch \in Int
            BY <1>1, <1>2
        <2> DEFINE pair == {s + Batch, n}
        <2>2. pair \subseteq Int /\ s + Batch \in pair /\ n \in pair
            BY <2>1
        <2>3. CASE s + Batch <= n
            <3>1. \A y \in pair : s + Batch <= y
                BY <2>1, <2>3
            <3> HIDE DEF pair
            <3>2. Min(pair) = s + Batch
                BY <2>2, <3>1, LeastIsMin
            <3> QED BY <3>2, <2>3 DEF pair
        <2>4. CASE ~(s + Batch <= n)
            <3>1. \A y \in pair : n <= y
                BY <2>1, <2>4
            <3> HIDE DEF pair
            <3>2. Min(pair) = n
                BY <2>2, <3>1, LeastIsMin
            <3> QED BY <3>2, <2>4 DEF pair
        <2> QED BY <2>3, <2>4
    <1> HIDE DEF end
    <1>4. ASSUME NEW k \in 1..n PROVE covered(k)
        <2>1. k - 1 \in Nat
            OBVIOUS
        <2>2. PICK s \in 0..(k - 1) : s % Batch = 0 /\ k - 1 < s + Batch
            BY <1>1, <2>1, BatchStart
        <2>3. s \in Starts(n) /\ s < k /\ k <= s + Batch
            BY <1>1, <2>2 DEF Starts
        <2>4. k <= end(s)
            BY <1>3, <2>3
        <2> QED BY <2>3, <2>4
    <1>5. Max(S) = n
        <2>1. S \subseteq Int /\ \A m \in S : m <= n
            BY <1>3
        <2>2. n \in S
            <3>1. CASE n = 0
                BY <3>1
            <3>2. CASE n # 0
                <4>0. n \in 1..n
                    BY <3>2
                <4>1. PICK s \in Starts(n) : n <= end(s)
                    BY <1>4, <4>0
                <4>2. end(s) = n
                    BY <1>3, <4>1
                <4> QED BY <4>2
            <3> QED BY <3>1, <3>2
        <2> HIDE DEF S
        <2> QED BY <2>1, <2>2, GreatestIsMax
    <1>6. Resizable(array) = [k \in 1..Max(S) |-> IF covered(k) THEN array[k] ELSE 0]
        BY DEF Resizable, end
    <1> HIDE DEF S, covered
    <1>7. Resizable(array) = [k \in 1..n |-> array[k]]
        BY <1>4, <1>5, <1>6
    <1> QED BY <1>7

\* The three datasets of a stream are its own.
LEMMA PlainParts ==
    ASSUME table \in Tables, PlainIds, NEW m \in Streams, NEW n \in Streams,
           NEW x \in {"valid", "confidence"}, NEW y \in {"valid", "confidence"}
    PROVE  /\ Name(m) = Name(n) => m = n
           /\ Name(m) # Name(n) \o <<x>>
           /\ Name(m) \o <<x>> = Name(n) \o <<y>> => m = n /\ x = y
    <1>1. Name(m) \in Seq(Words) /\ Name(n) \in Seq(Words) /\ x \in Words /\ y \in Words
        BY NameType DEF Words
    <1>2. Name(m) \o <<x>> = Name(n) \o <<y>> => Name(m) = Name(n) /\ x = y
        <2>1. CASE x = y
            BY <1>1, <2>1, DropLast
        <2>2. CASE x # y
            BY <1>1, <2>2, LastPart
        <2> QED BY <2>1, <2>2
    <1>3. (Name(m) = Name(n) => m = n) /\ Name(m) # Name(n) \o <<x>>
        BY PlainNames DEF UniqueNames
    <1> QED BY <1>2, <1>3

LEMMA DatasetNames ==
    ASSUME table \in Tables, NEW n \in Streams, PlainIds
    PROVE  /\ DOMAIN Datasets(n)
                  = {Name(n), Name(n) \o <<"confidence">>, Name(n) \o <<"valid">>}
           /\ Datasets(n)[Name(n)] = Values(n)
           /\ Datasets(n)[Name(n) \o <<"confidence">>] = Stored(n)
           /\ Datasets(n)[Name(n) \o <<"valid">>] = Valid(n)
    <1>1. /\ Name(n) # Name(n) \o <<"confidence">> /\ Name(n) # Name(n) \o <<"valid">>
          /\ Name(n) \o <<"confidence">> # Name(n) \o <<"valid">>
        <2>1. "confidence" # "valid"
            OBVIOUS
        <2> QED BY <2>1, PlainParts
    <1> DEFINE N == Len(table.grid)
    <1>2. /\ N \in Nat /\ Frames = 1..N /\ Valid(n) \in [1..N -> BOOLEAN]
          /\ Stored(n) \in [1..N -> {Stored(n)[k] : k \in 1..N}]
        BY TableFacts DEF Stored
    <1> HIDE DEF N
    <1>3. ASSUME NEW array, NEW T, array \in [1..N -> T] PROVE Resizable(array) = array
        <2>1. array \in Seq(T)
            BY <1>2, <1>3
        <2>2. Len(array) = N
            BY <1>2, <1>3, <2>1
        <2>3. array = [k \in 1..N |-> array[k]]
            BY <1>3
        <2> QED BY <1>2, <2>2, <2>3, ResizableIsArray
    <1>4. Values(n) \in [1..N -> {[x \in Channels(n) |-> Cell(n, k, x)] : k \in Frames}]
        BY <1>2 DEF Values
    <1>5. Resizable(Values(n)) = Values(n)
        BY <1>3, <1>4
    <1>6. Resizable(Stored(n)) = Stored(n) /\ Resizable(Valid(n)) = Valid(n)
        BY <1>2, <1>3
    <1> QED BY <1>1, <1>5, <1>6 DEF Datasets, Entry, Over

LEMMA Hdf5Accepts ==
    ASSUME table \in Tables, PlainIds
    PROVE  ~Hdf5Raises
    <1> SUFFICES ASSUME NEW m \in Streams, NEW n \in Streams, m # n,
                        NEW c \in DOMAIN Datasets(m), c \in DOMAIN Datasets(n)
                 PROVE  FALSE
        BY DEF Hdf5Raises
    <1>1. c = Name(m) \/ \E x \in {"valid", "confidence"} : c = Name(m) \o <<x>>
        BY DatasetNames
    <1>2. c = Name(n) \/ \E x \in {"valid", "confidence"} : c = Name(n) \o <<x>>
        BY DatasetNames
    <1>3. CASE c = Name(m) /\ c = Name(n)
        BY <1>3, PlainParts
    <1>4. CASE c = Name(m) /\ \E x \in {"valid", "confidence"} : c = Name(n) \o <<x>>
        BY <1>4, PlainParts
    <1>5. CASE c = Name(n) /\ \E x \in {"valid", "confidence"} : c = Name(m) \o <<x>>
        BY <1>5, PlainParts
    <1>6. ASSUME NEW x \in {"valid", "confidence"}, c = Name(m) \o <<x>>,
                 NEW y \in {"valid", "confidence"}, c = Name(n) \o <<y>>
          PROVE  FALSE
        BY <1>6, PlainParts
    <1> QED BY <1>1, <1>2, <1>3, <1>4, <1>5, <1>6

LEMMA Hdf5Times ==
    ASSUME table \in Tables
    PROVE  Len(Hdf5File.timestamp) = Len(table.grid) /\ Hdf5File.timestamp = Timestamps
    <1> DEFINE N == Len(table.grid)
    <1>1. N \in Nat /\ Frames = 1..N
        BY TableFacts
    <1>2. Len(Timestamps) = N /\ Timestamps = [k \in 1..N |-> Timestamps[k]]
        <2>1. Timestamps = [k \in 1..N |-> Single(table.grid[k])]
            BY <1>1 DEF Timestamps
        <2> HIDE DEF N
        <2>2. Timestamps \in Seq({Single(table.grid[k]) : k \in 1..N}) /\ DOMAIN Timestamps = 1..N
            BY <1>1, <2>1
        <2> QED BY <1>1, <2>1, <2>2
    <1>3. Resizable(Timestamps) = Timestamps
        BY <1>1, <1>2, ResizableIsArray
    <1> QED BY <1>2, <1>3 DEF Hdf5File

LEMMA Hdf5Datasets ==
    ASSUME table \in Tables, PlainIds, NEW n \in Streams
    PROVE  /\ Hdf5File.obs[Name(n)] = Values(n)
           /\ Hdf5File.obs[Name(n) \o <<"confidence">>] = Stored(n)
           /\ Hdf5File.obs[Name(n) \o <<"valid">>] = Valid(n)
    <1>1. Streams \subseteq Int
        BY TableFacts
    <1>2. PICK entries : entries = [m \in Streams |-> Datasets(m)]
        OBVIOUS
    <1>3. \A m \in Streams : \A c : c \in DOMAIN entries[n] /\ c \in DOMAIN entries[m] => m = n
        BY <1>2, Hdf5Accepts DEF Hdf5Raises
    <1>4. Hdf5File.obs = Filled(entries)
        BY <1>2 DEF Hdf5File
    <1>5. /\ DOMAIN entries[n] = {Name(n), Name(n) \o <<"confidence">>, Name(n) \o <<"valid">>}
          /\ entries[n][Name(n)] = Values(n)
          /\ entries[n][Name(n) \o <<"confidence">>] = Stored(n)
          /\ entries[n][Name(n) \o <<"valid">>] = Valid(n)
        BY <1>2, DatasetNames
    <1>6. ASSUME NEW c \in DOMAIN entries[n] PROVE Filled(entries)[c] = entries[n][c]
        BY <1>1, <1>3, FilledAt
    <1> QED BY <1>4, <1>5, <1>6

\* An HDF5 file holds every dataset to the last frame, and plain ids never
\* make create_dataset refuse a name, at every remainder of the grid by the
\* batch (Hdf5Exporter.export, _stream_to_resizable).
THEOREM Hdf5Holds == Spec => []Hdf5HoldsTheTable
    <1>1. FilesInv => Hdf5HoldsTheTable
        <2> SUFFICES ASSUME FilesInv, PlainIds
                     PROVE  /\ Written(<<"hdf5">>) =>
                                LET obs == files[<<"hdf5">>].obs
                                IN  /\ Len(files[<<"hdf5">>].timestamp) = Len(table.grid)
                                    /\ \A n \in Streams :
                                        /\ obs[Name(n)] = Values(n)
                                        /\ obs[Name(n) \o <<"confidence">>] = Stored(n)
                                        /\ obs[Name(n) \o <<"valid">>] = Valid(n)
                            /\ pc = "raised" => Head(todo) # "hdf5"
            BY DEF Hdf5HoldsTheTable
        <2>1. table \in Tables /\ (Written(<<"hdf5">>) => files[<<"hdf5">>] = Hdf5File)
            BY DEF FilesInv, FilesHold, Holds
        <2>2. pc = "raised" => Head(todo) # "hdf5"
            BY <2>1, Hdf5Accepts DEF FilesInv, RefusalsHold
        <2>3. Len(Hdf5File.timestamp) = Len(table.grid)
            BY <2>1, Hdf5Times
        <2> QED BY <2>1, <2>2, <2>3, Hdf5Datasets
    <1> QED BY <1>1, FilesInvariant, PTL

----------------------------------------------------------------------------
(* LeRobot, RLDS and MCAP.                                                 *)

LEMMA ObservationNames ==
    ASSUME table \in Tables, NEW n \in Streams
    PROVE  Observed(n) # Observed(n) \o <<"confidence">>
    <1>1. PICK s \in Seq(Words) : s = Observed(n)
        <2>1. PICK a \in Seq(Words) : a = Name(n)
            BY NameType
        <2>2. PICK x \in Words : x = "observation"
            BY DEF Words
        <2>3. <<x>> \o a \in Seq(Words)
            BY FirstPart
        <2> QED BY <2>1, <2>2, <2>3 DEF Observed
    <1>2. PICK y \in Words : y = "confidence"
        BY DEF Words
    <1>3. Len(s \o <<y>>) = Len(s) + 1 /\ Len(s) \in Nat
        BY OnePartMore
    <1> QED BY <1>1, <1>2, <1>3

LEMMA ObservationsFound ==
    ASSUME table \in Tables, PlainIds, NEW n \in Streams
    PROVE  /\ LerobotFile.columns[Observed(n)] = Values(n)
           /\ LerobotFile.columns[Observed(n) \o <<"confidence">>] = Stored(n)
           /\ RldsFile.columns[Observed(n)] = Values(n)
           /\ RldsFile.columns[Observed(n) \o <<"confidence">>] = Stored(n)
           /\ LerobotFile.features[Observed(n)] = table.streams[n].width
    <1>1. \A m \in Streams : Observed(m) # Observed(m) \o <<"confidence">>
        BY ObservationNames
    <1>2. PICK entries : entries = [m \in Streams |-> ObservationColumns(m)]
        OBVIOUS
    <1>3. \A m \in Streams :
             /\ DOMAIN entries[m] = {Observed(m), Observed(m) \o <<"confidence">>}
             /\ entries[m][Observed(m)] = Values(m)
             /\ entries[m][Observed(m) \o <<"confidence">>] = Stored(m)
        BY <1>1, <1>2 DEF ObservationColumns, Over, Entry
    <1>4. /\ Filled(entries)[Observed(n)] = Values(n)
          /\ Filled(entries)[Observed(n) \o <<"confidence">>] = Stored(n)
        <2>1. \A m \in Streams :
                 DOMAIN entries[m] = {Observed(m), Observed(m) \o <<"confidence">>}
            BY <1>3
        <2>2. /\ Filled(entries)[Observed(n)] = entries[n][Observed(n)]
              /\ Filled(entries)[Observed(n) \o <<"confidence">>]
                    = entries[n][Observed(n) \o <<"confidence">>]
            BY <2>1, ObservedColumns
        <2> QED BY <2>2, <1>3
    <1>5. LerobotFile.columns = Filled(entries) /\ RldsFile.columns = Filled(entries)
        BY <1>2 DEF LerobotFile, RldsFile
    <1>6. PICK shapes : shapes = [m \in Streams |-> Features(m)]
        OBVIOUS
    <1>7. \A m \in Streams :
             /\ DOMAIN shapes[m] = {Observed(m), Observed(m) \o <<"confidence">>}
             /\ shapes[m][Observed(m)] = table.streams[m].width
        BY <1>1, <1>6 DEF Features, Over, Entry
    <1>8. Filled(shapes)[Observed(n)] = table.streams[n].width
        <2>1. \A m \in Streams :
                 DOMAIN shapes[m] = {Observed(m), Observed(m) \o <<"confidence">>}
            BY <1>7
        <2>2. Filled(shapes)[Observed(n)] = shapes[n][Observed(n)]
            BY <2>1, ObservedColumns
        <2> QED BY <2>2, <1>7
    <1>9. LerobotFile.features = Filled(shapes)
        BY <1>6 DEF LerobotFile
    <1> QED BY <1>4, <1>5, <1>8, <1>9

LEMMA OneFirstOneLast ==
    ASSUME table \in Tables, ~RldsRaises, NEW flag \in {"first", "last"}
    PROVE  Cardinality({k \in Frames : RldsFile[flag][k]}) = 1
    <1> DEFINE N == Len(table.grid)
    <1>1. N \in Nat /\ Frames = 1..N /\ N # 0
        BY TableFacts DEF RldsRaises
    <1>2. /\ RldsFile.first = [k \in Frames |-> k = 1]
          /\ RldsFile.last = [k \in Frames |-> k = N]
        BY DEF RldsFile
    <1> HIDE DEF N
    <1>3. CASE flag = "first"
        <2>0. \A k \in Frames : RldsFile.first[k] <=> k = 1
            BY <1>2, Zenon
        <2>1. {k \in Frames : RldsFile.first[k]} = {1}
            BY <1>1, <2>0
        <2> QED BY <1>3, <2>1, FS_Singleton
    <1>4. CASE flag = "last"
        <2>0. \A k \in Frames : RldsFile.last[k] <=> k = N
            BY <1>2, Zenon
        <2>1. {k \in Frames : RldsFile.last[k]} = {N}
            BY <1>1, <2>0
        <2> QED BY <1>4, <2>1, FS_Singleton
    <1> QED BY <1>3, <1>4

LEMMA ReplayLog ==
    ASSUME table \in Tables, UniqueNames, NEW n \in Streams
    PROVE  LET log == McapFile[n].messages
               place(k) == Cardinality({g \in ValidFrames(n) : g <= k})
           IN  /\ {c \in Streams : McapFile[c].topic = Name(n)} = {n}
               /\ Len(log) = Cardinality(ValidFrames(n))
               /\ \A k \in ValidFrames(n) :
                     /\ log[place(k)].time = table.grid[k]
                     /\ log[place(k)].value = Values(n)[k]
                     /\ log[place(k)].conf = Conf(n)[k]
    <1>1. \A c \in Streams : McapFile[c].topic = Name(c) /\ McapFile[c].messages = Messages(c)
        BY DEF McapFile
    <1>2. {c \in Streams : McapFile[c].topic = Name(n)} = {n}
        BY <1>1 DEF UniqueNames
    <1>3. \A k \in ValidFrames(n) : /\ Message(n, k).time = table.grid[k]
                                    /\ Message(n, k).value = Values(n)[k]
                                    /\ Message(n, k).conf = Conf(n)[k]
        BY DEF Message
    <1>4. \A k \in ValidFrames(n) :
             Messages(n)[Cardinality({g \in ValidFrames(n) : g <= k})] = Message(n, k)
        BY MessagesOfStream
    <1>5. Len(Messages(n)) = Cardinality(ValidFrames(n))
        BY MessagesOfStream
    <1> QED BY <1>1, <1>2, <1>3, <1>4, <1>5

\* Every stream is found under its own name in every format, with its values,
\* gaps and confidence, whatever ids devices share: no entry of a file is
\* written over by another stream's (feature_names, build_arrow, export).
THEOREM EveryFormat == Spec => []EveryFormatHoldsTheTable
    <1>1. FilesInv => EveryFormatHoldsTheTable
        <2> SUFFICES ASSUME FilesInv, PlainIds PROVE EveryFormatHoldsTheTable
            BY DEF EveryFormatHoldsTheTable
        <2>1. table \in Tables /\ UniqueNames
            BY PlainNames DEF FilesInv
        <2>2. /\ Written(<<"silver">>) => files[<<"silver">>] = SilverFile
              /\ Written(<<"parquet">>) => files[<<"parquet">>] = SilverFile
              /\ Written(<<"lerobot">>) => files[<<"lerobot">>] = LerobotFile
              /\ Written(<<"rlds">>) => files[<<"rlds">>] = RldsFile /\ ~RldsRaises
              /\ Written(<<"mcap">>) => files[<<"mcap">>] = McapFile
            BY DEF FilesInv, FilesHold, RefusalsHold, Holds
        <2>3. ASSUME NEW n \in Streams, NEW path \in {<<"silver">>, <<"parquet">>}, Written(path)
              PROVE  LET column(x) == files[path].columns[Name(n) \o <<x>>]
                     IN  /\ column("valid") = Valid(n) /\ column("confidence") = Stored(n)
                         /\ \A x \in Channels(n), k \in Frames : column(x)[k] = Cell(n, k, x)
            <3>1. files[path] = SilverFile
                BY <2>2, <2>3
            <3>2. \A x \in Channels(n), k \in Frames :
                     SilverFile.columns[Name(n) \o <<x>>][k] = Cell(n, k, x)
                <4>1. \A x \in Channels(n) :
                         SilverFile.columns[Name(n) \o <<x>>] = [k \in Frames |-> Cell(n, k, x)]
                    BY <2>1, SilverColumns
                <4> QED BY <4>1, Zenon
            <3> QED BY <3>1, <3>2, <2>1, SilverColumns
        <2>4. ASSUME NEW n \in Streams, NEW path \in {<<"lerobot">>, <<"rlds">>}, Written(path)
              PROVE  LET observed == files[path].columns
                     IN  /\ observed[Observed(n)] = Values(n)
                         /\ observed[Observed(n) \o <<"confidence">>] = Stored(n)
            BY <2>1, <2>2, <2>4, ObservationsFound
        <2>5. ASSUME NEW n \in Streams, Written(<<"lerobot">>)
              PROVE  files[<<"lerobot">>].features[Observed(n)] = table.streams[n].width
            BY <2>1, <2>2, <2>5, ObservationsFound
        <2>6. ASSUME NEW n \in Streams, Written(<<"mcap">>)
              PROVE  LET channels == {c \in Streams : files[<<"mcap">>][c].topic = Name(n)}
                         log == files[<<"mcap">>][n].messages
                         place(k) == Cardinality({g \in ValidFrames(n) : g <= k})
                     IN  /\ channels = {n} /\ Len(log) = Cardinality(ValidFrames(n))
                         /\ \A k \in ValidFrames(n) :
                                /\ log[place(k)].time = table.grid[k]
                                /\ log[place(k)].value = Values(n)[k]
                                /\ log[place(k)].conf = Conf(n)[k]
            <3>1. files[<<"mcap">>] = McapFile
                BY <2>2, <2>6
            <3> QED BY <3>1, <2>1, ReplayLog
        <2>7. ASSUME Written(<<"rlds">>), NEW flag \in {"first", "last"}
              PROVE  Cardinality({k \in Frames : files[<<"rlds">>][flag][k]}) = 1
            <3>1. files[<<"rlds">>] = RldsFile /\ ~RldsRaises
                BY <2>2, <2>7
            <3> QED BY <3>1, <2>1, OneFirstOneLast
        <2>8. \A i, j \in {i \in DOMAIN results : results[i].format # "derived"} :
                 results[i].samples = results[j].samples
            BY DEF FilesInv, ResultsHold
        <2> QED BY <2>3, <2>4, <2>5, <2>6, <2>7, <2>8 DEF EveryFormatHoldsTheTable
    <1> QED BY <1>1, FilesInvariant, PTL

----------------------------------------------------------------------------
(* Rounding.                                                               *)

LEMMA TimesMonotone ==
    ASSUME NEW u \in Nat, NEW a \in Int, NEW b \in Int, a <= b
    PROVE  u * a <= u * b /\ (a < b => u * a + u <= u * b)
    <1>1. PICK d \in Nat : b = a + d
        <2>1. b - a \in Nat /\ b = a + (b - a)
            OBVIOUS
        <2> QED BY <2>1
    <1>2. u * b = u * a + u * d /\ u * d \in Nat /\ u * a \in Int
        BY <1>1
    <1>3. a < b => u * d >= u
        <2> SUFFICES ASSUME a < b PROVE u * d >= u
            OBVIOUS
        <2>1. PICK c \in Nat : d = c + 1
            <3>1. d - 1 \in Nat /\ d = (d - 1) + 1
                BY <1>1
            <3> QED BY <3>1
        <2>2. u * d = u * c + u /\ u * c \in Nat
            BY <2>1
        <2> QED BY <2>2
    <1> QED BY <1>2, <1>3

LEMMA Division ==
    ASSUME NEW x \in Int, NEW u \in Nat \ {0}
    PROVE  /\ x \div u \in Int /\ x % u \in Nat /\ x % u < u
           /\ x = u * (x \div u) + (x % u)
    OBVIOUS

LEMMA NatDivision ==
    ASSUME NEW x \in Nat, NEW u \in Nat \ {0}
    PROVE  x \div u \in Nat /\ x \div u <= x
    <1>1. PICK q \in Int, r \in Nat : q = x \div u /\ r = x % u /\ x = u * q + r
        <2>1. x \div u \in Int /\ x % u \in Nat /\ x = u * (x \div u) + (x % u)
            BY Division
        <2> QED BY <2>1
    <1>2. q \in Nat
        BY <1>1
    <1>3. PICK d \in Nat : u = d + 1
        <2>1. u - 1 \in Nat /\ u = (u - 1) + 1
            OBVIOUS
        <2> QED BY <2>1
    <1>4. u * q = d * q + q /\ d * q \in Nat
        BY <1>2, <1>3
    <1> QED BY <1>1, <1>2, <1>4

\* To the nearest multiple of u, half-way to the even one.
Rounded(x, u) ==
    LET low == x \div u
        rest == 2 * (x % u)
    IN  IF rest < u \/ (rest = u /\ low % 2 = 0) THEN low * u ELSE (low + 1) * u

LEMMA RoundedPlace ==
    ASSUME NEW x \in Int, NEW u \in Nat \ {0}
    PROVE  \E q \in Int, r \in Nat, p \in Int :
              /\ r < u /\ p = u * q /\ x = p + r /\ q = x \div u
              /\ Rounded(x, u) = IF 2 * r < u \/ (2 * r = u /\ q % 2 = 0) THEN p ELSE p + u
    <1> DEFINE q == x \div u
               r == x % u
               p == u * q
    <1>1. q \in Int /\ r \in Nat /\ r < u /\ x = p + r
        BY Division
    <1>2. Rounded(x, u) = IF 2 * r < u \/ (2 * r = u /\ q % 2 = 0) THEN q * u ELSE (q + 1) * u
        BY DEF Rounded
    <1>3. q * u = p /\ (q + 1) * u = p + u /\ p \in Int
        <2> HIDE DEF q
        <2> QED BY <1>1
    <1> HIDE DEF r
    <1>4. Rounded(x, u) = IF 2 * r < u \/ (2 * r = u /\ q % 2 = 0) THEN p ELSE p + u
        BY <1>2, <1>3
    <1> QED BY <1>1, <1>3, <1>4

\* No further than half a step away.
LEMMA RoundedNear ==
    ASSUME NEW x \in Int, NEW u \in Nat \ {0}
    PROVE  /\ Rounded(x, u) \in Int
           /\ 2 * (Rounded(x, u) - x) <= u /\ 2 * (x - Rounded(x, u)) <= u
    <1>1. PICK q \in Int, r \in Nat, p \in Int :
              /\ r < u /\ p = u * q /\ x = p + r /\ q = x \div u
              /\ Rounded(x, u) = IF 2 * r < u \/ (2 * r = u /\ q % 2 = 0) THEN p ELSE p + u
        BY RoundedPlace
    <1>2. \/ 2 * r <= u /\ Rounded(x, u) = p
          \/ 2 * r >= u /\ Rounded(x, u) = p + u
        BY <1>1
    <1> QED BY <1>1, <1>2

\* Rounding never passes a multiple of the step.
LEMMA RoundedKeepsSides ==
    ASSUME NEW x \in Int, NEW u \in Nat \ {0}, NEW m \in Int
    PROVE  /\ x <= u * m => Rounded(x, u) <= u * m
           /\ u * m <= x => u * m <= Rounded(x, u)
    <1>1. PICK q \in Int, r \in Nat, p \in Int :
              /\ r < u /\ p = u * q /\ x = p + r /\ q = x \div u
              /\ Rounded(x, u) = IF 2 * r < u \/ (2 * r = u /\ q % 2 = 0) THEN p ELSE p + u
        BY RoundedPlace
    <1>2. PICK M \in Int : M = u * m
        OBVIOUS
    <1>3. /\ Rounded(x, u) = p \/ Rounded(x, u) = p + u
          /\ r = 0 => Rounded(x, u) = p
        <2>1. Rounded(x, u) = p \/ Rounded(x, u) = p + u
            BY <1>1
        <2>2. r = 0 => 2 * r < u
            OBVIOUS
        <2> QED BY <1>1, <2>1, <2>2
    <1>4. ASSUME x <= M PROVE Rounded(x, u) <= M
        <2>1. CASE q < m
            <3>1. p + u <= M
                BY <1>1, <1>2, <2>1, TimesMonotone
            <3> QED BY <1>3, <3>1
        <2>2. CASE m <= q
            <3>1. M <= p
                BY <1>1, <1>2, <2>2, TimesMonotone
            <3> QED BY <1>1, <1>3, <1>4, <3>1
        <2> QED BY <2>1, <2>2
    <1>5. ASSUME M <= x PROVE M <= Rounded(x, u)
        <2>1. CASE q < m
            <3>1. p + u <= M
                BY <1>1, <1>2, <2>1, TimesMonotone
            <3> QED BY <1>1, <1>5, <3>1
        <2>2. CASE m <= q
            <3>1. M <= p
                BY <1>1, <1>2, <2>2, TimesMonotone
            <3> QED BY <1>3, <3>1
        <2> QED BY <2>1, <2>2
    <1> QED BY <1>2, <1>4, <1>5

LEMMA RoundedInOrder ==
    ASSUME NEW x \in Int, NEW y \in Int, x <= y, NEW u \in Nat \ {0}
    PROVE  Rounded(x, u) <= Rounded(y, u)
    <1>1. PICK q \in Int, r \in Nat, p \in Int :
              /\ r < u /\ p = u * q /\ x = p + r /\ q = x \div u
              /\ Rounded(x, u) = IF 2 * r < u \/ (2 * r = u /\ q % 2 = 0) THEN p ELSE p + u
        BY RoundedPlace
    <1>2. PICK Q \in Int, R \in Nat, P \in Int :
              /\ R < u /\ P = u * Q /\ y = P + R /\ Q = y \div u
              /\ Rounded(y, u) = IF 2 * R < u \/ (2 * R = u /\ Q % 2 = 0) THEN P ELSE P + u
        BY RoundedPlace
    <1>3. CASE q < Q
        <2>1. p + u <= P
            BY <1>1, <1>2, <1>3, TimesMonotone
        <2>2. Rounded(x, u) <= p + u /\ P <= Rounded(y, u)
            BY <1>1, <1>2
        <2> QED BY <1>1, <1>2, <2>1, <2>2
    <1>4. CASE q = Q
        <2>1. p = P /\ r <= R
            BY <1>1, <1>2, <1>4
        <2> QED BY <1>1, <1>2, <1>4, <2>1
    <1>5. CASE Q < q
        <2>1. P + u <= p
            BY <1>1, <1>2, <1>5, TimesMonotone
        <2> QED BY <1>1, <1>2, <2>1
    <1> QED BY <1>3, <1>4, <1>5

\* The equation of Power.
PowerUpTo(f, n) == f = [e \in 0..n |-> IF e = 0 THEN 1 ELSE 2 * f[e - 1]]

LEMMA PowerSolution ==
    ASSUME NEW n \in Nat
    PROVE  \E f : PowerUpTo(f, n)
    <1> DEFINE T == {m \in Nat : \E f : PowerUpTo(f, m)}
    <1>1. 0 \in T
        <2>1. PowerUpTo([e \in 0..0 |-> 1], 0)
            BY DEF PowerUpTo
        <2> QED BY <2>1
    <1>2. ASSUME NEW m \in Nat, m \in T PROVE m + 1 \in T
        <2>1. PICK f : PowerUpTo(f, m)
            BY <1>2
        <2> DEFINE g == [e \in 0..(m + 1) |-> IF e <= m THEN f[e] ELSE 2 * f[e - 1]]
        <2>2. \A e \in 0..m : g[e] = f[e]
            OBVIOUS
        <2>3. \A e \in 0..m : f[e] = IF e = 0 THEN 1 ELSE 2 * f[e - 1]
            BY <2>1, Zenon DEF PowerUpTo
        <2>4. \A e \in 0..(m + 1) : e # 0 => e - 1 \in 0..m
            OBVIOUS
        <2>5. g[m + 1] = 2 * f[m]
            <3>1. m + 1 \in 0..(m + 1) /\ ~(m + 1 <= m) /\ (m + 1) - 1 = m
                OBVIOUS
            <3> QED BY <3>1
        <2>6. DOMAIN g = 0..(m + 1) /\ g = [e \in DOMAIN g |-> g[e]]
            OBVIOUS
        <2> HIDE DEF g
        <2>7. ASSUME NEW e \in 0..(m + 1) PROVE g[e] = IF e = 0 THEN 1 ELSE 2 * g[e - 1]
            <3>1. CASE e \in 0..m
                <4>1. e # 0 => g[e - 1] = f[e - 1]
                    BY <2>2, <2>4
                <4> QED BY <3>1, <4>1, <2>2, <2>3
            <3>2. CASE e = m + 1
                <4>1. (m + 1) - 1 = m /\ m + 1 # 0 /\ m \in 0..m
                    OBVIOUS
                <4>2. g[m] = f[m]
                    BY <4>1, <2>2
                <4> QED BY <3>2, <4>1, <4>2, <2>5
            <3> QED BY <3>1, <3>2
        <2>8. PowerUpTo(g, m + 1)
            BY <2>6, <2>7, Zenon DEF PowerUpTo
        <2> QED BY <2>8
    <1> HIDE DEF T
    <1>3. n \in T
        BY <1>1, <1>2, SetInduction
    <1> QED BY <1>3 DEF T

Exponents == 0..(MaxExponent + SingleBits)

LEMMA PowerSteps ==
    /\ Power[0] = 1
    /\ \A e \in Exponents : e + 1 \in Exponents => Power[e + 1] = 2 * Power[e]
    <1>1. MaxExponent + SingleBits \in Nat
        BY FormatAssumption
    <1>2. PowerUpTo(Power, MaxExponent + SingleBits)
        BY <1>1, PowerSolution, Zenon DEF PowerUpTo, Power
    <1>3. \A e \in Exponents : Power[e] = IF e = 0 THEN 1 ELSE 2 * Power[e - 1]
        BY <1>2, Zenon DEF PowerUpTo, Exponents
    <1>4. /\ 0 \in Exponents
          /\ \A e \in Exponents : e + 1 \in Exponents => (e + 1) - 1 = e /\ e + 1 # 0
        BY <1>1 DEF Exponents
    <1> QED BY <1>3, <1>4

LEMMA PowerType ==
    \A e \in Exponents : Power[e] \in Nat \ {0}
    <1> DEFINE T == {e \in Nat : e \in Exponents => Power[e] \in Nat \ {0}}
    <1>1. 0 \in T
        BY PowerSteps
    <1>2. ASSUME NEW e \in Nat, e \in T PROVE e + 1 \in T
        <2>1. e + 1 \in Exponents => e \in Exponents
            BY FormatAssumption DEF Exponents
        <2> QED BY <1>2, <2>1, PowerSteps
    <1> HIDE DEF T
    <1>3. Nat \subseteq T
        BY <1>1, <1>2, SetInduction
    <1>4. Exponents \subseteq Nat
        BY FormatAssumption DEF Exponents
    <1> QED BY <1>3, <1>4 DEF T

\* A product of powers is a power.
LEMMA PowerProduct ==
    ASSUME NEW a \in Nat, NEW b \in Nat, a + b \in Exponents
    PROVE  Power[a + b] = Power[a] * Power[b]
    <1> DEFINE T == {d \in Nat : a + d \in Exponents => Power[a + d] = Power[a] * Power[d]}
    <1>1. MaxExponent + SingleBits \in Nat
        BY FormatAssumption
    <1>2. 0 \in T
        <2>1. a + 0 = a /\ (a \in Exponents => Power[a] \in Nat)
            BY PowerType
        <2> QED BY <2>1, PowerSteps
    <1>3. ASSUME NEW d \in Nat, d \in T PROVE d + 1 \in T
        <2> SUFFICES ASSUME a + (d + 1) \in Exponents
                     PROVE  Power[a + (d + 1)] = Power[a] * Power[d + 1]
            OBVIOUS
        <2>1. /\ a + (d + 1) = (a + d) + 1 /\ a + d \in Exponents
              /\ a \in Exponents /\ d \in Exponents /\ d + 1 \in Exponents
            BY <1>1 DEF Exponents
        <2>2. Power[a + d] = Power[a] * Power[d]
            BY <1>3, <2>1
        <2>3. Power[(a + d) + 1] = 2 * Power[a + d] /\ Power[d + 1] = 2 * Power[d]
            BY <2>1, PowerSteps
        <2>4. Power[a] \in Nat /\ Power[d] \in Nat
            BY <2>1, PowerType
        <2>5. PICK x \in Nat, y \in Nat : x = Power[a] /\ y = Power[d]
            BY <2>4
        <2>6. 2 * (x * y) = x * (2 * y)
            OBVIOUS
        <2> QED BY <2>1, <2>2, <2>3, <2>5, <2>6
    <1> HIDE DEF T
    <1>4. b \in T
        BY <1>2, <1>3, SetInduction
    <1> QED BY <1>4 DEF T

LEMMA PowerInOrder ==
    ASSUME NEW a \in Exponents, NEW b \in Exponents, a <= b
    PROVE  Power[a] <= Power[b]
    <1>1. a \in Nat /\ b - a \in Nat /\ a + (b - a) = b /\ b - a \in Exponents
        BY FormatAssumption DEF Exponents
    <1>2. PICK x \in Nat \ {0}, y \in Nat \ {0} : x = Power[a] /\ y = Power[b - a]
        BY <1>1, PowerType
    <1>3. Power[b] = x * y
        BY <1>1, <1>2, PowerProduct
    <1>4. x * 1 <= x * y
        BY TimesMonotone
    <1> QED BY <1>2, <1>3, <1>4

Size(t) == IF t < 0 THEN -t ELSE t

\* The exponent of a time's spacing: the greatest whose numbers reach it.
LEMMA UlpOf ==
    ASSUME NEW t \in Int
    PROVE  \E e \in 0..MaxExponent :
              /\ Ulp(t) = Power[e]
              /\ e > 0 => Power[e + SingleBits - 1] <= Size(t)
              /\ \A d \in (e + 1)..MaxExponent : Size(t) < Power[d + SingleBits - 1]
    <1> DEFINE reach(e) == Power[e + SingleBits - 1]
               E == {e \in 1..MaxExponent : reach(e) <= Size(t)}
               S == {1} \cup {Power[e] : e \in E}
    <1>1. MaxExponent \in Nat /\ SingleBits \in Nat \ {0} /\ Size(t) \in Int
        BY FormatAssumption DEF Size
    <1>2. 0..MaxExponent \subseteq Exponents /\ \A e \in 1..MaxExponent : reach(e) \in Nat
        <2>1. \A e \in 1..MaxExponent : e + SingleBits - 1 \in Exponents
            BY <1>1 DEF Exponents
        <2> QED BY <1>1, <2>1, PowerType DEF Exponents
    <1>3. Ulp(t) = Max(S)
        BY DEF Ulp, Size
    <1> HIDE DEF reach
    <1>4. ASSUME NEW e \in 0..MaxExponent, e \in E \cup {0}, \A d \in E : d <= e
          PROVE  Max(S) = Power[e]
        <2>1. S \subseteq Int
            BY <1>2, PowerType
        <2>2. Power[e] \in S
            BY <1>4, PowerSteps
        <2>3. \A d \in E : Power[d] <= Power[e]
            BY <1>2, <1>4, PowerInOrder
        <2>4. 1 <= Power[e]
            BY <1>2, PowerType
        <2>5. \A x \in S : x <= Power[e]
            BY <2>3, <2>4
        <2> HIDE DEF S
        <2> QED BY <2>1, <2>2, <2>5, GreatestIsMax
    <1>5. ASSUME NEW e \in 0..MaxExponent, \A d \in E : d <= e
          PROVE  \A d \in (e + 1)..MaxExponent : Size(t) < reach(d)
        <2> SUFFICES ASSUME NEW d \in (e + 1)..MaxExponent PROVE Size(t) < reach(d)
            OBVIOUS
        <2>1. d \in 1..MaxExponent /\ d \notin E
            BY <1>1, <1>5
        <2> QED BY <1>1, <1>2, <2>1
    <1>6. \E e \in 0..MaxExponent :
              e \in E \cup {0} /\ (\A d \in E : d <= e) /\ (e > 0 => reach(e) <= Size(t))
        <2>1. CASE E = {}
            BY <1>1, <2>1
        <2>2. CASE E # {}
            <3>1. E \subseteq Int /\ MaxExponent \in Int /\ \A e \in E : e <= MaxExponent
                BY <1>1
            <3> HIDE DEF E
            <3>2. PICK e \in E : \A d \in E : d <= e
                BY <2>2, <3>1, GreatestBounded
            <3>3. e \in 0..MaxExponent /\ reach(e) <= Size(t)
                BY <1>1 DEF E
            <3> QED BY <3>2, <3>3
        <2> QED BY <2>1, <2>2
    <1> QED BY <1>3, <1>4, <1>5, <1>6 DEF reach

\* A quotient rounded to u is its dividend rounded to the divisor's u.
LEMMA NearestIsRounded ==
    ASSUME NEW a \in Int, NEW b \in Nat \ {0}, NEW u \in Nat \ {0}
    PROVE  /\ b * u \in Nat \ {0}
           /\ Nearest(a, b, u) \in Int
           /\ b * Nearest(a, b, u) = Rounded(a, b * u)
           /\ b = 1 => Nearest(a, b, u) = Rounded(a, u)
    <1>1. PICK v \in Nat \ {0} : v = b * u
        OBVIOUS
    <1>2. PICK q \in Int, r \in Nat : q = a \div v /\ r = a % v
        BY <1>1, Division
    <1>3. /\ Nearest(a, b, u) = IF 2 * r < v \/ (2 * r = v /\ q % 2 = 0) THEN q * u ELSE (q + 1) * u
          /\ Rounded(a, v) = IF 2 * r < v \/ (2 * r = v /\ q % 2 = 0) THEN q * v ELSE (q + 1) * v
        BY <1>1, <1>2 DEF Nearest, Rounded
    <1>4. \A l \in Int : l * u \in Int /\ b * (l * u) = l * v
        BY <1>1
    <1>5. q + 1 \in Int
        BY <1>2
    <1>6. Nearest(a, b, u) \in Int /\ b * Nearest(a, b, u) = Rounded(a, v)
        BY <1>3, <1>4, <1>5
    <1>7. b = 1 => v = u
        BY <1>1
    <1>8. ASSUME b = 1 PROVE Nearest(a, b, u) = Rounded(a, u)
        <2>1. 1 * Nearest(a, b, u) = Rounded(a, u)
            BY <1>6, <1>7, <1>8
        <2> QED BY <1>6, <2>1
    <1> QED BY <1>1, <1>6, <1>8

LEMMA SingleIsRounded ==
    ASSUME NEW t \in Int
    PROVE  /\ Ulp(t) \in Nat \ {0} /\ Single(t) = Rounded(t, Ulp(t))
    <1>1. Ulp(t) \in Nat \ {0}
        <2>1. PICK e \in 0..MaxExponent : Ulp(t) = Power[e]
            BY UlpOf
        <2>2. e \in Exponents
            BY FormatAssumption DEF Exponents
        <2> QED BY <2>1, <2>2, PowerType
    <1> QED BY <1>1, NearestIsRounded DEF Single

\* The time at which the spacing becomes that of a greater exponent is a
\* multiple of both spacings.
LEMMA Threshold ==
    ASSUME NEW d \in 0..MaxExponent, NEW e \in 1..MaxExponent, d <= e
    PROVE  \E m \in Int : Power[e + SingleBits - 1] = Power[d] * m
    <1> DEFINE b == (e - d) + (SingleBits - 1)
    <1>1. d \in Nat /\ b \in Nat /\ d + b = e + SingleBits - 1 /\ d + b \in Exponents /\ b \in Exponents
        <2>1. MaxExponent \in Nat /\ SingleBits \in Nat /\ SingleBits - 1 \in Nat
            BY FormatAssumption
        <2>2. e - d \in Nat /\ e - d <= MaxExponent /\ d \in Nat /\ e \in Nat /\ e <= MaxExponent
            BY <2>1
        <2>3. b \in Nat /\ b <= MaxExponent + SingleBits /\ d + b = e + SingleBits - 1
            BY <2>1, <2>2
        <2>4. d + b \in Nat /\ d + b <= MaxExponent + SingleBits
            BY <2>1, <2>2, <2>3
        <2> HIDE DEF b
        <2> QED BY <2>1, <2>2, <2>3, <2>4 DEF Exponents
    <1> HIDE DEF b
    <1>2. Power[d + b] = Power[d] * Power[b] /\ Power[b] \in Int
        BY <1>1, PowerProduct, PowerType
    <1> QED BY <1>1, <1>2

\* Times keep their order as float32 stamps.
LEMMA SingleInOrder ==
    ASSUME NEW s \in Int, NEW t \in Int, s <= t
    PROVE  Single(s) <= Single(t)
    <1>1. PICK d \in 0..MaxExponent :
              /\ Ulp(s) = Power[d]
              /\ d > 0 => Power[d + SingleBits - 1] <= Size(s)
              /\ \A x \in (d + 1)..MaxExponent : Size(s) < Power[x + SingleBits - 1]
        BY UlpOf
    <1>2. PICK e \in 0..MaxExponent :
              /\ Ulp(t) = Power[e]
              /\ e > 0 => Power[e + SingleBits - 1] <= Size(t)
              /\ \A x \in (e + 1)..MaxExponent : Size(t) < Power[x + SingleBits - 1]
        BY UlpOf
    <1>3. PICK u \in Nat \ {0}, v \in Nat \ {0} : u = Ulp(s) /\ v = Ulp(t)
        BY SingleIsRounded
    <1>4. Single(s) = Rounded(s, u) /\ Single(t) = Rounded(t, v)
        BY <1>3, SingleIsRounded
    <1>5. Rounded(s, u) \in Int /\ Rounded(t, v) \in Int
        BY <1>3, RoundedNear
    <1>6. CASE d = e
        <2>1. u = v
            BY <1>1, <1>2, <1>3, <1>6
        <2> QED BY <1>4, <2>1, RoundedInOrder
    <1>7. CASE d < e
        <2>1. PICK B : B = Power[e + SingleBits - 1]
            OBVIOUS
        <2>2. PICK l \in Int, m \in Int : B = u * l /\ B = v * m
            <3>1. e \in 1..MaxExponent /\ d <= e /\ e <= e
                BY <1>7
            <3>2. \E l \in Int : B = u * l
                BY <1>1, <1>3, <2>1, <3>1, Threshold
            <3>3. \E m \in Int : B = v * m
                BY <1>2, <1>3, <2>1, <3>1, Threshold
            <3> QED BY <3>2, <3>3
        <2>3. B \in Int
            BY <2>2
        <2>4. Size(s) < B /\ B <= Size(t)
            <3>1. e \in (d + 1)..MaxExponent /\ e > 0
                BY <1>7
            <3> QED BY <1>1, <1>2, <2>1, <3>1
        <2>5. s <= B /\ B <= t
            BY <2>3, <2>4 DEF Size
        <2>6. Rounded(s, u) <= B /\ B <= Rounded(t, v)
            BY <2>2, <2>5, RoundedKeepsSides
        <2> QED BY <1>4, <1>5, <2>3, <2>6
    <1>8. CASE e < d
        <2>1. PICK B : B = Power[d + SingleBits - 1]
            OBVIOUS
        <2>2. PICK l \in Int, m \in Int : B = u * l /\ B = v * m
            <3>1. d \in 1..MaxExponent /\ e <= d /\ d <= d
                BY <1>8
            <3>2. \E l \in Int : B = u * l
                BY <1>1, <1>3, <2>1, <3>1, Threshold
            <3>3. \E m \in Int : B = v * m
                BY <1>2, <1>3, <2>1, <3>1, Threshold
            <3> QED BY <3>2, <3>3
        <2>3. B \in Int
            BY <2>2
        <2>4. Size(t) < B /\ B <= Size(s)
            <3>1. d \in (e + 1)..MaxExponent /\ d > 0
                BY <1>8
            <3> QED BY <1>1, <1>2, <2>1, <3>1
        <2>5. PICK A \in Int : A = -B
            BY <2>3
        <2>6. s <= A /\ A <= t
            BY <2>3, <2>4, <2>5 DEF Size
        <2>7. PICK k \in Int, n \in Int : A = u * k /\ A = v * n
            <3>1. -l \in Int /\ -m \in Int /\ u * (-l) = -(u * l) /\ v * (-m) = -(v * m)
                OBVIOUS
            <3> QED BY <2>2, <2>5, <3>1
        <2>8. Rounded(s, u) <= A /\ A <= Rounded(t, v)
            BY <2>6, <2>7, RoundedKeepsSides
        <2> QED BY <1>4, <1>5, <2>8
    <1> QED BY <1>6, <1>7, <1>8

\* Times further apart than the spacing have stamps of their own.
LEMMA SingleApart ==
    ASSUME NEW s \in Int, NEW t \in Int, t - s > Max({Ulp(s), Ulp(t)})
    PROVE  Single(s) < Single(t)
    <1>1. PICK u \in Nat \ {0}, v \in Nat \ {0} : u = Ulp(s) /\ v = Ulp(t)
        BY SingleIsRounded
    <1>2. PICK S : S = {u, v}
        OBVIOUS
    <1>3. u <= Max(S) /\ v <= Max(S) /\ Max(S) \in Int
        <2>1. S \subseteq Int /\ u \in S /\ v \in S
            BY <1>2
        <2>2. CASE u <= v
            <3>1. \A x \in S : x <= v
                BY <1>2, <2>2
            <3>2. Max(S) = v
                BY <2>1, <3>1, GreatestIsMax
            <3> QED BY <2>2, <3>2
        <2>3. CASE v <= u
            <3>1. \A x \in S : x <= u
                BY <1>2, <2>3
            <3>2. Max(S) = u
                BY <2>1, <3>1, GreatestIsMax
            <3> QED BY <2>3, <3>2
        <2> QED BY <2>2, <2>3
    <1>4. t - s > Max(S)
        BY <1>1, <1>2
    <1>5. Single(s) = Rounded(s, u) /\ Single(t) = Rounded(t, v)
        BY <1>1, SingleIsRounded
    <1>6. /\ Rounded(s, u) \in Int /\ 2 * (Rounded(s, u) - s) <= u
          /\ Rounded(t, v) \in Int /\ 2 * (t - Rounded(t, v)) <= v
        BY RoundedNear
    <1> QED BY <1>3, <1>4, <1>5, <1>6

LEMMA TimesCancel ==
    ASSUME NEW c \in Nat \ {0}, NEW x \in Int, NEW y \in Int, c * x <= c * y
    PROVE  x <= y
    <1> SUFFICES ASSUME y < x PROVE FALSE
        OBVIOUS
    <1>1. c * y + c <= c * x
        BY TimesMonotone
    <1>2. PICK p \in Int, q \in Int : p = c * x /\ q = c * y
        OBVIOUS
    <1> QED BY <1>1, <1>2

\* Greater quotients are rounded to greater numbers.
LEMMA NearestInOrder ==
    ASSUME NEW a \in Int, NEW d \in Int, a <= d, NEW b \in Nat \ {0}, NEW u \in Nat \ {0}
    PROVE  Nearest(a, b, u) <= Nearest(d, b, u)
    <1>1. PICK v \in Nat \ {0} : v = b * u
        OBVIOUS
    <1>2. Rounded(a, v) <= Rounded(d, v)
        BY RoundedInOrder
    <1>3. PICK x \in Int, y \in Int : x = Nearest(a, b, u) /\ y = Nearest(d, b, u)
        BY NearestIsRounded
    <1>4. b * x = Rounded(a, v) /\ b * y = Rounded(d, v)
        BY <1>1, <1>3, NearestIsRounded
    <1> QED BY <1>2, <1>3, <1>4, TimesCancel

\* A rounded quotient is no further than half a step away.
LEMMA NearestNear ==
    ASSUME NEW a \in Int, NEW b \in Nat \ {0}, NEW u \in Nat \ {0}
    PROVE  /\ Nearest(a, b, u) \in Int
           /\ 2 * (b * Nearest(a, b, u) - a) <= b * u
           /\ 2 * (a - b * Nearest(a, b, u)) <= b * u
    <1>1. PICK v \in Nat \ {0} : v = b * u
        OBVIOUS
    <1>2. PICK x \in Int : x = Nearest(a, b, u)
        BY NearestIsRounded
    <1>3. b * x = Rounded(a, v)
        BY <1>1, <1>2, NearestIsRounded
    <1>4. 2 * (Rounded(a, v) - a) <= v /\ 2 * (a - Rounded(a, v)) <= v
        BY RoundedNear
    <1> QED BY <1>1, <1>2, <1>3, <1>4

LEMMA UlpInOrder ==
    ASSUME NEW s \in Nat, NEW t \in Nat, s <= t
    PROVE  Ulp(s) <= Ulp(t)
    <1>1. PICK d \in 0..MaxExponent :
              Ulp(s) = Power[d] /\ (d > 0 => Power[d + SingleBits - 1] <= Size(s))
        BY UlpOf
    <1>2. PICK e \in 0..MaxExponent :
              /\ Ulp(t) = Power[e]
              /\ \A x \in (e + 1)..MaxExponent : Size(t) < Power[x + SingleBits - 1]
        BY UlpOf
    <1>3. Size(s) = s /\ Size(t) = t
        BY DEF Size
    <1>4. d \in Exponents /\ e \in Exponents
        BY FormatAssumption DEF Exponents
    <1>5. d <= e
        <2> SUFFICES ASSUME e < d PROVE FALSE
            BY FormatAssumption
        <2>1. d \in (e + 1)..MaxExponent /\ d > 0 /\ d + SingleBits - 1 \in Exponents
            BY FormatAssumption DEF Exponents
        <2>2. PICK B \in Int : B = Power[d + SingleBits - 1]
            BY <2>1, PowerType
        <2>3. B <= s /\ t < B
            BY <1>1, <1>2, <1>3, <2>1, <2>2
        <2> QED BY <2>2, <2>3
    <1> QED BY <1>1, <1>2, <1>4, <1>5, PowerInOrder

\* What is rounded to float32 once stays, and is within half of the spacing
\* about the result.
LEMMA SingleStays ==
    ASSUME NEW y \in Nat
    PROVE  /\ Single(y) \in Nat /\ Single(Single(y)) = Single(y)
           /\ Ulp(y) <= Ulp(Single(y))
           /\ 2 * (Single(y) - y) <= Ulp(y) /\ 2 * (y - Single(y)) <= Ulp(y)
    <1>1. PICK d \in 0..MaxExponent :
              /\ Ulp(y) = Power[d]
              /\ d > 0 => Power[d + SingleBits - 1] <= Size(y)
              /\ \A x \in (d + 1)..MaxExponent : Size(y) < Power[x + SingleBits - 1]
        BY UlpOf
    <1>2. PICK u \in Nat \ {0} : u = Ulp(y)
        BY SingleIsRounded
    <1>3. PICK s : s = Single(y)
        OBVIOUS
    <1>4. s = Rounded(y, u) /\ s \in Int /\ 2 * (s - y) <= u /\ 2 * (y - s) <= u
        BY <1>2, <1>3, SingleIsRounded, RoundedNear
    <1>5. PICK m \in Int : s = u * m
        <2>1. PICK q : q = y \div u
            OBVIOUS
        <2>2. q \in Int
            BY <2>1, Division
        <2>3. s = q * u \/ s = (q + 1) * u
            BY <1>4, <2>1 DEF Rounded
        <2>4. q * u = u * q /\ (q + 1) * u = u * (q + 1) /\ q + 1 \in Int
            BY <2>2
        <2> QED BY <2>2, <2>3, <2>4
    <1>6. s \in Nat
        <2>1. u * 0 = 0 /\ u * 0 <= y
            OBVIOUS
        <2>2. u * 0 <= Rounded(y, u)
            BY <2>1, RoundedKeepsSides
        <2> QED BY <1>4, <2>1, <2>2
    <1>7. PICK e \in 0..MaxExponent :
              /\ Ulp(s) = Power[e]
              /\ e > 0 => Power[e + SingleBits - 1] <= Size(s)
              /\ \A x \in (e + 1)..MaxExponent : Size(s) < Power[x + SingleBits - 1]
        BY <1>6, UlpOf
    <1>8. Size(y) = y /\ Size(s) = s
        BY <1>6 DEF Size
    <1>9. PICK v \in Nat \ {0} : v = Ulp(s)
        BY <1>6, SingleIsRounded
    <1>10. Single(s) = Rounded(s, v)
        BY <1>6, <1>9, SingleIsRounded
    <1>11. d <= e
        <2> SUFFICES ASSUME e < d PROVE FALSE
            BY FormatAssumption
        <2>1. d \in 1..MaxExponent /\ d <= d /\ d > 0 /\ d \in (e + 1)..MaxExponent
            BY FormatAssumption
        <2>2. PICK l \in Int : Power[d + SingleBits - 1] = u * l
            BY <1>1, <1>2, <2>1, Threshold
        <2>3. u * l <= y
            BY <1>1, <1>8, <2>1, <2>2
        <2>4. u * l <= Rounded(y, u)
            BY <2>3, RoundedKeepsSides
        <2>5. s < u * l
            BY <1>7, <1>8, <2>1, <2>2
        <2>6. PICK B \in Int : B = u * l
            OBVIOUS
        <2> QED BY <1>4, <2>4, <2>5, <2>6
    <1>12. u <= v
        <2>1. d \in Exponents /\ e \in Exponents
            BY FormatAssumption DEF Exponents
        <2> QED BY <1>1, <1>2, <1>7, <1>9, <1>11, <2>1, PowerInOrder
    <1>13. \E k \in Int : s = v * k
        <2>1. CASE d = e
            BY <1>1, <1>2, <1>5, <1>7, <1>9, <2>1
        <2>2. CASE d < e
            <3>1. e \in 1..MaxExponent /\ e <= e /\ e > 0 /\ e \in (d + 1)..MaxExponent
                BY <2>2
            <3>2. PICK B : B = Power[e + SingleBits - 1]
                OBVIOUS
            <3>3. PICK l \in Int : B = u * l
                BY <1>1, <1>2, <1>11, <3>1, <3>2, Threshold
            <3>4. PICK k \in Int : B = v * k
                BY <1>7, <1>9, <3>1, <3>2, Threshold
            <3>5. B \in Int /\ y < B /\ B <= s
                <4>1. Size(y) < Power[e + SingleBits - 1]
                    BY <1>1, <3>1
                <4>2. Power[e + SingleBits - 1] <= Size(s)
                    BY <1>7, <3>1
                <4> QED BY <1>8, <3>2, <3>3, <4>1, <4>2
            <3>6. y <= u * l
                BY <3>3, <3>5
            <3>7. Rounded(y, u) <= u * l
                BY <3>6, RoundedKeepsSides
            <3>8. s = B
                <4>1. s <= B
                    BY <1>4, <3>3, <3>7
                <4> QED BY <1>4, <3>5, <4>1
            <3> QED BY <3>4, <3>8
        <2> QED BY <1>11, <2>1, <2>2, FormatAssumption
    <1>14. Rounded(s, v) = s
        <2>1. PICK k \in Int : s = v * k
            BY <1>13
        <2>2. s <= v * k /\ v * k <= s
            BY <1>6, <2>1
        <2>3. Rounded(s, v) <= v * k /\ v * k <= Rounded(s, v)
            BY <1>6, <2>2, RoundedKeepsSides
        <2>4. Rounded(s, v) \in Int
            BY <1>6, RoundedNear
        <2> QED BY <1>6, <2>1, <2>3, <2>4
    <1> QED BY <1>2, <1>3, <1>4, <1>6, <1>9, <1>10, <1>12, <1>14

----------------------------------------------------------------------------
(* Inspection.                                                             *)

LEMMA LenOfArray ==
    ASSUME NEW n \in Nat, NEW T, NEW array \in [1..n -> T]
    PROVE  Len(array) = n
    <1>1. array \in Seq(T) /\ DOMAIN array = 1..n
        OBVIOUS
    <1> QED BY <1>1

\* The equation of SumOver's recursive function.
SumUpTo(f, array, S, dtype, n) ==
    f = [k \in 0..n |->
            IF k = 0 THEN 0
            ELSE IF k \notin S THEN f[k - 1]
            ELSE IF dtype = "float32" THEN Single(f[k - 1] + array[k])
            ELSE f[k - 1] + array[k]]

\* The equation has a solution, which SumOver takes.
LEMMA SumSolution ==
    ASSUME NEW n \in Nat, NEW array, Len(array) = n, NEW S, NEW dtype
    PROVE  \E f : SumUpTo(f, array, S, dtype, n) /\ SumOver(array, S, dtype) = f[n]
    <1> DEFINE Next1(sum, k) == IF k \notin S THEN sum
                                ELSE IF dtype = "float32" THEN Single(sum + array[k]) ELSE sum + array[k]
               T == {m \in Nat : \E f : SumUpTo(f, array, S, dtype, m)}
    <1>1. 0 \in T
        <2>1. SumUpTo([k \in 0..0 |-> 0], array, S, dtype, 0)
            BY DEF SumUpTo
        <2> QED BY <2>1
    <1>2. ASSUME NEW m \in Nat, m \in T PROVE m + 1 \in T
        <2>1. PICK f : SumUpTo(f, array, S, dtype, m)
            BY <1>2
        <2> DEFINE g == [k \in 0..(m + 1) |-> IF k <= m THEN f[k] ELSE Next1(f[k - 1], k)]
        <2>2. \A k \in 0..m : g[k] = f[k]
            OBVIOUS
        <2>3. \A k \in 0..m : f[k] = IF k = 0 THEN 0 ELSE Next1(f[k - 1], k)
            BY <2>1, Zenon DEF SumUpTo
        <2>4. \A k \in 0..(m + 1) : k # 0 => k - 1 \in 0..m
            OBVIOUS
        <2>5. g[m + 1] = Next1(f[m], m + 1)
            <3>1. m + 1 \in 0..(m + 1) /\ ~(m + 1 <= m) /\ (m + 1) - 1 = m
                OBVIOUS
            <3> HIDE DEF Next1
            <3> QED BY <3>1
        <2>6. DOMAIN g = 0..(m + 1) /\ g = [k \in DOMAIN g |-> g[k]]
            OBVIOUS
        <2> HIDE DEF g, Next1
        <2>7. ASSUME NEW k \in 0..(m + 1) PROVE g[k] = IF k = 0 THEN 0 ELSE Next1(g[k - 1], k)
            <3>1. CASE k \in 0..m
                <4>1. k # 0 => g[k - 1] = f[k - 1]
                    BY <2>2, <2>4
                <4> QED BY <3>1, <4>1, <2>2, <2>3
            <3>2. CASE k = m + 1
                <4>1. (m + 1) - 1 = m /\ m + 1 # 0 /\ m \in 0..m
                    OBVIOUS
                <4>2. g[m] = f[m]
                    BY <4>1, <2>2
                <4> QED BY <3>2, <4>1, <4>2, <2>5
            <3> QED BY <3>1, <3>2
        <2>8. SumUpTo(g, array, S, dtype, m + 1)
            BY <2>6, <2>7, Zenon DEF SumUpTo, Next1
        <2> QED BY <2>8
    <1> HIDE DEF T
    <1>3. n \in T
        BY <1>1, <1>2, SetInduction
    <1> DEFINE f == CHOOSE f : SumUpTo(f, array, S, dtype, n)
    <1>4. SumUpTo(f, array, S, dtype, n)
        BY <1>3 DEF T
    <1>5. SumOver(array, S, dtype) = f[n]
        BY Zenon DEF SumOver, SumUpTo
    <1> QED BY <1>4, <1>5

SumSteps(f, array, S, dtype, n) ==
    /\ f[0] = 0
    /\ \A k \in 1..n : f[k] = IF k \notin S THEN f[k - 1]
                              ELSE IF dtype = "float32" THEN Single(f[k - 1] + array[k])
                              ELSE f[k - 1] + array[k]

IsSum(s, array, S, dtype, n) == \E f : SumSteps(f, array, S, dtype, n) /\ s = f[n]

LEMMA SumTerms ==
    ASSUME NEW n \in Nat, NEW array, Len(array) = n, NEW S, NEW dtype
    PROVE  IsSum(SumOver(array, S, dtype), array, S, dtype, n)
    <1>1. PICK f : SumUpTo(f, array, S, dtype, n) /\ SumOver(array, S, dtype) = f[n]
        BY SumSolution
    <1>2. \A k \in 0..n : f[k] = IF k = 0 THEN 0
                                 ELSE IF k \notin S THEN f[k - 1]
                                 ELSE IF dtype = "float32" THEN Single(f[k - 1] + array[k])
                                 ELSE f[k - 1] + array[k]
        BY <1>1, Zenon DEF SumUpTo
    <1>3. 0 \in 0..n /\ \A k \in 1..n : k \in 0..n /\ k # 0
        OBVIOUS
    <1>4. SumSteps(f, array, S, dtype, n)
        BY <1>2, <1>3 DEF SumSteps
    <1> QED BY <1>1, <1>4 DEF IsSum

\* A float32 sum t of c terms is off by half of the spacing at it, and of that
\* at One, for each of them.
CloseSums(s, t, c) ==
    /\ s \in Nat /\ t \in Nat /\ Single(t) = t
    /\ 2 * (t - s) <= c * (Ulp(t) + Ulp(One))
    /\ 2 * (s - t) <= c * (Ulp(t) + Ulp(One))

LEMMA OneTerm ==
    ASSUME NEW s, NEW t, NEW a \in 0..One, NEW c \in Nat, CloseSums(s, t, c)
    PROVE  CloseSums(s + a, Single(t + Single(a)), c + 1)
    <1>0. s \in Nat /\ t \in Nat /\ Single(t) = t
        BY DEF CloseSums
    <1>00. PICK u : u = Single(t + Single(a))
        OBVIOUS
    <1>1. One \in Nat /\ a \in Nat /\ a <= One
        BY FormatAssumption
    <1>2. PICK V \in Nat \ {0}, T \in Nat \ {0}, A \in Nat \ {0} :
             V = Ulp(One) /\ T = Ulp(t) /\ A = Ulp(a)
        BY <1>0, <1>1, SingleIsRounded
    <1>3. A <= V
        BY <1>1, <1>2, UlpInOrder
    <1>4. PICK b \in Nat : b = Single(a) /\ 2 * (b - a) <= A /\ 2 * (a - b) <= A
        BY <1>1, <1>2, SingleStays
    <1>5. PICK y \in Nat : y = t + b
        BY <1>0
    <1>6. PICK Y \in Nat \ {0} : Y = Ulp(y)
        BY SingleIsRounded
    <1>7. u = Single(y)
        BY <1>00, <1>4, <1>5
    <1>8. /\ u \in Nat /\ Single(u) = u /\ Y <= Ulp(u)
          /\ 2 * (u - y) <= Y /\ 2 * (y - u) <= Y
        BY <1>6, <1>7, SingleStays
    <1>9. PICK U \in Nat \ {0} : U = Ulp(u)
        BY <1>8, SingleIsRounded
    <1>10. T <= U
        <2>1. t \in Int /\ y \in Int /\ t <= y
            BY <1>0, <1>5
        <2>2. Single(t) <= Single(y)
            BY <2>1, SingleInOrder
        <2>3. t <= u
            BY <1>0, <1>7, <2>2
        <2> QED BY <1>0, <1>2, <1>8, <1>9, <2>3, UlpInOrder
    <1>11. c * (T + V) <= c * (U + V)
        BY <1>10, TimesMonotone
    <1>12. PICK p \in Int, q \in Int : p = c * (T + V) /\ q = c * (U + V)
        OBVIOUS
    <1>13. (c + 1) * (U + V) = q + (U + V)
        BY <1>12
    <1>14. 2 * (t - s) <= p /\ 2 * (s - t) <= p /\ p <= q
        BY <1>0, <1>2, <1>11, <1>12 DEF CloseSums
    <1>15. /\ 2 * (u - (s + a)) <= q + (U + V)
           /\ 2 * ((s + a) - u) <= q + (U + V)
        <2>1. Y <= U
            BY <1>8, <1>9
        <2> QED BY <1>0, <1>1, <1>3, <1>4, <1>5, <1>8, <1>14, <2>1
    <1>16. s + a \in Nat
        BY <1>0, <1>1
    <1> QED BY <1>00, <1>2, <1>8, <1>9, <1>13, <1>15, <1>16 DEF CloseSums

\* A float32 sum of float32 numbers is off by half of the spacing at the sum,
\* and of that at One, for each of its terms.
LEMMA SumsApart ==
    ASSUME NEW n \in Nat, NEW mask \in [1..n -> BOOLEAN], NEW S, S = {k \in 1..n : mask[k]},
           NEW array \in [1..n -> 0..One], NEW rounded, rounded = [k \in 1..n |-> Single(array[k])],
           NEW s, s = SumOver(array, S, "float64"), NEW t, t = SumOver(rounded, S, "float32")
    PROVE  /\ s \in Nat /\ t \in Nat
           /\ 2 * (t - s) <= Cardinality(S) * (Ulp(t) + Ulp(One))
           /\ 2 * (s - t) <= Cardinality(S) * (Ulp(t) + Ulp(One))
    <1>1. Len(array) = n /\ Len(rounded) = n
        <2>1. \E values : rounded \in [1..n -> values]
            <3>1. rounded \in [1..n -> {Single(array[k]) : k \in 1..n}]
                OBVIOUS
            <3> QED BY <3>1
        <2> QED BY <2>1, LenOfArray
    <1>2. PICK f : /\ f[0] = 0 /\ s = f[n]
                   /\ \A k \in 1..n : f[k] = IF k \notin S THEN f[k - 1] ELSE f[k - 1] + array[k]
        <2>1. IsSum(s, array, S, "float64", n)
            BY ONLY n \in Nat, Len(array) = n, <1>1, s = SumOver(array, S, "float64"), SumTerms
        <2> QED BY <2>1 DEF IsSum, SumSteps
    <1>3. PICK g : /\ g[0] = 0 /\ t = g[n]
                   /\ \A k \in 1..n : g[k] = IF k \notin S THEN g[k - 1]
                                             ELSE Single(g[k - 1] + rounded[k])
        <2>1. IsSum(t, rounded, S, "float32", n)
            BY ONLY n \in Nat, Len(rounded) = n, <1>1, t = SumOver(rounded, S, "float32"), SumTerms
        <2> QED BY <2>1 DEF IsSum, SumSteps
    <1> DEFINE Close(m) == CloseSums(f[m], g[m], TrueUpTo(mask, m))
               T == {m \in Nat : m <= n => Close(m)}
    <1>4. 0 \in T
        <2>1. Single(0) = 0
            <3>1. PICK u \in Nat \ {0} : u = Ulp(0)
                BY SingleIsRounded
            <3>2. PICK z \in Int : z = 0
                OBVIOUS
            <3>3. u * z = z
                BY <3>2
            <3>4. Rounded(z, u) \in Int
                BY <3>2, RoundedNear
            <3>5. z <= Rounded(z, u) /\ Rounded(z, u) <= z
                <4>1. z <= u * z /\ u * z <= z
                    BY <3>2, <3>3
                <4>2. u * z <= Rounded(z, u) /\ Rounded(z, u) <= u * z
                    BY ONLY z \in Int, u \in Nat \ {0}, <4>1, RoundedKeepsSides
                <4> QED BY <3>3, <4>2
            <3>6. Single(z) = Rounded(z, u)
                BY <3>1, <3>2, SingleIsRounded
            <3> QED BY <3>2, <3>4, <3>5, <3>6
        <2>2. TrueUpTo(mask, 0) = 0
            <3>1. {k \in 1..0 : mask[k]} = {}
                OBVIOUS
            <3> QED BY <3>1, FS_EmptySet DEF TrueUpTo
        <2>3. PICK u \in Int : u = Ulp(0) + Ulp(One)
            BY SingleIsRounded, FormatAssumption
        <2>4. 0 * u = 0
            OBVIOUS
        <2> QED BY <1>2, <1>3, <2>1, <2>2, <2>3, <2>4 DEF CloseSums
    <1>5. ASSUME NEW m \in Nat, m \in T PROVE m + 1 \in T
        <2> SUFFICES ASSUME m + 1 <= n PROVE Close(m + 1)
            OBVIOUS
        <2>1. Close(m)
            BY <1>5
        <2>2. m + 1 \in 1..n /\ (m + 1) - 1 = m
            OBVIOUS
        <2>3. m + 1 \in S <=> mask[m + 1]
            BY <2>2
        <2>4. PICK c \in Nat : c = TrueUpTo(mask, m)
            BY TrueUpToStep
        <2>5. TrueUpTo(mask, m + 1) = IF mask[m + 1] THEN c + 1 ELSE c
            BY <2>4, TrueUpToStep
        <2>6. CASE ~mask[m + 1]
            <3>1. f[m + 1] = f[m] /\ g[m + 1] = g[m] /\ TrueUpTo(mask, m + 1) = TrueUpTo(mask, m)
                BY <1>2, <1>3, <2>2, <2>3, <2>4, <2>5, <2>6
            <3> QED BY <2>1, <3>1
        <2>7. CASE mask[m + 1]
            <3>1. PICK a \in 0..One : a = array[m + 1]
                BY <2>2
            <3>2. rounded[m + 1] = Single(a)
                BY <2>2, <3>1
            <3>3. f[m + 1] = f[m] + a /\ g[m + 1] = Single(g[m] + Single(a))
                BY <1>2, <1>3, <2>2, <2>3, <2>7, <3>1, <3>2
            <3>4. TrueUpTo(mask, m + 1) = c + 1
                BY <2>5, <2>7
            <3>5. CloseSums(f[m], g[m], c)
                BY <2>1, <2>4
            <3>6. CloseSums(f[m] + a, Single(g[m] + Single(a)), c + 1)
                BY <3>5, OneTerm
            <3> QED BY <3>3, <3>4, <3>6
        <2> QED BY <2>6, <2>7
    <1> HIDE DEF T
    <1>6. n \in T
        BY <1>4, <1>5, SetInduction
    <1>7. Close(n)
        BY <1>6 DEF T
    <1>8. TrueUpTo(mask, n) = Cardinality(S)
        BY DEF TrueUpTo
    <1> QED BY <1>2, <1>3, <1>7, <1>8 DEF CloseSums

\* Distances add up: of a rounded mean x of y, y of a sum t, t of the sum s,
\* and s of its own rounded mean z.
LEMMA DistancesAdd ==
    ASSUME NEW c \in Nat \ {0}, NEW x \in Int, NEW y \in Int, NEW z \in Int, NEW s \in Int, NEW t \in Int,
           NEW D \in Int, NEW W \in Int, NEW U \in Int, NEW V \in Int, W <= U
    PROVE  /\ (/\ 2 * (x - y) <= D /\ 2 * (c * y - t) <= c * W
               /\ 2 * (t - s) <= c * (U + V) /\ 2 * (s - c * z) <= c * D)
                  => 2 * (x - z) <= 2 * D + 2 * U + V
           /\ (/\ 2 * (y - x) <= D /\ 2 * (t - c * y) <= c * W
               /\ 2 * (s - t) <= c * (U + V) /\ 2 * (c * z - s) <= c * D)
                  => 2 * (z - x) <= 2 * D + 2 * U + V
    <1>1. PICK X \in Int, Y \in Int, Z \in Int : X = c * x /\ Y = c * y /\ Z = c * z
        OBVIOUS
    <1>2. PICK E \in Int, P \in Int, Q \in Int, R \in Int :
             E = c * D /\ P = c * W /\ Q = c * U /\ R = c * V
        OBVIOUS
    <1>3. P <= Q
        BY <1>2, TimesMonotone
    <1>4. c * (U + V) = Q + R
        BY <1>2
    <1>5. c * (2 * D + 2 * U + V) = 2 * E + 2 * Q + R
        BY <1>2
    <1>6. /\ c * (2 * (x - z)) = 2 * X - 2 * Z /\ c * (2 * (z - x)) = 2 * Z - 2 * X
          /\ c * (2 * (x - y)) = 2 * X - 2 * Y /\ c * (2 * (y - x)) = 2 * Y - 2 * X
        BY <1>1
    <1>7. ASSUME 2 * (x - y) <= D, 2 * (c * y - t) <= c * W,
                 2 * (t - s) <= c * (U + V), 2 * (s - c * z) <= c * D
          PROVE  2 * (x - z) <= 2 * D + 2 * U + V
        <2>1. c * (2 * (x - y)) <= c * D
            BY <1>7, TimesMonotone
        <2>2. 2 * X - 2 * Y <= E /\ 2 * Y - 2 * t <= P /\ 2 * t - 2 * s <= Q + R /\ 2 * s - 2 * Z <= E
            BY <1>1, <1>2, <1>4, <1>6, <1>7, <2>1
        <2>3. 2 * X - 2 * Z <= 2 * E + 2 * Q + R
            BY <1>3, <2>2
        <2>4. c * (2 * (x - z)) <= c * (2 * D + 2 * U + V)
            BY <1>5, <1>6, <2>3
        <2> QED BY <2>4, TimesCancel
    <1>8. ASSUME 2 * (y - x) <= D, 2 * (t - c * y) <= c * W,
                 2 * (s - t) <= c * (U + V), 2 * (c * z - s) <= c * D
          PROVE  2 * (z - x) <= 2 * D + 2 * U + V
        <2>1. c * (2 * (y - x)) <= c * D
            BY <1>8, TimesMonotone
        <2>2. 2 * Y - 2 * X <= E /\ 2 * t - 2 * Y <= P /\ 2 * s - 2 * t <= Q + R /\ 2 * Z - 2 * s <= E
            BY <1>1, <1>2, <1>4, <1>6, <1>8, <2>1
        <2>3. 2 * Z - 2 * X <= 2 * E + 2 * Q + R
            BY <1>3, <2>2
        <2>4. c * (2 * (z - x)) <= c * (2 * D + 2 * U + V)
            BY <1>5, <1>6, <2>3
        <2> QED BY <2>4, TimesCancel
    <1> QED BY <1>7, <1>8

\* Twice the difference of two means is bounded by the spacings about them.
WithinBound(seen, known, sum) ==
    /\ 2 * (seen - known) <= 2 * Digit + 2 * Ulp(sum) + Ulp(One)
    /\ 2 * (known - seen) <= 2 * Digit + 2 * Ulp(sum) + Ulp(One)

\* The mean of float32 confidences is close to that of the exact ones.
LEMMA MeansApart ==
    ASSUME NEW n \in Nat, NEW mask \in [1..n -> BOOLEAN], NEW S, S = {k \in 1..n : mask[k]},
           NEW array \in [1..n -> 0..One], NEW rounded, rounded = [k \in 1..n |-> Single(array[k])]
    PROVE  WithinBound(SingleMean(rounded, S), Mean(array, S), SumOver(rounded, S, "float32"))
    <1>1. PICK s, t : s = SumOver(array, S, "float64") /\ t = SumOver(rounded, S, "float32")
        OBVIOUS
    <1>2. PICK c : c = Cardinality(S)
        OBVIOUS
    <1>3. /\ s \in Nat /\ t \in Nat
          /\ 2 * (t - s) <= c * (Ulp(t) + Ulp(One))
          /\ 2 * (s - t) <= c * (Ulp(t) + Ulp(One))
        BY <1>1, <1>2, SumsApart
    <1>4. PICK U \in Nat \ {0}, V \in Nat \ {0} : U = Ulp(t) /\ V = Ulp(One)
        BY <1>3, SingleIsRounded, FormatAssumption
    <1>5. Digit \in Nat \ {0}
        BY FormatAssumption
    <1>6. IsFiniteSet(S) /\ c \in Nat /\ (c = 0 <=> S = {})
        <2>1. IsFiniteSet(1..n) /\ S \subseteq 1..n
            BY FS_Interval
        <2>2. IsFiniteSet(S)
            BY <2>1, FS_Subset
        <2> QED BY <1>2, <2>2, FS_CardinalityType, FS_EmptySet
    <1>7. CASE S = {}
        <2>1. SingleMean(rounded, S) = 0 /\ Mean(array, S) = 0
            BY <1>7 DEF SingleMean, Mean
        <2> QED BY <1>1, <1>4, <1>5, <2>1 DEF WithinBound
    <1>8. CASE S # {}
        <2>1. c \in Nat \ {0}
            BY <1>6, <1>8
        <2>2. PICK q \in Nat : q = t \div c /\ q <= t
            <3>1. t \div c \in Nat /\ t \div c <= t
                BY ONLY <1>3, <2>1, NatDivision
            <3> QED BY <3>1
        <2>3. PICK W \in Nat \ {0} : W = Ulp(q) /\ W <= U
            <3>1. Ulp(q) \in Nat \ {0}
                <4>1. q \in Int
                    BY ONLY q \in Nat
                <4> QED BY ONLY <4>1, SingleIsRounded, FormatAssumption
            <3>2. Ulp(q) <= Ulp(t)
                BY ONLY <1>3, <2>2, q \in Nat, UlpInOrder, FormatAssumption
            <3> QED BY ONLY <1>4, <3>1, <3>2
        <2>4. PICK y \in Int : /\ y = Nearest(t, c, W)
                               /\ 2 * (c * y - t) <= c * W /\ 2 * (t - c * y) <= c * W
            <3>1. t \in Int
                BY <1>3
            <3> QED BY ONLY <3>1, <2>1, W \in Nat \ {0}, NearestNear
        <2>5. PICK z \in Int : /\ z = Nearest(s, c, Digit)
                               /\ 2 * (c * z - s) <= c * Digit /\ 2 * (s - c * z) <= c * Digit
            <3>1. s \in Int
                BY <1>3
            <3> QED BY ONLY <3>1, <1>5, <2>1, NearestNear
        <2>6. PICK x \in Int : /\ x = Nearest(y, 1, Digit)
                               /\ 2 * (x - y) <= Digit /\ 2 * (y - x) <= Digit
            <3>1. PICK b \in Nat \ {0} : b = 1
                OBVIOUS
            <3>2. PICK x \in Int : /\ x = Nearest(y, b, Digit)
                                   /\ 2 * (b * x - y) <= b * Digit /\ 2 * (y - b * x) <= b * Digit
                BY ONLY y \in Int, b \in Nat \ {0}, <1>5, NearestNear
            <3>3. b * x = x /\ b * Digit = Digit
                BY <1>5, <3>1
            <3> QED BY <3>1, <3>2, <3>3
        <2>7. SingleMean(rounded, S) = x
            BY <1>1, <1>2, <1>8, <2>2, <2>3, <2>4, <2>6 DEF SingleMean
        <2>8. Mean(array, S) = z
            BY <1>1, <1>2, <1>8, <2>5 DEF Mean
        <2>9. 2 * (t - s) <= c * (U + V) /\ 2 * (s - t) <= c * (U + V)
            BY <1>3, <1>4
        <2>10. 2 * (x - z) <= 2 * Digit + 2 * U + V /\ 2 * (z - x) <= 2 * Digit + 2 * U + V
            <3>1. {s, t, Digit, U, V, W} \subseteq Int /\ W <= U
                BY <1>3, <1>5, <2>3
            <3> QED BY ONLY <2>1, <3>1, x \in Int, y \in Int, z \in Int,
                            <2>4, <2>5, <2>6, <2>9, DistancesAdd
        <2> QED BY <1>1, <1>4, <2>7, <2>8, <2>10 DEF WithinBound
    <1> QED BY <1>7, <1>8

\* Shares are in the order of their counts.
LEMMA ShareInOrder ==
    ASSUME NEW a \in Int, NEW b \in Int, a <= b, NEW n \in Nat
    PROVE  Share(a, n) \in Int /\ Share(a, n) <= Share(b, n)
    <1>1. One \in Nat \ {0} /\ Digit \in Nat \ {0}
        BY FormatAssumption
    <1>2. PICK p \in Int, q \in Int : p = One * a /\ q = One * b
        BY <1>1
    <1>3. p <= q
        BY <1>1, <1>2, TimesMonotone
    <1>4. CASE n = 0
        BY <1>4 DEF Share
    <1>5. CASE n # 0
        <2>1. n \in Nat \ {0}
            BY <1>5
        <2>2. Nearest(p, n, Digit) \in Int /\ Nearest(p, n, Digit) <= Nearest(q, n, Digit)
            BY ONLY p \in Int, q \in Int, <1>1, <1>3, <2>1, NearestInOrder, NearestNear
        <2> QED BY <1>2, <1>5, <2>2 DEF Share
    <1> QED BY <1>4, <1>5

\* The least share is that of the least count.
LEMMA LeastShare ==
    ASSUME NEW n \in Nat, NEW C, C \subseteq Nat, C # {}
    PROVE  Min({Share(c, n) : c \in C}) = Share(Min(C), n)
    <1>1. PICK m \in C : \A c \in C : m <= c
        <2>1. PICK bottom \in Int : \A c \in C : bottom <= c
            <3>1. \A c \in C : 0 <= c
                OBVIOUS
            <3> QED BY <3>1
        <2>2. C \subseteq Int
            OBVIOUS
        <2> QED BY ONLY C # {}, <2>1, <2>2, LeastBounded
    <1>2. Min(C) = m
        <2>1. C \subseteq Int
            OBVIOUS
        <2> QED BY ONLY m \in C, <1>1, <2>1, LeastIsMin
    <1> DEFINE shares == {Share(c, n) : c \in C}
    <1>3. \A c \in C : Share(c, n) \in Int /\ Share(m, n) <= Share(c, n)
        BY <1>1, ShareInOrder
    <1>4. shares \subseteq Int /\ Share(m, n) \in shares /\ \A y \in shares : Share(m, n) <= y
        BY <1>3
    <1> HIDE DEF shares
    <1>5. Min(shares) = Share(m, n)
        BY <1>4, LeastIsMin
    <1> QED BY <1>2, <1>5 DEF shares

LEMMA SilverMask ==
    ASSUME table \in Tables, UniqueNames, NEW n \in Streams
    PROVE  /\ SeenFrames(SilverFile, Name(n)) = ValidFrames(n)
           /\ {k \in 1..Len(table.grid) : SilverFile.columns[Name(n) \o <<"valid">>][k]}
                  = ValidFrames(n)
           /\ SilverFile.columns[Name(n) \o <<"confidence">>] = Stored(n)
           /\ SilverFile.streams[Name(n)] = n
    <1>1. Frames = 1..Len(table.grid) /\ Frames = DOMAIN table.grid
        BY TableFacts DEF Frames
    <1>2. /\ SilverFile.times = table.grid
          /\ SilverFile.columns[Name(n) \o <<"valid">>] = Valid(n)
          /\ SilverFile.columns[Name(n) \o <<"confidence">>] = Stored(n)
          /\ SilverFile.streams[Name(n)] = n
        BY SilverColumns
    <1>3. SeenFrames(SilverFile, Name(n)) = {k \in Frames : Valid(n)[k]}
        BY <1>1, <1>2 DEF SeenFrames
    <1>4. {k \in 1..Len(table.grid) : SilverFile.columns[Name(n) \o <<"valid">>][k]}
              = {k \in Frames : Valid(n)[k]}
        BY <1>1, <1>2
    <1> QED BY <1>2, <1>3, <1>4 DEF ValidFrames

\* What a reader is told of the stream, and what the engine says of it.
SeenSummary(n) ==
    [device |-> table.streams[n].device,
     coverage |-> Share(Cardinality(ValidFrames(n)), Len(table.grid)),
     confidence |-> SingleMean(Stored(n), ValidFrames(n))]

KnownSummary(n) ==
    [device |-> table.streams[n].device,
     coverage |-> Share(Cardinality(ValidFrames(n)), Len(table.grid)),
     confidence |-> Mean(Conf(n), ValidFrames(n))]

\* The summary of Silver, stream by stream.
LEMMA ReadSummary ==
    ASSUME table \in Tables, UniqueNames
    PROVE  LET read == SummaryOfSilver(SilverFile)
           IN  /\ read.n_grid = Len(table.grid)
               /\ DOMAIN read.streams = {Name(n) : n \in Streams}
               /\ \A n \in Streams : read.streams[Name(n)] = SeenSummary(n)
               /\ read.coverage_min =
                      IF Streams = {} THEN One
                      ELSE Min({SeenSummary(n).coverage : n \in Streams})
    <1> DEFINE N == Len(table.grid)
               confidence(name) == SilverFile.columns[name \o <<"confidence">>]
               valid(name) == {k \in 1..N : SilverFile.columns[name \o <<"valid">>][k]}
               read == [name \in DOMAIN SilverFile.streams |->
                          [device |-> table.streams[SilverFile.streams[name]].device,
                           coverage |-> Share(Cardinality(valid(name)), N),
                           confidence |-> SingleMean(confidence(name),
                                                     SeenFrames(SilverFile, name))]]
    <1>1. SilverFile.times = table.grid
        BY DEF SilverFile
    <1>2. SummaryOfSilver(SilverFile) =
             [n_grid |-> N, streams |-> read,
              coverage_min |-> IF DOMAIN read = {} THEN One
                               ELSE Min({read[c].coverage : c \in DOMAIN read})]
        BY <1>1 DEF SummaryOfSilver
    <1>3. DOMAIN SilverFile.streams = {Name(n) : n \in Streams}
        <2>1. SilverFile.streams = Filled([n \in Streams |-> Entry(Name(n), n)])
            BY DEF SilverFile
        <2> QED BY <2>1 DEF Filled, Entry
    <1>4. \A n \in Streams : read[Name(n)] = SeenSummary(n)
        BY <1>3, SilverMask DEF SeenSummary
    <1>5. DOMAIN read = {Name(n) : n \in Streams}
        BY <1>3
    <1> HIDE DEF read, N
    <1>6. {read[c].coverage : c \in DOMAIN read} = {SeenSummary(n).coverage : n \in Streams}
        <2>1. {read[c].coverage : c \in DOMAIN read} = {read[Name(n)].coverage : n \in Streams}
            BY <1>5
        <2>2. \A n \in Streams : read[Name(n)].coverage = SeenSummary(n).coverage
            BY <1>4
        <2> QED BY <2>1, <2>2
    <1>7. DOMAIN read = {} <=> Streams = {}
        BY <1>5
    <1>8. SummaryOfSilver(SilverFile).coverage_min =
              IF Streams = {} THEN One ELSE Min({SeenSummary(n).coverage : n \in Streams})
        <2>1. PICK least : least = Min({read[c].coverage : c \in DOMAIN read})
            OBVIOUS
        <2>2. least = Min({SeenSummary(n).coverage : n \in Streams})
            BY <1>6, <2>1, Zenon
        <2>3. SummaryOfSilver(SilverFile) =
                 [n_grid |-> N, streams |-> read,
                  coverage_min |-> IF DOMAIN read = {} THEN One ELSE least]
            BY <1>2, <2>1, Zenon
        <2> QED BY ONLY <1>7, <2>2, <2>3
    <1>9. SummaryOfSilver(SilverFile).n_grid = N /\ SummaryOfSilver(SilverFile).streams = read
        BY <1>2
    <1> QED BY <1>4, <1>5, <1>8, <1>9 DEF N

\* The summary of the table, stream by stream.
LEMMA ToldSummary ==
    ASSUME table \in Tables, UniqueNames
    PROVE  LET told == SummaryOfTable
           IN  /\ told.n_grid = Len(table.grid)
               /\ DOMAIN told.streams = {Name(n) : n \in Streams}
               /\ \A n \in Streams : told.streams[Name(n)] = KnownSummary(n)
               /\ told.coverage_min =
                      IF Streams = {} THEN One
                      ELSE Min({SeenSummary(n).coverage : n \in Streams})
    <1>1. PICK entries : entries = [n \in Streams |-> Entry(Name(n), KnownSummary(n))]
        OBVIOUS
    <1>2. PICK C : C = {Cardinality(ValidFrames(n)) : n \in Streams}
        OBVIOUS
    <1>3. SummaryOfTable =
             [n_grid |-> Len(table.grid), streams |-> Filled(entries),
              coverage_min |-> IF Streams = {} THEN One ELSE Share(Min(C), Len(table.grid))]
        BY <1>1, <1>2 DEF SummaryOfTable, KnownSummary
    <1>4. \A n \in Streams : /\ DOMAIN entries[n] = {Name(n)}
                             /\ entries[n][Name(n)] = KnownSummary(n)
        BY <1>1 DEF Entry
    <1>5. DOMAIN Filled(entries) = {Name(n) : n \in Streams}
        <2>1. DOMAIN Filled(entries) = UNION {DOMAIN entries[n] : n \in Streams}
            BY DEF Filled
        <2> QED BY <1>4, <2>1
    <1>6. ASSUME NEW n \in Streams PROVE Filled(entries)[Name(n)] = KnownSummary(n)
        <2>1. Streams \subseteq Int
            BY TableFacts
        <2>2. /\ Name(n) \in DOMAIN entries[n]
              /\ \A m \in Streams : Name(n) \in DOMAIN entries[m] => m = n
            BY <1>4 DEF UniqueNames
        <2> QED BY <1>4, <2>1, <2>2, FilledAt
    <1>7. ASSUME Streams # {}
          PROVE  Share(Min(C), Len(table.grid)) = Min({SeenSummary(n).coverage : n \in Streams})
        <2>1. PICK N \in Nat : N = Len(table.grid) /\ Frames = 1..N
            BY TableFacts
        <2>2. C \subseteq Nat /\ C # {}
            <3>1. ASSUME NEW n \in Streams PROVE Cardinality(ValidFrames(n)) \in Nat
                <4>1. IsFiniteSet(1..N) /\ ValidFrames(n) \subseteq 1..N
                    BY <2>1, FS_Interval DEF ValidFrames
                <4> QED BY <4>1, FS_Subset, FS_CardinalityType
            <3> QED BY <1>2, <1>7, <3>1
        <2>3. Min({Share(c, N) : c \in C}) = Share(Min(C), N)
            BY <2>2, LeastShare
        <2>4. {Share(c, N) : c \in C} = {SeenSummary(n).coverage : n \in Streams}
            <3>1. \A n \in Streams : SeenSummary(n).coverage = Share(Cardinality(ValidFrames(n)), N)
                BY <2>1 DEF SeenSummary
            <3> QED BY <1>2, <3>1
        <2> QED BY <2>1, <2>3, <2>4
    <1> QED BY <1>3, <1>5, <1>6, <1>7

\* What a reader computes from Silver is what the engine says of its table:
\* the coverage exactly, and the confidence, of which one is a mean of float64
\* and the other of float32 numbers, to the rounding of both, for every number
\* and order of frames, for every table whose streams have names of their own
\* (summarize_dataset, summarize_canonical).
THEOREM InspectionMatches == Spec => []InspectionMatchesTheTable
    <1>1. FilesInv => InspectionMatchesTheTable
        <2> SUFFICES ASSUME FilesInv, pc # "silver", UniqueNames PROVE InspectionMatchesTheTable
            BY DEF InspectionMatchesTheTable
        <2>1. table \in Tables /\ files[<<"silver">>] = SilverFile
            BY DEF FilesInv, FilesHold, Holds
        <2>2. PICK read, told : read = SummaryOfSilver(SilverFile) /\ told = SummaryOfTable
            OBVIOUS
        <2>3. /\ read.n_grid = Len(table.grid)
              /\ DOMAIN read.streams = {Name(n) : n \in Streams}
              /\ \A n \in Streams : read.streams[Name(n)] = SeenSummary(n)
              /\ read.coverage_min = IF Streams = {} THEN One
                                     ELSE Min({SeenSummary(n).coverage : n \in Streams})
            BY <2>1, <2>2, ReadSummary
        <2>4. /\ told.n_grid = Len(table.grid)
              /\ DOMAIN told.streams = {Name(n) : n \in Streams}
              /\ \A n \in Streams : told.streams[Name(n)] = KnownSummary(n)
              /\ told.coverage_min = IF Streams = {} THEN One
                                     ELSE Min({SeenSummary(n).coverage : n \in Streams})
            BY <2>1, <2>2, ToldSummary
        <2>5. ASSUME NEW n \in Streams
              PROVE  /\ SeenSummary(n).device = KnownSummary(n).device
                     /\ SeenSummary(n).coverage = KnownSummary(n).coverage
                     /\ WithinBound(SeenSummary(n).confidence, KnownSummary(n).confidence,
                                    SumOver(Stored(n), ValidFrames(n), "float32"))
            <3>1. PICK N \in Nat : N = Len(table.grid) /\ Frames = 1..N
                BY <2>1, TableFacts
            <3>2. Valid(n) \in [1..N -> BOOLEAN] /\ Conf(n) \in [1..N -> 0..One]
                BY <2>1, <3>1, TableFacts
            <3>3. Stored(n) = [k \in 1..N |-> Single(Conf(n)[k])]
                BY <3>1 DEF Stored
            <3>4. ValidFrames(n) = {k \in 1..N : Valid(n)[k]}
                BY <3>1 DEF ValidFrames
            <3>5. PICK mask, array, rounded, S :
                     mask = Valid(n) /\ array = Conf(n) /\ rounded = Stored(n) /\ S = ValidFrames(n)
                OBVIOUS
            <3>6. /\ mask \in [1..N -> BOOLEAN] /\ array \in [1..N -> 0..One]
                  /\ S = {k \in 1..N : mask[k]} /\ rounded = [k \in 1..N |-> Single(array[k])]
                BY <3>2, <3>3, <3>4, <3>5
            <3>7. WithinBound(SingleMean(rounded, S), Mean(array, S), SumOver(rounded, S, "float32"))
                BY ONLY N \in Nat, <3>6, MeansApart
            <3> QED BY <3>5, <3>7 DEF SeenSummary, KnownSummary
        <2>6. /\ read.n_grid = told.n_grid
              /\ read.coverage_min = told.coverage_min
              /\ DOMAIN read.streams = DOMAIN told.streams
            BY <2>3, <2>4
        <2>7. ASSUME NEW n \in Streams
              PROVE  LET seen == read.streams[Name(n)]
                         known == told.streams[Name(n)]
                     IN  /\ seen.device = known.device
                         /\ seen.coverage = known.coverage
                         /\ WithinBound(seen.confidence, known.confidence,
                                        SumOver(Stored(n), ValidFrames(n), "float32"))
            BY <2>3, <2>4, <2>5
        <2> QED BY <2>1, <2>2, <2>6, <2>7 DEF InspectionMatchesTheTable, WithinBound
    <1> QED BY <1>1, FilesInvariant, PTL

----------------------------------------------------------------------------
(* Derived: the payload rows of a descriptor's magnetic sensors.           *)

Magnets(desc) == [j \in DOMAIN desc.sensors |-> desc.sensors[j].magnetic]

LEMMA DescriptorFacts ==
    ASSUME NEW desc, IsDescriptor(desc)
    PROVE  /\ Len(desc.sensors) \in Nat /\ DOMAIN desc.sensors = 1..Len(desc.sensors)
           /\ \A j \in 1..Len(desc.sensors) : desc.sensors[j].id \in STRING
           /\ \A i, j \in 1..Len(desc.sensors) : desc.sensors[i].id = desc.sensors[j].id => i = j
           /\ Magnets(desc) \in [1..Len(desc.sensors) -> BOOLEAN]
           /\ Len(Magnets(desc)) = Len(desc.sensors)
           /\ \A j \in 1..Len(desc.sensors) : Magnets(desc)[j] = desc.sensors[j].magnetic
    <1> DEFINE S == desc.sensors
               R == [id : STRING, magnetic : BOOLEAN]
    <1>1. S \in Seq(R) /\ \A i, j \in DOMAIN S : S[i].id = S[j].id => i = j
        BY DEF IsDescriptor
    <1> HIDE DEF R
    <1>2. Len(S) \in Nat /\ DOMAIN S = 1..Len(S) /\ \A j \in DOMAIN S : S[j] \in R
        BY <1>1
    <1>3. \A j \in DOMAIN S : S[j].id \in STRING /\ S[j].magnetic \in BOOLEAN
        BY <1>2 DEF R
    <1>4. Magnets(desc) = [j \in 1..Len(S) |-> S[j].magnetic]
        BY <1>2 DEF Magnets
    <1> HIDE DEF S
    <1>5. Magnets(desc) \in [1..Len(S) -> BOOLEAN]
        BY <1>2, <1>3, <1>4
    <1>6. DOMAIN Magnets(desc) = 1..Len(S) /\ Magnets(desc) \in Seq(BOOLEAN)
        BY <1>2, <1>5
    <1>7. Len(Magnets(desc)) = Len(S)
        BY <1>2, <1>6
    <1> QED BY <1>1, <1>2, <1>3, <1>4, <1>5, <1>7 DEF S

\* There are as many magnetic sensors as ids of them.
LEMMA SensorsCounted ==
    ASSUME NEW desc, IsDescriptor(desc)
    PROVE  TrueUpTo(Magnets(desc), Len(desc.sensors)) = Cardinality(MagneticIds(desc))
    <1> DEFINE N == Len(desc.sensors)
               P == {j \in 1..N : Magnets(desc)[j]}
               I == MagneticIds(desc)
               f == [j \in P |-> desc.sensors[j].id]
    <1>1. /\ N \in Nat
          /\ P = {j \in DOMAIN desc.sensors : desc.sensors[j].magnetic}
          /\ \A i, j \in P : desc.sensors[i].id = desc.sensors[j].id => i = j
        BY DescriptorFacts
    <1>2. IsFiniteSet(P)
        <2>1. IsFiniteSet(1..N)
            BY <1>1, FS_Interval
        <2> QED BY <2>1, FS_Subset
    <1>3. I = {desc.sensors[j].id : j \in P}
        BY <1>1 DEF MagneticIds
    <1> HIDE DEF P, I
    <1>4. f \in Surjection(P, I) /\ f \in Injection(P, I)
        BY <1>1, <1>3 DEF Surjection, Injection, IsInjective
    <1>5. Cardinality(I) = Cardinality(P)
        BY <1>2, <1>4, FS_Surjection
    <1> QED BY <1>5 DEF P, I, TrueUpTo

\* The payload row of a magnetic sensor holds the samples of that sensor, and
\* of no other one.
LEMMA RowIsOfItsSensor ==
    ASSUME NEW desc, IsDescriptor(desc), Cardinality(MagneticIds(desc)) \in DOMAIN Channel,
           NEW id \in MagneticIds(desc)
    PROVE  /\ \E i \in 1..Cardinality(MagneticIds(desc)) : RowOf(desc, id) = Channel[i]
           /\ SensorOf(desc, RowOf(desc, id)) = {id}
           /\ \A x : id \in SensorOf(desc, x) => x = RowOf(desc, id)
    <1> DEFINE S == desc.sensors
               N == Len(S)
               mask == Magnets(desc)
               rows == Indices(mask)
               rank(j) == TrueUpTo(mask, j)
    <1>1. /\ N \in Nat /\ DOMAIN S = 1..N /\ mask \in [1..N -> BOOLEAN] /\ Len(mask) = N
          /\ \A i, j \in 1..N : S[i].id = S[j].id => i = j
          /\ \A j \in 1..N : mask[j] = S[j].magnetic
        BY DescriptorFacts
    <1> HIDE DEF mask
    <1>2. /\ rows \in Seq(1..N) /\ Len(rows) = rank(N)
          /\ \A i \in DOMAIN rows : mask[rows[i]] /\ rank(rows[i]) = i
          /\ \A k \in 1..N : mask[k] => rank(k) \in DOMAIN rows /\ rows[rank(k)] = k
        BY <1>1, IndicesOfMask
    <1>3. rank(N) \in DOMAIN Channel /\ rank(N) = Cardinality(MagneticIds(desc))
        BY SensorsCounted DEF mask
    <1> HIDE DEF rank
    <1>4. DOMAIN rows = 1..Len(rows) /\ \A i \in DOMAIN rows : rows[i] \in 1..N
        BY <1>2
    <1>5. DOMAIN rows \subseteq DOMAIN Channel
        <2>1. Channel \in Seq(STRING \ {"valid", "confidence"})
            BY FormatAssumption
        <2>2. DOMAIN Channel = 1..Len(Channel) /\ Len(Channel) \in Nat
            BY <2>1
        <2> QED BY <1>2, <1>3, <1>4, <2>2
    <1>6. PICK j \in 1..N : S[j].id = id /\ mask[j]
        BY <1>1 DEF MagneticIds
    <1>7. MagneticSensors(desc) = [i \in DOMAIN rows |-> S[rows[i]]]
        BY DEF MagneticSensors, Magnets, mask
    <1> HIDE DEF rows, S
    <1>8. rank(j) \in DOMAIN MagneticSensors(desc) /\ MagneticSensors(desc)[rank(j)].id = id
        BY <1>2, <1>6, <1>7
    <1>9. ASSUME NEW i \in DOMAIN MagneticSensors(desc), MagneticSensors(desc)[i].id = id
          PROVE  i = rank(j)
        <2>1. i \in DOMAIN rows /\ S[rows[i]].id = id
            BY <1>7, <1>9
        <2>2. rows[i] = j
            BY <1>1, <1>4, <1>6, <2>1
        <2> QED BY <1>2, <2>1, <2>2
    <1>10. RowOf(desc, id) = Channel[rank(j)]
        <2>1. (CHOOSE i \in DOMAIN MagneticSensors(desc) : MagneticSensors(desc)[i].id = id) = rank(j)
            BY <1>8, <1>9
        <2> QED BY <2>1 DEF RowOf
    <1>11. rank(j) \in DOMAIN Channel
        BY <1>2, <1>5, <1>6
    <1>12. \E i \in 1..Cardinality(MagneticIds(desc)) : RowOf(desc, id) = Channel[i]
        BY <1>2, <1>3, <1>4, <1>6, <1>10
    <1>13. \A g \in 1..N : Cardinality({i \in 1..g : S[i].magnetic}) = rank(g)
        <2> SUFFICES ASSUME NEW g \in 1..N
                     PROVE  {i \in 1..g : S[i].magnetic} = {i \in 1..g : mask[i]}
            BY DEF rank, TrueUpTo
        <2> QED BY <1>1
    <1>14. id \in SensorOf(desc, RowOf(desc, id))
        <2>1. j \in DOMAIN S /\ RowOf(desc, id) = Channel[Cardinality({i \in 1..j : S[i].magnetic})]
            BY <1>1, <1>6, <1>10, <1>13
        <2> QED BY <2>1, <1>6 DEF SensorOf, S
    <1>15. ASSUME NEW other \in SensorOf(desc, RowOf(desc, id)) PROVE other = id
        <2>1. /\ other \in MagneticIds(desc)
              /\ \E g \in DOMAIN S : /\ S[g].id = other
                                     /\ RowOf(desc, id) = Channel[Cardinality({i \in 1..g : S[i].magnetic})]
            BY DEF SensorOf, S
        <2>2. PICK g \in 1..N : S[g].id = other /\ RowOf(desc, id) = Channel[rank(g)]
            BY <1>1, <1>13, <2>1
        <2>3. mask[g]
            <3>1. PICK h \in DOMAIN S : S[h].id = other /\ S[h].magnetic
                BY <2>1 DEF MagneticIds, S
            <3> QED BY <1>1, <2>2, <3>1
        <2>4. rank(g) \in DOMAIN Channel /\ rows[rank(g)] = g
            BY <1>2, <1>5, <2>3
        <2>5. rank(g) = rank(j)
            BY <1>10, <1>11, <2>2, <2>4, FormatAssumption
        <2> QED BY <1>2, <1>6, <2>2, <2>4, <2>5
    <1>16. ASSUME NEW x, id \in SensorOf(desc, x) PROVE x = RowOf(desc, id)
        <2>1. \E g \in DOMAIN S : /\ S[g].id = id
                                  /\ x = Channel[Cardinality({i \in 1..g : S[i].magnetic})]
            BY <1>16 DEF SensorOf, S
        <2>2. PICK g \in 1..N : S[g].id = id /\ x = Channel[rank(g)]
            BY <1>1, <1>13, <2>1
        <2>3. g = j
            BY <1>1, <1>6, <2>2
        <2> QED BY <1>10, <2>2, <2>3
    <1> QED BY <1>12, <1>14, <1>15, <1>16

LEMMA ClustersOfSensors ==
    ASSUME NEW desc
    PROVE  /\ \A c \in DOMAIN Clusters(desc) :
                 /\ Clusters(desc)[c] = {RowOf(desc, id) : id \in Members(desc, c)}
                 /\ Members(desc, c) \subseteq MagneticIds(desc) /\ Members(desc, c) # {}
           /\ UNION {Members(desc, c) : c \in DOMAIN Clusters(desc)}
                  = IF Grouped(desc) = {} THEN MagneticIds(desc) ELSE Grouped(desc)
    <1> DEFINE G == {c \in DOMAIN desc.clusters : MagneticOf(desc, c) # {}}
    <1>1. Clusters(desc) =
             IF G # {} THEN [c \in G |-> {RowOf(desc, id) : id \in MagneticOf(desc, c)}]
             ELSE [id \in MagneticIds(desc) |-> {RowOf(desc, id)}]
        BY DEF Clusters, MagneticOf
    <1>2. G = {} <=> Grouped(desc) = {}
        BY DEF Grouped
    <1>3. CASE G = {}
        <2>1. Clusters(desc) = [id \in MagneticIds(desc) |-> {RowOf(desc, id)}]
            BY <1>1, <1>3
        <2>2. \A c : Members(desc, c) = {c}
            BY <1>2, <1>3 DEF Members
        <2> QED BY <1>2, <1>3, <2>1, <2>2
    <1>4. CASE G # {}
        <2>1. Clusters(desc) = [c \in G |-> {RowOf(desc, id) : id \in MagneticOf(desc, c)}]
            BY <1>1, <1>4
        <2>2. \A c : Members(desc, c) = MagneticOf(desc, c)
            BY <1>2, <1>4 DEF Members
        <2>3. UNION {MagneticOf(desc, c) : c \in G} = Grouped(desc)
            BY DEF Grouped
        <2> QED BY <1>2, <1>4, <2>1, <2>2, <2>3 DEF MagneticOf
    <1> QED BY <1>3, <1>4

\* Some numbers have a bound below and one above.
Between(low, high, v, S) == \A k \in S : low <= v[k] /\ v[k] <= high

LEMMA Bounds ==
    ASSUME NEW n \in Nat, NEW F, F \subseteq 1..n, NEW v, \A k \in F : v[k] \in Int
    PROVE  \E low \in Int, high \in Int : Between(low, high, v, F)
    <1> DEFINE upTo(m) == {k \in F : k <= m}
               T == {m \in Nat : \E low \in Int, high \in Int : Between(low, high, v, upTo(m))}
    <1>0. \A k \in F : k \in Nat /\ 1 <= k /\ k <= n
        OBVIOUS
    <1>1. 0 \in T
        <2>1. upTo(0) = {}
            <3>1. \A k \in F : ~(k <= 0)
                BY <1>0
            <3> QED BY <3>1
        <2>2. Between(0, 0, v, upTo(0))
            BY <2>1 DEF Between
        <2>3. 0 \in Int /\ 0 \in Nat
            OBVIOUS
        <2> HIDE DEF upTo
        <2> QED BY <2>2, <2>3
    <1>2. ASSUME NEW m \in Nat, m \in T PROVE m + 1 \in T
        <2>1. PICK low \in Int, high \in Int : Between(low, high, v, upTo(m))
            BY <1>2
        <2>2. \A k \in F : k <= m + 1 => k <= m \/ k = m + 1
            OBVIOUS
        <2>3. CASE m + 1 \in F
            <3>1. PICK x \in Int : x = v[m + 1]
                BY <2>3
            <3>2. PICK low2 \in Int : low2 <= low /\ low2 <= x
                <4>1. low <= x \/ x <= low
                    OBVIOUS
                <4> QED BY <4>1
            <3>3. PICK high2 \in Int : high <= high2 /\ x <= high2
                <4>1. high <= x \/ x <= high
                    OBVIOUS
                <4> QED BY <4>1
            <3>4. Between(low2, high2, v, upTo(m + 1))
                BY <2>1, <2>2, <3>1, <3>2, <3>3 DEF Between
            <3> HIDE DEF upTo
            <3> QED BY <3>4
        <2>4. CASE m + 1 \notin F
            <3>1. \A k \in F : k <= m + 1 <=> k <= m
                BY <1>0, <2>4
            <3>2. upTo(m + 1) = upTo(m)
                BY <3>1
            <3> HIDE DEF upTo
            <3> QED BY <2>1, <3>2
        <2> QED BY <2>3, <2>4
    <1>3. n \in T
        <2> HIDE DEF T
        <2> QED BY <1>1, <1>2, SetInduction
    <1>4. upTo(n) = F
        BY <1>0
    <1> HIDE DEF upTo
    <1> QED BY <1>3, <1>4

\* The middle values from below and from above.
LowerHalf(v) ==
    {v[k] : k \in {k \in DOMAIN v :
        2 * Cardinality({g \in DOMAIN v : v[g] <= v[k]}) >= Cardinality(DOMAIN v)}}

UpperHalf(v) ==
    {v[k] : k \in {k \in DOMAIN v :
        2 * Cardinality({g \in DOMAIN v : v[k] <= v[g]}) >= Cardinality(DOMAIN v)}}

\* The median of equal numbers is that number.
LEMMA MedianOfEqual ==
    ASSUME NEW n \in Nat, NEW F, F \subseteq 1..n, NEW v \in [F -> Int], NEW k \in F,
           \A g \in F : v[g] = v[k]
    PROVE  Min(LowerHalf(v)) + Max(UpperHalf(v)) = 2 * v[k]
    <1>1. PICK a \in Int : a = v[k] /\ \A g \in F : v[g] = a
        OBVIOUS
    <1>2. Cardinality(F) \in Nat
        <2>1. IsFiniteSet(1..n)
            BY FS_Interval
        <2> QED BY <2>1, FS_Subset, FS_CardinalityType
    <1>3. \A h \in F : {g \in F : v[g] <= v[h]} = F /\ {g \in F : v[h] <= v[g]} = F
        <2>1. a <= a
            OBVIOUS
        <2> QED BY ONLY <1>1, <2>1
    <1>4. DOMAIN v = F /\ 2 * Cardinality(F) >= Cardinality(F)
        BY <1>2
    <1>5. LowerHalf(v) = {a}
        BY <1>1, <1>3, <1>4 DEF LowerHalf
    <1>6. UpperHalf(v) = {a}
        BY <1>1, <1>3, <1>4 DEF UpperHalf
    <1>7. PICK S : S = {a}
        OBVIOUS
    <1>8. S \subseteq Int /\ a \in S /\ \A b \in S : a <= b /\ b <= a
        BY <1>7
    <1>9. Min(S) = a
        BY ONLY <1>8, LeastIsMin
    <1>10. Max(S) = a
        BY ONLY <1>8, GreatestIsMax
    <1> QED BY <1>1, <1>5, <1>6, <1>7, <1>9, <1>10

\* The median of several numbers is below one that is above all the others.
LEMMA MedianBelowPeak ==
    ASSUME NEW n \in Nat, NEW F, F \subseteq 1..n, NEW v \in [F -> Int], NEW k \in F,
           F \ {k} # {}, \A g \in F \ {k} : v[g] < v[k]
    PROVE  Min(LowerHalf(v)) + Max(UpperHalf(v)) < 2 * v[k]
    <1>1. PICK p \in Int : p = v[k]
        OBVIOUS
    <1>2. PICK low \in Int, high \in Int : \A g \in F : low <= v[g] /\ v[g] <= high
        BY Bounds DEF Between
    <1>3. DOMAIN v = F /\ \A g \in F : v[g] \in Int /\ v[g] <= p
        BY <1>1
    <1>4. IsFiniteSet(F) /\ Cardinality(F) \in Nat
        <2>1. IsFiniteSet(1..n)
            BY FS_Interval
        <2> QED BY <2>1, FS_Subset, FS_CardinalityType
    <1>5. LowerHalf(v) \subseteq Int /\ UpperHalf(v) \subseteq Int
        BY <1>3 DEF LowerHalf, UpperHalf
    <1>6. PICK m \in F \ {k} : \A g \in F \ {k} : v[g] <= v[m]
        <2>1. PICK others : others = {v[g] : g \in F \ {k}}
            OBVIOUS
        <2>2. others \subseteq Int /\ others # {} /\ \A y \in others : y <= p
            BY <1>3, <2>1
        <2>3. PICK top \in others : \A y \in others : y <= top
            BY ONLY <2>2, p \in Int, GreatestBounded
        <2>4. PICK m \in F \ {k} : top = v[m]
            BY <2>1
        <2> QED BY <2>1, <2>3, <2>4
    <1>7. v[m] \in LowerHalf(v)
        <2>1. PICK c \in Nat : c = Cardinality(F \ {k}) /\ Cardinality(F) = c + 1
            <3>1. IsFiniteSet(F \ {k}) /\ Cardinality(F \ {k}) \in Nat
                BY <1>4, FS_Subset, FS_CardinalityType
            <3>2. k \notin F \ {k} /\ (F \ {k}) \cup {k} = F
                OBVIOUS
            <3>3. Cardinality((F \ {k}) \cup {k}) = Cardinality(F \ {k}) + 1
                BY <3>1, <3>2, FS_AddElement
            <3> QED BY <3>1, <3>2, <3>3
        <2>2. c # 0
            BY <1>4, <2>1, FS_Subset, FS_EmptySet
        <2>3. {g \in F : v[g] <= v[m]} = F \ {k}
            <3>1. PICK y \in Int : y = v[m] /\ y < p
                BY <1>1, <1>3, <1>6
            <3>2. ~(p <= y)
                BY <3>1
            <3> QED BY ONLY <1>1, <1>6, <3>1, <3>2, k \in F
        <2>4. PICK d : d = Cardinality({g \in F : v[g] <= v[m]})
            OBVIOUS
        <2>5. d = c
            BY <2>1, <2>3, <2>4
        <2>6. 2 * d >= Cardinality(F)
            BY <2>1, <2>2, <2>5
        <2> QED BY <1>3, <2>4, <2>6 DEF LowerHalf
    <1>8. PICK b \in LowerHalf(v) : \A y \in LowerHalf(v) : b <= y
        <2>1. \A y \in LowerHalf(v) : low <= y
            BY <1>2, <1>3 DEF LowerHalf
        <2>2. LowerHalf(v) # {}
            BY <1>7
        <2> QED BY ONLY <1>5, <2>1, <2>2, low \in Int, LeastBounded
    <1>9. Min(LowerHalf(v)) = b /\ b \in Int /\ b < p
        <2>1. Min(LowerHalf(v)) = b
            BY ONLY <1>5, b \in LowerHalf(v), <1>8, LeastIsMin
        <2>2. b <= v[m] /\ b \in Int
            BY <1>5, <1>7, <1>8
        <2>3. v[m] < p /\ v[m] \in Int
            BY <1>1, <1>3, <1>6
        <2> QED BY <2>1, <2>2, <2>3
    <1>10. PICK t \in UpperHalf(v) : \A y \in UpperHalf(v) : y <= t
        <2>1. \A y \in UpperHalf(v) : y <= p
            BY <1>3 DEF UpperHalf
        <2>2. PICK h \in F : \A g \in F : v[h] <= v[g]
            <3>1. PICK all : all = {v[g] : g \in F}
                OBVIOUS
            <3>2. all \subseteq Int /\ all # {} /\ \A y \in all : low <= y
                BY <1>2, <1>3, <3>1
            <3>3. PICK least \in all : \A y \in all : least <= y
                BY ONLY <3>2, low \in Int, LeastBounded
            <3>4. PICK h \in F : least = v[h]
                BY <3>1
            <3> QED BY <3>1, <3>3, <3>4
        <2>3. UpperHalf(v) # {}
            <3>1. {g \in F : v[h] <= v[g]} = F
                BY <2>2
            <3>2. 2 * Cardinality({g \in F : v[h] <= v[g]}) >= Cardinality(F)
                BY <1>4, <3>1
            <3> QED BY <1>3, <3>2 DEF UpperHalf
        <2> QED BY ONLY <1>5, <2>1, <2>3, p \in Int, GreatestBounded
    <1>11. Max(UpperHalf(v)) = t /\ t \in Int /\ t <= p
        <2>1. Max(UpperHalf(v)) = t
            BY ONLY <1>5, t \in UpperHalf(v), <1>10, GreatestIsMax
        <2>2. t \in Int /\ t <= p
            BY <1>3, <1>5 DEF UpperHalf
        <2> QED BY <2>1, <2>2
    <1> QED BY <1>1, <1>9, <1>11

\* A row that never changes does not pull, one above its other numbers does.
LEMMA WhoPulls ==
    ASSUME table \in Tables, NEW n \in Streams, NEW x \in Suffix, NEW k \in Numbered(n, x),
           NEW rows, x \in rows
    PROVE  /\ (\A g \in Numbered(n, x) \ {k} : Number(n, g, x) = Number(n, k, x))
                  => x \notin Pulling(n, rows, k)
           /\ (/\ Numbered(n, x) \ {k} # {}
               /\ \A g \in Numbered(n, x) \ {k} : Number(n, g, x) < Number(n, k, x))
                  => x \in Pulling(n, rows, k)
    <1>1. PICK N \in Nat : Frames = 1..N
        BY TableFacts
    <1>2. PICK F : F = Numbered(n, x)
        OBVIOUS
    <1>3. F \subseteq 1..N /\ k \in F /\ \A g \in F : Number(n, g, x) \in Int
        BY <1>1, <1>2, TableFacts DEF Numbered
    <1>4. PICK v : v = [g \in F |-> Number(n, g, x)]
        OBVIOUS
    <1>5. v \in [F -> Int] /\ DOMAIN v = F /\ \A g \in F : v[g] = Number(n, g, x)
        BY <1>3, <1>4
    <1>6. TwiceMedian(n, x) = Min(LowerHalf(v)) + Max(UpperHalf(v))
        <2>1. LowerHalf(v) = {Number(n, h, x) : h \in {h \in F :
                  2 * Cardinality({g \in F : Number(n, g, x) <= Number(n, h, x)}) >= Cardinality(F)}}
            <3>1. \A h \in F : {g \in F : v[g] <= v[h]} = {g \in F : Number(n, g, x) <= Number(n, h, x)}
                BY <1>5
            <3> QED BY <1>5, <3>1 DEF LowerHalf
        <2>2. UpperHalf(v) = {Number(n, h, x) : h \in {h \in F :
                  2 * Cardinality({g \in F : Number(n, h, x) <= Number(n, g, x)}) >= Cardinality(F)}}
            <3>1. \A h \in F : {g \in F : v[h] <= v[g]} = {g \in F : Number(n, h, x) <= Number(n, g, x)}
                BY <1>5
            <3> QED BY <1>5, <3>1 DEF UpperHalf
        <2> QED BY <1>2, <2>1, <2>2, Zenon DEF TwiceMedian
    <1>7. x \in Pulling(n, rows, k) <=> 2 * v[k] # TwiceMedian(n, x)
        BY <1>3, <1>5 DEF Pulling
    <1>8. ASSUME \A g \in Numbered(n, x) \ {k} : Number(n, g, x) = Number(n, k, x)
          PROVE  x \notin Pulling(n, rows, k)
        <2>1. \A g \in F : v[g] = v[k]
            BY <1>2, <1>3, <1>5, <1>8
        <2>2. Min(LowerHalf(v)) + Max(UpperHalf(v)) = 2 * v[k]
            BY ONLY N \in Nat, <1>3, <1>5, <2>1, MedianOfEqual
        <2> QED BY <1>6, <1>7, <2>2
    <1>9. ASSUME Numbered(n, x) \ {k} # {},
                 \A g \in Numbered(n, x) \ {k} : Number(n, g, x) < Number(n, k, x)
          PROVE  x \in Pulling(n, rows, k)
        <2>1. F \ {k} # {} /\ \A g \in F \ {k} : v[g] < v[k]
            BY <1>2, <1>3, <1>5, <1>9
        <2>2. PICK p \in Int : p = v[k]
            BY <1>3, <1>5
        <2>3. PICK s : s = Min(LowerHalf(v)) + Max(UpperHalf(v))
            OBVIOUS
        <2>4. s < 2 * p
            BY ONLY N \in Nat, <1>3, <1>5, <2>1, <2>2, <2>3, MedianBelowPeak
        <2>5. s # 2 * p
            <3> SUFFICES ASSUME s = 2 * p PROVE FALSE
                OBVIOUS
            <3> QED BY <2>2, <2>4
        <2> QED BY <1>6, <1>7, <2>2, <2>3, <2>5
    <1> QED BY <1>8, <1>9

\* A proxy is made from the rows it is given, and is NaN when one of them is.
LEMMA ProxyOfRows ==
    ASSUME table \in Tables, NEW n \in Streams, NEW k \in Frames,
           NEW rows, rows \subseteq Channels(n)
    PROVE  LET proxy == Proxies(n, rows, k)
           IN  /\ proxy = NaN <=> \E x \in rows : Number(n, k, x) = NaN
               /\ proxy # NaN =>
                    /\ proxy.response = {<<n, k, x>> : x \in rows}
                    /\ \A cell \in proxy.baseline : \E x \in rows, g \in Frames : cell = <<n, g, x>>
                    /\ \A x \in rows : <<n, k, x>> \in proxy.baseline
                    /\ proxy.centroid \ {NaN} = {<<n, k, x>> : x \in Pulling(n, rows, k)}
                    /\ NaN \in proxy.centroid <=> Pulling(n, rows, k) = {}
    <1> DEFINE R == {<<n, k, x>> : x \in rows}
               B == UNION {{Cell(n, g, x) : g \in Numbered(n, x)} : x \in rows}
               P == {<<n, k, x>> : x \in Pulling(n, rows, k)}
               Cells == Nat \X Nat \X STRING
    <1>1. n \in Nat /\ Frames \subseteq Nat
        BY TableFacts
    <1>2. rows \subseteq STRING
        <2>1. Channel \in Seq(STRING \ {"valid", "confidence"})
            BY FormatAssumption
        <2>2. \A j \in DOMAIN Channel : Channel[j] \in STRING
            BY <2>1
        <2>3. table.streams[n].width \in DOMAIN Channel /\ DOMAIN Channel = 1..Len(Channel)
              /\ Len(Channel) \in Nat
            BY <2>1, TableFacts
        <2> QED BY <2>2, <2>3 DEF Channels
    <1>3. CASE \E x \in rows : Number(n, k, x) = NaN
        BY <1>3 DEF Proxies
    <1>4. CASE \A x \in rows : Number(n, k, x) # NaN
        <2>1. {Cell(n, k, x) : x \in rows} = R
            BY <1>4 DEF Cell
        <2>2. {Cell(n, k, x) : x \in Pulling(n, rows, k)} = P
            BY <1>4 DEF Cell, Pulling
        <2>3. Proxies(n, rows, k) =
                 [response |-> R, baseline |-> B,
                  centroid |-> IF Pulling(n, rows, k) = {} THEN {NaN} ELSE P]
            BY <1>4, <2>1, <2>2 DEF Proxies
        <2>4. \A cell \in B : \E x \in rows, g \in Frames : cell = <<n, g, x>>
            <3>1. \A x \in rows : \A g \in Numbered(n, x) : Cell(n, g, x) = <<n, g, x>> /\ g \in Frames
                BY DEF Cell, Numbered
            <3> QED BY <3>1
        <2>5. ASSUME NEW x \in rows PROVE <<n, k, x>> \in B
            <3>1. k \in Numbered(n, x) /\ Cell(n, k, x) = <<n, k, x>>
                BY <1>4 DEF Cell, Numbered
            <3> QED BY <3>1
        <2> HIDE DEF B, R
        <2>6. \A x \in rows, g \in Frames : <<n, g, x>> \in Cells
            BY <1>1, <1>2
        <2>7. Pulling(n, rows, k) \subseteq rows
            BY DEF Pulling
        <2> HIDE DEF Cells
        <2>8. R \subseteq Cells /\ B \subseteq Cells /\ P \subseteq Cells
            BY <2>4, <2>6, <2>7 DEF R
        <2>9. /\ NaN \notin Cells
              /\ NaN \notin [response : SUBSET Cells, baseline : SUBSET Cells,
                             centroid : SUBSET (Cells \cup {NaN})]
            BY FormatAssumption DEF Cells
        <2>10. P = {} <=> Pulling(n, rows, k) = {}
            OBVIOUS
        <2> HIDE DEF P
        <2>11. PICK centroid : centroid = IF Pulling(n, rows, k) = {} THEN {NaN} ELSE P
            OBVIOUS
        <2>12. /\ centroid \subseteq Cells \cup {NaN} /\ centroid \ {NaN} = P
               /\ NaN \in centroid <=> Pulling(n, rows, k) = {}
            BY <2>8, <2>9, <2>10, <2>11
        <2>13. Proxies(n, rows, k) = [response |-> R, baseline |-> B, centroid |-> centroid]
            BY <2>3, <2>11
        <2>14. Proxies(n, rows, k) # NaN
            BY <2>8, <2>9, <2>12, <2>13
        <2>15. /\ Proxies(n, rows, k).response = R /\ Proxies(n, rows, k).baseline = B
               /\ Proxies(n, rows, k).centroid = centroid
            BY <2>13
        <2> QED BY <1>4, <2>4, <2>5, <2>12, <2>14, <2>15 DEF R, P
    <1> QED BY <1>3, <1>4

\* Of the streams that share a path, one is the last.
LEMMA LastOfPath ==
    ASSUME table \in Tables, NEW path \in {DerivedPath(m) : m \in Magnetic}
    PROVE  Max({m \in Magnetic : DerivedPath(m) = path}) \in Magnetic
    <1>1. Len(table.streams) \in Int /\ \A m \in Magnetic : m \in Int /\ m <= Len(table.streams)
        BY TableFacts DEF Magnetic
    <1>2. PICK same : same = {m \in Magnetic : DerivedPath(m) = path}
        OBVIOUS
    <1>3. PICK top \in Int : top = Len(table.streams)
        BY <1>1
    <1>4. same \subseteq Int /\ same # {} /\ \A m \in same : m <= top
        BY <1>1, <1>2, <1>3
    <1>5. PICK n \in same : \A m \in same : m <= n
        BY ONLY top \in Int, <1>4, GreatestBounded
    <1>6. Max(same) = n
        BY ONLY <1>4, n \in same, <1>5, GreatestIsMax
    <1> QED BY <1>2, <1>6

\* The sensors behind some cells are those of their rows.
LEMMA SensorsOfRows ==
    ASSUME NEW desc, IsDescriptor(desc), Cardinality(MagneticIds(desc)) \in DOMAIN Channel,
           NEW ids \in SUBSET MagneticIds(desc),
           NEW cells,
           \A cell \in cells : \E id \in ids : cell[3] = RowOf(desc, id),
           \A id \in ids : \E cell \in cells : cell[3] = RowOf(desc, id)
    PROVE  SensorsIn(desc, cells) = ids
    <1>1. \A id \in ids : SensorOf(desc, RowOf(desc, id)) = {id}
        BY RowIsOfItsSensor
    <1>2. ASSUME NEW s \in SensorsIn(desc, cells) PROVE s \in ids
        <2>1. PICK cell \in cells : s \in SensorOf(desc, cell[3])
            BY DEF SensorsIn
        <2>2. PICK id \in ids : cell[3] = RowOf(desc, id)
            BY <2>1
        <2> QED BY <1>1, <2>1, <2>2
    <1>3. ASSUME NEW id \in ids PROVE id \in SensorsIn(desc, cells)
        <2>1. PICK cell \in cells : cell[3] = RowOf(desc, id)
            OBVIOUS
        <2>2. id \in SensorOf(desc, cell[3])
            BY <1>1, <2>1
        <2> QED BY <2>1, <2>2 DEF SensorsIn
    <1> QED BY <1>2, <1>3

\* The descriptor of a stream that is exported has a sensor for each channel.
LEMMA DescriptorOfStream ==
    ASSUME table \in Tables, ~DerivedRaises, NEW n \in Magnetic
    PROVE  /\ IsDescriptor(Descriptor(n))
           /\ Cardinality(MagneticIds(Descriptor(n))) \in DOMAIN Channel
           /\ Cardinality(MagneticIds(Descriptor(n))) = table.streams[n].width
    <1> DEFINE device == table.streams[n].device
    <1>1. /\ TopologyRef(device) # None
          /\ Cardinality(MagneticIds(Descriptor(n))) = table.streams[n].width
        BY DEF DerivedRaises
    <1>2. TopologyRef(device) \in DOMAIN Descriptors
        <2>1. IsTable(table)
            BY FormatAssumption
        <2>2. \A d \in Topology : d.ref \in DOMAIN Descriptors \cup {None}
            BY <2>1 DEF IsTable, Topology
        <2>3. PICK d \in Topology : TopologyRef(device) = d.ref
            BY <1>1 DEF TopologyRef
        <2> QED BY <1>1, <2>2, <2>3
    <1>3. IsDescriptor(Descriptor(n))
        BY <1>2, FormatAssumption DEF Descriptor
    <1>4. n \in Streams
        BY DEF Magnetic
    <1> QED BY <1>1, <1>3, <1>4, TableFacts

LEMMA ProxyOfCluster ==
    ASSUME table \in Tables, ~DerivedRaises, NEW n \in Magnetic,
           NEW c \in DOMAIN Clusters(Descriptor(n)), NEW k \in Frames
    PROVE  ProxyOf(Proxies(n, Clusters(Descriptor(n))[c], k), n, Members(Descriptor(n), c), k)
    <1>1. PICK desc : desc = Descriptor(n)
        OBVIOUS
    <1>2. /\ IsDescriptor(desc) /\ Cardinality(MagneticIds(desc)) \in DOMAIN Channel
          /\ Cardinality(MagneticIds(desc)) = table.streams[n].width
        BY <1>1, DescriptorOfStream
    <1>3. PICK ids, rows : ids = Members(desc, c) /\ rows = Clusters(desc)[c]
        OBVIOUS
    <1>4. rows = {RowOf(desc, id) : id \in ids} /\ ids \subseteq MagneticIds(desc) /\ ids # {}
        BY <1>1, <1>3, ClustersOfSensors
    <1>5. n \in Streams
        BY DEF Magnetic
    <1>6. ASSUME NEW id \in ids
          PROVE  /\ RowOf(desc, id) \in Channels(n) /\ id \in SensorOf(desc, RowOf(desc, id))
                 /\ \A x : id \in SensorOf(desc, x) => x = RowOf(desc, id)
        <2>1. /\ \E i \in 1..Cardinality(MagneticIds(desc)) : RowOf(desc, id) = Channel[i]
              /\ SensorOf(desc, RowOf(desc, id)) = {id}
              /\ \A x : id \in SensorOf(desc, x) => x = RowOf(desc, id)
            BY <1>2, <1>4, RowIsOfItsSensor
        <2> QED BY <1>2, <2>1 DEF Channels
    <1>7. rows \subseteq Channels(n)
        BY <1>4, <1>6
    <1>8. PICK proxy : proxy = Proxies(n, rows, k)
        OBVIOUS
    <1>9. /\ proxy = NaN <=> \E x \in rows : Number(n, k, x) = NaN
          /\ proxy # NaN =>
                /\ proxy.response = {<<n, k, x>> : x \in rows}
                /\ \A cell \in proxy.baseline : \E x \in rows, g \in Frames : cell = <<n, g, x>>
                /\ \A x \in rows : <<n, k, x>> \in proxy.baseline
                /\ proxy.centroid \ {NaN} = {<<n, k, x>> : x \in Pulling(n, rows, k)}
                /\ NaN \in proxy.centroid <=> Pulling(n, rows, k) = {}
        BY <1>5, <1>7, <1>8, ProxyOfRows
    <1>10. proxy = NaN <=> \E id \in ids : ~Has(n, id, k)
        <2>1. \A id \in ids : Has(n, id, k) <=> Number(n, k, RowOf(desc, id)) # NaN
            BY <1>1, <1>6 DEF Has
        <2>2. (\E x \in rows : Number(n, k, x) = NaN)
                  <=> \E id \in ids : Number(n, k, RowOf(desc, id)) = NaN
            BY <1>4
        <2> QED BY <1>9, <2>1, <2>2
    <1>11. ASSUME proxy # NaN
           PROVE  LET pulls == proxy.centroid \ {NaN}
                  IN  /\ Valid(n)[k]
                      /\ SensorsIn(desc, proxy.response) = ids
                      /\ SensorsIn(desc, proxy.baseline) = ids
                      /\ \A cell \in proxy.baseline : cell[1] = n
                      /\ \A cell \in proxy.response \cup pulls : cell[1] = n /\ cell[2] = k
                      /\ SensorsIn(desc, pulls) \subseteq {id \in ids : ~Steady(n, id, k)}
                      /\ {id \in ids : Peak(n, id, k)} \subseteq SensorsIn(desc, pulls)
                      /\ NaN \in proxy.centroid <=> pulls = {}
        <2>1. PICK response, baseline, pulls, pulling :
                 /\ response = proxy.response /\ baseline = proxy.baseline
                 /\ pulls = proxy.centroid \ {NaN} /\ pulling = Pulling(n, rows, k)
            OBVIOUS
        <2>2. /\ \A x \in rows : Number(n, k, x) # NaN
              /\ response = {<<n, k, x>> : x \in rows}
              /\ \A cell \in baseline : \E x \in rows, g \in Frames : cell = <<n, g, x>>
              /\ \A x \in rows : <<n, k, x>> \in baseline
              /\ pulls = {<<n, k, x>> : x \in pulling}
              /\ NaN \in proxy.centroid <=> pulling = {}
            BY <1>9, <1>11, <2>1
        <2>3. pulling \subseteq rows
            BY <2>1 DEF Pulling
        <2>4. rows \subseteq Suffix /\ rows # {}
            <3>1. Channels(n) \subseteq Suffix
                <4>1. Channel \in Seq(STRING \ {"valid", "confidence"})
                    BY FormatAssumption
                <4>2. table.streams[n].width \in DOMAIN Channel
                    BY <1>5, TableFacts
                <4>3. DOMAIN Channel = 1..Len(Channel) /\ Len(Channel) \in Nat
                    BY <4>1
                <4> QED BY <4>2, <4>3 DEF Channels, Suffix
            <3> QED BY <1>4, <1>7, <3>1
        <2>5. Valid(n)[k]
            <3>1. PICK x \in rows : x \in Suffix /\ Number(n, k, x) # NaN
                BY <2>2, <2>4
            <3> QED BY <1>5, <3>1, TableFacts
        <2>6. /\ \A cell \in baseline : cell[1] = n /\ cell[3] \in rows
              /\ \A cell \in response : cell[1] = n /\ cell[2] = k /\ cell[3] \in rows
              /\ \A cell \in pulls : cell[1] = n /\ cell[2] = k /\ cell[3] \in pulling
            BY <2>2
        <2>7. /\ \A x \in rows : \E cell \in response : cell[3] = x
              /\ \A x \in rows : \E cell \in baseline : cell[3] = x
              /\ \A x \in pulling : \E cell \in pulls : cell[3] = x
            <3>1. \A x \in rows : <<n, k, x>> \in response /\ <<n, k, x>>[3] = x
                BY <2>2
            <3>2. \A x \in rows : <<n, k, x>> \in baseline /\ <<n, k, x>>[3] = x
                BY <2>2
            <3>3. \A x \in pulling : <<n, k, x>> \in pulls /\ <<n, k, x>>[3] = x
                BY <2>2
            <3> QED BY <3>1, <3>2, <3>3, Zenon
        <2>8. PICK drawn : drawn = {id \in ids : RowOf(desc, id) \in pulling}
            OBVIOUS
        <2>9. SensorsIn(desc, response) = ids
            <3>1. \A cell \in response : \E id \in ids : cell[3] = RowOf(desc, id)
                BY <1>4, <2>6
            <3>2. \A id \in ids : \E cell \in response : cell[3] = RowOf(desc, id)
                BY <1>4, <2>7
            <3>3. ids \in SUBSET MagneticIds(desc)
                BY <1>4
            <3> QED BY ONLY <1>2, <3>1, <3>2, <3>3, SensorsOfRows
        <2>10. SensorsIn(desc, baseline) = ids
            <3>1. \A cell \in baseline : \E id \in ids : cell[3] = RowOf(desc, id)
                BY <1>4, <2>6
            <3>2. \A id \in ids : \E cell \in baseline : cell[3] = RowOf(desc, id)
                BY <1>4, <2>7
            <3>3. ids \in SUBSET MagneticIds(desc)
                BY <1>4
            <3> QED BY ONLY <1>2, <3>1, <3>2, <3>3, SensorsOfRows
        <2>11. SensorsIn(desc, pulls) = drawn
            <3>1. \A cell \in pulls : \E id \in drawn : cell[3] = RowOf(desc, id)
                <4>1. \A x \in pulling : \E id \in drawn : x = RowOf(desc, id)
                    BY <1>4, <2>3, <2>8
                <4> QED BY <2>6, <4>1
            <3>2. \A id \in drawn : \E cell \in pulls : cell[3] = RowOf(desc, id)
                BY <2>7, <2>8
            <3>3. drawn \in SUBSET MagneticIds(desc)
                BY <1>4, <2>8
            <3> QED BY ONLY <1>2, <3>1, <3>2, <3>3, SensorsOfRows
        <2>12. ASSUME NEW id \in ids
               PROVE  /\ id \in drawn => ~Steady(n, id, k)
                      /\ Peak(n, id, k) => id \in drawn
            <3>1. PICK x : x = RowOf(desc, id)
                OBVIOUS
            <3>2. x \in rows /\ x \in Suffix
                BY <1>4, <2>4, <3>1
            <3>3. k \in Numbered(n, x)
                BY <2>2, <3>2 DEF Numbered
            <3>4. /\ (\A g \in Numbered(n, x) \ {k} : Number(n, g, x) = Number(n, k, x))
                         => x \notin pulling
                  /\ (/\ Numbered(n, x) \ {k} # {}
                      /\ \A g \in Numbered(n, x) \ {k} : Number(n, g, x) < Number(n, k, x))
                         => x \in pulling
                BY <1>5, <2>1, <3>2, <3>3, WhoPulls
            <3>5. id \in drawn <=> x \in pulling
                BY <2>8, <3>1
            <3>6. \A y : id \in SensorOf(desc, y) => y = x
                BY <1>6, <3>1
            <3>7. Steady(n, id, k) => x \notin pulling
                BY <1>1, <3>4, <3>6 DEF Steady
            <3>8. Peak(n, id, k) => x \in pulling
                BY <1>1, <3>4, <3>6 DEF Peak
            <3> QED BY <3>5, <3>7, <3>8
        <2>13. drawn \subseteq ids
            BY <2>8
        <2>14. pulls = {} <=> pulling = {}
            <3>1. \A x \in pulling : <<n, k, x>> \in pulls
                BY <2>2
            <3>2. \A cell \in pulls : \E x \in pulling : cell = <<n, k, x>>
                BY <2>2
            <3> QED BY ONLY <3>1, <3>2
        <2>15. /\ SensorsIn(desc, pulls) \subseteq {id \in ids : ~Steady(n, id, k)}
               /\ {id \in ids : Peak(n, id, k)} \subseteq SensorsIn(desc, pulls)
            BY <2>11, <2>12, <2>13
        <2>16. \A cell \in response \cup pulls : cell[1] = n /\ cell[2] = k
            BY <2>6
        <2> QED BY <2>1, <2>2, <2>5, <2>6, <2>9, <2>10, <2>14, <2>15, <2>16
    <1>12. ProxyOf(proxy, n, ids, k)
        BY <1>1, <1>10, <1>11 DEF ProxyOf
    <1> QED BY <1>1, <1>3, <1>8, <1>12

PathStays(path, n) ==
    /\ files[path].device = table.streams[n].device
    /\ UNION {Members(Descriptor(n), c) : c \in DOMAIN files[path].columns}
           = IF Grouped(Descriptor(n)) = {} THEN MagneticIds(Descriptor(n))
             ELSE Grouped(Descriptor(n))
    /\ \A c \in DOMAIN files[path].columns, k \in Frames :
          ProxyOf(files[path].columns[c][k], n, Members(Descriptor(n), c), k)

\* Whatever the descriptors, a derived file has the columns of the clusters of
\* one stream, the last of its path, each made from the sensors of that
\* cluster, with the centroid drawn to those that respond, and NaN where a
\* sensor has no number (DerivedExporter.export, _features).
THEOREM DerivedStays == Spec => []DerivedStaysInItsCluster
    <1>1. FilesInv => DerivedStaysInItsCluster
        <2> SUFFICES ASSUME FilesInv, NEW path \in {DerivedPath(m) : m \in Magnetic},
                            "derived" \in {results[i].format : i \in DOMAIN results}
                     PROVE  PathStays(path, Max({m \in Magnetic : DerivedPath(m) = path}))
            BY DEF DerivedStaysInItsCluster, PathStays
        <2>0. PICK n : n = Max({m \in Magnetic : DerivedPath(m) = path})
            OBVIOUS
        <2>1. table \in Tables /\ ~DerivedRaises
            BY DEF FilesInv, RefusalsHold
        <2>2. path \in DOMAIN DerivedFiles
            BY DEF DerivedFiles
        <2>3. files[path] = DerivedFiles[path]
            BY <2>2 DEF FilesInv, FilesHold
        <2>4. n \in Magnetic
            BY <2>0, <2>1, LastOfPath
        <2> DEFINE columns == [c \in DOMAIN Clusters(Descriptor(n)) |->
                                 [k \in Frames |-> Proxies(n, Clusters(Descriptor(n))[c], k)]]
        <2>5. files[path] = [device |-> table.streams[n].device, columns |-> columns]
            BY <2>0, <2>2, <2>3 DEF DerivedFiles
        <2>6. DOMAIN columns = DOMAIN Clusters(Descriptor(n))
            OBVIOUS
        <2>7. \A c \in DOMAIN columns, k \in Frames :
                 ProxyOf(columns[c][k], n, Members(Descriptor(n), c), k)
            BY <2>1, <2>4, ProxyOfCluster
        <2> HIDE DEF columns
        <2>8. files[path].device = table.streams[n].device /\ files[path].columns = columns
            BY <2>5
        <2>9. UNION {Members(Descriptor(n), c) : c \in DOMAIN columns}
                  = IF Grouped(Descriptor(n)) = {} THEN MagneticIds(Descriptor(n))
                    ELSE Grouped(Descriptor(n))
            BY <2>6, ClustersOfSensors
        <2>10. PathStays(path, n)
            BY <2>7, <2>8, <2>9 DEF PathStays
        <2> QED BY <2>0, <2>10
    <1> QED BY <1>1, FilesInvariant, PTL

----------------------------------------------------------------------------
(* Times.                                                                  *)

\* A grid has a time below which there is none.
LEMMA LeastTime ==
    ASSUME table \in Tables
    PROVE  \E bottom \in Int : \A k \in Frames : bottom <= table.grid[k]
    <1>1. Len(table.grid) \in Nat /\ Frames = 1..Len(table.grid)
          /\ \A k \in Frames : table.grid[k] \in Int
        BY TableFacts
    <1>2. PICK F, v : F = Frames /\ v = table.grid
        OBVIOUS
    <1>3. \E low \in Int, high \in Int : Between(low, high, v, F)
        BY <1>1, <1>2, Bounds
    <1> QED BY <1>2, <1>3 DEF Between

\* The replay log starts at its earliest frame.
LEMMA LogTimes ==
    ASSUME table \in Tables, NEW n \in Streams, NEW m \in DOMAIN Messages(n)
    PROVE  \E t \in Int : /\ Messages(n)[m].time = t
                          /\ Messages(n)[m].log = (t - ReplayBase) * 1000
                          /\ ReplayBase \in Int /\ ReplayBase <= t
    <1>1. PICK k \in ValidFrames(n) : Messages(n)[m] = Message(n, k)
        BY MessagesOfStream
    <1>2. k \in Frames /\ table.grid[k] \in Int
        BY TableFacts DEF ValidFrames
    <1>3. PICK S : S = {table.grid[g] : g \in Frames}
        OBVIOUS
    <1>4. ReplayBase = Min(S)
        BY <1>2, <1>3 DEF ReplayBase
    <1>5. PICK b \in S : \A y \in S : b <= y
        <2>1. Len(table.grid) \in Nat /\ Frames = 1..Len(table.grid) /\ S \subseteq Int
            BY <1>3, TableFacts
        <2>2. PICK bottom \in Int : \A y \in S : bottom <= y
            BY <1>3, LeastTime
        <2>3. S # {}
            BY <1>2, <1>3
        <2> QED BY <2>1, <2>2, <2>3, LeastBounded
    <1>6. Min(S) = b
        <2>1. S \subseteq Int
            BY <1>3, TableFacts
        <2> QED BY <1>5, <2>1, LeastIsMin
    <1>7. table.grid[k] \in S /\ b \in Int
        BY <1>2, <1>3, <1>5, TableFacts
    <1> QED BY <1>1, <1>2, <1>4, <1>5, <1>6, <1>7 DEF Message

\* Replay accepts every grid and keeps its spacing, and float32 time stamps
\* keep the order of frames, and tell them apart above their spacing
\* (McapExporter.export, LeRobotExporter.export).
THEOREM Times == Spec => []TimesSurvive
    <1>1. FilesInv => TimesSurvive
        <2> SUFFICES ASSUME FilesInv PROVE TimesSurvive
            OBVIOUS
        <2>1. table \in Tables
            BY DEF FilesInv
        <2>2. pc = "raised" => Head(todo) # "mcap"
            <3>1. ~McapRaises
                <4> SUFFICES ASSUME NEW n \in Streams, NEW m \in DOMAIN Messages(n)
                             PROVE  ~(Messages(n)[m].log < 0)
                    BY DEF McapRaises
                <4> QED BY <2>1, LogTimes
            <3> QED BY <3>1 DEF FilesInv, RefusalsHold
        <2>3. ASSUME Written(<<"mcap">>),
                     NEW a \in UNION {{files[<<"mcap">>][n].messages[m] :
                                   m \in DOMAIN files[<<"mcap">>][n].messages} : n \in Streams},
                     NEW b \in UNION {{files[<<"mcap">>][n].messages[m] :
                                   m \in DOMAIN files[<<"mcap">>][n].messages} : n \in Streams}
              PROVE  a.log >= 0 /\ a.log - b.log = 1000 * (a.time - b.time)
            <3>1. files[<<"mcap">>] = McapFile
                BY <2>3 DEF FilesInv, FilesHold, Holds
            <3>2. \A n \in Streams : files[<<"mcap">>][n].messages = Messages(n)
                BY <3>1 DEF McapFile
            <3>3. PICK n \in Streams : \E m \in DOMAIN Messages(n) : a = Messages(n)[m]
                BY <3>2
            <3>4. PICK o \in Streams : \E m \in DOMAIN Messages(o) : b = Messages(o)[m]
                BY <3>2
            <3>5. PICK s \in Int : /\ a.time = s /\ a.log = (s - ReplayBase) * 1000
                                   /\ ReplayBase \in Int /\ ReplayBase <= s
                BY <2>1, <3>3, LogTimes
            <3>6. PICK t \in Int : /\ b.time = t /\ b.log = (t - ReplayBase) * 1000
                                   /\ ReplayBase \in Int /\ ReplayBase <= t
                BY <2>1, <3>4, LogTimes
            <3> QED BY <3>5, <3>6
        <2>4. ASSUME Written(<<"lerobot">>), NEW j \in Frames, NEW k \in Frames
              PROVE  LET stamp == files[<<"lerobot">>].timestamp
                         step == table.grid[k] - table.grid[j]
                     IN  /\ step >= 0 => stamp[j] <= stamp[k]
                         /\ step > Max({Ulp(table.grid[j]), Ulp(table.grid[k])}) => stamp[j] < stamp[k]
            <3>1. files[<<"lerobot">>] = LerobotFile
                BY <2>4 DEF FilesInv, FilesHold, Holds
            <3>2. files[<<"lerobot">>].timestamp = Timestamps
                BY <3>1 DEF LerobotFile
            <3>3. PICK s \in Int, t \in Int : s = table.grid[j] /\ t = table.grid[k]
                BY <2>1, TableFacts
            <3>4. Timestamps[j] = Single(s) /\ Timestamps[k] = Single(t)
                BY <3>3 DEF Timestamps
            <3>5. t - s >= 0 => Single(s) <= Single(t)
                BY SingleInOrder
            <3>6. t - s > Max({Ulp(s), Ulp(t)}) => Single(s) < Single(t)
                BY SingleApart
            <3> QED BY <3>2, <3>3, <3>4, <3>5, <3>6
        <2> QED BY <2>2, <2>3, <2>4 DEF TimesSurvive
    <1> QED BY <1>1, FilesInvariant, PTL
====
