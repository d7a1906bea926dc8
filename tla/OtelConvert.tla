---------------------------- MODULE OtelConvert ----------------------------
(***************************************************************************)
(* From generated spans to an OTLP request: generate/filler_traces.go fills *)
(* the columns of a block, block/otelrow.go and generate/otelrow.go read    *)
(* rows back out of them, otel/convert*.go group the rows by resource and   *)
(* scope. Attributes are <<key, value>> pairs; an id is the trace's number, *)
(* or that and the span's number in it.                                     *)
(***************************************************************************)
EXTENDS Integers, Sequences, FiniteSets, SequencesExt

Least(a, b) == IF a < b THEN a ELSE b

-----------------------------------------------------------------------------
(* TracesFiller *)

\* buildTree: pick[i] is the random parent of span i; one that is already at
\* the depth limit is replaced by the root.
buildTree(count, pick, maxDepth) ==
    FoldLeft(LAMBDA buf, i :
                LET p == IF buf[pick[i]].depth >= maxDepth - 1 THEN 1 ELSE pick[i]
                IN  Append(buf, [parent |-> p, depth |-> buf[p].depth + 1]),
             <<[parent |-> 0, depth |-> 0]>>, [i \in 1 .. count - 1 |-> i + 1])

\* The columns of a block. A map column holds the pairs of all rows, one after
\* another, and where each row ends; a map comes out in any order (flipped).
NoColumns == [spans |-> <<>>, offsets |-> <<>>, pairs |-> <<>>]
AppendRow(c, span, attrs, flipped) ==
    [spans |-> Append(c.spans, span),
     offsets |-> Append(c.offsets, Len(c.pairs) + Len(attrs)),
     pairs |-> c.pairs \o (IF flipped THEN Reverse(attrs) ELSE attrs)]

\* One trace of Fill: as many spans as it wants and the block has room for, all
\* with the service, scope and resource attributes drawn for the trace.
FillTrace(s, t, want, pick, shared, maxDepth, flips) ==
    LET count == Least(want, s.remaining)
        tree == buildTree(count, pick, maxDepth)
        Row(c, i) == AppendRow(c, [span |-> <<t, i>>, depth |-> tree[i].depth,
                                   parent |-> IF tree[i].parent = 0 THEN <<>> ELSE <<t, tree[i].parent>>,
                                   service |-> shared.service, scopeName |-> shared.scopeName,
                                   scopeVersion |-> shared.scopeVersion],
                               shared.attrs, Len(c.spans) + 1 \in flips)
    IN  [cols |-> FoldLeft(Row, s.cols, [i \in 1 .. count |-> i]), remaining |-> s.remaining - count]

\* Fill of a block: traces until there are n rows. (A block whose fill is cut
\* short by the context is given back unsent.) b is what the random numbers
\* choose: the traces, and the rows whose maps are flipped.
FillTraces(b) ==
    FoldLeft(LAMBDA s, t : IF s.remaining = 0 THEN s
                           ELSE FillTrace(s, t, b.plan[t].want, b.plan[t].pick, b.plan[t].shared, b.maxDepth, b.flips),
             [cols |-> NoColumns, remaining |-> b.n], [t \in DOMAIN b.plan |-> t]).cols

-----------------------------------------------------------------------------
(* Reading rows *)

\* MapRowKV: the pairs of row i of a map column.
MapRowKV(c, i) ==
    SubSeq(c.pairs, IF i = 1 THEN 1 ELSE c.offsets[i - 1] + 1, c.offsets[i])

\* A span has neither schema URLs nor scope attributes.
ReadTraceRow(c, i) ==
    LET s == c.spans[i] IN
    [row |-> s.span, service |-> s.service, schema |-> "", attrs |-> MapRowKV(c, i),
     scope |-> [name |-> s.scopeName, version |-> s.scopeVersion, schema |-> "", attrs |-> <<>>]]

-----------------------------------------------------------------------------
(* logsBuilder and tracesBuilder *)

\* Mutant: the fingerprint depends on the order.
hashKVSet_InOrder(kvs) == kvs

\* hashKVSet: a fingerprint of the pairs that ignores their order. Collisions
\* of the hash ("an accepted tradeoff") are left out.
hashKVSet(kvs) == [kv \in ToSet(kvs) |-> Cardinality({i \in DOMAIN kvs : kvs[i] = kv})]

\* buildResource: the attributes, and the service unless they name it.
buildResource(service, attrs) ==
    IF service # "" /\ ~\E i \in DOMAIN attrs : attrs[i][1] = "service.name"
    THEN Append(attrs, <<"service.name", service>>) ELSE attrs

\* add: the row goes to the group of its resource and scope, a new one if need
\* be. The scalar hash keeps its fields apart with delimiters, as a tuple does;
\* the fields a span does not have are left out of its key.
GroupKey(r) ==
    [scalar |-> <<r.service, r.schema, r.scope.name, r.scope.version, r.scope.schema>>,
     res |-> hashKVSet(r.attrs), scope |-> hashKVSet(r.scope.attrs)]
Add(groups, r) ==
    IF \E i \in DOMAIN groups : groups[i].key = GroupKey(r)
    THEN [i \in DOMAIN groups |-> IF groups[i].key = GroupKey(r)
                                  THEN [groups[i] EXCEPT !.rows = Append(@, r.row)] ELSE groups[i]]
    ELSE Append(groups, [key |-> GroupKey(r), resource |-> buildResource(r.service, r.attrs),
                         schema |-> r.schema, scope |-> r.scope, rows |-> <<r.row>>])

\* addBlock for the blocks of a batch, and build; a row is known by its block too.
addBlock(groups, cols, x) ==
    FoldLeft(Add, groups, [i \in DOMAIN cols.spans |-> [ReadTraceRow(cols, i) EXCEPT !.row = <<x, @>>]])
Request(filled) ==
    FoldLeft(LAMBDA groups, x : addBlock(groups, filled[x], x), <<>>, [x \in DOMAIN filled |-> x])

-----------------------------------------------------------------------------
(* Bounded inputs *)

A == <<"a", "1">>
B == <<"b", "2">>
InScope(attrs, version) == [service |-> "s", attrs |-> attrs, scopeName |-> "n", scopeVersion |-> version]
Drawn == {InScope(<<A, B>>, "1"), InScope(<<A, B>>, "2"), InScope(<<B, <<"service.name", "t">>, A>>, "1")}
Stars == [i \in 2 .. 3 |-> 1]              \* every span asks for the root as its parent
Chains == [i \in 2 .. 3 |-> i - 1]         \* every span asks for the one before it
Fills(n, spans, picks, depths) ==
    {b \in [n : {n}, maxDepth : depths, flips : SUBSET (2 .. Least(n, 3)),
            plan : [1 .. 2 -> [want : 1 .. spans, pick : picks, shared : Drawn]]] :
        b.plan[1].want + b.plan[2].want >= n}
Batches == << {<<b>> : b \in Fills(2, 3, {Chains}, {1}) \cup Fills(4, 3, {Stars, Chains}, 1 .. 3)},
              {<<b, d>> : b, d \in Fills(2, 1, {Chains}, {2})} >>
Scopes == {s \in [name : {"n", "m"}, version : {"1", "2"}, schema : {"", "u"}, attrs : {<<>>, <<A>>, <<A, B>>, <<B, A>>}] :
             s.name = "m" => s.version = "1"}
LogRows == {[row |-> <<>>, service |-> "s", schema |-> u, attrs |-> a, scope |-> c] :
              u \in {"", "u"}, a \in {<<A, B>>, <<B, A>>, <<A, A>>}, c \in Scopes}
           \cup {[row |-> <<>>, service |-> s, schema |-> "u", attrs |-> a, scope |-> c] :
              s \in {"", "s"}, a \in {<<A>>, <<A, B>>}, c \in {x \in Scopes : x.attrs = <<>>}}

-----------------------------------------------------------------------------
(* What a request must be *)

\* Where a row is in a request: its group and its place there.
Places(req, r) == {p \in (DOMAIN req) \X (1 .. 4) : p[2] \in DOMAIN req[p[1]].rows /\ req[p[1]].rows[p[2]] = r}
Total(req) == FoldLeft(LAMBDA n, g : n + Len(g.rows), 0, req)

\* filler_traces.go:28-120. The block has the rows asked for; every trace in it,
\* the one cut to the rows that were left too, is one tree whose parents come
\* before their children, no deeper than the limit (a limit of one still allows
\* the root's children).
TracesWhole(b, spans) ==
    /\ Len(spans) = b.n
    /\ \A i \in DOMAIN spans : LET x == spans[i] IN
         /\ x.depth =< IF b.maxDepth = 1 THEN 1 ELSE b.maxDepth - 1
         /\ x.parent = <<>> <=> \A j \in 1 .. i - 1 : spans[j].span[1] # x.span[1]
         /\ x.parent # <<>> => \E j \in 1 .. i - 1 :
               spans[j].span = x.parent /\ spans[j].depth = x.depth - 1

\* otelrow.go:121-138, convert.go:51-105, convert_traces.go:34-97. Every span of
\* the batch is in the request once, in a group of the scope its trace was given
\* and of a resource with exactly the trace's attributes, whatever order a map
\* gave them in; spans share a group, in order and from whichever block, exactly
\* when resource and scope are the same.
SpansGrouped(bs, filled) ==
    LET req == Request(filled)
        Shared(x, s) == bs[x].plan[s.span[1]].shared
        At(x, s) == CHOOSE p \in Places(req, <<x, s.span>>) : TRUE
    IN
    /\ Total(req) = FoldLeft(LAMBDA n, c : n + Len(c.spans), 0, filled)
    /\ \A x \in DOMAIN filled : \A i \in DOMAIN filled[x].spans : LET s == filled[x].spans[i] IN
         /\ Cardinality(Places(req, <<x, s.span>>)) = 1
         /\ LET g == req[At(x, s)[1]] IN
              /\ ToSet(g.resource) = ToSet(buildResource(Shared(x, s).service, Shared(x, s).attrs))
              /\ g.scope.name = Shared(x, s).scopeName /\ g.scope.version = Shared(x, s).scopeVersion
         /\ \A y \in x .. Len(filled) : \A j \in DOMAIN filled[y].spans : LET r == filled[y].spans[j] IN
               /\ At(x, s)[1] = At(y, r)[1] <=> Shared(x, s) = Shared(y, r)
               /\ (Shared(x, s) = Shared(y, r) /\ (x < y \/ i < j)) => At(x, s)[2] < At(y, r)[2]

\* The same pairs, each as often, in some order (for sequences of two at most).
SamePairs(a, b) == ToSet(a) = ToSet(b) /\ Len(a) = Len(b)

\* convert_logs.go:35-89. Log records share a group exactly when they agree in
\* everything that identifies their resource and their scope.
LogsGrouped ==
    \A r, s \in LogRows :
        Len(FoldLeft(Add, <<>>, <<r, s>>)) = 1 <=>
             /\ r.service = s.service /\ r.schema = s.schema
             /\ r.scope.name = s.scope.name /\ r.scope.version = s.scope.version
             /\ r.scope.schema = s.scope.schema
             /\ SamePairs(r.attrs, s.attrs) /\ SamePairs(r.scope.attrs, s.scope.attrs)

\* All this for the request of a batch of so many blocks.
RequestSound == [blocks \in DOMAIN Batches |->
    /\ LogsGrouped
    /\ \A bs \in Batches[blocks] :
         LET filled == [x \in DOMAIN bs |-> FillTraces(bs[x])] IN
         /\ \A x \in DOMAIN bs : TracesWhole(bs[x], filled[x].spans)
         /\ SpansGrouped(bs, filled)]
=============================================================================
