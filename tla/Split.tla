-------------------------------- MODULE Split --------------------------------
(***************************************************************************)
(* otlpsplit: how a payload over the send cap is cut into parts.  The      *)
(* metrics splitter is the general one: a log record or a span is a metric *)
(* with one point.  A payload, and a part, is the sequence of its elements *)
(* in document order; an element has its place in the payload (resource,   *)
(* scope, metric, point) and the bytes of its own.                         *)
(***************************************************************************)
EXTENDS Naturals, Sequences, FiniteSets
LOCAL INSTANCE SequencesExt

CONSTANTS
  Payloads,    \* sequences of resources [size, scopes]; of scopes [size, metrics];
               \* of metrics [size, points]; of sizes of points
  SendCap,         \* MaxSendBytes, 0 for none
  Elem,        \* elemOverhead: what an element is charged for its framing
  Wire,        \* what its framing really takes
  RoomDiv      \* minChunkRoomDiv

ASSUME SplitAssumption == SendCap \in Nat /\ Wire \in Nat /\ Elem \in Nat /\ Wire <= Elem /\ RoomDiv \in Nat \ {0}

VARIABLE payload
splitVars == <<payload>>
SplitInit == payload \in Payloads

-----------------------------------------------------------------------------
El(at, size) == [at |-> at, size |-> size]
Sum(s) == FoldLeft(LAMBDA n, x : n + x, 0, s)
Cat(n, f(_)) == FlattenSeq([i \in 1..n |-> f(i)])

MetricEls(p, r, s, m) ==
  LET mt == p[r].scopes[s].metrics[m]
  IN  <<El(<<r, s, m>>, mt.size)>> \o [i \in DOMAIN mt.points |-> El(<<r, s, m, i>>, mt.points[i])]
ScopeEls(p, r, s) ==
  <<El(<<r, s>>, p[r].scopes[s].size)>> \o Cat(Len(p[r].scopes[s].metrics), LAMBDA m : MetricEls(p, r, s, m))
ResourceEls(p, r) == <<El(<<r>>, p[r].size)>> \o Cat(Len(p[r].scopes), LAMBDA s : ScopeEls(p, r, s))
PayloadEls(p) == Cat(Len(p), LAMBDA r : ResourceEls(p, r))

\* The marshaler's size of the elements, and what a subtree adds to a chunk:
\* its own size, exactly, and an allowance for its framing.
Size(els)   == Sum([i \in DOMAIN els |-> els[i].size + Wire])
Charge(els) == Size(els) - Wire + Elem
Framing(els) == Sum([i \in DOMAIN els |-> els[i].size + Elem])

-----------------------------------------------------------------------------
(* chunkBudget.                                                             *)

SplitPaysOff(base) == base <= SendCap /\ SendCap - base >= SendCap \div RoomDiv
AbandonUnless(b, framing) == [b EXCEPT !.giveUp = @ \/ ~SplitPaysOff(framing)]

Reopen(b, frames) ==
  [b EXCEPT !.body = frames, !.cur = Framing(frames), !.held = 0, !.open = TRUE, !.scopes = 0]
AddScope(b, scope) == [b EXCEPT !.body = Append(@, scope), !.cur = @ + scope.size + Elem, !.scopes = @ + 1]
AddItem(b, els, bytes) == [b EXCEPT !.body = @ \o els, !.cur = @ + bytes, !.held = @ + 1]

CutBeforeScope(b, bytes) == b.open /\ ~b.giveUp /\ b.cur + bytes > SendCap
CutBeforeItem(b, base, bytes) == ~b.giveUp /\ (b.held > 0 \/ b.cur > base) /\ b.cur + bytes > SendCap

\* close and emit: a part over the cap is one leaf too large, or an abandoned split.
Emit(b) ==
  LET over == b.cur > SendCap /\ Size(b.body) > SendCap
  IN  IF ~b.open THEN b
      ELSE [b EXCEPT !.open = FALSE, !.out = Append(@, b.body),
                     !.oversize  = @ + IF over /\ ~b.giveUp THEN 1 ELSE 0,
                     !.abandoned = @ + IF over /\ b.giveUp THEN 1 ELSE 0]

-----------------------------------------------------------------------------
\* splitBigMetric: the points of one metric, each chunk under a copy of its
\* resource, scope and shell.  Its abandonment is its own.
AddPoint(b, shell, e) ==
  AddItem(IF CutBeforeItem(b, Framing(shell), e.size + Elem) THEN Reopen(Emit(b), shell) ELSE b,
          <<e>>, e.size + Elem)
LastChunk(b) == IF b.held > 0 THEN Emit(b) ELSE b
SplitPoints(b, shell, points) ==
  LastChunk(FoldLeft(LAMBDA c, e : AddPoint(c, shell, e),
                     Reopen(AbandonUnless([b EXCEPT !.giveUp = FALSE], Framing(shell)), shell), points))
SplitBigMetric(b, frames, els) ==
  [SplitPoints(b, Append(frames, els[1]), Tail(els)) EXCEPT !.giveUp = b.giveUp, !.open = FALSE]

\* Mutant: a chunk is closed before a large metric only when it holds a leaf.
BeforeSplitHeld(c) == IF c.held > 0 THEN Emit(c) ELSE [c EXCEPT !.open = FALSE]
\* The chunk in progress before a metric is split: one that holds only the
\* frames of this metric is dropped.
BeforeSplit(c) == IF c.held > 0 \/ c.scopes > 1 THEN Emit(c) ELSE [c EXCEPT !.open = FALSE]

\* splitBigResourceMetrics, and its simpler twins for records and spans.
FreshChunk(b, res, scope) == AddScope(Reopen(b, <<res>>), scope)
PlaceMetric(b, res, scope, els, base, bytes) ==
  IF ~b.giveUp /\ base + bytes > SendCap /\ Len(els) > 2
  THEN SplitBigMetric(BeforeSplit(b), <<res, scope>>, els)
  ELSE AddItem(IF CutBeforeItem(b, base, bytes) THEN FreshChunk(Emit(b), res, scope) ELSE b, els, bytes)
AddMetric(b, res, scope, els) ==
  PlaceMetric(IF b.open THEN b ELSE FreshChunk(b, res, scope), res, scope, els, Framing(<<res, scope>>), Charge(els))

OpenScope(b, res, scope) == AddScope(IF b.open THEN b ELSE Reopen(b, <<res>>), scope)
MakeRoom(b, bytes) == IF CutBeforeScope(b, bytes) THEN Emit(b) ELSE b
SplitScope(b, res, scope, metrics) ==
  FoldLeft(LAMBDA c, els : AddMetric(c, res, scope, els),
           OpenScope(MakeRoom(AbandonUnless(b, Framing(<<res, scope>>)), scope.size + Elem), res, scope), metrics)
SplitScopes(p, r, b, res) ==
  FoldLeft(LAMBDA c, s : SplitScope(c, res, El(<<r, s>>, p[r].scopes[s].size),
                                    [m \in DOMAIN p[r].scopes[s].metrics |-> MetricEls(p, r, s, m)]),
           AbandonUnless([b EXCEPT !.giveUp = FALSE, !.open = FALSE], Framing(<<res>>)),
           [s \in DOMAIN p[r].scopes |-> s])
SplitBigResource(p, r, b) == Emit(SplitScopes(p, r, b, El(<<r>>, p[r].size)))

\* LogsWithReport, MetricsWithReport, TracesWithReport: whole resources are
\* packed next-fit; one over the cap is split on its own, or, with nothing to
\* split, shipped as it is.
FlushWhole(b) == IF b.whole = << >> THEN b
                 ELSE [b EXCEPT !.out = Append(@, b.whole), !.whole = << >>, !.bytes = 0]
PlaceResource(p, b, r, els, bytes) ==
  IF bytes <= SendCap
  THEN [IF b.bytes > 0 /\ b.bytes + bytes > SendCap THEN FlushWhole(b) ELSE b
          EXCEPT !.whole = @ \o els, !.bytes = @ + bytes]
  ELSE IF p[r].scopes = << >>
  THEN [FlushWhole(b) EXCEPT !.out = Append(@, els), !.oversize = @ + IF Size(els) > SendCap THEN 1 ELSE 0]
  ELSE SplitBigResource(p, r, FlushWhole(b))
AddResource(p, b, r) == PlaceResource(p, b, r, ResourceEls(p, r), Charge(ResourceEls(p, r)))

Budget == [out |-> << >>, whole |-> << >>, bytes |-> 0, oversize |-> 0, abandoned |-> 0,
           body |-> << >>, cur |-> 0, held |-> 0, open |-> FALSE, giveUp |-> FALSE, scopes |-> 0]

NothingCut(b, p) ==
  IF b.out = << >> /\ p # << >> THEN [b EXCEPT !.out = <<PayloadEls(p)>>, !.oversize = @ + 1] ELSE b
SplitParts(p) ==
  IF SendCap = 0 \/ Size(PayloadEls(p)) <= SendCap THEN [Budget EXCEPT !.out = <<PayloadEls(p)>>]
  ELSE NothingCut(FlushWhole(FoldLeft(LAMBDA b, r : AddResource(p, b, r), Budget, [r \in 1..Len(p) |-> r])), p)

-----------------------------------------------------------------------------
Leaves(els) == SelectSeq(els, LAMBDA e : Len(e.at) = 4)

\* The elements of a part are under copies of their own frames.
Framed(part) ==
  \A i \in DOMAIN part : Len(part[i].at) > 1 =>
    \E j \in 1..(i - 1) : /\ part[j].at = Front(part[i].at)
                          /\ \A k \in (j + 1)..(i - 1) : Len(part[k].at) > Len(part[j].at)

Over(b) == {i \in DOMAIN b.out : Size(b.out[i]) > SendCap}
Faithful(b, all) ==
  /\ FlattenSeq([i \in DOMAIN b.out |-> Leaves(b.out[i])]) = Leaves(all)
  /\ UNION {ToSet(b.out[i]) : i \in DOMAIN b.out} = ToSet(all)
  /\ \A i \in DOMAIN b.out : Framed(b.out[i])
  /\ SendCap > 0 =>
       /\ Cardinality(Over(b)) = b.oversize + b.abandoned
       /\ Cardinality({i \in Over(b) : Len(Leaves(b.out[i])) > 1}) <= b.abandoned
  /\ Sum([i \in DOMAIN b.out |-> Size(b.out[i])]) <= 19 * Size(all)

(* A payload that is cut arrives as it was: every point, record or span once,   *)
(* in order and under its own metric, scope and resource, empty ones included.  *)
(* A part over the cap is always reported, and unless the split was given up    *)
(* it holds one leaf, or none, that nothing could shrink; and the framing copied *)
(* into every part never makes the payload more than nineteen times as large.   *)
SplitFaithful == Faithful(SplitParts(payload), PayloadEls(payload))
=============================================================================
