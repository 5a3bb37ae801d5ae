---------------------------- MODULE ScrapeSession ----------------------------
(***************************************************************************)
(* One scrape, from the parser's samples to exported chunks (promscrape:   *)
(* scrapeSession, converter, and the batchers behind them): filtering, the *)
(* per-family accumulators of histograms and summaries with their memory   *)
(* budget, chunked export, and what becomes of a scrape that breaks off.   *)
(* Samples are named by their index; a point is the set of the samples it  *)
(* was built from.  mode tells the three callers apart: the text parser,   *)
(* the protobuf parser, and the kubelet's JSON summary.                    *)
(***************************************************************************)
EXTENDS Integers, Sequences, FiniteSets

CONSTANTS
  Expositions,   \* bodies: sequences of [fam, part, series, fate]
  BatchPoints,   \* cfg.BatchPoints
  MaxSamples,    \* cfg.MaxSamples, 0 for none
  MaxFamilyAcc   \* maxFamilyAccBytes, in retained samples

\* part: "num", "native" for a native histogram, or a component of a classic
\* histogram ("bucket", "sum") or of a summary ("quantile", "qsum"), "sum" and
\* "qsum" standing for its count too; fate: "keep", or what drops the sample before
\* or inside the converter.
Component == {"bucket", "sum", "quantile", "qsum"}

ASSUME SessionAssumption ==
  /\ BatchPoints \in Nat \ {0} /\ MaxSamples \in Nat /\ MaxFamilyAcc \in Nat
  /\ \A e \in Expositions : Len(e) \in Nat /\ DOMAIN e = 1..Len(e)
  /\ \A e \in Expositions : \A i \in DOMAIN e :
       e[i].part \in Component \cup {"num", "native"} /\ e[i].fate \in {"keep", "filter", "relabel", "badline", "bad"}
  \* familyIsNative: a family is native as a whole
  /\ \A e \in Expositions : \A i, j \in DOMAIN e :
       e[i].part = "native" /\ e[j].fam = e[i].fam => e[j].part = "native"

VARIABLES
  body, mode,   \* what is parsed, and by whom
  pos,          \* samples read
  family, order, accs, accBytes,  \* converter
  points,       \* the chunk being filled
  chunks,       \* history: chunks the exporter accepted
  lostChunks,   \* history: chunks the exporter failed
  droppedBy,    \* history: sample -> "filter", "relabel", "badline", "accumulator", "malformed"
  exportFailed, \* scrapeSession.exportFailed, summaryBatcher.exportErr
  ctxDone,      \* the scrape's deadline passed or the agent stops
  spc, after,   \* step; what follows a flushFamily
  flushErr,     \* flushFamily met a failed export
  failure       \* the error the scrape returns, or "none"

sessionVars == <<body, mode, pos, family, order, accs, accBytes, points, chunks, lostChunks,
                 droppedBy, exportFailed, ctxDone, spc, after, flushErr, failure>>
convVars == <<family, order, accs, accBytes>>

SessionInit ==
  /\ body \in Expositions
  /\ mode \in {"text", "proto", "summary"}
  /\ mode = "summary" => \A i \in DOMAIN body : body[i].part = "num"
  /\ mode = "text" => \A i \in DOMAIN body : body[i].part # "native"
  /\ pos = 0 /\ family = "" /\ order = <<>> /\ accs = [k \in {} |-> {}] /\ accBytes = 0
  /\ points = <<>> /\ chunks = <<>> /\ lostChunks = <<>> /\ droppedBy = [i \in {} |-> ""]
  /\ exportFailed = FALSE /\ ctxDone = FALSE
  /\ spc = "read" /\ after = "none" /\ flushErr = FALSE /\ failure = "none"

-----------------------------------------------------------------------------
(* Chunks.  take() empties the batcher whatever the exporter says of what    *)
(* was taken.                                                               *)

Full(ps) == Len(ps) >= BatchPoints

\* exportChunk; goOn and onFailure are the steps that follow.
Export(ps, goOn, onFailure) ==
  /\ points' = <<>>
  /\ \/ chunks' = Append(chunks, ps) /\ spc' = goOn
        /\ UNCHANGED <<lostChunks, exportFailed, failure>>
     \/ lostChunks' = Append(lostChunks, ps) /\ spc' = onFailure
        /\ exportFailed' = TRUE /\ UNCHANGED chunks
        /\ failure' = IF failure = "none" THEN "export" ELSE failure

\* converter.check: exportIfFull after a point was added (not in a summary,
\* which looks between pods).
Check(ps, goOn, onFailure) ==
  IF Full(ps) /\ mode # "summary" THEN Export(ps, goOn, onFailure)
  ELSE points' = ps /\ spc' = goOn /\ UNCHANGED <<chunks, lostChunks, exportFailed, failure>>

\* A batcher's points: one per number, one per accumulator.
AddNumber(ps, i) == Append(ps, {i})
AddAccumulated(ps, acc) == Append(ps, acc)

Drop(i, why) == droppedBy' = [j \in DOMAIN droppedBy \cup {i} |-> IF j = i THEN why ELSE droppedBy[j]]

-----------------------------------------------------------------------------
(* The converter.                                                           *)

\* hist and summ: a histogram and a summary of one series are different accumulators.
AccKey(s) == <<s.part \in {"quantile", "qsum"}, s.series>>

\* What is kept sample by sample; a sum replaces the one before it.
Kept(s) == s.part \in {"bucket", "quantile"}

\* charge: a new accumulator costs its overhead, a bucket or quantile its own.
Cost(s, known) == (IF known THEN 0 ELSE 1) + (IF Kept(s) THEN 1 ELSE 0)

\* add: a component joins its accumulator or is dropped against the budget; an
\* overhead charged before the component was refused stays charged.
AddSample(i) ==
  LET s     == body[i]
      k     == AccKey(s)
      known == k \in DOMAIN accs
      opens == known \/ accBytes + 1 <= MaxFamilyAcc
      base  == accBytes + (IF known THEN 0 ELSE 1)
      fits  == opens /\ accBytes + Cost(s, known) <= MaxFamilyAcc
  IN  /\ family' = s.fam
      /\ \/ /\ s.part = "num"
            /\ Check(AddNumber(points, i), "read", "abort")
            /\ UNCHANGED <<order, accs, accBytes, droppedBy>>
         \/ /\ s.part # "num" /\ s.fate = "bad"
            /\ Drop(i, "malformed")
            /\ UNCHANGED <<order, accs, accBytes, points, chunks, lostChunks, exportFailed, failure, spc>>
         \/ /\ s.part # "num" /\ s.fate # "bad"
            /\ accs' = IF opens THEN [x \in DOMAIN accs \cup {k} |->
                                        IF x # k THEN accs[x]
                                        ELSE (IF known THEN accs[x] ELSE {}) \cup (IF fits THEN {i} ELSE {})]
                       ELSE accs
            /\ order' = IF known \/ ~opens THEN order ELSE Append(order, k)
            /\ accBytes' = IF fits THEN accBytes + Cost(s, known) ELSE IF opens THEN base ELSE accBytes
            /\ IF fits THEN UNCHANGED droppedBy ELSE Drop(i, "accumulator")
            /\ UNCHANGED <<points, chunks, lostChunks, exportFailed, failure, spc>>

\* flushFamily, one accumulator at a time: after a failed export the rest are
\* still moved into the chunk, without another attempt.
FlushOne ==
  /\ spc = "flush" /\ order # <<>>
  /\ LET ps == AddAccumulated(points, accs[Head(order)])
     IN  IF flushErr THEN points' = ps /\ UNCHANGED <<chunks, lostChunks, exportFailed, failure, spc>>
         ELSE Check(ps, "flush", "flush")
  /\ order' = Tail(order)
  /\ flushErr' = (flushErr \/ lostChunks' # lostChunks)
  /\ UNCHANGED <<body, mode, pos, family, accs, accBytes, droppedBy, ctxDone, after>>

FlushEnd ==
  /\ spc = "flush" /\ order = <<>>
  /\ accs' = [k \in {} |-> {}] /\ accBytes' = 0
  /\ spc' = IF flushErr THEN IF after = "last" THEN "done" ELSE "abort" ELSE after
  /\ UNCHANGED <<body, mode, pos, family, order, points, chunks, lostChunks, droppedBy, exportFailed,
                 ctxDone, after, flushErr, failure>>

FlushFamily(next) ==
  /\ spc' = "flush" /\ after' = next /\ flushErr' = FALSE
  /\ UNCHANGED <<body, mode, pos, convVars, points, chunks, lostChunks, droppedBy, exportFailed, ctxDone, failure>>

-----------------------------------------------------------------------------
(* Reading: accept (countNative counts the same way), keep, and the end of a  *)
(* protobuf family or of a pod of the summary.                                *)

\* A line that does not parse, labels that are not valid text, a family or a
\* pod that does not decode: counted, never a sample.
Malformed(s) == s.fate = "badline"

\* MetricFilter and relabelFilter: memoised verdicts on name and labels.
FilterKeeps(s)  == s.fate # "filter"
RelabelKeeps(s) == s.fate # "relabel"
Keep(s) == FilterKeeps(s) /\ RelabelKeeps(s)

\* Samples the limit counts, filtered ones included.
Counted(i) == Cardinality({j \in 1..i : ~Malformed(body[j])})

\* A native histogram goes straight to the batcher, past the converter and its
\* open family; flushIfFull follows.
AddNative(i) ==
  /\ IF body[i].fate = "bad"
     THEN Drop(i, "malformed") /\ UNCHANGED <<points, spc>>
     ELSE /\ points' = AddNumber(points, i) /\ UNCHANGED droppedBy
          /\ spc' = IF Full(AddNumber(points, i)) THEN "full" ELSE "read"
  /\ UNCHANGED <<chunks, lostChunks, exportFailed, failure>>

\* Between two protobuf families, or two pods of the summary, a full chunk leaves.
FamilyEnds ==
  /\ mode \in {"proto", "summary"} /\ 0 < pos /\ Full(points)
  /\ pos < Len(body) => body[pos + 1].fam # body[pos].fam

Abort(why) ==
  /\ spc' = "abort" /\ failure' = IF failure = "none" THEN why ELSE failure
  /\ UNCHANGED <<body, mode, convVars, points, chunks, lostChunks, droppedBy, exportFailed, ctxDone, after, flushErr>>

Accept ==
  /\ spc = "read" /\ pos < Len(body) /\ ~ctxDone /\ ~FamilyEnds
  /\ LET i == pos + 1
         s == body[i]
         over == mode # "summary" /\ MaxSamples > 0 /\ ~Malformed(s) /\ Counted(i) > MaxSamples
     IN  \/ over /\ pos' = i /\ Abort("limit")
         \/ /\ ~over /\ (Malformed(s) \/ ~Keep(s))
            /\ pos' = i /\ Drop(i, s.fate)
            /\ UNCHANGED <<body, mode, convVars, points, chunks, lostChunks, exportFailed,
                           ctxDone, spc, after, flushErr, failure>>
         \/ /\ ~over /\ ~Malformed(s) /\ Keep(s) /\ s.part = "native"
            /\ pos' = i /\ AddNative(i)
            /\ UNCHANGED <<body, mode, convVars, ctxDone, after, flushErr>>
         \/ /\ ~over /\ ~Malformed(s) /\ Keep(s) /\ s.part # "native" /\ order # <<>> /\ s.fam # family
            /\ FlushFamily("read")
         \/ /\ ~over /\ ~Malformed(s) /\ Keep(s) /\ s.part # "native" /\ (order = <<>> \/ s.fam = family)
            /\ pos' = i /\ AddSample(i)
            /\ UNCHANGED <<body, mode, ctxDone, after, flushErr>>

\* flushIfFull, after a native histogram and where a family ends: the open family is
\* finished first, and its own exports may have emptied the chunk.
FlushIfFull ==
  /\ spc = "full" \/ (spc = "read" /\ FamilyEnds)
  /\ IF order # <<>> THEN FlushFamily("chunk")
     ELSE /\ Export(points, "read", "abort")
          /\ UNCHANGED <<body, mode, pos, convVars, droppedBy, ctxDone, after, flushErr>>

ChunkAfterFlush ==
  /\ spc = "chunk"
  /\ IF points = <<>> THEN spc' = "read" /\ UNCHANGED <<points, chunks, lostChunks, exportFailed, failure>>
     ELSE Export(points, "read", "abort")
  /\ UNCHANGED <<body, mode, pos, convVars, droppedBy, ctxDone, after, flushErr>>

\* The body breaks off, or the deadline ends the read.
ReadFails ==
  /\ spc = "read" /\ ~FamilyEnds
  /\ UNCHANGED pos /\ Abort("body")

Deadline ==
  /\ ~ctxDone /\ spc # "done"
  /\ ctxDone' = TRUE
  /\ UNCHANGED <<body, mode, pos, convVars, points, chunks, lostChunks, droppedBy, exportFailed,
                 spc, after, flushErr, failure>>

BodyEnds ==
  /\ spc = "read" /\ pos = Len(body) /\ ~ctxDone /\ ~FamilyEnds
  /\ FlushFamily("last")

-----------------------------------------------------------------------------
(* The end: the last chunk, or salvage of what an aborted scrape had read.    *)

\* Mutant: salvage does not look at why the scrape ended.
SalvageAlways == mode # "summary"

\* salvage: nothing more is offered after a failed export, nor once the
\* context is done; a summary is not salvaged.
Salvage == mode # "summary" /\ ~exportFailed /\ ~ctxDone

AbortScrape ==
  /\ spc = "abort"
  /\ IF Salvage THEN FlushFamily("last")
     ELSE /\ spc' = "done"
          /\ UNCHANGED <<body, mode, pos, convVars, points, chunks, lostChunks, droppedBy, exportFailed,
                         ctxDone, after, flushErr, failure>>

\* What finish left in the chunk.
LastChunk ==
  /\ spc = "last"
  /\ IF points = <<>>
     THEN spc' = "done" /\ UNCHANGED <<points, chunks, lostChunks, exportFailed, failure>>
     ELSE Export(points, "done", "done")
  /\ UNCHANGED <<body, mode, pos, convVars, droppedBy, ctxDone, after, flushErr>>

SessionNext ==
  \/ Accept \/ FlushOne \/ FlushEnd \/ FlushIfFull \/ ChunkAfterFlush \/ ReadFails \/ Deadline
  \/ BodyEnds \/ AbortScrape \/ LastChunk

SessionSpec == SessionInit /\ [][SessionNext]_sessionVars

-----------------------------------------------------------------------------
InChunk(ps) == UNION {ps[n] : n \in DOMAIN ps}
InPoints(cs) == UNION {InChunk(cs[c]) : c \in DOMAIN cs}

\* What the converter pays for sample by sample.
Retained == {i \in UNION {accs[k] : k \in DOMAIN accs} : Kept(body[i])}

\* Two components of one histogram or summary, with nothing of another family
\* between them.
ReadTogether(i, j) ==
  /\ body[i].part \in Component /\ body[j].part \in Component
  /\ AccKey(body[i]) = AccKey(body[j])
  /\ \A k \in 1..Len(body) : (i <= k /\ k <= j) \/ (j <= k /\ k <= i) => body[k].fam = body[i].fam

\* A point that holds one of them holds every other that was read and not counted
\* as dropped.
Whole(point) ==
  \A i \in point : \A j \in 1..pos :
    ReadTogether(i, j) => j \in point \/ j \in DOMAIN droppedBy \/ (failure = "limit" /\ j = pos)

SentTwice == \E c, d \in DOMAIN chunks : \E p \in DOMAIN chunks[c], q \in DOMAIN chunks[d] :
               <<c, p>> # <<d, q>> /\ chunks[c][p] \cap chunks[d][q] # {}

(* A finished scrape can answer for every sample it read.  One reported up    *)
(* has delivered each of them or counted why not; no sample is exported       *)
(* twice, by an early chunk and by the salvage of an aborted scrape; once an  *)
(* export failed the scrape offers nothing more, so an outage costs one       *)
(* export per scrape; a histogram whose buckets were read together is one     *)
(* point, whatever chunk boundary falls among its family, so a delivered      *)
(* point lacks none of them that was not counted; and what the converter      *)
(* retains of one family stays within its budget.                             *)
ScrapeAccounted ==
  /\ spc = "done" /\ failure = "none" =>
       \A i \in 1..Len(body) : i \in InPoints(chunks) \/ i \in DOMAIN droppedBy
  /\ spc = "done" /\ failure # "none" /\ Salvage =>
       \A i \in 1..pos : i \in InPoints(chunks) \cup DOMAIN droppedBy
                        \/ (failure = "limit" /\ i = pos)
  /\ ~SentTwice
  /\ InPoints(chunks) \cap DOMAIN droppedBy = {}
  /\ Len(lostChunks) <= 1
  /\ \A c \in DOMAIN chunks : chunks[c] # <<>> /\ (mode = "text" => Len(chunks[c]) <= BatchPoints)
  /\ \A c \in DOMAIN chunks : \A p \in DOMAIN chunks[c] : Whole(chunks[c][p])
  /\ accBytes <= MaxFamilyAcc /\ Cardinality(Retained) <= MaxFamilyAcc
=============================================================================
