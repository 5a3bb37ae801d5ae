------------------------------ MODULE MCScraper ------------------------------
(***************************************************************************)
(* The parts of the scraper, each checked on its own small instance: part  *)
(* says which one a behaviour is about, and the others keep still.         *)
(***************************************************************************)
EXTENDS ScrapeSession, ScrapeSchedule, Attribution, ScrapeAuth, CgroupStats, TLC

CONSTANTS t1, t2, cadvisor, p1, p2, r1

VARIABLE part
vars == <<part, sessionVars, schedVars, attrVars, authVars, cgVars>>

S(f, p, r, d) == [fam |-> f, part |-> p, series |-> r, fate |-> d]

\* A histogram cut by a chunk boundary, with a malformed bucket; filtered and
\* relabelled numbers over three families; a family past its memory budget; native
\* histograms read while a classic family of one series, or of two, is open, and a
\* series read again after them.
MCExpositions ==
  { << S("g", "num", 1, "keep"), S("h", "bucket", 1, "keep"), S("h", "bucket", 2, "keep"),
       S("h", "sum", 1, "keep"), S("h", "bucket", 1, "bad"), S("q", "quantile", 1, "keep"),
       S("q", "qsum", 1, "keep") >>,
    << S("g", "num", 1, "keep"), S("g", "num", 2, "filter"), S("g", "num", 3, "keep"),
       S("n", "num", 1, "badline"), S("n", "num", 2, "relabel"), S("m", "num", 1, "keep") >>,
    << S("h", "bucket", 1, "keep"), S("h", "bucket", 1, "keep"), S("h", "bucket", 2, "keep"),
       S("h", "bucket", 1, "keep"), S("h", "sum", 2, "keep"), S("g", "num", 1, "keep") >>,
    << S("h", "bucket", 1, "keep"), S("h", "sum", 1, "keep"), S("n", "native", 1, "keep"),
       S("n", "native", 2, "bad"), S("n", "native", 3, "keep"), S("h", "bucket", 1, "keep") >>,
    << S("h", "bucket", 1, "keep"), S("h", "bucket", 2, "keep"), S("h", "sum", 1, "keep"),
       S("n", "native", 1, "keep"), S("n", "native", 2, "keep"), S("n", "native", 3, "filter") >> }

\* A slow target beside a fast one; the slow one faster, the other without an
\* interval; none.
MCOffers == { [t \in {t1, t2} |-> IF t = t1 THEN 8 ELSE 2],
              [t \in {t1, t2} |-> IF t = t1 THEN 2 ELSE 0],
              [t \in {} |-> 0] }

\* The summary names containers and dates them; cadvisor has their ids.
MCShapes == [s \in {"summary", "cadvisor"} |->
               IF s = "summary" THEN {{"pod", "uid", "container", "dated"}}
               ELSE {{"pod", "uid", "id", "container"}}]

\* A target with a token, one with a certificate and a server name, one with the name only.
MCAuthTargets == {[header |-> <<r1>>, tls |-> << >>, name |-> "none"], [header |-> << >>, tls |-> <<r1>>, name |-> "n"],
                  [header |-> << >>, tls |-> << >>, name |-> "n"]}

\* The counters advance, are read too soon, go back, or cannot be read.
MCReads == {<<"later", TRUE>>, <<"soon", FALSE>>, <<"reset", TRUE>>, <<"error", FALSE>>}
MCIdOrder == <<"a", "b">>

\* Several passes over changing directories; a container sampled while it moves;
\* one sampled until it is retired.
MCCgBudgets == {[passes |-> 3, samples |-> 0, exports |-> 1, churn |-> 3],
                [passes |-> 2, samples |-> 2, exports |-> 1, churn |-> 2],
                [passes |-> 2, samples |-> 3, exports |-> 3, churn |-> 1]}

Init ==
  /\ part \in {"session", "schedule", "attribution", "auth", "cgroups"}
  /\ IF part = "cgroups" THEN TRUE ELSE budget = [passes |-> 3, samples |-> 0, exports |-> 1, churn |-> 3]
  /\ SessionInit /\ ScheduleInit /\ AttributionInit /\ AuthInit /\ CgInit
  /\ part # "session" => mode = "text" /\ body = (CHOOSE e \in Expositions : TRUE)
  /\ part # "schedule" => served = (CHOOSE o \in Offers : TRUE)

Next ==
  \/ part = "session" /\ SessionNext /\ UNCHANGED <<part, schedVars, attrVars, authVars, cgVars>>
  \/ part = "schedule" /\ ScheduleNext /\ UNCHANGED <<part, sessionVars, attrVars, authVars, cgVars>>
  \/ part = "attribution" /\ AttributionNext /\ UNCHANGED <<part, sessionVars, schedVars, authVars, cgVars>>
  \/ part = "auth" /\ AuthNext /\ UNCHANGED <<part, sessionVars, schedVars, attrVars, cgVars>>
  \/ part = "cgroups" /\ CgNext /\ UNCHANGED <<part, sessionVars, schedVars, attrVars, authVars>>

Spec == Init /\ [][Next]_vars

ScrapeSymmetry == Permutations({p1, p2})
=============================================================================
