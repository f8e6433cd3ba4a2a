---------------------------- MODULE MetricHistory ----------------------------
(* The metrics of one server: raw samples, the 6h rollup with its checkpoint, the
   maintenance loop that materializes and prunes them (metric_rollup.go,
   metrics_maintenance.go), and a bounded history query, statement by statement,
   that stitches both (metric_budget.go, metric_budget_query.go).

   A sample is its time, and a gauge of a bucket is the set of samples behind it,
   since average, maximum and count are functions of that set.  A rate is
   represented by its coverage, the seconds that carry a valid counter delta. *)
EXTENDS Integers, FiniteSets, FiniteSetsExt

CONSTANTS Bucket,        \* RollupBucket
          Retention,     \* MetricsRetention and RollupBackfillWindow
          RefreshWindow, \* RollupRefreshWindow
          Late, Early,   \* how far behind or ahead of the Hub a sample is accepted
          Gap,           \* gapThreshold
          Chunk,         \* chunk interval of the hypertable
          MaxRawSamples, \* raw budget of a query
          MaxQueryRange, \* longest query
          Reboot,        \* samples from this time on carry another boot id
          Reset,         \* from this time on the counter has started again
          Unmeasured,    \* the samples without the counter
          MaxTime, MaxSamples,    \* bounds: clock and samples stored
          None

ASSUME Shape == /\ Late < RefreshWindow /\ RefreshWindow <= Retention
                /\ Retention % Bucket = 0 /\ MaxQueryRange <= Retention

VARIABLES now,
          raw,         \* the metrics table
          rollup,      \* metrics_rollup_6h: a row for each bucket start in its domain
          checkpoint,  \* completed_through; None without a row
          job,         \* the maintenance cycle under way
          backfilled,  \* the first refresh after the start has been tried
          query,
          stored,      \* every sample ever stored
          folded,      \* every sample that was materialized at some time
          excused      \* samples that came too late, or that a refresh was too late for

vars == <<now, raw, rollup, checkpoint, job, backfilled, query, stored, folded, excused>>

BucketStart(t) == t - (t % Bucket)
In(S, from, to) == {t \in S : from <= t /\ t < to}
Starts(from, to) == {b \in BucketStart(from) .. (to - 1) : b % Bucket = 0}
Least(a, b) == IF a < b THEN a ELSE b
Most(a, b) == IF a > b THEN a ELSE b

----------------------------------------------------------------------------
(* deltaSamplesCTE: the samples scanned, the adjacent pairs with a valid rate, and
   the overlap of a pair with its bucket and with the window. *)
Bounded(S, from, to) ==
  In(S, from, to) \cup (LET before == {t \in S : t < from}
                        IN IF before = {} THEN {} ELSE {Max(before)})
Boot(t) == IF t < Reboot THEN 1 ELSE 2
Counter(t) == IF t < Reset THEN t ELSE t - Reset
HasRate(prev, time) ==
  /\ {prev, time} \cap Unmeasured = {} /\ Boot(time) = Boot(prev)
  /\ Counter(time) >= Counter(prev) /\ time - prev > 0 /\ time - prev <= Gap
ValidPairs(S) ==
  {p \in S \X S : HasRate(p[1], p[2]) /\ ~\E t \in S : p[1] < t /\ t < p[2]}
Weight(p, b, from, to) ==
  Most(0, Least(p[2], Least(b + Bucket, to)) - Most(p[1], Most(b, from)))
Coverage(S, b, from, to) == MapThenSumSet(LAMBDA p : Weight(p, b, from, to), ValidPairs(S))

Aggregate(S, b, from, to) ==
  [samples |-> In(S, Most(b, from), Least(b + Bucket, to)), cover |-> Coverage(S, b, from, to)]

----------------------------------------------------------------------------
NoJob == [pc |-> "idle", now |-> 0, window |-> 0, pending |-> FALSE]
NoQuery == [pc |-> "idle", from |-> 0, to |-> 0, closed |-> 0, confirmed |-> {},
            spans |-> {}, budget |-> 0, got |-> {}, due |-> {}]

Init ==
  /\ now = 0 /\ raw = {} /\ rollup = <<>> /\ checkpoint = None
  /\ job = NoJob /\ backfilled = FALSE /\ query = NoQuery
  /\ stored = {} /\ folded = {} /\ excused = {}

Tick ==
  /\ now < MaxTime
  /\ now' = now + 1
  /\ UNCHANGED <<raw, rollup, checkpoint, job, backfilled, query, stored, folded, excused>>

(* Ingest: a sample may arrive late, from the agent's outbox, and the agent's clock
   may be ahead. *)
Store(t) ==
  /\ t <= now + Early /\ now - t <= Late /\ t \notin stored /\ Cardinality(stored) < MaxSamples
  /\ raw' = raw \cup {t} /\ stored' = stored \cup {t}
  /\ excused' = IF checkpoint = None THEN {} ELSE excused \cup In({t}, 0, checkpoint)
  /\ UNCHANGED <<now, rollup, checkpoint, job, backfilled, query, folded>>

----------------------------------------------------------------------------
(* Run: a refresh over the whole retention after the start, then refreshes of the
   recent window and prunes, one at a time. *)
Refresh ==
  /\ job.pc = "idle"
  /\ job' = [NoJob EXCEPT !.pc = "refresh", !.now = now,
                          !.window = IF backfilled THEN RefreshWindow ELSE Retention]
  /\ backfilled' = TRUE
  /\ UNCHANGED <<now, raw, rollup, checkpoint, query, stored, folded, excused>>

RollupStart ==
  LET floor == BucketStart(Most(0, job.now - Retention))
      start == Most(BucketStart(Most(0, job.now - job.window)), floor)
  IN IF checkpoint = None THEN start ELSE Most(Least(start, checkpoint), floor)
ServersNeedingRollup(closed) ==
  \/ \E t \in raw : t >= closed - job.window
  \/ IF checkpoint = None THEN \E t \in raw : t >= closed - Retention ELSE checkpoint < closed

(* materializeBuckets: an upsert of every bucket in [from, to), the empty ones
   included, that never replaces samples by none. *)
Upsert(b, from, to) ==
  LET a == Aggregate(Bounded(raw, from - Gap, to), b, from, to)
  IN IF b \in DOMAIN rollup /\ a.samples = {} /\ rollup[b].samples # {} THEN rollup[b] ELSE a
MaterializeBuckets(from, to) ==
  [b \in DOMAIN rollup \cup Starts(from, to) |->
     IF b \in Starts(from, to) THEN Upsert(b, from, to) ELSE rollup[b]]

RefreshRollups ==
  LET closed == BucketStart(job.now)
  IN /\ job.pc = "refresh"
     /\ job' = NoJob
     /\ excused' = {t \in excused : t < job.now - RefreshWindow}
                     \cup {t \in raw \ folded :
                             \/ t < BucketStart(job.now - Retention)
                             \/ checkpoint = None /\ t < BucketStart(job.now - job.window)}
     /\ IF ServersNeedingRollup(closed) /\ RollupStart < closed
          THEN /\ rollup' = MaterializeBuckets(RollupStart, closed)
               /\ checkpoint' = closed
               /\ folded' = folded \cup In(raw, RollupStart, closed)
          ELSE UNCHANGED <<rollup, checkpoint, folded>>
     /\ UNCHANGED <<now, raw, backfilled, query, stored>>

RefreshFails ==
  /\ job.pc = "refresh"
  /\ job' = NoJob
  /\ UNCHANGED <<now, raw, rollup, checkpoint, backfilled, query, stored, folded, excused>>

(* PlanPrune: a server with raw data older than the cutoff that its checkpoint
   does not cover is left alone. *)
UnaggregatedIgnored(cutoff) == FALSE
HasUnaggregated(cutoff) ==
  \E t \in raw : t < cutoff /\ (IF checkpoint = None THEN TRUE ELSE t >= checkpoint)
PlanPrune ==
  /\ job.pc = "idle" /\ backfilled
  /\ job' = [NoJob EXCEPT !.pc = "prune", !.now = now, !.pending = HasUnaggregated(now - Retention)]
  /\ UNCHANGED <<now, raw, rollup, checkpoint, backfilled, query, stored, folded, excused>>

(* dropPrunableChunks: the longest prefix of the chunks below the cutoff in which no
   chunk holds samples of a server that is pending. *)
ChunkHoldsPendingRaw(c) == job.pending /\ In(raw, c, c + Chunk) # {}
DropPrunableChunks(cutoff) ==
  LET chunks == {c \in 0 .. cutoff - Chunk : c % Chunk = 0}
      prefix == {c \in chunks : \A d \in chunks : d <= c => ~ChunkHoldsPendingRaw(d)}
  IN {t \in raw : \A c \in prefix : t >= c + Chunk}

(* One transaction: the chunks, then the rows of a server that is not pending. A
   rollup row goes when its bucket starts before the cutoff. *)
PrunedWhole(b, cutoff) == b + Bucket <= cutoff
PrunedBucket(b, cutoff) == b < cutoff
PruneMetrics ==
  LET cutoff == job.now - Retention
      kept == DropPrunableChunks(cutoff)
  IN /\ job.pc = "prune"
     /\ job' = NoJob
     /\ IF job.pending
          THEN raw' = kept /\ UNCHANGED rollup
          ELSE /\ raw' = {t \in kept : t >= cutoff}
               /\ rollup' = [b \in {c \in DOMAIN rollup : ~PrunedBucket(c, cutoff)} |-> rollup[b]]
     /\ UNCHANGED <<now, checkpoint, backfilled, query, stored, folded, excused>>

(* Retention disabled or dry run, or a failed transaction *)
PruneSkipped ==
  /\ job.pc = "prune"
  /\ job' = NoJob
  /\ UNCHANGED <<now, raw, rollup, checkpoint, backfilled, query, stored, folded, excused>>

(* The Hub restarts: the next refresh backfills. *)
Restart ==
  /\ job' = NoJob /\ backfilled' = FALSE /\ query' = NoQuery
  /\ UNCHANGED <<now, raw, rollup, checkpoint, stored, folded, excused>>

----------------------------------------------------------------------------
(* QueryWithBudget over [from, to): the samples that it owes are those stored when
   it starts, except late ones that no refresh has folded into their bucket yet. *)
Owed(from, to) ==
  {t \in In(stored, from, to) : t \in folded \/ (IF checkpoint = None THEN TRUE ELSE t >= checkpoint)}
Planned(from, to) == Cardinality(Bounded(raw, from, to))
QueryOnly == UNCHANGED <<now, raw, rollup, checkpoint, job, backfilled, stored, folded, excused>>

(* Validation touches no state, so that the query starts with probeRawSamples. *)
QueryWithBudget(from, to) ==
  /\ query.pc = "idle" /\ from < to /\ to <= now + 1 /\ to - from <= MaxQueryRange
  /\ query' = LET q == [NoQuery EXCEPT !.from = from, !.to = to, !.due = Owed(from, to)]
              IN IF Planned(from, to) <= MaxRawSamples
                   THEN [q EXCEPT !.pc = "within", !.spans = {<<from, to>>}]
                   ELSE [q EXCEPT !.pc = "confirm", !.closed = BucketStart(now)]
  /\ QueryOnly

ConfirmedBuckets ==
  /\ query.pc = "confirm"
  /\ query' = [query EXCEPT !.pc = "rows",
                 !.confirmed = IF checkpoint = None THEN {}
                               ELSE {b \in Starts(query.from, query.to) : b + Bucket <= checkpoint}]
  /\ QueryOnly

(* queryRollupWithEdges: a bucket comes from its row when it lies in the range, is
   closed and confirmed, and the row exists; the others are read from raw. *)
FromRollupUnchecked(b) ==
  /\ query.from <= b /\ b + Bucket <= query.to /\ b + Bucket <= query.closed
  /\ b \in query.confirmed
FromRollup(b) ==
  /\ query.from <= b /\ b + Bucket <= query.to /\ b + Bucket <= query.closed
  /\ b \in query.confirmed /\ b \in DOMAIN rollup
RawSpans(edges) ==
  {<<Most(b, query.from),
     Least(Min({e \in b .. query.to + Bucket : e % Bucket = 0 /\ e \notin edges}), query.to)>> :
   b \in {c \in edges : c - Bucket \notin edges}}
QueryRollupWithEdges ==
  LET served == {b \in Starts(query.from, query.to) : FromRollup(b)}
      edges == Starts(query.from, query.to) \ served
  IN /\ query.pc = "rows"
     /\ query' = [query EXCEPT !.pc = "raw", !.confirmed = {}, !.closed = 0,
                    !.got = UNION {IF b \in DOMAIN rollup THEN rollup[b].samples ELSE {} : b \in served},
                    !.spans = RawSpans(edges)]
     /\ QueryOnly

RawBuckets(from, to) ==
  [b \in Starts(from, to) |-> Aggregate(Bounded(raw, from, to), b, from, to)]

(* A range within the budget is read without another probe.  Otherwise the reads are
   bounded, and the budget holds for all of them together. *)
QueryRawBuckets ==
  /\ query.pc \in {"within", "raw"}
  /\ \E s \in query.spans :
       /\ \A o \in query.spans : s[1] <= o[1]
       /\ LET total == query.budget + Planned(s[1], s[2])
          IN query' = IF query.pc = "raw" /\ total > MaxRawSamples
                      THEN NoQuery                                \* metrics_rollup_not_ready
                      ELSE [query EXCEPT
                              !.spans = @ \ {s}, !.budget = total,
                              !.got = @ \cup UNION {RawBuckets(s[1], s[2])[b].samples :
                                                      b \in Starts(s[1], s[2])}]
  /\ QueryOnly

Respond ==
  /\ query.pc \in {"within", "raw"} /\ query.spans = {}
  /\ query' = NoQuery
  /\ QueryOnly

Next ==
  \/ Tick \/ \E t \in 0 .. MaxTime : Store(t)
  \/ Refresh \/ RefreshRollups \/ RefreshFails \/ PlanPrune \/ PruneMetrics \/ PruneSkipped \/ Restart
  \/ \E from, to \in 0 .. MaxTime + 1 : QueryWithBudget(from, to)
  \/ ConfirmedBuckets \/ QueryRollupWithEdges \/ QueryRawBuckets \/ Respond

Spec == Init /\ [][Next]_vars

----------------------------------------------------------------------------
(* PruneMetrics "pauses ... instead of deleting data that was never aggregated":
   each sample that left the raw table had been materialized into its bucket, unless
   it came behind the checkpoint and no refresh succeeded while it lay in the refresh
   window, or the first refresh after it came when it had left the retention or, for
   a server without a checkpoint, the window. *)
DeletedWasAggregated == stored \ raw \subseteq folded \cup excused

(* "the source ranges are mutually exclusive, so no sample is counted twice or
   dropped": an answer holds every sample that was owed when the query began and is
   still inside the retention when it is given, whatever the maintenance did
   between its statements. *)
NothingDropped ==
  query.pc \in {"within", "raw"} /\ query.spans = {} =>
    {t \in query.due : t >= now - Retention} \subseteq query.got

(* Materialized history is never impoverished: while a row exists, a refresh, also
   one after its raw samples were pruned, only adds samples to it. *)
HistoryKept ==
  [][\A b \in DOMAIN rollup \cap DOMAIN rollup' : rollup[b].samples \subseteq rollup'[b].samples]_vars

(* A pair that crosses a bucket boundary is split and not charged to one bucket: the
   coverage of a row is at most the time in its bucket that lies between two stored
   samples of one boot within the gap threshold, which both carry a counter that did
   not start again between them. *)
CoverageSound ==
  \A b \in DOMAIN rollup : rollup[b].cover <=
    Cardinality({u \in b .. b + Bucket - 1 :
      \E x, y \in stored \ Unmeasured :
        /\ x <= u /\ u < y /\ y - x <= Gap
        /\ x < Reboot <=> y < Reboot
        /\ ~(x < Reset /\ Reset <= y)})

(* What retention leaves behind is complete and charges no time twice. *)
RollupsSound == DeletedWasAggregated /\ CoverageSound
============================================================================
