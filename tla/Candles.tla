------------------------------- MODULE Candles -------------------------------
(***************************************************************************)
(* The minute candles of one symbol and the candles of one longer period,  *)
(* as the sorted sets kline:exchange:symbol:1m and :5m ... :8h of Redis    *)
(* hold them, and the four programs that share these keys:                 *)
(*   - the server's RedisRecorder, on the thread of the feed;              *)
(*   - data_recorder, which takes the candles the server publishes, stores *)
(*     them and aggregates them;                                           *)
(*   - kline_gap_filler and kline_fast_filler, started by an operator one  *)
(*     after the other, which fill holes from the exchange's history.      *)
(*                                                                         *)
(* Time is counted in minutes from the start of the fillers' window of 60  *)
(* days; minute t is candle t, forming until now > t. A member of the 1m   *)
(* key is a minute and which text it is: the n-th push of the feed (its    *)
(* timestamp_ns differs each time) or the REST answer, which carries none. *)
(* A member of the longer key is a period and what it was made of: which   *)
(* minutes, and how many candles (their order is that of the minutes).     *)
(* One command, script or pipeline of ZADDs is one step. Eviction and      *)
(* expiry (a month and more) are beyond the instances and left out, and    *)
(* Redis stays reachable.                                                  *)
(***************************************************************************)
EXTENDS Integers, Sequences, FiniteSets, FiniteSetsExt, SequencesExt

CONSTANTS
  N,           \* minutes in one longer period
  LastMinute,  \* bound: minutes 0 .. LastMinute
  Listed,      \* the first minute the exchange has a candle of
  Page,        \* candles in one answer of the exchange's history
  Hour,        \* minutes in a block of the fast filler
  MaxLost,     \* bound: candles a program never receives
  MaxPushes,   \* bound: times the feed pushes the same closed candle
  MaxFills     \* bound: runs of the fillers

ASSUME PeriodAssumption == N \in Nat \ {0} /\ Page \in Nat \ {0} /\ Hour \in Nat \ {0}
ASSUME CandleBounds ==
  /\ LastMinute \in Nat /\ Listed \in Nat /\ MaxLost \in Nat
  /\ MaxPushes \in Nat \ {0} /\ MaxFills \in Nat

Minutes == 0 .. LastMinute
Period(t) == t \div N
MinutesOf(p) == {t \in Minutes : Period(t) = p}
Rest == 0       \* the text of a candle written by a filler
Texts == 0 .. MaxPushes
Keys == {"1m", "up"}
NoPeriod == -1

VARIABLES
  exchange,    \* "okx" or "binance": their histories are paged differently
  now,         \* the forming minute
  wire,        \* closed candles the server has not handled yet
  recording,   \* the published candle RedisRecorder stores next
  bus,         \* candles published, not yet taken by data_recorder
  key,         \* [k] members of the sorted set
  agg,         \* AggregationState of the longer period
  met,         \* history: periods data_recorder aggregated a minute of since it started
  taking,      \* where process_market_data is
  filler,      \* where kline_gap_filler is
  snapshot,    \* what it read last
  gaps,        \* gaps it still has to fill
  seen,        \* its clock when it looked for gaps
  complete,    \* every request to the exchange was answered
  fast,        \* where kline_fast_filler is
  blocks,      \* missing_chunks of its coarse scan
  span,        \* the first and last minute it saw
  doubled,       \* history: minutes stored twice when it counted
  lost, fills

feedVars == <<exchange, now, wire, recording, bus, lost>>
recorderVars == <<agg, met, taking>>
fillerVars == <<filler, snapshot, gaps, seen, complete>>
fastVars == <<fast, blocks, span, doubled>>
candleVars == <<feedVars, key, recorderVars, fillerVars, fastVars, fills>>

Candle == [t: Minutes, text: Texts]
Stored(k) == {c.t : c \in key[k]}
WithMinute(t) == {c \in key["1m"] : c.t = t}

(* Candles collected for a longer one: their minutes and how many they are. *)
Made(minutes, n) == [minutes |-> minutes, n |-> n]
Nothing == Made({}, 0)
With(src, t) == Made(src.minutes \cup {t}, src.n + 1)

(* A candle of period p made of src.                                       *)
Bar(p, src) == [t |-> p, src |-> src]
NoBar == Bar(NoPeriod, Nothing)
Whole(b) == b.src = Made(MinutesOf(b.t), N)

NoAggregation == [period |-> NoPeriod, src |-> Nothing, last |-> NoPeriod]
IdleRecorder == [at |-> "idle", c |-> [t |-> NoPeriod, text |-> Rest], out |-> NoBar, how |-> "none"]

(* The recorders have started and are connected to Redis.                  *)
CandlesInit ==
  /\ exchange \in {"okx", "binance"}
  /\ now = 0
  /\ wire = <<>> /\ recording = <<>> /\ bus = <<>>
  /\ key = [k \in Keys |-> {}]
  /\ agg = NoAggregation /\ met = {}
  /\ taking = IdleRecorder
  /\ filler = "idle" /\ snapshot = {} /\ gaps = {} /\ seen = 0 /\ complete = TRUE
  /\ fast = "idle" /\ blocks = {} /\ span = <<0, 0>> /\ doubled = {}
  /\ lost = 0 /\ fills = 0

-----------------------------------------------------------------------------
(* The feed and the server.                                                *)

(* A minute ends and its closed candle is on its way, or never comes.      *)
MinuteEnds ==
  /\ now <= LastMinute
  /\ now' = now + 1
  /\ \/ /\ wire' = Append(wire, [t |-> now, text |-> 1])
        /\ UNCHANGED lost
     \/ /\ lost < MaxLost
        /\ lost' = lost + 1
        /\ UNCHANGED wire
  /\ UNCHANGED <<exchange, recording, bus, key, recorderVars, fillerVars, fastVars, fills>>

(* The exchange pushes the last closed candle again.                       *)
PushedAgain ==
  /\ wire # <<>>
  /\ Last(wire).text < MaxPushes
  /\ wire' = Append(wire, [Last(wire) EXCEPT !.text = @ + 1])
  /\ UNCHANGED <<exchange, now, recording, bus, lost, key, recorderVars, fillerVars, fastVars, fills>>

(* The callback publishes a confirmed candle; data_recorder may not get it *)
(* (its queue is full, or it is not running).                              *)
PublishKline ==
  /\ wire # <<>> /\ recording = <<>>
  /\ recording' = <<Head(wire)>>
  /\ wire' = Tail(wire)
  /\ \/ bus' = Append(bus, Head(wire)) /\ UNCHANGED lost
     \/ lost < MaxLost /\ lost' = lost + 1 /\ UNCHANGED bus
  /\ UNCHANGED <<exchange, now, key, recorderVars, fillerVars, fastVars, fills>>

(* RedisRecorder::record_kline: a plain ZADD. The aggregation it starts    *)
(* throws on the candle's numbers before it stores anything.               *)
RecordKline ==
  /\ recording # <<>>
  /\ key' = [key EXCEPT !["1m"] = @ \cup ToSet(recording)]
  /\ recording' = <<>>
  /\ UNCHANGED <<exchange, now, wire, bus, lost, recorderVars, fillerVars, fastVars, fills>>

-----------------------------------------------------------------------------
(* data_recorder.                                                          *)

(* store_kline: what the key has for the same time is replaced.            *)
Upsert(k, c) == [key EXCEPT ![k] = {d \in @ : d.t # c.t} \cup {c}]

(* process_market_data stores the candle first.                            *)
StoreKline ==
  /\ taking.at = "idle" /\ bus # <<>>
  /\ key' = Upsert("1m", Head(bus))
  /\ taking' = [IdleRecorder EXCEPT !.at = "aggregate", !.c = Head(bus)]
  /\ bus' = Tail(bus)
  /\ UNCHANGED <<exchange, now, wire, recording, lost, agg, met, fillerVars, fastVars, fills>>

(* query_1m_klines: one entry per member of the key.                       *)
Query(from, to) ==
  LET found == {c \in key["1m"] : from <= c.t /\ c.t <= to}
  IN  Made({c.t : c \in found}, Cardinality(found))

(* What aggregate does with minute t: the state after it, the bar it       *)
(* outputs and how it came by it.                                          *)
Step(a, out, how) == [agg |-> a, out |-> out, how |-> how]

Opened(t) == [period |-> Period(t), src |-> With(Nothing, t), last |-> t]
Closed(t) == [NoAggregation EXCEPT !.last = t]

(* A minute of another period than the one being collected: that one is    *)
(* rebuilt from what Redis has up to this minute's period.                 *)
NextPeriod(t) ==
  LET hist == Query(agg.period * N, Period(t) * N - 1)
  IN  IF agg.src.n < N /\ hist.n >= N
      THEN Step(Opened(t), Bar(agg.period, hist), "next")
      ELSE Step(Opened(t), NoBar, "none")

(* A minute of the period being collected, or of a new one after none.     *)
SamePeriod(t) ==
  LET src == With(IF agg.period = NoPeriod THEN Nothing ELSE agg.src, t)
      hist == Query(Period(t) * N, Period(t) * N + N - 1)
  IN  IF src.n >= N
      THEN Step(Closed(t), Bar(Period(t), src), "count")
      ELSE IF t % N = N - 1 /\ hist.n >= N
           THEN Step(Closed(t), Bar(Period(t), hist), "last")
           ELSE Step([period |-> Period(t), src |-> src, last |-> t], NoBar, "none")

(* Mutant: a candle pushed again is counted again.                         *)
AggregateAgain(t) ==
  IF agg.period \notin {NoPeriod, Period(t)} THEN NextPeriod(t) ELSE SamePeriod(t)

Aggregate(t) ==
  IF agg.last = t THEN Step(agg, NoBar, "none")
  ELSE IF agg.period \notin {NoPeriod, Period(t)} THEN NextPeriod(t)
  ELSE SamePeriod(t)

AggregateKline ==
  /\ taking.at = "aggregate"
  /\ LET s == Aggregate(taking.c.t)
     IN  /\ agg' = s.agg
         /\ met' = met \cup {Period(taking.c.t)}
         /\ taking' = IF s.out = NoBar THEN IdleRecorder
                      ELSE [IdleRecorder EXCEPT !.at = "output", !.out = s.out, !.how = s.how]
  /\ UNCHANGED <<feedVars, key, fillerVars, fastVars, fills>>

StoreBar ==
  /\ taking.at = "output"
  /\ key' = Upsert("up", taking.out)
  /\ taking' = IdleRecorder
  /\ UNCHANGED <<feedVars, agg, met, fillerVars, fastVars, fills>>

(* data_recorder is started again: what it had collected is gone.          *)
RecorderRestarts ==
  /\ lost < MaxLost
  /\ agg # NoAggregation
  /\ lost' = lost + 1
  /\ agg' = NoAggregation /\ met' = {}
  /\ taking' = IdleRecorder
  /\ UNCHANGED <<exchange, now, wire, recording, bus, key, fillerVars, fastVars, fills>>

-----------------------------------------------------------------------------
(* The exchange's history.                                                 *)

Runs(lo, hi) == {t \in lo .. hi : Listed <= t}

(* The minutes a fetch gets when it stops after n answers: OKX is asked    *)
(* from the end backwards, Binance from the start forwards.                *)
Answers(lo, hi, n) ==
  IF exchange = "okx"
  THEN {t \in Runs(lo, hi) : t > hi - n * Page}
  ELSE {t \in Runs(lo, hi) : t < Max({lo, Listed}) + n * Page}

(* fetch_history: page after page until the range is covered or a request  *)
(* fails; what was fetched before the failure is kept.                     *)
Fetched(lo, hi) ==
  {[minutes |-> Answers(lo, hi, n), all |-> Answers(lo, hi, n) = Runs(lo, hi)] :
     n \in 0 .. LastMinute + 1}

FromRest(T) == {[t |-> t, text |-> Rest] : t \in T}

-----------------------------------------------------------------------------
(* kline_gap_filler.                                                       *)

(* It works on the keys it finds, and no filler runs with another.         *)
StartGapFiller ==
  /\ filler = "idle" /\ fast = "idle"
  /\ fills < MaxFills
  /\ key["1m"] # {}
  /\ filler' = "dedupe 1m"
  /\ complete' = TRUE
  /\ fills' = fills + 1
  /\ UNCHANGED <<feedVars, key, recorderVars, snapshot, gaps, seen, fastVars>>

Target == IF filler \in {"dedupe 1m", "delete 1m", "insert 1m"} THEN "1m" ELSE "up"
Then(s) == filler' = s /\ UNCHANGED <<feedVars, recorderVars, gaps, seen, complete, fastVars, fills>>
Deletion == IF Target = "1m" THEN "delete 1m" ELSE "delete up"
Insertion == IF Target = "1m" THEN "insert 1m" ELSE "insert up"
AfterDedupe == IF Target = "1m" THEN "detect" ELSE "existing"

(* deduplicate_klines reads the whole key; without duplicates it is done.  *)
ReadForDedupe ==
  /\ filler \in {"dedupe 1m", "dedupe up"}
  /\ IF Cardinality(key[Target]) = Cardinality(Stored(Target))
     THEN Then(AfterDedupe) /\ UNCHANGED snapshot
     ELSE Then(Deletion) /\ snapshot' = key[Target]
  /\ UNCHANGED key

(* ... deletes it ...                                                      *)
DeleteKey ==
  /\ filler \in {"delete 1m", "delete up"}
  /\ key' = [key EXCEPT ![Target] = {}]
  /\ Then(Insertion)
  /\ UNCHANGED snapshot

(* ... and inserts one member of each time it had read.                    *)
OneOfEach(M) == {CHOOSE c \in M : c.t = t : t \in {c.t : c \in M}}

InsertOnce ==
  /\ filler \in {"insert 1m", "insert up"}
  /\ key' = [key EXCEPT ![Target] = @ \cup OneOfEach(snapshot)]
  /\ Then(AfterDedupe)
  /\ snapshot' = {}

(* detect_gaps: before the first candle, between two, after the last one   *)
(* up to the minute that is forming.                                       *)
Leading(T) == IF Min(T) > 0 THEN {<<0, Min(T) - 1>>} ELSE {}

Between(T) ==
  {<<a + 1, Min({b \in T : b > a}) - 1>> :
     a \in {a \in T : a + 1 \notin T /\ a # Max(T)}}

(* Mutant: nothing is looked for after the last candle.                    *)
NoTrailing(T) == {}

Trailing(T) == IF now > Max(T) + 1 THEN {<<Max(T) + 1, now - 1>>} ELSE {}

DetectGaps(T) == Leading(T) \cup Between(T) \cup Trailing(T)

Detect ==
  /\ filler = "detect"
  /\ gaps' = IF Stored("1m") = {} THEN {} ELSE DetectGaps(Stored("1m"))
  /\ seen' = now
  /\ filler' = "fill"
  /\ UNCHANGED <<feedVars, key, recorderVars, snapshot, complete, fastVars, fills>>

(* fill_gaps_for_symbol: the gaps in their order, each fetched and then    *)
(* written in one batch.                                                   *)
NextGap == CHOOSE g \in gaps : \A h \in gaps : g[1] <= h[1]

Fill ==
  /\ gaps # {}
  /\ \E f \in Fetched(NextGap[1], NextGap[2]) :
       /\ key' = [key EXCEPT !["1m"] = @ \cup FromRest(f.minutes)]
       /\ complete' = (complete /\ f.all)
  /\ gaps' = gaps \ {NextGap}

FillGap ==
  /\ filler = "fill"
  /\ Fill
  /\ UNCHANGED <<feedVars, recorderVars, filler, snapshot, seen, fastVars, fills>>

Filled ==
  /\ filler = "fill" /\ gaps = {}
  /\ Then("dedupe up")
  /\ UNCHANGED <<key, snapshot>>

(* aggregate_filled_klines reads what the longer key has ...               *)
ReadExisting ==
  /\ filler = "existing"
  /\ snapshot' = {[t |-> p] : p \in Stored("up")}
  /\ Then("aggregate")
  /\ UNCHANGED key

(* ... then the minutes, and writes every period that has all of them and  *)
(* is not there yet.                                                       *)
Group(p) ==
  LET minutes == MinutesOf(p) \cap Stored("1m") IN Made(minutes, Cardinality(minutes))
Groups == {p \in {Period(t) : t \in Stored("1m")} : Group(p).n >= N}

WriteMissing ==
  /\ filler = "aggregate"
  /\ key' = [key EXCEPT !["up"] = @ \cup
       {Bar(p, Group(p)) : p \in {p \in Groups : [t |-> p] \notin snapshot}}]
  /\ Then("idle")
  /\ snapshot' = {}

(* The program is stopped, or loses Redis, between two commands.           *)
GapFillerStops ==
  /\ filler # "idle"
  /\ filler' = "idle"
  /\ gaps' = {} /\ snapshot' = {}
  /\ UNCHANGED <<feedVars, key, recorderVars, seen, complete, fastVars, fills>>

-----------------------------------------------------------------------------
(* kline_fast_filler.                                                      *)

StartFastFiller ==
  /\ filler = "idle" /\ fast = "idle"
  /\ fills < MaxFills
  /\ key["1m"] # {}
  /\ fast' = "scan"
  /\ complete' = TRUE
  /\ fills' = fills + 1
  /\ UNCHANGED <<feedVars, key, recorderVars, filler, snapshot, gaps, seen, blocks, span, doubled>>

(* get_ts_range and pipeline_zcount_scan: the blocks with fewer members    *)
(* than minutes.                                                           *)
BlockOf(h, lo, hi) == {t \in lo .. hi : t \div Hour = h}

CountShort(T) == Cardinality({c \in key["1m"] : c.t \in T}) < Cardinality(T)

CoarseScan ==
  /\ fast = "scan"
  /\ span' = <<Min(Stored("1m")), Max(Stored("1m"))>>
  /\ blocks' = {T \in {BlockOf(t \div Hour, span'[1], span'[2]) : t \in span'[1] .. span'[2]} :
                  CountShort(T)}
  /\ doubled' = {t \in Stored("1m") : Cardinality(WithMinute(t)) > 1}
  /\ fast' = "fine"
  /\ UNCHANGED <<feedVars, key, recorderVars, fillerVars, fills>>

(* fine_scan_gaps and merge_gaps: the missing minutes of these blocks,     *)
(* neighbours joined.                                                      *)
Merged(T) ==
  {<<a, Min({b \in T : b >= a /\ b + 1 \notin T})>> : a \in {a \in T : a - 1 \notin T}}

FineScan ==
  /\ fast = "fine"
  /\ gaps' = Merged((UNION blocks) \ Stored("1m"))
  /\ fast' = "fetch"
  /\ UNCHANGED <<feedVars, key, recorderVars, filler, snapshot, seen, complete, blocks, span, doubled, fills>>

FetchAndFill ==
  /\ fast = "fetch"
  /\ Fill
  /\ UNCHANGED <<feedVars, recorderVars, filler, snapshot, seen, fastVars, fills>>

FastFillerEnds ==
  /\ fast = "fetch" /\ gaps = {}
  /\ fast' = "idle" /\ blocks' = {} /\ span' = <<0, 0>> /\ doubled' = {}
  /\ UNCHANGED <<feedVars, key, recorderVars, fillerVars, fills>>

-----------------------------------------------------------------------------
GapFiller ==
  \/ StartGapFiller \/ ReadForDedupe \/ DeleteKey \/ InsertOnce \/ Detect \/ FillGap
  \/ Filled \/ ReadExisting \/ WriteMissing \/ GapFillerStops

FastFiller ==
  StartFastFiller \/ CoarseScan \/ FineScan \/ FetchAndFill \/ FastFillerEnds

CandlesNext ==
  \/ MinuteEnds \/ PushedAgain \/ PublishKline \/ RecordKline
  \/ StoreKline \/ AggregateKline \/ StoreBar \/ RecorderRestarts
  \/ GapFiller \/ FastFiller

CandlesSpec == CandlesInit /\ [][CandlesNext]_candleVars

-----------------------------------------------------------------------------
Source == [minutes: SUBSET Minutes, n: Nat]

CandlesTypeOK ==
  /\ exchange \in {"okx", "binance"}
  /\ now \in 0 .. LastMinute + 1
  /\ wire \in Seq(Candle) /\ bus \in Seq(Candle) /\ recording \in Seq(Candle)
  /\ key["1m"] \subseteq Candle
  /\ key["up"] \subseteq [t: Nat, src: Source]
  /\ agg \in [period: Nat \cup {NoPeriod}, src: Source, last: Minutes \cup {NoPeriod}]
  /\ met \subseteq Nat /\ taking.at \in {"idle", "aggregate", "output"}
  /\ gaps \subseteq Minutes \X Minutes
  /\ seen \in 0 .. LastMinute + 1
  /\ fast \in {"idle", "scan", "fine", "fetch"}
  /\ blocks \subseteq SUBSET Minutes
  /\ complete \in BOOLEAN

(* When the gap filler has filled its gaps and the exchange answered every *)
(* request, no candle that was closed when it looked is missing: neither   *)
(* its own deduplication nor the recorders running meanwhile leave a hole  *)
(* behind (main of kline_gap_filler: deduplicate, then detect, then fill). *)
FilledWhenDone ==
  filler = "dedupe up" /\ complete => Runs(0, seen - 1) \subseteq Stored("1m")

(* A hole the fast filler leaves between the candles it saw is hidden by a *)
(* candle stored twice in the same hour, which its counting of members     *)
(* takes for the missing one.                                              *)
HolesHiddenByDuplicates ==
  fast = "fetch" /\ gaps = {} /\ complete =>
    \A t \in Runs(span[1], span[2]) \ Stored("1m") :
      \E u \in doubled : u \div Hour = t \div Hour

(* What the fillers leave behind when they have filled what they found.    *)
FillersFindHoles == FilledWhenDone /\ HolesHiddenByDuplicates

OwnMinutes(b) == b.src.minutes \subseteq MinutesOf(b.t)
NoneTwice(b) == b.src.n = Cardinality(b.src.minutes)

(* A candle that data_recorder outputs because it has collected enough     *)
(* minutes is made of exactly the minutes of its period, whatever was      *)
(* lost, pushed again or restarted before. One it rebuilds from Redis at   *)
(* the last minute has no minute of another period; one it rebuilds when a *)
(* later period begins may have, but only of later periods of which it got *)
(* no candle at all. A rebuilt one is whole unless it has such minutes or  *)
(* a minute that is stored twice.                                          *)
CollectedIsWhole ==
  /\ taking.how = "count" => Whole(taking.out)
  /\ taking.how = "last" => OwnMinutes(taking.out)
  /\ taking.how = "next" =>
       \A t \in taking.out.src.minutes : Period(t) >= taking.out.t /\ Period(t) \notin met \ {taking.out.t}
  /\ taking.how \in {"last", "next"} /\ OwnMinutes(taking.out) /\ NoneTwice(taking.out) => Whole(taking.out)

(* The longer candles the gap filler writes are whole.                     *)
FillerWritesWhole ==
  [][filler = "aggregate" /\ filler' = "idle" =>
       \A b \in key'["up"] \ key["up"] : Whole(b)]_candleVars

(* The longer candles are made of their minutes, but for those that are    *)
(* rebuilt from what Redis has.                                            *)
BarsWhole == [][CollectedIsWhole']_candleVars /\ FillerWritesWhole
=============================================================================
