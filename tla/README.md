# TLA+ models of binance-lob-capture

The program captures Binance market data and rebuilds local order books. These
modules model its core from the source under `src/`, check it with TLC and
prove most of its safety properties with TLAPS. `PROJECT.json` maps every
definition to the lines it stands for.

## The system

| Part | State | Operations | Interacts with |
| --- | --- | --- | --- |
| `OrderBook` (`order_book.cpp`) | update id, initialized/started flags, two price→quantity hash maps, two sorted top caches | `set_snapshot`, `apply_diff_spot`, `apply_diff_usdm`, `fill_top5`, `reset` | owned by a session |
| `BookSession` (`book_session.cpp`) | book, `resync_pending_`, buffer of diffs, overflow count | `on_diff`, `on_snapshot`, `request_resync` | called by the shard handler; calls back per replayed diff |
| `SpscByteRing` (`spsc_ring.hpp`) | slots, head, tail | `try_write`, `drain`, `empty` | shard thread and writer thread |
| `CsvSink` (`csv_writer.cpp`) | FILE, ring, `stop_`, `flush_req_`, `werr_` | `open`, `write`, `flush`, `close`, thread `run` | one per output file |
| shard handler (`main.cpp`, `run_shard`) | per symbol: session, writer, last epoch, row number | handler per frame, inline `resync` | websocket client above, sessions and sinks below |
| `WsClientBeast` (`ws_client_beast.cpp`) | `stop_`, epoch, seq, backoff, one `io_context` per connection | `run`, `stop` | calls the handler from its read callback |
| REST client (`snapshot_beast.cpp`) | none between calls | `fetch_depth_snapshot` | called inline by `resync` |
| replay (`replay.cpp`) | sessions, saved snapshots | `run_replay` | reads what live mode wrote |
| `main`, watcher thread | `g_stop`, `workers_done` | signal, stop all clients, join | all shards |
| `Config` (`config.cpp`) | symbols, shards, replay input | `from_args`, `shard_symbols`, `combined_streams` | read by main, shards and clients |
| parsing, escaping (`json_min.cpp`, `csv_writer.cpp`) | none | `parse_depth`, `parse_scaled`, `csv_escape_append` | handler, replay |
| metrics | counters | increment, dump at exit | everywhere |

What is hard here: the REST snapshot is not ordered with the stream; diffs can
be lost, repeated or reordered by reconnects and by the exchange's batching; a
gap may come while the buffer is being replayed; a reconnect makes all state
stale; a cache is patched rather than recomputed; two threads share a ring and a
flush handshake without locks; disks fill; stop() has to reach a thread that
sleeps inside `io_context::run` or waits for a REST answer; replay has to pair two
files that were written, and cut short, independently; and one shard may fail
while the others go on. `PROJECT.json` lists these hazards at their
lines with the properties that cover them.

What makes each part correct:

* the book of a seeded session is the exchange's book at its update id, and a
  session that says it is ready has missed nothing it was given;
* the cached top of the book is the top of the book;
* rows are never lost, torn, duplicated or reordered between `write` and the
  disk while it has room, and no call blocks for good;
* a row is written only from a book seeded on the current connection;
* frames are numbered without a gap by (epoch, seq), and stop and deadline end
  the run;
* replay shows nothing the exchange's book did not have, and reproduces the live
  rows;
* every symbol is captured by exactly one shard, within the exchange's limits;
* a signal ends the process, and its exit code tells whether a shard failed;
* prices and quantities are parsed exactly or refused.

## Modules

| Module | Models |
| --- | --- |
| `DepthTypes` | levels, books, update ids, diffs |
| `DepthFeed` | the exchange (external): its book after every update id, cut into diffs |
| `OrderBook` | sequencing state, levels, verdict on a diff |
| `BookSession` | the session over the book, composed with the feed |
| `BookSessionProofs` | inductive invariant and theorems for `BookSession` |
| `TopCache` | the cached top of one side of the book |
| `SpscRing` | the ring, one atomic access per step |
| `RowQueue` | abstract specification: a bounded FIFO queue of rows |
| `CsvSink` | owner and writer thread over the ring, the FILE and the disk; implements `RowQueue` |
| `Capture` | the shard handler for one symbol, composed of feed, connection, session and output; implements `BookSession` |
| `WsClient` | the connection loop and its watchdog over a model of Asio |
| `Replay` | the end or the kill of a `Capture` and the replay of its files |
| `Config` | the arguments, the stream limit, the symbols of each shard |
| `SnapshotFetch` | the stages of a REST request |
| `Main` | the process: `Config`, main, shard threads with `SnapshotFetch` inside, signal, watcher |
| `ScaledParser` | `parse_scaled`, with a reference definition |
| `TopCacheProofs`, `CaptureProofs`, `CsvSinkProofs`, `WsClientProofs`, `ReplayProofs`, `MainProofs`, `ScaledParserProofs` | inductive invariant and theorems of each; `MainProofs` has the lemmas about `Config` too |
| `MC*` | constants for TLC |

**DepthTypes, DepthFeed.** A level is an opaque key (side and price); a book is
a function from keys to quantities, 0 standing for absence. `hist` is the
exchange's own book at every update id. `PublishDiff` cuts the next ids into a
diff, whose levels (`Diff`) are the final quantities of all that varied.
`published` only grows, and any published diff can be delivered at any time, so
loss, duplication and reordering are all included. Spot ids are contiguous; a
USD-M diff may start later than its predecessor ended. The snapshot is taken to
be the complete book; the REST limits (5000 and 1000 levels) restrict what
"complete" means, not the sequencing.

**OrderBook, BookSession.** `SpotResult`/`UsdmResult` are the early returns of
the two apply functions, `AcceptDiff` what they do otherwise. Levels are updated
by key; the caches are `TopCache`'s subject. `on_snapshot`'s loop takes one step
per iteration (`ReplayDrop`, `ReplayApply`, `ReplayGap`, `ReplayDone`) because
its callback observes the book in between; `replaying` keeps other operations
out, as the single shard thread does. `seen` is a history variable: the highest
`u` handed in since the session last dropped its state.

**TopCache.** One side; `side` chooses the comparison, since the bid and ask
functions are mirror images. A rebuild visits the hash map in an arbitrary
order, one entry per step. `IsBest` is the reference definition: what a sorted map
would list first, given by the order of the list and by what it leaves out.

**SpscRing, CsvSink.** Each step is one atomic access. Each index has one writer
and every access that matters is an acquire or a release, so interleavings of
the accesses cover the memory model's behaviours. A slot is `Torn` between the
beginning and the end of `assign`. Rows are numbers. The FILE may buffer a row
or spill its buffer first. Once the disk is full, a spill or an `fflush` writes
any number of the buffered rows, perhaps part of one more (`Torn` again), and
keeps or drops the others (`WrittenInPart`), and of a row whose `fwrite` came
back short nothing or a part is left: C promises nothing of a FILE after an
error. A disk that was full does not become `diskOk` again. `Init` is an opened sink: if `open` fails, `run_shard` returns 2 before
anything is written. Retries of `try_write` that find the ring full change
nothing and are not steps.

**Capture.** `phase` is the position in the handler: `dispatch` after the audit
row, then `fetch`/`replay` inside `resync`, and `emit` before the final row. The
connection delivers in order and loses what is undelivered when it breaks.
Mangled frames are of two kinds: those that cannot be split (no trace) and those
that cannot be parsed (audit row only). A REST request fails, returns the book
of any update id, or does not end; `fetch` is history and says how the request
of the last diff ended. Session operations are those of `BookSession` through
`INSTANCE`. Time stamps, row formatting and metrics are left out. `md` and
`snaps` are what `Replay` reads. A depth5 frame shows the best `KTop` levels of the
exchange's book at any update id, as its stream is not ordered with the diffs; a
key is a bid price there.

**Replay.** The live run is `Capture`. It ends between two frames with its files
flushed, or is killed at any point, which leaves a prefix of the audit file and
an independent prefix of the sidecar. `StartReplay` is a new process: it holds
its own session, epoch and current row in `Capture`'s variables and reads the
rows that are left. `NewEpoch` and `HandleTrade` are shared with the live
handler, where the code is the same line for line; what differs (the epoch test
before the parse, the sidecar instead of a REST request, depth5 rows that seed
the book) has actions of its own. `complete` and `failed` are history variables.
A kill drops a torn row; see the hazards for what the parser could make of one.

**Config, SnapshotFetch, Main.** `Config` reads one argument per step, tokens in
either case and empty ones included. `Kept` stands for the loops that copy the
elements of a vector that pass a test; a group of symbols is a set of positions,
so that repetitions would show. `Main` begins with `Config`, then starts a
thread per shard, each of which may be far ahead before the next exists. The
watcher's reads of `workers_done` and `g_stop` are separate steps, and it stops
one client per step. The client is used as `WsClient` describes it: `stop_` is
sticky, and at most one more frame is handled. A frame may start a REST request,
whose stages the thread goes through one by one; `Unbounded` marks the one the
code gives no time limit. Signals before the handlers are installed are not
modelled: they end the process by default.

**ScaledParser.** Characters arrive one per step. The text is kept as history
and, at its end, the verdict is compared with what the text means as a decimal
number; `IntMax` stands for `INT64_MAX`.

**WsClient.** Asio is a queue of completed handlers, one outstanding I/O
operation and a timer. `Cancel` turns a waiting timer into an `abort` handler
and does nothing to an expired one, which is Asio's documented behaviour.
`pc` is the position in `run`'s loop. The clock only matters by whether the
deadline has passed. Both exits of the loop body (normal and `catch`) go
through the same reconnect steps.

## Runs

| Run | Result | Shows |
| --- | --- | --- |
| `BookSession_Spot` | pass | `BookFaithful`, `NeverBehind`, `DrainedWhenLive`, `BufferBounded`, `GapIsReal`, `ForwardOnly` |
| `TopCache` | pass | `RowIsTopOfBook`, `CacheSound`, `RebuildOrderFree` |
| `CsvSink` | pass | `RowsPreserved`, `NoSlotRace`, `FlushDurable`, `CloseComplete`, `CallsReturn`, `RingIsQueue` |
| `CsvSink_SilentLoss` | violation | `NoSilentLoss` fails |
| `Capture_Spot` | pass | `RowsFaithful`, `RowsCurrent`, `BufferOfOneEpoch`, `AppliedIsRecorded`, `StuckOnlyByRest`, `UsesSession`, `HandlerReturns` |
| `WsClient` | pass | `FramesConsecutive`, `StopsPromptly`, `StopHonoured` |
| `WsClient_Reconnect` | violation | `Reconnects` fails |
| `Replay_Spot` | pass | `ReplayFaithful`, `ReproducesLive` |
| `Replay_Failed` | violation | `ReplayIsLive` fails |
| `Main` | pass | `ShardsFit` (of `Config`), `ExitCodeTells`, `Ends` |
| `Main_Stall` | violation | `Ends` fails when the REST peer does not answer the TLS shutdown |
| `ScaledParser` | pass | `ScaledExact` |

The properties are described where they are defined; besides those listed, the
runs of `BookSession`, `TopCache`, `CsvSink`, `Capture` and `WsClient` check
their module's `TypeOK`. The four violations are disagreements between the code
and what the repository says of it:

1. **Silent loss.** `fflush` and `fclose` results are ignored, so rows buffered
   in the FILE when the disk fills vanish while `failed()` stays false. So
   `ExitCodeTells`, which speaks of what `failed()` reports, does not say that
   all rows are on disk.
2. **No reconnect.** If a connection fails when the watchdog's timer has expired
   and its handler is queued, `wd.cancel()` comes too late; the handler re-arms
   the timer, and `ioc.run()` goes on with nothing but the watchdog until stop
   or the deadline.
3. **Replay after a failed REST request.** A failed request leaves no sidecar
   row, and replay takes the next row at the first diff that waits for a
   snapshot. If all requests of one connection failed, replay spends the next
   connection's snapshot on it and its rows differ from the live ones. They are
   still rows of the exchange's book (`ReplayFaithful`).
4. **TLS shutdown.** `fetch_depth_snapshot` ends with a synchronous shutdown
   after `expires_never`; a peer that neither answers nor closes holds the
   shard's thread, and the process does not end after a signal.

A fifth is a difference from the documentation that a passing run shows. **First
`conn_seq`:** `src/README.md:258` says that "`conn_seq` restarts at 0 per
connection". The counter does, but it is incremented before the handler sees a
frame, so the frames and audit rows of a connection are numbered from 1
(`FramesConsecutive`, run `WsClient`).

Three more were met while modelling; the definitions have them, no run is
about them:

* **USD-M first diff.** Until a diff has been applied, `apply_diff_usdm` tests
  `U > lastUpdateId`. A diff with `pu` equal to the snapshot's id continues the
  book exactly but is called a gap and costs another snapshot (so `GapIsReal`
  and `StuckOnlyByRest` are statements about spot). The README gives
  `pu != previous u` as the rule; a unit test fixes the code's. No wrong book
  results: `BookFaithful` is proved for both venues.
* **Duration 0.** Documented as "until SIGINT", it ends after 24 hours
  (`Deadline` of `WsClient`).
* **USD-M checkpoints.** USD-M depth5 payloads carry no `lastUpdateId`
  (`lastUpdateId` of `Replay`), so a replay without sidecar seeds the book at
  id 0, where every diff is a gap, and a trade row before the next gap shows
  those levels under that id. For spot the checkpoint works, but the book
  knows only its best levels: `ReplayFaithful` then says that the levels shown
  are right, not that none is missing.

### Bounds

* `BookSession`: update ids 0..4, two levels, three histories in which levels
  appear, vanish, return and repeat a quantity; buffer of 3, one overflow. Four
  ids allow a snapshot before, inside and after a batch, a gap, a second gap
  during the replay, and an overflow.
* `TopCache`: six prices, an array of four, two visible: hidden levels may be
  cached or not, the array may be full, short, or shorter than the book. The
  code's 64 and 5 stand in the same relation.
* `CsvSink`: ring of 4 (three usable) and five rows, so that it fills and wraps;
  the disk may fill at any point.
* `Capture`: one level, ids 0..4, one reconnect, one frame that is not a good
  diff, buffer of 2 and one overflow.
* `Replay`: two prices of which depth5 shows one, ids 0..3, one reconnect, one
  frame that is not a diff, so that a row can hide a level, a snapshot can be
  recorded on either connection, and the two files can be cut at different
  places. `Replay_Failed` runs with the default `integrate_trades = false`.
* `Main`: two arguments, of up to three tokens over three symbols in two cases;
  a limit of seven streams (no multiple of three, as 1024 is not), which three
  symbols exceed on one shard and not on two. Two shards give every order of two
  failures, two returns and a signal; both builds.
* `ScaledParser`: texts of up to six characters from `- . 0 1 2 7 8 x`, two
  decimals, an eight-bit result: `1.27`, `-1.28` and one trailing zero too many
  are all within reach.
* `WsClient`: five reconnects take the backoff past its cap; three frames each.

`MaxId`, `MaxOverflows`, `MaxRows`, `MaxEpoch`, `MaxSeq`, `MaxNoise`, `MaxArgs`,
`MaxTokens` and `MaxLen` exist only to bound the state space.
`Capture` runs without deadlock checking: a quiet exchange leaves a shard with
nothing to do. So do `Replay`, `Main` and `ScaledParser`, which model code that returns; that `Main` gets there is `Ends`. The other models
either have an explicit final stutter or never stop.

### Fairness

* `CsvSink`: weak fairness of the writer thread and of an owner inside a call:
  the scheduler runs both. No fairness makes the owner call anything, and the
  disk need not fill.
* `Capture`: weak fairness of the handler's own steps, which are ordinary
  sequential code. The end of a REST request is not among them, because its
  final TLS shutdown has no time limit; `HandlerReturns` has as its hypothesis
  that the handler is not left in a request for ever, `[]<>(phase # "fetch")`.
  What such a request does to the process is the subject of `Main_Stall`.
* `WsClient`: weak fairness of the thread, the timer, and of I/O completing.
  Every operation has a time limit in the code (15 s, 30 s, 20 s idle) except
  the name resolution, which the system's resolver limits. stop() and the deadline
  need not come.
* `Main`: weak fairness of main, the watcher and each shard's own steps.
  Signals, frames and the end of the duration need not come. `PeerAnswers` says
  whether the step out of the TLS shutdown is among the fair ones; the other
  stages have a time limit.

## Proofs

Every theorem holds for all values of the constants that satisfy the `ASSUME`s
of the modules: domains, quantity 0 is allowed, the buffer holds at least one
diff, the ring has at least two slots. The bounds of the runs (`MaxId`,
`MaxRows`, `MaxEpoch` and so on) are constants too, so nothing depends on their
values. `PROJECT.json` lists the theorems beside the properties they state.

| Module | Proves | For every |
| --- | --- | --- |
| `BookSessionProofs` | `TypeOK`, `BookFaithful`, `NeverBehind`, `DrainedWhenLive`, `BufferBounded`, `ForwardOnly`; `GapIsReal` for spot | set of levels, history, venue, buffer bound |
| `CaptureProofs` | `TypeOK`, `UsesSession`, `RowsFaithful`, `BufferOfOneEpoch`, `AppliedIsRecorded`, `RowsCurrent`; `StuckOnlyByRest` for spot | the same, and any number of reconnects and frames |
| `CsvSinkProofs` | `TypeOK`, `RowsPreserved`, `NoSlotRace`, `FlushDurable`, `CloseComplete`, `RingIsQueue` | capacity, number of rows, both modes |
| `TopCacheProofs` | `TypeOK`, `RowIsTopOfBook`, `CacheSound`, `RebuildOrderFree` | set of prices, array size, row size, both sides |
| `WsClientProofs` | `TypeOK`, `FramesConsecutive`, `StopsPromptly` | duration, number of connections and frames |
| `ReplayProofs` | `ReproducesLive`; `ReplayFaithful` for spot, and for USD-M with a sidecar | as `Capture`, and every cut of the two files |
| `MainProofs` | `ShardsFit`, `ExitCodeTells` | list of symbols, `--shards`, stream limit, number of shards |
| `ScaledParserProofs` | `ScaledExact` | text of any length over any alphabet, scale, width of the result |

Each module has one inductive invariant; its theorems follow from it. For
`ReproducesLive` a second one, `KInv`, stands on the first.

**`BookSession`: `IInv`.** `BookFaithful` alone is not
inductive: applying a diff gives the exchange's book only if the diff is
well-formed (`GoodFeed`, `GoodBuffer`) and reaches back to the book
(`AppliedContinues`), in which case what the diff leaves out did not vary
(`AcceptFaithful`). `NeverBehind` needs an account of where the newest diff is
in every phase of a resync: still buffered, or covered by the book
(`SeenCovered`, `SeenMax`, `ReplayState`). `GapIsReal` needs to know why a
seeded session waits (`GapHead`). The proof has one step per action and, under
it, one per conjunct it can disturb; the two ways into `buffer_event` and the
two ways of consuming a buffered diff share a lemma each.

**`Capture`: `CInv`.** Every step of the handler is a step of `BookSession` or
leaves it alone, which is what `HandlerUsesSession` says, so `IInv` holds of the
handler's session and is a conjunct of `CInv`: `CaptureProofs` cites the step
lemma of `BookSessionProofs` instead of repeating it. That the steps are allowed
ones depends on where the handler is (`PhaseOK`: a request is made only while
the session waits) and on what is on the wire (`WireGood`). `RowsCurrent` and
`BufferOfOneEpoch` need the connection the book was seeded on (`SeedOK`) and the
audit row of the frame (`FrameAudited`); `AppliedIsRecorded` must allow for the
diff that is in the book and whose row the handler is about to write
(`Recorded`); `StuckOnlyByRest` rests on `Refused`, which says how the request of
the last diff ended while the session waits, and on `GapHead`.

**`CsvSink`: `SInv`.** The indices keep the cyclic order head, h, t, tail
(`RingOrder`), and the slot d places before `tail` holds row `sent + 1 - d`
(`SlotsHold`); while the disk has room the FILE holds all rows older than those
(`FileHolds`). Of a full disk only the types are used (`PartTypes`). `FlushHandshake` and `CloseHandshake` say what each
thread may conclude from the other's flag at each step, in particular that an
`fflush` on request happens with an empty ring that the waiting owner cannot
refill. `RowsPreserved` and the refinement follow by reading the ring off as a
sequence. Only that the capacity is at least two is used, not that it is a power
of two: that matters to the mask, which `NextIndex` models.

**`TopCache`: `TInv`.** The array is not a prefix of the sorted side between
rebuilds: once hidden deletions have shortened it, a new level may be appended
that is worse than some the array has forgotten. What every step preserves is
that whatever the array lacks is worse than its first `Visible` levels
(`Covers`), and during a rebuild worse than all `KTopCache`. Deleting a hidden
level leaves the first levels alone, deleting a visible one or running short
rebuilds; setting a cached price leaves all prices in place (`ReplaceIs`), and an
insertion can only make the n-th level better (`UpsertKeeps`). No induction is
needed, because order is stated of every pair of levels.

**`WsClient`: `WInv`.** `FramesConsecutive` needs that a connection is never
tried twice under one `conn_epoch` (`Numbering`), and that at most one handler
of the operation chain is queued at a time (`OneOutstanding`), or a second read
could complete. `StopsPromptly` needs that a frame delivered late leaves the
`io_context` stopped (`LateIsLast`). The proof covers the stray watchdog of
`WsClient_Reconnect`: it does no harm to safety.

**`Replay`: `RInv`.** While the capture is live, `RInv` is `CInv` and the fact
that the audit rows hold published diffs. Afterwards the session invariant does
not hold, because a depth5 row seeds the book with part of the exchange's. What
holds is `PInv`: the book is part of the exchange's at its update id, and all of
it with a sidecar. An accepted diff preserves both (`AcceptKeepsPart`): a level
it names becomes right, and one it does not name did not vary. For USD-M without
a sidecar `ReplayFaithful` is false (see *USD-M checkpoints*), hence the
hypothesis `Venue = "Spot" \/ Sidecars = {TRUE}`; the invariant itself is
`RInv \/ Blind`, where `Blind` is that one case, and needs no hypothesis.

**`Replay`: `KInv`.** `ReproducesLive` compares two runs of the same code, one
after the other, so the invariant has to remember the first. It does so by
running replay's loop on values: `Goes` is one step of it, a function of the
state, the two files and the history; `Reaches` any number of steps. Lemmas show
that the operations of the session compute these values (`SesFed`, `SesSeeded`,
`LoopIs`, `DiffIs`, ...), so the function is not taken on trust.

* While the run is live (`LInv`), the loop, started on the rows written so far,
  reaches a state that stands where the handler stands: same session, same rows
  (`Following`). There are two exceptions. After a row that could not be parsed,
  replay has already cleared its session and the handler will do so at its next
  row (`Lags`), because the two look at the connection number at different
  points. And while the handler is busy with a snapshot, that snapshot is not in
  the sidecar yet, and the loop stops before it (`Asking`); what it will do once
  the snapshot is there is `Pending`.
* When the new process starts it is at the beginning of this path, and because a
  step is the only one from its state (`ReachesNext`), each of its steps is the
  next on it (`Advance`). So it arrives where the live run stood, or goes on past
  that (`Past`: rows that were audited and not yet handled), or ends for want of
  the snapshot the live run was busy with (`Starved`). After an orderly end only
  the first is possible.

The theorem has no hypothesis on the venue; `Replay_Spot` checks spot only.

**`Main`: `MInv`.** `rcs[s]` tells at every stage of a shard what has happened
to it (`ShardCode`), and `main` reads it only after the joins (`Joined`).
`ShardsFit` needs arithmetic on the sizes of the groups: positions congruent
modulo the number of shards are at most `max_symbols_per_shard` many and for one
shard exactly that many (`GroupSizes`), so the limit test is neither too lax nor
too strict. That `Uniq` keeps every symbol once follows from least elements
(`UniqIs`), not from an induction.

**`ScaledParser`: `Locals`.** At every character the locals give back what was
read: the numeral is `intpart` and `frac` with the zeros past the scale
appended (`Reading`). A parser that has given up stays so, hence there must be a
reason that no further character can remove (`Bad`, `BadStays`), and it must be
one (`BadDoesNotFit`). `MagnitudeIs` says that what is compared with the limit
is the number times 10^`ScalePow`, without remainder.

Induction. The induction theorems of the library take a predicate as their
parameter, which the provers cannot instantiate, but `WFMin` takes a set: the
least element of what a property fails for. `SetInduction` follows from it and
serves for the length of a path (`ReachesKeepsRows`), for the existence and
uniqueness of a recursive function (`ComputedFor`), and so for what `Pow10` and
`Numeral` compute.

Only model-checked:

* all liveness (`CallsReturn`, `HandlerReturns`, `StopHonoured`, `Ends`):
  fairness is out of this prover's reach;
* what the violation runs refute, which is false.

Every invariant and every action property that a passing run checks is a
theorem, except that `GapIsReal` and `StuckOnlyByRest` are proved for spot only
and `ReplayFaithful` as said above.

The runs of `BookSession`, `Capture` and `Replay` are spot; for USD-M the
theorems are what there is.

## Not modelled

Metrics (write-only counters), time stamps, the number formatting of order-book
rows, command-line options that only set a path or a flag. The scanning of JSON
payloads appears by its outcomes (split or not, parsed or not, which kind): it
is written for the known payload shapes, and a payload cut between two levels,
which it would accept, is listed as a hazard without a property. A row of
the audit file is a record, not text: quoting and `parse_csv_line` are left out,
and a row torn by a kill is taken as lost. A second live run on the same day, which truncates
the files of the first, is not modelled. `Replay` does not go through `CsvSink`.
