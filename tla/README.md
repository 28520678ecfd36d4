# TLA+ verification of the licode media core (erizo)

The repository is an annotated tree of the licode WebRTC media server. Its own core is
`src/licodecore/erizo` (about 24,000 lines of C++); most of the rest is vendored (libnice,
eXosip, pjproject, LAVFilters, websocketpp, WebRTC) or an older copy of the same classes
(`src/Src/media`). The top-level README says nothing about behaviour, so the reference is the
code, with its comments and the unit tests in `src/licodecore/test`.

This directory holds TLA+ modules translated from the code, TLC configurations for small
instances, and TLAPS proofs for every value of the constants. `PROJECT.json` maps every
definition to the lines it models and lists the runs, mutants, hazards, findings and theorems.

## Inventory

| Component | State it keeps | Operations | What is hard | What makes it correct |
|---|---|---|---|---|
| `thread/Scheduler` | multimap of tasks by time, stop flags | scheduleFromNow, stop, serviceQueue | several threads on one condition variable, spurious wakeups, stop during work | each task is run once, in time, none is lost; stop returns |
| `thread/Worker`, `IOWorker`, pools | boost::asio service, one thread each | task, scheduleFromNow, scheduleEvery, unschedule, close | cancellation against a due task, close order | tasks in order, none after a cancel |
| `IceConnection`, `LibNiceConnection` | ice_state_, component states, candidates | callbacks of libnice, sendData, close | runs on a thread of its own, state read without the lock | the state only goes up, nothing after close |
| `DtlsTransport`, `dtls/*`, `SrtpChannel` | transport state, running_, two sockets, keys, timeout checkers | onIceData, updateIceState, onHandshakeCompleted/Failed, write, close | lost and repeated flights, timeouts against late answers, two sockets | ready means keyed, no media in clear, an outcome is reached |
| `WebRtcConnection` | global_state_, up to two transports, local and remote SDP, streams, listener | createOffer, setRemoteSdp, addRemoteCandidate, add/removeMediaStream, updateState, close | callbacks of two transports in any order, or from inside a call | events go forward, ready means all channels, failures surface |
| `MediaStream` | sinks, pipeline, sending/ready flags, mute state | deliver, read, write, notify, close | packets of several threads, close during delivery | nothing delivered after close, feedback reaches the publisher |
| `OneToManyProcessor` | publisher, subscribers | deliver, addSubscriber, removeSubscriber, closeAll | delivery and removal on different threads | no use of what was removed |
| `pipeline/*`, `rtp/*Handler` | handlers in a chain, each with counters and timers | read, write, notifyUpdate, enable, disable | several renumbering handlers in one chain | numbering without holes, feedback translated back |
| `rtp/SequenceNumberTranslator` | two ring buffers, first/last numbers | get, generate, reverse, reset | 16-bit wrap-around, ring aliasing, loss + skip | order kept, `reverse` undoes `get` |
| `rtp/PliPacerHandler` | a wait for a keyframe, a timer | read, write, enable, disable, sendPLI, sendFIR | the timer against the keyframe that cancels it | one request at a time, none after a keyframe, no wait without end |
| RTCP (`RtcpFeedbackGenerationHandler`, `RtcpNackGenerator`, `RtcpRrGenerator`) | nack list, extended sequence numbers, counters of losses | read, addNacks, addNackPacketToRr, generateReceiverReport | wrap-around, list limits, late and repeated packets | lost packets asked for, as often as allowed; what a report counts |
| `rtp/QualityManager`, `QualityFilterHandler` | selected, forced and active layers, slideshow, padding; a change of layer under way | notifyQualityUpdate, forceLayers, setVideoConstraints, enableSlideShowBelowSpatialLayer, write | layers that stop, a wish that changes during a change, timeouts | the subscriber gets a layer that is sent, decodable; forced layers stay |
| `RtcpForwarder`, `RtcpAggregator` | reports per source | analyzeSr, analyzeFeedback | several sources | single packets are rewritten |
| `lib/TokenBucket`, `bandwidth/*` | one atomic time; none | consume; distribute | compare-and-exchange races; division of what is left | never more than the rate; the sum within the total |
| `NicerConnection` | as LibNiceConnection | as LibNiceConnection | promises and timeouts across threads | as LibNiceConnection |
| `SdpInfo` | parsed description | initWithSdp, getSdp, setOfferSdp | text | mapping of payload types |
| `media/*` | FFmpeg contexts, queues | recording, transcoding | queues between threads | order of the packets written |
| `src/Src/Server/Channel` | rooms, peers | join, leave, publish | several client threads | a peer is in one room |

How they interact: a thread of libnice's main loop calls `LibNiceConnection`, which posts a task
on the connection's `Worker`; the worker runs `DtlsTransport`, which calls
`WebRtcConnection::updateState` (control) and `onTransportData` (media); the application's calls
are posted on the same worker. Timeout checks and periodic reports go through the `Scheduler`
shared by all workers of the pool, which posts them back on their worker.

## Modules

| Module | Models | Status |
|---|---|---|
| `Scheduler` | `thread/Scheduler.cpp` | complete |
| `Transport` | the contract of `Transport.h` on `state_` (abstract specification) | complete |
| `DtlsTransport` | `DtlsTransport.cpp`, `IceConnection.cpp`, the callbacks of `LibNiceConnection.cpp`, `DtlsSocket` as flights | core |
| `WebRtcConnection` | `WebRtcConnection.cpp` over two `Transport`s | core |
| `SequenceNumberTranslator` | `rtp/SequenceNumberTranslator.cpp` | complete |
| `Worker` | `thread/Worker.cpp`: queue, delayed tasks, cancellation, start and close | but for `scheduleEvery` |
| `PliPacerHandler` | `rtp/PliPacerHandler.cpp`, extends `Worker` | complete |
| `RtpUtils` | `rtp/RtpUtils.cpp`: comparison of sequence numbers | the comparison |
| `RtcpNackGenerator`, `RtcpRrGenerator` | the two generators, as operators on a record | the video stream |
| `RtcpFeedbackGenerationHandler` | `rtp/RtcpFeedbackGenerationHandler.cpp` with both generators | the video stream |
| `QualityManager` | `rtp/QualityManager.cpp`, as operators on a record, with the handlers it updates | complete |
| `QualityFilterHandler` | `rtp/QualityFilterHandler.cpp`, the calls of `MediaStream` and the bitrate calculation | without the renumbering |
| `SchedulerProofs`, `DtlsTransportProofs`, `WebRtcConnectionProofs`, `PliPacerHandlerProofs`, `RtcpFeedbackProofs`, `QualityProofs`, `SequenceNumberTranslatorProofs` | the theorems | |
| `NumberLemmas` | lemmas on remainders and the least element, for the proofs about sequence numbers | |
| `MC...` | the instances for TLC | |

**Scheduler.** What a thread does between two points where it gives up `new_task_mutex_` is one
step. `ScheduleFromNow` and `NotifyOne` are the two halves of `schedule`, `Stop`,
`StopNotifyAll`, `StopJoined` the three of `stop`. `ServiceQueue` is a thread that has taken the
mutex and goes to leave, wait or `wait_until`; `WaitTimeout` is the return of `wait_until` with a
timeout, after which the first task is taken if there is one; `TaskDone` the return of the task.
`SpuriousWakeup` and `Tick` are the environment. `queue`, `due`, `stamp` are the multimap;
`ranAt` and `atStop` are history variables. Tasks are assumed not to throw.

**DtlsTransport.** `ice_state`, `comp_state`, `last_candidate` belong to the ICE connection and
change on the ICE thread (`GatheringDone`, `ComponentReady`, `ComponentFailed`, `NiceRecv`);
`queue` is the worker's queue as the ICE thread fills it; `RunIceTask` and `RunDataTask` run its
head (`updateIceStateSync`, `onIceData`), `TimeoutCheck`, `Close`, `SetReceivedLastCandidate` and
the two halves of `write` are tasks that others post. The DTLS exchange is reduced to its flights
(client hello, server hello, two finished flights, alert); OpenSSL is external. The network may
lose, repeat and reorder: `NiceRecv` delivers at any time any flight that the peer can have sent,
which is what depends on the flights in `sent`. That the peer's last flight can fail the key
extraction is the choice `ok` of `ReadDtls`. `write` is two steps because it reads the ICE state
twice while the ICE thread may change it.

**WebRtcConnection.** All runs on the worker, one task at a time. The two transports are their
state in `ts`, which moves as `Transport!After` allows. `createOffer` and `processRemoteSdp` are
split at each `start()` of a transport (`CreateOffer`, `StartTransport`, `OfferCreated`;
`SetRemoteSdp`, `StartTransport`, `RemoteSdpProcessed`), because the state callback may come from
inside `start()`: without a STUN or TURN server libnice announces the end of gathering before it
returns, and `Worker::task` uses `dispatch`, which runs the callback inline. `AfterStart` says
which of the two kinds of gathering an instance has. A session is assumed to use one set of
media and to be bundled or not for all its life; remote descriptions are SAVPF with a
fingerprint; a trickled candidate names a medium that has a transport. `stuck` records that `updateState` waits for
`update_state_mutex_` while the call below it on the stack holds it.

**SequenceNumberTranslator.** One action per method that changes state (`Get`, `Generate`,
`Reset`); `Reverse` is an operator. The four cases of `get` are four operators. The width of the
numbers, the buffer size and the distance are constants, so that the wrap-around and the reuse of
slots happen within a few calls (8 bits, 16 slots, distance 2 instead of 16, 1024 and 500). The
width of the integers that hold the numbers is a constant of its own (`WordBits`): `get` masks what
it is given, but stores and returns its own output and `first_input_` as they come out of the
addition or subtraction, cut only to the `uint16_t` (`Wrap`). The two widths differ for picture ids,
15 bits in 16, and are the same for sequence numbers. The sixteenth of the range in
`numberLessThan` is kept.

**Worker.** `queue` is the boost::asio service, `timers` and `left` are the delayed tasks that wait
in the scheduler with what remains of their delay. A delayed task is named by its
`ScheduledTaskReference`; `Unschedule` only sets its flag, `TimerFires` moves its task from the
scheduler to the queue (the two threads' handover), and `TakeCancelled` is the worker coming to a
cancelled one. `Begin`, `Close` and `Finish` are the thread's start, `close()`, and the end of
`run()`; a thread that begins after `close()` never runs anything. `TimerFires` may come at any
time, also before the delay is over, since `scheduler_early` shows that the two servicing threads
that `ThreadPool` configures run tasks early; that it comes at all is fairness.
`left` keeps what remained of the delay. The module has no
specification of its own: a component that lives on a worker extends it and says what its tasks do.

**PliPacerHandler.** `Read` (keyframe), `Write` (PLI), `SetEnabled`, `SendPLI` and `SendFIR` are the
worker's tasks; the rest of the next-state relation is the worker's. A reference is free again when
no task that has it is under way and `scheduled_pli_` is another. `sinceAsk`, `answered`, `lapsed`
are history variables; `lapsed` marks a wait whose timer ran while the handler was disabled, since
nothing starts it again. `Paced` is about the pacer's own part: a request less than kMinPLIPeriod
after the previous one of its wait comes only from a timer that the scheduler ran early (`left` not
yet 0).

**Feedback.** `RtcpFeedbackGenerationHandler` keeps a record for each generator and says what a
packet does to both (`Read`). A packet is named by its *place* in the stream, which does not wrap
around; the generators see only the place's number modulo `2^Bits`, and the properties compare
what they do with the places. The stream may be delivered in any order within `MaxAhead` and
`MaxBehind`, with losses and repetitions. The blocks of a request are a first number and the set
of the following ones.

**Quality.** `QualityManager` is a record and one operator per method. `notifyUpdateToHandlers` is
run inside the call that causes it, because the manager is on the stream's worker and
`Worker::task` dispatches; what the slideshow and the padding handler took over is therefore part of the
record (`slides`, `pads`). `QualityFilterHandler` adds the filter's record `f`, the publisher's
bitrates and the calls of `MediaStream`. `setSlideShowMode` is called on another thread: it sets
its flag at once and posts the update (`SetSlideShowMode`, `RunUpdate`), so an update of the
manager's own may come in between. `untold`, `decodable`, `asked` are history: a fallback ended
without an update; the subscriber has had a keyframe of its layer; a keyframe was asked for.
The bitrate statistics of a layer are two numbers (window and last interval), estimates are a small
set; the sizes of the video are reduced to the highest layer that meets the constraints.

## Runs

| Run | Instance | Checks |
|---|---|---|
| `scheduler` | 2 threads, 2 tasks, delays 0-2, clock to 2 | `TakenOnce`, `DrainComplete`, `StopAbandons`, `EveryTaskRuns`, `StopReturns` |
| `scheduler_early` | 2 threads | `NeverEarly` is violated |
| `dtls_nomux_client` | two sockets, active role, 2 checks, queue of 2 | `TypeOK`, `ReadyIsKeyed`, `NoClearMedia`, `MediaAfterAllKeys`, `ForwardOnly`, `HandshakeEnds` |
| `conn_nobundle` | audio and video, a transport each, two descriptions | `FailureSurfaces`, `ReadyMeansAllChannels`, `NoMissedReady`, `EventsForward` |
| `conn_bundle` | one transport, two descriptions, both kinds of gathering | `VideoCandidatesApplied` |
| `conn_deadlock` | no STUN server | `NoSelfDeadlock` is violated |
| `sequence_numbers` | 6 calls, jumps to 17 ahead, more than the buffer holds, up to 4 generated in a row | `GetMatches`, `OutputsOrdered`, `ReverseInverts` |
| `sequence_skip_after_loss` | a dropped packet may follow a loss | `ReverseInverts` is violated |
| `picture_ids` | the code's parameters for picture ids: 15 bits, 511 slots, distance 250; 3 calls around the wrap-around | `GetMatches` is violated |
| `pli_pacer` | 4 references, 3 tasks under way, period 1, timeout 2, timers that may be early | `TypeOK`, `OneTimer`, `WaitCovered`, `NoRequestAfterKeyframe`, `Paced`, `WaitEnds` |
| `feedback` | 6-bit numbers from 0 or 62, 6 packets, list of 4, blocks of 2 | `TypeOK`, `NackOnlyMissing`, `AskLimit`, `EveryLossAsked`, `WrapCounted`, `LossBounds`, `FractionExact` |
| `quality` | 2 spatial and 2 temporal layers, 3 estimates, 3 sets of bitrates, 2 calls | `TypeOK`, `HandlersFollow`, `KeyframeOrAsked`, `ForcedStays`, `LayerSettles`, `LeavesStoppedLayer` |

Deadlock is checked in `pli_pacer` and `quality`, where time always passes. The other systems really
stop, when they are stopped or closed, and the bounded ones when their bound is used up.

What the violations show (details and quotations in `PROJECT.json`, "findings"):

- *A task runs early.* Two threads wait for the same first task. One takes it; the other has timed
  out as well, finds the queue not empty, and takes the next task, due or not. The pool gives
  every scheduler two threads. With one thread this cannot happen (proved).
- *createOffer can block for ever.* It holds `update_state_mutex_` across `start()`, and a
  gathering that ends inside `start()` comes back to `updateState` on the same thread.
- *Loss followed by a skipped packet.* The skipped packet does not advance the last output past the
  number reserved for the lost one; the next packet gets that number too.
- *Picture ids at the wrap-around.* `QualityFilterHandler` translates picture ids with a buffer of
  511, which does not divide their range: ids 64 apart share a slot when the wrap-around is between
  them, so a late id can be answered with another id's entry. The test uses 512. With a size that
  divides the range this cannot happen (proved).

Three more disagreements of the connection have no run of their own and are kept out of the runs by
the instances or by the statement of the property:

- *Candidates of an audio-only bundle.* When gathering ends, the candidates of the remote
  description are passed on only if it has video, also in a bundle (`WebRtcConnection.cpp:660`,
  under the comment "Passing now new candidates that could not be passed before"). TLC finds
  `CandidatesApplied` violated with `SessionMedia = {"audio"}` and a bundle;
  `VideoCandidatesApplied` is what holds.
- *Candidates of an answer when trickling.* A connection that trickles never gets to
  `CONN_GATHERED` (`WebRtcConnection.cpp:667`). If its transport has gathered before the answer
  to its offer comes, the candidates in that answer are passed on neither then (line 430 asks for
  `CONN_GATHERED`) nor later. TLC finds `VideoCandidatesApplied` violated in `Conn_bundle.cfg` with
  `Trickle = TRUE`; the run and the theorem have `FALSE`.
- *Renegotiation without a bundle.* A second description is stored but not negotiated
  (`WebRtcConnection.cpp:378`); `CONN_READY` no longer means that all channels are, although line
  696 says so. `ReadyMeansAllChannels` and `NoMissedReady` are therefore stated as long as the
  session is bundled or has had one description (`Agreed`); without that TLC finds the first
  violated in `Conn_nobundle.cfg`. `EventsForward` and `FailureSurfaces` hold after the second
  description as well.

Two behaviours appear as named exceptions in properties, since the code does not say that it
should be otherwise: `PliPacerHandler` does not restart its timer in `enable()` (`lapsed`), and
`enableSlideShowBelowSpatialLayer` ends a fallback without an update of the handlers (`untold`).

**Bounds.** Two threads are what `ThreadPool` configures and two tasks suffice for every pair of
threads and tasks to race; three instants separate "before", "at" and "after" a due time. Two
timeout checks give a check that retransmits and one that gives up after it; a queue of two holds
an ICE task and a packet in either order. Two descriptions, in both runs of the
connection, are the first and a renegotiation. The calls of the translator suffice to fill a gap,
reuse a slot, wrap around, reset and start again; a jump of 17 exceeds its 16 slots, and a window of
3 packets with 4 generated after each just stays below the sixteenth of its range, 16.
Three tasks under way at the pacer are a timer, the keyframe that cancels it and another request,
in any order; a timeout of two periods has a repetition before the FIR. In `feedback`, numbers of
6 bits keep a window of 4 in which a number counts as ahead; starting at 62 the stream wraps
around at the third place; losses of up to 2 in a row overflow the list of 4 after three gaps, and blocks
of 3 numbers make a request need several. In `quality` the intervals and the timeout are one tick, two
layers of each kind have a middle and both ends, and the estimates allow nothing, the lower stream or
everything; two calls of the application are enough for one to come while the other's effect is
under way. No property of the other modules depends on the number of calls (the proofs).

**Fairness.** Scheduler: a runnable thread is run, the clock advances, a caller inside `schedule`
or `stop` goes on; no client has to call anything. DtlsTransport: the worker runs the tasks it was
given and the timer posts every check that is armed; nothing is assumed of the network, the peer
or libnice, so `HandshakeEnds` holds although no packet ever arrives. It is stated up to the first
completed handshake, since `onHandshakeCompleted` cancels both timeout checkers: without
multiplexing, a transport with one completed handshake waits for the other without a time limit.
PliPacerHandler: the worker's thread begins and runs its tasks, a scheduler thread posts the tasks
that are due, the clock advances; no keyframe has to come. QualityFilterHandler: video packets of
some kind keep coming, and time passes; the application and the estimates are free.

An operator named `X_Y` is a faulty variant of `X`; `PROJECT.json` says which property detects it.

## Proofs

Eight modules hold theorems, one of them only lemmas. Each of the others defines an inductive
invariant (or several, one on top of the other), shows `Init => Inv` and `Inv /\ [Next]_vars => Inv'`
(one lemma per action or group of actions), and derives the theorems.

- `SchedulerProofs`, for any number of threads and tasks, any delays. `TakenOnce` needs that a
  task never scheduled has not run; `DrainComplete` needs `StopInv`: a thread that has left did so
  because of `stop(false)`, or when none of the tasks scheduled before `stop(true)` was queued.
  `StopAbandons` follows from the same invariant. `SingleThreadNeverEarly` assumes one thread; its
  invariant is that the queue holds a task due by the time the thread waits for.
- `DtlsTransportProofs`, for both roles, with and without multiplexing, any number of checks and
  any queue. `OrderInv` says that "candidates received" can only be the first task of the queue and
  that no handshake has begun while it waits; it is what makes the state go forward although it is
  announced by tasks that lag behind the ICE state. `KeyInv` ties the two ready flags, the SRTP
  channels and the handshakes together; `WriteInv` says that a packet left unprotected was so
  because ICE is over. `ImplementsTransport` is the refinement `Spec => Transport!TransportSpec`.
- `WebRtcConnectionProofs`, for every session. `EventsForward` needs `ReadyInv`: `CONN_READY` rests
  on a transport that is ready and has credentials, so not all of the local media can still be
  announced as gathered. `ReadyMeansAllChannelsTheorem` and `NoMissedReadyTheorem` have no
  assumption on the session; the properties carry it (`Agreed`, see *Renegotiation*). The second
  needs `MissedInv`: only a transport with remote credentials gets ready, and
  the implication holds in the middle of a call too. `VideoCandidatesAppliedTheorem` assumes a
  bundle without trickling, which is necessary (see *Candidates of an answer*); its `CandsInv`
  says for every moment of a call which of the two sides still has to pass the candidates on.
- `PliPacerHandlerProofs`, for any number of references, any periods and any load. `OnePlace` says
  that a task is in the scheduler or once in the queue, never both, and that only tasks under way
  are cancelled; with `WaitInv` (a wait has not been answered) it makes `OneTimer` and
  `WaitCovered` inductive, and the two action properties follow. `PacedTheorem` holds
  with a scheduler that may be early; its invariant `PaceInv` relates what remains of the delay, or
  remained when the timer ran, to the time since the last request.
- `RtcpFeedbackProofs`, for any width, stream and order. `Counters` relates expected, received and
  reported packets of the report generator; the lost packets lie between what is missing on
  balance and what was expected, so the 8-bit fraction does not overflow. `Stream` says that the
  cycle, the highest number of both generators and every entry of the list are those of places of
  the stream; it rests on `BehindPlaces` (the comparison of two numbers is that of their places) and
  gives `TypeCorrect` and `WrapCountedTheorem`. `Visited` is the loop invariant of
  `addNackPacketToRr`: after `i` entries the blocks name exactly those of them that are due, and the
  list keeps the others. `EveryLossAskedTheorem` follows step by step: the gap a packet leaves is
  added, is due, and is named by the report the packet causes. `NackOnlyMissingTheorem` and
  `AskLimitTheorem` need `Misses` (no number is in the list twice; an entry's place is missing
  and has not been asked for more often than it counts) and assume that the stream does not go all
  the way round the numbers (`MaxPackets * MaxAhead < Modulus`; it may start at any number and wrap
  around): an entry that is not due stays in the list however many packets come within a tick, and
  after a whole round its number would be another place's as well.
- `QualityProofs`, for any layers, bitrates, estimates and intervals. The invariant is the
  conjunction of the checked ones. `Keeps` says what every operation of the manager leaves
  alone or keeps in step (types, forced layers, handlers); its lemmas go method by method, so each
  step of the filter only cites those it calls.
- `SequenceNumberTranslatorProofs`, for numbers as wide as the integers that hold them
  (`WordBits = Bits`, the case of sequence numbers; the unmasked outputs of narrower ones leave the
  range), any buffer, distance and number of calls. The buffer's size has to divide the range (see
  *Picture ids*). `Follows` gives the window of inputs places that do not wrap around, each in its
  own slot; it gives `GetMatchesTheorem`. `Ordered` gives the outputs places as well, in the order
  of the inputs and never further apart than `Growth` allows; `OutputsOrderedTheorem` assumes that
  what is given out within the distance stays below a sixteenth of the range,
  `(MaxDistance + 1) * (MaxGenerate + 1) <= 2^(Bits - 4)`, or the comparison of numbers would take the
  oldest for the newest, and that no packet is skipped right after a loss. With the code's 16 bits
  and distance 500 this is up to 7 generated packets in a row. `Span` and `Inverted` say that the
  second buffer holds the entry of every output in the window; `ReverseInvertsTheorem` bounds no
  number of generated packets by the distance but has the hypothesis `[]WindowFits`: the outputs
  from the oldest remembered packet on are fewer than the slots. With 1024 slots and a window of 501
  packets that leaves room for 26 stored keyframes of 20 packets, the most that
  `RtpSlideShowHandler`, the only caller of `reverse`, generates at a time, and at most every 5
  seconds. That no packet is skipped right after a loss is necessary for both: it is the finding
  *Loss followed by a skipped packet*, and the slideshow does skip packets after losses.
- `NumberLemmas`: quotient and remainder, when numbers with the same remainder are equal, and
  induction over the natural numbers from their least element. The general induction theorem has
  an operator as a parameter, which the provers cannot instantiate; the instances needed here (the
  fill of a gap, the walk over the list and the existence of its recursive function) are stated
  for sets.

The assumptions on the constants are named in the modules and evaluated by TLC in every run. Those
on powers of two (`PowerAssumption`) are facts of arithmetic that the provers do not know.

Only model-checked: liveness (`EveryTaskRuns`, `StopReturns`, `HandshakeEnds`, `WaitEnds`,
`LayerSettles`, `LeavesStoppedLayer`), since the prover does not handle fairness or ENABLED. Every
invariant and action property that a passing run checks is stated by a theorem. The type invariants
of `Scheduler` and `WebRtcConnection` are proved and have no run, and that of
`SequenceNumberTranslator` is a lemma of its proofs (`InitType`, `StepType`); nor have the passive role and
multiplexing of `DtlsTransport`, which the theorems cover. No module declares a RECURSIVE
operator; the recursive definition, `Walk`, is a function.

## Plan

1. *Done:* `Scheduler`, `Transport`, `DtlsTransport`, `WebRtcConnection`,
   `SequenceNumberTranslator`, `Worker` with `PliPacerHandler`, the feedback generators, and
   `QualityManager` with `QualityFilterHandler`, with the proofs above.
2. `Worker`: `scheduleEvery`, composed with the scheduler and the pool's closing order.
3. `OneToManyProcessor` and `MediaStream`: delivery, feedback and removal on different threads;
   abstract specification: nothing is delivered to or by what was removed or closed.
4. RTP handlers: `RtpSlideShowHandler`, `RtpTrackMuteHandler`, padding and retransmission;
   composition of two handlers that both renumber; `RtpPacketQueue`.
5. `TokenBucket` and the bitrate distributors against reference definitions.
6. Composition of `WebRtcConnection` with `DtlsTransport` (end of candidates, failures before it),
   and two `DtlsTransport`s facing each other.
7. Theorems: `NackOnlyMissing` with a bound on the packets within the time an entry lives instead of
   on the whole stream; the token bucket; what the compositions above promise.

## Not modelled

Text of session descriptions and candidates, codecs and containers (FFmpeg), cryptography,
statistics and bandwidth estimation (floating point, in the WebRTC library), sockets of RTP
sinks and sources, the vendored libraries, the sample programs and the older copy of erizo. Of the
modelled classes: the copy of the local description into the answer, local trickled candidates and
the media path of `WebRtcConnection`; `Worker::scheduleEvery`; the audio stream's reports, jitter and
sender-report times of the feedback; the numbers and picture identifiers that `QualityFilterHandler`
rewrites; the parsing of candidates and the queries of
`LibNiceConnection`. `PROJECT.json` gives the reason per component.
