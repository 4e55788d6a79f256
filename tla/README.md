# A verification project for FreeJ

FreeJ is a video mixer in C++: an engine thread composes layers onto a screen
while every layer, encoder and audio client runs in a thread of its own, scripts
and controllers change the composition at any moment, and ring buffers carry
sound and encoded bytes between threads. This directory holds TLA+ modules
translated from its source, TLC configurations that check them on small
instances, and TLAPS proofs of what matters most for every size.

Paths below are relative to `src/src` of the repository unless they say otherwise.

Contents: 1 the system, 2 the modules, 3 the runs, 4 bounds, 5 fairness,
6 proofs, 7 disagreements found, 8 what is not modelled, 9 plan.

## 1. The system

### 1.1 Components

| component | state | operations | what is hard | what makes it correct |
|---|---|---|---|---|
| `ClosureQueue`, `ThreadedClosureQueue` (`closure.cpp`) | a FIFO of closures and its mutex; `running_`, `cond_mutex_`, `cond_`, the worker | `add_job`, `do_jobs`, `get_job_`, `signal_`, `jobs_loop_`, the destructors | a broadcast between the worker's last look at the queue and its wait; a destructor that clears `running_` without a lock; jobs handed over from the worker to the deleting thread | each job once, in order, never two at a time; no lost wakeup; `delete` returns |
| `Closure` (`include/closure.h`) | its mutex, taken in the constructor; its condition | `run`, `wait`, the destructor | two threads share a closure and one of them deletes it; `wait()` has no predicate; its mutex and the queue's are taken in both orders | wait returns after the execution; one delete; nothing used after it |
| `JSyncThread` (`jsync.cpp`), base of layers and encoders | `_running`, `_thread`, `deferred_calls` | `start`, `stop`, `_run`, the destructor | restart while the old thread ends; calls deferred to a stopped thread; derived parts destroyed first | one thread; setup sees earlier calls; nothing runs on destroyed parts |
| `DumbCallback`, `DumbCall` (`callback.cpp`), end of stream | the list of calls; `refcount_`, `pending_` | `notify`, `add_call`, `rem_call`, `enqueue`, `dequeue`, the destructors | three threads; a mutex locked by one and unlocked by another, used as a flag | a call outlives its jobs; its delete returns |
| `VideoLayer` (`video_layer.cpp`) | the two slots of `frame_fifo`, `rgba_picture`, the packet it stands at, `to_seek`, `paused` | `feed`, `seek`, `pause`, `open`, `close`, the destructor | a feed takes no lock the engine holds; the movie is looped, or closed and opened again, while its picture is drawn; one feed may meet its end again and again | what is drawn is whole; a feed returns; the layer is deleted while its calls are served |
| ring buffer (`ringbuffer.cpp`) | the block, `write_ptr`, `read_ptr` | `write`, `read`, `peek`, the vectors and advances, `reset`, the spaces | a reader and a writer without a lock; wraps; full against empty | a bounded FIFO of bytes |
| Audio: `JackClient`, the writes of `VideoLayer::feed`, the audio half of `OggTheoraEncoder` (`audio_jack.cpp`, `oggtheora_encoder.cpp`) | four rings; `m_ringbuffer`, `m_ringbufferchannels`, `m_inbuf`, `m_Encoded` | `Process`, `SetRingbufferPtr`, `Mux`, `encode_frame`, `encode_audio` | four threads and no lock; what a full ring takes of a block; wiring during a period | sound in order, samples and channels whole; no block used before it is made |
| Encoders (`video_encoder.cpp`, `oggtheora_encoder.cpp`, `theorautils.cpp`) | the ring of encoded bytes, `encbuf`, the file and the stream | `thread_loop`, `encode_frame`, `oggmux_flush`, `set_filedump`, `stop`, the destructors | one thread is writer and reader of its ring and waits for room; recording is switched while it writes | a file is one run of whole pages; stop returns |
| `Linklist`, `Entry` (`linklist.cpp`, `include/linklist.h`) | `first`, `last`, `length`, `selection`; `next`, `prev`, `list`, `select` | `append`, `prepend`, `insert`, `insert_after`, `rem`, `up`, `down`, `move`, `sel`, `pick` | pointer surgery at the ends and next to each other; an entry that is in another list | both directions, the length and the membership agree; each call does what its name says |
| Filters and parameters (`filter.cpp`, `filter_instance.cpp`, `parameter.cpp`, `frei0r.cpp`) | a layer's chain; `active`, `layer`, `outframe`; a parameter's `value` and `changed` | `do_filters`, `process`, `apply_parameters`; `add_filter`, `rem_filter`, `set` | the walk on the layer's thread against scripts; a value without a lock given to the plugin by two threads | a frame goes through the whole chain; no setting is lost |
| Compositor: `ViewPort`, `SoftScreen`, `Blitter`, `Layer` (`screen.cpp`, `soft_screen.cpp`, `blitter.cpp`, `layer.cpp`) | the list of layers; a layer's `geo`, `need_crop`, `hidden`, `buffer`, `screen`; the crop's strides | `add_layer`, `rem_layer`, `reset`, `blit_layers`, `handle_resize`, `blit`, `crop`, `set_blit`, the deferred `_set_position` | the layer's thread moves the layer without a lock while the engine crops | it is drawn where it is, and inside both blocks of pixels |
| `Context` (`context.cpp`) | `controllers`, `screens`, `quit` | `cafudda`, `handle_controllers`, `register_controller`, `rem_controller`, `reset` | the list changes under the walk: by the script a poll calls, by a GUI thread | the walk stands on living controllers, polls each once, and ends |
| OSC controller (`osc_ctrl.cpp`) | `commands_pending`, the server's thread | the handler's append, `poll`, `dispatch`, `start`, `stop`, the destructor | `dispatch` looks at the list without its lock; who hears a command is known elsewhere | each command is dispatched once, in order |
| other controllers, other layers, `FPS`, iterators, console, OSD, the SDL/GL/ASCII screens, pixel blits, scripts' bindings, plugin loading | — | — | I/O, drawing, the clock | section 8 |

### 1.2 Who calls whom

* The engine (`Context::cafudda`) walks the controllers, which call scripts; then
  for each screen it crops again (after a resize) and blits its layers; then it
  waits for the next frame.
* A layer is a `JSyncThread`: its thread executes the deferred calls, then
  `thread_loop`, which feeds a buffer, sends it through the filters and publishes
  it. `set_position` is a closure added to its queue, never a direct store; a
  parameter of a filter is a direct store.
* `VideoLayer` notifies the end of a stream through a `DumbCallback`, which owns
  a `ThreadedClosureQueue` whose worker executes the calls.
* `VideoLayer::feed` writes the screen's audio ring that `JackClient::Process`
  reads on Jack's thread; `Process` writes the rings `OggTheoraEncoder` reads; a
  `VideoEncoder` writes and reads a ring of its own in one thread.
* `Linklist` is under all of it. It has a recursive mutex which changes take and
  many walks do not; an entry is in one list at most, and `append` moves it.

### 1.3 Hazards

`PROJECT.json` lists each at its line, with the property that would catch it or
the reason why none does. They are of six kinds: steps of two threads (queue
wakeups, the ring's pointers, crop against move, walks against calls, settings
given by two threads); objects destroyed while used (closures, calls,
controllers, commands, threads' derived parts); ordering (jobs across the
hand-over, calls deferred before a start, sound through four rings); partial
effects (a full ring takes a part of a block); numeric edges (ring full and
empty, the crop at each border, a sample left over); termination (`delete`,
`stop`, `wait`, the walk).

## 2. Modules

| module | models | its own idea |
|---|---|---|
| `ClosureQueue` | the queue and `do_jobs` | the part that the next ones share; a job is in a runner's hands between pop and execution |
| `JobService` | — | abstract: jobs are executed once, serially, in order; closes only when all are |
| `ThreadedClosureQueue` | the worker, `add_job`, the destructors | who holds `cond_mutex_`, and where each thread is |
| `SyncClosure` | synchronized closures on that very queue: extends `ThreadedClosureQueue` | each of its actions is one of the queue's with what closures add; who holds which mutex, who deletes |
| `JSyncThread` | `start`, `stop`, `_run`, the deferred queue, the two ways a derived class is destroyed | threads are numbered by the start that made them |
| `EosCallbacks` | `DumbCallback`, `DumbCall` | uses the dispatcher as a `JobService`, which `ThreadedClosureQueue` implements |
| `VideoLayer` | the movie as a layer: extends `EosCallbacks` | slots of pictures, of which the property asks only whether they hold a whole one; the packets' contents are left out |
| `ByteFifo` | — | abstract: a bounded queue of bytes |
| `RingBuffer` | every call of the ring, by one thread | refines `ByteFifo` |
| `VideoEncoder` | the encoder's thread, recording, streaming, deletion: extends `RingBuffer` | encoded bytes are numbered, so a file tells what it misses |
| `RingBufferSPSC` | `write` and `read` load by load, store by store | bytes are numbered, so the order read tells all |
| `SharedFifo` | — | abstract: one queue for two threads; a step is a piece of a call |
| `AudioMux` | four rings from the movie and the input to Vorbis | a ring's call is one step (its inside is `RingBufferSPSC`'s); a byte carries the samples it comes from |
| `EntryLists` | — | abstract: lists as sequences |
| `Linklist` | the pointers | refines `EntryLists` call by call |
| `FilterChain` | a layer's chain of filters: extends `Linklist` | the walk is on the pointers themselves; the parameter's store, mark, give and unmark are steps |
| `LayerBlit` | one layer: its thread, the engine, the script | the crop in the sections between which a store of the layer's thread may fall |
| `Controllers` | the walk, scripts inside polls, the GUI thread | `hurt` names how a deleted controller came to be used |
| `OscQueue` | one of those controllers, with its server's thread: extends `Controllers` | an append in the three parts that `dispatch` can see between; `Listeners`, of which there are none, are whom `JSCall` calls |
| `*_proofs` | — | the theorems and lemmas (section 6) |
| `MC_*` | — | the instances for TLC |

How they correspond to the code: an action is named after the function it
models, or after the part of it between two points where another thread may
come in; `map` in `PROJECT.json` gives the lines of each. A critical section
that calls nothing outside itself is one action (`AddJob`, `GetJob`, `Unlink`).
Where code is executed without a lock that another thread could need, each load
and store that the other thread can tell apart is an action (`StoreX`,
`StoreY`, `RequestCrop`; `WriteAdd`, `WriteMask`; `SetValue`, `Mark`,
`GiveValue`). A variable that the code has keeps the code's name; one that it has
not is a program counter or is marked *history*. A history variable is in no
guard, but for the bounds of section 4, the freshness of a new closure's address,
and those of the next paragraph.

Misuse. Some legal calls have the code touch freed memory, after which it may do
anything. The modules let those calls happen and record it, and go no further:
their properties speak of executions without it. So they say under exactly which
conditions the rest is right. `Controllers`, `OscQueue` (`hurt`): a controller
deleted in its own poll; one taken off the list between `begin()` and the lock;
one registered again while the other thread is deleting it; a call on a deleted
one; a command taken in the middle of its append. `EosCallbacks` (`misused`):
`rem_call` of the call that a notify stands at, and deletion of the
`DumbCallback` during a notify. `AudioMux` (`rewired`): `SetRingbufferPtr` called
again inside a period. `SyncClosure` (`early`): a spurious return of
`pthread_cond_wait`, for which `wait()` has no test.

## 3. Runs

| run | states | shows |
|---|---|---|
| `tcq` | 71 000 | the queue with synchronized closures: `FifoExactlyOnce`, `NoLostWakeup`, refinement of `JobService`; a woken waiter's closure has run; one delete and no use after it; every job runs, every wait and `delete` returns, but for the embrace of section 7 |
| `jsync` | 11 000 | one thread at a time over restarts; `stop()` is final; setup sees the earlier calls; deferred calls are a `JobService` over all threads of the object, and each is executed unless `stop()` comes first, which returns |
| `jsync_delete` | violation | the derived parts are destroyed under the running thread |
| `ring_spsc` | 13 000 | two threads: bytes in order, copies disjoint, all arrive — if a pointer is never seen between its `+=` and its `&=` |
| `ring_spsc_window` | violation | if it is seen, stale bytes are read |
| `encoder` | 191 000 | the encoder's ring is a `ByteFifo`; a file is one run of whole pages; a wait for oneself and a read past `encbuf` come only after frames nobody wanted; `stop()` returns otherwise |
| `audio` | 659 000 | sound is lost, never repeated nor reordered; samples and Jack's channels stay whole until a full ring takes a part of a frame; `Process` uses what it was given |
| `filters` | 805 000 | lists: both directions agree and each call is the one of `EntryLists`, no NULL is dereferenced in the modelled calls (TLC would stop). Chain: a frame goes through all of it, and settings reach the plugin, but in the two cases that `stale` records |
| `blit` | 7 338 000 | a layer is shown where it was asked to be, whatever moves meanwhile and however often a resize crops again, but for a move that is `lost` or `overwritten`; and what a crop that came to its end undisturbed gives is drawn inside the screen and the layer |
| `blit_hidden` | violation | a layer whose crop returned early is drawn all the same, outside the screen |
| `eos` | 699 000 | counter, mutex and pending jobs agree; calls outlive their jobs; a feed returns unless the movie gives no picture from end to end, and deletes of calls and of the layer return; a picture is whole while it is the one last published |
| `controllers` | 1 013 000 | the walk stands on living, listed controllers; each steady one is polled once; the frame ends; OSC's commands are dispatched, once and in order |

Every property of a passing run has a mutant in `PROJECT.json`: a definition of
the model changed as a bug in the code would change it (the mutex not taken, the
request forgotten, the entry not unlinked first...), with which TLC finds the
property violated. The mutated operators stand before the ones they replace and
are named `Mutant:` or *a plausible bug* in their comments; nothing else uses them.

Deadlock is checked but in three runs. `controllers` stops when the
program quits or when `hurt` is set, `eos` when the layer is gone or the job
bound is reached, `audio` when the bounded sound has been
played. The others say explicitly what the end looks like (a disjunct that
stutters only when every thread is at its end), so that any other stop is an error.

## 4. Bounds, and why they are enough

* `tcq`: two submitters, one plain and two synchronized closures, one spurious
  wakeup. Two threads can stand between push and broadcast at once, one closure be
  executed, one in hand and one queued. Safety is proved without bounds.
* `jsync`: three calls over two starts: one before the first start, one while it
  runs, one while stopped. Proved without bounds too.
* `ring_spsc`: size 4, blocks 1..4, nine bytes: the pointers go round twice, so
  each wrap meets each position of the other pointer.
* `encoder`: a ring of eight, frames of no, one and two pages that fit, fill most
  of it, wrap, and do not fit behind the frame before; fourteen bytes in all. A
  frame is given as the places where its pages end. The pages of one frame fit into
  the ring next to the headers (`EncoderAssumption`): a ring of 4 MB in the code,
  and pages of at most 64 KB. Without it the first frame could already wait for room.
* `audio`: stereo samples of two bytes, periods and frames of one sample, rings of
  two and four frames less one byte (the code's rings are never a multiple of a
  sample either, for the slot that stays empty): blocks that are taken whole, cut
  in a frame, cut in a sample. Two wirings and one stream. What
  the uninitialised `m_ringbufferchannels` may hold is `Garbage`: no channel, one, two, and
  one more than there are.
* `filters`: three entries that are all filters of one layer, one of them with a
  parameter in use; or two filters that each have a parameter; or one, whose parameter
  may be named by a number, so that no value is given; or three entries of two other lists. Positions 0..4: an end, a middle, and neighbours that coincide. Other
  lists and filters share no entry in the code either. A parameter has two settings;
  the walk may hold one parameter's value while the script sets another's. The two other
  lists are symmetric, and so are the settings: no definition tells them apart.
  `pick` is evaluated on lists up to nine, past the threshold at which it walks from the
  other end (an `ASSUME` of the MC module).
* `blit`: a 2×2 layer on a 3×2 screen, four positions that cross each border and
  lie just past it; a move may be half done, so all x/y mixes occur. Two positions do for
  `blit_hidden`, one across two borders and one off the screen. The blits of
  one `Blitter` differ in nothing that is modelled; one is enough.
* `eos`: two calls, two jobs; a movie of two packets, so that its end is neither
  its first nor its only one. In `MC_VideoLayer` a movie on a screen (paused, sought in,
  drawn) has no calls, and one with calls is on no screen: the engine and the calls
  meet only in the layer's thread, whose steps are the same in both. A packet may be
  given in two parts and a seek may fail where the movie is on a screen; off it, packets
  are whole and seeks succeed, so that its long sequences are those of the end.
* `controllers`: three, two of them singletons, one OSC's: the walk has a
  controller before, at and behind it, and a script called
  from one singleton's poll meets the other. Two commands: one in mid-append behind
  another. In `MC_OscQueue` a program has a GUI that calls, or gets OSC messages
  (`gui`): the two threads share no data but through the engine. `polls` is capped at 2.

## 5. Fairness

Weak fairness only, on the steps a thread takes by itself: a started thread goes
on; a thread that wants a mutex gets it when its holder lets go for good or — in
`tcq`, where the worker lets go only in its wait — is woken. Nothing obliges a
script, a GUI, a server or a submitter to call anything, nor a spurious wakeup to
happen.

* `tcq`: `SignalLock`/`Broadcast` of each submitter, the worker, the destructor,
  a waiter that is woken.
* `jsync`: `_run`, the join of `stop()`, the destructors.
* `ring_spsc`: steps of a call begun, and that the reader goes on reading, as
  Jack's callback does in every period.
* `encoder`: its thread, and a destructor that waits in `stop()`.
* `eos`: the layer's thread (libavcodec answers), the worker, the destructors, a
  blit begun. Nothing obliges a packet to give a picture: `FeedsReturn` has the exception
  the code has, a movie of sound alone, or with no picture that can be decoded, whose feed
  goes from end to end for ever (`video_layer.cpp:385-583`).
* `controllers`: the engine's steps, scripts excluded; the rest of an append once
  begun. `FrameEnds` has the exception the code has: controllers that register
  listed ones again from their polls (each `append` moves one to the end, ahead of
  the walk) keep the engine in one frame for ever.

## 6. Proofs

Checked by TLAPS; each theorem holds for all values of the constants that satisfy
the named `ASSUME`s of the modules (distinct thread names, a ring of at least two
bytes...), so for any number of threads, jobs, controllers, filters, bytes or pixels.
`PROJECT.json` says of each theorem which property of a run it states. None of these
is inductive as it stands; what the strengthening adds is the argument.

**`SyncClosure_proofs`**, in two parts. For the queue: `Inductive`, `TypeCorrect`,
`JobsDoNotOverlap`, `WakeupsAreNotLost`, `JobsKeepOrder`, `QueueImplementsService`.
`IInv` adds who holds `cond_mutex_` at each place (`MutexInv`), where a job can be in
hand (`HandsInv`), the phases of a delete (`PhaseInv`), and `WakeupInv`: from the
worker's test of the queue until its wait it holds `cond_mutex_`, so a thread that has
pushed or cleared `running_` since cannot have broadcast yet; it is still at `signal`
or `broadcast`. `delete` starts when no `add_job` is in progress (the contract of any
destructor; a guard in the model). `FifoExactlyOnce` is equivalent under `IInv` to a
form with one hand only, which a push, a pop and an execution keep. For the
closures: `ClosuresUseTheQueue` (`SyncSpec => Spec`) lets all of that hold of the queue
under closures; `SyncIInv` then has each job in one place (`OnceInv`), each producer with
a closure of its own (`MineInv`), and, until a wait returns spuriously (`early`), who is
yet to be woken, executed or deleted (`OwnersInv`). From it `ClosuresHaveOneOwner`,
`WaitersFindItExecuted`, `ClosuresAreDeletedOnce`.

**`JSyncThread_proofs`**: `Inductive`, `TypeCorrect`, `OnlyOneThread`,
`JoinIsOfTheLiveThread`, `StopIsFinal`, `SetupIsLate`, `StoppingFirstIsSafe`,
`DeferredCallsInOrder`. `IInv` is `TypeOK` with: the only thread that can be alive is the
last one made, and only while `_running` or a join says so (`Lifecycle`); a call is in
hand only inside `do_jobs` (`Hands`); what was added is what ran, the call in hand and
the queue, in order (`Order`); what was deferred before a start has run when its setup
begins (`Earlier`). The control is by one owner thread, as `start` and `stop` require.
`StoppingFirstIsSafe` has a hypothesis, that the derived destructor stops before it frees
anything, as `XGrabLayer`'s does (`close()`, `xgrab_layer.cpp:331-340`); the run
`jsync_delete` shows that it is needed. `VideoLayer`'s does not meet it: it deletes `eos`
before it stops (`video_layer.cpp:93-94`), which `VideoLayer.tla` models (`DeleteEos`).

**`SoundRings_proofs`**, in two parts. For the way of the sound: `RingsHaveRoom`,
`ProcessUsesWhatItHas`, `NoSoundIsReordered`, `NoSampleIsTorn`, for rings of any sizes, any
number of channels, any period and packets, from `AudioAssumption` alone. Lemmas say first
what each call does with a ring's contents: `FeedSteps` and `ReadSteps` cut a sequence in
what goes on and what stays or is lost, and `EncodeSteps` does so twice: the mixture is what
the ring takes and what is lost, the ring then what Vorbis is given, what is taken and not
given, and what stays. Joining such pieces keeps an order if all of one is earlier than all
of the other (`OrderJoined`, `InputsJoined`, `SamplesJoined`, `FramesJoined`), so that each
invariant is a statement about the pieces.

* `WiringInv`, for `UsesWhatItWasGiven`: Jack has the ring only when the wiring is done and
  the buffer made for it, and unless rewired a `Process` beyond its test has both still.
  It also gives that Jack then has the ring's number of channels.
* `MovieInv`, for `SoundInOrder`: what Vorbis was given, the three rings and what `Process`
  has in hand are five sets of bytes, each in order and all of it earlier in the movie than
  the next (`Chain`), and together they are all that was decoded and not given up. What
  passes on moves from one set to the one before it. `InputInv` is the same for the input,
  ending with the last period that Jack delivered: a new one is later than all the others.
  Both need that nothing is held where the program stands outside (`PlacesInv`).
* `WholeInv`, for `SoundStaysWhole`: while no frame was cut and no channels changed under a
  period, the rings that `Process` reads and writes hold whole *frames* that begin with the
  first channel, the mixed ring and what Vorbis was given only whole *samples*: `encode_frame`
  takes all but one of them in the first call, so that the channels do not keep their
  places there, and no property says they do (section 7).

For the inside of one ring: `ReadsWhatWasWritten`, `ThreadsCopyApart`,
`TwoThreadsShareAFifo`, load by load and store by store. `SpaceInv`: the pointers are apart by what was published less what was
taken, and what either thread has computed is still there, whatever the other did since
(the other can only make room). `HeldInv`: what was copied in and not yet taken out
stands in the block from `read_ptr` on, in order, over the wrap. The third theorem is the
refinement of `SharedFifo`: the bytes in the block from `read_ptr` to `write_ptr` change only
by bytes that appear behind them, within the capacity, and by bytes that leave the front
after the reader has copied just those. The argument (`FifoInv`): what was taken and what
may be read are two runs of numbers that meet, and a step moves one end of one of them,
when a pointer is added to and at no other time (`CountsMove`). All three have the
hypothesis that no pointer is seen between its `+=` and its `&=`; the run
`ring_spsc_window` shows that it is needed. This is what lets `AudioMux` take the calls on
a ring for steps on a sequence, with one difference that no theorem covers: a write over
the end of the block appears in two pieces, and so does the room a read leaves.

**`VideoEncoder_proofs`**, in two parts. For its ring: `TypeCorrect`, `SpacesAlwaysAddUp`,
`RingIsFifo`, for every `sz`, one thread at a time. Masking by `size - 1` is `% Size`; the
lemmas give the spaces, the two pieces of a transfer, what a stored block holds and what a
fetched one is, and that walking round the block from `read_ptr` is concatenation.
`RingIsFifo` maps each call to the one of `ByteFifo`; the run `encoder` exercises `write`
and `read`, the theorem all of them. For the encoder: `EncoderInvariant`,
`OnlyUnwantedFramesHurt`, `FilesAreRuns`. `EncInv`: the ring holds the last bytes encoded,
beginning with a page (`RingInv`); the pages that wait come next and fit, unless the last
frame was left in the ring (`PagesInv`); what is in hand is all the ring held (`HandInv`);
who records has an open file (`FlagsInv`); and the file goes on with what is in hand and
in the ring (`FileInv`).

**`VideoLayer_proofs`**: `VideoIInv`, `RefcountCountsPending`, `DeletedCallsAreIdle`,
`DrawnFramesAreWhole`. `IInv` has where each thread is and what it stands at
(`PlacesInv`), a counter never below the jobs not done (`ReferencesInv`), and, while no
call was misused, equal to them, with the mutex locked exactly for that reason
(`CountsInv`), and nothing deleted that is registered or counted (`LivesInv`).
`FramesInv`: the published buffer is one slot, holds a whole picture, and the feed goes
on at the other slot.

**`OscQueue_proofs`**: `ControllersInv`, `TheWalkIsOnTheLiving`, `EachIsPolledOnce`,
`CommandsDispatchedInOrder`. `OscInv` holds while `hurt` is "no": what is listed is alive
(`ListInv`); under the lock the walk stands on a listed controller (`WalkInv`); of the
controllers that stay, those before the walk were polled once and those behind it not
yet (`SteadyInv`, on counting lemmas about what stays of a list); commands pending go on
from those dispatched (`QueueInv`), which is all that the theorem says: `JSCall` does not
take a command to a script (section 7).

**`FilterChain_proofs`**: `LinksStayWhole`, `CallsAreTheirs`, `FramesGoThrough`,
`SettingsAreNotLost`. `LinkInv`: there is a sequence of entries for each list such that
`first`, `last`, `next`, `prev`, `length` and `list` are what the sequences say. For each
call a lemma describes the sequences after it, and that is the call of the same name in
`EntryLists`, so the refinement is proved call by call and in the same pass the links.
`FrameInv` adds that the chain's entries are filters, and that the walk has passed a
beginning of the chain and stands at what follows; the script's calls that would change
the chain wait for the mutex the walk holds. `ParamInv` adds what the walk has just given.
That `Walk` spells a list is an induction over its length, done through the least
counterexample (`WFMin`, which needs no operator as a parameter).

**`LayerBlit_proofs`**: `BlitInvariant`, `LayersAreWhereTheyAre`, `BlitsStayInside`, for
screens and layers of any size and any moves. `CropInv`: while no move has disturbed a crop,
each section has stored what the position asks for (`Stage`). `DrawInv`: after one that
nobody disturbed the parameters are those of some position within range (`Placed`).
`TornInv`: who disturbs a crop has its request still to come, or has made it in vain
(`lost`). `ShownInv`: with no request due the parameters are those of the present
position, and a crop that `handle_resize` starts without need goes through. `AskedInv`: a coordinate
that no crop has overwritten is the one asked for, or as far off the screen (`AlikeShow`:
both show nothing). `BlitsStayInside` is about the crops that come to their end: one that
returns early leaves what it did not come to, and is drawn too (section 7). `PlacedShows`
compares the two loops of the blit with the visible part, row by row and column by
column.

What attempts at these proofs showed of the models, since corrected there:

* `PolledOnce` was false with two singletons: a `reset` called in the poll of one makes the
  other inactive before its turn, yet the history `steady` went on counting it. `steady`
  now drops what `reset` makes inactive, and the instance has two singletons.
* `ParametersArrive` was false with two parameters: an older value that the walk gave
  while the script was setting *another* filter's parameter was not recorded in `stale`.
  It is now, and the instance has two parameters.
* `Pick` and what remains of a list after a deletion are written without recursion and
  `SelectSeq`, and the crop's stores without `@@`, which the provers cannot expand.
* `SoundInOrder` selected subsequences with `SelectSeq`, which is recursive. It now speaks of
  any two places of what is on the way and of the set of bytes that are there. With the bytes
  of a movie all different, that is the same promise, and it reads better.
* `OnlyTheUnwantedGoesWrong` needs room for a frame next to the headers (section 4).

**Proved only.** `TwoThreadsShareAFifo`, `SpacesAlwaysAddUp` and the type invariants state no
property of a run.

**Model-checked only.** All liveness (temporal proofs under fairness and `ENABLED` are out
of this prover's reach);
`NoRunAfterDestroy` without its hypothesis and the properties of the other two
violations, which are false;
that `pick` finds its position in long lists, which is evaluated.

## 7. Where the code and its words disagree

With a run of their own:

1. `jsync_delete`: `~JSyncThread` stops the thread "before destroying"
   (`jsync.cpp:39`), but as the base's destructor it comes last; of the layer
   classes those that do not stop first themselves (`GeneratorLayer`,
   `ImageLayer`, `TextLayer`) are destroyed under their running loop.
2. `ring_spsc_window`: "This is safe for the case of one read thread and one write
   thread" (`ringbuffer.cpp:20`). `write_ptr += n` and `write_ptr &= mask` are two
   stores to a volatile; in between the pointer equals `size`, and a reader whose
   own pointer has just wrapped to 0 sees a full block. The rest of the claim
   holds (`ring_spsc`).
3. `blit_hidden`: `hidden` is "read-only by the blit" (`include/layer.h:182`), and no
   software blit reads it (`screen.cpp:230-250`, `soft_screen.cpp:66-96`). The crop of a layer
   off the screen resets pitch and height and returns (`blitter.cpp:204-207`) with the
   offsets of an earlier position: from (-1,1) to (-3,3) the instance's 2x2 layer is written
   at pixel 7 of a screen of 6.

Named as exceptions in properties of passing runs:

* `Embrace` (`SyncClosure`): `add_job` takes the queue's `cond_mutex_` to signal while
  the submitter holds its new closure's mutex, and the worker takes a closure's mutex
  (`include/closure.h:178`) while it holds `cond_mutex_`: both may wait for ever.
* `Stuck` and `overrun` (`VideoEncoder`): `ogg_pipe_write` (`theorautils.cpp:55`) waits for
  room that only its own thread can make; `~VideoEncoder` reads all that the ring
  holds into an `encbuf` made for a smaller frame (`video_encoder.cpp:134`).
* `closedUnderWrite` (`VideoEncoder`): `set_filedump` closes the file between the
  thread's test and its `fwrite`, or the thread tests the pointer between the `fclose`
  and the store of NULL (`video_encoder.cpp:315-316`).
* `cut` and `stale` (`AudioMux`): nobody looks at what `ringbuffer_write` returns, and
  `Process` reads the number of channels apart from the ring.
* `lost` and `overwritten` (`LayerBlit`): the crop's last store clears a request that was
  made during it; its "don't go far" overwrites a coordinate that was stored after its
  test (`blitter.cpp:204-205`, 215-216, 229-230, 243-244), and the layer stays off the
  screen, cropped in every frame, until the next move.
* The feed that goes round (`VideoLayer`, `FeedsReturn`): `while(!got_it)` meets the end of a
  movie that gives no picture, notifies, seeks and reads again (`video_layer.cpp:385-583`)
  without looking at what `stop()` sets. A layer deleted meanwhile has deleted `eos` first
  (93-94): `DeletesReturn` names that as `misused`.
* `stale` (`FilterChain`): `apply_parameters` gives the plugin the value it loaded
  after the script has given it a newer one, and clears `changed` (`filter.cpp:132`,
  marked `XXX`): the plugin keeps the older value until the next set. And a script that
  names the parameter by its number leaves `idx` unset (`filter_js.cpp:129-132`): the
  value is stored, and `set_parameter` (163) may give nothing to the plugin, which then has
  the older value until the layer's thread applies the parameters.
* `hurt` and `misused`: section 2.

Met while modelling, without a property:

* OSC's commands reach no script. "define the function that will be called"
  (`scripts/javascript/examples/osc_test.js:18` of the repository) by a message, says the example;
  `dispatch` hands the name to `JSCall` (`osc_ctrl.cpp:172`), which calls the functions of
  the controller's listeners (`controller.cpp:104-115`), and `js_osc_ctrl_constructor`
  (`osc_ctrl.cpp:211-252`) sets the older `jsobj` and adds none, unlike those of the
  keyboard, the mouse and the trigger. Every command is reported as failed and deleted.
  So in `OscQueue` nothing is called in a poll, and `CommandsInOrder` and
  `CommandsAreDispatched` end where `JSCall` begins.
* Left and right of a stereo stream are exchanged. `encode_frame` takes all the bytes
  but one sample (`oggtheora_encoder.cpp:311-312`) and `encode_audio` divides them into
  frames (389), so that the first call that takes any drops a left sample. The right one
  that stays in the ring makes the numbers fit: later calls take whole frames and drop
  nothing, but each frame begins with the second channel, for the rest of the stream.
* A movie that cannot be sought in is closed and opened again at its end: `close()` frees
  `rgba_picture` and `open()` goes on through the old pointer; a paused movie's buffer is
  that same picture. A seek asked for between a feed's `seek` and its `to_seek = -1` is
  lost. `seek(start_time)` always answers 0, so "could not loop file" is never said.
* The comment at `layer.cpp:157` speaks of a memcpy at the end of the pipeline that is
  not there: with a filter the layer publishes the filter's only `outframe`, which the
  next frame's update writes while the engine draws it.
* `rem_filter` does not reset the instance's `layer`: `add_filter` refuses it ever after as
  "already in use". `set_parameter` before `add_filter` gives a plugin without an
  instance.
* `changeres` is never cleared: after one resize every frame crops every layer.
* `Entry::move` with a position out of range, `~ViewPort` that locks its layers for ever,
  `Detach` that frees its rings twice, `start()` that reports no failure of
  `pthread_create` and has `stop()` join a thread that never was: hazards with notes.

## 8. What is not modelled

* Of modelled components: failures of pthread calls; `Linklist::swap` and
  `sel(pos)` for other positions (no callers); zoom, rotation, `fit`, the SDL and past
  blits, the surface of an SDL or OpenGL screen; the destruction of screens; listeners
  of controllers; `Attach` and `Detach`; what codecs, plugins and servers compute.
* Other layers: each fills a buffer from a library; what they share is modelled.
* Iterators: nothing runs them (`Layer::cafudda`, which does, has no caller).
* `FPS` computes with floating point and the clock; TLC has neither.
* Keyboard, mouse, MIDI and other controllers: each turns events into the names of script
  functions; the engine's side is in `Controllers`.
* Console and OSD, screens of SDL, OpenGL and ASCII, pixel arithmetic, bindings,
  plugin loading, logging: drawing and I/O, with little state between two calls.
* `lib/`: the JavaScript engine and other vendored libraries, most of the repository's
  lines.
* The memory model: loads and stores are sequentially consistent. On the machines
  FreeJ is built for, `volatile` gives less.

## 9. Plan

Done: the modules above, and a theorem for every safety property and refinement that the
passing runs check. What could come next:

1. The calls of `AudioMux` in the pieces of `SharedFifo`, a call over the end of the
   block being two.
2. `Attach` and `Detach` with the ports they register, and the destruction of screens: the
   hazards in `PROJECT.json` that no property covers yet.
3. Liveness of the runs, with a prover that has `ENABLED`.
