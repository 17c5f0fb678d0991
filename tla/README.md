# Bell, modelled in TLA+

Bell is a C++ library for audio players: byte buffers and streams, chunked PCM
buffering between a decoder and a player, audio containers and codecs, DSP,
audio sinks, and the network services (HTTP, MQTT, mDNS) of such a device. This
directory holds TLA+ modules of its components, the TLC configurations that
check them, and proofs for TLAPS.

## 1. Inventory

Own code is under `src/main`; `src/external` is third-party. Every component is
also listed in `PROJECT.json`, with what of it is modelled, and so is every place
where the code is hard to test ("hazards").

| Component | State | Operations | Interacts with | What is hard | What makes it correct | Modules |
|---|---|---|---|---|---|---|
| `CircularBuffer` | storage, two indices, byte count | write, read, emptyBuffer, emptyExcept, under one mutex | owned by `CentralAudioBuffer` | wrap-around, the end index resting at the capacity | it is a bounded byte queue | `CircularBuffer` |
| `CentralAudioBuffer` | the ring, the open chunk, the last chunk read | writePCM, readChunk, clearBuffer, emptyCompletely, hasAtLeast | decoder and player threads | raw copies of structures, refused and truncated writes, track changes | samples come out once, in order, under their track | `CentralAudioBuffer` |
| its access lock | atomic flag, mutex | lockAccess, unlockAccess | threads that start and stop playback | flag and mutex change apart | unlock only what is held; what is held can be unlocked | `AccessLock` |
| decoder and player (`example/main.cpp`) | the frame in hand; the player's poll | decode and write; poll, read, feed | through `CentralAudioBuffer` | each waits for the other; buffer emptied at any time | neither starves; no null chunk is played | `Playback` |
| DSP | pipeline, effect with its position, transforms with cached settings | process, applyPipeline, queryInstantEffect, volumeUpdated, reconfigure | player's thread, control thread | reconfiguration while processing, caches, thirteen filter formulas | a chunk has one configuration; filters do what their names say and are stable | `Dsp`, `Transforms`, `Biquad` |
| `BufferedStream` | ring, two pointers, counts, flags, source, two semaphores | open (two forms), close, read; task: first fill, refill loop, end | client thread, task, source | two threads on shared variables with almost no locking | bytes in order, no overrun, every call returns | `BufferedStream` |
| `Queue` | queue, force-exit flag, condition variable | push, pop, wpop, wtpop, clear | HTTP, player applications | lost and stolen wake-ups, exit cancelled by a push | no lost wake-up; no element taken that is not there | `Queue` |
| `WrappedSemaphore` | platform semaphore | wait, twait, give | `BufferedStream`, sinks | deadlines in four units, signals | a wait says what it did; a timeout lasts as long as asked (not always, section 6) | `Semaphores` |
| `BellTask` | stack, control block, timer | startTask, the timer, destruction | every component with a thread | the timer asks the object which block to free, and the object may have been started again or destroyed | a block is freed once, by its own task's timer, unless that task was overtaken | `BellTask` |
| Unix sinks | slot ring with a full flag, pending bytes | feedPCMFrames, sink task | player | full and empty told apart by a flag | blocks played once and in order | `RingbufferPointer`, `AlsaSink` |
| ESP sinks | codec registers; I2S ring; S/PDIF block | driver calls; feed, task; encode | I2C bus, I2S driver | shared registers on a failing bus, short writes, bit-exact words | settings hold; no sample lost or overtaken, words decodable | `CodecBus`, `Codecs`, `I2sSinks` |
| `MDNSService` | server, client, instance count, mutex | registerService, unregisterService | avahi, the built-in server | shared statics, lifetime | a server lives as long as a service | `Mdns` |
| `BellHTTPServer` | route trees, mutex, web socket handlers | register, find, handleGet, handlePost, extractParams, web socket callbacks | civetweb's workers | precedence of routes, handlers at the same time | the newest fitting route answers, once, alone | `HttpServer` |
| its stream adapters | buffers of a connection | overflow, sync, underflow | civetweb | a connection that breaks between two characters | characters in order | not modelled |
| `BellMQTTClient` with MQTT-C's queue (`external/mqtt/mqtt.c`) | queue of messages and their states, error, send offset | connect, subscribe, publish, sync, disconnect; pack, send, resend, receive | socket, broker | full buffer, late answers, half-sent messages, reconnect | CONNECT first; order but for what is sent again or waits; what was accepted is kept | `Mqtt` |
| `SocketBuffer` and sockets | put and get area, descriptors, TLS contexts | overflow, underflow, sync, xsputn, xsgetn; open, close | kernel, mbedtls | short counts, failures half-way | bytes in order, nothing leaks | `SocketStream`, `Sockets` |
| `URLParser` | | parse in two builds, encode, decode | HTTP client | two implementations of one thing | parts and values are read back | `UrlParser` |
| picohttpparser | state of the chunked decoder | parse request, response, headers; decode chunked | HTTP client | input in pieces | pieces make no difference | `HttpParser`, `ChunkedDecoder` |
| `HTTPClient` | head buffer, headers, body and its size, kept by a `Response` | request, readHeaders, body | parser, socket | connection ending anywhere, long heads, a second request on one `Response` | headers and body are the reply's; get returns | `HttpClient` |
| `X509Bundle` | bundle, places of its entries | init, callback | TLS handshake | bounds of the search, refused bundles | valid if and only if the bundle says so | `CertBundle` |
| `BellTar` | position in the archive | put, finish; read, skip, extract | streams | padding, truncated archives | what was written is read back | `TarArchive` |
| binary streams | position, byte order | read and write integers | parsers | byte order, sign | round trip | `BinaryStreams` |
| containers and codecs | frame buffer, offset; handles | guess, fill, resynchronise, readSample, consume, decode; set-up | sources | bytes lost in guessing, resynchronisation, truncated frames | frames in order and none twice; which are lost is known; termination | `Containers` |
| `EncodedAudioStream` | window of the source | openWithStream, decodeFrame | source, decoder | a window with cut frames at its end | frames before the window in order, the end is reached | `Containers` |
| Crypto | digest context, keys, iv | sha1*, HMAC, PBKDF2, AES-CTR, Diffie-Hellman | Spotify and AirPlay clients | calls that share a context | digests and streams are those of their pieces | not modelled |
| `BellUtils` | | arithmetic of times | | carries | sums are sums | not modelled |

## 2. Modules

```
ByteQueue <--- BoundedFifo <--implemented by-- CircularBuffer
    ^-- CentralAudioBuffer --implements--> PcmChannel
    |         ^-- Playback
    ^-- BufferedStream
BlockQueue <--implemented by-- RingbufferPointer <--- AlsaSink
HttpParser <--- HttpClient, ChunkedDecoder       Transforms <--- Dsp
CodecBus <--- Codecs     I2sSinks     Biquad     TarArchive     Containers
SocketStream   Sockets   UrlParser   HttpServer   Mqtt   Mdns   AccessLock
Queue   Semaphores   BellTask   CertBundle   BinaryStreams

SequenceFacts <--- AudioProofs        about CentralAudioBuffer, Dsp, Biquad
              <--- SinksProofs        about RingbufferPointer, AlsaSink, Codecs,
                                      I2sSinks
              <--- ServicesProofs     about HttpServer, Mqtt, Mdns, AccessLock
              <--- FoundationsProofs  about CircularBuffer, CertBundle, BellTask,
                                      Semaphores, BinaryStreams
              <--- StreamProofs       about SocketStream, Sockets, TarArchive,
                                      Containers
BufferedStreamProofs  about BufferedStream
```

An arrow points to the module that is extended. `Queue` ends with its own proofs. Three
modules are checked as they are (`BufferedStream`, `Queue`, `Playback`); for the others
`MC*.tla` extends several components and gives the sets too large for a `.cfg`.
Components that share no state share an MC module nevertheless: its variable `part`,
chosen in the initial state, says which of them a behaviour runs, and the others stay
where they began. What does interact is composed by extension: the threads of `Playback`
around the chunk buffer, those of `AlsaSink` around its slot ring, the HTTP client over
its parser; or within one module: the HTTP server over its router, the S/PDIF encoder
over the I2S feed, the codecs on one bus.

### Buffers and threads

**ByteQueue** has the operators on byte sequences the others share: what of a
write fits, what a read takes and leaves.

**BoundedFifo** is the abstract specification of a byte buffer: a sequence and
the result of the last call. **CircularBuffer** is the code: storage, `begIndex`,
`endIndex`, `dataSize`, with one action per member function (a mutex covers each
body) and each `memcpy` an update of the storage (`CopyIn`, `CopyOut`).
`ImplementsFifo` maps the ring to the queue by `Contents`, the `dataSize` bytes
from `begIndex` on.

**CentralAudioBuffer** takes its ring as the byte sequence which the previous
modules justify. A byte of the ring is a pair of the chunk it belongs to and its
index in the chunk's representation, so a torn read is visible. `NoRoom` keeps the
code's unsigned subtraction with a finite `SizeValues`. `writePCM` is one action
(flush, re-initialise, copy); its refusal is the other disjunct. **PcmChannel** is
its promise: one stream of labelled samples. The fields a chunk gets together with
its `trackHash` are represented by it.

**Playback** adds the threads of `example/main.cpp`: the decode loop that retries
until a frame is accepted, the player's unlocked poll followed by a read, and a
controller that empties the buffer. `Feed` is the call of the sink.

**AccessLock** is `lockAccess` and `unlockAccess` step by step.

**BufferedStream** has one action for each access to shared state that the other
thread can tell apart. The client (variable `client` is its program counter, named
for the step it is about to take) opens a stream or a reader function, reads and
closes; the task (`task`) starts, takes its first source, and runs the refill
loop. `read` is `ReadCall`, `Spin`, `Check`, then `Take` and, per span, `Copy`,
`Consume` (the count), `Advance` (the pointer), and `ReadGive`. The refill is
`TaskRefill`, then per span `TaskFill`, `TaskFetch` (the source writes into the
storage), `TaskAccount` (the count), `TaskAdvance` (the pointer), then
`TaskRefilled` and `TaskSignal`. A byte is the pair of the open it belongs to and
its offset in that stream. `reset` is one step, since its caller has made sure
that no task is in the ring (except with `EarlyClose`). Sources and
reader functions are external: a read gives at least one byte until the end.

**Queue** has the mutex, the atomic flag and the condition variable apart: `push`
is `Push` (the flag), `Append` (the critical section), `PushNotify`, `clear` likewise,
and a waiting pop is `Wait` (the predicate, with the mutex), then sleep, or one of
`ReturnFalse`, `TakeFront`, `NothingToTake`, which load the flag again. A critical
section is one step unless the code reads the flag in it twice; `m_mutex` is the
consumer that stands between its two reads. `wtpop` differs by `TimeOut` and by its
second test for an empty queue. Taking the front of an empty queue is undefined and
ends the thread in the model (`broken`); `ElementsAreTaken` promises nothing after it.

**Semaphores** is `wait`, `twait` and `give` of the four platforms, chosen in the
initial state. Time is a clock in milliseconds; a waiting thread knows until when, in
the unit its platform computes (`Until`). On Linux a deadline has its seconds and its rest
apart, as in the code, so that a rest of a second or more is refused (`Deadline`). A
thread is woken by the count, by its deadline, or on Linux by a signal, which `wait`
takes for a give (`Interrupted`).

**BellTask** is the build in which a task has its stack in PSRAM: the block for the
control block which each start allocates, and the timer that frees one five seconds after
the task has made it, wherever the task is by then (`TimerFires`). Which block that is the
task asks its object after `runTask` has returned (`TimerStart`); the owner, who can wait
for the end of `runTask` only, may have started the object again by then, or destroyed
it, in which case the pointer read may be any. The history `overtaken` has the tasks to
which this happened.

### Audio

**Dsp** is `BellDSP` over `AudioPipeline`: `process` takes the mutexes one after the
other, passes the chunk through one transform a step, then applies the effect; a client
replaces the pipeline, asks for an effect, or tells the volume, which changes one
transform a step. **Transforms** is what each `reconfigure` makes of its json at a
volume, and what it keeps in its caches. A reconfiguration may throw half-way.

**Biquad** has the coefficients of each filter type as the code's formulas, over exact
numbers: sines and powers are parameters, any values that could be theirs
(`ParametersAssumption`), the amplitude a whole one. What the code divides by stays the
common denominator of the coefficients; where it divides by zero (`allPassFOCoEffs` at a
tangent of one) or takes the root of a negative number (`Root`, of a slope too steep for
its gain) they are `NotNumbers`. The properties evaluate the transfer function at zero, at
the highest frequency and at the filter's own.

**CodecBus** runs driver calls as programs of register accesses, a step each, any of which
may fail on the bus; registers are sets of bits. **Codecs** has the programs of the ES8311
with its clock table, and those of the AC101, the ES8388 and the TAS5711, with the bits
and the branches of each call. `Unwatched` are the kinds of settings for which nothing is
promised, since other calls undo them (section 6). **I2sSinks** is the sink's ring and the
feed task with a driver that takes any part of an item, none included: unless it took all
in one call, the task writes the item again from its beginning, and `repeats` has what was
taken before. Over that feed is the S/PDIF encoder: the table look-up of a sample, and
the block with its preambles.
**RingbufferPointer** is the slot ring of the ALSA sink, with the flag `full_` that tells
equal indices apart, and the swaps. **BlockQueue** is its promise. **AlsaSink** extends
the ring by the two threads: `FeedPCMFrames`, `Cut` and `PushBlock` for the feeding call
with its two loops, `PopBlock` and `WriteBlock` for the task. The loops that sleep 100
microseconds are actions that change nothing. The device is external.

### Formats

**TarArchive** is the writer followed by the reader. The archive is a byte sequence; a
header's bytes carry what the header says, so that a reader out of step is seen. The
istream is a record of position, eofbit and failbit with `peek`, `read` and `seekg` as
the standard defines them, which is what `number_of_files` stumbles over. The reader's
calls are one action each; `extract_all_files` is a loop of steps (`Extracting`), since
it has to end. `MayCut` allows truncated archives; `CountWhen` says in which situations
the client calls `number_of_files`. `HeaderAssumption`: no byte of a header is taken for
one of a file.

**Containers** is the ADTS and the MP3 container with `BaseCodec::decode` around them,
and `EncodedAudioStream` with its window. In all of them a stream is a
sequence of cells, the header of a frame of n bytes or another byte, and the buffer
holds positions, so that moves, refills and resynchronisation are the code's index
arithmetic, its unsigned differences included (`Strays`). A container begins empty, or as
`guessAudioContainer` makes it, which reads `HeadRead` bytes and hands over `HeadKept` of
them (14 and 7 in the code); the rest is lost. `ContainerAssumption` says that the buffer
has room for two frames and for what guessing leaves in it. Of every stream the buffer is
the stream (`BufferIsTheStream`) and frames are decoded in order, none twice
(`DecodedInOrder`); of the streams of whole frames (`WholeFrames`: each begins where the
one before ends, and no byte within a frame reads as a header) `AllFramesDecoded` says
which are decoded: those that have as many bytes behind them as the container wants to
see (`Margin`), but for the first of a guessed MP3 stream; of a guessed AAC stream none is
promised. `NoFrameLost` is what one would expect instead, and fails.

**BinaryStreams** writes integers and reads them by every call of `BinaryStream` and
`BinaryReader`; an integer is its bytes, and what the code shifts, or-s and swaps is done
on them. **CertBundle** is `init`, and the callback with one comparison of its binary
search a step.

### Network

**HttpServer** builds the tree of routes and walks it as `insert` and `find` do; what an
answer should be is stated without a tree (`Answering`: the newest registration of those
that are left when each part of the uri has chosen). Around it are the workers, with the
mutex, `extractParams`, the answers, and the callbacks of web sockets. A handler may throw
before it has answered or after; the exception of `notFoundHandler` ends the process.
**Mqtt** is the client with the queue of the MQTT-C library under it, which is part of the
repository: messages are packed (`Pack`, an error when the buffer is full), sent in two
parts of which the socket may take one (`Send`, with the library's one `send_offset`),
sent again when an answer is late (`AnswerIsLate`), held back while another of QoS 2 waits
(`HeldBack`), and dropped when they are answered (`Answer`); what a broker publishes makes
replies (`Published`). The socket and the broker are external. **Mdns** is the service
over its libraries, which are external.

**SocketStream** is the stream buffer: the put area with the room behind it, the get
area, and each virtual function with all the ways the socket may cut it short. Bytes
are numbers, histories say what each side has seen. **Sockets** is what a socket holds:
descriptors and TLS contexts, on every way an `open` can fail, the constructor of a
`TLSSocket` that throws included. **UrlParser** has both
builds of `parse` and the two encodings. **HttpParser** is the parser of heads over
classes of characters, **ChunkedDecoder** the decoder's states with one action per
loop, **HttpClient** the exchanges of one `Response`: the request, the head read line by
line into a fixed buffer and parsed again with each line, the length, which may be no
number, and the body, which is read once in a `Response`'s life.

## 3. Runs

| Run | Instance | Shows |
|---|---|---|
| `foundations` | a ring of 3 bytes of 2 values, requests up to 4; integers of 1 to 8 bytes, 3 of them in a stream; bundles of 0 to 5 certificates, 3 calls of `init`; 3 starts of a task, restarted or destroyed as soon as `runTask` is over; 2 waiting threads, seconds of 3 ms, ticks of 2 ms, timeouts of 1 and 4 ms, signals | `RingInv`: indices and count describe the same bytes. `ImplementsFifo`: every call is the queue operation. `IntegersReadBack`: every read gives what was written. `VerdictIsOfTheBundle`: the binary search agrees with the set of entries. `BlocksAreFreedByTheirTasks`: a timer frees its own task's block, after `runTask`; another's only if its task was overtaken. `WaitsKeepTheirWord`: a wait says what it did and a timeout lasts, the exceptions being a signal, a deadline that does not carry, and two ticks of the ESP. `CallsEnd`: searches, buffers and waits come to an end. |
| `audio` | 2 tracks, 2 sample values, chunks of 2 samples in 3 bytes, a ring of 2 chunks, writes up to 2; volumes 0, 50, 100, 3 calls of the client, effects of 2 and 3 samples; 648 combinations of filter parameters, with the tangent of one and slopes that are too steep | `BufferInv`: no torn chunk. `ImplementsChannel`: no sample lost, repeated, reordered or relabelled except by an emptying call. `ChunksAsConfigured`: a chunk meets one pipeline at one volume, whatever changes beside it; effects run their length. `EveryChunkReturns`. `FiltersAsNamed`: the filters let pass and hold back what they are named for, and are stable, but for the combinations that `Impossible` names. |
| `playback` | as the chunks of `audio` with one sample value, writes up to 3, a threshold equal to the ring, 2 emptyings | `KeepsPlaying`. The threshold equal to the capacity is the tightest case. |
| `services` | 6 routes with literals, params and catch-alls, 4 registered, 6 uris; 2 connections with 2 requests each; a web socket with 2 messages; a send buffer of 3 messages, 5 messages in 2 sessions, 1 late answer (`Shorter`: a second session makes one message less, and one with a late answer two less); 3 services; 4 threads on the lock, one of which unlocks | `NewestAnswers`, `ServesEachApart` (handlers one at a time, each with its own params; one answer, or two if the handler throws after its own), `RequestsServed`, `SessionsKeepPackets` (CONNECT first; no message overtakes another but one sent again or one of QoS 2; what was accepted stays queued until sent and answered; the stream is whole but after a late answer or with two messages of QoS 2), `ServerStaysForServices`, `NoFreeUnlock`. |
| `stream` | 4 bytes, refills of 2, streams up to 5 bytes, 2 opens, reads up to 3 | `NoOverrun`, `ReadsTheStream` (in order; 0 at the end only), `CallsReturn`, `Drains`. Streams are longer than the storage, so both pointers wrap at different times; the second open follows an unfinished, a finished or a closed first one. |
| `stream_ready` | `readyThreshold` 3 above the refill level 2, streams up to 9 bytes, client waits on `readySem` | `NoMissedReady`. |
| `stream_missed_ready` | `readyThreshold` 2 at the refill level | **violated:** `NoMissedReady`, section 6. |
| `queue` | 2 callers, 2 threads in `wpop`, 1 that may call `wtpop`, 3 pushes, 1 clear | `TypeOK`, and `ElementsAreTaken`: one `notify_one` for each push is enough, whichever thread it wakes and whatever that thread finds. |
| `queue_empty_front` | 2 callers, 1 thread in `wpop`, 2 pushes, 1 clear | **violated:** `NeverTakesFromEmpty`, section 6. |
| `sinks` | 2 slots of 2 bytes, calls of up to 5 bytes, 11 bytes; 2 driver calls and 1 bus fault; an I2S ring of 4 elements and 2 short writes of any length; S/PDIF blocks of 2 frames, streams of 5 samples, every sample of 16 bits in its word | `NothingLost` and `ImplementsQueue` of the ALSA sink: a call cuts more blocks than fit and waits in its middle. `RegistersHold`: what was set stays set beside other calls, after a fault too. `SamplesOnTheWire`: no sample is lost or overtakes another, and what the driver gets a second time is the beginning of the item it did not take at once; every word is decodable to its sample, with the preambles where they belong. `FedIsPlayed`. |
| `formats` | archives of up to 2 files of up to 3 bytes in blocks of 2, cut at every place but inside a header; 729 container streams with frames of 4 and 2 bytes, junk and cut ends, in containers that were guessed (4 bytes read, 3 kept) and not, a buffer of 12 cells; 130 encoded streams of known and unknown size, a window of 4 | `ArchiveReadBack`, `FramesArePlayed`, `EndsAreReached` (with its exceptions: data cut off an archive, and `resyncADTS`). Files are shorter than, as long as, and longer than a block; frames fit a window, fill it, or never fit. |
| `http` | a put area of 2 bytes, requests up to 4, 7 bytes each way; 5 descriptors; urls of present and absent parts; chunked messages of up to 8 bytes and heads of up to 12 characters in pieces; a head buffer of 21, replies of up to 2 headers, one whose length is no number, 2 requests of one `Response` | `BytesInOrder`, `OnlyFailedOpensLeak`, `UrlsReadBack`, `PiecesMakeNoDifference`, `ReplyReadBack`, `GetReturns`. The longest head is longer than the buffer; connections end anywhere, and the first of two bodies may be left unread. |

*Bounds.* `MaxRequest`, `MaxWrite`, `MaxLen`, `MaxFeed`, `MaxPiece` and `MaxCall` bound
the size of one call; `MaxClears`, `MaxOpens`, `MaxCalls`, `MaxInits`, `MaxStarts`,
`MaxGets`, `MaxRoutes`, `MaxAsked`, `MaxDescriptors` and `MaxSessions` the number of
calls; `StreamEnd`, `MaxBytes`, `MaxSent`, `MaxGiven`, `MaxFiles`, `MaxMessage`, `MaxMessages` and `MaxInput`
what passes through in all; `MaxClock` the time; `MaxFaults` the failures of the bus,
`MaxRetries` the short writes of the I2S driver, `MaxLate` the late answers of the broker.
They stand in the guards, no state constraint is used; two parts of `MCServices` have a
narrower instance by a conjunct of their next-state relation (`Few`, `Shorter`). `SemMax` is where a semaphore
count saturates (2 keeps "none", "one" and "more" apart; no more than the last give
matters to a waiter that loops). Three pushes leave two wake-ups pending and one to come.
Sizes are chosen against each other rather than large: a ring smaller than a stream, a
request larger than a ring, a head longer than its buffer, a frame longer than its
window. A block of 2 frames wraps its ring as the code's 192 do; the preamble of a block's
first frame and that of the others both occur.

*Assumptions.* `readSize <= readThreshold <= bufferSize` (`StreamAssumption`): nothing in
the class checks it, whoever constructs a stream has to keep to it, and without it a
refill would have no room. The runs of
`BufferedStream` use `EarlyClose = FALSE`, a client that has seen its task at work
before it closes or opens again. For the liveness properties `notReadyThreshold <=
readAt + 1` and `readyThreshold <= bufferSize - readSize`, or the two loops can wait for
levels the other never produces. A ring of capacity 0 is excluded. The clients of the
runs keep to an order of calls that the code can serve, each restriction being a
constant or a guard: the tar reader counts files between two of them (`CountWhen`), no
bundle is refused after a good one (`BadAfterGood`), no service leaves while another
registers (`Overlap`), routes are registered before requests come, an instant effect is
asked for while no chunk is processed (`QueryAnytime`), a task's owner waits for the end
of `runTask` before the next start (`RunTaskIsOver`; `BufferedStream` waits for the mutex
it holds). Bundles are sorted and their names no beginnings of others
(`BundleAssumption`). Below is what happens otherwise.

*Fairness.* Threads are scheduled by the operating system, so each thread's steps
are weakly fair: the whole task of `BufferedStream`, the client inside a call, each
loop of `Playback`, of `AlsaSink` (which sleeps 100 microseconds at most) and of the I2S
feed (whose driver makes finitely many short writes), the player's thread and the volume
update of `Dsp`, the timer and the idle task of `BellTask`, the passing of time in
`Semaphores`. Where a thread asks for a mutex others
hold now and then (`Queue`, the HTTP server's workers), that it gets it is a strong
fairness: the mutex is free again and again. `Playback` assumes that there is always
another frame to decode. In `FairSpec` of `BufferedStream` the client keeps reading
(`SF_vars(ReadAny)`): between calls it may also open and close, so that reading is
enabled again and again, not continuously; a client that stops reading is not owed
anything. In `Queue` nobody has to push, clear, or call `wtpop`, and no sleeper wakes by
itself. In `TarArchive` only a running `extract_all_files` has to go on, in
`CertBundle` only a running search, in `HttpClient` only `readHeaders`' loop; readers of
containers and encoded streams keep asking for the next frame. Nothing fair is assumed of
sources, which may deliver one byte at a time, of drivers, or of a controller.

*Deadlock* is checked in `audio`, `playback` and `stream`. Elsewhere the system may
stop: threads wait for a mutex whose holder never stops playing, a client waits on
`readySem` for a stream that ends early (the semaphore is given on readiness only), and
nobody has to push, feed, register, or call again when the bounded calls are made.

### What fails beside the runs

Each line takes a module to a situation outside its run, in which the property named
fails. Where no constants are given, those of the run do.

| Module | Constants | Property | Where |
|---|---|---|---|
| `AccessLock` | | `CanBeFreed` | `CentralAudioBuffer.h:105` |
| `AccessLock` | `Unlocker = {p1, p2}` | `NoFreeUnlock` | `CentralAudioBuffer.h:102` |
| `BufferedStream` | `EarlyClose = TRUE`, `StreamEnd = 6` | `ZeroMeansEnded` | `BufferedStream.cpp:179` |
| `BufferedStream` | `waitForReady = FALSE` | `ReadsTheStream` | `BufferedStream.cpp:107` |
| `BufferedStream` | `stream_ready` with `readThreshold = 3`, `readyThreshold = 2`, `notReadyThreshold = 4` | `NoMissedReady` | `BufferedStream.cpp:72` |
| `Queue` | 2 threads in `wpop`, 1 caller, `MaxPush = 1` | `ExitEndsWaits` | `Queue.h:94` |
| `Queue` | 1 thread in `wpop`, 2 callers, `MaxPush = 1` | `StoppedIsEmpty` | `Queue.h:87` |
| `TarArchive` | `CountWhen` with `"peeked"` | `ReadBack` | `BellTar.cpp:277` |
| `TarArchive` | `CountWhen` with `"ended"` | `CountIsRight` | `BellTar.cpp:268` |
| `TarArchive` | | `ContainsAlways` | `BellTar.cpp:219` |
| `TarArchive` | | `ExtractReturns` | `BellTar.cpp:315` |
| `Containers` | | `AlwaysEnds` | `ADTSContainer.cpp:64` |
| `Containers` | | `NeverStrays` | `ADTSContainer.cpp:47` |
| `Containers` | | `NoFrameLost` | `AudioContainers.cpp:19`, `ADTSContainer.cpp:40`, `MP3Container.cpp:24` |
| `Containers` | | `TailPlayed`, `NeverCrashes`, `UnknownRefused` | `EncodedAudioStream.cpp` |
| `BinaryStreams` | `ShortReads = TRUE`; `Numbers <- NegativeHalf`; `Calls <- AllReads` | `IntegersReadBack` | `BinaryReader.cpp:68`, `BinaryStream.cpp:45` |
| `CertBundle` | `BadAfterGood = TRUE` | `VerdictIsOfTheBundle` | `X509Bundle.cpp:167` |
| `BellTask` | | `BlockOutlivesItsTask` | `BellTask.h:103` |
| `Dsp` | `QueryAnytime = TRUE` | `EffectInUseStays`, `ChunksAsConfigured` | `BellDSP.cpp:90` |
| `Dsp` | a compressor with `threshold` 0 or -10 and `factor` 0 | `ChunksAsConfigured` | `Compressor.h:65` |
| `Dsp` | | `FinishedOnce` | `BellDSP.cpp` |
| `Biquad` | | `NamesChooseTypes`, `FreeAsGiven` | `Biquad.h:46` |
| `Biquad` | | `AlwaysNumbers` | `Biquad.cpp:223`, `:398` |
| `I2sSinks` | | `PlayedOnce` | `BufferedAudioSink.cpp:17` |
| `Codecs` | `Unwatched` without one of its four members | `RegistersHold` | `es8311.c:475`, `:613`, `:686`, `:812` |
| `Codecs` | | `RowsGenerateTheirRates` | the row for 3072000 and 8000 |
| `Mdns` | `Fallback = TRUE` | `ServerStaysForServices` | `linux/MDNSService.cpp:74` |
| `Mdns` | `Overlap = TRUE` | `ServersLive` | `linux/MDNSService.cpp:74` |
| `Mdns` | | `ClientFreedWithTheLast` | `linux/MDNSService.cpp` |
| `Mqtt` | | `AcceptedIsSent` | `BellMQTTClient.cpp` |
| `Mqtt` | | `AlwaysWhole` | `external/mqtt/mqtt.c:525` |
| `HttpServer` | | `ClosedOnce` | `BellHTTPServer.cpp` |
| `HttpServer` | routes `/:x` and `//b`, uri `/c/b` | `NewestAnswers` | `BellHTTPServer.cpp:74` |
| `HttpClient` | | `GetAlwaysReturns` | `HTTPClient.cpp:76` |
| `HttpClient` | | `BodyIsCurrent` | `HTTPClient.cpp:162` |
| `Sockets` | | `NothingLeaks` | `TCPSocket.h:71`, `TLSSocket.cpp:31` |
| `UrlParser` | | `BuildsAgree` | `URLParser.cpp:10` |

## 4. Proofs

`tlapm` proves each of these for every value of the constants that satisfies the
component's `ASSUME` and the hypotheses of the theorem. TLC evaluates every `ASSUME` on
the runs' instances, and checks the property itself there.

| Theorem | Module | Property | For all | Hypotheses |
|---|---|---|---|---|
| `RingInvariant` | `FoundationsProofs` | `RingInv` | capacities, byte sets, request sizes | |
| `RingImplementsFifo` | | `ImplementsFifo` | the same | |
| `SearchIsRight` | | `VerdictIsOfTheBundle` | sets of sorted bundles of any size, certificates | `~BadAfterGood` |
| `TimersFreeTheirTasksBlocks` | | `BlocksAreFreedByTheirTasks` | numbers of starts, restarts and destructions at any time after `runTask` | |
| `WaitsTellTheTruth` | | `WaitsKeepTheirWord` | threads, lengths of tick and second, timeouts, signals | |
| `NumbersReadBack` | | `IntegersReadBack` | sets of numbers, lengths of stream, orders and reads | `~ShortReads`; no `>>` of a `uint16_t` from a big-endian stream; `HalvesAgree` where `readLong` is called |
| `ChunksStayWhole` | `AudioProofs` | `BufferInv` | chunk sizes, capacities, tracks, samples, sizes of write | |
| `BufferImplementsChannel` | | `ImplementsChannel` | the same | |
| `ChunksMeetOneConfiguration` | | `ChunksAsConfigured` | pipelines, transforms, their json, volumes, sizes of chunk, lengths of effect | `AllMeaningful`, `~QueryAnytime` |
| `FiltersDoAsNamed` | | `FiltersAsNamed` | filter types, frequencies, qualities, slopes of any steepness, whole amplitudes | |
| `NeverOverruns` | `BufferedStreamProofs` | `NoOverrun` | sizes and thresholds, early closing included | |
| `ReadsTheSource` | | `ReadsTheStream` | sizes, thresholds, sources | `~EarlyClose`, a client that reads when the buffer is ready |
| `ReadyClientIsWoken` | | `NoMissedReady` | sizes and thresholds | refills begin below `readyThreshold`; `notReadyThreshold <= readyThreshold` |
| `QueueHasOneDecider` | `Queue` | `TypeOK` | sets of threads, numbers of pushes and clears | |
| `SlotsTypeCorrect` | `SinksProofs` | | numbers of slots | |
| `SlotsImplementQueue`, `SinkSeesQueue` | | `ImplementsQueue` | numbers of slots, sets of blocks | |
| `SinkLosesNothing` | | `NothingLost` | the same, sizes of block and call | |
| `SpdifPlaysTheSamples` | | `SamplesOnTheWire` | sizes of block and ring, streams of samples, short writes | each of the 65536 samples encodes to what decodes to it |
| `SettingsStay` | | `RegistersHold` | calls of each driver in any order, failures, rates, integer volumes | the four kinds in `Unwatched` |
| `SocketKeepsOrder` | `StreamProofs` | `BytesInOrder` | buffer lengths, request sizes, failures | |
| `OnlyFailuresLeak` | | `OnlyFailedOpensLeak` | numbers of descriptors and of failures | |
| `ArchiveIsReadBack` | | `ArchiveReadBack` | files, sizes of block and scratch, cuts, calls of the reader in any order | `number_of_files` is asked between two files |
| `FramesPlayedInOrder` | | `FramesArePlayed` | streams, guessed containers and others, sizes of frame and buffer, lengths of read, junk, what lies behind the buffer | |
| `RequestsAreServedApart` | `ServicesProofs` | `ServesEachApart` | connections, routes, requests | |
| `NewestRouteAnswers` | | `NewestAnswers` | routes, their order, uris | literal parts are not empty |
| `PacketsAreKept` | | `SessionsKeepPackets` | sizes of the send buffer, sessions, messages, late answers | |
| `LastServiceStopsServer` | | `ServerStaysForServices` | finite sets of services | `~Overlap`, `~Fallback` |
| `UnlockHeld` | | `NoFreeUnlock` | sets of threads | one unlocker |

The runs satisfy every hypothesis, and TLC finds the property violated without it: by
the last table of section 3, and for the level of the refills by `stream_missed_ready`.

### Arguments

*The ring.* `TypeOK` alone is not inductive: a write may go past the storage
if the indices and the count disagree. `RingInv == TypeOK /\ IndicesAgree` is. The
third case of `IndicesAgree` is what `emptyExcept` makes necessary: an end index
resting at the capacity while a read empties the ring and wraps `begIndex` to 0.
For the refinement, `WriteContents`, `ReadContents` and `EmptyExceptContents`
compare `Contents` before and after with the queue's operators byte by byte, one
case for a copy in one step and one for two; `StepRefines` assembles them.

*The chunk buffer.* `BufferInv` says that the ring holds whole chunks, which a write must
not tear. `AudioInv` adds that the ring holds no more than its capacity: then a ring of a
whole number of chunks that is not full has room for one more (`RoomCheck`, where the
code's subtraction is unsigned), which is why the code may test for a full ring only.
Bytes of whole chunks stay so when a chunk is appended or taken off the front
(`WholeAfterFlush`, `WholeAfterTake`). For `PcmChannel` the ring is then read as a
sequence of chunks (`ChunksIn`) and those as labelled samples; what `FlattenSeq` makes of
a longer sequence is an induction over the length (`SequenceFacts`).

*The transforms.* `Tuning` is the invariant. `Tuned` says that every transform is what a
new one would be at the volume it has (`MadeAt`), so that nothing of the volumes it was
told before is left in its settings or its cache; `Uniform` that the transforms of a
pipeline have one volume, but for those before `client.at`, whom the update in progress
has told another; `Passed` that the chunk's way so far is what the transforms use now,
which holds because `Locked` keeps the update out of a pipeline a chunk is in. That
`reconfigure` leaves what a new transform would be (`FirstConfigured`, `ConfiguredAgain`)
is shown for each kind, since each compares something else with what it keeps. It is
where the proof needs `AllMeaningful`: a new compressor or
crossover whose settings are all those of the constructor, zero, compares, finds nothing
new and has no channels, while one that had other settings before the volume led to these
is configured for its channels; and a filter whose frequency is zero may keep the one it
has. `SomeAreMeaningful` in `MCAudio` has TLC
evaluate the condition on the run's pipelines. `ComboHasItsOrder` rests on
`LinkwitzRileyOrder`, `VolumeChoosesValue` on `IndexGrows`.

*The effect.* `Effect` says that the count is where the last chunk of the effect ended,
but between its application and `CountEffect`, and that it is below the effect's length as
long as the effect is there. Between `queryInstantEffect`'s two assignments no chunk is
processed (`~QueryAnytime`).

*The filters.* At zero frequency a filter's gain is a quotient of sums of its coefficients,
at the highest one of sums with alternating signs; at its own, the cosine cancels. In each
formula the products with the sine and the cosine are then left standing or cancel as a
whole, so that with a name for each product what remains is linear. Stability is that the
poles' product is less than one and their sum less than one more than it (`Decays`). It is
here that `Impossible` is needed: a shelf with a root of zero keeps its poles on the
circle, and one with none has no coefficients. That these are all the exceptions is part
of the theorem.

*The lock.* `NoFreeUnlock` needs to know what the flag says about the mutex.
`LockInv` says that they agree except between the two steps of `unlockAccess`,
and that a `lockAccess` half done holds the mutex. It needs one unlocker: two
that both find the flag set both unlock.

*The stream.* `NoOverrun` speaks of one step of the task; `StreamInv` carries the
room found at `TaskCheck` to the fetch (`TaskInv`: only the task raises the count)
and the bytes found at `Take` to the last `Consume` (`ClientInv`: only the client
lowers it, so it never goes below zero). That the argument does not mention the
order of the pointer updates is the point: the count alone protects the bytes.

`ReadsTheSource` does mention it. `ReaderInv` says where the bytes lie that were counted
and not yet read. They cannot be found from the write pointer: the task counts bytes
before it moves `bufWritePtr`, and the client may read them in between and be ahead of
that pointer. So the invariant goes back from `Around(bufWritePtr + Unmoved)`, and from
`Around(bufReadPtr + Uncounted)` on the client's side, which moves its pointer after the
count likewise. `OneTask` says who runs while a stream is opened, `Attached` which source
the task has, `EndIsSeen` when a read may return 0, and `LooksWhenReady` that a client
between two calls waits for a buffer that is ready, or that ends. The last is the
hypothesis `waitForReady \/ SemaphoreClient`; without it `read` may find an empty buffer
that has not ended, and the code says so by returning 0.

`WokenWhenReady` is what `ReadyClientIsWoken` needs: a refill that begins below
`readyThreshold` begins with the buffer not ready, so that it gives the semaphore when it
ends with a ready one.

*The queue.* `TypeOK` is inductive but for its last conjunct, which counts: a push that
has lowered the flag and not yet appended is one of `Appending`, and `QueueInv` bounds
what is in the queue and what these will add by the pushes.

*The slot ring.* `TypeOK` is inductive: its last conjunct, that the flag is up only where
the indices meet, is all the calls rely on. The work is in `ContentsType`, which finds
the i-th block at `At(tail_, i)` and the head at the place behind the last, so that
neither the slot a push fills nor the one a pop swaps holds another block of the
contents (`PushContents`, `PopContents`). `reset`, which forgets the blocks but leaves
their slots as they are, is a step of the queue too.

*The ALSA sink.* `NothingLost` puts the stream together from six places: what the device
has, what the task is about to write, the blocks of the ring, the one being pushed, and
the bytes not yet cut. `SinkInv` adds their types, so that each action is a move of the
border between two neighbours, and `SinkSeesQueue` shows that the threads use the ring
within the calls `SlotsImplementQueue` is about.

*The S/PDIF sink.* `SpdifInv` counts: the samples that were given are those of the frames
sent, of the block being filled and of the call (`InTurn`), and the frames sent are whole
blocks, so that a frame's place in the stream tells its place in its block (`Marked`).
`PlayedInOrder` is the ring and the task below, for elements of any kind: what was played,
the item and the ring are together what was sent, so that what a short write has taken of
the item is the beginning of what comes next in the stream. What the encoding of
one sample is, a table of 256 words and a carry, is a hypothesis, because the prover does
not compute with it; there are 65536 samples, and TLC looks at each of them in the run
`sinks` (`word`).

*The codecs.* `BusInv` is about the accesses that are left of a call. Of a field that
the call is to set, it says that it has its value already or that an access to come makes
it so (`Settles`), unless one has failed; of a field set before, that it has its value and
every access to come leaves it alone or writes the same (`Held`). What then remains is to
show of each call that its accesses do this (`GoodCall`), from the bits of their masks.
For the AC101 the fields of a register lie apart (`Apart`). The ES8311 sets its clock anew
on every `es8311_init`, and nothing is lost by it: the master clock is always 256 times
the rate, and all rows of that kind have the same dividers (`PlainClock`). `DacInv` adds
that the ES8388's DAC is muted as long as an access to come concerns it, for a set-up that
has begun and not failed.

*The socket.* A byte is its number, so every history and every buffer is a range of
numbers (`IsRange`), and the invariant is one border for each direction: `sent` goes up
to it and `putArea` on from there, `taken` and `getArea` likewise. Each call is then a
move of borders, of ranges joined and split (`RangeJoin`, `RangeSplit`), whatever part
of it the socket lets through; a failing `sync` moves its border and keeps the rest. The
bound on `putArea` and `room` is what keeps `overflow` inside its buffer. For the
descriptors `SocketInv` counts: the one in use taken away, what is left are the refused
ones, as many as `refused` says; and the TLS contexts are those of the socket in use and
of the constructors that threw, as many as `unseeded` says.

*The archive.* `Laid` says where each file's header, bytes and padding lie, from the
places at which the headers begin. `InStep` has the reader at one of three points: between
two entries, behind a header, or within a file's bytes, with what is left of them. That a
truncated archive is no different up to where it is cut is `CutIsLaid`; `HeadersAligned`
finds the only places at which a byte is a header's first. A block of zeros, or the
archive's end, is met only when all files were read. `number_of_files` counts from the
present header, so that asked between two entries it adds those read before to those it
finds.

*The frames.* For the encoded stream `EncodedInv` has the window as a range of positions
that ends at the source's, beginning with a frame, and every frame before it played. For
the containers `ContainerInv` says that the buffer is the stream behind the bytes that
left it and without those guessing lost (`Lies`, `Accounts`), whatever junk is in it and
wherever a resynchronisation stops; and that the frames decoded ascend and lie below the
place the offset has in the stream (`Ascends`), as long as the offset has not been beyond
the buffer's bytes, where old bytes are searched. For a stream of whole frames it says
that the offset is at the beginning of a frame and all frames before it are decoded
(`OnFrames`), so that a header is found where the last frame ended and no resynchronisation
begins. A guessed MP3 stream comes to this too: the first frame was torn (`InTorn`), the
decoder gives up the bytes kept of it, and the next search finds the second
(`BehindTorn`). An AAC stream does not, since the length of its first frame is read where
the frame is no longer whole.

*The bundle.* `SearchInv` is the loop invariant of the binary search: an entry of the
issuer's name, if there is one, lies between the bounds. It rests on the order being
strict (`LessIsStrict`) and on names that are not the beginnings of other issuers
(`BundleAssumption`), since the code compares only as many bytes as the entry's name
has. The returns before the search need no invariant: a certificate with another fault
keeps its flags, and one that comes when there is no bundle is refused. The theorem assumes `~BadAfterGood`: a refused bundle overwrites the bytes.

*The task.* `OwnBlock` says what the object has between the end of `runTask` and the timer:
the task's own block, unless the task is among the overtaken. Each start, each start that
fails and the destruction put every task at that point there, which is why the proof needs
no condition on the owner, and a timer then holds its own task's block or belongs to one of
them.

*The semaphores.* `SemInv` carries `LateEnough` from the call of `twait` to its end: every
platform computes a deadline no earlier than was asked for, the ESP but for two ticks,
which `UntilIsLateEnough` shows from the rests of two divisions. On Linux that is so
unless the rests together reach a second, which is when the deadline is refused
(`NoCarry`).

*The integers.* `BinaryInv` says where each number lies in the stream: its bytes, in the
order of its writer, at the position at which it was written, and no two begin at one
position (`NumbersPlaced`). A read of the width that is due then takes exactly these
bytes, so what is left is that the call's swaps and the stream's cancel each other,
whatever the number: `ReverseParts` byte by byte, and for `readLong` that the two halves
are put together as they were (`HalvesAgree`).

*The HTTP server.* `ServerInv` ties the mutex to the connection that is being served
(`ServedHolds`), the answers given so far to what the worker is doing and to whether its
handler has answered or thrown (`AnswersSoFar`), and READY to what was told of it
(`ReadyWasTold`). The params are the request's own because one
handler runs at a time.

*The routers.* `RoutersInv` describes each tree by the registrations alone (`TreeIs`): its
nodes are those some registration leads through (`Passing`), the handler of a node is the
newest registration that ends there (`Newest`, of `Ending`), and a node is marked for a
parameter or a catch-all if one of these has it there. `InsertKeeps` shows that `insert`
adds one registration to this description, whatever the tree; `OtherTreeKeeps`, that the
router of the other verb stays. `WalkFollows` then goes along a uri, by induction over
its parts: as long as `find` goes on, the registrations that `Narrowed` has left are
those that pass the node it has reached (`StandsAt`), and once it has met a node that
leads no further nothing is left (`Stopped`). This is why `find` needs no way back. It
needs literals that are not empty, because a node keeps its parameter under the key "".

*MQTT.* `MqttInv` is about the present session. A message of the queue that waits for its
answer was sent (`SentIsThere`), and so was what is answered (`AnswersToSent`); what is
unsent came later than all that was sent, but for the messages of QoS 2 that wait
(`UnsentIsLater`); CONNECT is before them all (`ConnectWaits`). What was promised is in
the queue under its id (`PromisesQueued`) until it is complete, since cleaning the queue
takes complete messages only, from its head; ids and packet ids tell messages apart
(`Singles`), and without late answers each is sent once (`OnTime`). As long as no answer was late and
there are no two of QoS 2, the message half sent is the first to send, and `send_offset` is
its own (`HalfIsFirst`, `Whole`). What each call does to the queue is one of a few steps
(`QueueStep`): messages marked complete at most, one added at most.

*mDNS.* With the built-in server the count is the number of services that were counted in
and not yet out (`BuiltInInv`), so it is 0 for the last one only. Avahi's services are
never counted in: the count of the first to leave wraps, and comes down to 0 only after
`Wrap` of them (`AvahiInv`; `Wrap > 2 * Cardinality(Service)` stands for 2^32). Without
`~Fallback` a service of the built-in server beside Avahi's would meet the wrapped count.

### What is only model-checked

* *Every liveness property*: fairness and ENABLED are outside what the prover is used for.
* *What recursive operators compute*: the parser of heads, chunked messages and urls
  (`ReplyReadBack`, `PiecesMakeNoDifference`, `UrlsReadBack`): a module that declares one
  has no arithmetic in this prover. Recursive functions and folds over sequences are
  within reach: `NatSetInduction` is induction over the natural numbers for a set instead
  of a formula, from the least element of its complement.
* *The encoding of one S/PDIF sample*: a table of 256 words. TLC evaluates it for all
  samples.

## 5. Plan

Written and checked are all modules of section 2. To come, in this order:

1. The parsers as recursive functions instead of RECURSIVE operators, so that
   `ReplyReadBack` and `PiecesMakeNoDifference` can be proved by induction over the bytes.
2. Larger runs of `Queue` (two clears) and of `BufferedStream` (three opens).

## 6. What the code does otherwise than it says

Paths are those of section 3's last table, which names the property that fails.

Two runs end in a violation:

* `runTask` gives `readySem` only if the buffer was not ready when the refill began
  (`BufferedStream.cpp:175`). A client that drains the buffer in the middle of a
  refill and waits is not signalled when the refill makes it ready again, and the
  task waits for the client (`stream_missed_ready`).
* `wpop` takes the front of an empty queue if a `push` lowers the flag after the wait's
  predicate saw it up (`Queue.h:59`; `queue_empty_front`).

Beside the runs:

* `unlockAccess` clears the flag after it has released the mutex. A `lockAccess` that
  waited sets it in between, it is cleared with the mutex held, and no later
  `unlockAccess` frees the buffer (`CanBeFreed`).
* A task that winds down drops the source of an `open` that came meanwhile, and `read`
  returns 0 for a stream nobody closed (`ZeroMeansEnded`).
* `clear` wakes one of several waiting threads (`ExitEndsWaits`); a `push` that overlaps
  a `clear` leaves an element in a queue in forced exit (`StoppedIsEmpty`).
* The tar reader's calls that look at the next file consume its header.
  `number_of_files` then forgets it, and `contains_another_file` looks behind it. After
  the last file `number_of_files` answers 0, since `tellg` fails at the end of the
  stream. `extract_all_files` reads on for ever where the data of a file was cut off
  (`ExtractReturns`).
* `guessAudioContainer` reads 14 bytes and hands on 7, so that every container it makes has
  lost 7 bytes of its stream, a frame of an MP3 stream with them. A container reads no
  frame that has fewer bytes behind its beginning than one frame (ADTS) or two (MP3) can
  have, so that the last ones of a stream are not decoded (`NoFrameLost`). After a junk
  length the offset lies behind the buffered bytes, `resyncADTS` takes a negative
  difference for a large size, and searches old bytes and what lies behind the buffer
  (`NeverStrays`).
* `resyncADTS` goes round its loop without moving when the first header fits and the
  second does not (`AlwaysEnds`).
* `decodeFrameMp3` decodes nothing more once the source is at its end, so frames in the
  window stay there (`TailPlayed`); it skips 3800 bytes of a window that has fewer
  (`NeverCrashes`); an unknown format keeps the decoder of the stream before
  (`UnknownRefused`).
* `readLong` spoils the upper half when the lower one is negative, `>>` of a `uint16_t`
  drops the bytes it swapped, and no read notices that the stream ended
  (`IntegersReadBack`).
* `init` of the bundle has replaced the bytes when it refuses a bundle, and the entries
  of the previous one point to them; the comment at `X509Bundle.cpp:191` says that it
  is only updated when initialisation succeeds.
* A task that is started again, or destroyed, after its `runTask` is over and before it has
  made its timer is overtaken: its timer frees the new task's block, or what is left of the
  object, and its own is not freed; the new task is on its stack
  (`BlocksAreFreedByTheirTasks` names them). Five seconds are meant to be enough for the
  idle task to put a task away; nothing makes sure of it (`BlockOutlivesItsTask`).
* `twait` on Linux adds nanoseconds without a carry, and such a deadline is refused at
  once; a signal ends it early; `wait` takes an interruption by a signal for a give
  (`WaitsKeepTheirWord` names the three).
* A short write of the I2S driver makes the task write the whole item again, so that the
  driver gets its beginning twice (`PlayedOnce`).
* `queryInstantEffect` takes no lock and may replace the effect in use. `onFinish` is
  called for each channel, and not at all if the effect ends with a chunk. `apply` goes
  one sample beyond its chunk (`BellDSP.cpp:26`; not in the model, which counts samples).
* The all-pass of first order divides by zero at a quarter of the sample rate, and a shelf
  whose slope is too steep for its gain takes the root of a negative number; every sample
  after is not a number, and nothing checks it (`AlwaysNumbers`). A filter whose `q` is
  missing from its configuration gets 0 and divides by it (`Parameters` are those of a
  positive one).
* The names `highshelf_fo` and `lowshelf_fo` choose passes (`NamesChooseTypes`); the free
  filter stores its coefficients in another order than `process` reads them
  (`FreeAsGiven`); `bw_lowpass` makes a highpass (`BiquadCombo.h:65`).
* The ES8311's row for 3072000 and 8000 divides down to 12000. `es8311_mute` and
  `Es8311ConfigFmt` power its DAC up or down whatever `Start` and `Stop` said;
  `es8311_init` and `es8311_mute(true)` overwrite the volume; `Start`, `Stop` and
  `Es8311ConfigFmt` the volume of the ADC; `Es8311SetMicGain` or-s a gain to the one
  before (`Unwatched`).
* A service may leave while another registers and stop the server that one is about to
  use (`Overlap`); Avahi's services are counted out and never in, so that its client
  stays for good.
* A send buffer that was full once is an error of MQTT-C that only `connect` clears:
  `publish` throws from then on, while `mqtt_sync` goes on sending what is queued. One
  `send_offset` serves the message that is sent next, whichever it is: a late answer sets
  it back, and a message of QoS 2 that no longer waits comes before the one that is half
  sent, so that the broker gets parts of two (`AlwaysWhole`). A second answer to a message
  that was dropped is an error. `disconnect` drops what `publish` accepted
  (`AcceptedIsSent`). The client passes the QoS of `subscribe` shifted as if it were a
  flag of `publish`, and `mqtt_unsubscribe` takes its packet id outside the mutex; neither
  is in the model, whose calls are one at a time.
* A handler of the HTTP server that throws after it has answered is answered twice, the
  second time by civetweb; an exception of `notFoundHandler` is not caught and ends the
  process (`ServesEachApart` and `RequestsServed` name the two).
* A `Response` used for a second request returns the first one's body, and its size where
  the second reply names none (`BodyIsCurrent`); a body that was not read is taken for the
  next head; `get` throws what `std::stoi` throws when the length is no number, with the
  new headers in place. The client reads for ever when a connection ends inside the head
  or a line is longer than the buffer's rest (`GetAlwaysReturns`).
* A TCP connect that is refused leaks its descriptor, and a constructor of `TLSSocket` that
  cannot seed its generator throws and leaks the contexts it has initialised
  (`NothingLeaks`).
* A web socket's close is told twice (`ClosedOnce`); a route with an empty literal part
  answers for any value of a parameter at that place, since both have the key "" in the
  tree (`BellHTTPServer.cpp:74`); the `sscanf` build of `URLParser::parse` reads urls
  without a path, with a fragment but no query, or with the schema's word in the host
  otherwise than the regular expression.

## 7. Not modelled

* *Logging, random identifiers, the MAC address, `bell::tv`* (`BellLogger`, `BellUtils`):
  output and arithmetic on two fields; no state whose order could be wrong.
* *Crypto and NanoPB*: each call hands its arguments to mbedtls or nanopb or is a pure
  function of them (base64, the small AES). What can be wrong there is arithmetic, which
  test vectors reach.
* *The stream adapters over civetweb, `FileStream`*: one library call for each of theirs.
* *The registry of codecs*: it makes each decoder once and keeps it.
* *Sample arithmetic*: what mixer and compressor make of samples, sines, powers and
  logarithms. The filters' formulas are checked over exact parameters instead.
* *PortAudio and named-pipe sinks, mDNS on ESP and Apple*: one library call each.
* *Set-up of devices*: ALSA parameters, I2S pins and clocks, start-up of the player and
  its HTTP source.
* *Vendored libraries* under `src/external`, but for MQTT-C's queue: each module says what
  it takes them to do.
