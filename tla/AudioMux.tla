------------------------------- MODULE AudioMux -------------------------------
(***************************************************************************)
(* The way of the sound: VideoLayer::feed writes the decoded movie into    *)
(* the ring of its screen, JackClient::Process takes one period of it for  *)
(* the outputs of Jack and, while a stream is encoded, copies that and its *)
(* input into two rings, OggTheoraEncoder::encode_frame mixes those into a *)
(* third and takes from it what it gives to Vorbis.  Four threads: the     *)
(* layer's, Jack's, the encoder's, and the script or window that wires     *)
(* them up.  There is no lock.                                             *)
(*                                                                         *)
(* A call on a ring is one step here (two threads inside one ring are the  *)
(* subject of RingBufferSPSC).  A byte carries the numbers of the movie's  *)
(* sample and of the input's sample it comes from, 0 for none.             *)
(***************************************************************************)
EXTENDS Integers, Sequences, SequencesExt

CONSTANTS
  Channels,       \* of the movie
  SampleBytes,    \* sizeof(float)
  ScreenBytes, FirstBytes, MixBytes, MixedBytes,  \* the sizes of the four rings
  Period,         \* nframes of Process
  EncodeFrames,   \* encode_frame waits for this many (1024)
  Garbage,        \* what m_ringbufferchannels may be before anything sets it
  Packets,        \* bound: the frames one packet of sound decodes to
  MaxDecoded,     \* bound: samples of the movie
  MaxHeard,       \* bound: periods that find an input connected
  MaxWirings,     \* bound: calls of SetRingbufferPtr
  MaxStreams      \* bound: encoders that are added

ASSUME AudioAssumption ==
  /\ {Channels, SampleBytes, Period, EncodeFrames} \subseteq Nat \ {0}
  /\ {ScreenBytes, FirstBytes, MixBytes, MixedBytes} \subseteq Nat \ {0}
  /\ Packets \subseteq Nat \ {0} /\ Garbage \subseteq Nat
  /\ {MaxDecoded, MaxHeard, MaxWirings, MaxStreams} \subseteq Nat

VARIABLES
  screenRing, first, audio_mix_ring, m_MixedRing,  \* what each ring holds
  m_ringbuffer,          \* whether Jack has been given the screen's ring
  m_ringbufferchannels,
  m_inbuf,               \* "none", "freed", "new" or "filled"
  m_Encoded,
  wiring,                \* where SetRingbufferPtr is
  process,               \* [at, enc, channels, data] of Jack's thread; at is "broken"
                         \* once it has used what is not there
  encoder,               \* [at, channels, input] of the encoder's thread
  decoded, heard, wirings, streams,  \* counters of the bounds
  encoded,               \* history: what Vorbis was given
  played,                \* history: [data, channels] of the last period
  lost,                  \* history: bytes of the movie that were given up
  cut,                   \* history: a ring took a part of a frame
  stale,                 \* history: Process used channels that had changed
  rewired                \* history: see ForgetRing

rings    == <<screenRing, first, audio_mix_ring, m_MixedRing>>
jack     == <<m_ringbuffer, m_ringbufferchannels, m_inbuf, wiring>>
counters == <<decoded, heard, wirings, streams>>
history  == <<encoded, played, lost, cut, stale, rewired>>
audioVars == <<rings, jack, m_Encoded, process, encoder, counters, history>>

\* ringbuffer_write_space of a ring of the given size, and what ringbuffer_write
\* copies of n bytes.
Space(size, ring) == size - 1 - Len(ring)

Copied(n, size, ring) == IF n > Space(size, ring) THEN Space(size, ring) ELSE n

Frame == SampleBytes * Channels

\* The bytes of the samples from..to of the movie, and of the n-th input period.
Movie(from, to) ==
  [k \in 1..SampleBytes * (to - from + 1) |->
     [m |-> from + (k - 1) \div SampleBytes, f |-> 0, b |-> (k - 1) % SampleBytes]]

Input(n) ==
  [k \in 1..SampleBytes * Period |->
     [m |-> 0, f |-> (n - 1) * Period + 1 + (k - 1) \div SampleBytes,
      b |-> (k - 1) % SampleBytes]]

Of(bytes) == {<<byte.m, byte.b>> : byte \in {x \in ToSet(bytes) : x.m > 0}}

Tail_(s, n) == SubSeq(s, n + 1, Len(s))

Resting == [at |-> "idle", enc |-> FALSE, channels |-> 0, data |-> <<>>]
Off     == [at |-> "off", channels |-> 1, input |-> <<>>]

\* Nothing initializes m_ringbufferchannels.  (A negative number is like a large one:
\* as an unsigned number of bytes it is more than a ring holds.)
AudioInit == /\ screenRing = <<>> /\ first = <<>> /\ audio_mix_ring = <<>>
             /\ m_MixedRing = <<>>
             /\ m_ringbuffer = FALSE /\ m_inbuf = "none" /\ m_Encoded = FALSE
             /\ m_ringbufferchannels \in Garbage
             /\ wiring = "idle" /\ process = Resting /\ encoder = Off
             /\ decoded = 0 /\ heard = 0 /\ wirings = 0 /\ streams = 0
             /\ encoded = <<>> /\ played = [data |-> <<>>, channels |-> 0] /\ lost = {}
             /\ cut = FALSE /\ stale = FALSE /\ rewired = FALSE

-----------------------------------------------------------------------------
(* VideoLayer::feed *)

\* Mutant: the part that does not fit is written over what is there.
FeedOver(frames) ==
  LET data == Movie(decoded + 1, decoded + frames * Channels) IN
  /\ decoded + frames * Channels <= MaxDecoded
  /\ screenRing' = IF Len(data) <= Space(ScreenBytes, screenRing)
                   THEN screenRing \o data ELSE data
  /\ decoded' = decoded + frames * Channels
  /\ UNCHANGED <<first, audio_mix_ring, m_MixedRing, jack, m_Encoded, process,
                 encoder, heard, wirings, streams, history>>

\* A packet of sound: what ringbuffer_write returns is not looked at.
Feed(frames) ==
  LET data == Movie(decoded + 1, decoded + frames * Channels)
      n    == Copied(Len(data), ScreenBytes, screenRing)
  IN /\ decoded + frames * Channels <= MaxDecoded
     /\ screenRing' = screenRing \o SubSeq(data, 1, n)
     /\ decoded' = decoded + frames * Channels
     /\ lost' = lost \cup Of(Tail_(data, n))
     /\ cut' = (cut \/ n % Frame # 0)
     /\ UNCHANGED <<first, audio_mix_ring, m_MixedRing, jack, m_Encoded, process,
                    encoder, heard, wirings, streams,
                    encoded, played, stale, rewired>>

-----------------------------------------------------------------------------
(* JackClient::SetRingbufferPtr, by the script's or the window's thread *)

\* A second call, while Process is between its test of the ring and its end,
\* takes away what Process uses.
ForgetRing ==
  /\ wiring = "idle" /\ wirings < MaxWirings
  /\ wiring' = "free"
  /\ wirings' = wirings + 1
  /\ m_ringbuffer' = FALSE
  /\ rewired' = (rewired \/ (m_ringbuffer /\ process.at # "idle"))
  /\ UNCHANGED <<rings, m_ringbufferchannels, m_inbuf, m_Encoded, process, encoder,
                 decoded, heard, streams, encoded, played, lost, cut, stale>>

FreeInbuf ==
  /\ wiring = "free"
  /\ wiring' = "malloc"
  /\ m_inbuf' = IF m_inbuf = "none" THEN "none" ELSE "freed"
  /\ UNCHANGED <<rings, m_ringbuffer, m_ringbufferchannels, m_Encoded, process,
                 encoder, counters, history>>

\* Mutant: the ring is published before there is a buffer for it.
NewInbufLate ==
  /\ wiring = "malloc"
  /\ wiring' = "publish"
  /\ m_ringbuffer' = TRUE
  /\ UNCHANGED <<rings, m_ringbufferchannels, m_inbuf, m_Encoded, process,
                 encoder, counters, history>>

NewInbuf ==
  /\ wiring = "malloc"
  /\ wiring' = "publish"
  /\ m_inbuf' = "new"
  /\ m_ringbufferchannels' = Channels
  /\ UNCHANGED <<rings, m_ringbuffer, m_Encoded, process, encoder, counters, history>>

PublishRing ==
  /\ wiring = "publish"
  /\ wiring' = "idle"
  /\ m_ringbuffer' = TRUE
  /\ UNCHANGED <<rings, m_ringbufferchannels, m_inbuf, m_Encoded, process, encoder,
                 counters, history>>

-----------------------------------------------------------------------------
(* JackClient::Process, on Jack's thread *)

\* The first connected input, whole or not at all; then the number of channels.
ProcessInputs(connected) ==
  /\ process.at = "idle"
  /\ connected => heard < MaxHeard
  /\ heard' = IF connected THEN heard + 1 ELSE heard
  /\ first' = IF /\ connected /\ m_Encoded
                 /\ Space(FirstBytes, first) >= SampleBytes * Period
              THEN first \o Input(heard + 1) ELSE first
  /\ process' = [at |-> "test", enc |-> m_Encoded,
                 channels |-> m_ringbufferchannels, data |-> <<>>]
  /\ UNCHANGED <<screenRing, audio_mix_ring, m_MixedRing, jack, m_Encoded, encoder,
                 decoded, wirings, streams, history>>

\* Nothing to play when there is no ring.
ProcessTestRing ==
  /\ process.at = "test"
  /\ process' = IF m_ringbuffer THEN [process EXCEPT !.at = "read"] ELSE Resting
  /\ played' = IF m_ringbuffer THEN played ELSE [data |-> <<>>, channels |-> 0]
  /\ UNCHANGED <<rings, jack, m_Encoded, encoder, counters,
                 encoded, lost, cut, stale, rewired>>

\* Mutant: a period is as long whatever the number of channels.
PeriodBytesOfOne == Period * SampleBytes

PeriodBytes == process.channels * Period * SampleBytes

\* The ring and the buffer are looked up again: by now there may be none.
ProcessRead ==
  /\ process.at = "read"
  /\ IF ~m_ringbuffer \/ m_inbuf \notin {"new", "filled"}
     THEN /\ process' = [process EXCEPT !.at = "broken"]
          /\ UNCHANGED <<screenRing, m_inbuf, stale, played>>
     ELSE IF Len(screenRing) < PeriodBytes
     THEN /\ process' = Resting
          /\ played' = [data |-> <<>>, channels |-> 0]
          /\ UNCHANGED <<screenRing, m_inbuf, stale>>
     ELSE /\ process' = [process EXCEPT !.at = "output",
                                        !.data = SubSeq(screenRing, 1, PeriodBytes)]
          /\ screenRing' = Tail_(screenRing, PeriodBytes)
          /\ m_inbuf' = "filled"
          /\ stale' = (stale \/ process.channels # m_ringbufferchannels)
          /\ UNCHANGED played
  /\ UNCHANGED <<first, audio_mix_ring, m_MixedRing, m_ringbuffer, wiring,
                 m_ringbufferchannels, m_Encoded, encoder, counters,
                 encoded, lost, cut, rewired>>

\* To the encoder, whole or not at all, and to the outputs.
ProcessOutput ==
  LET fits == Space(MixBytes, audio_mix_ring) >= Len(process.data) IN
  /\ process.at = "output"
  /\ IF m_inbuf # "filled"
     THEN /\ process' = [process EXCEPT !.at = "broken"]
          /\ UNCHANGED <<audio_mix_ring, played, lost>>
     ELSE /\ audio_mix_ring' = IF process.enc /\ fits
                               THEN audio_mix_ring \o process.data
                               ELSE audio_mix_ring
          /\ lost' = IF process.enc /\ fits THEN lost ELSE lost \cup Of(process.data)
          /\ played' = [data |-> process.data, channels |-> process.channels]
          /\ process' = Resting
  /\ UNCHANGED <<screenRing, first, m_MixedRing, jack, m_Encoded, encoder, counters,
                 encoded, cut, stale, rewired>>

-----------------------------------------------------------------------------
(* The stream: started and stopped by the window, encoded by its own thread *)

\* OggTheoraEncoder::init takes over the number of channels there is then.
AddEncoder ==
  /\ encoder.at = "off" /\ streams < MaxStreams
  /\ streams' = streams + 1
  /\ encoder' = [at |-> "idle", input |-> <<>>,
                 channels |-> IF m_ringbufferchannels # 0 THEN m_ringbufferchannels ELSE 1]
  /\ m_MixedRing' = <<>>
  /\ m_Encoded' = FALSE
  /\ UNCHANGED <<screenRing, first, audio_mix_ring, jack, process,
                 decoded, heard, wirings, history>>

\* After add_encoder: TRUE; after the encoder's deletion: FALSE.
IsEncoded(enc) ==
  /\ enc = (encoder.at # "off") /\ m_Encoded # enc
  /\ m_Encoded' = enc
  /\ UNCHANGED <<rings, jack, process, encoder, counters, history>>

\* stop() joins the thread between two frames; the two rings that Process fills
\* stay as they are, for the next stream.
StopEncoder ==
  /\ encoder.at = "idle"
  /\ encoder' = Off
  /\ lost' = lost \cup Of(m_MixedRing)
  /\ m_MixedRing' = <<>>
  /\ UNCHANGED <<screenRing, first, audio_mix_ring, jack, m_Encoded, process, counters,
                 encoded, played, cut, stale, rewired>>

\* Mux: the input, all there is.
MuxFirst ==
  /\ encoder.at = "idle"
  /\ encoder' = [encoder EXCEPT !.at = "mux", !.input = first]
  /\ first' = <<>>
  /\ UNCHANGED <<screenRing, audio_mix_ring, m_MixedRing, jack, m_Encoded, process,
                 counters, history>>

\* Sample i of the movie (from 0) with the input of its frame: Mux knows one
\* channel and two.
InputAt(i) ==
  LET k == IF encoder.channels > 1 THEN i \div 2 ELSE i
  IN IF k * SampleBytes < Len(encoder.input)
     THEN encoder.input[k * SampleBytes + 1].f ELSE 0

Blend(data) ==
  [k \in 1..Len(data) |-> [data[k] EXCEPT !.f = InputAt((k - 1) \div SampleBytes)]]

\* Zeros: what the input is mixed into when the movie is silent.
Silence(n) == [k \in 1..n |-> [m |-> 0, f |-> 0, b |-> (k - 1) % SampleBytes]]

\* What Mux offers to m_MixedRing and the room it asks for: without the movie it
\* asks for what it read, not for what it will write.
Mixture == IF audio_mix_ring = <<>>
           THEN Blend(Silence(Len(encoder.input) * encoder.channels))
           ELSE Blend(audio_mix_ring)

Asked == IF audio_mix_ring = <<>> THEN Len(encoder.input) ELSE Len(audio_mix_ring)

\* encode_frame: all whole samples but one.
Taken(ring) ==
  LET rff == (Len(ring) \div SampleBytes) * SampleBytes - SampleBytes
  IN IF ring # <<>> /\ rff >= EncodeFrames * SampleBytes * encoder.channels - 1
     THEN rff ELSE 0

\* encode_audio: the frames that the bytes are enough for.
WholeFrames(n) == (n \div (SampleBytes * encoder.channels)) * SampleBytes * encoder.channels

\* Mutant: the movie's part is looked at and stays in its ring.
EncodeFramePeek ==
  LET n    == IF Space(MixedBytes, m_MixedRing) >= Asked
              THEN Copied(Len(Mixture), MixedBytes, m_MixedRing) ELSE 0
      ring == m_MixedRing \o SubSeq(Mixture, 1, n)
      rv   == Taken(ring)
  IN /\ encoder.at = "mux"
     /\ m_MixedRing' = Tail_(ring, rv)
     /\ encoded' = encoded \o SubSeq(ring, 1, WholeFrames(rv))
     /\ encoder' = [encoder EXCEPT !.at = "idle", !.input = <<>>]
     /\ UNCHANGED <<screenRing, audio_mix_ring, first, jack, m_Encoded, process,
                    counters, lost, cut, played, stale, rewired>>

EncodeFrame ==
  LET n    == IF Space(MixedBytes, m_MixedRing) >= Asked
              THEN Copied(Len(Mixture), MixedBytes, m_MixedRing) ELSE 0
      ring == m_MixedRing \o SubSeq(Mixture, 1, n)
      rv   == Taken(ring)
      out  == WholeFrames(rv)
  IN /\ encoder.at = "mux"
     /\ audio_mix_ring' = <<>>
     /\ m_MixedRing' = Tail_(ring, rv)
     /\ encoded' = encoded \o SubSeq(ring, 1, out)
     /\ encoder' = [encoder EXCEPT !.at = "idle", !.input = <<>>]
     /\ lost' = lost \cup Of(Tail_(Mixture, n)) \cup Of(SubSeq(ring, out + 1, rv))
     /\ cut' = (cut \/ n % (SampleBytes * encoder.channels) # 0)
     /\ UNCHANGED <<screenRing, first, jack, m_Encoded, process, counters,
                    played, stale, rewired>>

-----------------------------------------------------------------------------
\* A Process that is "broken" does nothing more: what the program does after it
\* used freed memory is not followed.
AudioNext == \/ \E frames \in Packets : Feed(frames)
             \/ ForgetRing \/ FreeInbuf \/ NewInbuf \/ PublishRing
             \/ \E connected \in BOOLEAN : ProcessInputs(connected)
             \/ ProcessTestRing \/ ProcessRead \/ ProcessOutput
             \/ AddEncoder \/ StopEncoder
             \/ \E enc \in BOOLEAN : IsEncoded(enc)
             \/ MuxFirst \/ EncodeFrame

AudioSpec == AudioInit /\ [][AudioNext]_audioVars

-----------------------------------------------------------------------------
(* Properties *)

\* The movie's sound goes through four rings and three threads as through one
\* queue that may lose and never repeats or reorders: what was given to Vorbis
\* and what is on the way is what was decoded, less what was given up for lack of
\* room or of an encoder.  The input keeps its order too (audio_jack.cpp:162-272,
\* oggtheora_encoder.cpp:197-342).
OnTheWay == encoded \o m_MixedRing \o audio_mix_ring \o process.data \o screenRing

InMoviesOrder(bytes) ==
  \A i, j \in DOMAIN bytes :
    i < j /\ bytes[i].m > 0 /\ bytes[j].m > 0 =>
      \/ bytes[i].m < bytes[j].m
      \/ bytes[i].m = bytes[j].m /\ bytes[i].b < bytes[j].b

InInputsOrder(bytes) ==
  \A i, j \in DOMAIN bytes :
    i < j /\ bytes[i].f > 0 /\ bytes[j].f > 0 => bytes[i].f <= bytes[j].f

SoundInOrder ==
  /\ InMoviesOrder(OnTheWay)
  /\ Of(OnTheWay) = Of(Movie(1, decoded)) \ lost
  /\ InInputsOrder(encoded \o m_MixedRing)

\* A sample's bytes stay together, and each output of Jack plays the samples of
\* its own channel, until a full ring has taken a part of a frame, or Process has
\* used a number of channels that was no longer, or not yet, the ring's
\* (video_layer.cpp:541, audio_jack.cpp:193, 243-249).
Whole(data) == \A k \in DOMAIN data : data[k].b = (k - 1) % SampleBytes

SoundStaysWhole ==
  ~cut /\ ~stale =>
    /\ Whole(encoded)
    /\ Whole(played.data)
    /\ \A k \in DOMAIN played.data :
         (played.data[k].m - 1) % Channels = ((k - 1) \div SampleBytes) % played.channels

\* Process works on a ring that it was given and a buffer that it owns, unless
\* add_layer is called again at that very time (audio_jack.cpp:274-293).
UsesWhatItWasGiven == process.at = "broken" => rewired
=============================================================================
