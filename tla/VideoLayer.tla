----------------------------- MODULE VideoLayer -----------------------------
(***************************************************************************)
(* A movie as a layer: VideoLayer (src/src/video_layer.cpp) in the loop of *)
(* Layer (src/src/layer.cpp), with its end-of-stream calls (EosCallbacks). *)
(* Five threads: those of EosCallbacks and                                 *)
(*   - the layer's thread, which feeds: it decodes a picture into the slot *)
(*     of frame_fifo that is not the layer's buffer, publishes the slot as *)
(*     the buffer, and loops the movie, telling eos, at its end;           *)
(*   - the engine, which draws the buffer;                                 *)
(*   - the script, which pauses, seeks, sets the marks (here the owner may *)
(*     do it too) and deletes the layer.                                   *)
(* None of them takes a lock that another takes: the layer's lock, which   *)
(* the engine holds while it draws, is not held by a feed.                 *)
(*                                                                         *)
(* The movie is a sequence of packets, of which only the end matters; what *)
(* libavcodec answers (a picture, an error, a seek that fails) is any: a   *)
(* movie may go round and never give one.  Bound: a packet is decoded in   *)
(* at most two parts.                                                      *)
(* The marks are the script's, their times are wall-clock times: a feed    *)
(* finds the clock past them or not.  A file that could be opened once can *)
(* be opened again.                                                        *)
(***************************************************************************)
EXTENDS EosCallbacks, Integers

CONSTANT Packets   \* packets of the movie

ASSUME VideoAssumption == Packets \in Nat \ {0}

FIFO_SIZE == 2
Slots == 0 .. FIFO_SIZE - 1

Nothing == -1  \* no buffer (NULL)
Rgba == -2     \* rgba_picture, which every picture is converted to first
Leaked == -3   \* a slot of before the movie was opened again, never freed
Freed == -4    \* rgba_picture of before that

VARIABLES
  lpc,           \* where the layer's thread is
  running,       \* JSyncThread's _running
  pos,           \* the next packet to read
  left,          \* packet_len > 0: is something left of the last packet?
  seekable, fifo_position,
  result,        \* what feed() is about to return
  buffer,        \* Layer's buffer
  whole,         \* the slots that hold a picture
  paused, to_seek,
  shown,         \* is the layer on a screen?
  epc, drawn,    \* the engine: where it is, the picture it draws
  overtaken      \* a buffer has been published since the engine took `drawn'

threadVars == <<lpc, pos, left, seekable, fifo_position, result, whole>>
scriptVars == <<paused, to_seek>>
engineVars == <<shown, epc, drawn, overtaken>>
movieVars == <<threadVars, running, buffer, scriptVars, engineVars>>
videoVars == <<vars, movieVars>>

VideoInit == /\ Init
             /\ lpc = "feed" /\ running = TRUE /\ pos = 0 /\ left = FALSE
             /\ seekable = TRUE
             /\ fifo_position = 0 /\ result = Nothing /\ buffer = Nothing /\ whole = {}
             /\ paused = FALSE /\ to_seek = -1
             /\ shown \in BOOLEAN /\ epc = "idle" /\ drawn = Nothing /\ overtaken = FALSE

-----------------------------------------------------------------------------
\* seek()

\* A picture that close() frees, or that new_fifo() replaces without freeing it.
AfterReopen(picture) == IF picture \in Slots THEN Leaked
                        ELSE IF picture = Rgba THEN Freed ELSE picture

\* Mutant of Reopen: the new fifo is in the memory of the old one.
ReopenInPlace == /\ pos' = 0 /\ fifo_position' = 0
                 /\ UNCHANGED <<buffer, drawn, whole>>

\* close(); open(full_filename): a new fifo, rgba_picture freed and, through
\* the pointer that close() leaves, allocated again.
Reopen == /\ pos' = 0 /\ fifo_position' = 0 /\ whole' = {}
          /\ buffer' = AfterReopen(buffer) /\ drawn' = AfterReopen(drawn)

Stays == UNCHANGED <<pos, fifo_position, whole, buffer, drawn>>

\* seek(timestamp).  The marks, when both are set, move the timestamp between
\* them, and av_seek_frame goes back to a packet at or before it: any packet.
Seek(toStart) ==
  \/ /\ seekable
     /\ pos' \in 0 .. Packets - 1
     /\ UNCHANGED <<seekable, fifo_position, whole, buffer, drawn>>
  \/ \* av_seek_frame failed, now or before, or the video is raw
     /\ seekable' = FALSE
     /\ IF toStart THEN Reopen ELSE Stays

-----------------------------------------------------------------------------
\* The layer's thread: Layer::thread_loop and VideoLayer::feed.

FeedPaused == /\ lpc = "feed" /\ running /\ paused
              /\ result' = Rgba /\ lpc' = "publish"
              /\ UNCHANGED <<vars, running, pos, left, seekable, fifo_position, whole,
                             buffer, scriptVars, engineVars>>

\* The loop from mark_out back to mark_in, when the clock is past mark_out;
\* mark_in may be where the movie starts.
FeedMarks == /\ lpc = "feed" /\ running /\ ~paused
             /\ lpc' = "request"
             /\ \/ seekable /\ \E toStart \in BOOLEAN : Seek(toStart)
                \/ Stays /\ UNCHANGED seekable
             /\ UNCHANGED <<vars, running, left, result, scriptVars, shown, epc, overtaken>>

\* A seek that the script asked for.
FeedSeek == /\ lpc = "request"
            /\ IF to_seek >= 0 THEN Seek(to_seek = 0) /\ lpc' = "forget"
               ELSE Stays /\ lpc' = "read" /\ UNCHANGED seekable
            /\ UNCHANGED <<vars, running, left, result, scriptVars, shown, epc, overtaken>>

\* to_seek = -1, whatever the script has asked for since.
FeedForget == /\ lpc = "forget"
              /\ to_seek' = -1 /\ lpc' = "read"
              /\ UNCHANGED <<vars, running, pos, left, seekable, fifo_position, result, whole,
                             buffer, paused, engineVars>>

\* av_read_frame, unless the last packet is not through.
NextPacket == IF left THEN UNCHANGED pos ELSE pos < Packets /\ pos' = pos + 1

\* A packet, or the rest of one, with a picture, or with sound or nothing.
ReadPacket == /\ lpc = "read" /\ NextPacket
              /\ left' \in IF left THEN {FALSE} ELSE BOOLEAN
              /\ lpc' \in {"convert", "read"}
              /\ UNCHANGED <<vars, running, seekable, fifo_position, result, whole,
                             buffer, scriptVars, engineVars>>

\* "Error while decoding frame", which leaves the packet to be tried again by
\* the next feed; "one frame only?", which does not: feed() returns NULL.
ReadError == /\ lpc = "read" /\ NextPacket
             /\ left' \in BOOLEAN /\ result' = Nothing /\ lpc' = "publish"
             /\ UNCHANGED <<vars, running, seekable, fifo_position, whole,
                            buffer, scriptVars, engineVars>>

\* The end of the movie: eos->notify(), of an eos that may have been deleted.
ReadEnd == /\ lpc = "read" /\ ~left /\ pos = Packets
           /\ IF closed
              THEN /\ misused' = TRUE /\ lpc' = "rewind"
                   /\ UNCHANGED <<calls_, callVars, dispatcherVars, notifierVars, dpc,
                                  ownerVars, freed, useAfterFree>>
              ELSE IF calls_ = <<>> THEN lpc' = "rewind" /\ UNCHANGED vars
                                    ELSE lpc' = "notify" /\ NotifyBegin
           /\ UNCHANGED <<running, pos, left, seekable, fifo_position, result, whole,
                          buffer, scriptVars, engineVars>>

\* One step of the notify; the last one is followed by the seek.
Notifying == /\ lpc = "notify"
             /\ Enqueue \/ AddNotify \/ NotifyNext
             /\ lpc' = IF npc' = "idle" THEN "rewind" ELSE "notify"
             /\ UNCHANGED <<running, pos, left, seekable, fifo_position, result, whole,
                            buffer, scriptVars, engineVars>>

\* ret = seek(start_time), which answers 0 in every case: "could not loop file"
\* is never said.
Rewind == /\ lpc = "rewind"
          /\ Seek(TRUE)
          /\ lpc' = "read"
          /\ UNCHANGED <<vars, running, left, result, scriptVars, shown, epc, overtaken>>

\* Mutant of NextSlot: the fifo is one slot.
OneSlot == 0

NextSlot == IF fifo_position = FIFO_SIZE THEN 0 ELSE fifo_position

\* The picture is converted into rgba_picture and copied to the next slot.
Convert == /\ lpc = "convert"
           /\ fifo_position' = NextSlot
           /\ whole' = whole \ {NextSlot}
           /\ lpc' = "copy"
           /\ UNCHANGED <<vars, running, pos, left, seekable, result, buffer, scriptVars,
                          engineVars>>

Copied == /\ lpc = "copy"
          /\ whole' = whole \cup {fifo_position}
          /\ fifo_position' = fifo_position + 1
          /\ result' = fifo_position' - 1
          /\ lpc' = "publish"
          /\ UNCHANGED <<vars, running, pos, left, seekable, buffer, scriptVars, engineVars>>

\* buffer = tmp_buf: the pointer, not a copy of the picture.
Publish == /\ lpc = "publish"
           /\ buffer' = result
           /\ overtaken' = (epc = "draw")
           /\ lpc' = "feed" /\ result' = Nothing
           /\ UNCHANGED <<vars, running, pos, left, seekable, fifo_position, whole,
                          scriptVars, shown, epc, drawn>>

-----------------------------------------------------------------------------
\* The script.

Pause == /\ running
         /\ paused' = ~paused
         /\ UNCHANGED <<vars, threadVars, running, buffer, to_seek, engineVars>>

\* video_layer_seek
AskSeek == /\ running
           /\ to_seek' \in 0 .. Packets - 1
           /\ UNCHANGED <<vars, threadVars, running, buffer, paused, engineVars>>

\* ~VideoLayer: delete eos (DeleteEos, EosDeleted); stop(), which joins; close().
Stop == /\ closed /\ running
        /\ running' = FALSE
        /\ UNCHANGED <<vars, threadVars, buffer, scriptVars, engineVars>>

\* The thread sees that it is stopped; the destructor goes on.
ThreadEnds == /\ lpc = "feed" /\ ~running
              /\ lpc' = "ended"
              /\ UNCHANGED <<vars, running, pos, left, seekable, fifo_position, result, whole,
                             buffer, scriptVars, engineVars>>

\* close() frees rgba_picture and leaves the fifo to nobody; ~Entry takes the
\* layer off the screen, which waits for the engine to be done with it.
Close == /\ lpc = "ended"
         /\ lpc' = "closed"
         /\ buffer' = AfterReopen(buffer) /\ drawn' = AfterReopen(drawn)
         /\ whole' = {}
         /\ UNCHANGED <<vars, running, pos, left, seekable, fifo_position, result,
                        scriptVars, shown, epc, overtaken>>
Gone == /\ lpc = "closed" /\ epc = "idle" /\ shown
        /\ shown' = FALSE
        /\ UNCHANGED <<vars, threadVars, running, buffer, scriptVars, epc, drawn,
                       overtaken>>

-----------------------------------------------------------------------------
\* The engine: ViewPort::blit_layers looks at buffer, takes locks that the
\* layer's thread does not, and SoftScreen::blit looks at buffer again.

BlitTest == /\ epc = "idle" /\ shown /\ buffer # Nothing
            /\ epc' = "test"
            /\ UNCHANGED <<vars, threadVars, running, buffer, scriptVars, shown, drawn,
                           overtaken>>
BlitStart == /\ epc = "test"
             /\ epc' = "draw" /\ drawn' = buffer /\ overtaken' = FALSE
             /\ UNCHANGED <<vars, threadVars, running, buffer, scriptVars, shown>>
BlitEnd == /\ epc = "draw"
           /\ epc' = "idle" /\ drawn' = Nothing /\ overtaken' = FALSE
           /\ UNCHANGED <<vars, threadVars, running, buffer, scriptVars, shown>>

LayerThread == \/ FeedPaused \/ FeedMarks \/ FeedSeek \/ FeedForget
               \/ ReadPacket \/ ReadError \/ ReadEnd \/ Notifying \/ Rewind
               \/ Convert \/ Copied \/ Publish \/ ThreadEnds
Script == Pause \/ AskSeek
Destructor == Stop \/ Close \/ Gone
Engine == BlitTest \/ BlitStart \/ BlitEnd
CallsStep == (Worker \/ Owner) /\ UNCHANGED movieVars

VideoNext == LayerThread \/ Script \/ Destructor \/ Engine \/ CallsStep
VideoSpec == VideoInit /\ [][VideoNext]_videoVars

\* Threads run on: libavcodec answers, jobs are executed, a destructor goes on
\* as soon as it can, a blit ends.
VideoFairness == /\ WF_videoVars(LayerThread)
                 /\ WF_videoVars(Worker /\ UNCHANGED movieVars)
                 /\ WF_videoVars(Destructors /\ UNCHANGED movieVars)
                 /\ WF_videoVars(Stop \/ Close)
                 /\ WF_videoVars(BlitStart \/ BlitEnd)
FairVideoSpec == VideoSpec /\ VideoFairness

-----------------------------------------------------------------------------
\* Two slots are enough as long as the engine keeps up: a picture of the fifo
\* that it draws is whole, and not written to, until the next is published,
\* however the movie is looped, paused, moved about and opened again.
FramesAreWhole == epc = "draw" /\ drawn \in Slots /\ ~overtaken =>
                    drawn \in whole /\ (lpc = "copy" => fifo_position # drawn)

\* A feed returns, so that a stop() may: the end of the movie, with the notify
\* and its calls' mutexes, holds it up for no longer than it takes.  The
\* exception is a movie that gives no picture from its end to its end: its feed
\* goes round for ever, end, notify, seek and read, and looks at nothing that
\* stop() sets (video_layer.cpp:385-583).  The last case is the bound MaxJobs.
FeedsReturn == \/ []<>(lpc \in {"feed", "publish", "ended", "closed"})
               \/ []<>(lpc = "rewind")
               \/ <>misused
               \/ <>(lpc = "read" /\ Len(submitted) >= MaxJobs)

\* Deleting a call returns, whatever jobs it still had to wait for; and
\* ~VideoLayer comes to its end, whatever its thread and its calls are at,
\* unless eos is deleted under a feed that tells it of the end of the movie
\* (misused).  That includes the feed that goes round for ever: it outlives eos,
\* tells it again, and the join of stop() does not return.
DeletesReturn == /\ opc = "lock" ~> opc # "lock" \/ misused
                 /\ opc = "closing" ~> lpc = "closed" \/ misused
=============================================================================
