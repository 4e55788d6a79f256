----------------------------- MODULE VideoEncoder -----------------------------
(***************************************************************************)
(* VideoEncoder (src/src/video_encoder.cpp) with the multiplexer of        *)
(* OggTheoraEncoder (oggtheora_encoder.cpp, theorautils.cpp) over its ring *)
(* buffer.  The encoder's thread writes the pages of a frame into the ring *)
(* and then, when a file or a stream wants them, empties the ring: it is   *)
(* writer and reader at once.  The script's thread starts and stops the    *)
(* recording and deletes the encoder; nothing is locked.                   *)
(*                                                                         *)
(* The encoded bytes are numbered from 1, so what a file holds tells what  *)
(* is missing from it.  Codecs, and what the server of a stream receives,  *)
(* are outside.                                                            *)
(***************************************************************************)
EXTENDS RingBuffer

CONSTANTS
  HeaderBytes,  \* what init puts into the ring
  Frames,       \* bound: the pages a frame can give, as where in it each one ends
  MaxBytes      \* bound: bytes encoded in all

\* A frame's pages fit into the ring, next to the headers (4 MB).
ASSUME EncoderAssumption ==
  /\ HeaderBytes \in 1..Size - 1
  /\ MaxBytes \in Nat /\ HeaderBytes <= MaxBytes /\ 0..MaxBytes \subseteq Bytes
  /\ \A ends \in Frames :
       /\ ends \in Seq(1..Size - 1 - HeaderBytes)
       /\ \A i, k \in 1..Len(ends) : i < k => ends[i] < ends[k]

VARIABLES
  loop,              \* where the encoder's thread is
  pages,             \* where the frame's pages end that are not yet in the ring
  encbuf,            \* the size of the block encbuf points to, 0 for NULL
  write_to_disk, write_to_stream,
  filedump_fd,       \* "none", "open", or "closed" and not yet NULL
  running,           \* JSyncThread::_running
  script,            \* where the script's thread is in its call
  file,              \* history: what was written to the file that is, or was last, open
  made, pageEnds,    \* history: bytes encoded; the numbers of last bytes of pages
  undrained,         \* history: the last frame was left in the ring
  closedUnderWrite,  \* history: a file was closed before the fwrite that the test allowed
  overrun            \* history: a read larger than encbuf

ring    == <<buf, write_ptr, read_ptr, dest, ret>>
thread  == <<loop, pages, encbuf>>
flags   == <<write_to_disk, write_to_stream, filedump_fd>>
ghosts  == <<made, pageEnds, undrained, closedUnderWrite, overrun>>
encoderVars == <<ring, thread, flags, running, script, file, ghosts>>

\* The block is not cleared by malloc; nothing of it is read before it is written.
EncoderInit ==
  /\ buf = [k \in Indices |-> 0] /\ write_ptr = 0 /\ read_ptr = 0
  /\ dest = <<>> /\ ret = 0
  /\ loop = "init" /\ pages = <<>> /\ encbuf = 0
  /\ write_to_disk = FALSE /\ write_to_stream = FALSE /\ filedump_fd = "none"
  /\ running = FALSE /\ script = "idle" /\ file = <<>>
  /\ made = 0 /\ pageEnds = {0}
  /\ undrained = FALSE /\ closedUnderWrite = FALSE /\ overrun = FALSE

\* The next n bytes that are encoded.
Fresh(n) == [k \in 1..n |-> made + k]

Put(n) == /\ Write(Fresh(n))
          /\ made' = made + n
          /\ pageEnds' = pageEnds \cup {made + n}

Held == ReadSpace(write_ptr, read_ptr)
Room == WriteSpace(write_ptr, read_ptr)

-----------------------------------------------------------------------------
(* The encoder's thread *)

\* ViewPort::add_encoder: init writes the headers, start makes the thread.
AddEncoder ==
  /\ loop = "init"
  /\ Put(HeaderBytes)
  /\ loop' = "top" /\ running' = TRUE
  /\ UNCHANGED <<pages, encbuf, flags, script, file, undrained, closedUnderWrite, overrun>>

\* encode_frame: the pages that are ready, the video's before the sound's.
EncodeFrame ==
  /\ loop = "top" /\ running
  /\ \E ends \in Frames : /\ \A k \in 1..Len(ends) : made + ends[k] <= MaxBytes
                          /\ pages' = [k \in 1..Len(ends) |-> made + ends[k]]
  /\ loop' = "flush"
  /\ UNCHANGED <<ring, encbuf, flags, running, script, file, ghosts>>

PageBytes == Head(pages) - made

\* Mutant: a page that fills the ring exactly is not let in.
WritePageStrict ==
  /\ loop = "flush" /\ pages # <<>>
  /\ Room > PageBytes
  /\ Put(PageBytes)
  /\ pages' = Tail(pages)
  /\ UNCHANGED <<loop, encbuf, flags, running, script, file,
                 undrained, closedUnderWrite, overrun>>

\* ogg_pipe_write sleeps until the whole page fits.
WritePage ==
  /\ loop = "flush" /\ pages # <<>>
  /\ Room >= PageBytes
  /\ Put(PageBytes)
  /\ pages' = Tail(pages)
  /\ UNCHANGED <<loop, encbuf, flags, running, script, file,
                 undrained, closedUnderWrite, overrun>>

\* Until then it sleeps and looks again.
WaitForRoom ==
  /\ loop = "flush" /\ pages # <<>>
  /\ Room < PageBytes
  /\ UNCHANGED encoderVars

\* Mutant: a few bytes at a time, as the lines that are commented out did.
DrainSome ==
  /\ loop = "flush" /\ pages = <<>>
  /\ IF (write_to_disk \/ write_to_stream) /\ Held > 0
     THEN /\ encbuf' = Held
          /\ Read(3)
          /\ loop' = "disk"
     ELSE loop' = "top" /\ UNCHANGED <<ring, encbuf>>
  /\ undrained' = (Held > 0 /\ ~write_to_disk /\ ~write_to_stream)
  /\ UNCHANGED <<pages, flags, running, script, file, made, pageEnds,
                 closedUnderWrite, overrun>>

Drain ==
  /\ loop = "flush" /\ pages = <<>>
  /\ IF (write_to_disk \/ write_to_stream) /\ Held > 0
     THEN /\ encbuf' = Held
          /\ Read(Held)
          /\ loop' = "disk"
     ELSE loop' = "top" /\ UNCHANGED <<ring, encbuf>>
  /\ undrained' = (Held > 0 /\ ~write_to_disk /\ ~write_to_stream)
  /\ UNCHANGED <<pages, flags, running, script, file, made, pageEnds,
                 closedUnderWrite, overrun>>

\* Test, then fwrite: what is sent to a stream is not followed.
TestDisk ==
  /\ loop = "disk"
  /\ loop' = IF write_to_disk /\ filedump_fd # "none" THEN "fwrite" ELSE "top"
  /\ closedUnderWrite' = (closedUnderWrite \/ (write_to_disk /\ filedump_fd = "closed"))
  /\ UNCHANGED <<ring, pages, encbuf, flags, running, script, file,
                 made, pageEnds, undrained, overrun>>

WriteFile ==
  /\ loop = "fwrite"
  /\ loop' = "top"
  /\ file' = IF filedump_fd = "open" THEN file \o dest ELSE file
  /\ UNCHANGED <<ring, pages, encbuf, flags, running, script, ghosts>>

EndThread ==
  /\ loop = "top" /\ ~running
  /\ loop' = "ended"
  /\ UNCHANGED <<ring, pages, encbuf, flags, running, script, file, ghosts>>

Thread == AddEncoder \/ EncodeFrame \/ WritePage \/ Drain \/ TestDisk \/ WriteFile \/ EndThread

-----------------------------------------------------------------------------
(* The script's thread *)

\* set_filedump, with a name (record) or NULL: the old file is closed first.
SetFiledump(record) ==
  /\ script = "idle" /\ loop # "init"
  /\ IF write_to_disk
     THEN /\ filedump_fd' = "closed"
          /\ script' = IF record THEN "clear, then open" ELSE "clear"
          /\ closedUnderWrite' = (closedUnderWrite \/ loop = "fwrite")
     ELSE /\ script' = IF record THEN "open" ELSE "idle"
          /\ UNCHANGED <<filedump_fd, closedUnderWrite>>
  /\ UNCHANGED <<ring, thread, write_to_disk, write_to_stream, running, file,
                 made, pageEnds, undrained, overrun>>

\* filedump_fd = NULL, after the fclose.
ForgetFile ==
  /\ script \in {"clear", "clear, then open"} /\ filedump_fd = "closed"
  /\ filedump_fd' = "none"
  /\ UNCHANGED <<ring, thread, write_to_disk, write_to_stream, running, script, file, ghosts>>

ClearDisk ==
  /\ script \in {"clear", "clear, then open"} /\ filedump_fd = "none"
  /\ write_to_disk' = FALSE
  /\ script' = IF script = "clear" THEN "idle" ELSE "open"
  /\ UNCHANGED <<ring, thread, write_to_stream, filedump_fd, running, file, ghosts>>

\* fopen may fail; a file that exists is never opened again.
OpenFile(opened) ==
  /\ script = "open"
  /\ IF opened
     THEN filedump_fd' = "open" /\ file' = <<>> /\ script' = "set"
     ELSE filedump_fd' = "none" /\ script' = "idle" /\ UNCHANGED file
  /\ UNCHANGED <<ring, thread, write_to_disk, write_to_stream, running, ghosts>>

SetDisk ==
  /\ script = "set"
  /\ write_to_disk' = TRUE
  /\ script' = "idle"
  /\ UNCHANGED <<ring, thread, write_to_stream, filedump_fd, running, file, ghosts>>

\* start_stream (the server may refuse) and stop_stream.
SetStream(on) ==
  /\ script = "idle" /\ loop # "init"
  /\ write_to_stream # on
  /\ write_to_stream' = on
  /\ UNCHANGED <<ring, thread, write_to_disk, filedump_fd, running, script, file, ghosts>>

\* stop(), which joins the thread, and delete.
Stop ==
  /\ script = "idle" /\ running
  /\ running' = FALSE /\ script' = "join"
  /\ UNCHANGED <<ring, thread, flags, file, ghosts>>

\* Mutant: encbuf is not looked at.
DestructorAlways ==
  /\ script = "join" /\ loop = "ended"
  /\ script' = "deleted"
  /\ Read(Held)
  /\ overrun' = (Held > encbuf)
  /\ file' = IF write_to_disk THEN file \o dest' ELSE file
  /\ filedump_fd' = "none"
  /\ UNCHANGED <<thread, write_to_disk, write_to_stream, running,
                 made, pageEnds, undrained, closedUnderWrite>>

\* ~VideoEncoder: what is in the ring goes to the file, through encbuf as it is.
Destructor ==
  /\ script = "join" /\ loop = "ended"
  /\ script' = "deleted"
  /\ IF encbuf > 0 /\ Held > 0
     THEN /\ Read(Held)
          /\ overrun' = (Held > encbuf)
          /\ file' = IF write_to_disk /\ filedump_fd = "open" THEN file \o dest' ELSE file
     ELSE UNCHANGED <<ring, overrun, file>>
  /\ filedump_fd' = "none"
  /\ UNCHANGED <<thread, write_to_disk, write_to_stream, running,
                 made, pageEnds, undrained, closedUnderWrite>>

Script == \/ \E record \in BOOLEAN : SetFiledump(record)
          \/ ForgetFile \/ ClearDisk \/ SetDisk
          \/ \E opened \in BOOLEAN : OpenFile(opened)
          \/ \E on \in BOOLEAN : SetStream(on)
          \/ Stop \/ Destructor

\* The program that has deleted its encoder does other things.
Done == script = "deleted" /\ UNCHANGED encoderVars

EncoderNext == Thread \/ WaitForRoom \/ Script \/ Done

EncoderSpec == EncoderInit /\ [][EncoderNext]_encoderVars

\* The encoder's thread is scheduled, and so is a script that waits in stop().
EncoderFairSpec == EncoderSpec /\ WF_encoderVars(Thread) /\ WF_encoderVars(Destructor)

-----------------------------------------------------------------------------
(* Properties *)

\* A file holds one run of the encoded bytes, of whole pages, with none missing
\* in between, however recording and streaming are started and stopped, unless
\* set_filedump closes the file between the thread's test of it and its fwrite, or
\* before that test without having cleared the pointer yet
\* (video_encoder.cpp:254-269, 313-320).
FileIsOneRun == ~closedUnderWrite /\ file # <<>> =>
  /\ \A k \in DOMAIN file : file[k] = file[1] + k - 1
  /\ file[1] - 1 \in pageEnds
  /\ file[Len(file)] \in pageEnds

\* Only the thread itself can make the room that it waits for (theorautils.cpp:55).
Stuck == loop = "flush" /\ pages # <<>> /\ Room < PageBytes

\* It waits for ever, or the destructor reads more than encbuf holds
\* (video_encoder.cpp:131-134), only after a frame that nobody wanted to have.
OnlyTheUnwantedGoesWrong == (Stuck \/ overrun) => undrained

\* stop() returns and the encoder is deleted, unless the thread waits for itself.
StopReturns == (script = "join") ~> (script = "deleted" \/ Stuck)
=============================================================================
