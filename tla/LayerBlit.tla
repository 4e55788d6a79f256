------------------------------ MODULE LayerBlit ------------------------------
(***************************************************************************)
(* How a layer gets on a screen: ViewPort::blit_layers, SoftScreen::blit,  *)
(* Blitter::crop and Layer::set_blit on the engine's thread, against       *)
(* Layer::_set_position and the feed on the layer's own thread.            *)
(*                                                                         *)
(* The two threads share the geometry, need_crop and the buffer.  The      *)
(* engine holds the layer's lock during a blit; the layer's thread takes   *)
(* no lock for its deferred calls nor for the feed, so its stores fall     *)
(* between any two of the engine's sections.  A section of the crop reads  *)
(* the geometry in one step.  Scripts and frames run on the same thread,   *)
(* one after the other.  Deferred calls appear here when they execute:     *)
(* their queue is ThreadedClosureQueue's.                                  *)
(*                                                                         *)
(* One layer, one software screen, linear blits, no rotation or zoom.      *)
(***************************************************************************)
EXTENDS Integers

CONSTANTS Blits,          \* the blits of the layer's Blitter
          Default,        \* the one setup_linear_blits makes the default
          ScreenW, ScreenH, LayerW, LayerH,   \* sizes in pixels
          Moves           \* the positions [x, y] set_position is called with

ASSUME BlitAssumption == /\ Default \in Blits
                         /\ {ScreenW, ScreenH, LayerW, LayerH} \subseteq Nat \ {0}
                         /\ \A m \in Moves : m.x \in Int /\ m.y \in Int

VARIABLES geo,          \* the layer's position
          need_crop, hidden,
          buffer,       \* is the layer's buffer not NULL?
          lpc, arg,     \* layer's thread: its step, the y it has still to store
          asked,        \* history: the position set_position stored last
          overwritten,  \* history: the axes of it that a crop has overwritten
          listed,       \* is the layer in the screen's list?
          screen,       \* is the layer's screen pointer set?
          blits,        \* blit -> its crop parameters
          current,      \* current_blit
          changeres,    \* has the screen ever been resized?
          mpc, back,    \* engine's thread: its step, where its crop returns to
          torn,         \* history: the position changed during the last crop
          lost          \* history: such a change asked for its crop during that crop, and
                        \* no crop has come to its end since

vars == <<geo, need_crop, hidden, buffer, lpc, arg, asked, overwritten, listed,
          screen, blits, current, changeres, mpc, back, torn, lost>>
layerVars == <<buffer, lpc, arg, asked, overwritten>>

Crop == {"start", "bottom", "left", "up", "right", "finish",
         "outBottom", "outLeft", "outUp", "outRight"}
Cropping == mpc \in Crop

Over(n) == IF n > 0 THEN n ELSE 0

\* A Blit as its constructor leaves it: the strides and offsets are not set,
\* which "ready" says; no property reads them before it is TRUE.
NewBlit == [lay_pitch |-> 0, lay_height |-> 0, lay_bytepitch |-> 0,
            lay_stride_up |-> 0, lay_stride_sx |-> 0, lay_stride_dx |-> 0,
            scr_stride_up |-> 0, scr_stride_sx |-> 0, scr_stride_dx |-> 0,
            lay_stride |-> 0, scr_stride |-> 0,
            lay_offset |-> 0, scr_offset |-> 0, ready |-> FALSE]

Init == /\ geo = [x |-> 0, y |-> 0] /\ arg = 0
        /\ need_crop = TRUE /\ hidden = FALSE /\ buffer = FALSE
        /\ lpc = "idle" /\ asked = geo /\ overwritten = {}
        /\ listed = FALSE /\ screen = FALSE
        /\ blits = [b \in Blits |-> NewBlit] /\ current = Default
        /\ changeres = FALSE /\ mpc = "idle" /\ back = "idle"
        /\ torn = FALSE /\ lost = FALSE

-----------------------------------------------------------------------------
\* The layer's thread.

\* Layer::_set_position: three stores, in this order.
StoreX == /\ lpc = "idle"
          /\ \E m \in Moves : /\ arg' = m.y /\ geo' = [geo EXCEPT !.x = m.x]
                             /\ asked' = [asked EXCEPT !.x = m.x]
          /\ overwritten' = overwritten \ {"x"}
          /\ lpc' = "y"
          /\ torn' = (torn \/ Cropping)
          /\ UNCHANGED <<changeres, need_crop, hidden, buffer, listed, screen, blits,
                         current, mpc, back, lost>>

StoreY == /\ lpc = "y"
          /\ geo' = [geo EXCEPT !.y = arg] /\ arg' = 0
          /\ asked' = [asked EXCEPT !.y = arg] /\ overwritten' = overwritten \ {"y"}
          /\ lpc' = "need"
          /\ torn' = (torn \/ Cropping)
          /\ UNCHANGED <<changeres, need_crop, hidden, buffer, listed, screen, blits,
                         current, mpc, back, lost>>

\* Mutant of RequestCrop: the position changes and no crop is asked for.
RequestCropForgotten ==
  /\ lpc = "need" /\ lpc' = "idle"
  /\ UNCHANGED <<changeres, geo, need_crop, hidden, buffer, arg, asked, overwritten, listed, screen,
                 blits, current, mpc, back, torn, lost>>

RequestCrop == /\ lpc = "need"
               /\ need_crop' = TRUE
               /\ lost' = (lost \/ (Cropping /\ torn))
               /\ lpc' = "idle"
               /\ UNCHANGED <<changeres, geo, hidden, buffer, arg, asked, overwritten, listed,
                              screen, blits, current, mpc, back, torn>>

\* Layer::thread_loop: the feed gives a frame, or none.
Feed == /\ lpc = "idle"
        /\ buffer' \in BOOLEAN
        /\ UNCHANGED <<changeres, geo, need_crop, hidden, lpc, arg, asked, overwritten, listed,
                       screen, blits, current, mpc, back, torn, lost>>

-----------------------------------------------------------------------------
\* The script's calls.

BeginCrop(whence) == mpc' = "start" /\ back' = whence

\* ViewPort::add_layer: a new Blitter, then set_blit of the default, whose
\* crop comes before the layer is in the list.
AddLayer == /\ mpc = "idle" /\ ~listed
            /\ screen' = TRUE
            /\ blits' = [b \in Blits |-> NewBlit] /\ current' = Default
            /\ need_crop' = TRUE
            /\ BeginCrop("list")
            /\ UNCHANGED <<changeres, geo, hidden, layerVars, listed, torn, lost>>

\* ... its last lines.
Enlist == /\ mpc = "list"
          /\ listed' = TRUE
          /\ mpc' = "idle"
          /\ UNCHANGED <<changeres, geo, need_crop, hidden, layerVars, screen, blits,
                         current, back, torn, lost>>

\* Layer::set_blit.
SetBlit == /\ mpc = "idle" /\ screen
           /\ current' \in Blits
           /\ need_crop' = TRUE
           /\ BeginCrop("idle")
           /\ UNCHANGED <<changeres, geo, hidden, layerVars, listed, screen, blits, torn, lost>>

\* ViewPort::rem_layer.
RemLayer == /\ mpc = "idle" /\ listed
            /\ listed' = FALSE /\ screen' = FALSE
            /\ UNCHANGED <<changeres, geo, need_crop, hidden, layerVars, blits, current,
                           mpc, back, torn, lost>>

\* ViewPort::reset: the layer's screen pointer is left as it is.
Reset == /\ mpc = "idle" /\ listed
         /\ listed' = FALSE
         /\ UNCHANGED <<changeres, geo, need_crop, hidden, layerVars, screen, blits,
                        current, mpc, back, torn, lost>>

\* Context::resize.
Resize == /\ mpc = "idle"
          /\ changeres' = TRUE
          /\ UNCHANGED <<geo, need_crop, hidden, layerVars, listed, screen, blits,
                         current, mpc, back, torn, lost>>

-----------------------------------------------------------------------------
\* The crop.  Its parameters are those of the current blit.

b == blits[current]
Store(p) == blits' = [blits EXCEPT ![current] = p]

CropStart == /\ mpc = "start"
             /\ Store([b EXCEPT !.lay_pitch = LayerW, !.lay_height = LayerH,
                 !.lay_stride_up = 0, !.lay_stride_sx = 0, !.lay_stride_dx = 0,
                 !.scr_stride_up = 0, !.scr_stride_sx = 0, !.scr_stride_dx = 0])
             /\ mpc' = "bottom"
             /\ torn' = FALSE
             /\ UNCHANGED <<changeres, geo, need_crop, hidden, layerVars, listed, screen,
                            current, back, lost>>

\* The layer is beyond a border.
OutBottom == geo.y > ScreenH
OutLeft   == geo.x + LayerW < 0
OutUp     == geo.y + LayerH < 0
OutRight  == geo.x > ScreenW

\* One section: out of the screen, or on to the next one with other parameters.
Section(at, out, whenOut, next, p) ==
  /\ mpc = at
  /\ \/ out /\ mpc' = whenOut /\ UNCHANGED blits
     \/ ~out /\ mpc' = next /\ Store(p)
  /\ UNCHANGED <<changeres, geo, need_crop, hidden, layerVars, listed, screen, current,
                 back, torn, lost>>

Bottom == LET over == geo.y + LayerH - ScreenH IN
  Section("bottom", OutBottom, "outBottom", "left",
          [b EXCEPT !.lay_height = @ - Over(over)])

\* Mutant of Left: the pitch is not reduced by what is cut.
LeftKeepsPitch == Section("left", OutLeft, "outLeft", "up",
                          [b EXCEPT !.lay_stride_sx = Over(-geo.x), !.scr_stride_sx = Over(geo.x)])

Left == Section("left", OutLeft, "outLeft", "up",
                [b EXCEPT !.lay_stride_sx = Over(-geo.x), !.lay_pitch = @ - Over(-geo.x),
                          !.scr_stride_sx = Over(geo.x)])

Up == Section("up", OutUp, "outUp", "right",
              [b EXCEPT !.lay_stride_up = Over(-geo.y), !.lay_height = @ - Over(-geo.y),
                        !.scr_stride_up = Over(geo.y)])

Right == LET over == geo.x + LayerW - ScreenW IN
  Section("right", OutRight, "outRight", "finish",
          [b EXCEPT !.lay_pitch = @ - Over(over), !.lay_stride_dx = Over(over),
                    !.scr_stride_dx = Over(-over)])

\* Out of the screen: "don't go far", and an early return that leaves
\* need_crop set and the rest of the parameters as they were.  The position may
\* have changed since the test: what the thread has stored there is overwritten.
OutOfScreen(at, out, axis, far) ==
  /\ mpc = at
  /\ geo' = [geo EXCEPT ![axis] = far]
  /\ overwritten' = IF out THEN overwritten ELSE overwritten \cup {axis}
  /\ hidden' = TRUE
  /\ mpc' = back /\ back' = "idle"
  /\ UNCHANGED <<changeres, need_crop, buffer, lpc, arg, asked, listed, screen, blits,
                 current, torn, lost>>

Clamp == \/ OutOfScreen("outBottom", OutBottom, "y", ScreenH + 1)
         \/ OutOfScreen("outLeft", OutLeft, "x", -(LayerW + 1))
         \/ OutOfScreen("outUp", OutUp, "y", -(LayerH + 1))
         \/ OutOfScreen("outRight", OutRight, "x", ScreenW + 1)

Finish == /\ mpc = "finish"
          /\ Store([b EXCEPT !.lay_stride = b.lay_stride_dx + b.lay_stride_sx,
                             !.lay_offset = b.lay_stride_sx + b.lay_stride_up * LayerW,
                             !.scr_stride = b.scr_stride_dx + b.scr_stride_sx,
                             !.scr_offset = b.scr_stride_sx + b.scr_stride_up * ScreenW,
                             !.lay_bytepitch = b.lay_pitch * 4, !.ready = TRUE])
          /\ hidden' = FALSE
          /\ need_crop' = FALSE
          /\ lost' = (lost /\ torn)
          /\ mpc' = back /\ back' = "idle"
          /\ UNCHANGED <<changeres, geo, layerVars, listed, screen, current, torn>>

-----------------------------------------------------------------------------
\* A frame.

\* ViewPort::handle_resize, in every frame from the first resize on: changeres
\* is never cleared.  A software screen keeps its size.
HandleResize == /\ mpc = "idle" /\ listed /\ changeres
                /\ BeginCrop("resized")
                /\ UNCHANGED <<changeres, geo, need_crop, hidden, layerVars, listed,
                               screen, blits, current, torn, lost>>

\* ViewPort::blit_layers up to SoftScreen::blit's test of need_crop.
Frame == /\ mpc = IF changeres THEN "resized" ELSE "idle"
         /\ listed /\ buffer /\ screen
         /\ IF need_crop THEN BeginCrop("draw") ELSE mpc' = "draw" /\ UNCHANGED back
         /\ UNCHANGED <<changeres, geo, need_crop, hidden, layerVars, listed, screen, blits,
                        current, torn, lost>>

\* A frame without a picture.
NoFrame == /\ mpc = "resized" /\ ~buffer
           /\ mpc' = "idle"
           /\ UNCHANGED <<changeres, geo, need_crop, hidden, layerVars, listed, screen,
                          blits, current, back, torn, lost>>

\* What SoftScreen::blit copies with the parameters of blit p: pairs of a
\* pixel of the screen and a pixel of the layer, as indices from their starts.
Pixels(p) ==
  {<<p.scr_offset + row * (p.scr_stride + p.lay_pitch) + c,
     p.lay_offset + row * (p.lay_stride + p.lay_pitch) + c>> :
     row \in 0 .. p.lay_height - 1, c \in 0 .. (p.lay_bytepitch \div 4) - 1}

Draw == /\ mpc = "draw"
        /\ mpc' = "idle"
        /\ UNCHANGED <<changeres, geo, need_crop, hidden, layerVars, listed, screen, blits,
                       current, back, torn, lost>>

LayerThread == StoreX \/ StoreY \/ RequestCrop \/ Feed
Script == AddLayer \/ Enlist \/ SetBlit \/ RemLayer \/ Reset \/ Resize
CropSteps == CropStart \/ Bottom \/ Left \/ Up \/ Right \/ Clamp \/ Finish
Engine == HandleResize \/ Frame \/ NoFrame \/ Draw \/ CropSteps

Next == LayerThread \/ Script \/ Engine
Spec == Init /\ [][Next]_vars

\* The part of the layer that is on the screen when the layer is at position g.
Visible(g) ==
  {<<(g.y + row) * ScreenW + g.x + c, row * LayerW + c>> :
     row \in {r \in 0 .. LayerH - 1 : g.y + r \in 0 .. ScreenH - 1},
     c \in {k \in 0 .. LayerW - 1 : g.x + k \in 0 .. ScreenW - 1}}

\* Once set_position is through, the layer is where it was asked to be, as far
\* as the screen goes, and when no crop is due it is drawn exactly there, cut at
\* the screen's borders: a move made while the engine crops or draws is not
\* forgotten.  The exceptions are the two the code has, each recorded when it
\* happens: a move whose request falls in the crop it disturbs, which clears it
\* at its end (lost); and a coordinate stored between a section's test and its
\* "don't go far", which overwrites it (overwritten): such a layer stays off the
\* screen with need_crop set until the next move.
ShownWhereItIs == lpc = "idle" /\ overwritten = {} =>
  /\ Visible(geo) = Visible(asked)
  /\ ~need_crop /\ ~Cropping /\ ~lost /\ screen => Pixels(b) = Visible(asked)

\* Of the crops that come to their end (~hidden): one during which the position
\* did not move gives parameters that stay in the screen and in the layer's
\* buffer, whatever moved before and after it, and none of them is one the
\* constructor of Blit left unset.  It says nothing of a crop that returned
\* early, which the blit draws all the same: HiddenIsNotDrawn.
DrawsInside == mpc = "draw" /\ ~hidden /\ ~torn
  => /\ b.ready
     /\ \A p \in Pixels(b) : /\ p[1] \in 0 .. ScreenW * ScreenH - 1
                             /\ p[2] \in 0 .. LayerW * LayerH - 1

\* A layer that an undisturbed crop found off the screen and marked hidden is
\* not drawn: the blit reads the mark (include/layer.h:182).  It does not hold.
HiddenIsNotDrawn == mpc = "draw" /\ hidden /\ ~torn => Pixels(b) = {}
=============================================================================
