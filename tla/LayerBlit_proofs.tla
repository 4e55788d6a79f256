-------------------------- MODULE LayerBlit_proofs --------------------------
(***************************************************************************)
(* Proofs about LayerBlit, for a screen and a layer of any size, any       *)
(* positions and any number of blits.                                      *)
(***************************************************************************)
EXTENDS LayerBlit, TLAPS

-----------------------------------------------------------------------------
(* The inductive invariant *)

Position == [x : Int, y : Int]
Blit == [lay_pitch : Int, lay_height : Int, lay_bytepitch : Int,
         lay_stride_up : Int, lay_stride_sx : Int, lay_stride_dx : Int,
         scr_stride_up : Int, scr_stride_sx : Int, scr_stride_dx : Int,
         lay_stride : Int, scr_stride : Int,
         lay_offset : Int, scr_offset : Int, ready : BOOLEAN]

TypeInv ==
  /\ geo \in Position /\ arg \in Int
  /\ asked \in Position /\ overwritten \subseteq {"x", "y"}
  /\ {need_crop, hidden, buffer, listed, screen, changeres, torn, lost} \subseteq BOOLEAN
  /\ lpc \in {"idle", "y", "need"}
  /\ blits \in [Blits -> Blit] /\ current \in Blits
  /\ mpc \in Crop \cup {"idle", "list", "resized", "draw"}
  /\ back \in {"idle", "list", "resized", "draw"}

\* Whoever crops, draws or walks the list has a screen.
ScreenInv == mpc # "idle" \/ listed => screen

\* What is cut off at each border at position g.
CutBottom(g) == Over(g.y + LayerH - ScreenH)
CutLeft(g)   == Over(-g.x)
CutUp(g)     == Over(-g.y)
CutRight(g)  == Over(g.x + LayerW - ScreenW)

\* What each section leaves behind at a position g that does not change meanwhile.
Lefted(p, g) == /\ g.x + LayerW >= 0
                /\ p.lay_stride_sx = CutLeft(g) /\ p.scr_stride_sx = Over(g.x)
Upped(p, g) == /\ g.y + LayerH >= 0
               /\ p.lay_height = LayerH - CutBottom(g) - CutUp(g)
               /\ p.lay_stride_up = CutUp(g) /\ p.scr_stride_up = Over(g.y)
Righted(p, g) == /\ g.x <= ScreenW
                 /\ p.lay_pitch = LayerW - CutLeft(g) - CutRight(g)
                 /\ p.lay_stride_dx = CutRight(g)
                 /\ p.scr_stride_dx = Over(ScreenW - g.x - LayerW)

\* The crop has come thus far at position g.
Stage(p, g) ==
  /\ mpc = "bottom" => p.lay_pitch = LayerW /\ p.lay_height = LayerH
  /\ mpc = "left" => /\ p.lay_pitch = LayerW /\ p.lay_height = LayerH - CutBottom(g)
                     /\ g.y <= ScreenH
  /\ mpc = "up" => /\ p.lay_pitch = LayerW - CutLeft(g)
                   /\ p.lay_height = LayerH - CutBottom(g)
                   /\ g.y <= ScreenH /\ Lefted(p, g)
  /\ mpc = "right" => /\ p.lay_pitch = LayerW - CutLeft(g)
                      /\ g.y <= ScreenH /\ Lefted(p, g) /\ Upped(p, g)
  /\ mpc = "finish" => g.y <= ScreenH /\ Lefted(p, g) /\ Upped(p, g) /\ Righted(p, g)

\* Not beyond a border: the crop goes through.
InRange(g) == /\ g.x + LayerW >= 0 /\ g.x <= ScreenW
              /\ g.y + LayerH >= 0 /\ g.y <= ScreenH

\* What a whole crop at position g leaves behind.
Placed(p, g) ==
  /\ InRange(g) /\ p.ready
  /\ p.lay_height = LayerH - CutBottom(g) - CutUp(g)
  /\ p.lay_pitch = LayerW - CutLeft(g) - CutRight(g)
  /\ p.lay_bytepitch = p.lay_pitch * 4
  /\ p.lay_stride = CutRight(g) + CutLeft(g)
  /\ p.scr_stride = Over(ScreenW - g.x - LayerW) + Over(g.x)
  /\ p.lay_offset = CutLeft(g) + CutUp(g) * LayerW
  /\ p.scr_offset = Over(g.x) + Over(g.y) * ScreenW

\* A crop that nobody disturbed; the last one that nobody disturbed.
CropInv == Cropping /\ ~torn => Stage(b, geo)
DrawInv == ~Cropping /\ ~hidden /\ ~torn /\ screen => \E g \in Position : Placed(b, g)

\* Who disturbed a crop has not asked for another one yet, or has in vain.
TornInv == Cropping /\ mpc # "start" /\ torn /\ lpc = "idle" => lost

\* Where nothing is to be done the layer is where it was placed, and stays in range
\* while it is cropped again.
ShownInv ==
  ~need_crop /\ lpc = "idle" /\ ~lost /\ screen =>
    IF Cropping
    THEN InRange(geo) /\ mpc \notin {"outBottom", "outLeft", "outUp", "outRight"}
    ELSE Placed(b, geo)

\* On one axis, with a layer of l pixels on a screen of s: the position is the one
\* asked for, or both are beyond the same border.
Alike(at, ask, l, s) == \/ at = ask
                        \/ at + l < 0 /\ ask + l < 0
                        \/ at > s /\ ask > s

\* A coordinate that no crop has overwritten is the one asked for, as far as the
\* screen shows: a crop moves it only from beyond a border to beyond that border.
AskedInv == /\ "x" \notin overwritten => Alike(geo.x, asked.x, LayerW, ScreenW)
            /\ "y" \notin overwritten => Alike(geo.y, asked.y, LayerH, ScreenH)

BlitInv == TypeInv /\ ScreenInv /\ CropInv /\ DrawInv /\ TornInv /\ ShownInv /\ AskedInv
-----------------------------------------------------------------------------
(* TypeInv and ScreenInv *)

USE BlitAssumption

LEMMA Sizes == /\ ScreenW \in Nat /\ ScreenH \in Nat /\ LayerW \in Nat /\ LayerH \in Nat
               /\ ScreenW > 0 /\ ScreenH > 0 /\ LayerW > 0 /\ LayerH > 0
OBVIOUS

LEMMA OverType == ASSUME NEW n \in Int PROVE Over(n) \in Int /\ Over(n) >= 0
BY DEF Over

LEMMA BlitType == ASSUME TypeInv PROVE b \in Blit
BY DEF TypeInv, b

\* What Store does, to the current blit and to the others.
LEMMA Stored ==
  ASSUME TypeInv, NEW p \in Blit, Store(p), UNCHANGED current
  PROVE  b' = p /\ blits' \in [Blits -> Blit]
BY DEF TypeInv, Store, b

-----------------------------------------------------------------------------
(* What each part of the crop stores *)

SectionIs(at, out, whenOut, next) ==
  /\ mpc = at
  /\ \/ out /\ mpc' = whenOut /\ UNCHANGED blits
     \/ ~out /\ mpc' = next /\ blits' \in [Blits -> Blit]
  /\ UNCHANGED <<changeres, geo, need_crop, hidden, layerVars, listed, screen, current,
                 back, torn, lost>>

LEMMA CropStartIs ==
  ASSUME TypeInv, CropStart
  PROVE  /\ blits' \in [Blits -> Blit]
         /\ b'.lay_pitch = LayerW /\ b'.lay_height = LayerH
<1> DEFINE p == [b EXCEPT !.lay_pitch = LayerW, !.lay_height = LayerH,
                   !.lay_stride_up = 0, !.lay_stride_sx = 0, !.lay_stride_dx = 0,
                   !.scr_stride_up = 0, !.scr_stride_sx = 0, !.scr_stride_dx = 0]
<1>1. LayerW \in Int /\ LayerH \in Int /\ 0 \in Int
  BY Sizes
<1>2. p \in Blit
  BY <1>1, BlitType, Zenon DEF Blit
<1>3. p.lay_pitch = LayerW /\ p.lay_height = LayerH
  BY BlitType DEF Blit
<1>4. QED
  BY <1>2, <1>3, Stored DEF CropStart

LEMMA BottomIs ==
  ASSUME TypeInv, Bottom
  PROVE  /\ SectionIs("bottom", geo.y > ScreenH, "outBottom", "left")
         /\ geo.y <= ScreenH => /\ b'.lay_pitch = b.lay_pitch
                                /\ b'.lay_height = b.lay_height - CutBottom(geo)
<1> DEFINE over == geo.y + LayerH - ScreenH
           p == [b EXCEPT !.lay_height = @ - Over(over)]
<1>0. b \in Blit /\ geo.y \in Int
  BY BlitType DEF TypeInv, Position
<1>1. Over(over) \in Int /\ b.lay_height - Over(over) \in Int
  BY <1>0, Sizes, OverType DEF Blit
<1>2. p \in Blit
  BY <1>0, <1>1, Zenon DEF Blit
<1>3. p.lay_pitch = b.lay_pitch /\ p.lay_height = b.lay_height - Over(over)
  BY <1>0 DEF Blit
<1>4. geo.y > ScreenH <=> ~(geo.y <= ScreenH)
  BY <1>0, Sizes
<1>5. QED
  BY <1>2, <1>3, <1>4, Stored DEF Bottom, OutBottom, Section, SectionIs, CutBottom

LEMMA LeftIs ==
  ASSUME TypeInv, Left
  PROVE  /\ SectionIs("left", geo.x + LayerW < 0, "outLeft", "up")
         /\ geo.x + LayerW >= 0 =>
              /\ b'.lay_pitch = b.lay_pitch - CutLeft(geo) /\ b'.lay_height = b.lay_height
              /\ b'.lay_stride_sx = CutLeft(geo) /\ b'.scr_stride_sx = Over(geo.x)
<1> DEFINE p == [b EXCEPT !.lay_stride_sx = Over(-geo.x), !.lay_pitch = @ - Over(-geo.x),
                          !.scr_stride_sx = Over(geo.x)]
<1>0. b \in Blit /\ geo.x \in Int
  BY BlitType DEF TypeInv, Position
<1>1. Over(-geo.x) \in Int /\ Over(geo.x) \in Int /\ b.lay_pitch - Over(-geo.x) \in Int
  BY <1>0, OverType DEF Blit
<1>2. p \in Blit
  BY <1>0, <1>1, Zenon DEF Blit
<1>3. /\ p.lay_pitch = b.lay_pitch - Over(-geo.x) /\ p.lay_height = b.lay_height
      /\ p.lay_stride_sx = Over(-geo.x) /\ p.scr_stride_sx = Over(geo.x)
  BY <1>0 DEF Blit
<1>4. geo.x + LayerW < 0 <=> ~(geo.x + LayerW >= 0)
  BY <1>0, Sizes
<1>5. QED
  BY <1>2, <1>3, <1>4, Stored DEF Left, OutLeft, Section, SectionIs, CutLeft

LEMMA UpIs ==
  ASSUME TypeInv, Up
  PROVE  /\ SectionIs("up", geo.y + LayerH < 0, "outUp", "right")
         /\ geo.y + LayerH >= 0 =>
              /\ b'.lay_height = b.lay_height - CutUp(geo) /\ b'.lay_pitch = b.lay_pitch
              /\ b'.lay_stride_up = CutUp(geo) /\ b'.scr_stride_up = Over(geo.y)
              /\ b'.lay_stride_sx = b.lay_stride_sx /\ b'.scr_stride_sx = b.scr_stride_sx
<1> DEFINE p == [b EXCEPT !.lay_stride_up = Over(-geo.y), !.lay_height = @ - Over(-geo.y),
                          !.scr_stride_up = Over(geo.y)]
<1>0. b \in Blit /\ geo.y \in Int
  BY BlitType DEF TypeInv, Position
<1>1. Over(-geo.y) \in Int /\ Over(geo.y) \in Int /\ b.lay_height - Over(-geo.y) \in Int
  BY <1>0, OverType DEF Blit
<1>2. p \in Blit
  BY <1>0, <1>1, Zenon DEF Blit
<1>3. /\ p.lay_height = b.lay_height - Over(-geo.y) /\ p.lay_pitch = b.lay_pitch
      /\ p.lay_stride_up = Over(-geo.y) /\ p.scr_stride_up = Over(geo.y)
      /\ p.lay_stride_sx = b.lay_stride_sx /\ p.scr_stride_sx = b.scr_stride_sx
  BY <1>0 DEF Blit
<1>4. geo.y + LayerH < 0 <=> ~(geo.y + LayerH >= 0)
  BY <1>0, Sizes
<1>5. QED
  BY <1>2, <1>3, <1>4, Stored DEF Up, OutUp, Section, SectionIs, CutUp

LEMMA RightIs ==
  ASSUME TypeInv, Right
  PROVE  /\ SectionIs("right", geo.x > ScreenW, "outRight", "finish")
         /\ geo.x <= ScreenW =>
              /\ b'.lay_pitch = b.lay_pitch - CutRight(geo) /\ b'.lay_height = b.lay_height
              /\ b'.lay_stride_dx = CutRight(geo)
              /\ b'.scr_stride_dx = Over(ScreenW - geo.x - LayerW)
              /\ b'.lay_stride_up = b.lay_stride_up /\ b'.scr_stride_up = b.scr_stride_up
              /\ b'.lay_stride_sx = b.lay_stride_sx /\ b'.scr_stride_sx = b.scr_stride_sx
<1> DEFINE over == geo.x + LayerW - ScreenW
           p == [b EXCEPT !.lay_pitch = @ - Over(over), !.lay_stride_dx = Over(over),
                          !.scr_stride_dx = Over(-over)]
<1>0. /\ b \in Blit /\ geo.x \in Int /\ over \in Int /\ -over \in Int
      /\ -over = ScreenW - geo.x - LayerW
  BY BlitType, Sizes DEF TypeInv, Position
<1> HIDE DEF over
<1>1. Over(over) \in Int /\ Over(-over) \in Int /\ b.lay_pitch - Over(over) \in Int
  BY <1>0, OverType DEF Blit
<1>2. p \in Blit
  BY <1>0, <1>1, Zenon DEF Blit
<1>3. /\ p.lay_pitch = b.lay_pitch - Over(over) /\ p.lay_height = b.lay_height
      /\ p.lay_stride_dx = Over(over) /\ p.scr_stride_dx = Over(-over)
      /\ p.lay_stride_up = b.lay_stride_up /\ p.scr_stride_up = b.scr_stride_up
      /\ p.lay_stride_sx = b.lay_stride_sx /\ p.scr_stride_sx = b.scr_stride_sx
  BY <1>0 DEF Blit
<1>4. geo.x > ScreenW <=> ~(geo.x <= ScreenW)
  BY <1>0, Sizes
<1>5. SectionIs("right", geo.x > ScreenW, "outRight", "finish")
      /\ (geo.x <= ScreenW => b' = p)
  BY <1>2, <1>4, Stored DEF Right, OutRight, Section, SectionIs, over
<1>6. CutRight(geo) = Over(over) /\ Over(ScreenW - geo.x - LayerW) = Over(-over)
  BY <1>0 DEF CutRight, over
<1>7. QED
  BY <1>3, <1>5, <1>6

LEMMA FinishIs ==
  ASSUME TypeInv, Finish
  PROVE  /\ blits' \in [Blits -> Blit]
         /\ b'.ready
         /\ b'.lay_height = b.lay_height /\ b'.lay_pitch = b.lay_pitch
         /\ b'.lay_bytepitch = b.lay_pitch * 4
         /\ b'.lay_stride = b.lay_stride_dx + b.lay_stride_sx
         /\ b'.scr_stride = b.scr_stride_dx + b.scr_stride_sx
         /\ b'.lay_offset = b.lay_stride_sx + b.lay_stride_up * LayerW
         /\ b'.scr_offset = b.scr_stride_sx + b.scr_stride_up * ScreenW
<1> DEFINE p == [b EXCEPT !.lay_stride = b.lay_stride_dx + b.lay_stride_sx,
                   !.lay_offset = b.lay_stride_sx + b.lay_stride_up * LayerW,
                   !.scr_stride = b.scr_stride_dx + b.scr_stride_sx,
                   !.scr_offset = b.scr_stride_sx + b.scr_stride_up * ScreenW,
                   !.lay_bytepitch = b.lay_pitch * 4, !.ready = TRUE]
<1>1. /\ b.lay_stride_dx + b.lay_stride_sx \in Int
      /\ b.lay_stride_sx + b.lay_stride_up * LayerW \in Int
      /\ b.scr_stride_dx + b.scr_stride_sx \in Int
      /\ b.scr_stride_sx + b.scr_stride_up * ScreenW \in Int
      /\ b.lay_pitch * 4 \in Int /\ TRUE \in BOOLEAN
  BY BlitType, Sizes DEF Blit
<1>2. p \in Blit
  BY <1>1, BlitType, Zenon DEF Blit
<1>3. /\ p.ready
      /\ p.lay_height = b.lay_height /\ p.lay_pitch = b.lay_pitch
      /\ p.lay_bytepitch = b.lay_pitch * 4
      /\ p.lay_stride = b.lay_stride_dx + b.lay_stride_sx
      /\ p.scr_stride = b.scr_stride_dx + b.scr_stride_sx
      /\ p.lay_offset = b.lay_stride_sx + b.lay_stride_up * LayerW
      /\ p.scr_offset = b.scr_stride_sx + b.scr_stride_up * ScreenW
  BY BlitType, Zenon DEF Blit
<1>4. QED
  BY <1>2, <1>3, Stored DEF Finish

LEMMA TypeStep ==
  ASSUME TypeInv, [Next]_vars PROVE TypeInv'
<1>1. CASE LayerThread
  <2>1. \A n \in Int : /\ [geo EXCEPT !.x = n] \in Position /\ [geo EXCEPT !.y = n] \in Position
                       /\ [asked EXCEPT !.x = n] \in Position
                       /\ [asked EXCEPT !.y = n] \in Position
    BY DEF TypeInv, Position
  <2>2. CASE StoreX
    <3>1. PICK m \in Moves : /\ arg' = m.y /\ geo' = [geo EXCEPT !.x = m.x]
                             /\ asked' = [asked EXCEPT !.x = m.x]
      BY <2>2 DEF StoreX
    <3>2. geo' \in Position /\ asked' \in Position /\ arg' \in Int
      BY <2>1, <3>1
    <3>3. QED
      BY <2>2, <3>2 DEF TypeInv, StoreX, Cropping
  <2>3. CASE StoreY
    <3>1. geo' \in Position /\ asked' \in Position /\ arg' = 0
      BY <2>1, <2>3 DEF TypeInv, StoreY
    <3>2. QED
      BY <2>3, <3>1 DEF TypeInv, StoreY, Cropping
  <2>4. CASE RequestCrop \/ Feed
    BY <2>4 DEF TypeInv, RequestCrop, Feed, Cropping
  <2>5. QED
    BY <1>1, <2>2, <2>3, <2>4 DEF LayerThread
<1>2. CASE Script
  <2>1. NewBlit \in Blit
    BY DEF NewBlit, Blit
  <2>2. QED
    BY <1>2, <2>1 DEF TypeInv, Script, AddLayer, Enlist, SetBlit, RemLayer, Reset, Resize,
                      BeginCrop, layerVars, Crop
<1>3. CASE HandleResize \/ Frame \/ NoFrame \/ Draw
  BY <1>3 DEF TypeInv, HandleResize, Frame, NoFrame, Draw, BeginCrop, layerVars, Crop
<1>4. CASE CropStart
  BY <1>4, CropStartIs DEF TypeInv, CropStart, layerVars, Crop
<1>5. CASE Bottom \/ Left \/ Up \/ Right
  BY <1>5, BottomIs, LeftIs, UpIs, RightIs DEF TypeInv, SectionIs, layerVars, Crop
<1>6. CASE Clamp
  <2>1. \A far \in Int : /\ [geo EXCEPT !["x"] = far] \in Position
                         /\ [geo EXCEPT !["y"] = far] \in Position
    BY DEF TypeInv, Position
  <2>2. /\ ScreenH + 1 \in Int /\ -(LayerW + 1) \in Int
        /\ -(LayerH + 1) \in Int /\ ScreenW + 1 \in Int
    BY Sizes
  <2>3. geo' \in Position
    BY <1>6, <2>1, <2>2 DEF Clamp, OutOfScreen
  <2>4. QED
    BY <1>6, <2>3 DEF TypeInv, Clamp, OutOfScreen, layerVars, Crop
<1>7. CASE Finish
  BY <1>7, FinishIs DEF TypeInv, Finish, layerVars, Crop
<1>8. CASE UNCHANGED vars
  BY <1>8 DEF TypeInv, vars
<1>9. QED
  BY <1>1, <1>2, <1>3, <1>4, <1>5, <1>6, <1>7, <1>8 DEF Next, Engine, CropSteps

LEMMA ScreenStep ==
  ASSUME TypeInv, ScreenInv, [Next]_vars PROVE ScreenInv'
<1> USE DEF ScreenInv, TypeInv
<1>1. CASE LayerThread
  BY <1>1 DEF LayerThread, StoreX, StoreY, RequestCrop, Feed
<1>2. CASE Script
  BY <1>2 DEF Script, AddLayer, Enlist, SetBlit, RemLayer, Reset, Resize, BeginCrop
<1>3. CASE HandleResize \/ Frame \/ NoFrame \/ Draw
  BY <1>3 DEF HandleResize, Frame, NoFrame, Draw, BeginCrop
<1>4. CASE CropSteps
  BY <1>4 DEF CropSteps, CropStart, Bottom, Left, Up, Right, Clamp, Finish, Section, OutOfScreen
<1>5. CASE UNCHANGED vars
  BY <1>5 DEF vars
<1>6. QED
  BY <1>1, <1>2, <1>3, <1>4, <1>5 DEF Next, Engine

-----------------------------------------------------------------------------
(* The parameters that an undisturbed crop leaves *)

\* Outside the crop's own steps the parameters of the current blit are kept, or a
\* crop begins.
LEMMA Kept ==
  ASSUME TypeInv,
         LayerThread \/ Script \/ HandleResize \/ Frame \/ NoFrame \/ Draw \/ UNCHANGED vars
  PROVE  (b' = b /\ UNCHANGED <<blits, current>>) \/ mpc' = "start"
<1>1. CASE LayerThread
  BY <1>1 DEF LayerThread, StoreX, StoreY, RequestCrop, Feed, b
<1>2. CASE Script
  BY <1>2 DEF Script, AddLayer, Enlist, SetBlit, RemLayer, Reset, Resize, BeginCrop, b
<1>3. CASE HandleResize \/ Frame \/ NoFrame \/ Draw
  BY <1>3 DEF HandleResize, Frame, NoFrame, Draw, BeginCrop, b
<1>4. CASE UNCHANGED vars
  BY <1>4 DEF vars, b
<1>5. QED
  BY <1>1, <1>2, <1>3, <1>4

\* Of these, only the layer's thread takes a step within a crop.
LEMMA WithinCrop ==
  ASSUME TypeInv,
         LayerThread \/ Script \/ HandleResize \/ Frame \/ NoFrame \/ Draw \/ UNCHANGED vars
  PROVE  \/ mpc' = "start" \/ mpc' \notin Crop
         \/ mpc' = mpc /\ (UNCHANGED <<geo, torn>> \/ torn')
<1>1. CASE LayerThread
  BY <1>1 DEF LayerThread, StoreX, StoreY, RequestCrop, Feed, Cropping
<1>2. CASE Script
  BY <1>2 DEF Script, AddLayer, Enlist, SetBlit, RemLayer, Reset, Resize, BeginCrop, Crop
<1>3. CASE HandleResize \/ Frame \/ NoFrame \/ Draw
  BY <1>3 DEF HandleResize, Frame, NoFrame, Draw, BeginCrop, Crop
<1>4. CASE UNCHANGED vars
  BY <1>4 DEF vars
<1>5. QED
  BY <1>1, <1>2, <1>3, <1>4

LEMMA CropStep ==
  ASSUME TypeInv, CropInv, [Next]_vars PROVE CropInv'
<1>1. CASE LayerThread \/ Script \/ HandleResize \/ Frame \/ NoFrame \/ Draw \/ UNCHANGED vars
  <2>1. SUFFICES ASSUME mpc' \in Crop, mpc' # "start", ~torn' PROVE Stage(b, geo)'
    BY DEF CropInv, Cropping, Stage
  <2>2. b' = b /\ mpc' = mpc /\ UNCHANGED <<geo, torn>>
    BY <1>1, <2>1, Kept, WithinCrop DEF TypeInv
  <2>3. Stage(b, geo)
    BY <2>1, <2>2 DEF CropInv, Cropping
  <2>4. QED
    BY <2>2, <2>3 DEF Stage, Lefted, Upped, Righted, CutBottom, CutLeft, CutUp, CutRight
<1>2. CASE CropStart
  <2>1. b'.lay_pitch = LayerW /\ b'.lay_height = LayerH /\ mpc' = "bottom"
    BY <1>2, CropStartIs DEF CropStart
  <2>2. QED
    BY <2>1 DEF CropInv, Stage
<1>3. CASE Bottom \/ Left \/ Up \/ Right
  <2> SUFFICES ASSUME ~torn' PROVE Stage(b, geo)'
    BY DEF CropInv
  <2>1. geo' = geo /\ ~torn /\ mpc \in Crop
    BY <1>3, BottomIs, LeftIs, UpIs, RightIs DEF SectionIs, Crop
  <2>2. Stage(b, geo)
    BY <2>1 DEF CropInv, Cropping
  <2>3. geo.x \in Int /\ geo.y \in Int
    BY DEF TypeInv, Position
  <2>4. CASE Bottom
    <3>1. mpc' = "outBottom" \/ (mpc' = "left" /\ geo.y <= ScreenH)
      BY <2>3, <2>4, BottomIs, Sizes DEF SectionIs
    <3>2. QED
      BY <2>1, <2>2, <2>4, <3>1, BottomIs DEF SectionIs, Stage, CutBottom
  <2>5. CASE Left
    <3>1. mpc' = "outLeft" \/ (mpc' = "up" /\ geo.x + LayerW >= 0)
      BY <2>3, <2>5, LeftIs, Sizes DEF SectionIs
    <3>2. QED
      BY <2>1, <2>2, <2>5, <3>1, LeftIs DEF SectionIs, Stage, Lefted, CutBottom, CutLeft
  <2>6. CASE Up
    <3>1. mpc' = "outUp" \/ (mpc' = "right" /\ geo.y + LayerH >= 0)
      BY <2>3, <2>6, UpIs, Sizes DEF SectionIs
    <3>2. QED
      BY <2>1, <2>2, <2>6, <3>1, UpIs
         DEF SectionIs, Stage, Lefted, Upped, CutBottom, CutLeft, CutUp
  <2>7. CASE Right
    <3>1. mpc' = "outRight" \/ (mpc' = "finish" /\ geo.x <= ScreenW)
      BY <2>3, <2>7, RightIs, Sizes DEF SectionIs
    <3>2. QED
      BY <2>1, <2>2, <2>7, <3>1, RightIs
         DEF SectionIs, Stage, Lefted, Upped, Righted, CutBottom, CutLeft, CutUp, CutRight
  <2>8. QED
    BY <1>3, <2>4, <2>5, <2>6, <2>7
<1>4. CASE Clamp \/ Finish
  BY <1>4 DEF TypeInv, CropInv, Cropping, Clamp, OutOfScreen, Finish, Crop
<1>5. QED
  BY <1>1, <1>2, <1>3, <1>4 DEF Next, Engine, CropSteps

LEMMA FinishPlaces ==
  ASSUME TypeInv, CropInv, Finish, ~torn PROVE Placed(b', geo)
<1>1. Stage(b, geo) /\ mpc = "finish"
  BY DEF CropInv, Finish, Cropping, Crop
<1>2. QED
  BY <1>1, FinishIs DEF Stage, Lefted, Upped, Righted, Placed, InRange

LEMMA DrawStep ==
  ASSUME TypeInv, CropInv, DrawInv, [Next]_vars PROVE DrawInv'
<1> SUFFICES ASSUME ~Cropping', ~hidden', ~torn', screen'
             PROVE  \E g \in Position : Placed(b', g)
  BY DEF DrawInv, Placed, InRange, CutBottom, CutLeft, CutUp, CutRight
<1>1. CASE LayerThread \/ Script \/ HandleResize \/ Frame \/ NoFrame \/ Draw \/ UNCHANGED vars
  <2>1. b' = b
    BY <1>1, Kept DEF Cropping, Crop
  <2>2. ~Cropping /\ ~hidden /\ ~torn /\ screen
    <3>1. CASE LayerThread
      <4>1. UNCHANGED <<mpc, hidden, screen>> /\ (torn' = torn \/ torn' = (torn \/ Cropping))
        BY <3>1 DEF LayerThread, StoreX, StoreY, RequestCrop, Feed
      <4>2. QED
        BY <4>1 DEF Cropping, TypeInv
    <3>2. CASE Script
      <4>1. mpc' \notin Crop /\ screen'
        BY DEF Cropping
      <4>2. mpc \notin Crop /\ UNCHANGED <<hidden, screen, torn>>
        BY <3>2, <4>1 DEF Script, AddLayer, Enlist, SetBlit, RemLayer, Reset, Resize,
                          BeginCrop, Crop
      <4>3. QED
        BY <4>2 DEF Cropping
    <3>3. CASE HandleResize \/ Frame \/ NoFrame \/ Draw
      <4>1. mpc \notin Crop /\ UNCHANGED <<hidden, screen, torn>>
        BY <3>3 DEF HandleResize, Frame, NoFrame, Draw, BeginCrop, Crop
      <4>2. QED
        BY <4>1 DEF Cropping
    <3>4. CASE UNCHANGED vars
      BY <3>4 DEF vars, Cropping
    <3>5. QED
      BY <1>1, <3>1, <3>2, <3>3, <3>4
  <2>3. QED
    BY <2>1, <2>2 DEF DrawInv
<1>2. CASE CropStart \/ Bottom \/ Left \/ Up \/ Right
  BY <1>2, BottomIs, LeftIs, UpIs, RightIs DEF CropStart, SectionIs, Cropping, Crop
<1>3. CASE Clamp
  BY <1>3 DEF Clamp, OutOfScreen
<1>4. CASE Finish
  <2>1. Placed(b', geo) /\ geo \in Position
    BY <1>4, FinishPlaces DEF Finish, TypeInv
  <2>2. QED
    BY <2>1
<1>5. QED
  BY <1>1, <1>2, <1>3, <1>4 DEF Next, Engine, CropSteps

LEMMA TornStep ==
  ASSUME TypeInv, TornInv, [Next]_vars PROVE TornInv'
<1> USE DEF TornInv, Cropping, Crop
<1>1. CASE LayerThread
  BY <1>1 DEF LayerThread, StoreX, StoreY, RequestCrop, Feed
<1>2. CASE Script
  BY <1>2 DEF Script, AddLayer, Enlist, SetBlit, RemLayer, Reset, Resize, BeginCrop
<1>3. CASE HandleResize \/ Frame \/ NoFrame \/ Draw
  BY <1>3 DEF HandleResize, Frame, NoFrame, Draw, BeginCrop
<1>4. CASE CropStart
  BY <1>4 DEF CropStart
<1>5. CASE Bottom \/ Left \/ Up \/ Right
  BY <1>5, BottomIs, LeftIs, UpIs, RightIs DEF SectionIs, layerVars
<1>6. CASE Clamp \/ Finish
  BY <1>6 DEF TypeInv, Clamp, OutOfScreen, Finish
<1>7. CASE UNCHANGED vars
  BY <1>7 DEF vars
<1>8. QED
  BY <1>1, <1>2, <1>3, <1>4, <1>5, <1>6, <1>7 DEF Next, Engine, CropSteps

LEMMA ShownStep ==
  ASSUME TypeInv, ScreenInv, CropInv, TornInv, ShownInv, [Next]_vars PROVE ShownInv'
<1> DEFINE Gone == {"outBottom", "outLeft", "outUp", "outRight"}
<1> SUFFICES ASSUME ~need_crop', lpc' = "idle", ~lost', screen'
             PROVE  IF Cropping' THEN InRange(geo') /\ mpc' \notin Gone ELSE Placed(b', geo')
  BY DEF ShownInv, Placed, InRange, CutBottom, CutLeft, CutUp, CutRight
<1>1. CASE LayerThread
  <2>1. Feed
    BY <1>1 DEF LayerThread, StoreX, StoreY, RequestCrop
  <2>2. b' = b /\ Cropping' = Cropping /\ UNCHANGED <<geo, mpc, need_crop, lpc, lost, screen>>
    BY <2>1 DEF Feed, b, Cropping
  <2>3. QED
    BY <2>2 DEF ShownInv
<1>2. CASE Script
  <2>1. Enlist \/ Reset \/ Resize
    BY <1>2 DEF Script, AddLayer, SetBlit, RemLayer
  <2>2. /\ b' = b /\ ~Cropping /\ ~Cropping'
        /\ UNCHANGED <<geo, need_crop, lpc, lost, screen>>
    BY <2>1 DEF Enlist, Reset, Resize, b, Cropping, Crop, layerVars
  <2>3. QED
    BY <2>2 DEF ShownInv
<1>3. CASE HandleResize \/ Frame \/ NoFrame \/ Draw
  <2>1. /\ b' = b /\ ~Cropping /\ UNCHANGED <<geo, need_crop, lpc, lost, screen>>
        /\ mpc' \notin Gone
    BY <1>3 DEF HandleResize, Frame, NoFrame, Draw, BeginCrop, b, Cropping, Crop, layerVars
  <2>2. QED
    BY <2>1 DEF ShownInv, Placed
<1>4. CASE CropStart
  <2>1. /\ Cropping /\ Cropping' /\ UNCHANGED <<geo, need_crop, lpc, lost, screen>>
        /\ mpc' \notin Gone
    BY <1>4 DEF CropStart, Cropping, Crop, layerVars
  <2>2. QED
    BY <2>1 DEF ShownInv
<1>5. CASE Bottom \/ Left \/ Up \/ Right
  <2>1. /\ Cropping /\ Cropping' /\ UNCHANGED <<geo, need_crop, lpc, lost, screen>>
    BY <1>5, BottomIs, LeftIs, UpIs, RightIs DEF SectionIs, Cropping, Crop, layerVars
  <2>2. InRange(geo) /\ geo.x \in Int /\ geo.y \in Int
    BY <2>1 DEF ShownInv, TypeInv, Position
  <2>3. /\ ~(geo.y > ScreenH) /\ ~(geo.x + LayerW < 0)
        /\ ~(geo.y + LayerH < 0) /\ ~(geo.x > ScreenW)
    BY <2>2, Sizes DEF InRange
  <2>4. mpc' \notin Gone
    BY <1>5, <2>3, BottomIs, LeftIs, UpIs, RightIs DEF SectionIs
  <2>5. QED
    BY <2>1, <2>2, <2>4
<1>6. CASE Clamp
  <2>1. Cropping /\ mpc \in Gone /\ UNCHANGED <<need_crop, lpc, lost, screen>>
    BY <1>6 DEF Clamp, OutOfScreen, Cropping, Crop, layerVars
  <2>2. QED
    BY <2>1 DEF ShownInv
<1>7. CASE Finish
  <2>1. ~torn
    BY <1>7 DEF Finish, TornInv, Cropping, Crop, layerVars
  <2>2. Placed(b', geo) /\ geo' = geo /\ ~Cropping'
    BY <1>7, <2>1, FinishPlaces DEF Finish, TypeInv, Cropping, Crop
  <2>3. QED
    BY <2>2
<1>8. CASE UNCHANGED vars
  BY <1>8 DEF vars, ShownInv, b, Cropping
<1>9. QED
  BY <1>1, <1>2, <1>3, <1>4, <1>5, <1>6, <1>7, <1>8 DEF Next, Engine, CropSteps

LEMMA AskedStep ==
  ASSUME TypeInv, AskedInv, [Next]_vars PROVE AskedInv'
<1> USE DEF AskedInv, Alike
<1>0. geo \in Position /\ asked \in Position
  BY DEF TypeInv
<1>1. CASE StoreX
  <2>1. PICK m \in Moves : geo' = [geo EXCEPT !.x = m.x] /\ asked' = [asked EXCEPT !.x = m.x]
    BY <1>1 DEF StoreX
  <2>2. geo'.x = asked'.x /\ geo'.y = geo.y /\ asked'.y = asked.y
    BY <1>0, <2>1 DEF Position
  <2>3. QED
    BY <1>1, <2>2 DEF StoreX
<1>2. CASE StoreY
  <2>1. geo'.y = asked'.y /\ geo'.x = geo.x /\ asked'.x = asked.x
    BY <1>0, <1>2 DEF StoreY, Position
  <2>2. QED
    BY <1>2, <2>1 DEF StoreY
<1>3. CASE RequestCrop \/ Feed \/ Script
  BY <1>3 DEF RequestCrop, Feed, Script, AddLayer, Enlist, SetBlit, RemLayer, Reset, Resize,
              layerVars
<1>4. CASE HandleResize \/ Frame \/ NoFrame \/ Draw \/ CropStart \/ Finish
  BY <1>4 DEF HandleResize, Frame, NoFrame, Draw, CropStart, Finish, layerVars
<1>5. CASE Bottom \/ Left \/ Up \/ Right
  BY <1>5, BottomIs, LeftIs, UpIs, RightIs DEF SectionIs, layerVars
<1>6. CASE OutOfScreen("outBottom", OutBottom, "y", ScreenH + 1)
           \/ OutOfScreen("outUp", OutUp, "y", -(LayerH + 1))
  <2>1. geo'.x = geo.x /\ (geo'.y = ScreenH + 1 \/ geo'.y = -(LayerH + 1)) /\ asked' = asked
    BY <1>0, <1>6 DEF OutOfScreen, Position
  <2>2. "y" \notin overwritten' =>
          /\ overwritten' = overwritten
          /\ \/ geo'.y = ScreenH + 1 /\ geo.y > ScreenH
             \/ geo'.y = -(LayerH + 1) /\ geo.y + LayerH < 0
    BY <1>0, <1>6 DEF OutOfScreen, OutBottom, OutUp, Position
  <2>3. "x" \notin overwritten' => "x" \notin overwritten
    BY <1>6 DEF OutOfScreen
  <2>4. "y" \notin overwritten' => Alike(geo'.y, asked'.y, LayerH, ScreenH)
    BY <1>0, <2>1, <2>2, Sizes DEF Position
  <2>5. QED
    BY <2>1, <2>3, <2>4
<1>7. CASE OutOfScreen("outLeft", OutLeft, "x", -(LayerW + 1))
           \/ OutOfScreen("outRight", OutRight, "x", ScreenW + 1)
  <2>1. geo'.y = geo.y /\ (geo'.x = ScreenW + 1 \/ geo'.x = -(LayerW + 1)) /\ asked' = asked
    BY <1>0, <1>7 DEF OutOfScreen, Position
  <2>2. "x" \notin overwritten' =>
          /\ overwritten' = overwritten
          /\ \/ geo'.x = ScreenW + 1 /\ geo.x > ScreenW
             \/ geo'.x = -(LayerW + 1) /\ geo.x + LayerW < 0
    BY <1>0, <1>7 DEF OutOfScreen, OutLeft, OutRight, Position
  <2>3. "y" \notin overwritten' => "y" \notin overwritten
    BY <1>7 DEF OutOfScreen
  <2>4. "x" \notin overwritten' => Alike(geo'.x, asked'.x, LayerW, ScreenW)
    BY <1>0, <2>1, <2>2, Sizes DEF Position
  <2>5. QED
    BY <2>1, <2>3, <2>4
<1>8. CASE UNCHANGED vars
  BY <1>8 DEF vars
<1>9. QED
  BY <1>1, <1>2, <1>3, <1>4, <1>5, <1>6, <1>7, <1>8
  DEF Next, LayerThread, Engine, CropSteps, Clamp

LEMMA InitInv == Init => BlitInv
<1> SUFFICES ASSUME Init PROVE BlitInv
  OBVIOUS
<1>1. NewBlit \in Blit
  BY DEF NewBlit, Blit
<1>2. [x |-> 0, y |-> 0] \in Position /\ [c \in Blits |-> NewBlit] \in [Blits -> Blit]
  BY <1>1 DEF Position
<1>3. TypeInv
  <2>1. /\ geo \in Position /\ asked \in Position /\ overwritten = {}
        /\ blits \in [Blits -> Blit] /\ current \in Blits
    BY <1>2 DEF Init
  <2>2. {need_crop, hidden, buffer, listed, screen, changeres, torn, lost} \subseteq BOOLEAN
    BY Zenon DEF Init
  <2>3. arg \in Int /\ lpc = "idle" /\ mpc = "idle" /\ back = "idle"
    BY DEF Init
  <2>4. QED
    BY <2>1, <2>2, <2>3 DEF TypeInv
<1>4. QED
  BY <1>3 DEF Init, BlitInv, ScreenInv, CropInv, DrawInv, TornInv, ShownInv, AskedInv, Alike,
              Cropping, Crop

\* The inductive invariant.
THEOREM BlitInvariant == Spec => []BlitInv
<1>1. BlitInv /\ [Next]_vars => BlitInv'
  BY TypeStep, ScreenStep, CropStep, DrawStep, TornStep, ShownStep, AskedStep DEF BlitInv
<1>2. QED
  BY InitInv, <1>1, PTL DEF Spec

-----------------------------------------------------------------------------
(* What is drawn *)

LEMMA Distributes == \A i, k, n \in Int : (i + k) * n = i * n + k * n
OBVIOUS

\* Row by row and column by column, a blit that is placed at g copies the part of
\* the layer that is visible there.
LEMMA PlacedShows ==
  ASSUME NEW g \in Position, NEW p \in Blit, Placed(p, g)
  PROVE  Pixels(p) = Visible(g)
<1>1. PICK x \in Int, y \in Int : g.x = x /\ g.y = y
  BY DEF Position
<1> DEFINE Rows == {r \in 0 .. LayerH - 1 : y + r \in 0 .. ScreenH - 1}
           Columns == {k \in 0 .. LayerW - 1 : x + k \in 0 .. ScreenW - 1}
           Shown(r, k) == <<(y + r) * ScreenW + x + k, r * LayerW + k>>
           Copied(row, c) == <<p.scr_offset + row * (p.scr_stride + p.lay_pitch) + c,
                               p.lay_offset + row * (p.lay_stride + p.lay_pitch) + c>>
           cx == Over(-x)
           cy == Over(-y)
           w == LayerW - cx - Over(x + LayerW - ScreenW)
           h == LayerH - cy - Over(y + LayerH - ScreenH)
<1>2. /\ cx \in Int /\ cy \in Int /\ w \in Int /\ h \in Int
      /\ Over(x) = x + cx /\ Over(y) = y + cy
  BY Sizes DEF Over
<1>3. /\ x + LayerW >= 0 /\ x <= ScreenW /\ y + LayerH >= 0 /\ y <= ScreenH
  BY <1>1 DEF Placed, InRange
<1>4. p.lay_pitch = w /\ p.lay_height = h
  <2>1. p.lay_height = LayerH - Over(y + LayerH - ScreenH) - Over(-y)
    BY <1>1 DEF Placed, CutBottom, CutUp
  <2>2. LayerH - Over(y + LayerH - ScreenH) - Over(-y) = h
    BY Sizes, OverType
  <2>3. p.lay_pitch = w
    BY <1>1 DEF Placed, CutLeft, CutRight
  <2>4. QED
    BY <2>1, <2>2, <2>3
<1>5. p.scr_stride + w = ScreenW /\ p.lay_stride + w = LayerW
  <2>1. /\ Over(ScreenW - x - LayerW) + Over(x) + w = ScreenW
        /\ Over(x + LayerW - ScreenW) + cx + w = LayerW
    BY <1>3, Sizes DEF Over
  <2>2. /\ p.scr_stride = Over(ScreenW - x - LayerW) + Over(x)
        /\ p.lay_stride = Over(x + LayerW - ScreenW) + cx
    BY <1>1 DEF Placed, CutLeft, CutRight
  <2>3. QED
    BY <2>1, <2>2
<1>6. p.scr_offset = x + cx + (y + cy) * ScreenW /\ p.lay_offset = cx + cy * LayerW
  BY <1>1, <1>2 DEF Placed, CutLeft, CutUp
<1>7. p.lay_bytepitch \div 4 = w
  BY <1>2, <1>4 DEF Placed
<1>8. \A k \in Int : k \in Columns <=> k - cx \in 0 .. w - 1
  BY <1>3, Sizes DEF Over
<1>9. \A r \in Int : r \in Rows <=> r - cy \in 0 .. h - 1
  BY <1>3, Sizes DEF Over
<1> HIDE DEF cx, cy, w, h
<1>10. ASSUME NEW r \in Int, NEW k \in Int PROVE Copied(r - cy, k - cx) = Shown(r, k)
  <2>1. /\ (y + cy) * ScreenW + (r - cy) * ScreenW = (y + r) * ScreenW
        /\ cy * LayerW + (r - cy) * LayerW = r * LayerW
    BY <1>2, Sizes, Distributes
  <2>2. /\ (r - cy) * ScreenW \in Int /\ (y + cy) * ScreenW \in Int /\ cy * LayerW \in Int
        /\ (r - cy) * LayerW \in Int /\ (y + r) * ScreenW \in Int /\ r * LayerW \in Int
    BY <1>2, Sizes
  <2>3. p.scr_offset + (r - cy) * ScreenW + (k - cx) = (y + r) * ScreenW + x + k
    BY <1>2, <1>6, <2>1, <2>2
  <2>4. p.lay_offset + (r - cy) * LayerW + (k - cx) = r * LayerW + k
    BY <1>2, <1>6, <2>1, <2>2
  <2>5. QED
    BY <1>4, <1>5, <2>3, <2>4
<1> HIDE DEF Rows, Columns, Shown, Copied
<1>11. Pixels(p) = {Copied(row, c) : row \in 0 .. h - 1, c \in 0 .. w - 1}
  BY <1>4, <1>7 DEF Pixels, Copied
<1>12. Visible(g) = {Shown(r, k) : r \in Rows, k \in Columns}
  BY <1>1 DEF Visible, Shown, Rows, Columns
<1>13. ASSUME NEW row \in 0 .. h - 1, NEW c \in 0 .. w - 1 PROVE Copied(row, c) \in Visible(g)
  <2>1. /\ row + cy \in Int /\ c + cx \in Int
        /\ (row + cy) - cy = row /\ (c + cx) - cx = c
    BY <1>2
  <2>2. row + cy \in Rows /\ c + cx \in Columns
    BY <1>8, <1>9, <2>1
  <2>3. Copied(row, c) = Shown(row + cy, c + cx)
    BY <1>10, <2>1
  <2>4. QED
    BY <1>12, <2>2, <2>3
<1>14. ASSUME NEW r \in Rows, NEW k \in Columns PROVE Shown(r, k) \in Pixels(p)
  <2>1. r \in Int /\ k \in Int
    BY DEF Rows, Columns
  <2>2. QED
    BY <1>8, <1>9, <1>10, <1>11, <2>1
<1>15. QED
  BY <1>11, <1>12, <1>13, <1>14

\* A place in a row of a block lies in the block.
LEMMA InBlock ==
  ASSUME NEW w \in Nat, NEW h \in Nat, NEW x \in 0 .. w - 1, NEW y \in 0 .. h - 1
  PROVE  y * w + x \in 0 .. w * h - 1
<1>1. h - 1 - y \in Nat /\ (h - 1 - y) * w \in Nat /\ y * w \in Nat
  OBVIOUS
<1>2. w * h = (h - 1 - y) * w + (y * w + w)
  BY Distributes
<1>3. QED
  BY <1>1, <1>2

LEMMA VisibleIsInside ==
  ASSUME NEW g \in Position, NEW px \in Visible(g)
  PROVE  px[1] \in 0 .. ScreenW * ScreenH - 1 /\ px[2] \in 0 .. LayerW * LayerH - 1
<1>1. PICK r \in {r \in 0 .. LayerH - 1 : g.y + r \in 0 .. ScreenH - 1},
           k \in {k \in 0 .. LayerW - 1 : g.x + k \in 0 .. ScreenW - 1} :
             px = <<(g.y + r) * ScreenW + g.x + k, r * LayerW + k>>
  BY DEF Visible
<1>2. (g.y + r) * ScreenW + (g.x + k) \in 0 .. ScreenW * ScreenH - 1
  BY InBlock, Sizes
<1>3. r * LayerW + k \in 0 .. LayerW * LayerH - 1
  BY InBlock, Sizes
<1>4. (g.y + r) * ScreenW + g.x + k = (g.y + r) * ScreenW + (g.x + k)
  BY Sizes DEF Position
<1>5. QED
  BY <1>1, <1>2, <1>3, <1>4

\* Two positions that are alike on both axes show the same.
LEMMA AlikeShow ==
  ASSUME NEW g \in Position, NEW h \in Position,
         Alike(g.x, h.x, LayerW, ScreenW), Alike(g.y, h.y, LayerH, ScreenH)
  PROVE  Visible(g) = Visible(h)
<1> DEFINE Rows(p) == {r \in 0 .. LayerH - 1 : p.y + r \in 0 .. ScreenH - 1}
           Columns(p) == {k \in 0 .. LayerW - 1 : p.x + k \in 0 .. ScreenW - 1}
<1>1. CASE g.x = h.x /\ g.y = h.y
  BY <1>1 DEF Visible
<1>2. CASE g.x # h.x
  <2>1. Columns(g) = {} /\ Columns(h) = {}
    BY <1>2, Sizes DEF Alike, Position
  <2>2. QED
    BY <2>1 DEF Visible
<1>3. CASE g.y # h.y
  <2>1. Rows(g) = {} /\ Rows(h) = {}
    BY <1>3, Sizes DEF Alike, Position
  <2>2. QED
    BY <2>1 DEF Visible
<1>4. QED
  BY <1>1, <1>2, <1>3

\* A layer whose last position no crop has overwritten is where it was asked to
\* be, as far as the screen goes; when no crop is due and none was lost it is
\* drawn exactly there (blitter.cpp:142-272, soft_screen.cpp:81-98).
THEOREM LayersAreWhereTheyAre == Spec => []ShownWhereItIs
<1>1. BlitInv => ShownWhereItIs
  <2> SUFFICES ASSUME BlitInv, lpc = "idle", overwritten = {}
               PROVE  /\ Visible(geo) = Visible(asked)
                      /\ ~need_crop /\ ~Cropping /\ ~lost /\ screen => Pixels(b) = Visible(asked)
    BY DEF ShownWhereItIs
  <2>1. Visible(geo) = Visible(asked)
    BY AlikeShow DEF BlitInv, AskedInv, TypeInv
  <2>2. ~need_crop /\ ~Cropping /\ ~lost /\ screen => Pixels(b) = Visible(geo)
    BY BlitType, PlacedShows DEF BlitInv, ShownInv, TypeInv
  <2>3. QED
    BY <2>1, <2>2
<1>2. QED
  BY BlitInvariant, <1>1, PTL

\* A crop that no move disturbed and that came to its end keeps the blit within
\* the screen's pixels and the layer's (blitter.cpp:200-272).  The early returns
\* of blitter.cpp:204-246 are not among them: see HiddenIsNotDrawn.
THEOREM BlitsStayInside == Spec => []DrawsInside
<1>1. BlitInv => DrawsInside
  <2> SUFFICES ASSUME BlitInv, mpc = "draw", ~hidden, ~torn
               PROVE  /\ b.ready
                      /\ \A px \in Pixels(b) : /\ px[1] \in 0 .. ScreenW * ScreenH - 1
                                               /\ px[2] \in 0 .. LayerW * LayerH - 1
    BY DEF DrawsInside
  <2>1. PICK g \in Position : Placed(b, g)
    BY DEF BlitInv, DrawInv, ScreenInv, Cropping, Crop
  <2>2. Pixels(b) = Visible(g) /\ b.ready
    BY <2>1, BlitType, PlacedShows DEF BlitInv, Placed
  <2>3. QED
    BY <2>2, VisibleIsInside
<1>2. QED
  BY BlitInvariant, <1>1, PTL
=============================================================================
