---------------------------- MODULE MC_VideoLayer ----------------------------
EXTENDS VideoLayer

\* The engine and the calls meet in the layer's thread only.  Bounds: a movie
\* on a screen, which the script pauses and seeks, has no calls; one that has
\* them is on no screen, left alone by the script, and its packets are whole and
\* its seeks succeed.
MCInit == VideoInit /\ freed = IF shown THEN Calls ELSE {}
MCNext == \/ LayerThread /\ (shown \/ (seekable' /\ ~left'))
          \/ Destructor \/ Engine \/ CallsStep
          \/ shown /\ Script
MCSpec == MCInit /\ [][MCNext]_videoVars /\ VideoFairness
=============================================================================
