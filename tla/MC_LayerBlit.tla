---------------------------- MODULE MC_LayerBlit ----------------------------
EXTENDS LayerBlit
\* x and y each take a value across either border of the screen and one past
\* each; a new layer is inside, and torn moves mix them.
At(x, y) == [x |-> x, y |-> y]
MCMoves == {At(2, -1), At(-1, 1), At(4, -3), At(-3, 3)}

\* Across two borders, and off the screen.
MCMovesOff == {At(-1, 1), At(-3, 3)}
=============================================================================
