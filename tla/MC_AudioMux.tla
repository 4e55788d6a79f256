---- MODULE MC_AudioMux ----
EXTENDS AudioMux
MCPackets == {1, 2}
MCGarbage == 0..Channels + 1
====
