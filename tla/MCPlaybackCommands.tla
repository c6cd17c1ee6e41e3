------------------------- MODULE MCPlaybackCommands -------------------------
(* PlaybackCommands for TLC: one queue of three tracks.                    *)
EXTENDS PlaybackCommands

CONSTANTS a, b, c

MCTracks == {a, b, c}
MCQueues == {<<a, b, c>>}
=============================================================================
