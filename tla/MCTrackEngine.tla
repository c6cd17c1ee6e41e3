---------------------------- MODULE MCTrackEngine ----------------------------
(* TrackEngine for TLC: one queue of three tracks.                         *)
EXTENDS TrackEngine

CONSTANTS a, b, c

MCTracks == {a, b, c}
MCQueues == {<<a, b, c>>}
=============================================================================
