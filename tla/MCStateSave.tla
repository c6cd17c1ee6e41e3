---------------------------- MODULE MCStateSave ----------------------------
(* StateSave for TLC: two tracks, in either order; dropping entries leads  *)
(* to the shorter queues.                                                  *)
EXTENDS StateSave

CONSTANTS a, b

MCTrack == {a}
MCShort == {<<>>, <<a>>}
MCTracks == {a, b}
MCQueues == {<<>>, <<a, b>>, <<b, a>>}
=============================================================================
