--------------------------- MODULE MCPriorityInherit ---------------------------
EXTENDS PriorityInherit

CONSTANTS ui, audio, codec, disk, fs, stream, queuep

MCRank == (fs :> 1) @@ (stream :> 2)
MCServer == (queuep :> audio)

\* The higher the thread, the smaller the number.
MCBase == (ui :> 2) @@ (audio :> 1) @@ (codec :> 3)
MCBase4 == (ui :> 2) @@ (audio :> 1) @@ (codec :> 3) @@ (disk :> 3)

\* How often threads take again what they have.
MCOnce == (fs :> 1) @@ (stream :> 1)
MCNever == (fs :> 0) @@ (stream :> 0)
===============================================================================
