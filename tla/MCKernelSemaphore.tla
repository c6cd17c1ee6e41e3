-------------------------- MODULE MCKernelSemaphore --------------------------
EXTENDS KernelSemaphore, TLC

CONSTANTS ui, audio, codec, fs

MCRank == fs :> 1

\* No thread takes again what it has.
MCNever == fs :> 0
===============================================================================
