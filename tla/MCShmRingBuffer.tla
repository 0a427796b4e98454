-------------------------- MODULE MCShmRingBuffer --------------------------
EXTENDS ShmRingBuffer
=============================================================================
