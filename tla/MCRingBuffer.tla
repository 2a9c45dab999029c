---------------------------- MODULE MCRingBuffer ----------------------------
(* Model values and sizes with which TLC checks RingBuffer.                *)
EXTENDS RingBuffer

CONSTANTS p1, p2

TwoProducers == {p1, p2}

\* In four bytes: 1 + 1 + 2 fill them exactly, 1 + 2 leave one where 2 does not
\* fit, so padding of no byte and of some both happen.
SmallSizes == {1, 2}
=============================================================================
