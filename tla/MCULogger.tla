----------------------------- MODULE MCULogger -----------------------------
(* Model values and sizes with which TLC checks ULogger.                   *)
EXTENDS ULogger

CONSTANTS p1, p2, t1, t2, d1, d2

OneProducer == {p1}
TwoProducers == {p1, p2}
BothTypes == {t1, t2}
BothDirs == {d1, d2}
OneDir == {d1}

TwoTopics == {1, 2}

\* Three messages of one type, of which p1's first and p2's second have the same
\* topic; p1's second is of another type and has no topic.
MixedTypes == [c \in Calls |-> IF c = <<p1, 2>> THEN t2 ELSE t1]
MixedTopics == [c \in Calls |->
  CASE c = <<p1, 2>> -> NoTopic
    [] c = <<p2, 1>> -> 2
    [] OTHER -> 1]

ThirdOfP1 == {<<p1, 3>>}

\* Even in an odd buffer: no padding of size 0.
Evens == {2, 4}
Twos == {2}
\* 1 + 1 + 2 fill four bytes exactly, and the next message pads nothing.
SmallSizes == {1, 2}
=============================================================================
