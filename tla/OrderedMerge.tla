----------------------------- MODULE OrderedMerge -----------------------------
(***************************************************************************)
(* What the reader of a log promises to a program: the messages of all     *)
(* files of the log, merged by their times.  The next message is always    *)
(* the earliest of those that come first in their files, of the file that  *)
(* is first in the directory where times are equal; it is over when there  *)
(* is none, or when the next one is too late.  No packets, positions,      *)
(* descriptions or corrupted stretches appear here: LogReader has them,    *)
(* and implements this module.                                             *)
(***************************************************************************)
EXTENDS Integers, Sequences

VARIABLES
  files,    \* of each file of the log, place |-> time, of its messages
  until,    \* the last time that is wanted; all times if it is not positive
  given,    \* the messages the program was given since the log's start, <<file, place>>
  over      \* it was told that there is no other

vars == <<files, until, given, over>>

Left(f) == {i \in DOMAIN files[f] : \A k \in 1 .. Len(given) : given[k] # <<f, i>>}

\* The message of f that comes next.
IsHead(f, i) == i \in Left(f) /\ \A j \in Left(f) : i <= j

\* That comes before all other messages that come next in their files.
IsNext(f, i) ==
  /\ IsHead(f, i)
  /\ \A g \in DOMAIN files : \A j \in Left(g) : IsHead(g, j) =>
       files[f][i] < files[g][j] \/ (files[f][i] = files[g][j] /\ f <= g)

Late(t) == until > 0 /\ t > until

Init == given = << >> /\ over = FALSE

\* A log that is still to be written is empty.
Write ==
  /\ files = << >> /\ given = << >> /\ ~over
  /\ UNCHANGED <<until, given, over>>

Rewind ==
  /\ given' = << >> /\ over' = FALSE
  /\ UNCHANGED <<files, until>>

Give(f, i) ==
  /\ ~over /\ IsNext(f, i) /\ ~Late(files[f][i])
  /\ given' = Append(given, <<f, i>>)
  /\ UNCHANGED <<files, until, over>>

End ==
  /\ \A f \in DOMAIN files : \A i \in Left(f) : IsNext(f, i) => Late(files[f][i])
  /\ over' = TRUE
  /\ UNCHANGED <<files, until, given>>

Next ==
  \/ Write \/ Rewind \/ End
  \/ \E f \in DOMAIN files : \E i \in Left(f) : Give(f, i)

Spec == Init /\ [][Next]_vars
=============================================================================
