-------------------------------- MODULE MCLog --------------------------------
(* Logs with which TLC checks LogReader, LogMerge and Window.               *)
EXTENDS Window

CONSTANTS own, old, other

ThreeTypes == {own, old, other}
TwoVersions == {own, old}
Clock == 1 .. 4

M(type, t) == [kind |-> "metadata", type |-> type, time |-> t]
D(type, t) == [kind |-> "data", type |-> type, time |-> t]
Cut(type, t) == [kind |-> "cut", type |-> type, time |-> t]
JunkItem == [kind |-> "junk", type |-> other, time |-> 1]
Stub == [kind |-> "stub", type |-> other, time |-> 1]

\* Metadata is written after the message it describes was given its time.
Clean == {
  <<M(own, 1), D(own, 1), D(own, 3)>>,
  <<M(own, 2), D(own, 1), M(old, 3), D(old, 2)>>,
  <<M(old, 1), D(old, 1), M(other, 3), D(other, 2), D(old, 4)>>}

\* The logger stopped between a type's metadata and its message.
Stopped == {<<M(own, 2), D(own, 2), M(other, 3)>>}

Damaged == {
  <<M(own, 1), D(own, 1), JunkItem, D(own, 2), M(old, 3), D(old, 3)>>,
  <<JunkItem, M(old, 2), JunkItem, D(old, 2), JunkItem, D(old, 3)>>,
  <<M(other, 1), JunkItem, D(own, 1), M(own, 3), D(own, 3)>>,   \* appended to
  <<M(own, 1), D(own, 2), Cut(own, 3)>>,
  <<M(own, 1), JunkItem, Cut(own, 3)>>,
  <<M(own, 1), D(own, 2), Stub>>,
  <<M(own, 1), JunkItem, M(old, 2)>>,
  <<Stub>>}

\* What merge leaves of a log when it keeps no message after some time.
Trailing == {<<M(own, 1), D(own, 1), M(old, 2), M(other, 2)>>}

Files == Clean \cup Stopped \cup Damaged \cup Trailing
TwoFiles == {<<a>> : a \in Files} \cup {<<a, b>> : a, b \in Files}

\* One file leans on the descriptions of others, one has junk in it.
ToMerge == Clean \cup Stopped \cup Trailing \cup {<<D(own, 3)>>, <<M(own, 1), JunkItem, D(own, 2)>>}
PairsToMerge == {<<a, b>> : a, b \in ToMerge}
CleanPairs == {<<a, b>> : a, b \in Clean}
NoLogs == {}

\* Frames are of type other here.
WithFrames == {
  << <<M(own, 1), D(own, 1), M(other, 1), D(other, 1), D(own, 1), D(other, 2), D(own, 2), D(other, 3), D(own, 3), D(other, 4), D(own, 4)>> >>,
  << <<M(other, 1), D(other, 1), M(own, 1), D(own, 1), D(other, 2), JunkItem, D(own, 2), D(other, 4), D(own, 4)>> >>,
  << <<M(own, 1), D(own, 1), D(own, 2), D(own, 3), D(own, 4)>>,
     <<M(other, 1), D(other, 1), D(other, 2), D(other, 3), D(other, 4)>> >>,
  << <<M(other, 1), D(other, 1), D(other, 2), D(other, 3), D(other, 4)>>,
     <<M(own, 1), D(own, 1), D(own, 2), D(own, 3), D(own, 4)>> >>,
  << <<M(own, 3), D(own, 3), D(own, 4)>>,
     <<M(other, 1), D(other, 1), M(old, 1), D(old, 1), D(other, 2), D(other, 3), D(old, 3), D(other, 4)>> >>,
  << <<M(other, 3), M(own, 3), D(other, 3), D(own, 3), D(other, 4), D(own, 4)>> >>}     \* none at first
OneOrBoth == {{1}, {2}, {1, 2}}

Read(recover, start, end, always, convert) ==
  [try_recovery |-> recover, startTime |-> start, endTime |-> end,
   process_always |-> always, allow_conversion |-> convert]

SomeOptions == {
  Read(TRUE, -1, -1, FALSE, TRUE), Read(TRUE, 2, -1, FALSE, TRUE), Read(TRUE, 2, -1, TRUE, FALSE),
  Read(TRUE, -1, 2, FALSE, TRUE), Read(FALSE, -1, -1, FALSE, TRUE), Read(FALSE, 2, 2, FALSE, TRUE)}

Strict == {Read(FALSE, -1, -1, FALSE, TRUE)}

Everything == [passes |-> ThreeTypes, earlytime |-> -1, latetime |-> 4]
OwnLater == [passes |-> {own}, earlytime |-> 2, latetime |-> 4]
AllEarlier == [passes |-> ThreeTypes, earlytime |-> -1, latetime |-> 1]
EverythingOnly == {Everything}
AllEarlierOnly == {AllEarlier}
SomeRanges == {Everything, OwnLater, AllEarlier}
=============================================================================
