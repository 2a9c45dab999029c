-------------------------------- MODULE Window --------------------------------
(***************************************************************************)
(* CBufReaderWindow of src/ulog: a reader for programs that keep in memory *)
(* the messages around one frame of a log.  initialize goes through the    *)
(* log once and notes at which position of each file a frame begins;       *)
(* loadWindow jumps to where a window of frames begins and calls the       *)
(* handlers for what has not been loaded by earlier windows.  The reader   *)
(* it is built on, the log and its files are LogReader's.                  *)
(* A loop of the code is one action for each message it goes through.      *)
(***************************************************************************)
EXTENDS LogMerge

CONSTANTS
  FrameType,    \* the type with an info getter; a frame's offset is its time here
  WindowLogs,   \* logs that are opened by a CBufReaderWindow
  Boxes,        \* the files of the box that is read, or all of an external one
  WindowSize,   \* window_size_
  MaxLoads      \* bound: calls of loadWindow

\* openUlog passes over an empty file.
ASSUME WindowLogsAssumption ==
  /\ WindowLogs \subseteq Seq(Seq(Item))
  /\ \A files \in WindowLogs : \A f \in DOMAIN files :
       /\ files[f] # << >>
       /\ \A i \in 1 .. Len(files[f]) - 1 : files[f][i].kind \notin {"cut", "stub"}
ASSUME WindowSizeAssumption == WindowSize \in Nat

VARIABLES
  phase,        \* "none", "opened", "getters", "handlers", "ready", "jumped", "loading"
  box,
  stateMap, max_offset, lastState,
  lowest, highest,          \* lowest_loaded_state_, highest_loaded_state_, << >> at first
  next_lowest, next_highest,
  starting_offset, ending_offset, current_offset,      \* of the window being loaded
  \* History:
  path,         \* the messages in the order initialize went through them
  places,       \* the position in each file before each of them, and after the last
  loaded,       \* the messages handlers were called with and the window has not left
  twice,        \* those they were called with though they were loaded
  loads

placeVars == <<stateMap, max_offset, lastState>>
loadedVars == <<lowest, highest, next_lowest, next_highest>>
boundVars == <<starting_offset, ending_offset, current_offset>>
walkVars == <<path, places>>
windowVars == <<phase, box, placeVars, loadedVars, boundVars, walkVars, loaded, twice, loads>>

\* Of LogReader's variables the window reader has these.
Unread ==
  UNCHANGED <<logVars, is_opened, handlerVars, processed, ended, asked, restarts, mergeVars>>
-----------------------------------------------------------------------------
(* States: a position in each file.  They are doubled, for one byte before *)
(* an item is after the item before it.                                    *)

At(streams) == [f \in DOMAIN streams |-> streams[f].at]
StateOf(streams) == [f \in DOMAIN streams |-> 2 * streams[f].at]
getState == StateOf(input_streams)

\* std::vector compares lexicographically.
Less(s, t) == \E i \in DOMAIN s : s[i] < t[i] /\ \A j \in 1 .. i - 1 : s[j] = t[j]
MinState(s, t) == IF Less(t, s) THEN t ELSE s
MaxState(s, t) == IF Less(s, t) THEN t ELSE s

\* One byte before; before the first byte of a file the difference wraps around.
Wrapped == 1000
OneLess(s) == [s EXCEPT ![1] = IF @ = 2 THEN Wrapped ELSE @ - 1]

\* m with o mapped to s.
Insert(m, o, s) == [x \in DOMAIN m \cup {o} |-> IF x = o THEN s ELSE m[x]]

\* std::map::lower_bound; max_offset_ + 1 is a key of it.
lower_bound(offset) == stateMap[Min({o \in DOMAIN stateMap : o >= offset})]

isStateLoadedMutant(state) == ~Less(state, lowest)      \* only its beginning is looked at

\* Position by position.
isStateLoaded(state) == \A f \in DOMAIN state : lowest[f] <= state[f] /\ state[f] <= highest[f]

keepLoadedStatesMutant(low_offset, high_offset) ==      \* what was loaded is forgotten
  lowest' = OneLess(lower_bound(high_offset + 1)) /\ highest' = lower_bound(low_offset)

\* What is loaded and in the window stays loaded; the two ends the wrong way
\* round stand for nothing.
keepLoadedStates(low_offset, high_offset) ==
  LET low == lower_bound(low_offset)
      high == OneLess(lower_bound(high_offset + 1))
      from == IF lowest = << >> THEN high ELSE lowest
      to == IF lowest = << >> THEN low ELSE highest
      apart == Less(to, low) \/ Less(high, from)
  IN /\ lowest' = IF apart THEN high ELSE MaxState(from, low)
     /\ highest' = IF apart THEN low ELSE MinState(to, high)
-----------------------------------------------------------------------------
(* One message: what processGetters, processMessage and processSilently    *)
(* do with the one computeNextSi has found.                                *)

Chosen == <<next_si, Scanned[next_si].at>>
IsKnown(a) == a[1] \in box /\ Message(a).type \in Scanned[a[1]].dictionary
IsFrame(a) == IsKnown(a) /\ Message(a).type = FrameType
\* Every type has one here.
HasHandler(a) == IsKnown(a) /\ (options.process_always \/ is_valid_early(Message(a).time))

\* History, for streams that are put somewhere else.
Moved ==
  corruptionsBefore' = num_corruptions' - Cardinality(UNION {Junk(f, 1, input_streams'[f].at) : f \in Streams})

GoPast ==
  /\ input_streams' = [Scanned EXCEPT ![next_si] = skip_message(@)]
  /\ num_corruptions' = num_corruptions + NumSkipped
  /\ UNCHANGED <<finish_reading, corruptionsBefore>>

\* computeNextSi returned false, having looked for more: nothing halts it.
Ends ==
  /\ ~Found /\ ~finish_reading /\ Halting = {}
  /\ num_corruptions' = num_corruptions + NumSkipped

Finish ==
  Ends /\ input_streams' = Scanned /\ finish_reading' = TRUE /\ UNCHANGED corruptionsBefore

AtStart == [f \in Streams |-> [Scanned[f] EXCEPT !.at = 1]]     \* reset_ptr of each

Load(a) ==
  /\ loaded' = IF HasHandler(a) THEN loaded \cup {a} ELSE loaded
  /\ twice' = IF HasHandler(a) /\ a \in loaded THEN twice \cup {a} ELSE twice
-----------------------------------------------------------------------------
(* initialize.                                                             *)

open_window ==
  /\ phase = "none" /\ openUlog
  /\ phase' = "opened"
  /\ UNCHANGED <<mergeVars, box, placeVars, loadedVars, boundVars, walkVars, loaded, twice, loads>>

initialize ==
  /\ phase = "opened" /\ phase' = "getters"
  /\ max_offset' = 0 /\ lastState' = getState /\ places' = <<At(input_streams)>>
  /\ UNCHANGED <<readerVars, mergeVars, box, stateMap, loadedVars, boundVars, path, loaded, twice, loads>>

\* The first frame of an offset; a frame of offset 0 counts like any other.
processGetters ==
  /\ phase = "getters" /\ Found /\ GoPast
  /\ LET offset == Message(Chosen).time
         isNew == IsFrame(Chosen) /\ offset \notin DOMAIN stateMap
     IN /\ stateMap' = IF isNew THEN Insert(stateMap, offset, lastState) ELSE stateMap
        /\ max_offset' = IF isNew /\ offset > max_offset THEN offset ELSE max_offset
  /\ path' = Append(path, Chosen) /\ places' = Append(places, At(input_streams'))
  /\ lastState' = StateOf(input_streams')
  /\ UNCHANGED <<phase, box, loadedVars, boundVars, loaded, twice, loads>> /\ Unread

endGetters ==
  /\ phase = "getters" /\ Ends /\ phase' = "handlers"
  /\ stateMap' = Insert(stateMap, max_offset + 1, StateOf(Scanned))
  /\ input_streams' = AtStart /\ Moved /\ finish_reading' = FALSE
  /\ UNCHANGED <<box, max_offset, lastState, loadedVars, boundVars, walkVars, loaded, twice, loads>> /\ Unread

\* The handlers there are so far get every message, and are removed.
runHandlers ==
  /\ phase = "handlers" /\ Found /\ GoPast
  /\ UNCHANGED windowVars /\ Unread

endHandlers ==
  /\ phase = "handlers" /\ Ends /\ phase' = "ready"
  /\ input_streams' = AtStart /\ Moved /\ finish_reading' = TRUE
  /\ UNCHANGED <<box, placeVars, loadedVars, boundVars, walkVars, loaded, twice, loads>> /\ Unread
-----------------------------------------------------------------------------
(* loadWindow.                                                             *)

\* The frame messages with an offset of o or more, and where they begin in the path.
FramesFrom(o) ==
  {k \in DOMAIN path :
     path[k][1] \in box /\ Message(path[k]).type = FrameType /\ Message(path[k]).time >= o}
PathFrom(o) == IF FramesFrom(o) = {} THEN Len(path) + 1 ELSE Min(FramesFrom(o))

InWindow(b, e) == {path[k] : k \in PathFrom(b) .. PathFrom(e + 1) - 1}

jumpToOffset(seq_offset) ==
  /\ phase = "ready" /\ loads < MaxLoads
  /\ starting_offset' = IF seq_offset >= WindowSize THEN seq_offset - WindowSize ELSE 0
  /\ ending_offset' = IF seq_offset + WindowSize <= max_offset THEN seq_offset + WindowSize
                       ELSE max_offset
  /\ input_streams' = [f \in Streams |->
       [input_streams[f] EXCEPT !.at = lower_bound(starting_offset')[f] \div 2]]
  /\ UNCHANGED num_corruptions /\ Moved /\ finish_reading' = FALSE
  /\ phase' = "jumped" /\ loads' = loads + 1
  /\ loaded' = loaded \cap InWindow(starting_offset', ending_offset')
  /\ UNCHANGED <<box, placeVars, loadedVars, current_offset, walkVars, twice>> /\ Unread

\* "we should be exactly at a frame info message"; else the window is not loaded.
firstMessage ==
  /\ phase = "jumped" /\ Found /\ GoPast /\ Load(Chosen)
  /\ IF IsFrame(Chosen)
     THEN /\ phase' = "loading" /\ current_offset' = Message(Chosen).time
          /\ keepLoadedStates(starting_offset, ending_offset)
          /\ next_lowest' = StateOf(input_streams') /\ next_highest' = StateOf(input_streams')
     ELSE phase' = "ready" /\ UNCHANGED <<current_offset, loadedVars>>
  /\ UNCHANGED <<box, placeVars, starting_offset, ending_offset, walkVars, loads>> /\ Unread

noMessage ==
  /\ phase = "jumped" /\ Finish /\ phase' = "ready"
  /\ UNCHANGED <<box, placeVars, loadedVars, boundVars, walkVars, loaded, twice, loads>> /\ Unread

\* processMessage of what is not loaded, processSilently of the rest.
loadMessage ==
  /\ phase = "loading" /\ current_offset <= ending_offset /\ Found /\ GoPast
  /\ IF isStateLoaded(getState) THEN UNCHANGED <<loaded, twice, next_lowest, next_highest>>
     ELSE /\ Load(Chosen)
          /\ next_lowest' = MinState(next_lowest, getState)
          /\ next_highest' = MaxState(next_highest, getState)
  /\ current_offset' = IF IsFrame(Chosen) THEN Message(Chosen).time ELSE current_offset
  /\ UNCHANGED <<phase, box, placeVars, lowest, highest, starting_offset, ending_offset, walkVars, loads>>
  /\ Unread

endLoad ==
  /\ phase = "loading" /\ phase' = "ready"
  /\ \/ /\ current_offset > ending_offset
        /\ UNCHANGED <<input_streams, finish_reading, num_corruptions, corruptionsBefore,
                       next_lowest, next_highest>>
     \/ /\ current_offset <= ending_offset /\ Finish
        /\ IF isStateLoaded(getState) THEN UNCHANGED <<next_lowest, next_highest>>
           ELSE /\ next_lowest' = MinState(next_lowest, getState)
                /\ next_highest' = MaxState(next_highest, getState)
  /\ lowest' = MinState(lowest, next_lowest') /\ highest' = MaxState(highest, next_highest')
  /\ UNCHANGED <<box, placeVars, boundVars, walkVars, loaded, twice, loads>> /\ Unread
-----------------------------------------------------------------------------
WindowStart ==
  /\ stateMap = << >> /\ max_offset = 0 /\ lastState = << >>
  /\ lowest = << >> /\ highest = << >> /\ next_lowest = << >> /\ next_highest = << >>
  /\ starting_offset = 0 /\ ending_offset = 0 /\ current_offset = 0
  /\ path = << >> /\ places = << >> /\ loaded = {} /\ twice = {} /\ loads = 0

WindowInit ==
  /\ WindowStart /\ options \in Options /\ ReaderStart
  /\ \/ MergeStart /\ phase = "merge" /\ box = {}
     \/ /\ phase = "none" /\ log \in WindowLogs /\ box \in Boxes /\ options.try_recovery
        /\ merging = "no" /\ inputs = << >> /\ range = CHOOSE r \in Ranges : TRUE
        /\ ptrs = << >> /\ dictionary = {} /\ written = << >>

WindowNext ==
  \/ open_window \/ initialize \/ processGetters \/ endGetters \/ runHandlers \/ endHandlers
  \/ \E o \in 0 .. max_offset : jumpToOffset(o)
  \/ firstMessage \/ noMessage \/ loadMessage \/ endLoad

LogSpec ==
  WindowInit /\ [][ \/ phase = "merge" /\ MergeReaderNext /\ UNCHANGED windowVars
                    \/ WindowNext ]_<<mergeReaderVars, windowVars>>
-----------------------------------------------------------------------------
(* What must hold.                                                         *)

\* What the logger writes: messages in time order, each described before it.
Regular == FilesOrdered /\ \A a \in Messages : IsDescribed(a)

\* Around each offset there is a frame.  Of a window without one the message that
\* follows the window is noted as loaded, but it is not.
FrameInEach ==
  \A o \in 0 .. max_offset : \E k \in FramesFrom(o - WindowSize) :
    Message(path[k]).time <= o + WindowSize

\* After loadWindow the handlers have been called with every message of the
\* window, whatever windows were loaded before it.
WindowComplete ==
  /\ phase = "ready" /\ loads > 0
  /\ Regular /\ FrameInEach
  => \A a \in InWindow(starting_offset, ending_offset) :
       a[1] \in box /\ (options.process_always \/ is_valid_early(Message(a).time)) => a \in loaded

\* What an earlier window has loaded is not loaded again while it stays in the
\* window: of a log of one file only the frame a window begins with is.
NoDouble ==
  Len(log) = 1 /\ Regular => \A a \in twice : Message(a).type = FrameType
=============================================================================
