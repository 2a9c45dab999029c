------------------------------ MODULE ULogger ------------------------------
(***************************************************************************)
(* The logger: ULogger of src/ulog/{include/ulogger.h,src/ulogger.cpp} and *)
(* the cbuf_ostream it writes with, around the ring buffer.  Producers     *)
(* call serialize; the logger thread takes the messages out and writes     *)
(* them to files; an application thread moves the log elsewhere            *)
(* (setLogPath), subscribes to what is written (setFileWriteCallback) and  *)
(* ends the logging.  Every producer and logger step is one of RingBuffer. *)
(*                                                                         *)
(* The logger thread takes g_file_mutex only to open and to close a file;  *)
(* between its steps the application thread may close the file under it.   *)
(***************************************************************************)
EXTENDS RingBuffer

CONSTANTS
  Types,          \* message types, each with its hash and its metadata
  TypeOf,         \* the type of each call's message
  Topics,         \* topic names; serialize's topic_name_hash # 0
  TopicOf,        \* the topic of each call, or NoTopic
  VariantSpan,    \* how many values cbuf_preamble::variant has: 16
  Rejected,       \* the calls whose bytes fail processPacket's integrity checks
  Dirs, BadDirs,  \* output directories, and those no file can be opened in
  SplitSize,      \* SPLIT_FILE_SIZE
  Subscribes,     \* whether the application calls setFileWriteCallback
  MaxPathChanges  \* bound: calls of setLogPath

NoTopic == 0
NoCall == << >>

ASSUME TypeOfAssumption == TypeOf \in [Calls -> Types]
ASSUME TopicOfAssumption == NoTopic \notin Topics /\ TopicOf \in [Calls -> Topics \cup {NoTopic}]
ASSUME VariantAssumption == VariantSpan \in Nat \ {0}
ASSUME DirsAssumption == BadDirs \subseteq Dirs /\ Dirs # {}
ASSUME SplitAssumption == SplitSize \in Nat /\ MaxPathChanges \in Nat /\ Subscribes \in BOOLEAN

VARIABLES
  quit_thread, app,       \* app: "running", "joining" in endLogging, "deleted"
  tpc, draining,          \* the logger thread: where it is, and in which loop
  outputdir, pathChanges,
  stream,                 \* the open file, or 0 (-1 in the code)
  dictionary, variant_dictionary, current_file_size,
  files,                  \* every file ever opened, in order: its records
  file_write_callback_, cosCallback,   \* set in ULogger, and in its cbuf_ostream
  spc, told, heard,       \* the subscriber: its pc, the place setFileWriteCallback
                          \* returned, the records its callback was called with
  accepted, promised      \* the calls that returned true: now, before endLogging

threadVars == <<quit_thread, app, tpc, draining>>
pathVars == <<outputdir, pathChanges>>
fileVars == <<stream, dictionary, variant_dictionary, current_file_size, files>>
callbackVars == <<file_write_callback_, cosCallback, spc, told, heard>>
acceptVars == <<accepted, promised>>
loggerVars == <<threadVars, pathVars, fileVars, callbackVars, acceptVars>>
logVars == <<vars, loggerVars>>

Record == [kind : {"metadata", "data"}, type : Types, call : Calls \cup {NoCall},
           size : Nat, variant : Nat]

LogTypeOK ==
  /\ TypeOK
  /\ quit_thread \in BOOLEAN /\ app \in {"running", "joining", "deleted"}
  /\ tpc \in {"top", "poll", "open", "packet", "check", "metacb", "write", "cb", "split",
              "reopen", "dequeue", "notify", "close", "done", "gone", "abort"}
  /\ draining \in BOOLEAN
  /\ outputdir \in Dirs /\ pathChanges \in 0 .. MaxPathChanges
  /\ files \in Seq(Seq(Record)) /\ stream \in {0, Len(files)}
  /\ dictionary \subseteq Types
  /\ variant_dictionary \in [Types -> Seq(Topics)]
  /\ current_file_size \in Nat
  /\ file_write_callback_ \in BOOLEAN /\ cosCallback \in BOOLEAN
  /\ spc \in {"none", "set", "setcos", "told", "reset"}
  /\ told \in Nat \X Nat /\ heard \subseteq Nat \X Nat
  /\ accepted \subseteq Calls /\ promised \subseteq accepted

LogInit ==
  /\ Init
  /\ quit_thread = FALSE /\ app = "running"
  /\ tpc = "top" /\ draining = FALSE
  /\ outputdir \in Dirs /\ pathChanges = 0
  /\ stream = 0 /\ dictionary = {} /\ current_file_size = 0 /\ files = << >>
  /\ variant_dictionary = [t \in Types |-> << >>]
  /\ file_write_callback_ = FALSE /\ cosCallback = FALSE
  /\ spc = "none" /\ told = <<0, 0>> /\ heard = {}
  /\ accepted = {} /\ promised = {}
-----------------------------------------------------------------------------
(* The producers: serialize and serialize_bytes.                           *)

SerializeCall(p) ==
  /\ ~quit_thread
  /\ \E n \in MsgSizes : StartAlloc(p, n)
  /\ UNCHANGED loggerVars

\* Between its quit test and its return a call does not look at quit_thread, and
\* endLogging does not wait for it.
SerializeStep(p) ==
  /\ app # "deleted"
  /\ \/ AllocReserve(p) \/ AllocDummy(p) \/ AllocWait(p) \/ Fill(p)
     \/ SpuriousWake(p) \/ Abandon(p)
  /\ UNCHANGED loggerVars

SerializeReturn(p) ==
  /\ app # "deleted"
  /\ Populate(p)
  /\ accepted' = accepted \cup {<<p, calls[p]>>}
  /\ UNCHANGED <<threadVars, pathVars, fileVars, callbackVars, promised>>
-----------------------------------------------------------------------------
(* The files.                                                              *)

\* setFileWriteCallback holds g_file_mutex through all three of its steps.
FileMutexFree == spc \notin {"set", "setcos"}

OpenFileMutant ==       \* a second open of the same file
  /\ FileMutexFree /\ outputdir \notin BadDirs
  /\ files' = Append(files, << >>) /\ stream' = Len(files)
  /\ current_file_size' = 0
  /\ cosCallback' = (cosCallback \/ file_write_callback_)
  /\ UNCHANGED <<dictionary, variant_dictionary, file_write_callback_, spc, told, heard>>

OpenFile ==
  /\ FileMutexFree /\ outputdir \notin BadDirs
  /\ files' = Append(files, << >>) /\ stream' = Len(files) + 1
  /\ current_file_size' = 0
  /\ cosCallback' = (cosCallback \/ file_write_callback_)
  /\ UNCHANGED <<dictionary, variant_dictionary, file_write_callback_, spc, told, heard>>

\* No directory, or open() fails; either way the stream is -1 after it.
OpenFails ==
  /\ FileMutexFree /\ outputdir \in BadDirs
  /\ stream' = 0
  /\ UNCHANGED <<files, current_file_size, dictionary, variant_dictionary, callbackVars>>

CloseFileMutant ==      \* the dictionary outlives the file
  /\ FileMutexFree
  /\ stream' = 0
  /\ UNCHANGED <<dictionary, files, current_file_size, variant_dictionary, callbackVars>>

CloseFile ==
  /\ FileMutexFree
  /\ stream' = 0 /\ dictionary' = {}
  /\ UNCHANGED <<files, current_file_size, variant_dictionary, callbackVars>>

Put(r) ==
  /\ stream # 0
  /\ files' = [files EXCEPT ![stream] = Append(@, r)]

\* The place of the last record written: its file, its position there.
LastWritten == <<Len(files), IF files = << >> THEN 0 ELSE Len(files[Len(files)])>>
-----------------------------------------------------------------------------
(* The logger thread.                                                      *)

LoopTop == IF draining THEN "poll" ELSE "top"

Goto(from, to) == tpc = from /\ tpc' = to /\ UNCHANGED <<quit_thread, app, draining>>

LogTopMutant ==             \* quit is looked at only when there is work
  /\ tpc = "top" /\ tpc' = "poll" /\ draining' = (quit_thread /\ m_sizeAllocated > 0)
  /\ UNCHANGED <<vars, quit_thread, app, pathVars, fileVars, callbackVars, acceptVars>>

LogTop ==
  /\ tpc = "top" /\ tpc' = "poll" /\ draining' = quit_thread
  /\ UNCHANGED <<vars, quit_thread, app, pathVars, fileVars, callbackVars, acceptVars>>

\* ringbuffer.size() == 0, or the oldest message is not populated yet.
LogPollAgain ==
  /\ ~HeadReady /\ ~(draining /\ m_sizeAllocated = 0)
  /\ Goto("poll", LoopTop)
  /\ UNCHANGED <<vars, pathVars, fileVars, callbackVars, acceptVars>>

LogUnread ==
  /\ LastUnread
  /\ Goto("poll", IF draining THEN "packet" ELSE "open")
  /\ UNCHANGED <<pathVars, fileVars, callbackVars, acceptVars>>

\* The main loop opens a file even for padding; when it cannot, the thread ends.
LogOpen ==
  /\ \/ stream # 0 /\ Goto("open", "packet") /\ UNCHANGED <<fileVars, callbackVars>>
     \/ stream = 0 /\ OpenFile /\ Goto("open", "packet")
     \/ stream = 0 /\ OpenFails /\ Goto("open", "gone")
  /\ UNCHANGED <<vars, pathVars, acceptVars>>

LogPadding ==
  /\ Goto("packet", "dequeue")
  /\ Head_.type = "Dummy"
  /\ UNCHANGED <<vars, pathVars, fileVars, callbackVars, acceptVars>>

(* processPacket.                                                          *)

PacketOpen ==
  /\ Goto("packet", "check")
  /\ Head_.type = "Populated"
  /\ \/ stream # 0 /\ UNCHANGED <<fileVars, callbackVars>>
     \/ stream = 0 /\ OpenFile
  /\ UNCHANGED <<vars, pathVars, acceptVars>>

\* The message is lost: no file, or it fails an integrity check.
PacketDropped ==
  /\ \/ Goto("packet", "dequeue") /\ stream = 0 /\ OpenFails
     \/ Goto("check", "dequeue") /\ Head_.call \in Rejected /\ UNCHANGED <<fileVars, callbackVars>>
  /\ ReadOut
  /\ UNCHANGED <<pathVars, acceptVars>>

PacketKnownType ==
  /\ Goto("check", "write")
  /\ Head_.call \notin Rejected /\ TypeOf[Head_.call] \in dictionary
  /\ UNCHANGED <<vars, pathVars, fileVars, callbackVars, acceptVars>>

PacketMetadata ==
  /\ Goto("check", "metacb")
  /\ Head_.call \notin Rejected /\ TypeOf[Head_.call] \notin dictionary
  /\ Put([kind |-> "metadata", type |-> TypeOf[Head_.call], call |-> NoCall, size |-> 0, variant |-> 0])
  /\ UNCHANGED <<vars, pathVars, stream, dictionary, variant_dictionary, current_file_size,
                 callbackVars, acceptVars>>

\* The callback of cbuf_ostream forwards to the one of ULogger, if there is one.
MetadataCallback ==
  /\ Goto("metacb", "write")
  /\ heard' = IF cosCallback /\ file_write_callback_ THEN heard \cup {LastWritten} ELSE heard
  /\ dictionary' = dictionary \cup {TypeOf[Head_.call]}
  /\ UNCHANGED <<vars, pathVars, stream, variant_dictionary, current_file_size, files,
                 file_write_callback_, cosCallback, spc, told, acceptVars>>

PositionIn(s, e) == CHOOSE i \in 1 .. Len(s) : s[i] = e

Known(t, topic) == \E i \in 1 .. Len(variant_dictionary[t]) : variant_dictionary[t][i] = topic

VariantMutant(t, topic) ==      \* of a topic that is new, the size before it is added
  IF Known(t, topic) THEN PositionIn(variant_dictionary[t], topic)
  ELSE IF variant_dictionary[t] = << >> THEN 1 ELSE Len(variant_dictionary[t])

Variant(t, topic) ==
  IF Known(t, topic) THEN PositionIn(variant_dictionary[t], topic)
                     ELSE Len(variant_dictionary[t]) + 1

AddTopic(t, topic) ==
  IF topic = NoTopic \/ Known(t, topic)
  THEN UNCHANGED variant_dictionary
  ELSE variant_dictionary' = [variant_dictionary EXCEPT ![t] = Append(@, topic)]

\* cbuf_preamble::setVariant has four bits for it.
setVariant(v) == v % VariantSpan

\* setVariant(getOrMakeTopicVariant(...)), then write what the buffer holds.
PacketWrite ==
  /\ Goto("write", "cb")
  /\ LET t == TypeOf[Head_.call]
         topic == TopicOf[Head_.call] IN
       /\ AddTopic(t, topic)
       /\ Put([kind |-> "data", type |-> t, call |-> ReadBack(Head_), size |-> Head_.size,
               variant |-> IF topic = NoTopic THEN 0 ELSE setVariant(Variant(t, topic))])
  /\ ReadOut
  /\ UNCHANGED <<pathVars, stream, dictionary, current_file_size, callbackVars, acceptVars>>

\* write() to a closed stream fails for ever: the eleventh time, assert(false).
WriteAborts ==
  /\ stream = 0
  /\ \/ Goto("write", "abort")
     \/ /\ Goto("check", "abort")
        /\ Head_.call \notin Rejected /\ TypeOf[Head_.call] \notin dictionary
  /\ UNCHANGED <<vars, pathVars, fileVars, callbackVars, acceptVars>>

PacketCallbackMutant ==     \* the file's size is forgotten
  /\ tpc = "cb"
  /\ heard' = IF file_write_callback_ THEN heard \cup {LastWritten} ELSE heard
  /\ Goto("cb", IF current_file_size > SplitSize THEN "split" ELSE "dequeue")
  /\ UNCHANGED <<vars, pathVars, fileVars, file_write_callback_, cosCallback, spc, told, acceptVars>>

PacketCallback ==
  /\ tpc = "cb"
  /\ heard' = IF file_write_callback_ THEN heard \cup {LastWritten} ELSE heard
  /\ current_file_size' = current_file_size + Head_.size
  /\ Goto("cb", IF current_file_size' > SplitSize THEN "split" ELSE "dequeue")
  /\ UNCHANGED <<vars, pathVars, stream, dictionary, variant_dictionary, files,
                 file_write_callback_, cosCallback, spc, told, acceptVars>>

SplitClose ==
  /\ CloseFile /\ Goto("split", "reopen")
  /\ UNCHANGED <<vars, pathVars, acceptVars>>

SplitOpen ==
  /\ OpenFile \/ OpenFails
  /\ Goto("reopen", "dequeue")
  /\ UNCHANGED <<vars, pathVars, acceptVars>>

(* ringbuffer.dequeue(), then the loop again.                              *)

LogDequeue ==
  /\ Dequeue
  /\ Goto("dequeue", "notify")
  /\ UNCHANGED <<pathVars, fileVars, callbackVars, acceptVars>>

LogNotify ==
  /\ NotifyFree
  /\ Goto("notify", LoopTop)
  /\ UNCHANGED <<pathVars, fileVars, callbackVars, acceptVars>>

LogDrainedMutant ==         \* stops at the first message that is not ready
  /\ draining /\ ~HeadReady
  /\ Goto("poll", "close")
  /\ UNCHANGED <<vars, pathVars, fileVars, callbackVars, acceptVars>>

LogDrained ==
  /\ draining /\ m_sizeAllocated = 0
  /\ Goto("poll", "close")
  /\ UNCHANGED <<vars, pathVars, fileVars, callbackVars, acceptVars>>

LogClose ==
  /\ CloseFile /\ Goto("close", "done")
  /\ UNCHANGED <<vars, pathVars, acceptVars>>

LoggerStep ==
  \/ LogTop \/ LogPollAgain \/ LogUnread \/ LogOpen \/ LogPadding
  \/ PacketOpen \/ PacketDropped \/ PacketKnownType \/ PacketMetadata \/ MetadataCallback
  \/ PacketWrite \/ WriteAborts \/ PacketCallback \/ SplitClose \/ SplitOpen
  \/ LogDequeue \/ LogNotify \/ LogDrained \/ LogClose
-----------------------------------------------------------------------------
(* The application thread.                                                 *)

SetLogPath(d) ==
  /\ app = "running" /\ pathChanges < MaxPathChanges /\ d # outputdir
  /\ outputdir' = d /\ pathChanges' = pathChanges + 1
  /\ \/ stream # 0 /\ CloseFile
     \/ stream = 0 /\ FileMutexFree /\ UNCHANGED <<fileVars, callbackVars>>
  /\ UNCHANGED <<vars, threadVars, acceptVars>>

SubscribeMutant ==          \* the offset is read before the callback is set
  \/ spc = "none" /\ spc' = "set" /\ told' = LastWritten
     /\ UNCHANGED <<file_write_callback_, cosCallback>>
  \/ spc = "set" /\ spc' = "setcos" /\ cosCallback' = TRUE
     /\ UNCHANGED <<file_write_callback_, told>>
  \/ spc = "setcos" /\ spc' = "told" /\ file_write_callback_' = TRUE
     /\ UNCHANGED <<cosCallback, told>>

\* The steps of setFileWriteCallback.  The open file and its offset are the
\* place of the last record.  With no open file the caller is told of none, so
\* what the closed ones hold is not owed to it either.
Subscribe ==
  \/ spc = "none" /\ spc' = "set" /\ file_write_callback_' = TRUE
     /\ UNCHANGED <<cosCallback, told>>
  \/ spc = "set" /\ spc' = "setcos" /\ cosCallback' = TRUE
     /\ UNCHANGED <<file_write_callback_, told>>
  \/ spc = "setcos" /\ spc' = "told" /\ told' = LastWritten
     /\ UNCHANGED <<file_write_callback_, cosCallback>>

SetFileWriteCallback ==
  /\ app = "running" /\ Subscribes
  /\ Subscribe
  /\ UNCHANGED <<vars, threadVars, pathVars, fileVars, heard, acceptVars>>

\* The stream's own callback stays set.
ResetFileCallbacks ==
  /\ app = "running" /\ spc = "told"
  /\ file_write_callback_' = FALSE /\ spc' = "reset"
  /\ UNCHANGED <<vars, threadVars, pathVars, fileVars, cosCallback, told, heard, acceptVars>>

EndLogging ==
  /\ app = "running" /\ FileMutexFree
  /\ app' = "joining" /\ quit_thread' = TRUE
  /\ promised' = accepted
  /\ UNCHANGED <<vars, tpc, draining, pathVars, fileVars, callbackVars, accepted>>

Join ==
  /\ app = "joining" /\ tpc \in {"done", "gone"}
  /\ app' = "deleted"
  /\ UNCHANGED <<vars, quit_thread, tpc, draining, pathVars, fileVars, callbackVars, acceptVars>>
-----------------------------------------------------------------------------
LogNext ==
  \/ \E p \in Producers : SerializeCall(p) \/ SerializeStep(p) \/ SerializeReturn(p)
  \/ LoggerStep
  \/ \E d \in Dirs : SetLogPath(d)
  \/ SetFileWriteCallback \/ ResetFileCallbacks \/ EndLogging \/ Join

LogSpec == LogInit /\ [][LogNext]_logVars

\* Every thread that can run does; the application ends a call it has begun.
\* Nothing obliges it to call endLogging, or a producer to call serialize.
LogFairness ==
  /\ \A p \in Producers :
       WF_logVars(app # "deleted" /\ ProducerStep(p) /\ (SerializeStep(p) \/ SerializeReturn(p)))
  /\ WF_logVars(LoggerStep)
  /\ WF_logVars(spc # "none" /\ SetFileWriteCallback)
  /\ WF_logVars(Join)

LogFairSpec == LogSpec /\ LogFairness
-----------------------------------------------------------------------------
(* What must hold.                                                         *)

At(a) == files[a[1]][a[2]]

Places == UNION {{f} \X (1 .. Len(files[f])) : f \in 1 .. Len(files)}

DataPlaces == {a \in Places : At(a).kind = "data"}

Before(a, b) == a[1] < b[1] \/ (a[1] = b[1] /\ a[2] < b[2])

\* A file can be read without the others: every message in it comes after the
\* metadata of its type in the same file, however often the log was split or moved.
SelfDescribing ==
  \A a \in DataPlaces :
    \E i \in 1 .. a[2] - 1 : LET m == files[a[1]][i] IN
      m.kind = "metadata" /\ m.type = At(a).type

\* The files hold whole messages, each at most once, and those of one producer
\* in the order it logged them, across files too.
InOrder ==
  /\ \A a \in DataPlaces : At(a).call \in Calls
  /\ \A a, b \in DataPlaces :
       Before(a, b) /\ At(a).call[1] = At(b).call[1] => At(a).call[2] < At(b).call[2]

\* Two messages of a type logged under the same topic carry the same variant, in
\* whichever files they are; logged under different ones they carry different
\* variants, until the type has more topics than a variant can tell apart.
VariantsAgree ==
  \A a, b \in DataPlaces : At(a).type = At(b).type =>
    /\ TopicOf[At(a).call] = TopicOf[At(b).call] => At(a).variant = At(b).variant
    /\ At(a).variant = At(b).variant =>
         \/ TopicOf[At(a).call] = TopicOf[At(b).call]
         \/ Len(variant_dictionary[At(a).type]) >= VariantSpan

\* The bytes of the messages among a file's first records, for any number of them.
BytesUpTo(file) ==
  LET sum[n \in 0 .. Len(file)] == IF n = 0 THEN 0 ELSE sum[n - 1] + file[n].size IN sum

\* A file is split as soon as its messages exceed the limit.
SplitInTime ==
  \A f \in 1 .. Len(files) : \A last \in 1 .. Len(files[f]) :
    files[f][last].kind = "data" => BytesUpTo(files[f])[last - 1] <= SplitSize

\* Each record of the log, past the place setFileWriteCallback returned, is given
\* to the callback: joined to the file up to there, a subscriber misses nothing.
NoGap ==
  spc = "told" => \A a \in Places :
    Before(told, a) => a \in heard \/ (tpc \in {"metacb", "cb"} /\ a = LastWritten)

IsWritten(c) == \E a \in DataPlaces : At(a).call = c

\* When the logger thread has ended and closed the file, every call that had
\* returned true before endLogging is in the log (if files can be opened).
PromisesKept ==
  tpc = "done" /\ BadDirs = {} => \A c \in promised \ Rejected : IsWritten(c)

\* write() is given an open stream: the assertion in its loop never fails.
NeverAborts == tpc # "abort"

\* A call that returned true before endLogging is written, whether or not the
\* logging is ended afterwards.
EventuallyWritten == \A c \in Calls : (c \in accepted /\ ~quit_thread) ~> IsWritten(c)

\* endLogging returns: the logger thread finds the queue empty and ends.
EndLoggingReturns == (app = "joining") ~> (app = "deleted")
-----------------------------------------------------------------------------
(* Why it holds: the inductive invariant, for the description of the types *)
(* and the numbering of the topics.                                        *)

Described(f, t) ==
  \E i \in 1 .. Len(files[f]) : files[f][i].kind = "metadata" /\ files[f][i].type = t

\* Only padding is of no call.
Called == \A i \in Live : allocations[i].type # "Dummy" => allocations[i].call \in Calls

\* What the logger thread handles stays at the head of the buffer meanwhile.
HeadHeld ==
  /\ tpc \in {"open", "packet", "check", "metacb", "write"} => cpc = "holding"
  /\ tpc \in {"check", "metacb", "write"} => Head_.type = "Populated"
  /\ tpc = "cb" => cpc = "read"

\* The dictionary is that of the open file.  With no file it is empty, but for
\* the type added when the file was closed under serialize_metadata: then the
\* write that follows cannot succeed.
DictionaryFits ==
  /\ stream # 0 => \A t \in dictionary : Described(stream, t)
  /\ stream = 0 => dictionary = {} \/ tpc \in {"write", "abort"}
  /\ stream # 0 /\ tpc = "metacb" => Described(stream, TypeOf[Head_.call])
  /\ stream # 0 /\ tpc = "write" => TypeOf[Head_.call] \in dictionary
  /\ tpc = "reopen" => stream = 0

DataDescribed ==
  \A f \in 1 .. Len(files) : \A i \in 1 .. Len(files[f]) : files[f][i].kind = "data" =>
    \E j \in 1 .. i - 1 : files[f][j].kind = "metadata" /\ files[f][j].type = files[f][i].type

\* A type's topics are all different, and a message's variant is made of the place
\* of its own among them.
Numbered(r) ==
  /\ r.call \in Calls /\ r.type = TypeOf[r.call]
  /\ TopicOf[r.call] = NoTopic => r.variant = 0
  /\ TopicOf[r.call] # NoTopic =>
       \E i \in 1 .. Len(variant_dictionary[r.type]) :
         variant_dictionary[r.type][i] = TopicOf[r.call] /\ r.variant = setVariant(i)

TopicsNumbered ==
  /\ \A t \in Types : \A i, j \in 1 .. Len(variant_dictionary[t]) :
       variant_dictionary[t][i] = variant_dictionary[t][j] => i = j
  /\ \A f \in 1 .. Len(files) : \A i \in 1 .. Len(files[f]) :
       files[f][i].kind = "data" => Numbered(files[f][i])

\* The inductive invariant of the proofs: of the buffer, and of what the logger
\* thread writes from it.
LogIInv ==
  IInv /\ LogTypeOK /\ Called /\ HeadHeld /\ DictionaryFits /\ DataDescribed /\ TopicsNumbered
-----------------------------------------------------------------------------
(* And for what becomes of each call: the part of the invariant about the   *)
(* way from serialize to the files, the subscriber and the splits.          *)

\* How many calls of p have had their allocation.
Reserved(p) == IF pc[p] \in {"alloc", "wait"} THEN calls[p] - 1 ELSE calls[p]

\* Of one producer, c was called before d.
CalledBefore(c, d) == c[1] = d[1] => c[2] < d[2]

\* What is in the buffer comes after what is in the files, and a producer's next
\* allocation after both.
CallsOrdered ==
  /\ \A i, j \in Held : i < j => CalledBefore(allocations[i].call, allocations[j].call)
  /\ \A a \in DataPlaces : \A i \in Held : CalledBefore(At(a).call, allocations[i].call)
  /\ \A i \in Held : allocations[i].call[2] <= Reserved(allocations[i].call[1])
  /\ \A a \in DataPlaces : At(a).call[2] <= Reserved(At(a).call[1])
  /\ InOrder

Queued(c) == \E i \in Held : allocations[i].type = "Populated" /\ allocations[i].call = c

\* A call that returned true is in the buffer or in the log, and past the drain loop
\* no longer in the buffer.
NothingLost ==
  /\ BadDirs = {} => \A c \in accepted \ Rejected : IsWritten(c) \/ Queued(c)
  /\ BadDirs = {} /\ tpc \in {"close", "done"} => \A c \in promised \ Rejected : IsWritten(c)
  /\ draining \/ tpc \in {"close", "done"} => quit_thread
  /\ app = "running" => ~quit_thread

\* While there is a subscriber the callbacks of both objects are set.
Subscribed ==
  /\ spc \in {"set", "setcos", "told"} => file_write_callback_
  /\ spc \in {"setcos", "told"} => cosCallback
  /\ NoGap

\* current_file_size is the size of the open file, until PacketCallback without the
\* message just written.
SizeCounted ==
  /\ stream # 0 =>
       BytesUpTo(files[stream])[Len(files[stream])]
         = current_file_size + (IF tpc = "cb" THEN Head_.size ELSE 0)
  /\ stream # 0 /\ tpc \notin {"cb", "split"} => current_file_size <= SplitSize
  /\ SplitInTime

HistoryIInv == LogIInv /\ CallsOrdered /\ NothingLost /\ Subscribed /\ SizeCounted
=============================================================================
