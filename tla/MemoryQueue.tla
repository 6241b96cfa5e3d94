----------------------------- MODULE MemoryQueue ----------------------------
(***************************************************************************)
(* The in-memory queue of mode all: a Go channel per topic, whose senders  *)
(* wait for room, with one consumer each. Three topics matter, because     *)
(* their consumers send to each other:                                     *)
(*   events    worker-events; the processor sends an upload job for a file *)
(*             that was transcoded, and starts a goroutine that sends one  *)
(*             for each file of a torrent that was downloaded;             *)
(*   uploads   cloud-upload-jobs; an upload emits up to two events;        *)
(*   commands  download-jobs and file-ops-jobs; a command for this worker  *)
(*             emits an event, one for another worker is put back.         *)
(* When the program ends, consumers are closed one by one, and then the    *)
(* process ends; it may also be killed. Nothing of the queue outlives it.  *)
(***************************************************************************)
EXTENDS Naturals, Sequences, FiniteSets

CONSTANTS BufSize,      \* room in a channel
          Files,        \* upload jobs for a torrent that was downloaded
          MaxNotes,     \* bound: events of downloads that lead to nothing here
          MaxFinished,  \* bound: downloads and transcodings that finish
          MaxCommands   \* bound: commands

ASSUME MemoryQueueAssumption ==
  /\ {BufSize, Files} \subseteq Nat \ {0}
  /\ {MaxNotes, MaxFinished, MaxCommands} \subseteq Nat

VARIABLES
  events, uploads, commands,  \* the channels
  busy,     \* what each consumer, and the goroutines of the checker, have yet to send
  parked,   \* commands that goroutines of the consumer wait to put back
  closed,   \* consumers that were closed
  stopped,  \* the process has ended
  posted,   \* history: how often Send took each message
  handled,  \* history: how often a handler got each message that was for it
  lost,     \* history: how often a message went with its goroutine or its channel
  forgone   \* history: upload jobs for which Send did not return, or failed

channels == <<events, uploads, commands>>
history == <<posted, handled, lost, forgone>>
memoryVars == <<channels, busy, parked, closed, stopped, history>>

Consumes == {"processor", "uploader", "commander"}
Workers == Consumes \cup {"checker"}
Event == {"note", "downloaded", "transcoded"}
Command == {"mine", "other"}
Message == Event \cup Command \cup {"upload"}
EventsPerUpload == 1 .. 2

Finished == posted["downloaded"] + posted["transcoded"]
Issued == posted["mine"] + posted["other"]

MemoryTypeOK ==
  /\ events \in Seq(Event) /\ Len(events) <= BufSize
  /\ uploads \in 0 .. BufSize
  /\ commands \in Seq(Command) /\ Len(commands) <= BufSize
  /\ busy \in [Workers -> Nat]
  /\ busy["processor"] <= 1 /\ busy["checker"] <= Files * MaxFinished
  /\ busy["uploader"] <= 2 /\ busy["commander"] <= 1
  /\ parked \in 0 .. MaxCommands
  /\ closed \subseteq Consumes
  /\ stopped \in BOOLEAN
  /\ {posted, handled, lost} \subseteq [Message -> Nat]
  /\ Finished <= MaxFinished /\ Issued <= MaxCommands
  /\ forgone \in 0 .. Files * MaxFinished

Idle == [w \in Workers |-> 0]
Never == [m \in Message |-> 0]

MemoryInit ==
  /\ events = <<>> /\ uploads = 0 /\ commands = <<>>
  /\ busy = Idle
  /\ parked = 0 /\ closed = {} /\ stopped = FALSE
  /\ posted = Never /\ handled = Never /\ lost = Never
  /\ forgone = 0

-----------------------------------------------------------------------------
(* Those who send: the goroutines of downloads, and the requests *)

RoomForEvent == Len(events) < BufSize
RoomForUpload == uploads < BufSize
RoomForCommand == Len(commands) < BufSize

Posts(message) == posted' = [posted EXCEPT ![message] = @ + 1]
Emit(event) == RoomForEvent /\ events' = Append(events, event) /\ Posts(event)

Notes ==
  /\ posted["note"] < MaxNotes
  /\ Emit("note")
  /\ UNCHANGED <<uploads, commands, busy, parked, closed, stopped, handled, lost, forgone>>

Finishes(event) ==
  /\ event # "note"
  /\ Finished < MaxFinished
  /\ Emit(event)
  /\ UNCHANGED <<uploads, commands, busy, parked, closed, stopped, handled, lost, forgone>>

Request(kind) ==
  /\ Issued < MaxCommands
  /\ RoomForCommand
  /\ commands' = Append(commands, kind)
  /\ Posts(kind)
  /\ UNCHANGED <<events, uploads, busy, parked, closed, stopped, handled, lost, forgone>>

-----------------------------------------------------------------------------
(* The consumers. One that was closed may yet take messages: consumeTopic leaves its     *)
(* loop when the choice between a message and the end of its context falls on the latter. *)

\* Mutant of CanTakeEvent: the processor waits until there is room for what it may send.
CanTakeEventWithRoom == busy["processor"] = 0 /\ events # <<>> /\ RoomForUpload

\* What each of them waits for.
CanTakeEvent == busy["processor"] = 0 /\ events # <<>>
CanQueueUpload(w) == w \in {"processor", "checker"} /\ busy[w] > 0 /\ RoomForUpload
CanTakeUpload == busy["uploader"] = 0 /\ uploads > 0
CanAnswer(w) == w \in {"uploader", "commander"} /\ busy[w] > 0 /\ RoomForEvent
CanTake(kind) == busy["commander"] = 0 /\ commands # <<>> /\ Head(commands) = kind
CanPutBack == parked > 0 /\ RoomForCommand

Handles(message) == handled' = [handled EXCEPT ![message] = @ + 1]

TakeEvent ==
  /\ CanTakeEvent
  /\ events' = Tail(events)
  /\ Handles(Head(events))
  /\ busy' = [busy EXCEPT
       !["processor"] = IF Head(events) = "transcoded" THEN 1 ELSE 0,
       !["checker"] = IF Head(events) = "downloaded" THEN @ + Files ELSE @]
  /\ UNCHANGED <<uploads, commands, parked, closed, stopped, posted, lost, forgone>>

QueueUpload(w) ==
  /\ CanQueueUpload(w)
  /\ uploads' = uploads + 1
  /\ Posts("upload")
  /\ busy' = [busy EXCEPT ![w] = @ - 1]
  /\ UNCHANGED <<events, commands, parked, closed, stopped, handled, lost, forgone>>

TakeUpload ==
  /\ CanTakeUpload
  /\ uploads' = uploads - 1
  /\ Handles("upload")
  /\ \E n \in EventsPerUpload : busy' = [busy EXCEPT !["uploader"] = n]
  /\ UNCHANGED <<events, commands, parked, closed, stopped, posted, lost, forgone>>

Answer(w) ==
  /\ CanAnswer(w)
  /\ Emit("note")
  /\ busy' = [busy EXCEPT ![w] = @ - 1]
  /\ UNCHANGED <<uploads, commands, parked, closed, stopped, handled, lost, forgone>>

Takes(kind) == CanTake(kind) /\ commands' = Tail(commands)

Execute ==
  /\ Takes("mine")
  /\ Handles("mine")
  /\ busy' = [busy EXCEPT !["commander"] = 1]
  /\ UNCHANGED <<events, uploads, parked, closed, stopped, posted, lost, forgone>>

Park ==
  /\ Takes("other")
  /\ parked' = parked + 1
  /\ UNCHANGED <<events, uploads, busy, closed, stopped, history>>

\* Mutant of PutBack: the goroutine does not wait for room.
PutBackIfRoom ==
  /\ parked > 0
  /\ commands' = IF RoomForCommand THEN Append(commands, "other") ELSE commands
  /\ parked' = parked - 1
  /\ UNCHANGED <<events, uploads, busy, closed, stopped, history>>

PutBack ==
  /\ CanPutBack
  /\ commands' = Append(commands, "other")
  /\ parked' = parked - 1
  /\ UNCHANGED <<events, uploads, busy, closed, stopped, history>>

Consume == TakeEvent \/ TakeUpload \/ Execute \/ Park

Progress == Consume \/ PutBack \/ \E w \in Workers : QueueUpload(w) \/ Answer(w)

-----------------------------------------------------------------------------
(* The end *)

ClosedBefore ==
  [uploader |-> {}, commander |-> {"uploader"}, processor |-> {"uploader", "commander"}]

Close(w) ==
  /\ w \notin closed
  /\ ClosedBefore[w] \subseteq closed
  /\ closed' = closed \cup {w}
  /\ UNCHANGED <<channels, busy, parked, stopped, history>>

\* A handler passes the context of its consumer to Send, which fails when that is closed;
\* the goroutines of the checker have one that never ends.
GiveUp(w) ==
  /\ w \in closed
  /\ busy[w] > 0
  /\ busy' = [busy EXCEPT ![w] = @ - 1]
  /\ forgone' = IF w = "processor" THEN forgone + 1 ELSE forgone
  /\ UNCHANGED <<channels, parked, closed, stopped, posted, handled, lost>>

\* The goroutine that was to put a command back ends with its consumer.
Discard ==
  /\ "commander" \in closed
  /\ parked > 0
  /\ parked' = parked - 1
  /\ lost' = [lost EXCEPT !["other"] = @ + 1]
  /\ UNCHANGED <<channels, busy, closed, stopped, posted, handled, forgone>>

\* How often a message is in a channel.
Count(channel, message) == Cardinality({i \in 1 .. Len(channel) : channel[i] = message})

\* How often the program holds a message that was sent and not handled.
InMemory ==
  [message \in Message |->
    CASE message \in Event -> Count(events, message)
      [] message = "upload" -> uploads
      [] message = "mine" -> Count(commands, message)
      [] message = "other" -> Count(commands, message) + parked]

\* The process ends or is killed, with all that it holds; the next one starts anew.
Stop ==
  /\ stopped' = TRUE
  /\ lost' = [message \in Message |-> lost[message] + InMemory[message]]
  /\ forgone' = forgone + busy["processor"] + busy["checker"]
  /\ events' = <<>> /\ uploads' = 0 /\ commands' = <<>>
  /\ busy' = Idle /\ parked' = 0
  /\ UNCHANGED <<closed, posted, handled>>

Ends == Discard \/ Stop \/ \E w \in Consumes : Close(w) \/ GiveUp(w)

MemoryNext ==
  /\ ~ stopped
  /\ \/ Notes
     \/ \E event \in Event : Finishes(event)
     \/ \E kind \in Command : Request(kind)
     \/ Progress
     \/ Ends

-----------------------------------------------------------------------------

\* Every message that Send took was handled once, is in its channel or parked, or was lost.
MessagesKept ==
  \A message \in Message :
    posted[message] = handled[message] + InMemory[message] + lost[message]

\* Every upload job that handled events call for was sent, is about to be, or was forgone.
UploadsFollow ==
  Files * handled["downloaded"] + handled["transcoded"]
    = posted["upload"] + busy["processor"] + busy["checker"] + forgone

\* As long as the process lives, only commands that were parked are lost, after their
\* consumer was closed, and only a closed processor forgoes upload jobs.
LostAtTheEnd ==
  ~ stopped =>
    /\ \A message \in Message \ {"other"} : lost[message] = 0
    /\ lost["other"] > 0 => "commander" \in closed
    /\ forgone > 0 => "processor" \in closed

\* The processor waits for room for an upload, and the uploader for room for an event.
Deadlocked ==
  /\ busy["processor"] > 0 /\ uploads = BufSize
  /\ busy["uploader"] > 0 /\ Len(events) = BufSize

Pending == events # <<>> \/ uploads > 0 \/ commands # <<>> \/ parked > 0
           \/ \E w \in Workers : busy[w] > 0

\* Progress can be made: the step that someone waits for is possible.
CanProgress ==
  \/ CanTakeEvent \/ CanTakeUpload \/ CanPutBack
  \/ \E kind \in Command : CanTake(kind)
  \/ \E w \in Workers : CanQueueUpload(w) \/ CanAnswer(w)

\* As long as no consumer was closed the program stands still in one way only: the
\* processor and the uploader wait for each other, which takes a channel full of uploads
\* while one of them runs long enough for the other channel to fill. Commands that are put
\* back never fill their own channel up for good, and checker and commander wait for
\* nobody who waits for them.
StallsInOneWay == closed = {} /\ Pending /\ ~ CanProgress => Deadlocked

=============================================================================
