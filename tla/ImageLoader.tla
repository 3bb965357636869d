---------------------------- MODULE ImageLoader ----------------------------
(***************************************************************************)
(* The image download: image_loader and its thread image_retriever         *)
(* (src/src/lib/image_loader.py).  The main thread creates a retriever,    *)
(* polls its event, takes its data and opens the temporary file, which     *)
(* PIL reads lazily, that is, also after get_image() has returned.  All    *)
(* retrievers write the same temporary file and share no lock with the     *)
(* main thread; only the event orders them.                                *)
(***************************************************************************)
EXTENDS Naturals

CONSTANT MaxRounds   \* bound on the number of downloads

ASSUME RoundsAssumption == MaxRounds \in Nat \ {0}

VARIABLES
  round,   \* number of the download started last
  main,    \* where the main thread is
  thread,  \* where the newest image_retriever is in run()
  event,   \* its event is set
  data,    \* its attribute data: "unset", "none", or "file"
  file     \* the temporary file: the download it is from, and whether it is whole

vars == <<round, main, thread, event, data, file>>

Init ==
  /\ round = 0 /\ main = "idle"
  /\ thread = "none" /\ event = FALSE /\ data = "unset"
  /\ file = [of |-> 0, whole |-> FALSE]

MainMoves(from, to) == main = from /\ main' = to
ThreadMoves(from, to) == thread = from /\ thread' = to

-----------------------------------------------------------------------------
(* The main thread *)

\* start_get_image creates an image_retriever, whose constructor starts the thread...
StartGetImage ==
  /\ MainMoves("idle", "constructing")
  /\ round < MaxRounds /\ round' = round + 1
  /\ thread' = "begin" /\ event' = FALSE /\ data' = "unset"
  /\ UNCHANGED file

\* ... and then sets data to None, whatever the thread has done meanwhile.
ConstructorEnds ==
  /\ MainMoves("constructing", "polling")
  /\ data' = "none"
  /\ UNCHANGED <<round, thread, event, file>>

NeverReady == FALSE                                              \* faulty
ready == event

\* done() is true: the beacon calls get_image().
Poll ==
  /\ MainMoves("polling", "get_image")
  /\ ready
  /\ UNCHANGED <<round, thread, event, data, file>>

\* get_image waits for the event and takes the data: without any it returns None,
\* else it opens the file.
GetData ==
  /\ event
  /\ MainMoves("get_image", IF data = "file" THEN "open" ELSE "idle")
  /\ UNCHANGED <<round, thread, event, data, file>>

\* get_from_file: it may throw, it may have to resize and so to read the file, or
\* it leaves the reading to the caller.
GetFromFile ==
  /\ main = "open" /\ main' \in {"idle", "use"}
  /\ UNCHANGED <<round, thread, event, data, file>>

\* The caller draws on the image and is done with it.
UseImage ==
  /\ MainMoves("use", "idle")
  /\ UNCHANGED <<round, thread, event, data, file>>

-----------------------------------------------------------------------------
(* The retriever thread *)

\* run() until urlretrieve has opened the temporary file, which truncates it.
BeginDownload ==
  /\ ThreadMoves("begin", "download")
  /\ data' = "none"
  /\ file' = [of |-> round, whole |-> FALSE]
  /\ UNCHANGED <<round, main, event>>

\* The host does not answer: no file is opened.
NoConnection ==
  /\ ThreadMoves("begin", "downloaded")
  /\ data' = "none"
  /\ UNCHANGED <<round, main, event, file>>

ReportsPartial == "file"                                         \* faulty
DataOfPartial == "none"

\* urlretrieve returns the whole file, or raises in the middle of it.  It notices a file
\* that is too short by the Content-Length, which the camera is taken to send.
EndDownload(whole) ==
  /\ ThreadMoves("download", "downloaded")
  /\ file' = [file EXCEPT !.whole = whole]
  /\ data' = IF whole THEN "file" ELSE DataOfPartial
  /\ UNCHANGED <<round, main, event>>

SetEarly == thread = "download" /\ thread' = thread              \* faulty
SetLast == ThreadMoves("downloaded", "ended")

SetEvent ==
  /\ SetLast
  /\ event' = TRUE
  /\ UNCHANGED <<round, main, data, file>>

-----------------------------------------------------------------------------
Main == StartGetImage \/ ConstructorEnds \/ Poll \/ GetData \/ GetFromFile \/ UseImage

Retriever ==
  BeginDownload \/ NoConnection \/ (\E whole \in BOOLEAN : EndDownload(whole)) \/ SetEvent

Next == Main \/ Retriever

\* Both threads run, but nothing bounds the time urlretrieve takes.
Spec ==
  /\ Init /\ [][Next]_vars
  /\ WF_vars(ConstructorEnds) /\ WF_vars(Poll) /\ WF_vars(GetData)
  /\ WF_vars(GetFromFile) /\ WF_vars(UseImage) /\ WF_vars(SetEvent)

-----------------------------------------------------------------------------
(* Properties *)

\* Types; and the event is the last thing a retriever does.
TypeOK ==
  /\ round \in 0..MaxRounds
  /\ main \in {"idle", "constructing", "polling", "get_image", "open", "use"}
  /\ thread \in {"none", "begin", "download", "downloaded", "ended"}
  /\ event \in BOOLEAN /\ (event => thread = "ended")
  /\ data \in {"unset", "none", "file"}
  /\ file \in [of : 0..MaxRounds, whole : BOOLEAN]

\* A picture is read, even lazily, only from the whole file of the newest download:
\* no retriever is writing the shared temporary file meanwhile.
ImageIsWhole == main \in {"open", "use"} => file = [of |-> round, whole |-> TRUE]

\* A download that has ended is noticed, and the main thread becomes free again.
EndIsNoticed == thread = "downloaded" ~> main = "idle"

\* The download is a Job: its outcome does not change once the main thread can see it.
statusBar ==
  IF round = 0 THEN "idle"
  ELSE IF main = "constructing" \/ ~event THEN "running"
  ELSE IF data = "file" THEN "ok" ELSE "failed"
TheJob == INSTANCE Job WITH status <- statusBar
IsJob == TheJob!SafeSpec

=============================================================================
