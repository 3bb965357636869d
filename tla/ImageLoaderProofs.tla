-------------------------- MODULE ImageLoaderProofs --------------------------
(***************************************************************************)
(* What the image download guarantees for every number of downloads: the   *)
(* event alone makes the shared temporary file safe to read, lazily too,   *)
(* and the promise of Job is kept.                                         *)
(***************************************************************************)
EXTENDS ImageLoader, TLAPS

\* Once there was a download the main thread waits for its event before it takes
\* anything, and is free only after that.
Waited ==
  /\ main \in {"get_image", "open", "use"} => event
  /\ main = "idle" /\ round # 0 => event
  /\ round = 0 => main = "idle" /\ thread = "none"

\* A retriever that says "file" has written all of it, and no other writes.
SaidOfFile ==
  /\ thread = "download" => file.of = round
  /\ thread \in {"none", "begin", "download"} => data # "file"
  /\ data = "file" => file = [of |-> round, whole |-> TRUE]
  /\ main \in {"open", "use"} => data = "file"

Inv == TypeOK /\ Waited /\ SaidOfFile

-----------------------------------------------------------------------------
LEMMA InitInv == Init => Inv
<1> SUFFICES ASSUME Init PROVE Inv
  OBVIOUS
<1>1. round \in 0..MaxRounds /\ file \in [of : 0..MaxRounds, whole : BOOLEAN]
  BY RoundsAssumption DEF Init
<1>2. event \in BOOLEAN /\ event = FALSE
  BY DEF Init
<1> QED BY <1>1, <1>2 DEF Init, Inv, TypeOK, Waited, SaidOfFile

LEMMA MainInv == Inv /\ Main => Inv'
<1> SUFFICES ASSUME Inv, Main PROVE Inv'
  OBVIOUS
<1> USE DEF Inv, TypeOK, Waited, SaidOfFile, MainMoves
<1>1. CASE StartGetImage
  <2>1. round' \in 0..MaxRounds /\ round' # 0
    BY <1>1, RoundsAssumption DEF StartGetImage
  <2>2. event' = FALSE
    BY <1>1 DEF StartGetImage
  <2> QED BY <1>1, <2>1, <2>2 DEF StartGetImage
<1>2. CASE ConstructorEnds BY <1>2 DEF ConstructorEnds
<1>3. CASE Poll BY <1>3 DEF Poll, ready
<1>4. CASE GetData BY <1>4 DEF GetData
<1>5. CASE GetFromFile BY <1>5 DEF GetFromFile
<1>6. CASE UseImage BY <1>6 DEF UseImage
<1> QED BY <1>1, <1>2, <1>3, <1>4, <1>5, <1>6 DEF Main

LEMMA RetrieverInv == Inv /\ Retriever => Inv'
<1> SUFFICES ASSUME Inv, Retriever PROVE Inv'
  OBVIOUS
<1> USE DEF Inv, TypeOK, Waited, SaidOfFile, ThreadMoves
<1>1. CASE BeginDownload
  <2>1. file' \in [of : 0..MaxRounds, whole : BOOLEAN] /\ file'.of = round
    BY <1>1 DEF BeginDownload
  <2> QED BY <1>1, <2>1 DEF BeginDownload
<1>2. CASE NoConnection BY <1>2 DEF NoConnection
<1>3. CASE \E whole \in BOOLEAN : EndDownload(whole)
  <2>1. PICK whole \in BOOLEAN : EndDownload(whole)
    BY <1>3
  <2>2. file' = [of |-> round, whole |-> whole]
    BY <2>1 DEF EndDownload
  <2>3. data' = "file" => whole = TRUE
    BY <2>1 DEF EndDownload, DataOfPartial
  <2> QED BY <2>1, <2>2, <2>3 DEF EndDownload, DataOfPartial
<1>4. CASE SetEvent BY <1>4 DEF SetEvent, SetLast
<1> QED BY <1>1, <1>2, <1>3, <1>4 DEF Retriever

LEMMA NextInv == Inv /\ [Next]_vars => Inv'
<1> SUFFICES ASSUME Inv, [Next]_vars PROVE Inv'
  OBVIOUS
<1>1. CASE Main BY <1>1, MainInv
<1>2. CASE Retriever BY <1>2, RetrieverInv
<1>3. CASE UNCHANGED vars BY <1>3 DEF vars, Inv, TypeOK, Waited, SaidOfFile
<1> QED BY <1>1, <1>2, <1>3 DEF Next

\* The event orders the two threads in every reachable state.
THEOREM Invariance == Spec => []Inv
  BY InitInv, NextInv, PTL DEF Spec

\* TypeOK for every number of downloads; the event is the last thing a retriever does.
THEOREM TypeCorrect == Spec => []TypeOK
<1>1. Inv => TypeOK BY DEF Inv
<1> QED BY <1>1, Invariance, PTL

\* A picture is only read from the whole file of the newest download.
THEOREM WholePicture == Spec => []ImageIsWhole
<1>1. Inv => ImageIsWhole BY DEF Inv, SaidOfFile, ImageIsWhole
<1> QED BY <1>1, Invariance, PTL

-----------------------------------------------------------------------------
(* Refinement: every step of a download is a step of Job or a stutter *)

LEMMA MainMaps == Inv /\ Main => [TheJob!Next]_statusBar
<1> SUFFICES ASSUME Inv, Main PROVE [TheJob!Next]_statusBar
  OBVIOUS
<1> USE DEF statusBar, MainMoves
<1>1. CASE StartGetImage
  <2>1. round' # 0
    BY <1>1 DEF StartGetImage, Inv, TypeOK
  <2>2. statusBar # "running" /\ statusBar' = "running"
    BY <1>1, <2>1 DEF StartGetImage, Inv, Waited
  <2> QED BY <2>2 DEF TheJob!Next, TheJob!Launch
<1>2. CASE ConstructorEnds
  <2>1. statusBar = "running" /\ statusBar' \in {"running", "failed"}
    BY <1>2 DEF ConstructorEnds, Inv, Waited
  <2> QED BY <2>1 DEF TheJob!Next, TheJob!Finish
<1>3. CASE Poll \/ GetData \/ GetFromFile \/ UseImage
  BY <1>3 DEF Poll, GetData, GetFromFile, UseImage
<1> QED BY <1>1, <1>2, <1>3 DEF Main

LEMMA RetrieverMaps == Inv /\ Retriever => [TheJob!Next]_statusBar
<1> SUFFICES ASSUME Inv, Retriever PROVE [TheJob!Next]_statusBar
  OBVIOUS
<1> USE DEF statusBar, ThreadMoves
<1>1. CASE BeginDownload \/ NoConnection \/ \E whole \in BOOLEAN : EndDownload(whole)
  BY <1>1 DEF BeginDownload, NoConnection, EndDownload, Inv, TypeOK
<1>2. CASE SetEvent
  <2>1. statusBar = "running" /\ statusBar' \in {"running", "ok", "failed"}
    BY <1>2 DEF SetEvent, SetLast, Inv, TypeOK, Waited
  <2> QED BY <2>1 DEF TheJob!Next, TheJob!Finish
<1> QED BY <1>1, <1>2 DEF Retriever

LEMMA NextMaps == Inv /\ [Next]_vars => [TheJob!Next]_statusBar
<1> SUFFICES ASSUME Inv, [Next]_vars PROVE [TheJob!Next]_statusBar
  OBVIOUS
<1>1. CASE Main BY <1>1, MainMaps
<1>2. CASE Retriever BY <1>2, RetrieverMaps
<1>3. CASE UNCHANGED vars BY <1>3 DEF vars, statusBar
<1> QED BY <1>1, <1>2, <1>3 DEF Next

\* A download is a Job (IsJob): its outcome stays as the main thread first sees it.
THEOREM ImplementsJob == Spec => IsJob
<1>1. Init => TheJob!Init BY DEF Init, TheJob!Init, statusBar
<1> QED BY <1>1, NextMaps, InitInv, NextInv, PTL DEF Spec, IsJob, TheJob!SafeSpec

=============================================================================
