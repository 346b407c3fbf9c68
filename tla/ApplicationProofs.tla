------------------------- MODULE ApplicationProofs --------------------------
(***************************************************************************)
(* Proofs about the command line and the application with the gallery.     *)
(* The gallery of DropAFile, for any number of uploads and pieces, and for *)
(* operations of the card that fail at any time: pictures are never taken  *)
(* back but where a rename failed half way and, one connection at a time,  *)
(* every slot holds what came of one upload; unless a rename failed or a   *)
(* press met the filing of a picture gallery.meta never counts a picture   *)
(* that is not there, and unless something else that files or counts one   *)
(* failed too no upload received is lost.  The command line of Console,    *)
(* for any programs, lines, memory and width of int: a run does what its   *)
(* program says, a program is changed by its editor alone, and the net     *)
(* task finds a netif.                                                     *)
(***************************************************************************)
EXTENDS DropAFile, Console, FiniteSetTheorems, SequenceTheorems, TLAPS

\* What is left of FinishSteps after 0, 1, ... of its steps.
Rest1 == <<"rename", "saveBg", "openMeta", "writeMeta", "handOff">>
Rest2 == <<"saveBg", "openMeta", "writeMeta", "handOff">>
Rest3 == <<"openMeta", "writeMeta", "handOff">>
Rest4 == <<"writeMeta", "handOff">>
Rest5 == <<"handOff">>

Todos == {FinishSteps, Rest1, Rest2, Rest3, Rest4, Rest5, <<>>}

LEMMA TodoSteps ==
    ASSUME NEW todo \in Todos, todo # <<>>
    PROVE  /\ Head(todo) = "path"      => todo = FinishSteps /\ Tail(todo) = Rest1
           /\ Head(todo) = "rename"    => todo = Rest1 /\ Tail(todo) = Rest2
           /\ Head(todo) = "saveBg"    => todo = Rest2 /\ Tail(todo) = Rest3
           /\ Head(todo) = "openMeta"  => /\ todo = Rest3 /\ Tail(todo) = Rest4
                                          /\ Tail(Tail(todo)) = Rest5
           /\ Head(todo) = "writeMeta" => todo = Rest4 /\ Tail(todo) = Rest5
           /\ Head(todo) = "handOff"   => todo = Rest5 /\ Tail(todo) = <<>>
<1> USE DEF FinishSteps, Rest1, Rest2, Rest3, Rest4, Rest5
<1>1. CASE todo = FinishSteps
  BY <1>1
<1>2. CASE todo = Rest1
  BY <1>2
<1>3. CASE todo = Rest2
  BY <1>3
<1>4. CASE todo = Rest3
  BY <1>4
<1>5. CASE todo = Rest4
  BY <1>5
<1>6. CASE todo = Rest5
  BY <1>6
<1> QED
  BY <1>1, <1>2, <1>3, <1>4, <1>5, <1>6 DEF Todos

LEMMA TodoLengths ==
    /\ Len(FinishSteps) = 6 /\ Len(Rest1) = 5 /\ Len(Rest2) = 4 /\ Len(Rest3) = 3
    /\ Len(Rest4) = 2 /\ Len(Rest5) = 1 /\ Len(<<>>) = 0
BY DEF FinishSteps, Rest1, Rest2, Rest3, Rest4, Rest5

LEMMA TodosApart ==
    /\ <<>> \notin {FinishSteps, Rest1, Rest2, Rest3, Rest4, Rest5}
    /\ \A t \in {Rest2, Rest3, Rest4, Rest5, <<>>} : t # FinishSteps /\ t # Rest1
    /\ \A t \in {Rest5, <<>>} : t # Rest2 /\ t # Rest3 /\ t # Rest4
    /\ FinishSteps # Rest1 /\ FinishSteps # Rest5 /\ Rest1 # Rest5
    /\ \A t \in {FinishSteps, Rest1} : t # Rest2 /\ t # Rest3 /\ t # Rest4
<1>1. <<>> \notin {FinishSteps, Rest1, Rest2, Rest3, Rest4, Rest5}
  BY TodoLengths
<1>2. ASSUME NEW t, Len(t) \in 0 .. 4 PROVE t # FinishSteps /\ t # Rest1
  <2>1. \A s : s = FinishSteps => Len(s) = 6
    BY TodoLengths
  <2>2. \A s : s = Rest1 => Len(s) = 5
    BY TodoLengths
  <2> QED
    BY <1>2, <2>1, <2>2
<1>3. ASSUME NEW t, Len(t) \in 0 .. 1 PROVE t # Rest2 /\ t # Rest3 /\ t # Rest4
  <2>1. \A s : s = Rest2 => Len(s) = 4
    BY TodoLengths
  <2>2. \A s : s = Rest3 => Len(s) = 3
    BY TodoLengths
  <2>3. \A s : s = Rest4 => Len(s) = 2
    BY TodoLengths
  <2> QED
    BY <1>3, <2>1, <2>2, <2>3
<1>4. \A t \in {Rest2, Rest3, Rest4, Rest5, <<>>} : Len(t) \in 0 .. 4
  BY TodoLengths
<1>5. \A t \in {Rest5, <<>>} : Len(t) \in 0 .. 1
  BY TodoLengths
<1>6. FinishSteps # Rest1
  BY TodoLengths
<1> QED
  BY <1>1, <1>2, <1>3, <1>4, <1>5, <1>6
-----------------------------------------------------------------------------
(***************************************************************************)
(* The inductive invariant of the gallery.                                 *)
(***************************************************************************)
\* The first k pieces of u; what a slot and the panel may hold.
Part(u, k) == [i \in 1 .. k |-> u]
Pictures   == {Part(u, k) : u \in Uploads, k \in 0 .. Pieces} \cup {None, Garbled}
NavPoints  == {"poll", "openMeta", "writeMeta", "path", "handOff"}
DrawPoints == {"poll", "open", "rows", "drawn"}

\* Types, and that what a callback appends to is there: g_upload_file is not open
\* while httpd_post_finished() renames it.
GalleryTypes ==
    /\ conn \in [Uploads -> {"new", "open", "done"}]
    /\ sent \in [Uploads -> 0 .. Pieces]
    /\ staging \in Seq(Uploads) \cup {None}
    /\ image \in [Slots -> Seq(Uploads) \cup {None, Garbled}]
    /\ uploadOpen \in BOOLEAN
    /\ uploadOpen => staging # None /\ NetFree

\* One POST at a time; incoming.bmp holds pieces of one upload: of the open one all
\* that were counted, which are all that were sent as long as no write failed.
Staged ==
    /\ uploadOk \in BOOLEAN /\ uploadBytes \in Nat
    /\ \A u, v \in Uploads : conn[u] = "open" /\ conn[v] = "open" => u = v
    /\ \A u \in Uploads : conn[u] = "new" => sent[u] = 0
    /\ staging # None => \E u \in Uploads, k \in 0 .. Pieces : staging = Part(u, k)
    /\ \A u \in Uploads : conn[u] = "open" =>
         /\ uploadOpen /\ uploadBytes \in 0 .. sent[u] /\ staging = Part(u, uploadBytes)
         /\ uploadOk => uploadBytes = sent[u]

\* All that came of an upload that is over, or what a close that failed left of it.
Fileable(p) ==
    \/ \E u \in Uploads : conn[u] = "done" /\ sent[u] > 0 /\ p = Part(u, sent[u])
    \/ p = <<>> /\ "close" \in trouble

\* What is renamed into a slot, and what is in the slots.
Stored ==
    /\ net.todo \in {FinishSteps, Rest1} => Fileable(staging)
    /\ \A s \in Slots : \/ image[s] = None \/ Fileable(image[s])
                        \/ image[s] = Garbled /\ "rename" \in trouble
    /\ shared \subseteq Slots /\ (shared # {} => "rename" \in trouble)

\* The uploads that are over, well or badly: no more pictures can be counted.
Answered == {u \in Uploads : conn[u] = "done"}

\* No task's idea of the count passes the uploads that are over, however stale it
\* is; what is called current is counted.
Counted(count, current) ==
    /\ count \in Nat /\ current \in Nat
    /\ current < count /\ count <= Cardinality(Answered)

Counts ==
    /\ meta # None => meta = [count |-> meta.count, current |-> meta.current]
                      /\ Counted(meta.count, meta.current)
    /\ nav \in [at : NavPoints, count : Nat, current : Nat]
    /\ nav.at # "poll" => Counted(nav.count, nav.current)
    /\ net \in [todo : Todos, count : Nat] /\ net.count <= Cardinality(Answered)
    /\ net.todo # <<>> => net.count < Cardinality(Answered)

\* Whoever goes by g_draw_path finds a slot's path in it.
Paths ==
    /\ drawPath \in Slots \cup {None}
    /\ \/ drawPending
       \/ draw.at # "poll"
       \/ nav.at = "handOff"
       \/ net.todo \in {Rest1, Rest2, Rest3, Rest4, Rest5}
       => drawPath \in Slots

Shows ==
    /\ bgFile \in [Slots -> Colours]
    /\ drawPending \in BOOLEAN /\ bgColor \in Colours /\ drawBg \in Colours
    /\ draw \in [at : DrawPoints, bg : Colours, slot : Slots \cup {None}]
    /\ draw.at = "rows" => draw.slot \in Slots
    /\ panel \in [pic : Pictures, bg : Colours]

\* A count of n is no more than the pictures that are there.
Saved(n) == \A i \in Slots : i < n => image[i] # None

\* While no rename has failed and no press met the filing of a picture, whoever has a
\* count counts pictures that are there.
Quiet ==
    /\ meta # None => Saved(meta.count)
    /\ nav.at # "poll" => Saved(nav.count) /\ NetFree
    /\ net.todo # <<>> => Saved(net.count)
    /\ net.todo = Rest1 => drawPath = net.count
    /\ net.todo \in {Rest2, Rest3, Rest4, Rest5} => image[net.count] # None
QuietInv == Spared({"rename", "press"}) => Quiet

\* While nothing else that files or counts a picture failed either, the pictures fill
\* the slots from 0 on.
Filled(n) == \A i \in Slots : image[i] # None <=> i < n

\* Slot number count is free until the rename, which the last one received waits for;
\* all the others are in a slot.
Trusted  == IF nav.at = "writeMeta" THEN nav.count ELSE LoadMeta.count
NoneLost ==
    /\ received \in Seq(Uploads) /\ \A i \in DOMAIN received : conn[received[i]] = "done"
    /\ nav.at = "openMeta" => LoadMeta.count = nav.count
    /\ net.todo \in {<<>>, Rest5} => Filled(Trusted)
    /\ net.todo \in {FinishSteps, Rest1} =>
         Filled(net.count) /\ received # <<>> /\ staging = Sent(received[Len(received)])
    /\ net.todo \in {Rest2, Rest3, Rest4} => Filled(net.count + 1)
    /\ \A i \in DOMAIN received :
         \/ InSlot(received[i])
         \/ net.todo \in {FinishSteps, Rest1} /\ i = Len(received)
KeptInv == Spared({"close", "load", "rename", "meta", "press", "power"}) => NoneLost

GalleryInv == /\ GalleryTypes /\ Staged /\ Stored /\ Counts /\ Paths /\ Shows
              /\ QuietInv /\ KeptInv
-----------------------------------------------------------------------------
\* The steps of the draw task; and what a step of httpd_post_finished() goes on to.
LEMMA DrawFrame ==
    ASSUME DrawStep
    PROVE  /\ UNCHANGED <<browser, card, upload, drawPath, drawBg, net, nav, received, bounds>>
           /\ trouble \subseteq trouble'
BY DEF DrawStep, DrawCall, DrawOpen, DrawRows, DrawClear, DrawVars, Fails, Fail

LEMMA FinishFrame ==
    ASSUME FinishStep
    PROVE  /\ net.todo # <<>> /\ UNCHANGED <<browser, upload, draw, nav, panel, received, bounds>>
           /\ trouble \subseteq trouble'
BY DEF FinishStep, FinishPath, FinishRename, Rename, FinishSaveBg, FinishOpenMeta,
       FinishWriteMeta, FinishHandOff, NetStep, Fails, Fail

LEMMA NavFrame ==
    ASSUME NavLoad \/ NavStep
    PROVE  /\ UNCHANGED <<browser, upload, net, draw, panel, received>>
           /\ UNCHANGED <<staging, image, bgFile, shared>>
           /\ trouble \subseteq trouble'
BY DEF NavLoad, NavStep, NavOpenMeta, NavWriteMeta, NavPath, NavHandOff, NavVars, card,
       Fails, Fail

LEMMA PostFrame ==
    ASSUME NEW u \in Uploads, PostBegin(u) \/ PostReceive(u) \/ PostFinished(u)
    PROVE  /\ UNCHANGED <<bgFile, meta, request, draw, nav, panel, bounds>>
           /\ net.todo = <<>> /\ trouble \subseteq trouble'
BY DEF PostBegin, PostReceive, PostFinished, NetFree, Fails, Fail

LEMMA TroubleGrows ==
    ASSUME [Next]_vars
    PROVE  trouble \subseteq trouble'
<1>1. PowerCycle => trouble \subseteq trouble'
  BY DEF PowerCycle, Fail
<1>2. UNCHANGED vars => trouble \subseteq trouble'
  BY DEF vars, history
<1> QED
  BY <1>1, <1>2, DrawFrame, FinishFrame, NavFrame, PostFrame DEF Next

\* What is read of clusters that were freed is something, and no upload.
LEMMA GarbledFacts == Garbled # None /\ Garbled \notin Seq(Uploads)
<1>1. Garbled # None
  BY NoneAssumption DEF Garbled
<1>2. ASSUME Garbled \in Seq(Uploads) PROVE FALSE
  <2>1. Garbled[1] = None /\ Len(Garbled) = 1
    BY DEF Garbled
  <2>2. Garbled[1] \in Uploads
    BY <1>2, <2>1
  <2> QED
    BY <2>1, <2>2, NoneAssumption
<1> QED
  BY <1>1, <1>2

LEMMA TruncateFacts ==
    ASSUME GalleryTypes, Truncate
    PROVE  /\ staging' = <<>> /\ staging' \in Seq(Uploads) /\ staging' # None /\ shared' = {}
           /\ image' \in [Slots -> Seq(Uploads) \cup {None, Garbled}]
           /\ \A s \in Slots \ shared : image'[s] = image[s]
           /\ \A s \in Slots \cap shared : image'[s] = Garbled
<1>1. <<>> \in Seq(Uploads) /\ <<>> # None
  BY EmptySeq, NoneAssumption
<1> QED
  BY <1>1 DEF Truncate, GalleryTypes

LEMMA RenameFacts ==
    ASSUME GalleryTypes, NEW d, Rename(d)
    PROVE  /\ staging' = staging \/ staging' = None
           /\ image' \in [Slots -> Seq(Uploads) \cup {None, Garbled}]
           /\ \A s \in Slots : \/ image'[s] = image[s]
                               \/ image[s] = None /\ staging # None /\ image'[s] = staging /\ s = d
           /\ UNCHANGED shared \/ shared' = {} \/ (shared' = shared \cup {d} /\ "rename" \in trouble')
           /\ d \in Slots /\ staging # None /\ "rename" \notin trouble' => image'[d] # None
<1> USE DEF GalleryTypes
<1>1. CASE UNCHANGED <<staging, image, shared>> /\ (staging = None \/ image[d] # None \/ "rename" \in trouble')
  BY <1>1
<1>2. CASE /\ staging # None /\ image[d] = None /\ image' = [image EXCEPT ![d] = staging]
           /\ \/ staging' = None /\ shared' = {}
              \/ staging' = staging /\ shared' = shared \cup {d} /\ "rename" \in trouble'
  BY <1>2
<1> QED
  BY <1>1, <1>2 DEF Rename, Fails, Fail

LEMMA StepTypes == GalleryTypes /\ [Next]_vars => GalleryTypes'
<1> SUFFICES ASSUME GalleryTypes, [Next]_vars PROVE GalleryTypes'
  OBVIOUS
<1> USE DEF GalleryTypes, NetFree
<1>1. ASSUME NEW u \in Uploads, PostBegin(u) PROVE GalleryTypes'
  <2>1. /\ conn' = [conn EXCEPT ![u] = "open"] \/ conn' = [conn EXCEPT ![u] = "done"]
        /\ Truncate \/ UNCHANGED <<staging, image, uploadOpen>>
        /\ UNCHANGED <<sent, net>> /\ NetFree /\ uploadOpen' \in BOOLEAN
    BY <1>1 DEF PostBegin
  <2>2. CASE Truncate
    BY <2>1, <2>2, TruncateFacts
  <2>3. CASE UNCHANGED <<staging, image, uploadOpen>>
    BY <2>1, <2>3
  <2> QED
    BY <2>1, <2>2, <2>3
<1>2. ASSUME NEW u \in Uploads, PostReceive(u) PROVE GalleryTypes'
  <2>0. staging # None => Append(staging, u) \in Seq(Uploads)
    OBVIOUS
  <2>1. staging # None => Append(staging, u) \in Seq(Uploads) /\ Append(staging, u) # None
    BY <2>0, NoneAssumption
  <2>2. /\ UNCHANGED <<conn, image, uploadOpen, net>>
        /\ UNCHANGED staging \/ (uploadOpen /\ staging' = Append(staging, u))
        /\ sent' = [sent EXCEPT ![u] = @ + 1] /\ sent[u] < Pieces
    BY <1>2 DEF PostReceive
  <2>3. sent' \in [Uploads -> 0 .. Pieces]
    BY <2>2, PiecesAssumption
  <2> QED
    BY <2>1, <2>2, <2>3
<1>3. ASSUME NEW u \in Uploads, PostFinished(u) PROVE GalleryTypes'
  BY <1>3, EmptySeq DEF PostFinished
<1>4. CASE FinishStep
  <2>1. (UNCHANGED <<staging, image>>) \/ \E s : Rename(s)
    BY <1>4 DEF FinishStep, FinishPath, FinishRename, FinishSaveBg, FinishOpenMeta,
                FinishWriteMeta, FinishHandOff, card
  <2>2. net.todo # <<>> /\ UNCHANGED <<conn, sent, uploadOpen>>
    BY <1>4, FinishFrame DEF browser, upload
  <2> QED
    BY <2>1, <2>2, RenameFacts
<1>5. CASE DrawStep \/ NavLoad \/ NavStep
  BY <1>5, DrawFrame, NavFrame DEF browser, card, upload
<1>6. CASE PowerCycle
  BY <1>6, EmptySeq DEF PowerCycle
<1>7. CASE UNCHANGED vars
  BY <1>7 DEF vars, browser, card, upload
<1> QED
  BY <1>1, <1>2, <1>3, <1>4, <1>5, <1>6, <1>7 DEF Next

\* That image stays a function on the slots is all that PicturesKept needs of the
\* invariant; a picture that lost its clusters still is a file.
LEMMA StepKept ==
    ASSUME GalleryTypes, [Next]_vars, NEW s \in Slots, image[s] # None
    PROVE  image'[s] # None /\ (s \notin shared => image'[s] = image[s])
<1>1. CASE UNCHANGED image
  BY <1>1
<1>2. CASE FinishStep
  <2>1. (UNCHANGED image) \/ \E d : Rename(d)
    BY <1>2 DEF FinishStep, FinishPath, FinishRename, FinishSaveBg, FinishOpenMeta,
                FinishWriteMeta, FinishHandOff, card
  <2> QED
    BY <2>1, RenameFacts
<1>3. ASSUME NEW u \in Uploads, PostBegin(u) \/ PostReceive(u) \/ PostFinished(u)
      PROVE  image'[s] # None /\ (s \notin shared => image'[s] = image[s])
  <2>1. (UNCHANGED image) \/ Truncate
    BY <1>3 DEF PostBegin, PostReceive, PostFinished
  <2> QED
    BY <2>1, TruncateFacts, GarbledFacts
<1>4. CASE DrawStep \/ NavLoad \/ NavStep
  BY <1>1, <1>4, DrawFrame, NavFrame DEF card
<1>5. CASE PowerCycle \/ UNCHANGED vars
  BY <1>1, <1>5 DEF PowerCycle, vars, card
<1> QED
  BY <1>2, <1>3, <1>4, <1>5 DEF Next

\* A picture that has its slot is never taken or changed, for any uploads, any number
\* of connections, presses and power cycles, and whatever operations fail, but for one
\* that a failed rename left under two names.
THEOREM PicturesKeptCorrect == Spec => PicturesKept
<1>1. Init => GalleryTypes
  <2>1. 0 \in 0 .. Pieces
    BY PiecesAssumption
  <2> QED
    BY <2>1 DEF Init, GalleryTypes
<1>2. GalleryTypes /\ [Next]_vars => GalleryTypes'
  BY StepTypes
<1>3. GalleryTypes /\ [Next]_vars
      => [\A s \in Slots \ shared : image[s] # None => image'[s] = image[s]]_vars
  BY StepKept
<1> QED
  BY <1>1, <1>2, <1>3, PTL DEF Spec, PicturesKept
-----------------------------------------------------------------------------
LEMMA PartFacts ==
    ASSUME NEW u \in Uploads
    PROVE  /\ Part(u, 0) = <<>> /\ Part(u, sent[u]) = Sent(u)
           /\ \A k \in Nat : /\ Part(u, k) \in Seq(Uploads) /\ Len(Part(u, k)) = k
                             /\ Append(Part(u, k), u) = Part(u, k + 1)
<1>1. Part(u, 0) = <<>>
  BY DEF Part
<1>2. Part(u, sent[u]) = Sent(u)
  BY DEF Part, Sent
<1>3. ASSUME NEW k \in Nat
      PROVE  /\ Part(u, k) \in Seq(Uploads) /\ Len(Part(u, k)) = k
             /\ Append(Part(u, k), u) = Part(u, k + 1)
  BY DEF Part
<1> QED
  BY <1>1, <1>2, <1>3

\* One POST at a time: the others are not open when one begins.
LEMMA NoneOpen ==
    ASSUME AtOnce = 1, Cardinality({v \in Uploads : conn[v] = "open"}) < AtOnce
    PROVE  \A v \in Uploads : conn[v] # "open"
<1>1. {v \in Uploads : conn[v] = "open"} \in SUBSET Uploads
  OBVIOUS
<1>2. Cardinality({v \in Uploads : conn[v] = "open"}) = 0
  BY <1>1, PiecesAssumption, FS_Subset, FS_CardinalityType
<1> QED
  BY <1>1, <1>2, PiecesAssumption, FS_Subset, FS_EmptySet

\* What came of an upload that is over stays what it is.
LEMMA DoneStays ==
    ASSUME GalleryTypes, [Next]_vars, NEW u \in Uploads, conn[u] = "done"
    PROVE  conn'[u] = "done" /\ sent'[u] = sent[u]
<1> USE DEF GalleryTypes
<1>1. ASSUME NEW v \in Uploads, PostBegin(v) \/ PostReceive(v) \/ PostFinished(v)
      PROVE  conn'[u] = "done" /\ sent'[u] = sent[u]
  BY <1>1 DEF PostBegin, PostReceive, PostFinished
<1>2. CASE FinishStep \/ DrawStep \/ NavLoad \/ NavStep
  BY <1>2, FinishFrame, DrawFrame, NavFrame DEF browser
<1>3. CASE PowerCycle \/ UNCHANGED vars
  BY <1>3 DEF PowerCycle, vars, browser
<1> QED
  BY <1>1, <1>2, <1>3 DEF Next

LEMMA FileableStays ==
    ASSUME GalleryTypes, [Next]_vars, NEW p, Fileable(p)
    PROVE  Fileable(p)'
BY DoneStays, TroubleGrows DEF Fileable
-----------------------------------------------------------------------------
(***************************************************************************)
(* Staged: the POST callbacks, the rename and a power cycle touch          *)
(* incoming.bmp.                                                           *)
(***************************************************************************)
LEMMA StagedPostBegin ==
    ASSUME AtOnce = 1, GalleryTypes, Staged, NEW u \in Uploads, PostBegin(u)
    PROVE  Staged'
<1>1. \A v \in Uploads : conn[v] # "open"
  BY NoneOpen DEF PostBegin
<1>2. UNCHANGED sent /\ sent[u] = 0 /\ 0 \in 0 .. Pieces
  BY PiecesAssumption DEF PostBegin, Staged
<1>3. Truncate => staging' = Part(u, 0)
  BY PartFacts DEF Truncate
<1>4. CASE /\ conn' = [conn EXCEPT ![u] = "open"] /\ Truncate
           /\ uploadOpen' = TRUE /\ uploadOk' = TRUE /\ uploadBytes' = 0
  <2>1. \A v \in Uploads : conn'[v] = "open" => v = u
    BY <1>1, <1>4 DEF GalleryTypes
  <2>2. \A v \in Uploads : conn'[v] = "new" => sent'[v] = 0
    BY <1>2, <1>4 DEF GalleryTypes, Staged
  <2>3. \E v \in Uploads, k \in 0 .. Pieces : staging' = Part(v, k)
    BY <1>2, <1>3, <1>4
  <2>4. \A v \in Uploads : conn'[v] = "open" =>
          /\ uploadOpen' /\ uploadBytes' \in 0 .. sent'[v] /\ staging' = Part(v, uploadBytes')
          /\ uploadBytes' = sent'[v]
    BY <1>2, <1>3, <1>4, <2>1
  <2> QED
    BY <1>4, <2>1, <2>2, <2>3, <2>4 DEF Staged
<1>5. CASE /\ conn' = [conn EXCEPT ![u] = "done"]
           /\ Truncate \/ UNCHANGED staging
           /\ UNCHANGED <<uploadOpen, uploadOk, uploadBytes>>
  <2>1. \A v \in Uploads : conn'[v] # "open" /\ (conn'[v] = "new" => sent'[v] = 0)
    BY <1>1, <1>2, <1>5 DEF GalleryTypes, Staged
  <2>2. staging' # None => \E v \in Uploads, k \in 0 .. Pieces : staging' = Part(v, k)
    BY <1>2, <1>3, <1>5 DEF Staged
  <2> QED
    BY <1>5, <2>1, <2>2 DEF Staged
<1> QED
  BY <1>4, <1>5 DEF PostBegin

LEMMA StagedPostReceive ==
    ASSUME GalleryTypes, Staged, NEW u \in Uploads, PostReceive(u)
    PROVE  Staged'
<1>1. /\ UNCHANGED <<conn, uploadOpen>> /\ conn[u] = "open" /\ uploadOpen
      /\ sent' = [sent EXCEPT ![u] = @ + 1] /\ sent[u] < Pieces
  BY DEF PostReceive, Staged
<1>2. /\ sent[u] \in 0 .. Pieces /\ Pieces \in Nat /\ uploadBytes \in 0 .. sent[u]
      /\ staging = Part(u, uploadBytes) /\ (uploadOk => uploadBytes = sent[u])
  BY <1>1, PiecesAssumption DEF Staged, GalleryTypes
<1>3. /\ sent'[u] = sent[u] + 1 /\ \A v \in Uploads : conn'[v] = "open" => v = u
      /\ \A v \in Uploads : conn'[v] = "new" => sent'[v] = 0
  BY <1>1 DEF Staged, GalleryTypes
<1>4. uploadOk \in BOOLEAN
  BY DEF Staged
<1>5. SUFFICES /\ uploadOk' \in BOOLEAN /\ uploadBytes' \in 0 .. sent[u] + 1
               /\ staging' = Part(u, uploadBytes') /\ (uploadOk' => uploadBytes' = sent[u] + 1)
  <2>1. uploadBytes' \in 0 .. Pieces /\ uploadBytes' \in Nat
    BY <1>1, <1>2, <1>5
  <2>2. \E v \in Uploads, k \in 0 .. Pieces : staging' = Part(v, k)
    BY <1>5, <2>1
  <2>3. \A v, w \in Uploads : conn'[v] = "open" /\ conn'[w] = "open" => v = w
    BY <1>3
  <2>4. \A v \in Uploads : conn'[v] = "open" =>
          /\ uploadOpen' /\ uploadBytes' \in 0 .. sent'[v] /\ staging' = Part(v, uploadBytes')
          /\ uploadOk' => uploadBytes' = sent'[v]
    BY <1>1, <1>3, <1>5
  <2> QED
    BY <1>3, <1>5, <2>1, <2>2, <2>3, <2>4 DEF Staged
<1>6. CASE uploadOk /\ staging' = Append(staging, u) /\ uploadBytes' = uploadBytes + 1
           /\ UNCHANGED uploadOk
  <2>1. Append(Part(u, uploadBytes), u) = Part(u, uploadBytes + 1)
    <3>1. uploadBytes \in Nat
      BY <1>2
    <3> QED
      BY <3>1, PartFacts
  <2>2. staging' = Part(u, uploadBytes')
    BY <1>2, <1>6, <2>1
  <2> QED
    BY <1>2, <1>4, <1>6, <2>2
<1>7. CASE UNCHANGED <<staging, uploadBytes>> /\ uploadOk' = FALSE
  <2>1. staging' = Part(u, uploadBytes') /\ uploadBytes' \in 0 .. sent[u] + 1
    BY <1>2, <1>7
  <2> QED
    BY <1>7, <2>1
<1>8. (uploadOk /\ staging' = Append(staging, u) /\ uploadBytes' = uploadBytes + 1
           /\ UNCHANGED uploadOk) \/ (UNCHANGED <<staging, uploadBytes>> /\ uploadOk' = FALSE)
  BY <1>1, <1>4 DEF PostReceive
<1> QED
  BY <1>6, <1>7, <1>8

LEMMA StagedPostFinished ==
    ASSUME GalleryTypes, Staged, NEW u \in Uploads, PostFinished(u)
    PROVE  /\ Staged'
           /\ \/ UNCHANGED <<net, received>>
              \/ /\ sent[u] > 0 /\ conn'[u] = "done" /\ UNCHANGED sent
                 /\ received' = Append(received, u)
                 /\ \E n : net' = [todo |-> FinishSteps, count |-> n]
                           /\ (n = LoadMeta.count \/ (n = 0 /\ "load" \in trouble'))
                 /\ nav.at = "poll" \/ "press" \in trouble'
                 /\ staging' = Part(u, sent[u]) \/ (staging' = <<>> /\ "close" \in trouble')
<1>1. /\ UNCHANGED <<sent, uploadOk, uploadBytes>>
      /\ conn[u] = "open" /\ conn' = [conn EXCEPT ![u] = "done"]
      /\ UNCHANGED staging \/ (staging' = <<>> /\ "close" \in trouble')
  BY DEF PostFinished, Fail
<1>2. /\ UNCHANGED <<net, received>> \/
         /\ uploadOk /\ uploadBytes > 0 /\ received' = Append(received, u)
         /\ \E n : net' = [todo |-> FinishSteps, count |-> n]
                   /\ (n = LoadMeta.count \/ (n = 0 /\ "load" \in trouble'))
         /\ nav.at = "poll" \/ "press" \in trouble'
  BY DEF PostFinished, Fail
<1>3. /\ uploadBytes \in 0 .. sent[u] /\ staging = Part(u, uploadBytes)
      /\ uploadOk => uploadBytes = sent[u]
  BY <1>1 DEF Staged
<1>4. \A v \in Uploads : conn'[v] # "open" /\ (conn'[v] = "new" => conn[v] = "new")
  BY <1>1 DEF Staged, GalleryTypes
<1>5. staging' # None => \E v \in Uploads, k \in 0 .. Pieces : staging' = Part(v, k)
  <2>1. 0 \in 0 .. Pieces
    BY PiecesAssumption
  <2> QED
    BY <1>1, <2>1, PartFacts DEF Staged
<1>6. Staged'
  BY <1>1, <1>4, <1>5 DEF Staged
<1>7. uploadOk => staging = Part(u, sent[u])
  BY <1>3
<1>8. conn'[u] = "done"
  BY <1>1 DEF GalleryTypes
<1>9. uploadOk /\ uploadBytes > 0 => sent[u] > 0
  BY <1>3
<1> QED
  BY <1>1, <1>2, <1>6, <1>7, <1>8, <1>9

LEMMA StepStaged ==
    ASSUME AtOnce = 1, GalleryTypes, Staged, [Next]_vars
    PROVE  Staged'
<1>1. CASE \E u \in Uploads : PostBegin(u) \/ PostReceive(u) \/ PostFinished(u)
  BY <1>1, StagedPostBegin, StagedPostReceive, StagedPostFinished
<1>2. CASE FinishStep
  <2>1. (UNCHANGED staging) \/ staging' = None
    BY <1>2, RenameFacts DEF FinishStep, FinishPath, FinishRename, FinishSaveBg,
       FinishOpenMeta, FinishWriteMeta, FinishHandOff, card
  <2>2. UNCHANGED <<conn, sent, uploadOpen, uploadOk, uploadBytes>> /\ net.todo # <<>>
    BY <1>2, FinishFrame DEF browser, upload
  <2>3. \A u \in Uploads : conn[u] # "open"
    BY <2>2 DEF GalleryTypes, Staged, NetFree
  <2> QED
    BY <2>1, <2>2, <2>3 DEF Staged
<1>3. CASE UNCHANGED <<conn, sent, staging, uploadOpen, uploadOk, uploadBytes>>
  BY <1>3 DEF Staged
<1>4. CASE DrawStep \/ NavLoad \/ NavStep
  BY <1>3, <1>4, DrawFrame, NavFrame DEF browser, card, upload
<1>5. CASE PowerCycle
  <2>1. /\ UNCHANGED sent /\ uploadOk' = FALSE /\ uploadBytes' = 0
        /\ staging' = staging \/ (staging' = <<>> /\ uploadOpen)
        /\ \A u \in Uploads : conn'[u] # "open" /\ (conn'[u] = "new" => conn[u] = "new")
    BY <1>5 DEF PowerCycle
  <2>2. staging' # None => \E v \in Uploads, k \in 0 .. Pieces : staging' = Part(v, k)
    <3>1. 0 \in 0 .. Pieces
      BY PiecesAssumption
    <3> QED
      BY <2>1, <3>1, PartFacts DEF Staged, GalleryTypes
  <2> QED
    BY <2>1, <2>2 DEF Staged
<1>6. CASE UNCHANGED vars
  BY <1>3, <1>6 DEF vars, browser, card, upload
<1> QED
  BY <1>1, <1>2, <1>4, <1>5, <1>6 DEF Next

\* What is in a slot was Fileable when it was renamed.
LEMMA StepStored ==
    ASSUME AtOnce = 1, GalleryTypes, Staged, Stored, Counts, Paths, [Next]_vars
    PROVE  Stored'
<1>1. \A s \in Slots :
        image'[s] = image[s] => \/ image'[s] = None \/ Fileable(image[s])'
                                \/ image'[s] = Garbled /\ "rename" \in trouble'
  BY FileableStays, TroubleGrows DEF Stored
<1>2. CASE UNCHANGED <<image, shared>> /\ (net'.todo \notin {FinishSteps, Rest1}
                                          \/ UNCHANGED <<net, staging>>)
  BY <1>1, <1>2, TroubleGrows, FileableStays DEF Stored, Fileable
<1>3. CASE DrawStep \/ NavLoad \/ NavStep \/ UNCHANGED vars
  BY <1>2, <1>3, DrawFrame, NavFrame DEF vars, card
<1>4. CASE PowerCycle
  <2>1. net'.todo \notin {FinishSteps, Rest1} /\ UNCHANGED <<image, shared>>
    BY <1>4, TodosApart DEF PowerCycle, IdleNet
  <2> QED
    BY <1>2, <2>1
<1>5. ASSUME NEW u \in Uploads, PostReceive(u) PROVE Stored'
  <2>1. net'.todo \notin {FinishSteps, Rest1} /\ UNCHANGED <<image, shared>>
    BY <1>5, TodosApart DEF PostReceive, NetFree
  <2> QED
    BY <1>2, <2>1
<1>6. ASSUME NEW u \in Uploads, PostFinished(u) PROVE Stored'
  <2>1. UNCHANGED <<image, shared>> /\ net.todo \notin {FinishSteps, Rest1}
    BY <1>6, TodosApart DEF PostFinished, NetFree
  <2>2. CASE UNCHANGED net
    BY <1>2, <2>1, <2>2
  <2>3. CASE /\ sent[u] > 0 /\ conn'[u] = "done" /\ UNCHANGED sent
             /\ staging' = Part(u, sent[u]) \/ (staging' = <<>> /\ "close" \in trouble')
    <3>1. \/ sent'[u] > 0 /\ conn'[u] = "done" /\ staging' = Part(u, sent'[u])
          \/ staging' = <<>> /\ "close" \in trouble'
      BY <2>3
    <3>2. Fileable(staging)'
      BY <3>1 DEF Fileable
    <3> QED
      BY <1>1, <2>1, <3>2, TroubleGrows DEF Stored
  <2> QED
    BY <1>6, <2>2, <2>3, StagedPostFinished
<1>7. ASSUME NEW u \in Uploads, PostBegin(u) PROVE Stored'
  <2>1. net'.todo \notin {FinishSteps, Rest1}
    BY <1>7, TodosApart DEF PostBegin, NetFree
  <2>2. CASE Truncate
    <3>1. \A s \in Slots : image'[s] = image[s] \/ (image'[s] = Garbled /\ "rename" \in trouble')
      BY <2>2, TruncateFacts, TroubleGrows DEF Stored
    <3>2. shared' = {}
      BY <2>2 DEF Truncate
    <3> QED
      BY <1>1, <2>1, <3>1, <3>2 DEF Stored
  <2>3. CASE UNCHANGED <<image, shared>>
    BY <1>2, <2>1, <2>3
  <2> QED
    BY <1>7, <2>2, <2>3 DEF PostBegin
<1>8. CASE FinishStep
  <2>1. net.todo \in Todos /\ net.todo # <<>> /\ net = [todo |-> net.todo, count |-> net.count]
    BY <1>8, FinishFrame DEF Counts
  <2>2. CASE FinishPath
    <3>1. net.todo = FinishSteps /\ net'.todo = Rest1 /\ UNCHANGED <<image, shared, staging>>
      BY <2>1, <2>2, TodoSteps DEF FinishPath, NetStep, NetNext, card
    <3>2. Fileable(staging)'
      BY <3>1, FileableStays DEF Stored, Fileable
    <3> QED
      BY <1>1, <3>1, <3>2, TroubleGrows DEF Stored
  <2>3. CASE FinishRename
    <3>1. net.todo = Rest1 /\ net'.todo = Rest2
      BY <2>1, <2>3, TodoSteps DEF FinishRename, NetStep, NetNext
    <3>2. Rest2 \notin {FinishSteps, Rest1} /\ drawPath \in Slots
      BY <3>1, TodosApart DEF Paths
    <3>3. Rename(drawPath)
      BY <2>3 DEF FinishRename
    <3>5. ASSUME NEW s \in Slots
          PROVE  \/ image'[s] = None \/ Fileable(image[s])'
                 \/ image'[s] = Garbled /\ "rename" \in trouble'
      <4>1. image'[s] = image[s] \/ image'[s] = staging
        BY <3>3, RenameFacts
      <4>2. \A p : Fileable(p) => (\/ \E v \in Uploads : conn'[v] = "done" /\ sent'[v] > 0 /\ p = Part(v, sent'[v])
                                   \/ p = <<>> /\ "close" \in trouble')
        BY DoneStays, TroubleGrows DEF Fileable
      <4>3. image'[s] = staging => Fileable(image[s])'
        BY <3>1, <4>2 DEF Stored, Fileable
      <4> QED
        BY <1>1, <4>1, <4>3
    <3>6. shared' \subseteq Slots /\ (shared' # {} => "rename" \in trouble')
      BY <3>2, <3>3, RenameFacts, TroubleGrows DEF Stored
    <3> QED
      BY <3>1, <3>2, <3>5, <3>6 DEF Stored
  <2>4. CASE FinishSaveBg \/ FinishOpenMeta \/ FinishWriteMeta \/ FinishHandOff
    <3>1. net'.todo \in {Rest3, Rest4, Rest5, <<>>} /\ UNCHANGED <<image, shared>>
      BY <2>1, <2>4, TodoSteps DEF FinishSaveBg, FinishOpenMeta, FinishWriteMeta,
         FinishHandOff, NetStep, NetNext, card
    <3>2. net'.todo \notin {FinishSteps, Rest1}
      BY <3>1, TodosApart
    <3> QED
      BY <1>2, <3>1, <3>2
  <2> QED
    BY <1>8, <2>2, <2>3, <2>4 DEF FinishStep
<1> QED
  BY <1>3, <1>4, <1>5, <1>6, <1>7, <1>8 DEF Next

\* As many uploads as slots: what is counted has a slot.
LEMMA AnsweredCount ==
    /\ IsFiniteSet(Answered)
    /\ Cardinality(Answered) \in Nat /\ Cardinality(Uploads) \in Nat
    /\ Cardinality(Answered) <= Cardinality(Uploads)
<1>1. IsFiniteSet(Uploads) /\ Answered \in SUBSET Uploads
  BY PiecesAssumption DEF Answered
<1> QED
  BY <1>1, FS_Subset, FS_CardinalityType

\* An upload that is answered stays so, and each answer is one more.
LEMMA AnswersCounted ==
    ASSUME GalleryTypes, [Next]_vars
    PROVE  /\ Cardinality(Answered) <= Cardinality(Answered')
           /\ Cardinality(Answered') \in Nat
           /\ \A count, current : Counted(count, current) => Counted(count, current)'
<1>1. Answered' \in SUBSET Uploads /\ Answered \subseteq Answered'
  BY DoneStays DEF Answered
<1>2. IsFiniteSet(Answered') /\ Cardinality(Answered') \in Nat
  BY <1>1, PiecesAssumption, FS_Subset, FS_CardinalityType
<1>3. Cardinality(Answered) <= Cardinality(Answered')
  BY <1>1, <1>2, FS_Subset
<1> QED
  BY <1>2, <1>3, AnsweredCount DEF Counted

\* What each step of httpd_post_finished() goes on to.
LEMMA FinishMoves ==
    ASSUME Counts, FinishStep
    PROVE  /\ net.todo \in Todos /\ net.todo # <<>> /\ net.count \in Nat
           /\ net' = [todo |-> net'.todo, count |-> net.count]
           /\ FinishPath      => net.todo = FinishSteps /\ net'.todo = Rest1
           /\ FinishRename    => net.todo = Rest1 /\ net'.todo = Rest2
           /\ FinishSaveBg    => net.todo = Rest2 /\ net'.todo = Rest3
           /\ FinishOpenMeta  => /\ net.todo = Rest3
                                 /\ \/ net'.todo = Rest4 /\ meta' = None
                                    \/ net'.todo = Rest5 /\ "meta" \in trouble' /\ meta' \in {meta, None}
           /\ FinishWriteMeta => net.todo = Rest4 /\ net'.todo = Rest5
           /\ FinishHandOff   => net.todo = Rest5 /\ net'.todo = <<>>
<1>1. net.todo \in Todos /\ net.todo # <<>> /\ net.count \in Nat
      /\ net = [todo |-> net.todo, count |-> net.count]
  BY FinishFrame DEF Counts
<1>2. /\ FinishPath \/ FinishRename \/ FinishSaveBg \/ FinishWriteMeta \/ FinishHandOff
           => net' = [todo |-> Tail(net.todo), count |-> net.count]
  BY <1>1 DEF FinishPath, FinishRename, FinishSaveBg, FinishWriteMeta, FinishHandOff, NetNext
<1>3. FinishOpenMeta =>
         \/ net' = [todo |-> Tail(net.todo), count |-> net.count] /\ meta' = None
         \/ /\ net' = [todo |-> Tail(Tail(net.todo)), count |-> net.count]
            /\ "meta" \in trouble' /\ meta' \in {meta, None}
  BY <1>1 DEF FinishOpenMeta, NetNext, Fails, Fail
<1>4. net' = [todo |-> net'.todo, count |-> net.count]
  BY <1>2, <1>3 DEF FinishStep
<1>5. /\ FinishPath      => Head(net.todo) = "path"
      /\ FinishRename    => Head(net.todo) = "rename"
      /\ FinishSaveBg    => Head(net.todo) = "saveBg"
      /\ FinishOpenMeta  => Head(net.todo) = "openMeta"
      /\ FinishWriteMeta => Head(net.todo) = "writeMeta"
      /\ FinishHandOff   => Head(net.todo) = "handOff"
  BY DEF FinishPath, FinishRename, FinishSaveBg, FinishOpenMeta, FinishWriteMeta,
         FinishHandOff, NetStep
<1>11. ASSUME NEW x, NEW n, net' = [todo |-> x, count |-> n] PROVE net'.todo = x
  BY <1>11
<1>6. /\ Head(net.todo) = "path"      => net.todo = FinishSteps /\ Tail(net.todo) = Rest1
      /\ Head(net.todo) = "rename"    => net.todo = Rest1 /\ Tail(net.todo) = Rest2
      /\ Head(net.todo) = "saveBg"    => net.todo = Rest2 /\ Tail(net.todo) = Rest3
      /\ Head(net.todo) = "openMeta"  => /\ net.todo = Rest3 /\ Tail(net.todo) = Rest4
                                         /\ Tail(Tail(net.todo)) = Rest5
      /\ Head(net.todo) = "writeMeta" => net.todo = Rest4 /\ Tail(net.todo) = Rest5
      /\ Head(net.todo) = "handOff"   => net.todo = Rest5 /\ Tail(net.todo) = <<>>
  BY <1>1, TodoSteps
<1>7. PICK t, tt : t = Tail(net.todo) /\ tt = Tail(Tail(net.todo))
  OBVIOUS
<1>8. FinishOpenMeta =>
        /\ net.todo = Rest3
        /\ \/ net'.todo = Rest4 /\ meta' = None
           \/ net'.todo = Rest5 /\ "meta" \in trouble' /\ meta' \in {meta, None}
  <2>1. FinishOpenMeta => net.todo = Rest3 /\ t = Rest4 /\ tt = Rest5
    BY <1>5, <1>6, <1>7
  <2>2. FinishOpenMeta =>
          \/ net'.todo = t /\ meta' = None
          \/ net'.todo = tt /\ "meta" \in trouble' /\ meta' \in {meta, None}
    BY <1>3, <1>7, <1>11, Zenon
  <2> QED
    BY <2>1, <2>2
<1>9. FinishPath \/ FinishRename \/ FinishSaveBg \/ FinishWriteMeta \/ FinishHandOff => net'.todo = t
  BY <1>2, <1>7, <1>11, Zenon
<1>10. /\ FinishPath      => net.todo = FinishSteps /\ t = Rest1
       /\ FinishRename    => net.todo = Rest1 /\ t = Rest2
       /\ FinishSaveBg    => net.todo = Rest2 /\ t = Rest3
       /\ FinishWriteMeta => net.todo = Rest4 /\ t = Rest5
       /\ FinishHandOff   => net.todo = Rest5 /\ t = <<>>
  BY <1>5, <1>6, <1>7
<1> QED
  BY <1>1, <1>4, <1>8, <1>9, <1>10
-----------------------------------------------------------------------------
(***************************************************************************)
(* Counts: every count is of uploads that were over when it was taken.     *)
(***************************************************************************)
LEMMA CountsPostFinished ==
    ASSUME GalleryTypes, Staged, Counts, [Next]_vars, NEW u \in Uploads, PostFinished(u)
    PROVE  Counts'
<1>1. /\ UNCHANGED <<meta, nav>> /\ net.todo = <<>>
      /\ conn[u] = "open" /\ conn' = [conn EXCEPT ![u] = "done"]
  BY DEF PostFinished, NetFree
<1>2. Cardinality(Answered') = Cardinality(Answered) + 1
  <2>1. Answered' = Answered \cup {u} /\ u \notin Answered
    BY <1>1 DEF Answered, GalleryTypes
  <2> QED
    BY <2>1, AnsweredCount, FS_AddElement
<1>3. LoadMeta.count \in Nat /\ LoadMeta.count <= Cardinality(Answered)
  BY AnsweredCount DEF Counts, Counted, LoadMeta
<1>4. net' \in [todo : Todos, count : Nat] /\ net'.count <= Cardinality(Answered)
  <2>1. CASE UNCHANGED net
    BY <2>1 DEF Counts
  <2>2. CASE \E n : net' = [todo |-> FinishSteps, count |-> n] /\ (n = LoadMeta.count \/ n = 0)
    BY <1>3, <2>2, AnsweredCount DEF Todos
  <2> QED
    BY <2>1, <2>2, StagedPostFinished
<1>5. net'.count <= Cardinality(Answered') /\ net'.count < Cardinality(Answered')
  BY <1>2, <1>4, AnsweredCount
<1>6. \A count, current : Counted(count, current) => Counted(count, current)'
  BY AnswersCounted
<1>7. /\ meta' # None => Counted(meta.count, meta.current)'
      /\ nav'.at # "poll" => Counted(nav.count, nav.current)'
  BY <1>1, <1>6 DEF Counts, Counted
<1> QED
  BY <1>1, <1>4, <1>5, <1>7 DEF Counts

LEMMA CountsFinishStep ==
    ASSUME GalleryTypes, Counts, [Next]_vars, FinishStep
    PROVE  Counts'
<1>1. UNCHANGED <<conn, nav>>
  BY FinishFrame DEF browser
<1>2. net' \in [todo : Todos, count : Nat] /\ net'.count = net.count /\ net.todo # <<>>
  BY FinishMoves DEF FinishStep, Todos
<1>3. Answered' = Answered /\ net.count \in Nat /\ net.count < Cardinality(Answered)
  BY <1>1, <1>2 DEF Answered, Counts
<1>4. \/ UNCHANGED meta
      \/ meta' = None
      \/ meta' = [count |-> net.count + 1, current |-> net.count]
  BY DEF FinishStep, FinishPath, FinishRename, FinishSaveBg, FinishOpenMeta,
         FinishWriteMeta, FinishHandOff, SavedMeta, card
<1>5. /\ meta' # None => meta' = [count |-> meta'.count, current |-> meta'.current]
                         /\ Counted(meta'.count, meta'.current)
  BY <1>3, <1>4, AnsweredCount DEF Counts, Counted
<1> QED
  BY <1>1, <1>2, <1>3, <1>5, AnsweredCount DEF Counts, Counted

\* A press steps from the current picture to the next or the last one, round the count.
LEMMA CountsNavLoad ==
    ASSUME GalleryTypes, Counts, [Next]_vars, NavLoad
    PROVE  Counts'
<1>1. UNCHANGED <<conn, net, meta>>
  BY DEF NavLoad, NavVars, browser, card
<1>2. Answered' = Answered
  BY <1>1 DEF Answered
<1>3. CASE UNCHANGED nav
  BY <1>1, <1>2, <1>3 DEF Counts, Counted
<1>4. CASE /\ LoadMeta.count > 0
           /\ \E step \in {1, LoadMeta.count - 1} :
                nav' = [at |-> "openMeta", count |-> LoadMeta.count,
                        current |-> (LoadMeta.current + step) % LoadMeta.count]
  <2>1. /\ LoadMeta.count \in Nat /\ LoadMeta.current \in Nat
        /\ LoadMeta.count <= Cardinality(Answered)
    BY AnsweredCount DEF Counts, Counted, LoadMeta
  <2>2. PICK step \in {1, LoadMeta.count - 1} :
          nav' = [at |-> "openMeta", count |-> LoadMeta.count,
                  current |-> (LoadMeta.current + step) % LoadMeta.count]
    BY <1>4
  <2>3. ASSUME NEW n \in Nat, NEW c \in Nat, n > 0 PROVE c % n \in Nat /\ c % n < n
    BY <2>3
  <2>4. LoadMeta.current + step \in Nat
    BY <1>4, <2>1
  <2>5. Counted(nav'.count, nav'.current)
    BY <1>4, <2>1, <2>2, <2>3, <2>4 DEF Counted
  <2>6. nav' \in [at : NavPoints, count : Nat, current : Nat]
    BY <2>2, <2>5 DEF NavPoints, Counted
  <2> QED
    BY <1>1, <1>2, <2>5, <2>6 DEF Counts, Counted
<1> QED
  BY <1>3, <1>4 DEF NavLoad

LEMMA CountsNavStep ==
    ASSUME GalleryTypes, Counts, [Next]_vars, NavStep
    PROVE  Counts'
<1>1. UNCHANGED <<conn, net>> /\ nav.at # "poll"
  BY DEF NavStep, NavOpenMeta, NavWriteMeta, NavPath, NavHandOff, NavVars, browser
<1>2. Answered' = Answered
  BY <1>1 DEF Answered
<1>3. \/ UNCHANGED meta
      \/ meta' = None
      \/ meta' = [count |-> nav.count, current |-> nav.current]
  BY DEF NavStep, NavOpenMeta, NavWriteMeta, NavPath, NavHandOff, card
<1>4. \/ nav' = IdleNav
      \/ \E at \in NavPoints : nav' = [nav EXCEPT !.at = at]
  BY DEF NavStep, NavOpenMeta, NavWriteMeta, NavPath, NavHandOff, NavPoints
<1>5. Counted(nav.count, nav.current) /\ nav \in [at : NavPoints, count : Nat, current : Nat]
  BY <1>1 DEF Counts
<1>6. /\ nav' \in [at : NavPoints, count : Nat, current : Nat]
      /\ nav'.at # "poll" => Counted(nav'.count, nav'.current)
  BY <1>4, <1>5 DEF IdleNav, NavPoints
<1>7. /\ meta' # None => meta' = [count |-> meta'.count, current |-> meta'.current]
                         /\ Counted(meta'.count, meta'.current)
  BY <1>3, <1>5 DEF Counts
<1> QED
  BY <1>1, <1>2, <1>6, <1>7 DEF Counts, Counted

LEMMA StepCounts ==
    ASSUME GalleryTypes, Staged, Counts, [Next]_vars
    PROVE  Counts'
<1>1. CASE UNCHANGED <<meta, nav, net>>
  <2>1. /\ Cardinality(Answered) <= Cardinality(Answered')
        /\ Cardinality(Answered) \in Nat /\ Cardinality(Answered') \in Nat
    BY AnsweredCount, AnswersCounted
  <2> QED
    BY <1>1, <2>1 DEF Counts, Counted
<1>2. CASE \E u \in Uploads : PostBegin(u) \/ PostReceive(u)
  BY <1>1, <1>2 DEF PostBegin, PostReceive
<1>3. CASE \E u \in Uploads : PostFinished(u)
  BY <1>3, CountsPostFinished
<1>4. CASE FinishStep
  BY <1>4, CountsFinishStep
<1>5. CASE DrawStep \/ UNCHANGED vars
  BY <1>1, <1>5, DrawFrame DEF card, vars
<1>6. CASE NavLoad \/ NavStep
  BY <1>6, CountsNavLoad, CountsNavStep
<1>7. CASE PowerCycle
  <2>1. UNCHANGED meta /\ net' = IdleNet /\ nav' = IdleNav
    BY <1>7 DEF PowerCycle, card
  <2>2. net' \in [todo : Todos, count : Nat] /\ net'.todo = <<>> /\ net'.count = 0
    BY <2>1 DEF IdleNet, Todos
  <2>3. nav' \in [at : NavPoints, count : Nat, current : Nat] /\ nav'.at = "poll"
    BY <2>1 DEF IdleNav, NavPoints
  <2>4. /\ Cardinality(Answered) <= Cardinality(Answered')
        /\ Cardinality(Answered) \in Nat /\ Cardinality(Answered') \in Nat
    BY AnsweredCount, AnswersCounted
  <2> QED
    BY <2>1, <2>2, <2>3, <2>4 DEF Counts, Counted
<1> QED
  BY <1>2, <1>3, <1>4, <1>5, <1>6, <1>7 DEF Next
-----------------------------------------------------------------------------
(***************************************************************************)
(* Paths and Shows.                                                        *)
(***************************************************************************)
LEMMA CountedSlots ==
    ASSUME Counts
    PROVE  /\ net.todo # <<>> => net.count \in Slots
           /\ nav.at # "poll" => nav.current \in Slots
           /\ LoadMeta.count # 0 => LoadMeta.current \in Slots
<1>1. \A n \in Nat : n < Cardinality(Answered) => n \in Slots
  BY AnsweredCount DEF Slots
<1>2. net.todo # <<>> => net.count \in Slots
  BY <1>1 DEF Counts
<1>3. nav.at # "poll" => nav.current \in Slots
  BY <1>1, AnsweredCount DEF Counts, Counted
<1>4. LoadMeta.count # 0 => LoadMeta.current \in Slots
  BY <1>1, AnsweredCount DEF Counts, Counted, LoadMeta
<1> QED
  BY <1>2, <1>3, <1>4

LEMMA StepPaths ==
    ASSUME Counts, Paths, [Next]_vars
    PROVE  Paths'
<1>1. CASE UNCHANGED <<drawPath, drawPending, draw, nav, net>>
  BY <1>1 DEF Paths
<1>2. CASE \E u \in Uploads : PostBegin(u) \/ PostReceive(u)
  BY <1>1, <1>2 DEF PostBegin, PostReceive, request
<1>3. CASE \E u \in Uploads : PostFinished(u)
  <2>1. UNCHANGED <<request, draw, nav>> /\ (net' = net \/ net'.todo = FinishSteps)
    BY <1>3 DEF PostFinished
  <2>2. FinishSteps \notin {Rest1, Rest2, Rest3, Rest4, Rest5}
    BY TodosApart
  <2> QED
    BY <2>1, <2>2 DEF Paths, request
<1>4. CASE FinishStep
  <2>1. UNCHANGED <<draw, nav>> /\ net.count \in Slots
    BY <1>4, FinishFrame, CountedSlots
  <2>2. CASE FinishPath
    BY <2>1, <2>2 DEF FinishPath, Paths
  <2>3. CASE FinishStep /\ ~ FinishPath
    <3>1. net.todo \in {Rest1, Rest2, Rest3, Rest4, Rest5} /\ UNCHANGED drawPath
      BY <2>3, FinishMoves DEF FinishStep, FinishRename, FinishSaveBg, FinishOpenMeta,
         FinishWriteMeta, FinishHandOff, request
    <3> QED
      BY <3>1 DEF Paths
  <2> QED
    BY <1>4, <2>2, <2>3
<1>5. CASE DrawStep
  <2>1. /\ UNCHANGED <<drawPath, net, nav>>
        /\ drawPending' = FALSE \/ drawPending' = drawPending
        /\ draw'.at = "poll" \/ draw.at # "poll" \/ drawPending
    BY <1>5 DEF DrawStep, DrawCall, DrawOpen, DrawRows, DrawClear, DrawVars, IdleDraw
  <2> QED
    BY <2>1 DEF Paths
<1>6. CASE NavLoad \/ NavStep
  <2>1. UNCHANGED <<draw, net>>
    BY <1>6, NavFrame
  <2>2. CASE NavPath
    BY <2>1, <2>2, CountedSlots DEF NavPath, Paths
  <2>3. CASE NavHandOff
    BY <2>1, <2>3 DEF NavHandOff, Paths, IdleNav
  <2>4. CASE NavLoad \/ NavOpenMeta \/ NavWriteMeta
    <3>1. (UNCHANGED request /\ nav'.at # "handOff") \/ UNCHANGED <<request, nav>>
      BY <2>4 DEF NavLoad, NavOpenMeta, NavWriteMeta, Counts
    <3> QED
      BY <2>1, <3>1 DEF Paths, request
  <2> QED
    BY <1>6, <2>2, <2>3, <2>4 DEF NavStep
<1>7. CASE PowerCycle
  <2>1. net'.todo \notin {Rest1, Rest2, Rest3, Rest4, Rest5}
    BY <1>7, TodosApart DEF PowerCycle, IdleNet
  <2> QED
    BY <1>7, <2>1 DEF PowerCycle, Paths, IdleNav, IdleDraw
<1>8. CASE UNCHANGED vars
  BY <1>1, <1>8 DEF vars, request
<1> QED
  BY <1>2, <1>3, <1>4, <1>5, <1>6, <1>7, <1>8 DEF Next

\* What is in a slot can be shown.
LEMMA SlotPictures ==
    ASSUME GalleryTypes, Stored
    PROVE  /\ \A s \in Slots : image[s] \in Pictures
           /\ {None, Garbled} \subseteq Pictures /\ Black \in Colours /\ Uploads \subseteq Colours
<1>1. ASSUME NEW s \in Slots PROVE image[s] \in Pictures
  <2>1. CASE image[s] \in {None, Garbled}
    BY <2>1 DEF Pictures
  <2>2. ASSUME NEW u \in Uploads, image[s] = Part(u, sent[u]) PROVE image[s] \in Pictures
    BY <2>2 DEF Pictures, GalleryTypes
  <2>3. CASE image[s] = <<>>
    <3>1. Uploads # {}
      BY PiecesAssumption, FS_EmptySet DEF Slots
    <3>2. PICK u \in Uploads : TRUE
      BY <3>1
    <3>3. image[s] = Part(u, 0) /\ 0 \in 0 .. Pieces
      BY <2>3, PartFacts, PiecesAssumption
    <3> QED
      BY <3>3 DEF Pictures
  <2> QED
    BY <2>1, <2>2, <2>3 DEF Stored, Fileable
<1> QED
  BY <1>1 DEF Pictures, Colours

LEMMA StepShows ==
    ASSUME GalleryTypes, Stored, Counts, Paths, Shows, [Next]_vars
    PROVE  Shows'
<1> USE DEF Shows
<1>0. /\ \A s \in Slots : image[s] \in Pictures
      /\ {None, Garbled} \subseteq Pictures /\ Black \in Colours /\ Uploads \subseteq Colours
  BY SlotPictures
<1>1. CASE UNCHANGED <<bgFile, drawPending, bgColor, drawBg, draw, panel>>
  BY <1>1
<1>2. CASE \E u \in Uploads : PostBegin(u) \/ PostReceive(u) \/ PostFinished(u)
  <2>1. /\ UNCHANGED <<bgFile, request, draw, panel>>
        /\ bgColor' \in Uploads \/ UNCHANGED bgColor
    BY <1>2, PostFrame DEF PostBegin, PostReceive, PostFinished
  <2> QED
    BY <1>0, <2>1 DEF request
<1>3. CASE FinishStep
  <2>1. UNCHANGED <<bgColor, draw, panel>>
    BY <1>3, FinishFrame DEF upload
  <2>2. CASE FinishSaveBg
    BY <1>0, <2>1, <2>2 DEF FinishSaveBg, request, Black
  <2>3. CASE FinishHandOff
    BY <2>1, <2>3 DEF FinishHandOff, card
  <2>4. CASE FinishPath \/ FinishRename \/ FinishOpenMeta \/ FinishWriteMeta
    <3>1. UNCHANGED <<bgFile, drawPending, drawBg>>
      BY <2>4 DEF FinishPath, FinishRename, FinishOpenMeta, FinishWriteMeta, request, card
    <3> QED
      BY <2>1, <3>1
  <2> QED
    BY <1>3, <2>2, <2>3, <2>4 DEF FinishStep
<1>4. CASE DrawStep
  <2>1. UNCHANGED <<bgFile, bgColor, drawBg>>
    BY <1>4, DrawFrame DEF card, upload
  <2>2. CASE DrawCall
    BY <2>1, <2>2 DEF DrawCall, DrawVars, DrawPoints
  <2>3. CASE DrawOpen
    <3>1. drawPath \in Slots /\ UNCHANGED <<drawPending, panel>>
      BY <2>3 DEF DrawOpen, DrawVars, Paths
    <3>2. /\ draw' \in [at : DrawPoints, bg : Colours, slot : Slots \cup {None}]
          /\ draw'.at = "rows" => draw'.slot \in Slots
      BY <2>3, <3>1 DEF DrawOpen, DrawVars, DrawPoints
    <3> QED
      BY <2>1, <3>1, <3>2
  <2>4. CASE DrawRows
    <3>1. draw.slot \in Slots /\ UNCHANGED drawPending
      BY <2>4 DEF DrawRows, DrawVars
    <3>2. /\ draw' \in [at : DrawPoints, bg : Colours, slot : Slots \cup {None}]
          /\ draw'.at # "rows"
      BY <2>4, <3>1 DEF DrawRows, DrawVars, DrawPoints
    <3>3. \E p \in Pictures : panel' = [pic |-> p, bg |-> draw.bg]
      BY <1>0, <2>4, <3>1 DEF DrawRows, DrawVars
    <3>4. panel' \in [pic : Pictures, bg : Colours]
      BY <3>3
    <3> QED
      BY <2>1, <3>1, <3>2, <3>4
  <2>5. CASE DrawClear
    BY <1>0, <2>1, <2>5 DEF DrawClear, DrawVars, DrawPoints, IdleDraw
  <2> QED
    BY <1>4, <2>2, <2>3, <2>4, <2>5 DEF DrawStep
<1>5. CASE NavLoad \/ NavStep
  <2>1. UNCHANGED <<bgFile, bgColor, draw, panel>>
    BY <1>5, NavFrame DEF upload
  <2>2. CASE NavHandOff
    <3>1. nav.current \in Slots
      BY <2>2, CountedSlots DEF NavHandOff
    <3>2. LoadBg(nav.current) \in Colours
      BY <1>0, <3>1 DEF LoadBg
    <3> QED
      BY <1>0, <2>1, <2>2, <3>2 DEF NavHandOff
  <2>3. CASE NavLoad \/ NavOpenMeta \/ NavWriteMeta \/ NavPath
    BY <2>1, <2>3 DEF NavLoad, NavOpenMeta, NavWriteMeta, NavPath, request
  <2> QED
    BY <1>5, <2>2, <2>3 DEF NavStep
<1>6. CASE PowerCycle
  <2>1. /\ UNCHANGED bgFile /\ bgColor' = Black /\ drawBg' = Black
        /\ drawPending' = FALSE /\ draw' = IdleDraw
    BY <1>6 DEF PowerCycle, card
  <2>2. draw' \in [at : DrawPoints, bg : Colours, slot : Slots \cup {None}] /\ draw'.at # "rows"
    BY <1>0, <2>1 DEF IdleDraw, DrawPoints
  <2>3. NoPicture \in [pic : Pictures, bg : Colours]
    BY <1>0 DEF NoPicture
  <2>4. CASE LoadMeta.count # 0
    <3>1. LoadMeta.current \in Slots
      BY <2>4, CountedSlots
    <3>2. LoadBg(LoadMeta.current) \in Colours /\ image[LoadMeta.current] \in Pictures
      BY <1>0, <3>1 DEF LoadBg
    <3>3. PICK p \in Pictures, c \in Colours : p = Current /\ c = LoadBg(LoadMeta.current)
      BY <3>2 DEF Current
    <3>4. panel' \in {NoPicture, [pic |-> p, bg |-> c], [pic |-> Garbled, bg |-> c],
                      [pic |-> p, bg |-> Black]}
      BY <1>6, <3>3 DEF PowerCycle, Restored, PartlyRestored
    <3>5. panel' \in [pic : Pictures, bg : Colours]
      BY <1>0, <2>3, <3>4
    <3> QED
      BY <1>0, <2>1, <2>2, <3>5
  <2>5. CASE LoadMeta.count = 0
    BY <1>0, <1>6, <2>1, <2>2, <2>3, <2>5 DEF PowerCycle
  <2> QED
    BY <2>4, <2>5
<1>7. CASE UNCHANGED vars
  BY <1>1, <1>7 DEF vars, card, upload, request
<1> QED
  BY <1>2, <1>3, <1>4, <1>5, <1>6, <1>7 DEF Next
-----------------------------------------------------------------------------
LEMMA InitGallery == Init => GalleryInv
<1> SUFFICES ASSUME Init PROVE GalleryInv
  OBVIOUS
<1> USE DEF Init, IdleNet, IdleNav, IdleDraw, NoPicture
<1>1. net.todo = <<>> /\ net.count = 0 /\ net \in [todo : Todos, count : Nat]
  BY DEF Todos
<1>2. net.todo \notin {FinishSteps, Rest1, Rest2, Rest3, Rest4, Rest5}
  BY <1>1, TodosApart
<1>3. GalleryTypes /\ Staged
  <2>1. 0 \in 0 .. Pieces
    BY PiecesAssumption
  <2> QED
    BY <2>1 DEF GalleryTypes, Staged
<1>4. Stored
  BY <1>2 DEF Stored
<1>5. Counts
  <2>1. nav \in [at : NavPoints, count : Nat, current : Nat] /\ nav.at = "poll" /\ meta = None
    BY DEF NavPoints
  <2> QED
    BY <1>1, <2>1, AnsweredCount DEF Counts
<1>6. Paths
  BY <1>2 DEF Paths
<1>7. Shows
  <2>1. None \in Pictures /\ Black \in Colours
    BY DEF Pictures, Colours
  <2>2. bgFile \in [Slots -> Colours] /\ bgColor \in Colours /\ drawBg \in Colours
    BY <2>1 DEF Black
  <2>3. draw \in [at : DrawPoints, bg : Colours, slot : Slots \cup {None}] /\ draw.at = "poll"
    BY <2>1 DEF DrawPoints
  <2>4. panel \in [pic : Pictures, bg : Colours]
    BY <2>1
  <2> QED
    BY <2>2, <2>3, <2>4 DEF Shows
<1>8. Quiet
  BY <1>1, <1>2 DEF Quiet
<1>9. NoneLost
  <2>1. LoadMeta.count = 0 /\ nav.at = "poll"
    BY DEF LoadMeta
  <2>2. Filled(Trusted)
    BY <2>1 DEF Filled, Trusted, Slots
  <2>3. received \in Seq(Uploads) /\ DOMAIN received = {}
    OBVIOUS
  <2> QED
    BY <1>2, <2>1, <2>2, <2>3 DEF NoneLost
<1> QED
  BY <1>3, <1>4, <1>5, <1>6, <1>7, <1>8, <1>9 DEF GalleryInv, QuietInv, KeptInv
-----------------------------------------------------------------------------
(***************************************************************************)
(* Quiet: what is counted is there.                                        *)
(***************************************************************************)
LEMMA SavedStays ==
    ASSUME GalleryTypes, [Next]_vars, NEW n, Saved(n)
    PROVE  Saved(n)'
<1>1. ASSUME NEW i \in Slots, i < n PROVE image'[i] # None
  <2>1. image[i] # None
    BY <1>1 DEF Saved
  <2> QED
    BY <2>1, StepKept
<1> QED
  BY <1>1 DEF Saved

\* A count of another step, saved when it was taken.
LEMMA SavedThen ==
    ASSUME GalleryTypes, [Next]_vars, NEW m, NEW n, Saved(m), m = n
    PROVE  \A i \in Slots : i < n => image'[i] # None
BY SavedStays DEF Saved

LEMMA SavedLoad ==
    ASSUME GalleryTypes, [Next]_vars, Quiet
    PROVE  Saved(0) /\ Saved(LoadMeta.count)
<1>1. Saved(0)
  BY DEF Saved, Slots
<1> QED
  BY <1>1 DEF Quiet, LoadMeta

\* What is about to be renamed is a file.
LEMMA FileableFile ==
    ASSUME GalleryTypes, NEW p, Fileable(p)
    PROVE  p # None
<1>1. \A u \in Uploads : Part(u, sent[u]) # None
  <2>1. ASSUME NEW u \in Uploads PROVE Part(u, sent[u]) \in Seq(Uploads)
    <3>1. sent[u] \in Nat
      BY PiecesAssumption DEF GalleryTypes
    <3> QED
      BY <3>1, PartFacts
  <2> QED
    BY <2>1, NoneAssumption
<1>2. <<>> # None
  BY EmptySeq, NoneAssumption
<1> QED
  BY <1>1, <1>2 DEF Fileable

LEMMA QuietFinishStep ==
    ASSUME GalleryTypes, Stored, Counts, Quiet, [Next]_vars, FinishStep, "rename" \notin trouble'
    PROVE  Quiet'
<1>1. UNCHANGED nav /\ net.todo # <<>> /\ nav.at = "poll"
  BY FinishFrame DEF Quiet, NetFree
<1>2. Saved(net.count) /\ net.count \in Slots /\ net'.count = net.count
  BY <1>1, CountedSlots, FinishMoves DEF Quiet
<1>3. /\ \A i \in Slots : i < net'.count => image'[i] # None
      /\ meta # None => \A i \in Slots : i < meta.count => image'[i] # None
  BY <1>2, SavedThen DEF Quiet
<1>4. image[net.count] # None => image'[net.count] # None
  BY <1>2, StepKept
\* What is left: the path, the picture and gallery.meta.
<1>5. SUFFICES
        /\ net'.todo = Rest1 => drawPath' = net.count
        /\ net'.todo \in {Rest2, Rest3, Rest4, Rest5} => image'[net.count] # None
        /\ meta' # None => \A i \in Slots : i < meta'.count => image'[i] # None
  BY <1>1, <1>2, <1>3, <1>5 DEF Quiet, Saved
<1>6. UNCHANGED meta \/ meta' = None
        => (meta' # None => \A i \in Slots : i < meta'.count => image'[i] # None)
  BY <1>3
<1>7. CASE FinishPath
  <2>1. net'.todo = Rest1 /\ drawPath' = net.count /\ UNCHANGED meta
    BY <1>7, FinishMoves DEF FinishPath, card
  <2>2. Rest1 \notin {Rest2, Rest3, Rest4, Rest5}
    BY TodosApart
  <2> QED
    BY <1>6, <2>1, <2>2
<1>8. CASE FinishRename
  <2>1. net.todo = Rest1 /\ net'.todo = Rest2 /\ UNCHANGED meta
    BY <1>8, FinishMoves DEF FinishRename
  <2>2. drawPath = net.count /\ staging # None
    BY <2>1, FileableFile DEF Quiet, Stored
  <2>3. image'[net.count] # None
    BY <1>2, <1>8, <2>2, RenameFacts DEF FinishRename
  <2>4. Rest2 # Rest1
    BY TodosApart
  <2> QED
    BY <1>6, <2>1, <2>3, <2>4
<1>9. CASE FinishSaveBg \/ FinishOpenMeta \/ FinishWriteMeta
  <2>1. net.todo \in {Rest2, Rest3, Rest4} /\ net'.todo \in {Rest3, Rest4, Rest5}
    BY <1>9, FinishMoves
  <2>2. net'.todo # Rest1 /\ image'[net.count] # None
    BY <1>4, <2>1, TodosApart DEF Quiet
  <2>3. CASE UNCHANGED meta \/ meta' = None
    BY <1>6, <2>2, <2>3
  <2>4. CASE meta' = [count |-> net.count + 1, current |-> net.count]
    <3>1. ASSUME NEW i \in Slots, i < net.count + 1 PROVE image'[i] # None
      <4>1. i < net'.count \/ i = net.count
        BY <1>2, <3>1 DEF Slots
      <4> QED
        BY <1>3, <2>2, <4>1
    <3>2. meta'.count = net.count + 1
      BY <2>4
    <3> QED
      BY <2>2, <3>1, <3>2
  <2> QED
    BY <1>9, <2>3, <2>4 DEF FinishSaveBg, FinishOpenMeta, FinishWriteMeta, SavedMeta
<1>10. CASE FinishHandOff
  <2>1. net'.todo = <<>> /\ UNCHANGED meta
    BY <1>10, FinishMoves DEF FinishHandOff, card
  <2> QED
    BY <1>6, <2>1, TodosApart
<1> QED
  BY <1>7, <1>8, <1>9, <1>10 DEF FinishStep

LEMMA QuietNav ==
    ASSUME GalleryTypes, Counts, Quiet, [Next]_vars, NavLoad \/ NavStep, "press" \notin trouble'
    PROVE  Quiet'
<1>1. UNCHANGED <<net, image>>
  BY NavFrame
<1>2. Saved(LoadMeta.count)
  BY SavedLoad
<1>3. CASE UNCHANGED nav /\ UNCHANGED meta /\ UNCHANGED drawPath
  BY <1>1, <1>3 DEF Quiet, Saved, NetFree
<1>4. CASE /\ nav'.count = LoadMeta.count /\ UNCHANGED <<meta, drawPath>>
           /\ NetFree
  BY <1>1, <1>2, <1>4 DEF Quiet, Saved, NetFree
<1>5. NavLoad => \/ UNCHANGED nav /\ UNCHANGED meta /\ UNCHANGED drawPath
                 \/ nav'.count = LoadMeta.count /\ UNCHANGED <<meta, drawPath>> /\ NetFree
  BY DEF NavLoad, card, request
<1>6. CASE NavStep
  <2>1. nav.at # "poll" /\ nav \in [at : NavPoints, count : Nat, current : Nat]
    BY <1>6 DEF NavStep, NavOpenMeta, NavWriteMeta, NavPath, NavHandOff, Counts
  <2>2. Saved(nav.count) /\ net.todo = <<>>
    BY <2>1 DEF Quiet, NetFree
  <2>3. nav'.at = "poll" \/ nav'.count = nav.count
    BY <1>6, <2>1 DEF NavStep, NavOpenMeta, NavWriteMeta, NavPath, NavHandOff, IdleNav
  <2>4. \/ UNCHANGED meta
        \/ meta' = None
        \/ meta' = [count |-> nav.count, current |-> nav.current]
    BY <1>6 DEF NavStep, NavOpenMeta, NavWriteMeta, NavPath, NavHandOff, card
  <2>5. meta' # None => Saved(meta'.count)
    BY <2>2, <2>4 DEF Quiet
  <2>6. net.todo \notin {Rest1, Rest2, Rest3, Rest4, Rest5}
    BY <2>2, TodosApart
  <2> QED
    BY <1>1, <2>2, <2>3, <2>5, <2>6 DEF Quiet, Saved, NetFree
<1> QED
  BY <1>3, <1>4, <1>5, <1>6

LEMMA StepQuiet ==
    ASSUME GalleryTypes, Staged, Stored, Counts, QuietInv, [Next]_vars
    PROVE  QuietInv'
<1> SUFFICES ASSUME "rename" \notin trouble', "press" \notin trouble' PROVE Quiet'
  BY DEF QuietInv, Spared
<1>1. Quiet
  BY TroubleGrows DEF QuietInv, Spared
<1>2. /\ \A i \in Slots : i < LoadMeta.count => image'[i] # None
      /\ meta # None => \A i \in Slots : i < meta.count => image'[i] # None
      /\ nav.at # "poll" => \A i \in Slots : i < nav.count => image'[i] # None
  BY <1>1, SavedLoad, SavedThen DEF Quiet
<1>3. CASE UNCHANGED <<meta, nav, net>> /\ net.todo = <<>>
  <2>1. net'.todo \notin {Rest1, Rest2, Rest3, Rest4, Rest5}
    BY <1>3, TodosApart
  <2> QED
    BY <1>1, <1>2, <1>3, <2>1 DEF Quiet, Saved, NetFree
<1>4. CASE \E u \in Uploads : PostBegin(u) \/ PostReceive(u)
  BY <1>3, <1>4 DEF PostBegin, PostReceive, NetFree
<1>5. ASSUME NEW u \in Uploads, PostFinished(u) PROVE Quiet'
  <2>1. UNCHANGED <<meta, nav>> /\ net.todo = <<>>
    BY <1>5, PostFrame
  <2>2. CASE UNCHANGED net
    BY <1>3, <2>1, <2>2
  <2>3. CASE /\ nav.at = "poll"
             /\ \E n : net' = [todo |-> FinishSteps, count |-> n]
                       /\ (n = LoadMeta.count \/ n = 0)
    <3>1. net'.todo = FinishSteps /\ (net'.count = LoadMeta.count \/ net'.count = 0)
      BY <2>3
    <3>2. FinishSteps \notin {Rest1, Rest2, Rest3, Rest4, Rest5}
      BY TodosApart
    <3>3. \A i \in Slots : i < net'.count => image'[i] # None
      BY <1>2, <3>1 DEF Slots
    <3> QED
      BY <1>2, <2>1, <2>3, <3>1, <3>2, <3>3 DEF Quiet, Saved
  <2> QED
    BY <1>5, <2>2, <2>3, StagedPostFinished
<1>6. CASE FinishStep
  BY <1>1, <1>6, QuietFinishStep
<1>7. CASE DrawStep \/ UNCHANGED vars
  <2>1. UNCHANGED <<meta, image, nav, net, drawPath>>
    BY <1>7, DrawFrame DEF vars, card, request
  <2> QED
    BY <1>1, <2>1 DEF Quiet, Saved, NetFree
<1>8. CASE NavLoad \/ NavStep
  BY <1>1, <1>8, QuietNav
<1>9. CASE PowerCycle
  <2>1. UNCHANGED meta /\ net'.todo = <<>> /\ nav'.at = "poll"
    BY <1>9 DEF PowerCycle, IdleNet, IdleNav
  <2>2. net'.todo \notin {Rest1, Rest2, Rest3, Rest4, Rest5}
    BY <2>1, TodosApart
  <2> QED
    BY <1>2, <2>1, <2>2 DEF Quiet, Saved
<1> QED
  BY <1>4, <1>5, <1>6, <1>7, <1>8, <1>9 DEF Next
-----------------------------------------------------------------------------
(***************************************************************************)
(* NoneLost: every upload received is in a slot.                           *)
(***************************************************************************)
\* While no rename failed, slots are kept to the letter.
LEMMA SlotsKept ==
    ASSUME GalleryTypes, Stored, [Next]_vars, "rename" \notin trouble'
    PROVE  /\ \A s \in Slots : image[s] # None => image'[s] = image[s]
           /\ \A u \in Uploads : conn[u] = "done" /\ InSlot(u) => InSlot(u)'
<1>1. shared = {}
  BY TroubleGrows DEF Stored
<1>2. \A s \in Slots : image[s] # None => image'[s] = image[s]
  BY <1>1, StepKept
<1>3. ASSUME NEW u \in Uploads, conn[u] = "done", NEW s \in Slots, image[s] = Sent(u)
      PROVE  image'[s] = Sent(u)'
  <2>1. sent'[u] = sent[u] /\ sent[u] \in Nat
    BY <1>3, DoneStays, PiecesAssumption DEF GalleryTypes
  <2>2. Part(u, sent[u]) \in Seq(Uploads) /\ Part(u, sent[u]) = Sent(u)
    BY <2>1, PartFacts
  <2>3. image[s] # None
    BY <1>3, <2>2, NoneAssumption
  <2> QED
    BY <1>2, <1>3, <2>1, <2>3 DEF Sent
<1> QED
  BY <1>2, <1>3 DEF InSlot

\* A step that leaves the slots, the net task's plan and what was received alone.
LEMMA LostNothing ==
    ASSUME GalleryTypes, Stored, NoneLost, [Next]_vars, "rename" \notin trouble',
           UNCHANGED <<received, net, image>>, UNCHANGED staging \/ NetFree,
           NetFree \/ UNCHANGED sent,
           Trusted' = Trusted, nav'.at = "openMeta" => LoadMeta'.count = nav'.count
    PROVE  NoneLost'
<1>1. \A i \in DOMAIN received : received[i] \in Uploads
  BY DEF NoneLost
<1>2. net.todo \in {FinishSteps, Rest1} => UNCHANGED <<staging, sent>>
  BY TodosApart DEF NetFree
<1>3. \A i \in DOMAIN received : conn'[received'[i]] = "done"
  BY <1>1, DoneStays DEF NoneLost
<1>4. \A i \in DOMAIN received : InSlot(received[i]) => InSlot(received[i])'
  <2>1. \A u \in Uploads : conn[u] = "done" /\ InSlot(u) => InSlot(u)'
    BY SlotsKept
  <2>2. \A i \in DOMAIN received : conn[received[i]] = "done"
    BY DEF NoneLost
  <2> QED
    BY <1>1, <2>1, <2>2 DEF InSlot, Sent
<1>5. net.todo \in {<<>>, Rest5} => Filled(Trusted)'
  BY DEF NoneLost, Filled
<1>6. net.todo \in {FinishSteps, Rest1} =>
        Filled(net.count)' /\ received # <<>> /\ staging' = Sent(received[Len(received)])'
  BY <1>2 DEF NoneLost, Filled, Sent
<1>7. net.todo \in {Rest2, Rest3, Rest4} => Filled(net.count + 1)'
  BY DEF NoneLost, Filled
<1>8. \A i \in DOMAIN received' :
         \/ InSlot(received[i])'
         \/ net'.todo \in {FinishSteps, Rest1} /\ i = Len(received')
  BY <1>4 DEF NoneLost
<1> QED
  BY <1>3, <1>5, <1>6, <1>7, <1>8 DEF NoneLost

LEMMA LostPostFinished ==
    ASSUME GalleryTypes, Staged, Stored, NoneLost, [Next]_vars,
           "rename" \notin trouble', "press" \notin trouble', "close" \notin trouble',
           "load" \notin trouble', NEW u \in Uploads, PostFinished(u)
    PROVE  NoneLost'
<1>1. UNCHANGED <<image, meta, nav, sent>> /\ net.todo = <<>>
  BY DEF PostFinished, NetFree
<1>2. CASE UNCHANGED <<net, received>>
  <2>1. Trusted' = Trusted /\ (nav'.at = "openMeta" => LoadMeta'.count = nav'.count)
    BY <1>1 DEF Trusted, LoadMeta, NoneLost
  <2> QED
    BY <1>1, <1>2, <2>1, LostNothing DEF NetFree
<1>3. CASE /\ sent[u] > 0 /\ conn'[u] = "done" /\ nav.at = "poll"
           /\ net' = [todo |-> FinishSteps, count |-> LoadMeta.count]
           /\ received' = Append(received, u)
           /\ staging' = Part(u, sent[u])
  <2>1. received \in Seq(Uploads) /\ Filled(LoadMeta.count)
    BY <1>1, <1>3 DEF NoneLost, Trusted
  <2>2. net'.todo = FinishSteps /\ net'.count = LoadMeta.count
    BY <1>3
  <2>3. /\ received' \in Seq(Uploads) /\ received' # <<>> /\ Len(received') = Len(received) + 1
        /\ received'[Len(received')] = u
        /\ DOMAIN received' = DOMAIN received \cup {Len(received')}
        /\ \A i \in DOMAIN received : received'[i] = received[i]
    BY <1>3, <2>1
  <2>4. \A i \in DOMAIN received :
          received[i] \in Uploads /\ conn[received[i]] = "done" /\ InSlot(received[i])
    <3>1. net.todo \notin {FinishSteps, Rest1}
      BY <1>1, TodosApart
    <3> QED
      BY <2>1, <3>1 DEF NoneLost
  <2>5. \A v \in Uploads : /\ conn[v] = "done" => conn'[v] = "done"
                           /\ conn[v] = "done" /\ InSlot(v) => InSlot(v)'
    BY SlotsKept, DoneStays
  <2>6. \A i \in DOMAIN received' : conn'[received'[i]] = "done"
    BY <1>3, <2>3, <2>4, <2>5
  <2>7. \A i \in DOMAIN received' : InSlot(received[i])' \/ i = Len(received')
    <3>1. ASSUME NEW i \in DOMAIN received PROVE InSlot(received[i])'
      <4>1. PICK v \in Uploads : v = received[i] /\ v = received'[i]
        BY <2>3, <2>4
      <4>2. InSlot(v)'
        BY <2>4, <2>5, <4>1
      <4> QED
        BY <4>1, <4>2 DEF InSlot, Sent
    <3> QED
      BY <2>3, <3>1
  <2>8. net'.todo \notin {<<>>, Rest5} /\ net'.todo \notin {Rest2, Rest3, Rest4}
    BY <2>2, TodosApart
  <2>9. staging' = Sent(received[Len(received)])'
    BY <1>1, <1>3, <2>3, PartFacts DEF Sent
  <2>10. Filled(net.count)'
    BY <1>1, <2>1, <2>2 DEF Filled
  <2>11. nav'.at # "openMeta"
    BY <1>1, <1>3
  <2> QED
    BY <2>2, <2>3, <2>6, <2>7, <2>8, <2>9, <2>10, <2>11 DEF NoneLost
<1> QED
  BY <1>2, <1>3, StagedPostFinished

LEMMA LostFinishStep ==
    ASSUME GalleryTypes, Staged, Stored, Counts, Quiet, NoneLost, [Next]_vars,
           "rename" \notin trouble', "meta" \notin trouble', FinishStep
    PROVE  NoneLost'
<1>1. UNCHANGED <<received, nav, conn, sent>> /\ net.todo # <<>> /\ nav.at = "poll"
  BY FinishFrame DEF browser, Quiet, NetFree
<1>2. /\ net.todo \in Todos /\ net.count \in Slots /\ net'.count = net.count
      /\ received \in Seq(Uploads)
  BY <1>1, CountedSlots, FinishMoves DEF NoneLost
<1>3. \A i \in DOMAIN received :
        received[i] \in Uploads /\ conn[received[i]] = "done" /\ conn'[received'[i]] = "done"
  BY <1>1, <1>2 DEF NoneLost
<1>4. \A i \in DOMAIN received : InSlot(received[i]) => InSlot(received[i])'
  <2>1. \A v \in Uploads : conn[v] = "done" /\ InSlot(v) => InSlot(v)'
    BY SlotsKept
  <2> QED
    BY <1>1, <1>3, <2>1 DEF InSlot, Sent
\* What is left of the goal.
<1>5. SUFFICES
        /\ net'.todo \in {<<>>, Rest5} => Filled(LoadMeta.count)'
        /\ net'.todo \in {FinishSteps, Rest1} =>
             Filled(net.count)' /\ received # <<>> /\ staging' = Sent(received[Len(received)])
        /\ net'.todo \in {Rest2, Rest3, Rest4} => Filled(net.count + 1)'
        /\ \A i \in DOMAIN received :
             InSlot(received[i])' \/ (net'.todo \in {FinishSteps, Rest1} /\ i = Len(received))
  BY <1>1, <1>2, <1>3, <1>5 DEF NoneLost, Trusted, Sent
<1>6. \A i \in DOMAIN received :
        net.todo \notin {FinishSteps, Rest1} \/ i # Len(received) => InSlot(received[i])'
  BY <1>4 DEF NoneLost
<1>7. CASE FinishPath
  <2>1. net.todo = FinishSteps /\ net'.todo = Rest1 /\ UNCHANGED <<image, staging>>
    BY <1>7, FinishMoves DEF FinishPath, card
  <2>2. Rest1 \notin {<<>>, Rest5} /\ Rest1 \notin {Rest2, Rest3, Rest4}
    BY TodosApart
  <2> QED
    BY <1>2, <1>6, <2>1, <2>2 DEF NoneLost, Filled
<1>8. CASE FinishRename
  <2>1. net.todo = Rest1 /\ net'.todo = Rest2
    BY <1>8, FinishMoves
  <2>2. drawPath = net.count /\ staging # None
    BY <2>1, FileableFile DEF Quiet, Stored
  <2>3. Filled(net.count) /\ received # <<>> /\ staging = Sent(received[Len(received)])
    BY <2>1 DEF NoneLost
  <2>4. image[net.count] = None
    BY <1>2, <2>3 DEF Filled, Slots
  <2>5. image'[net.count] = staging /\ \A s \in Slots : s # net.count => image'[s] = image[s]
    <3>1. Rename(net.count)
      BY <1>8, <2>2 DEF FinishRename
    <3>2. image'[net.count] # None
      BY <1>2, <2>2, <3>1, RenameFacts
    <3> QED
      BY <1>2, <2>4, <3>1, <3>2, RenameFacts
  <2>6. \A s \in Slots : image'[s] # None <=> s < net.count + 1
    BY <1>2, <2>2, <2>3, <2>5 DEF Filled, Slots
  <2>7. InSlot(received[Len(received)])'
    BY <1>1, <1>2, <2>3, <2>5 DEF InSlot, Sent
  <2>8. \A i \in DOMAIN received : InSlot(received[i])'
    <3>1. ASSUME NEW i \in DOMAIN received, i = Len(received) PROVE InSlot(received[i])'
      BY <1>1, <2>7, <3>1 DEF InSlot, Sent
    <3> QED
      BY <1>6, <3>1
  <2>9. Rest2 \notin {<<>>, Rest5} /\ Rest2 \notin {FinishSteps, Rest1}
    BY TodosApart
  <2>10. Filled(net.count + 1)'
    BY <1>2, <2>6 DEF Filled
  <2> QED
    BY <2>1, <2>8, <2>9, <2>10
<1>9. CASE FinishSaveBg \/ FinishOpenMeta
  <2>1. /\ net.todo \in {Rest2, Rest3} /\ net'.todo \in {Rest3, Rest4} /\ UNCHANGED image
    BY <1>9, FinishMoves DEF FinishSaveBg, FinishOpenMeta
  <2>2. \A t \in {Rest2, Rest3, Rest4} : t \notin {<<>>, Rest5} /\ t \notin {FinishSteps, Rest1}
    BY TodosApart
  <2> QED
    BY <1>2, <1>6, <2>1, <2>2 DEF NoneLost, Filled
<1>10. CASE FinishWriteMeta
  <2>1. net.todo = Rest4 /\ net'.todo = Rest5
    BY <1>10, FinishMoves
  <2>2. UNCHANGED image /\ meta' = [count |-> net.count + 1, current |-> net.count]
    BY <1>10 DEF FinishWriteMeta, SavedMeta, Fails, Fail
  <2>3. meta' \in [count : Nat, current : Nat]
    BY <2>2, FinishMoves
  <2>4. (LoadMeta.count)' = net.count + 1
    BY <2>2, <2>3, NoneAssumption DEF LoadMeta
  <2>5. /\ Rest4 \notin {FinishSteps, Rest1}
        /\ Rest5 \notin {FinishSteps, Rest1} /\ Rest5 \notin {Rest2, Rest3, Rest4}
    BY TodosApart
  <2>6. Filled(net.count + 1)
    BY <2>1 DEF NoneLost
  <2> QED
    BY <1>6, <2>1, <2>2, <2>4, <2>5, <2>6 DEF Filled
<1>11. CASE FinishHandOff
  <2>1. net.todo = Rest5 /\ net'.todo = <<>> /\ UNCHANGED <<image, meta>>
    BY <1>11, FinishMoves DEF FinishHandOff, card
  <2>2. \A t \in {Rest5, <<>>} : t \notin {FinishSteps, Rest1} /\ t \notin {Rest2, Rest3, Rest4}
    BY TodosApart
  <2>3. Filled(LoadMeta.count)
    BY <1>1, <2>1 DEF NoneLost, Trusted
  <2> QED
    BY <1>6, <2>1, <2>2, <2>3 DEF Filled, LoadMeta
<1> QED
  BY <1>7, <1>8, <1>9, <1>10, <1>11 DEF FinishStep

\* A press and what it saves leave the count as it is.
LEMMA LostNav ==
    ASSUME GalleryTypes, Stored, Counts, Quiet, NoneLost, [Next]_vars,
           "rename" \notin trouble', "press" \notin trouble', "meta" \notin trouble',
           NavLoad \/ NavStep
    PROVE  NoneLost'
<1>1. UNCHANGED <<received, net, image, staging, sent>>
  BY NavFrame DEF browser
<1>2. SUFFICES Trusted' = Trusted /\ (nav'.at = "openMeta" => LoadMeta'.count = nav'.count)
  BY <1>1, <1>2, LostNothing
<1>3. CASE NavLoad
  <2>1. UNCHANGED meta
    BY <1>3 DEF NavLoad, card
  <2>2. CASE UNCHANGED nav
    BY <2>1, <2>2 DEF Trusted, LoadMeta, NoneLost
  <2>3. CASE nav.at = "poll" /\ nav'.at = "openMeta" /\ nav'.count = LoadMeta.count
    BY <2>1, <2>3 DEF Trusted, LoadMeta
  <2> QED
    BY <1>3, <2>2, <2>3 DEF NavLoad
<1>4. CASE NavStep
  <2>1. nav.at # "poll" /\ nav \in [at : NavPoints, count : Nat, current : Nat]
    BY <1>4 DEF NavStep, NavOpenMeta, NavWriteMeta, NavPath, NavHandOff, Counts
  <2>2. CASE NavOpenMeta
    <3>1. nav.at = "openMeta" /\ nav' = [nav EXCEPT !.at = "writeMeta"]
      BY <2>2 DEF NavOpenMeta, Fails, Fail
    <3> QED
      BY <2>1, <3>1 DEF Trusted, NoneLost
  <2>3. CASE NavWriteMeta
    <3>1. /\ nav.at = "writeMeta" /\ nav' = [nav EXCEPT !.at = "path"]
          /\ meta' = [count |-> nav.count, current |-> nav.current]
      BY <2>3 DEF NavWriteMeta, Fails, Fail
    <3>2. meta' \in [count : Nat, current : Nat]
      BY <2>1, <3>1
    <3>3. (LoadMeta.count)' = nav.count
      BY <3>1, <3>2, NoneAssumption DEF LoadMeta
    <3> QED
      BY <2>1, <3>1, <3>3 DEF Trusted
  <2>4. CASE NavPath \/ NavHandOff
    <3>1. nav.at \in {"path", "handOff"} /\ nav'.at \in {"handOff", "poll"} /\ UNCHANGED meta
      BY <2>1, <2>4 DEF NavPath, NavHandOff, IdleNav, card
    <3> QED
      BY <3>1 DEF Trusted, LoadMeta
  <2> QED
    BY <1>4, <2>2, <2>3, <2>4 DEF NavStep
<1> QED
  BY <1>3, <1>4

LEMMA StepNoneLost ==
    ASSUME GalleryTypes, Staged, Stored, Counts, QuietInv, KeptInv, [Next]_vars
    PROVE  KeptInv'
<1>1. SUFFICES ASSUME /\ "close" \notin trouble' /\ "load" \notin trouble'
                      /\ "rename" \notin trouble' /\ "meta" \notin trouble'
                      /\ "press" \notin trouble' /\ "power" \notin trouble'
               PROVE  NoneLost'
  BY DEF KeptInv, Spared
<1>2. NoneLost /\ Quiet
  BY <1>1, TroubleGrows DEF KeptInv, QuietInv, Spared
<1>3. CASE /\ UNCHANGED <<received, net, image, meta, nav>>
           /\ UNCHANGED staging \/ NetFree
           /\ UNCHANGED sent \/ NetFree
  <2>1. Trusted' = Trusted /\ (nav'.at = "openMeta" => LoadMeta'.count = nav'.count)
    BY <1>2, <1>3 DEF Trusted, LoadMeta, NoneLost
  <2> QED
    BY <1>1, <1>2, <1>3, <2>1, LostNothing
<1>4. CASE \E u \in Uploads : PostReceive(u)
  BY <1>3, <1>4 DEF PostReceive
<1>5. ASSUME NEW u \in Uploads, PostBegin(u) PROVE NoneLost'
  <2>1. UNCHANGED <<received, net, meta, nav>> /\ NetFree
    BY <1>5 DEF PostBegin
  <2>2. UNCHANGED image
    <3>1. shared = {}
      BY <1>1, TroubleGrows DEF Stored
    <3>2. CASE Truncate
      BY <3>1, <3>2 DEF Truncate, GalleryTypes
    <3> QED
      BY <1>5, <3>2 DEF PostBegin
  <2> QED
    BY <1>3, <2>1, <2>2
<1>6. CASE \E u \in Uploads : PostFinished(u)
  BY <1>1, <1>2, <1>6, LostPostFinished
<1>7. CASE FinishStep
  BY <1>1, <1>2, <1>7, LostFinishStep
<1>8. CASE DrawStep \/ UNCHANGED vars
  <2>1. UNCHANGED <<received, net, image, meta, nav, staging, sent>>
    BY <1>8, DrawFrame DEF card, browser, vars, history
  <2> QED
    BY <1>3, <2>1
<1>9. CASE NavLoad \/ NavStep
  BY <1>1, <1>2, <1>9, LostNav
<1>10. CASE PowerCycle
  <2>1. /\ UNCHANGED <<received, sent, image, meta>> /\ net' = IdleNet /\ nav' = IdleNav
        /\ NetFree /\ nav.at # "writeMeta"
    BY <1>1, <1>10 DEF PowerCycle, Fail
  <2>2. Filled(LoadMeta.count)
    BY <1>2, <2>1 DEF NoneLost, NetFree, Trusted
  <2>3. net'.todo = <<>> /\ nav'.at = "poll"
    BY <2>1 DEF IdleNet, IdleNav
  <2>4. Filled(Trusted)'
    BY <2>1, <2>2, <2>3 DEF Filled, Trusted, LoadMeta
  <2>5. net.todo \notin {FinishSteps, Rest1} /\ net'.todo \notin {FinishSteps, Rest1}
        /\ net'.todo \notin {Rest2, Rest3, Rest4}
    BY <2>1, <2>3, TodosApart DEF NetFree
  <2>6. \A i \in DOMAIN received :
          received[i] \in Uploads /\ conn[received[i]] = "done" /\ InSlot(received[i])
    BY <1>2, <2>5 DEF NoneLost
  <2>7. \A v \in Uploads : /\ conn[v] = "done" => conn'[v] = "done"
                           /\ conn[v] = "done" /\ InSlot(v) => InSlot(v)'
    BY <1>1, SlotsKept, DoneStays
  <2>8. \A i \in DOMAIN received' : conn'[received'[i]] = "done" /\ InSlot(received[i])'
    BY <2>1, <2>6, <2>7 DEF InSlot, Sent
  <2> QED
    BY <1>2, <2>1, <2>3, <2>4, <2>5, <2>8 DEF NoneLost
<1> QED
  BY <1>4, <1>5, <1>6, <1>7, <1>8, <1>9, <1>10 DEF Next
-----------------------------------------------------------------------------
LEMMA StepGallery ==
    ASSUME AtOnce = 1
    PROVE  GalleryInv /\ [Next]_vars => GalleryInv'
BY StepTypes, StepStaged, StepStored, StepCounts, StepPaths, StepShows, StepQuiet,
   StepNoneLost DEF GalleryInv

\* A slot's number has a place in the types, as has a picture.
LEMMA SlotTypes == GalleryInv => WholePictures
<1> SUFFICES ASSUME GalleryInv PROVE WholePictures
  OBVIOUS
<1> USE DEF GalleryInv
<1>1. Cardinality(Uploads) \in Nat /\ Pieces \in Nat
  BY PiecesAssumption, AnsweredCount
<1>2. ASSUME NEW u \in Uploads, NEW k \in 0 .. Pieces PROVE Part(u, k) \in Bytes
  <2>1. Cardinality(Uploads) # 0
    BY PiecesAssumption, FS_EmptySet
  <2>2. k <= Pieces * Cardinality(Uploads)
    BY <1>1, <2>1
  <2>3. Part(u, k) \in [1 .. k -> Uploads]
    BY DEF Part
  <2> QED
    BY <1>1, <2>2, <2>3 DEF Bytes
<1>3. staging \in Bytes \cup {None}
  BY <1>2 DEF Staged
<1>4. Pictures \subseteq Bytes \cup {None, Garbled}
  BY <1>2 DEF Pictures
<1>5. meta \in Metas \cup {None}
  BY AnsweredCount DEF Counts, Counted, Metas, Slots
<1>6. net.count \in 0 .. Cardinality(Uploads)
  BY AnsweredCount DEF Counts
<1>7. drawPath \in Slots \cup {None} /\ shared \subseteq Slots
  BY DEF Paths, Stored
<1>8. /\ conn \in [Uploads -> {"new", "open", "done"}] /\ sent \in [Uploads -> 0 .. Pieces]
      /\ {uploadOpen, uploadOk, drawPending} \subseteq BOOLEAN /\ uploadBytes \in Nat
  BY DEF GalleryTypes, Staged, Shows
<1>9. \A s \in Slots : image[s] \in Bytes \cup {None, Garbled} /\ bgFile[s] \in Colours
  BY <1>4, SlotPictures DEF Shows
<1>10. /\ {bgColor, drawBg} \subseteq Colours /\ draw.bg \in Colours
       /\ panel.pic \in Bytes \cup {None, Garbled} /\ panel.bg \in Colours
  BY <1>4 DEF Shows
<1>11. GalleryTypeOK
  BY <1>3, <1>5, <1>6, <1>7, <1>8, <1>9, <1>10 DEF GalleryTypeOK
<1>12. ASSUME NEW s \in Slots
       PROVE  \/ image[s] = None
              \/ \E u \in Uploads : conn[u] = "done" /\ sent[u] > 0 /\ image[s] = Sent(u)
              \/ image[s] = <<>> /\ "close" \in trouble
              \/ image[s] = Garbled /\ "rename" \in trouble
  BY PartFacts DEF Stored, Fileable
<1> QED
  BY <1>11, <1>12 DEF WholePictures

LEMMA QuietCounts == GalleryInv => CountedExist
<1> SUFFICES ASSUME Counts, QuietInv, meta # None, Spared({"rename", "press"})
             PROVE  /\ meta.current < meta.count
                    /\ \A i \in 0 .. meta.count - 1 : image[i] # None
  BY DEF GalleryInv, CountedExist
<1>1. meta.current < meta.count /\ Saved(meta.count)
  BY DEF Counts, Counted, QuietInv, Quiet
<1>2. 0 .. meta.count - 1 \subseteq Slots
  BY AnsweredCount DEF Counts, Counted, Slots
<1> QED
  BY <1>1, <1>2 DEF Saved, Counts, Counted

LEMMA LostNone == GalleryInv => UndisturbedKept
BY TodosApart DEF GalleryInv, KeptInv, NoneLost, UndisturbedKept, EveryUploadKept, NetFree

\* One connection at a time: every slot holds all that came of one upload and nothing of
\* another, cut uploads included, whatever operations of the card fail but for what a
\* failed close or rename leaves, with any number of uploads, pieces, presses and power
\* cycles; and no count passes the uploads that are over, so every path is of a slot.
THEOREM WholePicturesCorrect ==
    ASSUME AtOnce = 1
    PROVE  Spec => []WholePictures
BY InitGallery, StepGallery, SlotTypes, PTL DEF Spec

\* One connection at a time: what gallery.meta counts is there and what it calls current
\* is counted, for any number of uploads, pieces, presses and power cycles between any two
\* file operations, unless a rename failed or a press met the filing of a picture.
THEOREM CountedExistCorrect ==
    ASSUME AtOnce = 1
    PROVE  Spec => []CountedExist
BY InitGallery, StepGallery, QuietCounts, PTL DEF Spec

\* One connection at a time: when httpd_post_finished() has returned, every upload it
\* reported as received is in a slot, all that came of it, for any number of uploads,
\* pieces, presses and power cycles, unless one of these met the filing of a picture or
\* an operation failed that files a picture or counts it.
THEOREM UndisturbedKeptCorrect ==
    ASSUME AtOnce = 1
    PROVE  Spec => []UndisturbedKept
BY InitGallery, StepGallery, LostNone, PTL DEF Spec
-----------------------------------------------------------------------------
(***************************************************************************)
(* The command line: the lines of a program.                               *)
(***************************************************************************)

AllLines == Lines \cup BuiltinLines
States == [acc : Int, flag : {-1, 0, 1}, mem : [Addresses -> Int], pc : Nat, ok : BOOLEAN]

\* An int is a number: Wrap() is the arithmetic of the build, for any width.
LEMMA WrapInt ==
    ASSUME NEW x \in Int
    PROVE  Wrap(x) \in Int
<1>1. 2^Width \in Nat \ {0}
  <2>1. IsFiniteSet(1 .. Width) /\ Cardinality(1 .. Width) = Width
    BY CalculatorAssumption, FS_Interval
  <2>2. IsFiniteSet(SUBSET (1 .. Width)) /\ Cardinality(SUBSET (1 .. Width)) = 2^Width
    BY <2>1, FS_SUBSET
  <2>3. SUBSET (1 .. Width) # {}
    OBVIOUS
  <2> QED
    BY <2>2, <2>3, FS_CardinalityType, FS_EmptySet
<1>2. 2^(Width - 1) \in Int
  BY CalculatorAssumption
<1>3. PICK m, h : m = 2^Width /\ h = 2^(Width - 1)
  OBVIOUS
<1>4. Wrap(x) = ((x + h) % m) - h /\ m \in Nat \ {0} /\ h \in Int
  BY <1>1, <1>2, <1>3 DEF Wrap
<1> QED
  BY <1>4

\* The sign of a number.
LEMMA SignFacts ==
    ASSUME NEW x \in Int
    PROVE  /\ Sign(x) \in {-1, 0, 1}
           /\ (Sign(x) = -1 <=> x < 0) /\ (Sign(x) = 0 <=> x = 0) /\ (Sign(x) = 1 <=> x > 0)
BY DEF Sign

\* The quotient and the remainder of a division that truncates are numbers.
LEMMA QuotientInt ==
    ASSUME NEW a \in Int, NEW b \in Int, b # 0
    PROVE  Quotient(a, b) \in Int /\ Remainder(a, b) \in Int
<1>1. Sign(a) \in Int /\ Sign(b) \in Int
  BY SignFacts
<1>2. Abs(a) \in Nat /\ Abs(b) \in Nat \ {0}
  BY DEF Abs
<1>3. Abs(a) \div Abs(b) \in Int
  BY <1>2
<1>4. Quotient(a, b) \in Int
  BY <1>1, <1>3 DEF Quotient
<1> QED
  BY <1>4 DEF Remainder

\* The number of a line that has one.
LEMMA NumberInt ==
    ASSUME NEW line \in AllLines, line.int # {}
    PROVE  /\ Number(line) \in Int
           /\ \E n \in line.int : Number(line) = Wrap(n)
<1>1. line.int \subseteq Int
  BY ProgramsAssumption DEF AllLines
<1>2. PICK n : n = CHOOSE m \in line.int : TRUE
  OBVIOUS
<1>3. n \in line.int /\ Number(line) = Wrap(n)
  BY <1>2 DEF Number
<1> QED
  BY <1>1, <1>3, WrapInt

\* What the parts of a run may be set to, and the next line and the error.
LEMMA StateSet ==
    ASSUME NEW s \in States
    PROVE  /\ \A x \in Int : [s EXCEPT !.acc = x] \in States
           /\ \A x \in {-1, 0, 1} : [s EXCEPT !.flag = x] \in States
           /\ \A x \in Nat : [s EXCEPT !.pc = x] \in States
           /\ \A n \in Addresses : \A x \in Int : [s EXCEPT !.mem[n] = x] \in States
           /\ Error(s) \in States /\ ~Error(s).ok
           /\ Then(s) \in States
           /\ Then(s).pc = s.pc + 1 /\ Then(s).acc = s.acc /\ Then(s).mem = s.mem /\ Then(s).flag = s.flag
<1>1. /\ s = [acc |-> s.acc, flag |-> s.flag, mem |-> s.mem, pc |-> s.pc, ok |-> s.ok]
      /\ s.acc \in Int /\ s.flag \in {-1, 0, 1} /\ s.mem \in [Addresses -> Int] /\ s.pc \in Nat /\ s.ok \in BOOLEAN
  BY DEF States
<1>2. ASSUME NEW x \in Int PROVE [s EXCEPT !.acc = x] \in States
  BY <1>1 DEF States
<1>3. ASSUME NEW x \in {-1, 0, 1} PROVE [s EXCEPT !.flag = x] \in States
  BY <1>1 DEF States
<1>4. ASSUME NEW x \in Nat PROVE [s EXCEPT !.pc = x] \in States
  BY <1>1 DEF States
<1>5. ASSUME NEW n \in Addresses, NEW x \in Int PROVE [s EXCEPT !.mem[n] = x] \in States
  BY <1>1 DEF States
<1>6. Error(s) \in States /\ ~Error(s).ok
  BY <1>1 DEF Error, States
<1>7. Then(s) \in States
  BY <1>1 DEF Then, States
<1>8. Then(s).pc = s.pc + 1 /\ Then(s).acc = s.acc /\ Then(s).mem = s.mem /\ Then(s).flag = s.flag
  BY <1>1 DEF Then
<1> QED
  BY <1>2, <1>3, <1>4, <1>5, <1>6, <1>7, <1>8

\* What a line with a number makes of a state.
NumericDone(line, s, n, t) ==
    /\ t \in States
    /\ line.op \in {"cmp", "store"} \/ ~t.ok \/ (t.mem = s.mem /\ t.flag = s.flag)
    /\ t.ok /\ line.op = "cmp" => t.mem = s.mem /\ t.flag = Sign(s.acc - n)
    /\ t.ok /\ line.op = "store" => /\ n \in Addresses /\ t.flag = s.flag
                                    /\ t.mem = [s.mem EXCEPT ![n] = s.acc]
    /\ t.ok /\ line.op = "load" => n \in Addresses /\ t.acc = s.mem[n]

\* The lines with a number: set to mod, cmp, store and load.
LEMMA NumericFacts ==
    ASSUME NEW line, NEW s \in States, s.ok, NEW n \in Int
    PROVE  NumericDone(line, s, n, Numeric(line, s, n))
<1> USE DEF NumericDone
<1> DEFINE t == Numeric(line, s, n)
<1> DEFINE set == line.op \in {"set", "add", "sub", "mul"} \/ (line.op \in {"div", "mod"} /\ n # 0)
           div0 == line.op \in {"div", "mod"} /\ n = 0
           out == line.op \in {"store", "load"} /\ n \notin Addresses
<1>1. CASE div0
  <2>1. t = Error(s)
    BY <1>1 DEF Numeric
  <2> QED
    BY <1>1, <2>1 DEF Error, States
<1>2. CASE set
  <2>1. t = Then([s EXCEPT !.acc = Wrap(Binary(line.op, s.acc, n))])
    BY <1>2 DEF Numeric
  <2>2. Binary(line.op, s.acc, n) \in Int
    <3>1. s.acc \in Int
      BY DEF States
    <3>2. CASE line.op \in {"div", "mod"}
      BY <1>2, <3>1, <3>2, QuotientInt DEF Binary
    <3>3. CASE line.op \notin {"div", "mod"}
      BY <1>2, <3>1, <3>3 DEF Binary
    <3> QED
      BY <3>2, <3>3
  <2>3. PICK x, u : x = Wrap(Binary(line.op, s.acc, n)) /\ u = [s EXCEPT !.acc = x]
    OBVIOUS
  <2>4. u \in States /\ u.mem = s.mem /\ u.flag = s.flag
    BY <2>2, <2>3, WrapInt, StateSet DEF States
  <2>5. t = Then(u)
    BY <2>1, <2>3
  <2> QED
    BY <1>2, <2>4, <2>5, StateSet
<1>3. CASE line.op = "cmp"
  <2>1. t = Then([s EXCEPT !.flag = Sign(s.acc - n)])
    BY <1>3 DEF Numeric
  <2>2. PICK x, u : x = Sign(s.acc - n) /\ u = [s EXCEPT !.flag = x]
    OBVIOUS
  <2>3. s.acc - n \in Int
    BY DEF States
  <2>4. u \in States /\ u.mem = s.mem /\ u.flag = x
    BY <2>2, <2>3, SignFacts, StateSet DEF States
  <2>5. t = Then(u)
    BY <2>1, <2>2
  <2> QED
    BY <1>3, <2>2, <2>4, <2>5, StateSet
<1>4. CASE out
  <2>1. t = Error(s)
    BY <1>4 DEF Numeric
  <2> QED
    BY <1>4, <2>1 DEF Error, States
<1>5. CASE line.op = "store" /\ n \in Addresses
  <2>1. t = Then([s EXCEPT !.mem[n] = s.acc])
    BY <1>5 DEF Numeric
  <2>2. PICK u : u = [s EXCEPT !.mem[n] = s.acc]
    OBVIOUS
  <2>3. s.acc \in Int
    BY DEF States
  <2>4. u \in States /\ u.mem = [s.mem EXCEPT ![n] = s.acc] /\ u.flag = s.flag
    BY <1>5, <2>2, <2>3, StateSet DEF States
  <2>5. t = Then(u)
    BY <2>1, <2>2
  <2> QED
    BY <1>5, <2>4, <2>5, StateSet
<1>6. CASE line.op = "load" /\ n \in Addresses
  <2>1. t = Then([s EXCEPT !.acc = s.mem[n]])
    BY <1>6 DEF Numeric
  <2>2. PICK u : u = [s EXCEPT !.acc = s.mem[n]]
    OBVIOUS
  <2>3. s.mem[n] \in Int
    BY <1>6 DEF States
  <2>4. u \in States /\ u.mem = s.mem /\ u.flag = s.flag /\ u.acc = s.mem[n]
    BY <2>2, <2>3, StateSet DEF States
  <2>5. t = Then(u)
    BY <2>1, <2>2
  <2> QED
    BY <1>6, <2>4, <2>5, StateSet
<1>7. CASE line.op \notin {"set", "add", "sub", "mul", "div", "mod", "cmp", "store", "load"}
  <2>1. t = Error(s)
    BY <1>7 DEF Numeric
  <2> QED
    BY <1>7, <2>1 DEF Error, States
<1> QED
  BY <1>1, <1>2, <1>3, <1>4, <1>5, <1>6, <1>7

\* A jump goes to the first line of the name, or to the next line.
LEMMA JumpFacts ==
    ASSUME NEW X, NEW lines \in Seq(X), NEW line, line.op \in DOMAIN Jump,
           NEW s \in States, s.ok, NEW t, t = Jumped(lines, line, s)
    PROVE  /\ t \in States
           /\ t.ok => /\ t.mem = s.mem /\ t.flag = s.flag
                      /\ IF s.flag \in Jump[line.op]
                         THEN /\ t.pc + 1 \in DOMAIN lines /\ lines[t.pc + 1].label = line.name
                              /\ \A i \in 1 .. t.pc : lines[i].label # line.name
                         ELSE t.pc = s.pc + 1
<1> DEFINE at == {i \in DOMAIN lines : lines[i].label = line.name}
           target == {i \in at : \A j \in at : i <= j}
<1>1. t = IF target = {} THEN Error(s)
          ELSE IF s.flag \in Jump[line.op] THEN [s EXCEPT !.pc = (CHOOSE i \in target : TRUE) - 1]
          ELSE Then(s)
  BY Zenon DEF Jumped, program_find_label
<1>2. CASE target = {}
  BY <1>1, <1>2 DEF Error, States
<1>3. CASE target # {} /\ s.flag \in Jump[line.op]
  <2>1. PICK i \in target : t = [s EXCEPT !.pc = i - 1]
    BY <1>1, <1>3
  <2>2. i \in 1 .. Len(lines) /\ lines[i].label = line.name /\ DOMAIN lines = 1 .. Len(lines) /\ Len(lines) \in Nat
    OBVIOUS
  <2>3. \A j \in 1 .. i - 1 : lines[j].label # line.name
    BY <2>2
  <2>4. PICK x : x = i - 1
    OBVIOUS
  <2>5. x \in Nat /\ t = [s EXCEPT !.pc = x]
    BY <2>1, <2>2, <2>4
  <2>6. t \in States
    BY <2>5, StateSet
  <2>7. t.pc = x /\ t.mem = s.mem /\ t.flag = s.flag
    BY <2>5 DEF States
  <2> QED
    BY <1>3, <2>2, <2>3, <2>4, <2>6, <2>7
<1>4. CASE target # {} /\ s.flag \notin Jump[line.op]
  <2>1. t = Then(s)
    BY <1>1, <1>4
  <2> QED
    BY <1>4, <2>1, StateSet
<1> QED
  BY <1>2, <1>3, <1>4

\* The jumps.
LEMMA JumpOps == DOMAIN Jump = {"goto", "jeq", "jne", "jlt", "jle", "jgt", "jge"}
BY DEF Jump

\* program_exec_line(), whatever the line.
LEMMA ExecFacts ==
    ASSUME NEW lines \in Seq(AllLines), NEW s \in States, s.ok, s.pc < Len(lines),
           NEW line, line = lines[s.pc + 1], NEW t, t = program_exec_line(lines, s)
    PROVE  /\ t \in States
           /\ t.ok /\ line.op \notin {"cmp", "store"} => t.mem = s.mem /\ t.flag = s.flag
           /\ t.ok /\ line.op = "cmp" => /\ Number(line) \in Int
                                         /\ t.mem = s.mem /\ t.flag = Sign(s.acc - Number(line))
           /\ t.ok /\ line.op = "store" => /\ Number(line) \in Addresses /\ t.flag = s.flag
                                           /\ t.mem = [s.mem EXCEPT ![Number(line)] = s.acc]
           /\ t.ok /\ line.op = "load" => /\ line.int # {} /\ Number(line) \in Addresses
                                          /\ t.acc = s.mem[Number(line)]
           /\ t.ok /\ line.op \in DOMAIN Jump =>
                IF s.flag \in Jump[line.op]
                THEN /\ t.pc + 1 \in DOMAIN lines /\ lines[t.pc + 1].label = line.name
                     /\ \A i \in 1 .. t.pc : lines[i].label # line.name
                ELSE t.pc = s.pc + 1
<1> DEFINE Rest == Plain \cup {"print", "putc", "inc", "dec", "neg", "end", "halt"}
<1>0. line \in AllLines
  BY DEF States
<1>1. CASE line.op \in Plain
  <2>1. t = Then(s)
    BY <1>1, JumpOps DEF program_exec_line, Plain
  <2>2. line.op \notin {"cmp", "store", "load", "goto", "jeq", "jne", "jlt", "jle", "jgt", "jge"}
    BY <1>1 DEF Plain
  <2> QED
    BY <2>1, <2>2, StateSet, JumpOps
<1>2. CASE line.op \in {"print", "putc"}
  <2>1. t = Then(s) \/ t = Error(s)
    BY <1>2, JumpOps DEF program_exec_line, Plain
  <2> QED
    BY <1>2, <2>1, StateSet, JumpOps
<1>3. CASE line.op \in {"inc", "dec", "neg"}
  <2>1. t = Then([s EXCEPT !.acc = Wrap(Unary(line.op, s.acc))])
    BY <1>3, JumpOps DEF program_exec_line, Plain
  <2>2. PICK x, u : x = Wrap(Unary(line.op, s.acc)) /\ u = [s EXCEPT !.acc = x]
    OBVIOUS
  <2>3. s.acc \in Int
    BY DEF States
  <2>4. Unary(line.op, s.acc) \in Int
    BY <1>3, <2>3 DEF Unary
  <2>a. x \in Int
    BY <2>2, <2>4, WrapInt
  <2>b. u \in States
    BY <2>2, <2>a, StateSet
  <2>5. u.mem = s.mem /\ u.flag = s.flag
    BY <2>2 DEF States
  <2>6. t = Then(u)
    BY <2>1, <2>2
  <2> QED
    BY <1>3, <2>b, <2>5, <2>6, StateSet, JumpOps
<1>4. CASE line.op \in {"end", "halt"}
  <2>1. t = [s EXCEPT !.pc = Len(lines)]
    BY <1>4, JumpOps DEF program_exec_line, Plain
  <2>2. PICK n : n = Len(lines)
    OBVIOUS
  <2>3. n \in Nat /\ t = [s EXCEPT !.pc = n]
    BY <2>1, <2>2
  <2>4. t \in States
    BY <2>3, StateSet
  <2>5. t.mem = s.mem /\ t.flag = s.flag
    BY <2>3 DEF States
  <2> QED
    BY <1>4, <2>4, <2>5, JumpOps
<1>5. CASE line.op \in DOMAIN Jump
  <2>1. t = Jumped(lines, line, s)
    BY <1>5, JumpOps DEF program_exec_line, Plain
  <2>2. /\ t \in States
        /\ t.ok => /\ t.mem = s.mem /\ t.flag = s.flag
                   /\ IF s.flag \in Jump[line.op]
                      THEN /\ t.pc + 1 \in DOMAIN lines /\ lines[t.pc + 1].label = line.name
                           /\ \A i \in 1 .. t.pc : lines[i].label # line.name
                      ELSE t.pc = s.pc + 1
    BY <1>5, <2>1, JumpFacts
  <2> QED
    BY <1>5, <2>2, JumpOps
<1>6. CASE /\ line.op \notin Plain \cup {"print", "putc", "inc", "dec", "neg", "end", "halt"}
           /\ line.op \notin DOMAIN Jump
  <2>1. t = IF line.int = {} THEN Error(s) ELSE Numeric(line, s, Number(line))
    BY <1>6 DEF program_exec_line
  <2>2. CASE line.int = {}
    BY <1>6, <2>1, <2>2, StateSet
  <2>3. CASE line.int # {}
    <3>1. PICK n : n = Number(line)
      OBVIOUS
    <3>2. n \in Int /\ t = Numeric(line, s, n)
      BY <1>0, <2>1, <2>3, <3>1, NumberInt
    <3>3. NumericDone(line, s, n, t)
      BY <3>2, NumericFacts
    <3> QED
      BY <1>6, <2>3, <3>1, <3>2, <3>3 DEF NumericDone
  <2> QED
    BY <2>2, <2>3
<1> QED
  BY <1>1, <1>2, <1>3, <1>4, <1>5, <1>6

(***************************************************************************)
(* The invariant.                                                          *)
(***************************************************************************)
\* The store: a name names one program, and what is edited or run is one.
Named == Names \cup {Builtins[i].name : i \in DOMAIN Builtins}
Distinct(ps) == \A i, j \in DOMAIN ps : ps[i].name = ps[j].name => i = j
Programs == [name : Named, lines : Seq(AllLines)]
StoreInv ==
    /\ programs \in Seq(Programs) /\ Distinct(programs)
    /\ mode \in {"edit", "run"} => edited \in DOMAIN programs
\* The run: its flag is the sign of the last comparison, its memory what it stored.
RunInv ==
    /\ st \in States
    /\ compared = <<>> \/ compared \in Int \X Int
    /\ mode = "run" => /\ st.ok /\ st.mem = stored
                       /\ st.flag = IF compared = <<>> THEN 0 ELSE Sign(compared[1] - compared[2])
\* The network: the flag that the net task polls is set after the netif is built.
NetInv ==
    /\ inits \in Nat
    /\ net_initialized => inits > 0
    /\ "net" \in lwip => inits > 0
ConsoleInv == StoreInv /\ RunInv /\ NetInv

\* program_edit() changes the program of that name, and makes one if there is room.
LEMMA StoreEdit ==
    ASSUME StoreInv, NEW name \in Names, program_edit(name)
    PROVE  /\ StoreInv'
           /\ \A i \in DOMAIN programs :
                /\ i \in DOMAIN programs' /\ programs'[i].name = programs[i].name
                /\ programs'[i] # programs[i] => edited' = i /\ "edit" \in {mode, mode'}
<1> DEFINE got == program_get_or_alloc(name)
           slot == {i \in DOMAIN got : got[i].name = name}
<1>0. /\ programs \in Seq(Programs) /\ mode = "prompt" /\ DOMAIN programs = 1 .. Len(programs) /\ Len(programs) \in Nat
  BY DEF StoreInv, program_edit
<1>1. /\ got \in Seq(Programs) /\ Distinct(got)
      /\ DOMAIN programs \subseteq DOMAIN got /\ \A i \in DOMAIN programs : got[i] = programs[i]
  <2>1. CASE got = programs
    BY <1>0, <2>1 DEF StoreInv
  <2>2. CASE program_find(name) = {} /\ got = Append(programs, [name |-> name, lines |-> <<>>])
    <3>1. PICK new : new = [name |-> name, lines |-> <<>>]
      OBVIOUS
    <3>2. new \in Programs /\ new.name = name
      BY <3>1 DEF Programs, Named
    <3>3. got = Append(programs, new)
      BY <2>2, <3>1
    <3> HIDE DEF got
    <3>4. /\ got \in Seq(Programs) /\ DOMAIN got = 1 .. Len(programs) + 1
          /\ got[Len(programs) + 1] = new /\ \A i \in 1 .. Len(programs) : got[i] = programs[i]
      BY <1>0, <3>2, <3>3
    <3>5. \A i \in DOMAIN programs : programs[i].name # name
      BY <2>2 DEF program_find
    <3>6. Distinct(got)
      BY <1>0, <3>2, <3>4, <3>5 DEF StoreInv, Distinct
    <3> QED
      BY <1>0, <3>4, <3>6
  <2> QED
    BY <2>1, <2>2 DEF program_get_or_alloc
<1>2. CASE slot = {}
  <2>1. UNCHANGED <<programs, mode, edited>>
    BY <1>2 DEF program_edit
  <2> QED
    BY <2>1 DEF StoreInv
<1>3. CASE slot # {}
  <2>1. /\ edited' = (CHOOSE i \in slot : TRUE) /\ mode' = "edit"
        /\ programs' = [got EXCEPT ![edited'].lines = <<>>]
    BY <1>3 DEF program_edit
  <2>2. edited' \in DOMAIN got
    BY <1>3, <2>1
  <2>3. PICK e, g : e = edited' /\ g = got
    OBVIOUS
  <2>4. /\ g \in Seq(Programs) /\ e \in DOMAIN g /\ programs' = [g EXCEPT ![e].lines = <<>>] /\ Distinct(g)
    BY <1>1, <2>1, <2>2, <2>3
  <2>5. /\ programs' \in Seq(Programs) /\ DOMAIN programs' = DOMAIN g
        /\ \A i \in DOMAIN g : programs'[i].name = g[i].name /\ (i # e => programs'[i] = g[i])
    <3>1. <<>> \in Seq(AllLines)
      OBVIOUS
    <3>2. g[e] \in Programs
      BY <2>4
    <3>3. PICK r : r = [g[e] EXCEPT !.lines = <<>>]
      OBVIOUS
    <3>4. r \in Programs /\ r.name = g[e].name
      BY <3>1, <3>2, <3>3 DEF Programs
    <3>5. programs' = [g EXCEPT ![e] = r]
      BY <2>4, <3>3
    <3> QED
      BY <2>4, <3>4, <3>5
  <2>6. Distinct(programs')
    BY <2>4, <2>5 DEF Distinct
  <2>7. StoreInv'
    BY <2>1, <2>3, <2>4, <2>5, <2>6 DEF StoreInv
  <2> QED
    BY <1>1, <2>1, <2>3, <2>5, <2>7
<1> QED
  BY <1>2, <1>3

\* A line typed changes the program that is edited.
LEMMA StoreLine ==
    ASSUME StoreInv, NEW line \in Lines, EditLine(line)
    PROVE  /\ StoreInv'
           /\ \A i \in DOMAIN programs :
                /\ i \in DOMAIN programs' /\ programs'[i].name = programs[i].name
                /\ programs'[i] # programs[i] => edited' = i /\ "edit" \in {mode, mode'}
<1>1. PICK e, p : e = edited /\ p = programs[e]
  OBVIOUS
<1>2. /\ programs \in Seq(Programs) /\ e \in DOMAIN programs /\ mode = "edit" /\ mode' \in {"edit", "prompt"}
      /\ edited' = e /\ programs' = [programs EXCEPT ![e].lines = Append(@, line)]
  BY <1>1 DEF StoreInv, EditLine
<1>3. p \in Programs /\ line \in AllLines
  BY <1>1, <1>2 DEF AllLines
<1>4. PICK r : r = [p EXCEPT !.lines = Append(@, line)]
  OBVIOUS
<1>5. r \in Programs /\ r.name = p.name
  BY <1>3, <1>4 DEF Programs
<1>6. programs' = [programs EXCEPT ![e] = r]
  BY <1>1, <1>2, <1>4
<1>7. /\ programs' \in Seq(Programs) /\ DOMAIN programs' = DOMAIN programs
      /\ \A i \in DOMAIN programs : programs'[i].name = programs[i].name /\ (i # e => programs'[i] = programs[i])
  <2>1. programs \in Seq(Programs) /\ e \in DOMAIN programs
    BY <1>2
  <2> QED
    BY <1>1, <1>5, <1>6, <2>1
<1>8. Distinct(programs')
  BY <1>7 DEF StoreInv, Distinct
<1>9. StoreInv'
  BY <1>2, <1>7, <1>8 DEF StoreInv
<1> QED
  BY <1>2, <1>7, <1>9

\* program_run() begins with a state of its own.
LEMMA RunStart ==
    ASSUME StoreInv, RunInv, NEW name \in Names, program_run(name)
    PROVE  StoreInv' /\ RunInv'
<1>1. CASE program_find(name) = {}
  <2>1. UNCHANGED <<programs, mode, edited, st, compared, stored>>
    BY <1>1 DEF program_run
  <2> QED
    BY <2>1 DEF StoreInv, RunInv
<1>2. CASE program_find(name) # {}
  <2>1. /\ mode' = "run" /\ edited' = (CHOOSE i \in program_find(name) : TRUE)
        /\ st' = Fresh /\ compared' = <<>> /\ stored' = [a \in Addresses |-> 0] /\ programs' = programs
    BY <1>2 DEF program_run
  <2>2. edited' \in DOMAIN programs
    BY <1>2, <2>1 DEF program_find
  <2>3. StoreInv'
    BY <2>1, <2>2 DEF StoreInv
  <2>4. Fresh \in States /\ Fresh.flag = 0 /\ Fresh.mem = [a \in Addresses |-> 0] /\ Fresh.ok
    BY DEF Fresh, States
  <2> QED
    BY <2>1, <2>3, <2>4 DEF RunInv
<1> QED
  BY <1>1, <1>2

\* What a line executed makes of the state, as ExecFacts says it.
LineDone(lines, line, s, t) ==
    /\ t \in States
    /\ t.ok /\ line.op \notin {"cmp", "store"} => t.mem = s.mem /\ t.flag = s.flag
    /\ t.ok /\ line.op = "cmp" => /\ Number(line) \in Int
                                  /\ t.mem = s.mem /\ t.flag = Sign(s.acc - Number(line))
    /\ t.ok /\ line.op = "store" => /\ Number(line) \in Addresses /\ t.flag = s.flag
                                    /\ t.mem = [s.mem EXCEPT ![Number(line)] = s.acc]
    /\ t.ok /\ line.op = "load" => /\ line.int # {} /\ Number(line) \in Addresses
                                   /\ t.acc = s.mem[Number(line)]
    /\ t.ok /\ line.op \in DOMAIN Jump =>
         IF s.flag \in Jump[line.op]
         THEN /\ t.pc + 1 \in DOMAIN lines /\ lines[t.pc + 1].label = line.name
              /\ \A i \in 1 .. t.pc : lines[i].label # line.name
         ELSE t.pc = s.pc + 1

\* A line of a run is one of its program.
LEMMA RunLine ==
    ASSUME StoreInv, RunInv, ExecLine
    PROVE  /\ Code \in Seq(AllLines) /\ st.pc \in Nat /\ st.pc + 1 \in DOMAIN Code
           /\ Code[st.pc + 1] \in AllLines
           /\ LineDone(Code, Code[st.pc + 1], st, st')
<1>1. /\ mode = "run" /\ st.pc < Len(Code) /\ st' = program_exec_line(Code, st)
  BY DEF ExecLine, Running, After
<1>2. edited \in DOMAIN programs /\ programs \in Seq(Programs)
  BY <1>1 DEF StoreInv
<1>3. Code \in Seq(AllLines)
  <2>1. programs[edited] \in Programs
    BY <1>2
  <2> QED
    BY <2>1 DEF Code, Programs
<1>4. st \in States /\ st.ok
  BY <1>1 DEF RunInv
<1>5. st.pc \in Nat
  BY <1>4 DEF States
<1>6. PICK c, n, s : c = Code /\ n = Len(Code) /\ s = st
  OBVIOUS
<1>7. st.pc + 1 \in DOMAIN Code
  BY <1>1, <1>3, <1>5
<1>8. LineDone(Code, Code[st.pc + 1], st, st')
  <2>1. s \in States /\ s.ok /\ c \in Seq(AllLines) /\ s.pc < Len(c)
    BY <1>1, <1>3, <1>4, <1>6
  <2>2. PICK line, t : line = c[s.pc + 1] /\ t = program_exec_line(c, s)
    OBVIOUS
  <2>3. LineDone(c, line, s, t)
    BY <2>1, <2>2, ExecFacts DEF LineDone
  <2> QED
    BY <1>1, <1>6, <2>2, <2>3
<1> QED
  BY <1>3, <1>5, <1>7, <1>8

\* A line executed keeps the run right.
LEMMA RunStep ==
    ASSUME StoreInv, RunInv, ExecLine
    PROVE  RunInv'
<1>1. PICK line, s, t : line = Code[st.pc + 1] /\ s = st /\ t = st'
  OBVIOUS
<1>2. LineDone(Code, line, s, t)
  BY <1>1, RunLine
<1>3. /\ compared' = IF line.op = "cmp" /\ t.ok THEN <<s.acc, Number(line)>> ELSE compared
      /\ stored' = IF line.op = "store" /\ t.ok THEN [stored EXCEPT ![Number(line)] = s.acc] ELSE stored
      /\ mode' = "run" => t.ok
  BY <1>1 DEF ExecLine, Op, After
<1>4. /\ s \in States /\ s.ok /\ s.mem = stored /\ s.acc \in Int
      /\ compared = <<>> \/ compared \in Int \X Int
      /\ s.flag = IF compared = <<>> THEN 0 ELSE Sign(compared[1] - compared[2])
  BY <1>1 DEF RunInv, ExecLine, Running, States
<1>5. t \in States /\ st' \in States
  BY <1>1, <1>2 DEF LineDone
<1>6. CASE ~t.ok
  BY <1>1, <1>3, <1>4, <1>5, <1>6 DEF RunInv
<1>7. CASE t.ok /\ line.op = "cmp"
  <2>1. compared' = <<s.acc, Number(line)>> /\ Number(line) \in Int /\ stored' = stored
    BY <1>2, <1>3, <1>7 DEF LineDone
  <2>2. t.mem = s.mem /\ t.flag = Sign(s.acc - Number(line))
    BY <1>2, <1>7 DEF LineDone
  <2>3. compared' \in Int \X Int /\ compared' # <<>> /\ compared'[1] = s.acc /\ compared'[2] = Number(line)
    BY <1>4, <2>1
  <2> QED
    BY <1>1, <1>4, <1>5, <1>7, <2>1, <2>2, <2>3 DEF RunInv
<1>8. CASE t.ok /\ line.op = "store"
  <2>1. compared' = compared /\ stored' = [stored EXCEPT ![Number(line)] = s.acc]
    BY <1>3, <1>8
  <2>2. t.flag = s.flag /\ t.mem = [s.mem EXCEPT ![Number(line)] = s.acc]
    BY <1>2, <1>8 DEF LineDone
  <2> QED
    BY <1>1, <1>4, <1>5, <1>8, <2>1, <2>2 DEF RunInv
<1>9. CASE t.ok /\ line.op \notin {"cmp", "store"}
  <2>1. compared' = compared /\ stored' = stored
    BY <1>3, <1>9
  <2>2. t.flag = s.flag /\ t.mem = s.mem
    BY <1>2, <1>9 DEF LineDone
  <2> QED
    BY <1>1, <1>4, <1>5, <1>9, <2>1, <2>2 DEF RunInv
<1> QED
  BY <1>6, <1>7, <1>8, <1>9

\* So does an "input".
LEMMA RunInput ==
    ASSUME RunInv, ReadInput
    PROVE  RunInv'
<1>1. /\ st \in States /\ mode = "run" /\ UNCHANGED <<compared, stored>>
      /\ \/ \E n \in Numbers : After(Then([st EXCEPT !.acc = Wrap(n)]))
         \/ After(Error(st))
  BY DEF RunInv, ReadInput, Running
<1>2. ASSUME NEW n \in Numbers, After(Then([st EXCEPT !.acc = Wrap(n)])) PROVE RunInv'
  <2>1. PICK x, u : x = Wrap(n) /\ u = [st EXCEPT !.acc = x]
    OBVIOUS
  <2>2. x \in Int
    BY <2>1, WrapInt, ProgramsAssumption
  <2>3. u \in States
    BY <1>1, <2>1, <2>2, StateSet
  <2>4. u.mem = st.mem /\ u.flag = st.flag /\ u.ok = st.ok
    BY <1>1, <2>1 DEF States
  <2>5. st' = Then(u)
    BY <1>2, <2>1 DEF After
  <2>6. Then(u).ok = u.ok /\ Then(u) \in States /\ Then(u).mem = u.mem /\ Then(u).flag = u.flag
    <3>1. Then(u).ok = u.ok
      BY <2>3 DEF Then, States
    <3> QED
      BY <2>3, <3>1, StateSet
  <2> QED
    BY <1>1, <2>4, <2>5, <2>6 DEF RunInv
<1>3. ASSUME After(Error(st)) PROVE RunInv'
  <2>1. st' = Error(st) /\ (mode' = "run" => Error(st).ok)
    BY <1>3 DEF After
  <2>2. Error(st) \in States /\ ~Error(st).ok
    BY <1>1, StateSet
  <2> QED
    BY <1>1, <2>1, <2>2 DEF RunInv
<1> QED
  BY <1>1, <1>2, <1>3

\* The steps that change neither a program nor a run.
LEMMA StoreStays ==
    ASSUME StoreInv, RunInv, UNCHANGED <<programs, edited, st, compared, stored>>,
           mode' \notin {"edit", "run"} \/ mode' = mode
    PROVE  StoreInv' /\ RunInv'
BY DEF StoreInv, RunInv

\* The invariant holds after the boot.
LEMMA ConsoleStart ==
    ASSUME ConsoleInit
    PROVE  ConsoleInv
<1>1. /\ programs = Builtins /\ mode = "prompt" /\ st = Fresh /\ compared = <<>>
      /\ net_initialized = AutoInit /\ lwip = {} /\ inits = IF AutoInit THEN 1 ELSE 0
  BY DEF ConsoleInit, CalculatorInit
<1>2. StoreInv
  <2>1. {Builtins[i].name : i \in DOMAIN Builtins} \subseteq Named /\ BuiltinLines \subseteq AllLines
    BY DEF Named, AllLines
  <2>2. PICK N, L : N = {Builtins[i].name : i \in DOMAIN Builtins} /\ L = BuiltinLines
    OBVIOUS
  <2>3. Builtins \in Seq([name : N, lines : Seq(L)]) /\ N \subseteq Named /\ L \subseteq AllLines
    BY <2>1, <2>2, ProgramsAssumption
  <2>4. [name : N, lines : Seq(L)] \subseteq Programs
    BY <2>3 DEF Programs
  <2>5. PICK D : D = [name : N, lines : Seq(L)]
    OBVIOUS
  <2>6. Builtins \in Seq(D) /\ D \subseteq Programs
    BY <2>3, <2>4, <2>5
  <2>7. Builtins \in Seq(Programs)
    BY <2>6
  <2> QED
    BY <1>1, <2>7, ProgramsAssumption DEF StoreInv, Distinct
<1>3. RunInv
  <2>1. Fresh \in States
    BY DEF Fresh, States
  <2> QED
    BY <1>1, <2>1 DEF RunInv
<1>4. NetInv
  BY <1>1, ConsoleAssumption DEF NetInv
<1> QED
  BY <1>2, <1>3, <1>4 DEF ConsoleInv

\* Every step keeps the network part.
LEMMA NetifStep ==
    ASSUME NetInv, [ConsoleNext]_consoleVars
    PROVE  NetInv'
<1> USE DEF NetInv
<1>1. CASE UNCHANGED netVars
  BY <1>1 DEF netVars
<1>2. CASE cli_net_init \/ cli_http_start
  BY <1>2 DEF cli_net_init, cli_http_start, LwipCommand
<1>3. CASE LwipReturn
  BY <1>3 DEF LwipReturn
<1>4. CASE NetEnter
  BY <1>4 DEF NetEnter
<1>5. CASE NetLeave
  BY <1>5 DEF NetLeave
<1> QED
  BY <1>1, <1>2, <1>3, <1>4, <1>5
     DEF ConsoleNext, consoleVars, cli_program, Calculate, cli_alloc, saramos_arena_reset, saramos_arena_rotate, Log,
         cli_pin, cli_pin_input, cli_pin_out, cli_pin_write, cli_inp_read, Printing, AppCommand

\* Every step keeps the store and the run.
LEMMA ProgramsStep ==
    ASSUME StoreInv, RunInv, [ConsoleNext]_consoleVars
    PROVE  StoreInv' /\ RunInv'
<1>1. CASE UNCHANGED calculatorVars
  BY <1>1, StoreStays DEF calculatorVars
<1>2. ASSUME NEW name \in Names, program_edit(name) PROVE StoreInv' /\ RunInv'
  <2>1. StoreInv'
    BY <1>2, StoreEdit
  <2>2. UNCHANGED <<st, compared, stored>> /\ mode = "prompt" /\ (mode' = "edit" \/ mode' = mode)
    BY <1>2 DEF program_edit
  <2> QED
    BY <2>1, <2>2 DEF RunInv
<1>3. ASSUME NEW name \in Names, program_run(name) PROVE StoreInv' /\ RunInv'
  BY <1>3, RunStart
<1>4. ASSUME NEW line \in Lines, EditLine(line) PROVE StoreInv' /\ RunInv'
  <2>1. StoreInv'
    BY <1>4, StoreLine
  <2>2. UNCHANGED <<st, compared, stored>> /\ mode' \in {"edit", "prompt"}
    BY <1>4 DEF EditLine
  <2> QED
    BY <2>1, <2>2 DEF RunInv
<1>5. CASE EditEnd
  BY <1>5, StoreStays DEF EditEnd
<1>6. CASE ExecLine
  <2>1. RunInv'
    BY <1>6, RunStep
  <2>2. UNCHANGED <<programs, edited>> /\ mode = "run"
    BY <1>6 DEF ExecLine, Running
  <2> QED
    BY <2>1, <2>2 DEF StoreInv
<1>7. CASE ReadInput
  <2>1. RunInv'
    BY <1>7, RunInput
  <2>2. UNCHANGED <<programs, edited>> /\ mode = "run"
    BY <1>7 DEF ReadInput, Running
  <2> QED
    BY <2>1, <2>2 DEF StoreInv
<1>8. CASE RunNothing
  BY <1>8, StoreStays DEF RunNothing
<1>9. CASE cli_net_init \/ cli_http_start
  <2>1. UNCHANGED <<programs, edited, st, compared, stored>> /\ mode' \in {"net_init", "http_start"}
    BY <1>9 DEF cli_net_init, cli_http_start, LwipCommand
  <2> QED
    BY <2>1, StoreStays
<1>10. CASE LwipReturn
  BY <1>10, StoreStays DEF LwipReturn
<1>11. CASE cli_program
  BY <1>2, <1>3, <1>11 DEF cli_program
<1>12. CASE Calculate
  BY <1>4, <1>5, <1>6, <1>7, <1>8, <1>12 DEF Calculate, CalculatorStep
<1> QED
  BY <1>1, <1>9, <1>10, <1>11, <1>12
     DEF ConsoleNext, consoleVars, cli_alloc, saramos_arena_reset, saramos_arena_rotate, Log, NetEnter, NetLeave,
         cli_pin, cli_pin_input, cli_pin_out, cli_pin_write, cli_inp_read, Printing, AppCommand

\* The inductive invariant of the command line.
THEOREM ConsoleInvariant == ConsoleSpec => []ConsoleInv
<1>1. ConsoleInit => ConsoleInv
  BY ConsoleStart
<1>2. ConsoleInv /\ [ConsoleNext]_consoleVars => ConsoleInv'
  BY NetifStep, ProgramsStep DEF ConsoleInv
<1> QED
  BY <1>1, <1>2, PTL DEF ConsoleSpec

\* The net task is inside lwIP only after a netif was completely built: the flag that it
\* polls without a lock is the last thing "net init" does.
THEOREM NetifFirstCorrect == ConsoleSpec => []NetifFirst
<1>1. ConsoleInv => NetifFirst
  BY DEF ConsoleInv, NetInv, NetifFirst
<1> QED
  BY <1>1, ConsoleInvariant, PTL

\* What a step that changes the store changes.
LEMMA EditStep ==
    ASSUME ConsoleInv, [ConsoleNext]_consoleVars, programs' # programs
    PROVE  /\ \A i \in DOMAIN programs :
                /\ i \in DOMAIN programs' /\ programs'[i].name = programs[i].name
                /\ programs'[i] # programs[i] => edited' = i /\ "edit" \in {mode, mode'}
           /\ \A i, j \in DOMAIN programs' : programs'[i].name = programs'[j].name => i = j
<1>1. StoreInv /\ StoreInv'
  BY ProgramsStep DEF ConsoleInv
<1>2. \/ \E name \in Names : program_edit(name)
      \/ \E line \in Lines : EditLine(line)
  BY DEF ConsoleNext, consoleVars, calculatorVars, cli_alloc, saramos_arena_reset, saramos_arena_rotate, Log, NetEnter,
         NetLeave, cli_pin, cli_pin_input, cli_pin_out, cli_pin_write, cli_inp_read, Printing, AppCommand,
         cli_program, program_run, Calculate, CalculatorStep, EditEnd, ExecLine, ReadInput, RunNothing,
         cli_net_init, cli_http_start, LwipCommand, LwipReturn
<1>3. \A i, j \in DOMAIN programs' : programs'[i].name = programs'[j].name => i = j
  BY <1>1 DEF StoreInv, Distinct
<1> QED
  BY <1>1, <1>2, <1>3, StoreEdit, StoreLine

\* A stored program is changed by the editor that was called with its name and by nothing
\* else, for any programs, lines and size of the store.
THEOREM ProgramsKeptCorrect == ConsoleSpec => ProgramsKept
<1>1. ConsoleInv /\ [ConsoleNext]_consoleVars =>
        [/\ \A i \in DOMAIN programs :
              /\ i \in DOMAIN programs' /\ programs'[i].name = programs[i].name
              /\ programs'[i] # programs[i] => edited' = i /\ "edit" \in {mode, mode'}
         /\ \A i, j \in DOMAIN programs' : programs'[i].name = programs'[j].name => i = j]_programs
  BY EditStep
<1> QED
  BY <1>1, ConsoleInvariant, PTL DEF ConsoleSpec, ProgramsKept

\* A jump is taken just when its relation holds of what was compared.
LEMMA JumpTaken ==
    ASSUME NEW a \in Int, NEW b \in Int, NEW op \in DOMAIN Jump
    PROVE  Sign(a - b) \in Jump[op] <=> Relation(op, a, b)
<1>1. PICK f : f = Sign(a - b)
  OBVIOUS
<1>2. f \in {-1, 0, 1} /\ (f = -1 <=> a < b) /\ (f = 0 <=> a = b) /\ (f = 1 <=> a > b)
  BY <1>1, SignFacts
<1>3. op \in {"goto", "jeq", "jne", "jlt", "jle", "jgt", "jge"}
  BY JumpOps
<1>4. f \in Jump[op] <=> Relation(op, a, b)
  <2>1. CASE op = "goto"
    BY <1>2, <2>1 DEF Jump, Relation
  <2>2. CASE op = "jeq"
    BY <1>2, <2>2 DEF Jump, Relation
  <2>3. CASE op = "jne"
    BY <1>2, <2>3 DEF Jump, Relation
  <2>4. CASE op = "jlt"
    BY <1>2, <2>4 DEF Jump, Relation
  <2>5. CASE op = "jle"
    BY <1>2, <2>5 DEF Jump, Relation
  <2>6. CASE op = "jgt"
    BY <1>2, <2>6 DEF Jump, Relation
  <2>7. CASE op = "jge"
    BY <1>2, <2>7 DEF Jump, Relation
  <2> QED
    BY <1>3, <2>1, <2>2, <2>3, <2>4, <2>5, <2>6, <2>7
<1> QED
  BY <1>1, <1>4

\* What a step of a run does.
LEMMA RightStep ==
    ASSUME ConsoleInv, [ConsoleNext]_consoleVars, st' # st, Running, st'.ok
    PROVE  /\ Op \in DOMAIN Jump =>
                 LET c == IF compared = <<>> THEN <<0, 0>> ELSE compared
                     to == st'.pc + 1
                 IN  IF Relation(Op, c[1], c[2])
                     THEN /\ to \in DOMAIN Code /\ Code[to].label = Code[st.pc + 1].name
                          /\ \A i \in 1 .. to - 1 : Code[i].label # Code[st.pc + 1].name
                     ELSE st'.pc = st.pc + 1
           /\ Op = "load" => \E n \in Code[st.pc + 1].int :
                                 Wrap(n) \in Addresses /\ st'.acc = stored[Wrap(n)]
<1>1. ExecLine \/ (ReadInput /\ Op = "input")
  BY DEF ConsoleNext, consoleVars, calculatorVars, cli_alloc, saramos_arena_reset, saramos_arena_rotate, Log, NetEnter,
         NetLeave, cli_pin, cli_pin_input, cli_pin_out, cli_pin_write, cli_inp_read, Printing, AppCommand,
         cli_program, program_run, program_edit, Calculate, CalculatorStep, EditLine, EditEnd, ReadInput, RunNothing,
         cli_net_init, cli_http_start, LwipCommand, LwipReturn, Typed, Running
<1>2. CASE ReadInput /\ Op = "input"
  BY <1>2, JumpOps
<1>3. CASE ExecLine
  <2>1. PICK code, line, s, t : code = Code /\ line = Code[st.pc + 1] /\ s = st /\ t = st'
    OBVIOUS
  <2>2. /\ code \in Seq(AllLines) /\ line \in AllLines /\ s.pc \in Nat
        /\ LineDone(code, line, s, t) /\ t.ok /\ Op = line.op
    BY <1>3, <2>1, RunLine DEF ConsoleInv, Op
  <2>3. /\ s \in States /\ s.mem = stored /\ (compared = <<>> \/ compared \in Int \X Int)
        /\ s.flag = IF compared = <<>> THEN 0 ELSE Sign(compared[1] - compared[2])
    BY <2>1 DEF ConsoleInv, RunInv, Running
  <2>4. ASSUME line.op \in DOMAIN Jump
        PROVE  LET c == IF compared = <<>> THEN <<0, 0>> ELSE compared
                   to == st'.pc + 1
               IN  IF Relation(Op, c[1], c[2])
                   THEN /\ to \in DOMAIN Code /\ Code[to].label = Code[st.pc + 1].name
                        /\ \A i \in 1 .. to - 1 : Code[i].label # Code[st.pc + 1].name
                   ELSE st'.pc = st.pc + 1
    <3>1. PICK c : c = IF compared = <<>> THEN <<0, 0>> ELSE compared
      OBVIOUS
    <3>2. c[1] \in Int /\ c[2] \in Int /\ s.flag = Sign(c[1] - c[2])
      BY <2>3, <3>1 DEF Sign
    <3>3. s.flag \in Jump[line.op] <=> Relation(line.op, c[1], c[2])
      BY <2>4, <3>2, JumpTaken
    <3>4. t.pc \in Nat /\ t.pc + 1 - 1 = t.pc
      BY <2>2 DEF LineDone, States
    <3>5. IF s.flag \in Jump[line.op]
          THEN /\ t.pc + 1 \in DOMAIN code /\ code[t.pc + 1].label = line.name
               /\ \A i \in 1 .. t.pc : code[i].label # line.name
          ELSE t.pc = s.pc + 1
      BY <2>2, <2>4 DEF LineDone
    <3> QED
      BY <2>1, <2>2, <3>1, <3>3, <3>4, <3>5
  <2>5. ASSUME line.op = "load"
        PROVE  \E n \in line.int : Wrap(n) \in Addresses /\ t.acc = stored[Wrap(n)]
    <3>1. line.int # {} /\ Number(line) \in Addresses /\ t.acc = s.mem[Number(line)]
      BY <2>2, <2>5 DEF LineDone
    <3>2. PICK n \in line.int : Number(line) = Wrap(n)
      BY <2>2, <3>1, NumberInt
    <3> QED
      BY <2>3, <3>1, <3>2
  <2> QED
    BY <2>1, <2>2, <2>4, <2>5
<1> QED
  BY <1>1, <1>2, <1>3

\* A run does what its program says, from the numbers it compared and stored itself, for
\* any program, memory and width of int.
THEOREM RunsRightCorrect == ConsoleSpec => RunsRight
<1>1. ConsoleInv /\ [ConsoleNext]_consoleVars =>
        [Running /\ mode' \in {"run", "prompt"} /\ st'.ok =>
           /\ Op \in DOMAIN Jump =>
                 LET c == IF compared = <<>> THEN <<0, 0>> ELSE compared
                     to == st'.pc + 1
                 IN  IF Relation(Op, c[1], c[2])
                     THEN /\ to \in DOMAIN Code /\ Code[to].label = Code[st.pc + 1].name
                          /\ \A i \in 1 .. to - 1 : Code[i].label # Code[st.pc + 1].name
                     ELSE st'.pc = st.pc + 1
           /\ Op = "load" => \E n \in Code[st.pc + 1].int :
                                 Wrap(n) \in Addresses /\ st'.acc = stored[Wrap(n)]]_st
  BY RightStep
<1> QED
  BY <1>1, ConsoleInvariant, PTL DEF ConsoleSpec, RunsRight
=============================================================================
