----------------------------- MODULE DropAFile -----------------------------
(***************************************************************************)
(* apps/drop-a-file: pictures dropped on a web page are kept in numbered   *)
(* slots of the SD card, shown on the panel and stepped through with the   *)
(* board's button.                                                         *)
(*                                                                         *)
(* Three preemptive tasks share globals and the card without a lock: the   *)
(* net task, on which httpd makes the callbacks of a POST one at a time,   *)
(* the draw task and the nav task. A step is what one task does up to its  *)
(* next file operation or its next access to a shared global. A file       *)
(* operation (f_open, f_write with f_close, f_rename) is one step, and may *)
(* fail: a failure counts when it leaves something undone, as hardly any   *)
(* caller looks at the result. The card outlives a power cycle, the        *)
(* globals do not.                                                         *)
(***************************************************************************)
EXTENDS Integers, Sequences, FiniteSets

CONSTANTS
    Uploads,     \* the pictures that are dropped, one upload each; u is also
                 \* the colour picked for the background of u
    Pieces,      \* the pbufs one upload arrives in
    AtOnce,      \* how many connections the browsers have open at a time
    MaxPresses,  \* bound: presses of the button
    MaxCycles,   \* bound: power cycles
    MaxFailed,   \* bound: the kinds of file operations that fail
    None         \* no file, no picture

ASSUME PiecesAssumption == Pieces \in Nat \ {0} /\ IsFiniteSet(Uploads)
ASSUME NoneAssumption == None \notin Uploads /\ None \notin Seq(Uploads)
                         /\ None \notin [count : Nat, current : Nat] /\ None # <<None>>
ASSUME BoundsAssumption == AtOnce \in Nat \ {0} /\ {MaxPresses, MaxCycles, MaxFailed} \subseteq Nat

\* upload0.bmp, upload1.bmp, ...: as many as uploads can reach.
Slots == 0 .. Cardinality(Uploads) - 1

\* Black, the background of a slot without a .bg file; what is read of a file whose
\* clusters were freed, or where reading failed half way.
Black   == None
Garbled == <<None>>

VARIABLES
    \* the browsers
    conn,       \* conn[u]: "new", "open", "done"
    sent,       \* sent[u]: how many pieces the callback has had
    \* the card
    staging,    \* incoming.bmp: the uploads its pieces are of
    image,      \* image[s]: upload<s>.bmp
    bgFile,     \* bgFile[s]: upload<s>.bg
    meta,       \* gallery.meta: [count, current], or None without 8 bytes
    shared,     \* the slots whose clusters incoming.bmp names too
    \* the globals
    uploadOpen, uploadOk, uploadBytes,   \* g_upload_*
    bgColor,    \* g_bg_color
    drawPending, drawPath, drawBg,       \* g_draw_*
    \* the tasks
    net,        \* httpd_post_finished(): [todo, count], todo the steps left
    draw,       \* draw_task_entry(): [at, bg, slot]
    nav,        \* nav_task_entry(): [at, count, current]
    panel,      \* what the panel shows: [pic, bg]
    \* history and bounds
    received,   \* the uploads "received" was reported for, in order
    newest,     \* the upload whose picture is the one to be shown, or None
    trouble,    \* what went wrong: operations that failed, and meetings of tasks
    presses, cycles

browser == <<conn, sent>>
card    == <<staging, image, bgFile, meta, shared>>
upload  == <<uploadOpen, uploadOk, uploadBytes, bgColor>>
request == <<drawPending, drawPath, drawBg>>
history == <<received, newest, trouble>>
bounds  == <<presses, cycles>>
vars    == <<browser, card, upload, request, net, draw, nav, panel, history, bounds>>

NoPicture == [pic |-> None, bg |-> Black]
IdleNet   == [todo |-> <<>>, count |-> 0]
IdleDraw  == [at |-> "poll", bg |-> Black, slot |-> None]
IdleNav   == [at |-> "poll", count |-> 0, current |-> 0]

Init ==
    /\ conn = [u \in Uploads |-> "new"] /\ sent = [u \in Uploads |-> 0]
    /\ staging = None
    /\ image = [s \in Slots |-> None] /\ bgFile = [s \in Slots |-> None]
    /\ meta = None /\ shared = {}
    /\ uploadOpen = FALSE /\ uploadOk = FALSE /\ uploadBytes = 0
    /\ bgColor = Black
    /\ drawPending = FALSE /\ drawPath = None /\ drawBg = Black
    /\ net = IdleNet /\ draw = IdleDraw /\ nav = IdleNav
    /\ panel = NoPicture
    /\ received = <<>> /\ newest = None /\ trouble = {}
    /\ presses = 0 /\ cycles = 0

\* gallery_load_meta() and load_bg_color(), when their reads succeed
LoadMeta   == IF meta = None THEN [count |-> 0, current |-> 0] ELSE meta
LoadBg(s)  == IF bgFile[s] = None THEN Black ELSE bgFile[s]

\* A step in which operations of these kinds fail.
Operations == {"begin", "write", "close", "load", "rename", "bg", "meta", "draw"}
Fail(kinds) ==
    /\ kinds \subseteq trouble \/ Cardinality((trouble \cup kinds) \cap Operations) <= MaxFailed
    /\ trouble' = trouble \cup kinds
Fails(kind) == Fail({kind})

\* f_open(FA_CREATE_ALWAYS) of incoming.bmp frees the clusters it names.
Truncate ==
    /\ staging' = <<>> /\ shared' = {}
    /\ image' = [s \in Slots |-> IF s \in shared THEN Garbled ELSE image[s]]
-----------------------------------------------------------------------------
(***************************************************************************)
(* The callbacks of a POST, on the net task.                               *)
(***************************************************************************)
NetFree == net.todo = <<>>

\* httpd_post_begin(): the colour is taken over before incoming.bmp is opened
\* and truncated, which may fail and deny the POST.
PostBegin(u) ==
    /\ NetFree /\ conn[u] = "new"
    /\ Cardinality({v \in Uploads : conn[v] = "open"}) < AtOnce
    /\ bgColor' = u
    /\ \/ /\ conn' = [conn EXCEPT ![u] = "open"]
          /\ Truncate
          /\ uploadOpen' = TRUE /\ uploadOk' = TRUE /\ uploadBytes' = 0
          /\ UNCHANGED trouble
       \/ /\ Fails("begin")
          /\ conn' = [conn EXCEPT ![u] = "done"]
          /\ Truncate \/ UNCHANGED <<staging, image, shared>>
          /\ UNCHANGED <<uploadOpen, uploadOk, uploadBytes>>
    /\ UNCHANGED <<sent, bgFile, meta, request, net, draw, nav, panel, received, newest, bounds>>

\* Mutant: a write that failed does not fail the upload.
PostReceiveGoesOn(u) ==
    /\ NetFree /\ conn[u] = "open" /\ sent[u] < Pieces
    /\ sent' = [sent EXCEPT ![u] = @ + 1]
    /\ \/ staging' = Append(staging, u) /\ UNCHANGED trouble
       \/ Fails("write") /\ UNCHANGED staging
    /\ uploadBytes' = uploadBytes + 1
    /\ UNCHANGED <<conn, image, bgFile, meta, shared, uploadOpen, uploadOk, bgColor, request,
                   net, draw, nav, panel, received, newest, bounds>>

\* httpd_post_receive_data(): the write of a pbuf succeeds or fails; after a
\* failure nothing more is written.
PostReceive(u) ==
    /\ NetFree /\ conn[u] = "open" /\ sent[u] < Pieces
    /\ sent' = [sent EXCEPT ![u] = @ + 1]
    /\ IF uploadOpen /\ uploadOk
       THEN \/ /\ staging' = Append(staging, u)
               /\ uploadBytes' = uploadBytes + 1
               /\ UNCHANGED <<uploadOk, trouble>>
            \/ Fails("write") /\ uploadOk' = FALSE /\ UNCHANGED <<staging, uploadBytes>>
       ELSE UNCHANGED <<staging, uploadBytes, uploadOk, trouble>>
    /\ UNCHANGED <<conn, image, bgFile, meta, shared, uploadOpen, bgColor, request,
                   net, draw, nav, panel, received, newest, bounds>>

\* Mutants: gallery.meta is saved, or the draw task is told, before the rename.
FinishStepsMetaFirst == <<"path", "openMeta", "writeMeta", "rename", "saveBg", "handOff">>
FinishStepsDrawFirst == <<"path", "handOff", "rename", "saveBg", "openMeta", "writeMeta">>

\* What httpd_post_finished() does for an upload that succeeded, in order.
FinishSteps == <<"path", "rename", "saveBg", "openMeta", "writeMeta", "handOff">>

\* httpd_post_finished() up to gallery_load_meta(), for an upload that is all there or
\* whose connection was cut. Its f_close may fail and leave the size at none, its read
\* of gallery.meta may fail and count none.
PostFinished(u) ==
    /\ NetFree /\ conn[u] = "open"
    /\ conn' = [conn EXCEPT ![u] = "done"]
    /\ uploadOpen' = FALSE
    /\ \E failed \in SUBSET ({"load"} \cup IF uploadOpen THEN {"close"} ELSE {}) :
         /\ staging' = IF "close" \in failed THEN <<>> ELSE staging
         /\ IF uploadOk /\ uploadBytes > 0
            THEN /\ net' = [todo  |-> FinishSteps,
                            count |-> IF "load" \in failed THEN 0 ELSE LoadMeta.count]
                 /\ received' = Append(received, u) /\ newest' = u
                 /\ Fail(failed \cup IF nav.at = "poll" THEN {} ELSE {"press"})
            ELSE "load" \notin failed /\ Fail(failed) /\ UNCHANGED <<net, received, newest>>
    /\ UNCHANGED <<sent, image, bgFile, meta, shared, uploadOk, uploadBytes, bgColor, request,
                   draw, nav, panel, bounds>>

NetStep(s) ==
    /\ net.todo # <<>> /\ Head(net.todo) = s
    /\ UNCHANGED <<browser, upload, draw, nav, panel, received, newest, bounds>>

\* the next step of httpd_post_finished()
NetNext == net' = [net EXCEPT !.todo = Tail(@)]

\* gallery_img_path(g_draw_path, ..., new_idx)
FinishPath ==
    /\ NetStep("path") /\ NetNext
    /\ drawPath' = net.count
    /\ UNCHANGED <<card, drawPending, drawBg, trouble>>

\* Mutant: a file of the new name is replaced.
RenameOver(s) ==
    /\ IF staging # None
       THEN image' = [image EXCEPT ![s] = staging] /\ staging' = None
       ELSE UNCHANGED <<image, staging>>
    /\ UNCHANGED <<shared, trouble>>

\* f_rename(incoming.bmp, g_draw_path), whose result is ignored: FR_NO_FILE, FR_EXIST,
\* or a card that fails before anything is done, or with the file under both names.
Rename(s) ==
    IF staging # None /\ image[s] = None
    THEN \/ /\ image' = [image EXCEPT ![s] = staging] /\ staging' = None /\ shared' = {}
            /\ UNCHANGED trouble
         \/ Fails("rename") /\ UNCHANGED <<image, staging, shared>>
         \/ /\ Fails("rename")
            /\ image' = [image EXCEPT ![s] = staging] /\ shared' = shared \cup {s}
            /\ UNCHANGED staging
    ELSE UNCHANGED <<image, staging, shared, trouble>>

FinishRename ==
    /\ NetStep("rename") /\ NetNext
    /\ Rename(drawPath)
    /\ UNCHANGED <<bgFile, meta, request>>

\* save_bg_color(): best effort, the file may stay as it was or be left empty
FinishSaveBg ==
    /\ NetStep("saveBg") /\ NetNext
    /\ \/ bgFile' = [bgFile EXCEPT ![net.count] = bgColor] /\ UNCHANGED trouble
       \/ Fails("bg") /\ (bgFile' = [bgFile EXCEPT ![net.count] = None] \/ UNCHANGED bgFile)
    /\ UNCHANGED <<staging, image, meta, shared, request>>

\* gallery_save_meta(): FA_CREATE_ALWAYS truncates the file; when it fails, perhaps
\* half way, gallery_save_meta() returns ...
FinishOpenMeta ==
    /\ NetStep("openMeta")
    /\ \/ NetNext /\ meta' = None /\ UNCHANGED trouble
       \/ /\ Fails("meta") /\ net' = [net EXCEPT !.todo = Tail(Tail(@))]
          /\ meta' \in {meta, None}
    /\ UNCHANGED <<staging, image, bgFile, shared, request>>

\* Mutants: the count is the index; the next index is the current one.
SavedMetaStale(i) == [count |-> i, current |-> i]

\* ... and its 8 bytes are there when it is closed, unless f_write or f_close fails.
SavedMeta(i) == [count |-> i + 1, current |-> i]

FinishWriteMeta ==
    /\ NetStep("writeMeta") /\ NetNext
    /\ \/ meta' = SavedMeta(net.count) /\ UNCHANGED trouble
       \/ Fails("meta") /\ meta' = None
    /\ UNCHANGED <<staging, image, bgFile, shared, request>>

\* The request meets the draw task at work, or finds it waiting.
FinishHandOff ==
    /\ NetStep("handOff") /\ NetNext
    /\ drawBg' = bgColor
    /\ drawPending' = TRUE
    /\ trouble' = trouble \cup (IF draw.at = "poll" THEN {} ELSE {"busy"})
    /\ UNCHANGED <<card, drawPath>>

FinishStep == FinishPath \/ FinishRename \/ FinishSaveBg \/ FinishOpenMeta
              \/ FinishWriteMeta \/ FinishHandOff
-----------------------------------------------------------------------------
(***************************************************************************)
(* draw_task_entry() and decode_and_draw_bmp().                            *)
(***************************************************************************)
DrawVars(actions) ==
    /\ actions
    /\ UNCHANGED <<browser, card, upload, drawPath, drawBg, net, nav, received, newest, bounds>>

\* g_draw_pending is seen, g_draw_bg is passed by value ...
DrawCall == DrawVars(
    /\ draw.at = "poll" /\ drawPending
    /\ draw' = [draw EXCEPT !.at = "open", !.bg = drawBg]
    /\ UNCHANGED <<drawPending, panel, trouble>>)

\* ... g_draw_path by reference: the file is opened and its header read; there may be
\* none, or either fails.
DrawOpen == DrawVars(
    /\ draw.at = "open"
    /\ \/ image[drawPath] \notin {None, <<>>} /\ UNCHANGED trouble
          /\ draw' = [draw EXCEPT !.at = "rows", !.slot = drawPath]
       \/ /\ IF image[drawPath] \in {None, <<>>} THEN UNCHANGED trouble ELSE Fails("draw")
          /\ draw' = [draw EXCEPT !.at = "drawn"]
    /\ UNCHANGED <<drawPending, panel>>)

\* The background and the rows over it; a read that fails leaves rows out.
DrawRows == DrawVars(
    /\ draw.at = "rows"
    /\ draw' = [draw EXCEPT !.at = "drawn"]
    /\ \/ panel' = [pic |-> image[draw.slot], bg |-> draw.bg] /\ UNCHANGED trouble
       \/ panel' = [pic |-> Garbled, bg |-> draw.bg] /\ Fails("draw")
    /\ UNCHANGED drawPending)

DrawClear == DrawVars(
    /\ draw.at = "drawn"
    /\ drawPending' = FALSE
    /\ draw' = IdleDraw
    /\ UNCHANGED <<panel, trouble>>)

DrawStep == DrawCall \/ DrawOpen \/ DrawRows \/ DrawClear
-----------------------------------------------------------------------------
(***************************************************************************)
(* nav_task_entry(): the button is released, after a short or a long press.*)
(***************************************************************************)
NavVars == <<browser, upload, net, draw, panel, received, cycles>>

\* Nothing happens when gallery.meta counts none or cannot be read.
NavLoad ==
    /\ nav.at = "poll" /\ presses < MaxPresses
    /\ presses' = presses + 1
    /\ \/ LoadMeta.count = 0 /\ UNCHANGED <<nav, newest, trouble>>
       \/ Fails("load") /\ UNCHANGED <<nav, newest>>
       \/ /\ LoadMeta.count > 0
          /\ \E step \in {1, LoadMeta.count - 1} :
               nav' = [at |-> "openMeta", count |-> LoadMeta.count,
                       current |-> (LoadMeta.current + step) % LoadMeta.count]
          /\ newest' = None
          /\ trouble' = trouble \cup (IF NetFree THEN {} ELSE {"press"})
    /\ UNCHANGED <<NavVars, card, request>>

\* gallery_save_meta(), as above
NavOpenMeta ==
    /\ nav.at = "openMeta"
    /\ \/ meta' = None /\ nav' = [nav EXCEPT !.at = "writeMeta"] /\ UNCHANGED trouble
       \/ Fails("meta") /\ meta' \in {meta, None} /\ nav' = [nav EXCEPT !.at = "path"]
    /\ UNCHANGED <<NavVars, newest, presses, staging, image, bgFile, shared, request>>

NavWriteMeta ==
    /\ nav.at = "writeMeta"
    /\ \/ meta' = [count |-> nav.count, current |-> nav.current] /\ UNCHANGED trouble
       \/ Fails("meta") /\ meta' = None
    /\ nav' = [nav EXCEPT !.at = "path"]
    /\ UNCHANGED <<NavVars, newest, presses, staging, image, bgFile, shared, request>>

\* gallery_show()
NavPath ==
    /\ nav.at = "path"
    /\ drawPath' = nav.current
    /\ nav' = [nav EXCEPT !.at = "handOff"]
    /\ UNCHANGED <<NavVars, newest, trouble, presses, card, drawPending, drawBg>>

NavHandOff ==
    /\ nav.at = "handOff"
    /\ \/ drawBg' = LoadBg(nav.current) /\ UNCHANGED trouble
       \/ Fails("bg") /\ drawBg' = Black
    /\ drawPending' = TRUE
    /\ nav' = IdleNav
    /\ UNCHANGED <<NavVars, newest, presses, card, drawPath>>

NavStep == NavOpenMeta \/ NavWriteMeta \/ NavPath \/ NavHandOff
-----------------------------------------------------------------------------
\* What app_register_commands() shows before the tasks start: the current picture,
\* if there is one, or less of it when a read fails.
Current        == image[LoadMeta.current]
Restored       == [pic |-> Current, bg |-> LoadBg(LoadMeta.current)]
PartlyRestored == {NoPicture, [Restored EXCEPT !.pic = Garbled], [Restored EXCEPT !.bg = Black]}

\* The power goes and comes back: the connections are gone, the globals are zero, and
\* a file that was not closed has no size. "power" is power lost while a picture was
\* being filed or gallery.meta saved.
PowerCycle ==
    /\ cycles < MaxCycles
    /\ cycles' = cycles + 1
    /\ conn' = [u \in Uploads |-> IF conn[u] = "open" THEN "done" ELSE conn[u]]
    /\ staging' = IF uploadOpen THEN <<>> ELSE staging
    /\ uploadOpen' = FALSE /\ uploadOk' = FALSE /\ uploadBytes' = 0
    /\ bgColor' = Black
    /\ drawPending' = FALSE /\ drawPath' = None /\ drawBg' = Black
    /\ net' = IdleNet /\ draw' = IdleDraw /\ nav' = IdleNav
    /\ newest' = None
    /\ LET hit == IF NetFree /\ nav.at # "writeMeta" THEN {} ELSE {"power"}
       IN  IF LoadMeta.count = 0 \/ Current \in {None, <<>>}
           THEN panel' = NoPicture /\ Fail(hit)
           ELSE \/ panel' = Restored /\ Fail(hit)
                \/ panel' \in PartlyRestored /\ Fail(hit \cup {"draw"})
    /\ UNCHANGED <<sent, image, bgFile, meta, shared, received, presses>>

Next ==
    \/ \E u \in Uploads : PostBegin(u) \/ PostReceive(u) \/ PostFinished(u)
    \/ FinishStep
    \/ DrawStep
    \/ NavLoad
    \/ NavStep
    \/ PowerCycle

\* A browser sends on or closes, and every task keeps running.
Fairness ==
    /\ WF_vars(\E u \in Uploads : PostReceive(u) \/ PostFinished(u))
    /\ WF_vars(FinishStep)
    /\ WF_vars(DrawStep)
    /\ WF_vars(NavStep)

Spec == Init /\ [][Next]_vars
FairSpec == Spec /\ Fairness
-----------------------------------------------------------------------------
(***************************************************************************)
(* Properties.                                                             *)
(***************************************************************************)
Metas   == [count : 0 .. Cardinality(Uploads), current : Slots]
Bytes   == UNION {[1 .. n -> Uploads] : n \in 0 .. Pieces * Cardinality(Uploads)}
Colours == Uploads \cup {Black}

\* Every variable has its type; in particular no count passes the slots.
GalleryTypeOK ==
    /\ conn \in [Uploads -> {"new", "open", "done"}] /\ sent \in [Uploads -> 0 .. Pieces]
    /\ staging \in Bytes \cup {None}
    /\ \A s \in Slots : image[s] \in Bytes \cup {None, Garbled} /\ bgFile[s] \in Colours
    /\ meta \in Metas \cup {None} /\ shared \subseteq Slots
    /\ {uploadOpen, uploadOk, drawPending} \subseteq BOOLEAN
    /\ uploadBytes \in Nat /\ {bgColor, drawBg} \subseteq Colours
    /\ drawPath \in Slots \cup {None}
    /\ net.count \in 0 .. Cardinality(Uploads) /\ draw.bg \in Colours
    /\ panel.pic \in Bytes \cup {None, Garbled} /\ panel.bg \in Colours

\* Nothing of what is in s has gone wrong so far.
Spared(s) == s \cap trouble = {}

\* What the callbacks have had of u.
Sent(u) == [i \in 1 .. sent[u] |-> u]
InSlot(u) == \E s \in Slots : image[s] = Sent(u)

\* A picture that has its slot is there for good: no later upload, press or power cycle
\* takes or changes it (FinishRename meets a stale count with FR_EXIST), except one that
\* a failed rename left under the name of incoming.bmp too (PostBegin frees its clusters).
PicturesKept ==
    [][\A s \in Slots \ shared : image[s] # None => image'[s] = image[s]]_vars

\* One connection at a time, a slot holds all that came of one upload and nothing of
\* another, however its writes fared and wherever it was cut; a close that failed may
\* leave it empty, and a rename that failed half way may cost it its clusters.
WholePictures ==
    /\ GalleryTypeOK
    /\ \A s \in Slots :
         \/ image[s] = None
         \/ \E u \in Uploads : conn[u] = "done" /\ sent[u] > 0 /\ image[s] = Sent(u)
         \/ image[s] = <<>> /\ "close" \in trouble
         \/ image[s] = Garbled /\ "rename" \in trouble

\* Unless a rename failed or a press fell into the filing of a picture, what gallery.meta
\* counts is there, and what it calls current is counted, also after a power cycle between
\* any two steps and over reads, closes and saves that fail: nav_task_entry() divides by
\* the count and gallery_show() opens the current one.
CountedExist ==
    meta # None /\ Spared({"rename", "press"}) =>
        /\ meta.current < meta.count
        /\ \A i \in 0 .. meta.count - 1 : image[i] # None

\* "every successful upload gets its own numbered slot": when httpd_post_finished() has
\* returned, every upload it reported as received is in a slot, as much as came of it.
EveryUploadKept == NetFree => \A i \in DOMAIN received : InSlot(received[i])

\* It is so, one connection at a time, as long as neither a press nor a power cycle falls
\* into the filing of a picture or the save of gallery.meta, and of the operations whose
\* result nobody looks at none fails that files a picture or counts it: over presses and
\* power cycles at all other times, denied and cut uploads, writes and reads that fail.
UndisturbedKept == Spared({"close", "load", "rename", "meta", "press", "power"}) => EveryUploadKept

\* The picture received last is, in the end, the one on the panel, on the background
\* picked for it (FinishSteps, DrawStep), unless the button or a power cycle asks for
\* another one, it was not filed, it could not be read, or it was handed over while the
\* draw task was at work on another.
Shown(u) == panel = [pic |-> Sent(u), bg |-> u]
FiledIsDrawn ==
    \A u \in Uploads :
        newest = u ~> \/ Shown(u) \/ newest # u
                      \/ ~Spared({"close", "load", "rename", "meta", "press", "power", "draw", "busy"})

\* Without the last exception: draw_task_entry() clears a request that it did not serve.
NewestIsDrawn ==
    \A u \in Uploads :
        newest = u ~> \/ Shown(u) \/ newest # u
                      \/ ~Spared({"close", "load", "rename", "meta", "press", "power", "draw"})
=============================================================================
