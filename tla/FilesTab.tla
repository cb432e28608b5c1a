------------------------------- MODULE FilesTab -------------------------------
(***************************************************************************)
(* The file browser of the console: FilesTab.tsx, the CodeMirror wrapper   *)
(* Editor.tsx it mounts, and the guest file calls of lib/files.ts.         *)
(*                                                                         *)
(* A handler runs to its first await in one step, against the state of the *)
(* last render; what follows the await is a later step that still sees the *)
(* `file` of the render it started in (the closure).  Each request is sent,*)
(* takes effect on the guest disk, and is answered in three steps, so that *)
(* answers overtake each other and the user keeps typing meanwhile.        *)
(*                                                                         *)
(* What a handler sets after its await is on screen one render later       *)
(* (Render), and keys and clicks reach the old screen until then; what it  *)
(* writes to a ref is there at once.  An event's own updates are rendered, *)
(* with all that waited, before the next event (Flush).                    *)
(***************************************************************************)
EXTENDS Naturals, FiniteSets

CONSTANTS Paths,      \* guest files
          Values,     \* what a user can type; Empty is one of them
          Empty,      \* the text ""
          Uploads,    \* bound: what is uploaded, and to where
          InitDisk,   \* the files of the guest when the tab first opens
          Slots,      \* bound: requests in flight at once
          MaxGen,     \* bound: files opened over a behaviour (genRef)
          Prompt,     \* whether a render that is due comes before a key or Save
          None        \* null

Text(p, v) == [of |-> p, kind |-> "text", v |-> v]
Contents == [of : Paths, kind : {"text", "binary", "large", "huge"}, v : Values]

ASSUME FilesAssumption ==
  /\ Empty \in Values /\ Uploads \subseteq Contents /\ Prompt \in BOOLEAN
  /\ None \notin Contents
  /\ \A p \in Paths : None # p
  /\ InitDisk \in [Paths -> Contents \cup {None}]
  /\ \A p \in Paths : InitDisk[p] # None => InitDisk[p].of = p

VARIABLES
  disk,        \* the guest disk; None where there is no file
  listing,     \* the cached directory listing the tree renders
  running,     \* sb.state === "RUNNING"
  file,        \* useState<OpenFile | null>, and with the two below as last rendered
  dirty, saving,
  next,        \* file, dirty and saving as the next render will have them
  busy,        \* the spinner; no handler reads it
  dialog,      \* [pending: pendingOpen, newFile: newFileOpen]
  latest,      \* latestTextRef
  editor,      \* the mounted Editor: its key, the text it was created with, its doc
  gen,         \* genRef; LeaveTab leaves it, a key need only be fresh
  calls,       \* requests in flight, by slot
  unsaved,     \* ghost: the editor holds keystrokes no save was answered for
  overlap      \* ghost: the user acted while a request was in flight or a
               \* render due

ui == <<file, dirty, saving, next, busy, dialog, latest, editor, gen>>
vars == <<disk, listing, running, ui, calls, unsaved, overlap>>

-----------------------------------------------------------------------------
OpenFiles == [path : Paths, text : Contents, binary : BOOLEAN,
              tooLarge : BOOLEAN, readOnly : BOOLEAN, generation : Nat]
Editors == [key : Paths \X Nat, initial : Contents, doc : Contents]
NoFile == None
NoEditor == None

\* One entry per request; `then` is what the handler does after it, `file`
\* the closure's file, `live` whether the tab that sent it is still mounted.
Call == [op : {"read", "write", "list"}, path : Paths, text : Contents,
         then : {"open", "save", "create", "upload"}, forced : BOOLEAN,
         file : OpenFiles \cup {None}, live : BOOLEAN,
         at : {"sent", "done"}, got : Contents \cup {None}]

ASSUME NoneAssumption == None \notin Call /\ None \notin Editors

InFlight == {s \in Slots : calls[s] # None}
Idle == InFlight = {}
Send(c) == /\ InFlight # Slots
           /\ calls' = [calls EXCEPT ![CHOOSE s \in Slots : calls[s] = None] = c]

readGuestFile(p, forced) ==
  [op |-> "read", path |-> p, text |-> Text(p, Empty), then |-> "open",
   forced |-> forced, file |-> None, live |-> TRUE, at |-> "sent", got |-> None]
writeGuestFile(p, text, then, f) ==
  [op |-> "write", path |-> p, text |-> text, then |-> then, forced |-> TRUE,
   file |-> f, live |-> TRUE, at |-> "sent", got |-> None]
refreshTree(c) == [c EXCEPT !.op = "list"]

\* The editor guards: the kind of the bytes stands for the NUL sniff and for
\* the sizes against EDIT_WARN_BYTES and EDIT_MAX_BYTES.
looksBinary(b) == b.kind = "binary"
tooLarge(b) == b.kind = "huge"
readOnly(b) == b.kind = "large"
\* Mutant: no text for what cannot be shown.
DecodedNull(b) == IF looksBinary(b) \/ tooLarge(b) THEN None ELSE b

Decoded(b) == IF looksBinary(b) \/ tooLarge(b) THEN Text(b.of, Empty) ELSE b
Shown(f) == f # None /\ ~f.binary /\ ~f.tooLarge

Key(f) == <<f.path, f.generation>>
Mount(f) == [key |-> Key(f), initial |-> f.text, doc |-> f.text]
\* React keeps a mounted Editor e as long as its key does not change.
Rendered(e, f, up) ==
  IF ~up \/ ~Shown(f) THEN NoEditor
  ELSE IF e # NoEditor /\ e.key = Key(f) THEN e ELSE Mount(f)

Modal == dialog.pending # None \/ dialog.newFile
NoDialog == [pending |-> None, newFile |-> FALSE]

Screen == [file |-> file, dirty |-> dirty, saving |-> saving]
Blank == [file |-> NoFile, dirty |-> FALSE, saving |-> FALSE]
Due == next # Screen
Busied == overlap' = (overlap \/ ~Idle \/ Due)

\* React renders all that is set; e is the Editor mounted before, u whether it
\* holds unsaved keystrokes.
Flush(e, u) ==
  /\ file' = next'.file /\ dirty' = next'.dirty /\ saving' = next'.saving
  /\ editor' = Rendered(e, next'.file, running')
  /\ unsaved' = (u /\ editor' = e)

-----------------------------------------------------------------------------
\* Mutant: the dirty flag of the file before stays.
StartOpenKeepDirty(p, forced) ==
  /\ gen + Cardinality({s \in InFlight : calls[s].then \in {"open", "create"}}) <= MaxGen
  /\ Send(readGuestFile(p, forced))
  /\ busy' = TRUE /\ UNCHANGED next

\* The part of openFile before its await.
StartOpen(p, forced) ==
  /\ gen + Cardinality({s \in InFlight : calls[s].then \in {"open", "create"}}) <= MaxGen
  /\ Send(readGuestFile(p, forced))
  /\ busy' = TRUE /\ next' = [next EXCEPT !.dirty = FALSE]

\* Mutant: no confirm.
ClickFileNoConfirm(p) ==
  /\ running /\ ~Modal /\ p \in listing
  /\ StartOpen(p, FALSE)
  /\ UNCHANGED <<disk, listing, running, dialog, latest, gen>>
  /\ Flush(editor, unsaved) /\ Busied

\* A click on a file of the tree: openFile(path).
ClickFile(p) ==
  /\ running /\ ~Modal /\ p \in listing
  /\ \/ /\ dirty
        /\ dialog' = [dialog EXCEPT !.pending = p]
        /\ UNCHANGED <<calls, next, busy>>
     \/ /\ ~dirty
        /\ StartOpen(p, FALSE)
        /\ UNCHANGED dialog
  /\ UNCHANGED <<disk, listing, running, latest, gen>>
  /\ Flush(editor, unsaved) /\ Busied

\* "Discard changes" in the confirm dialog.
ConfirmDiscard ==
  /\ running /\ dialog.pending # None
  /\ StartOpen(dialog.pending, TRUE)
  /\ dialog' = [dialog EXCEPT !.pending = None]
  /\ UNCHANGED <<disk, listing, running, latest, gen>>
  /\ Flush(editor, FALSE) /\ Busied

CloseDialog ==
  /\ running /\ Modal
  /\ dialog' = NoDialog
  /\ UNCHANGED <<disk, listing, running, busy, latest, gen, calls>>
  /\ UNCHANGED next /\ Flush(editor, unsaved) /\ Busied

NewFileClick ==
  /\ running /\ ~Modal
  /\ dialog' = [dialog EXCEPT !.newFile = TRUE]
  /\ UNCHANGED <<disk, listing, running, busy, latest, gen, calls>>
  /\ UNCHANGED next /\ Flush(editor, unsaved) /\ Busied

\* NewFileDialog's submit: close it and run createFile up to its first await.
CreateFile(p) ==
  /\ running /\ dialog.newFile
  /\ gen + Cardinality({s \in InFlight : calls[s].then \in {"open", "create"}}) <= MaxGen
  /\ dialog' = [dialog EXCEPT !.newFile = FALSE]
  /\ Send(writeGuestFile(p, Text(p, Empty), "create", None))
  /\ UNCHANGED <<disk, listing, running, busy, latest, gen>>
  /\ UNCHANGED next /\ Flush(editor, unsaved) /\ Busied

\* The hidden file input: upload(f, currentDir), which sets no state.
Upload(b) ==
  /\ running /\ ~Modal
  /\ Send(writeGuestFile(b.of, b, "upload", None))
  /\ Busied
  /\ UNCHANGED <<disk, listing, running, ui, unsaved>>

\* The refresh button, or a directory node being expanded (useDirectory).
RefreshListing ==
  /\ running /\ ~Modal
  /\ listing' = {p \in Paths : disk[p] # None}
  /\ UNCHANGED <<disk, running, ui, calls, unsaved, overlap>>

\* A keystroke.  The spinner over the pane stops the mouse, not the keyboard.
Type(v) ==
  /\ editor # NoEditor /\ ~Modal /\ ~file.readOnly
  /\ v # editor.doc.v
  /\ Prompt => ~Due
  /\ UNCHANGED <<disk, listing, running, busy, dialog, gen, calls>>
  /\ LET text == Text(file.path, v) IN
       /\ next' = [next EXCEPT !.dirty = (text # editor.initial)]
       /\ latest' = text
       /\ Flush([editor EXCEPT !.doc = text], TRUE)
  /\ Busied

\* save(text) up to its await.
Save(text) ==
  /\ file # NoFile /\ ~file.readOnly /\ ~file.binary
  /\ Send(writeGuestFile(file.path, text, "save", file))
  /\ next' = [next EXCEPT !.saving = TRUE]
  /\ UNCHANGED <<disk, listing, running, busy, dialog, latest, gen>>
  /\ Flush(editor, unsaved) /\ Busied

ToolbarSave ==
  /\ running /\ ~Modal /\ file # NoFile
  /\ dirty /\ ~file.readOnly /\ ~file.binary /\ ~saving
  /\ Prompt => ~Due
  /\ Save(latest)

\* Mod-S in the editor: neither `dirty` nor `saving` stops it.
ModS ==
  /\ editor # NoEditor /\ ~Modal
  /\ Save(editor.doc)

\* The user turns to another tab, or the workspace unmounts its tabs because
\* the row of the sandbox failed to load: the component and all its state go.
LeaveTab ==
  /\ dialog' = NoDialog /\ latest' = None /\ busy' = FALSE
  /\ UNCHANGED <<disk, listing, running, gen, overlap>>
  /\ next' = Blank /\ Flush(NoEditor, FALSE)
  /\ calls' = [s \in Slots |-> IF calls[s] = None THEN None
                               ELSE [calls[s] EXCEPT !.live = FALSE]]

\* The sandbox row leaves or reaches RUNNING: the early return unmounts the
\* panes but keeps the component's state.
NotRunning ==
  /\ running /\ running' = FALSE
  /\ UNCHANGED next /\ Flush(editor, unsaved)
  /\ UNCHANGED <<disk, listing, busy, dialog, latest, gen, calls, overlap>>

Running ==
  /\ ~running /\ running' = TRUE
  /\ UNCHANGED next /\ Flush(editor, unsaved)
  /\ UNCHANGED <<disk, listing, busy, dialog, latest, gen, calls, overlap>>

-----------------------------------------------------------------------------
\* The guest agent serves a request to its end.
Serve(s) ==
  /\ s \in InFlight /\ calls[s].at = "sent"
  /\ LET c == calls[s] IN
       /\ calls' = [calls EXCEPT ![s].at = "done",
                                   ![s].got = IF c.op = "read" THEN disk[c.path] ELSE None]
       /\ disk' = IF c.op = "write" THEN [disk EXCEPT ![c.path] = c.text] ELSE disk
  /\ UNCHANGED <<listing, running, ui, unsaved, overlap>>

\* What openFile makes of the bytes it read.
Opened(c) ==
  [path |-> c.path, text |-> Decoded(c.got), binary |-> looksBinary(c.got),
   tooLarge |-> tooLarge(c.got), readOnly |-> readOnly(c.got), generation |-> gen]

\* Mutant: latestTextRef keeps the text of the file before.
OpenAnsweredNoMirror(s) ==
  /\ calls[s].op = "read" /\ calls[s].got # None /\ calls[s].live
  /\ calls' = [calls EXCEPT ![s] = None]
  /\ next' = [next EXCEPT !.file = Opened(calls[s])] /\ gen' = gen + 1 /\ busy' = FALSE
  /\ UNCHANGED <<disk, listing, running, file, dirty, saving, dialog, latest,
                 editor, unsaved, overlap>>

\* The rest of openFile when the bytes arrive.
OpenAnswered(s) ==
  /\ calls[s].op = "read" /\ calls[s].got # None
  /\ calls' = [calls EXCEPT ![s] = None]
  /\ IF calls[s].live
     THEN LET f == Opened(calls[s]) IN
            /\ latest' = f.text
            /\ next' = [next EXCEPT !.file = f] /\ gen' = gen + 1 /\ busy' = FALSE
     ELSE UNCHANGED <<latest, next, gen, busy>>
  /\ UNCHANGED <<disk, listing, running, file, dirty, saving, dialog, editor,
                 unsaved, overlap>>

\* The rest of save.
SaveAnswered(s) ==
  /\ calls[s].then = "save"
  /\ calls' = [calls EXCEPT ![s] = None]
  /\ IF calls[s].live
     THEN /\ next' = [file |-> [calls[s].file EXCEPT !.text = calls[s].text],
                      dirty |-> FALSE, saving |-> FALSE]
          /\ unsaved' = FALSE
     ELSE UNCHANGED <<next, unsaved>>
  /\ UNCHANGED <<disk, listing, running, file, dirty, saving, busy, dialog,
                 latest, editor, gen, overlap>>

\* createFile and upload go on to refreshTree.
WriteAnswered(s) ==
  /\ calls[s].op = "write" /\ calls[s].then \in {"create", "upload"}
  /\ calls' = [calls EXCEPT ![s] = refreshTree(calls[s])]
  /\ UNCHANGED <<disk, listing, running, ui, unsaved, overlap>>

\* invalidateQueries resolves, whether the listing came or not (it is only
\* fetched while the tree is on screen); createFile then runs
\* openFile(path, true) to its await.
ListAnswered(s) ==
  /\ calls[s].op = "list"
  /\ \/ running /\ listing' = {p \in Paths : disk[p] # None}
     \/ UNCHANGED listing
  /\ IF calls[s].then = "create"
     THEN /\ calls' = [calls EXCEPT ![s] = [readGuestFile(calls[s].path, TRUE)
                                              EXCEPT !.live = calls[s].live]]
          /\ busy' = (busy \/ calls[s].live)
          /\ next' = [next EXCEPT !.dirty = (@ /\ ~calls[s].live)]
          /\ unsaved' = (unsaved /\ ~calls[s].live)
     ELSE calls' = [calls EXCEPT ![s] = None] /\ UNCHANGED <<busy, next, unsaved>>
  /\ UNCHANGED <<disk, running, file, dirty, saving, dialog, latest, editor,
                 gen, overlap>>

Answer(s) ==
  /\ s \in InFlight /\ calls[s].at = "done"
  /\ \/ OpenAnswered(s)
     \/ SaveAnswered(s)
     \/ WriteAnswered(s)
     \/ ListAnswered(s)

\* Mutant: no finally.
CallFailsNoFinally(s) ==
  /\ s \in InFlight /\ calls[s].op # "list"
  /\ calls' = [calls EXCEPT ![s] = None]
  /\ UNCHANGED <<disk, listing, running, ui, unsaved, overlap>>

\* The request or its answer is lost, or the file is not there: the catch and
\* finally of its handler.  The guest truncates before it writes, so a write
\* cut off half way leaves a file without its text.
CallFails(s) ==
  /\ s \in InFlight /\ calls[s].op # "list"
  /\ calls' = [calls EXCEPT ![s] = None]
  /\ \/ UNCHANGED disk
     \/ /\ calls[s].op = "write" /\ calls[s].at = "sent"
        /\ disk' = [disk EXCEPT ![calls[s].path] = Text(calls[s].path, Empty)]
  /\ IF calls[s].live
     THEN /\ busy' = (busy /\ calls[s].then # "open")
          /\ next' = [next EXCEPT !.saving = (@ /\ calls[s].then # "save")]
     ELSE UNCHANGED <<busy, next>>
  /\ UNCHANGED <<listing, running, file, dirty, saving, dialog, latest,
                 editor, gen, unsaved, overlap>>

\* React renders what the handlers have set.
Render ==
  /\ Due
  /\ UNCHANGED <<disk, listing, running, busy, dialog, latest, gen, calls,
                 overlap>>
  /\ UNCHANGED next /\ Flush(editor, unsaved)

-----------------------------------------------------------------------------
Init ==
  /\ disk = InitDisk /\ listing = {p \in Paths : InitDisk[p] # None}
  /\ running = TRUE
  /\ file = NoFile /\ dirty = FALSE /\ busy = FALSE /\ saving = FALSE
  /\ next = Blank /\ dialog = NoDialog /\ latest = None /\ editor = NoEditor /\ gen = 1
  /\ calls = [s \in Slots |-> None]
  /\ unsaved = FALSE /\ overlap = FALSE

User == \/ \E p \in Paths : ClickFile(p) \/ CreateFile(p)
        \/ \E b \in Uploads : Upload(b)
        \/ \E v \in Values : Type(v)
        \/ ConfirmDiscard \/ CloseDialog \/ NewFileClick \/ RefreshListing
        \/ ToolbarSave \/ ModS \/ LeaveTab

Next == \/ User
        \/ NotRunning \/ Running \/ Render
        \/ \E s \in Slots : Serve(s) \/ Answer(s) \/ CallFails(s)

Spec == Init /\ [][Next]_vars

-----------------------------------------------------------------------------
TypeOK ==
  /\ disk \in [Paths -> Contents \cup {None}] /\ listing \subseteq Paths
  /\ {Screen, next} \subseteq [file : OpenFiles \cup {None}, dirty : BOOLEAN,
                               saving : BOOLEAN]
  /\ latest \in Contents \cup {None}
  /\ {running, busy, unsaved, overlap} \subseteq BOOLEAN
  /\ dialog \in [pending : Paths \cup {None}, newFile : BOOLEAN]
  /\ editor \in Editors \cup {None}
  /\ gen \in Nat \ {0}
  /\ calls \in [Slots -> Call \cup {None}]

\* Text only ever lands in the file it came from: whatever answers are late,
\* lost or out of order, and however often the guest stops in between, no
\* save writes what was loaded from or typed into one file over another
\* (save takes its path from the closure's file and its text from
\* latestTextRef, which are two pieces of state).  Under Prompt: a key or a
\* click on Save between an answer and the render of what it set makes the
\* two differ.  Mod-S, which passes the editor's own text, does not.
NoCrossWrite == \A p \in Paths : disk[p] # None => disk[p].of = p

\* A save never goes out for a binary or read-only file.  One goes out for a
\* file over EDIT_MAX_BYTES only after the user acted under some request or
\* before its render: the Save button does not look at tooLarge, and a late
\* onDirty enables it.
SaveTargets ==
  \A s \in InFlight : calls[s].then = "save" =>
    /\ ~calls[s].file.readOnly /\ ~calls[s].file.binary
    /\ calls[s].file.tooLarge => overlap

\* openFile(path, true) starts.
Forced == \E s \in Slots : /\ calls'[s] # calls[s] /\ calls'[s] # None
                          /\ calls'[s].op = "read" /\ calls'[s].forced

\* Keystrokes stop being unsaved only when they are on disk, when the user
\* agreed to discard them (the confirm, a new file), when the tab is gone
\* (left by the user, or unmounted because the row failed to load), when they
\* only undo to the text the editor was created with, when the guest stops
\* (the editor unmounts, and comes back with the text last loaded or saved),
\* or once the user did not wait for a request and its render.
UnsavedKept ==
  [][unsaved /\ ~unsaved' =>
       \/ file' = NoFile \/ ~running' \/ Forced \/ overlap
       \/ editor.doc = editor.initial
       \/ disk[file.path] = editor.doc]_vars

\* The spinner over the editor and the busy Save button never get stuck: one
\* that the next render has on belongs to a request of this tab still in
\* flight, whose answer or failure turns it off (each handler's finally).
SpinnerOwned ==
  /\ busy => \E s \in InFlight : calls[s].live /\ calls[s].op = "read"
  /\ next.saving => \E s \in InFlight : calls[s].live /\ calls[s].then = "save"
=============================================================================
